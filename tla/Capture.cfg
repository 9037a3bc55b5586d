SPECIFICATION FairSpec
CONSTANTS
  PoolSize = 1
  RuntimeSize = 2
  Wrap = 10
  Word = 16
  Period = 4
  Gap = {1, 4, 12}
INVARIANTS
  PoolBacked
  HoldersCounted
  CleanEnd
  FreshInputUnlocked
  PRunBounded
  FirstIsI
PROPERTIES
  CallReturns
CHECK_DEADLOCK FALSE
