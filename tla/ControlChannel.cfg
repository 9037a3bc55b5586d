SPECIFICATION FairSpec
CONSTANTS
  FdSize = 3
  MaxConn = 4
INVARIANTS
  SetMatches
  InOrderUnlessSkipped
  DeafOnlyAfterClash
PROPERTY Obeyed
CHECK_DEADLOCK FALSE
