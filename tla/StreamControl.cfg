SPECIFICATION FairSpec
CONSTANT Num = 3
INVARIANTS
  TornHasCause
  NoFrameTwice
  ReplayBounded
  WedgeHasCause
PROPERTY Resumes
