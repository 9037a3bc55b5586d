SPECIFICATION FairSpec
CONSTANTS
  Num = 3
  MaxFrame = 8
INVARIANTS
  TypeOK
  NoOverlap
  OnlyFirstTorn
  InOrder
  LateByLessThanATurn
  NoLostFrame
PROPERTY Delivered
CHECK_DEADLOCK FALSE
