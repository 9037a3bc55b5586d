SPECIFICATION Spec
CONSTANTS
  Conn = {c1, c2, c3}
  MaxConn = 3
  None = None
INVARIANTS
  WellFormed
  UndisturbedReachesAll
PROPERTY InnocentKept
SYMMETRY Symmetry
CHECK_DEADLOCK FALSE
