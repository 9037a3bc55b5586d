SPECIFICATION Spec
CONSTANTS
  Conn = {c1, c2, c3}
  MaxConn = 3
  None = None
INVARIANT BroadcastReachesAll
SYMMETRY Symmetry
CHECK_DEADLOCK FALSE
