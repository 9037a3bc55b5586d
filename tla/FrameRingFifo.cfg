SPECIFICATION UnracedSpec
CONSTANTS
  Num = 3
  MaxFrame = 8
PROPERTY ImplementsFifo
CHECK_DEADLOCK FALSE
