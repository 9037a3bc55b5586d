SPECIFICATION FairSpecAll
CONSTANTS
  MaxClicks = 3
  FdSize = 2
INVARIANT ClassroomSees
PROPERTY Settles
CHECK_DEADLOCK FALSE
