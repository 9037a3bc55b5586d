SPECIFICATION OpenSpec
CONSTANTS
  s1 = s1
  s2 = s2
  s3 = s3
  s4 = s4
  Student = {s1, s2, s3, s4}
  Seat <- MCSeat
  Misread = {s4}
  MaxLen = 2
  Blank = Blank
  OutOfRange = OutOfRange
INVARIANTS
  OneRowPerSeat
  PickHasCause
CHECK_DEADLOCK FALSE
