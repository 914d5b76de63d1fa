SPECIFICATION Spec
CONSTANTS
  OverCurNum = 5
  StrongOverNum = 2
  CirOpenNum = 3
  ByteRange = 8
  RunCap = 6
  AlarmWrites = {{}, {"CirOverCur"}}
INVARIANT StrongOverCurTrips
