SPECIFICATION PSpec
CONSTANTS
  OverCurNum = 3
  StrongOverNum = 2
  CirOpenNum = 2
  ByteRange = 4
  RunCap = 4
  AlarmWrites = {{}, {"CirOverCur"}}
  Window = 2
  Currents = {100, 750, 1000}
  LowCurrent = 100
  OverCurAlarmValue = 693
  StrongOverCurAlarmValue = 825
INVARIANT TypeOK
INVARIANT OverCurTrips
INVARIANT MeasuredLoad
PROPERTY OverCurIsSustained
PROPERTY OpensWhenDied
