SPECIFICATION Spec
CONSTANTS
  OneMs = 1
  Delays = {9}
  SingleStable = 9
  LowCZWarnTime = 8
  NPeriod = 10
  PPeriod = 12
  Int0StableNum = 3
  Gaps = {10, 11, 12}
  Glitches = {}
INVARIANT NotBeforeDelay
