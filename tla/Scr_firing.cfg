SPECIFICATION FairSpec
CONSTANTS
  OneMs = 1
  Delays = {1, 4, 7, 8, 9, 10}
  SingleStable = 9
  LowCZWarnTime = 8
  NPeriod = 10
  PPeriod = 12
  Int0StableNum = 3
  Gaps = {10, 11, 12}
  Glitches = {1, 5, 7}
INVARIANT TypeOK
INVARIANT FiringWindow
PROPERTY EveryHalfWaveFired
PROPERTY FiredOnce
PROPERTY ValidAgain
