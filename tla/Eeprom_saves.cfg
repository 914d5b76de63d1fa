SPECIFICATION FairSpec
CONSTANTS
  Cmds <- CmdValues
  Cals <- OneCal
  DefaultCmd = "off"
  DefaultCal = "a"
  MidPages = 0
  MaxCuts = 0
  MaxErrors = 1
  TornImage = TornImage
INVARIANT SomeoneGoesOn
PROPERTY UrgentFirst
PROPERTY SaveEnds
