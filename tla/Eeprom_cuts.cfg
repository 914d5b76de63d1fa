SPECIFICATION Spec
CONSTANTS
  Cmds <- CmdValues
  Cals <- CalValues
  DefaultCmd = "off"
  DefaultCal = "a"
  MidPages = 1
  MaxCuts = 1
  MaxErrors = 0
  TornImage = TornImage
INVARIANT TypeOK
INVARIANT WholeWhenFree
PROPERTY OkMeansWritten
PROPERTY GoodImageKept
PROPERTY ImplementsStore
