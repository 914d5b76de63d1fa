SPECIFICATION Spec
CONSTANTS
  MaxLevel = 5
  Positions = {}
  Requests <- OnOffWrites
  ShellCmds = {}
  ShellLevels = {}
  BootRegs <- DefaultBoot
  MaxSem = 1
INVARIANT OnMeansClosed
