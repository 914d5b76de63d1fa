SPECIFICATION FairSpec
CONSTANTS
  MaxLevel = 5
  Positions = {0, 2, 5}
  Requests <- None
  ShellCmds = {}
  ShellLevels = {}
  BootRegs <- LocalBoots
  MaxSem = 1
INVARIANT TypeOK
 
 
PROPERTY OpensOnlyForCause
 
PROPERTY FaultTrips
PROPERTY ZeroLevelOpens
PROPERTY SelectedLevelHeld
