SPECIFICATION Spec
CONSTANTS
  MaxLevel = 1
  Positions = {}
  Requests <- CommandRequests
  ShellCmds = {"set_idensity", "relay_on", "relay_off", "set_angle", "pid_on", "pid_off"}
  ShellLevels = {0}
  BootRegs <- OrderBoots
  MaxSem = 1
VIEW BearsOnOrders
INVARIANT OrderSeen
INVARIANT OffMeansOpen
PROPERTY RoundTrips
