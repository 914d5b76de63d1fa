SPECIFICATION Spec
CONSTANTS
  Requests <- TwoWrites
  AddrOf <- ToUs
  FrameLen = 3
  BufSize = 3
  T35 = 3
  Patience = 4
  None = None
  Mixed = Mixed
INVARIANT NoAssertFails
