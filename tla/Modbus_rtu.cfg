SPECIFICATION FairSpec
CONSTANTS
  Requests <- ThreeRequests
  AddrOf <- ThreeAddr
  FrameLen = 3
  BufSize = 3
  T35 = 3
  Patience = 5
  None = None
  Mixed = Mixed
INVARIANT TypeOK
INVARIANT NoAssertFails
INVARIANT EventsApart
INVARIANT NobodyWaitsInVain
PROPERTY HeardIsTaken
PROPERTY TakenIsDone
PROPERTY ImplementsServer
