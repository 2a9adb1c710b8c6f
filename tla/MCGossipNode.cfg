\* One degraded node, one second between publishes, buffers of one message.
SPECIFICATION FairSpec
CONSTANTS
  Duration = 3
  PublishInterval = 1
  SettleTime = 2
  GossipBufferSize = 1
  SubBufferSize = 1
  Role = "degraded"
  InvalidPct = 50
  DropPct = 50
  PeerSequences <- MCPeerSequences
  MaxArrivals = 3
  MaxClock = 3
INVARIANTS
  TypeOK
  EveryMessageAccounted
  InRouterOrder
  NotBeforeItsTick
PROPERTIES
  ImplementsMessageStream
  ProcessEnds
