\* A quiet node that publishes every three seconds.
SPECIFICATION Spec
CONSTANTS
  Duration = 6
  PublishInterval = 3
  SettleTime = 2
  GossipBufferSize = 1
  SubBufferSize = 1
  Role = "node"
  InvalidPct = 0
  DropPct = 0
  PeerSequences <- MCPeerSequences
  MaxArrivals = 0
  MaxClock = 6
INVARIANT PublishSpacing
