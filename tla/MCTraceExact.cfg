\* Files with heartbeat events and a bucket of two milliseconds.
SPECIFICATION Spec
CONSTANTS
  Peers <- MCPeers
  Kinds = {"graft", "prune", "heartbeat"}
  Heartbeat = 2
  MaxTime = 4
  MaxEvents = 2
INVARIANT ExactMeansHeartbeats
