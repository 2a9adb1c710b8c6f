\* Two trace files with four events between them, three buckets.
SPECIFICATION Spec
CONSTANTS
  Peers <- MCPeers
  Kinds = {"graft", "prune", "publish"}
  Heartbeat = 2
  MaxTime = 4
  MaxEvents = 4
INVARIANTS
  TypeOK
  SnapshotsFollowTraces
  ExtractorAgrees
  LifetimesMatchSnapshots
  SnapshotLifetimesApproximate
  FilesKeepSnapshots
  ChurnMatchesControl
