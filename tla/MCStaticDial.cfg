\* Three peers, a window of eight seconds, dials of up to two seconds.
SPECIFICATION FairSpec
CONSTANTS
  p1 = p1
  p2 = p2
  p3 = p3
  Peers <- MCPeers
  Timeout = 8
  DialTimeout = 2
  RetryPause = 1
INVARIANTS
  TypeOK
  EveryRoundDialsAll
  TriedToTheEnd
  BoundedOverrun
PROPERTIES
  Returns
