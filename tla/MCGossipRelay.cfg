\* A degraded node that ignores everything, and two honest ones that lose
\* their direct connection at any time.
SPECIFICATION FairSpec
CONSTANTS
  a = a
  b = b
  d = d
  Nodes <- MCNodes
  Links <- MCTriangle
  Breakable <- MCDirect
  RoleColumn <- MCRelayColumn
  RoleFlag <- MCByHand
  InvalidPct = 0
  DropPct = 100
  EnablePeerScore = FALSE
  AppDegradedScore <- MCAppDegradedScore
  InvalidPenalty <- MCInvalidPenalty
  MaxPublishes <- MCRelay
  MaxLosses = 0
PROPERTY HonestMessagesSpread
