\* All linked, scoring on, one loss.
SPECIFICATION FairSpec
CONSTANTS
  a = a
  b = b
  d = d
  Nodes <- MCNodes
  Links <- MCTriangle
  Breakable = {}
  RoleColumn <- MCRoleColumn
  RoleFlag <- MCByScript
  InvalidPct = 30
  DropPct = 30
  EnablePeerScore = TRUE
  AppDegradedScore <- MCAppDegradedScore
  InvalidPenalty <- MCInvalidPenalty
  MaxPublishes <- MCMixed
  MaxLosses = 1
INVARIANTS
  TypeOK
  InvalidStopsAtFirstHop
  HonestNeverPenalised
  ReportedOnce
PROPERTIES
  HonestMessagesSpread
  InvalidPublishCounts
