--------------------------- MODULE MCGossipNetwork --------------------------
(***************************************************************************)
(* GossipNetwork with two honest nodes and a degraded one, all linked, so  *)
(* that every message comes back on two ways; in a second configuration    *)
(* the degraded node is the only way left once a connection has broken.    *)
(***************************************************************************)
EXTENDS GossipNetwork

CONSTANTS a, b, d
MCNodes == {a, b, d}

\* b has a word in its row that is no role; a is started by hand
MCRoleColumn == [n \in MCNodes |->
                   IF n = d THEN "degraded" ELSE IF n = a THEN "node" ELSE "honest"]
MCByScript   == [n \in MCNodes |-> IF n = a THEN "" ELSE MCRoleColumn[n]]

\* all are started by hand, and -role overrides the row of b
MCRelayColumn == [n \in MCNodes |-> IF n = a THEN "node" ELSE "degraded"]
MCByHand      == [n \in MCNodes |-> IF n = b THEN "node" ELSE ""]

\* the default score of degraded peers, and a penalty that graylists a
\* degraded peer for a single invalid message
MCAppDegradedScore == -50
MCInvalidPenalty   == -60

MCTriangle == {l \in MCNodes \X MCNodes : l[1] # l[2]}
MCDirect   == {<<a, b>>, <<b, a>>}

\* one honest message, and two of the degraded node: with 30 percent its
\* sequence number 0 is marked invalid and 1 is not
MCMixed == [n \in MCNodes |-> IF n = d THEN 2 ELSE IF n = a THEN 1 ELSE 0]
\* two messages of one honest node and one of the other
MCRelay == [n \in MCNodes |-> IF n = a THEN 2 ELSE IF n = b THEN 1 ELSE 0]
=============================================================================
