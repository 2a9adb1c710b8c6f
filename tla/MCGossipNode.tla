---------------------------- MODULE MCGossipNode ----------------------------
(***************************************************************************)
(* GossipNode with buffers of one message, a run of three seconds and      *)
(* other nodes that send three messages: enough to fill every buffer during *)
(* the connection phase, to lose messages and to block ReadLoop.           *)
(***************************************************************************)
EXTENDS GossipNode

\* with 50 percent, sequence 0 is hit by percentHit and sequence 2 is not
MCPeerSequences == {0, 2}
=============================================================================
