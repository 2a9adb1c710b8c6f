-------------------------- MODULE MCTraceSnapshots --------------------------
(* Instances of TraceSnapshots for TLC.                                    *)
EXTENDS MeshSeries
MCPeers == {1, 2}
=============================================================================
