---------------------------- MODULE MCStaticDial ----------------------------
(***************************************************************************)
(* StaticDial with three peers and a window of eight seconds: many rounds  *)
(* of quick dials fit, and a round of slow dials with its pause takes one  *)
(* second less than the window, so that only a second round reaches its    *)
(* end.                                                                    *)
(***************************************************************************)
EXTENDS StaticDial

CONSTANTS p1, p2, p3
MCPeers == {p1, p2, p3}
=============================================================================
