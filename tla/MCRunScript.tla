----------------------------- MODULE MCRunScript ----------------------------
(***************************************************************************)
(* RunScript with a topology file of three rows: two processes and a row   *)
(* of another host or without key in every order, with and without sar.    *)
(***************************************************************************)
EXTENDS RunScript
=============================================================================
