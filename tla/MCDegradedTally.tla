--------------------------- MODULE MCDegradedTally --------------------------
(***************************************************************************)
(* DegradedTally with every percentage, over two periods of the selection. *)
(***************************************************************************)
EXTENDS DegradedTally

MCAllPcts == 0 .. 100
\* the ends, the worst case of MarkedEvenly, and the documented 50
MCSomePcts == {0, 1, 49, 50, 100}
\* both percentages of the documented Grid5000 run with degraded nodes
MCDocumented == {50}
=============================================================================
