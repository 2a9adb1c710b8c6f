--------------------------- MODULE MCGraphMetrics ---------------------------
(***************************************************************************)
(* What GraphMetrics analyses: every list of four snapshots of two nodes,  *)
(* and lists of larger graphs: a path, a ring, a ring with a chord, a star *)
(* around its last node, a triangle and an edge apart, a clique, with one- *)
(* way and mutual edges; meshes that grow, drift, flap or fall apart; and  *)
(* one with too many nodes for paths.                                      *)
(***************************************************************************)
EXTENDS GraphMetrics

Mutual(edges) == edges \cup {<<e[2], e[1]>> : e \in edges}

Path5   == {<<1, 2>>, <<3, 2>>, <<3, 4>>, <<5, 4>>}
Ring5   == Path5 \cup {<<1, 5>>}
House   == Ring5 \cup {<<2, 5>>, <<5, 2>>}
Star5   == {<<2, 5>>, <<5, 3>>, <<4, 5>>, <<5, 1>>}
Apart   == {<<1, 2>>, <<2, 4>>, <<4, 1>>, <<3, 5>>}
Clique4 == {e \in (1 .. 4) \X (1 .. 4) : e[1] < e[2]}

Grow(k) == {<<i, i + 1>> : i \in 1 .. k}

Input(n, list) == [nodes |-> 1 .. n, snapshots |-> list]

TwoNodes == {Input(2, list) : list \in
               [1 .. 4 -> SUBSET {<<1, 2>>, <<2, 1>>}]}

MCInputs == TwoNodes \cup
  {Input(5, <<Path5, Ring5, House>>),
   Input(5, <<Star5, Mutual(Star5), Apart, Mutual(Apart)>>),
   Input(5, <<Clique4, Mutual(Clique4), Clique4 \cup {<<5, 1>>}>>),
   Input(5, <<{}, Grow(1), Grow(2), Grow(3), Grow(4)>>),
   Input(4, <<Grow(1), Grow(2), Grow(3), Grow(3), Grow(3)>>),
   Input(4, <<Grow(3), Grow(1), Grow(3), Grow(2), Grow(2), Grow(2)>>),
   Input(4, <<Mutual(Grow(3)), Grow(3), Grow(2), Grow(2) \cup Grow(1)>>),
   Input(6, <<Mutual(Ring5), Ring5 \cup {<<5, 6>>}>>),
   Input(1, <<{}>>)}

ASSUME MCLoopless == Loopless
=============================================================================
