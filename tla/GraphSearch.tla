----------------------------- MODULE GraphSearch ----------------------------
(***************************************************************************)
(* The two searches behind the metrics of every mesh snapshot, of          *)
(* topology_pipeline.py: connected_components, depth first, and            *)
(* all_pairs_distances, breadth first from every node.  A snapshot is a    *)
(* set of directed edges (there is one topic); both work on its undirected *)
(* view.  The adjacency is a dictionary of sets, so neighbours come in any *)
(* order.                                                                  *)
(***************************************************************************)
EXTENDS Integers, Sequences, FiniteSets

CONSTANTS
  Inputs,       \* what may be analysed: nodes, and the edges of each snapshot
  MaxPathNodes  \* above so many nodes no paths are computed (500)

(* analyze_snapshots_file adds the ends of every edge to the nodes, and    *)
(* stops if there is no snapshot.                                          *)
ASSUME SearchAssumption ==
  /\ MaxPathNodes \in Nat
  /\ \A input \in Inputs :
       /\ input.nodes \subseteq Nat /\ IsFiniteSet(input.nodes)
       /\ input.snapshots \in Seq(SUBSET (input.nodes \X input.nodes))
       /\ input.snapshots # <<>>

VARIABLES
  nodes,       \* all_nodes
  snapshots,   \* the edges of each snapshot
  results,     \* components and distances of the graphs analysed so far
  pc,          \* which search is running
  seen, stack, component, components,   \* connected_components
  sources,     \* all_pairs_distances: the nodes not yet searched from
  reached,     \* and its seen
  frontier,    \* and the pairs <<node, distance>>, never removed
  at,          \* and the position of the loop over them
  distances    \* and the triples <<source, node, distance>> appended

inputVars == <<nodes, snapshots>>
dfsVars   == <<seen, stack, component, components>>
bfsVars   == <<sources, reached, frontier, at, distances>>
vars      == <<inputVars, results, pc, dfsVars, bfsVars>>

(* Mutant: both directions of an edge are kept.                            *)
directed_to_undirectedBothWays(edges) == {e \in edges : e[1] # e[2]}

directed_to_undirected(edges) ==
  {<<IF e[1] < e[2] THEN e[1] ELSE e[2], IF e[1] < e[2] THEN e[2] ELSE e[1]>> :
     e \in {f \in edges : f[1] # f[2]}}

(* What is analysed: each snapshot, and at the end the union of them all.  *)
Graph(k) == IF k \in DOMAIN snapshots THEN snapshots[k]
            ELSE UNION {snapshots[i] : i \in DOMAIN snapshots}

(* The undirected edges of the graph being analysed.                       *)
undirected == directed_to_undirected(Graph(Len(results) + 1))

(* Mutant: only the target becomes a neighbour of the source.              *)
adjacencyOneWay(node) == {m \in nodes : <<node, m>> \in undirected}

adjacency(node) ==
  {m \in nodes : <<node, m>> \in undirected \/ <<m, node>> \in undirected}

TooLarge == Cardinality(nodes) > MaxPathNodes

Init ==
  /\ \E input \in Inputs :
       nodes = input.nodes /\ snapshots = input.snapshots
  /\ results = <<>> /\ pc = "components"
  /\ seen = {} /\ stack = {} /\ component = {} /\ components = {}
  /\ sources = {} /\ reached = {} /\ frontier = <<>> /\ at = 0 /\ distances = {}

-----------------------------------------------------------------------------
(* connected_components.  Which node of the stack is popped makes no       *)
(* difference to the rest, so the stack is a set.                          *)

(* The loop over the sorted nodes, which skips those already seen.         *)
StartComponent ==
  /\ pc = "components" /\ stack = {} /\ component = {}
  /\ \E node \in nodes \ seen :
       /\ \A other \in nodes \ seen : node <= other
       /\ seen' = seen \cup {node}
       /\ stack' = {node}
  /\ UNCHANGED <<inputVars, results, pc, component, components, bfsVars>>

Visit ==
  /\ pc = "components"
  /\ \E current \in stack :
       LET new == adjacency(current) \ seen
       IN  /\ component' = component \cup {current}
           /\ seen' = seen \cup new
           /\ stack' = (stack \ {current}) \cup new
  /\ UNCHANGED <<inputVars, results, pc, components, bfsVars>>

EndComponent ==
  /\ pc = "components" /\ stack = {} /\ component # {}
  /\ components' = components \cup {component}
  /\ component' = {}
  /\ UNCHANGED <<inputVars, results, pc, seen, stack, bfsVars>>

(* All nodes seen: on to the paths, unless there are too many nodes.       *)
StopComponents ==
  /\ pc = "components" /\ stack = {} /\ component = {} /\ nodes \subseteq seen
  /\ pc' = "paths"
  /\ sources' = IF TooLarge THEN {} ELSE nodes
  /\ UNCHANGED <<inputVars, results, dfsVars, reached, frontier, at, distances>>

-----------------------------------------------------------------------------
(* all_pairs_distances.                                                    *)
StartSource ==
  /\ pc = "paths" /\ frontier = <<>>
  /\ \E source \in sources :
       /\ sources' = sources \ {source}
       /\ reached' = {source}
       /\ frontier' = <<<<source, 0>>>>
       /\ at' = 1
  /\ UNCHANGED <<inputVars, results, pc, dfsVars, distances>>

(* Mutant: the neighbour is looked at next, not last.                      *)
ReachDepthFirst ==
  /\ pc = "paths" /\ at \in 1 .. Len(frontier)
  /\ \E neighbor \in adjacency(frontier[at][1]) \ reached :
       LET next_distance == frontier[at][2] + 1
       IN  /\ reached' = reached \cup {neighbor}
           /\ frontier' = SubSeq(frontier, 1, at) \o
                            <<<<neighbor, next_distance>>>> \o
                            SubSeq(frontier, at + 1, Len(frontier))
           /\ distances' = distances \cup
                             {<<frontier[1][1], neighbor, next_distance>>}
  /\ UNCHANGED <<inputVars, results, pc, dfsVars, sources, at>>

(* Mutant: a neighbour is not marked as seen.                              *)
ReachUnmarked ==
  /\ pc = "paths" /\ at \in 1 .. Len(frontier)
  /\ \E neighbor \in adjacency(frontier[at][1]) \ reached :
       LET next_distance == frontier[at][2] + 1
       IN  /\ frontier' = Append(frontier, <<neighbor, next_distance>>)
           /\ distances' = distances \cup
                             {<<frontier[1][1], neighbor, next_distance>>}
  /\ UNCHANGED <<inputVars, results, pc, dfsVars, sources, reached, at>>

Reach ==
  /\ pc = "paths" /\ at \in 1 .. Len(frontier)
  /\ \E neighbor \in adjacency(frontier[at][1]) \ reached :
       LET next_distance == frontier[at][2] + 1
       IN  /\ reached' = reached \cup {neighbor}
           /\ frontier' = Append(frontier, <<neighbor, next_distance>>)
           /\ distances' = distances \cup
                             {<<frontier[1][1], neighbor, next_distance>>}
  /\ UNCHANGED <<inputVars, results, pc, dfsVars, sources, at>>

Advance ==
  /\ pc = "paths" /\ at \in 1 .. Len(frontier)
  /\ adjacency(frontier[at][1]) \subseteq reached
  /\ at' = at + 1
  /\ UNCHANGED <<inputVars, results, pc, dfsVars,
                 sources, reached, frontier, distances>>

EndSource ==
  /\ pc = "paths" /\ frontier # <<>> /\ at > Len(frontier)
  /\ frontier' = <<>> /\ reached' = {} /\ at' = 0
  /\ UNCHANGED <<inputVars, results, pc, dfsVars, sources, distances>>

(* The row of write_global_timeseries, or at last that of summary_metrics. *)
CloseRow ==
  /\ pc = "paths" /\ frontier = <<>> /\ sources = {}
  /\ results' = Append(results,
                  [components |-> components, distances |-> distances])
  /\ pc' = IF Len(results) = Len(snapshots) THEN "done" ELSE "components"
  /\ seen' = {} /\ components' = {} /\ distances' = {}
  /\ UNCHANGED <<inputVars, stack, component, sources, reached, frontier, at>>

Next ==
  \/ StartComponent \/ Visit \/ EndComponent \/ StopComponents
  \/ StartSource \/ Reach \/ Advance \/ EndSource \/ CloseRow
  \/ pc = "done" /\ UNCHANGED vars

Spec == Init /\ [][Next]_vars

-----------------------------------------------------------------------------
(* Properties.                                                             *)

Result == [components : SUBSET SUBSET nodes,
           distances : SUBSET (nodes \X nodes \X Nat)]

(* Every variable keeps its type; the list that the breadth-first search   *)
(* loops over while it grows holds every node at most once, so the loop    *)
(* ends.                                                                   *)
TypeOK ==
  /\ nodes \subseteq Nat
  /\ snapshots \in Seq(SUBSET (nodes \X nodes))
  /\ results \in Seq(Result)
  /\ pc \in {"components", "paths", "done"}
  /\ pc # "done" => Len(results) <= Len(snapshots)
  /\ seen \subseteq nodes /\ stack \subseteq nodes /\ component \subseteq nodes
  /\ components \subseteq SUBSET nodes
  /\ sources \subseteq nodes /\ reached \subseteq nodes
  /\ frontier \in Seq(nodes \X Nat) /\ at \in 0 .. Len(frontier) + 1
  /\ \A i, j \in DOMAIN frontier : frontier[i][1] = frontier[j][1] => i = j
  /\ reached = {frontier[i][1] : i \in DOMAIN frontier}
  /\ distances \subseteq nodes \X nodes \X Nat

(* No edge leaves the set S.                                               *)
Closed(S, edges) == \A e \in edges : e[1] \in S <=> e[2] \in S

(* No edge leaves c, and none could be left out of it but with all.        *)
IsComponent(c, edges) ==
  /\ c # {} /\ Closed(c, edges)
  /\ \A S \in SUBSET c : Closed(S, edges) => S = {} \/ S = c

Disjoint(P) == \A c, d \in P : c = d \/ c \cap d = {}

(* The sets in P are the connected components of a graph.                  *)
AreComponents(P, N, edges) ==
  UNION P = N /\ Disjoint(P) /\ \A c \in P : IsComponent(c, edges)

(* In every graph the depth-first search, which visits nodes in any order  *)
(* and marks them when it pushes them, finds the connected components of   *)
(* the undirected view (topology_pipeline.py:799-820).                     *)
ComponentsRight ==
  \A k \in 1 .. Len(results) :
    AreComponents(results[k].components, nodes,
                  directed_to_undirected(Graph(k)))

Adjacent(a, b, edges) == <<a, b>> \in edges \/ <<b, a>> \in edges

(* The nodes that the triples in D give a distance from source, with it.   *)
Level(D, source) ==
  {<<source, 0>>} \cup {<<d[2], d[3]>> : d \in {c \in D : c[1] = source}}

(* The pairs in L are the nodes that can be reached from source, with      *)
(* their distances: from a node to its neighbour these grow by at most     *)
(* one, so no path is shorter; every node but the source has a neighbour   *)
(* one step closer, so there is a path as short.                           *)
AreDistances(L, source, N, edges) ==
  /\ \A a, b \in L : a[1] = b[1] => a = b
  /\ \A a \in L : \A v \in N : Adjacent(a[1], v, edges) =>
       \E b \in L : b[1] = v /\ b[2] <= a[2] + 1
  /\ \A a \in L \ {<<source, 0>>} : \E b \in L :
       Adjacent(b[1], a[1], edges) /\ a[2] = b[2] + 1

(* In every graph that is not too large the lengths are those of shortest  *)
(* paths, from every source, although the searches from all sources write  *)
(* into one list and the frontier is never emptied                         *)
(* (topology_pipeline.py:870-888).                                         *)
DistancesShortest ==
  \A k \in 1 .. Len(results) :
    IF TooLarge
    THEN results[k].distances = {}
    ELSE \A source \in nodes :
           AreDistances(Level(results[k].distances, source), source, nodes,
                        directed_to_undirected(Graph(k)))

(* Why these hold.  What the depth-first search has found of a component   *)
(* cannot be separated by any closed set, and all edges from the visited   *)
(* part stay inside.                                                       *)
found == component \cup stack

DepthFirst ==
  /\ pc = "components" =>
       /\ seen = (UNION components) \cup found
       /\ Disjoint(components) /\ \A c \in components : c \cap found = {}
       /\ \A c \in components : IsComponent(c, undirected)
       /\ \A node \in component : adjacency(node) \subseteq found
       /\ found # {} => \E root \in found : \A S \in SUBSET nodes :
            root \in S /\ Closed(S, undirected) => found \subseteq S
  /\ pc = "paths" =>
       /\ stack = {} /\ component = {}
       /\ AreComponents(components, nodes, undirected)

(* The frontier is sorted by distance and spans at most two of them; what  *)
(* the loop has passed has all its neighbours in the frontier.             *)
Passed(i) ==
  \A v \in adjacency(frontier[i][1]) : \E j \in DOMAIN frontier :
    frontier[j][1] = v /\ frontier[j][2] <= frontier[i][2] + 1

Discovered(j) ==
  \E i \in DOMAIN frontier :
    /\ Adjacent(frontier[i][1], frontier[j][1], undirected)
    /\ frontier[j][2] = frontier[i][2] + 1

FrontierSorted ==
  /\ frontier[1][2] = 0 /\ at > 0
  /\ \A i, j \in DOMAIN frontier : i <= j => frontier[i][2] <= frontier[j][2]
  /\ at \in DOMAIN frontier =>
       \A j \in DOMAIN frontier : frontier[j][2] <= frontier[at][2] + 1
  /\ \A i \in DOMAIN frontier : i < at => Passed(i)
  /\ \A j \in DOMAIN frontier : j > 1 => Discovered(j)

Searching(source) == frontier # <<>> /\ source = frontier[1][1]

BreadthFirst ==
  /\ frontier # <<>> => FrontierSorted /\ frontier[1][1] \notin sources
  /\ pc # "paths" => frontier = <<>> /\ sources = {} /\ distances = {}
  /\ TooLarge =>
       frontier = <<>> /\ sources = {} /\ distances = {}
  /\ pc = "paths" /\ ~TooLarge =>
       \A source \in nodes :
         IF source \in sources THEN Level(distances, source) = {<<source, 0>>}
         ELSE IF Searching(source)
         THEN Level(distances, source) = {frontier[i] : i \in DOMAIN frontier}
         ELSE AreDistances(Level(distances, source), source, nodes, undirected)
=============================================================================
