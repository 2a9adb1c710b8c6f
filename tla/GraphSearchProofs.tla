-------------------------- MODULE GraphSearchProofs -------------------------
(***************************************************************************)
(* Proofs about the two searches, and about the rows and the convergence   *)
(* computed from what they find, for every list of finite graphs.          *)
(***************************************************************************)
EXTENDS GraphMetrics, FiniteSetTheorems, TLAPS

(* What is analysed has its edges between the nodes.                       *)
LEMMA UndirectedEdges ==
  ASSUME snapshots \in Seq(SUBSET (nodes \X nodes)), nodes \subseteq Nat
  PROVE  undirected \subseteq nodes \X nodes
<1>1. Graph(Len(results) + 1) \subseteq nodes \X nodes
  BY DEF Graph
<1>2. QED
  BY <1>1 DEF undirected, directed_to_undirected

LEMMA AdjacencyNodes == \A node : adjacency(node) \subseteq nodes
BY DEF adjacency

LEMMA AdjacencyIsAdjacent ==
  \A a, b : b \in adjacency(a) <=> b \in nodes /\ Adjacent(a, b, undirected)
BY DEF adjacency, Adjacent

-----------------------------------------------------------------------------
(* Type correctness: see TypeOK.                                           *)
LEMMA InitTypes == Init => TypeOK
<1> SUFFICES ASSUME Init PROVE TypeOK
  OBVIOUS
<1>1. PICK input \in Inputs : nodes = input.nodes /\ snapshots = input.snapshots
  BY DEF Init
<1>2. /\ nodes \subseteq Nat
      /\ snapshots \in Seq(SUBSET (nodes \X nodes))
  BY <1>1, SearchAssumption
<1>3. results = <<>> /\ frontier = <<>>
  BY DEF Init
<1>4. /\ results \in Seq(Result) /\ frontier \in Seq(nodes \X Nat)
      /\ Len(results) = 0 /\ Len(frontier) = 0 /\ DOMAIN frontier = {}
  BY <1>3
<1>5. Len(snapshots) \in Nat
  BY <1>2
<1>6. QED
  BY <1>2, <1>4, <1>5 DEF Init, TypeOK

LEMMA SearchTypes ==
  ASSUME TypeOK,
         StartComponent \/ Visit \/ EndComponent \/ StopComponents \/ EndSource
  PROVE  TypeOK'
<1>1. UNCHANGED <<nodes, snapshots, results>>
  BY DEF StartComponent, Visit, EndComponent, StopComponents, EndSource, inputVars
<1>2. Result' = Result
  BY <1>1 DEF Result
<1>3. CASE StartComponent
  BY <1>1, <1>2, <1>3 DEF TypeOK, StartComponent, bfsVars
<1>4. CASE Visit
  BY <1>1, <1>2, <1>4, AdjacencyNodes DEF TypeOK, Visit, bfsVars
<1>5. CASE EndComponent
  BY <1>1, <1>2, <1>5 DEF TypeOK, EndComponent, bfsVars
<1>6. CASE StopComponents
  BY <1>1, <1>2, <1>6 DEF TypeOK, StopComponents, dfsVars
<1>7. CASE EndSource
  <2>1. /\ frontier' = <<>> /\ reached' = {} /\ at' = 0
        /\ UNCHANGED <<pc, dfsVars, sources, distances>>
    BY <1>7 DEF EndSource
  <2>2. /\ frontier' \in Seq(nodes \X Nat) /\ Len(frontier') = 0
        /\ DOMAIN frontier' = {}
    BY <2>1
  <2>3. QED
    BY <1>1, <1>2, <2>1, <2>2 DEF TypeOK, dfsVars
<1>8. QED
  BY <1>3, <1>4, <1>5, <1>6, <1>7

LEMMA AdvanceTypes == TypeOK /\ Advance => TypeOK'
<1> SUFFICES ASSUME TypeOK, Advance PROVE TypeOK'
  OBVIOUS
<1>1. UNCHANGED <<nodes, snapshots, results, pc, seen, stack, component,
                  components, sources, reached, frontier, distances>>
  BY DEF Advance, inputVars, dfsVars
<1>2. at' \in 0 .. Len(frontier) + 1
  BY DEF TypeOK, Advance
<1>3. Result' = Result
  BY <1>1 DEF Result
<1>4. QED
  BY <1>1, <1>2, <1>3 DEF TypeOK

LEMMA StartSourceTypes == TypeOK /\ StartSource => TypeOK'
<1> SUFFICES ASSUME TypeOK, StartSource PROVE TypeOK'
  OBVIOUS
<1>1. PICK source \in sources :
        /\ sources' = sources \ {source}
        /\ reached' = {source} /\ frontier' = <<<<source, 0>>>> /\ at' = 1
  BY DEF StartSource
<1>2. UNCHANGED <<nodes, snapshots, results, pc, seen, stack, component,
                  components, distances>>
  BY DEF StartSource, inputVars, dfsVars
<1>3. source \in nodes
  BY DEF TypeOK
<1>4. /\ frontier' \in Seq(nodes \X Nat) /\ Len(frontier') = 1
      /\ DOMAIN frontier' = {1} /\ frontier'[1] = <<source, 0>>
  BY <1>1, <1>3
<1>5. QED
  BY <1>1, <1>2, <1>3, <1>4 DEF TypeOK, Result

LEMMA Appended ==
  ASSUME NEW S, NEW s \in Seq(S), NEW e \in S
  PROVE  /\ Append(s, e) \in Seq(S)
         /\ Len(Append(s, e)) = Len(s) + 1
         /\ DOMAIN Append(s, e) = DOMAIN s \cup {Len(s) + 1}
         /\ \A i \in DOMAIN s : Append(s, e)[i] = s[i]
         /\ Append(s, e)[Len(s) + 1] = e
<1>1. Append(s, e) \in Seq(S) /\ Len(Append(s, e)) = Len(s) + 1
  OBVIOUS
<1>2. DOMAIN Append(s, e) = DOMAIN s \cup {Len(s) + 1}
  OBVIOUS
<1>3. \A i \in DOMAIN s : Append(s, e)[i] = s[i]
  OBVIOUS
<1>4. Append(s, e)[Len(s) + 1] = e
  OBVIOUS
<1>5. QED
  BY <1>1, <1>2, <1>3, <1>4

(* The neighbour found is a node, its distance a number.                   *)
LEMMA ReachFacts ==
  ASSUME TypeOK, Reach
  PROVE  \E neighbor \in adjacency(frontier[at][1]) \ reached :
           /\ at \in DOMAIN frontier /\ frontier[at] \in nodes \X Nat
           /\ frontier[1] \in nodes \X Nat
           /\ frontier[at][2] \in Nat
           /\ neighbor \in nodes
           /\ reached' = reached \cup {neighbor}
           /\ frontier' = Append(frontier, <<neighbor, frontier[at][2] + 1>>)
           /\ frontier' \in Seq(nodes \X Nat)
           /\ Len(frontier') = Len(frontier) + 1
           /\ DOMAIN frontier' = DOMAIN frontier \cup {Len(frontier) + 1}
           /\ \A i \in DOMAIN frontier : frontier'[i] = frontier[i]
           /\ frontier'[Len(frontier) + 1] = <<neighbor, frontier[at][2] + 1>>
           /\ distances' = distances \cup
                {<<frontier[1][1], neighbor, frontier[at][2] + 1>>}
<1>1. PICK neighbor \in adjacency(frontier[at][1]) \ reached :
        /\ reached' = reached \cup {neighbor}
        /\ frontier' = Append(frontier, <<neighbor, frontier[at][2] + 1>>)
        /\ distances' = distances \cup
             {<<frontier[1][1], neighbor, frontier[at][2] + 1>>}
  BY DEF Reach
<1>2. neighbor \in nodes
  BY AdjacencyNodes
<1>3. at \in 1 .. Len(frontier) /\ frontier \in Seq(nodes \X Nat)
  BY DEF Reach, TypeOK
<1>4. /\ at \in DOMAIN frontier /\ frontier[at] \in nodes \X Nat
      /\ frontier[1] \in nodes \X Nat
  BY <1>3
<1>5. <<neighbor, frontier[at][2] + 1>> \in nodes \X Nat /\ frontier[at][2] \in Nat
  BY <1>2, <1>4
<1>6. /\ frontier' \in Seq(nodes \X Nat)
      /\ Len(frontier') = Len(frontier) + 1
      /\ DOMAIN frontier' = DOMAIN frontier \cup {Len(frontier) + 1}
      /\ \A i \in DOMAIN frontier : frontier'[i] = frontier[i]
      /\ frontier'[Len(frontier) + 1] = <<neighbor, frontier[at][2] + 1>>
  <2> DEFINE entry == <<neighbor, frontier[at][2] + 1>>
  <2>1. entry \in nodes \X Nat /\ frontier' = Append(frontier, entry)
    BY <1>1, <1>5
  <2> HIDE DEF entry
  <2>2. /\ frontier' \in Seq(nodes \X Nat)
        /\ Len(frontier') = Len(frontier) + 1
        /\ DOMAIN frontier' = DOMAIN frontier \cup {Len(frontier) + 1}
        /\ \A i \in DOMAIN frontier : frontier'[i] = frontier[i]
        /\ frontier'[Len(frontier) + 1] = entry
    BY <1>3, <2>1, Appended
  <2>3. QED
    BY <2>2 DEF entry
<1>7. QED
  BY <1>1, <1>2, <1>4, <1>5, <1>6

LEMMA ReachTypes == TypeOK /\ Reach => TypeOK'
<1> SUFFICES ASSUME TypeOK, Reach PROVE TypeOK'
  OBVIOUS
<1>1. PICK neighbor \in adjacency(frontier[at][1]) \ reached :
           /\ at \in DOMAIN frontier /\ frontier[at] \in nodes \X Nat
           /\ frontier[1] \in nodes \X Nat
           /\ frontier[at][2] \in Nat
           /\ neighbor \in nodes
           /\ reached' = reached \cup {neighbor}
           /\ frontier' = Append(frontier, <<neighbor, frontier[at][2] + 1>>)
           /\ frontier' \in Seq(nodes \X Nat)
           /\ Len(frontier') = Len(frontier) + 1
           /\ DOMAIN frontier' = DOMAIN frontier \cup {Len(frontier) + 1}
           /\ \A i \in DOMAIN frontier : frontier'[i] = frontier[i]
           /\ frontier'[Len(frontier) + 1] = <<neighbor, frontier[at][2] + 1>>
           /\ distances' = distances \cup
                {<<frontier[1][1], neighbor, frontier[at][2] + 1>>}
  BY ReachFacts
<1>2. UNCHANGED <<nodes, snapshots, results, pc, seen, stack, component,
                  components, sources, at>>
  BY DEF Reach, inputVars, dfsVars
<1>3. reached' = {frontier'[i][1] : i \in DOMAIN frontier'}
  BY <1>1 DEF TypeOK
<1>4. \A i, j \in DOMAIN frontier' : frontier'[i][1] = frontier'[j][1] => i = j
  <2>1. \A i \in DOMAIN frontier : frontier'[i][1] # neighbor
    BY <1>1 DEF TypeOK
  <2>2. SUFFICES ASSUME NEW i \in DOMAIN frontier', NEW j \in DOMAIN frontier',
                        frontier'[i][1] = frontier'[j][1]
                 PROVE  i = j
    OBVIOUS
  <2>3. frontier'[Len(frontier) + 1][1] = neighbor
    BY <1>1
  <2>4. CASE i \in DOMAIN frontier /\ j \in DOMAIN frontier
    BY <1>1, <2>2, <2>4 DEF TypeOK
  <2>5. QED
    BY <1>1, <2>1, <2>2, <2>3, <2>4
<1>5. distances' \subseteq nodes \X nodes \X Nat
  <2>1. <<frontier[1][1], neighbor, frontier[at][2] + 1>> \in nodes \X nodes \X Nat
    BY <1>1
  <2>2. QED
    BY <1>1, <2>1 DEF TypeOK
<1>6. at' \in 0 .. Len(frontier') + 1
  BY <1>1, <1>2 DEF TypeOK
<1>7. reached' \subseteq nodes'
  BY <1>1, <1>2 DEF TypeOK
<1>8. QED
  BY <1>1, <1>2, <1>3, <1>4, <1>5, <1>6, <1>7 DEF TypeOK, Result

LEMMA CloseRowTypes == TypeOK /\ CloseRow => TypeOK'
<1> SUFFICES ASSUME TypeOK, CloseRow PROVE TypeOK'
  OBVIOUS
<1> DEFINE r == [components |-> components, distances |-> distances]
<1>1. /\ results' = Append(results, r)
      /\ pc' = IF Len(results) = Len(snapshots) THEN "done" ELSE "components"
      /\ seen' = {} /\ components' = {} /\ distances' = {}
      /\ UNCHANGED <<nodes, snapshots, stack, component, sources, reached,
                     frontier, at>>
      /\ pc = "paths"
  BY DEF CloseRow, inputVars
<1>2. r \in Result
  BY DEF TypeOK, Result
<1>3. Result' = Result
  BY <1>1 DEF Result
<1> HIDE DEF r
<1>4. results' \in Seq(Result) /\ Len(results') = Len(results) + 1
  BY <1>1, <1>2 DEF TypeOK
<1>5. Len(results) \in Nat /\ Len(snapshots) \in Nat
  BY DEF TypeOK
<1>6. pc' # "done" => Len(results') <= Len(snapshots')
  BY <1>1, <1>4, <1>5 DEF TypeOK
<1>7. QED
  BY <1>1, <1>3, <1>4, <1>6 DEF TypeOK

LEMMA StutterTypes == TypeOK /\ UNCHANGED vars => TypeOK'
BY DEF TypeOK, vars, inputVars, dfsVars, bfsVars, Result

(* TypeOK holds for every list of graphs: every node enters the frontier   *)
(* of a search at most once.                                               *)
THEOREM TypeCorrect == Spec => []TypeOK
<1>1. TypeOK /\ [Next]_vars => TypeOK'
  BY SearchTypes, StartSourceTypes, ReachTypes, AdvanceTypes, CloseRowTypes,
     StutterTypes DEF Next
<1>2. QED
  BY InitTypes, <1>1, PTL DEF Spec

-----------------------------------------------------------------------------
(* The depth-first search: see DepthFirst.                                 *)
LEMMA SameGraph ==
  ASSUME UNCHANGED <<nodes, snapshots, results>>
  PROVE  undirected' = undirected /\ \A a : adjacency(a)' = adjacency(a)
<1>1. undirected' = undirected
  BY DEF undirected, Graph
<1>2. QED
  BY <1>1 DEF adjacency

LEMMA StartComponentSearch ==
  ASSUME TypeOK, DepthFirst, StartComponent PROVE DepthFirst'
<1>1. PICK node \in nodes \ seen :
        seen' = seen \cup {node} /\ stack' = {node}
  BY DEF StartComponent
<1>2. /\ pc = "components" /\ stack = {} /\ component = {}
      /\ UNCHANGED <<nodes, snapshots, results, pc, component, components>>
  BY DEF StartComponent, inputVars
<1>3. undirected' = undirected /\ \A a : adjacency(a)' = adjacency(a)
  BY <1>2, SameGraph
<1>4. found = {} /\ found' = {node}
  BY <1>1, <1>2 DEF found
<1>5. seen = UNION components
  BY <1>2, <1>4 DEF DepthFirst
<1>6. \A c \in components' : c \cap found' = {}
  BY <1>1, <1>2, <1>4, <1>5
<1>7. seen' = (UNION components') \cup found'
  BY <1>1, <1>2, <1>4, <1>5
<1>8. \A S \in SUBSET nodes' :
        node \in S /\ Closed(S, undirected') => found' \subseteq S
  BY <1>4
<1>9. QED
  BY <1>2, <1>3, <1>4, <1>6, <1>7, <1>8 DEF DepthFirst

LEMMA VisitSearch == ASSUME TypeOK, DepthFirst, Visit PROVE DepthFirst'
<1>1. PICK current \in stack :
        /\ component' = component \cup {current}
        /\ seen' = seen \cup (adjacency(current) \ seen)
        /\ stack' = (stack \ {current}) \cup (adjacency(current) \ seen)
  BY DEF Visit
<1> DEFINE new == adjacency(current) \ seen
<1>2. pc = "components" /\ UNCHANGED <<nodes, snapshots, results, pc, components>>
  BY DEF Visit, inputVars
<1>3. undirected' = undirected /\ \A a : adjacency(a)' = adjacency(a)
  BY <1>2, SameGraph
<1>4. found' = found \cup new /\ current \in found
  BY <1>1 DEF found
<1>5. /\ seen = (UNION components) \cup found
      /\ Disjoint(components) /\ \A c \in components : c \cap found = {}
      /\ \A c \in components : IsComponent(c, undirected)
      /\ \A node \in component : adjacency(node) \subseteq found
  BY <1>2 DEF DepthFirst
<1>6. seen' = (UNION components') \cup found'
  BY <1>1, <1>2, <1>4, <1>5
<1>7. \A c \in components' : c \cap found' = {}
  BY <1>2, <1>4, <1>5
<1>8. adjacency(current) \subseteq found'
  <2>1. SUFFICES ASSUME NEW m \in adjacency(current), m \in seen, m \notin found
                 PROVE  FALSE
    BY <1>4
  <2>2. PICK c \in components : m \in c
    BY <1>5, <2>1
  <2>3. Closed(c, undirected)
    BY <1>5 DEF IsComponent
  <2>4. <<current, m>> \in undirected \/ <<m, current>> \in undirected
    BY <2>1 DEF adjacency
  <2>5. current \in c
    BY <2>2, <2>3, <2>4 DEF Closed
  <2>6. QED
    BY <1>4, <1>5, <2>5
<1>9. \A node \in component' : adjacency(node)' \subseteq found'
  BY <1>1, <1>3, <1>4, <1>5, <1>8
<1>10. \E root \in found' : \A S \in SUBSET nodes' :
         root \in S /\ Closed(S, undirected') => found' \subseteq S
  <2>1. PICK root \in found : \A S \in SUBSET nodes :
          root \in S /\ Closed(S, undirected) => found \subseteq S
    BY <1>2, <1>4 DEF DepthFirst
  <2>2. SUFFICES ASSUME NEW S \in SUBSET nodes, root \in S, Closed(S, undirected),
                        NEW m \in new
                 PROVE  m \in S
    BY <1>2, <1>3, <1>4, <2>1
  <2>3. current \in S
    BY <1>4, <2>1, <2>2
  <2>4. <<current, m>> \in undirected \/ <<m, current>> \in undirected
    BY <2>2 DEF adjacency
  <2>5. QED
    BY <2>2, <2>3, <2>4 DEF Closed
<1>11. QED
  BY <1>2, <1>3, <1>5, <1>6, <1>7, <1>9, <1>10 DEF DepthFirst

(* What is found when the stack is empty is a component.                   *)
LEMMA WholeComponent ==
  ASSUME TypeOK, DepthFirst, pc = "components", stack = {}, component # {}
  PROVE  IsComponent(component, undirected)
<1>1. found = component
  BY DEF found
<1>2. undirected \subseteq nodes \X nodes
  BY UndirectedEdges DEF TypeOK
<1>3. Closed(component, undirected)
  <2>1. \A node \in component : adjacency(node) \subseteq component
    BY <1>1 DEF DepthFirst
  <2>2. SUFFICES ASSUME NEW e \in undirected
                 PROVE  e[1] \in component <=> e[2] \in component
    BY DEF Closed
  <2>3. e[1] \in nodes /\ e[2] \in nodes /\ e = <<e[1], e[2]>>
    BY <1>2
  <2>4. e[2] \in adjacency(e[1]) /\ e[1] \in adjacency(e[2])
    BY <2>3 DEF adjacency
  <2>5. QED
    BY <2>1, <2>4
<1>4. ASSUME NEW S \in SUBSET component, Closed(S, undirected), S # {}
      PROVE  S = component
  <2>1. PICK root \in component : \A R \in SUBSET nodes :
          root \in R /\ Closed(R, undirected) => component \subseteq R
    BY <1>1 DEF DepthFirst
  <2>2. component \subseteq nodes
    BY DEF TypeOK
  <2>3. CASE root \in S
    BY <1>4, <2>1, <2>2, <2>3
  <2>4. CASE root \notin S
    <3>1. Closed(component \ S, undirected)
      BY <1>3, <1>4 DEF Closed
    <3>2. component \subseteq component \ S
      BY <2>1, <2>2, <2>4, <3>1
    <3>3. QED
      BY <1>4, <3>2
  <2>5. QED
    BY <2>3, <2>4
<1>5. QED
  BY <1>3, <1>4 DEF IsComponent

LEMMA EndComponentSearch ==
  ASSUME TypeOK, DepthFirst, EndComponent PROVE DepthFirst'
<1>1. /\ pc = "components" /\ stack = {} /\ component # {}
      /\ components' = components \cup {component} /\ component' = {}
      /\ UNCHANGED <<nodes, snapshots, results, pc, seen, stack>>
  BY DEF EndComponent, inputVars
<1>2. undirected' = undirected
  BY <1>1, SameGraph
<1>3. found = component /\ found' = {}
  BY <1>1 DEF found
<1>4. IsComponent(component, undirected)
  BY <1>1, WholeComponent
<1>5. /\ seen = (UNION components) \cup component
      /\ Disjoint(components) /\ \A c \in components : c \cap component = {}
      /\ \A c \in components : IsComponent(c, undirected)
  BY <1>1, <1>3 DEF DepthFirst
<1>6. Disjoint(components')
  BY <1>1, <1>5 DEF Disjoint
<1>7. seen' = (UNION components') \cup found'
  BY <1>1, <1>3, <1>5
<1>8. QED
  BY <1>1, <1>2, <1>3, <1>4, <1>5, <1>6, <1>7 DEF DepthFirst

LEMMA StopComponentsSearch ==
  ASSUME TypeOK, DepthFirst, StopComponents PROVE DepthFirst'
<1>1. /\ pc = "components" /\ stack = {} /\ component = {} /\ nodes \subseteq seen
      /\ pc' = "paths"
      /\ UNCHANGED <<nodes, snapshots, results, seen, stack, component, components>>
  BY DEF StopComponents, inputVars, dfsVars
<1>2. undirected' = undirected
  BY <1>1, SameGraph
<1>3. found = {}
  BY <1>1 DEF found
<1>4. (UNION components) = nodes
  BY <1>1, <1>3 DEF DepthFirst, TypeOK
<1>5. AreComponents(components, nodes, undirected)
  BY <1>1, <1>4 DEF DepthFirst, AreComponents
<1>6. QED
  BY <1>1, <1>2, <1>5 DEF DepthFirst

LEMMA PathsKeepComponents ==
  ASSUME DepthFirst, StartSource \/ Reach \/ Advance \/ EndSource
  PROVE  DepthFirst'
<1>1. /\ pc = "paths"
      /\ UNCHANGED <<nodes, snapshots, results, pc, seen, stack, component, components>>
  BY DEF StartSource, Reach, Advance, EndSource, inputVars, dfsVars
<1>2. undirected' = undirected
  BY <1>1, SameGraph
<1>3. QED
  BY <1>1, <1>2 DEF DepthFirst

LEMMA CloseRowSearch == ASSUME DepthFirst, CloseRow PROVE DepthFirst'
<1>1. /\ pc = "paths" /\ pc' \in {"done", "components"}
      /\ seen' = {} /\ components' = {} /\ stack' = stack /\ component' = component
  BY DEF CloseRow
<1>2. stack' = {} /\ component' = {}
  BY <1>1 DEF DepthFirst
<1>3. found' = {} /\ (UNION components') = {} /\ Disjoint(components')
  BY <1>1, <1>2 DEF found, Disjoint
<1>4. QED
  BY <1>1, <1>2, <1>3 DEF DepthFirst

LEMMA DepthFirstInductive ==
  TypeOK /\ DepthFirst /\ [Next]_vars => DepthFirst'
<1> SUFFICES ASSUME TypeOK, DepthFirst, [Next]_vars PROVE DepthFirst'
  OBVIOUS
<1>1. CASE UNCHANGED vars
  <2>1. UNCHANGED <<nodes, snapshots, results, pc, seen, stack, component, components>>
    BY <1>1 DEF vars, inputVars, dfsVars
  <2>2. undirected' = undirected /\ \A a : adjacency(a)' = adjacency(a)
    BY <2>1, SameGraph
  <2>3. found' = found
    BY <2>1 DEF found
  <2>4. QED
    BY <2>1, <2>2, <2>3 DEF DepthFirst
<1>2. QED
  BY <1>1, StartComponentSearch, VisitSearch, EndComponentSearch,
     StopComponentsSearch, PathsKeepComponents, CloseRowSearch DEF Next

LEMMA DepthFirstInit == Init => DepthFirst
<1> SUFFICES ASSUME Init PROVE DepthFirst
  OBVIOUS
<1>1. found = {} /\ (UNION components) = {} /\ Disjoint(components)
  BY DEF Init, found, Disjoint
<1>2. QED
  BY <1>1 DEF Init, DepthFirst

(* A new row takes what the searches have found; older rows stay.          *)
LEMMA NewRow ==
  ASSUME TypeOK, CloseRow
  PROVE  /\ Len(results') = Len(results) + 1 /\ Len(results) \in Nat
         /\ \A k \in 1 .. Len(results) : results'[k] = results[k]
         /\ results'[Len(results) + 1] =
              [components |-> components, distances |-> distances]
         /\ nodes' = nodes /\ \A k : Graph(k)' = Graph(k)
         /\ pc = "paths" /\ frontier = <<>> /\ sources = {}
<1> DEFINE r == [components |-> components, distances |-> distances]
<1>1. /\ results' = Append(results, r) /\ UNCHANGED <<nodes, snapshots>>
      /\ pc = "paths" /\ frontier = <<>> /\ sources = {}
  BY DEF CloseRow, inputVars
<1>2. r \in Result
  BY DEF TypeOK, Result
<1> HIDE DEF r
<1>3. /\ Len(results') = Len(results) + 1 /\ DOMAIN results = 1 .. Len(results)
      /\ \A k \in DOMAIN results : results'[k] = results[k]
      /\ results'[Len(results) + 1] = r /\ Len(results) \in Nat
  BY <1>1, <1>2, Appended DEF TypeOK
<1>4. \A k : Graph(k)' = Graph(k)
  BY <1>1 DEF Graph
<1>5. QED
  BY <1>1, <1>3, <1>4 DEF r

LEMMA ComponentsStep ==
  TypeOK /\ DepthFirst /\ ComponentsRight /\ [Next]_vars => ComponentsRight'
<1> SUFFICES ASSUME TypeOK, DepthFirst, ComponentsRight, [Next]_vars
             PROVE  ComponentsRight'
  OBVIOUS
<1>1. CASE CloseRow
  <2>1. AreComponents(components, nodes,
                      directed_to_undirected(Graph(Len(results) + 1)))
    BY <1>1, NewRow DEF DepthFirst, undirected
  <2>2. SUFFICES ASSUME NEW k \in 1 .. Len(results')
                 PROVE  AreComponents(results'[k].components, nodes,
                                      directed_to_undirected(Graph(k)))
    BY <1>1, NewRow DEF ComponentsRight
  <2>3. k \in 1 .. Len(results) \/ k = Len(results) + 1
    BY <1>1, <2>2, NewRow
  <2>4. QED
    BY <1>1, <2>1, <2>3, NewRow DEF ComponentsRight
<1>2. CASE ~CloseRow
  <2>1. UNCHANGED <<nodes, snapshots, results>>
    BY <1>2 DEF Next, StartComponent, Visit, EndComponent, StopComponents,
       StartSource, Reach, Advance, EndSource, inputVars, vars
  <2>2. \A k : Graph(k)' = Graph(k)
    BY <2>1 DEF Graph
  <2>3. QED
    BY <2>1, <2>2 DEF ComponentsRight
<1>3. QED
  BY <1>1, <1>2

(* In every finite or infinite list of graphs, whatever the order of the   *)
(* visits, the depth-first search finds the connected components.          *)
THEOREM SearchFindsComponents == Spec => []ComponentsRight
<1>1. Init => ComponentsRight
  BY DEF Init, ComponentsRight
<1>2. QED
  BY <1>1, DepthFirstInit, DepthFirstInductive, ComponentsStep, TypeCorrect,
     PTL DEF Spec

-----------------------------------------------------------------------------
(* The breadth-first search: see BreadthFirst.                             *)
LEMMA LevelGrows ==
  ASSUME NEW D, NEW t
  PROVE  /\ Level(D \cup {t}, t[1]) = Level(D, t[1]) \cup {<<t[2], t[3]>>}
         /\ \A other : other # t[1] => Level(D \cup {t}, other) = Level(D, other)
<1>1. {c \in D \cup {t} : c[1] = t[1]} = {c \in D : c[1] = t[1]} \cup {t}
  OBVIOUS
<1>2. {<<c[2], c[3]>> : c \in {b \in D \cup {t} : b[1] = t[1]}} =
        {<<c[2], c[3]>> : c \in {b \in D : b[1] = t[1]}} \cup {<<t[2], t[3]>>}
  <2> DEFINE X == {b \in D : b[1] = t[1]}
  <2> HIDE DEF X
  <2>1. {<<c[2], c[3]>> : c \in X \cup {t}} =
          {<<c[2], c[3]>> : c \in X} \cup {<<t[2], t[3]>>}
    OBVIOUS
  <2>2. QED
    BY <1>1, <2>1 DEF X
<1>3. \A other : other # t[1] =>
        {c \in D \cup {t} : c[1] = other} = {c \in D : c[1] = other}
  OBVIOUS
<1>4. QED
  BY <1>2, <1>3 DEF Level

LEMMA LevelEmpty == \A s : Level({}, s) = {<<s, 0>>}
BY DEF Level

LEMMA ComponentsPhase ==
  ASSUME BreadthFirst, StartComponent \/ Visit \/ EndComponent
  PROVE  BreadthFirst'
<1>1. /\ pc = "components"
      /\ UNCHANGED <<nodes, pc, sources, reached, frontier, at, distances>>
  BY DEF StartComponent, Visit, EndComponent, inputVars, bfsVars
<1>2. frontier = <<>> /\ sources = {} /\ distances = {}
  BY <1>1 DEF BreadthFirst
<1>3. QED
  BY <1>1, <1>2 DEF BreadthFirst

LEMMA StopComponentsPaths ==
  ASSUME BreadthFirst, StopComponents PROVE BreadthFirst'
<1>1. /\ pc = "components" /\ pc' = "paths"
      /\ sources' = IF TooLarge THEN {} ELSE nodes
      /\ UNCHANGED <<nodes, reached, frontier, at, distances>>
  BY DEF StopComponents, inputVars
<1>2. TooLarge' = TooLarge
  BY <1>1 DEF TooLarge
<1>3. frontier' = <<>> /\ distances' = {}
  BY <1>1 DEF BreadthFirst
<1>4. QED
  BY <1>1, <1>2, <1>3, LevelEmpty DEF BreadthFirst

LEMMA StartSourcePaths ==
  ASSUME TypeOK, BreadthFirst, StartSource PROVE BreadthFirst'
<1>1. PICK source \in sources :
        /\ sources' = sources \ {source}
        /\ frontier' = <<<<source, 0>>>> /\ at' = 1
  BY DEF StartSource
<1>2. /\ pc = "paths" /\ frontier = <<>>
      /\ UNCHANGED <<nodes, snapshots, results, pc, distances>>
  BY DEF StartSource, inputVars, dfsVars
<1>3. ~TooLarge /\ TooLarge' = TooLarge
  BY <1>1, <1>2 DEF BreadthFirst, TooLarge
<1>4. undirected' = undirected
  BY <1>2, SameGraph
<1>5. /\ DOMAIN frontier' = {1} /\ frontier'[1] = <<source, 0>>
      /\ frontier' # <<>>
  BY <1>1
<1>6. FrontierSorted'
  <2>1. \A j \in DOMAIN frontier' : j = 1 /\ frontier'[j][2] = 0
    BY <1>5
  <2>2. \A i \in DOMAIN frontier' : ~(i < at')
    BY <1>1, <2>1
  <2>3. \A j \in DOMAIN frontier' : ~(j > 1)
    BY <2>1
  <2>4. frontier'[1][2] = 0 /\ at' > 0
    BY <1>1, <1>5
  <2>5. \A i, j \in DOMAIN frontier' : frontier'[i][2] <= frontier'[j][2]
    BY <2>1
  <2>6. at' \in DOMAIN frontier' => \A j \in DOMAIN frontier' :
          frontier'[j][2] <= frontier'[at'][2] + 1
    BY <2>1
  <2>7. QED
    BY <2>2, <2>3, <2>4, <2>5, <2>6 DEF FrontierSorted
<1>7. {frontier'[i] : i \in DOMAIN frontier'} = {<<source, 0>>}
  <2>1. \A x : x \in {frontier'[i] : i \in DOMAIN frontier'} <=> x = frontier'[1]
    BY <1>5
  <2>2. QED
    BY <1>5, <2>1
<1>8. \A s \in nodes : Searching(s)' <=> s = source
  BY <1>5 DEF Searching
<1>9. \A s \in nodes : ~Searching(s)
  BY <1>2 DEF Searching
<1>10. \A s \in nodes :
         IF s \in sources' THEN Level(distances', s) = {<<s, 0>>}
         ELSE IF Searching(s)'
         THEN Level(distances', s) = {frontier'[i] : i \in DOMAIN frontier'}
         ELSE AreDistances(Level(distances', s), s, nodes', undirected')
  BY <1>1, <1>2, <1>3, <1>4, <1>7, <1>8, <1>9 DEF BreadthFirst
<1>11. QED
  BY <1>1, <1>2, <1>3, <1>5, <1>6, <1>10 DEF BreadthFirst

LEMMA ReachPaths == ASSUME TypeOK, BreadthFirst, Reach PROVE BreadthFirst'
<1>1. PICK neighbor \in adjacency(frontier[at][1]) \ reached :
           /\ at \in DOMAIN frontier /\ frontier[at] \in nodes \X Nat
           /\ frontier[1] \in nodes \X Nat
           /\ frontier[at][2] \in Nat
           /\ neighbor \in nodes
           /\ reached' = reached \cup {neighbor}
           /\ frontier' = Append(frontier, <<neighbor, frontier[at][2] + 1>>)
           /\ frontier' \in Seq(nodes \X Nat)
           /\ Len(frontier') = Len(frontier) + 1
           /\ DOMAIN frontier' = DOMAIN frontier \cup {Len(frontier) + 1}
           /\ \A i \in DOMAIN frontier : frontier'[i] = frontier[i]
           /\ frontier'[Len(frontier) + 1] = <<neighbor, frontier[at][2] + 1>>
           /\ distances' = distances \cup
                {<<frontier[1][1], neighbor, frontier[at][2] + 1>>}
  BY ReachFacts
<1> DEFINE last == Len(frontier) + 1
           entry == <<neighbor, frontier[at][2] + 1>>
<1>2. /\ pc = "paths" /\ at \in 1 .. Len(frontier)
      /\ UNCHANGED <<nodes, snapshots, results, pc, sources, at>>
  BY DEF Reach, inputVars, dfsVars
<1>3. /\ DOMAIN frontier = 1 .. Len(frontier) /\ Len(frontier) \in Nat
      /\ 1 \in DOMAIN frontier /\ frontier # <<>> /\ frontier' # <<>>
      /\ last \notin DOMAIN frontier
      /\ \A i \in DOMAIN frontier : frontier[i][2] \in Nat
  <2>1. frontier \in Seq(nodes \X Nat)
    BY DEF TypeOK
  <2>2. \A i \in DOMAIN frontier : frontier[i] \in nodes \X Nat
    BY <2>1
  <2>3. QED
    BY <1>1, <1>2, <2>1, <2>2
<1>4. undirected' = undirected /\ \A a : adjacency(a)' = adjacency(a)
  BY <1>2, SameGraph
<1>5. ~TooLarge /\ TooLarge' = TooLarge
  BY <1>2, <1>3 DEF BreadthFirst, TooLarge
<1>6. FrontierSorted /\ frontier[1][1] \notin sources
  BY <1>3 DEF BreadthFirst
<1>7. FrontierSorted'
  <2>1. frontier'[1][2] = 0 /\ at' > 0
    BY <1>1, <1>2, <1>3, <1>6 DEF FrontierSorted
  <2>2. \A j \in DOMAIN frontier' : frontier'[j][2] <= frontier'[at'][2] + 1
    BY <1>1, <1>2, <1>6 DEF FrontierSorted
  <2>3. ASSUME NEW i \in DOMAIN frontier', NEW j \in DOMAIN frontier', i <= j
        PROVE  frontier'[i][2] <= frontier'[j][2]
    <3>1. CASE j \in DOMAIN frontier
      <4>1. i \in DOMAIN frontier
        BY <1>1, <1>3, <2>3, <3>1
      <4>2. QED
        BY <1>1, <1>6, <2>3, <3>1, <4>1 DEF FrontierSorted
    <3>2. CASE j = last
      <4>1. frontier'[j][2] = frontier'[at'][2] + 1
        BY <1>1, <1>2, <3>2
      <4>2. QED
        BY <2>2, <4>1
    <3>3. QED
      BY <1>1, <3>1, <3>2
  <2>4. ASSUME NEW i \in DOMAIN frontier', i < at' PROVE Passed(i)'
    <3>1. i \in DOMAIN frontier /\ frontier'[i] = frontier[i]
      BY <1>1, <1>2, <1>3, <2>4
    <3>2. Passed(i)
      BY <1>2, <1>6, <2>4, <3>1 DEF FrontierSorted
    <3>3. SUFFICES ASSUME NEW v \in adjacency(frontier[i][1])
                   PROVE  \E j \in DOMAIN frontier' : frontier'[j][1] = v
                            /\ frontier'[j][2] <= frontier'[i][2] + 1
      BY <1>4, <3>1 DEF Passed
    <3>4. PICK j \in DOMAIN frontier :
            frontier[j][1] = v /\ frontier[j][2] <= frontier[i][2] + 1
      BY <3>2, <3>3 DEF Passed
    <3>5. QED
      BY <1>1, <3>1, <3>4
  <2>5. ASSUME NEW j \in DOMAIN frontier', j > 1 PROVE Discovered(j)'
    <3>1. CASE j \in DOMAIN frontier
      <4>1. PICK i \in DOMAIN frontier :
              /\ Adjacent(frontier[i][1], frontier[j][1], undirected)
              /\ frontier[j][2] = frontier[i][2] + 1
        BY <1>6, <2>5, <3>1 DEF FrontierSorted, Discovered
      <4>2. i \in DOMAIN frontier' /\ frontier'[i] = frontier[i]
              /\ frontier'[j] = frontier[j]
        BY <1>1, <3>1
      <4>3. QED
        BY <1>4, <4>1, <4>2 DEF Discovered
    <3>2. CASE j = last
      <4>1. Adjacent(frontier[at][1], neighbor, undirected)
        BY AdjacencyIsAdjacent
      <4>2. /\ at \in DOMAIN frontier' /\ frontier'[at] = frontier[at]
            /\ frontier'[j][1] = neighbor /\ frontier'[j][2] = frontier[at][2] + 1
        BY <1>1, <3>2
      <4>3. QED
        BY <1>4, <4>1, <4>2 DEF Discovered
    <3>3. QED
      BY <1>1, <3>1, <3>2
  <2>6. QED
    BY <2>1, <2>2, <2>3, <2>4, <2>5 DEF FrontierSorted
<1>8. \A s : Searching(s)' <=> Searching(s)
  BY <1>1, <1>3 DEF Searching
<1>9. {frontier'[i] : i \in DOMAIN frontier'} =
        {frontier[i] : i \in DOMAIN frontier} \cup {entry}
  BY <1>1
<1>10. /\ Level(distances', frontier[1][1]) =
            Level(distances, frontier[1][1]) \cup {entry}
       /\ \A other : other # frontier[1][1] =>
            Level(distances', other) = Level(distances, other)
  <2> DEFINE triple == <<frontier[1][1], neighbor, frontier[at][2] + 1>>
  <2>1. /\ distances' = distances \cup {triple}
        /\ triple[1] = frontier[1][1] /\ entry = <<triple[2], triple[3]>>
    BY <1>1
  <2> HIDE DEF triple, entry
  <2>2. /\ Level(distances \cup {triple}, triple[1]) =
             Level(distances, triple[1]) \cup {<<triple[2], triple[3]>>}
        /\ \A other : other # triple[1] =>
             Level(distances \cup {triple}, other) = Level(distances, other)
    BY LevelGrows
  <2>3. QED
    BY <2>1, <2>2
<1>11. \A s \in nodes :
         IF s \in sources' THEN Level(distances', s) = {<<s, 0>>}
         ELSE IF Searching(s)'
         THEN Level(distances', s) = {frontier'[i] : i \in DOMAIN frontier'}
         ELSE AreDistances(Level(distances', s), s, nodes', undirected')
  <2> HIDE DEF entry
  <2>1. SUFFICES ASSUME NEW s \in nodes
                 PROVE IF s \in sources THEN Level(distances', s) = {<<s, 0>>}
         ELSE IF Searching(s)
         THEN Level(distances', s) = {frontier'[i] : i \in DOMAIN frontier'}
         ELSE AreDistances(Level(distances', s), s, nodes, undirected)
    BY <1>2, <1>4, <1>8
  <2>2. IF s \in sources THEN Level(distances, s) = {<<s, 0>>}
         ELSE IF Searching(s)
         THEN Level(distances, s) = {frontier[i] : i \in DOMAIN frontier}
         ELSE AreDistances(Level(distances, s), s, nodes, undirected)
    BY <1>2, <1>5 DEF BreadthFirst
  <2>3. CASE s = frontier[1][1]
    <3>1. Searching(s) /\ s \notin sources
      BY <1>3, <1>6, <2>3 DEF Searching
    <3>2. QED
      BY <1>9, <1>10, <2>2, <2>3, <3>1
  <2>4. CASE s # frontier[1][1]
    <3>1. ~Searching(s)
      BY <2>4 DEF Searching
    <3>2. QED
      BY <1>10, <2>2, <2>4, <3>1
  <2>5. QED
    BY <2>3, <2>4
<1>12. frontier'[1][1] \notin sources'
  BY <1>1, <1>2, <1>3, <1>6
<1>13. QED
  BY <1>2, <1>3, <1>5, <1>7, <1>11, <1>12 DEF BreadthFirst

LEMMA AdvancePaths == ASSUME TypeOK, BreadthFirst, Advance PROVE BreadthFirst'
<1>1. /\ pc = "paths" /\ at \in 1 .. Len(frontier)
      /\ adjacency(frontier[at][1]) \subseteq reached /\ at' = at + 1
      /\ UNCHANGED <<nodes, snapshots, results, pc, sources, frontier, distances>>
  BY DEF Advance, inputVars, dfsVars
<1>2. /\ at \in DOMAIN frontier /\ frontier # <<>> /\ DOMAIN frontier = 1 .. Len(frontier)
      /\ \A i \in DOMAIN frontier : frontier[i][2] \in Nat
  <2>1. frontier \in Seq(nodes \X Nat)
    BY DEF TypeOK
  <2>2. \A i \in DOMAIN frontier : frontier[i] \in nodes \X Nat
    BY <2>1
  <2>3. QED
    BY <1>1, <2>1, <2>2
<1>3. undirected' = undirected /\ \A a : adjacency(a)' = adjacency(a)
  BY <1>1, SameGraph
<1>4. FrontierSorted
  BY <1>2 DEF BreadthFirst
<1>5. \A i : Passed(i)' <=> Passed(i)
  BY <1>1, <1>3 DEF Passed
<1>6. \A i : Discovered(i)' <=> Discovered(i)
  BY <1>1, <1>3 DEF Discovered
<1>7. Passed(at)
  BY <1>1, <1>2, <1>4 DEF Passed, FrontierSorted, TypeOK
<1>8. FrontierSorted'
  <2>1. \A i \in DOMAIN frontier : i < at' => Passed(i)
    BY <1>1, <1>2, <1>4, <1>7 DEF FrontierSorted
  <2>2. at' \in DOMAIN frontier =>
          \A j \in DOMAIN frontier : frontier[j][2] <= frontier[at'][2] + 1
    <3>1. SUFFICES ASSUME at' \in DOMAIN frontier, NEW j \in DOMAIN frontier
                   PROVE  frontier[j][2] <= frontier[at'][2] + 1
      OBVIOUS
    <3>2. frontier[j][2] <= frontier[at][2] + 1
      BY <1>2, <1>4 DEF FrontierSorted
    <3>3. frontier[at][2] <= frontier[at'][2]
      BY <1>1, <1>2, <1>4, <3>1 DEF FrontierSorted
    <3>4. QED
      BY <1>2, <3>1, <3>2, <3>3
  <2>3. at' > 0
    BY <1>1
  <2>4. QED
    BY <1>1, <1>4, <1>5, <1>6, <2>1, <2>2, <2>3 DEF FrontierSorted
<1>9. \A s : Searching(s)' <=> Searching(s)
  BY <1>1 DEF Searching
<1>10. TooLarge' = TooLarge
  BY <1>1 DEF TooLarge
<1>11. QED
  BY <1>1, <1>3, <1>8, <1>9, <1>10 DEF BreadthFirst

(* When the loop has passed the whole frontier it holds the distances.     *)
LEMMA WholeFrontier ==
  ASSUME TypeOK, FrontierSorted, frontier # <<>>, at > Len(frontier)
  PROVE  AreDistances({frontier[i] : i \in DOMAIN frontier}, frontier[1][1],
                      nodes, undirected)
<1> DEFINE L == {frontier[i] : i \in DOMAIN frontier}
<1>1. /\ frontier \in Seq(nodes \X Nat) /\ DOMAIN frontier = 1 .. Len(frontier)
      /\ Len(frontier) \in Nat /\ at \in Nat
  BY DEF TypeOK
<1>2. \A i \in DOMAIN frontier : frontier[i] \in nodes \X Nat /\ i < at /\ i \in Nat
  BY <1>1
<1>3. 1 \in DOMAIN frontier
  BY <1>1
<1>4. \A a, b \in L : a[1] = b[1] => a = b
  BY DEF TypeOK
<1>5. ASSUME NEW a \in L, NEW v \in nodes, Adjacent(a[1], v, undirected)
      PROVE  \E b \in L : b[1] = v /\ b[2] <= a[2] + 1
  <2>1. PICK i \in DOMAIN frontier : a = frontier[i]
    OBVIOUS
  <2>2. Passed(i)
    BY <1>2 DEF FrontierSorted
  <2>3. v \in adjacency(frontier[i][1])
    BY <1>5, <2>1, AdjacencyIsAdjacent
  <2>4. QED
    BY <2>1, <2>2, <2>3 DEF Passed
<1>6. ASSUME NEW a \in L \ {<<frontier[1][1], 0>>}
      PROVE  \E b \in L : Adjacent(b[1], a[1], undirected) /\ a[2] = b[2] + 1
  <2>1. PICK j \in DOMAIN frontier : a = frontier[j]
    OBVIOUS
  <2>2. frontier[1] = <<frontier[1][1], 0>>
    BY <1>2, <1>3 DEF FrontierSorted
  <2>3. j # 1
    BY <1>6, <2>1, <2>2
  <2>4. Discovered(j)
    BY <1>1, <2>3 DEF FrontierSorted
  <2>5. QED
    BY <2>1, <2>4 DEF Discovered
<1>7. QED
  BY <1>4, <1>5, <1>6 DEF AreDistances

LEMMA EndSourcePaths ==
  ASSUME TypeOK, BreadthFirst, EndSource PROVE BreadthFirst'
<1>1. /\ pc = "paths" /\ frontier # <<>> /\ at > Len(frontier) /\ frontier' = <<>>
      /\ UNCHANGED <<nodes, snapshots, results, pc, sources, distances>>
  BY DEF EndSource, inputVars, dfsVars
<1>2. undirected' = undirected
  BY <1>1, SameGraph
<1>3. AreDistances({frontier[i] : i \in DOMAIN frontier}, frontier[1][1],
                   nodes, undirected)
  BY <1>1, WholeFrontier DEF BreadthFirst
<1>4. ~TooLarge /\ TooLarge' = TooLarge
  BY <1>1 DEF BreadthFirst, TooLarge
<1>5. \A s : ~Searching(s)'
  BY <1>1 DEF Searching
<1>6. \A s \in nodes : Searching(s) =>
        AreDistances({frontier[i] : i \in DOMAIN frontier}, s, nodes, undirected)
  BY <1>3 DEF Searching
<1>7. \A s \in nodes :
         IF s \in sources THEN Level(distances, s) = {<<s, 0>>}
         ELSE AreDistances(Level(distances, s), s, nodes, undirected)
  BY <1>1, <1>4, <1>6 DEF BreadthFirst
<1>8. QED
  BY <1>1, <1>2, <1>4, <1>5, <1>7 DEF BreadthFirst

LEMMA CloseRowPaths == ASSUME BreadthFirst, CloseRow PROVE BreadthFirst'
<1>1. /\ frontier' = <<>> /\ sources' = {} /\ distances' = {}
      /\ pc' \in {"done", "components"}
  BY DEF CloseRow
<1>2. QED
  BY <1>1 DEF BreadthFirst

LEMMA BreadthFirstInductive ==
  TypeOK /\ BreadthFirst /\ [Next]_vars => BreadthFirst'
<1> SUFFICES ASSUME TypeOK, BreadthFirst, [Next]_vars PROVE BreadthFirst'
  OBVIOUS
<1>1. CASE UNCHANGED vars
  <2>1. UNCHANGED <<nodes, snapshots, results, pc, sources, frontier, at, distances>>
    BY <1>1 DEF vars, inputVars, bfsVars
  <2>2. undirected' = undirected /\ \A a : adjacency(a)' = adjacency(a)
    BY <2>1, SameGraph
  <2>3. FrontierSorted' <=> FrontierSorted
    <3>1. \A i : Passed(i)' <=> Passed(i)
      BY <2>1, <2>2 DEF Passed
    <3>2. \A i : Discovered(i)' <=> Discovered(i)
      BY <2>1, <2>2 DEF Discovered
    <3>3. QED
      BY <2>1, <3>1, <3>2 DEF FrontierSorted
  <2>4. TooLarge' = TooLarge /\ \A s : Searching(s)' <=> Searching(s)
    BY <2>1 DEF TooLarge, Searching
  <2>5. QED
    BY <2>1, <2>2, <2>3, <2>4 DEF BreadthFirst
<1>2. QED
  BY <1>1, ComponentsPhase, StopComponentsPaths, StartSourcePaths, ReachPaths,
     AdvancePaths, EndSourcePaths, CloseRowPaths DEF Next

LEMMA DistancesStep ==
  TypeOK /\ BreadthFirst /\ DistancesShortest /\ [Next]_vars => DistancesShortest'
<1> SUFFICES ASSUME TypeOK, BreadthFirst, DistancesShortest, [Next]_vars
             PROVE  DistancesShortest'
  OBVIOUS
<1>1. CASE CloseRow
  <2>1. nodes' = nodes /\ TooLarge' = TooLarge
    BY <1>1, NewRow DEF TooLarge
  <2>2. IF TooLarge THEN distances = {}
        ELSE \A source \in nodes :
          AreDistances(Level(distances, source), source, nodes,
                       directed_to_undirected(Graph(Len(results) + 1)))
    BY <1>1, NewRow DEF BreadthFirst, Searching, undirected
  <2>3. SUFFICES ASSUME NEW k \in 1 .. Len(results')
                 PROVE  IF TooLarge THEN results'[k].distances = {}
                   ELSE \A source \in nodes :
                     AreDistances(Level(results'[k].distances, source), source,
                                  nodes, directed_to_undirected(Graph(k)))
    BY <1>1, <2>1, NewRow DEF DistancesShortest
  <2>4. k \in 1 .. Len(results) \/ k = Len(results) + 1
    BY <1>1, <2>3, NewRow
  <2>5. CASE k \in 1 .. Len(results)
    BY <1>1, <2>5, NewRow DEF DistancesShortest
  <2>6. CASE k = Len(results) + 1
    BY <1>1, <2>2, <2>6, NewRow
  <2>7. QED
    BY <2>4, <2>5, <2>6
<1>2. CASE ~CloseRow
  <2>1. UNCHANGED <<nodes, snapshots, results>>
    BY <1>2 DEF Next, StartComponent, Visit, EndComponent, StopComponents,
       StartSource, Reach, Advance, EndSource, inputVars, vars
  <2>2. TooLarge' = TooLarge /\ \A k : Graph(k)' = Graph(k)
    BY <2>1 DEF Graph, TooLarge
  <2>3. QED
    BY <2>1, <2>2 DEF DistancesShortest
<1>3. QED
  BY <1>1, <1>2

(* In every list of graphs that are not too large, whatever the order of   *)
(* sources and neighbours, the lengths are those of shortest paths.        *)
THEOREM SearchFindsDistances == Spec => []DistancesShortest
<1>1. Init => BreadthFirst
  BY DEF Init, BreadthFirst
<1>2. Init => DistancesShortest
  BY DEF Init, DistancesShortest
<1>3. QED
  BY <1>1, <1>2, BreadthFirstInductive, DistancesStep, TypeCorrect, PTL DEF Spec

-----------------------------------------------------------------------------
(* Convergence.  The heartbeat reported is the first from which all        *)
(* values, up to the last, are within epsilon of each other.               *)
LEMMA LeastElement ==
  ASSUME NEW S, S \subseteq Nat, S # {}
  PROVE  Min(S) \in S /\ \A y \in S : Min(S) <= y
<1> DEFINE R == {ss \in Nat \X Nat : ss[1] < ss[2]}
<1>1. IsWellFoundedOn(R, Nat)
  BY NatLessThanWellFounded, Zenon DEF OpToRel
<1>2. PICK x \in S : \A y \in S : ~ (<<y, x>> \in R)
  <2> HIDE DEF R
  <2>1. QED
    BY <1>1, WFMin
<1>3. ASSUME NEW y \in S PROVE x <= y
  <2>1. x \in Nat /\ y \in Nat /\ <<y, x>> \notin R
    BY <1>2
  <2>2. <<y, x>> \in R <=> <<y, x>>[1] < <<y, x>>[2]
    BY <2>1, Zenon
  <2>3. QED
    BY <2>1, <2>2
<1>4. QED
  BY <1>3 DEF Min

LEMMA SpreadRange ==
  ASSUME NEW V, NEW values \in Seq(V), NEW epsilon,
         NEW i \in Nat, NEW j \in Nat, 1 <= i, j <= Len(values)
  PROVE  Spread(SubSeq(values, i, j), epsilon) <=>
           \A x, y \in i .. j : Within(values[x], values[y], epsilon)
<1> DEFINE tail == SubSeq(values, i, j)
<1>1. CASE j < i
  <2>1. DOMAIN tail = {} /\ i .. j = {}
    BY <1>1
  <2>2. QED
    BY <2>1 DEF Spread
<1>2. CASE i <= j
  <2>1. /\ DOMAIN tail = 1 .. (j - i + 1)
        /\ \A x \in 1 .. (j - i + 1) : tail[x] = values[i + x - 1]
    BY <1>2
  <2> HIDE DEF tail
  <2>2. \A x \in i .. j : x - i + 1 \in DOMAIN tail /\ tail[x - i + 1] = values[x]
    <3> TAKE x \in i .. j
    <3>1. x - i + 1 \in 1 .. (j - i + 1) /\ i + (x - i + 1) - 1 = x
      BY <1>2
    <3>2. QED
      BY <2>1, <3>1
  <2>3. \A x \in DOMAIN tail : i + x - 1 \in i .. j /\ tail[x] = values[i + x - 1]
    BY <1>2, <2>1
  <2>4. Spread(tail, epsilon) <=>
          \A x, y \in i .. j : Within(values[x], values[y], epsilon)
    BY <2>2, <2>3 DEF Spread
  <2>5. QED
    BY <2>4 DEF tail
<1>3. QED
  BY <1>1, <1>2

StableFrom(values, epsilon, i) ==
  /\ i \in 1 .. Len(values) - Window + 1
  /\ \A x, y \in i .. Len(values) : Within(values[x], values[y], epsilon)

LEMMA FirstStable ==
  ASSUME NEW V, NEW values \in Seq(V), NEW epsilon
  PROVE  LET heartbeat == first_stable_index(values, epsilon)
         IN  /\ heartbeat # None => StableFrom(values, epsilon, heartbeat)
             /\ \A i : StableFrom(values, epsilon, i) => heartbeat \in 1 .. i
<1> DEFINE stable == {i \in 1 .. Len(values) - Window + 1 :
                        Spread(SubSeq(values, i, Len(values)), epsilon)}
<1>1. Len(values) \in Nat
  OBVIOUS
<1>2. first_stable_index(values, epsilon) = IF stable = {} THEN None ELSE Min(stable)
  BY DEF first_stable_index
<1>3. \A i : i \in stable <=> StableFrom(values, epsilon, i)
  <2> TAKE i
  <2>1. ASSUME i \in 1 .. Len(values) - Window + 1
        PROVE  Spread(SubSeq(values, i, Len(values)), epsilon) <=>
                 \A x, y \in i .. Len(values) : Within(values[x], values[y], epsilon)
    <3>1. i \in Nat /\ 1 <= i
      BY <1>1, <2>1
    <3>2. QED
      BY <1>1, <3>1, SpreadRange
  <2>2. QED
    BY <2>1 DEF StableFrom
<1> HIDE DEF stable
<1>4. CASE stable = {}
  BY <1>2, <1>3, <1>4
<1>5. CASE stable # {}
  <2>1. \A i \in stable : i \in Nat /\ i >= 1
    BY <1>1, <1>3 DEF StableFrom
  <2>2. Min(stable) \in stable /\ \A i \in stable : Min(stable) <= i
    BY <1>5, <2>1, LeastElement
  <2>3. first_stable_index(values, epsilon) = Min(stable)
    BY <1>2, <1>5
  <2>4. QED
    BY <1>3, <2>1, <2>2, <2>3
<1>6. QED
  BY <1>4, <1>5

(* A graph has one division into connected components.                     *)
LEMMA ComponentsUnique ==
  ASSUME NEW N, NEW edges, NEW P, NEW Q,
         AreComponents(P, N, edges), AreComponents(Q, N, edges)
  PROVE  P = Q
<1>1. ASSUME NEW A, NEW B, AreComponents(A, N, edges), AreComponents(B, N, edges),
             NEW c \in A
      PROVE  c \in B
  <2>1. c # {} /\ Closed(c, edges) /\ c \subseteq N
    BY <1>1 DEF AreComponents, IsComponent
  <2>2. PICK n \in c, d \in B : n \in d
    BY <1>1, <2>1 DEF AreComponents
  <2>3. Closed(d, edges)
    BY <1>1 DEF AreComponents, IsComponent
  <2>4. Closed(c \cap d, edges)
    BY <2>1, <2>3 DEF Closed
  <2>5. c \cap d = c
    BY <1>1, <2>2, <2>4 DEF AreComponents, IsComponent
  <2>6. c \cap d = d
    BY <1>1, <2>2, <2>4 DEF AreComponents, IsComponent
  <2>7. QED
    BY <2>5, <2>6
<1>2. QED
  BY <1>1

AllRows ==
  /\ IsFiniteSet(nodes) /\ snapshots # <<>>
  /\ pc = "done" => Len(results) = Len(snapshots) + 1

LEMMA RowsComplete == Spec => []AllRows
<1>1. Init => AllRows
  BY SearchAssumption DEF Init, AllRows
<1>2. TypeOK /\ AllRows /\ [Next]_vars => AllRows'
  <2> SUFFICES ASSUME TypeOK, AllRows, [Next]_vars PROVE AllRows'
    OBVIOUS
  <2>1. CASE CloseRow
    <3>1. UNCHANGED <<nodes, snapshots>> /\ Len(results') = Len(results) + 1
      BY <2>1, NewRow DEF CloseRow, inputVars
    <3>2. pc' = "done" => Len(results) = Len(snapshots)
      BY <2>1 DEF CloseRow
    <3>3. Len(snapshots) \in Nat
      BY DEF TypeOK
    <3>4. QED
      BY <3>1, <3>2, <3>3 DEF AllRows
  <2>2. CASE ~ CloseRow
    <3>1. UNCHANGED <<nodes, snapshots, results>> /\ (pc' = "done" => pc = "done")
      BY <2>2 DEF Next, StartComponent, Visit, EndComponent, StopComponents,
         StartSource, Reach, Advance, EndSource, inputVars, vars
    <3>2. QED
      BY <3>1 DEF AllRows
  <2>3. QED
    BY <2>1, <2>2
<1>3. QED
  BY <1>1, <1>2, TypeCorrect, PTL DEF Spec

(* The series are of ratios, one per snapshot.                             *)
LEMMA ChurnIsRatio ==
  ASSUME TypeOK, IsFiniteSet(nodes), NEW k \in DOMAIN snapshots
  PROVE  churn_rate(k) \in Nat \X Nat
<1>1. \A i \in 0 .. Len(snapshots) : EdgesAt(i) \subseteq nodes \X nodes
  BY DEF TypeOK, EdgesAt
<1>2. IsFiniteSet(nodes \X nodes)
  BY FS_Product
<1>3. k \in 0 .. Len(snapshots) /\ k - 1 \in 0 .. Len(snapshots)
  BY DEF TypeOK
<1>4. \A S \in SUBSET (nodes \X nodes) : Cardinality(S) \in Nat
  BY <1>2, FS_Subset, FS_CardinalityType
<1> DEFINE old == EdgesAt(k - 1)
           new == EdgesAt(k)
<1>5. old \subseteq nodes \X nodes /\ new \subseteq nodes \X nodes
  BY <1>1, <1>3
<1>6. churn_rate(k) = IF new \cup old = {} THEN <<0, 1>>
                      ELSE <<Cardinality(new \ old) + Cardinality(old \ new),
                             Cardinality(new \cup old)>>
  BY DEF churn_rate
<1> HIDE DEF old, new
<1>7. /\ Cardinality(new \ old) \in Nat /\ Cardinality(old \ new) \in Nat
      /\ Cardinality(new \cup old) \in Nat
  <2>1. /\ new \ old \in SUBSET (nodes \X nodes)
        /\ old \ new \in SUBSET (nodes \X nodes)
        /\ new \cup old \in SUBSET (nodes \X nodes)
    BY <1>5
  <2>2. QED
    BY <1>4, <2>1
<1>8. QED
  BY <1>6, <1>7

LEMMA SeriesTypes ==
  ASSUME TypeOK, AllRows, pc = "done", NEW indicator \in Indicators
  PROVE  /\ indicator[1] \in Seq(Nat \X Nat)
         /\ Len(indicator[1]) = Len(snapshots)
         /\ indicator[2] \in Nat \X Nat
<1>1. IsFiniteSet(nodes) /\ Len(results) > Len(snapshots)
  BY DEF AllRows
<1>2. Len(snapshots) \in Nat /\ DOMAIN snapshots = 1 .. Len(snapshots)
  BY DEF TypeOK
<1>3. \A f \in [DOMAIN snapshots -> Nat \X Nat] :
        f \in Seq(Nat \X Nat) /\ Len(f) = Len(snapshots)
  BY <1>2
<1>4. churn_rates \in [DOMAIN snapshots -> Nat \X Nat]
  BY <1>1, ChurnIsRatio DEF churn_rates
<1>5. degree_means \in [DOMAIN snapshots -> Nat \X Nat]
  <2>1. Cardinality(nodes) \in Nat
    BY <1>1, FS_CardinalityType
  <2>2. Max({1, Cardinality(nodes)}) \in Nat
    <3>1. \E x \in {1, Cardinality(nodes)} :
            \A y \in {1, Cardinality(nodes)} : x >= y
      BY <2>1
    <3>2. Max({1, Cardinality(nodes)}) \in {1, Cardinality(nodes)}
      BY <3>1 DEF Max
    <3>3. QED
      BY <2>1, <3>2
  <2>3. \A k \in DOMAIN snapshots : Cardinality(snapshots[k]) \in Nat
    <3> TAKE k \in DOMAIN snapshots
    <3>1. snapshots[k] \in SUBSET (nodes \X nodes)
      BY DEF TypeOK
    <3>2. IsFiniteSet(nodes \X nodes)
      BY <1>1, FS_Product
    <3>3. QED
      BY <3>1, <3>2, FS_Subset, FS_CardinalityType
  <2>4. QED
    BY <2>2, <2>3 DEF degree_means
<1>6. component_counts \in [DOMAIN snapshots -> Nat \X Nat]
  <2>1. \A k \in DOMAIN snapshots : Cardinality(results[k].components) \in Nat
    <3> TAKE k \in DOMAIN snapshots
    <3>1. results[k] \in Result
      BY <1>1, <1>2 DEF TypeOK
    <3>2. results[k].components \in SUBSET (SUBSET nodes)
      BY <3>1 DEF Result
    <3>3. IsFiniteSet(SUBSET nodes)
      BY <1>1, FS_SUBSET
    <3>4. QED
      BY <3>2, <3>3, FS_Subset, FS_CardinalityType
  <2>2. QED
    BY <2>1 DEF component_counts
<1>7. \/ indicator = <<churn_rates, <<1, 20>>>>
      \/ indicator = <<degree_means, <<1, 2>>>>
      \/ indicator = <<component_counts, <<0, 1>>>>
  BY DEF Indicators
<1>8. indicator[1] \in [DOMAIN snapshots -> Nat \X Nat]
  BY <1>4, <1>5, <1>6, <1>7
<1>9. indicator[2] \in Nat \X Nat
  BY <1>7
<1>10. QED
  BY <1>3, <1>8, <1>9

(* Once the mesh no longer changes no series does, churn from the next     *)
(* heartbeat on.                                                           *)
LEMMA SteadySeries ==
  ASSUME TypeOK, AllRows, ComponentsRight, pc = "done",
         NEW m \in 1 .. Len(snapshots),
         \A k \in m .. Len(snapshots) : snapshots[k] = snapshots[m],
         NEW indicator \in Indicators,
         NEW i \in (m + 1) .. Len(snapshots), NEW j \in (m + 1) .. Len(snapshots)
  PROVE  indicator[1][i] = indicator[1][j]
<1>1. /\ Len(snapshots) \in Nat /\ DOMAIN snapshots = 1 .. Len(snapshots)
      /\ Len(results) \in Nat /\ Len(results) > Len(snapshots)
  BY DEF TypeOK, AllRows
<1>2. /\ i \in DOMAIN snapshots /\ j \in DOMAIN snapshots
      /\ i - 1 \in m .. Len(snapshots) /\ j - 1 \in m .. Len(snapshots)
      /\ i \in m .. Len(snapshots) /\ j \in m .. Len(snapshots)
      /\ i - 1 # 0 /\ j - 1 # 0 /\ i # 0 /\ j # 0
  BY <1>1
<1>3. /\ snapshots[i] = snapshots[m] /\ snapshots[j] = snapshots[m]
      /\ snapshots[i - 1] = snapshots[m] /\ snapshots[j - 1] = snapshots[m]
  BY <1>2
<1>4. churn_rates[i] = churn_rates[j]
  <2>1. /\ EdgesAt(i) = snapshots[m] /\ EdgesAt(i - 1) = snapshots[m]
        /\ EdgesAt(j) = snapshots[m] /\ EdgesAt(j - 1) = snapshots[m]
    BY <1>2, <1>3 DEF EdgesAt
  <2>2. churn_rate(i) = churn_rate(j)
    BY <2>1 DEF churn_rate
  <2>3. QED
    BY <1>2, <2>2 DEF churn_rates
<1>5. degree_means[i] = degree_means[j]
  BY <1>2, <1>3 DEF degree_means
<1>6. component_counts[i] = component_counts[j]
  <2>1. i \in 1 .. Len(results) /\ j \in 1 .. Len(results)
    BY <1>1
  <2>2. Graph(i) = snapshots[m] /\ Graph(j) = snapshots[m]
    BY <1>2, <1>3 DEF Graph
  <2>3. results[i].components = results[j].components
    BY <2>1, <2>2, ComponentsUnique DEF ComponentsRight
  <2>4. QED
    BY <1>2, <2>3 DEF component_counts
<1>7. \/ indicator = <<churn_rates, <<1, 20>>>>
      \/ indicator = <<degree_means, <<1, 2>>>>
      \/ indicator = <<component_counts, <<0, 1>>>>
  BY DEF Indicators
<1>8. QED
  BY <1>4, <1>5, <1>6, <1>7

LEMMA WithinItself ==
  ASSUME NEW a \in Nat \X Nat, NEW epsilon \in Nat \X Nat
  PROVE  Within(a, a, epsilon)
<1>1. a[1] \in Nat /\ a[2] \in Nat /\ epsilon[1] \in Nat /\ epsilon[2] \in Nat
  OBVIOUS
<1>2. a[1] * a[2] - a[1] * a[2] = 0
  BY <1>1
<1>3. 0 * epsilon[2] = 0
  BY <1>1
<1>4. epsilon[1] * a[2] * a[2] \in Nat
  BY <1>1
<1>5. QED
  BY <1>2, <1>3, <1>4 DEF Within

(* An indicator's heartbeat means what stability_rule says; a mesh that no *)
(* longer changes is reported in time, although components are searched    *)
(* for anew in every snapshot; and more heartbeats never move it earlier:  *)
(* for every list of finite graphs.                                        *)
THEOREM ConvergenceMeans == Spec => []ConvergenceMeaningful
<1>1. TypeOK /\ AllRows /\ ComponentsRight => ConvergenceMeaningful
  <2> SUFFICES ASSUME TypeOK, AllRows, ComponentsRight, pc = "done",
                      NEW indicator \in Indicators
               PROVE  LET values    == indicator[1]
                          epsilon   == indicator[2]
                          heartbeat == first_stable_index(values, epsilon)
                      IN  /\ heartbeat # None =>
                               \A i \in heartbeat .. Len(values) - Window + 1 :
                                 Spread(SubSeq(values, i, i + Window - 1), epsilon)
                          /\ \A m \in 1 .. Len(values) - Window :
                               (\A k \in m .. Len(values) : snapshots[k] = snapshots[m])
                                 => heartbeat \in 1 .. m + 1
                          /\ \A k \in 1 .. Len(values) :
                               heartbeat # None =>
                                 first_stable_index(SubSeq(values, 1, k), epsilon)
                                   <= heartbeat
    BY DEF ConvergenceMeaningful
  <2> DEFINE values    == indicator[1]
             epsilon   == indicator[2]
             heartbeat == first_stable_index(values, epsilon)
  <2>1. /\ values \in Seq(Nat \X Nat) /\ Len(values) = Len(snapshots)
        /\ epsilon \in Nat \X Nat /\ Len(values) \in Nat
    BY SeriesTypes
  <2>2. /\ heartbeat # None => StableFrom(values, epsilon, heartbeat)
        /\ \A i : StableFrom(values, epsilon, i) => heartbeat \in 1 .. i
    BY <2>1, FirstStable
  <2>3. ASSUME NEW m \in 1 .. Len(snapshots),
               \A k \in m .. Len(snapshots) : snapshots[k] = snapshots[m],
               NEW i \in (m + 1) .. Len(snapshots), NEW j \in (m + 1) .. Len(snapshots)
        PROVE  values[i] = values[j]
    BY <2>3, SteadySeries
  <2> HIDE DEF values, epsilon, heartbeat
  <2>6. ASSUME NEW m \in 1 .. Len(values) - Window,
               \A k \in m .. Len(values) : snapshots[k] = snapshots[m]
        PROVE  heartbeat \in 1 .. m + 1
    <3>1. m \in 1 .. Len(snapshots) /\ m + 1 \in 1 .. Len(values) - Window + 1
      BY <2>1 DEF Window
    <3>2. \A x, y \in (m + 1) .. Len(values) : values[x] = values[y]
      BY <2>1, <2>3, <2>6, <3>1
    <3>3. \A x \in (m + 1) .. Len(values) : values[x] \in Nat \X Nat
      <4>1. \A x \in (m + 1) .. Len(values) : x \in 1 .. Len(values)
        BY <2>1, <3>1
      <4>2. QED
        BY <2>1, <4>1
    <3>4. \A x, y \in (m + 1) .. Len(values) : Within(values[x], values[y], epsilon)
      <4> TAKE x, y \in (m + 1) .. Len(values)
      <4>1. values[x] = values[y] /\ values[x] \in Nat \X Nat
        BY <3>2, <3>3
      <4>2. QED
        BY <2>1, <4>1, WithinItself
    <3>5. StableFrom(values, epsilon, m + 1)
      BY <3>1, <3>4 DEF StableFrom
    <3>6. QED
      BY <2>2, <3>5
  <2>4. ASSUME heartbeat # None, NEW i \in heartbeat .. Len(values) - Window + 1
        PROVE  Spread(SubSeq(values, i, i + Window - 1), epsilon)
    <3>1. heartbeat \in Nat /\ heartbeat >= 1
      BY <2>1, <2>2, <2>4 DEF StableFrom
    <3>2. /\ i \in Nat /\ 1 <= i /\ i + Window - 1 \in Nat
          /\ i + Window - 1 <= Len(values)
      BY <2>1, <2>4, <3>1 DEF Window
    <3>3. \A x \in i .. (i + Window - 1) : x \in heartbeat .. Len(values)
      BY <2>1, <2>4, <3>1, <3>2
    <3>4. \A x, y \in i .. (i + Window - 1) : Within(values[x], values[y], epsilon)
      BY <2>2, <2>4, <3>3 DEF StableFrom
    <3>5. QED
      BY <2>1, <3>2, <3>4, SpreadRange
  <2>5. ASSUME heartbeat # None, NEW k \in 1 .. Len(values)
        PROVE  first_stable_index(SubSeq(values, 1, k), epsilon) <= heartbeat
    <3> DEFINE prefix == SubSeq(values, 1, k)
               earlier == first_stable_index(prefix, epsilon)
    <3>1. /\ prefix \in Seq(Nat \X Nat) /\ Len(prefix) = k
          /\ \A x \in 1 .. k : prefix[x] = values[x]
      BY <2>1
    <3>2. /\ earlier # None => StableFrom(prefix, epsilon, earlier)
          /\ \A i : StableFrom(prefix, epsilon, i) => earlier \in 1 .. i
      BY <3>1, FirstStable
    <3> HIDE DEF prefix, earlier
    <3>3. heartbeat \in 1 .. Len(values) /\ k \in Nat
      BY <2>1, <2>2, <2>5 DEF StableFrom, Window
    <3>4. CASE heartbeat <= k - Window + 1
      <4>1. heartbeat \in 1 .. Len(prefix) - Window + 1
        BY <3>1, <3>3, <3>4 DEF Window
      <4>2. \A x \in heartbeat .. Len(prefix) :
              /\ x \in heartbeat .. Len(values)
              /\ prefix[x] = values[x]
        <5> TAKE x \in heartbeat .. Len(prefix)
        <5>1. x \in 1 .. k /\ x \in heartbeat .. Len(values)
          BY <2>1, <3>1, <3>3
        <5>2. QED
          BY <3>1, <5>1
      <4>3. StableFrom(prefix, epsilon, heartbeat)
        BY <2>2, <2>5, <4>1, <4>2 DEF StableFrom
      <4>4. QED
        BY <3>2, <3>3, <4>3 DEF prefix, earlier
    <3>5. CASE heartbeat > k - Window + 1
      <4>1. earlier # None => earlier \in 1 .. k - Window + 1
        BY <3>1, <3>2 DEF StableFrom
      <4>2. earlier <= heartbeat
        BY <3>3, <3>5, <4>1 DEF Window, None
      <4>3. QED
        BY <4>2 DEF prefix, earlier
    <3>6. QED
      BY <3>3, <3>4, <3>5 DEF Window
  <2>7. QED
    BY <2>4, <2>5, <2>6 DEF values, epsilon, heartbeat
<1>2. QED
  BY <1>1, RowsComplete, TypeCorrect, SearchFindsComponents, PTL

-----------------------------------------------------------------------------
(* Counting.                                                               *)
LEMMA MaxOfBounded ==
  ASSUME NEW S, NEW n \in Nat, S \subseteq 0 .. n, S # {}
  PROVE  Max(S) \in S /\ \A y \in S : y <= Max(S)
<1> DEFINE T == {n - x : x \in S}
<1>1. T \subseteq Nat /\ T # {}
  <2>1. \A x \in S : n - x \in Nat
    OBVIOUS
  <2>2. QED
    BY <2>1
<1>2. Min(T) \in T /\ \A y \in T : Min(T) <= y
  BY <1>1, LeastElement
<1>3. PICK x \in S : \A y \in S : n - x <= n - y
  BY <1>2
<1>4. x \in S /\ \A y \in S : x >= y
  BY <1>3
<1>5. Max(S) \in S /\ \A y \in S : Max(S) >= y
  BY <1>4 DEF Max
<1>6. QED
  BY <1>5

(* A one-to-one image of a finite set has as many elements.                *)
LEMMA SameSize ==
  ASSUME NEW S, NEW T, NEW f, IsFiniteSet(S),
         \A x \in S : f[x] \in T, \A y \in T : \E x \in S : f[x] = y,
         \A x, y \in S : f[x] = f[y] => x = y
  PROVE  /\ IsFiniteSet(T) /\ Cardinality(T) = Cardinality(S)
         /\ Cardinality(S) \in Nat
<1> DEFINE g == [x \in S |-> f[x]]
<1>1. g \in [S -> T] /\ \A x \in S : g[x] = f[x]
  OBVIOUS
<1> HIDE DEF g
<1>2. g \in Bijection(S, T)
  BY <1>1 DEF Bijection, Injection, Surjection, IsInjective
<1>3. QED
  BY <1>2, FS_Bijection, FS_CardinalityType DEF ExistsBijection

LEMMA DisjointUnion ==
  ASSUME NEW A, NEW B, IsFiniteSet(A), IsFiniteSet(B), A \cap B = {}
  PROVE  /\ IsFiniteSet(A \cup B)
         /\ Cardinality(A \cup B) = Cardinality(A) + Cardinality(B)
         /\ Cardinality(A) \in Nat /\ Cardinality(B) \in Nat
<1>1. Cardinality(A \cap B) = 0
  BY FS_EmptySet
<1>2. /\ IsFiniteSet(A \cup B)
      /\ Cardinality(A \cup B) = Cardinality(A) + Cardinality(B) - Cardinality(A \cap B)
  BY FS_Union
<1>3. Cardinality(A) \in Nat /\ Cardinality(B) \in Nat
  BY FS_CardinalityType
<1>4. QED
  BY <1>1, <1>2, <1>3

LEMMA TwoElements ==
  ASSUME NEW a, NEW b, a # b
  PROVE  IsFiniteSet({a, b}) /\ Cardinality({a, b}) = 2
<1> DEFINE A == {a}  B == {b}
<1>1. /\ IsFiniteSet(A) /\ Cardinality(A) = 1
      /\ IsFiniteSet(B) /\ Cardinality(B) = 1
  BY FS_Singleton
<1>2. A \cup B = {a, b} /\ A \cap B = {}
  OBVIOUS
<1> HIDE DEF A, B
<1>3. IsFiniteSet(A \cup B) /\ Cardinality(A \cup B) = 1 + 1
  BY <1>1, <1>2, DisjointUnion
<1>4. QED
  BY <1>2, <1>3

(* The equation of a sum over D, one element after the other, has one      *)
(* solution.                                                               *)
SumEquation(f, D, sum) ==
  sum = [s \in SUBSET D |->
          IF s = {} THEN 0
          ELSE f[CHOOSE k \in s : TRUE] + sum[s \ {CHOOSE k \in s : TRUE}]]

LEMMA SumUnique ==
  ASSUME NEW D, IsFiniteSet(D), NEW f, NEW a, NEW b,
         SumEquation(f, D, a), SumEquation(f, D, b)
  PROVE  a[D] = b[D]
<1> DEFINE Apart == {s \in SUBSET D : a[s] # b[s]}
<1>1. ASSUME NEW s \in SUBSET D
      PROVE  IsFiniteSet(s) /\ Cardinality(s) \in Nat
  BY FS_Subset, FS_CardinalityType
<1>2. SUFFICES ASSUME Apart # {} PROVE FALSE
  OBVIOUS
<1>3. PICK s \in Apart : \A t \in Apart : Cardinality(s) <= Cardinality(t)
  <2> DEFINE Sizes == {Cardinality(t) : t \in Apart}
  <2>1. Sizes \subseteq Nat /\ Sizes # {}
    BY <1>1, <1>2
  <2>2. Min(Sizes) \in Sizes /\ \A d \in Sizes : Min(Sizes) <= d
    BY <2>1, LeastElement
  <2>3. QED
    BY <2>2
<1> DEFINE k == CHOOSE x \in s : TRUE
<1>4. a[s] = (IF s = {} THEN 0 ELSE f[k] + a[s \ {k}])
  BY <1>3, Zenon DEF SumEquation
<1>5. b[s] = (IF s = {} THEN 0 ELSE f[k] + b[s \ {k}])
  BY <1>3, Zenon DEF SumEquation
<1>6. s # {}
  BY <1>3, <1>4, <1>5
<1>7. k \in s
  BY <1>6
<1> HIDE DEF k
<1>8. Cardinality(s \ {k}) < Cardinality(s)
  BY <1>1, <1>3, <1>7, FS_RemoveElement
<1>9. s \ {k} \notin Apart
  <2>1. s \ {k} \in SUBSET D
    BY <1>3
  <2>2. QED
    BY <1>1, <1>3, <1>8, <2>1
<1>10. a[s \ {k}] = b[s \ {k}]
  BY <1>3, <1>9
<1>11. QED
  BY <1>3, <1>4, <1>5, <1>6, <1>10

(* A solution is a function on the subsets of D that is 0 for none and     *)
(* grows with each element by its value, in whatever order they come.      *)
LEMMA SumSolved ==
  ASSUME NEW D, NEW f, NEW g, g = [s \in SUBSET D |-> g[s]], g[{}] = 0,
         \A s \in SUBSET D : \A k \in s : g[s] = f[k] + g[s \ {k}]
  PROVE  SumEquation(f, D, g)
<1> DEFINE chosen(s) == CHOOSE k \in s : TRUE
<1>1. \A s \in SUBSET D : s # {} => chosen(s) \in s
  OBVIOUS
<1> HIDE DEF chosen
<1>2. \A s \in SUBSET D :
        g[s] = IF s = {} THEN 0 ELSE f[chosen(s)] + g[s \ {chosen(s)}]
  BY <1>1
<1>3. g = [s \in SUBSET D |->
            IF s = {} THEN 0 ELSE f[chosen(s)] + g[s \ {chosen(s)}]]
  BY <1>2
<1>4. QED
  BY <1>3 DEF SumEquation, chosen

SumOver(f, D) == (CHOOSE sum : SumEquation(f, D, sum))[D]

LEMMA SumIs ==
  ASSUME NEW D, IsFiniteSet(D), NEW f, NEW g, SumEquation(f, D, g)
  PROVE  SumOver(f, D) = g[D]
<1> DEFINE sum == CHOOSE s : SumEquation(f, D, s)
<1>1. SumEquation(f, D, sum)
  BY Zenon
<1> HIDE DEF sum
<1>2. sum[D] = g[D]
  BY <1>1, SumUnique
<1>3. QED
  BY <1>2 DEF SumOver, sum

(* Counting the elements of E key by key is counting them all.             *)
LEMMA FibreSum ==
  ASSUME NEW D, IsFiniteSet(D), NEW E, IsFiniteSet(E), NEW key, NEW f,
         \A k \in D : f[k] = Cardinality({e \in E : key[e] = k}),
         \A e \in E : key[e] \in D
  PROVE  SumOver(f, D) = Cardinality(E)
<1> DEFINE Keyed(s) == {e \in E : key[e] \in s}
           g == [s \in SUBSET D |-> Cardinality(Keyed(s))]
<1>1. \A s : IsFiniteSet(Keyed(s))
  BY FS_Subset
<1>2. g = [s \in SUBSET D |-> g[s]] /\ g[{}] = 0
  <2>1. Keyed({}) = {}
    OBVIOUS
  <2>2. QED
    BY <2>1, FS_EmptySet
<1>3. ASSUME NEW s \in SUBSET D, NEW k \in s
      PROVE  g[s] = f[k] + g[s \ {k}]
  <2>1. /\ {e \in E : key[e] = k} \cup Keyed(s \ {k}) = Keyed(s)
        /\ {e \in E : key[e] = k} \cap Keyed(s \ {k}) = {}
    OBVIOUS
  <2>2. IsFiniteSet({e \in E : key[e] = k}) /\ IsFiniteSet(Keyed(s \ {k}))
    BY <1>1, FS_Subset
  <2>3. g[s] = Cardinality(Keyed(s)) /\ g[s \ {k}] = Cardinality(Keyed(s \ {k}))
        /\ f[k] = Cardinality({e \in E : key[e] = k})
    OBVIOUS
  <2> DEFINE A == {e \in E : key[e] = k}
             B == Keyed(s \ {k})
  <2>4. /\ A \cup B = Keyed(s) /\ A \cap B = {} /\ IsFiniteSet(A) /\ IsFiniteSet(B)
        /\ g[s] = Cardinality(Keyed(s)) /\ g[s \ {k}] = Cardinality(B)
        /\ f[k] = Cardinality(A)
    BY <2>1, <2>2, <2>3
  <2> HIDE DEF g, Keyed, A, B
  <2>5. QED
    BY <2>4, DisjointUnion
<1>4. g[D] = Cardinality(Keyed(D)) /\ Keyed(D) = E
  OBVIOUS
<1> HIDE DEF g, Keyed
<1>5. SumEquation(f, D, g)
  BY <1>2, <1>3, SumSolved
<1>6. SumOver(f, D) = g[D]
  BY <1>5, SumIs
<1>7. QED
  BY <1>4, <1>6

(* Equal fibres: a set of pairs, say, with d of them for each key.         *)
LEMMA EqualFibres ==
  ASSUME NEW D, IsFiniteSet(D), NEW E, IsFiniteSet(E), NEW key, NEW d \in Nat,
         \A k \in D : Cardinality({e \in E : key[e] = k}) = d,
         \A e \in E : key[e] \in D
  PROVE  Cardinality(E) = d * Cardinality(D)
<1> DEFINE f == [k \in D |-> d]
           g == [s \in SUBSET D |-> d * Cardinality(s)]
<1>1. SumOver(f, D) = Cardinality(E)
  <2>1. \A k \in D : f[k] = Cardinality({e \in E : key[e] = k})
    OBVIOUS
  <2> HIDE DEF f
  <2>2. QED
    BY <2>1, FibreSum
<1>3. SumEquation(f, D, g)
  <2>1. g[{}] = 0
    BY FS_EmptySet
  <2>2. ASSUME NEW s \in SUBSET D, NEW k \in s
        PROVE  g[s] = f[k] + g[s \ {k}]
    <3>1. IsFiniteSet(s) /\ Cardinality(s) \in Nat
      BY FS_Subset, FS_CardinalityType
    <3>2. Cardinality(s \ {k}) = Cardinality(s) - 1
      BY <3>1, FS_RemoveElement
    <3>3. g[s] = d * Cardinality(s) /\ g[s \ {k}] = d * Cardinality(s \ {k}) /\ f[k] = d
      OBVIOUS
    <3> DEFINE c == Cardinality(s)
    <3>4. c \in Nat /\ g[s] = d * c /\ g[s \ {k}] = d * (c - 1) /\ f[k] = d
      BY <3>1, <3>2, <3>3
    <3> HIDE DEF c, g, f
    <3>5. QED
      BY <3>4
  <2>3. g = [s \in SUBSET D |-> g[s]]
    OBVIOUS
  <2> HIDE DEF f, g
  <2>4. QED
    BY <2>1, <2>2, <2>3, SumSolved
<1>2. g[D] = d * Cardinality(D)
  OBVIOUS
<1> HIDE DEF f, g
<1>4. SumOver(f, D) = g[D]
  BY <1>3, SumIs
<1>5. QED
  BY <1>1, <1>2, <1>4

-----------------------------------------------------------------------------
(* Degrees.                                                                *)
SimpleGraph(E) ==
  /\ nodes \subseteq Nat /\ IsFiniteSet(nodes)
  /\ E \subseteq nodes \X nodes /\ \A e \in E : e[1] # e[2]

LEMMA PairFacts ==
  ASSUME NEW N, NEW e \in N \X N
  PROVE  e = <<e[1], e[2]>> /\ e[1] \in N /\ e[2] \in N
OBVIOUS

LEMMA UndirectedPairs ==
  ASSUME NEW E, SimpleGraph(E)
  PROVE  /\ IsFiniteSet(nodes \X nodes) /\ IsFiniteSet(E)
         /\ directed_to_undirected(E) \subseteq nodes \X nodes
         /\ IsFiniteSet(directed_to_undirected(E))
         /\ \A e \in directed_to_undirected(E) : e[1] < e[2]
         /\ \A a, b \in nodes : <<a, b>> \in directed_to_undirected(E) <=>
              a < b /\ (<<a, b>> \in E \/ <<b, a>> \in E)
<1> DEFINE U == directed_to_undirected(E)
           low(e)  == IF e[1] < e[2] THEN e[1] ELSE e[2]
           high(e) == IF e[1] < e[2] THEN e[2] ELSE e[1]
<1> USE DEF SimpleGraph
<1>1. ASSUME NEW e \in E
      PROVE  /\ e[1] \in nodes /\ e[2] \in nodes /\ e = <<e[1], e[2]>>
             /\ e[1] \in Nat /\ e[2] \in Nat /\ e[1] # e[2]
  <2>1. e \in nodes \X nodes
    OBVIOUS
  <2>2. e = <<e[1], e[2]>> /\ e[1] \in nodes /\ e[2] \in nodes
    BY <2>1, PairFacts
  <2>3. QED
    BY <2>2
<1>2. U = {<<low(e), high(e)>> : e \in E}
  BY <1>1 DEF directed_to_undirected
<1>3. \A e \in E : low(e) \in nodes /\ high(e) \in nodes /\ low(e) < high(e)
  BY <1>1
<1>4. U \subseteq nodes \X nodes /\ \A e \in U : e[1] < e[2]
  <2> HIDE DEF low, high, U
  <2>1. QED
    BY <1>2, <1>3
<1>5. ASSUME NEW a \in nodes, NEW b \in nodes
      PROVE  <<a, b>> \in U <=> a < b /\ (<<a, b>> \in E \/ <<b, a>> \in E)
  <2>1. a \in Nat /\ b \in Nat
    OBVIOUS
  <2>2. ASSUME <<a, b>> \in U PROVE a < b /\ (<<a, b>> \in E \/ <<b, a>> \in E)
    <3>1. PICK e \in E : <<a, b>> = <<low(e), high(e)>>
      BY <1>2, <2>2
    <3>2. a = low(e) /\ b = high(e)
      BY <3>1, Zenon
    <3>3. e = <<a, b>> \/ e = <<b, a>>
      BY <1>1, <3>2
    <3>4. QED
      BY <1>3, <3>1, <3>2, <3>3
  <2>3. ASSUME a < b, <<a, b>> \in E PROVE <<a, b>> \in U
    <3>1. low(<<a, b>>) = a /\ high(<<a, b>>) = b
      BY <2>3
    <3> HIDE DEF low, high, U
    <3>2. QED
      BY <1>2, <2>3, <3>1
  <2>4. ASSUME a < b, <<b, a>> \in E PROVE <<a, b>> \in U
    <3>1. low(<<b, a>>) = a /\ high(<<b, a>>) = b
      BY <2>1, <2>4
    <3> HIDE DEF low, high, U
    <3>2. QED
      BY <1>2, <2>4, <3>1
  <2> HIDE DEF U
  <2>5. QED
    BY <2>2, <2>3, <2>4
<1>6. IsFiniteSet(nodes \X nodes)
  BY FS_Product
<1>7. IsFiniteSet(E) /\ IsFiniteSet(U)
  <2> HIDE DEF U
  <2>1. QED
    BY <1>4, <1>6, FS_Subset
<1>8. QED
  BY <1>4, <1>5, <1>6, <1>7

Flip(A) == {<<e[2], e[1]>> : e \in A}

LEMMA FlipPairs ==
  ASSUME NEW A, NEW N, A \subseteq N \X N, IsFiniteSet(A)
  PROVE  /\ IsFiniteSet(Flip(A)) /\ Cardinality(Flip(A)) = Cardinality(A)
         /\ Flip(A) \subseteq N \X N
         /\ \A a, b \in N : <<a, b>> \in Flip(A) <=> <<b, a>> \in A
<1> DEFINE f == [e \in A |-> <<e[2], e[1]>>]
<1>1. \A e \in A : e = <<e[1], e[2]>> /\ e[1] \in N /\ e[2] \in N
  OBVIOUS
<1>2. \A e \in A : f[e] = <<e[2], e[1]>>
  OBVIOUS
<1> HIDE DEF f
<1>3. \A e \in A : f[e] \in Flip(A)
  BY <1>2 DEF Flip
<1>4. \A y \in Flip(A) : \E e \in A : f[e] = y
  BY <1>2 DEF Flip
<1>5. ASSUME NEW x \in A, NEW y \in A, f[x] = f[y] PROVE x = y
  <2>1. x[2] = y[2] /\ x[1] = y[1]
    BY <1>2, <1>5
  <2>2. QED
    BY <1>1, <2>1
<1>6. IsFiniteSet(Flip(A)) /\ Cardinality(Flip(A)) = Cardinality(A)
  BY <1>3, <1>4, <1>5, SameSize
<1>7. Flip(A) \subseteq N \X N
  BY <1>1 DEF Flip
<1>8. ASSUME NEW a \in N, NEW b \in N
      PROVE  <<a, b>> \in Flip(A) <=> <<b, a>> \in A
  <2>1. ASSUME <<a, b>> \in Flip(A) PROVE <<b, a>> \in A
    <3>1. PICK e \in A : <<a, b>> = <<e[2], e[1]>>
      BY <2>1 DEF Flip
    <3>2. e = <<b, a>>
      BY <1>1, <3>1
    <3>3. QED
      BY <3>2
  <2>2. ASSUME <<b, a>> \in A PROVE <<a, b>> \in Flip(A)
    <3>1. <<a, b>> = <<(<<b, a>>)[2], (<<b, a>>)[1]>>
      OBVIOUS
    <3>2. QED
      BY <2>2, <3>1 DEF Flip
  <2>3. QED
    BY <2>1, <2>2
<1>9. QED
  BY <1>6, <1>7, <1>8

(* The undirected view loses one of each mutual pair, nothing else.        *)
LEMMA MutualLost ==
  ASSUME NEW E, SimpleGraph(E)
  PROVE  /\ 2 * Cardinality(directed_to_undirected(E)) + Cardinality(reciprocal(E))
              = 2 * Cardinality(E)
         /\ Cardinality(reciprocal(E)) <= Cardinality(E)
         /\ Cardinality(reciprocal(E)) \in Nat /\ Cardinality(E) \in Nat
         /\ Cardinality(directed_to_undirected(E)) \in Nat
<1> DEFINE U    == directed_to_undirected(E)
           Up   == {e \in E : e[1] < e[2]}
           Down == {e \in E : e[2] < e[1]}
           Both == Up \cap Flip(Down)
<1>1. nodes \subseteq Nat /\ E \subseteq nodes \X nodes /\ \A e \in E : e[1] # e[2]
  BY DEF SimpleGraph
<1>2. /\ IsFiniteSet(E) /\ IsFiniteSet(U) /\ U \subseteq nodes \X nodes
      /\ \A a, b \in nodes : <<a, b>> \in U <=>
           a < b /\ (<<a, b>> \in E \/ <<b, a>> \in E)
  BY UndirectedPairs
<1>3. ASSUME NEW e \in nodes \X nodes
      PROVE  /\ e = <<e[1], e[2]>> /\ e[1] \in nodes /\ e[2] \in nodes
             /\ e[1] \in Nat /\ e[2] \in Nat
  BY <1>1, PairFacts
<1>4. Up \subseteq nodes \X nodes /\ Down \subseteq nodes \X nodes
      /\ IsFiniteSet(Up) /\ IsFiniteSet(Down)
  BY <1>1, <1>2, FS_Subset
<1>5. Up \cup Down = E /\ Up \cap Down = {}
  BY <1>1, <1>3
<1> HIDE DEF U
<1>6. /\ IsFiniteSet(Flip(Down)) /\ Cardinality(Flip(Down)) = Cardinality(Down)
      /\ Flip(Down) \subseteq nodes \X nodes
      /\ \A a, b \in nodes : <<a, b>> \in Flip(Down) <=> <<b, a>> \in Down
  BY <1>4, FlipPairs
<1>7. \A a, b \in nodes :
        /\ (<<a, b>> \in Up <=> <<a, b>> \in E /\ a < b)
        /\ (<<a, b>> \in Flip(Down) <=> <<b, a>> \in E /\ a < b)
  BY <1>6
<1>8. U = Up \cup Flip(Down)
  <2> HIDE DEF Up, Down
  <2>1. ASSUME NEW e \in nodes \X nodes
        PROVE  e \in U <=> e \in Up \cup Flip(Down)
    <3>1. PICK a \in nodes, b \in nodes : e = <<a, b>>
      BY <1>3
    <3>2. QED
      BY <1>2, <1>7, <3>1
  <2>2. QED
    BY <1>2, <1>4, <1>6, <2>1
<1>9. /\ Both \subseteq nodes \X nodes /\ IsFiniteSet(Both)
      /\ \A a, b \in nodes : <<a, b>> \in Both <=>
           a < b /\ <<a, b>> \in E /\ <<b, a>> \in E
  <2>1. Both \subseteq Up
    OBVIOUS
  <2>2. QED
    BY <1>4, <1>7, <2>1, FS_Subset
<1> HIDE DEF Both
<1>10. /\ IsFiniteSet(Flip(Both)) /\ Cardinality(Flip(Both)) = Cardinality(Both)
       /\ Flip(Both) \subseteq nodes \X nodes
       /\ \A a, b \in nodes : <<a, b>> \in Flip(Both) <=> <<b, a>> \in Both
  BY <1>9, FlipPairs
<1>11. reciprocal(E) = Both \cup Flip(Both)
  <2>1. ASSUME NEW e \in nodes \X nodes
        PROVE  e \in reciprocal(E) <=> e \in Both \cup Flip(Both)
    <3>1. PICK a \in nodes, b \in nodes : e = <<a, b>> /\ a \in Nat /\ b \in Nat
      BY <1>3
    <3>2. e[1] = a /\ e[2] = b
      BY <3>1
    <3>3. e \in reciprocal(E) <=> <<a, b>> \in E /\ <<b, a>> \in E
      BY <3>1, <3>2 DEF reciprocal
    <3>4. <<a, b>> \in E => a # b
      BY <1>1, <3>1, <3>2
    <3>5. QED
      BY <1>9, <1>10, <3>1, <3>3, <3>4
  <2>2. reciprocal(E) \subseteq nodes \X nodes
    BY <1>1 DEF reciprocal
  <2>3. QED
    BY <1>9, <1>10, <2>1, <2>2
<1>12. Both \cap Flip(Both) = {}
  <2>1. ASSUME NEW e \in nodes \X nodes, e \in Both, e \in Flip(Both) PROVE FALSE
    <3>1. PICK a \in nodes, b \in nodes : e = <<a, b>> /\ a \in Nat /\ b \in Nat
      BY <1>3
    <3>2. a < b /\ b < a
      BY <1>9, <1>10, <2>1, <3>1
    <3>3. QED
      BY <3>1, <3>2
  <2>2. QED
    BY <1>9, <2>1
<1>13. Cardinality(reciprocal(E)) = Cardinality(Both) + Cardinality(Both)
  BY <1>9, <1>10, <1>11, <1>12, DisjointUnion
<1> HIDE DEF Up, Down
<1>14. Cardinality(E) = Cardinality(Up) + Cardinality(Down)
  BY <1>4, <1>5, DisjointUnion
<1>15. Cardinality(U) = Cardinality(Up) + Cardinality(Down) - Cardinality(Both)
  <2>1. Cardinality(Up \cup Flip(Down)) = Cardinality(Up) + Cardinality(Flip(Down))
          - Cardinality(Up \cap Flip(Down))
    BY <1>4, <1>6, FS_Union
  <2>2. QED
    BY <1>6, <1>8, <2>1 DEF Both
<1>16. /\ Cardinality(Up) \in Nat /\ Cardinality(Down) \in Nat
       /\ Cardinality(Both) \in Nat /\ Cardinality(U) \in Nat
       /\ Cardinality(E) \in Nat
  BY <1>2, <1>4, <1>9, FS_CardinalityType
<1>17. Cardinality(reciprocal(E)) <= Cardinality(E)
  <2>1. reciprocal(E) \subseteq E
    BY DEF reciprocal
  <2>2. QED
    BY <1>2, <2>1, FS_Subset
<1>18. 2 * Cardinality(U) + Cardinality(reciprocal(E)) = 2 * Cardinality(E)
  <2> DEFINE p == Cardinality(Up)  d == Cardinality(Down)  o == Cardinality(Both)
             u == Cardinality(U)  r == Cardinality(reciprocal(E))  c == Cardinality(E)
  <2>1. /\ p \in Nat /\ d \in Nat /\ o \in Nat
        /\ r = o + o /\ c = p + d /\ u = p + d - o
    BY <1>13, <1>14, <1>15, <1>16
  <2> HIDE DEF p, d, o, u, r, c
  <2>2. 2 * u + r = 2 * c
    BY <2>1
  <2>3. QED
    BY <2>2 DEF u, r, c
<1>19. QED
  BY <1>13, <1>16, <1>17, <1>18 DEF U

-----------------------------------------------------------------------------
(* The sums of the rows are sums in this sense.                            *)
LEMMA OutSum ==
  ASSUME NEW E
  PROVE  Total(LAMBDA n : DegreeRow(n, E).out_degree)
           = SumOver([n \in nodes |-> DegreeRow(n, E).out_degree], nodes)
<1> DEFINE op(n) == DegreeRow(n, E).out_degree
           f == [n \in nodes |-> op(n)]
           chosen(s) == CHOOSE k \in s : TRUE
           Eq(sum) == sum = [s \in SUBSET nodes |->
                        IF s = {} THEN 0 ELSE op(chosen(s)) + sum[s \ {chosen(s)}]]
<1>1. Total(LAMBDA n : DegreeRow(n, E).out_degree)
        = (CHOOSE sum : Eq(sum))[nodes]
  BY Zenon DEF MapThenSumSet, MapThenFoldSet, Total
<1>2. \A s \in SUBSET nodes : s # {} => f[chosen(s)] = op(chosen(s))
  <2>1. \A s \in SUBSET nodes : s # {} => chosen(s) \in nodes
    OBVIOUS
  <2> HIDE DEF chosen, op
  <2>2. QED
    BY <2>1
<1> HIDE DEF op, f
<1>3. ASSUME NEW sum PROVE Eq(sum) <=> SumEquation(f, nodes, sum)
  <2> HIDE DEF chosen
  <2>1. [s \in SUBSET nodes |->
          IF s = {} THEN 0 ELSE op(chosen(s)) + sum[s \ {chosen(s)}]]
        = [s \in SUBSET nodes |->
            IF s = {} THEN 0 ELSE f[chosen(s)] + sum[s \ {chosen(s)}]]
    BY <1>2
  <2>2. QED
    BY <2>1, Zenon DEF SumEquation, chosen
<1> HIDE DEF Eq
<1>4. (CHOOSE sum : Eq(sum)) = (CHOOSE sum : SumEquation(f, nodes, sum))
  BY <1>3, Zenon
<1>5. QED
  BY <1>1, <1>4, Zenon DEF SumOver, f, op

LEMMA InSum ==
  ASSUME NEW E
  PROVE  Total(LAMBDA n : DegreeRow(n, E).in_degree)
           = SumOver([n \in nodes |-> DegreeRow(n, E).in_degree], nodes)
<1> DEFINE op(n) == DegreeRow(n, E).in_degree
           f == [n \in nodes |-> op(n)]
           chosen(s) == CHOOSE k \in s : TRUE
           Eq(sum) == sum = [s \in SUBSET nodes |->
                        IF s = {} THEN 0 ELSE op(chosen(s)) + sum[s \ {chosen(s)}]]
<1>1. Total(LAMBDA n : DegreeRow(n, E).in_degree)
        = (CHOOSE sum : Eq(sum))[nodes]
  BY Zenon DEF MapThenSumSet, MapThenFoldSet, Total
<1>2. \A s \in SUBSET nodes : s # {} => f[chosen(s)] = op(chosen(s))
  <2>1. \A s \in SUBSET nodes : s # {} => chosen(s) \in nodes
    OBVIOUS
  <2> HIDE DEF chosen, op
  <2>2. QED
    BY <2>1
<1> HIDE DEF op, f
<1>3. ASSUME NEW sum PROVE Eq(sum) <=> SumEquation(f, nodes, sum)
  <2> HIDE DEF chosen
  <2>1. [s \in SUBSET nodes |->
          IF s = {} THEN 0 ELSE op(chosen(s)) + sum[s \ {chosen(s)}]]
        = [s \in SUBSET nodes |->
            IF s = {} THEN 0 ELSE f[chosen(s)] + sum[s \ {chosen(s)}]]
    BY <1>2
  <2>2. QED
    BY <2>1, Zenon DEF SumEquation, chosen
<1> HIDE DEF Eq
<1>4. (CHOOSE sum : Eq(sum)) = (CHOOSE sum : SumEquation(f, nodes, sum))
  BY <1>3, Zenon
<1>5. QED
  BY <1>1, <1>4, Zenon DEF SumOver, f, op

LEMMA DirectedSum ==
  ASSUME NEW E
  PROVE  topology_stats(E, TRUE).avg_degree[1]
           = SumOver([n \in nodes |-> DegreeRow(n, E).total_degree], nodes)
<1> DEFINE op(n) == DegreeRow(n, E).total_degree
           f == [n \in nodes |-> op(n)]
           chosen(s) == CHOOSE k \in s : TRUE
           Eq(sum) == sum = [s \in SUBSET nodes |->
                        IF s = {} THEN 0 ELSE op(chosen(s)) + sum[s \ {chosen(s)}]]
<1>1. topology_stats(E, TRUE).avg_degree[1]
        = (CHOOSE sum : Eq(sum))[nodes]
  BY Zenon DEF MapThenSumSet, MapThenFoldSet, topology_stats
<1>2. \A s \in SUBSET nodes : s # {} => f[chosen(s)] = op(chosen(s))
  <2>1. \A s \in SUBSET nodes : s # {} => chosen(s) \in nodes
    OBVIOUS
  <2> HIDE DEF chosen, op
  <2>2. QED
    BY <2>1
<1> HIDE DEF op, f
<1>3. ASSUME NEW sum PROVE Eq(sum) <=> SumEquation(f, nodes, sum)
  <2> HIDE DEF chosen
  <2>1. [s \in SUBSET nodes |->
          IF s = {} THEN 0 ELSE op(chosen(s)) + sum[s \ {chosen(s)}]]
        = [s \in SUBSET nodes |->
            IF s = {} THEN 0 ELSE f[chosen(s)] + sum[s \ {chosen(s)}]]
    BY <1>2
  <2>2. QED
    BY <2>1, Zenon DEF SumEquation, chosen
<1> HIDE DEF Eq
<1>4. (CHOOSE sum : Eq(sum)) = (CHOOSE sum : SumEquation(f, nodes, sum))
  BY <1>3, Zenon
<1>5. QED
  BY <1>1, <1>4, Zenon DEF SumOver, f, op

LEMMA UndirectedSum ==
  ASSUME NEW E
  PROVE  topology_stats(E, FALSE).avg_degree[1]
           = SumOver([n \in nodes |-> undirected_degree(n, E)], nodes)
<1> DEFINE op(n) == undirected_degree(n, E)
           f == [n \in nodes |-> op(n)]
           chosen(s) == CHOOSE k \in s : TRUE
           Eq(sum) == sum = [s \in SUBSET nodes |->
                        IF s = {} THEN 0 ELSE op(chosen(s)) + sum[s \ {chosen(s)}]]
<1>1. topology_stats(E, FALSE).avg_degree[1]
        = (CHOOSE sum : Eq(sum))[nodes]
  BY Zenon DEF MapThenSumSet, MapThenFoldSet, topology_stats
<1>2. \A s \in SUBSET nodes : s # {} => f[chosen(s)] = op(chosen(s))
  <2>1. \A s \in SUBSET nodes : s # {} => chosen(s) \in nodes
    OBVIOUS
  <2> HIDE DEF chosen, op
  <2>2. QED
    BY <2>1
<1> HIDE DEF op, f
<1>3. ASSUME NEW sum PROVE Eq(sum) <=> SumEquation(f, nodes, sum)
  <2> HIDE DEF chosen
  <2>1. [s \in SUBSET nodes |->
          IF s = {} THEN 0 ELSE op(chosen(s)) + sum[s \ {chosen(s)}]]
        = [s \in SUBSET nodes |->
            IF s = {} THEN 0 ELSE f[chosen(s)] + sum[s \ {chosen(s)}]]
    BY <1>2
  <2>2. QED
    BY <2>1, Zenon DEF SumEquation, chosen
<1> HIDE DEF Eq
<1>4. (CHOOSE sum : Eq(sum)) = (CHOOSE sum : SumEquation(f, nodes, sum))
  BY <1>3, Zenon
<1>5. QED
  BY <1>1, <1>4, Zenon DEF SumOver, f, op

LEMMA ClusteringSum ==
  ASSUME NEW E
  PROVE  Total(LAMBDA n : clustering(n, E)[1])
           = SumOver([n \in nodes |-> clustering(n, E)[1]], nodes)
<1> DEFINE op(n) == clustering(n, E)[1]
           f == [n \in nodes |-> op(n)]
           chosen(s) == CHOOSE k \in s : TRUE
           Eq(sum) == sum = [s \in SUBSET nodes |->
                        IF s = {} THEN 0 ELSE op(chosen(s)) + sum[s \ {chosen(s)}]]
<1>1. Total(LAMBDA n : clustering(n, E)[1])
        = (CHOOSE sum : Eq(sum))[nodes]
  BY Zenon DEF MapThenSumSet, MapThenFoldSet, Total
<1>2. \A s \in SUBSET nodes : s # {} => f[chosen(s)] = op(chosen(s))
  <2>1. \A s \in SUBSET nodes : s # {} => chosen(s) \in nodes
    OBVIOUS
  <2> HIDE DEF chosen, op
  <2>2. QED
    BY <2>1
<1> HIDE DEF op, f
<1>3. ASSUME NEW sum PROVE Eq(sum) <=> SumEquation(f, nodes, sum)
  <2> HIDE DEF chosen
  <2>1. [s \in SUBSET nodes |->
          IF s = {} THEN 0 ELSE op(chosen(s)) + sum[s \ {chosen(s)}]]
        = [s \in SUBSET nodes |->
            IF s = {} THEN 0 ELSE f[chosen(s)] + sum[s \ {chosen(s)}]]
    BY <1>2
  <2>2. QED
    BY <2>1, Zenon DEF SumEquation, chosen
<1> HIDE DEF Eq
<1>4. (CHOOSE sum : Eq(sum)) = (CHOOSE sum : SumEquation(f, nodes, sum))
  BY <1>3, Zenon
<1>5. QED
  BY <1>1, <1>4, Zenon DEF SumOver, f, op

LEMMA DistributionSum ==
  ASSUME NEW D
  PROVE  MapThenSumSet(LAMBDA d : d[1] * d[2], D)
           = SumOver([d \in D |-> d[1] * d[2]], D)
<1> DEFINE op(d) == d[1] * d[2]
           f == [d \in D |-> op(d)]
           chosen(s) == CHOOSE k \in s : TRUE
           Eq(sum) == sum = [s \in SUBSET D |->
                        IF s = {} THEN 0 ELSE op(chosen(s)) + sum[s \ {chosen(s)}]]
<1>1. MapThenSumSet(LAMBDA d : d[1] * d[2], D)
        = (CHOOSE sum : Eq(sum))[D]
  BY Zenon DEF MapThenSumSet, MapThenFoldSet
<1>2. \A s \in SUBSET D : s # {} => f[chosen(s)] = op(chosen(s))
  <2>1. \A s \in SUBSET D : s # {} => chosen(s) \in D
    OBVIOUS
  <2> HIDE DEF chosen, op
  <2>2. QED
    BY <2>1
<1> HIDE DEF op, f
<1>3. ASSUME NEW sum PROVE Eq(sum) <=> SumEquation(f, D, sum)
  <2> HIDE DEF chosen
  <2>1. [s \in SUBSET D |->
          IF s = {} THEN 0 ELSE op(chosen(s)) + sum[s \ {chosen(s)}]]
        = [s \in SUBSET D |->
            IF s = {} THEN 0 ELSE f[chosen(s)] + sum[s \ {chosen(s)}]]
    BY <1>2
  <2>2. QED
    BY <2>1, Zenon DEF SumEquation, chosen
<1> HIDE DEF Eq
<1>4. (CHOOSE sum : Eq(sum)) = (CHOOSE sum : SumEquation(f, D, sum))
  BY <1>3, Zenon
<1>5. QED
  BY <1>1, <1>4, Zenon DEF SumOver, f, op

LEMMA PairSum ==
  ASSUME NEW P
  PROVE  MapThenSumSet(LAMBDA c : Cardinality(c) * (Cardinality(c) - 1), P)
           = SumOver([c \in P |-> Cardinality(c) * (Cardinality(c) - 1)], P)
<1> DEFINE op(c) == Cardinality(c) * (Cardinality(c) - 1)
           f == [c \in P |-> op(c)]
           chosen(s) == CHOOSE k \in s : TRUE
           Eq(sum) == sum = [s \in SUBSET P |->
                        IF s = {} THEN 0 ELSE op(chosen(s)) + sum[s \ {chosen(s)}]]
<1>1. MapThenSumSet(LAMBDA c : Cardinality(c) * (Cardinality(c) - 1), P)
        = (CHOOSE sum : Eq(sum))[P]
  BY Zenon DEF MapThenSumSet, MapThenFoldSet
<1>2. \A s \in SUBSET P : s # {} => f[chosen(s)] = op(chosen(s))
  <2>1. \A s \in SUBSET P : s # {} => chosen(s) \in P
    OBVIOUS
  <2> HIDE DEF chosen, op
  <2>2. QED
    BY <2>1
<1> HIDE DEF op, f
<1>3. ASSUME NEW sum PROVE Eq(sum) <=> SumEquation(f, P, sum)
  <2> HIDE DEF chosen
  <2>1. [s \in SUBSET P |->
          IF s = {} THEN 0 ELSE op(chosen(s)) + sum[s \ {chosen(s)}]]
        = [s \in SUBSET P |->
            IF s = {} THEN 0 ELSE f[chosen(s)] + sum[s \ {chosen(s)}]]
    BY <1>2
  <2>2. QED
    BY <2>1, Zenon DEF SumEquation, chosen
<1> HIDE DEF Eq
<1>4. (CHOOSE sum : Eq(sum)) = (CHOOSE sum : SumEquation(f, P, sum))
  BY <1>3, Zenon
<1>5. QED
  BY <1>1, <1>4, Zenon DEF SumOver, f, op

-----------------------------------------------------------------------------
(* Every edge has two ends.                                                *)
OutOf(n, E)  == {e \in E : e[1] = n}
InTo(n, E) == {e \in E : e[2] = n}

LEMMA HalfEdges ==
  ASSUME NEW E, SimpleGraph(E)
  PROVE  /\ SumOver([n \in nodes |-> Cardinality(OutOf(n, E))], nodes) = Cardinality(E)
         /\ SumOver([n \in nodes |-> Cardinality(InTo(n, E))], nodes) = Cardinality(E)
         /\ SumOver([n \in nodes |-> Cardinality(OutOf(n, E)) + Cardinality(InTo(n, E))],
                    nodes) = 2 * Cardinality(E)
<1>1. /\ IsFiniteSet(nodes) /\ IsFiniteSet(E)
      /\ \A e \in E : e[1] \in nodes /\ e[2] \in nodes
  BY UndirectedPairs, PairFacts DEF SimpleGraph
<1>2. ASSUME NEW i \in {1, 2}
      PROVE  SumOver([n \in nodes |-> Cardinality({e \in E : e[i] = n})], nodes)
               = Cardinality(E)
  <2> DEFINE key == [e \in E |-> e[i]]
             f == [n \in nodes |-> Cardinality({e \in E : e[i] = n})]
  <2>1. \A e \in E : key[e] \in nodes
    BY <1>1
  <2>2. \A n \in nodes : f[n] = Cardinality({e \in E : key[e] = n})
    <3>1. \A n \in nodes : {e \in E : key[e] = n} = {e \in E : e[i] = n}
      OBVIOUS
    <3> HIDE DEF key
    <3>2. QED
      BY <3>1
  <2> HIDE DEF key, f
  <2>3. SumOver(f, nodes) = Cardinality(E)
    BY <1>1, <2>1, <2>2, FibreSum
  <2>4. QED
    BY <2>3 DEF f
<1> DEFINE ends == E \X {1, 2}
           key == [x \in ends |-> x[1][x[2]]]
           f == [n \in nodes |-> Cardinality(OutOf(n, E)) + Cardinality(InTo(n, E))]
<1>3. IsFiniteSet(ends) /\ Cardinality(ends) = 2 * Cardinality(E)
  <2>1. IsFiniteSet({1, 2}) /\ Cardinality({1, 2}) = 2
    <3>1. 1 # 2
      OBVIOUS
    <3>2. QED
      BY <3>1, TwoElements, Zenon
  <2>2. IsFiniteSet(ends) /\ Cardinality(ends) = Cardinality(E) * Cardinality({1, 2})
    BY <1>1, <2>1, FS_Product
  <2>3. Cardinality(E) \in Nat
    BY <1>1, FS_CardinalityType
  <2>4. QED
    BY <2>1, <2>2, <2>3
<1>4. \A x \in ends : key[x] \in nodes
  BY <1>1
<1>5. ASSUME NEW n \in nodes
      PROVE  f[n] = Cardinality({x \in ends : key[x] = n})
  <2> DEFINE A == OutOf(n, E) \X {1}
             B == InTo(n, E) \X {2}
  <2>1. A \cup B = {x \in ends : key[x] = n} /\ A \cap B = {}
    BY DEF OutOf, InTo
  <2>2. IsFiniteSet(OutOf(n, E)) /\ IsFiniteSet(InTo(n, E))
    BY <1>1, FS_Subset DEF OutOf, InTo
  <2>3. \A k : IsFiniteSet({k}) /\ Cardinality({k}) = 1
    BY FS_Singleton
  <2>4. /\ IsFiniteSet(A) /\ Cardinality(A) = Cardinality(OutOf(n, E)) * 1
        /\ IsFiniteSet(B) /\ Cardinality(B) = Cardinality(InTo(n, E)) * 1
    <3>1. ASSUME NEW S, IsFiniteSet(S), NEW k
          PROVE  IsFiniteSet(S \X {k}) /\ Cardinality(S \X {k}) = Cardinality(S) * 1
      <4>1. IsFiniteSet({k}) /\ Cardinality({k}) = 1
        BY FS_Singleton
      <4> DEFINE K == {k}
      <4>2. IsFiniteSet(K) /\ Cardinality(K) = 1
        BY <4>1
      <4> HIDE DEF K
      <4>3. IsFiniteSet(S \X K) /\ Cardinality(S \X K) = Cardinality(S) * Cardinality(K)
        BY <3>1, <4>2, FS_Product
      <4>4. QED
        BY <4>2, <4>3 DEF K
    <3>2. QED
      BY <2>2, <3>1
  <2>5. Cardinality(OutOf(n, E)) \in Nat /\ Cardinality(InTo(n, E)) \in Nat
    BY <2>2, FS_CardinalityType
  <2>6. f[n] = Cardinality(A) + Cardinality(B)
    BY <2>4, <2>5
  <2> HIDE DEF A, B, f, key, ends
  <2>7. QED
    BY <2>1, <2>4, <2>6, DisjointUnion
<1>6. SumOver(f, nodes) = 2 * Cardinality(E)
  <2> HIDE DEF f, key, ends
  <2>1. QED
    BY <1>1, <1>3, <1>4, <1>5, FibreSum
<1>7. QED
  BY <1>2, <1>6 DEF OutOf, InTo

(* The degrees of both programs.                                           *)
LEMMA DegreesAddUp ==
  ASSUME NEW E, SimpleGraph(E)
  PROVE  /\ Total(LAMBDA n : DegreeRow(n, E).out_degree) = Cardinality(E)
         /\ Total(LAMBDA n : DegreeRow(n, E).in_degree) = Cardinality(E)
         /\ topology_stats(E, TRUE).avg_degree[1] = 2 * Cardinality(E)
         /\ topology_stats(E, FALSE).avg_degree[1] = 2 * Cardinality(E)
<1>1. \A n : /\ DegreeRow(n, E).out_degree = Cardinality(OutOf(n, E))
             /\ DegreeRow(n, E).in_degree = Cardinality(InTo(n, E))
             /\ DegreeRow(n, E).total_degree =
                  Cardinality(OutOf(n, E)) + Cardinality(InTo(n, E))
             /\ undirected_degree(n, E) =
                  Cardinality(OutOf(n, E)) + Cardinality(InTo(n, E))
  BY DEF DegreeRow, out_degree, undirected_degree, OutOf, InTo
<1>2. /\ [n \in nodes |-> DegreeRow(n, E).out_degree]
           = [n \in nodes |-> Cardinality(OutOf(n, E))]
      /\ [n \in nodes |-> DegreeRow(n, E).in_degree]
           = [n \in nodes |-> Cardinality(InTo(n, E))]
      /\ [n \in nodes |-> DegreeRow(n, E).total_degree]
           = [n \in nodes |-> Cardinality(OutOf(n, E)) + Cardinality(InTo(n, E))]
      /\ [n \in nodes |-> undirected_degree(n, E)]
           = [n \in nodes |-> Cardinality(OutOf(n, E)) + Cardinality(InTo(n, E))]
  BY <1>1
<1>3. Total(LAMBDA n : DegreeRow(n, E).out_degree) = Cardinality(E)
  BY <1>2, OutSum, HalfEdges, Zenon
<1>4. Total(LAMBDA n : DegreeRow(n, E).in_degree) = Cardinality(E)
  BY <1>2, InSum, HalfEdges, Zenon
<1>5. topology_stats(E, TRUE).avg_degree[1] = 2 * Cardinality(E)
  BY <1>2, DirectedSum, HalfEdges, Zenon
<1>6. topology_stats(E, FALSE).avg_degree[1] = 2 * Cardinality(E)
  BY <1>2, UndirectedSum, HalfEdges, Zenon
<1>7. QED
  BY <1>3, <1>4, <1>5, <1>6

LEMMA UndirectedIsSimple ==
  ASSUME NEW E, SimpleGraph(E) PROVE SimpleGraph(directed_to_undirected(E))
<1> DEFINE U == directed_to_undirected(E)
<1>1. U \subseteq nodes \X nodes /\ \A e \in U : e[1] < e[2]
  BY UndirectedPairs
<1>2. nodes \subseteq Nat /\ IsFiniteSet(nodes)
  BY DEF SimpleGraph
<1> HIDE DEF U
<1>3. ASSUME NEW e \in U PROVE e[1] # e[2]
  <2>1. e \in nodes \X nodes
    BY <1>1
  <2>2. e[1] \in Nat /\ e[2] \in Nat
    BY <1>2, <2>1, PairFacts
  <2>3. QED
    BY <1>1, <2>2
<1>4. SimpleGraph(U)
  BY <1>1, <1>2, <1>3 DEF SimpleGraph
<1>5. QED
  BY <1>4 DEF U

(* The undirected degree is the number of peers on either side.            *)
LEMMA DegreeIsPeers ==
  ASSUME NEW E, SimpleGraph(E), NEW n \in nodes
  PROVE  undirected_degree(n, directed_to_undirected(E)) =
           Cardinality({m \in nodes : <<n, m>> \in E \/ <<m, n>> \in E})
<1> DEFINE U == directed_to_undirected(E)
           M == {m \in nodes : <<n, m>> \in E \/ <<m, n>> \in E}
           Above == {m \in M : n < m}
           Below == {m \in M : m < n}
<1>1. /\ IsFiniteSet(U) /\ U \subseteq nodes \X nodes
      /\ \A a, b \in nodes : <<a, b>> \in U <=>
           a < b /\ (<<a, b>> \in E \/ <<b, a>> \in E)
  BY UndirectedPairs
<1>2. /\ nodes \subseteq Nat /\ IsFiniteSet(nodes) /\ \A e \in E : e[1] # e[2]
  BY DEF SimpleGraph
<1> HIDE DEF U
<1>3. Above \cup Below = M /\ Above \cap Below = {}
  <2>1. ASSUME NEW m \in M PROVE m # n /\ m \in Nat /\ n \in Nat
    <3>1. (<<n, m>>)[1] = n /\ (<<n, m>>)[2] = m /\ (<<m, n>>)[1] = m /\ (<<m, n>>)[2] = n
      OBVIOUS
    <3>2. QED
      BY <1>2, <2>1, <3>1
  <2>2. QED
    BY <2>1
<1>4. IsFiniteSet(Above) /\ IsFiniteSet(Below)
  BY <1>2, FS_Subset
<1>5. Cardinality(OutOf(n, U)) = Cardinality(Above)
  <2> DEFINE f == [m \in Above |-> <<n, m>>]
  <2>1. \A m \in Above : f[m] \in OutOf(n, U)
    BY <1>1 DEF OutOf
  <2>2. ASSUME NEW e \in OutOf(n, U) PROVE \E m \in Above : f[m] = e
    <3>1. e \in nodes \X nodes /\ e[1] = n /\ e \in U
      BY <1>1 DEF OutOf
    <3>2. e = <<n, e[2]>> /\ e[2] \in nodes
      BY <3>1, PairFacts
    <3>3. e[2] \in Above
      BY <1>1, <3>1, <3>2
    <3>4. QED
      BY <3>2, <3>3
  <2>3. \A x, y \in Above : f[x] = f[y] => x = y
    OBVIOUS
  <2> HIDE DEF f, Above
  <2>4. QED
    BY <1>4, <2>1, <2>2, <2>3, SameSize
<1>6. Cardinality(InTo(n, U)) = Cardinality(Below)
  <2> DEFINE f == [m \in Below |-> <<m, n>>]
  <2>1. \A m \in Below : f[m] \in InTo(n, U)
    BY <1>1 DEF InTo
  <2>2. ASSUME NEW e \in InTo(n, U) PROVE \E m \in Below : f[m] = e
    <3>1. e \in nodes \X nodes /\ e[2] = n /\ e \in U
      BY <1>1 DEF InTo
    <3>2. e = <<e[1], n>> /\ e[1] \in nodes
      BY <3>1, PairFacts
    <3>3. e[1] \in Below
      BY <1>1, <3>1, <3>2
    <3>4. QED
      BY <3>2, <3>3
  <2>3. \A x, y \in Below : f[x] = f[y] => x = y
    OBVIOUS
  <2> HIDE DEF f, Below
  <2>4. QED
    BY <1>4, <2>1, <2>2, <2>3, SameSize
<1>7. undirected_degree(n, U) = Cardinality(OutOf(n, U)) + Cardinality(InTo(n, U))
  BY DEF undirected_degree, OutOf, InTo
<1> HIDE DEF Above, Below, M
<1>8. Cardinality(M) = Cardinality(Above) + Cardinality(Below)
  BY <1>3, <1>4, DisjointUnion
<1>9. QED
  BY <1>5, <1>6, <1>7, <1>8 DEF U, M

-----------------------------------------------------------------------------
(* The degree distribution.                                                *)
LEMMA OutDegrees ==
  ASSUME NEW E, SimpleGraph(E)
  PROVE  \A n : /\ out_degree(n, E) = Cardinality(OutOf(n, E))
                /\ IsFiniteSet(OutOf(n, E))
                /\ out_degree(n, E) \in 0 .. Cardinality(E)
                /\ Cardinality(E) \in Nat
<1>1. IsFiniteSet(E) /\ Cardinality(E) \in Nat
  BY UndirectedPairs, FS_CardinalityType
<1> TAKE n
<1>2. out_degree(n, E) = Cardinality(OutOf(n, E))
  BY DEF out_degree, OutOf
<1>3. OutOf(n, E) \subseteq E
  BY DEF OutOf
<1> DEFINE O == OutOf(n, E)
<1> HIDE DEF O
<1>4. IsFiniteSet(O) /\ Cardinality(O) <= Cardinality(E) /\ Cardinality(O) \in Nat
  <2>1. O \subseteq E
    BY <1>3 DEF O
  <2>2. QED
    BY <1>1, <2>1, FS_Subset, FS_CardinalityType
<1>5. QED
  BY <1>1, <1>2, <1>4 DEF O

LEMMA DistributionAddsUp ==
  ASSUME NEW E, SimpleGraph(E)
  PROVE  MapThenSumSet(LAMBDA d : d[1] * d[2], degree_distribution(E)) = Cardinality(E)
<1> DEFINE deg(n) == out_degree(n, E)
           With(d) == {n \in nodes : deg(n) = d}
           row(d) == <<d, Cardinality(With(d))>>
           D == degree_distribution(E)
           key == [e \in E |-> row(deg(e[1]))]
           f == [x \in D |-> x[1] * x[2]]
<1>1. /\ IsFiniteSet(nodes) /\ IsFiniteSet(E)
      /\ \A e \in E : e[1] \in nodes
  BY UndirectedPairs, PairFacts DEF SimpleGraph
<1>2. D = {row(d) : d \in {deg(n) : n \in nodes}}
  BY DEF degree_distribution
<1>3. \A n : deg(n) = Cardinality(OutOf(n, E)) /\ deg(n) \in Nat
  BY OutDegrees
<1> HIDE DEF deg
<1>4. D = {row(deg(n)) : n \in nodes}
  BY <1>2
<1>5. IsFiniteSet(D)
  <2> DEFINE g == [n \in nodes |-> row(deg(n))]
  <2>1. g \in Surjection(nodes, D)
    <3>1. g \in [nodes -> D] /\ \A n \in nodes : g[n] = row(deg(n))
      BY <1>4
    <3> HIDE DEF g, D, row
    <3>2. \A x \in D : \E n \in nodes : g[n] = x
      BY <1>4, <3>1
    <3>3. QED
      BY <3>1, <3>2 DEF Surjection
  <2> HIDE DEF g, D
  <2>2. QED
    BY <1>1, <2>1, FS_Surjection
<1>6. ASSUME NEW x \in D
      PROVE  f[x] = Cardinality({e \in E : key[e] = x})
  <2>1. PICK d \in Nat : x = row(d)
    BY <1>3, <1>4
  <2> DEFINE F == {e \in E : deg(e[1]) = d}
             start == [e \in F |-> e[1]]
  <2>2. {e \in E : key[e] = x} = F
    <3>1. \A e \in E : key[e] = x <=> deg(e[1]) = d
      <4>1. \A c : row(c) = row(d) <=> c = d
        OBVIOUS
      <4>2. \A e \in E : key[e] = row(deg(e[1]))
        OBVIOUS
      <4> HIDE DEF key, row
      <4>3. QED
        BY <2>1, <4>1, <4>2
    <3> HIDE DEF key
    <3>2. QED
      BY <3>1
  <2>3. ASSUME NEW n \in With(d) PROVE Cardinality({e \in F : start[e] = n}) = d
    <3>1. deg(n) = d
      OBVIOUS
    <3>2. {e \in F : start[e] = n} = {e \in E : e[1] = n}
      BY <3>1
    <3> HIDE DEF F, start
    <3>3. QED
      BY <1>3, <3>1, <3>2 DEF OutOf
  <2>4. \A e \in F : start[e] \in With(d)
    BY <1>1
  <2>5. IsFiniteSet(F) /\ IsFiniteSet(With(d))
    BY <1>1, FS_Subset
  <2>6. x[1] = d /\ x[2] = Cardinality(With(d)) /\ f[x] = x[1] * x[2]
    BY <2>1
  <2> HIDE DEF F, start, With, f, key, row, D
  <2>7. Cardinality(F) = d * Cardinality(With(d))
    BY <2>3, <2>4, <2>5, EqualFibres
  <2>8. QED
    BY <2>2, <2>6, <2>7
<1>7. \A e \in E : key[e] \in D
  <2>1. \A e \in E : key[e] = row(deg(e[1]))
    OBVIOUS
  <2> HIDE DEF key, row, D
  <2>2. QED
    BY <1>1, <1>4, <2>1
<1> HIDE DEF D, f, key, row
<1>8. SumOver(f, D) = Cardinality(E)
  BY <1>1, <1>5, <1>6, <1>7, FibreSum
<1>9. MapThenSumSet(LAMBDA d : d[1] * d[2], D) = SumOver([d \in D |-> d[1] * d[2]], D)
  BY DistributionSum
<1>10. QED
  BY <1>8, <1>9, Zenon DEF D, f

-----------------------------------------------------------------------------
(* Every triangle is counted from each of its corners.                     *)
Triangle(U, a, b, c) == <<a, b>> \in U /\ <<b, c>> \in U /\ <<a, c>> \in U

LEMMA ClusteringLinks ==
  ASSUME NEW U, SimpleGraph(U), NEW n \in nodes
  PROVE  clustering(n, U)[1] =
           Cardinality({e \in U : Adjacent(n, e[1], U) /\ Adjacent(n, e[2], U)})
<1> DEFINE neighbors == {m \in nodes : Adjacent(n, m, U)}
           links == {e \in U : {e[1], e[2]} \subseteq neighbors}
<1>1. clustering(n, U)[1] = IF Cardinality(neighbors) < 2 THEN 0 ELSE Cardinality(links)
  BY DEF clustering
<1>2. \A e \in U : e[1] \in nodes /\ e[2] \in nodes /\ e[1] # e[2]
  BY PairFacts DEF SimpleGraph
<1>3. links = {e \in U : Adjacent(n, e[1], U) /\ Adjacent(n, e[2], U)}
  BY <1>2
<1>4. ASSUME Cardinality(neighbors) < 2 PROVE links = {}
  <2>1. SUFFICES ASSUME NEW e \in links PROVE FALSE
    OBVIOUS
  <2>2. e[1] # e[2] /\ {e[1], e[2]} \subseteq neighbors
    BY <1>2
  <2>3. IsFiniteSet(neighbors) /\ Cardinality(neighbors) \in Nat
    BY FS_Subset, FS_CardinalityType DEF SimpleGraph
  <2>4. IsFiniteSet({e[1], e[2]}) /\ Cardinality({e[1], e[2]}) = 2
    BY <2>2, TwoElements
  <2> HIDE DEF neighbors
  <2>6. Cardinality({e[1], e[2]}) <= Cardinality(neighbors)
    BY <2>2, <2>3, FS_Subset
  <2>7. QED
    BY <1>4, <2>3, <2>4, <2>6
<1> HIDE DEF neighbors, links
<1>5. Cardinality(neighbors) < 2 => Cardinality(links) = 0
  BY <1>4, FS_EmptySet
<1>6. QED
  BY <1>1, <1>3, <1>5

ClusteringTotal(U) == Total(LAMBDA n : clustering(n, U)[1])

LEMMA TrianglesByThree ==
  ASSUME NEW U, SimpleGraph(U), \A e \in U : e[1] < e[2]
  PROVE  ClusteringTotal(U) % 3 = 0
<1> DEFINE Linked(n) == {e \in U : Adjacent(n, e[1], U) /\ Adjacent(n, e[2], U)}
           W == {x \in nodes \X U : x[2] \in Linked(x[1])}
           Low  == {x \in W : x[1] < x[2][1]}
           Mid  == {x \in W : x[2][1] < x[1] /\ x[1] < x[2][2]}
           High == {x \in W : x[2][2] < x[1]}
<1>1. /\ nodes \subseteq Nat /\ IsFiniteSet(nodes) /\ IsFiniteSet(U)
      /\ U \subseteq nodes \X nodes
  BY FS_Product, FS_Subset DEF SimpleGraph
<1>0. ASSUME NEW x \in W
      PROVE  /\ x = <<x[1], <<x[2][1], x[2][2]>>>>
             /\ x[1] \in nodes /\ x[2][1] \in nodes /\ x[2][2] \in nodes
  <2>1. x \in nodes \X U
    OBVIOUS
  <2>2. x = <<x[1], x[2]>> /\ x[1] \in nodes /\ x[2] \in U
    BY <2>1
  <2>3. x[2] = <<x[2][1], x[2][2]>> /\ x[2][1] \in nodes /\ x[2][2] \in nodes
    BY <1>1, <2>2, PairFacts
  <2> HIDE DEF W
  <2>4. QED
    BY <2>2, <2>3
<1>3. ASSUME NEW x \in W
      PROVE  \E n, a, b \in nodes :
               /\ x = <<n, <<a, b>>>> /\ <<a, b>> \in U /\ a < b
               /\ n \in Nat /\ a \in Nat /\ b \in Nat
               /\ Adjacent(n, a, U) /\ Adjacent(n, b, U)
  <2>1. x \in nodes \X U /\ x[2] \in Linked(x[1])
    OBVIOUS
  <2>2. x = <<x[1], x[2]>> /\ x[1] \in nodes /\ x[2] \in U
    BY <2>1
  <2>3. /\ x[2] = <<x[2][1], x[2][2]>> /\ x[2][1] \in nodes /\ x[2][2] \in nodes
    BY <1>1, <2>2, PairFacts
  <2>4. Adjacent(x[1], x[2][1], U) /\ Adjacent(x[1], x[2][2], U)
    BY <2>1
  <2>5. x[2][1] < x[2][2]
    BY <1>1, <2>2
  <2>6. x = <<x[1], <<x[2][1], x[2][2]>>>> /\ <<x[2][1], x[2][2]>> \in U
    BY <2>2, <2>3
  <2> HIDE DEF W, Linked
  <2>7. QED
    BY <1>1, <2>2, <2>3, <2>4, <2>5, <2>6
<1>4. ASSUME NEW n \in nodes, NEW a \in nodes, NEW b \in nodes
      PROVE  <<n, <<a, b>>>> \in W <=>
               <<a, b>> \in U /\ Adjacent(n, a, U) /\ Adjacent(n, b, U)
  OBVIOUS
<1>5. ASSUME NEW a \in nodes, NEW b \in nodes
      PROVE  Adjacent(a, b, U) <=> IF a < b THEN <<a, b>> \in U ELSE <<b, a>> \in U
  <2>1. a \in Nat /\ b \in Nat
    BY <1>1
  <2>2. <<a, b>> \in U => a < b
    <3>1. (<<a, b>>)[1] = a /\ (<<a, b>>)[2] = b
      OBVIOUS
    <3>2. QED
      BY <1>1, <3>1
  <2>3. <<b, a>> \in U => b < a
    <3>1. (<<b, a>>)[1] = b /\ (<<b, a>>)[2] = a
      OBVIOUS
    <3>2. QED
      BY <1>1, <3>1
  <2>4. QED
    BY <2>1, <2>2, <2>3 DEF Adjacent
<1>6. ASSUME NEW n \in nodes, NEW a \in nodes, NEW b \in nodes
      PROVE  /\ <<n, <<a, b>>>> \in Low <=> Triangle(U, n, a, b)
             /\ <<n, <<a, b>>>> \in Mid <=> Triangle(U, a, n, b)
             /\ <<n, <<a, b>>>> \in High <=> Triangle(U, a, b, n)
  <2> DEFINE x == <<n, <<a, b>>>>
  <2>1. x[1] = n /\ x[2][1] = a /\ x[2][2] = b
    OBVIOUS
  <2>2. n \in Nat /\ a \in Nat /\ b \in Nat
    BY <1>1
  <2>3. ASSUME NEW p \in {n, a, b}, NEW q \in {n, a, b}, <<p, q>> \in U PROVE p < q
    <3>1. (<<p, q>>)[1] = p /\ (<<p, q>>)[2] = q
      OBVIOUS
    <3>2. QED
      BY <1>1, <2>3, <3>1
  <2>4. /\ x \in Low <=> x \in W /\ n < a
        /\ x \in Mid <=> x \in W /\ a < n /\ n < b
        /\ x \in High <=> x \in W /\ b < n
    BY <2>1
  <2>5. x \in W <=> <<a, b>> \in U /\ Adjacent(n, a, U) /\ Adjacent(n, b, U)
    BY <1>4
  <2>6. /\ Adjacent(n, a, U) <=> IF n < a THEN <<n, a>> \in U ELSE <<a, n>> \in U
        /\ Adjacent(n, b, U) <=> IF n < b THEN <<n, b>> \in U ELSE <<b, n>> \in U
    BY <1>5
  <2>7. /\ <<n, a>> \in U => n < a
        /\ <<a, n>> \in U => a < n
        /\ <<n, b>> \in U => n < b
        /\ <<b, n>> \in U => b < n
        /\ <<a, b>> \in U => a < b
    BY <2>3
  <2> HIDE DEF x, Low, Mid, High, W
  <2>8. QED
    BY <2>2, <2>4, <2>5, <2>6, <2>7 DEF Triangle, x
<1>7. IsFiniteSet(W)
  <2>1. IsFiniteSet(nodes \X U)
    BY <1>1, FS_Product
  <2>2. W \subseteq nodes \X U
    OBVIOUS
  <2>3. QED
    BY <2>1, <2>2, FS_Subset
<1>8. Low \subseteq W /\ Mid \subseteq W /\ High \subseteq W
  OBVIOUS
<1>9. /\ W = Low \cup (Mid \cup High)
      /\ Low \cap (Mid \cup High) = {} /\ Mid \cap High = {}
  <2>1. ASSUME NEW x \in W
        PROVE  /\ x \in Low \cup (Mid \cup High)
               /\ ~ (x \in Low /\ x \in Mid) /\ ~ (x \in Low /\ x \in High)
               /\ ~ (x \in Mid /\ x \in High)
    <3>1. PICK n, a, b \in nodes :
            /\ x = <<n, <<a, b>>>> /\ <<a, b>> \in U /\ a < b
            /\ n \in Nat /\ a \in Nat /\ b \in Nat
            /\ Adjacent(n, a, U) /\ Adjacent(n, b, U)
      BY <1>3
    <3>2. x[1] = n /\ x[2][1] = a /\ x[2][2] = b
      BY <3>1
    <3>3. /\ x \in Low <=> n < a
          /\ x \in Mid <=> a < n /\ n < b
          /\ x \in High <=> b < n
      BY <3>2
    <3>4. n # a /\ n # b
      <4>1. ~ Adjacent(n, n, U)
        <5>1. ~ (<<n, n>> \in U)
          <6>1. (<<n, n>>)[1] = n /\ (<<n, n>>)[2] = n
            OBVIOUS
          <6>2. QED
            BY <1>1, <3>1, <6>1
        <5>2. QED
          BY <5>1 DEF Adjacent
      <4>2. QED
        BY <3>1, <4>1
    <3> HIDE DEF Low, Mid, High
    <3>5. QED
      BY <3>1, <3>3, <3>4
  <2> HIDE DEF W, Low, Mid, High
  <2>2. QED
    BY <1>8, <2>1
<1> HIDE DEF W, Low, Mid, High
<1>10. IsFiniteSet(Low) /\ IsFiniteSet(Mid) /\ IsFiniteSet(High)
  BY <1>7, <1>8, FS_Subset
<1>11. Cardinality(Mid) = Cardinality(Low)
  <2> DEFINE f == [x \in Low |-> <<x[2][1], <<x[1], x[2][2]>>>>]
  <2>1. \A x \in Low : f[x] = <<x[2][1], <<x[1], x[2][2]>>>>
    OBVIOUS
  <2> HIDE DEF f
  <2>2. ASSUME NEW x \in Low PROVE f[x] \in Mid
    <3>1. /\ x = <<x[1], <<x[2][1], x[2][2]>>>>
          /\ x[1] \in nodes /\ x[2][1] \in nodes /\ x[2][2] \in nodes
      BY <1>8, <1>0
    <3>2. Triangle(U, x[1], x[2][1], x[2][2])
      BY <1>6, <3>1
    <3>3. <<x[2][1], <<x[1], x[2][2]>>>> \in Mid
      BY <1>6, <3>1, <3>2
    <3>4. QED
      BY <2>1, <3>3
  <2>3. ASSUME NEW y \in Mid PROVE \E x \in Low : f[x] = y
    <3> DEFINE x == <<y[2][1], <<y[1], y[2][2]>>>>
    <3>1. /\ y = <<y[1], <<y[2][1], y[2][2]>>>>
          /\ y[1] \in nodes /\ y[2][1] \in nodes /\ y[2][2] \in nodes
      BY <1>8, <1>0
    <3>2. Triangle(U, y[2][1], y[1], y[2][2])
      BY <1>6, <3>1
    <3>3. x \in Low
      BY <1>6, <3>1, <3>2
    <3>4. <<x[2][1], <<x[1], x[2][2]>>>> = y
      BY <3>1
    <3> HIDE DEF x
    <3>5. QED
      BY <2>1, <3>3, <3>4
  <2>4. ASSUME NEW x \in Low, NEW y \in Low, f[x] = f[y] PROVE x = y
    <3>1. /\ x = <<x[1], <<x[2][1], x[2][2]>>>>
          /\ y = <<y[1], <<y[2][1], y[2][2]>>>>
      BY <1>8, <1>0
    <3>2. <<x[2][1], <<x[1], x[2][2]>>>> = <<y[2][1], <<y[1], y[2][2]>>>>
      BY <2>1, <2>4
    <3>3. x[1] = y[1] /\ x[2][1] = y[2][1] /\ x[2][2] = y[2][2]
      BY <3>2
    <3>4. QED
      BY <3>1, <3>3
  <2>5. QED
    BY <1>10, <2>2, <2>3, <2>4, SameSize
<1>12. Cardinality(High) = Cardinality(Low)
  <2> DEFINE f == [x \in Low |-> <<x[2][2], <<x[1], x[2][1]>>>>]
  <2>1. \A x \in Low : f[x] = <<x[2][2], <<x[1], x[2][1]>>>>
    OBVIOUS
  <2> HIDE DEF f
  <2>2. ASSUME NEW x \in Low PROVE f[x] \in High
    <3>1. /\ x = <<x[1], <<x[2][1], x[2][2]>>>>
          /\ x[1] \in nodes /\ x[2][1] \in nodes /\ x[2][2] \in nodes
      BY <1>8, <1>0
    <3>2. Triangle(U, x[1], x[2][1], x[2][2])
      BY <1>6, <3>1
    <3>3. <<x[2][2], <<x[1], x[2][1]>>>> \in High
      BY <1>6, <3>1, <3>2
    <3>4. QED
      BY <2>1, <3>3
  <2>3. ASSUME NEW y \in High PROVE \E x \in Low : f[x] = y
    <3> DEFINE x == <<y[2][1], <<y[2][2], y[1]>>>>
    <3>1. /\ y = <<y[1], <<y[2][1], y[2][2]>>>>
          /\ y[1] \in nodes /\ y[2][1] \in nodes /\ y[2][2] \in nodes
      BY <1>8, <1>0
    <3>2. Triangle(U, y[2][1], y[2][2], y[1])
      BY <1>6, <3>1
    <3>3. x \in Low
      BY <1>6, <3>1, <3>2
    <3>4. <<x[2][2], <<x[1], x[2][1]>>>> = y
      BY <3>1
    <3> HIDE DEF x
    <3>5. QED
      BY <2>1, <3>3, <3>4
  <2>4. ASSUME NEW x \in Low, NEW y \in Low, f[x] = f[y] PROVE x = y
    <3>1. /\ x = <<x[1], <<x[2][1], x[2][2]>>>>
          /\ y = <<y[1], <<y[2][1], y[2][2]>>>>
      BY <1>8, <1>0
    <3>2. <<x[2][2], <<x[1], x[2][1]>>>> = <<y[2][2], <<y[1], y[2][1]>>>>
      BY <2>1, <2>4
    <3>3. x[1] = y[1] /\ x[2][1] = y[2][1] /\ x[2][2] = y[2][2]
      BY <3>2
    <3>4. QED
      BY <3>1, <3>3
  <2>5. QED
    BY <1>10, <2>2, <2>3, <2>4, SameSize
<1>13. Cardinality(W) = 3 * Cardinality(Low) /\ Cardinality(Low) \in Nat
  <2>1. /\ IsFiniteSet(Mid \cup High)
        /\ Cardinality(Mid \cup High) = Cardinality(Mid) + Cardinality(High)
    BY <1>9, <1>10, DisjointUnion
  <2>2. Cardinality(W) = Cardinality(Low) + Cardinality(Mid \cup High)
        /\ Cardinality(Low) \in Nat
    BY <1>9, <1>10, <2>1, DisjointUnion
  <2>3. QED
    BY <1>11, <1>12, <2>1, <2>2
<1>14. Total(LAMBDA n : clustering(n, U)[1]) = Cardinality(W)
  <2> DEFINE f == [n \in nodes |-> clustering(n, U)[1]]
             key == [x \in W |-> x[1]]
  <2>1. \A x \in W : key[x] \in nodes
    <3>1. W \subseteq nodes \X U
      BY DEF W
    <3>2. QED
      BY <3>1
  <2>2. ASSUME NEW n \in nodes
        PROVE  f[n] = Cardinality({x \in W : key[x] = n})
    <3> DEFINE g == [e \in Linked(n) |-> <<n, e>>]
               Fibre == {x \in W : x[1] = n}
    <3>1. Fibre = {x \in W : key[x] = n}
      OBVIOUS
    <3>2. \A e \in Linked(n) : g[e] \in Fibre
      BY DEF W
    <3>3. ASSUME NEW x \in Fibre PROVE \E e \in Linked(n) : g[e] = x
      <4>1. x \in nodes \X U /\ x[2] \in Linked(x[1]) /\ x[1] = n
        BY DEF W
      <4>2. x = <<x[1], x[2]>>
        BY <4>1
      <4> HIDE DEF Linked
      <4>3. QED
        BY <4>1, <4>2
    <3>4. \A e, d \in Linked(n) : g[e] = g[d] => e = d
      OBVIOUS
    <3>5. IsFiniteSet(Linked(n))
      BY <1>1, FS_Subset
    <3>6. f[n] = Cardinality(Linked(n))
      BY ClusteringLinks
    <3> HIDE DEF g, Fibre, Linked, f, key
    <3> DEFINE L == Linked(n)
    <3>9. /\ IsFiniteSet(L) /\ \A e \in L : g[e] \in Fibre
          /\ \A x \in Fibre : \E e \in L : g[e] = x
          /\ \A e, d \in L : g[e] = g[d] => e = d
      BY <3>2, <3>3, <3>4, <3>5
    <3> HIDE DEF L
    <3>10. Cardinality(Fibre) = Cardinality(L)
      BY <3>9, SameSize
    <3>7. Cardinality(Fibre) = Cardinality(Linked(n))
      BY <3>10 DEF L
    <3>8. QED
      BY <3>1, <3>6, <3>7
  <2> HIDE DEF f, key
  <2>3. SumOver(f, nodes) = Cardinality(W)
    BY <1>1, <1>7, <2>1, <2>2, FibreSum
  <2>4. Total(LAMBDA n : clustering(n, U)[1])
          = SumOver([n \in nodes |-> clustering(n, U)[1]], nodes)
    BY ClusteringSum
  <2>5. QED
    BY <2>3, <2>4, Zenon DEF f
<1>15. Cardinality(W) % 3 = 0
  BY <1>13
<1>16. QED
  BY <1>14, <1>15, Zenon DEF ClusteringTotal

-----------------------------------------------------------------------------
(* Percentiles.                                                            *)
Ordered(n, range, s, m) ==
  /\ n \in Nat /\ n >= 1
  /\ \A i \in 1 .. n : s[i] \in range
  /\ \A i, j \in 1 .. n : i <= j => s[i] <= s[j]
  /\ range # {} /\ range \subseteq 0 .. m
  /\ Min(range) \in range /\ Max(range) \in range
  /\ \A y \in range : Min(range) <= y /\ y <= Max(range)

LEMMA SortedList ==
  ASSUME NEW D, IsFiniteSet(D), D # {}, NEW values, DOMAIN values = D,
         NEW m \in Nat, \A j \in D : values[j] \in 0 .. m
  PROVE  Ordered(Cardinality(D), {values[j] : j \in D}, sorted(values), m)
<1> DEFINE n == Cardinality(D)
           range == {values[j] : j \in D}
           s == sorted(values)
           atMost(v) == Cardinality({j \in D : values[j] <= v})
           ranked(i) == {v \in range : atMost(v) >= i}
<1>1. n \in Nat /\ n >= 1
  <2>1. n \in Nat /\ n # 0
    BY FS_CardinalityType, FS_EmptySet
  <2>2. QED
    BY <2>1
<1>2. s = [i \in 1 .. n |-> Min(ranked(i))]
  BY Zenon DEF sorted
<1>3. range # {} /\ range \subseteq 0 .. m /\ range \subseteq Nat
      /\ \A j \in D : values[j] \in range
  OBVIOUS
<1>4. Min(range) \in range /\ \A y \in range : Min(range) <= y
  <2> HIDE DEF range
  <2>1. QED
    BY <1>3, LeastElement
<1>5. Max(range) \in range /\ \A y \in range : y <= Max(range)
  <2> HIDE DEF range
  <2>1. QED
    BY <1>3, MaxOfBounded
<1>6. \A v : atMost(v) \in Nat
  BY FS_Subset, FS_CardinalityType
<1>7. atMost(Max(range)) = n
  <2> HIDE DEF range
  <2>1. {j \in D : values[j] <= Max(range)} = D
    BY <1>3, <1>5
  <2>2. QED
    BY <2>1
<1> HIDE DEF s, range, n, atMost
<1>8. ASSUME NEW i \in 1 .. n
      PROVE  Min(ranked(i)) \in ranked(i) /\ \A y \in ranked(i) : Min(ranked(i)) <= y
  <2>1. Max(range) \in ranked(i)
    BY <1>1, <1>5, <1>7
  <2>2. ranked(i) \subseteq Nat /\ ranked(i) # {}
    BY <1>3, <2>1
  <2> HIDE DEF ranked
  <2>3. QED
    BY <2>2, LeastElement
<1>9. ASSUME NEW i \in 1 .. n, NEW j \in 1 .. n, i <= j
      PROVE  Min(ranked(i)) <= Min(ranked(j))
  <2>1. ranked(j) \subseteq ranked(i)
    BY <1>1, <1>6, <1>9
  <2> HIDE DEF ranked
  <2>2. QED
    BY <1>8, <2>1
<1>10. ASSUME NEW i \in 1 .. n PROVE s[i] = Min(ranked(i)) /\ Min(ranked(i)) \in range
  <2>1. s[i] = Min(ranked(i))
    BY <1>2
  <2>2. ranked(i) \subseteq range
    OBVIOUS
  <2> HIDE DEF ranked
  <2>3. QED
    BY <1>8, <2>1, <2>2
<1> HIDE DEF ranked
<1>11. /\ \A i \in 1 .. n : s[i] \in range
       /\ \A i, j \in 1 .. n : i <= j => s[i] <= s[j]
  BY <1>9, <1>10
<1>12. Ordered(n, range, s, m)
  BY <1>1, <1>3, <1>4, <1>5, <1>11 DEF Ordered
<1>13. QED
  BY <1>12 DEF s, range, n

(* Linear between two neighbours in a sorted list.                         *)
Interpolated(s, p) ==
  IF p % 100 = 0 THEN 100 * s[(p \div 100) + 1]
  ELSE s[(p \div 100) + 1] * (100 * ((p \div 100) + 1) - p)
         + s[(p \div 100) + 2] * (p - 100 * (p \div 100))

LEMMA InterpolatedBetween ==
  ASSUME NEW n \in Nat, n >= 1, NEW s,
         \A i \in 1 .. n : s[i] \in Nat,
         \A i, j \in 1 .. n : i <= j => s[i] <= s[j],
         NEW p \in 0 .. 100 * (n - 1)
  PROVE  LET lo == p \div 100
             hi == IF p % 100 = 0 THEN lo + 1 ELSE lo + 2
         IN  /\ lo \in Nat /\ lo + 1 \in 1 .. n /\ hi \in 1 .. n
             /\ p - 100 * lo \in 0 .. 99
             /\ (p % 100 = 0 <=> p - 100 * lo = 0)
             /\ Interpolated(s, p) \in Nat
             /\ 100 * s[lo + 1] <= Interpolated(s, p)
             /\ Interpolated(s, p) <= 100 * s[hi]
<1> DEFINE lo == p \div 100
           r == p - 100 * lo
<1>1. p \in Nat /\ p <= 100 * (n - 1)
  OBVIOUS
<1>2. lo \in Nat /\ r \in 0 .. 99 /\ p % 100 = r
  BY <1>1
<1>3. p = 100 * lo + r
  BY <1>1, <1>2
<1> HIDE DEF lo, r
<1>4. lo + 1 \in 1 .. n /\ (r # 0 => lo + 2 \in 1 .. n)
  BY <1>1, <1>2, <1>3
<1>5. Interpolated(s, p) = IF r = 0 THEN 100 * s[lo + 1]
                           ELSE s[lo + 1] * (100 * (lo + 1) - p) + s[lo + 2] * r
  BY <1>2 DEF Interpolated, lo, r
<1>6. CASE r = 0
  <2>1. Interpolated(s, p) = 100 * s[lo + 1] /\ s[lo + 1] \in Nat
    BY <1>4, <1>5, <1>6
  <2>2. p % 100 = 0
    BY <1>2, <1>6
  <2> HIDE DEF Interpolated
  <2>3. QED
    BY <1>2, <1>4, <1>6, <2>1, <2>2 DEF lo, r
<1>7. CASE r # 0
  <2>1. s[lo + 1] \in Nat /\ s[lo + 2] \in Nat /\ s[lo + 1] <= s[lo + 2]
    <3>1. lo + 1 <= lo + 2
      BY <1>2
    <3>2. QED
      BY <1>4, <1>7, <3>1
  <2> DEFINE a == s[lo + 1]
             b == s[lo + 2]
  <2>2. 100 * (lo + 1) - p = 100 - r
    BY <1>2, <1>3
  <2>3. Interpolated(s, p) = a * (100 - r) + b * r
    BY <1>5, <1>7, <2>2
  <2>4. a \in Nat /\ b \in Nat /\ a <= b
    BY <2>1
  <2> HIDE DEF a, b
  <2>5. PICK d \in Nat : b = a + d
    <3>1. b - a \in Nat /\ b = a + (b - a)
      BY <2>4
    <3>2. QED
      BY <3>1
  <2>6. r \in Nat /\ 100 - r \in Nat
    BY <1>2
  <2>7. d * r \in Nat /\ d * (100 - r) \in Nat
    BY <2>5, <2>6
  <2>8. a * (100 - r) + b * r = 100 * a + d * r
    BY <2>4, <2>5, <2>6
  <2>9. a * (100 - r) + b * r = 100 * b - d * (100 - r)
    BY <2>4, <2>5, <2>6
  <2>10. /\ Interpolated(s, p) \in Nat
         /\ 100 * a <= Interpolated(s, p) /\ Interpolated(s, p) <= 100 * b
    <3> DEFINE v == a * (100 - r) + b * r
               x == d * r
               y == d * (100 - r)
    <3>1. v = 100 * a + x /\ v = 100 * b - y /\ x \in Nat /\ y \in Nat
      BY <2>7, <2>8, <2>9
    <3> HIDE DEF v, x, y
    <3>2. v \in Nat /\ 100 * a <= v /\ v <= 100 * b
      BY <2>4, <3>1
    <3>3. QED
      BY <2>3, <3>2 DEF v
  <2>11. p % 100 # 0
    BY <1>2, <1>7
  <2>12. QED
    BY <1>2, <1>4, <1>7, <2>10, <2>11 DEF a, b, lo, r
<1>8. QED
  BY <1>6, <1>7

LEMMA InterpolatedMonotone ==
  ASSUME NEW n \in Nat, n >= 1, NEW s,
         \A i \in 1 .. n : s[i] \in Nat,
         \A i, j \in 1 .. n : i <= j => s[i] <= s[j],
         NEW p \in 0 .. 100 * (n - 1), NEW q \in 0 .. 100 * (n - 1), p <= q
  PROVE  Interpolated(s, p) <= Interpolated(s, q)
<1> DEFINE Bounds(x, lo, hi) ==
             /\ lo \in Nat /\ lo + 1 \in 1 .. n /\ hi \in 1 .. n
             /\ x - 100 * lo \in 0 .. 99
             /\ (x % 100 = 0 <=> x - 100 * lo = 0)
             /\ Interpolated(s, x) \in Nat
             /\ 100 * s[lo + 1] <= Interpolated(s, x)
             /\ Interpolated(s, x) <= 100 * s[hi]
<1> DEFINE lp == p \div 100
           lq == q \div 100
           hp == IF p % 100 = 0 THEN lp + 1 ELSE lp + 2
           hq == IF q % 100 = 0 THEN lq + 1 ELSE lq + 2
<1>1. Bounds(p, lp, hp)
  BY InterpolatedBetween
<1>2. Bounds(q, lq, hq)
  BY InterpolatedBetween
<1>3. p \in Nat /\ q \in Nat
  OBVIOUS
<1>4. /\ Interpolated(s, p) = IF p % 100 = 0 THEN 100 * s[lp + 1]
                              ELSE s[lp + 1] * (100 * (lp + 1) - p)
                                     + s[lp + 2] * (p - 100 * lp)
      /\ Interpolated(s, q) = IF q % 100 = 0 THEN 100 * s[lq + 1]
                              ELSE s[lq + 1] * (100 * (lq + 1) - q)
                                     + s[lq + 2] * (q - 100 * lq)
  BY Zenon DEF Interpolated
<1>5. hp = (IF p % 100 = 0 THEN lp + 1 ELSE lp + 2)
  OBVIOUS
<1> HIDE DEF lp, lq, hp, hq
<1>6. lp <= lq
  BY <1>1, <1>2, <1>3
<1>7. CASE lp < lq
  <2>1. hp <= lq + 1
    BY <1>1, <1>2, <1>5, <1>7
  <2>2. s[hp] <= s[lq + 1] /\ s[hp] \in Nat /\ s[lq + 1] \in Nat
    BY <1>1, <1>2, <2>1
  <2> DEFINE u == Interpolated(s, p)
             v == Interpolated(s, q)
             a == s[hp]
             b == s[lq + 1]
  <2>3. /\ u \in Nat /\ v \in Nat /\ a \in Nat /\ b \in Nat
        /\ u <= 100 * a /\ a <= b /\ 100 * b <= v
    BY <1>1, <1>2, <2>2
  <2> HIDE DEF u, v, a, b
  <2>4. u <= v
    BY <2>3
  <2>5. QED
    BY <2>4 DEF u, v
<1>8. CASE lp = lq
  <2>1. CASE p % 100 = 0
    BY <1>2, <1>4, <1>8, <2>1
  <2>2. CASE p % 100 # 0
    <3>1. q % 100 # 0 /\ p - 100 * lp \in 1 .. 99 /\ q - 100 * lp \in 1 .. 99
      BY <1>1, <1>2, <1>3, <1>8, <2>2
    <3>2. hp = lp + 2
      BY <1>5, <2>2
    <3> DEFINE a == s[lp + 1]
               b == s[lp + 2]
               x == p - 100 * lp
               y == q - 100 * lp
               k == 100 * (lp + 1) - p
               l == 100 * (lp + 1) - q
    <3>3. a \in Nat /\ b \in Nat /\ a <= b
      <4>1. lp + 1 <= lp + 2
        BY <1>1
      <4>2. QED
        BY <1>1, <3>2, <4>1
    <3>4. /\ Interpolated(s, p) = a * k + b * x
          /\ Interpolated(s, q) = a * l + b * y
      BY <1>4, <1>8, <2>2, <3>1
    <3>5. x \in Nat /\ y \in Nat /\ x <= y /\ k = 100 - x /\ l = 100 - y
          /\ k \in Nat /\ l \in Nat
      BY <1>1, <1>3, <3>1
    <3> HIDE DEF a, b, x, y, k, l
    <3>6. PICK d \in Nat, e \in Nat : b = a + d /\ y = x + e
      <4>1. b - a \in Nat /\ y - x \in Nat /\ b = a + (b - a) /\ y = x + (y - x)
        BY <3>3, <3>5
      <4>2. QED
        BY <4>1
    <3>7. (a * l + b * y) - (a * k + b * x) = d * e
      BY <3>3, <3>5, <3>6
    <3>8. d * e \in Nat /\ a * l + b * y \in Nat /\ a * k + b * x \in Nat
      BY <3>3, <3>5, <3>6
    <3>9. a * k + b * x <= a * l + b * y
      <4> DEFINE u == a * k + b * x
                 v == a * l + b * y
                 w == d * e
      <4>1. v - u = w /\ w \in Nat /\ u \in Nat /\ v \in Nat
        BY <3>7, <3>8
      <4> HIDE DEF u, v, w
      <4>2. u <= v
        BY <4>1
      <4>3. QED
        BY <4>2 DEF u, v
    <3>10. QED
      BY <3>4, <3>9
  <2>3. QED
    BY <2>1, <2>2
<1>9. QED
  BY <1>1, <1>2, <1>6, <1>7, <1>8

LEMMA PercentilesInOrder ==
  ASSUME NEW D, IsFiniteSet(D), NEW values, DOMAIN values = D,
         NEW m \in Nat, \A j \in D : values[j] \in 0 .. m
  PROVE  LET stats == distribution_stats(values)
         IN  \A i \in 1 .. Len(stats) - 1 : stats[i] <= stats[i + 1]
<1> DEFINE stats == distribution_stats(values)
           range == {values[j] : j \in D}
           s == sorted(values)
           n == Cardinality(D)
           Q(q) == Interpolated(s, (n - 1) * q)
<1>1. stats = IF range = {} THEN <<0, 0, 0, 0, 0, 0, 0>>
              ELSE <<100 * Min(range), quantile(values, 10), quantile(values, 25),
                     quantile(values, 50), quantile(values, 75),
                     quantile(values, 90), 100 * Max(range)>>
  BY Zenon DEF distribution_stats
<1>2. CASE range = {}
  <2>1. stats = <<0, 0, 0, 0, 0, 0, 0>>
    BY <1>1, <1>2
  <2> HIDE DEF stats
  <2>2. Len(stats) = 7
    BY <2>1
  <2>3. \A i \in 1 .. 7 : stats[i] = 0
    BY <2>1
  <2>4. \A i \in 1 .. Len(stats) - 1 : i \in 1 .. 7 /\ i + 1 \in 1 .. 7
    BY <2>2
  <2>5. \A i \in 1 .. Len(stats) - 1 : stats[i] <= stats[i + 1]
    BY <2>3, <2>4
  <2>6. QED
    BY <2>5 DEF stats
<1>3. CASE range # {}
  <2>1. D # {}
    BY <1>3
  <2>2. /\ n \in Nat /\ n >= 1
        /\ \A i \in 1 .. n : s[i] \in range
        /\ \A i, j \in 1 .. n : i <= j => s[i] <= s[j]
        /\ range \subseteq 0 .. m
        /\ Min(range) \in range /\ Max(range) \in range
        /\ \A y \in range : Min(range) <= y /\ y <= Max(range)
    <3>1. Ordered(n, range, s, m)
      BY <2>1, SortedList, Zenon
    <3> HIDE DEF n, range, s
    <3>2. QED
      BY <3>1 DEF Ordered
  <2>3. \A q : quantile(values, q) = Q(q)
    BY Zenon DEF quantile, Interpolated
  <2> HIDE DEF range, s, n, stats
  <2>14. ASSUME NEW y \in range PROVE y \in Nat
    <3>1. y \in 0 .. m
      BY <2>2
    <3>2. QED
      BY <3>1
  <2>4. \A i \in 1 .. n : s[i] \in Nat
    BY <2>2, <2>14
  <2>5. ASSUME NEW q \in 0 .. 100 PROVE (n - 1) * q \in 0 .. 100 * (n - 1)
    <3> DEFINE k == n - 1
    <3>1. k \in Nat
      BY <2>2
    <3> HIDE DEF k
    <3>2. q \in Nat /\ k * q \in Nat /\ 100 - q \in Nat
      BY <3>1
    <3>3. k * (100 - q) \in Nat /\ k * (100 - q) = 100 * k - k * q
      BY <3>1, <3>2
    <3>4. k * q \in 0 .. 100 * k
      BY <3>1, <3>2, <3>3
    <3>5. QED
      BY <3>4 DEF k
  <2>6. ASSUME NEW p \in 0 .. 100, NEW q \in 0 .. 100, p <= q
        PROVE  Q(p) <= Q(q)
    <3>1. (n - 1) * p <= (n - 1) * q
      <4> DEFINE k == n - 1
      <4>1. k \in Nat
        BY <2>2
      <4> HIDE DEF k
      <4>2. k * (q - p) \in Nat /\ k * (q - p) = k * q - k * p
            /\ k * q \in Nat /\ k * p \in Nat
        BY <2>6, <4>1
      <4>3. k * p <= k * q
        BY <4>2
      <4>4. QED
        BY <4>3 DEF k
    <3>2. QED
      BY <2>2, <2>4, <2>5, <2>6, <3>1, InterpolatedMonotone
  <2>7. ASSUME NEW q \in 0 .. 100
        PROVE  100 * Min(range) <= Q(q) /\ Q(q) <= 100 * Max(range)
    <3> DEFINE p == (n - 1) * q
               lo == p \div 100
               hi == IF p % 100 = 0 THEN lo + 1 ELSE lo + 2
    <3>1. p \in 0 .. 100 * (n - 1)
      BY <2>5
    <3> HIDE DEF p
    <3>2. /\ lo + 1 \in 1 .. n /\ hi \in 1 .. n
          /\ Interpolated(s, p) \in Nat
          /\ 100 * s[lo + 1] <= Interpolated(s, p)
          /\ Interpolated(s, p) <= 100 * s[hi]
      BY <2>2, <2>4, <3>1, InterpolatedBetween
    <3> DEFINE a == s[lo + 1]
               b == s[hi]
               v == Interpolated(s, p)
    <3>3. a \in range /\ b \in range
      BY <2>2, <3>2
    <3>4. /\ Min(range) \in Nat /\ Max(range) \in Nat /\ a \in Nat /\ b \in Nat
          /\ Min(range) <= a /\ b <= Max(range)
      <4> HIDE DEF a, b
      <4>1. QED
        BY <2>2, <2>14, <3>3
    <3>5. v \in Nat /\ 100 * a <= v /\ v <= 100 * b
      BY <3>2
    <3> HIDE DEF a, b, v
    <3>6. 100 * Min(range) <= v /\ v <= 100 * Max(range)
      BY <3>4, <3>5
    <3>7. QED
      BY <3>6 DEF v, p
  <2>8. stats = <<100 * Min(range), Q(10), Q(25), Q(50), Q(75), Q(90), 100 * Max(range)>>
    BY <1>1, <1>3, <2>3
  <2>9. /\ 100 * Min(range) <= Q(10) /\ Q(10) <= Q(25) /\ Q(25) <= Q(50)
        /\ Q(50) <= Q(75) /\ Q(75) <= Q(90) /\ Q(90) <= 100 * Max(range)
    <3>1. 10 \in 0 .. 100 /\ 25 \in 0 .. 100 /\ 50 \in 0 .. 100 /\ 75 \in 0 .. 100
          /\ 90 \in 0 .. 100 /\ 10 <= 25 /\ 25 <= 50 /\ 50 <= 75 /\ 75 <= 90
      OBVIOUS
    <3> HIDE DEF Q
    <3>2. QED
      BY <2>6, <2>7, <3>1
  <2> HIDE DEF Q
  <2>10. Len(stats) = 7
    BY <2>8
  <2>11. /\ stats[1] <= stats[2] /\ stats[2] <= stats[3] /\ stats[3] <= stats[4]
         /\ stats[4] <= stats[5] /\ stats[5] <= stats[6] /\ stats[6] <= stats[7]
    BY <2>8, <2>9
  <2>12. ASSUME NEW i \in 1 .. Len(stats) - 1 PROVE stats[i] <= stats[i + 1]
    <3>1. i = 1 \/ i = 2 \/ i = 3 \/ i = 4 \/ i = 5 \/ i = 6
      BY <2>10
    <3>2. QED
      BY <2>11, <3>1
  <2>13. QED
    BY <2>12 DEF stats
<1>4. QED
  BY <1>2, <1>3

(* The degrees of a graph without self edges are consistent.               *)
LEMMA DegreesHold ==
  ASSUME NEW E, SimpleGraph(E) PROVE DegreesConsistent(E)
<1> DEFINE U == directed_to_undirected(E)
<1>1. SimpleGraph(U)
  BY UndirectedIsSimple
<1>2. /\ Total(LAMBDA n : DegreeRow(n, E).out_degree) = Cardinality(E)
      /\ Total(LAMBDA n : DegreeRow(n, E).in_degree) = Cardinality(E)
      /\ topology_stats(E, TRUE).avg_degree[1] = 2 * Cardinality(E)
  BY DegreesAddUp, Zenon
<1>3. \A n \in nodes :
        undirected_degree(n, U) =
          Cardinality({m \in nodes : <<n, m>> \in E \/ <<m, n>> \in E})
  BY DegreeIsPeers
<1>4. topology_stats(U, FALSE).avg_degree[1] = 2 * Cardinality(U)
  <2> HIDE DEF U
  <2>1. QED
    BY <1>1, DegreesAddUp, Zenon
<1>5. 2 * Cardinality(U) + Cardinality(reciprocal(E)) = 2 * Cardinality(E)
  BY MutualLost
<1>6. topology_stats(U, FALSE).avg_degree[1] + Cardinality(reciprocal(E))
        = 2 * Cardinality(E)
  BY <1>4, <1>5, Zenon
<1>7. ClusteringTotal(U) % 3 = 0
  <2>1. \A e \in U : e[1] < e[2]
    BY UndirectedPairs
  <2> HIDE DEF U
  <2>2. QED
    BY <1>1, <2>1, TrianglesByThree
<1>8. LET stats == distribution_stats(out_degrees(E))
      IN  \A i \in 1 .. Len(stats) - 1 : stats[i] <= stats[i + 1]
  <2>1. /\ DOMAIN out_degrees(E) = nodes /\ IsFiniteSet(nodes)
        /\ \A n \in nodes : out_degrees(E)[n] = out_degree(n, E)
    BY DEF out_degrees, SimpleGraph
  <2>2. /\ Cardinality(E) \in Nat
        /\ \A n \in nodes : out_degrees(E)[n] \in 0 .. Cardinality(E)
    <3>1. Cardinality(E) \in Nat
      BY UndirectedPairs, FS_CardinalityType
    <3>2. \A n \in nodes : out_degree(n, E) \in 0 .. Cardinality(E)
      BY OutDegrees
    <3>3. QED
      BY <2>1, <3>1, <3>2
  <2>3. QED
    BY <2>1, <2>2, PercentilesInOrder, Zenon
<1>9. MapThenSumSet(LAMBDA d : d[1] * d[2], degree_distribution(E)) = Cardinality(E)
  BY DistributionAddsUp, Zenon
<1>10. QED
  BY <1>2, <1>3, <1>6, <1>7, <1>8, <1>9, Zenon DEF DegreesConsistent, ClusteringTotal

-----------------------------------------------------------------------------
(* Components.                                                             *)
LEMMA ComponentSets ==
  ASSUME IsFiniteSet(nodes), NEW edges, NEW P, AreComponents(P, nodes, edges)
  PROVE  /\ IsFiniteSet(P)
         /\ \A c \in P : /\ c \subseteq nodes /\ c # {} /\ IsFiniteSet(c)
                         /\ Cardinality(c) \in Nat
         /\ \A n \in nodes : \E c \in P : n \in c
         /\ \A c, d \in P : \A n \in c : n \in d => c = d
<1>1. P \subseteq SUBSET nodes
  BY DEF AreComponents
<1>2. IsFiniteSet(SUBSET nodes)
  BY FS_SUBSET
<1>3. IsFiniteSet(P)
  BY <1>1, <1>2, FS_Subset
<1>4. \A c \in P : c \subseteq nodes /\ c # {}
  BY <1>1 DEF AreComponents, IsComponent
<1>5. \A c \in P : IsFiniteSet(c) /\ Cardinality(c) \in Nat
  BY <1>4, FS_Subset, FS_CardinalityType
<1>6. \A n \in nodes : \E c \in P : n \in c
  BY DEF AreComponents
<1>7. \A c, d \in P : \A n \in c : n \in d => c = d
  BY DEF AreComponents, Disjoint
<1>8. QED
  BY <1>3, <1>4, <1>5, <1>6, <1>7

(* It takes an edge for every node that a component has beyond one.        *)
LEMMA EnoughEdges ==
  ASSUME IsFiniteSet(nodes), NEW U, U \subseteq nodes \X nodes,
         NEW P, AreComponents(P, nodes, U)
  PROVE  Cardinality(U) >= Cardinality(nodes) - Cardinality(P)
<1> DEFINE root == [c \in P |-> CHOOSE x \in c : TRUE]
           R == {root[c] : c \in P}
           Within_(S) == {e \in U : e[1] \in S /\ e[2] \in S}
           Grown(S) == /\ R \subseteq S /\ S \subseteq nodes
                       /\ Cardinality(Within_(S)) + Cardinality(R) >= Cardinality(S)
<1>1. /\ IsFiniteSet(P) /\ \A c \in P : c \subseteq nodes /\ c # {}
      /\ \A n \in nodes : \E c \in P : n \in c
      /\ \A c, d \in P : \A n \in c : n \in d => c = d
  BY ComponentSets
<1>2. \A c \in P : root[c] \in c
  <2> TAKE c \in P
  <2>1. \E x \in c : TRUE
    BY <1>1
  <2>2. QED
    BY <2>1
<1>3. IsFiniteSet(U) /\ Cardinality(U) \in Nat
  BY FS_Product, FS_Subset, FS_CardinalityType
<1>4. ASSUME NEW S \in SUBSET nodes
      PROVE  /\ IsFiniteSet(S) /\ Cardinality(S) \in Nat
             /\ IsFiniteSet(Within_(S)) /\ Cardinality(Within_(S)) \in Nat
  <2>1. IsFiniteSet(S) /\ IsFiniteSet(Within_(S))
    BY <1>3, FS_Subset
  <2> HIDE DEF Within_
  <2>2. QED
    BY <2>1, FS_CardinalityType
<1> HIDE DEF root
<1>5. R \in SUBSET nodes
  BY <1>1, <1>2
<1>6. Cardinality(R) = Cardinality(P) /\ Cardinality(P) \in Nat
  <2>1. \A c \in P : root[c] \in R
    OBVIOUS
  <2>2. \A x \in R : \E c \in P : root[c] = x
    OBVIOUS
  <2>3. \A c, d \in P : root[c] = root[d] => c = d
    BY <1>1, <1>2
  <2>4. IsFiniteSet(P)
    BY <1>1
  <2> HIDE DEF R
  <2>5. Cardinality(R) = Cardinality(P)
    BY <2>1, <2>2, <2>3, <2>4, SameSize
  <2>6. QED
    BY <2>4, <2>5, FS_CardinalityType
<1>7. PICK S \in SUBSET nodes :
        /\ Grown(S)
        /\ \A T \in SUBSET nodes : Grown(T) => Cardinality(T) <= Cardinality(S)
  <2> DEFINE Sizes == {Cardinality(S) : S \in {T \in SUBSET nodes : Grown(T)}}
  <2>1. Grown(R)
    <3> DEFINE w == Cardinality(Within_(R))  r == Cardinality(R)
    <3>1. w \in Nat /\ r \in Nat
      BY <1>4, <1>5
    <3> HIDE DEF w, r
    <3>2. w + r >= r
      BY <3>1
    <3>3. QED
      BY <1>5, <3>2 DEF w, r
  <2> HIDE DEF Grown, R
  <2>2. Sizes # {} /\ Sizes \subseteq 0 .. Cardinality(nodes) /\ Cardinality(nodes) \in Nat
    <3>1. \A S \in SUBSET nodes : Cardinality(S) \in 0 .. Cardinality(nodes)
      <4>1. \A S \in SUBSET nodes : Cardinality(S) <= Cardinality(nodes)
        BY FS_Subset
      <4>2. Cardinality(nodes) \in Nat
        BY FS_CardinalityType
      <4>3. \A S \in SUBSET nodes : Cardinality(S) \in Nat
        BY <1>4
      <4>4. QED
        BY <4>1, <4>2, <4>3
    <3>2. Cardinality(nodes) \in Nat
      BY FS_CardinalityType
    <3>3. QED
      BY <1>5, <2>1, <3>1, <3>2
  <2>3. Max(Sizes) \in Sizes /\ \A y \in Sizes : y <= Max(Sizes)
    <3> HIDE DEF Sizes
    <3>1. QED
      BY <2>2, MaxOfBounded
  <2>4. QED
    BY <2>3
<1>8. S = nodes
  <2>1. SUFFICES ASSUME S # nodes PROVE FALSE
    OBVIOUS
  <2>2. PICK n \in nodes : n \notin S
    BY <2>1
  <2>3. PICK c \in P : n \in c
    BY <1>1
  <2>4. /\ IsComponent(c, U) /\ Closed(c, U) /\ c \cap S # {} /\ c \cap S # c
        /\ R \subseteq S
    <3>1. IsComponent(c, U)
      BY DEF AreComponents
    <3>2. root[c] \in R /\ root[c] \in c /\ R \subseteq S
      BY <1>2, <1>7
    <3>3. QED
      BY <2>2, <2>3, <3>1, <3>2 DEF IsComponent
  <2>5. PICK e \in U : ~ (e[1] \in c \cap S <=> e[2] \in c \cap S)
    <3>1. ~ Closed(c \cap S, U)
      BY <2>4 DEF IsComponent
    <3>2. QED
      BY <3>1 DEF Closed
  <2>6. e[1] \in c <=> e[2] \in c
    BY <2>4 DEF Closed
  <2>7. PICK w \in nodes : w \notin S /\ {e[1], e[2]} \subseteq S \cup {w} /\ w \in {e[1], e[2]}
    <3>1. e[1] \in nodes /\ e[2] \in nodes
      BY PairFacts
    <3>2. CASE e[1] \in c \cap S
      BY <2>5, <2>6, <3>1, <3>2
    <3>3. CASE e[2] \in c \cap S
      BY <2>5, <2>6, <3>1, <3>3
    <3>4. QED
      BY <2>5, <3>2, <3>3
  <2> DEFINE T == S \cup {w}
  <2>8. T \in SUBSET nodes
    OBVIOUS
  <2>9. Cardinality(T) = Cardinality(S) + 1
    BY <1>4, <2>7, FS_AddElement
  <2>10. Cardinality(Within_(T)) >= Cardinality(Within_(S)) + 1
    <3>1. e \in Within_(T) /\ e \notin Within_(S) /\ Within_(S) \subseteq Within_(T)
      BY <2>7
    <3> DEFINE A == Within_(S)
               B == Within_(T)
    <3>2. IsFiniteSet(A) /\ IsFiniteSet(B) /\ Cardinality(A) \in Nat
      BY <1>4, <2>8
    <3> HIDE DEF A, B, T
    <3>3. A \cup {e} \subseteq B
      BY <3>1 DEF A, B
    <3>4. Cardinality(A \cup {e}) = Cardinality(A) + 1
      BY <3>1, <3>2, FS_AddElement DEF A
    <3>5. Cardinality(A \cup {e}) <= Cardinality(B)
      BY <3>2, <3>3, FS_Subset
    <3>6. Cardinality(B) \in Nat
      BY <3>2, FS_CardinalityType
    <3>7. QED
      BY <3>2, <3>4, <3>5, <3>6 DEF A, B
  <2>11. Grown(T)
    <3> DEFINE a == Cardinality(Within_(S))  b == Cardinality(Within_(T))
               r == Cardinality(R)  s == Cardinality(S)  t == Cardinality(T)
    <3>1. /\ a + r >= s /\ b >= a + 1 /\ t = s + 1
          /\ a \in Nat /\ b \in Nat /\ r \in Nat /\ s \in Nat
      BY <1>4, <1>5, <1>7, <2>8, <2>9, <2>10
    <3> HIDE DEF a, b, r, s, t
    <3>2. b + r >= t
      BY <3>1
    <3>3. R \subseteq T
      BY <2>4
    <3>4. QED
      BY <2>8, <3>2, <3>3 DEF b, r, t
  <2>12. Cardinality(T) <= Cardinality(S)
    BY <1>7, <2>8, <2>11
  <2>13. Cardinality(S) \in Nat
    BY <1>4
  <2> HIDE DEF T
  <2>14. QED
    BY <2>9, <2>12, <2>13
<1>9. Within_(nodes) = U
  <2>1. \A e \in U : e[1] \in nodes /\ e[2] \in nodes
    BY PairFacts
  <2>2. QED
    BY <2>1
<1>10. Cardinality(U) + Cardinality(P) >= Cardinality(nodes)
  BY <1>6, <1>7, <1>8, <1>9
<1>11. Cardinality(nodes) \in Nat
  BY FS_CardinalityType
<1>12. QED
  BY <1>3, <1>6, <1>10, <1>11

DensitiesFit(n, m, u) ==
  /\ density(n, m, TRUE)[1] <= density(n, u, FALSE)[1]
  /\ density(n, u, FALSE)[1] <= density(n, u, FALSE)[2]

LEMMA Densities ==
  ASSUME NEW E, SimpleGraph(E)
  PROVE  DensitiesFit(Cardinality(nodes), Cardinality(E),
                      Cardinality(directed_to_undirected(E)))
<1> DEFINE U == directed_to_undirected(E)
           n == Cardinality(nodes)
           m == Cardinality(E)
           u == Cardinality(U)
<1>1. /\ nodes \subseteq Nat /\ IsFiniteSet(nodes) /\ n \in Nat
  BY FS_CardinalityType DEF SimpleGraph
<1>2. m \in Nat /\ u \in Nat /\ m <= 2 * u
  <2> DEFINE r == Cardinality(reciprocal(E))
  <2>1. 2 * u + r = 2 * m /\ r <= m /\ r \in Nat /\ m \in Nat /\ u \in Nat
    BY MutualLost
  <2> HIDE DEF r, m, u
  <2>2. QED
    BY <2>1
<1>3. /\ IsFiniteSet(nodes \X nodes) /\ IsFiniteSet(U) /\ U \subseteq nodes \X nodes
      /\ \A e \in U : e[1] < e[2]
  BY UndirectedPairs
<1>4. 2 * u <= n * (n - 1)
  <2> DEFINE Diagonal == {<<a, a>> : a \in nodes}
             F == Flip(U)
  <2>1. Cardinality(nodes \X nodes) = n * n
    BY <1>1, FS_Product
  <2>2. IsFiniteSet(Diagonal) /\ Cardinality(Diagonal) = n
    <3> DEFINE f == [a \in nodes |-> <<a, a>>]
    <3>1. /\ \A a \in nodes : f[a] \in Diagonal
          /\ \A x \in Diagonal : \E a \in nodes : f[a] = x
          /\ \A a, b \in nodes : f[a] = f[b] => a = b
      OBVIOUS
    <3> HIDE DEF f, Diagonal
    <3>2. QED
      BY <1>1, <3>1, SameSize
  <2> HIDE DEF U
  <2>3. /\ IsFiniteSet(F) /\ Cardinality(F) = u /\ F \subseteq nodes \X nodes
        /\ \A a, b \in nodes : <<a, b>> \in F <=> <<b, a>> \in U
    BY <1>3, FlipPairs
  <2>4. ASSUME NEW a \in nodes, NEW b \in nodes
        PROVE  /\ <<a, b>> \in U => a < b
               /\ <<a, b>> \in F => b < a
               /\ a \in Nat /\ b \in Nat
    <3>1. (<<a, b>>)[1] = a /\ (<<a, b>>)[2] = b /\ (<<b, a>>)[1] = b /\ (<<b, a>>)[2] = a
      OBVIOUS
    <3> HIDE DEF F
    <3>2. QED
      BY <1>1, <1>3, <2>3, <3>1
  <2> HIDE DEF F
  <2>5. U \cap F = {}
    <3>1. ASSUME NEW e \in nodes \X nodes, e \in U, e \in F PROVE FALSE
      <4>1. e = <<e[1], e[2]>> /\ e[1] \in nodes /\ e[2] \in nodes
        BY PairFacts
      <4>2. e[1] < e[2] /\ e[2] < e[1] /\ e[1] \in Nat /\ e[2] \in Nat
        BY <2>4, <3>1, <4>1
      <4>3. QED
        BY <4>2
    <3>2. QED
      BY <1>3, <3>1
  <2>6. (U \cup F) \cap Diagonal = {}
    <3>1. ASSUME NEW a \in nodes, <<a, a>> \in U \cup F PROVE FALSE
      BY <2>4, <3>1
    <3>2. QED
      BY <3>1
  <2>7. Diagonal \subseteq nodes \X nodes
    OBVIOUS
  <2> HIDE DEF Diagonal
  <2>8. IsFiniteSet(U \cup F) /\ Cardinality(U \cup F) = u + u
    BY <1>3, <2>3, <2>5, DisjointUnion
  <2>9. /\ IsFiniteSet((U \cup F) \cup Diagonal)
        /\ Cardinality((U \cup F) \cup Diagonal) = Cardinality(U \cup F) + n
    <3> DEFINE V == U \cup F
    <3>1. IsFiniteSet(V) /\ V \cap Diagonal = {}
      BY <2>6, <2>8
    <3> HIDE DEF V
    <3>2. /\ IsFiniteSet(V \cup Diagonal)
          /\ Cardinality(V \cup Diagonal) = Cardinality(V) + n
      BY <2>2, <3>1, DisjointUnion
    <3>3. QED
      BY <3>2 DEF V
  <2>10. Cardinality((U \cup F) \cup Diagonal) <= Cardinality(nodes \X nodes)
    <3>1. (U \cup F) \cup Diagonal \subseteq nodes \X nodes
      BY <1>3, <2>3, <2>7
    <3>2. QED
      BY <1>3, <3>1, FS_Subset
  <2>11. (u + u) + n <= n * n
    BY <2>1, <2>8, <2>9, <2>10
  <2>12. QED
    <3> HIDE DEF n, u
    <3>1. n * (n - 1) = n * n - n
      BY <1>1
    <3>2. n * n \in Nat
      BY <1>1
    <3>3. QED
      BY <1>1, <1>2, <2>11, <3>1, <3>2
<1> HIDE DEF n, m, u
<1> DEFINE directed == density(n, m, TRUE)
           undirected_ == density(n, u, FALSE)
           p == n * (n - 1)
<1>5. /\ directed = IF n <= 1 THEN <<0, 1>> ELSE <<m, p>>
      /\ undirected_ = IF n <= 1 THEN <<0, 1>> ELSE <<2 * u, p>>
  BY Zenon DEF density
<1>6. 2 * u <= p
  BY <1>4
<1>7. DensitiesFit(n, m, u) <=>
        directed[1] <= undirected_[1] /\ undirected_[1] <= undirected_[2]
  BY Zenon DEF DensitiesFit
<1> HIDE DEF directed, undirected_, p
<1>8. CASE n <= 1
  <2>1. directed = <<0, 1>> /\ undirected_ = <<0, 1>>
    BY <1>5, <1>8
  <2>2. directed[1] = 0 /\ undirected_[1] = 0 /\ undirected_[2] = 1
    BY <2>1
  <2>3. QED
    BY <1>7, <2>2 DEF n, m, u, U
<1>9. CASE ~ (n <= 1)
  <2>1. directed = <<m, p>> /\ undirected_ = <<2 * u, p>>
    BY <1>5, <1>9
  <2>2. directed[1] = m /\ undirected_[1] = 2 * u /\ undirected_[2] = p
    BY <2>1
  <2>3. DensitiesFit(n, m, u)
    BY <1>2, <1>6, <1>7, <2>2
  <2>4. QED
    BY <2>3 DEF n, m, u, U
<1>10. QED
  BY <1>8, <1>9

-----------------------------------------------------------------------------
(* Distances.                                                              *)
LEMMA TripleFacts ==
  ASSUME NEW N, NEW d \in N \X N \X Nat
  PROVE  d = <<d[1], d[2], d[3]>> /\ d[1] \in N /\ d[2] \in N /\ d[3] \in Nat
OBVIOUS

(* Whatever starts within k of s and grows by at most one from a node to   *)
(* its neighbour is nowhere more than k beyond the distance from s.        *)
LEMMA Shortest ==
  ASSUME NEW N, NEW edges, NEW s, NEW L, L \subseteq N \X Nat,
         AreDistances(L, s, N, edges),
         NEW M, M \subseteq N \X Nat, NEW k \in Nat,
         \E b \in M : b[1] = s /\ b[2] <= k,
         \A b \in M : \A v \in N : Adjacent(b[1], v, edges) =>
           \E c \in M : c[1] = v /\ c[2] <= b[2] + 1
  PROVE  \A a \in L : \E b \in M : b[1] = a[1] /\ b[2] <= a[2] + k
<1> DEFINE Bad == {a \in L : ~ \E b \in M : b[1] = a[1] /\ b[2] <= a[2] + k}
           Sizes == {a[2] : a \in Bad}
<1>1. SUFFICES ASSUME Bad # {} PROVE FALSE
  OBVIOUS
<1>2. \A a \in L : a[1] \in N /\ a[2] \in Nat
  OBVIOUS
<1>3. \A b \in M : b[1] \in N /\ b[2] \in Nat
  OBVIOUS
<1>4. PICK a \in Bad : \A b \in Bad : a[2] <= b[2]
  <2>1. Sizes \subseteq Nat /\ Sizes # {}
    BY <1>1, <1>2
  <2>2. Min(Sizes) \in Sizes /\ \A d \in Sizes : Min(Sizes) <= d
    <3> HIDE DEF Sizes
    <3>1. QED
      BY <2>1, LeastElement
  <2>3. PICK a \in Bad : a[2] = Min(Sizes)
    BY <2>2
  <2>4. \A b \in Bad : b[2] \in Sizes
    OBVIOUS
  <2> HIDE DEF Sizes
  <2>5. QED
    BY <2>2, <2>3, <2>4
<1>5. a \in L /\ ~ \E b \in M : b[1] = a[1] /\ b[2] <= a[2] + k
  OBVIOUS
<1>6. a # <<s, 0>>
  <2>1. ASSUME a = <<s, 0>> PROVE FALSE
    <3>1. a[1] = s /\ a[2] + k = k
      BY <2>1
    <3>2. QED
      BY <1>5, <3>1
  <2>2. QED
    BY <2>1
<1>7. PICK b \in L : Adjacent(b[1], a[1], edges) /\ a[2] = b[2] + 1
  BY <1>5, <1>6 DEF AreDistances
<1>8. b \notin Bad
  BY <1>2, <1>4, <1>5, <1>7
<1>9. PICK c \in M : c[1] = b[1] /\ c[2] <= b[2] + k
  BY <1>8
<1>10. PICK d \in M : d[1] = a[1] /\ d[2] <= c[2] + 1
  BY <1>2, <1>5, <1>7, <1>9
<1>11. d[2] <= a[2] + k
  BY <1>2, <1>3, <1>5, <1>7, <1>9, <1>10
<1>12. QED
  BY <1>5, <1>10, <1>11

(* What is known of the distances of one graph.                            *)
Paths(D, edges) ==
  /\ IsFiniteSet(nodes) /\ edges \subseteq nodes \X nodes
  /\ D \subseteq nodes \X nodes \X Nat
  /\ \A d \in D : d[3] > 0
  /\ \A s \in nodes : AreDistances(Level(D, s), s, nodes, edges)

LEMMA LevelPairs ==
  ASSUME NEW D, NEW edges, Paths(D, edges), NEW s \in nodes
  PROVE  /\ Level(D, s) \subseteq nodes \X Nat /\ <<s, 0>> \in Level(D, s)
         /\ \A v \in nodes, i \in Nat :
              /\ <<v, i>> \in Level(D, s) <=> (v = s /\ i = 0) \/ <<s, v, i>> \in D
              /\ <<v, i>> \in Level(D, s) /\ i > 0 => v # s
              /\ v # s => (<<v, i>> \in Level(D, s) <=> <<s, v, i>> \in D)
              /\ \A j \in Nat : <<v, i>> \in Level(D, s) /\ <<v, j>> \in Level(D, s)
                   => i = j
<1> DEFINE L == Level(D, s)
           From == {c \in D : c[1] = s}
<1>1. \A d \in D : /\ d = <<d[1], d[2], d[3]>> /\ d[1] \in nodes
                   /\ d[2] \in nodes /\ d[3] \in Nat
  BY TripleFacts DEF Paths
<1>2. L = {<<s, 0>>} \cup {<<d[2], d[3]>> : d \in From}
  BY DEF Level
<1>3. AreDistances(L, s, nodes, edges)
  BY DEF Paths
<1> HIDE DEF L
<1>4. L \subseteq nodes \X Nat /\ <<s, 0>> \in L
  BY <1>1, <1>2
<1>5. ASSUME NEW v \in nodes, NEW i \in Nat
      PROVE  <<v, i>> \in L <=> (v = s /\ i = 0) \/ <<s, v, i>> \in D
  <2>1. ASSUME <<v, i>> \in L PROVE (v = s /\ i = 0) \/ <<s, v, i>> \in D
    <3>1. CASE <<v, i>> = <<s, 0>>
      BY <3>1
    <3>2. CASE \E d \in From : <<v, i>> = <<d[2], d[3]>>
      <4>1. PICK d \in From : <<v, i>> = <<d[2], d[3]>>
        BY <3>2
      <4>2. v = d[2] /\ i = d[3] /\ d[1] = s /\ d \in D
        BY <4>1
      <4>3. d = <<s, v, i>>
        BY <1>1, <4>2
      <4>4. QED
        BY <4>2, <4>3
    <3>3. QED
      BY <1>2, <2>1, <3>1, <3>2
  <2>2. ASSUME <<s, v, i>> \in D PROVE <<v, i>> \in L
    <3>1. (<<s, v, i>>)[1] = s /\ (<<s, v, i>>)[2] = v /\ (<<s, v, i>>)[3] = i
      OBVIOUS
    <3>2. <<s, v, i>> \in From
      BY <2>2, <3>1
    <3> HIDE DEF From
    <3>3. QED
      BY <1>2, <3>1, <3>2
  <2>3. QED
    BY <1>4, <2>1, <2>2
<1>6. ASSUME NEW v \in nodes, NEW i \in Nat, NEW j \in Nat,
             <<v, i>> \in L, <<v, j>> \in L
      PROVE  i = j
  <2>1. \A a, b \in L : a[1] = b[1] => a = b
    BY <1>3 DEF AreDistances
  <2>2. (<<v, i>>)[1] = (<<v, j>>)[1]
    OBVIOUS
  <2>3. <<v, i>> = <<v, j>>
    BY <1>6, <2>1, <2>2
  <2>4. QED
    BY <2>3
<1>7. ASSUME NEW v \in nodes, NEW i \in Nat, <<v, i>> \in L, i > 0
      PROVE  v # s
  BY <1>4, <1>6, <1>7
<1>8. QED
  BY <1>4, <1>5, <1>6, <1>7 DEF L

(* The same facts, for the triples.                                        *)
LEMMA TripleLevel ==
  ASSUME NEW D, NEW edges, Paths(D, edges), NEW d \in D
  PROVE  /\ d = <<d[1], d[2], d[3]>> /\ d[1] \in nodes /\ d[2] \in nodes
         /\ d[3] \in Nat /\ d[3] > 0 /\ d[1] # d[2]
         /\ <<d[2], d[3]>> \in Level(D, d[1])
<1>1. /\ d = <<d[1], d[2], d[3]>> /\ d[1] \in nodes /\ d[2] \in nodes
      /\ d[3] \in Nat /\ d[3] > 0
  BY TripleFacts DEF Paths
<1> DEFINE s == d[1]
           v == d[2]
           i == d[3]
<1>2. <<s, v, i>> \in D /\ s \in nodes /\ v \in nodes /\ i \in Nat /\ i > 0
  BY <1>1
<1> HIDE DEF s, v, i
<1>3. <<v, i>> \in Level(D, s)
  BY <1>2, LevelPairs
<1>4. s # v
  BY <1>2, <1>3, LevelPairs
<1>5. QED
  BY <1>1, <1>3, <1>4 DEF s, v, i

(* A search reaches the whole component of its source and nothing else.    *)
LEMMA ReachesComponent ==
  ASSUME NEW D, NEW edges, Paths(D, edges),
         NEW c, IsComponent(c, edges), c \subseteq nodes, NEW s \in c
  PROVE  /\ \A v \in c : \E i \in Nat : <<v, i>> \in Level(D, s)
         /\ \A a \in Level(D, s) : a[1] \in c
<1> DEFINE L == Level(D, s)
           R == {a[1] : a \in L}
<1>1. /\ s \in nodes /\ edges \subseteq nodes \X nodes
      /\ AreDistances(L, s, nodes, edges)
      /\ Closed(c, edges) /\ \A S \in SUBSET c : Closed(S, edges) => S = {} \/ S = c
  BY DEF Paths, IsComponent
<1>2. L \subseteq nodes \X Nat /\ <<s, 0>> \in L
  BY <1>1, LevelPairs
<1> HIDE DEF L
<1>3. ASSUME NEW a \in nodes, NEW b \in nodes, Adjacent(a, b, edges)
      PROVE  (a \in R => b \in R) /\ (a \in c => b \in c)
  <2>1. ASSUME a \in R PROVE b \in R
    <3>1. PICK x \in L : x[1] = a
      BY <2>1
    <3>2. \E y \in L : y[1] = b
      BY <1>1, <1>3, <3>1 DEF AreDistances
    <3>3. QED
      BY <3>2
  <2>2. ASSUME a \in c PROVE b \in c
    <3>1. (<<a, b>>)[1] = a /\ (<<a, b>>)[2] = b /\ (<<b, a>>)[1] = b /\ (<<b, a>>)[2] = a
      OBVIOUS
    <3>2. QED
      BY <1>1, <1>3, <2>2, <3>1 DEF Closed, Adjacent
  <2> HIDE DEF R
  <2>3. QED
    BY <2>1, <2>2
<1>4. Closed(R \cap c, edges)
  <2>1. SUFFICES ASSUME NEW e \in edges PROVE e[1] \in R \cap c <=> e[2] \in R \cap c
    BY DEF Closed
  <2>2. e = <<e[1], e[2]>> /\ e[1] \in nodes /\ e[2] \in nodes
    BY <1>1, PairFacts
  <2>3. Adjacent(e[1], e[2], edges) /\ Adjacent(e[2], e[1], edges)
    BY <2>2 DEF Adjacent
  <2> HIDE DEF R
  <2>4. QED
    BY <1>3, <2>2, <2>3
<1>5. s \in R
  <2>1. (<<s, 0>>)[1] = s
    OBVIOUS
  <2>2. QED
    BY <1>2, <2>1
<1>6. R \cap c = c
  <2> HIDE DEF R
  <2>1. QED
    BY <1>1, <1>4, <1>5
<1>7. ASSUME NEW v \in c PROVE \E i \in Nat : <<v, i>> \in L
  <2>1. PICK a \in L : a[1] = v
    BY <1>6
  <2>2. a \in nodes \X Nat
    BY <1>2
  <2>3. a = <<v, a[2]>> /\ a[2] \in Nat
    BY <2>1, <2>2
  <2>4. QED
    BY <2>1, <2>3
<1>8. \A a \in L : a[1] \in c
  <2> DEFINE M == c \X Nat
  <2>1. M \subseteq nodes \X Nat
    OBVIOUS
  <2>2. \E b \in M : b[1] = s /\ b[2] <= 0
    <3>1. <<s, 0>> \in M /\ (<<s, 0>>)[1] = s /\ (<<s, 0>>)[2] <= 0
      OBVIOUS
    <3>2. QED
      BY <3>1
  <2>3. ASSUME NEW b \in M, NEW v \in nodes, Adjacent(b[1], v, edges)
        PROVE  \E x \in M : x[1] = v /\ x[2] <= b[2] + 1
    <3>1. b[1] \in c /\ b[2] \in Nat /\ b[1] \in nodes
      OBVIOUS
    <3>2. v \in c
      BY <1>3, <2>3, <3>1
    <3>3. <<v, 0>> \in M /\ (<<v, 0>>)[1] = v /\ (<<v, 0>>)[2] <= b[2] + 1
      BY <3>1, <3>2
    <3>4. QED
      BY <3>3
  <2>4. \A b \in M : b[1] \in c
    OBVIOUS
  <2> HIDE DEF M
  <2>5. \A a \in L : \E b \in M : b[1] = a[1] /\ b[2] <= a[2] + 0
    BY <1>1, <1>2, <2>1, <2>2, <2>3, Shortest
  <2>6. QED
    BY <2>4, <2>5
<1>9. QED
  BY <1>7, <1>8 DEF L

(* Paths can be walked in both directions.                                 *)
LEMMA DistancesSymmetric ==
  ASSUME NEW D, NEW edges, Paths(D, edges), NEW d \in D
  PROVE  <<d[2], d[1], d[3]>> \in D
<1>1. \A s \in nodes : /\ Level(D, s) \subseteq nodes \X Nat
                       /\ AreDistances(Level(D, s), s, nodes, edges)
                       /\ <<s, 0>> \in Level(D, s)
  BY LevelPairs DEF Paths
<1>2. \A s \in nodes : \A b \in Level(D, s) : \A v \in nodes :
        Adjacent(b[1], v, edges) => \E c \in Level(D, s) : c[1] = v /\ c[2] <= b[2] + 1
  BY <1>1 DEF AreDistances
<1>3. ASSUME NEW v \in nodes, NEW w \in nodes, Adjacent(v, w, edges),
             NEW s \in nodes, NEW i \in Nat, <<s, i>> \in Level(D, v)
      PROVE  \E j \in Nat : <<s, j>> \in Level(D, w) /\ j <= i + 1
  <2>1. \E b \in Level(D, w) : b[1] = v /\ b[2] <= 1
    <3>1. Adjacent(w, v, edges)
      BY <1>3 DEF Adjacent
    <3> DEFINE b == <<w, 0>>
    <3>2. b[1] = w /\ b[2] + 1 = 1 /\ b \in Level(D, w)
      BY <1>1
    <3> HIDE DEF b
    <3>3. QED
      BY <1>2, <3>1, <3>2
  <2> DEFINE L == Level(D, v)
             M == Level(D, w)
  <2>2. /\ L \subseteq nodes \X Nat /\ M \subseteq nodes \X Nat
        /\ AreDistances(L, v, nodes, edges)
        /\ \E b \in M : b[1] = v /\ b[2] <= 1
        /\ \A b \in M : \A x \in nodes : Adjacent(b[1], x, edges) =>
             \E c \in M : c[1] = x /\ c[2] <= b[2] + 1
        /\ <<s, i>> \in L
    BY <1>1, <1>2, <1>3, <2>1
  <2> HIDE DEF L, M
  <2>3. 1 \in Nat
    OBVIOUS
  <2>4. \A a \in L : \E b \in M : b[1] = a[1] /\ b[2] <= a[2] + 1
    BY <2>2, <2>3, Shortest
  <2>5. (<<s, i>>)[1] = s /\ (<<s, i>>)[2] = i
    OBVIOUS
  <2>6. PICK b \in M : b[1] = s /\ b[2] <= i + 1
    BY <2>2, <2>4, <2>5
  <2>7. b = <<s, b[2]>> /\ b[2] \in Nat
    BY <2>2, <2>6
  <2>8. QED
    BY <2>6, <2>7 DEF M
<1>4. ASSUME NEW s \in nodes, NEW v \in nodes, NEW i \in Nat, <<v, i>> \in Level(D, s)
      PROVE  \E j \in Nat : <<s, j>> \in Level(D, v) /\ j <= i
  <2> DEFINE M == {b \in nodes \X Nat : <<s, b[2]>> \in Level(D, b[1])}
             L == Level(D, s)
  <2>1. \E b \in M : b[1] = s /\ b[2] <= 0
    <3>1. (<<s, 0>>)[1] = s /\ (<<s, 0>>)[2] = 0 /\ <<s, 0>> \in nodes \X Nat
      OBVIOUS
    <3>2. <<s, 0>> \in M
      BY <1>1, <3>1
    <3> HIDE DEF M
    <3>3. QED
      BY <3>1, <3>2
  <2>2. ASSUME NEW b \in M, NEW x \in nodes, Adjacent(b[1], x, edges)
        PROVE  \E c \in M : c[1] = x /\ c[2] <= b[2] + 1
    <3>1. b[1] \in nodes /\ b[2] \in Nat /\ <<s, b[2]>> \in Level(D, b[1])
      OBVIOUS
    <3>2. PICK j \in Nat : <<s, j>> \in Level(D, x) /\ j <= b[2] + 1
      BY <1>3, <2>2, <3>1
    <3>3. (<<x, j>>)[1] = x /\ (<<x, j>>)[2] = j /\ <<x, j>> \in nodes \X Nat
      OBVIOUS
    <3>4. <<x, j>> \in M
      BY <3>2, <3>3
    <3> HIDE DEF M
    <3>5. QED
      BY <3>2, <3>3, <3>4
  <2>3. M \subseteq nodes \X Nat /\ \A b \in M : <<s, b[2]>> \in Level(D, b[1]) /\ b[2] \in Nat
    OBVIOUS
  <2>4. L \subseteq nodes \X Nat /\ AreDistances(L, s, nodes, edges) /\ <<v, i>> \in L
    BY <1>1, <1>4
  <2> HIDE DEF M, L
  <2>5. \A a \in L : \E b \in M : b[1] = a[1] /\ b[2] <= a[2] + 0
    BY <2>1, <2>2, <2>3, <2>4, Shortest
  <2>6. (<<v, i>>)[1] = v /\ (<<v, i>>)[2] + 0 = i
    OBVIOUS
  <2>7. PICK b \in M : b[1] = v /\ b[2] <= i
    BY <2>4, <2>5, <2>6
  <2>8. QED
    BY <2>3, <2>7
<1> DEFINE s == d[1]
           v == d[2]
           i == d[3]
<1>5. /\ s \in nodes /\ v \in nodes /\ i \in Nat /\ i > 0 /\ s # v
      /\ <<v, i>> \in Level(D, s)
  BY TripleLevel
<1> HIDE DEF s, v, i
<1>6. PICK j \in Nat : <<s, j>> \in Level(D, v) /\ j <= i
  BY <1>4, <1>5
<1>7. PICK k \in Nat : <<v, k>> \in Level(D, s) /\ k <= j
  BY <1>4, <1>5, <1>6
<1>8. k = i
  BY <1>5, <1>7, LevelPairs
<1>9. <<s, i>> \in Level(D, v)
  BY <1>5, <1>6, <1>7, <1>8
<1>10. <<v, s, i>> \in D
  BY <1>5, <1>9, LevelPairs
<1>11. QED
  BY <1>10 DEF s, v, i

(* More edges make no path longer.                                         *)
LEMMA NoLonger ==
  ASSUME NEW D, NEW edges, Paths(D, edges), NEW B, NEW more, Paths(B, more),
         edges \subseteq more, NEW d \in D
  PROVE  \E u \in B : u[1] = d[1] /\ u[2] = d[2] /\ u[3] <= d[3]
<1> DEFINE s == d[1]
           v == d[2]
           i == d[3]
<1>1. /\ s \in nodes /\ v \in nodes /\ i \in Nat /\ i > 0 /\ s # v
      /\ <<v, i>> \in Level(D, s)
  BY TripleLevel
<1> HIDE DEF s, v, i
<1> DEFINE L == Level(D, s)
           M == Level(B, s)
<1>2. /\ L \subseteq nodes \X Nat /\ M \subseteq nodes \X Nat /\ <<s, 0>> \in M
      /\ AreDistances(L, s, nodes, edges)
      /\ AreDistances(M, s, nodes, more)
  BY <1>1, LevelPairs DEF Paths
<1>3. \E b \in M : b[1] = s /\ b[2] <= 0
  <2>1. (<<s, 0>>)[1] = s /\ (<<s, 0>>)[2] <= 0
    OBVIOUS
  <2> HIDE DEF M
  <2>2. QED
    BY <1>2, <2>1
<1>4. \A b \in M : \A x \in nodes : Adjacent(b[1], x, edges) =>
        \E c \in M : c[1] = x /\ c[2] <= b[2] + 1
  <2> HIDE DEF M
  <2>1. \A a, b : Adjacent(a, b, edges) => Adjacent(a, b, more)
    BY DEF Adjacent
  <2>2. QED
    BY <1>2, <2>1 DEF AreDistances
<1>5. \A w \in nodes, j \in Nat : w # s => (<<w, j>> \in M <=> <<s, w, j>> \in B)
  BY <1>1, LevelPairs
<1> HIDE DEF L, M
<1>6. \A a \in L : \E b \in M : b[1] = a[1] /\ b[2] <= a[2] + 0
  BY <1>2, <1>3, <1>4, Shortest
<1>7. (<<v, i>>)[1] = v /\ (<<v, i>>)[2] + 0 = i
  BY <1>1
<1>8. PICK b \in M : b[1] = v /\ b[2] <= i
  BY <1>1, <1>6, <1>7 DEF L
<1>9. b = <<v, b[2]>> /\ b[2] \in Nat
  BY <1>2, <1>8
<1>10. <<s, v, b[2]>> \in B
  BY <1>1, <1>5, <1>8, <1>9
<1>11. (<<s, v, b[2]>>)[1] = s /\ (<<s, v, b[2]>>)[2] = v /\ (<<s, v, b[2]>>)[3] = b[2]
  OBVIOUS
<1>12. \E u \in B : u[1] = s /\ u[2] = v /\ u[3] <= i
  BY <1>8, <1>10, <1>11
<1>13. QED
  BY <1>12 DEF s, v, i

LEMMA LargestIs ==
  ASSUME IsFiniteSet(nodes), NEW edges, NEW P, AreComponents(P, nodes, edges)
  PROVE  /\ largest(P) \in Nat
         /\ \A c \in P : Cardinality(c) <= largest(P)
         /\ largest(P) = 0 \/ \E c \in P : largest(P) = Cardinality(c)
<1> DEFINE S == {0} \cup {Cardinality(c) : c \in P}
           m == Cardinality(nodes)
<1>1. \A c \in P : c \subseteq nodes /\ Cardinality(c) \in Nat
  BY ComponentSets
<1>2. m \in Nat
  BY FS_CardinalityType
<1>3. \A c \in P : Cardinality(c) <= m
  BY <1>1, FS_Subset
<1> HIDE DEF m
<1>4. S \subseteq 0 .. m /\ S # {}
  BY <1>1, <1>2, <1>3
<1>5. largest(P) = Max(S)
  BY DEF largest
<1>6. \A c \in P : Cardinality(c) \in S
  OBVIOUS
<1>7. \A x \in S : x = 0 \/ \E c \in P : x = Cardinality(c)
  OBVIOUS
<1> HIDE DEF S
<1>8. Max(S) \in S /\ \A y \in S : y <= Max(S)
  BY <1>2, <1>4, MaxOfBounded
<1> DEFINE x == Max(S)
<1>9. x \in 0 .. m /\ (\A c \in P : Cardinality(c) <= x)
      /\ (x = 0 \/ \E c \in P : x = Cardinality(c))
  BY <1>4, <1>6, <1>7, <1>8
<1> HIDE DEF x
<1>10. x \in Nat
  BY <1>2, <1>9
<1>11. QED
  BY <1>5, <1>9, <1>10 DEF x

(* As many distances as ordered pairs inside a component.                  *)
LEMMA PairsCounted ==
  ASSUME NEW D, NEW edges, Paths(D, edges), NEW P, AreComponents(P, nodes, edges)
  PROVE  Cardinality(D) =
           MapThenSumSet(LAMBDA c : Cardinality(c) * (Cardinality(c) - 1), P)
<1> DEFINE home == [n \in nodes |-> CHOOSE c \in P : n \in c]
           key == [d \in D |-> home[d[1]]]
           f == [c \in P |-> Cardinality(c) * (Cardinality(c) - 1)]
<1>1. /\ IsFiniteSet(nodes) /\ IsFiniteSet(P)
      /\ \A c \in P : /\ c \subseteq nodes /\ c # {} /\ IsFiniteSet(c)
                      /\ Cardinality(c) \in Nat
      /\ \A n \in nodes : \E c \in P : n \in c
      /\ \A c, d \in P : \A n \in c : n \in d => c = d
  BY ComponentSets DEF Paths
<1>2. \A n \in nodes : home[n] \in P /\ n \in home[n]
  BY <1>1
<1> HIDE DEF home
<1>3. \A n \in nodes : \A c \in P : home[n] = c <=> n \in c
  BY <1>1, <1>2
<1>4. ASSUME NEW d \in D
      PROVE  /\ d = <<d[1], d[2], d[3]>> /\ d[1] \in nodes /\ d[2] \in nodes
             /\ d[3] \in Nat /\ d[3] > 0 /\ d[1] # d[2]
             /\ <<d[2], d[3]>> \in Level(D, d[1])
  BY TripleLevel
<1>5. ASSUME NEW d \in D, NEW e \in D, d[1] = e[1], d[2] = e[2] PROVE d = e
  <2> DEFINE s == d[1]  v == d[2]  i == d[3]  j == e[3]
  <2>1. /\ s \in nodes /\ v \in nodes /\ i \in Nat /\ j \in Nat
        /\ <<v, i>> \in Level(D, s) /\ <<v, j>> \in Level(D, s)
    BY <1>4, <1>5
  <2>2. d = <<s, v, i>> /\ e = <<s, v, j>>
    BY <1>4, <1>5
  <2> HIDE DEF s, v, i, j
  <2>3. i = j
    BY <2>1, LevelPairs
  <2>4. QED
    BY <2>2, <2>3
<1>6. IsFiniteSet(D)
  <2> DEFINE g == [d \in D |-> <<d[1], d[2]>>]
  <2>1. g \in [D -> nodes \X nodes]
    BY <1>4
  <2>2. \A d, e \in D : g[d] = g[e] => d = e
    <3>1. \A d, e \in D : g[d] = g[e] => d[1] = e[1] /\ d[2] = e[2]
      OBVIOUS
    <3> HIDE DEF g
    <3>2. QED
      BY <1>5, <3>1
  <2> HIDE DEF g
  <2>3. g \in Injection(D, nodes \X nodes)
    BY <2>1, <2>2 DEF Injection, IsInjective
  <2>4. IsFiniteSet(nodes \X nodes)
    BY <1>1, FS_Product
  <2>5. QED
    BY <2>3, <2>4, FS_Injection
<1>7. ASSUME NEW c \in P
      PROVE  f[c] = Cardinality({d \in D : key[d] = c})
  <2> DEFINE F == {d \in D : d[1] \in c}
             source == [d \in F |-> d[1]]
             m == Cardinality(c) - 1
  <2>1. {d \in D : key[d] = c} = F
    <3>1. \A d \in D : key[d] = c <=> d[1] \in c
      BY <1>3, <1>4
    <3> HIDE DEF key
    <3>2. QED
      BY <3>1
  <2>2. c \subseteq nodes /\ IsFiniteSet(c) /\ Cardinality(c) \in Nat /\ m \in Nat
    <3>1. c # {} /\ c \subseteq nodes /\ IsFiniteSet(c) /\ Cardinality(c) \in Nat
      BY <1>1
    <3>2. Cardinality(c) # 0
      BY <3>1, FS_EmptySet
    <3>3. QED
      BY <3>1, <3>2
  <2>3. ASSUME NEW s \in c PROVE Cardinality({d \in F : source[d] = s}) = m
    <3> DEFINE A == {d \in D : d[1] = s}
               B == c \ {s}
               g == [d \in A |-> d[2]]
    <3>1. {d \in F : source[d] = s} = A
      OBVIOUS
    <3>2. s \in nodes /\ IsComponent(c, edges)
      BY <2>2 DEF AreComponents
    <3>3. /\ \A v \in c : \E i \in Nat : <<v, i>> \in Level(D, s)
          /\ \A a \in Level(D, s) : a[1] \in c
      BY <2>2, <3>2, ReachesComponent
    <3>4. ASSUME NEW d \in A PROVE g[d] \in B
      <4>1. d \in D /\ d[1] = s /\ g[d] = d[2]
        OBVIOUS
      <4>2. d[2] # s /\ <<d[2], d[3]>> \in Level(D, s)
        BY <1>4, <4>1
      <4>3. (<<d[2], d[3]>>)[1] = d[2]
        OBVIOUS
      <4>4. d[2] \in c
        BY <3>3, <4>2, <4>3
      <4>5. QED
        BY <4>1, <4>2, <4>4
    <3>5. ASSUME NEW v \in B PROVE \E d \in A : g[d] = v
      <4>1. v \in c /\ v \in nodes /\ v # s
        BY <2>2
      <4>2. PICK i \in Nat : <<v, i>> \in Level(D, s)
        BY <3>3, <4>1
      <4>3. <<s, v, i>> \in D
        BY <3>2, <4>1, <4>2, LevelPairs
      <4>4. (<<s, v, i>>)[1] = s /\ (<<s, v, i>>)[2] = v
        OBVIOUS
      <4>5. <<s, v, i>> \in A /\ g[<<s, v, i>>] = v
        BY <4>3, <4>4
      <4>6. QED
        BY <4>5
    <3>6. ASSUME NEW d \in A, NEW e \in A, g[d] = g[e] PROVE d = e
      <4>1. d \in D /\ e \in D /\ d[1] = e[1] /\ d[2] = e[2]
        BY <3>6
      <4>2. QED
        BY <1>5, <4>1
    <3>7. IsFiniteSet(A)
      BY <1>6, FS_Subset
    <3>8. Cardinality(B) = m
      BY <2>2, FS_RemoveElement
    <3> HIDE DEF A, B, g
    <3>9. Cardinality(B) = Cardinality(A)
      BY <3>4, <3>5, <3>6, <3>7, SameSize
    <3> HIDE DEF F, source
    <3>10. QED
      BY <3>1, <3>8, <3>9
  <2>4. \A d \in F : source[d] \in c
    OBVIOUS
  <2>5. IsFiniteSet(F)
    BY <1>6, FS_Subset
  <2>6. f[c] = Cardinality(c) * m
    OBVIOUS
  <2> HIDE DEF F, source, m, key, f
  <2>7. Cardinality(F) = m * Cardinality(c)
    BY <2>2, <2>3, <2>4, <2>5, EqualFibres
  <2> DEFINE k == Cardinality(c)
  <2>8. k \in Nat /\ Cardinality(F) = m * k /\ f[c] = k * m
    BY <2>2, <2>6, <2>7
  <2> HIDE DEF k
  <2>9. f[c] = Cardinality(F)
    BY <2>2, <2>8
  <2>10. QED
    BY <2>1, <2>9
<1>8. \A d \in D : key[d] \in P
  BY <1>2, <1>4
<1> HIDE DEF key, f
<1>9. SumOver(f, P) = Cardinality(D)
  <2>1. IsFiniteSet(P)
    BY <1>1
  <2>2. QED
    BY <1>6, <1>7, <1>8, <2>1, FibreSum
<1>10. MapThenSumSet(LAMBDA c : Cardinality(c) * (Cardinality(c) - 1), P)
         = SumOver([c \in P |-> Cardinality(c) * (Cardinality(c) - 1)], P)
  BY PairSum
<1>11. QED
  BY <1>9, <1>10, Zenon DEF f

(* A path that is as short as can be has no node twice.                    *)
LEMMA DistanceFits ==
  ASSUME NEW D, NEW edges, Paths(D, edges),
         NEW c, IsComponent(c, edges), c \subseteq nodes,
         NEW d \in D, d[1] \in c
  PROVE  d[3] + 1 <= Cardinality(c)
<1> DEFINE s == d[1]
           v == d[2]
           n == d[3]
<1>1. /\ s \in nodes /\ v \in nodes /\ n \in Nat /\ s \in c
      /\ <<v, n>> \in Level(D, s)
  BY TripleLevel
<1> HIDE DEF s, v, n
<1> DEFINE L == Level(D, s)
           Levels == {a[2] : a \in L}
           Gap == {i \in 0 .. n : i \notin Levels}
<1>2. /\ L \subseteq nodes \X Nat /\ AreDistances(L, s, nodes, edges)
      /\ \A a \in L : a[1] \in c
      /\ <<v, n>> \in L
  BY <1>1, LevelPairs, ReachesComponent DEF Paths
<1>3. IsFiniteSet(c) /\ Cardinality(c) \in Nat
  BY FS_Subset, FS_CardinalityType DEF Paths
<1> HIDE DEF L
<1>4. n \in Levels
  <2>1. (<<v, n>>)[2] = n
    OBVIOUS
  <2>2. QED
    BY <1>2, <2>1
<1>5. Gap = {}
  <2>1. SUFFICES ASSUME Gap # {} PROVE FALSE
    OBVIOUS
  <2>2. Gap \subseteq 0 .. n
    OBVIOUS
  <2>3. Max(Gap) \in Gap /\ \A y \in Gap : y <= Max(Gap)
    <3> HIDE DEF Gap
    <3>1. QED
      BY <1>1, <2>1, <2>2, MaxOfBounded
  <2> DEFINE g == Max(Gap)
  <2>4. g \in Gap /\ \A y \in Gap : y <= g
    BY <2>3
  <2> HIDE DEF g
  <2>5. g \in 0 .. n /\ g \notin Levels
    BY <2>4
  <2>6. g # n
    BY <1>4, <2>5
  <2>7. g + 1 \in 0 .. n /\ g \in Nat
    BY <1>1, <2>5, <2>6
  <2>8. g + 1 \in Levels
    <3>1. ~ (g + 1 <= g)
      BY <2>7
    <3> HIDE DEF Levels
    <3>2. QED
      BY <2>4, <2>7, <3>1
  <2>9. PICK a \in L : a[2] = g + 1
    BY <2>8
  <2>10. a # <<s, 0>>
    <3>1. ASSUME a = <<s, 0>> PROVE FALSE
      <4>1. a[2] = 0
        BY <3>1
      <4>2. QED
        BY <2>7, <2>9, <4>1
    <3>2. QED
      BY <3>1
  <2>11. PICK b \in L : a[2] = b[2] + 1
    BY <1>2, <2>10 DEF AreDistances
  <2>12. b[2] \in Nat
    BY <1>2
  <2>13. b[2] = g
    BY <2>7, <2>9, <2>11, <2>12
  <2>14. QED
    BY <2>5, <2>13
<1> DEFINE at_ == [i \in 0 .. n |-> CHOOSE a \in L : a[2] = i]
           node == [i \in 0 .. n |-> at_[i][1]]
<1>6. ASSUME NEW i \in 0 .. n PROVE at_[i] \in L /\ at_[i][2] = i
  <2>1. \E a \in L : a[2] = i
    BY <1>5
  <2>2. QED
    BY <2>1
<1> HIDE DEF at_
<1>7. node \in [0 .. n -> c]
  BY <1>2, <1>6
<1>8. ASSUME NEW i \in 0 .. n, NEW j \in 0 .. n, node[i] = node[j] PROVE i = j
  <2>1. at_[i][1] = at_[j][1]
    BY <1>8
  <2>2. at_[i] = at_[j]
    BY <1>2, <1>6, <2>1 DEF AreDistances
  <2>3. QED
    BY <1>6, <2>2
<1> HIDE DEF node
<1>9. node \in Injection(0 .. n, c)
  BY <1>7, <1>8 DEF Injection, IsInjective
<1>10. Cardinality(0 .. n) <= Cardinality(c)
  BY <1>3, <1>9, FS_Injection
<1>11. Cardinality(0 .. n) = n + 1
  <2>1. 0 \in Int /\ n \in Int /\ ~ (0 > n)
    BY <1>1
  <2>2. Cardinality(0 .. n) = IF 0 > n THEN 0 ELSE n - 0 + 1
    BY <2>1, FS_Interval
  <2>3. QED
    BY <1>1, <2>1, <2>2
<1>12. n + 1 <= Cardinality(c)
  BY <1>10, <1>11
<1>13. QED
  BY <1>12 DEF n

LEMMA DiameterFits ==
  ASSUME NEW D, NEW edges, Paths(D, edges), NEW P, AreComponents(P, nodes, edges)
  PROVE  diameter(D) < Max({1, largest(P)})
<1> DEFINE m == largest(P)
           S == {0} \cup {d[3] : d \in D}
           T == {1, m}
<1>1. m \in Nat /\ \A c \in P : Cardinality(c) <= m
  BY LargestIs DEF Paths
<1>2. ASSUME NEW d \in D PROVE d[3] \in Nat /\ d[3] + 1 <= m
  <2>1. d[1] \in nodes /\ d[3] \in Nat
    BY TripleLevel
  <2>2. PICK c \in P : /\ d[1] \in c /\ c \subseteq nodes /\ IsComponent(c, edges)
                       /\ Cardinality(c) \in Nat
    BY <2>1, ComponentSets DEF AreComponents, Paths
  <2>3. d[3] + 1 <= Cardinality(c)
    BY <2>2, DistanceFits
  <2> HIDE DEF m
  <2>4. QED
    BY <1>1, <2>1, <2>2, <2>3
<1> HIDE DEF m
<1>3. S \subseteq 0 .. m /\ S # {} /\ \A x \in S : x = 0 \/ x + 1 <= m
  BY <1>1, <1>2
<1>4. T \subseteq 0 .. m + 1 /\ T # {} /\ m + 1 \in Nat /\ 1 \in T /\ m \in T
  BY <1>1
<1>5. diameter(D) = Max(S)
  BY DEF diameter
<1>6. Max(T) \in T /\ 1 <= Max(T) /\ m <= Max(T)
  <2> HIDE DEF T
  <2>1. QED
    BY <1>4, MaxOfBounded
<1> HIDE DEF S
<1>7. Max(S) \in S
  BY <1>1, <1>3, MaxOfBounded
<1> DEFINE x == Max(S)
           y == Max(T)
<1>8. /\ x \in 0 .. m /\ (x = 0 \/ x + 1 <= m)
      /\ y \in 0 .. m + 1 /\ 1 <= y /\ m <= y
  BY <1>3, <1>4, <1>6, <1>7
<1> HIDE DEF x, y
<1>9. x < y
  BY <1>1, <1>8
<1>10. QED
  BY <1>5, <1>9 DEF x, y, T, m

-----------------------------------------------------------------------------
(* Every row.                                                              *)
LEMMA MoreEdges ==
  ASSUME NEW A, NEW B, A \subseteq B
  PROVE  directed_to_undirected(A) \subseteq directed_to_undirected(B)
BY DEF directed_to_undirected

(* Distances count from one, snapshots have no self edges.                 *)
PathsPositive ==
  /\ \A d \in distances : d[3] > 0
  /\ \A k \in 1 .. Len(results) : \A d \in results[k].distances : d[3] > 0
  /\ \A k \in DOMAIN snapshots : \A e \in snapshots[k] : e[1] # e[2]

LEMMA PositiveInvariant == ASSUME Loopless PROVE Spec => []PathsPositive
<1>1. Init => PathsPositive
  <2> SUFFICES ASSUME Init PROVE PathsPositive
    OBVIOUS
  <2>1. PICK input \in Inputs : snapshots = input.snapshots
    BY DEF Init
  <2>2. distances = {} /\ 1 .. Len(results) = {}
    BY DEF Init
  <2>3. QED
    BY <2>1, <2>2 DEF Loopless, PathsPositive
<1>2. TypeOK /\ PathsPositive /\ [Next]_vars => PathsPositive'
  <2> SUFFICES ASSUME TypeOK, PathsPositive, [Next]_vars PROVE PathsPositive'
    OBVIOUS
  <2>1. CASE CloseRow
    <3>1. /\ Len(results') = Len(results) + 1 /\ Len(results) \in Nat
          /\ \A k \in 1 .. Len(results) : results'[k] = results[k]
          /\ results'[Len(results) + 1].distances = distances
      BY <2>1, NewRow
    <3>2. distances' = {} /\ snapshots' = snapshots
      BY <2>1 DEF CloseRow, inputVars
    <3>3. ASSUME NEW k \in 1 .. Len(results')
          PROVE  \A d \in results'[k].distances : d[3] > 0
      <4>1. k \in 1 .. Len(results) \/ k = Len(results) + 1
        BY <3>1
      <4>2. QED
        BY <3>1, <4>1 DEF PathsPositive
    <3>4. QED
      BY <3>2, <3>3 DEF PathsPositive
  <2>2. CASE Reach
    <3>1. PICK neighbor \in nodes :
            distances' = distances \cup
              {<<frontier[1][1], neighbor, frontier[at][2] + 1>>}
      BY <2>2, AdjacencyNodes DEF Reach
    <3>2. at \in DOMAIN frontier /\ frontier[at][2] \in Nat
      <4>1. at \in DOMAIN frontier
        BY <2>2 DEF Reach, TypeOK
      <4>2. frontier[at] \in nodes \X Nat
        BY <4>1 DEF TypeOK
      <4>3. QED
        BY <4>1, <4>2
    <3> DEFINE t == <<frontier[1][1], neighbor, frontier[at][2] + 1>>
    <3>3. t[3] > 0
      BY <3>2
    <3> HIDE DEF t
    <3>4. \A d \in distances' : d[3] > 0
      <4>1. distances' = distances \cup {t}
        BY <3>1 DEF t
      <4>2. QED
        BY <3>3, <4>1 DEF PathsPositive
    <3>5. UNCHANGED <<snapshots, results>>
      BY <2>2 DEF Reach, inputVars
    <3>6. QED
      BY <3>4, <3>5 DEF PathsPositive
  <2>3. CASE ~ CloseRow /\ ~ Reach
    <3>1. UNCHANGED <<snapshots, results, distances>>
      BY <2>3 DEF Next, StartComponent, Visit, EndComponent, StopComponents,
         StartSource, Advance, EndSource, inputVars, bfsVars, vars
    <3>2. QED
      BY <3>1 DEF PathsPositive
  <2>4. QED
    BY <2>1, <2>2, <2>3
<1>3. QED
  BY <1>1, <1>2, TypeCorrect, PTL DEF Spec

AllKnown == TypeOK /\ AllRows /\ PathsPositive /\ ComponentsRight /\ DistancesShortest

(* What the invariants say of one row.                                     *)
LEMMA RowKnown ==
  ASSUME AllKnown, pc = "done", NEW k \in DOMAIN results
  PROVE  /\ SimpleGraph(Graph(k))
         /\ directed_to_undirected(Graph(k)) \subseteq nodes \X nodes
         /\ AreComponents(results[k].components, nodes,
                          directed_to_undirected(Graph(k)))
         /\ Cardinality(nodes) <= MaxPathNodes =>
              Paths(results[k].distances, directed_to_undirected(Graph(k)))
<1> USE DEF AllKnown
<1>1. nodes \subseteq Nat /\ IsFiniteSet(nodes)
  BY DEF TypeOK, AllRows
<1>2. k \in 1 .. Len(results) /\ results[k] \in Result
  BY DEF TypeOK
<1>3. Graph(k) \subseteq nodes \X nodes /\ \A e \in Graph(k) : e[1] # e[2]
  BY DEF Graph, TypeOK, PathsPositive
<1>4. SimpleGraph(Graph(k))
  BY <1>1, <1>3 DEF SimpleGraph
<1>5. directed_to_undirected(Graph(k)) \subseteq nodes \X nodes
  BY <1>4, UndirectedPairs
<1>6. AreComponents(results[k].components, nodes, directed_to_undirected(Graph(k)))
  BY <1>2 DEF ComponentsRight
<1>7. ASSUME Cardinality(nodes) <= MaxPathNodes
      PROVE  Paths(results[k].distances, directed_to_undirected(Graph(k)))
  <2>1. ~ TooLarge
    <3>1. Cardinality(nodes) \in Nat /\ MaxPathNodes \in Nat
      BY <1>1, FS_CardinalityType, SearchAssumption
    <3>2. QED
      BY <1>7, <3>1 DEF TooLarge
  <2>2. \A s \in nodes : AreDistances(Level(results[k].distances, s), s, nodes,
                                      directed_to_undirected(Graph(k)))
    BY <1>2, <2>1 DEF DistancesShortest
  <2>3. results[k].distances \subseteq nodes \X nodes \X Nat
    BY <1>2 DEF Result
  <2>4. \A d \in results[k].distances : d[3] > 0
    BY <1>2 DEF PathsPositive
  <2>5. QED
    BY <1>1, <1>5, <2>2, <2>3, <2>4 DEF Paths
<1>8. QED
  BY <1>4, <1>5, <1>6, <1>7

LEMMA LastRowIsUnion ==
  ASSUME AllKnown, pc = "done"
  PROVE  /\ Len(results) = Len(snapshots) + 1 /\ Len(snapshots) \in Nat
         /\ Len(results) \in DOMAIN results /\ Len(snapshots) \in DOMAIN results
         /\ \A k \in DOMAIN results : Graph(k) \subseteq Graph(Len(results))
<1> USE DEF AllKnown
<1>1. /\ Len(results) = Len(snapshots) + 1 /\ Len(snapshots) \in Nat
      /\ DOMAIN results = 1 .. Len(results) /\ DOMAIN snapshots = 1 .. Len(snapshots)
  BY DEF AllRows, TypeOK
<1>2. Len(snapshots) # 0
  <2>1. snapshots # <<>> /\ snapshots \in Seq(SUBSET (nodes \X nodes))
    BY DEF AllRows, TypeOK
  <2>2. QED
    BY <2>1
<1>3. Len(results) \notin DOMAIN snapshots
  BY <1>1
<1>4. \A k \in DOMAIN results : Graph(k) \subseteq Graph(Len(results))
  BY <1>3 DEF Graph
<1>5. QED
  BY <1>1, <1>2, <1>4

(* The union has fewer components, and they are larger.                    *)
LEMMA UnionJoins ==
  ASSUME IsFiniteSet(nodes), NEW edges, NEW more, edges \subseteq more,
         NEW P, AreComponents(P, nodes, edges),
         NEW Q, AreComponents(Q, nodes, more)
  PROVE  /\ \A c \in P : \E d \in Q : c \subseteq d
         /\ Cardinality(P) \in Nat /\ Cardinality(Q) <= Cardinality(P)
         /\ largest(P) <= largest(Q)
<1>1. /\ IsFiniteSet(P) /\ \A n \in nodes : \E c \in P : n \in c
      /\ \A c \in P : /\ c \subseteq nodes /\ c # {} /\ IsFiniteSet(c)
                      /\ Cardinality(c) \in Nat
  BY ComponentSets
<1>2. /\ \A n \in nodes : \E d \in Q : n \in d
      /\ \A c \in Q : /\ c \subseteq nodes /\ c # {} /\ IsFiniteSet(c)
                      /\ Cardinality(c) \in Nat
      /\ \A c, d \in Q : \A n \in c : n \in d => c = d
  BY ComponentSets
<1>3. ASSUME NEW c \in P PROVE \E d \in Q : c \subseteq d
  <2>1. PICK n \in c : n \in nodes
    BY <1>1
  <2>2. PICK d \in Q : n \in d
    BY <1>2, <2>1
  <2>3. Closed(d, more)
    BY DEF AreComponents, IsComponent
  <2>4. IsComponent(c, edges)
    BY DEF AreComponents
  <2>5. Closed(c \cap d, edges)
    BY <2>3, <2>4 DEF Closed, IsComponent
  <2>6. c \cap d = c
    BY <2>1, <2>2, <2>4, <2>5 DEF IsComponent
  <2>7. QED
    BY <2>6
<1> DEFINE into == [c \in P |-> CHOOSE d \in Q : c \subseteq d]
<1>4. \A c \in P : into[c] \in Q /\ c \subseteq into[c]
  BY <1>3
<1>5. into \in [P -> Q]
  BY <1>4
<1> HIDE DEF into
<1>6. ASSUME NEW d \in Q PROVE \E c \in P : into[c] = d
  <2>1. PICK n \in d : n \in nodes
    BY <1>2
  <2>2. PICK c \in P : n \in c
    BY <1>1, <2>1
  <2>3. n \in into[c] /\ into[c] \in Q
    BY <1>4, <2>2
  <2>4. QED
    BY <1>2, <2>1, <2>2, <2>3
<1>7. into \in Surjection(P, Q)
  BY <1>5, <1>6 DEF Surjection
<1>8. Cardinality(P) \in Nat /\ Cardinality(Q) <= Cardinality(P)
  BY <1>1, <1>7, FS_Surjection, FS_CardinalityType
<1>9. largest(P) <= largest(Q)
  <2>1. /\ largest(P) \in Nat
        /\ largest(P) = 0 \/ \E c \in P : largest(P) = Cardinality(c)
    BY LargestIs
  <2>2. largest(Q) \in Nat /\ \A d \in Q : Cardinality(d) <= largest(Q)
    BY LargestIs
  <2>3. \A c \in P : Cardinality(c) <= largest(Q)
    <3> TAKE c \in P
    <3>1. PICK d \in Q : c \subseteq d
      BY <1>3
    <3>2. Cardinality(c) <= Cardinality(d) /\ Cardinality(d) \in Nat
          /\ Cardinality(c) \in Nat
      BY <1>1, <1>2, <3>1, FS_Subset
    <3>3. QED
      BY <2>2, <3>2
  <2>4. QED
    BY <2>1, <2>2, <2>3
<1>10. QED
  BY <1>3, <1>8, <1>9

LEMMA SummaryHolds == ASSUME AllKnown, pc = "done" PROVE SummaryConsistent
<1> DEFINE K == Len(snapshots)
           L == Len(snapshots) + 1
           E == Graph(K)
           F == Graph(L)
           U == directed_to_undirected(E)
           V == directed_to_undirected(F)
           P == results[K].components
           Q == results[L].components
<1>1. K \in DOMAIN results /\ L \in DOMAIN results /\ E \subseteq F
  BY LastRowIsUnion
<1>2. SimpleGraph(E) /\ AreComponents(P, nodes, U)
  BY <1>1, RowKnown
<1>3. SimpleGraph(F) /\ AreComponents(Q, nodes, V)
  BY <1>1, RowKnown
<1>4. U \subseteq V
  BY <1>1, MoreEdges
<1>5. /\ summary_metrics.final.component_count = Cardinality(P)
      /\ summary_metrics.union.component_count = Cardinality(Q)
      /\ summary_metrics.final.largest_component_size = largest(P)
      /\ summary_metrics.union.largest_component_size = largest(Q)
      /\ summary_metrics.final.undirected_edge_count = Cardinality(U)
      /\ summary_metrics.union.undirected_edge_count = Cardinality(V)
  BY DEF summary_metrics, GlobalRow
<1>6. IsFiniteSet(nodes) /\ IsFiniteSet(V)
  BY <1>3, UndirectedPairs DEF SimpleGraph
<1> HIDE DEF K, L, E, F, U, V, P, Q
<1>7. Cardinality(U) <= Cardinality(V)
  BY <1>4, <1>6, FS_Subset
<1>8. /\ Cardinality(Q) <= Cardinality(P) /\ Cardinality(P) \in Nat
      /\ largest(P) <= largest(Q)
  BY <1>2, <1>3, <1>4, <1>6, UnionJoins
<1>9. Cardinality(Q) \in Nat
  BY <1>3, <1>6, ComponentSets, FS_CardinalityType
<1>10. QED
  BY <1>5, <1>7, <1>8, <1>9 DEF SummaryConsistent

(* The rows of the metrics, the distances and the components fit together  *)
(* in every graph without self edges: degrees add up to the edges, each    *)
(* triangle is counted three times, percentiles are in order, there are    *)
(* edges enough for the components, as many distances as ordered pairs     *)
(* inside a component, symmetric, shorter than the largest one; the union  *)
(* joins components and lengthens no path.                                 *)
THEOREM RowsAgree == ASSUME Loopless PROVE Spec => []RowsConsistent
<1>1. AllKnown => RowsConsistent
  <2> SUFFICES ASSUME AllKnown, pc = "done", NEW k \in DOMAIN results
               PROVE
    LET row   == GlobalRow(k)
        union == results[Len(results)]
        n     == Cardinality(nodes)
    IN  /\ DegreesConsistent(Graph(k))
        /\ row.undirected_edge_count >= n - row.component_count
        /\ row.density_directed[1] <= row.density_undirected[1]
        /\ row.density_undirected[1] <= row.density_undirected[2]
        /\ \A c \in results[k].components :
             \E d \in union.components : c \subseteq d
        /\ n <= MaxPathNodes =>
             /\ row.avg_shortest_path[2] =
                  MapThenSumSet(LAMBDA c : Cardinality(c) * (Cardinality(c) - 1),
                                results[k].components)
             /\ \A d \in results[k].distances :
                  <<d[2], d[1], d[3]>> \in results[k].distances
             /\ row.diameter < Max({1, row.largest_component_size})
             /\ \A d \in results[k].distances : \E u \in union.distances :
                  u[1] = d[1] /\ u[2] = d[2] /\ u[3] <= d[3]
    BY SummaryHolds, Zenon DEF RowsConsistent
  <2> DEFINE E == Graph(k)
             U == directed_to_undirected(E)
             V == directed_to_undirected(Graph(Len(results)))
             P == results[k].components
             D == results[k].distances
             Q == results[Len(results)].components
             B == results[Len(results)].distances
             n == Cardinality(nodes)
             row == GlobalRow(k)
  <2>1. /\ row.undirected_edge_count = Cardinality(U)
        /\ row.component_count = Cardinality(P)
        /\ row.density_directed = density(n, Cardinality(E), TRUE)
        /\ row.density_undirected = density(n, Cardinality(U), FALSE)
        /\ row.avg_shortest_path[2] = Cardinality(D)
        /\ row.diameter = diameter(D)
        /\ row.largest_component_size = largest(P)
    BY DEF GlobalRow, avg_shortest_path
  <2>2. /\ SimpleGraph(E) /\ U \subseteq nodes \X nodes
        /\ AreComponents(P, nodes, U)
        /\ n <= MaxPathNodes => Paths(D, U)
    BY RowKnown
  <2>3. Len(results) \in DOMAIN results /\ E \subseteq Graph(Len(results))
    BY LastRowIsUnion
  <2>4. /\ AreComponents(Q, nodes, V)
        /\ n <= MaxPathNodes => Paths(B, V)
    BY <2>3, RowKnown
  <2>5. U \subseteq V
    BY <2>3, MoreEdges
  <2>6. IsFiniteSet(nodes)
    BY <2>2 DEF SimpleGraph
  <2> HIDE DEF E, U, V, P, D, Q, B, n, row
  <2>7. DegreesConsistent(E)
    BY <2>2, DegreesHold
  <2>8. Cardinality(U) >= n - Cardinality(P)
    BY <2>2, <2>6, EnoughEdges DEF n
  <2>9. DensitiesFit(n, Cardinality(E), Cardinality(U))
    BY <2>2, Densities DEF n, U
  <2>10. \A c \in P : \E d \in Q : c \subseteq d
    BY <2>2, <2>4, <2>5, <2>6, UnionJoins
  <2>11. ASSUME n <= MaxPathNodes
         PROVE  /\ Cardinality(D) =
                     MapThenSumSet(LAMBDA c : Cardinality(c) * (Cardinality(c) - 1), P)
                /\ \A d \in D : <<d[2], d[1], d[3]>> \in D
                /\ diameter(D) < Max({1, largest(P)})
                /\ \A d \in D : \E u \in B : u[1] = d[1] /\ u[2] = d[2] /\ u[3] <= d[3]
    <3>1. Paths(D, U) /\ Paths(B, V) /\ AreComponents(P, nodes, U)
      BY <2>2, <2>4, <2>11
    <3>2. Cardinality(D) =
            MapThenSumSet(LAMBDA c : Cardinality(c) * (Cardinality(c) - 1), P)
      BY <3>1, PairsCounted, Zenon
    <3>3. \A d \in D : <<d[2], d[1], d[3]>> \in D
      BY <3>1, DistancesSymmetric
    <3>4. diameter(D) < Max({1, largest(P)})
      BY <3>1, DiameterFits
    <3>5. \A d \in D : \E u \in B : u[1] = d[1] /\ u[2] = d[2] /\ u[3] <= d[3]
      BY <2>5, <3>1, NoLonger
    <3>6. QED
      BY <3>2, <3>3, <3>4, <3>5, Zenon
  <2>12. QED
    BY <2>1, <2>7, <2>8, <2>9, <2>10, <2>11, Zenon
       DEF DensitiesFit, E, P, D, Q, B, n, row
<1>2. QED
  BY <1>1, TypeCorrect, RowsComplete, PositiveInvariant, SearchFindsComponents,
     SearchFindsDistances, PTL DEF AllKnown
=============================================================================
