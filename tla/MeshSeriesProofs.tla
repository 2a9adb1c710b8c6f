-------------------------- MODULE MeshSeriesProofs --------------------------
(***************************************************************************)
(* The second half of the pipeline gets back what the first half has       *)
(* written, and the series of churn and of control messages fit together,  *)
(* for any number of nodes, events and snapshots.                          *)
(***************************************************************************)
EXTENDS MeshSeries, TraceSnapshotsProofs, FiniteSetTheorems

-----------------------------------------------------------------------------
(* Sorting.                                                                *)
LEMMA LeastNumber ==
  ASSUME NEW S, S \subseteq Nat, S # {}
  PROVE  \E x \in S : \A y \in S : x <= y
<1> DEFINE R == {ss \in Nat \X Nat : ss[1] < ss[2]}
<1>1. IsWellFoundedOn(R, Nat)
  BY NatLessThanWellFounded, Zenon DEF OpToRel
<1>2. PICK x \in S : \A y \in S : ~ (<<y, x>> \in R)
  <2> HIDE DEF R
  <2>1. QED
    BY <1>1, WFMin
<1>3. ASSUME NEW y \in S PROVE x <= y
  <2>1. x \in Nat /\ y \in Nat /\ <<y, x>> \notin R
    BY <1>2
  <2>2. <<y, x>> \in R <=> <<y, x>>[1] < <<y, x>>[2]
    BY <2>1, Zenon
  <2>3. QED
    BY <2>1, <2>2
<1>4. QED
  BY <1>3

(* The numbers 1 to n in their order.                                      *)
LEMMA SortedNumbers ==
  ASSUME NEW n \in Nat
  PROVE  sorted(1 .. n) = [i \in 1 .. n |-> i]
<1> DEFINE s == sorted(1 .. n)
<1>1. IsFiniteSet(1 .. n) /\ Cardinality(1 .. n) = n
  BY FS_Interval
<1>2. /\ s \in [1 .. n -> 1 .. n]
      /\ \A i, j \in 1 .. n : i < j => s[i] < s[j]
  <2> DEFINE id == [i \in 1 .. n |-> i]
  <2>1. id \in [1 .. n -> 1 .. n] /\ \A i, j \in DOMAIN id : i < j => id[i] < id[j]
    OBVIOUS
  <2> HIDE DEF id
  <2>2. /\ s \in [1 .. n -> 1 .. n]
        /\ \A i, j \in DOMAIN s : i < j => s[i] < s[j]
    BY <1>1, <2>1 DEF sorted
  <2>3. QED
    BY <2>2
<1> HIDE DEF s
<1>3. \A i, j \in 1 .. n : s[i] = s[j] => i = j
  BY <1>2
<1>4. \A k \in 1 .. n : \E i \in 1 .. n : s[i] = k
  <2>1. s \in Injection(1 .. n, 1 .. n)
    BY <1>2, <1>3 DEF Injection, IsInjective
  <2>2. s \in Surjection(1 .. n, 1 .. n)
    BY <1>1, <2>1, FS_Injection
  <2>3. QED
    BY <2>2 DEF Surjection
<1>5. \A i \in 1 .. n : s[i] = i
  <2> SUFFICES ASSUME {i \in 1 .. n : s[i] # i} # {} PROVE FALSE
    OBVIOUS
  <2>1. PICK i \in 1 .. n : s[i] # i /\ \A j \in 1 .. n : s[j] # j => i <= j
    <3> DEFINE S == {i \in 1 .. n : s[i] # i}
    <3>1. S \subseteq Nat /\ S # {}
      OBVIOUS
    <3>2. PICK i \in S : \A j \in S : i <= j
      BY <3>1, LeastNumber
    <3>3. QED
      BY <3>2
  <2>2. i < s[i]
    <3>1. s[i] \in 1 .. n
      BY <1>2
    <3>2. ~ (s[i] < i)
      BY <1>3, <2>1, <3>1
    <3>3. QED
      BY <2>1, <3>1, <3>2
  <2>3. PICK k \in 1 .. n : s[k] = i
    BY <1>4
  <2>4. ~ (k < i)
    BY <2>1, <2>3
  <2>5. i < k
    BY <2>1, <2>3, <2>4
  <2>6. s[i] < i
    BY <1>2, <2>3, <2>5
  <2>7. QED
    BY <1>2, <2>2, <2>6
<1>6. QED
  BY <1>2, <1>5 DEF s

-----------------------------------------------------------------------------
(* Names.                                                                  *)
LEMMA NamesDiffer == \A p, q : alias(p) = alias(q) => p = q
BY DEF alias

LEMMA NamedEdges ==
  ASSUME NEW A, NEW B, A \subseteq Peers \X Peers, B \subseteq Peers \X Peers
  PROVE  Named(A) \ Named(B) = Named(A \ B)
<1>1. ASSUME NEW e \in Peers \X Peers, NEW f \in Peers \X Peers,
             <<alias(e[1]), alias(e[2])>> = <<alias(f[1]), alias(f[2])>>
      PROVE  e = f
  <2>1. alias(e[1]) = alias(f[1]) /\ alias(e[2]) = alias(f[2])
    BY <1>1
  <2>2. e[1] = f[1] /\ e[2] = f[2]
    BY <2>1, NamesDiffer
  <2>3. QED
    BY <2>2
<1>2. ASSUME NEW C, C \subseteq Peers \X Peers, NEW e \in Peers \X Peers
      PROVE  <<alias(e[1]), alias(e[2])>> \in Named(C) <=> e \in C
  BY <1>1, <1>2 DEF Named
<1>3. \A C : \A r : r \in Named(C) <=> \E e \in C : r = <<alias(e[1]), alias(e[2])>>
  BY DEF Named
<1>4. ASSUME NEW r \in Named(A) \ Named(B) PROVE r \in Named(A \ B)
  BY <1>3, <1>4
<1>5. ASSUME NEW r \in Named(A \ B) PROVE r \in Named(A) \ Named(B)
  <2>1. PICK e \in A \ B : r = <<alias(e[1]), alias(e[2])>>
    BY <1>3
  <2>2. QED
    BY <1>2, <1>3, <2>1
<1>6. QED
  BY <1>4, <1>5

LEMMA NamedCount ==
  ASSUME NEW A, A \subseteq Peers \X Peers
  PROVE  /\ IsFiniteSet(A) /\ IsFiniteSet(Named(A))
         /\ Cardinality(Named(A)) = Cardinality(A) /\ Cardinality(A) \in Nat
<1>1. IsFiniteSet(Peers \X Peers)
  BY TraceAssumption, FS_Product
<1>2. IsFiniteSet(A)
  BY <1>1, FS_Subset
<1> DEFINE f == [e \in A |-> <<alias(e[1]), alias(e[2])>>]
<1>3. f \in [A -> Named(A)]
  BY DEF Named
<1>4. \A r \in Named(A) : \E e \in A : f[e] = r
  BY DEF Named
<1>5. ASSUME NEW e \in A, NEW g \in A, f[e] = f[g] PROVE e = g
  <2>1. alias(e[1]) = alias(g[1]) /\ alias(e[2]) = alias(g[2])
    BY <1>5
  <2>2. e[1] = g[1] /\ e[2] = g[2]
    BY <2>1, NamesDiffer
  <2>3. e \in Peers \X Peers /\ g \in Peers \X Peers
    OBVIOUS
  <2>4. QED
    BY <2>2, <2>3
<1> HIDE DEF f
<1>6. f \in Bijection(A, Named(A))
  BY <1>3, <1>4, <1>5 DEF Bijection, Injection, IsInjective, Surjection
<1>7. QED
  BY <1>2, <1>6, FS_Bijection, FS_CardinalityType DEF ExistsBijection

-----------------------------------------------------------------------------
(* The row of snapshot k itself, and what reading makes of it.             *)
Marker(k) ==
  [timestamp |-> Snapshot(k), heartbeat_index |-> k,
   snapshot_kind |-> "heartbeat_marker", edge |-> <<>>,
   mesh_size |-> Cardinality(snapshots[k])]

ReadSnapshot(k) ==
  [timestamp |-> Snapshot(k), heartbeat_index |-> k, edges |-> Named(snapshots[k])]

RowsOf(k) == {row \in SnapshotRows : row.heartbeat_index = k}

LEMMA RowsKnown ==
  \A row : row \in SnapshotRows <=>
    \E j \in DOMAIN snapshots : row \in EdgeRows(j) \/ row = Marker(j)
<1>1. SnapshotRows = (UNION {EdgeRows(j) : j \in DOMAIN snapshots})
                       \cup {Marker(j) : j \in DOMAIN snapshots}
  BY Zenon DEF SnapshotRows, Marker
<1> HIDE DEF SnapshotRows, Marker
<1>2. QED
  BY <1>1

LEMMA RowNumbers ==
  /\ \A j, row : row \in EdgeRows(j) => row.heartbeat_index = j
  /\ \A j : Marker(j).heartbeat_index = j
BY DEF EdgeRows, Marker

LEMMA RowsBySnapshot ==
  ASSUME NEW k \in DOMAIN snapshots
  PROVE  RowsOf(k) = EdgeRows(k) \cup {Marker(k)}
BY RowsKnown, RowNumbers DEF RowsOf

(* A snapshot has at least one row, all with its time, and those of its    *)
(* edges are told by their kind.                                           *)
LEMMA RowsRead ==
  ASSUME NEW k \in DOMAIN snapshots
  PROVE  /\ (CHOOSE row \in RowsOf(k) : TRUE).timestamp = Snapshot(k)
         /\ {row.edge : row \in {r \in RowsOf(k) : r.snapshot_kind = "mesh_edge"}}
              = Named(snapshots[k])
<1>1. RowsOf(k) = EdgeRows(k) \cup {Marker(k)}
  BY RowsBySnapshot
<1>2. \A row \in EdgeRows(k) :
        row.timestamp = Snapshot(k) /\ row.snapshot_kind = "mesh_edge"
  BY DEF EdgeRows
<1>3. Marker(k).timestamp = Snapshot(k) /\ Marker(k).snapshot_kind # "mesh_edge"
  BY DEF Marker
<1>4. (CHOOSE row \in RowsOf(k) : TRUE).timestamp = Snapshot(k)
  <2>1. RowsOf(k) # {} /\ \A row \in RowsOf(k) : row.timestamp = Snapshot(k)
    BY <1>1, <1>2, <1>3
  <2>2. (CHOOSE row \in RowsOf(k) : TRUE) \in RowsOf(k)
    BY <2>1, Zenon
  <2>3. QED
    BY <2>1, <2>2, Zenon
<1>5. {r \in RowsOf(k) : r.snapshot_kind = "mesh_edge"} = EdgeRows(k)
  BY <1>1, <1>2, <1>3
<1>6. {row.edge : row \in EdgeRows(k)} = Named(snapshots[k])
  <2> DEFINE row(e) ==
        [timestamp |-> Snapshot(k), heartbeat_index |-> k,
         snapshot_kind |-> "mesh_edge", edge |-> <<alias(e[1]), alias(e[2])>>,
         mesh_size |-> out_degree(e[1], snapshots[k])]
  <2>1. EdgeRows(k) = {row(e) : e \in snapshots[k]}
    BY DEF EdgeRows
  <2>2. \A e : row(e).edge = <<alias(e[1]), alias(e[2])>>
    OBVIOUS
  <2> HIDE DEF row
  <2>3. QED
    BY <2>1, <2>2 DEF Named
<1>7. QED
  BY <1>4, <1>5, <1>6

LEMMA ReadBack ==
  ASSUME NEW n \in Nat, DOMAIN snapshots = 1 .. n
  PROVE  Pipeline = [i \in 1 .. n |-> ReadSnapshot(i)]
<1>1. {row.heartbeat_index : row \in SnapshotRows} = 1 .. n
  <2>1. \A k \in 1 .. n : \A row \in RowsOf(k) :
          row \in SnapshotRows /\ row.heartbeat_index = k
    BY DEF RowsOf
  <2>2. \A k \in 1 .. n : \E row \in RowsOf(k) : TRUE
    BY RowsBySnapshot
  <2>3. \A row \in SnapshotRows : row.heartbeat_index \in 1 .. n
    <3>1. \A row \in SnapshotRows :
            \E j \in 1 .. n : row \in EdgeRows(j) \/ row = Marker(j)
      BY RowsKnown
    <3>2. QED
      BY <3>1, RowNumbers
  <2> HIDE DEF SnapshotRows
  <2>4. QED
    BY <2>1, <2>2, <2>3
<1>2. sorted({row.heartbeat_index : row \in SnapshotRows}) = [i \in 1 .. n |-> i]
  BY <1>1, SortedNumbers
<1> DEFINE heartbeats == sorted({row.heartbeat_index : row \in SnapshotRows})
           read(h) ==
             [timestamp |-> (CHOOSE row \in RowsOf(h) : TRUE).timestamp,
              heartbeat_index |-> h,
              edges |-> {row.edge : row \in
                {r \in RowsOf(h) : r.snapshot_kind = "mesh_edge"}}]
<1>3. Pipeline = [i \in DOMAIN heartbeats |-> read(heartbeats[i])]
  BY DEF Pipeline, read_snapshots, RowsOf
<1>4. \A k \in 1 .. n : read(k) = ReadSnapshot(k)
  BY RowsRead DEF ReadSnapshot
<1>5. DOMAIN heartbeats = 1 .. n /\ \A i \in 1 .. n : heartbeats[i] = i
  BY <1>2
<1> HIDE DEF heartbeats, read
<1>6. QED
  BY <1>3, <1>4, <1>5

(* No more names than nodes, whatever the snapshots are.                   *)
LEMMA NodesWithinPeers ==
  ASSUME NEW n \in Nat, DOMAIN snapshots = 1 .. n,
         \A k \in 1 .. n : snapshots[k] \subseteq Edges
  PROVE  Cardinality(all_nodes(Pipeline)) <= Cardinality(Peers)
<1> DEFINE Names == {alias(p) : p \in Peers}
           f == [p \in Peers |-> alias(p)]
<1>1. f \in Surjection(Peers, Names)
  BY DEF Surjection
<1> HIDE DEF f
<1>2. /\ IsFiniteSet(Names) /\ Cardinality(Names) <= Cardinality(Peers)
      /\ Cardinality(Names) \in Nat /\ Cardinality(Peers) \in Nat
  BY <1>1, TraceAssumption, FS_Surjection, FS_CardinalityType
<1>3. DOMAIN Pipeline = 1 .. n
      /\ \A k \in 1 .. n : Pipeline[k].edges = Named(snapshots[k])
  BY ReadBack DEF ReadSnapshot
<1>4. ASSUME NEW k \in 1 .. n, NEW e \in Pipeline[k].edges
      PROVE  {e[1], e[2]} \subseteq Names
  <2>1. PICK d \in snapshots[k] : e = <<alias(d[1]), alias(d[2])>>
    BY <1>3, <1>4 DEF Named
  <2>2. d[1] \in Peers /\ d[2] \in Peers
    BY <2>1 DEF Edges
  <2>3. QED
    BY <2>1, <2>2
<1>5. all_nodes(Pipeline) \subseteq Names
  <2>1. {alias(p) : p \in Traced} \subseteq Names
    BY DEF Traced
  <2> HIDE DEF Names
  <2>2. QED
    BY <1>3, <1>4, <2>1 DEF all_nodes
<1> HIDE DEF Names
<1>6. /\ Cardinality(all_nodes(Pipeline)) <= Cardinality(Names)
      /\ Cardinality(all_nodes(Pipeline)) \in Nat
  BY <1>2, <1>5, FS_Subset, FS_CardinalityType
<1>7. QED
  BY <1>2, <1>6

(* An edge of a snapshot is written by its first node, which has a trace.  *)
LEMMA EdgesTraced ==
  ASSUME Settled, NEW k \in 1 .. measured, NEW e \in snapshots[k]
  PROVE  e \in Edges /\ e[1] \in Traced
<1>1. measured \in Nat /\ snapshots[k] = EdgesOfSnapshot(k) /\ TypeOK
      /\ measured = Len(snapshots)
  BY SettledFacts DEF TypeInv
<1>2. e \in Edges
  BY <1>1 DEF TypeOK
<1>3. PICK a \in Positions : EdgeOf(a) = e
  BY <1>1, <1>2, InSnapshot
<1>4. a[1] \in Peers /\ a[2] >= 1 /\ a[2] <= Len(traces[a[1]]) /\ a[2] \in Nat
  BY TraceAssumption DEF Positions
<1>5. traces[a[1]] # <<>>
  <2>1. Len(traces[a[1]]) # 0
    <3>1. traces[a[1]] \in Seq(TraceEvent)
      BY <1>1, <1>4 DEF TypeOK
    <3>2. Len(traces[a[1]]) \in Nat
      BY <3>1
    <3>3. QED
      BY <1>4, <3>2
  <2>2. QED
    BY <2>1
<1>6. e[1] = a[1]
  BY <1>3 DEF EdgeOf
<1>7. QED
  BY <1>2, <1>4, <1>5, <1>6 DEF Traced

(* The snapshots, once they are finished.                                  *)
LEMMA SettledSnapshots ==
  ASSUME Settled
  PROVE  /\ measured \in Nat /\ Len(snapshots) = measured
         /\ DOMAIN snapshots = 1 .. measured
         /\ \A k \in 1 .. measured : snapshots[k] \subseteq Edges
<1>1. TypeOK /\ measured \in Nat /\ measured = Len(snapshots)
  BY SettledFacts DEF TypeInv
<1>2. snapshots \in Seq(SUBSET Edges)
  BY <1>1 DEF TypeOK
<1>3. QED
  BY <1>1, <1>2

LEMMA SettledAtTheEnd == Spec => [](pc = "done" => Settled)
<1>1. TypeInv /\ ReplayInv /\ TimeInv /\ TracedInv /\ MeasureInv =>
        (pc = "done" => Settled)
  BY DEF Settled
<1>2. QED
  BY <1>1, TypesInductive, ReplayInductive, TimeInductive, TracedInductive,
     MeasureInductive, PTL

(* What is read back is what was reconstructed: every snapshot with its    *)
(* time, its number and its edges, empty snapshots and repeated ones among *)
(* them, every edge owned by a node with a trace, and no more names than   *)
(* nodes.                                                                  *)
THEOREM FilesFaithful == Spec => []FilesKeepSnapshots
<1>1. ASSUME Settled PROVE FilesKeepSnapshots
  <2>1. /\ measured \in Nat /\ Len(snapshots) = measured
        /\ DOMAIN snapshots = 1 .. measured
        /\ \A k \in 1 .. measured : snapshots[k] \subseteq Edges
    BY <1>1, SettledSnapshots
  <2>2. Pipeline = [i \in 1 .. measured |-> ReadSnapshot(i)]
    BY <2>1, ReadBack
  <2>3. Len(Pipeline) = Len(snapshots)
    BY <2>1, <2>2
  <2>4. ASSUME NEW k \in DOMAIN snapshots
        PROVE  /\ Pipeline[k].edges = Named(snapshots[k])
               /\ Cardinality(Pipeline[k].edges) = Cardinality(snapshots[k])
               /\ Pipeline[k].timestamp = Snapshot(k)
               /\ Pipeline[k].heartbeat_index = k
    <3>1. Pipeline[k] = ReadSnapshot(k)
      BY <2>1, <2>2
    <3>2. snapshots[k] \subseteq Peers \X Peers
      BY <2>1 DEF Edges
    <3>3. Cardinality(Named(snapshots[k])) = Cardinality(snapshots[k])
      BY <3>2, NamedCount
    <3>4. QED
      BY <3>1, <3>3 DEF ReadSnapshot
  <2>5. \A e \in UNION {snapshots[k] : k \in DOMAIN snapshots} :
          alias(e[1]) \in {alias(p) : p \in Traced}
    BY <1>1, <2>1, EdgesTraced
  <2>6. Cardinality(all_nodes(Pipeline)) <= Cardinality(Peers)
    BY <2>1, NodesWithinPeers
  <2>7. QED
    BY <2>3, <2>4, <2>5, <2>6 DEF FilesKeepSnapshots
<1>2. (pc = "done" => Settled) => FilesKeepSnapshots
  BY <1>1 DEF FilesKeepSnapshots
<1>3. QED
  BY <1>2, SettledAtTheEnd, PTL

-----------------------------------------------------------------------------
(* The two series.                                                         *)
EventsIn(kind, s) ==
  {pos \in Positions : At(pos).kind = kind /\ heartbeat_index(pos) \in s}

LEMMA PositionsFinite == IsFiniteSet(Positions)
<1>1. IsFiniteSet(Peers) /\ MaxEvents \in Nat
  BY TraceAssumption
<1>2. IsFiniteSet(1 .. MaxEvents)
  BY <1>1, FS_Interval
<1>3. IsFiniteSet(Peers \X (1 .. MaxEvents))
  BY <1>1, <1>2, FS_Product
<1>4. QED
  BY <1>3, FS_Subset DEF Positions

LEMMA EventsCounted ==
  ASSUME NEW kind, NEW s
  PROVE  IsFiniteSet(EventsIn(kind, s)) /\ Cardinality(EventsIn(kind, s)) \in Nat
<1>1. EventsIn(kind, s) \subseteq Positions
  BY DEF EventsIn
<1>2. QED
  BY <1>1, PositionsFinite, FS_Subset, FS_CardinalityType

(* Edges that each have an event of their own are no more than the events. *)
LEMMA Witnessed ==
  ASSUME NEW S, NEW T, IsFiniteSet(T), \A e \in S : \E pos \in T : EdgeOf(pos) = e
  PROVE  Cardinality(S) <= Cardinality(T)
<1> DEFINE f == [e \in S |-> CHOOSE pos \in T : EdgeOf(pos) = e]
<1>1. \A e \in S : f[e] \in T /\ EdgeOf(f[e]) = e
  OBVIOUS
<1>2. f \in [S -> T]
  BY <1>1
<1> HIDE DEF f
<1>3. f \in Injection(S, T)
  BY <1>1, <1>2 DEF Injection, IsInjective
<1>4. QED
  BY <1>3, FS_Injection

(* The rows of the churn series, in terms of the snapshots.                *)
LEMMA ChurnOfSnapshots ==
  ASSUME Settled, NEW k \in 1 .. measured
  PROVE  LET A == EdgesOfSnapshot(k)
             B == EdgesOfSnapshot(k - 1)
             row == churn_row(Pipeline, k)
         IN  /\ A \subseteq Edges /\ B \subseteq Edges
             /\ row.added_edges = Cardinality(A \ B)
             /\ row.removed_edges = Cardinality(B \ A)
<1> DEFINE A == EdgesOfSnapshot(k)
           B == EdgesOfSnapshot(k - 1)
           row == churn_row(Pipeline, k)
           edges == Pipeline[k].edges
           previous == IF k = 1 THEN {} ELSE Pipeline[k - 1].edges
<1>1. /\ measured \in Nat /\ DOMAIN snapshots = 1 .. measured
      /\ \A i \in 1 .. measured : snapshots[i] \subseteq Edges
      /\ \A i \in 1 .. measured : snapshots[i] = EdgesOfSnapshot(i)
  BY SettledSnapshots, SettledFacts
<1>2. \A i \in 1 .. measured : Pipeline[i].edges = Named(EdgesOfSnapshot(i))
  BY <1>1, ReadBack DEF ReadSnapshot
<1>3. edges = Named(A) /\ A \subseteq Edges
  BY <1>1, <1>2
<1>4. previous = Named(B) /\ B \subseteq Edges
  <2>1. CASE k = 1
    BY <2>1 DEF EdgesOfSnapshot, Named
  <2>2. CASE k # 1
    <3>1. k - 1 \in 1 .. measured
      BY <1>1, <2>2
    <3>2. QED
      BY <1>1, <1>2, <2>2, <3>1
  <2>3. QED
    BY <2>1, <2>2
<1>5. A \subseteq Peers \X Peers /\ B \subseteq Peers \X Peers
  BY <1>3, <1>4 DEF Edges
<1>6. row = [added_edges   |-> Cardinality(edges \ previous),
             removed_edges |-> Cardinality(previous \ edges),
             stable_edges  |-> Cardinality(edges \cap previous),
             all_edges     |-> Cardinality(edges \cup previous)]
  BY Zenon DEF churn_row
<1> HIDE DEF row, edges, previous, A, B
<1>7. /\ edges \ previous = Named(A \ B) /\ previous \ edges = Named(B \ A)
  BY <1>3, <1>4, <1>5, NamedEdges
<1>8. /\ Cardinality(Named(A \ B)) = Cardinality(A \ B)
      /\ Cardinality(Named(B \ A)) = Cardinality(B \ A)
  <2>1. /\ A \ B \subseteq Peers \X Peers /\ B \ A \subseteq Peers \X Peers
    BY <1>5
  <2>2. \A C : C \subseteq Peers \X Peers => Cardinality(Named(C)) = Cardinality(C)
    BY NamedCount
  <2>3. QED
    BY <2>1, <2>2
<1>9. /\ A \subseteq Edges /\ B \subseteq Edges
      /\ row.added_edges = Cardinality(A \ B)
      /\ row.removed_edges = Cardinality(B \ A)
  BY <1>3, <1>4, <1>6, <1>7, <1>8
<1>10. QED
  BY <1>9 DEF row, A, B

(* Adding the counts of a set of snapshots up, one after another, is       *)
(* counting the events of all of them.                                     *)
LEMMA OneMore ==
  ASSUME NEW kind, NEW s, NEW k \in s
  PROVE  Cardinality(EventsIn(kind, s)) =
           event_count(kind, k) + Cardinality(EventsIn(kind, s \ {k}))
<1> DEFINE A == EventsIn(kind, {k})
           B == EventsIn(kind, s \ {k})
<1>1. A \cup B = EventsIn(kind, s) /\ A \cap B = {}
  BY DEF EventsIn
<1>2. /\ IsFiniteSet(A) /\ Cardinality(A) \in Nat
      /\ IsFiniteSet(B) /\ Cardinality(B) \in Nat
  BY EventsCounted
<1>3. event_count(kind, k) = Cardinality(A)
  <2>1. A = {pos \in Positions : At(pos).kind = kind /\ heartbeat_index(pos) = k}
    BY DEF EventsIn
  <2>2. QED
    BY <2>1, Zenon DEF event_count
<1> HIDE DEF A, B
<1>4. Cardinality(A \cup B) = Cardinality(A) + Cardinality(B)
  <2>1. Cardinality(A \cap B) = 0
    BY <1>1, FS_EmptySet
  <2>2. Cardinality(A \cup B) =
          Cardinality(A) + Cardinality(B) - Cardinality(A \cap B)
    BY <1>2, FS_Union
  <2>3. QED
    BY <1>2, <2>1, <2>2
<1>5. QED
  BY <1>1, <1>3, <1>4 DEF B

(* The equation of the sum has one solution.                               *)
SumEquation(kind, D, iter) ==
  iter = [s \in SUBSET D |->
           IF s = {} THEN 0
           ELSE event_count(kind, CHOOSE k \in s : TRUE)
                  + iter[s \ {CHOOSE k \in s : TRUE}]]

LEMMA SumUnique ==
  ASSUME NEW kind, NEW D, IsFiniteSet(D), NEW f, NEW g,
         SumEquation(kind, D, f), SumEquation(kind, D, g)
  PROVE  f[D] = g[D]
<1> DEFINE Apart == {s \in SUBSET D : f[s] # g[s]}
<1>1. ASSUME NEW s \in SUBSET D
      PROVE  IsFiniteSet(s) /\ Cardinality(s) \in Nat
  BY FS_Subset, FS_CardinalityType
<1>2. SUFFICES ASSUME Apart # {} PROVE FALSE
  OBVIOUS
<1>3. PICK s \in Apart : \A t \in Apart : Cardinality(s) <= Cardinality(t)
  <2> DEFINE Sizes == {Cardinality(t) : t \in Apart}
  <2>1. Sizes \subseteq Nat /\ Sizes # {}
    BY <1>1, <1>2
  <2>2. PICK c \in Sizes : \A d \in Sizes : c <= d
    BY <2>1, LeastNumber
  <2>3. QED
    BY <2>2
<1> DEFINE k == CHOOSE x \in s : TRUE
<1>4. f[s] = (IF s = {} THEN 0 ELSE event_count(kind, k) + f[s \ {k}])
  BY <1>3, Zenon DEF SumEquation
<1>5. g[s] = (IF s = {} THEN 0 ELSE event_count(kind, k) + g[s \ {k}])
  BY <1>3, Zenon DEF SumEquation
<1>6. s # {}
  BY <1>3, <1>4, <1>5
<1>7. k \in s
  BY <1>6
<1> HIDE DEF k
<1>8. Cardinality(s \ {k}) < Cardinality(s)
  BY <1>1, <1>3, <1>7, FS_RemoveElement
<1>9. s \ {k} \notin Apart
  <2>1. s \ {k} \in SUBSET D
    BY <1>3
  <2>2. QED
    BY <1>1, <1>3, <1>8, <2>1
<1>10. f[s \ {k}] = g[s \ {k}]
  BY <1>3, <1>9
<1>11. QED
  BY <1>3, <1>4, <1>5, <1>6, <1>10

LEMMA SumOfCounts ==
  ASSUME NEW kind, NEW D, IsFiniteSet(D)
  PROVE  MapThenSumSet(LAMBDA k : event_count(kind, k), D)
           = Cardinality(EventsIn(kind, D))
<1> DEFINE count == [s \in SUBSET D |-> Cardinality(EventsIn(kind, s))]
<1>1. SumEquation(kind, D, count)
  <2> DEFINE chosen(s) == CHOOSE k \in s : TRUE
  <2>1. ASSUME NEW s \in SUBSET D, s = {} PROVE count[s] = 0
    <3>1. EventsIn(kind, s) = {}
      BY <2>1 DEF EventsIn
    <3>2. QED
      BY <3>1, FS_EmptySet
  <2>2. ASSUME NEW s \in SUBSET D, s # {}
        PROVE  count[s] = event_count(kind, chosen(s)) + count[s \ {chosen(s)}]
    <3>1. chosen(s) \in s /\ s \ {chosen(s)} \in SUBSET D
      BY <2>2
    <3> HIDE DEF chosen
    <3>2. QED
      BY <3>1, OneMore
  <2>3. DOMAIN count = SUBSET D /\ count = [s \in SUBSET D |-> count[s]]
    OBVIOUS
  <2> HIDE DEF count
  <2>4. \A s \in SUBSET D :
          count[s] = IF s = {} THEN 0
                     ELSE event_count(kind, chosen(s)) + count[s \ {chosen(s)}]
    BY <2>1, <2>2
  <2> HIDE DEF chosen
  <2>5. count = [s \in SUBSET D |->
                  IF s = {} THEN 0
                  ELSE event_count(kind, chosen(s)) + count[s \ {chosen(s)}]]
    BY <2>3, <2>4
  <2>6. QED
    BY <2>5 DEF SumEquation, chosen
<1>2. MapThenSumSet(LAMBDA k : event_count(kind, k), D)
        = (CHOOSE iter : SumEquation(kind, D, iter))[D]
  BY Zenon DEF MapThenSumSet, MapThenFoldSet, SumEquation
<1> DEFINE sum == CHOOSE iter : SumEquation(kind, D, iter)
<1>3. SumEquation(kind, D, sum)
  BY <1>1, Zenon
<1> HIDE DEF count, sum
<1>4. sum[D] = count[D]
  BY <1>1, <1>3, SumUnique
<1>5. QED
  BY <1>2, <1>4, Zenon DEF count, sum

(* A bucket has a GRAFT for each edge that is new in its snapshot, and a   *)
(* PRUNE for each that is gone.                                            *)
LEMMA ChurnHasEvents ==
  ASSUME Settled, NEW k \in 1 .. measured
  PROVE  /\ Cardinality(EdgesOfSnapshot(k) \ EdgesOfSnapshot(k - 1))
              <= event_count("graft", k)
         /\ Cardinality(EdgesOfSnapshot(k - 1) \ EdgesOfSnapshot(k))
              <= event_count("prune", k)
<1>1. measured \in Nat /\ \A j \in 1 .. measured : EdgesOfSnapshot(j) \subseteq Edges
  BY SettledFacts, SettledSnapshots
<1>2. EdgesOfSnapshot(k - 1) \subseteq Edges /\ EdgesOfSnapshot(k) \subseteq Edges
  <2>1. CASE k = 1
    BY <1>1, <2>1 DEF EdgesOfSnapshot
  <2>2. CASE k # 1
    <3>1. k - 1 \in 1 .. measured
      BY <1>1, <2>2
    <3>2. QED
      BY <1>1, <3>1
  <2>3. QED
    BY <2>1, <2>2
<1>3. ASSUME NEW pos \in Positions, BucketNumber(pos) = k - 1
      PROVE  heartbeat_index(pos) = k
  <2>1. heartbeat_index(pos) = BucketNumber(pos) + 1
    BY Zenon DEF heartbeat_index, BucketNumber
  <2>2. QED
    BY <1>1, <1>3, <2>1
<1>4. \A kind :
        /\ event_count(kind, k) = Cardinality(EventsIn(kind, {k}))
        /\ IsFiniteSet(EventsIn(kind, {k}))
        /\ \A pos : pos \in EventsIn(kind, {k}) <=>
             pos \in Positions /\ At(pos).kind = kind /\ heartbeat_index(pos) = k
  <2>1. ASSUME NEW kind
        PROVE  EventsIn(kind, {k}) =
                 {pos \in Positions : At(pos).kind = kind /\ heartbeat_index(pos) = k}
    BY DEF EventsIn
  <2>2. \A kind : event_count(kind, k) = Cardinality(EventsIn(kind, {k}))
    BY <2>1, Zenon DEF event_count
  <2>3. QED
    BY <2>1, <2>2, EventsCounted
<1>5. \A e \in EdgesOfSnapshot(k) \ EdgesOfSnapshot(k - 1) :
        \E pos \in EventsIn("graft", {k}) : EdgeOf(pos) = e
  <2>1. ASSUME NEW e \in EdgesOfSnapshot(k) \ EdgesOfSnapshot(k - 1)
        PROVE  \E pos \in EventsIn("graft", {k}) : EdgeOf(pos) = e
    <3>1. PICK a \in Positions :
            Grafts(a) /\ EdgeOf(a) = e /\ BucketNumber(a) = k - 1
      BY <1>2, GraftFound
    <3>2. QED
      BY <1>3, <1>4, <3>1 DEF Grafts
  <2>2. QED
    BY <2>1
<1>6. \A e \in EdgesOfSnapshot(k - 1) \ EdgesOfSnapshot(k) :
        \E pos \in EventsIn("prune", {k}) : EdgeOf(pos) = e
  <2>1. ASSUME NEW e \in EdgesOfSnapshot(k - 1) \ EdgesOfSnapshot(k)
        PROVE  \E pos \in EventsIn("prune", {k}) : EdgeOf(pos) = e
    <3>1. PICK a \in Positions :
            Prunes(a) /\ EdgeOf(a) = e /\ BucketNumber(a) = k - 1
      BY <1>2, PruneFound
    <3>2. QED
      BY <1>3, <1>4, <3>1 DEF Prunes
  <2>2. QED
    BY <2>1
<1>7. QED
  BY <1>4, <1>5, <1>6, Witnessed

(* Every event is in the row of some snapshot.                             *)
LEMMA EventsHaveRows ==
  ASSUME Settled, NEW kind
  PROVE  EventsIn(kind, 1 .. measured) = {pos \in Positions : At(pos).kind = kind}
<1>1. measured \in Nat
      /\ \A pos \in Positions : BucketNumber(pos) \in 0 .. (measured - 1)
  BY SettledFacts
<1>2. ASSUME NEW pos \in Positions PROVE heartbeat_index(pos) \in 1 .. measured
  <2>1. heartbeat_index(pos) = BucketNumber(pos) + 1
    BY Zenon DEF heartbeat_index, BucketNumber
  <2>2. QED
    BY <1>1, <2>1
<1>3. QED
  BY <1>2 DEF EventsIn

(* The series of churn and of control messages fit together: no edge comes *)
(* or goes without its event in the same row, and no event is in no row.   *)
THEOREM SeriesFit == Spec => []ChurnMatchesControl
<1>1. ASSUME Settled PROVE ChurnMatchesControl
  <2>1. /\ measured \in Nat /\ DOMAIN snapshots = 1 .. measured
        /\ Pipeline = [i \in 1 .. measured |-> ReadSnapshot(i)]
    BY <1>1, SettledSnapshots, ReadBack
  <2>2. DOMAIN Pipeline = 1 .. measured
    BY <2>1
  <2>3. ASSUME NEW k \in 1 .. measured
        PROVE  LET row == churn_row(Pipeline, k)
               IN  /\ row.added_edges <= event_count("graft", k)
                   /\ row.removed_edges <= event_count("prune", k)
    <3> DEFINE A == EdgesOfSnapshot(k)
               B == EdgesOfSnapshot(k - 1)
               row == churn_row(Pipeline, k)
    <3>1. /\ A \subseteq Edges /\ B \subseteq Edges
          /\ row.added_edges = Cardinality(A \ B)
          /\ row.removed_edges = Cardinality(B \ A)
      BY <1>1, ChurnOfSnapshots
    <3>2. /\ Cardinality(A \ B) <= event_count("graft", k)
          /\ Cardinality(B \ A) <= event_count("prune", k)
      BY <1>1, ChurnHasEvents
    <3> HIDE DEF A, B, row
    <3>3. /\ row.added_edges <= event_count("graft", k)
          /\ row.removed_edges <= event_count("prune", k)
      BY <3>1, <3>2
    <3>4. QED
      BY <3>3 DEF row
  <2>4. ASSUME NEW kind
        PROVE  MapThenSumSet(LAMBDA k : event_count(kind, k), DOMAIN snapshots)
                 = Cardinality({pos \in Positions : At(pos).kind = kind})
    <3>1. IsFiniteSet(1 .. measured)
      BY <2>1, FS_Interval
    <3>2. MapThenSumSet(LAMBDA k : event_count(kind, k), 1 .. measured)
            = Cardinality(EventsIn(kind, 1 .. measured))
      BY <3>1, SumOfCounts
    <3>3. QED
      BY <1>1, <2>1, <3>2, EventsHaveRows
  <2>5. QED
    BY <2>2, <2>3, <2>4 DEF ChurnMatchesControl
<1>2. (pc = "done" => Settled) => ChurnMatchesControl
  BY <1>1 DEF ChurnMatchesControl
<1>3. QED
  BY <1>2, SettledAtTheEnd, PTL
=============================================================================
