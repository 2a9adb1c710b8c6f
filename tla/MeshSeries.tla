----------------------------- MODULE MeshSeries -----------------------------
(***************************************************************************)
(* What topology_pipeline.py writes between its two halves and makes of    *)
(* it: snapshots.csv, nodes.csv and trace_events.csv, the reading back of  *)
(* them, and the series of churn and of control messages.  A file is the   *)
(* set of its rows; a peer is written under its alias, the name of its     *)
(* trace file, when that file has an event, and under its peer id if not.  *)
(***************************************************************************)
EXTENDS TraceSnapshots, FiniteSetsExt

(* aliases_from_trace_filenames and write_trace_nodes.                     *)
Traced == {p \in Peers : traces[p] # <<>>}

alias(p) == IF p \in Traced THEN <<"alias", p>> ELSE <<"peer id", p>>

Named(edges) == {<<alias(e[1]), alias(e[2])>> : e \in edges}

out_degree(node, edges) == Cardinality({e \in edges : e[1] = node})

EdgeRows(k) ==
  {[timestamp |-> Snapshot(k), heartbeat_index |-> k,
    snapshot_kind |-> "mesh_edge", edge |-> <<alias(e[1]), alias(e[2])>>,
    mesh_size |-> out_degree(e[1], snapshots[k])] : e \in snapshots[k]}

(* Mutant: a snapshot has no row of its own, only those of its edges.      *)
SnapshotRowsUnmarked == UNION {EdgeRows(k) : k \in DOMAIN snapshots}

(* write_snapshots: a marker, then the edges.                              *)
SnapshotRows ==
  (UNION {EdgeRows(k) : k \in DOMAIN snapshots}) \cup
  {[timestamp |-> Snapshot(k), heartbeat_index |-> k,
    snapshot_kind |-> "heartbeat_marker", edge |-> <<>>,
    mesh_size |-> Cardinality(snapshots[k])] : k \in DOMAIN snapshots}

(* sorted() of different numbers.                                          *)
sorted(S) ==
  CHOOSE s \in [1 .. Cardinality(S) -> S] :
    \A i, j \in DOMAIN s : i < j => s[i] < s[j]

(* read_snapshots: one snapshot per heartbeat index, in their order.       *)
read_snapshots(rows) ==
  LET heartbeats == sorted({row.heartbeat_index : row \in rows})
      Of(h)      == {row \in rows : row.heartbeat_index = h}
  IN  [i \in DOMAIN heartbeats |->
        [timestamp       |-> (CHOOSE row \in Of(heartbeats[i]) : TRUE).timestamp,
         heartbeat_index |-> heartbeats[i],
         edges |-> {row.edge : row \in
           {r \in Of(heartbeats[i]) : r.snapshot_kind = "mesh_edge"}}]]

(* nodes_from_snapshots and read_trace_nodes.                              *)
all_nodes(read) ==
  (UNION {{e[1], e[2]} : e \in UNION {read[k].edges : k \in DOMAIN read}})
    \cup {alias(p) : p \in Traced}

-----------------------------------------------------------------------------
(* write_churn_timeseries, from the snapshots read back.                   *)
churn_row(read, k) ==
  LET edges    == read[k].edges
      previous == IF k = 1 THEN {} ELSE read[k - 1].edges
  IN  [added_edges   |-> Cardinality(edges \ previous),
       removed_edges |-> Cardinality(previous \ edges),
       stable_edges  |-> Cardinality(edges \cap previous),
       all_edges     |-> Cardinality(edges \cup previous)]

(* Mutant: buckets are numbered from 0, snapshots from 1.                  *)
heartbeat_indexFromZero(pos) == bucket_index(At(pos).ts)

(* The column of trace_events.csv.                                         *)
heartbeat_index(pos) == bucket_index(At(pos).ts) + 1

(* write_control_timeseries: one counter of trace_events.csv.              *)
event_count(kind, k) ==
  Cardinality({pos \in Positions : At(pos).kind = kind /\ heartbeat_index(pos) = k})

-----------------------------------------------------------------------------
(* Properties.                                                             *)

Pipeline == read_snapshots(SnapshotRows)

(* The second half of the pipeline works on what the first half has        *)
(* reconstructed: as many snapshots, empty ones and runs of equal ones     *)
(* among them, each with its edges under names that no two peers share,    *)
(* and with every node that left a trace (topology_pipeline.py:272-308,    *)
(* 702-727).                                                               *)
FilesKeepSnapshots ==
  pc = "done" =>
    /\ Len(Pipeline) = Len(snapshots)
    /\ \A k \in DOMAIN snapshots :
         /\ Pipeline[k].edges = Named(snapshots[k])
         /\ Cardinality(Pipeline[k].edges) = Cardinality(snapshots[k])
         /\ Pipeline[k].timestamp = Snapshot(k)
         /\ Pipeline[k].heartbeat_index = k
    /\ \A e \in UNION {snapshots[k] : k \in DOMAIN snapshots} :
         alias(e[1]) \in {alias(p) : p \in Traced}
    /\ Cardinality(all_nodes(Pipeline)) <= Cardinality(Peers)

(* The two series, from two files, can be read side by side: a bucket has  *)
(* at least one GRAFT per edge that is new in its snapshot and one PRUNE   *)
(* per edge that is gone, and every GRAFT and PRUNE is in the row of some  *)
(* snapshot (topology_pipeline.py:357-462, 503-532).                       *)
ChurnMatchesControl ==
  pc = "done" =>
    /\ \A k \in DOMAIN Pipeline :
         LET row == churn_row(Pipeline, k)
         IN  /\ row.added_edges <= event_count("graft", k)
             /\ row.removed_edges <= event_count("prune", k)
    /\ \A kind \in meshKinds :
         MapThenSumSet(LAMBDA k : event_count(kind, k), DOMAIN snapshots) =
           Cardinality({pos \in Positions : At(pos).kind = kind})
=============================================================================
