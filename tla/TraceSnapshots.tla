--------------------------- MODULE TraceSnapshots ---------------------------
(***************************************************************************)
(* From the trace files of the nodes to mesh snapshots and edge lifetimes: *)
(* topology_pipeline.py merges all files by time stamp and replays them    *)
(* bucket by bucket; extract_gossipsub_topology.py reads one file after    *)
(* the other and never looks at a time stamp.  An event is written by the  *)
(* node whose mesh changes, with that node's clock.                        *)
(*                                                                         *)
(* There is one topic, so an edge is a pair of peers; time is counted in   *)
(* milliseconds, as in the output files.                                   *)
(***************************************************************************)
EXTENDS Integers, Sequences, FiniteSets

CONSTANTS
  Peers,       \* the nodes, numbered in the order of their trace files
  Kinds,       \* kinds of trace events
  Heartbeat,   \* --heartbeat-ms
  MaxTime,     \* bound: the latest time stamp
  MaxEvents    \* bound: events in all files together

(* The pipeline refuses a heartbeat that is not positive.                  *)
ASSUME TraceAssumption ==
  /\ Peers \subseteq Nat /\ IsFiniteSet(Peers)
  /\ Kinds \subseteq STRING
  /\ Heartbeat \in Nat \ {0}
  /\ MaxTime \in Nat /\ MaxEvents \in Nat

VARIABLES
  traces,        \* the lines of each node's trace file
  pc,            \* where the two programs are
  first_ts,      \* the earliest time stamp
  bucket,        \* reconstruct_snapshots: the bucket being replayed
  replayed,      \* and the positions of the events replayed so far
  mesh,          \* and the mesh they leave
  snapshots,     \* the edges of each finished snapshot
  timed,         \* edge_lifetimes: positions of the events looked at
  starts,        \* and when each open edge was grafted
  lifetimes,     \* and the closed lifetimes
  measured,      \* write_edge_lifetimes_from_snapshots: snapshots read
  births,        \* and when each open edge was first in a snapshot
  snapLifetimes, \* and the closed lifetimes
  extracted,     \* extract_gossipsub_topology: positions of the lines read
  meshEdges,     \* and the edges of the final mesh
  maxMeshEdges   \* and all edges seen

replayVars  == <<first_ts, bucket, replayed, mesh, snapshots>>
timingVars  == <<timed, starts, lifetimes>>
measureVars == <<measured, births, snapLifetimes>>
extractVars == <<extracted, meshEdges, maxMeshEdges>>
vars == <<traces, pc, replayVars, timingVars, measureVars, extractVars>>

Phases == {"recording", "replaying", "timing", "measuring", "extracting",
           "done", "failed"}

Edges == {e \in Peers \X Peers : e[1] # e[2]}

meshKinds == {"graft", "prune"}

(* What node p may write: the peer of a graft or a prune is another node.  *)
TraceEvents(p) ==
  [kind : Kinds \cap meshKinds, ts : 0 .. MaxTime, peer : Peers \ {p}]
  \cup [kind : Kinds \ meshKinds, ts : 0 .. MaxTime, peer : {p}]

TraceEvent == UNION {TraceEvents(p) : p \in Peers}

NoStart == -1   \* the dictionary has no entry

Lifetime == [edge : Edges, start : Nat, end : Nat]

(* The place of an event: whose file, which line.                          *)
Positions == {pos \in Peers \X (1 .. MaxEvents) : pos[2] <= Len(traces[pos[1]])}

At(pos) == traces[pos[1]][pos[2]]
EdgeOf(pos) == <<pos[1], At(pos).peer>>

(* The code asks in addition that the event names a peer, which libp2p     *)
(* does in every GRAFT and PRUNE, and so does every event of TraceEvents.  *)
Grafts(pos) == At(pos).kind = "graft"
Prunes(pos) == At(pos).kind = "prune"

(* The order of the lines when the files are read one after the other.     *)
FileOrder(a, b) == a[1] < b[1] \/ (a[1] = b[1] /\ a[2] < b[2])

(* Mutant: events of the same time stamp in the opposite order.            *)
PrecedesUnstable(a, b) ==
  \/ At(a).ts < At(b).ts
  \/ At(a).ts = At(b).ts /\ FileOrder(b, a)

(* sorted() by time stamp, which keeps the file order of equal stamps.     *)
Precedes(a, b) ==
  \/ At(a).ts < At(b).ts
  \/ At(a).ts = At(b).ts /\ FileOrder(a, b)

bucket_index(ts) ==
  IF ts < first_ts THEN 0 ELSE (ts - first_ts) \div Heartbeat

InBucket(k) == {pos \in Positions : bucket_index(At(pos).ts) = k}

(* Mutant: range(last_bucket) instead of range(last_bucket + 1).           *)
IsLastBucketEarly(k) == \A pos \in Positions : bucket_index(At(pos).ts) <= k + 1

IsLastBucket(k) == \A pos \in Positions : bucket_index(At(pos).ts) <= k

Snapshot(k) == (k - 1) * Heartbeat   \* the time stamp of snapshot k

Init ==
  /\ traces = [p \in Peers |-> <<>>]
  /\ pc = "recording"
  /\ first_ts = 0
  /\ bucket = 0 /\ replayed = {} /\ mesh = {} /\ snapshots = <<>>
  /\ timed = {} /\ starts = [e \in Edges |-> NoStart] /\ lifetimes = {}
  /\ measured = 0 /\ births = [e \in Edges |-> NoStart] /\ snapLifetimes = {}
  /\ extracted = {} /\ meshEdges = {} /\ maxMeshEdges = {}

-----------------------------------------------------------------------------
(* External: the tracer of node p appends a line.  The clocks of two nodes *)
(* have nothing to do with each other; a node's own never goes back.       *)
Record(p) ==
  /\ pc = "recording"
  /\ Cardinality(Positions) < MaxEvents
  /\ \E event \in TraceEvents(p) :
       /\ \A i \in 1 .. Len(traces[p]) : traces[p][i].ts <= event.ts
       /\ traces' = [traces EXCEPT ![p] = Append(@, event)]
  /\ UNCHANGED <<pc, replayVars, timingVars, measureVars, extractVars>>

(* All files are read before anything is written.  No event at all, or a   *)
(* line that is not JSON (its node was killed while writing), ends both    *)
(* programs.                                                               *)
ReadTraces ==
  /\ pc = "recording"
  /\ \/ /\ pc' = "replaying"
        /\ \E pos \in Positions :
             /\ \A other \in Positions : At(pos).ts <= At(other).ts
             /\ first_ts' = At(pos).ts
     \/ /\ pc' = "failed"
        /\ UNCHANGED first_ts
  /\ UNCHANGED <<traces, bucket, replayed, mesh, snapshots,
                 timingVars, measureVars, extractVars>>

-----------------------------------------------------------------------------
(* reconstruct_snapshots: the events of a bucket in order, then a copy of  *)
(* the mesh.                                                               *)
ReplayEvent ==
  /\ pc = "replaying"
  /\ \E pos \in InBucket(bucket) \ replayed :
       /\ \A other \in InBucket(bucket) \ replayed :
            other = pos \/ Precedes(pos, other)
       /\ replayed' = replayed \cup {pos}
       /\ mesh' = IF Grafts(pos) THEN mesh \cup {EdgeOf(pos)}
                  ELSE IF Prunes(pos) THEN mesh \ {EdgeOf(pos)} ELSE mesh
  /\ UNCHANGED <<traces, pc, first_ts, bucket, snapshots,
                 timingVars, measureVars, extractVars>>

CloseBucket ==
  /\ pc = "replaying"
  /\ InBucket(bucket) \subseteq replayed
  /\ snapshots' = Append(snapshots, mesh)
  /\ bucket' = bucket + 1
  /\ pc' = IF IsLastBucket(bucket) THEN "timing" ELSE "replaying"
  /\ UNCHANGED <<traces, first_ts, replayed, mesh,
                 timingVars, measureVars, extractVars>>

-----------------------------------------------------------------------------
(* edge_lifetimes.                                                         *)

(* Mutant: a prune without a graft closes a lifetime, too.                 *)
TimeEventUnchecked ==
  /\ pc = "timing"
  /\ \E pos \in Positions \ timed :
       /\ \A other \in Positions \ timed : other = pos \/ Precedes(pos, other)
       /\ timed' = timed \cup {pos}
       /\ LET e == EdgeOf(pos)
              t == At(pos).ts - first_ts
          IN  /\ starts' = IF Grafts(pos) THEN [starts EXCEPT ![e] = t]
                           ELSE IF Prunes(pos)
                           THEN [starts EXCEPT ![e] = NoStart] ELSE starts
              /\ lifetimes' = IF Prunes(pos)
                              THEN lifetimes \cup
                                     {[edge |-> e, start |-> starts[e], end |-> t]}
                              ELSE lifetimes
  /\ UNCHANGED <<traces, pc, replayVars, measureVars, extractVars>>

(* Mutant: a prune does not remove the start of the edge.                  *)
TimeEventKeepsStart ==
  /\ pc = "timing"
  /\ \E pos \in Positions \ timed :
       /\ \A other \in Positions \ timed : other = pos \/ Precedes(pos, other)
       /\ timed' = timed \cup {pos}
       /\ LET e == EdgeOf(pos)
              t == At(pos).ts - first_ts
          IN  /\ starts' = IF Grafts(pos) THEN [starts EXCEPT ![e] = t]
                           ELSE starts
              /\ lifetimes' = IF Prunes(pos) /\ starts[e] # NoStart
                              THEN lifetimes \cup
                                     {[edge |-> e, start |-> starts[e], end |-> t]}
                              ELSE lifetimes
  /\ UNCHANGED <<traces, pc, replayVars, measureVars, extractVars>>

(* A graft opens a lifetime, or moves the start of an open one; a prune    *)
(* closes it, if there is one.                                             *)
TimeEvent ==
  /\ pc = "timing"
  /\ \E pos \in Positions \ timed :
       /\ \A other \in Positions \ timed : other = pos \/ Precedes(pos, other)
       /\ timed' = timed \cup {pos}
       /\ LET e == EdgeOf(pos)
              t == At(pos).ts - first_ts
          IN  /\ starts' = IF Grafts(pos) THEN [starts EXCEPT ![e] = t]
                           ELSE IF Prunes(pos)
                           THEN [starts EXCEPT ![e] = NoStart] ELSE starts
              /\ lifetimes' = IF Prunes(pos) /\ starts[e] # NoStart
                              THEN lifetimes \cup
                                     {[edge |-> e, start |-> starts[e], end |-> t]}
                              ELSE lifetimes
  /\ UNCHANGED <<traces, pc, replayVars, measureVars, extractVars>>

StopTiming ==
  /\ pc = "timing" /\ Positions \subseteq timed
  /\ pc' = "measuring"
  /\ UNCHANGED <<traces, replayVars, timingVars, measureVars, extractVars>>

-----------------------------------------------------------------------------
(* write_edge_lifetimes_from_snapshots: one snapshot against the one       *)
(* before it.                                                              *)
EdgesOfSnapshot(k) == IF k = 0 THEN {} ELSE snapshots[k]

(* Mutant: an edge that comes back keeps its first birth.                  *)
MeasureSnapshotKeepsBirth ==
  LET k == measured + 1
      added   == EdgesOfSnapshot(k) \ EdgesOfSnapshot(measured)
      removed == EdgesOfSnapshot(measured) \ EdgesOfSnapshot(k)
  IN  /\ pc = "measuring" /\ measured < Len(snapshots)
      /\ measured' = k
      /\ births' = [e \in Edges |->
                      IF e \in added /\ births[e] = NoStart THEN Snapshot(k)
                      ELSE births[e]]
      /\ snapLifetimes' = snapLifetimes \cup
           {[edge |-> e, start |-> births[e], end |-> Snapshot(k)] : e \in removed}
      /\ UNCHANGED <<traces, pc, replayVars, timingVars, extractVars>>

MeasureSnapshot ==
  LET k == measured + 1
      added   == EdgesOfSnapshot(k) \ EdgesOfSnapshot(measured)
      removed == EdgesOfSnapshot(measured) \ EdgesOfSnapshot(k)
  IN  /\ pc = "measuring" /\ measured < Len(snapshots)
      /\ measured' = k
      /\ births' = [e \in Edges |-> IF e \in added THEN Snapshot(k)
                                    ELSE IF e \in removed THEN NoStart
                                    ELSE births[e]]
      /\ snapLifetimes' = snapLifetimes \cup
           {[edge |-> e, start |-> births[e], end |-> Snapshot(k)] : e \in removed}
      /\ UNCHANGED <<traces, pc, replayVars, timingVars, extractVars>>

StopMeasuring ==
  /\ pc = "measuring" /\ measured = Len(snapshots)
  /\ pc' = "extracting"
  /\ UNCHANGED <<traces, replayVars, timingVars, measureVars, extractVars>>

-----------------------------------------------------------------------------
(* The other program, on the same files (which neither changes, so that    *)
(* the order of the two does not matter): every line in file order.        *)

ExtractLine ==
  /\ pc = "extracting"
  /\ \E pos \in Positions \ extracted :
       /\ \A other \in Positions \ extracted : other = pos \/ FileOrder(pos, other)
       /\ extracted' = extracted \cup {pos}
       /\ meshEdges' = IF Grafts(pos) THEN meshEdges \cup {EdgeOf(pos)}
                       ELSE IF Prunes(pos) THEN meshEdges \ {EdgeOf(pos)}
                       ELSE meshEdges
       /\ maxMeshEdges' = IF Grafts(pos) THEN maxMeshEdges \cup {EdgeOf(pos)}
                          ELSE maxMeshEdges
  /\ UNCHANGED <<traces, pc, replayVars, timingVars, measureVars>>

StopExtracting ==
  /\ pc = "extracting" /\ Positions \subseteq extracted
  /\ pc' = "done"
  /\ UNCHANGED <<traces, replayVars, timingVars, measureVars, extractVars>>

Ended == pc \in {"done", "failed"} /\ UNCHANGED vars

Next ==
  \/ \E p \in Peers : Record(p)
  \/ ReadTraces \/ ReplayEvent \/ CloseBucket
  \/ TimeEvent \/ StopTiming \/ MeasureSnapshot \/ StopMeasuring
  \/ ExtractLine \/ StopExtracting \/ Ended

Spec == Init /\ [][Next]_vars

-----------------------------------------------------------------------------
(* Properties.                                                             *)

(* Every variable keeps its type; in particular every closed lifetime has  *)
(* a start (edge_lifetimes tests that there is one).                       *)
TypeOK ==
  /\ traces \in [Peers -> Seq(TraceEvent)]
  /\ \A pos \in Positions : At(pos) \in TraceEvents(pos[1])
  /\ pc \in Phases
  /\ first_ts \in Nat /\ bucket \in Nat
  /\ replayed \subseteq Positions /\ timed \subseteq Positions
  /\ extracted \subseteq Positions
  /\ mesh \subseteq Edges /\ meshEdges \subseteq Edges
  /\ maxMeshEdges \subseteq Edges
  /\ snapshots \in Seq(SUBSET Edges)
  /\ starts \in [Edges -> Nat \cup {NoStart}]
  /\ births \in [Edges -> Nat \cup {NoStart}]
  /\ lifetimes \subseteq Lifetime /\ snapLifetimes \subseteq Lifetime
  /\ measured \in Nat

(* What the owner of an edge wrote about it within the positions S: it was *)
(* grafted and not pruned since.  No time stamp is looked at.              *)
Present(e, S) ==
  \E a \in S : /\ Grafts(a) /\ EdgeOf(a) = e
               /\ \A b \in S : Prunes(b) /\ EdgeOf(b) = e => FileOrder(b, a)

UpTo(k) == {pos \in Positions : bucket_index(At(pos).ts) < k}

(* The k-th snapshot is the mesh of every node as its own file tells it up *)
(* to the end of the k-th bucket, however the files of different nodes are *)
(* merged (reconstruct_snapshots, topology_pipeline.py:253-269).           *)
SnapshotsFollowTraces ==
  \A k \in 1 .. Len(snapshots) :
    snapshots[k] = {e \in Edges : Present(e, UpTo(k))}

(* The two programs agree on the final mesh, although one sorts by time    *)
(* and the other reads file by file; and no snapshot has an edge that the  *)
(* other program has not seen.                                             *)
ExtractorAgrees ==
  pc = "done" =>
    /\ meshEdges = snapshots[Len(snapshots)]
    /\ \A k \in 1 .. Len(snapshots) : snapshots[k] \subseteq maxMeshEdges

(* edge_lifetimes.csv tells the same story as the last snapshot: the       *)
(* lifetimes still open are its edges (edge_lifetimes replays the events a *)
(* second time, with its own rules), and those of one edge do not overlap. *)
LifetimesMatchSnapshots ==
  pc \in {"measuring", "extracting", "done"} =>
    /\ {e \in Edges : starts[e] # NoStart} = snapshots[Len(snapshots)]
    /\ \A l \in lifetimes :
         /\ l.start <= l.end
         /\ starts[l.edge] # NoStart => l.end <= starts[l.edge]
         /\ \A m \in lifetimes :
              l.edge = m.edge /\ l # m => l.end <= m.start \/ m.end <= l.start

(* How far lifetimes measured between snapshots may be off: each begins in *)
(* a bucket with a graft, and ends in the bucket in which a traced one of  *)
(* the same edge ends, which began no earlier; a traced lifetime that      *)
(* reaches into another bucket is never missed; those of one edge are      *)
(* apart (methodology.md: "approximate").                                  *)
BucketOf(ms) == (ms \div Heartbeat) * Heartbeat

GraftedIn(e, ms) ==
  \E pos \in Positions :
    Grafts(pos) /\ EdgeOf(pos) = e /\ BucketOf(At(pos).ts - first_ts) = ms

SnapshotLifetimesApproximate ==
  pc \in {"extracting", "done"} =>
    /\ \A r \in snapLifetimes :
         /\ GraftedIn(r.edge, r.start)
         /\ births[r.edge] # NoStart => r.end < births[r.edge]
         /\ \A q \in snapLifetimes :
              r.edge = q.edge /\ r # q => r.end < q.start \/ q.end < r.start
         /\ \E l \in lifetimes :
              /\ l.edge = r.edge
              /\ BucketOf(l.end) = r.end /\ r.start <= BucketOf(l.start)
    /\ \A l \in lifetimes : BucketOf(l.start) < BucketOf(l.end) =>
         \/ \E r \in snapLifetimes :
              /\ r.edge = l.edge
              /\ r.start <= BucketOf(l.start) /\ BucketOf(l.end) <= r.end
         \/ births[l.edge] \in 0 .. BucketOf(l.start)

(* What the label of the output says (topology_pipeline.py:18-19, "Real    *)
(* traces do not always expose exact heartbeat events.  When they do not,  *)
(* this tool uses fixed time buckets and labels the outputs as inferred"): *)
(* snapshots labelled exact are those of the heartbeat events.             *)
exact_heartbeats == \E pos \in Positions : At(pos).kind = "heartbeat"

ExactMeansHeartbeats ==
  pc = "timing" /\ exact_heartbeats =>
    \A k \in 1 .. Len(snapshots) : \E pos \in Positions :
      At(pos).kind = "heartbeat" /\ At(pos).ts - first_ts = Snapshot(k)
=============================================================================
