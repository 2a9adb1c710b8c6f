------------------------ MODULE TraceSnapshotsProofs ------------------------
(***************************************************************************)
(* For any number of nodes and events, any clocks and any bucket width:    *)
(* snapshots follow the traces, both programs find the same final mesh,    *)
(* traced lifetimes agree with the snapshots, and lifetimes measured       *)
(* between snapshots are off by less than a heartbeat at each end.         *)
(***************************************************************************)
EXTENDS TraceSnapshots, TLAPS

(* Rounding down to a multiple keeps the order.                            *)
LEMMA DivMonotone ==
  ASSUME NEW s \in Nat, NEW t \in Nat, NEW h \in Nat \ {0}, s <= t
  PROVE  s \div h \in Nat /\ s \div h <= t \div h
<1> DEFINE a == s \div h
           b == t \div h
<1>1. a \in Int /\ b \in Int /\ h * a <= s /\ s < h * (a + 1)
      /\ h * b <= t /\ t < h * (b + 1)
  OBVIOUS
<1> HIDE DEF a, b
<1>2. a <= b
  <2> SUFFICES ASSUME b + 1 <= a PROVE FALSE
    BY <1>1
  <2>1. h * (b + 1) <= h * a
    BY <1>1
  <2>2. QED
    BY <1>1, <2>1
<1>3. a >= 0
  <2> SUFFICES ASSUME a + 1 <= 0 PROVE FALSE
    BY <1>1
  <2>1. h * (a + 1) <= h * 0
    BY <1>1
  <2>2. QED
    BY <1>1, <2>1
<1>4. QED
  BY <1>1, <1>2, <1>3 DEF a, b

LEMMA BucketMonotone ==
  ASSUME NEW s \in Nat, NEW t \in Nat, s <= t, first_ts \in Nat
  PROVE  bucket_index(s) \in Nat /\ bucket_index(s) <= bucket_index(t)
<1> USE TraceAssumption
<1>1. CASE s < first_ts
  <2>1. bucket_index(s) = 0
    BY <1>1 DEF bucket_index
  <2>2. CASE t < first_ts
    BY <2>1, <2>2 DEF bucket_index
  <2>3. CASE first_ts <= t
    <3>1. t - first_ts \in Nat
      BY <2>3
    <3>2. (t - first_ts) \div Heartbeat \in Nat
      BY <3>1, DivMonotone
    <3>3. bucket_index(t) \in Nat
      BY <2>3, <3>2 DEF bucket_index
    <3>4. QED
      BY <2>1, <3>3
  <2>4. QED
    BY <2>2, <2>3
<1>2. CASE first_ts <= s
  <2>1. s - first_ts \in Nat /\ t - first_ts \in Nat /\ s - first_ts <= t - first_ts
    BY <1>2
  <2>2. /\ (s - first_ts) \div Heartbeat \in Nat
        /\ (s - first_ts) \div Heartbeat <= (t - first_ts) \div Heartbeat
    BY <2>1, DivMonotone
  <2>3. /\ bucket_index(s) = (s - first_ts) \div Heartbeat
        /\ bucket_index(t) = (t - first_ts) \div Heartbeat
    BY <1>2 DEF bucket_index
  <2>4. QED
    BY <2>2, <2>3
<1>3. QED
  BY <1>1, <1>2

-----------------------------------------------------------------------------
(* Types.  No event is older than the first one, and before the programs   *)
(* start nothing has been read.                                            *)
Started == pc \notin {"recording", "failed"}

FirstIsFirst == Started => \A pos \in Positions : first_ts <= At(pos).ts

NothingRead ==
  pc = "recording" =>
    /\ replayed = {} /\ timed = {} /\ extracted = {}
    /\ mesh = {} /\ meshEdges = {} /\ maxMeshEdges = {} /\ snapshots = <<>>
    /\ bucket = 0

(* The edges of the snapshot looked at last have a birth.                  *)
BirthsKnown ==
  /\ measured <= Len(snapshots)
  /\ pc \notin {"measuring", "extracting", "done"} => measured = 0
  /\ \A e \in EdgesOfSnapshot(measured) : births[e] # NoStart

TypeInv == TypeOK /\ FirstIsFirst /\ NothingRead /\ BirthsKnown

LEMMA EventTypes ==
  ASSUME TypeOK, NEW pos \in Positions
  PROVE  /\ At(pos).ts \in Nat
         /\ pos[1] \in Peers /\ pos[2] \in Nat /\ pos = <<pos[1], pos[2]>>
         /\ (Grafts(pos) \/ Prunes(pos)) => EdgeOf(pos) \in Edges
<1> USE TraceAssumption
<1>1. At(pos) \in TraceEvents(pos[1])
  BY DEF TypeOK
<1>2. pos[1] \in Peers /\ pos[2] \in Nat /\ pos = <<pos[1], pos[2]>>
  BY DEF Positions
<1>3. At(pos).ts \in Nat
  BY <1>1 DEF TraceEvents
<1>4. ASSUME At(pos).kind \in meshKinds
      PROVE  At(pos).peer \in Peers \ {pos[1]}
  BY <1>1, <1>4 DEF TraceEvents
<1>5. (Grafts(pos) \/ Prunes(pos)) => EdgeOf(pos) \in Edges
  BY <1>2, <1>4 DEF Grafts, Prunes, meshKinds, EdgeOf, Edges
<1>6. QED
  BY <1>2, <1>3, <1>5

LEMMA SameTraces ==
  ASSUME traces' = traces
  PROVE  /\ Positions' = Positions
         /\ \A pos : At(pos)' = At(pos)
         /\ \A pos : EdgeOf(pos)' = EdgeOf(pos)
         /\ \A pos : Grafts(pos)' = Grafts(pos) /\ Prunes(pos)' = Prunes(pos)
BY Zenon DEF Positions, At, EdgeOf, Grafts, Prunes

(* What every step but Record does to the types of the traces.             *)
LEMMA TracesKept ==
  ASSUME TypeOK, traces' = traces
  PROVE  /\ traces' \in [Peers -> Seq(TraceEvent)]
         /\ \A pos \in Positions' : At(pos)' \in TraceEvents(pos[1])
<1>1. Positions' = Positions /\ \A pos : At(pos)' = At(pos)
  BY SameTraces, Zenon
<1>2. QED
  BY <1>1 DEF TypeOK

LEMMA RecordKeepsTypes ==
  ASSUME TypeInv, NEW p \in Peers, Record(p)
  PROVE  TypeInv'
<1>1. PICK event \in TraceEvents(p) : traces' = [traces EXCEPT ![p] = Append(@, event)]
  BY DEF Record
<1>2. /\ UNCHANGED <<pc, first_ts, bucket, replayed, mesh, snapshots, timed,
                     starts, lifetimes, measured, births, snapLifetimes,
                     extracted, meshEdges, maxMeshEdges>>
      /\ pc = "recording"
  BY Zenon DEF Record, replayVars, timingVars, measureVars, extractVars
<1>3. event \in TraceEvent
  BY <1>1 DEF TraceEvent
<1>4. traces \in [Peers -> Seq(TraceEvent)]
  BY DEF TypeInv, TypeOK
<1>5. traces' \in [Peers -> Seq(TraceEvent)]
  <2>1. traces[p] \in Seq(TraceEvent)
    BY <1>4
  <2>2. Append(traces[p], event) \in Seq(TraceEvent)
    BY <1>3, <2>1
  <2>3. QED
    BY <1>1, <1>4, <2>2
<1>6. \A pos \in Positions' : At(pos)' \in TraceEvents(pos[1])
  <2> SUFFICES ASSUME NEW pos \in Positions' PROVE At(pos)' \in TraceEvents(pos[1])
    OBVIOUS
  <2>1. pos \in Peers \X (1 .. MaxEvents) /\ pos[2] <= Len(traces'[pos[1]])
    BY DEF Positions
  <2>2. CASE pos[1] # p
    <3>1. traces'[pos[1]] = traces[pos[1]]
      BY <1>1, <1>4, <2>1, <2>2
    <3>2. pos \in Positions
      BY <2>1, <3>1 DEF Positions
    <3>3. QED
      BY <3>1, <3>2 DEF At, TypeInv, TypeOK
  <2>3. CASE pos[1] = p
    <3>1. traces'[p] = Append(traces[p], event) /\ traces[p] \in Seq(TraceEvent)
      BY <1>1, <1>4
    <3>2. Len(traces'[p]) = Len(traces[p]) + 1 /\ Len(traces[p]) \in Nat
      BY <1>3, <3>1
    <3>3. pos[2] \in Nat
      BY <2>1
    <3>4. CASE pos[2] <= Len(traces[p])
      <4>1. pos \in Positions
        BY <2>1, <2>3, <3>4 DEF Positions
      <4>2. traces'[p][pos[2]] = traces[p][pos[2]]
        BY <1>3, <2>1, <3>1, <3>4
      <4>3. QED
        BY <2>3, <4>1, <4>2 DEF At, TypeInv, TypeOK
    <3>5. CASE pos[2] > Len(traces[p])
      <4>1. pos[2] = Len(traces[p]) + 1
        BY <2>1, <2>3, <3>2, <3>3, <3>5
      <4>2. traces'[p][pos[2]] = event
        BY <1>3, <3>1, <4>1
      <4>3. QED
        BY <1>1, <2>3, <4>2 DEF At
    <3>6. QED
      BY <3>2, <3>3, <3>4, <3>5
  <2>4. QED
    BY <2>2, <2>3
<1>7. replayed' = {} /\ timed' = {} /\ extracted' = {}
  BY <1>2 DEF TypeInv, NothingRead
<1>8. TypeOK'
  BY <1>2, <1>5, <1>6, <1>7 DEF TypeInv, TypeOK
<1>9. FirstIsFirst'
  BY <1>2 DEF FirstIsFirst, Started
<1>10. NothingRead'
  BY <1>2 DEF TypeInv, NothingRead
<1>11. BirthsKnown'
  BY <1>2 DEF TypeInv, BirthsKnown, EdgesOfSnapshot
<1>12. QED
  BY <1>8, <1>9, <1>10, <1>11 DEF TypeInv

LEMMA TimeKeepsTypes ==
  ASSUME TypeInv, TimeEvent
  PROVE  TypeInv'
<1>1. PICK pos \in Positions \ timed :
        /\ timed' = timed \cup {pos}
        /\ LET e == EdgeOf(pos)
               t == At(pos).ts - first_ts
           IN  /\ starts' = IF Grafts(pos) THEN [starts EXCEPT ![e] = t]
                            ELSE IF Prunes(pos)
                            THEN [starts EXCEPT ![e] = NoStart] ELSE starts
               /\ lifetimes' = IF Prunes(pos) /\ starts[e] # NoStart
                               THEN lifetimes \cup
                                      {[edge |-> e, start |-> starts[e], end |-> t]}
                               ELSE lifetimes
  BY Zenon DEF TimeEvent
<1>2. /\ UNCHANGED <<traces, pc, first_ts, bucket, replayed, mesh, snapshots,
                     measured, births, snapLifetimes,
                     extracted, meshEdges, maxMeshEdges>>
      /\ pc = "timing"
  BY Zenon DEF TimeEvent, replayVars, measureVars, extractVars
<1>3. Positions' = Positions /\ \A q : At(q)' = At(q)
  BY <1>2, SameTraces, Zenon
<1>4. At(pos).ts - first_ts \in Nat
  <2>1. first_ts <= At(pos).ts
    BY <1>2 DEF TypeInv, FirstIsFirst, Started
  <2>2. At(pos).ts \in Nat /\ first_ts \in Nat
    BY EventTypes DEF TypeInv, TypeOK
  <2>3. QED
    BY <2>1, <2>2
<1>5. Grafts(pos) \/ Prunes(pos) => EdgeOf(pos) \in Edges
  BY EventTypes DEF TypeInv
<1>6. starts' \in [Edges -> Nat \cup {NoStart}]
  <2>1. starts \in [Edges -> Nat \cup {NoStart}]
    BY DEF TypeInv, TypeOK
  <2>2. QED
    BY <1>1, <1>4, <2>1
<1>7. lifetimes' \subseteq Lifetime
  <2>1. lifetimes \subseteq Lifetime /\ starts \in [Edges -> Nat \cup {NoStart}]
    BY DEF TypeInv, TypeOK
  <2>2. CASE Prunes(pos) /\ starts[EdgeOf(pos)] # NoStart
    <3>1. EdgeOf(pos) \in Edges /\ starts[EdgeOf(pos)] \in Nat
      BY <1>5, <2>1, <2>2
    <3>2. [edge |-> EdgeOf(pos), start |-> starts[EdgeOf(pos)],
           end |-> At(pos).ts - first_ts] \in Lifetime
      BY <1>4, <3>1 DEF Lifetime
    <3>3. QED
      BY <1>1, <2>1, <2>2, <3>2
  <2>3. QED
    BY <1>1, <2>1, <2>2
<1>8. timed' \subseteq Positions'
  BY <1>1, <1>3 DEF TypeInv, TypeOK
<1>9. TypeOK'
  BY <1>2, <1>3, <1>6, <1>7, <1>8, TracesKept DEF TypeInv, TypeOK
<1>10. FirstIsFirst'
  BY <1>2, <1>3 DEF TypeInv, FirstIsFirst, Started
<1>11. NothingRead'
  BY <1>2 DEF NothingRead
<1>12. BirthsKnown'
  BY <1>2 DEF TypeInv, BirthsKnown, EdgesOfSnapshot
<1>13. QED
  BY <1>9, <1>10, <1>11, <1>12 DEF TypeInv

LEMMA SnapshotTypes ==
  ASSUME TypeOK, NEW k \in 0 .. Len(snapshots)
  PROVE  EdgesOfSnapshot(k) \subseteq Edges
<1>1. snapshots \in Seq(SUBSET Edges)
  BY DEF TypeOK
<1>2. CASE k = 0
  BY <1>2 DEF EdgesOfSnapshot
<1>3. CASE k # 0
  <2>1. k \in 1 .. Len(snapshots)
    BY <1>1, <1>3
  <2>2. snapshots[k] \in SUBSET Edges
    BY <1>1, <2>1
  <2>3. QED
    BY <1>3, <2>2 DEF EdgesOfSnapshot
<1>4. QED
  BY <1>2, <1>3

LEMMA MeasureKeepsTypes ==
  ASSUME TypeInv, MeasureSnapshot
  PROVE  TypeInv'
<1> DEFINE k == measured + 1
           added   == EdgesOfSnapshot(k) \ EdgesOfSnapshot(measured)
           removed == EdgesOfSnapshot(measured) \ EdgesOfSnapshot(k)
<1> USE TraceAssumption
<1>1. /\ pc = "measuring" /\ measured < Len(snapshots)
      /\ measured' = k
      /\ births' = [e \in Edges |-> IF e \in added THEN Snapshot(k)
                                    ELSE IF e \in removed THEN NoStart
                                    ELSE births[e]]
      /\ snapLifetimes' = snapLifetimes \cup
           {[edge |-> e, start |-> births[e], end |-> Snapshot(k)] : e \in removed}
  BY Zenon DEF MeasureSnapshot
<1>2. UNCHANGED <<traces, pc, first_ts, bucket, replayed, mesh, snapshots,
                  timed, starts, lifetimes, extracted, meshEdges, maxMeshEdges>>
  BY Zenon DEF MeasureSnapshot, replayVars, timingVars, extractVars
<1>3. Positions' = Positions /\ \A q : At(q)' = At(q)
  BY <1>2, SameTraces, Zenon
<1>4. measured \in Nat /\ Len(snapshots) \in Nat
  BY DEF TypeInv, TypeOK
<1>5. k \in 1 .. Len(snapshots) /\ measured \in 0 .. Len(snapshots)
  BY <1>1, <1>4
<1>6. EdgesOfSnapshot(k) \subseteq Edges /\ EdgesOfSnapshot(measured) \subseteq Edges
  BY <1>5, SnapshotTypes DEF TypeInv
<1>7. Snapshot(k) \in Nat
  <2>1. Snapshot(k) = measured * Heartbeat
    BY <1>4 DEF Snapshot
  <2>2. measured * Heartbeat \in Nat
    BY <1>4
  <2>3. QED
    BY <2>1, <2>2
<1>8. births \in [Edges -> Nat \cup {NoStart}]
  BY DEF TypeInv, TypeOK
<1> HIDE DEF k
<1>9. births' \in [Edges -> Nat \cup {NoStart}]
  BY <1>1, <1>7, <1>8
<1>10. snapLifetimes' \subseteq Lifetime
  <2>1. ASSUME NEW e \in removed
        PROVE  [edge |-> e, start |-> births[e], end |-> Snapshot(k)] \in Lifetime
    <3>1. e \in Edges /\ births[e] # NoStart
      BY <1>6 DEF TypeInv, BirthsKnown
    <3>2. births[e] \in Nat
      BY <1>8, <3>1
    <3>3. QED
      BY <1>7, <3>1, <3>2 DEF Lifetime
  <2>2. snapLifetimes \subseteq Lifetime
    BY DEF TypeInv, TypeOK
  <2>3. QED
    BY <1>1, <2>1, <2>2
<1>11. k \in Nat
  BY <1>5
<1>12. TypeOK'
  BY <1>1, <1>2, <1>3, <1>9, <1>10, <1>11, TracesKept DEF TypeInv, TypeOK
<1>13. FirstIsFirst'
  BY <1>2, <1>3 DEF TypeInv, FirstIsFirst, Started
<1>14. NothingRead'
  BY <1>1, <1>2 DEF NothingRead
<1>15. BirthsKnown'
  <2>1. EdgesOfSnapshot(measured)' = EdgesOfSnapshot(k)
    BY <1>1, <1>2 DEF EdgesOfSnapshot
  <2>2. ASSUME NEW e \in EdgesOfSnapshot(k)
        PROVE  births'[e] # NoStart
    <3>1. e \in Edges
      BY <1>6
    <3>2. CASE e \in added
      BY <1>1, <1>7, <3>1, <3>2 DEF NoStart
    <3>3. CASE e \in EdgesOfSnapshot(measured)
      <4>1. births[e] # NoStart
        BY <3>3 DEF TypeInv, BirthsKnown
      <4>2. births'[e] = births[e]
        BY <1>1, <2>2, <3>1, <3>3
      <4>3. QED
        BY <4>1, <4>2
    <3>4. QED
      BY <2>2, <3>2, <3>3
  <2>3. QED
    BY <1>1, <1>2, <1>5, <2>1, <2>2 DEF BirthsKnown
<1>16. QED
  BY <1>12, <1>13, <1>14, <1>15 DEF TypeInv

(* Steps that change neither the traces nor either lifetime table: the     *)
(* types of what they do change are given.                                 *)
LEMMA OtherStepTypes ==
  ASSUME TypeInv,
         UNCHANGED <<traces, timed, starts, lifetimes,
                     measured, births, snapLifetimes>>,
         pc' \in Phases, bucket' \in Nat, first_ts' \in Nat,
         replayed' \subseteq Positions, extracted' \subseteq Positions,
         mesh' \subseteq Edges, meshEdges' \subseteq Edges,
         maxMeshEdges' \subseteq Edges,
         snapshots' \in Seq(SUBSET Edges)
  PROVE  TypeOK'
<1>1. Positions' = Positions /\ \A q : At(q)' = At(q)
  BY SameTraces, Zenon
<1>2. QED
  BY <1>1, TracesKept DEF TypeInv, TypeOK

LEMMA ReadKeepsTypes ==
  ASSUME TypeInv, ReadTraces
  PROVE  TypeInv'
<1>1. /\ pc = "recording"
      /\ UNCHANGED <<traces, bucket, replayed, mesh, snapshots, timed, starts,
                     lifetimes, measured, births, snapLifetimes,
                     extracted, meshEdges, maxMeshEdges>>
  BY Zenon DEF ReadTraces, timingVars, measureVars, extractVars
<1>2. Positions' = Positions /\ \A q : At(q)' = At(q)
  BY <1>1, SameTraces, Zenon
<1>3. /\ pc' \in {"replaying", "failed"} /\ first_ts' \in Nat
      /\ FirstIsFirst'
  <2>1. CASE pc' = "failed" /\ first_ts' = first_ts
    BY <2>1 DEF TypeInv, TypeOK, FirstIsFirst, Started
  <2>2. CASE /\ pc' = "replaying"
             /\ \E pos \in Positions :
                  /\ \A other \in Positions : At(pos).ts <= At(other).ts
                  /\ first_ts' = At(pos).ts
    <3>1. PICK pos \in Positions :
             /\ \A other \in Positions : At(pos).ts <= At(other).ts
             /\ first_ts' = At(pos).ts
      BY <2>2
    <3>2. At(pos).ts \in Nat
      BY EventTypes DEF TypeInv
    <3>3. \A other \in Positions' : first_ts' <= At(other)'.ts
      BY <1>2, <3>1
    <3>4. FirstIsFirst'
      BY <3>3 DEF FirstIsFirst
    <3>5. QED
      BY <2>2, <3>1, <3>2, <3>4
  <2>3. QED
    BY <2>1, <2>2 DEF ReadTraces
<1>4. TypeOK'
  BY <1>1, <1>3, OtherStepTypes DEF TypeInv, TypeOK, Phases
<1>5. NothingRead'
  BY <1>3 DEF NothingRead
<1>6. BirthsKnown'
  BY <1>1, <1>3 DEF TypeInv, BirthsKnown, EdgesOfSnapshot
<1>7. QED
  BY <1>3, <1>4, <1>5, <1>6 DEF TypeInv

LEMMA ReplayKeepsTypes ==
  ASSUME TypeInv, ReplayEvent
  PROVE  TypeInv'
<1>1. PICK pos \in InBucket(bucket) \ replayed :
        /\ replayed' = replayed \cup {pos}
        /\ mesh' = IF Grafts(pos) THEN mesh \cup {EdgeOf(pos)}
                   ELSE IF Prunes(pos) THEN mesh \ {EdgeOf(pos)} ELSE mesh
  BY Zenon DEF ReplayEvent
<1>2. /\ pc = "replaying"
      /\ UNCHANGED <<traces, pc, first_ts, bucket, snapshots, timed, starts,
                     lifetimes, measured, births, snapLifetimes,
                     extracted, meshEdges, maxMeshEdges>>
  BY Zenon DEF ReplayEvent, timingVars, measureVars, extractVars
<1>3. pos \in Positions
  BY <1>1 DEF InBucket
<1>4. mesh' \subseteq Edges
  <2>1. Grafts(pos) => EdgeOf(pos) \in Edges
    BY <1>3, EventTypes DEF TypeInv
  <2>2. QED
    BY <1>1, <2>1 DEF TypeInv, TypeOK
<1>5. replayed' \subseteq Positions
  BY <1>1, <1>3 DEF TypeInv, TypeOK
<1>6. TypeOK'
  BY <1>2, <1>4, <1>5, OtherStepTypes DEF TypeInv, TypeOK
<1>7. FirstIsFirst'
  BY <1>2, SameTraces DEF TypeInv, FirstIsFirst, Started
<1>8. NothingRead'
  BY <1>2 DEF NothingRead
<1>9. BirthsKnown'
  BY <1>2 DEF TypeInv, BirthsKnown, EdgesOfSnapshot
<1>10. QED
  BY <1>6, <1>7, <1>8, <1>9 DEF TypeInv

LEMMA CloseKeepsTypes ==
  ASSUME TypeInv, CloseBucket
  PROVE  TypeInv'
<1>1. /\ snapshots' = Append(snapshots, mesh) /\ bucket' = bucket + 1
      /\ pc = "replaying" /\ pc' \in {"timing", "replaying"}
  BY DEF CloseBucket
<1>2. UNCHANGED <<traces, first_ts, replayed, mesh, timed, starts, lifetimes,
                  measured, births, snapLifetimes,
                  extracted, meshEdges, maxMeshEdges>>
  BY Zenon DEF CloseBucket, timingVars, measureVars, extractVars
<1>3. snapshots' \in Seq(SUBSET Edges) /\ Len(snapshots') \in Nat
  BY <1>1 DEF TypeInv, TypeOK
<1>4. bucket' \in Nat /\ pc' \in Phases
  BY <1>1 DEF TypeInv, TypeOK, Phases
<1>5. TypeOK'
  BY <1>2, <1>3, <1>4, OtherStepTypes DEF TypeInv, TypeOK
<1>6. FirstIsFirst'
  BY <1>1, <1>2, SameTraces DEF TypeInv, FirstIsFirst, Started
<1>7. NothingRead'
  BY <1>1 DEF NothingRead
<1>8. measured = 0 /\ measured' = 0
  BY <1>1, <1>2 DEF TypeInv, BirthsKnown
<1>9. BirthsKnown'
  BY <1>1, <1>3, <1>8 DEF BirthsKnown, EdgesOfSnapshot
<1>10. QED
  BY <1>5, <1>6, <1>7, <1>9 DEF TypeInv

LEMMA ExtractKeepsTypes ==
  ASSUME TypeInv, ExtractLine
  PROVE  TypeInv'
<1>1. PICK pos \in Positions \ extracted :
       /\ extracted' = extracted \cup {pos}
       /\ meshEdges' = IF Grafts(pos) THEN meshEdges \cup {EdgeOf(pos)}
                       ELSE IF Prunes(pos) THEN meshEdges \ {EdgeOf(pos)}
                       ELSE meshEdges
       /\ maxMeshEdges' = IF Grafts(pos) THEN maxMeshEdges \cup {EdgeOf(pos)}
                          ELSE maxMeshEdges
  BY Zenon DEF ExtractLine
<1>2. /\ pc = "extracting"
      /\ UNCHANGED <<traces, pc, first_ts, bucket, replayed, mesh, snapshots,
                     timed, starts, lifetimes, measured, births, snapLifetimes>>
  BY Zenon DEF ExtractLine, replayVars, timingVars, measureVars
<1>3. Grafts(pos) => EdgeOf(pos) \in Edges
  BY EventTypes DEF TypeInv
<1>4. meshEdges' \subseteq Edges /\ maxMeshEdges' \subseteq Edges
  BY <1>1, <1>3 DEF TypeInv, TypeOK
<1>5. extracted' \subseteq Positions
  BY <1>1 DEF TypeInv, TypeOK
<1>6. TypeOK'
  BY <1>2, <1>4, <1>5, OtherStepTypes DEF TypeInv, TypeOK
<1>7. FirstIsFirst'
  BY <1>2, SameTraces DEF TypeInv, FirstIsFirst, Started
<1>8. NothingRead'
  BY <1>2 DEF NothingRead
<1>9. BirthsKnown'
  BY <1>2 DEF TypeInv, BirthsKnown, EdgesOfSnapshot
<1>10. QED
  BY <1>6, <1>7, <1>8, <1>9 DEF TypeInv

(* The steps that only move on to the next pass.                           *)
NextPass ==
  /\ UNCHANGED <<traces, first_ts, bucket, replayed, mesh, snapshots,
                 timed, starts, lifetimes, measured, births, snapLifetimes,
                 extracted, meshEdges, maxMeshEdges>>
  /\ \/ pc' = pc
     \/ pc = "timing" /\ pc' = "measuring" /\ Positions \subseteq timed
     \/ pc = "measuring" /\ pc' = "extracting" /\ measured = Len(snapshots)
     \/ pc = "extracting" /\ pc' = "done" /\ Positions \subseteq extracted

LEMMA StepKinds ==
  ASSUME [Next]_vars
  PROVE  \/ \E p \in Peers : Record(p)
         \/ ReadTraces \/ ReplayEvent \/ CloseBucket
         \/ TimeEvent \/ MeasureSnapshot \/ ExtractLine \/ NextPass
<1> USE DEF replayVars, timingVars, measureVars, extractVars, vars
<1>1. CASE UNCHANGED vars
  BY <1>1, Zenon DEF NextPass
<1>2. CASE StopTiming
  BY <1>2, Zenon DEF NextPass, StopTiming
<1>3. CASE StopMeasuring
  BY <1>3, Zenon DEF NextPass, StopMeasuring
<1>4. CASE StopExtracting
  BY <1>4, Zenon DEF NextPass, StopExtracting
<1>5. CASE Ended
  BY <1>5, Zenon DEF NextPass, Ended
<1>6. QED
  BY <1>1, <1>2, <1>3, <1>4, <1>5, Zenon DEF Next

LEMMA NextPassKeepsTypes ==
  ASSUME TypeInv, NextPass
  PROVE  TypeInv'
<1>1. Positions' = Positions /\ \A q : At(q)' = At(q)
  BY SameTraces, Zenon DEF NextPass
<1>2. pc' \in Phases
  BY DEF NextPass, TypeInv, TypeOK, Phases
<1>3. TypeOK'
  BY <1>2, OtherStepTypes DEF NextPass, TypeInv, TypeOK
<1>4. FirstIsFirst'
  BY <1>1 DEF NextPass, TypeInv, FirstIsFirst, Started
<1>5. NothingRead'
  BY DEF NextPass, TypeInv, NothingRead
<1>6. BirthsKnown'
  BY DEF NextPass, TypeInv, BirthsKnown, EdgesOfSnapshot
<1>7. QED
  BY <1>3, <1>4, <1>5, <1>6 DEF TypeInv

LEMMA InitTypes == Init => TypeInv
<1> SUFFICES ASSUME Init PROVE TypeInv
  OBVIOUS
<1> USE TraceAssumption
<1>1. \A p \in Peers : Len(traces[p]) = 0
  BY DEF Init
<1>2. Positions = {}
  <2> SUFFICES ASSUME NEW pos \in Positions PROVE FALSE
    OBVIOUS
  <2>1. pos[1] \in Peers /\ pos[2] \in Nat /\ pos[2] >= 1 /\ pos[2] <= Len(traces[pos[1]])
    BY DEF Positions
  <2>2. Len(traces[pos[1]]) = 0
    BY <1>1, <2>1
  <2>3. pos[2] <= 0
    BY <2>1, <2>2
  <2>4. QED
    BY <2>1, <2>3
<1>3. TypeOK
  <2>1. traces \in [Peers -> Seq(TraceEvent)]
    BY DEF Init
  <2>2. snapshots \in Seq(SUBSET Edges)
    BY DEF Init
  <2>3. /\ starts \in [Edges -> Nat \cup {NoStart}]
        /\ births \in [Edges -> Nat \cup {NoStart}]
    BY DEF Init
  <2>4. /\ replayed = {} /\ timed = {} /\ extracted = {} /\ mesh = {}
        /\ meshEdges = {} /\ maxMeshEdges = {} /\ lifetimes = {}
        /\ snapLifetimes = {}
    BY Zenon DEF Init
  <2>5. pc \in Phases /\ first_ts \in Nat /\ bucket \in Nat /\ measured \in Nat
    BY DEF Init, Phases
  <2>6. QED
    BY <1>2, <2>1, <2>2, <2>3, <2>4, <2>5 DEF TypeOK
<1>4. FirstIsFirst /\ NothingRead
  BY DEF Init, FirstIsFirst, NothingRead, Started
<1>5. BirthsKnown
  BY DEF Init, BirthsKnown, EdgesOfSnapshot
<1>6. QED
  BY <1>3, <1>4, <1>5 DEF TypeInv

LEMMA TypesInductive == Spec => []TypeInv
<1>1. TypeInv /\ [Next]_vars => TypeInv'
  BY StepKinds, RecordKeepsTypes, ReadKeepsTypes, ReplayKeepsTypes,
     CloseKeepsTypes, TimeKeepsTypes, MeasureKeepsTypes, ExtractKeepsTypes,
     NextPassKeepsTypes
<1>2. QED
  BY <1>1, InitTypes, PTL DEF Spec

(* Types are kept, for any number of nodes; in particular each closed      *)
(* lifetime, traced or between snapshots, has a start.                     *)
THEOREM TypeCorrect == Spec => []TypeOK
<1>1. TypeInv => TypeOK
  BY DEF TypeInv
<1>2. QED
  BY <1>1, TypesInductive, PTL

-----------------------------------------------------------------------------
(* What one more event does to what the traces say about an edge.          *)
LEMMA FileOrderAsymmetric ==
  ASSUME TypeOK, NEW a \in Positions, NEW b \in Positions
  PROVE  FileOrder(a, b) => ~ FileOrder(b, a)
<1>1. a[1] \in Nat /\ a[2] \in Nat /\ b[1] \in Nat /\ b[2] \in Nat
  BY EventTypes, TraceAssumption
<1>2. QED
  BY <1>1 DEF FileOrder

(* S holds what was read before; the owner of pos wrote pos after them.    *)
LEMMA PresentStep ==
  ASSUME TypeOK, NEW S, S \subseteq Positions, NEW pos \in Positions,
         \A a \in S : EdgeOf(a) = EdgeOf(pos) => FileOrder(a, pos),
         NEW e
  PROVE  /\ Grafts(pos) /\ e = EdgeOf(pos) => Present(e, S \cup {pos})
         /\ Prunes(pos) /\ e = EdgeOf(pos) => ~ Present(e, S \cup {pos})
         /\ (~ Grafts(pos) /\ ~ Prunes(pos)) \/ e # EdgeOf(pos) =>
              (Present(e, S \cup {pos}) <=> Present(e, S))
<1>1. ~ (Grafts(pos) /\ Prunes(pos))
  BY DEF Grafts, Prunes
<1>2. ASSUME Grafts(pos), e = EdgeOf(pos)
      PROVE  Present(e, S \cup {pos})
  <2>1. \A b \in S \cup {pos} : Prunes(b) /\ EdgeOf(b) = e => FileOrder(b, pos)
    BY <1>1, <1>2
  <2>2. QED
    BY <1>2, <2>1 DEF Present
<1>3. ASSUME Prunes(pos), e = EdgeOf(pos), Present(e, S \cup {pos})
      PROVE  FALSE
  <2>1. PICK a \in S \cup {pos} :
          /\ Grafts(a) /\ EdgeOf(a) = e
          /\ \A b \in S \cup {pos} : Prunes(b) /\ EdgeOf(b) = e => FileOrder(b, a)
    BY <1>3, Zenon DEF Present
  <2>2. a \in S /\ FileOrder(pos, a)
    BY <1>1, <1>3, <2>1
  <2>3. FileOrder(a, pos)
    BY <1>3, <2>1, <2>2
  <2>4. QED
    BY <2>2, <2>3, FileOrderAsymmetric
<1>4. ASSUME (~ Grafts(pos) /\ ~ Prunes(pos)) \/ e # EdgeOf(pos)
      PROVE  Present(e, S \cup {pos}) <=> Present(e, S)
  <2>1. ASSUME Present(e, S) PROVE Present(e, S \cup {pos})
    <3>1. PICK a \in S :
            /\ Grafts(a) /\ EdgeOf(a) = e
            /\ \A b \in S : Prunes(b) /\ EdgeOf(b) = e => FileOrder(b, a)
      BY <2>1, Zenon DEF Present
    <3>2. \A b \in S \cup {pos} : Prunes(b) /\ EdgeOf(b) = e => FileOrder(b, a)
      BY <1>4, <3>1
    <3>3. QED
      BY <3>1, <3>2 DEF Present
  <2>2. ASSUME Present(e, S \cup {pos}) PROVE Present(e, S)
    <3>1. PICK a \in S \cup {pos} :
            /\ Grafts(a) /\ EdgeOf(a) = e
            /\ \A b \in S \cup {pos} : Prunes(b) /\ EdgeOf(b) = e => FileOrder(b, a)
      BY <2>2, Zenon DEF Present
    <3>2. a \in S
      BY <1>4, <3>1
    <3>3. QED
      BY <3>1, <3>2 DEF Present
  <2>3. QED
    BY <2>1, <2>2
<1>5. QED
  BY <1>2, <1>3, <1>4

(* The same for the set of all edges present.                              *)
PresentEdges(S) == {e \in Edges : Present(e, S)}

LEMMA PresentEdgesStep ==
  ASSUME TypeOK, NEW S, S \subseteq Positions, NEW pos \in Positions,
         \A a \in S : EdgeOf(a) = EdgeOf(pos) => FileOrder(a, pos)
  PROVE  PresentEdges(S \cup {pos}) =
           IF Grafts(pos) THEN PresentEdges(S) \cup {EdgeOf(pos)}
           ELSE IF Prunes(pos) THEN PresentEdges(S) \ {EdgeOf(pos)}
           ELSE PresentEdges(S)
<1> DEFINE T == S \cup {pos}
<1>1. \A e : /\ Grafts(pos) /\ e = EdgeOf(pos) => Present(e, T)
             /\ Prunes(pos) /\ e = EdgeOf(pos) => ~ Present(e, T)
             /\ (~ Grafts(pos) /\ ~ Prunes(pos)) \/ e # EdgeOf(pos) =>
                  (Present(e, T) <=> Present(e, S))
  BY PresentStep, Zenon
<1>2. Grafts(pos) => EdgeOf(pos) \in Edges
  BY EventTypes
<1>3. ~ (Grafts(pos) /\ Prunes(pos))
  BY DEF Grafts, Prunes
<1> HIDE DEF T
<1>4. PresentEdges(T) =
        IF Grafts(pos) THEN PresentEdges(S) \cup {EdgeOf(pos)}
        ELSE IF Prunes(pos) THEN PresentEdges(S) \ {EdgeOf(pos)}
        ELSE PresentEdges(S)
  BY <1>1, <1>2, <1>3 DEF PresentEdges
<1>5. QED
  BY <1>4 DEF T

(* What the traces say depends on the traces only.                         *)
LEMMA PresentKept ==
  ASSUME traces' = traces
  PROVE  \A S : PresentEdges(S)' = PresentEdges(S)
<1>1. /\ \A q : EdgeOf(q)' = EdgeOf(q)
      /\ \A q : Grafts(q)' = Grafts(q) /\ Prunes(q)' = Prunes(q)
  BY SameTraces, Zenon
<1>2. \A S : \A e : Present(e, S)' <=> Present(e, S)
  BY <1>1 DEF Present
<1>3. QED
  BY <1>2 DEF PresentEdges

LEMMA NothingPresent == PresentEdges({}) = {}
BY DEF PresentEdges, Present

-----------------------------------------------------------------------------
(* Buckets.                                                                *)
LEMMA BucketsKept ==
  ASSUME traces' = traces, first_ts' = first_ts
  PROVE  /\ \A k : UpTo(k)' = UpTo(k)
         /\ \A a, b : Precedes(a, b)' <=> Precedes(a, b)
<1>1. Positions' = Positions /\ \A q : At(q)' = At(q)
  BY SameTraces, Zenon
<1>2. \A t : bucket_index(t)' = bucket_index(t)
  BY DEF bucket_index
<1>3. \A k : UpTo(k)' = UpTo(k)
  BY <1>1, <1>2 DEF UpTo
<1>4. \A a, b : Precedes(a, b)' <=> Precedes(a, b)
  BY <1>1 DEF Precedes, FileOrder
<1>5. QED
  BY <1>3, <1>4

LEMMA BucketTypes ==
  ASSUME TypeOK, NEW pos \in Positions
  PROVE  bucket_index(At(pos).ts) \in Nat
<1>1. At(pos).ts \in Nat /\ first_ts \in Nat
  BY EventTypes DEF TypeOK
<1>2. QED
  BY <1>1, BucketMonotone

LEMMA UpToNothing == TypeOK => UpTo(0) = {}
BY BucketTypes DEF UpTo

LEMMA UpToNothingNext == (TypeOK => UpTo(0) = {})'
BY UpToNothing, PTL

LEMMA NextUpTo ==
  ASSUME TypeOK, NEW k \in Nat
  PROVE  UpTo(k + 1) = UpTo(k) \cup InBucket(k)
<1>1. \A pos \in Positions :
        bucket_index(At(pos).ts) < k + 1 <=>
          bucket_index(At(pos).ts) < k \/ bucket_index(At(pos).ts) = k
  BY BucketTypes
<1>2. QED
  BY <1>1, Zenon DEF UpTo, InBucket

-----------------------------------------------------------------------------
(* The replay invariant.                                                   *)
Sorted ==
  \A a, b \in Positions : a[1] = b[1] /\ a[2] < b[2] => At(a).ts <= At(b).ts

ReplayOrdered ==
  pc = "replaying" =>
    /\ UpTo(bucket) \subseteq replayed /\ replayed \subseteq UpTo(bucket + 1)
    /\ \A a \in replayed : \A b \in Positions \ replayed : Precedes(a, b)

MeshReplayed == pc = "replaying" => mesh = PresentEdges(replayed)

AllReplayed ==
  pc \in {"timing", "measuring", "extracting", "done"} =>
    /\ Len(snapshots) >= 1
    /\ UpTo(Len(snapshots)) = Positions

SnapshotsRight ==
  /\ Len(snapshots) = bucket
  /\ \A k \in 1 .. Len(snapshots) : snapshots[k] = PresentEdges(UpTo(k))

ReplayInv == Sorted /\ ReplayOrdered /\ MeshReplayed /\ AllReplayed /\ SnapshotsRight

LEMMA RecordKeepsReplay ==
  ASSUME TypeInv, ReplayInv, TypeInv', NEW p \in Peers, Record(p)
  PROVE  ReplayInv'
<1>1. PICK event \in TraceEvents(p) :
        /\ \A i \in 1 .. Len(traces[p]) : traces[p][i].ts <= event.ts
        /\ traces' = [traces EXCEPT ![p] = Append(@, event)]
  BY Zenon DEF Record
<1>2. pc = "recording" /\ UNCHANGED <<pc, snapshots, bucket>>
  BY Zenon DEF Record, replayVars
<1>3. traces \in [Peers -> Seq(TraceEvent)] /\ event \in TraceEvent
  BY <1>1 DEF TypeInv, TypeOK, TraceEvent
<1>4. /\ traces'[p] = Append(traces[p], event)
      /\ \A q \in Peers : q # p => traces'[q] = traces[q]
  BY <1>1, <1>3
<1>5. Sorted'
  <2> SUFFICES ASSUME NEW a \in Positions', NEW b \in Positions',
                      a[1] = b[1], a[2] < b[2]
               PROVE  At(a)'.ts <= At(b)'.ts
    BY DEF Sorted
  <2>1. /\ a \in Peers \X (1 .. MaxEvents) /\ a[2] <= Len(traces'[a[1]])
        /\ b \in Peers \X (1 .. MaxEvents) /\ b[2] <= Len(traces'[b[1]])
    BY DEF Positions
  <2>2. CASE a[1] # p
    <3>1. traces'[a[1]] = traces[a[1]] /\ traces'[b[1]] = traces[b[1]]
      BY <1>4, <2>1, <2>2
    <3>2. a \in Positions /\ b \in Positions
      BY <2>1, <3>1 DEF Positions
    <3>3. QED
      BY <3>1, <3>2 DEF At, ReplayInv, Sorted
  <2>3. CASE a[1] = p
    <3>1. traces[p] \in Seq(TraceEvent) /\ Len(traces[p]) \in Nat
      BY <1>3
    <3>2. Len(traces'[p]) = Len(traces[p]) + 1
      BY <1>3, <1>4, <3>1
    <3>3. a[2] \in Nat /\ b[2] \in Nat /\ a[2] >= 1 /\ b[2] >= 1
      BY <2>1
    <3>4. a[2] <= Len(traces[p])
      BY <2>1, <2>3, <3>1, <3>2, <3>3
    <3>5. traces'[p][a[2]] = traces[p][a[2]]
      BY <1>3, <1>4, <3>1, <3>3, <3>4
    <3>6. CASE b[2] <= Len(traces[p])
      <4>1. traces'[p][b[2]] = traces[p][b[2]]
        BY <1>3, <1>4, <3>1, <3>3, <3>6
      <4>2. a \in Positions /\ b \in Positions
        BY <2>1, <2>3, <3>4, <3>6 DEF Positions
      <4>3. QED
        BY <2>3, <3>5, <4>1, <4>2 DEF At, ReplayInv, Sorted
    <3>7. CASE b[2] > Len(traces[p])
      <4>1. b[2] = Len(traces[p]) + 1
        BY <2>1, <2>3, <3>1, <3>2, <3>3, <3>7
      <4>2. traces'[p][b[2]] = event
        BY <1>3, <1>4, <3>1, <4>1
      <4>3. traces[p][a[2]].ts <= event.ts
        BY <1>1, <3>1, <3>3, <3>4
      <4>4. QED
        BY <2>3, <3>5, <4>2, <4>3 DEF At
    <3>8. QED
      BY <3>1, <3>3, <3>6, <3>7
  <2>4. QED
    BY <2>2, <2>3
<1>6. snapshots = <<>> /\ bucket = 0
  BY <1>2 DEF TypeInv, NothingRead
<1>7. SnapshotsRight'
  BY <1>2, <1>6 DEF SnapshotsRight
<1>8. ReplayOrdered' /\ MeshReplayed' /\ AllReplayed'
  BY <1>2 DEF ReplayOrdered, MeshReplayed, AllReplayed
<1>9. QED
  BY <1>5, <1>7, <1>8 DEF ReplayInv

LEMMA SortedKept ==
  ASSUME Sorted, traces' = traces
  PROVE  Sorted'
<1>1. Positions' = Positions /\ \A q : At(q)' = At(q)
  BY SameTraces, Zenon
<1>2. QED
  BY <1>1 DEF Sorted

LEMMA ReadKeepsReplay ==
  ASSUME TypeInv, ReplayInv, TypeInv', ReadTraces
  PROVE  ReplayInv'
<1>1. /\ pc = "recording" /\ pc' \in {"replaying", "failed"}
      /\ UNCHANGED <<traces, bucket, replayed, mesh, snapshots>>
  BY DEF ReadTraces
<1>2. /\ replayed' = {} /\ mesh' = {} /\ snapshots' = <<>> /\ bucket' = 0
  BY <1>1 DEF TypeInv, NothingRead
<1>3. Sorted'
  BY <1>1, SortedKept DEF ReplayInv
<1>4. UpTo(0)' = {}
  BY UpToNothingNext DEF TypeInv
<1>5. ReplayOrdered'
  BY <1>2, <1>4 DEF ReplayOrdered, UpTo
<1>6. MeshReplayed'
  BY <1>2, NothingPresent DEF MeshReplayed, PresentEdges, Present
<1>7. AllReplayed'
  BY <1>1 DEF AllReplayed
<1>8. SnapshotsRight'
  BY <1>2 DEF SnapshotsRight
<1>9. QED
  BY <1>3, <1>5, <1>6, <1>7, <1>8 DEF ReplayInv

(* Within a file the order of time is the order of the lines.              *)
LEMMA PrecedesInFile ==
  ASSUME TypeOK, Sorted, NEW a \in Positions, NEW b \in Positions,
         a[1] = b[1], Precedes(a, b)
  PROVE  FileOrder(a, b)
<1>1. /\ a = <<a[1], a[2]>> /\ b = <<b[1], b[2]>>
      /\ a[2] \in Nat /\ b[2] \in Nat /\ a[1] \in Nat
      /\ At(a).ts \in Nat /\ At(b).ts \in Nat
  BY EventTypes, TraceAssumption
<1>2. ASSUME b[2] < a[2] PROVE FALSE
  <2>1. At(b).ts <= At(a).ts
    BY <1>2 DEF Sorted
  <2>2. FileOrder(a, b)
    BY <1>1, <2>1 DEF Precedes
  <2>3. QED
    BY <1>1, <1>2, <2>2 DEF FileOrder
<1>3. a[2] # b[2]
  <2>1. SUFFICES ASSUME a[2] = b[2] PROVE FALSE
    OBVIOUS
  <2>2. a = b
    BY <1>1, <2>1
  <2>3. QED
    BY <1>1, <2>2 DEF Precedes, FileOrder
<1>4. a[2] < b[2]
  BY <1>1, <1>2, <1>3
<1>5. QED
  BY <1>4 DEF FileOrder

(* The next event of the bucket comes after everything replayed, and       *)
(* before everything else.                                                 *)
LEMMA NextInOrder ==
  ASSUME TypeInv, ReplayInv, pc = "replaying",
         NEW pos \in InBucket(bucket) \ replayed,
         \A other \in InBucket(bucket) \ replayed :
           other = pos \/ Precedes(pos, other)
  PROVE  /\ \A other \in Positions \ replayed :
              other = pos \/ Precedes(pos, other)
         /\ \A a \in replayed : EdgeOf(a) = EdgeOf(pos) => FileOrder(a, pos)
<1>1. pos \in Positions /\ bucket_index(At(pos).ts) = bucket
  BY DEF InBucket
<1>2. first_ts \in Nat /\ bucket \in Nat
  BY DEF TypeInv, TypeOK
<1>3. ASSUME NEW other \in Positions \ replayed
      PROVE  other = pos \/ Precedes(pos, other)
  <2>1. other \notin UpTo(bucket)
    BY DEF ReplayInv, ReplayOrdered
  <2>2. bucket_index(At(other).ts) \in Nat /\ At(other).ts \in Nat /\ At(pos).ts \in Nat
    BY <1>1, BucketTypes, EventTypes DEF TypeInv
  <2>3. bucket_index(At(other).ts) >= bucket
    BY <1>2, <2>1, <2>2 DEF UpTo
  <2>4. CASE bucket_index(At(other).ts) = bucket
    BY <2>4 DEF InBucket
  <2>5. CASE bucket_index(At(other).ts) > bucket
    <3>1. ASSUME At(other).ts <= At(pos).ts PROVE FALSE
      <4>1. bucket_index(At(other).ts) <= bucket_index(At(pos).ts)
        BY <1>2, <2>2, <3>1, BucketMonotone
      <4>2. QED
        BY <1>1, <1>2, <2>2, <2>5, <4>1
    <3>2. At(pos).ts < At(other).ts
      BY <2>2, <3>1
    <3>3. QED
      BY <3>2 DEF Precedes
  <2>6. QED
    BY <1>2, <2>2, <2>3, <2>4, <2>5
<1>4. ASSUME NEW a \in replayed, EdgeOf(a) = EdgeOf(pos)
      PROVE  FileOrder(a, pos)
  <2>1. a \in Positions /\ Precedes(a, pos)
    BY <1>1 DEF TypeInv, TypeOK, ReplayInv, ReplayOrdered
  <2>2. a[1] = pos[1]
    BY <1>4 DEF EdgeOf
  <2>3. QED
    BY <1>1, <2>1, <2>2, PrecedesInFile DEF TypeInv, ReplayInv
<1>5. QED
  BY <1>3, <1>4

LEMMA ReplayKeepsReplay ==
  ASSUME TypeInv, ReplayInv, ReplayEvent
  PROVE  ReplayInv'
<1>1. PICK pos \in InBucket(bucket) \ replayed :
        /\ \A other \in InBucket(bucket) \ replayed :
             other = pos \/ Precedes(pos, other)
        /\ replayed' = replayed \cup {pos}
        /\ mesh' = IF Grafts(pos) THEN mesh \cup {EdgeOf(pos)}
                   ELSE IF Prunes(pos) THEN mesh \ {EdgeOf(pos)} ELSE mesh
  BY Zenon DEF ReplayEvent
<1>2. pc = "replaying" /\ UNCHANGED <<traces, pc, first_ts, bucket, snapshots>>
  BY Zenon DEF ReplayEvent
<1>3. /\ \A other \in Positions \ replayed : other = pos \/ Precedes(pos, other)
      /\ \A a \in replayed : EdgeOf(a) = EdgeOf(pos) => FileOrder(a, pos)
  BY <1>1, <1>2, NextInOrder
<1>4. /\ Positions' = Positions
      /\ \A k : UpTo(k)' = UpTo(k)
      /\ \A a, b : Precedes(a, b)' <=> Precedes(a, b)
      /\ \A S : PresentEdges(S)' = PresentEdges(S)
  BY <1>2, SameTraces, BucketsKept, PresentKept
<1>5. pos \in Positions /\ replayed \subseteq Positions
  BY <1>1 DEF InBucket, TypeInv, TypeOK
<1>6. UpTo(bucket + 1) = UpTo(bucket) \cup InBucket(bucket)
  BY NextUpTo DEF TypeInv, TypeOK
<1>7. /\ UpTo(bucket) \subseteq replayed /\ replayed \subseteq UpTo(bucket + 1)
      /\ \A a \in replayed : \A b \in Positions \ replayed : Precedes(a, b)
  BY <1>2 DEF ReplayInv, ReplayOrdered
<1>8. UpTo(bucket) \subseteq replayed' /\ replayed' \subseteq UpTo(bucket + 1)
  BY <1>1, <1>6, <1>7
<1>9. \A a \in replayed' : \A b \in Positions \ replayed' : Precedes(a, b)
  BY <1>1, <1>3, <1>7
<1>10. ReplayOrdered'
  BY <1>2, <1>4, <1>8, <1>9 DEF ReplayOrdered
<1>11. mesh' = PresentEdges(replayed \cup {pos})
  <2>1. mesh = PresentEdges(replayed)
    BY <1>2 DEF ReplayInv, MeshReplayed
  <2>2. PresentEdges(replayed \cup {pos}) =
          IF Grafts(pos) THEN PresentEdges(replayed) \cup {EdgeOf(pos)}
          ELSE IF Prunes(pos) THEN PresentEdges(replayed) \ {EdgeOf(pos)}
          ELSE PresentEdges(replayed)
    BY <1>3, <1>5, PresentEdgesStep DEF TypeInv
  <2>3. QED
    BY <1>1, <2>1, <2>2
<1>12. MeshReplayed'
  BY <1>1, <1>4, <1>11 DEF MeshReplayed
<1>13. Sorted'
  BY <1>2, SortedKept DEF ReplayInv
<1>14. AllReplayed'
  BY <1>2 DEF AllReplayed
<1>15. SnapshotsRight'
  BY <1>2, <1>4 DEF ReplayInv, SnapshotsRight
<1>16. QED
  BY <1>10, <1>12, <1>13, <1>14, <1>15 DEF ReplayInv

LEMMA CloseKeepsReplay ==
  ASSUME TypeInv, ReplayInv, CloseBucket
  PROVE  ReplayInv'
<1>1. /\ pc = "replaying" /\ InBucket(bucket) \subseteq replayed
      /\ snapshots' = Append(snapshots, mesh) /\ bucket' = bucket + 1
      /\ pc' = IF IsLastBucket(bucket) THEN "timing" ELSE "replaying"
      /\ UNCHANGED <<traces, first_ts, replayed, mesh>>
  BY DEF CloseBucket
<1>2. /\ Positions' = Positions
      /\ \A k : UpTo(k)' = UpTo(k)
      /\ \A a, b : Precedes(a, b)' <=> Precedes(a, b)
      /\ \A S : PresentEdges(S)' = PresentEdges(S)
  BY <1>1, SameTraces, BucketsKept, PresentKept
<1>3. bucket \in Nat /\ snapshots \in Seq(SUBSET Edges) /\ mesh \in SUBSET Edges
  BY DEF TypeInv, TypeOK
<1>4. UpTo(bucket + 1) = UpTo(bucket) \cup InBucket(bucket)
  BY <1>3, NextUpTo DEF TypeInv
<1>5. replayed = UpTo(bucket + 1)
  BY <1>1, <1>4 DEF ReplayInv, ReplayOrdered
<1>6. UpTo(bucket + 1) \subseteq UpTo(bucket + 1 + 1)
  <2>1. bucket + 1 \in Nat
    BY <1>3
  <2>2. QED
    BY <2>1, NextUpTo DEF TypeInv
<1>7. ReplayOrdered'
  <2>1. /\ UpTo(bucket + 1) \subseteq replayed
        /\ replayed \subseteq UpTo(bucket + 1 + 1)
    BY <1>5, <1>6
  <2>2. \A a \in replayed : \A b \in Positions \ replayed : Precedes(a, b)
    BY <1>1 DEF ReplayInv, ReplayOrdered
  <2>3. QED
    BY <1>1, <1>2, <2>1, <2>2 DEF ReplayOrdered
<1>8. mesh = PresentEdges(replayed)
  BY <1>1 DEF ReplayInv, MeshReplayed
<1>9. MeshReplayed'
  BY <1>1, <1>2, <1>8 DEF MeshReplayed
<1>10. /\ Len(snapshots) = bucket
       /\ \A k \in 1 .. Len(snapshots) : snapshots[k] = PresentEdges(UpTo(k))
  BY DEF ReplayInv, SnapshotsRight
<1>11. Len(snapshots') = bucket + 1
  BY <1>1, <1>3, <1>10
<1>12. ASSUME NEW k \in 1 .. bucket + 1
       PROVE  snapshots'[k] = PresentEdges(UpTo(k))
  <2>1. CASE k = bucket + 1
    <3>1. snapshots'[k] = mesh
      BY <1>1, <1>3, <1>10, <2>1
    <3>2. QED
      BY <1>5, <1>8, <2>1, <3>1
  <2>2. CASE k # bucket + 1
    <3>1. k \in 1 .. Len(snapshots)
      BY <1>3, <1>10, <2>2
    <3>2. snapshots'[k] = snapshots[k]
      BY <1>1, <1>3, <3>1
    <3>3. QED
      BY <1>10, <3>1, <3>2
  <2>3. QED
    BY <2>1, <2>2
<1>13. SnapshotsRight'
  <2>1. ASSUME NEW k \in 1 .. bucket + 1
        PROVE  snapshots'[k] = PresentEdges(UpTo(k))'
    <3>1. PresentEdges(UpTo(k))' = PresentEdges(UpTo(k))
      BY <1>2
    <3>2. QED
      BY <1>12, <3>1
  <2>2. QED
    BY <1>1, <1>11, <2>1 DEF SnapshotsRight
<1>14. AllReplayed'
  <2>1. CASE ~ IsLastBucket(bucket)
    BY <1>1, <2>1 DEF AllReplayed
  <2>2. CASE IsLastBucket(bucket)
    <3>1. \A pos \in Positions : bucket_index(At(pos).ts) < bucket + 1
      BY <1>3, <2>2, BucketTypes DEF IsLastBucket, TypeInv
    <3>2. UpTo(bucket + 1) = Positions
      BY <3>1 DEF UpTo
    <3>3. UpTo(Len(snapshots))' = Positions'
      BY <1>2, <1>11, <3>2
    <3>4. Len(snapshots') >= 1
      BY <1>3, <1>11
    <3>5. QED
      BY <3>3, <3>4 DEF AllReplayed
  <2>3. QED
    BY <2>1, <2>2
<1>15. Sorted'
  BY <1>1, SortedKept DEF ReplayInv
<1>16. QED
  BY <1>7, <1>9, <1>13, <1>14, <1>15 DEF ReplayInv

(* The later passes do not touch what the replay has left.                 *)
LEMMA LaterKeepsReplay ==
  ASSUME ReplayInv,
         UNCHANGED <<traces, first_ts, bucket, replayed, mesh, snapshots>>,
         \/ pc' = pc
         \/ /\ pc \in {"timing", "measuring", "extracting", "done"}
            /\ pc' \in {"timing", "measuring", "extracting", "done"}
  PROVE  ReplayInv'
<1>1. /\ Positions' = Positions
      /\ \A k : UpTo(k)' = UpTo(k)
      /\ \A a, b : Precedes(a, b)' <=> Precedes(a, b)
      /\ \A S : PresentEdges(S)' = PresentEdges(S)
  BY SameTraces, BucketsKept, PresentKept
<1>2. Sorted'
  BY SortedKept DEF ReplayInv
<1>3. ReplayOrdered'
  BY <1>1 DEF ReplayInv, ReplayOrdered
<1>4. MeshReplayed'
  BY <1>1 DEF ReplayInv, MeshReplayed
<1>5. AllReplayed'
  BY <1>1 DEF ReplayInv, AllReplayed
<1>6. SnapshotsRight'
  BY <1>1 DEF ReplayInv, SnapshotsRight
<1>7. QED
  BY <1>2, <1>3, <1>4, <1>5, <1>6 DEF ReplayInv

LEMMA ReplayInductive == Spec => [](TypeInv /\ ReplayInv)
<1>1. Init => ReplayInv
  <2> SUFFICES ASSUME Init PROVE ReplayInv
    OBVIOUS
  <2>1. \A p \in Peers : Len(traces[p]) = 0
    BY DEF Init
  <2>2. ASSUME NEW pos \in Positions PROVE FALSE
    <3>1. pos[1] \in Peers /\ pos[2] \in Nat /\ pos[2] >= 1 /\ pos[2] <= Len(traces[pos[1]])
      BY TraceAssumption DEF Positions
    <3>2. Len(traces[pos[1]]) = 0
      BY <2>1, <3>1
    <3>3. pos[2] <= 0
      BY <3>1, <3>2
    <3>4. QED
      BY <3>1, <3>3
  <2>3. Sorted
    BY <2>2 DEF Sorted
  <2>4. ReplayOrdered /\ MeshReplayed /\ AllReplayed
    BY DEF Init, ReplayOrdered, MeshReplayed, AllReplayed
  <2>5. SnapshotsRight
    BY DEF Init, SnapshotsRight
  <2>6. QED
    BY <2>3, <2>4, <2>5 DEF ReplayInv
<1>2. TypeInv /\ TypeInv' /\ ReplayInv /\ [Next]_vars => ReplayInv'
  <2> SUFFICES ASSUME TypeInv, TypeInv', ReplayInv, [Next]_vars
               PROVE  ReplayInv'
    OBVIOUS
  <2>1. CASE TimeEvent
    BY <2>1, LaterKeepsReplay, Zenon DEF TimeEvent, replayVars
  <2>2. CASE MeasureSnapshot
    BY <2>2, LaterKeepsReplay, Zenon DEF MeasureSnapshot, replayVars
  <2>3. CASE ExtractLine
    BY <2>3, LaterKeepsReplay, Zenon DEF ExtractLine, replayVars
  <2>4. CASE NextPass
    BY <2>4, LaterKeepsReplay DEF NextPass
  <2>5. QED
    BY <2>1, <2>2, <2>3, <2>4, StepKinds, RecordKeepsReplay,
       ReadKeepsReplay, ReplayKeepsReplay, CloseKeepsReplay
<1>3. QED
  BY <1>1, <1>2, TypesInductive, PTL DEF Spec

(* Every snapshot is the mesh the nodes' own files tell of up to the end   *)
(* of its bucket, for any number of nodes and events, any bucket width,    *)
(* and clocks that have nothing in common.                                 *)
THEOREM ReplayFollowsTraces == Spec => []SnapshotsFollowTraces
<1>1. TypeInv /\ ReplayInv => SnapshotsFollowTraces
  BY DEF ReplayInv, SnapshotsRight, SnapshotsFollowTraces, PresentEdges
<1>2. QED
  BY <1>1, ReplayInductive, PTL

-----------------------------------------------------------------------------
(* The other program.                                                      *)
ExtractOrdered ==
  \A a \in extracted : \A b \in Positions \ extracted : FileOrder(a, b)

ExtractRight ==
  /\ meshEdges = PresentEdges(extracted)
  /\ \A a \in extracted : Grafts(a) => EdgeOf(a) \in maxMeshEdges
  /\ pc = "done" => Positions \subseteq extracted

ExtractInv == ExtractOrdered /\ ExtractRight

LEMMA ExtractKeeps ==
  ASSUME TypeInv, ExtractInv, ExtractLine
  PROVE  ExtractInv'
<1>1. PICK pos \in Positions \ extracted :
       /\ \A other \in Positions \ extracted : other = pos \/ FileOrder(pos, other)
       /\ extracted' = extracted \cup {pos}
       /\ meshEdges' = IF Grafts(pos) THEN meshEdges \cup {EdgeOf(pos)}
                       ELSE IF Prunes(pos) THEN meshEdges \ {EdgeOf(pos)}
                       ELSE meshEdges
       /\ maxMeshEdges' = IF Grafts(pos) THEN maxMeshEdges \cup {EdgeOf(pos)}
                          ELSE maxMeshEdges
  BY Zenon DEF ExtractLine
<1>2. pc = "extracting" /\ pc' = pc /\ traces' = traces
  BY Zenon DEF ExtractLine
<1>3. /\ Positions' = Positions
      /\ \A q : EdgeOf(q)' = EdgeOf(q)
      /\ \A q : Grafts(q)' = Grafts(q)
      /\ \A S : PresentEdges(S)' = PresentEdges(S)
  BY <1>2, SameTraces, PresentKept
<1>4. ExtractOrdered'
  <2>1. \A a \in extracted' : \A b \in Positions \ extracted' : FileOrder(a, b)
    BY <1>1 DEF ExtractInv, ExtractOrdered
  <2>2. QED
    BY <1>3, <2>1 DEF ExtractOrdered, FileOrder
<1>5. meshEdges' = PresentEdges(extracted \cup {pos})
  <2>1. \A a \in extracted : FileOrder(a, pos)
    BY <1>1 DEF ExtractInv, ExtractOrdered
  <2>2. extracted \subseteq Positions
    BY DEF TypeInv, TypeOK
  <2>3. PresentEdges(extracted \cup {pos}) =
          IF Grafts(pos) THEN PresentEdges(extracted) \cup {EdgeOf(pos)}
          ELSE IF Prunes(pos) THEN PresentEdges(extracted) \ {EdgeOf(pos)}
          ELSE PresentEdges(extracted)
    BY <1>1, <2>1, <2>2, PresentEdgesStep DEF TypeInv
  <2>4. QED
    BY <1>1, <2>3 DEF ExtractInv, ExtractRight
<1>6. \A a \in extracted' : Grafts(a)' => EdgeOf(a)' \in maxMeshEdges'
  BY <1>1, <1>3 DEF ExtractInv, ExtractRight
<1>7. ExtractRight'
  BY <1>1, <1>2, <1>3, <1>5, <1>6 DEF ExtractRight
<1>8. QED
  BY <1>4, <1>7 DEF ExtractInv

LEMMA OthersKeepExtract ==
  ASSUME TypeInv, ExtractInv, UNCHANGED <<extracted, meshEdges, maxMeshEdges>>,
         \/ traces' = traces /\ (pc' = "done" => Positions \subseteq extracted)
         \/ pc = "recording" /\ pc' = pc
  PROVE  ExtractInv'
<1>1. CASE traces' = traces /\ (pc' = "done" => Positions \subseteq extracted)
  <2>1. /\ Positions' = Positions
        /\ \A q : EdgeOf(q)' = EdgeOf(q)
        /\ \A q : Grafts(q)' = Grafts(q)
        /\ \A S : PresentEdges(S)' = PresentEdges(S)
    BY <1>1, SameTraces, PresentKept
  <2>2. ExtractOrdered'
    BY <2>1 DEF ExtractInv, ExtractOrdered, FileOrder
  <2>3. ExtractRight'
    BY <1>1, <2>1 DEF ExtractInv, ExtractRight
  <2>4. QED
    BY <2>2, <2>3 DEF ExtractInv
<1>2. CASE pc = "recording" /\ pc' = pc
  <2>1. extracted' = {} /\ meshEdges' = {}
    BY <1>2 DEF TypeInv, NothingRead
  <2>2. QED
    BY <1>2, <2>1
       DEF ExtractInv, ExtractOrdered, ExtractRight, PresentEdges, Present
<1>3. QED
  BY <1>1, <1>2

LEMMA ExtractInductive == Spec => [](TypeInv /\ ExtractInv)
<1>1. Init => ExtractInv
  BY NothingPresent DEF Init, ExtractInv, ExtractOrdered, ExtractRight
<1>2. TypeInv /\ ExtractInv /\ [Next]_vars => ExtractInv'
  <2> SUFFICES ASSUME TypeInv, ExtractInv, [Next]_vars
               PROVE  ExtractInv'
    OBVIOUS
  <2> USE DEF extractVars
  <2>1. ASSUME NEW p \in Peers, Record(p) PROVE ExtractInv'
    BY <2>1, OthersKeepExtract, Zenon DEF Record
  <2>2. CASE ReadTraces
    BY <2>2, OthersKeepExtract DEF ReadTraces
  <2>3. CASE ReplayEvent
    BY <2>3, OthersKeepExtract DEF ReplayEvent
  <2>4. CASE CloseBucket
    BY <2>4, OthersKeepExtract DEF CloseBucket
  <2>5. CASE TimeEvent
    <3>1. /\ UNCHANGED <<traces, pc, extracted, meshEdges, maxMeshEdges>>
          /\ pc = "timing"
      BY <2>5, Zenon DEF TimeEvent
    <3>2. QED
      BY <3>1, OthersKeepExtract
  <2>6. CASE MeasureSnapshot
    <3>1. /\ UNCHANGED <<traces, pc, extracted, meshEdges, maxMeshEdges>>
          /\ pc = "measuring"
      BY <2>6, Zenon DEF MeasureSnapshot
    <3>2. QED
      BY <3>1, OthersKeepExtract
  <2>7. CASE ExtractLine
    BY <2>7, ExtractKeeps
  <2>8. CASE NextPass
    <3>1. pc' = "done" => Positions \subseteq extracted
      BY <2>8 DEF NextPass, ExtractInv, ExtractRight
    <3>2. QED
      BY <2>8, <3>1, OthersKeepExtract DEF NextPass
  <2>9. QED
    BY <2>1, <2>2, <2>3, <2>4, <2>5, <2>6, <2>7, <2>8, StepKinds
<1>3. QED
  BY <1>1, <1>2, TypesInductive, PTL DEF Spec

(* Both programs end with the same mesh, and the file-order program has    *)
(* seen every edge of every snapshot.                                      *)
THEOREM ProgramsAgree == Spec => []ExtractorAgrees
<1>1. TypeInv /\ ReplayInv /\ ExtractInv => ExtractorAgrees
  <2> SUFFICES ASSUME TypeInv, ReplayInv, ExtractInv, pc = "done"
               PROVE  /\ meshEdges = snapshots[Len(snapshots)]
                      /\ \A k \in 1 .. Len(snapshots) : snapshots[k] \subseteq maxMeshEdges
    BY DEF ExtractorAgrees
  <2>1. extracted = Positions /\ meshEdges = PresentEdges(Positions)
    BY DEF TypeInv, TypeOK, ExtractInv, ExtractRight
  <2>2. Len(snapshots) >= 1 /\ UpTo(Len(snapshots)) = Positions
    BY DEF ReplayInv, AllReplayed
  <2>3. Len(snapshots) \in 1 .. Len(snapshots)
    BY <2>2 DEF TypeInv, TypeOK
  <2>4. \A k \in 1 .. Len(snapshots) : snapshots[k] = PresentEdges(UpTo(k))
    BY DEF ReplayInv, SnapshotsRight
  <2>5. meshEdges = snapshots[Len(snapshots)]
    BY <2>1, <2>2, <2>3, <2>4
  <2>6. ASSUME NEW k \in 1 .. Len(snapshots), NEW e \in snapshots[k]
        PROVE  e \in maxMeshEdges
    <3>1. Present(e, UpTo(k))
      BY <2>4, <2>6 DEF PresentEdges
    <3>2. PICK a \in UpTo(k) : Grafts(a) /\ EdgeOf(a) = e
      BY <3>1 DEF Present
    <3>3. a \in Positions
      BY DEF UpTo
    <3>4. QED
      BY <2>1, <3>2, <3>3 DEF ExtractInv, ExtractRight
  <2>7. QED
    BY <2>5, <2>6
<1>2. QED
  BY <1>1, ReplayInductive, ExtractInductive, PTL

-----------------------------------------------------------------------------
(* The lifetimes.  The second replay has the mesh of the events it has     *)
(* looked at, and no time in its tables is later than an event to come.    *)
NothingTimed ==
  pc \in {"recording", "replaying", "failed"} =>
    timed = {} /\ lifetimes = {} /\ \A e \in Edges : starts[e] = NoStart

TimeOrdered ==
  \A a \in timed : \A b \in Positions \ timed : Precedes(a, b)

StartsRight == {e \in Edges : starts[e] # NoStart} = PresentEdges(timed)

AllTimed ==
  pc \in {"measuring", "extracting", "done"} => Positions \subseteq timed

TimesPassed ==
  \A b \in Positions \ timed :
    /\ \A e \in Edges : starts[e] # NoStart => starts[e] <= At(b).ts - first_ts
    /\ \A l \in lifetimes : l.end <= At(b).ts - first_ts

LifetimesApart ==
  \A l \in lifetimes :
    /\ l.start <= l.end
    /\ starts[l.edge] # NoStart => l.end <= starts[l.edge]
    /\ \A m \in lifetimes :
         l.edge = m.edge /\ l # m => l.end <= m.start \/ m.end <= l.start

TimeInv == /\ NothingTimed /\ TimeOrdered /\ StartsRight /\ AllTimed
           /\ TimesPassed /\ LifetimesApart

(* What one event does to the tables, without the order of the events: it  *)
(* is no earlier than any time in them.                                    *)
LEMMA TablesStep ==
  ASSUME TypeOK, LifetimesApart, NEW e, NEW t \in Nat, NEW grafts, NEW prunes,
         grafts \in BOOLEAN, prunes \in BOOLEAN,
         grafts \/ prunes => e \in Edges,
         \A f \in Edges : starts[f] # NoStart => starts[f] <= t,
         \A l \in lifetimes : l.end <= t,
         starts' = IF grafts THEN [starts EXCEPT ![e] = t]
                   ELSE IF prunes THEN [starts EXCEPT ![e] = NoStart] ELSE starts,
         ~ (grafts /\ prunes),
         lifetimes' = IF prunes /\ starts[e] # NoStart
                      THEN lifetimes \cup
                             {[edge |-> e, start |-> starts[e], end |-> t]}
                      ELSE lifetimes
  PROVE  /\ LifetimesApart'
         /\ \A f \in Edges : starts'[f] # NoStart => starts'[f] <= t
         /\ \A l \in lifetimes' : l.end <= t
<1>1. /\ starts \in [Edges -> Nat \cup {NoStart}] /\ lifetimes \subseteq Lifetime
  BY DEF TypeOK
<1>2. \A f \in Edges : starts'[f] # NoStart => starts'[f] <= t
  BY <1>1
<1>3. CASE ~ prunes \/ starts[e] = NoStart
  <2>1. lifetimes' = lifetimes
    BY <1>3
  <2>2. ASSUME NEW l \in lifetimes, starts'[l.edge] # NoStart
        PROVE  l.end <= starts'[l.edge]
    <3>1. l.edge \in Edges
      BY <1>1 DEF Lifetime
    <3>2. QED
      BY <1>1, <2>2, <3>1 DEF LifetimesApart
  <2>3. QED
    BY <1>2, <2>1, <2>2 DEF LifetimesApart
<1>4. CASE prunes /\ starts[e] # NoStart
  <2> DEFINE new == [edge |-> e, start |-> starts[e], end |-> t]
  <2>1. /\ lifetimes' = lifetimes \cup {new} /\ e \in Edges
        /\ starts' = [starts EXCEPT ![e] = NoStart]
    BY <1>4
  <2>2. new.edge = e /\ new.start = starts[e] /\ new.end = t
    OBVIOUS
  <2> HIDE DEF new
  <2>3. starts'[e] = NoStart /\ new.start <= new.end
    BY <1>1, <1>4, <2>1, <2>2
  <2>4. ASSUME NEW l \in lifetimes
        PROVE  /\ l.start <= l.end
               /\ starts'[l.edge] # NoStart => l.end <= starts'[l.edge]
               /\ l.edge = e => l.end <= new.start
    <3>1. l.edge \in Edges
      BY <1>1 DEF Lifetime
    <3>2. QED
      BY <1>1, <1>4, <2>1, <2>2, <3>1 DEF LifetimesApart
  <2>5. \A l \in lifetimes' :
          /\ l.start <= l.end
          /\ starts'[l.edge] # NoStart => l.end <= starts'[l.edge]
    BY <2>1, <2>2, <2>3, <2>4
  <2>6. \A l, m \in lifetimes' :
          l.edge = m.edge /\ l # m => l.end <= m.start \/ m.end <= l.start
    BY <2>1, <2>2, <2>4 DEF LifetimesApart
  <2>7. \A l \in lifetimes' : l.end <= t
    BY <2>1, <2>2
  <2>8. QED
    BY <1>2, <2>5, <2>6, <2>7 DEF LifetimesApart
<1>5. QED
  BY <1>3, <1>4

LEMMA TimeKeeps ==
  ASSUME TypeInv, ReplayInv, TimeInv, TimeEvent
  PROVE  TimeInv'
<1>1. PICK pos \in Positions \ timed :
        /\ \A other \in Positions \ timed : other = pos \/ Precedes(pos, other)
        /\ timed' = timed \cup {pos}
        /\ LET e == EdgeOf(pos)
               t == At(pos).ts - first_ts
           IN  /\ starts' = IF Grafts(pos) THEN [starts EXCEPT ![e] = t]
                            ELSE IF Prunes(pos)
                            THEN [starts EXCEPT ![e] = NoStart] ELSE starts
               /\ lifetimes' = IF Prunes(pos) /\ starts[e] # NoStart
                               THEN lifetimes \cup
                                      {[edge |-> e, start |-> starts[e], end |-> t]}
                               ELSE lifetimes
  BY Zenon DEF TimeEvent
<1>2. pc = "timing" /\ pc' = pc /\ UNCHANGED <<traces, first_ts>>
  BY Zenon DEF TimeEvent, replayVars
<1>3. /\ Positions' = Positions /\ \A q : At(q)' = At(q)
      /\ \A a, b : Precedes(a, b)' <=> Precedes(a, b)
      /\ \A S : PresentEdges(S)' = PresentEdges(S)
  BY <1>2, SameTraces, BucketsKept, PresentKept
<1>4. /\ pos \in Positions /\ timed \subseteq Positions
      /\ starts \in [Edges -> Nat \cup {NoStart}]
  BY DEF TypeInv, TypeOK
<1> DEFINE t == At(pos).ts - first_ts
<1>5. t \in Nat /\ first_ts \in Nat /\ \A b \in Positions : At(b).ts \in Nat
  <2>1. first_ts <= At(pos).ts
    BY <1>2 DEF TypeInv, FirstIsFirst, Started
  <2>2. first_ts \in Nat /\ \A b \in Positions : At(b).ts \in Nat
    BY EventTypes DEF TypeInv, TypeOK
  <2>3. QED
    BY <2>1, <2>2
<1>6. Grafts(pos) \/ Prunes(pos) => EdgeOf(pos) \in Edges
  BY EventTypes DEF TypeInv
<1>7. ~ (Grafts(pos) /\ Prunes(pos)) /\ Grafts(pos) \in BOOLEAN /\ Prunes(pos) \in BOOLEAN
  BY DEF Grafts, Prunes
<1>8. ASSUME NEW a \in timed, EdgeOf(a) = EdgeOf(pos) PROVE FileOrder(a, pos)
  <2>1. a \in Positions /\ Precedes(a, pos) /\ a[1] = pos[1]
    BY <1>4, <1>8 DEF TimeInv, TimeOrdered, EdgeOf
  <2>2. QED
    BY <2>1, PrecedesInFile DEF TypeInv, ReplayInv
<1>9. PresentEdges(timed \cup {pos}) =
        IF Grafts(pos) THEN PresentEdges(timed) \cup {EdgeOf(pos)}
        ELSE IF Prunes(pos) THEN PresentEdges(timed) \ {EdgeOf(pos)}
        ELSE PresentEdges(timed)
  BY <1>4, <1>8, PresentEdgesStep DEF TypeInv
<1>10. StartsRight'
  <2>1. starts' = IF Grafts(pos) THEN [starts EXCEPT ![EdgeOf(pos)] = t]
                  ELSE IF Prunes(pos)
                  THEN [starts EXCEPT ![EdgeOf(pos)] = NoStart] ELSE starts
    BY <1>1
  <2>2. t # NoStart
    BY <1>5 DEF NoStart
  <2>3. {e \in Edges : starts[e] # NoStart} = PresentEdges(timed)
    BY DEF TimeInv, StartsRight
  <2> HIDE DEF t
  <2>4. {e \in Edges : starts'[e] # NoStart} = PresentEdges(timed \cup {pos})
    <3>1. CASE Grafts(pos)
      BY <1>4, <1>6, <1>9, <2>1, <2>2, <2>3, <3>1
    <3>2. CASE ~ Grafts(pos) /\ Prunes(pos)
      BY <1>4, <1>6, <1>9, <2>1, <2>3, <3>2
    <3>3. CASE ~ Grafts(pos) /\ ~ Prunes(pos)
      BY <1>9, <2>1, <2>3, <3>3
    <3>4. QED
      BY <3>1, <3>2, <3>3
  <2>5. Edges' = Edges /\ NoStart' = NoStart
    BY DEF Edges, NoStart
  <2>6. QED
    BY <1>1, <1>3, <2>4, <2>5 DEF StartsRight
<1>11. TimeOrdered'
  <2>1. \A a \in timed' : \A b \in Positions \ timed' : Precedes(a, b)
    BY <1>1 DEF TimeInv, TimeOrdered
  <2>2. QED
    BY <1>3, <2>1 DEF TimeOrdered
<1>12. /\ LifetimesApart'
       /\ \A f \in Edges : starts'[f] # NoStart => starts'[f] <= t
       /\ \A l \in lifetimes' : l.end <= t
  <2>1. /\ \A f \in Edges : starts[f] # NoStart => starts[f] <= t
        /\ \A l \in lifetimes : l.end <= t
    BY DEF TimeInv, TimesPassed
  <2>2. LifetimesApart /\ TypeOK
    BY DEF TimeInv, TypeInv
  <2>3. /\ starts' = IF Grafts(pos) THEN [starts EXCEPT ![EdgeOf(pos)] = t]
                     ELSE IF Prunes(pos)
                     THEN [starts EXCEPT ![EdgeOf(pos)] = NoStart] ELSE starts
        /\ lifetimes' = IF Prunes(pos) /\ starts[EdgeOf(pos)] # NoStart
                        THEN lifetimes \cup {[edge |-> EdgeOf(pos),
                               start |-> starts[EdgeOf(pos)], end |-> t]}
                        ELSE lifetimes
    BY <1>1
  <2> HIDE DEF t
  <2>4. QED
    BY <1>5, <1>6, <1>7, <2>1, <2>2, <2>3, TablesStep
<1>13. TimesPassed'
  <2>1. ASSUME NEW b \in Positions \ timed' PROVE t <= At(b).ts - first_ts
    <3>1. Precedes(pos, b) /\ b \in Positions
      BY <1>1, <2>1
    <3>2. At(pos).ts <= At(b).ts
      BY <1>4, <1>5, <3>1 DEF Precedes
    <3>3. QED
      BY <1>4, <1>5, <3>1, <3>2
  <2>2. \A l \in lifetimes' : l.end \in Nat
    BY TimeKeepsTypes DEF TypeInv, TypeOK, Lifetime
  <2>3. \A f \in Edges : starts'[f] # NoStart => starts'[f] \in Nat
    BY TimeKeepsTypes DEF TypeInv, TypeOK
  <2>4. \A b \in Positions \ timed' : At(b).ts - first_ts \in Int
    BY <1>5
  <2> HIDE DEF t
  <2>5. \A b \in Positions \ timed' :
          /\ \A e \in Edges : starts'[e] # NoStart => starts'[e] <= At(b).ts - first_ts
          /\ \A l \in lifetimes' : l.end <= At(b).ts - first_ts
    BY <1>5, <1>12, <2>1, <2>2, <2>3, <2>4
  <2>6. QED
    BY <1>2, <1>3, <2>5 DEF TimesPassed
<1>14. NothingTimed' /\ AllTimed'
  BY <1>2 DEF NothingTimed, AllTimed
<1>15. QED
  BY <1>10, <1>11, <1>12, <1>13, <1>14 DEF TimeInv

(* Before and after its pass the tables stay as they are.                  *)
Onward ==
  /\ UNCHANGED <<traces, first_ts>>
  /\ \/ pc' = pc
     \/ pc = "replaying" /\ pc' = "timing"
     \/ pc = "timing" /\ pc' = "measuring" /\ Positions \subseteq timed
     \/ pc = "measuring" /\ pc' = "extracting"
     \/ pc = "extracting" /\ pc' = "done"

LEMMA OthersKeepTime ==
  ASSUME TypeInv, TimeInv, UNCHANGED <<timed, starts, lifetimes>>,
         \/ Onward
         \/ pc = "recording" /\ pc' \in {"recording", "replaying", "failed"}
  PROVE  TimeInv'
<1>1. CASE Onward
  <2>1. /\ Positions' = Positions /\ \A q : At(q)' = At(q)
        /\ \A a, b : Precedes(a, b)' <=> Precedes(a, b)
        /\ \A S : PresentEdges(S)' = PresentEdges(S)
    BY <1>1, SameTraces, BucketsKept, PresentKept DEF Onward
  <2>2. TimeOrdered' /\ StartsRight'
    BY <2>1 DEF TimeInv, TimeOrdered, StartsRight
  <2>3. TimesPassed' /\ LifetimesApart'
    BY <1>1, <2>1 DEF Onward, TimeInv, TimesPassed, LifetimesApart
  <2>4. NothingTimed' /\ AllTimed'
    BY <1>1, <2>1 DEF Onward, TimeInv, NothingTimed, AllTimed
  <2>5. QED
    BY <2>2, <2>3, <2>4 DEF TimeInv
<1>2. CASE pc = "recording" /\ pc' \in {"recording", "replaying", "failed"}
  <2>1. timed' = {} /\ lifetimes' = {} /\ \A e \in Edges : starts'[e] = NoStart
    BY <1>2 DEF TimeInv, NothingTimed
  <2>2. QED
    BY <1>2, <2>1
       DEF TimeInv, NothingTimed, TimeOrdered, StartsRight, AllTimed,
           TimesPassed, LifetimesApart, PresentEdges, Present
<1>3. QED
  BY <1>1, <1>2

(* Every other step leaves the tables alone.                               *)
LEMMA StepsOffTiming ==
  ASSUME [Next]_vars, ~ TimeEvent
  PROVE  /\ UNCHANGED <<timed, starts, lifetimes>>
         /\ \/ Onward
            \/ pc = "recording" /\ pc' \in {"recording", "replaying", "failed"}
<1> USE DEF timingVars
<1>1. ASSUME NEW p \in Peers, Record(p)
      PROVE  pc = "recording" /\ UNCHANGED <<pc, timed, starts, lifetimes>>
  BY <1>1, Zenon DEF Record
<1>2. CASE ReadTraces
  BY <1>2 DEF ReadTraces
<1>3. CASE ReplayEvent
  BY <1>3 DEF ReplayEvent, Onward
<1>4. CASE CloseBucket
  BY <1>4 DEF CloseBucket, Onward
<1>5. CASE MeasureSnapshot
  <2>1. UNCHANGED <<traces, pc, first_ts, timed, starts, lifetimes>>
    BY <1>5, Zenon DEF MeasureSnapshot, replayVars
  <2>2. QED
    BY <2>1 DEF Onward
<1>6. CASE ExtractLine
  <2>1. UNCHANGED <<traces, pc, first_ts, timed, starts, lifetimes>>
    BY <1>6, Zenon DEF ExtractLine, replayVars
  <2>2. QED
    BY <2>1 DEF Onward
<1>7. CASE NextPass
  BY <1>7 DEF NextPass, Onward
<1>8. QED
  BY <1>1, <1>2, <1>3, <1>4, <1>5, <1>6, <1>7, StepKinds

LEMMA TimeInductive == Spec => []TimeInv
<1>1. Init => TimeInv
  BY NothingPresent
     DEF Init, TimeInv, NothingTimed, TimeOrdered, StartsRight, AllTimed,
         TimesPassed, LifetimesApart
<1>2. TypeInv /\ ReplayInv /\ TimeInv /\ [Next]_vars => TimeInv'
  <2> SUFFICES ASSUME TypeInv, ReplayInv, TimeInv, [Next]_vars
               PROVE  TimeInv'
    OBVIOUS
  <2>1. CASE TimeEvent
    BY <2>1, TimeKeeps
  <2>2. CASE ~ TimeEvent
    BY <2>2, StepsOffTiming, OthersKeepTime
  <2>3. QED
    BY <2>1, <2>2
<1>3. QED
  BY <1>1, <1>2, ReplayInductive, PTL DEF Spec

(* The second replay, with rules of its own, leaves open exactly the edges *)
(* of the last snapshot, and closed lifetimes of an edge do not overlap,   *)
(* for any files, clocks and bucket width.                                 *)
THEOREM LifetimesFollowSnapshots == Spec => []LifetimesMatchSnapshots
<1>1. TypeInv /\ ReplayInv /\ TimeInv => LifetimesMatchSnapshots
  <2> SUFFICES ASSUME TypeInv, ReplayInv, TimeInv,
                      pc \in {"measuring", "extracting", "done"}
               PROVE  /\ {e \in Edges : starts[e] # NoStart}
                            = snapshots[Len(snapshots)]
                      /\ LifetimesApart
    BY DEF LifetimesMatchSnapshots, LifetimesApart
  <2>1. timed = Positions
    BY DEF TypeInv, TypeOK, TimeInv, AllTimed
  <2>2. Len(snapshots) >= 1 /\ UpTo(Len(snapshots)) = Positions
    BY DEF ReplayInv, AllReplayed
  <2>3. Len(snapshots) \in 1 .. Len(snapshots)
    BY <2>2 DEF TypeInv, TypeOK
  <2>4. snapshots[Len(snapshots)] = PresentEdges(Positions)
    BY <2>2, <2>3 DEF ReplayInv, SnapshotsRight
  <2>5. QED
    BY <2>1, <2>4 DEF TimeInv, StartsRight
<1>2. QED
  BY <1>1, TypesInductive, ReplayInductive, TimeInductive, PTL

-----------------------------------------------------------------------------
(* What the tables of the second replay stand for: each closed lifetime is *)
(* a graft and the prune that is the owner's next word on the edge, each   *)
(* open one the last graft, and no graft is forgotten: it is open, or its  *)
(* first prune has closed a lifetime.                                      *)
TimeOf(pos) == At(pos).ts - first_ts

MeshEvent(b, e) == (Grafts(b) \/ Prunes(b)) /\ EdgeOf(b) = e

Spans(l, g, q) ==
  /\ Grafts(g) /\ EdgeOf(g) = l.edge /\ l.start = TimeOf(g)
  /\ Prunes(q) /\ EdgeOf(q) = l.edge /\ l.end = TimeOf(q)
  /\ FileOrder(g, q)
  /\ \A b \in timed : MeshEvent(b, l.edge) =>
       ~ (FileOrder(g, b) /\ FileOrder(b, q))

LastGraft(e, g) ==
  /\ Grafts(g) /\ EdgeOf(g) = e
  /\ \A b \in timed : MeshEvent(b, e) => b = g \/ FileOrder(b, g)

StartsTraced ==
  \A e \in Edges : starts[e] # NoStart =>
    \E g \in timed : LastGraft(e, g) /\ starts[e] = TimeOf(g)

LifetimesTraced == \A l \in lifetimes : \E g, q \in timed : Spans(l, g, q)

NeverPruned(a) ==
  \A b \in timed : Prunes(b) /\ EdgeOf(b) = EdgeOf(a) => FileOrder(b, a)

FirstPrune(a, q) ==
  \A b \in timed : Prunes(b) /\ EdgeOf(b) = EdgeOf(a) =>
    ~ (FileOrder(a, b) /\ FileOrder(b, q))

Closes(a, l, g, q) ==
  /\ Spans(l, g, q) /\ l.edge = EdgeOf(a)
  /\ a = g \/ FileOrder(a, g)
  /\ FirstPrune(a, q)

GraftsTraced ==
  \A a \in timed : Grafts(a) =>
    NeverPruned(a) \/ \E l \in lifetimes : \E g, q \in timed : Closes(a, l, g, q)

TracedInv == StartsTraced /\ LifetimesTraced /\ GraftsTraced

LEMMA TimesKept ==
  ASSUME traces' = traces, first_ts' = first_ts
  PROVE  /\ \A b : TimeOf(b)' = TimeOf(b)
         /\ \A b : EdgeOf(b)' = EdgeOf(b)
         /\ \A b, e : MeshEvent(b, e)' <=> MeshEvent(b, e)
         /\ \A b : (Grafts(b)' <=> Grafts(b)) /\ (Prunes(b)' <=> Prunes(b))
<1>1. /\ \A b : At(b)' = At(b)
      /\ \A b : EdgeOf(b)' = EdgeOf(b)
      /\ \A b : Grafts(b)' = Grafts(b) /\ Prunes(b)' = Prunes(b)
  BY SameTraces, Zenon
<1>2. \A b : TimeOf(b)' = TimeOf(b)
  BY <1>1 DEF TimeOf
<1>3. \A b : (Grafts(b)' <=> Grafts(b)) /\ (Prunes(b)' <=> Prunes(b))
  BY <1>1
<1>4. \A b, e : MeshEvent(b, e)' <=> MeshEvent(b, e)
  BY <1>1, <1>3 DEF MeshEvent
<1>5. QED
  BY <1>1, <1>2, <1>3, <1>4

(* The next event of the second replay is its owner's last word so far.    *)
LEMMA TimeKeepsTraced ==
  ASSUME TypeInv, ReplayInv, TimeInv, TracedInv, TimeEvent
  PROVE  TracedInv'
<1>1. PICK pos \in Positions \ timed :
        /\ \A other \in Positions \ timed : other = pos \/ Precedes(pos, other)
        /\ timed' = timed \cup {pos}
        /\ LET e == EdgeOf(pos)
               t == At(pos).ts - first_ts
           IN  /\ starts' = IF Grafts(pos) THEN [starts EXCEPT ![e] = t]
                            ELSE IF Prunes(pos)
                            THEN [starts EXCEPT ![e] = NoStart] ELSE starts
               /\ lifetimes' = IF Prunes(pos) /\ starts[e] # NoStart
                               THEN lifetimes \cup
                                      {[edge |-> e, start |-> starts[e], end |-> t]}
                               ELSE lifetimes
  BY Zenon DEF TimeEvent
<1> DEFINE e0 == EdgeOf(pos)
           new == [edge |-> e0, start |-> starts[e0], end |-> TimeOf(pos)]
<1>2. /\ starts' = IF Grafts(pos) THEN [starts EXCEPT ![e0] = TimeOf(pos)]
                   ELSE IF Prunes(pos) THEN [starts EXCEPT ![e0] = NoStart]
                   ELSE starts
      /\ lifetimes' = IF Prunes(pos) /\ starts[e0] # NoStart
                      THEN lifetimes \cup {new} ELSE lifetimes
  BY <1>1 DEF TimeOf
<1>3. new.edge = e0 /\ new.start = starts[e0] /\ new.end = TimeOf(pos)
  OBVIOUS
<1> HIDE DEF new, e0
<1>4. UNCHANGED <<traces, first_ts>>
  BY Zenon DEF TimeEvent, replayVars
<1>5. /\ \A b : TimeOf(b)' = TimeOf(b)
      /\ \A b : EdgeOf(b)' = EdgeOf(b)
      /\ \A b, e : MeshEvent(b, e)' <=> MeshEvent(b, e)
      /\ \A b : (Grafts(b)' <=> Grafts(b)) /\ (Prunes(b)' <=> Prunes(b))
  BY <1>4, TimesKept
<1>6. /\ pos \in Positions /\ timed \subseteq Positions /\ pos \notin timed
      /\ starts \in [Edges -> Nat \cup {NoStart}]
      /\ timed' = timed \cup {pos}
  BY <1>1 DEF TypeInv, TypeOK
<1>7. \A a, b \in timed' : FileOrder(a, b) => ~ FileOrder(b, a)
  BY <1>6, FileOrderAsymmetric DEF TypeInv
<1>8. ASSUME NEW a \in timed, EdgeOf(a) = e0 PROVE FileOrder(a, pos)
  <2>1. a \in Positions /\ Precedes(a, pos) /\ a[1] = pos[1]
    BY <1>6, <1>8 DEF TimeInv, TimeOrdered, EdgeOf, e0
  <2>2. QED
    BY <1>6, <2>1, PrecedesInFile DEF TypeInv, ReplayInv
<1>9. /\ ~ (Grafts(pos) /\ Prunes(pos))
      /\ Grafts(pos) \/ Prunes(pos) => e0 \in Edges
  BY <1>6, EventTypes DEF TypeInv, Grafts, Prunes, e0
<1>10. EdgeOf(pos) = e0
  BY DEF e0
<1>11. ASSUME NEW l, NEW g \in timed, NEW q \in timed, Spans(l, g, q)
       PROVE  Spans(l, g, q)'
  <2>1. ASSUME MeshEvent(pos, l.edge), FileOrder(g, pos), FileOrder(pos, q)
        PROVE  FALSE
    <3>1. EdgeOf(q) = e0
      BY <1>10, <1>11, <2>1 DEF MeshEvent, Spans
    <3>2. FileOrder(q, pos)
      BY <1>8, <3>1
    <3>3. QED
      BY <1>6, <1>7, <2>1, <3>2
  <2>2. \A b \in timed' : MeshEvent(b, l.edge) => ~ (FileOrder(g, b) /\ FileOrder(b, q))
    BY <1>6, <1>11, <2>1 DEF Spans
  <2>3. /\ Grafts(g) /\ EdgeOf(g) = l.edge /\ l.start = TimeOf(g)
        /\ Prunes(q) /\ EdgeOf(q) = l.edge /\ l.end = TimeOf(q)
        /\ FileOrder(g, q)
    BY <1>11 DEF Spans
  <2>4. FileOrder(g, q)' /\ \A b : FileOrder(g, b)' <=> FileOrder(g, b)
    BY <2>3 DEF FileOrder
  <2>5. \A b : FileOrder(b, q)' <=> FileOrder(b, q)
    BY DEF FileOrder
  <2>6. QED
    BY <1>5, <2>2, <2>3, <2>4, <2>5 DEF Spans
<1>12. ASSUME Prunes(pos), starts[e0] # NoStart, NEW l,
              l.edge = e0, l.start = starts[e0], l.end = TimeOf(pos)
       PROVE  \E g \in timed : LastGraft(e0, g) /\ Spans(l, g, pos)'
  <2>1. PICK g \in timed : LastGraft(e0, g) /\ starts[e0] = TimeOf(g)
    BY <1>9, <1>12 DEF TracedInv, StartsTraced
  <2>2. \A b \in timed' : MeshEvent(b, e0) => ~ (FileOrder(g, b) /\ FileOrder(b, pos))
    BY <1>6, <1>7, <2>1 DEF LastGraft
  <2>3. Grafts(g) /\ EdgeOf(g) = e0 /\ FileOrder(g, pos)
    BY <1>8, <2>1 DEF LastGraft
  <2>4. /\ \A b : FileOrder(g, b)' <=> FileOrder(g, b)
        /\ \A b : FileOrder(b, pos)' <=> FileOrder(b, pos)
    BY DEF FileOrder
  <2>5. Spans(l, g, pos)'
    BY <1>5, <1>10, <1>12, <2>1, <2>2, <2>3, <2>4 DEF Spans
  <2>6. QED
    BY <2>1, <2>5
<1>13. StartsTraced'
  <2> SUFFICES ASSUME NEW e \in Edges, starts'[e] # NoStart
               PROVE  \E g \in timed' : LastGraft(e, g)' /\ starts'[e] = TimeOf(g)'
    BY DEF StartsTraced, Edges, NoStart
  <2>1. \A a, b : FileOrder(a, b)' <=> FileOrder(a, b)
    BY DEF FileOrder
  <2>2. CASE e = e0 /\ Grafts(pos)
    <3>1. starts'[e] = TimeOf(pos)
      BY <1>2, <1>6, <2>2
    <3>2. \A b \in timed' : MeshEvent(b, e) => b = pos \/ FileOrder(b, pos)
      BY <1>6, <1>8, <2>2 DEF MeshEvent
    <3>3. LastGraft(e, pos)'
      BY <1>5, <1>10, <2>1, <2>2, <3>2 DEF LastGraft
    <3>4. QED
      BY <1>5, <1>6, <3>1, <3>3
  <2>3. CASE e = e0 /\ ~ Grafts(pos) /\ Prunes(pos)
    <3>1. starts'[e] = NoStart
      BY <1>2, <1>6, <2>3
    <3>2. QED
      BY <3>1
  <2>4. CASE e # e0 \/ (~ Grafts(pos) /\ ~ Prunes(pos))
    <3>1. starts'[e] = starts[e]
      BY <1>2, <1>6, <2>4
    <3>2. PICK g \in timed : LastGraft(e, g) /\ starts[e] = TimeOf(g)
      BY <3>1 DEF TracedInv, StartsTraced
    <3>3. ~ MeshEvent(pos, e)
      BY <1>10, <2>4 DEF MeshEvent
    <3>4. \A b \in timed' : MeshEvent(b, e) => b = g \/ FileOrder(b, g)
      BY <1>6, <3>2, <3>3 DEF LastGraft
    <3>5. LastGraft(e, g)'
      BY <1>5, <2>1, <3>2, <3>4 DEF LastGraft
    <3>6. QED
      BY <1>5, <1>6, <3>1, <3>2, <3>5
  <2>5. QED
    BY <2>2, <2>3, <2>4
<1>14. LifetimesTraced'
  <2> SUFFICES ASSUME NEW l \in lifetimes'
               PROVE  \E g, q \in timed' : Spans(l, g, q)'
    BY DEF LifetimesTraced
  <2>1. CASE l \in lifetimes
    <3>1. PICK g \in timed, q \in timed : Spans(l, g, q)
      BY <2>1 DEF TracedInv, LifetimesTraced
    <3>2. QED
      BY <1>6, <1>11, <3>1
  <2>2. CASE l \notin lifetimes
    <3>1. Prunes(pos) /\ starts[e0] # NoStart /\ l = new
      BY <1>2, <2>2
    <3>2. PICK g \in timed : Spans(l, g, pos)'
      BY <1>3, <1>12, <3>1
    <3>3. QED
      BY <1>6, <3>2
  <2>3. QED
    BY <2>1, <2>2
<1>15. GraftsTraced'
  <2> SUFFICES ASSUME NEW a \in timed', Grafts(a)
               PROVE  \/ NeverPruned(a)'
                      \/ \E l \in lifetimes' : \E g, q \in timed' : Closes(a, l, g, q)'
    BY <1>5 DEF GraftsTraced
  <2>1. \A b, c : FileOrder(b, c)' <=> FileOrder(b, c)
    BY DEF FileOrder
  <2>2. CASE a = pos
    <3>1. \A b \in timed' : Prunes(b) /\ EdgeOf(b) = EdgeOf(a) => FileOrder(b, a)
      BY <1>6, <1>8, <1>9, <1>10, <2>2
    <3>2. NeverPruned(a)'
      BY <1>5, <2>1, <3>1 DEF NeverPruned
    <3>3. QED
      BY <3>2
  <2>3. CASE a \in timed /\ NeverPruned(a) /\ ~ (Prunes(pos) /\ e0 = EdgeOf(a))
    <3>1. \A b \in timed' : Prunes(b) /\ EdgeOf(b) = EdgeOf(a) => FileOrder(b, a)
      BY <1>6, <1>10, <2>3 DEF NeverPruned
    <3>2. NeverPruned(a)'
      BY <1>5, <2>1, <3>1 DEF NeverPruned
    <3>3. QED
      BY <3>2
  <2>4. CASE a \in timed /\ NeverPruned(a) /\ Prunes(pos) /\ e0 = EdgeOf(a)
    <3>1. e0 \in Edges /\ Present(e0, timed)
      BY <1>9, <2>4 DEF NeverPruned, Present
    <3>2. starts[e0] # NoStart
      BY <3>1 DEF TimeInv, StartsRight, PresentEdges
    <3>3. PICK l : l = new
      OBVIOUS
    <3>4. l \in lifetimes' /\ l.edge = e0
      BY <1>2, <1>3, <2>4, <3>2, <3>3
    <3>5. PICK g \in timed : LastGraft(e0, g) /\ Spans(l, g, pos)'
      BY <1>3, <1>12, <2>4, <3>2, <3>3
    <3>6. a = g \/ FileOrder(a, g)
      BY <2>4, <3>5 DEF LastGraft, MeshEvent
    <3>7. \A b \in timed' : Prunes(b) /\ EdgeOf(b) = EdgeOf(a) =>
                              ~ (FileOrder(a, b) /\ FileOrder(b, pos))
      BY <1>6, <1>7, <2>4 DEF NeverPruned
    <3>8. FirstPrune(a, pos)'
      BY <1>5, <2>1, <3>7 DEF FirstPrune
    <3>9. Closes(a, l, g, pos)'
      BY <1>5, <2>1, <2>4, <3>4, <3>5, <3>6, <3>8 DEF Closes
    <3>10. QED
      BY <1>6, <3>4, <3>9
  <2>5. ASSUME a \in timed, NEW l \in lifetimes, NEW g \in timed, NEW q \in timed,
               Closes(a, l, g, q)
        PROVE  Closes(a, l, g, q)'
    <3>1. Spans(l, g, q)'
      BY <1>11, <2>5 DEF Closes
    <3>2. EdgeOf(pos) = EdgeOf(a) => ~ FileOrder(pos, q)
      <4>1. EdgeOf(q) = EdgeOf(a)
        BY <2>5 DEF Closes, Spans
      <4>2. QED
        BY <1>6, <1>7, <1>8, <1>10, <4>1
    <3>3. \A b \in timed' : Prunes(b) /\ EdgeOf(b) = EdgeOf(a) =>
                              ~ (FileOrder(a, b) /\ FileOrder(b, q))
      BY <1>6, <2>5, <3>2 DEF Closes, FirstPrune
    <3>4. FirstPrune(a, q)'
      BY <1>5, <2>1, <3>3 DEF FirstPrune
    <3>5. QED
      BY <1>5, <2>1, <2>5, <3>1, <3>4 DEF Closes
  <2>6. QED
    BY <1>2, <1>6, <2>2, <2>3, <2>4, <2>5 DEF TracedInv, GraftsTraced
<1>20. QED
  BY <1>13, <1>14, <1>15 DEF TracedInv

(* Before and after its pass the tables stay as they are.                  *)
LEMMA OthersKeepTraced ==
  ASSUME TypeInv, TimeInv, TracedInv, UNCHANGED <<timed, starts, lifetimes>>,
         \/ Onward
         \/ pc = "recording" /\ pc' \in {"recording", "replaying", "failed"}
  PROVE  TracedInv'
<1>1. CASE Onward
  <2>1. /\ \A b : TimeOf(b)' = TimeOf(b)
        /\ \A b : EdgeOf(b)' = EdgeOf(b)
        /\ \A b, e : MeshEvent(b, e)' <=> MeshEvent(b, e)
        /\ \A b : (Grafts(b)' <=> Grafts(b)) /\ (Prunes(b)' <=> Prunes(b))
        /\ \A b, c : FileOrder(b, c)' <=> FileOrder(b, c)
    BY <1>1, TimesKept DEF Onward, FileOrder
  <2>2. \A e, g : LastGraft(e, g)' <=> LastGraft(e, g)
    BY <2>1 DEF LastGraft
  <2>3. \A l, g, q : Spans(l, g, q)' <=> Spans(l, g, q)
    BY <2>1 DEF Spans
  <2>4. \A a : NeverPruned(a)' <=> NeverPruned(a)
    BY <2>1 DEF NeverPruned
  <2>5. \A a, l, g, q : Closes(a, l, g, q)' <=> Closes(a, l, g, q)
    BY <2>1, <2>3 DEF Closes, FirstPrune
  <2>6. StartsTraced' /\ LifetimesTraced'
    BY <2>1, <2>2, <2>3 DEF TracedInv, StartsTraced, LifetimesTraced
  <2>7. GraftsTraced'
    BY <2>1, <2>4, <2>5 DEF TracedInv, GraftsTraced
  <2>8. QED
    BY <2>6, <2>7 DEF TracedInv
<1>2. CASE pc = "recording" /\ pc' \in {"recording", "replaying", "failed"}
  <2>1. timed' = {} /\ lifetimes' = {} /\ \A e \in Edges : starts'[e] = NoStart
    BY <1>2 DEF TimeInv, NothingTimed
  <2>2. QED
    BY <2>1 DEF TracedInv, StartsTraced, LifetimesTraced, GraftsTraced, Edges, NoStart
<1>3. QED
  BY <1>1, <1>2

LEMMA TracedInductive == Spec => []TracedInv
<1>1. Init => TracedInv
  BY DEF Init, TracedInv, StartsTraced, LifetimesTraced, GraftsTraced
<1>2. TypeInv /\ ReplayInv /\ TimeInv /\ TracedInv /\ [Next]_vars => TracedInv'
  <2> SUFFICES ASSUME TypeInv, ReplayInv, TimeInv, TracedInv, [Next]_vars
               PROVE  TracedInv'
    OBVIOUS
  <2>1. CASE TimeEvent
    BY <2>1, TimeKeepsTraced
  <2>2. CASE ~ TimeEvent
    <3>1. /\ UNCHANGED <<timed, starts, lifetimes>>
          /\ \/ Onward
             \/ pc = "recording" /\ pc' \in {"recording", "replaying", "failed"}
      BY <2>2, StepsOffTiming
    <3>2. QED
      BY <3>1, OthersKeepTraced
  <2>3. QED
    BY <2>1, <2>2
<1>3. QED
  BY <1>1, <1>2, ReplayInductive, TimeInductive, PTL DEF Spec

-----------------------------------------------------------------------------
(* The lifetimes between snapshots: each is a run of snapshots that have   *)
(* the edge, from the first to the one after the last; and each snapshot   *)
(* measured so far is in such a run.                                       *)
Run(e, j, k) ==
  /\ j \in 1 .. k /\ e \notin EdgesOfSnapshot(j - 1)
  /\ \A i \in j .. k : e \in snapshots[i]

BirthsRight ==
  \A e \in Edges : births[e] # NoStart =>
    \E j \in 1 .. measured : births[e] = Snapshot(j) /\ Run(e, j, measured)

EndedRun(r, j, k) ==
  /\ j < k /\ r.start = Snapshot(j) /\ r.end = Snapshot(k)
  /\ Run(r.edge, j, k - 1) /\ r.edge \notin snapshots[k]

SnapLifetimesRight ==
  \A r \in snapLifetimes : \E j, k \in 1 .. measured : EndedRun(r, j, k)

Measured(e, i) ==
  \/ births[e] # NoStart /\ births[e] <= Snapshot(i)
  \/ \E r \in snapLifetimes :
       r.edge = e /\ r.start <= Snapshot(i) /\ Snapshot(i) < r.end

MeasuredAll == \A i \in 1 .. measured : \A e \in snapshots[i] : Measured(e, i)

AllMeasured == pc \in {"extracting", "done"} => measured = Len(snapshots)

MeasureInv == BirthsRight /\ SnapLifetimesRight /\ MeasuredAll /\ AllMeasured

LEMMA SnapshotOrder ==
  ASSUME NEW i \in Int, NEW j \in Int
  PROVE  /\ Snapshot(i) \in Int
         /\ Snapshot(i) < Snapshot(j) <=> i < j
         /\ Snapshot(i) = Snapshot(j) <=> i = j
<1> USE TraceAssumption
<1>1. Heartbeat \in Int /\ Heartbeat >= 1
  OBVIOUS
<1>2. ASSUME NEW a \in Int, NEW b \in Int, a < b
      PROVE  Snapshot(a) < Snapshot(b)
  <2> DEFINE d == b - a - 1
  <2>1. d \in Nat /\ (b - 1) * Heartbeat = (a - 1) * Heartbeat + d * Heartbeat + Heartbeat
    BY <1>1, <1>2
  <2>2. d * Heartbeat \in Nat
    BY <1>1, <2>1
  <2>3. (a - 1) * Heartbeat \in Int
    BY <1>1
  <2>4. QED
    BY <1>1, <2>1, <2>2, <2>3 DEF Snapshot
<1>3. \A a \in Int : Snapshot(a) \in Int
  BY <1>1 DEF Snapshot
<1>4. QED
  BY <1>2, <1>3

LEMMA MeasureKeeps ==
  ASSUME TypeInv, MeasureInv, MeasureSnapshot
  PROVE  MeasureInv'
<1> DEFINE k == measured + 1
           added   == EdgesOfSnapshot(k) \ EdgesOfSnapshot(measured)
           removed == EdgesOfSnapshot(measured) \ EdgesOfSnapshot(k)
           new(e)  == [edge |-> e, start |-> births[e], end |-> Snapshot(k)]
<1>1. /\ pc = "measuring" /\ measured < Len(snapshots)
      /\ measured' = k
      /\ births' = [e \in Edges |-> IF e \in added THEN Snapshot(k)
                                    ELSE IF e \in removed THEN NoStart
                                    ELSE births[e]]
      /\ snapLifetimes' = snapLifetimes \cup {new(e) : e \in removed}
      /\ pc' = pc /\ snapshots' = snapshots
  BY Zenon DEF MeasureSnapshot, replayVars
<1>2. /\ measured \in Nat /\ Len(snapshots) \in Nat
      /\ births \in [Edges -> Nat \cup {NoStart}] /\ snapLifetimes \subseteq Lifetime
  BY DEF TypeInv, TypeOK
<1>3. k \in 1 .. Len(snapshots) /\ measured \in 0 .. Len(snapshots) /\ k \in Nat
      /\ k - 1 = measured
  BY <1>1, <1>2
<1>4. EdgesOfSnapshot(k) \subseteq Edges /\ EdgesOfSnapshot(measured) \subseteq Edges
  BY <1>3, SnapshotTypes DEF TypeInv
<1>5. /\ \A i : EdgesOfSnapshot(i)' = EdgesOfSnapshot(i)
      /\ \A i \in Nat : i # 0 => EdgesOfSnapshot(i) = snapshots[i]
      /\ \A i : Snapshot(i)' = Snapshot(i)
  BY <1>1 DEF EdgesOfSnapshot, Snapshot
<1>6. \A e, i, j : Run(e, i, j)' <=> Run(e, i, j)
  BY <1>1, <1>5 DEF Run
<1>7. \A r, i, j : EndedRun(r, i, j)' <=> EndedRun(r, i, j)
  BY <1>1, <1>5, <1>6 DEF EndedRun
<1>8. \A i, j \in Int : /\ Snapshot(i) \in Int
                        /\ Snapshot(i) < Snapshot(j) <=> i < j
                        /\ Snapshot(i) = Snapshot(j) <=> i = j
  BY SnapshotOrder
<1>9. EdgesOfSnapshot(k) = snapshots[k]
  BY <1>3, <1>5
<1> HIDE DEF k
<1>10. ASSUME NEW e \in Edges, births[e] # NoStart
       PROVE  \E j \in 1 .. measured :
                /\ births[e] = Snapshot(j) /\ Run(e, j, measured)
                /\ e \in EdgesOfSnapshot(measured)
  <2>1. PICK j \in 1 .. measured : births[e] = Snapshot(j) /\ Run(e, j, measured)
    BY <1>10 DEF MeasureInv, BirthsRight
  <2>2. measured \in j .. measured /\ measured # 0
    BY <1>2, <2>1
  <2>3. e \in snapshots[measured]
    BY <2>1, <2>2 DEF Run
  <2>4. QED
    BY <1>2, <1>5, <2>1, <2>2, <2>3
<1>11. BirthsRight'
  <2> SUFFICES ASSUME NEW e \in Edges, births'[e] # NoStart
               PROVE  \E j \in 1 .. k : births'[e] = Snapshot(j) /\ Run(e, j, k)
    BY <1>1, <1>5, <1>6 DEF BirthsRight, Edges, NoStart
  <2>1. CASE e \in added
    <3>1. births'[e] = Snapshot(k)
      BY <1>1, <2>1
    <3>2. \A i \in k .. k : e \in snapshots[i]
      BY <1>3, <1>9, <2>1
    <3>3. Run(e, k, k)
      BY <1>3, <2>1, <3>2 DEF Run
    <3>4. QED
      BY <1>3, <3>1, <3>3
  <2>2. CASE e \notin added
    <3>1. e \notin removed /\ births'[e] = births[e]
      BY <1>1, <2>2
    <3>2. PICK j \in 1 .. measured :
            /\ births[e] = Snapshot(j) /\ Run(e, j, measured)
            /\ e \in EdgesOfSnapshot(measured)
      BY <1>10, <3>1
    <3>3. e \in snapshots[k]
      BY <1>9, <3>1, <3>2
    <3>4. \A i \in j .. k : i \in j .. measured \/ i = k
      BY <1>2, <1>3
    <3>5. Run(e, j, k) /\ j \in 1 .. k
      BY <1>2, <1>3, <3>2, <3>3, <3>4 DEF Run
    <3>6. QED
      BY <3>1, <3>2, <3>5
  <2>3. QED
    BY <2>1, <2>2
<1>12. ASSUME NEW e \in removed
       PROVE  \E j \in 1 .. measured : EndedRun(new(e), j, k) /\ births[e] = Snapshot(j)
  <2>1. e \in Edges /\ births[e] # NoStart
    BY <1>4 DEF TypeInv, BirthsKnown
  <2>2. PICK j \in 1 .. measured : births[e] = Snapshot(j) /\ Run(e, j, measured)
    BY <1>10, <2>1
  <2>3. j < k
    BY <1>2, <1>3
  <2>4. e \notin snapshots[k]
    BY <1>9
  <2>5. EndedRun(new(e), j, k)
    BY <1>3, <2>2, <2>3, <2>4 DEF EndedRun
  <2>6. QED
    BY <2>2, <2>5
<1>13. SnapLifetimesRight'
  <2> SUFFICES ASSUME NEW r \in snapLifetimes'
               PROVE  \E i, j \in 1 .. k : EndedRun(r, i, j)
    BY <1>1, <1>7 DEF SnapLifetimesRight
  <2>1. \A i \in 1 .. measured : i \in 1 .. k
    BY <1>2, <1>3
  <2>2. CASE r \in snapLifetimes
    BY <2>1, <2>2 DEF MeasureInv, SnapLifetimesRight
  <2>3. CASE r \notin snapLifetimes
    <3>1. PICK e \in removed : r = new(e)
      BY <1>1, <2>3
    <3>2. k \in 1 .. k
      BY <1>3
    <3>3. QED
      BY <1>12, <2>1, <3>1, <3>2
  <2>4. QED
    BY <2>2, <2>3
<1>14. MeasuredAll'
  <2> SUFFICES ASSUME NEW i \in 1 .. k, NEW e \in snapshots[i]
               PROVE  \/ births'[e] # NoStart /\ births'[e] <= Snapshot(i)
                      \/ \E r \in snapLifetimes' :
                           r.edge = e /\ r.start <= Snapshot(i) /\ Snapshot(i) < r.end
    BY <1>1, <1>5 DEF MeasuredAll, Measured, NoStart
  <2>1. i \in Nat /\ i # 0 /\ i \in 0 .. Len(snapshots)
    BY <1>3
  <2>2. e \in Edges
    BY <1>5, <2>1, SnapshotTypes DEF TypeInv
  <2>3. Snapshot(k) \in Int /\ Snapshot(i) \in Int
    BY <1>3, <1>8, <2>1
  <2>4. Snapshot(k) # NoStart
    <3>1. Snapshot(1) = 0 /\ NoStart < 0
      BY TraceAssumption DEF Snapshot, NoStart
    <3>2. Snapshot(1) = Snapshot(k) \/ Snapshot(1) < Snapshot(k)
      BY <1>3, <1>8
    <3>3. QED
      BY <2>3, <3>1, <3>2 DEF NoStart
  <2>5. CASE i = k
    <3>1. CASE e \in added
      BY <1>1, <2>2, <2>3, <2>4, <2>5, <3>1
    <3>2. CASE e \notin added
      <4>1. e \in EdgesOfSnapshot(measured) /\ e \notin removed
        BY <1>9, <2>5, <3>2
      <4>2. births'[e] = births[e] /\ births[e] # NoStart
        BY <1>1, <2>2, <3>2, <4>1 DEF TypeInv, BirthsKnown
      <4>3. PICK j \in 1 .. measured : births[e] = Snapshot(j)
        BY <1>10, <2>2, <4>2
      <4>4. Snapshot(j) < Snapshot(k)
        BY <1>2, <1>3, <1>8
      <4>5. Snapshot(j) \in Int
        BY <1>8
      <4>6. QED
        BY <2>3, <2>5, <4>2, <4>3, <4>4, <4>5
    <3>3. QED
      BY <3>1, <3>2
  <2>6. CASE i # k
    <3>1. i \in 1 .. measured
      BY <1>2, <1>3, <2>6
    <3>2. Measured(e, i)
      BY <3>1 DEF MeasureInv, MeasuredAll
    <3>3. CASE \E r \in snapLifetimes :
                 r.edge = e /\ r.start <= Snapshot(i) /\ Snapshot(i) < r.end
      BY <1>1, <3>3
    <3>4. CASE births[e] # NoStart /\ births[e] <= Snapshot(i)
      <4>1. e \in EdgesOfSnapshot(measured)
        BY <1>10, <2>2, <3>4
      <4>2. CASE e \in removed
        <5>1. new(e) \in snapLifetimes'
          BY <1>1, <4>2
        <5>2. Snapshot(i) < Snapshot(k)
          BY <1>2, <1>3, <1>8, <3>1
        <5>3. QED
          BY <3>4, <5>1, <5>2
      <4>3. CASE e \notin removed
        BY <1>1, <2>2, <3>4, <4>1, <4>3
      <4>4. QED
        BY <4>2, <4>3
    <3>5. QED
      BY <3>2, <3>3, <3>4 DEF Measured
  <2>7. QED
    BY <2>5, <2>6
<1>15. AllMeasured'
  BY <1>1 DEF AllMeasured
<1>16. QED
  BY <1>11, <1>13, <1>14, <1>15 DEF MeasureInv

(* The steps that do not measure: nothing is measured before all snapshots *)
(* are there.                                                              *)
LEMMA OthersKeepMeasured ==
  ASSUME MeasureInv, UNCHANGED <<measured, births, snapLifetimes>>,
         measured = 0 \/ UNCHANGED snapshots,
         pc' \in {"extracting", "done"} => measured = Len(snapshots)',
         measured \in Nat
  PROVE  MeasureInv'
<1>1. AllMeasured'
  BY DEF AllMeasured
<1>2. CASE measured = 0
  <2>1. 1 .. measured = {}
    BY <1>2
  <2>2. /\ \A e \in Edges : births[e] = NoStart
        /\ snapLifetimes = {}
    BY <2>1 DEF MeasureInv, BirthsRight, SnapLifetimesRight
  <2>3. BirthsRight' /\ SnapLifetimesRight' /\ MeasuredAll'
    BY <2>1, <2>2 DEF BirthsRight, SnapLifetimesRight, MeasuredAll, Edges, NoStart
  <2>4. QED
    BY <1>1, <2>3 DEF MeasureInv
<1>3. CASE UNCHANGED snapshots
  <2>1. /\ \A i : EdgesOfSnapshot(i)' = EdgesOfSnapshot(i)
        /\ \A i : Snapshot(i)' = Snapshot(i)
    BY <1>3 DEF EdgesOfSnapshot, Snapshot
  <2>2. \A e, i, j : Run(e, i, j)' <=> Run(e, i, j)
    BY <1>3, <2>1 DEF Run
  <2>3. \A r, i, j : EndedRun(r, i, j)' <=> EndedRun(r, i, j)
    BY <1>3, <2>1, <2>2 DEF EndedRun
  <2>4. \A e, i : Measured(e, i)' <=> Measured(e, i)
    BY <2>1 DEF Measured, NoStart
  <2>5. BirthsRight'
    BY <2>1, <2>2 DEF MeasureInv, BirthsRight, Edges, NoStart
  <2>6. SnapLifetimesRight' /\ MeasuredAll'
    BY <1>3, <2>3, <2>4 DEF MeasureInv, SnapLifetimesRight, MeasuredAll
  <2>7. QED
    BY <1>1, <2>5, <2>6 DEF MeasureInv
<1>4. QED
  BY <1>2, <1>3

LEMMA StepsOffMeasuring ==
  ASSUME TypeInv, MeasureInv, [Next]_vars, ~ MeasureSnapshot
  PROVE  /\ UNCHANGED <<measured, births, snapLifetimes>>
         /\ measured = 0 \/ UNCHANGED snapshots
         /\ pc' \in {"extracting", "done"} => measured = Len(snapshots)'
<1> USE DEF measureVars
<1>1. pc \notin {"measuring", "extracting", "done"} => measured = 0
  BY DEF TypeInv, BirthsKnown
<1>2. pc \in {"extracting", "done"} => measured = Len(snapshots)
  BY DEF MeasureInv, AllMeasured
<1>3. ASSUME NEW p \in Peers, Record(p)
      PROVE  pc = "recording" /\ UNCHANGED <<pc, measured, births, snapLifetimes>>
  BY <1>3, Zenon DEF Record
<1>4. CASE ReadTraces
  BY <1>1, <1>4 DEF ReadTraces
<1>5. CASE ReplayEvent
  BY <1>1, <1>5 DEF ReplayEvent
<1>6. CASE CloseBucket
  BY <1>1, <1>6 DEF CloseBucket
<1>7. CASE TimeEvent
  <2>1. UNCHANGED <<pc, snapshots, measured, births, snapLifetimes>>
    BY <1>7, Zenon DEF TimeEvent, replayVars
  <2>2. QED
    BY <1>2, <2>1
<1>8. CASE ExtractLine
  <2>1. UNCHANGED <<pc, snapshots, measured, births, snapLifetimes>>
    BY <1>8, Zenon DEF ExtractLine, replayVars
  <2>2. QED
    BY <1>2, <2>1
<1>9. CASE NextPass
  BY <1>2, <1>9 DEF NextPass
<1>10. QED
  BY <1>1, <1>3, <1>4, <1>5, <1>6, <1>7, <1>8, <1>9, StepKinds

LEMMA MeasureInductive == Spec => []MeasureInv
<1>1. Init => MeasureInv
  <2> SUFFICES ASSUME Init PROVE MeasureInv
    OBVIOUS
  <2>1. measured = 0 /\ snapLifetimes = {} /\ \A e \in Edges : births[e] = NoStart
    BY DEF Init
  <2>2. pc = "recording"
    BY DEF Init
  <2>3. QED
    BY <2>1, <2>2
       DEF MeasureInv, BirthsRight, SnapLifetimesRight, MeasuredAll, AllMeasured
<1>2. TypeInv /\ MeasureInv /\ [Next]_vars => MeasureInv'
  <2> SUFFICES ASSUME TypeInv, MeasureInv, [Next]_vars PROVE MeasureInv'
    OBVIOUS
  <2>1. CASE MeasureSnapshot
    BY <2>1, MeasureKeeps
  <2>2. CASE ~ MeasureSnapshot
    <3>1. measured \in Nat
      BY DEF TypeInv, TypeOK
    <3>2. QED
      BY <2>2, <3>1, StepsOffMeasuring, OthersKeepMeasured
  <2>3. QED
    BY <2>1, <2>2
<1>3. QED
  BY <1>1, <1>2, TypesInductive, PTL DEF Spec

-----------------------------------------------------------------------------
(* The events of one edge are lines of one file, so their line numbers are *)
(* their order, and it is that of their buckets.                           *)
BucketNumber(pos) == bucket_index(At(pos).ts)

LEMMA EdgeEvents ==
  ASSUME TypeInv, Sorted, NEW a \in Positions, NEW b \in Positions,
         EdgeOf(a) = EdgeOf(b)
  PROVE  /\ a[2] \in Nat /\ b[2] \in Nat
         /\ FileOrder(a, b) <=> a[2] < b[2]
         /\ a = b <=> a[2] = b[2]
         /\ BucketNumber(a) \in Nat /\ BucketNumber(b) \in Nat
         /\ a[2] < b[2] => BucketNumber(a) <= BucketNumber(b)
<1>1. /\ a[1] \in Peers /\ a[2] \in Nat /\ a = <<a[1], a[2]>> /\ At(a).ts \in Nat
      /\ b[1] \in Peers /\ b[2] \in Nat /\ b = <<b[1], b[2]>> /\ At(b).ts \in Nat
  BY EventTypes DEF TypeInv
<1>2. a[1] = b[1] /\ a[1] \in Nat
  BY <1>1, TraceAssumption DEF EdgeOf
<1>3. BucketNumber(a) \in Nat /\ BucketNumber(b) \in Nat
  BY BucketTypes DEF TypeInv, BucketNumber
<1>4. ASSUME a[2] < b[2] PROVE BucketNumber(a) <= BucketNumber(b)
  <2>1. At(a).ts <= At(b).ts
    BY <1>2, <1>4 DEF Sorted
  <2>2. QED
    BY <1>1, <2>1, BucketMonotone DEF TypeInv, TypeOK, BucketNumber
<1>5. FileOrder(a, b) <=> a[2] < b[2]
  BY <1>1, <1>2 DEF FileOrder
<1>6. a = b <=> a[2] = b[2]
  BY <1>1, <1>2
<1>7. QED
  BY <1>1, <1>3, <1>4, <1>5, <1>6

LEMMA BucketTimes ==
  ASSUME TypeInv, Started, NEW pos \in Positions
  PROVE  BucketOf(TimeOf(pos)) = Snapshot(BucketNumber(pos) + 1)
<1>1. /\ At(pos).ts \in Nat /\ first_ts \in Nat /\ first_ts <= At(pos).ts
      /\ BucketNumber(pos) \in Nat
  BY EventTypes, BucketTypes DEF TypeInv, TypeOK, FirstIsFirst, BucketNumber
<1>2. BucketNumber(pos) = TimeOf(pos) \div Heartbeat
  BY <1>1 DEF BucketNumber, TimeOf, bucket_index
<1> DEFINE b == BucketNumber(pos)
<1>3. b \in Nat /\ BucketOf(TimeOf(pos)) = b * Heartbeat
  BY <1>1, <1>2, Zenon DEF BucketOf
<1> HIDE DEF b
<1>4. b + 1 - 1 = b
  BY <1>3
<1>5. Snapshot(b + 1) = b * Heartbeat
  <2>1. \A k : Snapshot(k) = (k - 1) * Heartbeat
    BY Zenon DEF Snapshot
  <2>2. PICK k : k = b + 1
    OBVIOUS
  <2>3. k - 1 = b
    BY <1>3, <2>2
  <2>4. QED
    BY <2>1, <2>2, <2>3, Zenon
<1>6. QED
  BY <1>3, <1>5 DEF b

(* What is settled once everything has been measured.                      *)
Settled ==
  /\ TypeInv /\ ReplayInv /\ TimeInv /\ TracedInv /\ MeasureInv
  /\ pc \in {"extracting", "done"}

LEMMA SettledFacts ==
  ASSUME Settled
  PROVE  /\ TypeInv /\ Sorted /\ Started
         /\ timed = Positions /\ measured = Len(snapshots) /\ measured \in Nat
         /\ \A pos \in Positions : BucketNumber(pos) \in 0 .. (measured - 1)
         /\ \A k \in 1 .. measured : snapshots[k] = EdgesOfSnapshot(k)
         /\ \A k \in 0 .. measured : EdgesOfSnapshot(k) = PresentEdges(UpTo(k))
<1>1. TypeInv /\ TypeOK /\ Sorted /\ Started
  BY DEF Settled, ReplayInv, Started, TypeInv
<1>2. timed = Positions /\ measured = Len(snapshots) /\ measured \in Nat
  BY <1>1 DEF Settled, TypeOK, TimeInv, AllTimed, MeasureInv, AllMeasured
<1>3. ASSUME NEW pos \in Positions PROVE BucketNumber(pos) \in 0 .. (measured - 1)
  <2>1. pos \in UpTo(measured)
    BY <1>2 DEF Settled, ReplayInv, AllReplayed
  <2>2. BucketNumber(pos) < measured /\ BucketNumber(pos) \in Nat
    BY <1>1, <2>1, BucketTypes DEF UpTo, BucketNumber
  <2>3. QED
    BY <1>2, <2>2
<1>4. \A k \in 1 .. measured : snapshots[k] = EdgesOfSnapshot(k)
  BY <1>2 DEF EdgesOfSnapshot
<1>5. \A k \in 1 .. measured : snapshots[k] = PresentEdges(UpTo(k))
  BY <1>2 DEF Settled, ReplayInv, SnapshotsRight
<1>6. EdgesOfSnapshot(0) = PresentEdges(UpTo(0))
  BY <1>1, UpToNothing, NothingPresent DEF EdgesOfSnapshot
<1>7. \A k \in 0 .. measured : k = 0 \/ k \in 1 .. measured
  BY <1>2
<1>8. QED
  BY <1>1, <1>2, <1>3, <1>4, <1>5, <1>6, <1>7

(* An edge is in a snapshot when a graft before its end is later than      *)
(* every prune before its end.                                             *)
LEMMA InSnapshot ==
  ASSUME Settled, NEW k \in 0 .. measured, NEW e \in Edges
  PROVE  e \in EdgesOfSnapshot(k) <=>
           \E a \in Positions :
             /\ BucketNumber(a) < k /\ Grafts(a) /\ EdgeOf(a) = e
             /\ \A b \in Positions :
                  BucketNumber(b) < k /\ Prunes(b) /\ EdgeOf(b) = e => b[2] < a[2]
<1>1. e \in EdgesOfSnapshot(k) <=> Present(e, UpTo(k))
  BY SettledFacts DEF PresentEdges
<1>2. \A a : a \in UpTo(k) <=> a \in Positions /\ BucketNumber(a) < k
  BY DEF UpTo, BucketNumber
<1>3. \A a, b \in Positions : EdgeOf(a) = e /\ EdgeOf(b) = e =>
        (FileOrder(b, a) <=> b[2] < a[2])
  BY SettledFacts, EdgeEvents
<1>4. QED
  BY <1>1, <1>2, <1>3 DEF Present

(* The first snapshot with an edge has a graft of it in its own bucket,    *)
(* and the first without it a prune.                                       *)
LEMMA GraftFound ==
  ASSUME Settled, NEW e \in Edges, NEW j \in 1 .. measured,
         e \in EdgesOfSnapshot(j), e \notin EdgesOfSnapshot(j - 1)
  PROVE  \E a \in Positions : Grafts(a) /\ EdgeOf(a) = e /\ BucketNumber(a) = j - 1
<1>1. measured \in Nat
  BY SettledFacts
<1>2. j - 1 \in 0 .. measured /\ j \in 0 .. measured
  BY <1>1
<1>3. PICK a \in Positions :
        /\ BucketNumber(a) < j /\ Grafts(a) /\ EdgeOf(a) = e
        /\ \A b \in Positions :
             BucketNumber(b) < j /\ Prunes(b) /\ EdgeOf(b) = e => b[2] < a[2]
  BY <1>2, InSnapshot
<1>4. \A b \in Positions : BucketNumber(b) \in Nat
  BY SettledFacts
<1>5. BucketNumber(a) = j - 1
  <2> SUFFICES ASSUME BucketNumber(a) < j - 1 PROVE FALSE
    BY <1>2, <1>3, <1>4
  <2>1. \A b \in Positions : BucketNumber(b) < j - 1 => BucketNumber(b) < j
    BY <1>2, <1>4
  <2>2. e \in EdgesOfSnapshot(j - 1)
    BY <1>2, <1>3, <2>1, InSnapshot
  <2>3. QED
    BY <2>2
<1>6. QED
  BY <1>3, <1>5

LEMMA PruneFound ==
  ASSUME Settled, NEW e \in Edges, NEW j \in 1 .. measured,
         e \in EdgesOfSnapshot(j - 1), e \notin EdgesOfSnapshot(j)
  PROVE  \E b \in Positions : Prunes(b) /\ EdgeOf(b) = e /\ BucketNumber(b) = j - 1
<1>1. measured \in Nat /\ \A b \in Positions : BucketNumber(b) \in Nat
  BY SettledFacts
<1>2. j - 1 \in 0 .. measured /\ j \in 0 .. measured
  BY <1>1
<1>3. PICK a \in Positions :
        /\ BucketNumber(a) < j - 1 /\ Grafts(a) /\ EdgeOf(a) = e
        /\ \A b \in Positions :
             BucketNumber(b) < j - 1 /\ Prunes(b) /\ EdgeOf(b) = e => b[2] < a[2]
  BY <1>2, InSnapshot
<1>4. BucketNumber(a) < j
  BY <1>1, <1>2, <1>3
<1>5. PICK b \in Positions :
        BucketNumber(b) < j /\ Prunes(b) /\ EdgeOf(b) = e /\ ~ (b[2] < a[2])
  BY <1>2, <1>3, <1>4, InSnapshot
<1>6. BucketNumber(b) = j - 1
  BY <1>1, <1>2, <1>3, <1>5
<1>7. QED
  BY <1>5, <1>6

LEMMA RunBegins ==
  ASSUME Settled, NEW e \in Edges, NEW j \in 1 .. measured,
         e \in EdgesOfSnapshot(j), e \notin EdgesOfSnapshot(j - 1)
  PROVE  GraftedIn(e, Snapshot(j))
<1>1. PICK a \in Positions : Grafts(a) /\ EdgeOf(a) = e /\ BucketNumber(a) = j - 1
  BY GraftFound
<1>2. TypeInv /\ Started /\ measured \in Nat
  BY SettledFacts
<1>3. BucketOf(TimeOf(a)) = Snapshot(BucketNumber(a) + 1) /\ BucketNumber(a) + 1 = j
  BY <1>1, <1>2, BucketTimes
<1>4. QED
  BY <1>1, <1>3 DEF GraftedIn, TimeOf

(* A run ends in the bucket of the prune that closes a traced lifetime,    *)
(* which began no earlier than the run.                                    *)
LEMMA RunEnds ==
  ASSUME Settled, NEW e \in Edges, NEW j \in 1 .. measured, NEW k \in 1 .. measured,
         j < k, e \notin EdgesOfSnapshot(j - 1), e \in EdgesOfSnapshot(k - 1),
         e \notin EdgesOfSnapshot(k)
  PROVE  \E l \in lifetimes :
           /\ l.edge = e
           /\ BucketOf(l.end) = Snapshot(k) /\ Snapshot(j) <= BucketOf(l.start)
<1>1. /\ measured \in Nat /\ TypeInv /\ Sorted /\ Started /\ timed = Positions
      /\ \A b \in Positions : BucketNumber(b) \in Nat
  BY SettledFacts
<1>2. /\ j - 1 \in 0 .. measured /\ k - 1 \in 0 .. measured /\ k \in 0 .. measured
      /\ j \in Nat /\ k \in Nat
  BY <1>1
<1>3. PICK a \in Positions :
        /\ BucketNumber(a) < k - 1 /\ Grafts(a) /\ EdgeOf(a) = e
        /\ \A b \in Positions :
             BucketNumber(b) < k - 1 /\ Prunes(b) /\ EdgeOf(b) = e => b[2] < a[2]
  BY <1>2, InSnapshot
<1>4. \A b, c \in Positions : EdgeOf(b) = e /\ EdgeOf(c) = e =>
        /\ b[2] \in Nat /\ c[2] \in Nat
        /\ FileOrder(b, c) <=> b[2] < c[2]
        /\ b = c <=> b[2] = c[2]
        /\ b[2] < c[2] => BucketNumber(b) <= BucketNumber(c)
  BY <1>1, EdgeEvents
<1>5. \A b : ~ (Grafts(b) /\ Prunes(b))
  BY DEF Grafts, Prunes
<1>6. PICK p \in Positions :
        BucketNumber(p) < k /\ Prunes(p) /\ EdgeOf(p) = e /\ ~ (p[2] < a[2])
  <2>1. BucketNumber(a) < k
    BY <1>1, <1>2, <1>3
  <2>2. QED
    BY <1>2, <1>3, <2>1, InSnapshot
<1>7. a[2] < p[2]
  BY <1>3, <1>4, <1>5, <1>6
<1>8. ~ NeverPruned(a)
  BY <1>1, <1>3, <1>4, <1>6 DEF NeverPruned
<1>9. PICK l \in lifetimes, g \in Positions, q \in Positions : Closes(a, l, g, q)
  BY <1>1, <1>3, <1>8 DEF Settled, TracedInv, GraftsTraced
<1>10. /\ l.edge = e /\ Grafts(g) /\ EdgeOf(g) = e /\ l.start = TimeOf(g)
       /\ Prunes(q) /\ EdgeOf(q) = e /\ l.end = TimeOf(q)
       /\ g[2] < q[2] /\ a[2] <= g[2]
  BY <1>3, <1>4, <1>9 DEF Closes, Spans
<1>11. a[2] < q[2] /\ q[2] <= p[2]
  <2>1. ~ (a[2] < p[2] /\ p[2] < q[2])
    BY <1>1, <1>3, <1>4, <1>6, <1>9, <1>10 DEF Closes, FirstPrune
  <2>2. QED
    BY <1>3, <1>4, <1>6, <1>7, <1>10, <2>1
<1>12. BucketNumber(q) = k - 1
  <2>1. ~ (BucketNumber(q) < k - 1)
    BY <1>3, <1>4, <1>10, <1>11
  <2>2. BucketNumber(q) <= BucketNumber(p)
    BY <1>1, <1>4, <1>6, <1>10, <1>11
  <2>3. QED
    BY <1>1, <1>2, <1>6, <2>1, <2>2
<1>13. j - 1 <= BucketNumber(g)
  <2> SUFFICES ASSUME BucketNumber(g) < j - 1 PROVE FALSE
    BY <1>1, <1>2
  <2>1. PICK b \in Positions :
          BucketNumber(b) < j - 1 /\ Prunes(b) /\ EdgeOf(b) = e /\ ~ (b[2] < g[2])
    BY <1>2, <1>10, InSnapshot
  <2>2. BucketNumber(b) < k - 1
    BY <1>1, <1>2, <2>1
  <2>3. b[2] < a[2]
    BY <1>3, <2>1, <2>2
  <2>4. QED
    BY <1>3, <1>4, <1>10, <2>1, <2>3
<1>14. BucketOf(l.end) = Snapshot(k)
  BY <1>1, <1>2, <1>10, <1>12, BucketTimes
<1>15. Snapshot(j) <= BucketOf(l.start)
  <2>1. BucketOf(l.start) = Snapshot(BucketNumber(g) + 1)
    BY <1>1, <1>10, BucketTimes
  <2>2. BucketNumber(g) + 1 \in Int /\ j \in Int /\ (j < BucketNumber(g) + 1 \/ j = BucketNumber(g) + 1)
    BY <1>1, <1>2, <1>13
  <2>3. QED
    BY <2>1, <2>2, SnapshotOrder
<1>16. QED
  BY <1>10, <1>14, <1>15

(* A traced lifetime that reaches into another bucket is in the snapshots  *)
(* between its end points, and so in a run.                                *)
LEMMA LongOnesFound ==
  ASSUME Settled, NEW l \in lifetimes, BucketOf(l.start) < BucketOf(l.end)
  PROVE  \/ \E r \in snapLifetimes :
              /\ r.edge = l.edge
              /\ r.start <= BucketOf(l.start) /\ BucketOf(l.end) <= r.end
         \/ births[l.edge] \in 0 .. BucketOf(l.start)
<1>1. /\ measured \in Nat /\ TypeInv /\ Sorted /\ Started /\ timed = Positions
      /\ \A b \in Positions : BucketNumber(b) \in 0 .. (measured - 1)
      /\ \A i \in 1 .. measured : snapshots[i] = EdgesOfSnapshot(i)
  BY SettledFacts
<1>2. PICK g \in Positions, q \in Positions : Spans(l, g, q)
  BY <1>1 DEF Settled, TracedInv, LifetimesTraced
<1> DEFINE e == l.edge
           x == BucketNumber(g)
           y == BucketNumber(q)
<1>3. e \in Edges
  BY DEF Settled, TypeInv, TypeOK, Lifetime
<1>4. /\ Grafts(g) /\ EdgeOf(g) = e /\ l.start = TimeOf(g)
      /\ Prunes(q) /\ EdgeOf(q) = e /\ l.end = TimeOf(q)
      /\ FileOrder(g, q)
      /\ \A b \in Positions : Prunes(b) /\ EdgeOf(b) = e =>
           ~ (FileOrder(g, b) /\ FileOrder(b, q))
  BY <1>1, <1>2 DEF Spans, MeshEvent
<1>5. BucketOf(l.start) = Snapshot(x + 1) /\ BucketOf(l.end) = Snapshot(y + 1)
  BY <1>1, <1>4, BucketTimes
<1>6. x \in 0 .. (measured - 1) /\ y \in 0 .. (measured - 1)
  BY <1>1
<1>7. \A b, c \in Positions : EdgeOf(b) = e /\ EdgeOf(c) = e =>
        /\ b[2] \in Nat /\ c[2] \in Nat
        /\ FileOrder(b, c) <=> b[2] < c[2]
        /\ b = c <=> b[2] = c[2]
        /\ b[2] < c[2] => BucketNumber(b) <= BucketNumber(c)
  BY <1>1, EdgeEvents
<1>8. ASSUME NEW i \in Nat, x < i, i <= y
      PROVE  i \in 1 .. measured /\ e \in EdgesOfSnapshot(i)
  <2>1. i \in 1 .. measured /\ i \in 0 .. measured
    BY <1>1, <1>6, <1>8
  <2>2. ASSUME NEW b \in Positions, BucketNumber(b) < i, Prunes(b), EdgeOf(b) = e
        PROVE  b[2] < g[2]
    <3>1. ~ (q[2] < b[2]) /\ b # q
      BY <1>1, <1>4, <1>6, <1>7, <1>8, <2>2
    <3>2. b[2] < q[2]
      BY <1>4, <1>7, <2>2, <3>1
    <3>3. ~ (g[2] < b[2])
      BY <1>4, <1>7, <2>2, <3>2
    <3>4. b # g
      BY <1>4, <2>2 DEF Grafts, Prunes
    <3>5. QED
      BY <1>4, <1>7, <2>2, <3>3, <3>4
  <2>3. QED
    BY <1>3, <1>4, <1>8, <2>1, <2>2, InSnapshot
<1> HIDE DEF e, x, y
<1>9. x < y
  BY <1>1, <1>5, <1>6, SnapshotOrder
<1>10. /\ x + 1 \in 1 .. measured /\ e \in snapshots[x + 1]
       /\ Snapshot(x + 1) \in Int
  <2>1. x + 1 \in Nat /\ x < x + 1 /\ x + 1 <= y
    BY <1>6, <1>9
  <2>2. QED
    BY <1>1, <1>8, <2>1, SnapshotOrder
<1>11. Measured(e, x + 1)
  BY <1>10 DEF Settled, MeasureInv, MeasuredAll
<1>12. CASE births[e] # NoStart /\ births[e] <= Snapshot(x + 1)
  <2>1. births[e] \in Nat
    BY <1>1, <1>3, <1>12 DEF TypeInv, TypeOK
  <2>2. births[e] \in 0 .. Snapshot(x + 1)
    BY <1>10, <1>12, <2>1
  <2>3. QED
    BY <1>5, <2>2 DEF e
<1>13. CASE \E r \in snapLifetimes :
              r.edge = e /\ r.start <= Snapshot(x + 1) /\ Snapshot(x + 1) < r.end
  <2>1. PICK r \in snapLifetimes :
          r.edge = e /\ r.start <= Snapshot(x + 1) /\ Snapshot(x + 1) < r.end
    BY <1>13
  <2>2. PICK j \in 1 .. measured, k \in 1 .. measured : EndedRun(r, j, k)
    BY DEF Settled, MeasureInv, SnapLifetimesRight
  <2>3. r.end = Snapshot(k) /\ e \notin EdgesOfSnapshot(k)
    BY <1>1, <2>1, <2>2 DEF EndedRun
  <2>4. x + 1 < k
    BY <1>6, <2>1, <2>3, SnapshotOrder
  <2>5. ~ (k <= y)
    BY <1>6, <1>8, <2>3, <2>4
  <2>6. k \in Int /\ y + 1 \in Int /\ (y + 1 < k \/ y + 1 = k)
    BY <1>6, <2>5
  <2>7. Snapshot(y + 1) <= r.end
    BY <2>3, <2>6, SnapshotOrder
  <2>8. QED
    BY <1>5, <2>1, <2>7 DEF e
<1>14. QED
  BY <1>11, <1>12, <1>13 DEF Measured

(* Two runs of one edge are apart.                                         *)
LEMMA RunsApart ==
  ASSUME Settled, NEW e, NEW j \in 1 .. measured, NEW k \in 1 .. measured,
         NEW i \in 1 .. measured, NEW m \in 1 .. measured,
         j < k, Run(e, j, k - 1), e \notin EdgesOfSnapshot(k),
         i < m, Run(e, i, m - 1), e \notin EdgesOfSnapshot(m)
  PROVE  /\ i < j => m < j
         /\ i = j => m = k
<1>1. /\ measured \in Nat
      /\ \A n \in 1 .. measured : snapshots[n] = EdgesOfSnapshot(n)
  BY SettledFacts
<1>2. /\ \A n \in j .. (k - 1) : n \in 1 .. measured
      /\ \A n \in i .. (m - 1) : n \in 1 .. measured
  BY <1>1
<1>3. /\ \A n \in j .. (k - 1) : e \in EdgesOfSnapshot(n)
      /\ \A n \in i .. (m - 1) : e \in EdgesOfSnapshot(n)
  BY <1>1, <1>2 DEF Run
<1>4. e \notin EdgesOfSnapshot(j - 1)
  BY DEF Run
<1>5. ASSUME i < j PROVE m < j
  <2>1. ~ (j - 1 \in i .. (m - 1))
    BY <1>3, <1>4
  <2>2. m \notin j .. (k - 1) /\ m # j - 1 + 1
    BY <1>1, <1>5, <2>1, <1>3
  <2>3. QED
    BY <1>1, <1>5, <2>1, <2>2
<1>6. ASSUME i = j PROVE m = k
  <2>1. k \notin i .. (m - 1) /\ m \notin j .. (k - 1)
    BY <1>3
  <2>2. QED
    BY <1>1, <1>6, <2>1
<1>7. QED
  BY <1>5, <1>6

(* Lifetimes measured between snapshots are off by less than a heartbeat   *)
(* at each end: what they begin and end with was traced in those buckets,  *)
(* no traced lifetime that reaches into another bucket is missed, and      *)
(* those of one edge are apart, for any files, clocks and bucket width.    *)
THEOREM SnapshotLifetimesClose == Spec => []SnapshotLifetimesApproximate
<1>1. Settled => SnapshotLifetimesApproximate
  <2> SUFFICES ASSUME Settled PROVE SnapshotLifetimesApproximate
    OBVIOUS
  <2>1. /\ measured \in Nat /\ TypeInv
        /\ \A i \in 1 .. measured : snapshots[i] = EdgesOfSnapshot(i)
    BY SettledFacts
  <2>2. snapLifetimes \subseteq Lifetime
    BY <2>1 DEF TypeInv, TypeOK
  <2>3. ASSUME NEW r \in snapLifetimes
        PROVE  \E j, k \in 1 .. measured :
                 /\ j < k /\ r.start = Snapshot(j) /\ r.end = Snapshot(k)
                 /\ Run(r.edge, j, k - 1) /\ r.edge \notin EdgesOfSnapshot(k)
    BY <2>1, <2>3 DEF Settled, MeasureInv, SnapLifetimesRight, EndedRun
  <2>4. ASSUME NEW r \in snapLifetimes
        PROVE  /\ GraftedIn(r.edge, r.start)
               /\ births[r.edge] # NoStart => r.end < births[r.edge]
               /\ \A q \in snapLifetimes :
                    r.edge = q.edge /\ r # q => r.end < q.start \/ q.end < r.start
               /\ \E l \in lifetimes :
                    /\ l.edge = r.edge
                    /\ BucketOf(l.end) = r.end /\ r.start <= BucketOf(l.start)
    <3>1. PICK j \in 1 .. measured, k \in 1 .. measured :
            /\ j < k /\ r.start = Snapshot(j) /\ r.end = Snapshot(k)
            /\ Run(r.edge, j, k - 1) /\ r.edge \notin EdgesOfSnapshot(k)
      BY <2>3
    <3>2. /\ r.edge \in Edges
          /\ r.edge \notin EdgesOfSnapshot(j - 1)
          /\ r.edge \in EdgesOfSnapshot(j) /\ r.edge \in EdgesOfSnapshot(k - 1)
      <4>1. j \in j .. (k - 1) /\ k - 1 \in j .. (k - 1) /\ k - 1 \in 1 .. measured
        BY <2>1, <3>1
      <4>2. r.edge \in snapshots[j] /\ r.edge \in snapshots[k - 1]
        BY <3>1, <4>1 DEF Run
      <4>3. QED
        BY <2>1, <2>2, <3>1, <4>1, <4>2 DEF Lifetime, Run
    <3>3. GraftedIn(r.edge, r.start)
      BY <3>1, <3>2, RunBegins
    <3>4. \E l \in lifetimes :
            /\ l.edge = r.edge
            /\ BucketOf(l.end) = r.end /\ r.start <= BucketOf(l.start)
      BY <3>1, <3>2, RunEnds
    <3>5. ASSUME births[r.edge] # NoStart PROVE r.end < births[r.edge]
      <4>1. PICK i \in 1 .. measured :
              births[r.edge] = Snapshot(i) /\ Run(r.edge, i, measured)
        BY <3>2, <3>5 DEF Settled, MeasureInv, BirthsRight
      <4>2. ~ (k \in i .. measured)
        BY <2>1, <3>1, <4>1 DEF Run
      <4>3. k < i
        BY <2>1, <4>2
      <4>4. QED
        BY <3>1, <4>1, <4>3, SnapshotOrder
    <3>6. ASSUME NEW q \in snapLifetimes, r.edge = q.edge, r # q
          PROVE  r.end < q.start \/ q.end < r.start
      <4>1. PICK i \in 1 .. measured, m \in 1 .. measured :
              /\ i < m /\ q.start = Snapshot(i) /\ q.end = Snapshot(m)
              /\ Run(r.edge, i, m - 1) /\ r.edge \notin EdgesOfSnapshot(m)
        BY <2>3, <3>6
      <4>2. CASE i < j
        <5>1. m < j
          BY <3>1, <4>1, <4>2, RunsApart
        <5>2. QED
          BY <3>1, <4>1, <5>1, SnapshotOrder
      <4>3. CASE j < i
        <5>1. k < i
          BY <3>1, <4>1, <4>3, RunsApart
        <5>2. QED
          BY <3>1, <4>1, <5>1, SnapshotOrder
      <4>4. CASE i = j
        <5>1. m = k
          BY <3>1, <4>1, <4>4, RunsApart
        <5>2. r.edge = q.edge /\ r.start = q.start /\ r.end = q.end
          BY <3>1, <3>6, <4>1, <4>4, <5>1
        <5>3. r \in Lifetime /\ q \in Lifetime
          BY <2>2
        <5>4. r = q
          BY <5>2, <5>3 DEF Lifetime
        <5>5. QED
          BY <3>6, <5>4
      <4>5. QED
        BY <4>2, <4>3, <4>4
    <3>7. QED
      BY <3>3, <3>4, <3>5, <3>6
  <2>5. QED
    BY <2>4, LongOnesFound DEF SnapshotLifetimesApproximate
<1>2. pc \notin {"extracting", "done"} => SnapshotLifetimesApproximate
  BY DEF SnapshotLifetimesApproximate
<1>3. TypeInv /\ ReplayInv /\ TimeInv /\ TracedInv /\ MeasureInv =>
        SnapshotLifetimesApproximate
  BY <1>1, <1>2 DEF Settled
<1>4. QED
  BY <1>3, TypesInductive, ReplayInductive, TimeInductive, TracedInductive,
     MeasureInductive, PTL
=============================================================================
