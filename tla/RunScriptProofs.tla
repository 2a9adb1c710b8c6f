--------------------------- MODULE RunScriptProofs --------------------------
(***************************************************************************)
(* Proofs about the launcher, for every topology file, duration and margin.*)
(***************************************************************************)
EXTENDS RunScript, TLAPS

(* Type correctness: see TypeOK.                                           *)
LEMMA InitTypes == Init => TypeOK
BY ScriptAssumption DEF Init, TypeOK, JobStates, Jobs, sar, Started

LEMMA NextTypes == TypeOK /\ [Next]_vars => TypeOK'
<1> SUFFICES ASSUME TypeOK, [Next]_vars PROVE TypeOK'
  OBVIOUS
<1> USE ScriptAssumption DEF TypeOK, JobStates, Started, Alive
<1>1. CASE SkipRow
  BY <1>1 DEF SkipRow
<1>2. CASE MissingKey \/ NothingStarted
  BY <1>2 DEF MissingKey, NothingStarted, die
<1>3. CASE Launch
  <2>1. row \in Jobs /\ row \in 1 .. Rows
    BY <1>3 DEF Launch, Jobs
  <2>2. /\ jobs' \in [Jobs -> JobStates]
        /\ \A j \in Jobs : jobs[j] # "none" => jobs'[j] # "none"
    BY <1>3, <2>1 DEF Launch
  <2>3. QED
    BY <1>3, <2>1, <2>2 DEF Launch
<1>4. CASE Sleep
  BY <1>4 DEF Sleep
<1>5. CASE ListJobs
  BY <1>5 DEF ListJobs, LastStarted
<1>6. CASE WaitJob
  BY <1>6 DEF WaitJob
<1>7. CASE Finish
  BY <1>7 DEF Finish, die
<1>8. ASSUME NEW j \in Jobs, JobEnds(j) PROVE TypeOK'
  <2>1. /\ jobs' \in [Jobs -> JobStates]
        /\ \A k \in Jobs : jobs[k] # "none" => jobs'[k] # "none"
    BY <1>8 DEF JobEnds
  <2>2. QED
    BY <1>8, <2>1 DEF JobEnds
<1>9. CASE Second
  BY <1>9 DEF Second
<1>10. CASE UNCHANGED vars
  BY <1>10 DEF vars
<1>11. QED
  BY <1>1, <1>2, <1>3, <1>4, <1>5, <1>6, <1>7, <1>8, <1>9, <1>10
     DEF Next, Script, AllOver

THEOREM TypeCorrect == Spec => []TypeOK
BY InitTypes, NextTypes, PTL DEF Spec

-----------------------------------------------------------------------------
(* What the launch loop has done: see LaunchedSoFar.                       *)
LEMMA NextLaunched ==
  TypeOK /\ LaunchedSoFar /\ [Next]_vars => LaunchedSoFar'
<1> SUFFICES ASSUME TypeOK, LaunchedSoFar, [Next]_vars PROVE LaunchedSoFar'
  OBVIOUS
<1> USE ScriptAssumption DEF TypeOK, LaunchedSoFar
<1>1. CASE SkipRow
  BY <1>1 DEF SkipRow
<1>2. CASE MissingKey \/ NothingStarted
  BY <1>2 DEF MissingKey, NothingStarted, die
<1>3. CASE Launch
  <2>1. /\ row \in Jobs /\ row' = row + 1 /\ rows' = rows /\ pc' = pc
        /\ started' > 0 /\ pc = "launching"
        /\ jobs' = [jobs EXCEPT ![row] = "running"]
    BY <1>3 DEF Launch, Jobs
  <2>2. ASSUME NEW r \in 1 .. Rows, r < row', rows[r] # "elsewhere"
        PROVE  jobs'[r] # "none"
    BY <2>1, <2>2 DEF Jobs
  <2>3. QED
    BY <2>1, <2>2
<1>4. CASE Sleep
  BY <1>4 DEF Sleep
<1>5. CASE ListJobs
  BY <1>5 DEF ListJobs
<1>6. CASE WaitJob
  BY <1>6 DEF WaitJob
<1>7. CASE Finish
  BY <1>7 DEF Finish, die
<1>8. ASSUME NEW j \in Jobs, JobEnds(j) PROVE LaunchedSoFar'
  <2>1. \A k \in Jobs : jobs'[k] = "none" <=> jobs[k] = "none"
    BY <1>8 DEF JobEnds, JobStates
  <2>2. \A r \in 1 .. Rows : r \in Jobs
    BY DEF Jobs
  <2>3. UNCHANGED <<rows, pc, row, started>>
    BY <1>8 DEF JobEnds
  <2>4. QED
    BY <2>1, <2>2, <2>3
<1>9. CASE Second
  BY <1>9 DEF Second
<1>10. CASE UNCHANGED vars
  BY <1>10 DEF vars
<1>11. QED
  BY <1>1, <1>2, <1>3, <1>4, <1>5, <1>6, <1>7, <1>8, <1>9, <1>10
     DEF Next, Script, AllOver

(* What the collecting loop has done: see CollectedSoFar.                  *)
LEMMA NextCollected ==
  TypeOK /\ LaunchedSoFar /\ CollectedSoFar /\ [Next]_vars => CollectedSoFar'
<1> SUFFICES ASSUME TypeOK, LaunchedSoFar, CollectedSoFar, [Next]_vars
             PROVE  CollectedSoFar'
  OBVIOUS
<1> USE ScriptAssumption DEF TypeOK, CollectedSoFar, Alive, Failed
<1>1. CASE SkipRow
  BY <1>1 DEF SkipRow
<1>2. CASE MissingKey \/ NothingStarted
  BY <1>2 DEF MissingKey, NothingStarted, die
<1>3. CASE Launch
  BY <1>3 DEF Launch
<1>4. CASE Sleep
  BY <1>4 DEF Sleep
<1>5. CASE ListJobs
  BY <1>5 DEF ListJobs
<1>6. CASE WaitJob
  BY <1>6 DEF WaitJob, Started, JobStates
<1>7. CASE Finish
  BY <1>7 DEF Finish, die, LaunchedSoFar
<1>8. ASSUME NEW j \in Jobs, JobEnds(j) PROVE CollectedSoFar'
  <2>1. /\ jobs[j] = "running"
        /\ \A k \in Jobs : k # j => jobs'[k] = jobs[k]
        /\ jobs'[j] # "running"
        /\ UNCHANGED <<rows, pc, row, started, listed, fail, status, late>>
    BY <1>8 DEF JobEnds
  <2>2. Alive' \subseteq Alive
    BY <2>1
  <2>3. fail' = 1 => Failed' # {}
    BY <2>1 DEF Failed
  <2>4. pc' = "collecting" /\ fail' = 0 =>
          \A k \in late' : k \in listed' \/ jobs'[k] = "succeeded"
    BY <2>1 DEF Started
  <2>5. QED
    BY <2>1, <2>2, <2>3, <2>4
<1>9. CASE Second
  BY <1>9 DEF Second
<1>10. CASE UNCHANGED vars
  BY <1>10 DEF vars
<1>11. QED
  BY <1>1, <1>2, <1>3, <1>4, <1>5, <1>6, <1>7, <1>8, <1>9, <1>10
     DEF Next, Script, AllOver

ScriptInv == TypeOK /\ LaunchedSoFar /\ CollectedSoFar

LEMMA ScriptInvKept == Spec => []ScriptInv
<1>1. Init => ScriptInv
  BY InitTypes, ScriptAssumption
     DEF Init, ScriptInv, LaunchedSoFar, CollectedSoFar, Jobs, sar
<1>2. ScriptInv /\ [Next]_vars => ScriptInv'
  BY NextTypes, NextLaunched, NextCollected DEF ScriptInv
<1>3. QED
  BY <1>1, <1>2, PTL DEF Spec

(* An exit status of 0 means that nothing is running any more and that     *)
(* every row of the host was started (run.sh, the collecting loop).        *)
THEOREM NothingLeftRunning == Spec => []SuccessLeavesNothingRunning
<1>1. ScriptInv => SuccessLeavesNothingRunning
  BY ScriptAssumption DEF ScriptInv, TypeOK, LaunchedSoFar, CollectedSoFar,
     SuccessLeavesNothingRunning
<1>2. QED
  BY <1>1, ScriptInvKept, PTL

(* A job that outlives the sleep cannot fail unnoticed.                    *)
LateInv == ScriptInv /\ LateFailureReported

LEMMA NextLate == ScriptInv /\ LateFailureReported /\ [Next]_vars => LateFailureReported'
<1> SUFFICES ASSUME ScriptInv, LateFailureReported, [Next]_vars
             PROVE  LateFailureReported'
  OBVIOUS
<1> USE DEF ScriptInv, TypeOK, CollectedSoFar, LateFailureReported
<1>1. CASE Finish
  BY <1>1 DEF Finish, die
<1>2. ASSUME NEW j \in Jobs, JobEnds(j) PROVE LateFailureReported'
  <2>1. status' = status /\ jobs[j] = "running" /\ late' = late
    BY <1>2 DEF JobEnds
  <2>2. status # 0
    BY <2>1 DEF Alive
  <2>3. QED
    BY <2>1, <2>2
<1>3. CASE SkipRow \/ MissingKey \/ Launch \/ NothingStarted \/ Sleep
           \/ ListJobs \/ WaitJob \/ Second \/ UNCHANGED vars
  <2>1. (status' = status /\ status # 0) \/ status' = 1
          \/ UNCHANGED <<status, late, jobs>>
    BY <1>3 DEF SkipRow, MissingKey, Launch, NothingStarted, Sleep, ListJobs,
                WaitJob, Second, vars, die
  <2>2. QED
    BY <2>1
<1>4. QED
  BY <1>1, <1>2, <1>3 DEF Next, Script, AllOver

THEOREM LateFailuresCount == Spec => []LateFailureReported
<1>1. Init => LateFailureReported
  BY DEF Init, LateFailureReported
<1>2. QED
  BY <1>1, NextLate, ScriptInvKept, PTL DEF Spec

(* An exit status of 1 is never a false alarm.                             *)
LEMMA NextCause == ScriptInv /\ FailureHasCause /\ [Next]_vars => FailureHasCause'
<1> SUFFICES ASSUME ScriptInv, FailureHasCause, [Next]_vars
             PROVE  FailureHasCause'
  OBVIOUS
<1> USE ScriptAssumption DEF ScriptInv, TypeOK, FailureHasCause, Failed
<1>1. CASE MissingKey
  BY <1>1 DEF MissingKey, die
<1>2. CASE NothingStarted
  BY <1>2 DEF NothingStarted, die, LaunchedSoFar
<1>3. CASE Finish
  BY <1>3 DEF Finish, die, CollectedSoFar
<1>4. CASE Launch
  BY <1>4 DEF Launch, CollectedSoFar
<1>5. ASSUME NEW j \in Jobs, JobEnds(j) PROVE FailureHasCause'
  <2>1. /\ jobs[j] = "running"
        /\ \A k \in Jobs : k # j => jobs'[k] = jobs[k]
        /\ status' = status /\ rows' = rows
    BY <1>5 DEF JobEnds
  <2>2. QED
    BY <2>1
<1>6. CASE SkipRow \/ Sleep \/ ListJobs \/ WaitJob \/ Second \/ UNCHANGED vars
  BY <1>6 DEF SkipRow, Sleep, ListJobs, WaitJob, Second, vars
<1>7. QED
  BY <1>1, <1>2, <1>3, <1>4, <1>5, <1>6 DEF Next, Script, AllOver

THEOREM FailuresHaveCauses == Spec => []FailureHasCause
<1>1. Init => FailureHasCause
  BY DEF Init, FailureHasCause
<1>2. QED
  BY <1>1, NextCause, ScriptInvKept, PTL DEF Spec

(* What die leaves running: the nodes before a missing key, or sar alone.  *)
LEMMA NextOrphans ==
  ScriptInv /\ OrphansOnlyAfterDie /\ [Next]_vars => OrphansOnlyAfterDie'
<1> SUFFICES ASSUME ScriptInv, OrphansOnlyAfterDie, [Next]_vars,
                    pc' = "exited", Alive' # {}
             PROVE  \/ \E r \in 1 .. Rows : rows'[r] = "keyless"
                    \/ Alive' = {sar} /\ started' = 0
  BY DEF OrphansOnlyAfterDie
<1> USE ScriptAssumption DEF ScriptInv, TypeOK
<1>1. CASE MissingKey
  <2>1. row \in 1 .. Rows /\ rows' = rows
    BY <1>1 DEF MissingKey, die
  <2>2. QED
    BY <1>1, <2>1 DEF MissingKey
<1>2. CASE NothingStarted
  <2>1. \A r \in 1 .. Rows : jobs[r] = "none"
    BY <1>2 DEF NothingStarted, LaunchedSoFar
  <2>2. jobs' = jobs /\ started' = started /\ started = 0
    BY <1>2 DEF NothingStarted, die
  <2>3. Alive' \subseteq {sar}
    BY <2>1, <2>2 DEF Alive, Jobs
  <2>4. QED
    BY <2>2, <2>3
<1>3. CASE Finish
  BY <1>3 DEF Finish, die, CollectedSoFar, Alive
<1>4. ASSUME NEW j \in Jobs, JobEnds(j)
      PROVE  \/ \E r \in 1 .. Rows : rows'[r] = "keyless"
             \/ Alive' = {sar} /\ started' = 0
  <2>1. /\ jobs[j] = "running" /\ jobs'[j] # "running"
        /\ \A k \in Jobs : k # j => jobs'[k] = jobs[k]
        /\ UNCHANGED <<rows, pc, started>>
    BY <1>4 DEF JobEnds
  <2>2. Alive' \subseteq Alive /\ j \in Alive /\ j \notin Alive'
    BY <2>1 DEF Alive
  <2>3. QED
    BY <2>1, <2>2 DEF OrphansOnlyAfterDie
<1>5. CASE SkipRow \/ Launch \/ Sleep \/ ListJobs \/ WaitJob
  <2>1. FALSE
    BY <1>5 DEF SkipRow, Launch, Sleep, ListJobs, WaitJob
  <2>2. QED
    BY <2>1
<1>6. CASE Second \/ UNCHANGED vars
  BY <1>6 DEF Second, vars, OrphansOnlyAfterDie, Alive
<1>7. QED
  BY <1>1, <1>2, <1>3, <1>4, <1>5, <1>6 DEF Next, Script, AllOver

(* Orphans are left only by a missing key, or are sar on a host without    *)
(* rows (die in the launch loop of run.sh).                                *)
THEOREM OrphansExplained == Spec => []OrphansOnlyAfterDie
<1>1. Init => OrphansOnlyAfterDie
  BY DEF Init, OrphansOnlyAfterDie
<1>2. QED
  BY <1>1, NextOrphans, ScriptInvKept, PTL DEF Spec
=============================================================================
