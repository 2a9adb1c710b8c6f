------------------------------ MODULE RunScript -----------------------------
(***************************************************************************)
(* The launcher of one host, Launching_scripts/run.sh, from the start of   *)
(* sar to its exit status: it starts one node process per row of the       *)
(* topology file that names this host, sleeps for the experiment, and      *)
(* collects the processes that the shell still lists.                      *)
(*                                                                         *)
(* External: the processes, which end when they like but not with success  *)
(* before their duration is over (GossipNode, EndTimer), and the job table *)
(* of bash.  A command substitution such as $(jobs -p) sees the running    *)
(* jobs and, of the finished ones, at most the job started last (the one   *)
(* $! names), and not even that one when a signal killed it: every other   *)
(* finished job is forgotten, whatever its exit status was.                *)
(***************************************************************************)
EXTENDS Integers, FiniteSets

CONSTANTS
  Rows,       \* number of rows of the topology file
  Duration,   \* the experiment, in seconds
  Margin,     \* sleep_margin
  MaxClock    \* bound: seconds counted after the launch loop

ASSUME ScriptAssumption ==
  /\ Rows \in Nat /\ Duration \in Nat /\ Margin \in Nat /\ MaxClock \in Nat

(* A row is empty or of another host, or of this host with its key file    *)
(* there or missing.                                                       *)
RowKinds == {"elsewhere", "local", "keyless"}

sar  == 0
Jobs == {sar} \cup 1 .. Rows

VARIABLES
  rows,     \* the topology file
  pc,       \* where the script is
  row,      \* the row the launch loop reads next
  started,  \* node processes started
  jobs,     \* what became of sar and of the process of each row
  clock,    \* seconds since the launch loop ended
  listed,   \* the jobs the collecting loop has still to wait for
  fail,     \* the variable fail
  status,   \* exit status, -1 before the exit
  late      \* history: the jobs that ran when the sleep ended

vars == <<rows, pc, row, started, jobs, clock, listed, fail, status, late>>

JobStates == {"none", "running", "succeeded", "failed", "killed"}

Started == {j \in Jobs : jobs[j] # "none"}
Alive   == {j \in Jobs : jobs[j] = "running"}
Failed  == {j \in Jobs : jobs[j] \in {"failed", "killed"}}

LastStarted == {j \in Started : \A k \in Started : k <= j}

Init ==
  /\ rows \in [1 .. Rows -> RowKinds]
  /\ pc = "launching" /\ row = 1 /\ started = 0
  /\ jobs \in {[j \in Jobs |-> IF j = sar THEN s ELSE "none"] :
                 s \in {"none", "running"}}
  /\ clock = 0 /\ listed = {} /\ fail = 0 /\ status = -1 /\ late = {}

-----------------------------------------------------------------------------
die ==
  /\ pc' = "exited" /\ status' = 1
  /\ UNCHANGED <<rows, row, started, jobs, clock, listed, fail, late>>

(* The launch loop, one row at a time.                                     *)
SkipRow ==
  /\ pc = "launching" /\ row <= Rows
  /\ rows[row] = "elsewhere"
  /\ row' = row + 1
  /\ UNCHANGED <<rows, pc, started, jobs, clock, listed, fail, status, late>>

MissingKey ==
  /\ pc = "launching" /\ row <= Rows
  /\ rows[row] = "keyless"
  /\ die

Launch ==
  /\ pc = "launching" /\ row <= Rows
  /\ rows[row] = "local"
  /\ jobs' = [jobs EXCEPT ![row] = "running"]
  /\ started' = started + 1
  /\ row' = row + 1
  /\ UNCHANGED <<rows, pc, clock, listed, fail, status, late>>

NothingStarted ==
  /\ pc = "launching" /\ row > Rows
  /\ started = 0
  /\ die

Sleep ==
  /\ pc = "launching" /\ row > Rows
  /\ started > 0
  /\ pc' = "sleeping"
  /\ UNCHANGED <<rows, row, started, jobs, clock, listed, fail, status, late>>

(* Mutant: wait $!, only the process started last.                         *)
ListLastJob ==
  /\ pc = "sleeping"
  /\ clock >= Duration + Margin
  /\ pc' = "collecting"
  /\ listed' = LastStarted
  /\ late' = Alive
  /\ UNCHANGED <<rows, row, started, jobs, clock, fail, status>>

(* Mutant: one job per row of the file.                                    *)
ListEveryRow ==
  /\ pc = "sleeping"
  /\ clock >= Duration + Margin
  /\ pc' = "collecting"
  /\ listed' = Jobs
  /\ late' = Alive
  /\ UNCHANGED <<rows, row, started, jobs, clock, fail, status>>

(* The sleep is over: $(jobs -p) is expanded once, before the first wait.  *)
(* The job started last is still listed when it has ended by itself; when  *)
(* a signal killed it, bash may not have noticed yet.                      *)
ListJobs ==
  /\ pc = "sleeping"
  /\ clock >= Duration + Margin
  /\ pc' = "collecting"
  /\ \E forgotten \in SUBSET {j \in LastStarted : jobs[j] = "killed"} :
       listed' = Alive \cup (LastStarted \ forgotten)
  /\ late' = Alive
  /\ UNCHANGED <<rows, row, started, jobs, clock, fail, status>>

(* Mutant: each wait overwrites the verdict of the one before.             *)
WaitJobKeepLast ==
  /\ pc = "collecting" /\ listed # {}
  /\ \E j \in listed :
       /\ \A k \in listed : j <= k
       /\ jobs[j] # "running"
       /\ listed' = listed \ {j}
       /\ fail' = IF j \in Failed THEN 1 ELSE 0
  /\ UNCHANGED <<rows, pc, row, started, jobs, clock, status, late>>

(* Mutant: the negation is missing, if wait "$job".                        *)
WaitJobInverted ==
  /\ pc = "collecting" /\ listed # {}
  /\ \E j \in listed :
       /\ \A k \in listed : j <= k
       /\ jobs[j] # "running"
       /\ listed' = listed \ {j}
       /\ fail' = IF j \in Failed THEN fail ELSE 1
  /\ UNCHANGED <<rows, pc, row, started, jobs, clock, status, late>>

(* Mutant: until wait "$job", a failed job is waited for again.            *)
WaitJobUntilSuccess ==
  /\ pc = "collecting" /\ listed # {}
  /\ \E j \in listed :
       /\ \A k \in listed : j <= k
       /\ jobs[j] = "succeeded"
       /\ listed' = listed \ {j}
  /\ UNCHANGED <<rows, pc, row, started, jobs, clock, fail, status, late>>

(* wait blocks until the next listed job, in job order, has ended.         *)
WaitJob ==
  /\ pc = "collecting" /\ listed # {}
  /\ \E j \in listed :
       /\ \A k \in listed : j <= k
       /\ jobs[j] # "running"
       /\ listed' = listed \ {j}
       /\ fail' = IF j \in Failed THEN 1 ELSE fail
  /\ UNCHANGED <<rows, pc, row, started, jobs, clock, status, late>>

(* "All jobs finished successfully", or die "some jobs failed".            *)
Finish ==
  /\ pc = "collecting" /\ listed = {}
  /\ \/ /\ fail = 0
        /\ pc' = "exited" /\ status' = 0
        /\ UNCHANGED <<rows, row, started, jobs, clock, listed, fail, late>>
     \/ fail # 0 /\ die

-----------------------------------------------------------------------------
(* External: a process ends, by an exit status or by a signal; time passes *)
(* once the processes are launched.                                        *)
JobEnds(j) ==
  /\ jobs[j] = "running"
  /\ \/ \E end \in {"failed", "killed"} : jobs' = [jobs EXCEPT ![j] = end]
     \/ clock >= Duration /\ jobs' = [jobs EXCEPT ![j] = "succeeded"]
  /\ UNCHANGED <<rows, pc, row, started, clock, listed, fail, status, late>>

Second ==
  /\ pc # "launching" /\ clock < MaxClock
  /\ clock' = clock + 1
  /\ UNCHANGED <<rows, pc, row, started, jobs, listed, fail, status, late>>

-----------------------------------------------------------------------------
Script == \/ SkipRow \/ MissingKey \/ Launch \/ NothingStarted \/ Sleep
          \/ ListJobs \/ WaitJob \/ Finish

AllOver == /\ pc = "exited" /\ Alive = {} /\ clock = MaxClock
           /\ UNCHANGED vars

Next == Script \/ (\E j \in Jobs : JobEnds(j)) \/ Second \/ AllOver

Spec == Init /\ [][Next]_vars

(* The shell runs, time passes, and every process ends (ProcessEnds of     *)
(* GossipNode for a node, its count argument for sar).                     *)
FairSpec == /\ Spec
            /\ WF_vars(Script) /\ WF_vars(Second)
            /\ \A j \in Jobs : WF_vars(JobEnds(j))

-----------------------------------------------------------------------------
(* Properties.                                                             *)

(* Every variable keeps its type; only started jobs are waited for.        *)
TypeOK ==
  /\ rows \in [1 .. Rows -> RowKinds]
  /\ pc \in {"launching", "sleeping", "collecting", "exited"}
  /\ row \in 1 .. Rows + 1
  /\ started \in Nat
  /\ jobs \in [Jobs -> JobStates]
  /\ clock \in Nat
  /\ listed \subseteq Started /\ late \subseteq Started
  /\ fail \in {0, 1} /\ status \in {-1, 0, 1}

(* An exit status of 0 means that nothing this script started is running   *)
(* any more and that every row of this host was started: the list, taken   *)
(* once, misses no running job although jobs end while it is worked off.   *)
SuccessLeavesNothingRunning ==
  status = 0 =>
    /\ Alive = {}
    /\ \A r \in 1 .. Rows : rows[r] # "elsewhere" => jobs[r] # "none"

(* An exit status of 1 is never a false alarm: a key file is missing, the  *)
(* host has no row, or one of the jobs did fail.                           *)
FailureHasCause ==
  status = 1 =>
    \/ \E r \in 1 .. Rows : rows[r] = "keyless"
    \/ \A r \in 1 .. Rows : rows[r] = "elsewhere"
    \/ Failed # {}

(* die in the launch loop leaves the processes already started to          *)
(* themselves; a missing key, or sar on a host without rows, is the only   *)
(* way to such orphans.                                                    *)
OrphansOnlyAfterDie ==
  pc = "exited" /\ Alive # {} =>
    \/ \E r \in 1 .. Rows : rows[r] = "keyless"
    \/ Alive = {sar} /\ started = 0

(* A job still running when the sleep ends cannot fail unnoticed, whatever *)
(* the jobs waited for after it do (the accumulation into fail).           *)
LateFailureReported ==
  status = 0 => \A j \in late : jobs[j] = "succeeded"

(* Why these hold.  The launch loop has started the processes of the rows  *)
(* it has read and no other.                                               *)
LaunchedSoFar ==
  /\ \A r \in 1 .. Rows :
       /\ r < row /\ rows[r] # "elsewhere" => jobs[r] # "none" /\ started > 0
       /\ jobs[r] # "none" => started > 0
  /\ pc \in {"sleeping", "collecting"} => row > Rows

(* And the collecting loop loses sight of no running and of no failed job. *)
CollectedSoFar ==
  /\ pc = "collecting" => Alive \subseteq listed
  /\ pc \in {"launching", "sleeping"} => fail = 0
  /\ fail = 1 => Failed # {}
  /\ pc = "collecting" /\ fail = 0 =>
       \A j \in late : j \in listed \/ jobs[j] = "succeeded"
  /\ status = -1 <=> pc # "exited"
  /\ status = 0 => row > Rows /\ Alive = {}

(* The script ends: it waits for ever for nothing that has ended.          *)
ScriptEnds == <>(pc = "exited")

(* What the script says when it exits with 0 (run.sh: "All jobs finished   *)
(* successfully"): no node process has failed.                             *)
AllJobsSucceeded ==
  status = 0 => \A j \in Started \ {sar} : jobs[j] = "succeeded"
=============================================================================
