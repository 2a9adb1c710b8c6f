----------------------------- MODULE StaticDial -----------------------------
(***************************************************************************)
(* connectStaticPeers of main.go: the phase in which a node dials every    *)
(* other peer of the topology file, in rounds, until all are connected or  *)
(* the window given by -connTimeout is over.  GossipNode models the rest   *)
(* of the process; its state "connecting" is this module.                  *)
(*                                                                         *)
(* h.Connect is external: a dial takes up to DialTimeout seconds and       *)
(* succeeds or fails for reasons the code does not see.                    *)
(***************************************************************************)
EXTENDS Integers, FiniteSets

CONSTANTS
  Peers,        \* the peers a topology file may name
  Timeout,      \* -connTimeout, in seconds
  DialTimeout,  \* limit of one dial, 2 in the code
  RetryPause    \* the sleep between two rounds, 1 in the code

(* parseFlags refuses a timeout that is not positive.                      *)
ASSUME DialAssumption ==
  /\ IsFiniteSet(Peers)
  /\ Timeout \in Nat \ {0}
  /\ DialTimeout \in Nat
  /\ RetryPause \in Nat \ {0}

VARIABLES
  pc,         \* where the function is
  now,        \* seconds since it was called
  deadline,   \* the end of the window
  pending,    \* the peers not connected yet
  todo,       \* those of them the current round has still to dial
  rounds,     \* history: rounds started
  attempts,   \* history: dials of each peer
  lastTry     \* history: when the last dial of each peer began

vars == <<pc, now, deadline, pending, todo, rounds, attempts, lastTry>>

States == {"called", "testing", "dialling", "returned"}

(* pending is built from the rows of the topology file, any set of peers.  *)
Init ==
  /\ pc = "called"
  /\ now = 0 /\ deadline = 0
  /\ pending \in SUBSET Peers
  /\ todo = {}
  /\ rounds = 0
  /\ attempts = [p \in Peers |-> 0]
  /\ lastTry = [p \in Peers |-> 0]

-----------------------------------------------------------------------------
(* With nobody to connect to the function returns before it reads a clock. *)
OpenWindow ==
  /\ pc = "called"
  /\ \/ /\ pending = {}
        /\ pc' = "returned"
        /\ UNCHANGED deadline
     \/ /\ pending # {}
        /\ pc' = "testing"
        /\ deadline' = now + Timeout
  /\ UNCHANGED <<now, pending, todo, rounds, attempts, lastTry>>

(* Mutant: the round starts whatever the time is.                          *)
StartRoundLate ==
  /\ pc = "testing"
  /\ pending # {}
  /\ pc' = "dialling"
  /\ todo' = pending
  /\ rounds' = rounds + 1
  /\ UNCHANGED <<now, deadline, pending, attempts, lastTry>>

(* Mutant: range over all peers, the connected ones included.              *)
StartRoundEveryone ==
  /\ pc = "testing"
  /\ pending # {} /\ now < deadline
  /\ pc' = "dialling"
  /\ todo' = Peers
  /\ rounds' = rounds + 1
  /\ UNCHANGED <<now, deadline, pending, attempts, lastTry>>

(* The loop condition holds: range over the pending peers.                 *)
StartRound ==
  /\ pc = "testing"
  /\ pending # {} /\ now < deadline
  /\ pc' = "dialling"
  /\ todo' = pending
  /\ rounds' = rounds + 1
  /\ UNCHANGED <<now, deadline, pending, attempts, lastTry>>

(* Mutant: the first failure ends the round, as break would.               *)
DialOrBreak ==
  /\ pc = "dialling"
  /\ \E p \in todo, spent \in 0 .. DialTimeout, connected \in BOOLEAN :
       /\ todo' = IF connected THEN todo \ {p} ELSE {}
       /\ now' = now + spent
       /\ pending' = IF connected THEN pending \ {p} ELSE pending
       /\ attempts' = [attempts EXCEPT ![p] = @ + 1]
       /\ lastTry' = [lastTry EXCEPT ![p] = now]
  /\ UNCHANGED <<pc, deadline, rounds>>

(* Mutant: no timeout on a dial, and a peer that never answers.            *)
DialWithoutTimeout ==
  /\ pc = "dialling"
  /\ \E p \in todo, spent \in 0 .. DialTimeout :
       /\ p # CHOOSE q \in Peers : TRUE
       /\ todo' = todo \ {p}
       /\ now' = now + spent
       /\ attempts' = [attempts EXCEPT ![p] = @ + 1]
       /\ lastTry' = [lastTry EXCEPT ![p] = now]
       /\ pending' \in {pending, pending \ {p}}
  /\ UNCHANGED <<pc, deadline, rounds>>

(* One dial of the round, in the arbitrary order of a Go map: a failure is *)
(* logged, a success removes the peer.                                     *)
Dial ==
  /\ pc = "dialling"
  /\ \E p \in todo, spent \in 0 .. DialTimeout :
       /\ todo' = todo \ {p}
       /\ now' = now + spent
       /\ attempts' = [attempts EXCEPT ![p] = @ + 1]
       /\ lastTry' = [lastTry EXCEPT ![p] = now]
       /\ pending' \in {pending, pending \ {p}}
  /\ UNCHANGED <<pc, deadline, rounds>>

(* After a round the function sleeps, unless nobody is left.               *)
EndRound ==
  /\ pc = "dialling"
  /\ todo = {}
  /\ pc' = "testing"
  /\ now' = IF pending # {} THEN now + RetryPause ELSE now
  /\ UNCHANGED <<deadline, pending, todo, rounds, attempts, lastTry>>

(* Mutant: give up after the first round.                                  *)
ReturnAfterOneRound ==
  /\ pc = "testing"
  /\ pending = {} \/ rounds > 0
  /\ pc' = "returned"
  /\ UNCHANGED <<now, deadline, pending, todo, rounds, attempts, lastTry>>

(* The loop condition fails; the function returns nothing, main goes on.   *)
Return ==
  /\ pc = "testing"
  /\ pending = {} \/ now >= deadline
  /\ pc' = "returned"
  /\ UNCHANGED <<now, deadline, pending, todo, rounds, attempts, lastTry>>

Returned == pc = "returned" /\ UNCHANGED vars

Next == OpenWindow \/ StartRound \/ Dial \/ EndRound \/ Return \/ Returned

Spec == Init /\ [][Next]_vars

(* Every dial ends, by its timeout at the latest, and the goroutine runs.  *)
FairSpec ==
  /\ Spec
  /\ WF_vars(OpenWindow \/ StartRound \/ Dial \/ EndRound \/ Return)

-----------------------------------------------------------------------------
(* Properties.                                                             *)

(* Every variable keeps its type; a round dials only pending peers.        *)
TypeOK ==
  /\ pc \in States
  /\ now \in Nat /\ deadline \in Nat /\ rounds \in Nat
  /\ pending \subseteq Peers /\ todo \subseteq pending
  /\ attempts \in [Peers -> Nat] /\ lastTry \in [Peers -> Nat]

(* A failing peer keeps nobody else from being dialled: between two rounds *)
(* every pending peer has been dialled once per round, so a node that      *)
(* gives up on a peer has tried it in the very last round (the continue    *)
(* after a failed h.Connect), and it has tried each at least once.         *)
EveryRoundDialsAll ==
  /\ \A p \in pending :
       attempts[p] = IF pc = "dialling" /\ p \in todo THEN rounds - 1 ELSE rounds
  /\ pc = "returned" /\ pending # {} => rounds > 0

(* A peer is given up on only after a dial begun near the end of the       *)
(* window: at most one round of slow dials and one pause lie between the   *)
(* start of its last dial and the end.  So a peer that answers from a full *)
(* round before the end on is connected, however slow the others are and   *)
(* in whatever order the map is ranged over.                               *)
TriedToTheEnd ==
  pc = "returned" =>
    \A p \in pending :
      lastTry[p] + DialTimeout * Cardinality(Peers) + RetryPause >= deadline

(* The window is only tested between rounds, so the last round overruns    *)
(* it (-connTimeout, "retry window in seconds", does not bound the phase), *)
(* but by at most one full dial of every peer and one pause.               *)
BoundedOverrun ==
  now <= Timeout - 1 + DialTimeout * Cardinality(Peers) + RetryPause

(* Why BoundedOverrun holds: a round starts before the deadline, and each  *)
(* dial it has used up is one peer fewer to dial.                          *)
OverrunBudget ==
  /\ pc = "called" => now = 0
  /\ pc = "testing" => deadline = Timeout
  /\ pc = "dialling" =>
       /\ deadline = Timeout
       /\ now + DialTimeout * Cardinality(todo)
            <= Timeout - 1 + DialTimeout * Cardinality(Peers)

(* The function returns whatever the peers do: no run waits for ever for   *)
(* its network.                                                            *)
Returns == <>(pc = "returned")

(* A connected peer is never dialled again (action property): the map is   *)
(* changed while it is ranged over, and that must not revive an entry.     *)
NoRedial ==
  [][\A p \in Peers : p \notin pending =>
       p \notin pending' /\ attempts'[p] = attempts[p]]_vars
=============================================================================
