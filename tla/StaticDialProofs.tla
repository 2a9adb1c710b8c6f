-------------------------- MODULE StaticDialProofs --------------------------
(***************************************************************************)
(* Proofs about the dialling phase, for every set of peers, every window   *)
(* and every limit of a dial.                                              *)
(***************************************************************************)
EXTENDS StaticDial, FiniteSetTheorems, TLAPS

(* Type correctness: see TypeOK.  A round only dials pending peers because *)
(* it starts from them and a dial leaves both sets together.               *)
LEMMA InitTypes == Init => TypeOK
BY DialAssumption DEF Init, TypeOK, States

LEMMA NextTypes == TypeOK /\ [Next]_vars => TypeOK'
<1> SUFFICES ASSUME TypeOK, [Next]_vars PROVE TypeOK'
  OBVIOUS
<1> USE DialAssumption DEF TypeOK, States
<1>1. CASE OpenWindow
  BY <1>1 DEF OpenWindow
<1>2. CASE StartRound
  BY <1>2 DEF StartRound
<1>3. CASE Dial
  <2>1. PICK p \in todo, spent \in 0 .. DialTimeout :
          /\ todo' = todo \ {p}
          /\ now' = now + spent
          /\ attempts' = [attempts EXCEPT ![p] = @ + 1]
          /\ lastTry' = [lastTry EXCEPT ![p] = now]
          /\ pending' \in {pending, pending \ {p}}
    BY <1>3 DEF Dial
  <2>2. attempts' \in [Peers -> Nat] /\ lastTry' \in [Peers -> Nat]
    BY <2>1
  <2>3. now' \in Nat
    BY <2>1
  <2>4. pending' \subseteq Peers /\ todo' \subseteq pending'
    BY <2>1
  <2>5. QED
    BY <1>3, <2>2, <2>3, <2>4 DEF Dial
<1>4. CASE EndRound
  BY <1>4 DEF EndRound
<1>5. CASE Return
  BY <1>5 DEF Return
<1>6. CASE UNCHANGED vars
  BY <1>6 DEF vars
<1>7. QED
  BY <1>1, <1>2, <1>3, <1>4, <1>5, <1>6 DEF Next, Returned

THEOREM TypeCorrect == Spec => []TypeOK
BY InitTypes, NextTypes, PTL DEF Spec

-----------------------------------------------------------------------------
(* The set of peers still to dial is finite, and one smaller after a dial. *)
LEMMA TodoCount ==
  ASSUME TypeOK
  PROVE  /\ Cardinality(todo) \in Nat
         /\ Cardinality(todo) <= Cardinality(Peers)
         /\ Cardinality(Peers) \in Nat
         /\ Cardinality(pending) \in Nat
         /\ Cardinality(pending) <= Cardinality(Peers)
         /\ \A p \in todo : Cardinality(todo \ {p}) = Cardinality(todo) - 1
<1>1. IsFiniteSet(Peers) /\ todo \subseteq Peers /\ pending \subseteq Peers
  BY DialAssumption DEF TypeOK
<1>2. /\ IsFiniteSet(todo) /\ Cardinality(todo) <= Cardinality(Peers)
      /\ Cardinality(pending) <= Cardinality(Peers) /\ IsFiniteSet(pending)
  BY <1>1, FS_Subset
<1>3. /\ Cardinality(todo) \in Nat /\ Cardinality(Peers) \in Nat
      /\ Cardinality(pending) \in Nat
  BY <1>1, <1>2, FS_CardinalityType
<1>4. ASSUME NEW p \in todo
      PROVE  Cardinality(todo \ {p}) = Cardinality(todo) - 1
  BY <1>2, FS_RemoveElement
<1>5. QED
  BY <1>2, <1>3, <1>4

(* Multiplication by a fixed natural number.                               *)
LEMMA TimesFacts ==
  ASSUME NEW k \in Nat, NEW m \in Nat, NEW n \in Nat, m <= n
  PROVE  /\ k * m \in Nat /\ k * n \in Nat
         /\ k * m <= k * n
         /\ k * (m - 1) = k * m - k
  OBVIOUS

(* The last round overruns the window by no more than BoundedOverrun says: *)
(* the inductive part is OverrunBudget, the time a round may still take.   *)
WindowInv == TypeOK /\ OverrunBudget /\ BoundedOverrun

LEMMA InitWindow == Init => WindowInv
<1> SUFFICES ASSUME Init PROVE WindowInv
  OBVIOUS
<1>1. TypeOK
  BY InitTypes
<1>2. DialTimeout * Cardinality(Peers) \in Nat
  BY <1>1, TodoCount, TimesFacts, DialAssumption
<1>3. OverrunBudget
  BY DEF Init, OverrunBudget
<1>4. BoundedOverrun
  BY <1>2, DialAssumption DEF Init, BoundedOverrun
<1>5. QED
  BY <1>1, <1>3, <1>4 DEF WindowInv

LEMMA NextWindow == WindowInv /\ [Next]_vars => WindowInv'
<1> SUFFICES ASSUME WindowInv, [Next]_vars PROVE WindowInv'
  OBVIOUS
<1> DEFINE all == DialTimeout * Cardinality(Peers)
           left == DialTimeout * Cardinality(todo)
           wanted == DialTimeout * Cardinality(pending)
<1>1. TypeOK /\ OverrunBudget /\ BoundedOverrun /\ TypeOK'
  BY NextTypes DEF WindowInv
<1>2. /\ all \in Nat /\ left \in Nat /\ wanted \in Nat
      /\ left <= all /\ wanted <= all
  <2>1. /\ Cardinality(todo) \in Nat /\ Cardinality(Peers) \in Nat
        /\ Cardinality(pending) \in Nat
        /\ Cardinality(todo) <= Cardinality(Peers)
        /\ Cardinality(pending) <= Cardinality(Peers)
    BY <1>1, TodoCount
  <2>2. DialTimeout \in Nat
    BY DialAssumption
  <2>3. QED
    BY <2>1, <2>2, TimesFacts
<1>3. /\ now \in Nat /\ deadline \in Nat /\ rounds \in Nat
      /\ Timeout \in Nat \ {0} /\ DialTimeout \in Nat /\ RetryPause \in Nat \ {0}
  BY <1>1, DialAssumption DEF TypeOK
<1>4. now <= Timeout - 1 + all + RetryPause
  BY <1>1 DEF BoundedOverrun
<1>5. CASE OpenWindow
  <2>1. now = 0 /\ now' = now
    BY <1>1, <1>5 DEF OpenWindow, OverrunBudget
  <2>2. CASE pc' = "returned" /\ deadline' = deadline /\ pending = {}
    BY <1>1, <1>4, <2>1, <2>2 DEF WindowInv, OverrunBudget, BoundedOverrun
  <2>3. CASE pc' = "testing" /\ deadline' = now + Timeout
    BY <1>1, <1>3, <1>4, <2>1, <2>3 DEF WindowInv, OverrunBudget, BoundedOverrun
  <2>4. QED
    BY <1>5, <2>2, <2>3 DEF OpenWindow
<1>6. CASE StartRound
  <2>1. /\ now' = now /\ deadline' = deadline /\ todo' = pending
        /\ now < deadline /\ deadline = Timeout /\ pc' = "dialling"
    BY <1>1, <1>6 DEF StartRound, OverrunBudget
  <2>2. now + wanted <= Timeout - 1 + all
    BY <1>2, <1>3, <2>1
  <2>3. OverrunBudget'
    BY <2>1, <2>2 DEF OverrunBudget
  <2>4. BoundedOverrun'
    BY <1>4, <2>1 DEF BoundedOverrun
  <2>5. QED
    BY <1>1, <2>3, <2>4 DEF WindowInv
<1>7. CASE Dial
  <2>1. PICK p \in todo, spent \in 0 .. DialTimeout :
          /\ todo' = todo \ {p}
          /\ now' = now + spent
    BY <1>7 DEF Dial
  <2>2. /\ deadline = Timeout /\ deadline' = deadline /\ pc' = "dialling"
        /\ now + left <= Timeout - 1 + all
    BY <1>1, <1>7 DEF Dial, OverrunBudget
  <2> DEFINE leftAfter == DialTimeout * Cardinality(todo')
  <2>3. leftAfter = left - DialTimeout
    <3>1. Cardinality(todo') = Cardinality(todo) - 1 /\ Cardinality(todo) \in Nat
      BY <1>1, <2>1, TodoCount
    <3>2. DialTimeout * (Cardinality(todo) - 1) = DialTimeout * Cardinality(todo) - DialTimeout
      BY <1>3, <3>1, TimesFacts
    <3>3. QED
      BY <3>1, <3>2
  <2>4. leftAfter \in Nat
    <3>1. Cardinality(todo') \in Nat
      <4>1. IsFiniteSet(Peers) /\ todo' \subseteq Peers
        BY <1>1, DialAssumption DEF TypeOK
      <4>2. QED
        BY <4>1, FS_Subset, FS_CardinalityType
    <3>2. QED
      BY <1>3, <3>1, TimesFacts
  <2> HIDE DEF leftAfter
  <2>5. now' + leftAfter <= Timeout - 1 + all
    BY <1>2, <1>3, <2>1, <2>2, <2>3
  <2>6. now' \in Nat /\ now' <= Timeout - 1 + all + RetryPause
    BY <1>2, <1>3, <2>1, <2>4, <2>5
  <2>7. OverrunBudget'
    BY <2>2, <2>5 DEF OverrunBudget, leftAfter
  <2>8. BoundedOverrun'
    BY <2>6 DEF BoundedOverrun
  <2>9. QED
    BY <1>1, <2>7, <2>8 DEF WindowInv
<1>8. CASE EndRound
  <2>1. /\ deadline = Timeout /\ deadline' = deadline /\ pc' = "testing"
        /\ now + left <= Timeout - 1 + all
        /\ now' = now + RetryPause \/ now' = now
    BY <1>1, <1>8 DEF EndRound, OverrunBudget
  <2>2. now' <= Timeout - 1 + all + RetryPause
    BY <1>2, <1>3, <2>1
  <2>3. OverrunBudget'
    BY <2>1 DEF OverrunBudget
  <2>4. QED
    BY <1>1, <2>2, <2>3 DEF WindowInv, BoundedOverrun
<1>9. CASE Return
  <2>1. /\ deadline = Timeout /\ deadline' = deadline /\ pc' = "returned"
        /\ now' = now
    BY <1>1, <1>9 DEF Return, OverrunBudget
  <2>2. QED
    BY <1>1, <1>4, <2>1 DEF WindowInv, OverrunBudget, BoundedOverrun
<1>10. CASE UNCHANGED vars
  BY <1>1, <1>10 DEF vars, WindowInv, OverrunBudget, BoundedOverrun
<1>11. QED
  BY <1>5, <1>6, <1>7, <1>8, <1>9, <1>10 DEF Next, Returned

THEOREM OverrunIsBounded == Spec => []BoundedOverrun
<1>1. WindowInv => BoundedOverrun
  BY DEF WindowInv
<1>2. QED
  BY <1>1, InitWindow, NextWindow, PTL DEF Spec

-----------------------------------------------------------------------------
(* A failing peer keeps nobody else from being dialled: see                *)
(* EveryRoundDialsAll.  What the induction adds is that a round leaves no  *)
(* peer to dial, and that the first test of the window comes in time.      *)
RoundEdges ==
  /\ pc = "called" => rounds = 0 /\ now = 0
  /\ pc = "testing" => (rounds = 0 => now < deadline)
  /\ pc = "dialling" => rounds > 0

RoundInv == TypeOK /\ RoundEdges /\ EveryRoundDialsAll

LEMMA InitRounds == Init => RoundInv
BY InitTypes DEF Init, TypeOK, RoundInv, RoundEdges, EveryRoundDialsAll

LEMMA NextRounds == RoundInv /\ [Next]_vars => RoundInv'
<1> SUFFICES ASSUME RoundInv, [Next]_vars PROVE RoundEdges' /\ EveryRoundDialsAll'
  BY NextTypes DEF RoundInv
<1> USE DialAssumption DEF RoundInv, RoundEdges, EveryRoundDialsAll, TypeOK
<1>1. CASE OpenWindow
  BY <1>1 DEF OpenWindow
<1>2. CASE StartRound
  BY <1>2 DEF StartRound
<1>3. CASE Dial
  <2>1. PICK p \in todo, spent \in 0 .. DialTimeout :
          /\ todo' = todo \ {p}
          /\ attempts' = [attempts EXCEPT ![p] = @ + 1]
          /\ pending' \in {pending, pending \ {p}}
    BY <1>3 DEF Dial
  <2>2. pc = "dialling" /\ pc' = "dialling" /\ rounds' = rounds /\ rounds > 0
    BY <1>3 DEF Dial
  <2>3. ASSUME NEW q \in pending'
        PROVE  attempts'[q] = IF q \in todo' THEN rounds - 1 ELSE rounds
    <3>1. CASE q = p
      BY <2>1, <2>2, <3>1
    <3>2. CASE q # p
      BY <2>1, <2>2, <2>3, <3>2
    <3>3. QED
      BY <3>1, <3>2
  <2>4. QED
    BY <2>2, <2>3
<1>4. CASE EndRound
  BY <1>4 DEF EndRound
<1>5. CASE Return
  BY <1>5 DEF Return
<1>6. CASE UNCHANGED vars
  BY <1>6 DEF vars
<1>7. QED
  BY <1>1, <1>2, <1>3, <1>4, <1>5, <1>6 DEF Next, Returned

THEOREM RoundsDialAll == Spec => []EveryRoundDialsAll
<1>1. RoundInv => EveryRoundDialsAll
  BY DEF RoundInv
<1>2. QED
  BY <1>1, InitRounds, NextRounds, PTL DEF Spec

(* A peer is given up on only after a dial begun near the end of the       *)
(* window: see TriedToTheEnd.  The inductive part bounds the time since    *)
(* the last dial of a pending peer: in a round by the dials used up so     *)
(* far, and between two rounds by a whole round and the pause.             *)
TryAges ==
  /\ pc = "dialling" =>
       \A p \in pending \ todo :
         now <= lastTry[p]
                  + (DialTimeout * Cardinality(Peers) - DialTimeout * Cardinality(todo))
  /\ pc = "testing" /\ rounds > 0 =>
       \A p \in pending :
         now <= lastTry[p] + DialTimeout * Cardinality(Peers) + RetryPause

TryInv == RoundInv /\ TryAges /\ TriedToTheEnd

LEMMA InitTries == Init => TryInv
BY InitRounds DEF Init, TryInv, TryAges, TriedToTheEnd

LEMMA NextTries == TryInv /\ [Next]_vars => TryInv'
<1> SUFFICES ASSUME TryInv, [Next]_vars PROVE TryAges' /\ TriedToTheEnd'
  BY NextRounds DEF TryInv
<1> DEFINE all == DialTimeout * Cardinality(Peers)
           left == DialTimeout * Cardinality(todo)
<1>1. TypeOK /\ RoundEdges /\ TryAges /\ TriedToTheEnd /\ TypeOK'
  BY NextTypes DEF TryInv, RoundInv
<1>2. /\ all \in Nat /\ left \in Nat
      /\ now \in Nat /\ deadline \in Nat /\ rounds \in Nat
      /\ DialTimeout \in Nat /\ RetryPause \in Nat
      /\ \A p \in pending : lastTry[p] \in Nat
  <2>1. Cardinality(todo) \in Nat /\ Cardinality(Peers) \in Nat
    BY <1>1, TodoCount
  <2>2. all \in Nat /\ left \in Nat
    BY <2>1, TimesFacts, DialAssumption
  <2>3. QED
    BY <1>1, <2>2, DialAssumption DEF TypeOK
<1>3. CASE OpenWindow
  BY <1>1, <1>3 DEF OpenWindow, RoundEdges, TryAges, TriedToTheEnd
<1>4. CASE StartRound
  BY <1>4 DEF StartRound, TryAges, TriedToTheEnd
<1>5. CASE Dial
  <2>1. PICK p \in todo, spent \in 0 .. DialTimeout :
          /\ todo' = todo \ {p}
          /\ now' = now + spent
          /\ lastTry' = [lastTry EXCEPT ![p] = now]
          /\ pending' \in {pending, pending \ {p}}
    BY <1>5 DEF Dial
  <2>2. pc = "dialling" /\ pc' = "dialling"
    BY <1>5 DEF Dial
  <2> DEFINE leftAfter == DialTimeout * Cardinality(todo')
  <2>3. leftAfter = left - DialTimeout
    <3>1. Cardinality(todo') = Cardinality(todo) - 1 /\ Cardinality(todo) \in Nat
      BY <1>1, <2>1, TodoCount
    <3>2. DialTimeout * (Cardinality(todo) - 1) = DialTimeout * Cardinality(todo) - DialTimeout
      BY <1>2, <3>1, TimesFacts
    <3>3. QED
      BY <3>1, <3>2
  <2>4. left <= all
    BY <1>1, <1>2, TodoCount, TimesFacts
  <2>5. \A q \in pending \ todo : now <= lastTry[q] + (all - left)
    BY <1>1, <2>2 DEF TryAges
  <2>6. DOMAIN lastTry = Peers /\ pending \subseteq Peers /\ todo \subseteq pending
    BY <1>1 DEF TypeOK
  <2> HIDE DEF all, left, leftAfter
  <2>7. ASSUME NEW q \in pending' \ todo'
        PROVE  now' <= lastTry'[q] + (all - leftAfter)
    <3>1. CASE q = p
      <4>1. lastTry'[q] = now
        BY <2>1, <2>6, <3>1
      <4>2. QED
        BY <1>2, <2>1, <2>3, <2>4, <4>1
    <3>2. CASE q # p
      <4>1. q \in pending \ todo /\ lastTry'[q] = lastTry[q] /\ lastTry[q] \in Nat
        BY <1>2, <2>1, <2>6, <2>7, <3>2
      <4>2. now <= lastTry[q] + (all - left)
        BY <2>5, <4>1
      <4>3. QED
        BY <1>2, <2>1, <2>3, <4>1, <4>2
    <3>3. QED
      BY <3>1, <3>2
  <2>8. QED
    BY <2>2, <2>7 DEF TryAges, TriedToTheEnd, all, leftAfter
<1>6. CASE EndRound
  <2>1. /\ pc = "dialling" /\ todo = {} /\ pc' = "testing"
        /\ pending' = pending /\ lastTry' = lastTry
        /\ now' <= now + RetryPause
    BY <1>2, <1>6 DEF EndRound
  <2>2. left = 0
    BY <1>2, <2>1, FS_EmptySet
  <2>3. ASSUME NEW p \in pending
        PROVE  now <= lastTry[p] + (all - left)
    BY <1>1, <2>1, <2>3 DEF TryAges
  <2>4. now' \in Nat
    BY <1>1 DEF TypeOK
  <2> HIDE DEF all, left
  <2>5. ASSUME NEW p \in pending'
        PROVE  now' <= lastTry'[p] + all + RetryPause
    BY <1>2, <2>1, <2>2, <2>3, <2>4
  <2>6. QED
    BY <2>1, <2>5 DEF TryAges, TriedToTheEnd, all
<1>7. CASE Return
  <2>1. /\ pc = "testing" /\ pc' = "returned"
        /\ pending' = pending /\ lastTry' = lastTry /\ deadline' = deadline
        /\ pending = {} \/ now >= deadline
    BY <1>7 DEF Return
  <2>2. ASSUME NEW p \in pending'
        PROVE  lastTry'[p] + all + RetryPause >= deadline'
    <3>1. now >= deadline /\ rounds > 0
      BY <1>1, <1>2, <2>1, <2>2 DEF RoundEdges
    <3>2. now <= lastTry[p] + all + RetryPause
      BY <1>1, <2>1, <2>2, <3>1 DEF TryAges
    <3> HIDE DEF all
    <3>3. QED
      BY <1>2, <2>1, <2>2, <3>1, <3>2
  <2>3. QED
    BY <2>1, <2>2 DEF TryAges, TriedToTheEnd
<1>8. CASE UNCHANGED vars
  BY <1>1, <1>8 DEF vars, TryAges, TriedToTheEnd
<1>9. QED
  BY <1>3, <1>4, <1>5, <1>6, <1>7, <1>8 DEF Next, Returned

THEOREM PeersTriedLate == Spec => []TriedToTheEnd
<1>1. TryInv => TriedToTheEnd
  BY DEF TryInv
<1>2. QED
  BY <1>1, InitTries, NextTries, PTL DEF Spec

(* A connected peer stays connected in the map and is never dialled again. *)
THEOREM ConnectedNotRedialled == Spec => NoRedial
<1> DEFINE Kept == \A p \in Peers : p \notin pending =>
                     p \notin pending' /\ attempts'[p] = attempts[p]
<1>1. TypeOK /\ [Next]_vars => [Kept]_vars
  <2> SUFFICES ASSUME TypeOK, Next, NEW p \in Peers, p \notin pending
               PROVE  p \notin pending' /\ attempts'[p] = attempts[p]
    BY DEF vars
  <2>1. CASE Dial
    <3>1. PICK q \in todo :
            /\ attempts' = [attempts EXCEPT ![q] = @ + 1]
            /\ pending' \in {pending, pending \ {q}}
      BY <2>1 DEF Dial
    <3>2. q # p
      BY DEF TypeOK
    <3>3. QED
      BY <3>1, <3>2 DEF TypeOK
  <2>2. CASE OpenWindow \/ StartRound \/ EndRound \/ Return \/ Returned
    BY <2>2 DEF OpenWindow, StartRound, EndRound, Return, Returned, vars
  <2>3. QED
    BY <2>1, <2>2 DEF Next
<1>2. QED
  BY <1>1, TypeCorrect, PTL DEF Spec, NoRedial
=============================================================================
