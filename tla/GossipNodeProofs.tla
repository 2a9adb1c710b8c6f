-------------------------- MODULE GossipNodeProofs --------------------------
(***************************************************************************)
(* Proofs about one node process, for every duration, interval, buffer     *)
(* size, role and percentage.                                              *)
(***************************************************************************)
EXTENDS GossipNode, TLAPS

(* Appending to a sequence and taking its head away, position by position. *)
LEMMA AppendFacts ==
  ASSUME NEW S, NEW q \in Seq(S), NEW e \in S
  PROVE  /\ Append(q, e) \in Seq(S)
         /\ Len(Append(q, e)) = Len(q) + 1
         /\ \A i \in 1 .. Len(q) : Append(q, e)[i] = q[i]
         /\ Append(q, e)[Len(q) + 1] = e
  OBVIOUS

LEMMA TailFacts ==
  ASSUME NEW S, NEW q \in Seq(S), q # <<>>
  PROVE  /\ Tail(q) \in Seq(S)
         /\ Len(q) \in Nat \ {0}
         /\ Len(Tail(q)) = Len(q) - 1
         /\ \A i \in 1 .. Len(q) - 1 : Tail(q)[i] = q[i + 1]
         /\ Head(q) \in S /\ Head(q) = q[1]
  OBVIOUS

-----------------------------------------------------------------------------
(* A publish adds one well-formed record, stamped with the clock.          *)
LEMMA PublishTypes ==
  ASSUME TypeOK, publish
  PROVE  /\ published' \in Seq(Publication)
         /\ publishID' = publishID + 1
         /\ Len(published') = Len(published) + 1
         /\ \A n \in 1 .. Len(published) : published'[n] = published[n]
         /\ published'[Len(published) + 1].at = clock
<1>1. PICK sent \in BOOLEAN :
        /\ published' = Append(published,
             [invalid |-> markedInvalid(Role, publishID, InvalidPct),
              sent |-> sent, at |-> clock])
        /\ publishID' = publishID + 1
  BY Zenon DEF publish
<1>2. markedInvalid(Role, publishID, InvalidPct) \in BOOLEAN
  BY Zenon DEF markedInvalid
<1> DEFINE new == [invalid |-> markedInvalid(Role, publishID, InvalidPct),
                   sent |-> sent, at |-> clock]
<1>3. new \in Publication /\ new.at = clock
  BY <1>2 DEF Publication, TypeOK
<1> HIDE DEF new
<1>4. published \in Seq(Publication)
  BY DEF TypeOK
<1>5. published' = Append(published, new)
  BY <1>1 DEF new
<1>6. QED
  BY <1>1, <1>3, <1>4, <1>5, AppendFacts

(* What the router's offer does to the subscription.                       *)
RouterOffered ==
  /\ sub' \in Seq(Message) /\ Len(sub') <= SubBufferSize
  /\ offered' = offered + 1 /\ lost' \in Nat
  /\ UNCHANGED <<main, timerVars, sendVars, reportVars,
                 held, Messages, closed, skipped>>

LEMMA OfferTypes ==
  ASSUME TypeOK, NEW own \in BOOLEAN, NEW seq \in Nat, Offer(own, seq)
  PROVE  RouterOffered
<1> DEFINE new == [id |-> offered + 1, own |-> own, seq |-> seq]
<1>1. new \in Message
  BY DEF Message, TypeOK
<1>2. CASE sub' = Append(sub, new) /\ Len(sub) < SubBufferSize /\ lost' = lost
  <2> HIDE DEF new
  <2>1. Len(sub') = Len(sub) + 1 /\ sub' \in Seq(Message)
    BY <1>1, <1>2, AppendFacts DEF TypeOK
  <2>2. QED
    BY <1>2, <2>1, NodeAssumption DEF TypeOK, Offer, RouterOffered
<1>3. CASE sub' = sub /\ lost' = lost + 1
  BY <1>3 DEF TypeOK, Offer, RouterOffered
<1>4. QED
  BY <1>2, <1>3 DEF Offer

-----------------------------------------------------------------------------
(* Type correctness: see TypeOK.                                           *)
THEOREM TypeCorrect == Spec => []TypeOK
<1> USE NodeAssumption
<1>1. Init => TypeOK
  <2>1. Init => closed \in BOOLEAN
    BY Zenon DEF Init
  <2>2. QED
    BY <2>1 DEF Init, TypeOK, MainStates
<1>2. TypeOK /\ [Next]_vars => TypeOK'
  <2> SUFFICES ASSUME TypeOK, [Next]_vars PROVE TypeOK'
    OBVIOUS
  <2> USE DEF TypeOK, MainStates, timerVars, sendVars, routerVars, queueVars,
              reportVars
  <2>1. CASE Start
    BY <2>1 DEF Start
  <2>2. CASE EnterRunGossip
    BY <2>2 DEF EnterRunGossip
  <2>3. CASE FirstPublish
    BY <2>3, PublishTypes DEF FirstPublish
  <2>4. CASE TickPublish
    BY <2>4, PublishTypes DEF TickPublish
  <2>5. CASE ReceiveMessage
    <3>1. Messages' \in Seq(Message) /\ Len(Messages') <= GossipBufferSize
      BY <2>5, TailFacts DEF ReceiveMessage
    <3>2. last' \in Nat
      <4>1. last' = Head(Messages).id /\ Messages # <<>>
        BY <2>5 DEF ReceiveMessage
      <4>2. Head(Messages) \in Message
        BY <4>1, TailFacts
      <4>3. QED
        BY <4>1, <4>2 DEF Message
    <3>3. received' \in Nat /\ ignored' \in Nat
      BY <2>5 DEF ReceiveMessage
    <3>4. QED
      BY <2>5, <3>1, <3>2, <3>3 DEF ReceiveMessage
  <2>6. CASE EndTimer
    BY <2>6 DEF EndTimer
  <2>7. CASE Cancel
    BY <2>7 DEF Cancel
  <2>8. CASE ProcessExit
    BY <2>8 DEF ProcessExit
  <2>9. CASE SkipOwn
    BY <2>9 DEF SkipOwn
  <2>10. CASE TakeNext
    BY <2>10 DEF TakeNext
  <2>11. CASE SendHeld
    BY <2>11 DEF SendHeld
  <2>12. CASE ReadLoopReturns
    <3>1. closed' \in BOOLEAN
      BY <2>12, Zenon DEF ReadLoopReturns
    <3>2. QED
      BY <2>12, <3>1 DEF ReadLoopReturns
  <2>13. CASE PeerMessage
    <3>1. PICK seq \in PeerSequences : Offer(FALSE, seq)
      BY <2>13, Zenon DEF PeerMessage
    <3>2. seq \in Nat
      BY <3>1
    <3>3. RouterOffered
      BY <3>1, <3>2, OfferTypes, Zenon DEF RouterOffered
    <3>4. QED
      BY <2>13, <3>3 DEF PeerMessage, RouterOffered
  <2>14. CASE OwnMessage
    <3>1. CASE Offer(TRUE, echoed)
      <4>1. RouterOffered
        BY <3>1, OfferTypes, Zenon DEF RouterOffered
      <4>2. QED
        BY <2>14, <4>1 DEF OwnMessage, RouterOffered
    <3>2. CASE UNCHANGED <<main, timerVars, sendVars, reportVars, queueVars,
                           offered, lost>>
      BY <2>14, <3>2 DEF OwnMessage
    <3>3. QED
      BY <2>14, <3>1, <3>2 DEF OwnMessage
  <2>15. CASE ClockTick
    BY <2>15 DEF ClockTick
  <2>16. CASE UNCHANGED vars
    BY <2>16 DEF vars
  <2>17. QED
    BY <2>1, <2>2, <2>3, <2>4, <2>5, <2>6, <2>7, <2>8, <2>9, <2>10, <2>11,
       <2>12, <2>13, <2>14, <2>15, <2>16
       DEF Next, Main, ReadLoop, Router, Terminated
<1>3. QED
  BY <1>1, <1>2, PTL DEF Spec

-----------------------------------------------------------------------------
(* How the order of a buffer of messages survives taking its head away and *)
(* appending to it.                                                        *)

LEMMA TailOrder ==
  ASSUME NEW q \in Seq(Message), q # <<>>
  PROVE  /\ Tail(q) \in Seq(Message)
         /\ Head(q) \in Message
         /\ Len(Tail(q)) = Len(q) - 1
         /\ OnlyPeers(q) => OnlyPeers(Tail(q))
         /\ Increasing(q) => Increasing(Tail(q))
         /\ Head(q).id \in Ids(q) /\ Ids(Tail(q)) \subseteq Ids(q)
         /\ Increasing(q) => Before({Head(q).id}, Ids(Tail(q)))
<1>1. /\ Tail(q) \in Seq(Message) /\ Head(q) \in Message
      /\ Len(q) \in Nat \ {0} /\ Len(Tail(q)) = Len(q) - 1
      /\ \A i \in 1 .. Len(q) - 1 : Tail(q)[i] = q[i + 1]
  BY TailFacts
<1> DEFINE t == Tail(q)
<1> HIDE DEF t
<1>2. Len(t) = Len(q) - 1 /\ \A i \in 1 .. Len(t) : t[i] = q[i + 1] /\ i + 1 \in 1 .. Len(q)
  BY <1>1 DEF t
<1>3. OnlyPeers(q) => OnlyPeers(t)
  BY <1>2, Zenon DEF OnlyPeers
<1>4. Increasing(q) => Increasing(t)
  <2>1. ASSUME Increasing(q), NEW i \in 1 .. Len(t), NEW j \in 1 .. Len(t), i < j
        PROVE  t[i].id < t[j].id
    <3>1. i + 1 \in 1 .. Len(q) /\ j + 1 \in 1 .. Len(q) /\ i + 1 < j + 1
      BY <1>1, <1>2, <2>1
    <3>2. q[i + 1].id < q[j + 1].id
      BY <2>1, <3>1, Zenon DEF Increasing
    <3>3. QED
      BY <1>2, <3>2, Zenon
  <2>2. QED
    BY <2>1, Zenon DEF Increasing
<1>5. Head(q).id \in Ids(q)
  <2>1. 1 \in 1 .. Len(q) /\ Head(q) = q[1]
    BY <1>1, TailFacts
  <2>2. QED
    BY <2>1, Zenon DEF Ids
<1>6. Ids(t) \subseteq Ids(q)
  BY <1>2, Zenon DEF Ids
<1>7. Increasing(q) => Before({Head(q).id}, Ids(t))
  <2>1. ASSUME Increasing(q), NEW j \in 1 .. Len(t)
        PROVE  Head(q).id < t[j].id
    <3>1. 1 \in 1 .. Len(q) /\ j + 1 \in 1 .. Len(q) /\ 1 < j + 1
      BY <1>1, <1>2
    <3>2. Head(q) = q[1] /\ t[j] = q[j + 1]
      BY <1>2, TailFacts
    <3>3. QED
      BY <2>1, <3>1, <3>2, Zenon DEF Increasing
  <2>2. QED
    BY <2>1, Zenon DEF Ids, Before
<1>8. QED
  BY <1>1, <1>3, <1>4, <1>5, <1>6, <1>7 DEF t

LEMMA AppendOrder ==
  ASSUME NEW q \in Seq(Message), NEW e \in Message
  PROVE  /\ Append(q, e) \in Seq(Message)
         /\ Len(Append(q, e)) = Len(q) + 1
         /\ OnlyPeers(q) /\ ~ e.own => OnlyPeers(Append(q, e))
         /\ Ids(Append(q, e)) = Ids(q) \cup {e.id}
         /\ Increasing(q) /\ Before(Ids(q), {e.id}) => Increasing(Append(q, e))
<1> DEFINE a == Append(q, e)
<1>1. /\ a \in Seq(Message) /\ Len(a) = Len(q) + 1 /\ Len(q) \in Nat
      /\ \A i \in 1 .. Len(q) : a[i] = q[i]
      /\ a[Len(q) + 1] = e
  BY AppendFacts
<1> HIDE DEF a
<1>2. \A i \in 1 .. Len(a) : i \in 1 .. Len(q) \/ i = Len(q) + 1
  BY <1>1
<1>3. OnlyPeers(q) /\ ~ e.own => OnlyPeers(a)
  BY <1>1, <1>2, Zenon DEF OnlyPeers
<1>4. ASSUME Increasing(q), Before(Ids(q), {e.id})
      PROVE  Increasing(a)
  <2>0. \A i \in 1 .. Len(q) : q[i].id < e.id
    BY <1>4, Zenon DEF Ids, Before
  <2>1. ASSUME NEW i \in 1 .. Len(a), NEW j \in 1 .. Len(a), i < j
        PROVE  a[i].id < a[j].id
    <3>1. i \in 1 .. Len(q)
      BY <1>1, <1>2, <2>1
    <3>2. CASE j \in 1 .. Len(q)
      BY <1>1, <1>4, <2>1, <3>1, <3>2, Zenon DEF Increasing
    <3>3. CASE j = Len(q) + 1
      BY <1>1, <2>0, <3>1, <3>3, Zenon
    <3>4. QED
      BY <1>2, <3>2, <3>3
  <2>2. QED
    BY <2>1, Zenon DEF Increasing
<1>5. Ids(a) = Ids(q) \cup {e.id}
  <2>1. /\ Len(q) + 1 \in 1 .. Len(a)
        /\ \A i \in 1 .. Len(q) : i \in 1 .. Len(a)
    BY <1>1
  <2>2. \A i \in 1 .. Len(a) : a[i].id \in Ids(q) \cup {e.id}
    BY <1>1, <1>2, Zenon DEF Ids
  <2>3. e.id \in Ids(a) /\ \A i \in 1 .. Len(q) : q[i].id \in Ids(a)
    BY <1>1, <2>1, Zenon DEF Ids
  <2>4. Ids(a) \subseteq Ids(q) \cup {e.id}
    BY <2>2, Zenon DEF Ids
  <2>5. Ids(q) \cup {e.id} \subseteq Ids(a)
    BY <2>3, Zenon DEF Ids
  <2>6. QED
    BY <2>4, <2>5
<1>6. QED
  BY <1>1, <1>3, <1>4, <1>5 DEF a

(* A buffer of at most one message, such as held.                          *)
LEMMA SingleOrder ==
  ASSUME NEW e \in Message
  PROVE  /\ Ids(<<e>>) = {e.id} /\ Ids(<<>>) = {}
         /\ OnlyPeers(<<>>) /\ (~ e.own => OnlyPeers(<<e>>))
<1>1. Ids(<<>>) = {} /\ OnlyPeers(<<>>)
  BY DEF Ids, OnlyPeers
<1>2. /\ Append(<<>>, e) = <<e>>
      /\ <<>> \in Seq(Message)
  OBVIOUS
<1>3. Ids(<<e>>) = {e.id} /\ (~ e.own => OnlyPeers(<<e>>))
  <2>1. /\ Ids(<<e>>) = Ids(<<>>) \cup {e.id}
        /\ ~ e.own => OnlyPeers(<<e>>)
    BY <1>1, <1>2, AppendOrder, Zenon
  <2>2. QED
    BY <1>1, <2>1
<1>4. QED
  BY <1>1, <1>3

-----------------------------------------------------------------------------
(* What the steps do to the receive path.                                  *)

(* The steps that touch none of the message counters and buffers.          *)
Quiet == UNCHANGED <<offered, lost, skipped, received, ignored, last,
                     sub, held, Messages>>

(* The external router offers one message, or nothing.                     *)
NewMessage(e) ==
  /\ e \in Message /\ e.id = offered + 1
  /\ offered' = offered + 1
  /\ UNCHANGED <<skipped, received, ignored, last, held, Messages>>
  /\ \/ sub' = Append(sub, e) /\ lost' = lost
     \/ sub' = sub /\ lost' = lost + 1

LEMMA OfferEffect ==
  ASSUME TypeOK, NEW own \in BOOLEAN, NEW seq \in Nat, Offer(own, seq)
  PROVE  \E e : NewMessage(e)
<1> DEFINE new == [id |-> offered + 1, own |-> own, seq |-> seq]
<1>1. new \in Message /\ new.id = offered + 1
  BY DEF Message, TypeOK
<1>2. \/ sub' = Append(sub, new) /\ lost' = lost
      \/ sub' = sub /\ lost' = lost + 1
  BY Zenon DEF Offer
<1>3. offered' = offered + 1
      /\ UNCHANGED <<skipped, received, ignored, last, held, Messages>>
  BY Zenon DEF Offer, reportVars
<1> HIDE DEF new
<1>4. NewMessage(new)
  BY <1>1, <1>2, <1>3, Zenon DEF NewMessage
<1>5. QED
  BY <1>4

LEMMA RouterEffect ==
  ASSUME TypeOK, PeerMessage \/ OwnMessage
  PROVE  Quiet \/ \E e : NewMessage(e)
<1>1. CASE PeerMessage
  <2>1. PICK seq \in PeerSequences : Offer(FALSE, seq)
    BY <1>1, Zenon DEF PeerMessage
  <2>2. seq \in Nat
    BY NodeAssumption
  <2>3. QED
    BY <2>1, <2>2, OfferEffect, Zenon
<1>2. CASE OwnMessage
  <2>1. echoed \in Nat
    BY DEF TypeOK
  <2>2. CASE Offer(TRUE, echoed)
    BY <2>1, <2>2, OfferEffect, Zenon
  <2>3. CASE UNCHANGED <<main, timerVars, sendVars, reportVars, queueVars,
                         offered, lost>>
    BY <2>3, Zenon DEF Quiet, reportVars, queueVars
  <2>4. QED
    BY <1>2, <2>2, <2>3, Zenon DEF OwnMessage
<1>3. QED
  BY <1>1, <1>2

LEMMA RouterFrame ==
  ASSUME PeerMessage \/ OwnMessage
  PROVE  UNCHANGED <<main, timerVars, sendVars>>
  BY Zenon DEF PeerMessage, OwnMessage, Offer

LEMMA StepKinds ==
  ASSUME TypeOK, [Next]_vars
  PROVE  \/ Quiet \/ ReceiveMessage \/ SkipOwn \/ TakeNext \/ SendHeld
         \/ \E e : NewMessage(e)
<1> USE DEF Quiet, routerVars, queueVars, reportVars
<1>1. CASE Start \/ EnterRunGossip \/ EndTimer \/ Cancel \/ ProcessExit
  BY <1>1, Zenon DEF Start, EnterRunGossip, EndTimer, Cancel, ProcessExit
<1>2. CASE FirstPublish \/ TickPublish \/ ClockTick
  BY <1>2, Zenon DEF FirstPublish, TickPublish, ClockTick
<1>3. CASE ReadLoopReturns
  BY <1>3, Zenon DEF ReadLoopReturns
<1>4. CASE UNCHANGED vars
  BY <1>4, Zenon DEF vars
<1>5. QED
  BY <1>1, <1>2, <1>3, <1>4, RouterEffect, Zenon
     DEF Next, Main, ReadLoop, Router, Terminated

-----------------------------------------------------------------------------
(* No message is lost or invented between the router and main: see         *)
(* EveryMessageAccounted.                                                  *)
THEOREM NoMessageUnaccounted == Spec => []EveryMessageAccounted
<1>1. Init => EveryMessageAccounted
  BY DEF Init, EveryMessageAccounted, Balanced, OnlyPeers
<1>2. TypeOK /\ EveryMessageAccounted /\ [Next]_vars => EveryMessageAccounted'
  <2> SUFFICES ASSUME TypeOK, EveryMessageAccounted, [Next]_vars
               PROVE  Balanced' /\ OnlyPeers(held)' /\ OnlyPeers(Messages)'
    BY DEF EveryMessageAccounted
  <2> USE DEF EveryMessageAccounted
  <2>0. /\ sub \in Seq(Message) /\ held \in Seq(Message)
        /\ Messages \in Seq(Message) /\ Len(held) <= 1
    BY DEF TypeOK
  <2> /\ offered \in Nat /\ lost \in Nat /\ skipped \in Nat
      /\ received \in Nat /\ ignored \in Nat
      /\ Len(sub) \in Nat /\ Len(held) \in Nat /\ Len(Messages) \in Nat
    BY DEF TypeOK
  <2>1. CASE Quiet
    BY <2>1, Zenon DEF Quiet, Balanced
  <2>2. CASE ReceiveMessage
    <3>1. /\ Messages # <<>> /\ Messages' = Tail(Messages)
          /\ UNCHANGED <<offered, lost, skipped, sub, held>>
          /\ \/ received' = received + 1 /\ ignored' = ignored
             \/ received' = received /\ ignored' = ignored + 1
      BY <2>2, Zenon DEF ReceiveMessage, routerVars
    <3>2. Len(Messages') = Len(Messages) - 1
      BY <2>0, <3>1, TailFacts
    <3>3. Balanced'
      <4>1. UNCHANGED <<offered, lost, skipped, sub, held>>
        BY <3>1, Zenon
      <4>2. CASE received' = received + 1 /\ ignored' = ignored
        BY <3>2, <4>1, <4>2 DEF Balanced
      <4>3. CASE received' = received /\ ignored' = ignored + 1
        BY <3>2, <4>1, <4>3 DEF Balanced
      <4>4. QED
        BY <3>1, <4>2, <4>3, Zenon
    <3>4. QED
      BY <2>0, <3>1, <3>3, TailOrder, Zenon
  <2>3. CASE SkipOwn
    <3>1. /\ sub # <<>> /\ sub' = Tail(sub) /\ skipped' = skipped + 1
          /\ UNCHANGED <<offered, lost, received, ignored, held, Messages>>
      BY <2>3, Zenon DEF SkipOwn, routerVars, reportVars
    <3>2. Balanced'
      <4>1. Len(sub') = Len(sub) - 1
        BY <2>0, <3>1, TailFacts
      <4>2. /\ skipped' = skipped + 1
            /\ UNCHANGED <<offered, lost, received, ignored, held, Messages>>
        BY <3>1, Zenon
      <4>3. QED
        BY <4>1, <4>2 DEF Balanced
    <3>3. QED
      BY <3>1, <3>2, Zenon
  <2>4. CASE TakeNext
    <3>1. /\ sub # <<>> /\ sub' = Tail(sub) /\ ~ Head(sub).own
          /\ held = <<>> /\ held' = <<Head(sub)>>
          /\ UNCHANGED <<offered, lost, skipped, received, ignored, Messages>>
      BY <2>4, Zenon DEF TakeNext, routerVars, reportVars
    <3>2. Balanced'
      <4>1. Len(sub') = Len(sub) - 1
        BY <2>0, <3>1, TailFacts
      <4>2. Len(held) = 0
        BY <3>1
      <4>3. Len(held') = 1
        BY <3>1
      <4>4. UNCHANGED <<offered, lost, skipped, received, ignored, Messages>>
        BY <3>1, Zenon
      <4>5. QED
        BY <4>1, <4>2, <4>3, <4>4 DEF Balanced
    <3>3. OnlyPeers(held)'
      BY <2>0, <3>1, TailOrder, SingleOrder, Zenon
    <3>4. QED
      BY <3>1, <3>2, <3>3, Zenon
  <2>5. CASE SendHeld
    <3>1. /\ held # <<>> /\ held' = <<>>
          /\ Messages' = Append(Messages, Head(held))
          /\ UNCHANGED <<offered, lost, skipped, received, ignored, sub>>
      BY <2>5, Zenon DEF SendHeld, routerVars, reportVars
    <3>2. Balanced'
      <4>1. Len(Messages') = Len(Messages) + 1
        BY <2>0, <3>1, TailFacts, AppendFacts
      <4>2. Len(held) <= 1 /\ 1 <= Len(held)
        BY <2>0, <3>1
      <4>3. Len(held') <= 0 /\ Len(held') \in Nat
        BY <3>1
      <4>4. UNCHANGED <<offered, lost, skipped, received, ignored, sub>>
        BY <3>1, Zenon
      <4>5. QED
        BY <4>1, <4>2, <4>3, <4>4 DEF Balanced
    <3>3. ~ Head(held).own /\ Head(held) \in Message
      <4>1. 1 \in 1 .. Len(held) /\ Head(held) = held[1]
            /\ Head(held) \in Message
        BY <2>0, <3>1, TailFacts
      <4>2. QED
        BY <4>1, Zenon DEF OnlyPeers
    <3>4. OnlyPeers(Messages)'
      BY <2>0, <3>1, <3>3, AppendOrder, Zenon
    <3>5. OnlyPeers(held)'
      BY <3>1, <3>3, SingleOrder, Zenon
    <3>6. QED
      BY <3>2, <3>4, <3>5
  <2>6. CASE \E e : NewMessage(e)
    <3>1. PICK e : NewMessage(e)
      BY <2>6
    <3>2. Balanced'
      <4>1. \/ Len(sub') = Len(sub) + 1 /\ lost' = lost
            \/ sub' = sub /\ lost' = lost + 1
        BY <2>0, <3>1, AppendFacts DEF NewMessage
      <4>2. /\ offered' = offered + 1
            /\ UNCHANGED <<skipped, received, ignored, held, Messages>>
        BY <3>1 DEF NewMessage
      <4>3. CASE Len(sub') = Len(sub) + 1 /\ lost' = lost
        BY <4>2, <4>3 DEF Balanced
      <4>4. CASE sub' = sub /\ lost' = lost + 1
        BY <4>2, <4>4 DEF Balanced
      <4>5. QED
        BY <4>1, <4>3, <4>4
    <3>3. QED
      BY <3>1, <3>2, Zenon DEF NewMessage
  <2>7. QED
    BY <2>1, <2>2, <2>3, <2>4, <2>5, <2>6, StepKinds
<1>3. QED
  BY <1>1, <1>2, TypeCorrect, PTL DEF Spec

-----------------------------------------------------------------------------
(* The receive path keeps the router's order: see InRouterOrder.           *)
THEOREM ReceivePathOrdered == Spec => []InRouterOrder
<1>1. Init => InRouterOrder
  BY DEF Init, InRouterOrder, Increasing, Before, Ids
<1>2. TypeOK /\ InRouterOrder /\ [Next]_vars => InRouterOrder'
  <2> SUFFICES ASSUME TypeOK, InRouterOrder, [Next]_vars
               PROVE  InRouterOrder'
    OBVIOUS
  <2> DEFINE Flight == Ids(sub) \cup Ids(held) \cup Ids(Messages)
  <2>0. /\ sub \in Seq(Message) /\ held \in Seq(Message)
        /\ Messages \in Seq(Message)
        /\ last \in Nat /\ offered \in Nat
    BY DEF TypeOK
  <2>1. CASE Quiet
    BY <2>1, Zenon DEF Quiet, InRouterOrder
  <2>2. CASE ReceiveMessage
    <3> DEFINE n == Head(Messages).id
    <3>1. /\ Messages # <<>> /\ Messages' = Tail(Messages)
          /\ last' = n /\ UNCHANGED <<offered, sub, held>>
      BY <2>2, Zenon DEF ReceiveMessage, routerVars
    <3>2. /\ n \in Ids(Messages) /\ Ids(Messages') \subseteq Ids(Messages)
          /\ Increasing(Messages') /\ Before({n}, Ids(Messages'))
      BY <2>0, <3>1, TailOrder, Zenon DEF InRouterOrder
    <3>3. /\ n \in last + 1 .. offered
          /\ Before({n}, Ids(held)) /\ Before({n}, Ids(sub))
      BY <3>2 DEF InRouterOrder, Before
    <3> HIDE DEF n
    <3>4. Ids(sub) \cup Ids(held) \cup Ids(Messages') \subseteq n + 1 .. offered
      BY <2>0, <3>2, <3>3 DEF InRouterOrder, Before
    <3>5. /\ Before(Ids(Messages'), Ids(held)) /\ Before(Ids(Messages'), Ids(sub))
      BY <3>2, Zenon DEF InRouterOrder, Before
    <3>6. QED
      BY <2>0, <3>1, <3>2, <3>3, <3>4, <3>5 DEF InRouterOrder
  <2>3. CASE SkipOwn
    <3>1. /\ sub # <<>> /\ sub' = Tail(sub)
          /\ UNCHANGED <<offered, last, held, Messages>>
      BY <2>3, Zenon DEF SkipOwn, routerVars, reportVars
    <3>2. Increasing(sub') /\ Ids(sub') \subseteq Ids(sub)
      BY <2>0, <3>1, TailOrder, Zenon DEF InRouterOrder
    <3>3. QED
      BY <3>1, <3>2 DEF InRouterOrder, Before
  <2>4. CASE TakeNext
    <3> DEFINE n == Head(sub).id
    <3>1. /\ sub # <<>> /\ sub' = Tail(sub) /\ held' = <<Head(sub)>>
          /\ UNCHANGED <<offered, last, Messages>>
      BY <2>4, Zenon DEF TakeNext, routerVars, reportVars
    <3>2. /\ n \in Ids(sub) /\ Ids(sub') \subseteq Ids(sub)
          /\ Increasing(sub') /\ Before({n}, Ids(sub'))
      BY <2>0, <3>1, TailOrder, Zenon DEF InRouterOrder
    <3>3. Ids(held') = {n}
      BY <2>0, <3>1, TailOrder, SingleOrder, Zenon
    <3> HIDE DEF n
    <3>4. QED
      BY <3>1, <3>2, <3>3 DEF InRouterOrder, Before
  <2>5. CASE SendHeld
    <3> DEFINE n == Head(held).id
    <3>1. /\ held # <<>> /\ held' = <<>>
          /\ Messages' = Append(Messages, Head(held))
          /\ UNCHANGED <<offered, last, sub>>
      BY <2>5, Zenon DEF SendHeld, routerVars, reportVars
    <3>2. n \in Ids(held) /\ Head(held) \in Message
      BY <2>0, <3>1, TailOrder, Zenon
    <3>3. Before(Ids(Messages), {n})
      BY <3>2 DEF InRouterOrder, Before
    <3>4. Ids(Messages') = Ids(Messages) \cup {n} /\ Increasing(Messages')
      BY <2>0, <3>1, <3>2, <3>3, AppendOrder, Zenon DEF InRouterOrder
    <3>5. Ids(held') = {}
      BY <3>1, <3>2, SingleOrder, Zenon
    <3> HIDE DEF n
    <3>6. QED
      BY <3>1, <3>2, <3>4, <3>5 DEF InRouterOrder, Before
  <2>6. CASE \E e : NewMessage(e)
    <3>1. PICK e : NewMessage(e)
      BY <2>6
    <3>2. UNCHANGED <<last, held, Messages>> /\ offered' = offered + 1
      BY <3>1, Zenon DEF NewMessage
    <3>3. CASE sub' = sub
      BY <2>0, <3>2, <3>3 DEF InRouterOrder
    <3>4. CASE sub' = Append(sub, e)
      <4>1. e \in Message /\ e.id = offered + 1
        BY <3>1, Zenon DEF NewMessage
      <4>2. \A n \in Flight : n < e.id
        BY <2>0, <4>1 DEF InRouterOrder
      <4>3. Before(Ids(sub), {e.id})
        BY <4>2 DEF Before
      <4>4. Ids(sub') = Ids(sub) \cup {e.id} /\ Increasing(sub')
        BY <2>0, <3>4, <4>1, <4>3, AppendOrder, Zenon DEF InRouterOrder
      <4>5. Before(Ids(Messages), Ids(sub')) /\ Before(Ids(held), Ids(sub'))
        BY <4>2, <4>4 DEF InRouterOrder, Before
      <4>6. Ids(sub') \cup Ids(held) \cup Ids(Messages) \subseteq last + 1 .. offered + 1
        BY <2>0, <4>1, <4>4 DEF InRouterOrder
      <4>7. QED
        BY <2>0, <3>2, <4>4, <4>5, <4>6 DEF InRouterOrder
    <3>5. QED
      BY <3>1, <3>3, <3>4 DEF NewMessage
  <2>7. QED
    BY <2>1, <2>2, <2>3, <2>4, <2>5, <2>6, StepKinds
<1>3. QED
  BY <1>1, <1>2, TypeCorrect, PTL DEF Spec

(* A node's receive path implements the ordered stream with losses of      *)
(* module MessageStream: nothing is handled twice or out of order.         *)
THEOREM NodeImplementsStream == Spec => ImplementsMessageStream
<1>1. Init => Stream!Init
  BY DEF Init, Stream!Init
<1>2. TypeOK /\ InRouterOrder /\ [Next]_vars => [Stream!Next]_(Stream!streamVars)
  <2> SUFFICES ASSUME TypeOK, InRouterOrder, [Next]_vars
               PROVE  Stream!Next \/ UNCHANGED <<offered, last, received, ignored>>
    BY Zenon DEF Stream!streamVars
  <2>1. CASE Quiet \/ SkipOwn \/ TakeNext \/ SendHeld
    BY <2>1, Zenon
       DEF Quiet, SkipOwn, TakeNext, SendHeld, routerVars, reportVars
  <2>2. CASE ReceiveMessage
    <3>1. /\ Messages # <<>> /\ last' = Head(Messages).id /\ offered' = offered
          /\ \/ received' = received + 1 /\ ignored' = ignored
             \/ received' = received /\ ignored' = ignored + 1
      BY <2>2, Zenon DEF ReceiveMessage, routerVars
    <3>2. Head(Messages).id \in Ids(Messages)
      BY <3>1, TailOrder DEF TypeOK
    <3>3. Head(Messages).id \in last + 1 .. offered
      BY <3>2 DEF InRouterOrder
    <3>4. received \in Nat /\ ignored \in Nat
      BY DEF TypeOK
    <3>5. (received + ignored)' = (received + ignored) + 1
      <4>1. CASE received' = received + 1 /\ ignored' = ignored
        BY <3>4, <4>1
      <4>2. CASE received' = received /\ ignored' = ignored + 1
        BY <3>4, <4>2
      <4>3. QED
        BY <3>1, <4>1, <4>2
    <3>6. QED
      BY <3>1, <3>3, <3>5 DEF Stream!Next, Stream!Handle
  <2>3. CASE \E e : NewMessage(e)
    <3>1. offered' = offered + 1 /\ UNCHANGED <<last, received, ignored>>
      BY <2>3, Zenon DEF NewMessage
    <3>2. QED
      BY <3>1 DEF Stream!Next, Stream!Offer
  <2>4. QED
    BY <2>1, <2>2, <2>3, StepKinds
<1>3. QED
  BY <1>1, <1>2, TypeCorrect, ReceivePathOrdered, PTL
     DEF Spec, ImplementsMessageStream, Stream!Spec

-----------------------------------------------------------------------------
(* The publishing path.                                                    *)

(* Every publish is paid for by intervals the ticker has let pass.         *)
THEOREM TickBudgetKept == Spec => []TickBudget
<1> USE NodeAssumption
<1>1. Init => TickBudget
  BY DEF Init, TickBudget
<1>2. TypeOK /\ TickBudget /\ [Next]_vars => TickBudget'
  <2> SUFFICES ASSUME TypeOK, TickBudget, [Next]_vars
               PROVE  TickBudget'
    OBVIOUS
  <2> USE DEF TickBudget
  <2>1. CASE UNCHANGED <<main, timerVars, sendVars>>
    BY <2>1, Zenon DEF timerVars, sendVars
  <2>2. CASE Start
    BY <2>2 DEF Start, timerVars, sendVars
  <2>3. CASE EnterRunGossip
    BY <2>3 DEF EnterRunGossip, timerVars, sendVars
  <2>4. CASE FirstPublish
    <3>1. published = <<>> /\ (1 + ticker) * PublishInterval <= nextTick
      BY <2>4 DEF FirstPublish
    <3>2. Len(published') = 1 + 0
      BY <2>4, <3>1, PublishTypes DEF FirstPublish
    <3>3. QED
      BY <2>4, <3>1, <3>2 DEF FirstPublish, timerVars
  <2>5. CASE TickPublish
    <3>1. /\ main = "select" /\ ticker = 1 /\ ticker' = 0
          /\ UNCHANGED <<main, clock, nextTick>>
      BY <2>5 DEF TickPublish, TypeOK
    <3>2. Len(published') = Len(published) + 1 /\ Len(published) \in Nat
      BY <2>5, PublishTypes DEF TickPublish, TypeOK
    <3>3. (Len(published) + 1) * PublishInterval <= nextTick
      BY <3>1
    <3>4. QED
      BY <3>1, <3>2, <3>3
  <2>6. CASE EndTimer \/ Cancel \/ ProcessExit
    BY <2>6 DEF EndTimer, Cancel, ProcessExit, timerVars, sendVars
  <2>7. CASE ClockTick
    <3> DEFINE I == PublishInterval
    <3>1. /\ main \in {"settling", "select"} /\ main' = main
          /\ published' = published /\ clock' = clock + 1
      BY <2>7 DEF ClockTick, sendVars
    <3>2. CASE /\ clock' < nextTick /\ UNCHANGED <<ticker, nextTick>>
      BY <3>1, <3>2 DEF TypeOK
    <3>3. CASE clock' >= nextTick /\ ticker' = 1 /\ nextTick' = nextTick + I
      <4>1. clock' < nextTick' /\ nextTick' <= clock' + I
        BY <3>1, <3>3 DEF TypeOK
      <4>2. ASSUME NEW n \in Nat, (n + ticker) * I <= nextTick
            PROVE  (n + 1) * I <= nextTick + I
        <5>1. ticker = 0 \/ ticker = 1
          BY DEF TypeOK
        <5>2. n * I \in Nat /\ (n + 1) * I = n * I + I /\ n + 0 = n
          OBVIOUS
        <5>3. CASE ticker = 0
          BY <4>2, <5>2, <5>3 DEF TypeOK
        <5>4. CASE ticker = 1
          BY <4>2, <5>2, <5>4 DEF TypeOK
        <5>5. QED
          BY <5>1, <5>3, <5>4
      <4>3. main = "settling" => (1 + 1) * I <= nextTick + I
        BY <4>2
      <4>4. main # "settling" => (Len(published) + 1) * I <= nextTick + I
        <5>1. Len(published) \in Nat
          BY DEF TypeOK
        <5>2. QED
          BY <3>1, <4>2, <5>1
      <4>5. QED
        BY <3>1, <3>3, <4>1, <4>3, <4>4
    <3>4. QED
      BY <2>7, <3>2, <3>3 DEF ClockTick
  <2>8. QED
    <3>1. CASE Router
      BY <3>1, RouterFrame, <2>1, Zenon DEF Router
    <3>2. CASE ReadLoop \/ ReceiveMessage \/ UNCHANGED vars
      BY <2>1, <3>2, Zenon DEF ReadLoop, SkipOwn, TakeNext, SendHeld,
         ReadLoopReturns, ReceiveMessage, vars
    <3>3. QED
      BY <2>2, <2>3, <2>4, <2>5, <2>6, <2>7, <3>1, <3>2, Zenon
         DEF Next, Main, Terminated
<1>3. QED
  BY <1>1, <1>2, TypeCorrect, PTL DEF Spec

(* No publish leaves before its interval has passed: see NotBeforeItsTick. *)
THEOREM NoEarlyPublish == Spec => []NotBeforeItsTick
<1> USE NodeAssumption
<1>1. Init => NotBeforeItsTick
  BY DEF Init, NotBeforeItsTick
<1>2. TypeOK /\ TickBudget /\ NotBeforeItsTick /\ [Next]_vars
        => NotBeforeItsTick'
  <2> SUFFICES ASSUME TypeOK, TickBudget, NotBeforeItsTick, [Next]_vars
               PROVE  NotBeforeItsTick'
    OBVIOUS
  <2>1. CASE UNCHANGED published
    BY <2>1 DEF NotBeforeItsTick
  <2>2. CASE publish /\ (main = "settling" \/ (main = "select" /\ ticker > 0))
    <3>1. /\ Len(published) \in Nat /\ Len(published') = Len(published) + 1
          /\ \A n \in 1 .. Len(published) : published'[n] = published[n]
          /\ published'[Len(published) + 1].at = clock
      BY <2>2, PublishTypes DEF TypeOK
    <3>2. clock >= Len(published) * PublishInterval
      <4>1. CASE main = "settling"
        <5>1. published = <<>>
          BY <4>1 DEF TickBudget
        <5>2. Len(published) * PublishInterval = 0
          BY <5>1
        <5>3. QED
          BY <5>2 DEF TypeOK
      <4>2. CASE main = "select" /\ ticker > 0
        <5>0. ticker = 1
          BY <4>2 DEF TypeOK
        <5>1. ticker = 1 /\ nextTick <= clock + PublishInterval
          BY <4>2, <5>0 DEF TickBudget
        <5>2. (Len(published) + 1) * PublishInterval <= nextTick
          BY <4>2, <5>1 DEF TickBudget
        <5>3. QED
          BY <3>1, <5>1, <5>2 DEF TypeOK
      <4>3. QED
        BY <2>2, <4>1, <4>2
    <3>3. ASSUME NEW n \in 1 .. Len(published')
          PROVE  published'[n].at >= (n - 1) * PublishInterval
      <4>1. CASE n \in 1 .. Len(published)
        <5>1. published'[n] = published[n]
          BY <3>1, <4>1
        <5>2. QED
          BY <4>1, <5>1, Zenon DEF NotBeforeItsTick
      <4>2. CASE n = Len(published) + 1
        <5>1. n - 1 = Len(published) /\ published'[n].at = clock
          BY <3>1, <4>2
        <5>2. QED
          BY <3>2, <5>1, Zenon
      <4>3. QED
        BY <3>1, <4>1, <4>2
    <3>4. QED
      BY <3>3, Zenon DEF NotBeforeItsTick
  <2>3. QED
    <3>1. CASE FirstPublish \/ TickPublish
      <4>1. CASE FirstPublish
        <5>1. main = "settling" /\ publish
          BY <4>1 DEF FirstPublish
        <5>2. QED
          BY <2>2, <5>1
      <4>2. CASE TickPublish
        BY <2>2, <4>2 DEF TickPublish
      <4>3. QED
        BY <3>1, <4>1, <4>2
    <3>2. CASE Router
      BY <2>1, <3>2, RouterFrame, Zenon DEF Router, sendVars
    <3>3. CASE ~ (FirstPublish \/ TickPublish \/ Router)
      BY <2>1, <3>3, Zenon DEF Next, Main, Start, EnterRunGossip,
         ReceiveMessage, EndTimer, Cancel, ProcessExit, ReadLoop, SkipOwn,
         TakeNext, SendHeld, ReadLoopReturns, ClockTick, Terminated, vars,
         sendVars
    <3>4. QED
      BY <3>1, <3>2, <3>3
<1>3. QED
  BY <1>1, <1>2, TypeCorrect, TickBudgetKept, PTL DEF Spec

=============================================================================
