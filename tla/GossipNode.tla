----------------------------- MODULE GossipNode -----------------------------
(***************************************************************************)
(* One GossipSub node process (main.go, header.go): the main goroutine     *)
(* that starts the host, dials the static peers and runs the gossip loop,  *)
(* the ReadLoop goroutine that moves messages from the subscription to the *)
(* bounded channel Messages, and, as external parts, the libp2p router     *)
(* that fills the subscription and the Go timers.                          *)
(*                                                                         *)
(* The dialling loop itself is in module StaticDial: here it is the phase  *)
(* "connecting", of any length, during which nobody reads Messages.        *)
(*                                                                         *)
(* select has two more cases, a closed Messages and a cancelled context.   *)
(* Both need the deferred cancel() of main, which runs after runGossip has *)
(* returned, so they are never taken and have no action.                   *)
(***************************************************************************)
EXTENDS Integers, Sequences, DegradedRole

CONSTANTS
  Duration,          \* -duration
  PublishInterval,   \* -gossipInterval
  SettleTime,        \* the sleep before the first publish, 2 in the code
  GossipBufferSize,  \* capacity of the channel Messages, 128 in the code
  SubBufferSize,     \* capacity of the libp2p subscription, 32 by default
  Role,              \* config.Role: the -role flag, not normalised
  InvalidPct,        \* -degradedInvalidPublishPct
  DropPct,           \* -degradedDropPct
  PeerSequences,     \* sequence numbers found in the messages of other nodes
  MaxArrivals,       \* bound: messages other nodes send to this one
  MaxClock           \* bound: seconds counted after the start of runGossip

(* parseFlags refuses every other configuration.                           *)
ASSUME NodeAssumption ==
  /\ Duration \in Nat \ {0} /\ PublishInterval \in Nat \ {0}
  /\ SettleTime \in Nat
  /\ GossipBufferSize \in Nat \ {0} /\ SubBufferSize \in Nat \ {0}
  /\ Role \in STRING
  /\ validPercent(InvalidPct) /\ validPercent(DropPct)
  /\ PeerSequences \subseteq Nat
  /\ MaxArrivals \in Nat /\ MaxClock \in Nat

VARIABLES
  main,        \* where the main goroutine is
  clock,       \* seconds since runGossip started
  nextTick,    \* when publishTicker fires next
  ticker,      \* number of ticks waiting in publishTicker.C (capacity 1)
  publishID,   \* sequence number of the next publish
  published,   \* history: what each publish was, in order
  sub,         \* the subscription's buffer
  held,        \* the message ReadLoop is sending to Messages, if any
  Messages,    \* the channel between ReadLoop and main
  closed,      \* TRUE iff ReadLoop has returned and closed Messages
  offered,     \* messages the router has offered to the subscription
  arrived,     \* those of them that other nodes sent
  echoed,      \* those of them that this node published
  lost,        \* those of them the full subscription buffer missed
  skipped,     \* own messages ReadLoop has skipped
  received,    \* messages main has reported as received
  ignored,     \* messages main has dropped because the node is degraded
  last         \* number of the last message main took from Messages

timerVars  == <<clock, nextTick, ticker>>
sendVars   == <<publishID, published>>
routerVars == <<offered, arrived, echoed, lost>>
queueVars  == <<sub, held, Messages, closed, skipped>>
reportVars == <<received, ignored, last>>
vars == <<main, timerVars, sendVars, routerVars, queueVars, reportVars>>

MainStates == {"starting", "failed", "connecting", "settling", "select",
               "closing", "cancelled", "exited"}

(* The goroutines other than main exist from a successful start to the end *)
(* of the process.                                                         *)
Running == main \notin {"starting", "failed", "exited"}

(* A message carries its number in the router's order, which is not in the *)
(* code; own is msg.ReceivedFrom = host.ID(), seq is GossipMessage.Sequence*)
Message == [id : Nat, own : BOOLEAN, seq : Nat]

(* What one call of publish was: marked invalid, accepted by the router,   *)
(* and when.                                                               *)
Publication == [invalid : BOOLEAN, sent : BOOLEAN, at : Nat]

Init ==
  /\ main = "starting"
  /\ clock = 0 /\ nextTick = 0 /\ ticker = 0
  /\ publishID = 0 /\ published = <<>>
  /\ sub = <<>> /\ held = <<>> /\ Messages = <<>> /\ closed = FALSE
  /\ offered = 0 /\ arrived = 0 /\ echoed = 0 /\ lost = 0 /\ skipped = 0
  /\ received = 0 /\ ignored = 0 /\ last = 0

-----------------------------------------------------------------------------
(* The main goroutine.                                                     *)

(* Host, topology and pubsub are created and ReadLoop is started, or one   *)
(* of them fails and log.Fatalf ends the process with status 1.            *)
Start ==
  /\ main = "starting"
  /\ main' \in {"connecting", "failed"}
  /\ UNCHANGED <<timerVars, sendVars, routerVars, queueVars, reportVars>>

(* connectStaticPeers returns; runGossip arms both timers and sleeps.      *)
EnterRunGossip ==
  /\ main = "connecting"
  /\ main' = "settling"
  /\ nextTick' = PublishInterval
  /\ UNCHANGED <<clock, ticker, sendVars, routerVars, queueVars, reportVars>>

(* The publish closure: an error is logged and the number is used up.      *)
publish ==
  \E sent \in BOOLEAN :
    /\ published' = Append(published,
         [invalid |-> markedInvalid(Role, publishID, InvalidPct),
          sent |-> sent, at |-> clock])
    /\ publishID' = publishID + 1

FirstPublish ==
  /\ main = "settling"
  /\ clock >= SettleTime
  /\ publish
  /\ main' = "select"
  /\ UNCHANGED <<timerVars, routerVars, queueVars, reportVars>>

(* Mutant: the tick is not consumed.                                       *)
TickPublishKeepsTick ==
  /\ main = "select" /\ ticker > 0
  /\ publish
  /\ UNCHANGED <<main, timerVars, routerVars, queueVars, reportVars>>

TickPublish ==
  /\ main = "select"
  /\ ticker > 0
  /\ publish
  /\ ticker' = 0
  /\ UNCHANGED <<main, clock, nextTick, routerVars, queueVars, reportVars>>

ReceiveMessage ==
  /\ main = "select"
  /\ Messages # <<>>
  /\ Messages' = Tail(Messages)
  /\ last' = Head(Messages).id
  /\ \/ /\ ignoredBy(Role, Head(Messages).seq, DropPct)
        /\ ignored' = ignored + 1
        /\ UNCHANGED received
     \/ /\ ~ ignoredBy(Role, Head(Messages).seq, DropPct)
        /\ received' = received + 1
        /\ UNCHANGED ignored
  /\ UNCHANGED <<main, timerVars, sendVars, routerVars,
                 sub, held, closed, skipped>>

(* endTimer.C is ready from Duration on; select may still prefer another   *)
(* ready case.  runGossip returns.                                         *)
EndTimer ==
  /\ main = "select"
  /\ clock >= Duration
  /\ main' = "closing"
  /\ UNCHANGED <<timerVars, sendVars, routerVars, queueVars, reportVars>>

(* The deferred calls of main: h.Close(), then cancel(), then the process  *)
(* ends; nothing waits for ReadLoop.                                       *)
Cancel ==
  /\ main = "closing"
  /\ main' = "cancelled"
  /\ UNCHANGED <<timerVars, sendVars, routerVars, queueVars, reportVars>>

(* Mutant: main waits for ReadLoop, as with a WaitGroup.                   *)
ProcessExitAfterReadLoop ==
  /\ main = "cancelled" /\ closed
  /\ main' = "exited"
  /\ UNCHANGED <<timerVars, sendVars, routerVars, queueVars, reportVars>>

ProcessExit ==
  /\ main = "cancelled"
  /\ main' = "exited"
  /\ UNCHANGED <<timerVars, sendVars, routerVars, queueVars, reportVars>>

-----------------------------------------------------------------------------
(* The ReadLoop goroutine.                                                 *)

SkipOwn ==
  /\ Running /\ ~ closed /\ held = <<>>
  /\ sub # <<>> /\ Head(sub).own
  /\ sub' = Tail(sub)
  /\ skipped' = skipped + 1
  /\ UNCHANGED <<main, timerVars, sendVars, routerVars, reportVars,
                 held, Messages, closed>>

(* Mutant: the message stays in the subscription.                          *)
TakeNextPeek ==
  /\ Running /\ ~ closed /\ held = <<>>
  /\ sub # <<>> /\ ~ Head(sub).own
  /\ held' = <<Head(sub)>>
  /\ UNCHANGED <<main, timerVars, sendVars, routerVars, reportVars,
                 sub, Messages, closed, skipped>>

TakeNext ==
  /\ Running /\ ~ closed /\ held = <<>>
  /\ sub # <<>> /\ ~ Head(sub).own
  /\ sub' = Tail(sub)
  /\ held' = <<Head(sub)>>
  /\ UNCHANGED <<main, timerVars, sendVars, routerVars, reportVars,
                 Messages, closed, skipped>>

(* Mutant: the channel has no capacity limit.                              *)
SendHeldUnbounded ==
  /\ Running /\ held # <<>>
  /\ Messages' = Append(Messages, Head(held))
  /\ held' = <<>>
  /\ UNCHANGED <<main, timerVars, sendVars, routerVars, reportVars,
                 sub, closed, skipped>>

(* Mutant: select with a default case that drops the message.              *)
SendHeldOrDrop ==
  /\ Running /\ held # <<>>
  /\ Messages' = IF Len(Messages) < GossipBufferSize
                 THEN Append(Messages, Head(held)) ELSE Messages
  /\ held' = <<>>
  /\ UNCHANGED <<main, timerVars, sendVars, routerVars, reportVars,
                 sub, closed, skipped>>

(* The send blocks while Messages is full and does not watch the context.  *)
SendHeld ==
  /\ Running /\ held # <<>>
  /\ Len(Messages) < GossipBufferSize
  /\ Messages' = Append(Messages, Head(held))
  /\ held' = <<>>
  /\ UNCHANGED <<main, timerVars, sendVars, routerVars, reportVars,
                 sub, closed, skipped>>

(* sub.Next fails once the context is cancelled.                           *)
ReadLoopReturns ==
  /\ main = "cancelled"
  /\ ~ closed /\ held = <<>>
  /\ closed' = TRUE
  /\ UNCHANGED <<main, timerVars, sendVars, routerVars, reportVars,
                 sub, held, Messages, skipped>>

-----------------------------------------------------------------------------
(* External: the router and the clock.                                     *)

(* The router offers a message to the subscription and drops it when the   *)
(* buffer is full.                                                         *)
Offer(own, seq) ==
  /\ offered' = offered + 1
  /\ \/ /\ Len(sub) < SubBufferSize
        /\ sub' = Append(sub, [id |-> offered + 1, own |-> own, seq |-> seq])
        /\ UNCHANGED lost
     \/ /\ Len(sub) >= SubBufferSize
        /\ lost' = lost + 1
        /\ UNCHANGED sub
  /\ UNCHANGED <<main, timerVars, sendVars, reportVars,
                 held, Messages, closed, skipped>>

PeerMessage ==
  /\ Running /\ main # "cancelled"
  /\ arrived < MaxArrivals
  /\ arrived' = arrived + 1
  /\ UNCHANGED echoed
  /\ \E seq \in PeerSequences : Offer(FALSE, seq)

(* A successful publish also reaches the node's own subscription.          *)
OwnMessage ==
  /\ Running /\ main # "cancelled"
  /\ echoed < publishID
  /\ echoed' = echoed + 1
  /\ UNCHANGED arrived
  /\ \/ published[echoed + 1].sent /\ Offer(TRUE, echoed)
     \/ ~ published[echoed + 1].sent
        /\ UNCHANGED <<main, timerVars, sendVars, reportVars, queueVars,
                       offered, lost>>

(* A second passes; a tick that finds publishTicker.C full is dropped.     *)
ClockTick ==
  /\ main \in {"settling", "select"}
  /\ clock < MaxClock
  /\ clock' = clock + 1
  /\ \/ /\ clock' >= nextTick
        /\ ticker' = 1
        /\ nextTick' = nextTick + PublishInterval
     \/ /\ clock' < nextTick
        /\ UNCHANGED <<ticker, nextTick>>
  /\ UNCHANGED <<main, sendVars, routerVars, queueVars, reportVars>>

-----------------------------------------------------------------------------
Main == \/ Start \/ EnterRunGossip \/ FirstPublish \/ TickPublish
        \/ ReceiveMessage \/ EndTimer \/ Cancel \/ ProcessExit

ReadLoop == SkipOwn \/ TakeNext \/ SendHeld \/ ReadLoopReturns

Router == PeerMessage \/ OwnMessage

(* The process has ended: a legitimate final state, not a deadlock.        *)
Terminated == main \in {"failed", "exited"} /\ UNCHANGED vars

Next == Main \/ ReadLoop \/ Router \/ ClockTick \/ Terminated

Spec == Init /\ [][Next]_vars

(* The main goroutine is scheduled, connectStaticPeers returns, the clock  *)
(* runs, and select, which picks a ready case at random, does not ignore a *)
(* fired endTimer for ever.  Nothing is assumed of ReadLoop or the router. *)
Fairness ==
  /\ WF_vars(Start) /\ WF_vars(EnterRunGossip) /\ WF_vars(FirstPublish)
  /\ WF_vars(EndTimer) /\ WF_vars(Cancel) /\ WF_vars(ProcessExit)
  /\ WF_vars(ClockTick)

FairSpec == Spec /\ Fairness

-----------------------------------------------------------------------------
(* Properties.                                                             *)

(* Every variable keeps its type and no buffer exceeds its capacity        *)
(* (gossipBufferSize in header.go, the subscription buffer of libp2p).     *)
TypeOK ==
  /\ main \in MainStates
  /\ clock \in Nat /\ nextTick \in Nat /\ ticker \in 0 .. 1
  /\ publishID \in Nat
  /\ published \in Seq(Publication)
  /\ sub \in Seq(Message) /\ Len(sub) <= SubBufferSize
  /\ held \in Seq(Message) /\ Len(held) <= 1
  /\ Messages \in Seq(Message) /\ Len(Messages) <= GossipBufferSize
  /\ closed \in BOOLEAN
  /\ offered \in Nat /\ arrived \in Nat /\ echoed \in Nat
  /\ lost \in Nat /\ skipped \in Nat
  /\ received \in Nat /\ ignored \in Nat /\ last \in Nat

(* ReadLoop and main neither lose nor invent a message: each one the       *)
(* router offered is lost at the full subscription, still on its way,      *)
(* skipped as the node's own, reported as received, or ignored; and only   *)
(* messages of other nodes get past ReadLoop.                              *)
Balanced ==
  offered = lost + Len(sub) + skipped + Len(held) + Len(Messages)
              + received + ignored

OnlyPeers(q) == \A i \in 1 .. Len(q) : ~ q[i].own

EveryMessageAccounted == Balanced /\ OnlyPeers(held) /\ OnlyPeers(Messages)

Increasing(q) == \A i, j \in 1 .. Len(q) : i < j => q[i].id < q[j].id

Ids(q) == {q[i].id : i \in 1 .. Len(q)}

Before(S, T) == \A m \in S, n \in T : m < n

(* The three buffers between the router and main hold the messages in the  *)
(* router's order, all later than the last one main took: the hand-over    *)
(* from the subscription through ReadLoop to Messages (header.go) reorders *)
(* nothing and duplicates nothing.                                         *)
InRouterOrder ==
  /\ Increasing(sub) /\ Increasing(Messages)
  /\ Before(Ids(Messages), Ids(held)) /\ Before(Ids(Messages), Ids(sub))
  /\ Before(Ids(held), Ids(sub))
  /\ Ids(sub) \cup Ids(held) \cup Ids(Messages) \subseteq last + 1 .. offered
  /\ last <= offered

(* Seen from outside, the receive path is an ordered stream with losses    *)
(* and without duplicates.                                                 *)
Stream == INSTANCE MessageStream WITH handled <- received + ignored
ImplementsMessageStream == Stream!Spec

(* Publish number n never leaves before n publish intervals have passed    *)
(* since the ticker was armed, however the ticks waiting in the ticker,    *)
(* the two second sleep and the random choice of select combine (main.go,  *)
(* runGossip): so at most 1 + clock \div PublishInterval are sent.         *)
NotBeforeItsTick ==
  \A n \in 1 .. Len(published) : published[n].at >= (n - 1) * PublishInterval

(* Why NotBeforeItsTick holds: every publish and the waiting tick are paid *)
(* for by an interval the ticker has already let pass.                     *)
TickBudget ==
  LET armed   == main \notin {"starting", "failed", "connecting"}
      publishing == armed /\ main # "settling"
  IN  /\ ~ armed => clock = 0 /\ ticker = 0
      /\ armed => clock < nextTick /\ nextTick <= clock + PublishInterval
      /\ ~ publishing => published = <<>>
      /\ main = "settling" => (1 + ticker) * PublishInterval <= nextTick
      /\ publishing => (Len(published) + ticker) * PublishInterval <= nextTick

(* What the -gossipInterval flag says of itself (main.go, parseFlags:      *)
(* "seconds between publishes"): two publishes are an interval apart.      *)
PublishSpacing ==
  \A n \in 1 .. Len(published) - 1 :
    published[n + 1].at - published[n].at >= PublishInterval

(* A node that has started ends, even when ReadLoop is blocked for ever on *)
(* a full Messages that main no longer reads (main.go, the deferred calls).*)
ProcessEnds == (main = "connecting") ~> (main = "exited")
=============================================================================
