---------------------------- MODULE DegradedTally ---------------------------
(***************************************************************************)
(* How many messages the percentages of the degraded role amount to: one   *)
(* node publishes its sequence numbers, one neighbour receives them        *)
(* without losses and in order.  Both selections are the same function of  *)
(* the same number (percentHit in main.go), which is what this module is   *)
(* about; GossipNode and GossipNetwork have the processes around it.       *)
(***************************************************************************)
EXTENDS DegradedRole, FiniteSets

CONSTANTS
  InvalidPcts,    \* values of -degradedInvalidPublishPct
  DropPcts,       \* values of -degradedDropPct
  MaxPublishes    \* bound: messages published

ASSUME TallyAssumption ==
  /\ \A pct \in InvalidPcts \cup DropPcts : validPercent(pct)
  /\ MaxPublishes \in Nat

(* Arithmetic without constants, which TLC evaluates: of the first t       *)
(* multiples of 37, less than two too many or too few have a remainder     *)
(* below pct.                                                              *)
ASSUME EvenlySpread ==
  \A t \in 0 .. 99, pct \in 0 .. 100 :
    100 * Cardinality({i \in 0 .. t - 1 : (i * 37) % 100 < pct}) - t * pct
      \in -199 .. 199

VARIABLES
  setting,     \* roles of the two nodes, and the percentages both are given
  publishID,   \* sequence number of the next publish
  invalid,     \* publishes marked invalid
  received,    \* messages the neighbour's validator has let pass
  ignored      \* those of them it has ignored

vars == <<setting, publishID, invalid, received, ignored>>

Settings == [publisher : Roles, receiver : Roles,
             invalidPct : InvalidPcts, dropPct : DropPcts]

Init ==
  /\ setting \in Settings
  /\ publishID = 0 /\ invalid = 0 /\ received = 0 /\ ignored = 0

(* Mutant: the validator lets a marked publish pass.                       *)
PublishInvalidReceived ==
  /\ publishID < MaxPublishes
  /\ markedInvalid(setting.publisher, publishID, setting.invalidPct)
  /\ publishID' = publishID + 1
  /\ invalid' = invalid + 1
  /\ received' = received + 1
  /\ UNCHANGED <<setting, ignored>>

(* A marked publish is rejected by the neighbour's validator.              *)
PublishInvalid ==
  /\ publishID < MaxPublishes
  /\ markedInvalid(setting.publisher, publishID, setting.invalidPct)
  /\ publishID' = publishID + 1
  /\ invalid' = invalid + 1
  /\ UNCHANGED <<setting, received, ignored>>

(* Any other reaches the neighbour's application.                          *)
PublishValid ==
  /\ publishID < MaxPublishes
  /\ ~ markedInvalid(setting.publisher, publishID, setting.invalidPct)
  /\ publishID' = publishID + 1
  /\ received' = received + 1
  /\ ignored' = IF ignoredBy(setting.receiver, publishID, setting.dropPct)
                THEN ignored + 1 ELSE ignored
  /\ UNCHANGED <<setting, invalid>>

Done == publishID = MaxPublishes /\ UNCHANGED vars

Next == PublishInvalid \/ PublishValid \/ Done

Spec == Init /\ [][Next]_vars

-----------------------------------------------------------------------------
(* Properties.                                                             *)

(* Every variable keeps its type and the counts add up to the publishes.   *)
TypeOK ==
  /\ setting \in Settings
  /\ publishID \in 0 .. MaxPublishes
  /\ invalid \in Nat /\ received \in Nat /\ ignored \in 0 .. received
  /\ invalid + received = publishID

Pct(role, pct) == IF role = degradedRole THEN pct ELSE 0

InvalidPct == Pct(setting.publisher, setting.invalidPct)
DropPct    == Pct(setting.receiver, setting.dropPct)

(* After every 100 publishes exactly the percentage of them was marked     *)
(* invalid: 37 and 100 have no common divisor, so percentHit meets every   *)
(* remainder once.                                                         *)
MarkedExactly ==
  publishID % 100 = 0 => 100 * invalid = InvalidPct * publishID

(* Runs are much shorter than 100 publishes (16 with the default flags):   *)
(* at no point is the number of invalid publishes two or more away from    *)
(* the percentage, because percentHit spreads them.                        *)
NeverTwoOff(count, total, pct) ==
  100 * count - total * pct \in -199 .. 199

MarkedEvenly == NeverTwoOff(invalid, publishID, InvalidPct)

(* The same holds of what a degraded node ignores from an honest one.      *)
IgnoredEvenly ==
  setting.publisher = honestRole =>
    /\ NeverTwoOff(ignored, received, DropPct)
    /\ publishID % 100 = 0 => 100 * ignored = DropPct * received

(* What the flag says of itself (main.go: "percentage of received app      *)
(* messages ignored by degraded nodes"), whoever has sent them.            *)
IgnoredShare ==
  publishID = 100 => 100 * ignored = DropPct * received
=============================================================================
