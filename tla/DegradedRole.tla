---------------------------- MODULE DegradedRole ----------------------------
(***************************************************************************)
(* The role arithmetic shared by the node process (main.go) and by the     *)
(* network of nodes: which roles exist, which percentages the flags allow, *)
(* and which sequence numbers a percentage selects.                        *)
(***************************************************************************)
EXTENDS Integers

honestRole   == "node"
degradedRole == "degraded"
Roles        == {honestRole, degradedRole}

(* Whatever the topology file says, a role is one of the two.              *)
normalizeRole(role) == IF role = degradedRole THEN degradedRole ELSE honestRole

(* What parseFlags accepts for -degradedInvalidPublishPct and              *)
(* -degradedDropPct.                                                       *)
validPercent(value) == value \in 0 .. 100

(* Mutant: the comparison includes the percentage itself.                  *)
percentHitInclusive(sequence, pct) ==
  /\ pct > 0
  /\ pct >= 100 \/ (sequence * 37) % 100 <= pct

(* Mutant: a factor that shares a divisor with 100.                        *)
percentHitUneven(sequence, pct) ==
  /\ pct > 0
  /\ pct >= 100 \/ (sequence * 35) % 100 < pct

(* Mutant: no spreading, the first pct of every 100 messages are hit.      *)
percentHitInBlocks(sequence, pct) ==
  /\ pct > 0
  /\ pct >= 100 \/ sequence % 100 < pct

(* The deterministic selection that stands for "pct percent of the         *)
(* messages".                                                              *)
percentHit(sequence, pct) ==
  /\ pct > 0
  /\ pct >= 100 \/ (sequence * 37) % 100 < pct

(* publish() of runGossip: which publishes of a node are marked invalid.   *)
markedInvalid(role, sequence, pct) ==
  role = degradedRole /\ percentHit(sequence, pct)

(* The message case of runGossip: which received messages are ignored.     *)
ignoredBy(role, sequence, pct) ==
  role = degradedRole /\ percentHit(sequence, pct)
=============================================================================
