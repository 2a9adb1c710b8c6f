---------------------------- MODULE GossipNetwork ---------------------------
(***************************************************************************)
(* The nodes of one experiment as a network: what each publishes, what the *)
(* topic validator of each lets pass, whom the peer score holds liable,    *)
(* and what each application reports.  GossipNode shows the path of a      *)
(* message inside one node; here it is one step, with its losses.          *)
(*                                                                         *)
(* External, as validator and score parameters use it: the libp2p router.  *)
(* It marks a message as seen, validates it aside from its event loop,     *)
(* forwards an accepted one to its mesh except to the sender and to the    *)
(* author, holds every peer that delivered a rejected one liable, and      *)
(* prunes peers of negative score.  Mesh maintenance is abstracted to that *)
(* pruning, and decay and the positive terms of the score to "may".        *)
(***************************************************************************)
EXTENDS Integers, FiniteSets, DegradedRole

CONSTANTS
  Nodes,
  Links,             \* connections the static topology gives, both ways
  Breakable,         \* bound: those of them that may break
  RoleColumn,        \* the role column of nodes.csv, for every node
  RoleFlag,          \* -role of every process, "" when it is not given
  InvalidPct,        \* -degradedInvalidPublishPct
  DropPct,           \* -degradedDropPct
  EnablePeerScore,   \* -enablePeerScore
  AppDegradedScore,  \* -appDegradedScore
  InvalidPenalty,    \* -invalidPenalty, refused by libp2p when positive
  MaxPublishes,      \* bound: messages each node publishes
  MaxLosses          \* bound: messages lost on a link or in a node

(* Any word in either place.  run.sh passes the column of the row on as    *)
(* -role, with the CR of a row that ends with CR LF, which the csv reader  *)
(* of the nodes drops; who starts a node by hand may leave -role out or    *)
(* give another one.  A node without a row has the column "".              *)
ASSUME RoleAssumption ==
  /\ RoleColumn \in [Nodes -> STRING]
  /\ RoleFlag \in [Nodes -> STRING]

ASSUME NetworkAssumption ==
  /\ Links \subseteq Nodes \X Nodes
  /\ \A l \in Links : <<l[2], l[1]>> \in Links /\ l[1] # l[2]
  /\ Breakable \subseteq Links
  /\ validPercent(InvalidPct) /\ validPercent(DropPct)
  /\ EnablePeerScore \in BOOLEAN
  /\ AppDegradedScore \in Int
  /\ InvalidPenalty \in Int /\ InvalidPenalty <= 0
  /\ MaxPublishes \in [Nodes -> Nat] /\ MaxLosses \in Nat

(* A message is known by its author and its sequence number.               *)
Messages == UNION {[author : {n}, seq : 0 .. MaxPublishes[n] - 1] : n \in Nodes}
Copies   == [from : Nodes, to : Nodes, msg : Messages]

(* config.Role, by which n behaves: the flag as it is, or else its own row.*)
ConfigRole(n) ==
  IF RoleFlag[n] # "" THEN RoleFlag[n] ELSE normalizeRole(RoleColumn[n])

(* PeerRoles of readStaticTopology, by which the others score p.           *)
PeerRole(p) == normalizeRole(RoleColumn[p])

Degraded(n) == ConfigRole(n) = degradedRole

Invalid(m)    == markedInvalid(ConfigRole(m.author), m.seq, InvalidPct)
Ignores(n, m) == ignoredBy(ConfigRole(n), m.seq, DropPct)

VARIABLES
  published,   \* number of messages each node has published
  mesh,        \* the links the routers forward on
  transit,     \* copies under way
  delivered,   \* copies that have arrived
  validating,  \* those whose validator runs
  accepted,    \* what each node's validator has let pass
  rejected,    \* and what it has not
  reports,     \* how often each node has reported each message
  ignored,     \* what each degraded node has ignored
  losses       \* messages lost so far

routerVars == <<mesh, transit, delivered, validating, accepted, rejected>>
appVars    == <<reports, ignored>>
vars == <<published, routerVars, appVars, losses>>

Init ==
  /\ published = [n \in Nodes |-> 0]
  /\ mesh = Links
  /\ transit = {} /\ delivered = {} /\ validating = {}
  /\ accepted = [n \in Nodes |-> {}] /\ rejected = [n \in Nodes |-> {}]
  /\ reports = [n \in Nodes |-> [m \in Messages |-> 0]]
  /\ ignored = [n \in Nodes |-> {}]
  /\ losses = 0

-----------------------------------------------------------------------------
(* Mutant: the validator trusts everybody.                                 *)
validateNothing(own, from, m) == TRUE

(* Mutant: the validator also rejects what the node itself publishes.      *)
validateOwnToo(own, from, m) == ~ Invalid(m)

(* The topic validator.  A node lets its own messages pass, marked or not. *)
validateGossipMessage(own, from, m) == from = own \/ ~ Invalid(m)

Seen(n, m) ==
  \/ m \in accepted[n] \cup rejected[n]
  \/ \E c \in validating : c.to = n /\ c.msg = m

(* The copies of m that node n forwards, having it from peer "from".       *)
Forwards(n, m, from) ==
  {[from |-> n, to |-> l[2], msg |-> m] :
     l \in {k \in mesh : k[1] = n /\ k[2] \notin {from, m.author}}}

(* The copies that count against peer p at node n.                         *)
Counted(c) == c \in delivered /\ c.msg \in rejected[c.to]

HeldAgainst(n, p) == {c \in delivered : c.to = n /\ c.from = p /\ Counted(c)}

(* Mutant: the comparison is the wrong way round.                          *)
AppSpecificScoreInverted(p) ==
  IF PeerRole(p) = honestRole THEN AppDegradedScore ELSE 0

AppSpecificScore(p) ==
  IF PeerRole(p) = degradedRole THEN AppDegradedScore ELSE 0

(* The least score n can give p, without the positive terms.               *)
Invalids(n, p) == Cardinality(HeldAgainst(n, p))
Score(n, p) == AppSpecificScore(p) + InvalidPenalty * Invalids(n, p) * Invalids(n, p)

GraylistThreshold == -100

-----------------------------------------------------------------------------
(* Mutant: the counter is incremented before the message takes its number. *)
PublishCountFirst(n) ==
  LET m == [author |-> n, seq |-> published[n] + 1]
  IN  /\ published[n] < MaxPublishes[n]
      /\ published' = [published EXCEPT ![n] = @ + 1]
      /\ \/ /\ validateGossipMessage(n, n, m)
            /\ accepted' = [accepted EXCEPT ![n] = @ \cup {m}]
            /\ transit' = transit \cup Forwards(n, m, n)
         \/ /\ ~ validateGossipMessage(n, n, m)
            /\ UNCHANGED <<accepted, transit>>
      /\ UNCHANGED <<mesh, delivered, validating, rejected, appVars, losses>>

(* A node publishes: its own validator runs first, then the router sends.  *)
Publish(n) ==
  LET m == [author |-> n, seq |-> published[n]]
  IN  /\ published[n] < MaxPublishes[n]
      /\ published' = [published EXCEPT ![n] = @ + 1]
      /\ \/ /\ validateGossipMessage(n, n, m)
            /\ accepted' = [accepted EXCEPT ![n] = @ \cup {m}]
            /\ transit' = transit \cup Forwards(n, m, n)
         \/ /\ ~ validateGossipMessage(n, n, m)
            /\ UNCHANGED <<accepted, transit>>
      /\ UNCHANGED <<mesh, delivered, validating, rejected, appVars, losses>>

(* A copy arrives; the first copy of a message goes to the validator.      *)
Arrive(c) ==
  /\ c \in transit
  /\ transit' = transit \ {c}
  /\ delivered' = delivered \cup {c}
  /\ validating' = IF Seen(c.to, c.msg) THEN validating ELSE validating \cup {c}
  /\ UNCHANGED <<published, mesh, accepted, rejected, appVars, losses>>

(* A graylisted peer is not listened to.                                   *)
Graylist(c) ==
  /\ c \in transit
  /\ EnablePeerScore /\ Score(c.to, c.from) < GraylistThreshold
  /\ transit' = transit \ {c}
  /\ UNCHANGED <<published, mesh, delivered, validating, accepted, rejected,
                 appVars, losses>>

(* Mutant: an ignored message is reported all the same.                    *)
ApplicationReportsIgnored(n, m) ==
  \/ /\ ignored' = [ignored EXCEPT ![n] = IF Ignores(n, m) THEN @ \cup {m} ELSE @]
     /\ reports' = [reports EXCEPT ![n][m] = @ + 1]
     /\ UNCHANGED losses
  \/ /\ losses < MaxLosses
     /\ losses' = losses + 1
     /\ UNCHANGED appVars

(* The application of n gets m: it ignores it, or reports it, or its full  *)
(* subscription misses it.                                                 *)
Application(n, m) ==
  \/ /\ Ignores(n, m)
     /\ ignored' = [ignored EXCEPT ![n] = @ \cup {m}]
     /\ UNCHANGED <<reports, losses>>
  \/ /\ ~ Ignores(n, m)
     /\ reports' = [reports EXCEPT ![n][m] = @ + 1]
     /\ UNCHANGED <<ignored, losses>>
  \/ /\ losses < MaxLosses
     /\ losses' = losses + 1
     /\ UNCHANGED appVars

(* Mutant: a degraded node does not forward what its application ignores.  *)
AcceptUnlessIgnored(c) ==
  /\ c \in validating
  /\ validateGossipMessage(c.to, c.from, c.msg)
  /\ validating' = validating \ {c}
  /\ accepted' = [accepted EXCEPT ![c.to] = @ \cup {c.msg}]
  /\ transit' = IF Ignores(c.to, c.msg) THEN transit
                ELSE transit \cup Forwards(c.to, c.msg, c.from)
  /\ Application(c.to, c.msg)
  /\ UNCHANGED <<published, mesh, delivered, rejected>>

(* The validator lets a message pass: router and application get it.       *)
Accept(c) ==
  /\ c \in validating
  /\ validateGossipMessage(c.to, c.from, c.msg)
  /\ validating' = validating \ {c}
  /\ accepted' = [accepted EXCEPT ![c.to] = @ \cup {c.msg}]
  /\ transit' = transit \cup Forwards(c.to, c.msg, c.from)
  /\ Application(c.to, c.msg)
  /\ UNCHANGED <<published, mesh, delivered, rejected>>

(* Mutant: a rejected message is forwarded all the same.                   *)
RejectButForward(c) ==
  /\ c \in validating
  /\ ~ validateGossipMessage(c.to, c.from, c.msg)
  /\ validating' = validating \ {c}
  /\ rejected' = [rejected EXCEPT ![c.to] = @ \cup {c.msg}]
  /\ transit' = transit \cup Forwards(c.to, c.msg, c.from)
  /\ UNCHANGED <<published, mesh, delivered, accepted, appVars, losses>>

Reject(c) ==
  /\ c \in validating
  /\ ~ validateGossipMessage(c.to, c.from, c.msg)
  /\ validating' = validating \ {c}
  /\ rejected' = [rejected EXCEPT ![c.to] = @ \cup {c.msg}]
  /\ UNCHANGED <<published, mesh, transit, delivered, accepted, appVars, losses>>

(* The link fails under a copy.                                            *)
Lose(c) ==
  /\ c \in transit
  /\ losses < MaxLosses
  /\ losses' = losses + 1
  /\ transit' = transit \ {c}
  /\ UNCHANGED <<published, mesh, delivered, validating, accepted, rejected,
                 appVars>>

(* The router of n drops p from its mesh, and p drops n.                   *)
Prune(n, p) ==
  /\ <<n, p>> \in mesh
  /\ EnablePeerScore /\ Score(n, p) < 0
  /\ mesh' = mesh \ {<<n, p>>, <<p, n>>}
  /\ UNCHANGED <<published, transit, delivered, validating, accepted, rejected,
                 appVars, losses>>

(* The connection of n and p breaks, with the copies on it.  The router    *)
(* does not connect again, and connectStaticPeers has long returned.       *)
Break(n, p) ==
  /\ <<n, p>> \in mesh \cap Breakable
  /\ mesh' = mesh \ {<<n, p>>, <<p, n>>}
  /\ transit' = {c \in transit : {c.from, c.to} # {n, p}}
  /\ UNCHANGED <<published, delivered, validating, accepted, rejected, appVars,
                 losses>>

-----------------------------------------------------------------------------
Quiet ==
  /\ transit = {} /\ validating = {}
  /\ \A n \in Nodes : published[n] = MaxPublishes[n]
  /\ UNCHANGED vars

ArriveSome == \E c \in transit : Arrive(c)
DecideSome == \E c \in validating : Accept(c) \/ Reject(c)

Next ==
  \/ \E n \in Nodes : Publish(n)
  \/ ArriveSome \/ DecideSome
  \/ \E c \in transit : Graylist(c) \/ Lose(c)
  \/ \E n, p \in Nodes : Prune(n, p) \/ Break(n, p)
  \/ Quiet

Spec == Init /\ [][Next]_vars

(* Streams deliver, and validators return.                                 *)
FairSpec == Spec /\ WF_vars(ArriveSome) /\ WF_vars(DecideSome)

-----------------------------------------------------------------------------
(* Properties.                                                             *)

(* Every variable keeps its type.                                          *)
TypeOK ==
  /\ published \in [Nodes -> Nat]
  /\ mesh \subseteq Links
  /\ transit \subseteq Copies
  /\ delivered \subseteq Copies /\ validating \subseteq delivered
  /\ accepted \in [Nodes -> SUBSET Messages]
  /\ rejected \in [Nodes -> SUBSET Messages]
  /\ reports \in [Nodes -> [Messages -> Nat]]
  /\ ignored \in [Nodes -> SUBSET Messages]
  /\ losses \in Nat

(* An invalid message gets no further than the neighbours of its author:   *)
(* no other node ever sends a copy of it, lets it pass, or hands it to its *)
(* application (validateGossipMessage in header.go).                       *)
InvalidStopsAtFirstHop ==
  /\ \A c \in transit \cup delivered : Invalid(c.msg) => c.from = c.msg.author
  /\ \A n \in Nodes : \A m \in Messages :
       Invalid(m) /\ n # m.author =>
         m \notin accepted[n] \cup ignored[n] /\ reports[n][m] = 0

(* No node that behaves honestly is ever held liable for a message that    *)
(* some node rejects, although honest nodes forward what degraded nodes    *)
(* send.  Only its own row can put its score below zero, whatever the      *)
(* weights: a node takes its role from a flag and its peers take it from   *)
(* the file (main.go:81-90), and the two may differ.                       *)
HonestNeverPenalised ==
  \A n, p \in Nodes :
    ~ Degraded(p) =>
      /\ HeldAgainst(n, p) = {}
      /\ PeerRole(p) = honestRole => Score(n, p) >= 0

(* An application reports a message at most once, though it may arrive     *)
(* from every neighbour and while its validator runs; it never reports its *)
(* own messages nor any it ignores.                                        *)
ReportedOnce ==
  \A n \in Nodes : \A m \in Messages :
    /\ reports[n][m] <= 1
    /\ reports[n][m] = 1 => m.author # n /\ m \notin ignored[n]

(* Degraded nodes ignore messages in their application only: what an       *)
(* honest node publishes is reported by every honest node, across any      *)
(* degraded node the score still lets forward, unless something is lost,   *)
(* and also when the direct connection of two honest nodes is gone for     *)
(* good, since connectStaticPeers (main.go:262) never dials it again.      *)
HonestMessagesSpread ==
  \A m \in Messages : \A n \in Nodes \ {m.author} :
    ~ Degraded(m.author) /\ ~ Degraded(n) =>
      (published[m.author] > m.seq) ~> (reports[n][m] = 1 \/ losses > 0)

(* An invalid publish does count: every peer the author still forwards to  *)
(* comes to hold it against the author, unless something was lost or the   *)
(* peer no longer listens.  The exemption of own messages in               *)
(* validateGossipMessage is what lets it leave its author at all.          *)
CountedOrRefused(c) ==
  \/ Counted(c)
  \/ losses > 0
  \/ <<c.from, c.to>> \notin mesh
  \/ Score(c.to, c.from) < GraylistThreshold

InvalidPublishCounts ==
  \A m \in {k \in Messages : Invalid(k)} : \A n \in Nodes \ {m.author} :
    LET c == [from |-> m.author, to |-> n, msg |-> m]
    IN  (published[m.author] > m.seq) ~> CountedOrRefused(c)
=============================================================================
