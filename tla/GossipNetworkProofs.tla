------------------------- MODULE GossipNetworkProofs ------------------------
(***************************************************************************)
(* Proofs about the network, for every set of nodes and links, every       *)
(* assignment of roles, all percentages and weights, any losses.           *)
(***************************************************************************)
EXTENDS GossipNetwork, FiniteSetTheorems, TLAPS

(* What a node forwards: from itself, to somebody else than the author.    *)
LEMMA ForwardsFacts ==
  ASSUME mesh \subseteq Links, NEW n \in Nodes, NEW m \in Messages, NEW from
  PROVE  /\ Forwards(n, m, from) \subseteq Copies
         /\ \A c \in Forwards(n, m, from) :
              c.msg = m /\ c.from = n /\ c.to # n /\ c.to # m.author
<1> SUFFICES ASSUME NEW c \in Forwards(n, m, from)
             PROVE  /\ c \in Copies
                    /\ c.msg = m /\ c.from = n /\ c.to # n /\ c.to # m.author
  OBVIOUS
<1>1. PICK l \in Links : /\ l[1] = n /\ l[2] # m.author
                         /\ c = [from |-> n, to |-> l[2], msg |-> m]
  BY DEF Forwards
<1>2. l[1] # l[2] /\ l[2] \in Nodes
  BY NetworkAssumption
<1>3. QED
  BY <1>1, <1>2 DEF Copies

(* The next message of a node is a message.                                *)
LEMMA NextMessage ==
  ASSUME NEW n \in Nodes, NEW k \in Nat, k < MaxPublishes[n]
  PROVE  /\ [author |-> n, seq |-> k] \in Messages
         /\ [author |-> n, seq |-> k].author = n
<1>1. MaxPublishes[n] \in Nat
  BY NetworkAssumption
<1>2. k \in 0 .. MaxPublishes[n] - 1
  BY <1>1
<1>3. [author |-> n, seq |-> k] \in [author : {n}, seq : 0 .. MaxPublishes[n] - 1]
  BY <1>2
<1>4. QED
  BY <1>3 DEF Messages

-----------------------------------------------------------------------------
(* Type correctness: see TypeOK.                                           *)
LEMMA InitTypes == Init => TypeOK
BY NetworkAssumption DEF Init, TypeOK

LEMMA PublishTypes ==
  ASSUME TypeOK, NEW n \in Nodes, Publish(n) PROVE TypeOK'
<1> DEFINE m == [author |-> n, seq |-> published[n]]
<1>1. m \in Messages
  BY NextMessage DEF TypeOK, Publish
<1>2. Forwards(n, m, n) \subseteq Copies
  BY <1>1, ForwardsFacts DEF TypeOK
<1>3. /\ published' = [published EXCEPT ![n] = @ + 1]
      /\ \/ /\ accepted' = [accepted EXCEPT ![n] = @ \cup {m}]
            /\ transit' = transit \cup Forwards(n, m, n)
         \/ accepted' = accepted /\ transit' = transit
      /\ UNCHANGED <<mesh, delivered, validating, rejected, appVars, losses>>
  BY Zenon DEF Publish
<1> HIDE DEF m
<1>4. published' \in [Nodes -> Nat]
  BY <1>3 DEF TypeOK
<1>5. accepted' \in [Nodes -> SUBSET Messages]
  BY <1>1, <1>3 DEF TypeOK
<1>6. transit' \subseteq Copies
  BY <1>2, <1>3 DEF TypeOK
<1>7. QED
  BY <1>3, <1>4, <1>5, <1>6 DEF TypeOK, appVars

LEMMA ApplicationTypes ==
  ASSUME TypeOK, NEW n \in Nodes, NEW m \in Messages, Application(n, m)
  PROVE  /\ reports' \in [Nodes -> [Messages -> Nat]]
         /\ ignored' \in [Nodes -> SUBSET Messages]
         /\ losses' \in Nat
<1>1. \/ reports' = [reports EXCEPT ![n][m] = @ + 1] \/ reports' = reports
  BY DEF Application, appVars
<1>2. \/ ignored' = [ignored EXCEPT ![n] = @ \cup {m}] \/ ignored' = ignored
  BY DEF Application, appVars
<1>3. losses' = losses + 1 \/ losses' = losses
  BY DEF Application
<1>4. reports' \in [Nodes -> [Messages -> Nat]]
  <2>1. reports[n][m] + 1 \in Nat
    BY DEF TypeOK
  <2>2. [reports[n] EXCEPT ![m] = reports[n][m] + 1] \in [Messages -> Nat]
    BY <2>1 DEF TypeOK
  <2>3. QED
    BY <1>1, <2>2 DEF TypeOK
<1>5. ignored' \in [Nodes -> SUBSET Messages]
  <2>1. ignored \in [Nodes -> SUBSET Messages]
    BY DEF TypeOK
  <2>2. ignored[n] \cup {m} \in SUBSET Messages
    BY <2>1
  <2>3. QED
    BY <1>2, <2>1, <2>2
<1>6. losses' \in Nat
  BY <1>3 DEF TypeOK
<1>7. QED
  BY <1>4, <1>5, <1>6

LEMMA CopyTypes ==
  ASSUME NEW c \in Copies
  PROVE  c.from \in Nodes /\ c.to \in Nodes /\ c.msg \in Messages
BY DEF Copies

LEMMA NextTypes == TypeOK /\ [Next]_vars => TypeOK'
<1> SUFFICES ASSUME TypeOK, [Next]_vars PROVE TypeOK'
  OBVIOUS
<1>1. ASSUME NEW n \in Nodes, Publish(n) PROVE TypeOK'
  BY <1>1, PublishTypes
<1>2. ASSUME NEW c \in transit, Arrive(c) PROVE TypeOK'
  BY <1>2 DEF TypeOK, Arrive, appVars
<1>3. ASSUME NEW c \in validating, Accept(c) PROVE TypeOK'
  <2>1. c \in Copies /\ c.from \in Nodes /\ c.to \in Nodes /\ c.msg \in Messages
    BY CopyTypes DEF TypeOK
  <2>2. Forwards(c.to, c.msg, c.from) \subseteq Copies
    BY <2>1, ForwardsFacts DEF TypeOK
  <2>3. /\ reports' \in [Nodes -> [Messages -> Nat]]
        /\ ignored' \in [Nodes -> SUBSET Messages]
        /\ losses' \in Nat
    BY <1>3, <2>1, ApplicationTypes DEF Accept
  <2>4. accepted' \in [Nodes -> SUBSET Messages]
    BY <1>3, <2>1 DEF Accept, TypeOK
  <2>5. QED
    BY <1>3, <2>2, <2>3, <2>4 DEF Accept, TypeOK
<1>4. ASSUME NEW c \in validating, Reject(c) PROVE TypeOK'
  <2>1. c.to \in Nodes /\ c.msg \in Messages
    BY CopyTypes DEF TypeOK
  <2>2. rejected' \in [Nodes -> SUBSET Messages]
    BY <1>4, <2>1 DEF Reject, TypeOK
  <2>3. QED
    BY <1>4, <2>2 DEF Reject, TypeOK, appVars
<1>5. ASSUME NEW c \in transit, Graylist(c) \/ Lose(c) PROVE TypeOK'
  BY <1>5 DEF TypeOK, Graylist, Lose, appVars
<1>6. ASSUME NEW n \in Nodes, NEW p \in Nodes, Prune(n, p) \/ Break(n, p)
      PROVE  TypeOK'
  BY <1>6 DEF TypeOK, Prune, Break, appVars
<1>7. CASE UNCHANGED vars
  BY <1>7 DEF TypeOK, vars, routerVars, appVars
<1>8. QED
  BY <1>1, <1>2, <1>3, <1>4, <1>5, <1>6, <1>7
     DEF Next, ArriveSome, DecideSome, Quiet

THEOREM TypeCorrect == Spec => []TypeOK
BY InitTypes, NextTypes, PTL DEF Spec

-----------------------------------------------------------------------------
(* Invalid messages: InvalidStopsAtFirstHop, strengthened by what it needs *)
(* and by what HonestNeverPenalised needs besides.                         *)
Contained ==
  /\ \A c \in transit \cup delivered : c.from # c.to
  /\ \A n \in Nodes : \A m \in rejected[n] : Invalid(m)

InvalidInv == TypeOK /\ Contained /\ InvalidStopsAtFirstHop

LEMMA InitInvalid == Init => InvalidInv
BY InitTypes DEF Init, InvalidInv, Contained, InvalidStopsAtFirstHop

(* Publishing, and accepting a copy, forward what they should.             *)
LEMMA NextInvalid == InvalidInv /\ [Next]_vars => InvalidInv'
<1> SUFFICES ASSUME InvalidInv, [Next]_vars PROVE InvalidInv'
  OBVIOUS
<1>0. TypeOK /\ TypeOK' /\ Contained /\ InvalidStopsAtFirstHop
  BY NextTypes DEF InvalidInv
<1>1. ASSUME NEW n \in Nodes, Publish(n) PROVE InvalidInv'
  <2> DEFINE m == [author |-> n, seq |-> published[n]]
  <2>1. m \in Messages /\ m.author = n
    BY <1>0, <1>1, NextMessage DEF TypeOK, Publish
  <2>2. /\ \/ /\ accepted' = [accepted EXCEPT ![n] = @ \cup {m}]
              /\ transit' = transit \cup Forwards(n, m, n)
           \/ accepted' = accepted /\ transit' = transit
        /\ UNCHANGED <<delivered, rejected, reports, ignored>>
    BY <1>1, Zenon DEF Publish, appVars
  <2> HIDE DEF m
  <2>3. \A c \in Forwards(n, m, n) : c.msg = m /\ c.from = n /\ c.to # n
    BY <1>0, <2>1, ForwardsFacts DEF TypeOK
  <2>4. \A c \in transit' \cup delivered' :
          c.from # c.to /\ (Invalid(c.msg) => c.from = c.msg.author)
    BY <1>0, <2>1, <2>2, <2>3 DEF Contained, InvalidStopsAtFirstHop
  <2>5. ASSUME NEW k \in Nodes, NEW o \in Messages, k # o.author
        PROVE  o \in accepted'[k] => o \in accepted[k]
    BY <1>0, <2>1, <2>2, <2>5 DEF TypeOK
  <2>6. QED
    BY <1>0, <2>2, <2>4, <2>5 DEF InvalidInv, Contained, InvalidStopsAtFirstHop
<1>2. ASSUME NEW c \in transit, Arrive(c) PROVE InvalidInv'
  BY <1>0, <1>2 DEF Arrive, appVars, InvalidInv, Contained, InvalidStopsAtFirstHop
<1>3. ASSUME NEW c \in validating, Accept(c) PROVE InvalidInv'
  <2>1. c \in delivered /\ c.from \in Nodes /\ c.to \in Nodes /\ c.msg \in Messages
    BY <1>0, CopyTypes DEF TypeOK
  <2>2. ~ Invalid(c.msg)
    BY <1>0, <1>3, <2>1 DEF Accept, validateGossipMessage, Contained
  <2>3. \A k \in Forwards(c.to, c.msg, c.from) : k.msg = c.msg /\ k.from # k.to
    BY <1>0, <2>1, ForwardsFacts DEF TypeOK
  <2>4. /\ accepted' = [accepted EXCEPT ![c.to] = @ \cup {c.msg}]
        /\ transit' = transit \cup Forwards(c.to, c.msg, c.from)
        /\ delivered' = delivered /\ rejected' = rejected
        /\ \/ reports' = [reports EXCEPT ![c.to][c.msg] = @ + 1]
           \/ reports' = reports
        /\ \/ ignored' = [ignored EXCEPT ![c.to] = @ \cup {c.msg}]
           \/ ignored' = ignored
    BY <1>3 DEF Accept, Application, appVars
  <2>5. \A k \in transit' \cup delivered' :
          k.from # k.to /\ (Invalid(k.msg) => k.from = k.msg.author)
    BY <1>0, <2>2, <2>3, <2>4 DEF Contained, InvalidStopsAtFirstHop
  <2>6. ASSUME NEW n \in Nodes, NEW m \in Messages, m # c.msg
        PROVE  /\ m \in accepted'[n] => m \in accepted[n]
               /\ m \in ignored'[n] => m \in ignored[n]
               /\ reports'[n][m] = reports[n][m]
    BY <1>0, <2>1, <2>4, <2>6 DEF TypeOK
  <2>7. QED
    BY <1>0, <2>2, <2>4, <2>5, <2>6 DEF InvalidInv, Contained, InvalidStopsAtFirstHop
<1>4. ASSUME NEW c \in validating, Reject(c) PROVE InvalidInv'
  <2>1. c.to \in Nodes /\ c.msg \in Messages
    BY <1>0, CopyTypes DEF TypeOK
  <2>2. Invalid(c.msg)
    BY <1>4 DEF Reject, validateGossipMessage
  <2>3. \A n \in Nodes : \A m \in rejected'[n] : Invalid(m)
    BY <1>0, <1>4, <2>1, <2>2 DEF Reject, TypeOK, Contained
  <2>4. QED
    BY <1>0, <1>4, <2>3 DEF Reject, appVars, InvalidInv, Contained,
       InvalidStopsAtFirstHop
<1>5. ASSUME NEW c \in transit, Graylist(c) \/ Lose(c) PROVE InvalidInv'
  BY <1>0, <1>5 DEF Graylist, Lose, appVars, InvalidInv, Contained,
     InvalidStopsAtFirstHop
<1>6. ASSUME NEW n \in Nodes, NEW p \in Nodes, Prune(n, p) \/ Break(n, p)
      PROVE  InvalidInv'
  BY <1>0, <1>6
     DEF Prune, Break, appVars, InvalidInv, Contained, InvalidStopsAtFirstHop
<1>7. CASE UNCHANGED vars
  BY <1>0, <1>7 DEF vars, routerVars, appVars, InvalidInv, Contained,
     InvalidStopsAtFirstHop
<1>8. QED
  BY <1>1, <1>2, <1>3, <1>4, <1>5, <1>6, <1>7
     DEF Next, ArriveSome, DecideSome, Quiet

LEMMA InvalidInvKept == Spec => []InvalidInv
BY InitInvalid, NextInvalid, PTL DEF Spec

(* No node but its author ever sends, accepts or reports an invalid one.   *)
THEOREM InvalidContained == Spec => []InvalidStopsAtFirstHop
<1>1. InvalidInv => InvalidStopsAtFirstHop
  BY DEF InvalidInv
<1>2. QED
  BY <1>1, InvalidInvKept, PTL

(* An honest node is never held liable, and never scores below zero unless *)
(* its row is degraded: what it sends is either no invalid message, or it  *)
(* would be its author, and only nodes that behave degraded mark what they *)
(* publish (publish in main.go).                                           *)
THEOREM HonestSafe == Spec => []HonestNeverPenalised
<1>1. ASSUME InvalidInv, NEW n \in Nodes, NEW p \in Nodes, ~ Degraded(p)
      PROVE  /\ HeldAgainst(n, p) = {}
             /\ PeerRole(p) = honestRole => Score(n, p) >= 0
  <2>1. PeerRole(p) = honestRole => AppSpecificScore(p) = 0
    BY DEF AppSpecificScore, honestRole, degradedRole
  <2>2. HeldAgainst(n, p) = {}
    <3> SUFFICES ASSUME NEW c \in delivered, c.to = n, c.from = p, Counted(c)
                 PROVE  FALSE
      BY DEF HeldAgainst
    <3>1. Invalid(c.msg) /\ c.from = c.msg.author
      BY <1>1 DEF Counted, InvalidInv, Contained, InvalidStopsAtFirstHop
    <3>2. Degraded(c.msg.author)
      BY <3>1 DEF Invalid, markedInvalid, Degraded
    <3>3. QED
      BY <1>1, <3>1, <3>2
  <2>3. Invalids(n, p) = 0
    BY <2>2, FS_EmptySet DEF Invalids
  <2>4. PeerRole(p) = honestRole => Score(n, p) = 0
    BY <2>1, <2>3, NetworkAssumption DEF Score
  <2>5. QED
    BY <2>2, <2>4
<1>2. InvalidInv => HonestNeverPenalised
  BY <1>1 DEF HonestNeverPenalised
<1>3. QED
  BY <1>2, InvalidInvKept, PTL

-----------------------------------------------------------------------------
(* At most one report: what reaches an application was accepted just now,  *)
(* from the only copy that was being validated.                            *)
Fresh ==
  /\ \A c \in transit \cup delivered : c.to # c.msg.author
  /\ \A c \in validating : c.msg \notin accepted[c.to] \cup rejected[c.to]
  /\ \A c, k \in validating : c.to = k.to /\ c.msg = k.msg => c = k
  /\ \A n \in Nodes : \A m \in Messages :
       reports[n][m] # 0 \/ m \in ignored[n] => m \in accepted[n] /\ m.author # n

OnceInv == TypeOK /\ Fresh /\ ReportedOnce

LEMMA InitOnce == Init => OnceInv
BY InitTypes DEF Init, OnceInv, Fresh, ReportedOnce

LEMMA NextOnce == OnceInv /\ [Next]_vars => OnceInv'
<1> SUFFICES ASSUME OnceInv, [Next]_vars PROVE Fresh' /\ ReportedOnce'
  BY NextTypes DEF OnceInv
<1>0. TypeOK /\ Fresh /\ ReportedOnce
  BY DEF OnceInv
<1>1. ASSUME NEW n \in Nodes, Publish(n) PROVE Fresh' /\ ReportedOnce'
  <2> DEFINE m == [author |-> n, seq |-> published[n]]
  <2>1. m \in Messages /\ m.author = n
    BY <1>0, <1>1, NextMessage DEF TypeOK, Publish
  <2>2. /\ \/ /\ accepted' = [accepted EXCEPT ![n] = @ \cup {m}]
              /\ transit' = transit \cup Forwards(n, m, n)
           \/ accepted' = accepted /\ transit' = transit
        /\ UNCHANGED <<delivered, validating, rejected, reports, ignored>>
    BY <1>1, Zenon DEF Publish, appVars
  <2> HIDE DEF m
  <2>3. \A c \in Forwards(n, m, n) : c.to # c.msg.author
    BY <1>0, <2>1, ForwardsFacts DEF TypeOK
  <2>4. \A c \in transit' \cup delivered' : c.to # c.msg.author
    BY <1>0, <2>2, <2>3 DEF Fresh
  <2>5. \A k \in Nodes : \A o \in Messages :
          /\ o \in accepted[k] => o \in accepted'[k]
          /\ o \in accepted'[k] => o \in accepted[k] \/ (k = n /\ o = m)
    BY <1>0, <2>2 DEF TypeOK
  <2>6. \A c \in validating' : c.msg \notin accepted'[c.to] \cup rejected'[c.to]
    <3> SUFFICES ASSUME NEW c \in validating
                 PROVE  c.msg \notin accepted'[c.to] \cup rejected[c.to]
      BY <2>2
    <3>1. c.to \in Nodes /\ c.msg \in Messages /\ c.to # c.msg.author
      BY <1>0, CopyTypes DEF TypeOK, Fresh
    <3>2. c.msg \notin accepted[c.to] \cup rejected[c.to]
      BY <1>0 DEF Fresh
    <3>3. QED
      BY <2>1, <2>5, <3>1, <3>2
  <2>7. ReportedOnce'
    BY <1>0, <2>2 DEF ReportedOnce
  <2>8. ASSUME NEW k \in Nodes, NEW o \in Messages,
               reports'[k][o] # 0 \/ o \in ignored'[k]
        PROVE  o \in accepted'[k] /\ o.author # k
    BY <1>0, <2>2, <2>5, <2>8 DEF Fresh
  <2>9. \A k, l \in validating' : k.to = l.to /\ k.msg = l.msg => k = l
    BY <1>0, <2>2 DEF Fresh
  <2>10. QED
    BY <2>4, <2>6, <2>7, <2>8, <2>9 DEF Fresh
<1>2. ASSUME NEW c \in transit, Arrive(c) PROVE Fresh' /\ ReportedOnce'
  <2>1. /\ \/ validating' = validating
           \/ ~ Seen(c.to, c.msg) /\ validating' = validating \cup {c}
        /\ transit' \cup delivered' \subseteq transit \cup delivered
        /\ UNCHANGED <<accepted, rejected, reports, ignored>>
    BY <1>2 DEF Arrive, appVars
  <2>2. \A k \in validating' :
          \/ k \in validating
          \/ k = c /\ ~ Seen(c.to, c.msg)
    BY <2>1
  <2>3. /\ \A k \in validating' : k.msg \notin accepted[k.to] \cup rejected[k.to]
        /\ \A k, l \in validating' : k.to = l.to /\ k.msg = l.msg => k = l
    BY <1>0, <2>2 DEF Fresh, Seen
  <2>4. QED
    BY <1>0, <2>1, <2>3 DEF Fresh, ReportedOnce
<1>3. ASSUME NEW c \in validating, Accept(c) PROVE Fresh' /\ ReportedOnce'
  <2> DEFINE n == c.to
             m == c.msg
  <2>1. c \in delivered /\ c.from \in Nodes /\ n \in Nodes /\ m \in Messages
    BY <1>0, CopyTypes DEF TypeOK
  <2>2. m.author # n /\ m \notin accepted[n] \cup rejected[n]
    BY <1>0, <2>1 DEF Fresh
  <2>3. reports[n][m] = 0 /\ m \notin ignored[n]
    BY <1>0, <2>1, <2>2 DEF Fresh
  <2>4. /\ accepted' = [accepted EXCEPT ![n] = @ \cup {m}]
        /\ transit' = transit \cup Forwards(n, m, c.from)
        /\ validating' = validating \ {c}
        /\ delivered' = delivered /\ rejected' = rejected
    BY <1>3 DEF Accept
  <2>5. \/ ignored' = [ignored EXCEPT ![n] = @ \cup {m}] /\ reports' = reports
        \/ reports' = [reports EXCEPT ![n][m] = @ + 1] /\ ignored' = ignored
        \/ reports' = reports /\ ignored' = ignored
    BY <1>3 DEF Accept, Application, appVars
  <2>6. \A k \in transit' \cup delivered' : k.to # k.msg.author
    <3>1. \A k \in Forwards(n, m, c.from) : k.to # k.msg.author
      BY <1>0, <2>1, ForwardsFacts DEF TypeOK
    <3>2. QED
      BY <1>0, <2>4, <3>1 DEF Fresh
  <2>7. \A k \in validating' : k.msg \notin accepted'[k.to] \cup rejected'[k.to]
    <3> SUFFICES ASSUME NEW k \in validating'
                 PROVE  k.msg \notin accepted'[k.to] \cup rejected[k.to]
      BY <2>4
    <3>1. k \in validating /\ k # c /\ k.to \in Nodes
      BY <1>0, <2>4, CopyTypes DEF TypeOK
    <3>2. k.msg \notin accepted[k.to] \cup rejected[k.to]
      BY <1>0, <3>1 DEF Fresh
    <3>3. ~ (k.to = n /\ k.msg = m)
      BY <1>0, <3>1 DEF Fresh
    <3>4. QED
      BY <1>0, <2>1, <2>4, <3>1, <3>2, <3>3 DEF TypeOK
  <2>8. \A j \in Nodes : \A o \in Messages : (j # n \/ o # m) =>
          /\ reports'[j][o] = reports[j][o]
          /\ o \in ignored'[j] <=> o \in ignored[j]
    BY <1>0, <2>1, <2>5 DEF TypeOK
  <2>9. \/ reports'[n][m] = 0
        \/ reports'[n][m] = 1 /\ m \notin ignored'[n]
    BY <1>0, <2>1, <2>3, <2>5 DEF TypeOK
  <2>10. \A j \in Nodes : accepted[j] \subseteq accepted'[j] /\ m \in accepted'[n]
    BY <1>0, <2>1, <2>4 DEF TypeOK
  <2> HIDE DEF n, m
  <2>11. ReportedOnce'
    <3> SUFFICES ASSUME NEW j \in Nodes, NEW o \in Messages
                 PROVE  /\ reports'[j][o] <= 1
                        /\ reports'[j][o] = 1 => o.author # j /\ o \notin ignored'[j]
      BY DEF ReportedOnce
    <3>1. CASE j = n /\ o = m
      BY <2>2, <2>9, <3>1
    <3>2. CASE j # n \/ o # m
      BY <1>0, <2>8, <3>2 DEF ReportedOnce
    <3>3. QED
      BY <3>1, <3>2
  <2>12. ASSUME NEW j \in Nodes, NEW o \in Messages,
                reports'[j][o] # 0 \/ o \in ignored'[j]
         PROVE  o \in accepted'[j] /\ o.author # j
    <3>1. CASE j = n /\ o = m
      BY <2>2, <2>10, <3>1
    <3>2. CASE j # n \/ o # m
      BY <1>0, <2>8, <2>10, <2>12, <3>2 DEF Fresh
    <3>3. QED
      BY <3>1, <3>2
  <2>13. \A k, l \in validating' : k.to = l.to /\ k.msg = l.msg => k = l
    BY <1>0, <2>4 DEF Fresh
  <2>14. QED
    BY <2>6, <2>7, <2>11, <2>12, <2>13 DEF Fresh
<1>4. ASSUME NEW c \in validating, Reject(c) PROVE Fresh' /\ ReportedOnce'
  <2>1. /\ rejected' = [rejected EXCEPT ![c.to] = @ \cup {c.msg}]
        /\ validating' = validating \ {c}
        /\ UNCHANGED <<transit, delivered, accepted, reports, ignored>>
    BY <1>4 DEF Reject, appVars
  <2>2. \A k \in validating' : k.msg \notin accepted'[k.to] \cup rejected'[k.to]
    <3> SUFFICES ASSUME NEW k \in validating'
                 PROVE  k.msg \notin accepted[k.to] \cup rejected'[k.to]
      BY <2>1
    <3>1. k \in validating /\ k # c /\ k.to \in Nodes
      BY <1>0, <2>1, CopyTypes DEF TypeOK
    <3>2. /\ k.msg \notin accepted[k.to] \cup rejected[k.to]
          /\ ~ (k.to = c.to /\ k.msg = c.msg)
      BY <1>0, <3>1 DEF Fresh
    <3>3. QED
      BY <1>0, <2>1, <3>1, <3>2 DEF TypeOK
  <2>3. QED
    BY <1>0, <2>1, <2>2 DEF Fresh, ReportedOnce
<1>5. ASSUME NEW c \in transit, Graylist(c) \/ Lose(c)
      PROVE  Fresh' /\ ReportedOnce'
  BY <1>0, <1>5 DEF Graylist, Lose, appVars, Fresh, ReportedOnce
<1>6. ASSUME NEW n \in Nodes, NEW p \in Nodes, Prune(n, p) \/ Break(n, p)
      PROVE  Fresh' /\ ReportedOnce'
  BY <1>0, <1>6 DEF Prune, Break, appVars, Fresh, ReportedOnce
<1>7. CASE UNCHANGED vars
  BY <1>0, <1>7 DEF vars, routerVars, appVars, Fresh, ReportedOnce
<1>8. QED
  BY <1>1, <1>2, <1>3, <1>4, <1>5, <1>6, <1>7
     DEF Next, ArriveSome, DecideSome, Quiet

(* See ReportedOnce: however often a message arrives, one report at most.  *)
THEOREM ReportsAtMostOnce == Spec => []ReportedOnce
<1>1. OnceInv => ReportedOnce
  BY DEF OnceInv
<1>2. QED
  BY <1>1, InitOnce, NextOnce, PTL DEF Spec
=============================================================================
