------------------------- MODULE DegradedTallyProofs -------------------------
(***************************************************************************)
(* The percentages of the degraded role are met exactly, for any setting   *)
(* and any number of publishes.                                            *)
(***************************************************************************)
EXTENDS DegradedTally, FiniteSetTheorems, TLAPS

(* Division by 100 is unique.                                              *)
LEMMA Hundreds ==
  ASSUME NEW a \in Int, NEW q \in Int, NEW r \in 0 .. 99, a = 100 * q + r
  PROVE  a \div 100 = q /\ a % 100 = r
OBVIOUS

(* 37 and 73 are inverse to each other: the remainder tells the number.    *)
LEMMA FactorInverse ==
  ASSUME NEW n \in Nat
  PROVE  /\ (73 * ((n * 37) % 100)) % 100 = n % 100
         /\ (37 * ((73 * n) % 100)) % 100 = n % 100
<1> DEFINE r == (n * 37) % 100
           k == (n * 37) \div 100
           s == (73 * n) % 100
           l == (73 * n) \div 100
           m == n \div 100
           t == n % 100
<1>1. /\ k \in Int /\ r \in 0 .. 99 /\ n * 37 = 100 * k + r
      /\ l \in Int /\ s \in 0 .. 99 /\ 73 * n = 100 * l + s
      /\ m \in Int /\ t \in 0 .. 99 /\ n = 100 * m + t
  OBVIOUS
<1> HIDE DEF r, k, s, l, m, t
<1>2. /\ 73 * r = 100 * (m + 27 * n - 73 * k) + t
      /\ 37 * s = 100 * (m + 27 * n - 37 * l) + t
  BY <1>1
<1>3. (73 * r) % 100 = t
  <2> DEFINE q == m + 27 * n - 73 * k
             a == 73 * r
  <2>1. q \in Int /\ a \in Int /\ a = 100 * q + t
    BY <1>1, <1>2
  <2> HIDE DEF q, a
  <2>2. a % 100 = t
    BY <1>1, <2>1, Hundreds
  <2>3. QED
    BY <2>2 DEF a
<1>4. (37 * s) % 100 = t
  <2> DEFINE q == m + 27 * n - 37 * l
             a == 37 * s
  <2>1. q \in Int /\ a \in Int /\ a = 100 * q + t
    BY <1>1, <1>2
  <2> HIDE DEF q, a
  <2>2. a % 100 = t
    BY <1>1, <2>1, Hundreds
  <2>3. QED
    BY <2>2 DEF a
<1>5. QED
  BY <1>3, <1>4 DEF r, s, t

-----------------------------------------------------------------------------
(* The numbers below n that a percentage selects.                          *)
Hits(n, pct) == {i \in 0 .. n - 1 : percentHit(i, pct)}

(* For a percentage the two special cases of percentHit are none.          *)
LEMMA HitIsRemainder ==
  ASSUME NEW i \in Nat, NEW pct \in 0 .. 100
  PROVE  percentHit(i, pct) <=> (i * 37) % 100 < pct
<1>1. (i * 37) % 100 \in 0 .. 99
  OBVIOUS
<1>2. QED
  BY <1>1 DEF percentHit

LEMMA HitsFinite ==
  ASSUME NEW n \in Nat, NEW pct
  PROVE  IsFiniteSet(Hits(n, pct)) /\ Cardinality(Hits(n, pct)) \in Nat
<1>1. IsFiniteSet(0 .. n - 1)
  BY FS_Interval
<1>2. Hits(n, pct) \in SUBSET (0 .. n - 1)
  BY DEF Hits
<1>3. QED
  BY <1>1, <1>2, FS_Subset, FS_CardinalityType

(* One number more.                                                        *)
LEMMA HitsStep ==
  ASSUME NEW n \in Nat, NEW pct
  PROVE  Cardinality(Hits(n + 1, pct)) =
           IF percentHit(n, pct) THEN Cardinality(Hits(n, pct)) + 1
           ELSE Cardinality(Hits(n, pct))
<1>1. n \notin Hits(n, pct)
  BY DEF Hits
<1>2. CASE percentHit(n, pct)
  <2>1. Hits(n + 1, pct) = Hits(n, pct) \cup {n}
    BY <1>2 DEF Hits
  <2>2. QED
    BY <1>1, <1>2, <2>1, HitsFinite, FS_AddElement
<1>3. CASE ~ percentHit(n, pct)
  <2>1. Hits(n + 1, pct) = Hits(n, pct)
    BY <1>3 DEF Hits
  <2>2. QED
    BY <1>3, <2>1
<1>4. QED
  BY <1>2, <1>3

LEMMA NoHits == \A pct : Cardinality(Hits(0, pct)) = 0
<1>1. \A pct : Hits(0, pct) = {}
  BY DEF Hits
<1>2. QED
  BY <1>1, FS_EmptySet

(* In whole hundreds each percentage selects its share: a number below     *)
(* 100 * q is its hundred and the remainder that percentHit looks at.      *)
LEMMA HundredsExact ==
  ASSUME NEW q \in Nat, NEW pct \in 0 .. 100
  PROVE  Cardinality(Hits(100 * q, pct)) = q * pct
<1> DEFINE S == Hits(100 * q, pct)
           T == (0 .. q - 1) \X (0 .. pct - 1)
           f == [i \in S |-> <<i \div 100, (i * 37) % 100>>]
<1>1. \A i \in S : i \in Nat /\ i < 100 * q /\ (i * 37) % 100 < pct
  <2>1. \A i \in S : i \in 0 .. 100 * q - 1 /\ percentHit(i, pct)
    BY DEF Hits
  <2>2. QED
    BY <2>1, HitIsRemainder
<1>2. f \in [S -> T]
  <2> SUFFICES ASSUME NEW i \in S
               PROVE  i \div 100 \in 0 .. q - 1 /\ (i * 37) % 100 \in 0 .. pct - 1
    OBVIOUS
  <2>1. i \in Nat /\ i < 100 * q /\ (i * 37) % 100 < pct
    BY <1>1
  <2>2. (i * 37) % 100 \in Nat
    BY <2>1
  <2>3. i \div 100 \in 0 .. q - 1
    BY <2>1
  <2>4. QED
    BY <2>1, <2>2, <2>3
<1>3. ASSUME NEW i \in S, NEW j \in S, f[i] = f[j] PROVE i = j
  <2>1. i \div 100 = j \div 100 /\ (i * 37) % 100 = (j * 37) % 100
    BY <1>3
  <2>2. i \in Nat /\ j \in Nat
    BY <1>1
  <2>3. i % 100 = j % 100
    BY <2>1, <2>2, FactorInverse
  <2>4. QED
    BY <2>1, <2>2, <2>3
<1>4. ASSUME NEW t \in T PROVE \E i \in S : f[i] = t
  <2>1. PICK a \in 0 .. q - 1, r \in 0 .. pct - 1 : t = <<a, r>>
    BY <1>4
  <2> DEFINE b == (73 * r) % 100
             i == 100 * a + b
  <2>2. r \in Nat /\ r \in 0 .. 99 /\ a \in Nat /\ b \in 0 .. 99
    BY <2>1
  <2>3. (37 * b) % 100 = r
    BY <2>2, FactorInverse
  <2> HIDE DEF b
  <2>4. i \div 100 = a
    BY <2>2, Hundreds
  <2>5. (i * 37) % 100 = r
    <3>1. i * 37 = 100 * (37 * a) + 37 * b
      BY <2>2
    <3>2. 37 * b = 100 * ((37 * b) \div 100) + r
      BY <2>2, <2>3
    <3> DEFINE k == 37 * a + (37 * b) \div 100
               c == i * 37
    <3>3. k \in Int /\ c \in Int /\ c = 100 * k + r
      BY <2>2, <3>1, <3>2
    <3> HIDE DEF k, c
    <3>4. c % 100 = r
      BY <2>2, <3>3, Hundreds
    <3>5. QED
      BY <3>4 DEF c
  <2>6. i \in 0 .. 100 * q - 1
    BY <2>1, <2>2
  <2>7. i \in S
    <3>1. i \in Nat
      BY <2>6
    <3>2. percentHit(i, pct)
      BY <2>1, <2>5, <3>1, HitIsRemainder
    <3>3. QED
      BY <2>6, <3>2 DEF Hits
  <2>8. f[i] = <<i \div 100, (i * 37) % 100>>
    BY <2>7
  <2>9. QED
    BY <2>1, <2>4, <2>5, <2>7, <2>8
<1>5. f \in Bijection(S, T)
  BY <1>2, <1>3, <1>4 DEF Bijection, Injection, Surjection, IsInjective
<1>6. IsFiniteSet(S)
  BY HitsFinite
<1>7. Cardinality(S) = Cardinality(T)
  BY <1>5, <1>6, FS_Bijection DEF ExistsBijection
<1>8. Cardinality(T) = q * pct
  <2>1. ASSUME NEW n \in Nat
        PROVE  IsFiniteSet(0 .. n - 1) /\ Cardinality(0 .. n - 1) = n
    <3>1. 0 > n - 1 <=> n = 0
      OBVIOUS
    <3>2. QED
      BY <3>1, FS_Interval
  <2>2. pct \in Nat
    OBVIOUS
  <2>3. /\ IsFiniteSet(0 .. q - 1) /\ Cardinality(0 .. q - 1) = q
        /\ IsFiniteSet(0 .. pct - 1) /\ Cardinality(0 .. pct - 1) = pct
    BY <2>1, <2>2
  <2> DEFINE A == 0 .. q - 1
             B == 0 .. pct - 1
  <2>4. /\ IsFiniteSet(A) /\ Cardinality(A) = q /\ IsFiniteSet(B)
        /\ Cardinality(B) = pct /\ T = A \X B
    BY <2>3
  <2> HIDE DEF A, B, T
  <2>5. Cardinality(A \X B) = Cardinality(A) * Cardinality(B)
    BY <2>4, FS_Product
  <2>6. QED
    BY <2>4, <2>5
<1>9. QED
  BY <1>7, <1>8

(* Each hundred of numbers selects as the one before it: the numbers below *)
(* 100 * m + t are those below 100 * m, and t more.                        *)
LEMMA HundredsRepeat ==
  ASSUME NEW m \in Nat, NEW t \in Nat, NEW pct \in 0 .. 100
  PROVE  Cardinality(Hits(100 * m + t, pct)) =
           m * pct + Cardinality(Hits(t, pct))
<1> DEFINE n == 100 * m
           S == Hits(t, pct)
           T == {i \in n .. n + t - 1 : percentHit(i, pct)}
           f == [i \in S |-> n + i]
<1>1. n \in Nat
  OBVIOUS
<1>2. ASSUME NEW i \in Nat PROVE percentHit(n + i, pct) <=> percentHit(i, pct)
  <2> DEFINE k == (i * 37) \div 100
             r == (i * 37) % 100
             a == (n + i) * 37
             q == 37 * m + k
  <2>1. r \in 0 .. 99 /\ k \in Int /\ i * 37 = 100 * k + r
    OBVIOUS
  <2>2. a \in Int /\ q \in Int /\ a = 100 * q + r
    BY <2>1
  <2>3. percentHit(i, pct) <=> r < pct
    BY HitIsRemainder
  <2>4. percentHit(n + i, pct) <=> a % 100 < pct
    BY <1>1, HitIsRemainder
  <2> HIDE DEF a, q, r
  <2>5. a % 100 = r
    BY <2>1, <2>2, Hundreds
  <2>6. QED
    BY <2>3, <2>4, <2>5
<1> HIDE DEF n
<1>3. f \in Bijection(S, T)
  <2>1. f \in [S -> T]
    BY <1>1, <1>2 DEF Hits
  <2>2. \A i, j \in S : f[i] = f[j] => i = j
    BY <1>1 DEF Hits
  <2>3. ASSUME NEW j \in T PROVE \E i \in S : f[i] = j
    <3>1. j - n \in 0 .. t - 1 /\ j = n + (j - n)
      BY <1>1
    <3>2. j - n \in S
      BY <1>2, <3>1 DEF Hits
    <3>3. QED
      BY <3>1, <3>2
  <2>4. QED
    BY <2>1, <2>2, <2>3 DEF Bijection, Injection, Surjection, IsInjective
<1>4. /\ IsFiniteSet(S) /\ Cardinality(S) \in Nat
      /\ IsFiniteSet(Hits(n, pct)) /\ Cardinality(Hits(n, pct)) \in Nat
  BY <1>1, HitsFinite
<1>5. IsFiniteSet(T) /\ Cardinality(T) = Cardinality(S)
  BY <1>3, <1>4, FS_Bijection DEF ExistsBijection
<1>6. Hits(n + t, pct) = Hits(n, pct) \cup T /\ Hits(n, pct) \cap T = {}
  BY <1>1 DEF Hits
<1>7. Cardinality(Hits(n + t, pct)) = Cardinality(Hits(n, pct)) + Cardinality(S)
  <2> DEFINE U == Hits(n, pct)
  <2> HIDE DEF S, T, U
  <2>1. Cardinality(U \cup T) = Cardinality(U) + Cardinality(T) - Cardinality(U \cap T)
    BY <1>4, <1>5, FS_Union DEF U
  <2>2. Cardinality(U \cap T) = 0
    BY <1>6, FS_EmptySet DEF U
  <2>3. Cardinality(U) \in Nat /\ Cardinality(S) \in Nat /\ Cardinality(T) = Cardinality(S)
    BY <1>4, <1>5 DEF U
  <2>4. Cardinality(U \cup T) = Cardinality(U) + Cardinality(S)
    BY <2>1, <2>2, <2>3
  <2>5. QED
    BY <1>6, <2>4, Zenon DEF U
<1>8. Cardinality(Hits(n, pct)) = m * pct
  BY HundredsExact DEF n
<1>9. QED
  BY <1>7, <1>8 DEF n

-----------------------------------------------------------------------------
(* Every step keeps the types.                                             *)
LEMMA TypesInductive == Spec => []TypeOK
<1>1. Init => TypeOK
  BY TallyAssumption DEF Init, TypeOK
<1>2. TypeOK /\ [Next]_vars => TypeOK'
  <2> SUFFICES ASSUME TypeOK, [Next]_vars PROVE TypeOK'
    OBVIOUS
  <2> USE TallyAssumption
  <2>1. CASE PublishInvalid
    BY <2>1 DEF PublishInvalid, TypeOK, Settings
  <2>2. CASE PublishValid
    BY <2>2 DEF PublishValid, TypeOK, Settings
  <2>3. CASE UNCHANGED vars
    BY <2>3 DEF vars, TypeOK, Settings
  <2>4. QED
    BY <2>1, <2>2, <2>3 DEF Next, Done
<1>3. QED
  BY <1>1, <1>2, PTL DEF Spec

(* Types and counts are kept, for any percentages and any number of        *)
(* publishes: every publish is invalid or received.                        *)
THEOREM TypeCorrect == Spec => []TypeOK
BY TypesInductive

(* What the counts are at any time: the publishes selected so far.         *)
Counted ==
  /\ invalid = IF setting.publisher = degradedRole
               THEN Cardinality(Hits(publishID, setting.invalidPct)) ELSE 0
  /\ setting.publisher = honestRole =>
       ignored = IF setting.receiver = degradedRole
                 THEN Cardinality(Hits(publishID, setting.dropPct)) ELSE 0

LEMMA CountedStep ==
  ASSUME TypeOK, Counted, [Next]_vars
  PROVE  Counted'
<1>1. publishID \in Nat
  BY DEF TypeOK
<1>2. \A pct : /\ Cardinality(Hits(publishID, pct)) \in Nat
               /\ Cardinality(Hits(publishID + 1, pct)) =
                    IF percentHit(publishID, pct)
                    THEN Cardinality(Hits(publishID, pct)) + 1
                    ELSE Cardinality(Hits(publishID, pct))
  BY <1>1, HitsStep, HitsFinite
<1>3. honestRole # degradedRole
  BY DEF honestRole, degradedRole
<1>4. CASE PublishInvalid
  <2>1. /\ publishID' = publishID + 1 /\ invalid' = invalid + 1
        /\ setting' = setting /\ setting.publisher = degradedRole
        /\ percentHit(publishID, setting.invalidPct)
    BY <1>4 DEF PublishInvalid, markedInvalid
  <2>2. QED
    BY <1>2, <1>3, <2>1 DEF Counted
<1>5. CASE PublishValid
  <2>1. /\ publishID' = publishID + 1 /\ invalid' = invalid
        /\ setting' = setting
        /\ setting.publisher = degradedRole =>
             ~ percentHit(publishID, setting.invalidPct)
        /\ ignored' = IF /\ setting.receiver = degradedRole
                         /\ percentHit(publishID, setting.dropPct)
                      THEN ignored + 1 ELSE ignored
    BY <1>5 DEF PublishValid, markedInvalid, ignoredBy
  <2>2. QED
    BY <1>2, <1>3, <2>1 DEF Counted
<1>6. CASE UNCHANGED vars
  BY <1>6 DEF vars, Counted
<1>7. QED
  BY <1>4, <1>5, <1>6 DEF Next, Done

LEMMA CountedInductive == Spec => []Counted
<1>1. Init => Counted
  <2> SUFFICES ASSUME Init PROVE Counted
    OBVIOUS
  <2>1. publishID = 0 /\ invalid = 0 /\ ignored = 0
    BY DEF Init
  <2>2. QED
    BY <2>1, NoHits DEF Counted
<1>2. QED
  BY <1>1, CountedStep, TypesInductive, PTL DEF Spec

-----------------------------------------------------------------------------
(* The count that goes with a role, and how far it is from the percentage. *)
LEMMA PercentTypes ==
  ASSUME TypeOK
  PROVE  /\ setting.invalidPct \in 0 .. 100 /\ setting.dropPct \in 0 .. 100
         /\ setting.publisher \in Roles /\ setting.receiver \in Roles
BY TallyAssumption DEF TypeOK, Settings, validPercent

(* After every 100 publishes exactly the percentage of them was marked     *)
(* invalid, whatever the percentage and however long the run: in every     *)
(* hundred percentHit meets each remainder once.                           *)
THEOREM InvalidExact == Spec => []MarkedExactly
<1>1. TypeOK /\ Counted => MarkedExactly
  <2> SUFFICES ASSUME TypeOK, Counted, publishID % 100 = 0
               PROVE  100 * invalid = InvalidPct * publishID
    BY DEF MarkedExactly
  <2> DEFINE q == publishID \div 100
             pct == setting.invalidPct
  <2>1. publishID \in Nat /\ q \in Nat /\ publishID = 100 * q
    BY DEF TypeOK
  <2>2. pct \in 0 .. 100
    BY PercentTypes
  <2> HIDE DEF q, pct
  <2>3. CASE setting.publisher = degradedRole
    <3>1. invalid = Cardinality(Hits(100 * q, pct)) /\ InvalidPct = pct
      BY <2>1, <2>3 DEF Counted, InvalidPct, Pct, pct
    <3>2. invalid = q * pct
      BY <2>1, <2>2, <3>1, HundredsExact
    <3>3. QED
      BY <2>1, <2>2, <3>1, <3>2
  <2>4. CASE setting.publisher # degradedRole
    BY <2>1, <2>4 DEF Counted, InvalidPct, Pct
  <2>5. QED
    BY <2>3, <2>4
<1>2. QED
  BY <1>1, TypesInductive, CountedInductive, PTL

(* One period decides about all: the selection is even below 100 numbers   *)
(* (EvenlySpread), and a whole hundred brings it back to the percentage.   *)
LEMMA NeverOff ==
  ASSUME NEW n \in Nat, NEW pct \in 0 .. 100
  PROVE  NeverTwoOff(Cardinality(Hits(n, pct)), n, pct)
<1> DEFINE m == n \div 100
           t == n % 100
           S == {i \in 0 .. t - 1 : (i * 37) % 100 < pct}
<1>1. m \in Nat /\ t \in 0 .. 99 /\ n = 100 * m + t
  OBVIOUS
<1> HIDE DEF m, t
<1>2. Hits(t, pct) = S
  <2>1. \A i \in 0 .. t - 1 : i \in Nat
    BY <1>1
  <2>2. QED
    BY <2>1, HitIsRemainder DEF Hits
<1>3. 100 * Cardinality(S) - t * pct \in -199 .. 199
  BY <1>1, EvenlySpread
<1> HIDE DEF S
<1>4. m \in Nat /\ t \in Nat
  BY <1>1
<1>5. Cardinality(Hits(t, pct)) \in Nat
  BY <1>4, HitsFinite
<1>6. Cardinality(Hits(100 * m + t, pct)) = m * pct + Cardinality(Hits(t, pct))
  <2>1. m \in Nat /\ t \in Nat /\ pct \in 0 .. 100
    BY <1>4
  <2>2. QED
    BY <2>1, HundredsRepeat, ZenonT(60)
<1>7. 100 * (m * pct + Cardinality(S)) - n * pct = 100 * Cardinality(S) - t * pct
  <2> DEFINE c == Cardinality(S)
             x == m * pct
             y == t * pct
  <2>1. n * pct = 100 * (m * pct) + t * pct
    <3>1. n = 100 * m + t /\ m \in Int /\ t \in Int /\ pct \in Int
      BY <1>1, <1>4
    <3>2. (100 * m + t) * pct = 100 * (m * pct) + t * pct
      BY <3>1
    <3>3. QED
      BY <3>1, <3>2, Zenon
  <2>2. c \in Int /\ x \in Int /\ y \in Int /\ n * pct = 100 * x + y
    BY <1>2, <1>4, <1>5, <2>1
  <2> DEFINE z == n * pct
  <2>3. z = 100 * x + y
    BY <2>2
  <2>4. 100 * (x + c) - z = 100 * c - y
    <3> HIDE DEF c, x, y, z
    <3>1. QED
      BY <2>2, <2>3
  <2>5. QED
    BY <2>4
<1>8. Cardinality(Hits(n, pct)) = m * pct + Cardinality(S)
  BY <1>1, <1>2, <1>6
<1>9. QED
  BY <1>3, <1>7, <1>8 DEF NeverTwoOff

LEMMA NothingOff ==
  ASSUME NEW n \in Nat
  PROVE  NeverTwoOff(0, n, 0)
BY DEF NeverTwoOff

(* At no point of a run of any length is the number of invalid publishes   *)
(* two or more away from the percentage of the node's role.                *)
THEOREM InvalidEven == Spec => []MarkedEvenly
<1>1. TypeOK /\ Counted => MarkedEvenly
  <2> SUFFICES ASSUME TypeOK, Counted
               PROVE  NeverTwoOff(invalid, publishID, InvalidPct)
    BY DEF MarkedEvenly
  <2>1. publishID \in Nat
    BY DEF TypeOK
  <2>2. CASE setting.publisher = degradedRole
    BY <2>1, <2>2, NeverOff, PercentTypes DEF Counted, InvalidPct, Pct
  <2>3. CASE setting.publisher # degradedRole
    BY <2>1, <2>3, NothingOff DEF Counted, InvalidPct, Pct
  <2>4. QED
    BY <2>2, <2>3
<1>2. QED
  BY <1>1, TypesInductive, CountedInductive, PTL

(* What a degraded node ignores of an honest one's messages, all of which  *)
(* it receives, is as even, and exact after every 100.                     *)
THEOREM IgnoredEven == Spec => []IgnoredEvenly
<1>1. TypeOK /\ Counted => IgnoredEvenly
  <2> SUFFICES ASSUME TypeOK, Counted, setting.publisher = honestRole
               PROVE  /\ NeverTwoOff(ignored, received, DropPct)
                      /\ publishID % 100 = 0 => 100 * ignored = DropPct * received
    BY DEF IgnoredEvenly
  <2> DEFINE q == publishID \div 100
             pct == setting.dropPct
  <2>1. honestRole # degradedRole
    BY DEF honestRole, degradedRole
  <2>2. publishID \in Nat /\ received = publishID
    BY <2>1 DEF TypeOK, Counted
  <2>3. pct \in 0 .. 100
    BY PercentTypes
  <2>4. publishID % 100 = 0 => q \in Nat /\ publishID = 100 * q
    BY <2>2
  <2> HIDE DEF q, pct
  <2>5. CASE setting.receiver = degradedRole
    <3>1. ignored = Cardinality(Hits(publishID, pct)) /\ DropPct = pct
      BY <2>5 DEF Counted, DropPct, Pct, pct
    <3>2. NeverTwoOff(ignored, received, DropPct)
      BY <2>2, <2>3, <3>1, NeverOff
    <3>3. ASSUME publishID % 100 = 0 PROVE 100 * ignored = DropPct * received
      <4>1. ignored = q * pct
        BY <2>3, <2>4, <3>1, <3>3, HundredsExact
      <4>2. QED
        BY <2>2, <2>3, <2>4, <3>1, <3>3, <4>1
    <3>4. QED
      BY <3>2, <3>3
  <2>6. CASE setting.receiver # degradedRole
    <3>1. ignored = 0 /\ DropPct = 0
      BY <2>6 DEF Counted, DropPct, Pct
    <3>2. QED
      BY <2>2, <3>1, NothingOff
  <2>7. QED
    BY <2>5, <2>6
<1>2. QED
  BY <1>1, TypesInductive, CountedInductive, PTL
=============================================================================
