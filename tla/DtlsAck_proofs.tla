-------------------------- MODULE DtlsAck_proofs --------------------------
(***************************************************************************)
(* Acknowledgement in DTLS 1.3, in three parts.                            *)
(*                                                                         *)
(* AckRanges: what dtls_ack_range_add computes, for arrays of any length.  *)
(* Its loops are recursive functions, so each lemma about a loop is an     *)
(* induction on its turns (Climb).                                         *)
(*                                                                         *)
(* AckTracking: its properties for every set of epochs and limits, every   *)
(* bound on record numbers and every first allocation.                     *)
(*                                                                         *)
(* Dtls13Recovery: its safety properties for flights of any length, every  *)
(* attempt budget, any number of losses and repetitions, eager and patient *)
(* timers.                                                                 *)
(***************************************************************************)
EXTENDS AckTracking, Dtls13Recovery, WellFoundedInduction, FiniteSetTheorems, TLAPS

-----------------------------------------------------------------------------
(* AckRanges *)

(* A set of numbers that holds 0 and, with each number below n, the next,  *)
(* holds all numbers up to n: the induction behind the loops.              *)
LEMMA Climb ==
    ASSUME NEW n \in Nat, NEW T, 0 \in T,
           \A k \in 0 .. n : k # n /\ k \in T => k + 1 \in T
    PROVE  0 .. n \subseteq T
<1> SUFFICES ASSUME ~ (0 .. n \subseteq T) PROVE FALSE
  OBVIOUS
<1> DEFINE U == { k \in Nat : k \in 0 .. n /\ k \notin T }
<1>1. U \subseteq Nat /\ U # {}
  OBVIOUS
<1>2. PICK k \in U : \A i \in U : ~ (<<i, k>> \in OpToRel(<, Nat))
  BY <1>1, NatLessThanWellFounded, WFMin, Zenon
<1>3. \A i \in U : ~ (i < k)
  BY <1>2, <1>1 DEF OpToRel
<1>4. k # 0 /\ k - 1 \in 0 .. n /\ k - 1 # n /\ k - 1 \notin U
  BY <1>3
<1> QED
  BY <1>4

LEMMA AbsorbTurnsDef ==
    ASSUME NEW ranges, NEW i \in Nat, Len(ranges) \in Nat, i <= Len(ranges)
    PROVE  AbsorbTurns(ranges, i) =
               [n \in 0 .. Len(ranges) - i |->
                   IF n = 0 THEN [ranges |-> ranges, j |-> i + 1]
                   ELSE AbsorbTurn(AbsorbTurns(ranges, i)[n - 1], i)]
<1> DEFINE top == Len(ranges) - i
           Follows(g, m) == g = [n \in 0 .. m |-> IF n = 0 THEN [ranges |-> ranges, j |-> i + 1]
                                              ELSE AbsorbTurn(g[n - 1], i)]
           Has == { m \in Nat : \E g : Follows(g, m) }
<1>1. 0 \in Has
  <2> DEFINE g == [n \in 0 .. 0 |-> [ranges |-> ranges, j |-> i + 1]]
  <2>1. Follows(g, 0)
    OBVIOUS
  <2> QED
    BY <2>1
<1>2. ASSUME NEW m \in 0 .. top, m \in Has PROVE m + 1 \in Has
  <2>1. PICK g : Follows(g, m)
    BY <1>2
  <2> DEFINE h == [n \in 0 .. m + 1 |-> IF n = m + 1 THEN AbsorbTurn(g[m], i) ELSE g[n]]
  <2>2. \A n \in 0 .. m : g[n] = IF n = 0 THEN [ranges |-> ranges, j |-> i + 1]
                                 ELSE AbsorbTurn(g[n - 1], i)
    BY <2>1
  <2>3. Follows(h, m + 1)
    <3>1. ASSUME NEW n \in 0 .. m + 1
          PROVE  h[n] = IF n = 0 THEN [ranges |-> ranges, j |-> i + 1]
                        ELSE AbsorbTurn(h[n - 1], i)
      <4>1. CASE n = m + 1
        BY <4>1
      <4>2. CASE n \in 0 .. m
        <5>1. h[n] = g[n] /\ (n # 0 => h[n - 1] = g[n - 1])
          BY <4>2
        <5> QED
          BY <5>1, <4>2, <2>2
      <4> QED
        BY <4>1, <4>2
    <3> HIDE DEF h
    <3>2. h = [n \in 0 .. m + 1 |-> h[n]]
      BY DEF h
    <3> QED
      BY <3>1, <3>2
  <2> HIDE DEF Follows, h
  <2> QED
    BY <2>3
<1>3. top \in Has
  <2> HIDE DEF Has
  <2> QED BY <1>1, <1>2, Climb, SMTT(40)
<1>4. PICK g : Follows(g, top)
  BY <1>3
<1> QED
  BY <1>4 DEF AbsorbTurns
-----------------------------------------------------------------------------
(* Ranges. *)
Intervals == { r \in [min : Nat, max : Nat] : r.min <= r.max }

Holds(r, x) == r.min <= x /\ x <= r.max

LEMMA TouchesSymmetric ==
    \A r, s \in Intervals : Touches(r, s) <=> Touches(s, r)
BY DEF Intervals, Touches

(* Ranges that overlap or are adjacent have a hull without a gap: it holds *)
(* what they hold, and touches only what one of them touches.              *)
LEMMA HullExact ==
    ASSUME NEW r \in Intervals, NEW s \in Intervals, Touches(r, s)
    PROVE  /\ Hull(r, s) \in Intervals
           /\ \A x \in Nat : Holds(Hull(r, s), x) <=> Holds(r, x) \/ Holds(s, x)
           /\ \A t \in Intervals :
                 Touches(Hull(r, s), t) => Touches(r, t) \/ Touches(s, t)
<1>1. Hull(r, s) \in Intervals
  BY DEF Intervals, Hull
<1>2. \A x \in Nat : Holds(Hull(r, s), x) <=> Holds(r, x) \/ Holds(s, x)
  BY DEF Intervals, Hull, Holds, Touches
<1>3. \A t \in Intervals : Touches(Hull(r, s), t) => Touches(r, t) \/ Touches(s, t)
  BY DEF Intervals, Hull, Touches
<1> QED
  BY <1>1, <1>2, <1>3

LEMMA CoveredHolds ==
    ASSUME NEW R \in Seq(Intervals)
    PROVE  /\ Covered(R) \subseteq Nat
           /\ \A x \in Nat : x \in Covered(R) <=> \E i \in 1 .. Len(R) : Holds(R[i], x)
<1>1. DOMAIN R = 1 .. Len(R) /\ \A i \in 1 .. Len(R) : R[i] \in Intervals
  OBVIOUS
<1>2. \A i \in 1 .. Len(R) : R[i].min \in Nat /\ R[i].max \in Nat
  BY <1>1 DEF Intervals
<1> QED
  BY <1>1, <1>2 DEF Covered, Holds

LEMMA RemoveAtProperties ==
    ASSUME NEW S, NEW s \in Seq(S), NEW j \in 1 .. Len(s)
    PROVE  /\ RemoveAt(s, j) \in Seq(S)
           /\ Len(RemoveAt(s, j)) = Len(s) - 1
           /\ \A k \in 1 .. Len(s) - 1 :
                 RemoveAt(s, j)[k] = IF k < j THEN s[k] ELSE s[k + 1]
<1> DEFINE a == SubSeq(s, 1, j - 1)
           b == SubSeq(s, j + 1, Len(s))
<1>1. /\ a \in Seq(S) /\ Len(a) = j - 1 /\ \A k \in 1 .. j - 1 : a[k] = s[k]
  OBVIOUS
<1>2. /\ b \in Seq(S) /\ Len(b) = Len(s) - j /\ \A k \in 1 .. Len(s) - j : b[k] = s[j + k]
  OBVIOUS
<1>3. RemoveAt(s, j) = a \o b
  BY DEF RemoveAt
<1> HIDE DEF a, b
<1>4. a \o b \in Seq(S) /\ Len(a \o b) = Len(s) - 1
  <2>1. a \in Seq(S) /\ b \in Seq(S)
    BY <1>1, <1>2
  <2>2. a \o b \in Seq(S) /\ Len(a \o b) = Len(a) + Len(b)
    BY <2>1
  <2> QED
    BY <1>1, <1>2, <2>2
<1>5. ASSUME NEW k \in 1 .. Len(s) - 1
      PROVE  (a \o b)[k] = IF k < j THEN s[k] ELSE s[k + 1]
  <2>1. CASE k < j
    BY <1>1, <1>2, <2>1
  <2>2. CASE ~ (k < j)
    <3>1. (a \o b)[k] = b[k - (j - 1)] /\ k - (j - 1) \in 1 .. Len(s) - j
      BY <1>1, <1>2, <2>2
    <3> QED
      BY <1>2, <2>2, <3>1
  <2> QED
    BY <2>1, <2>2
<1> QED
  BY <1>3, <1>4, <1>5

-----------------------------------------------------------------------------
(* The coalescing loops. *)

(* Only range i may touch a range, and only one that comes later.           *)
OthersApart(R, i) ==
    \A k, m \in 1 .. Len(R) : k < m /\ k # i => ~ Touches(R[k], R[m])

AllApart(R) == \A k, m \in 1 .. Len(R) : k # m => ~ Touches(R[k], R[m])

(* The state of the inner loop for range i of R before it looks at range j. *)
ScanOK(scan, R, i) ==
    /\ scan.ranges \in Seq(Intervals)
    /\ scan = [ranges |-> scan.ranges, j |-> scan.j]
    /\ i <= Len(scan.ranges) /\ Len(scan.ranges) <= Len(R)
    /\ scan.j \in i + 1 .. Len(scan.ranges) + 1
    /\ Covered(scan.ranges) = Covered(R)
    /\ OthersApart(scan.ranges, i)
    /\ \A k \in i + 1 .. scan.j - 1 : ~ Touches(scan.ranges[i], scan.ranges[k])

(* Q with range i replaced by h and range j taken out.                      *)
Merged(P, Q, i, j, h) ==
    /\ P \in Seq(Intervals) /\ Len(P) = Len(Q) - 1
    /\ \A k \in 1 .. Len(Q) - 1 :
          P[k] = IF k = i THEN h ELSE IF k < j THEN Q[k] ELSE Q[k + 1]

LEMMA AbsorbShape ==
    ASSUME NEW Q \in Seq(Intervals), NEW i \in Nat, NEW j \in Nat,
           0 < i, i < j, j <= Len(Q), NEW h \in Intervals
    PROVE  Merged(RemoveAt([Q EXCEPT ![i] = h], j), Q, i, j, h)
<1> DEFINE H == [Q EXCEPT ![i] = h]
<1>1. Len(Q) \in Nat
  OBVIOUS
<1>2. /\ H \in Seq(Intervals) /\ Len(H) = Len(Q)
      /\ \A k \in 1 .. Len(Q) : H[k] = IF k = i THEN h ELSE Q[k]
  BY <1>1
<1> HIDE DEF H
<1>3. j \in 1 .. Len(H)
  BY <1>1, <1>2
<1>4. /\ RemoveAt(H, j) \in Seq(Intervals) /\ Len(RemoveAt(H, j)) = Len(H) - 1
      /\ \A k \in 1 .. Len(H) - 1 :
            RemoveAt(H, j)[k] = IF k < j THEN H[k] ELSE H[k + 1]
  BY <1>2, <1>3, RemoveAtProperties
<1>5. ASSUME NEW k \in 1 .. Len(Q) - 1
      PROVE  RemoveAt(H, j)[k] = IF k = i THEN h ELSE IF k < j THEN Q[k] ELSE Q[k + 1]
  <2>1. RemoveAt(H, j)[k] = IF k < j THEN H[k] ELSE H[k + 1]
    BY <1>2, <1>4
  <2>2. k \in 1 .. Len(Q) /\ k + 1 \in 1 .. Len(Q)
    BY <1>1
  <2> QED
    BY <1>2, <2>1, <2>2
<1>6. Merged(RemoveAt(H, j), Q, i, j, h)
  BY <1>2, <1>4, <1>5 DEF Merged
<1> QED
  BY <1>6 DEF H

(* Absorbing a touching range keeps the numbers and keeps the others apart. *)
LEMMA AbsorbOne ==
    ASSUME NEW Q \in Seq(Intervals), NEW i \in Nat, NEW j \in Nat,
           0 < i, i < j, j <= Len(Q),
           OthersApart(Q, i), Touches(Q[i], Q[j]),
           \A k \in i + 1 .. j - 1 : ~ Touches(Q[i], Q[k]),
           NEW P, Merged(P, Q, i, j, Hull(Q[i], Q[j]))
    PROVE  /\ Covered(P) = Covered(Q)
           /\ OthersApart(P, i)
           /\ \A k \in i + 1 .. j - 1 : ~ Touches(P[i], P[k])
<1> DEFINE h == Hull(Q[i], Q[j])
<1>0. Len(Q) \in Nat
  OBVIOUS
<1>1. /\ Q[i] \in Intervals /\ Q[j] \in Intervals
      /\ \A k \in 1 .. Len(Q) : Q[k] \in Intervals
  BY <1>0
<1>2. /\ h \in Intervals
      /\ \A x \in Nat : Holds(h, x) <=> Holds(Q[i], x) \/ Holds(Q[j], x)
      /\ \A t \in Intervals : Touches(h, t) => Touches(Q[i], t) \/ Touches(Q[j], t)
  BY <1>1, HullExact
<1>3. Merged(P, Q, i, j, h)
  OBVIOUS
<1> HIDE DEF h
<1>5. P \in Seq(Intervals) /\ Len(P) = Len(Q) - 1
  BY <1>3 DEF Merged
<1>6. \A k \in 1 .. Len(P) :
         P[k] = IF k = i THEN h ELSE IF k < j THEN Q[k] ELSE Q[k + 1]
  BY <1>3 DEF Merged
<1>7. Covered(P) = Covered(Q)
  <2>1. ASSUME NEW x \in Nat PROVE x \in Covered(P) <=> x \in Covered(Q)
    <3>1. x \in Covered(P) <=> \E k \in 1 .. Len(P) : Holds(P[k], x)
      BY <1>5, CoveredHolds
    <3>2. x \in Covered(Q) <=> \E k \in 1 .. Len(Q) : Holds(Q[k], x)
      BY CoveredHolds
    <3>3. ASSUME NEW k \in 1 .. Len(P), Holds(P[k], x)
          PROVE  \E m \in 1 .. Len(Q) : Holds(Q[m], x)
      BY <1>0, <1>2, <1>5, <1>6, <3>3
    <3>4. ASSUME NEW m \in 1 .. Len(Q), Holds(Q[m], x)
          PROVE  \E k \in 1 .. Len(P) : Holds(P[k], x)
      <4>1. CASE m \in {i, j}
        BY <1>0, <1>2, <1>5, <1>6, <3>4, <4>1
      <4>2. CASE m < j /\ m # i
        BY <1>0, <1>5, <1>6, <3>4, <4>2
      <4>3. CASE m > j
        <5>1. P[m - 1] = Q[m] /\ m - 1 \in 1 .. Len(P)
          BY <1>0, <1>5, <1>6, <4>3
        <5> QED
          BY <3>4, <5>1
      <4> QED
        BY <4>1, <4>2, <4>3
    <3> QED
      BY <3>1, <3>2, <3>3, <3>4
  <2>2. Covered(P) \subseteq Nat /\ Covered(Q) \subseteq Nat
    BY <1>5, CoveredHolds
  <2> QED
    BY <2>1, <2>2
<1>8. OthersApart(P, i)
  <2> SUFFICES ASSUME NEW k \in 1 .. Len(P), NEW m \in 1 .. Len(P), k < m, k # i
               PROVE  ~ Touches(P[k], P[m])
    BY DEF OthersApart
  <2> DEFINE k2 == IF k < j THEN k ELSE k + 1
             m2 == IF m < j THEN m ELSE m + 1
  <2>1. /\ k2 \in 1 .. Len(Q) /\ m2 \in 1 .. Len(Q) /\ k2 < m2 /\ k2 # i
        /\ P[k] = Q[k2]
        /\ m # i => P[m] = Q[m2]
    BY <1>0, <1>5, <1>6
  <2>2. CASE m # i
    BY <2>1, <2>2 DEF OthersApart
  <2>3. CASE m = i
    <3>1. k < j /\ P[k] = Q[k] /\ k \in 1 .. Len(Q) /\ P[m] = h
      BY <1>0, <1>5, <1>6, <2>3
    <3>2. ~ Touches(Q[k], Q[i]) /\ ~ Touches(Q[k], Q[j])
      BY <2>3, <3>1 DEF OthersApart
    <3>3. ~ Touches(h, Q[k])
      BY <1>1, <1>2, <3>1, <3>2, TouchesSymmetric
    <3> QED
      BY <1>1, <1>2, <3>1, <3>3, TouchesSymmetric
  <2> QED
    BY <2>2, <2>3
<1>9. ASSUME NEW k \in i + 1 .. j - 1 PROVE ~ Touches(P[i], P[k])
  <2>1. P[i] = h /\ P[k] = Q[k] /\ k \in 1 .. Len(Q) /\ k # i
    BY <1>0, <1>5, <1>6
  <2>2. ~ Touches(Q[i], Q[k]) /\ ~ Touches(Q[k], Q[j])
    BY <2>1 DEF OthersApart
  <2> QED
    BY <1>1, <1>2, <2>1, <2>2, TouchesSymmetric
<1> QED
  BY <1>7, <1>8, <1>9

LEMMA AbsorbTurnKeeps ==
    ASSUME NEW R, Len(R) \in Nat, NEW i \in Nat \ {0}, NEW scan,
           ScanOK(scan, R, i), scan.j <= Len(scan.ranges)
    PROVE  /\ ScanOK(AbsorbTurn(scan, i), R, i)
           /\ Len(AbsorbTurn(scan, i).ranges) - AbsorbTurn(scan, i).j
                 = Len(scan.ranges) - scan.j - 1
<1>1. PICK Q, j : Q = scan.ranges /\ j = scan.j
  OBVIOUS
<1>2. /\ Q \in Seq(Intervals) /\ Len(Q) \in Nat /\ i \in Nat /\ j \in Nat
      /\ 0 < i /\ i < j /\ j <= Len(Q) /\ Len(Q) <= Len(R)
      /\ Covered(Q) = Covered(R) /\ OthersApart(Q, i)
      /\ \A k \in i + 1 .. j - 1 : ~ Touches(Q[i], Q[k])
      /\ scan = [ranges |-> Q, j |-> j]
  BY <1>1 DEF ScanOK
<1>3. CASE Touches(Q[i], Q[j])
  <2> DEFINE h == Hull(Q[i], Q[j])
  <2>1. PICK P : P = RemoveAt([Q EXCEPT ![i] = h], j)
    OBVIOUS
  <2>2. AbsorbTurn(scan, i) = [ranges |-> P, j |-> j]
    BY <1>2, <1>3, <2>1 DEF AbsorbTurn
  <2>3. h \in Intervals
    <3>1. Q[i] \in Intervals /\ Q[j] \in Intervals
      BY <1>2
    <3> QED
      BY <1>3, <3>1, HullExact
  <2>4. Merged(P, Q, i, j, h)
    BY <1>2, <2>1, <2>3, AbsorbShape
  <2>5. /\ Covered(P) = Covered(Q) /\ OthersApart(P, i)
        /\ \A k \in i + 1 .. j - 1 : ~ Touches(P[i], P[k])
    BY <1>2, <1>3, <2>4, AbsorbOne
  <2>6. P \in Seq(Intervals) /\ Len(P) = Len(Q) - 1
    BY <2>4 DEF Merged
  <2> HIDE DEF h
  <2> QED
    BY <1>2, <2>2, <2>5, <2>6 DEF ScanOK
<1>4. CASE ~ Touches(Q[i], Q[j])
  <2>1. AbsorbTurn(scan, i) = [ranges |-> Q, j |-> j + 1]
    BY <1>2, <1>4 DEF AbsorbTurn
  <2>2. \A k \in i + 1 .. j : ~ Touches(Q[i], Q[k])
    BY <1>2, <1>4
  <2> QED
    BY <1>2, <2>1, <2>2 DEF ScanOK
<1> QED
  BY <1>3, <1>4

(* The inner loop leaves the same numbers in ranges that are all apart.     *)
LEMMA AbsorbSound ==
    ASSUME NEW R \in Seq(Intervals), NEW i \in 1 .. Len(R), OthersApart(R, i)
    PROVE  /\ Absorb(R, i) \in Seq(Intervals)
           /\ Len(Absorb(R, i)) <= Len(R)
           /\ Covered(Absorb(R, i)) = Covered(R)
           /\ AllApart(Absorb(R, i))
<1>1. Len(R) \in Nat /\ i \in Nat /\ i # 0 /\ i <= Len(R) /\ Len(R) - i \in Nat
  OBVIOUS
<1> DEFINE turns == AbsorbTurns(R, i)
           Good == { n \in Nat : /\ ScanOK(turns[n], R, i)
                                 /\ Len(turns[n].ranges) - turns[n].j = Len(R) - i - 1 - n }
<1>2. turns = [n \in 0 .. Len(R) - i |->
                   IF n = 0 THEN [ranges |-> R, j |-> i + 1]
                   ELSE AbsorbTurn(turns[n - 1], i)]
  BY <1>1, AbsorbTurnsDef
<1> HIDE DEF turns
<1>3. 0 \in Good
  <2>1. turns[0] = [ranges |-> R, j |-> i + 1]
    BY <1>1, <1>2
  <2> QED
    BY <1>1, <2>1 DEF ScanOK
<1>4. ASSUME NEW n \in 0 .. Len(R) - i, n # Len(R) - i, n \in Good
      PROVE  n + 1 \in Good
  <2>1. turns[n + 1] = AbsorbTurn(turns[n], i)
    BY <1>1, <1>2, <1>4
  <2>2. turns[n].j \in Nat /\ Len(turns[n].ranges) \in Nat
    BY <1>1, <1>4 DEF ScanOK
  <2>3. turns[n].j <= Len(turns[n].ranges)
    BY <1>1, <1>4, <2>2
  <2>4. /\ ScanOK(turns[n + 1], R, i)
        /\ Len(turns[n + 1].ranges) - turns[n + 1].j = Len(turns[n].ranges) - turns[n].j - 1
    BY <1>1, <1>4, <2>1, <2>3, AbsorbTurnKeeps
  <2> QED
    BY <1>1, <1>4, <2>2, <2>4
<1>5. Len(R) - i \in Good
  <2> HIDE DEF Good
  <2>1. 0 .. Len(R) - i \subseteq Good
    BY <1>1, <1>3, <1>4, Climb
  <2> QED
    BY <1>1, <2>1
<1>6. PICK last : last = turns[Len(R) - i]
  OBVIOUS
<1>7. ScanOK(last, R, i) /\ Len(last.ranges) - last.j = Len(R) - i - 1 - (Len(R) - i)
  BY <1>5, <1>6
<1>8. Absorb(R, i) = last.ranges
  BY <1>6 DEF Absorb, turns
<1>9. last.j = Len(last.ranges) + 1
  <2>1. last.j \in Nat /\ Len(last.ranges) \in Nat
    BY <1>1, <1>7 DEF ScanOK
  <2> QED
    BY <1>1, <1>7, <2>1
<1>10. AllApart(last.ranges)
  <2>1. PICK P : P = last.ranges
    OBVIOUS
  <2>2. /\ P \in Seq(Intervals) /\ OthersApart(P, i) /\ Len(P) \in Nat
        /\ \A k \in i + 1 .. Len(P) : ~ Touches(P[i], P[k])
    BY <1>7, <1>9, <2>1 DEF ScanOK
  <2>3. ASSUME NEW k \in 1 .. Len(P), NEW m \in 1 .. Len(P), k < m
        PROVE  ~ Touches(P[k], P[m]) /\ ~ Touches(P[m], P[k])
    <3>1. ~ Touches(P[k], P[m])
      BY <1>1, <2>2, <2>3 DEF OthersApart
    <3> QED
      BY <2>2, <3>1, TouchesSymmetric
  <2>4. AllApart(P)
    BY <2>2, <2>3 DEF AllApart
  <2> QED
    BY <2>1, <2>4
<1> QED
  BY <1>7, <1>8, <1>10 DEF ScanOK

(* A range that touches no later one absorbs nothing.                       *)
LEMMA AbsorbIdle ==
    ASSUME NEW R \in Seq(Intervals), NEW i \in 1 .. Len(R),
           \A k \in i + 1 .. Len(R) : ~ Touches(R[i], R[k])
    PROVE  Absorb(R, i) = R
<1>1. Len(R) \in Nat /\ i \in Nat /\ i <= Len(R) /\ Len(R) - i \in Nat
  OBVIOUS
<1> DEFINE turns == AbsorbTurns(R, i)
           Good == { n \in Nat : turns[n] = [ranges |-> R, j |-> i + 1 + n] }
<1>2. turns = [n \in 0 .. Len(R) - i |->
                   IF n = 0 THEN [ranges |-> R, j |-> i + 1]
                   ELSE AbsorbTurn(turns[n - 1], i)]
  BY <1>1, AbsorbTurnsDef
<1> HIDE DEF turns
<1>3. 0 \in Good
  BY <1>1, <1>2
<1>4. ASSUME NEW n \in 0 .. Len(R) - i, n # Len(R) - i, n \in Good
      PROVE  n + 1 \in Good
  <2>1. turns[n + 1] = AbsorbTurn([ranges |-> R, j |-> i + 1 + n], i)
    BY <1>1, <1>2, <1>4
  <2>2. ~ Touches(R[i], R[i + 1 + n])
    BY <1>1, <1>4
  <2>3. AbsorbTurn([ranges |-> R, j |-> i + 1 + n], i) = [ranges |-> R, j |-> i + 1 + n + 1]
    BY <2>2 DEF AbsorbTurn
  <2>4. i + 1 + n + 1 = i + 1 + (n + 1)
    BY <1>1
  <2> QED
    BY <2>1, <2>3, <2>4
<1>5. Len(R) - i \in Good
  <2> HIDE DEF Good
  <2>1. 0 .. Len(R) - i \subseteq Good
    BY <1>1, <1>3, <1>4, Climb
  <2> QED
    BY <1>1, <2>1
<1> QED
  BY <1>5 DEF Absorb, turns

LEMMA CoalesceTurnsDef ==
    ASSUME NEW ranges, Len(ranges) \in Nat
    PROVE  CoalesceTurns(ranges) =
               [n \in 0 .. Len(ranges) |->
                   IF n = 0 THEN ranges ELSE CoalesceTurn(CoalesceTurns(ranges)[n - 1], n)]
<1> DEFINE Follows(g, m) == g = [n \in 0 .. m |-> IF n = 0 THEN ranges
                                                  ELSE CoalesceTurn(g[n - 1], n)]
           Has == { m \in Nat : \E g : Follows(g, m) }
<1>1. 0 \in Has
  <2> DEFINE g == [n \in 0 .. 0 |-> ranges]
  <2>1. Follows(g, 0)
    OBVIOUS
  <2> QED
    BY <2>1
<1>2. ASSUME NEW m \in 0 .. Len(ranges), m \in Has PROVE m + 1 \in Has
  <2>1. PICK g : Follows(g, m)
    BY <1>2
  <2> DEFINE h == [n \in 0 .. m + 1 |-> IF n = m + 1 THEN CoalesceTurn(g[m], n) ELSE g[n]]
  <2>2. \A n \in 0 .. m : g[n] = IF n = 0 THEN ranges ELSE CoalesceTurn(g[n - 1], n)
    BY <2>1
  <2>3. Follows(h, m + 1)
    <3>1. ASSUME NEW n \in 0 .. m + 1
          PROVE  h[n] = IF n = 0 THEN ranges ELSE CoalesceTurn(h[n - 1], n)
      <4>1. CASE n = m + 1
        BY <4>1
      <4>2. CASE n \in 0 .. m
        <5>1. h[n] = g[n] /\ (n # 0 => h[n - 1] = g[n - 1])
          BY <4>2
        <5> QED
          BY <5>1, <4>2, <2>2
      <4> QED
        BY <4>1, <4>2
    <3> HIDE DEF h
    <3>2. h = [n \in 0 .. m + 1 |-> h[n]]
      BY DEF h
    <3> QED
      BY <3>1, <3>2
  <2> HIDE DEF Follows, h
  <2> QED
    BY <2>3
<1>3. Len(ranges) \in Has
  <2> HIDE DEF Has
  <2>1. 0 .. Len(ranges) \subseteq Has
    BY <1>1, <1>2, Climb
  <2> QED
    BY <2>1
<1>4. PICK g : Follows(g, Len(ranges))
  BY <1>3
<1> QED
  BY <1>4 DEF CoalesceTurns

(* Where only range i touches later ones, the loops have work at i alone.   *)
LEMMA CoalesceSound ==
    ASSUME NEW R \in Seq(Intervals), NEW i \in 1 .. Len(R), OthersApart(R, i)
    PROVE  /\ Coalesce(R) \in Seq(Intervals)
           /\ Len(Coalesce(R)) <= Len(R)
           /\ Covered(Coalesce(R)) = Covered(R)
           /\ AllApart(Coalesce(R))
<1>1. Len(R) \in Nat /\ i \in Nat /\ 0 < i /\ i <= Len(R)
  OBVIOUS
<1>2. PICK P : P = Absorb(R, i)
  OBVIOUS
<1>3. /\ P \in Seq(Intervals) /\ Len(P) \in Nat /\ Len(P) <= Len(R)
      /\ Covered(P) = Covered(R) /\ AllApart(P)
  BY <1>2, AbsorbSound
<1> DEFINE turns == CoalesceTurns(R)
           Good == { n \in Nat : turns[n] = IF n < i THEN R ELSE P }
<1>4. turns = [n \in 0 .. Len(R) |-> IF n = 0 THEN R ELSE CoalesceTurn(turns[n - 1], n)]
  BY <1>1, CoalesceTurnsDef
<1> HIDE DEF turns
<1>5. 0 \in Good
  BY <1>1, <1>4
<1>6. ASSUME NEW n \in 0 .. Len(R), n # Len(R), n \in Good
      PROVE  n + 1 \in Good
  <2>1. turns[n + 1] = CoalesceTurn(turns[n], n + 1)
    BY <1>1, <1>4, <1>6
  <2>2. n + 1 \in 1 .. Len(R)
    BY <1>1, <1>6
  <2>3. CASE n + 1 < i
    <3>1. \A k \in n + 1 + 1 .. Len(R) : ~ Touches(R[n + 1], R[k])
      BY <1>1, <2>2, <2>3 DEF OthersApart
    <3>2. Absorb(R, n + 1) = R
      BY <2>2, <3>1, AbsorbIdle
    <3>3. turns[n] = R /\ ~ (n + 1 > Len(R))
      BY <1>1, <1>6, <2>3
    <3> QED
      BY <1>6, <2>1, <2>3, <3>2, <3>3 DEF CoalesceTurn
  <2>4. CASE n + 1 = i
    BY <1>1, <1>2, <1>6, <2>1, <2>4 DEF CoalesceTurn
  <2>5. CASE n + 1 > i
    <3>1. turns[n] = P
      BY <1>1, <1>6, <2>5
    <3>2. ASSUME ~ (n + 1 > Len(P)) PROVE Absorb(P, n + 1) = P
      <4>1. n + 1 \in 1 .. Len(P)
        BY <1>3, <3>2
      <4>2. \A k \in n + 1 + 1 .. Len(P) : ~ Touches(P[n + 1], P[k])
        BY <1>3, <4>1 DEF AllApart
      <4> QED
        BY <1>3, <4>1, <4>2, AbsorbIdle
    <3>3. turns[n + 1] = P
      BY <2>1, <3>1, <3>2 DEF CoalesceTurn
    <3> QED
      BY <1>1, <2>5, <3>3
  <2> QED
    BY <1>1, <2>3, <2>4, <2>5
<1>7. Len(R) \in Good
  <2> HIDE DEF Good
  <2>1. 0 .. Len(R) \subseteq Good
    BY <1>1, <1>5, <1>6, Climb
  <2> QED
    BY <1>1, <2>1
<1>8. Coalesce(R) = P
  BY <1>1, <1>7 DEF Coalesce, turns
<1> QED
  BY <1>3, <1>8

-----------------------------------------------------------------------------
(* Noting a number. *)
AckStates ==
    { a \in [pending : BOOLEAN, epoch : Nat, ranges : Seq(Intervals), capacity : Nat] :
        Len(a.ranges) <= a.capacity /\ AllApart(a.ranges) }

(* The state that notes seq keeps the form of a; of the numbers it drops    *)
(* some only if the array is at its limit and seq touches no range of it.   *)
Noted(b, a, limit, epoch, seq, alloc_ok) ==
    LET continues == a.pending /\ a.ranges # << >> /\ a.epoch = epoch
        old == IF continues THEN Covered(a.ranges) ELSE {}
    IN  /\ b \in AckStates
        /\ b.pending = a.pending
        /\ b.epoch \in {a.epoch, epoch}
        /\ Covered(b.ranges) \subseteq old \cup {seq}
        /\ alloc_ok => seq \in Covered(b.ranges)
        /\ alloc_ok => \/ Covered(b.ranges) = old \cup {seq}
                       \/ /\ continues
                          /\ Len(a.ranges) >= limit
                          /\ \A i \in 1 .. Len(a.ranges) : ~ Touches(a.ranges[i], Span(seq, seq))

LEMMA SpanHolds ==
    ASSUME NEW seq \in Nat
    PROVE  Span(seq, seq) \in Intervals /\ \A x \in Nat : Holds(Span(seq, seq), x) <=> x = seq
BY DEF Span, Intervals, Holds

Untouched(R, seq) == \A i \in 1 .. Len(R) : ~ Touches(R[i], Span(seq, seq))

LEMMA AppendNumber ==
    ASSUME NEW R \in Seq(Intervals), AllApart(R), NEW seq \in Nat, Untouched(R, seq)
    PROVE  /\ Append(R, Span(seq, seq)) \in Seq(Intervals)
           /\ Len(Append(R, Span(seq, seq))) = Len(R) + 1
           /\ AllApart(Append(R, Span(seq, seq)))
           /\ Covered(Append(R, Span(seq, seq))) = Covered(R) \cup {seq}
<1>1. PICK t : t = Span(seq, seq)
  OBVIOUS
<1>2. /\ t \in Intervals /\ \A x \in Nat : Holds(t, x) <=> x = seq
      /\ \A i \in 1 .. Len(R) : ~ Touches(R[i], t)
  BY <1>1, SpanHolds DEF Untouched
<1>3. PICK P : P = Append(R, t)
  OBVIOUS
<1>4. /\ P \in Seq(Intervals) /\ Len(R) \in Nat /\ Len(P) = Len(R) + 1
      /\ P[Len(R) + 1] = t /\ \A i \in 1 .. Len(R) : P[i] = R[i]
  BY <1>2, <1>3
<1>5. AllApart(P)
  <2>1. ASSUME NEW k \in 1 .. Len(P), NEW m \in 1 .. Len(P), k < m
        PROVE  ~ Touches(P[k], P[m])
    BY <1>2, <1>4, <2>1 DEF AllApart
  <2>2. ASSUME NEW k \in 1 .. Len(P), NEW m \in 1 .. Len(P), k # m
        PROVE  ~ Touches(P[k], P[m])
    <3>1. CASE k < m
      BY <2>1, <3>1
    <3>2. CASE m < k
      BY <1>4, <2>1, <3>2, TouchesSymmetric
    <3> QED
      BY <1>4, <2>2, <3>1, <3>2
  <2> QED
    BY <2>2 DEF AllApart
<1>6. Covered(P) = Covered(R) \cup {seq}
  <2>1. ASSUME NEW x \in Nat PROVE x \in Covered(P) <=> x \in Covered(R) \/ x = seq
    <3>1. x \in Covered(P) <=> \E k \in 1 .. Len(P) : Holds(P[k], x)
      BY <1>4, CoveredHolds
    <3>2. x \in Covered(R) <=> \E k \in 1 .. Len(R) : Holds(R[k], x)
      BY CoveredHolds
    <3>3. (\E k \in 1 .. Len(P) : Holds(P[k], x))
             <=> (\E k \in 1 .. Len(R) : Holds(R[k], x)) \/ Holds(t, x)
      BY <1>4
    <3> QED
      BY <1>2, <3>1, <3>2, <3>3
  <2>2. Covered(P) \subseteq Nat /\ Covered(R) \subseteq Nat
    BY <1>4, CoveredHolds
  <2> QED
    BY <2>1, <2>2
<1> QED
  BY <1>1, <1>3, <1>4, <1>5, <1>6

LEMMA DropFirst ==
    ASSUME NEW R \in Seq(Intervals), R # << >>, AllApart(R)
    PROVE  /\ Tail(R) \in Seq(Intervals) /\ Len(Tail(R)) = Len(R) - 1
           /\ AllApart(Tail(R))
           /\ Covered(Tail(R)) \subseteq Covered(R)
           /\ \A seq : Untouched(R, seq) => Untouched(Tail(R), seq)
<1>1. PICK P : P = Tail(R)
  OBVIOUS
<1>2. /\ P \in Seq(Intervals) /\ Len(R) \in Nat /\ Len(P) = Len(R) - 1
      /\ \A i \in 1 .. Len(P) : P[i] = R[i + 1]
  BY <1>1
<1>3. AllApart(P)
  BY <1>2 DEF AllApart
<1>4. Covered(P) \subseteq Covered(R)
  <2>1. ASSUME NEW x \in Nat, x \in Covered(P) PROVE x \in Covered(R)
    <3>1. PICK k \in 1 .. Len(P) : Holds(P[k], x)
      BY <1>2, <2>1, CoveredHolds
    <3>2. k + 1 \in 1 .. Len(R) /\ Holds(R[k + 1], x)
      BY <1>2, <3>1
    <3> QED
      BY <3>2, CoveredHolds
  <2> QED
    BY <1>2, <2>1, CoveredHolds
<1>5. \A seq : Untouched(R, seq) => Untouched(P, seq)
  BY <1>2 DEF Untouched
<1> QED
  BY <1>1, <1>2, <1>3, <1>4, <1>5

LEMMA WidenFirst ==
    ASSUME NEW R \in Seq(Intervals), AllApart(R), NEW seq \in Nat,
           NEW i \in 1 .. Len(R), Touches(R[i], Span(seq, seq)),
           \A k \in 1 .. Len(R) : k < i => ~ Touches(R[k], Span(seq, seq)),
           NEW P, P = [R EXCEPT ![i] = Hull(R[i], Span(seq, seq))]
    PROVE  /\ P \in Seq(Intervals) /\ Len(P) = Len(R)
           /\ OthersApart(P, i)
           /\ Covered(P) = Covered(R) \cup {seq}
<1>1. PICK t, h : t = Span(seq, seq) /\ h = Hull(R[i], t)
  OBVIOUS
<1>2. /\ t \in Intervals /\ \A x \in Nat : Holds(t, x) <=> x = seq
      /\ \A k \in 1 .. Len(R) : k < i => ~ Touches(R[k], t)
      /\ Touches(R[i], t)
  BY <1>1, SpanHolds
<1>3. \A k \in 1 .. Len(R) : R[k] \in Intervals
  OBVIOUS
<1>4. /\ h \in Intervals
      /\ \A x \in Nat : Holds(h, x) <=> Holds(R[i], x) \/ Holds(t, x)
      /\ \A u \in Intervals : Touches(h, u) => Touches(R[i], u) \/ Touches(t, u)
  BY <1>1, <1>2, <1>3, HullExact
<1>5. /\ P \in Seq(Intervals) /\ Len(P) = Len(R) /\ Len(R) \in Nat
      /\ P[i] = h /\ \A k \in 1 .. Len(R) : k # i => P[k] = R[k]
  BY <1>1, <1>4
<1>6. OthersApart(P, i)
  <2>1. ASSUME NEW k \in 1 .. Len(P), NEW m \in 1 .. Len(P), k < m, k # i
        PROVE  ~ Touches(P[k], P[m])
    <3>1. CASE m # i
      BY <1>5, <2>1, <3>1 DEF AllApart
    <3>2. CASE m = i
      <4>1. ~ Touches(R[i], R[k]) /\ ~ Touches(R[k], t)
        BY <1>2, <1>5, <2>1, <3>2 DEF AllApart
      <4>2. ~ Touches(h, R[k])
        BY <1>2, <1>3, <1>4, <1>5, <4>1, TouchesSymmetric
      <4> QED
        BY <1>3, <1>4, <1>5, <2>1, <3>2, <4>2, TouchesSymmetric
    <3> QED
      BY <3>1, <3>2
  <2> QED
    BY <2>1 DEF OthersApart
<1>7. Covered(P) = Covered(R) \cup {seq}
  <2>1. ASSUME NEW x \in Nat PROVE x \in Covered(P) <=> x \in Covered(R) \/ x = seq
    <3>1. x \in Covered(P) <=> \E k \in 1 .. Len(P) : Holds(P[k], x)
      BY <1>5, CoveredHolds
    <3>2. x \in Covered(R) <=> \E k \in 1 .. Len(R) : Holds(R[k], x)
      BY CoveredHolds
    <3>3. (\E k \in 1 .. Len(P) : Holds(P[k], x))
             <=> (\E k \in 1 .. Len(R) : Holds(R[k], x)) \/ Holds(t, x)
      BY <1>4, <1>5
    <3> QED
      BY <1>2, <3>1, <3>2, <3>3
  <2>2. Covered(P) \subseteq Nat /\ Covered(R) \subseteq Nat
    BY <1>5, CoveredHolds
  <2> QED
    BY <2>1, <2>2
<1> QED
  BY <1>5, <1>6, <1>7

LEMMA LeastNat ==
    ASSUME NEW T, T \subseteq Nat, T # {}
    PROVE  \E k \in T : \A i \in T : k <= i
<1>1. PICK k \in T : \A i \in T : ~ (<<i, k>> \in OpToRel(<, Nat))
  BY NatLessThanWellFounded, WFMin, Zenon
<1>2. \A i \in T : ~ (i < k)
  BY <1>1 DEF OpToRel
<1> QED
  BY <1>2

(* The array when a number touches none of its ranges.                      *)
Appended(b, a, limit, seq, alloc_ok) ==
    /\ b \in AckStates /\ b.ranges # << >>
    /\ b.pending = a.pending /\ b.epoch = a.epoch
    /\ Covered(b.ranges) \subseteq Covered(a.ranges) \cup {seq}
    /\ alloc_ok => seq \in Covered(b.ranges)
    /\ alloc_ok => \/ Covered(b.ranges) = Covered(a.ranges) \cup {seq}
                   \/ Len(a.ranges) >= limit

LEMMA AppendRangeSound ==
    ASSUME NEW a \in AckStates, a.ranges # << >>, NEW limit \in Nat \ {0},
           NEW seq \in Nat, NEW alloc_ok \in BOOLEAN, Untouched(a.ranges, seq),
           NEW b, b = AppendRange(a, limit, Span(seq, seq), alloc_ok)
    PROVE  Appended(b, a, limit, seq, alloc_ok)
<1> USE DEF Appended
<1>1. PICK R, P, Q : /\ R = a.ranges /\ P = Append(R, Span(seq, seq))
                     /\ Q = Append(Tail(R), Span(seq, seq))
  OBVIOUS
<1>2. /\ R \in Seq(Intervals) /\ AllApart(R) /\ R # << >> /\ Len(R) \in Nat
      /\ a.capacity \in Nat /\ Len(R) <= a.capacity /\ Untouched(R, seq)
      /\ a.pending \in BOOLEAN /\ a.epoch \in Nat
  BY <1>1 DEF AckStates
<1>3. a \in [pending : BOOLEAN, epoch : Nat, ranges : Seq(Intervals), capacity : Nat]
  BY DEF AckStates
<1>4. /\ P \in Seq(Intervals) /\ Len(P) = Len(R) + 1 /\ AllApart(P)
      /\ Covered(P) = Covered(R) \cup {seq}
  BY <1>1, <1>2, AppendNumber
<1>5. /\ Tail(R) \in Seq(Intervals) /\ Len(Tail(R)) = Len(R) - 1 /\ AllApart(Tail(R))
      /\ Covered(Tail(R)) \subseteq Covered(R) /\ Untouched(Tail(R), seq)
  BY <1>2, DropFirst
<1>6. /\ Q \in Seq(Intervals) /\ Len(Q) = Len(R) - 1 + 1 /\ AllApart(Q)
      /\ Covered(Q) = Covered(Tail(R)) \cup {seq}
  BY <1>1, <1>5, AppendNumber
<1>7. P # << >> /\ Q # << >>
  BY <1>1, <1>2, <1>4, <1>6
<1>8. CASE ~ (Len(R) >= a.capacity)
  <2>1. b = [a EXCEPT !.ranges = P]
    BY <1>1, <1>8 DEF AppendRange
  <2>2. /\ b \in [pending : BOOLEAN, epoch : Nat, ranges : Seq(Intervals), capacity : Nat]
        /\ b.ranges = P /\ b.capacity = a.capacity
        /\ b.pending = a.pending /\ b.epoch = a.epoch
    BY <1>3, <1>4, <2>1
  <2>3. b \in AckStates
    BY <1>2, <1>4, <1>8, <2>2 DEF AckStates
  <2> QED
    BY <1>1, <1>4, <1>7, <2>2, <2>3
<1>9. CASE Len(R) >= a.capacity /\ a.capacity >= limit
  <2>1. b = [a EXCEPT !.ranges = Q]
    BY <1>1, <1>2, <1>9 DEF AppendRange
  <2>2. /\ b \in [pending : BOOLEAN, epoch : Nat, ranges : Seq(Intervals), capacity : Nat]
        /\ b.ranges = Q /\ b.capacity = a.capacity
        /\ b.pending = a.pending /\ b.epoch = a.epoch
    BY <1>3, <1>6, <2>1
  <2>3. b \in AckStates
    BY <1>2, <1>6, <1>9, <2>2 DEF AckStates
  <2>4. Len(R) >= limit
    BY <1>2, <1>9
  <2> QED
    BY <1>1, <1>5, <1>6, <1>7, <2>2, <2>3, <2>4
<1>10. CASE Len(R) >= a.capacity /\ ~ (a.capacity >= limit) /\ alloc_ok
  <2>1. a.capacity < limit /\ Smaller(2 * a.capacity, limit) \in Nat
        /\ Len(P) <= Smaller(2 * a.capacity, limit)
    <3>1. Len(R) # 0
      BY <1>2
    <3> QED
      BY <1>2, <1>4, <1>10, <3>1 DEF Smaller
  <2>2. b = [a EXCEPT !.ranges = P, !.capacity = Smaller(2 * a.capacity, limit)]
    BY <1>1, <1>10, <2>1 DEF AppendRange
  <2>3. /\ b \in [pending : BOOLEAN, epoch : Nat, ranges : Seq(Intervals), capacity : Nat]
        /\ b.ranges = P /\ b.capacity = Smaller(2 * a.capacity, limit)
        /\ b.pending = a.pending /\ b.epoch = a.epoch
    BY <1>3, <1>4, <2>1, <2>2
  <2>4. b \in AckStates
    BY <1>4, <2>1, <2>3 DEF AckStates
  <2> QED
    BY <1>1, <1>4, <1>7, <2>3, <2>4
<1>11. CASE Len(R) >= a.capacity /\ ~ (a.capacity >= limit) /\ ~ alloc_ok
  <2>1. b = a
    BY <1>1, <1>11 DEF AppendRange
  <2> QED
    BY <1>1, <1>2, <1>11, <2>1
<1> QED
  BY <1>8, <1>9, <1>10, <1>11

(* What dtls_ack_range_add does to the array.                               *)
LEMMA AckRangeAddSound ==
    ASSUME NEW a \in AckStates, NEW limit \in Nat \ {0}, InitialCapacity \in Nat \ {0},
           NEW epoch \in Nat, NEW seq \in Nat, NEW alloc_ok \in BOOLEAN
    PROVE  Noted(AckRangeAdd(a, limit, epoch, seq, alloc_ok), a, limit, epoch, seq, alloc_ok)
<1>1. PICK b : b = AckRangeAdd(a, limit, epoch, seq, alloc_ok)
  OBVIOUS
<1> DEFINE continues == a.pending /\ a.ranges # << >> /\ a.epoch = epoch
<1>2. /\ a \in [pending : BOOLEAN, epoch : Nat, ranges : Seq(Intervals), capacity : Nat]
      /\ Len(a.ranges) <= a.capacity /\ AllApart(a.ranges) /\ Len(a.ranges) \in Nat
  BY DEF AckStates
<1>3. a.ranges # << >> => a.capacity # 0
  BY <1>2
<1>4. CASE a.capacity = 0 /\ ~ alloc_ok
  <2>1. b = [a EXCEPT !.ranges = << >>]
    BY <1>1, <1>4 DEF AckRangeAdd
  <2>2. /\ b \in [pending : BOOLEAN, epoch : Nat, ranges : Seq(Intervals), capacity : Nat]
        /\ b.ranges = << >> /\ b.capacity = 0 /\ b.pending = a.pending /\ b.epoch = a.epoch
    BY <1>2, <1>4, <2>1
  <2>3. b \in AckStates
    BY <2>2 DEF AckStates, AllApart
  <2>4. Covered(b.ranges) = {}
    BY <2>2 DEF Covered
  <2> QED
    BY <1>1, <1>4, <2>2, <2>3, <2>4 DEF Noted
<1>5. CASE ~ (a.capacity = 0 /\ ~ alloc_ok) /\ ~ continues
  <2>1. PICK t : t = <<Span(seq, seq)>>
    OBVIOUS
  <2>2. /\ t \in Seq(Intervals) /\ Len(t) = 1 /\ AllApart(t) /\ Covered(t) = {seq}
    <3>1. PICK none : none = << >>
      OBVIOUS
    <3>2. none \in Seq(Intervals) /\ Len(none) = 0 /\ t = Append(none, Span(seq, seq))
      BY <2>1, <3>1
    <3>3. AllApart(none) /\ Untouched(none, seq) /\ Covered(none) = {}
      BY <3>1 DEF AllApart, Untouched, Covered
    <3>4. /\ Append(none, Span(seq, seq)) \in Seq(Intervals)
          /\ Len(Append(none, Span(seq, seq))) = Len(none) + 1
          /\ AllApart(Append(none, Span(seq, seq)))
          /\ Covered(Append(none, Span(seq, seq))) = Covered(none) \cup {seq}
      BY <3>2, <3>3, AppendNumber
    <3> QED
      BY <3>2, <3>3, <3>4
  <2>3. PICK c : c = IF a.capacity = 0 THEN Smaller(limit, InitialCapacity) ELSE a.capacity
    OBVIOUS
  <2>4. c \in Nat /\ 1 <= c
    BY <1>2, <2>3 DEF Smaller
  <2>5. b = [a EXCEPT !.capacity = c, !.epoch = epoch, !.ranges = t]
    BY <1>1, <1>2, <1>5, <2>1, <2>3 DEF AckRangeAdd
  <2>6. /\ b \in [pending : BOOLEAN, epoch : Nat, ranges : Seq(Intervals), capacity : Nat]
        /\ b.ranges = t /\ b.capacity = c /\ b.pending = a.pending /\ b.epoch = epoch
    BY <1>2, <2>2, <2>4, <2>5
  <2>7. b \in AckStates
    BY <2>2, <2>4, <2>6 DEF AckStates
  <2> QED
    BY <1>1, <1>5, <2>2, <2>6, <2>7 DEF Noted
<1>6. CASE continues
  <2> DEFINE touching == { i \in DOMAIN a.ranges : Touches(a.ranges[i], Span(seq, seq)) }
             first == CHOOSE i \in touching : \A j \in touching : i <= j
  <2> HIDE DEF touching, first
  <2>1. PICK d : d = IF touching # {}
                     THEN [a EXCEPT !.ranges[first] = Hull(@, Span(seq, seq))]
                     ELSE AppendRange(a, limit, Span(seq, seq), alloc_ok)
    OBVIOUS
  <2>2. b = [d EXCEPT !.ranges = Coalesce(@)]
    BY <1>1, <1>3, <1>6, <2>1 DEF AckRangeAdd, touching, first
  <2>3. /\ d \in [pending : BOOLEAN, epoch : Nat, ranges : Seq(Intervals), capacity : Nat]
        /\ Len(d.ranges) <= d.capacity
        /\ d.pending = a.pending /\ d.epoch = a.epoch
        /\ \E i \in 1 .. Len(d.ranges) : OthersApart(d.ranges, i)
        /\ Covered(d.ranges) \subseteq Covered(a.ranges) \cup {seq}
        /\ alloc_ok => seq \in Covered(d.ranges)
        /\ alloc_ok => \/ Covered(d.ranges) = Covered(a.ranges) \cup {seq}
                       \/ Len(a.ranges) >= limit /\ Untouched(a.ranges, seq)
    <3>1. CASE touching # {}
      <4>1. touching \subseteq 1 .. Len(a.ranges) /\ touching \subseteq Nat
        BY <1>2 DEF touching
      <4>2. PICK i : i = first
        OBVIOUS
      <4>3. i \in touching /\ \A j \in touching : i <= j
        BY <3>1, <4>1, <4>2, LeastNat DEF first
      <4>4. PICK P : P = [a.ranges EXCEPT ![i] = Hull(a.ranges[i], Span(seq, seq))]
        OBVIOUS
      <4>5. d = [a EXCEPT !.ranges = P]
        BY <1>2, <2>1, <3>1, <4>2, <4>4
      <4>6. \A k \in 1 .. Len(a.ranges) : k < i => ~ Touches(a.ranges[k], Span(seq, seq))
        BY <1>2, <4>1, <4>3 DEF touching
      <4>7. i \in 1 .. Len(a.ranges) /\ Touches(a.ranges[i], Span(seq, seq))
        BY <4>1, <4>3 DEF touching
      <4>8. /\ P \in Seq(Intervals) /\ Len(P) = Len(a.ranges) /\ OthersApart(P, i)
            /\ Covered(P) = Covered(a.ranges) \cup {seq}
        BY <1>2, <4>4, <4>6, <4>7, WidenFirst
      <4> QED
        BY <1>2, <4>5, <4>7, <4>8
    <3>2. CASE touching = {}
      <4>1. Untouched(a.ranges, seq)
        BY <1>2, <3>2 DEF Untouched, touching
      <4>2. d = AppendRange(a, limit, Span(seq, seq), alloc_ok)
        BY <2>1, <3>2
      <4>3. /\ d \in AckStates /\ d.ranges # << >>
            /\ d.pending = a.pending /\ d.epoch = a.epoch
            /\ Covered(d.ranges) \subseteq Covered(a.ranges) \cup {seq}
            /\ alloc_ok => seq \in Covered(d.ranges)
            /\ alloc_ok => \/ Covered(d.ranges) = Covered(a.ranges) \cup {seq}
                           \/ Len(a.ranges) >= limit
        <5>1. a.ranges # << >>
          BY <1>6
        <5>2. Appended(d, a, limit, seq, alloc_ok)
          BY <4>1, <4>2, <5>1, AppendRangeSound
        <5> QED
          BY <5>2 DEF Appended
      <4>4. /\ d \in [pending : BOOLEAN, epoch : Nat, ranges : Seq(Intervals), capacity : Nat]
            /\ Len(d.ranges) <= d.capacity /\ AllApart(d.ranges)
        BY <4>3 DEF AckStates
      <4>5. 1 \in 1 .. Len(d.ranges)
        BY <4>3, <4>4
      <4>6. OthersApart(d.ranges, 1)
        BY <4>4 DEF OthersApart, AllApart
      <4> QED
        BY <4>1, <4>3, <4>4, <4>5, <4>6
    <3> QED
      BY <3>1, <3>2
  <2>4. PICK i \in 1 .. Len(d.ranges) : OthersApart(d.ranges, i)
    BY <2>3
  <2>5. PICK P : P = Coalesce(d.ranges)
    OBVIOUS
  <2>6. /\ P \in Seq(Intervals) /\ Len(P) <= Len(d.ranges) /\ Len(P) \in Nat
        /\ Covered(P) = Covered(d.ranges) /\ AllApart(P)
    BY <2>3, <2>4, <2>5, CoalesceSound
  <2>7. /\ b \in [pending : BOOLEAN, epoch : Nat, ranges : Seq(Intervals), capacity : Nat]
        /\ b.ranges = P /\ b.capacity = d.capacity
        /\ b.pending = d.pending /\ b.epoch = d.epoch
    BY <2>2, <2>3, <2>5, <2>6
  <2>8. b \in AckStates
    BY <2>3, <2>6, <2>7 DEF AckStates
  <2> QED
    BY <1>1, <1>6, <2>3, <2>6, <2>7, <2>8 DEF Noted, Untouched
<1> QED
  BY <1>4, <1>5, <1>6

-----------------------------------------------------------------------------
(* AckTracking *)

(* The inductive invariant: the array is one the lemmas above speak of,    *)
(* and its numbers are among those owed, all of them unless memory or the  *)
(* limit pressed.                                                          *)
AckInv ==
    /\ ack_state \in AckStates
    /\ ack_state.epoch \in Epochs \cup {0}
    /\ ack_range_limit \in Limits
    /\ owed \subseteq Seqs
    /\ pressed \in BOOLEAN
    /\ AckedWereReceived
    /\ NothingForgotten

LEMMA ConstantFacts ==
    /\ InitialCapacity \in Nat \ {0} /\ LastSeq \in Nat
    /\ Limits \subseteq Nat \ {0} /\ Epochs \subseteq Nat
    /\ Seqs \subseteq Nat /\ IsFiniteSet(Seqs)
<1>1. /\ InitialCapacity \in Nat \ {0} /\ LastSeq \in Nat
      /\ Limits \subseteq Nat \ {0} /\ Epochs \subseteq Nat
  BY AckAssumption
<1>2. IsFiniteSet(0 .. LastSeq)
  BY <1>1, FS_Interval
<1> QED
  BY <1>1, <1>2 DEF Seqs

(* Ranges that are apart need one run each: the number of runs of what     *)
(* they cover is at least the length of the array.                         *)
LEMMA RunsAtLeast ==
    ASSUME NEW P \in Seq(Intervals), AllApart(P), IsFiniteSet(Covered(P))
    PROVE  Runs(Covered(P)) \in Nat /\ Len(P) <= Runs(Covered(P))
<1> DEFINE starts == { n \in Covered(P) : n - 1 \notin Covered(P) }
           f == [i \in 1 .. Len(P) |-> P[i].min]
<1>1. Len(P) \in Nat /\ \A i \in 1 .. Len(P) : P[i] \in Intervals
  OBVIOUS
<1>2. IsFiniteSet(starts) /\ Runs(Covered(P)) = Cardinality(starts)
  <2>1. starts \subseteq Covered(P)
    OBVIOUS
  <2>2. IsFiniteSet(starts)
    BY <2>1, FS_Subset
  <2> QED
    BY <2>2 DEF Runs
<1>3. Cardinality(starts) \in Nat
  BY <1>2, FS_CardinalityType
<1>4. ASSUME NEW i \in 1 .. Len(P) PROVE P[i].min \in starts
  <2>1. P[i].min \in Nat /\ Holds(P[i], P[i].min)
    BY <1>1 DEF Intervals, Holds
  <2>2. P[i].min \in Covered(P)
    BY <2>1, CoveredHolds
  <2>3. ASSUME P[i].min - 1 \in Covered(P) PROVE FALSE
    <3>1. P[i].min - 1 \in Nat
      BY <2>3, CoveredHolds
    <3>2. PICK k \in 1 .. Len(P) : Holds(P[k], P[i].min - 1)
      BY <2>3, <3>1, CoveredHolds
    <3>3. k # i
      BY <1>1, <3>2 DEF Holds, Intervals
    <3>4. Touches(P[k], P[i])
      BY <1>1, <3>2 DEF Holds, Intervals, Touches
    <3> QED
      BY <3>3, <3>4 DEF AllApart
  <2> QED
    BY <2>2, <2>3
<1>5. f \in [1 .. Len(P) -> starts]
  BY <1>4
<1>6. ASSUME NEW i \in 1 .. Len(P), NEW k \in 1 .. Len(P), i # k PROVE f[i] # f[k]
  <2>1. ASSUME P[i].min = P[k].min PROVE Touches(P[i], P[k])
    BY <1>1, <2>1 DEF Intervals, Touches
  <2> QED
    BY <1>6, <2>1 DEF AllApart
<1> HIDE DEF f, starts
<1>7. IsFiniteSet(1 .. Len(P)) /\ Cardinality(1 .. Len(P)) = Len(P)
  <2>1. Cardinality(1 .. Len(P)) = IF 1 > Len(P) THEN 0 ELSE Len(P) - 1 + 1
    BY <1>1, FS_Interval
  <2>2. IsFiniteSet(1 .. Len(P))
    BY <1>1, FS_Interval
  <2> QED
    BY <1>1, <2>1, <2>2
<1>8. ~ (Cardinality(starts) < Len(P))
  BY <1>2, <1>5, <1>6, <1>7, FS_PigeonHole
<1> QED
  BY <1>1, <1>2, <1>3, <1>8

(* An array moved to a smaller one keeps its first ranges.                 *)
LEMMA Shortened ==
    ASSUME NEW R \in Seq(Intervals), AllApart(R), NEW n \in 0 .. Len(R)
    PROVE  /\ SubSeq(R, 1, n) \in Seq(Intervals) /\ Len(SubSeq(R, 1, n)) = n
           /\ AllApart(SubSeq(R, 1, n))
           /\ Covered(SubSeq(R, 1, n)) \subseteq Covered(R)
<1>1. PICK P : P = SubSeq(R, 1, n)
  OBVIOUS
<1>2. P \in Seq(Intervals) /\ Len(P) = n /\ Len(R) \in Nat /\ \A i \in 1 .. n : P[i] = R[i]
  BY <1>1
<1>3. AllApart(P)
  BY <1>2 DEF AllApart
<1>4. Covered(P) \subseteq Covered(R)
  <2>1. ASSUME NEW x \in Nat, x \in Covered(P) PROVE x \in Covered(R)
    <3>1. PICK k \in 1 .. Len(P) : Holds(P[k], x)
      BY <1>2, <2>1, CoveredHolds
    <3>2. k \in 1 .. Len(R) /\ Holds(R[k], x)
      BY <1>2, <3>1
    <3> QED
      BY <3>2, CoveredHolds
  <2> QED
    BY <1>2, <2>1, CoveredHolds
<1> QED
  BY <1>1, <1>2, <1>3, <1>4

LEMMA ClearedFacts ==
    ASSUME NEW a \in AckStates
    PROVE  /\ AckCleared(a) \in AckStates /\ AckCleared(a).epoch = a.epoch
           /\ AckCleared(a).pending = FALSE /\ Covered(AckCleared(a).ranges) = {}
<1>1. a \in [pending : BOOLEAN, epoch : Nat, ranges : Seq(Intervals), capacity : Nat]
  BY DEF AckStates
<1>2. /\ AckCleared(a) \in [pending : BOOLEAN, epoch : Nat, ranges : Seq(Intervals), capacity : Nat]
      /\ AckCleared(a).ranges = << >> /\ AckCleared(a).pending = FALSE
      /\ AckCleared(a).epoch = a.epoch /\ AckCleared(a).capacity = a.capacity
  <2>1. PICK b : b = AckCleared(a)
    OBVIOUS
  <2>2. b = [[a EXCEPT !.pending = FALSE] EXCEPT !.ranges = << >>]
    BY <2>1 DEF AckCleared
  <2>3. << >> \in Seq(Intervals)
    OBVIOUS
  <2>4. /\ b.ranges = << >> /\ b.epoch = a.epoch /\ b.capacity = a.capacity
        /\ b \in [pending : BOOLEAN, epoch : Nat, ranges : Seq(Intervals), capacity : Nat]
    BY <1>1, <2>2, <2>3
  <2>5. b.pending = FALSE
    BY <1>1, <2>2
  <2> QED
    BY <2>1, <2>4, <2>5
<1> QED
  BY <1>2 DEF AckStates, AllApart, Covered

-----------------------------------------------------------------------------
(* The steps. *)

LEMMA ReceiveKeeps ==
    ASSUME AckInv, NEW epoch \in Epochs, NEW seq \in Seqs, NEW alloc_ok \in BOOLEAN,
           ReceiveHandshake(epoch, seq, alloc_ok)
    PROVE  AckInv'
<1> DEFINE continues == ack_state.pending /\ ack_state.ranges # << >> /\ ack_state.epoch = epoch
           old == IF continues THEN Covered(ack_state.ranges) ELSE {}
<1>1. PICK b : b = AckRangeAdd(ack_state, ack_range_limit, epoch, seq, alloc_ok)
  OBVIOUS
<1>2. /\ ack_state \in AckStates /\ ack_range_limit \in Nat \ {0} /\ epoch \in Nat /\ seq \in Nat
      /\ owed \subseteq Seqs /\ ack_range_limit \in Limits /\ pressed \in BOOLEAN
  BY ConstantFacts DEF AckInv
<1>3. Noted(b, ack_state, ack_range_limit, epoch, seq, alloc_ok)
  BY <1>1, <1>2, ConstantFacts, AckRangeAddSound
<1>4. /\ b \in AckStates /\ b.epoch \in {ack_state.epoch, epoch}
      /\ Covered(b.ranges) \subseteq old \cup {seq}
      /\ alloc_ok => \/ Covered(b.ranges) = old \cup {seq}
                     \/ continues /\ Len(ack_state.ranges) >= ack_range_limit /\ Untouched(ack_state.ranges, seq)
  BY <1>3 DEF Noted, Untouched
<1>5. /\ ack_state' = [b EXCEPT !.pending = TRUE] /\ ack_range_limit' = ack_range_limit
      /\ owed' = IF continues THEN owed \cup {seq} ELSE {seq}
      /\ pressed' = (~ alloc_ok \/ Runs(owed') > ack_range_limit \/ (continues /\ pressed))
  <2>1. /\ ack_state' = [b EXCEPT !.pending = TRUE] /\ ack_range_limit' = ack_range_limit
        /\ owed' = IF continues THEN owed \cup {seq} ELSE {seq}
    BY <1>1 DEF ReceiveHandshake
  <2>2. pressed' = \/ ~ alloc_ok
                   \/ Runs(IF continues THEN owed \cup {seq} ELSE {seq}) > ack_range_limit
                   \/ continues /\ pressed
    BY DEF ReceiveHandshake
  <2> HIDE DEF continues
  <2> QED
    BY <2>1, <2>2, Zenon
<1>6. b \in [pending : BOOLEAN, epoch : Nat, ranges : Seq(Intervals), capacity : Nat]
  BY <1>4 DEF AckStates
<1>7. /\ ack_state' \in [pending : BOOLEAN, epoch : Nat, ranges : Seq(Intervals), capacity : Nat]
      /\ (ack_state').ranges = b.ranges /\ (ack_state').epoch = b.epoch /\ (ack_state').capacity = b.capacity
  BY <1>5, <1>6
<1>8. ack_state' \in AckStates
  BY <1>4, <1>7 DEF AckStates
<1>9. Covered(ack_state.ranges) \subseteq owed
  BY DEF AckInv, AckedWereReceived
<1>10. ~ pressed' => Covered((ack_state').ranges) = owed'
  <2> SUFFICES ASSUME ~ pressed' PROVE Covered(b.ranges) = owed'
    BY <1>7
  <2>1. alloc_ok /\ ~ (Runs(owed') > ack_range_limit) /\ ~ (continues /\ pressed)
    BY <1>5, Zenon
  <2>2. CASE ~ continues
    BY <1>4, <1>5, <2>1, <2>2
  <2>3. CASE continues
    <3>1. ~ pressed /\ ack_state.pending
      BY <2>1, <2>3
    <3>2. Covered(ack_state.ranges) = owed
      BY <3>1 DEF AckInv, NothingForgotten
    <3>3. owed' = Covered(ack_state.ranges) \cup {seq} /\ old = Covered(ack_state.ranges)
      BY <1>5, <2>3, <3>2
    <3>4. ~ (Len(ack_state.ranges) >= ack_range_limit /\ Untouched(ack_state.ranges, seq))
      <4> SUFFICES ASSUME Len(ack_state.ranges) >= ack_range_limit, Untouched(ack_state.ranges, seq) PROVE FALSE
        OBVIOUS
      <4>1. PICK P : P = Append(ack_state.ranges, Span(seq, seq))
        OBVIOUS
      <4>2. ack_state.ranges \in Seq(Intervals) /\ AllApart(ack_state.ranges) /\ Len(ack_state.ranges) \in Nat
        BY <1>2 DEF AckStates
      <4>3. /\ P \in Seq(Intervals) /\ Len(P) = Len(ack_state.ranges) + 1 /\ AllApart(P)
            /\ Covered(P) = Covered(ack_state.ranges) \cup {seq}
        BY <1>2, <4>1, <4>2, AppendNumber
      <4>4. Covered(P) = owed' /\ Covered(P) \subseteq Seqs
        BY <1>2, <1>9, <3>3, <4>3
      <4>5. IsFiniteSet(Covered(P))
        BY <4>4, ConstantFacts, FS_Subset
      <4>6. Runs(owed') \in Nat /\ Len(P) <= Runs(owed')
        BY <4>3, <4>4, <4>5, RunsAtLeast
      <4> QED
        BY <1>2, <2>1, <4>2, <4>3, <4>6
    <3> QED
      BY <1>4, <2>1, <3>3, <3>4
  <2> QED
    BY <2>2, <2>3
<1>11. AckedWereReceived'
  <2>1. Covered((ack_state').ranges) \subseteq owed'
    BY <1>4, <1>5, <1>7, <1>9
  <2> QED
    BY <2>1 DEF AckedWereReceived
<1>12. NothingForgotten'
  BY <1>10 DEF NothingForgotten
<1>13. (ack_state').epoch \in Epochs \cup {0}
  BY <1>4, <1>7 DEF AckInv
<1>14. owed' \subseteq Seqs /\ pressed' \in BOOLEAN /\ ack_range_limit' \in Limits
  <2>1. owed' \subseteq Seqs /\ ack_range_limit' \in Limits
    BY <1>2, <1>5
  <2>2. pressed' \in BOOLEAN
    BY <1>5, Zenon
  <2> QED
    BY <2>1, <2>2
<1> QED
  BY <1>8, <1>11, <1>12, <1>13, <1>14 DEF AckInv

LEMMA ClearingKeeps ==
    ASSUME AckInv, ack_state' = AckCleared(ack_state), owed' = {}, pressed' = FALSE,
           ack_range_limit' = ack_range_limit
    PROVE  AckInv'
<1>1. /\ ack_state' \in AckStates /\ (ack_state').epoch = ack_state.epoch
      /\ (ack_state').pending = FALSE /\ Covered((ack_state').ranges) = {}
  BY ClearedFacts DEF AckInv
<1>2. AckedWereReceived' /\ NothingForgotten'
  BY <1>1 DEF AckedWereReceived, NothingForgotten
<1> QED
  BY <1>1, <1>2 DEF AckInv

LEMMA SetLimitKeeps ==
    ASSUME AckInv, NEW max_ranges \in Limits, NEW alloc_ok \in BOOLEAN,
           SetAckRangeLimit(max_ranges, alloc_ok)
    PROVE  AckInv'
<1>1. /\ ack_state \in AckStates /\ owed \subseteq Seqs /\ max_ranges \in Nat \ {0}
      /\ Covered(ack_state.ranges) \subseteq owed
      /\ ack_state \in [pending : BOOLEAN, epoch : Nat, ranges : Seq(Intervals), capacity : Nat]
      /\ AllApart(ack_state.ranges) /\ Len(ack_state.ranges) \in Nat
  <2>1. /\ ack_state \in AckStates /\ owed \subseteq Seqs /\ max_ranges \in Nat \ {0}
        /\ Covered(ack_state.ranges) \subseteq owed
    BY ConstantFacts DEF AckInv, AckedWereReceived
  <2>2. /\ ack_state \in [pending : BOOLEAN, epoch : Nat, ranges : Seq(Intervals), capacity : Nat]
        /\ AllApart(ack_state.ranges)
    BY <2>1 DEF AckStates
  <2> QED
    BY <2>1, <2>2
<1>2. /\ ack_range_limit' = max_ranges /\ owed' = owed
      /\ pressed' = (pressed \/ ack_state.capacity > max_ranges)
  BY DEF SetAckRangeLimit
<1>3. pressed' \in BOOLEAN /\ (~ pressed' => ~ pressed /\ ~ (ack_state.capacity > max_ranges))
  BY <1>2, Zenon
<1>4. CASE ack_state.capacity > max_ranges /\ alloc_ok
  <2>1. PICK n : n = Smaller(Len(ack_state.ranges), max_ranges)
    OBVIOUS
  <2>2. n \in 0 .. Len(ack_state.ranges) /\ n <= max_ranges
    BY <1>1, <2>1 DEF Smaller
  <2>3. PICK P : P = SubSeq(ack_state.ranges, 1, n)
    OBVIOUS
  <2>4. /\ P \in Seq(Intervals) /\ Len(P) = n /\ AllApart(P)
        /\ Covered(P) \subseteq Covered(ack_state.ranges)
    BY <1>1, <2>2, <2>3, Shortened
  <2>5. ack_state' = [[ack_state EXCEPT !.capacity = max_ranges] EXCEPT !.ranges = P]
    BY <1>1, <1>4, <2>1, <2>3 DEF SetAckRangeLimit
  <2>6. /\ ack_state' \in [pending : BOOLEAN, epoch : Nat, ranges : Seq(Intervals), capacity : Nat]
        /\ (ack_state').ranges = P /\ (ack_state').capacity = max_ranges /\ (ack_state').epoch = ack_state.epoch
    BY <1>1, <2>4, <2>5
  <2>7. ack_state' \in AckStates
    BY <2>2, <2>4, <2>6 DEF AckStates
  <2>8. AckedWereReceived' /\ NothingForgotten'
    BY <1>1, <1>2, <1>3, <1>4, <2>4, <2>6 DEF AckedWereReceived, NothingForgotten
  <2> QED
    BY <1>1, <1>2, <1>3, <2>6, <2>7, <2>8 DEF AckInv
<1>5. CASE ~ (ack_state.capacity > max_ranges /\ alloc_ok)
  <2>1. ack_state' = ack_state
    BY <1>5 DEF SetAckRangeLimit
  <2>2. AckedWereReceived' /\ NothingForgotten'
    BY <1>1, <1>2, <1>3, <2>1 DEF AckInv, AckedWereReceived, NothingForgotten
  <2> QED
    BY <1>1, <1>2, <1>3, <2>1, <2>2 DEF AckInv
<1> QED
  BY <1>4, <1>5

LEMMA AckInitInv == AckInit => AckInv
<1> SUFFICES ASSUME AckInit PROVE AckInv
  OBVIOUS
<1>1. /\ ack_state = [pending |-> FALSE, epoch |-> 0, ranges |-> << >>, capacity |-> 0]
      /\ ack_range_limit \in Limits /\ owed = {} /\ pressed = FALSE
  BY DEF AckInit, NoAck
<1>2. /\ ack_state \in [pending : BOOLEAN, epoch : Nat, ranges : Seq(Intervals), capacity : Nat]
      /\ ack_state.ranges = << >> /\ ack_state.capacity = 0 /\ ack_state.epoch = 0
  BY <1>1
<1>3. ack_state \in AckStates /\ Covered(ack_state.ranges) = {}
  BY <1>2 DEF AckStates, AllApart, Covered
<1> QED
  BY <1>1, <1>2, <1>3 DEF AckInv, AckedWereReceived, NothingForgotten

LEMMA AckNextInv == AckInv /\ [AckNext]_ackVars => AckInv'
<1> SUFFICES ASSUME AckInv, [AckNext]_ackVars PROVE AckInv'
  OBVIOUS
<1>1. CASE \E epoch \in Epochs, seq \in Seqs, alloc_ok \in BOOLEAN :
              ReceiveHandshake(epoch, seq, alloc_ok)
  BY <1>1, ReceiveKeeps
<1>2. CASE FlushAck
  BY <1>2, ClearingKeeps DEF FlushAck
<1>3. CASE ReceiveAckMessage
  BY <1>3, ClearingKeeps DEF ReceiveAckMessage
<1>4. CASE \E max_ranges \in Limits, alloc_ok \in BOOLEAN :
              SetAckRangeLimit(max_ranges, alloc_ok)
  BY <1>4, SetLimitKeeps
<1>5. CASE UNCHANGED ackVars
  BY <1>5 DEF ackVars, AckInv, AckedWereReceived, NothingForgotten
<1> QED
  BY <1>1, <1>2, <1>3, <1>4, <1>5 DEF AckNext

LEMMA AckInvIsInvariant == AckSpec => []AckInv
BY AckInitInv, AckNextInv, PTL DEF AckSpec

(* The ranges of dtls_ack_range_add are ranges of record numbers and fit   *)
(* the array that is allocated for them, through growth, eviction and      *)
(* dtls_shrink_ack_ranges.                                                 *)
THEOREM AckTypeCorrect == AckSpec => []AckTypeOK
<1>1. ASSUME AckInv PROVE AckTypeOK
  <2>1. /\ ack_state.pending \in BOOLEAN /\ ack_state.ranges \in Seq(Intervals)
        /\ Len(ack_state.ranges) <= ack_state.capacity /\ ack_state.epoch \in Epochs \cup {0}
        /\ ack_range_limit \in Limits
    BY <1>1 DEF AckInv, AckStates
  <2>2. ASSUME NEW i \in DOMAIN ack_state.ranges PROVE ack_state.ranges[i] \in [min : Seqs, max : Seqs]
    <3>1. i \in 1 .. Len(ack_state.ranges) /\ ack_state.ranges[i] \in Intervals
      BY <2>1
    <3>2. PICK r : r = ack_state.ranges[i]
      OBVIOUS
    <3>3. r \in [min : Nat, max : Nat] /\ Holds(r, r.min) /\ Holds(r, r.max)
      BY <3>1, <3>2 DEF Intervals, Holds
    <3>4. r.min \in Covered(ack_state.ranges) /\ r.max \in Covered(ack_state.ranges)
      BY <2>1, <3>1, <3>2, <3>3, CoveredHolds
    <3>5. r.min \in Seqs /\ r.max \in Seqs
      BY <1>1, <3>4 DEF AckInv, AckedWereReceived
    <3> QED
      BY <3>2, <3>3, <3>5
  <2> QED
    BY <2>1, <2>2 DEF AckTypeOK
<1> QED
  BY <1>1, AckInvIsInvariant, PTL

(* Only numbers received in the epoch are in the ranges that               *)
(* tls13_dtls_flush_ack sends.                                             *)
THEOREM OnlyReceivedAcked == AckSpec => []AckedWereReceived
<1>1. AckInv => AckedWereReceived
  BY DEF AckInv
<1> QED
  BY <1>1, AckInvIsInvariant, PTL

(* The coalescing loops of dtls_ack_range_add leave maximal ranges.        *)
THEOREM RangesMaximal == AckSpec => []RangesSeparate
<1>1. ASSUME AckInv PROVE RangesSeparate
  <2>1. AllApart(ack_state.ranges) /\ ack_state.ranges \in Seq(Intervals)
    BY <1>1 DEF AckInv, AckStates
  <2> QED
    BY <2>1 DEF AllApart, RangesSeparate
<1> QED
  BY <1>1, AckInvIsInvariant, PTL

(* While memory and the limit suffice, dtls_ack_range_add holds exactly    *)
(* what was received since the last ACK: it evicts a range only when the   *)
(* numbers owed form more runs than the limit allows.                      *)
THEOREM AllReceivedHeld == AckSpec => []NothingForgotten
<1>1. AckInv => NothingForgotten
  BY DEF AckInv
<1> QED
  BY <1>1, AckInvIsInvariant, PTL

-----------------------------------------------------------------------------
(* Dtls13Recovery *)

Records == [seq : Nat, message : Messages]

(* Entries the running pass may still send.                                *)
Left == IF client.resend = 0 THEN 0 ELSE client.flight - client.resend + 1

ClientFields(last) ==
    [sent : Nat, flight : Nat, write_seq : Nat,
     range : [has : BOOLEAN, min : Nat, max : Nat], last_ack : {last},
     attempts : Nat, resend : Nat, started : BOOLEAN]

(* A pass runs over the complete flight, and record numbers are used only  *)
(* by the flight itself and by the passes the budget has paid for.         *)
ClientInv ==
    /\ client \in ClientFields(client.last_ack)
    /\ client.sent <= NumMessages
    /\ client.attempts <= MaxAttempts
    /\ client.resend <= client.flight
    /\ client.flight = client.sent \/ (client.flight = 0 /\ client.sent = NumMessages)
    /\ client.resend > 0 => client.sent = NumMessages
    /\ client.write_seq + Left <= client.sent + client.attempts * NumMessages
    /\ client.range.min <= client.write_seq /\ client.range.max <= client.write_seq

(* Numbers of the records whose messages the server has processed.         *)
Processed == { m.seq : m \in { x \in server.opened : x.message < server.expected } }

ServerInv ==
    /\ server \in [expected : Nat, state : {"handshaking", "flush", "connected"},
                   opened : SUBSET Records, ack : AckStates, final_ack : Seq(Intervals)]
    /\ 1 <= server.expected /\ server.expected <= NumMessages + 1
    /\ server.state = "handshaking" <=> server.expected <= NumMessages
    /\ server.state = "flush" => server.ack.ranges # << >>
    /\ Covered(server.ack.ranges) \subseteq Processed

(* A record number stands for one message.                                 *)
NetworkInv ==
    /\ to_server \subseteq Records
    /\ \A m \in server.opened \cup to_server : m.seq < client.write_seq
    /\ \A m, n \in server.opened \cup to_server : m.seq = n.seq => m = n

(* No ACK exists before the flight is complete at the server, and ACKs     *)
(* speak of numbers that were used.                                        *)
IsAck(a) ==
    /\ a \in Seq(Intervals) /\ a # << >>
    /\ \A x \in Covered(a) : x < client.write_seq

AcksInv ==
    /\ \A a \in to_client : IsAck(a)
    /\ to_client # {} => server.expected > NumMessages

Inv ==
    /\ setting \in Settings
    /\ ClientInv /\ ServerInv /\ NetworkInv /\ AcksInv
    /\ ReleasedMeansDelivered

LEMMA SettingFacts ==
    ASSUME setting \in Settings
    PROVE  /\ NumMessages \in Nat \ {0} /\ MaxAttempts \in Nat
           /\ Messages = 1 .. NumMessages
           /\ Burst \in Nat \ {0} /\ AckRangeLimit \in Nat \ {0}
           /\ InitialCapacity \in Nat \ {0}
BY SettingAssumption, LimitAssumption DEF NumMessages, MaxAttempts, Messages

(* What noting a record does to the server's ranges (memory suffices).     *)
LEMMA NoteRecordSound ==
    ASSUME setting \in Settings, NEW a \in AckStates, NEW seq \in Nat
    PROVE  /\ NoteRecord(a, seq) \in AckStates
           /\ NoteRecord(a, seq).ranges # << >>
           /\ Covered(NoteRecord(a, seq).ranges) \subseteq Covered(a.ranges) \cup {seq}
<1>1. PICK b : b = AckRangeAdd(a, AckRangeLimit, DTLS13_EPOCH_HANDSHAKE, seq, TRUE)
  OBVIOUS
<1>2. DTLS13_EPOCH_HANDSHAKE \in Nat
  BY DEF DTLS13_EPOCH_HANDSHAKE
<1>3. Noted(b, a, AckRangeLimit, DTLS13_EPOCH_HANDSHAKE, seq, TRUE)
  BY <1>1, <1>2, SettingFacts, AckRangeAddSound
<1>4. /\ b \in AckStates /\ Covered(b.ranges) \subseteq Covered(a.ranges) \cup {seq}
      /\ seq \in Covered(b.ranges)
  BY <1>3 DEF Noted
<1>5. b.ranges # << >>
  BY <1>4 DEF Covered
<1>6. /\ b \in [pending : BOOLEAN, epoch : Nat, ranges : Seq(Intervals), capacity : Nat]
      /\ Len(b.ranges) <= b.capacity /\ AllApart(b.ranges)
  BY <1>4 DEF AckStates
<1>7. PICK c : c = [b EXCEPT !.pending = TRUE]
  OBVIOUS
<1>8. /\ c \in [pending : BOOLEAN, epoch : Nat, ranges : Seq(Intervals), capacity : Nat]
      /\ c.ranges = b.ranges /\ c.capacity = b.capacity
  BY <1>6, <1>7
<1>9. c \in AckStates
  BY <1>6, <1>8 DEF AckStates
<1> QED
  BY <1>1, <1>4, <1>5, <1>7, <1>8, <1>9 DEF NoteRecord

LEMMA ClearedSound ==
    ASSUME NEW a \in AckStates
    PROVE  AckCleared(a) \in AckStates /\ Covered(AckCleared(a).ranges) = {}
<1>1. a \in [pending : BOOLEAN, epoch : Nat, ranges : Seq(Intervals), capacity : Nat]
  BY DEF AckStates
<1>2. PICK b : b = [[a EXCEPT !.pending = FALSE] EXCEPT !.ranges = << >>]
  OBVIOUS
<1>3. << >> \in Seq(Intervals)
  OBVIOUS
<1>4. /\ b.ranges = << >> /\ b.capacity = a.capacity
      /\ b \in [pending : BOOLEAN, epoch : Nat, ranges : Seq(Intervals), capacity : Nat]
  BY <1>1, <1>2, <1>3
<1>5. b = AckCleared(a)
  BY <1>2 DEF AckCleared
<1> QED
  BY <1>4, <1>5 DEF AckStates, AllApart, Covered

-----------------------------------------------------------------------------
LEMMA InitInv == Init => Inv
<1> SUFFICES ASSUME Init PROVE Inv
  OBVIOUS
<1>1. setting \in Settings /\ to_server = {} /\ to_client = {}
  BY DEF Init
<1>2. ClientInv
  <2>1. client = [sent |-> 0, flight |-> 0, write_seq |-> 0, range |-> NoRange,
                  last_ack |-> NoRange, attempts |-> 0, resend |-> 0, started |-> FALSE]
    BY DEF Init
  <2>2. NoRange \in [has : BOOLEAN, min : Nat, max : Nat] /\ NoRange.min = 0 /\ NoRange.max = 0
    BY DEF NoRange
  <2>3. client \in ClientFields(client.last_ack)
    BY <2>1, <2>2 DEF ClientFields
  <2> QED
    BY <1>1, <2>1, <2>2, <2>3, SettingFacts DEF ClientInv, Left
<1>3. ServerInv /\ server.opened = {}
  <2>1. server = [expected |-> 1, state |-> "handshaking", opened |-> {}, ack |-> NoAck,
                  final_ack |-> << >>]
    BY DEF Init
  <2>2. NoAck \in AckStates /\ Covered(NoAck.ranges) = {}
    <3>1. /\ NoAck \in [pending : BOOLEAN, epoch : Nat, ranges : Seq(Intervals), capacity : Nat]
          /\ NoAck.ranges = << >> /\ NoAck.capacity = 0
      BY DEF NoAck
    <3> QED
      BY <3>1 DEF AckStates, AllApart, Covered
  <2> QED
    BY <1>1, <2>1, <2>2, SettingFacts DEF ServerInv
<1>4. NetworkInv /\ AcksInv
  BY <1>1, <1>3 DEF NetworkInv, AcksInv
<1>5. ReleasedMeansDelivered
  BY DEF Init, ReleasedMeansDelivered
<1> QED
  BY <1>1, <1>2, <1>3, <1>4, <1>5 DEF Inv

-----------------------------------------------------------------------------
(* The client's steps. *)

LEMMA NoteKeepsRange ==
    ASSUME NEW range \in [has : BOOLEAN, min : Nat, max : Nat], NEW seq \in Nat,
           ~ range.has \/ (range.min <= seq /\ range.max <= seq)
    PROVE  /\ NoteHandshakeSeq(range, seq) \in [has : BOOLEAN, min : Nat, max : Nat]
           /\ NoteHandshakeSeq(range, seq).min <= seq
           /\ NoteHandshakeSeq(range, seq).max <= seq
BY DEF NoteHandshakeSeq

(* A record under the next number: the number is new.                      *)
LEMMA SendsRecord ==
    ASSUME Inv, NEW k \in Messages,
           to_server' = to_server \cup {[seq |-> client.write_seq, message |-> k]},
           client.write_seq \in Nat, (client').write_seq = client.write_seq + 1,
           UNCHANGED <<setting, server, to_client>>
    PROVE  ServerInv' /\ NetworkInv' /\ AcksInv'
<1>1. PICK r : r = [seq |-> client.write_seq, message |-> k]
  OBVIOUS
<1>2. r \in Records /\ r.seq = client.write_seq
  BY <1>1 DEF Records
<1>3. /\ to_server' = to_server \cup {r} /\ server' = server /\ to_client' = to_client
      /\ setting' = setting /\ NumMessages' = NumMessages /\ Records' = Records
  BY <1>1 DEF NumMessages, Records, Messages
<1>4. ServerInv'
  BY <1>3 DEF Inv, ServerInv, Processed
<1>5. NetworkInv'
  <2>1. to_server' \subseteq Records'
    BY <1>2, <1>3 DEF Inv, NetworkInv
  <2>2. \A m \in server.opened \cup to_server : m.seq \in Nat /\ m.seq < client.write_seq
    BY DEF Inv, NetworkInv, ServerInv, Records
  <2>3. \A m \in server.opened \cup to_server : m.seq < client.write_seq + 1 /\ m.seq # r.seq
    BY <1>2, <2>2
  <2>4. \A m \in (server.opened \cup to_server)' : m.seq < (client').write_seq
    BY <1>2, <1>3, <2>3
  <2>5. \A m, n \in (server.opened \cup to_server)' : m.seq = n.seq => m = n
    BY <1>3, <2>3 DEF Inv, NetworkInv
  <2> QED
    BY <2>1, <2>4, <2>5 DEF NetworkInv
<1>6. AcksInv'
  <2>1. ASSUME NEW a \in to_client PROVE IsAck(a)'
    <3>1. IsAck(a)
      BY DEF Inv, AcksInv
    <3>2. Covered(a) \subseteq Nat
      BY <3>1, CoveredHolds DEF IsAck
    <3> QED
      BY <3>1, <3>2 DEF IsAck
  <2> QED
    BY <1>3, <2>1 DEF Inv, AcksInv
<1> QED
  BY <1>4, <1>5, <1>6

(* A number that is used up, or nothing, changes.                          *)
LEMMA NumbersOnly ==
    ASSUME Inv, client.write_seq \in Nat,
           (client').write_seq \in {client.write_seq, client.write_seq + 1},
           UNCHANGED <<setting, server, to_server, to_client>>
    PROVE  ServerInv' /\ NetworkInv' /\ AcksInv'
<1>1. /\ to_server' = to_server /\ server' = server /\ to_client' = to_client
      /\ setting' = setting /\ NumMessages' = NumMessages /\ Records' = Records
  BY DEF NumMessages, Records, Messages
<1>2. ServerInv'
  BY <1>1 DEF Inv, ServerInv, Processed
<1>3. NetworkInv'
  <2>1. \A m \in server.opened \cup to_server : m.seq \in Nat /\ m.seq < client.write_seq
    BY DEF Inv, NetworkInv, ServerInv, Records
  <2>2. \A m \in server.opened \cup to_server : m.seq < (client').write_seq
    BY <2>1
  <2> QED
    BY <1>1, <2>2 DEF Inv, NetworkInv
<1>4. AcksInv'
  <2>1. ASSUME NEW a \in to_client PROVE IsAck(a)'
    <3>1. IsAck(a)
      BY DEF Inv, AcksInv
    <3>2. Covered(a) \subseteq Nat
      BY <3>1, CoveredHolds DEF IsAck
    <3> QED
      BY <3>1, <3>2 DEF IsAck
  <2> QED
    BY <1>1, <2>1 DEF Inv, AcksInv
<1> QED
  BY <1>2, <1>3, <1>4

LEMMA ClientTypes ==
    ASSUME Inv
    PROVE  /\ client.sent \in Nat /\ client.flight \in Nat /\ client.write_seq \in Nat
           /\ client.attempts \in Nat /\ client.resend \in Nat
           /\ client.range \in [has : BOOLEAN, min : Nat, max : Nat]
           /\ client.range.min \in Nat /\ client.range.max \in Nat
           /\ client.started \in BOOLEAN
           /\ NumMessages \in Nat \ {0} /\ MaxAttempts \in Nat
           /\ client.attempts * NumMessages \in Nat
           /\ (client.attempts + 1) * NumMessages = client.attempts * NumMessages + NumMessages
<1>1. client \in ClientFields(client.last_ack) /\ NumMessages \in Nat \ {0} /\ MaxAttempts \in Nat
  BY SettingFacts DEF Inv, ClientInv
<1>2. /\ client.sent \in Nat /\ client.flight \in Nat /\ client.write_seq \in Nat
      /\ client.attempts \in Nat /\ client.resend \in Nat
      /\ client.range \in [has : BOOLEAN, min : Nat, max : Nat]
      /\ client.started \in BOOLEAN
  BY <1>1 DEF ClientFields
<1>3. ASSUME NEW n \in Nat, NEW k \in Nat PROVE k * n \in Nat /\ (k + 1) * n = k * n + n
  OBVIOUS
<1> QED
  BY <1>1, <1>2, <1>3

LEMMA SendKeeps == ASSUME Inv, SendMessage, UNCHANGED setting PROVE Inv'
<1>1. PICK r : r = NoteHandshakeSeq(client.range, client.write_seq)
  OBVIOUS
<1>2. /\ r \in [has : BOOLEAN, min : Nat, max : Nat]
      /\ r.min <= client.write_seq /\ r.max <= client.write_seq
  BY <1>1, ClientTypes, NoteKeepsRange DEF Inv, ClientInv
<1>3. client' = [client EXCEPT !.sent = client.sent + 1, !.flight = client.flight + 1,
                              !.range = r, !.write_seq = client.write_seq + 1]
  BY <1>1 DEF SendMessage
<1>5. /\ client' \in ClientFields((client').last_ack)
      /\ (client').sent = client.sent + 1 /\ (client').flight = client.flight + 1
      /\ (client').range = r /\ (client').write_seq = client.write_seq + 1
      /\ (client').attempts = client.attempts /\ (client').resend = client.resend
  <2>1. PICK last : last = client.last_ack
    OBVIOUS
  <2>2. client \in ClientFields(last)
    BY <2>1 DEF Inv, ClientInv
  <2>3. PICK x, y, w : x = client.sent + 1 /\ y = client.flight + 1 /\ w = client.write_seq + 1
    OBVIOUS
  <2>4. x \in Nat /\ y \in Nat /\ w \in Nat
    BY <2>2, <2>3 DEF ClientFields
  <2>5. client' = [client EXCEPT !.sent = x, !.flight = y, !.range = r, !.write_seq = w]
    BY <1>3, <2>3
  <2>6. client' \in ClientFields(last) /\ (client').last_ack = last
    BY <2>2, <2>4, <2>5, <1>2 DEF ClientFields
  <2>7. /\ (client').sent = client.sent + 1 /\ (client').flight = client.flight + 1
        /\ (client').range = r /\ (client').write_seq = client.write_seq + 1
        /\ (client').attempts = client.attempts /\ (client').resend = client.resend
    BY <2>2, <2>3, <2>5 DEF ClientFields
  <2> QED
    BY <2>6, <2>7
<1>6. client.sent # NumMessages /\ client.sent <= NumMessages /\ client.resend = 0
      /\ client.flight = client.sent
  BY ClientTypes DEF SendMessage, Connected, Inv, ClientInv
<1>7. setting' = setting /\ NumMessages' = NumMessages /\ MaxAttempts' = MaxAttempts
  BY DEF NumMessages, MaxAttempts
<1>8. ClientInv'
  BY <1>2, <1>5, <1>6, <1>7, ClientTypes DEF Inv, ClientInv, Left
<1>9. ServerInv' /\ NetworkInv' /\ AcksInv'
  <2>1. client.sent + 1 \in Messages
    BY <1>6, ClientTypes DEF Messages
  <2>2. /\ to_server' = to_server \cup {[seq |-> client.write_seq, message |-> client.sent + 1]}
        /\ UNCHANGED <<setting, server, to_client>>
    BY DEF SendMessage
  <2> QED
    BY <1>5, <2>1, <2>2, ClientTypes, SendsRecord
<1>10. ReleasedMeansDelivered'
  BY <1>5, <1>6, ClientTypes DEF ReleasedMeansDelivered
<1> QED
  BY <1>7, <1>8, <1>9, <1>10 DEF Inv

LEMMA StartKeeps == ASSUME Inv, StartRetransmission, UNCHANGED setting PROVE Inv'
<1>1. PICK n : n = IF Covers(client.last_ack, client.range) THEN 0 ELSE 1
  OBVIOUS
<1>2. client' = [client EXCEPT !.attempts = client.attempts + 1, !.resend = n, !.started = FALSE]
  BY <1>1 DEF StartRetransmission
<1>3. n \in {0, 1} /\ n \in Nat
  BY <1>1
<1>4. /\ client' \in ClientFields((client').last_ack)
      /\ (client').sent = client.sent /\ (client').flight = client.flight
      /\ (client').range = client.range /\ (client').write_seq = client.write_seq
      /\ (client').attempts = client.attempts + 1 /\ (client').resend = n
  <2>1. PICK last : last = client.last_ack
    OBVIOUS
  <2>2. client \in ClientFields(last)
    BY <2>1 DEF Inv, ClientInv
  <2>3. PICK x : x = client.attempts + 1
    OBVIOUS
  <2>4. x \in Nat
    BY <2>2, <2>3, <1>3 DEF ClientFields
  <2>5. client' = [client EXCEPT !.attempts = x, !.resend = n, !.started = FALSE]
    BY <1>2, <2>3
  <2>6. client' \in ClientFields(last) /\ (client').last_ack = last
    BY <2>2, <2>4, <2>5, <1>3 DEF ClientFields
  <2>7. /\ (client').sent = client.sent /\ (client').flight = client.flight
        /\ (client').range = client.range /\ (client').write_seq = client.write_seq
        /\ (client').attempts = client.attempts + 1 /\ (client').resend = n
    BY <2>2, <2>3, <2>5 DEF ClientFields
  <2> QED
    BY <2>6, <2>7
<1>5. client.sent = NumMessages /\ client.resend = 0 /\ client.flight > 0
      /\ client.attempts < MaxAttempts
  BY DEF StartRetransmission, Connected
<1>6. setting' = setting /\ NumMessages' = NumMessages /\ MaxAttempts' = MaxAttempts
  BY DEF NumMessages, MaxAttempts
<1>7. ClientInv'
  BY <1>3, <1>4, <1>5, <1>6, ClientTypes DEF Inv, ClientInv, Left
<1>8. ServerInv' /\ NetworkInv' /\ AcksInv'
  <2>1. UNCHANGED <<setting, server, to_server, to_client>>
    BY DEF StartRetransmission
  <2> QED
    BY <1>4, <2>1, ClientTypes, NumbersOnly
<1>9. ReleasedMeansDelivered'
  BY <1>4, <1>6 DEF Inv, ReleasedMeansDelivered, StartRetransmission
<1> QED
  BY <1>6, <1>7, <1>8, <1>9 DEF Inv

LEMMA ResendKeeps == ASSUME Inv, ResendEntry, UNCHANGED setting PROVE Inv'
<1>1. PICK q : q = IF client.started THEN client.range ELSE NoRange
  OBVIOUS
<1>2. /\ q \in [has : BOOLEAN, min : Nat, max : Nat]
      /\ q.min <= client.write_seq /\ q.max <= client.write_seq
  BY <1>1, ClientTypes DEF Inv, ClientInv, NoRange
<1>3. PICK r : r = NoteHandshakeSeq(q, client.write_seq)
  OBVIOUS
<1>4. /\ r \in [has : BOOLEAN, min : Nat, max : Nat]
      /\ r.min <= client.write_seq /\ r.max <= client.write_seq
  BY <1>2, <1>3, ClientTypes, NoteKeepsRange
<1>5. PICK n : n = NextEntry(client.resend)
  OBVIOUS
<1>6. client' = [client EXCEPT !.resend = n, !.started = TRUE, !.range = r,
                              !.write_seq = client.write_seq + 1]
  BY <1>1, <1>3, <1>5 DEF ResendEntry
<1>7. n = 0 \/ (n = client.resend + 1 /\ client.resend < client.flight)
  BY <1>5 DEF NextEntry
<1>8. n \in Nat
  BY <1>7, ClientTypes
<1>9. /\ client' \in ClientFields((client').last_ack)
      /\ (client').sent = client.sent /\ (client').flight = client.flight
      /\ (client').range = r /\ (client').write_seq = client.write_seq + 1
      /\ (client').attempts = client.attempts /\ (client').resend = n
  <2>1. PICK last : last = client.last_ack
    OBVIOUS
  <2>2. client \in ClientFields(last)
    BY <2>1 DEF Inv, ClientInv
  <2>3. PICK w : w = client.write_seq + 1
    OBVIOUS
  <2>4. w \in Nat
    BY <2>2, <2>3 DEF ClientFields
  <2>5. client' = [client EXCEPT !.resend = n, !.started = TRUE, !.range = r, !.write_seq = w]
    BY <1>6, <2>3
  <2>6. client' \in ClientFields(last) /\ (client').last_ack = last
    BY <2>2, <2>4, <2>5, <1>4, <1>8 DEF ClientFields
  <2>7. /\ (client').sent = client.sent /\ (client').flight = client.flight
        /\ (client').range = r /\ (client').write_seq = client.write_seq + 1
        /\ (client').attempts = client.attempts /\ (client').resend = n
    BY <2>2, <2>3, <2>5 DEF ClientFields
  <2> QED
    BY <2>6, <2>7
<1>10. /\ client.resend > 0 /\ client.sent = NumMessages /\ client.resend <= client.flight
       /\ client.flight = client.sent
  BY ClientTypes DEF ResendEntry, Inv, ClientInv
<1>11. setting' = setting /\ NumMessages' = NumMessages /\ MaxAttempts' = MaxAttempts
  BY DEF NumMessages, MaxAttempts
<1>12. ClientInv'
  BY <1>4, <1>7, <1>9, <1>10, <1>11, ClientTypes DEF Inv, ClientInv, Left
<1>13. ServerInv' /\ NetworkInv' /\ AcksInv'
  <2>1. client.resend \in Messages
    BY <1>10, ClientTypes DEF Messages
  <2>2. /\ to_server' = to_server \cup {[seq |-> client.write_seq, message |-> client.resend]}
        /\ UNCHANGED <<setting, server, to_client>>
    BY DEF ResendEntry
  <2> QED
    BY <1>9, <2>1, <2>2, ClientTypes, SendsRecord
<1>14. ReleasedMeansDelivered'
  BY <1>9, <1>11 DEF Inv, ReleasedMeansDelivered, ResendEntry
<1> QED
  BY <1>11, <1>12, <1>13, <1>14 DEF Inv

LEMMA ResendFailsKeeps == ASSUME Inv, ResendFails, UNCHANGED setting PROVE Inv'
<1>1. client' = [client EXCEPT !.resend = 0, !.write_seq = client.write_seq + 1]
  BY DEF ResendFails
<1>3. /\ client' \in ClientFields((client').last_ack)
      /\ (client').sent = client.sent /\ (client').flight = client.flight
      /\ (client').range = client.range /\ (client').write_seq = client.write_seq + 1
      /\ (client').attempts = client.attempts /\ (client').resend = 0
  <2>1. PICK last : last = client.last_ack
    OBVIOUS
  <2>2. client \in ClientFields(last)
    BY <2>1 DEF Inv, ClientInv
  <2>3. PICK w : w = client.write_seq + 1
    OBVIOUS
  <2>4. w \in Nat
    BY <2>2, <2>3 DEF ClientFields
  <2>5. client' = [client EXCEPT !.resend = 0, !.write_seq = w]
    BY <1>1, <2>3
  <2>6. client' \in ClientFields(last) /\ (client').last_ack = last
    BY <2>2, <2>4, <2>5 DEF ClientFields
  <2>7. /\ (client').sent = client.sent /\ (client').flight = client.flight
        /\ (client').range = client.range /\ (client').write_seq = client.write_seq + 1
        /\ (client').attempts = client.attempts /\ (client').resend = 0
    BY <2>2, <2>3, <2>5 DEF ClientFields
  <2> QED
    BY <2>6, <2>7
<1>4. setting' = setting /\ NumMessages' = NumMessages /\ MaxAttempts' = MaxAttempts
  BY DEF NumMessages, MaxAttempts
<1>5. client.resend > 0
  BY DEF ResendFails
<1>6. ClientInv'
  BY <1>3, <1>4, <1>5, ClientTypes DEF Inv, ClientInv, Left
<1>7. ServerInv' /\ NetworkInv' /\ AcksInv'
  <2>1. UNCHANGED <<setting, server, to_server, to_client>>
    BY DEF ResendFails
  <2> QED
    BY <1>3, <2>1, ClientTypes, NumbersOnly
<1>8. ReleasedMeansDelivered'
  BY <1>3, <1>4 DEF Inv, ReleasedMeansDelivered, ResendFails
<1> QED
  BY <1>4, <1>6, <1>7, <1>8 DEF Inv

-----------------------------------------------------------------------------
(* The server's steps. *)

LEMMA ServerTypes ==
    ASSUME Inv
    PROVE  /\ server.expected \in Nat /\ server.opened \subseteq Records
           /\ server.ack \in AckStates /\ server.final_ack \in Seq(Intervals)
           /\ server.state \in {"handshaking", "flush", "connected"}
           /\ \A m \in to_server : m \in Records /\ m.seq \in Nat /\ m.message \in Nat
           /\ \A m \in to_server : 1 <= m.message /\ m.message <= NumMessages
           /\ \A m \in server.opened : m.seq \in Nat /\ m.message \in Nat
<1>1. NumMessages \in Nat
  BY SettingFacts DEF Inv
<1>2. \A m \in Records : m.seq \in Nat /\ m.message \in Nat
                          /\ 1 <= m.message /\ m.message <= NumMessages
  BY <1>1 DEF Records, Messages
<1>3. /\ server.expected \in Nat /\ server.opened \subseteq Records
      /\ server.ack \in AckStates /\ server.final_ack \in Seq(Intervals)
      /\ server.state \in {"handshaking", "flush", "connected"}
  BY DEF Inv, ServerInv
<1> QED
  BY <1>2, <1>3 DEF Inv, NetworkInv

(* A record that is opened, or not, leaves the transit or stays in it.     *)
LEMMA OpensRecord ==
    ASSUME Inv, NEW m \in to_server, to_server' \subseteq to_server,
           (server').opened = server.opened \cup {m}, UNCHANGED <<setting, client>>
    PROVE  NetworkInv'
<1>1. /\ (server.opened \cup to_server)' \subseteq server.opened \cup to_server
      /\ client' = client /\ Records' = Records
  BY DEF Records, Messages, NumMessages
<1> QED
  BY <1>1 DEF Inv, NetworkInv

LEMMA ReplayKeeps ==
    ASSUME Inv, NEW m \in to_server, ReceiveReplayed(m), to_server' \subseteq to_server,
           UNCHANGED <<setting, client>>
    PROVE  Inv'
<1>1. /\ server' = server /\ to_client' = to_client /\ client' = client /\ setting' = setting
      /\ server.opened = server.opened \cup {m}
  BY DEF ReceiveReplayed
<1>2. NetworkInv'
  BY <1>1, OpensRecord
<1>3. NumMessages' = NumMessages /\ MaxAttempts' = MaxAttempts /\ Records' = Records
  BY <1>1 DEF NumMessages, MaxAttempts, Records, Messages
<1>4. ClientInv' /\ ReleasedMeansDelivered'
  BY <1>1, <1>3 DEF Inv, ClientInv, Left, ReleasedMeansDelivered
<1>5. ServerInv' /\ AcksInv'
  BY <1>1, <1>3 DEF Inv, ServerInv, Processed, AcksInv, IsAck
<1> QED
  BY <1>1, <1>2, <1>4, <1>5 DEF Inv

LEMMA AcceptKeeps ==
    ASSUME Inv, NEW m \in to_server, server.state = "handshaking", AcceptRecord(m),
           to_server' \subseteq to_server, UNCHANGED <<setting, client, to_client>>
    PROVE  Inv'
<1>1. PICK taken \in BOOLEAN : taken = (m.message = server.expected)
  OBVIOUS
<1>2. PICK opened, expected, ack, state :
         /\ opened = server.opened \cup {m}
         /\ expected = IF taken THEN server.expected + 1 ELSE server.expected
         /\ ack = IF taken THEN NoteRecord(server.ack, m.seq) ELSE server.ack
         /\ state = IF taken /\ m.message = NumMessages THEN "flush" ELSE server.state
  OBVIOUS
<1>3. server' = [server EXCEPT !.opened = opened, !.expected = expected,
                               !.ack = ack, !.state = state]
  BY <1>1, <1>2 DEF AcceptRecord
<1>4. /\ NumMessages \in Nat \ {0} /\ server.expected \in Nat /\ server.expected <= NumMessages
      /\ 1 <= server.expected
  BY SettingFacts DEF Inv, ServerInv
<1>5. expected \in Nat /\ 1 <= expected /\ expected <= NumMessages + 1
      /\ server.expected <= expected
  BY <1>2, <1>4
<1>6. /\ ack \in AckStates
      /\ taken => ack.ranges # << >>
      /\ Covered(ack.ranges) \subseteq Covered(server.ack.ranges) \cup (IF taken THEN {m.seq} ELSE {})
  <2>1. CASE taken
    BY <1>2, <2>1, ServerTypes, NoteRecordSound DEF Inv
  <2>2. CASE ~ taken
    BY <1>2, <2>2, ServerTypes
  <2> QED
    BY <2>1, <2>2
<1>7. state \in {"handshaking", "flush", "connected"} /\ opened \in SUBSET Records
  BY <1>2, ServerTypes
<1>8. /\ server' \in [expected : Nat, state : {"handshaking", "flush", "connected"},
                      opened : SUBSET Records, ack : AckStates, final_ack : Seq(Intervals)]
      /\ (server').opened = opened /\ (server').expected = expected
      /\ (server').ack = ack /\ (server').state = state
  <2>1. server \in [expected : Nat, state : {"handshaking", "flush", "connected"},
                    opened : SUBSET Records, ack : AckStates, final_ack : Seq(Intervals)]
    BY DEF Inv, ServerInv
  <2> QED
    BY <1>3, <1>5, <1>6, <1>7, <2>1
<1>9. NumMessages' = NumMessages /\ MaxAttempts' = MaxAttempts /\ Records' = Records
      /\ client' = client /\ setting' = setting /\ to_client' = to_client
  BY DEF NumMessages, MaxAttempts, Records, Messages
<1>10. state = "handshaking" <=> expected <= NumMessages
  <2>1. CASE taken /\ m.message = NumMessages
    <3>1. expected = NumMessages + 1 /\ state = "flush"
      BY <1>1, <1>2, <2>1
    <3> QED
      BY <1>4, <3>1
  <2>2. CASE ~ (taken /\ m.message = NumMessages)
    <3>1. expected <= NumMessages /\ state = "handshaking"
      <4>1. state = "handshaking"
        BY <1>2, <2>2
      <4>2. CASE taken
        <5>1. m.message = server.expected
          BY <1>1, <4>2, Zenon
        <5>2. expected = server.expected + 1 /\ m.message # NumMessages
          BY <1>2, <2>2, <4>2
        <5> QED
          BY <1>4, <4>1, <5>1, <5>2
      <4>3. CASE ~ taken
        <5>1. expected = server.expected
          BY <1>2, <4>3
        <5> QED
          BY <1>4, <4>1, <5>1
      <4> QED
        BY <4>2, <4>3
    <3> QED
      BY <3>1
  <2> QED
    BY <2>1, <2>2
<1>11. state = "flush" => ack.ranges # << >>
  BY <1>2, <1>6
<1>12. Covered(ack.ranges) \subseteq Processed'
  <2>1. Processed' = { x.seq : x \in { y \in opened : y.message < expected } }
    BY <1>8 DEF Processed
  <2>2. Processed \subseteq Processed'
    <3>1. ASSUME NEW y \in server.opened, y.message < server.expected
          PROVE  y \in opened /\ y.message < expected
      <4>1. y.message \in Nat
        BY ServerTypes
      <4> QED
        BY <1>2, <1>4, <1>5, <3>1, <4>1
    <3> QED
      BY <2>1, <3>1 DEF Processed
  <2>3. taken => m.seq \in Processed'
    <3> SUFFICES ASSUME taken PROVE m.seq \in Processed'
      OBVIOUS
    <3>1. m.message = server.expected
      BY <1>1, Zenon
    <3>2. m.message < expected /\ m \in opened
      BY <1>2, <1>4, <3>1
    <3> QED
      BY <2>1, <3>2
  <2> QED
    BY <1>6, <2>2, <2>3 DEF Inv, ServerInv
<1>13. ServerInv'
  BY <1>5, <1>8, <1>9, <1>10, <1>11, <1>12 DEF ServerInv
<1>14. NetworkInv'
  BY <1>2, <1>8, OpensRecord
<1>15. to_client = {}
  BY <1>4 DEF Inv, AcksInv
<1>16. AcksInv'
  BY <1>9, <1>15 DEF AcksInv
<1>17. ClientInv'
  BY <1>9 DEF Inv, ClientInv, Left
<1>18. ReleasedMeansDelivered'
  BY <1>4, <1>9 DEF Inv, ReleasedMeansDelivered
<1> QED
  BY <1>9, <1>13, <1>14, <1>16, <1>17, <1>18 DEF Inv

(* The ranges the server may send: of processed records, so of used numbers. *)
LEMMA RangesAreAck ==
    ASSUME Inv, NEW a \in Seq(Intervals), a # << >>, Covered(a) \subseteq Processed
    PROVE  IsAck(a)
<1>1. \A m \in server.opened : m.seq < client.write_seq
  BY DEF Inv, NetworkInv
<1>2. \A x \in Processed : x < client.write_seq
  BY <1>1 DEF Processed
<1> QED
  BY <1>2 DEF IsAck

LEMMA RepeatedKeeps ==
    ASSUME Inv, NEW m \in to_server, server.state = "connected", NEW send_ok \in BOOLEAN,
           RepeatedRecord(m, send_ok), to_server' \subseteq to_server,
           UNCHANGED <<setting, client>>
    PROVE  Inv'
<1>1. PICK noted : noted = NoteRecord(server.ack, m.seq)
  OBVIOUS
<1>2. /\ noted \in AckStates /\ noted.ranges # << >> /\ noted.ranges \in Seq(Intervals)
      /\ Covered(noted.ranges) \subseteq Covered(server.ack.ranges) \cup {m.seq}
  <2>1. server.ack \in AckStates /\ m.seq \in Nat /\ setting \in Settings
    BY ServerTypes DEF Inv
  <2>2. /\ noted \in AckStates /\ noted.ranges # << >>
        /\ Covered(noted.ranges) \subseteq Covered(server.ack.ranges) \cup {m.seq}
    BY <1>1, <2>1, NoteRecordSound
  <2> QED
    BY <2>2 DEF AckStates
<1>3. PICK opened, ack :
         /\ opened = server.opened \cup {m}
         /\ ack = IF send_ok THEN AckCleared(noted) ELSE noted
  OBVIOUS
<1>4. /\ server' = [server EXCEPT !.opened = opened, !.ack = ack]
      /\ to_client' \subseteq to_client \cup {noted.ranges}
  BY <1>1, <1>3 DEF RepeatedRecord
<1>5. ack \in AckStates /\ Covered(ack.ranges) \subseteq Covered(noted.ranges)
  BY <1>2, <1>3, ClearedSound
<1>6. /\ server' \in [expected : Nat, state : {"handshaking", "flush", "connected"},
                      opened : SUBSET Records, ack : AckStates, final_ack : Seq(Intervals)]
      /\ (server').opened = opened /\ (server').expected = server.expected
      /\ (server').ack = ack /\ (server').state = server.state
  <2>1. server \in [expected : Nat, state : {"handshaking", "flush", "connected"},
                    opened : SUBSET Records, ack : AckStates, final_ack : Seq(Intervals)]
    BY DEF Inv, ServerInv
  <2>2. opened \in SUBSET Records
    BY <1>3, ServerTypes
  <2> QED
    BY <1>4, <1>5, <2>1, <2>2
<1>7. NumMessages' = NumMessages /\ MaxAttempts' = MaxAttempts /\ Records' = Records
      /\ client' = client /\ setting' = setting
  BY DEF NumMessages, MaxAttempts, Records, Messages
<1>8. /\ NumMessages \in Nat \ {0} /\ server.expected \in Nat /\ server.expected > NumMessages
  BY SettingFacts DEF Inv, ServerInv
<1>9. Covered(noted.ranges) \subseteq Processed'
  <2>1. Processed' = { x.seq : x \in { y \in opened : y.message < server.expected } }
    BY <1>6 DEF Processed
  <2>2. Processed \subseteq Processed'
    BY <1>3, <2>1 DEF Processed
  <2>3. m.seq \in Processed'
    <3>1. m.message < server.expected /\ m \in opened
      BY <1>3, <1>8, ServerTypes
    <3> QED
      BY <2>1, <3>1
  <2> QED
    BY <1>2, <2>2, <2>3 DEF Inv, ServerInv
<1>10. ServerInv'
  BY <1>5, <1>6, <1>7, <1>9 DEF Inv, ServerInv
<1>11. NetworkInv'
  BY <1>3, <1>6, OpensRecord
<1>12. AcksInv'
  <2>1. \A x \in Covered(noted.ranges) : x < client.write_seq
    <3>1. \A y \in opened : y.seq < client.write_seq
      BY <1>3 DEF Inv, NetworkInv
    <3>2. Processed' = { x.seq : x \in { y \in opened : y.message < server.expected } }
      BY <1>6 DEF Processed
    <3> QED
      BY <1>9, <3>1, <3>2
  <2>2. IsAck(noted.ranges)
    BY <1>2, <2>1 DEF IsAck
  <2>3. \A a \in to_client' : IsAck(a)
    BY <1>4, <2>2 DEF Inv, AcksInv
  <2> QED
    BY <1>6, <1>7, <1>8, <2>3 DEF AcksInv, IsAck
<1>13. ClientInv'
  BY <1>7 DEF Inv, ClientInv, Left
<1>14. ReleasedMeansDelivered'
  BY <1>6, <1>7, <1>8 DEF ReleasedMeansDelivered
<1> QED
  BY <1>7, <1>10, <1>11, <1>12, <1>13, <1>14 DEF Inv

LEMMA FlushKeeps == ASSUME Inv, FlushFinalAck, UNCHANGED setting PROVE Inv'
<1>1. PICK ranges, ack : ranges = server.ack.ranges /\ ack = AckCleared(server.ack)
  OBVIOUS
<1>2. /\ server' = [server EXCEPT !.state = "connected", !.final_ack = ranges, !.ack = ack]
      /\ to_client' = to_client \cup {ranges} /\ server.state = "flush"
      /\ client' = client /\ to_server' = to_server /\ setting' = setting
  BY <1>1 DEF FlushFinalAck
<1>3. ranges \in Seq(Intervals) /\ ranges # << >> /\ Covered(ranges) \subseteq Processed
  BY <1>1, <1>2, ServerTypes DEF Inv, ServerInv, AckStates
<1>4. ack \in AckStates /\ Covered(ack.ranges) = {}
  BY <1>1, ServerTypes, ClearedSound
<1>5. /\ server' \in [expected : Nat, state : {"handshaking", "flush", "connected"},
                      opened : SUBSET Records, ack : AckStates, final_ack : Seq(Intervals)]
      /\ (server').opened = server.opened /\ (server').expected = server.expected
      /\ (server').ack = ack /\ (server').state = "connected"
  <2>1. server \in [expected : Nat, state : {"handshaking", "flush", "connected"},
                    opened : SUBSET Records, ack : AckStates, final_ack : Seq(Intervals)]
    BY DEF Inv, ServerInv
  <2> QED
    BY <1>2, <1>3, <1>4, <2>1
<1>6. NumMessages' = NumMessages /\ MaxAttempts' = MaxAttempts /\ Records' = Records
  BY <1>2 DEF NumMessages, MaxAttempts, Records, Messages
<1>7. /\ NumMessages \in Nat \ {0} /\ server.expected \in Nat /\ server.expected > NumMessages
  BY <1>2, SettingFacts DEF Inv, ServerInv
<1>8. ServerInv'
  BY <1>4, <1>5, <1>6, <1>7 DEF Inv, ServerInv
<1>9. NetworkInv'
  BY <1>2, <1>5, <1>6 DEF Inv, NetworkInv
<1>10. AcksInv'
  <2>1. \A a \in to_client' : IsAck(a)
    BY <1>2, <1>3, RangesAreAck DEF Inv, AcksInv
  <2> QED
    BY <1>2, <1>5, <1>6, <1>7, <2>1 DEF AcksInv, IsAck
<1>11. ClientInv'
  BY <1>2, <1>6 DEF Inv, ClientInv, Left
<1>12. ReleasedMeansDelivered'
  BY <1>5, <1>6, <1>7 DEF ReleasedMeansDelivered
<1> QED
  BY <1>2, <1>8, <1>9, <1>10, <1>11, <1>12 DEF Inv

-----------------------------------------------------------------------------
(* An ACK reaches the client. *)

LEMMA HandleAckKeeps ==
    ASSUME Inv, NEW a \in to_client, NEW remaining \in SUBSET to_client,
           HandleAck(a, remaining), UNCHANGED setting
    PROVE  Inv'
<1>1. PICK hull, covers, range :
         /\ hull = AckHull(a) /\ covers = Covers(AckHull(a), client.range)
         /\ range = [client.range EXCEPT !.has = @ /\ ~ covers]
  OBVIOUS
<1>2. PICK flight : flight = IF covers THEN 0 ELSE client.flight
  OBVIOUS
<1>3. client' = [client EXCEPT !.last_ack = hull, !.flight = flight, !.range = range]
  BY <1>1, <1>2 DEF HandleAck
<1>4. flight \in Nat /\ flight \in {0, client.flight}
  BY <1>2, ClientTypes
<1>5. /\ range \in [has : BOOLEAN, min : Nat, max : Nat]
      /\ range.min = client.range.min /\ range.max = client.range.max
  <2>1. client.range \in [has : BOOLEAN, min : Nat, max : Nat]
    BY ClientTypes
  <2>2. PICK h : h = (client.range.has /\ ~ covers)
    OBVIOUS
  <2>3. h \in BOOLEAN
    BY <2>2, Zenon
  <2>4. range = [client.range EXCEPT !.has = h]
    BY <1>1, <2>2
  <2> QED
    BY <2>1, <2>3, <2>4
<1>6. /\ client' \in ClientFields((client').last_ack)
      /\ (client').sent = client.sent /\ (client').flight = flight
      /\ (client').range = range /\ (client').write_seq = client.write_seq
      /\ (client').attempts = client.attempts /\ (client').resend = client.resend
  <2>1. client \in ClientFields(client.last_ack)
    BY DEF Inv, ClientInv
  <2>2. /\ client' \in ClientFields(hull) /\ (client').last_ack = hull
    BY <1>3, <1>4, <1>5, <2>1 DEF ClientFields
  <2>3. /\ (client').sent = client.sent /\ (client').flight = flight
        /\ (client').range = range /\ (client').write_seq = client.write_seq
        /\ (client').attempts = client.attempts /\ (client').resend = client.resend
    BY <1>3, <2>1 DEF ClientFields
  <2> QED
    BY <2>2, <2>3
<1>7. /\ client.sent = NumMessages /\ client.resend = 0
      /\ to_client' = remaining /\ server' = server /\ to_server' = to_server
      /\ setting' = setting
  BY DEF HandleAck, Connected
<1>8. NumMessages' = NumMessages /\ MaxAttempts' = MaxAttempts /\ Records' = Records
  BY <1>7 DEF NumMessages, MaxAttempts, Records, Messages
<1>9. ClientInv'
  BY <1>4, <1>5, <1>6, <1>7, <1>8, ClientTypes DEF Inv, ClientInv, Left
<1>10. ServerInv' /\ NetworkInv'
  BY <1>6, <1>7, <1>8 DEF Inv, ServerInv, NetworkInv, Processed
<1>11. server.expected > NumMessages
  BY DEF Inv, AcksInv
<1>12. AcksInv'
  BY <1>6, <1>7, <1>8, <1>11 DEF Inv, AcksInv, IsAck
<1>13. ReleasedMeansDelivered'
  BY <1>7, <1>8, <1>11 DEF ReleasedMeansDelivered
<1> QED
  BY <1>7, <1>9, <1>10, <1>12, <1>13 DEF Inv

LEMMA LoseKeeps ==
    ASSUME Inv, to_server' \subseteq to_server, to_client' \subseteq to_client,
           UNCHANGED <<setting, client, server>>
    PROVE  Inv'
<1>1. NumMessages' = NumMessages /\ MaxAttempts' = MaxAttempts /\ Records' = Records
      /\ setting' = setting /\ client' = client /\ server' = server
  BY DEF NumMessages, MaxAttempts, Records, Messages
<1>2. ClientInv' /\ ReleasedMeansDelivered'
  BY <1>1 DEF Inv, ClientInv, Left, ReleasedMeansDelivered
<1>3. ServerInv'
  BY <1>1 DEF Inv, ServerInv, Processed
<1>4. NetworkInv' /\ AcksInv'
  BY <1>1 DEF Inv, NetworkInv, AcksInv, IsAck
<1> QED
  BY <1>1, <1>2, <1>3, <1>4 DEF Inv

LEMMA NextInv == Inv /\ [Next]_vars => Inv'
<1> SUFFICES ASSUME Inv, [Next]_vars PROVE Inv'
  OBVIOUS
<1>1. CASE SendMessage /\ UNCHANGED setting
  BY <1>1, SendKeeps
<1>2. CASE StartRetransmission /\ UNCHANGED setting
  BY <1>2, StartKeeps
<1>3. CASE ResendEntry /\ UNCHANGED setting
  BY <1>3, ResendKeeps
<1>4. CASE ResendFails /\ UNCHANGED setting
  BY <1>4, ResendFailsKeeps
<1>5. CASE FlushFinalAck /\ UNCHANGED setting
  BY <1>5, FlushKeeps
<1>6. CASE (DeliverToServer \/ RepeatToServer) /\ UNCHANGED setting
  <2>1. PICK m \in to_server : /\ ReceiveReplayed(m) \/ ReceiveFresh(m)
                               /\ to_server' \subseteq to_server
                               /\ UNCHANGED <<setting, client>>
    BY <1>6 DEF DeliverToServer, RepeatToServer
  <2>2. CASE ReceiveReplayed(m)
    BY <2>1, <2>2, ReplayKeeps
  <2>3. CASE server.state = "handshaking" /\ AcceptRecord(m) /\ UNCHANGED <<to_client, losses>>
    BY <2>1, <2>3, AcceptKeeps
  <2>4. CASE server.state = "connected" /\ \E send_ok \in BOOLEAN : RepeatedRecord(m, send_ok)
    BY <2>1, <2>4, RepeatedKeeps
  <2> QED
    BY <2>1, <2>2, <2>3, <2>4 DEF ReceiveFresh
<1>7. CASE (DeliverToClient \/ RepeatToClient) /\ UNCHANGED setting
  <2>1. PICK a \in to_client, remaining \in SUBSET to_client : HandleAck(a, remaining)
    BY <1>7 DEF DeliverToClient, RepeatToClient
  <2> QED
    BY <1>7, <2>1, HandleAckKeeps
<1>8. CASE Lose /\ UNCHANGED setting
  <2>1. to_server' \subseteq to_server /\ to_client' \subseteq to_client
        /\ UNCHANGED <<setting, client, server>>
    BY <1>8 DEF Lose
  <2> QED
    BY <2>1, LoseKeeps
<1>9. CASE UNCHANGED vars
  BY <1>9, LoseKeeps DEF vars
<1> QED
  BY <1>1, <1>2, <1>3, <1>4, <1>5, <1>6, <1>7, <1>8, <1>9 DEF Next, ClientNext, NetworkNext

LEMMA InvIsInvariant == Spec => []Inv
BY InitInv, NextInv, PTL DEF Spec

(* The numbers fit the budget.                                             *)
LEMMA SeqBound == ASSUME Inv PROVE MaxSeq \in Nat /\ client.write_seq <= MaxSeq
<1>1. ASSUME NEW n \in Nat, NEW k \in Nat, NEW a \in Nat, k <= a
      PROVE  n * (a + 1) \in Nat /\ k * n \in Nat /\ n + k * n <= n * (a + 1)
  <2>1. PICK d \in Nat : a = k + d
    <3>1. a - k \in Nat /\ a = k + (a - k)
      BY <1>1
    <3> QED
      BY <3>1
  <2>2. n * (a + 1) = n + k * n + d * n
    BY <2>1
  <2>3. d * n \in Nat /\ k * n \in Nat
    OBVIOUS
  <2> QED
    BY <2>2, <2>3
<1>2. /\ client.sent <= NumMessages /\ client.attempts <= MaxAttempts
      /\ Left \in Nat
      /\ client.write_seq + Left <= client.sent + client.attempts * NumMessages
  BY ClientTypes DEF Inv, ClientInv, Left
<1>3. /\ NumMessages * (MaxAttempts + 1) \in Nat /\ client.attempts * NumMessages \in Nat
      /\ NumMessages + client.attempts * NumMessages <= NumMessages * (MaxAttempts + 1)
  BY <1>1, <1>2, ClientTypes
<1> QED
  BY <1>2, <1>3, ClientTypes DEF MaxSeq

(* The flight, the attempts and the record numbers of the client stay      *)
(* within what retransmit_max_attempts allows, the pass of                 *)
(* tls13_retransmit_handshake within the flight buffer, and no ACK is      *)
(* empty.                                                                  *)
THEOREM TypeCorrect == Spec => []TypeOK
<1>1. ASSUME Inv PROVE TypeOK
  <2>1. MaxSeq \in Nat /\ client.write_seq <= MaxSeq
    BY <1>1, SeqBound
  <2>2. /\ client.sent \in 0 .. NumMessages /\ client.flight \in 0 .. client.sent
        /\ client.write_seq \in 0 .. MaxSeq
        /\ client.range.min \in 0 .. MaxSeq /\ client.range.max \in 0 .. MaxSeq
        /\ client.attempts \in 0 .. MaxAttempts /\ client.resend \in 0 .. client.flight
    BY <1>1, <2>1, ClientTypes DEF Inv, ClientInv
  <2>3. /\ server.expected \in 1 .. NumMessages + 1
        /\ server.state \in {"handshaking", "flush", "connected"}
    BY <1>1, ClientTypes, ServerTypes DEF Inv, ServerInv
  <2>4. ASSUME NEW m \in server.opened \cup to_server
        PROVE  m \in [seq : 0 .. MaxSeq, message : Messages]
    <3>1. m \in [seq : Nat, message : Messages] /\ m.seq < client.write_seq
      BY <1>1 DEF Inv, NetworkInv, ServerInv, Records
    <3>2. m.seq \in 0 .. MaxSeq
      BY <1>1, <2>1, <3>1, ClientTypes
    <3> QED
      BY <3>1, <3>2
  <2>5. ASSUME NEW a \in to_client, NEW i \in DOMAIN a PROVE a[i] \in Ranges
    <3>1. IsAck(a)
      BY <1>1 DEF Inv, AcksInv
    <3>2. i \in 1 .. Len(a) /\ a[i] \in Intervals
      BY <3>1 DEF IsAck
    <3>3. a[i] \in [min : Nat, max : Nat] /\ Holds(a[i], a[i].min) /\ Holds(a[i], a[i].max)
      BY <3>2 DEF Intervals, Holds
    <3>4. a[i].min \in Covered(a) /\ a[i].max \in Covered(a)
      BY <3>1, <3>2, <3>3, CoveredHolds DEF IsAck
    <3>5. a[i].min \in 0 .. MaxSeq /\ a[i].max \in 0 .. MaxSeq
      BY <1>1, <2>1, <3>1, <3>3, <3>4, ClientTypes, SMTT(40) DEF IsAck
    <3> QED
      BY <3>3, <3>5 DEF Ranges
  <2>6. \A a \in to_client : a # << >>
    BY <1>1 DEF Inv, AcksInv, IsAck
  <2> QED
    BY <2>2, <2>3, <2>4, <2>5, <2>6 DEF TypeOK
<1> QED
  BY <1>1, InvIsInvariant, PTL

(* tls13_dtls_handle_ack releases the flight only after the server has     *)
(* taken all of it: ACKs exist from TLS13_SERVER_HS_STEP_FLUSH_ACK on.     *)
THEOREM ReleaseIsSafe == Spec => []ReleasedMeansDelivered
<1>1. Inv => ReleasedMeansDelivered
  BY DEF Inv
<1> QED
  BY <1>1, InvIsInvariant, PTL

(* The ranges of the server hold numbers of processed records only, and a  *)
(* number stands for one message: what tls13_recv_handshake_message        *)
(* discarded stays unacknowledged, however ranges merge.                   *)
THEOREM DiscardedStaysUnacked == Spec => []UnprocessedIsUnacked
<1>1. ASSUME Inv PROVE UnprocessedIsUnacked
  <2>1. ASSUME NEW m \in server.opened, m.seq \in Covered(server.ack.ranges)
        PROVE  m.message < server.expected
    <3>1. m.seq \in Processed
      BY <1>1, <2>1 DEF Inv, ServerInv
    <3>2. PICK n \in server.opened : n.message < server.expected /\ n.seq = m.seq
      BY <3>1 DEF Processed
    <3>3. n = m
      BY <1>1, <3>2 DEF Inv, NetworkInv
    <3> QED
      BY <3>2, <3>3
  <2> QED
    BY <2>1 DEF UnprocessedIsUnacked
<1> QED
  BY <1>1, InvIsInvariant, PTL

=============================================================================
