--------------------------- MODULE RingArithmetic ---------------------------
(***************************************************************************)
(* Facts about ring_wrap and about sequence numbers that the proofs of the *)
(* two rings rest on.                                                      *)
(***************************************************************************)
EXTENDS SequenceRing, TLAPS, WellFoundedInduction, FiniteSets, FiniteSetTheorems

\* There is one remainder.
LEMMA RemainderUnique ==
  ASSUME NEW m \in Nat \ {0}, NEW a \in 0 .. m - 1, NEW b \in 0 .. m - 1,
         NEW k \in Int, b = a + k * m
  PROVE  b = a
OBVIOUS

\* Full turns do not matter to the modulo.
LEMMA ModTurns ==
  ASSUME NEW m \in Nat \ {0}, NEW x \in Int, NEW k \in Int
  PROVE  (x + k * m) % m = x % m
<1>1. PICK q \in Int, a \in 0 .. m - 1 : x = q * m + a /\ x % m = a
  OBVIOUS
<1>2. x + k * m \in Int
  OBVIOUS
<1>3. PICK p \in Int, b \in 0 .. m - 1 : x + k * m = p * m + b /\ (x + k * m) % m = b
  BY <1>2
<1>4. q + k - p \in Int /\ b = a + (q + k - p) * m
  BY <1>1, <1>3
<1>5. b = a
  BY <1>4, RemainderUnique
<1> QED BY <1>1, <1>3, <1>5

\* An inner modulo can be left out.
LEMMA ModPlus ==
  ASSUME NEW m \in Nat \ {0}, NEW x \in Int, NEW y \in Int
  PROVE  ((x % m) + y) % m = (x + y) % m
<1> DEFINE q == x \div m
<1>1. q \in Int /\ x = q * m + (x % m) /\ x % m \in Int
  OBVIOUS
<1>2. x + y = ((x % m) + y) + q * m /\ (x % m) + y \in Int
  BY <1>1
<1> HIDE DEF q
<1>3. (((x % m) + y) + q * m) % m = ((x % m) + y) % m
  BY <1>1, <1>2, ModTurns
<1> QED BY <1>2, <1>3

-----------------------------------------------------------------------------
(* Ring indices. *)

\* How far slot i lies beyond slot t in a ring of m slots.
LEMMA Distance ==
  ASSUME NEW m \in Nat \ {0}, NEW i \in 0 .. m - 1, NEW t \in 0 .. m - 1
  PROVE  /\ ring_wrap(i - t, m) = IF i >= t THEN i - t ELSE i - t + m
         /\ ring_wrap(i - t, m) \in 0 .. m - 1
<1> DEFINE x == i - t
<1>1. x \in Int /\ 0 - m <= x /\ x < m
  OBVIOUS
<1> HIDE DEF x
<1>2. x % m = (IF x >= 0 THEN x ELSE x + m) /\ x % m \in 0 .. m - 1
  BY <1>1
<1> QED BY <1>1, <1>2 DEF x, ring_wrap

\* The slot n beyond slot t.
LEMMA Advance ==
  ASSUME NEW m \in Nat \ {0}, NEW t \in 0 .. m - 1, NEW n \in 0 .. m
  PROVE  /\ ring_wrap(t + n, m) = IF t + n < m THEN t + n ELSE t + n - m
         /\ ring_wrap(t + n, m) \in 0 .. m - 1
<1> DEFINE x == t + n
<1>1. x \in Int /\ 0 <= x /\ x < 2 * m
  OBVIOUS
<1> HIDE DEF x
<1>2. x % m = (IF x < m THEN x ELSE x - m) /\ x % m \in 0 .. m - 1
  BY <1>1
<1> QED BY <1>1, <1>2 DEF x, ring_wrap

\* A slot needs no wrapping.
LEMMA WrapSlot ==
  ASSUME NEW m \in Nat \ {0}, NEW i \in 0 .. m - 1
  PROVE  ring_wrap(i, m) = i
BY DEF ring_wrap

\* The next slot.
LEMMA NextSlot ==
  ASSUME NEW m \in Nat \ {0}, NEW i \in 0 .. m - 1
  PROVE  /\ ring_wrap(i + 1, m) = IF i + 1 < m THEN i + 1 ELSE i + 1 - m
         /\ ring_wrap(i + 1, m) \in 0 .. m - 1
<1>1. 1 \in 0 .. m
  OBVIOUS
<1> QED BY <1>1, Advance

\* Distances once the slot they are measured from has moved on by n.
LEMMA DistanceFromAdvanced ==
  ASSUME NEW m \in Nat \ {0}, NEW i \in 0 .. m - 1, NEW t \in 0 .. m - 1,
         NEW n \in 0 .. m - 1
  PROVE  ring_wrap(i - ring_wrap(t + n, m), m)
           = IF ring_wrap(i - t, m) >= n THEN ring_wrap(i - t, m) - n
             ELSE ring_wrap(i - t, m) - n + m
<1> DEFINE a == ring_wrap(t + n, m)
           d == ring_wrap(i - t, m)
<1>0. n \in 0 .. m
  OBVIOUS
<1>1. a = (IF t + n < m THEN t + n ELSE t + n - m) /\ a \in 0 .. m - 1
  BY <1>0, Advance
<1>2. d = IF i >= t THEN i - t ELSE i - t + m
  BY Distance
<1> HIDE DEF a, d
<1>3. ring_wrap(i - a, m) = IF i >= a THEN i - a ELSE i - a + m
  BY <1>1, Distance
<1>4. ring_wrap(i - a, m) = IF d >= n THEN d - n ELSE d - n + m
  BY <1>1, <1>2, <1>3
<1> QED BY <1>4 DEF a, d

\* Distances to a slot that has moved on by n without passing slot t.
LEMMA DistanceToAdvanced ==
  ASSUME NEW m \in Nat \ {0}, NEW i \in 0 .. m - 1, NEW t \in 0 .. m - 1,
         NEW n \in Nat, ring_wrap(i - t, m) + n < m
  PROVE  /\ ring_wrap(i + n, m) \in 0 .. m - 1
         /\ ring_wrap(ring_wrap(i + n, m) - t, m) = ring_wrap(i - t, m) + n
<1> DEFINE a == ring_wrap(i + n, m)
           d == ring_wrap(i - t, m)
<1>1. d = (IF i >= t THEN i - t ELSE i - t + m) /\ d \in 0 .. m - 1 /\ d + n < m
  BY Distance
<1>2. n \in 0 .. m
  BY <1>1
<1>3. a = (IF i + n < m THEN i + n ELSE i + n - m) /\ a \in 0 .. m - 1
  BY <1>2, Advance
<1> HIDE DEF a, d
<1>4. ring_wrap(a - t, m) = IF a >= t THEN a - t ELSE a - t + m
  BY <1>3, Distance
<1>5. ring_wrap(a - t, m) = d + n
  BY <1>1, <1>2, <1>3, <1>4
<1> QED BY <1>3, <1>5 DEF a, d

\* The same for one step.
LEMMA DistanceToNext ==
  ASSUME NEW m \in Nat \ {0}, NEW i \in 0 .. m - 1, NEW t \in 0 .. m - 1,
         ring_wrap(i - t, m) + 1 < m
  PROVE  ring_wrap(ring_wrap(i + 1, m) - t, m) = ring_wrap(i - t, m) + 1
<1>1. 1 \in Nat
  OBVIOUS
<1> QED BY <1>1, DistanceToAdvanced

\* A slot is at distance 0 from itself only.
LEMMA NoDistance ==
  ASSUME NEW m \in Nat \ {0}, NEW i \in 0 .. m - 1, NEW t \in 0 .. m - 1
  PROVE  ring_wrap(i - t, m) = 0 <=> i = t
<1>1. ring_wrap(i - t, m) = IF i >= t THEN i - t ELSE i - t + m
  BY Distance
<1> QED BY <1>1

\* The slot at distance n from slot t.
LEMMA AtDistance ==
  ASSUME NEW m \in Nat \ {0}, NEW t \in 0 .. m - 1, NEW n \in 0 .. m - 1
  PROVE  /\ ring_wrap(t + n, m) \in 0 .. m - 1
         /\ ring_wrap(ring_wrap(t + n, m) - t, m) = n
<1>1. ring_wrap(t - t, m) = 0
  BY Distance
<1>2. n \in Nat /\ ring_wrap(t - t, m) + n < m /\ ring_wrap(t - t, m) + n = n
  BY <1>1
<1>3. ring_wrap(ring_wrap(t + n, m) - t, m) = ring_wrap(t - t, m) + n
  BY <1>2, DistanceToAdvanced
<1>4. ring_wrap(t + n, m) \in 0 .. m - 1
  BY <1>2, DistanceToAdvanced
<1> QED BY <1>2, <1>3, <1>4

\* Two slots at the same distance are one.
LEMMA SameDistance ==
  ASSUME NEW m \in Nat \ {0}, NEW i \in 0 .. m - 1, NEW j \in 0 .. m - 1,
         NEW t \in 0 .. m - 1, ring_wrap(i - t, m) = ring_wrap(j - t, m)
  PROVE  i = j
<1>1. ring_wrap(i - t, m) = IF i >= t THEN i - t ELSE i - t + m
  BY Distance
<1>2. ring_wrap(j - t, m) = IF j >= t THEN j - t ELSE j - t + m
  BY Distance
<1> QED BY <1>1, <1>2

-----------------------------------------------------------------------------
(* Sequence numbers. *)

\* Adding and subtracting sequence numbers gives sequence numbers.
LEMMA SeqType ==
  /\ \A s \in Int, n \in Int : SeqPlus(s, n) \in Sequence /\ SeqMinus(s, n) \in Sequence
  /\ 0 \in Sequence
  /\ \A s \in Sequence : s \in Nat /\ s < SeqCount
BY SeqCountAssumption DEF SeqPlus, SeqMinus, Sequence

\* Adding in two steps.
LEMMA SeqPlusPlus ==
  ASSUME NEW s \in Int, NEW n \in Int, NEW k \in Int
  PROVE  SeqPlus(SeqPlus(s, n), k) = SeqPlus(s, n + k)
<1>1. s + n \in Int /\ (s + n) + k = s + (n + k)
  OBVIOUS
<1>2. (((s + n) % SeqCount) + k) % SeqCount = ((s + n) + k) % SeqCount
  BY <1>1, ModPlus, SeqCountAssumption
<1> QED BY <1>1, <1>2 DEF SeqPlus

\* The successor of a sum.
LEMMA SeqNext ==
  ASSUME NEW s \in Sequence
  PROVE  /\ SeqPlus(s, 1) \in Sequence
         /\ \A n \in Nat : SeqPlus(SeqPlus(s, n), 1) = SeqPlus(s, n + 1)
<1>1. SeqPlus(s, 1) \in Sequence
  BY SeqCountAssumption DEF SeqPlus, Sequence
<1>2. \A n \in Nat : SeqPlus(SeqPlus(s, n), 1) = SeqPlus(s, n + 1)
  BY SeqPlusPlus, SeqType
<1> QED BY <1>1, <1>2

\* The difference of two sequence numbers.
LEMMA SeqDistance ==
  ASSUME NEW s \in Sequence, NEW t \in Sequence
  PROVE  SeqMinus(s, t) = IF s >= t THEN s - t ELSE s - t + SeqCount
BY Distance, SeqCountAssumption DEF SeqMinus, Sequence, ring_wrap

\* A difference of sequence numbers lies in their range.
LEMMA SeqMinusType ==
  ASSUME NEW s \in Sequence, NEW t \in Sequence
  PROVE  SeqMinus(s, t) \in Nat /\ SeqMinus(s, t) < SeqCount
BY SeqDistance, SeqCountAssumption DEF Sequence

\* What is added comes out as the difference.
LEMMA SeqMinusPlus ==
  ASSUME NEW s \in Sequence, NEW n \in Nat, n < SeqCount
  PROVE  SeqMinus(SeqPlus(s, n), s) = n
<1>1. n \in 0 .. SeqCount - 1
  BY SeqCountAssumption
<1> QED BY <1>1, AtDistance, SeqCountAssumption DEF SeqMinus, SeqPlus, Sequence, ring_wrap

\* The difference, added, leads back.
LEMMA SeqPlusMinus ==
  ASSUME NEW s \in Sequence, NEW t \in Sequence
  PROVE  SeqPlus(t, SeqMinus(s, t)) = s
<1> DEFINE d == SeqMinus(s, t)
<1>1. d = (IF s >= t THEN s - t ELSE s - t + SeqCount) /\ d \in 0 .. SeqCount
  BY SeqDistance, SeqCountAssumption DEF Sequence
<1> HIDE DEF d
<1>2. SeqPlus(t, d) = IF t + d < SeqCount THEN t + d ELSE t + d - SeqCount
  BY <1>1, Advance, SeqCountAssumption DEF SeqPlus, Sequence, ring_wrap
<1>3. SeqPlus(t, d) = s
  BY <1>1, <1>2, SeqCountAssumption DEF Sequence
<1> QED BY <1>3 DEF d

\* Adding nothing changes nothing.
LEMMA SeqPlusZero ==
  ASSUME NEW s \in Sequence
  PROVE  SeqPlus(s, 0) = s
<1>1. SeqMinus(s, s) = 0
  BY SeqDistance, SeqType
<1> QED BY <1>1, SeqPlusMinus

-----------------------------------------------------------------------------
(* Induction. *)

\* A set of numbers that is not empty has a least element.
LEMMA Least ==
  ASSUME NEW S, S \subseteq Nat, S # {}
  PROVE  \E n \in S : \A k \in S : n <= k
<1> DEFINE R == OpToRel(<, Nat)
<1>1. PICK x \in S : \A y \in S : ~(<<y, x>> \in R)
  BY NatLessThanWellFounded, WFMin
<1>2. \A y \in S : y < x => <<y, x>> \in R
  BY DEF OpToRel
<1>3. \A y \in S : ~(y < x)
  BY <1>1, <1>2, Zenon
<1> HIDE DEF R
<1>4. \A y \in S : x <= y
  BY <1>3, SMT
<1> QED BY <1>4

-----------------------------------------------------------------------------
(* Finite sets of numbers. *)

\* A set of numbers up to m is finite and has a cardinality.
LEMMA IntervalFinite ==
  ASSUME NEW m \in Nat, NEW K \in SUBSET (0 .. m)
  PROVE  IsFiniteSet(K) /\ Cardinality(K) \in Nat
<1>1. 0 \in Int /\ m \in Int
  OBVIOUS
<1>2. IsFiniteSet(0 .. m)
  BY <1>1, FS_Interval
<1>3. IsFiniteSet(K)
  BY <1>2, FS_Subset
<1> QED BY <1>3, FS_CardinalityType

\* A finite set of numbers has a j-th smallest element for every j up to its
\* cardinality.
LEMMA NthExists ==
  ASSUME NEW m \in Nat, NEW K \in SUBSET (0 .. m), NEW j \in 1 .. Cardinality(K)
  PROVE  \E k \in K : Cardinality({i \in K : i < k}) = j - 1
<1> DEFINE Below(k) == {i \in K : i < k}
           UpTo(k) == {i \in K : i <= k}
           S == {k \in 0 .. m : Cardinality(UpTo(k)) >= j}
<1>0. \A i \in K : i \in Int /\ 0 <= i /\ i <= m
  OBVIOUS
<1>1. IsFiniteSet(K) /\ Cardinality(K) \in Nat /\ j \in Nat /\ j >= 1 /\ j <= Cardinality(K)
  <2>1. Cardinality(K) \in Nat /\ IsFiniteSet(K)
    BY IntervalFinite
  <2> QED BY <2>1
<1>2. \A k : /\ IsFiniteSet(Below(k)) /\ Cardinality(Below(k)) \in Nat
             /\ IsFiniteSet(UpTo(k)) /\ Cardinality(UpTo(k)) \in Nat
  BY <1>1, FS_Subset, FS_CardinalityType
<1>3. m \in S
  <2>1. UpTo(m) = K
    BY <1>0
  <2> QED BY <1>1, <2>1
<1>4. PICK k \in S : \A i \in S : k <= i
  <2>1. S \subseteq Nat /\ S # {}
    <3>1. S \subseteq 0 .. m
      BY Zenon
    <3> HIDE DEF S
    <3> QED BY <1>3, <3>1
  <2> HIDE DEF S
  <2> QED BY <2>1, Least
<1>5. k \in 0 .. m /\ k \in Int /\ Cardinality(UpTo(k)) >= j
  OBVIOUS
<1>6. Cardinality(Below(k)) <= j - 1
  <2>1. CASE k = 0
    <3>1. \A i \in K : ~(i < k)
      BY <1>0, <2>1
    <3>2. Below(k) = {}
      BY <3>1, Zenon
    <3>3. Cardinality(Below(k)) = 0
      BY <3>2, FS_EmptySet
    <3> HIDE DEF Below
    <3> QED BY <1>1, <3>3
  <2>2. CASE k # 0
    <3>1. k - 1 \in 0 .. m /\ ~(k <= k - 1)
      BY <1>5, <2>2
    <3>2. k - 1 \notin S
      BY <1>4, <3>1
    <3>3. ~(Cardinality(UpTo(k - 1)) >= j)
      BY <3>1, <3>2
    <3>4. UpTo(k - 1) = Below(k)
      <4>1. \A i \in K : i <= k - 1 <=> i < k
        BY <1>0, <1>5
      <4> QED BY <4>1, Zenon
    <3>5. Cardinality(Below(k)) \in Nat
      BY <1>2
    <3> HIDE DEF UpTo, Below
    <3> QED BY <1>1, <3>3, <3>4, <3>5
  <2> QED BY <2>1, <2>2
<1>7. Cardinality(Below(k)) \in Nat /\ Cardinality(UpTo(k)) \in Nat
      /\ IsFiniteSet(Below(k)) /\ UpTo(k) = (IF k \in K THEN Below(k) \cup {k} ELSE Below(k))
      /\ k \notin Below(k)
  <2>1. k \notin Below(k)
    BY <1>0
  <2>2. UpTo(k) = IF k \in K THEN Below(k) \cup {k} ELSE Below(k)
    <3>1. \A i \in K : i <= k <=> (i < k \/ i = k)
      BY <1>0, <1>5
    <3>2. \A x : x \in UpTo(k) <=> x \in (IF k \in K THEN Below(k) \cup {k} ELSE Below(k))
      BY <3>1, Zenon
    <3> HIDE DEF UpTo, Below
    <3> QED BY <3>2
  <2> HIDE DEF UpTo, Below
  <2> QED BY <1>2, <2>1, <2>2
<1>8. k \in K /\ Cardinality(Below(k)) = j - 1
  <2> HIDE DEF UpTo, Below, S
  <2> DEFINE b == Below(k)
             u == UpTo(k)
  <2>0. /\ Cardinality(b) <= j - 1 /\ Cardinality(u) >= j
        /\ Cardinality(b) \in Nat /\ Cardinality(u) \in Nat /\ IsFiniteSet(b)
        /\ u = (IF k \in K THEN b \cup {k} ELSE b) /\ k \notin b
    BY <1>5, <1>6, <1>7, Zenon
  <2> HIDE DEF b, u
  <2>1. k \in K
    BY <1>1, <2>0
  <2>2. Cardinality(u) = Cardinality(b) + 1
    BY <2>0, <2>1, FS_AddElement
  <2>3. Cardinality(b) = j - 1
    BY <1>1, <2>0, <2>2
  <2> QED BY <2>1, <2>3 DEF b
<1>9. Cardinality({i \in K : i < k}) = j - 1
  BY <1>8
<1> QED BY <1>8, <1>9
===============================================================================
