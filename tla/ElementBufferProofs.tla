------------------------- MODULE ElementBufferProofs -------------------------
(***************************************************************************)
(* Theorems on the element buffer: every element is free or in one chain,  *)
(* chains read back what was stored, there is room for every ring slot,    *)
(* and the buffer implements PayloadBuffer.                                *)
(***************************************************************************)
EXTENDS ElementBuffer, TLAPS, FiniteSetTheorems, WellFoundedInduction

-----------------------------------------------------------------------------
(* Numbers. *)

\* A set of numbers that is not empty has a least element.
LEMMA Least ==
  ASSUME NEW S, S \subseteq Nat, S # {}
  PROVE  \E n \in S : \A k \in S : n <= k
<1> DEFINE R == OpToRel(<, Nat)
<1>1. PICK x \in S : \A y \in S : ~(<<y, x>> \in R)
  BY NatLessThanWellFounded, WFMin
<1>2. \A y \in S : y < x => <<y, x>> \in R
  BY DEF OpToRel
<1>3. \A y \in S : ~(y < x)
  BY <1>1, <1>2, Zenon
<1> HIDE DEF R
<1>4. \A y \in S : x <= y
  BY <1>3, SMT
<1> QED BY <1>4

\* Induction up to a bound, on a set.
LEMMA UpTo ==
  ASSUME NEW N \in Nat, NEW S, 0 \in S, \A n \in 1 .. N : n - 1 \in S => n \in S
  PROVE  \A n \in 0 .. N : n \in S
<1> SUFFICES ASSUME {n \in 0 .. N : n \notin S} # {} PROVE FALSE
  OBVIOUS
<1>1. PICK n \in 0 .. N : n \notin S /\ \A k \in 0 .. N : k \notin S => n <= k
  <2> DEFINE T == {n \in 0 .. N : n \notin S}
  <2>1. T \subseteq Nat /\ T # {}
    OBVIOUS
  <2> HIDE DEF T
  <2>2. PICK n \in T : \A k \in T : n <= k
    BY <2>1, Least
  <2> QED BY <2>2 DEF T
<1>2. n \in 1 .. N /\ n - 1 \in 0 .. N /\ ~(n <= n - 1)
  BY <1>1
<1>3. n - 1 \in S
  BY <1>1, <1>2
<1> QED BY <1>1, <1>2, <1>3

\* A larger factor gives a larger product.
LEMMA ProductGrows ==
  ASSUME NEW a \in Int, NEW b \in Int, NEW d \in Nat, a <= b
  PROVE  a * d <= b * d
OBVIOUS

\* Quotient and remainder.
LEMMA Division ==
  ASSUME NEW a \in Nat, NEW d \in Nat \ {0}
  PROVE  /\ a \div d \in Nat /\ a % d \in 0 .. d - 1
         /\ a = (a \div d) * d + (a % d)
OBVIOUS

\* What is the quotient.
LEMMA Quotient ==
  ASSUME NEW a \in Nat, NEW d \in Nat \ {0}, NEW q \in Nat, q * d <= a, a < q * d + d
  PROVE  a \div d = q
<1> DEFINE p == a \div d
           r == a % d
<1>1. p \in Nat /\ r \in 0 .. d - 1 /\ a = p * d + r
  BY Division
<1> HIDE DEF p, r
<1>2. CASE p <= q - 1
  <2>1. p * d <= (q - 1) * d /\ (q - 1) * d = q * d - d
    BY <1>1, <1>2, ProductGrows
  <2> QED BY <1>1, <2>1
<1>3. CASE q <= p - 1
  <2>1. q * d <= (p - 1) * d /\ (p - 1) * d = p * d - d
    BY <1>1, <1>3, ProductGrows
  <2> QED BY <1>1, <2>1
<1>4. p = q
  BY <1>1, <1>2, <1>3
<1> QED BY <1>4 DEF p

\* Quotients grow with the dividend.
LEMMA QuotientGrows ==
  ASSUME NEW a \in Nat, NEW b \in Nat, NEW d \in Nat \ {0}, a <= b
  PROVE  a \div d <= b \div d
<1> DEFINE p == a \div d
           q == b \div d
           r == a % d
           s == b % d
<1>1. p \in Nat /\ r \in 0 .. d - 1 /\ a = p * d + r
  BY Division
<1>2. q \in Nat /\ s \in 0 .. d - 1 /\ b = q * d + s
  BY Division
<1> HIDE DEF p, q, r, s
<1>3. CASE q <= p - 1
  <2>1. q * d <= (p - 1) * d /\ (p - 1) * d = p * d - d
    BY <1>1, <1>2, <1>3, ProductGrows
  <2> QED BY <1>1, <1>2, <2>1
<1>4. p <= q
  BY <1>1, <1>2, <1>3
<1> QED BY <1>4 DEF p, q

-----------------------------------------------------------------------------
(* Sizes. *)

\* Elements that a payload takes.
Need(p) == sky_element_buffer_element_requirement(Length[p])

\* The constants.
LEMMA Sizes ==
  /\ ring_slots \in Nat \ {0} /\ EB_LEN_BYTES \in Nat \ {0} /\ MaxLength \in Nat
  /\ UsableSpace \in Nat \ {0} /\ EB_LEN_BYTES < UsableSpace
  /\ \A p \in Payload : Length[p] \in Nat /\ Length[p] <= MaxLength
  /\ NoPayload \notin Payload
BY ElementBufferAssumption DEF ring_slots

\* A length takes at least one element, and the longest one the most.
LEMMA NeedBounds ==
  ASSUME NEW l \in Nat, l <= MaxLength
  PROVE  /\ sky_element_buffer_element_requirement(l) \in Nat \ {0}
         /\ sky_element_buffer_element_requirement(l)
              <= sky_element_buffer_element_requirement(MaxLength)
<1> DEFINE a == l + EB_LEN_BYTES + UsableSpace - 1
           b == MaxLength + EB_LEN_BYTES + UsableSpace - 1
<1>1. a \in Nat /\ b \in Nat /\ a <= b /\ UsableSpace <= a /\ UsableSpace \in Nat
  BY Sizes
<1> HIDE DEF a, b
<1>2. a \div UsableSpace <= b \div UsableSpace /\ a \div UsableSpace \in Nat
  BY <1>1, QuotientGrows, Division, Sizes
<1>3. UsableSpace \div UsableSpace = 1
  <2>1. 1 \in Nat /\ 1 * UsableSpace <= UsableSpace /\ UsableSpace < 1 * UsableSpace + UsableSpace
    BY Sizes
  <2> QED BY <1>1, <2>1, Quotient, Sizes
<1>4. UsableSpace \div UsableSpace <= a \div UsableSpace
  BY <1>1, QuotientGrows, Sizes
<1>5. a \div UsableSpace \in Nat \ {0}
  BY <1>2, <1>3, <1>4
<1> QED BY <1>2, <1>5 DEF a, b, sky_element_buffer_element_requirement

\* A payload takes at least one element, and no more than the buffer has.
LEMMA NeedType ==
  ASSUME NEW p \in Payload
  PROVE  /\ Need(p) \in Nat \ {0}
         /\ Need(p) <= sky_element_buffer_element_requirement(MaxLength)
BY Sizes, NeedBounds DEF Need

\* The number of elements.
LEMMA CountType ==
  /\ sky_element_buffer_element_requirement(MaxLength) \in Nat \ {0}
  /\ element_count \in Nat \ {0}
  /\ sky_element_buffer_element_requirement(MaxLength) <= element_count
  /\ 0 \in Element
<1> DEFINE n == sky_element_buffer_element_requirement(MaxLength)
<1>1. n \in Nat \ {0}
  BY Sizes, NeedBounds
<1> HIDE DEF n
<1>2. ring_slots * n \in Nat \ {0} /\ n <= ring_slots * n
  <2>1. 1 * n <= ring_slots * n /\ ring_slots * n \in Int
    BY <1>1, Sizes, ProductGrows
  <2> QED BY <1>1, <2>1
<1>3. element_count \in Nat \ {0} /\ n <= element_count /\ n \in Nat \ {0}
  BY <1>1, <1>2 DEF n, element_count
<1>4. 0 \in Element
  BY <1>3 DEF Element
<1> QED BY <1>3, <1>4 DEF n

\* Elements are finitely many.
LEMMA ElementsFinite ==
  /\ IsFiniteSet(Element) /\ Cardinality(Element) = element_count
  /\ \A S \in SUBSET Element : IsFiniteSet(S) /\ Cardinality(S) \in Nat
<1>1. 0 \in Int /\ element_count - 1 \in Int /\ ~(0 > element_count - 1)
  BY CountType
<1>2. IsFiniteSet(Element)
  BY <1>1, FS_Interval DEF Element
<1>3. Cardinality(Element) = element_count
  <2>1. Cardinality(0 .. element_count - 1) = (element_count - 1) - 0 + 1
    BY <1>1, FS_Interval
  <2> QED BY <2>1, CountType DEF Element
<1>4. \A S \in SUBSET Element : IsFiniteSet(S) /\ Cardinality(S) \in Nat
  BY <1>2, FS_Subset, FS_CardinalityType
<1> QED BY <1>2, <1>3, <1>4

-----------------------------------------------------------------------------
(* The search for free elements. *)

\* How many elements of S have a lower number than x.
Rank(S, g, x) == Cardinality({y \in S : g[y] < g[x]})

\* A finite set whose elements have different numbers has an n-th one for every
\* n below its cardinality.
LEMMA NthElement ==
  ASSUME NEW S, IsFiniteSet(S), NEW g \in [S -> Nat], \A x, y \in S : g[x] = g[y] => x = y,
         NEW n \in Nat, n < Cardinality(S)
  PROVE  \E x \in S : Rank(S, g, x) = n
<1> DEFINE Below(x) == {y \in S : g[y] < g[x]}
           From(x) == {y \in S : g[x] < g[y]}
           T == {k \in 0 .. n : \E x \in S : Cardinality(Below(x)) = k}
<1>1. Cardinality(S) \in Nat /\ S # {}
  BY FS_CardinalityType, FS_EmptySet
<1>2. \A U \in SUBSET S : IsFiniteSet(U) /\ Cardinality(U) \in Nat
  BY FS_Subset, FS_CardinalityType
\* The first of the elements of a part.
<1>3. ASSUME NEW U \in SUBSET S, U # {}
      PROVE  \E x \in U : \A y \in U : ~(g[y] < g[x])
  <2> DEFINE G == {g[y] : y \in U}
  <2>1. G \subseteq Nat /\ G # {}
    BY <1>3
  <2> HIDE DEF G
  <2>2. PICK k \in G : \A l \in G : k <= l
    BY <2>1, Least
  <2>3. PICK x \in U : k = g[x]
    BY <2>2 DEF G
  <2>4. \A y \in U : g[y] \in G /\ g[y] \in Nat
    BY DEF G
  <2>5. \A y \in U : ~(g[y] < g[x])
    BY <2>2, <2>3, <2>4
  <2> QED BY <2>3, <2>5
<1>4. 0 \in T
  <2>1. PICK x \in S : \A y \in S : ~(g[y] < g[x])
    BY <1>1, <1>3
  <2>2. Below(x) = {}
    BY <2>1
  <2>3. Cardinality(Below(x)) = 0
    BY <2>2, FS_EmptySet
  <2>4. 0 \in 0 .. n
    OBVIOUS
  <2> HIDE DEF Below
  <2> QED BY <2>3, <2>4
<1>5. ASSUME NEW k \in 1 .. n, k - 1 \in T
      PROVE  k \in T
  <2>1. PICK x \in S : Cardinality(Below(x)) = k - 1
    BY <1>5
  <2>2. Below(x) \in SUBSET S /\ From(x) \in SUBSET S /\ x \notin Below(x)
    <3>1. ~(g[x] < g[x])
      OBVIOUS
    <3> QED BY <3>1
  <2>3. \A y \in S : g[y] < g[x] \/ g[x] < g[y] \/ y = x
    OBVIOUS
  <2>4. S = (Below(x) \cup {x}) \cup From(x)
    BY <2>3
  <2> DEFINE B == Below(x) \cup {x}
  <2>5. IsFiniteSet(Below(x)) /\ IsFiniteSet(B) /\ Cardinality(B) = k
    <3>1. IsFiniteSet(Below(x))
      BY <1>2, <2>2
    <3> HIDE DEF Below
    <3>2. IsFiniteSet(B) /\ Cardinality(B) = (k - 1) + 1
      BY <2>1, <2>2, <3>1, FS_AddElement
    <3> QED BY <3>1, <3>2
  <2>6. From(x) # {}
    <3>1. ASSUME From(x) = {} PROVE FALSE
      <4>1. S = B
        BY <2>4, <3>1
      <4> HIDE DEF B, Below, From
      <4>2. Cardinality(S) = k
        BY <2>5, <4>1
      <4> QED BY <4>2, <1>1
    <3> QED BY <3>1
  <2>7. PICK z \in From(x) : \A y \in From(x) : ~(g[y] < g[z])
    BY <1>3, <2>2, <2>6
  <2>8. z \in S /\ g[x] < g[z]
    BY <2>7
  <2>9. Below(z) = B
    <3>1. ASSUME NEW y \in S PROVE g[y] < g[z] <=> y \in B
      <4>1. CASE g[y] < g[x]
        BY <2>8, <4>1
      <4>2. CASE y = x
        BY <2>8, <4>2
      <4>3. CASE g[x] < g[y]
        <5>1. y \in From(x)
          BY <4>3
        <5>2. ~(g[y] < g[z])
          BY <2>7, <5>1
        <5>3. ~(g[y] < g[x]) /\ y # x
          BY <4>3
        <5> QED BY <5>2, <5>3
      <4> QED BY <2>3, <4>1, <4>2, <4>3
    <3>2. B \in SUBSET S
      BY <2>2
    <3> QED BY <3>1, <3>2
  <2>10. Cardinality(Below(z)) = k /\ k \in 0 .. n
    BY <2>5, <2>9
  <2> HIDE DEF Below, From, B
  <2> QED BY <2>8, <2>10
<1> HIDE DEF T, Below
<1>6. n \in T
  <2>1. \A k \in 1 .. n : k - 1 \in T => k \in T
    BY <1>5
  <2>2. \A k \in 0 .. n : k \in T
    BY <1>4, <2>1, UpTo
  <2> QED BY <2>2
<1>7. PICK x \in S : Cardinality(Below(x)) = n
  BY <1>6 DEF T
<1> QED BY <1>7 DEF Below, Rank

\* Different elements are at different distances from where the search starts.
LEMMA SearchOrder ==
  ASSUME last_write_index \in Element
  PROVE  /\ \A e \in Element : FromLastWrite(e) \in Nat
         /\ \A e, i \in Element : FromLastWrite(e) = FromLastWrite(i) => e = i
<1> DEFINE m == element_count
           w == last_write_index
<1>1. m \in Nat \ {0} /\ w \in 0 .. m - 1
  BY CountType DEF Element
<1> HIDE DEF m, w
<1>2. ASSUME NEW e \in 0 .. m - 1
      PROVE  (e - w) % m = (IF e >= w THEN e - w ELSE e - w + m) /\ (e - w) % m \in Nat
  <2> DEFINE x == e - w
  <2>1. x \in Int /\ 0 - m <= x /\ x < m /\ (x >= 0 <=> e >= w)
    BY <1>1
  <2> HIDE DEF x
  <2>2. x % m = (IF x >= 0 THEN x ELSE x + m) /\ x % m \in Nat
    BY <1>1, <2>1
  <2> QED BY <2>1, <2>2 DEF x
<1>3. \A e, i \in 0 .. m - 1 : (e - w) % m = (i - w) % m => e = i
  <2> TAKE e, i \in 0 .. m - 1
  <2>1. (e - w) % m = IF e >= w THEN e - w ELSE e - w + m
    BY <1>2
  <2>2. (i - w) % m = IF i >= w THEN i - w ELSE i - w + m
    BY <1>2
  <2> QED BY <1>1, <2>1, <2>2
<1> QED BY <1>2, <1>3 DEF m, w, Element, FromLastWrite

\* The search finds free elements, and different ones.
LEMMA SearchFinds ==
  ASSUME last_write_index \in Element, NEW n \in Nat, n <= Cardinality(Free)
  PROVE  /\ \A i \in 0 .. n - 1 : element_buffer_get_n_free(i) \in Free
         /\ \A i, j \in 0 .. n - 1 :
              element_buffer_get_n_free(i) = element_buffer_get_n_free(j) => i = j
<1> DEFINE Before(e) == {j \in Free : FromLastWrite(j) < FromLastWrite(e)}
           g == [e \in Free |-> FromLastWrite(e)]
<1>1. Free \in SUBSET Element /\ IsFiniteSet(Free) /\ Cardinality(Free) \in Nat
  BY ElementsFinite DEF Free
<1>2. g \in [Free -> Nat] /\ \A x, y \in Free : g[x] = g[y] => x = y
  BY <1>1, SearchOrder
<1>3. \A x \in Free : Rank(Free, g, x) = Cardinality(Before(x))
  <2>1. \A x \in Free : {y \in Free : g[y] < g[x]} = Before(x)
    OBVIOUS
  <2> QED BY <2>1 DEF Rank
<1>4. ASSUME NEW i \in 0 .. n - 1
      PROVE  element_buffer_get_n_free(i) \in Free
             /\ Cardinality(Before(element_buffer_get_n_free(i))) = i
  <2>1. i \in Nat /\ i < Cardinality(Free)
    BY <1>1
  <2> HIDE DEF g
  <2>2. \E x \in Free : Rank(Free, g, x) = i
    BY <1>1, <1>2, <2>1, NthElement
  <2>3. \E x \in Free : Cardinality(Before(x)) = i
    BY <1>3, <2>2
  <2> QED BY <2>3 DEF element_buffer_get_n_free
<1> HIDE DEF Before
<1> QED BY <1>4

-----------------------------------------------------------------------------
(* How chains lie in the pool. *)

\* The data of the i-th element of a chain that holds payload p: the length at
\* the beginning of the first one, and the bytes that are to be there.
Kept(p, i, data) ==
  \A c \in Cells :
    /\ i = 0 /\ c < EB_LEN_BYTES => data[c] = <<"length", Length[p]>>
    /\ i * UsableSpace + c - EB_LEN_BYTES \in 0 .. Length[p] - 1 =>
         data[c] = <<p, i * UsableSpace + c - EB_LEN_BYTES>>

\* The chain of payload p lies in the elements c[0], c[1], ...
ChainAt(p, c) ==
  /\ c \in [0 .. Need(p) - 1 -> Element]
  /\ \A i \in 0 .. Need(p) - 1 :
       /\ pool[c[i]].previous = IF i = 0 THEN EB_END_IDX ELSE c[i - 1]
       /\ pool[c[i]].next = IF i = Need(p) - 1 THEN EB_END_IDX ELSE c[i + 1]
       /\ Kept(p, i, pool[c[i]].data)

\* Every first element begins the chain of a payload, chains have no element in
\* common, and every element that is not free is in one.
Layout(pay, at) ==
  /\ \A f \in Firsts : pay[f] \in Payload /\ ChainAt(pay[f], at[f]) /\ at[f][0] = f
  /\ \A f, g \in Firsts : \A i \in 0 .. Need(pay[f]) - 1, j \in 0 .. Need(pay[g]) - 1 :
       at[f][i] = at[g][j] => f = g /\ i = j
  /\ \A e \in Element \ Free :
       \E f \in Firsts : \E i \in 0 .. Need(pay[f]) - 1 : e = at[f][i]

\* Links and data are in range.
PoolType == pool \in [Element -> [previous : Link, next : Link, data : [Cells -> Byte]]]

\* The inductive invariant.
Inv ==
  /\ PoolType
  /\ last_write_index \in Element
  /\ free_elements = Cardinality(Free)
  /\ \E pay, at : Layout(pay, at)

\* Links beyond the end and of free elements are no elements.
LEMMA Links ==
  /\ EB_END_IDX # EB_NULL_IDX /\ EB_END_IDX \notin Element /\ EB_NULL_IDX \notin Element
BY LinkAssumption

\* First elements are not free.
LEMMA FirstFacts ==
  ASSUME NEW f \in Firsts
  PROVE  f \in Element /\ f \notin Free
BY Links DEF Firsts, Free, element_is_first, element_is_free

\* The elements of a chain are not free; the first one begins it and the last one
\* ends it.
LEMMA ChainFacts ==
  ASSUME NEW p \in Payload, NEW c, ChainAt(p, c), NEW i \in 0 .. Need(p) - 1
  PROVE  /\ c[i] \in Element /\ c[i] \notin Free
         /\ element_is_first(c[i]) <=> i = 0
         /\ element_is_last(c[i]) <=> i = Need(p) - 1
         /\ i # Need(p) - 1 => i + 1 \in 0 .. Need(p) - 1 /\ pool[c[i]].next = c[i + 1]
<1>1. Need(p) \in Nat \ {0} /\ i \in Int
  BY NeedType
<1>2. c[i] \in Element
  BY DEF ChainAt
<1>3. i # Need(p) - 1 => i + 1 \in 0 .. Need(p) - 1 /\ c[i + 1] \in Element
  BY <1>1 DEF ChainAt
<1>4. i # 0 => i - 1 \in 0 .. Need(p) - 1 /\ c[i - 1] \in Element
  BY <1>1 DEF ChainAt
<1>5. /\ pool[c[i]].previous = IF i = 0 THEN EB_END_IDX ELSE c[i - 1]
      /\ pool[c[i]].next = IF i = Need(p) - 1 THEN EB_END_IDX ELSE c[i + 1]
  BY DEF ChainAt
<1> QED BY <1>2, <1>3, <1>4, <1>5, Links DEF Free, element_is_free, element_is_first, element_is_last

\* Following the links leads along the chain.
LEMMA WalkAlong ==
  ASSUME NEW p \in Payload, NEW c, ChainAt(p, c), NEW i \in 0 .. Need(p) - 1
  PROVE  Walk(c[0], i) = c[i]
<1> DEFINE walked == CHOOSE walk : walk = [k \in 0 .. i |->
             IF k = 0 THEN c[0]
             ELSE IF walk[k - 1] \in Element THEN pool[walk[k - 1]].next ELSE walk[k - 1]]
           t == [k \in 0 .. i |-> c[k]]
<1>0. Need(p) \in Nat \ {0} /\ i \in Nat /\ i \in Int /\ i <= Need(p) - 1
  BY NeedType
<1>1. \A k \in 1 .. i : /\ k - 1 \in 0 .. i /\ k \in 0 .. i /\ k # 0
                        /\ c[k - 1] \in Element /\ pool[c[k - 1]].next = c[k]
  <2> TAKE k \in 1 .. i
  <2>1. k - 1 \in 0 .. Need(p) - 1 /\ k - 1 # Need(p) - 1 /\ (k - 1) + 1 = k
        /\ k - 1 \in 0 .. i /\ k \in 0 .. i /\ k # 0
    BY <1>0
  <2>2. c[k - 1] \in Element /\ pool[c[k - 1]].next = c[(k - 1) + 1]
    BY <2>1, ChainFacts
  <2> QED BY <2>1, <2>2
<1>2. t = [k \in 0 .. i |->
             IF k = 0 THEN c[0]
             ELSE IF t[k - 1] \in Element THEN pool[t[k - 1]].next ELSE t[k - 1]]
  <2>1. \A k \in 0 .. i : k = 0 \/ k \in 1 .. i
    BY <1>0
  <2> QED BY <1>1, <2>1
<1> HIDE DEF t
<1>3. walked = [k \in 0 .. i |->
             IF k = 0 THEN c[0]
             ELSE IF walked[k - 1] \in Element THEN pool[walked[k - 1]].next ELSE walked[k - 1]]
  BY <1>2
<1>4. Walk(c[0], i) = walked[i]
  BY DEF Walk
<1> HIDE DEF walked
<1> DEFINE T == {k \in 0 .. i : walked[k] = c[k]}
<1>5. 0 \in T
  BY <1>0, <1>3
<1>6. ASSUME NEW k \in 1 .. i, k - 1 \in T PROVE k \in T
  <2>1. walked[k - 1] = c[k - 1]
    BY <1>6
  <2>2. walked[k] = IF walked[k - 1] \in Element THEN pool[walked[k - 1]].next ELSE walked[k - 1]
    BY <1>1, <1>3
  <2> QED BY <1>1, <2>1, <2>2
<1>7. \A k \in 0 .. i : k \in T
  <2> HIDE DEF T
  <2> QED BY <1>0, <1>5, <1>6, UpTo
<1> QED BY <1>0, <1>4, <1>7

\* The elements of a chain are those that sky_element_buffer_delete wipes.
LEMMA ChainElements ==
  ASSUME NEW p \in Payload, NEW c, ChainAt(p, c)
  PROVE  Chain(c[0]) = {c[i] : i \in 0 .. Need(p) - 1}
<1> DEFINE n == Need(p)
           M == {m \in 0 .. element_count - 1 : \A k \in 0 .. m - 1 : ~element_is_last(Walk(c[0], k))}
<1>1. n \in Nat \ {0} /\ element_count \in Nat /\ n <= element_count
  <2>1. n \in Nat \ {0} /\ n <= sky_element_buffer_element_requirement(MaxLength)
    BY NeedType
  <2> HIDE DEF n
  <2> QED BY <2>1, CountType
<1>2. \A k \in 0 .. n - 1 : Walk(c[0], k) = c[k] /\ (element_is_last(c[k]) <=> k = n - 1)
  BY WalkAlong, ChainFacts
<1> HIDE DEF n
<1>3. M = 0 .. n - 1
  <2>1. ASSUME NEW m \in 0 .. n - 1 PROVE m \in M
    <3>1. m \in 0 .. element_count - 1
      BY <1>1
    <3>2. ASSUME NEW k \in 0 .. m - 1 PROVE ~element_is_last(Walk(c[0], k))
      <4>1. k \in 0 .. n - 1 /\ k # n - 1
        BY <1>1
      <4> QED BY <1>2, <4>1
    <3> QED BY <3>1, <3>2
  <2>2. ASSUME NEW m \in M, m \notin 0 .. n - 1 PROVE FALSE
    <3>1. m \in 0 .. element_count - 1
      OBVIOUS
    <3>2. n - 1 \in 0 .. m - 1 /\ n - 1 \in 0 .. n - 1
      BY <1>1, <2>2, <3>1
    <3>3. element_is_last(Walk(c[0], n - 1))
      BY <1>2, <3>2
    <3>4. ~element_is_last(Walk(c[0], n - 1))
      BY <3>2
    <3> QED BY <3>3, <3>4
  <2> HIDE DEF M
  <2> QED BY <2>1, <2>2
<1>4. Chain(c[0]) = {Walk(c[0], m) : m \in M}
  BY DEF Chain
<1> HIDE DEF M
<1>5. {Walk(c[0], m) : m \in M} = {c[m] : m \in 0 .. n - 1}
  BY <1>2, <1>3
<1> QED BY <1>4, <1>5 DEF n

\* The bytes of a payload.
Bytes(p) == [k \in 0 .. Length[p] - 1 |-> <<p, k>>]

\* The length is found at the start of a chain.
LEMMA LengthFound ==
  ASSUME NEW p \in Payload, NEW c, ChainAt(p, c)
  PROVE  sky_element_buffer_get_data_length(c[0]) = Length[p]
<1>1. 0 \in 0 .. Need(p) - 1 /\ 0 \in Cells /\ 0 < EB_LEN_BYTES
  BY NeedType, Sizes DEF Cells
<1>2. Kept(p, 0, pool[c[0]].data)
  BY <1>1 DEF ChainAt
<1>3. pool[c[0]].data[0] = <<"length", Length[p]>>
  BY <1>1, <1>2 DEF Kept
<1> QED BY <1>3 DEF sky_element_buffer_get_data_length

\* Where the k-th byte of a payload is.
LEMMA PlaceOfByte ==
  ASSUME NEW p \in Payload, NEW k \in 0 .. Length[p] - 1
  PROVE  /\ (k + EB_LEN_BYTES) \div UsableSpace \in 0 .. Need(p) - 1
         /\ (k + EB_LEN_BYTES) % UsableSpace \in Cells
         /\ ((k + EB_LEN_BYTES) \div UsableSpace) * UsableSpace
              + ((k + EB_LEN_BYTES) % UsableSpace) - EB_LEN_BYTES = k
<1> DEFINE a == k + EB_LEN_BYTES
           l == Length[p]
           b == l + EB_LEN_BYTES + UsableSpace - 1
           i == a \div UsableSpace
           j == a % UsableSpace
           n == b \div UsableSpace
<1>1. k \in Nat /\ l \in Nat /\ k < l /\ a \in Nat /\ b \in Nat
  BY Sizes
<1>2. i \in Nat /\ j \in 0 .. UsableSpace - 1 /\ a = i * UsableSpace + j
  BY <1>1, Division, Sizes
<1>3. (a + UsableSpace) \div UsableSpace = i + 1
  <2> DEFINE q == i + 1
             s == a + UsableSpace
  <2>1. q \in Nat /\ s \in Nat /\ q * UsableSpace = i * UsableSpace + UsableSpace
    BY <1>1, <1>2, Sizes
  <2>2. q * UsableSpace <= s /\ s < q * UsableSpace + UsableSpace
    BY <1>2, <2>1, Sizes
  <2> HIDE DEF q, s
  <2>3. s \div UsableSpace = q
    BY <2>1, <2>2, Quotient, Sizes
  <2> QED BY <2>3 DEF q, s
<1>4. (a + UsableSpace) \div UsableSpace <= n
  <2> DEFINE s == a + UsableSpace
  <2>1. s \in Nat /\ s <= b
    BY <1>1, Sizes
  <2> HIDE DEF s, b
  <2>2. s \div UsableSpace <= b \div UsableSpace
    BY <1>1, <2>1, QuotientGrows, Sizes
  <2> QED BY <2>2 DEF s
<1>5. n = Need(p)
  BY DEF Need, sky_element_buffer_element_requirement
<1>6. Need(p) \in Nat
  BY NeedType
<1> HIDE DEF i, j, n
<1>7. i \in 0 .. Need(p) - 1
  BY <1>2, <1>3, <1>4, <1>5, <1>6
<1>8. j \in Cells
  BY <1>2 DEF Cells
<1>9. i * UsableSpace + j - EB_LEN_BYTES = k
  <2>1. i * UsableSpace \in Int /\ j \in Int
    BY <1>2, Sizes
  <2> QED BY <1>1, <1>2, <2>1, Sizes
<1> QED BY <1>7, <1>8, <1>9 DEF i, j

\* What is read from a chain is its payload.
LEMMA ChainRead ==
  ASSUME NEW p \in Payload, NEW c, ChainAt(p, c)
  PROVE  /\ element_is_first(c[0]) /\ ChainIntact(c[0])
         /\ ReadBytes(c[0]) = Bytes(p)
<1>1. Need(p) \in Nat \ {0} /\ 0 \in 0 .. Need(p) - 1 /\ Need(p) - 1 \in 0 .. Need(p) - 1
  BY NeedType
<1>2. sky_element_buffer_get_data_length(c[0]) = Length[p]
  BY LengthFound
<1>3. \A i \in 0 .. Need(p) - 1 : Walk(c[0], i) = c[i]
  BY WalkAlong
<1>4. element_is_first(c[0])
  BY <1>1, ChainFacts
<1>5. ChainIntact(c[0])
  <2>1. \A i \in 0 .. Need(p) - 1 : c[i] \in Element /\ c[i] \notin Free
    BY ChainFacts
  <2>2. element_is_last(c[Need(p) - 1])
    BY <1>1, ChainFacts
  <2> QED BY <1>1, <1>2, <1>3, <2>1, <2>2 DEF ChainIntact, Need
<1>6. ASSUME NEW k \in 0 .. Length[p] - 1
      PROVE  LET i == (k + EB_LEN_BYTES) \div UsableSpace
             IN  pool[Walk(c[0], i)].data[(k + EB_LEN_BYTES) % UsableSpace] = <<p, k>>
  <2> DEFINE i == (k + EB_LEN_BYTES) \div UsableSpace
             j == (k + EB_LEN_BYTES) % UsableSpace
  <2>1. i \in 0 .. Need(p) - 1 /\ j \in Cells /\ i * UsableSpace + j - EB_LEN_BYTES = k
    BY PlaceOfByte
  <2> HIDE DEF i, j
  <2>2. Kept(p, i, pool[c[i]].data)
    BY <2>1 DEF ChainAt
  <2>3. pool[c[i]].data[j] = <<p, k>>
    BY <2>1, <2>2 DEF Kept
  <2>4. pool[Walk(c[0], i)].data[j] = <<p, k>>
    BY <1>3, <2>1, <2>3
  <2> QED BY <2>4 DEF i, j
<1>7. ReadBytes(c[0]) = Bytes(p)
  <2>1. ReadBytes(c[0]) = [k \in 0 .. Length[p] - 1 |->
          pool[Walk(c[0], (k + EB_LEN_BYTES) \div UsableSpace)].data[(k + EB_LEN_BYTES) % UsableSpace]]
    BY <1>2 DEF ReadBytes
  <2> QED BY <1>6, <2>1 DEF Bytes
<1> QED BY <1>4, <1>5, <1>7

\* A first element reads as the payload its chain holds, and what is no first
\* element does not read.
ReadsAs ==
  \A pay, at : Layout(pay, at) =>
    \A e \in Element, q \in Payload :
      ReadsPayload(e, q) <=> e \in Firsts /\ Bytes(pay[e]) = Bytes(q)

\* It follows from the layout alone.
LEMMA ReadsLaid == ReadsAs
<1> SUFFICES ASSUME NEW pay, NEW at, Layout(pay, at), NEW e \in Element, NEW q \in Payload
             PROVE  ReadsPayload(e, q) <=> e \in Firsts /\ Bytes(pay[e]) = Bytes(q)
  BY DEF ReadsAs
<1>1. CASE e \in Firsts
  <2>1. pay[e] \in Payload /\ ChainAt(pay[e], at[e]) /\ at[e][0] = e
    BY <1>1 DEF Layout
  <2>2. element_is_first(e) /\ ChainIntact(e) /\ ReadBytes(e) = Bytes(pay[e])
    BY <2>1, ChainRead
  <2> QED BY <1>1, <2>2 DEF ReadsPayload, Bytes
<1>2. CASE e \notin Firsts
  BY <1>2 DEF ReadsPayload, Firsts
<1> QED BY <1>1, <1>2

-----------------------------------------------------------------------------
(* Storing. *)

\* Copying puts the bytes of a payload where they belong.
LEMMA CopiedKept ==
  ASSUME NEW p \in Payload, NEW i \in Nat, NEW data \in [Cells -> Byte]
  PROVE  Copied(p, i, data) \in [Cells -> Byte] /\ Kept(p, i, Copied(p, i, data))
<1> DEFINE l == Length[p]
           t == i * UsableSpace
           d == Copied(p, i, data)
           to == CellCursor(i) .. CellCursor(i) + ToCopy(i, l) - 1
<1>1. l \in Nat /\ l <= MaxLength /\ t \in Int
  BY Sizes
<1>2. i # 0 => t >= UsableSpace
  <2>1. i # 0 => 1 * UsableSpace <= i * UsableSpace
    BY Sizes, ProductGrows
  <2> QED BY <2>1, Sizes
<1>3. i = 0 => t = 0
  BY Sizes
<1>4. CellCursor(i) = (IF i = 0 THEN EB_LEN_BYTES ELSE 0)
      /\ DataCursor(i) = (IF i = 0 THEN 0 ELSE t - EB_LEN_BYTES)
  BY DEF CellCursor, DataCursor
<1>5. ToCopy(i, l) = IF UsableSpace - CellCursor(i) > l - DataCursor(i)
                     THEN l - DataCursor(i) ELSE UsableSpace - CellCursor(i)
  BY DEF ToCopy
<1> HIDE DEF l, t
<1>6. ASSUME NEW c \in Cells
      PROVE  /\ c \in to => c - CellCursor(i) + DataCursor(i) = t + c - EB_LEN_BYTES
                            /\ t + c - EB_LEN_BYTES \in 0 .. l - 1
                            /\ DataCursor(i) + c - CellCursor(i) = t + c - EB_LEN_BYTES
             /\ t + c - EB_LEN_BYTES \in 0 .. l - 1 => c \in to
             /\ i = 0 /\ c < EB_LEN_BYTES => ~(t + c - EB_LEN_BYTES \in 0 .. l - 1)
  <2>1. c \in Int /\ 0 <= c /\ c < UsableSpace
    BY Sizes DEF Cells
  <2>2. CASE i = 0
    BY <1>1, <1>3, <1>4, <1>5, <2>1, <2>2, Sizes
  <2>3. CASE i # 0
    BY <1>1, <1>2, <1>4, <1>5, <2>1, <2>3, Sizes
  <2> QED BY <2>2, <2>3
<1> HIDE DEF to
<1>7. d = [c \in Cells |-> IF i = 0 /\ c < EB_LEN_BYTES THEN <<"length", l>>
                           ELSE IF c \in to THEN <<p, DataCursor(i) + c - CellCursor(i)>>
                           ELSE data[c]]
  BY DEF Copied, l, to
<1> HIDE DEF d
<1>8. \A c \in Cells : d[c] = IF i = 0 /\ c < EB_LEN_BYTES THEN <<"length", l>>
                              ELSE IF c \in to THEN <<p, t + c - EB_LEN_BYTES>> ELSE data[c]
  BY <1>6, <1>7
<1>9. \A c \in Cells : d[c] \in Byte
  <2> TAKE c \in Cells
  <2>1. <<"length", l>> \in Byte
    BY <1>1 DEF Byte
  <2>2. c \in to => <<p, t + c - EB_LEN_BYTES>> \in Byte
    <3>1. c \in to => t + c - EB_LEN_BYTES \in 0 .. MaxLength - 1
      BY <1>1, <1>6, Sizes
    <3> QED BY <3>1 DEF Byte
  <2> QED BY <1>8, <2>1, <2>2
<1>10. d \in [Cells -> Byte]
  BY <1>7, <1>9
<1>11. Kept(p, i, d)
  BY <1>6, <1>8 DEF Kept, l, t
<1> QED BY <1>10, <1>11 DEF d

\* The chain that is written: it takes free elements, and no other changes.
Written(p, c) ==
  /\ c \in [0 .. Need(p) - 1 -> Free]
  /\ \A i, j \in 0 .. Need(p) - 1 : c[i] = c[j] => i = j
  /\ pool' = [e \in Element |-> pool'[e]]
  /\ \A e \in Element : (\A i \in 0 .. Need(p) - 1 : e # c[i]) => pool'[e] = pool[e]
  /\ \A i \in 0 .. Need(p) - 1 :
       pool'[c[i]] = [previous |-> IF i = 0 THEN EB_END_IDX ELSE c[i - 1],
                      next     |-> IF i = Need(p) - 1 THEN EB_END_IDX ELSE c[i + 1],
                      data     |-> Copied(p, i, pool[c[i]].data)]
  /\ last_write_index' = c[Need(p) - 1]
  /\ free_elements' = free_elements - Need(p)

\* Storing writes a chain.
LEMMA StoreWrites ==
  ASSUME last_write_index \in Element, NEW p \in Payload, sky_element_buffer_store(p)
  PROVE  \E c : Written(p, c)
<1> DEFINE n == Need(p)
           index(i) == element_buffer_get_n_free(i)
           c == [i \in 0 .. n - 1 |-> index(i)]
<1>1. n \in Nat \ {0} /\ n \in Nat /\ n - 1 \in 0 .. n - 1
  BY NeedType
<1>2. n <= Cardinality(Free)
  BY DEF sky_element_buffer_store, HasRoom, Need
<1>3. pool' = [e \in Element |->
           IF ~\E i \in 0 .. n - 1 : e = index(i) THEN pool[e]
           ELSE LET i == CHOOSE i \in 0 .. n - 1 : e = index(i)
                IN  [previous |-> IF i = 0 THEN EB_END_IDX ELSE index(i - 1),
                     next     |-> IF i = n - 1 THEN EB_END_IDX ELSE index(i + 1),
                     data     |-> Copied(p, i, pool[e].data)]]
  BY DEF sky_element_buffer_store, Need
<1>4. last_write_index' = index(n - 1) /\ free_elements' = free_elements - n
  BY DEF sky_element_buffer_store, Need
<1> HIDE DEF n
<1>5. /\ \A i \in 0 .. n - 1 : index(i) \in Free
      /\ \A i, j \in 0 .. n - 1 : index(i) = index(j) => i = j
  BY <1>1, <1>2, SearchFinds
<1> HIDE DEF index
<1>6. \A i \in 0 .. n - 1 : c[i] = index(i)
  OBVIOUS
<1>7. c \in [0 .. n - 1 -> Free] /\ \A i, j \in 0 .. n - 1 : c[i] = c[j] => i = j
  BY <1>5
<1> HIDE DEF c
<1>8. ASSUME NEW e \in Element, \A i \in 0 .. n - 1 : e # c[i]
      PROVE  pool'[e] = pool[e]
  <2>1. ~\E i \in 0 .. n - 1 : e = index(i)
    BY <1>6, <1>8
  <2> QED BY <1>3, <2>1
<1>9. ASSUME NEW i \in 0 .. n - 1
      PROVE  pool'[c[i]] = [previous |-> IF i = 0 THEN EB_END_IDX ELSE c[i - 1],
                            next     |-> IF i = n - 1 THEN EB_END_IDX ELSE c[i + 1],
                            data     |-> Copied(p, i, pool[c[i]].data)]
  <2> DEFINE e == c[i]
  <2>1. e \in Element /\ e = index(i)
    BY <1>6, <1>7 DEF Free
  <2> HIDE DEF e
  <2> DEFINE k == CHOOSE j \in 0 .. n - 1 : e = index(j)
  <2>2. k = i
    BY <1>5, <2>1
  <2>3. pool'[e] = [previous |-> IF k = 0 THEN EB_END_IDX ELSE index(k - 1),
                    next     |-> IF k = n - 1 THEN EB_END_IDX ELSE index(k + 1),
                    data     |-> Copied(p, k, pool[e].data)]
    <3>1. \E j \in 0 .. n - 1 : e = index(j)
      BY <2>1
    <3> QED BY <1>3, <2>1, <3>1
  <2> HIDE DEF k
  <2>4. pool'[e] = [previous |-> IF i = 0 THEN EB_END_IDX ELSE index(i - 1),
                    next     |-> IF i = n - 1 THEN EB_END_IDX ELSE index(i + 1),
                    data     |-> Copied(p, i, pool[e].data)]
    BY <2>2, <2>3
  <2>5. (i # 0 => c[i - 1] = index(i - 1)) /\ (i # n - 1 => c[i + 1] = index(i + 1))
    <3>1. (i # 0 => i - 1 \in 0 .. n - 1) /\ (i # n - 1 => i + 1 \in 0 .. n - 1)
      BY <1>1
    <3> QED BY <1>6, <3>1
  <2>6. /\ (IF i = 0 THEN EB_END_IDX ELSE c[i - 1]) = (IF i = 0 THEN EB_END_IDX ELSE index(i - 1))
        /\ (IF i = n - 1 THEN EB_END_IDX ELSE c[i + 1])
             = (IF i = n - 1 THEN EB_END_IDX ELSE index(i + 1))
    BY <2>5
  <2> QED BY <2>4, <2>6 DEF e
<1>10. pool' = [e \in Element |-> pool'[e]]
  BY <1>3
<1>11. last_write_index' = c[n - 1]
  BY <1>1, <1>4, <1>6
<1> QED BY <1>4, <1>7, <1>8, <1>9, <1>10, <1>11 DEF Written, n

\* A chain whose elements do not change stays.
LEMMA ChainStays ==
  ASSUME NEW p, NEW c, ChainAt(p, c), \A i \in 0 .. Need(p) - 1 : pool'[c[i]] = pool[c[i]]
  PROVE  ChainAt(p, c)'
BY DEF ChainAt

\* The elements that are written begin one chain and are free no longer.
LEMMA WrittenSets ==
  ASSUME NEW p \in Payload, NEW c, Written(p, c)
  PROVE  /\ c[0] \in Element /\ c[0] \notin Firsts
         /\ Firsts' = Firsts \cup {c[0]}
         /\ Free' = Free \ {c[i] : i \in 0 .. Need(p) - 1}
         /\ ChainAt(p, c)' \/ ~PoolType
<1> DEFINE n == Need(p)
<1>1. n \in Nat \ {0} /\ n \in Nat /\ 0 \in 0 .. n - 1
  BY NeedType
<1>2. c \in [0 .. n - 1 -> Free] /\ \A i \in 0 .. n - 1 : c[i] \in Free /\ c[i] \in Element
  BY DEF Written, Free
<1>3. \A i, j \in 0 .. n - 1 : c[i] = c[j] => i = j
  BY DEF Written
<1>4. \A e \in Element : (\A i \in 0 .. n - 1 : e # c[i]) => pool'[e] = pool[e]
  BY DEF Written
<1>5. \A i \in 0 .. n - 1 :
        /\ pool'[c[i]].previous = IF i = 0 THEN EB_END_IDX ELSE c[i - 1]
        /\ pool'[c[i]].next = IF i = n - 1 THEN EB_END_IDX ELSE c[i + 1]
        /\ pool'[c[i]].data = Copied(p, i, pool[c[i]].data)
  <2> TAKE i \in 0 .. n - 1
  <2>1. pool'[c[i]] = [previous |-> IF i = 0 THEN EB_END_IDX ELSE c[i - 1],
                       next     |-> IF i = n - 1 THEN EB_END_IDX ELSE c[i + 1],
                       data     |-> Copied(p, i, pool[c[i]].data)]
    BY Zenon DEF Written
  <2> HIDE DEF n
  <2> QED BY <2>1
<1> HIDE DEF n
<1>6. \A i \in 0 .. n - 1 : /\ i # 0 => c[i - 1] \in Element
                            /\ i # n - 1 => c[i + 1] \in Element
  <2> TAKE i \in 0 .. n - 1
  <2>1. (i # 0 => i - 1 \in 0 .. n - 1) /\ (i # n - 1 => i + 1 \in 0 .. n - 1)
    BY <1>1
  <2> QED BY <1>2, <2>1
<1>7. \A i \in 0 .. n - 1 : c[i] \notin Firsts
  BY <1>2, FirstFacts
<1>8. \A i \in 0 .. n - 1 : (c[i] \in Firsts' <=> i = 0) /\ c[i] \notin Free'
  <2> TAKE i \in 0 .. n - 1
  <2>1. c[i] \in Element
    BY <1>2
  <2>2. c[i] \notin Free'
    BY <1>5, <1>6, <2>1, Links DEF Free, element_is_free
  <2>3. i = 0 => c[i] \in Firsts'
    BY <1>5, <1>6, <2>1, Links DEF Firsts, element_is_first
  <2>4. i # 0 => c[i] \notin Firsts'
    BY <1>5, <1>6, <2>1, Links DEF Firsts, element_is_first
  <2> QED BY <2>2, <2>3, <2>4
<1>9. \A e \in Element : (\A i \in 0 .. n - 1 : e # c[i]) =>
        (e \in Firsts' <=> e \in Firsts) /\ (e \in Free' <=> e \in Free)
  <2> TAKE e \in Element
  <2> HAVE \A i \in 0 .. n - 1 : e # c[i]
  <2>1. pool'[e] = pool[e]
    BY <1>4
  <2> QED BY <2>1 DEF Firsts, Free, element_is_first, element_is_free
<1>10. Firsts \in SUBSET Element /\ Firsts' \in SUBSET Element
       /\ Free \in SUBSET Element /\ Free' \in SUBSET Element
  BY DEF Firsts, Free
<1>11. Firsts' = Firsts \cup {c[0]}
  BY <1>1, <1>2, <1>3, <1>7, <1>8, <1>9, <1>10
<1>12. Free' = Free \ {c[i] : i \in 0 .. n - 1}
  BY <1>2, <1>8, <1>9, <1>10
<1>13. ASSUME PoolType PROVE ChainAt(p, c)'
  <2>1. \A i \in 0 .. n - 1 : Kept(p, i, pool'[c[i]].data)
    <3> TAKE i \in 0 .. n - 1
    <3>1. pool[c[i]].data \in [Cells -> Byte] /\ i \in Nat
      BY <1>1, <1>2, <1>13 DEF PoolType
    <3> QED BY <1>5, <3>1, CopiedKept
  <2>2. c \in [0 .. n - 1 -> Element]
    BY <1>2
  <2> QED BY <1>5, <2>1, <2>2 DEF ChainAt, n
<1>14. c[0] \in Element /\ c[0] \notin Firsts
  BY <1>1, <1>2, <1>7
<1> QED BY <1>11, <1>12, <1>13, <1>14 DEF n

\* An element is in one chain and there only once.
LEMMA LayoutApart ==
  ASSUME NEW pay, NEW at, Layout(pay, at), NEW f \in Firsts, NEW g \in Firsts,
         NEW i \in 0 .. Need(pay[f]) - 1, NEW j \in 0 .. Need(pay[g]) - 1, at[f][i] = at[g][j]
  PROVE  f = g /\ i = j
<1>1. \A x, y \in Firsts : \A k \in 0 .. Need(pay[x]) - 1, l \in 0 .. Need(pay[y]) - 1 :
        at[x][k] = at[y][l] => x = y /\ k = l
  BY DEF Layout
<1> QED BY <1>1, ZenonT(60)

\* Storing adds a chain to the layout.
LEMMA StoreLayout ==
  ASSUME PoolType, NEW p \in Payload, NEW c, Written(p, c), NEW pay, NEW at, Layout(pay, at)
  PROVE  \E pay2, at2 : /\ pay2[c[0]] = p
                        /\ \A f \in Firsts : pay2[f] = pay[f]
                        /\ Layout(pay2, at2)'
<1> DEFINE o == c[0]
           pay2 == [f \in Element |-> IF f = o THEN p ELSE pay[f]]
           at2 == [f \in Element |-> IF f = o THEN c ELSE at[f]]
<1>1. /\ o \in Element /\ o \notin Firsts /\ Firsts' = Firsts \cup {o}
      /\ Free' = Free \ {c[i] : i \in 0 .. Need(p) - 1} /\ ChainAt(p, c)'
  BY WrittenSets
<1>2. \A i \in 0 .. Need(p) - 1 : c[i] \in Free
  BY DEF Written
<1>3. pay2[o] = p /\ at2[o] = c
  BY <1>1
<1>4. \A f \in Firsts : f \in Element /\ f # o /\ pay2[f] = pay[f] /\ at2[f] = at[f]
  BY <1>1, FirstFacts
<1> HIDE DEF pay2, at2
<1>5. \A f \in Firsts : pay[f] \in Payload /\ ChainAt(pay[f], at[f]) /\ at[f][0] = f
  BY DEF Layout
<1>6. \A f \in Firsts : \A i \in 0 .. Need(pay[f]) - 1 : at[f][i] \in Element /\ at[f][i] \notin Free
  BY <1>5, ChainFacts
<1>7. \A f \in Firsts : ChainAt(pay[f], at[f])'
  <2> TAKE f \in Firsts
  <2>1. ChainAt(pay[f], at[f])
    BY <1>5
  <2>2. \A i \in 0 .. Need(pay[f]) - 1 : pool'[at[f][i]] = pool[at[f][i]]
    <3> TAKE i \in 0 .. Need(pay[f]) - 1
    <3>1. at[f][i] \in Element /\ \A j \in 0 .. Need(p) - 1 : at[f][i] # c[j]
      BY <1>2, <1>6
    <3> QED BY <3>1 DEF Written
  <2> QED BY <2>1, <2>2, ChainStays
<1>8. \A f \in Firsts' : pay2[f] \in Payload /\ ChainAt(pay2[f], at2[f])' /\ at2[f][0] = f
  <2> TAKE f \in Firsts'
  <2>1. CASE f = o
    BY <1>1, <1>3, <2>1
  <2>2. CASE f \in Firsts
    BY <1>4, <1>5, <1>7, <2>2
  <2> QED BY <1>1, <2>1, <2>2
<1>9. ASSUME NEW f \in Firsts', NEW g \in Firsts',
             NEW i \in 0 .. Need(pay2[f]) - 1, NEW j \in 0 .. Need(pay2[g]) - 1,
             at2[f][i] = at2[g][j]
      PROVE  f = g /\ i = j
  <2>1. CASE f = o /\ g = o
    <3>1. i \in 0 .. Need(p) - 1 /\ j \in 0 .. Need(p) - 1 /\ c[i] = c[j]
      BY <1>3, <1>9, <2>1
    <3> QED BY <2>1, <3>1 DEF Written
  <2>2. CASE f = o /\ g # o
    <3>1. g \in Firsts /\ j \in 0 .. Need(pay[g]) - 1 /\ at2[g][j] = at[g][j]
      BY <1>1, <1>4, <2>2
    <3>2. i \in 0 .. Need(p) - 1 /\ at2[f][i] = c[i]
      BY <1>3, <2>2
    <3> QED BY <1>2, <1>6, <1>9, <3>1, <3>2
  <2>3. CASE f # o /\ g = o
    <3>1. f \in Firsts /\ i \in 0 .. Need(pay[f]) - 1 /\ at2[f][i] = at[f][i]
      BY <1>1, <1>4, <2>3
    <3>2. j \in 0 .. Need(p) - 1 /\ at2[g][j] = c[j]
      BY <1>3, <2>3
    <3> QED BY <1>2, <1>6, <1>9, <3>1, <3>2
  <2>4. CASE f # o /\ g # o
    <3>1. f \in Firsts /\ i \in 0 .. Need(pay[f]) - 1 /\ at2[f][i] = at[f][i]
      BY <1>1, <1>4, <2>4
    <3>2. g \in Firsts /\ j \in 0 .. Need(pay[g]) - 1 /\ at2[g][j] = at[g][j]
      BY <1>1, <1>4, <2>4
    <3>3. at[f][i] = at[g][j]
      BY <1>9, <3>1, <3>2
    <3> QED BY <3>1, <3>2, <3>3, LayoutApart
  <2> QED BY <2>1, <2>2, <2>3, <2>4
<1>10. ASSUME NEW e \in Element \ Free'
       PROVE  \E f \in Firsts' : \E i \in 0 .. Need(pay2[f]) - 1 : e = at2[f][i]
  <2>1. CASE e \in Free
    <3>1. PICK i \in 0 .. Need(p) - 1 : e = c[i]
      BY <1>1, <2>1
    <3>2. o \in Firsts' /\ i \in 0 .. Need(pay2[o]) - 1 /\ e = at2[o][i]
      BY <1>1, <1>3, <3>1
    <3> QED BY <3>2
  <2>2. CASE e \notin Free
    <3>1. PICK f \in Firsts : \E i \in 0 .. Need(pay[f]) - 1 : e = at[f][i]
      BY <2>2 DEF Layout
    <3>2. PICK i \in 0 .. Need(pay[f]) - 1 : e = at[f][i]
      BY <3>1
    <3>3. f \in Firsts' /\ i \in 0 .. Need(pay2[f]) - 1 /\ e = at2[f][i]
      BY <1>1, <1>4, <3>2
    <3> QED BY <3>3
  <2> QED BY <2>1, <2>2
<1>11. Layout(pay2, at2)'
  BY <1>8, <1>9, <1>10 DEF Layout
<1> QED BY <1>3, <1>4, <1>11

\* The elements of a chain of length n.
ElementsOf(c, n) == {c[i] : i \in 0 .. n - 1}

\* They are as many as it is long.
LEMMA ChainCount ==
  ASSUME NEW n \in Nat \ {0}, NEW S, NEW c \in [0 .. n - 1 -> S],
         \A i, j \in 0 .. n - 1 : c[i] = c[j] => i = j
  PROVE  IsFiniteSet(ElementsOf(c, n)) /\ Cardinality(ElementsOf(c, n)) = n
<1> DEFINE D == 0 .. n - 1
           C == {c[i] : i \in D}
<1>1. IsFiniteSet(D) /\ Cardinality(D) = n
  <2>1. 0 \in Int /\ n - 1 \in Int /\ ~(0 > n - 1) /\ (n - 1) - 0 + 1 = n
    OBVIOUS
  <2> QED BY <2>1, FS_Interval
<1>2. c \in [D -> C] /\ (\A t \in C : \E s \in D : c[s] = t) /\ DOMAIN c = D
  OBVIOUS
<1> HIDE DEF D
<1>3. \A i, j \in D : c[i] = c[j] => i = j
  BY DEF D
<1> HIDE DEF C
<1>4. c \in Surjection(D, C) /\ c \in Injection(D, C)
  BY <1>2, <1>3 DEF Surjection, Injection, IsInjective
<1>5. IsFiniteSet(C) /\ Cardinality(C) = Cardinality(D)
  BY <1>1, <1>4, FS_Surjection
<1> QED BY <1>1, <1>5 DEF C, D, ElementsOf

\* Storing keeps the invariant.
LEMMA StoreInv ==
  ASSUME Inv, NEW p \in Payload, sky_element_buffer_store(p)
  PROVE  Inv'
<1>1. PICK c : Written(p, c)
  BY StoreWrites DEF Inv
<1>2. PICK pay, at : Layout(pay, at)
  BY DEF Inv
<1>3. \E pay2, at2 : Layout(pay2, at2)'
  BY <1>1, <1>2, StoreLayout DEF Inv
<1> DEFINE n == Need(p)
           C == ElementsOf(c, n)
<1>4. n \in Nat \ {0} /\ n - 1 \in 0 .. n - 1
  BY NeedType
<1>5. /\ c \in [0 .. n - 1 -> Free] /\ \A i, j \in 0 .. n - 1 : c[i] = c[j] => i = j
      /\ last_write_index' = c[n - 1] /\ free_elements' = free_elements - n
      /\ pool' = [e \in Element |-> pool'[e]]
      /\ \A e \in Element : (\A i \in 0 .. n - 1 : e # c[i]) => pool'[e] = pool[e]
  BY <1>1 DEF Written
<1>6. Free' = Free \ C /\ Free \in SUBSET Element
  BY <1>1, WrittenSets DEF Free, ElementsOf
<1>7. last_write_index' \in Element
  BY <1>4, <1>5, <1>6
<1>8. free_elements' = Cardinality(Free')
  <2> HIDE DEF n
  <2>1. IsFiniteSet(C) /\ Cardinality(C) = n
    BY <1>4, <1>5, ChainCount
  <2>2. C \in SUBSET Free
    BY <1>5 DEF ElementsOf
  <2> HIDE DEF C
  <2>3. Free \cap C = C
    BY <2>2
  <2>4. Cardinality(Free \ C) = Cardinality(Free) - Cardinality(C)
    BY <1>6, <2>3, ElementsFinite, FS_Difference
  <2> QED BY <1>5, <1>6, <2>1, <2>4 DEF Inv
<1>9. PoolType'
  <2>1. ASSUME NEW e \in Element PROVE pool'[e] \in [previous : Link, next : Link, data : [Cells -> Byte]]
    <3>1. CASE \A i \in 0 .. n - 1 : e # c[i]
      <4>1. pool'[e] = pool[e]
        BY <1>5, <3>1
      <4> QED BY <4>1 DEF Inv, PoolType
    <3>2. CASE \E i \in 0 .. n - 1 : e = c[i]
      <4>1. PICK i \in 0 .. n - 1 : e = c[i]
        BY <3>2
      <4> DEFINE b == IF i = 0 THEN EB_END_IDX ELSE c[i - 1]
                 a == IF i = n - 1 THEN EB_END_IDX ELSE c[i + 1]
                 d == Copied(p, i, pool[c[i]].data)
      <4>2. pool'[e] = [previous |-> b, next |-> a, data |-> d]
        BY <1>1, <4>1, Zenon DEF Written
      <4>3. a \in Link /\ b \in Link
        <5>1. (i # 0 => i - 1 \in 0 .. n - 1) /\ (i # n - 1 => i + 1 \in 0 .. n - 1)
          BY <1>4
        <5> QED BY <1>5, <1>6, <5>1 DEF Link
      <4>4. d \in [Cells -> Byte]
        <5>1. i \in Nat /\ pool[e].data \in [Cells -> Byte]
          BY <1>4 DEF Inv, PoolType
        <5> QED BY <4>1, <5>1, CopiedKept
      <4> HIDE DEF a, b, d
      <4> QED BY <4>2, <4>3, <4>4
    <3> QED BY <3>1, <3>2
  <2> QED BY <1>5, <2>1 DEF PoolType
<1> QED BY <1>3, <1>7, <1>8, <1>9 DEF Inv

-----------------------------------------------------------------------------
(* Deleting. *)

\* Deleting frees the chain of a first element and changes no other.
LEMMA DeleteSets ==
  ASSUME PoolType, NEW pay, NEW at, Layout(pay, at),
         NEW f \in Element, sky_element_buffer_delete(f)
  PROVE  /\ f \in Firsts
         /\ Chain(f) = {at[f][i] : i \in 0 .. Need(pay[f]) - 1}
         /\ Chain(f) \in SUBSET Element /\ Free \cap Chain(f) = {}
         /\ \A e \in Element \ Chain(f) : pool'[e] = pool[e]
         /\ Firsts' = Firsts \ {f}
         /\ Free' = Free \cup Chain(f)
<1>1. f \in Firsts
  BY DEF sky_element_buffer_delete, Firsts
<1>2. pay[f] \in Payload /\ ChainAt(pay[f], at[f]) /\ at[f][0] = f
  BY <1>1 DEF Layout
<1> DEFINE n == Need(pay[f])
           C == {at[f][i] : i \in 0 .. n - 1}
<1>3. Chain(f) = C
  BY <1>2, ChainElements
<1>4. \A i \in 0 .. n - 1 : /\ at[f][i] \in Element /\ at[f][i] \notin Free
                            /\ at[f][i] \in Firsts <=> i = 0
  BY <1>2, ChainFacts DEF Firsts
<1>5. n \in Nat /\ 0 \in 0 .. n - 1
  BY <1>2, NeedType
<1>6. pool' = [e \in Element |->
       IF e \in C THEN [pool[e] EXCEPT !.previous = EB_NULL_IDX, !.next = EB_NULL_IDX] ELSE pool[e]]
  BY <1>3 DEF sky_element_buffer_delete
<1>7. C \in SUBSET Element /\ Free \cap C = {} /\ f \in C
      /\ \A e \in C : e \in Firsts => e = f
  BY <1>2, <1>4, <1>5
<1> HIDE DEF C, n
<1>8. \A e \in Element \ C : pool'[e] = pool[e]
  BY <1>6
<1>9. \A e \in Element \ C : (e \in Firsts' <=> e \in Firsts) /\ (e \in Free' <=> e \in Free)
  BY <1>8 DEF Firsts, Free, element_is_first, element_is_free
<1>10. Firsts \in SUBSET Element /\ Firsts' \in SUBSET Element
       /\ Free \in SUBSET Element /\ Free' \in SUBSET Element
  BY DEF Firsts, Free
<1>11. \A e \in C : e \in Free' /\ e \notin Firsts'
  <2> TAKE e \in C
  <2>1. pool[e] \in [previous : Link, next : Link, data : [Cells -> Byte]] /\ e \in Element
    BY <1>7 DEF PoolType
  <2>2. pool'[e].previous = EB_NULL_IDX /\ pool'[e].next = EB_NULL_IDX
    BY <1>6, <2>1
  <2> QED BY <2>1, <2>2, Links DEF Firsts, Free, element_is_first, element_is_free
<1>12. Firsts' = Firsts \ {f}
  BY <1>7, <1>9, <1>10, <1>11
<1>13. Free' = Free \cup C
  BY <1>7, <1>9, <1>10, <1>11
<1>14. C = {at[f][i] : i \in 0 .. Need(pay[f]) - 1}
  BY DEF C, n
<1> QED BY <1>1, <1>3, <1>7, <1>8, <1>12, <1>13, <1>14

\* The other chains stay where they are.
LEMMA DeleteLayout ==
  ASSUME PoolType, NEW pay, NEW at, Layout(pay, at),
         NEW o \in Element, sky_element_buffer_delete(o)
  PROVE  Layout(pay, at)'
<1> DEFINE C == Chain(o)
<1>1. /\ o \in Firsts /\ C = {at[o][i] : i \in 0 .. Need(pay[o]) - 1}
      /\ C \in SUBSET Element /\ \A e \in Element \ C : pool'[e] = pool[e]
      /\ Firsts' = Firsts \ {o} /\ Free' = Free \cup C
  BY DeleteSets
<1> HIDE DEF C
<1>2. \A f \in Firsts : pay[f] \in Payload /\ ChainAt(pay[f], at[f]) /\ at[f][0] = f
  BY DEF Layout
<1>3. ASSUME NEW f \in Firsts'
      PROVE  pay[f] \in Payload /\ ChainAt(pay[f], at[f])' /\ at[f][0] = f
  <2>1. f \in Firsts /\ f # o
    BY <1>1
  <2>2. ASSUME NEW i \in 0 .. Need(pay[f]) - 1 PROVE pool'[at[f][i]] = pool[at[f][i]]
    <3>1. at[f][i] \in Element
      BY <1>2, <2>1, ChainFacts
    <3>2. at[f][i] \notin C
      <4> SUFFICES ASSUME at[f][i] \in C PROVE FALSE
        OBVIOUS
      <4>1. PICK j \in 0 .. Need(pay[o]) - 1 : at[f][i] = at[o][j]
        BY <1>1
      <4>2. f = o
        BY <1>1, <2>1, <4>1, LayoutApart
      <4> QED BY <2>1, <4>2
    <3> QED BY <1>1, <3>1, <3>2
  <2>3. ChainAt(pay[f], at[f])'
    BY <1>2, <2>1, <2>2, ChainStays
  <2> QED BY <1>2, <2>1, <2>3
<1>4. ASSUME NEW f \in Firsts', NEW g \in Firsts',
             NEW i \in 0 .. Need(pay[f]) - 1, NEW j \in 0 .. Need(pay[g]) - 1,
             at[f][i] = at[g][j]
      PROVE  f = g /\ i = j
  <2>1. f \in Firsts /\ g \in Firsts
    BY <1>1
  <2> QED BY <1>4, <2>1, LayoutApart
<1>5. ASSUME NEW e \in Element \ Free'
      PROVE  \E f \in Firsts' : \E i \in 0 .. Need(pay[f]) - 1 : e = at[f][i]
  <2>1. e \in Element \ Free /\ e \notin C
    BY <1>1
  <2>2. PICK f \in Firsts : \E i \in 0 .. Need(pay[f]) - 1 : e = at[f][i]
    BY <2>1 DEF Layout
  <2>3. f # o
    BY <1>1, <2>1, <2>2
  <2> QED BY <1>1, <2>2, <2>3
<1> QED BY <1>3, <1>4, <1>5 DEF Layout

\* Deleting keeps the invariant.
LEMMA DeleteInv ==
  ASSUME Inv, NEW f \in Element, sky_element_buffer_delete(f)
  PROVE  Inv'
<1>1. PICK pay, at : Layout(pay, at)
  BY DEF Inv
<1>2. Layout(pay, at)'
  BY <1>1, DeleteLayout DEF Inv
<1> DEFINE C == Chain(f)
<1>3. C \in SUBSET Element /\ Free \cap C = {} /\ Free' = Free \cup C /\ Free \in SUBSET Element
  BY <1>1, DeleteSets DEF Inv, Free
<1>4. free_elements' = free_elements + Cardinality(C) /\ last_write_index' = last_write_index
  BY DEF sky_element_buffer_delete
<1>5. pool' = [e \in Element |->
       IF e \in C THEN [pool[e] EXCEPT !.previous = EB_NULL_IDX, !.next = EB_NULL_IDX] ELSE pool[e]]
  BY DEF sky_element_buffer_delete
<1> HIDE DEF C
<1>6. free_elements' = Cardinality(Free')
  <2>1. IsFiniteSet(Free) /\ IsFiniteSet(C) /\ Cardinality(Free) \in Nat /\ Cardinality(C) \in Nat
    BY <1>3, ElementsFinite
  <2>2. Cardinality(Free \cap C) = 0
    BY <1>3, FS_EmptySet
  <2>3. Cardinality(Free \cup C) = Cardinality(Free) + Cardinality(C) - Cardinality(Free \cap C)
    BY <2>1, FS_Union
  <2> QED BY <1>3, <1>4, <2>1, <2>2, <2>3 DEF Inv
<1>7. PoolType'
  BY <1>5 DEF Inv, PoolType, Link
<1> QED BY <1>2, <1>4, <1>6, <1>7 DEF Inv

-----------------------------------------------------------------------------
(* The invariant. *)

\* A pool of free elements is laid out in any way.
LEMMA EmptyLayout ==
  ASSUME \A e \in Element : pool[e].previous = EB_NULL_IDX /\ pool[e].next = EB_NULL_IDX
  PROVE  /\ Free = Element /\ Firsts = {}
         /\ Cardinality(Free) = element_count
         /\ \A pay, at : Layout(pay, at)
<1>1. Free = Element /\ Firsts = {}
  BY Links DEF Free, Firsts, element_is_free, element_is_first
<1>2. Cardinality(Free) = element_count
  BY <1>1, ElementsFinite
<1>3. ASSUME NEW pay, NEW at PROVE Layout(pay, at)
  BY <1>1 DEF Layout
<1> QED BY <1>1, <1>2, <1>3

\* The buffer begins with free elements.
LEMMA InitInv ==
  ASSUME Init
  PROVE  Inv
<1>1. \A e \in Element : pool[e].previous = EB_NULL_IDX /\ pool[e].next = EB_NULL_IDX
  BY DEF Init
<1>2. PoolType
  <2>1. [c \in Cells |-> NoByte] \in [Cells -> Byte]
    BY DEF Byte
  <2> QED BY <2>1 DEF Init, PoolType, Link
<1>3. last_write_index \in Element /\ free_elements = element_count
  BY CountType DEF Init
<1> QED BY <1>1, <1>2, <1>3, EmptyLayout DEF Inv

\* Wiping frees everything.
LEMMA WipeSets ==
  ASSUME PoolType, sky_element_buffer_wipe
  PROVE  /\ Free' = Element /\ Firsts' = {}
         /\ \A pay, at : Layout(pay, at)'
<1>1. \A e \in Element : pool'[e].previous = EB_NULL_IDX /\ pool'[e].next = EB_NULL_IDX
  BY DEF sky_element_buffer_wipe, PoolType
<1>2. Free' = Element /\ Firsts' = {}
  BY <1>1, Links DEF Free, Firsts, element_is_free, element_is_first
<1>3. ASSUME NEW pay, NEW at PROVE Layout(pay, at)'
  BY <1>2 DEF Layout
<1> QED BY <1>2, <1>3

\* Every step keeps the invariant.
LEMMA NextInv ==
  ASSUME Inv, [Next]_vars
  PROVE  Inv'
<1>1. CASE \E p \in Payload : sky_element_buffer_store(p)
  BY <1>1, StoreInv
<1>2. CASE \E f \in Element : sky_element_buffer_delete(f)
  BY <1>2, DeleteInv
<1>3. CASE sky_element_buffer_wipe
  <2>1. PoolType'
    BY <1>3 DEF Inv, PoolType, Link, sky_element_buffer_wipe
  <2>2. Free' = Element /\ \A pay, at : Layout(pay, at)'
    BY <1>3, WipeSets DEF Inv
  <2>3. last_write_index' \in Element /\ free_elements' = Cardinality(Free')
    BY <1>3, <2>2, CountType, ElementsFinite DEF sky_element_buffer_wipe
  <2> QED BY <2>1, <2>2, <2>3 DEF Inv
<1>4. CASE UNCHANGED vars
  <2>1. Free' = Free /\ Firsts' = Firsts /\ \A pay, at : Layout(pay, at) => Layout(pay, at)'
    BY <1>4 DEF vars, Free, Firsts, element_is_free, element_is_first, Layout, ChainAt
  <2> QED BY <1>4, <2>1 DEF Inv, vars, PoolType
<1> QED BY <1>1, <1>2, <1>3, <1>4 DEF Next

\* The chains are the elements that are not free, and have none in common.
LEMMA ChainsPartition ==
  ASSUME NEW pay, NEW at, Layout(pay, at)
  PROVE  /\ UNION {Chain(f) : f \in Firsts} = Element \ Free
         /\ \A f, g \in Firsts : f # g => Chain(f) \cap Chain(g) = {}
         /\ \A e \in Element : pool[e].next \in Element => pool[pool[e].next].previous = e
<1>1. \A f \in Firsts : pay[f] \in Payload /\ ChainAt(pay[f], at[f]) /\ at[f][0] = f
  BY DEF Layout
<1>2. \A f \in Firsts : Chain(f) = {at[f][i] : i \in 0 .. Need(pay[f]) - 1}
  <2> TAKE f \in Firsts
  <2>1. Chain(at[f][0]) = {at[f][i] : i \in 0 .. Need(pay[f]) - 1}
    BY <1>1, ChainElements
  <2> QED BY <1>1, <2>1
<1>3. \A e \in Element \ Free : \E f \in Firsts : \E i \in 0 .. Need(pay[f]) - 1 : e = at[f][i]
  BY DEF Layout
<1>4. UNION {Chain(f) : f \in Firsts} = Element \ Free
  <2>1. ASSUME NEW f \in Firsts, NEW e \in Chain(f) PROVE e \in Element \ Free
    <3>1. PICK i \in 0 .. Need(pay[f]) - 1 : e = at[f][i]
      BY <1>2
    <3> QED BY <1>1, <3>1, ChainFacts
  <2>2. ASSUME NEW e \in Element \ Free PROVE \E f \in Firsts : e \in Chain(f)
    BY <1>2, <1>3
  <2> QED BY <2>1, <2>2
<1>5. ASSUME NEW f \in Firsts, NEW g \in Firsts, f # g PROVE Chain(f) \cap Chain(g) = {}
  <2> SUFFICES ASSUME NEW e, e \in Chain(f), e \in Chain(g) PROVE FALSE
    OBVIOUS
  <2>1. PICK i \in 0 .. Need(pay[f]) - 1 : e = at[f][i]
    BY <1>2
  <2>2. PICK j \in 0 .. Need(pay[g]) - 1 : e = at[g][j]
    BY <1>2
  <2>3. at[f][i] = at[g][j]
    BY <2>1, <2>2
  <2>4. f = g
    BY <2>3, LayoutApart
  <2> QED BY <1>5, <2>4
<1>6. ASSUME NEW e \in Element, pool[e].next \in Element
      PROVE  pool[pool[e].next].previous = e
  <2>1. e \notin Free
    BY <1>6, Links DEF Free, element_is_free
  <2>2. PICK f \in Firsts : \E i \in 0 .. Need(pay[f]) - 1 : e = at[f][i]
    BY <1>3, <2>1
  <2>3. PICK i \in 0 .. Need(pay[f]) - 1 : e = at[f][i]
    BY <2>2
  <2> DEFINE p == pay[f]
             c == at[f]
  <2>4. p \in Payload /\ ChainAt(p, c) /\ i \in 0 .. Need(p) - 1 /\ e = c[i]
    BY <1>1, <2>3
  <2> HIDE DEF p, c
  <2>5. i # Need(p) - 1
    BY <1>6, <2>4, Links DEF ChainAt
  <2>6. i + 1 \in 0 .. Need(p) - 1 /\ pool[e].next = c[i + 1]
    BY <2>4, <2>5, ChainFacts
  <2>7. pool[c[i + 1]].previous = c[(i + 1) - 1] /\ (i + 1) - 1 = i
    <3>1. i + 1 # 0 /\ (i + 1) - 1 = i
      BY <2>4, NeedType
    <3>2. pool[c[i + 1]].previous = IF i + 1 = 0 THEN EB_END_IDX ELSE c[(i + 1) - 1]
      BY <2>4, <2>6 DEF ChainAt
    <3> QED BY <3>1, <3>2
  <2> QED BY <2>4, <2>6, <2>7
<1> QED BY <1>4, <1>5, <1>6

\* No chain is longer than the longest payload calls for.
LEMMA ChainsFit ==
  ASSUME Inv
  PROVE  element_count - Cardinality(Free)
           <= Cardinality(Firsts) * sky_element_buffer_element_requirement(MaxLength)
<1> DEFINE n == sky_element_buffer_element_requirement(MaxLength)
           D == 0 .. n - 1
           U == Element \ Free
           T == Firsts \X D
<1>1. PICK pay, at : Layout(pay, at)
  BY DEF Inv
<1>2. n \in Nat \ {0}
  BY CountType
<1> HIDE DEF n
<1>3. IsFiniteSet(D) /\ Cardinality(D) = n
  <2>1. 0 \in Int /\ n - 1 \in Int /\ ~(0 > n - 1) /\ (n - 1) - 0 + 1 = n
    BY <1>2
  <2> QED BY <2>1, FS_Interval
<1>4. IsFiniteSet(Firsts) /\ Firsts \in SUBSET Element /\ Free \in SUBSET Element
  BY ElementsFinite DEF Firsts, Free
<1>5. \A f \in Firsts : \A i \in 0 .. Need(pay[f]) - 1 : i \in D
  <2> TAKE f \in Firsts
  <2>1. pay[f] \in Payload
    BY <1>1 DEF Layout
  <2>2. Need(pay[f]) \in Nat /\ Need(pay[f]) <= n
    BY <2>1, NeedType DEF n
  <2> QED BY <1>2, <2>2
<1> HIDE DEF D
<1>6. IsFiniteSet(T) /\ Cardinality(T) = Cardinality(Firsts) * n
  BY <1>3, <1>4, FS_Product
<1> DEFINE Of(e, t) == e = at[t[1]][t[2]]
           h == [e \in U |-> CHOOSE t \in T : Of(e, t)]
<1>7. ASSUME NEW e \in U PROVE \E t \in T : Of(e, t)
  <2>1. PICK f \in Firsts : \E i \in 0 .. Need(pay[f]) - 1 : e = at[f][i]
    BY <1>1 DEF Layout
  <2>2. PICK i \in 0 .. Need(pay[f]) - 1 : e = at[f][i]
    BY <2>1
  <2>3. <<f, i>> \in T /\ Of(e, <<f, i>>)
    BY <1>5, <2>2
  <2> HIDE DEF T, Of
  <2> QED BY <2>3
<1>8. \A e \in U : h[e] \in T /\ Of(e, h[e])
  <2> HIDE DEF T, Of, U
  <2> QED BY <1>7
<1>9. h \in [U -> T]
  <2> HIDE DEF T, Of, U
  <2> QED BY <1>8
<1>10. \A d, e \in U : h[d] = h[e] => d = e
  <2> HIDE DEF T, U, h
  <2> QED BY <1>8
<1> HIDE DEF T, U, h
<1>11. h \in Injection(U, T)
  BY <1>9, <1>10 DEF Injection, IsInjective
<1>12. Cardinality(U) <= Cardinality(T)
  BY <1>6, <1>11, FS_Injection
<1>13. Cardinality(U) = element_count - Cardinality(Free)
  <2>1. Element \cap Free = Free
    BY <1>4
  <2> QED BY <2>1, ElementsFinite, FS_Difference DEF U
<1> QED BY <1>6, <1>12, <1>13 DEF n

\* The invariant says what sky_element_buffer_entire_buffer_is_ok looks for.
LEMMA InvOk ==
  ASSUME Inv
  PROVE  BufferIsOk
<1>1. PICK pay, at : Layout(pay, at)
  BY DEF Inv
<1> QED BY <1>1, ChainsPartition DEF Inv, PoolType, BufferIsOk

\* And that there is a payload to be read from every chain.
LEMMA InvReads ==
  ASSUME Inv
  PROVE  ChainsReadBack
<1>1. PICK pay, at : Layout(pay, at)
  BY DEF Inv
<1>2. ASSUME NEW f \in Firsts PROVE \E p \in Payload : ReadsPayload(f, p)
  <2>1. pay[f] \in Payload /\ f \in Element
    BY <1>1, FirstFacts DEF Layout
  <2>2. ReadsPayload(f, pay[f])
    BY <1>1, <2>1, ReadsLaid DEF ReadsAs
  <2> QED BY <2>1, <2>2
<1> QED BY <1>2 DEF ChainsReadBack

\* And that there is room for one more payload when the rings could take two.
LEMMA InvRoom ==
  ASSUME Inv
  PROVE  RoomForAllButLast
<1> SUFFICES ASSUME Cardinality(Firsts) + 1 < RingCapacity, NEW p \in Payload
             PROVE  HasRoom(p)
  BY DEF RoomForAllButLast
<1> DEFINE n == sky_element_buffer_element_requirement(MaxLength)
           k == Cardinality(Firsts)
<1>1. n \in Nat \ {0} /\ k \in Nat /\ Cardinality(Free) \in Nat
  BY CountType, ElementsFinite DEF Firsts, Free
<1>2. element_count - Cardinality(Free) <= k * n /\ element_count = ring_slots * n
  BY ChainsFit DEF element_count
<1>3. k <= ring_slots - 1 /\ Need(p) \in Nat /\ Need(p) <= n
  <2>1. k <= ring_slots - 1
    BY <1>1, ElementBufferAssumption DEF RingCapacity, ring_slots
  <2> QED BY <1>1, <2>1, Sizes, NeedType
<1> HIDE DEF n, k
<1>4. k * n <= (ring_slots - 1) * n /\ (ring_slots - 1) * n = ring_slots * n - n
  BY <1>1, <1>3, Sizes, ProductGrows
<1>5. Need(p) <= Cardinality(Free)
  <2>1. k * n \in Int /\ ring_slots * n \in Int
    BY <1>1, Sizes
  <2> QED BY <1>1, <1>2, <1>3, <1>4, <2>1
<1> QED BY <1>5 DEF Inv, HasRoom, Need

-----------------------------------------------------------------------------
(* Theorems. *)

\* The invariant holds throughout.
THEOREM BufferInvariant == Spec => []Inv
<1>1. Init => Inv
  BY InitInv
<1>2. Inv /\ [Next]_vars => Inv'
  BY NextInv
<1> QED BY <1>1, <1>2, PTL DEF Spec

\* What sky_element_buffer_entire_buffer_is_ok checks, and more, holds after every
\* sequence of stores, deletes and wipes: every element is free or in exactly one
\* chain, links match in both directions and the counter of free elements is right.
THEOREM BufferCorrect == Spec => []BufferIsOk
<1>1. Inv => BufferIsOk
  BY InvOk
<1> QED BY <1>1, BufferInvariant, PTL

\* sky_element_buffer_read finds a stored payload, whole and unmixed, in every
\* chain, however chains are scattered over a pool with the data of earlier ones.
THEOREM ReadBackCorrect == Spec => []ChainsReadBack
<1>1. Inv => ChainsReadBack
  BY InvReads
<1> QED BY <1>1, BufferInvariant, PTL

\* With the size sky_vc_create gives it the buffer has room for a payload of any
\* length as long as the rings have room for two; the last slot is not covered.
THEOREM RoomCorrect == Spec => []RoomForAllButLast
<1>1. Inv => RoomForAllButLast
  BY InvRoom
<1> QED BY <1>1, BufferInvariant, PTL

-----------------------------------------------------------------------------
(* The buffer implements PayloadBuffer. *)

\* The store that the pool stands for.
StoreNow ==
  [e \in Element |->
     LET reads == {p \in Payload : ReadsPayload(e, p)}
     IN  IF reads = {} THEN NoPayload ELSE CHOOSE p \in reads : TRUE]

\* A payload, or another one without any bytes.
Shown(p) == CHOOSE q \in {r \in Payload : Bytes(p) = Bytes(r)} : TRUE

\* What is shown is a payload.
LEMMA ShownType ==
  ASSUME NEW p \in Payload
  PROVE  Shown(p) \in Payload /\ Shown(p) # NoPayload
<1>1. p \in {r \in Payload : Bytes(p) = Bytes(r)}
  OBVIOUS
<1>2. Shown(p) \in {r \in Payload : Bytes(p) = Bytes(r)}
  BY <1>1 DEF Shown
<1> QED BY <1>2, Sizes

\* The store in terms of the layout.
StoreIs ==
  \A pay, at : Layout(pay, at) =>
    StoreNow = [e \in Element |-> IF e \in Firsts THEN Shown(pay[e]) ELSE NoPayload]

\* First elements hold the payloads of their chains.
LEMMA StoreMapped == StoreIs
<1> SUFFICES ASSUME NEW pay, NEW at, Layout(pay, at)
             PROVE  StoreNow = [e \in Element |-> IF e \in Firsts THEN Shown(pay[e]) ELSE NoPayload]
  BY DEF StoreIs
<1> DEFINE Reads(e) == {p \in Payload : ReadsPayload(e, p)}
           Value(e) == IF Reads(e) = {} THEN NoPayload ELSE CHOOSE p \in Reads(e) : TRUE
<1>1. \A e \in Element, q \in Payload :
        ReadsPayload(e, q) <=> e \in Firsts /\ Bytes(pay[e]) = Bytes(q)
  BY ReadsLaid DEF ReadsAs
<1>2. ASSUME NEW e \in Element
      PROVE  Value(e) = IF e \in Firsts THEN Shown(pay[e]) ELSE NoPayload
  <2>1. CASE e \in Firsts
    <3>1. pay[e] \in Payload
      BY <2>1 DEF Layout
    <3>2. Reads(e) = {r \in Payload : Bytes(pay[e]) = Bytes(r)}
      BY <1>1, <2>1
    <3>3. pay[e] \in Reads(e)
      BY <3>1, <3>2
    <3>4. Reads(e) # {}
      BY <3>3
    <3>5. Shown(pay[e]) = CHOOSE p \in Reads(e) : TRUE
      BY <3>2, Zenon DEF Shown
    <3> HIDE DEF Reads
    <3> QED BY <2>1, <3>4, <3>5
  <2>2. CASE e \notin Firsts
    <3>1. Reads(e) = {}
      BY <1>1, <2>2
    <3> HIDE DEF Reads
    <3> QED BY <2>2, <3>1
  <2> QED BY <2>1, <2>2
<1>3. StoreNow = [e \in Element |-> Value(e)]
  BY DEF StoreNow
<1> HIDE DEF Value
<1> QED BY <1>2, <1>3

\* The definitions of PayloadBuffer for this store.
LEMMA Mapping ==
  /\ Buffer!Init <=> StoreNow = [e \in Element |-> NoPayload]
  /\ Buffer!Wipe <=> StoreNow' = [e \in Element |-> NoPayload]
  /\ Buffer!Touched = {e \in Element : StoreNow'[e] # StoreNow[e]}
  /\ Buffer!StorePayload <=>
       \E e \in Buffer!Touched : /\ Buffer!Touched = {e} /\ StoreNow[e] = NoPayload
                                 /\ StoreNow' \in [Element -> Payload \cup {NoPayload}]
  /\ Buffer!DeletePayload <=>
       \E e \in Buffer!Touched : /\ Buffer!Touched = {e}
                                 /\ StoreNow' = [i \in Element |->
                                                   IF i \in {e} THEN NoPayload ELSE StoreNow[i]]
BY DEF Buffer!Init, Buffer!Wipe, Buffer!Touched, Buffer!StorePayload, Buffer!DeletePayload,
       Buffer!EmptyStore, Buffer!Store, Buffer!Deleted, StoreNow

\* sky_element_buffer_store puts one payload where there was none.
LEMMA StoreRefines ==
  ASSUME Inv, NEW p \in Payload, sky_element_buffer_store(p)
  PROVE  Buffer!StorePayload
<1>1. PICK c : Written(p, c)
  BY StoreWrites DEF Inv
<1>2. PICK pay, at : Layout(pay, at)
  BY DEF Inv
<1>3. PICK pay2, at2 : /\ pay2[c[0]] = p /\ \A f \in Firsts : pay2[f] = pay[f]
                       /\ Layout(pay2, at2)'
  BY <1>1, <1>2, StoreLayout DEF Inv
<1> DEFINE o == c[0]
<1>4. o \in Element /\ o \notin Firsts /\ Firsts' = Firsts \cup {o}
  BY <1>1, WrittenSets
<1>5. StoreNow = [e \in Element |-> IF e \in Firsts THEN Shown(pay[e]) ELSE NoPayload]
  BY <1>2, StoreMapped DEF StoreIs
<1>6. StoreNow' = [e \in Element |-> IF e \in Firsts' THEN Shown(pay2[e]) ELSE NoPayload]
  <2>1. StoreIs'
    BY StoreMapped, PTL
  <2> QED BY <1>3, <2>1 DEF StoreIs
<1>7. \A f \in Firsts : pay[f] \in Payload /\ Shown(pay[f]) \in Payload
  BY <1>2, ShownType DEF Layout
<1>8. pay2[o] = p /\ Shown(p) \in Payload /\ Shown(p) # NoPayload
  BY <1>3, ShownType
<1> HIDE DEF o
<1> DEFINE S == StoreNow
           S2 == StoreNow'
<1>9. /\ \A e \in Element : e # o => S2[e] = S[e]
      /\ S[o] = NoPayload /\ S2[o] = Shown(p)
      /\ S2 \in [Element -> Payload \cup {NoPayload}]
  BY <1>3, <1>4, <1>5, <1>6, <1>7, <1>8
<1> HIDE DEF S, S2
<1>10. Buffer!Touched = {e \in Element : S2[e] # S[e]}
  BY Mapping DEF S, S2
<1>11. Buffer!Touched = {o}
  BY <1>4, <1>8, <1>9, <1>10
<1> QED BY <1>9, <1>11, Mapping DEF S, S2

\* sky_element_buffer_delete takes one payload away.
LEMMA DeleteRefines ==
  ASSUME Inv, NEW f \in Element, sky_element_buffer_delete(f)
  PROVE  Buffer!DeletePayload
<1>1. PICK pay, at : Layout(pay, at)
  BY DEF Inv
<1>2. Layout(pay, at)'
  BY <1>1, DeleteLayout DEF Inv
<1>3. f \in Firsts /\ Firsts' = Firsts \ {f}
  BY <1>1, DeleteSets DEF Inv
<1>4. StoreNow = [e \in Element |-> IF e \in Firsts THEN Shown(pay[e]) ELSE NoPayload]
  BY <1>1, StoreMapped DEF StoreIs
<1>5. StoreNow' = [e \in Element |-> IF e \in Firsts' THEN Shown(pay[e]) ELSE NoPayload]
  <2>1. StoreIs'
    BY StoreMapped, PTL
  <2> QED BY <1>2, <2>1 DEF StoreIs
<1>6. Shown(pay[f]) # NoPayload
  BY <1>1, <1>3, ShownType DEF Layout
<1> DEFINE S == StoreNow
           S2 == StoreNow'
<1>7. /\ S2 = [e \in Element |-> IF e \in {f} THEN NoPayload ELSE S[e]]
      /\ S[f] # NoPayload
  BY <1>3, <1>4, <1>5, <1>6
<1> HIDE DEF S, S2
<1>8. Buffer!Touched = {e \in Element : S2[e] # S[e]}
  BY Mapping DEF S, S2
<1>9. Buffer!Touched = {f}
  BY <1>7, <1>8
<1> QED BY <1>7, <1>9, Mapping DEF S, S2

\* The element buffer keeps payloads as PayloadBuffer promises: storing and deleting
\* touch one position only, and a payload is read as it was stored until it is
\* deleted.  Every behaviour of the buffer is one of PayloadBuffer.
THEOREM BufferImplemented == Spec => ImplementsBuffer
<1>1. Init => Buffer!Init
  <2> SUFFICES ASSUME Init PROVE Buffer!Init
    OBVIOUS
  <2>1. Inv
    BY InitInv
  <2>2. PICK pay, at : Layout(pay, at)
    BY <2>1 DEF Inv
  <2>3. Firsts = {}
    <3>1. \A e \in Element : pool[e].previous = EB_NULL_IDX /\ pool[e].next = EB_NULL_IDX
      BY DEF Init
    <3> QED BY <3>1, EmptyLayout
  <2>4. StoreNow = [e \in Element |-> NoPayload]
    BY <2>2, <2>3, StoreMapped DEF StoreIs
  <2> QED BY <2>4, Mapping
<1>2. Inv /\ [Next]_vars => [Buffer!Next]_StoreNow
  <2> SUFFICES ASSUME Inv, [Next]_vars
               PROVE  Buffer!Next \/ StoreNow' = StoreNow
    OBVIOUS
  <2>1. CASE \E p \in Payload : sky_element_buffer_store(p)
    BY <2>1, StoreRefines DEF Buffer!Next
  <2>2. CASE \E f \in Element : sky_element_buffer_delete(f)
    BY <2>2, DeleteRefines DEF Buffer!Next
  <2>3. CASE sky_element_buffer_wipe
    <3>1. Firsts' = {} /\ \A pay, at : Layout(pay, at)'
      BY <2>3, WipeSets DEF Inv
    <3>2. StoreIs'
      BY StoreMapped, PTL
    <3>3. StoreNow' = [e \in Element |-> NoPayload]
      BY <3>1, <3>2 DEF StoreIs
    <3>4. Buffer!Wipe
      BY <3>3, Mapping
    <3> QED BY <3>4 DEF Buffer!Next
  <2>4. CASE UNCHANGED vars
    <3>1. StoreNow' = StoreNow
      BY <2>4 DEF vars, StoreNow, ReadsPayload, ReadBytes, ChainIntact, element_is_first,
         element_is_last, element_is_free, Free, Walk, sky_element_buffer_get_data_length
    <3> QED BY <3>1
  <2> QED BY <2>1, <2>2, <2>3, <2>4 DEF Next
<1>3. (Buffer!Init /\ [][Buffer!Next]_StoreNow) => ImplementsBuffer
  BY DEF ImplementsBuffer, Buffer!Spec, StoreNow
<1> QED BY <1>1, <1>2, <1>3, BufferInvariant, PTL DEF Spec
===============================================================================
