------------------------------- MODULE Golay24 -------------------------------
(***************************************************************************)
(* The extended Golay code that protects the length of a coded frame       *)
(* (golay24.c).  A word is the set of its bits that are one, so that       *)
(* exclusive or is the symmetric difference and a shift adds to every bit. *)
(***************************************************************************)
EXTENDS Naturals, FiniteSets, FiniteSetsExt

N == 12

Word == SUBSET (0 .. 2 * N - 1)

\* The bits of a number, and the number with these bits.
BitsOf(number) == {bit \in 0 .. 2 * N - 1 : (number \div 2 ^ bit) % 2 = 1}
ValueOf(bits) == SumSet({2 ^ bit : bit \in bits})

LowBits(bits) == bits \cap (0 .. N - 1)
ShiftUp(bits) == {bit + N : bit \in bits}

H == <<\h8008ed, \h4001db, \h2003b5, \h100769, \h80ed1, \h40da3,
       \h20b47,  \h1068f,  \h8d1d,   \h4a3b,   \h2477,  \h1ffe>>

\* The rows of the parity check matrix, and their lower halves.
Row == [i \in 1 .. N |-> BitsOf(H[i])]
B == [i \in 1 .. N |-> LowBits(Row[i])]

\* The product of a matrix of N rows with a word: the first row yields the
\* highest bit.
Times(matrix, word) == {N - i : i \in {j \in 1 .. N : Cardinality(matrix[j] \cap word) % 2 = 1}}

encode_golay24(data) == ShiftUp(Times(Row, LowBits(data))) \cup LowBits(data)

\* Mutant: two bits of the upper half are not looked for beside one of the lower.
RowsNearByOne(s) == {i \in 1 .. N : Cardinality(SymDiff(s, B[i])) =< 1}

\* The rows that leave at most two bits of the syndrome.
RowsNear(s) == {i \in 1 .. N : Cardinality(SymDiff(s, B[i])) =< 2}

\* The estimated error: the cases of decode_golay24 in their order; the empty
\* sequence when the word cannot be corrected.
EstimatedError(r) ==
  LET s == Times(Row, r)
      q == Times(B, s)
  IN  IF Cardinality(s) =< 3 THEN <<ShiftUp(s)>>
      ELSE IF RowsNear(s) # {}
      THEN LET i == Min(RowsNear(s)) IN <<ShiftUp(SymDiff(s, B[i])) \cup {N - i}>>
      ELSE IF Cardinality(q) =< 3 THEN <<q>>
      ELSE IF RowsNear(q) # {}
      THEN LET i == Min(RowsNear(q)) IN <<{2 * N - i} \cup SymDiff(q, B[i])>>
      ELSE <<>>

\* The corrected word, or the empty sequence for the return value -1.
decode_golay24(r) ==
  LET e == EstimatedError(r) IN IF e = <<>> THEN <<>> ELSE <<SymDiff(r, e[1])>>
=============================================================================
