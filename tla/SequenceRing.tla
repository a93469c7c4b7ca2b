---------------------------- MODULE SequenceRing ----------------------------
(***************************************************************************)
(* What the send ring and the receive ring of sequence_ring.c share: ring  *)
(* indices that wrap at the ring's length, ARQ sequence numbers that wrap  *)
(* at the width of sky_arq_sequence_t, and the ring item.                  *)
(*                                                                         *)
(* Two different moduli meet in these rings, the length of the ring and    *)
(* the range of the sequence numbers; the code warns about it ("This       *)
(* function employs two ring indexings with different modulos").           *)
(***************************************************************************)
EXTENDS Integers, Sequences

CONSTANTS
  SeqCount,      \* 2^w for a w-bit sky_arq_sequence_t (256 in the default build)
  Idx,         \* positions the element buffer can hand out (sky_element_idx_t)
  EB_NULL_IDX  \* the "no element" position

ASSUME SeqCountAssumption == SeqCount \in Nat \ {0}
ASSUME IdxAssumption == EB_NULL_IDX \notin Idx

\* The values of sky_arq_sequence_t.
Sequence == 0 .. SeqCount - 1

\* positive_modulo: the code's subtraction loops compute the mathematical
\* modulo, also of a negative index.
ring_wrap(idx, len) == idx % len

\* Unsigned arithmetic on sky_arq_sequence_t ("natural overflow").
SeqPlus(s, n) == (s + n) % SeqCount
SeqMinus(s, t) == (s - t) % SeqCount

\* RingItem: the position of the payload in the element buffer and its
\* ARQ sequence number.
RingItem == [idx : Idx \cup {EB_NULL_IDX}, sequence : Sequence]

\* What the wipes and the deletions leave in a slot.
VacantItem == [idx |-> EB_NULL_IDX, sequence |-> 0]
=============================================================================
