----------------------------- MODULE SendRingOps -----------------------------
(***************************************************************************)
(* The send ring of sequence_ring.c as operators on one record, an         *)
(* operator per C function and with its name.  The slots from tail to      *)
(* tx_head hold packets that were transmitted and not yet acknowledged,    *)
(* the slots from tx_head to head packets that were never transmitted.     *)
(* A slot refers to its payload by a position of the element buffer; an    *)
(* operation that stores a payload takes the position as a parameter, and  *)
(* one that deletes payloads has a companion that names the positions it   *)
(* gives back.                                                             *)
(***************************************************************************)
EXTENDS SequenceRing, FiniteSets

CONSTANTS
  SendLen,      \* length of the ring
  ResendDepth,  \* ARQ_RESEND_SCHEDULE_DEPTH
  MaskBits      \* number of bits of sky_arq_mask_t

\* sky_send_ring_create refuses a length below 4; sky_vc_create keeps it in
\* 6..250, below the number of sequence numbers.
ASSUME SendRingAssumption ==
  /\ SendLen \in Nat /\ SendLen >= 4 /\ SendLen <= SeqCount
  /\ ResendDepth \in Nat \ {0}
  /\ MaskBits \in Nat /\ MaskBits < SeqCount

SendSlots == 0 .. SendLen - 1

\* SkySendRing.  resend_list stands for the first resend_count entries of the
\* array: an entry beyond them is written before it is read.
SkySendRing == [
  buff          : [SendSlots -> RingItem],
  head          : SendSlots,
  tx_head       : SendSlots,
  tail          : SendSlots,
  head_sequence : Sequence,
  tx_sequence   : Sequence,
  tail_sequence : Sequence,
  storage_count : Int,
  resend_list   : Seq(Sequence)]

sky_send_ring_wipe(initial_sequence) == [
  buff          |-> [i \in SendSlots |-> VacantItem],
  head          |-> 0,
  tx_head       |-> 0,
  tail          |-> 0,
  head_sequence |-> initial_sequence,
  tx_sequence   |-> initial_sequence,
  tail_sequence |-> initial_sequence,
  storage_count |-> 0,
  resend_list   |-> <<>>]

\* The positions a wipe deletes from the element buffer.
SendRingHeld(ring) == {ring.buff[i].idx : i \in SendSlots} \ {EB_NULL_IDX}

-----------------------------------------------------------------------------
(* Counting and looking up. *)

sendRing_is_full(ring) ==
  ring_wrap(ring.head + 1, SendLen) = ring_wrap(ring.tail, SendLen)

sendRing_count_free_send_slots(ring) ==
  ring_wrap(ring.tail - (ring.head + 1), SendLen)

\* Packets never transmitted, and with include_resend those scheduled for
\* retransmission too.
sendRing_count_packets_to_send(ring, include_resend) ==
  ring_wrap(ring.head - ring.tx_head, SendLen)
    + (IF include_resend THEN Len(ring.resend_list) ELSE 0)

\* The packet with this number was transmitted and is still in the ring.
sendRing_can_recall(ring, sequence) ==
  SeqMinus(sequence, ring.tail_sequence) < ring_wrap(ring.tx_head - ring.tail, SendLen)

\* Where such a packet is; meaningful only when sendRing_can_recall.
sendRing_get_recall_ring_index(ring, recall_sequence) ==
  ring_wrap(ring.tail + SeqMinus(recall_sequence, ring.tail_sequence), SendLen)

-----------------------------------------------------------------------------
(* Pushing. *)

\* Mutant: the head is not wrapped.
PushUnwrapped(ring, idx) ==
  [ring EXCEPT
    !.buff[ring.head] = [idx |-> idx, sequence |-> ring.head_sequence],
    !.storage_count   = @ + 1,
    !.head            = @ + 1,
    !.head_sequence   = SeqPlus(@, 1)]

\* The ring once the payload has been stored at position idx.
sendRing_push_packet_to_send(ring, idx) ==
  [ring EXCEPT
    !.buff[ring.head] = [idx |-> idx, sequence |-> ring.head_sequence],
    !.storage_count   = @ + 1,
    !.head            = ring_wrap(@ + 1, SendLen),
    !.head_sequence   = SeqPlus(@, 1)]

-----------------------------------------------------------------------------
(* Scheduling retransmissions. *)

\* A request asks for the packet at its number and, k numbers further on, for
\* each packet whose bit k - 1 is clear in the mask (a set of bit numbers).
Requested(mask, k) == k = 0 \/ k - 1 \notin mask

\* Mutant: the loop starts with the bits, and forgets the number itself.
AddedByBits(ring, sequence, mask) ==
  {k \in 1 .. MaskBits :
     /\ Requested(mask, k)
     /\ \A j \in 1 .. k :
          Requested(mask, j) => sendRing_can_recall(ring, SeqPlus(sequence, j))
     /\ \A j \in 1 .. Len(ring.resend_list) :
          ring.resend_list[j] # SeqPlus(sequence, k)}

\* How far from the requested number the numbers lie that a request adds:
\* sendRing_schedule_resend is called for each requested number until it fails,
\* so the loop ends at the first one that cannot be recalled; a number that is
\* in the list is not listed again.
AddedOffsets(ring, sequence, mask) ==
  {k \in 0 .. MaskBits :
     /\ Requested(mask, k)
     /\ \A j \in 0 .. k :
          Requested(mask, j) => sendRing_can_recall(ring, SeqPlus(sequence, j))
     /\ \A j \in 1 .. Len(ring.resend_list) :
          ring.resend_list[j] # SeqPlus(sequence, k)}

\* The j-th smallest element of a set of numbers.
Nth(K, j) == CHOOSE k \in K : Cardinality({i \in K : i < k}) = j - 1

\* The loop goes through the offsets in increasing order and ends when the list
\* is full.
sendRing_schedule_resends_by_mask(ring, sequence, mask) ==
  LET K        == AddedOffsets(ring, sequence, mask)
      extended == ring.resend_list
                    \o [j \in 1 .. Cardinality(K) |-> SeqPlus(sequence, Nth(K, j))]
  IN  [ring EXCEPT !.resend_list =
         IF Len(extended) <= ResendDepth THEN extended
         ELSE SubSeq(extended, 1, ResendDepth)]

\* resend_count is decremented before the loop that shifts the list, so the
\* loop stops one entry short: the last entry is overwritten by the count and
\* the one before it is kept twice.
sendRing_pop_resend_sequence(ring) ==
  LET last == Len(ring.resend_list) - 1
  IN  [ring EXCEPT !.resend_list =
         [i \in 1 .. last |-> IF i < last THEN @[i + 1] ELSE @[i]]]

-----------------------------------------------------------------------------
(* Reading a packet for transmission. *)

\* sendRing_read_to_tx turns to the resend list first.
ResendTried(ring, include_resend) == include_resend /\ ring.resend_list # <<>>

\* The first entry is popped whether or not it can still be recalled.
AfterPop(ring, include_resend) ==
  IF ResendTried(ring, include_resend) THEN sendRing_pop_resend_sequence(ring) ELSE ring

\* The retransmission succeeds; otherwise the code falls through to a packet
\* that was never transmitted, if there is one.
ReadsRecall(ring, include_resend) ==
  ResendTried(ring, include_resend) /\ sendRing_can_recall(ring, ring.resend_list[1])

ReadsNew(ring, include_resend) ==
  /\ ~ReadsRecall(ring, include_resend)
  /\ sendRing_count_packets_to_send(ring, FALSE) # 0

\* sendRing_read_new_packet_to_tx_ (its effect on the ring).
sendRing_read_new_packet_to_tx_(ring) ==
  [ring EXCEPT
    !.tx_head     = ring_wrap(@ + 1, SendLen),
    !.tx_sequence = SeqPlus(@, 1)]

\* Mutant: no return after a successful retransmission.
ReadWithoutReturn(ring, include_resend) ==
  IF sendRing_count_packets_to_send(ring, FALSE) # 0
  THEN sendRing_read_new_packet_to_tx_(AfterPop(ring, include_resend))
  ELSE AfterPop(ring, include_resend)

\* What sendRing_read_to_tx leaves of the ring.
sendRing_read_to_tx(ring, include_resend) ==
  IF ReadsNew(ring, include_resend)
  THEN sendRing_read_new_packet_to_tx_(AfterPop(ring, include_resend))
  ELSE AfterPop(ring, include_resend)

\* The slot whose payload it copies and the number it reports.
ReadSlot(ring, include_resend) ==
  IF ReadsRecall(ring, include_resend)
  THEN sendRing_get_recall_ring_index(ring, ring.resend_list[1])
  ELSE ring.tx_head

\* Mutant: the number of the next new packet is reported for a retransmission.
NewSequence(ring, include_resend) == ring.tx_sequence

ReadSequence(ring, include_resend) ==
  IF ReadsRecall(ring, include_resend) THEN ring.resend_list[1] ELSE ring.tx_sequence

\* sendRing_peek_next_tx_size_and_sequence: whether it finds a packet, and the
\* number it reports, taken from the ring item.
PeekFinds(ring, include_resend) ==
  ReadsRecall(ring, include_resend) \/ ReadsNew(ring, include_resend)

PeekSequence(ring, include_resend) == ring.buff[ReadSlot(ring, include_resend)].sequence

-----------------------------------------------------------------------------
(* Acknowledging. *)

\* Mutant: a number beyond what was pushed is refused.
ValidUpToHead(ring, new_tail_sequence) ==
  SeqMinus(new_tail_sequence, ring.tail_sequence)
    <= SeqMinus(ring.head_sequence, ring.tail_sequence)

\* A number beyond what was transmitted is refused.
ValidAcknowledge(ring, new_tail_sequence) ==
  SeqMinus(new_tail_sequence, ring.tail_sequence)
    <= SeqMinus(ring.tx_sequence, ring.tail_sequence)

\* Mutant: the loop takes one step too many.
AcknowledgedAndOne(ring, new_tail_sequence) ==
  {i \in SendSlots : ring_wrap(i - ring.tail, SendLen)
                       <= SeqMinus(new_tail_sequence, ring.tail_sequence)}

\* The slots the loop clears, one per step of tail_sequence.
Acknowledged(ring, new_tail_sequence) ==
  {i \in SendSlots : ring_wrap(i - ring.tail, SendLen)
                       < SeqMinus(new_tail_sequence, ring.tail_sequence)}

sendRing_clean_tail_up_to(ring, new_tail_sequence) ==
  LET n == SeqMinus(new_tail_sequence, ring.tail_sequence)
  IN  [ring EXCEPT
        !.buff = [i \in SendSlots |->
                    IF i \in Acknowledged(ring, new_tail_sequence)
                    THEN VacantItem ELSE @[i]],
        !.storage_count = @ - n,
        !.tail          = ring_wrap(@ + n, SendLen),
        !.tail_sequence = new_tail_sequence]

\* Mutant: the payloads are not deleted.
CleanedNothing(ring, new_tail_sequence) == {}

\* The positions it deletes from the element buffer.
CleanedIdx(ring, new_tail_sequence) ==
  {ring.buff[i].idx : i \in Acknowledged(ring, new_tail_sequence)}
=============================================================================
