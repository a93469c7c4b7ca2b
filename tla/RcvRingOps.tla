----------------------------- MODULE RcvRingOps -----------------------------
(***************************************************************************)
(* The receive ring of sequence_ring.c as operators on one record, an      *)
(* operator per C function and with its name.  The slots from tail to head *)
(* hold packets the application can read; the horizon, the slot at head    *)
(* and the horizon_width slots after it, takes packets that arrive out of  *)
(* order.  When the horizon has caught up with the tail the head stops     *)
(* although its slot is filled: the ring is choked.                        *)
(***************************************************************************)
EXTENDS SequenceRing, FiniteSets

CONSTANTS
  RcvLen,             \* length of the ring
  HorizonWidth,       \* width of the out-of-order window beyond head
  ARQ_MAXIMUM_HORIZON \* bound of the windows a peer may be ahead by

\* sky_rcv_ring_create refuses a length below horizon_width + 3 and cuts the
\* width at ARQ_MAXIMUM_HORIZON; sky_vc_create keeps the length in 6..250,
\* below the number of sequence numbers.
ASSUME RcvRingAssumption ==
  /\ RcvLen \in Nat /\ HorizonWidth \in Nat /\ ARQ_MAXIMUM_HORIZON \in Nat
  /\ HorizonWidth + 3 <= RcvLen /\ RcvLen <= SeqCount
  /\ HorizonWidth <= ARQ_MAXIMUM_HORIZON

RcvSlots == 0 .. RcvLen - 1

SkyRcvRing == [
  buff          : [RcvSlots -> RingItem],
  head          : RcvSlots,
  tail          : RcvSlots,
  head_sequence : Sequence,
  tail_sequence : Sequence,
  storage_count : Int]

sky_rcv_ring_wipe(initial_sequence) == [
  buff          |-> [i \in RcvSlots |-> VacantItem],
  head          |-> 0,
  tail          |-> 0,
  head_sequence |-> initial_sequence,
  tail_sequence |-> initial_sequence,
  storage_count |-> 0]

\* The positions a wipe deletes from the element buffer.
RcvRingHeld(ring) == {ring.buff[i].idx : i \in RcvSlots} \ {EB_NULL_IDX}

rcvRing_count_readable_packets(ring) == ring_wrap(ring.head - ring.tail, RcvLen)

\* Mutant: the tail does not stop the head.
EndsAtVacantOnly(ring, n) ==
  ring.buff[ring_wrap(ring.head + n, RcvLen)].idx = EB_NULL_IDX

\* The loop of rcvRing_advance_head leaves the head n slots further on when it
\* meets a vacant slot there, or when the horizon would run into the tail.
AdvanceEnds(ring, n) ==
  \/ ring.buff[ring_wrap(ring.head + n, RcvLen)].idx = EB_NULL_IDX
  \/ ring_wrap(ring.head + n + HorizonWidth + 1, RcvLen) = ring.tail

\* Mutant: the head moves on without a look at the slot.
StepsOverGap(ring) ==
  IF ring_wrap(ring.head + HorizonWidth + 1, RcvLen) = ring.tail THEN 0 ELSE 1

\* The steps it takes: the first n at which it ends.
AdvanceSteps(ring) ==
  CHOOSE n \in 0 .. RcvLen : AdvanceEnds(ring, n) /\ \A m \in 0 .. n - 1 : ~AdvanceEnds(ring, m)

rcvRing_advance_head(ring) ==
  [ring EXCEPT
    !.head          = ring_wrap(@ + AdvanceSteps(ring), RcvLen),
    !.head_sequence = SeqPlus(@, AdvanceSteps(ring))]

-----------------------------------------------------------------------------
(* Receiving a packet. *)

\* How far ahead of the head the packet lies, and the slot it belongs to.
AheadOfHead(ring, sequence) == SeqMinus(sequence, ring.head_sequence)

\* Mutant: the slot is counted from the tail.
SlotFromTail(ring, sequence) == ring_wrap(ring.tail + AheadOfHead(ring, sequence), RcvLen)

SlotFor(ring, sequence) == ring_wrap(ring.head + AheadOfHead(ring, sequence), RcvLen)

\* Mutant: a packet that is there is taken again.
AcceptsTwice(ring, sequence) == AheadOfHead(ring, sequence) <= HorizonWidth

\* The packet is within the horizon and its slot is vacant; otherwise it is
\* refused as an invalid sequence or as already in.
Accepts(ring, sequence) ==
  /\ AheadOfHead(ring, sequence) <= HorizonWidth
  /\ ring.buff[SlotFor(ring, sequence)].idx = EB_NULL_IDX

\* The ring once the payload has been stored at position idx.
rcvRing_push_rx_packet(ring, idx, sequence) ==
  rcvRing_advance_head(
    [ring EXCEPT
      !.buff[SlotFor(ring, sequence)] = [idx |-> idx, sequence |-> sequence],
      !.storage_count = @ + 1])

-----------------------------------------------------------------------------
(* Reading the packet at the tail; a head that was choked moves on. *)

\* Mutant: the tail is not wrapped.
ReadUnwrapped(ring) ==
  rcvRing_advance_head(
    [ring EXCEPT
      !.buff[ring.tail] = VacantItem,
      !.storage_count   = @ - 1,
      !.tail            = @ + 1,
      !.tail_sequence   = SeqPlus(@, 1)])

\* Mutant: a head that was choked stays.
ReadWithoutAdvance(ring) ==
  [ring EXCEPT
    !.buff[ring.tail] = VacantItem,
    !.storage_count   = @ - 1,
    !.tail            = ring_wrap(@ + 1, RcvLen),
    !.tail_sequence   = SeqPlus(@, 1)]

rcvRing_read_next_received(ring) ==
  rcvRing_advance_head(
    [ring EXCEPT
      !.buff[ring.tail] = VacantItem,
      !.storage_count   = @ - 1,
      !.tail            = ring_wrap(@ + 1, RcvLen),
      !.tail_sequence   = SeqPlus(@, 1)])

-----------------------------------------------------------------------------
(* What the ring tells the peer. *)

\* The bits of the mask: which of the packets after the one at head are there.
rcvRing_get_horizon_bitmap(ring, mask_bits) ==
  {i \in 0 .. (IF HorizonWidth < mask_bits THEN HorizonWidth ELSE mask_bits) - 1 :
     ring.buff[ring_wrap(ring.head + 1 + i, RcvLen)].idx # EB_NULL_IDX}

\* How the peer's next number compares with ours.
rcvRing_get_sequence_sync_status(ring, peer_tx_head_sequence_by_ctrl) ==
  IF peer_tx_head_sequence_by_ctrl = ring.head_sequence THEN "IN_SYNC"
  ELSE IF SeqMinus(peer_tx_head_sequence_by_ctrl, ring.head_sequence) <= ARQ_MAXIMUM_HORIZON
  THEN "OUT_OF_SYNC"
  ELSE "DETACHED"
=============================================================================
