------------------------------ MODULE SendRing ------------------------------
(***************************************************************************)
(* One send ring with its payloads: sendRing is the SkySendRing, elements  *)
(* the element buffer behind it, out the last packet handed to the radio.  *)
(* The ring's callers are free to call its operations in any order, and    *)
(* the numbers in acknowledgements and retransmission requests are         *)
(* whatever the peer's frame says.                                         *)
(***************************************************************************)
EXTENDS SendRingOps

CONSTANTS
  Payload,    \* payloads
  NoPayload,  \* content of a free position of the element buffer
  NoPacket    \* value of out before the first transmission

ASSUME PayloadAssumption == NoPayload \notin Payload

INSTANCE PayloadStore

VARIABLES sendRing, elements, out

vars == <<sendRing, elements, out>>

\* A packet as it leaves: the number sendRing_peek_next_tx_size_and_sequence
\* announced in the frame's ARQ header, the number and the payload that
\* sendRing_read_to_tx returned.
TxPacket == [announced : Sequence, sequence : Sequence, payload : Payload]

ASSUME NoPacketAssumption == NoPacket \notin TxPacket

Init ==
  /\ sendRing = sky_send_ring_wipe(0)
  /\ elements = EmptyStore
  /\ out = NoPacket

\* sendRing_push_packet_to_send; when the ring is full or the element buffer
\* has no room, it fails and changes nothing.
Push(payload) ==
  /\ ~sendRing_is_full(sendRing)
  /\ \E idx \in FreeIdx(elements) :
       /\ elements' = Stored(elements, idx, payload)
       /\ sendRing' = sendRing_push_packet_to_send(sendRing, idx)
  /\ UNCHANGED out

\* Peek at the next packet, then read it, as sky_vc_fill_frame does.
ReadToTx(include_resend) ==
  /\ PeekFinds(sendRing, include_resend)
  /\ out' = [announced |-> PeekSequence(sendRing, include_resend),
             sequence  |-> ReadSequence(sendRing, include_resend),
             payload   |-> elements[sendRing.buff[ReadSlot(sendRing, include_resend)].idx]]
  /\ sendRing' = sendRing_read_to_tx(sendRing, include_resend)
  /\ UNCHANGED elements

\* sendRing_read_to_tx when no packet can be read: a resend entry that can no
\* longer be recalled is dropped.
ReadNothing ==
  /\ ~PeekFinds(sendRing, TRUE)
  /\ ResendTried(sendRing, TRUE)
  /\ sendRing' = sendRing_read_to_tx(sendRing, TRUE)
  /\ UNCHANGED <<elements, out>>

ScheduleResends(sequence, mask) ==
  /\ sendRing' = sendRing_schedule_resends_by_mask(sendRing, sequence, mask)
  /\ UNCHANGED <<elements, out>>

\* sendRing_clean_tail_up_to
CleanTail(new_tail_sequence) ==
  /\ ValidAcknowledge(sendRing, new_tail_sequence)
  /\ sendRing' = sendRing_clean_tail_up_to(sendRing, new_tail_sequence)
  /\ elements' = Deleted(elements, CleanedIdx(sendRing, new_tail_sequence))
  /\ UNCHANGED out

Wipe(initial_sequence) ==
  /\ sendRing' = sky_send_ring_wipe(initial_sequence)
  /\ elements' = Deleted(elements, SendRingHeld(sendRing))
  /\ UNCHANGED out

Next ==
  \/ \E payload \in Payload : Push(payload)
  \/ \E include_resend \in BOOLEAN : ReadToTx(include_resend)
  \/ ReadNothing
  \/ \E sequence \in Sequence, mask \in SUBSET (0 .. MaskBits - 1) :
       ScheduleResends(sequence, mask)
  \/ \E sequence \in Sequence : CleanTail(sequence)
  \/ \E sequence \in Sequence : Wipe(sequence)

Spec == Init /\ [][Next]_vars

-----------------------------------------------------------------------------
(* Properties. *)

TypeOK ==
  /\ sendRing \in SkySendRing
  /\ Len(sendRing.resend_list) <= ResendDepth
  /\ elements \in Store
  /\ out \in TxPacket \cup {NoPacket}

\* Distances from the tail, in slots.
Offset(i) == ring_wrap(i - sendRing.tail, SendLen)
TxCount == Offset(sendRing.tx_head)
Count == Offset(sendRing.head)

\* The three indices and the three sequence numbers of the ring move in step
\* although they wrap at different moduli, tx_head never leaves the stretch
\* from tail to head, and storage_count counts that stretch.
CountersAgree ==
  /\ TxCount <= Count
  /\ sendRing.storage_count = Count
  /\ sendRing.head_sequence = SeqPlus(sendRing.tail_sequence, Count)
  /\ sendRing.tx_sequence = SeqPlus(sendRing.tail_sequence, TxCount)

\* Exactly the slots from tail to head hold a packet, each numbered by its
\* distance from the tail.
SlotsAgree ==
  \A i \in SendSlots :
    IF Offset(i) < Count
    THEN /\ sendRing.buff[i].idx \in Idx
         /\ sendRing.buff[i].sequence = SeqPlus(sendRing.tail_sequence, Offset(i))
    ELSE sendRing.buff[i] = VacantItem

\* No payload is leaked, none is deleted while a slot still refers to it, and
\* no two slots share one: the occupied positions of the element buffer are
\* those the slots hold, each held once.
PayloadsOwned ==
  /\ \A i, j \in SendSlots :
       sendRing.buff[i].idx = sendRing.buff[j].idx
         => i = j \/ sendRing.buff[i].idx = EB_NULL_IDX
  /\ \A idx \in Idx :
       elements[idx] # NoPayload <=> idx \in SendRingHeld(sendRing)

RingInv == CountersAgree /\ SlotsAgree /\ PayloadsOwned

\* The sequence number in the ARQ header, peeked before the frame is filled,
\* is the number of the payload that is then read, also when the first resend
\* entry is stale and the read falls through to a new packet.
AnnouncedIsRead == out # NoPacket => out.announced = out.sequence

\* The ring is a queue of unacknowledged packets: what leaves it, in which
\* order and under which number is what SendQueue allows.
Queue == INSTANCE SendQueue WITH
  queue    <- [n \in 1 .. Count |->
                elements[sendRing.buff[ring_wrap(sendRing.tail + n - 1, SendLen)].idx]],
  sent     <- TxCount,
  base     <- sendRing.tail_sequence,
  out      <- IF out = NoPacket THEN NoPacket
              ELSE [sequence |-> out.announced, payload |-> out.payload],
  Capacity <- SendLen - 1

ImplementsQueue == Queue!Spec
=============================================================================
