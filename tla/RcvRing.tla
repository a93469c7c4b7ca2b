------------------------------- MODULE RcvRing -------------------------------
(***************************************************************************)
(* One receive ring with its payloads: rcvRing is the SkyRcvRing, elements *)
(* the element buffer behind it, out the last packet the application read. *)
(* Packets arrive with whatever number the peer's frame says.              *)
(***************************************************************************)
EXTENDS RcvRingOps

CONSTANTS
  Payload,    \* payloads
  NoPayload,  \* content of a free position of the element buffer
  NoPacket,   \* value of out before the first delivery
  TooLong     \* payloads longer than the buffer the application reads into

ASSUME PayloadAssumption == NoPayload \notin Payload /\ TooLong \subseteq Payload

INSTANCE PayloadStore

VARIABLES rcvRing, elements, out

vars == <<rcvRing, elements, out>>

\* A packet as the application gets it, with the number of its ring item.
RxPacket == [sequence : Sequence, payload : Payload]

ASSUME NoPacketAssumption == NoPacket \notin RxPacket

Init ==
  /\ rcvRing = sky_rcv_ring_wipe(0)
  /\ elements = EmptyStore
  /\ out = NoPacket

\* rcvRing_push_rx_packet; outside the horizon, for a packet that is there, or
\* without room in the element buffer, it fails and changes nothing.
PushRx(sequence, payload) ==
  /\ Accepts(rcvRing, sequence)
  /\ \E idx \in FreeIdx(elements) :
       /\ elements' = Stored(elements, idx, payload)
       /\ rcvRing' = rcvRing_push_rx_packet(rcvRing, idx, sequence)
  /\ UNCHANGED out

\* Mutant: the newest packet is delivered and the oldest deleted.
ReadNewest ==
  LET item   == rcvRing.buff[rcvRing.tail]
      newest == rcvRing.buff[ring_wrap(rcvRing.head - 1, RcvLen)]
  IN  /\ rcvRing_count_readable_packets(rcvRing) # 0
      /\ elements[item.idx] \notin TooLong
      /\ out' = [sequence |-> newest.sequence, payload |-> elements[newest.idx]]
      /\ elements' = Deleted(elements, {item.idx})
      /\ rcvRing' = rcvRing_read_next_received(rcvRing)

\* rcvRing_read_next_received; a payload longer than the caller's buffer makes
\* it fail and stays where it is.
ReadNext ==
  LET item == rcvRing.buff[rcvRing.tail]
  IN  /\ rcvRing_count_readable_packets(rcvRing) # 0
      /\ elements[item.idx] \notin TooLong
      /\ out' = [sequence |-> item.sequence, payload |-> elements[item.idx]]
      /\ elements' = Deleted(elements, {item.idx})
      /\ rcvRing' = rcvRing_read_next_received(rcvRing)

Wipe(initial_sequence) ==
  /\ rcvRing' = sky_rcv_ring_wipe(initial_sequence)
  /\ elements' = Deleted(elements, RcvRingHeld(rcvRing))
  /\ UNCHANGED out

Next ==
  \/ \E sequence \in Sequence, payload \in Payload : PushRx(sequence, payload)
  \/ ReadNext
  \/ \E sequence \in Sequence : Wipe(sequence)

Spec == Init /\ [][Next]_vars

-----------------------------------------------------------------------------
(* Properties. *)

TypeOK ==
  /\ rcvRing \in SkyRcvRing
  /\ elements \in Store
  /\ out \in RxPacket \cup {NoPacket}

\* Distance from the tail, in slots.
Offset(i) == ring_wrap(i - rcvRing.tail, RcvLen)
Readable == Offset(rcvRing.head)

\* The horizon never runs over the tail, and index and sequence number of the
\* head move in step although they wrap at different moduli.
HorizonClear ==
  /\ Readable + HorizonWidth + 1 <= RcvLen
  /\ rcvRing.head_sequence = SeqPlus(rcvRing.tail_sequence, Readable)

\* Every slot from tail to head holds a packet, the head waits at the first missing
\* one unless the ring is choked, the slots beyond the horizon hold none, and a
\* packet sits in the slot its number belongs to.
SlotsAgree ==
  \A i \in RcvSlots :
    /\ Offset(i) < Readable => rcvRing.buff[i].idx # EB_NULL_IDX
    /\ i = rcvRing.head /\ rcvRing.buff[i].idx # EB_NULL_IDX
         => Readable + HorizonWidth + 1 = RcvLen
    /\ Offset(i) > Readable + HorizonWidth => rcvRing.buff[i].idx = EB_NULL_IDX
    /\ rcvRing.buff[i].sequence =
         IF rcvRing.buff[i].idx = EB_NULL_IDX THEN 0
         ELSE SeqPlus(rcvRing.tail_sequence, Offset(i))

\* No payload is leaked, none is deleted while a slot still refers to it, and
\* no two slots share one.
PayloadsOwned ==
  /\ \A i, j \in RcvSlots :
       rcvRing.buff[i].idx = rcvRing.buff[j].idx
         => i = j \/ rcvRing.buff[i].idx = EB_NULL_IDX
  /\ \A idx \in Idx :
       elements[idx] # NoPayload <=> idx \in RcvRingHeld(rcvRing)

RingInv == HorizonClear /\ SlotsAgree /\ PayloadsOwned

\* The ring delivers in order what it accepted out of order: what RcvWindow
\* allows.
Window == INSTANCE RcvWindow WITH
  window  <- [k \in 0 .. RcvLen - 1 |->
               LET item == rcvRing.buff[ring_wrap(rcvRing.tail + k, RcvLen)]
               IN  IF item.idx = EB_NULL_IDX THEN NoPayload ELSE elements[item.idx]],
  ready   <- Readable,
  base    <- rcvRing.tail_sequence,
  Size    <- RcvLen,
  Horizon <- HorizonWidth

ImplementsWindow == Window!Spec
=============================================================================
