---------------------------- MODULE ArqLinkProofs ----------------------------
(***************************************************************************)
(* The link, for every number of packets, sessions and frames on their     *)
(* way, every length of the rings and every width of the sequence numbers. *)
(*                                                                         *)
(* The first part says what the operations of a virtual channel do to its  *)
(* two rings, in terms of the packets the peers' applications have pushed: *)
(* which of them are acknowledged, transmitted, delivered.  The packets of *)
(* an end are numbered from 1 by its application; a session starts after   *)
(* the first o of them (its origin), and packet k carries the sequence     *)
(* number Num(k - 1 - o).  The second part is about the link.              *)
(***************************************************************************)
EXTENDS ArqLink, RingArithmetic

Num(x) == x % SeqCount

-----------------------------------------------------------------------------
(* The send ring of an end whose application has pushed p packets.         *)

SlotOffset(ring, i) == ring_wrap(i - ring.tail, SendLen)
Held(ring) == SlotOffset(ring, ring.head)
Sent(ring) == SlotOffset(ring, ring.tx_head)

\* The newest packet that is acknowledged, and the newest that was transmitted.
Acked(ring, p) == p - Held(ring)
Seen(ring, p) == p - Held(ring) + Sent(ring)

SendInv(ring, p, o) ==
  /\ ring \in SkySendRing
  /\ Sent(ring) <= Held(ring)
  /\ ring.storage_count = Held(ring)
  /\ o <= Acked(ring, p)
  /\ ring.head_sequence = Num(p - o)
  /\ ring.tx_sequence = Num(Seen(ring, p) - o)
  /\ ring.tail_sequence = Num(Acked(ring, p) - o)
  /\ \A i \in SendSlots : SlotOffset(ring, i) < Held(ring) =>
       /\ ring.buff[i].idx = Acked(ring, p) + SlotOffset(ring, i) + 1
       /\ ring.buff[i].sequence = Num(Acked(ring, p) + SlotOffset(ring, i) - o)

-----------------------------------------------------------------------------
(* The receive ring of an end that has been given packet base last.        *)

Place(ring, i) == ring_wrap(i - ring.tail, RcvLen)
Ready(ring) == Place(ring, ring.head)

\* The newest packet that can be read or was read.
Got(ring, base) == base + Ready(ring)

RcvInv(ring, base, o) ==
  /\ ring \in SkyRcvRing
  /\ o <= base
  /\ Ready(ring) + HorizonWidth + 1 <= RcvLen
  /\ ring.head_sequence = Num(Got(ring, base) - o)
  /\ \A i \in RcvSlots :
       /\ Place(ring, i) < Ready(ring) => ring.buff[i].idx # EB_NULL_IDX
       /\ ring.buff[i].idx # EB_NULL_IDX => ring.buff[i].idx = base + Place(ring, i) + 1
-----------------------------------------------------------------------------
(* Arithmetic. *)

\* What the assumptions say of the constants.
LEMMA Constants ==
  /\ SendLen \in Nat \ {0} /\ SendLen >= 4 /\ SendLen <= SeqCount
  /\ RcvLen \in Nat \ {0} /\ HorizonWidth \in Nat
  /\ HorizonWidth + 3 <= RcvLen /\ RcvLen <= SeqCount
  /\ SeqCount \in Nat \ {0} /\ ResendDepth \in Nat \ {0} /\ MaskBits \in Nat
  /\ EB_NULL_IDX \notin Idx
BY SendRingAssumption, RcvRingAssumption, SeqCountAssumption, IdxAssumption

\* A number of the range of the sequence numbers.
LEMMA NumType ==
  ASSUME NEW x \in Int
  PROVE  Num(x) \in Sequence
BY Constants DEF Num, Sequence

\* The number of the packet n further on.
LEMMA NumPlus ==
  ASSUME NEW x \in Int, NEW n \in Int
  PROVE  SeqPlus(Num(x), n) = Num(x + n)
BY ModPlus, Constants DEF Num, SeqPlus

\* The distance of two packets from their numbers, when the one is at most one
\* round of the numbers ahead.
LEMMA NumMinus ==
  ASSUME NEW x \in Int, NEW y \in Int, y <= x, x - y < SeqCount
  PROVE  SeqMinus(Num(x), Num(y)) = x - y
<1>1. Num(y) \in Sequence /\ x - y \in Nat /\ x - y \in Int /\ y + (x - y) = x
  BY NumType
<1>2. SeqPlus(Num(y), x - y) = Num(x)
  BY <1>1, NumPlus
<1>3. SeqMinus(SeqPlus(Num(y), x - y), Num(y)) = x - y
  BY <1>1, SeqMinusPlus
<1> QED BY <1>2, <1>3

\* The same for a packet that lies behind.
LEMMA NumBehind ==
  ASSUME NEW x \in Int, NEW y \in Int, x < y, y - x <= SeqCount
  PROVE  SeqMinus(Num(x), Num(y)) = x - y + SeqCount
<1>1. x + SeqCount \in Int /\ y <= x + SeqCount /\ (x + SeqCount) - y < SeqCount
      /\ x + 1 * SeqCount = x + SeqCount /\ 1 \in Int
  BY Constants
<1>2. Num(x + SeqCount) = Num(x)
  BY <1>1, ModTurns, Constants DEF Num
<1>3. SeqMinus(Num(x + SeqCount), Num(y)) = (x + SeqCount) - y
  BY <1>1, NumMinus
<1> QED BY <1>2, <1>3, Constants

\* How far a number lies beyond another one that has moved on.
LEMMA SeqMinusMoved ==
  ASSUME NEW s \in Sequence, NEW t \in Sequence, NEW u \in Sequence,
         SeqMinus(u, t) <= SeqMinus(s, t)
  PROVE  SeqMinus(s, u) = SeqMinus(s, t) - SeqMinus(u, t)
<1>1. /\ SeqMinus(s, t) = (IF s >= t THEN s - t ELSE s - t + SeqCount)
      /\ SeqMinus(u, t) = (IF u >= t THEN u - t ELSE u - t + SeqCount)
      /\ SeqMinus(s, u) = (IF s >= u THEN s - u ELSE s - u + SeqCount)
  BY SeqDistance
<1>2. s \in 0 .. SeqCount - 1 /\ t \in 0 .. SeqCount - 1 /\ u \in 0 .. SeqCount - 1
  BY DEF Sequence
<1> QED BY <1>1, <1>2, Constants

-----------------------------------------------------------------------------
(* The send ring. *)

\* Slots are indices below the length, and an empty slot is a ring item.
LEMMA SendSlotFacts ==
  /\ 0 \in SendSlots /\ VacantItem \in RingItem
  /\ \A i \in SendSlots : i \in Nat /\ i < SendLen /\ i \in 0 .. SendLen - 1
  /\ \A i \in SendSlots : ring_wrap(i - i, SendLen) = 0
<1>1. 0 \in SendSlots /\ \A i \in SendSlots : i \in Nat /\ i < SendLen /\ i \in 0 .. SendLen - 1
  BY Constants DEF SendSlots
<1>2. \A i \in SendSlots : ring_wrap(i - i, SendLen) = 0
  BY <1>1, Constants, NoDistance
<1>3. VacantItem \in RingItem
  BY SeqType DEF VacantItem, RingItem
<1> QED BY <1>1, <1>2, <1>3

\* The fields of a send ring, and distances in it.
LEMMA SendFields ==
  ASSUME NEW ring \in SkySendRing
  PROVE  /\ ring.buff \in [SendSlots -> RingItem]
         /\ ring.head \in SendSlots /\ ring.tx_head \in SendSlots /\ ring.tail \in SendSlots
         /\ ring.head_sequence \in Sequence /\ ring.tx_sequence \in Sequence
         /\ ring.tail_sequence \in Sequence
         /\ ring.storage_count \in Int /\ ring.resend_list \in Seq(Sequence)
         /\ \A i \in SendSlots : SlotOffset(ring, i) \in 0 .. SendLen - 1
         /\ Held(ring) \in 0 .. SendLen - 1 /\ Sent(ring) \in 0 .. SendLen - 1
<1>1. /\ ring.buff \in [SendSlots -> RingItem]
      /\ ring.head \in SendSlots /\ ring.tx_head \in SendSlots /\ ring.tail \in SendSlots
      /\ ring.head_sequence \in Sequence /\ ring.tx_sequence \in Sequence
      /\ ring.tail_sequence \in Sequence
      /\ ring.storage_count \in Int /\ ring.resend_list \in Seq(Sequence)
  BY DEF SkySendRing
<1>2. \A i \in SendSlots : SlotOffset(ring, i) \in 0 .. SendLen - 1
  BY <1>1, Constants, Distance DEF SlotOffset, SendSlots
<1> QED BY <1>1, <1>2 DEF Held, Sent

\* The order of the packets: what is acknowledged, was transmitted, was pushed.
LEMMA SendOrder ==
  ASSUME NEW ring, NEW p \in Nat, NEW o \in Nat, SendInv(ring, p, o)
  PROVE  /\ Held(ring) \in Nat /\ Held(ring) < SendLen
         /\ Sent(ring) \in Nat /\ Sent(ring) <= Held(ring)
         /\ Acked(ring, p) \in Nat /\ Seen(ring, p) \in Nat
         /\ o <= Acked(ring, p) /\ Acked(ring, p) <= Seen(ring, p) /\ Seen(ring, p) <= p
         /\ Seen(ring, p) = Acked(ring, p) + Sent(ring) /\ Acked(ring, p) = p - Held(ring)
         /\ Seen(ring, p) < Acked(ring, p) + SendLen
         /\ SeqMinus(ring.tx_sequence, ring.tail_sequence) = Sent(ring)
         /\ ring.storage_count = Held(ring)
<1>1. /\ Held(ring) \in 0 .. SendLen - 1 /\ Sent(ring) \in 0 .. SendLen - 1
      /\ Sent(ring) <= Held(ring) /\ o <= p - Held(ring)
      /\ ring.storage_count = Held(ring)
  BY SendFields DEF SendInv, Acked
<1>2. /\ Held(ring) \in Nat /\ Held(ring) < SendLen /\ Sent(ring) \in Nat
      /\ Acked(ring, p) \in Nat /\ Seen(ring, p) \in Nat
      /\ o <= Acked(ring, p) /\ Acked(ring, p) <= Seen(ring, p) /\ Seen(ring, p) <= p
      /\ Seen(ring, p) = Acked(ring, p) + Sent(ring) /\ Acked(ring, p) = p - Held(ring)
      /\ Seen(ring, p) < Acked(ring, p) + SendLen
  BY <1>1, Constants DEF Acked, Seen
<1>3. SeqMinus(ring.tx_sequence, ring.tail_sequence) = Sent(ring)
  <2> DEFINE x == Seen(ring, p) - o
             y == Acked(ring, p) - o
  <2>1. x \in Int /\ y \in Int /\ y <= x /\ x - y < SeqCount /\ x - y = Sent(ring)
    BY <1>1, <1>2, Constants
  <2>2. ring.tx_sequence = Num(x) /\ ring.tail_sequence = Num(y)
    BY DEF SendInv
  <2> HIDE DEF x, y
  <2> QED BY <2>1, <2>2, NumMinus
<1> QED BY <1>1, <1>2, <1>3

\* A ring that was just wiped holds nothing.
LEMMA SendWiped ==
  ASSUME NEW p \in Nat
  PROVE  /\ SendInv(sky_send_ring_wipe(0), p, p)
         /\ Acked(sky_send_ring_wipe(0), p) = p /\ Seen(sky_send_ring_wipe(0), p) = p
<1> DEFINE ring == sky_send_ring_wipe(0)
<1>1. /\ ring.buff = [i \in SendSlots |-> VacantItem] /\ ring.head = 0 /\ ring.tx_head = 0
      /\ ring.tail = 0 /\ ring.head_sequence = 0 /\ ring.tx_sequence = 0
      /\ ring.tail_sequence = 0 /\ ring.storage_count = 0 /\ ring.resend_list = <<>>
  BY DEF sky_send_ring_wipe
<1>2. ring \in SkySendRing
  <2>1. <<>> \in Seq(Sequence) /\ 0 \in Sequence
    BY SeqType
  <2> QED BY <2>1, SendSlotFacts DEF SkySendRing, sky_send_ring_wipe
<1> HIDE DEF ring
<1>3. Held(ring) = 0 /\ Sent(ring) = 0
  BY <1>1, SendSlotFacts DEF Held, Sent, SlotOffset
<1>4. Acked(ring, p) = p /\ Seen(ring, p) = p
  BY <1>3 DEF Acked, Seen
<1>5. Num(p - p) = 0
  BY Constants DEF Num
<1>6. \A i \in SendSlots : SlotOffset(ring, i) \in 0 .. SendLen - 1
  BY <1>2, SendFields
<1>7. SendInv(ring, p, p)
  BY <1>1, <1>2, <1>3, <1>4, <1>5, <1>6 DEF SendInv
<1> QED BY <1>4, <1>7 DEF ring

\* sendRing_push_packet_to_send adds the next packet.
LEMMA SendPushed ==
  ASSUME NEW ring, NEW p \in Nat, NEW o \in Nat, SendInv(ring, p, o),
         ~sendRing_is_full(ring), p + 1 \in Idx
  PROVE  /\ SendInv(sendRing_push_packet_to_send(ring, p + 1), p + 1, o)
         /\ Acked(sendRing_push_packet_to_send(ring, p + 1), p + 1) = Acked(ring, p)
         /\ Seen(sendRing_push_packet_to_send(ring, p + 1), p + 1) = Seen(ring, p)
         /\ sendRing_push_packet_to_send(ring, p + 1).tail_sequence = ring.tail_sequence
<1> DEFINE item == [idx |-> p + 1, sequence |-> ring.head_sequence]
           head == ring_wrap(ring.head + 1, SendLen)
           head_sequence == SeqPlus(ring.head_sequence, 1)
           buff == [ring.buff EXCEPT ![ring.head] = item]
           after == sendRing_push_packet_to_send(ring, p + 1)
<1>1. /\ ring \in SkySendRing /\ Held(ring) \in Nat /\ Held(ring) < SendLen
      /\ Sent(ring) \in Nat /\ Sent(ring) <= Held(ring) /\ ring.storage_count = Held(ring)
      /\ o <= Acked(ring, p) /\ Acked(ring, p) \in Nat /\ Acked(ring, p) = p - Held(ring)
      /\ ring.head_sequence = Num(p - o)
  BY SendOrder DEF SendInv
<1>2. after = [ring EXCEPT !.buff = buff, !.storage_count = ring.storage_count + 1,
                 !.head = head, !.head_sequence = head_sequence]
  BY <1>1, SendFields DEF sendRing_push_packet_to_send, SkySendRing
<1>3. /\ item \in RingItem /\ head \in SendSlots /\ head_sequence \in Sequence
      /\ head_sequence = Num(p + 1 - o)
  <2>1. item \in RingItem
    BY <1>1, SendFields DEF RingItem
  <2>2. head \in SendSlots
    BY <1>1, SendFields, Constants, NextSlot DEF SendSlots
  <2>3. p - o \in Int /\ (p - o) + 1 = p + 1 - o /\ p + 1 - o \in Int
    OBVIOUS
  <2>4. head_sequence = Num(p + 1 - o)
    BY <1>1, <2>3, NumPlus
  <2> QED BY <2>1, <2>2, <2>3, <2>4, NumType
<1>4. SlotOffset(ring, head) = Held(ring) + 1 /\ Held(ring) + 1 < SendLen
  <2> DEFINE h == ring.head
             t == ring.tail
  <2>1. h \in 0 .. SendLen - 1 /\ t \in 0 .. SendLen - 1
    BY <1>1, SendFields DEF SendSlots
  <2>2. head # t
    BY <2>1, Constants, WrapSlot DEF sendRing_is_full
  <2>3. head = IF h + 1 < SendLen THEN h + 1 ELSE h + 1 - SendLen
    BY <2>1, Constants, NextSlot
  <2>4. Held(ring) = IF h >= t THEN h - t ELSE h - t + SendLen
    BY <2>1, Constants, Distance DEF Held, SlotOffset
  <2>5. SlotOffset(ring, head) = IF head >= t THEN head - t ELSE head - t + SendLen
    <3>1. head \in 0 .. SendLen - 1
      BY <1>3 DEF SendSlots
    <3>2. SlotOffset(ring, head) = ring_wrap(head - t, SendLen)
      BY DEF SlotOffset
    <3>3. SendLen \in Nat \ {0}
      BY Constants
    <3> HIDE DEF head, h, t
    <3>4. ring_wrap(head - t, SendLen) = IF head >= t THEN head - t ELSE head - t + SendLen
      BY <2>1, <3>1, <3>3, Distance
    <3> QED BY <3>2, <3>4
  <2> HIDE DEF head, h, t
  <2> QED BY <2>1, <2>2, <2>3, <2>4, <2>5, Constants
<1> HIDE DEF item, head, head_sequence, after
<1>5. /\ after.buff = buff /\ after.head = head /\ after.tx_head = ring.tx_head
      /\ after.tail = ring.tail /\ after.head_sequence = head_sequence
      /\ after.tx_sequence = ring.tx_sequence /\ after.tail_sequence = ring.tail_sequence
      /\ after.storage_count = ring.storage_count + 1
      /\ after.resend_list = ring.resend_list
  BY <1>1, <1>2 DEF SkySendRing
<1>6. buff \in [SendSlots -> RingItem]
      /\ \A i \in SendSlots : buff[i] = IF i = ring.head THEN item ELSE ring.buff[i]
  BY <1>1, <1>3, SendFields
<1> HIDE DEF buff
<1>7. after \in SkySendRing
  <2>1. ring.storage_count + 1 \in Int
    BY <1>1
  <2> QED BY <1>1, <1>2, <1>3, <1>6, <2>1 DEF SkySendRing
<1>8. /\ \A i : SlotOffset(after, i) = SlotOffset(ring, i)
      /\ Held(after) = Held(ring) + 1 /\ Sent(after) = Sent(ring)
  BY <1>4, <1>5 DEF SlotOffset, Held, Sent
<1>9. Acked(after, p + 1) = Acked(ring, p) /\ Seen(after, p + 1) = Seen(ring, p)
  BY <1>1, <1>8 DEF Acked, Seen
<1>10. ASSUME NEW i \in SendSlots, SlotOffset(ring, i) < Held(ring) + 1
       PROVE  /\ buff[i].idx = Acked(ring, p) + SlotOffset(ring, i) + 1
              /\ buff[i].sequence = Num(Acked(ring, p) + SlotOffset(ring, i) - o)
  <2>1. CASE i = ring.head
    <3>1. SlotOffset(ring, i) = Held(ring) /\ buff[i] = item
      BY <1>6, <2>1 DEF Held
    <3>2. p = Acked(ring, p) + Held(ring)
      BY <1>1
    <3> QED BY <1>1, <3>1, <3>2 DEF item
  <2>2. CASE i # ring.head
    <3>1. buff[i] = ring.buff[i]
      BY <1>6, <2>2
    <3>2. SlotOffset(ring, i) # Held(ring)
      BY <1>1, <2>2, SendFields, Constants, SameDistance DEF SlotOffset, Held, SendSlots
    <3>3. SlotOffset(ring, i) \in 0 .. SendLen - 1
      BY <1>1, SendFields
    <3>4. SlotOffset(ring, i) < Held(ring)
      BY <1>1, <1>10, <3>2, <3>3
    <3> QED BY <3>1, <3>4 DEF SendInv
  <2> QED BY <2>1, <2>2
<1>11. SendInv(after, p + 1, o)
  <2>1. Sent(after) <= Held(after) /\ ring.storage_count + 1 = Held(after)
    BY <1>1, <1>8
  <2>2. ring.tx_sequence = Num(Seen(ring, p) - o) /\ ring.tail_sequence = Num(Acked(ring, p) - o)
    BY DEF SendInv
  <2> QED BY <1>1, <1>3, <1>5, <1>7, <1>8, <1>9, <1>10, <2>1, <2>2 DEF SendInv
<1> QED BY <1>5, <1>9, <1>11 DEF after

\* What is on the resend list does not matter.
LEMMA SendResends ==
  ASSUME NEW ring, NEW p \in Nat, NEW o \in Nat, SendInv(ring, p, o), NEW list \in Seq(Sequence)
  PROVE  /\ SendInv([ring EXCEPT !.resend_list = list], p, o)
         /\ Acked([ring EXCEPT !.resend_list = list], p) = Acked(ring, p)
         /\ Seen([ring EXCEPT !.resend_list = list], p) = Seen(ring, p)
         /\ [ring EXCEPT !.resend_list = list].tail_sequence = ring.tail_sequence
         /\ [ring EXCEPT !.resend_list = list].storage_count = ring.storage_count
<1> DEFINE after == [ring EXCEPT !.resend_list = list]
<1>1. ring \in SkySendRing
  BY DEF SendInv
<1>2. /\ after.buff = ring.buff /\ after.head = ring.head /\ after.tx_head = ring.tx_head
      /\ after.tail = ring.tail /\ after.head_sequence = ring.head_sequence
      /\ after.tx_sequence = ring.tx_sequence /\ after.tail_sequence = ring.tail_sequence
      /\ after.storage_count = ring.storage_count /\ after \in SkySendRing
  BY <1>1 DEF SkySendRing
<1> HIDE DEF after
<1>3. /\ \A i : SlotOffset(after, i) = SlotOffset(ring, i)
      /\ Held(after) = Held(ring) /\ Sent(after) = Sent(ring)
  BY <1>2 DEF SlotOffset, Held, Sent
<1>4. Acked(after, p) = Acked(ring, p) /\ Seen(after, p) = Seen(ring, p)
  BY <1>3 DEF Acked, Seen
<1>5. SendInv(after, p, o)
  BY <1>2, <1>3, <1>4 DEF SendInv
<1> QED BY <1>2, <1>4, <1>5 DEF after

\* Dropping an entry of the resend list leaves a resend list.
LEMMA PopType ==
  ASSUME NEW list \in Seq(Sequence), list # <<>>,
         NEW popped,
         popped = [i \in 1 .. Len(list) - 1 |-> IF i < Len(list) - 1 THEN list[i + 1] ELSE list[i]]
  PROVE  popped \in Seq(Sequence)
<1>1. Len(list) \in Nat /\ Len(list) - 1 \in Nat
  OBVIOUS
<1>2. popped \in [1 .. Len(list) - 1 -> Sequence]
  BY <1>1
<1> QED BY <1>1, <1>2

\* sendRing_read_to_tx changes the resend list, and tx_head and tx_sequence when
\* the packet is a new one.
LEMMA ReadChanges ==
  ASSUME NEW ring \in SkySendRing, NEW include_resend \in BOOLEAN
  PROVE  \E list \in Seq(Sequence) :
           sendRing_read_to_tx(ring, include_resend) =
             IF ReadsNew(ring, include_resend)
             THEN sendRing_read_new_packet_to_tx_([ring EXCEPT !.resend_list = list])
             ELSE [ring EXCEPT !.resend_list = list]
<1>1. ring.resend_list \in Seq(Sequence)
  BY SendFields
<1>2. PICK list \in Seq(Sequence) :
        AfterPop(ring, include_resend) = [ring EXCEPT !.resend_list = list]
  <2>1. CASE ResendTried(ring, include_resend)
    <3> DEFINE old == ring.resend_list
               list == [i \in 1 .. Len(old) - 1 |->
                          IF i < Len(old) - 1 THEN old[i + 1] ELSE old[i]]
    <3>1. list \in Seq(Sequence)
      BY <1>1, <2>1, PopType DEF ResendTried
    <3>2. AfterPop(ring, include_resend) = [ring EXCEPT !.resend_list = list]
      BY <2>1 DEF AfterPop, sendRing_pop_resend_sequence, SkySendRing
    <3> HIDE DEF list
    <3> QED BY <3>1, <3>2
  <2>2. CASE ~ResendTried(ring, include_resend)
    <3>1. AfterPop(ring, include_resend) = [ring EXCEPT !.resend_list = ring.resend_list]
      BY <2>2 DEF AfterPop, SkySendRing
    <3> QED BY <1>1, <3>1
  <2> QED BY <2>1, <2>2
<1> QED BY <1>2 DEF sendRing_read_to_tx

\* Reading a packet that was never transmitted.
LEMMA SendReadNew ==
  ASSUME NEW ring, NEW p \in Nat, NEW o \in Nat, SendInv(ring, p, o),
         sendRing_count_packets_to_send(ring, FALSE) # 0
  PROVE  /\ SendInv(sendRing_read_new_packet_to_tx_(ring), p, o)
         /\ Acked(sendRing_read_new_packet_to_tx_(ring), p) = Acked(ring, p)
         /\ Seen(sendRing_read_new_packet_to_tx_(ring), p) = Seen(ring, p) + 1
         /\ sendRing_read_new_packet_to_tx_(ring).tail_sequence = ring.tail_sequence
         /\ Sent(ring) < Held(ring)
<1> DEFINE after == sendRing_read_new_packet_to_tx_(ring)
           tx_head == ring_wrap(ring.tx_head + 1, SendLen)
           tx_sequence == SeqPlus(ring.tx_sequence, 1)
<1>1. /\ ring \in SkySendRing /\ Held(ring) \in Nat /\ Held(ring) < SendLen
      /\ Sent(ring) \in Nat /\ Sent(ring) <= Held(ring) /\ Seen(ring, p) \in Nat
      /\ ring.tx_sequence = Num(Seen(ring, p) - o)
  BY SendOrder DEF SendInv
<1>2. Sent(ring) < Held(ring)
  <2>1. ring.head # ring.tx_head
    <3>1. ring_wrap(ring.head - ring.tx_head, SendLen) # 0
      BY <1>1, SendFields, Constants, Distance DEF sendRing_count_packets_to_send, SendSlots
    <3> QED BY <1>1, <3>1, SendFields, Constants, NoDistance DEF SendSlots
  <2>2. Sent(ring) # Held(ring)
    BY <1>1, <2>1, SendFields, Constants, SameDistance DEF Sent, Held, SlotOffset, SendSlots
  <2> QED BY <1>1, <2>2
<1>3. tx_head \in SendSlots /\ ring_wrap(tx_head - ring.tail, SendLen) = Sent(ring) + 1
  <2>1. tx_head \in SendSlots
    BY <1>1, SendFields, Constants, NextSlot DEF SendSlots
  <2>2. Sent(ring) + 1 < SendLen
    BY <1>1, <1>2, Constants
  <2>3. ring_wrap(tx_head - ring.tail, SendLen) = ring_wrap(ring.tx_head - ring.tail, SendLen) + 1
    BY <1>1, <2>2, SendFields, Constants, DistanceToNext DEF SendSlots, Sent, SlotOffset
  <2> QED BY <2>1, <2>3 DEF Sent, SlotOffset
<1>4. tx_sequence = Num(Seen(ring, p) + 1 - o) /\ tx_sequence \in Sequence
  <2>1. Seen(ring, p) - o \in Int /\ (Seen(ring, p) - o) + 1 = Seen(ring, p) + 1 - o
        /\ Seen(ring, p) + 1 - o \in Int
    BY <1>1
  <2>2. tx_sequence = Num(Seen(ring, p) + 1 - o)
    BY <1>1, <2>1, NumPlus
  <2> QED BY <2>1, <2>2, NumType
<1> HIDE DEF tx_head, tx_sequence
<1>5. after = [ring EXCEPT !.tx_head = tx_head, !.tx_sequence = tx_sequence]
  BY <1>1 DEF sendRing_read_new_packet_to_tx_, SkySendRing, tx_head, tx_sequence
<1> HIDE DEF after
<1>6. /\ after.buff = ring.buff /\ after.head = ring.head /\ after.tx_head = tx_head
      /\ after.tail = ring.tail /\ after.head_sequence = ring.head_sequence
      /\ after.tx_sequence = tx_sequence /\ after.tail_sequence = ring.tail_sequence
      /\ after.storage_count = ring.storage_count /\ after \in SkySendRing
  BY <1>1, <1>3, <1>4, <1>5 DEF SkySendRing
<1>7. /\ \A i : SlotOffset(after, i) = SlotOffset(ring, i)
      /\ Held(after) = Held(ring) /\ Sent(after) = Sent(ring) + 1
  BY <1>3, <1>6 DEF SlotOffset, Held, Sent
<1>8. Acked(after, p) = Acked(ring, p) /\ Seen(after, p) = Seen(ring, p) + 1
  BY <1>1, <1>7 DEF Acked, Seen
<1>9. Sent(after) <= Held(after)
  BY <1>1, <1>2, <1>7
<1>10. SendInv(after, p, o)
  <2>1. after.tx_sequence = Num(Seen(after, p) - o)
    <3>1. Seen(after, p) - o = Seen(ring, p) + 1 - o
      BY <1>1, <1>8
    <3> QED BY <1>4, <1>6, <3>1, Zenon
  <2>2. /\ ring.storage_count = Held(ring) /\ o <= Acked(ring, p)
        /\ ring.head_sequence = Num(p - o) /\ ring.tail_sequence = Num(Acked(ring, p) - o)
        /\ \A i \in SendSlots : SlotOffset(ring, i) < Held(ring) =>
             /\ ring.buff[i].idx = Acked(ring, p) + SlotOffset(ring, i) + 1
             /\ ring.buff[i].sequence = Num(Acked(ring, p) + SlotOffset(ring, i) - o)
    BY DEF SendInv
  <2> QED BY <1>6, <1>7, <1>8, <1>9, <2>1, <2>2 DEF SendInv
<1> QED BY <1>2, <1>6, <1>8, <1>10 DEF after

\* sendRing_read_to_tx transmits no more than one packet more.
LEMMA SendRead ==
  ASSUME NEW ring, NEW p \in Nat, NEW o \in Nat, SendInv(ring, p, o),
         NEW include_resend \in BOOLEAN
  PROVE  /\ SendInv(sendRing_read_to_tx(ring, include_resend), p, o)
         /\ Acked(sendRing_read_to_tx(ring, include_resend), p) = Acked(ring, p)
         /\ Seen(sendRing_read_to_tx(ring, include_resend), p) =
              IF ReadsNew(ring, include_resend) THEN Seen(ring, p) + 1 ELSE Seen(ring, p)
         /\ sendRing_read_to_tx(ring, include_resend).tail_sequence = ring.tail_sequence
<1>1. ring \in SkySendRing
  BY DEF SendInv
<1>2. PICK list \in Seq(Sequence) :
        sendRing_read_to_tx(ring, include_resend) =
          IF ReadsNew(ring, include_resend)
          THEN sendRing_read_new_packet_to_tx_([ring EXCEPT !.resend_list = list])
          ELSE [ring EXCEPT !.resend_list = list]
  BY <1>1, ReadChanges
<1> DEFINE mid == [ring EXCEPT !.resend_list = list]
<1>3. /\ SendInv(mid, p, o) /\ Acked(mid, p) = Acked(ring, p) /\ Seen(mid, p) = Seen(ring, p)
      /\ mid.tail_sequence = ring.tail_sequence
  BY SendResends
<1>4. ReadsNew(ring, include_resend) => sendRing_count_packets_to_send(mid, FALSE) # 0
  BY <1>1 DEF ReadsNew, sendRing_count_packets_to_send, SkySendRing
<1> HIDE DEF mid
<1>5. CASE ReadsNew(ring, include_resend)
  <2>1. sendRing_read_to_tx(ring, include_resend) = sendRing_read_new_packet_to_tx_(mid)
    BY <1>2, <1>5 DEF mid
  <2> QED BY <1>3, <1>4, <1>5, <2>1, SendReadNew
<1>6. CASE ~ReadsNew(ring, include_resend)
  <2>1. sendRing_read_to_tx(ring, include_resend) = mid
    BY <1>2, <1>6 DEF mid
  <2> QED BY <1>3, <1>6, <2>1
<1> QED BY <1>5, <1>6

\* The packet that is read was transmitted by then and is not acknowledged, and
\* carries its number.
LEMMA SendPacket ==
  ASSUME NEW ring, NEW p \in Nat, NEW o \in Nat, SendInv(ring, p, o),
         NEW include_resend \in BOOLEAN, PeekFinds(ring, include_resend)
  PROVE  LET k == NextPayload(ring, include_resend)
         IN  /\ k \in Nat /\ Acked(ring, p) < k /\ k <= p
             /\ k <= Seen(sendRing_read_to_tx(ring, include_resend), p)
             /\ PeekSequence(ring, include_resend) = Num(k - 1 - o)
<1> DEFINE slot == ReadSlot(ring, include_resend)
<1>1. /\ ring \in SkySendRing /\ Held(ring) \in Nat /\ Held(ring) < SendLen
      /\ Sent(ring) \in Nat /\ Sent(ring) <= Held(ring) /\ Acked(ring, p) \in Nat
      /\ Seen(ring, p) = Acked(ring, p) + Sent(ring) /\ Acked(ring, p) = p - Held(ring)
      /\ \A i \in SendSlots : SlotOffset(ring, i) \in 0 .. SendLen - 1
  BY SendOrder, SendFields DEF SendInv
<1>2. /\ slot \in SendSlots /\ SlotOffset(ring, slot) < Held(ring)
      /\ IF ReadsRecall(ring, include_resend) THEN SlotOffset(ring, slot) < Sent(ring)
         ELSE SlotOffset(ring, slot) = Sent(ring)
  <2>1. CASE ReadsRecall(ring, include_resend)
    <3> DEFINE s == ring.resend_list[1]
               n == SeqMinus(s, ring.tail_sequence)
    <3>1. s \in Sequence
      BY <1>1, <2>1, SendFields DEF ReadsRecall, ResendTried
    <3>2. n < Sent(ring)
      BY <2>1 DEF ReadsRecall, sendRing_can_recall, Sent, SlotOffset
    <3>3. n \in Nat
      BY <1>1, <3>1, SendFields, SeqMinusType
    <3>4. slot = ring_wrap(ring.tail + n, SendLen)
      BY <2>1 DEF ReadSlot, sendRing_get_recall_ring_index
    <3> HIDE DEF s, n
    <3>5. n \in 0 .. SendLen - 1 /\ n < Held(ring)
      BY <1>1, <3>2, <3>3, Constants
    <3>6. slot \in SendSlots /\ SlotOffset(ring, slot) = n
      <4>1. ring.tail \in 0 .. SendLen - 1 /\ SendLen \in Nat \ {0}
        BY <1>1, SendFields, Constants DEF SendSlots
      <4>2. /\ ring_wrap(ring.tail + n, SendLen) \in 0 .. SendLen - 1
            /\ ring_wrap(ring_wrap(ring.tail + n, SendLen) - ring.tail, SendLen) = n
        BY <3>5, <4>1, AtDistance
      <4> QED BY <3>4, <4>2 DEF SlotOffset, SendSlots
    <3> QED BY <2>1, <3>2, <3>5, <3>6
  <2>2. CASE ~ReadsRecall(ring, include_resend)
    <3>1. slot = ring.tx_head
      BY <2>2 DEF ReadSlot
    <3>2. sendRing_count_packets_to_send(ring, FALSE) # 0
      BY <2>2 DEF PeekFinds, ReadsNew
    <3>3. Sent(ring) < Held(ring)
      BY <3>2, SendReadNew
    <3>4. slot \in SendSlots /\ SlotOffset(ring, slot) = Sent(ring)
      BY <1>1, <3>1, SendFields DEF Sent
    <3> QED BY <2>2, <3>3, <3>4
  <2> QED BY <2>1, <2>2
<1> DEFINE j == SlotOffset(ring, slot)
<1>3. /\ NextPayload(ring, include_resend) = Acked(ring, p) + j + 1
      /\ PeekSequence(ring, include_resend) = Num(Acked(ring, p) + j - o)
  BY <1>2 DEF SendInv, NextPayload, PeekSequence
<1>4. j \in Nat /\ j < Held(ring)
  BY <1>1, <1>2
<1>5. j < Sent(ring) \/ (j = Sent(ring) /\ ReadsNew(ring, include_resend))
  BY <1>2 DEF PeekFinds
<1>6. Seen(sendRing_read_to_tx(ring, include_resend), p) =
        IF ReadsNew(ring, include_resend) THEN Seen(ring, p) + 1 ELSE Seen(ring, p)
  BY SendRead
<1> HIDE DEF slot, j
<1> DEFINE k == NextPayload(ring, include_resend)
<1>7. k \in Nat /\ k = Acked(ring, p) + j + 1 /\ k - 1 - o = Acked(ring, p) + j - o
  BY <1>1, <1>3, <1>4
<1> HIDE DEF k
<1>8. Acked(ring, p) < k /\ k <= p
  BY <1>1, <1>4, <1>7
<1>9. k <= Seen(sendRing_read_to_tx(ring, include_resend), p)
  BY <1>1, <1>4, <1>5, <1>6, <1>7
<1> QED BY <1>3, <1>7, <1>8, <1>9 DEF k

\* An acknowledgement that is taken moves the tail over transmitted packets only.
LEMMA SendCleaned ==
  ASSUME NEW ring, NEW p \in Nat, NEW o \in Nat, SendInv(ring, p, o),
         NEW s \in Sequence, SeqMinus(s, ring.tail_sequence) <= Sent(ring)
  PROVE  /\ SendInv(sendRing_clean_tail_up_to(ring, s), p, o)
         /\ Acked(sendRing_clean_tail_up_to(ring, s), p)
              = Acked(ring, p) + SeqMinus(s, ring.tail_sequence)
         /\ Seen(sendRing_clean_tail_up_to(ring, s), p) = Seen(ring, p)
         /\ sendRing_clean_tail_up_to(ring, s).tail_sequence = s
         /\ sendRing_clean_tail_up_to(ring, s).resend_list = ring.resend_list
<1> DEFINE n == SeqMinus(s, ring.tail_sequence)
           tail == ring_wrap(ring.tail + n, SendLen)
           buff == [i \in SendSlots |-> IF i \in Acknowledged(ring, s) THEN VacantItem
                                        ELSE ring.buff[i]]
           after == sendRing_clean_tail_up_to(ring, s)
<1>1. /\ ring \in SkySendRing /\ Held(ring) \in Nat /\ Held(ring) < SendLen
      /\ Sent(ring) \in Nat /\ Sent(ring) <= Held(ring) /\ Acked(ring, p) \in Nat
      /\ Seen(ring, p) = Acked(ring, p) + Sent(ring) /\ Acked(ring, p) = p - Held(ring)
      /\ o <= Acked(ring, p) /\ ring.storage_count = Held(ring)
      /\ \A i \in SendSlots : SlotOffset(ring, i) \in 0 .. SendLen - 1
  BY SendOrder, SendFields DEF SendInv
<1>2. n \in Nat /\ n <= Sent(ring) /\ SeqPlus(ring.tail_sequence, n) = s
  BY <1>1, SendFields, SeqMinusType, SeqPlusMinus
<1>3. after = [ring EXCEPT !.buff = buff, !.storage_count = ring.storage_count - n,
                 !.tail = tail, !.tail_sequence = s]
  BY <1>1 DEF sendRing_clean_tail_up_to, SkySendRing
<1>4. \A i : i \in Acknowledged(ring, s) <=> i \in SendSlots /\ SlotOffset(ring, i) < n
  BY DEF Acknowledged, SlotOffset
<1> HIDE DEF n, tail
<1>5. n \in 0 .. SendLen - 1
  BY <1>1, <1>2, Constants
<1>6. tail \in SendSlots
      /\ \A i \in SendSlots : ring_wrap(i - tail, SendLen)
           = IF SlotOffset(ring, i) >= n THEN SlotOffset(ring, i) - n
             ELSE SlotOffset(ring, i) - n + SendLen
  <2>1. tail \in SendSlots
    BY <1>1, <1>5, SendFields, AtDistance, Constants DEF tail, SendSlots
  <2>2. ASSUME NEW i \in SendSlots
        PROVE  ring_wrap(i - tail, SendLen)
                 = IF SlotOffset(ring, i) >= n THEN SlotOffset(ring, i) - n
                   ELSE SlotOffset(ring, i) - n + SendLen
    <3>1. ring.tail \in 0 .. SendLen - 1 /\ i \in 0 .. SendLen - 1 /\ SendLen \in Nat \ {0}
      BY <1>1, SendFields, Constants DEF SendSlots
    <3>2. ring_wrap(i - ring_wrap(ring.tail + n, SendLen), SendLen)
            = IF ring_wrap(i - ring.tail, SendLen) >= n
              THEN ring_wrap(i - ring.tail, SendLen) - n
              ELSE ring_wrap(i - ring.tail, SendLen) - n + SendLen
      BY <1>5, <3>1, DistanceFromAdvanced
    <3> QED BY <3>2 DEF tail, SlotOffset
  <2> QED BY <2>1, <2>2
<1>7. buff \in [SendSlots -> RingItem]
      /\ \A i \in SendSlots :
           buff[i] = IF SlotOffset(ring, i) < n THEN VacantItem ELSE ring.buff[i]
  BY <1>1, <1>4, SendFields, SendSlotFacts
<1> HIDE DEF buff, after
<1>8. /\ after.buff = buff /\ after.head = ring.head /\ after.tx_head = ring.tx_head
      /\ after.tail = tail /\ after.head_sequence = ring.head_sequence
      /\ after.tx_sequence = ring.tx_sequence /\ after.tail_sequence = s
      /\ after.storage_count = ring.storage_count - n
      /\ after.resend_list = ring.resend_list
  BY <1>1, <1>3 DEF SkySendRing
<1>9. after \in SkySendRing
  <2>1. ring.storage_count - n \in Int
    BY <1>1, <1>2
  <2> QED BY <1>1, <1>3, <1>6, <1>7, <2>1 DEF SkySendRing
<1>10. /\ \A i \in SendSlots : SlotOffset(after, i)
            = IF SlotOffset(ring, i) >= n THEN SlotOffset(ring, i) - n
              ELSE SlotOffset(ring, i) - n + SendLen
       /\ Held(after) = Held(ring) - n /\ Sent(after) = Sent(ring) - n
  <2>1. \A i \in SendSlots : SlotOffset(after, i)
            = IF SlotOffset(ring, i) >= n THEN SlotOffset(ring, i) - n
              ELSE SlotOffset(ring, i) - n + SendLen
    BY <1>6, <1>8 DEF SlotOffset
  <2>2. ring.head \in SendSlots /\ ring.tx_head \in SendSlots
        /\ Held(ring) = SlotOffset(ring, ring.head) /\ Sent(ring) = SlotOffset(ring, ring.tx_head)
        /\ Held(after) = SlotOffset(after, ring.head) /\ Sent(after) = SlotOffset(after, ring.tx_head)
    BY <1>1, <1>8, SendFields DEF Held, Sent
  <2>3. Held(ring) >= n /\ Sent(ring) >= n
    BY <1>1, <1>2
  <2> QED BY <2>1, <2>2, <2>3
<1>11. Acked(after, p) = Acked(ring, p) + n /\ Seen(after, p) = Seen(ring, p)
  BY <1>1, <1>2, <1>10 DEF Acked, Seen
<1>12. s = Num(Acked(ring, p) + n - o)
  <2>1. Acked(ring, p) - o \in Int /\ (Acked(ring, p) - o) + n = Acked(ring, p) + n - o /\ n \in Int
    BY <1>1, <1>2
  <2>2. ring.tail_sequence = Num(Acked(ring, p) - o)
    BY DEF SendInv
  <2> QED BY <1>2, <2>1, <2>2, NumPlus
<1>13. ASSUME NEW i \in SendSlots, SlotOffset(after, i) < Held(after)
       PROVE  /\ buff[i].idx = Acked(after, p) + SlotOffset(after, i) + 1
              /\ buff[i].sequence = Num(Acked(after, p) + SlotOffset(after, i) - o)
  <2> DEFINE j == SlotOffset(ring, i)
  <2>1. j \in 0 .. SendLen - 1 /\ SlotOffset(after, i) = (IF j >= n THEN j - n ELSE j - n + SendLen)
    BY <1>1, <1>10
  <2> HIDE DEF j
  <2>2. j >= n /\ j < Held(ring) /\ SlotOffset(after, i) = j - n
    BY <1>1, <1>2, <1>10, <1>13, <2>1, Constants
  <2>3. buff[i] = ring.buff[i]
    BY <1>2, <1>7, <2>1, <2>2 DEF j
  <2>4. /\ ring.buff[i].idx = Acked(ring, p) + j + 1
        /\ ring.buff[i].sequence = Num(Acked(ring, p) + j - o)
    BY <2>2 DEF SendInv, j
  <2>5. /\ Acked(after, p) + SlotOffset(after, i) + 1 = Acked(ring, p) + j + 1
        /\ Acked(after, p) + SlotOffset(after, i) - o = Acked(ring, p) + j - o
    BY <1>1, <1>2, <1>11, <2>1, <2>2
  <2> QED BY <2>3, <2>4, <2>5, Zenon
<1>14. SendInv(after, p, o)
  <2>1. Sent(after) <= Held(after) /\ after.storage_count = Held(after) /\ o <= Acked(after, p)
    BY <1>1, <1>2, <1>8, <1>10, <1>11
  <2>2. after.tx_sequence = Num(Seen(after, p) - o) /\ after.head_sequence = Num(p - o)
    BY <1>8, <1>11 DEF SendInv
  <2>3. after.tail_sequence = Num(Acked(after, p) - o)
    <3>1. Acked(after, p) - o = Acked(ring, p) + n - o
      BY <1>1, <1>2, <1>11
    <3> QED BY <1>8, <1>12, <3>1, Zenon
  <2>4. \A i \in SendSlots : SlotOffset(after, i) < Held(after) =>
          /\ after.buff[i].idx = Acked(after, p) + SlotOffset(after, i) + 1
          /\ after.buff[i].sequence = Num(Acked(after, p) + SlotOffset(after, i) - o)
    BY <1>8, <1>13
  <2> QED BY <1>9, <2>1, <2>2, <2>3, <2>4 DEF SendInv
<1> QED BY <1>8, <1>11, <1>14 DEF after, n

\* A channel without ARQ acknowledges what it has transmitted.
LEMMA SendMonotonic ==
  ASSUME NEW ring, NEW p \in Nat, NEW o \in Nat, SendInv(ring, p, o)
  PROVE  SendInv(ReadMonotonic(ring), p, o)
<1> DEFINE read == sendRing_read_to_tx(ring, FALSE)
<1>1. FALSE \in BOOLEAN
  OBVIOUS
<1>2. SendInv(read, p, o)
  BY <1>1, SendRead
<1>3. ReadMonotonic(ring) = sendRing_clean_tail_up_to(read, read.tx_sequence)
  BY DEF ReadMonotonic
<1> HIDE DEF read
<1>4. read.tx_sequence \in Sequence
  BY <1>2, SendFields DEF SendInv
<1>5. SeqMinus(read.tx_sequence, read.tail_sequence) <= Sent(read)
  <2>1. SeqMinus(read.tx_sequence, read.tail_sequence) = Sent(read) /\ Sent(read) \in Nat
    BY <1>2, SendOrder
  <2> QED BY <2>1
<1> QED BY <1>2, <1>3, <1>4, <1>5, SendCleaned

\* Scheduling retransmissions only changes the resend list.
LEMMA ScheduleChanges ==
  ASSUME NEW ring \in SkySendRing, NEW s \in Sequence, NEW mask
  PROVE  \E list \in Seq(Sequence) :
           sendRing_schedule_resends_by_mask(ring, s, mask) = [ring EXCEPT !.resend_list = list]
<1> DEFINE K == AddedOffsets(ring, s, mask)
           added == [j \in 1 .. Cardinality(K) |-> SeqPlus(s, Nth(K, j))]
           extended == ring.resend_list \o added
           list == IF Len(extended) <= ResendDepth THEN extended
                   ELSE SubSeq(extended, 1, ResendDepth)
<1>1. K \in SUBSET (0 .. MaskBits)
  BY DEF AddedOffsets
<1>2. Cardinality(K) \in Nat
  <2> HIDE DEF K
  <2> QED BY <1>1, Constants, IntervalFinite
<1>3. \A j \in 1 .. Cardinality(K) : SeqPlus(s, Nth(K, j)) \in Sequence
  <2> HIDE DEF K
  <2>1. TAKE j \in 1 .. Cardinality(K)
  <2>2. Nth(K, j) \in K
    BY <1>1, <2>1, Constants, NthExists DEF Nth
  <2>3. Nth(K, j) \in Int
    <3>1. \A x \in K : x \in Int
      BY <1>1
    <3> QED BY <2>2, <3>1, Zenon
  <2>4. s \in Int
    BY DEF Sequence
  <2> QED BY <2>3, <2>4, SeqType
<1> HIDE DEF K
<1>4. added \in Seq(Sequence)
  BY <1>2, <1>3
<1> HIDE DEF added
<1>5. extended \in Seq(Sequence)
  BY <1>4, SendFields
<1> HIDE DEF extended
<1>6. list \in Seq(Sequence)
  BY <1>5, Constants
<1>7. sendRing_schedule_resends_by_mask(ring, s, mask) = [ring EXCEPT !.resend_list = list]
  BY DEF sendRing_schedule_resends_by_mask, K, added, extended
<1> HIDE DEF list
<1> QED BY <1>6, <1>7

-----------------------------------------------------------------------------
(* The receive ring. *)

\* The fields of a receive ring, and distances in it.
LEMMA RcvFields ==
  ASSUME NEW ring \in SkyRcvRing
  PROVE  /\ ring.buff \in [RcvSlots -> RingItem]
         /\ ring.head \in RcvSlots /\ ring.tail \in RcvSlots
         /\ ring.head \in 0 .. RcvLen - 1 /\ ring.tail \in 0 .. RcvLen - 1
         /\ ring.head_sequence \in Sequence /\ ring.tail_sequence \in Sequence
         /\ ring.storage_count \in Int
         /\ \A i \in RcvSlots : Place(ring, i) \in 0 .. RcvLen - 1
         /\ Ready(ring) \in 0 .. RcvLen - 1
         /\ Ready(ring) = rcvRing_count_readable_packets(ring)
         /\ RcvLen \in Nat \ {0}
<1>1. /\ ring.buff \in [RcvSlots -> RingItem]
      /\ ring.head \in RcvSlots /\ ring.tail \in RcvSlots
      /\ ring.head_sequence \in Sequence /\ ring.tail_sequence \in Sequence
      /\ ring.storage_count \in Int
  BY DEF SkyRcvRing
<1>2. \A i \in RcvSlots : Place(ring, i) \in 0 .. RcvLen - 1
  BY <1>1, Constants, Distance DEF Place, RcvSlots
<1> QED BY <1>1, <1>2, Constants DEF Ready, RcvSlots, Place, rcvRing_count_readable_packets

\* The slot n beyond the head is n further from the tail than the head; beyond
\* the last one comes the tail.
LEMMA BeyondHead ==
  ASSUME NEW ring \in SkyRcvRing, NEW n \in Nat, Ready(ring) + n <= RcvLen
  PROVE  /\ ring_wrap(ring.head + n, RcvLen) \in RcvSlots
         /\ Ready(ring) + n < RcvLen
              => Place(ring, ring_wrap(ring.head + n, RcvLen)) = Ready(ring) + n
         /\ n > 0 => (ring_wrap(ring.head + n, RcvLen) = ring.tail <=> Ready(ring) + n = RcvLen)
<1> DEFINE h == ring.head
           t == ring.tail
           d == ring_wrap(h - t, RcvLen)
           a == ring_wrap(h + n, RcvLen)
<1>0. h \in 0 .. RcvLen - 1 /\ t \in 0 .. RcvLen - 1 /\ RcvLen \in Nat \ {0}
  BY RcvFields
<1>1. d = (IF h >= t THEN h - t ELSE h - t + RcvLen) /\ d \in 0 .. RcvLen - 1
  BY <1>0, Distance
<1>2. Ready(ring) = d /\ d + n <= RcvLen
  BY DEF Ready, Place
<1> HIDE DEF d
<1>3. n \in 0 .. RcvLen
  BY <1>0, <1>1, <1>2
<1>4. a = (IF h + n < RcvLen THEN h + n ELSE h + n - RcvLen) /\ a \in 0 .. RcvLen - 1
  BY <1>0, <1>3, Advance
<1> HIDE DEF a
<1>5. ring_wrap(a - t, RcvLen) = (IF a >= t THEN a - t ELSE a - t + RcvLen)
  BY <1>0, <1>4, Distance
<1> HIDE DEF h, t
<1>6. d + n < RcvLen => ring_wrap(a - t, RcvLen) = d + n
  BY <1>0, <1>1, <1>2, <1>3, <1>4, <1>5
<1>7. n > 0 => (a = t <=> d + n = RcvLen)
  BY <1>0, <1>1, <1>2, <1>3, <1>4
<1> QED BY <1>2, <1>4, <1>6, <1>7 DEF a, h, t, Place, RcvSlots

\* The loop of rcvRing_advance_head ends, whatever is in the ring.
LEMMA StepsFound ==
  ASSUME NEW ring \in SkyRcvRing
  PROVE  /\ AdvanceSteps(ring) \in 0 .. RcvLen /\ AdvanceEnds(ring, AdvanceSteps(ring))
         /\ \A m \in 0 .. AdvanceSteps(ring) - 1 : ~AdvanceEnds(ring, m)
<1> DEFINE x == ring.tail - (ring.head + HorizonWidth + 1)
           last == x % RcvLen
           S == {n \in 0 .. RcvLen : AdvanceEnds(ring, n)}
<1>0. /\ RcvLen \in Nat \ {0} /\ HorizonWidth \in Nat
      /\ ring.head \in 0 .. RcvLen - 1 /\ ring.tail \in 0 .. RcvLen - 1
  BY RcvFields, Constants
<1>1. x \in Int /\ x + (ring.head + HorizonWidth + 1) = ring.tail
      /\ ring.head + HorizonWidth + 1 \in Int
  BY <1>0
<1>2. last \in 0 .. RcvLen /\ AdvanceEnds(ring, last)
  <2> HIDE DEF x
  <2>1. last \in 0 .. RcvLen - 1
    BY <1>0, <1>1
  <2>2. (last + (ring.head + HorizonWidth + 1)) % RcvLen = ring.tail % RcvLen
    BY <1>0, <1>1, ModPlus
  <2>3. ring.tail % RcvLen = ring.tail
    BY <1>0
  <2> HIDE DEF last
  <2>4. ring.head + last + HorizonWidth + 1 = last + (ring.head + HorizonWidth + 1)
    BY <1>0, <2>1
  <2>5. ring_wrap(ring.head + last + HorizonWidth + 1, RcvLen) = ring.tail
    BY <2>2, <2>3, <2>4 DEF ring_wrap
  <2> QED BY <1>0, <2>1, <2>5 DEF AdvanceEnds
<1> HIDE DEF last
<1>3. PICK n \in S : \A k \in S : n <= k
  <2>1. S \subseteq Nat /\ S # {}
    BY <1>0, <1>2
  <2> HIDE DEF S
  <2> QED BY <2>1, Least
<1>4. n \in 0 .. RcvLen /\ AdvanceEnds(ring, n) /\ \A m \in 0 .. n - 1 : ~AdvanceEnds(ring, m)
  <2>1. ASSUME NEW m \in 0 .. n - 1 PROVE ~AdvanceEnds(ring, m)
    <3>1. m \in 0 .. RcvLen /\ ~(n <= m)
      BY <1>0
    <3> QED BY <1>3, <3>1
  <2> QED BY <2>1
<1> QED BY <1>4 DEF AdvanceSteps

\* Advancing the head leaves a ring a ring.
LEMMA AdvanceType ==
  ASSUME NEW ring \in SkyRcvRing
  PROVE  /\ rcvRing_advance_head(ring) \in SkyRcvRing
         /\ rcvRing_advance_head(ring).buff = ring.buff
         /\ rcvRing_advance_head(ring).tail = ring.tail
         /\ rcvRing_advance_head(ring).head = ring_wrap(ring.head + AdvanceSteps(ring), RcvLen)
         /\ rcvRing_advance_head(ring).head_sequence
              = SeqPlus(ring.head_sequence, AdvanceSteps(ring))
<1> DEFINE n == AdvanceSteps(ring)
           head == ring_wrap(ring.head + n, RcvLen)
           head_sequence == SeqPlus(ring.head_sequence, n)
<1>1. n \in 0 .. RcvLen
  BY StepsFound
<1> HIDE DEF n
<1>2. head \in RcvSlots
  BY <1>1, RcvFields, Advance DEF RcvSlots
<1>3. head_sequence \in Sequence
  <2>1. ring.head_sequence \in Int /\ n \in Int
    BY <1>1, RcvFields DEF Sequence
  <2> QED BY <2>1, SeqType
<1> HIDE DEF head, head_sequence
<1>4. rcvRing_advance_head(ring) = [ring EXCEPT !.head = head, !.head_sequence = head_sequence]
  BY DEF rcvRing_advance_head, SkyRcvRing, head, head_sequence, n
<1>5. [ring EXCEPT !.head = head, !.head_sequence = head_sequence] \in SkyRcvRing
  BY <1>2, <1>3 DEF SkyRcvRing
<1> QED BY <1>4, <1>5 DEF head, head_sequence, n, SkyRcvRing

\* Moving the head to the first gap keeps a receive ring in order.
LEMMA RcvAdvanced ==
  ASSUME NEW ring, NEW base \in Nat, NEW o \in Nat, RcvInv(ring, base, o)
  PROVE  /\ RcvInv(rcvRing_advance_head(ring), base, o)
         /\ Got(rcvRing_advance_head(ring), base) >= Got(ring, base)
         /\ RcvRingHeld(rcvRing_advance_head(ring)) = RcvRingHeld(ring)
<1> DEFINE n == AdvanceSteps(ring)
           moved == rcvRing_advance_head(ring)
           r == Ready(ring)
<1>1. /\ ring \in SkyRcvRing /\ r \in 0 .. RcvLen - 1 /\ RcvLen \in Nat /\ HorizonWidth \in Nat
      /\ r + HorizonWidth + 1 <= RcvLen /\ ring.head \in 0 .. RcvLen - 1
      /\ ring.head_sequence = Num(Got(ring, base) - o) /\ Got(ring, base) = base + r
  BY RcvFields, Constants DEF RcvInv, Got
<1>2. /\ n \in 0 .. RcvLen /\ AdvanceEnds(ring, n)
      /\ \A m \in 0 .. n - 1 : ~AdvanceEnds(ring, m)
  BY <1>1, StepsFound
<1>3. /\ moved \in SkyRcvRing /\ moved.buff = ring.buff /\ moved.tail = ring.tail
      /\ moved.head = ring_wrap(ring.head + n, RcvLen)
      /\ moved.head_sequence = SeqPlus(ring.head_sequence, n)
  BY <1>1, AdvanceType
<1> HIDE DEF n, moved, r
<1>4. r + n + HorizonWidth + 1 <= RcvLen
  <2> DEFINE last == RcvLen - (r + HorizonWidth + 1)
  <2>1. last \in 0 .. RcvLen /\ last + HorizonWidth + 1 \in Nat /\ last + HorizonWidth + 1 > 0
        /\ r + (last + HorizonWidth + 1) = RcvLen
        /\ ring.head + last + HorizonWidth + 1 = ring.head + (last + HorizonWidth + 1)
    BY <1>1
  <2> HIDE DEF last
  <2>2. ring_wrap(ring.head + (last + HorizonWidth + 1), RcvLen) = ring.tail
    BY <1>1, <2>1, BeyondHead DEF r
  <2>3. AdvanceEnds(ring, last)
    BY <2>1, <2>2 DEF AdvanceEnds
  <2>4. ~(last \in 0 .. n - 1)
    BY <1>2, <2>3
  <2>5. n <= last
    BY <1>2, <2>1, <2>4
  <2> QED BY <1>1, <1>2, <2>1, <2>5
<1>5. r + n < RcvLen /\ r + n <= RcvLen /\ n \in Nat
  BY <1>1, <1>2, <1>4
<1>6. Ready(moved) = r + n
  <2>1. Place(ring, moved.head) = r + n
    BY <1>1, <1>3, <1>5, BeyondHead DEF r
  <2> QED BY <1>3, <2>1 DEF Ready, Place
<1>7. Got(moved, base) = Got(ring, base) + n
  BY <1>1, <1>5, <1>6 DEF Got
<1>8. moved.head_sequence = Num(Got(moved, base) - o)
  <2>1. Got(ring, base) - o \in Int /\ (Got(ring, base) - o) + n = Got(moved, base) - o
    BY <1>1, <1>5, <1>7
  <2> QED BY <1>1, <1>3, <1>5, <2>1, NumPlus
<1>9. ASSUME NEW i \in RcvSlots, Place(ring, i) < r + n
      PROVE  ring.buff[i].idx # EB_NULL_IDX
  <2> DEFINE d == Place(ring, i)
  <2>1. d \in 0 .. RcvLen - 1
    BY <1>1, RcvFields
  <2>2. CASE d < r
    BY <2>2 DEF RcvInv, r
  <2>3. CASE d >= r
    <3> DEFINE m == d - r
    <3>1. m \in 0 .. n - 1 /\ m \in Nat /\ r + m <= RcvLen /\ r + m < RcvLen /\ r + m = d
      BY <1>1, <1>9, <1>5, <2>1, <2>3
    <3> HIDE DEF m
    <3>2. ring_wrap(ring.head + m, RcvLen) \in RcvSlots
          /\ Place(ring, ring_wrap(ring.head + m, RcvLen)) = d
      BY <1>1, <3>1, BeyondHead DEF r
    <3>3. ring_wrap(ring.head + m, RcvLen) = i
      BY <1>1, <3>2, SameDistance, RcvFields DEF Place, RcvSlots
    <3> QED BY <1>2, <3>1, <3>3 DEF AdvanceEnds
  <2> QED BY <1>1, <2>1, <2>2, <2>3
<1>10. RcvInv(moved, base, o)
  <2>1. \A i \in RcvSlots : ring.buff[i].idx # EB_NULL_IDX
                              => ring.buff[i].idx = base + Place(ring, i) + 1
    BY DEF RcvInv
  <2>2. \A i : Place(moved, i) = Place(ring, i)
    BY <1>3 DEF Place
  <2>3. o <= base
    BY DEF RcvInv
  <2> QED BY <1>3, <1>4, <1>6, <1>8, <1>9, <2>1, <2>2, <2>3 DEF RcvInv
<1>11. RcvRingHeld(moved) = RcvRingHeld(ring)
  BY <1>3 DEF RcvRingHeld
<1>12. Got(moved, base) >= Got(ring, base)
  BY <1>1, <1>5, <1>7
<1> QED BY <1>10, <1>11, <1>12 DEF moved

\* A ring that was just wiped holds nothing.
LEMMA RcvWiped ==
  ASSUME NEW o \in Nat
  PROVE  /\ RcvInv(sky_rcv_ring_wipe(0), o, o)
         /\ Ready(sky_rcv_ring_wipe(0)) = 0
         /\ Got(sky_rcv_ring_wipe(0), o) = o
         /\ RcvRingHeld(sky_rcv_ring_wipe(0)) = {}
<1> DEFINE ring == sky_rcv_ring_wipe(0)
<1>1. /\ ring \in SkyRcvRing /\ ring.head = 0 /\ ring.tail = 0 /\ ring.head_sequence = 0
      /\ ring.buff = [i \in RcvSlots |-> VacantItem]
      /\ \A i \in RcvSlots : ring.buff[i].idx = EB_NULL_IDX
  <2>1. 0 \in RcvSlots /\ 0 \in Sequence /\ VacantItem \in RingItem
    BY Constants, SendSlotFacts, SeqType DEF RcvSlots
  <2> QED BY <2>1 DEF sky_rcv_ring_wipe, SkyRcvRing, VacantItem
<1> HIDE DEF ring
<1>2. Ready(ring) = 0
  <2>1. 0 \in 0 .. RcvLen - 1 /\ RcvLen \in Nat \ {0}
    BY Constants
  <2>2. ring_wrap(0 - 0, RcvLen) = 0
    BY <2>1, NoDistance
  <2> QED BY <1>1, <2>2 DEF Ready, Place
<1>3. Got(ring, o) = o
  BY <1>2 DEF Got
<1>4. Num(o - o) = 0
  BY Constants DEF Num
<1>5. \A i \in RcvSlots : Place(ring, i) \in 0 .. RcvLen - 1
  BY <1>1, RcvFields
<1>6. RcvInv(ring, o, o)
  <2>1. Ready(ring) + HorizonWidth + 1 <= RcvLen
    BY <1>2, Constants
  <2> QED BY <1>1, <1>2, <1>3, <1>4, <1>5, <2>1 DEF RcvInv
<1>7. RcvRingHeld(ring) = {}
  BY <1>1 DEF RcvRingHeld
<1> QED BY <1>2, <1>3, <1>6, <1>7 DEF ring

\* The newest packet delivered can be read, or has been.
LEMMA NewestHeld ==
  ASSUME NEW ring, NEW base \in Nat, NEW o \in Nat, RcvInv(ring, base, o)
  PROVE  /\ Got(ring, base) \in Nat /\ base <= Got(ring, base) /\ o <= base
         /\ Ready(ring) = 0 => Got(ring, base) = base
         /\ Ready(ring) # 0 =>
              /\ ring.buff[ring_wrap(ring.head - 1, RcvLen)].idx = Got(ring, base)
              /\ Got(ring, base) \in RcvRingHeld(ring)
         /\ \A x \in RcvRingHeld(ring) : x \in Nat /\ base < x
<1>1. /\ ring \in SkyRcvRing /\ Ready(ring) \in 0 .. RcvLen - 1 /\ RcvLen \in Nat \ {0}
      /\ ring.head \in 0 .. RcvLen - 1 /\ ring.tail \in 0 .. RcvLen - 1
      /\ \A i \in RcvSlots : Place(ring, i) \in 0 .. RcvLen - 1
  BY RcvFields DEF RcvInv
<1>2. Got(ring, base) \in Nat /\ base <= Got(ring, base) /\ (Ready(ring) = 0 => Got(ring, base) = base)
  BY <1>1 DEF Got
<1>3. ASSUME NEW x \in RcvRingHeld(ring) PROVE x \in Nat /\ base < x
  <2>1. PICK i \in RcvSlots : x = ring.buff[i].idx /\ x # EB_NULL_IDX
    BY DEF RcvRingHeld
  <2>2. x = base + Place(ring, i) + 1 /\ Place(ring, i) \in 0 .. RcvLen - 1
    BY <1>1, <2>1 DEF RcvInv
  <2> QED BY <1>1, <2>2
<1>4. ASSUME Ready(ring) # 0
      PROVE  /\ ring.buff[ring_wrap(ring.head - 1, RcvLen)].idx = Got(ring, base)
             /\ Got(ring, base) \in RcvRingHeld(ring)
  <2> DEFINE h == ring.head
             t == ring.tail
             d == ring_wrap(h - t, RcvLen)
             a == ring_wrap(h - 1, RcvLen)
  <2>1. d = (IF h >= t THEN h - t ELSE h - t + RcvLen) /\ d \in 1 .. RcvLen - 1 /\ d = Ready(ring)
    BY <1>1, <1>4, Distance DEF Ready, Place
  <2> HIDE DEF d
  <2>2. 1 \in 0 .. RcvLen - 1
    BY <1>1, <2>1
  <2>3. a = (IF h >= 1 THEN h - 1 ELSE h - 1 + RcvLen) /\ a \in 0 .. RcvLen - 1
    BY <1>1, <2>2, Distance
  <2> HIDE DEF a
  <2>4. ring_wrap(a - t, RcvLen) = (IF a >= t THEN a - t ELSE a - t + RcvLen)
    BY <1>1, <2>3, Distance
  <2> HIDE DEF h, t
  <2>5. h \in 0 .. RcvLen - 1 /\ t \in 0 .. RcvLen - 1
    BY <1>1 DEF h, t
  <2>6. ring_wrap(a - t, RcvLen) = d - 1
    BY <1>1, <2>1, <2>3, <2>4, <2>5
  <2>7. a \in RcvSlots /\ Place(ring, a) = Ready(ring) - 1 /\ Place(ring, a) < Ready(ring)
    BY <1>1, <2>1, <2>3, <2>6 DEF Place, RcvSlots, t
  <2>8. ring.buff[a].idx # EB_NULL_IDX /\ ring.buff[a].idx = base + Place(ring, a) + 1
    BY <2>7 DEF RcvInv
  <2>9. ring.buff[a].idx = Got(ring, base)
    BY <1>1, <2>7, <2>8 DEF Got
  <2> QED BY <2>7, <2>8, <2>9 DEF RcvRingHeld, a, h
<1> QED BY <1>2, <1>3, <1>4 DEF RcvInv

\* A packet that is accepted by its number goes to its place.
LEMMA RcvPushed ==
  ASSUME NEW ring, NEW base \in Nat, NEW o \in Nat, RcvInv(ring, base, o),
         NEW k \in Idx, k \in Nat, NEW s \in Sequence, Accepts(ring, s),
         k = Got(ring, base) + AheadOfHead(ring, s) + 1
  PROVE  /\ RcvInv(rcvRing_push_rx_packet(ring, k, s), base, o)
         /\ Got(rcvRing_push_rx_packet(ring, k, s), base) >= Got(ring, base)
         /\ RcvRingHeld(rcvRing_push_rx_packet(ring, k, s)) \subseteq RcvRingHeld(ring) \cup {k}
<1> DEFINE a == AheadOfHead(ring, s)
           slot == SlotFor(ring, s)
           item == [idx |-> k, sequence |-> s]
           buff == [ring.buff EXCEPT ![slot] = item]
           filled == [ring EXCEPT !.buff = buff, !.storage_count = ring.storage_count + 1]
<1>1. /\ ring \in SkyRcvRing /\ Ready(ring) \in 0 .. RcvLen - 1 /\ RcvLen \in Nat \ {0}
      /\ Ready(ring) + HorizonWidth + 1 <= RcvLen /\ HorizonWidth \in Nat
      /\ ring.head_sequence \in Sequence
      /\ ring.buff \in [RcvSlots -> RingItem] /\ ring.storage_count \in Int
  BY RcvFields, Constants DEF RcvInv
<1>2. a \in Nat /\ a <= HorizonWidth /\ slot = ring_wrap(ring.head + a, RcvLen)
  BY <1>1, SeqMinusType DEF Accepts, AheadOfHead, SlotFor
<1>3. rcvRing_push_rx_packet(ring, k, s) = rcvRing_advance_head(filled)
  BY <1>1 DEF rcvRing_push_rx_packet, SkyRcvRing
<1>4. k = base + (Ready(ring) + a) + 1
  BY <1>1, <1>2 DEF Got
<1> HIDE DEF a, slot
<1>5. Ready(ring) + a < RcvLen /\ Ready(ring) + a <= RcvLen
  BY <1>1, <1>2
<1>6. slot \in RcvSlots /\ Place(ring, slot) = Ready(ring) + a
  BY <1>1, <1>2, <1>5, BeyondHead
<1>7. item \in RingItem
  BY DEF RingItem
<1> HIDE DEF item
<1>8. /\ buff \in [RcvSlots -> RingItem]
      /\ \A i \in RcvSlots : buff[i] = IF i = slot THEN item ELSE ring.buff[i]
  BY <1>1, <1>6, <1>7
<1> HIDE DEF buff
<1>9. /\ filled \in SkyRcvRing /\ filled.buff = buff
      /\ filled.head = ring.head /\ filled.tail = ring.tail
      /\ filled.head_sequence = ring.head_sequence
  <2>1. ring.storage_count + 1 \in Int
    BY <1>1
  <2> QED BY <1>1, <1>8, <2>1 DEF SkyRcvRing
<1> HIDE DEF filled
<1>10. /\ Ready(filled) = Ready(ring) /\ \A i : Place(filled, i) = Place(ring, i)
       /\ Got(filled, base) = Got(ring, base)
  BY <1>9 DEF Ready, Place, Got
<1>11. RcvInv(filled, base, o)
  <2>1. ASSUME NEW i \in RcvSlots
        PROVE  /\ Place(ring, i) < Ready(ring) => buff[i].idx # EB_NULL_IDX
               /\ buff[i].idx # EB_NULL_IDX => buff[i].idx = base + Place(ring, i) + 1
    <3>1. CASE i = slot
      BY <1>4, <1>6, <1>8, <3>1, Constants DEF item
    <3>2. CASE i # slot
      BY <1>8, <3>2 DEF RcvInv
    <3> QED BY <3>1, <3>2
  <2>2. o <= base /\ ring.head_sequence = Num(Got(ring, base) - o)
    BY DEF RcvInv
  <2> QED BY <1>1, <1>9, <1>10, <2>1, <2>2 DEF RcvInv
<1>12. RcvRingHeld(filled) \subseteq RcvRingHeld(ring) \cup {k}
  <2>1. ASSUME NEW x \in RcvRingHeld(filled) PROVE x \in RcvRingHeld(ring) \cup {k}
    <3>1. PICK i \in RcvSlots : x = buff[i].idx /\ x # EB_NULL_IDX
      BY <1>9 DEF RcvRingHeld
    <3>2. CASE i = slot
      BY <1>8, <3>1, <3>2 DEF item
    <3>3. CASE i # slot
      BY <1>8, <3>1, <3>3 DEF RcvRingHeld
    <3> QED BY <3>2, <3>3
  <2> QED BY <2>1
<1>13. /\ RcvInv(rcvRing_advance_head(filled), base, o)
       /\ Got(rcvRing_advance_head(filled), base) >= Got(filled, base)
       /\ RcvRingHeld(rcvRing_advance_head(filled)) = RcvRingHeld(filled)
  BY <1>11, RcvAdvanced
<1>14. rcvRing_push_rx_packet(ring, k, s) = rcvRing_advance_head(filled)
  BY <1>3 DEF filled
<1> QED BY <1>10, <1>12, <1>13, <1>14

\* Reading takes the packet after the one read last.
LEMMA RcvRead ==
  ASSUME NEW ring, NEW base \in Nat, NEW o \in Nat, RcvInv(ring, base, o), Ready(ring) # 0
  PROVE  /\ ring.buff[ring.tail].idx = base + 1
         /\ RcvInv(rcvRing_read_next_received(ring), base + 1, o)
         /\ Got(rcvRing_read_next_received(ring), base + 1) >= Got(ring, base)
         /\ RcvRingHeld(rcvRing_read_next_received(ring)) \subseteq RcvRingHeld(ring)
<1> DEFINE tail == ring_wrap(ring.tail + 1, RcvLen)
           tail_sequence == SeqPlus(ring.tail_sequence, 1)
           buff == [ring.buff EXCEPT ![ring.tail] = VacantItem]
           count == ring.storage_count - 1
           emptied == [ring EXCEPT !.buff = buff, !.storage_count = count, !.tail = tail,
                                   !.tail_sequence = tail_sequence]
<1>1. /\ ring \in SkyRcvRing /\ Ready(ring) \in 1 .. RcvLen - 1 /\ RcvLen \in Nat \ {0}
      /\ Ready(ring) + HorizonWidth + 1 <= RcvLen /\ HorizonWidth \in Nat
      /\ ring.head \in 0 .. RcvLen - 1 /\ ring.tail \in 0 .. RcvLen - 1
      /\ ring.head \in RcvSlots /\ ring.tail \in RcvSlots
      /\ ring.buff \in [RcvSlots -> RingItem] /\ count \in Int
      /\ ring.tail_sequence \in Sequence
      /\ ring.head_sequence = Num(Got(ring, base) - o)
  BY RcvFields, Constants DEF RcvInv
<1>2. rcvRing_read_next_received(ring) = rcvRing_advance_head(emptied)
  BY <1>1 DEF rcvRing_read_next_received, SkyRcvRing
<1>3. Place(ring, ring.tail) = 0
  BY <1>1, NoDistance DEF Place
<1>4. ring.buff[ring.tail].idx = base + 1
  BY <1>1, <1>3 DEF RcvInv
<1>5. tail \in RcvSlots /\ tail_sequence \in Sequence
  BY <1>1, NextSlot, SeqNext DEF RcvSlots
<1>6. ASSUME NEW i \in RcvSlots
      PROVE  ring_wrap(i - tail, RcvLen)
               = IF i = ring.tail THEN RcvLen - 1 ELSE Place(ring, i) - 1
  <2>1. i \in 0 .. RcvLen - 1 /\ 1 \in 0 .. RcvLen - 1
    BY <1>1 DEF RcvSlots
  <2>2. Place(ring, i) \in 0 .. RcvLen - 1
    BY <1>1, RcvFields
  <2>3. ring_wrap(i - tail, RcvLen)
          = IF Place(ring, i) >= 1 THEN Place(ring, i) - 1 ELSE Place(ring, i) - 1 + RcvLen
    BY <1>1, <2>1, DistanceFromAdvanced DEF Place
  <2>4. Place(ring, i) = 0 <=> i = ring.tail
    BY <1>1, <2>1, NoDistance DEF Place
  <2> HIDE DEF tail
  <2> QED BY <1>1, <2>1, <2>2, <2>3, <2>4
<1>7. /\ buff \in [RcvSlots -> RingItem]
      /\ \A i \in RcvSlots : buff[i] = IF i = ring.tail THEN VacantItem ELSE ring.buff[i]
  BY <1>1, SendSlotFacts
<1> HIDE DEF tail, tail_sequence, buff, count
<1>8. /\ emptied \in SkyRcvRing /\ emptied.buff = buff
      /\ emptied.head = ring.head /\ emptied.tail = tail
      /\ emptied.head_sequence = ring.head_sequence
  BY <1>1, <1>5, <1>7 DEF SkyRcvRing
<1> HIDE DEF emptied
<1>9. /\ \A i \in RcvSlots :
           Place(emptied, i) = IF i = ring.tail THEN RcvLen - 1 ELSE Place(ring, i) - 1
      /\ Ready(emptied) = Ready(ring) - 1
  <2>1. ring.head # ring.tail
    BY <1>1, <1>3 DEF Ready
  <2> QED BY <1>1, <1>6, <1>8, <2>1 DEF Place, Ready
<1>10. Got(emptied, base + 1) = Got(ring, base)
  BY <1>1, <1>9 DEF Got
<1>11. RcvInv(emptied, base + 1, o)
  <2>1. Ready(emptied) + HorizonWidth + 1 <= RcvLen
    BY <1>1, <1>9
  <2>2. ASSUME NEW i \in RcvSlots
        PROVE  /\ Place(emptied, i) < Ready(emptied) => buff[i].idx # EB_NULL_IDX
               /\ buff[i].idx # EB_NULL_IDX => buff[i].idx = base + 1 + Place(emptied, i) + 1
    <3>1. CASE i = ring.tail
      <4>1. buff[i].idx = EB_NULL_IDX
        BY <1>7, <3>1 DEF VacantItem
      <4>2. ~(Place(emptied, i) < Ready(emptied))
        BY <1>1, <1>9, <3>1
      <4> QED BY <4>1, <4>2
    <3>2. CASE i # ring.tail
      <4>1. /\ Place(ring, i) \in Int /\ Place(emptied, i) = Place(ring, i) - 1
            /\ buff[i] = ring.buff[i]
        BY <1>1, <1>7, <1>9, <3>2, RcvFields
      <4>2. /\ Place(emptied, i) < Ready(emptied) => Place(ring, i) < Ready(ring)
            /\ base + 1 + Place(emptied, i) + 1 = base + Place(ring, i) + 1
        BY <1>1, <1>9, <4>1
      <4> QED BY <4>1, <4>2 DEF RcvInv
    <3> QED BY <3>1, <3>2
  <2>3. o <= base + 1
    BY DEF RcvInv
  <2> QED BY <1>1, <1>8, <1>10, <2>1, <2>2, <2>3 DEF RcvInv
<1>12. RcvRingHeld(emptied) \subseteq RcvRingHeld(ring)
  <2>1. ASSUME NEW x \in RcvRingHeld(emptied) PROVE x \in RcvRingHeld(ring)
    <3>1. PICK i \in RcvSlots : x = buff[i].idx /\ x # EB_NULL_IDX
      BY <1>8 DEF RcvRingHeld
    <3>2. i # ring.tail
      BY <1>7, <3>1 DEF VacantItem
    <3> QED BY <1>7, <3>1, <3>2 DEF RcvRingHeld
  <2> QED BY <2>1
<1>13. base + 1 \in Nat
  OBVIOUS
<1>14. /\ RcvInv(rcvRing_advance_head(emptied), base + 1, o)
       /\ Got(rcvRing_advance_head(emptied), base + 1) >= Got(emptied, base + 1)
       /\ RcvRingHeld(rcvRing_advance_head(emptied)) = RcvRingHeld(emptied)
  BY <1>11, <1>13, RcvAdvanced
<1>15. rcvRing_read_next_received(ring) = rcvRing_advance_head(emptied)
  BY <1>2 DEF emptied
<1> QED BY <1>4, <1>10, <1>12, <1>14, <1>15

-----------------------------------------------------------------------------
(* The channel. *)

\* A frame with a handshake, with the handshake of a session, and with no packet
\* and no acknowledgement.
Shakes(f) == f.arq_handshake # <<>>
Names(f, x) == Shakes(f) /\ f.arq_handshake[1].identifier = x
Bare(f) == f.payload = <<>> /\ f.arq_ctrl = <<>> /\ f.arq_request = <<>>

\* A frame with a packet and its number.
Numbered(f) == f.payload # <<>> /\ f.arq_sequence # <<>>

\* The fields of a channel.
LEMMA ChannelFields ==
  ASSUME NEW v \in SkyVirtualChannel
  PROVE  /\ v.sendRing \in SkySendRing /\ v.rcvRing \in SkyRcvRing
         /\ v.arq_state_flag \in ArqStates
         /\ v.arq_session_identifier \in Identifiers \cup {0}
         /\ v.handshake_send \in 0 .. 1
         /\ v.need_recall \in BOOLEAN /\ v.unconfirmed_payloads \in BOOLEAN
BY DEF SkyVirtualChannel

\* The fields of a frame, and what is in an extension that is there.
LEMMA FrameFields ==
  ASSUME NEW f \in Frame
  PROVE  /\ Shakes(f) => f.arq_handshake[1].identifier \in Identifiers
         /\ f.arq_request # <<>> => f.arq_request[1].sequence \in Sequence
         /\ f.arq_ctrl # <<>> => f.arq_ctrl[1].rx_sequence \in Sequence
                                 /\ f.arq_ctrl[1].tx_sequence \in Sequence
         /\ f.arq_sequence # <<>> => f.arq_sequence[1] \in Sequence
         /\ f.payload # <<>> => f.payload[1] \in Idx
<1>1. /\ f.arq_handshake \in Seq([peer_state : ArqStates, identifier : Identifiers])
      /\ f.arq_request \in Seq([sequence : Sequence, mask : SUBSET (0 .. MaskBits - 1)])
      /\ f.arq_ctrl \in Seq([tx_sequence : Sequence, rx_sequence : Sequence])
      /\ f.arq_sequence \in Seq(Sequence)
      /\ f.payload \in Seq(Idx)
  BY DEF Frame
<1>2. \A S : \A q \in Seq(S) : q # <<>> => q[1] \in S
  OBVIOUS
<1>3. Shakes(f) => f.arq_handshake[1] \in [peer_state : ArqStates, identifier : Identifiers]
  BY <1>1, <1>2, Zenon DEF Shakes
<1>4. f.arq_request # <<>> =>
        f.arq_request[1] \in [sequence : Sequence, mask : SUBSET (0 .. MaskBits - 1)]
  BY <1>1, <1>2, Zenon
<1>5. f.arq_ctrl # <<>> => f.arq_ctrl[1] \in [tx_sequence : Sequence, rx_sequence : Sequence]
  BY <1>1, <1>2, Zenon
<1>6. /\ f.arq_sequence # <<>> => f.arq_sequence[1] \in Sequence
      /\ f.payload # <<>> => f.payload[1] \in Idx
  BY <1>1, <1>2, Zenon
<1> QED BY <1>3, <1>4, <1>5, <1>6

\* A channel that starts over.
LEMMA WipedChannel ==
  ASSUME NEW state \in ArqStates, NEW identifier \in Identifiers \cup {0}, NEW send \in 0 .. 1
  PROVE  /\ Wiped(state, identifier, send) \in SkyVirtualChannel
         /\ Wiped(state, identifier, send).sendRing = sky_send_ring_wipe(0)
         /\ Wiped(state, identifier, send).rcvRing = sky_rcv_ring_wipe(0)
         /\ Wiped(state, identifier, send).arq_state_flag = state
         /\ Wiped(state, identifier, send).arq_session_identifier = identifier
         /\ Wiped(state, identifier, send).handshake_send = send
<1>1. sky_send_ring_wipe(0) \in SkySendRing
  <2>1. 0 \in Nat
    OBVIOUS
  <2> QED BY <2>1, SendWiped DEF SendInv
<1>2. sky_rcv_ring_wipe(0) \in SkyRcvRing
  <2>1. 0 \in Nat
    OBVIOUS
  <2> QED BY <2>1, RcvWiped DEF RcvInv
<1> QED BY <1>1, <1>2 DEF Wiped, SkyVirtualChannel

\* A packet put into a receive ring leaves it a receive ring.
LEMMA PushType ==
  ASSUME NEW ring \in SkyRcvRing, NEW k \in Idx, NEW s \in Sequence
  PROVE  rcvRing_push_rx_packet(ring, k, s) \in SkyRcvRing
<1> DEFINE slot == SlotFor(ring, s)
           item == [idx |-> k, sequence |-> s]
           filled == [ring EXCEPT !.buff = [ring.buff EXCEPT ![slot] = item],
                                  !.storage_count = ring.storage_count + 1]
<1>1. /\ ring.buff \in [RcvSlots -> RingItem] /\ ring.storage_count + 1 \in Int
      /\ item \in RingItem
  BY RcvFields DEF RingItem
<1>2. filled \in SkyRcvRing
  <2> HIDE DEF slot, item
  <2>1. [ring.buff EXCEPT ![slot] = item] \in [RcvSlots -> RingItem]
    BY <1>1
  <2> QED BY <1>1, <2>1 DEF SkyRcvRing
<1>3. rcvRing_push_rx_packet(ring, k, s) = rcvRing_advance_head(filled)
  BY DEF rcvRing_push_rx_packet, SkyRcvRing
<1> HIDE DEF filled
<1> QED BY <1>2, <1>3, AdvanceType

\* A packet that is read leaves the ring a receive ring.
LEMMA ReadType ==
  ASSUME NEW ring \in SkyRcvRing
  PROVE  rcvRing_read_next_received(ring) \in SkyRcvRing
<1> DEFINE tail == ring_wrap(ring.tail + 1, RcvLen)
           tail_sequence == SeqPlus(ring.tail_sequence, 1)
           buff == [ring.buff EXCEPT ![ring.tail] = VacantItem]
           emptied == [ring EXCEPT !.buff = buff, !.storage_count = ring.storage_count - 1,
                                   !.tail = tail, !.tail_sequence = tail_sequence]
<1>1. tail \in RcvSlots /\ tail_sequence \in Sequence
  BY RcvFields, NextSlot, SeqNext DEF RcvSlots
<1>2. buff \in [RcvSlots -> RingItem] /\ ring.storage_count - 1 \in Int
  BY RcvFields, SendSlotFacts
<1> HIDE DEF tail, tail_sequence, buff
<1>3. emptied \in SkyRcvRing
  BY <1>1, <1>2 DEF SkyRcvRing
<1>4. rcvRing_read_next_received(ring) = rcvRing_advance_head(emptied)
  BY DEF rcvRing_read_next_received, SkyRcvRing, tail, tail_sequence, buff
<1> HIDE DEF emptied
<1> QED BY <1>3, <1>4, AdvanceType

\* A packet that reaches a channel goes to the receive ring or is dropped.
LEMMA PacketPushed ==
  ASSUME NEW v \in SkyVirtualChannel, NEW k \in Idx, NEW s \in Sequence
  PROVE  /\ PushedRx(v, k, s) \in SkyVirtualChannel
         /\ PushedRx(v, k, s).sendRing = v.sendRing
         /\ PushedRx(v, k, s).arq_state_flag = v.arq_state_flag
         /\ PushedRx(v, k, s).arq_session_identifier = v.arq_session_identifier
         /\ PushedRx(v, k, s).handshake_send = v.handshake_send
         /\ \/ PushedRx(v, k, s).rcvRing = v.rcvRing
            \/ /\ Accepts(v.rcvRing, s)
               /\ PushedRx(v, k, s).rcvRing = rcvRing_push_rx_packet(v.rcvRing, k, s)
<1>1. CASE Accepts(v.rcvRing, s) /\ StoreHasRoom(v, k)
  <2> DEFINE ring == rcvRing_push_rx_packet(v.rcvRing, k, s)
  <2>1. ring \in SkyRcvRing
    BY ChannelFields, PushType
  <2>2. PushedRx(v, k, s) = [v EXCEPT !.rcvRing = ring]
    BY <1>1 DEF PushedRx, SkyVirtualChannel
  <2> HIDE DEF ring
  <2> QED BY <1>1, <2>1, <2>2 DEF SkyVirtualChannel, ring
<1>2. CASE ~(Accepts(v.rcvRing, s) /\ StoreHasRoom(v, k))
  BY <1>2 DEF PushedRx
<1> QED BY <1>1, <1>2

\* The mask of a request.
LEMMA MaskType ==
  ASSUME NEW ring
  PROVE  rcvRing_get_horizon_bitmap(ring, MaskBits) \in SUBSET (0 .. MaskBits - 1)
<1>1. \A i : i \in 0 .. (IF HorizonWidth < MaskBits THEN HorizonWidth ELSE MaskBits) - 1
             => i \in 0 .. MaskBits - 1
  BY Constants
<1> QED BY <1>1, Zenon DEF rcvRing_get_horizon_bitmap

\* A frame that is put together from parts.
LEMMA FrameParts ==
  ASSUME NEW on \in BOOLEAN,
         NEW handshake, handshake = <<>> \/ \E s \in ArqStates, x \in Identifiers :
                                     handshake = <<[peer_state |-> s, identifier |-> x]>>,
         NEW request, request = <<>> \/ \E s \in Sequence, m \in SUBSET (0 .. MaskBits - 1) :
                                     request = <<[sequence |-> s, mask |-> m]>>,
         NEW ctrl, ctrl = <<>> \/ \E s \in Sequence, t \in Sequence :
                                     ctrl = <<[tx_sequence |-> s, rx_sequence |-> t]>>,
         NEW number, number = <<>> \/ \E s \in Sequence : number = <<s>>,
         NEW payload, payload = <<>> \/ \E k \in Idx : payload = <<k>>
  PROVE  [flag_arq_on |-> on, arq_handshake |-> handshake, arq_request |-> request,
          arq_ctrl |-> ctrl, arq_sequence |-> number, payload |-> payload] \in Frame
<1>1. \A S : <<>> \in Seq(S) /\ \A x \in S : <<x>> \in Seq(S)
  OBVIOUS
<1>2. handshake \in Seq([peer_state : ArqStates, identifier : Identifiers])
  <2>1. CASE handshake = <<>>
    BY <1>1, <2>1
  <2>2. CASE handshake # <<>>
    <3>1. PICK s \in ArqStates, x \in Identifiers : handshake = <<[peer_state |-> s, identifier |-> x]>>
      BY <2>2
    <3>2. [peer_state |-> s, identifier |-> x] \in [peer_state : ArqStates, identifier : Identifiers]
      OBVIOUS
    <3> QED BY <1>1, <3>1, <3>2, Zenon
  <2> QED BY <2>1, <2>2
<1>3. request \in Seq([sequence : Sequence, mask : SUBSET (0 .. MaskBits - 1)])
  <2>1. CASE request = <<>>
    BY <1>1, <2>1
  <2>2. CASE request # <<>>
    <3>1. PICK s \in Sequence, m \in SUBSET (0 .. MaskBits - 1) : request = <<[sequence |-> s, mask |-> m]>>
      BY <2>2, Zenon
    <3>2. [sequence |-> s, mask |-> m] \in [sequence : Sequence, mask : SUBSET (0 .. MaskBits - 1)]
      OBVIOUS
    <3> QED BY <1>1, <3>1, <3>2, Zenon
  <2> QED BY <2>1, <2>2
<1>4. ctrl \in Seq([tx_sequence : Sequence, rx_sequence : Sequence])
  <2>1. CASE ctrl = <<>>
    BY <1>1, <2>1
  <2>2. CASE ctrl # <<>>
    <3>1. PICK s \in Sequence, t \in Sequence : ctrl = <<[tx_sequence |-> s, rx_sequence |-> t]>>
      BY <2>2
    <3>2. [tx_sequence |-> s, rx_sequence |-> t] \in [tx_sequence : Sequence, rx_sequence : Sequence]
      OBVIOUS
    <3> QED BY <1>1, <3>1, <3>2, Zenon
  <2> QED BY <2>1, <2>2
<1>5. number \in Seq(Sequence) /\ payload \in Seq(Idx)
  BY <1>1, Zenon
<1> QED BY <1>2, <1>3, <1>4, <1>5 DEF Frame

\* What a channel writes is a frame.
LEMMA FrameFilled ==
  ASSUME NEW v \in SkyVirtualChannel, NEW p \in Nat, NEW o \in Nat, SendInv(v.sendRing, p, o),
         1 .. p \subseteq Idx,
         v.arq_state_flag # "OFF" => Wire(v.arq_session_identifier) \in Identifiers,
         NEW w \in BOOLEAN, NEW i \in BOOLEAN
  PROVE  FilledFrame(v, w, i) \in Frame
<1>1. \A r \in BOOLEAN : PeekFinds(v.sendRing, r) =>
        NextPayload(v.sendRing, r) \in Idx /\ PeekSequence(v.sendRing, r) \in Sequence
  <2> SUFFICES ASSUME NEW r \in BOOLEAN, PeekFinds(v.sendRing, r)
               PROVE  NextPayload(v.sendRing, r) \in Idx /\ PeekSequence(v.sendRing, r) \in Sequence
    BY Zenon
  <2> DEFINE k == NextPayload(v.sendRing, r)
  <2>1. k \in Nat /\ Acked(v.sendRing, p) < k /\ k <= p /\ PeekSequence(v.sendRing, r) = Num(k - 1 - o)
    BY SendPacket
  <2>2. Acked(v.sendRing, p) \in Nat
    BY SendOrder
  <2> HIDE DEF k
  <2>3. k \in 1 .. p /\ k - 1 - o \in Int
    BY <2>1, <2>2
  <2>4. k \in Idx /\ Num(k - 1 - o) \in Sequence
    BY <2>3, NumType
  <2> QED BY <2>1, <2>4 DEF k
<1>2. <<>> = <<>> /\ FALSE \in BOOLEAN /\ TRUE \in BOOLEAN
  OBVIOUS
<1>3. "IN_INIT" \in ArqStates /\ "ON" \in ArqStates
  BY DEF ArqStates
<1>4. CASE v.arq_state_flag = "OFF"
  <2>1. CASE ReadsUnnumbered(v.sendRing)
    <3>1. FilledFrame(v, w, i) =
            [flag_arq_on |-> FALSE, arq_handshake |-> <<>>, arq_request |-> <<>>,
             arq_ctrl |-> <<>>, arq_sequence |-> <<>>, payload |-> <<NextPayload(v.sendRing, FALSE)>>]
      BY <1>4, <2>1 DEF FilledFrame, EmptyFrame
    <3>2. PeekFinds(v.sendRing, FALSE)
      BY <2>1 DEF ReadsUnnumbered
    <3> QED BY <1>1, <1>2, <3>1, <3>2, FrameParts
  <2>2. CASE ~ReadsUnnumbered(v.sendRing)
    <3>1. FilledFrame(v, w, i) = EmptyFrame
      BY <1>4, <2>2 DEF FilledFrame
    <3> QED BY <1>2, <3>1, FrameParts DEF EmptyFrame
  <2> QED BY <2>1, <2>2
<1>5. CASE v.arq_state_flag = "IN_INIT"
  <2> DEFINE shake == <<[peer_state |-> "IN_INIT", identifier |-> Wire(v.arq_session_identifier)]>>
  <2>1. CASE w
    <3>1. FilledFrame(v, w, i) =
            [flag_arq_on |-> FALSE, arq_handshake |-> shake, arq_request |-> <<>>,
             arq_ctrl |-> <<>>, arq_sequence |-> <<>>, payload |-> <<>>]
      BY <1>5, <2>1 DEF FilledFrame, EmptyFrame
    <3>2. \E s \in ArqStates, x \in Identifiers : shake = <<[peer_state |-> s, identifier |-> x]>>
      BY <1>3, <1>5
    <3> QED BY <1>2, <3>1, <3>2, FrameParts
  <2>2. CASE ~w
    <3>1. FilledFrame(v, w, i) = EmptyFrame
      BY <1>5, <2>2 DEF FilledFrame
    <3> QED BY <1>2, <3>1, FrameParts DEF EmptyFrame
  <2> QED BY <2>1, <2>2
<1>6. CASE v.arq_state_flag = "ON"
  <2> DEFINE shake == IF v.handshake_send = 0 THEN <<>>
            ELSE <<[peer_state |-> "ON", identifier |-> Wire(v.arq_session_identifier)]>>
             request == IF ~SendsRequest(v, w) THEN <<>>
            ELSE <<[sequence |-> v.rcvRing.head_sequence,
                    mask |-> rcvRing_get_horizon_bitmap(v.rcvRing, MaskBits)]>>
             ctrl == IF ~SendsCtrl(v, w, i) THEN <<>>
            ELSE <<[tx_sequence |-> v.sendRing.tx_sequence,
                    rx_sequence |-> v.rcvRing.head_sequence]>>
             number == IF ~SendsPayload(v) THEN <<>> ELSE <<PeekSequence(v.sendRing, TRUE)>>
             payload == IF ~SendsPayload(v) THEN <<>> ELSE Carried(NextPayload(v.sendRing, TRUE))
  <2>1. FilledFrame(v, w, i) =
          [flag_arq_on |-> TRUE, arq_handshake |-> shake, arq_request |-> request,
           arq_ctrl |-> ctrl, arq_sequence |-> number, payload |-> payload]
    BY <1>6 DEF FilledFrame
  <2>2. shake = <<>> \/ \E s \in ArqStates, x \in Identifiers :
                          shake = <<[peer_state |-> s, identifier |-> x]>>
    BY <1>3, <1>6
  <2>3. v.rcvRing.head_sequence \in Sequence /\ v.sendRing.tx_sequence \in Sequence
    BY ChannelFields, SendFields, RcvFields
  <2>4. request = <<>> \/ \E s \in Sequence, m \in SUBSET (0 .. MaskBits - 1) :
                            request = <<[sequence |-> s, mask |-> m]>>
    BY <2>3, MaskType
  <2>5. ctrl = <<>> \/ \E s \in Sequence, t \in Sequence :
                         ctrl = <<[tx_sequence |-> s, rx_sequence |-> t]>>
    BY <2>3
  <2>6. number = <<>> \/ \E s \in Sequence : number = <<s>>
    BY <1>1, <1>2 DEF SendsPayload
  <2>7. payload = <<>> \/ \E k \in Idx : payload = <<k>>
    BY <1>1, <1>2 DEF SendsPayload, Carried
  <2> HIDE DEF shake, request, ctrl, number, payload
  <2> QED BY <1>2, <2>1, <2>2, <2>4, <2>5, <2>6, <2>7, FrameParts
<1> QED BY <1>4, <1>5, <1>6 DEF SkyVirtualChannel, ArqStates

\* Putting a frame together moves the send ring only, and acknowledges packets
\* only where ARQ is off.
LEMMA FillState ==
  ASSUME NEW v \in SkyVirtualChannel, NEW p \in Nat, NEW o \in Nat, SendInv(v.sendRing, p, o),
         NEW w \in BOOLEAN, NEW i \in BOOLEAN, NEW after, after = sky_vc_fill_frame(v, w, i)
  PROVE  /\ after \in SkyVirtualChannel
         /\ SendInv(after.sendRing, p, o)
         /\ after.rcvRing = v.rcvRing /\ after.arq_state_flag = v.arq_state_flag
         /\ after.arq_session_identifier = v.arq_session_identifier
         /\ after.handshake_send \in {0, v.handshake_send}
         /\ v.arq_state_flag # "OFF" =>
              /\ Acked(after.sendRing, p) = Acked(v.sendRing, p)
              /\ Seen(after.sendRing, p) >= Seen(v.sendRing, p)
              /\ after.sendRing.tail_sequence = v.sendRing.tail_sequence
         /\ v.arq_state_flag = "IN_INIT" => after = v
<1>1. CASE v.arq_state_flag = "OFF"
  <2> DEFINE ring == IF ReadsUnnumbered(v.sendRing) THEN ReadMonotonic(v.sendRing) ELSE v.sendRing
  <2>1. SendInv(ring, p, o)
    BY SendMonotonic DEF ReadsUnnumbered
  <2>2. ring \in SkySendRing
    BY <2>1 DEF SendInv
  <2>3. after = [v EXCEPT !.sendRing = ring]
    BY <1>1 DEF sky_vc_fill_frame, SkyVirtualChannel
  <2> HIDE DEF ring
  <2>4. /\ after \in SkyVirtualChannel /\ after.sendRing = ring
        /\ after.rcvRing = v.rcvRing /\ after.arq_state_flag = v.arq_state_flag
        /\ after.arq_session_identifier = v.arq_session_identifier
        /\ after.handshake_send = v.handshake_send
    BY <2>2, <2>3 DEF SkyVirtualChannel
  <2> QED BY <1>1, <2>1, <2>4
<1>2. CASE v.arq_state_flag = "IN_INIT"
  <2>1. after = v
    BY <1>2 DEF sky_vc_fill_frame
  <2>2. Seen(v.sendRing, p) \in Nat
    BY SendOrder
  <2> QED BY <1>2, <2>1, <2>2
<1>3. CASE v.arq_state_flag = "ON"
  <2> DEFINE ring == IF SendsPayload(v) THEN sendRing_read_to_tx(v.sendRing, TRUE) ELSE v.sendRing
             recall == v.need_recall /\ ~SendsRequest(v, w)
             unconfirmed == v.unconfirmed_payloads /\ ~SendsCtrl(v, w, i)
  <2>1. /\ SendInv(ring, p, o) /\ Acked(ring, p) = Acked(v.sendRing, p)
        /\ ring.tail_sequence = v.sendRing.tail_sequence
        /\ Seen(ring, p) \in {Seen(v.sendRing, p), Seen(v.sendRing, p) + 1}
    BY SendRead
  <2>2. ring \in SkySendRing
    BY <2>1 DEF SendInv
  <2>3. Seen(v.sendRing, p) \in Nat
    BY SendOrder
  <2>4. after = [v EXCEPT !.handshake_send = 0, !.need_recall = recall,
                          !.unconfirmed_payloads = unconfirmed, !.sendRing = ring]
    BY <1>3 DEF sky_vc_fill_frame, SkyVirtualChannel
  <2>5. recall \in BOOLEAN /\ unconfirmed \in BOOLEAN
    BY ChannelFields
  <2> HIDE DEF ring, recall, unconfirmed
  <2>6. /\ after \in SkyVirtualChannel /\ after.sendRing = ring
        /\ after.rcvRing = v.rcvRing /\ after.arq_state_flag = v.arq_state_flag
        /\ after.arq_session_identifier = v.arq_session_identifier
        /\ after.handshake_send = 0
    <3>1. 0 \in 0 .. 1
      OBVIOUS
    <3>2. after \in SkyVirtualChannel
      BY <2>2, <2>4, <2>5, <3>1, Zenon DEF SkyVirtualChannel
    <3>3. /\ after.sendRing = ring
          /\ after.rcvRing = v.rcvRing /\ after.arq_state_flag = v.arq_state_flag
          /\ after.arq_session_identifier = v.arq_session_identifier
          /\ after.handshake_send = 0
      BY <2>4 DEF SkyVirtualChannel
    <3> QED BY <3>2, <3>3
  <2>7. Seen(ring, p) >= Seen(v.sendRing, p)
    BY <2>1, <2>3
  <2> QED BY <1>3, <2>1, <2>6, <2>7 DEF ring
<1> QED BY <1>1, <1>2, <1>3 DEF SkyVirtualChannel, ArqStates

\* A frame of a channel without ARQ carries a packet without a number or nothing.
LEMMA FrameOff ==
  ASSUME NEW v, v.arq_state_flag = "OFF", NEW w, NEW i
  PROVE  LET f == FilledFrame(v, w, i)
         IN  /\ ~Shakes(f) /\ ~Numbered(f)
             /\ f.arq_ctrl = <<>> /\ f.arq_request = <<>>
BY DEF FilledFrame, EmptyFrame, Shakes, Numbered

\* A frame of a channel that connects carries the handshake or nothing.
LEMMA FrameInit ==
  ASSUME NEW v, v.arq_state_flag = "IN_INIT", NEW w, NEW i
  PROVE  LET f == FilledFrame(v, w, i)
         IN  /\ Bare(f) /\ ~Numbered(f)
             /\ Shakes(f) => f.arq_handshake[1].identifier = Wire(v.arq_session_identifier)
BY DEF FilledFrame, EmptyFrame, Shakes, Numbered, Bare

\* A frame of a channel in a session: what it says of the rings.
LEMMA FrameOn ==
  ASSUME NEW v \in SkyVirtualChannel, NEW p \in Nat, NEW o \in Nat, SendInv(v.sendRing, p, o),
         v.arq_state_flag = "ON", NEW w \in BOOLEAN, NEW i \in BOOLEAN
  PROVE  LET f == FilledFrame(v, w, i)
         IN  /\ Shakes(f) => /\ v.handshake_send # 0
                             /\ f.arq_handshake[1].identifier = Wire(v.arq_session_identifier)
                             /\ f.arq_handshake[1].peer_state = "ON"
             /\ f.arq_ctrl # <<>> => f.arq_ctrl[1].rx_sequence = v.rcvRing.head_sequence
             /\ Numbered(f) =>
                  /\ f.payload[1] \in Nat /\ Acked(v.sendRing, p) < f.payload[1]
                  /\ f.payload[1] <= Seen(sky_vc_fill_frame(v, w, i).sendRing, p)
                  /\ f.arq_sequence[1] = Num(f.payload[1] - 1 - o)
<1> DEFINE f == FilledFrame(v, w, i)
<1>1. /\ f.arq_handshake = IF v.handshake_send = 0 THEN <<>>
            ELSE <<[peer_state |-> "ON", identifier |-> Wire(v.arq_session_identifier)]>>
      /\ f.arq_ctrl = IF ~SendsCtrl(v, w, i) THEN <<>>
            ELSE <<[tx_sequence |-> v.sendRing.tx_sequence,
                    rx_sequence |-> v.rcvRing.head_sequence]>>
      /\ f.arq_sequence = IF ~SendsPayload(v) THEN <<>> ELSE <<PeekSequence(v.sendRing, TRUE)>>
      /\ f.payload = IF ~SendsPayload(v) THEN <<>> ELSE Carried(NextPayload(v.sendRing, TRUE))
  BY DEF FilledFrame
<1> HIDE DEF f
<1>2. Shakes(f) => /\ v.handshake_send # 0
                   /\ f.arq_handshake[1].identifier = Wire(v.arq_session_identifier)
                   /\ f.arq_handshake[1].peer_state = "ON"
  BY <1>1 DEF Shakes
<1>3. f.arq_ctrl # <<>> => f.arq_ctrl[1].rx_sequence = v.rcvRing.head_sequence
  BY <1>1
<1>4. ASSUME Numbered(f)
      PROVE  /\ f.payload[1] \in Nat /\ Acked(v.sendRing, p) < f.payload[1]
             /\ f.payload[1] <= Seen(sky_vc_fill_frame(v, w, i).sendRing, p)
             /\ f.arq_sequence[1] = Num(f.payload[1] - 1 - o)
  <2>1. SendsPayload(v) /\ PeekFinds(v.sendRing, TRUE) /\ TRUE \in BOOLEAN
    BY <1>1, <1>4 DEF Numbered, SendsPayload
  <2>2. f.payload[1] = NextPayload(v.sendRing, TRUE) /\ f.arq_sequence[1] = PeekSequence(v.sendRing, TRUE)
    <3> DEFINE k == NextPayload(v.sendRing, TRUE)
               s == PeekSequence(v.sendRing, TRUE)
    <3>1. f.payload # <<>> /\ f.payload = Carried(k) /\ f.arq_sequence = <<s>>
      BY <1>1, <1>4, <2>1 DEF Numbered
    <3> HIDE DEF k, s
    <3>2. f.payload = <<k>>
      BY <3>1 DEF Carried
    <3>3. f.payload[1] = k /\ f.arq_sequence[1] = s
      BY <3>1, <3>2
    <3> QED BY <3>3 DEF k, s
  <2>3. sky_vc_fill_frame(v, w, i).sendRing = sendRing_read_to_tx(v.sendRing, TRUE)
    BY <2>1 DEF sky_vc_fill_frame, SkyVirtualChannel
  <2> DEFINE k == NextPayload(v.sendRing, TRUE)
  <2>4. /\ k \in Nat /\ Acked(v.sendRing, p) < k
        /\ k <= Seen(sendRing_read_to_tx(v.sendRing, TRUE), p)
        /\ PeekSequence(v.sendRing, TRUE) = Num(k - 1 - o)
    BY <2>1, SendPacket
  <2> HIDE DEF k
  <2>5. f.payload[1] = k
    BY <2>2 DEF k
  <2> QED BY <2>2, <2>3, <2>4, <2>5
<1> QED BY <1>2, <1>3, <1>4 DEF f

-----------------------------------------------------------------------------
(* A frame that arrives. *)

\* What the send ring of an end that has pushed p packets, o of them before the
\* session, becomes when the frame arrives: it forgets what the frame
\* acknowledges, if that was transmitted, or nothing.
SenderMoves(before, after, f, p, o) ==
  /\ SendInv(after, p, o)
  /\ Seen(after, p) = Seen(before, p)
  /\ \/ Acked(after, p) = Acked(before, p) /\ after.tail_sequence = before.tail_sequence
     \/ /\ f.arq_ctrl # <<>>
        /\ SeqMinus(f.arq_ctrl[1].rx_sequence, before.tail_sequence) <= Sent(before)
        /\ Acked(after, p) = Acked(before, p)
                               + SeqMinus(f.arq_ctrl[1].rx_sequence, before.tail_sequence)
        /\ after.tail_sequence = f.arq_ctrl[1].rx_sequence

\* The receive ring takes the packet of the frame or stays.
ReceiverMoves(before, after, f) ==
  \/ after = before
  \/ /\ Numbered(f) /\ Accepts(before, f.arq_sequence[1])
     /\ after = rcvRing_push_rx_packet(before, f.payload[1], f.arq_sequence[1])

\* The channel is in the same session.
SameSession(before, after) ==
  /\ after.arq_state_flag = before.arq_state_flag
  /\ after.arq_session_identifier = before.arq_session_identifier
  /\ after.handshake_send = before.handshake_send

\* The control extension of a frame.
LEMMA CtrlTaken ==
  ASSUME NEW v \in SkyVirtualChannel, NEW p \in Nat, NEW o \in Nat, SendInv(v.sendRing, p, o),
         NEW f \in Frame
  PROVE  /\ AfterCtrl(v, f) \in SkyVirtualChannel
         /\ SameSession(v, AfterCtrl(v, f))
         /\ AfterCtrl(v, f).rcvRing = v.rcvRing
         /\ SenderMoves(v.sendRing, AfterCtrl(v, f).sendRing, f, p, o)
<1>1. CASE f.arq_ctrl = <<>>
  <2>1. AfterCtrl(v, f) = v
    BY <1>1 DEF AfterCtrl
  <2> QED BY <2>1 DEF SameSession, SenderMoves
<1>2. CASE f.arq_ctrl # <<>>
  <2> DEFINE s == f.arq_ctrl[1].rx_sequence
             t == f.arq_ctrl[1].tx_sequence
             cleaned == sendRing_clean_tail_up_to(v.sendRing, s)
             synced == sky_vc_update_tx_sync(v, s)
             after == sky_vc_update_rx_sync(synced, t)
  <2>1. AfterCtrl(v, f) = after
    BY <1>2 DEF AfterCtrl
  <2>2. s \in Sequence /\ t \in Sequence
    BY <1>2, FrameFields
  <2>3. SeqMinus(v.sendRing.tx_sequence, v.sendRing.tail_sequence) = Sent(v.sendRing)
    BY SendOrder
  <2> HIDE DEF s
  <2>4. /\ synced \in SkyVirtualChannel /\ SameSession(v, synced) /\ synced.rcvRing = v.rcvRing
        /\ \/ synced.sendRing = v.sendRing
           \/ SeqMinus(s, v.sendRing.tail_sequence) <= Sent(v.sendRing) /\ synced.sendRing = cleaned
    <3>1. CASE ~ValidAcknowledge(v.sendRing, s)
      <4>1. synced = v
        BY <3>1 DEF sky_vc_update_tx_sync
      <4> HIDE DEF synced
      <4> QED BY <4>1 DEF SameSession
    <3>2. CASE ValidAcknowledge(v.sendRing, s)
      <4>1. SeqMinus(s, v.sendRing.tail_sequence) <= Sent(v.sendRing)
        BY <2>3, <3>2 DEF ValidAcknowledge
      <4>2. cleaned \in SkySendRing
        BY <2>2, <4>1, SendCleaned DEF SendInv
      <4>3. synced = [v EXCEPT !.sendRing = cleaned]
        BY <3>2 DEF sky_vc_update_tx_sync, SkyVirtualChannel
      <4> HIDE DEF synced, cleaned
      <4> QED BY <4>1, <4>2, <4>3 DEF SkyVirtualChannel, SameSession
    <3> QED BY <3>1, <3>2
  <2> HIDE DEF synced, cleaned, t
  <2>5. /\ after \in SkyVirtualChannel /\ SameSession(synced, after)
        /\ after.rcvRing = synced.rcvRing /\ after.sendRing = synced.sendRing
    <3> DEFINE sync == rcvRing_get_sequence_sync_status(synced.rcvRing, t)
               recall == IF sync = "IN_SYNC" THEN FALSE
                         ELSE synced.need_recall \/ sync = "OUT_OF_SYNC"
    <3>1. recall \in BOOLEAN
      BY <2>4, ChannelFields
    <3>2. after = [synced EXCEPT !.need_recall = recall]
      BY <2>4 DEF sky_vc_update_rx_sync, SkyVirtualChannel
    <3> HIDE DEF recall, after
    <3> QED BY <2>4, <3>1, <3>2 DEF SkyVirtualChannel, SameSession
  <2>6. SenderMoves(v.sendRing, after.sendRing, f, p, o)
    <3>1. CASE after.sendRing = v.sendRing
      BY <3>1 DEF SenderMoves
    <3>2. CASE SeqMinus(s, v.sendRing.tail_sequence) <= Sent(v.sendRing) /\ after.sendRing = cleaned
      <4>1. /\ SendInv(cleaned, p, o) /\ Seen(cleaned, p) = Seen(v.sendRing, p)
            /\ Acked(cleaned, p) = Acked(v.sendRing, p) + SeqMinus(s, v.sendRing.tail_sequence)
            /\ cleaned.tail_sequence = s
        BY <2>2, <3>2, SendCleaned DEF cleaned
      <4> QED BY <1>2, <3>2, <4>1 DEF SenderMoves, s
    <3> QED BY <2>4, <2>5, <3>1, <3>2
  <2> HIDE DEF after
  <2> QED BY <2>1, <2>4, <2>5, <2>6 DEF SameSession
<1> QED BY <1>1, <1>2

\* The payload of a frame.
LEMMA PayloadTaken ==
  ASSUME NEW v \in SkyVirtualChannel, NEW f \in Frame
  PROVE  /\ AfterPayload(v, f) \in SkyVirtualChannel
         /\ SameSession(v, AfterPayload(v, f))
         /\ AfterPayload(v, f).sendRing = v.sendRing
         /\ ReceiverMoves(v.rcvRing, AfterPayload(v, f).rcvRing, f)
<1>1. CASE ~Numbered(f)
  <2>1. AfterPayload(v, f) = v
    BY <1>1 DEF AfterPayload, Numbered
  <2> QED BY <2>1 DEF SameSession, ReceiverMoves
<1>2. CASE Numbered(f)
  <2> DEFINE k == f.payload[1]
             s == f.arq_sequence[1]
             got == PushedRx(v, k, s)
             after == [got EXCEPT !.unconfirmed_payloads = TRUE]
  <2>1. AfterPayload(v, f) = after
    BY <1>2 DEF AfterPayload, Numbered, sky_vc_push_rx_packet
  <2>2. k \in Idx /\ s \in Sequence
    BY <1>2, FrameFields DEF Numbered
  <2> HIDE DEF k, s
  <2>3. /\ got \in SkyVirtualChannel
        /\ got.sendRing = v.sendRing
        /\ got.arq_state_flag = v.arq_state_flag
        /\ got.arq_session_identifier = v.arq_session_identifier
        /\ got.handshake_send = v.handshake_send
        /\ \/ got.rcvRing = v.rcvRing
           \/ /\ Accepts(v.rcvRing, s)
              /\ got.rcvRing = rcvRing_push_rx_packet(v.rcvRing, k, s)
    BY <2>2, PacketPushed
  <2> HIDE DEF got
  <2>4. /\ after \in SkyVirtualChannel /\ SameSession(got, after)
        /\ after.sendRing = got.sendRing /\ after.rcvRing = got.rcvRing
    BY <2>3 DEF SkyVirtualChannel, SameSession
  <2> HIDE DEF after
  <2> QED BY <1>2, <2>1, <2>3, <2>4 DEF SameSession, ReceiverMoves, k, s
<1> QED BY <1>1, <1>2

\* The request of a frame.
LEMMA RequestTaken ==
  ASSUME NEW v \in SkyVirtualChannel, NEW p \in Nat, NEW o \in Nat, SendInv(v.sendRing, p, o),
         NEW f \in Frame
  PROVE  /\ AfterRequest(v, f) \in SkyVirtualChannel
         /\ SameSession(v, AfterRequest(v, f))
         /\ AfterRequest(v, f).rcvRing = v.rcvRing
         /\ SendInv(AfterRequest(v, f).sendRing, p, o)
         /\ Acked(AfterRequest(v, f).sendRing, p) = Acked(v.sendRing, p)
         /\ Seen(AfterRequest(v, f).sendRing, p) = Seen(v.sendRing, p)
         /\ AfterRequest(v, f).sendRing.tail_sequence = v.sendRing.tail_sequence
<1>1. CASE AfterRequest(v, f) = v
  BY <1>1 DEF SameSession
<1>2. CASE AfterRequest(v, f) # v
  <2> DEFINE s == f.arq_request[1].sequence
             mask == f.arq_request[1].mask
             after == [v EXCEPT !.sendRing = sendRing_schedule_resends_by_mask(v.sendRing, s, mask)]
  <2>1. AfterRequest(v, f) = after /\ f.arq_request # <<>>
    BY <1>2 DEF AfterRequest, SkyVirtualChannel
  <2>2. s \in Sequence /\ v.sendRing \in SkySendRing
    BY <2>1, FrameFields DEF SendInv
  <2>3. PICK list \in Seq(Sequence) :
          sendRing_schedule_resends_by_mask(v.sendRing, s, mask) = [v.sendRing EXCEPT !.resend_list = list]
    BY ZenonT(60), <2>2, ScheduleChanges
  <2> DEFINE ring == [v.sendRing EXCEPT !.resend_list = list]
  <2>4. /\ SendInv(ring, p, o) /\ Acked(ring, p) = Acked(v.sendRing, p)
        /\ Seen(ring, p) = Seen(v.sendRing, p) /\ ring.tail_sequence = v.sendRing.tail_sequence
    BY SendResends
  <2>5. ring \in SkySendRing /\ after = [v EXCEPT !.sendRing = ring]
    BY <2>3, <2>4 DEF SendInv
  <2> HIDE DEF ring, after
  <2>6. /\ after \in SkyVirtualChannel /\ after.sendRing = ring
        /\ after.rcvRing = v.rcvRing /\ SameSession(v, after)
    BY <2>5 DEF SkyVirtualChannel, SameSession
  <2> QED BY <2>1, <2>4, <2>6
<1> QED BY <1>1, <1>2

\* sky_vc_process_frame once the handshake is dealt with.
Processed(v, f) ==
  CASE v.arq_state_flag = "OFF" ->
         IF f.payload = <<>> THEN v ELSE sky_vc_push_rx_packet_monotonic(v, f.payload[1])
    [] v.arq_state_flag = "IN_INIT" -> v
    [] v.arq_state_flag = "ON" -> AfterRequest(AfterPayload(AfterCtrl(v, f), f), f)

\* What a frame does to a channel.
LEMMA FrameProcessed ==
  ASSUME NEW v \in SkyVirtualChannel, NEW p \in Nat, NEW o \in Nat, SendInv(v.sendRing, p, o),
         NEW f \in Frame
  PROVE  /\ Processed(v, f) \in SkyVirtualChannel
         /\ SameSession(v, Processed(v, f))
         /\ SenderMoves(v.sendRing, Processed(v, f).sendRing, f, p, o)
         /\ v.arq_state_flag = "ON" => ReceiverMoves(v.rcvRing, Processed(v, f).rcvRing, f)
         /\ v.arq_state_flag = "IN_INIT" => Processed(v, f) = v
<1>1. CASE v.arq_state_flag = "OFF"
  <2>1. CASE f.payload = <<>>
    <3>1. Processed(v, f) = v
      BY <1>1, <2>1 DEF Processed
    <3> QED BY <1>1, <3>1 DEF SameSession, SenderMoves
  <2>2. CASE f.payload # <<>>
    <3> DEFINE k == f.payload[1]
               s == v.rcvRing.head_sequence
    <3>1. k \in Idx /\ s \in Sequence
      BY <2>2, FrameFields, ChannelFields, RcvFields
    <3>2. Processed(v, f) = PushedRx(v, k, s)
      BY <1>1, <2>2 DEF Processed, sky_vc_push_rx_packet_monotonic
    <3> HIDE DEF k, s
    <3> QED BY <1>1, <3>1, <3>2, PacketPushed DEF SameSession, SenderMoves
  <2> QED BY <2>1, <2>2
<1>2. CASE v.arq_state_flag = "IN_INIT"
  <2>1. Processed(v, f) = v
    BY <1>2 DEF Processed
  <2> QED BY <1>2, <2>1 DEF SameSession, SenderMoves
<1>3. CASE v.arq_state_flag = "ON"
  <2> DEFINE one == AfterCtrl(v, f)
             two == AfterPayload(one, f)
             three == AfterRequest(two, f)
  <2>1. Processed(v, f) = three
    BY <1>3 DEF Processed
  <2>2. /\ one \in SkyVirtualChannel /\ SameSession(v, one) /\ one.rcvRing = v.rcvRing
        /\ SenderMoves(v.sendRing, one.sendRing, f, p, o)
    BY CtrlTaken
  <2> HIDE DEF one
  <2>3. /\ two \in SkyVirtualChannel /\ SameSession(one, two) /\ two.sendRing = one.sendRing
        /\ ReceiverMoves(one.rcvRing, two.rcvRing, f)
    BY <2>2, PayloadTaken
  <2> HIDE DEF two
  <2>4. SendInv(two.sendRing, p, o)
    BY <2>2, <2>3 DEF SenderMoves
  <2>5. /\ three \in SkyVirtualChannel /\ SameSession(two, three) /\ three.rcvRing = two.rcvRing
        /\ SendInv(three.sendRing, p, o)
        /\ Acked(three.sendRing, p) = Acked(two.sendRing, p)
        /\ Seen(three.sendRing, p) = Seen(two.sendRing, p)
        /\ three.sendRing.tail_sequence = two.sendRing.tail_sequence
    BY <2>3, <2>4, RequestTaken
  <2> HIDE DEF three
  <2>6. SenderMoves(v.sendRing, three.sendRing, f, p, o)
    BY <2>2, <2>3, <2>5 DEF SenderMoves
  <2>7. SameSession(v, three) /\ ReceiverMoves(v.rcvRing, three.rcvRing, f)
    BY <2>2, <2>3, <2>5 DEF SameSession
  <2> QED BY <1>3, <2>1, <2>5, <2>6, <2>7
<1> QED BY <1>1, <1>2, <1>3 DEF SkyVirtualChannel, ArqStates

-----------------------------------------------------------------------------
(* The link.                                                               *)

\* What every behaviour keeps.
LinkInv ==
  /\ TypeOK
  /\ \A n \in Node :
       /\ SendInv(vc[n].sendRing, pushed[n], origin[n])
       /\ vc[n].arq_state_flag # "OFF" => vc[n].arq_session_identifier \in Identifiers


\* What the assumptions say of the constants of the link.
LEMMA LinkConstants ==
  /\ A # B /\ Node = {A, B} /\ Talkers \subseteq Node /\ Quitters \subseteq Node
  /\ MaxPush \in Nat /\ InFlight \in Nat /\ EB_NULL_IDX = 0
  /\ Idx = 1 .. MaxPush /\ \A p \in 0 .. MaxPush : 1 .. p \subseteq Idx
  /\ ConnectTicks \in [Node -> SUBSET (Nat \ {0})]
  /\ Identifiers \subseteq Nat
  /\ \A n \in Node : Peer(n) \in Node /\ Peer(n) # n /\ Peer(Peer(n)) = n
                     /\ \A m \in Node : m = n \/ m = Peer(n)
BY LinkAssumption, IdentifiersAssumption DEF Node, Peer

\* An identifier is a number of two bytes; its bytes in reverse are one, too, and
\* reversed again give the identifier back.
LEMMA WireReverses ==
  ASSUME NEW x \in Identifiers
  PROVE  Wire(x) \in Identifiers /\ Wire(Wire(x)) = x
<1> DEFINE b == ByteBase
           q == x \div b
           r == x % b
<1>1. b \in Nat \ {0} /\ x \in 0 .. b * b - 1
  BY LinkAssumption, IdentifiersAssumption
<1> HIDE DEF b
<1>2. q \in Nat /\ r \in 0 .. b - 1 /\ x = q * b + r
  BY <1>1
<1>3. q < b
  <2>1. CASE q >= b
    <3>1. q * b >= b * b
      BY <1>1, <1>2, <2>1
    <3> QED BY <1>1, <1>2, <3>1
  <2> QED BY <1>1, <1>2, <2>1
<1> HIDE DEF q, r
<1>4. \A y \in 0 .. b - 1, z \in 0 .. b - 1 :
        (y * b + z) \div b = y /\ (y * b + z) % b = z
  <2> SUFFICES ASSUME NEW y \in 0 .. b - 1, NEW z \in 0 .. b - 1
               PROVE  (y * b + z) \div b = y /\ (y * b + z) % b = z
    OBVIOUS
  <2> DEFINE w == y * b + z
  <2>1. w \in Nat
    BY <1>1
  <2>2. PICK k \in Int, c \in 0 .. b - 1 : w = k * b + c /\ w \div b = k /\ w % b = c
    BY <1>1, <2>1
  <2>3. z = c + (k - y) * b /\ k - y \in Int
    BY <1>1, <2>2
  <2>4. z = c
    BY <1>1, <2>2, <2>3, RemainderUnique
  <2>5. k * b = y * b
    BY <1>1, <2>2, <2>4
  <2>6. k = y
    BY <1>1, <2>5
  <2> QED BY <2>2, <2>4, <2>6
<1>5. Wire(x) = r * b + q
  BY DEF Wire, b, q, r
<1>6. Wire(x) \div b = r /\ Wire(x) % b = q
  <2>1. q \in 0 .. b - 1 /\ r \in 0 .. b - 1
    BY <1>1, <1>2, <1>3
  <2>2. (r * b + q) \div b = r /\ (r * b + q) % b = q
    BY <1>4, <2>1, Zenon
  <2> QED BY <1>5, <2>2
<1>7. Wire(Wire(x)) = q * b + r
  BY <1>6 DEF Wire, b
<1>8. r * b + q \in 0 .. b * b - 1
  <2>1. r * b + q >= 0 /\ r * b + q \in Int
    BY <1>1, <1>2
  <2>2. r * b + q <= b * b - 1
    <3>1. r * b <= (b - 1) * b
      BY <1>1, <1>2
    <3>2. (b - 1) * b = b * b - b /\ b * b \in Nat /\ r * b \in Nat
      BY <1>1, <1>2
    <3> HIDE DEF b
    <3> QED BY <1>1, <1>2, <1>3, <3>1, <3>2
  <2> QED BY <1>1, <1>2, <2>1, <2>2
<1>9. Identifiers = 0 .. b * b - 1
  BY LinkAssumption DEF b
<1> QED BY <1>2, <1>5, <1>7, <1>8, <1>9

\* The tick an end reads is an identifier.
LEMMA TickIdentifies ==
  ASSUME NEW time \in Nat
  PROVE  Tick(time) \in Identifiers /\ Tick(time) \in Nat
<1> DEFINE b == ByteBase
           x == time % TickCount
<1>1. b \in Nat /\ b * b \in Nat /\ TickCount \in Nat \ {0} /\ TickCount <= b * b
      /\ Identifiers = 0 .. b * b - 1
  BY LinkAssumption, IdentifiersAssumption
<1>2. x \in 0 .. TickCount - 1
  BY <1>1
<1> DEFINE square == b * b
<1> HIDE DEF x, square
<1>3. x \in 0 .. square - 1 /\ x \in Nat
  <2>1. square \in Nat /\ TickCount <= square
    BY <1>1 DEF square
  <2> QED BY <1>1, <1>2, <2>1
<1>4. Identifiers = 0 .. square - 1
  BY <1>1 DEF square
<1> QED BY <1>3, <1>4 DEF Tick, x

\* What the handshake in a frame, if there is one, makes of a channel.
Shaken(v, f) ==
  IF f.arq_handshake = <<>> THEN v
  ELSE sky_vc_handle_handshake(v, f.arq_handshake[1].peer_state, f.arq_handshake[1].identifier)

\* The handshake, then the rest.
LEMMA ShakenThenProcessed ==
  ASSUME NEW v, NEW f
  PROVE  sky_vc_process_frame(v, f) = Processed(Shaken(v, f), f)
BY Zenon DEF sky_vc_process_frame, Processed, Shaken

\* A handshake wipes the channel and takes it to state ON, or takes an end that
\* waits for it to state ON, or changes nothing but handshake_send.
LEMMA HandshakeTaken ==
  ASSUME NEW v \in SkyVirtualChannel, NEW f \in Frame
  PROVE  /\ Shaken(v, f) \in SkyVirtualChannel
         /\ ~Shakes(f) => Shaken(v, f) = v
         /\ HandshakeWipes(v, f) =>
              /\ Shaken(v, f).sendRing = sky_send_ring_wipe(0)
              /\ Shaken(v, f).rcvRing = sky_rcv_ring_wipe(0)
              /\ Shaken(v, f).arq_state_flag = "ON"
              /\ f.arq_handshake[1].identifier \in Identifiers
              /\ Shaken(v, f).arq_session_identifier = f.arq_handshake[1].identifier
         /\ ~HandshakeWipes(v, f) =>
              /\ Shaken(v, f).sendRing = v.sendRing
              /\ Shaken(v, f).rcvRing = v.rcvRing
              /\ Shaken(v, f).arq_session_identifier = v.arq_session_identifier
              /\ Shaken(v, f).arq_state_flag =
                   IF v.arq_state_flag = "IN_INIT" /\ Names(f, v.arq_session_identifier)
                   THEN "ON" ELSE v.arq_state_flag
              /\ \/ Shaken(v, f).handshake_send = v.handshake_send
                 \/ Shaken(v, f).handshake_send = 0
                 \/ f.arq_handshake[1].peer_state = "IN_INIT" /\ v.arq_state_flag = "ON"
<1> DEFINE s == f.arq_handshake[1].peer_state
           x == f.arq_handshake[1].identifier
           after == Shaken(v, f)
<1>1. CASE ~Shakes(f)
  BY <1>1 DEF Shaken, Shakes, Names, HandshakeWipes
<1>2. CASE Shakes(f)
  <2>1. x \in Identifiers /\ after = sky_vc_handle_handshake(v, s, x)
    BY <1>2, FrameFields DEF Shaken, Shakes
  <2>2. /\ HandshakeWipes(v, f) <=>
             \/ v.arq_state_flag = "OFF"
             \/ /\ x # v.arq_session_identifier
                /\ v.arq_state_flag = "ON" \/ x > v.arq_session_identifier
        /\ Names(f, v.arq_session_identifier) <=> x = v.arq_session_identifier
    BY <1>2 DEF HandshakeWipes, Names, Shakes
  <2>3. /\ Wiped("ON", x, 1) \in SkyVirtualChannel
        /\ Wiped("ON", x, 1).sendRing = sky_send_ring_wipe(0)
        /\ Wiped("ON", x, 1).rcvRing = sky_rcv_ring_wipe(0)
        /\ Wiped("ON", x, 1).arq_state_flag = "ON"
        /\ Wiped("ON", x, 1).arq_session_identifier = x
    <3>1. "ON" \in ArqStates /\ x \in Identifiers \cup {0} /\ 1 \in 0 .. 1
      BY <2>1 DEF ArqStates
    <3> HIDE DEF x
    <3> QED BY <3>1, WipedChannel
  <2>4. v.arq_state_flag \in {"OFF", "IN_INIT", "ON"}
    BY ChannelFields DEF ArqStates
  <2> HIDE DEF s, x, after
  <2>5. CASE HandshakeWipes(v, f)
    <3>1. after = Wiped("ON", x, 1)
      BY <2>1, <2>2, <2>4, <2>5 DEF sky_vc_handle_handshake, sky_vc_wipe_to_arq_on_state
    <3> QED BY <1>2, <2>1, <2>3, <2>5, <3>1 DEF after, x
  <2>6. CASE ~HandshakeWipes(v, f)
    <3>1. CASE v.arq_state_flag = "IN_INIT" /\ x # v.arq_session_identifier
      <4>1. after = v
        BY <2>1, <2>2, <2>6, <3>1 DEF sky_vc_handle_handshake
      <4> QED BY <1>2, <2>2, <2>6, <3>1, <4>1 DEF after
    <3>2. CASE v.arq_state_flag = "IN_INIT" /\ x = v.arq_session_identifier
      <4>1. after = [v EXCEPT !.arq_state_flag = "ON", !.handshake_send = 0]
        BY <2>1, <3>2 DEF sky_vc_handle_handshake
      <4>2. 0 \in 0 .. 1 /\ "ON" \in ArqStates
        BY DEF ArqStates
      <4>3. after \in SkyVirtualChannel
        BY <4>1, <4>2, Zenon DEF SkyVirtualChannel
      <4>4. /\ after.sendRing = v.sendRing /\ after.rcvRing = v.rcvRing
            /\ after.arq_session_identifier = v.arq_session_identifier
            /\ after.arq_state_flag = "ON" /\ after.handshake_send = 0
        BY <4>1 DEF SkyVirtualChannel
      <4> QED BY <1>2, <2>2, <2>6, <3>2, <4>3, <4>4 DEF after
    <3>3. CASE v.arq_state_flag = "ON" /\ x = v.arq_session_identifier
      <4> DEFINE send == IF s = "IN_INIT" THEN 1 ELSE 0
      <4>1. after = [v EXCEPT !.handshake_send = send]
        BY <2>1, <3>3 DEF sky_vc_handle_handshake
      <4>2. send \in 0 .. 1 /\ (send = 0 \/ s = "IN_INIT")
        OBVIOUS
      <4> HIDE DEF send
      <4>3. after \in SkyVirtualChannel
        BY <4>1, <4>2, Zenon DEF SkyVirtualChannel
      <4>4. /\ after.sendRing = v.sendRing /\ after.rcvRing = v.rcvRing
            /\ after.arq_session_identifier = v.arq_session_identifier
            /\ after.arq_state_flag = v.arq_state_flag /\ after.handshake_send = send
        BY <4>1 DEF SkyVirtualChannel
      <4> QED BY <1>2, <2>2, <2>6, <3>3, <4>2, <4>3, <4>4 DEF after, s
    <3> QED BY <2>2, <2>4, <2>6, <3>1, <3>2, <3>3
  <2> QED BY <2>5, <2>6
<1> QED BY <1>1, <1>2


\* The parts of the invariant at one end.
LEMMA EndFacts ==
  ASSUME LinkInv, NEW n \in Node
  PROVE  /\ vc[n] \in SkyVirtualChannel /\ radio[n] \in Seq(Frame) /\ clock[n] \in Nat
         /\ pushed[n] \in 0 .. MaxPush /\ pushed[n] \in Nat
         /\ origin[n] \in 0 .. MaxPush /\ origin[n] \in Nat
         /\ lastRead[n] \in 0 .. MaxPush /\ lastRead[n] \in Nat
         /\ SendInv(vc[n].sendRing, pushed[n], origin[n])
         /\ vc[n].arq_state_flag # "OFF" =>
              /\ vc[n].arq_session_identifier \in Identifiers
              /\ Wire(vc[n].arq_session_identifier) \in Identifiers
<1>1. \A x \in 0 .. MaxPush : x \in Nat
  BY LinkConstants
<1> QED BY <1>1, WireReverses DEF LinkInv, TypeOK

\* A step of one end keeps the invariant.
LEMMA EndStep ==
  ASSUME LinkInv, TypeOK', NEW n \in Node, NEW v \in SkyVirtualChannel,
         vc' = [vc EXCEPT ![n] = v],
         \A m \in Node : m # n => pushed'[m] = pushed[m] /\ origin'[m] = origin[m],
         SendInv(v.sendRing, pushed'[n], origin'[n]),
         v.arq_state_flag # "OFF" => v.arq_session_identifier \in Identifiers
  PROVE  LinkInv'
<1>1. vc \in [Node -> SkyVirtualChannel]
  BY DEF LinkInv, TypeOK
<1>2. \A m \in Node : vc'[m] = IF m = n THEN v ELSE vc[m]
  BY <1>1
<1> SUFFICES ASSUME NEW m \in Node
             PROVE  /\ SendInv(vc'[m].sendRing, pushed'[m], origin'[m])
                    /\ vc'[m].arq_state_flag # "OFF" => vc'[m].arq_session_identifier \in Identifiers
  BY DEF LinkInv
<1>3. CASE m = n
  BY <1>2, <1>3
<1>4. CASE m # n
  BY <1>2, <1>4 DEF LinkInv
<1> QED BY <1>3, <1>4

\* Every end starts with empty rings.
LEMMA LinkInit ==
  ASSUME Init
  PROVE  LinkInv
<1>1. 0 \in Nat /\ 0 \in 0 .. MaxPush /\ <<>> \in Seq(Frame)
  BY LinkConstants
<1>2. "OFF" \in ArqStates /\ 0 \in Identifiers \cup {0} /\ 0 \in 0 .. 1
  BY DEF ArqStates
<1>3. /\ sky_vc_wipe_to_arq_off_state \in SkyVirtualChannel
      /\ sky_vc_wipe_to_arq_off_state.sendRing = sky_send_ring_wipe(0)
      /\ sky_vc_wipe_to_arq_off_state.arq_state_flag = "OFF"
  BY <1>2, WipedChannel DEF sky_vc_wipe_to_arq_off_state
<1>4. SendInv(sky_send_ring_wipe(0), 0, 0)
  BY <1>1, SendWiped
<1>5. TypeOK
  BY <1>1, <1>3 DEF Init, TypeOK
<1>6. \A n \in Node : /\ vc[n] = sky_vc_wipe_to_arq_off_state /\ pushed[n] = 0 /\ origin[n] = 0
  BY DEF Init
<1> QED BY <1>3, <1>4, <1>5, <1>6 DEF LinkInv

\* The books of an end that starts over.
LEMMA RestartBooks ==
  ASSUME LinkInv, NEW n \in Node, Restart(n)
  PROVE  /\ pushed' = pushed /\ pushed' \in [Node -> 0 .. MaxPush]
         /\ origin' \in [Node -> 0 .. MaxPush] /\ lastRead' \in [Node -> 0 .. MaxPush]
         /\ origin'[n] = pushed[n] /\ lastRead'[n] = 0
         /\ \A m \in Node : m # n => origin'[m] = origin[m] /\ lastRead'[m] = lastRead[m]
         /\ SendInv(sky_send_ring_wipe(0), pushed'[n], origin'[n])
<1>1. /\ pushed \in [Node -> 0 .. MaxPush] /\ origin \in [Node -> 0 .. MaxPush]
      /\ lastRead \in [Node -> 0 .. MaxPush] /\ 0 \in 0 .. MaxPush
  BY LinkConstants DEF LinkInv, TypeOK
<1>2. /\ pushed' = pushed /\ pushed' \in [Node -> 0 .. MaxPush]
      /\ origin' \in [Node -> 0 .. MaxPush] /\ lastRead' \in [Node -> 0 .. MaxPush]
      /\ origin'[n] = pushed[n] /\ lastRead'[n] = 0
      /\ \A m \in Node : m # n => origin'[m] = origin[m] /\ lastRead'[m] = lastRead[m]
  BY <1>1 DEF Restart
<1>3. pushed[n] \in Nat
  BY EndFacts
<1> QED BY <1>2, <1>3, SendWiped

\* The application pushes a packet.
LEMMA LinkPush ==
  ASSUME LinkInv, NEW n \in Node, Push(n)
  PROVE  LinkInv'
<1> DEFINE ring == sendRing_push_packet_to_send(vc[n].sendRing, pushed[n] + 1)
           v == [vc[n] EXCEPT !.sendRing = ring]
<1>1. /\ vc[n] \in SkyVirtualChannel /\ pushed[n] \in Nat /\ origin[n] \in Nat
      /\ SendInv(vc[n].sendRing, pushed[n], origin[n])
  BY EndFacts
<1>2. pushed[n] + 1 \in 0 .. MaxPush /\ pushed[n] + 1 \in Idx
  BY <1>1, LinkConstants DEF Push
<1>3. SendInv(ring, pushed[n] + 1, origin[n])
  BY <1>1, <1>2, SendPushed DEF Push, CanPush
<1>4. vc' = [vc EXCEPT ![n] = v]
  BY <1>1 DEF Push, sky_vc_push_packet_to_send, SkyVirtualChannel, LinkInv, TypeOK
<1>5. ring \in SkySendRing
  BY <1>3 DEF SendInv
<1> HIDE DEF ring
<1>6. /\ v \in SkyVirtualChannel /\ v.sendRing = ring
      /\ v.arq_state_flag = vc[n].arq_state_flag
      /\ v.arq_session_identifier = vc[n].arq_session_identifier
  BY <1>1, <1>5 DEF SkyVirtualChannel
<1> HIDE DEF v
<1>7. /\ pushed' \in [Node -> 0 .. MaxPush] /\ pushed'[n] = pushed[n] + 1
      /\ origin' = origin /\ \A m \in Node : m # n => pushed'[m] = pushed[m]
  BY <1>2 DEF Push, LinkInv, TypeOK
<1>8. TypeOK'
  BY <1>4, <1>6, <1>7 DEF Push, LinkInv, TypeOK
<1>9. v.arq_state_flag # "OFF" => v.arq_session_identifier \in Identifiers
  BY <1>6, EndFacts
<1> QED BY <1>3, <1>4, <1>6, <1>7, <1>8, <1>9, EndStep

\* The application reads a packet.
LEMMA LinkRead ==
  ASSUME LinkInv, NEW n \in Node, Read(n)
  PROVE  LinkInv'
<1> DEFINE ring == rcvRing_read_next_received(vc[n].rcvRing)
           v == [vc[n] EXCEPT !.rcvRing = ring]
<1>1. /\ vc[n] \in SkyVirtualChannel /\ pushed[n] \in Nat /\ origin[n] \in Nat
      /\ SendInv(vc[n].sendRing, pushed[n], origin[n])
  BY EndFacts
<1>2. ring \in SkyRcvRing
  BY <1>1, ChannelFields, ReadType
<1>3. vc' = [vc EXCEPT ![n] = v]
  BY <1>1 DEF Read, SkyVirtualChannel, LinkInv, TypeOK
<1> HIDE DEF ring
<1>4. /\ v \in SkyVirtualChannel /\ v.sendRing = vc[n].sendRing
      /\ v.arq_state_flag = vc[n].arq_state_flag
      /\ v.arq_session_identifier = vc[n].arq_session_identifier
  BY <1>1, <1>2 DEF SkyVirtualChannel
<1> HIDE DEF v
<1>5. lastRead' \in [Node -> 0 .. MaxPush]
  <2>1. Idx \cup {EB_NULL_IDX} \subseteq 0 .. MaxPush
    BY LinkConstants
  <2>2. vc[n].rcvRing.buff[vc[n].rcvRing.tail] \in RingItem
    BY <1>1, ChannelFields, RcvFields
  <2>3. vc[n].rcvRing.buff[vc[n].rcvRing.tail].idx \in 0 .. MaxPush
    BY <2>1, <2>2 DEF RingItem
  <2> QED BY <2>3 DEF Read, LinkInv, TypeOK
<1>6. TypeOK' /\ pushed' = pushed /\ origin' = origin
  BY <1>3, <1>4, <1>5 DEF Read, LinkInv, TypeOK
<1>7. v.arq_state_flag # "OFF" => v.arq_session_identifier \in Identifiers
  BY <1>4, EndFacts
<1> QED BY <1>1, <1>3, <1>4, <1>6, <1>7, EndStep


\* The application connects.
LEMMA LinkConnect ==
  ASSUME LinkInv, NEW n \in Node, Connect(n)
  PROVE  LinkInv'
<1>1. PICK time \in ConnectTicks[n] :
        /\ time > clock[n] /\ clock' = [clock EXCEPT ![n] = time]
        /\ vc' = [vc EXCEPT ![n] = sky_vc_wipe_to_arq_init_state(Tick(time))]
  BY DEF Connect
<1> DEFINE identifier == Tick(time)
<1>2. identifier \in Identifiers /\ time \in Nat
  BY LinkConstants, TickIdentifies
<1> HIDE DEF identifier
<1> DEFINE v == sky_vc_wipe_to_arq_init_state(identifier)
<1>3. "IN_INIT" \in ArqStates /\ identifier \in Identifiers \cup {0} /\ 0 \in 0 .. 1
  BY <1>2 DEF ArqStates
<1>4. /\ v \in SkyVirtualChannel /\ v.sendRing = sky_send_ring_wipe(0)
      /\ v.arq_session_identifier = identifier
  BY <1>3, WipedChannel DEF sky_vc_wipe_to_arq_init_state
<1> HIDE DEF v
<1>5. Restart(n)
  BY DEF Connect
<1>6. /\ pushed' = pushed /\ pushed' \in [Node -> 0 .. MaxPush]
      /\ origin' \in [Node -> 0 .. MaxPush] /\ lastRead' \in [Node -> 0 .. MaxPush]
      /\ \A m \in Node : m # n => origin'[m] = origin[m]
      /\ SendInv(sky_send_ring_wipe(0), pushed'[n], origin'[n])
  BY <1>5, RestartBooks
<1>7. vc' = [vc EXCEPT ![n] = v]
  BY <1>1 DEF v, identifier
<1>8. TypeOK'
  BY ZenonT(40), <1>1, <1>2, <1>4, <1>6, <1>7 DEF Connect, LinkInv, TypeOK
<1> QED BY <1>2, <1>4, <1>6, <1>7, <1>8, EndStep

\* The application disconnects, or a timeout passes.
LEMMA LinkDisconnect ==
  ASSUME LinkInv, NEW n \in Node, Disconnect(n)
  PROVE  LinkInv'
<1> DEFINE v == sky_vc_wipe_to_arq_off_state
<1>1. "OFF" \in ArqStates /\ 0 \in Identifiers \cup {0} /\ 0 \in 0 .. 1
  BY DEF ArqStates
<1>2. /\ v \in SkyVirtualChannel /\ v.sendRing = sky_send_ring_wipe(0)
      /\ v.arq_state_flag = "OFF"
  BY <1>1, WipedChannel DEF sky_vc_wipe_to_arq_off_state
<1>3. vc' = [vc EXCEPT ![n] = v] /\ Restart(n)
  BY DEF Disconnect
<1> HIDE DEF v
<1>4. /\ pushed' = pushed /\ pushed' \in [Node -> 0 .. MaxPush]
      /\ origin' \in [Node -> 0 .. MaxPush] /\ lastRead' \in [Node -> 0 .. MaxPush]
      /\ \A m \in Node : m # n => origin'[m] = origin[m]
      /\ SendInv(sky_send_ring_wipe(0), pushed'[n], origin'[n])
  BY <1>3, RestartBooks
<1>5. TypeOK'
  BY <1>2, <1>3, <1>4 DEF Disconnect, LinkInv, TypeOK
<1> QED BY <1>2, <1>3, <1>4, <1>5, EndStep

\* A channel fills a frame, whether or not the frame leaves.
LEMMA LinkFill ==
  ASSUME LinkInv, NEW n \in Node, NEW w \in BOOLEAN, NEW i \in BOOLEAN,
         vc' = [vc EXCEPT ![n] = sky_vc_fill_frame(@, w, i)],
         radio' \in [Node -> Seq(Frame)],
         UNCHANGED <<clock, pushed, origin, lastRead, hungUp>>
  PROVE  LinkInv'
<1> DEFINE v == sky_vc_fill_frame(vc[n], w, i)
<1>1. /\ vc[n] \in SkyVirtualChannel /\ pushed[n] \in Nat /\ origin[n] \in Nat
      /\ SendInv(vc[n].sendRing, pushed[n], origin[n])
  BY EndFacts
<1>2. vc' = [vc EXCEPT ![n] = v] /\ v = sky_vc_fill_frame(vc[n], w, i)
  BY DEF LinkInv, TypeOK
<1> HIDE DEF v
<1>3. /\ v \in SkyVirtualChannel /\ SendInv(v.sendRing, pushed[n], origin[n])
      /\ v.arq_state_flag = vc[n].arq_state_flag
      /\ v.arq_session_identifier = vc[n].arq_session_identifier
  BY <1>1, <1>2, FillState
<1>4. TypeOK'
  BY <1>2, <1>3 DEF LinkInv, TypeOK
<1>5. v.arq_state_flag # "OFF" => v.arq_session_identifier \in Identifiers
  BY <1>3, EndFacts
<1> QED BY <1>2, <1>3, <1>4, <1>5, EndStep

\* A channel transmits a frame.
LEMMA LinkTransmit ==
  ASSUME LinkInv, NEW n \in Node, NEW w \in BOOLEAN, NEW i \in BOOLEAN, Transmit(n, w, i)
  PROVE  LinkInv' /\ FilledFrame(vc[n], w, i) \in Frame
<1> DEFINE f == FilledFrame(vc[n], w, i)
           q == Append(radio[Peer(n)], f)
<1>1. /\ vc[n] \in SkyVirtualChannel /\ pushed[n] \in Nat /\ origin[n] \in Nat
      /\ SendInv(vc[n].sendRing, pushed[n], origin[n]) /\ 1 .. pushed[n] \subseteq Idx
      /\ vc[n].arq_state_flag # "OFF" => Wire(vc[n].arq_session_identifier) \in Identifiers
  BY EndFacts, LinkConstants
<1>2. f \in Frame
  BY <1>1, FrameFilled
<1>3. radio[Peer(n)] \in Seq(Frame) /\ radio \in [Node -> Seq(Frame)] /\ Peer(n) \in Node
  BY EndFacts, LinkConstants DEF LinkInv, TypeOK
<1>4. radio' = [radio EXCEPT ![Peer(n)] = q]
  BY <1>3 DEF Transmit
<1> HIDE DEF f
<1>5. q \in Seq(Frame)
  BY <1>2, <1>3
<1> HIDE DEF q
<1>6. radio' \in [Node -> Seq(Frame)]
  BY <1>3, <1>4, <1>5
<1>7. /\ vc' = [vc EXCEPT ![n] = sky_vc_fill_frame(@, w, i)]
      /\ UNCHANGED <<clock, pushed, origin, lastRead, hungUp>>
  BY DEF Transmit
<1>8. LinkInv'
  BY <1>6, <1>7, LinkFill
<1> QED BY <1>2, <1>8 DEF f

\* A frame leaves the radio.
LEMMA FrameLeaves ==
  ASSUME LinkInv, NEW n \in Node, radio[n] # <<>>,
         radio' = [radio EXCEPT ![n] = Tail(@)]
  PROVE  /\ radio' \in [Node -> Seq(Frame)] /\ Head(radio[n]) \in Frame
         /\ radio'[n] = Tail(radio[n]) /\ \A m \in Node : m # n => radio'[m] = radio[m]
<1>1. radio[n] \in Seq(Frame) /\ radio \in [Node -> Seq(Frame)]
  BY EndFacts DEF LinkInv, TypeOK
<1>2. Head(radio[n]) \in Frame /\ Tail(radio[n]) \in Seq(Frame)
  BY <1>1
<1> QED BY <1>1, <1>2

\* A channel receives a frame.
LEMMA LinkReceive ==
  ASSUME LinkInv, NEW n \in Node, Receive(n)
  PROVE  LinkInv'
<1> DEFINE f == Head(radio[n])
           u == Shaken(vc[n], f)
           v == Processed(u, f)
<1>1. /\ radio' \in [Node -> Seq(Frame)] /\ f \in Frame
  BY FrameLeaves DEF Receive
<1>2. vc' = [vc EXCEPT ![n] = v]
  <2>1. vc' = [vc EXCEPT ![n] = sky_vc_process_frame(vc[n], f)]
    BY DEF Receive, LinkInv, TypeOK
  <2>2. sky_vc_process_frame(vc[n], f) = v
    BY ShakenThenProcessed
  <2> HIDE DEF f, v
  <2> QED BY <2>1, <2>2
<1>3. /\ pushed' = pushed /\ pushed'[n] \in Nat /\ pushed' \in [Node -> 0 .. MaxPush]
      /\ origin' \in [Node -> 0 .. MaxPush] /\ lastRead' \in [Node -> 0 .. MaxPush]
      /\ origin'[n] \in Nat
      /\ \A m \in Node : m # n => origin'[m] = origin[m]
      /\ u \in SkyVirtualChannel /\ SendInv(u.sendRing, pushed'[n], origin'[n])
      /\ u.arq_state_flag # "OFF" => u.arq_session_identifier \in Identifiers
  <2>1. vc[n] \in SkyVirtualChannel
    BY EndFacts
  <2>2. \A x \in 0 .. MaxPush : x \in Nat
    OBVIOUS
  <2>3. CASE HandshakeWipes(vc[n], f)
    <3>1. Restart(n)
      BY <2>3 DEF Receive
    <3>2. /\ u \in SkyVirtualChannel /\ u.sendRing = sky_send_ring_wipe(0)
          /\ u.arq_session_identifier \in Identifiers
      BY <1>1, <2>1, <2>3, HandshakeTaken
    <3> QED BY <2>2, <3>1, <3>2, RestartBooks
  <2>4. CASE ~HandshakeWipes(vc[n], f)
    <3>1. pushed' = pushed /\ origin' = origin /\ lastRead' = lastRead
      BY <2>4 DEF Receive
    <3>2. /\ u \in SkyVirtualChannel /\ u.sendRing = vc[n].sendRing
          /\ u.arq_session_identifier = vc[n].arq_session_identifier
          /\ vc[n].arq_state_flag = "OFF" => u.arq_state_flag = "OFF"
      BY <1>1, <2>1, <2>4, HandshakeTaken
    <3> HIDE DEF u, f
    <3>3. /\ pushed \in [Node -> 0 .. MaxPush] /\ origin \in [Node -> 0 .. MaxPush]
          /\ lastRead \in [Node -> 0 .. MaxPush]
      BY DEF LinkInv, TypeOK
    <3>4. /\ SendInv(u.sendRing, pushed'[n], origin'[n])
          /\ pushed'[n] \in Nat /\ origin'[n] \in Nat
      BY <3>1, <3>2, EndFacts
    <3>5. u.arq_state_flag # "OFF" => u.arq_session_identifier \in Identifiers
      BY <3>2, EndFacts
    <3> QED BY <3>1, <3>2, <3>3, <3>4, <3>5
  <2> QED BY <2>3, <2>4
<1> HIDE DEF u
<1>4. /\ v \in SkyVirtualChannel /\ SameSession(u, v)
      /\ SenderMoves(u.sendRing, v.sendRing, f, pushed'[n], origin'[n])
  BY <1>1, <1>3, FrameProcessed
<1> HIDE DEF v, f
<1>5. TypeOK'
  BY <1>1, <1>2, <1>3, <1>4 DEF Receive, LinkInv, TypeOK
<1>6. v.arq_state_flag # "OFF" => v.arq_session_identifier \in Identifiers
  BY <1>3, <1>4 DEF SameSession
<1>7. \A m \in Node : m # n => pushed'[m] = pushed[m] /\ origin'[m] = origin[m]
  BY <1>3
<1> QED BY <1>2, <1>4, <1>5, <1>6, <1>7, EndStep DEF SenderMoves

\* Every step keeps the invariant.
LEMMA LinkNext ==
  ASSUME LinkInv, [Next]_vars
  PROVE  LinkInv'
<1>1. ASSUME NEW n \in Talkers, Push(n)
      PROVE  LinkInv'
  BY <1>1, LinkPush, LinkConstants
<1>2. ASSUME NEW n \in Quitters, Disconnect(n)
      PROVE  LinkInv'
  BY <1>2, LinkDisconnect, LinkConstants
<1>3. ASSUME NEW n \in Node, Connect(n)
      PROVE  LinkInv'
  BY <1>3, LinkConnect
<1>4. ASSUME NEW n \in Node, Read(n)
      PROVE  LinkInv'
  BY <1>4, LinkRead
<1>5. ASSUME NEW n \in Node, Receive(n)
      PROVE  LinkInv'
  BY <1>5, LinkReceive
<1>6. ASSUME NEW n \in Node, Lose(n)
      PROVE  LinkInv'
  <2>1. radio' \in [Node -> Seq(Frame)]
    BY <1>6, FrameLeaves DEF Lose
  <2> QED BY <1>6, <2>1 DEF Lose, LinkInv, TypeOK
<1>7. ASSUME NEW n \in Node, NEW w \in BOOLEAN, NEW i \in BOOLEAN, Transmit(n, w, i)
      PROVE  LinkInv'
  BY <1>7, LinkTransmit
<1>8. ASSUME NEW n \in Node, NEW w \in BOOLEAN, NEW i \in BOOLEAN, TransmitFails(n, w, i)
      PROVE  LinkInv'
  <2>1. /\ vc' = [vc EXCEPT ![n] = sky_vc_fill_frame(@, w, i)]
        /\ radio' \in [Node -> Seq(Frame)]
        /\ UNCHANGED <<clock, pushed, origin, lastRead, hungUp>>
    BY <1>8 DEF TransmitFails, LinkInv, TypeOK
  <2> QED BY <2>1, LinkFill
<1>9. CASE UNCHANGED vars
  BY <1>9 DEF vars, LinkInv, TypeOK
<1> QED BY <1>1, <1>2, <1>3, <1>4, <1>5, <1>6, <1>7, <1>8, <1>9 DEF Next

\* The invariant holds throughout.
THEOREM LinkInvariant == Spec => []LinkInv
<1>1. Init => LinkInv
  BY LinkInit
<1>2. LinkInv /\ [Next]_vars => LinkInv'
  BY LinkNext
<1> QED BY <1>1, <1>2, PTL DEF Spec

\* The state of the link is well-typed whatever is pushed, lost, delayed, hung up
\* and connected: no number of a ring leaves its range, and no slot the ring.
THEOREM TypeCorrect == Spec => []TypeOK
<1>1. LinkInv => TypeOK
  BY DEF LinkInv
<1> QED BY <1>1, LinkInvariant, PTL


-----------------------------------------------------------------------------
(* One end connects. *)

\* The identifier of an end grows from one connection to the next: the tick does
\* not wrap between them.
Growing(n) == \A s, t \in ConnectTicks[n] : s < t => Tick(s) < Tick(t)

\* One end does all the connecting, with identifiers that grow, and nobody hangs
\* up; and the windows of the two rings do not overlap in the range of the sequence
\* numbers.
OneConnects ==
  /\ Quitters = {}
  /\ \E n \in Node : ConnectTicks[n] = {}
  /\ \A n \in Node : Growing(n)
  /\ SendLen - 1 + HorizonWidth < SeqCount

\* The packet an end was given last; a session starts after packet o.
Base(last, o) == IF last = 0 THEN o ELSE last

\* A packet of a frame arrives while it is near the newest one delivered.
Near(x, k) == x <= k + SendLen - 2

\* A receive ring and the frames on their way to it, of which L are looked at.
RcvGood(ring, last, o, q, L) ==
  /\ RcvInv(ring, Base(last, o), o)
  /\ last = 0 \/ o < last
  /\ \A j \in L : Numbered(q[j]) =>
       /\ o < q[j].payload[1]
       /\ q[j].arq_sequence[1] = Num(q[j].payload[1] - 1 - o)
       /\ q[j].payload[1] <= Got(ring, Base(last, o)) + SendLen - 1
       /\ Near(Got(ring, Base(last, o)), q[j].payload[1])
       /\ \A x \in RcvRingHeld(ring) : Near(x, q[j].payload[1])
       /\ \A i \in L : i < j /\ Numbered(q[i]) => Near(q[i].payload[1], q[j].payload[1])

\* How many packets a control extension acknowledges.
AckedBy(f, send) == SeqMinus(f.arq_ctrl[1].rx_sequence, send.tail_sequence)

\* A send ring of an end that has pushed p packets, the receive ring of the peer,
\* the frames from the one to the other and the frames back.
Matched(send, p, o, ring, last, q, L, back, M) ==
  /\ RcvGood(ring, last, o, q, L)
  /\ Acked(send, p) <= Got(ring, Base(last, o))
  /\ Got(ring, Base(last, o)) <= Seen(send, p)
  /\ \A x \in RcvRingHeld(ring) : x <= Seen(send, p)
  /\ \A j \in L : Numbered(q[j]) => q[j].payload[1] <= Seen(send, p)
  /\ \A j \in M : back[j].arq_ctrl # <<>> =>
       /\ AckedBy(back[j], send) <= Got(ring, Base(last, o)) - Acked(send, p)
       /\ \A i \in M : i < j /\ back[i].arq_ctrl # <<>> =>
            AckedBy(back[i], send) <= AckedBy(back[j], send)

\* The bounds of a good receive ring.
LEMMA RcvBounds ==
  ASSUME NEW ring, NEW last \in Nat, NEW o \in Nat, NEW q, NEW L, RcvGood(ring, last, o, q, L)
  PROVE  /\ Base(last, o) \in Nat /\ RcvInv(ring, Base(last, o), o)
         /\ Got(ring, Base(last, o)) \in Nat /\ o <= Base(last, o)
         /\ Base(last, o) <= Got(ring, Base(last, o))
         /\ ring.head_sequence = Num(Got(ring, Base(last, o)) - o)
         /\ \A x \in RcvRingHeld(ring) : x \in Nat
<1>1. Base(last, o) \in Nat /\ RcvInv(ring, Base(last, o), o)
  BY DEF RcvGood, Base
<1> HIDE DEF Base
<1> QED BY <1>1, NewestHeld DEF RcvInv

\* What was in order stays in order for some of the frames, d places further up.
LEMMA RcvFewer ==
  ASSUME NEW ring, NEW last \in Nat, NEW o \in Nat, NEW q, NEW L, RcvGood(ring, last, o, q, L),
         L \subseteq Int, NEW d \in Int, NEW q2, NEW L2, L2 \subseteq Int,
         \A j \in L2 : j + d \in L /\ q2[j] = q[j + d]
  PROVE  RcvGood(ring, last, o, q2, L2)
<1> DEFINE G == Got(ring, Base(last, o))
<1> SUFFICES ASSUME NEW j \in L2, Numbered(q2[j])
             PROVE  /\ o < q2[j].payload[1]
                    /\ q2[j].arq_sequence[1] = Num(q2[j].payload[1] - 1 - o)
                    /\ q2[j].payload[1] <= G + SendLen - 1
                    /\ Near(G, q2[j].payload[1])
                    /\ \A x \in RcvRingHeld(ring) : Near(x, q2[j].payload[1])
                    /\ \A i \in L2 : i < j /\ Numbered(q2[i]) =>
                         Near(q2[i].payload[1], q2[j].payload[1])
  BY DEF RcvGood
<1>1. j + d \in L /\ q2[j] = q[j + d] /\ Numbered(q[j + d])
  OBVIOUS
<1>2. /\ o < q2[j].payload[1]
      /\ q2[j].arq_sequence[1] = Num(q2[j].payload[1] - 1 - o)
      /\ q2[j].payload[1] <= G + SendLen - 1
      /\ Near(G, q2[j].payload[1])
      /\ \A x \in RcvRingHeld(ring) : Near(x, q2[j].payload[1])
      /\ \A i \in L : i < j + d /\ Numbered(q[i]) => Near(q[i].payload[1], q2[j].payload[1])
  BY <1>1 DEF RcvGood
<1>3. ASSUME NEW i \in L2, i < j, Numbered(q2[i])
      PROVE  Near(q2[i].payload[1], q2[j].payload[1])
  <2>1. i + d \in L /\ q2[i] = q[i + d]
    BY <1>3
  <2>2. i \in Int /\ j \in Int
    BY <1>3
  <2>3. i + d < j + d
    BY <1>3, <2>2
  <2> QED BY <1>2, <1>3, <2>1, <2>3
<1> QED BY <1>2, <1>3

\* The frames at the places L2 of q2 are some of those at the places L of q, in
\* their order.
Part(q2, L2, q, L) ==
  /\ L \subseteq Int /\ L2 \subseteq Int
  /\ \E d \in Int : \A j \in L2 : j + d \in L /\ q2[j] = q[j + d]

\* Frames are among themselves.
LEMMA PartSame ==
  ASSUME NEW q, NEW L, L \subseteq Int
  PROVE  Part(q, L, q, L)
<1>1. 0 \in Int /\ \A j \in L : j + 0 = j
  OBVIOUS
<1>2. \A j \in L : j + 0 \in L /\ q[j] = q[j + 0]
  BY <1>1
<1> QED BY <1>1, <1>2, Zenon DEF Part

\* All frames but the first, one place further up.
LEMMA PartNext ==
  ASSUME NEW q, NEW L, L \subseteq Int, NEW q2, NEW L2, L2 \subseteq Int,
         \A j \in L2 : j + 1 \in L /\ q2[j] = q[j + 1]
  PROVE  Part(q2, L2, q, L)
<1>1. \E d \in Int : \A j \in L2 : j + d \in L /\ q2[j] = q[j + d]
  <2> WITNESS 1 \in Int
  <2> QED OBVIOUS
<1> QED BY <1>1 DEF Part

\* What was in order stays in order for some of the frames.
LEMMA RcvPart ==
  ASSUME NEW ring, NEW last \in Nat, NEW o \in Nat, NEW q, NEW L, RcvGood(ring, last, o, q, L),
         NEW q2, NEW L2, Part(q2, L2, q, L)
  PROVE  RcvGood(ring, last, o, q2, L2)
<1>1. PICK d \in Int : \A j \in L2 : j + d \in L /\ q2[j] = q[j + d]
  BY DEF Part
<1>2. L \subseteq Int /\ L2 \subseteq Int
  BY DEF Part
<1> QED BY <1>1, <1>2, RcvFewer

\* A receive ring grows by the packets X, which are near those on their way.
LEMMA RcvGrows ==
  ASSUME NEW ring, NEW last \in Nat, NEW o \in Nat, NEW q, NEW L, RcvGood(ring, last, o, q, L),
         NEW ring2, NEW last2 \in Nat, RcvInv(ring2, Base(last2, o), o), last2 = 0 \/ o < last2,
         NEW L2 \in SUBSET L, \A j \in L2 : Numbered(q[j]) => q[j].payload[1] \in Nat,
         NEW X, RcvRingHeld(ring2) \subseteq RcvRingHeld(ring) \cup X,
         \A x \in X : \A j \in L2 : Numbered(q[j]) => Near(x, q[j].payload[1]),
         Got(ring2, Base(last2, o)) >= Got(ring, Base(last, o)),
         Got(ring2, Base(last2, o)) \in {Got(ring, Base(last, o))} \cup RcvRingHeld(ring2)
  PROVE  RcvGood(ring2, last2, o, q, L2)
<1> DEFINE G == Got(ring, Base(last, o))
           G2 == Got(ring2, Base(last2, o))
<1>1. G \in Nat /\ Base(last2, o) \in Nat
  BY RcvBounds DEF Base
<1>2. G2 \in Nat
  BY <1>1, NewestHeld
<1> SUFFICES ASSUME NEW j \in L2, Numbered(q[j])
             PROVE  /\ o < q[j].payload[1]
                    /\ q[j].arq_sequence[1] = Num(q[j].payload[1] - 1 - o)
                    /\ q[j].payload[1] <= G2 + SendLen - 1
                    /\ Near(G2, q[j].payload[1])
                    /\ \A x \in RcvRingHeld(ring2) : Near(x, q[j].payload[1])
                    /\ \A i \in L2 : i < j /\ Numbered(q[i]) =>
                         Near(q[i].payload[1], q[j].payload[1])
  BY DEF RcvGood
<1>3. /\ o < q[j].payload[1]
      /\ q[j].arq_sequence[1] = Num(q[j].payload[1] - 1 - o)
      /\ q[j].payload[1] <= G + SendLen - 1
      /\ Near(G, q[j].payload[1])
      /\ \A x \in RcvRingHeld(ring) : Near(x, q[j].payload[1])
      /\ \A i \in L2 : i < j /\ Numbered(q[i]) => Near(q[i].payload[1], q[j].payload[1])
  BY DEF RcvGood
<1>4. \A x \in RcvRingHeld(ring2) : Near(x, q[j].payload[1])
  BY <1>3
<1>5. Near(G2, q[j].payload[1])
  BY <1>3, <1>4
<1>6. q[j].payload[1] <= G2 + SendLen - 1
  <2>1. q[j].payload[1] \in Nat /\ G2 >= G
    OBVIOUS
  <2> HIDE DEF G, G2
  <2> QED BY <1>1, <1>2, <1>3, <2>1, Constants
<1> QED BY <1>3, <1>4, <1>5, <1>6

\* What the newest packet of a receive ring that grew is.
LEMMA GotGrown ==
  ASSUME NEW ring, NEW base \in Nat, NEW o \in Nat, RcvInv(ring, base, o),
         NEW ring2, NEW base2 \in Nat, RcvInv(ring2, base2, o),
         base2 <= Got(ring, base), Got(ring2, base2) >= Got(ring, base)
  PROVE  Got(ring2, base2) \in {Got(ring, base)} \cup RcvRingHeld(ring2)
<1>1. Got(ring, base) \in Nat /\ Got(ring2, base2) \in Nat
  BY NewestHeld
<1>2. CASE Ready(ring2) = 0
  <2>1. Got(ring2, base2) = base2
    BY <1>2, NewestHeld
  <2> QED BY <1>1, <2>1
<1>3. CASE Ready(ring2) # 0
  BY <1>3, NewestHeld
<1> QED BY <1>2, <1>3

\* The distance of a packet on its way from the head tells the truth: what the
\* ring accepts lies as far ahead as its number says.
LEMMA AcceptedAhead ==
  ASSUME SendLen - 1 + HorizonWidth < SeqCount,
         NEW ring, NEW base \in Nat, NEW o \in Nat, RcvInv(ring, base, o),
         NEW k \in Nat, o < k, k <= Got(ring, base) + SendLen - 1, Near(Got(ring, base), k),
         NEW s, s = Num(k - 1 - o), Accepts(ring, s)
  PROVE  k = Got(ring, base) + AheadOfHead(ring, s) + 1
<1> DEFINE G == Got(ring, base)
           x == k - 1 - o
           y == G - o
<1>1. G \in Nat /\ o <= base /\ base <= G
  BY NewestHeld
<1>2. G <= k + SendLen - 2 /\ k <= G + SendLen - 1
  BY DEF Near
<1>3. ring.head_sequence = Num(y)
  BY DEF RcvInv
<1>4. AheadOfHead(ring, s) = SeqMinus(Num(x), Num(y))
  BY <1>3 DEF AheadOfHead
<1>5. AheadOfHead(ring, s) <= HorizonWidth
  BY DEF Accepts
<1> HIDE DEF G
<1>6. x \in Int /\ y \in Int /\ x - y = k - 1 - G /\ y - x = G - k + 1
  BY <1>1
<1> HIDE DEF x, y
<1>7. CASE y <= x
  <2>1. x - y < SeqCount
    BY <1>1, <1>2, <1>6, Constants
  <2>2. SeqMinus(Num(x), Num(y)) = x - y
    BY <1>6, <1>7, <2>1, NumMinus
  <2> QED BY <1>1, <1>4, <1>6, <2>2 DEF G
<1>8. CASE x < y
  <2>1. y - x <= SeqCount
    BY <1>1, <1>2, <1>6, Constants
  <2>2. SeqMinus(Num(x), Num(y)) = x - y + SeqCount
    BY <1>6, <1>8, <2>1, NumBehind
  <2> QED BY <1>1, <1>2, <1>4, <1>5, <1>6, <2>2, Constants
<1> QED BY <1>6, <1>7, <1>8

\* The frames a set of places of a sequence of frames holds.
LEMMA FramesAt ==
  ASSUME NEW q \in Seq(Frame), NEW L \in SUBSET DOMAIN q
  PROVE  /\ L \subseteq Int /\ \A j \in L : j >= 1 /\ q[j] \in Frame
         /\ \A j \in L : Numbered(q[j]) =>
              q[j].payload[1] \in Idx /\ q[j].payload[1] \in Nat /\ q[j].arq_sequence[1] \in Sequence
         /\ \A j \in L, s \in Sequence : q[j].arq_ctrl # <<>> =>
              q[j].arq_ctrl[1].rx_sequence \in Sequence
              /\ SeqMinus(q[j].arq_ctrl[1].rx_sequence, s) \in Nat
<1>1. L \subseteq Int /\ \A j \in L : j >= 1 /\ q[j] \in Frame
  OBVIOUS
<1>2. \A k \in Idx : k \in Nat
  BY LinkConstants
<1>3. ASSUME NEW j \in L, Numbered(q[j])
      PROVE  q[j].payload[1] \in Idx /\ q[j].payload[1] \in Nat /\ q[j].arq_sequence[1] \in Sequence
  <2>1. q[j] \in Frame
    BY <1>1
  <2>2. q[j].payload[1] \in Idx /\ q[j].arq_sequence[1] \in Sequence
    BY <1>3, <2>1, FrameFields DEF Numbered
  <2> QED BY <1>2, <2>2
<1>4. ASSUME NEW j \in L, NEW s \in Sequence, q[j].arq_ctrl # <<>>
      PROVE  q[j].arq_ctrl[1].rx_sequence \in Sequence
             /\ SeqMinus(q[j].arq_ctrl[1].rx_sequence, s) \in Nat
  <2>1. q[j] \in Frame
    BY <1>1
  <2>2. q[j].arq_ctrl[1].rx_sequence \in Sequence
    BY <1>4, <2>1, FrameFields
  <2>3. \A y \in Sequence : y \in Int
    BY DEF Sequence
  <2>4. SeqMinus(q[j].arq_ctrl[1].rx_sequence, s) \in Sequence
    BY <2>2, <2>3, SeqType
  <2> QED BY <2>2, <2>4, SeqType
<1> QED BY <1>1, <1>3, <1>4

\* A receive ring looks at the first frame on its way.
LEMMA RcvTakes ==
  ASSUME SendLen - 1 + HorizonWidth < SeqCount,
         NEW ring, NEW last \in Nat, NEW o \in Nat, NEW q \in Seq(Frame), NEW L \in SUBSET DOMAIN q,
         RcvGood(ring, last, o, q, L), 1 \in L, NEW ring2, ReceiverMoves(ring, ring2, q[1])
  PROVE  /\ RcvGood(ring2, last, o, q, L \ {1})
         /\ Got(ring2, Base(last, o)) >= Got(ring, Base(last, o))
         /\ Got(ring2, Base(last, o)) \in {Got(ring, Base(last, o))} \cup RcvRingHeld(ring2)
         /\ \A x \in RcvRingHeld(ring2) :
              x \in RcvRingHeld(ring) \/ (Numbered(q[1]) /\ x = q[1].payload[1])
<1> DEFINE base == Base(last, o)
           L2 == L \ {1}
<1>1. base \in Nat /\ RcvInv(ring, base, o) /\ Got(ring, base) \in Nat /\ base <= Got(ring, base)
  BY RcvBounds
<1>2. /\ \A j \in L : Numbered(q[j]) => q[j].payload[1] \in Nat
      /\ L \subseteq Int /\ L2 \in SUBSET L /\ \A j \in L2 : 1 < j
      /\ last = 0 \/ o < last
  <2>1. \A j \in L : Numbered(q[j]) => q[j].payload[1] \in Nat
    BY FramesAt
  <2> QED BY <2>1 DEF RcvGood
<1> HIDE DEF base
<1>3. CASE ring2 = ring
  <2>1. RcvGood(ring, last, o, q, L2)
    <3>1. \A j \in L2 : j + 0 \in L /\ q[j] = q[j + 0]
      BY <1>2
    <3>2. 0 \in Int /\ L2 \subseteq Int
      BY <1>2
    <3> HIDE DEF L2
    <3> QED BY <1>2, <3>1, <3>2, RcvFewer
  <2> QED BY <1>1, <1>3, <2>1 DEF base
<1>4. CASE ring2 # ring
  <2> DEFINE k == q[1].payload[1]
             s == q[1].arq_sequence[1]
             X == {k}
  <2>1. /\ Numbered(q[1]) /\ Accepts(ring, s)
        /\ ring2 = rcvRing_push_rx_packet(ring, k, s)
    BY <1>4 DEF ReceiverMoves
  <2>2. k \in Idx /\ k \in Nat /\ s \in Sequence
    BY <2>1, FramesAt
  <2>3. /\ o < k /\ s = Num(k - 1 - o) /\ k <= Got(ring, base) + SendLen - 1
        /\ Near(Got(ring, base), k)
    BY <2>1 DEF RcvGood, base
  <2>4. \A j \in L2 : Numbered(q[j]) => Near(k, q[j].payload[1])
    BY <1>2, <2>1 DEF RcvGood
  <2> HIDE DEF k, s
  <2>5. k = Got(ring, base) + AheadOfHead(ring, s) + 1
    BY <1>1, <2>1, <2>2, <2>3, AcceptedAhead
  <2>6. /\ RcvInv(ring2, base, o) /\ Got(ring2, base) >= Got(ring, base)
        /\ RcvRingHeld(ring2) \subseteq RcvRingHeld(ring) \cup {k}
    BY <1>1, <2>1, <2>2, <2>5, RcvPushed
  <2>7. Got(ring2, base) \in {Got(ring, base)} \cup RcvRingHeld(ring2)
    BY <1>1, <2>6, GotGrown
  <2>8. RcvGood(ring2, last, o, q, L2)
    <3>1. \A x \in X : \A j \in L2 : Numbered(q[j]) => Near(x, q[j].payload[1])
      BY <2>4
    <3>2. RcvRingHeld(ring2) \subseteq RcvRingHeld(ring) \cup X
      BY <2>6
    <3>3. \A j \in L2 : Numbered(q[j]) => q[j].payload[1] \in Nat
      BY <1>2
    <3> HIDE DEF X, L2
    <3> QED BY <1>2, <2>6, <2>7, <3>1, <3>2, <3>3, RcvGrows DEF base
  <2> QED BY <2>1, <2>6, <2>7, <2>8 DEF base, k
<1> QED BY <1>3, <1>4

\* Reading leaves a receive ring good.
LEMMA RcvReads ==
  ASSUME NEW ring, NEW last \in Nat, NEW o \in Nat, NEW q \in Seq(Frame), NEW L \in SUBSET DOMAIN q,
         RcvGood(ring, last, o, q, L), Ready(ring) # 0,
         NEW last2, last2 = ring.buff[ring.tail].idx,
         NEW ring2, ring2 = rcvRing_read_next_received(ring)
  PROVE  /\ last2 = Base(last, o) + 1
         /\ RcvGood(ring2, last2, o, q, L)
         /\ Got(ring2, Base(last2, o)) >= Got(ring, Base(last, o))
         /\ Got(ring2, Base(last2, o)) \in {Got(ring, Base(last, o))} \cup RcvRingHeld(ring2)
         /\ RcvRingHeld(ring2) \subseteq RcvRingHeld(ring)
<1> DEFINE base == Base(last, o)
<1>1. /\ base \in Nat /\ RcvInv(ring, base, o) /\ Got(ring, base) \in Nat
      /\ o <= base /\ base <= Got(ring, base)
  BY RcvBounds
<1>2. base + 1 <= Got(ring, base)
  <2>1. Ready(ring) \in 0 .. RcvLen - 1
    BY <1>1, RcvFields DEF RcvInv
  <2> QED BY <1>1, <2>1 DEF Got
<1> HIDE DEF base
<1>3. /\ last2 = base + 1 /\ RcvInv(ring2, base + 1, o)
      /\ Got(ring2, base + 1) >= Got(ring, base)
      /\ RcvRingHeld(ring2) \subseteq RcvRingHeld(ring)
  BY <1>1, RcvRead
<1>4. last2 \in Nat /\ o < last2 /\ Base(last2, o) = base + 1 /\ base + 1 \in Nat
  BY <1>1, <1>3 DEF Base
<1>5. Got(ring2, base + 1) \in {Got(ring, base)} \cup RcvRingHeld(ring2)
  BY <1>1, <1>2, <1>3, <1>4, GotGrown
<1>6. RcvGood(ring2, last2, o, q, L)
  <2> DEFINE X == {}
  <2>1. /\ RcvRingHeld(ring2) \subseteq RcvRingHeld(ring) \cup X
        /\ \A x \in X : \A j \in L : Numbered(q[j]) => Near(x, q[j].payload[1])
    BY <1>3
  <2>2. L \in SUBSET L /\ \A j \in L : Numbered(q[j]) => q[j].payload[1] \in Nat
    BY FramesAt
  <2> HIDE DEF X
  <2> QED BY <1>3, <1>4, <1>5, <2>1, <2>2, RcvGrows DEF base
<1> QED BY <1>3, <1>4, <1>5, <1>6 DEF base

\* The bounds of two rings that match.
LEMMA MatchedBounds ==
  ASSUME NEW send, NEW p \in Nat, NEW o \in Nat, SendInv(send, p, o), NEW ring, NEW last \in Nat,
         NEW q, NEW L, NEW back, NEW M, Matched(send, p, o, ring, last, q, L, back, M)
  PROVE  /\ Acked(send, p) \in Nat /\ Seen(send, p) \in Nat /\ Got(ring, Base(last, o)) \in Nat
         /\ o <= Acked(send, p) /\ Acked(send, p) <= Got(ring, Base(last, o))
         /\ Got(ring, Base(last, o)) <= Seen(send, p)
         /\ Seen(send, p) < Acked(send, p) + SendLen
         /\ \A x \in RcvRingHeld(ring) : x \in Nat /\ x <= Seen(send, p)
         /\ send.tail_sequence \in Sequence /\ send.tail_sequence = Num(Acked(send, p) - o)
         /\ ring.head_sequence = Num(Got(ring, Base(last, o)) - o)
<1>1. RcvGood(ring, last, o, q, L)
  BY DEF Matched
<1>2. /\ Got(ring, Base(last, o)) \in Nat
      /\ ring.head_sequence = Num(Got(ring, Base(last, o)) - o)
      /\ \A x \in RcvRingHeld(ring) : x \in Nat
  BY <1>1, RcvBounds
<1>3. send.tail_sequence \in Sequence /\ send.tail_sequence = Num(Acked(send, p) - o)
  BY SendFields DEF SendInv
<1>4. /\ Acked(send, p) \in Nat /\ Seen(send, p) \in Nat /\ o <= Acked(send, p)
      /\ Seen(send, p) < Acked(send, p) + SendLen
  BY SendOrder
<1> QED BY <1>2, <1>3, <1>4 DEF Matched

\* The numbers at the bounds of two rings that match.
LEMMA MatchedNumbers ==
  ASSUME NEW send, NEW p \in Nat, NEW o \in Nat, SendInv(send, p, o), NEW ring, NEW last \in Nat,
         NEW q, NEW L, NEW back, NEW M, Matched(send, p, o, ring, last, q, L, back, M)
  PROVE  /\ send.tail_sequence = Num(Acked(send, p) - o)
         /\ ring.head_sequence = Num(Got(ring, Base(last, o)) - o)
<1>1. RcvGood(ring, last, o, q, L)
  BY DEF Matched
<1>2. ring.head_sequence = Num(Got(ring, Base(last, o)) - o)
  BY <1>1, RcvBounds
<1>3. send.tail_sequence = Num(Acked(send, p) - o)
  BY SendFields DEF SendInv
<1> QED BY <1>2, <1>3

\* Packets are pushed or transmitted.
LEMMA SenderGrows ==
  ASSUME NEW send, NEW p \in Nat, NEW o \in Nat, SendInv(send, p, o), NEW ring, NEW last \in Nat,
         NEW q \in Seq(Frame), NEW L \in SUBSET DOMAIN q, NEW back, NEW M,
         Matched(send, p, o, ring, last, q, L, back, M),
         NEW send2, NEW p2 \in Nat, SendInv(send2, p2, o),
         Acked(send2, p2) = Acked(send, p), Seen(send2, p2) >= Seen(send, p),
         send2.tail_sequence = send.tail_sequence
  PROVE  Matched(send2, p2, o, ring, last, q, L, back, M)
<1>1. /\ Seen(send, p) \in Nat /\ Got(ring, Base(last, o)) \in Nat
      /\ Got(ring, Base(last, o)) <= Seen(send, p)
      /\ \A x \in RcvRingHeld(ring) : x \in Nat /\ x <= Seen(send, p)
  BY MatchedBounds
<1>2. Seen(send2, p2) \in Nat
  BY SendOrder
<1>3. \A x \in Nat : x <= Seen(send, p) => x <= Seen(send2, p2)
  BY <1>1, <1>2
<1>4. \A j \in L : Numbered(q[j]) => q[j].payload[1] \in Nat /\ q[j].payload[1] <= Seen(send, p)
  BY FramesAt DEF Matched
<1>5. \A j : AckedBy(back[j], send2) = AckedBy(back[j], send)
  BY DEF AckedBy
<1> QED BY <1>1, <1>3, <1>4, <1>5 DEF Matched

\* Frames that leave the radio without being looked at.
LEMMA MatchedPart ==
  ASSUME NEW send, NEW p, NEW o \in Nat, NEW ring, NEW last \in Nat,
         NEW q, NEW L, NEW back, NEW M, Matched(send, p, o, ring, last, q, L, back, M),
         NEW q2, NEW L2, Part(q2, L2, q, L), NEW back2, NEW M2, Part(back2, M2, back, M)
  PROVE  Matched(send, p, o, ring, last, q2, L2, back2, M2)
<1> DEFINE n == Got(ring, Base(last, o)) - Acked(send, p)
<1>1. PICK d \in Int : \A j \in L2 : j + d \in L /\ q2[j] = q[j + d]
  BY DEF Part
<1>2. PICK e \in Int : \A j \in M2 : j + e \in M /\ back2[j] = back[j + e]
  BY DEF Part
<1>3. M2 \subseteq Int
  BY DEF Part
<1>4. RcvGood(ring, last, o, q2, L2)
  BY RcvPart DEF Matched
<1>5. \A j \in L2 : Numbered(q2[j]) => q2[j].payload[1] <= Seen(send, p)
  <2> SUFFICES ASSUME NEW j \in L2, Numbered(q2[j])
               PROVE  q2[j].payload[1] <= Seen(send, p)
    OBVIOUS
  <2>1. j + d \in L /\ q2[j] = q[j + d]
    BY <1>1
  <2> QED BY <2>1 DEF Matched
<1>6. ASSUME NEW j \in M2, back2[j].arq_ctrl # <<>>
      PROVE  /\ AckedBy(back2[j], send) <= n
             /\ \A i \in M2 : i < j /\ back2[i].arq_ctrl # <<>> =>
                  AckedBy(back2[i], send) <= AckedBy(back2[j], send)
  <2>1. j + e \in M /\ back2[j] = back[j + e] /\ j \in Int
    BY <1>2, <1>3
  <2>2. /\ AckedBy(back2[j], send) <= n
        /\ \A i \in M : i < j + e /\ back[i].arq_ctrl # <<>> =>
             AckedBy(back[i], send) <= AckedBy(back2[j], send)
    BY <1>6, <2>1 DEF Matched
  <2>3. ASSUME NEW i \in M2, i < j, back2[i].arq_ctrl # <<>>
        PROVE  AckedBy(back2[i], send) <= AckedBy(back2[j], send)
    <3>1. i + e \in M /\ back2[i] = back[i + e] /\ i \in Int
      BY <1>2, <1>3
    <3>2. i + e < j + e
      BY <2>1, <2>3, <3>1
    <3> QED BY <2>2, <2>3, <3>1, <3>2
  <2> QED BY <2>2, <2>3
<1> QED BY <1>4, <1>5, <1>6 DEF Matched

\* The sender puts a frame on its way.
LEMMA FrameAppended ==
  ASSUME NEW send, NEW p \in Nat, NEW o \in Nat, SendInv(send, p, o), NEW ring, NEW last \in Nat,
         NEW q \in Seq(Frame), NEW L \in SUBSET DOMAIN q, NEW back, NEW M,
         Matched(send, p, o, ring, last, q, L, back, M), NEW f \in Frame,
         Numbered(f) => /\ Acked(send, p) < f.payload[1] /\ f.payload[1] <= Seen(send, p)
                        /\ f.arq_sequence[1] = Num(f.payload[1] - 1 - o),
         NEW q2, q2 = Append(q, f), NEW L2 \in SUBSET (L \cup {Len(q) + 1})
  PROVE  Matched(send, p, o, ring, last, q2, L2, back, M)
<1> DEFINE G == Got(ring, Base(last, o))
           m == Len(q) + 1
<1>1. /\ Acked(send, p) \in Nat /\ Seen(send, p) \in Nat /\ G \in Nat
      /\ o <= Acked(send, p) /\ Acked(send, p) <= G /\ G <= Seen(send, p)
      /\ Seen(send, p) < Acked(send, p) + SendLen
      /\ \A x \in RcvRingHeld(ring) : x \in Nat /\ x <= Seen(send, p)
  BY MatchedBounds
<1>2. /\ q2[m] = f /\ \A j \in L : q2[j] = q[j] /\ j < m /\ j \in Int
      /\ m \in Int /\ ~(m < m)
  OBVIOUS
<1>3. \A j \in L : Numbered(q[j]) => q[j].payload[1] \in Nat /\ q[j].payload[1] <= Seen(send, p)
  BY FramesAt DEF Matched
<1>4. ASSUME Numbered(f)
      PROVE  /\ o < f.payload[1] /\ f.payload[1] <= G + SendLen - 1
             /\ \A x \in Nat : x <= Seen(send, p) => Near(x, f.payload[1])
  <2>1. f.payload[1] \in Nat
    BY <1>4, FrameFields, LinkConstants DEF Numbered
  <2> DEFINE k == f.payload[1]
  <2>2. Acked(send, p) < k /\ k <= Seen(send, p)
    BY <1>4
  <2> HIDE DEF k, G
  <2>3. k \in Nat
    BY <2>1 DEF k
  <2>4. o < k /\ k <= G + SendLen - 1
    BY <1>1, <2>2, <2>3, Constants
  <2>5. \A x \in Nat : x <= Seen(send, p) => x <= k + SendLen - 2
    BY <1>1, <2>2, <2>3, Constants
  <2> QED BY <2>4, <2>5 DEF Near, k
<1> HIDE DEF m
<1>5. RcvGood(ring, last, o, q2, L2)
  <2>1. RcvGood(ring, last, o, q, L)
    BY DEF Matched
  <2>2. ASSUME NEW j \in L2, Numbered(q2[j])
        PROVE  /\ o < q2[j].payload[1]
               /\ q2[j].arq_sequence[1] = Num(q2[j].payload[1] - 1 - o)
               /\ q2[j].payload[1] <= G + SendLen - 1
               /\ Near(G, q2[j].payload[1])
               /\ \A x \in RcvRingHeld(ring) : Near(x, q2[j].payload[1])
               /\ \A i \in L2 : i < j /\ Numbered(q2[i]) =>
                    Near(q2[i].payload[1], q2[j].payload[1])
    <3>1. CASE j \in L
      <4>1. q2[j] = q[j]
        BY <1>2, <3>1
      <4>2. \A i \in L2 : i < j => i \in L /\ q2[i] = q[i]
        <5>1. ~(m < j)
          BY <1>2, <3>1
        <5>2. \A i \in L2 : i \in L \/ i = m
          BY DEF m
        <5> QED BY <1>2, <5>1, <5>2
      <4> QED BY <2>1, <2>2, <3>1, <4>1, <4>2 DEF RcvGood
    <3>2. CASE j \notin L
      <4>1. j = m /\ q2[j] = f
        BY <1>2, <3>2 DEF m
      <4>2. /\ o < f.payload[1] /\ f.payload[1] <= G + SendLen - 1
            /\ \A x \in Nat : x <= Seen(send, p) => Near(x, f.payload[1])
            /\ f.arq_sequence[1] = Num(f.payload[1] - 1 - o)
        BY <1>4, <2>2, <4>1
      <4>3. \A i \in L2 : i < j /\ Numbered(q2[i]) => Near(q2[i].payload[1], f.payload[1])
        <5> SUFFICES ASSUME NEW i \in L2, i < j, Numbered(q2[i])
                     PROVE  Near(q2[i].payload[1], f.payload[1])
          OBVIOUS
        <5>1. i \in L
          BY <1>2, <4>1 DEF m
        <5> QED BY <1>2, <1>3, <4>2, <5>1
      <4> QED BY <1>1, <4>1, <4>2, <4>3
    <3> QED BY <3>1, <3>2
  <2> QED BY <2>1, <2>2 DEF RcvGood
<1>6. \A j \in L2 : Numbered(q2[j]) => q2[j].payload[1] <= Seen(send, p)
  BY <1>2, <1>3 DEF m
<1> QED BY <1>5, <1>6 DEF Matched

\* The receiver puts a frame on its way back.
LEMMA AckAppended ==
  ASSUME NEW send, NEW p \in Nat, NEW o \in Nat, SendInv(send, p, o), NEW ring, NEW last \in Nat,
         NEW q, NEW L, NEW back \in Seq(Frame), NEW M \in SUBSET DOMAIN back,
         Matched(send, p, o, ring, last, q, L, back, M), NEW f,
         f.arq_ctrl # <<>> => f.arq_ctrl[1].rx_sequence = ring.head_sequence,
         NEW back2, back2 = Append(back, f), NEW M2 \in SUBSET (M \cup {Len(back) + 1})
  PROVE  Matched(send, p, o, ring, last, q, L, back2, M2)
<1> DEFINE G == Got(ring, Base(last, o))
           n == G - Acked(send, p)
           m == Len(back) + 1
<1>1. /\ Acked(send, p) \in Nat /\ Seen(send, p) \in Nat /\ G \in Nat
      /\ o <= Acked(send, p) /\ Acked(send, p) <= G /\ G <= Seen(send, p)
      /\ Seen(send, p) < Acked(send, p) + SendLen
      /\ send.tail_sequence = Num(Acked(send, p) - o)
      /\ ring.head_sequence = Num(G - o)
  <2>1. /\ Acked(send, p) \in Nat /\ Seen(send, p) \in Nat /\ G \in Nat
        /\ o <= Acked(send, p) /\ Acked(send, p) <= G /\ G <= Seen(send, p)
        /\ Seen(send, p) < Acked(send, p) + SendLen
    BY MatchedBounds
  <2>2. send.tail_sequence = Num(Acked(send, p) - o) /\ ring.head_sequence = Num(G - o)
    <3>1. send.tail_sequence = Num(Acked(send, p) - o)
      BY Zenon, MatchedNumbers
    <3>2. RcvGood(ring, last, o, q, L)
      BY DEF Matched
    <3>3. ring.head_sequence = Num(Got(ring, Base(last, o)) - o)
      BY <3>2, RcvBounds
    <3> QED BY <3>1, <3>3
  <2> QED BY <2>1, <2>2
<1>2. /\ back2[m] = f /\ \A j \in M : back2[j] = back[j] /\ j < m /\ j \in Int
      /\ m \in Int /\ ~(m < m)
  OBVIOUS
<1>3. f.arq_ctrl # <<>> => AckedBy(f, send) = n
  <2> DEFINE x == G - o
             y == Acked(send, p) - o
  <2>1. x \in Int /\ y \in Int /\ y <= x /\ x - y < SeqCount /\ x - y = n
    <3> DEFINE a == Acked(send, p)
    <3>1. a \in Nat /\ G \in Nat /\ a <= G /\ G < a + SendLen
      BY <1>1, Constants
    <3>2. SendLen \in Nat /\ SendLen <= SeqCount /\ SeqCount \in Nat
      BY Constants
    <3> HIDE DEF G, a
    <3>3. G - o \in Int /\ a - o \in Int /\ a - o <= G - o
          /\ (G - o) - (a - o) < SeqCount /\ (G - o) - (a - o) = G - a
      BY <3>1, <3>2
    <3> QED BY <3>3 DEF a
  <2>2. f.arq_ctrl # <<>> => AckedBy(f, send) = SeqMinus(Num(x), Num(y))
    BY <1>1 DEF AckedBy
  <2> HIDE DEF x, y, n
  <2> QED BY <2>1, <2>2, NumMinus
<1> HIDE DEF n
<1>4. n \in Int
  BY <1>1 DEF n
<1>5. \A j \in M : back[j].arq_ctrl # <<>> =>
        /\ AckedBy(back[j], send) <= n
        /\ \A i \in M : i < j /\ back[i].arq_ctrl # <<>> =>
             AckedBy(back[i], send) <= AckedBy(back[j], send)
  BY DEF Matched, n
<1> HIDE DEF m
<1>6. ASSUME NEW j \in M2, back2[j].arq_ctrl # <<>>
      PROVE  /\ AckedBy(back2[j], send) <= n
             /\ \A i \in M2 : i < j /\ back2[i].arq_ctrl # <<>> =>
                  AckedBy(back2[i], send) <= AckedBy(back2[j], send)
  <2>1. \A i \in M2 : i < j => i \in M /\ back2[i] = back[i]
    <3>1. ~(m < j)
      BY <1>2 DEF m
    <3>2. \A i \in M2 : i \in M \/ i = m
      BY DEF m
    <3> QED BY <1>2, <3>1, <3>2
  <2>2. CASE j \in M
    <3>1. back2[j] = back[j]
      BY <1>2, <2>2
    <3> QED BY <1>5, <1>6, <2>1, <2>2, <3>1
  <2>3. CASE j \notin M
    <3>1. back2[j] = f
      BY <1>2, <2>3 DEF m
    <3>2. AckedBy(back2[j], send) = n
      BY <1>3, <1>6, <3>1
    <3> QED BY <1>4, <1>5, <2>1, <3>2
  <2> QED BY <2>2, <2>3
<1>7. \A j \in M2 : back2[j].arq_ctrl # <<>> =>
        /\ AckedBy(back2[j], send) <= Got(ring, Base(last, o)) - Acked(send, p)
        /\ \A i \in M2 : i < j /\ back2[i].arq_ctrl # <<>> =>
             AckedBy(back2[i], send) <= AckedBy(back2[j], send)
  BY <1>6 DEF n
<1> QED BY <1>7 DEF Matched

\* The receiver's ring grows by packets the sender has transmitted.
LEMMA ReceiverGrows ==
  ASSUME NEW send, NEW p \in Nat, NEW o \in Nat, SendInv(send, p, o), NEW ring, NEW last \in Nat,
         NEW q, NEW L, NEW back \in Seq(Frame), NEW M \in SUBSET DOMAIN back,
         Matched(send, p, o, ring, last, q, L, back, M),
         NEW ring2, NEW last2 \in Nat, NEW L2 \in SUBSET L, RcvGood(ring2, last2, o, q, L2),
         Got(ring2, Base(last2, o)) >= Got(ring, Base(last, o)),
         Got(ring2, Base(last2, o)) \in {Got(ring, Base(last, o))} \cup RcvRingHeld(ring2),
         \A x \in RcvRingHeld(ring2) : x \in RcvRingHeld(ring) \/ x <= Seen(send, p)
  PROVE  Matched(send, p, o, ring2, last2, q, L2, back, M)
<1> DEFINE G == Got(ring, Base(last, o))
           G2 == Got(ring2, Base(last2, o))
<1>1. /\ Acked(send, p) \in Nat /\ Seen(send, p) \in Nat /\ G \in Nat
      /\ Acked(send, p) <= G /\ G <= Seen(send, p)
      /\ \A x \in RcvRingHeld(ring) : x \in Nat /\ x <= Seen(send, p)
  BY MatchedBounds
<1>2. send.tail_sequence \in Sequence
  BY MatchedBounds
<1>3. G2 \in Nat
  BY RcvBounds
<1>4. \A x \in RcvRingHeld(ring2) : x <= Seen(send, p)
  BY <1>1
<1>5. G2 >= G /\ G2 <= Seen(send, p)
  BY <1>1, <1>4
<1> HIDE DEF G, G2
<1>6. Acked(send, p) <= G2 /\ \A y \in Nat : y <= G - Acked(send, p) => y <= G2 - Acked(send, p)
  BY <1>1, <1>3, <1>5
<1>7. \A j \in M : back[j].arq_ctrl # <<>> => AckedBy(back[j], send) \in Nat
  BY <1>2, FramesAt DEF AckedBy
<1>8. \A j \in M : back[j].arq_ctrl # <<>> =>
        /\ AckedBy(back[j], send) <= G2 - Acked(send, p)
        /\ \A i \in M : i < j /\ back[i].arq_ctrl # <<>> =>
             AckedBy(back[i], send) <= AckedBy(back[j], send)
  BY <1>6, <1>7 DEF Matched, G
<1>9. \A j \in L2 : Numbered(q[j]) => q[j].payload[1] <= Seen(send, p)
  BY DEF Matched
<1> QED BY <1>4, <1>5, <1>6, <1>8, <1>9 DEF Matched, G2

\* The receiver looks at the first frame on its way.
LEMMA ReceiverTakes ==
  ASSUME SendLen - 1 + HorizonWidth < SeqCount,
         NEW send, NEW p \in Nat, NEW o \in Nat, SendInv(send, p, o), NEW ring, NEW last \in Nat,
         NEW q \in Seq(Frame), NEW L \in SUBSET DOMAIN q,
         NEW back \in Seq(Frame), NEW M \in SUBSET DOMAIN back,
         Matched(send, p, o, ring, last, q, L, back, M), 1 \in L,
         NEW ring2, ReceiverMoves(ring, ring2, q[1])
  PROVE  Matched(send, p, o, ring2, last, q, L \ {1}, back, M)
<1>1. RcvGood(ring, last, o, q, L)
  BY DEF Matched
<1>2. /\ RcvGood(ring2, last, o, q, L \ {1})
      /\ Got(ring2, Base(last, o)) >= Got(ring, Base(last, o))
      /\ Got(ring2, Base(last, o)) \in {Got(ring, Base(last, o))} \cup RcvRingHeld(ring2)
      /\ \A x \in RcvRingHeld(ring2) :
           x \in RcvRingHeld(ring) \/ (Numbered(q[1]) /\ x = q[1].payload[1])
  BY ZenonT(40), <1>1, RcvTakes
<1>3. Numbered(q[1]) => q[1].payload[1] <= Seen(send, p)
  BY DEF Matched
<1>4. \A x \in RcvRingHeld(ring2) : x \in RcvRingHeld(ring) \/ x <= Seen(send, p)
  BY <1>2, <1>3
<1>5. L \ {1} \in SUBSET L
  OBVIOUS
<1> DEFINE L2 == L \ {1}
<1> HIDE DEF L2
<1>6. L2 \in SUBSET L /\ RcvGood(ring2, last, o, q, L2)
  BY <1>2, <1>5 DEF L2
<1>7. Matched(send, p, o, ring2, last, q, L2, back, M)
  BY <1>2, <1>4, <1>6, ReceiverGrows
<1> QED BY <1>7 DEF L2

\* The receiver's application reads.
LEMMA ReceiverReads ==
  ASSUME NEW send, NEW p \in Nat, NEW o \in Nat, SendInv(send, p, o), NEW ring, NEW last \in Nat,
         NEW q \in Seq(Frame), NEW L \in SUBSET DOMAIN q,
         NEW back \in Seq(Frame), NEW M \in SUBSET DOMAIN back,
         Matched(send, p, o, ring, last, q, L, back, M), Ready(ring) # 0,
         NEW last2, last2 = ring.buff[ring.tail].idx,
         NEW ring2, ring2 = rcvRing_read_next_received(ring)
  PROVE  Matched(send, p, o, ring2, last2, q, L, back, M)
<1>1. RcvGood(ring, last, o, q, L)
  BY DEF Matched
<1>2. /\ last2 = Base(last, o) + 1
      /\ RcvGood(ring2, last2, o, q, L)
      /\ Got(ring2, Base(last2, o)) >= Got(ring, Base(last, o))
      /\ Got(ring2, Base(last2, o)) \in {Got(ring, Base(last, o))} \cup RcvRingHeld(ring2)
      /\ RcvRingHeld(ring2) \subseteq RcvRingHeld(ring)
  BY <1>1, RcvReads
<1>3. last2 \in Nat
  <2>1. Base(last, o) \in Nat
    BY DEF Base
  <2> QED BY <1>2, <2>1
<1>4. L \in SUBSET L /\ \A x \in RcvRingHeld(ring2) : x \in RcvRingHeld(ring) \/ x <= Seen(send, p)
  BY <1>2
<1> QED BY <1>2, <1>3, <1>4, ReceiverGrows

\* The sender looks at the first frame on its way back.
LEMMA SenderTakes ==
  ASSUME NEW send, NEW p \in Nat, NEW o \in Nat, SendInv(send, p, o), NEW ring, NEW last \in Nat,
         NEW q, NEW L, NEW back \in Seq(Frame), NEW M \in SUBSET DOMAIN back,
         Matched(send, p, o, ring, last, q, L, back, M), 1 \in M,
         NEW send2, SenderMoves(send, send2, back[1], p, o)
  PROVE  Matched(send2, p, o, ring, last, q, L, back, M \ {1})
<1> DEFINE G == Got(ring, Base(last, o))
           d == AckedBy(back[1], send)
           M2 == M \ {1}
<1>1. /\ Acked(send, p) \in Nat /\ G \in Nat /\ Acked(send, p) <= G
      /\ send.tail_sequence \in Sequence
  BY MatchedBounds
<1>2. \A j \in M : back[j].arq_ctrl # <<>> =>
        /\ AckedBy(back[j], send) \in Nat /\ back[j].arq_ctrl[1].rx_sequence \in Sequence
  BY <1>1, FramesAt DEF AckedBy
<1>3. \A j \in M : back[j].arq_ctrl # <<>> =>
        /\ AckedBy(back[j], send) <= G - Acked(send, p)
        /\ \A i \in M : i < j /\ back[i].arq_ctrl # <<>> =>
             AckedBy(back[i], send) <= AckedBy(back[j], send)
  BY DEF Matched
<1>4. M2 \subseteq M /\ \A j \in M2 : 1 < j
  BY FramesAt
<1>5. Seen(send2, p) = Seen(send, p) /\ SendInv(send2, p, o)
  BY DEF SenderMoves
<1> HIDE DEF G, M2
<1>6. CASE Acked(send2, p) = Acked(send, p) /\ send2.tail_sequence = send.tail_sequence
  <2>1. \A j : AckedBy(back[j], send2) = AckedBy(back[j], send)
    BY <1>6 DEF AckedBy
  <2> QED BY <1>3, <1>4, <1>5, <1>6, <2>1 DEF Matched, G, M2
<1>7. CASE ~(Acked(send2, p) = Acked(send, p) /\ send2.tail_sequence = send.tail_sequence)
  <2>1. /\ back[1].arq_ctrl # <<>> /\ Acked(send2, p) = Acked(send, p) + d
        /\ send2.tail_sequence = back[1].arq_ctrl[1].rx_sequence
    BY <1>7 DEF SenderMoves, AckedBy
  <2>2. d \in Nat /\ d <= G - Acked(send, p) /\ send2.tail_sequence \in Sequence
    BY <1>2, <1>3, <2>1
  <2>3. \A j \in M2 : back[j].arq_ctrl # <<>> => d <= AckedBy(back[j], send)
    BY <1>3, <1>4, <2>1
  <2>4. \A j \in M2 : back[j].arq_ctrl # <<>> =>
          AckedBy(back[j], send2) = AckedBy(back[j], send) - d
    <3> SUFFICES ASSUME NEW j \in M2, back[j].arq_ctrl # <<>>
                 PROVE  AckedBy(back[j], send2) = AckedBy(back[j], send) - d
      OBVIOUS
    <3> DEFINE s == back[j].arq_ctrl[1].rx_sequence
               t == send.tail_sequence
               u == send2.tail_sequence
    <3>1. s \in Sequence /\ t \in Sequence /\ u \in Sequence
      BY <1>1, <1>2, <1>4, <2>2
    <3>2. d = SeqMinus(u, t) /\ AckedBy(back[j], send) = SeqMinus(s, t)
          /\ AckedBy(back[j], send2) = SeqMinus(s, u)
      BY <2>1 DEF AckedBy
    <3>3. SeqMinus(u, t) <= SeqMinus(s, t)
      BY <2>3, <3>2
    <3> HIDE DEF s, t, u
    <3> QED BY <3>1, <3>2, <3>3, SeqMinusMoved
  <2> HIDE DEF d
  <2>5. Acked(send2, p) <= G
    BY <1>1, <2>1, <2>2
  <2>6. ASSUME NEW j \in M2, back[j].arq_ctrl # <<>>
        PROVE  /\ AckedBy(back[j], send2) <= G - Acked(send2, p)
               /\ \A i \in M2 : i < j /\ back[i].arq_ctrl # <<>> =>
                    AckedBy(back[i], send2) <= AckedBy(back[j], send2)
    <3>1. /\ AckedBy(back[j], send) \in Nat /\ AckedBy(back[j], send) <= G - Acked(send, p)
          /\ AckedBy(back[j], send2) = AckedBy(back[j], send) - d
      BY <1>2, <1>3, <1>4, <2>4, <2>6
    <3>2. AckedBy(back[j], send2) <= G - Acked(send2, p)
      BY <1>1, <2>1, <2>2, <3>1
    <3>3. ASSUME NEW i \in M2, i < j, back[i].arq_ctrl # <<>>
          PROVE  AckedBy(back[i], send2) <= AckedBy(back[j], send2)
      <4>1. /\ AckedBy(back[i], send) \in Nat /\ AckedBy(back[i], send) <= AckedBy(back[j], send)
            /\ AckedBy(back[i], send2) = AckedBy(back[i], send) - d
        BY <1>2, <1>3, <1>4, <2>4, <2>6, <3>3
      <4> QED BY <2>2, <3>1, <4>1
    <3> QED BY <3>2, <3>3
  <2> QED BY <1>5, <2>5, <2>6 DEF Matched, G, M2
<1> QED BY <1>6, <1>7

\* The frames end c will look at: those from the handshake it waits for on.
Live(channel, q) ==
  {j \in DOMAIN q : \/ channel.arq_state_flag = "ON"
                    \/ \E i \in 1 .. j : Names(q[i], channel.arq_session_identifier)}

\* The peer r has taken up the session of c.
Joined(c) ==
  /\ vc[c].arq_state_flag # "OFF" /\ vc[Peer(c)].arq_state_flag = "ON"
  /\ vc[Peer(c)].arq_session_identifier = Wire(vc[c].arq_session_identifier)

\* The identifiers that an end has used by the time it connected last, and smaller
\* ones.
Spent(time) == IF time = 0 THEN {} ELSE 0 .. Tick(time)

\* These are identifiers, and the one of that time is the largest.
LEMMA SpentFacts ==
  ASSUME NEW time \in Nat
  PROVE  /\ \A x \in Spent(time) : x \in Identifiers /\ x \in Nat /\ x <= Tick(time)
         /\ time # 0 => Tick(time) \in Spent(time)
         /\ time = 0 => Spent(time) = {}
<1>1. Tick(time) \in Identifiers /\ Tick(time) \in Nat
  BY TickIdentifies
<1>2. \A x \in 0 .. Tick(time) : x \in Identifiers
  BY <1>1, LinkAssumption, IdentifiersAssumption
<1> QED BY <1>1, <1>2 DEF Spent

\* The end that connects.
CallerInv(c) ==
  /\ clock[c] = 0 \/ clock[c] \in ConnectTicks[c]
  /\ vc[c].handshake_send = 0
  /\ vc[c].arq_state_flag = "OFF" => clock[c] = 0 /\ vc[Peer(c)].arq_state_flag = "OFF"
  /\ vc[c].arq_state_flag # "OFF" =>
       clock[c] # 0 /\ vc[c].arq_session_identifier = Tick(clock[c])
  /\ vc[c].arq_state_flag = "ON" => Joined(c)
  /\ vc[c].arq_state_flag = "IN_INIT" =>
       /\ vc[c].rcvRing = sky_rcv_ring_wipe(0)
       /\ lastRead[c] = 0
       /\ Seen(vc[c].sendRing, pushed[c]) = origin[c]

\* The end that answers.
Used(c) == {Wire(x) : x \in Spent(clock[c])}

AnswererInv(c) ==
  /\ vc[Peer(c)].arq_state_flag # "IN_INIT"
  /\ vc[Peer(c)].arq_state_flag = "ON" => vc[Peer(c)].arq_session_identifier \in Used(c)

\* The frames on their way to the end that connects.
ToCaller(c) ==
  LET q == radio[c]
      own == vc[c].arq_session_identifier
  IN  /\ \A j \in DOMAIN q : Shakes(q[j]) =>
           /\ q[j].arq_handshake[1].identifier \in Spent(clock[c])
           /\ q[j].arq_handshake[1].peer_state = "ON"
      /\ \A j \in DOMAIN q : Names(q[j], own) => Joined(c)
      /\ \A j \in Live(vc[c], q) : Shakes(q[j]) => Names(q[j], own)

\* The frames on their way to the end that answers.
ToAnswerer(c) ==
  LET q == radio[Peer(c)]
      r == vc[Peer(c)]
  IN  /\ \A j \in DOMAIN q : Shakes(q[j]) => q[j].arq_handshake[1].identifier \in Used(c)
      /\ \A i, j \in DOMAIN q : i <= j /\ Shakes(q[i])
           /\ (r.arq_state_flag = "OFF" \/ ~Names(q[i], r.arq_session_identifier)) => Bare(q[j])
      /\ \A i, j \in DOMAIN q : i <= j /\ Names(q[i], Wire(Tick(clock[c]))) /\ Shakes(q[j])
           => Names(q[j], Wire(Tick(clock[c])))
      /\ Joined(c) => \A j \in DOMAIN q : Shakes(q[j]) => Names(q[j], Wire(Tick(clock[c])))
      /\ Joined(c) /\ vc[c].arq_state_flag = "IN_INIT" => \A j \in DOMAIN q : Bare(q[j])

\* The packets of end c with the acknowledgements of its peer, and the other way
\* round.
Outward(c) ==
  LET r == Peer(c)
  IN  Matched(vc[c].sendRing, pushed[c], origin[c], vc[r].rcvRing, lastRead[r],
              radio[r], DOMAIN radio[r], radio[c], Live(vc[c], radio[c]))

Homeward(c) ==
  LET r == Peer(c)
  IN  Matched(vc[r].sendRing, pushed[r], origin[r], vc[c].rcvRing, lastRead[c],
              radio[c], Live(vc[c], radio[c]), radio[r], DOMAIN radio[r])

\* A receive ring of the end that answers that is good whoever the sender was.
AnswererGood(c) ==
  LET r == Peer(c)
  IN  vc[r].arq_state_flag = "ON" =>
        \E o \in Nat : RcvGood(vc[r].rcvRing, lastRead[r], o, radio[r], DOMAIN radio[r])

Flows(c) == AnswererGood(c) /\ (Joined(c) => Outward(c) /\ Homeward(c))

SessionInv(c) ==
  LinkInv /\ CallerInv(c) /\ AnswererInv(c) /\ ToCaller(c) /\ ToAnswerer(c) /\ Flows(c)

\* The frames looked at are some of those on their way.
LEMMA LiveFrames ==
  ASSUME NEW v, NEW q \in Seq(Frame)
  PROVE  /\ Live(v, q) \in SUBSET DOMAIN q /\ DOMAIN q \in SUBSET DOMAIN q
         /\ Live(v, q) \subseteq Int /\ DOMAIN q \subseteq Int
         /\ v.arq_state_flag = "ON" => Live(v, q) = DOMAIN q
<1>1. \A j \in DOMAIN q : j \in Int
  OBVIOUS
<1>2. \A j : j \in Live(v, q) => j \in DOMAIN q
  BY DEF Live
<1>3. v.arq_state_flag = "ON" => Live(v, q) = DOMAIN q
  BY DEF Live
<1> QED BY <1>1, <1>2, <1>3, Zenon

\* They are known by the state and the identifier of the channel.
LEMMA LiveSame ==
  ASSUME NEW v, NEW v2, v2.arq_state_flag = v.arq_state_flag,
         v2.arq_session_identifier = v.arq_session_identifier, NEW q
  PROVE  Live(v2, q) = Live(v, q)
BY DEF Live

\* The first frame leaves.
LEMMA TailFrames ==
  ASSUME NEW q \in Seq(Frame), q # <<>>
  PROVE  /\ Head(q) = q[1] /\ 1 \in DOMAIN q /\ Tail(q) \in Seq(Frame)
         /\ DOMAIN Tail(q) \subseteq Int
         /\ \A j \in DOMAIN Tail(q) : j + 1 \in DOMAIN q /\ j + 1 # 1 /\ Tail(q)[j] = q[j + 1]
         /\ \A v : \A j \in Live(v, Tail(q)) : j + 1 \in Live(v, q)
<1>1. /\ Head(q) = q[1] /\ 1 \in DOMAIN q /\ Tail(q) \in Seq(Frame)
      /\ DOMAIN Tail(q) \subseteq Int
      /\ \A j \in DOMAIN Tail(q) : j + 1 \in DOMAIN q /\ j + 1 # 1 /\ Tail(q)[j] = q[j + 1]
  OBVIOUS
<1>2. ASSUME NEW v, NEW j \in Live(v, Tail(q))
      PROVE  j + 1 \in Live(v, q)
  <2>1. j \in DOMAIN Tail(q) /\ j \in 1 .. Len(Tail(q)) /\ j + 1 \in DOMAIN q
    BY <1>1 DEF Live
  <2>2. CASE v.arq_state_flag = "ON"
    BY <2>1, <2>2 DEF Live
  <2>3. CASE v.arq_state_flag # "ON"
    <3>1. PICK i \in 1 .. j : Names(Tail(q)[i], v.arq_session_identifier)
      BY <2>3 DEF Live
    <3>2. i \in DOMAIN Tail(q) /\ i + 1 \in 1 .. j + 1
      BY <1>1, <2>1
    <3>3. Names(q[i + 1], v.arq_session_identifier)
      BY <1>1, <3>1, <3>2
    <3> QED BY <2>1, <3>2, <3>3 DEF Live
  <2> QED BY <2>2, <2>3
<1> QED BY <1>1, <1>2

\* A frame is put on its way.
LEMMA AppendFrames ==
  ASSUME NEW q \in Seq(Frame), NEW f \in Frame, NEW q2, q2 = Append(q, f)
  PROVE  /\ q2 \in Seq(Frame) /\ DOMAIN q2 = DOMAIN q \cup {Len(q) + 1}
         /\ q2[Len(q) + 1] = f /\ Len(q) + 1 \in Int
         /\ \A j \in DOMAIN q : q2[j] = q[j] /\ j < Len(q) + 1 /\ j \in Int
         /\ \A v : Live(v, q2) \subseteq Live(v, q) \cup {Len(q) + 1}
<1>1. /\ q2 \in Seq(Frame) /\ DOMAIN q2 = DOMAIN q \cup {Len(q) + 1}
      /\ q2[Len(q) + 1] = f /\ Len(q) + 1 \in Int
      /\ \A j \in DOMAIN q : q2[j] = q[j] /\ j < Len(q) + 1 /\ j \in Int
  OBVIOUS
<1>2. ASSUME NEW v, NEW j \in Live(v, q2), j # Len(q) + 1
      PROVE  j \in Live(v, q)
  <2>1. j \in DOMAIN q
    BY <1>1, <1>2 DEF Live
  <2>2. \A i \in 1 .. j : i \in DOMAIN q
    BY <2>1
  <2> QED BY <1>1, <2>1, <2>2 DEF Live
<1> QED BY <1>1, <1>2

\* The two ends of the link, and what is on its way between them.
LEMMA Ends ==
  ASSUME LinkInv, NEW c \in Node, NEW r, r = Peer(c)
  PROVE  /\ r \in Node /\ r # c /\ Peer(r) = c /\ \A m \in Node : m = c \/ m = r
         /\ vc[c] \in SkyVirtualChannel /\ vc[r] \in SkyVirtualChannel
         /\ radio[c] \in Seq(Frame) /\ radio[r] \in Seq(Frame)
         /\ pushed[c] \in Nat /\ pushed[r] \in Nat
         /\ origin[c] \in Nat /\ origin[r] \in Nat
         /\ lastRead[c] \in Nat /\ lastRead[r] \in Nat
         /\ SendInv(vc[c].sendRing, pushed[c], origin[c])
         /\ SendInv(vc[r].sendRing, pushed[r], origin[r])
         /\ Live(vc[c], radio[c]) \in SUBSET DOMAIN radio[c]
         /\ DOMAIN radio[r] \in SUBSET DOMAIN radio[r]
         /\ clock[c] \in Nat
<1>1. r \in Node /\ r # c /\ Peer(r) = c /\ \A m \in Node : m = c \/ m = r
  BY LinkConstants
<1>2. \A n \in Node : /\ vc[n] \in SkyVirtualChannel /\ radio[n] \in Seq(Frame)
                      /\ pushed[n] \in Nat /\ origin[n] \in Nat /\ lastRead[n] \in Nat
                      /\ SendInv(vc[n].sendRing, pushed[n], origin[n])
                      /\ clock[n] \in Nat
  BY EndFacts
<1>3. /\ Live(vc[c], radio[c]) \in SUBSET DOMAIN radio[c]
      /\ DOMAIN radio[r] \in SUBSET DOMAIN radio[r]
  <2>1. radio[c] \in Seq(Frame)
    BY <1>2
  <2>2. Live(vc[c], radio[c]) \in SUBSET DOMAIN radio[c]
    BY <2>1, LiveFrames, Zenon
  <2> QED BY <2>2
<1> QED BY <1>1, <1>2, <1>3

\* Nothing of the session changes: the states, the identifiers and the clock.
SessionKept(c) ==
  /\ clock' = clock
  /\ \A m \in {c, Peer(c)} :
       /\ vc'[m].arq_state_flag = vc[m].arq_state_flag
       /\ vc'[m].arq_session_identifier = vc[m].arq_session_identifier

\* The two ends stay in their session.
LEMMA JoinedKept ==
  ASSUME NEW c \in Node, SessionKept(c)
  PROVE  /\ Joined(c)' <=> Joined(c)
         /\ AnswererInv(c) => AnswererInv(c)'
         /\ \A q : Live(vc'[c], q) = Live(vc[c], q)
<1>1. \A q : Live(vc'[c], q) = Live(vc[c], q)
  BY DEF SessionKept, Live
<1> QED BY <1>1 DEF SessionKept, Joined, AnswererInv, Used

\* The end that connects has nothing to deliver while it waits.
LEMMA CallerKept ==
  ASSUME NEW c \in Node, SessionKept(c), CallerInv(c), vc'[c].handshake_send = 0,
         vc[c].arq_state_flag = "IN_INIT" =>
           /\ vc'[c].rcvRing = vc[c].rcvRing /\ lastRead'[c] = lastRead[c]
           /\ origin'[c] = origin[c]
           /\ Seen(vc'[c].sendRing, pushed'[c]) = Seen(vc[c].sendRing, pushed[c])
  PROVE  CallerInv(c)'
BY JoinedKept DEF SessionKept, CallerInv

\* The frames on their way to the end that connects, d places further up.
LEMMA ToCallerKept ==
  ASSUME NEW c \in Node, ToCaller(c), NEW d \in Int, clock'[c] = clock[c],
         vc'[c].arq_session_identifier = vc[c].arq_session_identifier,
         Joined(c) => Joined(c)',
         \A j \in DOMAIN radio'[c] : j + d \in DOMAIN radio[c] /\ radio'[c][j] = radio[c][j + d],
         \A j \in Live(vc'[c], radio'[c]) : j + d \in Live(vc[c], radio[c])
  PROVE  ToCaller(c)'
<1>1. \A j \in Live(vc'[c], radio'[c]) : j \in DOMAIN radio'[c]
  BY DEF Live
<1> QED BY <1>1 DEF ToCaller

\* The frames on their way to the end that answers, d places further up.
LEMMA ToAnswererKept ==
  ASSUME NEW c \in Node, ToAnswerer(c), NEW d \in Int, clock'[c] = clock[c],
         NEW r \in Node, r = Peer(c), DOMAIN radio'[r] \subseteq Int,
         vc'[r].arq_state_flag = vc[r].arq_state_flag,
         vc'[r].arq_session_identifier = vc[r].arq_session_identifier,
         Joined(c)' => Joined(c),
         vc'[c].arq_state_flag = "IN_INIT" => vc[c].arq_state_flag = "IN_INIT",
         \A j \in DOMAIN radio'[r] : j + d \in DOMAIN radio[r] /\ radio'[r][j] = radio[r][j + d]
  PROVE  ToAnswerer(c)'
<1> DEFINE q == radio[r]
           q2 == radio'[r]
<1>1. \A j \in DOMAIN q2 : j + d \in DOMAIN q /\ q2[j] = q[j + d]
  OBVIOUS
<1>2. \A i, j \in DOMAIN q2 : i <= j => i + d <= j + d
  OBVIOUS
<1>3. Used(c)' = Used(c)
  BY DEF Used
<1>4. \A j \in DOMAIN q2 : Shakes(q2[j]) => q2[j].arq_handshake[1].identifier \in Used(c)
  BY <1>1 DEF ToAnswerer
<1>5. \A i, j \in DOMAIN q2 : i <= j /\ Shakes(q2[i])
           /\ (vc[r].arq_state_flag = "OFF" \/ ~Names(q2[i], vc[r].arq_session_identifier)) => Bare(q2[j])
  BY <1>1, <1>2 DEF ToAnswerer
<1>6. \A i, j \in DOMAIN q2 : i <= j /\ Names(q2[i], Wire(Tick(clock[c]))) /\ Shakes(q2[j])
           => Names(q2[j], Wire(Tick(clock[c])))
  BY <1>1, <1>2 DEF ToAnswerer
<1>7. Joined(c)' => \A j \in DOMAIN q2 : Shakes(q2[j]) => Names(q2[j], Wire(Tick(clock[c])))
  BY <1>1 DEF ToAnswerer
<1>8. Joined(c)' /\ vc'[c].arq_state_flag = "IN_INIT" => \A j \in DOMAIN q2 : Bare(q2[j])
  BY <1>1 DEF ToAnswerer
<1> HIDE DEF q2
<1>9. /\ \A j \in DOMAIN q2 : Shakes(q2[j]) => q2[j].arq_handshake[1].identifier \in Used(c)'
      /\ \A i, j \in DOMAIN q2 : i <= j /\ Shakes(q2[i])
           /\ (vc'[r].arq_state_flag = "OFF" \/ ~Names(q2[i], vc'[r].arq_session_identifier)) => Bare(q2[j])
      /\ \A i, j \in DOMAIN q2 : i <= j /\ Names(q2[i], Wire(Tick(clock'[c]))) /\ Shakes(q2[j])
           => Names(q2[j], Wire(Tick(clock'[c])))
      /\ Joined(c)' => \A j \in DOMAIN q2 : Shakes(q2[j]) => Names(q2[j], Wire(Tick(clock'[c])))
      /\ Joined(c)' /\ vc'[c].arq_state_flag = "IN_INIT" => \A j \in DOMAIN q2 : Bare(q2[j])
  BY <1>3, <1>4, <1>5, <1>6, <1>7, <1>8
<1> QED BY <1>9 DEF ToAnswerer, q2

\* No frame moves.
LEMMA FramesKept ==
  ASSUME NEW c \in Node, LinkInv, CallerInv(c), AnswererInv(c), ToCaller(c), ToAnswerer(c),
         SessionKept(c), radio' = radio, vc'[c].handshake_send = 0,
         vc[c].arq_state_flag = "IN_INIT" =>
           /\ vc'[c].rcvRing = vc[c].rcvRing /\ lastRead'[c] = lastRead[c]
           /\ origin'[c] = origin[c]
           /\ Seen(vc'[c].sendRing, pushed'[c]) = Seen(vc[c].sendRing, pushed[c])
  PROVE  /\ CallerInv(c)' /\ AnswererInv(c)' /\ ToCaller(c)' /\ ToAnswerer(c)'
         /\ Joined(c)' <=> Joined(c)
         /\ Live(vc'[c], radio'[c]) = Live(vc[c], radio[c])
<1> DEFINE r == Peer(c)
<1>1. r \in Node /\ radio[c] \in Seq(Frame) /\ radio[r] \in Seq(Frame)
  BY Ends
<1> HIDE DEF r
<1>2. /\ Joined(c)' <=> Joined(c)
      /\ AnswererInv(c)'
      /\ Live(vc'[c], radio'[c]) = Live(vc[c], radio[c])
  BY JoinedKept
<1>3. CallerInv(c)'
  BY CallerKept
<1>4. /\ 0 \in Int /\ \A j \in DOMAIN radio[c] : j + 0 = j
      /\ \A j \in DOMAIN radio[r] : j + 0 = j
      /\ DOMAIN radio[r] \subseteq Int
  BY <1>1
<1>5. /\ vc'[c].arq_session_identifier = vc[c].arq_session_identifier
      /\ vc'[r].arq_state_flag = vc[r].arq_state_flag
      /\ vc'[c].arq_state_flag = vc[c].arq_state_flag
      /\ vc'[r].arq_session_identifier = vc[r].arq_session_identifier
      /\ clock'[c] = clock[c] /\ radio'[c] = radio[c] /\ radio'[r] = radio[r]
  BY DEF SessionKept, r
<1>6. ToCaller(c)'
  <2>1. \A j \in Live(vc'[c], radio'[c]) : j + 0 \in Live(vc[c], radio[c])
    BY <1>1, <1>2, <1>4, LiveFrames
  <2>2. \A j \in DOMAIN radio'[c] : j + 0 \in DOMAIN radio[c] /\ radio'[c][j] = radio[c][j + 0]
    BY <1>4, <1>5
  <2> QED BY <1>2, <1>4, <1>5, <2>1, <2>2, ToCallerKept
<1>7. ToAnswerer(c)'
  <2>1. \A j \in DOMAIN radio'[r] : j + 0 \in DOMAIN radio[r] /\ radio'[r][j] = radio[r][j + 0]
    BY <1>4, <1>5
  <2>2. DOMAIN radio'[r] \subseteq Int /\ r = Peer(c)
    BY <1>4, <1>5 DEF r
  <2>3. /\ Joined(c)' => Joined(c)
        /\ vc'[c].arq_state_flag = "IN_INIT" => vc[c].arq_state_flag = "IN_INIT"
    BY <1>2, <1>5
  <2> QED BY <1>1, <1>4, <1>5, <2>1, <2>2, <2>3, ToAnswererKept, Zenon
<1> QED BY <1>2, <1>3, <1>6, <1>7

\* The send rings grow and nothing else changes.
LEMMA FlowsGrow ==
  ASSUME NEW c \in Node, LinkInv, Flows(c), Joined(c)' => Joined(c),
         radio' = radio, lastRead' = lastRead, origin' = origin,
         Live(vc'[c], radio'[c]) = Live(vc[c], radio[c]),
         \A m \in Node :
           /\ vc'[m].rcvRing = vc[m].rcvRing
           /\ vc'[m].arq_state_flag = vc[m].arq_state_flag
           /\ pushed'[m] \in Nat /\ SendInv(vc'[m].sendRing, pushed'[m], origin[m])
           /\ Acked(vc'[m].sendRing, pushed'[m]) = Acked(vc[m].sendRing, pushed[m])
           /\ Seen(vc'[m].sendRing, pushed'[m]) >= Seen(vc[m].sendRing, pushed[m])
           /\ vc'[m].sendRing.tail_sequence = vc[m].sendRing.tail_sequence
  PROVE  Flows(c)'
<1> DEFINE r == Peer(c)
           L == Live(vc[c], radio[c])
           M == DOMAIN radio[r]
<1>1. /\ r \in Node
      /\ radio[c] \in Seq(Frame) /\ radio[r] \in Seq(Frame)
      /\ pushed[c] \in Nat /\ pushed[r] \in Nat
      /\ origin[c] \in Nat /\ origin[r] \in Nat /\ lastRead[c] \in Nat /\ lastRead[r] \in Nat
      /\ SendInv(vc[c].sendRing, pushed[c], origin[c])
      /\ SendInv(vc[r].sendRing, pushed[r], origin[r])
      /\ L \in SUBSET DOMAIN radio[c] /\ M \in SUBSET DOMAIN radio[r]
  BY Ends
<1> HIDE DEF r, L, M
<1>2. \A m \in {c, r} :
        /\ vc'[m].rcvRing = vc[m].rcvRing
        /\ vc'[m].arq_state_flag = vc[m].arq_state_flag
        /\ pushed'[m] \in Nat /\ SendInv(vc'[m].sendRing, pushed'[m], origin[m])
        /\ Acked(vc'[m].sendRing, pushed'[m]) = Acked(vc[m].sendRing, pushed[m])
        /\ Seen(vc'[m].sendRing, pushed'[m]) >= Seen(vc[m].sendRing, pushed[m])
        /\ vc'[m].sendRing.tail_sequence = vc[m].sendRing.tail_sequence
  BY <1>1
<1>3. AnswererGood(c)'
  BY <1>2 DEF AnswererGood, Flows, r
<1>4. ASSUME Joined(c)
      PROVE  Outward(c)' /\ Homeward(c)'
  <2>1. /\ Matched(vc[c].sendRing, pushed[c], origin[c], vc[r].rcvRing, lastRead[r],
                   radio[r], M, radio[c], L)
        /\ Matched(vc[r].sendRing, pushed[r], origin[r], vc[c].rcvRing, lastRead[c],
                   radio[c], L, radio[r], M)
    BY <1>4 DEF Flows, Outward, Homeward, r, L, M
  <2>2. Matched(vc'[c].sendRing, pushed'[c], origin[c], vc[r].rcvRing, lastRead[r],
                radio[r], M, radio[c], L)
    BY <1>1, <1>2, <2>1, SenderGrows
  <2>3. Matched(vc'[r].sendRing, pushed'[r], origin[r], vc[c].rcvRing, lastRead[c],
                radio[c], L, radio[r], M)
    BY <1>1, <1>2, <2>1, SenderGrows
  <2> QED BY <1>2, <2>2, <2>3 DEF Outward, Homeward, r, L, M
<1> QED BY <1>3, <1>4 DEF Flows

\* The application pushes a packet.
LEMMA SessionPush ==
  ASSUME NEW c \in Node, SessionInv(c), NEW n \in Node, Push(n)
  PROVE  SessionInv(c)'
<1> DEFINE send == vc[n].sendRing
           send2 == sendRing_push_packet_to_send(send, pushed[n] + 1)
<1>1. LinkInv /\ LinkInv' /\ vc \in [Node -> SkyVirtualChannel]
      /\ pushed \in [Node -> 0 .. MaxPush]
  BY LinkPush DEF SessionInv, LinkInv, TypeOK
<1>2. \A m \in Node : /\ vc[m] \in SkyVirtualChannel /\ pushed[m] \in Nat /\ origin[m] \in Nat
                      /\ SendInv(vc[m].sendRing, pushed[m], origin[m])
                      /\ Seen(vc[m].sendRing, pushed[m]) \in Nat
  BY <1>1, EndFacts, SendOrder
<1>3. /\ SendInv(send2, pushed[n] + 1, origin[n])
      /\ Acked(send2, pushed[n] + 1) = Acked(send, pushed[n])
      /\ Seen(send2, pushed[n] + 1) = Seen(send, pushed[n])
      /\ send2.tail_sequence = send.tail_sequence
  <2>1. pushed[n] + 1 \in Idx /\ ~sendRing_is_full(send)
    BY <1>2, LinkConstants DEF Push, CanPush
  <2> QED BY <1>2, <2>1, SendPushed
<1>4. /\ radio' = radio /\ clock' = clock /\ origin' = origin /\ lastRead' = lastRead
      /\ vc' = [vc EXCEPT ![n] = [vc[n] EXCEPT !.sendRing = send2]]
      /\ pushed' = [pushed EXCEPT ![n] = pushed[n] + 1]
  BY <1>1, <1>2 DEF Push, sky_vc_push_packet_to_send, SkyVirtualChannel
<1> HIDE DEF send2
<1>5. /\ pushed'[n] = pushed[n] + 1 /\ vc'[n] = [vc[n] EXCEPT !.sendRing = send2]
      /\ \A m \in Node : m # n => vc'[m] = vc[m] /\ pushed'[m] = pushed[m]
  BY <1>1, <1>4
<1>6. /\ vc'[n].rcvRing = vc[n].rcvRing
      /\ vc'[n].arq_state_flag = vc[n].arq_state_flag
      /\ vc'[n].arq_session_identifier = vc[n].arq_session_identifier
      /\ vc'[n].handshake_send = vc[n].handshake_send
      /\ vc'[n].sendRing = send2
  BY <1>2, <1>5 DEF SkyVirtualChannel
<1>7. \A m \in Node :
        /\ vc'[m].rcvRing = vc[m].rcvRing
        /\ vc'[m].arq_state_flag = vc[m].arq_state_flag
        /\ vc'[m].arq_session_identifier = vc[m].arq_session_identifier
        /\ vc'[m].handshake_send = vc[m].handshake_send
        /\ pushed'[m] \in Nat /\ SendInv(vc'[m].sendRing, pushed'[m], origin[m])
        /\ Acked(vc'[m].sendRing, pushed'[m]) = Acked(vc[m].sendRing, pushed[m])
        /\ Seen(vc'[m].sendRing, pushed'[m]) = Seen(vc[m].sendRing, pushed[m])
        /\ Seen(vc'[m].sendRing, pushed'[m]) >= Seen(vc[m].sendRing, pushed[m])
        /\ vc'[m].sendRing.tail_sequence = vc[m].sendRing.tail_sequence
  <2> TAKE m \in Node
  <2>1. CASE m = n
    <3>1. pushed[n] + 1 \in Nat
      BY <1>2
    <3>2. /\ pushed'[n] \in Nat /\ SendInv(vc'[n].sendRing, pushed'[n], origin[n])
          /\ Acked(vc'[n].sendRing, pushed'[n]) = Acked(vc[n].sendRing, pushed[n])
          /\ Seen(vc'[n].sendRing, pushed'[n]) = Seen(vc[n].sendRing, pushed[n])
          /\ vc'[n].sendRing.tail_sequence = vc[n].sendRing.tail_sequence
      BY <1>3, <1>5, <1>6, <3>1, Zenon
    <3>3. Seen(vc'[n].sendRing, pushed'[n]) >= Seen(vc[n].sendRing, pushed[n])
      BY <1>2, <3>2
    <3> QED BY <1>6, <2>1, <3>2, <3>3, Zenon
  <2>2. CASE m # n
    BY <1>2, <1>5, <2>2
  <2> QED BY <2>1, <2>2
<1>8. SessionKept(c)
  BY <1>4, <1>7, LinkConstants DEF SessionKept
<1>9. /\ CallerInv(c)' /\ AnswererInv(c)' /\ ToCaller(c)' /\ ToAnswerer(c)'
      /\ Joined(c)' <=> Joined(c)
      /\ Live(vc'[c], radio'[c]) = Live(vc[c], radio[c])
  BY <1>1, <1>4, <1>7, <1>8, FramesKept DEF SessionInv, CallerInv
<1>10. Flows(c)'
  BY <1>1, <1>4, <1>7, <1>9, FlowsGrow DEF SessionInv
<1> QED BY <1>1, <1>9, <1>10 DEF SessionInv

\* A channel finds no frame to transmit.
LEMMA SessionTransmitFails ==
  ASSUME NEW c \in Node, SessionInv(c), LinkInv', NEW n \in Node, NEW w \in BOOLEAN,
         NEW i \in BOOLEAN, TransmitFails(n, w, i)
  PROVE  SessionInv(c)'
<1> DEFINE v == sky_vc_fill_frame(vc[n], w, i)
<1>1. LinkInv /\ vc \in [Node -> SkyVirtualChannel]
  BY DEF SessionInv, LinkInv, TypeOK
<1>2. \A m \in Node : /\ vc[m] \in SkyVirtualChannel /\ pushed[m] \in Nat /\ origin[m] \in Nat
                      /\ SendInv(vc[m].sendRing, pushed[m], origin[m])
                      /\ Seen(vc[m].sendRing, pushed[m]) \in Nat
  BY <1>1, EndFacts, SendOrder
<1>3. /\ vc[n].arq_state_flag = "ON"
      /\ radio' = radio /\ clock' = clock /\ origin' = origin /\ lastRead' = lastRead
      /\ pushed' = pushed /\ vc' = [vc EXCEPT ![n] = v] /\ v = sky_vc_fill_frame(vc[n], w, i)
  BY <1>1 DEF TransmitFails, FillFails
<1> HIDE DEF v
<1>4. /\ SendInv(v.sendRing, pushed[n], origin[n])
      /\ v.rcvRing = vc[n].rcvRing /\ v.arq_state_flag = vc[n].arq_state_flag
      /\ v.arq_session_identifier = vc[n].arq_session_identifier
      /\ v.handshake_send \in {0, vc[n].handshake_send}
      /\ Acked(v.sendRing, pushed[n]) = Acked(vc[n].sendRing, pushed[n])
      /\ Seen(v.sendRing, pushed[n]) >= Seen(vc[n].sendRing, pushed[n])
      /\ v.sendRing.tail_sequence = vc[n].sendRing.tail_sequence
  BY <1>2, <1>3, FillState
<1>5. \A m \in Node :
        /\ vc'[m].rcvRing = vc[m].rcvRing
        /\ vc'[m].arq_state_flag = vc[m].arq_state_flag
        /\ vc'[m].arq_session_identifier = vc[m].arq_session_identifier
        /\ vc'[m].handshake_send \in {0, vc[m].handshake_send}
        /\ pushed'[m] \in Nat /\ SendInv(vc'[m].sendRing, pushed'[m], origin[m])
        /\ Acked(vc'[m].sendRing, pushed'[m]) = Acked(vc[m].sendRing, pushed[m])
        /\ Seen(vc'[m].sendRing, pushed'[m]) >= Seen(vc[m].sendRing, pushed[m])
        /\ vc'[m].sendRing.tail_sequence = vc[m].sendRing.tail_sequence
        /\ vc[m].arq_state_flag # "ON" => vc'[m] = vc[m]
  <2> TAKE m \in Node
  <2>1. CASE m = n
    BY <1>1, <1>2, <1>3, <1>4, <2>1
  <2>2. CASE m # n
    BY <1>1, <1>2, <1>3, <2>2
  <2> QED BY <2>1, <2>2
<1>6. SessionKept(c)
  BY <1>3, <1>5, LinkConstants DEF SessionKept
<1>7. vc'[c].handshake_send = 0
  BY <1>5 DEF SessionInv, CallerInv
<1>8. /\ CallerInv(c)' /\ AnswererInv(c)' /\ ToCaller(c)' /\ ToAnswerer(c)'
      /\ Joined(c)' <=> Joined(c)
      /\ Live(vc'[c], radio'[c]) = Live(vc[c], radio[c])
  BY <1>1, <1>3, <1>5, <1>6, <1>7, FramesKept DEF SessionInv
<1>9. Flows(c)'
  BY <1>1, <1>3, <1>5, <1>8, FlowsGrow DEF SessionInv
<1> QED BY <1>8, <1>9 DEF SessionInv

\* The application reads a packet.
LEMMA SessionRead ==
  ASSUME NEW c \in Node, SessionInv(c), NEW n \in Node, Read(n)
  PROVE  SessionInv(c)'
<1> DEFINE r == Peer(c)
           ring == vc[n].rcvRing
           ring2 == rcvRing_read_next_received(ring)
           last2 == ring.buff[ring.tail].idx
           L == Live(vc[c], radio[c])
           M == DOMAIN radio[r]
<1>1. LinkInv /\ LinkInv' /\ vc \in [Node -> SkyVirtualChannel]
      /\ lastRead \in [Node -> 0 .. MaxPush]
  BY LinkRead DEF SessionInv, LinkInv, TypeOK
<1>2. /\ r \in Node /\ r # c /\ \A m \in Node : m = c \/ m = r
      /\ vc[n] \in SkyVirtualChannel
      /\ radio[c] \in Seq(Frame) /\ radio[r] \in Seq(Frame)
      /\ pushed[c] \in Nat /\ pushed[r] \in Nat
      /\ origin[c] \in Nat /\ origin[r] \in Nat /\ lastRead[c] \in Nat /\ lastRead[r] \in Nat
      /\ SendInv(vc[c].sendRing, pushed[c], origin[c])
      /\ SendInv(vc[r].sendRing, pushed[r], origin[r])
      /\ L \in SUBSET DOMAIN radio[c] /\ M \in SUBSET DOMAIN radio[r]
  BY <1>1, Ends, EndFacts
<1>3. Ready(ring) # 0
  <2>1. ring \in SkyRcvRing
    BY <1>2, ChannelFields
  <2>2. Ready(ring) = rcvRing_count_readable_packets(ring)
    BY <2>1, RcvFields
  <2> QED BY <2>2 DEF Read
<1>4. /\ vc' = [vc EXCEPT ![n] = [vc[n] EXCEPT !.rcvRing = ring2]]
      /\ lastRead' = [lastRead EXCEPT ![n] = last2]
      /\ radio' = radio /\ clock' = clock /\ pushed' = pushed /\ origin' = origin
  BY <1>1, <1>2 DEF Read, SkyVirtualChannel
<1>5. ring2 = rcvRing_read_next_received(ring) /\ last2 = ring.buff[ring.tail].idx
  OBVIOUS
<1> HIDE DEF r, ring, ring2, last2, L, M
<1>6. /\ vc'[n] = [vc[n] EXCEPT !.rcvRing = ring2] /\ lastRead'[n] = last2
      /\ \A m \in Node : m # n => vc'[m] = vc[m] /\ lastRead'[m] = lastRead[m]
  BY <1>1, <1>4
<1>7. /\ vc'[n].rcvRing = ring2 /\ vc'[n].sendRing = vc[n].sendRing
      /\ vc'[n].arq_state_flag = vc[n].arq_state_flag
      /\ vc'[n].arq_session_identifier = vc[n].arq_session_identifier
      /\ vc'[n].handshake_send = vc[n].handshake_send
  BY <1>2, <1>6 DEF SkyVirtualChannel
<1>8. \A m \in Node :
        /\ vc'[m].sendRing = vc[m].sendRing
        /\ vc'[m].arq_state_flag = vc[m].arq_state_flag
        /\ vc'[m].arq_session_identifier = vc[m].arq_session_identifier
        /\ vc'[m].handshake_send = vc[m].handshake_send
  BY <1>6, <1>7
<1>9. SessionKept(c)
  BY <1>2, <1>4, <1>8 DEF SessionKept, r
<1>10. vc[c].arq_state_flag = "IN_INIT" => n # c
  <2>1. Ready(sky_rcv_ring_wipe(0)) = 0
    BY <1>2, RcvWiped
  <2> QED BY <1>3, <2>1 DEF SessionInv, CallerInv, ring
<1>11. /\ CallerInv(c)' /\ AnswererInv(c)' /\ ToCaller(c)' /\ ToAnswerer(c)'
       /\ Joined(c)' <=> Joined(c)
       /\ Live(vc'[c], radio'[c]) = L
  <2>1. vc[c].arq_state_flag = "IN_INIT" =>
           /\ vc'[c].rcvRing = vc[c].rcvRing /\ lastRead'[c] = lastRead[c]
           /\ origin'[c] = origin[c]
           /\ Seen(vc'[c].sendRing, pushed'[c]) = Seen(vc[c].sendRing, pushed[c])
    BY <1>4, <1>6, <1>10
  <2>2. vc'[c].handshake_send = 0
    BY <1>8 DEF SessionInv, CallerInv
  <2> QED BY <1>1, <1>4, <1>9, <2>1, <2>2, FramesKept DEF SessionInv, L
<1>12. AnswererGood(c)'
  <2> SUFFICES ASSUME vc[r].arq_state_flag = "ON"
               PROVE  \E o \in Nat : RcvGood(vc'[r].rcvRing, lastRead'[r], o, radio[r], M)
    BY <1>2, <1>4, <1>8 DEF AnswererGood, r, M
  <2>1. PICK o \in Nat : RcvGood(vc[r].rcvRing, lastRead[r], o, radio[r], M)
    BY DEF SessionInv, Flows, AnswererGood, r, M
  <2>2. CASE n = r
    <3>1. RcvGood(ring, lastRead[r], o, radio[r], M)
      BY <2>1, <2>2 DEF ring
    <3>2. RcvGood(ring2, last2, o, radio[r], M)
      BY <1>2, <1>3, <1>5, <3>1, RcvReads
    <3> QED BY <1>6, <1>7, <2>2, <3>2
  <2>3. CASE n # r
    BY <1>2, <1>6, <2>1, <2>3
  <2> QED BY <2>2, <2>3
<1>13. ASSUME Joined(c)
       PROVE  Outward(c)' /\ Homeward(c)'
  <2>1. /\ Matched(vc[c].sendRing, pushed[c], origin[c], vc[r].rcvRing, lastRead[r],
                   radio[r], M, radio[c], L)
        /\ Matched(vc[r].sendRing, pushed[r], origin[r], vc[c].rcvRing, lastRead[c],
                   radio[c], L, radio[r], M)
    BY <1>13 DEF SessionInv, Flows, Outward, Homeward, r, L, M
  <2>2. Matched(vc[c].sendRing, pushed[c], origin[c], vc'[r].rcvRing, lastRead'[r],
                radio[r], M, radio[c], L)
    <3>1. CASE n = r
      <4>1. Matched(vc[c].sendRing, pushed[c], origin[c], ring, lastRead[r],
                    radio[r], M, radio[c], L)
        BY <2>1, <3>1 DEF ring
      <4>2. Matched(vc[c].sendRing, pushed[c], origin[c], ring2, last2,
                    radio[r], M, radio[c], L)
        BY <1>2, <1>3, <1>5, <4>1, ReceiverReads
      <4> QED BY <1>6, <1>7, <3>1, <4>2
    <3>2. CASE n # r
      BY <1>2, <1>6, <2>1, <3>2
    <3> QED BY <3>1, <3>2
  <2>3. Matched(vc[r].sendRing, pushed[r], origin[r], vc'[c].rcvRing, lastRead'[c],
                radio[c], L, radio[r], M)
    <3>1. CASE n = c
      <4>1. Matched(vc[r].sendRing, pushed[r], origin[r], ring, lastRead[c],
                    radio[c], L, radio[r], M)
        BY <2>1, <3>1 DEF ring
      <4>2. Matched(vc[r].sendRing, pushed[r], origin[r], ring2, last2,
                    radio[c], L, radio[r], M)
        BY <1>2, <1>3, <1>5, <4>1, ReceiverReads
      <4> QED BY <1>6, <1>7, <3>1, <4>2
    <3>2. CASE n # c
      BY <1>2, <1>6, <2>1, <3>2
    <3> QED BY <3>1, <3>2
  <2> QED BY <1>2, <1>4, <1>8, <1>11, <2>2, <2>3 DEF Outward, Homeward, r, M
<1> QED BY <1>1, <1>11, <1>12, <1>13 DEF SessionInv, Flows

\* The end that connects starts a new session.
LEMMA SessionConnect ==
  ASSUME NEW c \in Node, Growing(c), SessionInv(c), Connect(c)
  PROVE  SessionInv(c)'
<1> DEFINE r == Peer(c)
<1>1. LinkInv /\ LinkInv' /\ vc \in [Node -> SkyVirtualChannel] /\ clock \in [Node -> Nat]
  BY LinkConnect DEF SessionInv, LinkInv, TypeOK
<1>2. PICK time \in ConnectTicks[c] :
        /\ time > clock[c] /\ clock' = [clock EXCEPT ![c] = time]
        /\ vc' = [vc EXCEPT ![c] = sky_vc_wipe_to_arq_init_state(Tick(time))]
  BY DEF Connect
<1> DEFINE identifier == Tick(time)
<1> DEFINE v == sky_vc_wipe_to_arq_init_state(identifier)
<1>3. /\ r \in Node /\ r # c /\ \A m \in Node : m = c \/ m = r
      /\ radio[c] \in Seq(Frame) /\ radio[r] \in Seq(Frame)
      /\ pushed[c] \in Nat /\ clock[c] \in Nat
  BY <1>1, Ends
<1>4. /\ identifier \in Identifiers /\ identifier \in Nat /\ time # 0
      /\ \A x \in Spent(clock[c]) : /\ x \in Identifiers /\ x # identifier
                                    /\ Wire(x) # Wire(identifier) /\ x \in Spent(time)
  <2>1. identifier \in Identifiers /\ identifier \in Nat /\ time \in Nat /\ time # 0
    BY LinkConstants, TickIdentifies
  <2>2. ASSUME NEW x \in Spent(clock[c])
        PROVE  /\ x \in Identifiers /\ x # identifier /\ Wire(x) # Wire(identifier)
               /\ x \in Spent(time)
    <3>1. x \in Identifiers /\ x \in Nat /\ x <= Tick(clock[c]) /\ clock[c] # 0
      BY <1>3, SpentFacts
    <3>2. Tick(clock[c]) < identifier /\ Tick(clock[c]) \in Nat
      BY <1>2, <1>3, <3>1, TickIdentifies DEF Growing, SessionInv, CallerInv
    <3>3. x < identifier
      BY <2>1, <3>1, <3>2
    <3>4. Wire(Wire(x)) = x /\ Wire(Wire(identifier)) = identifier
      BY <2>1, <3>1, WireReverses
    <3>5. x \in Spent(time)
      BY <2>1, <3>1, <3>3 DEF Spent
    <3> HIDE DEF identifier
    <3> QED BY <2>1, <3>1, <3>3, <3>4, <3>5
  <2> QED BY <2>1, <2>2
<1>5. /\ v \in SkyVirtualChannel /\ v.sendRing = sky_send_ring_wipe(0)
      /\ v.rcvRing = sky_rcv_ring_wipe(0) /\ v.arq_state_flag = "IN_INIT"
      /\ v.arq_session_identifier = identifier /\ v.handshake_send = 0
  <2>1. "IN_INIT" \in ArqStates /\ identifier \in Identifiers \cup {0} /\ 0 \in 0 .. 1
    BY <1>4 DEF ArqStates
  <2> QED BY <2>1, WipedChannel DEF sky_vc_wipe_to_arq_init_state
<1> HIDE DEF v, r, identifier
<1>6. /\ vc'[c] = v /\ vc'[r] = vc[r] /\ clock'[c] = time /\ radio' = radio
      /\ identifier = Tick(clock'[c])
  BY <1>1, <1>2, <1>3 DEF Connect, v, identifier
<1>7. /\ pushed'[c] = pushed[c] /\ origin'[c] = pushed[c] /\ lastRead'[c] = 0
      /\ lastRead'[r] = lastRead[r] /\ Restart(c)
  BY <1>1, <1>3, RestartBooks DEF Connect
<1>8. CallerInv(c)'
  <2>1. Seen(sky_send_ring_wipe(0), pushed[c]) = pushed[c]
    BY <1>3, SendWiped
  <2>2. clock'[c] \in ConnectTicks[c] /\ clock'[c] # 0
    BY <1>2, <1>4, <1>6
  <2>3. /\ vc'[c].arq_state_flag = "IN_INIT" /\ vc'[c].handshake_send = 0
        /\ vc'[c].arq_session_identifier = Tick(clock'[c])
        /\ vc'[c].rcvRing = sky_rcv_ring_wipe(0) /\ vc'[c].sendRing = sky_send_ring_wipe(0)
    BY <1>5, <1>6
  <2>4. Seen(vc'[c].sendRing, pushed'[c]) = origin'[c]
    BY <1>7, <2>1, <2>3
  <2> QED BY <1>7, <2>2, <2>3, <2>4 DEF CallerInv
<1>9. \A x \in Spent(clock[c]) : x \in Spent(clock'[c])
  BY <1>4, <1>6
<1>10. \A x : x \in Used(c) => x \in Used(c)' /\ x # Wire(identifier)
  BY <1>4, <1>6, <1>9 DEF Used
<1>11. AnswererInv(c)'
  BY <1>6, <1>10 DEF SessionInv, AnswererInv, r
<1>12. ~Joined(c)'
  BY <1>5, <1>6, <1>10 DEF SessionInv, AnswererInv, Joined, r
<1>13. \A j \in DOMAIN radio[c] : /\ ~Names(radio[c][j], identifier)
  BY <1>4 DEF SessionInv, ToCaller, Names
<1>14. Live(vc'[c], radio'[c]) = {}
  <2>1. \A j \in DOMAIN radio[c] : \A i \in 1 .. j : i \in DOMAIN radio[c]
    BY <1>3
  <2> QED BY <1>5, <1>6, <1>13, <2>1 DEF Live
<1>15. ToCaller(c)'
  BY <1>5, <1>6, <1>9, <1>13, <1>14 DEF SessionInv, ToCaller
<1>16. \A j \in DOMAIN radio[r] : ~Names(radio[r][j], Wire(identifier))
  BY <1>10 DEF SessionInv, ToAnswerer, Names, r
<1>17. ToAnswerer(c)'
  <2>1. /\ \A j \in DOMAIN radio[r] : Shakes(radio[r][j]) =>
              radio[r][j].arq_handshake[1].identifier \in Used(c)'
        /\ \A i, j \in DOMAIN radio[r] : i <= j /\ Shakes(radio[r][i])
             /\ (vc[r].arq_state_flag = "OFF" \/ ~Names(radio[r][i], vc[r].arq_session_identifier))
             => Bare(radio[r][j])
    BY <1>10 DEF SessionInv, ToAnswerer, r
  <2> QED BY <1>6, <1>12, <1>16, <2>1 DEF ToAnswerer, r
<1>18. Flows(c)'
  <2>1. AnswererGood(c)'
    BY <1>6, <1>7 DEF SessionInv, Flows, AnswererGood, r
  <2> QED BY <1>12, <2>1 DEF Flows
<1> QED BY <1>1, <1>8, <1>11, <1>15, <1>17, <1>18 DEF SessionInv

\* How far the frames on their way to an end move up when one leaves at end n.
Shift(n, m) == IF m = n THEN 1 ELSE 0

\* A frame leaves the radio at end n.
LEMMA FrameShift ==
  ASSUME LinkInv, NEW n \in Node, radio[n] # <<>>, radio' = [radio EXCEPT ![n] = Tail(@)],
         NEW m \in Node
  PROVE  /\ Shift(n, m) \in Int /\ DOMAIN radio'[m] \subseteq Int
         /\ \A j \in DOMAIN radio'[m] :
              j + Shift(n, m) \in DOMAIN radio[m] /\ radio'[m][j] = radio[m][j + Shift(n, m)]
         /\ \A v : /\ Live(v, radio'[m]) \subseteq Int /\ Live(v, radio[m]) \subseteq Int
                   /\ \A j \in Live(v, radio'[m]) : 
                        /\ j + Shift(n, m) \in Live(v, radio[m])
                        /\ radio'[m][j] = radio[m][j + Shift(n, m)]
         /\ DOMAIN radio[m] \subseteq Int
<1> DEFINE d == Shift(n, m)
           q == radio[m]
           q2 == radio'[m]
<1>1. q \in Seq(Frame) /\ radio[n] \in Seq(Frame)
  BY EndFacts
<1>2. d \in Int /\ DOMAIN q \subseteq Int /\ \A v : Live(v, q) \subseteq Int
  BY <1>1, LiveFrames DEF Shift
<1>3. /\ DOMAIN q2 \subseteq Int
      /\ \A j \in DOMAIN q2 : j + d \in DOMAIN q /\ q2[j] = q[j + d]
      /\ \A v : \A j \in Live(v, q2) : j + d \in Live(v, q)
  <2>1. CASE m = n
    <3>1. q2 = Tail(q) /\ d = 1 /\ q # <<>>
      BY <2>1, FrameLeaves DEF Shift
    <3> HIDE DEF q, q2, d
    <3> QED BY <1>1, <3>1, TailFrames
  <2>2. CASE m # n
    <3>1. q2 = q /\ d = 0
      BY <2>2, FrameLeaves DEF Shift
    <3> HIDE DEF q, q2, d
    <3>2. \A j \in DOMAIN q : j + d = j
      BY <1>2, <3>1
    <3>3. \A v : \A j \in Live(v, q) : j + d = j
      BY <3>2 DEF Live
    <3> QED BY <1>2, <3>1, <3>2, <3>3
  <2> QED BY <2>1, <2>2
<1>4. \A v : \A j \in Live(v, q2) : j \in DOMAIN q2
  BY DEF Live
<1> HIDE DEF d, q2
<1>5. \A v : Live(v, q2) \subseteq Int
  BY <1>3, <1>4
<1> QED BY <1>2, <1>3, <1>4, <1>5 DEF d, q2

\* A frame is lost.
LEMMA SessionLose ==
  ASSUME NEW c \in Node, SessionInv(c), LinkInv', NEW n \in Node, Lose(n)
  PROVE  SessionInv(c)'
<1> DEFINE r == Peer(c)
           L == Live(vc[c], radio[c])
           M == DOMAIN radio[r]
           L2 == Live(vc[c], radio'[c])
           M2 == DOMAIN radio'[r]
           d == Shift(n, c)
           e == Shift(n, r)
<1>1. /\ LinkInv /\ vc' = vc /\ clock' = clock /\ pushed' = pushed /\ origin' = origin
      /\ lastRead' = lastRead /\ radio[n] # <<>> /\ radio' = [radio EXCEPT ![n] = Tail(@)]
  BY DEF SessionInv, Lose
<1>2. r \in Node /\ origin[c] \in Nat /\ origin[r] \in Nat /\ lastRead[c] \in Nat /\ lastRead[r] \in Nat
  BY <1>1, Ends
<1>3. /\ d \in Int /\ L2 \subseteq Int /\ L \subseteq Int
      /\ \A j \in DOMAIN radio'[c] : j + d \in DOMAIN radio[c] /\ radio'[c][j] = radio[c][j + d]
      /\ \A j \in L2 : j + d \in L /\ radio'[c][j] = radio[c][j + d]
  <2>1. \A v : /\ Live(v, radio'[c]) \subseteq Int /\ Live(v, radio[c]) \subseteq Int
               /\ \A j \in Live(v, radio'[c]) : 
                    /\ j + Shift(n, c) \in Live(v, radio[c])
                    /\ radio'[c][j] = radio[c][j + Shift(n, c)]
    BY <1>1, FrameShift
  <2>2. /\ Shift(n, c) \in Int
        /\ \A j \in DOMAIN radio'[c] :
             j + Shift(n, c) \in DOMAIN radio[c] /\ radio'[c][j] = radio[c][j + Shift(n, c)]
    BY <1>1, FrameShift
  <2> QED BY <2>1, <2>2, Zenon
<1>4. /\ e \in Int /\ M2 \subseteq Int /\ M \subseteq Int
      /\ \A j \in M2 : j + e \in M /\ radio'[r][j] = radio[r][j + e]
  BY <1>1, <1>2, FrameShift
<1>5. SessionKept(c)
  BY <1>1 DEF SessionKept
<1>6. Joined(c)' <=> Joined(c)
  BY <1>5, JoinedKept
<1>7. CallerInv(c)' /\ AnswererInv(c)'
  BY <1>1, <1>5, JoinedKept, CallerKept DEF SessionInv, CallerInv
<1>8. ToCaller(c)'
  <2>1. /\ clock'[c] = clock[c] /\ Live(vc'[c], radio'[c]) = L2
        /\ vc'[c].arq_session_identifier = vc[c].arq_session_identifier
    BY <1>1
  <2> HIDE DEF d, L2
  <2> QED BY <1>3, <1>6, <2>1, ToCallerKept DEF SessionInv
<1>9. ToAnswerer(c)'
  <2>1. /\ clock'[c] = clock[c] /\ r = Peer(c) /\ DOMAIN radio'[r] \subseteq Int
        /\ vc'[r].arq_state_flag = vc[r].arq_state_flag
        /\ vc'[r].arq_session_identifier = vc[r].arq_session_identifier
        /\ vc'[c].arq_state_flag = "IN_INIT" => vc[c].arq_state_flag = "IN_INIT"
    BY <1>1, <1>4
  <2>2. \A j \in DOMAIN radio'[r] : j + e \in DOMAIN radio[r] /\ radio'[r][j] = radio[r][j + e]
    BY <1>4
  <2>3. ToAnswerer(c) /\ e \in Int /\ (Joined(c)' => Joined(c))
    BY <1>4, <1>6 DEF SessionInv
  <2> HIDE DEF e, r
  <2> QED BY <1>2, <2>1, <2>2, <2>3, ToAnswererKept, Zenon
<1> HIDE DEF r, d, e, L, M, L2, M2
<1>10. AnswererGood(c)'
  <2> SUFFICES ASSUME vc[r].arq_state_flag = "ON"
               PROVE  \E o \in Nat : RcvGood(vc[r].rcvRing, lastRead[r], o, radio'[r], M2)
    BY <1>1 DEF AnswererGood, r, M2
  <2>1. PICK o \in Nat : RcvGood(vc[r].rcvRing, lastRead[r], o, radio[r], M)
    BY DEF SessionInv, Flows, AnswererGood, r, M
  <2>2. RcvGood(vc[r].rcvRing, lastRead[r], o, radio'[r], M2)
    BY <1>2, <1>4, <2>1, RcvFewer
  <2> QED BY <2>2
<1>11. ASSUME Joined(c)
       PROVE  Outward(c)' /\ Homeward(c)'
  <2>1. /\ Matched(vc[c].sendRing, pushed[c], origin[c], vc[r].rcvRing, lastRead[r],
                   radio[r], M, radio[c], L)
        /\ Matched(vc[r].sendRing, pushed[r], origin[r], vc[c].rcvRing, lastRead[c],
                   radio[c], L, radio[r], M)
    BY <1>11 DEF SessionInv, Flows, Outward, Homeward, r, L, M
  <2>2. Part(radio'[c], L2, radio[c], L) /\ Part(radio'[r], M2, radio[r], M)
    BY <1>3, <1>4, Zenon DEF Part
  <2>3. Matched(vc[c].sendRing, pushed[c], origin[c], vc[r].rcvRing, lastRead[r],
                radio'[r], M2, radio'[c], L2)
    BY <1>2, <2>1, <2>2, MatchedPart
  <2>4. Matched(vc[r].sendRing, pushed[r], origin[r], vc[c].rcvRing, lastRead[c],
                radio'[c], L2, radio'[r], M2)
    BY <1>2, <2>1, <2>2, MatchedPart
  <2> QED BY <1>1, <2>3, <2>4 DEF Outward, Homeward, r, L2, M2
<1> QED BY <1>6, <1>7, <1>8, <1>9, <1>10, <1>11 DEF SessionInv, Flows

\* A frame without a packet is put on its way.
LEMMA RcvAppended ==
  ASSUME NEW ring, NEW last \in Nat, NEW o \in Nat, NEW q \in Seq(Frame), NEW L \in SUBSET DOMAIN q,
         RcvGood(ring, last, o, q, L), NEW f \in Frame, ~Numbered(f),
         NEW q2, q2 = Append(q, f), NEW L2 \in SUBSET (L \cup {Len(q) + 1})
  PROVE  RcvGood(ring, last, o, q2, L2)
<1> DEFINE m == Len(q) + 1
<1>1. q2[m] = f /\ \A j \in L : q2[j] = q[j]
  OBVIOUS
<1> HIDE DEF m
<1>2. \A j \in L2 : Numbered(q2[j]) => j \in L /\ q2[j] = q[j]
  BY <1>1 DEF m
<1> QED BY <1>2 DEF RcvGood

\* A channel fills the frame f.
Filled(v, v2, f) ==
  \E w, i \in BOOLEAN : v2 = sky_vc_fill_frame(v, w, i) /\ f = FilledFrame(v, w, i)

\* The packets of a channel that transmits.
LEMMA SenderSends ==
  ASSUME NEW v \in SkyVirtualChannel, v.arq_state_flag # "OFF",
         NEW p \in Nat, NEW o \in Nat, SendInv(v.sendRing, p, o),
         NEW f \in Frame, NEW v2, Filled(v, v2, f),
         NEW ring, NEW last \in Nat, NEW q \in Seq(Frame), NEW L \in SUBSET DOMAIN q,
         NEW back \in Seq(Frame), NEW M \in SUBSET DOMAIN back,
         Matched(v.sendRing, p, o, ring, last, q, L, back, M),
         NEW q2, q2 = Append(q, f), NEW L2 \in SUBSET (L \cup {Len(q) + 1})
  PROVE  Matched(v2.sendRing, p, o, ring, last, q2, L2, back, M)
<1> DEFINE send2 == v2.sendRing
<1>1. PICK w \in BOOLEAN, i \in BOOLEAN :
        v2 = sky_vc_fill_frame(v, w, i) /\ f = FilledFrame(v, w, i)
  BY DEF Filled
<1>2. /\ SendInv(send2, p, o) /\ Acked(send2, p) = Acked(v.sendRing, p)
      /\ Seen(send2, p) >= Seen(v.sendRing, p) /\ send2.tail_sequence = v.sendRing.tail_sequence
  BY <1>1, FillState
<1>3. Numbered(f) => /\ Acked(send2, p) < f.payload[1] /\ f.payload[1] <= Seen(send2, p)
                     /\ f.arq_sequence[1] = Num(f.payload[1] - 1 - o)
  <2>1. CASE v.arq_state_flag = "ON"
    BY <1>1, <1>2, <2>1, FrameOn
  <2>2. CASE v.arq_state_flag # "ON"
    <3>1. v.arq_state_flag = "IN_INIT"
      BY <2>2, ChannelFields DEF ArqStates
    <3> QED BY <1>1, <3>1, FrameInit
  <2> QED BY <2>1, <2>2
<1> HIDE DEF send2
<1>4. Matched(send2, p, o, ring, last, q, L, back, M)
  BY <1>2, SenderGrows
<1>5. Matched(send2, p, o, ring, last, q2, L2, back, M)
  BY <1>2, <1>3, <1>4, FrameAppended
<1> QED BY <1>5 DEF send2

\* The acknowledgements of a channel that transmits.
LEMMA ReceiverSends ==
  ASSUME NEW v \in SkyVirtualChannel, v.arq_state_flag # "OFF",
         NEW pv \in Nat, NEW ov \in Nat, SendInv(v.sendRing, pv, ov),
         NEW f \in Frame, NEW v2, Filled(v, v2, f),
         NEW send, NEW p \in Nat, NEW o \in Nat, SendInv(send, p, o), NEW last \in Nat,
         NEW q, NEW L, NEW back \in Seq(Frame), NEW M \in SUBSET DOMAIN back,
         Matched(send, p, o, v.rcvRing, last, q, L, back, M),
         NEW back2, back2 = Append(back, f), NEW M2 \in SUBSET (M \cup {Len(back) + 1})
  PROVE  Matched(send, p, o, v.rcvRing, last, q, L, back2, M2)
<1>1. PICK w \in BOOLEAN, i \in BOOLEAN :
        v2 = sky_vc_fill_frame(v, w, i) /\ f = FilledFrame(v, w, i)
  BY DEF Filled
<1>2. f.arq_ctrl # <<>> => f.arq_ctrl[1].rx_sequence = v.rcvRing.head_sequence
  <2>1. CASE v.arq_state_flag = "ON"
    BY <1>1, <2>1, FrameOn
  <2>2. CASE v.arq_state_flag # "ON"
    <3>1. v.arq_state_flag = "IN_INIT"
      BY <2>2, ChannelFields DEF ArqStates
    <3> QED BY <1>1, <3>1, FrameInit DEF Bare
  <2> QED BY <2>1, <2>2
<1> DEFINE ring == v.rcvRing
<1>3. /\ Matched(send, p, o, ring, last, q, L, back, M)
      /\ f.arq_ctrl # <<>> => f.arq_ctrl[1].rx_sequence = ring.head_sequence
  BY <1>2
<1> HIDE DEF ring
<1>4. Matched(send, p, o, ring, last, q, L, back2, M2)
  BY <1>3, AckAppended
<1> QED BY <1>4 DEF ring

\* A frame of the end that answers is put on its way to the end that connects.
LEMMA ToCallerGrows ==
  ASSUME NEW c \in Node, ToCaller(c), radio[c] \in Seq(Frame), NEW f \in Frame,
         radio'[c] = Append(radio[c], f), SessionKept(c), vc[c].arq_state_flag = "ON" => Joined(c),
         Shakes(f) => /\ f.arq_handshake[1].identifier \in Spent(clock[c])
                      /\ f.arq_handshake[1].peer_state = "ON"
                      /\ Names(f, vc[c].arq_session_identifier) <=> Joined(c)
  PROVE  ToCaller(c)'
<1> DEFINE q == radio[c]
           q2 == radio'[c]
           own == vc[c].arq_session_identifier
           m == Len(q) + 1
<1>1. /\ DOMAIN q2 = DOMAIN q \cup {m} /\ q2[m] = f /\ m \in Int
      /\ \A j \in DOMAIN q : q2[j] = q[j] /\ j < m /\ j \in Int
      /\ \A v : Live(v, q2) \subseteq Live(v, q) \cup {m}
  <2>1. q \in Seq(Frame) /\ q2 = Append(q, f)
    OBVIOUS
  <2> HIDE DEF q, q2
  <2>2. \A v : Live(v, q2) \subseteq Live(v, q) \cup {m}
    BY <2>1, AppendFrames
  <2>3. /\ DOMAIN q2 = DOMAIN q \cup {m} /\ q2[m] = f /\ m \in Int
        /\ \A j \in DOMAIN q : q2[j] = q[j] /\ j < m /\ j \in Int
    BY <2>1, AppendFrames
  <2> QED BY <2>2, <2>3
<1>2. /\ Joined(c)' <=> Joined(c)
      /\ Live(vc'[c], q2) = Live(vc[c], q2)
      /\ clock'[c] = clock[c] /\ vc'[c].arq_session_identifier = own
  BY JoinedKept DEF SessionKept
<1>3. \A j \in DOMAIN q2 : Names(q2[j], own) => Joined(c)
  BY <1>1 DEF ToCaller, Names
<1>4. m \in Live(vc[c], q2) => Joined(c)
  <2>1. \A j \in 1 .. m : j \in DOMAIN q2
    BY <1>1
  <2> HIDE DEF q2, m
  <2> QED BY <1>3, <2>1 DEF Live
<1>5. \A j \in DOMAIN q2 : Shakes(q2[j]) =>
         /\ q2[j].arq_handshake[1].identifier \in Spent(clock[c])
         /\ q2[j].arq_handshake[1].peer_state = "ON"
  BY <1>1 DEF ToCaller
<1>6. \A j \in Live(vc[c], q2) : Shakes(q2[j]) => Names(q2[j], own)
  <2> SUFFICES ASSUME NEW j \in Live(vc[c], q2), Shakes(q2[j])
               PROVE  Names(q2[j], own)
    OBVIOUS
  <2>1. CASE j \in Live(vc[c], q)
    <3>1. j \in DOMAIN q
      BY <2>1 DEF Live
    <3> QED BY <1>1, <2>1, <3>1 DEF ToCaller
  <2>2. CASE j = m
    BY <1>1, <1>4, <2>2
  <2> QED BY <1>1, <2>1, <2>2
<1> QED BY <1>2, <1>3, <1>5, <1>6 DEF ToCaller

\* A frame of the end that connects is put on its way to the end that answers.
LEMMA ToAnswererGrows ==
  ASSUME NEW c \in Node, ToAnswerer(c), NEW r, r = Peer(c), radio[r] \in Seq(Frame), NEW f \in Frame,
         radio'[r] = Append(radio[r], f), SessionKept(c),
         Shakes(f) => Names(f, Wire(Tick(clock[c]))) /\ Wire(Tick(clock[c])) \in Used(c),
         Bare(f) \/ (~Shakes(f) /\ \A i \in DOMAIN radio[r] : Shakes(radio[r][i]) =>
                       /\ vc[r].arq_state_flag # "OFF"
                       /\ Names(radio[r][i], vc[r].arq_session_identifier)),
         Joined(c) /\ vc[c].arq_state_flag = "IN_INIT" => Bare(f)
  PROVE  ToAnswerer(c)'
<1> DEFINE q == radio[r]
           q2 == radio'[r]
           m == Len(q) + 1
<1>1. /\ DOMAIN q2 = DOMAIN q \cup {m} /\ q2[m] = f /\ m \in Int /\ ~(m < m)
      /\ \A j \in DOMAIN q : q2[j] = q[j] /\ j < m /\ j \in Int /\ ~(m <= j)
  BY AppendFrames
<1>2. /\ Joined(c)' <=> Joined(c)
      /\ vc'[r].arq_state_flag = vc[r].arq_state_flag
      /\ vc'[c].arq_state_flag = vc[c].arq_state_flag
      /\ vc'[r].arq_session_identifier = vc[r].arq_session_identifier
      /\ clock'[c] = clock[c] /\ Used(c)' = Used(c)
  BY JoinedKept DEF SessionKept, Used
<1> HIDE DEF m
<1>3. \A j \in DOMAIN q2 : Shakes(q2[j]) => q2[j].arq_handshake[1].identifier \in Used(c)
  BY <1>1 DEF ToAnswerer, Names
<1>4. \A i, j \in DOMAIN q2 : i <= j /\ Shakes(q2[i])
        /\ (vc[r].arq_state_flag = "OFF" \/ ~Names(q2[i], vc[r].arq_session_identifier)) => Bare(q2[j])
  BY <1>1 DEF ToAnswerer
<1>5. \A i, j \in DOMAIN q2 : i <= j /\ Names(q2[i], Wire(Tick(clock[c]))) /\ Shakes(q2[j])
        => Names(q2[j], Wire(Tick(clock[c])))
  BY SMTT(30), <1>1 DEF ToAnswerer
<1>6. Joined(c) => \A j \in DOMAIN q2 : Shakes(q2[j]) => Names(q2[j], Wire(Tick(clock[c])))
  BY <1>1 DEF ToAnswerer
<1>7. Joined(c) /\ vc[c].arq_state_flag = "IN_INIT" => \A j \in DOMAIN q2 : Bare(q2[j])
  BY <1>1 DEF ToAnswerer
<1> HIDE DEF q2
<1>8. /\ \A j \in DOMAIN q2 : Shakes(q2[j]) => q2[j].arq_handshake[1].identifier \in Used(c)'
      /\ \A i, j \in DOMAIN q2 : i <= j /\ Shakes(q2[i])
           /\ (vc'[r].arq_state_flag = "OFF" \/ ~Names(q2[i], vc'[r].arq_session_identifier)) => Bare(q2[j])
      /\ \A i, j \in DOMAIN q2 : i <= j /\ Names(q2[i], Wire(Tick(clock'[c]))) /\ Shakes(q2[j])
           => Names(q2[j], Wire(Tick(clock'[c])))
      /\ Joined(c)' => \A j \in DOMAIN q2 : Shakes(q2[j]) => Names(q2[j], Wire(Tick(clock'[c])))
      /\ Joined(c)' /\ vc'[c].arq_state_flag = "IN_INIT" => \A j \in DOMAIN q2 : Bare(q2[j])
  BY <1>2, <1>3, <1>4, <1>5, <1>6, <1>7
<1> QED BY <1>8 DEF ToAnswerer, q2

\* What an end that transmits a frame leaves of the session.
LEMMA TransmitKeeps ==
  ASSUME NEW c \in Node, LinkInv, CallerInv(c), AnswererInv(c), NEW n \in Node,
         NEW w \in BOOLEAN, NEW i \in BOOLEAN,
         Transmit(n, w, i)
  PROVE  /\ LinkInv' /\ FilledFrame(vc[n], w, i) \in Frame
         /\ vc'[n] = sky_vc_fill_frame(vc[n], w, i)
         /\ \A m \in Node : m # n => vc'[m] = vc[m] /\ radio'[m] = Append(radio[m], FilledFrame(vc[n], w, i))
         /\ radio'[n] = radio[n]
         /\ pushed' = pushed /\ origin' = origin /\ lastRead' = lastRead
         /\ \A m \in Node : vc'[m].rcvRing = vc[m].rcvRing
         /\ SessionKept(c) /\ CallerInv(c)' /\ AnswererInv(c)'
<1> DEFINE f == FilledFrame(vc[n], w, i)
           v == sky_vc_fill_frame(vc[n], w, i)
<1>1. LinkInv' /\ f \in Frame
  BY LinkTransmit
<1>2. /\ Peer(n) \in Node /\ Peer(n) # n /\ \A m \in Node : m # n => m = Peer(n)
      /\ Peer(c) \in Node
  BY LinkConstants
<1>3. /\ vc \in [Node -> SkyVirtualChannel] /\ radio \in [Node -> Seq(Frame)]
      /\ vc[n] \in SkyVirtualChannel /\ pushed[n] \in Nat /\ origin[n] \in Nat
      /\ SendInv(vc[n].sendRing, pushed[n], origin[n])
  BY EndFacts DEF LinkInv, TypeOK
<1>4. /\ v.rcvRing = vc[n].rcvRing /\ v.arq_state_flag = vc[n].arq_state_flag
      /\ v.arq_session_identifier = vc[n].arq_session_identifier
      /\ v.handshake_send \in {0, vc[n].handshake_send}
      /\ vc[n].arq_state_flag = "IN_INIT" => v = vc[n]
  BY <1>3, FillState
<1> HIDE DEF f, v
<1>5. /\ radio' = [radio EXCEPT ![Peer(n)] = Append(radio[Peer(n)], f)]
      /\ vc' = [vc EXCEPT ![n] = v]
      /\ clock' = clock /\ pushed' = pushed /\ origin' = origin /\ lastRead' = lastRead
  BY <1>2, <1>3 DEF Transmit, f, v
<1>6. vc'[n] = v /\ \A m \in Node : m # n => vc'[m] = vc[m]
  BY <1>3, <1>5
<1>7. radio'[n] = radio[n] /\ \A m \in Node : m # n => radio'[m] = Append(radio[m], f)
  BY <1>2, <1>3, <1>5
<1>8. \A m \in Node :
        /\ vc'[m].rcvRing = vc[m].rcvRing /\ vc'[m].arq_state_flag = vc[m].arq_state_flag
        /\ vc'[m].arq_session_identifier = vc[m].arq_session_identifier
        /\ vc'[m].handshake_send \in {0, vc[m].handshake_send}
        /\ vc[m].arq_state_flag = "IN_INIT" => vc'[m] = vc[m]
  BY <1>4, <1>6
<1>9. SessionKept(c)
  BY <1>2, <1>5, <1>8 DEF SessionKept
<1>10. CallerInv(c)'
  <2>1. vc'[c].handshake_send = 0
    BY <1>8 DEF CallerInv
  <2> QED BY <1>5, <1>8, <1>9, <2>1, CallerKept
<1>11. AnswererInv(c)'
  BY <1>9, JoinedKept
<1> QED BY <1>1, <1>5, <1>6, <1>7, <1>8, <1>9, <1>10, <1>11 DEF f, v

\* The end that connects transmits a frame.
LEMMA CallerTransmits ==
  ASSUME NEW c \in Node, SessionInv(c), NEW w \in BOOLEAN, NEW i \in BOOLEAN, Transmit(c, w, i)
  PROVE  SessionInv(c)'
<1> DEFINE r == Peer(c)
           f == FilledFrame(vc[c], w, i)
           L == Live(vc[c], radio[c])
           M == DOMAIN radio[r]
           M2 == DOMAIN radio'[r]
<1>1. /\ LinkInv /\ CallerInv(c) /\ AnswererInv(c) /\ ToCaller(c) /\ ToAnswerer(c) /\ Flows(c)
  BY DEF SessionInv
<1>2. /\ r \in Node /\ r # c
      /\ vc[c] \in SkyVirtualChannel /\ vc[r] \in SkyVirtualChannel
      /\ radio[c] \in Seq(Frame) /\ radio[r] \in Seq(Frame)
      /\ pushed[c] \in Nat /\ pushed[r] \in Nat
      /\ origin[c] \in Nat /\ origin[r] \in Nat /\ lastRead[c] \in Nat /\ lastRead[r] \in Nat
      /\ SendInv(vc[c].sendRing, pushed[c], origin[c])
      /\ SendInv(vc[r].sendRing, pushed[r], origin[r])
      /\ L \in SUBSET DOMAIN radio[c] /\ M \in SUBSET DOMAIN radio[r]
      /\ clock[c] \in Nat
  BY <1>1, Ends
<1>3. /\ LinkInv' /\ f \in Frame /\ vc'[c] = sky_vc_fill_frame(vc[c], w, i)
      /\ vc'[r] = vc[r] /\ radio'[r] = Append(radio[r], f) /\ radio'[c] = radio[c]
      /\ pushed' = pushed /\ origin' = origin /\ lastRead' = lastRead
      /\ vc'[c].rcvRing = vc[c].rcvRing
      /\ SessionKept(c) /\ CallerInv(c)' /\ AnswererInv(c)'
  BY <1>1, <1>2, TransmitKeeps
<1>4. f = FilledFrame(vc[c], w, i) /\ r = Peer(c)
  OBVIOUS
<1> HIDE DEF r, f, L, M, M2
<1>5. /\ Joined(c)' <=> Joined(c)
      /\ Live(vc'[c], radio'[c]) = L
      /\ clock' = clock /\ vc'[c].arq_session_identifier = vc[c].arq_session_identifier
      /\ vc'[r].arq_state_flag = vc[r].arq_state_flag
  BY <1>3, JoinedKept DEF SessionKept, L, r
<1>6. ToCaller(c)'
  <2>1. /\ 0 \in Int /\ \A j \in DOMAIN radio[c] : j + 0 = j
        /\ \A j \in L : j \in DOMAIN radio[c]
    BY <1>2
  <2>2. \A j \in DOMAIN radio'[c] : j + 0 \in DOMAIN radio[c] /\ radio'[c][j] = radio[c][j + 0]
    BY <1>3, <2>1
  <2>3. \A j \in Live(vc'[c], radio'[c]) : j + 0 \in Live(vc[c], radio[c])
    BY <1>5, <2>1 DEF L
  <2>4. clock'[c] = clock[c]
    BY <1>5
  <2> QED BY <1>1, <1>5, <2>1, <2>2, <2>3, <2>4, ToCallerKept
<1>7. vc[c].arq_state_flag \in {"OFF", "IN_INIT", "ON"}
  BY <1>2, ChannelFields DEF ArqStates
<1>8. vc[c].arq_state_flag = "IN_INIT" => Bare(f) /\ ~Numbered(f)
  BY <1>4, FrameInit
<1>9. ToAnswerer(c)'
  <2>1. Shakes(f) => Names(f, Wire(Tick(clock[c]))) /\ Wire(Tick(clock[c])) \in Used(c)
    <3>1. CASE vc[c].arq_state_flag = "OFF"
      BY <1>4, <3>1, FrameOff
    <3>2. CASE vc[c].arq_state_flag = "IN_INIT"
      <4>1. vc[c].arq_session_identifier = Tick(clock[c]) /\ clock[c] # 0
        BY <1>1, <1>2, <3>2 DEF CallerInv
      <4>2. Tick(clock[c]) \in Spent(clock[c])
        BY <1>2, <4>1, SpentFacts
      <4> QED BY <1>4, <3>2, <4>1, <4>2, FrameInit DEF Names, Used
    <3>3. CASE vc[c].arq_state_flag = "ON"
      BY <1>1, <1>2, <1>4, <3>3, FrameOn DEF CallerInv
    <3> QED BY <1>7, <3>1, <3>2, <3>3
  <2>2. Bare(f) \/ (~Shakes(f) /\ \A j \in DOMAIN radio[r] : Shakes(radio[r][j]) =>
                       /\ vc[r].arq_state_flag # "OFF"
                       /\ Names(radio[r][j], vc[r].arq_session_identifier))
    <3>1. CASE vc[c].arq_state_flag = "OFF"
      <4>1. Used(c) = {}
        BY <1>1, <3>1 DEF CallerInv, Used, Spent
      <4>2. \A j \in DOMAIN radio[r] : ~Shakes(radio[r][j])
        BY <1>1, <4>1 DEF ToAnswerer, r
      <4> QED BY <1>4, <3>1, <4>2, FrameOff
    <3>2. CASE vc[c].arq_state_flag = "ON"
      <4>1. ~Shakes(f)
        BY <1>1, <1>2, <1>4, <3>2, FrameOn DEF CallerInv
      <4>2. /\ vc[r].arq_state_flag = "ON" /\ vc[r].arq_session_identifier = Wire(Tick(clock[c]))
            /\ \A j \in DOMAIN radio[r] : Shakes(radio[r][j]) => Names(radio[r][j], Wire(Tick(clock[c])))
        BY <1>1, <3>2 DEF CallerInv, ToAnswerer, Joined, r
      <4> QED BY <4>1, <4>2
    <3> QED BY <1>7, <1>8, <3>1, <3>2
  <2> QED BY <1>1, <1>2, <1>3, <1>4, <1>8, <2>1, <2>2, ToAnswererGrows
<1>10. M2 \in SUBSET (M \cup {Len(radio[r]) + 1})
  BY <1>2, <1>3, AppendFrames DEF M, M2
<1>11. ASSUME Joined(c)
       PROVE  Outward(c)' /\ Homeward(c)'
  <2>1. /\ Matched(vc[c].sendRing, pushed[c], origin[c], vc[r].rcvRing, lastRead[r],
                   radio[r], M, radio[c], L)
        /\ Matched(vc[r].sendRing, pushed[r], origin[r], vc[c].rcvRing, lastRead[c],
                   radio[c], L, radio[r], M)
        /\ vc[c].arq_state_flag # "OFF"
    BY <1>1, <1>11 DEF Flows, Outward, Homeward, Joined, r, L, M
  <2> DEFINE v2 == vc'[c]
  <2>2. Filled(vc[c], v2, f)
    BY <1>3, <1>4 DEF Filled
  <2> HIDE DEF v2
  <2>3. Matched(v2.sendRing, pushed[c], origin[c], vc[r].rcvRing, lastRead[r],
                radio'[r], M2, radio[c], L)
    BY <1>2, <1>3, <1>10, <2>1, <2>2, SenderSends
  <2>4. Matched(vc[r].sendRing, pushed[r], origin[r], vc[c].rcvRing, lastRead[c],
                radio[c], L, radio'[r], M2)
    BY <1>2, <1>3, <1>10, <2>1, <2>2, ReceiverSends
  <2> QED BY <1>3, <1>5, <2>3, <2>4 DEF Outward, Homeward, r, L, M2, v2
<1>12. AnswererGood(c)'
  <2> SUFFICES ASSUME vc[r].arq_state_flag = "ON"
               PROVE  \E o \in Nat : RcvGood(vc[r].rcvRing, lastRead[r], o, radio'[r], M2)
    BY <1>3, <1>5 DEF AnswererGood, r, M2
  <2>1. CASE Joined(c)
    BY <1>2, <1>3, <1>11, <2>1 DEF Outward, Matched, r, M2
  <2>2. CASE ~Joined(c)
    <3>1. ~Numbered(f)
      BY <1>1, <1>7, <1>8, <2>2 DEF CallerInv, r
    <3>2. PICK o \in Nat : RcvGood(vc[r].rcvRing, lastRead[r], o, radio[r], M)
      BY <1>1 DEF Flows, AnswererGood, r, M
    <3>3. RcvGood(vc[r].rcvRing, lastRead[r], o, radio'[r], M2)
      BY <1>2, <1>3, <1>10, <3>1, <3>2, RcvAppended
    <3> QED BY <3>3
  <2> QED BY <2>1, <2>2
<1> QED BY <1>3, <1>5, <1>6, <1>9, <1>11, <1>12 DEF SessionInv, Flows

\* The end that answers transmits a frame.
LEMMA AnswererTransmits ==
  ASSUME NEW c \in Node, SessionInv(c), NEW w \in BOOLEAN, NEW i \in BOOLEAN,
         Transmit(Peer(c), w, i)
  PROVE  SessionInv(c)'
<1> DEFINE r == Peer(c)
           f == FilledFrame(vc[r], w, i)
           L == Live(vc[c], radio[c])
           L2 == Live(vc'[c], radio'[c])
           M == DOMAIN radio[r]
<1>1. /\ LinkInv /\ CallerInv(c) /\ AnswererInv(c) /\ ToCaller(c) /\ ToAnswerer(c) /\ Flows(c)
  BY DEF SessionInv
<1>2. /\ r \in Node /\ r # c
      /\ vc[c] \in SkyVirtualChannel /\ vc[r] \in SkyVirtualChannel
      /\ radio[c] \in Seq(Frame) /\ radio[r] \in Seq(Frame)
      /\ pushed[c] \in Nat /\ pushed[r] \in Nat
      /\ origin[c] \in Nat /\ origin[r] \in Nat /\ lastRead[c] \in Nat /\ lastRead[r] \in Nat
      /\ SendInv(vc[c].sendRing, pushed[c], origin[c])
      /\ SendInv(vc[r].sendRing, pushed[r], origin[r])
      /\ L \in SUBSET DOMAIN radio[c] /\ M \in SUBSET DOMAIN radio[r]
      /\ clock[c] \in Nat
  BY <1>1, Ends
<1>3. /\ LinkInv' /\ f \in Frame /\ vc'[r] = sky_vc_fill_frame(vc[r], w, i)
      /\ vc'[c] = vc[c] /\ radio'[c] = Append(radio[c], f) /\ radio'[r] = radio[r]
      /\ pushed' = pushed /\ origin' = origin /\ lastRead' = lastRead
      /\ vc'[r].rcvRing = vc[r].rcvRing
      /\ SessionKept(c) /\ CallerInv(c)' /\ AnswererInv(c)'
  BY <1>1, <1>2, TransmitKeeps
<1>4. f = FilledFrame(vc[r], w, i) /\ r = Peer(c)
  OBVIOUS
<1> HIDE DEF r, f, L, L2, M
<1>5. /\ Joined(c)' <=> Joined(c)
      /\ clock' = clock
      /\ vc'[r].arq_session_identifier = vc[r].arq_session_identifier
      /\ vc'[r].arq_state_flag = vc[r].arq_state_flag
  BY <1>3, <1>4, JoinedKept DEF SessionKept
<1>6. ToAnswerer(c)'
  <2>1. /\ 0 \in Int /\ DOMAIN radio'[r] \subseteq Int
        /\ \A j \in DOMAIN radio[r] : j + 0 = j
    BY <1>2, <1>3
  <2>2. \A j \in DOMAIN radio'[r] : j + 0 \in DOMAIN radio[r] /\ radio'[r][j] = radio[r][j + 0]
    BY <1>3, <2>1
  <2>3. /\ clock'[c] = clock[c] /\ (Joined(c)' => Joined(c))
        /\ vc'[c].arq_state_flag = "IN_INIT" => vc[c].arq_state_flag = "IN_INIT"
    BY <1>3, <1>5
  <2> QED BY <1>1, <1>2, <1>4, <1>5, <2>1, <2>2, <2>3, ToAnswererKept
<1>7. ToCaller(c)'
  <2>1. Shakes(f) => /\ f.arq_handshake[1].identifier \in Spent(clock[c])
                     /\ f.arq_handshake[1].peer_state = "ON"
                     /\ Names(f, vc[c].arq_session_identifier) <=> Joined(c)
    <3>1. CASE vc[r].arq_state_flag = "ON"
      <4>1. PICK x \in Spent(clock[c]) : vc[r].arq_session_identifier = Wire(x)
        BY <1>1, <1>4, <3>1 DEF AnswererInv, Used
      <4>2. /\ vc[c].arq_state_flag # "OFF" /\ vc[c].arq_session_identifier = Tick(clock[c])
            /\ Tick(clock[c]) \in Identifiers
        BY <1>1, <1>2, <1>4, <3>1, TickIdentifies DEF CallerInv
      <4>3. x \in Identifiers
        BY <1>2, SpentFacts
      <4>4. Wire(Wire(x)) = x /\ Wire(Wire(Tick(clock[c]))) = Tick(clock[c])
        BY <4>2, <4>3, WireReverses
      <4>5. Shakes(f) => /\ f.arq_handshake[1].identifier = x
                         /\ f.arq_handshake[1].peer_state = "ON"
        <5>1. Shakes(f) => /\ f.arq_handshake[1].identifier = Wire(vc[r].arq_session_identifier)
                           /\ f.arq_handshake[1].peer_state = "ON"
          BY SMTT(30), <1>2, <1>4, <3>1, FrameOn
        <5> QED BY <4>1, <4>4, <5>1
      <4>6. Joined(c) <=> x = Tick(clock[c])
        BY <1>4, <3>1, <4>1, <4>2, <4>4 DEF Joined
      <4> QED BY <4>2, <4>5, <4>6 DEF Names
    <3>2. CASE vc[r].arq_state_flag # "ON"
      <4>1. vc[r].arq_state_flag = "OFF"
        BY <1>1, <1>2, <1>4, <3>2, ChannelFields DEF ArqStates, AnswererInv
      <4> QED BY <1>4, <4>1, FrameOff
    <3> QED BY <3>1, <3>2
  <2> QED BY <1>1, <1>2, <1>3, <2>1, ToCallerGrows DEF CallerInv
<1>8. L2 \in SUBSET (L \cup {Len(radio[c]) + 1})
  <2>1. \A v : Live(v, radio'[c]) \subseteq Live(v, radio[c]) \cup {Len(radio[c]) + 1}
    BY <1>2, <1>3, AppendFrames
  <2> QED BY <1>3, <2>1 DEF L, L2
<1>9. ASSUME Joined(c)
      PROVE  Outward(c)' /\ Homeward(c)'
  <2>1. /\ Matched(vc[c].sendRing, pushed[c], origin[c], vc[r].rcvRing, lastRead[r],
                   radio[r], M, radio[c], L)
        /\ Matched(vc[r].sendRing, pushed[r], origin[r], vc[c].rcvRing, lastRead[c],
                   radio[c], L, radio[r], M)
        /\ vc[r].arq_state_flag # "OFF"
    BY <1>1, <1>9 DEF Flows, Outward, Homeward, Joined, r, L, M
  <2> DEFINE v2 == vc'[r]
  <2>2. Filled(vc[r], v2, f)
    BY <1>3, <1>4 DEF Filled
  <2> HIDE DEF v2
  <2>3. Matched(vc[c].sendRing, pushed[c], origin[c], vc[r].rcvRing, lastRead[r],
                radio[r], M, radio'[c], L2)
    BY <1>2, <1>3, <1>8, <2>1, <2>2, ReceiverSends
  <2>4. Matched(v2.sendRing, pushed[r], origin[r], vc[c].rcvRing, lastRead[c],
                radio'[c], L2, radio[r], M)
    <3>1. f \in Frame /\ radio'[c] = Append(radio[c], f)
      BY <1>3
    <3> DEFINE q == radio[c]
               q2 == radio'[c]
    <3>2. /\ q \in Seq(Frame) /\ L \in SUBSET DOMAIN q /\ L2 \in SUBSET (L \cup {Len(q) + 1})
          /\ q2 = Append(q, f)
          /\ Matched(vc[r].sendRing, pushed[r], origin[r], vc[c].rcvRing, lastRead[c],
                     q, L, radio[r], M)
      BY <1>2, <1>8, <2>1, <3>1
    <3> HIDE DEF q, q2
    <3>3. Matched(v2.sendRing, pushed[r], origin[r], vc[c].rcvRing, lastRead[c],
                  q2, L2, radio[r], M)
      BY <1>2, <2>1, <2>2, <3>1, <3>2, SenderSends
    <3> QED BY <3>3 DEF q2
  <2> QED BY <1>3, <2>3, <2>4 DEF Outward, Homeward, r, L2, M, v2
<1>10. AnswererGood(c)'
  BY <1>1, <1>3, <1>4, <1>5 DEF Flows, AnswererGood
<1> QED BY <1>3, <1>5, <1>6, <1>7, <1>9, <1>10 DEF SessionInv, Flows

\* A receive ring that starts over is in step with a sender that has transmitted
\* nothing since it did.
LEMMA WipedMatched ==
  ASSUME NEW send, NEW p \in Nat, NEW o \in Nat, SendInv(send, p, o), Seen(send, p) = o,
         NEW q, NEW L, \A j \in L : ~Numbered(q[j]),
         NEW back, NEW M, \A j \in M : back[j].arq_ctrl = <<>>
  PROVE  Matched(send, p, o, sky_rcv_ring_wipe(0), 0, q, L, back, M)
<1> DEFINE ring == sky_rcv_ring_wipe(0)
<1>1. Base(0, o) = o
  BY DEF Base
<1>2. RcvInv(ring, o, o) /\ Got(ring, o) = o /\ RcvRingHeld(ring) = {}
  BY RcvWiped
<1>3. Acked(send, p) \in Nat /\ Acked(send, p) <= Seen(send, p)
  BY SendOrder
<1> HIDE DEF ring
<1>4. RcvGood(ring, 0, o, q, L)
  BY <1>1, <1>2 DEF RcvGood
<1>5. Got(ring, Base(0, o)) = o
  BY <1>1, <1>2
<1>6. Matched(send, p, o, ring, 0, q, L, back, M)
  BY <1>2, <1>3, <1>4, <1>5 DEF Matched
<1> QED BY <1>6 DEF ring

\* What an end that receives a frame leaves of the link: the handshake, then the
\* rest.
LEMMA ReceiveFacts ==
  ASSUME LinkInv, NEW n \in Node, Receive(n), NEW f, f = Head(radio[n]),
         NEW u, u = Shaken(vc[n], f)
  PROVE  /\ LinkInv' /\ f \in Frame /\ f = radio[n][1] /\ 1 \in DOMAIN radio[n]
         /\ radio[n] # <<>> /\ radio' = [radio EXCEPT ![n] = Tail(@)]
         /\ u \in SkyVirtualChannel /\ vc'[n] \in SkyVirtualChannel
         /\ SameSession(u, vc'[n])
         /\ SenderMoves(u.sendRing, vc'[n].sendRing, f, pushed'[n], origin'[n])
         /\ u.arq_state_flag = "ON" => ReceiverMoves(u.rcvRing, vc'[n].rcvRing, f)
         /\ u.arq_state_flag = "IN_INIT" => vc'[n] = u
         /\ SendInv(u.sendRing, pushed'[n], origin'[n])
         /\ clock' = clock /\ pushed' = pushed
         /\ \A m \in Node : m # n => /\ vc'[m] = vc[m] /\ radio'[m] = radio[m]
                                     /\ origin'[m] = origin[m] /\ lastRead'[m] = lastRead[m]
         /\ HandshakeWipes(vc[n], f) => origin'[n] = pushed[n] /\ lastRead'[n] = 0
         /\ ~HandshakeWipes(vc[n], f) => origin' = origin /\ lastRead' = lastRead
<1> DEFINE v == Processed(u, f)
<1>1. /\ LinkInv' /\ f \in Frame /\ f = radio[n][1] /\ 1 \in DOMAIN radio[n]
      /\ \A m \in Node : m # n => radio'[m] = radio[m]
      /\ vc[n] \in SkyVirtualChannel
  <2>1. LinkInv' /\ f \in Frame /\ \A m \in Node : m # n => radio'[m] = radio[m]
    BY LinkReceive, FrameLeaves DEF Receive
  <2>2. radio[n] \in Seq(Frame) /\ radio[n] # <<>> /\ vc[n] \in SkyVirtualChannel
    BY EndFacts DEF Receive
  <2> QED BY <2>1, <2>2, TailFrames
<1>2. vc' = [vc EXCEPT ![n] = v]
  <2>1. vc' = [vc EXCEPT ![n] = sky_vc_process_frame(vc[n], f)]
    BY DEF Receive, LinkInv, TypeOK
  <2>2. sky_vc_process_frame(vc[n], f) = v
    BY ShakenThenProcessed
  <2> HIDE DEF v
  <2> QED BY <2>1, <2>2
<1>3. /\ pushed' = pushed /\ clock' = clock
      /\ \A m \in Node : m # n => origin'[m] = origin[m] /\ lastRead'[m] = lastRead[m]
      /\ HandshakeWipes(vc[n], f) => origin'[n] = pushed[n] /\ lastRead'[n] = 0
      /\ ~HandshakeWipes(vc[n], f) => origin' = origin /\ lastRead' = lastRead
  <2>1. CASE HandshakeWipes(vc[n], f)
    <3>1. Restart(n) /\ clock' = clock
      BY <2>1 DEF Receive
    <3> QED BY <2>1, <3>1, RestartBooks
  <2>2. CASE ~HandshakeWipes(vc[n], f)
    BY <2>2 DEF Receive
  <2> QED BY <2>1, <2>2
<1>4. u \in SkyVirtualChannel /\ SendInv(u.sendRing, pushed'[n], origin'[n])
      /\ pushed'[n] \in Nat /\ origin'[n] \in Nat
  <2>1. pushed[n] \in Nat /\ origin[n] \in Nat /\ SendInv(vc[n].sendRing, pushed[n], origin[n])
    BY EndFacts
  <2>2. CASE HandshakeWipes(vc[n], f)
    <3>1. u \in SkyVirtualChannel /\ u.sendRing = sky_send_ring_wipe(0)
      BY <1>1, <2>2, HandshakeTaken
    <3> QED BY <1>3, <2>1, <2>2, <3>1, SendWiped
  <2>3. CASE ~HandshakeWipes(vc[n], f)
    <3>1. u \in SkyVirtualChannel /\ u.sendRing = vc[n].sendRing
      BY <1>1, <2>3, HandshakeTaken
    <3> QED BY <1>3, <2>1, <2>3, <3>1
  <2> QED BY <2>2, <2>3
<1>5. /\ v \in SkyVirtualChannel /\ SameSession(u, v)
      /\ SenderMoves(u.sendRing, v.sendRing, f, pushed'[n], origin'[n])
      /\ u.arq_state_flag = "ON" => ReceiverMoves(u.rcvRing, v.rcvRing, f)
      /\ u.arq_state_flag = "IN_INIT" => v = u
  BY <1>1, <1>4, FrameProcessed
<1> HIDE DEF v
<1>6. vc'[n] = v /\ \A m \in Node : m # n => vc'[m] = vc[m]
  BY <1>2 DEF LinkInv, TypeOK
<1>7. radio[n] # <<>> /\ radio' = [radio EXCEPT ![n] = Tail(@)]
  BY DEF Receive
<1> QED BY <1>1, <1>3, <1>4, <1>5, <1>6, <1>7

\* The end that connects receives a frame: no handshake makes it start over.
LEMMA CallerReceives ==
  ASSUME NEW c \in Node, SendLen - 1 + HorizonWidth < SeqCount, SessionInv(c), Receive(c)
  PROVE  SessionInv(c)'
<1> DEFINE r == Peer(c)
           f == Head(radio[c])
           u == Shaken(vc[c], f)
           q == radio[c]
           q2 == radio'[c]
           L == Live(vc[c], radio[c])
           L2 == Live(vc'[c], radio'[c])
           M == DOMAIN radio[r]
<1>1. /\ LinkInv /\ CallerInv(c) /\ AnswererInv(c) /\ ToCaller(c) /\ ToAnswerer(c) /\ Flows(c)
  BY DEF SessionInv
<1>2. /\ r \in Node /\ r # c
      /\ vc[c] \in SkyVirtualChannel
      /\ radio[c] \in Seq(Frame) /\ radio[r] \in Seq(Frame)
      /\ pushed[c] \in Nat /\ pushed[r] \in Nat
      /\ origin[c] \in Nat /\ origin[r] \in Nat /\ lastRead[c] \in Nat /\ lastRead[r] \in Nat
      /\ SendInv(vc[c].sendRing, pushed[c], origin[c])
      /\ SendInv(vc[r].sendRing, pushed[r], origin[r])
      /\ L \in SUBSET DOMAIN radio[c] /\ M \in SUBSET DOMAIN radio[r]
      /\ L \subseteq Int /\ M \subseteq Int /\ clock[c] \in Nat
  BY <1>1, Ends, LiveFrames
<1>3. f = Head(radio[c]) /\ u = Shaken(vc[c], f) /\ r = Peer(c) /\ q = radio[c]
  OBVIOUS
<1> HIDE DEF r, f, u, L, L2, M
<1>4. /\ LinkInv' /\ f \in Frame /\ f = q[1] /\ 1 \in DOMAIN q /\ q # <<>>
      /\ radio' = [radio EXCEPT ![c] = Tail(@)]
      /\ u \in SkyVirtualChannel /\ SameSession(u, vc'[c])
      /\ SenderMoves(u.sendRing, vc'[c].sendRing, f, pushed'[c], origin'[c])
      /\ u.arq_state_flag = "ON" => ReceiverMoves(u.rcvRing, vc'[c].rcvRing, f)
      /\ u.arq_state_flag = "IN_INIT" => vc'[c] = u
      /\ clock' = clock /\ pushed' = pushed
      /\ vc'[r] = vc[r] /\ radio'[r] = radio[r]
      /\ ~HandshakeWipes(vc[c], f) => origin' = origin /\ lastRead' = lastRead
  BY <1>1, <1>2, <1>3, ReceiveFacts
<1> HIDE DEF q, q2
<1>5. Shakes(f) =>
        /\ f.arq_handshake[1].identifier \in Spent(clock[c]) /\ f.arq_handshake[1].peer_state = "ON"
        /\ vc[c].arq_state_flag # "OFF" /\ vc[c].arq_session_identifier = Tick(clock[c])
        /\ vc[c].arq_state_flag = "ON" => Names(f, vc[c].arq_session_identifier)
  <2>1. Shakes(f) =>
          /\ f.arq_handshake[1].identifier \in Spent(clock[c]) /\ f.arq_handshake[1].peer_state = "ON"
    BY <1>1, <1>4 DEF ToCaller, q
  <2>2. vc[c].arq_state_flag = "OFF" => clock[c] = 0
    BY <1>1 DEF CallerInv
  <2>3. vc[c].arq_state_flag = "ON" => 1 \in L
    BY <1>4 DEF Live, L, q
  <2>4. 1 \in L /\ Shakes(f) => Names(f, vc[c].arq_session_identifier)
    BY <1>1, <1>4 DEF ToCaller, L, q
  <2>5. Shakes(f) => vc[c].arq_state_flag # "OFF"
    BY <1>2, <2>1, <2>2, SpentFacts
  <2> QED BY <1>1, <2>1, <2>3, <2>4, <2>5 DEF CallerInv
<1>6. ~HandshakeWipes(vc[c], f)
  <2>1. Shakes(f) => /\ f.arq_handshake[1].identifier \in Nat /\ Tick(clock[c]) \in Nat
                     /\ f.arq_handshake[1].identifier <= Tick(clock[c])
    BY <1>2, <1>5, SpentFacts, TickIdentifies
  <2> QED BY <1>5, <2>1 DEF HandshakeWipes, Shakes, Names
<1>7. /\ u.sendRing = vc[c].sendRing /\ u.rcvRing = vc[c].rcvRing
      /\ u.arq_session_identifier = vc[c].arq_session_identifier
      /\ u.arq_state_flag =
           IF vc[c].arq_state_flag = "IN_INIT" /\ Names(f, vc[c].arq_session_identifier)
           THEN "ON" ELSE vc[c].arq_state_flag
      /\ u.handshake_send = 0
  <2>1. /\ u.sendRing = vc[c].sendRing /\ u.rcvRing = vc[c].rcvRing
        /\ u.arq_session_identifier = vc[c].arq_session_identifier
        /\ u.arq_state_flag =
             IF vc[c].arq_state_flag = "IN_INIT" /\ Names(f, vc[c].arq_session_identifier)
             THEN "ON" ELSE vc[c].arq_state_flag
        /\ \/ u.handshake_send = vc[c].handshake_send
           \/ u.handshake_send = 0
           \/ f.arq_handshake[1].peer_state = "IN_INIT" /\ vc[c].arq_state_flag = "ON"
        /\ ~Shakes(f) => u = vc[c]
    BY <1>2, <1>3, <1>4, <1>6, HandshakeTaken
  <2>2. CASE Shakes(f)
    BY <1>1, <1>5, <2>1, <2>2 DEF CallerInv
  <2>3. CASE ~Shakes(f)
    BY <1>1, <2>1, <2>3 DEF CallerInv
  <2> QED BY <2>1, <2>2, <2>3
<1>8. /\ vc'[c].arq_session_identifier = vc[c].arq_session_identifier
      /\ vc'[c].arq_state_flag = u.arq_state_flag /\ vc'[c].handshake_send = 0
      /\ origin' = origin /\ lastRead' = lastRead
      /\ (vc'[c].arq_state_flag = "OFF") <=> (vc[c].arq_state_flag = "OFF")
      /\ vc'[c].arq_state_flag = "IN_INIT" => vc[c].arq_state_flag = "IN_INIT" /\ vc'[c] = u
  BY <1>4, <1>6, <1>7 DEF SameSession
<1>9. Joined(c)' <=> Joined(c)
  BY <1>3, <1>4, <1>8 DEF Joined
<1>10. vc'[c].arq_state_flag = "ON" => Joined(c) /\ L = DOMAIN q
  <2>1. CASE vc[c].arq_state_flag = "ON"
    BY <1>1, <1>2, <2>1, LiveFrames DEF CallerInv, L, q
  <2>2. CASE vc[c].arq_state_flag # "ON"
    <3> SUFFICES ASSUME vc'[c].arq_state_flag = "ON"
                 PROVE  Joined(c) /\ L = DOMAIN q
      OBVIOUS
    <3>1. Names(q[1], vc[c].arq_session_identifier)
      BY <1>4, <1>7, <1>8, <2>2
    <3>2. Joined(c)
      BY <1>1, <1>4, <3>1 DEF ToCaller, q
    <3>3. \A j \in DOMAIN q : 1 \in 1 .. j
      BY <1>2 DEF q
    <3> QED BY <3>1, <3>2, <3>3 DEF Live, L, q
  <2> QED BY <2>1, <2>2
<1>11. /\ 1 \in Int /\ L2 \subseteq Int
       /\ \A j \in DOMAIN q2 : j + 1 \in DOMAIN q /\ j + 1 # 1 /\ q2[j] = q[j + 1]
       /\ \A j \in L2 : j \in DOMAIN q2 /\ j + 1 \in L /\ j + 1 # 1 /\ q2[j] = q[j + 1]
  <2>1. q2 = Tail(q)
    BY <1>1, <1>2, <1>4, FrameLeaves DEF q, q2
  <2>2. /\ DOMAIN q2 \subseteq Int
        /\ \A j \in DOMAIN q2 : j + 1 \in DOMAIN q /\ j + 1 # 1 /\ q2[j] = q[j + 1]
        /\ \A j \in Live(vc[c], q2) : j + 1 \in Live(vc[c], q)
    BY <1>2, <1>4, <2>1, TailFrames DEF q
  <2>3. \A j \in L2 : j \in DOMAIN q2
    BY DEF L2, Live, q2
  <2>4. \A j \in L2 : j + 1 \in L
    <3>1. CASE vc'[c].arq_state_flag = "ON"
      BY <1>10, <2>2, <2>3, <3>1
    <3>2. CASE vc'[c].arq_state_flag # "ON"
      <4>1. vc'[c].arq_state_flag = vc[c].arq_state_flag
        BY <1>7, <1>8, <3>2
      <4>2. L2 = Live(vc[c], q2)
        BY <1>8, <4>1 DEF L2, q2, Live
      <4> QED BY <2>2, <4>2 DEF L, q
    <3> QED BY <3>1, <3>2
  <2> QED BY <2>2, <2>3, <2>4
<1>12. CallerInv(c)'
  <2>1. vc'[c].arq_state_flag = "IN_INIT" =>
          /\ vc'[c].rcvRing = sky_rcv_ring_wipe(0)
          /\ lastRead'[c] = 0
          /\ Seen(vc'[c].sendRing, pushed'[c]) = origin'[c]
    BY <1>1, <1>4, <1>7, <1>8 DEF CallerInv
  <2> QED BY <1>1, <1>3, <1>4, <1>8, <1>9, <1>10, <2>1 DEF CallerInv
<1>13. AnswererInv(c)'
  BY <1>1, <1>3, <1>4 DEF AnswererInv, Used
<1>14. ToCaller(c)'
  <2>1. /\ \A j \in DOMAIN radio'[c] : j + 1 \in DOMAIN radio[c] /\ radio'[c][j] = radio[c][j + 1]
        /\ \A j \in Live(vc'[c], radio'[c]) : j + 1 \in Live(vc[c], radio[c])
    BY <1>11 DEF q, q2, L, L2
  <2>2. clock'[c] = clock[c] /\ (Joined(c) => Joined(c)')
    BY <1>4, <1>9
  <2> QED BY <1>1, <1>8, <1>11, <2>1, <2>2, ToCallerKept
<1>15. ToAnswerer(c)'
  <2>1. 0 \in Int /\ \A j \in DOMAIN radio[r] : j + 0 = j
    BY <1>2 DEF M
  <2>2. \A j \in DOMAIN radio'[r] : j + 0 \in DOMAIN radio[r] /\ radio'[r][j] = radio[r][j + 0]
    BY <1>4, <2>1
  <2>3. /\ clock'[c] = clock[c] /\ (Joined(c)' => Joined(c)) /\ DOMAIN radio'[r] \subseteq Int
        /\ vc'[r].arq_state_flag = vc[r].arq_state_flag
        /\ vc'[r].arq_session_identifier = vc[r].arq_session_identifier
    BY <1>2, <1>4, <1>9 DEF M
  <2> QED BY <1>1, <1>2, <1>3, <1>8, <2>1, <2>2, <2>3, ToAnswererKept
<1>16. AnswererGood(c)'
  BY <1>1, <1>3, <1>4, <1>8 DEF Flows, AnswererGood
<1>17. ASSUME Joined(c)
       PROVE  Outward(c)' /\ Homeward(c)'
  <2>1. /\ Matched(vc[c].sendRing, pushed[c], origin[c], vc[r].rcvRing, lastRead[r],
                   radio[r], M, q, L)
        /\ Matched(vc[r].sendRing, pushed[r], origin[r], vc[c].rcvRing, lastRead[c],
                   q, L, radio[r], M)
        /\ vc[c].arq_state_flag # "OFF"
    BY <1>1, <1>17 DEF Flows, Outward, Homeward, Joined, r, L, M, q
  <2>2. /\ Matched(vc'[c].sendRing, pushed[c], origin[c], vc[r].rcvRing, lastRead[r],
                   radio[r], M, q2, L2)
        /\ Matched(vc[r].sendRing, pushed[r], origin[r], vc'[c].rcvRing, lastRead[c],
                   q2, L2, radio[r], M)
    <3>1. CASE vc'[c].arq_state_flag = "IN_INIT"
      <4>1. vc'[c].sendRing = vc[c].sendRing /\ vc'[c].rcvRing = vc[c].rcvRing
        BY <1>7, <1>8, <3>1
      <4>2. Part(q2, L2, q, L) /\ Part(radio[r], M, radio[r], M)
        <5>1. Part(q2, L2, q, L)
          BY <1>2, <1>11, PartNext
        <5> QED BY <1>2, <5>1, PartSame
      <4>3. Matched(vc[c].sendRing, pushed[c], origin[c], vc[r].rcvRing, lastRead[r],
                    radio[r], M, q2, L2)
        BY <1>2, <2>1, <4>2, MatchedPart
      <4>4. Matched(vc[r].sendRing, pushed[r], origin[r], vc[c].rcvRing, lastRead[c],
                    q2, L2, radio[r], M)
        BY <1>2, <2>1, <4>2, MatchedPart
      <4> QED BY <4>1, <4>3, <4>4
    <3>2. CASE vc'[c].arq_state_flag = "ON"
      <4> DEFINE L1 == L \ {1}
      <4>1. q \in Seq(Frame) /\ L \in SUBSET DOMAIN q /\ 1 \in L
        BY <1>2, <1>4, <1>10, <3>2 DEF q
      <4>2. /\ SenderMoves(vc[c].sendRing, vc'[c].sendRing, q[1], pushed[c], origin[c])
            /\ ReceiverMoves(vc[c].rcvRing, vc'[c].rcvRing, q[1])
        BY <1>4, <1>7, <1>8, <3>2
      <4>3. /\ L1 \subseteq Int /\ \A j \in L2 : j + 1 \in L1 /\ q2[j] = q[j + 1]
        BY <1>2, <1>11
      <4>4. Matched(vc'[c].sendRing, pushed[c], origin[c], vc[r].rcvRing, lastRead[r],
                    radio[r], M, q, L1)
        BY <1>2, <2>1, <4>1, <4>2, SenderTakes
      <4>5. Matched(vc[r].sendRing, pushed[r], origin[r], vc'[c].rcvRing, lastRead[c],
                    q, L1, radio[r], M)
        BY <1>2, <2>1, <4>1, <4>2, ReceiverTakes
      <4> HIDE DEF L1
      <4>6. Part(q2, L2, q, L1) /\ Part(radio[r], M, radio[r], M)
        <5>1. Part(q2, L2, q, L1)
          BY <1>11, <4>3, PartNext
        <5> QED BY <1>2, <5>1, PartSame
      <4>7. Matched(vc'[c].sendRing, pushed[c], origin[c], vc[r].rcvRing, lastRead[r],
                    radio[r], M, q2, L2)
        BY <1>2, <4>6, <4>4, MatchedPart
      <4>8. Matched(vc[r].sendRing, pushed[r], origin[r], vc'[c].rcvRing, lastRead[c],
                    q2, L2, radio[r], M)
        BY <1>2, <4>6, <4>5, MatchedPart
      <4> QED BY <4>7, <4>8
    <3>3. vc'[c].arq_state_flag \in {"IN_INIT", "ON"}
      BY <1>4, <1>8, <2>1, ChannelFields DEF ArqStates
    <3> QED BY <3>1, <3>2, <3>3
  <2> QED BY <1>4, <1>8, <2>2 DEF Outward, Homeward, r, L2, M, q2
<1> QED BY <1>4, <1>9, <1>12, <1>13, <1>14, <1>15, <1>16, <1>17 DEF SessionInv, Flows

\* The end that answers receives a frame that leaves it in its session.
LEMMA AnswererReceives ==
  ASSUME NEW c \in Node, SendLen - 1 + HorizonWidth < SeqCount, SessionInv(c),
         NEW r, r = Peer(c), Receive(r), ~HandshakeWipes(vc[r], Head(radio[r]))
  PROVE  SessionInv(c)'
<1> DEFINE f == Head(radio[r])
           u == Shaken(vc[r], f)
           q == radio[r]
           q2 == radio'[r]
           L == Live(vc[c], radio[c])
           M == DOMAIN q
           M1 == M \ {1}
           M2 == DOMAIN q2
<1>1. /\ LinkInv /\ CallerInv(c) /\ AnswererInv(c) /\ ToCaller(c) /\ ToAnswerer(c) /\ Flows(c)
  BY DEF SessionInv
<1>2. /\ r \in Node /\ r # c
      /\ vc[r] \in SkyVirtualChannel
      /\ radio[c] \in Seq(Frame) /\ q \in Seq(Frame)
      /\ pushed[c] \in Nat /\ pushed[r] \in Nat
      /\ origin[c] \in Nat /\ origin[r] \in Nat /\ lastRead[c] \in Nat /\ lastRead[r] \in Nat
      /\ SendInv(vc[c].sendRing, pushed[c], origin[c])
      /\ SendInv(vc[r].sendRing, pushed[r], origin[r])
      /\ L \in SUBSET DOMAIN radio[c] /\ M \in SUBSET DOMAIN q
      /\ L \subseteq Int /\ M \subseteq Int
  BY <1>1, Ends, LiveFrames
<1>3. f = Head(radio[r]) /\ u = Shaken(vc[r], f) /\ ~HandshakeWipes(vc[r], f)
  OBVIOUS
<1> HIDE DEF f, u, L
<1>4. /\ LinkInv' /\ f \in Frame /\ f = q[1] /\ 1 \in M /\ q # <<>>
      /\ radio' = [radio EXCEPT ![r] = Tail(@)]
      /\ u \in SkyVirtualChannel /\ SameSession(u, vc'[r])
      /\ SenderMoves(u.sendRing, vc'[r].sendRing, f, pushed'[r], origin'[r])
      /\ u.arq_state_flag = "ON" => ReceiverMoves(u.rcvRing, vc'[r].rcvRing, f)
      /\ clock' = clock /\ pushed' = pushed
      /\ vc'[c] = vc[c] /\ radio'[c] = radio[c]
      /\ origin' = origin /\ lastRead' = lastRead
  BY <1>1, <1>2, <1>3, ReceiveFacts
<1>5. q2 = Tail(q)
  BY <1>1, <1>2, <1>4, FrameLeaves
<1> HIDE DEF q, q2, M, M1, M2
<1>6. /\ u.sendRing = vc[r].sendRing /\ u.rcvRing = vc[r].rcvRing
      /\ u.arq_session_identifier = vc[r].arq_session_identifier
      /\ u.arq_state_flag = vc[r].arq_state_flag
  BY <1>1, <1>2, <1>3, <1>4, HandshakeTaken DEF AnswererInv
<1>7. /\ vc'[r].arq_session_identifier = vc[r].arq_session_identifier
      /\ vc'[r].arq_state_flag = vc[r].arq_state_flag
      /\ SenderMoves(vc[r].sendRing, vc'[r].sendRing, q[1], pushed[r], origin[r])
      /\ vc[r].arq_state_flag = "ON" => ReceiverMoves(vc[r].rcvRing, vc'[r].rcvRing, q[1])
  BY <1>4, <1>6 DEF SameSession
<1>8. SessionKept(c)
  BY <1>4, <1>7 DEF SessionKept
<1>9. /\ Joined(c)' <=> Joined(c)
      /\ AnswererInv(c)'
      /\ CallerInv(c)'
      /\ Live(vc'[c], radio'[c]) = L
  BY <1>1, <1>4, <1>8, JoinedKept, CallerKept DEF CallerInv, L
<1>10. /\ 1 \in Int /\ M2 \subseteq Int /\ M1 \subseteq Int /\ M1 \subseteq M
       /\ \A j \in M2 : j + 1 \in M /\ j + 1 \in M1 /\ q2[j] = q[j + 1]
  <2>1. /\ DOMAIN q2 \subseteq Int
        /\ \A j \in DOMAIN q2 : j + 1 \in DOMAIN q /\ j + 1 # 1 /\ q2[j] = q[j + 1]
    BY <1>2, <1>4, <1>5, TailFrames
  <2> QED BY <1>2, <2>1 DEF M, M1, M2
<1>11. Part(q2, M2, q, M1) /\ Part(radio[c], L, radio[c], L)
  <2>1. Part(q2, M2, q, M1)
    BY <1>10, PartNext
  <2> QED BY <1>2, <2>1, PartSame
<1>12. ToCaller(c)'
  <2>1. /\ 0 \in Int /\ \A j \in DOMAIN radio[c] : j + 0 = j
        /\ \A j \in L : j \in DOMAIN radio[c]
    BY <1>2
  <2>2. \A j \in DOMAIN radio'[c] : j + 0 \in DOMAIN radio[c] /\ radio'[c][j] = radio[c][j + 0]
    BY <1>4, <2>1
  <2>3. \A j \in Live(vc'[c], radio'[c]) : j + 0 \in Live(vc[c], radio[c])
    BY <1>9, <2>1 DEF L
  <2>4. clock'[c] = clock[c] /\ vc'[c].arq_session_identifier = vc[c].arq_session_identifier
    BY <1>4
  <2> QED BY <1>1, <1>9, <2>1, <2>2, <2>3, <2>4, ToCallerKept
<1>13. ToAnswerer(c)'
  <2>1. \A j \in DOMAIN radio'[r] : j + 1 \in DOMAIN radio[r] /\ radio'[r][j] = radio[r][j + 1]
    BY <1>10 DEF q, q2, M, M2
  <2>2. /\ clock'[c] = clock[c] /\ (Joined(c)' => Joined(c)) /\ DOMAIN radio'[r] \subseteq Int
        /\ vc'[c].arq_state_flag = "IN_INIT" => vc[c].arq_state_flag = "IN_INIT"
    BY <1>4, <1>9, <1>10 DEF M2, q2
  <2> QED BY <1>1, <1>2, <1>7, <1>10, <2>1, <2>2, ToAnswererKept
<1>14. AnswererGood(c)'
  <2> SUFFICES ASSUME vc[r].arq_state_flag = "ON"
               PROVE  \E o \in Nat : RcvGood(vc'[r].rcvRing, lastRead[r], o, q2, M2)
    BY <1>4, <1>7 DEF AnswererGood, q2, M2
  <2>1. PICK o \in Nat : RcvGood(vc[r].rcvRing, lastRead[r], o, q, M)
    BY <1>1 DEF Flows, AnswererGood, q, M
  <2>2. RcvGood(vc'[r].rcvRing, lastRead[r], o, q, M1)
    BY <1>2, <1>4, <1>7, <2>1, RcvTakes DEF M1
  <2>3. RcvGood(vc'[r].rcvRing, lastRead[r], o, q2, M2)
    BY <1>2, <1>11, <2>2, RcvPart
  <2> QED BY <2>3
<1>15. ASSUME Joined(c)
       PROVE  Outward(c)' /\ Homeward(c)'
  <2>1. /\ Matched(vc[c].sendRing, pushed[c], origin[c], vc[r].rcvRing, lastRead[r],
                   q, M, radio[c], L)
        /\ Matched(vc[r].sendRing, pushed[r], origin[r], vc[c].rcvRing, lastRead[c],
                   radio[c], L, q, M)
        /\ vc[r].arq_state_flag = "ON"
    BY <1>1, <1>15 DEF Flows, Outward, Homeward, Joined, L, M, q
  <2>2. Matched(vc[c].sendRing, pushed[c], origin[c], vc'[r].rcvRing, lastRead[r],
                q, M1, radio[c], L)
    BY <1>2, <1>4, <1>7, <2>1, ReceiverTakes DEF M1
  <2>3. Matched(vc'[r].sendRing, pushed[r], origin[r], vc[c].rcvRing, lastRead[c],
                radio[c], L, q, M1)
    BY <1>2, <1>4, <1>7, <2>1, SenderTakes DEF M1
  <2>4. Matched(vc[c].sendRing, pushed[c], origin[c], vc'[r].rcvRing, lastRead[r],
                q2, M2, radio[c], L)
    BY <1>2, <1>11, <2>2, MatchedPart
  <2>5. Matched(vc'[r].sendRing, pushed[r], origin[r], vc[c].rcvRing, lastRead[c],
                radio[c], L, q2, M2)
    BY <1>2, <1>11, <2>3, MatchedPart
  <2> QED BY <1>4, <1>9, <2>4, <2>5 DEF Outward, Homeward, M2, q2
<1> QED BY <1>4, <1>9, <1>12, <1>13, <1>14, <1>15 DEF SessionInv, Flows

\* The end that answers starts over: what is on its way to it carries nothing,
\* and the end that connects has delivered nothing.
LEMMA AnswererStartsOver ==
  ASSUME NEW c \in Node, SessionInv(c),
         NEW r, r = Peer(c), Receive(r), HandshakeWipes(vc[r], Head(radio[r]))
  PROVE  SessionInv(c)'
<1> DEFINE f == Head(radio[r])
           u == Shaken(vc[r], f)
           x == f.arq_handshake[1].identifier
           q == radio[r]
           q2 == radio'[r]
<1>1. /\ LinkInv /\ CallerInv(c) /\ AnswererInv(c) /\ ToCaller(c) /\ ToAnswerer(c) /\ Flows(c)
  BY DEF SessionInv
<1>2. /\ r \in Node /\ r # c
      /\ vc[c] \in SkyVirtualChannel /\ vc[r] \in SkyVirtualChannel
      /\ radio[c] \in Seq(Frame) /\ q \in Seq(Frame)
      /\ pushed[c] \in Nat /\ pushed[r] \in Nat /\ origin[c] \in Nat
      /\ SendInv(vc[c].sendRing, pushed[c], origin[c])
      /\ clock[c] \in Nat
  BY <1>1, Ends
<1>3. f = Head(radio[r]) /\ u = Shaken(vc[r], f) /\ HandshakeWipes(vc[r], f)
  OBVIOUS
<1> HIDE DEF f, u
<1>4. /\ LinkInv' /\ f \in Frame /\ f = q[1] /\ 1 \in DOMAIN q /\ q # <<>>
      /\ radio' = [radio EXCEPT ![r] = Tail(@)]
      /\ u \in SkyVirtualChannel /\ SameSession(u, vc'[r])
      /\ SenderMoves(u.sendRing, vc'[r].sendRing, f, pushed'[r], origin'[r])
      /\ u.arq_state_flag = "ON" => ReceiverMoves(u.rcvRing, vc'[r].rcvRing, f)
      /\ clock' = clock /\ pushed' = pushed
      /\ vc'[c] = vc[c] /\ radio'[c] = radio[c]
      /\ origin'[c] = origin[c] /\ lastRead'[c] = lastRead[c]
      /\ origin'[r] = pushed[r] /\ lastRead'[r] = 0
  BY <1>1, <1>2, <1>3, ReceiveFacts
<1>5. /\ DOMAIN q2 \subseteq Int
      /\ \A j \in DOMAIN q2 : j + 1 \in DOMAIN q /\ q2[j] = q[j + 1]
  <2>1. q2 = Tail(q)
    BY <1>1, <1>2, <1>4, FrameLeaves
  <2> HIDE DEF q, q2
  <2> QED BY <1>2, <1>4, <2>1, TailFrames
<1> HIDE DEF q, q2
<1>6. /\ Shakes(f)
      /\ vc[r].arq_state_flag = "OFF" \/ ~Names(f, vc[r].arq_session_identifier)
  BY <1>1, <1>2, <1>3, ChannelFields DEF HandshakeWipes, Shakes, Names
<1>7. \A j \in DOMAIN q : 1 <= j /\ Bare(q[j])
  <2>1. \A j \in DOMAIN q : 1 <= j
    BY <1>2
  <2>2. \A j \in DOMAIN q : 1 <= j => Bare(q[j])
    BY <1>1, <1>4, <1>6 DEF ToAnswerer, q
  <2> QED BY <2>1, <2>2
<1>8. Bare(f) /\ ~Numbered(f)
  BY <1>4, <1>7 DEF Bare, Numbered
<1>9. x \in Used(c) /\ vc[c].arq_state_flag # "OFF" /\ vc[c].arq_session_identifier = Tick(clock[c])
  <2>1. x \in Used(c)
    BY <1>1, <1>4, <1>6 DEF ToAnswerer, q
  <2>2. clock[c] # 0
    BY <2>1 DEF Used, Spent
  <2> QED BY <1>1, <2>1, <2>2 DEF CallerInv
<1>10. ~Joined(c)
  <2> SUFFICES ASSUME Joined(c)
               PROVE  FALSE
    OBVIOUS
  <2>1. Names(f, Wire(Tick(clock[c])))
    BY <1>1, <1>4, <1>6 DEF ToAnswerer, q
  <2>2. vc[r].arq_state_flag = "ON" /\ vc[r].arq_session_identifier = Wire(Tick(clock[c]))
    BY <1>9 DEF Joined
  <2> QED BY <1>6, <2>1, <2>2
<1>11. vc[c].arq_state_flag = "IN_INIT"
  BY <1>1, <1>2, <1>9, <1>10, ChannelFields DEF ArqStates, CallerInv
<1>12. /\ vc'[r].arq_state_flag = "ON" /\ vc'[r].arq_session_identifier = x
       /\ vc'[r].rcvRing = sky_rcv_ring_wipe(0)
       /\ SendInv(vc'[r].sendRing, pushed[r], pushed[r])
       /\ Seen(vc'[r].sendRing, pushed[r]) = pushed[r]
  <2>1. /\ u.sendRing = sky_send_ring_wipe(0) /\ u.rcvRing = sky_rcv_ring_wipe(0)
        /\ u.arq_state_flag = "ON" /\ u.arq_session_identifier = x
    BY <1>2, <1>3, <1>4, HandshakeTaken
  <2>2. Seen(sky_send_ring_wipe(0), pushed[r]) = pushed[r]
    BY <1>2, SendWiped
  <2>3. vc'[r].rcvRing = sky_rcv_ring_wipe(0)
    BY <1>4, <1>8, <2>1 DEF ReceiverMoves
  <2> HIDE DEF x
  <2> QED BY <1>4, <2>1, <2>2, <2>3 DEF SenderMoves, SameSession
<1> HIDE DEF x
<1>13. Joined(c)' <=> x = Wire(Tick(clock[c]))
  BY <1>4, <1>9, <1>12 DEF Joined
<1>14. CallerInv(c)'
  BY <1>1, <1>4, <1>9, <1>11 DEF CallerInv
<1>15. AnswererInv(c)'
  BY <1>4, <1>9, <1>12 DEF AnswererInv, Used
<1>16. \A j \in DOMAIN radio[c] : ~Names(radio[c][j], vc[c].arq_session_identifier)
  BY <1>1, <1>10 DEF ToCaller
<1>17. Live(vc'[c], radio'[c]) = {}
  <2>1. \A j \in DOMAIN radio[c] : \A i \in 1 .. j : i \in DOMAIN radio[c]
    BY <1>2
  <2> QED BY <1>4, <1>11, <1>16, <2>1 DEF Live
<1>18. ToCaller(c)'
  BY <1>1, <1>4, <1>16, <1>17 DEF ToCaller
<1>19. \A j \in DOMAIN q2 : Bare(q2[j])
  BY <1>5, <1>7
<1>20. ToAnswerer(c)'
  <2>1. \A j \in DOMAIN q2 : Shakes(q2[j]) => q2[j].arq_handshake[1].identifier \in Used(c)'
    BY <1>1, <1>4, <1>5 DEF ToAnswerer, q, Used
  <2>2. \A i, j \in DOMAIN q2 : i <= j /\ Names(q2[i], Wire(Tick(clock[c]))) /\ Shakes(q2[j])
           => Names(q2[j], Wire(Tick(clock[c])))
    <3>1. \A i, j \in DOMAIN q2 : i <= j => i + 1 <= j + 1
      BY <1>5
    <3> QED BY <1>1, <1>5, <3>1 DEF ToAnswerer, q
  <2>3. Joined(c)' => \A j \in DOMAIN q2 : Shakes(q2[j]) => Names(q2[j], Wire(Tick(clock[c])))
    <3> SUFFICES ASSUME x = Wire(Tick(clock[c])), NEW j \in DOMAIN q2, Shakes(q2[j])
                 PROVE  Names(q2[j], Wire(Tick(clock[c])))
      BY <1>13
    <3>1. Names(q[1], Wire(Tick(clock[c])))
      BY <1>4, <1>6 DEF Names, x
    <3> QED BY <1>1, <1>4, <1>5, <1>7, <3>1 DEF ToAnswerer, q
  <2> QED BY <1>4, <1>19, <2>1, <2>2, <2>3 DEF ToAnswerer, q2
<1>21. AnswererGood(c)'
  <2>1. 0 \in Nat /\ RcvInv(sky_rcv_ring_wipe(0), 0, 0) /\ Base(0, 0) = 0
    BY RcvWiped DEF Base
  <2>2. RcvGood(sky_rcv_ring_wipe(0), 0, 0, q2, DOMAIN q2)
    BY <1>19, <2>1 DEF RcvGood, Bare, Numbered
  <2> QED BY <1>4, <1>12, <2>1, <2>2 DEF AnswererGood, q2
<1>22. Outward(c)' /\ Homeward(c)'
  <2>1. /\ vc[c].rcvRing = sky_rcv_ring_wipe(0) /\ lastRead[c] = 0
        /\ Seen(vc[c].sendRing, pushed[c]) = origin[c]
    BY <1>1, <1>11 DEF CallerInv
  <2>2. \A j \in DOMAIN q2 : ~Numbered(q2[j]) /\ q2[j].arq_ctrl = <<>>
    BY <1>19 DEF Bare, Numbered
  <2>3. Matched(vc[c].sendRing, pushed[c], origin[c], sky_rcv_ring_wipe(0), 0,
                q2, DOMAIN q2, radio[c], {})
    BY <1>2, <2>1, <2>2, WipedMatched
  <2>4. Matched(vc'[r].sendRing, pushed[r], pushed[r], sky_rcv_ring_wipe(0), 0,
                radio[c], {}, q2, DOMAIN q2)
    BY <1>2, <1>12, <2>2, WipedMatched
  <2> QED BY <1>4, <1>12, <1>17, <2>1, <2>3, <2>4 DEF Outward, Homeward, q2
<1> QED BY <1>4, <1>14, <1>15, <1>18, <1>20, <1>21, <1>22 DEF SessionInv, Flows

\* The ends start with nothing on its way.
LEMMA SessionInit ==
  ASSUME NEW c \in Node, Init
  PROVE  SessionInv(c)
<1> DEFINE r == Peer(c)
<1>1. LinkInv /\ r \in Node
  BY LinkInit, LinkConstants
<1>2. /\ sky_vc_wipe_to_arq_off_state.arq_state_flag = "OFF"
      /\ sky_vc_wipe_to_arq_off_state.handshake_send = 0
  BY DEF sky_vc_wipe_to_arq_off_state, Wiped
<1>3. \A n \in Node : /\ vc[n] = sky_vc_wipe_to_arq_off_state /\ radio[n] = <<>> /\ clock[n] = 0
  BY DEF Init
<1>4. /\ vc[c].arq_state_flag = "OFF" /\ vc[r].arq_state_flag = "OFF" /\ vc[c].handshake_send = 0
      /\ radio[c] = <<>> /\ radio[r] = <<>> /\ clock[c] = 0
  BY <1>1, <1>2, <1>3
<1>5. DOMAIN radio[c] = {} /\ DOMAIN radio[r] = {}
  BY <1>4
<1>6. CallerInv(c) /\ AnswererInv(c)
  BY <1>4 DEF CallerInv, AnswererInv
<1>7. Live(vc[c], radio[c]) = {} /\ ~Joined(c)
  BY <1>4, <1>5 DEF Live, Joined
<1>8. ToCaller(c) /\ ToAnswerer(c)
  BY <1>5, <1>7 DEF ToCaller, ToAnswerer
<1>9. Flows(c)
  BY <1>4, <1>7 DEF Flows, AnswererGood
<1> QED BY <1>1, <1>6, <1>8, <1>9 DEF SessionInv

\* Every step keeps the session.
LEMMA SessionNext ==
  ASSUME NEW c \in Node, Quitters = {}, ConnectTicks[Peer(c)] = {}, Growing(c),
         SendLen - 1 + HorizonWidth < SeqCount, SessionInv(c), [Next]_vars
  PROVE  SessionInv(c)'
<1>1. LinkInv /\ LinkInv' /\ Peer(c) \in Node /\ \A n \in Node : n = c \/ n = Peer(c)
  BY LinkNext, LinkConstants DEF SessionInv
<1>2. ASSUME NEW n \in Talkers, Push(n)
      PROVE  SessionInv(c)'
  BY <1>2, SessionPush, LinkConstants
<1>3. ASSUME NEW n \in Node, Connect(n)
      PROVE  SessionInv(c)'
  <2>1. n = c
    BY <1>1, <1>3 DEF Connect
  <2> QED BY <1>3, <2>1, SessionConnect
<1>4. ASSUME NEW n \in Node, Read(n)
      PROVE  SessionInv(c)'
  BY <1>4, SessionRead
<1>5. ASSUME NEW n \in Node, Receive(n)
      PROVE  SessionInv(c)'
  <2>1. CASE n = c
    BY <1>5, <2>1, CallerReceives
  <2>2. CASE n = Peer(c)
    BY <1>5, <2>2, AnswererReceives, AnswererStartsOver
  <2> QED BY <1>1, <2>1, <2>2
<1>6. ASSUME NEW n \in Node, Lose(n)
      PROVE  SessionInv(c)'
  BY <1>1, <1>6, SessionLose
<1>7. ASSUME NEW n \in Node, NEW w \in BOOLEAN, NEW i \in BOOLEAN, Transmit(n, w, i)
      PROVE  SessionInv(c)'
  <2>1. CASE n = c
    BY <1>7, <2>1, CallerTransmits
  <2>2. CASE n = Peer(c)
    BY <1>7, <2>2, AnswererTransmits
  <2> QED BY <1>1, <2>1, <2>2
<1>8. ASSUME NEW n \in Node, NEW w \in BOOLEAN, NEW i \in BOOLEAN, TransmitFails(n, w, i)
      PROVE  SessionInv(c)'
  BY <1>1, <1>8, SessionTransmitFails
<1>9. CASE UNCHANGED vars
  BY <1>1, <1>9 DEF vars, SessionInv, CallerInv, AnswererInv, ToCaller, ToAnswerer, Flows,
                    AnswererGood, Outward, Homeward, Joined, Used
<1> QED BY <1>2, <1>3, <1>4, <1>5, <1>6, <1>7, <1>8, <1>9 DEF Next

\* The session is sound throughout, seen from the end that connects.
LEMMA SessionHolds ==
  ASSUME NEW c \in Node, Quitters = {}, ConnectTicks[Peer(c)] = {}, Growing(c),
         SendLen - 1 + HorizonWidth < SeqCount
  PROVE  Spec => []SessionInv(c)
<1>1. Init => SessionInv(c)
  BY SessionInit
<1>2. SessionInv(c) /\ [Next]_vars => SessionInv(c)'
  BY SessionNext
<1> QED BY <1>1, <1>2, PTL DEF Spec

\* When one end connects, some end does.
LEMMA Caller ==
  ASSUME OneConnects
  PROVE  \E c \in Node : ConnectTicks[Peer(c)] = {}
BY LinkConstants DEF OneConnects

\* Two ends in one session have been joined by the end that connects.
LEMMA InSessionJoined ==
  ASSUME NEW c \in Node, SessionInv(c), InSession
  PROVE  /\ Outward(c) /\ Homeward(c)
         /\ vc[c].arq_state_flag = "ON" /\ vc[Peer(c)].arq_state_flag = "ON"
<1>1. LinkInv /\ A \in Node /\ B \in Node /\ \A n \in Node : n = A \/ n = B
  BY DEF SessionInv, Node
<1>2. /\ vc[A].arq_state_flag = "ON" /\ vc[B].arq_state_flag = "ON"
      /\ vc[A].arq_session_identifier = Wire(vc[B].arq_session_identifier)
  BY <1>1 DEF InSession
<1>3. vc[B].arq_session_identifier = Wire(vc[A].arq_session_identifier)
  BY <1>1, <1>2, WireReverses, EndFacts
<1>4. (c = A /\ Peer(c) = B) \/ (c = B /\ Peer(c) = A)
  BY LinkAssumption DEF Node, Peer
<1>5. Joined(c)
  BY <1>2, <1>3, <1>4 DEF Joined
<1> QED BY <1>2, <1>4, <1>5 DEF SessionInv, Flows

\* The newest packet a matched receive ring can give or has given is no older than
\* the newest one acknowledged in the session.
LEMMA AcknowledgedIsHeld ==
  ASSUME NEW send, NEW p \in Nat, NEW o \in Nat, SendInv(send, p, o), NEW ring, NEW last \in Nat,
         NEW q, NEW L, NEW back, NEW M, Matched(send, p, o, ring, last, q, L, back, M),
         p - send.storage_count > o
  PROVE  (IF rcvRing_count_readable_packets(ring) # 0
          THEN ring.buff[ring_wrap(ring.head - 1, RcvLen)].idx ELSE last) >= p - send.storage_count
<1> DEFINE G == Got(ring, Base(last, o))
<1>1. /\ G \in Nat /\ Acked(send, p) \in Nat /\ Acked(send, p) <= G
      /\ Acked(send, p) = p - send.storage_count
  BY MatchedBounds, SendOrder
<1>2. Base(last, o) \in Nat /\ RcvInv(ring, Base(last, o), o)
  BY RcvBounds DEF Matched
<1>3. Ready(ring) = rcvRing_count_readable_packets(ring)
  BY <1>2, RcvFields DEF RcvInv
<1>4. CASE Ready(ring) # 0
  <2>1. ring.buff[ring_wrap(ring.head - 1, RcvLen)].idx = G
    BY <1>2, <1>4, NewestHeld
  <2> HIDE DEF G
  <2> QED BY <1>1, <1>3, <1>4, <2>1
<1>5. CASE Ready(ring) = 0
  <2>1. G = Base(last, o)
    BY <1>2, <1>5, NewestHeld
  <2>2. G = last
    <3>1. last # 0
      BY <1>1, <2>1 DEF Base
    <3> QED BY <2>1, <3>1 DEF Base
  <2> HIDE DEF G
  <2> QED BY <1>1, <1>3, <1>5, <2>2
<1> QED BY <1>4, <1>5

\* What a matched receive ring waits for lies in the window of the send ring.
LEMMA WindowAligned ==
  ASSUME NEW send, NEW p \in Nat, NEW o \in Nat, SendInv(send, p, o), NEW ring, NEW last \in Nat,
         NEW q, NEW L, NEW back, NEW M, Matched(send, p, o, ring, last, q, L, back, M)
  PROVE  SeqMinus(ring.head_sequence, send.tail_sequence)
           <= SeqMinus(send.tx_sequence, send.tail_sequence)
<1> DEFINE G == Got(ring, Base(last, o))
           x == G - o
           y == Acked(send, p) - o
<1>1. /\ G \in Nat /\ Acked(send, p) \in Nat /\ Seen(send, p) \in Nat
      /\ Acked(send, p) <= G /\ G <= Seen(send, p)
      /\ Seen(send, p) < Acked(send, p) + SendLen
  BY MatchedBounds
<1>2. ring.head_sequence = Num(x) /\ send.tail_sequence = Num(y)
  BY MatchedBounds
<1>3. /\ Seen(send, p) = Acked(send, p) + Sent(send) /\ Sent(send) \in Nat
      /\ SeqMinus(send.tx_sequence, send.tail_sequence) = Sent(send)
  BY SendOrder
<1> HIDE DEF G
<1>4. x \in Int /\ y \in Int /\ y <= x /\ x - y = G - Acked(send, p) /\ x - y < SeqCount
  BY <1>1, Constants
<1> HIDE DEF x, y
<1>5. SeqMinus(Num(x), Num(y)) = x - y
  BY <1>4, NumMinus
<1> QED BY <1>1, <1>2, <1>3, <1>4, <1>5

\* When one end connects, with identifiers that grow, and nobody hangs up, no
\* packet of a session is acknowledged and lost: whatever the radio loses or delays,
\* however often the end connects again, and whatever handshakes of earlier sessions
\* are still on their way, what a sender has forgotten in this session is with the
\* receiver.
THEOREM NothingAcknowledgedIsLost ==
  ASSUME OneConnects
  PROVE  Spec => []AckedIsReceived
<1>1. PICK c \in Node : ConnectTicks[Peer(c)] = {}
  BY Caller
<1>2. Spec => []SessionInv(c)
  BY <1>1, SessionHolds DEF OneConnects
<1>3. SessionInv(c) => AckedIsReceived
  <2> SUFFICES ASSUME SessionInv(c), InSession, NEW n \in Node,
                      pushed[n] - vc[n].sendRing.storage_count > origin[n]
               PROVE  Received(Peer(n)) >= pushed[n] - vc[n].sendRing.storage_count
    BY DEF AckedIsReceived
  <2>1. LinkInv /\ Outward(c) /\ Homeward(c)
    BY InSessionJoined DEF SessionInv
  <2>2. Peer(n) \in Node /\ (n = c \/ (n = Peer(c) /\ Peer(n) = c))
    BY LinkConstants
  <2>3. /\ pushed[n] \in Nat /\ origin[n] \in Nat /\ lastRead[Peer(n)] \in Nat
        /\ SendInv(vc[n].sendRing, pushed[n], origin[n])
    BY <2>1, <2>2, EndFacts
  <2>4. \E q, L, back, M : Matched(vc[n].sendRing, pushed[n], origin[n], vc[Peer(n)].rcvRing,
                                   lastRead[Peer(n)], q, L, back, M)
    BY <2>1, <2>2 DEF Outward, Homeward
  <2> QED BY <2>3, <2>4, AcknowledgedIsHeld DEF Received
<1> QED BY <1>2, <1>3, PTL

\* When one end connects, with identifiers that grow, and nobody hangs up, the number
\* a receiver waits for is one the sender still has or transmits next: what is missing
\* can be requested.
THEOREM MissingCanBeRecalled ==
  ASSUME OneConnects
  PROVE  Spec => []WindowsAligned
<1>1. PICK c \in Node : ConnectTicks[Peer(c)] = {}
  BY Caller
<1>2. Spec => []SessionInv(c)
  BY <1>1, SessionHolds DEF OneConnects
<1>3. SessionInv(c) => WindowsAligned
  <2> SUFFICES ASSUME SessionInv(c), InSession, NEW n \in Node
               PROVE  SeqMinus(vc[Peer(n)].rcvRing.head_sequence, vc[n].sendRing.tail_sequence)
                        <= SeqMinus(vc[n].sendRing.tx_sequence, vc[n].sendRing.tail_sequence)
    BY DEF WindowsAligned
  <2>1. LinkInv /\ Outward(c) /\ Homeward(c)
    BY InSessionJoined DEF SessionInv
  <2>2. Peer(n) \in Node /\ (n = c \/ (n = Peer(c) /\ Peer(n) = c))
    BY LinkConstants
  <2>3. /\ pushed[n] \in Nat /\ origin[n] \in Nat /\ lastRead[Peer(n)] \in Nat
        /\ SendInv(vc[n].sendRing, pushed[n], origin[n])
    BY <2>1, <2>2, EndFacts
  <2>4. \E q, L, back, M : Matched(vc[n].sendRing, pushed[n], origin[n], vc[Peer(n)].rcvRing,
                                   lastRead[Peer(n)], q, L, back, M)
    BY <2>1, <2>2 DEF Outward, Homeward
  <2> QED BY <2>3, <2>4, WindowAligned
<1> QED BY <1>2, <1>3, PTL

\* Only the application's read gives an end a packet.
LEMMA OnlyReadGives ==
  ASSUME LinkInv, Next, NEW n \in Node, lastRead'[n] # lastRead[n], lastRead'[n] # 0
  PROVE  Read(n)
<1>1. lastRead \in [Node -> 0 .. MaxPush]
  BY DEF LinkInv, TypeOK
<1>2. \A m \in Node : Restart(m) => \A k \in Node : lastRead'[k] = 0 \/ lastRead'[k] = lastRead[k]
  BY RestartBooks
<1>3. ASSUME NEW m \in Talkers, Push(m)
      PROVE  Read(n)
  BY <1>3 DEF Push
<1>4. ASSUME NEW m \in Quitters, Disconnect(m)
      PROVE  Read(n)
  BY <1>2, <1>4, LinkConstants DEF Disconnect
<1>5. ASSUME NEW m \in Node, Connect(m)
      PROVE  Read(n)
  BY <1>2, <1>5 DEF Connect
<1>6. ASSUME NEW m \in Node, Read(m)
      PROVE  Read(n)
  BY <1>1, <1>6 DEF Read
<1>7. ASSUME NEW m \in Node, Receive(m)
      PROVE  Read(n)
  BY <1>2, <1>7 DEF Receive
<1>8. ASSUME NEW m \in Node, Lose(m)
      PROVE  Read(n)
  BY <1>8 DEF Lose
<1>9. ASSUME NEW m \in Node, NEW w \in BOOLEAN, NEW i \in BOOLEAN,
             Transmit(m, w, i) \/ TransmitFails(m, w, i)
      PROVE  Read(n)
  BY <1>9 DEF Transmit, TransmitFails
<1> QED BY <1>3, <1>4, <1>5, <1>6, <1>7, <1>8, <1>9 DEF Next

\* When one end connects, with identifiers that grow, and nobody hangs up, an end
\* that is on gives its application the peer's packets one after the other, whether
\* or not the peer is still in the session: none twice, none skipped, none out of order.
THEOREM PacketsInOrder ==
  ASSUME OneConnects
  PROVE  Spec => InOrder
<1>1. PICK c \in Node : ConnectTicks[Peer(c)] = {}
  BY Caller
<1>2. Spec => []SessionInv(c)
  BY <1>1, SessionHolds DEF OneConnects
<1>3. SessionInv(c) /\ [Next]_vars =>
        [\A n \in Node : /\ lastRead'[n] # lastRead[n]
                         /\ lastRead[n] # 0 /\ lastRead'[n] # 0
                         /\ vc[n].arq_state_flag = "ON"
                         => lastRead'[n] = lastRead[n] + 1]_vars
  <2> SUFFICES ASSUME SessionInv(c), Next, NEW n \in Node, lastRead'[n] # lastRead[n],
                      lastRead[n] # 0, lastRead'[n] # 0, vc[n].arq_state_flag = "ON"
               PROVE  lastRead'[n] = lastRead[n] + 1
    OBVIOUS
  <2> DEFINE ring == vc[n].rcvRing
             q == radio[n]
             L == DOMAIN q
  <2>1. LinkInv /\ Read(n) /\ lastRead \in [Node -> 0 .. MaxPush]
    BY OnlyReadGives DEF SessionInv, LinkInv, TypeOK
  <2>2. /\ vc[n] \in SkyVirtualChannel /\ lastRead[n] \in Nat /\ q \in Seq(Frame)
        /\ L \in SUBSET DOMAIN q
    BY <2>1, EndFacts
  <2>3. PICK o \in Nat : RcvGood(ring, lastRead[n], o, q, L)
    <3>1. CASE n = Peer(c)
      BY <3>1 DEF SessionInv, Flows, AnswererGood
    <3>2. CASE n = c
      <4>1. Joined(c) /\ Live(vc[c], radio[c]) = L
        BY <2>2, <3>2, LiveFrames DEF SessionInv, CallerInv
      <4>2. Homeward(c) /\ origin[Peer(c)] \in Nat
        BY <2>1, <4>1, EndFacts, LinkConstants DEF SessionInv, Flows
      <4> QED BY <3>2, <4>1, <4>2 DEF Homeward, Matched
    <3> QED BY <3>1, <3>2, LinkConstants
  <2>4. Ready(ring) # 0
    BY <2>1, <2>2, ChannelFields, RcvFields DEF Read
  <2>5. lastRead'[n] = ring.buff[ring.tail].idx
    BY <2>1 DEF Read
  <2> HIDE DEF ring, q, L
  <2>6. lastRead'[n] = Base(lastRead[n], o) + 1
    BY <2>2, <2>3, <2>4, <2>5, RcvReads
  <2> QED BY <2>6 DEF Base
<1> QED BY <1>2, <1>3, PTL DEF Spec, InOrder
===============================================================================
