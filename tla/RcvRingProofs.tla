---------------------------- MODULE RcvRingProofs ----------------------------
(***************************************************************************)
(* The receive ring keeps its invariant and delivers in order, for every   *)
(* length, every width of the horizon and of the sequence numbers and      *)
(* every element buffer.                                                   *)
(***************************************************************************)
EXTENDS RcvRing, RingArithmetic

Inv == TypeOK /\ RingInv

\* What the assumptions say of the constants.
LEMMA Constants ==
  /\ RcvLen \in Nat \ {0} /\ HorizonWidth \in Nat
  /\ HorizonWidth + 3 <= RcvLen /\ RcvLen <= SeqCount
  /\ SeqCount \in Nat \ {0}
  /\ EB_NULL_IDX \notin Idx /\ NoPayload \notin Payload
BY RcvRingAssumption, SeqCountAssumption, IdxAssumption, PayloadAssumption

\* Slot 0 exists, every slot is an index below the length, and an empty slot is a
\* ring item.
LEMMA SlotFacts ==
  /\ 0 \in RcvSlots /\ ring_wrap(0 - 0, RcvLen) = 0
  /\ VacantItem \in RingItem
  /\ \A i \in RcvSlots : i \in Nat /\ i < RcvLen /\ i \in 0 .. RcvLen - 1
<1>1. 0 \in 0 .. RcvLen - 1
  BY Constants
<1>2. ring_wrap(0 - 0, RcvLen) = 0
  BY <1>1, Constants DEF ring_wrap
<1> QED BY <1>1, <1>2, Constants, SeqType DEF RcvSlots, VacantItem, RingItem

-----------------------------------------------------------------------------
(* A ring in the middle of an operation. *)

Dist(ring, i) == ring_wrap(i - ring.tail, RcvLen)
Ready(ring) == Dist(ring, ring.head)

\* The ring before its head has moved on: all of the invariant that is about the
\* ring alone, except that the head is at the first gap.
Loose(ring) ==
  /\ ring \in SkyRcvRing
  /\ Ready(ring) + HorizonWidth + 1 <= RcvLen
  /\ ring.head_sequence = SeqPlus(ring.tail_sequence, Ready(ring))
  /\ \A i \in RcvSlots :
       /\ Dist(ring, i) < Ready(ring) => ring.buff[i].idx # EB_NULL_IDX
       /\ Dist(ring, i) > Ready(ring) + HorizonWidth => ring.buff[i].idx = EB_NULL_IDX
       /\ ring.buff[i].sequence =
            IF ring.buff[i].idx = EB_NULL_IDX THEN 0
            ELSE SeqPlus(ring.tail_sequence, Dist(ring, i))

\* The head is at the first gap, unless the ring is choked.
AtGap(ring) ==
  ring.buff[ring.head].idx # EB_NULL_IDX => Ready(ring) + HorizonWidth + 1 = RcvLen

\* The fields of a ring, and distances in it.
LEMMA RingFields ==
  ASSUME NEW ring \in SkyRcvRing
  PROVE  /\ ring.buff \in [RcvSlots -> RingItem]
         /\ ring.head \in RcvSlots /\ ring.tail \in RcvSlots
         /\ ring.head \in 0 .. RcvLen - 1 /\ ring.tail \in 0 .. RcvLen - 1
         /\ ring.head_sequence \in Sequence /\ ring.tail_sequence \in Sequence
         /\ ring.storage_count \in Int
         /\ \A i \in RcvSlots : Dist(ring, i) \in 0 .. RcvLen - 1
         /\ Ready(ring) \in 0 .. RcvLen - 1
<1>1. /\ ring.buff \in [RcvSlots -> RingItem]
      /\ ring.head \in RcvSlots /\ ring.tail \in RcvSlots
      /\ ring.head_sequence \in Sequence /\ ring.tail_sequence \in Sequence
      /\ ring.storage_count \in Int
  BY DEF SkyRcvRing
<1>2. \A i \in RcvSlots : Dist(ring, i) \in 0 .. RcvLen - 1
  BY <1>1, Constants, Distance DEF Dist, RcvSlots
<1> QED BY <1>1, <1>2, SlotFacts DEF Ready

\* The slot n beyond the head is n further from the tail than the head; beyond
\* the last one comes the tail.
LEMMA BeyondHead ==
  ASSUME NEW ring \in SkyRcvRing, NEW n \in Nat, Ready(ring) + n <= RcvLen
  PROVE  /\ ring_wrap(ring.head + n, RcvLen) \in RcvSlots
         /\ Ready(ring) + n < RcvLen
              => Dist(ring, ring_wrap(ring.head + n, RcvLen)) = Ready(ring) + n
         /\ n > 0 => (ring_wrap(ring.head + n, RcvLen) = ring.tail <=> Ready(ring) + n = RcvLen)
<1> DEFINE h == ring.head
           t == ring.tail
           d == ring_wrap(h - t, RcvLen)
           a == ring_wrap(h + n, RcvLen)
<1>0. h \in 0 .. RcvLen - 1 /\ t \in 0 .. RcvLen - 1 /\ RcvLen \in Nat \ {0}
  BY RingFields, Constants
<1>1. d = (IF h >= t THEN h - t ELSE h - t + RcvLen) /\ d \in 0 .. RcvLen - 1
  BY <1>0, Distance
<1>2. Ready(ring) = d /\ d + n <= RcvLen
  BY DEF Ready, Dist
<1> HIDE DEF d
<1>3. n \in 0 .. RcvLen
  BY <1>0, <1>1, <1>2
<1>4. a = (IF h + n < RcvLen THEN h + n ELSE h + n - RcvLen) /\ a \in 0 .. RcvLen - 1
  BY <1>0, <1>3, Advance
<1> HIDE DEF a
<1>5. ring_wrap(a - t, RcvLen) = (IF a >= t THEN a - t ELSE a - t + RcvLen)
  BY <1>0, <1>4, Distance
<1> HIDE DEF h, t
<1>6. d + n < RcvLen => ring_wrap(a - t, RcvLen) = d + n
  BY <1>0, <1>1, <1>2, <1>3, <1>4, <1>5
<1>7. n > 0 => (a = t <=> d + n = RcvLen)
  BY <1>0, <1>1, <1>2, <1>3, <1>4
<1> QED BY <1>2, <1>4, <1>6, <1>7 DEF a, h, t, Dist, RcvSlots

\* The loop of rcvRing_advance_head ends, at the latest when the horizon reaches
\* the tail; every slot it passes is filled.
LEMMA StepsFound ==
  ASSUME NEW ring, Loose(ring)
  PROVE  /\ AdvanceSteps(ring) \in Nat
         /\ Ready(ring) + AdvanceSteps(ring) + HorizonWidth + 1 <= RcvLen
         /\ AdvanceEnds(ring, AdvanceSteps(ring))
         /\ \A m \in 0 .. AdvanceSteps(ring) - 1 : ~AdvanceEnds(ring, m)
<1>1. ring \in SkyRcvRing /\ Ready(ring) \in 0 .. RcvLen - 1
      /\ Ready(ring) + HorizonWidth + 1 <= RcvLen
  BY RingFields DEF Loose
<1> DEFINE last == RcvLen - HorizonWidth - 1 - Ready(ring)
           S == {n \in 0 .. RcvLen : AdvanceEnds(ring, n)}
<1>2. last \in 0 .. RcvLen /\ last \in Nat
  BY <1>1, Constants
<1>3. AdvanceEnds(ring, last)
  <2>1. last + HorizonWidth + 1 \in Nat /\ last + HorizonWidth + 1 > 0
        /\ Ready(ring) + (last + HorizonWidth + 1) = RcvLen
    BY <1>1, <1>2, Constants
  <2> HIDE DEF last
  <2>2. ring_wrap(ring.head + (last + HorizonWidth + 1), RcvLen) = ring.tail
    BY <1>1, <2>1, Constants, BeyondHead
  <2>3. ring.head + last + HorizonWidth + 1 = ring.head + (last + HorizonWidth + 1)
    BY <1>1, <1>2, RingFields, Constants
  <2> QED BY <2>2, <2>3 DEF AdvanceEnds
<1> HIDE DEF last
<1>4. PICK n \in S : \A k \in S : n <= k
  <2>1. S \subseteq Nat /\ S # {}
    BY <1>2, <1>3, Constants
  <2> HIDE DEF S
  <2> QED BY <2>1, Least
<1>5. n \in 0 .. RcvLen /\ AdvanceEnds(ring, n) /\ \A m \in 0 .. n - 1 : ~AdvanceEnds(ring, m)
  <2>1. ASSUME NEW m \in 0 .. n - 1 PROVE ~AdvanceEnds(ring, m)
    <3>1. m \in 0 .. RcvLen /\ ~(n <= m)
      BY Constants
    <3> QED BY <1>4, <3>1
  <2> QED BY <2>1
<1> DEFINE steps == AdvanceSteps(ring)
<1>6. steps \in 0 .. RcvLen /\ AdvanceEnds(ring, steps)
      /\ \A m \in 0 .. steps - 1 : ~AdvanceEnds(ring, m)
  BY <1>5 DEF AdvanceSteps
<1> HIDE DEF steps
<1>7. steps <= last
  <2>1. SUFFICES ASSUME ~(steps <= last) PROVE FALSE
    OBVIOUS
  <2>2. last \in 0 .. steps - 1
    BY <1>2, <1>6, <2>1, Constants
  <2> QED BY <1>3, <1>6, <2>2
<1>8. Ready(ring) + steps + HorizonWidth + 1 <= RcvLen /\ steps \in Nat
  BY <1>1, <1>2, <1>6, <1>7, Constants DEF last
<1> QED BY <1>6, <1>8 DEF steps

\* rcvRing_advance_head moves the head to the first gap, or as far as the tail
\* lets it, and touches nothing else.
LEMMA AdvanceHead ==
  ASSUME NEW ring, Loose(ring)
  PROVE  /\ Loose(rcvRing_advance_head(ring)) /\ AtGap(rcvRing_advance_head(ring))
         /\ rcvRing_advance_head(ring).buff = ring.buff
         /\ rcvRing_advance_head(ring).tail = ring.tail
         /\ rcvRing_advance_head(ring).tail_sequence = ring.tail_sequence
<1> DEFINE n == AdvanceSteps(ring)
           head == ring_wrap(ring.head + n, RcvLen)
           head_sequence == SeqPlus(ring.head_sequence, n)
           moved == rcvRing_advance_head(ring)
<1>1. /\ ring \in SkyRcvRing /\ Ready(ring) \in 0 .. RcvLen - 1
      /\ ring.head_sequence = SeqPlus(ring.tail_sequence, Ready(ring))
  BY RingFields DEF Loose
<1>2. /\ n \in Nat /\ Ready(ring) + n + HorizonWidth + 1 <= RcvLen
      /\ AdvanceEnds(ring, n) /\ \A m \in 0 .. n - 1 : ~AdvanceEnds(ring, m)
  BY StepsFound
<1>3. moved = [ring EXCEPT !.head = head, !.head_sequence = head_sequence]
  BY <1>1 DEF rcvRing_advance_head, SkyRcvRing
<1> HIDE DEF n, moved
<1>4. Ready(ring) + n < RcvLen /\ Ready(ring) + n <= RcvLen
  BY <1>1, <1>2, Constants
<1>5. head \in RcvSlots /\ Dist(ring, head) = Ready(ring) + n
  BY <1>1, <1>2, <1>4, BeyondHead
<1>6. head_sequence \in Sequence /\ head_sequence = SeqPlus(ring.tail_sequence, Ready(ring) + n)
  <2>1. ring.tail_sequence \in Int /\ ring.head_sequence \in Int /\ n \in Int /\ Ready(ring) \in Int
    <3>1. ring.tail_sequence \in Sequence /\ ring.head_sequence \in Sequence
      BY <1>1, RingFields
    <3>2. ring.tail_sequence \in Int /\ ring.head_sequence \in Int
      BY <3>1 DEF Sequence
    <3> QED BY <1>1, <1>2, <3>2
  <2>2. head_sequence \in Sequence
    BY <2>1, SeqType
  <2>3. SeqPlus(SeqPlus(ring.tail_sequence, Ready(ring)), n)
          = SeqPlus(ring.tail_sequence, Ready(ring) + n)
    BY <2>1, SeqPlusPlus
  <2> QED BY <1>1, <2>2, <2>3
<1> HIDE DEF head, head_sequence
<1>7. /\ moved \in SkyRcvRing /\ moved.buff = ring.buff /\ moved.tail = ring.tail
      /\ moved.head = head /\ moved.head_sequence = head_sequence
      /\ moved.tail_sequence = ring.tail_sequence
  BY <1>1, <1>3, <1>5, <1>6 DEF SkyRcvRing
<1>8. /\ Ready(moved) = Ready(ring) + n
      /\ \A i \in RcvSlots : Dist(moved, i) = Dist(ring, i)
  BY <1>5, <1>7 DEF Ready, Dist
<1>9. ASSUME NEW i \in RcvSlots
      PROVE  /\ Dist(ring, i) < Ready(ring) + n => ring.buff[i].idx # EB_NULL_IDX
             /\ Dist(ring, i) > Ready(ring) + n + HorizonWidth => ring.buff[i].idx = EB_NULL_IDX
  <2> DEFINE d == Dist(ring, i)
  <2>1. d \in 0 .. RcvLen - 1
    BY <1>1, RingFields
  <2>2. CASE d < Ready(ring)
    BY <1>1, <1>2, <2>1, <2>2, Constants DEF Loose
  <2>3. CASE d >= Ready(ring) /\ d < Ready(ring) + n
    <3> DEFINE m == d - Ready(ring)
    <3>1. m \in 0 .. n - 1 /\ m \in Nat /\ Ready(ring) + m <= RcvLen /\ Ready(ring) + m < RcvLen
          /\ Ready(ring) + m = d
      BY <1>1, <1>2, <2>1, <2>3, Constants
    <3> HIDE DEF m
    <3>2. ring_wrap(ring.head + m, RcvLen) \in RcvSlots
          /\ Dist(ring, ring_wrap(ring.head + m, RcvLen)) = d
      BY <1>1, <3>1, BeyondHead
    <3>3. ring_wrap(ring.head + m, RcvLen) = i
      BY <1>1, <3>2, SameDistance, RingFields, Constants DEF Dist, RcvSlots
    <3>4. ring.buff[i].idx # EB_NULL_IDX
      BY <1>2, <3>1, <3>3 DEF AdvanceEnds
    <3> HIDE DEF d
    <3>5. ~(d > Ready(ring) + n + HorizonWidth)
      BY <1>1, <1>2, <2>1, <2>3, Constants
    <3> QED BY <3>4, <3>5 DEF d
  <2>4. CASE d >= Ready(ring) + n
    <3>1. d > Ready(ring) + n + HorizonWidth => d > Ready(ring) + HorizonWidth
      BY <1>1, <1>2, <2>1, Constants
    <3>2. ~(d < Ready(ring) + n)
      BY <1>1, <1>2, <2>1, <2>4
    <3> QED BY <3>1, <3>2 DEF Loose
  <2> QED BY <1>1, <1>2, <2>1, <2>2, <2>3, <2>4
<1>10. Loose(moved)
  <2>1. Ready(moved) + HorizonWidth + 1 <= RcvLen
    BY <1>1, <1>2, <1>8, Constants
  <2>2. \A i \in RcvSlots :
          ring.buff[i].sequence =
            IF ring.buff[i].idx = EB_NULL_IDX THEN 0
            ELSE SeqPlus(ring.tail_sequence, Dist(ring, i))
    BY DEF Loose
  <2> QED BY <1>6, <1>7, <1>8, <1>9, <2>1, <2>2 DEF Loose
<1>11. AtGap(moved)
  <2>1. SUFFICES ASSUME ring.buff[head].idx # EB_NULL_IDX
                 PROVE  Ready(ring) + n + HorizonWidth + 1 = RcvLen
    BY <1>7, <1>8 DEF AtGap
  <2>2. ring_wrap(ring.head + n + HorizonWidth + 1, RcvLen) = ring.tail
    BY <1>2, <2>1 DEF AdvanceEnds, head
  <2>3. ring.head + n + HorizonWidth + 1 = ring.head + (n + HorizonWidth + 1)
        /\ n + HorizonWidth + 1 \in Nat /\ n + HorizonWidth + 1 > 0
        /\ Ready(ring) + (n + HorizonWidth + 1) <= RcvLen
    BY <1>1, <1>2, RingFields, Constants
  <2>4. Ready(ring) + (n + HorizonWidth + 1) = RcvLen
    BY <1>1, <2>2, <2>3, BeyondHead
  <2> QED BY <1>1, <1>2, <2>4, Constants
<1> QED BY <1>7, <1>10, <1>11 DEF moved

-----------------------------------------------------------------------------
(* The actions. *)

\* The invariant, said of the ring as a record.
LEMMA InvMeans ==
  Inv <=> /\ Loose(rcvRing) /\ AtGap(rcvRing) /\ PayloadsOwned
          /\ elements \in Store /\ out \in RxPacket \cup {NoPacket}
<1>1. /\ Readable = Ready(rcvRing)
      /\ \A i : Offset(i) = Dist(rcvRing, i)
  BY DEF Readable, Ready, Offset, Dist
<1>2. rcvRing \in SkyRcvRing => rcvRing.head \in RcvSlots
  BY RingFields
<1>3. ASSUME Inv
      PROVE  /\ Loose(rcvRing) /\ AtGap(rcvRing) /\ PayloadsOwned
             /\ elements \in Store /\ out \in RxPacket \cup {NoPacket}
  BY <1>1, <1>2, <1>3 DEF Inv, TypeOK, RingInv, HorizonClear, SlotsAgree, Loose, AtGap
<1>4. ASSUME /\ Loose(rcvRing) /\ AtGap(rcvRing) /\ PayloadsOwned
             /\ elements \in Store /\ out \in RxPacket \cup {NoPacket}
      PROVE  Inv
  BY <1>1, <1>4 DEF Inv, TypeOK, RingInv, HorizonClear, SlotsAgree, Loose, AtGap
<1> QED BY <1>3, <1>4

\* The same of the state after a step.
LEMMA InvNext ==
  ASSUME Loose(rcvRing'), AtGap(rcvRing'), PayloadsOwned',
         elements' \in Store, out' \in RxPacket \cup {NoPacket}
  PROVE  Inv'
<1>1. /\ Readable' = Ready(rcvRing')
      /\ \A i : Offset(i)' = Dist(rcvRing', i)
  BY DEF Readable, Ready, Offset, Dist
<1> QED BY <1>1 DEF Inv, TypeOK, RingInv, HorizonClear, SlotsAgree, Loose, AtGap

\* The ring with a packet in it and its head where it was.
Filled(ring, idx, sequence) ==
  [ring EXCEPT !.buff[SlotFor(ring, sequence)] = [idx |-> idx, sequence |-> sequence],
               !.storage_count = @ + 1]

\* A slot that takes an accepted packet: where it is, and that the ring with the
\* packet in it is in order but for its head.
LEMMA PushLoose ==
  ASSUME NEW ring, Loose(ring), NEW sequence \in Sequence, Accepts(ring, sequence),
         NEW idx \in Idx
  PROVE  /\ Loose(Filled(ring, idx, sequence))
         /\ SlotFor(ring, sequence) \in RcvSlots
         /\ AheadOfHead(ring, sequence) \in 0 .. HorizonWidth
         /\ Dist(ring, SlotFor(ring, sequence)) = Ready(ring) + AheadOfHead(ring, sequence)
         /\ Ready(ring) + AheadOfHead(ring, sequence) < RcvLen
         /\ Filled(ring, idx, sequence).tail = ring.tail
         /\ Filled(ring, idx, sequence).tail_sequence = ring.tail_sequence
         /\ Filled(ring, idx, sequence).buff =
              [ring.buff EXCEPT ![SlotFor(ring, sequence)] = [idx |-> idx, sequence |-> sequence]]
<1> DEFINE a == AheadOfHead(ring, sequence)
           slot == SlotFor(ring, sequence)
           item == [idx |-> idx, sequence |-> sequence]
           buff == [ring.buff EXCEPT ![slot] = item]
           filled == Filled(ring, idx, sequence)
<1>1. /\ ring \in SkyRcvRing /\ Ready(ring) \in 0 .. RcvLen - 1
      /\ Ready(ring) + HorizonWidth + 1 <= RcvLen
      /\ ring.head_sequence = SeqPlus(ring.tail_sequence, Ready(ring))
      /\ ring.head_sequence \in Sequence /\ ring.tail_sequence \in Sequence
      /\ ring.buff \in [RcvSlots -> RingItem] /\ ring.storage_count \in Int
  BY RingFields DEF Loose
<1>2. a \in Nat /\ a <= HorizonWidth /\ SeqPlus(ring.head_sequence, a) = sequence
      /\ slot = ring_wrap(ring.head + a, RcvLen) /\ ring.buff[slot].idx = EB_NULL_IDX
  BY <1>1, SeqMinusType, SeqPlusMinus DEF Accepts, AheadOfHead, SlotFor
<1> HIDE DEF a, slot, filled
<1>3. Ready(ring) + a < RcvLen /\ Ready(ring) + a <= RcvLen /\ a \in 0 .. HorizonWidth
  BY <1>1, <1>2, Constants
<1>4. slot \in RcvSlots /\ Dist(ring, slot) = Ready(ring) + a
  BY <1>1, <1>2, <1>3, BeyondHead
<1>5. sequence = SeqPlus(ring.tail_sequence, Ready(ring) + a)
  <2>1. ring.tail_sequence \in Int /\ Ready(ring) \in Int /\ a \in Int
    BY <1>1, <1>2 DEF Sequence
  <2>2. SeqPlus(SeqPlus(ring.tail_sequence, Ready(ring)), a)
          = SeqPlus(ring.tail_sequence, Ready(ring) + a)
    BY <2>1, SeqPlusPlus
  <2> QED BY <1>1, <1>2, <2>2
<1>6. item \in RingItem
  BY DEF RingItem
<1> HIDE DEF item
<1>7. /\ buff \in [RcvSlots -> RingItem]
      /\ \A i \in RcvSlots : buff[i] = IF i = slot THEN item ELSE ring.buff[i]
  BY <1>1, <1>4, <1>6
<1>8. filled = [ring EXCEPT !.buff = buff, !.storage_count = ring.storage_count + 1]
  BY <1>1 DEF SkyRcvRing, slot, item, filled, Filled
<1> HIDE DEF buff
<1>9. /\ filled \in SkyRcvRing /\ filled.buff = buff
      /\ filled.head = ring.head /\ filled.tail = ring.tail
      /\ filled.head_sequence = ring.head_sequence
      /\ filled.tail_sequence = ring.tail_sequence
  <2>1. ring.storage_count + 1 \in Int
    BY <1>1
  <2> QED BY <1>1, <1>7, <1>8, <2>1 DEF SkyRcvRing
<1>10. Ready(filled) = Ready(ring) /\ \A i : Dist(filled, i) = Dist(ring, i)
  BY <1>9 DEF Ready, Dist
<1>11. Loose(filled)
  <2>1. ASSUME NEW i \in RcvSlots
        PROVE  /\ Dist(ring, i) < Ready(ring) => buff[i].idx # EB_NULL_IDX
               /\ Dist(ring, i) > Ready(ring) + HorizonWidth => buff[i].idx = EB_NULL_IDX
               /\ buff[i].sequence =
                    IF buff[i].idx = EB_NULL_IDX THEN 0
                    ELSE SeqPlus(ring.tail_sequence, Dist(ring, i))
    <3>1. CASE i = slot
      <4>1. buff[i].idx = idx /\ buff[i].sequence = sequence /\ idx # EB_NULL_IDX
        BY <1>7, <3>1, Constants DEF item
      <4>2. ~(Dist(ring, i) > Ready(ring) + HorizonWidth)
        BY <1>1, <1>3, <1>4, <3>1, Constants
      <4> QED BY <1>4, <1>5, <3>1, <4>1, <4>2
    <3>2. CASE i # slot
      BY <1>7, <3>2 DEF Loose
    <3> QED BY <3>1, <3>2
  <2> QED BY <1>1, <1>9, <1>10, <2>1 DEF Loose
<1> QED BY <1>3, <1>4, <1>9, <1>11 DEF buff, slot, a, item, filled

\* rcvRing_push_rx_packet keeps the invariant.
LEMMA PushRxInv ==
  ASSUME Inv, NEW sequence \in Sequence, NEW payload \in Payload, PushRx(sequence, payload)
  PROVE  Inv'
<1>1. PICK idx \in FreeIdx(elements) :
        /\ elements' = Stored(elements, idx, payload)
        /\ rcvRing' = rcvRing_push_rx_packet(rcvRing, idx, sequence)
  BY DEF PushRx
<1>2. /\ Loose(rcvRing) /\ PayloadsOwned /\ elements \in Store
      /\ out' \in RxPacket \cup {NoPacket} /\ Accepts(rcvRing, sequence)
      /\ idx \in Idx /\ elements[idx] = NoPayload
      /\ rcvRing.buff \in [RcvSlots -> RingItem]
  BY <1>1, InvMeans, RingFields DEF PushRx, FreeIdx, Loose
<1> DEFINE slot == SlotFor(rcvRing, sequence)
           item == [idx |-> idx, sequence |-> sequence]
           filled == Filled(rcvRing, idx, sequence)
<1>3. rcvRing' = rcvRing_advance_head(filled)
  BY <1>1 DEF rcvRing_push_rx_packet, Filled
<1>4. Loose(filled) /\ slot \in RcvSlots /\ filled.buff = [rcvRing.buff EXCEPT ![slot] = item]
  BY <1>2, PushLoose
<1> HIDE DEF filled
<1>5. Loose(rcvRing') /\ AtGap(rcvRing')
      /\ rcvRing'.buff = [rcvRing.buff EXCEPT ![slot] = item]
  BY <1>3, <1>4, AdvanceHead
<1>6. rcvRing.buff[slot].idx = EB_NULL_IDX
  BY <1>2 DEF Accepts
<1> HIDE DEF slot
<1>7. \A i \in RcvSlots :
        rcvRing'.buff[i].idx = IF i = slot THEN idx ELSE rcvRing.buff[i].idx
  BY <1>2, <1>4, <1>5
<1>8. elements' \in Store /\ \A j \in Idx : elements'[j] = IF j = idx THEN payload ELSE elements[j]
  BY <1>1, <1>2 DEF Stored, Store
<1>9. PayloadsOwned'
  <2>1. \A i \in RcvSlots : rcvRing.buff[i].idx # idx
    BY <1>2, Constants DEF PayloadsOwned, RcvRingHeld
  <2>2. ASSUME NEW i \in RcvSlots, NEW j \in RcvSlots, rcvRing'.buff[i].idx = rcvRing'.buff[j].idx
        PROVE  i = j \/ rcvRing'.buff[i].idx = EB_NULL_IDX
    BY <1>2, <1>7, <2>1, <2>2 DEF PayloadsOwned
  <2>3. ASSUME NEW j \in Idx
        PROVE  elements'[j] # NoPayload <=> \E i \in RcvSlots : rcvRing'.buff[i].idx = j
    <3>1. elements[j] # NoPayload <=> \E i \in RcvSlots : rcvRing.buff[i].idx = j
      BY <1>2, Constants DEF PayloadsOwned, RcvRingHeld
    <3>2. j # EB_NULL_IDX
      BY Constants
    <3> QED BY <1>4, <1>6, <1>7, <1>8, <3>1, <3>2, Constants
  <2> QED BY <2>2, <2>3, Constants DEF PayloadsOwned, RcvRingHeld
<1> QED BY <1>2, <1>5, <1>8, <1>9, InvNext

\* The ring without the packet at its tail, and its head where it was.
Emptied(ring) ==
  [ring EXCEPT !.buff[ring.tail] = VacantItem,
               !.storage_count   = @ - 1,
               !.tail            = ring_wrap(@ + 1, RcvLen),
               !.tail_sequence   = SeqPlus(@, 1)]

\* When a packet is ready the tail holds one, and the ring without it is in order
\* but for its head; what was at distance d from the tail is at distance d - 1.
LEMMA ReadLoose ==
  ASSUME NEW ring, Loose(ring), Ready(ring) # 0
  PROVE  /\ Loose(Emptied(ring))
         /\ ring.buff[ring.tail].idx # EB_NULL_IDX
         /\ ring.buff[ring.tail].sequence = ring.tail_sequence
         /\ Emptied(ring).buff = [ring.buff EXCEPT ![ring.tail] = VacantItem]
         /\ Emptied(ring).tail = ring_wrap(ring.tail + 1, RcvLen)
         /\ Emptied(ring).tail_sequence = SeqPlus(ring.tail_sequence, 1)
         /\ Dist(ring, ring.tail) = 0
<1> DEFINE tail == ring_wrap(ring.tail + 1, RcvLen)
           tail_sequence == SeqPlus(ring.tail_sequence, 1)
           buff == [ring.buff EXCEPT ![ring.tail] = VacantItem]
           count == ring.storage_count - 1
           emptied == Emptied(ring)
<1>1. /\ ring \in SkyRcvRing /\ Ready(ring) \in 1 .. RcvLen - 1
      /\ Ready(ring) + HorizonWidth + 1 <= RcvLen
      /\ ring.head_sequence = SeqPlus(ring.tail_sequence, Ready(ring))
      /\ ring.tail_sequence \in Sequence /\ ring.tail_sequence \in Int
      /\ ring.head \in 0 .. RcvLen - 1 /\ ring.tail \in 0 .. RcvLen - 1
      /\ ring.head \in RcvSlots /\ ring.tail \in RcvSlots
      /\ ring.buff \in [RcvSlots -> RingItem] /\ count \in Int
  BY RingFields DEF Loose, Sequence
<1>2. Dist(ring, ring.tail) = 0
  BY <1>1, NoDistance, Constants DEF Dist
<1>3. /\ ring.buff[ring.tail].idx # EB_NULL_IDX
      /\ ring.buff[ring.tail].sequence = SeqPlus(ring.tail_sequence, 0)
  BY <1>1, <1>2 DEF Loose
<1>4. tail \in RcvSlots /\ tail_sequence \in Sequence
  BY <1>1, NextSlot, SeqNext, Constants DEF RcvSlots
<1>5. ASSUME NEW i \in RcvSlots
      PROVE  ring_wrap(i - tail, RcvLen)
               = IF i = ring.tail THEN RcvLen - 1 ELSE Dist(ring, i) - 1
  <2>1. i \in 0 .. RcvLen - 1 /\ 1 \in 0 .. RcvLen - 1 /\ RcvLen \in Nat \ {0}
    BY SlotFacts, Constants
  <2>2. Dist(ring, i) \in 0 .. RcvLen - 1
    BY <1>1, RingFields
  <2>3. ring_wrap(i - tail, RcvLen)
          = IF Dist(ring, i) >= 1 THEN Dist(ring, i) - 1 ELSE Dist(ring, i) - 1 + RcvLen
    BY <1>1, <2>1, DistanceFromAdvanced DEF Dist
  <2>4. Dist(ring, i) = 0 <=> i = ring.tail
    BY <1>1, <2>1, NoDistance DEF Dist
  <2> HIDE DEF tail
  <2> QED BY <2>1, <2>2, <2>3, <2>4
<1>6. /\ buff \in [RcvSlots -> RingItem]
      /\ \A i \in RcvSlots : buff[i] = IF i = ring.tail THEN VacantItem ELSE ring.buff[i]
  BY <1>1, SlotFacts
<1>7. emptied = [ring EXCEPT !.buff = buff, !.storage_count = count, !.tail = tail,
                             !.tail_sequence = tail_sequence]
  BY <1>1 DEF SkyRcvRing, Emptied
<1> HIDE DEF tail, tail_sequence, buff, count, emptied
<1>8. /\ emptied \in SkyRcvRing /\ emptied.buff = buff
      /\ emptied.head = ring.head /\ emptied.tail = tail
      /\ emptied.head_sequence = ring.head_sequence
      /\ emptied.tail_sequence = tail_sequence
  BY <1>1, <1>4, <1>6, <1>7 DEF SkyRcvRing
<1>9. /\ \A i \in RcvSlots :
           Dist(emptied, i) = IF i = ring.tail THEN RcvLen - 1 ELSE Dist(ring, i) - 1
      /\ Ready(emptied) = Ready(ring) - 1
  <2>1. ring.head # ring.tail
    BY <1>2 DEF Ready
  <2> QED BY <1>1, <1>5, <1>8, <2>1 DEF Dist, Ready
<1>10. \A n \in Int : SeqPlus(tail_sequence, n) = SeqPlus(ring.tail_sequence, 1 + n)
  <2>1. 1 \in Int /\ ring.tail_sequence \in Int
    BY <1>1
  <2> QED BY <2>1, SeqPlusPlus, Zenon DEF tail_sequence
<1>11. Loose(emptied)
  <2>1. Ready(emptied) + HorizonWidth + 1 <= RcvLen
    BY <1>1, <1>9, Constants
  <2>2. emptied.head_sequence = SeqPlus(tail_sequence, Ready(emptied))
    <3>1. Ready(emptied) \in Int /\ 1 + Ready(emptied) = Ready(ring)
      BY <1>1, <1>9
    <3> QED BY <1>1, <1>8, <1>10, <3>1
  <2>3. ASSUME NEW i \in RcvSlots
        PROVE  /\ Dist(emptied, i) < Ready(emptied) => buff[i].idx # EB_NULL_IDX
               /\ Dist(emptied, i) > Ready(emptied) + HorizonWidth
                    => buff[i].idx = EB_NULL_IDX
               /\ buff[i].sequence =
                    IF buff[i].idx = EB_NULL_IDX THEN 0
                    ELSE SeqPlus(tail_sequence, Dist(emptied, i))
    <3>1. CASE i = ring.tail
      <4>1. buff[i].idx = EB_NULL_IDX /\ buff[i].sequence = 0
        BY <1>6, <3>1 DEF VacantItem
      <4>2. ~(Dist(emptied, i) < Ready(emptied))
        BY <1>1, <1>9, <3>1, Constants
      <4> QED BY <4>1, <4>2
    <3>2. CASE i # ring.tail
      <4>1. /\ Dist(ring, i) \in Int /\ Dist(emptied, i) = Dist(ring, i) - 1
            /\ buff[i] = ring.buff[i]
        BY <1>1, <1>6, <1>9, <3>2, RingFields
      <4>2. /\ Dist(emptied, i) < Ready(emptied) => Dist(ring, i) < Ready(ring)
            /\ Dist(emptied, i) > Ready(emptied) + HorizonWidth
                 => Dist(ring, i) > Ready(ring) + HorizonWidth
            /\ Dist(emptied, i) \in Int /\ 1 + Dist(emptied, i) = Dist(ring, i)
        BY <1>1, <1>9, <4>1, Constants
      <4>3. SeqPlus(tail_sequence, Dist(emptied, i)) = SeqPlus(ring.tail_sequence, Dist(ring, i))
        BY <1>10, <4>2
      <4> QED BY <4>1, <4>2, <4>3 DEF Loose
    <3> QED BY <3>1, <3>2
  <2> QED BY <1>8, <2>1, <2>2, <2>3 DEF Loose
<1>12. ring.buff[ring.tail].sequence = ring.tail_sequence
  BY <1>1, <1>3, SeqPlusZero
<1> QED BY <1>2, <1>3, <1>8, <1>11, <1>12 DEF emptied, buff, tail, tail_sequence

\* rcvRing_read_next_received keeps the invariant.
LEMMA ReadNextInv ==
  ASSUME Inv, ReadNext
  PROVE  Inv'
<1> DEFINE tail == rcvRing.tail
           held == rcvRing.buff[tail].idx
           emptied == Emptied(rcvRing)
<1>1. /\ Loose(rcvRing) /\ PayloadsOwned /\ elements \in Store
      /\ rcvRing.buff \in [RcvSlots -> RingItem] /\ tail \in RcvSlots
      /\ Ready(rcvRing) # 0
  BY InvMeans, RingFields DEF ReadNext, Loose, rcvRing_count_readable_packets, Ready, Dist
<1>2. rcvRing' = rcvRing_advance_head(emptied)
  BY DEF ReadNext, rcvRing_read_next_received, Emptied
<1>3. Loose(emptied) /\ held # EB_NULL_IDX
      /\ emptied.buff = [rcvRing.buff EXCEPT ![tail] = VacantItem]
  BY <1>1, ReadLoose
<1> HIDE DEF emptied
<1>4. Loose(rcvRing') /\ AtGap(rcvRing')
      /\ rcvRing'.buff = [rcvRing.buff EXCEPT ![tail] = VacantItem]
  BY <1>2, <1>3, AdvanceHead
<1>5. held \in Idx /\ elements[held] \in Payload /\ rcvRing.buff[tail].sequence \in Sequence
  <2>1. held \in Idx /\ rcvRing.buff[tail].sequence \in Sequence
    BY <1>1, <1>3 DEF RingItem
  <2>2. elements[held] # NoPayload
    BY <1>1, <1>3, <2>1 DEF PayloadsOwned, RcvRingHeld
  <2> QED BY <1>1, <2>1, <2>2 DEF Store
<1>6. out' \in RxPacket \cup {NoPacket}
  BY <1>5 DEF ReadNext, RxPacket
<1>7. elements' \in Store
      /\ \A j \in Idx : elements'[j] = IF j = held THEN NoPayload ELSE elements[j]
  BY <1>1 DEF ReadNext, Deleted, Store
<1>8. \A i \in RcvSlots :
        rcvRing'.buff[i].idx = IF i = tail THEN EB_NULL_IDX ELSE rcvRing.buff[i].idx
  BY <1>1, <1>4 DEF VacantItem
<1>9. PayloadsOwned'
  <2>1. ASSUME NEW i \in RcvSlots, i # tail PROVE rcvRing.buff[i].idx # held
    BY <1>1, <1>3, <2>1 DEF PayloadsOwned
  <2>2. ASSUME NEW i \in RcvSlots, NEW j \in RcvSlots, rcvRing'.buff[i].idx = rcvRing'.buff[j].idx
        PROVE  i = j \/ rcvRing'.buff[i].idx = EB_NULL_IDX
    BY <1>1, <1>8, <2>2 DEF PayloadsOwned
  <2>3. ASSUME NEW j \in Idx
        PROVE  elements'[j] # NoPayload <=> \E i \in RcvSlots : rcvRing'.buff[i].idx = j
    <3>1. elements[j] # NoPayload <=> \E i \in RcvSlots : rcvRing.buff[i].idx = j
      BY <1>1, Constants DEF PayloadsOwned, RcvRingHeld
    <3>2. j # EB_NULL_IDX
      BY Constants
    <3> HIDE DEF held, tail
    <3>3. CASE j = held
      BY <1>7, <1>8, <2>1, <3>2, <3>3
    <3>4. CASE j # held
      BY <1>7, <1>8, <3>1, <3>2, <3>4 DEF held
    <3> QED BY <3>3, <3>4
  <2> QED BY <2>2, <2>3, Constants DEF PayloadsOwned, RcvRingHeld
<1> QED BY <1>4, <1>6, <1>7, <1>9, InvNext

\* A wiped ring is in order, whatever number it starts from.
LEMMA WipedLoose ==
  ASSUME NEW sequence \in Sequence
  PROVE  /\ Loose(sky_rcv_ring_wipe(sequence)) /\ AtGap(sky_rcv_ring_wipe(sequence))
         /\ Ready(sky_rcv_ring_wipe(sequence)) = 0
<1> DEFINE ring == sky_rcv_ring_wipe(sequence)
<1>1. /\ ring \in SkyRcvRing /\ ring.head = 0 /\ ring.tail = 0
      /\ ring.head_sequence = sequence /\ ring.tail_sequence = sequence
      /\ \A i \in RcvSlots : ring.buff[i].idx = EB_NULL_IDX /\ ring.buff[i].sequence = 0
  BY SlotFacts DEF sky_rcv_ring_wipe, SkyRcvRing, VacantItem
<1> HIDE DEF ring
<1>2. Ready(ring) = 0
  BY <1>1, SlotFacts DEF Ready, Dist
<1>3. AtGap(ring)
  BY <1>1, SlotFacts DEF AtGap
<1>4. \A i \in RcvSlots : Dist(ring, i) \in 0 .. RcvLen - 1
  BY <1>1, RingFields
<1>5. Ready(ring) + HorizonWidth + 1 <= RcvLen
  BY <1>2, Constants
<1>6. ring.head_sequence = SeqPlus(ring.tail_sequence, Ready(ring))
  BY <1>1, <1>2, SeqPlusZero
<1>7. \A i \in RcvSlots : ~(Dist(ring, i) < Ready(ring))
  BY <1>2, <1>4
<1>8. Loose(ring)
  BY <1>1, <1>5, <1>6, <1>7 DEF Loose
<1> QED BY <1>2, <1>3, <1>8 DEF ring

\* sky_rcv_ring_wipe keeps the invariant: what it forgets it has deleted.
LEMMA WipeInv ==
  ASSUME Inv, NEW sequence \in Sequence, Wipe(sequence)
  PROVE  Inv'
<1>1. Loose(rcvRing') /\ AtGap(rcvRing')
  BY WipedLoose DEF Wipe
<1>2. elements \in Store /\ PayloadsOwned /\ out' \in RxPacket \cup {NoPacket}
  BY InvMeans DEF Wipe
<1>3. elements' \in Store /\ \A j \in Idx : elements'[j] = NoPayload
  BY <1>2 DEF Wipe, Deleted, Store, PayloadsOwned
<1>4. \A i \in RcvSlots : rcvRing'.buff[i].idx = EB_NULL_IDX
  BY DEF Wipe, sky_rcv_ring_wipe, VacantItem
<1>5. PayloadsOwned'
  BY <1>3, <1>4 DEF PayloadsOwned, RcvRingHeld
<1> QED BY <1>1, <1>2, <1>3, <1>5, InvNext

\* The ring starts in order.
LEMMA InitInv == Init => Inv
<1>1. SUFFICES ASSUME Init PROVE Inv
  OBVIOUS
<1>2. Loose(rcvRing) /\ AtGap(rcvRing)
  BY <1>1, WipedLoose, SeqType DEF Init
<1>3. elements \in Store /\ \A j \in Idx : elements[j] = NoPayload
  BY <1>1 DEF Init, EmptyStore, Store
<1>4. \A i \in RcvSlots : rcvRing.buff[i].idx = EB_NULL_IDX
  BY <1>1 DEF Init, sky_rcv_ring_wipe, VacantItem
<1>5. PayloadsOwned
  BY <1>3, <1>4 DEF PayloadsOwned, RcvRingHeld
<1> QED BY <1>1, <1>2, <1>3, <1>5, InvMeans DEF Init

\* Every step keeps the invariant.
LEMMA NextInv == Inv /\ [Next]_vars => Inv'
<1>1. SUFFICES ASSUME Inv, [Next]_vars PROVE Inv'
  OBVIOUS
<1>2. CASE UNCHANGED vars
  BY <1>1, <1>2 DEF vars, Inv, TypeOK, RingInv, HorizonClear, SlotsAgree, PayloadsOwned,
                    Readable, Offset
<1>3. CASE \E sequence \in Sequence, payload \in Payload : PushRx(sequence, payload)
  BY <1>1, <1>3, PushRxInv
<1>4. CASE ReadNext
  BY <1>1, <1>4, ReadNextInv
<1>5. CASE \E sequence \in Sequence : Wipe(sequence)
  BY <1>1, <1>5, WipeInv
<1> QED BY <1>1, <1>2, <1>3, <1>4, <1>5 DEF Next

\* The inductive invariant holds of every behaviour.
LEMMA Invariance == Spec => []Inv
BY InitInv, NextInv, PTL DEF Spec

-----------------------------------------------------------------------------
(* What it means for the code. *)

\* Every field of the ring, of the element buffer and of the packet delivered
\* keeps its type: head and tail are always valid indices into the C array.
THEOREM TypeCorrect == Spec => []TypeOK
<1>1. Inv => TypeOK
  BY DEF Inv
<1> QED BY <1>1, Invariance, PTL

\* The horizon never runs over the tail, and the head's index and number move in
\* step, for every length of the ring and every range of the numbers.
THEOREM HorizonCorrect == Spec => []HorizonClear
<1>1. Inv => HorizonClear
  BY DEF Inv, RingInv
<1> QED BY <1>1, Invariance, PTL

\* rcvRing_advance_head leaves the head at the first missing packet or where the
\* horizon meets the tail, and every packet sits in the slot of its number.
THEOREM SlotsCorrect == Spec => []SlotsAgree
<1>1. Inv => SlotsAgree
  BY DEF Inv, RingInv
<1> QED BY <1>1, Invariance, PTL

\* The receive ring leaks no payload, frees none it still refers to, and never
\* has two slots refer to one.
THEOREM PayloadsCorrect == Spec => []PayloadsOwned
<1>1. Inv => PayloadsOwned
  BY DEF Inv, RingInv
<1> QED BY <1>1, Invariance, PTL

-----------------------------------------------------------------------------
(* The ring implements RcvWindow. *)

\* The slot at place k of the window, and the window of a ring and a store.
SlotAt(ring, k) == ring_wrap(ring.tail + k, RcvLen)
WindowOf(ring, store) ==
  [k \in 0 .. RcvLen - 1 |->
    LET item == ring.buff[ring_wrap(ring.tail + k, RcvLen)]
    IN  IF item.idx = EB_NULL_IDX THEN NoPayload ELSE store[item.idx]]

\* A slot of the ring that holds a packet has its payload in the store.
Backed(ring, store) ==
  \A i \in RcvSlots : ring.buff[i].idx # EB_NULL_IDX => store[ring.buff[i].idx] # NoPayload

\* The invariant says so of the ring and the element buffer.
LEMMA InvBacked == PayloadsOwned /\ rcvRing \in SkyRcvRing => Backed(rcvRing, elements)
<1>1. SUFFICES ASSUME PayloadsOwned, rcvRing \in SkyRcvRing,
                      NEW i \in RcvSlots, rcvRing.buff[i].idx # EB_NULL_IDX
               PROVE  elements[rcvRing.buff[i].idx] # NoPayload
  BY DEF Backed
<1>2. rcvRing.buff[i].idx \in Idx
  BY <1>1, RingFields DEF RingItem
<1> QED BY <1>1, <1>2 DEF PayloadsOwned, RcvRingHeld

\* Places of the window and slots of the ring correspond one to one.
LEMMA Places ==
  ASSUME NEW ring \in SkyRcvRing
  PROVE  /\ \A k \in 0 .. RcvLen - 1 : SlotAt(ring, k) \in RcvSlots /\ Dist(ring, SlotAt(ring, k)) = k
         /\ \A i \in RcvSlots : SlotAt(ring, Dist(ring, i)) = i
<1>1. \A k \in 0 .. RcvLen - 1 : SlotAt(ring, k) \in RcvSlots /\ Dist(ring, SlotAt(ring, k)) = k
  BY AtDistance, RingFields, Constants DEF SlotAt, Dist, RcvSlots
<1>2. ASSUME NEW i \in RcvSlots PROVE SlotAt(ring, Dist(ring, i)) = i
  <2>1. Dist(ring, i) \in 0 .. RcvLen - 1 /\ ring.tail \in 0 .. RcvLen - 1 /\ i \in 0 .. RcvLen - 1
    BY RingFields, SlotFacts
  <2>2. SlotAt(ring, Dist(ring, i)) \in 0 .. RcvLen - 1
        /\ Dist(ring, SlotAt(ring, Dist(ring, i))) = Dist(ring, i)
    BY <1>1, <2>1, SlotFacts
  <2> QED BY <2>1, <2>2, SameDistance, Constants DEF Dist
<1> QED BY <1>1, <1>2

\* What a place of the window holds.
LEMMA WindowAt ==
  ASSUME NEW ring, NEW store, NEW k \in 0 .. RcvLen - 1
  PROVE  /\ WindowOf(ring, store)[k] =
              IF ring.buff[SlotAt(ring, k)].idx = EB_NULL_IDX THEN NoPayload
              ELSE store[ring.buff[SlotAt(ring, k)].idx]
         /\ WindowOf(ring, store) = [j \in 0 .. RcvLen - 1 |-> WindowOf(ring, store)[j]]
BY DEF WindowOf, SlotAt

\* The readable packets of a ring in order are those the window promises: up to
\* the first gap, and no further than the horizon allows.
LEMMA SettledReady ==
  ASSUME NEW ring, NEW store, Loose(ring), AtGap(ring), Backed(ring, store)
  PROVE  Window!Settled(WindowOf(ring, store)) = Ready(ring)
<1> DEFINE w == WindowOf(ring, store)
           r == Ready(ring)
           most == RcvLen - HorizonWidth - 1
           Ends(n) == /\ \A k \in 0 .. n - 1 : w[k] # NoPayload
                      /\ n = most \/ w[n] = NoPayload
<1>1. ring \in SkyRcvRing /\ r \in 0 .. RcvLen - 1 /\ r \in 0 .. most
  BY RingFields, Constants DEF Loose
<1>2. \A k \in 0 .. RcvLen - 1 : w[k] = NoPayload <=> ring.buff[SlotAt(ring, k)].idx = EB_NULL_IDX
  BY <1>1, WindowAt, Places DEF Backed
<1>3. \A k \in 0 .. r - 1 : w[k] # NoPayload
  <2>1. SUFFICES ASSUME NEW k \in 0 .. r - 1 PROVE w[k] # NoPayload
    OBVIOUS
  <2>2. k \in 0 .. RcvLen - 1 /\ k < r
    BY <1>1, <2>1, Constants
  <2>3. ring.buff[SlotAt(ring, k)].idx # EB_NULL_IDX
    BY <1>1, <2>2, Places DEF Loose
  <2> QED BY <1>2, <2>2, <2>3
<1>4. r = most \/ w[r] = NoPayload
  <2>1. SlotAt(ring, r) = ring.head
    BY <1>1, Places, RingFields DEF Ready
  <2>2. r + HorizonWidth + 1 = RcvLen => r = most
    BY <1>1, Constants
  <2> QED BY <1>1, <1>2, <2>1, <2>2 DEF AtGap
<1> HIDE DEF w, r
<1>5. ASSUME NEW n \in 0 .. most, Ends(n) PROVE n = r
  <2>1. most \in Nat
    BY Constants
  <2> HIDE DEF most
  <2>2. ~(n < r)
    <3>1. SUFFICES ASSUME n < r PROVE FALSE
      OBVIOUS
    <3>2. n \in 0 .. r - 1 /\ n # most
      BY <1>1, <2>1, <3>1
    <3> QED BY <1>3, <1>5, <3>2
  <2>3. ~(r < n)
    <3>1. SUFFICES ASSUME r < n PROVE FALSE
      OBVIOUS
    <3>2. r \in 0 .. n - 1 /\ r # most
      BY <1>1, <2>1, <3>1
    <3> QED BY <1>4, <1>5, <3>2
  <2> QED BY <1>1, <2>1, <2>2, <2>3
<1>6. Ends(r)
  BY <1>3, <1>4
<1>7. Window!Settled(w) = CHOOSE n \in 0 .. most : Ends(n)
  BY DEF Window!Settled, Window!Ready
<1> HIDE DEF most, Ends
<1>8. Window!Settled(w) = r
  BY <1>1, <1>5, <1>6, <1>7
<1> QED BY <1>8 DEF w, r

\* The refinement mapping is WindowOf, Ready and the number at the tail.
LEMMA Mapping ==
  /\ Window!Init <=> /\ WindowOf(rcvRing, elements) = [k \in 0 .. RcvLen - 1 |-> NoPayload]
                     /\ Ready(rcvRing) = 0
                     /\ rcvRing.tail_sequence = 0
                     /\ out = NoPacket
  /\ Window!Accept <=>
       /\ \E k \in Ready(rcvRing) .. Ready(rcvRing) + HorizonWidth, p \in Payload :
            /\ WindowOf(rcvRing, elements)[k] = NoPayload
            /\ WindowOf(rcvRing', elements') = [WindowOf(rcvRing, elements) EXCEPT ![k] = p]
       /\ Ready(rcvRing') = Window!Settled(WindowOf(rcvRing', elements'))
       /\ rcvRing'.tail_sequence = rcvRing.tail_sequence /\ out' = out
  /\ Window!Deliver <=>
       /\ Ready(rcvRing) > 0
       /\ out' = [sequence |-> rcvRing.tail_sequence, payload |-> WindowOf(rcvRing, elements)[0]]
       /\ WindowOf(rcvRing', elements') =
            [k \in 0 .. RcvLen - 1 |->
              IF k + 1 \in 0 .. RcvLen - 1 THEN WindowOf(rcvRing, elements)[k + 1] ELSE NoPayload]
       /\ Ready(rcvRing') = Window!Settled(WindowOf(rcvRing', elements'))
       /\ rcvRing'.tail_sequence = SeqPlus(rcvRing.tail_sequence, 1)
  /\ Window!Wipe <=>
       /\ WindowOf(rcvRing', elements') = [k \in 0 .. RcvLen - 1 |-> NoPayload]
       /\ Ready(rcvRing') = 0
       /\ rcvRing'.tail_sequence \in Sequence
       /\ out' = out
  /\ UNCHANGED vars => UNCHANGED Window!vars
BY DEF Window!Init, Window!Accept, Window!Deliver, Window!Wipe, Window!vars, Window!Places, vars,
       WindowOf, Ready, Dist, Readable, Offset, SeqPlus, Sequence

\* A packet put into the ring appears at one place of the window, within the
\* horizon, and the packets that are then ready are those the window promises.
LEMMA PushRxRefines ==
  ASSUME Inv, Inv', NEW sequence \in Sequence, NEW payload \in Payload, PushRx(sequence, payload)
  PROVE  Window!Accept
<1> DEFINE slot == SlotFor(rcvRing, sequence)
           place == Ready(rcvRing) + AheadOfHead(rcvRing, sequence)
           w == WindowOf(rcvRing, elements)
           wNew == WindowOf(rcvRing', elements')
<1>1. PICK idx \in FreeIdx(elements) :
        /\ elements' = Stored(elements, idx, payload)
        /\ rcvRing' = rcvRing_push_rx_packet(rcvRing, idx, sequence)
  BY DEF PushRx
<1>2. /\ Loose(rcvRing) /\ PayloadsOwned /\ elements \in Store
      /\ out' = out /\ Accepts(rcvRing, sequence) /\ rcvRing \in SkyRcvRing
      /\ idx \in Idx /\ elements[idx] = NoPayload
      /\ rcvRing.buff \in [RcvSlots -> RingItem]
  BY <1>1, InvMeans, RingFields DEF PushRx, FreeIdx, Loose
<1> DEFINE filled == Filled(rcvRing, idx, sequence)
<1>3. rcvRing' = rcvRing_advance_head(filled)
  BY <1>1 DEF rcvRing_push_rx_packet, Filled
<1>4. /\ Loose(filled) /\ filled.tail = rcvRing.tail /\ filled.tail_sequence = rcvRing.tail_sequence
      /\ filled.buff = [rcvRing.buff EXCEPT ![slot] = [idx |-> idx, sequence |-> sequence]]
      /\ slot \in RcvSlots /\ Dist(rcvRing, slot) = place /\ place < RcvLen
      /\ AheadOfHead(rcvRing, sequence) \in 0 .. HorizonWidth
  BY <1>2, PushLoose
<1> HIDE DEF filled
<1>5. /\ Loose(rcvRing') /\ AtGap(rcvRing') /\ rcvRing'.tail = rcvRing.tail
      /\ rcvRing'.tail_sequence = rcvRing.tail_sequence
      /\ rcvRing'.buff = [rcvRing.buff EXCEPT ![slot] = [idx |-> idx, sequence |-> sequence]]
  BY <1>3, <1>4, AdvanceHead
<1>6. rcvRing.buff[slot].idx = EB_NULL_IDX
  BY <1>2 DEF Accepts
<1>7. /\ Ready(rcvRing) \in 0 .. RcvLen - 1 /\ place \in 0 .. RcvLen - 1
      /\ place \in Ready(rcvRing) .. Ready(rcvRing) + HorizonWidth
  BY <1>2, <1>4, RingFields, Constants
<1> HIDE DEF slot, place
<1>8. \A i \in RcvSlots :
        rcvRing'.buff[i].idx = IF i = slot THEN idx ELSE rcvRing.buff[i].idx
  BY <1>2, <1>4, <1>5
<1>9. \A j \in Idx : elements'[j] = IF j = idx THEN payload ELSE elements[j]
  BY <1>1, <1>2 DEF Stored, Store
<1>10. \A k \in 0 .. RcvLen - 1 :
         /\ SlotAt(rcvRing', k) = SlotAt(rcvRing, k) /\ SlotAt(rcvRing, k) \in RcvSlots
         /\ SlotAt(rcvRing, k) = slot <=> k = place
  <2>1. \A k \in 0 .. RcvLen - 1 : SlotAt(rcvRing', k) = SlotAt(rcvRing, k)
    BY <1>5 DEF SlotAt
  <2> QED BY <1>2, <1>4, <2>1, Places
<1>11. Backed(rcvRing, elements) /\ Backed(rcvRing', elements')
  <2>1. Backed(rcvRing, elements)
    BY <1>2, InvBacked
  <2>2. ASSUME NEW i \in RcvSlots, i # slot, rcvRing.buff[i].idx # EB_NULL_IDX
        PROVE  rcvRing.buff[i].idx \in Idx /\ rcvRing.buff[i].idx # idx
    <3>1. rcvRing.buff[i].idx \in Idx
      BY <1>2, <2>2 DEF RingItem
    <3> QED BY <1>2, <2>1, <2>2, <3>1 DEF Backed
  <2>3. payload # NoPayload
    BY Constants
  <2>4. Backed(rcvRing', elements')
    BY <1>8, <1>9, <1>2, <2>1, <2>2, <2>3, Constants DEF Backed
  <2> QED BY <2>1, <2>4
<1>12. w[place] = NoPayload
  BY <1>6, <1>7, <1>10, WindowAt
<1>13. wNew = [w EXCEPT ![place] = payload]
  <2>1. ASSUME NEW k \in 0 .. RcvLen - 1
        PROVE  wNew[k] = IF k = place THEN payload ELSE w[k]
    <3> DEFINE i == SlotAt(rcvRing, k)
    <3>1. i \in RcvSlots /\ SlotAt(rcvRing', k) = i /\ (i = slot <=> k = place)
      BY <1>10
    <3>2. wNew[k] = IF rcvRing'.buff[i].idx = EB_NULL_IDX THEN NoPayload
                    ELSE elements'[rcvRing'.buff[i].idx]
      BY <3>1, WindowAt
    <3>3. w[k] = IF rcvRing.buff[i].idx = EB_NULL_IDX THEN NoPayload
                 ELSE elements[rcvRing.buff[i].idx]
      BY WindowAt
    <3> HIDE DEF i, w, wNew
    <3>4. CASE k = place
      BY <1>2, <1>8, <1>9, <3>1, <3>2, <3>4, Constants
    <3>5. CASE k # place
      <4>1. rcvRing'.buff[i].idx = rcvRing.buff[i].idx
        BY <1>8, <3>1, <3>5
      <4>2. rcvRing.buff[i].idx # EB_NULL_IDX
              => rcvRing.buff[i].idx \in Idx /\ rcvRing.buff[i].idx # idx
        BY <1>2, <1>11, <3>1 DEF RingItem, Backed
      <4> QED BY <1>9, <3>2, <3>3, <3>5, <4>1, <4>2
    <3> QED BY <3>4, <3>5
  <2>2. wNew = [k \in 0 .. RcvLen - 1 |-> wNew[k]] /\ w = [k \in 0 .. RcvLen - 1 |-> w[k]]
    BY DEF WindowOf
  <2> HIDE DEF w, wNew
  <2> QED BY <1>7, <2>1, <2>2
<1>14. Ready(rcvRing') = Window!Settled(wNew)
  BY <1>5, <1>11, SettledReady
<1> QED BY <1>2, <1>5, <1>7, <1>12, <1>13, <1>14, Mapping

\* Reading hands over place 0 of the window with its number and moves the other
\* packets one place down.
LEMMA ReadNextRefines ==
  ASSUME Inv, ReadNext
  PROVE  Window!Deliver
<1> DEFINE tail == rcvRing.tail
           held == rcvRing.buff[tail].idx
           emptied == Emptied(rcvRing)
           w == WindowOf(rcvRing, elements)
           wNew == WindowOf(rcvRing', elements')
<1>1. /\ Loose(rcvRing) /\ PayloadsOwned /\ elements \in Store /\ rcvRing \in SkyRcvRing
      /\ rcvRing.buff \in [RcvSlots -> RingItem] /\ tail \in RcvSlots /\ tail \in 0 .. RcvLen - 1
      /\ Ready(rcvRing) # 0 /\ Ready(rcvRing) \in 0 .. RcvLen - 1
  BY InvMeans, RingFields DEF ReadNext, Loose, rcvRing_count_readable_packets, Ready, Dist
<1>2. rcvRing' = rcvRing_advance_head(emptied)
  BY DEF ReadNext, rcvRing_read_next_received, Emptied
<1>3. /\ Loose(emptied) /\ held # EB_NULL_IDX
      /\ rcvRing.buff[tail].sequence = rcvRing.tail_sequence
      /\ emptied.buff = [rcvRing.buff EXCEPT ![tail] = VacantItem]
      /\ emptied.tail = ring_wrap(tail + 1, RcvLen)
      /\ emptied.tail_sequence = SeqPlus(rcvRing.tail_sequence, 1)
      /\ Dist(rcvRing, tail) = 0
  BY <1>1, ReadLoose
<1> HIDE DEF emptied
<1>4. /\ Loose(rcvRing') /\ AtGap(rcvRing') /\ rcvRing' \in SkyRcvRing
      /\ rcvRing'.buff = [rcvRing.buff EXCEPT ![tail] = VacantItem]
      /\ rcvRing'.tail = ring_wrap(tail + 1, RcvLen)
      /\ rcvRing'.tail_sequence = SeqPlus(rcvRing.tail_sequence, 1)
  <2>1. /\ Loose(rcvRing') /\ AtGap(rcvRing') /\ rcvRing'.buff = emptied.buff
        /\ rcvRing'.tail = emptied.tail /\ rcvRing'.tail_sequence = emptied.tail_sequence
    BY <1>2, <1>3, AdvanceHead
  <2>2. rcvRing' \in SkyRcvRing
    BY <2>1 DEF Loose
  <2> QED BY <1>3, <2>1, <2>2
<1>5. \A j \in Idx : elements'[j] = IF j = held THEN NoPayload ELSE elements[j]
  BY DEF ReadNext, Deleted
<1>6. \A i \in RcvSlots :
        rcvRing'.buff[i].idx = IF i = tail THEN EB_NULL_IDX ELSE rcvRing.buff[i].idx
  BY <1>1, <1>4 DEF VacantItem
<1>7. ASSUME NEW i \in RcvSlots, i # tail, rcvRing.buff[i].idx # EB_NULL_IDX
      PROVE  rcvRing.buff[i].idx \in Idx /\ rcvRing.buff[i].idx # held
  <2>1. rcvRing.buff[i].idx \in Idx
    BY <1>1, <1>7 DEF RingItem
  <2> QED BY <1>1, <1>7, <2>1 DEF PayloadsOwned
<1>8. Backed(rcvRing', elements')
  <2>1. Backed(rcvRing, elements)
    BY <1>1, InvBacked
  <2> HIDE DEF held, tail
  <2> QED BY <1>5, <1>6, <1>7, <2>1 DEF Backed
<1>9. ASSUME NEW k \in 0 .. RcvLen - 1
      PROVE  /\ k + 1 \in 0 .. RcvLen - 1 => SlotAt(rcvRing', k) = SlotAt(rcvRing, k + 1)
             /\ k + 1 \notin 0 .. RcvLen - 1 => SlotAt(rcvRing', k) = tail
             /\ k + 1 \in 0 .. RcvLen - 1 => SlotAt(rcvRing, k + 1) # tail
  <2> DEFINE next == ring_wrap(tail + 1, RcvLen)
  <2>0. tail \in 0 .. RcvLen - 1 /\ RcvLen \in Nat \ {0} /\ k \in 0 .. RcvLen
        /\ k + 1 \in 0 .. RcvLen
    BY <1>1, Constants
  <2>1. next = (IF tail + 1 < RcvLen THEN tail + 1 ELSE tail + 1 - RcvLen)
        /\ next \in 0 .. RcvLen - 1
    BY <2>0, NextSlot
  <2> HIDE DEF next, tail
  <2>2. ring_wrap(next + k, RcvLen) = IF next + k < RcvLen THEN next + k ELSE next + k - RcvLen
    BY <2>0, <2>1, Advance
  <2>3. ring_wrap(tail + (k + 1), RcvLen) =
          IF tail + (k + 1) < RcvLen THEN tail + (k + 1) ELSE tail + (k + 1) - RcvLen
    BY <2>0, Advance
  <2>4. k + 1 \in 0 .. RcvLen - 1 => ring_wrap(next + k, RcvLen) = ring_wrap(tail + (k + 1), RcvLen)
    BY <2>0, <2>1, <2>2, <2>3
  <2>5. k + 1 \notin 0 .. RcvLen - 1 => ring_wrap(next + k, RcvLen) = tail
    BY <2>0, <2>1, <2>2
  <2>6. k + 1 \in 0 .. RcvLen - 1 => ring_wrap(tail + (k + 1), RcvLen) # tail
    BY <2>0, <2>3
  <2> QED BY <1>4, <2>4, <2>5, <2>6 DEF SlotAt, next, tail
<1>10. wNew = [k \in 0 .. RcvLen - 1 |-> IF k + 1 \in 0 .. RcvLen - 1 THEN w[k + 1] ELSE NoPayload]
  <2>1. ASSUME NEW k \in 0 .. RcvLen - 1
        PROVE  wNew[k] = IF k + 1 \in 0 .. RcvLen - 1 THEN w[k + 1] ELSE NoPayload
    <3> DEFINE i == SlotAt(rcvRing', k)
    <3>1. i \in RcvSlots
      BY <1>4, Places
    <3>2. wNew[k] = IF rcvRing'.buff[i].idx = EB_NULL_IDX THEN NoPayload
                    ELSE elements'[rcvRing'.buff[i].idx]
      BY WindowAt
    <3> HIDE DEF i
    <3>3. CASE k + 1 \notin 0 .. RcvLen - 1
      <4>1. i = tail
        BY <1>9, <3>3 DEF i
      <4> HIDE DEF w, wNew, tail
      <4> QED BY <1>6, <3>1, <3>2, <3>3, <4>1
    <3>4. CASE k + 1 \in 0 .. RcvLen - 1
      <4>1. i = SlotAt(rcvRing, k + 1) /\ i # tail
        BY <1>9, <3>4 DEF i
      <4>2. w[k + 1] = IF rcvRing.buff[i].idx = EB_NULL_IDX THEN NoPayload
                       ELSE elements[rcvRing.buff[i].idx]
        BY <3>4, <4>1, WindowAt
      <4>3. rcvRing'.buff[i].idx = rcvRing.buff[i].idx
        BY <1>6, <3>1, <4>1
      <4>4. rcvRing.buff[i].idx # EB_NULL_IDX
              => elements'[rcvRing.buff[i].idx] = elements[rcvRing.buff[i].idx]
        BY <1>5, <1>7, <3>1, <4>1
      <4> HIDE DEF w, wNew, tail
      <4> QED BY <3>2, <3>4, <4>2, <4>3, <4>4
    <3> QED BY <3>3, <3>4
  <2>2. wNew = [k \in 0 .. RcvLen - 1 |-> wNew[k]]
    BY DEF WindowOf
  <2> HIDE DEF w, wNew
  <2> QED BY <2>1, <2>2
<1>11. w[0] = elements[held]
  <2>1. SlotAt(rcvRing, 0) = tail /\ 0 \in 0 .. RcvLen - 1
    BY <1>1, <1>3, Places, Constants
  <2> QED BY <1>3, <2>1, WindowAt
<1>12. out' = [sequence |-> rcvRing.tail_sequence, payload |-> w[0]]
  BY <1>3, <1>11 DEF ReadNext
<1>13. Ready(rcvRing') = Window!Settled(wNew)
  BY <1>4, <1>8, SettledReady
<1>14. Ready(rcvRing) > 0
  BY <1>1
<1> QED BY <1>4, <1>10, <1>12, <1>13, <1>14, Mapping

\* The window of a ring without packets has gaps only.
LEMMA VacantWindow ==
  ASSUME NEW sequence \in Sequence, NEW store
  PROVE  WindowOf(sky_rcv_ring_wipe(sequence), store) = [k \in 0 .. RcvLen - 1 |-> NoPayload]
<1> DEFINE ring == sky_rcv_ring_wipe(sequence)
           w == WindowOf(ring, store)
<1>1. Loose(ring) /\ \A i \in RcvSlots : ring.buff[i].idx = EB_NULL_IDX
  BY WipedLoose DEF sky_rcv_ring_wipe, VacantItem
<1> HIDE DEF ring
<1>2. \A k \in 0 .. RcvLen - 1 : w[k] = NoPayload
  BY <1>1, WindowAt, Places DEF Loose
<1>3. w = [k \in 0 .. RcvLen - 1 |-> w[k]]
  BY DEF WindowOf
<1> HIDE DEF w
<1>4. w = [k \in 0 .. RcvLen - 1 |-> NoPayload]
  BY <1>2, <1>3
<1> QED BY <1>4 DEF w, ring

\* The receive ring delivers the packets in the order of their numbers, none
\* twice and none skipped, whatever order they arrived in: every behaviour of the
\* ring is one of RcvWindow.
THEOREM WindowImplemented == Spec => ImplementsWindow
<1>1. Init => Window!Init
  <2>1. SUFFICES ASSUME Init PROVE Window!Init
    OBVIOUS
  <2>2. WindowOf(rcvRing, elements) = [k \in 0 .. RcvLen - 1 |-> NoPayload]
        /\ Ready(rcvRing) = 0
    BY <2>1, WipedLoose, VacantWindow, SeqType DEF Init
  <2>3. rcvRing.tail_sequence = 0 /\ out = NoPacket
    BY <2>1 DEF Init, sky_rcv_ring_wipe
  <2> QED BY <2>2, <2>3, Mapping
<1>2. Inv /\ Inv' /\ [Next]_vars => [Window!Next]_(Window!vars)
  <2>1. SUFFICES ASSUME Inv, Inv', [Next]_vars
                 PROVE  Window!Next \/ UNCHANGED Window!vars
    BY DEF Window!vars
  <2>2. CASE UNCHANGED vars
    BY <2>2, Mapping
  <2>3. CASE \E sequence \in Sequence, payload \in Payload : PushRx(sequence, payload)
    BY <2>1, <2>3, PushRxRefines DEF Window!Next
  <2>4. CASE ReadNext
    BY <2>1, <2>4, ReadNextRefines DEF Window!Next
  <2>5. CASE \E sequence \in Sequence : Wipe(sequence)
    <3>1. PICK sequence \in Sequence : Wipe(sequence)
      BY <2>5
    <3>2. WindowOf(rcvRing', elements') = [k \in 0 .. RcvLen - 1 |-> NoPayload]
          /\ Ready(rcvRing') = 0 /\ out' = out
      BY <3>1, WipedLoose, VacantWindow DEF Wipe
    <3>3. rcvRing'.tail_sequence \in Sequence
      BY <3>1 DEF Wipe, sky_rcv_ring_wipe
    <3> QED BY <3>2, <3>3, Mapping DEF Window!Next
  <2> QED BY <2>1, <2>2, <2>3, <2>4, <2>5 DEF Next
<1>3. Init /\ [][Next]_vars => Window!Init /\ [][Window!Next]_(Window!vars)
  BY <1>1, <1>2, Invariance, PTL DEF Spec
<1> QED BY <1>3 DEF Spec, ImplementsWindow, Window!Spec
=============================================================================
