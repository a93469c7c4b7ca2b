--------------------------- MODULE SendRingProofs ---------------------------
(***************************************************************************)
(* The send ring keeps its invariant for every length, every width of the  *)
(* sequence numbers and every element buffer.                              *)
(***************************************************************************)
EXTENDS SendRing, RingArithmetic

Inv == TypeOK /\ RingInv

\* What the assumptions say of the constants.
LEMMA Constants ==
  /\ SendLen \in Nat \ {0} /\ SendLen >= 4 /\ SendLen <= SeqCount
  /\ SeqCount \in Nat \ {0}
  /\ ResendDepth \in Nat \ {0} /\ MaskBits \in Nat
  /\ EB_NULL_IDX \notin Idx /\ NoPayload \notin Payload
BY SendRingAssumption, SeqCountAssumption, IdxAssumption, PayloadAssumption

\* Slot 0 exists, every slot is an index below the length, and an empty slot is a
\* ring item.
LEMMA SlotFacts ==
  /\ 0 \in SendSlots /\ ring_wrap(0 - 0, SendLen) = 0
  /\ VacantItem \in RingItem
  /\ \A i \in SendSlots : i \in Nat /\ i < SendLen
<1>1. 0 \in 0 .. SendLen - 1
  BY Constants
<1>2. ring_wrap(0 - 0, SendLen) = 0
  BY <1>1, Constants DEF ring_wrap
<1> QED BY <1>1, <1>2, Constants, SeqType DEF SendSlots, VacantItem, RingItem

\* The slot n beyond the tail is at distance n from it.
LEMMA SlotAt ==
  ASSUME NEW t \in SendSlots, NEW n \in SendSlots
  PROVE  /\ ring_wrap(t + n, SendLen) \in SendSlots
         /\ ring_wrap(ring_wrap(t + n, SendLen) - t, SendLen) = n
BY AtDistance, Constants DEF SendSlots

\* How far a slot is from a tail that has moved on by n slots.
LEMMA SlotFrom ==
  ASSUME NEW i \in SendSlots, NEW t \in SendSlots, NEW n \in SendSlots
  PROVE  ring_wrap(i - ring_wrap(t + n, SendLen), SendLen)
           = IF ring_wrap(i - t, SendLen) >= n THEN ring_wrap(i - t, SendLen) - n
             ELSE ring_wrap(i - t, SendLen) - n + SendLen
BY DistanceFromAdvanced, Constants DEF SendSlots

\* The ring of a wipe satisfies the invariant.
LEMMA WipedInv ==
  ASSUME NEW s \in Sequence, sendRing' = sky_send_ring_wipe(s),
         elements' = EmptyStore, out' \in TxPacket \cup {NoPacket}
  PROVE  Inv'
<1>1. TypeOK'
  <2>1. <<>> \in Seq(Sequence) /\ Len(<<>>) <= ResendDepth
    BY Constants
  <2>2. sendRing' \in SkySendRing
    BY SlotFacts, <2>1 DEF SkySendRing, sky_send_ring_wipe
  <2>3. Len(sendRing'.resend_list) <= ResendDepth
    BY <2>1 DEF sky_send_ring_wipe
  <2>4. elements' \in Store
    BY DEF Store, EmptyStore
  <2> QED BY <2>2, <2>3, <2>4 DEF TypeOK
<1>2. CountersAgree'
  BY SlotFacts, SeqPlusZero DEF CountersAgree, TxCount, Count, Offset, sky_send_ring_wipe
<1>3. SlotsAgree'
  <2>1. Count' = 0
    BY SlotFacts DEF Count, Offset, sky_send_ring_wipe
  <2>2. ASSUME NEW i \in SendSlots PROVE Offset(i)' \in Nat
    <3>1. sendRing'.tail = 0
      BY DEF sky_send_ring_wipe
    <3>2. Offset(i)' = ring_wrap(i - 0, SendLen)
      BY <3>1 DEF Offset
    <3>3. SendLen \in Nat \ {0} /\ i \in 0 .. SendLen - 1 /\ 0 \in 0 .. SendLen - 1
      BY Constants DEF SendSlots
    <3>4. ring_wrap(i - 0, SendLen) \in 0 .. SendLen - 1
      BY <3>3, Distance
    <3> QED BY <3>2, <3>4
  <2> QED BY <2>1, <2>2 DEF SlotsAgree, sky_send_ring_wipe
<1>4. PayloadsOwned'
  BY Constants DEF PayloadsOwned, sky_send_ring_wipe, SendRingHeld, EmptyStore, VacantItem
<1> QED BY <1>1, <1>2, <1>3, <1>4 DEF Inv, RingInv

\* The facts of the state that the proofs of the actions start from.
LEMMA Fields ==
  ASSUME Inv
  PROVE  /\ sendRing.buff \in [SendSlots -> RingItem]
         /\ sendRing.head \in SendSlots /\ sendRing.tx_head \in SendSlots
         /\ sendRing.tail \in SendSlots
         /\ sendRing.head_sequence \in Sequence /\ sendRing.tx_sequence \in Sequence
         /\ sendRing.tail_sequence \in Sequence
         /\ sendRing.storage_count \in Int
         /\ sendRing.resend_list \in Seq(Sequence)
         /\ Count \in SendSlots /\ TxCount \in SendSlots
         /\ \A i \in SendSlots : Offset(i) \in SendSlots
<1>1. sendRing \in SkySendRing
  BY DEF Inv, TypeOK
<1>2. \A i \in SendSlots : Offset(i) \in SendSlots
  BY <1>1, Constants, Distance DEF SkySendRing, Offset, SendSlots
<1> QED BY <1>1, <1>2 DEF SkySendRing, Count, TxCount

\* sendRing_push_packet_to_send keeps the invariant.
LEMMA PushInv ==
  ASSUME Inv, NEW payload \in Payload, Push(payload)
  PROVE  Inv'
<1>1. PICK idx \in FreeIdx(elements) :
        /\ elements' = Stored(elements, idx, payload)
        /\ sendRing' = sendRing_push_packet_to_send(sendRing, idx)
  BY DEF Push
<1>2. /\ sendRing \in SkySendRing /\ idx \in Idx /\ elements \in Store
      /\ elements[idx] = NoPayload
      /\ CountersAgree /\ SlotsAgree /\ PayloadsOwned
  BY <1>1 DEF Inv, TypeOK, RingInv, FreeIdx
<1> DEFINE item == [idx |-> idx, sequence |-> sendRing.head_sequence]
           head == ring_wrap(sendRing.head + 1, SendLen)
           head_sequence == SeqPlus(sendRing.head_sequence, 1)
           buff == [sendRing.buff EXCEPT ![sendRing.head] = item]
<1>3. sendRing' = [sendRing EXCEPT !.buff = buff, !.storage_count = sendRing.storage_count + 1,
                    !.head = head, !.head_sequence = head_sequence]
  BY <1>1, <1>2, Fields DEF sendRing_push_packet_to_send, SkySendRing
<1>4. /\ item \in RingItem /\ head \in SendSlots
      /\ head_sequence = SeqPlus(sendRing.tail_sequence, Count + 1)
      /\ head_sequence \in Sequence
  <2>1. item \in RingItem
    BY <1>2, Fields DEF RingItem
  <2>2. head \in SendSlots
    BY Fields, Constants, NextSlot DEF SendSlots
  <2>3. SeqPlus(SeqPlus(sendRing.tail_sequence, Count), 1)
          = SeqPlus(sendRing.tail_sequence, Count + 1)
    BY Fields, SlotFacts, SeqNext
  <2>4. sendRing.head_sequence = SeqPlus(sendRing.tail_sequence, Count)
    BY <1>2 DEF CountersAgree
  <2>5. head_sequence \in Sequence
    BY Fields, SeqNext
  <2> QED BY <2>1, <2>2, <2>3, <2>4, <2>5
<1>5. Offset(head) = Count + 1 /\ Count + 1 < SendLen
  <2>1. head # sendRing.tail
    BY Fields, Constants, WrapSlot DEF Push, sendRing_is_full, SendSlots
  <2>2. head = IF sendRing.head + 1 < SendLen THEN sendRing.head + 1
               ELSE sendRing.head + 1 - SendLen
    BY Fields, Constants, NextSlot DEF SendSlots
  <2>3. Count = IF sendRing.head >= sendRing.tail THEN sendRing.head - sendRing.tail
                ELSE sendRing.head - sendRing.tail + SendLen
    BY Fields, Constants, Distance DEF Count, Offset, SendSlots
  <2>4. Offset(head) = IF head >= sendRing.tail THEN head - sendRing.tail
                       ELSE head - sendRing.tail + SendLen
    BY <1>4, Fields, Constants, Distance DEF Offset, SendSlots
  <2> HIDE DEF head
  <2>5. sendRing.head \in 0 .. SendLen - 1 /\ sendRing.tail \in 0 .. SendLen - 1
    BY Fields DEF SendSlots
  <2> QED BY <2>1, <2>2, <2>3, <2>4, <2>5, Constants
<1> HIDE DEF item, head, head_sequence
<1>6. /\ sendRing'.buff = buff /\ sendRing'.head = head /\ sendRing'.tx_head = sendRing.tx_head
      /\ sendRing'.tail = sendRing.tail /\ sendRing'.head_sequence = head_sequence
      /\ sendRing'.tx_sequence = sendRing.tx_sequence
      /\ sendRing'.tail_sequence = sendRing.tail_sequence
      /\ sendRing'.storage_count = sendRing.storage_count + 1
      /\ sendRing'.resend_list = sendRing.resend_list
  BY <1>2, <1>3 DEF SkySendRing
<1>7. buff \in [SendSlots -> RingItem]
      /\ \A i \in SendSlots : buff[i] = IF i = sendRing.head THEN item ELSE sendRing.buff[i]
  BY <1>4, Fields
<1> HIDE DEF buff
<1>8. TypeOK'
  <2>1. sendRing' \in SkySendRing
    <3>1. sendRing.storage_count + 1 \in Int
      BY Fields
    <3> QED BY <1>2, <1>3, <1>4, <1>7, <3>1 DEF SkySendRing
  <2>2. Len(sendRing'.resend_list) <= ResendDepth
    BY <1>6 DEF Inv, TypeOK
  <2>3. elements' \in Store /\ out' \in TxPacket \cup {NoPacket}
    BY <1>1, <1>2 DEF Stored, Store, Inv, TypeOK, Push
  <2> QED BY <2>1, <2>2, <2>3 DEF TypeOK
<1>9. /\ \A i \in SendSlots : Offset(i)' = Offset(i)
      /\ Count' = Count + 1 /\ TxCount' = TxCount
  BY <1>5, <1>6 DEF Offset, Count, TxCount
<1>10. CountersAgree'
  BY <1>2, <1>4, <1>6, <1>9, Fields, SlotFacts DEF CountersAgree
<1>11. SlotsAgree'
  <2>1. SUFFICES ASSUME NEW i \in SendSlots
                 PROVE  IF Offset(i) < Count + 1
                        THEN /\ buff[i].idx \in Idx
                             /\ buff[i].sequence = SeqPlus(sendRing.tail_sequence, Offset(i))
                        ELSE buff[i] = VacantItem
    BY <1>6, <1>9 DEF SlotsAgree
  <2>2. CASE i = sendRing.head
    <3>1. Offset(i) = Count /\ Count \in Nat
      BY <2>2, Fields, SlotFacts DEF Count
    <3>2. buff[i].idx = idx /\ buff[i].sequence = sendRing.head_sequence
      BY <1>7, <2>2 DEF item
    <3> QED BY <1>2, <3>1, <3>2 DEF CountersAgree
  <2>3. CASE i # sendRing.head
    <3>1. buff[i] = sendRing.buff[i]
      BY <1>7, <2>3
    <3>2. Offset(i) # Count
      BY <2>3, Fields, Constants, SameDistance DEF Offset, Count, SendSlots
    <3>3. Offset(i) \in Nat /\ Count \in Nat
      BY Fields, SlotFacts
    <3> QED BY <1>2, <3>1, <3>2, <3>3 DEF SlotsAgree
  <2> QED BY <2>2, <2>3
<1>12. PayloadsOwned'
  <2>1. \A i \in SendSlots : sendRing.buff[i].idx # idx
    BY <1>2, Constants DEF PayloadsOwned, SendRingHeld
  <2>2. sendRing.buff[sendRing.head].idx = EB_NULL_IDX
    <3>1. ~(Offset(sendRing.head) < Count)
      BY Fields, SlotFacts DEF Count
    <3> QED BY <1>2, <3>1, Fields DEF SlotsAgree, VacantItem
  <2>3. \A j \in Idx : elements'[j] = IF j = idx THEN payload ELSE elements[j]
    BY <1>1, <1>2 DEF Stored, Store
  <2>4. \A i \in SendSlots :
          buff[i].idx = IF i = sendRing.head THEN idx ELSE sendRing.buff[i].idx
    BY <1>7 DEF item
  <2>5. SendRingHeld(sendRing') = SendRingHeld(sendRing) \cup {idx}
    <3>1. SendRingHeld(sendRing') = {buff[i].idx : i \in SendSlots} \ {EB_NULL_IDX}
      BY <1>6 DEF SendRingHeld
    <3>2. idx # EB_NULL_IDX
      BY <1>2, Constants
    <3>3. ASSUME NEW x, x \in SendRingHeld(sendRing) PROVE x \in SendRingHeld(sendRing')
      BY ZenonT(60), <2>2, <2>4, <3>1, <3>3 DEF SendRingHeld
    <3>4. idx \in SendRingHeld(sendRing')
      BY <2>4, <3>1, <3>2, Fields
    <3>5. ASSUME NEW x, x \in SendRingHeld(sendRing')
          PROVE  x \in SendRingHeld(sendRing) \cup {idx}
      BY <2>4, <3>1, <3>5 DEF SendRingHeld
    <3> QED BY <3>3, <3>4, <3>5
  <2>6. ASSUME NEW i \in SendSlots, NEW j \in SendSlots, buff[i].idx = buff[j].idx
        PROVE  i = j \/ buff[i].idx = EB_NULL_IDX
    BY <1>2, <2>1, <2>4, <2>6 DEF PayloadsOwned
  <2>7. ASSUME NEW j \in Idx
        PROVE  elements'[j] # NoPayload <=> j \in SendRingHeld(sendRing')
    BY <1>2, <2>3, <2>5, Constants DEF PayloadsOwned
  <2> QED BY <1>6, <2>6, <2>7 DEF PayloadsOwned
<1> QED BY <1>8, <1>10, <1>11, <1>12 DEF Inv, RingInv

-----------------------------------------------------------------------------
(* Reading. *)

\* Dropping an entry of the resend list leaves a resend list.
LEMMA PopType ==
  ASSUME NEW list \in Seq(Sequence), list # <<>>,
         NEW popped,
         popped = [i \in 1 .. Len(list) - 1 |-> IF i < Len(list) - 1 THEN list[i + 1] ELSE list[i]]
  PROVE  popped \in Seq(Sequence) /\ Len(popped) = Len(list) - 1
<1>1. Len(list) \in Nat /\ Len(list) - 1 \in Nat
  OBVIOUS
<1>2. popped \in [1 .. Len(list) - 1 -> Sequence]
  BY <1>1
<1> QED BY <1>1, <1>2

\* A read changes the resend list, and tx_head and tx_sequence when the packet
\* is a new one.
LEMMA ReadChanges ==
  ASSUME Inv, NEW include_resend \in BOOLEAN
  PROVE  \E list \in Seq(Sequence) :
           /\ Len(list) <= ResendDepth
           /\ sendRing_read_to_tx(sendRing, include_resend) =
                IF ReadsNew(sendRing, include_resend)
                THEN [sendRing EXCEPT !.resend_list = list,
                        !.tx_head = ring_wrap(sendRing.tx_head + 1, SendLen),
                        !.tx_sequence = SeqPlus(sendRing.tx_sequence, 1)]
                ELSE [sendRing EXCEPT !.resend_list = list]
<1>1. sendRing \in SkySendRing /\ sendRing.resend_list \in Seq(Sequence)
      /\ Len(sendRing.resend_list) <= ResendDepth
  BY Fields DEF Inv, TypeOK
<1>2. PICK list \in Seq(Sequence) :
        /\ Len(list) <= ResendDepth
        /\ AfterPop(sendRing, include_resend) = [sendRing EXCEPT !.resend_list = list]
  <2>1. CASE ResendTried(sendRing, include_resend)
    <3> DEFINE old == sendRing.resend_list
               list == [i \in 1 .. Len(old) - 1 |->
                          IF i < Len(old) - 1 THEN old[i + 1] ELSE old[i]]
    <3>1. list \in Seq(Sequence) /\ Len(list) = Len(old) - 1
      BY <1>1, <2>1, PopType DEF ResendTried
    <3>2. AfterPop(sendRing, include_resend) = [sendRing EXCEPT !.resend_list = list]
      BY <1>1, <2>1 DEF AfterPop, sendRing_pop_resend_sequence, SkySendRing
    <3> HIDE DEF list
    <3>3. Len(list) <= ResendDepth
      BY <1>1, <3>1, Constants
    <3> QED BY <3>1, <3>2, <3>3
  <2>2. CASE ~ResendTried(sendRing, include_resend)
    <3>1. AfterPop(sendRing, include_resend)
            = [sendRing EXCEPT !.resend_list = sendRing.resend_list]
      BY <1>1, <2>2 DEF AfterPop, SkySendRing
    <3> QED BY <1>1, <3>1
  <2> QED BY <2>1, <2>2
<1>3. /\ AfterPop(sendRing, include_resend).tx_head = sendRing.tx_head
      /\ AfterPop(sendRing, include_resend).tx_sequence = sendRing.tx_sequence
  BY <1>1, <1>2 DEF SkySendRing
<1>4. sendRing_read_new_packet_to_tx_(AfterPop(sendRing, include_resend)) =
        [sendRing EXCEPT !.resend_list = list,
           !.tx_head = ring_wrap(sendRing.tx_head + 1, SendLen),
           !.tx_sequence = SeqPlus(sendRing.tx_sequence, 1)]
  BY <1>1, <1>2, <1>3 DEF sendRing_read_new_packet_to_tx_, SkySendRing
<1> QED BY <1>2, <1>4 DEF sendRing_read_to_tx

\* The invariant does not depend on what is in the resend list.
LEMMA ResendListInv ==
  ASSUME Inv, NEW list \in Seq(Sequence), Len(list) <= ResendDepth,
         sendRing' = [sendRing EXCEPT !.resend_list = list],
         elements' = elements, out' \in TxPacket \cup {NoPacket}
  PROVE  Inv'
<1>1. sendRing \in SkySendRing /\ elements \in Store
      /\ CountersAgree /\ SlotsAgree /\ PayloadsOwned
  BY DEF Inv, TypeOK, RingInv
<1>2. /\ sendRing'.buff = sendRing.buff /\ sendRing'.head = sendRing.head
      /\ sendRing'.tx_head = sendRing.tx_head /\ sendRing'.tail = sendRing.tail
      /\ sendRing'.head_sequence = sendRing.head_sequence
      /\ sendRing'.tx_sequence = sendRing.tx_sequence
      /\ sendRing'.tail_sequence = sendRing.tail_sequence
      /\ sendRing'.storage_count = sendRing.storage_count
      /\ sendRing'.resend_list = list
  BY <1>1 DEF SkySendRing
<1>3. TypeOK'
  <2>1. sendRing' \in SkySendRing
    BY <1>1 DEF SkySendRing
  <2> QED BY <1>1, <1>2, <2>1 DEF TypeOK
<1>4. /\ Count' = Count /\ TxCount' = TxCount
      /\ \A i \in SendSlots : Offset(i)' = Offset(i)
  BY <1>2 DEF Count, TxCount, Offset
<1>5. CountersAgree'
  BY <1>1, <1>2, <1>4 DEF CountersAgree
<1>6. SlotsAgree'
  BY <1>1, <1>2, <1>4 DEF SlotsAgree
<1>7. PayloadsOwned'
  BY <1>1, <1>2 DEF PayloadsOwned, SendRingHeld
<1> QED BY <1>3, <1>5, <1>6, <1>7 DEF Inv, RingInv

\* sendRing_read_to_tx keeps the invariant.
LEMMA ReadInv ==
  ASSUME Inv, NEW include_resend \in BOOLEAN,
         sendRing' = sendRing_read_to_tx(sendRing, include_resend),
         elements' = elements, out' \in TxPacket \cup {NoPacket}
  PROVE  Inv'
<1>1. PICK list \in Seq(Sequence) :
        /\ Len(list) <= ResendDepth
        /\ sendRing' =
             IF ReadsNew(sendRing, include_resend)
             THEN [sendRing EXCEPT !.resend_list = list,
                     !.tx_head = ring_wrap(sendRing.tx_head + 1, SendLen),
                     !.tx_sequence = SeqPlus(sendRing.tx_sequence, 1)]
             ELSE [sendRing EXCEPT !.resend_list = list]
  BY ReadChanges
<1>2. CASE ~ReadsNew(sendRing, include_resend)
  BY <1>1, <1>2, ResendListInv
<1>3. CASE ReadsNew(sendRing, include_resend)
  <2> DEFINE tx_head == ring_wrap(sendRing.tx_head + 1, SendLen)
             tx_sequence == SeqPlus(sendRing.tx_sequence, 1)
  <2>1. sendRing \in SkySendRing /\ elements \in Store
        /\ CountersAgree /\ SlotsAgree /\ PayloadsOwned
    BY DEF Inv, TypeOK, RingInv
  <2>2. tx_head \in SendSlots /\ tx_sequence \in Sequence
    BY Fields, Constants, NextSlot, SeqNext DEF SendSlots
  <2>3. TxCount < Count /\ Offset(tx_head) = TxCount + 1
    <3>1. sendRing.head # sendRing.tx_head
      <4>1. ring_wrap(sendRing.head - sendRing.tx_head, SendLen) # 0
        BY <1>3, Fields, Constants, Distance DEF ReadsNew, sendRing_count_packets_to_send, SendSlots
      <4> QED BY <4>1, Fields, Constants, NoDistance DEF SendSlots
    <3>2. TxCount # Count
      BY <3>1, Fields, Constants, SameDistance DEF TxCount, Count, Offset, SendSlots
    <3>3. TxCount < Count /\ TxCount + 1 < SendLen
      <4>1. Count \in 0 .. SendLen - 1 /\ TxCount \in 0 .. SendLen - 1
        BY Fields DEF SendSlots
      <4>2. TxCount <= Count
        BY <2>1 DEF CountersAgree
      <4> QED BY <3>2, <4>1, <4>2, Constants
    <3>4. ring_wrap(sendRing.tx_head - sendRing.tail, SendLen) + 1 < SendLen
      BY <3>3 DEF TxCount, Offset
    <3>5. ring_wrap(tx_head - sendRing.tail, SendLen)
            = ring_wrap(sendRing.tx_head - sendRing.tail, SendLen) + 1
      BY <3>4, Fields, Constants, DistanceToNext DEF SendSlots
    <3> QED BY <3>3, <3>5 DEF TxCount, Offset
  <2>4. tx_sequence = SeqPlus(sendRing.tail_sequence, TxCount + 1)
    <3>1. SeqPlus(SeqPlus(sendRing.tail_sequence, TxCount), 1)
            = SeqPlus(sendRing.tail_sequence, TxCount + 1)
      BY Fields, SlotFacts, SeqNext
    <3> QED BY <2>1, <3>1 DEF CountersAgree
  <2> HIDE DEF tx_head, tx_sequence
  <2>5. sendRing' = [sendRing EXCEPT !.resend_list = list, !.tx_head = tx_head,
                       !.tx_sequence = tx_sequence]
    BY <1>1, <1>3 DEF tx_head, tx_sequence
  <2>6. /\ sendRing'.buff = sendRing.buff /\ sendRing'.head = sendRing.head
        /\ sendRing'.tx_head = tx_head /\ sendRing'.tail = sendRing.tail
        /\ sendRing'.head_sequence = sendRing.head_sequence
        /\ sendRing'.tx_sequence = tx_sequence
        /\ sendRing'.tail_sequence = sendRing.tail_sequence
        /\ sendRing'.storage_count = sendRing.storage_count
        /\ sendRing'.resend_list = list
    BY <2>1, <2>5 DEF SkySendRing
  <2>7. TypeOK'
    <3>1. sendRing' \in SkySendRing
      BY <2>1, <2>2, <2>5 DEF SkySendRing
    <3> QED BY <1>1, <2>1, <2>6, <3>1 DEF TypeOK
  <2>8. /\ Count' = Count /\ TxCount' = TxCount + 1
        /\ \A i \in SendSlots : Offset(i)' = Offset(i)
    BY <2>3, <2>6 DEF Count, TxCount, Offset
  <2>9. CountersAgree'
    BY <2>1, <2>3, <2>4, <2>6, <2>8, Fields, SlotFacts DEF CountersAgree
  <2>10. SlotsAgree'
    BY <2>1, <2>6, <2>8 DEF SlotsAgree
  <2>11. PayloadsOwned'
    BY <2>1, <2>6 DEF PayloadsOwned, SendRingHeld
  <2> QED BY <2>7, <2>9, <2>10, <2>11 DEF Inv, RingInv
<1> QED BY <1>2, <1>3

\* The packet a read finds is in the ring, its payload is in the element buffer,
\* and the number in its ring item is the number the read reports.
LEMMA ReadPacket ==
  ASSUME Inv, NEW include_resend \in BOOLEAN, PeekFinds(sendRing, include_resend)
  PROVE  /\ ReadSlot(sendRing, include_resend) \in SendSlots
         /\ Offset(ReadSlot(sendRing, include_resend)) < Count
         /\ IF ReadsRecall(sendRing, include_resend)
            THEN Offset(ReadSlot(sendRing, include_resend)) < TxCount
            ELSE Offset(ReadSlot(sendRing, include_resend)) = TxCount
         /\ sendRing.buff[ReadSlot(sendRing, include_resend)].idx \in Idx
         /\ elements[sendRing.buff[ReadSlot(sendRing, include_resend)].idx] \in Payload
         /\ PeekSequence(sendRing, include_resend) = ReadSequence(sendRing, include_resend)
         /\ ReadSequence(sendRing, include_resend) \in Sequence
         /\ ReadSequence(sendRing, include_resend)
              = SeqPlus(sendRing.tail_sequence, Offset(ReadSlot(sendRing, include_resend)))
<1> DEFINE slot == ReadSlot(sendRing, include_resend)
           sequence == ReadSequence(sendRing, include_resend)
<1>0. CountersAgree /\ SlotsAgree /\ PayloadsOwned /\ elements \in Store
      /\ Count \in 0 .. SendLen - 1 /\ TxCount \in 0 .. SendLen - 1 /\ TxCount <= Count
  BY Fields DEF Inv, TypeOK, RingInv, CountersAgree, SendSlots
<1>1. /\ slot \in SendSlots /\ Offset(slot) < Count
      /\ IF ReadsRecall(sendRing, include_resend) THEN Offset(slot) < TxCount
         ELSE Offset(slot) = TxCount
      /\ sequence \in Sequence
      /\ sequence = SeqPlus(sendRing.tail_sequence, Offset(slot))
  <2>1. CASE ReadsRecall(sendRing, include_resend)
    <3> DEFINE s == sendRing.resend_list[1]
               n == SeqMinus(s, sendRing.tail_sequence)
    <3>1. s \in Sequence
      BY <2>1, Fields DEF ReadsRecall, ResendTried
    <3>2. n < TxCount
      BY <2>1 DEF ReadsRecall, sendRing_can_recall, TxCount, Offset
    <3>3. n \in Nat /\ SeqPlus(sendRing.tail_sequence, n) = s
      BY <3>1, Fields, SeqMinusType, SeqPlusMinus
    <3>4. slot = ring_wrap(sendRing.tail + n, SendLen) /\ sequence = s
      BY <2>1 DEF ReadSlot, ReadSequence, sendRing_get_recall_ring_index
    <3> HIDE DEF s, n
    <3>5. n \in 0 .. SendLen - 1 /\ n \in SendSlots
      BY <1>0, <3>2, <3>3, Constants DEF SendSlots
    <3>6. slot \in SendSlots /\ Offset(slot) = n
      <4>1. /\ ring_wrap(sendRing.tail + n, SendLen) \in SendSlots
            /\ ring_wrap(ring_wrap(sendRing.tail + n, SendLen) - sendRing.tail, SendLen) = n
        BY <3>5, Fields, SlotAt
      <4> QED BY <3>4, <4>1 DEF Offset
    <3>7. n < Count
      BY <1>0, <3>2, <3>5, Constants
    <3> QED BY <2>1, <3>1, <3>2, <3>3, <3>4, <3>6, <3>7
  <2>2. CASE ~ReadsRecall(sendRing, include_resend)
    <3>1. slot = sendRing.tx_head /\ sequence = sendRing.tx_sequence
      BY <2>2 DEF ReadSlot, ReadSequence
    <3>2. sendRing.head # sendRing.tx_head
      <4>1. ring_wrap(sendRing.head - sendRing.tx_head, SendLen) # 0
        BY <2>2, Fields, Constants, Distance
           DEF PeekFinds, ReadsNew, sendRing_count_packets_to_send, SendSlots
      <4> QED BY <4>1, Fields, Constants, NoDistance DEF SendSlots
    <3>3. TxCount # Count
      BY <3>2, Fields, Constants, SameDistance DEF TxCount, Count, Offset, SendSlots
    <3>4. Offset(slot) = TxCount
      BY <3>1 DEF TxCount
    <3>5. Offset(slot) < Count
      BY <1>0, <3>3, <3>4, Constants
    <3>6. sequence = SeqPlus(sendRing.tail_sequence, TxCount)
      BY <1>0, <3>1 DEF CountersAgree
    <3> QED BY <2>2, <3>1, <3>4, <3>5, <3>6, Fields
  <2> QED BY <2>1, <2>2
<1> HIDE DEF slot, sequence
<1>2. sendRing.buff[slot].idx \in Idx /\ sendRing.buff[slot].sequence = sequence
  BY <1>0, <1>1 DEF SlotsAgree
<1>3. elements[sendRing.buff[slot].idx] \in Payload
  <2>1. sendRing.buff[slot].idx \in SendRingHeld(sendRing)
    BY <1>1, <1>2, Constants DEF SendRingHeld
  <2> QED BY <1>0, <1>2, <2>1 DEF PayloadsOwned, Store
<1> QED BY <1>1, <1>2, <1>3 DEF slot, sequence, PeekSequence

\* A read that finds a packet keeps the invariant, and the number announced
\* for the packet is the one it is read with.
LEMMA ReadToTxInv ==
  ASSUME Inv, NEW include_resend \in BOOLEAN, ReadToTx(include_resend)
  PROVE  Inv' /\ AnnouncedIsRead'
<1>1. /\ PeekFinds(sendRing, include_resend)
      /\ sendRing' = sendRing_read_to_tx(sendRing, include_resend)
      /\ elements' = elements
      /\ out' = [announced |-> PeekSequence(sendRing, include_resend),
                 sequence  |-> ReadSequence(sendRing, include_resend),
                 payload   |-> elements[sendRing.buff[ReadSlot(sendRing, include_resend)].idx]]
  BY DEF ReadToTx
<1>2. out' \in TxPacket /\ out'.announced = out'.sequence
  BY <1>1, ReadPacket DEF TxPacket
<1>3. Inv'
  BY <1>1, <1>2, ReadInv
<1> QED BY <1>2, <1>3 DEF AnnouncedIsRead

\* A read that fails keeps the invariant.
LEMMA ReadNothingInv ==
  ASSUME Inv, ReadNothing
  PROVE  Inv'
<1>1. /\ sendRing' = sendRing_read_to_tx(sendRing, TRUE)
      /\ elements' = elements /\ out' = out
  BY DEF ReadNothing
<1>2. out' \in TxPacket \cup {NoPacket} /\ TRUE \in BOOLEAN
  BY <1>1 DEF Inv, TypeOK
<1> QED BY <1>1, <1>2, ReadInv

-----------------------------------------------------------------------------
(* Acknowledging. *)

\* An acknowledgement that is taken moves the tail over transmitted packets only.
LEMMA AcknowledgedSteps ==
  ASSUME Inv, NEW s \in Sequence, ValidAcknowledge(sendRing, s)
  PROVE  /\ SeqMinus(s, sendRing.tail_sequence) \in 0 .. SendLen - 1
         /\ SeqMinus(s, sendRing.tail_sequence) <= TxCount
         /\ s = SeqPlus(sendRing.tail_sequence, SeqMinus(s, sendRing.tail_sequence))
<1> DEFINE n == SeqMinus(s, sendRing.tail_sequence)
<1>1. TxCount \in 0 .. SendLen - 1 /\ CountersAgree
  BY Fields DEF SendSlots, Inv, RingInv
<1>2. SeqMinus(sendRing.tx_sequence, sendRing.tail_sequence) = TxCount
  <2>1. TxCount \in Nat /\ TxCount < SeqCount
    BY <1>1, Constants
  <2> QED BY <1>1, <2>1, Fields, SeqMinusPlus DEF CountersAgree
<1>3. n <= TxCount
  BY <1>2 DEF ValidAcknowledge
<1>4. n \in Nat /\ SeqPlus(sendRing.tail_sequence, n) = s
  BY Fields, SeqMinusType, SeqPlusMinus
<1> HIDE DEF n
<1>5. n \in 0 .. SendLen - 1
  BY <1>1, <1>3, <1>4, Constants
<1> QED BY <1>3, <1>4, <1>5 DEF n

\* sendRing_clean_tail_up_to keeps the invariant: the slots and payloads it
\* clears are exactly those up to the acknowledged number.
LEMMA CleanTailInv ==
  ASSUME Inv, NEW s \in Sequence, CleanTail(s)
  PROVE  Inv'
<1> DEFINE n == SeqMinus(s, sendRing.tail_sequence)
           tail == ring_wrap(sendRing.tail + n, SendLen)
           gone == Acknowledged(sendRing, s)
           buff == [i \in SendSlots |-> IF i \in gone THEN VacantItem ELSE sendRing.buff[i]]
<1>1. /\ sendRing \in SkySendRing /\ elements \in Store
      /\ CountersAgree /\ SlotsAgree /\ PayloadsOwned
      /\ Count \in 0 .. SendLen - 1 /\ TxCount \in 0 .. SendLen - 1 /\ TxCount <= Count
      /\ out \in TxPacket \cup {NoPacket} /\ sendRing.tail_sequence \in Int
  <2>1. sendRing.tail_sequence \in Int
    BY Fields DEF Sequence
  <2> QED BY <2>1, Fields DEF Inv, TypeOK, RingInv, CountersAgree, SendSlots
<1>2. sendRing' = [sendRing EXCEPT !.buff = buff, !.storage_count = sendRing.storage_count - n,
                     !.tail = tail, !.tail_sequence = s]
  BY <1>1 DEF CleanTail, sendRing_clean_tail_up_to, SkySendRing
<1>3. /\ elements' = Deleted(elements, CleanedIdx(sendRing, s)) /\ out' = out
      /\ ValidAcknowledge(sendRing, s)
  BY DEF CleanTail
<1>4. n \in 0 .. SendLen - 1 /\ n <= TxCount /\ s = SeqPlus(sendRing.tail_sequence, n)
  BY <1>3, AcknowledgedSteps
<1>5. gone = {i \in SendSlots : Offset(i) < n}
  BY DEF Acknowledged, Offset
<1> HIDE DEF n, tail, gone
<1>6. /\ tail \in SendSlots
      /\ \A i \in SendSlots : ring_wrap(i - tail, SendLen)
           = IF Offset(i) >= n THEN Offset(i) - n ELSE Offset(i) - n + SendLen
  <2>1. n \in SendSlots
    BY <1>4 DEF SendSlots
  <2>2. tail \in SendSlots
    BY <2>1, Fields, SlotAt DEF tail
  <2>3. ASSUME NEW i \in SendSlots
        PROVE  ring_wrap(i - tail, SendLen)
                 = IF Offset(i) >= n THEN Offset(i) - n ELSE Offset(i) - n + SendLen
    <3>1. ring_wrap(i - ring_wrap(sendRing.tail + n, SendLen), SendLen)
            = IF ring_wrap(i - sendRing.tail, SendLen) >= n
              THEN ring_wrap(i - sendRing.tail, SendLen) - n
              ELSE ring_wrap(i - sendRing.tail, SendLen) - n + SendLen
      BY <2>1, Fields, SlotFrom
    <3> QED BY <3>1 DEF tail, Offset
  <2> QED BY <2>2, <2>3
<1>7. buff \in [SendSlots -> RingItem]
      /\ \A i \in SendSlots :
           buff[i] = IF Offset(i) < n THEN VacantItem ELSE sendRing.buff[i]
  BY <1>5, Fields, SlotFacts
<1> HIDE DEF buff
<1>8. /\ sendRing'.buff = buff /\ sendRing'.head = sendRing.head
      /\ sendRing'.tx_head = sendRing.tx_head /\ sendRing'.tail = tail
      /\ sendRing'.head_sequence = sendRing.head_sequence
      /\ sendRing'.tx_sequence = sendRing.tx_sequence
      /\ sendRing'.tail_sequence = s
      /\ sendRing'.storage_count = sendRing.storage_count - n
      /\ sendRing'.resend_list = sendRing.resend_list
  BY <1>1, <1>2 DEF SkySendRing
<1>9. TypeOK'
  <2>1. sendRing.storage_count - n \in Int
    BY <1>4, Fields
  <2>2. sendRing' \in SkySendRing
    BY <1>1, <1>2, <1>6, <1>7, <2>1 DEF SkySendRing
  <2>3. Len(sendRing'.resend_list) <= ResendDepth
    BY <1>8 DEF Inv, TypeOK
  <2>4. elements' \in Store
    BY <1>1, <1>3 DEF Deleted, Store
  <2> QED BY <1>1, <1>3, <2>2, <2>3, <2>4 DEF TypeOK
<1>10. /\ \A i \in SendSlots : Offset(i)'
           = IF Offset(i) >= n THEN Offset(i) - n ELSE Offset(i) - n + SendLen
       /\ Count' = Count - n /\ TxCount' = TxCount - n
  <2>1. \A i \in SendSlots : Offset(i)'
           = IF Offset(i) >= n THEN Offset(i) - n ELSE Offset(i) - n + SendLen
    BY <1>6, <1>8 DEF Offset
  <2>2. Count' = Offset(sendRing.head)' /\ TxCount' = Offset(sendRing.tx_head)'
    BY <1>8 DEF Count, TxCount, Offset
  <2>3. Count >= n /\ TxCount >= n
    BY <1>1, <1>4, Constants
  <2>4. Count' = Count - n
    BY <2>1, <2>2, <2>3, Fields, <1>8 DEF Count, Offset
  <2>5. TxCount' = TxCount - n
    BY <2>1, <2>2, <2>3, Fields, <1>8 DEF TxCount, Offset
  <2> QED BY <2>1, <2>4, <2>5
<1>11. CountersAgree'
  <2>1. ASSUME NEW k \in Nat, k >= n
        PROVE  SeqPlus(s, k - n) = SeqPlus(sendRing.tail_sequence, k)
    <3>0. n \in Int /\ sendRing.tail_sequence \in Int
      <4>1. n \in Int
        BY <1>4
      <4>2. sendRing.tail_sequence \in Sequence
        BY Fields
      <4>3. \A t \in Sequence : t \in Int
        BY SeqType
      <4> QED BY <4>1, <4>2, <4>3
    <3>1. k - n \in Int /\ n \in Int /\ n + (k - n) = k /\ sendRing.tail_sequence \in Int
      BY <3>0
    <3>2. SeqPlus(SeqPlus(sendRing.tail_sequence, n), k - n)
            = SeqPlus(sendRing.tail_sequence, n + (k - n))
      BY <3>1, SeqPlusPlus
    <3> QED BY <1>4, <3>1, <3>2
  <2>2. Count \in Nat /\ TxCount \in Nat /\ Count >= n /\ TxCount >= n
    BY <1>1, <1>4, Constants
  <2>3. sendRing.head_sequence = SeqPlus(s, Count - n)
        /\ sendRing.tx_sequence = SeqPlus(s, TxCount - n)
    BY <1>1, <2>1, <2>2 DEF CountersAgree
  <2>4. TxCount - n <= Count - n /\ sendRing.storage_count - n = Count - n
    BY <1>1, <1>4, <2>2 DEF CountersAgree
  <2> QED BY <1>8, <1>10, <2>3, <2>4 DEF CountersAgree
<1>12. SlotsAgree'
  <2>1. SUFFICES ASSUME NEW i \in SendSlots
                 PROVE  IF Offset(i)' < Count - n
                        THEN /\ buff[i].idx \in Idx
                             /\ buff[i].sequence = SeqPlus(s, Offset(i)')
                        ELSE buff[i] = VacantItem
    BY <1>8, <1>10 DEF SlotsAgree
  <2>2. Offset(i) \in 0 .. SendLen - 1
    BY Fields DEF SendSlots
  <2>3. CASE Offset(i) < n
    <3>1. ~(Offset(i)' < Count - n) /\ buff[i] = VacantItem
      BY <1>1, <1>4, <1>7, <1>10, <2>2, <2>3, Constants
    <3> QED BY <3>1
  <2>4. CASE Offset(i) >= n
    <3>1. Offset(i)' = Offset(i) - n /\ buff[i] = sendRing.buff[i]
      BY <1>4, <1>7, <1>10, <2>2, <2>4
    <3>2. Offset(i)' < Count - n <=> Offset(i) < Count
      BY <1>1, <1>4, <2>2, <3>1, Constants
    <3>3. SeqPlus(s, Offset(i) - n) = SeqPlus(sendRing.tail_sequence, Offset(i))
      <4>1. /\ Offset(i) - n \in Int /\ n \in Int /\ n + (Offset(i) - n) = Offset(i)
            /\ sendRing.tail_sequence \in Int
        BY <1>1, <1>4, <2>2
      <4>2. SeqPlus(SeqPlus(sendRing.tail_sequence, n), Offset(i) - n)
              = SeqPlus(sendRing.tail_sequence, n + (Offset(i) - n))
        BY <4>1, SeqPlusPlus
      <4> QED BY <1>4, <4>1, <4>2
    <3> QED BY <1>1, <3>1, <3>2, <3>3 DEF SlotsAgree
  <2> QED BY <1>4, <2>2, <2>3, <2>4
<1>13. PayloadsOwned'
  <2>1. \A i \in SendSlots :
          buff[i].idx = IF Offset(i) < n THEN EB_NULL_IDX ELSE sendRing.buff[i].idx
    BY <1>7 DEF VacantItem
  <2>2. ASSUME NEW i \in SendSlots, NEW j \in SendSlots, buff[i].idx = buff[j].idx
        PROVE  i = j \/ buff[i].idx = EB_NULL_IDX
    BY <1>1, <2>1, <2>2 DEF PayloadsOwned
  <2>3. SendRingHeld(sendRing') = SendRingHeld(sendRing) \ CleanedIdx(sendRing, s)
    <3>1. SendRingHeld(sendRing') = {buff[i].idx : i \in SendSlots} \ {EB_NULL_IDX}
      BY <1>8 DEF SendRingHeld
    <3>2. CleanedIdx(sendRing, s) = {sendRing.buff[i].idx : i \in gone}
      BY DEF CleanedIdx, gone
    <3>3. ASSUME NEW x, x \in SendRingHeld(sendRing')
          PROVE  x \in SendRingHeld(sendRing) \ CleanedIdx(sendRing, s)
      <4>1. PICK i \in SendSlots : x = buff[i].idx /\ x # EB_NULL_IDX
        BY <3>1, <3>3
      <4>2. ~(Offset(i) < n) /\ x = sendRing.buff[i].idx
        BY <2>1, <4>1
      <4>3. x \in SendRingHeld(sendRing)
        BY <4>1, <4>2 DEF SendRingHeld
      <4>4. ASSUME NEW j \in gone PROVE sendRing.buff[j].idx # x
        BY <1>1, <1>5, <4>1, <4>2 DEF PayloadsOwned
      <4> QED BY <3>2, <4>3, <4>4
    <3>4. ASSUME NEW x, x \in SendRingHeld(sendRing), x \notin CleanedIdx(sendRing, s)
          PROVE  x \in SendRingHeld(sendRing')
      <4>1. PICK i \in SendSlots : x = sendRing.buff[i].idx /\ x # EB_NULL_IDX
        BY <3>4 DEF SendRingHeld
      <4>2. i \notin gone
        BY <3>2, <3>4, <4>1
      <4>3. buff[i].idx = x
        BY <1>5, <2>1, <4>1, <4>2
      <4> QED BY <3>1, <4>1, <4>3
    <3> QED BY <3>3, <3>4
  <2>4. ASSUME NEW j \in Idx
        PROVE  elements'[j] # NoPayload <=> j \in SendRingHeld(sendRing')
    BY <1>1, <1>3, <2>3, Constants DEF PayloadsOwned, Deleted
  <2> QED BY <1>8, <2>2, <2>4 DEF PayloadsOwned
<1> QED BY <1>9, <1>11, <1>12, <1>13 DEF Inv, RingInv

\* sky_send_ring_wipe establishes the invariant.
LEMMA WipeInv ==
  ASSUME Inv, NEW s \in Sequence, Wipe(s)
  PROVE  Inv'
<1>1. elements' = EmptyStore
  BY DEF Wipe, Inv, TypeOK, RingInv, PayloadsOwned, Deleted, EmptyStore, Store
<1>2. sendRing' = sky_send_ring_wipe(s) /\ out' \in TxPacket \cup {NoPacket}
  BY DEF Wipe, Inv, TypeOK
<1> QED BY <1>1, <1>2, WipedInv

-----------------------------------------------------------------------------
(* Scheduling retransmissions. *)

\* The j-th smallest element of a set of numbers is one of them.
LEMMA NthType ==
  ASSUME NEW m \in Nat, NEW K \in SUBSET (0 .. m), NEW j \in 1 .. Cardinality(K)
  PROVE  Nth(K, j) \in K
BY NthExists DEF Nth

\* sendRing_schedule_resends_by_mask keeps the invariant.
LEMMA ScheduleInv ==
  ASSUME Inv, NEW s \in Sequence, NEW mask, ScheduleResends(s, mask)
  PROVE  Inv'
<1> DEFINE K == AddedOffsets(sendRing, s, mask)
           added == [j \in 1 .. Cardinality(K) |-> SeqPlus(s, Nth(K, j))]
           extended == sendRing.resend_list \o added
           list == IF Len(extended) <= ResendDepth THEN extended
                   ELSE SubSeq(extended, 1, ResendDepth)
<1>1. K \in SUBSET (0 .. MaskBits)
  BY DEF AddedOffsets
<1>2. Cardinality(K) \in Nat
  <2> HIDE DEF K
  <2> QED BY <1>1, Constants, IntervalFinite
<1>3. \A j \in 1 .. Cardinality(K) : SeqPlus(s, Nth(K, j)) \in Sequence
  <2> HIDE DEF K
  <2>1. TAKE j \in 1 .. Cardinality(K)
  <2>2. Nth(K, j) \in K
    BY <1>1, <2>1, Constants, NthType
  <2>3. Nth(K, j) \in Int
    <3>1. \A x \in K : x \in Int
      BY <1>1
    <3> QED BY <2>2, <3>1, Zenon
  <2>4. s \in Int
    BY DEF Sequence
  <2> QED BY <2>3, <2>4, SeqType
<1> HIDE DEF K
<1>4. added \in Seq(Sequence)
  BY <1>2, <1>3
<1> HIDE DEF added
<1>5. extended \in Seq(Sequence)
  BY <1>4, Fields
<1> HIDE DEF extended
<1>6. list \in Seq(Sequence) /\ Len(list) <= ResendDepth
  BY <1>5, Constants
<1>7. sendRing' = [sendRing EXCEPT !.resend_list = list]
  BY DEF ScheduleResends, sendRing_schedule_resends_by_mask, K, added, extended
<1> HIDE DEF list
<1> QED BY <1>6, <1>7, ResendListInv DEF ScheduleResends, Inv, TypeOK

-----------------------------------------------------------------------------
(* The theorems. *)

\* A ring that was just created satisfies the invariant.
LEMMA InitInv ==
  ASSUME Init
  PROVE  Inv /\ AnnouncedIsRead
<1>1. SUFFICES Inv
  BY DEF Init, AnnouncedIsRead
<1>2. TypeOK
  <2>1. <<>> \in Seq(Sequence) /\ Len(<<>>) <= ResendDepth
    BY Constants
  <2>2. sendRing \in SkySendRing
    BY SlotFacts, SeqType, <2>1 DEF Init, SkySendRing, sky_send_ring_wipe
  <2>3. Len(sendRing.resend_list) <= ResendDepth
    BY <2>1 DEF Init, sky_send_ring_wipe
  <2> QED BY <2>2, <2>3 DEF TypeOK, Init, Store, EmptyStore
<1>3. CountersAgree
  BY SlotFacts, SeqType, SeqPlusZero
     DEF Init, CountersAgree, TxCount, Count, Offset, sky_send_ring_wipe
<1>4. SlotsAgree
  <2>1. Count = 0
    BY SlotFacts DEF Init, Count, Offset, sky_send_ring_wipe
  <2>2. \A i \in SendSlots : Offset(i) \in Nat
    <3>1. sendRing.tail = 0
      BY DEF Init, sky_send_ring_wipe
    <3> QED BY <3>1, SlotFacts, Constants, Distance DEF Offset, SendSlots
  <2> QED BY <2>1, <2>2 DEF Init, SlotsAgree, sky_send_ring_wipe
<1>5. PayloadsOwned
  BY Constants DEF Init, PayloadsOwned, sky_send_ring_wipe, SendRingHeld, EmptyStore, VacantItem
<1> QED BY <1>2, <1>3, <1>4, <1>5 DEF Inv, RingInv

\* Every step of the send ring keeps the invariant.
LEMMA NextInv ==
  ASSUME Inv /\ AnnouncedIsRead, [Next]_vars
  PROVE  Inv' /\ AnnouncedIsRead'
<1>1. CASE \E payload \in Payload : Push(payload)
  BY <1>1, PushInv DEF Push, AnnouncedIsRead
<1>2. CASE \E include_resend \in BOOLEAN : ReadToTx(include_resend)
  BY <1>2, ReadToTxInv
<1>3. CASE ReadNothing
  BY <1>3, ReadNothingInv DEF ReadNothing, AnnouncedIsRead
<1>4. CASE \E sequence \in Sequence, mask \in SUBSET (0 .. MaskBits - 1) :
             ScheduleResends(sequence, mask)
  BY <1>4, ScheduleInv DEF ScheduleResends, AnnouncedIsRead
<1>5. CASE \E sequence \in Sequence : CleanTail(sequence)
  BY <1>5, CleanTailInv DEF CleanTail, AnnouncedIsRead
<1>6. CASE \E sequence \in Sequence : Wipe(sequence)
  BY <1>6, WipeInv DEF Wipe, AnnouncedIsRead
<1>7. CASE UNCHANGED vars
  BY <1>7 DEF vars, Inv, TypeOK, RingInv, CountersAgree, SlotsAgree, PayloadsOwned,
     Count, TxCount, Offset, AnnouncedIsRead
<1> QED BY <1>1, <1>2, <1>3, <1>4, <1>5, <1>6, <1>7 DEF Next

\* The invariant holds in every state of the send ring.
LEMMA Invariance == Spec => [](Inv /\ AnnouncedIsRead)
<1>1. Init => Inv /\ AnnouncedIsRead
  BY InitInv
<1>2. (Inv /\ AnnouncedIsRead) /\ [Next]_vars => (Inv /\ AnnouncedIsRead)'
  BY NextInv
<1> QED BY <1>1, <1>2, PTL DEF Spec

\* The variables of the send ring always have their types; in particular the
\* payload handed to the radio is one that was pushed and not yet deleted.
THEOREM TypeCorrect == Spec => []TypeOK
<1>1. Inv => TypeOK
  BY DEF Inv
<1> QED BY <1>1, Invariance, PTL

\* The three indices and the three sequence numbers of the send ring always move
\* in step, whatever acknowledgements and requests arrive.
THEOREM CountersCorrect == Spec => []CountersAgree
<1>1. Inv => CountersAgree
  BY DEF Inv, RingInv
<1> QED BY <1>1, Invariance, PTL

\* The slots from tail to head, and no others, hold packets, each under the number
\* of its slot.
THEOREM SlotsCorrect == Spec => []SlotsAgree
<1>1. Inv => SlotsAgree
  BY DEF Inv, RingInv
<1> QED BY <1>1, Invariance, PTL

\* The send ring leaks no payload, frees none it still refers to, and never has
\* two slots refer to one.
THEOREM PayloadsCorrect == Spec => []PayloadsOwned
<1>1. Inv => PayloadsOwned
  BY DEF Inv, RingInv
<1> QED BY <1>1, Invariance, PTL

\* The number in the ARQ header is always the number of the payload beside it.
THEOREM AnnouncedCorrect == Spec => []AnnouncedIsRead
BY Invariance, PTL

-----------------------------------------------------------------------------
(* The ring implements SendQueue. *)

\* The slot of the n-th unacknowledged packet, the queue, and the packet that
\* left last, as the refinement mapping has them.
PlaceSlot(n) == ring_wrap(sendRing.tail + n - 1, SendLen)
QueueNow == [n \in 1 .. Count |-> elements[sendRing.buff[PlaceSlot(n)].idx]]
OutNow == IF out = NoPacket THEN NoPacket
          ELSE [sequence |-> out.announced, payload |-> out.payload]

\* Places of the queue and slots from tail to head correspond one to one, and the
\* queue holds payloads.
LEMMA QueueFacts ==
  Inv => /\ Count \in Nat /\ Count < SendLen /\ TxCount \in Nat /\ TxCount <= Count
         /\ \A n \in 1 .. Count :
              /\ PlaceSlot(n) \in SendSlots /\ Offset(PlaceSlot(n)) = n - 1
              /\ sendRing.buff[PlaceSlot(n)].idx \in Idx
              /\ QueueNow[n] = elements[sendRing.buff[PlaceSlot(n)].idx]
              /\ QueueNow[n] \in Payload
         /\ \A i \in SendSlots : PlaceSlot(Offset(i) + 1) = i
         /\ QueueNow \in Seq(Payload) /\ Len(QueueNow) = Count
<1>1. SUFFICES ASSUME Inv
               PROVE  /\ Count \in Nat /\ Count < SendLen /\ TxCount \in Nat /\ TxCount <= Count
                      /\ \A n \in 1 .. Count :
                           /\ PlaceSlot(n) \in SendSlots /\ Offset(PlaceSlot(n)) = n - 1
                           /\ sendRing.buff[PlaceSlot(n)].idx \in Idx
                           /\ QueueNow[n] = elements[sendRing.buff[PlaceSlot(n)].idx]
                           /\ QueueNow[n] \in Payload
                      /\ \A i \in SendSlots : PlaceSlot(Offset(i) + 1) = i
                      /\ QueueNow \in Seq(Payload) /\ Len(QueueNow) = Count
  OBVIOUS
<1>2. /\ Count \in Nat /\ Count < SendLen /\ TxCount \in Nat /\ TxCount <= Count
      /\ SlotsAgree /\ PayloadsOwned /\ elements \in Store
      /\ sendRing.tail \in SendSlots /\ sendRing.tail \in Int
  BY <1>1, Fields, SlotFacts DEF Inv, RingInv, CountersAgree, TypeOK
<1>3. ASSUME NEW n \in 0 .. SendLen - 1
      PROVE  /\ PlaceSlot(n + 1) = ring_wrap(sendRing.tail + n, SendLen)
             /\ PlaceSlot(n + 1) \in SendSlots /\ Offset(PlaceSlot(n + 1)) = n
  <2>1. sendRing.tail + (n + 1) - 1 = sendRing.tail + n
    BY <1>2
  <2>2. PlaceSlot(n + 1) = ring_wrap(sendRing.tail + n, SendLen)
    BY <2>1 DEF PlaceSlot
  <2> QED BY <1>2, <2>2, SlotAt DEF SendSlots, Offset
<1>4. ASSUME NEW n \in 1 .. Count
      PROVE  /\ PlaceSlot(n) \in SendSlots /\ Offset(PlaceSlot(n)) = n - 1
             /\ sendRing.buff[PlaceSlot(n)].idx \in Idx
             /\ QueueNow[n] = elements[sendRing.buff[PlaceSlot(n)].idx]
             /\ QueueNow[n] \in Payload
  <2>1. n - 1 \in 0 .. SendLen - 1 /\ (n - 1) + 1 = n /\ n - 1 < Count
    BY <1>2, Constants
  <2>2. PlaceSlot(n) \in SendSlots /\ Offset(PlaceSlot(n)) = n - 1
    BY <1>3, <2>1
  <2>3. sendRing.buff[PlaceSlot(n)].idx \in Idx
    BY <1>2, <2>1, <2>2 DEF SlotsAgree
  <2>4. elements[sendRing.buff[PlaceSlot(n)].idx] \in Payload
    <3>1. sendRing.buff[PlaceSlot(n)].idx \in SendRingHeld(sendRing)
      BY <2>2, <2>3, Constants DEF SendRingHeld
    <3> QED BY <1>2, <2>3, <3>1 DEF PayloadsOwned, Store
  <2> QED BY <2>2, <2>3, <2>4 DEF QueueNow
<1>5. ASSUME NEW i \in SendSlots PROVE PlaceSlot(Offset(i) + 1) = i
  <2>1. Offset(i) \in SendSlots /\ Offset(i) \in 0 .. SendLen - 1
    BY <1>1, Fields DEF SendSlots
  <2>2. PlaceSlot(Offset(i) + 1) \in SendSlots /\ Offset(PlaceSlot(Offset(i) + 1)) = Offset(i)
    BY <1>3, <2>1
  <2> HIDE DEF PlaceSlot
  <2> QED BY <1>2, <2>2, SameDistance, Constants DEF Offset, SendSlots
<1>6. QueueNow \in Seq(Payload) /\ Len(QueueNow) = Count
  <2>1. QueueNow \in [1 .. Count -> Payload]
    BY <1>4 DEF QueueNow
  <2> QED BY <1>2, <2>1
<1> QED BY <1>2, <1>4, <1>5, <1>6

\* The same of the state after a step.
LEMMA QueueFactsNext ==
  Inv' => /\ Count' \in Nat /\ Count' < SendLen /\ TxCount' \in Nat /\ TxCount' <= Count'
          /\ \A n \in 1 .. Count' :
               QueueNow'[n] = elements'[sendRing'.buff[PlaceSlot(n)'].idx]
          /\ QueueNow' \in Seq(Payload) /\ Len(QueueNow') = Count'
<1>1. Inv => /\ Count \in Nat /\ Count < SendLen /\ TxCount \in Nat /\ TxCount <= Count
             /\ \A n \in 1 .. Count :
                  QueueNow[n] = elements[sendRing.buff[PlaceSlot(n)].idx]
             /\ QueueNow \in Seq(Payload) /\ Len(QueueNow) = Count
  BY QueueFacts
<1>2. Inv' => (/\ Count \in Nat /\ Count < SendLen /\ TxCount \in Nat /\ TxCount <= Count
               /\ \A n \in 1 .. Count :
                    QueueNow[n] = elements[sendRing.buff[PlaceSlot(n)].idx]
               /\ QueueNow \in Seq(Payload) /\ Len(QueueNow) = Count)'
  BY <1>1, PTL
<1> QED BY <1>2

\* The refinement mapping, action by action.
LEMMA Mapping ==
  /\ Queue!Init <=> QueueNow = <<>> /\ TxCount = 0 /\ sendRing.tail_sequence = 0
                    /\ OutNow = NoPacket
  /\ Queue!Push <=> /\ Len(QueueNow) < SendLen - 1
                    /\ \E p \in Payload : QueueNow' = Append(QueueNow, p)
                    /\ TxCount' = TxCount /\ OutNow' = OutNow
                    /\ sendRing'.tail_sequence = sendRing.tail_sequence
  /\ Queue!Transmit <=>
       /\ TxCount < Len(QueueNow)
       /\ OutNow' = [sequence |-> (sendRing.tail_sequence + (TxCount + 1) - 1) % SeqCount,
                     payload |-> QueueNow[TxCount + 1]]
       /\ TxCount' = TxCount + 1 /\ QueueNow' = QueueNow
       /\ sendRing'.tail_sequence = sendRing.tail_sequence
  /\ Queue!Retransmit <=>
       /\ \E n \in 1 .. TxCount :
            OutNow' = [sequence |-> (sendRing.tail_sequence + n - 1) % SeqCount,
                       payload |-> QueueNow[n]]
       /\ TxCount' = TxCount /\ QueueNow' = QueueNow
       /\ sendRing'.tail_sequence = sendRing.tail_sequence
  /\ Queue!Acknowledge <=>
       /\ \E n \in 1 .. TxCount :
            /\ QueueNow' = SubSeq(QueueNow, n + 1, Len(QueueNow))
            /\ TxCount' = TxCount - n
            /\ sendRing'.tail_sequence = (sendRing.tail_sequence + n) % SeqCount
       /\ OutNow' = OutNow
  /\ Queue!Wipe <=> /\ QueueNow' = <<>> /\ TxCount' = 0
                    /\ sendRing'.tail_sequence \in Sequence /\ OutNow' = OutNow
  /\ (/\ QueueNow' = QueueNow /\ TxCount' = TxCount /\ OutNow' = OutNow
      /\ sendRing'.tail_sequence = sendRing.tail_sequence) => UNCHANGED Queue!vars
BY DEF Queue!Init, Queue!Push, Queue!Transmit, Queue!Retransmit, Queue!Acknowledge, Queue!Wipe,
       Queue!Packet, Queue!vars, QueueNow, OutNow, PlaceSlot, Sequence

\* What is pushed comes to the end of the queue.
LEMMA PushRefines ==
  ASSUME Inv, Inv', NEW payload \in Payload, Push(payload)
  PROVE  Queue!Push
<1>1. PICK idx \in FreeIdx(elements) :
        /\ elements' = Stored(elements, idx, payload)
        /\ sendRing' = sendRing_push_packet_to_send(sendRing, idx)
  BY DEF Push
<1>2. /\ sendRing \in SkySendRing /\ idx \in Idx /\ elements \in Store
      /\ elements[idx] = NoPayload /\ CountersAgree /\ CountersAgree' /\ out' = out
      /\ sendRing.storage_count \in Int /\ sendRing.head \in SendSlots
      /\ sendRing.buff \in [SendSlots -> RingItem]
  BY <1>1, Fields DEF Inv, TypeOK, RingInv, FreeIdx, Push
<1>3. /\ sendRing'.tail = sendRing.tail /\ sendRing'.tx_head = sendRing.tx_head
      /\ sendRing'.tail_sequence = sendRing.tail_sequence
      /\ sendRing'.storage_count = sendRing.storage_count + 1
      /\ sendRing'.buff =
           [sendRing.buff EXCEPT ![sendRing.head] =
             [idx |-> idx, sequence |-> sendRing.head_sequence]]
  BY <1>1, <1>2 DEF sendRing_push_packet_to_send, SkySendRing
<1>4. \A i \in SendSlots :
        sendRing'.buff[i].idx = IF i = sendRing.head THEN idx ELSE sendRing.buff[i].idx
  BY <1>2, <1>3
<1>5. \A j \in Idx : elements'[j] = IF j = idx THEN payload ELSE elements[j]
  BY <1>1, <1>2 DEF Stored, Store
<1>6. TxCount' = TxCount /\ \A n : PlaceSlot(n)' = PlaceSlot(n)
  BY <1>3 DEF TxCount, Offset, PlaceSlot
<1>7. Count' = Count + 1
  BY <1>2, <1>3 DEF CountersAgree
<1>8. /\ Count \in Nat /\ Count' < SendLen /\ QueueNow \in Seq(Payload) /\ Len(QueueNow) = Count
      /\ QueueNow' \in Seq(Payload) /\ Len(QueueNow') = Count'
      /\ \A n \in 1 .. Count' : QueueNow'[n] = elements'[sendRing'.buff[PlaceSlot(n)'].idx]
  BY QueueFacts, QueueFactsNext
<1>9. QueueNow'[Count + 1] = payload
  <2>1. PlaceSlot(Count + 1) = sendRing.head
    BY <1>2, QueueFacts DEF Count
  <2>2. Count + 1 \in 1 .. Count'
    BY <1>7, <1>8
  <2> QED BY <1>2, <1>4, <1>5, <1>6, <1>8, <2>1, <2>2
<1>10. ASSUME NEW n \in 1 .. Count PROVE QueueNow'[n] = QueueNow[n]
  <2>1. /\ PlaceSlot(n) \in SendSlots /\ Offset(PlaceSlot(n)) = n - 1
        /\ sendRing.buff[PlaceSlot(n)].idx \in Idx
        /\ QueueNow[n] = elements[sendRing.buff[PlaceSlot(n)].idx]
        /\ QueueNow[n] \in Payload
    BY QueueFacts
  <2>2. n \in 1 .. Count' /\ n - 1 # Count
    BY <1>7, <1>8
  <2>3. PlaceSlot(n) # sendRing.head
    BY <2>1, <2>2 DEF Count
  <2>4. sendRing.buff[PlaceSlot(n)].idx # idx
    BY <1>2, <2>1, Constants
  <2> QED BY <1>4, <1>5, <1>6, <1>8, <2>1, <2>2, <2>3, <2>4
<1>11. QueueNow' = Append(QueueNow, payload)
  <2> DEFINE q == QueueNow
             r == QueueNow'
  <2>1. /\ q \in Seq(Payload) /\ r \in Seq(Payload) /\ Len(r) = Len(q) + 1
        /\ r[Len(q) + 1] = payload /\ \A n \in 1 .. Len(q) : r[n] = q[n]
    BY <1>7, <1>8, <1>9, <1>10
  <2> HIDE DEF q, r
  <2>2. r = Append(q, payload)
    BY <2>1
  <2> QED BY <2>2 DEF q, r
<1>12. Len(QueueNow) < SendLen - 1
  BY <1>7, <1>8, Constants
<1>13. OutNow' = OutNow
  BY <1>2 DEF OutNow
<1> QED BY <1>3, <1>6, <1>11, <1>12, <1>13, Mapping

\* A read does not touch the queue.
LEMMA ReadKeepsQueue ==
  ASSUME Inv, NEW include_resend \in BOOLEAN,
         sendRing' = sendRing_read_to_tx(sendRing, include_resend), elements' = elements, Inv'
  PROVE  /\ QueueNow' = QueueNow /\ sendRing'.tail_sequence = sendRing.tail_sequence
         /\ TxCount' = IF ReadsNew(sendRing, include_resend) THEN TxCount + 1 ELSE TxCount
<1>1. PICK list \in Seq(Sequence) :
        /\ Len(list) <= ResendDepth
        /\ sendRing' =
             IF ReadsNew(sendRing, include_resend)
             THEN [sendRing EXCEPT !.resend_list = list,
                     !.tx_head = ring_wrap(sendRing.tx_head + 1, SendLen),
                     !.tx_sequence = SeqPlus(sendRing.tx_sequence, 1)]
             ELSE [sendRing EXCEPT !.resend_list = list]
  BY ReadChanges
<1>2. sendRing \in SkySendRing
  BY DEF Inv, TypeOK
<1>3. /\ sendRing'.buff = sendRing.buff /\ sendRing'.head = sendRing.head
      /\ sendRing'.tail = sendRing.tail /\ sendRing'.tail_sequence = sendRing.tail_sequence
      /\ sendRing'.tx_head = IF ReadsNew(sendRing, include_resend)
                             THEN ring_wrap(sendRing.tx_head + 1, SendLen) ELSE sendRing.tx_head
  BY <1>1, <1>2 DEF SkySendRing
<1>4. QueueNow' = QueueNow
  BY <1>3 DEF QueueNow, PlaceSlot, Count, Offset
<1>5. CASE ~ReadsNew(sendRing, include_resend)
  BY <1>3, <1>4, <1>5 DEF TxCount, Offset
<1>6. CASE ReadsNew(sendRing, include_resend)
  <2>1. sendRing.head # sendRing.tx_head
    <3>1. ring_wrap(sendRing.head - sendRing.tx_head, SendLen) # 0
      BY <1>6, Fields, Constants, Distance DEF ReadsNew, sendRing_count_packets_to_send, SendSlots
    <3> QED BY <3>1, Fields, Constants, NoDistance DEF SendSlots
  <2>2. TxCount # Count
    BY <2>1, Fields, Constants, SameDistance DEF TxCount, Count, Offset, SendSlots
  <2>3. ring_wrap(sendRing.tx_head - sendRing.tail, SendLen) + 1 < SendLen
    <3>1. TxCount + 1 < SendLen
      BY <2>2, QueueFacts, Constants
    <3> QED BY <3>1 DEF TxCount, Offset
  <2>4. ring_wrap(ring_wrap(sendRing.tx_head + 1, SendLen) - sendRing.tail, SendLen)
          = ring_wrap(sendRing.tx_head - sendRing.tail, SendLen) + 1
    BY <2>3, Fields, Constants, DistanceToNext DEF SendSlots
  <2> QED BY <1>3, <1>4, <1>6, <2>4 DEF TxCount, Offset
<1> QED BY <1>3, <1>4, <1>5, <1>6

\* What leaves is the first packet that was never transmitted, or one that was,
\* under the number of its place in the queue.
LEMMA ReadToTxRefines ==
  ASSUME Inv, Inv', NEW include_resend \in BOOLEAN, ReadToTx(include_resend)
  PROVE  Queue!Transmit \/ Queue!Retransmit
<1> DEFINE slot == ReadSlot(sendRing, include_resend)
           n == Offset(slot) + 1
           packet == [sequence |-> (sendRing.tail_sequence + n - 1) % SeqCount,
                      payload |-> QueueNow[n]]
<1>1. /\ PeekFinds(sendRing, include_resend)
      /\ sendRing' = sendRing_read_to_tx(sendRing, include_resend)
      /\ elements' = elements
      /\ out' = [announced |-> PeekSequence(sendRing, include_resend),
                 sequence  |-> ReadSequence(sendRing, include_resend),
                 payload   |-> elements[sendRing.buff[slot].idx]]
  BY DEF ReadToTx
<1>2. /\ slot \in SendSlots /\ Offset(slot) < Count
      /\ IF ReadsRecall(sendRing, include_resend) THEN Offset(slot) < TxCount
         ELSE Offset(slot) = TxCount
      /\ elements[sendRing.buff[slot].idx] \in Payload
      /\ PeekSequence(sendRing, include_resend) = SeqPlus(sendRing.tail_sequence, Offset(slot))
      /\ PeekSequence(sendRing, include_resend) \in Sequence
      /\ ReadSequence(sendRing, include_resend) \in Sequence
  BY <1>1, ReadPacket
<1>3. /\ QueueNow' = QueueNow /\ sendRing'.tail_sequence = sendRing.tail_sequence
      /\ TxCount' = IF ReadsNew(sendRing, include_resend) THEN TxCount + 1 ELSE TxCount
  BY <1>1, ReadKeepsQueue
<1>4. out' \in TxPacket /\ OutNow' = [sequence |-> PeekSequence(sendRing, include_resend),
                                      payload |-> elements[sendRing.buff[slot].idx]]
  <2>1. out' \in TxPacket
    BY <1>1, <1>2 DEF TxPacket
  <2>2. out' # NoPacket
    BY <2>1, NoPacketAssumption
  <2> QED BY <1>1, <2>1, <2>2 DEF OutNow
<1> HIDE DEF slot
<1> HIDE DEF packet, n
<1>5. Offset(slot) \in Nat /\ sendRing.tail_sequence \in Int
  <2>1. Offset(slot) \in SendSlots /\ sendRing.tail_sequence \in Sequence
    BY <1>2, Fields
  <2> QED BY <2>1 DEF SendSlots, Sequence
<1>6. n \in 1 .. Count /\ PlaceSlot(n) = slot
  BY <1>2, <1>5, QueueFacts DEF n
<1>7. OutNow' = packet
  <2>1. sendRing.tail_sequence + n - 1 = sendRing.tail_sequence + Offset(slot)
    BY <1>5 DEF n
  <2>2. QueueNow[n] = elements[sendRing.buff[slot].idx]
    BY <1>6, QueueFacts
  <2> QED BY <1>2, <1>4, <2>1, <2>2 DEF SeqPlus, packet
<1>8. CASE ReadsRecall(sendRing, include_resend)
  <2>1. n \in 1 .. TxCount /\ TxCount' = TxCount
    BY <1>2, <1>3, <1>5, <1>8, QueueFacts DEF ReadsNew, n
  <2>2. \E k \in 1 .. TxCount :
          OutNow' = [sequence |-> (sendRing.tail_sequence + k - 1) % SeqCount,
                     payload |-> QueueNow[k]]
    BY <1>7, <2>1 DEF packet
  <2> QED BY <1>3, <2>1, <2>2, Mapping
<1>9. CASE ~ReadsRecall(sendRing, include_resend)
  <2>1. n = TxCount + 1 /\ TxCount' = TxCount + 1 /\ TxCount < Len(QueueNow)
    BY <1>1, <1>2, <1>3, <1>9, QueueFacts DEF PeekFinds, n
  <2>2. OutNow' = [sequence |-> (sendRing.tail_sequence + (TxCount + 1) - 1) % SeqCount,
                   payload |-> QueueNow[TxCount + 1]]
    BY <1>7, <2>1 DEF packet
  <2> QED BY <1>3, <2>1, <2>2, Mapping
<1> QED BY <1>8, <1>9

\* The queue does not know of the resend list.
LEMMA ResendListRefines ==
  ASSUME Inv, Inv', ReadNothing \/ \E sequence \in Sequence, mask \in SUBSET (0 .. MaskBits - 1) :
                                     ScheduleResends(sequence, mask)
  PROVE  UNCHANGED Queue!vars
<1>1. CASE ReadNothing
  <2>1. /\ sendRing' = sendRing_read_to_tx(sendRing, TRUE)
        /\ elements' = elements /\ out' = out /\ ~ReadsNew(sendRing, TRUE) /\ TRUE \in BOOLEAN
    BY <1>1 DEF ReadNothing, PeekFinds
  <2>2. /\ QueueNow' = QueueNow /\ sendRing'.tail_sequence = sendRing.tail_sequence
        /\ TxCount' = TxCount
    BY <2>1, ReadKeepsQueue
  <2>3. OutNow' = OutNow
    BY <2>1 DEF OutNow
  <2> QED BY <2>2, <2>3, Mapping
<1>2. CASE \E sequence \in Sequence, mask \in SUBSET (0 .. MaskBits - 1) :
             ScheduleResends(sequence, mask)
  <2>1. /\ sendRing'.buff = sendRing.buff /\ sendRing'.head = sendRing.head
        /\ sendRing'.tx_head = sendRing.tx_head /\ sendRing'.tail = sendRing.tail
        /\ sendRing'.tail_sequence = sendRing.tail_sequence
    <3>1. PICK list : sendRing' = [sendRing EXCEPT !.resend_list = list]
      BY <1>2 DEF ScheduleResends, sendRing_schedule_resends_by_mask
    <3> QED BY <3>1 DEF Inv, TypeOK, SkySendRing
  <2>2. elements' = elements /\ out' = out
    BY <1>2 DEF ScheduleResends
  <2>3. QueueNow' = QueueNow /\ TxCount' = TxCount /\ OutNow' = OutNow
    BY <2>1, <2>2 DEF QueueNow, PlaceSlot, TxCount, Count, Offset, OutNow
  <2> QED BY <2>1, <2>3, Mapping
<1> QED BY <1>1, <1>2

\* An acknowledgement takes packets that were transmitted from the front.
LEMMA CleanTailRefines ==
  ASSUME Inv, Inv', NEW s \in Sequence, CleanTail(s)
  PROVE  Queue!Acknowledge \/ UNCHANGED Queue!vars
<1> DEFINE n == SeqMinus(s, sendRing.tail_sequence)
           tail == ring_wrap(sendRing.tail + n, SendLen)
           gone == Acknowledged(sendRing, s)
           buff == [i \in SendSlots |-> IF i \in gone THEN VacantItem ELSE sendRing.buff[i]]
<1>1. /\ sendRing \in SkySendRing /\ SlotsAgree /\ PayloadsOwned /\ CountersAgree /\ CountersAgree'
      /\ sendRing.storage_count \in Int /\ sendRing.tail \in SendSlots
      /\ sendRing.tx_head \in SendSlots /\ Offset(sendRing.tx_head) \in SendSlots
  BY Fields DEF Inv, TypeOK, RingInv
<1>2. /\ sendRing' = sendRing_clean_tail_up_to(sendRing, s) /\ out' = out
      /\ elements' = Deleted(elements, CleanedIdx(sendRing, s))
      /\ ValidAcknowledge(sendRing, s)
  BY DEF CleanTail
<1>3. n \in 0 .. SendLen - 1 /\ n <= TxCount /\ s = SeqPlus(sendRing.tail_sequence, n)
  BY <1>2, AcknowledgedSteps
<1>4. /\ sendRing'.buff = buff /\ sendRing'.tx_head = sendRing.tx_head /\ sendRing'.tail = tail
      /\ sendRing'.tail_sequence = s
      /\ sendRing'.storage_count = sendRing.storage_count - n
  BY <1>1, <1>2 DEF sendRing_clean_tail_up_to, SkySendRing
<1>5. gone = {i \in SendSlots : Offset(i) < n}
  BY DEF Acknowledged, Offset
<1> HIDE DEF n, tail, gone
<1>6. \A i \in SendSlots : sendRing'.buff[i].idx = IF Offset(i) < n THEN EB_NULL_IDX
                                                   ELSE sendRing.buff[i].idx
  BY <1>4, <1>5 DEF VacantItem
<1>7. /\ Count \in Nat /\ Count < SendLen /\ TxCount \in Nat /\ TxCount <= Count
      /\ QueueNow \in Seq(Payload) /\ Len(QueueNow) = Count
      /\ QueueNow' \in Seq(Payload) /\ Len(QueueNow') = Count'
      /\ \A k \in 1 .. Count' : QueueNow'[k] = elements'[sendRing'.buff[PlaceSlot(k)'].idx]
  BY QueueFacts, QueueFactsNext
<1>8. Count' = Count - n /\ TxCount' = TxCount - n
  <2>1. Count' = Count - n
    BY <1>1, <1>3, <1>4 DEF CountersAgree
  <2>2. ring_wrap(sendRing.tx_head - tail, SendLen)
          = IF ring_wrap(sendRing.tx_head - sendRing.tail, SendLen) >= n
            THEN ring_wrap(sendRing.tx_head - sendRing.tail, SendLen) - n
            ELSE ring_wrap(sendRing.tx_head - sendRing.tail, SendLen) - n + SendLen
    BY <1>1, <1>3, SlotFrom DEF SendSlots, tail
  <2>3. TxCount >= n
    BY <1>3, <1>7
  <2> QED BY <1>4, <2>1, <2>2, <2>3 DEF TxCount, Offset
<1>9. ASSUME NEW k \in 1 .. Count' PROVE QueueNow'[k] = QueueNow[k + n]
  <2>1. k + n \in 1 .. Count /\ ~(k + n - 1 < n) /\ k \in Int /\ n \in Int
    BY <1>3, <1>7, <1>8
  <2>2. PlaceSlot(k)' = PlaceSlot(k + n)
    <3>1. sendRing.tail \in Int /\ tail + k - 1 = tail + (k - 1) /\ k - 1 \in Int
          /\ sendRing.tail + (k + n) - 1 = (sendRing.tail + n) + (k - 1)
          /\ sendRing.tail + n \in Int
      <4>1. sendRing.tail \in Int
        BY <1>1, SlotFacts
      <4>2. tail \in Int
        <5>1. n \in SendSlots
          BY <1>3 DEF SendSlots
        <5>2. tail \in SendSlots
          BY <1>1, <5>1, SlotAt DEF tail
        <5> QED BY <5>2 DEF SendSlots
      <4> QED BY <2>1, <4>1, <4>2
    <3>2. (((sendRing.tail + n) % SendLen) + (k - 1)) % SendLen
            = ((sendRing.tail + n) + (k - 1)) % SendLen
      BY <3>1, ModPlus, Constants
    <3> QED BY <1>4, <3>1, <3>2 DEF PlaceSlot, tail, ring_wrap
  <2>3. /\ PlaceSlot(k + n) \in SendSlots /\ Offset(PlaceSlot(k + n)) = k + n - 1
        /\ sendRing.buff[PlaceSlot(k + n)].idx \in Idx
        /\ QueueNow[k + n] = elements[sendRing.buff[PlaceSlot(k + n)].idx]
    BY <2>1, QueueFacts
  <2>4. sendRing'.buff[PlaceSlot(k + n)].idx = sendRing.buff[PlaceSlot(k + n)].idx
    BY <1>6, <2>1, <2>3
  <2>5. sendRing.buff[PlaceSlot(k + n)].idx \notin CleanedIdx(sendRing, s)
    <3>1. ASSUME NEW i \in gone
          PROVE  sendRing.buff[i].idx # sendRing.buff[PlaceSlot(k + n)].idx
      BY <1>1, <1>5, <2>1, <2>3, Constants DEF PayloadsOwned
    <3> QED BY <3>1 DEF CleanedIdx, gone
  <2> QED BY <1>2, <1>7, <2>2, <2>3, <2>4, <2>5 DEF Deleted
<1>10. QueueNow' = SubSeq(QueueNow, n + 1, Len(QueueNow))
  <2> DEFINE q == QueueNow
             r == QueueNow'
  <2>1. /\ q \in Seq(Payload) /\ r \in Seq(Payload) /\ n \in Nat /\ n <= Len(q)
        /\ Len(r) = Len(q) - n /\ \A k \in 1 .. Len(r) : r[k] = q[k + n]
    BY <1>3, <1>7, <1>8, <1>9
  <2> HIDE DEF q, r
  <2>2. r = SubSeq(q, n + 1, Len(q))
    <3>1. SubSeq(q, n + 1, Len(q)) \in Seq(Payload) /\ Len(SubSeq(q, n + 1, Len(q))) = Len(q) - n
      BY <2>1
    <3>2. \A k \in 1 .. Len(r) : SubSeq(q, n + 1, Len(q))[k] = q[k + n]
      BY <2>1
    <3> QED BY <2>1, <3>1, <3>2
  <2> QED BY <2>2 DEF q, r
<1>11. OutNow' = OutNow
  BY <1>2 DEF OutNow
<1>12. sendRing'.tail_sequence = (sendRing.tail_sequence + n) % SeqCount
  BY <1>3, <1>4 DEF SeqPlus
<1>13. CASE n = 0
  <2>1. sendRing'.tail_sequence = sendRing.tail_sequence /\ TxCount' = TxCount
    BY <1>3, <1>4, <1>7, <1>8, <1>13, Fields, SeqPlusZero
  <2>2. QueueNow' = QueueNow
    <3>1. SubSeq(QueueNow, 1, Len(QueueNow)) = QueueNow
      <4> DEFINE q == QueueNow
      <4>1. q \in Seq(Payload)
        BY <1>7
      <4> HIDE DEF q
      <4>2. SubSeq(q, 1, Len(q)) = q
        BY <4>1
      <4> QED BY <4>2 DEF q
    <3> QED BY <1>10, <1>13, <3>1
  <2> QED BY <1>11, <2>1, <2>2, Mapping
<1>14. CASE n # 0
  <2>1. n \in 1 .. TxCount
    BY <1>3, <1>7, <1>14
  <2> QED BY <1>8, <1>10, <1>11, <1>12, <2>1, Mapping
<1> QED BY <1>13, <1>14

\* The send ring is a queue of unacknowledged packets: first transmissions in
\* order, retransmissions of what was transmitted under its own number, and
\* acknowledgements from the front.  Every behaviour of the ring is one of
\* SendQueue.
THEOREM QueueImplemented == Spec => ImplementsQueue
<1>1. Init => Queue!Init
  <2>1. SUFFICES ASSUME Init PROVE Queue!Init
    OBVIOUS
  <2>2. Inv
    BY <2>1, InitInv
  <2>3. /\ sendRing.tail_sequence = 0 /\ out = NoPacket
        /\ sendRing.head = 0 /\ sendRing.tx_head = 0 /\ sendRing.tail = 0
    BY <2>1 DEF Init, sky_send_ring_wipe
  <2>4. Count = 0 /\ TxCount = 0
    BY <2>3, SlotFacts DEF Count, TxCount, Offset
  <2>5. QueueNow = <<>>
    BY <2>2, <2>4, QueueFacts
  <2> QED BY <2>3, <2>4, <2>5, Mapping DEF OutNow
<1>2. Inv /\ Inv' /\ [Next]_vars => [Queue!Next]_(Queue!vars)
  <2>1. SUFFICES ASSUME Inv, Inv', [Next]_vars
                 PROVE  Queue!Next \/ UNCHANGED Queue!vars
    BY DEF Queue!vars
  <2>2. CASE \E payload \in Payload : Push(payload)
    BY <2>1, <2>2, PushRefines DEF Queue!Next
  <2>3. CASE \E include_resend \in BOOLEAN : ReadToTx(include_resend)
    BY <2>1, <2>3, ReadToTxRefines DEF Queue!Next
  <2>4. CASE ReadNothing \/ \E sequence \in Sequence, mask \in SUBSET (0 .. MaskBits - 1) :
                              ScheduleResends(sequence, mask)
    BY <2>1, <2>4, ResendListRefines
  <2>5. CASE \E sequence \in Sequence : CleanTail(sequence)
    BY <2>1, <2>5, CleanTailRefines DEF Queue!Next
  <2>6. CASE \E sequence \in Sequence : Wipe(sequence)
    <3>1. PICK sequence \in Sequence : Wipe(sequence)
      BY <2>6
    <3>2. /\ sendRing'.tail_sequence = sequence /\ out' = out
          /\ sendRing'.head = 0 /\ sendRing'.tx_head = 0 /\ sendRing'.tail = 0
      BY <3>1 DEF Wipe, sky_send_ring_wipe
    <3>3. Count' = 0 /\ TxCount' = 0
      BY <3>2, SlotFacts DEF Count, TxCount, Offset
    <3>4. QueueNow' = <<>>
      BY <2>1, <3>3, QueueFactsNext
    <3>5. OutNow' = OutNow
      BY <3>2 DEF OutNow
    <3> QED BY <3>2, <3>3, <3>4, <3>5, Mapping DEF Queue!Next
  <2>7. CASE UNCHANGED vars
    <3>1. QueueNow' = QueueNow /\ TxCount' = TxCount /\ OutNow' = OutNow
          /\ sendRing'.tail_sequence = sendRing.tail_sequence
      BY <2>7 DEF vars, QueueNow, PlaceSlot, TxCount, Count, Offset, OutNow
    <3> QED BY <3>1, Mapping
  <2> QED BY <2>1, <2>2, <2>3, <2>4, <2>5, <2>6, <2>7 DEF Next
<1>3. Init /\ [][Next]_vars => Queue!Init /\ [][Queue!Next]_(Queue!vars)
  BY <1>1, <1>2, Invariance, PTL DEF Spec
<1> QED BY <1>3 DEF Spec, ImplementsQueue, Queue!Spec
=============================================================================
