---------------------------- MODULE ElementBuffer ----------------------------
(***************************************************************************)
(* element_buffer.c: payloads kept in doubly linked chains of elements.    *)
(* The pool is a memory: wiping an element resets its links and leaves its *)
(* data, so a payload is stored over what earlier payloads left behind.    *)
(* A byte is the pair of a payload and a place in it.                      *)
(***************************************************************************)
EXTENDS Integers, FiniteSets

CONSTANTS
  RcvLen,        \* slots of the receive ring (rcv_ring_len)
  SendLen,       \* slots of the send ring (send_ring_len)
  UsableSpace,   \* bytes of data in an element (element_usable_space)
  EB_LEN_BYTES,  \* bytes the length takes in the first element of a chain
  Payload,       \* payloads
  Length,        \* the length of each payload
  MaxLength,     \* SKY_PAYLOAD_MAX_LEN
  NoPayload,     \* no payload
  EB_END_IDX,    \* link beyond the end of a chain
  EB_NULL_IDX,   \* link of a free element
  NoByte         \* what malloc left in the pool

ASSUME ElementBufferAssumption ==
  /\ RcvLen \in Nat /\ SendLen \in Nat /\ RcvLen + SendLen > 2
  /\ EB_LEN_BYTES \in Nat \ {0} /\ MaxLength \in Nat
  /\ UsableSpace \in Nat /\ UsableSpace > EB_LEN_BYTES
  /\ Length \in [Payload -> 0 .. MaxLength]
  /\ NoPayload \notin Payload

\* Elements needed for length bytes: a ceiling division.
sky_element_buffer_element_requirement(length) ==
  (length + EB_LEN_BYTES + UsableSpace - 1) \div UsableSpace

\* The payloads of maximum length that sky_vc_create makes the buffer for.
ring_slots == RcvLen + SendLen - 2

\* Mutant: the length bytes are not counted.
CountWithoutLength == ring_slots * ((MaxLength + UsableSpace - 1) \div UsableSpace)

\* sky_vc_create and compute_required_element_count.
element_count == ring_slots * sky_element_buffer_element_requirement(MaxLength)

Element == 0 .. element_count - 1
Link == Element \cup {EB_END_IDX, EB_NULL_IDX}
Cells == 0 .. UsableSpace - 1

\* What a byte of data holds: a byte of a payload, a part of a length, or
\* what malloc left there.
Byte == {<<p, k>> : p \in Payload, k \in 0 .. MaxLength - 1}
          \cup {<<"length", n>> : n \in 0 .. MaxLength} \cup {NoByte}

ASSUME LinkAssumption == EB_END_IDX # EB_NULL_IDX /\ {EB_END_IDX, EB_NULL_IDX} \cap Element = {}

VARIABLES pool, free_elements, last_write_index

vars == <<pool, free_elements, last_write_index>>

-----------------------------------------------------------------------------
(* Elements. *)

element_is_free(i) == pool[i].previous = EB_NULL_IDX /\ pool[i].next = EB_NULL_IDX

element_is_first(i) ==
  pool[i].previous = EB_END_IDX /\ pool[i].next \in Element \cup {EB_END_IDX}

element_is_last(i) ==
  pool[i].next = EB_END_IDX /\ pool[i].previous \in Element \cup {EB_END_IDX}

Free == {i \in Element : element_is_free(i)}
Firsts == {i \in Element : element_is_first(i)}

\* Elements by their distance from where the search for free ones starts.
FromLastWrite(i) == (i - last_write_index) % element_count

\* Mutant: the search does not look whether an element is free.
AnyElement(n) == (last_write_index + n) % element_count

\* element_buffer_get_n_free: the n-th free element that element_buffer_get_next_free
\* finds, counted from 0, each search starting behind the element found before.
element_buffer_get_n_free(n) ==
  CHOOSE i \in Free : Cardinality({j \in Free : FromLastWrite(j) < FromLastWrite(i)}) = n

-----------------------------------------------------------------------------
(* Storing. *)

\* The bytes of a payload that go into the i-th element of its chain: where in
\* the payload they start, where in the element, and how many there are.
DataCursor(i) == IF i = 0 THEN 0 ELSE i * UsableSpace - EB_LEN_BYTES
CellCursor(i) == IF i = 0 THEN EB_LEN_BYTES ELSE 0
ToCopy(i, length) ==
  LET space == UsableSpace - CellCursor(i)
      left  == length - DataCursor(i)
  IN  IF space > left THEN left ELSE space

\* Mutant: the cursor forgets the length bytes of the first element.
CopiedOff(payload, i, data) ==
  [c \in Cells |->
     IF i = 0 /\ c < EB_LEN_BYTES THEN <<"length", Length[payload]>>
     ELSE IF c \in CellCursor(i) .. CellCursor(i) + ToCopy(i, Length[payload]) - 1
     THEN <<payload, i * UsableSpace + c - CellCursor(i)>>
     ELSE data[c]]

\* The data of the i-th element after the payload was copied over what it held.
Copied(payload, i, data) ==
  [c \in Cells |->
     IF i = 0 /\ c < EB_LEN_BYTES THEN <<"length", Length[payload]>>
     ELSE IF c \in CellCursor(i) .. CellCursor(i) + ToCopy(i, Length[payload]) - 1
     THEN <<payload, DataCursor(i) + c - CellCursor(i)>>
     ELSE data[c]]

\* sky_element_buffer_store fails and changes nothing when the counter says that
\* there are not enough free elements, or when they are not found.
HasRoom(payload) ==
  LET n == sky_element_buffer_element_requirement(Length[payload])
  IN  n <= free_elements /\ n <= Cardinality(Free)

sky_element_buffer_store(payload) ==
  LET n        == sky_element_buffer_element_requirement(Length[payload])
      index(i) == element_buffer_get_n_free(i)
  IN  /\ HasRoom(payload)
      /\ pool' = [e \in Element |->
           IF ~\E i \in 0 .. n - 1 : e = index(i) THEN pool[e]
           ELSE LET i == CHOOSE i \in 0 .. n - 1 : e = index(i)
                IN  [previous |-> IF i = 0 THEN EB_END_IDX ELSE index(i - 1),
                     next     |-> IF i = n - 1 THEN EB_END_IDX ELSE index(i + 1),
                     data     |-> Copied(payload, i, pool[e].data)]]
      /\ last_write_index' = index(n - 1)
      /\ free_elements' = free_elements - n

-----------------------------------------------------------------------------
(* Following a chain. *)

\* The element reached from idx after n links.
Walk(idx, n) ==
  LET walk[k \in 0 .. n] ==
        IF k = 0 THEN idx
        ELSE IF walk[k - 1] \in Element THEN pool[walk[k - 1]].next ELSE walk[k - 1]
  IN  walk[n]

\* sky_element_buffer_get_data_length: the length at the start of a chain.
sky_element_buffer_get_data_length(idx) == pool[idx].data[0][2]

\* sky_element_buffer_read finds as many elements as the length at the start of
\* the chain calls for, and the last one ends the chain.
ChainIntact(idx) ==
  LET n == sky_element_buffer_element_requirement(sky_element_buffer_get_data_length(idx))
  IN  /\ \A i \in 0 .. n - 1 : Walk(idx, i) \in Element /\ Walk(idx, i) \notin Free
      /\ element_is_last(Walk(idx, n - 1))

\* The bytes it then copies.
ReadBytes(idx) ==
  [k \in 0 .. sky_element_buffer_get_data_length(idx) - 1 |->
     LET i == (k + EB_LEN_BYTES) \div UsableSpace
     IN  pool[Walk(idx, i)].data[(k + EB_LEN_BYTES) % UsableSpace]]

\* sky_element_buffer_read returns this payload.
ReadsPayload(idx, payload) ==
  /\ element_is_first(idx)
  /\ ChainIntact(idx)
  /\ ReadBytes(idx) = [k \in 0 .. Length[payload] - 1 |-> <<payload, k>>]

\* The elements of a chain, up to the first one that ends it.
Chain(idx) ==
  {Walk(idx, n) : n \in {m \in 0 .. element_count - 1 :
                           \A k \in 0 .. m - 1 : ~element_is_last(Walk(idx, k))}}

\* Mutant: only the first element of the chain is wiped.
DeleteFirst(idx) ==
  /\ element_is_first(idx)
  /\ pool' = [e \in Element |->
       IF e = idx
       THEN [pool[e] EXCEPT !.previous = EB_NULL_IDX, !.next = EB_NULL_IDX] ELSE pool[e]]
  /\ free_elements' = free_elements + 1
  /\ UNCHANGED last_write_index

\* sky_element_buffer_delete; for an index that is not the first of a chain it
\* fails and changes nothing.
sky_element_buffer_delete(idx) ==
  /\ element_is_first(idx)
  /\ pool' = [e \in Element |->
       IF e \in Chain(idx)
       THEN [pool[e] EXCEPT !.previous = EB_NULL_IDX, !.next = EB_NULL_IDX] ELSE pool[e]]
  /\ free_elements' = free_elements + Cardinality(Chain(idx))
  /\ UNCHANGED last_write_index

sky_element_buffer_wipe ==
  /\ pool' = [e \in Element |->
                [pool[e] EXCEPT !.previous = EB_NULL_IDX, !.next = EB_NULL_IDX]]
  /\ last_write_index' = 0
  /\ free_elements' = element_count

Init ==
  /\ pool = [e \in Element |-> [previous |-> EB_NULL_IDX, next |-> EB_NULL_IDX,
                                data     |-> [c \in Cells |-> NoByte]]]
  /\ last_write_index = 0
  /\ free_elements = element_count

Next ==
  \/ \E payload \in Payload : sky_element_buffer_store(payload)
  \/ \E idx \in Element : sky_element_buffer_delete(idx)
  \/ sky_element_buffer_wipe

Spec == Init /\ [][Next]_vars

-----------------------------------------------------------------------------
(* Properties. *)

\* sky_element_buffer_entire_buffer_is_ok, and more: links, data and the last write
\* index are in range, every element is free or on the chain of exactly one first
\* element, links match in both directions, and free_elements counts the free ones.
BufferIsOk ==
  /\ pool \in [Element -> [previous : Link, next : Link, data : [Cells -> Byte]]]
  /\ last_write_index \in Element
  /\ UNION {Chain(f) : f \in Firsts} = Element \ Free
  /\ \A f, g \in Firsts : f # g => Chain(f) \cap Chain(g) = {}
  /\ \A e \in Element :
       pool[e].next \in Element => pool[pool[e].next].previous = e
  /\ free_elements = Cardinality(Free)

\* What sky_element_buffer_read returns for a chain is a payload that was
\* stored, whole and with no byte that an earlier payload left in the pool.
ChainsReadBack == \A f \in Firsts : \E p \in Payload : ReadsPayload(f, p)

\* The payloads the two rings can hold at a time: a receive ring that is choked
\* has no vacant slot, a send ring always keeps one (sendRing_is_full).
RingCapacity == RcvLen + SendLen - 1

\* While the rings have room for two more payloads, the buffer has room for the
\* next one, however long it is and however the chains are scattered over the
\* pool.  For the last slot that a choked receive ring leaves it may have none:
\* ring_slots is one less than RingCapacity.
RoomForAllButLast ==
  Cardinality(Firsts) + 1 < RingCapacity =>
    \A payload \in Payload : HasRoom(payload)

\* Payloads are kept as PayloadBuffer promises: a chain is not touched by storing
\* or deleting another one, and reads as it was stored until it is deleted.
Buffer == INSTANCE PayloadBuffer WITH
  Idx   <- Element,
  store <- [e \in Element |->
              LET reads == {p \in Payload : ReadsPayload(e, p)}
              IN  IF reads = {} THEN NoPayload ELSE CHOOSE p \in reads : TRUE]

ImplementsBuffer == Buffer!Spec
=============================================================================
