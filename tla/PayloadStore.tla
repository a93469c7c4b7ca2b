---------------------------- MODULE PayloadStore ----------------------------
(***************************************************************************)
(* What the element buffer promises its users: a payload stored at a free  *)
(* position is read back unchanged until it is deleted.  The rings use the *)
(* element buffer through these operators only.                            *)
(***************************************************************************)
CONSTANTS
  Idx,        \* positions the buffer can hand out
  Payload,    \* payloads
  NoPayload   \* content of a free position

\* A store maps every position to the payload kept there.
Store == [Idx -> Payload \cup {NoPayload}]

EmptyStore == [i \in Idx |-> NoPayload]

\* Positions sky_element_buffer_store can choose; it fails when there is none.
FreeIdx(store) == {i \in Idx : store[i] = NoPayload}

\* sky_element_buffer_store
Stored(store, idx, payload) == [store EXCEPT ![idx] = payload]

\* sky_element_buffer_delete, for each position of a set
Deleted(store, S) == [i \in Idx |-> IF i \in S THEN NoPayload ELSE store[i]]
=============================================================================
