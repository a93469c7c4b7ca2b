---------------------------- MODULE PayloadBuffer ----------------------------
(***************************************************************************)
(* What the element buffer promises, as a specification: storing puts a    *)
(* payload at a position that is free and touches no other, and a payload  *)
(* stays as it is until its own position is deleted or everything is       *)
(* wiped.                                                                  *)
(***************************************************************************)
EXTENDS PayloadStore

VARIABLE store

Init == store = EmptyStore

\* Positions whose payload a step changes.
Touched == {idx \in Idx : store'[idx] # store[idx]}

StorePayload ==
  \E idx \in Touched : Touched = {idx} /\ store[idx] = NoPayload /\ store' \in Store

DeletePayload ==
  \E idx \in Touched : Touched = {idx} /\ store' = Deleted(store, {idx})

Wipe == store' = EmptyStore

Next == StorePayload \/ DeletePayload \/ Wipe

Spec == Init /\ [][Next]_store
=============================================================================
