--------------------------- MODULE MCElementBuffer ---------------------------
(***************************************************************************)
(* The element buffer on a small instance: elements of two bytes, one of   *)
(* which holds the length in the first element of a chain, so that one     *)
(* payload fills an element exactly and the other takes three elements, of *)
(* which the last is not full.                                             *)
(***************************************************************************)
EXTENDS ElementBuffer

CONSTANTS short, long

MCPayload == {short, long}
MCLength == [p \in MCPayload |-> CASE p = short -> 1 [] p = long -> 4]
=============================================================================
