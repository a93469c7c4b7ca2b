----------------------------- MODULE MCSendRing -----------------------------
(***************************************************************************)
(* The send ring on a small instance.                                      *)
(***************************************************************************)
EXTENDS SendRing, TLC

\* Positions of the element buffer and payloads are interchangeable.
Symmetry == Permutations(Idx) \cup Permutations(Payload)
=============================================================================
