------------------------------ MODULE MCRcvRing ------------------------------
(***************************************************************************)
(* The receive ring on a small instance.                                   *)
(***************************************************************************)
EXTENDS RcvRing, TLC

\* Positions of the element buffer are interchangeable, and so are the payloads
\* the reader has room for.
Symmetry == Permutations(Idx) \cup Permutations(Payload \ TooLong)
=============================================================================
