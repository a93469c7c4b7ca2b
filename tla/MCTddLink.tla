----------------------------- MODULE MCTddLink -----------------------------
(***************************************************************************)
(* Two ends whose clocks wrap at different times.                          *)
(***************************************************************************)
EXTENDS TddLink

MCOffset == [e \in End |-> IF e = "gs" THEN 0 ELSE 5]
=============================================================================
