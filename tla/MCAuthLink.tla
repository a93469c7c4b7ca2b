----------------------------- MODULE MCAuthLink -----------------------------
(* Two ends: the ground station sends payloads, two of its frames may be   *)
(* on the air, and the satellite listens.                                  *)
EXTENDS AuthLink

MCLifetime == [n \in End |-> IF n = "gs" THEN 1 ELSE 0]
MCPayloads == [n \in End |-> IF n = "gs" THEN {TRUE} ELSE {}]
=============================================================================
