------------------------------ MODULE MCArqLink ------------------------------
(***************************************************************************)
(* The link on a small instance.                                           *)
(***************************************************************************)
EXTENDS ArqLink

MCIdx == 1 .. MaxPush
MCIdentifiers == 0 .. ByteBase * ByteBase - 1

\* Short payloads and long ones.
MCElements == [idx \in Idx |-> IF idx % 2 = 0 THEN 1 ELSE 2]

\* When each end may connect: one end once, or twice with a tick that has wrapped
\* before; or both, with identifiers that one of them refuses (5 and 3, as the
\* wrapped 12) and with identifiers that both refuse (3 and 3).  The identifier of
\* one end grows from one connection to the next.
OneSession   == [n \in Node |-> IF n = B THEN {1} ELSE {}]
Reconnect    == [n \in Node |-> IF n = B THEN {10, 13} ELSE {}]
BothConnect  == [n \in Node |-> IF n = B THEN {1, 12} ELSE {3, 5}]
=============================================================================
