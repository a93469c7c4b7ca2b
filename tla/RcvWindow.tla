------------------------------ MODULE RcvWindow ------------------------------
(***************************************************************************)
(* What a receive ring promises: packets are accepted in any order within  *)
(* a window and handed to the application in the order of their numbers,   *)
(* none twice and none skipped.  Place 0 of the window is the packet the   *)
(* application reads next, numbered base.  The packets up to the first gap *)
(* are ready, except that never more than Ready of them are, which keeps   *)
(* the whole horizon inside the window.                                    *)
(***************************************************************************)
EXTENDS Integers

CONSTANTS
  Payload,    \* payloads
  NoPayload,  \* content of a gap
  SeqCount,   \* range of the packet numbers
  Size,       \* places of the window
  Horizon,    \* places beyond the first gap that accept a packet
  NoPacket    \* value of out before the first delivery

VARIABLES
  window,  \* place -> payload or gap
  ready,   \* packets the application can read
  base,    \* number of the packet at place 0
  out      \* the packet delivered last

vars == <<window, ready, base, out>>

Places == 0 .. Size - 1
Ready == Size - Horizon - 1

\* The packets that are ready in a window: up to the first gap, at most Ready.
Settled(w) == CHOOSE n \in 0 .. Ready :
                /\ \A k \in 0 .. n - 1 : w[k] # NoPayload
                /\ n = Ready \/ w[n] = NoPayload

Init ==
  /\ window = [k \in Places |-> NoPayload]
  /\ ready = 0
  /\ base = 0
  /\ out = NoPacket

Accept ==
  /\ \E k \in ready .. ready + Horizon, p \in Payload :
       /\ window[k] = NoPayload
       /\ window' = [window EXCEPT ![k] = p]
  /\ ready' = Settled(window')
  /\ UNCHANGED <<base, out>>

Deliver ==
  /\ ready > 0
  /\ out' = [sequence |-> base, payload |-> window[0]]
  /\ window' = [k \in Places |-> IF k + 1 \in Places THEN window[k + 1] ELSE NoPayload]
  /\ ready' = Settled(window')
  /\ base' = (base + 1) % SeqCount

Wipe ==
  /\ window' = [k \in Places |-> NoPayload]
  /\ ready' = 0
  /\ base' \in 0 .. SeqCount - 1
  /\ UNCHANGED out

Next == Accept \/ Deliver \/ Wipe

Spec == Init /\ [][Next]_vars
=============================================================================
