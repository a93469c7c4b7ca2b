------------------------------ MODULE SendQueue ------------------------------
(***************************************************************************)
(* What a send ring promises: a queue of unacknowledged packets.  The      *)
(* packet at place i is numbered base + i - 1.  Packets are transmitted    *)
(* for the first time in the order in which they were pushed, any packet   *)
(* that was transmitted may be transmitted again under the same number and *)
(* with the same payload, and acknowledging removes transmitted packets    *)
(* from the front only.                                                    *)
(***************************************************************************)
EXTENDS Integers, Sequences

CONSTANTS
  Payload,   \* payloads
  SeqCount,    \* range of the packet numbers
  Capacity,  \* packets the queue can hold
  NoPacket   \* value of out before the first transmission

VARIABLES
  queue,  \* unacknowledged payloads, oldest first
  sent,   \* how many of them were transmitted
  base,   \* number of the oldest
  out     \* the packet transmitted last

vars == <<queue, sent, base, out>>

Packet(i) == [sequence |-> (base + i - 1) % SeqCount, payload |-> queue[i]]

Init ==
  /\ queue = <<>>
  /\ sent = 0
  /\ base = 0
  /\ out = NoPacket

Push ==
  /\ Len(queue) < Capacity
  /\ \E p \in Payload : queue' = Append(queue, p)
  /\ UNCHANGED <<sent, base, out>>

Transmit ==
  /\ sent < Len(queue)
  /\ out' = Packet(sent + 1)
  /\ sent' = sent + 1
  /\ UNCHANGED <<queue, base>>

Retransmit ==
  /\ \E i \in 1 .. sent : out' = Packet(i)
  /\ UNCHANGED <<queue, sent, base>>

Acknowledge ==
  /\ \E n \in 1 .. sent :
       /\ queue' = SubSeq(queue, n + 1, Len(queue))
       /\ sent' = sent - n
       /\ base' = (base + n) % SeqCount
  /\ UNCHANGED out

Wipe ==
  /\ queue' = <<>>
  /\ sent' = 0
  /\ base' \in 0 .. SeqCount - 1
  /\ UNCHANGED out

Next == Push \/ Transmit \/ Retransmit \/ Acknowledge \/ Wipe

Spec == Init /\ [][Next]_vars
=============================================================================
