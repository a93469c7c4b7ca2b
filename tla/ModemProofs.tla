----------------------------- MODULE ModemProofs -----------------------------
(***************************************************************************)
(* Proofs about the modem of one end, for any number of channels and any   *)
(* bounds.                                                                 *)
(***************************************************************************)
EXTENDS Modem, Integers, TLAPS, WellFoundedInduction, SequenceTheorems

-----------------------------------------------------------------------------
(* The round robin. *)

\* How many channels come before this one in the round robin.
Ahead(vc) == IF vc >= start THEN vc - start ELSE vc - start + NumVC

\* Each frame made while a channel waits has brought it one turn nearer.
TurnInv ==
  /\ start \in VC
  /\ waited \in [VC -> Nat]
  /\ \A vc \in VC : waited[vc] + Ahead(vc) < NumVC

\* The channels are numbered by turns.
LEMMA Turns ==
  ASSUME start \in VC, NEW i \in VC
  PROVE  /\ Turn(i) = IF start + i < NumVC THEN start + i ELSE start + i - NumVC
         /\ Turn(i) \in VC /\ Ahead(Turn(i)) = i
<1> DEFINE x == start + i
<1>1. NumVC \in Nat \ {0} /\ start \in Nat /\ i \in Nat /\ x \in Nat /\ x < 2 * NumVC
  BY ModemAssumption DEF VC
<1> HIDE DEF x
<1>2. x % NumVC = IF x < NumVC THEN x ELSE x - NumVC
  BY <1>1
<1> QED BY <1>1, <1>2 DEF x, Turn, Ahead, VC

\* A channel comes in the turn that is its distance from the start.
LEMMA TurnOf ==
  ASSUME start \in VC, NEW vc \in VC
  PROVE  Ahead(vc) \in VC /\ Turn(Ahead(vc)) = vc
<1>1. NumVC \in Nat \ {0} /\ start \in Int /\ vc \in Int
  BY ModemAssumption DEF VC
<1>2. Ahead(vc) \in VC
  BY <1>1 DEF VC, Ahead
<1> QED BY <1>1, <1>2, Turns DEF VC, Ahead

\* The next start is one turn on.
LEMMA NextTurn ==
  ASSUME start \in VC, NEW served, start' = _sky_tx_advance_vc_round_robin(served)
  PROVE  /\ start' \in VC
         /\ \A vc \in VC : Ahead(vc)' = IF Ahead(vc) = 0 THEN NumVC - 1 ELSE Ahead(vc) - 1
<1>1. NumVC \in Nat \ {0} /\ start \in Int /\ 0 <= start /\ start < NumVC
  BY ModemAssumption DEF VC
<1>2. start' = IF start + 1 < NumVC THEN start + 1 ELSE 0
  BY <1>1 DEF _sky_tx_advance_vc_round_robin
<1> QED BY <1>1, <1>2 DEF VC, Ahead

\* A frame brings every channel that waits nearer to its turn.
LEMMA TransmitTurns ==
  ASSUME TurnInv, NEW timeouts, NEW extra, NEW without, Transmit(timeouts, extra, without)
  PROVE  TurnInv'
<1> DEFINE channels == TimedOut(timeouts)
           wants == need \cup extra \cup {vc \in VC : HasPayload(channels[vc])}
<1>1. PICK served \in VC :
        /\ Picks(wants, served)
        /\ start' = _sky_tx_advance_vc_round_robin(served)
        /\ waited' = Waiting(channels, served)
  BY DEF Transmit
<1>2. NumVC \in Nat \ {0} /\ VC \subseteq Int
  BY ModemAssumption DEF VC
<1>3. start \in VC /\ waited \in [VC -> Nat]
  BY DEF TurnInv
<1>4. ASSUME NEW vc \in VC, vc # served, vc \in need \/ HasPayload(channels[vc])
      PROVE  Ahead(vc) > 0
  <2>1. vc \in wants
    BY <1>4
  <2>2. PICK i \in VC : served = Turn(i) /\ \A j \in 0 .. i - 1 : Turn(j) \notin wants
    BY <1>1, <2>1 DEF Picks
  <2>3. Ahead(vc) \in VC /\ Turn(Ahead(vc)) = vc
    BY <1>3, TurnOf
  <2> HIDE DEF wants
  <2>4. ~(Ahead(vc) \in 0 .. i - 1) /\ Ahead(vc) # i
    BY <2>1, <2>2, <2>3, <1>4
  <2> QED BY <2>3, <2>4, <1>2 DEF VC
<1> HIDE DEF channels, wants
<1>5. waited' = [vc \in VC |-> IF vc # served /\ (vc \in need \/ HasPayload(channels[vc]))
                               THEN waited[vc] + 1 ELSE 0]
  BY <1>1 DEF Waiting
<1>6. start' \in VC /\ \A vc \in VC : Ahead(vc)' = IF Ahead(vc) = 0 THEN NumVC - 1 ELSE Ahead(vc) - 1
  BY <1>1, <1>3, NextTurn
<1>7. waited' \in [VC -> Nat]
  BY <1>3, <1>5
<1>8. ASSUME NEW vc \in VC
      PROVE  (waited[vc] + Ahead(vc) < NumVC)'
  <2>1. Ahead(vc) \in Nat /\ Ahead(vc) < NumVC /\ waited[vc] \in Nat /\ waited[vc] + Ahead(vc) < NumVC
    <3>1. Ahead(vc) \in VC
      BY <1>3, TurnOf
    <3> QED BY <3>1, <1>2, <1>3 DEF TurnInv, VC
  <2>2. CASE vc # served /\ (vc \in need \/ HasPayload(channels[vc]))
    <3>1. waited'[vc] = waited[vc] + 1 /\ Ahead(vc)' = Ahead(vc) - 1
      BY <1>4, <1>5, <1>6, <2>1, <2>2
    <3> QED BY <2>1, <3>1, <1>2
  <2>3. CASE ~(vc # served /\ (vc \in need \/ HasPayload(channels[vc])))
    <3>1. waited'[vc] = 0 /\ Ahead(vc)' \in Nat /\ Ahead(vc)' < NumVC
      BY <1>5, <1>6, <2>1, <2>3, <1>2
    <3> QED BY <3>1, <1>2
  <2> QED BY <2>2, <2>3
<1> QED BY <1>6, <1>7, <1>8 DEF TurnInv

\* Every step keeps the channels in turn.
LEMMA StepTurns ==
  ASSUME TurnInv, [Next]_vars
  PROVE  TurnInv'
<1>0. NumVC \in Nat \ {0} /\ VC \subseteq Int /\ start \in VC /\ waited \in [VC -> Nat]
  BY ModemAssumption DEF VC, TurnInv
<1>1. ASSUME start' = start, waited' \in [VC -> Nat], \A vc \in VC : waited'[vc] <= waited[vc]
      PROVE  TurnInv'
  <2>1. ASSUME NEW vc \in VC PROVE (waited[vc] + Ahead(vc) < NumVC)'
    <3>1. Ahead(vc)' = Ahead(vc) /\ Ahead(vc) \in Int
      BY <1>0, <1>1 DEF Ahead
    <3>2. waited'[vc] \in Int /\ waited[vc] \in Int /\ waited'[vc] <= waited[vc]
      BY <1>0, <1>1
    <3>3. waited[vc] + Ahead(vc) < NumVC
      BY DEF TurnInv
    <3> QED BY <3>1, <3>2, <3>3, <1>0
  <2> QED BY <1>0, <1>1, <2>1 DEF TurnInv
<1>2. CASE UNCHANGED <<start, waited>>
  BY <1>0, <1>1, <1>2
<1>3. CASE SkyTx
  <2>1. ASSUME NEW timeouts, TransmitNothing(timeouts)
        PROVE  TurnInv'
    BY <1>0, <1>1, <2>1 DEF TransmitNothing
  <2> QED BY <1>3, <2>1, TransmitTurns DEF SkyTx
<1>4. ASSUME NEW vc \in VC, NEW identifier, ReceiveHandshake(vc, identifier)
      PROVE  TurnInv'
  BY <1>0, <1>1, <1>4 DEF ReceiveHandshake
<1>5. Next => UNCHANGED <<start, waited>> \/ SkyTx
              \/ \E vc \in VC : \E identifier : ReceiveHandshake(vc, identifier)
  BY DEF Next, Tick, Callback, Post, ReceivePayload, ReceiveAcknowledge, ReceiveRefused
<1> QED BY <1>2, <1>3, <1>4, <1>5 DEF vars

\* A channel with something to send is served within one round of the round robin
\* of sky_tx, for any number of channels (ServedInTurn).
THEOREM ServedCorrect == Spec => []ServedInTurn
<1>1. Init => TurnInv
  BY ModemAssumption DEF Init, TurnInv, Ahead, VC
<1>2. TurnInv /\ [Next]_vars => TurnInv'
  BY StepTurns
<1>3. TurnInv => ServedInTurn
  <2> SUFFICES ASSUME TurnInv, NEW vc \in VC PROVE waited[vc] < NumVC
    BY DEF ServedInTurn
  <2>1. NumVC \in Int /\ waited[vc] \in Int /\ waited[vc] + Ahead(vc) < NumVC
    BY ModemAssumption DEF TurnInv
  <2>2. Ahead(vc) \in Nat
    BY TurnOf DEF TurnInv, VC
  <2> QED BY <2>1, <2>2
<1> QED BY <1>1, <1>2, <1>3, PTL DEF Spec

-----------------------------------------------------------------------------
(* Induction. *)

\* A set of numbers that is not empty has a least element.
LEMMA Least ==
  ASSUME NEW S, S \subseteq Nat, S # {}
  PROVE  \E n \in S : \A k \in S : n <= k
<1> DEFINE R == OpToRel(<, Nat)
<1>1. PICK x \in S : \A y \in S : ~(<<y, x>> \in R)
  BY NatLessThanWellFounded, WFMin
<1>2. \A y \in S : y < x => <<y, x>> \in R
  BY DEF OpToRel
<1>3. \A y \in S : ~(y < x)
  BY <1>1, <1>2, Zenon
<1> HIDE DEF R
<1>4. \A y \in S : x <= y
  BY <1>3, SMT
<1> QED BY <1>4

\* Induction up to a bound, on a set.
LEMMA UpTo ==
  ASSUME NEW N \in Nat, NEW S, 0 \in S, \A n \in 1 .. N : n - 1 \in S => n \in S
  PROVE  \A n \in 0 .. N : n \in S
<1> SUFFICES ASSUME {n \in 0 .. N : n \notin S} # {} PROVE FALSE
  OBVIOUS
<1>1. PICK n \in 0 .. N : n \notin S /\ \A k \in 0 .. N : k \notin S => n <= k
  <2> DEFINE T == {n \in 0 .. N : n \notin S}
  <2>1. T \subseteq Nat /\ T # {}
    OBVIOUS
  <2> HIDE DEF T
  <2>2. PICK n \in T : \A k \in T : n <= k
    BY <2>1, Least
  <2> QED BY <2>2 DEF T
<1>2. n \in 1 .. N /\ n - 1 \in 0 .. N /\ ~(n <= n - 1)
  BY <1>1
<1>3. n - 1 \in S
  BY <1>1, <1>2
<1> QED BY <1>1, <1>2, <1>3

\* The values that N steps produce, one after the other.
Computed(N, S, s, step) ==
  {f \in [0 .. N -> S] : f[0] = s /\ \A n \in 1 .. N : f[n] = step[n][f[n - 1]]}

\* What is computed from the step before exists.
LEMMA Recursion ==
  ASSUME NEW N \in Nat, NEW S, NEW s \in S, NEW step \in [1 .. N -> [S -> S]]
  PROVE  Computed(N, S, s, step) # {}
<1> DEFINE Computes(f, k) == f[0] = s /\ \A n \in 1 .. k : f[n] = step[n][f[n - 1]]
           T == {k \in 0 .. N : \E f \in [0 .. k -> S] : Computes(f, k)}
<1>1. 0 \in T
  <2> DEFINE f == [n \in 0 .. 0 |-> s]
  <2>1. f \in [0 .. 0 -> S] /\ Computes(f, 0)
    OBVIOUS
  <2> HIDE DEF f, Computes
  <2>2. 0 \in 0 .. N
    OBVIOUS
  <2> QED BY <2>1, <2>2
<1>2. ASSUME NEW k \in 1 .. N, k - 1 \in T
      PROVE  k \in T
  <2>1. PICK f \in [0 .. k - 1 -> S] : Computes(f, k - 1)
    BY <1>2
  <2> DEFINE g == [n \in 0 .. k |-> IF n = k THEN step[k][f[k - 1]] ELSE f[n]]
  <2>2. f[k - 1] \in S /\ step[k][f[k - 1]] \in S
    BY <2>1
  <2>3. g \in [0 .. k -> S]
    BY <2>1, <2>2
  <2>4. Computes(g, k)
    <3>1. g[0] = s
      BY <2>1
    <3>2. ASSUME NEW n \in 1 .. k PROVE g[n] = step[n][g[n - 1]]
      <4>1. n - 1 \in 0 .. k - 1 /\ n - 1 # k /\ g[n - 1] = f[n - 1]
        OBVIOUS
      <4>2. CASE n = k
        BY <4>1, <4>2
      <4>3. CASE n # k
        <5>1. n \in 1 .. k - 1
          BY <4>3
        <5> QED BY <2>1, <4>1, <4>3, <5>1
      <4> QED BY <4>2, <4>3
    <3> QED BY <3>1, <3>2
  <2> HIDE DEF g, Computes
  <2>5. k \in 0 .. N
    OBVIOUS
  <2> QED BY <2>3, <2>4, <2>5
<1> HIDE DEF T
<1>3. \A n \in 0 .. N : n \in T
  <2>1. \A n \in 1 .. N : n - 1 \in T => n \in T
    BY <1>2
  <2> QED BY <1>1, <2>1, UpTo
<1>4. N \in T
  BY <1>3
<1>5. PICK f \in [0 .. N -> S] : Computes(f, N)
  BY <1>4 DEF T
<1> QED BY <1>5 DEF Computed

-----------------------------------------------------------------------------
(* The messages that wait, over all sockets. *)

\* The sum of a function on the channels.
Sums(f) == CHOOSE t : t = [n \in 0 .. NumVC |-> IF n = 0 THEN 0 ELSE t[n - 1] + f[n - 1]]
Total(f) == Sums(f)[NumVC]

\* The sums exist.
LEMMA SumsOf ==
  ASSUME NEW f \in [VC -> Nat]
  PROVE  /\ Sums(f) \in [0 .. NumVC -> Nat]
         /\ Sums(f)[0] = 0
         /\ \A n \in 1 .. NumVC : Sums(f)[n] = Sums(f)[n - 1] + f[n - 1]
<1> DEFINE step == [n \in 1 .. NumVC |-> [x \in Nat |-> x + f[n - 1]]]
<1>0. NumVC \in Nat \ {0}
  BY ModemAssumption
<1>1. \A n \in 1 .. NumVC : n - 1 \in VC /\ f[n - 1] \in Nat
  BY <1>0 DEF VC
<1>2. step \in [1 .. NumVC -> [Nat -> Nat]]
  BY <1>1
<1>3. \A n \in 1 .. NumVC, x \in Nat : step[n][x] = x + f[n - 1]
  OBVIOUS
<1> HIDE DEF step
<1>4. PICK t \in [0 .. NumVC -> Nat] : t[0] = 0 /\ \A n \in 1 .. NumVC : t[n] = step[n][t[n - 1]]
  <2> DEFINE S == Nat
             zero == 0
  <2>1. step \in [1 .. NumVC -> [S -> S]] /\ zero \in S /\ NumVC \in Nat
    BY <1>0, <1>2
  <2> HIDE DEF S, zero
  <2>2. Computed(NumVC, S, zero, step) # {}
    BY <2>1, Recursion
  <2> QED BY <2>2 DEF Computed, S, zero
<1>5. ASSUME NEW n \in 1 .. NumVC PROVE t[n] = t[n - 1] + f[n - 1]
  <2>1. n - 1 \in 0 .. NumVC /\ t[n - 1] \in Nat
    BY <1>0
  <2> QED BY <1>3, <1>4, <2>1
<1>6. t = [n \in 0 .. NumVC |-> IF n = 0 THEN 0 ELSE t[n - 1] + f[n - 1]]
  BY <1>0, <1>4, <1>5
<1>7. Sums(f) = [n \in 0 .. NumVC |-> IF n = 0 THEN 0 ELSE Sums(f)[n - 1] + f[n - 1]]
  BY <1>6 DEF Sums
<1> DEFINE u == Sums(f)
<1> HIDE DEF u
<1>8. u[0] = 0 /\ \A n \in 1 .. NumVC : u[n] = u[n - 1] + f[n - 1]
  <2>1. u = [n \in 0 .. NumVC |-> IF n = 0 THEN 0 ELSE u[n - 1] + f[n - 1]]
    BY <1>7 DEF u
  <2>2. \A n \in 0 .. NumVC : u[n] = IF n = 0 THEN 0 ELSE u[n - 1] + f[n - 1]
    BY <2>1
  <2> QED BY <1>0, <2>2
<1> DEFINE T == {n \in 0 .. NumVC : u[n] \in Nat}
<1>9. 0 \in T /\ \A n \in 1 .. NumVC : n - 1 \in T => n \in T
  BY <1>0, <1>1, <1>8
<1>10. \A n \in 0 .. NumVC : n \in T
  <2> HIDE DEF T
  <2> QED BY <1>0, <1>9, UpTo
<1>11. u \in [0 .. NumVC -> Nat]
  BY <1>7, <1>10 DEF u
<1> QED BY <1>8, <1>11 DEF u

\* A change of one summand changes the sum.
LEMMA TotalChanges ==
  ASSUME NEW f \in [VC -> Nat], NEW g \in [VC -> Nat], NEW vc \in VC,
         \A c \in VC : c # vc => g[c] = f[c]
  PROVE  /\ Total(f) \in Nat /\ Total(g) \in Nat
         /\ Total(g) - g[vc] = Total(f) - f[vc]
<1> DEFINE t == Sums(f)
           u == Sums(g)
<1>0. NumVC \in Nat \ {0} /\ vc \in Int /\ 0 <= vc /\ vc < NumVC
  BY ModemAssumption DEF VC
<1>1. /\ t \in [0 .. NumVC -> Nat] /\ t[0] = 0
      /\ \A n \in 1 .. NumVC : t[n] = t[n - 1] + f[n - 1]
  BY SumsOf
<1>2. /\ u \in [0 .. NumVC -> Nat] /\ u[0] = 0
      /\ \A n \in 1 .. NumVC : u[n] = u[n - 1] + g[n - 1]
  BY SumsOf
<1> HIDE DEF t, u
<1> DEFINE T == {n \in 0 .. NumVC : u[n] - t[n] = IF n <= vc THEN 0 ELSE g[vc] - f[vc]}
<1>3. 0 \in T
  BY <1>0, <1>1, <1>2
<1>4. ASSUME NEW n \in 1 .. NumVC, n - 1 \in T
      PROVE  n \in T
  <2>1. n - 1 \in VC /\ f[n - 1] \in Int /\ g[n - 1] \in Int
    BY <1>0 DEF VC
  <2>2. u[n - 1] \in Int /\ t[n - 1] \in Int /\ u[n] = u[n - 1] + g[n - 1] /\ t[n] = t[n - 1] + f[n - 1]
    BY <1>0, <1>1, <1>2
  <2>3. n - 1 # vc => g[n - 1] = f[n - 1]
    BY <2>1
  <2> QED BY <1>0, <1>4, <2>1, <2>2, <2>3
<1>5. NumVC \in T
  <2> HIDE DEF T
  <2> QED BY <1>0, <1>3, <1>4, UpTo
<1>6. u[NumVC] - t[NumVC] = g[vc] - f[vc]
  BY <1>0, <1>5
<1>7. Total(f) = t[NumVC] /\ Total(g) = u[NumVC]
  BY DEF Total, t, u
<1>8. t[NumVC] \in Nat /\ u[NumVC] \in Nat /\ f[vc] \in Nat /\ g[vc] \in Nat
  BY <1>0, <1>1, <1>2
<1> QED BY <1>6, <1>7, <1>8

\* A summand is no more than the sum.
LEMMA TotalCovers ==
  ASSUME NEW f \in [VC -> Nat], NEW vc \in VC
  PROVE  f[vc] <= Total(f)
<1> DEFINE g == [f EXCEPT ![vc] = 0]
<1>1. g \in [VC -> Nat] /\ g[vc] = 0 /\ \A c \in VC : c # vc => g[c] = f[c]
  OBVIOUS
<1> HIDE DEF g
<1>2. Total(f) \in Nat /\ Total(g) \in Nat /\ Total(g) - g[vc] = Total(f) - f[vc]
  BY <1>1, TotalChanges
<1> QED BY <1>1, <1>2

-----------------------------------------------------------------------------
(* The order of packets. *)

\* A message carries a packet.
IsData(message) == "data" \in DOMAIN message

\* A message is a packet for a channel or a command.
LEMMA MessageKinds ==
  ASSUME NEW message \in Message
  PROVE  /\ IsData(message) => message.data \in Packet /\ message.vc \in VC
         /\ ~IsData(message) => message.cmd \in Commands
<1>1. CASE message \in [cmd : Commands]
  <2>1. message.cmd \in Commands /\ DOMAIN message = {"cmd"}
    BY <1>1
  <2> QED BY <2>1 DEF IsData
<1>2. CASE message \in [data : Packet, vc : VC]
  <2>1. message.data \in Packet /\ message.vc \in VC /\ DOMAIN message = {"data", "vc"}
    BY <1>2
  <2> QED BY <2>1 DEF IsData
<1> QED BY <1>1, <1>2 DEF Message

\* The queues of packets and of messages, the newest numbers sent and the number
\* of messages posted, that agree on the order in which packets were posted: queued
\* are packets newer than those sent, in order; in a socket are packets of its own,
\* newer than those queued or sent anywhere, in order.
QueueOrdered(q, sent, count) ==
  \A i \in 1 .. Len(q) :
    /\ sent[q[i].from] < q[i].number /\ q[i].number <= count
    /\ \A j \in 1 .. Len(q) : i < j /\ q[i].from = q[j].from => q[i].number < q[j].number

BoxOrdered(box, socket, qs, sent, count) ==
  \A i \in 1 .. Len(box) : IsData(box[i]) =>
    /\ box[i].data.from = socket /\ box[i].data.number <= count
    /\ \A vc \in VC :
         /\ sent[vc][socket] < box[i].data.number
         /\ \A k \in 1 .. Len(qs[vc]) :
              qs[vc][k].from = socket => qs[vc][k].number < box[i].data.number
    /\ \A j \in 1 .. Len(box) : i < j /\ IsData(box[j]) => box[i].data.number < box[j].data.number

Ordered(qs, boxes, sent, count) ==
  /\ \A vc, from \in VC : sent[vc][from] <= count
  /\ \A vc \in VC : QueueOrdered(qs[vc], sent[vc], count)
  /\ \A vc \in VC : BoxOrdered(boxes[vc], vc, qs, sent, count)

Queues == [VC -> Seq(Packet)]
Boxes == [VC -> Seq(Message)]
Numbers == [VC -> [VC -> Nat]]

\* What a socket's elements are.
LEMMA BoxElement ==
  ASSUME NEW box \in Seq(Message), NEW i \in 1 .. Len(box), IsData(box[i])
  PROVE  box[i].data.from \in VC /\ box[i].data.number \in Nat /\ box[i].vc \in VC
<1>1. box[i] \in Message
  OBVIOUS
<1>2. box[i].data \in Packet /\ box[i].vc \in VC
  BY <1>1, MessageKinds
<1> QED BY <1>2, ModemAssumption DEF Packet, Posts

\* What a queue's elements are.
LEMMA QueueElement ==
  ASSUME NEW q \in Seq(Packet), NEW i \in 1 .. Len(q)
  PROVE  q[i].from \in VC /\ q[i].number \in Nat
<1>1. q[i] \in Packet
  OBVIOUS
<1> QED BY <1>1, ModemAssumption DEF Packet, Posts

\* Wiping queues and taking messages out of sockets keeps the order.
LEMMA OrderedLess ==
  ASSUME NEW qs \in Queues, NEW boxes \in Boxes, NEW sent \in Numbers, NEW count \in Nat,
         NEW qs2 \in Queues, NEW boxes2 \in Boxes, Ordered(qs, boxes, sent, count),
         \A vc \in VC : qs2[vc] = qs[vc] \/ qs2[vc] = <<>>,
         \A vc \in VC : \/ boxes2[vc] = boxes[vc]
                        \/ boxes[vc] # <<>> /\ boxes2[vc] = Tail(boxes[vc])
  PROVE  Ordered(qs2, boxes2, sent, count)
<1>1. \A vc \in VC : QueueOrdered(qs2[vc], sent[vc], count)
  BY DEF Ordered, QueueOrdered, Queues
<1>2. ASSUME NEW vc \in VC PROVE BoxOrdered(boxes[vc], vc, qs2, sent, count)
  <2>1. BoxOrdered(boxes[vc], vc, qs, sent, count)
    BY DEF Ordered
  <2>2. ASSUME NEW to \in VC, NEW k \in 1 .. Len(qs2[to])
        PROVE  k \in 1 .. Len(qs[to]) /\ qs2[to][k] = qs[to][k]
    BY <2>2 DEF Queues
  <2> QED BY <2>1, <2>2 DEF BoxOrdered
<1>3. ASSUME NEW vc \in VC PROVE BoxOrdered(boxes2[vc], vc, qs2, sent, count)
  <2>1. CASE boxes2[vc] = boxes[vc]
    BY <1>2, <2>1
  <2>2. CASE boxes[vc] # <<>> /\ boxes2[vc] = Tail(boxes[vc])
    <3> DEFINE box == boxes[vc]
               rest == boxes2[vc]
    <3>1. Len(rest) = Len(box) - 1 /\ Len(box) \in Nat
          /\ \A i \in 1 .. Len(rest) : rest[i] = box[i + 1]
      BY <2>2 DEF Boxes
    <3>2. BoxOrdered(box, vc, qs2, sent, count)
      BY <1>2
    <3> HIDE DEF box, rest
    <3>3. \A i \in 1 .. Len(rest) : i + 1 \in 1 .. Len(box) /\ rest[i] = box[i + 1]
      BY <3>1
    <3>4. \A i, j \in 1 .. Len(rest) : i < j => i + 1 < j + 1
      BY <3>1
    <3> QED BY <3>2, <3>3, <3>4 DEF BoxOrdered, rest
  <2> QED BY <2>1, <2>2
<1> QED BY <1>1, <1>3 DEF Ordered

\* A packet that is taken from a socket and queued keeps the order.
LEMMA OrderedPush ==
  ASSUME NEW qs \in Queues, NEW boxes \in Boxes, NEW sent \in Numbers, NEW count \in Nat,
         Ordered(qs, boxes, sent, count), NEW vc \in VC, NEW to \in VC,
         boxes[vc] # <<>>, IsData(Head(boxes[vc]))
  PROVE  Ordered([qs EXCEPT ![to] = Append(@, Head(boxes[vc]).data)],
                 [boxes EXCEPT ![vc] = Tail(@)], sent, count)
<1> DEFINE box == boxes[vc]
           packet == Head(box).data
           q == qs[to]
           qs2 == [qs EXCEPT ![to] = Append(@, packet)]
           boxes2 == [boxes EXCEPT ![vc] = Tail(@)]
<1>1. box \in Seq(Message) /\ q \in Seq(Packet) /\ Len(box) \in Nat \ {0} /\ Len(q) \in Nat
  BY DEF Boxes, Queues
<1>2. Head(box) = box[1] /\ 1 \in 1 .. Len(box)
  BY <1>1
<1>3. packet.from = vc /\ packet.number \in Nat /\ packet.number <= count /\ packet \in Packet
  <2>1. BoxOrdered(box, vc, qs, sent, count)
    BY DEF Ordered
  <2>2. box[1] \in Message
    BY <1>1, <1>2
  <2> QED BY <1>1, <1>2, <2>1, <2>2, BoxElement, MessageKinds DEF BoxOrdered
<1>4. /\ \A c \in VC : sent[c][vc] < packet.number
      /\ \A c \in VC : \A k \in 1 .. Len(qs[c]) : qs[c][k].from = vc => qs[c][k].number < packet.number
      /\ \A j \in 2 .. Len(box) : IsData(box[j]) => packet.number < box[j].data.number
  <2>1. BoxOrdered(box, vc, qs, sent, count)
    BY DEF Ordered
  <2> QED BY <1>1, <1>2, <2>1 DEF BoxOrdered
<1>5. qs2 \in Queues /\ boxes2 \in Boxes /\ qs2[to] = Append(q, packet) /\ boxes2[vc] = Tail(box)
      /\ (\A c \in VC : c # to => qs2[c] = qs[c]) /\ (\A c \in VC : c # vc => boxes2[c] = boxes[c])
  BY <1>1, <1>3 DEF Queues, Boxes
<1>6. Len(qs2[to]) = Len(q) + 1 /\ qs2[to][Len(q) + 1] = packet
      /\ \A i \in 1 .. Len(q) : qs2[to][i] = q[i]
  BY <1>1, <1>5, <1>3
<1>7. Len(boxes2[vc]) = Len(box) - 1 /\ \A i \in 1 .. Len(box) - 1 : boxes2[vc][i] = box[i + 1]
  <2> HIDE DEF box, boxes2, qs2
  <2>1. Len(Tail(box)) = Len(box) - 1 /\ \A i \in 1 .. Len(box) - 1 : Tail(box)[i] = box[i + 1]
    BY <1>1
  <2> QED BY <1>5, <2>1
<1> HIDE DEF qs2, boxes2
<1>8. ASSUME NEW c \in VC PROVE QueueOrdered(qs2[c], sent[c], count)
  <2>1. QueueOrdered(qs[c], sent[c], count)
    BY DEF Ordered
  <2>2. CASE c # to
    BY <1>5, <2>1, <2>2
  <2>3. CASE c = to
    <3> SUFFICES ASSUME NEW i \in 1 .. Len(q) + 1
                 PROVE  /\ sent[to][qs2[to][i].from] < qs2[to][i].number
                        /\ qs2[to][i].number <= count
                        /\ \A j \in 1 .. Len(q) + 1 :
                             i < j /\ qs2[to][i].from = qs2[to][j].from
                               => qs2[to][i].number < qs2[to][j].number
      BY <1>6, <2>3 DEF QueueOrdered
    <3>1. CASE i = Len(q) + 1
      <4>1. \A j \in 1 .. Len(q) + 1 : ~(i < j)
        BY <1>1, <3>1
      <4> HIDE DEF packet, q, box
      <4> QED BY <1>1, <1>3, <1>4, <1>6, <3>1, <4>1
    <3>2. CASE i \in 1 .. Len(q)
      <4> HIDE DEF packet, box
      <4>1. sent[to][q[i].from] < q[i].number /\ q[i].number <= count
        BY <2>1, <2>3, <3>2 DEF QueueOrdered
      <4>2. ASSUME NEW j \in 1 .. Len(q) + 1, i < j, qs2[to][i].from = qs2[to][j].from
            PROVE  qs2[to][i].number < qs2[to][j].number
        <5>1. CASE j \in 1 .. Len(q)
          BY <2>1, <2>3, <3>2, <4>2, <5>1, <1>6 DEF QueueOrdered
        <5>2. CASE j = Len(q) + 1
          BY <1>3, <1>4, <1>6, <3>2, <4>2, <5>2
        <5> QED BY <1>1, <5>1, <5>2
      <4> QED BY <1>6, <3>2, <4>1, <4>2
    <3> QED BY <1>1, <3>1, <3>2
  <2> QED BY <2>2, <2>3
<1>9. ASSUME NEW c \in VC PROVE BoxOrdered(boxes2[c], c, qs2, sent, count)
  <2>1. BoxOrdered(boxes[c], c, qs, sent, count)
    BY DEF Ordered
  <2> DEFINE Shift == IF c = vc THEN 1 ELSE 0
  <2>2. ASSUME NEW i \in 1 .. Len(boxes2[c])
        PROVE  i + Shift \in 1 .. Len(boxes[c]) /\ boxes2[c][i] = boxes[c][i + Shift]
               /\ (c = vc => i + Shift \in 2 .. Len(box))
    <3>1. CASE c = vc
      <4>1. i \in 1 .. Len(box) - 1 /\ boxes2[c][i] = box[i + 1]
        BY <1>7, <2>2, <3>1
      <4> QED BY <1>1, <3>1, <4>1
    <3>2. CASE c # vc
      <4>1. boxes2[c] = boxes[c] /\ Shift = 0 /\ i + 0 = i
        BY <1>5, <3>2
      <4> QED BY <2>2, <3>2, <4>1
    <3> QED BY <3>1, <3>2
  <2> SUFFICES ASSUME NEW i \in 1 .. Len(boxes2[c]), IsData(boxes2[c][i])
               PROVE  /\ boxes2[c][i].data.from = c /\ boxes2[c][i].data.number <= count
                      /\ \A d \in VC :
                           /\ sent[d][c] < boxes2[c][i].data.number
                           /\ \A k \in 1 .. Len(qs2[d]) :
                                qs2[d][k].from = c => qs2[d][k].number < boxes2[c][i].data.number
                      /\ \A j \in 1 .. Len(boxes2[c]) : i < j /\ IsData(boxes2[c][j])
                           => boxes2[c][i].data.number < boxes2[c][j].data.number
    BY DEF BoxOrdered
  <2>3. /\ boxes2[c][i].data.from = c /\ boxes2[c][i].data.number <= count
        /\ \A d \in VC :
             /\ sent[d][c] < boxes2[c][i].data.number
             /\ \A k \in 1 .. Len(qs[d]) :
                  qs[d][k].from = c => qs[d][k].number < boxes2[c][i].data.number
    <3> HIDE DEF Shift
    <3> QED BY <2>1, <2>2 DEF BoxOrdered
  <2>4. \A j \in 1 .. Len(boxes2[c]) : i < j /\ IsData(boxes2[c][j])
           => boxes2[c][i].data.number < boxes2[c][j].data.number
    <3>1. \A j \in 1 .. Len(boxes2[c]) : i < j => i + Shift < j + Shift
      BY <1>5 DEF Boxes
    <3> HIDE DEF Shift
    <3> QED BY <2>1, <2>2, <3>1 DEF BoxOrdered
  <2>5. ASSUME NEW d \in VC, NEW k \in 1 .. Len(qs2[d]), qs2[d][k].from = c
        PROVE  qs2[d][k].number < boxes2[c][i].data.number
    <3>1. CASE k \in 1 .. Len(qs[d])
      BY <1>5, <1>6, <2>3, <2>5, <3>1
    <3>2. CASE d = to /\ k = Len(q) + 1
      <4>1. c = vc
        BY <1>3, <1>6, <2>5, <3>2
      <4> QED BY <1>4, <1>6, <2>2, <4>1, <3>2
    <3>3. Len(qs[d]) \in Nat /\ (d = to => Len(qs2[d]) = Len(qs[d]) + 1) /\ (d # to => qs2[d] = qs[d])
      BY <1>1, <1>5, <1>6 DEF Queues
    <3> QED BY <3>1, <3>2, <3>3
  <2> QED BY <2>3, <2>4, <2>5
<1>10. \A c, from \in VC : sent[c][from] <= count
  BY DEF Ordered
<1> QED BY <1>8, <1>9, <1>10 DEF Ordered, qs2, boxes2

\* A packet that is posted keeps the order, and so does a command.
LEMMA OrderedPost ==
  ASSUME NEW qs \in Queues, NEW boxes \in Boxes, NEW sent \in Numbers, NEW count \in Nat,
         Ordered(qs, boxes, sent, count), NEW vc \in VC, NEW message \in Message,
         IsData(message) => message.data.from = vc /\ message.data.number = count + 1
  PROVE  Ordered(qs, [boxes EXCEPT ![vc] = Append(@, message)], sent, count + 1)
<1> DEFINE boxes2 == [boxes EXCEPT ![vc] = Append(@, message)]
<1>1. \A c, from \in VC : sent[c][from] \in Nat /\ sent[c][from] <= count /\ sent[c][from] <= count + 1
  BY DEF Numbers, Ordered
<1>2. ASSUME NEW c \in VC
      PROVE  /\ QueueOrdered(qs[c], sent[c], count + 1)
             /\ \A i \in 1 .. Len(qs[c]) : qs[c][i].number < count + 1
  <2>1. QueueOrdered(qs[c], sent[c], count)
    BY DEF Ordered
  <2>2. \A i \in 1 .. Len(qs[c]) : qs[c][i].number \in Nat
    BY QueueElement DEF Queues
  <2> QED BY <2>1, <2>2 DEF QueueOrdered
<1>3. ASSUME NEW c \in VC
      PROVE  /\ BoxOrdered(boxes[c], c, qs, sent, count + 1)
             /\ \A i \in 1 .. Len(boxes[c]) : IsData(boxes[c][i]) => boxes[c][i].data.number < count + 1
  <2>1. BoxOrdered(boxes[c], c, qs, sent, count)
    BY DEF Ordered
  <2>2. \A i \in 1 .. Len(boxes[c]) : IsData(boxes[c][i]) => boxes[c][i].data.number \in Nat
    BY BoxElement DEF Boxes
  <2> QED BY <2>1, <2>2 DEF BoxOrdered
<1>4. ASSUME NEW c \in VC PROVE BoxOrdered(boxes2[c], c, qs, sent, count + 1)
  <2>1. CASE c # vc
    BY <1>3, <2>1 DEF Boxes
  <2>2. CASE c = vc
    <3> DEFINE box == boxes[vc]
               box2 == boxes2[vc]
    <3>1. box \in Seq(Message) /\ Len(box) \in Nat /\ box2 = Append(box, message)
      BY DEF Boxes
    <3> HIDE DEF box, box2, boxes2
    <3>2. Len(box2) = Len(box) + 1 /\ box2[Len(box) + 1] = message
          /\ \A i \in 1 .. Len(box) : box2[i] = box[i]
      BY <3>1
    <3>3. /\ BoxOrdered(box, vc, qs, sent, count + 1)
          /\ \A i \in 1 .. Len(box) : IsData(box[i]) => box[i].data.number < count + 1
      BY <1>3 DEF box
    <3> SUFFICES ASSUME NEW i \in 1 .. Len(box) + 1, IsData(box2[i])
                 PROVE  /\ box2[i].data.from = vc /\ box2[i].data.number <= count + 1
                        /\ \A d \in VC :
                             /\ sent[d][vc] < box2[i].data.number
                             /\ \A k \in 1 .. Len(qs[d]) :
                                  qs[d][k].from = vc => qs[d][k].number < box2[i].data.number
                        /\ \A j \in 1 .. Len(box) + 1 : i < j /\ IsData(box2[j])
                             => box2[i].data.number < box2[j].data.number
      BY <2>2, <3>2 DEF BoxOrdered, box2
    <3>4. CASE i = Len(box) + 1
      <4>1. box2[i] = message /\ message.data.from = vc /\ message.data.number = count + 1
        BY <3>2, <3>4
      <4>2. \A j \in 1 .. Len(box) + 1 : ~(i < j)
        BY <3>1, <3>4
      <4>3. \A d \in VC : sent[d][vc] < count + 1
        BY <1>1
      <4> QED BY <1>2, <4>1, <4>2, <4>3
    <3>5. CASE i \in 1 .. Len(box)
      <4>1. box2[i] = box[i]
        BY <3>2, <3>5
      <4>2. ASSUME NEW j \in 1 .. Len(box) + 1, i < j, IsData(box2[j])
            PROVE  box2[i].data.number < box2[j].data.number
        <5>1. CASE j \in 1 .. Len(box)
          BY <3>2, <3>3, <3>5, <4>1, <4>2, <5>1 DEF BoxOrdered
        <5>2. CASE j = Len(box) + 1
          BY <3>2, <3>3, <3>5, <4>1, <4>2, <5>2
        <5> QED BY <3>1, <5>1, <5>2
      <4> QED BY <3>3, <3>5, <4>1, <4>2 DEF BoxOrdered
    <3>6. i = Len(box) + 1 \/ i \in 1 .. Len(box)
      BY <3>1
    <3> QED BY <3>4, <3>5, <3>6
  <2> QED BY <2>1, <2>2
<1> HIDE DEF boxes2
<1> QED BY <1>1, <1>2, <1>4 DEF Ordered, boxes2

\* A packet that is transmitted is the newest one of its socket on the channel.
LEMMA OrderedSend ==
  ASSUME NEW qs \in Queues, NEW boxes \in Boxes, NEW sent \in Numbers, NEW count \in Nat,
         Ordered(qs, boxes, sent, count), NEW vc \in VC, qs[vc] # <<>>
  PROVE  LET packet == Head(qs[vc])
         IN  /\ Ordered([qs EXCEPT ![vc] = Tail(@)], boxes,
                        [sent EXCEPT ![vc][packet.from] = packet.number], count)
             /\ packet.from \in VC /\ packet.number \in Nat /\ packet.number <= count
<1> DEFINE q == qs[vc]
           packet == Head(q)
           rest == Tail(q)
           qs2 == [qs EXCEPT ![vc] = Tail(@)]
           sent2 == [sent EXCEPT ![vc][packet.from] = packet.number]
<1>1. q \in Seq(Packet) /\ Len(q) \in Nat \ {0} /\ packet = q[1] /\ 1 \in 1 .. Len(q)
  BY DEF Queues
<1>2. packet.from \in VC /\ packet.number \in Nat
  BY <1>1, QueueElement
<1>3. QueueOrdered(q, sent[vc], count)
  BY DEF Ordered
<1>4. packet.number <= count /\ sent[vc][packet.from] < packet.number
      /\ \A j \in 2 .. Len(q) : q[j].from = packet.from => packet.number < q[j].number
  BY <1>1, <1>3 DEF QueueOrdered
<1>5. qs2[vc] = rest /\ \A c \in VC : c # vc => qs2[c] = qs[c]
  BY DEF Queues
<1>6. \A c, from \in VC :
        sent2[c][from] = IF c = vc /\ from = packet.from THEN packet.number ELSE sent[c][from]
  BY <1>2 DEF Numbers
<1> HIDE DEF packet, q, qs2, sent2
<1>7. Len(rest) = Len(q) - 1 /\ \A i \in 1 .. Len(rest) : i + 1 \in 2 .. Len(q) /\ rest[i] = q[i + 1]
  BY <1>1
<1> HIDE DEF rest
<1>8. \A c, from \in VC : sent2[c][from] <= count
  BY <1>4, <1>6 DEF Ordered
<1>9. ASSUME NEW c \in VC PROVE QueueOrdered(qs2[c], sent2[c], count)
  <2>1. QueueOrdered(qs[c], sent[c], count)
    BY DEF Ordered
  <2>2. CASE c # vc
    <3>1. \A i \in 1 .. Len(qs[c]) : qs[c][i].from \in VC
      BY QueueElement DEF Queues
    <3> QED BY <1>5, <1>6, <2>1, <2>2, <3>1 DEF QueueOrdered
  <2>3. CASE c = vc
    <3>1. \A i \in 2 .. Len(q) : i \in 1 .. Len(q) /\ q[i].from \in VC
      BY <1>1, QueueElement
    <3>2. ASSUME NEW i \in 1 .. Len(rest)
          PROVE  sent2[vc][rest[i].from] < rest[i].number /\ rest[i].number <= count
      <4>1. i + 1 \in 2 .. Len(q) /\ rest[i] = q[i + 1]
        BY <1>7
      <4> DEFINE p == q[i + 1]
      <4>2. p.from \in VC /\ i + 1 \in 1 .. Len(q)
        BY <3>1, <4>1
      <4>3. sent[vc][p.from] < p.number /\ p.number <= count
        BY <1>3, <4>2 DEF QueueOrdered
      <4>4. p.from = packet.from => packet.number < p.number
        BY <1>4, <4>1
      <4>5. sent2[vc][p.from] = IF p.from = packet.from THEN packet.number ELSE sent[vc][p.from]
        BY <1>6, <4>2
      <4> HIDE DEF p
      <4>6. sent2[vc][p.from] < p.number
        BY <4>3, <4>4, <4>5
      <4> QED BY <4>1, <4>3, <4>6 DEF p
    <3>3. ASSUME NEW i \in 1 .. Len(rest), NEW j \in 1 .. Len(rest), i < j, rest[i].from = rest[j].from
          PROVE  rest[i].number < rest[j].number
      <4>1. i + 1 < j + 1 /\ i + 1 \in 1 .. Len(q) /\ j + 1 \in 1 .. Len(q)
        BY <1>7, <3>1, <3>3
      <4> QED BY <1>3, <1>7, <3>3, <4>1 DEF QueueOrdered
    <3> QED BY <1>5, <2>3, <3>2, <3>3 DEF QueueOrdered
  <2> QED BY <2>2, <2>3
<1>10. ASSUME NEW c \in VC PROVE BoxOrdered(boxes[c], c, qs2, sent2, count)
  <2>1. BoxOrdered(boxes[c], c, qs, sent, count)
    BY DEF Ordered
  <2>2. ASSUME NEW d \in VC, NEW k \in 1 .. Len(qs2[d])
        PROVE  \E l \in 1 .. Len(qs[d]) : qs2[d][k] = qs[d][l]
    <3>1. CASE d # vc
      BY <1>5, <2>2, <3>1
    <3>2. CASE d = vc
      <4>1. k + 1 \in 1 .. Len(q) /\ qs2[d][k] = q[k + 1]
        BY <1>1, <1>5, <1>7, <2>2, <3>2
      <4> QED BY <3>2, <4>1 DEF q
    <3> QED BY <3>1, <3>2
  <2>3. ASSUME NEW i \in 1 .. Len(boxes[c]), IsData(boxes[c][i])
        PROVE  /\ \A d \in VC : sent2[d][c] < boxes[c][i].data.number
               /\ \A d \in VC : \A k \in 1 .. Len(qs2[d]) :
                    qs2[d][k].from = c => qs2[d][k].number < boxes[c][i].data.number
    <3>1. \A d \in VC : \A l \in 1 .. Len(qs[d]) :
            qs[d][l].from = c => qs[d][l].number < boxes[c][i].data.number
      BY <2>1, <2>3 DEF BoxOrdered
    <3>2. packet.from = c => packet.number < boxes[c][i].data.number
      BY <1>1, <3>1 DEF q
    <3>3. \A d \in VC : sent[d][c] < boxes[c][i].data.number
      BY <2>1, <2>3 DEF BoxOrdered
    <3>4. \A d \in VC : sent2[d][c] < boxes[c][i].data.number
      BY <1>6, <3>2, <3>3
    <3>5. ASSUME NEW d \in VC, NEW k \in 1 .. Len(qs2[d]), qs2[d][k].from = c
          PROVE  qs2[d][k].number < boxes[c][i].data.number
      <4>1. PICK l \in 1 .. Len(qs[d]) : qs2[d][k] = qs[d][l]
        BY <2>2
      <4> QED BY <3>1, <3>5, <4>1
    <3> QED BY <3>4, <3>5
  <2> QED BY <2>1, <2>3 DEF BoxOrdered
<1>11. Ordered(qs2, boxes, sent2, count)
  BY <1>8, <1>9, <1>10 DEF Ordered
<1> QED BY <1>2, <1>4, <1>11 DEF qs2, sent2, packet, q

-----------------------------------------------------------------------------
(* What every state of the modem has in common. *)

ModemState == [vcs : [VC -> Channel], ifc : [VC -> Interface], connects : 0 .. MaxPosts]

QueuesOf(channels) == [vc \in VC |-> channels[vc].sends]
BoxesOf(interfaces) == [vc \in VC |-> interfaces[vc].inbox]
Lengths(interfaces) == [vc \in VC |-> Len(interfaces[vc].inbox)]

\* The rings are not over their slots.
Fits(m) ==
  \A vc \in VC : /\ Len(m.vcs[vc].sends) + m.vcs[vc].held <= SendSlots
                 /\ Len(m.vcs[vc].rcvd) <= RcvSlots

\* A message begins at most one session.
Counted(m) == m.connects + Total(Lengths(m.ifc)) <= posts

\* A session that is being set up has been announced.
Told(m) ==
  \A vc \in VC : m.vcs[vc].arq_state_flag = "IN_INIT" =>
    /\ m.ifc[vc].arq_expected_state = "IN_INIT"
    /\ m.ifc[vc].told = [rsp |-> "arq_connecting", session_identifier |-> m.vcs[vc].identifier]

InOrder(m) == Ordered(QueuesOf(m.vcs), BoxesOf(m.ifc), newest, posts)

Good == {m \in ModemState : Fits(m) /\ Counted(m) /\ Told(m) /\ InOrder(m)}

Current == [vcs |-> vcs, ifc |-> ifc, connects |-> connects]

Counters ==
  /\ posts \in 0 .. MaxPosts /\ arrivals \in 0 .. MaxArrivals
  /\ newest \in [VC -> [VC -> 0 .. MaxPosts]]

Inv ==
  /\ Counters /\ start \in VC /\ need \subseteq VC /\ tick \in BOOLEAN
  /\ Current \in Good

\* What is left of a queue when its head is taken.
LEMMA TailOf ==
  ASSUME NEW S, NEW s \in Seq(S), s # <<>>
  PROVE  /\ Tail(s) \in Seq(S) /\ Len(Tail(s)) = Len(s) - 1 /\ Len(s) \in Nat \ {0}
         /\ Head(s) \in S
OBVIOUS

\* What the queues and the sockets of a state are.
LEMMA Views ==
  ASSUME NEW m \in ModemState, NEW vc \in VC
  PROVE  /\ m.vcs \in [VC -> Channel] /\ m.ifc \in [VC -> Interface] /\ m.connects \in 0 .. MaxPosts
         /\ m.vcs[vc] \in Channel /\ m.vcs[vc].sends \in Seq(Packet) /\ m.vcs[vc].held \in 0 .. SendSlots
         /\ m.vcs[vc].rcvd \in Seq(1 .. MaxArrivals)
         /\ Len(m.vcs[vc].sends) \in Nat /\ Len(m.vcs[vc].rcvd) \in Nat
         /\ m.ifc[vc] \in Interface /\ m.ifc[vc].inbox \in Seq(Message) /\ Len(m.ifc[vc].inbox) \in Nat
<1>1. /\ m.vcs \in [VC -> Channel] /\ m.ifc \in [VC -> Interface] /\ m.connects \in 0 .. MaxPosts
  BY DEF ModemState
<1>2. m.vcs[vc] \in Channel /\ m.ifc[vc] \in Interface
  BY <1>1
<1>3. m.vcs[vc].sends \in Seq(Packet) /\ m.vcs[vc].held \in 0 .. SendSlots
      /\ m.vcs[vc].rcvd \in Seq(1 .. MaxArrivals)
  BY <1>2 DEF Channel
<1>4. m.ifc[vc].inbox \in Seq(Message)
  BY <1>2 DEF Interface
<1>5. Len(m.vcs[vc].sends) \in Nat /\ Len(m.vcs[vc].rcvd) \in Nat /\ Len(m.ifc[vc].inbox) \in Nat
  <2>1. \A S : \A s \in Seq(S) : Len(s) \in Nat
    OBVIOUS
  <2> QED BY <1>3, <1>4, <2>1, Zenon
<1> QED BY <1>1, <1>2, <1>3, <1>4, <1>5

\* So are the functions made of them.
LEMMA ViewTypes ==
  ASSUME NEW m \in ModemState
  PROVE  /\ QueuesOf(m.vcs) \in Queues /\ BoxesOf(m.ifc) \in Boxes
         /\ Lengths(m.ifc) \in [VC -> Nat]
BY Views DEF QueuesOf, BoxesOf, Lengths, Queues, Boxes

\* The numbers are numbers.
LEMMA NumberTypes ==
  ASSUME Counters
  PROVE  newest \in Numbers /\ posts \in Nat
BY ModemAssumption DEF Counters, Numbers

\* What an announcement changes.
LEMMA AnnounceGood ==
  ASSUME NEW m \in Good, NEW vc \in VC
  PROVE  Announce(m, vc) \in Good
<1> DEFINE n == Announce(m, vc)
<1>0. m \in ModemState
  BY DEF Good
<1>1. m.vcs \in [VC -> Channel] /\ m.ifc \in [VC -> Interface] /\ m.ifc[vc] \in Interface
  BY <1>0, Views
<1>2. ASSUME NEW state \in ArqStates, NEW rsp \in {"arq_timeout", "arq_connected"},
             n = Tell([m EXCEPT !.ifc[vc].arq_expected_state = state], vc, rsp),
             m.vcs[vc].arq_state_flag # "IN_INIT"
      PROVE  n \in Good
  <2> DEFINE i == [m.ifc[vc] EXCEPT !.arq_expected_state = state,
                     !.told = [rsp |-> rsp, session_identifier |-> m.ifc[vc].session_identifier]]
  <2>1. i \in Interface /\ i.inbox = m.ifc[vc].inbox
    BY <1>1 DEF Interface
  <2>2. n = [m EXCEPT !.ifc = [m.ifc EXCEPT ![vc] = i]]
    BY <1>0, <1>1, <1>2 DEF Tell, ModemState, Interface
  <2> HIDE DEF i, n
  <2>3. n \in ModemState /\ n.vcs = m.vcs /\ n.connects = m.connects /\ n.ifc[vc] = i
        /\ \A c \in VC : c # vc => n.ifc[c] = m.ifc[c]
    BY <1>0, <2>1, <2>2 DEF ModemState
  <2>4. BoxesOf(n.ifc) = BoxesOf(m.ifc) /\ Lengths(n.ifc) = Lengths(m.ifc)
    BY <2>1, <2>3 DEF BoxesOf, Lengths
  <2>5. Fits(n) /\ Counted(n) /\ InOrder(n)
    BY <2>3, <2>4 DEF Good, Fits, Counted, InOrder
  <2>6. Told(n)
    BY <1>2, <2>3 DEF Good, Told
  <2> QED BY <2>3, <2>5, <2>6 DEF Good
<1> HIDE DEF n
<1>3. \/ n = m
      \/ /\ n = Tell([m EXCEPT !.ifc[vc].arq_expected_state = "OFF"], vc, "arq_timeout")
         /\ m.vcs[vc].arq_state_flag = "OFF"
      \/ /\ n = Tell([m EXCEPT !.ifc[vc].arq_expected_state = "ON"], vc, "arq_connected")
         /\ m.vcs[vc].arq_state_flag = "ON"
  BY DEF Announce, n
<1>4. {"OFF", "ON"} \subseteq ArqStates
  BY DEF ArqStates
<1> QED BY <1>2, <1>3, <1>4 DEF n

\* What reading a packet changes.
LEMMA ReadReceivedGood ==
  ASSUME NEW m \in Good, NEW vc \in VC
  PROVE  ReadReceived(m, vc) \in Good
<1> DEFINE n == ReadReceived(m, vc)
           channel == [m.vcs[vc] EXCEPT !.rcvd = Tail(@)]
<1>0. m \in ModemState
  BY DEF Good
<1>1. m.vcs \in [VC -> Channel] /\ m.vcs[vc] \in Channel /\ m.vcs[vc].rcvd \in Seq(1 .. MaxArrivals)
  BY <1>0, Views
<1>2. CASE m.vcs[vc].rcvd # <<>>
  <2>1. n = [m EXCEPT !.vcs = [m.vcs EXCEPT ![vc] = channel]]
    BY <1>0, <1>1, <1>2 DEF ReadReceived, ModemState
  <2>2. Tail(m.vcs[vc].rcvd) \in Seq(1 .. MaxArrivals)
        /\ Len(Tail(m.vcs[vc].rcvd)) <= Len(m.vcs[vc].rcvd)
    <3> DEFINE s == m.vcs[vc].rcvd
    <3>1. s \in Seq(1 .. MaxArrivals) /\ s # <<>>
      BY <1>1, <1>2
    <3> HIDE DEF s
    <3>2. Tail(s) \in Seq(1 .. MaxArrivals) /\ Len(Tail(s)) <= Len(s)
      BY <3>1, TailOf
    <3> QED BY <3>2 DEF s
  <2>3. channel \in Channel /\ channel.sends = m.vcs[vc].sends /\ channel.held = m.vcs[vc].held
        /\ channel.arq_state_flag = m.vcs[vc].arq_state_flag /\ channel.identifier = m.vcs[vc].identifier
        /\ Len(channel.rcvd) <= Len(m.vcs[vc].rcvd) /\ channel.rcvd \in Seq(1 .. MaxArrivals)
    BY <1>1, <2>2 DEF Channel
  <2> HIDE DEF n, channel
  <2>4. n \in ModemState /\ n.ifc = m.ifc /\ n.connects = m.connects /\ n.vcs[vc] = channel
        /\ \A c \in VC : c # vc => n.vcs[c] = m.vcs[c]
    BY <1>0, <2>1, <2>3 DEF ModemState
  <2>5. QueuesOf(n.vcs) = QueuesOf(m.vcs)
    BY <2>3, <2>4 DEF QueuesOf
  <2>6. Told(n) /\ Counted(n) /\ InOrder(n)
    BY <2>3, <2>4, <2>5 DEF Good, Told, Counted, InOrder
  <2>7. ASSUME NEW c \in VC
        PROVE  Len(n.vcs[c].sends) + n.vcs[c].held <= SendSlots /\ Len(n.vcs[c].rcvd) <= RcvSlots
    <3>1. Len(m.vcs[c].sends) + m.vcs[c].held <= SendSlots /\ Len(m.vcs[c].rcvd) <= RcvSlots
      BY DEF Good, Fits
    <3>2. n.vcs[c].sends = m.vcs[c].sends /\ n.vcs[c].held = m.vcs[c].held
          /\ Len(n.vcs[c].rcvd) <= Len(m.vcs[c].rcvd)
          /\ Len(n.vcs[c].rcvd) \in Nat /\ Len(m.vcs[c].rcvd) \in Nat
      <4>1. Len(n.vcs[c].rcvd) \in Nat /\ Len(m.vcs[c].rcvd) \in Nat
        BY <1>0, <2>4, Views
      <4> QED BY <2>3, <2>4, <4>1
    <3> QED BY <3>1, <3>2, ModemAssumption
  <2>8. Fits(n)
    BY <2>7 DEF Fits
  <2>9. n \in Good
    BY <2>4, <2>6, <2>8 DEF Good
  <2> QED BY <2>9 DEF n
<1>3. CASE m.vcs[vc].rcvd = <<>>
  BY <1>3 DEF ReadReceived
<1> QED BY <1>2, <1>3

\* A channel that was wiped is a channel.
LEMMA WipedChannel ==
  ASSUME NEW state \in ArqStates, NEW identifier \in Identifiers
  PROVE  /\ Wiped(state, identifier) \in Channel
         /\ Wiped(state, identifier).arq_state_flag = state
         /\ Wiped(state, identifier).identifier = identifier
         /\ Wiped(state, identifier).sends = <<>> /\ Wiped(state, identifier).rcvd = <<>>
         /\ Wiped(state, identifier).held = 0
         /\ Len(Wiped(state, identifier).sends) + Wiped(state, identifier).held <= SendSlots
         /\ Len(Wiped(state, identifier).rcvd) <= RcvSlots
<1>1. <<>> \in Seq(Packet) /\ <<>> \in Seq(1 .. MaxArrivals) /\ 0 \in 0 .. SendSlots
      /\ 0 <= RcvSlots /\ 0 <= SendSlots
  BY ModemAssumption
<1>2. Wiped(state, identifier) \in Channel
  BY <1>1 DEF Wiped, Channel
<1> QED BY <1>1, <1>2 DEF Wiped

\* A channel that is wiped leaves the modem in order, whether its interface has
\* been told of a new session or the session is over.
LEMMA WipeGood ==
  ASSUME Counters, NEW m \in Good, NEW vc \in VC, NEW n \in ModemState,
         NEW state \in ArqStates, NEW identifier \in Identifiers,
         n.vcs = [m.vcs EXCEPT ![vc] = Wiped(state, identifier)],
         \A c \in VC : c # vc => n.ifc[c] = m.ifc[c],
         n.ifc[vc].inbox = m.ifc[vc].inbox, Counted(n),
         state = "IN_INIT" =>
           /\ n.ifc[vc].arq_expected_state = "IN_INIT"
           /\ n.ifc[vc].told = [rsp |-> "arq_connecting", session_identifier |-> identifier]
  PROVE  n \in Good
<1>0. m \in ModemState
  BY DEF Good
<1> DEFINE wiped == Wiped(state, identifier)
<1>1. n.vcs[vc] = wiped /\ \A c \in VC : c # vc => n.vcs[c] = m.vcs[c]
  BY <1>0, Views
<1>2. /\ wiped.arq_state_flag = state /\ wiped.identifier = identifier /\ wiped.sends = <<>>
      /\ Len(wiped.sends) + wiped.held <= SendSlots /\ Len(wiped.rcvd) <= RcvSlots
  BY WipedChannel
<1> HIDE DEF wiped
<1>3. Fits(n)
  BY <1>1, <1>2 DEF Good, Fits
<1>4. Told(n)
  BY <1>1, <1>2 DEF Good, Told
<1>5. InOrder(n)
  <2> DEFINE qs == QueuesOf(m.vcs)
             qs2 == QueuesOf(n.vcs)
  <2>1. BoxesOf(n.ifc) = BoxesOf(m.ifc)
    BY DEF BoxesOf
  <2>2. \A c \in VC : qs2[c] = qs[c] \/ qs2[c] = <<>>
    BY <1>1, <1>2 DEF QueuesOf
  <2>3. qs \in Queues /\ qs2 \in Queues /\ BoxesOf(m.ifc) \in Boxes
    BY <1>0, ViewTypes
  <2>4. Ordered(qs, BoxesOf(m.ifc), newest, posts)
    BY DEF Good, InOrder
  <2> HIDE DEF qs, qs2
  <2>5. Ordered(qs2, BoxesOf(m.ifc), newest, posts)
    BY <2>2, <2>3, <2>4, NumberTypes, OrderedLess
  <2> QED BY <2>1, <2>5 DEF InOrder, qs2
<1> QED BY <1>3, <1>4, <1>5 DEF Good

\* A message is taken from a socket: there is one fewer that could begin a session.
LEMMA TakenGood ==
  ASSUME Counters, NEW m \in Good, NEW vc \in VC, m.ifc[vc].inbox # <<>>
  PROVE  LET taken == [m EXCEPT !.ifc[vc].inbox = Tail(@)]
         IN  /\ taken \in Good /\ taken.vcs = m.vcs /\ taken.connects = m.connects
             /\ BoxesOf(taken.ifc) = [BoxesOf(m.ifc) EXCEPT ![vc] = Tail(@)]
             /\ taken.connects + 1 + Total(Lengths(taken.ifc)) <= posts
             /\ Total(Lengths(taken.ifc)) \in Nat
<1>0. m \in ModemState
  BY DEF Good
<1> DEFINE taken == [m EXCEPT !.ifc[vc].inbox = Tail(@)]
           box == m.ifc[vc].inbox
           i == [m.ifc[vc] EXCEPT !.inbox = Tail(@)]
<1>1. m.ifc \in [VC -> Interface] /\ m.ifc[vc] \in Interface /\ box \in Seq(Message)
  BY <1>0, Views
<1>2. Tail(box) \in Seq(Message) /\ Len(Tail(box)) = Len(box) - 1 /\ Len(box) \in Nat \ {0}
  <2> HIDE DEF box
  <2>1. box # <<>>
    BY DEF box
  <2> QED BY <1>1, <2>1, TailOf
<1>3. i \in Interface /\ i.inbox = Tail(box) /\ i.arq_expected_state = m.ifc[vc].arq_expected_state
      /\ i.told = m.ifc[vc].told
  BY <1>1, <1>2 DEF Interface
<1>4. taken = [m EXCEPT !.ifc = [m.ifc EXCEPT ![vc] = i]]
  BY <1>0, <1>1 DEF ModemState
<1> HIDE DEF i, taken
<1>5. taken \in ModemState /\ taken.vcs = m.vcs /\ taken.connects = m.connects /\ taken.ifc[vc] = i
      /\ \A c \in VC : c # vc => taken.ifc[c] = m.ifc[c]
  BY <1>0, <1>1, <1>3, <1>4 DEF ModemState
<1>6. BoxesOf(taken.ifc) = [BoxesOf(m.ifc) EXCEPT ![vc] = Tail(@)]
  BY <1>3, <1>5 DEF BoxesOf
<1>7. taken.connects + 1 + Total(Lengths(taken.ifc)) <= posts /\ Total(Lengths(taken.ifc)) \in Nat
      /\ Counted(taken)
  <2> DEFINE f == Lengths(m.ifc)
             g == Lengths(taken.ifc)
  <2>1. f \in [VC -> Nat] /\ g \in [VC -> Nat]
    BY <1>0, <1>5, ViewTypes
  <2>2. f[vc] = Len(box) /\ g[vc] = Len(box) - 1 /\ \A c \in VC : c # vc => g[c] = f[c]
    BY <1>2, <1>3, <1>5 DEF Lengths
  <2>3. m.connects + Total(f) <= posts
    BY DEF Good, Counted
  <2> HIDE DEF f, g, box
  <2>4. Total(f) \in Nat /\ Total(g) \in Nat /\ Total(g) - g[vc] = Total(f) - f[vc]
    BY <2>1, <2>2, TotalChanges
  <2>5. m.connects \in Nat /\ posts \in Nat
    BY <1>0, Views, NumberTypes
  <2>6. m.connects + 1 + Total(g) <= posts /\ m.connects + Total(g) <= posts
    BY <1>2, <2>2, <2>3, <2>4, <2>5
  <2> QED BY <1>5, <2>4, <2>6 DEF g, Counted
<1>8. Told(taken) /\ Fits(taken)
  BY <1>3, <1>5 DEF Good, Told, Fits
<1>9. InOrder(taken)
  <2> DEFINE qs == QueuesOf(m.vcs)
             boxes == BoxesOf(m.ifc)
             boxes2 == BoxesOf(taken.ifc)
  <2>1. qs \in Queues /\ boxes \in Boxes /\ boxes2 \in Boxes
    BY <1>0, <1>5, ViewTypes
  <2>2. \A c \in VC : boxes2[c] = boxes[c] \/ (boxes[c] # <<>> /\ boxes2[c] = Tail(boxes[c]))
    BY <1>3, <1>5 DEF BoxesOf
  <2>3. Ordered(qs, boxes, newest, posts)
    BY DEF Good, InOrder
  <2> HIDE DEF qs, boxes, boxes2
  <2>4. Ordered(qs, boxes2, newest, posts)
    BY <2>1, <2>2, <2>3, NumberTypes, OrderedLess
  <2> QED BY <1>5, <2>4 DEF qs, boxes2, InOrder
<1>10. taken \in Good
  BY <1>5, <1>7, <1>8, <1>9 DEF Good
<1> QED BY <1>5, <1>6, <1>7, <1>10 DEF taken

\* A packet is put into a queue that has room.
LEMMA PushGood ==
  ASSUME Counters, NEW m \in Good, NEW vc \in VC, m.ifc[vc].inbox # <<>>,
         IsData(Head(m.ifc[vc].inbox))
  PROVE  Push([m EXCEPT !.ifc[vc].inbox = Tail(@)], vc, Head(m.ifc[vc].inbox)) \in Good
<1>0. m \in ModemState
  BY DEF Good
<1> DEFINE taken == [m EXCEPT !.ifc[vc].inbox = Tail(@)]
           message == Head(m.ifc[vc].inbox)
           to == message.vc
           n == [taken EXCEPT !.vcs[to].sends = Append(@, message.data)]
           channel == [m.vcs[to] EXCEPT !.sends = Append(@, message.data)]
<1>1. /\ taken \in Good /\ taken.vcs = m.vcs /\ taken.connects = m.connects
      /\ BoxesOf(taken.ifc) = [BoxesOf(m.ifc) EXCEPT ![vc] = Tail(@)]
  BY TakenGood
<1>2. message \in Message
  BY <1>0, Views, TailOf
<1>3. to \in VC /\ message.data \in Packet
  BY <1>2, MessageKinds
<1> HIDE DEF taken
<1>4. CASE ~HasRoom(taken.vcs[to])
  BY <1>1, <1>4 DEF Push, taken
<1>5. CASE HasRoom(taken.vcs[to])
  <2>0. taken \in ModemState /\ taken.vcs \in [VC -> Channel] /\ m.vcs[to] \in Channel
        /\ m.vcs[to].sends \in Seq(Packet) /\ m.vcs[to].held \in 0 .. SendSlots
    BY <1>0, <1>1, <1>3, Views DEF Good
  <2>1. Append(m.vcs[to].sends, message.data) \in Seq(Packet)
        /\ Len(Append(m.vcs[to].sends, message.data)) = Len(m.vcs[to].sends) + 1
        /\ Len(m.vcs[to].sends) \in Nat
    <3> DEFINE q == m.vcs[to].sends
               packet == message.data
    <3>1. q \in Seq(Packet) /\ packet \in Packet
      BY <1>3, <2>0
    <3> HIDE DEF q, packet
    <3>2. Append(q, packet) \in Seq(Packet) /\ Len(Append(q, packet)) = Len(q) + 1 /\ Len(q) \in Nat
      BY <3>1
    <3> QED BY <3>2 DEF q, packet
  <2>2. channel \in Channel /\ channel.sends = Append(m.vcs[to].sends, message.data)
        /\ channel.held = m.vcs[to].held /\ channel.rcvd = m.vcs[to].rcvd
        /\ channel.arq_state_flag = m.vcs[to].arq_state_flag
        /\ channel.identifier = m.vcs[to].identifier
    BY <2>0, <2>1 DEF Channel
  <2>3. n = [taken EXCEPT !.vcs = [m.vcs EXCEPT ![to] = channel]]
    BY <1>1, <2>0 DEF ModemState
  <2> HIDE DEF n, channel, message, to
  <2>4. n \in ModemState /\ n.ifc = taken.ifc /\ n.connects = taken.connects
        /\ n.vcs = [m.vcs EXCEPT ![to] = channel]
    BY <1>1, <1>3, <2>0, <2>2, <2>3 DEF ModemState
  <2>5. n.vcs[to] = channel /\ \A c \in VC : c # to => n.vcs[c] = taken.vcs[c]
    BY <1>1, <1>3, <2>0, <2>4
  <2>6. Counted(n) /\ Told(n)
    BY <1>1, <2>2, <2>4, <2>5 DEF Good, Counted, Told
  <2>7. Fits(n)
    <3>1. Len(m.vcs[to].sends) + m.vcs[to].held < SendSlots
      BY <1>1, <1>5 DEF HasRoom
    <3>2. Len(channel.sends) + channel.held <= SendSlots
      BY <2>0, <2>1, <2>2, <3>1, ModemAssumption
    <3> QED BY <1>1, <1>3, <2>2, <2>5, <3>2 DEF Good, Fits
  <2>8. InOrder(n)
    <3> DEFINE qs == QueuesOf(m.vcs)
               boxes == BoxesOf(m.ifc)
    <3>1. qs \in Queues /\ boxes \in Boxes /\ boxes[vc] = m.ifc[vc].inbox /\ boxes[vc] # <<>>
          /\ Head(boxes[vc]) = message /\ IsData(Head(boxes[vc]))
      BY <1>0, ViewTypes DEF BoxesOf, message
    <3>2. Ordered(qs, boxes, newest, posts)
      BY DEF Good, InOrder
    <3>3. QueuesOf(n.vcs) = [qs EXCEPT ![to] = Append(@, message.data)]
      BY <1>1, <1>3, <2>2, <2>5 DEF QueuesOf
    <3> HIDE DEF qs, boxes
    <3>4. Ordered([qs EXCEPT ![to] = Append(@, message.data)], [boxes EXCEPT ![vc] = Tail(@)],
                  newest, posts)
      BY <1>3, <3>1, <3>2, NumberTypes, OrderedPush
    <3> QED BY <1>1, <2>4, <3>3, <3>4 DEF InOrder, boxes
  <2>9. n \in Good
    BY <2>4, <2>6, <2>7, <2>8 DEF Good
  <2> QED BY <1>5, <2>9 DEF Push, n, to, message, taken
<1> QED BY <1>4, <1>5

\* A session is begun by a message that was just taken: there is an identifier left
\* for it, and the application is told.
LEMMA ConnectGood ==
  ASSUME Counters, NEW m \in Good, NEW vc \in VC, Total(Lengths(m.ifc)) \in Nat,
         m.connects + 1 + Total(Lengths(m.ifc)) <= posts
  PROVE  Connect(m, vc) \in Good
<1>0. m \in ModemState
  BY DEF Good
<1> DEFINE identifier == m.connects + 1
           n == Connect(m, vc)
           i == [m.ifc[vc] EXCEPT !.arq_expected_state = "IN_INIT", !.session_identifier = identifier,
                   !.told = [rsp |-> "arq_connecting", session_identifier |-> identifier]]
<1>1. m.ifc \in [VC -> Interface] /\ m.ifc[vc] \in Interface /\ m.vcs \in [VC -> Channel]
      /\ m.connects \in 0 .. MaxPosts
  BY <1>0, Views
<1>2. identifier \in 0 .. MaxPosts
  BY <1>1, ModemAssumption DEF Counters
<1>3. identifier \in Identifiers /\ "IN_INIT" \in ArqStates
  BY <1>2 DEF Identifiers, ArqStates
<1> HIDE DEF identifier
<1>4. i \in Interface /\ i.inbox = m.ifc[vc].inbox /\ i.arq_expected_state = "IN_INIT"
      /\ i.told = [rsp |-> "arq_connecting", session_identifier |-> identifier]
  BY <1>1, <1>3 DEF Interface
<1>5. n = [m EXCEPT !.connects = identifier,
                    !.vcs = [m.vcs EXCEPT ![vc] = Wiped("IN_INIT", identifier)],
                    !.ifc = [m.ifc EXCEPT ![vc] = i]]
  <2> DEFINE j == [m.ifc[vc] EXCEPT !.arq_expected_state = "IN_INIT",
                                    !.session_identifier = identifier]
             a == [m EXCEPT !.connects = identifier, !.vcs[vc] = Wiped("IN_INIT", identifier),
                            !.ifc[vc].arq_expected_state = "IN_INIT",
                            !.ifc[vc].session_identifier = identifier]
             b == [m EXCEPT !.connects = identifier,
                            !.vcs = [m.vcs EXCEPT ![vc] = Wiped("IN_INIT", identifier)],
                            !.ifc = [m.ifc EXCEPT ![vc] = j]]
  <2>1. a = b
    BY <1>0, <1>1 DEF ModemState, Interface
  <2>2. b.ifc[vc] = j /\ j.session_identifier = identifier
    BY <1>0, <1>1 DEF ModemState, Interface
  <2>3. n = Tell(b, vc, "arq_connecting")
    BY <2>1 DEF Connect, identifier
  <2> HIDE DEF a
  <2>4. n = [b EXCEPT !.ifc[vc].told = [rsp |-> "arq_connecting", session_identifier |-> identifier]]
    BY <2>2, <2>3 DEF Tell
  <2> HIDE DEF n
  <2>5. i = [j EXCEPT !.told = [rsp |-> "arq_connecting", session_identifier |-> identifier]]
    BY <1>1 DEF Interface
  <2> HIDE DEF i, j
  <2> QED BY <1>0, <1>1, <2>2, <2>4, <2>5 DEF ModemState
<1>6. Wiped("IN_INIT", identifier) \in Channel
  BY <1>3, WipedChannel
<1> HIDE DEF n, i
<1>7. n \in ModemState /\ n.connects = identifier /\ n.ifc[vc] = i
      /\ n.vcs = [m.vcs EXCEPT ![vc] = Wiped("IN_INIT", identifier)]
      /\ \A c \in VC : c # vc => n.ifc[c] = m.ifc[c]
  BY <1>0, <1>1, <1>2, <1>4, <1>5, <1>6 DEF ModemState
<1>8. Lengths(n.ifc) = Lengths(m.ifc)
  BY <1>4, <1>7 DEF Lengths
<1>9. Counted(n)
  BY <1>7, <1>8 DEF Counted, identifier
<1>10. n \in Good
  BY <1>3, <1>4, <1>7, <1>9, WipeGood
<1> QED BY <1>10 DEF n

\* A channel is switched off.
LEMMA OffGood ==
  ASSUME Counters, NEW m \in Good, NEW vc \in VC
  PROVE  [m EXCEPT !.vcs[vc] = Wiped("OFF", 0)] \in Good
<1>0. m \in ModemState
  BY DEF Good
<1> DEFINE n == [m EXCEPT !.vcs[vc] = Wiped("OFF", 0)]
<1>1. "OFF" \in ArqStates /\ 0 \in Identifiers
  BY ModemAssumption DEF ArqStates, Identifiers
<1>2. Wiped("OFF", 0) \in Channel
  BY <1>1, WipedChannel
<1>3. n \in ModemState /\ n.vcs = [m.vcs EXCEPT ![vc] = Wiped("OFF", 0)]
      /\ n.ifc = m.ifc /\ n.connects = m.connects
  BY <1>0, <1>2 DEF ModemState
<1> HIDE DEF n
<1>4. Counted(n)
  BY <1>3 DEF Good, Counted
<1>5. n.ifc[vc].inbox = m.ifc[vc].inbox /\ (\A c \in VC : c # vc => n.ifc[c] = m.ifc[c])
      /\ "OFF" # "IN_INIT"
  BY <1>3
<1>6. n \in Good
  <2> DEFINE state == "OFF"
             identifier == 0
  <2>1. state # "IN_INIT" /\ state \in ArqStates /\ identifier \in Identifiers
        /\ n.vcs = [m.vcs EXCEPT ![vc] = Wiped(state, identifier)] /\ n \in ModemState
    BY <1>1, <1>3, <1>5
  <2> HIDE DEF state, identifier
  <2>2. state = "IN_INIT" =>
          /\ n.ifc[vc].arq_expected_state = "IN_INIT"
          /\ n.ifc[vc].told = [rsp |-> "arq_connecting", session_identifier |-> identifier]
    BY <2>1
  <2>3. n.ifc[vc].inbox = m.ifc[vc].inbox
    BY <1>5
  <2>4. \A c \in VC : c # vc => n.ifc[c] = m.ifc[c]
    BY <1>5
  <2>5. n \in ModemState /\ n.vcs = [m.vcs EXCEPT ![vc] = Wiped(state, identifier)]
    BY <2>1
  <2> QED BY <1>4, <2>1, <2>2, <2>3, <2>4, <2>5, WipeGood
<1> QED BY <1>6 DEF n

\* One message is handled.
LEMMA HandleGood ==
  ASSUME Counters, NEW m \in Good, NEW vc \in VC
  PROVE  Handle(m, vc) \in Good
<1> DEFINE taken == [m EXCEPT !.ifc[vc].inbox = Tail(@)]
           message == Head(m.ifc[vc].inbox)
<1>1. CASE m.ifc[vc].inbox = <<>>
  BY <1>1 DEF Handle
<1>2. CASE m.ifc[vc].inbox # <<>> /\ IsData(message)
  BY <1>2, PushGood DEF Handle, IsData
<1>3. CASE m.ifc[vc].inbox # <<>> /\ ~IsData(message)
  <2>1. taken \in Good /\ taken.connects + 1 + Total(Lengths(taken.ifc)) <= posts
        /\ Total(Lengths(taken.ifc)) \in Nat
    BY <1>3, TakenGood
  <2>2. Handle(m, vc) = Command(taken, vc, message.cmd)
    BY <1>3 DEF Handle, IsData
  <2> HIDE DEF taken, message
  <2> QED BY <2>1, <2>2, ConnectGood, OffGood DEF Command
<1> QED BY <1>1, <1>2, <1>3

\* A check of one channel.
LEMMA CheckGood ==
  ASSUME Counters, NEW m \in Good, NEW vc \in VC
  PROVE  check(m, vc) \in Good
<1>1. ReadReceived(Announce(m, vc), vc) \in Good
  BY AnnounceGood, ReadReceivedGood
<1> QED BY <1>1, HandleGood DEF check

\* A tick checks every channel.
LEMMA TickedGood ==
  ASSUME Counters, Current \in Good
  PROVE  Ticked[NumVC] \in Good
<1> DEFINE S == Good
           s == Current
           N == NumVC
           step == [n \in 1 .. N |-> [m \in S |-> check(m, n - 1)]]
<1>0. N \in Nat \ {0} /\ N \in Nat
  BY ModemAssumption
<1>1. \A n \in 1 .. N : n - 1 \in VC
  BY <1>0 DEF VC
<1>2. step \in [1 .. N -> [S -> S]]
  BY <1>1, CheckGood
<1>3. \A n \in 1 .. N : \A m \in S : step[n][m] = check(m, n - 1)
  OBVIOUS
<1>4. s \in S
  OBVIOUS
<1> HIDE DEF S, s, N, step
<1>5. Computed(N, S, s, step) # {}
  BY <1>0, <1>2, <1>4, Recursion
<1>6. PICK f \in [0 .. N -> S] : f[0] = s /\ \A n \in 1 .. N : f[n] = step[n][f[n - 1]]
  BY <1>5 DEF Computed
<1>7. ASSUME NEW n \in 1 .. N PROVE f[n] = check(f[n - 1], n - 1)
  <2>1. n - 1 \in 0 .. N
    BY <1>0
  <2> QED BY <1>3, <1>6, <2>1
<1>8. f = [n \in 0 .. N |-> IF n = 0 THEN s ELSE check(f[n - 1], n - 1)]
  <2> DEFINE g == [n \in 0 .. N |-> IF n = 0 THEN s ELSE check(f[n - 1], n - 1)]
  <2>1. ASSUME NEW n \in 0 .. N PROVE f[n] = g[n]
    <3>1. CASE n = 0
      BY <1>6, <3>1
    <3>2. CASE n # 0
      <4>1. n \in 1 .. N
        BY <1>0, <3>2
      <4> QED BY <1>7, <3>2, <4>1
    <3> QED BY <3>1, <3>2
  <2> QED BY <2>1
<1>9. Ticked = [n \in 0 .. N |-> IF n = 0 THEN s ELSE check(Ticked[n - 1], n - 1)]
  BY <1>8 DEF Ticked, Current, s, N
<1> DEFINE u == Ticked
<1> HIDE DEF u
<1>10. \A n \in 0 .. N : u[n] = IF n = 0 THEN s ELSE check(u[n - 1], n - 1)
  BY <1>9 DEF u
<1> DEFINE T == {n \in 0 .. N : u[n] \in S}
<1>11. 0 \in T
  BY <1>0, <1>4, <1>10
<1>12. ASSUME NEW n \in 1 .. N, n - 1 \in T PROVE n \in T
  <2>1. n \in 0 .. N /\ n # 0 /\ n - 1 \in VC
    BY <1>0, <1>1
  <2>2. u[n - 1] \in S /\ u[n] = check(u[n - 1], n - 1)
    BY <1>10, <1>12, <2>1
  <2>3. check(u[n - 1], n - 1) \in S
    BY <2>1, <2>2, CheckGood DEF S
  <2> QED BY <2>1, <2>2, <2>3
<1>13. \A n \in 0 .. N : n \in T
  <2> HIDE DEF T
  <2>1. \A n \in 1 .. N : n - 1 \in T => n \in T
    BY <1>12
  <2> QED BY <1>0, <1>11, <2>1, UpTo
<1>14. u[N] \in S
  BY <1>0, <1>13
<1> QED BY <1>14 DEF u, N, S

-----------------------------------------------------------------------------
(* Every step keeps the modem in order. *)

\* What is in order stays so while nothing is posted or sent.
LEMMA SameGood ==
  ASSUME UNCHANGED <<posts, newest>>
  PROVE  Good' = Good
BY DEF Good, Counted, InOrder, Fits, Told

\* Queues that are wiped or stay as they are keep the order.
LEMMA LessGood ==
  ASSUME Counters, NEW m \in Good, NEW n \in ModemState, Fits(n), Told(n), n.connects = m.connects,
         \A c \in VC : n.ifc[c].inbox = m.ifc[c].inbox,
         \A c \in VC : n.vcs[c].sends = m.vcs[c].sends \/ n.vcs[c].sends = <<>>
  PROVE  n \in Good
<1>0. m \in ModemState
  BY DEF Good
<1> DEFINE qs == QueuesOf(m.vcs)
           qs2 == QueuesOf(n.vcs)
<1>1. BoxesOf(n.ifc) = BoxesOf(m.ifc) /\ Lengths(n.ifc) = Lengths(m.ifc)
  BY DEF BoxesOf, Lengths
<1>2. \A c \in VC : qs2[c] = qs[c] \/ qs2[c] = <<>>
  BY DEF QueuesOf
<1>3. qs \in Queues /\ qs2 \in Queues /\ BoxesOf(m.ifc) \in Boxes
  BY <1>0, ViewTypes
<1>4. Ordered(qs, BoxesOf(m.ifc), newest, posts)
  BY DEF Good, InOrder
<1> HIDE DEF qs, qs2
<1>5. Ordered(qs2, BoxesOf(m.ifc), newest, posts)
  BY <1>2, <1>3, <1>4, NumberTypes, OrderedLess
<1>6. InOrder(n) /\ Counted(n)
  BY <1>1, <1>5 DEF InOrder, Counted, Good, qs2
<1> QED BY <1>6 DEF Good

\* What Current says of the variables.
LEMMA CurrentFields ==
  ASSUME Current \in Good
  PROVE  /\ vcs \in [VC -> Channel] /\ ifc \in [VC -> Interface] /\ connects \in 0 .. MaxPosts
         /\ Current \in ModemState
         /\ Current.vcs = vcs /\ Current.ifc = ifc /\ Current.connects = connects
         /\ Fits(Current) /\ Told(Current) /\ Counted(Current) /\ InOrder(Current)
BY DEF Current, Good, ModemState

\* One channel takes another state: the modem stays in order when its queue stays
\* or is wiped and it does not begin a session.
LEMMA ChannelStep ==
  ASSUME Counters, Current \in Good, NEW vc \in VC, NEW channel \in Channel,
         vcs' = [vcs EXCEPT ![vc] = channel], UNCHANGED <<ifc, connects, posts, newest>>,
         channel.sends = vcs[vc].sends \/ channel.sends = <<>>,
         Len(channel.sends) + channel.held <= SendSlots, Len(channel.rcvd) <= RcvSlots,
         channel.arq_state_flag = "IN_INIT" =>
           vcs[vc].arq_state_flag = "IN_INIT" /\ channel.identifier = vcs[vc].identifier
  PROVE  Current' \in Good'
<1> DEFINE m == Current
           n == Current'
<1>1. /\ vcs \in [VC -> Channel] /\ ifc \in [VC -> Interface] /\ connects \in 0 .. MaxPosts
      /\ m.vcs = vcs /\ m.ifc = ifc /\ m.connects = connects /\ Fits(m) /\ Told(m)
  BY CurrentFields
<1>2. n = [vcs |-> [vcs EXCEPT ![vc] = channel], ifc |-> ifc, connects |-> connects]
  BY DEF Current
<1>3. n \in ModemState /\ n.ifc = ifc /\ n.connects = connects /\ n.vcs[vc] = channel
      /\ \A c \in VC : c # vc => n.vcs[c] = vcs[c]
  BY <1>1, <1>2 DEF ModemState
<1> HIDE DEF n, m
<1>4. Fits(n)
  BY <1>1, <1>3 DEF Fits
<1>5. Told(n)
  BY <1>1, <1>3 DEF Told
<1>6. \A c \in VC : n.vcs[c].sends = m.vcs[c].sends \/ n.vcs[c].sends = <<>>
  BY <1>1, <1>3
<1>7. \A c \in VC : n.ifc[c].inbox = m.ifc[c].inbox
  BY <1>1, <1>3
<1>8. n.connects = m.connects /\ m \in Good
  BY <1>1, <1>3 DEF m
<1>9. n \in Good
  BY <1>3, <1>4, <1>5, <1>6, <1>7, <1>8, LessGood
<1> QED BY <1>9, SameGood DEF n

\* A payload is received.
LEMMA PayloadStep ==
  ASSUME Counters, Current \in Good, NEW vc \in VC, ReceivePayload(vc)
  PROVE  Current' \in Good'
<1>1. CASE vcs' = vcs
  <2>1. Current' = Current /\ Good' = Good
    BY <1>1, SameGood DEF ReceivePayload, Current
  <2> QED BY <2>1
<1>2. CASE vcs' # vcs
  <2>0. arrivals \in Nat /\ arrivals + 1 \in 1 .. MaxArrivals /\ arrivals' = arrivals + 1
    BY ModemAssumption DEF Counters, ReceivePayload
  <2> DEFINE rcvd == vcs[vc].rcvd
             channel == [vcs[vc] EXCEPT !.rcvd = Append(@, arrivals')]
  <2>1. vcs \in [VC -> Channel] /\ vcs[vc] \in Channel /\ rcvd \in Seq(1 .. MaxArrivals)
        /\ Len(rcvd) \in Nat
    BY CurrentFields, Views
  <2>2. Len(rcvd) # RcvSlots /\ vcs' = [vcs EXCEPT ![vc] = channel]
    BY <1>2, <2>1 DEF ReceivePayload
  <2>3. Len(rcvd) <= RcvSlots /\ Len(vcs[vc].sends) + vcs[vc].held <= SendSlots
    BY CurrentFields DEF Fits
  <2>4. Append(rcvd, arrivals') \in Seq(1 .. MaxArrivals) /\ Len(Append(rcvd, arrivals')) <= RcvSlots
    <3> HIDE DEF rcvd
    <3>1. RcvSlots \in Nat
      BY ModemAssumption
    <3> QED BY <2>0, <2>1, <2>2, <2>3, <3>1
  <2>5. channel \in Channel /\ channel.rcvd = Append(rcvd, arrivals') /\ channel.sends = vcs[vc].sends
        /\ channel.held = vcs[vc].held /\ channel.arq_state_flag = vcs[vc].arq_state_flag
        /\ channel.identifier = vcs[vc].identifier
    BY <2>1, <2>4 DEF Channel
  <2>6. UNCHANGED <<ifc, connects, posts, newest>>
    BY DEF ReceivePayload
  <2> HIDE DEF channel, rcvd
  <2>7. Len(channel.sends) + channel.held <= SendSlots /\ Len(channel.rcvd) <= RcvSlots
    BY <2>3, <2>4, <2>5
  <2>8. vcs' = [vcs EXCEPT ![vc] = channel]
    BY <2>2
  <2> QED BY <2>5, <2>6, <2>7, <2>8, ChannelStep
<1> QED BY <1>1, <1>2

\* Packets are acknowledged.
LEMMA AcknowledgeStep ==
  ASSUME Counters, Current \in Good, NEW vc \in VC, ReceiveAcknowledge(vc)
  PROVE  Current' \in Good'
<1>1. PICK held \in 0 .. vcs[vc].held - 1 : vcs' = [vcs EXCEPT ![vc].held = held]
  BY DEF ReceiveAcknowledge
<1> DEFINE channel == [vcs[vc] EXCEPT !.held = held]
<1>2. vcs \in [VC -> Channel] /\ vcs[vc] \in Channel /\ vcs[vc].held \in 0 .. SendSlots
      /\ Len(vcs[vc].sends) \in Nat
  BY CurrentFields, Views
<1>3. held \in 0 .. SendSlots /\ held <= vcs[vc].held
  BY <1>2, ModemAssumption
<1>4. channel \in Channel /\ channel.rcvd = vcs[vc].rcvd /\ channel.sends = vcs[vc].sends
      /\ channel.held = held /\ channel.arq_state_flag = vcs[vc].arq_state_flag
      /\ channel.identifier = vcs[vc].identifier
  BY <1>2, <1>3 DEF Channel
<1>5. vcs' = [vcs EXCEPT ![vc] = channel]
  BY <1>1, <1>2
<1>6. UNCHANGED <<ifc, connects, posts, newest>>
  BY DEF ReceiveAcknowledge
<1>7. Len(vcs[vc].rcvd) <= RcvSlots /\ Len(vcs[vc].sends) + vcs[vc].held <= SendSlots
  BY CurrentFields DEF Fits
<1> HIDE DEF channel
<1>8. Len(channel.sends) + channel.held <= SendSlots /\ Len(channel.rcvd) <= RcvSlots
  BY <1>2, <1>3, <1>4, <1>7, ModemAssumption
<1> QED BY <1>4, <1>5, <1>6, <1>8, ChannelStep

\* A handshake arrives.
LEMMA HandshakeStep ==
  ASSUME Counters, Current \in Good, NEW vc \in VC, NEW identifier \in PeerIdentifiers \cup 1 .. connects,
         ReceiveHandshake(vc, identifier)
  PROVE  Current' \in Good'
<1> DEFINE channel == sky_vc_handle_handshake(vcs[vc], identifier)
<1>1. vcs \in [VC -> Channel] /\ vcs[vc] \in Channel /\ connects \in 0 .. MaxPosts
  BY CurrentFields, Views
<1>2. identifier \in Identifiers /\ "ON" \in ArqStates
  BY <1>1, ModemAssumption DEF Identifiers, ArqStates
<1>3. /\ Wiped("ON", identifier) \in Channel
      /\ Wiped("ON", identifier).arq_state_flag = "ON"
      /\ Wiped("ON", identifier).sends = <<>>
      /\ Len(Wiped("ON", identifier).sends) + Wiped("ON", identifier).held <= SendSlots
      /\ Len(Wiped("ON", identifier).rcvd) <= RcvSlots
  BY <1>2, WipedChannel
<1>4. Len(vcs[vc].rcvd) <= RcvSlots /\ Len(vcs[vc].sends) + vcs[vc].held <= SendSlots
  BY CurrentFields DEF Fits
<1> DEFINE on == [vcs[vc] EXCEPT !.arq_state_flag = "ON"]
<1>5. on \in Channel /\ on.arq_state_flag = "ON" /\ on.sends = vcs[vc].sends /\ on.held = vcs[vc].held
      /\ on.rcvd = vcs[vc].rcvd
  BY <1>1, <1>2 DEF Channel
<1>6. channel = vcs[vc] \/ channel = Wiped("ON", identifier) \/ channel = on
  BY DEF sky_vc_handle_handshake
<1>7. vcs' = [vcs EXCEPT ![vc] = channel] /\ UNCHANGED <<ifc, connects, posts, newest>>
  BY DEF ReceiveHandshake
<1> HIDE DEF channel, on
<1>8. /\ channel \in Channel
      /\ channel.sends = vcs[vc].sends \/ channel.sends = <<>>
      /\ Len(channel.sends) + channel.held <= SendSlots /\ Len(channel.rcvd) <= RcvSlots
      /\ channel.arq_state_flag = "IN_INIT" =>
           vcs[vc].arq_state_flag = "IN_INIT" /\ channel.identifier = vcs[vc].identifier
  BY <1>1, <1>3, <1>4, <1>5, <1>6
<1> QED BY <1>7, <1>8, ChannelStep

\* A message is posted.
LEMMA PostStep ==
  ASSUME Counters, Current \in Good, NEW vc \in VC, NEW message \in Message, Post(vc, message),
         IsData(message) => message.data.from = vc /\ message.data.number = posts + 1
  PROVE  Current' \in Good'
<1> DEFINE m == Current
           n == Current'
           i == [ifc[vc] EXCEPT !.inbox = Append(@, message)]
           box == ifc[vc].inbox
<1>1. /\ vcs \in [VC -> Channel] /\ ifc \in [VC -> Interface] /\ connects \in 0 .. MaxPosts
      /\ m.vcs = vcs /\ m.ifc = ifc /\ m.connects = connects /\ m \in ModemState
      /\ Fits(m) /\ Told(m) /\ Counted(m) /\ InOrder(m)
  BY CurrentFields
<1>2. ifc[vc] \in Interface /\ box \in Seq(Message) /\ Len(box) \in Nat
  BY <1>1, Views
<1>3. Append(box, message) \in Seq(Message) /\ Len(Append(box, message)) = Len(box) + 1
  <2> HIDE DEF box
  <2> QED BY <1>2
<1>4. i \in Interface /\ i.inbox = Append(box, message) /\ i.told = ifc[vc].told
      /\ i.arq_expected_state = ifc[vc].arq_expected_state
  BY <1>2, <1>3 DEF Interface
<1>5. n = [vcs |-> vcs, ifc |-> [ifc EXCEPT ![vc] = i], connects |-> connects]
  BY <1>1 DEF Post, Current
<1>6. posts' = posts + 1 /\ newest' = newest /\ posts \in Nat /\ newest \in Numbers
  BY NumberTypes DEF Post
<1> HIDE DEF i, n, m
<1>7. n \in ModemState /\ n.vcs = vcs /\ n.connects = connects /\ n.ifc[vc] = i
      /\ \A c \in VC : c # vc => n.ifc[c] = ifc[c]
  BY <1>1, <1>4, <1>5 DEF ModemState
<1>8. Fits(n) /\ Told(n)
  BY <1>1, <1>4, <1>7 DEF Fits, Told
<1>9. n.connects + Total(Lengths(n.ifc)) <= posts + 1
  <2> DEFINE f == Lengths(m.ifc)
             g == Lengths(n.ifc)
  <2>1. f \in [VC -> Nat] /\ g \in [VC -> Nat]
    BY <1>1, <1>7, ViewTypes
  <2>2. f[vc] = Len(box) /\ g[vc] = Len(box) + 1 /\ \A c \in VC : c # vc => g[c] = f[c]
    BY <1>1, <1>3, <1>4, <1>7 DEF Lengths
  <2>3. connects + Total(f) <= posts
    BY <1>1 DEF Counted
  <2> HIDE DEF f, g, box
  <2>4. Total(f) \in Nat /\ Total(g) \in Nat /\ Total(g) - g[vc] = Total(f) - f[vc]
    BY <2>1, <2>2, TotalChanges
  <2>5. connects \in Nat /\ posts \in Nat
    BY <1>1, <1>6
  <2>6. connects + Total(g) <= posts + 1
    BY <1>2, <2>2, <2>3, <2>4, <2>5
  <2> QED BY <1>7, <2>6 DEF g
<1>10. Ordered(QueuesOf(n.vcs), BoxesOf(n.ifc), newest, posts + 1)
  <2> DEFINE qs == QueuesOf(m.vcs)
             boxes == BoxesOf(m.ifc)
  <2>1. qs \in Queues /\ boxes \in Boxes
    BY <1>1, ViewTypes
  <2>2. Ordered(qs, boxes, newest, posts)
    BY <1>1 DEF InOrder
  <2>3. BoxesOf(n.ifc) = [boxes EXCEPT ![vc] = Append(@, message)]
    BY <1>1, <1>4, <1>7 DEF BoxesOf
  <2>4. QueuesOf(n.vcs) = qs
    BY <1>1, <1>7
  <2> HIDE DEF qs, boxes
  <2> QED BY <1>6, <2>1, <2>2, <2>3, <2>4, OrderedPost
<1>11. n \in Good'
  BY <1>6, <1>7, <1>8, <1>9, <1>10 DEF Good, Counted, InOrder, Fits, Told
<1> QED BY <1>11 DEF n

\* The modem after sessions have timed out.
AfterTimeouts(timeouts) == [vcs |-> TimedOut(timeouts), ifc |-> ifc, connects |-> connects]

\* Sessions that time out leave the modem in order.
LEMMA TimeoutsGood ==
  ASSUME Counters, Current \in Good, NEW timeouts
  PROVE  /\ AfterTimeouts(timeouts) \in Good
         /\ AfterTimeouts(timeouts).vcs = TimedOut(timeouts)
         /\ AfterTimeouts(timeouts).ifc = ifc /\ AfterTimeouts(timeouts).connects = connects
         /\ TimedOut(timeouts) \in [VC -> Channel]
<1> DEFINE m == Current
           n == AfterTimeouts(timeouts)
           off == Wiped("OFF", 0)
<1>1. /\ vcs \in [VC -> Channel] /\ ifc \in [VC -> Interface] /\ connects \in 0 .. MaxPosts
      /\ m.vcs = vcs /\ m.ifc = ifc /\ m.connects = connects /\ Fits(m) /\ Told(m)
  BY CurrentFields
<1>2. "OFF" \in ArqStates /\ 0 \in Identifiers
  BY ModemAssumption DEF ArqStates, Identifiers
<1>3. /\ off \in Channel /\ off.arq_state_flag = "OFF" /\ off.sends = <<>>
      /\ Len(off.sends) + off.held <= SendSlots /\ Len(off.rcvd) <= RcvSlots
  BY <1>2, WipedChannel
<1> HIDE DEF off
<1>4. TimedOut(timeouts) = [vc \in VC |-> IF vc \in timeouts THEN off ELSE vcs[vc]]
  BY DEF TimedOut, off
<1>5. TimedOut(timeouts) \in [VC -> Channel]
      /\ \A c \in VC : TimedOut(timeouts)[c] = vcs[c] \/ TimedOut(timeouts)[c] = off
  BY <1>1, <1>3, <1>4
<1>6. n \in ModemState /\ n.vcs = TimedOut(timeouts) /\ n.ifc = ifc /\ n.connects = connects
  BY <1>1, <1>5 DEF AfterTimeouts, ModemState
<1> HIDE DEF n, m
<1>7. Fits(n) /\ Told(n)
  BY <1>1, <1>3, <1>5, <1>6 DEF Fits, Told
<1>8. \A c \in VC : n.vcs[c].sends = m.vcs[c].sends \/ n.vcs[c].sends = <<>>
  BY <1>1, <1>3, <1>5, <1>6
<1>9. (\A c \in VC : n.ifc[c].inbox = m.ifc[c].inbox) /\ n.connects = m.connects /\ m \in Good
  BY <1>1, <1>6 DEF m
<1>10. n \in Good
  BY <1>6, <1>7, <1>8, <1>9, LessGood
<1> QED BY <1>5, <1>6, <1>10 DEF n

\* A packet is transmitted from a queue.
LEMMA TakenStep ==
  ASSUME Counters, NEW m \in Good, NEW vc \in VC, m.vcs[vc].sends # <<>>,
         Current' = [m EXCEPT !.vcs = [m.vcs EXCEPT ![vc] = Taken(@)]], posts' = posts,
         newest' = [newest EXCEPT ![vc][Head(m.vcs[vc].sends).from] = Head(m.vcs[vc].sends).number]
  PROVE  Current' \in Good' /\ newest' \in [VC -> [VC -> 0 .. MaxPosts]]
<1> DEFINE n == Current'
           q == m.vcs[vc].sends
           channel == Taken(m.vcs[vc])
<1>0. m \in ModemState /\ Fits(m) /\ Told(m) /\ Counted(m) /\ InOrder(m)
  BY DEF Good
<1>1. m.vcs \in [VC -> Channel] /\ m.vcs[vc] \in Channel /\ q \in Seq(Packet)
      /\ m.vcs[vc].held \in 0 .. SendSlots
  BY <1>0, Views
<1>2. Tail(q) \in Seq(Packet) /\ Len(Tail(q)) = Len(q) - 1 /\ Len(q) \in Nat \ {0}
  <2> HIDE DEF q
  <2>1. q # <<>>
    BY DEF q
  <2> QED BY <1>1, <2>1, TailOf
<1>3. Len(q) + m.vcs[vc].held <= SendSlots /\ Len(m.vcs[vc].rcvd) <= RcvSlots
  BY <1>0 DEF Fits
<1>4. PICK held \in {m.vcs[vc].held, m.vcs[vc].held + 1} :
        channel = [m.vcs[vc] EXCEPT !.sends = Tail(@), !.held = held]
  BY DEF Taken
<1>5. held \in 0 .. SendSlots /\ Len(Tail(q)) + held <= SendSlots
  <2> DEFINE h == m.vcs[vc].held
             l == Len(q)
             k == Len(Tail(q))
  <2>1. h \in Nat /\ l \in Nat \ {0} /\ k = l - 1 /\ l + h <= SendSlots /\ SendSlots \in Nat
        /\ held \in {h, h + 1}
    BY <1>1, <1>2, <1>3, ModemAssumption
  <2> HIDE DEF h, l, k
  <2>2. held \in 0 .. SendSlots /\ k + held <= SendSlots
    BY <2>1
  <2> QED BY <2>2 DEF k
<1> HIDE DEF channel
<1>6. channel \in Channel /\ channel.sends = Tail(q) /\ channel.held = held
      /\ channel.rcvd = m.vcs[vc].rcvd /\ channel.arq_state_flag = m.vcs[vc].arq_state_flag
      /\ channel.identifier = m.vcs[vc].identifier
  BY <1>1, <1>2, <1>4, <1>5 DEF Channel
<1>7. n = [m EXCEPT !.vcs = [m.vcs EXCEPT ![vc] = channel]]
  BY DEF channel
<1> HIDE DEF n
<1>8. n \in ModemState /\ n.ifc = m.ifc /\ n.connects = m.connects /\ n.vcs[vc] = channel
      /\ \A c \in VC : c # vc => n.vcs[c] = m.vcs[c]
  BY <1>0, <1>1, <1>6, <1>7 DEF ModemState
<1>9. Told(n) /\ Fits(n)
  <2>1. Told(n)
    BY <1>0, <1>6, <1>8 DEF Told
  <2>2. Len(channel.sends) + channel.held <= SendSlots /\ Len(channel.rcvd) <= RcvSlots
    BY <1>3, <1>5, <1>6
  <2>3. Fits(n)
    BY <1>0, <1>8, <2>2 DEF Fits
  <2> QED BY <2>1, <2>3
<1> DEFINE qs == QueuesOf(m.vcs)
           boxes == BoxesOf(m.ifc)
           packet == Head(q)
<1>10. qs \in Queues /\ boxes \in Boxes /\ qs[vc] = q /\ qs[vc] # <<>>
       /\ Ordered(qs, boxes, newest, posts)
  BY <1>0, ViewTypes DEF QueuesOf, InOrder
<1>11. QueuesOf(n.vcs) = [qs EXCEPT ![vc] = Tail(@)] /\ BoxesOf(n.ifc) = boxes
       /\ Lengths(n.ifc) = Lengths(m.ifc)
  BY <1>6, <1>8 DEF QueuesOf
<1>12. newest' = [newest EXCEPT ![vc][packet.from] = packet.number]
  OBVIOUS
<1> HIDE DEF qs, boxes, q
<1>13. /\ Ordered([qs EXCEPT ![vc] = Tail(@)], boxes,
                  [newest EXCEPT ![vc][packet.from] = packet.number], posts)
       /\ packet.from \in VC /\ packet.number \in Nat /\ packet.number <= posts
  BY <1>10, NumberTypes, OrderedSend
<1> HIDE DEF packet
<1>14. Ordered(QueuesOf(n.vcs), BoxesOf(n.ifc), newest', posts)
  BY <1>11, <1>12, <1>13
<1>15. n.connects + Total(Lengths(n.ifc)) <= posts
  BY <1>0, <1>8, <1>11 DEF Counted
<1>16. n \in Good'
  BY <1>8, <1>9, <1>14, <1>15 DEF Good, Counted, InOrder, Fits, Told
<1>17. packet.number \in 0 .. MaxPosts
  BY <1>13, ModemAssumption DEF Counters
<1>18. newest' \in [VC -> [VC -> 0 .. MaxPosts]]
  <2> DEFINE P == 0 .. MaxPosts
             row == [newest[vc] EXCEPT ![packet.from] = packet.number]
  <2>1. newest \in [VC -> [VC -> P]] /\ packet.number \in P
    BY <1>17 DEF Counters
  <2> HIDE DEF P
  <2>2. row \in [VC -> P]
    BY <1>13, <2>1
  <2>3. newest' = [newest EXCEPT ![vc] = row]
    BY <1>12
  <2> HIDE DEF row
  <2>4. newest' \in [VC -> [VC -> P]]
    BY <2>1, <2>2, <2>3
  <2> QED BY <2>4 DEF P
<1> QED BY <1>16, <1>18 DEF n

\* A frame is made.
LEMMA TransmitStep ==
  ASSUME Counters, Current \in Good, NEW timeouts, NEW extra, NEW without,
         Transmit(timeouts, extra, without)
  PROVE  Current' \in Good' /\ Counters'
<1> DEFINE m == AfterTimeouts(timeouts)
           channels == TimedOut(timeouts)
<1>1. m \in Good /\ m.vcs = channels /\ m.ifc = ifc /\ m.connects = connects
      /\ channels \in [VC -> Channel]
  BY TimeoutsGood
<1> HIDE DEF m, channels
<1>2. PICK vc \in VC :
        /\ IF HasPayload(channels[vc]) /\ ~(without /\ channels[vc].arq_state_flag = "ON")
           THEN LET packet == Head(channels[vc].sends)
                IN  /\ vcs' = [channels EXCEPT ![vc] = Taken(@)]
                    /\ newest' = [newest EXCEPT ![vc][packet.from] = packet.number]
           ELSE vcs' = channels /\ UNCHANGED newest
        /\ UNCHANGED <<ifc, need, connects, posts, arrivals>>
  BY DEF Transmit, channels
<1>3. CASE HasPayload(channels[vc]) /\ ~(without /\ channels[vc].arq_state_flag = "ON")
  <2>1. /\ vcs' = [channels EXCEPT ![vc] = Taken(@)]
        /\ newest' = [newest EXCEPT ![vc][Head(m.vcs[vc].sends).from] = Head(m.vcs[vc].sends).number]
        /\ m.vcs[vc].sends # <<>>
    BY <1>1, <1>2, <1>3 DEF HasPayload
  <2>2. m = [vcs |-> channels, ifc |-> ifc, connects |-> connects]
    BY DEF m, channels, AfterTimeouts
  <2>3. Current' = [m EXCEPT !.vcs = [m.vcs EXCEPT ![vc] = Taken(@)]]
    BY <1>2, <2>1, <2>2 DEF Current
  <2>4. Current' \in Good' /\ newest' \in [VC -> [VC -> 0 .. MaxPosts]]
    BY <1>1, <1>2, <2>1, <2>3, TakenStep
  <2> QED BY <1>2, <2>4 DEF Counters
<1>4. CASE ~(HasPayload(channels[vc]) /\ ~(without /\ channels[vc].arq_state_flag = "ON"))
  <2>1. vcs' = channels /\ UNCHANGED <<newest, ifc, connects, posts, arrivals>>
    BY <1>2, <1>4
  <2>2. Current' = m
    BY <2>1 DEF Current, m, AfterTimeouts, channels
  <2> QED BY <1>1, <2>1, <2>2, SameGood DEF Counters
<1> QED BY <1>3, <1>4

\* The first state.
LEMMA InitGood ==
  ASSUME Init
  PROVE  Inv
<1> DEFINE m == Current
<1>1. NumVC \in Nat \ {0} /\ 0 \in VC /\ 0 \in 0 .. MaxPosts /\ 0 \in 0 .. MaxArrivals
      /\ "OFF" \in ArqStates /\ 0 \in Identifiers
  BY ModemAssumption DEF VC, ArqStates, Identifiers
<1>2. /\ Wiped("OFF", 0) \in Channel /\ Wiped("OFF", 0).arq_state_flag = "OFF"
      /\ Wiped("OFF", 0).sends = <<>>
      /\ Len(Wiped("OFF", 0).sends) + Wiped("OFF", 0).held <= SendSlots
      /\ Len(Wiped("OFF", 0).rcvd) <= RcvSlots
  BY <1>1, WipedChannel
<1> DEFINE i == [arq_expected_state |-> "OFF", session_identifier |-> 0, inbox |-> <<>>,
                 told |-> [rsp |-> "none", session_identifier |-> 0]]
<1>3. i \in Interface /\ i.inbox = <<>>
  <2>1. <<>> \in Seq(Message)
    OBVIOUS
  <2> QED BY <1>1, <2>1 DEF Interface
<1> HIDE DEF i
<1>4. vcs = [vc \in VC |-> Wiped("OFF", 0)] /\ ifc = [vc \in VC |-> i] /\ connects = 0 /\ posts = 0
      /\ newest = [vc \in VC |-> [from \in VC |-> 0]]
  BY DEF Init, i
<1>5. m \in ModemState /\ m.connects = 0 /\ (\A c \in VC : m.vcs[c] = Wiped("OFF", 0) /\ m.ifc[c] = i)
  BY <1>1, <1>2, <1>3, <1>4 DEF ModemState, Current
<1> HIDE DEF m
<1>6. Fits(m) /\ Told(m)
  BY <1>2, <1>5 DEF Fits, Told
<1>7. Counted(m)
  <2> DEFINE f == Lengths(m.ifc)
             u == Sums(f)
             T == {n \in 0 .. NumVC : u[n] = 0}
  <2>1. f \in [VC -> Nat] /\ \A c \in VC : f[c] = 0
    BY <1>3, <1>5, ViewTypes DEF Lengths
  <2> HIDE DEF f
  <2>2. u[0] = 0 /\ \A n \in 1 .. NumVC : u[n] = u[n - 1] + f[n - 1]
    BY <2>1, SumsOf
  <2> HIDE DEF u
  <2>3. \A n \in 1 .. NumVC : n - 1 \in VC /\ n - 1 \in 0 .. NumVC
    BY <1>1 DEF VC
  <2>4. 0 \in T /\ \A n \in 1 .. NumVC : n - 1 \in T => n \in T
    BY <1>1, <2>1, <2>2, <2>3
  <2>5. \A n \in 0 .. NumVC : n \in T
    <3> HIDE DEF T
    <3> QED BY <1>1, <2>4, UpTo
  <2>6. u[NumVC] = 0
    BY <1>1, <2>5
  <2> QED BY <1>4, <1>5, <2>6 DEF Counted, Total, u, f
<1>8. InOrder(m)
  <2>1. \A c \in VC : QueuesOf(m.vcs)[c] = <<>> /\ BoxesOf(m.ifc)[c] = <<>>
    BY <1>2, <1>3, <1>5 DEF QueuesOf, BoxesOf
  <2>2. \A c, from \in VC : newest[c][from] <= posts
    BY <1>4
  <2> QED BY <2>1, <2>2 DEF InOrder, Ordered, QueueOrdered, BoxOrdered
<1>9. Current \in Good
  BY <1>5, <1>6, <1>7, <1>8 DEF Good, m
<1>10. Counters /\ start \in VC /\ need \subseteq VC /\ tick \in BOOLEAN
  BY <1>1, <1>4 DEF Init, Counters
<1> QED BY <1>9, <1>10 DEF Inv

\* Every step.
LEMMA StepGood ==
  ASSUME Inv, [Next]_vars
  PROVE  Inv'
<1>0. Counters /\ start \in VC /\ need \subseteq VC /\ tick \in BOOLEAN /\ Current \in Good
  BY DEF Inv
<1>1. CASE UNCHANGED vars
  <2>1. Current' = Current /\ Good' = Good /\ Counters'
    BY <1>0, <1>1, SameGood DEF Current, Counters, vars
  <2> QED BY <1>0, <1>1, <2>1 DEF Inv, vars
<1>2. CASE Tick
  <2>1. Ticked[NumVC] \in Good
    BY <1>0, TickedGood
  <2> DEFINE m == Ticked[NumVC]
  <2>2. vcs' = m.vcs /\ ifc' = m.ifc /\ connects' = m.connects /\ tick' = ~tick
        /\ UNCHANGED <<start, need, posts, arrivals, waited, newest>>
    BY <1>2 DEF Tick
  <2> HIDE DEF m
  <2>3. m \in Good /\ m \in ModemState
    BY <2>1 DEF m, Good
  <2>4. Current' = m
    BY <2>2, <2>3 DEF Current, ModemState
  <2>5. Current' \in Good' /\ Counters' /\ tick' \in BOOLEAN
    BY <1>0, <2>2, <2>3, <2>4, SameGood DEF Counters
  <2> QED BY <1>0, <2>2, <2>5 DEF Inv
<1>3. ASSUME Callback, UNCHANGED tick PROVE Inv'
  <2>1. CASE SkyTx
    <3>1. ASSUME NEW timeouts, TransmitNothing(timeouts) PROVE Inv'
      <4>1. Current' = AfterTimeouts(timeouts) /\ UNCHANGED <<start, need, posts, arrivals, newest>>
        BY <3>1 DEF TransmitNothing, Current, AfterTimeouts
      <4>2. Current' \in Good' /\ Counters'
        BY <1>0, <4>1, TimeoutsGood, SameGood DEF Counters
      <4> QED BY <1>0, <1>3, <4>1, <4>2 DEF Inv
    <3>2. ASSUME NEW timeouts, NEW extra, NEW without, Transmit(timeouts, extra, without) PROVE Inv'
      <4>1. Current' \in Good' /\ Counters'
        BY <1>0, <3>2, TransmitStep
      <4>2. need' = need /\ \E vc \in VC : start' = _sky_tx_advance_vc_round_robin(vc)
        BY <3>2 DEF Transmit
      <4>3. start' \in VC
        BY <1>0, <4>2, NextTurn
      <4> QED BY <1>0, <1>3, <4>1, <4>2, <4>3 DEF Inv
    <3> QED BY <2>1, <3>1, <3>2 DEF SkyTx
  <2>2. ASSUME NEW vc \in VC, NEW message \in Message, Post(vc, message),
               IsData(message) => message.data.from = vc /\ message.data.number = posts + 1
        PROVE  Inv'
    <3>1. Current' \in Good'
      BY <1>0, <2>2, PostStep
    <3>2. Counters'
      BY <1>0, <2>2, ModemAssumption DEF Post, Counters
    <3>3. UNCHANGED <<start, need>>
      BY <2>2 DEF Post
    <3> QED BY <1>0, <1>3, <3>1, <3>2, <3>3 DEF Inv
  <2>3. ASSUME NEW vc \in VC, NEW cmd \in Commands, Post(vc, [cmd |-> cmd]) PROVE Inv'
    <3> DEFINE message == [cmd |-> cmd]
    <3>1. message \in Message /\ ~IsData(message)
      BY DEF Message, IsData
    <3>2. Post(vc, message)
      BY <2>3
    <3> HIDE DEF message
    <3> QED BY <2>2, <3>1, <3>2
  <2>4. ASSUME NEW vc \in VC, NEW to \in VC,
               Post(vc, [data |-> [from |-> vc, number |-> posts + 1], vc |-> to])
        PROVE  Inv'
    <3> DEFINE packet == [from |-> vc, number |-> posts + 1]
               message == [data |-> packet, vc |-> to]
    <3>1. posts + 1 \in Posts
      <4>1. posts < MaxPosts
        BY <2>4 DEF Post
      <4>2. posts \in Nat /\ MaxPosts \in Nat
        BY <1>0, ModemAssumption DEF Counters
      <4> QED BY <4>1, <4>2 DEF Posts
    <3>2. packet \in Packet /\ packet.from = vc /\ packet.number = posts + 1
      BY <3>1 DEF Packet
    <3>3. Post(vc, message)
      BY <2>4
    <3> HIDE DEF packet
    <3>4. message \in Message /\ message.data = packet
      BY <3>2 DEF Message
    <3> HIDE DEF message
    <3> QED BY <2>2, <3>2, <3>3, <3>4
  <2>5. ASSUME NEW vc \in VC, ReceivePayload(vc) PROVE Inv'
    <3>1. Current' \in Good'
      BY <1>0, <2>5, PayloadStep
    <3>2. Counters' /\ UNCHANGED <<start, need>>
      BY <1>0, <2>5, ModemAssumption DEF ReceivePayload, Counters
    <3> QED BY <1>0, <1>3, <3>1, <3>2 DEF Inv
  <2>6. ASSUME NEW vc \in VC, ReceiveAcknowledge(vc) PROVE Inv'
    <3>1. Current' \in Good'
      BY <1>0, <2>6, AcknowledgeStep
    <3>2. Counters' /\ UNCHANGED <<start, need>>
      BY <1>0, <2>6 DEF ReceiveAcknowledge, Counters
    <3> QED BY <1>0, <1>3, <3>1, <3>2 DEF Inv
  <2>7. ASSUME NEW vc \in VC, NEW identifier \in PeerIdentifiers \cup 1 .. connects,
               ReceiveHandshake(vc, identifier)
        PROVE  Inv'
    <3>1. Current' \in Good'
      BY <1>0, <2>7, HandshakeStep
    <3>2. Counters' /\ UNCHANGED <<start, need>>
      BY <1>0, <2>7, ModemAssumption DEF ReceiveHandshake, Counters
    <3> QED BY <1>0, <1>3, <3>1, <3>2 DEF Inv
  <2>8. ASSUME NEW vc \in VC, ReceiveRefused(vc) PROVE Inv'
    <3>1. Current' = Current /\ UNCHANGED <<posts, newest, arrivals, start>> /\ need' \subseteq VC
      BY <1>0, <2>8 DEF ReceiveRefused, Current
    <3>2. Current' \in Good' /\ Counters'
      BY <1>0, <3>1, SameGood DEF Counters
    <3> QED BY <1>0, <1>3, <3>1, <3>2 DEF Inv
  <2> QED BY <1>3, <2>1, <2>3, <2>4, <2>5, <2>6, <2>7, <2>8 DEF Callback
<1> QED BY <1>1, <1>2, <1>3 DEF Next

-----------------------------------------------------------------------------
(* What follows. *)

\* A number and two sequences in one.
IsJoined(s, a, q, p) ==
  /\ Len(s) = 1 + Len(q) + Len(p)
  /\ s[1] = a
  /\ \A k \in 1 .. Len(q) : s[1 + k] = q[k]
  /\ \A k \in 1 .. Len(p) : s[1 + Len(q) + k] = p[k]

\* What concatenation makes of them.
LEMMA Joined ==
  ASSUME NEW a \in Nat, NEW q \in Seq(Nat), NEW p \in Seq(Nat)
  PROVE  IsJoined(<<a>> \o q \o p, a, q, p)
<1> DEFINE N == Nat
           u == <<a>> \o q
           s == u \o p
<1>1. <<a>> \in Seq(N) /\ Len(<<a>>) = 1 /\ <<a>>[1] = a /\ q \in Seq(N) /\ p \in Seq(N)
      /\ Len(q) \in Nat /\ Len(p) \in Nat
  OBVIOUS
<1> HIDE DEF N
<1>2. /\ u \in Seq(N) /\ Len(u) = 1 + Len(q)
      /\ \A i \in 1 .. 1 + Len(q) : u[i] = IF i <= 1 THEN <<a>>[i] ELSE q[i - 1]
  BY <1>1, ConcatProperties
<1> HIDE DEF u
<1>3. /\ Len(s) = Len(u) + Len(p)
      /\ \A i \in 1 .. Len(u) + Len(p) : s[i] = IF i <= Len(u) THEN u[i] ELSE p[i - Len(u)]
  BY <1>1, <1>2, ConcatProperties
<1> HIDE DEF s
<1>4. s[1] = a
  BY <1>1, <1>2, <1>3
<1>5. ASSUME NEW k \in 1 .. Len(q) PROVE s[1 + k] = q[k]
  <2>1. 1 + k \in 1 .. 1 + Len(q) /\ ~(1 + k <= 1) /\ 1 + k - 1 = k /\ 1 + k \in 1 .. Len(u) + Len(p)
        /\ 1 + k <= Len(u)
    BY <1>1, <1>2
  <2> QED BY <1>2, <1>3, <2>1
<1>6. ASSUME NEW k \in 1 .. Len(p) PROVE s[1 + Len(q) + k] = p[k]
  <2>1. 1 + Len(q) + k \in 1 .. Len(u) + Len(p) /\ ~(1 + Len(q) + k <= Len(u))
        /\ 1 + Len(q) + k - Len(u) = k
    BY <1>1, <1>2
  <2> QED BY <1>3, <2>1
<1>7. IsJoined(s, a, q, p)
  BY <1>2, <1>3, <1>4, <1>5, <1>6 DEF IsJoined
<1> QED BY <1>7 DEF s, u

\* Numbers that grow along a queue and along a socket grow along what is on its
\* way.
LEMMA OrderOnTheWay ==
  ASSUME Counters, Current \in Good, NEW from \in VC, NEW vc \in VC,
         NEW i \in 1 .. Len(OnTheirWay(from, vc)), NEW j \in 1 .. Len(OnTheirWay(from, vc)),
         i < j, OnTheirWay(from, vc)[j] # 0
  PROVE  OnTheirWay(from, vc)[i] < OnTheirWay(from, vc)[j]
<1> DEFINE q == vcs[vc].sends
           box == ifc[from].inbox
           queued == [k \in 1 .. Len(q) |-> IF q[k].from = from THEN q[k].number ELSE 0]
           posted == [k \in 1 .. Len(box) |->
             IF IsData(box[k]) /\ box[k].vc = vc THEN box[k].data.number ELSE 0]
           a == newest[vc][from]
           s == OnTheirWay(from, vc)
<1>1. q \in Seq(Packet) /\ Len(q) \in Nat /\ box \in Seq(Message) /\ Len(box) \in Nat
  BY CurrentFields, Views
<1>2. a \in Nat /\ newest \in Numbers
  BY NumberTypes DEF Numbers
<1>3. QueuesOf(vcs)[vc] = q /\ BoxesOf(ifc)[from] = box
  BY DEF QueuesOf, BoxesOf
<1>4. QueueOrdered(q, newest[vc], posts) /\ BoxOrdered(box, from, QueuesOf(vcs), newest, posts)
  BY <1>3, CurrentFields DEF InOrder, Ordered
<1>5. s = <<a>> \o queued \o posted
  BY DEF OnTheirWay, IsData
<1> HIDE DEF q, box, a
<1>6. \A k \in 1 .. Len(q) : q[k].number \in Nat
  BY <1>1, QueueElement
<1>7. \A k \in 1 .. Len(box) : IsData(box[k]) => box[k].data.number \in Nat
  BY <1>1, BoxElement
<1>8. queued \in Seq(Nat) /\ Len(queued) = Len(q)
      /\ \A k \in 1 .. Len(q) : queued[k] = IF q[k].from = from THEN q[k].number ELSE 0
  BY <1>1, <1>6
<1>9. posted \in Seq(Nat) /\ Len(posted) = Len(box)
      /\ \A k \in 1 .. Len(box) :
           posted[k] = IF IsData(box[k]) /\ box[k].vc = vc THEN box[k].data.number ELSE 0
  BY <1>1, <1>7
<1> HIDE DEF queued, posted
<1>10. /\ Len(s) = 1 + Len(q) + Len(box) /\ s[1] = a
       /\ \A k \in 1 .. Len(q) : s[1 + k] = queued[k]
       /\ \A k \in 1 .. Len(box) : s[1 + Len(q) + k] = posted[k]
  <2>1. IsJoined(<<a>> \o queued \o posted, a, queued, posted)
    BY <1>2, <1>8, <1>9, Joined
  <2> HIDE DEF s
  <2> QED BY <1>5, <1>8, <1>9, <2>1 DEF IsJoined
<1> HIDE DEF s
<1>11. i \in 1 .. Len(s) /\ j \in 1 .. Len(s) /\ s[j] # 0
  BY DEF s
<1>12. CASE j \in 2 .. 1 + Len(q)
  <2> DEFINE k == j - 1
  <2>1. k \in 1 .. Len(q) /\ j = 1 + k
    BY <1>1, <1>12
  <2>2. s[j] = q[k].number /\ q[k].from = from /\ q[k].number \in Nat \ {0}
    BY <1>6, <1>8, <1>10, <1>11, <2>1
  <2>3. CASE i = 1
    <3>1. a < q[k].number
      BY <1>4, <2>1, <2>2 DEF QueueOrdered, a
    <3> QED BY <1>10, <2>2, <2>3, <3>1 DEF s
  <2>4. CASE i # 1
    <3> DEFINE l == i - 1
    <3>1. l \in 1 .. Len(q) /\ i = 1 + l /\ l < k
      BY <1>1, <1>10, <1>11, <2>1, <2>4
    <3>2. s[i] = IF q[l].from = from THEN q[l].number ELSE 0
      BY <1>8, <1>10, <3>1
    <3> HIDE DEF l, k
    <3>3. q[l].from = from => q[l].number < q[k].number
      BY <1>4, <2>1, <2>2, <3>1 DEF QueueOrdered
    <3> QED BY <2>2, <3>2, <3>3 DEF s
  <2> QED BY <2>3, <2>4
<1>13. CASE j \in 2 + Len(q) .. 1 + Len(q) + Len(box)
  <2> DEFINE k == j - 1 - Len(q)
  <2>1. k \in 1 .. Len(box) /\ j = 1 + Len(q) + k
    BY <1>1, <1>13
  <2>2. s[j] = box[k].data.number /\ IsData(box[k]) /\ box[k].data.number \in Nat \ {0}
    BY <1>7, <1>9, <1>10, <1>11, <2>1
  <2> HIDE DEF k
  <2>3. CASE i = 1
    <3>1. a < box[k].data.number
      BY <1>4, <2>1, <2>2 DEF BoxOrdered, a
    <3> QED BY <1>10, <2>2, <2>3, <3>1 DEF s
  <2>4. CASE i \in 2 .. 1 + Len(q)
    <3> DEFINE l == i - 1
    <3>1. l \in 1 .. Len(q) /\ i = 1 + l
      BY <1>1, <2>4
    <3>2. s[i] = IF q[l].from = from THEN q[l].number ELSE 0
      BY <1>8, <1>10, <3>1
    <3> HIDE DEF l
    <3>3. q[l].from = from => q[l].number < box[k].data.number
      BY <1>3, <1>4, <2>1, <2>2, <3>1 DEF BoxOrdered
    <3> QED BY <2>2, <3>2, <3>3 DEF s
  <2>5. CASE i \in 2 + Len(q) .. 1 + Len(q) + Len(box)
    <3> DEFINE l == i - 1 - Len(q)
    <3>1. l \in 1 .. Len(box) /\ i = 1 + Len(q) + l /\ l < k
      BY <1>1, <2>1, <2>5
    <3>2. s[i] = IF IsData(box[l]) /\ box[l].vc = vc THEN box[l].data.number ELSE 0
      BY <1>9, <1>10, <3>1
    <3> HIDE DEF l
    <3>3. IsData(box[l]) => box[l].data.number < box[k].data.number
      BY <1>4, <2>1, <2>2, <3>1 DEF BoxOrdered
    <3> QED BY <2>2, <3>2, <3>3 DEF s
  <2> QED BY <1>1, <1>10, <1>11, <2>3, <2>4, <2>5
<1> QED BY <1>1, <1>10, <1>11, <1>12, <1>13

\* The modem is in order in every state that is reached.
LEMMA Invariance == Spec => []Inv
<1>1. Init => Inv
  BY InitGood
<1>2. Inv /\ [Next]_vars => Inv'
  BY StepGood
<1> QED BY <1>1, <1>2, PTL DEF Spec

\* The types and the bounds of the modem: no ring is over its slots, and the
\* sessions this end begins do not outnumber the messages posted (TypeOK).
THEOREM TypeCorrect == Spec => []TypeOK
<1>1. Inv => TypeOK
  <2> SUFFICES ASSUME Inv PROVE TypeOK
    OBVIOUS
  <2>1. Counters /\ start \in VC /\ need \subseteq VC /\ tick \in BOOLEAN /\ Current \in Good
    BY DEF Inv
  <2>2. /\ vcs \in [VC -> Channel] /\ ifc \in [VC -> Interface] /\ connects \in 0 .. MaxPosts
        /\ Current.vcs = vcs /\ Current.ifc = ifc /\ Current.connects = connects
        /\ Current \in ModemState /\ Fits(Current) /\ Counted(Current)
    BY <2>1, CurrentFields
  <2>3. ASSUME NEW vc \in VC PROVE Len(ifc[vc].inbox) <= MaxPosts
    <3> DEFINE f == Lengths(ifc)
    <3>1. f \in [VC -> Nat] /\ f[vc] = Len(ifc[vc].inbox)
      BY <2>2, ViewTypes DEF Lengths
    <3>2. connects + Total(f) <= posts
      BY <2>2 DEF Counted
    <3> HIDE DEF f
    <3>3. f[vc] <= Total(f) /\ Total(f) \in Nat
      BY <3>1, TotalCovers, TotalChanges
    <3> QED BY <2>1, <2>2, <3>1, <3>2, <3>3, ModemAssumption DEF Counters
  <2>4. \A vc \in VC : Len(vcs[vc].sends) + vcs[vc].held <= SendSlots /\ Len(vcs[vc].rcvd) <= RcvSlots
    BY <2>2 DEF Fits
  <2> QED BY <2>1, <2>2, <2>3, <2>4 DEF TypeOK, Counters
<1> QED BY <1>1, Invariance, PTL

\* While a session is being set up, the application knows its identifier, whatever
\* commands, timeouts and handshakes came between two ticks (ConnectingIsTold).
THEOREM ToldCorrect == Spec => []ConnectingIsTold
<1>1. Inv => ConnectingIsTold
  BY CurrentFields DEF Inv, Told, ConnectingIsTold
<1> QED BY <1>1, Invariance, PTL

\* Packets of one socket to one channel are first sent in the order in which they
\* were posted (SentInOrder).
THEOREM OrderCorrect == Spec => []SentInOrder
<1>1. Inv => SentInOrder
  BY OrderOnTheWay DEF Inv, SentInOrder
<1> QED BY <1>1, Invariance, PTL
===============================================================================
