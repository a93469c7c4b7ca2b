-------------------------------- MODULE Modem --------------------------------
(***************************************************************************)
(* The modem of one end: applications post messages to the sockets of the  *)
(* virtual channels (vc_interface.cpp), the radio asks for frames and      *)
(* delivers them (skymodem.cpp), and sky_tx takes the channels in turn.    *)
(* All of this runs in one thread; an action is one callback of it.        *)
(*                                                                         *)
(* A channel is kept to its ARQ state and its two queues: the rings, the   *)
(* session between two ends and the windows of the MAC are in SendRing,    *)
(* RcvRing, ArqLink and TddLink.  What a channel has to send besides new   *)
(* payloads, when its session times out and what the peer sends is open.   *)
(* The sockets are external: a message waits until it is taken.            *)
(***************************************************************************)
EXTENDS Naturals, Sequences

CONSTANTS
  NumVC,            \* SKY_NUM_VIRTUAL_CHANNELS
  SendSlots,        \* packets a send ring holds
  RcvSlots,         \* packets a receive ring holds
  Commands,         \* the commands applications use
  PeerIdentifiers,  \* session identifiers of the peer, as this end reads them
  MaxPosts,         \* messages that are posted (bound)
  MaxArrivals       \* payloads and handshakes that arrive (bound)

VC == 0 .. NumVC - 1

\* get_state, get_stats and get_config are answered from what is there; the other
\* commands change nothing kept here, and neither does a message that is refused
\* with a SuoError.  Messages that end the modem are left out: data that is not
\* hexadecimal (stoul) and json members of another type throw what is not a
\* SuoError, and SkyModem::run catches that only outside its loop.
CommandNames == {"arq_connect", "arq_disconnect", "flush", "get_state", "mac_reset"}

ASSUME ModemAssumption ==
  /\ {NumVC, SendSlots, RcvSlots} \subseteq Nat \ {0}
  /\ Commands \subseteq CommandNames /\ PeerIdentifiers \subseteq Nat \ {0}
  /\ MaxPosts \in Nat /\ MaxArrivals \in Nat

VARIABLES
  vcs,       \* the channels: their ARQ state, packets to send, packets received
  ifc,       \* VirtualChannelInterface of each channel, and its subscriber's socket
  start,     \* vc_round_robin_start
  need,      \* the channels with vc_enforcement_need
  connects,  \* sessions this end has begun: it numbers the next identifier
  posts, arrivals,
  tick,      \* history: turned over by every tick
  waited,    \* history: frames made while a channel was waiting for its turn
  newest     \* history: the newest packet of each socket sent on each channel

vars == <<vcs, ifc, start, need, connects, posts, arrivals, tick, waited, newest>>

Posts == 1 .. MaxPosts
Packet == [from : VC, number : Posts]
Message == [cmd : Commands] \cup [data : Packet, vc : VC]
Identifiers == 0 .. MaxPosts \cup PeerIdentifiers

ArqStates == {"OFF", "IN_INIT", "ON"}

\* sends: packets not yet transmitted.  held: slots of the send ring whose packets
\* were transmitted and are not acknowledged.
Channel == [
  arq_state_flag : ArqStates,
  identifier     : Identifiers,
  sends          : Seq(Packet),
  held           : 0 .. SendSlots,
  rcvd           : Seq(1 .. MaxArrivals)]

\* told: the last message published about the session.
Interface == [
  arq_expected_state : ArqStates,
  session_identifier : Identifiers,
  inbox              : Seq(Message),
  told               : [rsp : {"none", "arq_connecting", "arq_connected", "arq_timeout"},
                        session_identifier : Identifiers]]

\* The three wipes: both queues are emptied.
Wiped(state, identifier) ==
  [arq_state_flag |-> state, identifier |-> identifier, sends |-> <<>>, held |-> 0, rcvd |-> <<>>]

\* The send ring has a free slot.
HasRoom(channel) == Len(channel.sends) + channel.held < SendSlots

Init ==
  /\ vcs = [vc \in VC |-> Wiped("OFF", 0)]
  /\ ifc = [vc \in VC |-> [arq_expected_state |-> "OFF", session_identifier |-> 0, inbox |-> <<>>,
                           told |-> [rsp |-> "none", session_identifier |-> 0]]]
  /\ start = 0 /\ need = {} /\ connects = 0 /\ posts = 0 /\ arrivals = 0
  /\ tick = FALSE
  /\ waited = [vc \in VC |-> 0]
  /\ newest = [vc \in VC |-> [from \in VC |-> 0]]

-----------------------------------------------------------------------------
(* VirtualChannelInterface::check, in its three parts, on the modem's state. *)

Tell(m, vc, rsp) ==
  [m EXCEPT !.ifc[vc].told =
     [rsp |-> rsp, session_identifier |-> m.ifc[vc].session_identifier]]

\* Mutant: a session that is over is announced only when it was established.
AnnounceOnlyFromOn(m, vc) ==
  LET expected == m.ifc[vc].arq_expected_state
      state == m.vcs[vc].arq_state_flag
  IN  IF expected = "ON" /\ state = "OFF"
      THEN Tell([m EXCEPT !.ifc[vc].arq_expected_state = "OFF"], vc, "arq_timeout")
      ELSE IF expected # "ON" /\ state = "ON"
      THEN Tell([m EXCEPT !.ifc[vc].arq_expected_state = "ON"], vc, "arq_connected")
      ELSE m

\* Has ARQ changed its state?
Announce(m, vc) ==
  LET expected == m.ifc[vc].arq_expected_state
      state == m.vcs[vc].arq_state_flag
  IN  IF expected # "OFF" /\ state = "OFF"
      THEN Tell([m EXCEPT !.ifc[vc].arq_expected_state = "OFF"], vc, "arq_timeout")
      ELSE IF expected # "ON" /\ state = "ON"
      THEN Tell([m EXCEPT !.ifc[vc].arq_expected_state = "ON"], vc, "arq_connected")
      ELSE m

\* One received packet is taken from its ring.  sky_vc_read_next_received returns 0
\* for it and not its length, so the test "ret > 0" before it is published fails:
\* what an application sees of it is nothing.
ReadReceived(m, vc) ==
  IF m.vcs[vc].rcvd = <<>> THEN m ELSE [m EXCEPT !.vcs[vc].rcvd = Tail(@)]

\* Mutant: there is always room.
PushAlways(m, vc, message) == [m EXCEPT !.vcs[message.vc].sends = Append(@, message.data)]

\* A packet goes to the channel the message names, and is dropped when there is
\* no room.
Push(m, vc, message) ==
  IF ~HasRoom(m.vcs[message.vc]) THEN m
  ELSE [m EXCEPT !.vcs[message.vc].sends = Append(@, message.data)]

\* Mutant: the identifier is set once the answer has been sent.
ConnectTellsOld(m, vc) ==
  LET identifier == m.connects + 1
      told == Tell(m, vc, "arq_connecting")
  IN  [told EXCEPT !.connects = identifier,
                   !.vcs[vc] = Wiped("IN_INIT", identifier),
                   !.ifc[vc].arq_expected_state = "IN_INIT",
                   !.ifc[vc].session_identifier = identifier]

\* The connect command tells the identifier of the new session.
Connect(m, vc) ==
  LET identifier == m.connects + 1
  IN  Tell([m EXCEPT !.connects = identifier,
                     !.vcs[vc] = Wiped("IN_INIT", identifier),
                     !.ifc[vc].arq_expected_state = "IN_INIT",
                     !.ifc[vc].session_identifier = identifier],
           vc, "arq_connecting")

Command(m, vc, cmd) ==
  IF cmd = "arq_connect" THEN Connect(m, vc)
  ELSE IF cmd \in {"arq_disconnect", "flush"} THEN [m EXCEPT !.vcs[vc] = Wiped("OFF", 0)]
  ELSE m

\* Mutant: the message is left in the socket.
HandleAndKeep(m, vc) ==
  IF m.ifc[vc].inbox = <<>> THEN m
  ELSE LET message == Head(m.ifc[vc].inbox)
       IN  IF "data" \in DOMAIN message THEN Push(m, vc, message)
           ELSE Command(m, vc, message.cmd)

\* One message is taken from the socket.
Handle(m, vc) ==
  IF m.ifc[vc].inbox = <<>> THEN m
  ELSE LET message == Head(m.ifc[vc].inbox)
           taken == [m EXCEPT !.ifc[vc].inbox = Tail(@)]
       IN  IF "data" \in DOMAIN message THEN Push(taken, vc, message)
           ELSE Command(taken, vc, message.cmd)

check(m, vc) == Handle(ReadReceived(Announce(m, vc), vc), vc)

\* VCInterface::tick: every channel is checked, in order.  What the first n checks
\* of a tick leave of the modem's state:
Ticked[n \in 0 .. NumVC] ==
  IF n = 0 THEN [vcs |-> vcs, ifc |-> ifc, connects |-> connects] ELSE check(Ticked[n - 1], n - 1)

Tick ==
  LET m == Ticked[NumVC]
  IN  /\ vcs' = m.vcs /\ ifc' = m.ifc /\ connects' = m.connects
      /\ tick' = ~tick
      /\ UNCHANGED <<start, need, posts, arrivals, waited, newest>>

\* An application posts a message.
Post(vc, message) ==
  /\ posts < MaxPosts
  /\ posts' = posts + 1
  /\ ifc' = [ifc EXCEPT ![vc].inbox = Append(@, message)]
  /\ UNCHANGED <<vcs, start, need, connects, arrivals, waited, newest>>

-----------------------------------------------------------------------------
(* SkyModem::frame_transmit: sky_tx. *)

\* Sessions that time out, which sky_tx checks first.
TimedOut(timeouts) == [vc \in VC |-> IF vc \in timeouts THEN Wiped("OFF", 0) ELSE vcs[vc]]

\* A payload is waiting, and the session is not being set up.
HasPayload(channel) == channel.sends # <<>> /\ channel.arq_state_flag # "IN_INIT"

\* Mutant: the round robin stands still.
AdvanceNot(vc) == start

_sky_tx_advance_vc_round_robin(vc) == (start + 1) % NumVC

\* The i-th channel of the round robin.
Turn(i) == (start + i) % NumVC

\* _sky_tx_pick_vc picks this channel, when these have something to send; channel
\* 0 may have to send an idle frame.
Picks(wants, vc) ==
  \/ \E i \in VC : vc = Turn(i) /\ vc \in wants /\ \A j \in 0 .. i - 1 : Turn(j) \notin wants
  \/ wants = {} /\ vc = 0

\* A channel is flagged or has a payload, and waits for its turn while another is
\* served.
Waiting(channels, served) ==
  [vc \in VC |-> IF vc # served /\ (vc \in need \/ HasPayload(channels[vc]))
                 THEN waited[vc] + 1 ELSE 0]

\* The next packet is transmitted; with ARQ on its slot is held.
Taken(channel) ==
  [channel EXCEPT !.sends = Tail(@), !.held = IF channel.arq_state_flag = "ON" THEN @ + 1 ELSE @]

\* sky_tx with a channel to serve.  extra: channels with ARQ extensions or
\* retransmissions to send.  The frame takes a new payload with it, unless it
\* carries a retransmission or sky_vc_fill_frame fails.
Transmit(timeouts, extra, without) ==
  LET channels == TimedOut(timeouts)
      wants == need \cup extra \cup {vc \in VC : HasPayload(channels[vc])}
  IN  \E vc \in VC :
        /\ Picks(wants, vc)
        /\ start' = _sky_tx_advance_vc_round_robin(vc)
        /\ waited' = Waiting(channels, vc)
        /\ IF HasPayload(channels[vc]) /\ ~(without /\ channels[vc].arq_state_flag = "ON")
           THEN LET packet == Head(channels[vc].sends)
                IN  /\ vcs' = [channels EXCEPT ![vc] = Taken(@)]
                    /\ newest' = [newest EXCEPT ![vc][packet.from] = packet.number]
           ELSE vcs' = channels /\ UNCHANGED newest
        /\ UNCHANGED <<ifc, need, connects, posts, arrivals>>

\* sky_tx with the window closed or nothing to send.
TransmitNothing(timeouts) ==
  /\ vcs' = TimedOut(timeouts)
  /\ waited' = [vc \in VC |-> IF vc \in need \/ HasPayload(vcs'[vc]) THEN waited[vc] ELSE 0]
  /\ UNCHANGED <<ifc, start, need, connects, posts, arrivals, newest>>

SkyTx ==
  \E timeouts \in SUBSET {vc \in VC : vcs[vc].arq_state_flag # "OFF"} :
    \/ TransmitNothing(timeouts)
    \/ \E extra \in SUBSET {vc \in VC \ timeouts : vcs[vc].arq_state_flag # "OFF"},
          without \in BOOLEAN : Transmit(timeouts, extra, without)

-----------------------------------------------------------------------------
(* SkyModem::frame_received: sky_rx. *)

\* A payload is put into the receive ring, unless it is full or ARQ is being set
\* up.
ReceivePayload(vc) ==
  /\ arrivals < MaxArrivals
  /\ arrivals' = arrivals + 1
  /\ vcs' = IF vcs[vc].arq_state_flag = "IN_INIT" \/ Len(vcs[vc].rcvd) = RcvSlots THEN vcs
            ELSE [vcs EXCEPT ![vc].rcvd = Append(@, arrivals')]
  /\ UNCHANGED <<ifc, start, need, connects, posts, waited, newest>>

\* The peer acknowledges packets.
ReceiveAcknowledge(vc) ==
  /\ \E held \in 0 .. vcs[vc].held - 1 : vcs' = [vcs EXCEPT ![vc].held = held]
  /\ UNCHANGED <<ifc, start, need, connects, posts, arrivals, waited, newest>>

\* The channel after a handshake.
sky_vc_handle_handshake(channel, identifier) ==
  IF channel.arq_state_flag = "IN_INIT" /\ identifier = channel.identifier
  THEN [channel EXCEPT !.arq_state_flag = "ON"]
  ELSE IF \/ channel.arq_state_flag = "OFF"
          \/ channel.arq_state_flag = "IN_INIT" /\ identifier > channel.identifier
          \/ channel.arq_state_flag = "ON" /\ identifier # channel.identifier
  THEN Wiped("ON", identifier)
  ELSE channel

\* A handshake of the peer, for its own session or in answer to one of ours.  Of an
\* identifier that crosses the link the receiver reads the bytes in reverse
\* (sky_hton32 and nothing on the way in, see Wire in VirtualChannelOps), and
\* compares that with its own: PeerIdentifiers are what is read, and an identifier
\* of ours that comes back has been reversed twice.
ReceiveHandshake(vc, identifier) ==
  /\ arrivals < MaxArrivals
  /\ arrivals' = arrivals + 1
  /\ vcs' = [vcs EXCEPT ![vc] = sky_vc_handle_handshake(@, identifier)]
  /\ waited' = [waited EXCEPT ![vc] = IF vc \in need \/ HasPayload(vcs'[vc]) THEN @ ELSE 0]
  /\ UNCHANGED <<ifc, start, need, connects, posts, newest>>

\* The authentication refuses a frame.
ReceiveRefused(vc) ==
  /\ need' = need \cup {vc}
  /\ UNCHANGED <<vcs, ifc, start, connects, posts, arrivals, waited, newest>>

-----------------------------------------------------------------------------
Callback ==
  \/ SkyTx
  \/ \E vc \in VC :
       \/ \E cmd \in Commands : Post(vc, [cmd |-> cmd])
       \/ \E to \in VC : Post(vc, [data |-> [from |-> vc, number |-> posts + 1], vc |-> to])
       \/ ReceivePayload(vc)
       \/ ReceiveAcknowledge(vc)
       \/ \E identifier \in PeerIdentifiers \cup 1 .. connects : ReceiveHandshake(vc, identifier)
       \/ ReceiveRefused(vc)

Next == Tick \/ (Callback /\ UNCHANGED tick)

Spec == Init /\ [][Next]_vars

\* The SDR drives the ticks for as long as the modem runs: Tick is never disabled,
\* and there are infinitely many.
FairSpec == Spec /\ []<>tick /\ []<>~tick

-----------------------------------------------------------------------------
(* Properties. *)

TypeOK ==
  /\ vcs \in [VC -> Channel] /\ ifc \in [VC -> Interface]
  /\ \A vc \in VC : /\ Len(vcs[vc].sends) + vcs[vc].held =< SendSlots
                     /\ Len(vcs[vc].rcvd) =< RcvSlots /\ Len(ifc[vc].inbox) =< MaxPosts
  /\ start \in VC /\ need \subseteq VC
  /\ connects \in 0 .. MaxPosts /\ posts \in 0 .. MaxPosts /\ arrivals \in 0 .. MaxArrivals
  /\ tick \in BOOLEAN /\ newest \in [VC -> [VC -> 0 .. MaxPosts]]

\* A channel that has a payload to send, or a flag for a sequence reset, is served
\* within one round, however busy the others are, which of them are flagged for
\* good and what becomes of the frame.
ServedInTurn == \A vc \in VC : waited[vc] < NumVC

\* The numbers of one socket's packets to one channel, from the newest sent over
\* those queued to those still in messages; 0 where a packet or message is none of
\* them.
OnTheirWay(from, vc) ==
  LET queued == [i \in 1 .. Len(vcs[vc].sends) |->
        IF vcs[vc].sends[i].from = from THEN vcs[vc].sends[i].number ELSE 0]
      posted == [i \in 1 .. Len(ifc[from].inbox) |->
        LET message == ifc[from].inbox[i]
        IN  IF "data" \in DOMAIN message /\ message.vc = vc THEN message.data.number ELSE 0]
  IN  <<newest[vc][from]>> \o queued \o posted

\* Packets of one application to one channel are handed to the radio for the first
\* time in the order they were posted, and only once, whichever socket they came
\* through and whatever was dropped or wiped between them.
SentInOrder ==
  \A from, vc \in VC :
    LET numbers == OnTheirWay(from, vc)
    IN  \A i, j \in 1 .. Len(numbers) : i < j /\ numbers[j] # 0 => numbers[i] < numbers[j]

\* While a session is being set up, the application has been told its identifier
\* and the interface expects to see it through.
ConnectingIsTold ==
  \A vc \in VC : vcs[vc].arq_state_flag = "IN_INIT" =>
    /\ ifc[vc].arq_expected_state = "IN_INIT"
    /\ ifc[vc].told = [rsp |-> "arq_connecting", session_identifier |-> vcs[vc].identifier]

\* When ARQ has changed its state for good, the application is told so in the end,
\* also when the state changed several times between two ticks, by a command, by
\* a timeout or by the peer ("When the ARQ process changes state following message
\* is output", json_interface.md).
SettledStateIsTold ==
  \A vc \in VC :
    /\ <>[](vcs[vc].arq_state_flag = "ON") => <>[](ifc[vc].told.rsp = "arq_connected")
    /\ <>[](vcs[vc].arq_state_flag = "OFF") => <>[](ifc[vc].told.rsp \in {"none", "arq_timeout"})

\* Once no more of them come, every message has been handled and every packet
\* received has left its ring, although a tick takes only one of each from a channel.
NothingStaysQueued ==
  <>[](\A vc \in VC : ifc[vc].inbox = <<>> /\ vcs[vc].rcvd = <<>>)
===============================================================================
