------------------------------- MODULE ArqLink -------------------------------
(***************************************************************************)
(* Two virtual channels that talk over the radio: sky_vc_fill_frame on one *)
(* side, sky_vc_process_frame on the other, and the application on both.   *)
(* The radio keeps frames in order and may lose any of them.  Payloads are *)
(* numbered in the order in which each side's application pushes them.     *)
(***************************************************************************)
EXTENDS VirtualChannelOps

CONSTANTS
  A, B,         \* the two ends of the link
  Talkers,      \* the ends whose application pushes packets
  TickCount,    \* values of a tick (MOD_TIME_TICKS)
  ConnectTicks, \* when each end's application may connect, in ticks since the start
                \* that do not wrap (bound)
  Quitters,     \* the ends that disconnect or time out
  MaxPush,      \* packets an end may push (bound)
  InFlight      \* frames on their way in one direction (bound)

Node == {A, B}
Peer(n) == IF n = A THEN B ELSE A

ASSUME LinkAssumption ==
  /\ A # B /\ Talkers \subseteq Node /\ Quitters \subseteq Node
  /\ MaxPush \in Nat /\ InFlight \in Nat
  /\ Idx = 1 .. MaxPush /\ EB_NULL_IDX = 0
  /\ Identifiers = 0 .. ByteBase * ByteBase - 1
  /\ TickCount \in Nat \ {0} /\ TickCount <= ByteBase * ByteBase
  /\ ConnectTicks \in [Node -> SUBSET (Nat \ {0})]

VARIABLES
  vc,       \* the channel at each end
  radio,    \* frames on their way to each end
  clock,    \* when each end connected last, in ticks that do not wrap, or 0
  pushed,   \* packets pushed at each end so far
  origin,   \* of these, the ones pushed before the last wipe
  lastRead, \* payload read last at each end since the last wipe, or 0
  hungUp    \* history: some end has disconnected or timed out

vars == <<vc, radio, clock, pushed, origin, lastRead, hungUp>>

Init ==
  /\ vc = [n \in Node |-> sky_vc_wipe_to_arq_off_state]
  /\ radio = [n \in Node |-> <<>>]
  /\ clock = [n \in Node |-> 0]
  /\ pushed = [n \in Node |-> 0]
  /\ origin = [n \in Node |-> 0]
  /\ lastRead = [n \in Node |-> 0]
  /\ hungUp = FALSE

-----------------------------------------------------------------------------
(* The application. *)

Push(n) ==
  /\ pushed[n] < MaxPush
  /\ CanPush(vc[n], pushed[n] + 1)
  /\ vc' = [vc EXCEPT ![n] = sky_vc_push_packet_to_send(@, pushed[n] + 1)]
  /\ pushed' = [pushed EXCEPT ![n] = @ + 1]
  /\ UNCHANGED <<radio, clock, origin, lastRead, hungUp>>

\* sky_vc_read_next_received
Read(n) ==
  LET ring == vc[n].rcvRing
  IN  /\ rcvRing_count_readable_packets(ring) # 0
      /\ lastRead' = [lastRead EXCEPT ![n] = ring.buff[ring.tail].idx]
      /\ vc' = [vc EXCEPT ![n].rcvRing = rcvRing_read_next_received(@)]
      /\ UNCHANGED <<radio, clock, pushed, origin, hungUp>>

\* A wipe starts the books of an end afresh.
Restart(n) ==
  /\ origin' = [origin EXCEPT ![n] = pushed[n]]
  /\ lastRead' = [lastRead EXCEPT ![n] = 0]
  /\ UNCHANGED pushed

\* The tick that is read at this time.
Tick(time) == time % TickCount

\* sky_vc_arq_connect; the identifier is the current tick, which has moved on
\* since this end connected last, and may have wrapped.
Connect(n) ==
  /\ \E time \in ConnectTicks[n] :
       /\ time > clock[n]
       /\ clock' = [clock EXCEPT ![n] = time]
       /\ vc' = [vc EXCEPT ![n] = sky_vc_wipe_to_arq_init_state(Tick(time))]
  /\ Restart(n)
  /\ UNCHANGED <<radio, hungUp>>

\* sky_vc_arq_disconnect, or sky_vc_check_timeouts when a timeout has passed.
Disconnect(n) ==
  /\ vc[n].arq_state_flag # "OFF"
  /\ vc' = [vc EXCEPT ![n] = sky_vc_wipe_to_arq_off_state]
  /\ Restart(n)
  /\ hungUp' = TRUE
  /\ UNCHANGED <<radio, clock>>

-----------------------------------------------------------------------------
(* The radio. *)

\* sky_tx picked this channel and it fills a frame.
Transmit(n, window_open, idle) ==
  /\ sky_vc_content_to_send(vc[n], window_open, idle)
  /\ ~FillFails(vc[n])
  /\ Len(radio[Peer(n)]) < InFlight
  /\ radio' = [radio EXCEPT ![Peer(n)] =
                 Append(@, FilledFrame(vc[n], window_open, idle))]
  /\ vc' = [vc EXCEPT ![n] = sky_vc_fill_frame(@, window_open, idle)]
  /\ UNCHANGED <<clock, pushed, origin, lastRead, hungUp>>

\* sky_tx picked this channel and sky_vc_fill_frame returns an error.
TransmitFails(n, window_open, idle) ==
  /\ FillFails(vc[n])
  /\ vc' = [vc EXCEPT ![n] = sky_vc_fill_frame(@, window_open, idle)]
  /\ UNCHANGED <<radio, clock, pushed, origin, lastRead, hungUp>>

\* The handshake in a frame makes the channel start over.
HandshakeWipes(channel, frame) ==
  /\ frame.arq_handshake # <<>>
  /\ \/ channel.arq_state_flag = "OFF"
     \/ /\ frame.arq_handshake[1].identifier # channel.arq_session_identifier
        /\ \/ channel.arq_state_flag = "ON"
           \/ frame.arq_handshake[1].identifier > channel.arq_session_identifier

\* sky_rx hands the frame to sky_vc_process_frame.
Receive(n) ==
  /\ radio[n] # <<>>
  /\ vc' = [vc EXCEPT ![n] = sky_vc_process_frame(@, Head(radio[n]))]
  /\ radio' = [radio EXCEPT ![n] = Tail(@)]
  /\ IF HandshakeWipes(vc[n], Head(radio[n])) THEN Restart(n)
     ELSE UNCHANGED <<pushed, origin, lastRead>>
  /\ UNCHANGED <<clock, hungUp>>

Lose(n) ==
  /\ radio[n] # <<>>
  /\ radio' = [radio EXCEPT ![n] = Tail(@)]
  /\ UNCHANGED <<vc, clock, pushed, origin, lastRead, hungUp>>

Next ==
  \/ \E n \in Talkers : Push(n)
  \/ \E n \in Quitters : Disconnect(n)
  \/ \E n \in Node :
       \/ Connect(n)
       \/ Read(n)
       \/ Receive(n)
       \/ Lose(n)
       \/ \E window_open, idle \in BOOLEAN :
            Transmit(n, window_open, idle) \/ TransmitFails(n, window_open, idle)

Spec == Init /\ [][Next]_vars

-----------------------------------------------------------------------------
(* Properties. *)

TypeOK ==
  /\ vc \in [Node -> SkyVirtualChannel]
  /\ radio \in [Node -> Seq(Frame)]
  /\ clock \in [Node -> Nat]
  /\ pushed \in [Node -> 0 .. MaxPush]
  /\ origin \in [Node -> 0 .. MaxPush]
  /\ lastRead \in [Node -> 0 .. MaxPush]
  /\ hungUp \in BOOLEAN

\* The two ends are in one ARQ session.
InSession ==
  /\ \A n \in Node : vc[n].arq_state_flag = "ON"
  /\ vc[A].arq_session_identifier = Wire(vc[B].arq_session_identifier)

\* The newest packet the application can read or has read, in this session.
Received(n) ==
  LET ring == vc[n].rcvRing
  IN  IF rcvRing_count_readable_packets(ring) # 0
      THEN ring.buff[ring_wrap(ring.head - 1, RcvLen)].idx
      ELSE lastRead[n]

\* In a session, every packet the sender has forgotten because it was
\* acknowledged is with the receiver: no packet is acknowledged and lost.
AckedIsReceived ==
  InSession => \A n \in Node :
    LET acknowledged == pushed[n] - vc[n].sendRing.storage_count
    IN  acknowledged > origin[n] => Received(Peer(n)) >= acknowledged

\* In a session, the number the receiver waits for lies between the oldest
\* packet the sender still has and the first one it has not transmitted: what is
\* missing can be requested, and what is requested can be recalled.
WindowsAligned ==
  InSession => \A n \in Node :
    LET ring == vc[n].sendRing
    IN  SeqMinus(vc[Peer(n)].rcvRing.head_sequence, ring.tail_sequence)
          <= SeqMinus(ring.tx_sequence, ring.tail_sequence)

\* With ARQ on, the application reads the peer's packets one after the other:
\* none twice, none skipped, none out of order, whatever is lost and however
\* often packets are retransmitted.
InOrder ==
  [][\A n \in Node :
       /\ lastRead'[n] # lastRead[n]
       /\ lastRead[n] # 0 /\ lastRead'[n] # 0
       /\ vc[n].arq_state_flag = "ON"
       => lastRead'[n] = lastRead[n] + 1]_vars

\* The numbers that a request asks for and that this end has transmitted.
Asked(request, ring) ==
  {SeqPlus(request.sequence, k) :
     k \in {j \in 0 .. MaskBits : /\ Requested(request.mask, j)
                                  /\ j < SeqMinus(ring.tx_sequence, request.sequence)}}

\* In a session, a retransmission request is obeyed as far as the resend list goes:
\* every packet it asks for that was transmitted is still in the ring and is
\* scheduled, although the loop over the mask ends at the first number it cannot
\* schedule and the request was written when the windows stood elsewhere.
RequestsObeyed ==
  \A n \in Node :
    LET frame == Head(radio[n])
        list == sky_vc_process_frame(vc[n], frame).sendRing.resend_list
    IN  InSession /\ radio[n] # <<>> /\ frame.arq_request # <<>> =>
          \/ Asked(frame.arq_request[1], vc[n].sendRing) \subseteq {list[i] : i \in DOMAIN list}
          \/ Len(list) = ResendDepth

\* What the comment in sky_vc_handle_handshake says where an end that is on sees
\* its own identifier: "Matching session identifier matches so this is just
\* redundant re-transmitted handshake."  The end keeps its rings, so the peer
\* that sent the handshake has to be still in step with them.
MatchingHandshakeIsRedundant ==
  \A n \in Node :
    (/\ InSession
     /\ radio[n] # <<>>
     /\ Head(radio[n]).arq_handshake # <<>>
     /\ Head(radio[n]).arq_handshake[1].identifier = vc[n].arq_session_identifier)
      => WindowsAligned

-----------------------------------------------------------------------------
(* Liveness. *)

\* A frame that carries this part is received.
ReceiveWith(n, part) ==
  /\ radio[n] # <<>>
  /\ Head(radio[n])[part] # <<>>
  /\ Receive(n)

\* sky_tx keeps being called, windows keep opening and timers keep running; the
\* radio does not lose every frame that carries a given part; the application
\* keeps reading.
Fairness ==
  \A n \in Node :
    /\ SF_vars(Transmit(n, TRUE, TRUE))
    /\ WF_vars(Read(n))
    /\ \A part \in {"arq_handshake", "arq_request", "arq_ctrl", "payload"} :
         SF_vars(ReceiveWith(n, part))

FairSpec == Spec /\ Fairness

\* A packet pushed in a session is eventually read at the other end, however
\* many frames are lost.
EventuallyRead ==
  \A n \in Talkers, k \in 1 .. MaxPush :
    (InSession /\ origin[n] < k /\ k <= pushed[n]) ~> lastRead[Peer(n)] >= k

\* Both ends are connecting, and each finds its own identifier larger than the one
\* it reads from its peer: both ignore what they receive.
Standoff ==
  \A n \in Node :
    /\ vc[n].arq_state_flag = "IN_INIT"
    /\ Wire(vc[Peer(n)].arq_session_identifier) < vc[n].arq_session_identifier

\* An end that is connecting does not wait for ever: the handshake is repeated
\* until an answer gets through, although the peer may hang up, connect itself
\* or prefer its own identifier.  The one exception is a standoff, which the code
\* leaves only by a timeout or by the application.
Established ==
  \A n \in Node : vc[n].arq_state_flag = "IN_INIT"
                    ~> (vc[n].arq_state_flag # "IN_INIT" \/ Standoff)

\* When one end connects, once or again, and nobody hangs up, both ends are in one
\* session in the end and stay there, whatever handshakes of earlier sessions are
\* still on their way.  The identifiers of the connecting end have to grow: after
\* one that fell, because the tick wrapped, an end may follow a late answer of its
\* own earlier session ("TODO: Overflow not considered!", reliable_vc.c).
SessionSettles ==
  \/ <>[](\A n \in Node : clock[n] = 0)
  \/ <>(hungUp \/ \A n \in Node : clock[n] # 0)
  \/ <>[]InSession
=============================================================================
