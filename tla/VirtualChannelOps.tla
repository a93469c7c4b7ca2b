-------------------------- MODULE VirtualChannelOps --------------------------
(***************************************************************************)
(* A virtual channel of reliable_vc.c as operators on one record, an       *)
(* operator per C function and with its name.                              *)
(*                                                                         *)
(* Time enters the channel's decisions only as three questions, which are  *)
(* parameters here: whether the channel may send one more idle frame in    *)
(* this window (window_open), whether one of its timers has passed the     *)
(* idle-frame threshold (idle), and whether the session has timed out (the *)
(* caller decides).  unconfirmed_payloads matters only as "more than 0".   *)
(* A ring item refers to its payload directly; that the element buffer     *)
(* gives back what was stored is the business of SendRing, RcvRing and     *)
(* ElementBuffer.                                                          *)
(***************************************************************************)
EXTENDS SendRingOps, RcvRingOps

CONSTANTS
  Identifiers,  \* session identifiers, a set of numbers
  ByteBase,     \* values of one byte of a session identifier
  Elements,     \* elements of the buffer that each payload takes
  MaxElements,  \* elements that a payload of maximum length takes
  Empty         \* the payloads of length 0

ASSUME IdentifiersAssumption == Identifiers \subseteq Nat /\ ByteBase \in Nat \ {0}

ASSUME PayloadsAssumption ==
  /\ MaxElements \in Nat /\ Elements \in [Idx -> 1 .. MaxElements]
  /\ Empty \subseteq Idx

ArqStates == {"OFF", "IN_INIT", "ON"}

SkyVirtualChannel == [
  sendRing               : SkySendRing,
  rcvRing                : SkyRcvRing,
  arq_state_flag         : ArqStates,
  arq_session_identifier : Identifiers \cup {0},   \* 0 when ARQ is off
  handshake_send         : 0 .. 1,
  need_recall            : BOOLEAN,
  unconfirmed_payloads   : BOOLEAN]

\* What the three wipes have in common: empty rings that start at number 0.
Wiped(state, identifier, handshake_send) == [
  sendRing               |-> sky_send_ring_wipe(0),
  rcvRing                |-> sky_rcv_ring_wipe(0),
  arq_state_flag         |-> state,
  arq_session_identifier |-> identifier,
  handshake_send         |-> handshake_send,
  need_recall            |-> FALSE,
  unconfirmed_payloads   |-> FALSE]

sky_vc_wipe_to_arq_off_state == Wiped("OFF", 0, 0)
sky_vc_wipe_to_arq_init_state(identifier) == Wiped("IN_INIT", identifier, 0)
sky_vc_wipe_to_arq_on_state(identifier) == Wiped("ON", identifier, 1)

\* The elements that the packets in a ring take.
InUse(ring) ==
  {use \in (DOMAIN ring.buff) \X (1 .. MaxElements) :
     LET idx == ring.buff[use[1]].idx
     IN  idx # EB_NULL_IDX /\ use[2] <= Elements[idx]}

\* sky_element_buffer_store finds enough free elements: sky_vc_create makes the
\* buffer for rcv_ring_len + send_ring_len - 2 payloads of maximum length, and both
\* rings store there.
StoreHasRoom(vc, payload) ==
  Cardinality(InUse(vc.sendRing)) + Cardinality(InUse(vc.rcvRing)) + Elements[payload]
    <= (RcvLen + SendLen - 2) * MaxElements

-----------------------------------------------------------------------------
(* Frames: what of a SkyRadioFrame the channel writes and reads.  An       *)
(* extension or payload that is absent is the empty sequence.              *)

Frame == [
  flag_arq_on   : BOOLEAN,
  arq_handshake : Seq([peer_state : ArqStates, identifier : Identifiers]),
  arq_request   : Seq([sequence : Sequence, mask : SUBSET (0 .. MaskBits - 1)]),
  arq_ctrl      : Seq([tx_sequence : Sequence, rx_sequence : Sequence]),
  arq_sequence  : Seq(Sequence),
  payload       : Seq(Idx)]

EmptyFrame == [
  flag_arq_on |-> FALSE, arq_handshake |-> <<>>, arq_request |-> <<>>,
  arq_ctrl |-> <<>>, arq_sequence |-> <<>>, payload |-> <<>>]

-----------------------------------------------------------------------------
(* Sending. *)

\* sky_vc_push_packet_to_send succeeds.
CanPush(vc, payload) == ~sendRing_is_full(vc.sendRing) /\ StoreHasRoom(vc, payload)

sky_vc_push_packet_to_send(vc, payload) ==
  [vc EXCEPT !.sendRing = sendRing_push_packet_to_send(@, payload)]

\* There is something missing below a packet that arrived, or the peer's
\* control extension said so.
WantsRecall(vc) ==
  rcvRing_get_horizon_bitmap(vc.rcvRing, MaskBits) # {} \/ vc.need_recall

sky_vc_content_to_send(vc, window_open, idle) ==
  CASE vc.arq_state_flag = "OFF" ->
         sendRing_count_packets_to_send(vc.sendRing, FALSE) > 0
    [] vc.arq_state_flag = "IN_INIT" -> window_open
    [] vc.arq_state_flag = "ON" ->
         \/ sendRing_count_packets_to_send(vc.sendRing, TRUE) > 0
         \/ window_open /\ WantsRecall(vc)
         \/ vc.handshake_send = 1
         \/ window_open /\ (idle \/ vc.unconfirmed_payloads)

\* sky_vc_read_packet_for_tx_monotonic: read a new packet and acknowledge it
\* at once.
ReadMonotonic(ring) ==
  LET read == sendRing_read_to_tx(ring, FALSE)
  IN  sendRing_clean_tail_up_to(read, read.tx_sequence)

\* sky_vc_fill_frame has packets to send but finds none: the function returns
\* an error after it has changed the channel, and no frame leaves.
FillFails(vc) ==
  /\ vc.arq_state_flag = "ON"
  /\ sendRing_count_packets_to_send(vc.sendRing, TRUE) > 0
  /\ ~PeekFinds(vc.sendRing, TRUE)

\* The parts of a frame of a channel in state ON.
SendsRequest(vc, window_open) == window_open /\ WantsRecall(vc)
SendsCtrl(vc, window_open, idle) ==
  \/ window_open /\ (idle \/ vc.unconfirmed_payloads)
  \/ sendRing_count_packets_to_send(vc.sendRing, TRUE) > 0
SendsPayload(vc) == PeekFinds(vc.sendRing, TRUE)

\* The payload that sendRing_read_to_tx copies.
NextPayload(ring, include_resend) == ring.buff[ReadSlot(ring, include_resend)].idx

\* sky_vc_fill_frame with ARQ off: a packet of length 0 is not read, and so stays.
ReadsUnnumbered(ring) == PeekFinds(ring, FALSE) /\ NextPayload(ring, FALSE) \notin Empty

\* A packet of length 0 is no payload to the receiver.
Carried(payload) == IF payload \in Empty THEN <<>> ELSE <<payload>>

\* A session identifier as the peer will read it: it goes through sky_hton32 on
\* its way out and is not converted on its way in, so a little-endian peer reads
\* its bytes in reverse (of which an identifier has two here).
Wire(identifier) == (identifier % ByteBase) * ByteBase + identifier \div ByteBase

\* The frame sky_vc_fill_frame writes.
FilledFrame(vc, window_open, idle) ==
  CASE vc.arq_state_flag = "OFF" ->
         IF ReadsUnnumbered(vc.sendRing)
         THEN [EmptyFrame EXCEPT !.payload = <<NextPayload(vc.sendRing, FALSE)>>]
         ELSE EmptyFrame
    [] vc.arq_state_flag = "IN_INIT" ->
         IF window_open
         THEN [EmptyFrame EXCEPT !.arq_handshake =
                 <<[peer_state |-> "IN_INIT", identifier |-> Wire(vc.arq_session_identifier)]>>]
         ELSE EmptyFrame
    [] vc.arq_state_flag = "ON" ->
         [flag_arq_on   |-> TRUE,
          arq_handshake |-> IF vc.handshake_send = 0 THEN <<>>
            ELSE <<[peer_state |-> "ON", identifier |-> Wire(vc.arq_session_identifier)]>>,
          arq_request   |-> IF ~SendsRequest(vc, window_open) THEN <<>>
            ELSE <<[sequence |-> vc.rcvRing.head_sequence,
                    mask |-> rcvRing_get_horizon_bitmap(vc.rcvRing, MaskBits)]>>,
          arq_ctrl      |-> IF ~SendsCtrl(vc, window_open, idle) THEN <<>>
            ELSE <<[tx_sequence |-> vc.sendRing.tx_sequence,
                    rx_sequence |-> vc.rcvRing.head_sequence]>>,
          arq_sequence  |-> IF ~SendsPayload(vc) THEN <<>>
            ELSE <<PeekSequence(vc.sendRing, TRUE)>>,
          payload       |-> IF ~SendsPayload(vc) THEN <<>>
            ELSE Carried(NextPayload(vc.sendRing, TRUE))]

\* Mutant: handshake_send is decremented unguarded.
FillUnguarded(vc, window_open, idle) ==
  [vc EXCEPT !.handshake_send = @ - 1,
             !.sendRing = IF SendsPayload(vc) THEN sendRing_read_to_tx(@, TRUE) ELSE @]

\* What sky_vc_fill_frame leaves of the channel.  When it fails, the read at
\* its end is not reached.
sky_vc_fill_frame(vc, window_open, idle) ==
  CASE vc.arq_state_flag = "OFF" ->
         IF ReadsUnnumbered(vc.sendRing)
         THEN [vc EXCEPT !.sendRing = ReadMonotonic(@)] ELSE vc
    [] vc.arq_state_flag = "IN_INIT" -> vc
    [] vc.arq_state_flag = "ON" ->
         [vc EXCEPT
           !.handshake_send       = 0,
           !.need_recall          = @ /\ ~SendsRequest(vc, window_open),
           !.unconfirmed_payloads = @ /\ ~SendsCtrl(vc, window_open, idle),
           !.sendRing             = IF SendsPayload(vc) THEN sendRing_read_to_tx(@, TRUE) ELSE @]

-----------------------------------------------------------------------------
(* Receiving. *)

\* Mutant: the new session keeps the rings of the old one.
HandshakeWithoutWipe(vc, peer_state, identifier) ==
  [vc EXCEPT !.arq_state_flag = "ON", !.arq_session_identifier = identifier,
             !.handshake_send = 1]

\* Mutant: a session that is on is not given up for a new one.
HandshakeIgnored(vc, peer_state, identifier) ==
  IF vc.arq_state_flag = "ON" THEN vc ELSE sky_vc_wipe_to_arq_on_state(identifier)

\* Mutant: a repeated handshake is not answered again.
HandshakeAnsweredOnce(vc, peer_state, identifier) ==
  IF vc.arq_state_flag = "ON" /\ identifier = vc.arq_session_identifier
  THEN [vc EXCEPT !.handshake_send = 0]
  ELSE sky_vc_wipe_to_arq_on_state(identifier)

\* sky_vc_handle_handshake
sky_vc_handle_handshake(vc, peer_state, identifier) ==
  LET same == identifier = vc.arq_session_identifier
  IN  CASE vc.arq_state_flag = "OFF" -> sky_vc_wipe_to_arq_on_state(identifier)
        [] vc.arq_state_flag = "IN_INIT" ->
             IF same THEN [vc EXCEPT !.arq_state_flag = "ON", !.handshake_send = 0]
             ELSE IF identifier > vc.arq_session_identifier
             THEN sky_vc_wipe_to_arq_on_state(identifier)
             ELSE vc
        [] vc.arq_state_flag = "ON" ->
             IF same
             THEN [vc EXCEPT !.handshake_send = IF peer_state = "IN_INIT" THEN 1 ELSE 0]
             ELSE sky_vc_wipe_to_arq_on_state(identifier)

\* rcvRing_push_rx_packet with the shared element buffer.
PushedRx(vc, payload, sequence) ==
  IF Accepts(vc.rcvRing, sequence) /\ StoreHasRoom(vc, payload)
  THEN [vc EXCEPT !.rcvRing = rcvRing_push_rx_packet(@, payload, sequence)]
  ELSE vc

sky_vc_push_rx_packet_monotonic(vc, payload) ==
  PushedRx(vc, payload, vc.rcvRing.head_sequence)

\* Mutant: the packet's number is ignored.
PushInArrivalOrder(vc, payload, sequence) ==
  [sky_vc_push_rx_packet_monotonic(vc, payload) EXCEPT !.unconfirmed_payloads = TRUE]

sky_vc_push_rx_packet(vc, payload, sequence) ==
  [PushedRx(vc, payload, sequence) EXCEPT !.unconfirmed_payloads = TRUE]

sky_vc_update_tx_sync(vc, peer_rx_head_sequence_by_ctrl) ==
  IF ValidAcknowledge(vc.sendRing, peer_rx_head_sequence_by_ctrl)
  THEN [vc EXCEPT !.sendRing = sendRing_clean_tail_up_to(@, peer_rx_head_sequence_by_ctrl)]
  ELSE vc

sky_vc_update_rx_sync(vc, peer_tx_head_sequence_by_ctrl) ==
  LET sync == rcvRing_get_sequence_sync_status(vc.rcvRing, peer_tx_head_sequence_by_ctrl)
  IN  [vc EXCEPT !.need_recall = IF sync = "IN_SYNC" THEN FALSE
                                 ELSE @ \/ sync = "OUT_OF_SYNC"]

\* The three parts of a frame a channel in state ON looks at, in the order of
\* sky_vc_process_frame; a payload without a number ends the processing.
AfterCtrl(vc, frame) ==
  IF frame.arq_ctrl = <<>> THEN vc
  ELSE sky_vc_update_rx_sync(sky_vc_update_tx_sync(vc, frame.arq_ctrl[1].rx_sequence),
                             frame.arq_ctrl[1].tx_sequence)

AfterPayload(vc, frame) ==
  IF frame.payload = <<>> \/ frame.arq_sequence = <<>> THEN vc
  ELSE sky_vc_push_rx_packet(vc, frame.payload[1], frame.arq_sequence[1])

AfterRequest(vc, frame) ==
  IF frame.arq_request = <<>> \/ (frame.payload # <<>> /\ frame.arq_sequence = <<>>) THEN vc
  ELSE [vc EXCEPT !.sendRing = sendRing_schedule_resends_by_mask(
                     @, frame.arq_request[1].sequence, frame.arq_request[1].mask)]

\* sky_vc_process_frame: the handshake first, in any state, then the rest as
\* the state after the handshake says.
sky_vc_process_frame(received, frame) ==
  LET vc == IF frame.arq_handshake = <<>> THEN received
            ELSE sky_vc_handle_handshake(received, frame.arq_handshake[1].peer_state,
                                         frame.arq_handshake[1].identifier)
  IN  CASE vc.arq_state_flag = "OFF" ->
             IF frame.payload = <<>> THEN vc
             ELSE sky_vc_push_rx_packet_monotonic(vc, frame.payload[1])
        [] vc.arq_state_flag = "IN_INIT" -> vc
        [] vc.arq_state_flag = "ON" ->
             AfterRequest(AfterPayload(AfterCtrl(vc, frame), frame), frame)
=============================================================================
