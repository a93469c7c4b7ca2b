------------------------------- MODULE TddLink -------------------------------
(* Two ends that share one radio channel in turns (mac.c, with the parts of    *)
(* skylink_tx.c and skylink_rx.c that drive it). Time passes in ticks; each    *)
(* end has a clock of its own that wraps. The radio is external: a frame takes *)
(* Delay ticks to arrive and may be complete from then on, until it has aged   *)
(* MaxAge ticks; an end cannot receive while it transmits, and a frame may be  *)
(* lost. Whether sky_tx has something to send is left open.                    *)
EXTENDS MacOps

CONSTANTS
  End,                      \* the two ends
  Offset,                   \* how far the clock of an end is ahead
  Delay,                    \* ticks until a frame reaches the other end
  MaxAge,                   \* ticks after which a frame is over
  MaxResets                 \* bound on the mac_reset commands

ASSUME TddLinkAssumption ==
  /\ (\E a, b \in End : a # b /\ End = {a, b}) /\ Offset \in [End -> Nat]
  /\ {Delay, MaxAge, MaxResets} \subseteq Nat /\ Delay =< MaxAge

VARIABLES
  now,                      \* the time
  mac,                      \* the MAC of each end
  air,                      \* the frame each end is transmitting, or Silence
  due,                      \* the ends whose modem has yet to ask for a frame
  resets,                   \* how many mac_reset commands there were
  quiet,                    \* history: ticks for which an end has to be quiet
  in_step                   \* history: the ends know each other's windows

vars == <<now, mac, air, due, resets, quiet, in_step>>

Silence == [age |-> -1]

Peer(e) == CHOOSE p \in End : p # e

Clock(e) == wrap_time_ticks(now + Offset[e])

CanSend(e) == mac_can_send(mac[e], Clock(e))

\* Each end has the length of the other's window right.
LengthsKnown(macs) ==
  \A e \in End : macs[e].peer_window_length = macs[Peer(e)].my_window_length

Init ==
  /\ now = 0
  /\ mac = [e \in End |-> sky_mac_create]
  /\ air = [e \in End |-> Silence]
  /\ due = End
  /\ resets = 0
  /\ quiet = [e \in End |-> 0]
  /\ in_step = FALSE

\* T0 has not been set for a whole turn of the clock.
ClockTurns(e) == Clock(e)' = mac[e].T0

\* sky_tick, once every modem that is not transmitting has asked for a frame. A
\* clock that comes round to T0 again is in another place of the cycle than it
\* was the first time: the ends fall out of step.
Tick ==
  /\ \A e \in due : air[e] # Silence
  /\ due' = End
  /\ now' = wrap_time_ticks(now + 1)
  /\ air' = [e \in End |-> IF air[e].age \in {-1, MaxAge} THEN Silence
                           ELSE [air[e] EXCEPT !.age = @ + 1]]
  /\ quiet' = [e \in End |-> IF ClockTurns(e) THEN 0 ELSE Max({0, quiet[e] - 1})]
  /\ in_step' = (in_step /\ \A e \in End : ~ClockTurns(e))
  /\ UNCHANGED <<mac, resets>>

\* sky_tx after it has picked a virtual channel, if there is one.
Tracked(e, content) == _sky_tx_track_tdd_state(mac[e], CanSend(e), content, Clock(e))

\* sky_tx that returns without a frame: the window is closed, there is nothing
\* to send, or the virtual channel fails to fill the frame.
TxNothing(e, content) ==
  /\ e \in due /\ air[e] = Silence
  /\ due' = due \ {e}
  /\ mac' = [mac EXCEPT ![e] = Tracked(e, content)]
  /\ in_step' = (in_step /\ LengthsKnown(mac'))
  /\ UNCHANGED <<now, air, resets, quiet>>

\* sky_tx that makes a frame, with the state of the MAC after its bookkeeping.
\* Two frames that are in the air together spoil each other. The T0 of a frame is
\* history: where the announced window began.
TxFrame(e) ==
  /\ e \in due /\ air[e] = Silence
  /\ due' = due \ {e}
  /\ CanSend(e)
  /\ LET tracked == Tracked(e, TRUE)
         alone == air[Peer(e)] = Silence
         frame == [fields |-> mac_set_frame_fields(tracked, Clock(e)),
                   T0 |-> tracked.T0, age |-> 0, clear |-> alone]
     IN /\ mac' = [mac EXCEPT ![e] = tracked]
        /\ air' = IF alone THEN [air EXCEPT ![e] = frame]
                  ELSE [air EXCEPT ![e] = frame, ![Peer(e)].clear = FALSE]
  /\ in_step' = (in_step /\ LengthsKnown(mac'))
  /\ UNCHANGED <<now, resets, quiet>>

\* sky_rx with a frame that is authenticated. The receive time is the tick at
\* which the frame arrived, and may lie back. The ends are in step then, unless
\* the sender's T0 was set, or its clock came round to it, since the frame was made.
Receive(e) ==
  LET frame == air[Peer(e)]
      late == frame.age - Delay
  IN /\ frame # Silence /\ late >= 0 /\ frame.clear
     /\ mac' = [mac EXCEPT ![e] =
          mac_update_belief(@, Clock(e), wrap_time_ticks(Clock(e) - late),
                            frame.fields.window, frame.fields.remaining)]
     /\ air' = [air EXCEPT ![Peer(e)] = Silence]
     /\ quiet' = [quiet EXCEPT ![e] = Max({0, frame.fields.remaining + Tail - late})]
     /\ in_step' = /\ LengthsKnown(mac') /\ frame.T0 = mac[Peer(e)].T0
                   /\ wrap_time_ticks(Clock(Peer(e)) - frame.T0) >= frame.age
     /\ UNCHANGED <<now, due, resets>>

\* The modem has found the beginning of a frame.
CarrierSensed(e) ==
  /\ air[Peer(e)].age >= Delay /\ air[e] = Silence
  /\ mac' = [mac EXCEPT ![e] = sky_mac_carrier_sensed(@, Clock(e))]
  /\ quiet' = [quiet EXCEPT ![e] = Max({@, carrier_sense_ticks})]
  /\ UNCHANGED <<now, air, due, resets, in_step>>

\* The mac_reset command.
Reset(e) ==
  /\ resets < MaxResets
  /\ mac' = [mac EXCEPT ![e] = mac_reset(@, Clock(e))]
  /\ resets' = resets + 1
  /\ quiet' = [quiet EXCEPT ![e] = 0]
  /\ in_step' = FALSE
  /\ UNCHANGED <<now, air, due>>

\* The modem asks for a frame.
SkyTx(e) == TxFrame(e) \/ \E content \in BOOLEAN : TxNothing(e, content)

Next == Tick \/ \E e \in End : SkyTx(e) \/ Receive(e) \/ CarrierSensed(e) \/ Reset(e)

Spec == Init /\ [][Next]_vars

-----------------------------------------------------------------------------
Frame ==
  [fields : [window : Windows, remaining : 1 .. MaximumWindow], T0 : Ticks,
   age : 0 .. MaxAge, clear : BOOLEAN]

\* The variables have their types; in particular the windows stay within the
\* configured limits and the adjustment counter within its period.
TypeOK ==
  /\ now \in Ticks
  /\ mac \in [End -> SkyMAC]
  /\ \A e \in End : air[e] = Silence \/ air[e] \in Frame
  /\ due \subseteq End
  /\ resets \in 0 .. MaxResets
  /\ quiet \in [End -> Nat]
  /\ in_step \in BOOLEAN

\* An end that has heard of the window of its peer stays quiet until that window
\* and the tail are over, and an end that has sensed a carrier stays quiet for
\* the fallback or until it hears a frame, also across the wrap of its clock and
\* when the frame is processed late. A reset cuts this short, and so does a
\* silence as long as a turn of the clock.
HoldsOff == \A e \in End : quiet[e] > 0 => ~CanSend(e)

\* Two ends that are in step are never both in their windows, however many frames
\* are lost: the gap makes up for delays and for windows put off by a carrier.
\* They are in step from a frame that is received while both lengths are known,
\* until a length changes that the peer has not heard of, a reset, or a silence
\* as long as a turn of the clock.
NoOverlap == in_step => \E e \in End : ~CanSend(e)

\* T0 always stays behind the clock ("Otherwise time-deltas wrap around the wrong
\* way", mac.c), and at most one cycle behind it when it is set.
T0StaysBehind ==
  [][\A e \in End : mac[e].T0' # mac[e].T0
       => wrap_time_ticks(Clock(e) - mac[e].T0') =< get_mac_cycle(mac[e]')]_vars
==============================================================================
