------------------------------- MODULE MacOps -------------------------------
(* The TDD MAC of one end (mac.c): when the end may transmit. A cycle is the   *)
(* own window, a gap, the window of the peer and a tail; the end keeps the     *)
(* tick T0 at which one of its windows began, on a clock that wraps, and what  *)
(* it knows of the window of the peer. The operators are the functions of      *)
(* mac.c on the record SkyMAC. The constants are the configuration; whether an *)
(* idle frame is due (last_belief_update, the frame counters) is not modelled. *)
EXTENDS Integers, FiniteSetsExt

CONSTANTS
  MOD_TIME_TICKS,           \* the clock wraps here
  MinimumWindow,            \* minimum_window_length_ticks
  MaximumWindow,            \* maximum_window_length_ticks
  Gap,                      \* gap_constant_ticks
  Tail,                     \* tail_constant_ticks
  AdjustIncrement,          \* window_adjust_increment_ticks
  AdjustPeriod,             \* window_adjustment_period
  CarrierSense              \* carrier_sense_ticks, as configured

\* The clock goes round much more slowly than the cycle.
ASSUME MacAssumption ==
  /\ {MOD_TIME_TICKS, MinimumWindow, MaximumWindow, AdjustIncrement, AdjustPeriod} \subseteq Nat \ {0}
  /\ {Gap, Tail, CarrierSense} \subseteq Nat
  /\ MinimumWindow =< MaximumWindow
  /\ 2 * (2 * MaximumWindow + Gap + Tail) < MOD_TIME_TICKS

Ticks == 0 .. MOD_TIME_TICKS - 1

Windows == MinimumWindow .. MaximumWindow

SkyMAC ==
  [T0 : Ticks, my_window_length : Windows, peer_window_length : Windows,
   window_adjust_counter : -AdjustPeriod .. AdjustPeriod,
   window_on : BOOLEAN, unused_window_time : BOOLEAN]

\* The clock, and time differences, wrap.
wrap_time_ticks(ticks) == ticks % MOD_TIME_TICKS

\* Mutant: the gap is left out of the cycle.
CycleWithoutGap(mac) == mac.my_window_length + mac.peer_window_length + Tail

get_mac_cycle(mac) == mac.my_window_length + Gap + mac.peer_window_length + Tail

\* The time since the beginning of the cycle that now is in.
wrap_tdd_cycle(mac, now) == wrap_time_ticks(now - mac.T0) % get_mac_cycle(mac)

\* Mutant: the configured fallback is used as it is.
CarrierSenseUnlimited == CarrierSense

\* A fallback of more ticks could lead back into the own window.
carrier_sense_ticks == Min({CarrierSense, MinimumWindow + Gap})

sky_mac_create ==
  [T0 |-> 0, my_window_length |-> MinimumWindow, peer_window_length |-> MinimumWindow,
   window_adjust_counter |-> 0, window_on |-> FALSE, unused_window_time |-> FALSE]

-----------------------------------------------------------------------------
(* What the MAC answers. *)

mac_time_to_own_window(mac, now) ==
  IF wrap_tdd_cycle(mac, now) < mac.my_window_length
  THEN 0 ELSE get_mac_cycle(mac) - wrap_tdd_cycle(mac, now)

mac_own_window_remaining(mac, now) == mac.my_window_length - wrap_tdd_cycle(mac, now)

mac_can_send(mac, now) == mac_own_window_remaining(mac, now) > 0

\* The extension of a transmitted frame: the length of the own window and how
\* much is left of it, at least one tick.
mac_set_frame_fields(mac, now) ==
  [window |-> mac.my_window_length, remaining |-> Max({1, mac_own_window_remaining(mac, now)})]

-----------------------------------------------------------------------------
(* What changes it. *)

\* The cycle ends now: the own window opens.
OpenedNow(mac, now) == [mac EXCEPT !.T0 = wrap_time_ticks(now - get_mac_cycle(mac))]

mac_expand_window(mac, now) ==
  OpenedNow([mac EXCEPT !.my_window_length = Min({@ + AdjustIncrement, MaximumWindow})], now)

\* Mutant: a window may shrink below the minimum.
ShrinkUnlimited(mac, now) ==
  OpenedNow([mac EXCEPT !.my_window_length = @ - AdjustIncrement], now)

mac_shrink_window(mac, now) ==
  OpenedNow([mac EXCEPT !.my_window_length = Max({@ - AdjustIncrement, MinimumWindow})], now)

mac_reset(mac, now) ==
  OpenedNow([mac EXCEPT !.my_window_length = MinimumWindow, !.window_adjust_counter = 0], now)

\* Mutant: T0 is set to the next opening of the window, ahead of the clock.
CarrierSetsNextOpening(mac, now) ==
  IF mac_time_to_own_window(mac, now) =< carrier_sense_ticks
  THEN [mac EXCEPT !.T0 = wrap_time_ticks(now + carrier_sense_ticks)]
  ELSE mac

\* A window that is open, or is about to open, is put off.
sky_mac_carrier_sensed(mac, now) ==
  IF mac_time_to_own_window(mac, now) =< carrier_sense_ticks
  THEN [mac EXCEPT !.T0 = wrap_time_ticks(now - get_mac_cycle(mac) + carrier_sense_ticks)]
  ELSE mac

\* A length announced by the peer is forced into the own limits.
LimitedWindow(window) == Max({MinimumWindow, Min({window, MaximumWindow})})

\* The own window opens when the announced rest of the window of the peer, but
\* no less than the time since the frame was received, and the tail have passed.
\* When the clock has wrapped since then, now is taken on beyond the wrap.
mac_update_belief(mac, now, receive_time, peer_mac_length, peer_mac_remaining) ==
  LET window == LimitedWindow(peer_mac_length)
      now_ == IF now < receive_time
              THEN receive_time + wrap_time_ticks(now - receive_time) ELSE now
      believed == [mac EXCEPT !.peer_window_length = window]
      implied_t0 == receive_time + Min({peer_mac_remaining, window}) + Tail
                    - get_mac_cycle(believed)
      minimum_t0 == now_ + Tail - get_mac_cycle(believed)
  IN [believed EXCEPT !.T0 = wrap_time_ticks(Max({implied_t0, minimum_t0}))]

-----------------------------------------------------------------------------
(* The bookkeeping of sky_tx. *)

\* A window that closes counts for a longer or a shorter one, as it was or was
\* not used up.
WindowCloses(mac) ==
  [mac EXCEPT !.window_adjust_counter = IF mac.unused_window_time THEN @ - 1 ELSE @ + 1]

\* A window that opens is adjusted when enough windows have counted for it.
WindowOpens(mac, now) ==
  IF mac.window_adjust_counter =< -AdjustPeriod
    THEN [mac_shrink_window(mac, now) EXCEPT !.window_adjust_counter = 0]
  ELSE IF mac.window_adjust_counter >= AdjustPeriod
    THEN [mac_expand_window(mac, now) EXCEPT !.window_adjust_counter = 0]
  ELSE mac

_sky_tx_track_tdd_state(mac, can_send, content_to_send, now) ==
  IF can_send
  THEN LET opened == IF mac.window_on THEN mac ELSE WindowOpens(mac, now)
       IN [opened EXCEPT !.window_on = TRUE, !.unused_window_time = @ \/ ~content_to_send]
  ELSE LET closed == IF mac.window_on THEN WindowCloses(mac) ELSE mac
       IN [closed EXCEPT !.window_on = FALSE, !.unused_window_time = FALSE]
=============================================================================
