---------------------------- MODULE TddLinkProofs ----------------------------
(***************************************************************************)
(* Proofs about two ends that share a channel in turns, for every clock,   *)
(* window, gap, tail and fallback that the configuration allows, and for   *)
(* every delay of the radio.                                               *)
(***************************************************************************)
EXTENDS TddLink, TLAPS

-----------------------------------------------------------------------------
(* Arithmetic. *)

\* The greater of two numbers.
LEMMA MaxOfTwo ==
  ASSUME NEW a \in Int, NEW b \in Int
  PROVE  Max({a, b}) = IF a >= b THEN a ELSE b
<1> DEFINE m == IF a >= b THEN a ELSE b
           S == {a, b}
<1>1. m \in S /\ \A y \in S : m >= y
  OBVIOUS
<1>2. \A x \in S : (\A y \in S : x >= y) => x = m
  OBVIOUS
<1> HIDE DEF m, S
<1>3. Max(S) = m
  BY <1>1, <1>2 DEF Max
<1> QED BY <1>3 DEF m, S

\* The smaller of two numbers.
LEMMA MinOfTwo ==
  ASSUME NEW a \in Int, NEW b \in Int
  PROVE  Min({a, b}) = IF a =< b THEN a ELSE b
<1> DEFINE m == IF a =< b THEN a ELSE b
           S == {a, b}
<1>1. m \in S /\ \A y \in S : m =< y
  OBVIOUS
<1>2. \A x \in S : (\A y \in S : x =< y) => x = m
  OBVIOUS
<1> HIDE DEF m, S
<1>3. Min(S) = m
  BY <1>1, <1>2 DEF Min
<1> QED BY <1>3 DEF m, S

\* There is one remainder.
LEMMA RemainderUnique ==
  ASSUME NEW m \in Nat \ {0}, NEW a \in 0 .. m - 1, NEW b \in 0 .. m - 1,
         NEW k \in Int, b = a + k * m
  PROVE  b = a
OBVIOUS

\* A number and its remainder.
LEMMA Divided ==
  ASSUME NEW m \in Nat \ {0}, NEW x \in Int
  PROVE  x % m \in 0 .. m - 1 /\ x \div m \in Int /\ x = (x \div m) * m + (x % m)
OBVIOUS

\* A remainder is what lies a number of turns away.
LEMMA RemainderIs ==
  ASSUME NEW m \in Nat \ {0}, NEW x \in Int, NEW r \in 0 .. m - 1, NEW k \in Int, x = r + k * m
  PROVE  x % m = r
<1> DEFINE q == x \div m
           s == x % m
<1>1. s \in 0 .. m - 1 /\ q \in Int /\ x = q * m + s
  BY Divided
<1> HIDE DEF q, s
<1>2. r = s + (q - k) * m /\ q - k \in Int
  BY <1>1
<1>3. r = s
  BY <1>1, <1>2, RemainderUnique
<1> QED BY <1>3 DEF s

\* The remainder of a difference of two clocks.
LEMMA ClockDistance ==
  ASSUME NEW m \in Nat \ {0}, NEW c \in 0 .. m - 1, NEW t \in 0 .. m - 1
  PROVE  (c - t) % m = IF c >= t THEN c - t ELSE c - t + m
<1>1. CASE c >= t
  <2>1. c - t \in 0 .. m - 1 /\ c - t \in Int /\ c - t = (c - t) + 0 * m
    BY <1>1
  <2> QED BY <1>1, <2>1, RemainderIs
<1>2. CASE c < t
  <2>1. c - t + m \in 0 .. m - 1 /\ c - t \in Int /\ c - t = (c - t + m) + (-1) * m
    BY <1>2
  <2> QED BY <1>2, <2>1, RemainderIs
<1> QED BY <1>1, <1>2

\* The next remainder.
LEMMA NextRemainder ==
  ASSUME NEW m \in Nat \ {0}, NEW x \in Int
  PROVE  (x + 1) % m = IF (x % m) + 1 = m THEN 0 ELSE (x % m) + 1
<1> DEFINE q == x \div m
           s == x % m
<1>1. s \in 0 .. m - 1 /\ q \in Int /\ x = q * m + s
  BY Divided
<1> HIDE DEF q, s
<1>2. CASE s + 1 = m
  <2>1. x + 1 \in Int /\ 0 \in 0 .. m - 1 /\ q + 1 \in Int /\ x + 1 = 0 + (q + 1) * m
    BY <1>1, <1>2
  <2> QED BY <1>2, <2>1, RemainderIs DEF s
<1>3. CASE s + 1 # m
  <2>1. x + 1 \in Int /\ s + 1 \in 0 .. m - 1 /\ x + 1 = (s + 1) + q * m
    BY <1>1, <1>3
  <2> QED BY <1>1, <1>3, <2>1, RemainderIs DEF s
<1> QED BY <1>2, <1>3

\* A tick that was set so far behind the clock is so far behind it, also across
\* the wrap, and when the clock is taken on beyond it.
LEMMA Behind ==
  ASSUME NEW c \in Ticks, NEW d \in Ticks, NEW n \in Int, NEW k \in Int,
         n = c + k * MOD_TIME_TICKS
  PROVE  /\ wrap_time_ticks(n - d) \in Ticks
         /\ wrap_time_ticks(c - wrap_time_ticks(n - d)) = d
<1> DEFINE m == MOD_TIME_TICKS
           x == n - d
           q == x \div m
           s == x % m
<1>0. m \in Nat \ {0} /\ c \in Int /\ d \in 0 .. m - 1 /\ x \in Int /\ x = n - d /\ n = c + k * m
  BY MacAssumption DEF Ticks
<1>1. s \in 0 .. m - 1 /\ q \in Int /\ x = q * m + s
  BY <1>0, Divided
<1> HIDE DEF x, q, s, m
<1>2. c - s \in Int /\ q - k \in Int /\ c - s = d + (q - k) * m
  BY <1>0, <1>1
<1>3. (c - s) % m = d
  BY <1>0, <1>2, RemainderIs
<1> QED BY <1>0, <1>1, <1>3 DEF wrap_time_ticks, Ticks, s, m, x

-----------------------------------------------------------------------------
(* The MAC of one end. *)

\* The constants are numbers, and a cycle is much shorter than a turn of the clock.
LEMMA Numbers ==
  /\ MOD_TIME_TICKS \in Nat \ {0} /\ MinimumWindow \in Nat \ {0} /\ MaximumWindow \in Nat \ {0}
  /\ AdjustIncrement \in Nat \ {0} /\ AdjustPeriod \in Nat \ {0}
  /\ Gap \in Nat /\ Tail \in Nat /\ CarrierSense \in Nat /\ MinimumWindow =< MaximumWindow
  /\ 2 * (2 * MaximumWindow + Gap + Tail) < MOD_TIME_TICKS
BY MacAssumption

\* The fields of a MAC.
LEMMA Fields ==
  ASSUME NEW m \in SkyMAC
  PROVE  /\ m.T0 \in Ticks /\ m.my_window_length \in Windows /\ m.peer_window_length \in Windows
         /\ m.window_adjust_counter \in -AdjustPeriod .. AdjustPeriod
         /\ m.window_on \in BOOLEAN /\ m.unused_window_time \in BOOLEAN
BY DEF SkyMAC

\* A window is a number.
LEMMA WindowNumber ==
  ASSUME NEW w \in Windows
  PROVE  w \in Nat \ {0} /\ MinimumWindow =< w /\ w =< MaximumWindow
BY Numbers DEF Windows

\* How long a cycle is.
LEMMA Cycle ==
  ASSUME NEW m \in SkyMAC
  PROVE  /\ get_mac_cycle(m) \in Nat \ {0} /\ get_mac_cycle(m) \in Ticks
         /\ get_mac_cycle(m) = m.my_window_length + Gap + m.peer_window_length + Tail
         /\ m.my_window_length + Gap + Tail < get_mac_cycle(m)
<1>1. m.my_window_length \in Nat \ {0} /\ m.peer_window_length \in Nat \ {0}
      /\ m.my_window_length =< MaximumWindow /\ m.peer_window_length =< MaximumWindow
  BY Fields, WindowNumber
<1> QED BY <1>1, Numbers DEF get_mac_cycle, Ticks

\* The fallback is a number, and it is too short to lead back into the window.
LEMMA Fallback ==
  carrier_sense_ticks \in Nat /\ carrier_sense_ticks =< MinimumWindow + Gap
<1>1. MinimumWindow + Gap \in Int /\ CarrierSense \in Int
  BY Numbers
<1>2. carrier_sense_ticks = IF CarrierSense =< MinimumWindow + Gap
                            THEN CarrierSense ELSE MinimumWindow + Gap
  BY <1>1, MinOfTwo DEF carrier_sense_ticks
<1> QED BY <1>2, Numbers

\* The time since T0, and the time since the beginning of the cycle.
LEMMA InCycle ==
  ASSUME NEW m \in SkyMAC, NEW c \in Ticks
  PROVE  /\ wrap_time_ticks(c - m.T0) \in Ticks
         /\ wrap_time_ticks(c - m.T0) = IF c >= m.T0 THEN c - m.T0 ELSE c - m.T0 + MOD_TIME_TICKS
         /\ wrap_tdd_cycle(m, c) \in 0 .. get_mac_cycle(m) - 1
         /\ wrap_time_ticks(c - m.T0) < get_mac_cycle(m)
              => wrap_tdd_cycle(m, c) = wrap_time_ticks(c - m.T0)
<1> DEFINE d == wrap_time_ticks(c - m.T0)
           C == get_mac_cycle(m)
<1>1. m.T0 \in Ticks
  BY Fields
<1>2. d = IF c >= m.T0 THEN c - m.T0 ELSE c - m.T0 + MOD_TIME_TICKS
  BY <1>1, Numbers, ClockDistance DEF wrap_time_ticks, Ticks
<1>3. d \in Ticks /\ d \in Nat
  BY <1>1, <1>2, Numbers DEF Ticks
<1>4. C \in Nat \ {0}
  BY Cycle
<1>5. wrap_tdd_cycle(m, c) = d % C
  BY DEF wrap_tdd_cycle
<1> HIDE DEF d, C
<1>6. d % C \in 0 .. C - 1
  BY <1>3, <1>4, Divided
<1>7. ASSUME d < C PROVE d % C = d
  <2>1. d \in Int /\ d \in 0 .. C - 1 /\ d = d + 0 * C
    BY <1>3, <1>4, <1>7
  <2> QED BY <1>4, <2>1, RemainderIs
<1> QED BY <1>2, <1>3, <1>5, <1>6, <1>7 DEF d, C

\* The window is open as long as it is long.
LEMMA CanSendIs ==
  ASSUME NEW m \in SkyMAC, NEW c \in Ticks
  PROVE  mac_can_send(m, c) <=> wrap_tdd_cycle(m, c) < m.my_window_length
<1>1. wrap_tdd_cycle(m, c) \in Int
  BY InCycle, Cycle
<1>2. m.my_window_length \in Int
  BY Fields, WindowNumber
<1> QED BY <1>1, <1>2 DEF mac_can_send, mac_own_window_remaining

\* A window that opens now: T0 is one cycle back.
LEMMA Opened ==
  ASSUME NEW m \in SkyMAC, NEW c \in Ticks
  PROVE  LET o == OpenedNow(m, c)
         IN  /\ o \in SkyMAC /\ get_mac_cycle(o) = get_mac_cycle(m)
             /\ o.my_window_length = m.my_window_length
             /\ o.peer_window_length = m.peer_window_length
             /\ o.window_adjust_counter = m.window_adjust_counter /\ o.window_on = m.window_on
             /\ wrap_time_ticks(c - o.T0) = get_mac_cycle(o)
<1> DEFINE C == get_mac_cycle(m)
           t == wrap_time_ticks(c - C)
           o == [m EXCEPT !.T0 = t]
<1>1. C \in Ticks
  BY Cycle
<1>2. c \in Int /\ 0 \in Int /\ c = c + 0 * MOD_TIME_TICKS
  BY Numbers DEF Ticks
<1> HIDE DEF C
<1>3. t \in Ticks /\ wrap_time_ticks(c - t) = C
  BY <1>1, <1>2, Behind
<1> HIDE DEF t
<1>4. o \in SkyMAC /\ o.T0 = t /\ o.my_window_length = m.my_window_length
      /\ o.peer_window_length = m.peer_window_length
      /\ o.window_adjust_counter = m.window_adjust_counter /\ o.window_on = m.window_on
  BY <1>3 DEF SkyMAC
<1>5. get_mac_cycle(o) = C
  BY <1>4 DEF get_mac_cycle, C
<1>6. OpenedNow(m, c) = o
  BY DEF OpenedNow, t, C
<1> HIDE DEF o
<1> QED BY <1>3, <1>4, <1>5, <1>6 DEF C

\* The window at its least: the reset.
LEMMA ResetIs ==
  ASSUME NEW m \in SkyMAC, NEW c \in Ticks
  PROVE  LET o == mac_reset(m, c)
         IN  /\ o \in SkyMAC /\ wrap_time_ticks(c - o.T0) = get_mac_cycle(o)
             /\ o.window_adjust_counter = 0 /\ o.peer_window_length = m.peer_window_length
<1> DEFINE s == [m EXCEPT !.my_window_length = MinimumWindow, !.window_adjust_counter = 0]
<1>1. MinimumWindow \in Windows /\ 0 \in -AdjustPeriod .. AdjustPeriod
  BY Numbers DEF Windows
<1>2. s \in SkyMAC /\ s.window_adjust_counter = 0 /\ s.peer_window_length = m.peer_window_length
  BY <1>1 DEF SkyMAC
<1> HIDE DEF s
<1>3. mac_reset(m, c) = OpenedNow(s, c)
  BY DEF mac_reset, s
<1> QED BY <1>2, <1>3, Opened

\* A window that opens: the adjustment counter is within its period again.
LEMMA OpensIs ==
  ASSUME NEW m \in SkyMAC, NEW c \in Ticks
  PROVE  LET o == WindowOpens(m, c)
         IN  /\ o \in SkyMAC
             /\ o.window_adjust_counter \in -AdjustPeriod + 1 .. AdjustPeriod - 1
             /\ o = m \/ wrap_time_ticks(c - o.T0) = get_mac_cycle(o)
<1>1. 0 \in -AdjustPeriod .. AdjustPeriod /\ 0 \in -AdjustPeriod + 1 .. AdjustPeriod - 1
  BY Numbers
<1>2. ASSUME NEW w \in Windows
      PROVE  LET s == [OpenedNow([m EXCEPT !.my_window_length = w], c)
                         EXCEPT !.window_adjust_counter = 0]
             IN  /\ s \in SkyMAC /\ s.window_adjust_counter = 0
                 /\ wrap_time_ticks(c - s.T0) = get_mac_cycle(s)
  <2> DEFINE n == [m EXCEPT !.my_window_length = w]
             o == OpenedNow(n, c)
             s == [o EXCEPT !.window_adjust_counter = 0]
  <2>1. n \in SkyMAC
    BY DEF SkyMAC
  <2> HIDE DEF n
  <2>2. o \in SkyMAC /\ wrap_time_ticks(c - o.T0) = get_mac_cycle(o)
    BY <2>1, Opened
  <2> HIDE DEF o
  <2>3. s \in SkyMAC /\ s.window_adjust_counter = 0 /\ s.T0 = o.T0
        /\ s.my_window_length = o.my_window_length /\ s.peer_window_length = o.peer_window_length
    BY <1>1, <2>2 DEF SkyMAC
  <2> HIDE DEF s
  <2>4. get_mac_cycle(s) = get_mac_cycle(o)
    BY <2>3 DEF get_mac_cycle
  <2> QED BY <2>2, <2>3, <2>4 DEF s, o, n
<1> DEFINE w == m.my_window_length
           less == Max({w - AdjustIncrement, MinimumWindow})
           more == Min({w + AdjustIncrement, MaximumWindow})
<1>3. w \in Nat \ {0} /\ MinimumWindow =< w /\ w =< MaximumWindow
  BY Fields, WindowNumber
<1>4. less \in Windows
  <2>1. less = IF w - AdjustIncrement >= MinimumWindow THEN w - AdjustIncrement ELSE MinimumWindow
    BY <1>3, Numbers, MaxOfTwo
  <2> HIDE DEF less, w
  <2> QED BY <1>3, <2>1, Numbers DEF Windows
<1>5. more \in Windows
  <2>1. more = IF w + AdjustIncrement =< MaximumWindow THEN w + AdjustIncrement ELSE MaximumWindow
    BY <1>3, Numbers, MinOfTwo
  <2> HIDE DEF more, w
  <2> QED BY <1>3, <2>1, Numbers DEF Windows
<1>6. CASE m.window_adjust_counter =< -AdjustPeriod
  <2>1. WindowOpens(m, c) = [OpenedNow([m EXCEPT !.my_window_length = less], c)
                               EXCEPT !.window_adjust_counter = 0]
    BY <1>6 DEF WindowOpens, mac_shrink_window
  <2> HIDE DEF less
  <2> QED BY <1>1, <1>2, <1>4, <2>1
<1>7. CASE ~(m.window_adjust_counter =< -AdjustPeriod) /\ m.window_adjust_counter >= AdjustPeriod
  <2>1. WindowOpens(m, c) = [OpenedNow([m EXCEPT !.my_window_length = more], c)
                               EXCEPT !.window_adjust_counter = 0]
    BY <1>7 DEF WindowOpens, mac_expand_window
  <2> HIDE DEF more
  <2> QED BY <1>1, <1>2, <1>5, <2>1
<1>8. CASE ~(m.window_adjust_counter =< -AdjustPeriod) /\ ~(m.window_adjust_counter >= AdjustPeriod)
  <2>1. WindowOpens(m, c) = m
    BY <1>8 DEF WindowOpens
  <2>2. m.window_adjust_counter \in -AdjustPeriod + 1 .. AdjustPeriod - 1
    BY <1>8, Fields, Numbers
  <2> QED BY <2>1, <2>2
<1> QED BY <1>6, <1>7, <1>8

\* The adjustment counter is short of its period.
Settled(m) == m.window_adjust_counter \in -AdjustPeriod + 1 .. AdjustPeriod - 1

\* It is so while a window is open: it is reset when a window opens and counts when
\* one closes.
Steady(m) == m.window_on => Settled(m)

\* Two MACs that keep the same time.
SameTimes(m, o) ==
  /\ o.T0 = m.T0 /\ o.my_window_length = m.my_window_length
  /\ o.peer_window_length = m.peer_window_length

\* The bookkeeping of sky_tx moves the window only when it opens.
LEMMA TrackedIs ==
  ASSUME NEW m \in SkyMAC, NEW c \in Ticks, NEW can \in BOOLEAN, NEW content \in BOOLEAN, Steady(m)
  PROVE  LET o == _sky_tx_track_tdd_state(m, can, content, c)
         IN  /\ o \in SkyMAC /\ Steady(o)
             /\ SameTimes(m, o) \/ wrap_time_ticks(c - o.T0) = get_mac_cycle(o)
             /\ ~can => SameTimes(m, o)
<1>1. CASE can
  <2> DEFINE n == IF m.window_on THEN m ELSE WindowOpens(m, c)
             o == [n EXCEPT !.window_on = TRUE, !.unused_window_time = @ \/ ~content]
  <2>1. n \in SkyMAC /\ n.window_adjust_counter \in -AdjustPeriod + 1 .. AdjustPeriod - 1
        /\ (n = m \/ wrap_time_ticks(c - n.T0) = get_mac_cycle(n))
    <3>1. CASE m.window_on
      BY <3>1 DEF Steady, Settled
    <3>2. CASE ~m.window_on
      <4>1. n = WindowOpens(m, c)
        BY <3>2
      <4> HIDE DEF n
      <4> QED BY <4>1, OpensIs
    <3> QED BY <3>1, <3>2
  <2>2. _sky_tx_track_tdd_state(m, can, content, c) = o
    BY <1>1 DEF _sky_tx_track_tdd_state
  <2> HIDE DEF n
  <2>3. (n.unused_window_time \/ ~content) \in BOOLEAN
    BY <2>1, Fields, Zenon
  <2>4. o \in SkyMAC /\ o.window_adjust_counter = n.window_adjust_counter /\ SameTimes(n, o)
    BY <2>1, <2>3 DEF SkyMAC, SameTimes
  <2> HIDE DEF o
  <2>5. get_mac_cycle(o) = get_mac_cycle(n) /\ o.T0 = n.T0
    BY <2>4 DEF get_mac_cycle, SameTimes
  <2>6. SameTimes(m, o) \/ wrap_time_ticks(c - o.T0) = get_mac_cycle(o)
    BY <2>1, <2>4, <2>5
  <2> QED BY <1>1, <2>1, <2>2, <2>4, <2>6 DEF Steady, Settled
<1>2. CASE ~can
  <2> DEFINE n == IF m.window_on THEN WindowCloses(m) ELSE m
             o == [n EXCEPT !.window_on = FALSE, !.unused_window_time = FALSE]
  <2>1. n \in SkyMAC /\ SameTimes(m, n)
    <3>1. CASE m.window_on
      <4> DEFINE k == IF m.unused_window_time THEN m.window_adjust_counter - 1
                      ELSE m.window_adjust_counter + 1
      <4>1. k \in -AdjustPeriod .. AdjustPeriod
        BY <3>1, Numbers DEF Steady, Settled
      <4>2. n = [m EXCEPT !.window_adjust_counter = k]
        BY <3>1 DEF WindowCloses
      <4> HIDE DEF k, n
      <4> QED BY <4>1, <4>2 DEF SkyMAC, SameTimes
    <3>2. CASE ~m.window_on
      BY <3>2 DEF SameTimes
    <3> QED BY <3>1, <3>2
  <2>2. _sky_tx_track_tdd_state(m, can, content, c) = o
    BY <1>2 DEF _sky_tx_track_tdd_state
  <2> HIDE DEF n
  <2>3. o \in SkyMAC /\ o.window_on = FALSE /\ SameTimes(m, o)
    BY <2>1 DEF SkyMAC, SameTimes
  <2> HIDE DEF o
  <2> QED BY <1>2, <2>2, <2>3 DEF Steady, Settled
<1> QED BY <1>1, <1>2

\* A carrier that is sensed puts the window off, to no less than the fallback and
\* not into the own window.
LEMMA CarrierIs ==
  ASSUME NEW m \in SkyMAC, NEW c \in Ticks
  PROVE  LET o == sky_mac_carrier_sensed(m, c)
             C == get_mac_cycle(m)
         IN  /\ o \in SkyMAC /\ get_mac_cycle(o) = C
             /\ o.my_window_length = m.my_window_length
             /\ o.peer_window_length = m.peer_window_length
             /\ o.window_on = m.window_on /\ o.window_adjust_counter = m.window_adjust_counter
             /\ \/ /\ o = m
                   /\ C - wrap_tdd_cycle(m, c) > carrier_sense_ticks
                   /\ wrap_tdd_cycle(m, c) >= m.my_window_length
                \/ /\ wrap_time_ticks(c - o.T0) = C - carrier_sense_ticks
                   /\ \/ wrap_tdd_cycle(m, c) < m.my_window_length
                      \/ C - wrap_tdd_cycle(m, c) =< carrier_sense_ticks
<1> DEFINE C == get_mac_cycle(m)
           f == carrier_sense_ticks
           t == wrap_time_ticks(c - C + f)
           o == [m EXCEPT !.T0 = t]
           p == wrap_tdd_cycle(m, c)
<1>0. f \in Nat /\ f =< MinimumWindow + Gap
  BY Fallback
<1>1. C \in Ticks /\ C \in Nat /\ C - f \in Ticks /\ c - C + f = c - (C - f)
  <2>1. C \in Ticks /\ C \in Nat /\ C = m.my_window_length + Gap + m.peer_window_length + Tail
    BY Cycle
  <2>2. m.my_window_length \in Nat \ {0} /\ m.peer_window_length \in Nat /\ MinimumWindow =< m.peer_window_length
    BY Fields, WindowNumber
  <2> HIDE DEF C, f
  <2> QED BY <1>0, <2>1, <2>2, Numbers DEF Ticks
<1>2. c \in Int /\ 0 \in Int /\ c = c + 0 * MOD_TIME_TICKS
  BY Numbers DEF Ticks
<1>3. p \in Nat /\ m.my_window_length \in Nat
  BY InCycle, Cycle, Fields, WindowNumber
<1> HIDE DEF C, f, p
<1>4. t \in Ticks /\ wrap_time_ticks(c - t) = C - f
  <2> DEFINE d == C - f
  <2>1. t = wrap_time_ticks(c - d) /\ d \in Ticks
    BY <1>1
  <2> HIDE DEF d, t
  <2>2. t \in Ticks /\ wrap_time_ticks(c - t) = d
    BY <1>2, <2>1, Behind
  <2> QED BY <2>2 DEF d
<1>5. mac_time_to_own_window(m, c) = IF p < m.my_window_length THEN 0 ELSE C - p
  BY DEF mac_time_to_own_window, p, C
<1> HIDE DEF t
<1>6. o \in SkyMAC /\ o.T0 = t /\ o.my_window_length = m.my_window_length
      /\ o.peer_window_length = m.peer_window_length
      /\ o.window_adjust_counter = m.window_adjust_counter /\ o.window_on = m.window_on
  BY <1>4 DEF SkyMAC
<1>7. get_mac_cycle(o) = C
  BY <1>6 DEF get_mac_cycle, C
<1> HIDE DEF o
<1>8. CASE mac_time_to_own_window(m, c) =< f
  <2>1. sky_mac_carrier_sensed(m, c) = o
    BY <1>8 DEF sky_mac_carrier_sensed, o, t, C, f
  <2>2. p < m.my_window_length \/ C - p =< f
    BY <1>0, <1>1, <1>3, <1>5, <1>8
  <2>3. wrap_time_ticks(c - o.T0) = C - f
    BY <1>4, <1>6
  <2> QED BY <1>6, <1>7, <2>1, <2>2, <2>3 DEF C, f, p
<1>9. CASE ~(mac_time_to_own_window(m, c) =< f)
  <2>1. sky_mac_carrier_sensed(m, c) = m
    BY <1>9 DEF sky_mac_carrier_sensed, f
  <2>2. C - p > f /\ p >= m.my_window_length
    BY <1>0, <1>1, <1>3, <1>5, <1>9
  <2> QED BY <2>1, <2>2 DEF C, f, p
<1> QED BY <1>8, <1>9

\* A length that is announced is within the limits.
LEMMA LimitedIs ==
  ASSUME NEW w \in Windows
  PROVE  LimitedWindow(w) = w
<1>1. w \in Int /\ MinimumWindow \in Int /\ MaximumWindow \in Int /\ MinimumWindow =< w
      /\ w =< MaximumWindow
  BY WindowNumber, Numbers
<1>2. Min({w, MaximumWindow}) = w
  BY <1>1, MinOfTwo
<1>3. Max({MinimumWindow, w}) = w
  BY <1>1, MaxOfTwo
<1> QED BY <1>2, <1>3 DEF LimitedWindow

\* What a frame makes an end believe: its window opens when the announced rest of
\* the peer's window, less the time since the frame arrived, and the tail are over,
\* and no sooner than the tail from now; T0 is behind the clock in any case.
LEMMA BeliefIs ==
  ASSUME NEW m \in SkyMAC, NEW c \in Ticks, NEW late \in Nat, NEW w \in Windows, NEW rest \in 1 .. w
  PROVE  LET o == mac_update_belief(m, c, wrap_time_ticks(c - late), w, rest)
             C == get_mac_cycle(o)
             d == wrap_time_ticks(c - o.T0)
         IN  /\ o \in SkyMAC /\ o.peer_window_length = w /\ o.my_window_length = m.my_window_length
             /\ o.window_on = m.window_on /\ o.window_adjust_counter = m.window_adjust_counter
             /\ d \in Nat /\ d =< C - Tail /\ d >= m.my_window_length + Gap
             /\ late < MOD_TIME_TICKS
                  => d = IF late < rest THEN C - (rest + Tail - late) ELSE C - Tail
             /\ late < rest + Tail => late < MOD_TIME_TICKS
<1> DEFINE M == MOD_TIME_TICKS
           r == wrap_time_ticks(c - late)
           now_ == IF c < r THEN r + wrap_time_ticks(c - r) ELSE c
           b == [m EXCEPT !.peer_window_length = w]
           C == get_mac_cycle(b)
           lag == now_ - r
<1>0. M \in Nat \ {0} /\ c \in 0 .. M - 1 /\ late \in Int /\ c - late \in Int
  BY Numbers DEF Ticks
<1>1. r \in 0 .. M - 1
  BY <1>0, Divided DEF wrap_time_ticks
<1>2. late < M => r = IF c >= late THEN c - late ELSE c - late + M
  BY <1>0, ClockDistance DEF wrap_time_ticks
<1>3. now_ = IF c < r THEN c + M ELSE c
  <2>1. c < r => wrap_time_ticks(c - r) = c - r + M
    <3> HIDE DEF r
    <3> QED BY <1>0, <1>1, ClockDistance DEF wrap_time_ticks
  <2> HIDE DEF r, M
  <2> QED BY <1>0, <1>1, <2>1
<1>4. b \in SkyMAC /\ b.peer_window_length = w /\ b.my_window_length = m.my_window_length
      /\ b.window_on = m.window_on /\ b.window_adjust_counter = m.window_adjust_counter
  BY DEF SkyMAC
<1>5. C \in Nat \ {0} /\ C \in Ticks /\ C = m.my_window_length + Gap + w + Tail
  <2> HIDE DEF b
  <2> QED BY <1>4, Cycle
<1>6. w \in Nat \ {0} /\ m.my_window_length \in Nat \ {0} /\ rest \in Nat \ {0} /\ rest =< w
  BY Fields, WindowNumber
<1> HIDE DEF r, now_, b, C
<1>7. now_ \in Int /\ lag \in 0 .. M - 1 /\ (late < M => lag = late)
      /\ \E k \in Int : now_ = c + k * M
  <2>1. lag \in 0 .. M - 1 /\ (late < M => lag = late) /\ now_ \in Int
    <3> HIDE DEF M
    <3> QED BY <1>0, <1>1, <1>2, <1>3
  <2>2. now_ = c + 0 * M \/ now_ = c + 1 * M
    <3> HIDE DEF M
    <3> QED BY <1>0, <1>3
  <2> QED BY <2>1, <2>2
<1> DEFINE implied == r + rest + Tail - C
           minimum == now_ + Tail - C
           d == IF lag < rest THEN C - (rest + Tail - lag) ELSE C - Tail
<1>8. Max({implied, minimum}) = now_ - d
  <2>1. implied \in Int /\ minimum \in Int
    BY <1>0, <1>1, <1>5, <1>6, <1>7, Numbers
  <2>2. Max({implied, minimum}) = IF implied >= minimum THEN implied ELSE minimum
    BY <2>1, MaxOfTwo
  <2> QED BY <1>0, <1>1, <1>5, <1>6, <1>7, <2>2, Numbers
<1>9. d \in Nat /\ d =< C - Tail /\ d >= m.my_window_length + Gap /\ d \in Ticks
  <2> HIDE DEF lag
  <2> QED BY <1>0, <1>5, <1>6, <1>7, Numbers DEF Ticks
<1>10. /\ late < M => d = IF late < rest THEN C - (rest + Tail - late) ELSE C - Tail
       /\ late < rest + Tail => late < M
  <2>1. late < rest + Tail => late < M
    <3>1. w =< MaximumWindow
      BY WindowNumber
    <3> QED BY <1>6, <3>1, Numbers
  <2> QED BY <1>7, <2>1
<1> HIDE DEF d
<1> DEFINE t == wrap_time_ticks(now_ - d)
           o == [b EXCEPT !.T0 = t]
<1>11. t \in Ticks /\ wrap_time_ticks(c - t) = d
  <2> PICK k \in Int : now_ = c + k * MOD_TIME_TICKS
    BY <1>7
  <2>1. now_ \in Int /\ c \in Ticks /\ d \in Ticks
    BY <1>7, <1>9
  <2> QED BY <2>1, Behind
<1> HIDE DEF t
<1>12. o \in SkyMAC /\ o.T0 = t /\ o.peer_window_length = w /\ o.my_window_length = m.my_window_length
       /\ o.window_on = m.window_on /\ o.window_adjust_counter = m.window_adjust_counter
  BY <1>4, <1>11 DEF SkyMAC
<1>13. get_mac_cycle(o) = C
  BY <1>4, <1>12 DEF get_mac_cycle, C
<1>14. mac_update_belief(m, c, r, w, rest) = o
  <2>1. LimitedWindow(w) = w
    BY LimitedIs
  <2>2. Min({rest, w}) = rest
    BY <1>6, MinOfTwo
  <2>3. mac_update_belief(m, c, r, w, rest) = [b EXCEPT !.T0 = wrap_time_ticks(Max({implied, minimum}))]
    BY <2>1, <2>2 DEF mac_update_belief, now_, b, C
  <2> QED BY <1>8, <2>3 DEF o, t
<1> HIDE DEF o
<1>15. wrap_time_ticks(c - o.T0) = d
  BY <1>11, <1>12
<1> QED BY <1>5, <1>6, <1>9, <1>10, <1>12, <1>13, <1>14, <1>15, Numbers DEF r

\* The place in the cycle depends on T0 and on the lengths alone.
LEMMA SamePlace ==
  ASSUME NEW m \in SkyMAC, NEW o \in SkyMAC, NEW c \in Ticks, SameTimes(m, o)
  PROVE  get_mac_cycle(o) = get_mac_cycle(m) /\ wrap_tdd_cycle(o, c) = wrap_tdd_cycle(m, c)
<1>1. get_mac_cycle(o) = get_mac_cycle(m)
  BY DEF SameTimes, get_mac_cycle
<1> QED BY <1>1 DEF SameTimes, wrap_tdd_cycle

\* A window that has just opened is at the beginning of its cycle.
LEMMA JustOpened ==
  ASSUME NEW m \in SkyMAC, NEW c \in Ticks, wrap_time_ticks(c - m.T0) = get_mac_cycle(m)
  PROVE  wrap_tdd_cycle(m, c) = 0
<1> DEFINE C == get_mac_cycle(m)
<1>1. C \in Nat \ {0} /\ wrap_tdd_cycle(m, c) = C % C
  BY Cycle DEF wrap_tdd_cycle
<1> HIDE DEF C
<1>2. C \in Int /\ 0 \in 0 .. C - 1 /\ 1 \in Int /\ C = 0 + 1 * C
  BY <1>1
<1> QED BY <1>1, <1>2, RemainderIs

\* What a frame announces: the window, and a rest that is not longer.
LEMMA AnnouncedIs ==
  ASSUME NEW m \in SkyMAC, NEW c \in Ticks
  PROVE  LET f == mac_set_frame_fields(m, c)
         IN  /\ f \in [window : Windows, remaining : 1 .. MaximumWindow]
             /\ f.remaining =< f.window
<1> DEFINE w == m.my_window_length
           p == wrap_tdd_cycle(m, c)
           r == Max({1, w - p})
<1>1. w \in Windows /\ w \in Nat \ {0} /\ w =< MaximumWindow /\ p \in Nat
  BY Fields, WindowNumber, InCycle, Cycle
<1>2. mac_set_frame_fields(m, c) = [window |-> w, remaining |-> r]
  BY DEF mac_set_frame_fields, mac_own_window_remaining
<1> HIDE DEF w, p
<1>3. r = IF 1 >= w - p THEN 1 ELSE w - p
  BY <1>1, MaxOfTwo
<1> HIDE DEF r
<1>4. r \in 1 .. MaximumWindow /\ r =< w
  BY <1>1, <1>3, Numbers
<1> QED BY <1>1, <1>2, <1>4

\* A tick takes the clock and the place in the cycle on by one, up to the end of
\* the cycle, unless the clock comes round to T0.
LEMMA TickMoves ==
  ASSUME NEW m \in SkyMAC, NEW c \in Ticks, NEW n \in Ticks, n = wrap_time_ticks(c + 1), n # m.T0
  PROVE  /\ wrap_time_ticks(n - m.T0) = wrap_time_ticks(c - m.T0) + 1
         /\ wrap_tdd_cycle(m, n) = IF wrap_tdd_cycle(m, c) + 1 = get_mac_cycle(m) THEN 0
                                   ELSE wrap_tdd_cycle(m, c) + 1
<1> DEFINE M == MOD_TIME_TICKS
           C == get_mac_cycle(m)
           d == wrap_time_ticks(c - m.T0)
<1>1. m.T0 \in Ticks /\ C \in Nat \ {0}
  BY Fields, Cycle
<1>2. c % M = c
  <2>1. M \in Nat \ {0} /\ c \in Int /\ c \in 0 .. M - 1 /\ 0 \in Int /\ c = c + 0 * M
    BY Numbers DEF Ticks
  <2> QED BY <2>1, RemainderIs
<1>3. n = IF c + 1 = M THEN 0 ELSE c + 1
  <2>1. M \in Nat \ {0} /\ c \in Int
    BY Numbers DEF Ticks
  <2>2. (c + 1) % M = IF (c % M) + 1 = M THEN 0 ELSE (c % M) + 1
    BY <2>1, NextRemainder
  <2> QED BY <1>2, <2>2 DEF wrap_time_ticks
<1>4. d = (IF c >= m.T0 THEN c - m.T0 ELSE c - m.T0 + M) /\ d \in Int
  BY InCycle DEF Ticks
<1>5. wrap_time_ticks(n - m.T0) = IF n >= m.T0 THEN n - m.T0 ELSE n - m.T0 + M
  BY InCycle
<1> HIDE DEF d, C
<1>6. wrap_time_ticks(n - m.T0) = d + 1
  BY <1>1, <1>3, <1>4, <1>5, Numbers DEF Ticks
<1>7. (d + 1) % C = IF (d % C) + 1 = C THEN 0 ELSE (d % C) + 1
  BY <1>1, <1>4, NextRemainder
<1> QED BY <1>6, <1>7 DEF wrap_tdd_cycle, d, C

-----------------------------------------------------------------------------
(* The two ends. *)

\* An end has a peer, and is the peer of its peer.
LEMMA Peers ==
  ASSUME NEW e \in End
  PROVE  Peer(e) \in End /\ Peer(e) # e /\ \A x \in End : x = e \/ x = Peer(e)
<1> PICK a \in End, b \in End : a # b /\ End = {a, b}
  BY TddLinkAssumption
<1>1. \E p \in End : p # e
  OBVIOUS
<1>2. Peer(e) \in End /\ Peer(e) # e
  BY <1>1 DEF Peer
<1> QED BY <1>2

\* A clock is in its range, and a tick takes it on.
LEMMA ClockIs ==
  ASSUME NEW e \in End, now \in Ticks
  PROVE  Clock(e) \in Ticks
<1>1. MOD_TIME_TICKS \in Nat \ {0} /\ now + Offset[e] \in Int
  BY Numbers, TddLinkAssumption DEF Ticks
<1> QED BY <1>1, Divided DEF Clock, wrap_time_ticks, Ticks

\* A sum wraps to the same as the sum with the wrapped part.
LEMMA WrapSum ==
  ASSUME NEW x \in Int, NEW y \in Int
  PROVE  wrap_time_ticks(wrap_time_ticks(x) + y) = wrap_time_ticks(x + y)
<1> DEFINE M == MOD_TIME_TICKS
           s == x % M
           q == x \div M
           z == x + y
           t == z % M
           u == z \div M
<1>0. M \in Nat \ {0} /\ z \in Int
  BY Numbers
<1>1. s \in 0 .. M - 1 /\ q \in Int /\ x = q * M + s
  BY <1>0, Divided
<1>2. t \in 0 .. M - 1 /\ u \in Int /\ z = u * M + t
  BY <1>0, Divided
<1> HIDE DEF M, s, q, t, u
<1>3. s + y \in Int /\ u - q \in Int /\ s + y = t + (u - q) * M
  BY <1>0, <1>1, <1>2
<1>4. (s + y) % M = t
  BY <1>0, <1>2, <1>3, RemainderIs
<1> QED BY <1>4 DEF wrap_time_ticks, s, t, M

\* A tick takes every clock on.
LEMMA ClockTicks ==
  ASSUME NEW e \in End, now \in Ticks, now' = wrap_time_ticks(now + 1)
  PROVE  Clock(e)' = wrap_time_ticks(Clock(e) + 1)
<1> DEFINE o == Offset[e]
<1>1. now \in Int /\ o \in Int /\ now + 1 \in Int /\ now + o \in Int /\ 1 \in Int
  BY TddLinkAssumption, Numbers DEF Ticks
<1> HIDE DEF o
<1>2. wrap_time_ticks(wrap_time_ticks(now + 1) + o) = wrap_time_ticks((now + 1) + o)
  BY <1>1, WrapSum
<1>3. wrap_time_ticks(wrap_time_ticks(now + o) + 1) = wrap_time_ticks((now + o) + 1)
  BY <1>1, WrapSum
<1>4. (now + 1) + o = (now + o) + 1
  BY <1>1
<1> QED BY <1>2, <1>3, <1>4 DEF Clock, o

\* Everything that can be in the air: a frame announces no more than its window.
OnAir == {Silence} \cup {f \in Frame : f.fields.remaining =< f.fields.window}

\* An end that has to be quiet is past its window, and its next one is at least
\* as far away.
KeepsQuiet(m, c, q) ==
  q > 0 => /\ wrap_tdd_cycle(m, c) >= m.my_window_length
           /\ wrap_tdd_cycle(m, c) + q =< get_mac_cycle(m)

\* The inductive invariant.
Inv ==
  /\ now \in Ticks /\ mac \in [End -> SkyMAC] /\ air \in [End -> OnAir]
  /\ due \subseteq End /\ resets \in 0 .. MaxResets /\ quiet \in [End -> Nat] /\ in_step \in BOOLEAN
  /\ \A e \in End : Steady(mac[e]) /\ KeepsQuiet(mac[e], Clock(e), quiet[e])

\* Silence is no frame.
LEMMA SilenceIsNone ==
  Silence \notin Frame /\ Silence.age = -1
<1>1. ASSUME NEW f \in Frame PROVE f.age \in 0 .. MaxAge /\ f.age # -1
  BY TddLinkAssumption DEF Frame
<1>2. Silence.age = -1
  BY DEF Silence
<1> QED BY <1>1, <1>2

\* What is in the air has the fields of a frame.
LEMMA OnAirIs ==
  ASSUME NEW f \in OnAir, f # Silence
  PROVE  /\ f \in Frame /\ f.fields.window \in Windows /\ f.fields.remaining \in 1 .. f.fields.window
         /\ f.age \in 0 .. MaxAge
<1>1. f \in Frame /\ f.fields.remaining =< f.fields.window
  BY DEF OnAir
<1>2. f.fields.window \in Windows /\ f.fields.remaining \in 1 .. MaximumWindow /\ f.age \in 0 .. MaxAge
  BY <1>1 DEF Frame
<1>3. f.fields.window \in Nat
  BY <1>2, WindowNumber
<1> QED BY <1>1, <1>2, <1>3

\* The invariant holds at first.
LEMMA InvAtFirst ==
  Init => Inv
<1> SUFFICES ASSUME Init PROVE Inv
  OBVIOUS
<1>1. sky_mac_create \in SkyMAC /\ Steady(sky_mac_create)
  BY Numbers DEF sky_mac_create, SkyMAC, Ticks, Windows, Steady, Settled
<1>2. now \in Ticks /\ resets \in 0 .. MaxResets
  BY Numbers, TddLinkAssumption DEF Init, Ticks
<1>3. air \in [End -> OnAir]
  BY DEF Init, OnAir
<1>4. ASSUME NEW e \in End PROVE Steady(mac[e]) /\ KeepsQuiet(mac[e], Clock(e), quiet[e])
  BY <1>1 DEF Init, KeepsQuiet
<1> QED BY <1>1, <1>2, <1>3, <1>4 DEF Init, Inv

\* A tick keeps an end quiet for one tick less.
LEMMA TickKeeps ==
  Inv /\ Tick => Inv'
<1> SUFFICES ASSUME Inv, Tick PROVE Inv'
  OBVIOUS
<1>1. now' \in Ticks
  <2>1. MOD_TIME_TICKS \in Nat \ {0} /\ now + 1 \in Int
    BY Numbers DEF Inv, Ticks
  <2> QED BY <2>1, Divided DEF Tick, wrap_time_ticks, Ticks
<1>2. air' \in [End -> OnAir]
  <2> SUFFICES ASSUME NEW e \in End
               PROVE  (IF air[e].age \in {-1, MaxAge} THEN Silence
                       ELSE [air[e] EXCEPT !.age = @ + 1]) \in OnAir
    BY DEF Tick
  <2>1. CASE air[e].age \in {-1, MaxAge}
    BY <2>1 DEF OnAir
  <2>2. CASE air[e].age \notin {-1, MaxAge}
    <3>1. air[e] # Silence /\ air[e] \in OnAir
      BY <2>2, SilenceIsNone DEF Inv
    <3>2. air[e] \in Frame /\ air[e].fields.remaining =< air[e].fields.window
      BY <3>1 DEF OnAir
    <3>3. air[e].age + 1 \in 0 .. MaxAge
      BY <2>2, <3>1, OnAirIs, TddLinkAssumption
    <3> QED BY <2>2, <3>2, <3>3 DEF OnAir, Frame
  <2> QED BY <2>1, <2>2
<1>3. ASSUME NEW e \in End
      PROVE  quiet'[e] \in Nat /\ KeepsQuiet(mac[e], Clock(e)', quiet'[e])
  <2> DEFINE m == mac[e]
             c == Clock(e)
             n == Clock(e)'
             q == quiet[e]
             p == wrap_tdd_cycle(m, c)
             C == get_mac_cycle(m)
             w == m.my_window_length
  <2>1. m \in SkyMAC /\ c \in Ticks /\ q \in Nat /\ KeepsQuiet(m, c, q)
    BY ClockIs DEF Inv
  <2>2. n = wrap_time_ticks(c + 1)
    BY ClockTicks DEF Inv, Tick
  <2>3. n \in Ticks
    <3>1. MOD_TIME_TICKS \in Nat \ {0} /\ c + 1 \in Int
      BY <2>1, Numbers DEF Ticks
    <3> QED BY <2>2, <3>1, Divided DEF wrap_time_ticks, Ticks
  <2>4. quiet'[e] = IF n = m.T0 THEN 0 ELSE Max({0, q - 1})
    BY DEF Tick, ClockTurns
  <2>5. Max({0, q - 1}) = IF 0 >= q - 1 THEN 0 ELSE q - 1
    BY <2>1, MaxOfTwo
  <2>6. p \in Nat /\ C \in Nat /\ w \in Nat
    BY <2>1, InCycle, Cycle, Fields, WindowNumber
  <2>7. n # m.T0 => wrap_tdd_cycle(m, n) = IF p + 1 = C THEN 0 ELSE p + 1
    BY <2>1, <2>2, <2>3, TickMoves
  <2>8. q > 0 => p >= w /\ p + q =< C
    BY <2>1 DEF KeepsQuiet
  <2> HIDE DEF m, c, n, q, p, C, w
  <2>9. quiet'[e] \in Nat
    BY <2>1, <2>4, <2>5
  <2>10. quiet'[e] > 0 => wrap_tdd_cycle(m, n) >= w /\ wrap_tdd_cycle(m, n) + quiet'[e] =< C
    BY <2>1, <2>4, <2>5, <2>6, <2>7, <2>8
  <2> QED BY <2>9, <2>10 DEF KeepsQuiet, m, n, C, w
<1>4. quiet' \in [End -> Nat]
  BY <1>3 DEF Tick
<1>5. due' \subseteq End /\ in_step' \in BOOLEAN /\ mac' = mac /\ resets' = resets
  BY DEF Tick, Inv
<1> QED BY <1>1, <1>2, <1>3, <1>4, <1>5 DEF Inv

\* The bookkeeping of sky_tx leaves an end quiet that has to be.
LEMMA TrackedKeeps ==
  ASSUME Inv, NEW e \in End, NEW content \in BOOLEAN
  PROVE  /\ Tracked(e, content) \in SkyMAC /\ Steady(Tracked(e, content))
         /\ KeepsQuiet(Tracked(e, content), Clock(e), quiet[e])
         /\ Tracked(e, content).T0 # mac[e].T0
              => wrap_time_ticks(Clock(e) - Tracked(e, content).T0) = get_mac_cycle(Tracked(e, content))
<1> DEFINE m == mac[e]
           c == Clock(e)
           q == quiet[e]
           can == CanSend(e)
           o == Tracked(e, content)
<1>1. m \in SkyMAC /\ c \in Ticks /\ q \in Nat /\ Steady(m) /\ KeepsQuiet(m, c, q)
  BY ClockIs DEF Inv
<1>2. can <=> wrap_tdd_cycle(m, c) < m.my_window_length
  BY <1>1, CanSendIs DEF CanSend
<1>3. can \in BOOLEAN
  BY DEF CanSend, mac_can_send
<1>4. o = _sky_tx_track_tdd_state(m, can, content, c)
  BY DEF Tracked
<1> HIDE DEF m, c, q, can, o
<1>5. o \in SkyMAC /\ Steady(o) /\ (~can => SameTimes(m, o))
      /\ (SameTimes(m, o) \/ wrap_time_ticks(c - o.T0) = get_mac_cycle(o))
  BY <1>1, <1>3, <1>4, TrackedIs
<1>6. o.T0 # m.T0 => wrap_time_ticks(c - o.T0) = get_mac_cycle(o)
  BY <1>5 DEF SameTimes
<1>7. KeepsQuiet(o, c, q)
  <2>1. CASE can
    <3>1. ~(q > 0)
      <4>1. wrap_tdd_cycle(m, c) \in Nat /\ m.my_window_length \in Nat
        BY <1>1, InCycle, Cycle, Fields, WindowNumber
      <4> QED BY <1>1, <1>2, <2>1, <4>1 DEF KeepsQuiet
    <3> QED BY <3>1 DEF KeepsQuiet
  <2>2. CASE ~can
    <3>1. SameTimes(m, o)
      BY <1>5, <2>2
    <3>2. get_mac_cycle(o) = get_mac_cycle(m) /\ wrap_tdd_cycle(o, c) = wrap_tdd_cycle(m, c)
      BY <1>1, <1>5, <3>1, SamePlace
    <3> QED BY <1>1, <3>1, <3>2 DEF KeepsQuiet, SameTimes
  <2> QED BY <2>1, <2>2
<1> QED BY <1>5, <1>6, <1>7 DEF m, c, q, o

\* When one end changes its MAC in a step without a tick, the invariant is
\* about that end.
LEMMA OneEnd ==
  ASSUME Inv, NEW e \in End, NEW o \in SkyMAC, NEW q \in Nat,
         mac' = [mac EXCEPT ![e] = o], quiet' = [quiet EXCEPT ![e] = q], now' = now,
         air' \in [End -> OnAir], due' \subseteq End, resets' \in 0 .. MaxResets, in_step' \in BOOLEAN,
         Steady(o), KeepsQuiet(o, Clock(e), q)
  PROVE  Inv'
<1>1. mac' \in [End -> SkyMAC] /\ quiet' \in [End -> Nat] /\ now' \in Ticks
  BY DEF Inv
<1>2. ASSUME NEW x \in End
      PROVE  Steady(mac'[x]) /\ KeepsQuiet(mac'[x], Clock(x)', quiet'[x])
  <2>1. Clock(x)' = Clock(x)
    BY DEF Clock
  <2>2. CASE x = e
    <3>1. mac'[x] = o /\ quiet'[x] = q
      BY <2>2 DEF Inv
    <3> QED BY <2>1, <2>2, <3>1
  <2>3. CASE x # e
    <3>1. mac'[x] = mac[x] /\ quiet'[x] = quiet[x]
      BY <2>3 DEF Inv
    <3> QED BY <2>1, <3>1 DEF Inv
  <2> QED BY <2>2, <2>3
<1> QED BY <1>1, <1>2 DEF Inv

\* sky_tx without a frame.
LEMMA TxNothingKeeps ==
  ASSUME Inv, NEW e \in End, NEW content \in BOOLEAN, TxNothing(e, content)
  PROVE  Inv'
<1> DEFINE o == Tracked(e, content)
           q == quiet[e]
<1>1. o \in SkyMAC /\ Steady(o) /\ KeepsQuiet(o, Clock(e), q) /\ q \in Nat
  BY TrackedKeeps DEF Inv
<1>2. mac' = [mac EXCEPT ![e] = o] /\ quiet' = [quiet EXCEPT ![e] = q] /\ now' = now
  BY DEF TxNothing, Inv
<1>3. air' \in [End -> OnAir] /\ due' \subseteq End /\ resets' \in 0 .. MaxResets /\ in_step' \in BOOLEAN
  BY DEF TxNothing, Inv
<1> HIDE DEF o, q
<1> QED BY <1>1, <1>2, <1>3, OneEnd

\* sky_tx with a frame.
LEMMA TxFrameKeeps ==
  ASSUME Inv, NEW e \in End, TxFrame(e)
  PROVE  Inv'
<1> DEFINE o == Tracked(e, TRUE)
           q == quiet[e]
           p == Peer(e)
           alone == air[p] = Silence
           fields == mac_set_frame_fields(o, Clock(e))
           frame == [fields |-> fields, T0 |-> o.T0, age |-> 0, clear |-> alone]
<1>1. o \in SkyMAC /\ Steady(o) /\ KeepsQuiet(o, Clock(e), q) /\ q \in Nat
  BY TrackedKeeps DEF Inv
<1>2. mac' = [mac EXCEPT ![e] = o] /\ quiet' = [quiet EXCEPT ![e] = q] /\ now' = now
  BY DEF TxFrame, Inv
<1>3. due' \subseteq End /\ resets' \in 0 .. MaxResets /\ in_step' \in BOOLEAN
  BY DEF TxFrame, Inv
<1>4. air' = IF alone THEN [air EXCEPT ![e] = frame]
             ELSE [air EXCEPT ![e] = frame, ![p].clear = FALSE]
  BY DEF TxFrame
<1>5. fields \in [window : Windows, remaining : 1 .. MaximumWindow] /\ fields.remaining =< fields.window
  BY <1>1, ClockIs, AnnouncedIs DEF Inv
<1>6. o.T0 \in Ticks
  BY <1>1, Fields
<1> HIDE DEF o, q, fields
<1>7. frame \in OnAir
  <2>1. 0 \in 0 .. MaxAge /\ alone \in BOOLEAN
    BY TddLinkAssumption
  <2>2. frame \in Frame
    BY <1>5, <1>6, <2>1 DEF Frame
  <2> QED BY <1>5, <2>2 DEF OnAir
<1>8. p \in End /\ p # e /\ air \in [End -> OnAir]
  BY Peers DEF Inv
<1>9. air' \in [End -> OnAir]
  <2>1. CASE alone
    <3> HIDE DEF frame, alone
    <3> QED BY <1>4, <1>7, <1>8, <2>1
  <2>2. CASE ~alone
    <3> DEFINE old == air[p]
               spoiled == [old EXCEPT !.clear = FALSE]
    <3>1. old \in Frame /\ old.fields.remaining =< old.fields.window
      BY <1>8, <2>2 DEF OnAir
    <3>2. spoiled \in OnAir
      BY <3>1 DEF OnAir, Frame
    <3>3. air' = [air EXCEPT ![e] = frame, ![p] = spoiled]
      BY <1>4, <1>8, <2>2
    <3> HIDE DEF spoiled, old, frame, alone, p
    <3> QED BY <1>7, <1>8, <3>2, <3>3
  <2> QED BY <2>1, <2>2
<1> QED BY <1>1, <1>2, <1>3, <1>9, OneEnd

\* A frame that is received: the end keeps quiet for the rest of the window that
\* it announces and for the tail, less the time since it arrived.
LEMMA ReceiveKeeps ==
  ASSUME Inv, NEW e \in End, Receive(e)
  PROVE  Inv'
<1> DEFINE m == mac[e]
           c == Clock(e)
           f == air[Peer(e)]
           w == f.fields.window
           rest == f.fields.remaining
           late == f.age - Delay
           o == mac_update_belief(m, c, wrap_time_ticks(c - late), w, rest)
           q == Max({0, rest + Tail - late})
           C == get_mac_cycle(o)
           d == wrap_time_ticks(c - o.T0)
<1>1. m \in SkyMAC /\ c \in Ticks /\ Steady(m)
  BY ClockIs DEF Inv
<1>2. f \in OnAir /\ f # Silence /\ late >= 0
  BY Peers DEF Inv, Receive
<1>3. w \in Windows /\ rest \in 1 .. w /\ late \in Nat
  BY <1>2, OnAirIs, TddLinkAssumption
<1>4. mac' = [mac EXCEPT ![e] = o] /\ quiet' = [quiet EXCEPT ![e] = q] /\ now' = now
  BY DEF Receive, Inv
<1>5. due' \subseteq End /\ resets' \in 0 .. MaxResets /\ in_step' \in BOOLEAN
  BY DEF Receive, Inv, LengthsKnown
<1>6. air' \in [End -> OnAir]
  <2>1. air' = [air EXCEPT ![Peer(e)] = Silence] /\ Silence \in OnAir
    BY DEF Receive, OnAir
  <2> QED BY <2>1, Peers DEF Inv
<1> HIDE DEF m, c, w, rest, late, f
<1>7. /\ o \in SkyMAC /\ o.my_window_length = m.my_window_length
      /\ o.window_on = m.window_on /\ o.window_adjust_counter = m.window_adjust_counter
      /\ d \in Nat /\ d =< C - Tail /\ d >= m.my_window_length + Gap
      /\ late < MOD_TIME_TICKS => d = IF late < rest THEN C - (rest + Tail - late) ELSE C - Tail
      /\ late < rest + Tail => late < MOD_TIME_TICKS
  BY <1>1, <1>3, BeliefIs
<1> HIDE DEF o
<1>8. C \in Nat \ {0} /\ m.my_window_length \in Nat /\ rest \in Nat \ {0}
  BY <1>1, <1>3, <1>7, Cycle, Fields, WindowNumber
<1>9. q = IF 0 >= rest + Tail - late THEN 0 ELSE rest + Tail - late
  BY <1>3, <1>8, Numbers, MaxOfTwo
<1>10. d < C => wrap_tdd_cycle(o, c) = d
  BY <1>1, <1>7, InCycle
<1>11. Steady(o)
  BY <1>1, <1>7 DEF Steady, Settled
<1> HIDE DEF q, d, C
<1>12. q \in Nat
  BY <1>3, <1>8, <1>9, Numbers
<1>13. q > 0 => d < C /\ d >= m.my_window_length /\ d + q =< C
  BY <1>3, <1>7, <1>8, <1>9, Numbers
<1>14. KeepsQuiet(o, c, q)
  BY <1>7, <1>10, <1>13 DEF KeepsQuiet, C
<1> QED BY <1>4, <1>5, <1>6, <1>7, <1>11, <1>12, <1>14, OneEnd DEF c

\* A carrier that is sensed: the end keeps quiet for the fallback, or for as long
\* as it had to before.
LEMMA CarrierKeeps ==
  ASSUME Inv, NEW e \in End, CarrierSensed(e)
  PROVE  Inv'
<1> DEFINE m == mac[e]
           c == Clock(e)
           old == quiet[e]
           cs == carrier_sense_ticks
           o == sky_mac_carrier_sensed(m, c)
           q == Max({old, cs})
           C == get_mac_cycle(m)
           p == wrap_tdd_cycle(m, c)
           d == wrap_time_ticks(c - o.T0)
           w == m.my_window_length
<1>1. m \in SkyMAC /\ c \in Ticks /\ Steady(m) /\ KeepsQuiet(m, c, old) /\ old \in Nat
  BY ClockIs DEF Inv
<1>2. mac' = [mac EXCEPT ![e] = o] /\ quiet' = [quiet EXCEPT ![e] = q] /\ now' = now
  BY DEF CarrierSensed, Inv
<1>3. air' \in [End -> OnAir] /\ due' \subseteq End /\ resets' \in 0 .. MaxResets /\ in_step' \in BOOLEAN
  BY DEF CarrierSensed, Inv
<1> HIDE DEF m, c, old
<1>4. /\ o \in SkyMAC /\ get_mac_cycle(o) = C /\ o.my_window_length = w
      /\ o.window_on = m.window_on /\ o.window_adjust_counter = m.window_adjust_counter
      /\ \/ o = m /\ C - p > cs /\ p >= w
         \/ d = C - cs /\ (p < w \/ C - p =< cs)
  BY <1>1, CarrierIs
<1> HIDE DEF o
<1>5. cs \in Nat /\ cs =< MinimumWindow + Gap /\ p \in Nat /\ p < C /\ C \in Nat /\ w \in Nat
  BY <1>1, Fallback, InCycle, Cycle, Fields, WindowNumber
<1>6. C - cs >= w
  <2>1. C = w + Gap + m.peer_window_length + Tail /\ m.peer_window_length \in Nat
        /\ m.peer_window_length >= MinimumWindow
    BY <1>1, Cycle, Fields, WindowNumber
  <2> HIDE DEF C, cs, w
  <2> QED BY <1>5, <2>1, Numbers
<1>7. q = IF old >= cs THEN old ELSE cs
  BY <1>1, <1>5, MaxOfTwo
<1>8. Steady(o)
  BY <1>1, <1>4 DEF Steady, Settled
<1>9. d < C => wrap_tdd_cycle(o, c) = d
  BY <1>1, <1>4, InCycle
<1>10. old > 0 => p >= w /\ p + old =< C
  BY <1>1 DEF KeepsQuiet
<1> HIDE DEF q, d, C, w, cs, p
<1>11. q \in Nat
  BY <1>1, <1>5, <1>7
<1>12. CASE o = m /\ C - p > cs /\ p >= w
  <2>1. q > 0 => p >= w /\ p + q =< C
    BY <1>1, <1>5, <1>7, <1>10, <1>12
  <2>2. KeepsQuiet(o, c, q)
    BY <1>12, <2>1 DEF KeepsQuiet, p, C, w
  <2> QED BY <1>2, <1>3, <1>4, <1>8, <1>11, <2>2, OneEnd DEF c
<1>13. CASE d = C - cs /\ (p < w \/ C - p =< cs)
  <2>1. q > 0 => d < C /\ d >= w /\ d + q =< C
    BY <1>1, <1>5, <1>6, <1>7, <1>10, <1>13
  <2>2. KeepsQuiet(o, c, q)
    BY <1>4, <1>9, <2>1 DEF KeepsQuiet
  <2> QED BY <1>2, <1>3, <1>4, <1>8, <1>11, <2>2, OneEnd DEF c
<1> QED BY <1>4, <1>12, <1>13

\* The reset opens the window.
LEMMA ResetKeeps ==
  ASSUME Inv, NEW e \in End, Reset(e)
  PROVE  Inv'
<1> DEFINE o == mac_reset(mac[e], Clock(e))
<1>1. o \in SkyMAC /\ o.window_adjust_counter = 0
  BY ResetIs, ClockIs DEF Inv
<1>2. mac' = [mac EXCEPT ![e] = o] /\ quiet' = [quiet EXCEPT ![e] = 0] /\ now' = now
  BY DEF Reset, Inv
<1>3. air' \in [End -> OnAir] /\ due' \subseteq End /\ in_step' \in BOOLEAN
  BY DEF Reset, Inv
<1>4. resets' \in 0 .. MaxResets
  BY TddLinkAssumption DEF Reset, Inv
<1> HIDE DEF o
<1>5. Steady(o) /\ KeepsQuiet(o, Clock(e), 0)
  BY <1>1, Numbers DEF Steady, Settled, KeepsQuiet
<1>6. 0 \in Nat
  OBVIOUS
<1> QED BY <1>1, <1>2, <1>3, <1>4, <1>5, <1>6, OneEnd

\* Every step keeps the invariant.
LEMMA InvKept ==
  Inv /\ [Next]_vars => Inv'
<1> SUFFICES ASSUME Inv, [Next]_vars PROVE Inv'
  OBVIOUS
<1>1. CASE Tick
  BY <1>1, TickKeeps
<1>2. ASSUME NEW e \in End, SkyTx(e) PROVE Inv'
  BY <1>2, TxFrameKeeps, TxNothingKeeps DEF SkyTx
<1>3. ASSUME NEW e \in End, Receive(e) PROVE Inv'
  BY <1>3, ReceiveKeeps
<1>4. ASSUME NEW e \in End, CarrierSensed(e) PROVE Inv'
  BY <1>4, CarrierKeeps
<1>5. ASSUME NEW e \in End, Reset(e) PROVE Inv'
  BY <1>5, ResetKeeps
<1>6. CASE UNCHANGED vars
  BY <1>6 DEF vars, Inv, Clock, Steady, Settled, KeepsQuiet
<1> QED BY <1>1, <1>2, <1>3, <1>4, <1>5, <1>6 DEF Next

\* The invariant is one.
LEMMA InvAlways ==
  Spec => []Inv
BY InvAtFirst, InvKept, PTL DEF Spec

\* The variables have their types: no sequence of frames, carriers, commands and
\* adjustments takes a window out of the configured limits, the counter of
\* adjustments out of its period, or T0 off the clock.
THEOREM TypeCorrect ==
  Spec => []TypeOK
<1>1. Inv => TypeOK
  BY DEF Inv, TypeOK, OnAir
<1> QED BY <1>1, InvAlways, PTL

\* An end that knows of the window of its peer, or has sensed a carrier, does not
\* transmit before that window and the tail, or the fallback, are over, whatever
\* the configuration, the delay of the frame and the place of the clocks.
THEOREM HoldsOffCorrect ==
  Spec => []HoldsOff
<1>1. Inv => HoldsOff
  <2> SUFFICES ASSUME Inv, NEW e \in End, quiet[e] > 0 PROVE ~CanSend(e)
    BY DEF HoldsOff
  <2>1. mac[e] \in SkyMAC /\ Clock(e) \in Ticks /\ KeepsQuiet(mac[e], Clock(e), quiet[e])
    BY ClockIs DEF Inv
  <2>2. wrap_tdd_cycle(mac[e], Clock(e)) \in Nat /\ mac[e].my_window_length \in Nat
    BY <2>1, InCycle, Cycle, Fields, WindowNumber
  <2> QED BY <2>1, <2>2, CanSendIs DEF KeepsQuiet, CanSend
<1> QED BY <1>1, InvAlways, PTL

\* A step that sets T0 of an end sets it behind the clock, by no more than a cycle.
SetsBehind(e) ==
  mac[e].T0' # mac[e].T0 => wrap_time_ticks(Clock(e) - mac[e].T0') =< get_mac_cycle(mac[e]')

\* Where one end changes its MAC, T0 of the other stays.
LEMMA OneEndSets ==
  ASSUME Inv, NEW e \in End, NEW o \in SkyMAC, mac' = [mac EXCEPT ![e] = o],
         o.T0 # mac[e].T0 => wrap_time_ticks(Clock(e) - o.T0) =< get_mac_cycle(o)
  PROVE  \A x \in End : SetsBehind(x)
<1> SUFFICES ASSUME NEW x \in End PROVE SetsBehind(x)
  OBVIOUS
<1>1. CASE x = e
  <2>1. mac[x]' = o
    BY <1>1 DEF Inv
  <2> QED BY <1>1, <2>1 DEF SetsBehind
<1>2. CASE x # e
  <2>1. mac[x]' = mac[x]
    BY <1>2 DEF Inv
  <2> QED BY <2>1 DEF SetsBehind
<1> QED BY <1>1, <1>2

\* T0 is always set behind the clock, across its wrap and from a frame that was
\* received any time before: the differences of mac.c never wrap the wrong way.
THEOREM T0Correct ==
  Spec => T0StaysBehind
<1>1. ASSUME Inv, [Next]_vars PROVE \A x \in End : SetsBehind(x)
  <2>1. CASE mac' = mac
    BY <2>1 DEF SetsBehind
  <2>2. ASSUME NEW e \in End, NEW content \in BOOLEAN, mac' = [mac EXCEPT ![e] = Tracked(e, content)]
        PROVE  \A x \in End : SetsBehind(x)
    <3> DEFINE o == Tracked(e, content)
    <3>1. o \in SkyMAC /\ get_mac_cycle(o) \in Nat
          /\ (o.T0 # mac[e].T0 => wrap_time_ticks(Clock(e) - o.T0) = get_mac_cycle(o))
      BY <1>1, TrackedKeeps, Cycle
    <3> HIDE DEF o
    <3>2. o.T0 # mac[e].T0 => wrap_time_ticks(Clock(e) - o.T0) =< get_mac_cycle(o)
      BY <3>1
    <3> QED BY <1>1, <2>2, <3>1, <3>2, OneEndSets DEF o
  <2>3. ASSUME NEW e \in End, SkyTx(e) PROVE \A x \in End : SetsBehind(x)
    BY <2>2, <2>3 DEF SkyTx, TxFrame, TxNothing
  <2>4. ASSUME NEW e \in End, Receive(e) PROVE \A x \in End : SetsBehind(x)
    <3> DEFINE m == mac[e]
               c == Clock(e)
               f == air[Peer(e)]
               w == f.fields.window
               rest == f.fields.remaining
               late == f.age - Delay
               o == mac_update_belief(m, c, wrap_time_ticks(c - late), w, rest)
    <3>1. m \in SkyMAC /\ c \in Ticks
      BY <1>1, ClockIs DEF Inv
    <3>2. f \in OnAir /\ f # Silence /\ late >= 0
      BY <1>1, <2>4, Peers DEF Inv, Receive
    <3>3. w \in Windows /\ rest \in 1 .. w /\ late \in Nat
      BY <3>2, OnAirIs, TddLinkAssumption
    <3>4. mac' = [mac EXCEPT ![e] = o]
      BY <2>4 DEF Receive
    <3> HIDE DEF m, c, w, rest, late, f
    <3>5. o \in SkyMAC /\ wrap_time_ticks(c - o.T0) \in Nat
          /\ wrap_time_ticks(c - o.T0) =< get_mac_cycle(o) - Tail
      BY <3>1, <3>3, BeliefIs
    <3> HIDE DEF o
    <3>6. wrap_time_ticks(c - o.T0) =< get_mac_cycle(o)
      BY <3>5, Cycle, Numbers
    <3> QED BY <1>1, <3>4, <3>5, <3>6, OneEndSets DEF c
  <2>5. ASSUME NEW e \in End, CarrierSensed(e) PROVE \A x \in End : SetsBehind(x)
    <3> DEFINE m == mac[e]
               c == Clock(e)
               o == sky_mac_carrier_sensed(m, c)
    <3>1. m \in SkyMAC /\ c \in Ticks
      BY <1>1, ClockIs DEF Inv
    <3>2. mac' = [mac EXCEPT ![e] = o]
      BY <2>5 DEF CarrierSensed
    <3> HIDE DEF c
    <3>3. o \in SkyMAC /\ get_mac_cycle(o) = get_mac_cycle(m)
          /\ (o = m \/ wrap_time_ticks(c - o.T0) = get_mac_cycle(m) - carrier_sense_ticks)
      BY <3>1, CarrierIs
    <3> HIDE DEF o
    <3>4. o.T0 # m.T0 => wrap_time_ticks(c - o.T0) =< get_mac_cycle(o)
      BY <3>1, <3>3, Cycle, Fallback
    <3> QED BY <1>1, <3>2, <3>3, <3>4, OneEndSets DEF c
  <2>6. ASSUME NEW e \in End, Reset(e) PROVE \A x \in End : SetsBehind(x)
    <3> DEFINE o == mac_reset(mac[e], Clock(e))
    <3>1. o \in SkyMAC /\ wrap_time_ticks(Clock(e) - o.T0) = get_mac_cycle(o)
      BY <1>1, ResetIs, ClockIs DEF Inv
    <3>2. mac' = [mac EXCEPT ![e] = o]
      BY <2>6 DEF Reset
    <3> HIDE DEF o
    <3>3. wrap_time_ticks(Clock(e) - o.T0) =< get_mac_cycle(o)
      BY <3>1, Cycle
    <3> QED BY <1>1, <3>1, <3>2, <3>3, OneEndSets
  <2>7. CASE Tick \/ UNCHANGED vars
    BY <2>1, <2>7 DEF Tick, vars
  <2> QED BY <1>1, <2>3, <2>4, <2>5, <2>6, <2>7 DEF Next
<1>2. Inv /\ [Next]_vars
      => [\A e \in End : mac[e].T0' # mac[e].T0
            => wrap_time_ticks(Clock(e) - mac[e].T0') =< get_mac_cycle(mac[e]')]_vars
  BY <1>1 DEF SetsBehind
<1> QED BY <1>2, InvAlways, PTL DEF Spec, T0StaysBehind

-----------------------------------------------------------------------------
(* Two ends that are in step. *)

\* What the configuration and the radio need to leave room for: the way of a frame
\* and its processing within the gap, a window put off by a carrier within gap and
\* tail, and a tick of tail.
Ample ==
  /\ Tail >= 1 /\ Delay =< Gap /\ MaxAge =< Gap + 1
  /\ carrier_sense_ticks + MaxAge =< Gap + Tail + 1

\* The bookkeeping of sky_tx starts a window anew only when the adjustment counter
\* has reached its period.
LEMMA SettledStays ==
  ASSUME NEW m \in SkyMAC, NEW c \in Ticks, NEW can \in BOOLEAN, NEW content \in BOOLEAN, Settled(m)
  PROVE  SameTimes(m, _sky_tx_track_tdd_state(m, can, content, c))
<1>1. CASE can
  <2>1. WindowOpens(m, c) = m
    <3>1. ~(m.window_adjust_counter =< -AdjustPeriod) /\ ~(m.window_adjust_counter >= AdjustPeriod)
      BY Numbers DEF Settled
    <3> QED BY <3>1 DEF WindowOpens
  <2>2. _sky_tx_track_tdd_state(m, can, content, c)
          = [m EXCEPT !.window_on = TRUE, !.unused_window_time = @ \/ ~content]
    BY <1>1, <2>1 DEF _sky_tx_track_tdd_state
  <2> QED BY <2>2 DEF SameTimes, SkyMAC
<1>2. CASE ~can
  BY <1>2, TrackedIs DEF Steady
<1> QED BY <1>1, <1>2

\* When it has asked within a window, the counter is short of its period.
LEMMA SentSettled ==
  ASSUME NEW m \in SkyMAC, NEW c \in Ticks, NEW content \in BOOLEAN, Steady(m)
  PROVE  Settled(_sky_tx_track_tdd_state(m, TRUE, content, c))
<1> DEFINE o == _sky_tx_track_tdd_state(m, TRUE, content, c)
           n == IF m.window_on THEN m ELSE WindowOpens(m, c)
<1>1. o = [n EXCEPT !.window_on = TRUE, !.unused_window_time = @ \/ ~content]
  BY DEF _sky_tx_track_tdd_state
<1>2. n \in SkyMAC
  BY OpensIs
<1> HIDE DEF n
<1>3. o.window_on = TRUE
  BY <1>1, <1>2 DEF SkyMAC
<1>4. Steady(o)
  BY TrackedIs
<1> QED BY <1>3, <1>4 DEF Steady

\* Two places in a cycle of length C such that the windows of length w and v, which
\* begin there, do not meet.
Apart(x, y, w, v, C) == IF y >= x THEN y - x \in v .. C - w ELSE x - y \in w .. C - v

\* Of two places apart, one is past its window.
LEMMA ApartAlone ==
  ASSUME NEW x \in Nat, NEW y \in Nat, NEW w \in Nat \ {0}, NEW v \in Nat \ {0}, NEW C \in Nat,
         Apart(x, y, w, v, C)
  PROVE  (x >= w \/ y >= v) /\ Apart(y, x, v, w, C)
BY DEF Apart

\* Places stay apart as time passes.
LEMMA ApartTicks ==
  ASSUME NEW C \in Nat \ {0}, NEW x \in 0 .. C - 1, NEW y \in 0 .. C - 1,
         NEW w \in Nat \ {0}, NEW v \in Nat \ {0}, Apart(x, y, w, v, C)
  PROVE  Apart(IF x + 1 = C THEN 0 ELSE x + 1, IF y + 1 = C THEN 0 ELSE y + 1, w, v, C)
<1>1. CASE x + 1 = C
  BY <1>1 DEF Apart
<1>2. CASE y + 1 = C /\ x + 1 # C
  BY <1>2 DEF Apart
<1>3. CASE x + 1 # C /\ y + 1 # C
  BY <1>3 DEF Apart
<1> QED BY <1>1, <1>2, <1>3

\* A window that a carrier puts off by g is clear of the window of the peer, which
\* is so far after its beginning as its frame says.
LEMMA ApartPutOff ==
  ASSUME NEW C \in Nat, NEW w \in Nat \ {0}, NEW v \in Nat \ {0}, C = w + Gap + v + Tail,
         NEW x \in 0 .. C - 1, NEW y \in Nat, NEW g \in Nat, Apart(x, y, w, v, C),
         x < w \/ C - x =< g, y + g =< v + Gap + Tail
  PROVE  Apart(IF g = 0 THEN 0 ELSE C - g, y, w, v, C)
<1>1. y + g >= v
  BY DEF Apart
<1>2. CASE g = 0
  BY <1>1, <1>2, Numbers DEF Apart
<1>3. CASE g # 0
  BY <1>1, <1>3, Numbers DEF Apart
<1> QED BY <1>2, <1>3

\* A window that is placed by a received frame is clear of the sender's.
LEMMA ApartReceived ==
  ASSUME NEW C \in Nat, NEW w \in Nat \ {0}, NEW v \in Nat \ {0}, C = w + Gap + v + Tail,
         NEW rest \in 1 .. v, NEW late \in Nat, NEW delay \in Nat,
         delay =< Gap, late + delay =< Gap + 1
  PROVE  Apart(IF late < rest THEN C - (rest + Tail - late) ELSE C - Tail,
               v - rest + (late + delay), w, v, C)
<1>1. CASE late < rest
  BY <1>1, Numbers DEF Apart
<1>2. CASE late >= rest
  BY <1>2, Numbers DEF Apart
<1> QED BY <1>1, <1>2

\* Where an end is in its cycle.
Place(e) == wrap_tdd_cycle(mac[e], Clock(e))

\* An end that is in its window has asked for a frame since the window began, and
\* will not start it anew, or has yet to ask at the beginning.
Asked(e) ==
  Place(e) < mac[e].my_window_length /\ (Place(e) > 0 \/ e \notin due \/ air[e] # Silence)
    => Settled(mac[e])

\* The MAC as it was when it made a frame.
AsSent(f, m) == [m EXCEPT !.T0 = f.T0, !.my_window_length = f.fields.window]

\* As long as the clock has not come round, a frame tells where its sender would
\* be in its cycle.
Tells(f, m, c) ==
  wrap_time_ticks(c - f.T0) >= f.age
    => wrap_tdd_cycle(AsSent(f, m), c) = f.fields.window - f.fields.remaining + f.age

\* While an end transmits it does not change its cycle, and two frames in the air
\* spoil each other.
Sent(e) ==
  air[e] # Silence =>
    /\ Settled(mac[e])
    /\ air[Peer(e)] = Silence \/ ~air[e].clear
    /\ Tells(air[e], mac[e], Clock(e))

\* What a frame says of its sender is still so.
Holds(f, m, c) ==
  f # Silence => /\ f.T0 = m.T0 /\ f.fields.window = m.my_window_length
                 /\ wrap_time_ticks(c - m.T0) >= f.age

\* The two ends know each other's lengths, frames in the air are right, and the
\* windows are apart.
ApartFrom(e) ==
  Apart(Place(e), Place(Peer(e)), mac[e].my_window_length, mac[Peer(e)].my_window_length,
        get_mac_cycle(mac[e]))

Together ==
  /\ LengthsKnown(mac)
  /\ \A e \in End : Holds(air[e], mac[e], Clock(e)) /\ ApartFrom(e)

\* The inductive invariant of ends in step.
StepInv == Inv /\ (\A e \in End : Asked(e) /\ Sent(e)) /\ (in_step => Together)

\* An end is the peer of its peer.
LEMMA PeerOfPeer ==
  ASSUME NEW e \in End
  PROVE  Peer(Peer(e)) = e
BY Peers

\* The numbers of an end.
LEMMA EndNumbers ==
  ASSUME Inv, NEW e \in End
  PROVE  /\ mac[e] \in SkyMAC /\ Clock(e) \in Ticks /\ Steady(mac[e])
         /\ Place(e) \in 0 .. get_mac_cycle(mac[e]) - 1 /\ Place(e) \in Nat
         /\ get_mac_cycle(mac[e]) \in Nat \ {0}
         /\ mac[e].my_window_length \in Nat \ {0} /\ mac[e].peer_window_length \in Nat \ {0}
         /\ get_mac_cycle(mac[e]) = mac[e].my_window_length + Gap + mac[e].peer_window_length + Tail
<1>1. mac[e] \in SkyMAC /\ Clock(e) \in Ticks /\ Steady(mac[e])
  BY ClockIs DEF Inv
<1>2. mac[e].my_window_length \in Nat \ {0} /\ mac[e].peer_window_length \in Nat \ {0}
  BY <1>1, Fields, WindowNumber
<1>3. get_mac_cycle(mac[e]) \in Nat \ {0}
      /\ get_mac_cycle(mac[e]) = mac[e].my_window_length + Gap + mac[e].peer_window_length + Tail
  BY <1>1, Cycle
<1>4. Place(e) \in 0 .. get_mac_cycle(mac[e]) - 1
  BY <1>1, InCycle DEF Place
<1> QED BY <1>1, <1>2, <1>3, <1>4

\* The MAC a frame stands for.
LEMMA AsSentIs ==
  ASSUME NEW m \in SkyMAC, NEW f \in Frame
  PROVE  /\ AsSent(f, m) \in SkyMAC /\ AsSent(f, m).T0 = f.T0
         /\ AsSent(f, m).my_window_length = f.fields.window
         /\ AsSent(f, m).peer_window_length = m.peer_window_length
         /\ get_mac_cycle(AsSent(f, m)) = f.fields.window + Gap + m.peer_window_length + Tail
<1>1. f.T0 \in Ticks /\ f.fields.window \in Windows
  BY DEF Frame
<1> DEFINE o == AsSent(f, m)
<1>2. o \in SkyMAC /\ o.T0 = f.T0 /\ o.my_window_length = f.fields.window
      /\ o.peer_window_length = m.peer_window_length
  BY <1>1 DEF AsSent, SkyMAC
<1> HIDE DEF o
<1> QED BY <1>2 DEF get_mac_cycle, o

\* What a frame tells depends on no more than the length of the peer's window.
LEMMA TellsSame ==
  ASSUME NEW m \in SkyMAC, NEW o \in SkyMAC, NEW f \in Frame, NEW g \in Frame, NEW c \in Ticks,
         o.peer_window_length = m.peer_window_length,
         g.T0 = f.T0, g.fields = f.fields, g.age = f.age, Tells(f, m, c)
  PROVE  Tells(g, o, c)
<1>1. AsSent(f, m) \in SkyMAC /\ AsSent(g, o) \in SkyMAC /\ SameTimes(AsSent(f, m), AsSent(g, o))
  BY AsSentIs DEF SameTimes
<1>2. wrap_tdd_cycle(AsSent(g, o), c) = wrap_tdd_cycle(AsSent(f, m), c)
  BY <1>1, SamePlace
<1> QED BY <1>2 DEF Tells

\* Where the sender of a frame that is still right is in its cycle.
LEMMA SenderAt ==
  ASSUME Inv, NEW e \in End, Sent(e), air[e] # Silence, air[e].T0 = mac[e].T0,
         air[e].fields.window = mac[e].my_window_length,
         wrap_time_ticks(Clock(e) - mac[e].T0) >= air[e].age
  PROVE  Place(e) = mac[e].my_window_length - air[e].fields.remaining + air[e].age
<1>1. mac[e] \in SkyMAC /\ Clock(e) \in Ticks /\ air[e] \in Frame
  BY ClockIs, OnAirIs DEF Inv
<1>2. SameTimes(AsSent(air[e], mac[e]), mac[e]) /\ AsSent(air[e], mac[e]) \in SkyMAC
  BY <1>1, AsSentIs DEF SameTimes
<1>3. Place(e) = wrap_tdd_cycle(AsSent(air[e], mac[e]), Clock(e))
  BY <1>1, <1>2, SamePlace DEF Place
<1> QED BY <1>3 DEF Sent, Tells

\* The invariant holds at first: both ends are at the beginning of a window.
LEMMA StepInvAtFirst ==
  Init => StepInv
<1> SUFFICES ASSUME Init PROVE StepInv
  OBVIOUS
<1>1. Inv
  BY InvAtFirst
<1>2. ASSUME NEW e \in End PROVE Asked(e) /\ Sent(e)
  <2>1. Settled(sky_mac_create) /\ mac[e] = sky_mac_create /\ air[e] = Silence
    BY Numbers DEF Settled, sky_mac_create, Init
  <2> QED BY <2>1 DEF Asked, Sent
<1> QED BY <1>1, <1>2 DEF Init, StepInv

\* An end whose MAC and frame stay as they are in a step without a tick.
LEMMA Untouched ==
  ASSUME NEW x \in End, Asked(x), Sent(x), now' = now, mac'[x] = mac[x], air'[x] = air[x],
         x \in due' <=> x \in due, air[Peer(x)] = Silence => air'[Peer(x)] = Silence
  PROVE  Asked(x)' /\ Sent(x)'
<1>1. Clock(x)' = Clock(x) /\ Place(x)' = Place(x)
  BY DEF Clock, Place
<1>2. Asked(x)'
  BY <1>1 DEF Asked
<1>3. Sent(x)'
  BY <1>1 DEF Sent
<1> QED BY <1>2, <1>3

\* A tick: an end that is in its window and not at the beginning of it asked for a
\* frame before the tick, and a frame is over before its sender's window ends again.
LEMMA TickSteps ==
  ASSUME Ample, StepInv, Tick
  PROVE  StepInv'
<1>0. Inv /\ Inv'
  BY TickKeeps DEF StepInv
<1>1. ASSUME NEW e \in End
      PROVE  /\ Clock(e)' = wrap_time_ticks(Clock(e) + 1) /\ Clock(e)' \in Ticks
             /\ mac'[e] = mac[e] /\ mac[e] \in SkyMAC /\ Clock(e) \in Ticks
  <2>1. Clock(e)' = wrap_time_ticks(Clock(e) + 1)
    BY <1>0, ClockTicks DEF Inv, Tick
  <2>2. Clock(e)' \in Ticks
    <3>1. MOD_TIME_TICKS \in Nat \ {0} /\ Clock(e) + 1 \in Int
      BY <1>0, EndNumbers, Numbers DEF Ticks
    <3> QED BY <2>1, <3>1, Divided DEF wrap_time_ticks, Ticks
  <2> QED BY <1>0, <2>1, <2>2, EndNumbers DEF Tick
<1>2. ASSUME NEW e \in End
      PROVE  air'[e] = IF air[e].age \in {-1, MaxAge} THEN Silence ELSE [air[e] EXCEPT !.age = @ + 1]
  BY DEF Tick
<1>3. ASSUME NEW e \in End, air'[e] # Silence
      PROVE  /\ air[e] # Silence /\ air[e] \in Frame /\ air'[e] \in Frame
             /\ air[e].fields.window \in Nat \ {0} /\ air[e].fields.remaining \in Nat \ {0}
             /\ air[e].age \in Nat /\ air[e].age + 1 =< MaxAge
             /\ air'[e].T0 = air[e].T0 /\ air'[e].fields = air[e].fields
             /\ air'[e].age = air[e].age + 1 /\ air'[e].clear = air[e].clear
  <2>1. air[e].age \notin {-1, MaxAge} /\ air'[e] = [air[e] EXCEPT !.age = @ + 1]
    BY <1>2, <1>3
  <2>2. air[e] # Silence
    BY <2>1, SilenceIsNone
  <2>3. air[e] \in Frame /\ air[e].fields.window \in Windows /\ air[e].age \in 0 .. MaxAge
        /\ air[e].fields.remaining \in 1 .. air[e].fields.window
    BY <1>0, <2>2, OnAirIs DEF Inv
  <2>4. air[e].fields.window \in Nat \ {0}
    BY <2>3, WindowNumber
  <2>5. air[e].age \in Nat /\ air[e].age + 1 =< MaxAge
    BY <2>1, <2>3, TddLinkAssumption
  <2>6. air'[e].T0 = air[e].T0 /\ air'[e].fields = air[e].fields
        /\ air'[e].age = air[e].age + 1 /\ air'[e].clear = air[e].clear
    BY <2>1, <2>3 DEF Frame
  <2>7. air'[e] \in Frame
    BY <2>1, <2>3, <2>5, TddLinkAssumption DEF Frame
  <2> QED BY <2>2, <2>3, <2>4, <2>5, <2>6, <2>7
<1>4. ASSUME NEW e \in End PROVE Sent(e)'
  <2> SUFFICES ASSUME air'[e] # Silence
               PROVE  /\ Settled(mac'[e]) /\ (air'[Peer(e)] = Silence \/ ~air'[e].clear)
                      /\ Tells(air'[e], mac'[e], Clock(e)')
    BY DEF Sent
  <2>1. Sent(e) /\ air[e] # Silence
    BY <1>3 DEF StepInv
  <2>2. Settled(mac'[e])
    BY <1>1, <2>1 DEF Sent
  <2>3. air'[Peer(e)] = Silence \/ ~air'[e].clear
    <3>1. air[Peer(e)] = Silence \/ ~air[e].clear
      BY <2>1 DEF Sent
    <3>2. air[Peer(e)] = Silence => air'[Peer(e)] = Silence
      BY <1>2, Peers, SilenceIsNone
    <3> QED BY <1>3, <3>1, <3>2
  <2>4. Tells(air'[e], mac'[e], Clock(e)')
    <3> DEFINE f == air[e]
               m == AsSent(f, mac[e])
               o == AsSent(air'[e], mac'[e])
               c == Clock(e)
               n == Clock(e)'
               w == f.fields.window
               r == f.fields.remaining
               a == f.age
               C == get_mac_cycle(m)
               s == wrap_time_ticks(c - m.T0)
               z == wrap_time_ticks(n - m.T0)
    <3>1. m \in SkyMAC /\ m.T0 = f.T0 /\ o = m
      <4>1. m \in SkyMAC /\ m.T0 = f.T0
        BY <1>1, <1>3, AsSentIs
      <4>2. o = m
        BY <1>1, <1>3 DEF AsSent
      <4> QED BY <4>1, <4>2
    <3>2. C = w + Gap + mac[e].peer_window_length + Tail /\ mac[e].peer_window_length \in Nat \ {0}
          /\ C \in Nat
      BY <1>0, <1>1, <1>3, <3>1, AsSentIs, EndNumbers, Cycle
    <3>3. s \in Nat /\ z \in Nat /\ (n = m.T0 => z = 0)
      BY <1>1, <3>1, InCycle, Fields DEF Ticks
    <3>4. n # m.T0 => /\ z = s + 1
                      /\ wrap_tdd_cycle(m, n) = IF wrap_tdd_cycle(m, c) + 1 = C THEN 0
                                                ELSE wrap_tdd_cycle(m, c) + 1
      BY <1>1, <3>1, TickMoves
    <3>5. s >= a => wrap_tdd_cycle(m, c) = w - r + a
      BY <2>1, <3>1 DEF Sent, Tells
    <3>6. w \in Nat \ {0} /\ r \in Nat \ {0} /\ a \in Nat /\ a + 1 =< MaxAge /\ MaxAge \in Nat
          /\ MaxAge =< Gap + 1
      BY <1>3, TddLinkAssumption DEF Ample
    <3> HIDE DEF s, z, a, w, r, C, n, c, m
    <3>7. z >= a + 1 => wrap_tdd_cycle(m, n) = w - r + (a + 1)
      BY <3>2, <3>3, <3>4, <3>5, <3>6, Numbers
    <3>8. air'[e].age = a + 1 /\ air'[e].fields.window = w /\ air'[e].fields.remaining = r
          /\ wrap_time_ticks(n - air'[e].T0) = z
      BY <1>3, <3>1 DEF a, w, r, z
    <3> QED BY <3>1, <3>7, <3>8 DEF Tells, n
  <2> QED BY <2>2, <2>3, <2>4
<1>5. ASSUME NEW e \in End, Clock(e)' # mac[e].T0
      PROVE  /\ wrap_time_ticks(Clock(e)' - mac[e].T0) = wrap_time_ticks(Clock(e) - mac[e].T0) + 1
             /\ Place(e)' = IF Place(e) + 1 = get_mac_cycle(mac[e]) THEN 0 ELSE Place(e) + 1
  <2>1. /\ wrap_time_ticks(Clock(e)' - mac[e].T0) = wrap_time_ticks(Clock(e) - mac[e].T0) + 1
        /\ wrap_tdd_cycle(mac[e], Clock(e)')
             = IF wrap_tdd_cycle(mac[e], Clock(e)) + 1 = get_mac_cycle(mac[e]) THEN 0
               ELSE wrap_tdd_cycle(mac[e], Clock(e)) + 1
    BY <1>1, <1>5, TickMoves
  <2>2. Place(e)' = wrap_tdd_cycle(mac[e], Clock(e)')
    BY <1>1 DEF Place
  <2> QED BY <2>1, <2>2 DEF Place
<1>6. ASSUME NEW e \in End PROVE Asked(e)'
  <2> SUFFICES ASSUME Place(e)' < mac'[e].my_window_length,
                      Place(e)' > 0 \/ e \notin due' \/ air'[e] # Silence
               PROVE  Settled(mac'[e])
    BY DEF Asked
  <2>1. Asked(e) /\ Sent(e) /\ mac'[e] = mac[e] /\ e \in due'
    BY <1>1 DEF StepInv, Tick
  <2>2. CASE air[e] # Silence
    BY <2>1, <2>2 DEF Sent
  <2>3. CASE air[e] = Silence
    <3>1. air'[e] = Silence /\ e \notin due
      BY <1>2, <2>3, SilenceIsNone DEF Tick
    <3>2. Place(e)' > 0
      BY <2>1, <3>1
    <3>3. Clock(e)' # mac[e].T0
      <4> SUFFICES ASSUME Clock(e)' = mac[e].T0 PROVE FALSE
        OBVIOUS
      <4>1. wrap_time_ticks(Clock(e)' - mac[e].T0) = 0
        BY <1>1, InCycle, Fields DEF Ticks
      <4>2. wrap_tdd_cycle(mac[e], Clock(e)') = 0
        <5>1. get_mac_cycle(mac[e]) > 0
          BY <1>1, Cycle
        <5> QED BY <1>1, <4>1, <5>1, InCycle
      <4> QED BY <1>1, <3>2, <4>2 DEF Place
    <3>4. Place(e) < mac[e].my_window_length
      BY <1>0, <1>5, <2>1, <3>2, <3>3, EndNumbers
    <3> QED BY <2>1, <3>1, <3>4 DEF Asked
  <2> QED BY <2>2, <2>3
<1>7. ASSUME in_step' PROVE Together'
  <2>1. in_step /\ \A e \in End : Clock(e)' # mac[e].T0
    BY <1>7 DEF Tick, ClockTurns
  <2>2. Together /\ mac' = mac
    BY <2>1 DEF StepInv, Tick
  <2>3. LengthsKnown(mac)'
    BY <2>2 DEF Together, LengthsKnown
  <2>4. ASSUME NEW e \in End PROVE Holds(air[e], mac[e], Clock(e))'
    <3> SUFFICES ASSUME air'[e] # Silence
                 PROVE  /\ air'[e].T0 = mac[e].T0 /\ air'[e].fields.window = mac[e].my_window_length
                        /\ wrap_time_ticks(Clock(e)' - mac[e].T0) >= air'[e].age
      BY <2>2 DEF Holds
    <3>1. air[e].T0 = mac[e].T0 /\ air[e].fields.window = mac[e].my_window_length
          /\ wrap_time_ticks(Clock(e) - mac[e].T0) >= air[e].age
      BY <1>3, <2>2 DEF Together, Holds
    <3>2. wrap_time_ticks(Clock(e) - mac[e].T0) \in Nat
      BY <1>1, InCycle DEF Ticks
    <3> QED BY <1>3, <1>5, <2>1, <3>1, <3>2
  <2>5. ASSUME NEW e \in End PROVE ApartFrom(e)'
    <3> DEFINE p == Peer(e)
               C == get_mac_cycle(mac[e])
    <3>1. p \in End /\ get_mac_cycle(mac[p]) = C
      <4>1. p \in End /\ Peer(p) = e
        BY Peers, PeerOfPeer
      <4>2. mac[e].peer_window_length = mac[p].my_window_length
            /\ mac[p].peer_window_length = mac[e].my_window_length
        BY <2>2, <4>1 DEF Together, LengthsKnown
      <4>3. mac[e].my_window_length \in Nat /\ mac[e].peer_window_length \in Nat
            /\ C = mac[e].my_window_length + Gap + mac[e].peer_window_length + Tail
        BY <1>0, EndNumbers
      <4>4. get_mac_cycle(mac[p]) = mac[p].my_window_length + Gap + mac[p].peer_window_length + Tail
        BY <1>0, <4>1, EndNumbers
      <4> QED BY <4>1, <4>2, <4>3, <4>4, Numbers
    <3>2. C \in Nat \ {0} /\ Place(e) \in 0 .. C - 1 /\ Place(p) \in 0 .. C - 1
          /\ mac[e].my_window_length \in Nat \ {0} /\ mac[p].my_window_length \in Nat \ {0}
      BY <1>0, <3>1, EndNumbers
    <3>3. Apart(Place(e), Place(p), mac[e].my_window_length, mac[p].my_window_length, C)
      BY <2>2 DEF Together, ApartFrom
    <3>4. /\ Place(e)' = IF Place(e) + 1 = C THEN 0 ELSE Place(e) + 1
          /\ Place(p)' = IF Place(p) + 1 = C THEN 0 ELSE Place(p) + 1
      BY <1>5, <2>1, <3>1
    <3> DEFINE x == Place(e)
               y == Place(p)
               w == mac[e].my_window_length
               v == mac[p].my_window_length
    <3>5. Apart(IF x + 1 = C THEN 0 ELSE x + 1, IF y + 1 = C THEN 0 ELSE y + 1, w, v, C)
      <4> HIDE DEF x, y, w, v, C
      <4> QED BY <3>2, <3>3, ApartTicks DEF x, y, w, v
    <3>6. Apart(Place(e)', Place(p)', w, v, C)
      BY <3>4, <3>5
    <3> QED BY <2>2, <3>6 DEF ApartFrom
  <2> QED BY <2>3, <2>4, <2>5 DEF Together
<1> QED BY <1>0, <1>4, <1>6, <1>7 DEF StepInv

\* The peer of an end whose MAC changes keeps its place.
LEMMA PeerStays ==
  ASSUME Inv, NEW e \in End, NEW o, mac' = [mac EXCEPT ![e] = o], now' = now
  PROVE  /\ mac'[e] = o /\ mac'[Peer(e)] = mac[Peer(e)] /\ Place(Peer(e))' = Place(Peer(e))
         /\ Clock(Peer(e))' = Clock(Peer(e)) /\ Clock(e)' = Clock(e)
         /\ Place(e)' = wrap_tdd_cycle(o, Clock(e))
<1>1. mac'[e] = o /\ mac'[Peer(e)] = mac[Peer(e)]
  BY Peers DEF Inv
<1> QED BY <1>1 DEF Place, Clock

\* The bookkeeping of sky_tx: while the ends keep knowing each other's lengths, it
\* leaves the window where it is, since a window that is started anew is at its
\* beginning.
LEMMA TrackedStays ==
  ASSUME StepInv, NEW e \in End, NEW content \in BOOLEAN, e \in due, air[e] = Silence,
         mac' = [mac EXCEPT ![e] = Tracked(e, content)], LengthsKnown(mac), LengthsKnown(mac')
  PROVE  /\ Tracked(e, content).my_window_length = mac[e].my_window_length
         /\ Tracked(e, content).peer_window_length = mac[e].peer_window_length
         /\ wrap_tdd_cycle(Tracked(e, content), Clock(e)) = Place(e)
         /\ get_mac_cycle(Tracked(e, content)) = get_mac_cycle(mac[e])
<1> DEFINE m == mac[e]
           o == Tracked(e, content)
           c == Clock(e)
           can == CanSend(e)
<1>0. Inv /\ m \in SkyMAC /\ c \in Ticks /\ Steady(m) /\ Place(e) \in Nat
      /\ Place(e) = wrap_tdd_cycle(m, c)
  BY EndNumbers DEF StepInv, Place
<1>1. Peer(e) \in End /\ Peer(Peer(e)) = e /\ mac'[e] = o /\ mac'[Peer(e)] = mac[Peer(e)]
  BY <1>0, Peers, PeerOfPeer DEF Inv
<1>2. o.my_window_length = m.my_window_length /\ o.peer_window_length = m.peer_window_length
  <2>1. mac'[e].peer_window_length = mac'[Peer(e)].my_window_length
        /\ mac'[Peer(e)].peer_window_length = mac'[e].my_window_length
    BY <1>1 DEF LengthsKnown
  <2>2. mac[e].peer_window_length = mac[Peer(e)].my_window_length
        /\ mac[Peer(e)].peer_window_length = mac[e].my_window_length
    BY <1>1 DEF LengthsKnown
  <2> QED BY <1>1, <2>1, <2>2
<1>3. o \in SkyMAC /\ (~can => SameTimes(m, o))
      /\ (SameTimes(m, o) \/ wrap_time_ticks(c - o.T0) = get_mac_cycle(o))
      /\ (Settled(m) => SameTimes(m, o))
  <2>1. can \in BOOLEAN /\ o = _sky_tx_track_tdd_state(m, can, content, c)
    BY DEF CanSend, mac_can_send, Tracked
  <2> HIDE DEF can, o, c, m
  <2> QED BY <1>0, <2>1, TrackedIs, SettledStays
<1>4. can <=> Place(e) < m.my_window_length
  BY <1>0, CanSendIs DEF CanSend
<1>5. get_mac_cycle(o) = get_mac_cycle(m)
  BY <1>2 DEF get_mac_cycle
<1>6. wrap_tdd_cycle(o, c) = Place(e)
  <2>1. CASE SameTimes(m, o)
    BY <1>0, <1>3, <2>1, SamePlace
  <2>2. CASE ~SameTimes(m, o)
    <3>1. ~Settled(m) /\ Place(e) < m.my_window_length
      BY <1>3, <1>4, <2>2
    <3>2. ~(Place(e) > 0)
      BY <3>1 DEF StepInv, Asked
    <3>3. Place(e) = 0
      BY <1>0, <3>2
    <3>4. wrap_tdd_cycle(o, c) = 0
      BY <1>0, <1>3, <2>2, JustOpened
    <3> QED BY <3>3, <3>4
  <2> QED BY <2>1, <2>2
<1> QED BY <1>2, <1>5, <1>6

\* A step of sky_tx keeps ends together, given that frames stay right.
LEMMA TxTogether ==
  ASSUME StepInv, Inv', NEW e \in End, NEW content \in BOOLEAN, e \in due, air[e] = Silence,
         mac' = [mac EXCEPT ![e] = Tracked(e, content)], now' = now,
         Together, LengthsKnown(mac'), \A x \in End : Holds(air[x], mac[x], Clock(x))'
  PROVE  Together'
<1> DEFINE o == Tracked(e, content)
           p == Peer(e)
<1>1. /\ o.my_window_length = mac[e].my_window_length
      /\ wrap_tdd_cycle(o, Clock(e)) = Place(e)
      /\ get_mac_cycle(o) = get_mac_cycle(mac[e])
  BY TrackedStays DEF Together
<1>2. /\ mac'[e] = o /\ mac'[p] = mac[p] /\ Place(p)' = Place(p)
      /\ Place(e)' = wrap_tdd_cycle(o, Clock(e))
  BY PeerStays DEF StepInv
<1>3. ApartFrom(e)'
  BY <1>1, <1>2 DEF Together, ApartFrom
<1>4. LengthsKnown(mac)'
  BY DEF LengthsKnown
<1>5. ApartFrom(p)'
  <2>1. p \in End /\ Peer(p) = e
    BY Peers, PeerOfPeer
  <2>2. ApartFrom(p)
    BY <2>1 DEF Together
  <2> QED BY <1>1, <1>2, <2>1, <2>2 DEF ApartFrom
<1>6. (\A x \in End : Holds(air[x], mac[x], Clock(x)) /\ ApartFrom(x))'
  BY <1>3, <1>5, Peers
<1> QED BY <1>4, <1>6 DEF Together

\* sky_tx without a frame.
LEMMA TxNothingSteps ==
  ASSUME StepInv, NEW e \in End, NEW content \in BOOLEAN, TxNothing(e, content)
  PROVE  StepInv'
<1> DEFINE o == Tracked(e, content)
           p == Peer(e)
<1>0. Inv /\ Inv'
  BY TxNothingKeeps DEF StepInv
<1>1. /\ mac' = [mac EXCEPT ![e] = o] /\ now' = now /\ air' = air /\ due' = due \ {e}
      /\ e \in due /\ air[e] = Silence /\ in_step' = (in_step /\ LengthsKnown(mac'))
  BY DEF TxNothing
<1>2. p \in End /\ p # e /\ Peer(p) = e /\ \A x \in End : x = e \/ x = p
  BY Peers, PeerOfPeer
<1>3. /\ mac'[e] = o /\ mac'[p] = mac[p] /\ Clock(p)' = Clock(p)
      /\ Place(e)' = wrap_tdd_cycle(o, Clock(e))
  BY <1>0, <1>1, PeerStays
<1>4. Asked(p)' /\ Sent(p)'
  <2>1. Asked(p) /\ Sent(p)
    BY <1>2 DEF StepInv
  <2> QED BY <1>1, <1>2, <1>3, <2>1, Untouched
<1>5. Sent(e)'
  BY <1>1 DEF Sent
<1>6. Asked(e)'
  <2> DEFINE m == mac[e]
             c == Clock(e)
             can == CanSend(e)
  <2>1. m \in SkyMAC /\ c \in Ticks /\ Steady(m)
    BY <1>0, EndNumbers
  <2>2. can <=> wrap_tdd_cycle(m, c) < m.my_window_length
    BY <2>1, CanSendIs DEF CanSend
  <2>3. can \in BOOLEAN /\ o = _sky_tx_track_tdd_state(m, can, content, c)
    BY DEF CanSend, mac_can_send, Tracked
  <2>4. CASE can
    <3>1. Settled(o)
      <4>1. can = TRUE
        BY <2>3, <2>4
      <4> HIDE DEF m, c, can, o
      <4> QED BY <2>1, <2>3, <4>1, SentSettled
    <3> QED BY <1>3, <3>1 DEF Asked
  <2>5. CASE ~can
    <3>1. o \in SkyMAC /\ SameTimes(m, o)
      <4> HIDE DEF m, c, can, o
      <4> QED BY <2>1, <2>3, <2>5, TrackedIs
    <3>2. ~(wrap_tdd_cycle(o, c) < o.my_window_length)
      <4>1. wrap_tdd_cycle(o, c) = wrap_tdd_cycle(m, c)
        BY <2>1, <3>1, SamePlace
      <4> QED BY <2>2, <2>5, <3>1, <4>1 DEF SameTimes
    <3> QED BY <1>3, <3>2 DEF Asked
  <2> QED BY <2>4, <2>5
<1>7. ASSUME in_step' PROVE Together'
  <2>1. Together /\ LengthsKnown(mac')
    BY <1>1, <1>7 DEF StepInv
  <2>2. ASSUME NEW x \in End PROVE Holds(air[x], mac[x], Clock(x))'
    <3>1. CASE x = e
      BY <1>1, <3>1 DEF Holds
    <3>2. CASE x = p
      BY <1>1, <1>2, <1>3, <2>1, <3>2 DEF Holds, Together
    <3> QED BY <1>2, <3>1, <3>2
  <2> QED BY <1>0, <1>1, <2>1, <2>2, TxTogether
<1> QED BY <1>0, <1>2, <1>4, <1>5, <1>6, <1>7 DEF StepInv

\* sky_tx with a frame.
LEMMA TxFrameSteps ==
  ASSUME StepInv, NEW e \in End, TxFrame(e)
  PROVE  StepInv'
<1> DEFINE o == Tracked(e, TRUE)
           p == Peer(e)
           c == Clock(e)
           alone == air[p] = Silence
           fields == mac_set_frame_fields(o, c)
           frame == [fields |-> fields, T0 |-> o.T0, age |-> 0, clear |-> alone]
<1>0. Inv /\ Inv'
  BY TxFrameKeeps DEF StepInv
<1>1. /\ mac' = [mac EXCEPT ![e] = o] /\ now' = now /\ due' = due \ {e} /\ CanSend(e)
      /\ e \in due /\ air[e] = Silence /\ in_step' = (in_step /\ LengthsKnown(mac'))
      /\ air' = IF alone THEN [air EXCEPT ![e] = frame]
                ELSE [air EXCEPT ![e] = frame, ![p].clear = FALSE]
  BY DEF TxFrame
<1>2. p \in End /\ p # e /\ Peer(p) = e /\ (\A x \in End : x = e \/ x = p) /\ air \in [End -> OnAir]
  BY <1>0, Peers, PeerOfPeer DEF Inv
<1>3. /\ mac'[e] = o /\ mac'[p] = mac[p] /\ Clock(p)' = Clock(p) /\ Clock(e)' = c
      /\ Place(p)' = Place(p) /\ Place(e)' = wrap_tdd_cycle(o, c)
  BY <1>0, <1>1, PeerStays
<1>4. mac[e] \in SkyMAC /\ c \in Ticks /\ Steady(mac[e])
  BY <1>0, EndNumbers
<1>5. o = _sky_tx_track_tdd_state(mac[e], TRUE, TRUE, c)
  <2>1. CanSend(e) = TRUE
    BY <1>1 DEF CanSend, mac_can_send
  <2> QED BY <2>1 DEF Tracked
<1>6. o \in SkyMAC /\ Settled(o)
      /\ (SameTimes(mac[e], o) \/ wrap_time_ticks(c - o.T0) = get_mac_cycle(o))
  <2> HIDE DEF o, c
  <2> QED BY <1>4, <1>5, TrackedIs, SentSettled
<1> DEFINE w == o.my_window_length
           x == wrap_tdd_cycle(o, c)
<1>7. x \in Nat /\ w \in Nat \ {0} /\ x < w
  <2>1. x \in Nat /\ w \in Nat \ {0}
    <3> HIDE DEF o, c
    <3>1. w \in Nat \ {0}
      BY <1>6, Fields, WindowNumber
    <3>2. x \in 0 .. get_mac_cycle(o) - 1 /\ get_mac_cycle(o) \in Nat \ {0}
      BY <1>4, <1>6, InCycle, Cycle
    <3> HIDE DEF x, w
    <3> QED BY <3>1, <3>2
  <2>2. CASE SameTimes(mac[e], o)
    <3>1. x = wrap_tdd_cycle(mac[e], c)
      BY <1>4, <1>6, <2>2, SamePlace
    <3>2. wrap_tdd_cycle(mac[e], c) < mac[e].my_window_length
      BY <1>1, <1>4, CanSendIs DEF CanSend
    <3> QED BY <2>1, <2>2, <3>1, <3>2 DEF SameTimes
  <2>3. CASE wrap_time_ticks(c - o.T0) = get_mac_cycle(o)
    <3>1. x = 0
      <4> HIDE DEF o, c
      <4> QED BY <1>4, <1>6, <2>3, JustOpened
    <3> HIDE DEF x, w
    <3> QED BY <2>1, <3>1
  <2> QED BY <1>6, <2>2, <2>3
<1>8. fields = [window |-> w, remaining |-> w - x]
  <2>1. fields = [window |-> w, remaining |-> Max({1, w - x})]
    BY DEF mac_set_frame_fields, mac_own_window_remaining
  <2> HIDE DEF w, x
  <2>2. Max({1, w - x}) = w - x
    BY <1>7, MaxOfTwo
  <2> QED BY <2>1, <2>2
<1>9. frame \in Frame
  <2>1. fields \in [window : Windows, remaining : 1 .. MaximumWindow] /\ o.T0 \in Ticks
    BY <1>4, <1>6, AnnouncedIs, Fields
  <2>2. 0 \in 0 .. MaxAge /\ alone \in BOOLEAN
    BY TddLinkAssumption
  <2> HIDE DEF fields, o
  <2> QED BY <2>1, <2>2 DEF Frame
<1> HIDE DEF fields
<1>10. frame.T0 = o.T0 /\ frame.age = 0 /\ frame.fields = fields /\ frame.clear = alone
  OBVIOUS
<1> HIDE DEF frame
<1>11. /\ air'[e] = frame /\ (alone => air'[p] = Silence)
       /\ ~alone => /\ air'[p] \in Frame /\ air[p] \in Frame /\ air'[p].clear = FALSE
                    /\ air'[p].T0 = air[p].T0 /\ air'[p].fields = air[p].fields
                    /\ air'[p].age = air[p].age
  <2>1. CASE alone
    BY <1>1, <1>2, <2>1
  <2>2. CASE ~alone
    <3>1. air[p] \in Frame
      BY <1>2, <2>2 DEF OnAir
    <3>2. air' = [air EXCEPT ![e] = frame, ![p] = [air[p] EXCEPT !.clear = FALSE]]
      BY <1>1, <1>2, <2>2
    <3>3. air'[p] = [air[p] EXCEPT !.clear = FALSE] /\ air'[e] = frame
      BY <1>2, <3>2
    <3> QED BY <2>2, <3>1, <3>3 DEF Frame
  <2> QED BY <2>1, <2>2
<1>12. Sent(e)'
  <2>1. Tells(frame, o, c)
    <3>1. AsSent(frame, o) \in SkyMAC /\ SameTimes(AsSent(frame, o), o)
      <4>1. frame.fields.window = o.my_window_length
        BY <1>8, <1>10
      <4> HIDE DEF o
      <4>2. /\ AsSent(frame, o) \in SkyMAC /\ AsSent(frame, o).T0 = frame.T0
            /\ AsSent(frame, o).my_window_length = frame.fields.window
            /\ AsSent(frame, o).peer_window_length = o.peer_window_length
        BY <1>6, <1>9, AsSentIs
      <4> QED BY <1>10, <4>1, <4>2 DEF SameTimes
    <3>2. wrap_tdd_cycle(AsSent(frame, o), c) = x
      BY <1>4, <1>6, <3>1, SamePlace
    <3>3. frame.fields.window - frame.fields.remaining + frame.age = x
      <4> HIDE DEF w, x
      <4> QED BY <1>7, <1>8, <1>10
    <3> QED BY <3>2, <3>3 DEF Tells
  <2>2. air'[p] = Silence \/ ~air'[e].clear
    BY <1>10, <1>11
  <2> QED BY <1>3, <1>6, <1>11, <2>1, <2>2 DEF Sent
<1>13. Asked(e)'
  BY <1>3, <1>6 DEF Asked
<1>14. Sent(p)'
  <2>1. CASE alone
    BY <1>11, <2>1 DEF Sent
  <2>2. CASE ~alone
    <3>1. Settled(mac[p]) /\ Tells(air[p], mac[p], Clock(p))
      BY <1>2, <2>2 DEF StepInv, Sent
    <3>2. mac[p] \in SkyMAC /\ Clock(p) \in Ticks
      BY <1>0, <1>2, EndNumbers
    <3>3. Tells(air'[p], mac[p], Clock(p))
      BY <1>11, <2>2, <3>1, <3>2, TellsSame
    <3> QED BY <1>3, <1>11, <2>2, <3>1, <3>3 DEF Sent
  <2> QED BY <2>1, <2>2
<1>15. Asked(p)'
  <2>1. Asked(p) /\ (air'[p] # Silence => air[p] # Silence) /\ (p \in due' <=> p \in due)
    BY <1>1, <1>2, <1>11 DEF StepInv
  <2> QED BY <1>3, <2>1 DEF Asked
<1>16. ASSUME in_step' PROVE Together'
  <2>1. Together /\ LengthsKnown(mac')
    BY <1>1, <1>16 DEF StepInv
  <2>2. ASSUME NEW z \in End PROVE Holds(air[z], mac[z], Clock(z))'
    <3>1. CASE z = e
      <4>1. wrap_time_ticks(c - o.T0) >= 0
        <5> HIDE DEF o, c
        <5>1. wrap_time_ticks(c - o.T0) \in Ticks
          BY <1>4, <1>6, InCycle
        <5> QED BY <5>1 DEF Ticks
      <4>2. frame.T0 = o.T0 /\ frame.fields.window = o.my_window_length /\ frame.age = 0
        BY <1>8, <1>10
      <4>3. Holds(frame, o, c)
        BY <4>1, <4>2 DEF Holds
      <4> QED BY <1>3, <1>11, <3>1, <4>3
    <3>2. CASE z = p
      <4>1. Holds(air[p], mac[p], Clock(p))
        BY <1>2, <2>1 DEF Together
      <4>2. Holds(air'[p], mac[p], Clock(p))
        BY <1>11, <4>1 DEF Holds
      <4> QED BY <1>3, <3>2, <4>2
    <3> QED BY <1>2, <3>1, <3>2
  <2> QED BY <1>0, <1>1, <2>1, <2>2, TxTogether
<1> QED BY <1>0, <1>2, <1>12, <1>13, <1>14, <1>15, <1>16 DEF StepInv

\* Being apart is mutual, as the cycles of ends that know each other's lengths are
\* the same.
LEMMA ApartMirrored ==
  ASSUME NEW a \in SkyMAC, NEW b \in SkyMAC, a.peer_window_length = b.my_window_length,
         b.peer_window_length = a.my_window_length, NEW x \in Nat, NEW y \in Nat,
         Apart(x, y, a.my_window_length, b.my_window_length, get_mac_cycle(a))
  PROVE  Apart(y, x, b.my_window_length, a.my_window_length, get_mac_cycle(b))
<1> DEFINE w == a.my_window_length
           v == b.my_window_length
           C == get_mac_cycle(a)
<1>1. w \in Nat \ {0} /\ v \in Nat \ {0}
  BY Fields, WindowNumber
<1>2. C \in Nat \ {0} /\ C = w + Gap + v + Tail
  BY Cycle
<1>3. get_mac_cycle(b) = v + Gap + w + Tail
  BY Cycle
<1>4. get_mac_cycle(b) = C
  <2> HIDE DEF w, v, C
  <2> QED BY <1>1, <1>2, <1>3, Numbers
<1>5. Apart(y, x, v, w, C)
  <2>1. Apart(x, y, w, v, C)
    OBVIOUS
  <2> HIDE DEF w, v, C
  <2> QED BY <1>1, <1>2, <2>1, ApartAlone
<1> QED BY <1>4, <1>5

\* Ends are together after a step without a tick when one is apart from the other.
LEMMA TogetherAgain ==
  ASSUME Inv, Inv', NEW e \in End, now' = now, LengthsKnown(mac'), ApartFrom(e)',
         \A x \in End : Holds(air[x], mac[x], Clock(x))'
  PROVE  Together'
<1> DEFINE p == Peer(e)
<1>1. p \in End /\ Peer(p) = e /\ \A x \in End : x = e \/ x = p
  BY Peers, PeerOfPeer
<1>2. ASSUME NEW x \in End PROVE mac'[x] \in SkyMAC /\ Place(x)' \in Nat
  <2>1. mac'[x] \in SkyMAC
    BY DEF Inv
  <2>2. Clock(x) \in Ticks /\ Place(x)' = wrap_tdd_cycle(mac'[x], Clock(x))
    BY EndNumbers DEF Place, Clock
  <2>3. Place(x)' \in 0 .. get_mac_cycle(mac'[x]) - 1 /\ get_mac_cycle(mac'[x]) \in Nat \ {0}
    BY <2>1, <2>2, InCycle, Cycle
  <2> QED BY <2>1, <2>3
<1>3. mac'[e].peer_window_length = mac'[p].my_window_length
      /\ mac'[p].peer_window_length = mac'[e].my_window_length
  BY <1>1 DEF LengthsKnown
<1>4. Apart(Place(e)', Place(p)', mac'[e].my_window_length, mac'[p].my_window_length,
            get_mac_cycle(mac'[e]))
  BY DEF ApartFrom
<1>5. Apart(Place(p)', Place(e)', mac'[p].my_window_length, mac'[e].my_window_length,
            get_mac_cycle(mac'[p]))
  BY <1>1, <1>2, <1>3, <1>4, ApartMirrored
<1>6. ApartFrom(p)'
  BY <1>1, <1>5 DEF ApartFrom
<1>7. (\A x \in End : Holds(air[x], mac[x], Clock(x)) /\ ApartFrom(x))'
  BY <1>1, <1>6
<1>8. LengthsKnown(mac)'
  BY DEF LengthsKnown
<1> QED BY <1>7, <1>8 DEF Together

\* The mac_reset command.
LEMMA ResetSteps ==
  ASSUME StepInv, NEW e \in End, Reset(e)
  PROVE  StepInv'
<1> DEFINE o == mac_reset(mac[e], Clock(e))
           p == Peer(e)
<1>0. Inv /\ Inv'
  BY ResetKeeps DEF StepInv
<1>1. mac' = [mac EXCEPT ![e] = o] /\ now' = now /\ air' = air /\ due' = due /\ in_step' = FALSE
  BY DEF Reset
<1>2. p \in End /\ \A x \in End : x = e \/ x = p
  BY Peers
<1>3. mac'[e] = o /\ mac'[p] = mac[p] /\ Clock(e)' = Clock(e)
  BY <1>0, <1>1, PeerStays
<1>4. mac[e] \in SkyMAC /\ Clock(e) \in Ticks
  BY <1>0, EndNumbers
<1>5. o \in SkyMAC /\ Settled(o) /\ o.peer_window_length = mac[e].peer_window_length
  <2>1. o \in SkyMAC /\ o.window_adjust_counter = 0 /\ o.peer_window_length = mac[e].peer_window_length
    BY <1>4, ResetIs
  <2> HIDE DEF o
  <2> QED BY <2>1, Numbers DEF Settled
<1> HIDE DEF o
<1>6. Asked(p)' /\ Sent(p)'
  <2>1. Asked(p) /\ Sent(p)
    BY <1>2 DEF StepInv
  <2> QED BY <1>1, <1>2, <1>3, <2>1, Untouched
<1>7. Asked(e)'
  BY <1>3, <1>5 DEF Asked
<1>8. Sent(e)'
  <2> SUFFICES ASSUME air[e] # Silence
               PROVE  (air[p] = Silence \/ ~air[e].clear) /\ Tells(air[e], o, Clock(e))
    BY <1>1, <1>3, <1>5 DEF Sent
  <2>1. (air[p] = Silence \/ ~air[e].clear) /\ Tells(air[e], mac[e], Clock(e))
    BY DEF StepInv, Sent
  <2>2. air[e] \in Frame
    BY <1>0, OnAirIs DEF Inv
  <2> QED BY <1>4, <1>5, <2>1, <2>2, TellsSame
<1> QED BY <1>0, <1>1, <1>2, <1>6, <1>7, <1>8 DEF StepInv

\* A received frame: it puts the receiver past its window, and, when it is still
\* right, apart from the sender.
LEMMA ReceiveSteps ==
  ASSUME Ample, StepInv, NEW e \in End, Receive(e)
  PROVE  StepInv'
<1> DEFINE m == mac[e]
           p == Peer(e)
           c == Clock(e)
           f == air[p]
           v == f.fields.window
           rest == f.fields.remaining
           late == f.age - Delay
           o == mac_update_belief(m, c, wrap_time_ticks(c - late), v, rest)
<1>0. Inv /\ Inv'
  BY ReceiveKeeps DEF StepInv
<1>1. /\ mac' = [mac EXCEPT ![e] = o] /\ now' = now /\ air' = [air EXCEPT ![p] = Silence]
      /\ due' = due /\ f # Silence /\ late >= 0 /\ f.clear
      /\ in_step' = /\ LengthsKnown(mac') /\ f.T0 = mac[p].T0
                    /\ wrap_time_ticks(Clock(p) - f.T0) >= f.age
  BY DEF Receive
<1>2. p \in End /\ p # e /\ Peer(p) = e /\ \A x \in End : x = e \/ x = p
  BY Peers, PeerOfPeer
<1>3. /\ mac'[e] = o /\ mac'[p] = mac[p] /\ Place(p)' = Place(p) /\ Place(e)' = wrap_tdd_cycle(o, c)
  <2> HIDE DEF o
  <2> QED BY <1>0, <1>1, PeerStays
<1>4. m \in SkyMAC /\ c \in Ticks
  BY <1>0, EndNumbers
<1>5. air'[p] = Silence /\ air'[e] = Silence
  <2>1. air[e] = Silence
    <3>1. Sent(p)
      BY <1>2 DEF StepInv
    <3> QED BY <1>1, <1>2, <3>1 DEF Sent
  <2> QED BY <1>0, <1>1, <1>2, <2>1 DEF Inv
<1>6. Sent(e)' /\ Sent(p)'
  BY <1>5 DEF Sent
<1>7. v \in Windows /\ v \in Nat \ {0} /\ rest \in 1 .. v /\ f.age \in 0 .. MaxAge
  <2>1. f \in OnAir
    BY <1>0, <1>2 DEF Inv
  <2>2. v \in Windows /\ rest \in 1 .. v /\ f.age \in 0 .. MaxAge
    BY <1>1, <2>1, OnAirIs
  <2> HIDE DEF v
  <2> QED BY <2>2, WindowNumber
<1>8. late \in Nat /\ late + Delay = f.age /\ f.age =< Gap + 1 /\ Delay \in Nat /\ Delay =< Gap
      /\ late < MOD_TIME_TICKS
  <2> DEFINE a == f.age
  <2>1. a \in 0 .. MaxAge /\ a - Delay >= 0
    BY <1>1, <1>7
  <2> HIDE DEF a
  <2> QED BY <2>1, TddLinkAssumption, Numbers DEF Ample, a
<1> DEFINE w == m.my_window_length
           C == get_mac_cycle(o)
           d == wrap_time_ticks(c - o.T0)
<1>9. /\ o \in SkyMAC /\ o.peer_window_length = v /\ o.my_window_length = w
      /\ d \in Nat /\ d =< C - Tail /\ d >= w + Gap
      /\ d = IF late < rest THEN C - (rest + Tail - late) ELSE C - Tail
  <2> HIDE DEF m, c, v, rest, late
  <2> QED BY <1>4, <1>7, <1>8, BeliefIs DEF w
<1> HIDE DEF o
<1>10. w \in Nat \ {0} /\ C \in Nat \ {0} /\ C = w + Gap + v + Tail
  BY <1>4, <1>9, Fields, WindowNumber, Cycle
<1>11. Place(e)' = d /\ d >= w
  <2>1. d < C /\ d >= w
    <3> HIDE DEF d, C, w
    <3> QED BY <1>9, <1>10, Numbers DEF Ample
  <2>2. wrap_tdd_cycle(o, c) = d
    BY <1>4, <1>9, <2>1, InCycle
  <2> QED BY <1>3, <2>1, <2>2
<1>12. Asked(e)'
  <2>1. ~(Place(e)' < mac'[e].my_window_length)
    <3>1. Place(e)' = d /\ mac'[e].my_window_length = w
      BY <1>3, <1>9, <1>11
    <3> HIDE DEF d, w
    <3> QED BY <1>9, <1>10, <1>11, <3>1
  <2> QED BY <2>1 DEF Asked
<1>13. Asked(p)'
  <2>1. Asked(p)
    BY <1>2 DEF StepInv
  <2> QED BY <1>1, <1>3, <1>5, <2>1 DEF Asked
<1>14. ASSUME in_step' PROVE Together'
  <2>1. LengthsKnown(mac') /\ f.T0 = mac[p].T0 /\ wrap_time_ticks(Clock(p) - f.T0) >= f.age
    BY <1>1, <1>14
  <2>2. v = mac[p].my_window_length
    BY <1>3, <1>9, <2>1 DEF LengthsKnown
  <2>3. Place(p) = v - rest + f.age
    <3>1. Sent(p)
      BY <1>2 DEF StepInv
    <3>2. air[p].fields.window = mac[p].my_window_length /\ air[p].T0 = mac[p].T0
          /\ wrap_time_ticks(Clock(p) - mac[p].T0) >= air[p].age /\ air[p] # Silence
      BY <1>1, <2>1, <2>2
    <3>3. Place(p) = mac[p].my_window_length - air[p].fields.remaining + air[p].age
      BY <1>0, <1>2, <3>1, <3>2, SenderAt
    <3> QED BY <2>2, <3>3
  <2>4. Apart(d, Place(p), w, v, C)
    <3>1. f.age = late + Delay
      <4> DEFINE a == f.age
      <4>1. a \in Nat
        BY <1>7, TddLinkAssumption
      <4> HIDE DEF a
      <4> QED BY <1>8, <4>1
    <3> HIDE DEF d, w, v, C, rest, late
    <3>2. Apart(IF late < rest THEN C - (rest + Tail - late) ELSE C - Tail,
                v - rest + (late + Delay), w, v, C)
      BY <1>7, <1>8, <1>10, <3>1, ApartReceived
    <3> QED BY <1>9, <2>3, <3>1, <3>2
  <2>5. ApartFrom(e)'
    BY <1>3, <1>9, <1>11, <2>2, <2>4 DEF ApartFrom
  <2>6. \A x \in End : Holds(air[x], mac[x], Clock(x))'
    BY <1>2, <1>5 DEF Holds
  <2> QED BY <1>0, <1>1, <2>1, <2>5, <2>6, TogetherAgain
<1> QED BY <1>0, <1>2, <1>6, <1>12, <1>13, <1>14 DEF StepInv

\* A carrier: the window that is put off is still clear of the sender's.
LEMMA CarrierSteps ==
  ASSUME Ample, StepInv, NEW e \in End, CarrierSensed(e)
  PROVE  StepInv'
<1> DEFINE m == mac[e]
           p == Peer(e)
           c == Clock(e)
           g == carrier_sense_ticks
           o == sky_mac_carrier_sensed(m, c)
           w == m.my_window_length
           C == get_mac_cycle(m)
<1>0. Inv /\ Inv'
  BY CarrierKeeps DEF StepInv
<1>1. /\ mac' = [mac EXCEPT ![e] = o] /\ now' = now /\ air' = air /\ due' = due
      /\ in_step' = in_step /\ air[p].age >= Delay /\ air[e] = Silence
  BY DEF CarrierSensed
<1>2. p \in End /\ p # e /\ Peer(p) = e /\ \A x \in End : x = e \/ x = p
  BY Peers, PeerOfPeer
<1>3. /\ mac'[e] = o /\ mac'[p] = mac[p] /\ Place(p)' = Place(p) /\ Place(e)' = wrap_tdd_cycle(o, c)
      /\ Clock(p)' = Clock(p) /\ Clock(e)' = c
  <2> HIDE DEF o
  <2> QED BY <1>0, <1>1, PeerStays
<1>4. /\ m \in SkyMAC /\ c \in Ticks /\ Place(e) \in 0 .. C - 1 /\ Place(e) \in Nat
      /\ C \in Nat \ {0} /\ w \in Nat \ {0} /\ m.peer_window_length \in Nat \ {0}
      /\ C = w + Gap + m.peer_window_length + Tail
  BY <1>0, EndNumbers
<1>5. g \in Nat /\ g =< m.peer_window_length + Gap
  <2>1. m.peer_window_length \in Nat /\ MinimumWindow =< m.peer_window_length
    BY <1>4, Fields, WindowNumber
  <2> QED BY <2>1, Fallback, Numbers
<1>6. /\ o \in SkyMAC /\ get_mac_cycle(o) = C /\ o.my_window_length = w
      /\ o.peer_window_length = m.peer_window_length
      /\ o.window_adjust_counter = m.window_adjust_counter
      /\ \/ o = m
         \/ /\ wrap_time_ticks(c - o.T0) = C - g
            /\ Place(e) < w \/ C - Place(e) =< g
  <2>1. Place(e) = wrap_tdd_cycle(m, c)
    BY DEF Place
  <2> HIDE DEF m, c
  <2> QED BY <1>4, <2>1, CarrierIs
<1> HIDE DEF o
<1>7. o # m => Place(e)' = IF g = 0 THEN 0 ELSE C - g
  <2> SUFFICES ASSUME o # m PROVE wrap_tdd_cycle(o, c) = IF g = 0 THEN 0 ELSE C - g
    BY <1>3
  <2> HIDE DEF m, c, g, C
  <2>1. CASE g = 0
    <3>1. wrap_time_ticks(c - o.T0) = get_mac_cycle(o)
      BY <1>4, <1>6, <2>1
    <3> QED BY <1>4, <1>6, <2>1, <3>1, JustOpened
  <2>2. CASE g # 0
    <3>1. C - g < C
      BY <1>4, <1>5, <2>2
    <3>2. wrap_time_ticks(c - o.T0) < get_mac_cycle(o)
      BY <1>6, <3>1
    <3> QED BY <1>4, <1>6, <2>2, <3>2, InCycle
  <2> QED BY <2>1, <2>2
<1>8. Asked(p)' /\ Sent(p)'
  <2>1. Asked(p) /\ Sent(p)
    BY <1>2 DEF StepInv
  <2> QED BY <1>1, <1>2, <1>3, <2>1, Untouched
<1>9. Sent(e)'
  BY <1>1 DEF Sent
<1>10. Asked(e)'
  <2>1. Asked(e) /\ Sent(e)
    BY DEF StepInv
  <2>2. CASE o = m
    BY <1>1, <1>2, <1>3, <2>1, <2>2, Untouched
  <2>3. CASE o # m
    <3> SUFFICES ASSUME Place(e)' < w, Place(e)' > 0 \/ e \notin due PROVE Settled(m)
      BY <1>1, <1>3, <1>6 DEF Asked, Settled
    <3>1. g = 0
      <4> SUFFICES ASSUME g # 0 PROVE FALSE
        OBVIOUS
      <4>1. C - g < w
        BY <1>7, <2>3
      <4> HIDE DEF C, g, w, m
      <4> QED BY <1>4, <1>5, <4>1, Numbers
    <3>2. e \notin due
      BY <1>7, <2>3, <3>1
    <3>3. Place(e) < w
      <4>1. Place(e) < w \/ C - Place(e) =< 0
        BY <1>6, <2>3, <3>1
      <4> HIDE DEF C, w
      <4> QED BY <1>4, <4>1
    <3> QED BY <2>1, <3>2, <3>3 DEF Asked
  <2> QED BY <2>2, <2>3
<1>11. ASSUME in_step' PROVE Together'
  <2> DEFINE f == air[p]
             v == mac[p].my_window_length
             r == f.fields.remaining
             a == f.age
  <2>1. Together
    BY <1>1, <1>11 DEF StepInv
  <2>2. f # Silence
    BY <1>1, SilenceIsNone, TddLinkAssumption
  <2>3. f.T0 = mac[p].T0 /\ f.fields.window = v /\ wrap_time_ticks(Clock(p) - mac[p].T0) >= a
    BY <1>2, <2>1, <2>2 DEF Together, Holds
  <2>4. v \in Nat \ {0} /\ r \in 1 .. v /\ a \in 0 .. MaxAge
    <3>1. f \in OnAir
      BY <1>0, <1>2 DEF Inv
    <3>2. r \in 1 .. f.fields.window /\ a \in 0 .. MaxAge
      BY <2>2, <3>1, OnAirIs
    <3>3. v \in Nat \ {0}
      BY <1>0, <1>2, EndNumbers
    <3> QED BY <2>3, <3>2, <3>3
  <2>5. Place(p) = v - r + a
    <3>1. Sent(p)
      BY <1>2 DEF StepInv
    <3> QED BY <1>0, <1>2, <2>2, <2>3, <3>1, SenderAt
  <2>6. m.peer_window_length = v /\ Apart(Place(e), Place(p), w, v, C)
    BY <2>1 DEF Together, LengthsKnown, ApartFrom
  <2>7. LengthsKnown(mac')
    <3>1. \A x \in End : /\ mac'[x].my_window_length = mac[x].my_window_length
                         /\ mac'[x].peer_window_length = mac[x].peer_window_length
      BY <1>2, <1>3, <1>6
    <3> QED BY <1>2, <2>1, <3>1 DEF Together, LengthsKnown
  <2>8. \A x \in End : Holds(air[x], mac[x], Clock(x))'
    BY <1>1, <1>2, <1>3, <2>1 DEF Together, Holds
  <2>9. Apart(Place(e)', Place(p), w, v, C)
    <3>1. CASE o = m
      BY <1>3, <2>6, <3>1 DEF Place
    <3>2. CASE o # m
      <4> DEFINE x == Place(e)
                 y == Place(p)
      <4>1. y \in Nat /\ y + g =< v + Gap + Tail
        <5> HIDE DEF y, v, r, a, g
        <5> QED BY <1>5, <2>4, <2>5, TddLinkAssumption, Numbers DEF Ample, y, g
      <4>2. x < w \/ C - x =< g
        BY <1>6, <3>2
      <4>3. C = w + Gap + v + Tail
        BY <1>4, <2>6
      <4>4. Apart(IF g = 0 THEN 0 ELSE C - g, y, w, v, C)
        <5>1. Apart(x, y, w, v, C) /\ x \in 0 .. C - 1
          BY <1>4, <2>6
        <5> HIDE DEF x, y, w, v, C, g
        <5> QED BY <1>4, <1>5, <2>4, <4>1, <4>2, <4>3, <5>1, ApartPutOff
      <4> QED BY <1>7, <3>2, <4>4
    <3> QED BY <3>1, <3>2
  <2>10. ApartFrom(e)'
    BY <1>3, <1>6, <2>9 DEF ApartFrom
  <2> QED BY <1>0, <1>1, <2>7, <2>8, <2>10, TogetherAgain
<1> QED BY <1>0, <1>2, <1>8, <1>9, <1>10, <1>11 DEF StepInv

\* A step in which nothing changes.
LEMMA StillSteps ==
  ASSUME StepInv, UNCHANGED vars
  PROVE  StepInv'
<1>1. /\ now' = now /\ mac' = mac /\ air' = air /\ due' = due /\ resets' = resets
      /\ quiet' = quiet /\ in_step' = in_step
  BY DEF vars
<1>2. Inv'
  BY InvKept DEF StepInv
<1>3. \A e \in End : Asked(e)' /\ Sent(e)'
  BY <1>1, Untouched DEF StepInv
<1>4. in_step' => Together'
  BY <1>1 DEF StepInv, Together, Holds, ApartFrom, Place, Clock
<1> QED BY <1>2, <1>3, <1>4 DEF StepInv

\* No step breaks the invariant of ends in step.
LEMMA StepInvKept ==
  ASSUME Ample
  PROVE  StepInv /\ [Next]_vars => StepInv'
<1> SUFFICES ASSUME StepInv, [Next]_vars PROVE StepInv'
  OBVIOUS
<1>1. CASE Tick
  BY <1>1, TickSteps
<1>2. ASSUME NEW e \in End, SkyTx(e) PROVE StepInv'
  BY <1>2, TxFrameSteps, TxNothingSteps DEF SkyTx
<1>3. ASSUME NEW e \in End, Receive(e) PROVE StepInv'
  BY <1>3, ReceiveSteps
<1>4. ASSUME NEW e \in End, CarrierSensed(e) PROVE StepInv'
  BY <1>4, CarrierSteps
<1>5. ASSUME NEW e \in End, Reset(e) PROVE StepInv'
  BY <1>5, ResetSteps
<1>6. CASE UNCHANGED vars
  BY <1>6, StillSteps
<1> QED BY <1>1, <1>2, <1>3, <1>4, <1>5, <1>6 DEF Next

\* Two ends in step do not transmit at once: one of two places that are apart is
\* past its window. This needs the room that Ample asks for; it holds for clocks
\* that wrap, whatever frames are lost or processed late and whatever carriers are
\* sensed (mac_update_belief, sky_mac_carrier_sensed, _sky_tx_track_tdd_state).
THEOREM NoOverlapCorrect ==
  ASSUME Ample
  PROVE  Spec => []NoOverlap
<1>1. StepInv => NoOverlap
  <2> SUFFICES ASSUME StepInv, in_step PROVE \E e \in End : ~CanSend(e)
    BY DEF NoOverlap
  <2>1. PICK e \in End : TRUE
    BY TddLinkAssumption
  <2> DEFINE p == Peer(e)
  <2>2. p \in End /\ Inv /\ ApartFrom(e)
    BY Peers DEF StepInv, Together
  <2>3. ASSUME NEW x \in End
        PROVE  /\ Place(x) \in Nat /\ mac[x].my_window_length \in Nat \ {0}
               /\ CanSend(x) <=> Place(x) < mac[x].my_window_length
    BY <2>2, EndNumbers, CanSendIs DEF CanSend, Place
  <2>4. Place(e) >= mac[e].my_window_length \/ Place(p) >= mac[p].my_window_length
    <3> DEFINE x == Place(e)
               y == Place(p)
               w == mac[e].my_window_length
               v == mac[p].my_window_length
               C == get_mac_cycle(mac[e])
    <3>1. x \in Nat /\ y \in Nat /\ w \in Nat \ {0} /\ v \in Nat \ {0} /\ C \in Nat
          /\ Apart(x, y, w, v, C)
      BY <2>2, <2>3, EndNumbers DEF ApartFrom
    <3> HIDE DEF x, y, w, v, C
    <3> QED BY <3>1, ApartAlone DEF x, y, w, v
  <2> QED BY <2>2, <2>3, <2>4
<1>2. StepInv /\ [Next]_vars => StepInv'
  BY StepInvKept
<1> QED BY <1>1, <1>2, StepInvAtFirst, PTL DEF Spec
===============================================================================
