# A TLA+ verification project for Skylink

Skylink is a link-layer protocol for the radio link between a satellite and its
ground station: virtual channels with optional retransmission (ARQ), time
division duplexing (TDD), authentication and forward error correction. This
directory holds TLA+ models of the C library (`src/src/`) and of the modem around
it (`src/skymodem/`), TLC configurations that check them on small instances, and
theorems about them that TLAPS checks for every value of the constants.

## 1. The system

| Component | Source | State | Operations |
|---|---|---|---|
| Element buffer | `element_buffer.c` | pool of linked elements, free counter, last write index | store, read, delete, wipe |
| Send ring | `sequence_ring.c` | ring of items, `head`, `tx_head`, `tail`, three sequence numbers, resend list | push, peek, read for transmission, schedule resends, acknowledge, wipe |
| Receive ring | `sequence_ring.c` | ring of items, `head`, `tail`, two sequence numbers | push received, read, horizon bitmap, sync status, wipe |
| Virtual channel | `reliable_vc.c` | both rings over one element buffer, ARQ state OFF / IN_INIT / ON, session identifier, pending-answer flags, three timestamps | push, read, connect, disconnect, timeout, fill a frame, process a frame |
| TDD MAC | `mac.c` | start of the cycle `T0`, window lengths, window adjustment counter, frame counters | may-I-send, belief update, carrier sensed, expand and shrink, reset |
| Authentication | `hmac.c` | send and receive sequence number per channel, pending-reset flag | extend a frame, check a frame, load and dump sequences |
| Transmit and receive paths | `skylink_tx.c`, `skylink_rx.c` | round-robin start | `sky_tx`: timeouts, pick a channel, TDD bookkeeping, fill, authenticate; `sky_rx`: filter, parse, authenticate, MAC update, process |
| Frames | `frame.c`, `frame.h` | length and position of each part of a frame | add and parse extension headers, room left for a payload |
| FEC, CRC, Golay | `fec.c`, `crc.c`, `ext/` | none | encode, decode, whiten |
| Diagnostics, utilities | `diag.c`, `utilities.c` | statistics, the tick | modulo, byte order, tick |
| Modem | `skymodem/` | per channel: two sockets, the ARQ state last announced, the session identifier it told | tick: announce, read, take a message (packet or command); frame to send; frame received; carrier sensed |

How they interact. The application pushes packets into a channel's send ring and
reads packets from its receive ring; both rings keep their payloads in the
channel's element buffer and refer to them by index. The modem calls `sky_tx`
when the radio may transmit: it checks timeouts, asks the MAC whether the window
is open, picks a channel that has something to send and lets it fill a frame
with an optional handshake, retransmission request, control extension
(acknowledgement and next number) and one packet. A received frame goes through
`sky_rx` to the channel, which handles the handshake first and then, if ARQ is
on, acknowledgement, packet and request. On the way out `sky_tx` numbers and signs
a frame per channel and puts Reed-Solomon parity and a Golay-coded length around
it; on the way in `sky_rx` undoes that and checks hash and number before the MAC
or the channel see the frame. Nothing in the library runs concurrently, and the
modem runs all its callbacks in one thread; what interleaves is the two ends of
the link, the radio between them, the applications and time.

What is hard. Ring indices wrap at the ring's length while sequence numbers wrap
at 256. Packets, acknowledgements and requests are lost, repeated and late, so
every number in a frame describes a state the peer may have left. Sessions begin
and end at the two ends at different times, while frames of the last session are
under way. Bounded lists and rings fill up in the middle of an operation. Ends
restart with current, outdated or no authentication numbers, and the modem sees
changes of the ARQ state only once per tick. Sizes of frames are computed in five
places from constants that each assume what the others leave. The list of hazards,
each at the line where it bites, is in `PROJECT.json`.

What makes each component correct:

* element buffer: a payload is read back as it was stored until it is deleted,
  chains never share an element, and there is room for all the payloads that the
  rings can hold but the last;
* send ring: indices and numbers stay in step, every packet is transmitted under
  the number announced for it, nothing is forgotten before it is acknowledged, what
  is requested is scheduled;
* receive ring: packets are delivered in order, none twice, none skipped, and the
  out-of-order window never runs over unread packets;
* channel: both ends agree on the session and on the window, an acknowledged
  packet has arrived, packets are read in order, and every packet is eventually read;
* TDD MAC: an end does not transmit in a window its peer has announced, two ends
  that know each other's windows do not transmit at the same time;
* authentication: no echo is taken, an end that has its place in the numbers of its
  peer takes no frame twice or after a later one, none is refused for its number
  while few are lost, and two ends that have lost their numbers find each other again;
* frames and coding: a payload of maximum length fits a frame with every extension
  (whether the frame can then be coded is another matter, section 4), what was built
  is what is parsed, and what is parsed from noise stays inside the frame;
* modem: no channel starves, packets of a socket keep their order, no message stays
  in a socket, and the application learns every lasting change of the ARQ state.

## 2. The modules

| Module | Models |
|---|---|
| `SequenceRing` | ring indices, sequence-number arithmetic, ring items |
| `SendRingOps`, `RcvRingOps` | the functions of `sequence_ring.c` as operators on a ring record, under their C names |
| `PayloadStore` | the element buffer as the rings see it: operators on a map from positions to payloads |
| `SendRing`, `RcvRing` | one ring with its payloads as a state machine, an action per operation |
| `SendQueue`, `RcvWindow` | what the rings promise: a queue of unacknowledged packets; in-order delivery from a window |
| `ElementBuffer` | `element_buffer.c`: links, data left behind by earlier payloads, the search for free elements |
| `PayloadBuffer` | what the element buffer promises (the state machine over `PayloadStore`) |
| `VirtualChannelOps` | the functions of `reliable_vc.c` as operators on a channel record |
| `ArqLink` | two channels, their applications and a radio that loses frames |
| `MacOps` | the functions of `mac.c` and the TDD bookkeeping of `sky_tx` as operators on a MAC record |
| `TddLink` | two ends that share a channel in turns: clocks, windows, a half-duplex radio |
| `HmacOps` | the functions of `hmac.c` as operators on an authentication record |
| `AuthLink` | two ends that number, check and refuse frames, echoes, strangers, restarts |
| `FrameOps` | the layout of a frame in bytes, with the real sizes |
| `Golay24` | `golay24.c` bit by bit |
| `RadioFrame` | one frame from `sky_tx_with_golay` to the end of the parser |
| `Modem` | `VCInterface::tick`, `sky_tx` and `sky_rx` as callbacks over several channels |
| `MCSendRing`, `MCRcvRing`, `MCElementBuffer`, `MCArqLink`, `MCTddLink`, `MCAuthLink`, `MCRadioFrame` | instances for TLC (`Modem` is its own) |
| `RingArithmetic` | lemmas on modulo arithmetic |
| `SendRingProofs`, `RcvRingProofs`, `ElementBufferProofs`, `ArqLinkProofs`, `AuthLinkProofs`, `ModemProofs`, `TddLinkProofs` | theorems on `SendRing`, `RcvRing`, `ElementBuffer`, `ArqLink`, `AuthLink`, `Modem` and `TddLink` |

A definition that begins with "Mutant:" in its comment is a deliberately wrong
variant of the definition after it; no specification uses it. Replacing the
definition by its mutant makes the property it is paired with in `PROJECT.json`
fail, which shows that the property depends on that piece of code.

### Rings

A ring is a record with the fields of the C structure. The C loops are written as
closed forms: `rcvRing_advance_head` moves the head by the least number of steps
at which its loop ends; `sendRing_clean_tail_up_to` clears the slots whose
distance from the tail is below the acknowledged distance;
`sendRing_schedule_resends_by_mask` appends the requested offsets in order, up to
the first number that cannot be recalled or until the list is full, where the loop
ends. What a schedule that ends in the middle means for the peer is the business of
`RequestsObeyed`, on the link. `resend_list` stands for the first `resend_count` entries of the array. A
function that fails before it changes anything is not an action.

`sendRing_pop_resend_sequence` decrements the count before the loop that shifts
the list, and the model does the same (section 4).

### Virtual channel and link

Ticks enter a channel's decisions only through three questions: has this channel
used up its idle frames of this window (`window_open`), has one of the timers
passed the idle threshold (`idle`), has the session timed out. The model answers
each of them nondeterministically, so it covers every timing; `Disconnect`
stands for both `sky_vc_arq_disconnect` and a timeout. `unconfirmed_payloads` is
used only as "greater than 0" and is a Boolean here. Ring items of a channel
refer to their payloads directly: `SendRing`, `RcvRing` and `ElementBuffer` show
that the indirection through the element buffer is sound.
`StoreHasRoom` counts elements as the code does: a payload takes `Elements` of them,
and the buffer has room for `RcvLen + SendLen - 2` payloads of `MaxElements`, one fewer
than the rings can hold. A packet in `Empty` has no bytes: it is pushed, numbered and
transmitted, but the receiver takes a frame with no payload bytes for one without a
payload (`Carried`), and with ARQ off `sky_vc_fill_frame` finds nothing to copy and
leaves it at the front (`ReadsUnnumbered`).

A frame holds the fields the channel writes and reads. `sky_tx` may also send a
frame for a channel without content (to keep the peer's TDD in step); it carries
nothing a channel looks at and is left out. The branch of `sky_vc_fill_frame` for
a packet that does not fit cannot be reached: 1 + 7 bytes of identity, 7 of
header, 23 of extensions (TDD 5, HMAC reset 3, handshake 6, request 4, control 3,
sequence 2), at most 181 of payload and 4 of HMAC are exactly the 223 of a frame.
`RadioFrame` models the branch and `SkyTxFits` shows that it is never taken.

The session identifier is the tick at which the application connects. `ConnectTicks`
are the times at which it may, in ticks that do not wrap; `Tick` is what the program
reads, modulo `TickCount`. The identifier is written with `sky_hton32` and read without a
conversion, so `Wire` reverses its bytes; an identifier has two bytes of base
`ByteBase` here, which is enough for the order of two identifiers and of their
reversals to differ.

Payloads are numbered as they are pushed, so `lastRead`, `pushed` and `origin`
(the packets pushed before the last wipe) suffice to state that packets are
delivered in order, once and without a gap.

### Element buffer

The pool is memory: wiping an element resets its links and leaves its data, and
a payload is written over whatever is there. A byte is a pair of payload and
place, so reading a stale or foreign byte is visible. The search for free
elements starts at the last write index and goes round the pool.

### TDD MAC

`SkyMAC` has the fields of `sky_mac_s` that decide when an end transmits. `Tick`
advances time (`sky_tick`); the two clocks differ by `Offset`, so they wrap at
different moments. In every tick each modem that is not transmitting asks for a
frame (`SkyTx`): `sky_tx` asks `mac_can_send`, does its bookkeeping (closing
windows count for a longer or shorter one, an opening window may be adjusted and
then starts anew) and may make a frame with the length and the rest of the
window. Whether there is content, an idle frame is due or the channel fails to
fill the frame is left open, so `last_belief_update` and the frame counters are
not part of the record. `Receive` is the belief update of `sky_rx` with a receive
time up to `MaxAge - Delay` ticks back; an unauthenticated frame does not touch
the MAC and is as good as lost. `CarrierSensed` and `Reset` are the calls of the
modem. The radio is external: a frame is in the air from `TxFrame` until it is
received or has aged, two frames in the air spoil each other, and an end that
transmits senses nothing. The limits `sky_mac_create` puts on the configuration
are assumptions on the constants, except the one on `carrier_sense_ticks`, which
is modelled because a property depends on it. `mac_shift_windowing` and
`mac_peer_window_remaining` have no caller in the library or the modem.

`quiet` and `in_step` are history variables for the properties. After a silence
of one whole turn of the clock (2^24 ticks, 4.7 hours) the difference between the
clock and `T0` starts again from 0 and the cycle jumps; the properties are stated
up to that moment. That includes a jump of the sender while its frame is under way:
such a frame does not bring the ends in step.

### Authentication

`SkyHMAC` has the numbers of each channel in both directions and
`vc_enforcement_need`. The keyed hash (BLAKE3) is external: a frame is `genuine`
when its trailer was made with the key over the bytes that arrived. `Verdict` is
what `sky_hmac_check_authentication` returns, in the order of its checks, and
`sky_hmac_check_authentication` what it leaves behind. `SkyTx` numbers a frame and
adds the reset extension on the condition the code has; `Receive` takes any frame
that is on the air, in any order and any number of times, at either end (an end
hears itself); `Overhear` is a station without the key. A frame is on the air until
more than `Lifetime` later ones of its channel were sent, whether or not its sender has
restarted since.

`Store` dumps the numbers at any time, and `Restart` is `sky_create` followed by
`sky_hmac_load_sequences` with the numbers dumped last; an end that has dumped none
starts from zero, which is what the modem does today (section 4). The numbers may be
current or outdated, in each direction separately. Two history variables tell them
apart. `news` counts the frames of its peer that an end has missed since the newest it
took, and is `Astray` when one of the two has lost its place: the receiver has
restarted with an outdated receive number or the sender with an outdated send number.
A frame is `current` unless its sender has restarted with an outdated send number
since. An end that is astray is in its place again with the first current frame it
takes. In the run the ground station sends payloads and the satellite is silent: as
the code stands, signed frames without a payload are never accepted (section 4).

### Frames and coding

A frame is followed in bytes, with the constants of `frame.h`: building it
(`sky_tx`, `sky_vc_fill_frame`, the hash), coding it (parity, the coded length and
the loop that makes room for it, which leaves one byte in the wrong place),
the radio, decoding and parsing. Of the bytes it is kept which are wrong when the
frame is decoded; of an extension only its first byte, which the parser trusts.
The Reed-Solomon coder is external: it puts up to 16 wrong bytes right, and with
more it fails or goes unnoticed. A failed assertion ends the journey (`aborted` while
the frame is built, `uncodable` when there is no room for the parity or the coded
length), and so does a discarded payload. What the modem takes for a frame in noise has any
length and contents, also where the parser reads extension heads. The Golay coder
is translated bit by bit: a word is the set of its bits.

### Modem

A channel is kept to its ARQ state and its queues: packets not yet transmitted,
slots held by unacknowledged ones, received packets. `Tick` is
`VCInterface::tick`: for every channel in order, one call of `check`, which
announces a changed ARQ state, takes one received packet and handles one message,
a packet for the channel it names or a command for its own. `SkyTx` is
`frame_transmit`: timeouts first, then the round robin over the channels with
something to send, channel 0 when there is only an idle frame to make. When a
session times out, which channels have retransmissions or acknowledgements to
send, and what the peer sends is open. The identifiers of peers are those that this
end reads, after the reversal of their bytes; its own comes back reversed twice, so
comparing the two is what the code does. The ZeroMQ sockets are external: messages
wait until they are taken. Messages whose numbers or JSON types make the modem throw
end it (section 4) and are left out. `waited`, `newest` and `tick` are history variables.

## 3. The runs

| Run | Instance | Shows |
|---|---|---|
| `send_ring` | 4 slots, 5 numbers, resend list of 3, mask of 2 bits, 3 elements, 2 payloads | the ring's invariant, the announced number is the one read, the ring implements `SendQueue` |
| `rcv_ring` | 5 slots, horizon 2, 7 numbers, 5 elements, 3 payloads, one too long for the reader | the ring's invariant, also when choked, and that it implements `RcvWindow` |
| `element_buffer` | rings of 2 and 2 slots, hence 6 elements of 2 bytes; payloads of 1 and 4 bytes | chains partition the pool, payloads read back whole, there is room for all the payloads of the rings but the last, the buffer implements `PayloadBuffer` |
| `arq_transfer` | rings of 4, horizon 1, 5 numbers, 6 packets of one or two elements, the last of them empty, 2 sessions (at ticks that have wrapped), 1 frame under way each way | no packet acknowledged and lost, windows aligned, requests obeyed, in-order delivery |
| `arq_session` | both ends connect, hang up and time out, with identifiers 1 and 3 at one end and 3 and 5 at the other; no packets | under fairness nobody stays in the handshake for ever unless both ends refuse each other, and when one end connects both settle in one session |
| `tdd_link` | windows of 1 and 2 ticks, gap 1, tail 2, clock of 16 ticks, delay 1, frames up to 2 ticks old, 1 reset | an announced window is respected, ends in step never overlap, `T0` stays behind the clock |
| `auth_link` | 1 channel, 5 numbers, jump of 2, two frames on the air, 2 restarts with numbers stored at any time or never | no echo is taken, no current frame is taken twice or late by an end that has its place, none is refused while at most 2 are missed, a lock-out ends |
| `radio_frame` | all combinations of extensions, payloads of 1, 150, 156 and 181 bytes, identities of 3 and 7 | what `sky_tx` builds fits a frame, received as sent, parsed inside the frame, Golay against its reference |
| `modem` | 2 channels with one slot each way, 2 messages, 2 arrivals | round robin, order of packets, announcements, empty sockets |
| `arq_liveness` | one session, 2 packets | violated: a stale resend entry blocks the channel |
| `arq_rejoin` | one session, one end hangs up | violated: a late handshake response makes it join again with fresh rings |
| `radio_worst_case` | as `radio_frame` | violated: a frame of more than 194 bytes cannot be coded |

Bounds. `SendLen` 4 is the smallest ring `sky_send_ring_create` accepts, and with
5 sequence numbers indices and numbers wrap at different moduli and get out of
phase; the ring runs have no bound on the number of operations, so they cover
every number of wraps. A receive ring of 5 with horizon 2 leaves two readable
slots before it chokes. On the link, `SendLen - 1 + HorizonWidth < SeqCount`
(3 + 1 < 5) is needed: with 4 numbers TLC finds a retransmission of the previous
turn taken for a new packet. Six packets make the numbers wrap once and reuse
number 0. The bounds `MaxPush`, `InFlight` and `ConnectTicks` are guards of
`Push`, `Transmit` and `Connect`; with them used up both ends may have nothing
left to do, hence `CHECK_DEADLOCK FALSE` on the link. With bytes of base 3, an
identifier 3 is read as 1, and 5 as 7: in `arq_session` the ends meet with identifiers
of which none is refused, of which one is (3 at one end, 5 at the other) and of which
both are (3 and 3, the `Standoff`). The identifiers of one end grow. The ring and buffer runs
check deadlock. Two frames under way each way were also explored, with 5 packets
(3.9 million states) and the same outcome.

For the MAC the sizes are ratios: the clock's turn is more than two cycles
(cycles of 5 to 7 ticks, 16 is no multiple of them), the configured carrier
fallback of 5 is above the limit of 2, and fallback and delay (2 + 1) fit into gap
and tail (1 + 2). The last is what `NoOverlap` needs: an end whose window was put
off by a carrier must be done before the peer's next window when the peer hears
nothing. It also needs the modem to ask for frames often: an adjusted window
starts anew when `sky_tx` finds it open, and if that call may come a tick late TLC
finds the window running into the peer's. The skymodem's values (gap 350, tail 60,
fallback 200) leave 210 ticks for both.

For the authentication, `Lifetime + MaximumJump + 1 < HmacSeqCount` is an
assumption: with fewer numbers an old frame comes within reach of the window
again. Of the code's 2^16 numbers and a jump of 32 that leaves 65,000 later frames.
With 5 numbers and no bound on the frames sent, the numbers wrap any number of times;
the two restarts may come at any moment, at one end or at both, with the numbers of
any earlier moment or with none.

The frame sizes are the real ones. The payload lengths lie on both sides of the
longest frame the assertions of `skylink_tx.c` allow, and at the largest payload;
the errors of body (0, 1, 15, 16, 17 bytes, at the start or the end) and header (0, 1, 3, 4
bits) on both sides of what the codes correct; the noise lengths on both sides of
every length check. `GolayCorrects` decodes every pattern of up to four wrong bits for
each noise length. A frame's journey ends, hence `CHECK_DEADLOCK FALSE`.

In the modem run one slot each way is enough for a ring to be full and to be empty,
two channels for a message that names the other one, and two messages and two
arrivals for every pair of command, packet, handshake and payload between two
ticks, in every order with any number of timeouts and frames.

Fairness (`FairSpec` of `ArqLink`). `sky_tx` is polled for ever, TDD windows keep
opening and the idle timers keep expiring (strong fairness of
`Transmit(n, TRUE, TRUE)`); the application keeps reading (weak fairness of
`Read`); the radio does not lose every frame that carries a given part (strong
fairness of receiving a frame with a handshake, a request, a control extension or
a payload). Nothing is assumed of connecting, hanging up or pushing.

Fairness (`FairSpec` of `AuthLink`). `sky_tx` keeps being called for the end with
payloads (weak fairness), and losses do not single out the frames that would be
accepted (strong fairness). Nothing is assumed of restarts.

Fairness (`FairSpec` of `Modem`). The SDR's timing drives the ticks for as long as
the modem runs, so there are infinitely many; `Tick` is never disabled, and
"infinitely many ticks" is stated as infinitely many turns of `tick`, which is
weak fairness of `Tick` in a form that TLC checks quickly. Nothing is assumed of
the radio or of the applications.

Symmetry. Positions and payloads of the ring runs are model values that no
operation orders or names, so their permutations are used; these runs check no
liveness.

## 4. Findings

Each is a property that a comment or document of the repository states and the
model, which follows the code, violates; TLC's trace is the scenario.

* `EventuallyRead` (`arq_liveness`): when the packet at the front of the resend list
  is acknowledged before it is sent again and no new packet waits,
  `sky_vc_fill_frame` returns an error before it pops the entry (477), every time.
  The comment at 473 ("Ret should not be 0 ...") overlooks that case. The channel
  sends nothing, acknowledgements included, until a new packet is pushed or the
  session times out.
* `MatchingHandshakeIsRedundant` (`arq_rejoin`): an end that hung up enters the old
  session again.
* `WorstCaseFits` (`radio_worst_case`): `frame.h` 40-44 says that a payload of maximum
  size fits a worst case frame, and that a frame is limited by the 223 bytes of a
  Reed-Solomon message. `raw` has room for those and 6 bytes more, not for 32 bytes of
  parity and 3 of coded length: with more than 194 bytes the assertion at 249 of
  `skylink_tx.c` fails, and with more than 197 already the one at 233. `SkyTxFits`
  shows that everything before the coding keeps to the sizes of `frame.h`.

Met while modelling, modelled as the code has it, and without a run of their own:

* `skylink_tx.c` 76: `_sky_tx_extension_eval_hmac_reset` tests the flag the wrong way
  round, so the reset extension is on every frame except those of a channel that needs
  it; `hmac.h` 27 and `skylink_tx.c` 188 say the opposite (and so does `hmac_test.c`
  289-290, an old test that is not built). The receiver then ignores every one of them,
  because it compares the length with 3 (`hmac.c` 124) where the writer and the parser
  use 2 (`frame.c` 280). The two cancel out: if the extensions were obeyed, ends in
  step would lose each other (mutant `ResetApplied`). `Recovers` holds only because the
  numbers of the sender run round into the window again, which takes up to 2^16
  frames, and only while every frame the sender numbers has a payload: frames without
  one use up numbers too, are refused (see below), and may be the very ones that would
  be in the window.
* `hmac.c` 71, `skymodem.cpp` 445-473: an end that restarts with outdated numbers, or
  with none, takes frames again that are still on the air, and when a sender restarts
  so, its older and newer frames may bring the receiver back and forth. `OnlyNewer`
  speaks of ends that have their place. Neither loading nor storing of the numbers has
  a caller, so every restart is one without numbers; the test of the opened file (448)
  is inverted, too. `AuthLink` shows what stored numbers are good for.
* `reliable_vc.c` 72: the element buffer is made for `rcv_ring_len + send_ring_len - 2`
  payloads of maximum length; a choked receive ring holds `rcv_ring_len` and a full
  send ring `send_ring_len - 1`, one more. `tests/units2/cycle_test.c` 358-363 takes it
  for granted that pushing never finds the buffer full. `RoomForAllButLast` states what
  holds.
* `reliable_vc.c` 539: two ends that connect at the same time may both find their own
  identifier the larger one, because each compares it with a byte-reversed one. Both
  then ignore what they receive until one of them times out or its application does
  something (`Standoff`, the exception in `Established`, which does not hold without it).
* `reliable_vc.c` 122 and 539 ("TODO: Overflow not considered!"): when the tick wraps
  between two connections of an end, its identifier falls. The end may then follow a
  late answer of its own earlier session, and the ends may keep changing sessions:
  with connections at ticks 8 and 12 (identifiers 8 and 3), `SessionSettles` and
  `WindowsAligned` are violated. The runs and the theorems have identifiers that grow.
* `reliable_vc.c` 400, 589 and 616: a packet of length 0 can be pushed. With ARQ off it
  stays at the front of the send ring for ever; with ARQ on it is transmitted and
  the receiver ignores it, so it is requested again and again and nothing behind it
  is read.
* `sequence_ring.c` 423-427: popping the resend list shifts one entry too few.
* `sequence_ring.c` 134: a payload too long for the reader stays in the ring,
  although `sequence_ring.h` 101 says it is dropped.
* `vc_interface.cpp` 133 publishes a received packet if the result of the read is
  positive; `sequence_ring.h` 97-99 says it is the number of bytes, `sequence_ring.c`
  148 returns 0. The packet is taken from the ring and not published.
* `reliable_vc.c` 580: identifiers are written in network order (`frame.c` 112) and
  compared without converting them back, so the newer session does not always win.
* `flag_arq_on` is set and never read: an end that hung up delivers packets of the
  session again while the peer is still in it.
* `hmac.c` 151: a frame with a hash and without a payload has `payload_len` 0 and is
  refused. On a channel with authentication, handshakes and bare acknowledgements
  never arrive, and ARQ cannot be turned on.
* `skylink_tx.c` 252: the shift by three leaves byte 0 where it is, which costs one
  of the 16 correctable bytes of every frame, and moves one byte more than there is.
* `skylink_rx.c` 43 moves bytes from beyond the received length; 107 masks the start byte with
  the version before it compares.
* `frame.c` 215: the end of an extension is compared with the end of the frame and
  not of the extensions; an extension found in noise may reach into the payload.
* `vc_interface.cpp`: the interface's session identifier is not updated when the
  peer connects; `arq_disconnect` is followed by an `arq_timeout` message; changes
  that are undone between two ticks are not announced; a packet for a full ring is
  dropped with a line in the log; only `SuoError` is caught around a message, so a
  number or a JSON type that cannot be converted ends the modem.

## 5. Proofs

The theorems hold for every value of the constants that satisfies the named
assumptions of the modules (TLC evaluates those on the runs). They are safety
properties that the runs also check; each rests on an inductive invariant, with one
lemma per action.

| Module | Theorems (`Spec =>` the property, always) |
|---|---|
| `SendRingProofs` | `TypeOK`, `CountersAgree`, `SlotsAgree`, `PayloadsOwned`, `AnnouncedIsRead`; the refinement `ImplementsQueue` |
| `RcvRingProofs` | `TypeOK`, `HorizonClear`, `SlotsAgree`, `PayloadsOwned`; the refinement `ImplementsWindow` |
| `ElementBufferProofs` | `BufferIsOk`, `ChainsReadBack`, `RoomForAllButLast`; the refinement `ImplementsBuffer` |
| `ArqLinkProofs` | `TypeOK`; `AckedIsReceived`, `WindowsAligned` and the action property `InOrder` if `OneConnects` |
| `AuthLinkProofs` | `TypeOK`, `InStep`, `OnlyNewer` |
| `ModemProofs` | `TypeOK`, `ServedInTurn`, `ConnectingIsTold`, `SentInOrder` |
| `TddLinkProofs` | `TypeOK`, `HoldsOff`, the action property `T0StaysBehind`; `NoOverlap` if `Ample` |

**Rings.** The inductive invariant of both is `Inv == TypeOK /\ RingInv`. None of
its parts is inductive alone: that an acknowledgement frees only stored payloads
needs `SlotsAgree`, which needs `CountersAgree` to know where the pushed packet
goes; `AnnouncedIsRead` needs both, because the announced number is read from a
slot and the returned one from the resend list. In the receive ring, a packet that
fills the gap at the head moves the head over what had arrived before it, and the
loop that does so is a minimum (`Least` in `RingArithmetic`); that it stops before
the horizon runs over the tail is `HorizonClear`. The arithmetic is kept out of
the action proofs: `RingArithmetic` proves, from the uniqueness of the remainder,
how distances on a ring change when an end of the distance moves, and the action
proofs never expand `%`. Assumed are a send ring of at least 4 slots and at most as
many as there are sequence numbers, a mask narrower than the range of numbers, a
resend list of at least one entry, and a receive ring that is longer by 3 than its
horizon.

**Refinements.** Both rings and the element buffer are shown to implement their
abstract specifications under the mappings that the runs use: the initial states map to initial states,
and every action, and stuttering, maps to an abstract step or to stuttering. The
queue of the send ring is the sequence of the payloads in slots from the tail; an
acknowledgement drops a prefix, whose length is the distance of the numbers. The
window of the receive ring is the function of the slots relative to the tail; a
read shifts it.

**Element buffer.** Any pool, any size of elements, any set of payloads up to
`MaxLength`. The inductive invariant `Inv` says that the counter of free elements is
their number and that there is a `Layout`: every first element begins the chain of a
payload (`ChainAt`: as many elements as the payload needs, linked both ways, their
cells holding the bytes of the payload as far as it reaches), chains have no element in
common, and an element that is not free is in one. The three properties follow from
it. For `ChainsReadBack` a byte at some place of the payload is found in the element
that the walk along the links reaches (`PlaceOfByte`, `ChainRead`), and what earlier
payloads left behind the end does not matter. For `RoomForAllButLast` the elements of
all chains are counted by an injection into pairs of chain and place (`ChainsFit`): a
pool made for one payload less than `RingCapacity` has room for the next one while the
rings have room for two.
Storing needs that the search from the last write index finds the n-th free element
when there are n (`NthElement`, `SearchFinds`) and that the elements found are
different; then writing adds a chain (`StoreLayout`) and deleting takes one away
(`DeleteLayout`). Both follow chains of any length. The prover cannot use an induction
scheme over predicates, so each induction is on the set of the numbers for which a
statement holds (`UpTo`), and the walk is a recursive function that is shown to be the
function of the chain (`WalkAlong`). `BufferImplemented` closes the gap to the rings:
their theorems are about a map from positions to payloads, and the pool is one.

**ARQ link.** Two channels, any ring lengths, any number of packets, sessions and
frames under way. `LinkInv` (types, each ring's own invariant, sessions named by
identifiers) holds whatever the ends do and gives `TypeOK`. The three properties of a
session do not hold for every configuration: an end that leaves a session can be drawn
back into it with fresh rings (`arq_rejoin`). Their theorems have the hypothesis
`OneConnects`: nobody hangs up or times out, one of the two ends does all the
connecting, as often as it likes (as a ground station does), with identifiers that
grow from one connection to the next (`Growing`), and
`SendLen - 1 + HorizonWidth < SeqCount`. The run `arq_transfer` meets it. Without the last
part a retransmission of the turn before is taken for a new packet (section 3);
identifiers fall when the tick wraps between two connections (section 4).

The inductive invariant is `SessionInv(c)`, `c` being the end that connects. Its heart
is `Matched`, which relates a sender's ring to the ring at the other end and to what is
under way between them in terms of packets, not of numbers: with `Acked` the newest
packet the sender has forgotten, `Seen` the newest it has transmitted, and `Got` the
newest the receiver has without a gap, `Acked <= Got <= Seen`, a
packet under way is no newer than `Seen` and near enough to `Got` to be told from the
ones of other turns (`Near`), and an acknowledgement under way names a packet between
`Acked` and `Got`. `Outward` and `Homeward` are `Matched` in the two directions; they
hold once both ends have joined (`Joined`). The rest says which frames under way are of
this session. `CallerInv` and `AnswererInv`: what identifiers the ends may have; those
used so far (`Spent`) are no larger than the last, so that no late handshake can be
taken for one of a session to come.
`ToAnswerer`: a handshake the answerer does not know will wipe it, and nothing behind it
carries numbers. `ToCaller`: a frame of the answerer that reaches the caller in a
session is from the same session, because the caller ignores everything until a
handshake names its own identifier. `AnswererGood`: an answerer whose caller has
already started over still delivers in order what it has. `Wire` is its own inverse
(`WireReverses`), which is what makes the identifiers comparable over the radio. There
is one lemma per action and role (`CallerTransmits`, `AnswererReceives`,
`AnswererStartsOver`, ...), on top of lemmas on the
operations of one channel in the first part of the module.

**Authentication.** `Inv` adds two facts to the types. `NewsCounts`: what an end
has missed, unless it is astray, is the distance from the number it expects to the
number its peer will use next. `AirCounts`: a frame on the air that is `current` is
behind its sender's next number by its age and one, and no older than `Lifetime`. Both
survive a restart, at either end, in the directions in which the stored numbers are the
ones the end had, and a current frame that is taken restores the first. `InStep` is
then a statement about one distance, and `OnlyNewer` holds because a frame within
the window and within its lifetime cannot be taken for one of the turn before,
which needs `Lifetime + MaximumJump + 1 < HmacSeqCount`. Of an end that is astray, and
of frames that are not current, the theorem says only that they are no echo: there the
code takes frames again (section 4).

**Modem.** For the round robin (`ServedInTurn`) a channel's turns waited and its
distance from the start of the round robin (`Ahead`) add up to less than `NumVC`.
The other theorems share `Inv`: the state the ticks work on is `Good`, i.e. typed and
within the rings, with no more messages and connects than there were posts,
announced where a session is being set up, and in order from the newest packet sent
over the queue to the socket. One tick calls `check` once for every channel, and an
invariant of `check` is carried through them by induction on the number of the
channel: the set of the numbers for which it holds is shown to be all of them
(`UpTo`), and the recursive function `Ticked` is shown to exist (`Recursion`).

**TDD MAC.** The lemmas on one MAC say where each operation of `mac.c` leaves the
window: at the start (opening, reset), the fallback before it (carrier), or as far
before it as the announced rest and the tail say (belief update), in each case
across the wrap of the clock. `Inv` says of an end that has to be quiet that it is
past its window and that the rest of its cycle is at least as long (`KeepsQuiet`),
that an announced rest is no longer than the announced window, and that the
adjustment counter is short of its period while a window is open (`Steady`), without
which the counter leaves its range. `HoldsOff` needs the limit that `sky_mac_create`
puts on the fallback.

`NoOverlap` does not hold for every configuration, and its theorem has a hypothesis,
`Ample`: a tail of at least a tick, a delay within the gap, frames that are processed
at most a tick later than the gap after they were made, and fallback and age together
within gap, tail and a tick. The instance that TLC checks meets it to the tick; with
the skymodem's values (gap 350, tail 60, fallback 200) it holds for frames that are
processed within 211 ticks. The argument is about the places of the two ends in their
cycles, which are equally long when both lengths are known: `Apart` says that the
windows that begin there do not meet, and one of two ends apart is past its window
(`ApartAlone`). Time moves both places on together (`ApartTicks`); a received frame
puts the receiver apart from the sender (`ApartReceived`); a carrier puts a window
off by less than would reach the peer's next one (`ApartPutOff`). The invariant
`StepInv` says what else this needs. `Tells`: a frame under way tells where its sender
is, from its fields and its age. `Sent`: the sender does not change its cycle until
the frame is over, and two frames in the air spoil each other. `Asked`: an end within
its window has asked for a frame at the beginning of it, so that the adjustment of
the window, which starts it anew, leaves it where it is. The last is where it matters
that the modem asks in every tick.

Only model-checked, and why:

* liveness (`SessionSettles`, `Established`, `EventuallyRead`, `Recovers`,
  `SettledStateIsTold`, `NothingStaysQueued`) is out of the prover's reach;
* `RequestsObeyed` is a safety property of the link that is not proved yet: it needs
  an invariant on the requests under way;
* `RadioFrame` adds extensions with a fold (`SkyTxFits`, `ReceivedAsSent`) and
  `Golay24` loops over bits (`GolayCorrects`): what they compute needs induction over
  data. `ParsedInside` depends on the
  values of such folds only through their types, and could be proved. The sizes of
  frames and code words are the real ones in the runs, with lengths at the boundaries.

## 6. Plan

1. (done) `SequenceRing`, `SendRingOps`, `RcvRingOps`, `SendRing`, `RcvRing` with
   their abstract specifications, `VirtualChannelOps`, `ArqLink`, `ElementBuffer`.
2. (done) `MacOps`, `TddLink`.
3. (done) `HmacOps`, `AuthLink`: loss, repetition, echoes and restart.
4. (done) `FrameOps`, `Golay24`, `RadioFrame`; `Modem` with the channel selection.
5. (done) Proofs on the rings and their refinements, the authentication, the modem
   and the MAC.
6. (done) Proofs on the ARQ link and on the element buffer, with its refinement.
7. Proofs that remain: `RequestsObeyed` of `ArqLink`; `ParsedInside` of `RadioFrame`;
   sessions that both ends may begin.

## 7. Not modelled

The arithmetic of Reed-Solomon (`ext/libfec`) and of BLAKE3 is vendored and has no
state of the protocol; the models take from them what they promise. The CRC is
disabled (`#if 0` around its two calls). Diagnostics are counters nobody reads.
`set_config` of the modem changes parameters that are constants here; the JSON
texts, the set-up of the radio and the Python tools are I/O around the library.
Whether the MAC wants an idle frame (`last_belief_update`, the frame counters) is
left open in `TddLink` and `Modem`, which covers every answer.
`sky_frame_extend_with_payload`, `mac_shift_windowing` and
`mac_peer_window_remaining` have no caller.

No module composes everything: `ArqLink`, `TddLink`, `AuthLink`, `RadioFrame` and
`Modem` each leave open what the others decide, and none shows a property that
needs two of them. What they assume of the rest is stated in their comments, in
the named assumptions and in the fairness of section 3.
