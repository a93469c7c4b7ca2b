------------------------------ MODULE AuthLink ------------------------------
(***************************************************************************)
(* Two ends that number and sign their frames (sky_tx) and decide which    *)
(* frames to take (sky_rx).  When an end sends, on which channel, and with *)
(* a payload or without, is left open: ArqLink, TddLink and Modem have     *)
(* that.  A frame on the air may be received by either end, in any order,  *)
(* more than once or never, until more than Lifetime later ones of its     *)
(* channel were sent, whether or not its sender has restarted since.       *)
(***************************************************************************)
EXTENDS HmacOps

CONSTANTS
  End,                      \* the two ends, named by their identities
  ResetLead,                \* the 3 of _sky_tx_extension_eval_hmac_reset
  Lifetime,                 \* later frames that a frame of an end outlasts
  Payloads,                 \* whether an end sends frames with a payload, and without
  MaxRestarts               \* times an end restarts (bound)

\* A frame is gone before its number comes within reach of the window again.
ASSUME AuthLinkAssumption ==
  /\ \E a, b \in End : a # b /\ End = {a, b}
  /\ {ResetLead, MaxRestarts} \subseteq Nat
  /\ Lifetime \in [End -> Nat] /\ Payloads \in [End -> SUBSET BOOLEAN]
  /\ \A n \in End : Lifetime[n] + MaximumJump + 1 < HmacSeqCount

VARIABLES
  hmac,     \* SkyHMAC of each end
  air,      \* frames on the air
  stored,   \* the numbers each end has dumped last
  restarts, \* how often an end has restarted
  news      \* history: frames sent to an end since the newest it has accepted, on
            \* the channels whose numbers are checked

vars == <<hmac, air, stored, restarts, news>>

Peer(n) == CHOOSE p \in End : p # n

\* The channels whose numbers are checked.
Checked == AuthenticateTx \cap RequireAuthentication \cap RequireSequence

\* An end that has lost its place in the numbers of its peer: one of the two has
\* restarted with outdated numbers, or a whole range of numbers went unheard.
Astray == HmacSeqCount

Frame == [
  identity           : End,
  vc                 : VC,
  sequence           : HmacSequence,
  flag_authenticated : BOOLEAN,
  genuine            : BOOLEAN,
  has_payload        : BOOLEAN,
  hmac_reset         : {<<>>} \cup {<<ext>> : ext \in SequenceReset},
  age                : Nat,               \* history: later frames of the channel
  current            : BOOLEAN]           \* history: the sender still counts from it

Init ==
  /\ hmac = [n \in End |-> sky_hmac_create]
  /\ air = {}
  /\ stored = [n \in End |-> sky_hmac_dump_sequences(sky_hmac_create)]
  /\ restarts = 0
  /\ news = [n \in End |-> [vc \in Checked |-> 0]]

-----------------------------------------------------------------------------
(* sky_tx. *)

_sky_tx_extension_eval_hmac_reset(n, vc) ==
  IF hmac[n].vc_enforcement_need[vc] THEN <<>>
  ELSE <<[length |-> SizeOfSequenceReset,
          sequence |-> HmacWrap(hmac[n].sequence_rx[vc] + ResetLead)]>>

\* sky_tx makes a frame.
SkyTx(n, vc, has_payload) ==
  LET frame == [
        identity           |-> n,
        vc                 |-> vc,
        sequence           |-> hmac[n].sequence_tx[vc],
        flag_authenticated |-> vc \in AuthenticateTx,
        genuine            |-> TRUE,
        has_payload        |-> has_payload,
        hmac_reset         |-> _sky_tx_extension_eval_hmac_reset(n, vc),
        age                |-> 0,
        current            |-> TRUE]
      others == {f \in air : f.identity # n \/ f.vc # vc}
      older == {[f EXCEPT !.age = @ + 1] : f \in {g \in air \ others : g.age < Lifetime[n]}}
  IN  /\ air' = others \cup older \cup {frame}
      /\ hmac' = [hmac EXCEPT ![n] = sky_hmac_get_next_tx_sequence(@, vc)]
      /\ news' = [news EXCEPT ![Peer(n)] = [c \in Checked |->
                     IF c = vc /\ @[c] < Astray THEN @[c] + 1 ELSE @[c]]]
      /\ UNCHANGED <<stored, restarts>>

-----------------------------------------------------------------------------
(* sky_rx. *)

filter_by_identity(n, frame) == frame.identity = n

Accepts(n, frame) == ~filter_by_identity(n, frame) /\ Verdict(hmac[n], frame) = "OK"

\* The number of the frame was checked and the window has moved on.
Counted(n, frame) == Accepts(n, frame) /\ frame.vc \in Checked

\* A frame from before its sender lost count leads astray.
SkyRx(n, frame) ==
  /\ hmac' = [hmac EXCEPT ![n] = IF filter_by_identity(n, frame) THEN @
                                 ELSE sky_hmac_check_authentication(@, frame)]
  /\ news' = IF ~Counted(n, frame) THEN news
             ELSE [news EXCEPT ![n][frame.vc] = IF frame.current THEN frame.age ELSE Astray]
  /\ UNCHANGED <<air, stored, restarts>>

\* A frame on the air, of the peer or of the end itself.
Receive(n) == \E frame \in air : SkyRx(n, frame)

\* A frame of some other station, which does not have the key.
Overhear(n) ==
  \E vc \in VC, hash \in BOOLEAN :
    SkyRx(n, [identity |-> "other", vc |-> vc, sequence |-> 0, flag_authenticated |-> hash,
              genuine |-> FALSE, has_payload |-> TRUE, hmac_reset |-> <<>>,
              age |-> 0, current |-> TRUE])

-----------------------------------------------------------------------------
(* Starting again. *)

\* The numbers are dumped, at any time or never.
Store(n) ==
  /\ stored' = [stored EXCEPT ![n] = sky_hmac_dump_sequences(hmac[n])]
  /\ UNCHANGED <<hmac, air, restarts, news>>

\* The channels on which the numbers an end would load are not the ones it has.
OutdatedTx(n) == {vc \in VC : stored[n][vc][1] # hmac[n].sequence_tx[vc]}
OutdatedRx(n) == {vc \in VC : stored[n][vc][2] # hmac[n].sequence_rx[vc]}

\* sky_create, and sky_hmac_load_sequences with the numbers stored last.  An end
\* that has stored none has the zeros of sky_hmac_create.
Restart(n) ==
  /\ restarts < MaxRestarts
  /\ restarts' = restarts + 1
  /\ hmac' = [hmac EXCEPT ![n] = sky_hmac_load_sequences(sky_hmac_create, stored[n])]
  /\ air' = {[f EXCEPT !.current = @ /\ ~(f.identity = n /\ f.vc \in OutdatedTx(n))] : f \in air}
  /\ news' = [e \in End |-> [vc \in Checked |->
       IF vc \in (IF e = n THEN OutdatedRx(n) ELSE OutdatedTx(n)) THEN Astray ELSE news[e][vc]]]
  /\ UNCHANGED stored

Next ==
  \E n \in End :
       \/ \E vc \in VC, has_payload \in Payloads[n] : SkyTx(n, vc, has_payload)
       \/ Receive(n) \/ Overhear(n)
       \/ Store(n) \/ Restart(n)

Spec == Init /\ [][Next]_vars

-----------------------------------------------------------------------------
(* Properties. *)

TypeOK ==
  /\ hmac \in [End -> SkyHMAC]
  /\ air \subseteq Frame
  /\ stored \in [End -> [VC -> HmacSequence \X HmacSequence]]
  /\ restarts \in 0 .. MaxRestarts
  /\ news \in [End -> [Checked -> 0 .. Astray]]

\* While no more than maximum_jump frames in a row have been missed, the next
\* frame of the peer has a number that is accepted ("Value should larger than
\* expected number of lost frames", conf.h), across the wrap of the numbers and
\* restarts: an end that has lost its place is in step again with the first
\* current frame it takes.
InStep ==
  \A n \in End, vc \in Checked :
    news[n][vc] =< MaximumJump =>
      ~JumpTooLarge(hmac[n], vc, hmac[Peer(n)].sequence_tx[vc])

\* Of the frames on the air an end never takes an echo of its own, and while it
\* has its place it takes a current frame of its peer only if that is newer than
\* the newest it has taken: none twice and none after a later one, although the
\* numbers wrap.  Nothing is said of an end that has lost its place, nor of frames
\* from before its peer did: after a restart with outdated numbers the code takes
\* a frame on the air again.
OnlyNewer ==
  \A n \in End : \A frame \in air :
    Counted(n, frame) =>
      /\ frame.identity = Peer(n)
      /\ frame.current /\ news[n][frame.vc] # Astray => frame.age < news[n][frame.vc]

-----------------------------------------------------------------------------
(* Liveness. *)

\* The receiver would refuse the next frame of its peer for its number.
Locked(n, vc) == JumpTooLarge(hmac[n], vc, hmac[Peer(n)].sequence_tx[vc])

\* The ends that send payloads.
Talkers == {n \in End : TRUE \in Payloads[n]}

\* A frame is received that the end takes.
ReceiveCounted(n) == \E frame \in air : Counted(n, frame) /\ SkyRx(n, frame)

\* Applications keep sending, sky_tx keeps being called, and losses do not pick
\* out the frames that would be taken.
Fairness ==
  \A n \in Talkers :
    /\ \A vc \in Checked : WF_vars(SkyTx(n, vc, TRUE))
    /\ SF_vars(ReceiveCounted(Peer(n)))

FairSpec == Spec /\ Fairness

\* An end that refuses the numbers of its peer, after a restart or a long
\* silence, takes frames again some day: although neither end asks for a reset
\* that the other obeys, the numbers of the peer run into the window again.
Recovers ==
  \A n \in Talkers, vc \in Checked :
    Locked(Peer(n), vc) ~> news[Peer(n)][vc] =< MaximumJump
=============================================================================
