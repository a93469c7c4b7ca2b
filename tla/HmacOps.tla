------------------------------- MODULE HmacOps -------------------------------
(***************************************************************************)
(* Authentication of frames (hmac.c) as operators on the record SkyHMAC,   *)
(* an operator per C function and with its name.  The keyed hash is        *)
(* external: a frame is genuine when its trailer was computed with our key *)
(* over the bytes that arrived.                                            *)
(***************************************************************************)
EXTENDS Naturals

CONSTANTS
  NumVC,                    \* SKY_NUM_VIRTUAL_CHANNELS
  HmacSeqCount,             \* numbers of a frame, 2^16 in the code
  MaximumJump,              \* maximum_jump of the configuration
  AuthenticateTx,           \* channels with SKY_CONFIG_FLAG_AUTHENTICATE_TX
  RequireAuthentication,    \* ... with SKY_CONFIG_FLAG_REQUIRE_AUTHENTICATION
  RequireSequence           \* ... with SKY_CONFIG_FLAG_REQUIRE_SEQUENCE

VC == 0 .. NumVC - 1
HmacSequence == 0 .. HmacSeqCount - 1

ASSUME HmacAssumption ==
  /\ NumVC \in Nat \ {0} /\ HmacSeqCount \in Nat \ {0} /\ MaximumJump \in Nat
  /\ AuthenticateTx \cup RequireAuthentication \cup RequireSequence \subseteq VC

SkyHMAC == [
  sequence_tx         : [VC -> HmacSequence],
  sequence_rx         : [VC -> HmacSequence],
  vc_enforcement_need : [VC -> BOOLEAN]]

\* Numbers are 16 bits wide and wrap.
HmacWrap(sequence) == sequence % HmacSeqCount
HmacMinus(x, y) == (x + HmacSeqCount - y) % HmacSeqCount

sky_hmac_create == [
  sequence_tx         |-> [vc \in VC |-> 0],
  sequence_rx         |-> [vc \in VC |-> 0],
  vc_enforcement_need |-> [vc \in VC |-> FALSE]]

\* Mutant: the number stays at its largest value.
NextSaturated(hmac, vc) ==
  [hmac EXCEPT !.sequence_tx[vc] = IF @ = HmacSeqCount - 1 THEN @ ELSE @ + 1]

sky_hmac_get_next_tx_sequence(hmac, vc) ==
  [hmac EXCEPT !.sequence_tx[vc] = HmacWrap(@ + 1)]

sky_hmac_dump_sequences(hmac) ==
  [vc \in VC |-> <<hmac.sequence_tx[vc], hmac.sequence_rx[vc]>>]

\* Mutant: the two numbers of a channel are taken in the wrong order.
LoadSwapped(hmac, sequences) ==
  [hmac EXCEPT !.sequence_tx = [vc \in VC |-> sequences[vc][2]],
               !.sequence_rx = [vc \in VC |-> sequences[vc][1]]]

sky_hmac_load_sequences(hmac, sequences) ==
  [hmac EXCEPT !.sequence_tx = [vc \in VC |-> sequences[vc][1]],
               !.sequence_rx = [vc \in VC |-> sequences[vc][2]]]

-----------------------------------------------------------------------------
(* The sequence reset extension. *)

SizeOfSequenceReset == 2   \* sizeof(ExtHMACSequenceReset)

\* What sky_frame_add_extension_hmac_sequence_reset writes and the parser lets
\* through.
SequenceReset == [length : {SizeOfSequenceReset}, sequence : HmacSequence]

\* Mutant: the length is compared with the size the extension is written with.
ResetApplied(hmac, ext, vc) == [hmac EXCEPT !.sequence_tx[vc] = ext.sequence]

sky_rx_process_ext_hmac_sequence_reset(hmac, ext, vc) ==
  IF ext.length # SizeOfSequenceReset + 1 THEN hmac
  ELSE [hmac EXCEPT !.sequence_tx[vc] = ext.sequence]

-----------------------------------------------------------------------------
(* sky_hmac_check_authentication. *)

HasHash(frame) == frame.flag_authenticated

\* Mutant: one number more is let through.
JumpTooLargeByOne(hmac, vc, sequence) ==
  HmacMinus(sequence, hmac.sequence_rx[vc]) > MaximumJump + 1

JumpTooLarge(hmac, vc, sequence) ==
  HmacMinus(sequence, hmac.sequence_rx[vc]) > MaximumJump

\* What the function returns.  A frame without payload has payload_len 0, also
\* when it carries a hash.
Verdict(hmac, frame) ==
  IF HasHash(frame) /\ ~frame.has_payload THEN "TOO_SHORT_FOR_HMAC"
  ELSE IF frame.vc \notin RequireAuthentication THEN "OK"
  ELSE IF ~HasHash(frame) THEN "AUTH_MISSING"
  ELSE IF ~frame.genuine THEN "AUTH_FAILED"
  ELSE IF frame.vc \in RequireSequence /\ JumpTooLarge(hmac, frame.vc, frame.sequence)
  THEN "EXCESSIVE_HMAC_JUMP"
  ELSE "OK"

\* Mutant: the number after the largest one is too large.
ExpectUnwrapped(hmac, vc, sequence) == [hmac EXCEPT !.sequence_rx[vc] = sequence + 1]

ExpectNext(hmac, vc, sequence) == [hmac EXCEPT !.sequence_rx[vc] = HmacWrap(sequence + 1)]

\* What the function leaves behind.  The reset extension is processed once the
\* hash is right, before the number is looked at.
sky_hmac_check_authentication(hmac, frame) ==
  LET verdict == Verdict(hmac, frame)
      hash_ok == frame.vc \in RequireAuthentication
                 /\ verdict \in {"OK", "EXCESSIVE_HMAC_JUMP"}
      reset == IF hash_ok /\ frame.hmac_reset # <<>>
               THEN sky_rx_process_ext_hmac_sequence_reset(hmac, frame.hmac_reset[1], frame.vc)
               ELSE hmac
  IN  IF verdict \in {"AUTH_MISSING", "AUTH_FAILED", "EXCESSIVE_HMAC_JUMP"}
      THEN [reset EXCEPT !.vc_enforcement_need[frame.vc] = TRUE]
      ELSE IF hash_ok THEN ExpectNext(reset, frame.vc, frame.sequence)
      ELSE hmac
=============================================================================
