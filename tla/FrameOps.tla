------------------------------- MODULE FrameOps -------------------------------
(***************************************************************************)
(* The layout of a frame (frame.h, frame.c) as operators, in bytes: where  *)
(* the extensions begin and how long everything is.  What an extension     *)
(* says is left to the modules that use it; of a header extension only the *)
(* first byte, with its type and length, is kept.                          *)
(***************************************************************************)
EXTENDS Naturals, TLC

SKY_MAX_IDENTITY_LEN == 7
SKY_FRAME_MIN_LEN == 7
SKY_FRAME_MAX_LEN == 223
SKY_PAYLOAD_MAX_LEN == 181
SKY_HMAC_LENGTH == 4
RS_MSGLEN == 223
RS_PARITYS == 32

\* sizeof(SkyStaticHeader): its first bit field takes four bytes.
StaticHeaderSize == 7

\* sizeof(raw)
RawSize == SKY_FRAME_MAX_LEN + 6

EXTENSION_ARQ_SEQUENCE == 0
EXTENSION_ARQ_REQUEST == 1
EXTENSION_ARQ_CTRL == 2
EXTENSION_ARQ_HANDSHAKE == 3
EXTENSION_MAC_TDD_CONTROL == 4
EXTENSION_HMAC_SEQUENCE_RESET == 5

ExtensionTypes == 0 .. 5

\* sizeof(ExtARQSeq) and so on: what follows the first byte of an extension.
SizeOf == [type \in ExtensionTypes |-> <<1, 3, 2, 5, 4, 2>>[type + 1]]

\* The first byte of an extension.
ExtensionHead == [type : 0 .. 15, length : 0 .. 15]

\* heads: the extension heads that have been written, by their position in raw.
SkyRadioFrame == [
  length           : Nat,
  identity_len     : 0 .. SKY_MAX_IDENTITY_LEN,
  extension_length : 0 .. 255,
  has_payload      : BOOLEAN,
  heads            : UNION {[positions -> ExtensionHead] : positions \in SUBSET (0 .. RawSize - 1)}]

\* Where the extensions begin, and where they end and the payload begins.
ExtensionStart(frame) == 1 + frame.identity_len + StaticHeaderSize
PayloadStart(frame) == ExtensionStart(frame) + frame.extension_length

-----------------------------------------------------------------------------
(* Writing. *)

\* sky_tx begins a frame: the start byte, the identity and the static header.
NewFrame(identity_len) == [
  length           |-> 1 + identity_len + StaticHeaderSize,
  identity_len     |-> identity_len,
  extension_length |-> 0,
  has_payload      |-> FALSE,
  heads            |-> <<>>]

\* The assertions before an extension is added; two of them leave out its first
\* byte.
RoomForExtension(frame, type) ==
  LET head == IF type \in {EXTENSION_MAC_TDD_CONTROL, EXTENSION_HMAC_SEQUENCE_RESET} THEN 0 ELSE 1
  IN  ~frame.has_payload /\ frame.length + head + SizeOf[type] < SKY_PAYLOAD_MAX_LEN

\* sky_frame_add_extension_arq_sequence and its five siblings.
sky_frame_add_extension(frame, type) ==
  [frame EXCEPT
    !.heads            = @ @@ (frame.length :> [type |-> type, length |-> SizeOf[type]]),
    !.extension_length = @ + 1 + SizeOf[type],
    !.length           = @ + 1 + SizeOf[type]]

\* Mutant: the hash is taken off twice.
SpaceLeftTwice(frame) == RS_MSGLEN - (frame.length + 2 * SKY_HMAC_LENGTH)

sky_frame_get_space_left(frame) == RS_MSGLEN - (frame.length + SKY_HMAC_LENGTH)

\* sky_vc_fill_frame copies a payload behind the extensions.
AddPayload(frame, payload_length) ==
  [frame EXCEPT !.length = @ + payload_length, !.has_payload = TRUE]

\* A frame that is too long is sent without a hash.
sky_hmac_extend_with_authentication(frame) ==
  IF frame.length > SKY_FRAME_MAX_LEN - SKY_HMAC_LENGTH THEN frame
  ELSE [frame EXCEPT !.length = @ + SKY_HMAC_LENGTH]

-----------------------------------------------------------------------------
(* Reading: one turn of the loop of sky_frame_parse_extension_headers. *)

\* Mutant: the end of the frame is not looked at.
HeadVerdictUnbounded(frame, parsed, cursor, head) ==
  IF head.type \notin ExtensionTypes THEN "INVALID_EXT_TYPE"
  ELSE IF head.type \in DOMAIN parsed THEN "REDUNDANT_EXTENSIONS"
  ELSE IF head.length # SizeOf[head.type] THEN "INVALID_EXT_LENGTH"
  ELSE "OK"

\* What becomes of the extension at the cursor, when the types in parsed have
\* been met before.
HeadVerdict(frame, parsed, cursor, head) ==
  IF cursor + 1 + head.length > frame.length THEN "INVALID_EXT_LENGTH"
  ELSE IF head.type \notin ExtensionTypes THEN "INVALID_EXT_TYPE"
  ELSE IF head.type \in DOMAIN parsed THEN "REDUNDANT_EXTENSIONS"
  ELSE IF head.length # SizeOf[head.type] THEN "INVALID_EXT_LENGTH"
  ELSE "OK"
==============================================================================
