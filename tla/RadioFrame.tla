------------------------------ MODULE RadioFrame ------------------------------
(***************************************************************************)
(* One frame from sky_tx_with_golay to sky_rx_with_golay: it is built,     *)
(* coded, sent over the radio, decoded and parsed, with the real sizes.    *)
(* Of the bytes it is kept which are wrong.  The radio and the Reed-       *)
(* Solomon coder (libfec) are external: the coder puts up to MaxCorrected  *)
(* wrong bytes right.  What the modem takes for a frame in the noise may   *)
(* have any length and any contents.                                       *)
(***************************************************************************)
EXTENDS FrameOps, Golay24, SequencesExt

CONSTANTS
  IdentityLens,      \* configured lengths of the identity
  PayloadLens,       \* lengths of payloads that applications send
  HeaderErrors,      \* sets of bits of the coded length that the radio turns
  BodyErrors,        \* numbers of bytes that the radio spoils
  NoiseLens,         \* lengths the modem may find in noise
  NoiseExtensions,   \* extension_length of a frame found in noise
  MaxCorrected       \* wrong bytes the Reed-Solomon code corrects

ASSUME RadioFrameAssumption ==
  /\ IdentityLens \subseteq 3 .. SKY_MAX_IDENTITY_LEN
  /\ PayloadLens \subseteq 1 .. SKY_PAYLOAD_MAX_LEN
  /\ HeaderErrors \subseteq Word /\ BodyErrors \subseteq Nat /\ MaxCorrected \in Nat
  /\ NoiseLens \cup NoiseExtensions \subseteq 0 .. 255

VARIABLES
  stage,    \* how far the frame has come
  frame,    \* the frame as its end has it
  sent,     \* history: the frame sky_tx made
  header,   \* the coded length, as bits
  spoiled,  \* history: how many bits of the coded length and how many bytes of the
            \* rest the radio spoiled
  wrong,    \* bytes that are wrong when the frame is decoded
  cursor,   \* of sky_frame_parse_extension_headers
  parsed,   \* positions of the extensions it has found, by type
  ret       \* what the last function called returned

vars == <<stage, frame, sent, header, spoiled, wrong, cursor, parsed, ret>>

NoFrame == [length |-> 0, identity_len |-> 0, extension_length |-> 0,
            has_payload |-> FALSE, heads |-> <<>>]

Init ==
  /\ stage = "start"
  /\ frame = NoFrame /\ sent = NoFrame
  /\ header = {} /\ spoiled = [bits |-> 0, bytes |-> 0] /\ wrong = {}
  /\ cursor = 0 /\ parsed = <<>> /\ ret = "OK"

-----------------------------------------------------------------------------
(* sky_tx: the frame is built. *)

ArqTypes == <<EXTENSION_ARQ_HANDSHAKE, EXTENSION_ARQ_REQUEST, EXTENSION_ARQ_CTRL>>

\* What sky_vc_fill_frame may add, the extensions in its order: nothing or a bare
\* payload when ARQ is off, a handshake while it is being turned on, and when it
\* is on any of three extensions, with a payload at least the control extension.
Contents ==
  LET chosen(types) == SelectSeq(ArqTypes, LAMBDA type : type \in types)
      content(types, payload_length, arq) ==
        [types |-> types, payload_length |-> payload_length, arq |-> arq]
  IN  {content(<<>>, payload_length, FALSE) : payload_length \in PayloadLens \cup {0}}
      \cup {content(chosen(types), 0, TRUE) : types \in SUBSET Range(ArqTypes)}
      \cup {content(chosen(types \cup {EXTENSION_ARQ_CTRL}), payload_length, TRUE) :
              types \in SUBSET Range(ArqTypes), payload_length \in PayloadLens}

\* The frame with these extensions added, and whether every assertion on the way
\* holds.
Extended(f, types) == FoldLeft(sky_frame_add_extension, f, types)
RoomForAll(f, types) ==
  \A i \in DOMAIN types : RoomForExtension(Extended(f, SubSeq(types, 1, i - 1)), types[i])

\* The MAC extension comes first, and then the sequence reset.
FirstTypes(reset) ==
  <<EXTENSION_MAC_TDD_CONTROL>> \o IF reset THEN <<EXTENSION_HMAC_SEQUENCE_RESET>> ELSE <<>>

\* The number of the payload comes last.
LastTypes(content) ==
  IF content.arq /\ content.payload_length > 0 THEN <<EXTENSION_ARQ_SEQUENCE>> ELSE <<>>

\* The payload fits, with its number when ARQ is on.
PayloadFits(f, content) ==
  content.payload_length + (IF content.arq THEN 1 + SizeOf[EXTENSION_ARQ_SEQUENCE] ELSE 0)
    =< sky_frame_get_space_left(f)

Filled(f, content) ==
  IF content.payload_length = 0 THEN f
  ELSE AddPayload(Extended(f, LastTypes(content)), content.payload_length)

-----------------------------------------------------------------------------
(* sky_tx_with_fec and sky_tx_with_golay: the frame is coded. *)

\* Their assertions: what they are about to add fits into raw.
CodedFits(length) == length + RS_PARITYS + 3 =< RawSize

\* The parity is appended; whitening changes no length.
sky_fec_encode(f) == [f EXCEPT !.length = @ + RS_PARITYS]

\* Mutant: the first two bytes stay where they are.
ShiftedFromThird(length) ==
  [i \in 0 .. length + 3 |-> IF i - 3 \in 2 .. length THEN i - 3 ELSE i]

\* The bytes are moved up by three, from the last one down to the second: byte i
\* afterwards is this byte of before.
Shifted(length) ==
  [i \in 0 .. length + 3 |-> IF i - 3 \in 1 .. length THEN i - 3 ELSE i]

\* sky_rx_with_golay moves this many bytes down again: those that are then wrong.
Misplaced(length) == {i \in 0 .. length - 1 : Shifted(length)[i + 3] # i}

\* sky_tx_with_golay.  A payload that does not fit fails an assertion of sky_tx, or
\* is discarded when ARQ is on; sky_tx ends with the hash, if the channel has one;
\* then the parity is appended and the coded length put in front, unless that
\* fails an assertion.
SkyTxWithGolay(identity_len, reset, content, authenticate) ==
  LET types == FirstTypes(reset) \o content.types
      ready == Extended(NewFrame(identity_len), types)
      filled == Filled(ready, content)
      whole == IF authenticate THEN sky_hmac_extend_with_authentication(filled) ELSE filled
      coded == sky_fec_encode(whole)
      aborts == \/ ~RoomForAll(NewFrame(identity_len), types \o LastTypes(content))
                \/ ~content.arq /\ ~PayloadFits(ready, content)
  IN  /\ stage = "start"
      /\ IF content.arq /\ content.payload_length > 0 /\ ~PayloadFits(ready, content)
         THEN stage' = "discarded" /\ UNCHANGED <<frame, sent, header, wrong>>
         ELSE IF aborts
         THEN stage' = "aborted" /\ sent' = whole /\ UNCHANGED <<frame, header, wrong>>
         ELSE IF ~CodedFits(whole.length)
         THEN stage' = "uncodable" /\ sent' = whole /\ UNCHANGED <<frame, header, wrong>>
         ELSE /\ stage' = "coded"
              /\ sent' = whole
              /\ frame' = coded
              /\ header' = encode_golay24(BitsOf(coded.length))
              /\ wrong' = Misplaced(coded.length)
      /\ UNCHANGED <<spoiled, cursor, parsed, ret>>

-----------------------------------------------------------------------------
(* The radio. *)

\* The radio turns bits of the header, and spoils bytes at the beginning or the
\* end of the frame.
Transit(bits, bytes, first) ==
  /\ stage = "coded"
  /\ bytes =< frame.length
  /\ stage' = "arrived"
  /\ header' = SymDiff(header, bits)
  /\ spoiled' = [bits |-> Cardinality(bits), bytes |-> bytes]
  /\ wrong' = wrong \cup IF first THEN 0 .. bytes - 1
                         ELSE frame.length - bytes .. frame.length - 1
  /\ frame' = NoFrame
  /\ UNCHANGED <<sent, cursor, parsed, ret>>

\* The modem takes noise for a frame.
Noise(length) ==
  /\ stage = "start"
  /\ stage' = "arrived"
  /\ header' = encode_golay24(BitsOf(length))
  /\ wrong' = 0 .. MaxCorrected
  /\ UNCHANGED <<frame, sent, spoiled, cursor, parsed, ret>>

-----------------------------------------------------------------------------
(* sky_rx_with_golay and sky_rx_with_fec: the frame is decoded. *)

Refuse(code) == stage' = "done" /\ ret' = code /\ UNCHANGED frame

\* The wrong bytes are put right, or there are too many of them,
\* which is noticed or not.  A spoiled frame that goes unnoticed is no different
\* from noise that does.
sky_fec_decode(length) ==
  \/ /\ Cardinality(wrong) =< MaxCorrected
     /\ frame' = [sent EXCEPT !.length = length - RS_PARITYS]
     /\ stage' = "decoded" /\ UNCHANGED ret
  \/ /\ Cardinality(wrong) > MaxCorrected
     /\ Refuse("RS_FAILED")
  \/ /\ Cardinality(wrong) > MaxCorrected /\ sent = NoFrame
     /\ \E identity_len \in {0, SKY_MAX_IDENTITY_LEN}, extension_length \in NoiseExtensions,
           has_payload \in BOOLEAN :
          frame' = [length |-> length - RS_PARITYS, identity_len |-> identity_len,
                    extension_length |-> extension_length, has_payload |-> has_payload,
                    heads |-> <<>>]
     /\ stage' = "decoded" /\ UNCHANGED ret

\* The checks of sky_rx_with_golay and sky_rx_with_fec.
EncodedLengthOk(length) == length =< RawSize /\ length >= SKY_FRAME_MIN_LEN + RS_PARITYS

sky_rx_with_golay ==
  LET word == decode_golay24(header)
      length == ValueOf(word[1]) % 256       \* SKY_GOLAY_PAYLOAD_LENGTH_MASK
  IN  /\ stage = "arrived"
      /\ IF word = <<>> THEN Refuse("GOLAY_FAILED")
         ELSE IF ~EncodedLengthOk(length) THEN Refuse("INVALID_ENCODED_LENGTH")
         ELSE sky_fec_decode(length)
      /\ UNCHANGED <<sent, header, spoiled, wrong, cursor, parsed>>

-----------------------------------------------------------------------------
(* sky_rx: the frame is parsed. *)

\* The checks before the extensions; the identity and the authentication are in
\* AuthLink.
SkyRx(version_ok) ==
  /\ stage = "decoded"
  /\ version_ok \/ sent = NoFrame
  /\ IF ~version_ok \/ frame.identity_len = 0 THEN Refuse("INVALID_VERSION") /\ UNCHANGED cursor
     ELSE IF PayloadStart(frame) > frame.length
     THEN Refuse("INVALID_EXT_LENGTH") /\ UNCHANGED cursor
     ELSE stage' = "parsing" /\ cursor' = ExtensionStart(frame) /\ UNCHANGED <<frame, ret>>
  /\ UNCHANGED <<sent, header, spoiled, wrong, parsed>>

\* The byte at the cursor.  Where no head was written it may be anything; a type
\* that does not exist stands for all of them.
HeadsAt(position) ==
  IF position \in DOMAIN frame.heads THEN {frame.heads[position]}
  ELSE [type : ExtensionTypes \cup {15}, length : 0 .. 15]

ParseExtension ==
  /\ stage = "parsing" /\ cursor < PayloadStart(frame)
  /\ \E head \in HeadsAt(cursor) :
       LET verdict == HeadVerdict(frame, parsed, cursor, head)
       IN  IF verdict # "OK" THEN Refuse(verdict) /\ UNCHANGED <<cursor, parsed>>
           ELSE /\ parsed' = parsed @@ (head.type :> cursor)
                /\ cursor' = cursor + 1 + head.length
                /\ UNCHANGED <<stage, frame, ret>>
  /\ UNCHANGED <<sent, header, spoiled, wrong>>

ParsingEnds ==
  /\ stage = "parsing" /\ cursor >= PayloadStart(frame)
  /\ stage' = "done"
  /\ UNCHANGED <<frame, sent, header, spoiled, wrong, cursor, parsed, ret>>

Next ==
  \/ \E identity_len \in IdentityLens, reset, authenticate \in BOOLEAN, content \in Contents :
       SkyTxWithGolay(identity_len, reset, content, authenticate)
  \/ \E bits \in HeaderErrors, bytes \in BodyErrors, first \in BOOLEAN : Transit(bits, bytes, first)
  \/ \E length \in NoiseLens : Noise(length)
  \/ sky_rx_with_golay
  \/ \E version_ok \in BOOLEAN : SkyRx(version_ok)
  \/ ParseExtension \/ ParsingEnds

Spec == Init /\ [][Next]_vars

-----------------------------------------------------------------------------
(* Properties. *)

\* sky_tx has room for what it is given: with every extension and a hash a payload
\* of SKY_PAYLOAD_MAX_LEN bytes makes a frame of at most SKY_FRAME_MAX_LEN, none is
\* discarded, and no assertion about the room for an extension or a payload fails.
\* Of the coding that follows it says nothing.
SkyTxFits ==
  /\ stage \notin {"discarded", "aborted"}
  /\ sent.length =< SKY_FRAME_MAX_LEN

\* What frame.h says of its sizes: SKY_PAYLOAD_MAX_LEN is "The maximum payload size
\* that fits a worst case frame with all extensions", and a frame is only "Limited
\* by Reed-Solomon message length".  So every frame that sky_tx makes of such a
\* payload can be coded, too.
WorstCaseFits == stage \notin {"discarded", "aborted", "uncodable"}

\* The radio spoiled no more than the codes correct, less one byte, because
\* sky_tx_with_golay spoils one itself.
Readable == sent # NoFrame /\ spoiled.bits =< 3 /\ spoiled.bytes < MaxCorrected

\* What was sent is what is received: the length, where the payload is, and every
\* extension at the place where it was written and no other.
ReceivedAsSent ==
  stage = "done" /\ Readable =>
    /\ ret = "OK" /\ frame = sent
    /\ frame.heads = [position \in Range(parsed) |->
         LET type == CHOOSE t \in DOMAIN parsed : parsed[t] = position
         IN  [type |-> type, length |-> SizeOf[type]]]

\* Whatever the modem takes for a frame, an extension that is handed on lies
\* within the frame, and so does what is handed on as payload; no two extensions
\* overlap.
ParsedInside ==
  stage \in {"parsing", "done"} =>
    /\ \A type \in DOMAIN parsed :
         /\ parsed[type] >= ExtensionStart(frame)
         /\ parsed[type] + 1 + SizeOf[type] =< frame.length
         /\ \A other \in DOMAIN parsed :
              parsed[type] < parsed[other] => parsed[type] + SizeOf[type] < parsed[other]
    /\ ret = "OK" => PayloadStart(frame) =< frame.length /\ frame.length + RS_PARITYS =< RawSize
===============================================================================
