---------------------------- MODULE MCRadioFrame ----------------------------
(* Frames of boundary lengths, with the real sizes. *)
EXTENDS RadioFrame

\* 0 to 4 bits of the header turned.
MCHeaderErrors == {{}, {0}, {5, 12, 23}, {0, 1, 2, 3}}

\* Sets of up to so many bits of a word.
Bits == 0 .. 2 * N - 1
UpTo3 == {{}} \cup {{a, b, c} : a, b, c \in Bits}
UpTo4 == {{a, b, c, d} : a, b, c, d \in Bits}

\* The decoder of golay24.c against the reference "the code word next to it": up
\* to three wrong bits of a coded length are put right, four are noticed.  The
\* lengths are those of Noise, whose words arrive unspoiled.
GolayCorrects ==
  stage = "arrived" /\ sent = NoFrame =>
    /\ ValueOf(header) % 256 \in NoiseLens
    /\ \A e \in UpTo3 : decode_golay24(SymDiff(header, e)) = <<header>>
    /\ \A e \in UpTo4 \ UpTo3 : decode_golay24(SymDiff(header, e)) = <<>>
=============================================================================
