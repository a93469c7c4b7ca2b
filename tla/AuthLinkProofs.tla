--------------------------- MODULE AuthLinkProofs ---------------------------
(***************************************************************************)
(* Two ends that check each other's numbers stay in step, and while they   *)
(* have their places take nothing twice, for every range of the numbers,   *)
(* every size of the jump, and any number of channels and restarts.        *)
(***************************************************************************)
EXTENDS AuthLink, TLAPS

\* Where a receiver stands in the numbers of its peer: behind by as many as were
\* sent since the newest it has accepted, unless it has lost its place.
NewsCounts ==
  \A n \in End, vc \in Checked :
    news[n][vc] < Astray =>
      HmacMinus(hmac[Peer(n)].sequence_tx[vc], hmac[n].sequence_rx[vc]) = news[n][vc]

\* Where a frame on the air stands: behind its sender's next number by its age,
\* unless the sender has lost count since.
AirCounts ==
  \A f \in air :
    /\ f.age <= Lifetime[f.identity]
    /\ f.current => HmacMinus(hmac[f.identity].sequence_tx[f.vc], f.sequence) = f.age + 1

Inv == TypeOK /\ NewsCounts /\ AirCounts

-----------------------------------------------------------------------------
(* Numbers, ends and their records. *)

\* What the assumptions say of the constants.
LEMMA Constants ==
  /\ HmacSeqCount \in Nat \ {0} /\ MaximumJump \in Nat /\ ResetLead \in Nat /\ MaxRestarts \in Nat
  /\ \A n \in End : Lifetime[n] \in Nat /\ Lifetime[n] + MaximumJump + 1 < HmacSeqCount
  /\ Checked \subseteq VC /\ Checked \subseteq RequireAuthentication
  /\ Checked \subseteq RequireSequence /\ Astray = HmacSeqCount
BY HmacAssumption, AuthLinkAssumption DEF Checked, Astray

\* There are two ends.
LEMMA Peers ==
  /\ \A n \in End : Peer(n) \in End /\ Peer(n) # n /\ Peer(Peer(n)) = n
  /\ \A n \in End, p \in End : p # n => p = Peer(n)
<1>1. PICK a, b : a # b /\ End = {a, b}
  BY AuthLinkAssumption
<1>2. Peer(a) = b /\ Peer(b) = a
  BY <1>1 DEF Peer
<1> QED BY <1>1, <1>2

\* Differences of numbers.
LEMMA Minus ==
  ASSUME NEW x \in HmacSequence, NEW y \in HmacSequence
  PROVE  /\ HmacMinus(x, y) = IF x >= y THEN x - y ELSE x - y + HmacSeqCount
         /\ HmacMinus(x, y) \in HmacSequence
<1> DEFINE d == x + HmacSeqCount - y
<1>1. d \in Nat /\ 0 < d /\ d < 2 * HmacSeqCount
      /\ x \in 0 .. HmacSeqCount - 1 /\ y \in 0 .. HmacSeqCount - 1
  BY Constants DEF HmacSequence
<1> HIDE DEF d
<1>2. d % HmacSeqCount = IF d < HmacSeqCount THEN d ELSE d - HmacSeqCount
  BY <1>1, Constants
<1> QED BY <1>1, <1>2, Constants DEF d, HmacMinus, HmacSequence

\* The next number.
LEMMA Successor ==
  ASSUME NEW x \in HmacSequence
  PROVE  /\ HmacWrap(x + 1) = IF x + 1 = HmacSeqCount THEN 0 ELSE x + 1
         /\ HmacWrap(x + 1) \in HmacSequence
<1> DEFINE s == x + 1
<1>1. s \in Nat /\ s <= HmacSeqCount /\ s > 0
  BY Constants DEF HmacSequence
<1> HIDE DEF s
<1>2. s % HmacSeqCount = IF s = HmacSeqCount THEN 0 ELSE s
  BY <1>1, Constants
<1> QED BY <1>1, <1>2, Constants DEF s, HmacWrap, HmacSequence

\* A difference grows by one when its first number does, up to the range.
LEMMA MinusSuccessor ==
  ASSUME NEW x \in HmacSequence, NEW y \in HmacSequence, HmacMinus(x, y) + 1 < HmacSeqCount
  PROVE  HmacMinus(HmacWrap(x + 1), y) = HmacMinus(x, y) + 1
<1> DEFINE s == HmacWrap(x + 1)
           d == HmacMinus(x, y)
<1>1. /\ s = (IF x + 1 = HmacSeqCount THEN 0 ELSE x + 1) /\ s \in HmacSequence
      /\ d = (IF x >= y THEN x - y ELSE x - y + HmacSeqCount) /\ d \in HmacSequence
      /\ d + 1 < HmacSeqCount
  BY Minus, Successor
<1> HIDE DEF s, d
<1>2. HmacMinus(s, y) = IF s >= y THEN s - y ELSE s - y + HmacSeqCount
  BY <1>1, Minus
<1>3. HmacMinus(s, y) = d + 1
  BY <1>1, <1>2, Constants DEF HmacSequence
<1> QED BY <1>3 DEF s, d

\* A frame that is more than d numbers behind is ahead of its successor's reader
\* by the rest of the range: reading the number after y from x is one less.
LEMMA MinusAfter ==
  ASSUME NEW x \in HmacSequence, NEW y \in HmacSequence, HmacMinus(x, y) > 0
  PROVE  HmacMinus(x, HmacWrap(y + 1)) = HmacMinus(x, y) - 1
<1> DEFINE s == HmacWrap(y + 1)
           d == HmacMinus(x, y)
<1>1. /\ s = (IF y + 1 = HmacSeqCount THEN 0 ELSE y + 1) /\ s \in HmacSequence
      /\ d = (IF x >= y THEN x - y ELSE x - y + HmacSeqCount) /\ d \in HmacSequence
      /\ d > 0
  BY Minus, Successor
<1> HIDE DEF s, d
<1>2. HmacMinus(x, s) = IF x >= s THEN x - s ELSE x - s + HmacSeqCount
  BY <1>1, Minus
<1>3. HmacMinus(x, s) = d - 1
  BY <1>1, <1>2, Constants DEF HmacSequence
<1> QED BY <1>3 DEF s, d

\* Two numbers as seen from a third: y is behind x by more than x is ahead of z,
\* so y is ahead of z by nearly the whole range.
LEMMA MinusBehind ==
  ASSUME NEW x \in HmacSequence, NEW y \in HmacSequence, NEW z \in HmacSequence,
         HmacMinus(x, z) < HmacMinus(x, y)
  PROVE  HmacMinus(y, z) = HmacMinus(x, z) - HmacMinus(x, y) + HmacSeqCount
<1> DEFINE d == HmacMinus(x, y)
           e == HmacMinus(x, z)
<1>1. /\ d = (IF x >= y THEN x - y ELSE x - y + HmacSeqCount) /\ d \in HmacSequence
      /\ e = (IF x >= z THEN x - z ELSE x - z + HmacSeqCount) /\ e \in HmacSequence
      /\ e < d
  BY Minus
<1> HIDE DEF d, e
<1>2. HmacMinus(y, z) = IF y >= z THEN y - z ELSE y - z + HmacSeqCount
  BY Minus
<1>3. HmacMinus(y, z) = e - d + HmacSeqCount
  BY <1>1, <1>2, Constants DEF HmacSequence
<1> QED BY <1>3 DEF d, e

\* The fields of an end's record.
LEMMA Fields ==
  ASSUME NEW h \in SkyHMAC
  PROVE  /\ h.sequence_tx \in [VC -> HmacSequence] /\ h.sequence_rx \in [VC -> HmacSequence]
         /\ h.vc_enforcement_need \in [VC -> BOOLEAN]
         /\ \A vc \in VC : h.sequence_tx[vc] \in HmacSequence /\ h.sequence_rx[vc] \in HmacSequence
BY DEF SkyHMAC

\* sky_hmac_get_next_tx_sequence counts the channel's numbers up.
LEMMA NextTx ==
  ASSUME NEW h \in SkyHMAC, NEW vc \in VC
  PROVE  /\ sky_hmac_get_next_tx_sequence(h, vc) \in SkyHMAC
         /\ sky_hmac_get_next_tx_sequence(h, vc).sequence_rx = h.sequence_rx
         /\ \A c \in VC : sky_hmac_get_next_tx_sequence(h, vc).sequence_tx[c] =
              IF c = vc THEN HmacWrap(h.sequence_tx[c] + 1) ELSE h.sequence_tx[c]
<1> DEFINE s == HmacWrap(h.sequence_tx[vc] + 1)
<1>1. s \in HmacSequence /\ h.sequence_tx \in [VC -> HmacSequence]
  BY Fields, Successor
<1>2. sky_hmac_get_next_tx_sequence(h, vc)
        = [h EXCEPT !.sequence_tx = [h.sequence_tx EXCEPT ![vc] = s]]
  BY <1>1 DEF sky_hmac_get_next_tx_sequence, SkyHMAC
<1> HIDE DEF s
<1>3. [h.sequence_tx EXCEPT ![vc] = s] \in [VC -> HmacSequence]
  BY <1>1
<1> QED BY <1>1, <1>2, <1>3 DEF s, SkyHMAC

\* What sky_hmac_check_authentication needs of a frame.
Checkable(frame) ==
  /\ frame.vc \in VC /\ frame.sequence \in HmacSequence
  /\ frame.hmac_reset \in {<<>>} \cup {<<ext>> : ext \in SequenceReset}

\* sky_hmac_check_authentication leaves the numbers to send alone, the sequence
\* reset extension included, whose length it never finds right; the number it
\* expects follows the number of an accepted frame.
LEMMA CheckAuthentication ==
  ASSUME NEW h \in SkyHMAC, NEW frame, Checkable(frame)
  PROVE  /\ sky_hmac_check_authentication(h, frame) \in SkyHMAC
         /\ sky_hmac_check_authentication(h, frame).sequence_tx = h.sequence_tx
         /\ \A c \in VC : sky_hmac_check_authentication(h, frame).sequence_rx[c] =
              IF c = frame.vc /\ c \in RequireAuthentication /\ Verdict(h, frame) = "OK"
              THEN HmacWrap(frame.sequence + 1) ELSE h.sequence_rx[c]
<1> DEFINE vc == frame.vc
           verdict == Verdict(h, frame)
           hash_ok == vc \in RequireAuthentication /\ verdict \in {"OK", "EXCESSIVE_HMAC_JUMP"}
           s == HmacWrap(frame.sequence + 1)
           after == sky_hmac_check_authentication(h, frame)
<1>1. /\ vc \in VC /\ s \in HmacSequence
      /\ h.sequence_tx \in [VC -> HmacSequence] /\ h.sequence_rx \in [VC -> HmacSequence]
      /\ h.vc_enforcement_need \in [VC -> BOOLEAN]
  BY Successor, Fields DEF Checkable
<1>2. frame.hmac_reset # <<>> =>
        sky_rx_process_ext_hmac_sequence_reset(h, frame.hmac_reset[1], vc) = h
  <2>1. SUFFICES ASSUME frame.hmac_reset # <<>>
                 PROVE  frame.hmac_reset[1].length # SizeOfSequenceReset + 1
    BY DEF sky_rx_process_ext_hmac_sequence_reset
  <2>2. PICK ext \in SequenceReset : frame.hmac_reset = <<ext>>
    BY <2>1 DEF Checkable
  <2>3. ext.length = 2 /\ frame.hmac_reset[1] = ext
    BY <2>2 DEF SequenceReset, SizeOfSequenceReset
  <2> QED BY <2>3 DEF SizeOfSequenceReset
<1>3. after = IF verdict \in {"AUTH_MISSING", "AUTH_FAILED", "EXCESSIVE_HMAC_JUMP"}
              THEN [h EXCEPT !.vc_enforcement_need[vc] = TRUE]
              ELSE IF hash_ok THEN [h EXCEPT !.sequence_rx[vc] = s] ELSE h
  BY <1>2, Zenon DEF sky_hmac_check_authentication, ExpectNext
<1> HIDE DEF after, verdict, s, vc
<1>4. CASE verdict \in {"AUTH_MISSING", "AUTH_FAILED", "EXCESSIVE_HMAC_JUMP"}
  <2>1. after = [h EXCEPT !.vc_enforcement_need = [h.vc_enforcement_need EXCEPT ![vc] = TRUE]]
    BY <1>3, <1>4 DEF SkyHMAC
  <2>2. [h.vc_enforcement_need EXCEPT ![vc] = TRUE] \in [VC -> BOOLEAN]
    BY <1>1, Zenon
  <2>3. after \in SkyHMAC /\ after.sequence_tx = h.sequence_tx /\ after.sequence_rx = h.sequence_rx
    BY <2>1, <2>2 DEF SkyHMAC
  <2> QED BY <1>4, <2>3 DEF after, verdict
<1>5. CASE verdict \notin {"AUTH_MISSING", "AUTH_FAILED", "EXCESSIVE_HMAC_JUMP"} /\ hash_ok
  <2>1. verdict = "OK" /\ vc \in RequireAuthentication
    BY <1>5
  <2>2. after = [h EXCEPT !.sequence_rx = [h.sequence_rx EXCEPT ![vc] = s]]
    BY <1>3, <1>5 DEF SkyHMAC
  <2>3. [h.sequence_rx EXCEPT ![vc] = s] \in [VC -> HmacSequence]
    BY <1>1
  <2>4. after \in SkyHMAC /\ after.sequence_tx = h.sequence_tx
        /\ after.sequence_rx = [h.sequence_rx EXCEPT ![vc] = s]
    BY <2>2, <2>3 DEF SkyHMAC
  <2> QED BY <1>1, <2>1, <2>4 DEF after, verdict, s, vc
<1>6. CASE verdict \notin {"AUTH_MISSING", "AUTH_FAILED", "EXCESSIVE_HMAC_JUMP"} /\ ~hash_ok
  <2>1. after = h
    BY <1>3, <1>6
  <2>2. ~(vc \in RequireAuthentication /\ verdict = "OK")
    BY <1>6
  <2> QED BY <2>1, <2>2 DEF after, verdict, vc
<1> QED BY <1>4, <1>5, <1>6

-----------------------------------------------------------------------------
(* The actions. *)

\* The facts of the state that the proofs of the actions start from.
LEMMA State ==
  ASSUME Inv
  PROVE  /\ hmac \in [End -> SkyHMAC] /\ air \subseteq Frame
         /\ restarts \in 0 .. MaxRestarts
         /\ stored \in [End -> [VC -> HmacSequence \X HmacSequence]]
         /\ news \in [End -> [Checked -> 0 .. Astray]]
         /\ \A n \in End, vc \in VC :
              hmac[n].sequence_tx[vc] \in HmacSequence /\ hmac[n].sequence_rx[vc] \in HmacSequence
         /\ \A n \in End, vc \in Checked : news[n][vc] \in Nat /\ news[n][vc] <= HmacSeqCount
         /\ \A f \in air : /\ f.identity \in End /\ f.vc \in VC /\ f.sequence \in HmacSequence
                           /\ f.age \in Nat /\ f.current \in BOOLEAN /\ Checkable(f)
<1>1. /\ hmac \in [End -> SkyHMAC] /\ air \subseteq Frame
      /\ restarts \in 0 .. MaxRestarts
      /\ stored \in [End -> [VC -> HmacSequence \X HmacSequence]]
      /\ news \in [End -> [Checked -> 0 .. Astray]]
  BY DEF Inv, TypeOK
<1>2. \A n \in End, vc \in VC :
        hmac[n].sequence_tx[vc] \in HmacSequence /\ hmac[n].sequence_rx[vc] \in HmacSequence
  BY <1>1, Fields
<1>3. \A n \in End, vc \in Checked : news[n][vc] \in Nat /\ news[n][vc] <= HmacSeqCount
  <2>1. \A n \in End, vc \in Checked : news[n][vc] \in 0 .. Astray
    BY <1>1
  <2> QED BY <2>1, Constants
<1>4. \A f \in air : /\ f.identity \in End /\ f.vc \in VC /\ f.sequence \in HmacSequence
                     /\ f.age \in Nat /\ f.current \in BOOLEAN /\ Checkable(f)
  BY <1>1 DEF Frame, Checkable
<1> QED BY <1>1, <1>2, <1>3, <1>4

\* sky_tx keeps the invariant.
LEMMA SkyTxInv ==
  ASSUME Inv, NEW n \in End, NEW vc \in VC, NEW has_payload \in BOOLEAN, SkyTx(n, vc, has_payload)
  PROVE  Inv'
<1> DEFINE frame == [
             identity           |-> n,
             vc                 |-> vc,
             sequence           |-> hmac[n].sequence_tx[vc],
             flag_authenticated |-> vc \in AuthenticateTx,
             genuine            |-> TRUE,
             has_payload        |-> has_payload,
             hmac_reset         |-> _sky_tx_extension_eval_hmac_reset(n, vc),
             age                |-> 0,
             current            |-> TRUE]
           others == {f \in air : f.identity # n \/ f.vc # vc}
           Older(f) == [f EXCEPT !.age = @ + 1]
           older == {Older(f) : f \in {g \in air \ others : g.age < Lifetime[n]}}
           h == sky_hmac_get_next_tx_sequence(hmac[n], vc)
<1>1. /\ air' = others \cup older \cup {frame}
      /\ hmac' = [hmac EXCEPT ![n] = h]
      /\ news' = [news EXCEPT ![Peer(n)] = [c \in Checked |->
                     IF c = vc /\ news[Peer(n)][c] < Astray
                     THEN news[Peer(n)][c] + 1 ELSE news[Peer(n)][c]]]
      /\ restarts' = restarts /\ stored' = stored
  BY State, Peers DEF SkyTx
<1>2. /\ h \in SkyHMAC /\ h.sequence_rx = hmac[n].sequence_rx
      /\ \A c \in VC : h.sequence_tx[c] = IF c = vc THEN HmacWrap(hmac[n].sequence_tx[c] + 1)
                                          ELSE hmac[n].sequence_tx[c]
  BY State, NextTx
<1> HIDE DEF h
<1>3. hmac' \in [End -> SkyHMAC] /\ \A e \in End : hmac'[e] = IF e = n THEN h ELSE hmac[e]
  BY <1>1, <1>2, State
<1>4. frame \in Frame
  <2>1. hmac[n].sequence_tx[vc] \in HmacSequence /\ hmac[n].sequence_rx[vc] \in HmacSequence
    BY State
  <2>2. HmacWrap(hmac[n].sequence_rx[vc] + ResetLead) \in HmacSequence
    <3>1. hmac[n].sequence_rx[vc] + ResetLead \in Nat
      BY <2>1, Constants DEF HmacSequence
    <3> QED BY <3>1, Constants DEF HmacWrap, HmacSequence
  <2>3. _sky_tx_extension_eval_hmac_reset(n, vc) \in {<<>>} \cup {<<ext>> : ext \in SequenceReset}
    <3>1. [length |-> SizeOfSequenceReset,
           sequence |-> HmacWrap(hmac[n].sequence_rx[vc] + ResetLead)] \in SequenceReset
      BY <2>2 DEF SequenceReset
    <3> QED BY <3>1, Zenon DEF _sky_tx_extension_eval_hmac_reset
  <2>4. (vc \in AuthenticateTx) \in BOOLEAN /\ TRUE \in BOOLEAN
    OBVIOUS
  <2> QED BY <2>1, <2>3, <2>4 DEF Frame
<1>5. ASSUME NEW f \in air \ others, f.age < Lifetime[n]
      PROVE  /\ Older(f) \in Frame /\ Older(f).identity = n /\ Older(f).vc = vc
             /\ Older(f).sequence = f.sequence /\ Older(f).age = f.age + 1
             /\ Older(f).current = f.current
             /\ f.identity = n /\ f.vc = vc
  <2>1. f \in Frame /\ f.age + 1 \in Nat /\ f.identity = n /\ f.vc = vc
    BY State
  <2> QED BY <2>1 DEF Frame
<1>6. \A g \in air' : \/ g \in air /\ (g.identity # n \/ g.vc # vc)
                      \/ \E f \in air \ others : f.age < Lifetime[n] /\ g = Older(f)
                      \/ g = frame
  BY <1>1
<1> HIDE DEF Older, others, older
<1>7. TypeOK'
  <2>1. air' \subseteq Frame
    BY <1>4, <1>5, <1>6, State
  <2>2. news' \in [End -> [Checked -> 0 .. Astray]]
    <3> DEFINE m == [c \in Checked |-> IF c = vc /\ news[Peer(n)][c] < Astray
                                       THEN news[Peer(n)][c] + 1 ELSE news[Peer(n)][c]]
    <3>1. \A c \in Checked : (IF c = vc /\ news[Peer(n)][c] < Astray
                              THEN news[Peer(n)][c] + 1 ELSE news[Peer(n)][c]) \in 0 .. Astray
      BY State, Peers, Constants
    <3>2. m \in [Checked -> 0 .. Astray]
      BY <3>1
    <3> HIDE DEF m
    <3> QED BY <1>1, <3>2, State DEF m
  <2> QED BY <1>1, <1>3, <2>1, <2>2, State DEF TypeOK
<1>8. NewsCounts'
  <2>1. SUFFICES ASSUME NEW e \in End, NEW c \in Checked, news'[e][c] < Astray
                 PROVE  HmacMinus(hmac'[Peer(e)].sequence_tx[c], hmac'[e].sequence_rx[c])
                          = news'[e][c]
    BY DEF NewsCounts
  <2>2. c \in VC /\ Peer(e) \in End /\ hmac'[e].sequence_rx = hmac[e].sequence_rx
    BY <1>2, <1>3, Constants, Peers
  <2>3. CASE e = Peer(n) /\ c = vc
    <3>1. Peer(e) = n /\ news'[e][c] = IF news[e][c] < Astray THEN news[e][c] + 1 ELSE news[e][c]
      BY <1>1, <2>3, State, Peers
    <3>2. news[e][c] \in Nat /\ news[e][c] + 1 < HmacSeqCount /\ news'[e][c] = news[e][c] + 1
      BY <2>1, <3>1, State, Constants
    <3>3. HmacMinus(hmac[n].sequence_tx[c], hmac[e].sequence_rx[c]) = news[e][c]
      BY <3>1, <3>2, Constants DEF Inv, NewsCounts
    <3>4. hmac[n].sequence_tx[c] \in HmacSequence /\ hmac[e].sequence_rx[c] \in HmacSequence
      BY <2>2, State
    <3>5. HmacMinus(HmacWrap(hmac[n].sequence_tx[c] + 1), hmac[e].sequence_rx[c]) = news[e][c] + 1
      BY <3>2, <3>3, <3>4, MinusSuccessor
    <3>6. hmac'[Peer(e)].sequence_tx[c] = HmacWrap(hmac[n].sequence_tx[c] + 1)
      BY <1>2, <1>3, <2>3, <3>1
    <3> QED BY <2>2, <3>2, <3>5, <3>6
  <2>4. CASE ~(e = Peer(n) /\ c = vc)
    <3>1. news'[e][c] = news[e][c]
      BY <1>1, <2>4, State, Peers
    <3>2. hmac'[Peer(e)].sequence_tx[c] = hmac[Peer(e)].sequence_tx[c]
      BY <1>2, <1>3, <2>2, <2>4, Peers
    <3> QED BY <2>1, <2>2, <3>1, <3>2 DEF Inv, NewsCounts
  <2> QED BY <2>3, <2>4
<1>9. AirCounts'
  <2>1. SUFFICES ASSUME NEW g \in air'
                 PROVE  /\ g.age <= Lifetime[g.identity]
                        /\ g.current => HmacMinus(hmac'[g.identity].sequence_tx[g.vc], g.sequence)
                                          = g.age + 1
    BY DEF AirCounts
  <2>2. CASE g \in air /\ (g.identity # n \/ g.vc # vc)
    <3>1. hmac'[g.identity].sequence_tx[g.vc] = hmac[g.identity].sequence_tx[g.vc]
      BY <1>2, <1>3, <2>2, State
    <3> QED BY <2>2, <3>1 DEF Inv, AirCounts
  <2>3. CASE \E f \in air \ others : f.age < Lifetime[n] /\ g = Older(f)
    <3>1. PICK f \in air \ others : f.age < Lifetime[n] /\ g = Older(f)
      BY <2>3
    <3>2. /\ g.identity = n /\ g.vc = vc /\ g.sequence = f.sequence /\ g.age = f.age + 1
          /\ g.current = f.current
          /\ f.identity = n /\ f.vc = vc /\ f \in air
      BY <1>5, <3>1
    <3>3. f.current => HmacMinus(hmac[n].sequence_tx[vc], f.sequence) = f.age + 1
      BY <3>2 DEF Inv, AirCounts
    <3>4. hmac'[n].sequence_tx[vc] = HmacWrap(hmac[n].sequence_tx[vc] + 1)
      BY <1>2, <1>3
    <3>5. /\ f.age \in Nat /\ Lifetime[n] \in Nat /\ f.age + 1 + 1 < HmacSeqCount
          /\ f.sequence \in HmacSequence /\ hmac[n].sequence_tx[vc] \in HmacSequence
      BY <3>1, <3>2, State, Constants
    <3>6. f.current => HmacMinus(HmacWrap(hmac[n].sequence_tx[vc] + 1), f.sequence) = f.age + 1 + 1
      BY <3>3, <3>5, MinusSuccessor
    <3> QED BY <3>1, <3>2, <3>4, <3>5, <3>6
  <2>4. CASE g = frame
    <3>1. g.identity = n /\ g.vc = vc /\ g.age = 0 /\ g.sequence = hmac[n].sequence_tx[vc]
      BY <2>4
    <3> HIDE DEF frame
    <3>2. hmac'[n].sequence_tx[vc] = HmacWrap(hmac[n].sequence_tx[vc] + 1)
          /\ hmac[n].sequence_tx[vc] \in HmacSequence
      BY <1>2, <1>3, State
    <3>3. HmacMinus(hmac[n].sequence_tx[vc], hmac[n].sequence_tx[vc]) = 0
          /\ 0 + 1 < HmacSeqCount /\ Lifetime[n] \in Nat
      BY <3>2, Minus, Constants DEF HmacSequence
    <3>4. HmacMinus(HmacWrap(hmac[n].sequence_tx[vc] + 1), hmac[n].sequence_tx[vc]) = 0 + 1
      BY <3>2, <3>3, MinusSuccessor
    <3> QED BY <3>1, <3>2, <3>3, <3>4
  <2> QED BY <1>6, <2>2, <2>3, <2>4
<1> QED BY <1>7, <1>8, <1>9 DEF Inv

\* sky_rx keeps the invariant, when what an accepted frame of a checked channel
\* leaves to expect agrees with the frames sent since.
LEMMA SkyRxInv ==
  ASSUME Inv, NEW n \in End, NEW frame, SkyRx(n, frame), Checkable(frame),
         Counted(n, frame) =>
           /\ frame.current \in BOOLEAN /\ frame.age \in Nat /\ frame.age < HmacSeqCount
           /\ frame.current => HmacMinus(hmac[Peer(n)].sequence_tx[frame.vc], frame.sequence) = frame.age + 1
  PROVE  Inv'
<1> DEFINE h == IF filter_by_identity(n, frame) THEN hmac[n]
                ELSE sky_hmac_check_authentication(hmac[n], frame)
           taken == Accepts(n, frame) /\ frame.vc \in RequireAuthentication
           place == IF frame.current THEN frame.age ELSE Astray
<1>1. /\ hmac' = [hmac EXCEPT ![n] = h] /\ air' = air /\ restarts' = restarts
      /\ stored' = stored
      /\ news' = IF Counted(n, frame) THEN [news EXCEPT ![n][frame.vc] = place] ELSE news
  BY State DEF SkyRx
<1>2. /\ h \in SkyHMAC /\ h.sequence_tx = hmac[n].sequence_tx
      /\ \A c \in VC : h.sequence_rx[c] =
           IF c = frame.vc /\ taken THEN HmacWrap(frame.sequence + 1) ELSE hmac[n].sequence_rx[c]
  <2>1. CASE filter_by_identity(n, frame)
    <3>1. h = hmac[n] /\ ~taken
      BY <2>1 DEF Accepts
    <3> QED BY <3>1, State
  <2>2. CASE ~filter_by_identity(n, frame)
    <3>1. h = sky_hmac_check_authentication(hmac[n], frame)
          /\ (Accepts(n, frame) <=> Verdict(hmac[n], frame) = "OK")
      BY <2>2 DEF Accepts
    <3>2. hmac[n] \in SkyHMAC
      BY State
    <3> HIDE DEF h
    <3> QED BY <3>1, <3>2, CheckAuthentication
  <2> QED BY <2>1, <2>2
<1> HIDE DEF h
<1>3. hmac' \in [End -> SkyHMAC] /\ \A e \in End : hmac'[e] = IF e = n THEN h ELSE hmac[e]
  BY <1>1, <1>2, State
<1>4. \A e \in End : hmac'[e].sequence_tx = hmac[e].sequence_tx
  BY <1>2, <1>3
<1>5. Counted(n, frame) <=> taken /\ frame.vc \in Checked
  BY Constants DEF Counted
<1> HIDE DEF taken
<1>6. \A e \in End, c \in Checked :
        news'[e][c] = IF Counted(n, frame) /\ e = n /\ c = frame.vc THEN place ELSE news[e][c]
  BY <1>1, State
<1>7. TypeOK'
  <2>1. news' \in [End -> [Checked -> 0 .. Astray]]
    <3>1. CASE ~Counted(n, frame)
      BY <1>1, <3>1, State
    <3>2. CASE Counted(n, frame)
      <4>1. place \in 0 .. Astray
        BY <3>2, Constants
      <4> HIDE DEF place
      <4> QED BY <1>1, <3>2, <4>1, State
    <3> QED BY <3>1, <3>2
  <2> QED BY <1>1, <1>3, <2>1, State DEF TypeOK
<1>8. NewsCounts'
  <2>1. SUFFICES ASSUME NEW e \in End, NEW c \in Checked, news'[e][c] < Astray
                 PROVE  HmacMinus(hmac'[Peer(e)].sequence_tx[c], hmac'[e].sequence_rx[c])
                          = news'[e][c]
    BY DEF NewsCounts
  <2>2. c \in VC /\ Peer(e) \in End
        /\ hmac'[Peer(e)].sequence_tx[c] = hmac[Peer(e)].sequence_tx[c]
    BY <1>4, Constants, Peers
  <2>3. CASE Counted(n, frame) /\ e = n /\ c = frame.vc
    <3>1. hmac'[e].sequence_rx[c] = HmacWrap(frame.sequence + 1) /\ news'[e][c] = frame.age
          /\ frame.current
      <4>1. hmac'[e].sequence_rx[c] = HmacWrap(frame.sequence + 1) /\ news'[e][c] = place
        BY <1>2, <1>3, <1>5, <1>6, <2>2, <2>3
      <4>2. place < Astray
        BY <2>1, <4>1
      <4>3. frame.current
        BY <4>2, Constants
      <4> QED BY <4>1, <4>3
    <3>2. /\ HmacMinus(hmac[Peer(e)].sequence_tx[c], frame.sequence) = frame.age + 1
          /\ frame.age \in Nat /\ frame.age + 1 > 0 /\ frame.age + 1 - 1 = frame.age
          /\ frame.sequence \in HmacSequence /\ hmac[Peer(e)].sequence_tx[c] \in HmacSequence
      BY <2>2, <2>3, <3>1, State DEF Checkable
    <3>3. HmacMinus(hmac[Peer(e)].sequence_tx[c], HmacWrap(frame.sequence + 1)) = frame.age
      BY <3>2, MinusAfter
    <3> QED BY <2>2, <3>1, <3>3
  <2>4. CASE ~(Counted(n, frame) /\ e = n /\ c = frame.vc)
    <3>1. news'[e][c] = news[e][c] /\ hmac'[e].sequence_rx[c] = hmac[e].sequence_rx[c]
      BY <1>2, <1>3, <1>5, <1>6, <2>2, <2>4
    <3> QED BY <2>1, <2>2, <3>1 DEF Inv, NewsCounts
  <2> QED BY <2>3, <2>4
<1>9. AirCounts'
  BY <1>1, <1>4, State DEF Inv, AirCounts
<1> QED BY <1>7, <1>8, <1>9 DEF Inv

\* A frame on the air that an end takes into account is its peer's, and if it is
\* current its number is where its age says; an end that has its place then finds it
\* younger than the newest it has taken.
LEMMA CountedIsNewer ==
  ASSUME Inv, NEW n \in End, NEW frame \in air, Counted(n, frame)
  PROVE  /\ frame.identity = Peer(n)
         /\ frame.current /\ news[n][frame.vc] # Astray => frame.age < news[n][frame.vc]
         /\ frame.current \in BOOLEAN /\ frame.age \in Nat /\ frame.age < HmacSeqCount
         /\ frame.current =>
              HmacMinus(hmac[Peer(n)].sequence_tx[frame.vc], frame.sequence) = frame.age + 1
<1> DEFINE vc == frame.vc
           x == hmac[Peer(n)].sequence_tx[vc]
           y == frame.sequence
           z == hmac[n].sequence_rx[vc]
           age == frame.age
<1>1. frame.identity = Peer(n) /\ vc \in Checked /\ vc \in VC
  BY State, Peers DEF Counted, Accepts, filter_by_identity
<1>2. HmacMinus(y, z) <= MaximumJump
  <2>1. Verdict(hmac[n], frame) = "OK" /\ vc \in RequireAuthentication /\ vc \in RequireSequence
    BY <1>1, Constants DEF Counted, Accepts
  <2>2. ~JumpTooLarge(hmac[n], vc, y)
    BY <2>1 DEF Verdict
  <2>3. y \in HmacSequence /\ z \in HmacSequence
    BY <1>1, State
  <2>4. HmacMinus(y, z) \in Nat
    <3>1. HmacMinus(y, z) \in HmacSequence
      BY <2>3, Minus
    <3> QED BY <3>1 DEF HmacSequence
  <2> QED BY <2>2, <2>4, Constants DEF JumpTooLarge
<1>3. /\ x \in HmacSequence /\ y \in HmacSequence /\ z \in HmacSequence
      /\ age \in Nat /\ news[n][vc] \in Nat /\ news[n][vc] <= HmacSeqCount
  BY <1>1, State, Peers
<1>4. (frame.current => HmacMinus(x, y) = age + 1) /\ age <= Lifetime[Peer(n)]
  BY <1>1 DEF Inv, AirCounts
<1>5. Lifetime[Peer(n)] \in Nat /\ Lifetime[Peer(n)] + MaximumJump + 1 < HmacSeqCount
  BY Constants, Peers
<1>6. age < HmacSeqCount
  BY <1>3, <1>4, <1>5, Constants
<1>7. ASSUME frame.current, news[n][vc] # Astray PROVE age < news[n][vc]
  <2>2. news[n][vc] # HmacSeqCount
    BY <1>7, Constants
  <2>3. age < news[n][vc]
    <3>1. HmacMinus(x, z) = news[n][vc]
      BY <1>1, <1>3, <2>2, Constants DEF Inv, NewsCounts
    <3>2. SUFFICES ASSUME ~(age < news[n][vc]) PROVE FALSE
      OBVIOUS
    <3>3. HmacMinus(x, z) < HmacMinus(x, y)
      BY <1>3, <1>4, <1>7, <3>1, <3>2
    <3>4. HmacMinus(y, z) = news[n][vc] - (age + 1) + HmacSeqCount
      BY <1>3, <1>4, <1>7, <3>1, <3>3, MinusBehind
    <3> HIDE DEF vc, age
    <3> QED BY <1>2, <1>3, <1>4, <1>5, <3>2, <3>4, Constants
  <2> QED BY <2>3
<1>8. frame.current \in BOOLEAN
  BY State
<1> QED BY <1>1, <1>3, <1>4, <1>6, <1>7, <1>8

\* Receiving a frame from the air keeps the invariant.
LEMMA ReceiveInv ==
  ASSUME Inv, NEW n \in End, Receive(n)
  PROVE  Inv'
<1>1. PICK frame \in air : SkyRx(n, frame)
  BY DEF Receive
<1>2. Checkable(frame)
  BY State
<1> QED BY <1>1, <1>2, CountedIsNewer, SkyRxInv

\* The frame of a station without the key keeps the invariant.
LEMMA OverhearInv ==
  ASSUME Inv, NEW n \in End, Overhear(n)
  PROVE  Inv'
<1>1. PICK vc \in VC, hash \in BOOLEAN :
        SkyRx(n, [identity |-> "other", vc |-> vc, sequence |-> 0, flag_authenticated |-> hash,
                  genuine |-> FALSE, has_payload |-> TRUE, hmac_reset |-> <<>>, age |-> 0,
                  current |-> TRUE])
  BY DEF Overhear
<1> DEFINE frame == [identity |-> "other", vc |-> vc, sequence |-> 0, flag_authenticated |-> hash,
                     genuine |-> FALSE, has_payload |-> TRUE, hmac_reset |-> <<>>, age |-> 0,
                     current |-> TRUE]
<1>2. frame.vc = vc /\ frame.sequence = 0 /\ ~frame.genuine /\ frame.hmac_reset = <<>>
      /\ HasHash(frame) = hash
  BY DEF HasHash
<1>3. SkyRx(n, frame)
  BY <1>1
<1> HIDE DEF frame
<1>4. Checkable(frame)
  BY <1>2, Constants DEF Checkable, HmacSequence
<1>5. ~Counted(n, frame)
  <2>1. SUFFICES ASSUME frame.vc \in RequireAuthentication PROVE Verdict(hmac[n], frame) # "OK"
    BY Constants DEF Counted, Accepts
  <2> QED BY <1>2, <2>1 DEF Verdict
<1> QED BY <1>3, <1>4, <1>5, SkyRxInv

\* Dumping the numbers changes nothing else.
LEMMA StoreInv ==
  ASSUME Inv, NEW n \in End, Store(n)
  PROVE  Inv'
<1>1. /\ stored' = [stored EXCEPT ![n] = sky_hmac_dump_sequences(hmac[n])]
      /\ hmac' = hmac /\ air' = air /\ restarts' = restarts /\ news' = news
  BY DEF Store
<1>2. sky_hmac_dump_sequences(hmac[n]) \in [VC -> HmacSequence \X HmacSequence]
  BY State DEF sky_hmac_dump_sequences
<1>3. stored' \in [End -> [VC -> HmacSequence \X HmacSequence]]
  BY <1>1, <1>2, State
<1>4. TypeOK'
  BY <1>1, <1>3, State DEF TypeOK
<1> QED BY <1>1, <1>4 DEF Inv, NewsCounts, AirCounts

\* On the channels whose stored numbers are the ones it had, an end that starts
\* again is where it was; on the others the books say that places are lost.
LEMMA RestartInv ==
  ASSUME Inv, NEW n \in End, Restart(n)
  PROVE  Inv'
<1> DEFINE h == sky_hmac_load_sequences(sky_hmac_create, stored[n])
           Marked(f) == [f EXCEPT !.current = f.current /\ ~(f.identity = n /\ f.vc \in OutdatedTx(n))]
<1>1. /\ restarts < MaxRestarts /\ restarts' = restarts + 1 /\ stored' = stored
      /\ hmac' = [hmac EXCEPT ![n] = h]
      /\ air' = {Marked(f) : f \in air}
      /\ news' = [e \in End |-> [vc \in Checked |->
           IF vc \in (IF e = n THEN OutdatedRx(n) ELSE OutdatedTx(n)) THEN Astray ELSE news[e][vc]]]
  BY State DEF Restart
<1>2. sky_hmac_create \in SkyHMAC
  <2>1. 0 \in HmacSequence
    BY Constants DEF HmacSequence
  <2> QED BY <2>1 DEF sky_hmac_create, SkyHMAC
<1>3. /\ h \in SkyHMAC
      /\ \A vc \in VC : h.sequence_tx[vc] = stored[n][vc][1] /\ h.sequence_rx[vc] = stored[n][vc][2]
  <2> DEFINE tx == [vc \in VC |-> stored[n][vc][1]]
             rx == [vc \in VC |-> stored[n][vc][2]]
  <2>1. h = [sky_hmac_create EXCEPT !.sequence_tx = tx, !.sequence_rx = rx]
    BY DEF sky_hmac_load_sequences
  <2>2. tx \in [VC -> HmacSequence] /\ rx \in [VC -> HmacSequence]
    BY State
  <2>3. \A vc \in VC : tx[vc] = stored[n][vc][1] /\ rx[vc] = stored[n][vc][2]
    OBVIOUS
  <2> HIDE DEF h, tx, rx
  <2>4. h \in SkyHMAC /\ h.sequence_tx = tx /\ h.sequence_rx = rx
    BY <1>2, <2>1, <2>2 DEF SkyHMAC
  <2> QED BY <2>3, <2>4
<1> HIDE DEF h
<1>4. /\ hmac' \in [End -> SkyHMAC] /\ \A e \in End : hmac'[e] = IF e = n THEN h ELSE hmac[e]
  BY <1>1, <1>3, State
<1>5. \A vc \in VC : /\ vc \notin OutdatedTx(n) => h.sequence_tx[vc] = hmac[n].sequence_tx[vc]
                     /\ vc \notin OutdatedRx(n) => h.sequence_rx[vc] = hmac[n].sequence_rx[vc]
  BY <1>3 DEF OutdatedTx, OutdatedRx
<1>6. ASSUME NEW f \in air
      PROVE  /\ Marked(f) \in Frame /\ Marked(f).identity = f.identity /\ Marked(f).vc = f.vc
             /\ Marked(f).sequence = f.sequence /\ Marked(f).age = f.age
             /\ Marked(f).current => f.current /\ ~(f.identity = n /\ f.vc \in OutdatedTx(n))
  <2> DEFINE b == f.current /\ ~(f.identity = n /\ f.vc \in OutdatedTx(n))
  <2>1. f \in Frame /\ b \in BOOLEAN /\ (b => f.current /\ ~(f.identity = n /\ f.vc \in OutdatedTx(n)))
    BY State
  <2>2. Marked(f) = [f EXCEPT !.current = b]
    OBVIOUS
  <2> HIDE DEF b, Marked
  <2>3. /\ Marked(f) \in Frame /\ Marked(f).identity = f.identity /\ Marked(f).vc = f.vc
        /\ Marked(f).sequence = f.sequence /\ Marked(f).age = f.age /\ Marked(f).current = b
    BY <2>1, <2>2 DEF Frame
  <2> QED BY <2>1, <2>3
<1> HIDE DEF Marked
<1>7. \A e \in End, c \in Checked :
        news'[e][c] = IF c \in (IF e = n THEN OutdatedRx(n) ELSE OutdatedTx(n))
                      THEN Astray ELSE news[e][c]
  BY <1>1
<1>8. TypeOK'
  <2>1. restarts' \in 0 .. MaxRestarts
    BY <1>1, State, Constants
  <2>2. air' \subseteq Frame
    BY <1>1, <1>6
  <2>3. news' \in [End -> [Checked -> 0 .. Astray]]
    <3>1. Astray \in 0 .. Astray
      BY Constants
    <3> QED BY <1>1, <3>1, State
  <2> QED BY <1>1, <1>4, <2>1, <2>2, <2>3, State DEF TypeOK
<1>9. NewsCounts'
  <2>1. SUFFICES ASSUME NEW e \in End, NEW c \in Checked, news'[e][c] < Astray
                 PROVE  HmacMinus(hmac'[Peer(e)].sequence_tx[c], hmac'[e].sequence_rx[c])
                          = news'[e][c]
    BY DEF NewsCounts
  <2>2. /\ c \notin (IF e = n THEN OutdatedRx(n) ELSE OutdatedTx(n))
        /\ news'[e][c] = news[e][c]
    BY <1>7, <2>1, Constants
  <2>3. c \in VC /\ Peer(e) \in End /\ Peer(e) # e /\ (e # n => Peer(e) = n)
    BY Constants, Peers
  <2>4. hmac'[Peer(e)].sequence_tx[c] = hmac[Peer(e)].sequence_tx[c]
        /\ hmac'[e].sequence_rx[c] = hmac[e].sequence_rx[c]
    BY <1>4, <1>5, <2>2, <2>3
  <2> QED BY <2>1, <2>2, <2>4 DEF Inv, NewsCounts
<1>10. AirCounts'
  <2>1. SUFFICES ASSUME NEW f \in air
                 PROVE  /\ Marked(f).age <= Lifetime[Marked(f).identity]
                        /\ Marked(f).current =>
                             HmacMinus(hmac'[Marked(f).identity].sequence_tx[Marked(f).vc],
                                       Marked(f).sequence) = Marked(f).age + 1
    BY <1>1 DEF AirCounts
  <2>2. f.identity \in End /\ f.vc \in VC
    BY State
  <2>3. Marked(f).current => hmac'[f.identity].sequence_tx[f.vc] = hmac[f.identity].sequence_tx[f.vc]
    BY <1>4, <1>5, <1>6, <2>2
  <2> QED BY <1>6, <2>3 DEF Inv, AirCounts
<1> QED BY <1>8, <1>9, <1>10 DEF Inv

\* Ends that were just created are in step.
LEMMA InitInv == Init => Inv
<1>1. SUFFICES ASSUME Init PROVE Inv
  OBVIOUS
<1>2. 0 \in HmacSequence /\ 0 \in 0 .. Astray /\ 0 \in 0 .. MaxRestarts
  BY Constants DEF HmacSequence
<1>3. sky_hmac_create \in SkyHMAC
  BY <1>2 DEF sky_hmac_create, SkyHMAC
<1>4. TypeOK
  <2>1. sky_hmac_dump_sequences(sky_hmac_create) \in [VC -> HmacSequence \X HmacSequence]
    BY <1>2 DEF sky_hmac_dump_sequences, sky_hmac_create
  <2> QED BY <1>1, <1>2, <1>3, <2>1 DEF Init, TypeOK
<1>5. NewsCounts
  <2>1. HmacMinus(0, 0) = 0
    BY <1>2, Minus
  <2> QED BY <1>1, <2>1, Peers, Constants DEF Init, NewsCounts, sky_hmac_create
<1>6. AirCounts
  BY <1>1 DEF Init, AirCounts
<1> QED BY <1>4, <1>5, <1>6 DEF Inv

\* Every step keeps the invariant.
LEMMA NextInv == Inv /\ [Next]_vars => Inv'
<1>1. SUFFICES ASSUME Inv, [Next]_vars PROVE Inv'
  OBVIOUS
<1>2. CASE UNCHANGED vars
  BY <1>1, <1>2 DEF vars, Inv, TypeOK, NewsCounts, AirCounts
<1>3. ASSUME NEW n \in End, NEW vc \in VC, NEW has_payload \in Payloads[n],
             SkyTx(n, vc, has_payload)
      PROVE  Inv'
  <2>1. has_payload \in BOOLEAN
    BY AuthLinkAssumption
  <2> QED BY <1>1, <1>3, <2>1, SkyTxInv
<1>4. ASSUME NEW n \in End, Receive(n) PROVE Inv'
  BY <1>1, <1>4, ReceiveInv
<1>5. ASSUME NEW n \in End, Overhear(n) PROVE Inv'
  BY <1>1, <1>5, OverhearInv
<1>6. ASSUME NEW n \in End, Restart(n) PROVE Inv'
  BY <1>1, <1>6, RestartInv
<1>7. ASSUME NEW n \in End, Store(n) PROVE Inv'
  BY <1>1, <1>7, StoreInv
<1> QED BY <1>1, <1>2, <1>3, <1>4, <1>5, <1>6, <1>7 DEF Next

\* The inductive invariant holds of every behaviour.
LEMMA Invariance == Spec => []Inv
BY InitInv, NextInv, PTL DEF Spec

-----------------------------------------------------------------------------
(* What it means for the code. *)

\* The numbers of both ends stay within 16 bits, and every frame is well formed.
THEOREM TypeCorrect == Spec => []TypeOK
<1>1. Inv => TypeOK
  BY DEF Inv
<1> QED BY <1>1, Invariance, PTL

\* An end that has missed no more than maximum_jump frames in a row does not refuse
\* the next one for its number, across the wrap, and again after a restart once it
\* has taken a current frame.
THEOREM InStepCorrect == Spec => []InStep
<1>1. Inv => InStep
  <2>1. SUFFICES ASSUME Inv, NEW n \in End, NEW vc \in Checked, news[n][vc] <= MaximumJump
                 PROVE  ~JumpTooLarge(hmac[n], vc, hmac[Peer(n)].sequence_tx[vc])
    BY DEF InStep
  <2>2. MaximumJump < HmacSeqCount
    BY Constants
  <2>3. news[n][vc] \in Nat /\ news[n][vc] < Astray
    BY <2>1, <2>2, State, Constants
  <2>4. HmacMinus(hmac[Peer(n)].sequence_tx[vc], hmac[n].sequence_rx[vc]) = news[n][vc]
    BY <2>1, <2>3 DEF Inv, NewsCounts
  <2> QED BY <2>1, <2>3, <2>4, Constants DEF JumpTooLarge
<1> QED BY <1>1, Invariance, PTL

\* While an end has its place it takes a current frame of its peer only if that is
\* newer than the newest it has taken, although frames are repeated and reordered
\* and numbers wrap; and it never takes its own.
THEOREM OnlyNewerCorrect == Spec => []OnlyNewer
<1>1. Inv => OnlyNewer
  BY CountedIsNewer DEF OnlyNewer
<1> QED BY <1>1, Invariance, PTL
=============================================================================
