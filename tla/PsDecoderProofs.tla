----------------------------- MODULE PsDecoderProofs -----------------------------
(***************************************************************************)
(* Proofs about an utterance in pocketsphinx, for any sizes of the window, *)
(* of the frames and of the buffers, and for any number of frames, calls   *)
(* and utterances: every score comes from the window of cepstra around the *)
(* frame it was asked for, the searches see the frames in order, and a     *)
(* second pass sees what the first saw.                                    *)
(*                                                                         *)
(* The argument goes from the inside out.  The live buffer of the features *)
(* holds the last cepstra of the utterance, so that what comes out of it   *)
(* next is the feature of the next frame; acmod puts it into the slot of   *)
(* that frame, in a buffer that goes around or grows; a search that asks   *)
(* for a frame that is still there finds it.                               *)
(*                                                                         *)
(* A cepstrum and a feature are any values: the sequences here are over    *)
(* their own members.  The operation % is kept closed behind Rem and used  *)
(* through the lemmas below, a loop is opened by the lemma that its rounds *)
(* follow each other.                                                      *)
(***************************************************************************)
EXTENDS PsDecoder, FiniteSetTheorems, SequenceTheorems, TLAPS

-----------------------------------------------------------------------------
(* Remainders, and what the live buffer of the features holds. *)

(* The operation %, kept closed. *)
Rem(a, m) == a % m

(* A number, or nothing when it is negative. *)
Positive(n) == IF n < 0 THEN 0 ELSE n

(* A cepstrum by its number, the first and last repeated: BlockFeature is  *)
(* made of these.                                                          *)
At(cs, k) == cs[IF k < 1 THEN 1 ELSE IF k > Len(cs) THEN Len(cs) ELSE k]

(* What the live buffer holds so far behind (d < 0) its position.          *)
Rel(fcb, d) == fcb.cepbuf[(fcb.bufpos + d) % BlockSize]

(* The live buffer has its fields, and its positions are in it. *)
FcbOK(fcb) ==
  /\ fcb = [cepbuf |-> fcb.cepbuf, bufpos |-> fcb.bufpos, curpos |-> fcb.curpos]
  /\ fcb.cepbuf = [p \in 0 .. BlockSize - 1 |-> fcb.cepbuf[p]]
  /\ fcb.bufpos \in 0 .. BlockSize - 1 /\ fcb.curpos \in 0 .. BlockSize - 1

(* The live buffer holds the end of the cepstra, back to what the next     *)
(* feature needs; before the first of them copies of it, if the first call *)
(* gave one.                                                               *)
HoldsLast(fcb, cs, st) ==
  /\ st \in {"given", "empty"} /\ (st = "given" => cs # <<>>)
  /\ (fcb.bufpos - fcb.curpos) % BlockSize = NoMoreThan(Len(cs), Win)
  /\ \A d \in -(2 * Win) .. -1 :
        (st = "given" => Len(cs) + d >= -Win) /\ (st = "empty" => Len(cs) + d >= 0)
          => Rel(fcb, d) = At(cs, Len(cs) + 1 + d)

(* A feature is that of a frame of these cepstra; no one knows what the    *)
(* first ones are made of when the first call gave nothing.                *)
Fits(x, cs, st, f) == (st = "empty" /\ f < Win) \/ x = BlockFeature(cs, f + 1)
(* Numbers. *)

(* A number between 0 and the modulus is the remainder of what differs     *)
(* from it by a multiple.                                                  *)
LEMMA RemUnique ==
  ASSUME NEW m \in Nat \ {0}, NEW r \in 0 .. m - 1, NEW a, \E q \in Int : a = m * q + r
  PROVE  Rem(a, m) = r
  BY DEF Rem

(* A number below the modulus is its own remainder. *)
LEMMA RemSmall ==
  ASSUME NEW m \in Nat \ {0}, NEW r \in 0 .. m - 1
  PROVE  Rem(r, m) = r
  BY DEF Rem

(* A remainder is below the modulus. *)
LEMMA RemRange ==
  ASSUME NEW m \in Nat \ {0}, NEW a \in Int
  PROVE  Rem(a, m) \in 0 .. m - 1 
  BY DEF Rem

(* What a number differs by from its remainder is a multiple. *)
LEMMA RemDivides ==
  ASSUME NEW m \in Nat \ {0}, NEW a \in Int
  PROVE  \E q \in Int : a = m * q + Rem(a, m)
  <1>1. a \div m \in Int
    OBVIOUS
  <1>2. a = m * (a \div m) + Rem(a, m)
    BY DEF Rem
  <1>3. QED
    BY <1>1, <1>2

(* Numbers with the same remainder keep it when both grow as much. *)
LEMMA RemShift ==
  ASSUME NEW m \in Nat \ {0}, NEW a \in Int, NEW b \in Int, NEW x \in Int, NEW y \in Int,
         Rem(a, m) = Rem(b, m), x - a = y - b
  PROVE  Rem(x, m) = Rem(y, m)
  <1> DEFINE r == Rem(a, m)
             t == Rem(x, m)
  <1>1. PICK q \in Int : a = m * q + r
    BY RemDivides
  <1>2. PICK p \in Int : b = m * p + r
    BY RemDivides
  <1>3. PICK k \in Int : x = m * k + t
    BY RemDivides
  <1>4. r \in Int /\ t \in 0 .. m - 1
    BY RemRange
  <1> HIDE DEF r, t
  <1>5. PICK g \in Int : g = k + p - q
    OBVIOUS
  <1>6. y = m * g + t
    <2>1. m * g = m * k + m * p - m * q /\ m * k \in Int /\ m * p \in Int /\ m * q \in Int
      BY <1>5
    <2>2. QED
      BY <2>1, <1>1, <1>2, <1>3, <1>4
  <1>7. Rem(y, m) = t
    BY ZenonT(40), <1>4, <1>6, RemUnique
  <1>8. QED
    BY <1>7 DEF t

(* A remainder is its own remainder. *)
LEMMA RemTwice ==
  ASSUME NEW m \in Nat \ {0}, NEW a \in Int
  PROVE  Rem(Rem(a, m), m) = Rem(a, m)
  BY RemRange, RemSmall

(* Different numbers with the same remainder are at least the modulus apart. *)
LEMMA RemApart ==
  ASSUME NEW m \in Nat \ {0}, NEW a \in Int, NEW b \in Int, a < b, b < a + m
  PROVE  Rem(a, m) # Rem(b, m)
  <1> SUFFICES ASSUME Rem(a, m) = Rem(b, m)
               PROVE  FALSE
    OBVIOUS
  <1>1. PICK q \in Int : a = m * q + Rem(a, m)
    BY RemDivides
  <1>2. PICK p \in Int : b = m * p + Rem(b, m)
    BY RemDivides
  <1>3. Rem(a, m) \in Int
    BY RemRange
  <1>4. b - a = m * (p - q)
    BY <1>1, <1>2, <1>3
  <1>5. 0 < m * (p - q) /\ m * (p - q) < m
    BY <1>4
  <1>6. QED
    <2>1. CASE p - q <= 0
      BY <2>1, <1>5
    <2>2. CASE p - q >= 1
      BY <2>2, <1>5
    <2>3. QED
      BY <2>1, <2>2
(* The live buffer of features. *)

(* What is assumed of the window and of the live buffer. *)
LEMMA Sizes ==
  /\ Win \in Nat \ {0} /\ BlockSize \in Nat \ {0} /\ BlockSize > 5 * Win
  BY WinAssumption, BlockSizeAssumption

(* What was copied in is right behind the position, and what was there     *)
(* before is behind it.                                                    *)
LEMMA CopyInEffect ==
  ASSUME NEW V, NEW s \in Seq(V), Len(s) <= BlockSize, NEW fcb, FcbOK(fcb)
  PROVE  LET c == CopyIn(fcb, s)
         IN  /\ FcbOK(c)
             /\ c.bufpos = (fcb.bufpos + Len(s)) % BlockSize
             /\ c.curpos = fcb.curpos
             /\ \A d \in -BlockSize .. -1 :
                  Rel(c, d) = IF d >= -Len(s) THEN s[d + Len(s) + 1] ELSE Rel(fcb, d + Len(s))
  <1> DEFINE n == Len(s)
             c == CopyIn(fcb, s)
             pos == fcb.bufpos
             buf == fcb.cepbuf
             new == [p \in DOMAIN buf |-> IF (p - pos) % BlockSize < n THEN s[((p - pos) % BlockSize) + 1] ELSE buf[p]]
  <1>1. n \in Nat /\ n <= BlockSize /\ BlockSize \in Nat \ {0}
    BY Sizes
  <1>2. /\ fcb = [cepbuf |-> buf, bufpos |-> pos, curpos |-> fcb.curpos]
        /\ DOMAIN buf = 0 .. BlockSize - 1
        /\ pos \in 0 .. BlockSize - 1 /\ fcb.curpos \in 0 .. BlockSize - 1
    BY DEF FcbOK
  <1>3. c = [fcb EXCEPT !.cepbuf = new, !.bufpos = (pos + n) % BlockSize]
    BY DEF CopyIn
  <1>4. c = [cepbuf |-> new, bufpos |-> (pos + n) % BlockSize, curpos |-> fcb.curpos]
    <2> HIDE DEF new, buf, pos, c, n
    <2>1. QED BY <1>2, <1>3
  <1>5. (pos + n) % BlockSize \in 0 .. BlockSize - 1
    BY <1>1, <1>2
  <1>6. FcbOK(c) /\ c.bufpos = (pos + n) % BlockSize /\ c.curpos = fcb.curpos
    BY <1>2, <1>4, <1>5 DEF FcbOK
  <1>7. ASSUME NEW d \in -BlockSize .. -1
        PROVE  Rel(c, d) = IF d >= -n THEN s[d + n + 1] ELSE Rel(fcb, d + n)
    <2> DEFINE p == Rem(pos + n + d, BlockSize)
    <2> HIDE DEF p, n, buf, c, pos, new
    <2>0. d \in Int /\ -BlockSize <= d /\ d <= -1 /\ pos \in Int
      BY <1>1, <1>2
    <2>1. p \in 0 .. BlockSize - 1
      <3>1. pos + n + d \in Int
        BY <1>1, <2>0
      <3>2. QED
        BY <3>1, <1>1, RemRange DEF p
    <2>2. Rem(Rem(pos + n, BlockSize) + d, BlockSize) = p
      <3>1. Rem(pos + n, BlockSize) \in Int /\ pos + n \in Int
        BY <1>1, <2>0, RemRange
      <3>2. Rem(Rem(pos + n, BlockSize), BlockSize) = Rem(pos + n, BlockSize)
        BY <1>1, <3>1, RemTwice
      <3>3. QED
        BY <3>1, <3>2, <2>0, <1>1, RemShift DEF p
    <2>3. Rel(c, d) = new[p]
      BY <2>2, <1>4 DEF Rel, Rem
    <2>4. Rem(p - pos, BlockSize) = Rem(n + d, BlockSize)
      <3>1. Rem(p, BlockSize) = Rem(pos + n + d, BlockSize)
        BY <1>1, <2>0, RemTwice DEF p
      <3>2. QED
        BY <3>1, <1>1, <2>0, <2>1, RemShift
    <2>A. new[p] = IF Rem(p - pos, BlockSize) < n THEN s[Rem(p - pos, BlockSize) + 1] ELSE buf[p]
      BY <2>1, <1>2 DEF new, Rem
    <2>5. CASE d >= -n
      <3>1. n + d \in 0 .. BlockSize - 1 /\ n + d < n /\ n + d + 1 = d + n + 1
        BY <2>5, <1>1, <2>0
      <3>2. Rem(p - pos, BlockSize) = n + d
        BY <3>1, <2>4, <1>1, RemSmall
      <3>3. QED
        BY <3>1, <3>2, <2>3, <2>5, <2>A
    <2>6. CASE ~ (d >= -n)
      <3>1. /\ n + d + BlockSize \in 0 .. BlockSize - 1 /\ ~ (n + d + BlockSize < n)
            /\ n + d = BlockSize * (-1) + (n + d + BlockSize)
        BY <2>6, <1>1, <2>0
      <3>2. PICK r \in 0 .. BlockSize - 1 :
                 r = n + d + BlockSize /\ \E q \in Int : n + d = BlockSize * q + r
        BY <3>1
      <3>7. Rem(n + d, BlockSize) = r
        BY <3>2, <1>1, RemUnique
      <3>3. new[p] = buf[p]
        BY <3>1, <3>2, <3>7, <2>4, <2>A
      <3>4. pos + n + d = pos + (d + n)
        BY <1>1, <2>0
      <3>5. Rel(fcb, d + n) = buf[p]
        BY <3>4 DEF Rel, p, pos, buf, Rem
      <3>6. QED
        BY <3>3, <3>5, <2>3, <2>6
    <2>7. QED
      BY <2>5, <2>6
  <1>8. QED
    BY <1>6, <1>7

(* A feature is made of what is around its place in the buffer. *)
LEMMA FeatureBehind ==
  ASSUME NEW fcb, FcbOK(fcb), NEW p \in Int, NEW b \in Int,
         Rem(p, BlockSize) = Rem(fcb.bufpos + b, BlockSize)
  PROVE  FeatureAt(fcb, p) = [j \in 1 .. 2 * Win + 1 |-> Rel(fcb, b + j - Win - 1)]
  <1>1. BlockSize \in Nat \ {0} /\ Win \in Nat /\ fcb.bufpos \in Int
    BY Sizes DEF FcbOK
  <1>2. ASSUME NEW j \in 1 .. 2 * Win + 1
        PROVE  Rem(p + j - Win - 1, BlockSize) = Rem(fcb.bufpos + (b + j - Win - 1), BlockSize)
    BY <1>1, RemShift
  <1>3. QED
    BY <1>2 DEF FeatureAt, Rel, Rem

(* x is as far behind y as k is from z. *)
Facing(x, y, z, k, m) ==
  /\ m \in Nat \ {0} /\ k \in 0 .. m - 1
  /\ x \in Int /\ y \in Int /\ z \in Int /\ x + z = y + k

(* To be k behind a position is to differ from it by k. *)
LEMMA RemFacing ==
  ASSUME NEW x, NEW y, NEW z, NEW k, NEW m, Facing(x, y, z, k, m)
  PROVE  /\ Rem(x, m) = Rem(y, m) => Rem(z, m) = k
         /\ Rem(z, m) = k => Rem(x, m) = Rem(y, m)
  <1>0. /\ m \in Nat \ {0} /\ k \in 0 .. m - 1
        /\ x \in Int /\ y \in Int /\ z \in Int /\ x + z = y + k
    BY DEF Facing
  <1>1. ASSUME Rem(x, m) = Rem(y, m)
        PROVE  Rem(z, m) = k
    <2>1. PICK p \in Int : x = m * p + Rem(x, m)
      BY <1>0, RemDivides
    <2>2. PICK q \in Int : y = m * q + Rem(y, m)
      BY <1>0, RemDivides
    <2>3. PICK g \in Int : g = q - p
      OBVIOUS
    <2>4. Rem(x, m) \in Int
      BY <1>0, RemRange
    <2>5. z = m * g + k
      <3>1. m * g = m * q - m * p /\ m * q \in Int /\ m * p \in Int
        BY <2>3, <1>0
      <3>2. QED
        BY <3>1, <2>1, <2>2, <2>4, <1>1, <1>0
    <2>6. \E h \in Int : z = m * h + k
      BY <2>5
    <2>7. QED
      BY <2>6, <1>0, RemUnique
  <1>2. ASSUME Rem(z, m) = k
        PROVE  Rem(x, m) = Rem(y, m)
    <2>1. PICK q \in Int : z = m * q + k
      BY <1>0, <1>2, RemDivides
    <2>2. PICK p \in Int : x = m * p + Rem(x, m)
      BY <1>0, RemDivides
    <2>3. PICK g \in Int : g = q + p
      OBVIOUS
    <2>4. Rem(x, m) \in 0 .. m - 1
      BY <1>0, RemRange
    <2>5. PICK r \in 0 .. m - 1 : r = Rem(x, m)
      BY <2>4
    <2>6. y = m * g + r
      <3>1. m * g = m * q + m * p /\ m * q \in Int /\ m * p \in Int
        BY <2>3, <1>0
      <3>2. x = m * p + r
        BY <2>5, <2>2
      <3>3. QED
        BY <3>1, <3>2, <2>1, <1>0
    <2>7. Rem(y, m) = r
      <3>1. \E h \in Int : y = m * h + r
        BY <2>6
      <3>2. QED
        BY <3>1, <1>0, RemUnique
    <2>8. QED
      BY <2>5, <2>7
  <1>3. QED
    BY <1>1, <1>2

(* Back to lo the buffer holds these cepstra, and so many repetitions of   *)
(* the last one.                                                           *)
Behind(fcb, cs, ahead, lo) ==
  \A d \in lo .. -1 : Rel(fcb, d) = At(cs, Len(cs) + ahead + 1 + d)

(* Appending leaves the cepstra that are there, and adds the new ones      *)
(* behind.                                                                 *)
LEMMA AtAppended ==
  ASSUME NEW V, NEW cs \in Seq(V), NEW more \in Seq(V), NEW k \in Int
  PROVE  /\ k <= Len(cs) /\ (k >= 1 \/ cs # <<>>) => At(cs \o more, k) = At(cs, k)
         /\ k > Len(cs) /\ k <= Len(cs) + Len(more) => At(cs \o more, k) = more[k - Len(cs)]
  <1> DEFINE n == Len(cs)
             m == Len(more)
             all == cs \o more
  <1>1. n \in Nat /\ m \in Nat /\ Len(all) = n + m /\ (cs # <<>> => n >= 1)
    OBVIOUS
  <1>2. \A i \in 1 .. n + m : all[i] = IF i <= n THEN cs[i] ELSE more[i - n]
    OBVIOUS
  <1>3. ASSUME k <= n, k >= 1 \/ cs # <<>>
        PROVE  At(all, k) = At(cs, k)
    <2> HIDE DEF all, n, m
    <2>1. CASE k < 1
      BY <1>1, <1>2, <1>3, <2>1 DEF At, n
    <2>2. CASE k >= 1
      BY <1>1, <1>2, <1>3, <2>2 DEF At, n
    <2>3. QED
      BY <2>1, <2>2
  <1>4. ASSUME k > n, k <= n + m
        PROVE  At(all, k) = more[k - n]
    <2> HIDE DEF all, n, m
    <2>1. QED
      BY <1>1, <1>2, <1>4 DEF At
  <1>5. QED
    BY <1>3, <1>4

(* The features that come out of a buffer that holds what they need. *)
LEMMA FeaturesOut ==
  ASSUME NEW V, NEW cs \in Seq(V), NEW ahead \in Nat, NEW from \in Nat, NEW fcb, FcbOK(fcb),
         NEW lo \in Int, Behind(fcb, cs, ahead, lo),
         Rem(fcb.curpos, BlockSize) = Rem(fcb.bufpos - (Len(cs) + ahead - from), BlockSize),
         NEW i \in Nat \ {0}, i <= Len(cs) + ahead - from - Win,
         from + i - 1 - Win - Len(cs) - ahead >= lo
  PROVE  FeatureAt(fcb, fcb.curpos + i - 1) = BlockFeature(cs, from + i)
  <1>1. PICK n \in Nat, pos \in Int, cur \in Int :
          n = Len(cs) /\ pos = fcb.bufpos /\ cur = fcb.curpos
    BY SMTT(30) DEF FcbOK
  <1>0. i \in Int /\ i >= 1 /\ ahead \in Int /\ from \in Int
    OBVIOUS
  <1>2. PICK b \in Int, p \in Int : b = i - 1 - (n + ahead - from) /\ p = cur + i - 1
    BY <1>0
  <1>3. Win \in Nat /\ BlockSize \in Nat \ {0}
    BY Sizes
  <1>4. Rem(p, BlockSize) = Rem(fcb.bufpos + b, BlockSize)
    <2>1. PICK old \in Int, y \in Int :
            old = pos - (n + ahead - from) /\ y = pos + b /\ y = fcb.bufpos + b
      BY <1>0, <1>1
    <2>2. Rem(cur, BlockSize) = Rem(old, BlockSize)
      BY <1>1, <2>1
    <2>3. PICK k \in Int : k = i - 1
      BY <1>0
    <2>4. p = cur + k /\ y = old + k
      BY <2>1, <2>3, <1>2, <1>0
    <2>5. Rem(cur + k, BlockSize) = Rem(old + k, BlockSize)
      <3>1. BlockSize \in Nat \ {0} /\ cur \in Int /\ old \in Int /\ k \in Int
        BY <1>3
      <3>2. QED
        BY ONLY <3>1, <2>2, RemShift
    <2>6. Rem(p, BlockSize) = Rem(y, BlockSize)
      BY <2>4, <2>5
    <2>7. QED
      BY <2>1, <2>6
  <1>5. FeatureAt(fcb, p) = [j \in 1 .. 2 * Win + 1 |-> Rel(fcb, b + j - Win - 1)]
    BY <1>4, FeatureBehind
  <1>6. ASSUME NEW j \in 1 .. 2 * Win + 1
        PROVE  Rel(fcb, b + j - Win - 1) = At(cs, from + i + j - Win - 1)
    <2>1. PICK d \in Int, k \in Int : d = b + j - Win - 1 /\ k = from + i + j - Win - 1
      BY <1>0, <1>3
    <2>2. d \in lo .. -1 /\ n + ahead + 1 + d = k
      <3>1. j \in Int /\ 1 <= j /\ j <= 2 * Win + 1
        BY <1>3
      <3>2. i <= n + ahead - from - Win /\ from + i - 1 - Win - n - ahead >= lo
        BY <1>1
      <3>3. lo <= d /\ d <= -1
        BY <2>1, <3>1, <3>2, <1>0, <1>2, <1>3
      <3>4. n + ahead + 1 + d = k
        BY <2>1, <3>1, <1>0, <1>2, <1>3
      <3>5. QED
        BY <3>3, <3>4
    <2>3. Rel(fcb, d) = At(cs, n + ahead + 1 + d)
      BY <1>1, <2>2 DEF Behind
    <2>4. Rel(fcb, d) = At(cs, k)
      BY <2>2, <2>3
    <2>5. QED
      BY <2>1, <2>4
  <1>7. BlockFeature(cs, from + i) = [j \in 1 .. 2 * Win + 1 |-> At(cs, from + i + j - Win - 1)]
    BY DEF BlockFeature, At
  <1>8. QED
    BY <1>1, <1>2, <1>5, <1>6, <1>7

-----------------------------------------------------------------------------
(* feat_s2mfc2feat_live() in the middle, at the end and at the beginning. *)

(* Positive cuts off at 0.                                                 *)
LEMMA PositiveIs ==
  ASSUME NEW x \in Int
  PROVE  /\ Positive(x) \in Nat
         /\ x < 0 => Positive(x) = 0
         /\ x >= 0 => Positive(x) = x
  BY DEF Positive

(* The smaller of two numbers. *)
LEMMA LeastIs ==
  ASSUME NEW x \in Int, NEW y \in Int
  PROVE  /\ NoMoreThan(x, y) \in Int
         /\ NoMoreThan(x, y) = x \/ NoMoreThan(x, y) = y
         /\ NoMoreThan(x, y) <= x /\ NoMoreThan(x, y) <= y
         /\ x <= y => NoMoreThan(x, y) = x
         /\ x >= y => NoMoreThan(x, y) = y
         /\ x >= 0 /\ y >= 0 => NoMoreThan(x, y) \in Nat
  BY DEF NoMoreThan

(* n features of these cepstra from a frame on. *)
FeaturesFrom(feats, n, cs, st, from) ==
  /\ Len(feats) = n /\ feats = [i \in 1 .. n |-> feats[i]]
  /\ \A i \in 1 .. n : Fits(feats[i], cs, st, from + i - 1)

(* What feat_s2mfc2feat_live() does once the cepstra are copied in: all    *)
(* features but those of the trailing window come out.                     *)
Ready(fcb, cs, ahead, from, st, lo, nfeat) ==
  /\ from <= Len(cs) + ahead /\ FcbOK(fcb) /\ Behind(fcb, cs, ahead, lo)
  /\ Rem(fcb.curpos, BlockSize) = Rem(fcb.bufpos - (Len(cs) + ahead - from), BlockSize)
  /\ st = "given" => from - Win - Len(cs) - ahead >= lo
  /\ st = "empty" => \/ Win <= from /\ from - Win - Len(cs) - ahead >= lo
                     \/ -(Len(cs) + ahead) >= lo
  /\ st \in {"given", "empty"}
  /\ nfeat = Len(cs) + ahead - from - Win

(* The buffer without the first of them. *)
Past(fcb, nfeat) == IF nfeat > 0 THEN [fcb EXCEPT !.curpos = (@ + nfeat) % BlockSize] ELSE fcb

(* The features that are computed from the current position on. *)
FeaturesAt(fcb, nfeat) == [i \in 1 .. nfeat |-> FeatureAt(fcb, fcb.curpos + i - 1)]

(* Once the cepstra are in the buffer, the features of the frames that     *)
(* have their window come out, and the position goes past them.            *)
LEMMA LiveEnds ==
  ASSUME NEW V, NEW cs \in Seq(V), NEW ahead \in Nat, NEW from \in Nat, NEW fcb, NEW st,
         NEW lo \in Int, NEW nfeat \in Int, Ready(fcb, cs, ahead, from, st, lo, nfeat)
  PROVE  /\ FeaturesFrom(FeaturesAt(fcb, nfeat), Positive(nfeat), cs, st, from)
         /\ FcbOK(Past(fcb, nfeat))
         /\ Past(fcb, nfeat).bufpos = fcb.bufpos /\ Past(fcb, nfeat).cepbuf = fcb.cepbuf
         /\ Rem(Past(fcb, nfeat).bufpos - Past(fcb, nfeat).curpos, BlockSize)
              = NoMoreThan(Len(cs) + ahead - from, Win)
  <1>h. /\ from <= Len(cs) + ahead /\ FcbOK(fcb) /\ Behind(fcb, cs, ahead, lo)
        /\ Rem(fcb.curpos, BlockSize) = Rem(fcb.bufpos - (Len(cs) + ahead - from), BlockSize)
        /\ st = "given" => from - Win - Len(cs) - ahead >= lo
        /\ st = "empty" => \/ Win <= from /\ from - Win - Len(cs) - ahead >= lo
                           \/ -(Len(cs) + ahead) >= lo
        /\ st \in {"given", "empty"}
        /\ nfeat = Len(cs) + ahead - from - Win
    BY DEF Ready
  <1>g. FcbOK(fcb)
    BY <1>h
  <1> USE <1>h
  <1> DEFINE feats == [i \in 1 .. nfeat |-> FeatureAt(fcb, fcb.curpos + i - 1)]
             after == IF nfeat > 0 THEN [fcb EXCEPT !.curpos = (@ + nfeat) % BlockSize] ELSE fcb
  <1>1. PICK n \in Nat, pos \in Int, cur \in Int :
          n = Len(cs) /\ pos = fcb.bufpos /\ cur = fcb.curpos
    <2>1. fcb.bufpos \in Int /\ fcb.curpos \in Int /\ Len(cs) \in Nat
      <3>1. fcb.bufpos \in 0 .. BlockSize - 1 /\ fcb.curpos \in 0 .. BlockSize - 1 /\ Len(cs) \in Nat
        BY ONLY <1>g, cs \in Seq(V) DEF FcbOK
      <3>2. QED
        BY ONLY <3>1
    <2>2. QED
      BY ONLY <2>1
  <1>0. from <= n + ahead /\ nfeat = n + ahead - from - Win
    BY <1>1
  <1>2. Win \in Nat \ {0} /\ BlockSize \in Nat \ {0} /\ BlockSize > 5 * Win
    BY Sizes
  <1>3. PICK m \in Nat : m = Positive(nfeat)
    BY DEF Positive
  <1>4. 1 .. nfeat = 1 .. m
    <2>1. m \in Int /\ (m = nfeat \/ (nfeat < 1 /\ m < 1))
      BY SMTT(30), <1>3, PositiveIs
    <2>2. nfeat < 1 /\ m < 1 => 1 .. nfeat = {} /\ 1 .. m = {}
      BY ONLY <2>1, nfeat \in Int
    <2>3. QED
      BY <2>1, <2>2
  <1>5. Len(feats) = m /\ feats = [i \in 1 .. m |-> feats[i]]
    <2>1. feats = [i \in 1 .. m |-> FeatureAt(fcb, fcb.curpos + i - 1)]
      BY <1>4
    <2> HIDE DEF feats
    <2>2. Len(feats) = m
      BY <2>1
    <2>3. QED
      BY <2>1, <2>2
  <1>6. ASSUME NEW i \in 1 .. m
        PROVE  Fits(feats[i], cs, st, from + i - 1)
    <2>1. i \in Nat \ {0} /\ i <= n + ahead - from - Win /\ i \in 1 .. nfeat
      BY <1>1, <1>3, <1>4 DEF Positive
    <2>2. PICK f \in Nat : f = from + i - 1
      BY <2>1
    <2>3. CASE st = "empty" /\ f < Win
      BY <2>2, <2>3 DEF Fits
    <2>4. CASE ~ (st = "empty" /\ f < Win)
      <3>1. from + i - 1 - Win - n - ahead >= lo
        <4>1. from - Win - n - ahead >= lo \/ (f >= Win /\ -(n + ahead) >= lo)
          BY <2>4, <1>1, <1>2
        <4>2. QED
          BY <4>1, <2>1, <2>2, <1>2
      <3>2. FeatureAt(fcb, fcb.curpos + i - 1) = BlockFeature(cs, from + i)
        BY <3>1, <2>1, <1>1, FeaturesOut
      <3>3. from + i = f + 1
        BY <2>1, <2>2
      <3>4. feats[i] = BlockFeature(cs, f + 1)
        BY <3>2, <3>3, <2>1
      <3>5. QED
        BY <3>4, <2>2 DEF Fits
    <2>5. QED
      BY <2>3, <2>4
  <1>7. FeaturesFrom(feats, Positive(nfeat), cs, st, from)
    <2> HIDE DEF feats
    <2>1. QED BY <1>3, <1>5, <1>6 DEF FeaturesFrom
  <1>8. /\ fcb = [cepbuf |-> fcb.cepbuf, bufpos |-> fcb.bufpos, curpos |-> fcb.curpos]
        /\ cur \in 0 .. BlockSize - 1 /\ pos \in 0 .. BlockSize - 1
    BY <1>1 DEF FcbOK
  <1>9. PICK k \in Nat : k = NoMoreThan(n + ahead - from, Win) /\ k <= Win
    <2>1. PICK c \in Nat : c = n + ahead - from
      <3>1. n + ahead - from \in Nat
        BY ONLY <1>0, n \in Nat, ahead \in Nat, from \in Nat
      <3>2. QED
        BY ONLY <3>1
    <2>2. NoMoreThan(c, Win) \in Nat /\ NoMoreThan(c, Win) <= Win
      <3>1. c \in Int /\ Win \in Int /\ c >= 0 /\ Win >= 0
        BY <1>2
      <3>2. QED
        BY ONLY <3>1, LeastIs
    <2>3. QED
      BY <2>1, <2>2
  <1>10. FcbOK(after) /\ after.bufpos = pos /\ after.cepbuf = fcb.cepbuf
    <2>1. CASE nfeat > 0
      <3>1. (fcb.curpos + nfeat) % BlockSize \in 0 .. BlockSize - 1
        <4>1. fcb.curpos + nfeat \in Int
          BY <1>1
        <4>2. QED
          BY <4>1, <1>2, RemRange DEF Rem
      <3>2. after = [cepbuf |-> fcb.cepbuf, bufpos |-> fcb.bufpos, curpos |-> (fcb.curpos + nfeat) % BlockSize]
        BY <2>1, <1>8
      <3> HIDE DEF after
      <3>3. QED
        BY <3>1, <3>2, <1>1 DEF FcbOK
    <2>2. CASE ~ (nfeat > 0)
      BY <2>2, <1>1
    <2>3. QED
      BY <2>1, <2>2
  <1>11. Rem(pos - after.curpos, BlockSize) = k
    <2>1. PICK c \in Nat, back \in Int : c = n + ahead - from /\ back = pos - c
      BY <1>1
    <2>2. Rem(cur, BlockSize) = Rem(back, BlockSize)
      BY <2>1, <1>1
    <2>3. Rem(after.curpos, BlockSize) = Rem(pos - k, BlockSize)
      <3>1. CASE nfeat > 0
        <4>1. PICK x \in Int, y \in Int : x = cur + nfeat /\ y = pos - k
          <5>0. k \in Int
            BY <1>9
          <5>1. cur + nfeat \in Int /\ pos - k \in Int
            BY ONLY <5>0, cur \in Int, nfeat \in Int, pos \in Int
          <5>2. QED
            BY <5>1
        <4>2. y = back + nfeat
          <5>0. k \in Int /\ c \in Int /\ ahead \in Int /\ from \in Int
            BY <1>9
          <5>1. nfeat = c - Win /\ k = NoMoreThan(c, Win)
            BY ONLY <2>1, <1>0, <1>9, <1>2, n \in Nat, ahead \in Nat, from \in Nat
          <5>2. k = Win
            <6>1. c >= Win /\ Win \in Int
              BY ONLY <5>0, <5>1, <3>1, <1>2, nfeat \in Int
            <6>2. QED
              BY ONLY <6>1, <5>0, <5>1, LeastIs
          <5>3. QED
            BY ONLY <5>0, <5>1, <5>2, <4>1, <2>1, <1>2, nfeat \in Int, pos \in Int
        <4>3. Rem(cur + nfeat, BlockSize) = Rem(back + nfeat, BlockSize)
          BY ONLY <2>2, <1>2, nfeat \in Int, cur \in Int, back \in Int, RemShift
        <4>4. Rem(x, BlockSize) = Rem(y, BlockSize)
          BY <4>1, <4>2, <4>3
        <4>5. after.curpos = Rem(x, BlockSize)
          BY <3>1, <4>1, <1>1, <1>8 DEF Rem
        <4>6. Rem(Rem(x, BlockSize), BlockSize) = Rem(x, BlockSize)
          BY <1>2, RemTwice
        <4>7. QED
          BY <4>1, <4>4, <4>5, <4>6
      <3>2. CASE ~ (nfeat > 0)
        <4>1. after.curpos = cur /\ k = c
          <5>0. k \in Int /\ c \in Int
            BY <1>9
          <5>1. nfeat = c - Win /\ k = NoMoreThan(c, Win)
            BY ONLY <2>1, <1>0, <1>9, <1>2, n \in Nat, ahead \in Nat, from \in Nat
          <5>2. k = c
            <6>1. c <= Win /\ Win \in Int
              BY ONLY <5>0, <5>1, <3>2, <1>2, nfeat \in Int
            <6>2. QED
              BY ONLY <6>1, <5>0, <5>1, LeastIs
          <5>3. QED
            BY <5>2, <3>2, <1>1
        <4>2. QED
          BY <4>1, <2>1, <2>2
      <3>3. QED
        BY <3>1, <3>2
    <2>4. PICK x \in Int : x = after.curpos
      BY SMTT(30), <1>10 DEF FcbOK
    <2>5. k \in 0 .. BlockSize - 1
      BY <1>2, <1>9
    <2>6. Rem(pos - x, BlockSize) = k
      <3>1. BlockSize \in Nat \ {0}
        BY <1>2
      <3>2. Rem(x, BlockSize) = Rem(pos - k, BlockSize)
        BY <2>3, <2>4
      <3>3. QED
        <4>1. PICK y \in Int, z \in Int : y = pos - k /\ z = pos - x
          BY ONLY pos \in Int, x \in Int, k \in Nat
        <4>2. x + z = y + k
          BY ONLY <4>1, pos \in Int, x \in Int, k \in Nat
        <4>3. Rem(z, BlockSize) = k
          <5>1. Rem(x, BlockSize) = Rem(y, BlockSize)
            BY <3>2, <4>1
          <5>2. QED
            <6>1. Facing(x, y, z, k, BlockSize)
              BY ONLY <3>1, <4>2, <2>5, x \in Int, y \in Int, z \in Int DEF Facing
            <6>2. QED
              BY ONLY <6>1, <5>1, RemFacing
        <4>4. QED
          BY <4>1, <4>3
    <2>7. QED
      BY <2>4, <2>6
  <1>12. feats = FeaturesAt(fcb, nfeat) /\ after = Past(fcb, nfeat)
    BY DEF FeaturesAt, Past
  <1> HIDE DEF feats, after
  <1>13. QED
    BY <1>1, <1>7, <1>9, <1>10, <1>11, <1>12

(* How far back the live buffer has to hold what it has been given. *)
Back(n, st) ==
  IF st = "given" THEN (IF n < Win THEN n + Win ELSE 2 * Win)
  ELSE (IF n < 2 * Win THEN n ELSE 2 * Win)

(* The look-back is never longer than two windows, and long enough for the *)
(* features to come.                                                       *)
LEMMA BackIs ==
  ASSUME NEW n \in Nat, NEW st \in {"given", "empty"}
  PROVE  /\ Back(n, st) \in 0 .. 2 * Win
         /\ st = "given" => Back(n, st) <= n + Win /\ Back(n, st) >= 0 - Positive(n - Win) + n + Win
         /\ st = "empty" => /\ Back(n, st) <= n
                            /\ \/ Win <= Positive(n - Win) /\ Back(n, st) >= n + Win - Positive(n - Win)
                               \/ Back(n, st) >= n
  <1>1. Win \in Int /\ Win >= 1 /\ n \in Int /\ n >= 0
    BY Sizes
  <1>2. PICK p \in Int : p = Positive(n - Win) /\ p >= 0 /\ (n - Win < 0 => p = 0) /\ (n - Win >= 0 => p = n - Win)
    <2>1. PICK x \in Int : x = n - Win
      BY <1>1
    <2>2. Positive(x) \in Int /\ Positive(x) >= 0 /\ (x < 0 => Positive(x) = 0) /\ (x >= 0 => Positive(x) = x)
      BY <2>1, PositiveIs
    <2>3. QED
      BY <2>1, <2>2
  <1>3. CASE st = "given"
    BY <1>1, <1>2, <1>3 DEF Back
  <1>4. CASE st = "empty"
    BY <1>1, <1>2, <1>4 DEF Back
  <1>5. QED
    BY <1>3, <1>4

(* HoldsLast in terms of positions. *)
LEMMA HoldsBack ==
  ASSUME NEW V, NEW cs \in Seq(V), NEW fcb, FcbOK(fcb), NEW st \in {"given", "empty"},
         st = "given" => cs # <<>>
  PROVE  HoldsLast(fcb, cs, st) <=>
           /\ Rem(fcb.bufpos - fcb.curpos, BlockSize) = NoMoreThan(Len(cs), Win)
           /\ Behind(fcb, cs, 0, -Back(Len(cs), st))
  <1>1. PICK n \in Nat : n = Len(cs)
    OBVIOUS
  <1>2. Win \in Int /\ Win >= 1 /\ n \in Int /\ n >= 0
    BY Sizes
  <1>3. ASSUME NEW d \in Int
        PROVE  d \in -(2 * Win) .. -1 /\ (st = "given" => n + d >= -Win) /\ (st = "empty" => n + d >= 0)
                 <=> d \in -Back(n, st) .. -1
    <2>1. CASE st = "given"
      BY <1>2, <2>1 DEF Back
    <2>2. CASE st = "empty"
      BY <1>2, <2>2 DEF Back
    <2>3. QED
      BY <2>1, <2>2
  <1>4. \A d \in Int : n + 0 + 1 + d = n + 1 + d
    OBVIOUS
  <1>5. -(2 * Win) .. -1 \subseteq Int /\ -Back(n, st) .. -1 \subseteq Int
    <2>1. Back(n, st) \in Int
      <3>1. Back(n, st) \in 0 .. 2 * Win
        BY BackIs
      <3>2. QED
        BY <3>1, <1>2
    <2>2. QED
      BY <1>2, <2>1
  <1>6. Behind(fcb, cs, 0, -Back(n, st)) <=>
          \A d \in -Back(n, st) .. -1 : Rel(fcb, d) = At(cs, n + 1 + d)
    BY <1>1, <1>4, <1>5 DEF Behind
  <1>7. HoldsLast(fcb, cs, st) <=>
          /\ Rem(fcb.bufpos - fcb.curpos, BlockSize) = NoMoreThan(n, Win)
          /\ \A d \in -(2 * Win) .. -1 :
               (st = "given" => n + d >= -Win) /\ (st = "empty" => n + d >= 0)
                 => Rel(fcb, d) = At(cs, n + 1 + d)
    BY <1>1 DEF HoldsLast, Rem
  <1>8. (\A d \in -(2 * Win) .. -1 :
           (st = "given" => n + d >= -Win) /\ (st = "empty" => n + d >= 0)
             => Rel(fcb, d) = At(cs, n + 1 + d))
        <=> \A d \in -Back(n, st) .. -1 : Rel(fcb, d) = At(cs, n + 1 + d)
    BY ONLY <1>3, <1>5
  <1>9. QED
    BY <1>1, <1>6, <1>7, <1>8

(* Cepstra copied in behind those the buffer holds. *)
LEMMA CopyMore ==
  ASSUME NEW V, NEW cs \in Seq(V), NEW more \in Seq(V), NEW fcb, FcbOK(fcb),
         NEW back \in Nat, Behind(fcb, cs, 0, -back), cs # <<>> \/ back <= Len(cs),
         Len(more) + back <= BlockSize
  PROVE  LET c == CopyIn(fcb, more)
         IN  /\ FcbOK(c) /\ c.bufpos = (fcb.bufpos + Len(more)) % BlockSize
             /\ c.curpos = fcb.curpos
             /\ Behind(c, cs \o more, 0, -(back + Len(more)))
  <1> DEFINE c == CopyIn(fcb, more)
  <1>1. PICK n \in Nat, m \in Nat : n = Len(cs) /\ m = Len(more) /\ n + m = Len(cs \o more)
    OBVIOUS
  <1>2. m + back <= BlockSize /\ m <= BlockSize /\ BlockSize \in Int
    <2>1. BlockSize \in Nat
      BY Sizes
    <2>2. QED
      BY <2>1, <1>1
  <1>3. /\ FcbOK(c) /\ c.bufpos = (fcb.bufpos + m) % BlockSize /\ c.curpos = fcb.curpos
        /\ \A d \in -BlockSize .. -1 :
             Rel(c, d) = IF d >= -m THEN more[d + m + 1] ELSE Rel(fcb, d + m)
    BY <1>1, <1>2, CopyInEffect
  <1> HIDE DEF c
  <1>4. ASSUME NEW d \in -(back + m) .. -1
        PROVE  Rel(c, d) = At(cs \o more, n + m + 0 + 1 + d)
    <2>1. d \in Int /\ d <= -1 /\ d >= -(back + m)
      BY <1>1
    <2>2. d \in -BlockSize .. -1
      BY <2>1, <1>2
    <2>3. PICK k \in Int : k = n + m + 0 + 1 + d
      BY <2>1
    <2>4. k <= n + m
      BY <2>1, <2>3
    <2>5. CASE d >= -m
      <3>1. k > n /\ k - n = d + m + 1
        BY <2>1, <2>3, <2>5
      <3>2. At(cs \o more, k) = more[k - n]
        BY <3>1, <2>4, <1>1, AtAppended
      <3>3. QED
        BY <3>1, <3>2, <2>2, <2>3, <2>5, <1>3
    <2>6. CASE ~ (d >= -m)
      <3>1. PICK e \in Int : e = d + m
        BY <2>1
      <3>2. e \in -back .. -1 /\ k <= n /\ n + 0 + 1 + e = k /\ (back <= n => k >= 1)
        BY <3>1, <2>1, <2>3, <2>6
      <3>3. Rel(fcb, e) = At(cs, n + 0 + 1 + e)
        BY <3>2, <1>1 DEF Behind
      <3>4. At(cs \o more, k) = At(cs, k)
        BY <3>2, <1>1, AtAppended
      <3>5. Rel(c, d) = Rel(fcb, e)
        BY <3>1, <2>2, <2>6, <1>3
      <3>6. QED
        BY <3>2, <3>3, <3>4, <3>5, <2>3
    <2>7. QED
      BY <2>5, <2>6
  <1>5. Behind(c, cs \o more, 0, -(back + m))
    BY <1>1, <1>4 DEF Behind
  <1>6. QED
    BY <1>1, <1>3, <1>5 DEF c

(* The last one repeated. *)
LEMMA CopyLast ==
  ASSUME NEW V, NEW cs \in Seq(V), cs # <<>>, NEW fcb, FcbOK(fcb),
         NEW back \in Nat, back >= 1, Behind(fcb, cs, 0, -back), Win + back <= BlockSize
  PROVE  LET c == Ended(fcb, TRUE)
         IN  /\ FcbOK(c) /\ c.bufpos = (fcb.bufpos + Win) % BlockSize /\ c.curpos = fcb.curpos
             /\ Behind(c, cs, Win, -(back + Win))
  <1> DEFINE x == fcb.cepbuf[(fcb.bufpos - 1) % BlockSize]
             more == Copies(x, Win)
             c == CopyIn(fcb, more)
  <1>1. PICK n \in Nat : n = Len(cs) /\ n >= 1
    OBVIOUS
  <1>2. /\ Win \in Nat /\ Win \in Int /\ Win >= 1 /\ BlockSize \in Nat
        /\ BlockSize \in Int /\ Win <= BlockSize /\ Win + back <= BlockSize
    BY Sizes
  <1>3. more = [i \in 1 .. Win |-> x] /\ more \in Seq({x}) /\ Len(more) = Win
    <2>1. more = [i \in 1 .. Win |-> x]
      BY DEF Copies
    <2> HIDE DEF more, x
    <2>2. QED
      BY <2>1, <1>2
  <1>4. x = At(cs, n)
    <2>1. -1 \in -back .. -1 /\ n + 0 + 1 + (-1) = n /\ fcb.bufpos - 1 = fcb.bufpos + (-1)
      BY DEF FcbOK
    <2>2. Rel(fcb, -1) = At(cs, n)
      BY <2>1, <1>1 DEF Behind
    <2>3. QED
      BY <2>1, <2>2 DEF Rel
  <1>5. Ended(fcb, TRUE) = c
    BY DEF Ended
  <1> HIDE DEF x, more
  <1>6. /\ FcbOK(c) /\ c.bufpos = (fcb.bufpos + Win) % BlockSize /\ c.curpos = fcb.curpos
        /\ \A d \in -BlockSize .. -1 :
             Rel(c, d) = IF d >= -Win THEN more[d + Win + 1] ELSE Rel(fcb, d + Win)
    BY ZenonT(40), <1>2, <1>3, CopyInEffect
  <1> HIDE DEF c
  <1>7. ASSUME NEW d \in -(back + Win) .. -1
        PROVE  Rel(c, d) = At(cs, n + Win + 1 + d)
    <2>1. d \in Int /\ d <= -1 /\ d >= -(back + Win) /\ d \in -BlockSize .. -1
      BY <1>2
    <2>2. CASE d >= -Win
      <3>1. PICK i \in 1 .. Win : i = d + Win + 1
        BY <2>1, <2>2, <1>2
      <3>2. PICK k \in Int : k = n + Win + 1 + d /\ k >= n + 1
        BY <2>1, <2>2, <1>2
      <3>3. Rel(c, d) = x
        BY <3>1, <2>1, <2>2, <1>3, <1>6
      <3>4. At(cs, k) = cs[n] /\ At(cs, n) = cs[n]
        BY <3>2, <1>1 DEF At
      <3>5. QED
        BY <3>2, <3>3, <3>4, <1>4
    <2>3. CASE ~ (d >= -Win)
      <3>1. PICK e \in Int : e = d + Win
        BY <2>1, <1>2
      <3>2. e \in -back .. -1 /\ n + 0 + 1 + e = n + Win + 1 + d
        BY <3>1, <2>1, <2>3, <1>2
      <3>3. Rel(fcb, e) = At(cs, n + 0 + 1 + e)
        BY <3>2, <1>1 DEF Behind
      <3>4. Rel(c, d) = Rel(fcb, e)
        BY <3>1, <2>1, <2>3, <1>6
      <3>5. QED
        BY <3>2, <3>3, <3>4
    <2>4. QED
      BY <2>2, <2>3
  <1>8. Behind(c, cs, Win, -(back + Win))
    BY <1>1, <1>7 DEF Behind
  <1>9. QED
    BY <1>5, <1>6, <1>8

(* How many frames wait for their window, and how many features more       *)
(* cepstra make.                                                           *)
LEMMA OnNumbers ==
  ASSUME NEW n \in Nat, NEW m \in Nat, NEW st \in {"given", "empty"}
  PROVE  /\ NoMoreThan(n, Win) = n - Positive(n - Win)
         /\ NoMoreThan(n, Win) \in 0 .. Win
         /\ Positive(n - Win) \in 0 .. n
         /\ Positive(n + m - Win) - Positive(n - Win) = Positive(n + m - Positive(n - Win) - Win)
         /\ Positive(n + m - Win) >= Positive(n - Win)
         /\ Positive(n + m - Win) - Positive(n - Win) <= m
         /\ NoMoreThan(n + m - Positive(n - Win), Win) = NoMoreThan(n + m, Win)
         /\ Back(n + m, st) <= Back(n, st) + m
         /\ Back(n, st) \in 0 .. 2 * Win
  <1>1. Win \in Int /\ Win >= 1 /\ n \in Int /\ n >= 0 /\ m \in Int /\ m >= 0
    BY Sizes
  <1>2. Positive(n - Win) = IF n < Win THEN 0 ELSE n - Win
    BY ONLY <1>1 DEF Positive
  <1>3. NoMoreThan(n, Win) = IF n < Win THEN n ELSE Win
    BY ONLY <1>1 DEF NoMoreThan
  <1>4. Positive(n + m - Win) = IF n + m < Win THEN 0 ELSE n + m - Win
    BY ONLY <1>1 DEF Positive
  <1>5. NoMoreThan(n + m, Win) = IF n + m < Win THEN n + m ELSE Win
    BY ONLY <1>1 DEF NoMoreThan
  <1>6. PICK p \in Int : p = Positive(n - Win) /\ p = IF n < Win THEN 0 ELSE n - Win
    BY ONLY <1>1, <1>2
  <1>7. Positive(n + m - p - Win) = IF n + m - p < Win THEN 0 ELSE n + m - p - Win
    BY ONLY <1>1, <1>6 DEF Positive
  <1>8. n + m - p \in Int /\ NoMoreThan(n + m - p, Win) = IF n + m - p < Win THEN n + m - p ELSE Win
    BY ONLY <1>1, <1>6 DEF NoMoreThan
  <1>9. NoMoreThan(n, Win) = n - p /\ NoMoreThan(n, Win) \in 0 .. Win /\ p \in 0 .. n
    BY ONLY <1>1, <1>3, <1>6
  <1>10. Positive(n + m - Win) - p = Positive(n + m - p - Win)
    BY ONLY <1>1, <1>4, <1>6, <1>7
  <1>11. Positive(n + m - Win) >= p /\ Positive(n + m - Win) - p <= m
    BY ONLY <1>1, <1>4, <1>6
  <1>12. NoMoreThan(n + m - p, Win) = NoMoreThan(n + m, Win)
    <2>1. p = IF n < Win THEN 0 ELSE n - Win
      BY <1>6
    <2>2. (IF n + m - p < Win THEN n + m - p ELSE Win) = IF n + m < Win THEN n + m ELSE Win
      BY ONLY <1>1, <2>1, p \in Int
    <2>3. QED
      BY ONLY <1>5, <1>8, <2>2
  <1>13. Back(n + m, st) <= Back(n, st) + m /\ Back(n, st) \in 0 .. 2 * Win
    <2>1. CASE st = "given"
      BY ONLY <1>1, <2>1 DEF Back
    <2>2. CASE st = "empty"
      BY ONLY <1>1, <2>2 DEF Back
    <2>3. QED
      BY <2>1, <2>2
  <1>14. QED
    BY <1>6, <1>9, <1>10, <1>11, <1>12, <1>13

(* What does not touch the buffer itself leaves what is behind it. *)
LEMMA BehindSame ==
  ASSUME NEW fcb, NEW other, other.bufpos = fcb.bufpos, other.cepbuf = fcb.cepbuf,
         NEW cs, NEW ahead, NEW lo \in Int, Behind(fcb, cs, ahead, lo), NEW more \in Int, more >= lo
  PROVE  Behind(other, cs, ahead, more)
  <1>1. \A d \in more .. -1 : d \in lo .. -1
    OBVIOUS
  <1>2. \A d : Rel(other, d) = Rel(fcb, d)
    BY DEF Rel
  <1>3. QED
    BY <1>1, <1>2 DEF Behind

(* The end that a call can mark: everything is in the buffer then. *)
Marked(end) == IF end THEN Win ELSE 0

(* feat_s2mfc2feat_live() in an utterance that goes on. *)
LEMMA LiveGoesOn ==
  ASSUME NEW V, NEW cs \in Seq(V), NEW more \in Seq(V), NEW fcb, FcbOK(fcb),
         NEW st, HoldsLast(fcb, cs, st), NEW end \in BOOLEAN,
         Len(more) <= 3 * Win + 1, end => Len(more) \in 1 .. 2 * Win + 1
  PROVE  LET r == Live(fcb, more, FALSE, end)
             from == Positive(Len(cs) - Win)
         IN  /\ r = [fcb |-> r.fcb, used |-> Len(more), feats |-> r.feats] /\ FcbOK(r.fcb)
             /\ end => FeaturesFrom(r.feats, Len(cs) + Len(more) - from, cs \o more, st, from)
             /\ ~end => FeaturesFrom(r.feats, Positive(Len(cs) + Len(more) - Win) - from, cs \o more, st, from)
             /\ ~end => HoldsLast(r.fcb, cs \o more, st)
  <1> DEFINE all == cs \o more
             c == CopyIn(fcb, more)
             full == Ended(c, end)
             r == Live(fcb, more, FALSE, end)
  <1>1. PICK n \in Nat, m \in Nat : n = Len(cs) /\ m = Len(more) /\ n + m = Len(all)
    OBVIOUS
  <1>2. /\ Win \in Nat /\ Win \in Int /\ Win >= 1 /\ BlockSize \in Nat \ {0}
        /\ BlockSize \in Int /\ BlockSize > 5 * Win
    BY Sizes
  <1>3. st \in {"given", "empty"} /\ (st = "given" => cs # <<>>) /\ all \in Seq(V)
    BY DEF HoldsLast
  <1>4. PICK from \in Nat, near \in Nat, back \in Nat, ahead \in Nat :
          /\ from = Positive(n - Win) /\ near = NoMoreThan(n, Win) /\ near = n - from /\ near <= Win
          /\ back = Back(n, st) /\ back <= 2 * Win
          /\ ahead = Marked(end) /\ from <= n
    <2>1. Marked(end) \in Nat
      BY <1>2 DEF Marked
    <2>2. /\ NoMoreThan(n, Win) = n - Positive(n - Win) /\ NoMoreThan(n, Win) \in 0 .. Win
          /\ Positive(n - Win) \in 0 .. n /\ Back(n, st) \in 0 .. 2 * Win
      BY <1>3, OnNumbers
    <2>3. QED
      BY <2>1, <2>2, <1>2
  <1>t. /\ n \in Int /\ n >= 0 /\ m \in Int /\ m >= 0 /\ from \in Int /\ from >= 0
        /\ near \in Int /\ near >= 0 /\ back \in Int /\ back >= 0 /\ ahead \in Int /\ ahead >= 0
        /\ Win \in Int /\ Win >= 1 /\ BlockSize \in Int /\ BlockSize > 5 * Win
        /\ near = n - from /\ near <= Win /\ back <= 2 * Win /\ from <= n
    BY <1>2, <1>4
  <1>5. m + ahead + back <= BlockSize /\ near + ahead + m <= BlockSize
    <2>1. CASE end
      <3>1. ahead = Win /\ m <= 2 * Win + 1
        BY <2>1, <1>1, <1>4 DEF Marked
      <3>2. QED
        BY ONLY <3>1, <1>t
    <2>2. CASE ~end
      <3>1. ahead = 0 /\ m <= 3 * Win + 1
        BY <2>2, <1>1, <1>4 DEF Marked
      <3>2. QED
        BY ONLY <3>1, <1>t
    <2>3. QED
      BY <2>1, <2>2
  <1>6. Rem(fcb.bufpos - fcb.curpos, BlockSize) = near /\ Behind(fcb, cs, 0, -back)
    BY <1>1, <1>3, <1>4, HoldsBack
  <1>7. /\ FcbOK(c) /\ c.bufpos = (fcb.bufpos + m) % BlockSize /\ c.curpos = fcb.curpos
        /\ Behind(c, all, 0, -(back + m))
    <2>1. cs # <<>> \/ back <= n
      <3>1. CASE st = "given"
        BY <3>1, <1>3
      <3>2. CASE st = "empty"
        BY <3>2, <1>4, BackIs
      <3>3. QED
        BY <3>1, <3>2, <1>3
    <2>2. m + back <= BlockSize
      BY ONLY <1>t, <1>5
    <2>3. Len(more) + back <= BlockSize /\ (cs # <<>> \/ back <= Len(cs))
      BY <2>1, <2>2, <1>1
    <2>4. /\ FcbOK(c) /\ c.bufpos = (fcb.bufpos + Len(more)) % BlockSize /\ c.curpos = fcb.curpos
          /\ Behind(c, cs \o more, 0, -(back + Len(more)))
      BY <2>3, <1>6, CopyMore
    <2>5. QED
      BY <2>4, <1>1
  <1> HIDE DEF c
  <1>8. /\ FcbOK(full) /\ full.curpos = fcb.curpos
        /\ Rem(full.bufpos, BlockSize) = Rem(fcb.bufpos + m + ahead, BlockSize)
        /\ Behind(full, all, ahead, -(back + m + ahead))
    <2>1. CASE end
      <3>1. PICK b \in Nat : b = back + m /\ b >= 1
        <4>1. m >= 1
          BY <2>1, <1>1
        <4>2. QED
          BY <4>1
      <3>2. all # <<>> /\ Win + b <= BlockSize /\ ahead = Win
        <4>1. m >= 1
          BY <2>1, <1>1
        <4>2. all # <<>>
          BY ONLY <4>1, <1>1, <1>3, n \in Nat, m \in Nat
        <4>3. ahead = Win
          BY <2>1, <1>4 DEF Marked
        <4>4. QED
          BY ONLY <4>2, <4>3, <3>1, <1>2, <1>5, m \in Nat, back \in Nat
      <3>3. /\ FcbOK(full) /\ full.bufpos = (c.bufpos + Win) % BlockSize
            /\ full.curpos = c.curpos /\ Behind(full, all, Win, -(b + Win))
        BY <3>1, <3>2, <2>1, <1>3, <1>7, CopyLast
      <3> HIDE DEF full
      <3>4. Rem(full.bufpos, BlockSize) = Rem(fcb.bufpos + m + ahead, BlockSize)
        <4>1. PICK x \in Int, y \in Int : x = fcb.bufpos + m /\ y = c.bufpos
          BY <1>7 DEF FcbOK
        <4>2. Rem(x, BlockSize) = y /\ Rem(y, BlockSize) = Rem(x, BlockSize)
          <5>1. y = Rem(x, BlockSize)
            BY <4>1, <1>7 DEF Rem
          <5>2. QED
            BY <5>1, <1>2, RemTwice
        <4>3. Rem(y + Win, BlockSize) = Rem(x + Win, BlockSize)
          BY ONLY <4>2, <1>2, x \in Int, y \in Int, RemShift
        <4>4. full.bufpos = Rem(y + Win, BlockSize)
          BY <3>3, <4>1 DEF Rem
        <4>5. Rem(Rem(y + Win, BlockSize), BlockSize) = Rem(y + Win, BlockSize)
          BY <1>2, RemTwice
        <4>6. QED
          BY <4>1, <4>3, <4>4, <4>5, <3>2
      <3>5. -(b + Win) = -(back + m + ahead)
        BY <3>1, <3>2, <1>2
      <3>6. QED
        BY <3>2, <3>3, <3>4, <3>5, <1>7
    <2>2. CASE ~end
      <3>1. full = c /\ ahead = 0
        BY <2>2, <1>4 DEF Ended, Marked
      <3>2. PICK x \in Int : x = fcb.bufpos + m /\ x = fcb.bufpos + m + ahead
        BY <3>1 DEF FcbOK
      <3>3. c.bufpos = Rem(x, BlockSize)
        BY <3>2, <1>7 DEF Rem
      <3>4. Rem(Rem(x, BlockSize), BlockSize) = Rem(x, BlockSize)
        BY <1>2, RemTwice
      <3>5. -(back + m + ahead) = -(back + m)
        BY <3>1
      <3>6. QED
        BY <3>1, <3>2, <3>3, <3>4, <3>5, <1>7
    <2>3. QED
      BY <2>1, <2>2
  <1> HIDE DEF full
  <1>9. Rem(full.curpos, BlockSize) = Rem(full.bufpos - (n + m + ahead - from), BlockSize)
    <2>1. PICK x \in Int, pos \in Int, cur \in Int, k \in Int :
            /\ x = full.bufpos /\ pos = fcb.bufpos /\ cur = fcb.curpos
            /\ k = -(n + m + ahead - from)
      <3>1. full.bufpos \in Int /\ fcb.bufpos \in Int /\ fcb.curpos \in Int
        BY <1>8 DEF FcbOK
      <3>2. -(n + m + ahead - from) \in Int
        BY ONLY <1>t
      <3>3. QED
        BY <3>1, <3>2
    <2>2. PICK y \in Int : y = pos + m + ahead
      OBVIOUS
    <2>3. Rem(x, BlockSize) = Rem(y, BlockSize)
      BY <2>1, <2>2, <1>8
    <2>4. Rem(x + k, BlockSize) = Rem(y + k, BlockSize)
      BY ONLY <2>3, <1>2, x \in Int, y \in Int, k \in Int, RemShift
    <2>5. y + k = pos - near /\ x + k = x - (n + m + ahead - from)
      <3>1. k = -(n + m + ahead - from) /\ k \in Int
        BY <2>1
      <3>2. QED
        BY ONLY <3>1, <2>2, <1>t, x \in Int, y \in Int, pos \in Int
    <2>6. near \in 0 .. BlockSize - 1
      BY <1>2, <1>4
    <2>7. Rem(cur, BlockSize) = Rem(pos - near, BlockSize)
      <3>1. Rem(pos - cur, BlockSize) = near
        BY <2>1, <1>6
      <3>2. QED
        <4>1. PICK u \in Int, z \in Int : u = pos - near /\ z = pos - cur
          BY ONLY <2>6, <1>2, pos \in Int, cur \in Int
        <4>2. cur + z = u + near
          BY ONLY <4>1, <2>6, <1>2, pos \in Int, cur \in Int
        <4>3. Rem(cur, BlockSize) = Rem(u, BlockSize)
          <5>1. Rem(z, BlockSize) = near
            BY <3>1, <4>1
          <5>2. QED
            <6>1. Facing(cur, u, z, near, BlockSize)
              BY ONLY <4>2, <2>6, <1>2, cur \in Int, u \in Int, z \in Int DEF Facing
            <6>2. QED
              BY ONLY <6>1, <5>1, RemFacing
        <4>4. QED
          BY <4>1, <4>3
    <2>8. QED
      BY <2>1, <2>4, <2>5, <2>7, <1>8
  <1>10. PICK nfeat \in Int, lo \in Int : nfeat = n + m + ahead - from - Win /\ lo = -(back + m + ahead)
    BY <1>2
  <1> DEFINE after == IF nfeat > 0 THEN [full EXCEPT !.curpos = (@ + nfeat) % BlockSize] ELSE full
             feats == [i \in 1 .. nfeat |-> FeatureAt(full, full.curpos + i - 1)]
  <1>11. /\ FeaturesFrom(feats, Positive(nfeat), all, st, from)
         /\ FcbOK(after) /\ after.bufpos = full.bufpos /\ after.cepbuf = full.cepbuf
         /\ Rem(after.bufpos - after.curpos, BlockSize) = NoMoreThan(n + m + ahead - from, Win)
    <2>1. /\ st = "given" => back >= n + Win - from
          /\ st = "empty" => (Win <= from /\ back >= n + Win - from) \/ back >= n
      <3>1. /\ st = "given" => back >= 0 - from + n + Win
            /\ st = "empty" => (Win <= from /\ back >= n + Win - from) \/ back >= n
        BY <1>4, <1>3, BackIs
      <3>2. QED
        BY ONLY <3>1, <1>t
    <2>2. /\ st = "given" => from - Win - (n + m) - ahead >= lo
          /\ st = "empty" => (Win <= from /\ from - Win - (n + m) - ahead >= lo) \/ -(n + m + ahead) >= lo
      BY ONLY <2>1, <1>t, <1>10, lo \in Int
    <2>3. from <= n + m + ahead
      BY SMTT(30), <1>4
    <2>4. Behind(full, all, ahead, lo)
      BY <1>8, <1>10
    <2>5. /\ from <= Len(all) + ahead
          /\ st = "given" => from - Win - Len(all) - ahead >= lo
          /\ st = "empty" => (Win <= from /\ from - Win - Len(all) - ahead >= lo) \/ -(Len(all) + ahead) >= lo
          /\ nfeat = Len(all) + ahead - from - Win
          /\ Rem(full.curpos, BlockSize) = Rem(full.bufpos - (Len(all) + ahead - from), BlockSize)
      BY <2>2, <2>3, <1>1, <1>9, <1>10
    <2> HIDE DEF all
    <2>6. /\ FeaturesFrom(feats, Positive(nfeat), all, st, from)
          /\ FcbOK(after) /\ after.bufpos = full.bufpos /\ after.cepbuf = full.cepbuf
          /\ Rem(after.bufpos - after.curpos, BlockSize) = NoMoreThan(Len(all) + ahead - from, Win)
      <3>1. Ready(full, all, ahead, from, st, lo, nfeat)
        BY <2>4, <2>5, <1>3, <1>8 DEF Ready
      <3>2. after = Past(full, nfeat) /\ feats = FeaturesAt(full, nfeat)
        BY DEF Past, FeaturesAt
      <3> HIDE DEF after, feats
      <3>3. QED
        BY <3>1, <3>2, <1>3, LiveEnds
    <2>7. QED
      BY <2>6, <1>1
  <1>12. r = [fcb |-> after, used |-> m, feats |-> feats]
    <2>1. r = LiveBlock(fcb, more, FALSE, end)
      BY DEF Live
    <2>2. Buffered(fcb, FALSE) = near
      BY <1>6 DEF Buffered, Rem
    <2>3. PICK nbuf \in Nat : nbuf = near + ahead
      OBVIOUS
    <2>4. WithPadding(near, m, FALSE, end) = nbuf
      BY <2>3, <1>2, <1>4 DEF WithPadding, Marked
    <2>5. nbuf + m <= BlockSize
      BY <2>3, <1>5
    <2>6. SubSeq(more, 1, m) = more
      BY <1>1
    <2>7. Begun(fcb, more, FALSE) = fcb
      BY DEF Begun
    <2>8. nbuf + m - Win - 0 = nfeat
      BY ONLY <2>3, <1>10, <1>t, nbuf \in Nat
    <2>9. LiveBlock(fcb, more, FALSE, end) = [fcb |-> after, used |-> m, feats |-> feats]
      BY <2>2, <2>4, <2>5, <2>6, <2>7, <2>8, <1>1 DEF LiveBlock, full, c
    <2>10. QED
      BY <2>1, <2>9
  <1> HIDE DEF after, feats, r, all
  <1>13. r.fcb = after /\ r.feats = feats
    BY <1>12
  <1>14. end => nfeat = n + m - from /\ Positive(nfeat) = n + m - from
    <2>1. end => ahead = Win
      BY <1>4 DEF Marked
    <2>2. end => nfeat = n + m - from /\ nfeat >= 0
      BY ONLY <2>1, <1>t, <1>10, nfeat \in Int
    <2>3. QED
      BY <2>2, PositiveIs
  <1>15. ASSUME ~end
         PROVE  /\ Positive(nfeat) = Positive(n + m - Win) - from
                /\ NoMoreThan(n + m + ahead - from, Win) = NoMoreThan(n + m, Win)
                /\ Back(n + m, st) <= back + m /\ ahead = 0
    <2>1. ahead = 0
      BY <1>15, <1>4 DEF Marked
    <2>2. nfeat = n + m - from - Win /\ n + m + ahead - from = n + m - from
      BY ONLY <2>1, <1>t, <1>10
    <2>3. /\ Positive(n + m - Win) - Positive(n - Win) = Positive(n + m - Positive(n - Win) - Win)
          /\ NoMoreThan(n + m - Positive(n - Win), Win) = NoMoreThan(n + m, Win)
          /\ Back(n + m, st) <= Back(n, st) + m
      BY <1>3, OnNumbers
    <2>4. from = Positive(n - Win) /\ back = Back(n, st)
      BY <1>4
    <2>5. QED
      BY ONLY <2>1, <2>2, <2>3, <2>4
  <1>16. ASSUME ~end
         PROVE  HoldsLast(after, all, st)
    <2>1. PICK b \in Nat : b = Back(n + m, st)
      <3>1. n + m \in Nat
        OBVIOUS
      <3>2. Back(n + m, st) \in 0 .. 2 * Win
        BY ONLY <3>1, <1>3, BackIs
      <3>3. QED
        BY <3>2, <1>2
    <2>2. -b >= lo /\ -b \in Int /\ ahead = 0
      BY <2>1, <1>15, <1>16, <1>10
    <2>3. Behind(after, all, 0, -b)
      BY <2>2, <1>8, <1>10, <1>11, BehindSame
    <2>4. st = "given" => all # <<>>
      BY <1>3, <1>1 DEF all
    <2>5. Rem(after.bufpos - after.curpos, BlockSize) = NoMoreThan(n + m, Win)
      BY <1>11, <1>15, <1>16
    <2>6. QED
      BY <2>1, <2>3, <2>4, <2>5, <1>1, <1>3, <1>11, HoldsBack
  <1>17. QED
    BY <1>1, <1>4, <1>11, <1>12, <1>13, <1>14, <1>15, <1>16 DEF r, all

(* Whether the first call of an utterance gave anything. *)
Given(more) == IF more = <<>> THEN "empty" ELSE "given"

(* The padding before an utterance and its first cepstra. *)
LEMMA CopyFirst ==
  ASSUME NEW V, NEW more \in Seq(V), more # <<>>, NEW fcb, FcbOK(fcb),
         Len(more) + Win <= BlockSize
  PROVE  LET c == CopyIn(Begun(fcb, more, TRUE), more)
         IN  /\ FcbOK(c) /\ Behind(c, more, 0, -(Len(more) + Win))
             /\ Rem(c.curpos, BlockSize) = Rem(c.bufpos - Len(more), BlockSize)
  <1> DEFINE x == more[1]
             pad == Copies(x, Win)
             empty == [fcb EXCEPT !.bufpos = fcb.curpos]
             padded == CopyIn(empty, pad)
             begun == [padded EXCEPT !.curpos = padded.bufpos]
             c == CopyIn(begun, more)
  <1>1. PICK m \in Nat : m = Len(more) /\ m >= 1
    OBVIOUS
  <1>2. /\ Win \in Nat /\ Win \in Int /\ Win >= 1 /\ BlockSize \in Nat \ {0}
        /\ BlockSize \in Int /\ Win <= BlockSize /\ m + Win <= BlockSize /\ m <= BlockSize
        /\ m \in Int /\ m >= 1
    BY Sizes, <1>1
  <1>3. pad = [i \in 1 .. Win |-> x] /\ pad \in Seq({x}) /\ Len(pad) = Win
    <2>1. pad = [i \in 1 .. Win |-> x]
      BY DEF Copies
    <2> HIDE DEF pad, x
    <2>2. QED
      BY <2>1, <1>2
  <1>4. Begun(fcb, more, TRUE) = begun
    BY DEF Begun
  <1> HIDE DEF x, pad
  <1>5. FcbOK(empty)
    BY DEF FcbOK
  <1> HIDE DEF empty
  <1>6. /\ FcbOK(padded)
        /\ \A d \in -BlockSize .. -1 :
             Rel(padded, d) = IF d >= -Win THEN pad[d + Win + 1] ELSE Rel(empty, d + Win)
    BY ZenonT(40), <1>2, <1>3, <1>5, CopyInEffect
  <1> HIDE DEF padded
  <1>7. FcbOK(begun) /\ begun.curpos = begun.bufpos
    BY <1>6 DEF FcbOK
  <1>8. ASSUME NEW d \in -Win .. -1
        PROVE  Rel(begun, d) = x
    <2>1. d \in -BlockSize .. -1 /\ d >= -Win /\ d + Win + 1 \in 1 .. Win
      BY <1>2
    <2>2. Rel(padded, d) = x
      BY <2>1, <1>3, <1>6
    <2>3. begun.cepbuf = padded.cepbuf /\ begun.bufpos = padded.bufpos
      BY <1>6 DEF FcbOK
    <2> HIDE DEF begun
    <2>4. QED
      BY <2>2, <2>3 DEF Rel
  <1> HIDE DEF begun
  <1>9. /\ FcbOK(c) /\ c.curpos = begun.curpos /\ c.bufpos = (begun.bufpos + m) % BlockSize
        /\ \A d \in -BlockSize .. -1 :
             Rel(c, d) = IF d >= -m THEN more[d + m + 1] ELSE Rel(begun, d + m)
    BY <1>1, <1>2, <1>7, CopyInEffect
  <1> HIDE DEF c
  <1>10. ASSUME NEW d \in -(m + Win) .. -1
         PROVE  Rel(c, d) = At(more, m + 0 + 1 + d)
    <2>1. d \in Int /\ d <= -1 /\ d >= -(m + Win) /\ d \in -BlockSize .. -1
      BY <1>2
    <2>2. PICK k \in Int : k = m + 0 + 1 + d /\ k <= m /\ k = d + m + 1
      BY <2>1, <1>2
    <2>3. CASE d >= -m
      <3>1. k >= 1
        BY <2>1, <2>2, <2>3, <1>2
      <3>2. At(more, k) = more[k]
        BY <3>1, <2>2, <1>1 DEF At
      <3>3. Rel(c, d) = more[k]
        BY <2>1, <2>2, <2>3, <1>9
      <3>4. QED
        BY <3>2, <3>3, <2>2
    <2>4. CASE ~ (d >= -m)
      <3>1. PICK e \in Int : e = d + m /\ e \in -Win .. -1
        BY <2>1, <2>4, <1>2
      <3>2. k < 1
        BY <2>1, <2>2, <2>4, <1>2
      <3>3. At(more, k) = x
        BY <3>2 DEF At, x
      <3>4. Rel(c, d) = Rel(begun, e)
        BY <3>1, <2>1, <2>4, <1>9
      <3>5. QED
        BY <3>1, <3>3, <3>4, <2>2, <1>8
    <2>5. QED
      BY <2>3, <2>4
  <1>11. Behind(c, more, 0, -(m + Win))
    BY <1>1, <1>10 DEF Behind
  <1>12. Rem(c.curpos, BlockSize) = Rem(c.bufpos - m, BlockSize)
    <2>1. PICK cur \in Int, pos \in Int, sum \in Int :
            cur = c.curpos /\ pos = c.bufpos /\ sum = cur + m
      <3>1. c.curpos \in Int /\ c.bufpos \in Int
        BY <1>9 DEF FcbOK
      <3>2. QED
        BY <3>1, <1>2
    <2>2. pos = Rem(sum, BlockSize)
      BY <2>1, <1>7, <1>9 DEF Rem
    <2>3. Rem(pos, BlockSize) = Rem(sum, BlockSize)
      BY <2>2, <1>2, RemTwice
    <2>4. Rem(pos + (-m), BlockSize) = Rem(sum + (-m), BlockSize)
      <3>1. -m \in Int /\ BlockSize \in Nat \ {0}
        BY <1>2
      <3>2. QED
        BY ONLY <2>3, <3>1, pos \in Int, sum \in Int, RemShift
    <2>5. pos + (-m) = pos - m /\ sum + (-m) = cur
      <3>1. sum = cur + m
        BY <2>1
      <3>2. QED
        BY ONLY <3>1, m \in Nat, cur \in Int, pos \in Int, sum \in Int
    <2>6. QED
      BY <2>1, <2>4, <2>5
  <1>13. CopyIn(Begun(fcb, more, TRUE), more) = c
    BY <1>4 DEF c
  <1>14. QED
    BY <1>1, <1>9, <1>11, <1>12, <1>13

(* feat_s2mfc2feat_live() at the beginning of an utterance. *)
LEMMA LiveBegins ==
  ASSUME NEW V, NEW more \in Seq(V), NEW fcb, FcbOK(fcb), Len(more) <= 3 * Win + 1
  PROVE  LET r == Live(fcb, more, TRUE, FALSE)
         IN  /\ r = [fcb |-> r.fcb, used |-> Len(more), feats |-> r.feats] /\ FcbOK(r.fcb)
             /\ FeaturesFrom(r.feats, Positive(Len(more) - Win), more, Given(more), 0)
             /\ HoldsLast(r.fcb, more, Given(more))
  <1> DEFINE r == Live(fcb, more, TRUE, FALSE)
             full == CopyIn(Begun(fcb, more, TRUE), more)
  <1>1. PICK m \in Nat : m = Len(more)
    OBVIOUS
  <1>2. /\ Win \in Nat /\ Win \in Int /\ Win >= 1 /\ BlockSize \in Nat \ {0}
        /\ BlockSize \in Int /\ BlockSize > 5 * Win /\ m \in Int /\ m >= 0 /\ m <= 3 * Win + 1
    BY Sizes, <1>1
  <1>3. PICK nfeat \in Int : nfeat = m - Win
    BY <1>2
  <1>4. r = [fcb |-> Past(full, nfeat), used |-> m, feats |-> FeaturesAt(full, nfeat)]
    <2>1. r = LiveBlock(fcb, more, TRUE, FALSE)
      BY DEF Live
    <2>2. Buffered(fcb, TRUE) = 0
      BY DEF Buffered
    <2>3. PICK pad \in Nat, nbuf \in Nat : pad = (IF m > 0 THEN Win ELSE 0) /\ nbuf = pad
      BY <1>2
    <2>4. WithPadding(0, m, TRUE, FALSE) = nbuf
      BY <2>3, <1>2 DEF WithPadding
    <2>5. nbuf + m <= BlockSize
      BY <2>3, <1>2
    <2>6. SubSeq(more, 1, m) = more
      BY <1>1
    <2>7. Ended(full, FALSE) = full
      BY DEF Ended
    <2>8. nbuf + m - Win - pad = nfeat
      BY ONLY <2>3, <1>2, <1>3
    <2> HIDE DEF full
    <2>9. LiveBlock(fcb, more, TRUE, FALSE) = [fcb |-> Past(full, nfeat), used |-> m, feats |-> FeaturesAt(full, nfeat)]
      BY <2>2, <2>3, <2>4, <2>5, <2>6, <2>7, <2>8, <1>1 DEF LiveBlock, full, Past, FeaturesAt
    <2>10. QED
      BY <2>1, <2>9
  <1>p. Positive(Len(more) - Win) = Positive(nfeat)
    BY <1>1, <1>3
  <1> HIDE DEF r
  <1>r. r.fcb = Past(full, nfeat) /\ r.feats = FeaturesAt(full, nfeat) /\ r.used = m
    <2> HIDE DEF full
    <2>1. QED BY <1>4
  <1>5. CASE more # <<>>
    <2>1. Given(more) = "given" /\ m >= 1
      BY <1>1, <1>5 DEF Given
    <2>2. /\ FcbOK(full) /\ Behind(full, more, 0, -(m + Win))
          /\ Rem(full.curpos, BlockSize) = Rem(full.bufpos - m, BlockSize)
      <3>1. Len(more) + Win <= BlockSize
        BY ONLY <1>1, <1>2
      <3>2. QED
        BY <3>1, <1>1, <1>5, CopyFirst
    <2> HIDE DEF full
    <2>3. PICK lo \in Int : lo = -(m + Win)
      BY <1>2
    <2>4. Ready(full, more, 0, 0, "given", lo, nfeat)
      <3>1. m + 0 - 0 = m /\ 0 - Win - m - 0 >= lo /\ nfeat = m + 0 - 0 - Win /\ 0 <= m + 0
        BY ONLY <2>3, <1>2, <1>3, lo \in Int
      <3>2. QED
        BY <3>1, <2>2, <2>3, <1>1 DEF Ready
    <2>5. /\ FeaturesFrom(FeaturesAt(full, nfeat), Positive(nfeat), more, "given", 0)
          /\ FcbOK(Past(full, nfeat))
          /\ Past(full, nfeat).bufpos = full.bufpos /\ Past(full, nfeat).cepbuf = full.cepbuf
          /\ Rem(Past(full, nfeat).bufpos - Past(full, nfeat).curpos, BlockSize) = NoMoreThan(m + 0 - 0, Win)
      BY <2>4, <1>1, LiveEnds
    <2>6. m + 0 - 0 = m
      BY <1>2
    <2>7. HoldsLast(Past(full, nfeat), more, "given")
      <3>1. PICK b \in Nat : b = Back(m, "given") /\ b <= m + Win
        <4>1. Back(m, "given") \in 0 .. 2 * Win /\ Back(m, "given") <= m + Win
          BY BackIs
        <4>2. QED
          BY <4>1, <1>2
      <3>2. -b \in Int /\ -b >= lo
        BY <3>1, <2>3, <1>2
      <3>3. Behind(Past(full, nfeat), more, 0, -b)
        BY <3>2, <2>2, <2>3, <2>5, BehindSame
      <3>4. QED
        BY <3>1, <3>3, <2>5, <2>6, <1>1, <1>5, HoldsBack
    <2>8. QED
      BY ONLY <2>1, <2>5, <2>7, <1>1, <1>4, <1>p, <1>r DEF r
  <1>6. CASE more = <<>>
    <2>1. Given(more) = "empty" /\ m = 0 /\ nfeat < 0
      BY <1>1, <1>2, <1>3, <1>6 DEF Given
    <2> DEFINE empty == [fcb EXCEPT !.bufpos = fcb.curpos]
    <2>2. Begun(fcb, more, TRUE) = empty
      BY <1>6 DEF Begun
    <2>3. FcbOK(empty) /\ empty.bufpos = empty.curpos
      BY DEF FcbOK
    <2> HIDE DEF empty
    <2>4. FcbOK(full) /\ full.bufpos = (empty.bufpos + 0) % BlockSize /\ full.curpos = empty.curpos
      <3>1. Len(more) <= BlockSize /\ Len(more) = 0
        BY <2>1, <1>1, <1>2
      <3>2. QED
        BY <3>1, <2>2, <2>3, CopyInEffect
    <2> HIDE DEF full
    <2>5. Past(full, nfeat) = full
      BY <2>1 DEF Past
    <2>6. Rem(full.bufpos - full.curpos, BlockSize) = 0
      <3>1. PICK p \in 0 .. BlockSize - 1 : p = empty.bufpos /\ p = empty.curpos
        BY <2>3 DEF FcbOK
      <3>2. p + 0 = p /\ Rem(p, BlockSize) = p
        BY <3>1, <1>2, RemSmall
      <3>3. full.bufpos = p /\ full.curpos = p
        BY <3>1, <3>2, <2>4 DEF Rem
      <3>4. p - p = 0 /\ 0 \in 0 .. BlockSize - 1
        BY <3>1, <1>2
      <3>5. Rem(0, BlockSize) = 0
        BY <3>4, <1>2, RemSmall
      <3>6. QED
        BY <3>3, <3>4, <3>5
    <2>7. HoldsLast(full, more, "empty")
      <3>1. NoMoreThan(0, Win) = 0
        BY <1>2, LeastIs
      <3>2. Back(0, "empty") = 0
        BY <1>2 DEF Back
      <3>3. Behind(full, more, 0, -0)
        BY DEF Behind
      <3>4. QED
        BY <3>1, <3>2, <3>3, <2>1, <2>4, <2>6, <1>1, HoldsBack
    <2>8. FeaturesFrom(FeaturesAt(full, nfeat), 0, more, "empty", 0)
      <3>1. FeaturesAt(full, nfeat) = <<>>
        BY <2>1 DEF FeaturesAt
      <3>2. <<>> = [i \in 1 .. 0 |-> <<>>[i]]
        OBVIOUS
      <3>3. QED
        BY <3>1, <3>2 DEF FeaturesFrom
    <2>9. Positive(m - Win) = 0
      BY <2>1, <1>3, PositiveIs
    <2>10. QED
      BY ONLY <2>1, <2>4, <2>5, <2>7, <2>8, <2>9, <1>1, <1>3, <1>4, <1>p, <1>r DEF r
  <1>7. QED
    BY <1>5, <1>6

(* feat_s2mfc2feat_block_utt() *)
LEMMA BlockUttEffect ==
  ASSUME NEW V, NEW s \in Seq(V), s # <<>>, NEW fcb, FcbOK(fcb)
  PROVE  LET r == Live(fcb, s, TRUE, TRUE)
         IN  FcbOK(r.fcb) /\ FeaturesFrom(r.feats, Len(s), s, "given", 0)
  <1> DEFINE r == BlockUtt(fcb, s)
  <1>1. Live(fcb, s, TRUE, TRUE) = r
    BY DEF Live
  <1>2. FcbOK(r.fcb)
    BY DEF FcbOK, BlockUtt
  <1>3. PICK n \in Nat : n = Len(s)
    OBVIOUS
  <1>4. r.feats = [i \in 1 .. n |-> BlockFeature(s, i)]
    BY <1>3 DEF BlockUtt
  <1> HIDE DEF r
  <1>5. Len(r.feats) = n /\ \A i \in 1 .. n : r.feats[i] = BlockFeature(s, i)
    BY <1>4
  <1>6. r.feats = [i \in 1 .. n |-> r.feats[i]]
    BY <1>4
  <1>7. ASSUME NEW i \in 1 .. n
        PROVE  Fits(r.feats[i], s, "given", 0 + i - 1)
    <2>1. (0 + i - 1) + 1 = i
      OBVIOUS
    <2>2. QED
      BY <2>1, <1>5 DEF Fits
  <1>8. FeaturesFrom(r.feats, n, s, "given", 0)
    BY <1>5, <1>6, <1>7 DEF FeaturesFrom
  <1>9. QED
    BY <1>1, <1>2, <1>3, <1>8

(* A feature computed from cepstra that are there stays what it is when    *)
(* more come.                                                              *)
LEMMA FitsMore ==
  ASSUME NEW V, NEW cs \in Seq(V), NEW more \in Seq(V), NEW x, NEW st,
         NEW f \in Nat, f < Positive(Len(cs) - Win), Fits(x, cs, st, f)
  PROVE  Fits(x, cs \o more, st, f)
  <1>1. PICK n \in Nat : n = Len(cs)
    OBVIOUS
  <1>2. Win \in Int /\ Win >= 1 /\ n \in Int /\ f \in Int /\ f >= 0
    BY Sizes
  <1>3. f < n - Win
    <2>1. PICK y \in Int : y = n - Win
      BY <1>2
    <2>2. f < Positive(y)
      BY <2>1, <1>1
    <2>3. QED
      BY <2>1, <2>2, <1>2, PositiveIs
  <1>4. cs # <<>>
    <2>1. n # 0
      BY <1>2, <1>3
    <2>2. QED
      BY <2>1, <1>1
  <1>5. ASSUME NEW j \in 1 .. 2 * Win + 1
        PROVE  At(cs \o more, f + 1 + j - Win - 1) = At(cs, f + 1 + j - Win - 1)
    <2>1. PICK k \in Int : k = f + 1 + j - Win - 1 /\ k <= n
      BY <1>2, <1>3
    <2>2. At(cs \o more, k) = At(cs, k)
      BY <2>1, <1>1, <1>4, AtAppended
    <2>3. QED
      BY <2>1, <2>2
  <1>6. \A ss : BlockFeature(ss, f + 1) = [j \in 1 .. 2 * Win + 1 |-> At(ss, f + 1 + j - Win - 1)]
    BY DEF BlockFeature, At
  <1>7. BlockFeature(cs \o more, f + 1) = BlockFeature(cs, f + 1)
    BY <1>5, <1>6
  <1>8. QED
    BY <1>7 DEF Fits

-----------------------------------------------------------------------------
(* The queue of features: what is in which slot of a buffer that goes around. *)

(* The fields of acmod. *)
AmFields ==
  {"state", "grow", "fe", "fcb", "mfcBuf", "nMfc", "mfcOut", "featBuf", "nAlloc", "nFeat",
   "featOut", "output", "senscr", "scores"}

(* A record with these fields. *)
IsAm(a) == a = [f \in AmFields |-> a[f]]

(* Nothing but some fields changes. *)
Keeps(a, b, changed) == \A f \in AmFields \ changed : b[f] = a[f]

(* Feature f is in its slot of a buffer that goes around, of made features *)
(* the last ones.                                                          *)
RingOf(buf, size, made, cs, st) ==
  \A f \in 0 .. made - 1 : f >= made - size => Fits(buf[Rem(f, size)], cs, st, f)

(* How many features were made of the utterance. *)
Made(a) == a.output + a.nFeat

(* The queue of features is within its buffer, and starts at the slot of   *)
(* the output frame.                                                       *)
QueueOK(a) ==
  /\ a.nAlloc \in Nat \ {0} /\ a.nFeat \in 0 .. a.nAlloc /\ a.output \in Nat
  /\ a.featOut = Rem(a.output, a.nAlloc)
  /\ a.featBuf = [p \in 0 .. a.nAlloc - 1 |-> a.featBuf[p]]

(* RingOf, of acmod. *)
Ring(a, cs, st) == RingOf(a.featBuf, a.nAlloc, Made(a), cs, st)

(* The scores that are kept are those of the frame they are said to be of. *)
KeptOf(senscr, scores, made, cs, st) ==
  senscr = -1 \/ (senscr \in 0 .. made - 1 /\ Fits(scores, cs, st, senscr))

(* KeptOf, of acmod. *)
Kept(a, cs, st) == KeptOf(a.senscr, a.scores, Made(a), cs, st)

(* What acmod holds of an utterance. *)
Stream(a, cs, st) ==
  IsAm(a) /\ QueueOK(a) /\ FcbOK(a.fcb) /\ Ring(a, cs, st) /\ Kept(a, cs, st)

(* The live buffer goes on, and every frame with its window in it has its  *)
(* feature.                                                                *)
Flows(a, cs, st) == HoldsLast(a.fcb, cs, st) /\ Made(a) = Positive(Len(cs) - Win)

(* Features written from the slot of the next one on, up to the end of the *)
(* buffer, leave the others.                                               *)
LEMMA RingWritten ==
  ASSUME NEW buf, NEW size \in Nat \ {0}, NEW made \in Nat, NEW cs, NEW st, NEW n \in Nat, NEW feats,
         RingOf(buf, size, made, cs, st), FeaturesFrom(feats, n, cs, st, made),
         NEW pos \in Int, pos = Rem(made, size), pos + n <= size,
         NEW new, \A p \in 0 .. size - 1 :
                     new[p] = IF p \in pos .. pos + n - 1 THEN feats[p - pos + 1] ELSE buf[p]
  PROVE  RingOf(new, size, made + n, cs, st)
  <1>1. ASSUME NEW f \in 0 .. (made + n) - 1, f >= (made + n) - size
        PROVE  Fits(new[Rem(f, size)], cs, st, f)
    <2>1. f \in Int /\ 0 <= f /\ f < made + n /\ f + size >= made + n /\ made \in Int /\ n \in Int
      BY <1>1
    <2>2. PICK p \in 0 .. size - 1 : p = Rem(f, size)
      BY <2>1, RemRange
    <2>p. pos \in 0 .. size - 1
      BY RemRange
    <2>3. CASE f >= made
      <3>1. PICK i \in Int : i = f - made + 1
        BY <2>1
      <3>2. i \in 1 .. n /\ made + i - 1 = f /\ pos + i - 1 \in 0 .. size - 1
        BY <3>1, <2>1, <2>3, <2>p
      <3>3. Rem(f, size) = pos + i - 1
        <4>1. Rem(pos, size) = Rem(made, size)
          BY <2>1, RemTwice
        <4>2. PICK x \in Int, k \in Int : x = pos + i - 1 /\ k = i - 1
          BY <3>1
        <4>3. Rem(pos + k, size) = Rem(made + k, size)
          BY ONLY <4>1, size \in Nat \ {0}, made \in Nat, pos \in Int, k \in Int, RemShift
        <4>4. pos + k = x /\ made + k = f
          BY <4>2, <3>1, <2>1
        <4>5. Rem(x, size) = x
          BY <4>2, <3>2, RemSmall
        <4>6. QED
          BY <4>2, <4>3, <4>4, <4>5
      <3>4. p \in pos .. pos + n - 1 /\ p - pos + 1 = i
        BY <3>1, <3>2, <3>3, <2>1, <2>2
      <3>5. new[p] = feats[i]
        BY <3>4
      <3>6. Fits(feats[i], cs, st, made + i - 1)
        BY <3>2 DEF FeaturesFrom
      <3>7. QED
        BY <3>2, <3>5, <3>6, <2>2
    <2>4. CASE ~ (f >= made)
      <3>1. f \in 0 .. made - 1 /\ f >= made - size
        BY <2>1, <2>4
      <3>2. Fits(buf[p], cs, st, f)
        BY <3>1, <2>2 DEF RingOf
      <3>3. ASSUME p \in pos .. pos + n - 1
            PROVE  FALSE
        <4>1. PICK k \in Int, g \in Int : k = p - pos /\ g = made + k
          BY <3>3
        <4>2. 0 <= k /\ k < n /\ f < g /\ g < f + size
          BY <4>1, <3>3, <2>1, <2>4
        <4>3. Rem(pos, size) = Rem(made, size)
          BY <2>1, RemTwice
        <4>4. Rem(pos + k, size) = Rem(made + k, size)
          BY ONLY <4>3, size \in Nat \ {0}, made \in Nat, pos \in Int, k \in Int, RemShift
        <4>5. pos + k = p
          BY <4>1
        <4>6. Rem(p, size) = p
          BY RemSmall
        <4>7. Rem(g, size) = Rem(f, size)
          BY <4>1, <4>4, <4>5, <4>6, <2>2
        <4>8. Rem(f, size) # Rem(g, size)
          BY ONLY <4>2, size \in Nat \ {0}, f \in Int, g \in Int, <2>1, RemApart
        <4>9. QED
          BY <4>7, <4>8
      <3>4. QED
        BY <3>2, <3>3, <2>2
    <2>5. QED
      BY <2>3, <2>4
  <1>2. QED
    BY <1>1 DEF RingOf

(* More cepstra change nothing of what was computed. *)
LEMMA RingMore ==
  ASSUME NEW V, NEW cs \in Seq(V), NEW more \in Seq(V), NEW buf, NEW size \in Nat, NEW made \in Int,
         made <= Positive(Len(cs) - Win), NEW st, RingOf(buf, size, made, cs, st)
  PROVE  RingOf(buf, size, made, cs \o more, st)
  <1>1. ASSUME NEW f \in 0 .. made - 1, f >= made - size
        PROVE  Fits(buf[Rem(f, size)], cs \o more, st, f)
    <2>1. Fits(buf[Rem(f, size)], cs, st, f)
      BY <1>1 DEF RingOf
    <2>2. PICK t \in Int : t = Positive(Len(cs) - Win)
      <3>1. Len(cs) - Win \in Int
        BY Sizes
      <3>2. QED
        BY <3>1, PositiveIs
    <2>3. f \in Nat /\ f < Positive(Len(cs) - Win)
      BY <2>2
    <2>4. QED
      BY <2>1, <2>3, FitsMore
  <1>2. QED
    BY <1>1 DEF RingOf

(* More cepstra leave the scores of the frames that had their window. *)
LEMMA KeptMore ==
  ASSUME NEW V, NEW cs \in Seq(V), NEW more \in Seq(V), NEW senscr, NEW scores, NEW made \in Int,
         NEW to \in Int, made <= to,
         made <= Positive(Len(cs) - Win), NEW st, KeptOf(senscr, scores, made, cs, st)
  PROVE  KeptOf(senscr, scores, to, cs \o more, st)
  <1>1. CASE senscr = -1
    BY <1>1 DEF KeptOf
  <1>2. CASE senscr \in 0 .. made - 1 /\ Fits(scores, cs, st, senscr)
    <2>1. PICK f \in 0 .. made - 1 : f = senscr
      BY <1>2
    <2>2. PICK t \in Int : t = Positive(Len(cs) - Win)
      <3>1. Len(cs) - Win \in Int
        BY Sizes
      <3>2. QED
        BY <3>1, PositiveIs
    <2>3. f \in Nat /\ f < Positive(Len(cs) - Win) /\ f \in 0 .. to - 1
      BY <2>2
    <2>4. Fits(scores, cs \o more, st, f)
      BY <2>1, <2>3, <1>2, FitsMore
    <2>5. QED
      BY <2>1, <2>3, <2>4 DEF KeptOf
  <1>3. QED
    BY <1>1, <1>2 DEF KeptOf

(* Features in the next slots are those of the next frames. *)
LEMMA StoreEffect ==
  ASSUME NEW a, IsAm(a), QueueOK(a), NEW cs, NEW st, Ring(a, cs, st),
         NEW n \in Nat, NEW feats, FeaturesFrom(feats, n, cs, st, Made(a)),
         NEW pos \in Int, pos = Rem(Made(a), a.nAlloc), pos + n <= a.nAlloc, a.nFeat + n <= a.nAlloc
  PROVE  LET b == StoreFeats(a, pos, feats)
         IN  /\ IsAm(b) /\ Keeps(a, b, {"featBuf", "nFeat"}) /\ QueueOK(b)
             /\ b.nFeat = a.nFeat + n /\ Made(b) = Made(a) + n /\ Ring(b, cs, st)
  <1> DEFINE buf == a.featBuf
             new == [p \in DOMAIN buf |->
                       IF p \in pos .. pos + Len(feats) - 1 THEN feats[p - pos + 1] ELSE buf[p]]
             b == StoreFeats(a, pos, feats)
  <1>1. Len(feats) = n
    BY DEF FeaturesFrom
  <1>2. PICK size \in Nat \ {0}, out \in Nat, queued \in Nat :
          size = a.nAlloc /\ out = a.output /\ queued = a.nFeat /\ queued <= size
    BY DEF QueueOK
  <1>3. DOMAIN buf = 0 .. size - 1
    BY <1>2 DEF QueueOK
  <1>4. b = [a EXCEPT !.featBuf = new, !.nFeat = queued + n]
    BY <1>1, <1>2 DEF StoreFeats
  <1>5. \A p \in 0 .. size - 1 : new[p] = IF p \in pos .. pos + n - 1 THEN feats[p - pos + 1] ELSE buf[p]
    BY <1>1, <1>3
  <1>6. new = [p \in 0 .. size - 1 |-> new[p]]
    BY <1>3
  <1> HIDE DEF new, b
  <1>7. /\ IsAm(b) /\ Keeps(a, b, {"featBuf", "nFeat"})
        /\ b.featBuf = new /\ b.nFeat = queued + n
        /\ b.nAlloc = size /\ b.output = out /\ b.featOut = a.featOut
    BY <1>2, <1>4 DEF IsAm, Keeps, AmFields
  <1>8. PICK made \in Nat : made = Made(a) /\ made = out + queued
    BY <1>2 DEF Made
  <1>9. Made(b) = made + n
    <2>1. out + (queued + n) = made + n
      BY <1>8
    <2>2. QED
      BY <2>1, <1>7 DEF Made
  <1>10. QueueOK(b)
    <2>1. queued + n \in 0 .. size /\ a.featOut = Rem(out, size)
      BY <1>2 DEF QueueOK
    <2>2. QED
      BY <2>1, <1>2, <1>6, <1>7 DEF QueueOK
  <1>11. RingOf(new, size, made + n, cs, st)
    <2>1. RingOf(buf, size, made, cs, st)
      BY <1>2, <1>8 DEF Ring
    <2>2. FeaturesFrom(feats, n, cs, st, made) /\ pos = Rem(made, size) /\ pos + n <= size
      BY <1>2, <1>8
    <2> HIDE DEF buf
    <2>3. QED
      BY SMTT(30), <2>1, <2>2, <1>5, RingWritten
  <1>12. Ring(b, cs, st)
    BY <1>7, <1>9, <1>11 DEF Ring
  <1>13. QED
    BY <1>2, <1>7, <1>8, <1>9, <1>10, <1>12 DEF b

(* A call of feat_s2mfc2feat_live() by acmod_process_cep(). *)
LEMMA StoredEffect ==
  ASSUME NEW a, IsAm(a), QueueOK(a), NEW cs, NEW st, Ring(a, cs, st),
         NEW n \in Nat, NEW live, FcbOK(live.fcb), FeaturesFrom(live.feats, n, cs, st, Made(a)),
         NEW pos \in Int, pos = Rem(Made(a), a.nAlloc), pos + n <= a.nAlloc, a.nFeat + n <= a.nAlloc
  PROVE  LET r == Stored(a, pos, live)
         IN  /\ r = [am |-> r.am, used |-> live.used, next |-> r.next]
             /\ r.next = Rem(Made(r.am), a.nAlloc)
             /\ IsAm(r.am) /\ Keeps(a, r.am, {"featBuf", "nFeat", "fcb"}) /\ QueueOK(r.am)
             /\ FcbOK(r.am.fcb) /\ r.am.fcb = live.fcb
             /\ r.am.nFeat = a.nFeat + n /\ Made(r.am) = Made(a) + n /\ Ring(r.am, cs, st)
  <1> DEFINE b == StoreFeats(a, pos, live.feats)
             c == [b EXCEPT !.fcb = live.fcb]
             r == Stored(a, pos, live)
  <1>1. /\ IsAm(b) /\ Keeps(a, b, {"featBuf", "nFeat"}) /\ QueueOK(b)
        /\ b.nFeat = a.nFeat + n /\ Made(b) = Made(a) + n /\ Ring(b, cs, st)
    BY StoreEffect
  <1>2. Len(live.feats) = n
    BY DEF FeaturesFrom
  <1>3. r = [am |-> c, used |-> live.used, next |-> (pos + n) % a.nAlloc]
    BY <1>2 DEF Stored
  <1> HIDE DEF b
  <1>4. /\ IsAm(c) /\ c.fcb = live.fcb /\ c.featBuf = b.featBuf /\ c.nAlloc = b.nAlloc
        /\ c.nFeat = b.nFeat /\ c.output = b.output /\ c.featOut = b.featOut
        /\ Keeps(a, c, {"featBuf", "nFeat", "fcb"})
    BY <1>1 DEF IsAm, Keeps, AmFields
  <1> HIDE DEF c, r
  <1>5. QueueOK(c) /\ Made(c) = Made(b) /\ Ring(c, cs, st)
    BY <1>1, <1>4 DEF QueueOK, Made, Ring
  <1>6. (pos + n) % a.nAlloc = Rem(Made(c), a.nAlloc)
    <2>1. PICK size \in Nat \ {0}, made \in Int : size = a.nAlloc /\ made = Made(a)
      BY DEF QueueOK, Made
    <2>2. Rem(pos, size) = Rem(made, size)
      BY <2>1, RemTwice
    <2>3. Rem(pos + n, size) = Rem(made + n, size)
      BY ONLY <2>2, size \in Nat \ {0}, pos \in Int, made \in Int, n \in Nat, RemShift
    <2>4. QED
      BY <2>1, <2>3, <1>1, <1>5 DEF Rem
  <1>7. r.am = c /\ r.next = Rem(Made(c), a.nAlloc)
    BY <1>3, <1>6
  <1>8. QED
    BY <1>1, <1>3, <1>4, <1>5, <1>6, <1>7 DEF r

(* More cepstra leave the scores that are kept. *)
LEMMA StreamKept ==
  ASSUME NEW V, NEW cs \in Seq(V), NEW more \in Seq(V), NEW st, NEW a, NEW b,
         QueueOK(a), Made(a) <= Positive(Len(cs) - Win), Kept(a, cs, st),
         b.senscr = a.senscr, b.scores = a.scores, Made(b) \in Int, Made(a) <= Made(b)
  PROVE  Kept(b, cs \o more, st)
  <1>1. PICK made \in Int, to \in Int : made = Made(a) /\ to = Made(b)
    BY DEF QueueOK, Made
  <1>2. KeptOf(a.senscr, a.scores, made, cs, st) /\ made <= Positive(Len(cs) - Win) /\ made <= to
    BY <1>1 DEF Kept
  <1>3. KeptOf(a.senscr, a.scores, to, cs \o more, st)
    BY <1>2, KeptMore
  <1>4. QED
    BY <1>1, <1>3 DEF Kept

(* More cepstra leave the features in their slots. *)
LEMMA StreamMore ==
  ASSUME NEW V, NEW cs \in Seq(V), NEW more \in Seq(V), NEW st, NEW a,
         QueueOK(a), Made(a) <= Positive(Len(cs) - Win), Ring(a, cs, st)
  PROVE  Ring(a, cs \o more, st)
  <1>1. PICK made \in Int, size \in Nat : made = Made(a) /\ size = a.nAlloc
    BY DEF QueueOK, Made
  <1>2. RingOf(a.featBuf, size, made, cs, st) /\ made <= Positive(Len(cs) - Win)
    BY <1>1 DEF Ring
  <1>3. RingOf(a.featBuf, size, made, cs \o more, st)
    BY <1>2, RingMore
  <1>4. QED
    BY <1>1, <1>3 DEF Ring

(* The features that a call makes of these cepstra. *)
Yield(n, m, end) ==
  IF end THEN n + m - Positive(n - Win) ELSE Positive(n + m - Win) - Positive(n - Win)

(* A call in an utterance that goes on. *)
LEMMA ComputeGoesOn ==
  ASSUME NEW V, NEW cs \in Seq(V), NEW more \in Seq(V), NEW a, NEW st,
         Stream(a, cs, st), Flows(a, cs, st), a.state # "started",
         NEW end \in BOOLEAN, Len(more) <= 3 * Win + 1, end => Len(more) \in 1 .. 2 * Win + 1,
         NEW pos \in Int, pos = Rem(Made(a), a.nAlloc),
         NEW n \in Nat, n = Yield(Len(cs), Len(more), end),
         pos + n <= a.nAlloc, a.nFeat + n <= a.nAlloc
  PROVE  LET r == Compute(a, pos, more, end)
         IN  /\ r = [am |-> r.am, used |-> Len(more), next |-> r.next]
             /\ r.next = Rem(Made(r.am), a.nAlloc)
             /\ Keeps(a, r.am, {"featBuf", "nFeat", "fcb"})
             /\ r.am.nFeat = a.nFeat + n /\ Made(r.am) = Made(a) + n
             /\ Stream(r.am, cs \o more, st) /\ (~end => Flows(r.am, cs \o more, st))
  <1> DEFINE live == Live(a.fcb, more, FALSE, end)
             all == cs \o more
             from == Positive(Len(cs) - Win)
             r == Compute(a, pos, more, end)
  <1>1. IsAm(a) /\ QueueOK(a) /\ FcbOK(a.fcb) /\ Ring(a, cs, st) /\ Kept(a, cs, st)
    BY DEF Stream
  <1>2. HoldsLast(a.fcb, cs, st) /\ Made(a) = from
    BY DEF Flows
  <1>3. /\ live = [fcb |-> live.fcb, used |-> Len(more), feats |-> live.feats] /\ FcbOK(live.fcb)
        /\ end => FeaturesFrom(live.feats, Len(cs) + Len(more) - from, all, st, from)
        /\ ~end => FeaturesFrom(live.feats, Positive(Len(cs) + Len(more) - Win) - from, all, st, from)
        /\ ~end => HoldsLast(live.fcb, all, st)
    BY ZenonT(40), <1>1, <1>2, LiveGoesOn
  <1>4. r = Stored(a, pos, live)
    <2>1. (a.state = "started") = FALSE
      OBVIOUS
    <2>2. QED
      BY <2>1 DEF Compute
  <1> HIDE DEF live, r
  <1>5. FeaturesFrom(live.feats, n, all, st, Made(a))
    <2>1. end => n = Len(cs) + Len(more) - from
      BY DEF Yield
    <2>2. ~end => n = Positive(Len(cs) + Len(more) - Win) - from
      BY DEF Yield
    <2> HIDE DEF from, all
    <2>3. QED
      BY ONLY <2>1, <2>2, <1>2, <1>3
  <1>p. PICK t \in Int : t = Made(a) /\ t <= Positive(Len(cs) - Win)
    <2>1. Made(a) \in Int
      BY <1>1 DEF QueueOK, Made
    <2>2. QED
      BY <2>1, <1>2
  <1>6. Ring(a, all, st)
    BY <1>1, <1>p, StreamMore
  <1>7. /\ r = [am |-> r.am, used |-> live.used, next |-> r.next]
        /\ r.next = Rem(Made(r.am), a.nAlloc)
        /\ IsAm(r.am) /\ Keeps(a, r.am, {"featBuf", "nFeat", "fcb"}) /\ QueueOK(r.am)
        /\ FcbOK(r.am.fcb) /\ r.am.fcb = live.fcb
        /\ r.am.nFeat = a.nFeat + n /\ Made(r.am) = Made(a) + n /\ Ring(r.am, all, st)
    BY <1>1, <1>3, <1>4, <1>5, <1>6, StoredEffect
  <1>8. live.used = Len(more)
    BY <1>3
  <1>9. Kept(r.am, all, st)
    <2>1. r.am.senscr = a.senscr /\ r.am.scores = a.scores
      BY <1>7 DEF Keeps, AmFields
    <2>2. Made(r.am) \in Int /\ Made(a) <= Made(r.am)
      BY <1>7, <1>p
    <2>3. QED
      BY <2>1, <2>2, <1>1, <1>p, StreamKept
  <1>10. Stream(r.am, all, st)
    BY <1>7, <1>9 DEF Stream
  <1>11. ASSUME ~end
         PROVE  Flows(r.am, all, st)
    <2>1. PICK x \in Nat, y \in Nat : x = Len(cs) /\ y = Len(more) /\ Len(all) = x + y
      OBVIOUS
    <2>2. n = Positive(x + y - Win) - from
      BY <2>1, <1>11 DEF Yield
    <2>3. PICK u \in Int : u = Positive(x + y - Win)
      <3>1. x + y - Win \in Int
        BY Sizes
      <3>2. QED
        BY <3>1, PositiveIs
    <2>4. t + n = u
      <3>1. n = u - t
        BY <2>2, <2>3, <1>2, <1>p
      <3>2. QED
        BY ONLY <3>1, t \in Int, u \in Int
    <2>5. Made(r.am) = Positive(Len(all) - Win)
      <3>1. Len(all) - Win = x + y - Win
        <4>1. Len(all) = x + y
          BY <2>1
        <4>2. Win \in Int
          BY Sizes
        <4> HIDE DEF all
        <4>3. QED
          BY <4>1, <4>2
      <3>2. Made(r.am) = Made(a) + n
        BY <1>7
      <3>3. Made(r.am) = t + n
        BY ONLY <3>2, <1>p
      <3>4. QED
        BY ONLY <3>1, <3>3, <2>3, <2>4
    <2>6. HoldsLast(r.am.fcb, all, st)
      BY <1>3, <1>7, <1>11
    <2>7. QED
      BY <2>5, <2>6 DEF Flows
  <1>12. QED
    BY <1>7, <1>8, <1>10, <1>11 DEF r, all

(* The first call of an utterance. *)
LEMMA ComputeBegins ==
  ASSUME NEW V, NEW more \in Seq(V), NEW a, NEW old, NEW ost,
         Stream(a, old, ost), a.state = "started", Made(a) = 0, a.senscr = -1,
         Len(more) <= 3 * Win + 1, a.nAlloc >= 2 * Win + 1,
         NEW n \in Nat, n = Positive(Len(more) - Win)
  PROVE  LET r == Compute(a, 0, more, FALSE)
         IN  /\ r = [am |-> r.am, used |-> Len(more), next |-> r.next]
             /\ r.next = Rem(Made(r.am), a.nAlloc)
             /\ Keeps(a, r.am, {"featBuf", "nFeat", "fcb"})
             /\ r.am.nFeat = a.nFeat + n /\ Made(r.am) = n
             /\ Stream(r.am, more, Given(more)) /\ Flows(r.am, more, Given(more))
  <1> DEFINE live == Live(a.fcb, more, TRUE, FALSE)
             st == Given(more)
             r == Compute(a, 0, more, FALSE)
  <1>1. IsAm(a) /\ QueueOK(a) /\ FcbOK(a.fcb)
    BY DEF Stream
  <1>2. /\ live = [fcb |-> live.fcb, used |-> Len(more), feats |-> live.feats] /\ FcbOK(live.fcb)
        /\ FeaturesFrom(live.feats, Positive(Len(more) - Win), more, st, 0)
        /\ HoldsLast(live.fcb, more, st)
    BY <1>1, LiveBegins
  <1>3. r = Stored(a, 0, live)
    <2>1. (a.state = "started") = TRUE
      OBVIOUS
    <2>2. QED
      BY <2>1 DEF Compute
  <1> HIDE DEF live, r
  <1>4. PICK size \in Nat \ {0} : size = a.nAlloc /\ size >= 2 * Win + 1
    BY <1>1 DEF QueueOK
  <1>5. n <= 2 * Win + 1
    <2>1. PICK m \in Nat, y \in Int : m = Len(more) /\ y = m - Win /\ m <= 3 * Win + 1
      <3>1. Len(more) \in Nat /\ Win \in Int
        BY Sizes
      <3>2. Len(more) - Win \in Int
        BY <3>1
      <3>3. QED
        BY <3>1, <3>2
    <2>2. n = Positive(y)
      BY <2>1
    <2>3. y <= 2 * Win + 1 /\ 2 * Win + 1 >= 0
      BY <2>1, Sizes
    <2>4. QED
      BY <2>2, <2>3, PositiveIs
  <1>6. a.output = 0 /\ a.nFeat = 0
    BY <1>1 DEF QueueOK, Made
  <1>7. 0 = Rem(Made(a), size) /\ 0 + n <= size /\ a.nFeat + n <= size
    <2>1. 0 \in 0 .. size - 1
      OBVIOUS
    <2>2. Rem(0, size) = 0
      BY <2>1, RemSmall
    <2>3. n <= size
      BY <1>4, <1>5, Sizes
    <2>4. QED
      BY <2>2, <2>3, <1>6
  <1>8. Ring(a, more, st)
    BY <1>1 DEF Ring, RingOf
  <1>9. FeaturesFrom(live.feats, n, more, st, Made(a)) /\ FcbOK(live.fcb)
    BY <1>2
  <1>10. 0 \in Int /\ 0 + n <= a.nAlloc /\ a.nFeat + n <= a.nAlloc /\ 0 = Rem(Made(a), a.nAlloc)
    BY <1>4, <1>7
  <1>11. /\ r = [am |-> r.am, used |-> live.used, next |-> r.next]
         /\ r.next = Rem(Made(r.am), a.nAlloc)
         /\ IsAm(r.am) /\ Keeps(a, r.am, {"featBuf", "nFeat", "fcb"}) /\ QueueOK(r.am)
         /\ FcbOK(r.am.fcb) /\ r.am.fcb = live.fcb
         /\ r.am.nFeat = a.nFeat + n /\ Made(r.am) = Made(a) + n /\ Ring(r.am, more, st)
    <2> HIDE DEF st
    <2>1. QED
      BY <1>1, <1>3, <1>8, <1>9, <1>10, StoredEffect
  <1>12. live.used = Len(more) /\ Made(r.am) = n
    BY <1>2, <1>11
  <1>13. Kept(r.am, more, st)
    BY <1>11 DEF Keeps, AmFields, Kept, KeptOf
  <1>14. Stream(r.am, more, st) /\ Flows(r.am, more, st)
    BY <1>2, <1>11, <1>12, <1>13 DEF Stream, Flows
  <1>15. QED
    BY <1>11, <1>12, <1>14 DEF r, st

-----------------------------------------------------------------------------
(* The loops of acmod, and the buffer that grows. *)

(* A non-empty set of numbers has a least one: the intervals from 0 to its *)
(* members are finite sets, ordered by inclusion.                          *)
LEMMA LeastNumber ==
  ASSUME NEW S \in SUBSET Nat, S # {}
  PROVE  \E m \in S : \A n \in S : m <= n
  <1> DEFINE Intervals == {0 .. m : m \in S}
             R == StrictSubsetOrdering(Nat)
  <1>1. IsWellFoundedOn(R, FiniteSubsetsOf(Nat))
    BY FS_StrictSubsetOrderingWellFounded
  <1>2. \A m \in S : IsFiniteSet(0 .. m) /\ 0 .. m \in SUBSET Nat
    BY FS_Interval
  <1>3. Intervals \subseteq FiniteSubsetsOf(Nat) /\ Intervals # {}
    BY <1>2 DEF FiniteSubsetsOf
  <1> HIDE DEF R
  <1>4. \E x \in Intervals : \A y \in Intervals : ~ (<<y, x>> \in R)
    <2> HIDE DEF Intervals
    <2>1. QED BY <1>1, <1>3, WFMin
  <1>5. PICK m \in S : \A n \in S : <<0 .. n, 0 .. m>> \notin R
    BY <1>4
  <1>6. ASSUME NEW n \in S, n < m
        PROVE  FALSE
    <2>1. m \in Nat /\ n \in Nat
      OBVIOUS
    <2>2. 0 .. n \subseteq 0 .. m /\ m \in 0 .. m /\ m \notin 0 .. n
      BY <2>1, <1>6
    <2>3. <<0 .. n, 0 .. m>> \in R
      BY <2>1, <2>2, <1>2 DEF R, StrictSubsetOrdering
    <2>4. QED
      BY <2>3, <1>5
  <1>7. QED
    BY <1>6

(* What holds of 0 and, with each number, of the next holds of all. *)
LEMMA UpTo ==
  ASSUME NEW to \in Nat, NEW S, 0 \in S, \A k \in 1 .. to : k - 1 \in S => k \in S
  PROVE  0 .. to \subseteq S
  <1> DEFINE Rest == {k \in 0 .. to : k \notin S}
  <1> SUFFICES ASSUME Rest # {}
               PROVE  FALSE
    OBVIOUS
  <1>1. Rest \in SUBSET Nat
    OBVIOUS
  <1>2. \E m \in Rest : \A n \in Rest : m <= n
    <2> HIDE DEF Rest
    <2>1. QED BY <1>1, LeastNumber
  <1>3. PICK m \in Rest : \A n \in Rest : m <= n
    BY <1>2
  <1>4. m \in 0 .. to /\ m \notin S /\ m # 0
    OBVIOUS
  <1>5. m \in 1 .. to /\ m - 1 \in 0 .. to
    BY <1>4
  <1>6. m - 1 \notin Rest
    BY <1>3, <1>4
  <1>7. QED
    BY <1>4, <1>5, <1>6

(* The rounds of the loops of the model, by the name of the loop. *)
Round(loop, x, arg, i) ==
  CASE loop = "doublings" -> Doubled(x, arg)
    [] loop = "fill"      -> FillRound(x, arg)
    [] loop = "frames"    -> FrameRound(x, arg)
    [] loop = "lookahead" -> LookaheadRound(x, arg[i])
    [] loop = "speech"    -> IF arg[i] THEN Append(x, i) ELSE x

(* A loop is a function of its rounds. *)
Runs(r, loop, first, arg, n) ==
  r = [i \in 0 .. n |-> IF i = 0 THEN first ELSE Round(loop, r[i - 1], arg, i)]

(* Such a function exists. *)
LEMMA LoopEnds ==
  ASSUME NEW loop, NEW first, NEW arg, NEW n \in Nat
  PROVE  \E r : Runs(r, loop, first, arg, n)
  <1> DEFINE S == {k \in 0 .. n : \E h : Runs(h, loop, first, arg, k)}
  <1>1. 0 \in S
    <2> DEFINE h == [i \in 0 .. 0 |-> first]
    <2>1. Runs(h, loop, first, arg, 0)
      BY DEF Runs
    <2>2. QED
      BY <2>1
  <1>2. ASSUME NEW k \in 1 .. n, k - 1 \in S
        PROVE  k \in S
    <2>1. PICK h : Runs(h, loop, first, arg, k - 1)
      BY <1>2
    <2> DEFINE g == [i \in 0 .. k |-> IF i = k THEN Round(loop, h[k - 1], arg, k) ELSE h[i]]
    <2>2. \A i \in 0 .. (k - 1) : g[i] = h[i] /\ i \in 0 .. k
      OBVIOUS
    <2>3. \A i \in 0 .. (k - 1) : h[i] = IF i = 0 THEN first ELSE Round(loop, h[i - 1], arg, i)
      BY <2>1 DEF Runs
    <2>4. \A i \in 0 .. k : g[i] = IF i = 0 THEN first ELSE Round(loop, g[i - 1], arg, i)
      <3> SUFFICES ASSUME NEW i \in 0 .. k
                   PROVE  g[i] = IF i = 0 THEN first ELSE Round(loop, g[i - 1], arg, i)
        OBVIOUS
      <3>1. CASE i = k
        <4>1. k - 1 \in 0 .. (k - 1) /\ i # 0
          BY <3>1
        <4>2. g[k - 1] = h[k - 1]
          BY <4>1, <2>2
        <4>3. QED
          BY <3>1, <4>1, <4>2
      <3>2. CASE i # k
        <4>1. i \in 0 .. (k - 1) /\ (i # 0 => i - 1 \in 0 .. (k - 1))
          BY <3>2
        <4>2. g[i] = h[i] /\ (i # 0 => g[i - 1] = h[i - 1])
          BY <4>1, <2>2
        <4> HIDE DEF g
        <4>3. QED
          BY <4>1, <4>2, <2>3
      <3>3. QED
        BY <3>1, <3>2
    <2>5. g = [i \in 0 .. k |-> g[i]]
      OBVIOUS
    <2> HIDE DEF g
    <2>6. Runs(g, loop, first, arg, k)
      BY <2>4, <2>5 DEF Runs
    <2>7. QED
      BY <2>6
  <1>3. n \in S
    <2> HIDE DEF S
    <2>1. QED BY <1>1, <1>2, UpTo
  <1>4. QED
    BY <1>3

(* Its rounds follow each other. *)
LEMMA LoopGoes ==
  ASSUME NEW loop, NEW first, NEW arg, NEW n \in Nat, NEW r, Runs(r, loop, first, arg, n)
  PROVE  r[0] = first /\ \A i \in 1 .. n : r[i] = Round(loop, r[i - 1], arg, i)
  <1>1. \A i \in 0 .. n : r[i] = IF i = 0 THEN first ELSE Round(loop, r[i - 1], arg, i)
    BY DEF Runs
  <1>2. QED
    BY <1>1
(* A size doubled often enough is larger. *)
LEMMA DoublingsEnough ==
  ASSUME NEW n \in Nat \ {0}, NEW least \in Int
  PROVE  Doublings(n, least) \in Nat /\ Doublings(n, least) >= n /\ Doublings(n, least) > least
  <1>1. CASE least < n
    BY <1>1 DEF Doublings
  <1>2. CASE ~ (least < n)
    <2>1. least \in Nat /\ least >= n
      BY <1>2
    <2> DEFINE size == DoublingRounds(n, least)
               step(h) == [k \in 0 .. least |-> IF k = 0 THEN n ELSE Doubled(h[k - 1], least)]
    <2>2. size = CHOOSE h : h = step(h)
      BY DEF DoublingRounds
    <2>3. \A h : h = step(h) <=> Runs(h, "doublings", n, least, least)
      BY DEF Runs, Round
    <2> HIDE DEF step
    <2>4. PICK h : h = step(h)
      BY <2>1, <2>3, LoopEnds
    <2>5. size = step(size)
      BY <2>2, <2>4
    <2> HIDE DEF size
    <2>6. Runs(size, "doublings", n, least, least)
      BY <2>3, <2>5
    <2>7. size[0] = n /\ \A i \in 1 .. least : size[i] = Round("doublings", size[i - 1], least, i)
      BY <2>1, <2>6, LoopGoes
    <2>8. \A i \in 1 .. least : size[i] = Doubled(size[i - 1], least)
      BY <2>7 DEF Round
    <2> DEFINE S == {k \in 0 .. least : /\ size[k] \in Nat /\ size[k] >= n
                                        /\ size[k] > least \/ size[k] >= n + k}
    <2>9. 0 \in S
      BY <2>1, <2>7
    <2>10. ASSUME NEW k \in 1 .. least, k - 1 \in S
           PROVE  k \in S
      <3>1. PICK x \in Nat : x = size[k - 1] /\ x >= n /\ (x > least \/ x >= n + (k - 1))
        BY <2>10
      <3>2. size[k] = IF x > least THEN x ELSE 2 * x
        BY <3>1, <2>8 DEF Doubled
      <3>3. size[k] \in Nat /\ size[k] >= n /\ (size[k] > least \/ size[k] >= n + k)
        BY <3>1, <3>2, <2>1
      <3>4. QED
        BY <3>3
    <2>11. least \in S
      <3> HIDE DEF S
      <3>1. QED BY <2>1, <2>9, <2>10, UpTo
    <2>12. size[least] \in Nat /\ size[least] >= n /\ size[least] > least
      BY <2>1, <2>11
    <2>13. Doublings(n, least) = size[least]
      BY <1>2 DEF Doublings, size
    <2>14. QED
      BY <2>12, <2>13
  <1>3. QED
    BY <1>1, <1>2
(* A buffer that does not go around keeps its features when it grows. *)
LEMMA GrowEffect ==
  ASSUME NEW a, IsAm(a), QueueOK(a), Made(a) < a.nAlloc, NEW n \in Nat, n >= a.nAlloc
  PROVE  LET b == GrowFeatBuf(a, n)
         IN  /\ IsAm(b) /\ Keeps(a, b, {"featBuf", "nAlloc"}) /\ QueueOK(b)
             /\ b.nAlloc = n /\ Made(b) = Made(a)
             /\ \A p \in 0 .. Made(a) - 1 : b.featBuf[p] = a.featBuf[p]
             /\ \A cs, st : Ring(a, cs, st) => Ring(b, cs, st)
  <1> DEFINE b == GrowFeatBuf(a, n)
             buf == Resized(a.featBuf, n)
  <1>1. PICK size \in Nat \ {0}, out \in Nat, queued \in Nat, made \in Nat :
          /\ size = a.nAlloc /\ out = a.output /\ queued = a.nFeat /\ queued <= size
          /\ made = Made(a) /\ made = out + queued /\ made < size /\ n >= size
    BY DEF QueueOK, Made
  <1>2. b = [a EXCEPT !.featBuf = buf, !.nAlloc = n]
    BY DEF GrowFeatBuf
  <1> HIDE DEF b
  <1>3. buf = [p \in 0 .. n - 1 |-> buf[p]] /\ \A p \in 0 .. size - 1 : buf[p] = a.featBuf[p]
    <2>1. DOMAIN a.featBuf = 0 .. size - 1
      BY <1>1 DEF QueueOK
    <2>2. \A p \in 0 .. size - 1 : p \in 0 .. n - 1
      BY <1>1
    <2>3. QED
      BY <2>1, <2>2 DEF Resized
  <1> HIDE DEF buf
  <1>4. /\ IsAm(b) /\ Keeps(a, b, {"featBuf", "nAlloc"}) /\ b.featBuf = buf /\ b.nAlloc = n
        /\ b.output = out /\ b.nFeat = queued /\ b.featOut = a.featOut
    BY <1>1, <1>2 DEF IsAm, Keeps, AmFields
  <1>5. Made(b) = made
    BY <1>1, <1>4 DEF Made
  <1>6. QueueOK(b)
    <2>1. out \in 0 .. size - 1 /\ out \in 0 .. n - 1 /\ n \in Nat \ {0} /\ queued \in 0 .. n
      BY <1>1
    <2>2. Rem(out, size) = out /\ Rem(out, n) = out
      BY <2>1, RemSmall
    <2>3. a.featOut = Rem(out, size)
      BY <1>1 DEF QueueOK
    <2>4. QED
      BY <2>1, <2>2, <2>3, <1>3, <1>4 DEF QueueOK
  <1>7. ASSUME NEW cs, NEW st, Ring(a, cs, st)
        PROVE  Ring(b, cs, st)
    <2>1. ASSUME NEW f \in 0 .. made - 1, f >= made - n
          PROVE  Fits(buf[Rem(f, n)], cs, st, f)
      <3>1. f \in 0 .. size - 1 /\ f \in 0 .. n - 1 /\ n \in Nat \ {0} /\ f >= made - size
        BY <1>1
      <3>2. Rem(f, size) = f /\ Rem(f, n) = f
        BY <3>1, RemSmall
      <3>3. Fits(a.featBuf[Rem(f, size)], cs, st, f)
        BY <3>1, <1>1, <1>7 DEF Ring, RingOf
      <3>4. QED
        BY <3>1, <3>2, <3>3, <1>3
    <2>2. QED
      BY <2>1, <1>4, <1>5 DEF Ring, RingOf
  <1>8. \A p \in 0 .. made - 1 : b.featBuf[p] = a.featBuf[p]
    <2>1. \A p \in 0 .. made - 1 : p \in 0 .. size - 1
      BY <1>1
    <2>2. QED
      BY <2>1, <1>3, <1>4
  <1>9. QED
    BY <1>1, <1>4, <1>5, <1>6, <1>7, <1>8 DEF b

(* A buffer that may grow has room for the features that are expected, and *)
(* for the next one.                                                       *)
LEMMA GrownEffect ==
  ASSUME NEW a, IsAm(a), QueueOK(a), a.grow = TRUE, Made(a) < a.nAlloc, NEW nfeat \in Int
  PROVE  LET b == GrownToFit(a, nfeat)
         IN  /\ IsAm(b) /\ Keeps(a, b, {"featBuf", "nAlloc"}) /\ QueueOK(b)
             /\ b.nAlloc >= a.nAlloc /\ Made(b) = Made(a) /\ Made(b) + nfeat < b.nAlloc
             /\ \A p \in 0 .. Made(a) - 1 : b.featBuf[p] = a.featBuf[p]
             /\ \A cs, st : Ring(a, cs, st) => Ring(b, cs, st)
  <1> DEFINE g == IF nfeat > Room(a) /\ (a.grow \/ a.state = "ended")
                  THEN GrowFeatBuf(a, a.nAlloc + nfeat) ELSE a
             n == Doublings(g.nAlloc, g.featOut + g.nFeat + nfeat)
             b == GrowFeatBuf(g, n)
  <1>1. PICK size \in Nat \ {0}, out \in Nat, queued \in Nat, made \in Nat :
          /\ size = a.nAlloc /\ out = a.output /\ queued = a.nFeat /\ queued <= size
          /\ made = Made(a) /\ made = out + queued /\ made < size
    <2>1. a.nAlloc \in Nat \ {0} /\ a.output \in Nat /\ a.nFeat \in Nat /\ a.nFeat <= a.nAlloc
      BY DEF QueueOK
    <2>2. Made(a) = a.output + a.nFeat
      BY DEF Made
    <2>3. QED
      BY <2>1, <2>2
  <1>2. /\ IsAm(g) /\ Keeps(a, g, {"featBuf", "nAlloc"}) /\ QueueOK(g)
        /\ g.nAlloc \in Nat \ {0} /\ g.nAlloc >= size /\ Made(g) = made
        /\ \A p \in 0 .. made - 1 : g.featBuf[p] = a.featBuf[p]
        /\ \A cs, st : Ring(a, cs, st) => Ring(g, cs, st)
    <2>1. CASE nfeat > Room(a)
      <3>1. nfeat > 0
        BY <2>1, <1>1 DEF Room
      <3>2. PICK more \in Nat : more = a.nAlloc + nfeat /\ more >= a.nAlloc /\ more > 0
        BY <3>1, <1>1
      <3>3. g = GrowFeatBuf(a, more)
        BY <2>1, <3>2
      <3> HIDE DEF g
      <3>4. /\ IsAm(g) /\ Keeps(a, g, {"featBuf", "nAlloc"}) /\ QueueOK(g)
            /\ g.nAlloc = more /\ Made(g) = Made(a)
            /\ \A p \in 0 .. Made(a) - 1 : g.featBuf[p] = a.featBuf[p]
            /\ \A cs, st : Ring(a, cs, st) => Ring(g, cs, st)
        BY <3>2, <3>3, GrowEffect
      <3>5. QED
        BY <3>2, <3>4, <1>1
    <2>2. CASE ~ (nfeat > Room(a))
      <3>1. g = a
        BY <2>2
      <3> HIDE DEF g
      <3>2. Keeps(a, g, {"featBuf", "nAlloc"})
        BY <3>1 DEF Keeps
      <3>3. QED
        BY <3>1, <3>2, <1>1
    <2>3. QED
      BY <2>1, <2>2
  <1>3. GrownToFit(a, nfeat) = b
    <2>1. g.grow = a.grow
      BY <1>2 DEF Keeps, AmFields
    <2>2. g.grow = TRUE
      BY <2>1
    <2> HIDE DEF n
    <2>3. GrownToFit(a, nfeat) = IF g.grow THEN GrowFeatBuf(g, n) ELSE g
      BY DEF GrownToFit, n
    <2> HIDE DEF g
    <2>4. QED
      BY <2>2, <2>3
  <1> HIDE DEF g
  <1>4. n \in Nat /\ n >= g.nAlloc /\ n > made + nfeat
    <2>1. g.output = out /\ g.nFeat = queued /\ g.featOut = a.featOut
      BY <1>1, <1>2 DEF Keeps, AmFields
    <2>2. out \in 0 .. size - 1 /\ a.featOut = Rem(out, size)
      BY <1>1 DEF QueueOK
    <2>3. a.featOut = out
      BY <2>2, RemSmall
    <2>4. PICK least \in Int : least = made + nfeat /\ least = g.featOut + g.nFeat + nfeat
      BY <2>1, <2>3, <1>1
    <2>5. Doublings(g.nAlloc, least) \in Nat /\ Doublings(g.nAlloc, least) >= g.nAlloc
            /\ Doublings(g.nAlloc, least) > least
      BY <1>2, DoublingsEnough
    <2>6. QED
      BY <2>4, <2>5
  <1> HIDE DEF n
  <1>5. /\ IsAm(b) /\ Keeps(g, b, {"featBuf", "nAlloc"}) /\ QueueOK(b)
        /\ b.nAlloc = n /\ Made(b) = Made(g)
        /\ \A p \in 0 .. Made(g) - 1 : b.featBuf[p] = g.featBuf[p]
        /\ \A cs, st : Ring(g, cs, st) => Ring(b, cs, st)
    <2>1. Made(g) < g.nAlloc
      BY <1>1, <1>2
    <2>2. QED
      BY <2>1, <1>2, <1>4, GrowEffect
  <1> HIDE DEF b
  <1>6. Keeps(a, b, {"featBuf", "nAlloc"})
    BY <1>2, <1>5 DEF Keeps
  <1>7. b.nAlloc >= a.nAlloc /\ Made(b) = made /\ made + nfeat < b.nAlloc
    BY <1>1, <1>2, <1>4, <1>5
  <1>8. \A p \in 0 .. made - 1 : b.featBuf[p] = a.featBuf[p]
    BY <1>2, <1>5
  <1>9. QED
    BY <1>1, <1>2, <1>3, <1>5, <1>6, <1>7, <1>8

(* The place of the next feature. *)
LEMMA InPtrIs ==
  ASSUME NEW a, IsAm(a), QueueOK(a), a.grow \in BOOLEAN, a.grow => Made(a) < a.nAlloc
  PROVE  /\ InPtr(a) = Rem(Made(a), a.nAlloc) /\ InPtr(a) \in 0 .. a.nAlloc - 1
         /\ a.grow => InPtr(a) = Made(a)
  <1>1. PICK size \in Nat \ {0}, out \in Nat, queued \in Nat, made \in Nat :
          /\ size = a.nAlloc /\ out = a.output /\ queued = a.nFeat /\ queued <= size
          /\ made = Made(a) /\ made = out + queued
    BY DEF QueueOK, Made
  <1>2. a.featOut = Rem(out, size)
    BY <1>1 DEF QueueOK
  <1>3. CASE a.grow
    <2>1. out \in 0 .. size - 1 /\ made \in 0 .. size - 1
      BY <1>1, <1>3
    <2>2. a.featOut = out /\ Rem(made, size) = made
      BY <2>1, <1>2, RemSmall
    <2>3. InPtr(a) = made
      BY <2>2, <1>1, <1>3 DEF InPtr
    <2>4. QED
      BY <2>1, <2>2, <2>3, <1>1
  <1>4. CASE ~a.grow
    <2>1. PICK r \in Int : r = Rem(out, size)
      <3>1. Rem(out, size) \in 0 .. size - 1
        BY RemRange
      <3>2. QED
        BY <3>1
    <2>2. Rem(r, size) = Rem(out, size)
      BY <2>1, RemTwice
    <2>3. Rem(r + queued, size) = Rem(out + queued, size)
      BY ONLY <2>2, size \in Nat \ {0}, r \in Int, out \in Nat, queued \in Nat, RemShift
    <2>4. InPtr(a) = Rem(r + queued, size)
      BY <2>1, <1>1, <1>2, <1>4 DEF InPtr, Rem
    <2>5. Rem(made, size) \in 0 .. size - 1
      BY RemRange
    <2>6. QED
      BY <2>3, <2>4, <2>5, <1>1, <1>4
  <1>5. QED
    BY <1>3, <1>4

(* The features made are where they were. *)
Still(a, b) == \A p \in 0 .. Made(a) - 1 : b.featBuf[p] = a.featBuf[p]

(* In a buffer that has room, features go behind those that are there. *)
LEMMA StoredStill ==
  ASSUME NEW a, IsAm(a), QueueOK(a), Made(a) < a.nAlloc, NEW live
  PROVE  Still(a, Stored(a, Made(a), live).am)
  <1>1. PICK size \in Nat \ {0}, made \in Nat : size = a.nAlloc /\ made = Made(a) /\ made < size
    BY DEF QueueOK, Made
  <1> DEFINE n == Len(live.feats)
             new == [p \in DOMAIN a.featBuf |->
                       IF p \in made .. made + n - 1 THEN live.feats[p - made + 1] ELSE a.featBuf[p]]
             b == StoreFeats(a, made, live.feats)
  <1>2. b = [a EXCEPT !.featBuf = new, !.nFeat = @ + n]
    BY DEF StoreFeats
  <1>3. \A p \in 0 .. made - 1 : new[p] = a.featBuf[p]
    <2>1. ASSUME NEW p \in 0 .. made - 1
          PROVE  p \in DOMAIN a.featBuf /\ p \notin made .. made + n - 1
      <3>1. p \in 0 .. size - 1 /\ ~(made <= p)
        BY <1>1
      <3>2. p \notin made .. made + n - 1
        BY <3>1
      <3>3. QED
        BY <3>1, <3>2, <1>1 DEF QueueOK
    <2>2. QED
      BY <2>1
  <1> HIDE DEF new
  <1>4. b.featBuf = new /\ [b EXCEPT !.fcb = live.fcb].featBuf = b.featBuf
    BY <1>2 DEF IsAm, AmFields
  <1> HIDE DEF b
  <1>5. Stored(a, made, live).am = [b EXCEPT !.fcb = live.fcb]
    BY DEF Stored, b
  <1>6. QED
    BY <1>1, <1>3, <1>4, <1>5 DEF Still

(* What acmod_process_cep() may change, and what it leaves of a buffer     *)
(* that grows.                                                             *)
Takes(a, b) ==
  /\ Keeps(a, b, {"state", "featBuf", "nFeat", "fcb", "nAlloc"})
  /\ b.nAlloc >= a.nAlloc /\ (a.grow => Made(b) < b.nAlloc /\ Still(a, b))

(* A larger buffer holds the same features. *)
LEMMA StreamGrown ==
  ASSUME NEW a, NEW b, IsAm(a), IsAm(b), NEW cs, NEW st, QueueOK(b),
         Keeps(a, b, {"featBuf", "nAlloc"}), Made(b) = Made(a), Ring(a, cs, st) => Ring(b, cs, st),
         Stream(a, cs, st)
  PROVE  /\ Stream(b, cs, st) /\ (Flows(a, cs, st) => Flows(b, cs, st))
         /\ b.state = a.state /\ b.grow = a.grow /\ b.nFeat = a.nFeat /\ b.senscr = a.senscr
  <1>1. /\ b.fcb = a.fcb /\ b.senscr = a.senscr /\ b.scores = a.scores
        /\ b.state = a.state /\ b.grow = a.grow /\ b.nFeat = a.nFeat
    BY DEF Keeps, AmFields
  <1>2. QED
    BY <1>1 DEF Stream, Flows, Kept

(* Leaving ACMOD_STARTED changes nothing else. *)
LEMMA ProcessingEffect ==
  ASSUME NEW a, IsAm(a), NEW cs, NEW st, Stream(a, cs, st), NEW old, Keeps(old, a, {"featBuf", "nFeat", "fcb", "nAlloc"})
  PROVE  LET b == Processing(a)
         IN  /\ Stream(b, cs, st) /\ (Flows(a, cs, st) => Flows(b, cs, st))
             /\ Made(b) = Made(a) /\ b.nAlloc = a.nAlloc /\ b.nFeat = a.nFeat
             /\ b.featBuf = a.featBuf
             /\ b.state = IF old.state = "started" THEN "processing" ELSE old.state
             /\ Keeps(old, b, {"state", "featBuf", "nFeat", "fcb", "nAlloc"})
  <1> DEFINE b == Processing(a)
  <1>1. /\ IsAm(b) /\ Keeps(a, b, {"state"})
        /\ b.state = IF a.state = "started" THEN "processing" ELSE a.state
    BY DEF IsAm, Keeps, AmFields, Processing
  <1> HIDE DEF b
  <1>2. /\ b.fcb = a.fcb /\ b.senscr = a.senscr /\ b.scores = a.scores /\ b.nFeat = a.nFeat
        /\ b.featBuf = a.featBuf /\ b.nAlloc = a.nAlloc /\ b.output = a.output /\ b.featOut = a.featOut
    BY <1>1 DEF Keeps, AmFields
  <1>3. Made(b) = Made(a)
    BY <1>2 DEF Made
  <1>4. a.state = old.state
    BY DEF Keeps, AmFields
  <1>5. Keeps(old, b, {"state", "featBuf", "nFeat", "fcb", "nAlloc"})
    BY <1>1 DEF Keeps, AmFields
  <1>6. QueueOK(b) /\ Ring(b, cs, st) /\ Kept(b, cs, st) /\ FcbOK(b.fcb)
    BY <1>2, <1>3 DEF Stream, QueueOK, Ring, Kept
  <1>7. QED
    BY <1>1, <1>2, <1>3, <1>4, <1>5, <1>6 DEF Stream, Flows, b

(* How many features a call may make. *)
LEMMA YieldIs ==
  ASSUME NEW n \in Nat, NEW m \in Nat
  PROVE  /\ Yield(n, m, FALSE) \in 0 .. m
         /\ Yield(n, m, TRUE) \in 0 .. m + Win
         /\ Yield(n, 0, FALSE) = 0
         /\ Yield(n, m, FALSE) # m => Positive(n - Win) = 0
  <1>1. Win \in Int /\ Win >= 1 /\ n \in Int /\ n >= 0 /\ m \in Int /\ m >= 0
    BY Sizes
  <1>2. PICK x \in Int, y \in Int : x = n - Win /\ y = n + m - Win
    BY <1>1
  <1>3. PICK p \in Int, q \in Int :
          /\ p = Positive(x) /\ (x < 0 => p = 0) /\ (x >= 0 => p = x)
          /\ q = Positive(y) /\ (y < 0 => q = 0) /\ (y >= 0 => q = y)
    BY PositiveIs
  <1>4. Yield(n, m, FALSE) = q - p /\ Yield(n, m, TRUE) = n + m - p
    BY <1>2, <1>3 DEF Yield
  <1>5. /\ (x < 0 => p = 0) /\ (x >= 0 => p = x) /\ (y < 0 => q = 0) /\ (y >= 0 => q = y)
        /\ x = n - Win /\ y = n + m - Win
    BY <1>2, <1>3
  <1>6. q - p \in 0 .. m /\ n + m - p \in 0 .. m + Win /\ (q - p # m => p = 0)
    BY ONLY <1>1, <1>5, p \in Int, q \in Int, x \in Int, y \in Int
  <1>7. Yield(n, 0, FALSE) = 0
    <2>1. n + 0 - Win = n - Win
      BY <1>1
    <2>2. Positive(n - Win) \in Int
      BY <1>2, <1>3
    <2>3. QED
      BY <2>1, <2>2 DEF Yield
  <1>8. QED
    BY <1>2, <1>3, <1>4, <1>6, <1>7

(* The first call of an utterance with cepstra, or with none. *)
LEMMA ProcessBegins ==
  ASSUME NEW V, NEW s \in Seq(V), Len(s) <= 3 * Win + 1, NEW a, NEW old, NEW ost,
         Stream(a, old, ost), a.state = "started", Made(a) = 0, a.senscr = -1,
         a.nAlloc >= 2 * Win + 1, a.grow \in BOOLEAN
  PROVE  LET r == ProcessCep(a, s)
         IN  /\ r.used = Len(s) /\ r.am.state = "processing" /\ Takes(a, r.am)
             /\ Stream(r.am, s, Given(s)) /\ Flows(r.am, s, Given(s))
             /\ r.am.nFeat <= Len(s) /\ (~a.grow => r.am.nAlloc = a.nAlloc)
  <1> DEFINE r == ProcessCep(a, s)
  <1>1. IsAm(a) /\ QueueOK(a) /\ FcbOK(a.fcb)
    BY DEF Stream
  <1>2. PICK size \in Nat \ {0} : size = a.nAlloc /\ size >= 2 * Win + 1 /\ a.nFeat = 0 /\ a.output = 0
    BY <1>1 DEF QueueOK, Made
  <1>3. PICK m \in Nat : m = Len(s) /\ m <= 3 * Win + 1
    OBVIOUS
  <1>w. Win \in Int /\ Win >= 1
    BY Sizes
  <1>4. PICK nfeat \in Int : nfeat = m - Win /\ nfeat <= size
    <2>1. m - Win \in Int /\ m - Win <= size
      BY ONLY <1>2, <1>3, <1>w, m \in Nat, size \in Nat
    <2>2. QED
      BY <2>1
  <1> DEFINE fit == GrownToFit(a, nfeat)
  <1>5. Expected(a, m) = nfeat
    BY <1>4 DEF Expected
  <1>6. Room(a) = size
    BY <1>2 DEF Room
  <1>7. Clamp(a, m) = m
    BY <1>4, <1>5, <1>6 DEF Clamp
  <1>8. /\ IsAm(fit) /\ Keeps(a, fit, {"featBuf", "nAlloc"}) /\ QueueOK(fit)
        /\ fit.nAlloc >= size /\ Made(fit) = 0 /\ nfeat <= fit.nAlloc
        /\ a.grow => nfeat < fit.nAlloc
        /\ ~a.grow => fit = a
        /\ \A cs, st : Ring(a, cs, st) => Ring(fit, cs, st)
    <2>1. CASE a.grow
      <3>1. a.grow = TRUE /\ Made(a) < a.nAlloc
        BY <2>1, <1>2
      <3>2. /\ IsAm(fit) /\ Keeps(a, fit, {"featBuf", "nAlloc"}) /\ QueueOK(fit)
            /\ fit.nAlloc >= a.nAlloc /\ Made(fit) = Made(a) /\ Made(fit) + nfeat < fit.nAlloc
            /\ \A cs, st : Ring(a, cs, st) => Ring(fit, cs, st)
        BY <3>1, <1>1, GrownEffect
      <3> HIDE DEF fit
      <3>3. PICK z \in Nat : z = fit.nAlloc
        BY <3>2 DEF QueueOK
      <3>4. nfeat < fit.nAlloc /\ nfeat <= fit.nAlloc
        BY <3>2, <3>3
      <3>5. QED
        BY <3>1, <3>2, <3>4, <1>2
    <2>2. CASE ~a.grow
      <3>1. ~ (nfeat > Room(a))
        BY <1>4, <1>6
      <3>2. fit = a
        BY <3>1, <2>2 DEF GrownToFit
      <3> HIDE DEF fit
      <3>3. Keeps(a, fit, {"featBuf", "nAlloc"})
        BY <3>2 DEF Keeps
      <3>4. QED
        BY <3>2, <3>3, <2>2, <1>1, <1>2, <1>4
    <2>3. QED
      BY <2>1, <2>2
  <1>9. r = ProcessFitting(fit, s, nfeat, m)
    BY <1>3, <1>5, <1>7 DEF ProcessCep
  <1> HIDE DEF fit, r
  <1>10. Stream(fit, old, ost) /\ fit.state = "started" /\ fit.grow = a.grow /\ fit.nFeat = 0 /\ fit.senscr = -1
    BY <1>1, <1>2, <1>8, StreamGrown
  <1>11. InPtr(fit) = 0
    <2>1. PICK z \in Nat \ {0} : z = fit.nAlloc
      BY <1>8 DEF QueueOK
    <2>2. 0 \in 0 .. z - 1
      BY <2>1
    <2>3. Rem(0, z) = 0
      BY <2>2, RemSmall
    <2>4. fit.grow \in BOOLEAN /\ (fit.grow => Made(fit) < fit.nAlloc)
      BY <2>1, <1>8, <1>10
    <2>5. QED
      BY <2>1, <2>3, <2>4, <1>8, InPtrIs
  <1>12. ~ (InPtr(fit) + nfeat > fit.nAlloc)
    <2>1. PICK z \in Nat \ {0} : z = fit.nAlloc
      BY <1>8 DEF QueueOK
    <2>2. QED
      BY <2>1, <1>8, <1>11
  <1> DEFINE c == Compute(fit, 0, s, FALSE)
  <1>13. r = [c EXCEPT !.am = Processing(@)]
    <2>1. SubSeq(s, 1, m) = s /\ (fit.state = "ended") = FALSE
      BY <1>3, <1>10
    <2>2. ComputeInOne(fit, s, m) = c
      BY <2>1, <1>11 DEF ComputeInOne
    <2> HIDE DEF c
    <2>3. QED
      BY <2>2, <1>9, <1>12 DEF ProcessFitting
  <1>14. PICK n \in Nat : n = Positive(m - Win) /\ n <= m
    BY <1>4, <1>w, PositiveIs
  <1>15. /\ c = [am |-> c.am, used |-> m, next |-> c.next]
         /\ Keeps(fit, c.am, {"featBuf", "nFeat", "fcb"})
         /\ c.am.nFeat = fit.nFeat + n /\ Made(c.am) = n
         /\ Stream(c.am, s, Given(s)) /\ Flows(c.am, s, Given(s))
    <2>1. fit.nAlloc >= 2 * Win + 1
      <3>1. PICK z \in Nat \ {0} : z = fit.nAlloc
        BY <1>8 DEF QueueOK
      <3>2. QED
        BY <3>1, <1>2, <1>8, <1>w
    <2>2. QED
      BY <2>1, <1>3, <1>8, <1>10, <1>14, ComputeBegins
  <1> HIDE DEF c
  <1>16. r.am = Processing(c.am) /\ r.used = m
    BY <1>13, <1>15
  <1>17. Keeps(a, c.am, {"featBuf", "nFeat", "fcb", "nAlloc"}) /\ c.am.nAlloc = fit.nAlloc
    BY <1>8, <1>15 DEF Keeps, AmFields
  <1>18. /\ Stream(r.am, s, Given(s)) /\ Flows(r.am, s, Given(s)) /\ Made(r.am) = n /\ r.am.nAlloc = fit.nAlloc
         /\ r.am.nFeat = n /\ r.am.state = "processing"
         /\ Keeps(a, r.am, {"state", "featBuf", "nFeat", "fcb", "nAlloc"})
    <2>1. IsAm(c.am)
      BY <1>15 DEF Stream
    <2>2. c.am.nFeat = n
      BY <1>10, <1>15
    <2>3. QED
      BY <2>1, <2>2, <1>15, <1>16, <1>17, ProcessingEffect
  <1>19. Takes(a, r.am)
    <2>1. a.grow => n < fit.nAlloc
      <3>1. PICK z \in Nat \ {0} : z = fit.nAlloc
        BY <1>8 DEF QueueOK
      <3>2. n = 0 \/ n = nfeat
        BY <1>4, <1>14, PositiveIs
      <3>3. QED
        BY <3>1, <3>2, <1>8
    <2>2. Still(a, r.am)
      BY DEF Still
    <2>3. QED
      BY <2>1, <2>2, <1>2, <1>8, <1>18 DEF Takes
  <1>20. QED
    BY <1>3, <1>8, <1>14, <1>16, <1>18, <1>19, <1>2 DEF r

-----------------------------------------------------------------------------
(* acmod_process_cep() with a buffer that grows. *)

(* A call when the buffer grows, and what it leaves. *)
Growing(a, cs, st, s, end, n) ==
  /\ Stream(a, cs, st) /\ Flows(a, cs, st) /\ a.grow = TRUE /\ Made(a) < a.nAlloc
  /\ a.state = IF end THEN "ended" ELSE "processing"
  /\ Len(s) <= 3 * Win + 1 /\ (end => Len(s) \in 1 .. 2 * Win + 1)
  /\ n = Yield(Len(cs), Len(s), end)

(* What a call did to a buffer that grows. *)
Grew(a, r, all, st, m, end, n) ==
  /\ r.used = m /\ r.am.state = a.state /\ Takes(a, r.am)
  /\ Stream(r.am, all, st) /\ (~end => Flows(r.am, all, st))
  /\ r.am.nFeat = a.nFeat + n /\ Made(r.am) = Made(a) + n

(* acmod_process_cep() takes all it is given when the buffer grows. *)
LEMMA ProcessGrows ==
  ASSUME NEW V, NEW cs \in Seq(V), NEW s \in Seq(V), NEW a, NEW st,
         NEW end \in BOOLEAN, NEW n \in Nat, Growing(a, cs, st, s, end, n)
  PROVE  Grew(a, ProcessCep(a, s), cs \o s, st, Len(s), end, n)
  <1>a. Stream(a, cs, st) /\ Flows(a, cs, st)
    BY DEF Growing
  <1>b. a.grow = TRUE /\ Made(a) < a.nAlloc
    BY DEF Growing
  <1>c. a.state = IF end THEN "ended" ELSE "processing"
    BY DEF Growing
  <1>d. Len(s) <= 3 * Win + 1
    BY DEF Growing
  <1>e. end => Len(s) \in 1 .. 2 * Win + 1
    BY DEF Growing
  <1>f. n = Yield(Len(cs), Len(s), end)
    BY DEF Growing
  <1> DEFINE r == ProcessCep(a, s)
             all == cs \o s
  <1>1. IsAm(a) /\ QueueOK(a) /\ FcbOK(a.fcb)
    BY <1>a DEF Stream
  <1>2. PICK size \in Nat \ {0}, made \in Nat, queued \in Nat :
          size = a.nAlloc /\ made = Made(a) /\ queued = a.nFeat /\ queued <= made /\ made < size
    BY <1>1, <1>b DEF QueueOK, Made
  <1>3. PICK m \in Nat : m = Len(s) /\ m <= 3 * Win + 1
    BY <1>d
  <1>w. Win \in Int /\ Win >= 1
    BY Sizes
  <1>4. PICK nfeat \in Int : nfeat = (IF end THEN m + Win ELSE m)
    BY <1>w
  <1>n. n <= nfeat /\ all = cs \o s
    <2>1. PICK k \in Nat : k = Len(cs)
      OBVIOUS
    <2>2. Yield(k, m, FALSE) \in 0 .. m /\ Yield(k, m, TRUE) \in 0 .. m + Win
      BY YieldIs
    <2>3. n = Yield(k, m, end)
      BY <1>3, <2>1, <1>f
    <2>4. CASE end = TRUE
      <3>1. n = Yield(k, m, TRUE)
        BY <2>3, <2>4
      <3>2. n \in 0 .. m + Win /\ nfeat = m + Win
        BY ONLY <3>1, <2>2, <2>4, <1>4
      <3>3. QED
        BY ONLY <3>2, <1>w, m \in Nat, nfeat \in Int DEF all
    <2>5. CASE end = FALSE
      <3>1. n = Yield(k, m, FALSE)
        BY <2>3, <2>5
      <3>2. n \in 0 .. m /\ nfeat = m
        BY ONLY <3>1, <2>2, <2>5, <1>4
      <3>3. QED
        BY ONLY <3>2, m \in Nat, nfeat \in Int DEF all
    <2>6. QED
      BY <2>4, <2>5
  <1> DEFINE fit == GrownToFit(a, nfeat)
  <1>5. Expected(a, m) = nfeat
    BY <1>4, <1>c DEF Expected
  <1>7. Clamp(a, m) = m
    BY <1>b DEF Clamp
  <1>8. /\ IsAm(fit) /\ Keeps(a, fit, {"featBuf", "nAlloc"}) /\ QueueOK(fit)
        /\ fit.nAlloc >= size /\ Made(fit) = made /\ made + nfeat < fit.nAlloc
        /\ \A p \in 0 .. made - 1 : fit.featBuf[p] = a.featBuf[p]
        /\ \A xs, t : Ring(a, xs, t) => Ring(fit, xs, t)
    BY <1>1, <1>2, <1>b, GrownEffect
  <1>9. r = ProcessFitting(fit, s, nfeat, m)
    BY <1>3, <1>5, <1>7 DEF ProcessCep
  <1> HIDE DEF fit, r, all
  <1>10. /\ Stream(fit, cs, st) /\ Flows(fit, cs, st)
         /\ fit.state = a.state /\ fit.grow = TRUE /\ fit.nFeat = queued
    BY <1>1, <1>2, <1>8, <1>a, <1>b, StreamGrown
  <1>z. PICK z \in Nat \ {0} : z = fit.nAlloc
    BY <1>8 DEF QueueOK
  <1>11. InPtr(fit) = made /\ made = Rem(Made(fit), fit.nAlloc)
    <2>1. made < z
      BY <1>z, <1>8, <1>2
    <2>2. InPtr(fit) = Rem(Made(fit), fit.nAlloc) /\ InPtr(fit) = Made(fit)
      <3>1. fit.grow = TRUE /\ Made(fit) < fit.nAlloc
        BY <2>1, <1>z, <1>8, <1>10
      <3>2. QED
        BY <3>1, <1>8, InPtrIs
    <2>3. QED
      BY <2>2, <1>8
  <1>12. ~ (InPtr(fit) + nfeat > fit.nAlloc)
    BY <1>z, <1>8, <1>11, <1>2
  <1> DEFINE c == Compute(fit, made, s, end)
  <1>13. r = [c EXCEPT !.am = Processing(@)]
    <2>1. SubSeq(s, 1, m) = s /\ (fit.state = "ended") = end
      BY <1>3, <1>10, <1>c
    <2>2. ComputeInOne(fit, s, m) = c
      BY <2>1, <1>11 DEF ComputeInOne
    <2> HIDE DEF c
    <2>3. QED
      BY <2>2, <1>9, <1>12 DEF ProcessFitting
  <1>15. /\ c = [am |-> c.am, used |-> m, next |-> c.next]
         /\ Keeps(fit, c.am, {"featBuf", "nFeat", "fcb"})
         /\ c.am.nFeat = queued + n /\ Made(c.am) = made + n
         /\ Stream(c.am, all, st) /\ (~end => Flows(c.am, all, st))
    <2>1. made + n <= fit.nAlloc /\ queued + n <= fit.nAlloc
      BY SMTT(30), <1>z, <1>2, <1>8, <1>n
    <2>2. fit.state # "started"
      BY <1>10, <1>c
    <2>3. made + n <= fit.nAlloc /\ fit.nFeat + n <= fit.nAlloc
      BY <2>1, <1>10
    <2>4. /\ c = [am |-> c.am, used |-> Len(s), next |-> c.next]
          /\ Keeps(fit, c.am, {"featBuf", "nFeat", "fcb"})
          /\ c.am.nFeat = fit.nFeat + n /\ Made(c.am) = Made(fit) + n
          /\ Stream(c.am, cs \o s, st) /\ (~end => Flows(c.am, cs \o s, st))
      <3>1. Stream(fit, cs, st)
        BY <1>10
      <3>2. Flows(fit, cs, st)
        BY <1>10
      <3>3. made = Rem(Made(fit), fit.nAlloc)
        BY <1>11
      <3>4. fit.state # "started" /\ made + n <= fit.nAlloc /\ fit.nFeat + n <= fit.nAlloc
        BY <2>2, <2>3
      <3>5. QED
        BY ONLY SMTT(30), <3>1, <3>2, <3>3, <2>2, <2>3, made \in Int, n \in Nat,
          n = Yield(Len(cs), Len(s), end), end \in BOOLEAN, Len(s) <= 3 * Win + 1,
              end => Len(s) \in 1 .. 2 * Win + 1,
              cs \in Seq(V), s \in Seq(V), <1>d, <1>e, <1>f, ComputeGoesOn
    <2> HIDE DEF c
    <2>5. QED
      BY <2>4, <1>3, <1>8, <1>10, <1>n
  <1>s. Still(a, c.am)
    <2>1. IsAm(fit) /\ QueueOK(fit) /\ Made(fit) < fit.nAlloc
      BY <1>z, <1>8, <1>2
    <2>2. \E live : c = Stored(fit, made, live)
      BY DEF Compute
    <2> HIDE DEF c
    <2>3. Still(fit, c.am)
      BY <2>1, <2>2, <1>8, StoredStill
    <2>4. QED
      BY <2>3, <1>2, <1>8 DEF Still
  <1> HIDE DEF c
  <1>16. r.am = Processing(c.am) /\ r.used = m
    BY <1>13, <1>15
  <1>17. Keeps(a, c.am, {"featBuf", "nFeat", "fcb", "nAlloc"}) /\ c.am.nAlloc = fit.nAlloc
    BY <1>8, <1>15 DEF Keeps, AmFields
  <1>18. /\ Stream(r.am, all, st) /\ (~end => Flows(r.am, all, st))
         /\ Made(r.am) = made + n /\ r.am.nAlloc = fit.nAlloc
         /\ r.am.nFeat = queued + n /\ r.am.state = a.state
         /\ Keeps(a, r.am, {"state", "featBuf", "nFeat", "fcb", "nAlloc"}) /\ r.am.featBuf = c.am.featBuf
    <2>1. IsAm(c.am)
      BY <1>15 DEF Stream
    <2>2. a.state # "started"
      BY <1>c
    <2>3. QED
      BY <2>1, <2>2, <1>15, <1>16, <1>17, ProcessingEffect
  <1>19. Takes(a, r.am)
    <2>1. made + n < fit.nAlloc /\ fit.nAlloc >= a.nAlloc
      BY <1>z, <1>2, <1>8, <1>n
    <2>2. Still(a, r.am)
      BY <1>s, <1>18 DEF Still
    <2>3. QED
      BY <2>1, <2>2, <1>18 DEF Takes
  <1>20. QED
    BY <1>2, <1>3, <1>16, <1>18, <1>19, <1>n DEF Grew, r

(* A sequence in two parts. *)
Joins(cs, s, t, all) == (cs \o s) \o t = all

(* A call in two parts gives the same cepstra. *)
LEMMA InParts ==
  ASSUME NEW V, NEW cs \in Seq(V), NEW s \in Seq(V), NEW p \in Int, NEW k \in Int,
         0 <= p, p <= k, k <= Len(s)
  PROVE  /\ SubSeq(s, 1, p) \in Seq(V) /\ SubSeq(s, p + 1, k) \in Seq(V)
         /\ Len(SubSeq(s, 1, p)) = p /\ Len(SubSeq(s, p + 1, k)) = k - p
         /\ Joins(cs, SubSeq(s, 1, p), SubSeq(s, p + 1, k), cs \o SubSeq(s, 1, k))
  <1>1. PICK m \in Nat : m = Len(s)
    OBVIOUS
  <1>2. \A i \in 1 .. m : s[i] \in V
    BY <1>1
  <1>3. SubSeq(s, 1, p) \in Seq(V) /\ Len(SubSeq(s, 1, p)) = p
    <2>1. (\A i \in 1 .. p : s[i] \in V) /\ 1 \in 1 .. m + 1 /\ p \in 0 .. m
      BY <1>1, <1>2
    <2>2. SubSeq(s, 1, p) \in Seq(V) /\ Len(SubSeq(s, 1, p)) = IF 1 <= p THEN p - 1 + 1 ELSE 0
      BY <1>1, <2>1, SubSeqProperties
    <2>3. QED
      BY <2>1, <2>2
  <1>4. SubSeq(s, p + 1, k) \in Seq(V) /\ Len(SubSeq(s, p + 1, k)) = k - p
    <2>1. PICK q \in Int : q = p + 1 /\ q \in 1 .. m + 1 /\ k \in 0 .. m
      BY <1>1
    <2>2. SubSeq(s, q, k) \in Seq(V) /\ Len(SubSeq(s, q, k)) = IF q <= k THEN k - q + 1 ELSE 0
      BY <1>1, <2>1, SubSeqProperties
    <2>3. QED
      BY <2>1, <2>2
  <1>5. SubSeq(s, 1, p) \o SubSeq(s, p + 1, k) = SubSeq(s, 1, k)
    <2>1. 1 \in 1 .. Len(s) + 1 /\ p \in (1 - 1) .. Len(s) /\ k \in p .. Len(s)
      BY <1>1
    <2>2. QED
      BY <2>1, ConcatAdjacentSubSeq
  <1>6. (cs \o SubSeq(s, 1, p)) \o SubSeq(s, p + 1, k) = cs \o (SubSeq(s, 1, p) \o SubSeq(s, p + 1, k))
    <2>1. PICK u \in Seq(V), w \in Seq(V) : u = SubSeq(s, 1, p) /\ w = SubSeq(s, p + 1, k)
      BY <1>3, <1>4
    <2>2. (cs \o u) \o w = cs \o (u \o w)
      BY SMTT(30), ConcatAssociative
    <2>3. QED
      BY <2>1, <2>2
  <1>7. QED
    BY <1>3, <1>4, <1>5, <1>6 DEF Joins

-----------------------------------------------------------------------------
(* acmod_process_cep() with a buffer that goes around. *)

(* The modulus leaves no remainder. *)
LEMMA RemWhole ==
  ASSUME NEW m \in Nat \ {0}
  PROVE  Rem(m, m) = 0
  <1>1. PICK r \in 0 .. m - 1 : r = Rem(m, m)
    BY RemRange
  <1>2. CASE r # 0
    <2>1. r < m /\ m < r + m /\ r \in Int
      BY <1>2
    <2>2. Rem(r, m) # Rem(m, m)
      BY <2>1, RemApart
    <2>3. Rem(r, m) = r
      BY RemSmall
    <2>4. QED
      BY <2>2, <2>3, <1>1
  <1>3. QED
    BY <1>1, <1>2

(* A call that does not end the utterance, and what it leaves. *)
Taking(a, cs, st, more, pos, n) ==
  /\ Stream(a, cs, st) /\ Flows(a, cs, st) /\ a.state # "started" /\ Len(more) <= 3 * Win + 1
  /\ pos \in Int /\ pos = Rem(Made(a), a.nAlloc)
  /\ n \in Nat /\ n = Yield(Len(cs), Len(more), FALSE)
  /\ pos + n <= a.nAlloc /\ a.nFeat + n <= a.nAlloc

(* What a part of a call did. *)
Taken(a, r, all, st, m, n) ==
  /\ r = [am |-> r.am, used |-> m, next |-> r.next]
  /\ r.next = Rem(Made(r.am), a.nAlloc)
  /\ Keeps(a, r.am, {"featBuf", "nFeat", "fcb"})
  /\ r.am.nFeat = a.nFeat + n /\ Made(r.am) = Made(a) + n
  /\ Stream(r.am, all, st) /\ Flows(r.am, all, st)

(* A part of a call that fits before the end of the buffer. *)
LEMMA ComputeOn ==
  ASSUME NEW V, NEW cs \in Seq(V), NEW more \in Seq(V), NEW a, NEW st,
         NEW pos \in Int, NEW n \in Nat, Taking(a, cs, st, more, pos, n)
  PROVE  Taken(a, Compute(a, pos, more, FALSE), cs \o more, st, Len(more), n)
  <1>0. /\ Stream(a, cs, st) /\ Flows(a, cs, st) /\ a.state # "started" /\ Len(more) <= 3 * Win + 1
    BY DEF Taking
  <1>n. n = Yield(Len(cs), Len(more), FALSE)
    BY DEF Taking
  <1>p. pos = Rem(Made(a), a.nAlloc)
    BY DEF Taking
  <1>r. pos + n <= a.nAlloc /\ a.nFeat + n <= a.nAlloc
    BY DEF Taking
  <1>1. PICK end \in BOOLEAN : ~end /\ end = FALSE
    OBVIOUS
  <1>2. end => Len(more) \in 1 .. 2 * Win + 1
    BY <1>1
  <1> DEFINE c == Compute(a, pos, more, end)
             r == Compute(a, pos, more, FALSE)
  <1>3. n = Yield(Len(cs), Len(more), end)
    BY <1>n, <1>1
  <1>4. /\ c = [am |-> c.am, used |-> Len(more), next |-> c.next]
        /\ c.next = Rem(Made(c.am), a.nAlloc)
        /\ Keeps(a, c.am, {"featBuf", "nFeat", "fcb"})
        /\ c.am.nFeat = a.nFeat + n /\ Made(c.am) = Made(a) + n
        /\ Stream(c.am, cs \o more, st) /\ (~end => Flows(c.am, cs \o more, st))
    BY ONLY <1>0, <1>p, <1>r, <1>2, <1>3, end \in BOOLEAN, pos \in Int, n \in Nat, cs \in Seq(V), more \in Seq(V), ComputeGoesOn
  <1>5. c = r
    BY <1>1
  <1> HIDE DEF c, r
  <1>6. Flows(c.am, cs \o more, st)
    BY <1>1, <1>4
  <1>7. QED
    BY <1>4, <1>5, <1>6 DEF Taken, r

(* A call in the midst of an utterance with k of the cepstra, whose features *)
(* wrap around the end of the buffer.                                        *)
LEMMA InTwo ==
  ASSUME NEW V, NEW cs \in Seq(V), NEW s \in Seq(V), NEW a, NEW st,
         Stream(a, cs, st), Flows(a, cs, st), a.state = "processing",
         NEW k \in Nat, k <= Len(s), k <= 3 * Win + 1, a.nFeat + k <= a.nAlloc,
         InPtr(a) = Rem(Made(a), a.nAlloc), InPtr(a) \in 0 .. a.nAlloc - 1,
         a.nAlloc - InPtr(a) <= k
  PROVE  LET r == ComputeInTwo(a, s, k)
         IN  /\ r = [am |-> r.am, used |-> k, next |-> r.next]
             /\ Keeps(a, r.am, {"featBuf", "nFeat", "fcb"})
             /\ r.am.nFeat <= a.nFeat + k
             /\ Stream(r.am, cs \o SubSeq(s, 1, k), st) /\ Flows(r.am, cs \o SubSeq(s, 1, k), st)
  <1>1. IsAm(a) /\ QueueOK(a) /\ FcbOK(a.fcb)
    BY DEF Stream
  <1>0. PICK size \in Nat \ {0}, made \in Nat, queued \in Nat :
          size = a.nAlloc /\ made = Made(a) /\ queued = a.nFeat /\ queued + k <= size
    BY <1>1 DEF QueueOK, Made
  <1>2. PICK pos \in 0 .. size - 1 : pos = InPtr(a) /\ pos = Rem(made, size) /\ size - pos <= k
    BY <1>0
  <1>i. pos \in Int /\ 0 <= pos /\ pos < size
    BY <1>2
  <1>3. PICK p \in Int : p = size - pos
    BY <1>i
  <1>num. 1 <= p /\ p <= size /\ p <= k /\ p = size - pos /\ p \in Nat /\ queued + k <= size
    BY SMTT(30), <1>0, <1>2, <1>3, <1>i
  <1>w. Win \in Int /\ Win >= 1
    BY Sizes
  <1> DEFINE s1 == SubSeq(s, 1, p)
             s2 == SubSeq(s, p + 1, k)
             c1 == Compute(a, pos, s1, FALSE)
             c2 == Compute(c1.am, c1.next, s2, FALSE)
             r == ComputeInTwo(a, s, k)
  <1>4. /\ s1 \in Seq(V) /\ s2 \in Seq(V) /\ Len(s1) = p /\ Len(s2) = k - p
        /\ (cs \o s1) \o s2 = cs \o SubSeq(s, 1, k)
    <2>1. /\ s1 \in Seq(V) /\ s2 \in Seq(V) /\ Len(s1) = p /\ Len(s2) = k - p
          /\ Joins(cs, s1, s2, cs \o SubSeq(s, 1, k))
      BY ONLY <1>num, p \in Int, k \in Int, k \in Nat, k <= Len(s), cs \in Seq(V), s \in Seq(V), InParts
    <2>2. QED
      BY <2>1 DEF Joins
  <1>5. PICK x \in Nat : x = Len(cs)
    OBVIOUS
  <1>6. PICK y1 \in 0 .. p : y1 = Yield(x, p, FALSE) /\ (y1 # p => Positive(x - Win) = 0)
    BY <1>num, YieldIs
  <1>y. y1 \in Nat /\ y1 <= p
    BY ONLY <1>num, y1 \in 0 .. p
  <1> HIDE DEF s1, s2
  <1>7. /\ c1 = [am |-> c1.am, used |-> p, next |-> c1.next]
        /\ c1.next = Rem(Made(c1.am), size)
        /\ Keeps(a, c1.am, {"featBuf", "nFeat", "fcb"})
        /\ c1.am.nFeat = queued + y1 /\ Made(c1.am) = made + y1
        /\ Stream(c1.am, cs \o s1, st) /\ Flows(c1.am, cs \o s1, st)
    <2>1. pos + y1 <= a.nAlloc /\ a.nFeat + y1 <= a.nAlloc
      <3>1. pos + y1 <= size /\ queued + y1 <= size
        BY ONLY <1>num, <1>y, <1>i, k \in Nat, queued \in Nat, size \in Nat \ {0}
      <3>2. QED
        BY <3>1, <1>0
    <2>2. Len(s1) <= 3 * Win + 1
      <3>1. p <= 3 * Win + 1
        BY ONLY <1>num, <1>w, k \in Nat, k <= 3 * Win + 1
      <3>2. QED
        BY <3>1, <1>4
    <2>3. y1 = Yield(Len(cs), Len(s1), FALSE) /\ pos = Rem(Made(a), a.nAlloc) /\ a.state # "started"
      BY <1>0, <1>2, <1>4, <1>5, <1>6
    <2>4. /\ c1 = [am |-> c1.am, used |-> Len(s1), next |-> c1.next]
          /\ c1.next = Rem(Made(c1.am), a.nAlloc)
          /\ Keeps(a, c1.am, {"featBuf", "nFeat", "fcb"})
          /\ c1.am.nFeat = a.nFeat + y1 /\ Made(c1.am) = Made(a) + y1
          /\ Stream(c1.am, cs \o s1, st) /\ Flows(c1.am, cs \o s1, st)
      <3>1. s1 \in Seq(V) /\ y1 \in Nat /\ pos \in Int
        BY <1>4, <1>y, <1>i
      <3>2. Taking(a, cs, st, s1, pos, y1)
        BY <2>1, <2>2, <2>3, <3>1 DEF Taking
      <3>3. Taken(a, c1, cs \o s1, st, Len(s1), y1)
        BY <3>1, <3>2, <1>i, <1>y, ComputeOn
      <3>4. QED
        BY <3>3 DEF Taken
    <2> HIDE DEF c1
    <2>5. QED
      BY <2>4, <1>0, <1>4
  <1> HIDE DEF c1
  <1>8. /\ c1.am.state = "processing" /\ c1.am.nAlloc = size /\ IsAm(c1.am) /\ QueueOK(c1.am)
    BY <1>0, <1>7 DEF Keeps, AmFields, Stream
  <1>q. PICK q \in Nat, xp \in Nat : q = k - p /\ xp = x + p
    BY <1>num
  <1>9. PICK y2 \in 0 .. q : y2 = Yield(xp, q, FALSE)
    BY YieldIs
  <1>yy. y2 \in Nat /\ y2 <= q /\ q = k - p
    BY ONLY y2 \in 0 .. q, q \in Nat, <1>q
  <1>m. PICK made1 \in Nat : made1 = made + y1
    BY <1>y
  <1>10. PICK to \in Int : to = c1.next /\ to = Rem(made1, size) /\ to + y2 <= size
    <2>1. CASE y1 = p
      <3>1. Rem(pos, size) = Rem(made, size)
        BY <1>2, <1>i, RemTwice
      <3>2. pos + p = size /\ made + p = made1
        BY ONLY <1>num, <1>i, <1>m, <2>1, size \in Nat \ {0}
      <3>3. Rem(pos + p, size) = Rem(made + p, size)
        BY ONLY <3>1, size \in Nat \ {0}, pos \in Int, <1>i, made \in Int, made \in Nat, p \in Int, RemShift
      <3>4. Rem(size, size) = 0
        BY RemWhole
      <3>5. Rem(made1, size) = 0
        BY <3>2, <3>3, <3>4
      <3>6. y2 <= size
        BY ONLY <1>num, <1>yy, k \in Nat, queued \in Nat, size \in Nat \ {0}
      <3>7. c1.next = 0
        BY <3>5, <1>7, <1>0, <1>m
      <3>8. QED
        BY <3>5, <3>6, <3>7, <1>yy
    <2>2. CASE y1 # p
      <3>1. Made(a) = 0
        BY <2>2, <1>5, <1>6 DEF Flows
      <3>2. pos = 0
        <4>1. 0 \in 0 .. size - 1
          OBVIOUS
        <4>2. Rem(0, size) = 0
          BY <4>1, RemSmall
        <4>3. QED
          BY <4>2, <3>1, <1>0, <1>2
      <3>3. y2 = 0
        BY ONLY <3>2, <1>num, <1>yy, k \in Nat, queued \in Nat, size \in Nat \ {0}
      <3>4. PICK d \in 0 .. size - 1 : d = Rem(made1, size)
        BY ONLY size \in Nat \ {0}, made1 \in Nat, RemRange
      <3>5. d + 0 <= size /\ d \in Int
        BY <3>4
      <3>6. QED
        BY <3>3, <3>4, <3>5, <1>7, <1>0, <1>m
    <2>3. QED
      BY <2>1, <2>2
  <1>11. /\ c2 = [am |-> c2.am, used |-> q, next |-> c2.next]
         /\ Keeps(c1.am, c2.am, {"featBuf", "nFeat", "fcb"})
         /\ c2.am.nFeat = (queued + y1) + y2
         /\ Stream(c2.am, (cs \o s1) \o s2, st) /\ Flows(c2.am, (cs \o s1) \o s2, st)
    <2>1. to + y2 <= c1.am.nAlloc /\ c1.am.nFeat + y2 <= c1.am.nAlloc
      <3>1. (queued + y1) + y2 <= size
        BY ONLY <1>num, <1>yy, <1>y, k \in Nat, queued \in Nat, size \in Nat \ {0}
      <3>2. QED
        BY <3>1, <1>7, <1>8, <1>10
    <2>2. Len(s2) = q /\ Len(s2) <= 3 * Win + 1
      <3>1. q <= 3 * Win + 1
        BY ONLY <1>num, <1>yy, <1>w, k \in Nat, k <= 3 * Win + 1
      <3>2. QED
        BY <3>1, <1>4, <1>q
    <2>3. (cs \o s1) \in Seq(V) /\ Len(cs \o s1) = xp
      <3>1. s1 \in Seq(V) /\ Len(s1) = p
        BY <1>4
      <3>2. QED
        BY <3>1, <1>5, <1>q, ConcatProperties
    <2>4. /\ y2 = Yield(Len(cs \o s1), Len(s2), FALSE)
          /\ to = Rem(Made(c1.am), c1.am.nAlloc) /\ c1.am.state # "started"
      BY <2>2, <2>3, <1>7, <1>8, <1>9, <1>10, <1>m, <1>0
    <2>5. PICK all \in Seq(V) : all = cs \o s1
      BY <2>3
    <2>6. PICK b : b = c1.am
      OBVIOUS
    <2>7. c2 = Compute(b, to, s2, FALSE)
      BY <2>6, <1>10
    <2>h. /\ to + y2 <= b.nAlloc /\ b.nFeat + y2 <= b.nAlloc /\ Len(s2) <= 3 * Win + 1
          /\ y2 = Yield(Len(all), Len(s2), FALSE)
          /\ to = Rem(Made(b), b.nAlloc) /\ b.state # "started"
          /\ Stream(b, all, st) /\ Flows(b, all, st) /\ s2 \in Seq(V)
      BY <2>1, <2>2, <2>4, <2>5, <2>6, <1>7, <1>4
    <2> DEFINE c == Compute(b, to, s2, FALSE)
    <2>8. /\ c = [am |-> c.am, used |-> Len(s2), next |-> c.next]
          /\ Keeps(b, c.am, {"featBuf", "nFeat", "fcb"})
          /\ c.am.nFeat = b.nFeat + y2
          /\ Stream(c.am, all \o s2, st) /\ Flows(c.am, all \o s2, st)
      <3>1. y2 \in Nat /\ s2 \in Seq(V)
        BY <1>yy, <1>4
      <3>2. Taking(b, all, st, s2, to, y2)
        BY <2>h, <3>1 DEF Taking
      <3>3. Taken(b, c, all \o s2, st, Len(s2), y2)
        BY <3>1, <3>2, ComputeOn
      <3>4. QED
        BY <3>3 DEF Taken
    <2> HIDE DEF c, c2
    <2>9. c2 = c
      BY <2>7 DEF c
    <2>10. QED
      BY <2>2, <2>5, <2>6, <2>8, <2>9, <1>7
  <1>12. r = [c2 EXCEPT !.used = @ + p]
    <2>1. a.nAlloc - InPtr(a) = p /\ InPtr(a) = pos
      BY <1>0, <1>2, <1>3
    <2>2. r = ComputeRest(c1, s, k)
      BY <2>1 DEF ComputeInTwo, c1, s1
    <2>3. (c1.am.state = "ended") = FALSE /\ c1.used = p
      BY <1>7, <1>8
    <2>4. SubSeq(s, c1.used + 1, k) = s2
      BY <2>3 DEF s2
    <2>5. ComputeRest(c1, s, k) =
            [Compute(c1.am, c1.next, SubSeq(s, c1.used + 1, k), c1.am.state = "ended")
               EXCEPT !.used = @ + c1.used]
      BY DEF ComputeRest
    <2>6. QED
      BY <2>2, <2>3, <2>4, <2>5
  <1> HIDE DEF c2, r
  <1>13. r = [am |-> c2.am, used |-> k, next |-> c2.next]
    <2>1. q + p = k
      BY ONLY <1>num, <1>yy, k \in Nat, q \in Nat
    <2>2. r = [am |-> c2.am, used |-> q + p, next |-> c2.next]
      <3>1. c2 = [am |-> c2.am, used |-> q, next |-> c2.next]
        BY <1>11
      <3>2. PICK u, w : u = c2.am /\ w = c2.next
        OBVIOUS
      <3>3. c2 = [am |-> u, used |-> q, next |-> w]
        BY <3>1, <3>2
      <3>4. r = [am |-> u, used |-> q + p, next |-> w]
        BY ONLY <3>3, <1>12
      <3>5. QED
        BY <3>2, <3>4
    <2>3. QED
      BY <2>1, <2>2
  <1>14. Keeps(a, c2.am, {"featBuf", "nFeat", "fcb"})
    BY <1>7, <1>11 DEF Keeps
  <1>15. (queued + y1) + y2 <= queued + k
    BY ONLY <1>num, <1>yy, <1>y, k \in Nat, queued \in Nat
  <1>16. r = [am |-> r.am, used |-> k, next |-> r.next] /\ r.am = c2.am
    BY <1>13
  <1>17. c2.am.nFeat <= a.nFeat + k
    BY <1>0, <1>11, <1>15
  <1>18. QED
    BY <1>4, <1>16, <1>17, <1>11, <1>14 DEF r

(* A call in the midst of an utterance, when the buffer does not grow. *)
LEMMA ProcessRing ==
  ASSUME NEW V, NEW cs \in Seq(V), NEW s \in Seq(V), NEW a, NEW st,
         Stream(a, cs, st), Flows(a, cs, st), a.grow = FALSE, a.state = "processing",
         Len(s) <= 3 * Win + 1, a.nFeat = 0 \/ a.nFeat + Len(s) <= a.nAlloc
  PROVE  LET r == ProcessCep(a, s)
         IN  /\ r.used \in 0 .. Len(s) /\ (a.nFeat + Len(s) <= a.nAlloc => r.used = Len(s))
             /\ r.am.state = "processing" /\ Takes(a, r.am) /\ r.am.nAlloc = a.nAlloc
             /\ Stream(r.am, cs \o SubSeq(s, 1, r.used), st)
             /\ Flows(r.am, cs \o SubSeq(s, 1, r.used), st)
             /\ r.am.nFeat <= a.nFeat + r.used
  <1> DEFINE r == ProcessCep(a, s)
  <1>1. IsAm(a) /\ QueueOK(a) /\ FcbOK(a.fcb)
    BY DEF Stream
  <1>2. PICK size \in Nat \ {0}, queued \in Nat :
          size = a.nAlloc /\ queued = a.nFeat /\ queued <= size
    BY <1>1 DEF QueueOK
  <1>3. PICK m \in Nat : m = Len(s)
    OBVIOUS
  <1>4. m <= 3 * Win + 1 /\ (queued = 0 \/ queued + m <= size) /\ queued <= size
    BY <1>2, <1>3
  <1>5. Expected(a, m) = m
    BY DEF Expected
  <1>6. PICK k \in Nat : k = Clamp(a, m) /\ k = IF m > size - queued THEN m - (m - (size - queued)) ELSE m
    BY <1>2, <1>4, <1>5 DEF Clamp, Room
  <1>7. k <= m /\ queued + k <= size /\ (queued + m <= size => k = m) /\ (k # m => k = size)
    BY ONLY <1>4, <1>6, queued \in Nat, size \in Nat \ {0}, m \in Nat, k \in Nat
  <1>8. GrownToFit(a, m) = a
    BY DEF GrownToFit
  <1>9. r = ProcessFitting(a, s, m, k)
    BY <1>3, <1>5, <1>6, <1>8 DEF ProcessCep
  <1>10. InPtr(a) = Rem(Made(a), a.nAlloc) /\ InPtr(a) \in 0 .. a.nAlloc - 1
    BY <1>1, InPtrIs
  <1>11. PICK pos \in 0 .. size - 1 : pos = InPtr(a)
    BY <1>2, <1>10
  <1>12. pos \in Int /\ 0 <= pos /\ pos < size
    BY <1>11
  <1> DEFINE all == cs \o SubSeq(s, 1, k)
             c == IF pos + m > size THEN ComputeInTwo(a, s, k) ELSE ComputeInOne(a, s, k)
  <1>13. r = [c EXCEPT !.am = Processing(@)]
    <2>1. (InPtr(a) + m > a.nAlloc) = (pos + m > size) /\ a.state # "ended"
      BY <1>2, <1>11
    <2>2. r = [(IF InPtr(a) + m > a.nAlloc THEN ComputeInTwo(a, s, k) ELSE ComputeInOne(a, s, k))
                 EXCEPT !.am = Processing(@)]
      BY <2>1, <1>9 DEF ProcessFitting
    <2>3. QED
      BY <2>1, <2>2
  <1> HIDE DEF r, c, all
  <1>14. /\ c = [am |-> c.am, used |-> k, next |-> c.next]
         /\ Keeps(a, c.am, {"featBuf", "nFeat", "fcb"})
         /\ c.am.nFeat <= queued + k
         /\ Stream(c.am, all, st) /\ Flows(c.am, all, st)
    <2>1. CASE pos + m > size
      <3>1. size - pos <= k
        BY ONLY <1>4, <1>7, <1>12, <2>1, queued \in Nat, size \in Nat \ {0}, m \in Nat, k \in Nat
      <3>2. a.nAlloc - InPtr(a) <= k /\ a.nFeat + k <= a.nAlloc
        BY <3>1, <1>2, <1>7, <1>11
      <3>3. k <= Len(s) /\ k <= 3 * Win + 1
        <4>1. Win \in Int
          BY Sizes
        <4>2. k <= 3 * Win + 1
          BY ONLY <4>1, <1>4, <1>7, m \in Nat, k \in Nat
        <4>3. QED
          BY <4>2, <1>3, <1>7
      <3> DEFINE d == ComputeInTwo(a, s, k)
      <3>4. /\ d = [am |-> d.am, used |-> k, next |-> d.next]
            /\ Keeps(a, d.am, {"featBuf", "nFeat", "fcb"})
            /\ d.am.nFeat <= a.nFeat + k
            /\ Stream(d.am, cs \o SubSeq(s, 1, k), st) /\ Flows(d.am, cs \o SubSeq(s, 1, k), st)
        BY <3>2, <3>3, <1>10, InTwo
      <3>5. c = d
        BY <2>1 DEF c
      <3> HIDE DEF d
      <3>6. QED
        BY <3>4, <3>5, <1>2 DEF all
    <2>2. CASE ~ (pos + m > size)
      <3>1. k = m /\ pos + m <= size /\ queued + m <= size
        BY ONLY <1>4, <1>7, <1>12, <2>2, queued \in Nat, size \in Nat \ {0}, m \in Nat, k \in Nat
      <3>2. SubSeq(s, 1, k) = s /\ (a.state = "ended") = FALSE
        BY <3>1, <1>3
      <3> DEFINE d == Compute(a, pos, s, FALSE)
      <3>3. c = d
        <4>1. c = ComputeInOne(a, s, k)
          BY <2>2 DEF c
        <4>2. QED
          BY <4>1, <3>2, <1>11 DEF ComputeInOne
      <3>4. PICK x \in Nat : x = Len(cs)
        OBVIOUS
      <3>5. PICK y \in 0 .. m : y = Yield(x, m, FALSE)
        BY YieldIs
      <3>6. y \in Nat /\ y <= m
        BY ONLY y \in 0 .. m, m \in Nat
      <3>7. pos + y <= size /\ queued + y <= size
        BY ONLY <3>1, <3>6, <1>12, queued \in Nat, size \in Nat \ {0}, m \in Nat
      <3>8. pos = Rem(Made(a), a.nAlloc) /\ y = Yield(Len(cs), Len(s), FALSE)
        BY <3>4, <3>5, <1>3, <1>10, <1>11
      <3>9. pos + y <= a.nAlloc /\ a.nFeat + y <= a.nAlloc /\ y \in Nat /\ pos \in Int
        BY <3>6, <3>7, <1>2, <1>12
      <3>10. Taking(a, cs, st, s, pos, y)
        BY <3>8, <3>9 DEF Taking
      <3>11. Taken(a, d, cs \o s, st, Len(s), y)
        BY <3>6, <3>10, <1>12, ComputeOn
      <3> HIDE DEF d
      <3>12. all = cs \o s /\ k = Len(s)
        BY <3>1, <3>2, <1>3 DEF all
      <3>13. queued + y <= queued + k
        BY ONLY <3>1, <3>6, queued \in Nat, m \in Nat
      <3>14. d.am.nFeat = queued + y
        BY <3>11, <1>2 DEF Taken
      <3>15. QED
        BY <3>3, <3>11, <3>12, <3>13, <3>14 DEF Taken
    <2>3. QED
      BY <2>1, <2>2
  <1>15. r.am = Processing(c.am) /\ r.used = k
    BY <1>13, <1>14
  <1>16. Keeps(a, c.am, {"featBuf", "nFeat", "fcb", "nAlloc"}) /\ c.am.nAlloc = size
    BY <1>2, <1>14 DEF Keeps, AmFields
  <1>17. /\ Stream(r.am, all, st) /\ Flows(r.am, all, st) /\ r.am.nAlloc = size
         /\ r.am.nFeat <= queued + k /\ r.am.state = "processing"
         /\ Keeps(a, r.am, {"state", "featBuf", "nFeat", "fcb", "nAlloc"})
    <2>1. IsAm(c.am)
      BY <1>14 DEF Stream
    <2>2. QED
      BY <2>1, <1>14, <1>15, <1>16, ProcessingEffect
  <1>18. Takes(a, r.am)
    BY <1>2, <1>17 DEF Takes
  <1>19. k \in 0 .. Len(s) /\ (a.nFeat + Len(s) <= a.nAlloc => k = Len(s))
    BY <1>2, <1>3, <1>7
  <1>20. QED
    BY <1>2, <1>15, <1>17, <1>18, <1>19 DEF r, all

(* At the end of the utterance every frame gets its feature. *)
LEMMA YieldAtEnd ==
  ASSUME NEW x \in Nat, NEW m \in Nat
  PROVE  Positive(x - Win) + Yield(x, m, TRUE) = x + m
  <1>1. Win \in Int
    BY Sizes
  <1>2. PICK y \in Int : y = x - Win
    BY <1>1
  <1>3. PICK p \in Int : p = Positive(y)
    BY PositiveIs
  <1>4. Yield(x, m, TRUE) = x + m - p
    BY <1>2, <1>3 DEF Yield
  <1>5. p + (x + m - p) = x + m
    OBVIOUS
  <1>6. QED
    BY <1>2, <1>3, <1>4, <1>5

(* The last cepstrum, when the buffer does not grow: its features may be *)
(* dropped.                                                              *)
LEMMA ProcessEnds ==
  ASSUME NEW V, NEW cs \in Seq(V), NEW s \in Seq(V), NEW a, NEW st,
         Stream(a, cs, st), Flows(a, cs, st), a.grow = FALSE, a.state = "ended",
         a.nFeat = 0, Len(s) = 1, a.nAlloc >= 2 * Win + 1
  PROVE  LET r == ProcessCep(a, s)
         IN  \/ r.am = a /\ r.used = 0
             \/ /\ r.used = 1 /\ Stream(r.am, cs \o s, st) /\ Made(r.am) = Len(cs) + 1
                /\ Keeps(a, r.am, {"state", "featBuf", "nFeat", "fcb"})
                /\ r.am.state = "ended"
  <1> DEFINE r == ProcessCep(a, s)
  <1>1. IsAm(a) /\ QueueOK(a) /\ FcbOK(a.fcb)
    BY DEF Stream
  <1>w. Win \in Int /\ Win >= 1
    BY Sizes
  <1>2. PICK size \in Nat \ {0} : size = a.nAlloc /\ size >= 2 * Win + 1
    BY <1>1 DEF QueueOK
  <1>3. PICK nfeat \in Nat : nfeat = 1 + Win
    BY <1>w
  <1>4. nfeat <= size
    BY ONLY <1>2, <1>3, <1>w, nfeat \in Nat, size \in Nat \ {0}
  <1>5. Expected(a, 1) = nfeat
    BY <1>3 DEF Expected
  <1>6. Clamp(a, 1) = 1
    BY DEF Clamp
  <1>7. GrownToFit(a, nfeat) = a
    BY <1>2, <1>4 DEF GrownToFit, Room
  <1>8. r = ProcessFitting(a, s, nfeat, 1)
    BY <1>5, <1>6, <1>7 DEF ProcessCep
  <1>9. InPtr(a) = Rem(Made(a), a.nAlloc) /\ InPtr(a) \in 0 .. a.nAlloc - 1
    BY <1>1, InPtrIs
  <1>10. PICK pos \in 0 .. size - 1 : pos = InPtr(a)
    BY <1>2, <1>9
  <1>11. pos \in Int /\ 0 <= pos /\ pos < size
    BY <1>10
  <1>12. CASE pos + nfeat > size
    <2>1. r = [am |-> a, used |-> 0]
      BY <1>2, <1>8, <1>10, <1>12 DEF ProcessFitting
    <2>2. QED
      BY <2>1
  <1>13. CASE ~ (pos + nfeat > size)
    <2>1. PICK end \in BOOLEAN : end
      OBVIOUS
    <2> DEFINE c == Compute(a, pos, s, end)
    <2>2. r = [c EXCEPT !.am = Processing(@)]
      <3>1. SubSeq(s, 1, 1) = s /\ (a.state = "ended") = end
        <4>1. SubSeq(s, 1, Len(s)) = s
          BY SubSeqFull
        <4>2. SubSeq(s, 1, 1) = s
          BY <4>1
        <4>3. (a.state = "ended") = end
          BY <2>1
        <4>4. QED
          BY <4>2, <4>3
      <3>2. ComputeInOne(a, s, 1) = c
        BY <3>1, <1>10 DEF ComputeInOne
      <3> HIDE DEF c
      <3>3. ~ (InPtr(a) + nfeat > a.nAlloc)
        BY <1>2, <1>10, <1>13
      <3>4. QED
        BY <3>2, <3>3, <1>8 DEF ProcessFitting
    <2> HIDE DEF r
    <2>3. PICK x \in Nat : x = Len(cs)
      OBVIOUS
    <2>4. PICK p \in Int : p = Positive(x - Win) /\ p >= x - Win /\ p <= x
      <3>1. PICK y \in Int : y = x - Win
        BY <1>w
      <3>2. PICK q \in Int : q = Positive(y) /\ (y < 0 => q = 0) /\ (y >= 0 => q = y)
        BY PositiveIs
      <3>3. q >= x - Win /\ q <= x
        BY ONLY <3>1, <3>2, <1>w, q \in Int, y \in Int, x \in Nat
      <3>4. QED
        BY <3>1, <3>2, <3>3
    <2>5. PICK n \in Nat : n = x + 1 - p
      BY <2>4
    <2>6. n <= nfeat /\ p + n = x + 1
      BY ONLY <2>4, <2>5, <1>3, <1>w, n \in Nat, nfeat \in Nat, p \in Int, x \in Nat
    <2>7. n = Yield(x, 1, end)
      BY <2>1, <2>4, <2>5 DEF Yield
    <2>8. n = Yield(Len(cs), Len(s), end) /\ pos = Rem(Made(a), a.nAlloc) /\ a.state # "started"
      BY <2>3, <2>7, <1>9, <1>10
    <2>9. pos + n <= a.nAlloc /\ a.nFeat + n <= a.nAlloc
      <3>1. pos + n <= size /\ 0 + n <= size
        BY ONLY <2>6, <1>4, <1>11, <1>13, n \in Nat, nfeat \in Nat, size \in Nat \ {0}
      <3>2. QED
        BY <3>1, <1>2
    <2>10. Len(s) <= 3 * Win + 1 /\ (end => Len(s) \in 1 .. 2 * Win + 1)
      BY <1>w
    <2>11. /\ c = [am |-> c.am, used |-> Len(s), next |-> c.next]
           /\ Keeps(a, c.am, {"featBuf", "nFeat", "fcb"})
           /\ Made(c.am) = Made(a) + n
           /\ Stream(c.am, cs \o s, st)
      BY ONLY <2>8, <2>9, <2>10, end \in BOOLEAN, pos \in Int, <1>11, n \in Nat, cs \in Seq(V), s \in Seq(V),
              Stream(a, cs, st), Flows(a, cs, st), ComputeGoesOn
    <2> HIDE DEF c
    <2>12. Made(c.am) = Len(cs) + 1
      <3>1. Made(a) = p
        BY <2>3, <2>4 DEF Flows
      <3>2. QED
        BY <3>1, <2>3, <2>6, <2>11
    <2>13. r.am = Processing(c.am) /\ r.used = 1
      BY <2>2, <2>11
    <2>14. Keeps(a, c.am, {"featBuf", "nFeat", "fcb", "nAlloc"})
      BY <2>11 DEF Keeps
    <2>15. IsAm(c.am)
      BY <2>11 DEF Stream
    <2>16. /\ Stream(r.am, cs \o s, st) /\ Made(r.am) = Made(c.am) /\ r.am.nAlloc = c.am.nAlloc
           /\ r.am.state = "ended" /\ Keeps(a, r.am, {"state", "featBuf", "nFeat", "fcb", "nAlloc"})
      BY <2>11, <2>13, <2>14, <2>15, ProcessingEffect
    <2>17. Keeps(a, r.am, {"state", "featBuf", "nFeat", "fcb"})
      <3>1. c.am.nAlloc = a.nAlloc
        BY <2>11 DEF Keeps, AmFields
      <3>2. QED
        BY <3>1, <2>16 DEF Keeps
    <2>18. QED
      BY <2>12, <2>13, <2>16, <2>17 DEF r
  <1>14. QED
    BY <1>12, <1>13

-----------------------------------------------------------------------------
(* Sequences. *)

(* A sequence, whatever its members are. *)
IsSeq(s) == Len(s) \in Nat /\ s = [i \in 1 .. Len(s) |-> s[i]]

(* The members of a sequence. *)
Members(s) == {s[i] : i \in 1 .. Len(s)}

(* Those of two, a set both are sequences over. *)
Both(s, t) == Members(s) \cup Members(t)

(* A sequence is one over its members. *)
LEMMA OfMembers ==
  ASSUME NEW s, IsSeq(s), NEW t, IsSeq(t)
  PROVE  s \in Seq(Both(s, t)) /\ t \in Seq(Both(s, t))
  <1>1. s \in [1 .. Len(s) -> Both(s, t)] /\ t \in [1 .. Len(t) -> Both(s, t)]
    <2>1. \A i \in 1 .. Len(s) : s[i] \in Both(s, t)
      BY DEF Both, Members
    <2>2. \A i \in 1 .. Len(t) : t[i] \in Both(s, t)
      BY DEF Both, Members
    <2>3. QED
      BY <2>1, <2>2 DEF IsSeq
  <1>2. Len(s) \in Nat /\ Len(t) \in Nat
    BY DEF IsSeq
  <1>3. QED
    BY <1>1, <1>2, SeqDef

(* What is in Seq is a sequence. *)
LEMMA SeqIs ==
  ASSUME NEW V, NEW s \in Seq(V)
  PROVE  IsSeq(s)
  BY LenProperties DEF IsSeq

(* Two sequences put together. *)
LEMMA ConcatIs ==
  ASSUME NEW s, IsSeq(s), NEW t, IsSeq(t)
  PROVE  IsSeq(s \o t) /\ Len(s \o t) = Len(s) + Len(t)
  <1>1. s \in Seq(Both(s, t)) /\ t \in Seq(Both(s, t))
    BY OfMembers
  <1>2. s \o t \in Seq(Both(s, t)) /\ Len(s \o t) = Len(s) + Len(t)
    BY <1>1, ConcatProperties
  <1>3. QED
    BY <1>2, SeqIs

(* A part of a sequence. *)
LEMMA SubSeqIs ==
  ASSUME NEW s, NEW m \in Int, NEW n \in Int
  PROVE  /\ IsSeq(SubSeq(s, m, n))
         /\ Len(SubSeq(s, m, n)) = IF m <= n THEN n - m + 1 ELSE 0
  <1> DEFINE V == {s[i] : i \in m .. n}
  <1>1. \A i \in m .. n : s[i] \in V
    OBVIOUS
  <1> HIDE DEF V
  <1>2. SubSeq(s, m, n) \in Seq(V) /\ Len(SubSeq(s, m, n)) = IF m <= n THEN n - m + 1 ELSE 0
    BY <1>1, SubSeqProperties
  <1>3. QED
    BY <1>2, SeqIs

(* A sequence with one more. *)
LEMMA AppendIs ==
  ASSUME NEW s, IsSeq(s), NEW x
  PROVE  IsSeq(Append(s, x)) /\ Len(Append(s, x)) = Len(s) + 1
  <1> DEFINE V == Both(s, s) \cup {x}
  <1>1. s \in Seq(Both(s, s))
    BY OfMembers
  <1>2. s \in Seq(V) /\ x \in V
    BY <1>1, SeqMonotonic
  <1> HIDE DEF V
  <1>3. Append(s, x) \in Seq(V) /\ Len(Append(s, x)) = Len(s) + 1
    BY <1>2, AppendProperties
  <1>4. QED
    BY <1>3, SeqIs

(* The empty sequence. *)
LEMMA EmptyIs == IsSeq(<<>>) /\ Len(<<>>) = 0
  BY EmptySeq, SeqIs
(* The front end. *)
FeFields ==
  {"overflow", "spch", "nframe", "global", "changed", "prespchNum", "postspchNum", "cepBuf", "cepRead"}

(* The front end has its fields. *)
FeOK(fe) ==
  /\ fe = [f \in FeFields |-> fe[f]]
  /\ IsSeq(fe.overflow) /\ IsSeq(fe.cepBuf) /\ fe.cepRead \in 0 .. Len(fe.cepBuf)

(* The fields of a call of the front end. *)
CallFields == {"fe", "spch", "used", "needed", "room", "out"}

(* What holds in the loop of fe_process_frames(): what was used, and the   *)
(* room there is.                                                          *)
CallOK(c, spch, total) ==
  /\ c = [f \in CallFields |-> c[f]] /\ c.spch = spch
  /\ c.used \in Int /\ c.needed \in Int /\ c.room \in Nat
  /\ IsSeq(c.out) /\ Len(c.out) + c.room = total
  /\ FeOK(c.fe)

(* fe_start_utt() *)
LEMMA StartFe == FeOK(FeStartUtt) /\ FeStartUtt.overflow = <<>>
  BY EmptyIs DEF FeOK, FeFields, FeStartUtt

(* The voice activity of a frame leaves the fields. *)
LEMMA AnalyseEffect ==
  ASSUME NEW fe, FeOK(fe), NEW spch, NEW v
  PROVE  FeOK(Analyse(fe, spch, v))
  <1> DEFINE read == [fe EXCEPT !.spch = spch, !.nframe = @ + 1]
  <1>1. FeOK(read)
    BY DEF FeOK, FeFields
  <1>2. Analyse(fe, spch, v) = IF v[read.nframe] THEN Voiced(read) ELSE Unvoiced(read)
    BY DEF Analyse
  <1> HIDE DEF read
  <1>3. FeOK(Voiced(read))
    <2>1. PICK n \in Nat : n = Len(read.cepBuf)
      BY <1>1 DEF FeOK, IsSeq
    <2>2. IsSeq(Append(read.cepBuf, read.spch)) /\ Len(Append(read.cepBuf, read.spch)) = n + 1
      BY <1>1, <2>1, AppendIs DEF FeOK
    <2>3. read.cepRead \in 0 .. n + 1
      BY <1>1, <2>1 DEF FeOK
    <2>4. QED
      BY <1>1, <2>1, <2>2, <2>3 DEF FeOK, FeFields, Voiced
  <1>4. FeOK(Unvoiced(read))
    <2> DEFINE reset == [read EXCEPT !.prespchNum = 0, !.cepBuf = <<>>, !.cepRead = 0, !.changed = FALSE]
               ended == [reset EXCEPT !.postspchNum = 0, !.global = FALSE, !.changed = TRUE]
               more == [reset EXCEPT !.postspchNum = @ + 1]
    <2>1. FeOK(reset)
      <3>1. 0 \in 0 .. Len(<<>>)
        BY EmptyIs
      <3>2. QED
        <4>1. /\ reset = [f \in FeFields |-> reset[f]] /\ reset.overflow = read.overflow
              /\ reset.cepBuf = <<>> /\ reset.cepRead = 0
          BY <1>1 DEF FeOK, FeFields
        <4> HIDE DEF reset
        <4>2. QED
          BY <4>1, <3>1, <1>1, EmptyIs DEF FeOK
    <2>2. Unvoiced(read) = IF ~read.global THEN reset
                           ELSE IF read.postspchNum + 1 >= PostspchLen THEN ended ELSE more
      BY DEF Unvoiced
    <2> HIDE DEF reset
    <2>3. FeOK(ended) /\ FeOK(more)
      BY <2>1 DEF FeOK, FeFields
    <2> HIDE DEF ended, more
    <2>4. QED
      BY <2>1, <2>2, <2>3
  <1>5. QED
    BY <1>2, <1>3, <1>4

(* Prespeech that goes out takes no more than the room. *)
LEMMA DumpEffect ==
  ASSUME NEW c, NEW spch, NEW total \in Nat, CallOK(c, spch, total)
  PROVE  CallOK(DumpPrespch(c), spch, total)
  <1>a. PICK len \in Nat : len = Len(c.fe.cepBuf)
    BY DEF CallOK, FeOK, IsSeq
  <1>b. PICK cepRead \in 0 .. len : cepRead = c.fe.cepRead
    BY <1>a DEF CallOK, FeOK
  <1>c. PICK room \in Nat, done \in Nat : room = c.room /\ done = Len(c.out) /\ done + room = total
    BY DEF CallOK, IsSeq
  <1>d. cepRead \in Int /\ 0 <= cepRead /\ cepRead <= len
    BY <1>b
  <1>1. len = Len(c.fe.cepBuf) /\ cepRead = c.fe.cepRead /\ room = c.room /\ done = Len(c.out) /\ done + room = total
    BY <1>a, <1>b, <1>c
  <1>2. PICK n \in Nat : n = NoMoreThan(room, len - cepRead) /\ n <= room /\ cepRead + n <= len
    <2>1. PICK left \in Nat : left = len - cepRead
      BY <1>d
    <2>2. NoMoreThan(room, left) \in Nat /\ NoMoreThan(room, left) <= room /\ NoMoreThan(room, left) <= left
      BY DEF NoMoreThan
    <2>3. PICK n \in Nat : n = NoMoreThan(room, left) /\ n <= room /\ n <= left
      BY <2>2
    <2>4. cepRead + n <= len
      BY ONLY <2>1, <2>3, <1>d, n \in Nat, left \in Nat, len \in Nat
    <2>5. QED
      BY <2>1, <2>3, <2>4
  <1> DEFINE dumped == SubSeq(c.fe.cepBuf, c.fe.cepRead + 1, c.fe.cepRead + n)
             fe == [c.fe EXCEPT !.cepRead = @ + n]
             d == [c EXCEPT !.out = @ \o dumped, !.room = @ - n, !.fe = fe]
  <1>3. DumpPrespch(c) = d
    BY <1>1, <1>2 DEF DumpPrespch, CallOK, CallFields
  <1>4. IsSeq(dumped) /\ Len(dumped) = n
    <2>1. PICK x \in Int, y \in Int : x = c.fe.cepRead + 1 /\ y = c.fe.cepRead + n /\ y - x + 1 = n
      <3>1. PICK x \in Int, y \in Int : x = cepRead + 1 /\ y = cepRead + n /\ y - x + 1 = n
        BY <1>d
      <3>2. QED
        BY <3>1, <1>1
    <2>2. IsSeq(SubSeq(c.fe.cepBuf, x, y)) /\ Len(SubSeq(c.fe.cepBuf, x, y)) = IF x <= y THEN y - x + 1 ELSE 0
      BY SubSeqIs
    <2>3. QED
      BY <2>1, <2>2
  <1> HIDE DEF dumped
  <1>5. IsSeq(c.out \o dumped) /\ Len(c.out \o dumped) = done + n
    BY <1>1, <1>4, ConcatIs DEF CallOK
  <1>6. FeOK(fe)
    <2>1. cepRead + n \in 0 .. len /\ c.fe.cepRead + n = cepRead + n
      BY <1>1, <1>2, <1>d
    <2>2. FeOK(c.fe)
      BY DEF CallOK
    <2>3. /\ fe = [f \in FeFields |-> fe[f]] /\ fe.overflow = c.fe.overflow /\ fe.cepBuf = c.fe.cepBuf
          /\ fe.cepRead = c.fe.cepRead + n
      BY <2>2 DEF FeOK, FeFields
    <2> HIDE DEF fe
    <2>4. fe.cepRead \in 0 .. Len(fe.cepBuf)
      BY <2>1, <2>3, <1>1
    <2>5. QED
      BY <2>2, <2>3, <2>4 DEF FeOK
  <1> HIDE DEF fe
  <1>7. CallOK(d, spch, total)
    <2>1. /\ d = [f \in CallFields |-> d[f]] /\ d.spch = c.spch /\ d.used = c.used /\ d.needed = c.needed
          /\ d.out = c.out \o dumped /\ d.room = c.room - n /\ d.fe = fe
      BY DEF CallOK, CallFields
    <2> HIDE DEF d
    <2>2. room - n \in Nat /\ (done + n) + (room - n) = total
      BY ONLY SMTT(30), <1>1, <1>2, n \in Nat, room \in Nat, done \in Nat, total \in Nat
    <2>3. d.room \in Nat /\ Len(d.out) + d.room = total
      BY <2>1, <2>2, <1>1, <1>5
    <2>4. QED
      BY <2>1, <2>3, <1>5, <1>6 DEF CallOK
  <1>8. QED
    BY <1>3, <1>7

(* A frame that goes out, or starts the prespeech, takes no more than the  *)
(* room.                                                                   *)
LEMMA OutputEffect ==
  ASSUME NEW c, NEW spch, NEW total \in Nat, CallOK(c, spch, total), c.room # 0
  PROVE  CallOK(Output(c), spch, total)
  <1> DEFINE d == [c EXCEPT !.out = Append(@, c.fe.spch), !.room = @ - 1]
  <1>1. CallOK(d, spch, total)
    <2>1. PICK room \in Nat, done \in Nat : room = c.room /\ done = Len(c.out) /\ done + room = total /\ room # 0
      BY DEF CallOK, IsSeq
    <2>2. IsSeq(Append(c.out, c.fe.spch)) /\ Len(Append(c.out, c.fe.spch)) = done + 1
      BY <2>1, AppendIs DEF CallOK
    <2>3. /\ d = [f \in CallFields |-> d[f]] /\ d.spch = c.spch /\ d.used = c.used /\ d.needed = c.needed
          /\ d.out = Append(c.out, c.fe.spch) /\ d.room = c.room - 1 /\ d.fe = c.fe
      BY DEF CallOK, CallFields
    <2> HIDE DEF d
    <2>4. room - 1 \in Nat /\ (done + 1) + (room - 1) = total
      BY ONLY <2>1, room \in Nat, done \in Nat, total \in Nat
    <2>5. d.room \in Nat /\ Len(d.out) + d.room = total
      BY <2>1, <2>2, <2>3, <2>4
    <2>6. QED
      BY <2>2, <2>3, <2>5 DEF CallOK
  <1> DEFINE out == IF GoesOut(c.fe) THEN d ELSE c
  <1>2. CallOK(out, spch, total)
    BY <1>1
  <1>3. Output(c) = IF c.fe.changed /\ c.fe.global THEN DumpPrespch(out) ELSE out
    BY DEF Output
  <1> HIDE DEF out
  <1>4. QED
    BY <1>2, <1>3, DumpEffect

(* What is assumed of the frames. *)
LEMMA FrameSizes == FrameSize \in Int /\ FrameShift \in Int
  BY FrameAssumption

(* The first frame of a call. *)
LEMMA FirstFrameEffect ==
  ASSUME NEW c, NEW spch, NEW total \in Nat, CallOK(c, spch, total), c.room # 0, NEW v
  PROVE  CallOK(FirstFrame(c, v), spch, total)
  <1> DEFINE offset == FrameSize - Len(c.fe.overflow)
             fe == Analyse(c.fe, c.fe.overflow \o FirstOf(c.spch, offset), v)
             d == [c EXCEPT !.fe = fe, !.used = offset, !.needed = Len(c.fe.overflow) - FrameShift]
  <1>1. PICK len \in Nat : len = Len(c.fe.overflow)
    BY DEF CallOK, FeOK, IsSeq
  <1>2. offset \in Int /\ Len(c.fe.overflow) - FrameShift \in Int
    BY <1>1, FrameSizes
  <1>3. FeOK(fe)
    BY AnalyseEffect DEF CallOK
  <1>4. FirstFrame(c, v) = Output(d)
    BY DEF FirstFrame, CallOK, CallFields
  <1> HIDE DEF fe, offset
  <1>5. CallOK(d, spch, total) /\ d.room # 0
    <2>1. /\ d = [f \in CallFields |-> d[f]] /\ d.spch = c.spch /\ d.used = offset
          /\ d.needed = Len(c.fe.overflow) - FrameShift
          /\ d.out = c.out /\ d.room = c.room /\ d.fe = fe
      BY DEF CallOK, CallFields
    <2> HIDE DEF d
    <2>2. QED
      BY <2>1, <1>2, <1>3 DEF CallOK
  <1> HIDE DEF d
  <1>6. QED
    BY <1>4, <1>5, OutputEffect

(* A round of the loop. *)
LEMMA FrameRoundEffect ==
  ASSUME NEW c, NEW spch, NEW total \in Nat, CallOK(c, spch, total), NEW v
  PROVE  CallOK(FrameRound(c, v), spch, total)
  <1>1. CASE ~MoreFrames(c)
    BY <1>1 DEF FrameRound
  <1>2. CASE MoreFrames(c)
    <2> DEFINE new == SubSeq(c.spch, c.used + 1, c.used + FrameShift)
               fe == Analyse(c.fe, LastOf(c.fe.spch, FrameSize - FrameShift) \o new, v)
               needed == IF c.needed > 0 THEN c.needed - FrameShift ELSE c.needed
               d == [c EXCEPT !.fe = fe, !.used = @ + FrameShift, !.needed = needed]
    <2>1. c.used + FrameShift \in Int /\ needed \in Int
      BY FrameSizes DEF CallOK
    <2>2. FeOK(fe)
      BY AnalyseEffect DEF CallOK
    <2>3. NextFrame(c, v) = Output(d)
      BY DEF NextFrame, CallOK, CallFields
    <2> HIDE DEF fe, needed
    <2>4. CallOK(d, spch, total) /\ d.room # 0
      <3>1. /\ d = [f \in CallFields |-> d[f]] /\ d.spch = c.spch /\ d.used = c.used + FrameShift
            /\ d.needed = needed /\ d.out = c.out /\ d.room = c.room /\ d.fe = fe
        BY DEF CallOK, CallFields
      <3> HIDE DEF d
      <3>2. c.room # 0
        BY <1>2 DEF MoreFrames, CallOK
      <3>3. QED
        BY <3>1, <3>2, <2>1, <2>2 DEF CallOK
    <2> HIDE DEF d
    <2>5. QED
      BY <1>2, <2>3, <2>4, OutputEffect DEF FrameRound
  <1>3. QED
    BY <1>1, <1>2

(* What is left over is kept for the next call. *)
LEMMA SaveOverflowEffect ==
  ASSUME NEW c, NEW spch, NEW total \in Nat, CallOK(c, spch, total), IsSeq(spch)
  PROVE  CallOK(SaveOverflow(c), spch, total)
  <1>1. PICK len \in Nat, used \in Int, needed \in Int :
          len = Len(c.spch) /\ used = c.used /\ needed = c.needed
    BY DEF CallOK, IsSeq
  <1>2. PICK over \in Nat : over = Len(c.fe.overflow)
    BY DEF CallOK, FeOK, IsSeq
  <1>3. PICK upto \in Int, fill \in Int :
          upto = used + NoMoreThan(len - used, FrameShift) /\ fill = NoMoreThan(len, FrameSize - needed)
    BY FrameSizes DEF NoMoreThan
  <1> DEFINE kept == SubSeq(c.spch, used - (FrameSize - FrameShift) + 1, upto)
             left == LastOf(c.fe.overflow, needed) \o FirstOf(c.spch, fill)
             a == [c EXCEPT !.used = upto, !.fe = [c.fe EXCEPT !.overflow = kept]]
             b == [c EXCEPT !.used = IF fill > used THEN fill ELSE used,
                            !.fe = [c.fe EXCEPT !.overflow = left]]
  <1>4. SaveOverflow(c) = IF c.needed <= 0 THEN a ELSE b
    <2>1. c = [f \in CallFields |-> c[f]]
      BY DEF CallOK
    <2>2. QED
      BY <2>1, <1>1, <1>3 DEF SaveOverflow, CallFields
  <1>5. IsSeq(kept)
    <2>1. used - (FrameSize - FrameShift) + 1 \in Int
      BY FrameSizes
    <2>2. QED
      BY <2>1, SubSeqIs
  <1>6. IsSeq(left)
    <2>1. IsSeq(LastOf(c.fe.overflow, needed))
      <3>1. over - needed + 1 \in Int
        OBVIOUS
      <3>2. IsSeq(SubSeq(c.fe.overflow, over - needed + 1, over))
        BY <3>1, SubSeqIs
      <3>3. QED
        BY <3>2, <1>2 DEF LastOf
    <2>2. IsSeq(FirstOf(c.spch, fill))
      BY SubSeqIs DEF FirstOf
    <2>3. QED
      BY <2>1, <2>2, ConcatIs
  <1> HIDE DEF kept, left
  <1>7. ASSUME NEW u \in Int, NEW over2, IsSeq(over2)
        PROVE  CallOK([c EXCEPT !.used = u, !.fe = [c.fe EXCEPT !.overflow = over2]], spch, total)
    <2> DEFINE fe == [c.fe EXCEPT !.overflow = over2]
               d == [c EXCEPT !.used = u, !.fe = fe]
    <2>1. FeOK(fe)
      <3>1. FeOK(c.fe)
        BY DEF CallOK
      <3>2. /\ fe = [f \in FeFields |-> fe[f]] /\ fe.overflow = over2 /\ fe.cepBuf = c.fe.cepBuf
            /\ fe.cepRead = c.fe.cepRead
        BY <3>1 DEF FeOK, FeFields
      <3> HIDE DEF fe
      <3>3. QED
        BY <3>1, <3>2, <1>7 DEF FeOK
    <2> HIDE DEF fe
    <2>2. /\ d = [f \in CallFields |-> d[f]] /\ d.spch = c.spch /\ d.used = u
          /\ d.needed = c.needed /\ d.out = c.out /\ d.room = c.room /\ d.fe = fe
      BY DEF CallOK, CallFields
    <2> HIDE DEF d
    <2>3. CallOK(d, spch, total)
      BY <2>1, <2>2 DEF CallOK
    <2>4. QED
      BY <2>3 DEF d, fe
  <1>8. CallOK(a, spch, total) /\ CallOK(b, spch, total)
    <2>1. (IF fill > used THEN fill ELSE used) \in Int
      OBVIOUS
    <2>2. QED
      BY <2>1, <1>5, <1>6, <1>7
  <1> HIDE DEF a, b
  <1>9. QED
    BY <1>4, <1>8

(* All of the frames of a call. *)
LEMMA FramedEffect ==
  ASSUME NEW c, NEW spch, NEW total \in Nat, CallOK(c, spch, total), IsSeq(spch), c.room # 0, NEW v
  PROVE  CallOK(Framed(c, v), spch, total)
  <1>1. PICK n \in Nat : n = Len(c.spch)
    BY DEF CallOK, IsSeq
  <1> DEFINE first == FirstFrame(c, v)
             d == FrameRounds(c, v)
             step(h) == [i \in 0 .. n |-> IF i = 0 THEN first ELSE FrameRound(h[i - 1], v)]
  <1>2. d = CHOOSE h : h = step(h)
    BY <1>1 DEF FrameRounds
  <1>3. \A h : h = step(h) <=> Runs(h, "frames", first, v, n)
    BY DEF Runs, Round
  <1> HIDE DEF step, first
  <1>4. PICK h : h = step(h)
    BY <1>3, LoopEnds
  <1>5. d = step(d)
    BY <1>2, <1>4
  <1> HIDE DEF d
  <1>6. Runs(d, "frames", first, v, n)
    BY <1>3, <1>5
  <1>7. d[0] = first /\ \A i \in 1 .. n : d[i] = Round("frames", d[i - 1], v, i)
    BY <1>6, LoopGoes
  <1>8. \A i \in 1 .. n : d[i] = FrameRound(d[i - 1], v)
    BY <1>7 DEF Round
  <1> DEFINE S == {k \in 0 .. n : CallOK(d[k], spch, total)}
  <1>9. 0 \in S
    BY <1>7, FirstFrameEffect DEF first
  <1>10. ASSUME NEW k \in 1 .. n, k - 1 \in S
         PROVE  k \in S
    BY <1>8, <1>10, FrameRoundEffect
  <1>11. n \in S
    <2> HIDE DEF S
    <2>1. QED BY <1>9, <1>10, UpTo
  <1>12. CallOK(d[n], spch, total)
    BY <1>11
  <1>13. Framed(c, v) = SaveOverflow(d[n])
    BY <1>1 DEF Framed, d
  <1>14. QED
    BY <1>12, <1>13, SaveOverflowEffect

(* fe_process_frames() puts out no more cepstra than there is room for. *)
LEMMA ProcessFramesEffect ==
  ASSUME NEW fe, FeOK(fe), NEW spch, IsSeq(spch), NEW room \in Nat, NEW v
  PROVE  LET c == ProcessFrames(fe, spch, room, v)
         IN  FeOK(c.fe) /\ c.used \in Int /\ IsSeq(c.out) /\ Len(c.out) <= room
  <1> DEFINE call == [fe |-> fe, spch |-> spch, used |-> 0, needed |-> 0, room |-> room, out |-> <<>>]
             dumped == IF fe.global THEN DumpPrespch(call) ELSE call
             short == [call EXCEPT !.fe = [fe EXCEPT !.overflow = @ \o spch], !.used = Len(spch)]
             c == ProcessFrames(fe, spch, room, v)
  <1>1. CallOK(call, spch, room)
    BY EmptyIs DEF CallOK, CallFields
  <1>2. c = IF Len(spch) + Len(fe.overflow) < FrameSize THEN short
            ELSE IF room = 0 \/ dumped.room = 0 THEN dumped ELSE Framed(dumped, v)
    BY DEF ProcessFrames
  <1>3. CallOK(short, spch, room)
    <2> DEFINE over == fe.overflow \o spch
               f2 == [fe EXCEPT !.overflow = over]
    <2>1. IsSeq(over)
      BY ConcatIs DEF FeOK
    <2> HIDE DEF over
    <2>2. FeOK(f2)
      <3>2. /\ f2 = [f \in FeFields |-> f2[f]] /\ f2.overflow = over /\ f2.cepBuf = fe.cepBuf
            /\ f2.cepRead = fe.cepRead
        BY DEF FeOK, FeFields
      <3> HIDE DEF f2
      <3>3. QED
        BY <3>2, <2>1 DEF FeOK
    <2> HIDE DEF f2
    <2>3. short = [call EXCEPT !.fe = f2, !.used = Len(spch)]
      BY DEF f2, over
    <2>4. /\ short = [f \in CallFields |-> short[f]] /\ short.spch = spch /\ short.used = Len(spch)
          /\ short.needed = 0 /\ short.out = <<>> /\ short.room = room /\ short.fe = f2
      BY <2>3 DEF CallFields
    <2> HIDE DEF short
    <2>5. QED
      BY <2>2, <2>4, EmptyIs DEF CallOK, IsSeq
  <1> HIDE DEF call, short
  <1>4. CallOK(dumped, spch, room)
    BY <1>1, DumpEffect
  <1> HIDE DEF dumped, c
  <1>5. CallOK(c, spch, room)
    BY <1>2, <1>3, <1>4, FramedEffect
  <1>6. PICK left \in Nat, n \in Nat : left = c.room /\ n = Len(c.out) /\ n + left = room
    BY <1>5 DEF CallOK, IsSeq
  <1>7. n <= room
    BY <1>6
  <1>8. FeOK(c.fe) /\ c.used \in Int /\ IsSeq(c.out) /\ Len(c.out) <= room
    BY <1>5, <1>6, <1>7 DEF CallOK
  <1>9. QED
    BY <1>8 DEF c

(* The end of the utterance makes a cepstrum at most, and none of nothing. *)
LEMMA FeEndEffect ==
  ASSUME NEW fe, FeOK(fe), NEW v
  PROVE  LET e == FeEndUtt(fe, v)
         IN  /\ FeOK(e.fe) /\ e.fe.overflow = <<>> /\ IsSeq(e.out)
             /\ e.out = <<>> \/ Len(e.out) = 1
             /\ fe.overflow = <<>> => e.out = <<>>
  <1> DEFINE last == IF fe.overflow # <<>> THEN Analyse(fe, fe.overflow, v) ELSE fe
             f2 == [last EXCEPT !.overflow = <<>>]
             out == IF fe.overflow # <<>> /\ GoesOut(last) THEN <<last.spch>> ELSE <<>>
  <1>1. FeEndUtt(fe, v) = [fe |-> f2, out |-> out]
    BY DEF FeEndUtt
  <1>2. FeOK(last)
    BY AnalyseEffect
  <1>3. IsSeq(out) /\ (out = <<>> \/ Len(out) = 1) /\ (fe.overflow = <<>> => out = <<>>)
    <2>1. IsSeq(<<last.spch>>) /\ Len(<<last.spch>>) = 1
      BY DEF IsSeq
    <2> HIDE DEF last
    <2>2. QED
      BY <2>1, EmptyIs
  <1> HIDE DEF last, out
  <1>4. FeOK(f2) /\ f2.overflow = <<>>
    <2>1. /\ f2 = [f \in FeFields |-> f2[f]] /\ f2.overflow = <<>> /\ f2.cepBuf = last.cepBuf
          /\ f2.cepRead = last.cepRead
      BY <1>2 DEF FeOK, FeFields
    <2> HIDE DEF f2
    <2>2. QED
      BY <2>1, <1>2, EmptyIs DEF FeOK
  <1> HIDE DEF f2
  <1>5. QED
    BY <1>1, <1>3, <1>4

-----------------------------------------------------------------------------
(* The cepstra between the front end and the features. *)

(* The circular buffer of cepstra is within its bounds. *)
MfcOK(a) ==
  /\ a.mfcBuf = [p \in 0 .. MfcAlloc - 1 |-> a.mfcBuf[p]]
  /\ a.nMfc \in 0 .. MfcAlloc /\ a.mfcOut \in 0 .. MfcAlloc - 1
  /\ FeOK(a.fe)

(* The cepstra in the circular buffer. *)
MfcHolds(a, cs) ==
  /\ a.nMfc = Len(cs)
  /\ \A i \in 1 .. Len(cs) : a.mfcBuf[Rem(a.mfcOut + i - 1, MfcAlloc)] = cs[i]

(* Its size. *)
LEMMA MfcSize == MfcAlloc \in Nat \ {0} /\ MfcAlloc = 2 * Win + 1
  BY Sizes DEF MfcAlloc

(* The slots of cepstra that are in the buffer at once are different. *)
LEMMA SlotsApart ==
  ASSUME NEW out \in Int, NEW i \in 1 .. MfcAlloc, NEW j \in 1 .. MfcAlloc, i # j
  PROVE  Rem(out + i - 1, MfcAlloc) # Rem(out + j - 1, MfcAlloc)
  <1>1. PICK m \in Nat \ {0} : m = MfcAlloc
    BY MfcSize
  <1>2. PICK x \in Int, y \in Int : x = out + i - 1 /\ y = out + j - 1
    BY <1>1
  <1>3. i \in Int /\ j \in Int /\ 1 <= i /\ i <= m /\ 1 <= j /\ j <= m
    BY <1>1
  <1>4. (x < y /\ y < x + m) \/ (y < x /\ x < y + m)
    BY ONLY <1>2, <1>3, i # j, out \in Int, x \in Int, y \in Int, m \in Nat \ {0}
  <1>5. CASE x < y /\ y < x + m
    <2>1. Rem(x, m) # Rem(y, m)
      BY <1>5, RemApart
    <2>2. QED BY <2>1, <1>1, <1>2
  <1>6. CASE y < x /\ x < y + m
    <2>1. Rem(y, m) # Rem(x, m)
      BY <1>6, RemApart
    <2>2. QED BY <2>1, <1>1, <1>2
  <1>7. QED
    BY <1>4, <1>5, <1>6

(* Cepstra go behind those that are there. *)
LEMMA PutEffect ==
  ASSUME NEW a, IsAm(a), MfcOK(a), NEW cs, IsSeq(cs), MfcHolds(a, cs),
         NEW new, IsSeq(new), Len(cs) + Len(new) <= MfcAlloc
  PROVE  LET b == PutMfc(a, new)
         IN  /\ IsAm(b) /\ Keeps(a, b, {"mfcBuf", "nMfc"}) /\ MfcOK(b)
             /\ MfcHolds(b, cs \o new) /\ IsSeq(cs \o new)
  <1> DEFINE slot(i) == (a.mfcOut + a.nMfc + i - 1) % MfcAlloc
             buf == [p \in DOMAIN a.mfcBuf |->
                       IF \E i \in DOMAIN new : slot(i) = p
                       THEN new[CHOOSE i \in DOMAIN new : slot(i) = p] ELSE a.mfcBuf[p]]
             b == PutMfc(a, new)
  <1>1. PICK n \in Nat, k \in Nat : n = Len(cs) /\ k = Len(new)
    BY DEF IsSeq
  <1>2. PICK m \in Nat \ {0} : m = MfcAlloc
    BY MfcSize
  <1>3. PICK out \in 0 .. m - 1 : out = a.mfcOut
    BY <1>2 DEF MfcOK
  <1>4. out \in Int /\ n + k <= m /\ a.nMfc = n
    BY <1>1, <1>2, <1>3 DEF MfcHolds
  <1>5. DOMAIN new = 1 .. k /\ DOMAIN a.mfcBuf = 0 .. m - 1
    BY <1>1, <1>2 DEF IsSeq, MfcOK
  <1>6. b = [a EXCEPT !.mfcBuf = buf, !.nMfc = n + k]
    BY <1>1, <1>4 DEF PutMfc
  <1>7. \A i \in 1 .. k : slot(i) = Rem(out + (n + i) - 1, MfcAlloc) /\ n + i \in 1 .. MfcAlloc
    <2> SUFFICES ASSUME NEW i \in 1 .. k
                 PROVE  slot(i) = Rem(out + (n + i) - 1, MfcAlloc) /\ n + i \in 1 .. MfcAlloc
      OBVIOUS
    <2>1. PICK x \in Int : x = out + (n + i) - 1 /\ x = out + n + i - 1
      BY <1>4
    <2>2. slot(i) = Rem(x, MfcAlloc)
      BY <2>1, <1>3, <1>4 DEF Rem
    <2>3. n + i \in 1 .. m
      BY <1>4
    <2>4. QED
      BY <2>1, <2>2, <2>3, <1>2
  <1>8. ASSUME NEW j \in 1 .. n + k
        PROVE  buf[Rem(out + j - 1, MfcAlloc)] = (cs \o new)[j]
    <2>1. j \in Int /\ 1 <= j /\ j <= n + k /\ j \in 1 .. MfcAlloc
      BY <1>2, <1>4
    <2>2. PICK p \in 0 .. m - 1 : p = Rem(out + j - 1, MfcAlloc)
      <3>1. PICK x \in Int : x = out + j - 1
        BY <1>4, <2>1
      <3>2. Rem(x, m) \in 0 .. m - 1
        BY RemRange
      <3>3. QED
        BY <3>1, <3>2, <1>2
    <2>3. CASE j > n
      <3>1. PICK i \in 1 .. k : n + i = j
        <4>1. j - n \in 1 .. k /\ n + (j - n) = j
          BY <2>1, <2>3
        <4>2. QED BY <4>1
      <3>2. slot(i) = p
        BY <3>1, <1>7, <2>2
      <3>3. \A e \in 1 .. k : slot(e) = p => e = i
        <4> SUFFICES ASSUME NEW e \in 1 .. k, slot(e) = p, e # i
                     PROVE  FALSE
          OBVIOUS
        <4>1. n + e \in 1 .. MfcAlloc /\ n + e # j
          BY <3>1, <1>7
        <4>2. Rem(out + (n + e) - 1, MfcAlloc) # Rem(out + j - 1, MfcAlloc)
          BY <4>1, <2>1, <1>4, SlotsApart
        <4>3. slot(e) = Rem(out + (n + e) - 1, MfcAlloc)
          BY <1>7
        <4> HIDE DEF slot
        <4>4. QED
          BY <4>2, <4>3, <2>2
      <3> HIDE DEF slot
      <3>4. (CHOOSE e \in DOMAIN new : slot(e) = p) = i
        BY <3>2, <3>3, <1>5
      <3>5. \E e \in DOMAIN new : slot(e) = p
        BY <3>2, <1>5
      <3>6. buf[p] = new[i]
        BY <3>4, <3>5, <1>5
      <3>7. (cs \o new)[j] = new[i]
        <4>1. cs \in Seq(Both(cs, new)) /\ new \in Seq(Both(cs, new))
          BY OfMembers
        <4>2. (cs \o new)[n + i] = new[i]
          BY <4>1, <1>1
        <4>3. QED
          BY <4>2, <3>1
      <3>8. QED
        BY <3>6, <3>7, <2>2
    <2>4. CASE ~ (j > n)
      <3>1. j \in 1 .. n
        BY <2>1, <2>4
      <3>2. \A e \in 1 .. k : slot(e) # p
        <4> SUFFICES ASSUME NEW e \in 1 .. k
                     PROVE  slot(e) # p
          OBVIOUS
        <4>1. n + e \in 1 .. MfcAlloc /\ n + e # j
          <5>1. n + e > n
            OBVIOUS
          <5>2. n + e \in 1 .. MfcAlloc
            BY <1>7
          <5>3. QED
            BY <5>1, <5>2, <3>1
        <4>2. Rem(out + (n + e) - 1, MfcAlloc) # Rem(out + j - 1, MfcAlloc)
          BY <4>1, <2>1, <1>4, SlotsApart
        <4>3. slot(e) = Rem(out + (n + e) - 1, MfcAlloc)
          BY <1>7
        <4> HIDE DEF slot
        <4>4. QED
          BY <4>2, <4>3, <2>2
      <3> HIDE DEF slot
      <3>3. buf[p] = a.mfcBuf[p]
        BY <3>2, <1>5
      <3>4. a.mfcBuf[p] = cs[j]
        BY <3>1, <2>2, <1>1, <1>3 DEF MfcHolds
      <3>5. (cs \o new)[j] = cs[j]
        <4>1. cs \in Seq(Both(cs, new)) /\ new \in Seq(Both(cs, new))
          BY OfMembers
        <4>2. QED
          BY <4>1, <3>1, <1>1
      <3>6. QED
        BY <3>3, <3>4, <3>5, <2>2
    <2>5. QED
      BY <2>3, <2>4
  <1>9. buf = [p \in 0 .. MfcAlloc - 1 |-> buf[p]]
    BY <1>2, <1>5
  <1> HIDE DEF buf, slot, b
  <1>10. /\ IsAm(b) /\ Keeps(a, b, {"mfcBuf", "nMfc"})
         /\ b.mfcBuf = buf /\ b.nMfc = n + k /\ b.mfcOut = out /\ b.fe = a.fe
    BY <1>3, <1>6 DEF IsAm, Keeps, AmFields
  <1>11. IsSeq(cs \o new) /\ Len(cs \o new) = n + k
    BY <1>1, ConcatIs
  <1>12. MfcHolds(b, cs \o new)
    BY <1>8, <1>10, <1>11 DEF MfcHolds
  <1>13. n + k \in 0 .. MfcAlloc
    BY <1>2, <1>4
  <1>14. MfcOK(b)
    BY <1>2, <1>9, <1>10, <1>13 DEF MfcOK
  <1>15. QED
    BY <1>10, <1>11, <1>12, <1>14 DEF b

(* What the loop of acmod_process_raw() over the parts of the buffer keeps. *)
Filling(a, r) ==
  /\ r = [am |-> r.am, spch |-> r.spch, ceps |-> r.ceps, done |-> r.done]
  /\ IsAm(r.am) /\ Keeps(a, r.am, {"fe", "mfcBuf", "nMfc"}) /\ MfcOK(r.am)
  /\ IsSeq(r.ceps) /\ MfcHolds(r.am, r.ceps) /\ IsSeq(r.spch)

(* A part of a call fills no more than its room. *)
LEMMA FillPartEffect ==
  ASSUME NEW a, NEW r, Filling(a, r), NEW room \in Nat, r.am.nMfc + room <= MfcAlloc, NEW v
  PROVE  Filling(a, FillPart(r, room, v))
  <1> DEFINE c == ProcessFrames(r.am.fe, r.spch, room, v)
             b == [r.am EXCEPT !.fe = c.fe]
             g == PutMfc(b, c.out)
             left == LastOf(r.spch, Len(r.spch) - c.used)
             q == FillPart(r, room, v)
  <1>1. q = [am |-> g, spch |-> left, ceps |-> r.ceps \o c.out, done |-> c.out = <<>>]
    BY DEF FillPart
  <1>2. FeOK(c.fe) /\ c.used \in Int /\ IsSeq(c.out) /\ Len(c.out) <= room
    <2>1. FeOK(r.am.fe) /\ IsSeq(r.spch)
      BY DEF Filling, MfcOK
    <2>2. QED
      BY <2>1, ProcessFramesEffect
  <1> HIDE DEF c, q
  <1>3. IsSeq(left)
    <2>1. PICK len \in Nat, used \in Int : len = Len(r.spch) /\ used = c.used
      BY <1>2 DEF Filling, IsSeq
    <2>2. len - (len - used) + 1 \in Int
      OBVIOUS
    <2>3. IsSeq(SubSeq(r.spch, len - (len - used) + 1, len))
      BY <2>2, SubSeqIs
    <2>4. QED
      BY <2>1, <2>3 DEF LastOf
  <1>4. /\ IsAm(b) /\ Keeps(a, b, {"fe", "mfcBuf", "nMfc"}) /\ MfcOK(b) /\ MfcHolds(b, r.ceps)
    <2>1. /\ IsAm(b) /\ Keeps(r.am, b, {"fe"}) /\ b.fe = c.fe
          /\ b.mfcBuf = r.am.mfcBuf /\ b.nMfc = r.am.nMfc /\ b.mfcOut = r.am.mfcOut
      BY DEF Filling, IsAm, Keeps, AmFields
    <2> HIDE DEF b
    <2>2. Keeps(a, b, {"fe", "mfcBuf", "nMfc"})
      BY <2>1 DEF Keeps, Filling
    <2>3. QED
      BY <2>1, <2>2, <1>2 DEF Filling, MfcOK, MfcHolds
  <1> HIDE DEF b, left
  <1>5. Len(r.ceps) + Len(c.out) <= MfcAlloc
    <2>1. PICK n \in Nat, k \in Nat, m \in Nat \ {0} :
            n = Len(r.ceps) /\ k = Len(c.out) /\ m = MfcAlloc /\ r.am.nMfc = n
      BY <1>2, MfcSize DEF Filling, IsSeq, MfcHolds
    <2>2. n + room <= m /\ k <= room
      BY <2>1, <1>2
    <2>3. n + k <= m
      BY ONLY <2>2, n \in Nat, k \in Nat, m \in Nat \ {0}, room \in Nat
    <2>4. QED
      BY <2>1, <2>3
  <1>6. /\ IsAm(g) /\ Keeps(b, g, {"mfcBuf", "nMfc"}) /\ MfcOK(g)
        /\ MfcHolds(g, r.ceps \o c.out) /\ IsSeq(r.ceps \o c.out)
    <2>1. IsSeq(r.ceps)
      BY DEF Filling
    <2>2. QED
      BY <2>1, <1>2, <1>4, <1>5, PutEffect
  <1> HIDE DEF g
  <1>7. Keeps(a, g, {"fe", "mfcBuf", "nMfc"})
    BY <1>4, <1>6 DEF Keeps
  <1>8. Filling(a, q)
    BY <1>1, <1>3, <1>6, <1>7 DEF Filling
  <1>9. QED
    BY <1>8 DEF q

(* acmod_process_raw() fills the buffer of cepstra. *)
LEMMA FillMfcEffect ==
  ASSUME NEW a, IsAm(a), MfcOK(a), a.nMfc = 0, NEW spch, IsSeq(spch), NEW v
  PROVE  Filling(a, FillMfcBuf(a, spch, v))
  <1> DEFINE first == [am |-> a, spch |-> spch, ceps |-> <<>>, done |-> FALSE]
             n == MfcAlloc + 1
             d == FillRounds(a, spch, v)
             step(h) == [i \in 0 .. n |-> IF i = 0 THEN first ELSE FillRound(h[i - 1], v)]
  <1>0. n \in Nat
    BY MfcSize
  <1>1. Filling(a, first)
    <2>1. Keeps(a, a, {"fe", "mfcBuf", "nMfc"})
      BY DEF Keeps
    <2>2. MfcHolds(a, <<>>)
      <3>1. \A i \in 1 .. 0 : FALSE
        OBVIOUS
      <3>2. QED
        BY <3>1, EmptyIs DEF MfcHolds
    <2>3. QED
      BY <2>1, <2>2, EmptyIs DEF Filling
  <1>2. d = CHOOSE h : h = step(h)
    BY DEF FillRounds
  <1> HIDE DEF n, first, d
  <1>3. \A h : h = step(h) <=> Runs(h, "fill", first, v, n)
    BY DEF Runs, Round
  <1> HIDE DEF step
  <1>4. PICK h : h = step(h)
    BY <1>0, <1>3, LoopEnds
  <1>5. d = step(d)
    BY <1>2, <1>4
  <1>6. Runs(d, "fill", first, v, n)
    BY <1>3, <1>5
  <1>7. d[0] = first /\ \A i \in 1 .. n : d[i] = Round("fill", d[i - 1], v, i)
    BY <1>0, <1>6, LoopGoes
  <1>8. \A i \in 1 .. n : d[i] = FillRound(d[i - 1], v)
    BY <1>7 DEF Round
  <1> DEFINE S == {k \in 0 .. n : Filling(a, d[k])}
  <1>9. 0 \in S
    BY <1>0, <1>1, <1>7
  <1>10. ASSUME NEW r, Filling(a, r)
         PROVE  Filling(a, FillRound(r, v))
    <2>1. CASE ~Wraps(r)
      BY <1>10, <2>1 DEF FillRound
    <2>2. CASE Wraps(r)
      <3>1. PICK m \in Nat \ {0} : m = MfcAlloc
        BY MfcSize
      <3>2. PICK in \in 0 .. m - 1 : in = InMfcPtr(r.am)
        <4>1. PICK x \in Int : x = r.am.mfcOut + r.am.nMfc
          BY <1>10, <3>1 DEF Filling, MfcOK
        <4>2. Rem(x, m) \in 0 .. m - 1
          BY RemRange
        <4>3. InMfcPtr(r.am) = Rem(x, m)
          BY <4>1, <3>1 DEF InMfcPtr, Rem
        <4>4. QED
          BY <4>2, <4>3
      <3>3. PICK held \in Nat : held = r.am.nMfc
        BY <1>10, <3>1 DEF Filling, MfcOK
      <3>4. in > held
        BY <2>2, <3>2, <3>3 DEF Wraps
      <3>5. PICK room \in Nat : room = MfcAlloc - InMfcPtr(r.am) /\ room = m - in
        BY <3>1, <3>2
      <3>6. r.am.nMfc + room <= MfcAlloc
        <4>1. held + room <= m
          BY <3>4, <3>5
        <4>2. QED
          BY <4>1, <3>1, <3>3
      <3>7. Filling(a, FillPart(r, room, v))
        BY <1>10, <3>6, FillPartEffect
      <3>8. QED
        BY <3>5, <3>7, <2>2 DEF FillRound
    <2>3. QED
      BY <2>1, <2>2
  <1>11. ASSUME NEW k \in 1 .. n, k - 1 \in S
         PROVE  k \in S
    <2>1. Filling(a, d[k - 1])
      BY <1>11
    <2>2. Filling(a, d[k])
      BY <2>1, <1>8, <1>10
    <2>3. QED
      BY <2>2, <1>0
  <1>12. n \in S
    <2> HIDE DEF S
    <2>1. QED BY <1>0, <1>9, <1>11, UpTo
  <1>13. PICK r : r = d[n] /\ Filling(a, r)
    BY <1>12
  <1>14. FillMfcBuf(a, spch, v) = IF r.done THEN r ELSE FillPart(r, MfcAlloc - r.am.nMfc, v)
    BY <1>13 DEF FillMfcBuf, d, n
  <1>15. Filling(a, FillPart(r, MfcAlloc - r.am.nMfc, v))
    <2>1. PICK m \in Nat \ {0} : m = MfcAlloc
      BY MfcSize
    <2>2. PICK held \in 0 .. m : held = r.am.nMfc
      BY <1>13, <2>1 DEF Filling, MfcOK
    <2>3. PICK room \in Nat : room = m - held /\ held + room <= m
      BY <2>2
    <2>4. r.am.nMfc + room <= MfcAlloc
      BY <2>1, <2>2, <2>3
    <2>5. Filling(a, FillPart(r, room, v))
      BY <1>13, <2>4, FillPartEffect
    <2>6. QED
      BY <2>1, <2>2, <2>3, <2>5
  <1>16. QED
    BY <1>13, <1>14, <1>15

(* The next cepstra of the buffer, before its end. *)
LEMMA SliceIs ==
  ASSUME NEW a, MfcOK(a), NEW held, IsSeq(held), MfcHolds(a, held),
         NEW n \in Nat, n <= Len(held), a.mfcOut + n <= MfcAlloc
  PROVE  MfcSlice(a, n) = SubSeq(held, 1, n) /\ Len(SubSeq(held, 1, n)) = n
  <1>1. PICK m \in Nat \ {0} : m = MfcAlloc
    BY MfcSize
  <1>2. PICK out \in 0 .. m - 1 : out = a.mfcOut
    BY <1>1 DEF MfcOK
  <1>3. PICK len \in Nat : len = Len(held)
    BY DEF IsSeq
  <1>4. Len(SubSeq(held, 1, n)) = n /\ IsSeq(SubSeq(held, 1, n))
    <2>1. n \in Int
      OBVIOUS
    <2>2. /\ IsSeq(SubSeq(held, 1, n))
          /\ Len(SubSeq(held, 1, n)) = IF 1 <= n THEN n - 1 + 1 ELSE 0
      BY <2>1, SubSeqIs
    <2>3. QED
      BY <2>2
  <1>5. ASSUME NEW i \in 1 .. n
        PROVE  a.mfcBuf[a.mfcOut + i - 1] = SubSeq(held, 1, n)[i]
    <2>1. i \in 1 .. len
      BY <1>3
    <2>2. PICK p \in 0 .. m - 1 : p = out + i - 1
      <3>1. out + i - 1 \in 0 .. m - 1
        BY <1>1, <1>2
      <3>2. QED BY <3>1
    <2>3. Rem(p, m) = p
      BY RemSmall
    <2>4. a.mfcBuf[p] = held[i]
      BY <2>1, <2>2, <2>3, <1>1, <1>2, <1>3 DEF MfcHolds
    <2>5. SubSeq(held, 1, n)[i] = held[i]
      <3>1. \A j \in 1 .. n : held[j] \in Members(held)
        BY <1>3 DEF Members
      <3>2. SubSeq(held, 1, n)[i] = held[1 + i - 1]
        <4>1. \A j \in 1 .. n - 1 + 1 : SubSeq(held, 1, n)[j] = held[1 + j - 1]
          BY <3>1, SubSeqProperties
        <4>2. i \in 1 .. n - 1 + 1
          OBVIOUS
        <4>3. QED BY <4>1, <4>2
      <3>3. 1 + i - 1 = i
        OBVIOUS
      <3>4. QED
        BY <3>2, <3>3
    <2>6. QED
      BY <2>2, <2>4, <2>5, <1>2
  <1>6. MfcSlice(a, n) = [i \in 1 .. n |-> SubSeq(held, 1, n)[i]]
    BY <1>5 DEF MfcSlice
  <1>7. SubSeq(held, 1, n) = [i \in 1 .. n |-> SubSeq(held, 1, n)[i]]
    BY <1>4 DEF IsSeq
  <1>8. QED
    BY <1>4, <1>6, <1>7

(* Cepstra leave the buffer. *)
LEMMA DropEffect ==
  ASSUME NEW r, IsAm(r.am), MfcOK(r.am), NEW held, IsSeq(held), MfcHolds(r.am, held),
         r.used \in 0 .. Len(held)
  PROVE  LET b == DropUsed(r)
         IN  /\ IsAm(b) /\ Keeps(r.am, b, {"nMfc", "mfcOut"}) /\ MfcOK(b)
             /\ MfcHolds(b, SubSeq(held, r.used + 1, Len(held)))
             /\ b.nMfc = Len(held) - r.used /\ b.mfcOut = Rem(r.am.mfcOut + r.used, MfcAlloc)
  <1> DEFINE b == DropUsed(r)
             left == SubSeq(held, r.used + 1, Len(held))
  <1>1. PICK m \in Nat \ {0} : m = MfcAlloc
    BY MfcSize
  <1>2. PICK out \in 0 .. m - 1 : out = r.am.mfcOut
    BY <1>1 DEF MfcOK
  <1>3. PICK len \in 0 .. m : len = Len(held) /\ len = r.am.nMfc
    BY <1>1 DEF MfcOK, MfcHolds
  <1>4. PICK u \in 0 .. len : u = r.used
    BY <1>3
  <1>5. /\ out \in Int /\ 0 <= out /\ out < m /\ len \in Int /\ len <= m /\ u \in Int /\ 0 <= u /\ u <= len
    BY <1>2, <1>3, <1>4
  <1>6. PICK next \in 0 .. m - 1 : next = Rem(out + u, m)
    <2>1. PICK x \in Int : x = out + u
      BY <1>5
    <2>2. Rem(x, m) \in 0 .. m - 1
      BY RemRange
    <2>3. QED BY <2>1, <2>2
  <1>7. b = [r.am EXCEPT !.nMfc = len - u, !.mfcOut = next]
    BY <1>1, <1>2, <1>3, <1>4, <1>6 DEF DropUsed, Rem
  <1> HIDE DEF b
  <1>8. /\ IsAm(b) /\ Keeps(r.am, b, {"nMfc", "mfcOut"})
        /\ b.mfcBuf = r.am.mfcBuf /\ b.nMfc = len - u /\ b.mfcOut = next /\ b.fe = r.am.fe
    BY <1>7 DEF IsAm, Keeps, AmFields
  <1>9. MfcOK(b)
    <2>1. len - u \in 0 .. m
      BY <1>5
    <2>2. QED
      BY <2>1, <1>1, <1>8 DEF MfcOK
  <1>10. Len(left) = len - u
    <2>1. PICK q \in Int : q = u + 1
      BY <1>5
    <2>2. Len(SubSeq(held, q, len)) = IF q <= len THEN len - q + 1 ELSE 0
      BY <1>5, SubSeqIs
    <2>3. QED
      BY <2>1, <2>2, <1>3, <1>4, <1>5
  <1>11. ASSUME NEW i \in 1 .. len - u
         PROVE  b.mfcBuf[Rem(b.mfcOut + i - 1, MfcAlloc)] = left[i]
    <2>1. PICK j \in 1 .. len : j = u + i
      <3>1. u + i \in 1 .. len
        BY <1>5
      <3>2. QED BY <3>1
    <2>2. PICK k \in Int, x \in Int : k = i - 1 /\ x = out + u
      BY <1>5
    <2>3. Rem(next, m) = Rem(x, m)
      BY <1>6, <2>2, RemTwice
    <2>4. Rem(next + k, m) = Rem(x + k, m)
      <3>1. next \in Int
        BY <1>6
      <3>2. QED
        BY ONLY <2>3, <3>1, m \in Nat \ {0}, next \in Int, x \in Int, k \in Int, RemShift
    <2>5. next + k = next + i - 1 /\ x + k = out + j - 1
      BY <2>1, <2>2, <1>5, <1>6
    <2>6. Rem(next + i - 1, m) = Rem(out + j - 1, m)
      BY <2>4, <2>5
    <2>7. r.am.mfcBuf[Rem(out + j - 1, m)] = held[j]
      BY <2>1, <1>1, <1>2, <1>3 DEF MfcHolds
    <2>8. left[i] = held[j]
      <3>1. \A e \in 1 .. len : held[e] \in Members(held)
        BY <1>3 DEF Members
      <3>2. PICK q \in Int : q = u + 1 /\ left = SubSeq(held, q, len)
        <4>1. PICK q \in Int : q = u + 1
          BY <1>5
        <4>2. left = SubSeq(held, q, len)
          BY <4>1, <1>3, <1>4
        <4> HIDE DEF left
        <4>3. QED
          BY <4>1, <4>2
      <3>3. \A e \in q .. len : held[e] \in Members(held)
        BY <3>1, <3>2, <1>5
      <3>4. \A e \in 1 .. len - q + 1 : SubSeq(held, q, len)[e] = held[q + e - 1]
        BY <3>3, <1>5, SubSeqProperties
      <3>5. i \in 1 .. len - q + 1 /\ q + i - 1 = j
        BY <3>2, <2>1, <1>5
      <3> HIDE DEF left
      <3>6. QED
        BY <3>2, <3>4, <3>5
    <2>9. QED
      BY <2>6, <2>7, <2>8, <1>1, <1>8
  <1> HIDE DEF left
  <1>12. MfcHolds(b, left)
    BY <1>8, <1>10, <1>11 DEF MfcHolds
  <1>13. b.nMfc = Len(held) - r.used /\ b.mfcOut = Rem(r.am.mfcOut + r.used, MfcAlloc)
    BY <1>1, <1>2, <1>3, <1>4, <1>6, <1>8
  <1>14. QED
    BY <1>8, <1>9, <1>12, <1>13 DEF b, left

-----------------------------------------------------------------------------
(* acmod_process_mfcbuf(). *)

(* In the midst of an utterance. *)
Steady(a, cs, st) ==
  /\ Stream(a, cs, st) /\ Flows(a, cs, st) /\ a.state = "processing"
  /\ a.grow \in BOOLEAN /\ (a.grow => Made(a) < a.nAlloc) /\ MfcOK(a)

(* acmod_process_cep() leaves the buffer of cepstra alone. *)
LEMMA TakesMfc ==
  ASSUME NEW a, NEW b, Takes(a, b), MfcOK(a)
  PROVE  /\ MfcOK(b) /\ b.grow = a.grow /\ b.nAlloc >= a.nAlloc
         /\ a.grow => Made(b) < b.nAlloc /\ Still(a, b)
         /\ b.mfcOut = a.mfcOut /\ b.nMfc = a.nMfc
         /\ \A cs : MfcHolds(a, cs) => MfcHolds(b, cs)
  <1>1. /\ b.mfcBuf = a.mfcBuf /\ b.nMfc = a.nMfc /\ b.mfcOut = a.mfcOut /\ b.fe = a.fe
        /\ b.grow = a.grow
    BY DEF Takes, Keeps, AmFields
  <1>2. QED
    BY <1>1 DEF Takes, MfcOK, MfcHolds

(* A call in the midst of an utterance with no more cepstra than the buffer *)
(* has room for.                                                            *)
LEMMA ProcessOn ==
  ASSUME NEW V, NEW cs \in Seq(V), NEW s \in Seq(V), NEW a, NEW st, Steady(a, cs, st),
         Len(s) <= 3 * Win + 1, ~a.grow => a.nFeat + Len(s) <= a.nAlloc
  PROVE  LET r == ProcessCep(a, s)
         IN  /\ r.used = Len(s) /\ Takes(a, r.am) /\ Steady(r.am, cs \o s, st)
             /\ ~a.grow => r.am.nAlloc = a.nAlloc /\ r.am.nFeat <= a.nFeat + Len(s)
  <1> DEFINE r == ProcessCep(a, s)
  <1>1. /\ Stream(a, cs, st) /\ Flows(a, cs, st) /\ a.state = "processing" /\ a.grow \in BOOLEAN
        /\ MfcOK(a) /\ (a.grow => Made(a) < a.nAlloc)
    BY DEF Steady
  <1>2. /\ r.used = Len(s) /\ Takes(a, r.am) /\ r.am.state = "processing"
        /\ Stream(r.am, cs \o s, st) /\ Flows(r.am, cs \o s, st)
        /\ ~a.grow => r.am.nAlloc = a.nAlloc /\ r.am.nFeat <= a.nFeat + Len(s)
    <2>1. CASE a.grow = TRUE
      <3>1. PICK end \in BOOLEAN : ~end
        OBVIOUS
      <3>2. PICK n \in Nat : n = Yield(Len(cs), Len(s), end)
        <4>1. PICK x \in Nat, m \in Nat : x = Len(cs) /\ m = Len(s)
          OBVIOUS
        <4>2. PICK y \in 0 .. m : y = Yield(x, m, FALSE)
          BY YieldIs
        <4>3. y \in Nat
          BY ONLY y \in 0 .. m, m \in Nat
        <4>4. y = Yield(Len(cs), Len(s), end)
          BY <4>1, <4>2, <3>1
        <4>5. QED
          BY <4>3, <4>4
      <3>3. a.state = IF end THEN "ended" ELSE "processing"
        BY <1>1, <3>1
      <3>6. end => Len(s) \in 1 .. 2 * Win + 1
        BY <3>1
      <3>7. Stream(a, cs, st) /\ Flows(a, cs, st)
        BY <1>1
      <3>4. Made(a) < a.nAlloc
        BY <1>1, <2>1
      <3>9. Growing(a, cs, st, s, end, n)
        BY <3>2, <3>3, <3>4, <3>6, <3>7, <2>1 DEF Growing
      <3>5. Grew(a, r, cs \o s, st, Len(s), end, n)
        BY <3>9, ProcessGrows
      <3> HIDE DEF r
      <3>8. QED
        BY <3>1, <3>5, <2>1, <1>1 DEF Grew
    <2>2. CASE a.grow = FALSE
      <3>1. a.nFeat + Len(s) <= a.nAlloc
        BY <2>2
      <3>2. /\ r.used \in 0 .. Len(s) /\ (a.nFeat + Len(s) <= a.nAlloc => r.used = Len(s))
            /\ r.am.state = "processing" /\ Takes(a, r.am) /\ r.am.nAlloc = a.nAlloc
            /\ Stream(r.am, cs \o SubSeq(s, 1, r.used), st)
            /\ Flows(r.am, cs \o SubSeq(s, 1, r.used), st)
            /\ r.am.nFeat <= a.nFeat + r.used
        BY <1>1, <2>2, <3>1, ProcessRing
      <3> HIDE DEF r
      <3>3. r.used = Len(s) /\ SubSeq(s, 1, Len(s)) = s
        BY <3>1, <3>2, SubSeqFull
      <3>4. QED
        BY <3>2, <3>3
    <2>3. QED
      BY <1>1, <2>1, <2>2
  <1> HIDE DEF r
  <1>3. Steady(r.am, cs \o s, st)
    BY <1>1, <1>2, TakesMfc DEF Steady
  <1>4. QED
    BY <1>2, <1>3 DEF r

(* What acmod_process_mfcbuf() may change. *)
Moved == {"state", "featBuf", "nFeat", "fcb", "nAlloc", "nMfc", "mfcOut"}

(* Cepstra that leave their buffer change nothing of the features. *)
LEMMA SteadyDropped ==
  ASSUME NEW a, NEW b, IsAm(b), Keeps(a, b, {"nMfc", "mfcOut"}), MfcOK(b), NEW cs, NEW st, Steady(a, cs, st)
  PROVE  /\ Steady(b, cs, st) /\ Made(b) = Made(a)
         /\ b.nAlloc = a.nAlloc /\ b.nFeat = a.nFeat /\ b.grow = a.grow /\ b.featBuf = a.featBuf
  <1>1. /\ b.fcb = a.fcb /\ b.senscr = a.senscr /\ b.scores = a.scores /\ b.nFeat = a.nFeat
        /\ b.featBuf = a.featBuf /\ b.nAlloc = a.nAlloc /\ b.output = a.output /\ b.featOut = a.featOut
        /\ b.state = a.state /\ b.grow = a.grow
    BY DEF Keeps, AmFields
  <1>2. Made(b) = Made(a)
    BY <1>1 DEF Made
  <1>3. QED
    BY <1>1, <1>2 DEF Steady, Stream, QueueOK, Ring, Kept, Flows

(* A slice of the buffer of cepstra goes into the features. *)
LEMMA SliceGoesOn ==
  ASSUME NEW V, NEW cs \in Seq(V), NEW held \in Seq(V), NEW a, NEW st, Steady(a, cs, st),
         MfcHolds(a, held), NEW n \in Nat, n <= Len(held), a.mfcOut + n <= MfcAlloc,
         ~a.grow => a.nFeat + n <= a.nAlloc
  PROVE  LET b == ProcessSlice(a, n)
         IN  /\ Steady(b, cs \o SubSeq(held, 1, n), st) /\ MfcHolds(b, SubSeq(held, n + 1, Len(held)))
             /\ b.nMfc = Len(held) - n /\ b.mfcOut = Rem(a.mfcOut + n, MfcAlloc)
             /\ Keeps(a, b, Moved) /\ b.nAlloc >= a.nAlloc /\ b.grow = a.grow
             /\ ~a.grow => b.nAlloc = a.nAlloc /\ b.nFeat <= a.nFeat + n
             /\ a.grow => Still(a, b)
             /\ Made(a) <= Made(b)
  <1> DEFINE s == SubSeq(held, 1, n)
             r == ProcessCep(a, s)
             b == ProcessSlice(a, n)
  <1>1. IsSeq(held) /\ MfcOK(a) /\ IsAm(a)
    BY SeqIs DEF Steady, Stream
  <1>2. MfcSlice(a, n) = s /\ Len(s) = n
    BY <1>1, SliceIs
  <1>3. b = DropUsed(r)
    BY <1>2 DEF ProcessSlice
  <1>4. s \in Seq(V)
    <2>1. \A i \in 1 .. n : held[i] \in V
      OBVIOUS
    <2>2. QED
      BY <2>1, SubSeqProperties
  <1>5. Len(s) <= 3 * Win + 1
    <2>m. PICK m \in Nat \ {0} : m = MfcAlloc /\ m = 2 * Win + 1
      BY MfcSize
    <2>l. PICK len \in 0 .. m : len = a.nMfc
      BY <2>m, <1>1 DEF MfcOK
    <2>1. len = Len(held) /\ len \in Nat /\ len <= m
      BY <2>l DEF MfcHolds
    <2>2. n <= 3 * Win + 1
      <3>1. Win \in Int /\ Win >= 1
        BY Sizes
      <3>2. n <= len /\ len <= m /\ m = 2 * Win + 1 /\ len \in Nat
        BY <2>1, <2>m
      <3>3. QED
        BY ONLY <3>1, <3>2, n \in Nat, m \in Nat \ {0}
    <2>3. QED
      BY <1>2, <2>2
  <1> HIDE DEF s, b
  <1>6. /\ r.used = Len(s) /\ Takes(a, r.am) /\ Steady(r.am, cs \o s, st)
        /\ ~a.grow => r.am.nAlloc = a.nAlloc /\ r.am.nFeat <= a.nFeat + Len(s)
    BY <1>2, <1>4, <1>5, ProcessOn
  <1> HIDE DEF r
  <1>7. /\ MfcOK(r.am) /\ r.am.grow = a.grow /\ r.am.nAlloc >= a.nAlloc /\ MfcHolds(r.am, held)
        /\ IsAm(r.am) /\ r.used \in 0 .. Len(held) /\ r.used = n
    <2>1. r.used = n /\ n \in 0 .. Len(held)
      BY <1>2, <1>6
    <2>2. QED
      BY <2>1, <1>1, <1>6, TakesMfc DEF Steady, Stream
  <1>8. /\ IsAm(b) /\ Keeps(r.am, b, {"nMfc", "mfcOut"}) /\ MfcOK(b)
        /\ MfcHolds(b, SubSeq(held, n + 1, Len(held)))
        /\ b.nMfc = Len(held) - n /\ b.mfcOut = Rem(a.mfcOut + n, MfcAlloc)
    <2>1. LET d == DropUsed(r)
          IN  /\ IsAm(d) /\ Keeps(r.am, d, {"nMfc", "mfcOut"}) /\ MfcOK(d)
              /\ MfcHolds(d, SubSeq(held, r.used + 1, Len(held)))
              /\ d.nMfc = Len(held) - r.used /\ d.mfcOut = Rem(r.am.mfcOut + r.used, MfcAlloc)
      BY <1>1, <1>7, DropEffect
    <2>2. r.am.mfcOut = a.mfcOut
      BY <1>1, <1>6, TakesMfc
    <2>3. QED
      BY <2>1, <2>2, <1>3, <1>7
  <1>9. Steady(b, cs \o s, st) /\ b.nAlloc = r.am.nAlloc /\ b.nFeat = r.am.nFeat /\ b.grow = r.am.grow
        /\ b.featBuf = r.am.featBuf
    BY <1>6, <1>8, SteadyDropped
  <1>10. Keeps(a, b, Moved)
    <2>1. Keeps(a, r.am, {"state", "featBuf", "nFeat", "fcb", "nAlloc"})
      BY <1>6 DEF Takes
    <2>2. QED
      BY <2>1, <1>8 DEF Keeps, Moved
  <1>11. a.grow => Still(a, b)
    BY <1>1, <1>6, <1>9, TakesMfc DEF Still
  <1>12. Made(a) <= Made(b)
    <2>1. PICK x \in Nat, y \in Nat : x = Len(cs) /\ y = Len(s)
      BY <1>4
    <2>2. Len(cs \o s) = x + y
      BY <2>1, <1>4
    <2>3. Made(a) = Positive(x - Win) /\ Made(b) = Positive(x + y - Win)
      <3>1. Made(a) = Positive(Len(cs) - Win)
        BY DEF Steady, Flows
      <3>2. Made(b) = Positive(Len(cs \o s) - Win)
        BY <1>9 DEF Steady, Flows
      <3>3. PICK t \in Nat : t = Len(cs \o s) /\ t = x + y
        BY <2>2
      <3>4. Made(b) = Positive(t - Win) /\ Made(a) = Positive(x - Win)
        BY <3>1, <3>2, <3>3, <2>1
      <3>5. QED
        <4>1. Win \in Int
          BY Sizes
        <4>2. x + y - Win = t - Win
          <5>1. t = x + y
            BY <3>3
          <5>2. QED
            BY ONLY <5>1, <4>1, Win \in Int, t \in Int, x \in Int, y \in Int
        <4>3. QED
          BY <4>2, <3>4
    <2>4. Positive(x + y - Win) >= Positive(x - Win)
      <3>1. PICK given \in {"given", "empty"} : TRUE
        OBVIOUS
      <3>2. QED
        BY OnNumbers
    <2>5. PICK p \in Nat, q \in Nat : p = Positive(x - Win) /\ q = Positive(x + y - Win)
      <3>1. x - Win \in Int /\ x + y - Win \in Int
        BY Sizes
      <3>2. QED
        BY <3>1, PositiveIs
    <2>6. QED
      BY <2>3, <2>4, <2>5
  <1>13. QED
    BY <1>2, <1>6, <1>7, <1>8, <1>9, <1>10, <1>11, <1>12 DEF b, s

(* What acmod_process_mfcbuf() leaves of the buffer in the midst of an     *)
(* utterance: nothing, and the searches have room for all of it.           *)
Goes(a, b, cs, st, room) ==
  /\ Steady(b, cs, st) /\ Keeps(a, b, Moved) /\ b.nAlloc >= a.nAlloc /\ b.grow = a.grow
  /\ ~a.grow => b.nAlloc = a.nAlloc /\ b.nFeat <= a.nFeat + room
  /\ a.grow => Still(a, b)

(* The cepstra of two slices are those of the whole. *)
LEMMA ConcatParts ==
  ASSUME NEW V, NEW cs \in Seq(V), NEW held \in Seq(V), NEW n \in Nat, n <= Len(held)
  PROVE  /\ SubSeq(held, 1, n) \in Seq(V) /\ Len(SubSeq(held, 1, n)) = n
         /\ SubSeq(held, n + 1, Len(held)) \in Seq(V)
         /\ Len(SubSeq(held, n + 1, Len(held))) = Len(held) - n
         /\ Joins(cs, SubSeq(held, 1, n), SubSeq(held, n + 1, Len(held)), cs \o held)
  <1>1. PICK len \in Nat : len = Len(held)
    OBVIOUS
  <1>2. 0 <= n /\ n <= len /\ len <= Len(held) /\ n \in Int /\ len \in Int
    BY <1>1
  <1>3. /\ SubSeq(held, 1, n) \in Seq(V) /\ SubSeq(held, n + 1, len) \in Seq(V)
        /\ Len(SubSeq(held, 1, n)) = n /\ Len(SubSeq(held, n + 1, len)) = len - n
        /\ Joins(cs, SubSeq(held, 1, n), SubSeq(held, n + 1, len), cs \o SubSeq(held, 1, len))
    BY ONLY <1>2, n \in Int, len \in Int, len \in Nat, len <= Len(held), cs \in Seq(V), held \in Seq(V), InParts
  <1>4. SubSeq(held, 1, len) = held
    BY <1>1, SubSeqFull
  <1>5. QED
    BY <1>1, <1>3, <1>4

(* The queue of an utterance that goes on. *)
LEMMA SteadyNumbers ==
  ASSUME NEW a, NEW cs, NEW st, Steady(a, cs, st)
  PROVE  a.nFeat \in Nat /\ a.nAlloc \in Nat \ {0} /\ a.nFeat <= a.nAlloc /\ a.output \in Nat
  <1>1. QueueOK(a)
    BY DEF Steady, Stream
  <1>2. QED
    BY <1>1 DEF QueueOK

(* All of the buffer of cepstra goes into the features, ... *)
LEMMA MfcBufGoesOn ==
  ASSUME NEW V, NEW cs \in Seq(V), NEW held \in Seq(V), NEW a, NEW st, Steady(a, cs, st),
         MfcHolds(a, held), ~a.grow => a.nFeat + Len(held) <= a.nAlloc
  PROVE  LET b == ProcessMfcBuf(a)
         IN  Goes(a, b, cs \o held, st, Len(held)) /\ b.nMfc = 0
  <1>1. PICK m \in Nat \ {0} : m = MfcAlloc
    BY MfcSize
  <1>2. MfcOK(a) /\ a.state = "processing" /\ a.grow \in BOOLEAN /\ IsAm(a)
    BY DEF Steady, Stream
  <1>3. PICK out \in 0 .. m - 1 : out = a.mfcOut
    BY <1>1, <1>2 DEF MfcOK
  <1>4. PICK len \in 0 .. m : len = Len(held) /\ len = a.nMfc
    BY <1>1, <1>2 DEF MfcOK, MfcHolds
  <1>5. out \in Int /\ 0 <= out /\ out < m /\ len \in Nat /\ len <= m
    BY <1>3, <1>4
  <1>6. CASE ~ (out + len > m)
    <2> DEFINE b == ProcessSlice(a, len)
    <2>1. ProcessMfcBuf(a) = b
      BY <1>1, <1>3, <1>4, <1>6 DEF ProcessMfcBuf, ProcessRest
    <2>2. a.mfcOut + len <= MfcAlloc
      BY <1>1, <1>3, <1>5, <1>6
    <2>3. /\ Steady(b, cs \o SubSeq(held, 1, len), st) /\ b.nMfc = Len(held) - len
          /\ Keeps(a, b, Moved) /\ b.nAlloc >= a.nAlloc /\ b.grow = a.grow
          /\ ~a.grow => b.nAlloc = a.nAlloc /\ b.nFeat <= a.nFeat + len
          /\ a.grow => Still(a, b)
      <3>1. len <= Len(held) /\ (~a.grow => a.nFeat + len <= a.nAlloc)
        BY <1>4
      <3>2. QED
        BY ONLY <2>2, <3>1, len \in Nat, cs \in Seq(V), held \in Seq(V), Steady(a, cs, st), MfcHolds(a, held), SliceGoesOn
    <2> HIDE DEF b
    <2>4. SubSeq(held, 1, len) = held
      BY <1>4, SubSeqFull
    <2>5. b.nMfc = 0
      BY <2>3, <1>4, <1>5
    <2>6. QED
      BY <2>1, <2>3, <2>4, <2>5, <1>4 DEF Goes
  <1>7. CASE out + len > m
    <2>1. PICK n \in Nat : n = m - out
      BY <1>5
    <2>2. n <= len /\ out + n = m
      BY <2>1, <1>5, <1>7
    <2> DEFINE first == SubSeq(held, 1, n)
               rest == SubSeq(held, n + 1, Len(held))
               b == ProcessSlice(a, n)
               c == ProcessSlice(b, len - n)
    <2>3. a.mfcOut + n <= MfcAlloc /\ (~a.grow => a.nFeat + n <= a.nAlloc)
      <3>1. ~a.grow => a.nFeat + len <= a.nAlloc
        BY <1>4
      <3>2. a.nFeat \in Int /\ a.nAlloc \in Int
        BY DEF Steady, Stream, QueueOK
      <3>3. QED
        BY SMTT(30), <3>1, <3>2, <2>2, <1>1, <1>3, <1>5
    <2>4. /\ Steady(b, cs \o first, st) /\ MfcHolds(b, rest)
          /\ b.nMfc = Len(held) - n /\ b.mfcOut = Rem(a.mfcOut + n, MfcAlloc)
          /\ Keeps(a, b, Moved) /\ b.nAlloc >= a.nAlloc /\ b.grow = a.grow
          /\ ~a.grow => b.nAlloc = a.nAlloc /\ b.nFeat <= a.nFeat + n
          /\ a.grow => Still(a, b)
          /\ Made(a) <= Made(b)
      <3>1. n <= Len(held)
        BY <2>2, <1>4
      <3>2. QED
        BY ONLY <2>3, <3>1, n \in Nat, cs \in Seq(V), held \in Seq(V), Steady(a, cs, st), MfcHolds(a, held), SliceGoesOn
    <2>5. /\ first \in Seq(V) /\ rest \in Seq(V) /\ Len(rest) = len - n
          /\ (cs \o first) \o rest = cs \o held
      <3>1. n <= Len(held)
        BY <2>2, <1>4
      <3>2. /\ first \in Seq(V) /\ rest \in Seq(V) /\ Len(rest) = Len(held) - n
            /\ Joins(cs, first, rest, cs \o held)
        BY ONLY <3>1, cs \in Seq(V), held \in Seq(V), n \in Nat, ConcatParts
      <3> HIDE DEF first, rest
      <3>3. QED
        BY <3>2, <1>4 DEF Joins
    <2>6. ProcessMfcBuf(a) = c
      <3>1. ProcessUpToWrap(a) = [b EXCEPT !.state = "processing"]
        BY <2>1, <1>1, <1>2, <1>3 DEF ProcessUpToWrap
      <3>2. b.state = "processing" /\ IsAm(b) /\ b.nMfc = len - n
        BY <2>4, <1>4 DEF Steady, Stream
      <3> HIDE DEF b
      <3>3. [b EXCEPT !.state = "processing"] = b
        BY <3>2 DEF IsAm
      <3>4. a.mfcOut + a.nMfc > MfcAlloc
        BY <1>1, <1>3, <1>4, <1>7
      <3>5. QED
        BY <3>1, <3>2, <3>3, <3>4 DEF ProcessMfcBuf, ProcessRest
    <2> HIDE DEF first, rest, b
    <2>7. b.mfcOut = 0
      <3>1. Rem(m, m) = 0
        <4>1. m = m * 1 + 0 /\ 1 \in Int /\ 0 \in 0 .. m - 1
          OBVIOUS
        <4>2. QED
          BY <4>1, RemUnique
      <3>2. a.mfcOut + n = m
        BY <2>2, <1>3
      <3>3. QED
        BY <3>1, <3>2, <2>4, <1>1
    <2>8. PICK k \in Nat : k = len - n /\ k <= m
      BY <2>2, <1>5
    <2>9. b.mfcOut + k <= MfcAlloc /\ (~b.grow => b.nFeat + k <= b.nAlloc) /\ k <= Len(rest)
      <3>1. ~a.grow => a.nFeat + len <= a.nAlloc
        BY <1>4
      <3>2. a.nFeat \in Int /\ a.nAlloc \in Int /\ b.nFeat \in Int /\ b.nAlloc \in Int
        BY <2>4, SteadyNumbers
      <3>3. ~a.grow => b.nFeat + k <= b.nAlloc
        BY SMTT(30), <3>1, <3>2, <2>4, <2>8, <2>2, <1>5
      <3>4. QED
        BY <3>3, <2>4, <2>5, <2>7, <2>8, <1>1
    <2>10. cs \o first \in Seq(V)
      BY <2>5
    <2>11. /\ Steady(c, (cs \o first) \o SubSeq(rest, 1, k), st) /\ c.nMfc = Len(rest) - k
           /\ Keeps(b, c, Moved) /\ c.nAlloc >= b.nAlloc /\ c.grow = b.grow
           /\ ~b.grow => c.nAlloc = b.nAlloc /\ c.nFeat <= b.nFeat + k
           /\ b.grow => Still(b, c)
      <3>1. c = ProcessSlice(b, k)
        BY <2>8
      <3>3. Steady(b, cs \o first, st) /\ MfcHolds(b, rest)
        BY <2>4
      <3> HIDE DEF c
      <3>2. QED
        <4>1. PICK so \in Seq(V), rs \in Seq(V) : so = cs \o first /\ rs = rest
          BY <2>5, <2>10
        <4>2. Steady(b, so, st) /\ MfcHolds(b, rs)
          BY <3>3, <4>1
        <4>3. k <= Len(rs) /\ b.mfcOut + k <= MfcAlloc /\ (~b.grow => b.nFeat + k <= b.nAlloc)
          BY <2>9, <4>1
        <4> DEFINE e == ProcessSlice(b, k)
        <4>4. /\ Steady(e, so \o SubSeq(rs, 1, k), st) /\ e.nMfc = Len(rs) - k
              /\ Keeps(b, e, Moved) /\ e.nAlloc >= b.nAlloc /\ e.grow = b.grow
              /\ ~b.grow => e.nAlloc = b.nAlloc /\ e.nFeat <= b.nFeat + k
              /\ b.grow => Still(b, e)
          BY <4>2, <4>3, SliceGoesOn
        <4> HIDE DEF e
        <4>5. e = c
          BY <3>1 DEF e
        <4>6. QED
          BY <4>1, <4>4, <4>5
    <2>12. SubSeq(rest, 1, k) = rest
      BY <2>5, <2>8, SubSeqFull
    <2> HIDE DEF c
    <2>13. Steady(c, cs \o held, st) /\ c.nMfc = 0
      <3>1. c.nMfc = 0
        BY ONLY <2>5, <2>8, <2>11, <1>5, k \in Nat
      <3>2. QED
        BY <3>1, <2>5, <2>11, <2>12
    <2>14. /\ Keeps(a, c, Moved) /\ c.nAlloc >= a.nAlloc /\ c.grow = a.grow
           /\ ~a.grow => c.nAlloc = a.nAlloc /\ c.nFeat <= a.nFeat + len
           /\ a.grow => Still(a, c)
      <3>1. /\ a.nFeat \in Int /\ a.nAlloc \in Int /\ b.nFeat \in Int /\ b.nAlloc \in Int
            /\ c.nFeat \in Int /\ c.nAlloc \in Int
        BY SMTT(30), <2>4, <2>11, SteadyNumbers
      <3>2. Keeps(a, c, Moved)
        BY <2>4, <2>11 DEF Keeps
      <3>3. c.nAlloc >= a.nAlloc /\ c.grow = a.grow
        BY <3>1, <2>4, <2>11
      <3>4. ~a.grow => c.nAlloc = a.nAlloc /\ c.nFeat <= a.nFeat + len
        BY SMTT(30), <3>1, <2>4, <2>11, <2>8, <1>5, <2>1
      <3>5. a.grow => Still(a, c)
        <4> SUFFICES ASSUME a.grow PROVE Still(a, c)
          OBVIOUS
        <4>1. Still(a, b) /\ Still(b, c) /\ Made(a) <= Made(b)
          BY <2>4, <2>11
        <4>2. PICK x \in Int, y \in Int : x = Made(a) /\ y = Made(b)
          BY <2>4, SteadyNumbers DEF Made
        <4>3. \A p \in 0 .. x - 1 : p \in 0 .. y - 1
          BY <4>1, <4>2
        <4>4. QED
          BY <4>1, <4>2, <4>3 DEF Still
      <3>6. QED
        BY <3>2, <3>3, <3>4, <3>5
    <2>15. QED
      BY <2>6, <2>13, <2>14, <1>4 DEF Goes
  <1>8. QED
    BY <1>6, <1>7

(* At the start of an utterance. *)
Fresh(a, old, st) ==
  /\ Stream(a, old, st) /\ MfcOK(a) /\ a.state = "started" /\ Made(a) = 0 /\ a.senscr = -1
  /\ a.nAlloc >= 2 * Win + 1 /\ a.grow \in BOOLEAN

(* It holds no more than one call may give. *)
LEMMA MfcLen ==
  ASSUME NEW a, MfcOK(a), NEW held, IsSeq(held), MfcHolds(a, held)
  PROVE  Len(held) \in Nat /\ Len(held) <= MfcAlloc /\ Len(held) <= 3 * Win + 1 /\ a.nMfc = Len(held)
  <1>1. PICK m \in Nat \ {0} : m = MfcAlloc /\ m = 2 * Win + 1
    BY MfcSize
  <1>2. PICK len \in 0 .. m : len = a.nMfc
    BY <1>1 DEF MfcOK
  <1>3. len = Len(held) /\ len \in Nat /\ len <= m
    BY <1>2 DEF MfcHolds
  <1>4. Win \in Int /\ Win >= 1
    BY Sizes
  <1>5. len <= 3 * Win + 1
    BY ONLY <1>1, <1>3, <1>4, len \in Nat, m \in Nat
  <1>6. QED
    BY <1>1, <1>2, <1>3, <1>5

(* ... at the beginning of an utterance too. *)
LEMMA MfcBufBegins ==
  ASSUME NEW V, NEW held \in Seq(V), NEW a, NEW old, NEW ost, Fresh(a, old, ost),
         MfcHolds(a, held), a.mfcOut = 0
  PROVE  LET b == ProcessMfcBuf(a)
         IN  Goes(a, b, held, Given(held), Len(held)) /\ b.nMfc = 0
  <1>1. PICK m \in Nat \ {0} : m = MfcAlloc
    BY MfcSize
  <1>2. /\ MfcOK(a) /\ IsAm(a) /\ Stream(a, old, ost) /\ a.state = "started" /\ Made(a) = 0
        /\ a.senscr = -1 /\ a.nAlloc >= 2 * Win + 1 /\ a.grow \in BOOLEAN /\ IsSeq(held) /\ QueueOK(a)
    BY SeqIs DEF Fresh, Stream
  <1>3. PICK len \in Nat : len = Len(held) /\ len <= m /\ len = a.nMfc /\ Len(held) <= 3 * Win + 1
    BY <1>1, <1>2, MfcLen
  <1> DEFINE s == MfcSlice(a, len)
             r == ProcessCep(a, s)
             b == DropUsed(r)
  <1>4. ProcessMfcBuf(a) = b
    BY <1>1, <1>3 DEF ProcessMfcBuf, ProcessRest, ProcessSlice
  <1>5. s = held
    <2>1. len <= Len(held) /\ a.mfcOut + len <= MfcAlloc
      BY <1>1, <1>3
    <2>2. s = SubSeq(held, 1, len)
      BY <2>1, <1>2, SliceIs
    <2> HIDE DEF s
    <2>3. QED
      BY <2>2, <1>3, SubSeqFull
  <1>6. r = ProcessCep(a, held)
    BY <1>5
  <1> HIDE DEF r
  <1>7. /\ r.used = Len(held) /\ r.am.state = "processing" /\ Takes(a, r.am)
        /\ Stream(r.am, held, Given(held)) /\ Flows(r.am, held, Given(held))
        /\ r.am.nFeat <= Len(held) /\ (~a.grow => r.am.nAlloc = a.nAlloc)
    <2>1. Len(held) <= 3 * Win + 1
      BY <1>3
    <2>2. QED
      BY <2>1, <1>2, <1>6, ProcessBegins
  <1>8. /\ MfcOK(r.am) /\ r.am.grow = a.grow /\ r.am.nAlloc >= a.nAlloc /\ MfcHolds(r.am, held)
        /\ (a.grow => Made(r.am) < r.am.nAlloc /\ Still(a, r.am))
        /\ IsAm(r.am) /\ r.used \in 0 .. Len(held)
    <2>1. r.used \in 0 .. Len(held)
      <3>1. r.used = len /\ len = Len(held) /\ len \in 0 .. len
        <4>1. r.used = Len(held)
          BY <1>7
        <4>2. len = Len(held)
          BY <1>3
        <4>3. len \in 0 .. len
          OBVIOUS
        <4>4. QED
          BY ONLY <4>1, <4>2, <4>3
      <3>2. QED
        BY ONLY <3>1
    <2>2. IsAm(r.am)
      BY <1>7 DEF Stream
    <2>3. QED
      BY <2>1, <2>2, <1>2, <1>7, TakesMfc
  <1>9. Steady(r.am, held, Given(held))
    BY <1>2, <1>7, <1>8 DEF Steady
  <1>10. IsAm(b) /\ Keeps(r.am, b, {"nMfc", "mfcOut"}) /\ MfcOK(b) /\ b.nMfc = Len(held) - r.used
    BY <1>2, <1>8, DropEffect
  <1> HIDE DEF b
  <1>11. b.nMfc = 0
    BY <1>3, <1>7, <1>10
  <1>12. /\ Steady(b, held, Given(held)) /\ b.nAlloc = r.am.nAlloc /\ b.nFeat = r.am.nFeat
         /\ b.grow = r.am.grow /\ b.featBuf = r.am.featBuf
    BY <1>9, <1>10, SteadyDropped
  <1>13. Keeps(a, b, Moved)
    <2>1. Keeps(a, r.am, {"state", "featBuf", "nFeat", "fcb", "nAlloc"})
      BY <1>7 DEF Takes
    <2>2. QED
      BY <2>1, <1>10 DEF Keeps, Moved
  <1>14. b.nFeat <= a.nFeat + Len(held)
    <2>1. a.nFeat = 0
      BY <1>2 DEF QueueOK, Made
    <2>2. QED
      BY <2>1, <1>3, <1>7, <1>12
  <1>15. a.grow => Still(a, b)
    BY <1>8, <1>12 DEF Still
  <1>16. QED
    BY <1>4, <1>7, <1>8, <1>11, <1>12, <1>13, <1>14, <1>15 DEF Goes

-----------------------------------------------------------------------------
(* acmod_process_raw() and acmod_process_cep() on an utterance. *)

(* What a call may change. *)
Away == Moved \cup {"fe", "mfcBuf"}

(* After a call the utterance goes on, with the features of what was       *)
(* given.                                                                  *)
After(a, b, cs, st, room) ==
  /\ Steady(b, cs, st) /\ Keeps(a, b, Away) /\ b.nAlloc >= a.nAlloc /\ b.grow = a.grow
  /\ ~a.grow => b.nAlloc = a.nAlloc /\ b.nFeat <= a.nFeat + room
  /\ a.grow => Still(a, b)

(* What audio changes before its cepstra are processed. *)
LEMMA SteadyFilled ==
  ASSUME NEW a, NEW b, IsAm(b), Keeps(a, b, {"fe", "mfcBuf", "nMfc"}), MfcOK(b), NEW cs, NEW st
  PROVE  /\ Steady(a, cs, st) => Steady(b, cs, st)
         /\ Fresh(a, cs, st) => Fresh(b, cs, st)
         /\ b.mfcOut = a.mfcOut /\ b.grow = a.grow /\ b.nFeat = a.nFeat /\ b.nAlloc = a.nAlloc
         /\ b.featBuf = a.featBuf /\ Made(b) = Made(a)
  <1>1. /\ b.fcb = a.fcb /\ b.senscr = a.senscr /\ b.scores = a.scores /\ b.nFeat = a.nFeat
        /\ b.featBuf = a.featBuf /\ b.nAlloc = a.nAlloc /\ b.output = a.output /\ b.featOut = a.featOut
        /\ b.state = a.state /\ b.grow = a.grow /\ b.mfcOut = a.mfcOut
    BY DEF Keeps, AmFields
  <1>2. Made(b) = Made(a)
    BY <1>1 DEF Made
  <1>3. ASSUME Stream(a, cs, st) PROVE Stream(b, cs, st)
    BY <1>1, <1>2, <1>3 DEF Stream, QueueOK, Ring, Kept
  <1>4. Flows(a, cs, st) => Flows(b, cs, st)
    BY <1>1, <1>2 DEF Flows
  <1>5. Steady(a, cs, st) => Steady(b, cs, st)
    BY <1>1, <1>2, <1>3, <1>4 DEF Steady
  <1>6. Fresh(a, cs, st) => Fresh(b, cs, st)
    BY <1>1, <1>2, <1>3 DEF Fresh
  <1>7. QED
    BY <1>1, <1>2, <1>5, <1>6

(* Cepstra from the front end go into the features. *)
LEMMA FilledGoes ==
  ASSUME NEW a, NEW b, IsAm(b), Keeps(a, b, {"fe", "mfcBuf", "nMfc"}), MfcOK(b),
         NEW c, NEW cs, NEW st, NEW room, Goes(b, c, cs, st, room)
  PROVE  After(a, c, cs, st, room)
  <1>1. /\ b.mfcOut = a.mfcOut /\ b.grow = a.grow /\ b.nFeat = a.nFeat /\ b.nAlloc = a.nAlloc
        /\ b.featBuf = a.featBuf /\ Made(b) = Made(a)
    BY SteadyFilled
  <1>2. Keeps(a, c, Away)
    BY DEF Goes, Keeps, Moved, Away
  <1>3. Still(b, c) => Still(a, c)
    BY <1>1 DEF Still
  <1>4. QED
    BY <1>1, <1>2, <1>3 DEF Goes, After

(* acmod_process_raw() *)
Raw(a, r) ==
  /\ r = [am |-> r.am, spch |-> r.spch, ceps |-> r.ceps, done |-> r.done]
  /\ IsSeq(r.spch) /\ IsSeq(r.ceps) /\ r.am.nMfc = 0

(* What it gives is what was put into the buffer of cepstra, and the front *)
(* end is as that left it.                                                 *)
Hands(q, r) == r.am.fe = q.am.fe /\ r.ceps = q.ceps /\ r.spch = q.spch

(* acmod_process_raw() at the beginning of an utterance, ... *)
LEMMA RawFirst ==
  ASSUME NEW a, NEW old, NEW ost, Fresh(a, old, ost), a.nMfc = 0, a.mfcOut = 0,
         NEW spch, IsSeq(spch), NEW v
  PROVE  LET r == ProcessRaw(a, spch, v)
         IN  Raw(a, r) /\ After(a, r.am, r.ceps, Given(r.ceps), Len(r.ceps)) /\ Len(r.ceps) <= MfcAlloc
             /\ Hands(FillMfcBuf(a, spch, v), r)
  <1> DEFINE q == FillMfcBuf(a, spch, v)
             b == ProcessMfcBuf(q.am)
             r == ProcessRaw(a, spch, v)
  <1>1. Filling(a, q)
    BY FillMfcEffect DEF Fresh, Stream
  <1>2. r = [q EXCEPT !.am = b]
    BY DEF ProcessRaw
  <1> HIDE DEF q, r
  <1>3. /\ IsAm(q.am) /\ Keeps(a, q.am, {"fe", "mfcBuf", "nMfc"}) /\ MfcOK(q.am)
        /\ IsSeq(q.ceps) /\ MfcHolds(q.am, q.ceps) /\ IsSeq(q.spch)
    BY <1>1 DEF Filling
  <1>4. Fresh(q.am, old, ost) /\ q.am.mfcOut = 0
    BY <1>3, SteadyFilled
  <1>5. q.ceps \in Seq(Both(q.ceps, q.ceps))
    BY <1>3, OfMembers
  <1>6. Goes(q.am, b, q.ceps, Given(q.ceps), Len(q.ceps)) /\ b.nMfc = 0
    BY <1>3, <1>4, <1>5, MfcBufBegins
  <1>a. b.fe = q.am.fe
    BY <1>6 DEF Goes, Keeps, AmFields, Moved
  <1> HIDE DEF b
  <1>7. r = [am |-> b, spch |-> q.spch, ceps |-> q.ceps, done |-> q.done]
    <2>1. q = [am |-> q.am, spch |-> q.spch, ceps |-> q.ceps, done |-> q.done]
      BY <1>1 DEF Filling
    <2>2. PICK u, w, x, y : u = q.am /\ w = q.spch /\ x = q.ceps /\ y = q.done
      OBVIOUS
    <2>3. q = [am |-> u, spch |-> w, ceps |-> x, done |-> y]
      BY <2>1, <2>2
    <2>4. r = [am |-> b, spch |-> w, ceps |-> x, done |-> y]
      BY ONLY <2>3, <1>2
    <2>5. QED
      BY <2>2, <2>4
  <1>8. r.am = b /\ r.ceps = q.ceps /\ r.spch = q.spch /\ r.done = q.done
    BY <1>7
  <1>9. After(a, b, q.ceps, Given(q.ceps), Len(q.ceps))
    BY <1>3, <1>6, FilledGoes
  <1>10. Len(q.ceps) <= MfcAlloc
    BY <1>3, MfcLen
  <1>11. Hands(q, r)
    BY <1>a, <1>8 DEF Hands
  <1>12. QED
    BY <1>3, <1>6, <1>7, <1>8, <1>9, <1>10, <1>11 DEF Raw, q, r

(* ... and in the middle of one. *)
LEMMA RawMore ==
  ASSUME NEW a, NEW cs, IsSeq(cs), NEW st, Steady(a, cs, st), a.nMfc = 0,
         ~a.grow => a.nFeat = 0 /\ MfcAlloc <= a.nAlloc,
         NEW spch, IsSeq(spch), NEW v
  PROVE  LET r == ProcessRaw(a, spch, v)
         IN  Raw(a, r) /\ After(a, r.am, cs \o r.ceps, st, Len(r.ceps)) /\ Len(r.ceps) <= MfcAlloc
             /\ Hands(FillMfcBuf(a, spch, v), r)
  <1> DEFINE q == FillMfcBuf(a, spch, v)
             b == ProcessMfcBuf(q.am)
             r == ProcessRaw(a, spch, v)
  <1>1. Filling(a, q)
    BY FillMfcEffect DEF Steady, Stream
  <1>2. r = [q EXCEPT !.am = b]
    BY DEF ProcessRaw
  <1> HIDE DEF q, r
  <1>3. /\ IsAm(q.am) /\ Keeps(a, q.am, {"fe", "mfcBuf", "nMfc"}) /\ MfcOK(q.am)
        /\ IsSeq(q.ceps) /\ MfcHolds(q.am, q.ceps) /\ IsSeq(q.spch)
    BY <1>1 DEF Filling
  <1>4. Steady(q.am, cs, st) /\ q.am.grow = a.grow /\ q.am.nFeat = a.nFeat /\ q.am.nAlloc = a.nAlloc
    BY <1>3, SteadyFilled
  <1> DEFINE V == Both(cs, q.ceps)
  <1>5. cs \in Seq(V) /\ q.ceps \in Seq(V)
    BY <1>3, OfMembers
  <1> HIDE DEF V
  <1>6. Len(q.ceps) \in Nat /\ Len(q.ceps) <= MfcAlloc
    BY <1>3, MfcLen
  <1>7. ~q.am.grow => q.am.nFeat + Len(q.ceps) <= q.am.nAlloc
    <2>1. PICK len \in Nat, m \in Nat : len = Len(q.ceps) /\ m = MfcAlloc /\ len <= m
      BY <1>6, MfcSize
    <2>2. PICK size \in Nat : size = a.nAlloc
      BY SteadyNumbers
    <2>3. ~a.grow => a.nFeat = 0 /\ m <= size
      BY <2>1, <2>2
    <2>4. ~a.grow => a.nFeat + len <= size
      BY <2>3, <2>1
    <2>5. QED
      BY <2>1, <2>2, <2>4, <1>4
  <1>8. Goes(q.am, b, cs \o q.ceps, st, Len(q.ceps)) /\ b.nMfc = 0
    BY <1>3, <1>4, <1>5, <1>7, MfcBufGoesOn
  <1>a. b.fe = q.am.fe
    BY <1>8 DEF Goes, Keeps, AmFields, Moved
  <1> HIDE DEF b
  <1>9. r = [am |-> b, spch |-> q.spch, ceps |-> q.ceps, done |-> q.done]
    <2>1. q = [am |-> q.am, spch |-> q.spch, ceps |-> q.ceps, done |-> q.done]
      BY <1>1 DEF Filling
    <2>2. PICK u, w, x, y : u = q.am /\ w = q.spch /\ x = q.ceps /\ y = q.done
      OBVIOUS
    <2>3. q = [am |-> u, spch |-> w, ceps |-> x, done |-> y]
      BY <2>1, <2>2
    <2>4. r = [am |-> b, spch |-> w, ceps |-> x, done |-> y]
      BY ONLY <2>3, <1>2
    <2>5. QED
      BY <2>2, <2>4
  <1>10. r.am = b /\ r.ceps = q.ceps /\ r.spch = q.spch /\ r.done = q.done
    BY <1>9
  <1>11. After(a, b, cs \o q.ceps, st, Len(q.ceps))
    BY <1>3, <1>8, FilledGoes
  <1>12. Hands(q, r)
    BY <1>a, <1>10 DEF Hands
  <1>13. QED
    BY <1>3, <1>6, <1>8, <1>9, <1>10, <1>11, <1>12 DEF Raw, q, r

-----------------------------------------------------------------------------
(* acmod_end_utt(). *)

(* acmod_end_utt() when the front end has nothing more. *)
LEMMA EndQuiet ==
  ASSUME NEW a, IsAm(a), MfcOK(a), a.nMfc = 0, NEW v, FeEndUtt(a.fe, v).out = <<>>
  PROVE  LET b == EndUtt(a, v)
         IN  /\ IsAm(b) /\ Keeps(a, b, {"state", "fe"}) /\ MfcOK(b) /\ b.nMfc = 0
             /\ b.fe = FeEndUtt(a.fe, v).fe
  <1> DEFINE e == FeEndUtt(a.fe, v)
             b == [a EXCEPT !.state = "ended", !.fe = e.fe]
  <1>1. a.nMfc # MfcAlloc
    BY MfcSize
  <1>2. EndUtt(a, v) = b
    BY <1>1 DEF EndUtt, IsAm
  <1>3. FeOK(e.fe)
    BY FeEndEffect DEF MfcOK
  <1> HIDE DEF e
  <1>4. IsAm(b) /\ Keeps(a, b, {"state", "fe"}) /\ b.fe = e.fe
    BY DEF IsAm, Keeps, AmFields
  <1> HIDE DEF b
  <1>5. b.mfcBuf = a.mfcBuf /\ b.nMfc = a.nMfc /\ b.mfcOut = a.mfcOut
    BY <1>4 DEF Keeps, AmFields
  <1>6. IsAm(b) /\ Keeps(a, b, {"state", "fe"}) /\ MfcOK(b) /\ b.nMfc = 0
    BY <1>3, <1>4, <1>5 DEF MfcOK
  <1>7. QED
    BY <1>2, <1>4, <1>6 DEF e

(* What the cepstra are read from does not matter to the features. *)
LEMMA StreamElsewhere ==
  ASSUME NEW a, NEW b, IsAm(b), Keeps(a, b, {"state", "fe", "mfcBuf", "nMfc", "mfcOut"}), NEW cs, NEW st
  PROVE  /\ Stream(a, cs, st) => Stream(b, cs, st)
         /\ Flows(a, cs, st) => Flows(b, cs, st)
         /\ b.grow = a.grow /\ b.nFeat = a.nFeat /\ b.nAlloc = a.nAlloc /\ b.featBuf = a.featBuf
         /\ b.output = a.output /\ b.featOut = a.featOut
         /\ Made(b) = Made(a) /\ b.senscr = a.senscr /\ b.scores = a.scores /\ b.fcb = a.fcb
  <1>1. /\ b.fcb = a.fcb /\ b.senscr = a.senscr /\ b.scores = a.scores /\ b.nFeat = a.nFeat
        /\ b.featBuf = a.featBuf /\ b.nAlloc = a.nAlloc /\ b.output = a.output /\ b.featOut = a.featOut
        /\ b.grow = a.grow
    BY DEF Keeps, AmFields
  <1>2. Made(b) = Made(a)
    BY <1>1 DEF Made
  <1>3. ASSUME Stream(a, cs, st) PROVE Stream(b, cs, st)
    BY <1>1, <1>2, <1>3 DEF Stream, QueueOK, Ring, Kept
  <1>4. QED
    BY <1>1, <1>2, <1>3 DEF Flows

(* The last frame, flushed with the end of the utterance or dropped. *)
Flushes(a, b, cs, out, st) ==
  /\ IsAm(b) /\ MfcOK(b) /\ Stream(b, cs \o out, st) /\ Keeps(a, b, Away) /\ b.grow = a.grow
  /\ b.nAlloc >= a.nAlloc /\ (~a.grow => b.nAlloc = a.nAlloc)
  /\ Made(b) = Len(cs \o out) \/ (a.grow = FALSE /\ Made(b) = Made(a))
  /\ a.grow => Made(b) < b.nAlloc /\ Still(a, b)

(* acmod_end_utt() has left the features to be flushed. *)
Ending(a, cs, st) ==
  /\ Stream(a, cs, st) /\ Flows(a, cs, st) /\ a.state = "ended" /\ a.grow \in BOOLEAN
  /\ (a.grow => Made(a) < a.nAlloc) /\ (~a.grow => a.nFeat = 0) /\ a.nAlloc >= 2 * Win + 1
  /\ MfcOK(a)

(* What the last frame may do: a buffer that goes around may have no room  *)
(* for what it flushes, ...                                                *)
Lasts(a, r, len, all, st) ==
  /\ r.used \in 0 .. len /\ Takes(a, r.am) /\ Stream(r.am, all, st)
  /\ ~a.grow => r.am.nAlloc = a.nAlloc
  /\ Made(r.am) = Len(all) \/ (a.grow = FALSE /\ Made(r.am) = Made(a))

(* acmod_process_cep() of the last frame flushes the features of all       *)
(* frames, or takes nothing.                                               *)
LEMMA LastFrameEnds ==
  ASSUME NEW V, NEW cs \in Seq(V), NEW s \in Seq(V), Len(s) = 1, NEW a, NEW st, Ending(a, cs, st)
  PROVE  Lasts(a, ProcessCep(a, s), Len(s), cs \o s, st)
  <1>0. /\ Stream(a, cs, st) /\ Flows(a, cs, st) /\ a.state = "ended" /\ a.grow \in BOOLEAN
        /\ (a.grow => Made(a) < a.nAlloc) /\ (~a.grow => a.nFeat = 0) /\ a.nAlloc >= 2 * Win + 1
        /\ MfcOK(a)
    BY DEF Ending
  <1> DEFINE r == ProcessCep(a, s)
  <1>1. PICK k \in Nat : k = Len(cs)
    OBVIOUS
  <1>2. Len(cs \o s) = k + 1
    <2>1. Len(cs \o s) = Len(cs) + Len(s)
      BY ConcatProperties
    <2>2. QED
      BY <2>1, <1>1
  <1>3. CASE a.grow = TRUE
    <2>1. PICK end \in BOOLEAN : end
      OBVIOUS
    <2>2. PICK p \in Nat : p = Positive(k - Win) /\ p <= k
      <3>1. PICK w \in Nat : w = Win
        BY Sizes
      <3>2. k - w \in Int
        OBVIOUS
      <3>3. Positive(k - w) \in Nat /\ Positive(k - w) <= k
        BY <3>2, PositiveIs
      <3>4. QED
        BY <3>1, <3>3
    <2>3. PICK n \in Nat : n = k + 1 - p
      BY <2>2
    <2>4. n = Yield(Len(cs), Len(s), end)
      BY <2>1, <2>2, <2>3, <1>1 DEF Yield
    <2>5. Growing(a, cs, st, s, end, n)
      <3>1. Len(s) <= 3 * Win + 1 /\ Len(s) \in 1 .. 2 * Win + 1
        <4>1. Win \in Int /\ Win >= 1
          BY Sizes
        <4>2. 1 <= 3 * Win + 1 /\ 1 \in 1 .. 2 * Win + 1
          BY ONLY <4>1
        <4>3. QED
          BY <4>2
      <3>2. Made(a) < a.nAlloc /\ a.state = IF end THEN "ended" ELSE "processing"
        BY <1>0, <1>3, <2>1
      <3>3. QED
        BY <3>1, <3>2, <2>4, <1>0, <1>3 DEF Growing
    <2>6. Grew(a, r, cs \o s, st, Len(s), end, n)
      BY <2>5, ProcessGrows
    <2> HIDE DEF r
    <2>7. /\ r.used = Len(s) /\ Takes(a, r.am) /\ Stream(r.am, cs \o s, st) /\ Made(r.am) = Made(a) + n
      BY <2>6 DEF Grew
    <2>8. Made(a) = p
      <3>1. Made(a) = Positive(Len(cs) - Win)
        BY <1>0 DEF Flows
      <3>2. QED
        BY <3>1, <2>2, <1>1
    <2>9. Made(r.am) = k + 1
      BY <2>7, <2>8, <2>3, <2>2
    <2>10. QED
      BY <2>7, <2>9, <1>2, <1>3, <1>1 DEF r, Lasts
  <1>4. CASE a.grow = FALSE
    <2>1. a.nFeat = 0
      BY <1>0, <1>4
    <2>2. \/ r.am = a /\ r.used = 0
          \/ /\ r.used = 1 /\ Stream(r.am, cs \o s, st) /\ Made(r.am) = Len(cs) + 1
             /\ Keeps(a, r.am, {"state", "featBuf", "nFeat", "fcb"})
             /\ r.am.state = "ended"
      BY <2>1, <1>0, <1>4, ProcessEnds
    <2> HIDE DEF r
    <2>3. PICK size \in Nat : size = a.nAlloc
      BY <1>0 DEF Stream, QueueOK
    <2>4. CASE r.am = a /\ r.used = 0
      <3>1. Takes(a, a)
        BY <2>3, <1>4 DEF Takes, Keeps
      <3>2. QueueOK(a) /\ Ring(a, cs, st) /\ Kept(a, cs, st) /\ IsAm(a) /\ FcbOK(a.fcb)
        BY <1>0 DEF Stream
      <3>3. Made(a) \in Int /\ Made(a) <= Made(a) /\ Made(a) <= Positive(Len(cs) - Win)
        <4>1. Made(a) \in Int
          BY <3>2 DEF QueueOK, Made
        <4>2. QED
          BY <4>1, <1>0 DEF Flows
      <3>4. Ring(a, cs \o s, st)
        BY <3>2, <3>3, StreamMore
      <3>5. Kept(a, cs \o s, st)
        BY <3>2, <3>3, StreamKept
      <3>6. Stream(a, cs \o s, st)
        BY <3>2, <3>4, <3>5 DEF Stream
      <3>7. QED
        BY <3>1, <3>6, <2>4, <1>4, <1>1 DEF r, Lasts
    <2>5. CASE ~(r.am = a /\ r.used = 0)
      <3>1. r.am.nAlloc = a.nAlloc
        BY <2>2, <2>5 DEF Keeps, AmFields
      <3>2. Takes(a, r.am)
        BY <3>1, <2>2, <2>3, <2>5, <1>4 DEF Takes, Keeps
      <3>3. r.used \in 0 .. Len(s) /\ Made(r.am) = Len(cs \o s)
        BY <2>2, <2>5, <1>1, <1>2
      <3>4. QED
        BY <3>1, <3>2, <3>3, <2>2, <2>5 DEF r, Lasts
    <2>6. QED
      BY <2>4, <2>5 DEF r
  <1>5. QED
    BY <1>0, <1>3, <1>4

(* acmod_end_utt() with a frame left in the front end. *)
LEMMA EndSpeech ==
  ASSUME NEW a, NEW cs, IsSeq(cs), NEW st, Steady(a, cs, st), a.nMfc = 0,
         ~a.grow => a.nFeat = 0, a.nAlloc >= 2 * Win + 1, NEW v, FeEndUtt(a.fe, v).out # <<>>
  PROVE  Flushes(a, EndUtt(a, v), cs, FeEndUtt(a.fe, v).out, st) /\ EndUtt(a, v).fe = FeEndUtt(a.fe, v).fe
  <1> DEFINE e == FeEndUtt(a.fe, v)
             out == e.out
             f == [a EXCEPT !.state = "ended", !.fe = e.fe]
             p == PutMfc(f, out)
             r == ProcessCep(p, out)
             b == DropUsed(r)
  <1>1. /\ IsAm(a) /\ MfcOK(a) /\ Stream(a, cs, st) /\ Flows(a, cs, st) /\ a.grow \in BOOLEAN
        /\ a.grow => Made(a) < a.nAlloc
    BY DEF Steady, Stream
  <1>2. FeOK(e.fe) /\ IsSeq(out) /\ Len(out) = 1
    BY <1>1, FeEndEffect DEF MfcOK
  <1>3. a.nMfc # MfcAlloc /\ MfcAlloc \in Nat /\ MfcAlloc >= 1
    BY MfcSize
  <1>4. EndUtt(a, v) = ProcessMfcBuf(p)
    <2>1. [[a EXCEPT !.state = "ended"] EXCEPT !.fe = e.fe] = f
      BY <1>1 DEF IsAm
    <2>2. out # <<>>
      OBVIOUS
    <2> HIDE DEF f
    <2>3. QED
      BY <2>1, <2>2, <1>3 DEF EndUtt
  <1> HIDE DEF e, out
  <1>5. IsAm(f) /\ Keeps(a, f, {"state", "fe"}) /\ f.fe = e.fe /\ f.state = "ended"
    BY <1>1 DEF IsAm, Keeps, AmFields
  <1> HIDE DEF f
  <1>6. MfcOK(f) /\ MfcHolds(f, <<>>)
    <2>1. f.mfcBuf = a.mfcBuf /\ f.nMfc = a.nMfc /\ f.mfcOut = a.mfcOut
      BY <1>5 DEF Keeps, AmFields
    <2>2. MfcOK(f)
      BY <2>1, <1>1, <1>2, <1>5 DEF MfcOK
    <2>3. Len(<<>>) = 0 /\ \A i \in 1 .. 0 : FALSE
      BY EmptyIs
    <2>4. QED
      BY <2>1, <2>2, <2>3 DEF MfcHolds
  <1>7. /\ IsAm(p) /\ Keeps(f, p, {"mfcBuf", "nMfc"}) /\ MfcOK(p) /\ MfcHolds(p, out)
    <2>1. Len(<<>>) + Len(out) <= MfcAlloc
      BY <1>2, <1>3, EmptyIs
    <2>2. MfcHolds(p, <<>> \o out)
      BY <2>1, <1>2, <1>5, <1>6, EmptyIs, PutEffect
    <2>3. <<>> \o out = out
      <3>1. out \in Seq(Both(out, out))
        BY <1>2, OfMembers
      <3>2. QED
        BY <3>1, ConcatEmptySeq
    <2>4. QED
      BY <2>1, <2>2, <2>3, <1>2, <1>5, <1>6, EmptyIs, PutEffect
  <1> HIDE DEF p
  <1>8. p.nMfc = 1 /\ p.mfcOut + 1 <= MfcAlloc
    <2>1. p.nMfc = 1
      BY <1>2, <1>7 DEF MfcHolds
    <2>2. PICK m \in Nat \ {0} : m = MfcAlloc
      BY MfcSize
    <2>3. PICK x \in 0 .. m - 1 : x = p.mfcOut
      BY <2>2, <1>7 DEF MfcOK
    <2>4. QED
      BY <2>1, <2>2, <2>3
  <1>9. ProcessMfcBuf(p) = b
    <2>1. MfcSlice(p, 1) = SubSeq(out, 1, 1)
      <3>1. 1 \in Nat /\ 1 <= Len(out)
        BY <1>2
      <3>2. QED
        BY <3>1, <1>2, <1>7, <1>8, SliceIs
    <2>2. SubSeq(out, 1, Len(out)) = out
      <3>1. out \in Seq(Both(out, out))
        BY <1>2, OfMembers
      <3>2. QED
        BY <3>1, SubSeqFull
    <2>3. MfcSlice(p, 1) = out
      BY <2>1, <2>2, <1>2
    <2>4. ~(p.mfcOut + p.nMfc > MfcAlloc)
      <3>1. PICK m \in Nat \ {0} : m = MfcAlloc
        BY MfcSize
      <3>2. PICK x \in 0 .. m - 1 : x = p.mfcOut
        BY <3>1, <1>7 DEF MfcOK
      <3>3. QED
        BY <3>1, <3>2, <1>8
    <2>5. QED
      BY <2>3, <2>4, <1>8 DEF ProcessMfcBuf, ProcessRest, ProcessSlice
  <1>10. Keeps(a, p, {"state", "fe", "mfcBuf", "nMfc", "mfcOut"}) /\ p.state = "ended"
    BY <1>5, <1>7 DEF Keeps, AmFields
  <1>11. /\ Stream(p, cs, st) /\ Flows(p, cs, st) /\ p.grow = a.grow /\ p.nFeat = a.nFeat
         /\ p.nAlloc = a.nAlloc /\ p.featBuf = a.featBuf /\ Made(p) = Made(a)
    BY <1>1, <1>7, <1>10, StreamElsewhere
  <1> DEFINE V == Both(cs, out)
  <1>12. cs \in Seq(V) /\ out \in Seq(V)
    BY <1>2, OfMembers
  <1> HIDE DEF V
  <1>13. /\ r.used \in 0 .. Len(out) /\ Takes(p, r.am) /\ Stream(r.am, cs \o out, st)
         /\ ~p.grow => r.am.nAlloc = p.nAlloc
         /\ Made(r.am) = Len(cs \o out) \/ (p.grow = FALSE /\ Made(r.am) = Made(p))
    <2>1. p.grow \in BOOLEAN /\ p.state = "ended" /\ MfcOK(p)
      BY <1>1, <1>7, <1>10, <1>11
    <2>2. p.grow => Made(p) < p.nAlloc
      BY <1>1, <1>11
    <2>3. ~p.grow => p.nFeat = 0
      BY <1>11
    <2>4. p.nAlloc >= 2 * Win + 1
      BY <1>11
    <2>5. Stream(p, cs, st) /\ Flows(p, cs, st) /\ Len(out) = 1
      BY <1>2, <1>11
    <2>6. Ending(p, cs, st)
      BY <2>1, <2>2, <2>3, <2>4, <2>5 DEF Ending
    <2>7. Lasts(p, r, Len(out), cs \o out, st)
      BY <2>5, <2>6, <1>12, LastFrameEnds
    <2> HIDE DEF r
    <2>8. QED
      BY <2>7 DEF Lasts
  <1> HIDE DEF r
  <1>14. /\ MfcOK(r.am) /\ MfcHolds(r.am, out) /\ r.am.grow = a.grow /\ r.am.nAlloc >= a.nAlloc
         /\ (a.grow => Made(r.am) < r.am.nAlloc /\ Still(p, r.am)) /\ IsAm(r.am)
    BY <1>7, <1>11, <1>13, TakesMfc DEF Stream
  <1>15. IsAm(b) /\ Keeps(r.am, b, {"nMfc", "mfcOut"}) /\ MfcOK(b)
    BY <1>2, <1>13, <1>14, DropEffect
  <1> HIDE DEF b
  <1>16. Keeps(r.am, b, {"state", "fe", "mfcBuf", "nMfc", "mfcOut"})
    BY <1>15 DEF Keeps
  <1>17. /\ Stream(b, cs \o out, st) /\ b.grow = a.grow /\ b.nAlloc = r.am.nAlloc
         /\ b.featBuf = r.am.featBuf /\ Made(b) = Made(r.am)
    BY <1>13, <1>14, <1>15, <1>16, StreamElsewhere
  <1>18. Keeps(a, b, Away)
    BY <1>10, <1>13, <1>15 DEF Keeps, Takes, Away, Moved
  <1>19. Still(p, r.am) => Still(a, b)
    BY <1>11, <1>17 DEF Still
  <1>20. Flushes(a, b, cs, out, st)
    BY <1>11, <1>13, <1>14, <1>15, <1>17, <1>18, <1>19 DEF Flushes
  <1>21. b.fe = e.fe
    <2>1. p.fe = f.fe
      BY <1>7 DEF Keeps, AmFields
    <2>2. r.am.fe = p.fe
      BY <1>13 DEF Keeps, Takes, AmFields
    <2>3. b.fe = r.am.fe
      BY <1>15 DEF Keeps, AmFields
    <2>4. QED
      BY <1>5, <2>1, <2>2, <2>3
  <1>22. QED
    BY <1>4, <1>9, <1>20, <1>21 DEF out, e

-----------------------------------------------------------------------------
(* acmod_process_cep() and acmod_process_full_cep(), from the caller. *)

(* What acmod_process_cep() may change, a call may. *)
LEMMA TakesAway ==
  ASSUME NEW a, NEW b, Takes(a, b)
  PROVE  Keeps(a, b, Away)
  BY DEF Takes, Keeps, Away, Moved

(* Cepstra from a caller. *)
LEMMA CepFirst ==
  ASSUME NEW s, IsSeq(s), Len(s) <= 3 * Win + 1, NEW a, NEW old, NEW ost, Fresh(a, old, ost)
  PROVE  LET r == ProcessCep(a, s)
         IN  /\ r.used = Len(s) /\ After(a, r.am, s, Given(s), Len(s)) /\ r.am.nMfc = a.nMfc
             /\ r.am.fe = a.fe
  <1> DEFINE r == ProcessCep(a, s)
  <1>1. /\ MfcOK(a) /\ IsAm(a) /\ Stream(a, old, ost) /\ a.state = "started" /\ Made(a) = 0
        /\ a.senscr = -1 /\ a.nAlloc >= 2 * Win + 1 /\ a.grow \in BOOLEAN /\ QueueOK(a)
    BY DEF Fresh, Stream
  <1>2. s \in Seq(Both(s, s))
    BY OfMembers
  <1>3. /\ r.used = Len(s) /\ r.am.state = "processing" /\ Takes(a, r.am)
        /\ Stream(r.am, s, Given(s)) /\ Flows(r.am, s, Given(s))
        /\ r.am.nFeat <= Len(s) /\ (~a.grow => r.am.nAlloc = a.nAlloc)
    BY <1>1, <1>2, ProcessBegins
  <1> HIDE DEF r
  <1>4. /\ MfcOK(r.am) /\ r.am.grow = a.grow /\ r.am.nAlloc >= a.nAlloc
        /\ (a.grow => Made(r.am) < r.am.nAlloc /\ Still(a, r.am)) /\ r.am.nMfc = a.nMfc
    BY <1>1, <1>3, TakesMfc
  <1>5. Steady(r.am, s, Given(s))
    BY <1>1, <1>3, <1>4 DEF Steady
  <1>6. r.am.nFeat <= a.nFeat + Len(s)
    <2>1. a.nFeat = 0
      BY <1>1 DEF QueueOK, Made
    <2>2. PICK len \in Nat : len = Len(s)
      BY DEF IsSeq
    <2>3. a.nFeat + len = len
      BY <2>1
    <2>4. QED
      BY <2>2, <2>3, <1>3
  <1>7. After(a, r.am, s, Given(s), Len(s))
    BY <1>3, <1>4, <1>5, <1>6, TakesAway DEF After
  <1>8. r.am.fe = a.fe
    BY <1>3 DEF Takes, Keeps, AmFields
  <1>9. QED
    BY <1>3, <1>4, <1>7, <1>8 DEF r

(* acmod_process_cep() in the middle of an utterance. *)
LEMMA CepMore ==
  ASSUME NEW cs, IsSeq(cs), NEW s, IsSeq(s), Len(s) <= 3 * Win + 1, NEW a, NEW st, Steady(a, cs, st),
         ~a.grow => a.nFeat = 0
  PROVE  LET r == ProcessCep(a, s)
         IN  /\ r.used \in 0 .. Len(s) /\ r.am.nMfc = a.nMfc /\ r.am.fe = a.fe
             /\ After(a, r.am, cs \o SubSeq(s, 1, r.used), st, r.used)
  <1> DEFINE r == ProcessCep(a, s)
             V == Both(cs, s)
  <1>1. /\ MfcOK(a) /\ IsAm(a) /\ Stream(a, cs, st) /\ Flows(a, cs, st) /\ a.state = "processing"
        /\ a.grow \in BOOLEAN /\ (a.grow => Made(a) < a.nAlloc)
    BY DEF Steady, Stream
  <1>2. cs \in Seq(V) /\ s \in Seq(V)
    BY OfMembers
  <1> HIDE DEF V
  <1>3. /\ r.used \in 0 .. Len(s) /\ Takes(a, r.am) /\ Steady(r.am, cs \o SubSeq(s, 1, r.used), st)
        /\ ~a.grow => r.am.nAlloc = a.nAlloc /\ r.am.nFeat <= a.nFeat + r.used
    <2>1. CASE a.grow
      <3>1. /\ r.used = Len(s) /\ Takes(a, r.am) /\ Steady(r.am, cs \o s, st)
        BY <2>1, <1>2, ProcessOn
      <3> HIDE DEF r
      <3>2. Len(s) \in Nat /\ SubSeq(s, 1, Len(s)) = s
        BY <1>2, SubSeqFull
      <3>3. r.used \in 0 .. Len(s)
        BY <3>1, <3>2
      <3>4. Steady(r.am, cs \o SubSeq(s, 1, r.used), st)
        BY <3>1, <3>2
      <3>5. QED
        BY <3>1, <3>3, <3>4, <2>1
    <2>2. CASE ~a.grow
      <3>1. a.grow = FALSE /\ (a.nFeat = 0 \/ a.nFeat + Len(s) <= a.nAlloc)
        BY <2>2, <1>1
      <3>2. /\ r.used \in 0 .. Len(s) /\ (a.nFeat + Len(s) <= a.nAlloc => r.used = Len(s))
            /\ r.am.state = "processing" /\ Takes(a, r.am) /\ r.am.nAlloc = a.nAlloc
            /\ Stream(r.am, cs \o SubSeq(s, 1, r.used), st)
            /\ Flows(r.am, cs \o SubSeq(s, 1, r.used), st)
            /\ r.am.nFeat <= a.nFeat + r.used
        <4>1. Stream(a, cs, st) /\ Flows(a, cs, st) /\ a.state = "processing"
          BY <1>1
        <4>2. a.nFeat = 0
          BY <2>2
        <4>3. QED
          BY <3>1, <4>1, <4>2, <1>2, ProcessRing
      <3> HIDE DEF r
      <3>3. Steady(r.am, cs \o SubSeq(s, 1, r.used), st)
        BY <3>1, <3>2, <1>1, TakesMfc DEF Steady
      <3>4. QED
        BY <3>2, <3>3
    <2>3. QED
      BY <2>1, <2>2
  <1> HIDE DEF r
  <1>4. /\ MfcOK(r.am) /\ r.am.grow = a.grow /\ r.am.nAlloc >= a.nAlloc
        /\ (a.grow => Made(r.am) < r.am.nAlloc /\ Still(a, r.am)) /\ r.am.nMfc = a.nMfc
    BY <1>1, <1>3, TakesMfc
  <1>5. After(a, r.am, cs \o SubSeq(s, 1, r.used), st, r.used)
    BY <1>3, <1>4, TakesAway DEF After
  <1>6. r.am.fe = a.fe
    BY <1>3 DEF Takes, Keeps, AmFields
  <1>7. QED
    BY <1>3, <1>4, <1>5, <1>6 DEF r

(* A whole utterance. *)
LEMMA FullEffect ==
  ASSUME NEW s, IsSeq(s), s # <<>>, NEW a, NEW old, NEW ost, Fresh(a, old, ost)
  PROVE  LET b == ProcessFullCep(a, s)
         IN  /\ Stream(b, s, "given") /\ Made(b) = Len(s) /\ b.nAlloc >= a.nAlloc /\ Len(s) <= b.nAlloc
             /\ Keeps(a, b, {"featBuf", "nAlloc", "nFeat", "featOut", "fcb"})
  <1> DEFINE fit == IF a.nAlloc < Len(s)
                    THEN [a EXCEPT !.featBuf = Resized(<<>>, Len(s)), !.nAlloc = Len(s),
                                   !.nFeat = 0, !.featOut = 0]
                    ELSE a
             r == Live(fit.fcb, s, TRUE, TRUE)
             st == StoreFeats(fit, 0, r.feats)
             b == [st EXCEPT !.fcb = r.fcb, !.nFeat = Len(r.feats)]
             V == Both(s, s)
  <1>1. /\ IsAm(a) /\ QueueOK(a) /\ FcbOK(a.fcb) /\ Made(a) = 0 /\ a.senscr = -1
    BY DEF Fresh, Stream
  <1>2. PICK len \in Nat : len = Len(s)
    BY DEF IsSeq
  <1>3. PICK size \in Nat \ {0} : size = a.nAlloc /\ a.nFeat = 0 /\ a.output = 0
    BY <1>1 DEF QueueOK, Made
  <1>4. s \in Seq(V)
    BY OfMembers
  <1> HIDE DEF V
  <1>5. ProcessFullCep(a, s) = b
    BY DEF ProcessFullCep
  <1>6. Rem(0, size) = 0 /\ (len > 0 => Rem(0, len) = 0)
    <2>1. 0 \in 0 .. size - 1 /\ (len > 0 => 0 \in 0 .. len - 1 /\ len \in Nat \ {0})
      OBVIOUS
    <2>2. QED
      BY <2>1, RemSmall
  <1>7. /\ IsAm(fit) /\ QueueOK(fit) /\ fit.fcb = a.fcb /\ fit.nFeat = 0 /\ fit.output = 0
        /\ fit.nAlloc \in Nat \ {0} /\ fit.nAlloc >= size /\ fit.nAlloc >= len
        /\ Keeps(a, fit, {"featBuf", "nAlloc", "nFeat", "featOut"})
    <2>1. CASE size < len
      <3> DEFINE buf == Resized(<<>>, len)
      <3>1. fit = [a EXCEPT !.featBuf = buf, !.nAlloc = len, !.nFeat = 0, !.featOut = 0]
        BY <2>1, <1>2, <1>3
      <3>2. buf = [p \in 0 .. len - 1 |-> buf[p]]
        BY DEF Resized
      <3> HIDE DEF fit, buf
      <3>3. /\ IsAm(fit) /\ Keeps(a, fit, {"featBuf", "nAlloc", "nFeat", "featOut"}) /\ fit.fcb = a.fcb
            /\ fit.featBuf = buf /\ fit.nAlloc = len /\ fit.nFeat = 0 /\ fit.featOut = 0 /\ fit.output = a.output
        BY <3>1, <1>1 DEF IsAm, Keeps, AmFields
      <3>4. len \in Nat \ {0} /\ 0 \in 0 .. len /\ 0 \in Nat /\ len > 0
        BY <2>1
      <3>5. QueueOK(fit)
        BY <3>2, <3>3, <3>4, <1>3, <1>6 DEF QueueOK
      <3>6. QED
        BY <3>3, <3>4, <3>5, <2>1, <1>3
    <2>2. CASE ~(size < len)
      <3>1. fit = a
        BY <2>2, <1>2, <1>3
      <3> HIDE DEF fit
      <3>2. QED
        BY <3>1, <2>2, <1>1, <1>2, <1>3 DEF Keeps
    <2>3. QED
      BY <2>1, <2>2
  <1> HIDE DEF fit
  <1>8. Made(fit) = 0
    BY <1>7 DEF Made
  <1>9. FcbOK(r.fcb) /\ FeaturesFrom(r.feats, Len(s), s, "given", 0)
    BY <1>1, <1>4, <1>7, BlockUttEffect
  <1> HIDE DEF r
  <1>10. Len(r.feats) = len
    BY <1>2, <1>9 DEF FeaturesFrom
  <1>11. /\ IsAm(st) /\ Keeps(fit, st, {"featBuf", "nFeat"}) /\ QueueOK(st)
         /\ st.nFeat = fit.nFeat + len /\ Made(st) = Made(fit) + len /\ Ring(st, s, "given")
    <2>1. Ring(fit, s, "given")
      <3>1. \A f \in 0 .. 0 - 1 : FALSE
        OBVIOUS
      <3>2. QED
        BY <3>1, <1>8 DEF Ring, RingOf
    <2>2. FeaturesFrom(r.feats, len, s, "given", Made(fit))
      BY <1>2, <1>8, <1>9
    <2>3. PICK pos \in Int : pos = 0
      OBVIOUS
    <2>4. pos = Rem(Made(fit), fit.nAlloc)
      <3>1. PICK z \in Nat \ {0} : z = fit.nAlloc
        BY <1>7
      <3>2. 0 \in 0 .. z - 1
        OBVIOUS
      <3>3. QED
        BY <3>1, <3>2, <2>3, <1>8, RemSmall
    <2>5. pos + len <= fit.nAlloc /\ fit.nFeat + len <= fit.nAlloc
      <3>1. PICK z \in Nat \ {0} : z = fit.nAlloc /\ len <= z
        BY <1>7
      <3>2. QED
        BY <3>1, <2>3, <1>7
    <2>6. st = StoreFeats(fit, pos, r.feats)
      BY <2>3
    <2> HIDE DEF st
    <2>7. QED
      BY <2>1, <2>2, <2>4, <2>5, <2>6, <1>7, StoreEffect
  <1> HIDE DEF st
  <1>12. st.nFeat = len /\ Made(st) = len
    BY <1>7, <1>8, <1>11
  <1>13. /\ IsAm(b) /\ b.fcb = r.fcb /\ Keeps(st, b, {"nFeat", "fcb"}) /\ b.nFeat = len
    BY <1>10, <1>11 DEF IsAm, Keeps, AmFields
  <1> HIDE DEF b
  <1>14. /\ b.senscr = -1 /\ b.nFeat = st.nFeat /\ b.featBuf = st.featBuf
         /\ b.nAlloc = st.nAlloc /\ b.output = st.output /\ b.featOut = st.featOut
         /\ st.nAlloc = fit.nAlloc
         /\ Keeps(a, b, {"featBuf", "nAlloc", "nFeat", "featOut", "fcb"})
    BY <1>1, <1>7, <1>11, <1>12, <1>13 DEF Keeps, AmFields
  <1>15. QueueOK(b) /\ Made(b) = len /\ Ring(b, s, "given") /\ Kept(b, s, "given")
    BY <1>11, <1>12, <1>14 DEF QueueOK, Made, Ring, Kept, KeptOf
  <1>16. QED
    BY <1>2, <1>3, <1>5, <1>7, <1>9, <1>13, <1>14, <1>15 DEF Stream

-----------------------------------------------------------------------------
(* Scoring, and what the searches have scored. *)

(* What a search has scored: frames of the utterance, by their cepstra. *)
Entries(seen, made, cs, st) ==
  /\ IsSeq(seen)
  /\ \A i \in 1 .. Len(seen) :
        /\ seen[i] = [frame |-> seen[i].frame, feat |-> seen[i].feat]
        /\ seen[i].frame \in 0 .. made - 1 /\ Fits(seen[i].feat, cs, st, seen[i].frame)

(* They were scored in order, and none left out. *)
InOrder(seen) == \A i \in 1 .. Len(seen) : seen[i].frame = i - 1

(* They agree with the buffer. *)
FromBuf(seen, buf) == \A i \in 1 .. Len(seen) : seen[i].feat = buf[i - 1]

(* The scores that are kept agree with it. *)
ScoresFromBuf(a) == a.senscr = -1 \/ a.scores = a.featBuf[a.senscr]

(* acmod_score() of a frame that is still in the buffer. *)
LEMMA ScoreEffect ==
  ASSUME NEW a, IsAm(a), QueueOK(a), NEW cs, NEW st, Ring(a, cs, st), Kept(a, cs, st),
         NEW f \in Nat, f < Made(a), Made(a) <= f + a.nAlloc, NEW idx, FrameIdx(a, idx) = f
  PROVE  LET b == AfterScore(a, idx)
         IN  /\ CanScore(a, compallsen, idx) /\ b = Score(a, compallsen, idx)
             /\ IsAm(b) /\ Keeps(a, b, {"senscr", "scores"}) /\ Kept(b, cs, st)
             /\ Fits(b.scores, cs, st, f)
             /\ (Made(a) <= a.nAlloc /\ ScoresFromBuf(a)) => (b.scores = a.featBuf[f] /\ ScoresFromBuf(b))
  <1>1. PICK size \in Nat \ {0}, out \in Nat, queued \in Nat, made \in Nat :
          /\ size = a.nAlloc /\ out = a.output /\ queued = a.nFeat /\ queued <= size
          /\ made = Made(a) /\ made = out + queued /\ f < made /\ made <= f + size
    BY DEF QueueOK, Made
  <1>2. InQueue(a, f)
    BY <1>1 DEF InQueue
  <1>3. CanScore(a, compallsen, idx)
    BY <1>2 DEF CanScore
  <1> DEFINE b == AfterScore(a, idx)
  <1>4. b = Score(a, compallsen, idx)
    BY <1>3 DEF AfterScore
  <1>5. FeatIdx(a, f) = Rem(f, size)
    <2>1. PICK r \in Int : r = Rem(out, size)
      <3>1. Rem(out, size) \in 0 .. size - 1
        BY RemRange
      <3>2. QED
        BY <3>1
    <2>2. Rem(r, size) = Rem(out, size)
      BY <2>1, RemTwice
    <2>3. PICK k \in Int : k = f - out
      OBVIOUS
    <2>4. Rem(r + k, size) = Rem(out + k, size)
      BY ONLY <2>2, size \in Nat \ {0}, r \in Int, out \in Int, k \in Int, RemShift
    <2>5. out + k = f /\ r + f - out = r + k
      BY <2>3
    <2>6. FeatIdx(a, f) = Rem(r + f - out, size)
      BY <2>1, <1>1 DEF FeatIdx, QueueOK, Rem
    <2>7. QED
      BY <2>4, <2>5, <2>6
  <1>6. Fits(a.featBuf[Rem(f, size)], cs, st, f)
    <2>1. f \in 0 .. made - 1 /\ f >= made - size
      BY <1>1
    <2>2. QED
      BY <2>1, <1>1 DEF Ring, RingOf
  <1>7. made <= size => Rem(f, size) = f
    <2>1. made <= size => f \in 0 .. size - 1
      BY <1>1
    <2>2. QED
      BY <2>1, RemSmall
  <1>8. CASE Reuses(a, compallsen, f)
    <2>1. b = a /\ a.senscr = f
      BY <1>4, <1>8 DEF Score, Reuses
    <2> HIDE DEF b
    <2>2. f # -1
      OBVIOUS
    <2>3. Fits(a.scores, cs, st, f)
      BY <2>1, <2>2 DEF Kept, KeptOf
    <2>4. ScoresFromBuf(a) => a.scores = a.featBuf[f]
      BY <2>1, <2>2 DEF ScoresFromBuf
    <2>5. Keeps(a, a, {"senscr", "scores"})
      BY DEF Keeps
    <2>6. QED
      BY <2>1, <2>3, <2>4, <2>5, <1>3, <1>4 DEF b
  <1>9. CASE ~Reuses(a, compallsen, f)
    <2> DEFINE x == a.featBuf[Rem(f, size)]
    <2>1. b = [a EXCEPT !.senscr = f, !.scores = x]
      BY <1>4, <1>5, <1>9 DEF Score
    <2> HIDE DEF b, x
    <2>2. /\ IsAm(b) /\ Keeps(a, b, {"senscr", "scores"}) /\ b.senscr = f /\ b.scores = x
          /\ b.featBuf = a.featBuf /\ b.output = a.output /\ b.nFeat = a.nFeat
      BY <2>1 DEF IsAm, Keeps, AmFields
    <2>3. Fits(b.scores, cs, st, f)
      BY <2>2, <1>6 DEF x
    <2>4. Kept(b, cs, st)
      <3>1. Made(b) = made /\ f \in 0 .. made - 1
        BY <2>2, <1>1 DEF Made
      <3>2. QED
        BY <3>1, <2>2, <2>3 DEF Kept, KeptOf
    <2>5. Made(a) <= a.nAlloc => b.scores = a.featBuf[f] /\ ScoresFromBuf(b)
      BY <2>2, <1>1, <1>7 DEF x, ScoresFromBuf
    <2>6. QED
      BY <2>2, <2>3, <2>4, <2>5, <1>3, <1>4 DEF b
  <1>10. QED
    BY <1>8, <1>9

(* What it adds to what a search has scored. *)
ScoresOne(a, idx, f, made, cs, st, x, seen, more) ==
  /\ f < made /\ FrameIdx(a, idx) = f /\ CanScore(a, compallsen, idx)
  /\ x = Score(a, compallsen, idx).scores /\ Fits(x, cs, st, f)
  /\ Entries(seen, made, cs, st) /\ more = Scored(a, idx, seen)

(* One more frame is scored. *)
LEMMA ScoredEffect ==
  ASSUME NEW a, NEW cs, NEW st, NEW f \in Nat, NEW made \in Nat, NEW idx, NEW x, NEW seen, NEW more,
         ScoresOne(a, idx, f, made, cs, st, x, seen, more)
  PROVE  /\ Entries(more, made, cs, st) /\ Len(more) = Len(seen) + 1
         /\ InOrder(seen) /\ f = Len(seen) => InOrder(more)
         /\ \A buf : FromBuf(seen, buf) /\ f = Len(seen) /\ x = buf[f] => FromBuf(more, buf)
  <1>0. /\ f < made /\ FrameIdx(a, idx) = f /\ CanScore(a, compallsen, idx)
        /\ x = Score(a, compallsen, idx).scores /\ Fits(x, cs, st, f)
        /\ Entries(seen, made, cs, st) /\ more = Scored(a, idx, seen)
    BY DEF ScoresOne
  <1> DEFINE e == [frame |-> f, feat |-> x]
  <1>1. more = Append(seen, e)
    BY <1>0 DEF Scored
  <1>2. e.frame = f /\ e.feat = x /\ e = [frame |-> e.frame, feat |-> e.feat]
    OBVIOUS
  <1> HIDE DEF e
  <1>3. PICK n \in Nat : n = Len(seen)
    BY <1>0 DEF Entries, IsSeq
  <1>4. IsSeq(more) /\ Len(more) = n + 1
    BY <1>0, <1>1, <1>3, AppendIs DEF Entries
  <1>5. (\A i \in 1 .. n : more[i] = seen[i]) /\ more[n + 1] = e
    <2>1. seen \in Seq(Both(seen, seen))
      BY <1>0, OfMembers DEF Entries
    <2>2. PICK W : W = Both(seen, seen) \cup {e}
      OBVIOUS
    <2>3. seen \in Seq(W) /\ e \in W
      BY <2>1, <2>2, SeqMonotonic
    <2>4. QED
      BY <2>3, <1>1, <1>3, AppendProperties
  <1>6. \A i \in 1 .. n + 1 : i \in 1 .. n \/ i = n + 1
    OBVIOUS
  <1>7. Entries(more, made, cs, st)
    <2>1. ASSUME NEW i \in 1 .. n + 1
          PROVE  /\ more[i] = [frame |-> more[i].frame, feat |-> more[i].feat]
                 /\ more[i].frame \in 0 .. made - 1 /\ Fits(more[i].feat, cs, st, more[i].frame)
      <3>1. CASE i \in 1 .. n
        <4>1. more[i] = seen[i] /\ i \in 1 .. Len(seen)
          BY <3>1, <1>3, <1>5
        <4>2. QED
          BY <4>1, <1>0 DEF Entries
      <3>2. CASE i = n + 1
        <4>1. more[i] = e /\ f \in 0 .. made - 1
          BY <3>2, <1>0, <1>5
        <4>2. QED
          BY <4>1, <1>0, <1>2
      <3>3. QED
        BY <3>1, <3>2, <1>6
    <2>2. QED
      BY <2>1, <1>4 DEF Entries
  <1>8. ASSUME InOrder(seen), f = Len(seen) PROVE InOrder(more)
    <2>1. ASSUME NEW i \in 1 .. n + 1 PROVE more[i].frame = i - 1
      <3>1. CASE i \in 1 .. n
        <4>1. more[i] = seen[i] /\ i \in 1 .. Len(seen)
          BY <3>1, <1>3, <1>5
        <4>2. QED
          BY <4>1, <1>8 DEF InOrder
      <3>2. CASE i = n + 1
        <4>1. more[i] = e /\ f = i - 1
          BY <3>2, <1>3, <1>5, <1>8
        <4>2. QED
          BY <4>1, <1>2
      <3>3. QED
        BY <3>1, <3>2, <1>6
    <2>2. QED
      BY <2>1, <1>4 DEF InOrder
  <1>9. ASSUME NEW buf, FromBuf(seen, buf), f = Len(seen), x = buf[f] PROVE FromBuf(more, buf)
    <2>1. ASSUME NEW i \in 1 .. n + 1 PROVE more[i].feat = buf[i - 1]
      <3>1. CASE i \in 1 .. n
        <4>1. more[i] = seen[i] /\ i \in 1 .. Len(seen)
          BY <3>1, <1>3, <1>5
        <4>2. QED
          BY <4>1, <1>9 DEF FromBuf
      <3>2. CASE i = n + 1
        <4>1. more[i] = e /\ f = i - 1
          BY <3>2, <1>3, <1>5, <1>9
        <4>2. QED
          BY <4>1, <1>2, <1>9
      <3>3. QED
        BY <3>1, <3>2, <1>6
    <2>2. QED
      BY <2>1, <1>4 DEF FromBuf
  <1>10. QED
    BY <1>3, <1>4, <1>7, <1>8, <1>9

(* acmod_advance() *)
LEMMA AdvanceEffect ==
  ASSUME NEW a, IsAm(a), QueueOK(a), a.nFeat > 0
  PROVE  LET b == Advance(a)
         IN  /\ IsAm(b) /\ Keeps(a, b, {"featOut", "nFeat", "output"}) /\ QueueOK(b)
             /\ Made(b) = Made(a) /\ b.output = a.output + 1 /\ b.nFeat = a.nFeat - 1
  <1>1. PICK size \in Nat \ {0}, out \in Nat, queued \in Nat :
          /\ size = a.nAlloc /\ out = a.output /\ queued = a.nFeat /\ queued <= size /\ queued > 0
    BY DEF QueueOK
  <1>2. PICK pos \in 0 .. size - 1 : pos = Rem(out, size) /\ pos = a.featOut
    <2>1. Rem(out, size) \in 0 .. size - 1
      BY RemRange
    <2>2. QED
      BY <2>1, <1>1 DEF QueueOK
  <1> DEFINE to == IF pos + 1 = size THEN 0 ELSE pos + 1
             b == Advance(a)
  <1>3. to = Rem(out + 1, size)
    <2>1. Rem(pos, size) = Rem(out, size)
      <3>1. Rem(Rem(out, size), size) = Rem(out, size)
        BY RemTwice
      <3>2. pos = Rem(out, size)
        BY <1>2
      <3>3. QED
        BY ONLY <3>1, <3>2
    <2>2. pos \in Int /\ out \in Int /\ 1 \in Int
      BY <1>2
    <2>3. PICK k \in Int : k = 1
      OBVIOUS
    <2>4. Rem(pos + k, size) = Rem(out + k, size)
      BY ONLY <2>1, <2>2, size \in Nat \ {0}, pos \in Int, out \in Int, k \in Int, RemShift
    <2>5. CASE pos + 1 = size
      <3>1. size = size * 1 + 0 /\ 0 \in 0 .. size - 1
        OBVIOUS
      <3>2. Rem(size, size) = 0
        BY <3>1, RemUnique
      <3>3. QED
        BY <2>3, <2>4, <2>5, <3>2
    <2>6. CASE pos + 1 # size
      <3>1. pos + 1 \in 0 .. size - 1
        BY <2>6, <1>2
      <3>2. Rem(pos + 1, size) = pos + 1
        BY <3>1, RemSmall
      <3>3. QED
        BY <2>3, <2>4, <2>6, <3>2
    <2>7. QED
      BY <2>5, <2>6
  <1>4. b = [a EXCEPT !.featOut = to, !.nFeat = queued - 1, !.output = out + 1]
    BY <1>1, <1>2 DEF Advance
  <1> HIDE DEF to, b
  <1>5. /\ IsAm(b) /\ Keeps(a, b, {"featOut", "nFeat", "output"}) /\ b.featOut = to
        /\ b.nFeat = queued - 1 /\ b.output = out + 1 /\ b.nAlloc = size /\ b.featBuf = a.featBuf
    BY <1>1, <1>4 DEF IsAm, Keeps, AmFields
  <1>6. Made(b) = Made(a)
    BY <1>1, <1>5 DEF Made
  <1>7. QueueOK(b)
    <2>1. queued - 1 \in 0 .. size /\ out + 1 \in Nat
      BY <1>1
    <2>2. a.featBuf = [p \in 0 .. size - 1 |-> a.featBuf[p]]
      BY <1>1 DEF QueueOK
    <2>3. QED
      BY <2>1, <2>2, <1>3, <1>5 DEF QueueOK
  <1>8. QED
    BY <1>1, <1>5, <1>6, <1>7 DEF b

(* What holds of acmod at any time. *)
Sized(a, pl, tp) ==
  /\ IsAm(a) /\ QueueOK(a) /\ FcbOK(a.fcb) /\ MfcOK(a)
  /\ a.nAlloc >= MfcAlloc + pl
  /\ a.grow \in BOOLEAN /\ (tp => a.grow = TRUE)
  /\ (a.grow => Made(a) <= a.nAlloc)
  /\ (Made(a) <= a.nAlloc \/ a.nFeat + pl <= a.nAlloc)

(* acmod_set_grow() *)
LEMMA SetGrowEffect ==
  ASSUME NEW a, IsAm(a), QueueOK(a), Made(a) < a.nAlloc, NEW g \in BOOLEAN
  PROVE  LET b == SetGrow(a, g)
         IN  /\ IsAm(b) /\ Keeps(a, b, {"grow", "featBuf", "nAlloc"}) /\ QueueOK(b)
             /\ b.grow = g /\ b.nAlloc >= a.nAlloc /\ Made(b) = Made(a) /\ Still(a, b)
             /\ \A cs, st : Ring(a, cs, st) => Ring(b, cs, st)
  <1> DEFINE s == [a EXCEPT !.grow = g]
             b == SetGrow(a, g)
  <1>1. /\ IsAm(s) /\ Keeps(a, s, {"grow"}) /\ s.grow = g
        /\ s.featBuf = a.featBuf /\ s.nAlloc = a.nAlloc /\ s.nFeat = a.nFeat /\ s.output = a.output
        /\ s.featOut = a.featOut
    BY DEF IsAm, Keeps, AmFields
  <1>2. b = IF g /\ a.nAlloc < GrowAlloc THEN GrowFeatBuf(s, GrowAlloc) ELSE s
    BY DEF SetGrow
  <1> HIDE DEF s, b
  <1>3. Made(s) = Made(a) /\ QueueOK(s) /\ \A cs, st : Ring(a, cs, st) => Ring(s, cs, st)
    BY <1>1 DEF Made, QueueOK, Ring
  <1>4. Keeps(a, s, {"grow", "featBuf", "nAlloc"}) /\ Still(a, s)
    BY <1>1 DEF Keeps, Still
  <1>5. CASE g /\ a.nAlloc < GrowAlloc
    <2>1. GrowAlloc \in Nat /\ GrowAlloc >= s.nAlloc /\ Made(s) < s.nAlloc
      <3>1. a.nAlloc \in Nat /\ GrowAlloc \in Nat
        BY GrowAllocAssumption DEF QueueOK
      <3>2. QED
        BY <3>1, <1>1, <1>3, <1>5
    <2>2. b = GrowFeatBuf(s, GrowAlloc)
      BY <1>2, <1>5
    <2>3. /\ IsAm(b) /\ Keeps(s, b, {"featBuf", "nAlloc"}) /\ QueueOK(b)
          /\ b.nAlloc = GrowAlloc /\ Made(b) = Made(s)
          /\ \A p \in 0 .. Made(s) - 1 : b.featBuf[p] = s.featBuf[p]
          /\ \A cs, st : Ring(s, cs, st) => Ring(b, cs, st)
      BY <2>1, <2>2, <1>1, <1>3, GrowEffect
    <2>4. Keeps(a, b, {"grow", "featBuf", "nAlloc"}) /\ b.grow = g
      BY <1>1, <2>3 DEF Keeps, AmFields
    <2>5. Still(a, b)
      BY <1>1, <1>3, <2>3 DEF Still
    <2>6. b.nAlloc >= a.nAlloc
      BY <2>1, <2>3, <1>1
    <2>7. QED
      BY <2>3, <2>4, <2>5, <2>6, <1>3 DEF b
  <1>6. CASE ~ (g /\ a.nAlloc < GrowAlloc)
    <2>1. b = s
      BY <1>2, <1>6
    <2>2. s.nAlloc >= a.nAlloc
      BY <1>1 DEF QueueOK
    <2>3. QED
      BY <2>1, <2>2, <1>1, <1>3, <1>4 DEF b
  <1>7. QED
    BY <1>5, <1>6

(* What it leaves. *)
LEMMA SetGrowKeeps ==
  ASSUME NEW a, NEW b, IsAm(b), QueueOK(b), Keeps(a, b, {"grow", "featBuf", "nAlloc"}), b.grow \in BOOLEAN,
         b.nAlloc \in Nat, a.nAlloc \in Nat, b.nAlloc >= a.nAlloc, Made(b) = Made(a), Made(a) \in Nat,
         Made(a) < a.nAlloc,
         NEW cs, NEW st, Ring(a, cs, st) => Ring(b, cs, st)
  PROVE  /\ Steady(a, cs, st) => Steady(b, cs, st)
         /\ Fresh(a, cs, st) => Fresh(b, cs, st)
         /\ MfcOK(a) => MfcOK(b)
         /\ b.fcb = a.fcb /\ b.nMfc = a.nMfc /\ b.mfcOut = a.mfcOut /\ b.fe = a.fe /\ b.nFeat = a.nFeat
         /\ b.output = a.output /\ b.senscr = a.senscr /\ b.scores = a.scores
  <1>1. /\ b.fcb = a.fcb /\ b.nMfc = a.nMfc /\ b.mfcOut = a.mfcOut /\ b.fe = a.fe /\ b.nFeat = a.nFeat
        /\ b.output = a.output /\ b.senscr = a.senscr /\ b.scores = a.scores /\ b.state = a.state
        /\ b.mfcBuf = a.mfcBuf
    BY DEF Keeps, AmFields
  <1>2. Stream(a, cs, st) => Stream(b, cs, st)
    BY <1>1 DEF Stream, Kept
  <1>3. Flows(a, cs, st) => Flows(b, cs, st)
    BY <1>1 DEF Flows
  <1>4. MfcOK(a) => MfcOK(b)
    BY <1>1 DEF MfcOK
  <1>5. Made(b) < b.nAlloc
    OBVIOUS
  <1>6. Steady(a, cs, st) => Steady(b, cs, st)
    BY <1>1, <1>2, <1>3, <1>4, <1>5 DEF Steady
  <1>7. Fresh(a, cs, st) => Fresh(b, cs, st)
    <2>1. a.nAlloc >= 2 * Win + 1 => b.nAlloc >= 2 * Win + 1
      BY Sizes
    <2>2. QED
      BY <2>1, <1>1, <1>2, <1>4 DEF Fresh
  <1>8. QED
    BY <1>1, <1>4, <1>6, <1>7

(* A search that scores and goes on to the next frame. *)
Scoring == {"senscr", "scores", "featOut", "nFeat", "output"}

(* Scoring and advancing leave the features in their slots. *)
LEMMA ScoringKeeps ==
  ASSUME NEW a, NEW b, IsAm(b), QueueOK(b), Keeps(a, b, Scoring), Made(b) = Made(a)
  PROVE  /\ \A cs, st : Ring(a, cs, st) => Ring(b, cs, st)
         /\ \A cs, st : Steady(a, cs, st) /\ Kept(b, cs, st) => Steady(b, cs, st)
         /\ \A cs, st : Stream(a, cs, st) /\ Kept(b, cs, st) => Stream(b, cs, st)
         /\ FcbOK(a.fcb) => FcbOK(b.fcb)
         /\ MfcOK(a) => MfcOK(b)
         /\ b.nMfc = a.nMfc /\ b.mfcOut = a.mfcOut /\ b.fe = a.fe /\ b.nAlloc = a.nAlloc
         /\ b.grow = a.grow /\ b.featBuf = a.featBuf
         /\ \A pl \in Nat : \A tp : Sized(a, pl, tp) /\ b.nFeat <= a.nFeat => Sized(b, pl, tp)
  <1>1. /\ b.fcb = a.fcb /\ b.nMfc = a.nMfc /\ b.mfcOut = a.mfcOut /\ b.fe = a.fe
        /\ b.state = a.state /\ b.mfcBuf = a.mfcBuf /\ b.nAlloc = a.nAlloc /\ b.featBuf = a.featBuf
        /\ b.grow = a.grow
    BY DEF Keeps, AmFields, Scoring
  <1>2. \A cs, st : Ring(a, cs, st) => Ring(b, cs, st)
    BY <1>1 DEF Ring
  <1>3. \A cs, st : Stream(a, cs, st) /\ Kept(b, cs, st) => Stream(b, cs, st)
    BY <1>1, <1>2 DEF Stream
  <1>4. \A cs, st : Flows(a, cs, st) => Flows(b, cs, st)
    BY <1>1 DEF Flows
  <1>5. MfcOK(a) => MfcOK(b)
    BY <1>1 DEF MfcOK
  <1>6. \A cs, st : Steady(a, cs, st) /\ Kept(b, cs, st) => Steady(b, cs, st)
    BY <1>1, <1>3, <1>4, <1>5 DEF Steady
  <1>7. ASSUME NEW pl \in Nat, NEW tp, Sized(a, pl, tp), b.nFeat <= a.nFeat PROVE Sized(b, pl, tp)
    <2>1. a.nFeat + pl <= a.nAlloc => b.nFeat + pl <= b.nAlloc
      <3>1. a.nFeat \in Int /\ b.nFeat \in Int /\ a.nAlloc \in Int
        BY <1>7 DEF Sized, QueueOK
      <3>2. QED
        BY <3>1, <1>1, <1>7
    <2>2. QED
      BY <2>1, <1>1, <1>5, <1>7 DEF Sized
  <1>8. QED
    BY <1>1, <1>2, <1>3, <1>5, <1>6, <1>7

-----------------------------------------------------------------------------
(* The inductive invariant of an utterance. *)

(* An utterance is open and its first call has not given anything yet. *)
Opening(a, cs) ==
  Fresh(a, <<>>, "empty") /\ cs = <<>> /\ a.mfcOut = 0 /\ a.nMfc = 0 /\ a.fe.overflow = <<>>
(* A whole utterance was given. *)
Whole(a, cs, st, left, given) ==
  /\ st = "given" /\ Stream(a, cs, st) /\ MfcOK(a) /\ a.nMfc = 0 /\ a.fe.overflow = <<>>
  /\ Made(a) = Len(cs) /\ Made(a) <= a.nAlloc /\ left = <<>> /\ given > 0

(* While an utterance is fed: how acmod is between its calls, by how it is *)
(* fed.                                                                    *)
Feeds(a, cs, st, p, m, ns, left, given) ==
  p \in {"open", "process", "forward"} =>
    /\ (st = "pending" => Opening(a, cs) /\ p # "forward")
    /\ (st # "pending" /\ m # "full" => Steady(a, cs, st) /\ a.nMfc = 0)
    /\ (st # "pending" /\ m = "full" => Whole(a, cs, st, left, given))
    /\ (ns = TRUE => p # "forward" /\ (p = "process" \/ st # "pending" => a.grow = TRUE))
    /\ (ns = FALSE /\ p # "forward" => a.nFeat = 0)
    /\ (p # "open" => given > 0)

(* After the end of an utterance. *)
Flushed(a, cs, p, m, tp) ==
  p \in {"flush", "finish", "again", "done"} =>
    /\ \/ Made(a) = Len(cs) \/ Made(a) = Positive(Len(cs) - Win)
       \/ tp = FALSE /\ Made(a) = Positive(Len(cs) - Win - 1)
    /\ (m = "full" => Made(a) = Len(cs))
    /\ (p \in {"finish", "done"} => a.nFeat = 0) /\ (p = "again" => tp = TRUE)

(* What the searches have scored. *)
Seen(a, cs, st, tp, lp, sd, ag) ==
  /\ Entries(lp, Made(a), cs, st) /\ Entries(sd, Made(a), cs, st) /\ Entries(ag, Made(a), cs, st)
  /\ InOrder(sd) /\ InOrder(ag)
  /\ (tp = TRUE => FromBuf(sd, a.featBuf) /\ FromBuf(ag, a.featBuf) /\ ScoresFromBuf(a))

(* Where the main search has seen the end. *)
Ends == {"finish", "again", "done"}

(* The utterance turned out no shorter than the lookahead window. *)
Sound(a, p, pl) == p \in Ends => Made(a) >= pl

(* The main search is plWindow frames behind until its end, the second     *)
(* pass at the output.                                                     *)
Searches(a, cs, st, p, pl, tp, lp, sd, ag) ==
  Sound(a, p, pl) =>
    /\ Kept(a, cs, st) /\ Seen(a, cs, st, tp, lp, sd, ag)
    /\ (p \in Ends => Len(sd) = Made(a)) /\ (p \notin Ends => Len(sd) = Positive(a.output - pl))
    /\ (p = "again" \/ (p = "done" /\ tp = TRUE) => Len(ag) = a.output)
    /\ (~ (p = "again" \/ (p = "done" /\ tp = TRUE)) => Len(ag) = 0)

(* A call gives no more cepstra than its first may. *)
Short(m, pl, left) ==
  m = "cep" => Len(left) <= 3 * Win + 1 /\ (pl # 0 => Len(left) <= MfcAlloc)

(* Where the caller may be. *)
Pcs == {"idle", "open", "process", "forward", "flush", "finish", "again", "done"}

(* The types of what is not acmod. *)
Types ==
  /\ plWindow \in Nat /\ twoPass \in BOOLEAN /\ pc \in Pcs
  /\ mode \in {"none", "raw", "cep", "full"} /\ (pc # "idle" => mode # "none")
  /\ utt \in 0 .. MaxUtts /\ fed \in Nat /\ IsSeq(chunk) /\ IsSeq(ceps) /\ noSearch \in BOOLEAN
  /\ start \in {"pending", "given", "empty"} /\ Short(mode, plWindow, chunk)

(* The inductive invariant. *)
IInv ==
  /\ Types /\ Sized(am, plWindow, twoPass) /\ Ring(am, ceps, start)
  /\ Feeds(am, ceps, start, pc, mode, noSearch, chunk, fed)
  /\ Flushed(am, ceps, pc, mode, twoPass)
  /\ Searches(am, ceps, start, pc, plWindow, twoPass, looped, searched, again)

(* Nothing was made, so nothing was scored. *)
LEMMA EntriesNone ==
  ASSUME NEW cs, NEW st
  PROVE  /\ \A made : Entries(<<>>, made, cs, st)
         /\ InOrder(<<>>) /\ \A buf : FromBuf(<<>>, buf)
         /\ \A seen, other, ost, made : Entries(seen, 0, other, ost) => Len(seen) = 0 /\ Entries(seen, made, cs, st)
  <1>1. IsSeq(<<>>) /\ Len(<<>>) = 0
    BY EmptyIs
  <1>2. \A i \in 1 .. 0 : FALSE
    OBVIOUS
  <1>3. (\A made : Entries(<<>>, made, cs, st)) /\ InOrder(<<>>) /\ \A buf : FromBuf(<<>>, buf)
    BY <1>1, <1>2 DEF Entries, InOrder, FromBuf
  <1>4. ASSUME NEW seen, NEW other, NEW ost, NEW made, Entries(seen, 0, other, ost)
        PROVE  Len(seen) = 0 /\ Entries(seen, made, cs, st)
    <2>1. IsSeq(seen) /\ \A i \in 1 .. Len(seen) : seen[i].frame \in 0 .. 0 - 1
      BY <1>4 DEF Entries
    <2>2. Len(seen) \in Nat /\ \A i \in 1 .. Len(seen) : FALSE
      BY <2>1 DEF IsSeq
    <2>3. Len(seen) = 0
      BY <2>2
    <2>4. QED
      BY <2>1, <2>2, <2>3 DEF Entries
  <1>5. QED
    BY <1>3, <1>4

(* Before the first feature nothing was scored. *)
LEMMA StartOfSearches ==
  ASSUME NEW a, NEW cs, NEW st, Made(a) = 0, a.output = 0, a.senscr = -1, NEW p, p \notin Ends, NEW pl \in Nat, NEW tp
  PROVE  Searches(a, cs, st, p, pl, tp, <<>>, <<>>, <<>>) /\ Ring(a, cs, st)
  <1>1. Positive(a.output - pl) = 0
    BY DEF Positive
  <1>2. Kept(a, cs, st) /\ ScoresFromBuf(a) /\ Ring(a, cs, st)
    <2>1. \A f \in 0 .. 0 - 1 : FALSE
      OBVIOUS
    <2>2. QED
      BY <2>1 DEF Kept, KeptOf, ScoresFromBuf, Ring, RingOf
  <1>3. Seen(a, cs, st, tp, <<>>, <<>>, <<>>) 
    BY <1>2, EntriesNone DEF Seen
  <1>4. Len(<<>>) = 0 /\ p # "again" /\ p # "done"
    BY EmptyIs DEF Ends
  <1>5. QED
    BY <1>1, <1>2, <1>3, <1>4 DEF Searches

(* acmod_start_utt() *)
LEMMA StartEffect ==
  ASSUME NEW a, NEW pl \in Nat, NEW tp, Sized(a, pl, tp)
  PROVE  LET b == StartedUtt(a)
         IN  Sized(b, pl, tp) /\ Opening(b, <<>>) /\ b.output = 0 /\ b.nFeat = 0
  <1> DEFINE b == StartedUtt(a)
  <1>1. /\ IsAm(b) /\ b.fcb = a.fcb /\ b.mfcBuf = a.mfcBuf /\ b.nMfc = 0 /\ b.mfcOut = 0 /\ b.fe = FeStartUtt
        /\ b.state = "started" /\ b.nFeat = 0 /\ b.featOut = 0 /\ b.output = 0 /\ b.senscr = -1
        /\ b.nAlloc = a.nAlloc /\ b.featBuf = a.featBuf /\ b.grow = a.grow
    BY DEF Sized, StartedUtt, IsAm, AmFields
  <1> HIDE DEF b
  <1>2. PICK size \in Nat \ {0} : size = a.nAlloc /\ size >= MfcAlloc + pl
    BY DEF Sized, QueueOK
  <1>3. Made(b) = 0
    BY <1>1 DEF Made
  <1>4. QueueOK(b)
    <2>1. 0 \in 0 .. size - 1
      OBVIOUS
    <2>2. Rem(0, size) = 0
      BY <2>1, RemSmall
    <2>3. 0 \in 0 .. size /\ 0 \in Nat
      OBVIOUS
    <2>4. a.featBuf = [q \in 0 .. size - 1 |-> a.featBuf[q]]
      BY <1>2 DEF Sized, QueueOK
    <2>5. QED
      BY <2>2, <2>3, <2>4, <1>1, <1>2 DEF QueueOK
  <1>5. MfcOK(b)
    <2>1. 0 \in 0 .. MfcAlloc /\ 0 \in 0 .. MfcAlloc - 1
      BY MfcSize
    <2>2. QED
      BY <2>1, <1>1, StartFe DEF Sized, MfcOK
  <1>6. Sized(b, pl, tp)
    <2>1. 0 <= size
      OBVIOUS
    <2>2. QED
      BY <2>1, <1>1, <1>2, <1>3, <1>4, <1>5 DEF Sized
  <1>7. Stream(b, <<>>, "empty")
    <2>1. \A f \in 0 .. 0 - 1 : FALSE
      OBVIOUS
    <2>2. FcbOK(b.fcb)
      BY <1>1 DEF Sized
    <2>3. QED
      BY <2>1, <2>2, <1>1, <1>3, <1>4 DEF Stream, Kept, KeptOf, Ring, RingOf
  <1>8. b.nAlloc >= 2 * Win + 1 /\ b.grow \in BOOLEAN
    <2>1. size >= 2 * Win + 1
      BY <1>2, MfcSize, Sizes
    <2>2. QED
      BY <2>1, <1>1, <1>2 DEF Sized
  <1>9. Opening(b, <<>>)
    BY <1>1, <1>3, <1>5, <1>7, <1>8, StartFe DEF Opening, Fresh
  <1>10. QED
    BY <1>1, <1>6, <1>9 DEF b

(* acmod_init() *)
LEMMA AcmodStart ==
  ASSUME NEW pl \in Nat
  PROVE  LET a == AcmodInit(pl)
         IN  /\ IsAm(a) /\ QueueOK(a) /\ FcbOK(a.fcb) /\ MfcOK(a) /\ a.nAlloc = MfcAlloc + pl
             /\ Made(a) = 0 /\ a.output = 0 /\ a.nFeat = 0 /\ a.senscr = -1
  <1> DEFINE a == AcmodInit(pl)
             buf == Resized(<<>>, FeatAlloc(pl))
             mfc == [p \in 0 .. MfcAlloc - 1 |-> NoCep]
  <1>1. PICK size \in Nat \ {0} : size = FeatAlloc(pl) /\ size = MfcAlloc + pl
    <2>1. MfcAlloc + pl \in Nat \ {0}
      BY MfcSize
    <2>2. QED
      BY <2>1 DEF FeatAlloc
  <1>2. buf = [p \in 0 .. size - 1 |-> buf[p]]
    BY <1>1 DEF Resized
  <1>3. mfc = [p \in 0 .. MfcAlloc - 1 |-> mfc[p]]
    OBVIOUS
  <1>4. FcbOK(FcbInit)
    <2>1. BlockSize \in Nat \ {0}
      BY Sizes
    <2>2. 0 \in 0 .. BlockSize - 1
      BY <2>1
    <2> DEFINE buffer == [p \in 0 .. BlockSize - 1 |-> NoCep]
    <2>3. buffer = [p \in 0 .. BlockSize - 1 |-> buffer[p]]
      OBVIOUS
    <2>4. /\ FcbInit = [cepbuf |-> buffer, bufpos |-> 0, curpos |-> 0]
          /\ FcbInit.cepbuf = buffer /\ FcbInit.bufpos = 0 /\ FcbInit.curpos = 0
      BY DEF FcbInit
    <2> HIDE DEF buffer
    <2>5. QED
      BY <2>2, <2>3, <2>4 DEF FcbOK
  <1>5. a = [state |-> "idle", grow |-> FALSE, fe |-> FeStartUtt, fcb |-> FcbInit,
             mfcBuf |-> mfc, nMfc |-> 0, mfcOut |-> 0,
             featBuf |-> buf, nAlloc |-> size,
             nFeat |-> 0, featOut |-> 0, output |-> 0, senscr |-> -1, scores |-> NoFeature]
    BY <1>1 DEF AcmodInit
  <1> HIDE DEF a, buf, mfc
  <1>6. /\ IsAm(a) /\ a.fcb = FcbInit /\ a.mfcBuf = mfc /\ a.nMfc = 0 /\ a.mfcOut = 0 /\ a.fe = FeStartUtt
        /\ a.nFeat = 0 /\ a.featOut = 0 /\ a.output = 0 /\ a.senscr = -1
        /\ a.nAlloc = size /\ a.featBuf = buf
    BY <1>5 DEF IsAm, AmFields
  <1>7. QueueOK(a)
    <2>1. 0 \in 0 .. size - 1 /\ 0 \in 0 .. size /\ 0 \in Nat
      OBVIOUS
    <2>2. Rem(0, size) = 0
      BY <2>1, RemSmall
    <2>3. QED
      BY <2>1, <2>2, <1>2, <1>6 DEF QueueOK
  <1>8. MfcOK(a)
    <2>1. 0 \in 0 .. MfcAlloc /\ 0 \in 0 .. MfcAlloc - 1
      BY MfcSize
    <2>2. QED
      BY <2>1, <1>3, <1>6, StartFe DEF MfcOK
  <1>9. QED
    BY <1>1, <1>4, <1>6, <1>7, <1>8 DEF Made, a

(* The program starts in it. *)
LEMMA InitInv == Init => IInv
  <1> SUFFICES ASSUME Init PROVE IInv
    OBVIOUS
  <1>1. /\ plWindow \in Nat /\ twoPass \in BOOLEAN /\ pc = "idle" /\ mode = "none" /\ utt = 0 /\ fed = 0
        /\ chunk = <<>> /\ ceps = <<>> /\ noSearch = FALSE /\ start = "pending"
        /\ looped = <<>> /\ searched = <<>> /\ again = <<>> /\ am = SetGrow(AcmodInit(plWindow), twoPass)
    BY DecoderAssumption DEF Init
  <1> DEFINE a == AcmodInit(plWindow)
  <1>2. /\ IsAm(a) /\ QueueOK(a) /\ FcbOK(a.fcb) /\ MfcOK(a) /\ a.nAlloc = MfcAlloc + plWindow
        /\ Made(a) = 0 /\ a.output = 0 /\ a.nFeat = 0 /\ a.senscr = -1
    BY <1>1, AcmodStart
  <1>3. am = SetGrow(a, twoPass)
    BY <1>1
  <1> HIDE DEF a
  <1>4. PICK m \in Nat \ {0} : m = MfcAlloc
    BY MfcSize
  <1>5. Made(a) < a.nAlloc /\ a.nAlloc \in Nat
    BY <1>1, <1>2, <1>4
  <1>6. /\ IsAm(am) /\ Keeps(a, am, {"grow", "featBuf", "nAlloc"}) /\ QueueOK(am)
        /\ am.grow = twoPass /\ am.nAlloc >= a.nAlloc /\ Made(am) = Made(a)
    BY <1>1, <1>2, <1>3, <1>5, SetGrowEffect
  <1>7. /\ am.fcb = a.fcb /\ am.mfcBuf = a.mfcBuf /\ am.nMfc = a.nMfc /\ am.mfcOut = a.mfcOut /\ am.fe = a.fe
        /\ am.output = a.output /\ am.senscr = a.senscr /\ am.nFeat = a.nFeat
    BY <1>6 DEF Keeps, AmFields
  <1>8. MfcOK(am) /\ FcbOK(am.fcb)
    BY <1>2, <1>7 DEF MfcOK
  <1>9. Sized(am, plWindow, twoPass)
    <2>1. 0 <= am.nAlloc /\ am.nAlloc >= MfcAlloc + plWindow
      <3>1. am.nAlloc \in Nat
        BY <1>6 DEF QueueOK
      <3>2. QED
        BY <3>1, <1>1, <1>2, <1>4, <1>6
    <2>2. QED
      BY <2>1, <1>1, <1>2, <1>6, <1>8 DEF Sized
  <1>10. Types
    <2>1. Short(mode, plWindow, chunk) /\ IsSeq(<<>>)
      BY <1>1, EmptyIs DEF Short
    <2>2. 0 \in 0 .. MaxUtts
      BY DecoderAssumption
    <2>3. QED
      BY <2>1, <2>2, <1>1 DEF Types, Pcs
  <1>11. Ring(am, ceps, start) /\ Searches(am, ceps, start, pc, plWindow, twoPass, looped, searched, again)
    <2>1. "idle" \notin Ends
      BY DEF Ends
    <2>2. QED
      BY <2>1, <1>1, <1>2, <1>6, <1>7, StartOfSearches
  <1>12. Feeds(am, ceps, start, pc, mode, noSearch, chunk, fed) /\ Flushed(am, ceps, pc, mode, twoPass)
    BY <1>1 DEF Feeds, Flushed
  <1>13. QED
    BY <1>9, <1>10, <1>11, <1>12 DEF IInv

(* ps_start_utt() keeps it. *)
LEMMA StartUttInv == ASSUME IInv, StartUtt PROVE IInv'
  <1>1. /\ plWindow' = plWindow /\ twoPass' = twoPass /\ am' = StartedUtt(am) /\ pc' = "open"
        /\ utt < MaxUtts /\ utt' = utt + 1 /\ mode' \in Modes /\ noSearch' \in BOOLEAN
        /\ chunk' = <<>> /\ fed' = 0 /\ ceps' = <<>> /\ start' = "pending"
        /\ looped' = <<>> /\ searched' = <<>> /\ again' = <<>>
    BY DEF StartUtt, config
  <1>2. plWindow \in Nat /\ twoPass \in BOOLEAN /\ utt \in 0 .. MaxUtts /\ Sized(am, plWindow, twoPass)
    BY DEF IInv, Types
  <1>3. Sized(am', plWindow, twoPass) /\ Opening(am', <<>>) /\ am'.output = 0 /\ am'.nFeat = 0
    BY <1>1, <1>2, StartEffect
  <1>4. Made(am') = 0 /\ am'.senscr = -1
    BY <1>3 DEF Opening, Fresh
  <1>5. Types'
    <2>1. Short(mode', plWindow, <<>>)
      <3>1. Len(<<>>) = 0
        BY EmptyIs
      <3>2. QED
        BY <3>1, MfcSize, Sizes DEF Short
    <2>2. utt + 1 \in 0 .. MaxUtts
      BY <1>1, <1>2, DecoderAssumption
    <2>3. IsSeq(<<>>)
      BY EmptyIs
    <2>4. mode' \in {"none", "raw", "cep", "full"} /\ mode' # "none"
      BY <1>1, DecoderAssumption
    <2>5. QED
      BY <2>1, <2>2, <2>3, <2>4, <1>1, <1>2 DEF Types, Pcs
  <1>6. Ring(am', <<>>, "pending") /\ Searches(am', <<>>, "pending", "open", plWindow, twoPass, <<>>, <<>>, <<>>)
    <2>1. "open" \notin Ends
      BY DEF Ends
    <2>2. QED
      BY <2>1, <1>2, <1>3, <1>4, StartOfSearches
  <1>7. Feeds(am', <<>>, "pending", "open", mode', noSearch', <<>>, 0) /\ Flushed(am', <<>>, "open", mode', twoPass)
    BY <1>3 DEF Feeds, Flushed
  <1>8. QED
    BY <1>1, <1>3, <1>5, <1>6, <1>7 DEF IInv

-----------------------------------------------------------------------------
(* The steps of the searches. *)

(* acmod_score() changes the scores alone. *)
LEMMA ScoreKeeps ==
  ASSUME NEW a, IsAm(a), NEW idx
  PROVE  LET b == AfterScore(a, idx) IN IsAm(b) /\ Keeps(a, b, {"senscr", "scores"})
  <1> DEFINE f == FrameIdx(a, idx)
             x == a.featBuf[FeatIdx(a, f)]
             s == [a EXCEPT !.senscr = f, !.scores = x]
             b == AfterScore(a, idx)
  <1>1. b = a \/ b = s
    BY DEF AfterScore, Score
  <1> HIDE DEF b, f, x
  <1>2. IsAm(s) /\ Keeps(a, s, {"senscr", "scores"})
    BY DEF IsAm, Keeps, AmFields
  <1>3. Keeps(a, a, {"senscr", "scores"})
    BY DEF Keeps
  <1> HIDE DEF s
  <1>4. QED
    BY <1>1, <1>2, <1>3 DEF b

(* Which leaves the queue as it was. *)
LEMMA QueueKept ==
  ASSUME NEW a, QueueOK(a), NEW b, Keeps(a, b, {"senscr", "scores"})
  PROVE  /\ QueueOK(b) /\ Made(b) = Made(a) /\ b.featBuf = a.featBuf /\ b.nAlloc = a.nAlloc
         /\ b.nFeat = a.nFeat /\ b.output = a.output
         /\ \A cs, st : Ring(a, cs, st) => Ring(b, cs, st)
  <1>1. /\ b.featBuf = a.featBuf /\ b.nAlloc = a.nAlloc /\ b.nFeat = a.nFeat /\ b.output = a.output
        /\ b.featOut = a.featOut
    BY DEF Keeps, AmFields
  <1>2. Made(b) = Made(a)
    BY <1>1 DEF Made
  <1>3. QED
    BY <1>1, <1>2 DEF QueueOK, Ring

(* Two changes of the same fields are one. *)
LEMMA KeepsTwice ==
  ASSUME NEW a, NEW b, NEW c, NEW changed, Keeps(a, b, changed), Keeps(b, c, changed)
  PROVE  Keeps(a, c, changed)
  BY DEF Keeps

(* A search scores a frame that is still in the buffer. *)
MayScore(a, cs, st, f, idx, seen, tp) ==
  /\ IsAm(a) /\ QueueOK(a) /\ Ring(a, cs, st) /\ Kept(a, cs, st)
  /\ f < Made(a) /\ Made(a) <= f + a.nAlloc /\ FrameIdx(a, idx) = f
  /\ Entries(seen, Made(a), cs, st)
  /\ (tp = TRUE => Made(a) <= a.nAlloc /\ ScoresFromBuf(a))

(* What it is afterwards. *)
HasScored(a, b, cs, st, f, seen, more, tp) ==
  /\ IsAm(b) /\ Keeps(a, b, {"senscr", "scores"}) /\ QueueOK(b) /\ Kept(b, cs, st)
  /\ Ring(b, cs, st) /\ Made(b) = Made(a) /\ b.featBuf = a.featBuf /\ b.nAlloc = a.nAlloc
  /\ b.nFeat = a.nFeat /\ b.output = a.output
  /\ Entries(more, Made(a), cs, st) /\ Len(more) = Len(seen) + 1
  /\ (InOrder(seen) /\ f = Len(seen) => InOrder(more))
  /\ (tp = TRUE => ScoresFromBuf(b))
  /\ (tp = TRUE /\ FromBuf(seen, a.featBuf) /\ f = Len(seen) => FromBuf(more, a.featBuf))

(* A step of a search scores its frame from its window. *)
LEMMA OneScore ==
  ASSUME NEW a, NEW cs, NEW st, NEW f \in Nat, NEW idx, NEW seen, NEW tp,
         MayScore(a, cs, st, f, idx, seen, tp)
  PROVE  HasScored(a, AfterScore(a, idx), cs, st, f, seen, Scored(a, idx, seen), tp)
  <1>0. /\ IsAm(a) /\ QueueOK(a) /\ Ring(a, cs, st) /\ Kept(a, cs, st)
        /\ f < Made(a) /\ Made(a) <= f + a.nAlloc /\ FrameIdx(a, idx) = f
        /\ Entries(seen, Made(a), cs, st)
        /\ (tp = TRUE => Made(a) <= a.nAlloc /\ ScoresFromBuf(a))
    BY DEF MayScore
  <1> DEFINE b == AfterScore(a, idx)
             more == Scored(a, idx, seen)
             x == Score(a, compallsen, idx).scores
  <1>1. /\ CanScore(a, compallsen, idx) /\ b = Score(a, compallsen, idx)
        /\ IsAm(b) /\ Keeps(a, b, {"senscr", "scores"}) /\ Kept(b, cs, st)
        /\ Fits(b.scores, cs, st, f)
        /\ (Made(a) <= a.nAlloc /\ ScoresFromBuf(a)) => (b.scores = a.featBuf[f] /\ ScoresFromBuf(b))
    BY <1>0, ScoreEffect
  <1> HIDE DEF b
  <1>2. x = b.scores /\ Fits(x, cs, st, f)
    BY <1>1
  <1>3. /\ QueueOK(b) /\ Made(b) = Made(a) /\ b.featBuf = a.featBuf /\ b.nAlloc = a.nAlloc
        /\ b.nFeat = a.nFeat /\ b.output = a.output /\ Ring(b, cs, st)
    BY <1>0, <1>1, QueueKept
  <1>4. PICK made \in Nat : made = Made(a) /\ f < made
    BY <1>0 DEF QueueOK, Made
  <1>5. /\ Entries(more, made, cs, st) /\ Len(more) = Len(seen) + 1
        /\ (InOrder(seen) /\ f = Len(seen) => InOrder(more))
        /\ \A buf : FromBuf(seen, buf) /\ f = Len(seen) /\ x = buf[f] => FromBuf(more, buf)
    <2>1. Entries(seen, made, cs, st)
      BY <1>0, <1>4
    <2>2. ScoresOne(a, idx, f, made, cs, st, x, seen, more)
      BY <2>1, <1>0, <1>1, <1>2, <1>4 DEF ScoresOne
    <2> HIDE DEF x, more
    <2>3. QED
      BY <2>2, ScoredEffect
  <1> HIDE DEF more, x
  <1>6. tp = TRUE => ScoresFromBuf(b) /\ x = a.featBuf[f]
    BY <1>0, <1>1, <1>2
  <1>7. QED
    BY <1>1, <1>3, <1>4, <1>5, <1>6 DEF b, more, HasScored

(* ps_search_forward() *)
LEMMA ForwardEffect ==
  ASSUME IInv, Forward
  PROVE  /\ IsAm(am') /\ QueueOK(am') /\ Keeps(am, am', Scoring) /\ Made(am') = Made(am)
         /\ am'.nFeat = am.nFeat - 1 /\ am'.output = am.output + 1 /\ Kept(am', ceps, start)
         /\ Seen(am', ceps, start, twoPass, looped', searched', again)
         /\ Len(searched') = Positive(am'.output - plWindow) /\ Len(again) = 0
  <1>1. /\ pc \in {"forward", "flush"} /\ am.nFeat > 0
        /\ looped' = IF plWindow > 0 THEN Scored(am, am.output, looped) ELSE looped
        /\ IF am.output >= plWindow
           THEN /\ searched' = Scored(AfterLoop, am.output - plWindow, searched)
                /\ am' = Advance(AfterScore(AfterLoop, am.output - plWindow))
           ELSE am' = Advance(AfterLoop) /\ searched' = searched
    BY DEF Forward
  <1>2. /\ plWindow \in Nat /\ twoPass \in BOOLEAN /\ Sized(am, plWindow, twoPass) /\ Ring(am, ceps, start)
        /\ Searches(am, ceps, start, pc, plWindow, twoPass, looped, searched, again)
    BY DEF IInv, Types
  <1>3. /\ Kept(am, ceps, start) /\ Seen(am, ceps, start, twoPass, looped, searched, again)
        /\ Len(searched) = Positive(am.output - plWindow) /\ Len(again) = 0
    <2>1. pc \notin Ends /\ ~ (pc = "again" \/ (pc = "done" /\ twoPass = TRUE))
      BY <1>1 DEF Ends
    <2>2. QED
      BY <2>1, <1>2 DEF Searches, Sound
  <1>4. PICK size \in Nat \ {0}, out \in Nat, queued \in Nat, made \in Nat, pl \in Nat :
          /\ size = am.nAlloc /\ out = am.output /\ queued = am.nFeat /\ queued <= size /\ queued > 0
          /\ made = Made(am) /\ made = out + queued /\ pl = plWindow
          /\ (made <= size \/ queued + pl <= size)
    BY <1>1, <1>2 DEF Sized, QueueOK, Made
  <1>5. IsAm(am) /\ QueueOK(am) /\ (twoPass = TRUE => Made(am) <= am.nAlloc)
    BY <1>2 DEF Sized
  <1>6. /\ Entries(looped, Made(am), ceps, start) /\ Entries(searched, Made(am), ceps, start)
        /\ Entries(again, Made(am), ceps, start) /\ InOrder(searched) /\ InOrder(again)
        /\ (twoPass = TRUE => /\ FromBuf(searched, am.featBuf) /\ FromBuf(again, am.featBuf)
                              /\ ScoresFromBuf(am))
    BY <1>3 DEF Seen
  <1> DEFINE b == AfterLoop
  <1>7. /\ IsAm(b) /\ Keeps(am, b, {"senscr", "scores"}) /\ QueueOK(b) /\ Kept(b, ceps, start)
        /\ Ring(b, ceps, start) /\ Made(b) = Made(am) /\ b.featBuf = am.featBuf /\ b.nAlloc = am.nAlloc
        /\ b.nFeat = am.nFeat /\ b.output = am.output
        /\ Entries(looped', Made(am), ceps, start)
        /\ (twoPass = TRUE => ScoresFromBuf(b))
    <2>1. CASE plWindow > 0
      <3>1. b = AfterScore(am, out) /\ looped' = Scored(am, out, looped)
        BY <2>1, <1>1, <1>4 DEF AfterLoop
      <3>2. FrameIdx(am, out) = out
        BY DEF FrameIdx
      <3>3. out < Made(am) /\ Made(am) <= out + am.nAlloc
        BY <1>4
      <3> HIDE DEF b
      <3>4. MayScore(am, ceps, start, out, out, looped, twoPass)
        BY <3>2, <3>3, <1>2, <1>3, <1>5, <1>6 DEF MayScore
      <3>5. HasScored(am, b, ceps, start, out, looped, looped', twoPass)
        BY <3>1, <3>4, OneScore
      <3>6. QED
        BY <3>5 DEF HasScored
    <2>2. CASE ~ (plWindow > 0)
      <3>1. b = am /\ looped' = looped
        BY <2>2, <1>1 DEF AfterLoop
      <3> HIDE DEF b
      <3>2. Keeps(am, am, {"senscr", "scores"})
        BY DEF Keeps
      <3>3. QED
        BY <3>1, <3>2, <1>2, <1>3, <1>5, <1>6
    <2>3. QED
      BY <2>1, <2>2
  <1>8. PICK c : /\ am' = Advance(c)
                 /\ IsAm(c) /\ Keeps(am, c, {"senscr", "scores"}) /\ QueueOK(c) /\ Kept(c, ceps, start)
                 /\ Made(c) = Made(am) /\ c.featBuf = am.featBuf /\ c.nFeat = am.nFeat /\ c.output = am.output
                 /\ Entries(searched', Made(am), ceps, start) /\ InOrder(searched')
                 /\ (twoPass = TRUE => ScoresFromBuf(c) /\ FromBuf(searched', am.featBuf))
                 /\ Len(searched') = Positive(out + 1 - pl)
    <2>1. CASE out >= pl
      <3>1. PICK f \in Nat : f = out - pl
        BY <2>1
      <3> DEFINE c == AfterScore(b, f)
      <3>2. am' = Advance(c) /\ searched' = Scored(b, f, searched)
        BY <3>1, <2>1, <1>1, <1>4
      <3>3. FrameIdx(b, f) = f
        BY DEF FrameIdx
      <3>4. f < Made(b) /\ Made(b) <= f + b.nAlloc
        <4>1. Made(b) = made /\ b.nAlloc = size
          BY <1>4, <1>7
        <4>2. f < made /\ made <= f + size
          BY <3>1, <1>4
        <4>3. QED
          BY ONLY <4>1, <4>2
      <3>5. f = Len(searched) /\ Positive(out + 1 - pl) = f + 1
        BY <3>1, <1>3, <1>4, PositiveIs
      <3>6. Entries(searched, Made(b), ceps, start) /\ (twoPass = TRUE => Made(b) <= b.nAlloc /\ ScoresFromBuf(b))
        BY <1>5, <1>6, <1>7
      <3> HIDE DEF b
      <3>t. MayScore(b, ceps, start, f, f, searched, twoPass)
        BY <3>3, <3>4, <3>6, <1>7 DEF MayScore
      <3>s. HasScored(b, c, ceps, start, f, searched, searched', twoPass)
        BY <3>2, <3>t, OneScore
      <3>7. /\ IsAm(c) /\ Keeps(b, c, {"senscr", "scores"}) /\ QueueOK(c) /\ Kept(c, ceps, start)
            /\ Made(c) = Made(b) /\ c.featBuf = b.featBuf /\ c.nFeat = b.nFeat /\ c.output = b.output
            /\ Entries(searched', Made(b), ceps, start) /\ Len(searched') = Len(searched) + 1
            /\ (InOrder(searched) /\ f = Len(searched) => InOrder(searched'))
            /\ (twoPass = TRUE => ScoresFromBuf(c))
            /\ (twoPass = TRUE /\ FromBuf(searched, b.featBuf) /\ f = Len(searched) => FromBuf(searched', b.featBuf))
        BY <3>s DEF HasScored
      <3> HIDE DEF c
      <3>8. Keeps(am, c, {"senscr", "scores"})
        BY <3>7, <1>7, KeepsTwice
      <3>9. Len(searched') = Positive(out + 1 - pl) /\ InOrder(searched')
        BY <3>5, <3>7, <1>6
      <3>10. QED
        BY <3>2, <3>5, <3>7, <3>8, <3>9, <1>6, <1>7
    <2>2. CASE ~ (out >= pl)
      <3>1. am' = Advance(b) /\ searched' = searched
        BY <2>2, <1>1, <1>4
      <3> HIDE DEF b
      <3>2. Len(searched') = Positive(out + 1 - pl)
        <4>1. out - pl < 0 /\ out + 1 - pl <= 0
          BY <2>2
        <4>2. Positive(out - pl) = 0 /\ Positive(out + 1 - pl) = 0
          BY <4>1, PositiveIs
        <4>3. Len(searched) = Positive(out - pl)
          BY <1>3, <1>4
        <4>4. QED
          BY <3>1, <4>2, <4>3
      <3>3. QED
        BY <3>1, <3>2, <1>6, <1>7
    <2>3. QED
      BY <2>1, <2>2
  <1> HIDE DEF b
  <1>9. c.nFeat > 0
    BY <1>4, <1>8
  <1>10. /\ IsAm(am') /\ Keeps(c, am', {"featOut", "nFeat", "output"}) /\ QueueOK(am')
         /\ Made(am') = Made(c) /\ am'.output = c.output + 1 /\ am'.nFeat = c.nFeat - 1
    BY <1>8, <1>9, AdvanceEffect
  <1>11. Keeps(am, am', Scoring)
    BY <1>8, <1>10 DEF Keeps, Scoring
  <1>12. am'.senscr = c.senscr /\ am'.scores = c.scores /\ am'.featBuf = c.featBuf
    BY <1>10 DEF Keeps, AmFields
  <1>13. Kept(am', ceps, start) /\ (twoPass = TRUE => ScoresFromBuf(am'))
    BY <1>8, <1>10, <1>12 DEF Kept, ScoresFromBuf
  <1>14. Seen(am', ceps, start, twoPass, looped', searched', again)
    BY <1>6, <1>7, <1>8, <1>10, <1>12, <1>13 DEF Seen
  <1>15. am'.output = out + 1 /\ plWindow = pl
    BY <1>4, <1>8, <1>10
  <1>16. QED
    BY <1>3, <1>8, <1>10, <1>11, <1>13, <1>14, <1>15

(* A round of ps_search_forward() keeps the invariant, ... *)
LEMMA ForwardInv == ASSUME IInv, Forward PROVE IInv'
  <1>1. /\ plWindow' = plWindow /\ twoPass' = twoPass /\ pc' = pc /\ mode' = mode /\ noSearch' = noSearch
        /\ utt' = utt /\ chunk' = chunk /\ fed' = fed /\ ceps' = ceps /\ start' = start /\ again' = again
        /\ pc \in {"forward", "flush"}
    BY DEF Forward, config, source, input
  <1>2. /\ Types /\ Sized(am, plWindow, twoPass) /\ Ring(am, ceps, start)
        /\ Feeds(am, ceps, start, pc, mode, noSearch, chunk, fed)
        /\ Flushed(am, ceps, pc, mode, twoPass)
    BY DEF IInv
  <1>3. /\ IsAm(am') /\ QueueOK(am') /\ Keeps(am, am', Scoring) /\ Made(am') = Made(am)
        /\ am'.nFeat = am.nFeat - 1 /\ am'.output = am.output + 1 /\ Kept(am', ceps, start)
        /\ Seen(am', ceps, start, twoPass, looped', searched', again)
        /\ Len(searched') = Positive(am'.output - plWindow) /\ Len(again) = 0
    BY ForwardEffect
  <1>4. am'.nFeat <= am.nFeat
    <2>1. am.nFeat \in Int
      BY <1>2 DEF Sized, QueueOK
    <2>2. QED
      BY <2>1, <1>3
  <1>5. plWindow \in Nat
    BY <1>2 DEF Types
  <1>6. /\ \A cs, st : Ring(am, cs, st) => Ring(am', cs, st)
        /\ \A cs, st : Steady(am, cs, st) /\ Kept(am', cs, st) => Steady(am', cs, st)
        /\ \A cs, st : Stream(am, cs, st) /\ Kept(am', cs, st) => Stream(am', cs, st)
        /\ MfcOK(am) => MfcOK(am')
        /\ am'.nMfc = am.nMfc /\ am'.mfcOut = am.mfcOut /\ am'.fe = am.fe /\ am'.nAlloc = am.nAlloc
        /\ am'.grow = am.grow /\ am'.featBuf = am.featBuf
        /\ \A pl \in Nat : \A tp : Sized(am, pl, tp) /\ am'.nFeat <= am.nFeat => Sized(am', pl, tp)
    BY <1>3, ScoringKeeps
  <1>7. Sized(am', plWindow, twoPass) /\ Ring(am', ceps, start)
    BY <1>2, <1>4, <1>5, <1>6
  <1>8. Feeds(am', ceps, start, pc, mode, noSearch, chunk, fed)
    <2>1. CASE pc = "forward"
      <3>1. /\ start # "pending" /\ noSearch # TRUE /\ fed > 0
            /\ (mode # "full" => Steady(am, ceps, start) /\ am.nMfc = 0)
            /\ (mode = "full" => Whole(am, ceps, start, chunk, fed))
        BY <2>1, <1>2 DEF Feeds
      <3>2. mode # "full" => Steady(am', ceps, start) /\ am'.nMfc = 0
        BY <3>1, <1>3, <1>6
      <3>3. mode = "full" => Whole(am', ceps, start, chunk, fed)
        BY <3>1, <1>3, <1>6 DEF Whole
      <3>4. QED
        BY <2>1, <3>1, <3>2, <3>3 DEF Feeds
    <2>2. CASE pc = "flush"
      BY <2>2 DEF Feeds
    <2>3. QED
      BY <2>1, <2>2, <1>1
  <1>9. Flushed(am', ceps, pc, mode, twoPass)
    BY <1>1, <1>2, <1>3 DEF Flushed
  <1>10. Searches(am', ceps, start, pc, plWindow, twoPass, looped', searched', again)
    <2>1. pc \notin Ends /\ pc # "again" /\ pc # "done"
      BY <1>1 DEF Ends
    <2>2. QED
      BY <2>1, <1>3 DEF Searches
  <1>11. Types'
    BY <1>1, <1>2 DEF Types
  <1>12. QED
    BY <1>1, <1>7, <1>8, <1>9, <1>10, <1>11 DEF IInv

(* ... and its end, ... *)
LEMMA ForwardDoneInv == ASSUME IInv, ForwardDone PROVE IInv'
  <1>1. /\ plWindow' = plWindow /\ twoPass' = twoPass /\ am' = am /\ mode' = mode /\ noSearch' = noSearch
        /\ utt' = utt /\ chunk' = chunk /\ fed' = fed /\ ceps' = ceps /\ start' = start /\ again' = again
        /\ looped' = looped /\ searched' = searched
        /\ pc = "forward" /\ am.nFeat = 0 /\ pc' = "process"
    BY DEF ForwardDone, config, source, input, history
  <1>2. /\ Types /\ Sized(am, plWindow, twoPass) /\ Ring(am, ceps, start)
        /\ Feeds(am, ceps, start, pc, mode, noSearch, chunk, fed)
        /\ Searches(am, ceps, start, pc, plWindow, twoPass, looped, searched, again)
    BY DEF IInv
  <1>3. Feeds(am, ceps, start, "process", mode, noSearch, chunk, fed)
    BY <1>1, <1>2 DEF Feeds, Types
  <1>4. Searches(am, ceps, start, "process", plWindow, twoPass, looped, searched, again)
    BY <1>1, <1>2 DEF Searches, Sound, Ends
  <1>5. Flushed(am, ceps, "process", mode, twoPass)
    BY DEF Flushed
  <1>6. Types'
    BY <1>1, <1>2 DEF Types, Pcs
  <1>7. QED
    BY <1>1, <1>2, <1>3, <1>4, <1>5, <1>6 DEF IInv

(* ... and that of the call. *)
LEMMA ProcessDoneInv == ASSUME IInv, ProcessDone PROVE IInv'
  <1>1. /\ plWindow' = plWindow /\ twoPass' = twoPass /\ am' = am /\ mode' = mode /\ noSearch' = noSearch
        /\ utt' = utt /\ chunk' = chunk /\ fed' = fed /\ ceps' = ceps /\ start' = start /\ again' = again
        /\ looped' = looped /\ searched' = searched
        /\ pc = "process" /\ pc' = "open"
    BY DEF ProcessDone, config, source, input, history
  <1>2. /\ Types /\ Sized(am, plWindow, twoPass) /\ Ring(am, ceps, start)
        /\ Feeds(am, ceps, start, pc, mode, noSearch, chunk, fed)
        /\ Searches(am, ceps, start, pc, plWindow, twoPass, looped, searched, again)
    BY DEF IInv
  <1>3. Feeds(am, ceps, start, "open", mode, noSearch, chunk, fed)
    BY <1>1, <1>2 DEF Feeds
  <1>4. Searches(am, ceps, start, "open", plWindow, twoPass, looped, searched, again)
    BY <1>1, <1>2 DEF Searches, Sound, Ends
  <1>5. Flushed(am, ceps, "open", mode, twoPass)
    BY DEF Flushed
  <1>6. Types'
    BY <1>1, <1>2 DEF Types, Pcs
  <1>7. QED
    BY <1>1, <1>2, <1>3, <1>4, <1>5, <1>6 DEF IInv

(* acmod_rewind() of a buffer that has everything. *)
LEMMA RewindEffect ==
  ASSUME NEW a, NEW pl \in Nat, NEW tp, tp = TRUE, Sized(a, pl, tp)
  PROVE  LET b == Rewind(a)
         IN  /\ CanRewind(a) /\ Sized(b, pl, tp) /\ Made(b) = Made(a) /\ b.output = 0 /\ b.senscr = -1
             /\ b.featBuf = a.featBuf /\ \A cs, st : Ring(a, cs, st) => Ring(b, cs, st)
  <1>1. PICK size \in Nat \ {0}, out \in Nat, queued \in Nat, made \in Nat :
          /\ size = a.nAlloc /\ out = a.output /\ queued = a.nFeat
          /\ made = Made(a) /\ made = out + queued /\ made <= size
    BY DEF Sized, QueueOK, Made
  <1> DEFINE b == Rewind(a)
  <1>2. b = [a EXCEPT !.nFeat = made, !.featOut = 0, !.output = 0, !.senscr = -1]
    BY <1>1 DEF Rewind
  <1> HIDE DEF b
  <1>3. /\ IsAm(b) /\ b.nFeat = made /\ b.featOut = 0 /\ b.output = 0 /\ b.senscr = -1
        /\ b.featBuf = a.featBuf /\ b.nAlloc = size /\ b.fcb = a.fcb /\ b.grow = a.grow
        /\ b.mfcBuf = a.mfcBuf /\ b.nMfc = a.nMfc /\ b.mfcOut = a.mfcOut /\ b.fe = a.fe
    BY <1>1, <1>2 DEF Sized, IsAm, AmFields
  <1>4. Made(b) = made
    BY <1>3 DEF Made
  <1>5. QueueOK(b)
    <2>1. 0 \in 0 .. size - 1 /\ made \in 0 .. size /\ 0 \in Nat
      BY <1>1
    <2>2. Rem(0, size) = 0
      BY <2>1, RemSmall
    <2>3. a.featBuf = [p \in 0 .. size - 1 |-> a.featBuf[p]]
      BY <1>1 DEF Sized, QueueOK
    <2>4. QED
      BY <2>1, <2>2, <2>3, <1>3 DEF QueueOK
  <1>6. Sized(b, pl, tp)
    BY <1>1, <1>3, <1>4, <1>5 DEF Sized, MfcOK
  <1>7. CanRewind(a)
    BY <1>1 DEF CanRewind
  <1>8. \A cs, st : Ring(a, cs, st) => Ring(b, cs, st)
    BY <1>1, <1>3, <1>4 DEF Ring
  <1>9. QED
    BY <1>1, <1>3, <1>4, <1>6, <1>7, <1>8 DEF b

(* ngram_search_finish() keeps the invariant. *)
LEMMA FinishInv == ASSUME IInv, Finish PROVE IInv'
  <1>1. /\ plWindow' = plWindow /\ twoPass' = twoPass /\ mode' = mode /\ noSearch' = noSearch
        /\ utt' = utt /\ chunk' = chunk /\ fed' = fed /\ ceps' = ceps /\ start' = start /\ again' = again
        /\ looped' = looped /\ searched' = searched /\ pc = "finish"
    BY DEF Finish, config, source, input, history
  <1>2. /\ Types /\ Sized(am, plWindow, twoPass) /\ Ring(am, ceps, start)
        /\ Flushed(am, ceps, pc, mode, twoPass)
        /\ Searches(am, ceps, start, pc, plWindow, twoPass, looped, searched, again)
        /\ plWindow \in Nat /\ twoPass \in BOOLEAN
    BY DEF IInv, Types
  <1>3. CASE twoPass = TRUE
    <2>1. /\ CanRewind(am) /\ Sized(Rewind(am), plWindow, twoPass) /\ Made(Rewind(am)) = Made(am)
          /\ Rewind(am).output = 0 /\ Rewind(am).senscr = -1
          /\ Rewind(am).featBuf = am.featBuf /\ \A cs, st : Ring(am, cs, st) => Ring(Rewind(am), cs, st)
      BY <1>2, <1>3, RewindEffect
    <2>2. am' = Rewind(am) /\ pc' = "again"
      BY <1>3, <2>1 DEF Finish
    <2>3. /\ Sized(am', plWindow, twoPass) /\ Made(am') = Made(am) /\ am'.output = 0 /\ am'.senscr = -1
          /\ am'.featBuf = am.featBuf /\ Ring(am', ceps, start)
      BY <2>1, <2>2, <1>2
    <2>4. Feeds(am', ceps, start, "again", mode, noSearch, chunk, fed)
      BY DEF Feeds
    <2>5. Flushed(am', ceps, "again", mode, twoPass)
      BY <2>3, <1>1, <1>2, <1>3 DEF Flushed
    <2>6. Searches(am', ceps, start, "again", plWindow, twoPass, looped, searched, again)
      <3>1. ASSUME Sound(am', "again", plWindow)
            PROVE  /\ Kept(am', ceps, start) /\ Seen(am', ceps, start, twoPass, looped, searched, again)
                   /\ Len(searched) = Made(am') /\ Len(again) = 0
        <4>1. Sound(am, pc, plWindow)
          BY <3>1, <2>3, <1>1 DEF Sound, Ends
        <4>2. /\ Seen(am, ceps, start, twoPass, looped, searched, again)
              /\ Len(searched) = Made(am) /\ Len(again) = 0
          BY <4>1, <1>1, <1>2 DEF Searches, Ends
        <4>3. Seen(am', ceps, start, twoPass, looped, searched, again)
          BY <4>2, <2>3 DEF Seen, ScoresFromBuf
        <4>4. Kept(am', ceps, start)
          BY <2>3 DEF Kept, KeptOf
        <4>5. QED
          BY <4>2, <4>3, <4>4, <2>3
      <3>2. QED
        BY <3>1, <2>3 DEF Searches, Ends
    <2>7. Types'
      BY <1>1, <1>2, <2>2 DEF Types, Pcs
    <2>8. QED
      BY <1>1, <2>2, <2>3, <2>4, <2>5, <2>6, <2>7 DEF IInv
  <1>4. CASE twoPass = FALSE
    <2>1. am' = am /\ pc' = "done"
      BY <1>4 DEF Finish
    <2>2. Feeds(am, ceps, start, "done", mode, noSearch, chunk, fed)
      BY DEF Feeds
    <2>3. Flushed(am, ceps, "done", mode, twoPass)
      BY <1>1, <1>2 DEF Flushed
    <2>4. Searches(am, ceps, start, "done", plWindow, twoPass, looped, searched, again)
      BY <1>1, <1>2, <1>4 DEF Searches, Sound, Ends
    <2>5. Types'
      BY <1>1, <1>2, <2>1 DEF Types, Pcs
    <2>6. QED
      BY <1>1, <1>2, <2>1, <2>2, <2>3, <2>4, <2>5 DEF IInv
  <1>5. QED
    BY <1>2, <1>3, <1>4

(* So does the end of the second pass. *)
LEMMA SecondPassDoneInv == ASSUME IInv, SecondPassDone PROVE IInv'
  <1>1. /\ plWindow' = plWindow /\ twoPass' = twoPass /\ am' = am /\ mode' = mode /\ noSearch' = noSearch
        /\ utt' = utt /\ chunk' = chunk /\ fed' = fed /\ ceps' = ceps /\ start' = start /\ again' = again
        /\ looped' = looped /\ searched' = searched
        /\ pc = "again" /\ am.nFeat = 0 /\ pc' = "done"
    BY DEF SecondPassDone, config, source, input, history
  <1>2. /\ Types /\ Sized(am, plWindow, twoPass) /\ Ring(am, ceps, start)
        /\ Flushed(am, ceps, pc, mode, twoPass)
        /\ Searches(am, ceps, start, pc, plWindow, twoPass, looped, searched, again)
    BY DEF IInv
  <1>3. Feeds(am, ceps, start, "done", mode, noSearch, chunk, fed)
    BY DEF Feeds
  <1>4. Searches(am, ceps, start, "done", plWindow, twoPass, looped, searched, again)
    BY <1>1, <1>2 DEF Searches, Sound, Ends, Flushed
  <1>5. Flushed(am, ceps, "done", mode, twoPass)
    BY <1>1, <1>2 DEF Flushed
  <1>6. Types'
    BY <1>1, <1>2 DEF Types, Pcs
  <1>7. QED
    BY <1>1, <1>2, <1>3, <1>4, <1>5, <1>6 DEF IInv

(* acmod_advance() after a frame was scored. *)
LEMMA AdvanceAfter ==
  ASSUME NEW a, NEW pl \in Nat, NEW tp, Sized(a, pl, tp), a.nFeat > 0,
         NEW c, IsAm(c), Keeps(a, c, {"senscr", "scores"})
  PROVE  LET b == Advance(c)
         IN  /\ Sized(b, pl, tp) /\ Made(b) = Made(a) /\ b.output = a.output + 1
             /\ b.senscr = c.senscr /\ b.scores = c.scores /\ b.featBuf = a.featBuf
             /\ \A cs, st : Ring(a, cs, st) => Ring(b, cs, st)
  <1> DEFINE b == Advance(c)
  <1>1. QueueOK(a) /\ IsAm(a)
    BY DEF Sized
  <1>2. QueueOK(c) /\ Made(c) = Made(a) /\ c.featBuf = a.featBuf /\ c.nFeat = a.nFeat /\ c.output = a.output
    BY <1>1, QueueKept
  <1>3. c.nFeat > 0
    BY <1>2
  <1>4. /\ IsAm(b) /\ Keeps(c, b, {"featOut", "nFeat", "output"}) /\ QueueOK(b)
        /\ Made(b) = Made(c) /\ b.output = c.output + 1 /\ b.nFeat = c.nFeat - 1
    BY <1>2, <1>3, AdvanceEffect
  <1> HIDE DEF b
  <1>5. Keeps(a, b, Scoring)
    BY <1>4 DEF Keeps, Scoring
  <1>6. b.senscr = c.senscr /\ b.scores = c.scores
    BY <1>4 DEF Keeps, AmFields
  <1>7. b.nFeat <= a.nFeat
    <2>1. a.nFeat \in Int
      BY <1>1 DEF QueueOK
    <2>2. QED
      BY <2>1, <1>2, <1>4
  <1>8. Made(b) = Made(a)
    BY <1>2, <1>4
  <1>9. /\ \A cs, st : Ring(a, cs, st) => Ring(b, cs, st)
        /\ b.featBuf = a.featBuf
        /\ \A p \in Nat : \A t : Sized(a, p, t) /\ b.nFeat <= a.nFeat => Sized(b, p, t)
    BY <1>4, <1>5, <1>8, ScoringKeeps
  <1>10. Sized(b, pl, tp)
    BY <1>7, <1>9
  <1>11. QED
    BY <1>2, <1>4, <1>6, <1>8, <1>9, <1>10 DEF b

(* A frame of the second pass keeps the invariant. *)
LEMMA SecondPassInv == ASSUME IInv, SecondPass PROVE IInv'
  <1>1. /\ plWindow' = plWindow /\ twoPass' = twoPass /\ mode' = mode /\ noSearch' = noSearch
        /\ utt' = utt /\ chunk' = chunk /\ fed' = fed /\ ceps' = ceps /\ start' = start
        /\ looped' = looped /\ searched' = searched
        /\ pc = "again" /\ pc' = "again" /\ am.nFeat > 0
        /\ again' = Scored(am, Len(again), again) /\ am' = Advance(AfterScore(am, Len(again)))
    BY DEF SecondPass, config, source, input
  <1>2. /\ Types /\ Sized(am, plWindow, twoPass) /\ Ring(am, ceps, start)
        /\ Flushed(am, ceps, pc, mode, twoPass)
        /\ Searches(am, ceps, start, pc, plWindow, twoPass, looped, searched, again)
        /\ plWindow \in Nat /\ twoPass = TRUE
    BY <1>1 DEF IInv, Types, Flushed
  <1> DEFINE c == AfterScore(am, Len(again))
  <1>3. IsAm(am) /\ IsAm(c) /\ Keeps(am, c, {"senscr", "scores"})
    BY <1>2, ScoreKeeps DEF Sized
  <1>4. am' = Advance(c)
    BY <1>1
  <1> HIDE DEF c
  <1>5. /\ Sized(am', plWindow, twoPass) /\ Made(am') = Made(am) /\ am'.output = am.output + 1
        /\ am'.senscr = c.senscr /\ am'.scores = c.scores /\ am'.featBuf = am.featBuf
        /\ Ring(am', ceps, start)
    <2> DEFINE b == Advance(c)
    <2>1. /\ Sized(b, plWindow, twoPass) /\ Made(b) = Made(am) /\ b.output = am.output + 1
          /\ b.senscr = c.senscr /\ b.scores = c.scores /\ b.featBuf = am.featBuf
          /\ \A cs, st : Ring(am, cs, st) => Ring(b, cs, st)
      <3>1. plWindow \in Nat /\ Sized(am, plWindow, twoPass) /\ am.nFeat > 0
        BY <1>1, <1>2
      <3>2. QED
        BY ONLY <3>1, <1>3, AdvanceAfter
    <2> HIDE DEF b
    <2>2. am' = b
      BY <1>4 DEF b
    <2>3. QED
      BY <2>1, <2>2, <1>2
  <1>6. Feeds(am', ceps, start, "again", mode, noSearch, chunk, fed)
    BY DEF Feeds
  <1>7. Flushed(am', ceps, "again", mode, twoPass)
    BY <1>1, <1>2, <1>5 DEF Flushed
  <1>8. Searches(am', ceps, start, "again", plWindow, twoPass, looped, searched, again')
    <2> SUFFICES ASSUME Sound(am', "again", plWindow)
                 PROVE  /\ Kept(am', ceps, start) /\ Seen(am', ceps, start, twoPass, looped, searched, again')
                        /\ Len(searched) = Made(am') /\ Len(again') = am'.output
      BY DEF Searches, Ends
    <2>1. Sound(am, pc, plWindow)
      BY <1>1, <1>5 DEF Sound, Ends
    <2>2. /\ Seen(am, ceps, start, twoPass, looped, searched, again) /\ Kept(am, ceps, start)
          /\ Len(searched) = Made(am) /\ Len(again) = am.output
      BY <2>1, <1>1, <1>2 DEF Searches, Ends
    <2>3. PICK f \in Nat, queued \in Nat, size \in Nat :
             /\ f = am.output /\ queued = am.nFeat /\ size = am.nAlloc /\ queued > 0 /\ queued <= size
             /\ Made(am) = f + queued /\ Made(am) <= size
      BY <1>1, <1>2 DEF Sized, QueueOK, Made
    <2>4. FrameIdx(am, f) = f /\ f < Made(am) /\ Made(am) <= f + am.nAlloc /\ f = Len(again)
      <3>1. f < f + queued /\ f + queued <= f + size
        BY <2>3
      <3>2. FrameIdx(am, f) = f
        BY DEF FrameIdx
      <3>3. QED
        BY <3>1, <3>2, <2>2, <2>3
    <2>5. /\ Entries(looped, Made(am), ceps, start) /\ Entries(searched, Made(am), ceps, start)
          /\ Entries(again, Made(am), ceps, start) /\ InOrder(searched) /\ InOrder(again)
          /\ FromBuf(searched, am.featBuf) /\ FromBuf(again, am.featBuf)
          /\ ScoresFromBuf(am)
      BY <2>2, <1>2 DEF Seen
    <2>6. MayScore(am, ceps, start, f, f, again, twoPass)
      BY <2>2, <2>3, <2>4, <2>5, <1>2, <1>3 DEF MayScore, Sized
    <2>7. HasScored(am, AfterScore(am, f), ceps, start, f, again, Scored(am, f, again), twoPass)
      BY <2>6, OneScore
    <2>8. HasScored(am, c, ceps, start, f, again, again', twoPass)
      <3>1. c = AfterScore(am, f)
        BY <2>4 DEF c
      <3>2. again' = Scored(am, f, again)
        BY <2>4, <1>1
      <3>3. QED
        BY ONLY <3>1, <3>2, <2>7
    <2>9. /\ Kept(c, ceps, start) /\ Made(c) = Made(am)
          /\ Entries(again', Made(am), ceps, start) /\ Len(again') = f + 1
          /\ InOrder(again') /\ ScoresFromBuf(c) /\ c.featBuf = am.featBuf /\ FromBuf(again', am.featBuf)
      BY <2>4, <2>5, <2>8, <1>2 DEF HasScored
    <2>10. Kept(am', ceps, start) /\ ScoresFromBuf(am')
      BY <2>9, <1>5 DEF Kept, ScoresFromBuf
    <2>11. Seen(am', ceps, start, twoPass, looped, searched, again')
      BY <2>5, <2>9, <2>10, <1>5 DEF Seen
    <2>12. QED
      BY <2>2, <2>3, <2>9, <2>10, <2>11, <1>5
  <1>9. Types'
    BY <1>1, <1>2 DEF Types, Pcs
  <1>10. QED
    BY <1>1, <1>5, <1>6, <1>7, <1>8, <1>9 DEF IInv

(* The frames of the lookahead window, which the main search is behind. *)
LookedAt(a, r, cs, st, n, tp) ==
  /\ r = [am |-> r.am, seen |-> r.seen]
  /\ IsAm(r.am) /\ Keeps(a, r.am, {"senscr", "scores"}) /\ QueueOK(r.am) /\ Made(r.am) = Made(a)
  /\ r.am.featBuf = a.featBuf /\ r.am.nAlloc = a.nAlloc /\ r.am.output = a.output
  /\ Ring(r.am, cs, st) /\ Kept(r.am, cs, st) /\ Entries(r.seen, Made(a), cs, st) /\ InOrder(r.seen)
  /\ Len(r.seen) = n /\ (tp = TRUE => FromBuf(r.seen, a.featBuf) /\ ScoresFromBuf(r.am))

(* A round of it. *)
LEMMA LookaheadGoesOn ==
  ASSUME NEW a, NEW cs, NEW st, NEW f \in Nat, NEW tp, NEW r, LookedAt(a, r, cs, st, f, tp),
         f < Made(a), Made(a) <= f + a.nAlloc, tp = TRUE => Made(a) <= a.nAlloc
  PROVE  LookedAt(a, LookaheadRound(r, f), cs, st, f + 1, tp)
  <1>1. /\ IsAm(r.am) /\ Keeps(a, r.am, {"senscr", "scores"}) /\ QueueOK(r.am) /\ Made(r.am) = Made(a)
        /\ r.am.featBuf = a.featBuf /\ r.am.nAlloc = a.nAlloc /\ r.am.output = a.output
        /\ Ring(r.am, cs, st) /\ Kept(r.am, cs, st) /\ Entries(r.seen, Made(a), cs, st) /\ InOrder(r.seen)
        /\ Len(r.seen) = f /\ (tp = TRUE => FromBuf(r.seen, a.featBuf) /\ ScoresFromBuf(r.am))
    BY DEF LookedAt
  <1>2. FrameIdx(r.am, f) = f
    BY DEF FrameIdx
  <1>3. MayScore(r.am, cs, st, f, f, r.seen, tp)
    BY <1>1, <1>2 DEF MayScore
  <1> DEFINE b == AfterScore(r.am, f)
             more == Scored(r.am, f, r.seen)
  <1>4. HasScored(r.am, b, cs, st, f, r.seen, more, tp)
    BY <1>3, OneScore
  <1>5. LookaheadRound(r, f) = [am |-> b, seen |-> more]
    BY DEF LookaheadRound
  <1> HIDE DEF b, more
  <1>6. /\ IsAm(b) /\ Keeps(r.am, b, {"senscr", "scores"}) /\ QueueOK(b) /\ Kept(b, cs, st)
        /\ Ring(b, cs, st) /\ Made(b) = Made(a) /\ b.featBuf = a.featBuf /\ b.nAlloc = a.nAlloc
        /\ b.output = a.output /\ Entries(more, Made(a), cs, st) /\ Len(more) = f + 1 /\ InOrder(more)
        /\ (tp = TRUE => ScoresFromBuf(b) /\ FromBuf(more, a.featBuf))
    BY <1>1, <1>4 DEF HasScored
  <1>7. Keeps(a, b, {"senscr", "scores"})
    BY <1>1, <1>6, KeepsTwice
  <1> DEFINE q == [am |-> b, seen |-> more]
  <1>8. q.am = b /\ q.seen = more /\ q = [am |-> q.am, seen |-> q.seen]
    OBVIOUS
  <1> HIDE DEF q
  <1>9. LookedAt(a, q, cs, st, f + 1, tp)
    BY <1>6, <1>7, <1>8 DEF LookedAt
  <1>10. QED
    BY <1>5, <1>9 DEF q

(* The loop over the frames of the window. *)
LEMMA LookaheadLoop ==
  ASSUME plWindow \in Nat
  PROVE  LET r == LookaheadRounds
         IN  /\ Len(LookaheadFrames) = plWindow
             /\ r[0] = [am |-> am, seen |-> searched]
             /\ \A i \in 1 .. plWindow : r[i] = LookaheadRound(r[i - 1], am.output - plWindow + i - 1)
  <1>1. PICK n \in Nat : n = plWindow
    OBVIOUS
  <1> DEFINE first == [am |-> am, seen |-> searched]
             frames == LookaheadFrames
             r == LookaheadRounds
             step(h) == [i \in 0 .. n |-> IF i = 0 THEN first ELSE LookaheadRound(h[i - 1], frames[i])]
  <1>2. frames = [i \in 1 .. n |-> am.output - n + i - 1]
    BY <1>1 DEF LookaheadFrames
  <1>3. Len(frames) = n /\ \A i \in 1 .. n : frames[i] = am.output - n + i - 1
    BY <1>2
  <1> HIDE DEF frames
  <1>4. r = CHOOSE h : h = step(h)
    <2>1. LookaheadFrames = frames
      BY DEF frames
    <2>2. Len(LookaheadFrames) = n
      BY <2>1, <1>3
    <2>3. QED
      BY <2>1, <2>2 DEF LookaheadRounds
  <1>5. \A h : h = step(h) <=> Runs(h, "lookahead", first, frames, n)
    BY DEF Runs, Round
  <1> HIDE DEF step, first
  <1>6. PICK h : h = step(h)
    BY <1>5, LoopEnds
  <1>7. r = step(r)
    BY <1>4, <1>6
  <1> HIDE DEF r
  <1>8. Runs(r, "lookahead", first, frames, n)
    BY <1>5, <1>7
  <1>9. r[0] = first /\ \A i \in 1 .. n : r[i] = Round("lookahead", r[i - 1], frames, i)
    BY <1>8, LoopGoes
  <1>10. \A i \in 1 .. n : r[i] = LookaheadRound(r[i - 1], frames[i])
    BY <1>9 DEF Round
  <1>11. \A i \in 1 .. n : r[i] = LookaheadRound(r[i - 1], am.output - n + i - 1)
    BY <1>3, <1>10
  <1>12. QED
    BY <1>1, <1>3, <1>9, <1>11 DEF r, first, frames

(* Whatever is scored, the rest of acmod stays. *)
LEMMA LookaheadKeeps ==
  ASSUME plWindow \in Nat, IsAm(am)
  PROVE  LET b == LookaheadRounds[Len(LookaheadFrames)].am
         IN  IsAm(b) /\ Keeps(am, b, {"senscr", "scores"})
  <1>1. PICK n \in Nat : n = plWindow
    OBVIOUS
  <1> DEFINE r == LookaheadRounds
             S == {k \in 0 .. n : IsAm(r[k].am) /\ Keeps(am, r[k].am, {"senscr", "scores"})}
  <1>2. /\ Len(LookaheadFrames) = n
        /\ r[0] = [am |-> am, seen |-> searched]
        /\ \A i \in 1 .. n : r[i] = LookaheadRound(r[i - 1], am.output - n + i - 1)
    BY <1>1, LookaheadLoop
  <1> HIDE DEF r
  <1>3. 0 \in S
    <2>1. Keeps(am, am, {"senscr", "scores"})
      BY DEF Keeps
    <2>2. QED
      BY <2>1, <1>2
  <1>4. ASSUME NEW k \in 1 .. n, k - 1 \in S PROVE k \in S
    <2> DEFINE idx == am.output - n + k - 1
               a == r[k - 1].am
               b == AfterScore(a, idx)
    <2>0. r[k] = LookaheadRound(r[k - 1], idx)
      BY <1>2
    <2> HIDE DEF idx
    <2>1. r[k].am = b
      BY <2>0 DEF LookaheadRound
    <2>2. IsAm(a) /\ Keeps(am, a, {"senscr", "scores"})
      BY <1>4
    <2>3. IsAm(b) /\ Keeps(a, b, {"senscr", "scores"})
      BY <2>2, ScoreKeeps
    <2> HIDE DEF a, b
    <2>4. Keeps(am, b, {"senscr", "scores"})
      BY <2>2, <2>3, KeepsTwice
    <2>5. QED
      BY <2>1, <2>3, <2>4
  <1>5. n \in S
    <2> HIDE DEF S
    <2>1. QED BY <1>3, <1>4, UpTo
  <1>6. IsAm(r[n].am) /\ Keeps(am, r[n].am, {"senscr", "scores"})
    BY <1>5
  <1>7. QED
    BY <1>2, <1>6 DEF r

(* Scoring leaves the sizes. *)
LEMMA SizedScored ==
  ASSUME NEW a, NEW pl \in Nat, NEW tp, Sized(a, pl, tp), NEW b, IsAm(b), Keeps(a, b, {"senscr", "scores"})
  PROVE  Sized(b, pl, tp)
  <1>1. QueueOK(b) /\ Made(b) = Made(a) /\ b.nFeat = a.nFeat
    BY QueueKept DEF Sized
  <1>2. Keeps(a, b, Scoring) /\ b.nFeat <= a.nFeat
    <2>1. a.nFeat \in Int
      BY DEF Sized, QueueOK
    <2>2. Keeps(a, b, Scoring)
      BY DEF Keeps, Scoring
    <2>3. QED
      BY <2>1, <2>2, <1>1
  <1>3. \A p \in Nat : \A t : Sized(a, p, t) /\ b.nFeat <= a.nFeat => Sized(b, p, t)
    BY <1>1, <1>2, ScoringKeeps
  <1>4. QED
    BY <1>2, <1>3

(* The frames of the window that are searched at the end keep the          *)
(* invariant.                                                              *)
LEMMA SearchLookaheadInv == ASSUME IInv, SearchLookahead PROVE IInv'
  <1> DEFINE last == LookaheadRounds[Len(LookaheadFrames)]
  <1>1. /\ plWindow' = plWindow /\ twoPass' = twoPass /\ mode' = mode /\ noSearch' = noSearch
        /\ utt' = utt /\ chunk' = chunk /\ fed' = fed /\ ceps' = ceps /\ start' = start
        /\ looped' = looped /\ again' = again
        /\ pc = "flush" /\ pc' = "finish" /\ am.nFeat = 0
        /\ searched' = last.seen /\ am' = last.am
    BY DEF SearchLookahead, config, source, input
  <1>2. /\ Types /\ Sized(am, plWindow, twoPass) /\ Ring(am, ceps, start)
        /\ Flushed(am, ceps, pc, mode, twoPass)
        /\ Searches(am, ceps, start, pc, plWindow, twoPass, looped, searched, again)
        /\ plWindow \in Nat
    BY DEF IInv, Types
  <1>3. IsAm(am) /\ QueueOK(am)
    BY <1>2 DEF Sized
  <1>4. IsAm(am') /\ Keeps(am, am', {"senscr", "scores"})
    <2>1. IsAm(last.am) /\ Keeps(am, last.am, {"senscr", "scores"})
      BY <1>2, <1>3, LookaheadKeeps
    <2> HIDE DEF last
    <2>2. QED
      BY <2>1, <1>1
  <1> HIDE DEF last
  <1>5. /\ QueueOK(am') /\ Made(am') = Made(am) /\ am'.featBuf = am.featBuf /\ am'.nAlloc = am.nAlloc
        /\ am'.nFeat = am.nFeat /\ am'.output = am.output
        /\ \A cs, st : Ring(am, cs, st) => Ring(am', cs, st)
    BY <1>3, <1>4, QueueKept
  <1>6. Sized(am', plWindow, twoPass) /\ Ring(am', ceps, start)
    BY <1>2, <1>4, <1>5, SizedScored
  <1>7. Feeds(am', ceps, start, "finish", mode, noSearch, chunk, fed)
    BY DEF Feeds
  <1>8. Flushed(am', ceps, "finish", mode, twoPass)
    BY <1>1, <1>2, <1>5 DEF Flushed
  <1>9. Searches(am', ceps, start, "finish", plWindow, twoPass, looped, searched', again)
    <2> SUFFICES ASSUME Sound(am', "finish", plWindow)
                 PROVE  /\ Kept(am', ceps, start) /\ Seen(am', ceps, start, twoPass, looped, searched', again)
                        /\ Len(searched') = Made(am') /\ Len(again) = 0
      BY DEF Searches, Ends
    <2>1. /\ Seen(am, ceps, start, twoPass, looped, searched, again) /\ Kept(am, ceps, start)
          /\ Len(searched) = Positive(am.output - plWindow) /\ Len(again) = 0
      BY <1>1, <1>2 DEF Searches, Sound, Ends
    <2>2. PICK n \in Nat, made \in Nat, size \in Nat :
             /\ n = plWindow /\ made = Made(am) /\ made = am.output /\ size = am.nAlloc /\ n <= made /\ n <= size
      <3>1. MfcAlloc \in Nat
        BY MfcSize
      <3>2. am.nAlloc \in Nat /\ am.output \in Nat /\ am.nAlloc >= MfcAlloc + plWindow
        BY <1>2 DEF Sized, QueueOK
      <3>3. Made(am) = am.output
        BY <1>1, <3>2 DEF Made
      <3>4. Made(am) >= plWindow
        BY <1>5 DEF Sound, Ends
      <3>5. plWindow <= am.output /\ plWindow <= am.nAlloc
        BY <3>1, <3>2, <3>3, <3>4, <1>2
      <3>6. QED
        BY <3>2, <3>3, <3>5, <1>2
    <2>3. PICK from \in Nat : from = made - n
      BY <2>2
    <2>4. /\ Entries(looped, Made(am), ceps, start) /\ Entries(searched, Made(am), ceps, start)
          /\ Entries(again, Made(am), ceps, start) /\ InOrder(searched) /\ InOrder(again)
          /\ (twoPass = TRUE => /\ FromBuf(searched, am.featBuf) /\ FromBuf(again, am.featBuf)
                                /\ ScoresFromBuf(am))
          /\ (twoPass = TRUE => Made(am) <= am.nAlloc)
      BY <2>1, <1>2 DEF Seen, Sized
    <2>5. Len(searched) = from
      BY <2>1, <2>2, <2>3, PositiveIs
    <2> DEFINE r == LookaheadRounds
               S == {k \in 0 .. n : LookedAt(am, r[k], ceps, start, from + k, twoPass)}
    <2>6. /\ Len(LookaheadFrames) = n
          /\ r[0] = [am |-> am, seen |-> searched]
          /\ \A i \in 1 .. n : r[i] = LookaheadRound(r[i - 1], am.output - n + i - 1)
      BY <2>2, <1>2, LookaheadLoop
    <2>7. last = r[n]
      BY <2>6 DEF last
    <2> HIDE DEF r
    <2>8. 0 \in S
      <3>1. Keeps(am, am, {"senscr", "scores"})
        BY DEF Keeps
      <3>2. LookedAt(am, r[0], ceps, start, from, twoPass)
        BY <3>1, <2>1, <2>4, <2>5, <2>6, <1>2, <1>3 DEF LookedAt
      <3>3. from + 0 = from /\ 0 \in 0 .. n
        OBVIOUS
      <3>4. QED
        BY <3>2, <3>3
    <2>9. ASSUME NEW k \in 1 .. n, k - 1 \in S PROVE k \in S
      <3>1. PICK f \in Nat : f = from + (k - 1)
        OBVIOUS
      <3>2. LookedAt(am, r[k - 1], ceps, start, f, twoPass)
        BY <2>9, <3>1
      <3>3. f < Made(am) /\ Made(am) <= f + am.nAlloc /\ am.output - n + k - 1 = f /\ from + k = f + 1
        <4>1. f < made /\ made <= f + size /\ made - n + k - 1 = f /\ from + k = f + 1
          BY <3>1, <2>2, <2>3
        <4>2. QED
          BY <4>1, <2>2
      <3>4. LookedAt(am, LookaheadRound(r[k - 1], f), ceps, start, f + 1, twoPass)
        BY <3>2, <3>3, <2>4, LookaheadGoesOn
      <3>5. r[k] = LookaheadRound(r[k - 1], f)
        BY <3>3, <2>6
      <3>6. LookedAt(am, r[k], ceps, start, from + k, twoPass)
        BY ONLY <3>3, <3>4, <3>5
      <3>7. QED
        BY <3>6
    <2>10. n \in S
      <3> HIDE DEF S
      <3>1. QED BY <2>8, <2>9, UpTo
    <2>11. LookedAt(am, last, ceps, start, from + n, twoPass)
      BY <2>7, <2>10
    <2>12. from + n = made
      BY <2>2, <2>3
    <2>13. /\ Kept(am', ceps, start) /\ Entries(searched', Made(am), ceps, start) /\ InOrder(searched')
           /\ Len(searched') = Made(am) /\ (twoPass = TRUE => FromBuf(searched', am.featBuf) /\ ScoresFromBuf(am'))
      BY <2>2, <2>11, <2>12, <1>1 DEF LookedAt
    <2>14. Seen(am', ceps, start, twoPass, looped, searched', again)
      BY <2>4, <2>13, <1>5 DEF Seen
    <2>15. QED
      BY <2>1, <2>13, <2>14, <1>5
  <1>10. Types'
    BY <1>1, <1>2 DEF Types, Pcs
  <1>11. QED
    BY <1>1, <1>6, <1>7, <1>8, <1>9, <1>10 DEF IInv

-----------------------------------------------------------------------------
(* What the searches have scored stays true of what comes. *)

(* More cepstra leave what was scored. *)
LEMMA EntriesMore ==
  ASSUME NEW cs, IsSeq(cs), NEW more, IsSeq(more), NEW st, NEW made \in Nat, NEW to \in Nat, made <= to,
         made <= Positive(Len(cs) - Win), NEW seen, Entries(seen, made, cs, st)
  PROVE  Entries(seen, to, cs \o more, st)
  <1>1. cs \in Seq(Both(cs, more)) /\ more \in Seq(Both(cs, more))
    BY OfMembers
  <1>2. PICK t \in Nat : t = Positive(Len(cs) - Win) /\ made <= t
    <2>1. Len(cs) - Win \in Int
      BY Sizes DEF IsSeq
    <2>2. QED
      BY <2>1, PositiveIs
  <1>3. ASSUME NEW i \in 1 .. Len(seen)
        PROVE  /\ seen[i] = [frame |-> seen[i].frame, feat |-> seen[i].feat]
               /\ seen[i].frame \in 0 .. to - 1 /\ Fits(seen[i].feat, cs \o more, st, seen[i].frame)
    <2>1. /\ seen[i] = [frame |-> seen[i].frame, feat |-> seen[i].feat]
          /\ seen[i].frame \in 0 .. made - 1 /\ Fits(seen[i].feat, cs, st, seen[i].frame)
      BY DEF Entries
    <2>p. PICK x : x = seen[i].feat
      OBVIOUS
    <2>2. PICK f \in 0 .. made - 1 : f = seen[i].frame
      BY <2>1
    <2>f. f \in Nat /\ f < made
      OBVIOUS
    <2>3. f < Positive(Len(cs) - Win) /\ f \in 0 .. to - 1
      BY <1>2, <2>f
    <2>4. Fits(x, cs, st, f)
      BY <2>1, <2>2, <2>p
    <2>5. Fits(x, cs \o more, st, f)
      BY <1>1, <2>f, <2>3, <2>4, FitsMore
    <2>6. QED
      BY <2>1, <2>2, <2>3, <2>5, <2>p
  <1>4. IsSeq(seen)
    BY DEF Entries
  <1>5. QED
    BY <1>3, <1>4 DEF Entries

(* Where the features that have been searched stay, what a search found *)
(* agrees with the buffer.                                              *)
LEMMA StillFromBuf ==
  ASSUME NEW a, NEW b, Still(a, b), Made(a) \in Nat, NEW seen, Len(seen) \in Nat, Len(seen) <= Made(a),
         FromBuf(seen, a.featBuf)
  PROVE  FromBuf(seen, b.featBuf)
  <1>1. ASSUME NEW i \in 1 .. Len(seen) PROVE seen[i].feat = b.featBuf[i - 1]
    <2>1. i - 1 \in 0 .. Made(a) - 1
      OBVIOUS
    <2>2. b.featBuf[i - 1] = a.featBuf[i - 1]
      BY <2>1 DEF Still
    <2>3. QED
      BY <2>2 DEF FromBuf
  <1>2. QED
    BY <1>1 DEF FromBuf

(* So do the scores that are kept. *)
LEMMA StillScores ==
  ASSUME NEW a, NEW b, Still(a, b), b.senscr = a.senscr, b.scores = a.scores, ScoresFromBuf(a),
         NEW cs, NEW st, Kept(a, cs, st)
  PROVE  ScoresFromBuf(b)
  BY DEF Still, ScoresFromBuf, Kept, KeptOf

(* Before the main search has seen the end. *)
Before(p) == p \in {"idle", "open", "process", "forward", "flush"}

(* What Searches then says. *)
Goal(b, cs, st, pl, tp, lp, sd, ag) ==
  /\ Kept(b, cs, st) /\ Seen(b, cs, st, tp, lp, sd, ag)
  /\ Len(sd) = Positive(b.output - pl) /\ Len(ag) = 0

(* While the utterance goes on, Searches says no more than Goal.           *)
LEMMA SearchesBefore ==
  ASSUME NEW p, Before(p), NEW b, NEW cs, NEW st, NEW pl, NEW tp, NEW lp, NEW sd, NEW ag
  PROVE  Searches(b, cs, st, p, pl, tp, lp, sd, ag) <=> Goal(b, cs, st, pl, tp, lp, sd, ag)
  <1>1. p \notin Ends /\ p # "again" /\ p # "done"
    BY DEF Before, Ends
  <1>2. QED
    BY <1>1 DEF Searches, Sound, Goal

(* A change of acmod that leaves its features leaves what was scored. *)
LEMMA SearchesStill ==
  ASSUME NEW a, QueueOK(a), NEW b, b.output = a.output, b.senscr = a.senscr, b.scores = a.scores,
         Made(b) = Made(a), Still(a, b),
         NEW p, Before(p), NEW q, Before(q), NEW cs, NEW st, NEW pl \in Nat, NEW tp, NEW lp, NEW sd, NEW ag,
         Searches(a, cs, st, p, pl, tp, lp, sd, ag)
  PROVE  Searches(b, cs, st, q, pl, tp, lp, sd, ag)
  <1>1. Goal(a, cs, st, pl, tp, lp, sd, ag)
    BY SearchesBefore
  <1>2. /\ Kept(a, cs, st) /\ Len(sd) = Positive(a.output - pl) /\ Len(ag) = 0
        /\ Entries(lp, Made(a), cs, st) /\ Entries(sd, Made(a), cs, st) /\ Entries(ag, Made(a), cs, st)
        /\ InOrder(sd) /\ InOrder(ag)
        /\ (tp = TRUE => FromBuf(sd, a.featBuf) /\ FromBuf(ag, a.featBuf) /\ ScoresFromBuf(a))
    BY <1>1 DEF Goal, Seen
  <1>3. Made(a) \in Nat /\ Len(sd) \in Nat /\ Len(sd) <= Made(a) /\ Len(ag) \in Nat /\ Len(ag) <= Made(a)
    <2>1. PICK out \in Nat, made \in Nat : out = a.output /\ made = Made(a) /\ out <= made
      BY DEF QueueOK, Made
    <2>2. Positive(out - pl) \in Nat /\ Positive(out - pl) <= out
      BY PositiveIs
    <2>3. QED
      BY <1>2, <2>1, <2>2
  <1>4. Kept(b, cs, st)
    BY <1>2 DEF Kept
  <1>5. tp = TRUE => FromBuf(sd, b.featBuf) /\ FromBuf(ag, b.featBuf) /\ ScoresFromBuf(b)
    BY <1>2, <1>3, StillFromBuf, StillScores
  <1>6. Goal(b, cs, st, pl, tp, lp, sd, ag)
    BY <1>2, <1>4, <1>5 DEF Goal, Seen
  <1>7. QED
    BY <1>6, SearchesBefore

(* More cepstra and features take nothing from what was scored. *)
LEMMA SearchesMore ==
  ASSUME NEW a, QueueOK(a), NEW b, QueueOK(b), b.output = a.output, b.senscr = a.senscr, b.scores = a.scores,
         NEW tp, tp = TRUE => Still(a, b), Made(a) <= Made(b),
         NEW p, Before(p), NEW q, Before(q), NEW cs, IsSeq(cs), NEW more, IsSeq(more),
         Made(a) <= Positive(Len(cs) - Win),
         NEW st, NEW pl \in Nat, NEW lp, NEW sd, NEW ag,
         Searches(a, cs, st, p, pl, tp, lp, sd, ag)
  PROVE  Searches(b, cs \o more, st, q, pl, tp, lp, sd, ag)
  <1>1. Goal(a, cs, st, pl, tp, lp, sd, ag)
    BY SearchesBefore
  <1>2. /\ Kept(a, cs, st) /\ Len(sd) = Positive(a.output - pl) /\ Len(ag) = 0
        /\ Entries(lp, Made(a), cs, st) /\ Entries(sd, Made(a), cs, st) /\ Entries(ag, Made(a), cs, st)
        /\ InOrder(sd) /\ InOrder(ag)
        /\ (tp = TRUE => FromBuf(sd, a.featBuf) /\ FromBuf(ag, a.featBuf) /\ ScoresFromBuf(a))
    BY <1>1 DEF Goal, Seen
  <1>m. PICK made \in Nat, to \in Nat :
           made = Made(a) /\ to = Made(b) /\ made <= to /\ made <= Positive(Len(cs) - Win)
    BY SMTT(30) DEF QueueOK, Made
  <1>3. Made(a) \in Nat /\ Len(sd) \in Nat /\ Len(sd) <= Made(a) /\ Len(ag) \in Nat /\ Len(ag) <= Made(a)
    <2>1. PICK out \in Nat : out = a.output /\ out <= made
      BY <1>m DEF QueueOK, Made
    <2>2. Positive(out - pl) \in Nat /\ Positive(out - pl) <= out
      BY PositiveIs
    <2>3. QED
      BY <1>2, <1>m, <2>1, <2>2
  <1>4. Kept(b, cs \o more, st)
    <2>1. cs \in Seq(Both(cs, more)) /\ more \in Seq(Both(cs, more))
      BY OfMembers
    <2>2. KeptOf(a.senscr, a.scores, made, cs, st)
      BY <1>2, <1>m DEF Kept
    <2>3. KeptOf(a.senscr, a.scores, to, cs \o more, st)
      BY <2>1, <2>2, <1>m, KeptMore
    <2>4. QED
      BY <2>3, <1>m DEF Kept
  <1>5. tp = TRUE => FromBuf(sd, b.featBuf) /\ FromBuf(ag, b.featBuf) /\ ScoresFromBuf(b)
    BY <1>2, <1>3, StillFromBuf, StillScores
  <1>6. /\ Entries(lp, to, cs \o more, st) /\ Entries(sd, to, cs \o more, st)
        /\ Entries(ag, to, cs \o more, st)
    <2>1. Entries(lp, made, cs, st) /\ Entries(sd, made, cs, st) /\ Entries(ag, made, cs, st)
      BY <1>2, <1>m
    <2>2. QED
      BY <2>1, <1>m, EntriesMore
  <1>7. Goal(b, cs \o more, st, pl, tp, lp, sd, ag)
    BY <1>2, <1>m, <1>4, <1>5, <1>6 DEF Goal, Seen
  <1>8. QED
    BY <1>7, SearchesBefore

(* The first features come when nothing was scored. *)
LEMMA SearchesFirst ==
  ASSUME NEW a, Made(a) = 0, NEW b, b.output = a.output, b.senscr = -1,
         NEW p, Before(p), NEW q, Before(q), NEW cs, NEW st, NEW to, NEW after,
         NEW pl \in Nat, NEW tp, NEW lp, NEW sd, NEW ag,
         Searches(a, cs, st, p, pl, tp, lp, sd, ag)
  PROVE  Searches(b, to, after, q, pl, tp, lp, sd, ag)
  <1>1. Goal(a, cs, st, pl, tp, lp, sd, ag)
    BY SearchesBefore
  <1>2. /\ Len(sd) = Positive(a.output - pl) /\ Len(ag) = 0
        /\ Entries(lp, 0, cs, st) /\ Entries(sd, 0, cs, st) /\ Entries(ag, 0, cs, st)
        /\ InOrder(sd) /\ InOrder(ag)
    BY <1>1 DEF Goal, Seen
  <1>3. /\ Len(sd) = 0 /\ Entries(lp, Made(b), to, after) /\ Entries(sd, Made(b), to, after)
        /\ Entries(ag, Made(b), to, after)
    BY <1>2, EntriesNone
  <1>4. \A i \in 1 .. 0 : FALSE
    OBVIOUS
  <1>5. FromBuf(sd, b.featBuf) /\ FromBuf(ag, b.featBuf) /\ ScoresFromBuf(b) /\ Kept(b, to, after)
    BY <1>2, <1>3, <1>4 DEF FromBuf, ScoresFromBuf, Kept, KeptOf
  <1>6. Goal(b, to, after, pl, tp, lp, sd, ag)
    BY <1>2, <1>3, <1>5 DEF Goal, Seen
  <1>7. QED
    BY <1>6, SearchesBefore

-----------------------------------------------------------------------------
(* The calls. *)

(* How much a call gives. *)
LEMMA GivesEffect ==
  ASSUME Types, pc # "idle", ShortCalls, NEW n \in Gives
  PROVE  /\ n \in Nat /\ n >= 1
         /\ mode = "cep" => n <= 3 * Win + 1 /\ (plWindow # 0 => n <= MfcAlloc)
  <1>1. mode \in {"raw", "cep", "full"} /\ plWindow \in Nat /\ fed \in Nat
    BY DEF Types
  <1>2. CASE mode = "raw"
    <2>1. n \in SampChunks
      BY <1>2 DEF Gives
    <2>2. QED
      BY <2>1, <1>2, DecoderAssumption
  <1>3. CASE mode = "cep"
    <2> DEFINE most == IF plWindow = 0 THEN MaxChunk ELSE MfcAlloc
    <2>1. PICK rest \in Int : rest = MaxCeps - fed
      <3>1. PICK top \in Int : top = MaxSamps - FrameSize
        BY DecoderAssumption, FrameAssumption
      <3>2. top \div FrameShift \in Int
        BY FrameAssumption
      <3>3. MaxCeps \in Int
        BY <3>1, <3>2 DEF MaxCeps
      <3>4. QED
        BY <3>3, <1>1
    <2>2. n \in 1 .. NoMoreThan(most, rest)
      BY <2>1, <1>3 DEF Gives
    <2>3. MaxChunk \in Int /\ MfcAlloc \in Int /\ MfcAlloc = 2 * Win + 1 /\ Win \in Nat
      BY MfcSize, Sizes, DecoderAssumption
    <2>4. most \in Int /\ most <= 3 * Win + 1 /\ (plWindow # 0 => most <= MfcAlloc)
      BY <2>3 DEF ShortCalls
    <2> HIDE DEF most
    <2>5. NoMoreThan(most, rest) \in Int /\ NoMoreThan(most, rest) <= most
      BY <2>4, LeastIs
    <2>6. n \in Nat /\ n >= 1 /\ n <= most
      BY <2>2, <2>4, <2>5
    <2>7. n <= 3 * Win + 1
      BY <2>3, <2>4, <2>6
    <2>8. plWindow # 0 => n <= MfcAlloc
      BY <2>3, <2>4, <2>6
    <2>9. QED
      BY <2>6, <2>7, <2>8
  <1>4. CASE mode = "full"
    <2>1. n \in 1 .. MaxCeps
      BY <1>4 DEF Gives
    <2>2. n \in Nat /\ n >= 1
      BY <2>1
    <2>3. QED
      BY <2>2, <1>4
  <1>5. QED
    BY <1>1, <1>2, <1>3, <1>4

(* A buffer that is allowed to grow. *)
LEMMA SizedGrown ==
  ASSUME NEW a, NEW b, NEW pl \in Nat, NEW tp, Sized(a, pl, tp), IsAm(b), QueueOK(b),
         Keeps(a, b, {"grow", "featBuf", "nAlloc"}), b.grow = TRUE, b.nAlloc >= a.nAlloc,
         Made(b) = Made(a), Made(a) < a.nAlloc
  PROVE  Sized(b, pl, tp)
  <1>1. /\ b.fcb = a.fcb /\ b.mfcBuf = a.mfcBuf /\ b.nMfc = a.nMfc /\ b.mfcOut = a.mfcOut /\ b.fe = a.fe
    BY DEF Keeps, AmFields
  <1>2. /\ a.nAlloc \in Int /\ b.nAlloc \in Int /\ Made(a) \in Int /\ a.nAlloc >= MfcAlloc + pl
        /\ FcbOK(a.fcb) /\ MfcOK(a)
    BY DEF Sized, QueueOK, Made
  <1>3. Made(b) <= b.nAlloc
    BY <1>2
  <1>4. b.nAlloc >= MfcAlloc + pl
    BY <1>2, MfcSize
  <1>5. MfcOK(b)
    BY <1>1, <1>2 DEF MfcOK
  <1>6. QED
    BY <1>1, <1>2, <1>3, <1>4, <1>5 DEF Sized

(* A call of the decoder keeps the invariant. *)
LEMMA ProcessInv == ASSUME IInv, ShortCalls, Process PROVE IInv'
  <1>1. /\ plWindow' = plWindow /\ twoPass' = twoPass /\ mode' = mode /\ noSearch' = noSearch
        /\ utt' = utt /\ ceps' = ceps /\ start' = start
        /\ looped' = looped /\ searched' = searched /\ again' = again
        /\ pc = "open" /\ pc' = "process" /\ am' = IF noSearch THEN SetGrow(am, TRUE) ELSE am
    BY DEF Process, config, source, history
  <1>2. PICK n \in Gives : \E all : chunk' = SubSeq(all, fed + 1, fed + n) /\ fed' = fed + n
    BY DEF Process
  <1>3. PICK all : chunk' = SubSeq(all, fed + 1, fed + n) /\ fed' = fed + n
    BY <1>2
  <1>4. /\ Types /\ Sized(am, plWindow, twoPass) /\ Ring(am, ceps, start)
        /\ Feeds(am, ceps, start, pc, mode, noSearch, chunk, fed)
        /\ Searches(am, ceps, start, pc, plWindow, twoPass, looped, searched, again)
        /\ plWindow \in Nat /\ twoPass \in BOOLEAN /\ noSearch \in BOOLEAN /\ fed \in Nat
    BY DEF IInv, Types
  <1>5. /\ n \in Nat /\ n >= 1
        /\ mode = "cep" => n <= 3 * Win + 1 /\ (plWindow # 0 => n <= MfcAlloc)
    BY <1>1, <1>4, GivesEffect
  <1>6. IsSeq(chunk') /\ Len(chunk') = n /\ fed' \in Nat /\ fed' > 0
    <2>1. fed + 1 \in Int /\ fed + n \in Int /\ fed + 1 <= fed + n /\ (fed + n) - (fed + 1) + 1 = n
          /\ fed + n \in Nat /\ fed + n > 0
      BY <1>4, <1>5
    <2>2. /\ IsSeq(SubSeq(all, fed + 1, fed + n))
          /\ Len(SubSeq(all, fed + 1, fed + n)) = IF fed + 1 <= fed + n THEN (fed + n) - (fed + 1) + 1 ELSE 0
      BY <2>1, SubSeqIs
    <2>3. QED
      BY <2>1, <2>2, <1>3
  <1>7. Types'
    <2>1. Short(mode, plWindow, chunk')
      BY <1>5, <1>6 DEF Short
    <2>2. QED
      BY <2>1, <1>1, <1>4, <1>6 DEF Types, Pcs
  <1>8. /\ (start = "pending" => Opening(am, ceps))
        /\ (start # "pending" /\ mode # "full" => Steady(am, ceps, start) /\ am.nMfc = 0)
        /\ (start # "pending" /\ mode = "full" => Whole(am, ceps, start, chunk, fed))
        /\ (noSearch = TRUE => (start # "pending" => am.grow = TRUE))
        /\ (noSearch = FALSE => am.nFeat = 0)
    BY <1>1, <1>4 DEF Feeds
  <1>9. ~ (start # "pending" /\ mode = "full")
    <2>1. ASSUME start # "pending", mode = "full" PROVE FALSE
      <3>1. fed > 0
        BY <2>1, <1>8 DEF Whole
      <3>2. Gives = {}
        BY <3>1, <2>1 DEF Gives
      <3>3. QED
        BY <3>2
    <2>2. QED
      BY <2>1
  <1>10. Flushed(am', ceps, "process", mode, twoPass)
    BY DEF Flushed
  <1>p. Before("open") /\ Before("process")
    BY DEF Before
  <1>11. CASE noSearch = FALSE
    <2>1. am' = am
      BY <1>1, <1>11
    <2>2. Feeds(am, ceps, start, "process", mode, noSearch, chunk', fed')
      BY <1>6, <1>8, <1>9, <1>11 DEF Feeds
    <2>3. Still(am, am) /\ QueueOK(am)
      BY <1>4 DEF Still, Sized
    <2>4. Searches(am, ceps, start, "process", plWindow, twoPass, looped, searched, again)
      BY <1>1, <1>4, <1>p, <2>3, SearchesStill
    <2>5. QED
      BY <1>1, <1>4, <1>7, <1>10, <2>1, <2>2, <2>4 DEF IInv
  <1>12. CASE noSearch = TRUE
    <2>1. am' = SetGrow(am, TRUE)
      BY <1>1, <1>12
    <2>2. IsAm(am) /\ QueueOK(am) /\ MfcAlloc \in Nat \ {0} /\ am.nAlloc \in Nat /\ Made(am) \in Nat
      BY SMTT(30), <1>4, MfcSize DEF Sized, QueueOK, Made
    <2>3. Made(am) < am.nAlloc
      <3>1. CASE start = "pending"
        <4>1. Made(am) = 0 /\ am.nAlloc >= 1
          <5>1. Made(am) = 0
            BY <3>1, <1>8 DEF Opening, Fresh
          <5>2. am.nAlloc \in Nat \ {0}
            BY <2>2 DEF QueueOK
          <5>3. QED
            BY <5>1, <5>2
        <4>2. QED
          BY <4>1, <2>2
      <3>2. CASE start # "pending"
        BY <3>2, <1>8, <1>9, <1>12 DEF Steady
      <3>3. QED
        BY <3>1, <3>2
    <2>4. /\ IsAm(am') /\ Keeps(am, am', {"grow", "featBuf", "nAlloc"}) /\ QueueOK(am')
          /\ am'.grow = TRUE /\ am'.nAlloc >= am.nAlloc /\ Made(am') = Made(am) /\ Still(am, am')
          /\ \A cs, st : Ring(am, cs, st) => Ring(am', cs, st)
      BY <2>1, <2>2, <2>3, SetGrowEffect
    <2>5. am'.nAlloc \in Nat
      BY <2>4 DEF QueueOK
    <2>6. /\ Steady(am, ceps, start) => Steady(am', ceps, start)
          /\ am'.nMfc = am.nMfc /\ am'.mfcOut = am.mfcOut /\ am'.fe = am.fe
          /\ am'.output = am.output /\ am'.senscr = am.senscr /\ am'.scores = am.scores
      BY <2>2, <2>3, <2>4, <2>5, SetGrowKeeps
    <2>7. Fresh(am, <<>>, "empty") => Fresh(am', <<>>, "empty")
      BY <2>2, <2>3, <2>4, <2>5, SetGrowKeeps
    <2>8. start = "pending" => Opening(am', ceps)
      BY <1>8, <2>6, <2>7 DEF Opening
    <2>9. Feeds(am', ceps, start, "process", mode, noSearch, chunk', fed')
      BY <1>6, <1>8, <1>9, <1>12, <2>4, <2>6, <2>8 DEF Feeds
    <2>10. Searches(am', ceps, start, "process", plWindow, twoPass, looped, searched, again)
      BY <1>1, <1>4, <1>p, <2>2, <2>4, <2>6, SearchesStill
    <2>11. Sized(am', plWindow, twoPass) /\ Ring(am', ceps, start)
      BY <1>4, <2>3, <2>4, SizedGrown
    <2>12. QED
      BY <1>1, <1>7, <1>10, <2>9, <2>10, <2>11 DEF IInv
  <1>13. QED
    BY <1>4, <1>11, <1>12

(* A round of a call keeps the invariant when acmod takes what it is       *)
(* given, ...                                                              *)
LEMMA TookInv ==
  ASSUME IInv, ProcessSome, mode # "full", NEW more, IsSeq(more), ceps' = ceps \o more,
         start' = IF start = "pending" THEN Given(more) ELSE start,
         IsSeq(chunk'), Short(mode, plWindow, chunk'), am'.nMfc = 0,
         After(am, am', ceps', start', Len(more)), plWindow # 0 => Len(more) <= MfcAlloc
  PROVE  IInv'
  <1>1. /\ plWindow' = plWindow /\ twoPass' = twoPass /\ mode' = mode /\ noSearch' = noSearch
        /\ utt' = utt /\ fed' = fed /\ looped' = looped /\ searched' = searched /\ again' = again
        /\ pc = "process" /\ pc' = IF noSearch THEN "process" ELSE "forward"
    BY DEF ProcessSome, config, source, history
  <1>2. /\ Types /\ Sized(am, plWindow, twoPass)
        /\ Feeds(am, ceps, start, pc, mode, noSearch, chunk, fed)
        /\ Searches(am, ceps, start, pc, plWindow, twoPass, looped, searched, again)
        /\ plWindow \in Nat /\ twoPass \in BOOLEAN /\ noSearch \in BOOLEAN /\ fed \in Nat /\ IsSeq(ceps)
        /\ start \in {"pending", "given", "empty"}
    BY DEF IInv, Types
  <1>3. /\ (start = "pending" => Opening(am, ceps))
        /\ (start # "pending" => Steady(am, ceps, start))
        /\ (noSearch = TRUE => am.grow = TRUE)
        /\ (noSearch = FALSE => am.nFeat = 0) /\ fed > 0
    BY <1>1, <1>2 DEF Feeds
  <1>4. /\ Steady(am', ceps', start') /\ Keeps(am, am', Away) /\ am'.nAlloc >= am.nAlloc /\ am'.grow = am.grow
        /\ ~am.grow => am'.nAlloc = am.nAlloc /\ am'.nFeat <= am.nFeat + Len(more)
        /\ am.grow => Still(am, am')
    BY DEF After
  <1>5. am'.output = am.output /\ am'.senscr = am.senscr /\ am'.scores = am.scores
    BY <1>4 DEF Keeps, AmFields, Away, Moved
  <1>6. /\ IsAm(am') /\ QueueOK(am') /\ FcbOK(am'.fcb) /\ Ring(am', ceps', start') /\ MfcOK(am')
        /\ am'.grow \in BOOLEAN /\ (am'.grow => Made(am') < am'.nAlloc)
    BY <1>4 DEF Steady, Stream
  <1>7. QueueOK(am) /\ am.nAlloc >= MfcAlloc + plWindow /\ (twoPass => am.grow = TRUE)
    BY <1>2 DEF Sized
  <1>8. Sized(am', plWindow, twoPass)
    <2>1. PICK old \in Nat, size \in Nat, pl \in Nat, m \in Nat, len \in Nat, n \in Nat, made \in Nat :
             /\ old = am.nAlloc /\ size = am'.nAlloc /\ pl = plWindow /\ m = MfcAlloc /\ len = Len(more)
             /\ n = am'.nFeat /\ made = Made(am') /\ n <= size
      <3>1. am.nAlloc \in Nat
        BY <1>7 DEF QueueOK
      <3>2. am'.nAlloc \in Nat /\ am'.nFeat \in Nat /\ am'.output \in Nat /\ am'.nFeat <= am'.nAlloc
        BY <1>6 DEF QueueOK
      <3>3. Made(am') \in Nat
        BY <3>2 DEF Made
      <3>4. MfcAlloc \in Nat /\ Len(more) \in Nat
        BY MfcSize DEF IsSeq
      <3>5. QED
        BY <3>1, <3>2, <3>3, <3>4, <1>2
    <2>n. n <= size
      BY <2>1
    <2>2. old >= m + pl /\ size >= old
      BY <2>1, <1>4, <1>7
    <2>3. am'.nAlloc >= MfcAlloc + plWindow
      BY <2>1, <2>2
    <2>4. Made(am') <= am'.nAlloc \/ am'.nFeat + plWindow <= am'.nAlloc
      <3>1. CASE am'.grow = TRUE
        <4>1. made < size
          BY <3>1, <2>1, <1>6
        <4>2. QED
          BY <4>1, <2>1
      <3>2. CASE am'.grow = FALSE
        <4>1. am.nFeat = 0 /\ am'.nAlloc = am.nAlloc /\ am'.nFeat <= am.nFeat + Len(more)
          BY <3>2, <1>2, <1>3, <1>4
        <4>2. n <= len /\ size = old
          BY <4>1, <2>1
        <4>3. pl # 0 => len <= m
          BY <2>1
        <4>4. n + pl <= size
          BY ONLY <4>2, <4>3, <2>2, <2>n, n \in Nat, pl \in Nat, size \in Nat, len \in Nat, m \in Nat,
                  old \in Nat
        <4>5. QED
          BY <4>4, <2>1
      <3>3. QED
        BY <3>1, <3>2, <1>6
    <2>5. am'.grow => Made(am') <= am'.nAlloc
      <3>1. am'.grow => made < size
        BY <2>1, <1>6
      <3>2. made < size => made <= size
        OBVIOUS
      <3>3. QED
        BY <2>1, <3>1, <3>2
    <2>6. QED
      BY <2>3, <2>4, <2>5, <1>4, <1>6, <1>7 DEF Sized
  <1>9. start' \in {"given", "empty"} /\ IsSeq(ceps')
    <2>1. IsSeq(ceps \o more)
      BY <1>2, ConcatIs
    <2>2. QED
      BY <2>1, <1>2 DEF Given
  <1>10. Types'
    BY <1>1, <1>2, <1>9 DEF Types, Pcs
  <1>11. Feeds(am', ceps', start', pc', mode, noSearch, chunk', fed)
    BY <1>1, <1>2, <1>3, <1>4, <1>9 DEF Feeds
  <1>12. Flushed(am', ceps', pc', mode, twoPass)
    BY <1>1, <1>2 DEF Flushed
  <1>p. Before(pc) /\ Before(pc')
    BY <1>1, <1>2 DEF Before
  <1>13. Searches(am', ceps', start', pc', plWindow, twoPass, looped, searched, again)
    <2>1. CASE start = "pending"
      <3>1. Made(am) = 0 /\ am'.senscr = -1
        BY <2>1, <1>3, <1>5 DEF Opening, Fresh
      <3>2. QED
        BY <3>1, <1>2, <1>5, <1>p, SearchesFirst
    <2>2. CASE start # "pending"
      <3>1. start' = start /\ Flows(am, ceps, start) /\ Flows(am', ceps', start)
        BY <2>2, <1>3, <1>4 DEF Steady
      <3>2. PICK k \in Nat, j \in Nat, w \in Nat : k = Len(ceps) /\ j = Len(more) /\ w = Win
        BY <1>2, Sizes DEF IsSeq
      <3>3. Len(ceps') = k + j
        <4>1. Len(ceps \o more) = Len(ceps) + Len(more)
          BY <1>2, ConcatIs
        <4>2. QED
          BY <4>1, <3>2
      <3>4. Made(am) = Positive(k - w) /\ Made(am') = Positive(k + j - w)
        BY <3>1, <3>2, <3>3 DEF Flows
      <3>5. Positive(k - w) \in Nat /\ Positive(k + j - w) >= Positive(k - w)
        BY PositiveIs
      <3>6. Made(am) <= Made(am') /\ Made(am) <= Positive(Len(ceps) - Win)
        BY <3>2, <3>4, <3>5
      <3>7. twoPass = TRUE => Still(am, am')
        BY <1>4, <1>7
      <3>8. Searches(am', ceps \o more, start, pc', plWindow, twoPass, looped, searched, again)
        BY <3>6, <3>7, <1>2, <1>5, <1>6, <1>7, <1>p, SearchesMore
      <3>9. QED
        BY <3>1, <3>8
    <2>3. QED
      BY <2>1, <2>2
  <1>14. QED
    BY <1>1, <1>6, <1>8, <1>10, <1>11, <1>12, <1>13 DEF IInv

(* The empty sequence changes nothing. *)
LEMMA AfterNothing ==
  ASSUME NEW s, IsSeq(s)
  PROVE  <<>> \o s = s /\ s \o <<>> = s /\ SubSeq(s, 1, Len(s)) = s /\ Len(s) \in Nat
  <1>1. s \in Seq(Both(s, s))
    BY OfMembers
  <1>2. QED
    BY <1>1, ConcatEmptySeq, SubSeqFull, LenProperties

(* It is the only one of its length. *)
LEMMA EmptyOnly ==
  ASSUME NEW s, IsSeq(s)
  PROVE  Len(s) = 0 <=> s = <<>>
  <1>1. s \in Seq(Both(s, s))
    BY OfMembers
  <1>2. QED
    BY <1>1, EmptySeq

(* What the call finds. *)
LEMMA CallStarts ==
  ASSUME IInv, ProcessSome
  PROVE  /\ (start = "pending" => Opening(am, ceps))
         /\ (start # "pending" /\ mode # "full" => Steady(am, ceps, start) /\ am.nMfc = 0)
         /\ (start # "pending" => mode # "full") /\ fed > 0
         /\ (~am.grow => am.nFeat = 0 /\ MfcAlloc <= am.nAlloc) /\ chunk # <<>> /\ IsSeq(chunk) /\ IsSeq(ceps)
         /\ Short(mode, plWindow, chunk) /\ start \in {"pending", "given", "empty"}
  <1>1. pc = "process" /\ chunk # <<>>
    BY DEF ProcessSome
  <1>2. /\ Types /\ Sized(am, plWindow, twoPass)
        /\ Feeds(am, ceps, start, pc, mode, noSearch, chunk, fed)
        /\ plWindow \in Nat /\ noSearch \in BOOLEAN /\ IsSeq(chunk) /\ IsSeq(ceps)
        /\ Short(mode, plWindow, chunk) /\ start \in {"pending", "given", "empty"}
    BY DEF IInv, Types
  <1>3. /\ (start = "pending" => Opening(am, ceps))
        /\ (start # "pending" /\ mode # "full" => Steady(am, ceps, start) /\ am.nMfc = 0)
        /\ (start # "pending" /\ mode = "full" => Whole(am, ceps, start, chunk, fed))
        /\ (noSearch = TRUE => am.grow = TRUE) /\ (noSearch = FALSE => am.nFeat = 0) /\ fed > 0
    BY <1>1, <1>2 DEF Feeds
  <1>4. MfcAlloc <= am.nAlloc
    <2>1. am.nAlloc \in Nat /\ am.nAlloc >= MfcAlloc + plWindow /\ MfcAlloc \in Nat
      BY <1>2, MfcSize DEF Sized, QueueOK
    <2>2. QED
      BY <2>1, <1>2
  <1>5. start # "pending" => mode # "full"
    BY <1>1, <1>3 DEF Whole
  <1>6. QED
    BY <1>1, <1>2, <1>3, <1>4, <1>5

(* ... of samples, ... *)
LEMMA RawInv ==
  ASSUME IInv, ProcessSome, mode = "raw" PROVE IInv'
  <1> DEFINE r == ProcessRaw(am, chunk, voiced)
  <1>1. /\ am' = r.am /\ ceps' = ceps \o r.ceps /\ chunk' = r.spch
        /\ start' = IF start = "pending" THEN Given(r.ceps) ELSE start
    BY DEF ProcessSome, Acmod, Took, StartedBy, Given
  <1>2. /\ (start = "pending" => Opening(am, ceps))
        /\ (start # "pending" => Steady(am, ceps, start) /\ am.nMfc = 0)
        /\ (~am.grow => am.nFeat = 0 /\ MfcAlloc <= am.nAlloc) /\ IsSeq(chunk) /\ IsSeq(ceps)
    BY CallStarts
  <1>3. CASE start = "pending"
    <2>1. Fresh(am, <<>>, "empty") /\ ceps = <<>> /\ am.mfcOut = 0 /\ am.nMfc = 0
      BY <1>2, <1>3 DEF Opening
    <2>2. Raw(am, r) /\ After(am, r.am, r.ceps, Given(r.ceps), Len(r.ceps)) /\ Len(r.ceps) <= MfcAlloc
      BY <2>1, <1>2, RawFirst
    <2> HIDE DEF r
    <2>3. IsSeq(r.ceps) /\ IsSeq(r.spch) /\ r.am.nMfc = 0
      BY <2>2 DEF Raw
    <2>4. ceps' = r.ceps /\ start' = Given(r.ceps)
      BY <2>1, <2>3, <1>1, <1>3, AfterNothing
    <2>5. After(am, am', ceps', start', Len(r.ceps))
      BY <2>2, <2>4, <1>1
    <2>6. Short(mode, plWindow, chunk') /\ IsSeq(chunk') /\ am'.nMfc = 0 /\ mode # "full"
      BY <2>3, <1>1 DEF Short
    <2>7. QED
      BY <2>2, <2>3, <2>5, <2>6, <1>1, TookInv
  <1>4. CASE start # "pending"
    <2>1. Steady(am, ceps, start) /\ am.nMfc = 0
      BY <1>2, <1>4
    <2>2. Raw(am, r) /\ After(am, r.am, ceps \o r.ceps, start, Len(r.ceps)) /\ Len(r.ceps) <= MfcAlloc
      BY <2>1, <1>2, RawMore
    <2> HIDE DEF r
    <2>3. IsSeq(r.ceps) /\ IsSeq(r.spch) /\ r.am.nMfc = 0
      BY <2>2 DEF Raw
    <2>4. start' = start
      BY <1>1, <1>4
    <2>5. After(am, am', ceps', start', Len(r.ceps))
      BY <2>2, <2>4, <1>1
    <2>6. Short(mode, plWindow, chunk') /\ IsSeq(chunk') /\ am'.nMfc = 0 /\ mode # "full"
      BY <2>3, <1>1 DEF Short
    <2>7. QED
      BY <2>2, <2>3, <2>5, <2>6, <1>1, TookInv
  <1>5. QED
    BY <1>3, <1>4

(* ... of cepstra, ... *)
LEMMA CepInv ==
  ASSUME IInv, ProcessSome, mode = "cep" PROVE IInv'
  <1> DEFINE r == ProcessCep(am, chunk)
             more == SubSeq(chunk, 1, r.used)
  <1>1. /\ am' = r.am /\ ceps' = ceps \o more /\ chunk' = LastOf(chunk, Len(chunk) - r.used)
        /\ start' = IF start = "pending" THEN Given(more) ELSE start
    BY DEF ProcessSome, Acmod, Took, StartedBy, Given, FirstOf
  <1>2. /\ (start = "pending" => Opening(am, ceps))
        /\ (start # "pending" => Steady(am, ceps, start) /\ am.nMfc = 0)
        /\ (~am.grow => am.nFeat = 0) /\ IsSeq(chunk) /\ IsSeq(ceps)
        /\ Len(chunk) <= 3 * Win + 1 /\ (plWindow # 0 => Len(chunk) <= MfcAlloc)
    BY CallStarts DEF Short
  <1>3. PICK len \in Nat : len = Len(chunk)
    BY <1>2 DEF IsSeq
  <1>4. r.used \in 0 .. len /\ r.am.nMfc = 0 /\ After(am, r.am, ceps \o more, start', r.used)
    <2>1. CASE start = "pending"
      <3>1. Fresh(am, <<>>, "empty") /\ ceps = <<>> /\ am.nMfc = 0
        BY <1>2, <2>1 DEF Opening
      <3>2. r.used = Len(chunk) /\ After(am, r.am, chunk, Given(chunk), Len(chunk)) /\ r.am.nMfc = am.nMfc
        BY <3>1, <1>2, CepFirst
      <3> HIDE DEF r
      <3>3. more = chunk /\ ceps \o more = chunk
        BY <3>1, <3>2, <1>2, AfterNothing
      <3>4. start' = Given(chunk)
        BY <3>3, <1>1, <2>1
      <3> HIDE DEF more
      <3>5. r.used = len /\ len \in 0 .. len
        BY <3>2, <1>3
      <3>6. r.used \in 0 .. len
        BY ONLY <3>5
      <3>7. After(am, r.am, ceps \o more, start', r.used)
        BY <3>2, <3>3, <3>4
      <3>8. QED
        BY <3>1, <3>2, <3>6, <3>7
    <2>2. CASE start # "pending"
      <3>1. Steady(am, ceps, start) /\ am.nMfc = 0
        BY <1>2, <2>2
      <3>2. /\ r.used \in 0 .. Len(chunk) /\ r.am.nMfc = am.nMfc
            /\ After(am, r.am, ceps \o more, start, r.used)
        BY <3>1, <1>2, CepMore
      <3> HIDE DEF r, more
      <3>3. start' = start
        BY <1>1, <2>2
      <3>4. QED
        BY <3>1, <3>2, <3>3, <1>3
    <2>3. QED
      BY <2>1, <2>2
  <1> HIDE DEF r
  <1>5. PICK used \in 0 .. len : used = r.used
    BY <1>4
  <1>6. IsSeq(more) /\ Len(more) = used
    <2>1. IsSeq(SubSeq(chunk, 1, used)) /\ Len(SubSeq(chunk, 1, used)) = IF 1 <= used THEN used - 1 + 1 ELSE 0
      BY SubSeqIs
    <2>2. more = SubSeq(chunk, 1, used)
      BY <1>5
    <2> HIDE DEF more
    <2>3. (IF 1 <= used THEN used - 1 + 1 ELSE 0) = used
      OBVIOUS
    <2>4. QED
      BY ONLY <2>1, <2>2, <2>3
  <1> HIDE DEF more
  <1>7. IsSeq(chunk') /\ Len(chunk') \in Nat /\ Len(chunk') <= len
    <2>1. PICK m \in Int : m = len - (len - used) + 1
      OBVIOUS
    <2>2. chunk' = SubSeq(chunk, m, len)
      BY <2>1, <1>1, <1>3, <1>5 DEF LastOf
    <2>3. IsSeq(SubSeq(chunk, m, len)) /\ Len(SubSeq(chunk, m, len)) = IF m <= len THEN len - m + 1 ELSE 0
      BY SubSeqIs
    <2>u. used \in Nat /\ used <= len
      BY <1>5
    <2>m. m = used + 1
      BY <2>1, <2>u
    <2>4. (IF m <= len THEN len - m + 1 ELSE 0) = len - used
      BY <2>m, <2>u
    <2>6. len - used \in Nat /\ len - used <= len
      BY <2>u
    <2>5. QED
      BY <2>2, <2>3, <2>4, <2>6
  <1>8. Short(mode, plWindow, chunk')
    <2>1. Win \in Nat /\ MfcAlloc \in Nat
      BY MfcSize, Sizes
    <2>2. PICK n \in Nat : n = Len(chunk') /\ n <= len
      BY <1>7
    <2>3. len <= 3 * Win + 1 /\ (plWindow # 0 => len <= MfcAlloc)
      BY <1>2, <1>3
    <2>4. n <= 3 * Win + 1 /\ (plWindow # 0 => n <= MfcAlloc)
      BY <2>1, <2>2, <2>3
    <2>5. QED
      BY <2>2, <2>4 DEF Short
  <1>9. After(am, am', ceps', start', Len(more)) /\ am'.nMfc = 0
    BY <1>1, <1>4, <1>5, <1>6
  <1>10. plWindow # 0 => Len(more) <= MfcAlloc
    <2>1. plWindow # 0 => len <= MfcAlloc
      BY <1>2, <1>3
    <2>2. MfcAlloc \in Nat /\ used <= len
      BY MfcSize
    <2>3. QED
      BY <2>1, <2>2, <1>6
  <1>11. mode # "full"
    OBVIOUS
  <1>12. QED
    BY <1>1, <1>6, <1>7, <1>8, <1>9, <1>10, <1>11, TookInv

(* ... and of a whole utterance. *)
LEMMA FullInv ==
  ASSUME IInv, ProcessSome, mode = "full" PROVE IInv'
  <1>1. /\ plWindow' = plWindow /\ twoPass' = twoPass /\ mode' = mode /\ noSearch' = noSearch
        /\ utt' = utt /\ fed' = fed /\ looped' = looped /\ searched' = searched /\ again' = again
        /\ pc = "process" /\ pc' = IF noSearch THEN "process" ELSE "forward"
    BY DEF ProcessSome, config, source, history
  <1>2. /\ am' = ProcessFullCep(am, chunk) /\ ceps' = ceps \o chunk /\ chunk' = <<>> /\ chunk # <<>>
        /\ start' = IF start = "pending" THEN "given" ELSE start
    BY DEF ProcessSome, Acmod, Took, StartedBy
  <1>3. /\ Types /\ Sized(am, plWindow, twoPass)
        /\ Feeds(am, ceps, start, pc, mode, noSearch, chunk, fed)
        /\ Searches(am, ceps, start, pc, plWindow, twoPass, looped, searched, again)
        /\ plWindow \in Nat /\ twoPass \in BOOLEAN /\ noSearch \in BOOLEAN /\ fed \in Nat
    BY DEF IInv, Types
  <1>4. Opening(am, ceps) /\ start = "pending" /\ IsSeq(chunk) /\ fed > 0
    BY CallStarts
  <1>5. Fresh(am, <<>>, "empty") /\ ceps = <<>> /\ am.nMfc = 0 /\ am.fe.overflow = <<>> /\ Made(am) = 0 /\ am.senscr = -1
    BY <1>4 DEF Opening, Fresh
  <1>6. ceps' = chunk /\ start' = "given" /\ IsSeq(ceps')
    BY <1>2, <1>4, <1>5, AfterNothing
  <1>7. /\ Stream(am', chunk, "given") /\ Made(am') = Len(chunk) /\ am'.nAlloc >= am.nAlloc /\ Len(chunk) <= am'.nAlloc
        /\ Keeps(am, am', {"featBuf", "nAlloc", "nFeat", "featOut", "fcb"})
    BY <1>2, <1>4, <1>5, FullEffect
  <1>8. /\ am'.output = am.output /\ am'.senscr = am.senscr /\ am'.nMfc = am.nMfc /\ am'.mfcOut = am.mfcOut
        /\ am'.mfcBuf = am.mfcBuf /\ am'.fe = am.fe /\ am'.grow = am.grow
    BY <1>7 DEF Keeps, AmFields
  <1>9. /\ IsAm(am') /\ QueueOK(am') /\ FcbOK(am'.fcb) /\ Ring(am', ceps', start') /\ MfcOK(am')
    BY <1>3, <1>6, <1>7, <1>8 DEF Stream, Sized, MfcOK
  <1>10. Sized(am', plWindow, twoPass)
    <2>1. am'.nAlloc >= MfcAlloc + plWindow
      <3>1. am.nAlloc \in Nat /\ am.nAlloc >= MfcAlloc + plWindow /\ MfcAlloc \in Nat /\ am'.nAlloc \in Nat
        BY <1>3, <1>9, MfcSize DEF Sized, QueueOK
      <3>2. QED
        BY <3>1, <1>3, <1>7
    <2>2. Made(am') <= am'.nAlloc
      BY <1>7
    <2>3. QED
      BY <2>1, <2>2, <1>3, <1>8, <1>9 DEF Sized
  <1>11. Whole(am', ceps', start', <<>>, fed)
    BY <1>4, <1>5, <1>6, <1>7, <1>8, <1>9 DEF Whole
  <1>12. Feeds(am', ceps', start', pc', mode, noSearch, <<>>, fed)
    <2>1. noSearch = TRUE => am.grow = TRUE
      BY <1>1, <1>3 DEF Feeds
    <2>2. QED
      BY <2>1, <1>1, <1>3, <1>4, <1>6, <1>8, <1>11 DEF Feeds
  <1>13. Flushed(am', ceps', pc', mode, twoPass)
    BY <1>1, <1>3 DEF Flushed
  <1>14. Searches(am', ceps', start', pc', plWindow, twoPass, looped, searched, again)
    <2>1. Before(pc) /\ Before(pc')
      BY <1>1, <1>3 DEF Before
    <2>2. QED
      BY <2>1, <1>3, <1>5, <1>8, SearchesFirst
  <1>15. Types'
    <2>1. IsSeq(<<>>) /\ Short(mode, plWindow, <<>>)
      BY EmptyIs DEF Short
    <2>2. QED
      BY <2>1, <1>1, <1>2, <1>3, <1>6 DEF Types, Pcs
  <1>16. QED
    BY <1>1, <1>2, <1>9, <1>10, <1>12, <1>13, <1>14, <1>15 DEF IInv

(* A round of a call keeps the invariant. *)
LEMMA ProcessSomeInv == ASSUME IInv, ProcessSome PROVE IInv'
  <1>1. mode \in {"raw", "cep", "full"}
    BY DEF ProcessSome, Acmod
  <1>2. QED
    BY <1>1, RawInv, CepInv, FullInv

-----------------------------------------------------------------------------
(* The end of the utterance. *)

(* What acmod_end_utt() finds. *)
LEMMA EndStarts ==
  ASSUME IInv, EndOfUtt
  PROVE  /\ plWindow' = plWindow /\ twoPass' = twoPass /\ mode' = mode /\ noSearch' = noSearch
         /\ utt' = utt /\ fed' = fed /\ chunk' = chunk /\ start' = start
         /\ looped' = looped /\ searched' = searched /\ again' = again /\ pc' = "flush" /\ pc = "open"
         /\ am' = EndUtt(am, voiced) /\ ceps' = ceps \o FeEndUtt(am.fe, voiced).out
         /\ Types /\ Sized(am, plWindow, twoPass) /\ Ring(am, ceps, start)
         /\ Searches(am, ceps, start, pc, plWindow, twoPass, looped, searched, again)
         /\ (start = "pending" => Opening(am, ceps))
         /\ (start # "pending" /\ mode # "full" => Steady(am, ceps, start) /\ am.nMfc = 0)
         /\ (start # "pending" /\ mode = "full" => Whole(am, ceps, start, chunk, fed))
         /\ (start # "pending" /\ ~am.grow => am.nFeat = 0)
         /\ plWindow \in Nat /\ twoPass \in BOOLEAN /\ IsSeq(ceps) /\ Before(pc) /\ Before(pc')
  <1>1. pc = "open" /\ Feeds(am, ceps, start, pc, mode, noSearch, chunk, fed) /\ noSearch \in BOOLEAN
    BY DEF IInv, EndOfUtt, Types
  <1>2. (start # "pending" /\ noSearch = TRUE => am.grow = TRUE) /\ (noSearch = FALSE => am.nFeat = 0)
    BY <1>1 DEF Feeds
  <1>3. am.grow \in BOOLEAN
    BY DEF IInv, Sized
  <1>4. start # "pending" /\ ~am.grow => am.nFeat = 0
    BY <1>1, <1>2, <1>3
  <1>5. /\ (start = "pending" => Opening(am, ceps))
        /\ (start # "pending" /\ mode # "full" => Steady(am, ceps, start) /\ am.nMfc = 0)
        /\ (start # "pending" /\ mode = "full" => Whole(am, ceps, start, chunk, fed))
    BY <1>1 DEF Feeds
  <1>6. QED
    BY <1>1, <1>4, <1>5 DEF IInv, EndOfUtt, Types, config, source, history, Before

(* Nothing was left in the front end. *)
LEMMA QuietInv ==
  ASSUME IInv, EndOfUtt, FeEndUtt(am.fe, voiced).out = <<>>
  PROVE  IInv'
  <1>1. /\ Types /\ Sized(am, plWindow, twoPass) /\ Ring(am, ceps, start) /\ IsSeq(ceps)
        /\ (start = "pending" => Opening(am, ceps))
        /\ (start # "pending" /\ mode # "full" => Steady(am, ceps, start) /\ am.nMfc = 0)
        /\ (start # "pending" /\ mode = "full" => Whole(am, ceps, start, chunk, fed))
        /\ Searches(am, ceps, start, pc, plWindow, twoPass, looped, searched, again)
        /\ plWindow \in Nat /\ twoPass \in BOOLEAN /\ Before(pc) /\ Before(pc') /\ pc' = "flush"
    BY EndStarts
  <1>2. IsAm(am) /\ QueueOK(am) /\ FcbOK(am.fcb) /\ MfcOK(am) /\ am.nMfc = 0
    BY <1>1 DEF Sized, Opening, Whole
  <1>3. ceps' = ceps
    BY <1>1, EndStarts, AfterNothing
  <1>4. IsAm(am') /\ Keeps(am, am', {"state", "fe"}) /\ MfcOK(am')
    BY <1>2, EndQuiet, EndStarts
  <1>5. Keeps(am, am', {"state", "fe", "mfcBuf", "nMfc", "mfcOut"})
    BY <1>4 DEF Keeps
  <1>6. /\ am'.grow = am.grow /\ am'.nFeat = am.nFeat /\ am'.nAlloc = am.nAlloc /\ am'.featBuf = am.featBuf
        /\ am'.output = am.output /\ am'.featOut = am.featOut
        /\ Made(am') = Made(am) /\ am'.senscr = am.senscr /\ am'.scores = am.scores /\ am'.fcb = am.fcb
    BY <1>4, <1>5, StreamElsewhere
  <1>7. Sized(am', plWindow, twoPass) /\ Ring(am', ceps, start) /\ Still(am, am')
    BY <1>1, <1>4, <1>6 DEF Sized, QueueOK, Ring, Still
  <1>8. Searches(am', ceps, start, pc', plWindow, twoPass, looped, searched, again)
    BY <1>1, <1>2, <1>6, <1>7, SearchesStill
  <1>9. Flushed(am', ceps, pc', mode, twoPass)
    <2>1. CASE start = "pending"
      <3>1. Made(am) = 0 /\ ceps = <<>> /\ Len(<<>>) = 0
        BY <1>1, <2>1, EmptyIs DEF Opening, Fresh
      <3>2. QED
        BY <3>1, <1>1, <1>6 DEF Flushed
    <2>2. CASE start # "pending" /\ mode = "full"
      BY <1>1, <1>6, <2>2 DEF Flushed, Whole
    <2>3. CASE start # "pending" /\ mode # "full"
      <3>1. Made(am) = Positive(Len(ceps) - Win)
        BY <1>1, <2>3 DEF Steady, Flows
      <3>2. QED
        BY <3>1, <1>1, <1>6, <2>3 DEF Flushed
    <2>4. QED
      BY <2>1, <2>2, <2>3
  <1>10. Types'
    BY <1>1, <1>3, EndStarts DEF Types, Pcs
  <1>11. Feeds(am', ceps, start, pc', mode, noSearch, chunk, fed)
    BY <1>1 DEF Feeds
  <1>12. QED
    BY <1>3, <1>7, <1>8, <1>9, <1>10, <1>11, EndStarts DEF IInv

(* The last frame goes through the feature windows. *)
LEMMA LastFrameInv ==
  ASSUME IInv, EndOfUtt, FeEndUtt(am.fe, voiced).out # <<>>
  PROVE  IInv'
  <1> DEFINE out == FeEndUtt(am.fe, voiced).out
  <1>1. /\ Types /\ Sized(am, plWindow, twoPass) /\ IsSeq(ceps)
        /\ (start = "pending" => Opening(am, ceps))
        /\ (start # "pending" /\ mode # "full" => Steady(am, ceps, start) /\ am.nMfc = 0)
        /\ (start # "pending" /\ mode = "full" => Whole(am, ceps, start, chunk, fed))
        /\ (start # "pending" /\ ~am.grow => am.nFeat = 0)
        /\ Searches(am, ceps, start, pc, plWindow, twoPass, looped, searched, again)
        /\ plWindow \in Nat /\ twoPass \in BOOLEAN /\ Before(pc) /\ Before(pc') /\ pc' = "flush"
    BY EndStarts
  <1>2. /\ IsAm(am) /\ QueueOK(am) /\ MfcOK(am) /\ am.nAlloc >= MfcAlloc + plWindow
        /\ am.grow \in BOOLEAN /\ (twoPass => am.grow = TRUE)
    BY <1>1 DEF Sized
  <1>3. IsSeq(out) /\ Len(out) = 1 /\ am.fe.overflow # <<>>
    BY <1>2, FeEndEffect DEF MfcOK
  <1>4. start # "pending" /\ mode # "full"
    BY <1>1, <1>3 DEF Opening, Whole
  <1>5. Steady(am, ceps, start) /\ am.nMfc = 0 /\ (~am.grow => am.nFeat = 0)
    BY <1>1, <1>4
  <1>6. PICK old \in Nat, pl \in Nat, w \in Nat \ {0}, k \in Nat, o \in Nat, nf \in Nat :
          /\ old = am.nAlloc /\ pl = plWindow /\ w = Win /\ k = Len(ceps) /\ o = am.output /\ nf = am.nFeat
          /\ MfcAlloc = 2 * w + 1
    <2>1. am.nAlloc \in Nat /\ am.output \in Nat /\ am.nFeat \in Nat
      BY <1>2 DEF QueueOK
    <2>2. Len(ceps) \in Nat
      BY <1>1 DEF IsSeq
    <2>3. QED
      BY <2>1, <2>2, <1>1, Sizes, MfcSize
  <1>7. old >= 2 * w + 1 + pl
    BY <1>2, <1>6
  <1>8. am.nAlloc >= 2 * Win + 1
    <2>1. old >= 2 * w + 1
      BY <1>6, <1>7
    <2>2. QED
      BY <2>1, <1>6
  <1>9. Flushes(am, EndUtt(am, voiced), ceps, out, start)
    BY <1>1, <1>5, <1>8, EndSpeech
  <1>10. ceps' = ceps \o out /\ am' = EndUtt(am, voiced) /\ start' = start
    BY EndStarts
  <1> HIDE DEF out
  <1>11. /\ IsAm(am') /\ MfcOK(am') /\ Stream(am', ceps', start) /\ Keeps(am, am', Away) /\ am'.grow = am.grow
         /\ am'.nAlloc >= am.nAlloc /\ (~am.grow => am'.nAlloc = am.nAlloc)
         /\ Made(am') = Len(ceps') \/ (am.grow = FALSE /\ Made(am') = Made(am))
         /\ am.grow => Made(am') < am'.nAlloc /\ Still(am, am')
    BY <1>9, <1>10 DEF Flushes
  <1>12. am'.output = am.output /\ am'.senscr = am.senscr /\ am'.scores = am.scores
    BY <1>11 DEF Keeps, AmFields, Away, Moved
  <1>13. QueueOK(am') /\ FcbOK(am'.fcb) /\ Ring(am', ceps', start)
    BY <1>11 DEF Stream
  <1>14. IsSeq(ceps') /\ Len(ceps') = k + 1
    <2>1. IsSeq(ceps \o out) /\ Len(ceps \o out) = Len(ceps) + Len(out)
      BY <1>1, <1>3, ConcatIs
    <2>2. QED
      BY <2>1, <1>3, <1>6, <1>10
  <1>15. Made(am) = Positive(k - w) /\ Made(am) = o + nf
    BY <1>5, <1>6 DEF Steady, Flows, Made
  <1>16. PICK size \in Nat, n \in Nat, made \in Nat :
           /\ size = am'.nAlloc /\ n = am'.nFeat /\ made = Made(am') /\ made = o + n
    BY <1>6, <1>12, <1>13 DEF QueueOK, Made
  <1>17. (made = k + 1) \/ (am.grow = FALSE /\ made = Positive(k - w))
    BY <1>11, <1>14, <1>15, <1>16
  <1>18. Positive(k - w) \in Nat /\ Positive(k - w) <= k /\ Positive(k - w) >= k - w
    BY <1>6, PositiveIs
  <1>19. Sized(am', plWindow, twoPass)
    <2>1. size >= 2 * w + 1 + pl
      <3>1. size >= old
        BY <1>6, <1>11, <1>16
      <3>2. QED
        BY <3>1, <1>7
    <2>2. am'.nAlloc >= MfcAlloc + plWindow
      BY <2>1, <1>6, <1>16
    <2>3. am'.grow => Made(am') <= am'.nAlloc
      <3>1. am'.grow => made < size
        BY <1>11, <1>16
      <3>2. made < size => made <= size
        OBVIOUS
      <3>3. QED
        BY <3>1, <3>2, <1>16
    <2>4. ~am.grow => am'.nFeat + plWindow <= am'.nAlloc
      <3>1. SUFFICES ASSUME ~am.grow PROVE n + pl <= size
        BY <1>6, <1>16
      <3>2. nf = 0
        BY <3>1, <1>5, <1>6
      <3>3. o = Positive(k - w)
        BY <3>2, <1>15
      <3>4. n <= w + 1
        BY <3>3, <1>6, <1>16, <1>17, <1>18
      <3>5. QED
        BY <3>4, <2>1
    <2>5. QED
      BY <2>2, <2>3, <2>4, <1>2, <1>11, <1>13 DEF Sized
  <1>20. Made(am) <= Made(am') /\ Made(am) <= Positive(Len(ceps) - Win)
    <2>1. Positive(k - w) <= made
      BY <1>17, <1>18
    <2>2. QED
      BY <2>1, <1>6, <1>15, <1>16, <1>18
  <1>21. Searches(am', ceps', start, pc', plWindow, twoPass, looped, searched, again)
    BY <1>1, <1>2, <1>3, <1>10, <1>11, <1>12, <1>13, <1>20, SearchesMore
  <1>22. Flushed(am', ceps', pc', mode, twoPass)
    <2>1. Made(am') = Len(ceps') \/ (twoPass = FALSE /\ Made(am') = Positive(Len(ceps') - Win - 1))
      <3>1. k + 1 - w - 1 = k - w
        BY <1>6
      <3>2. CASE made = k + 1
        BY <3>2, <1>14, <1>16
      <3>3. CASE am.grow = FALSE /\ made = Positive(k - w)
        <4>1. twoPass = FALSE
          BY <3>3, <1>1, <1>2
        <4>2. Len(ceps') - Win - 1 = k - w
          BY <3>1, <1>6, <1>14
        <4>3. QED
          BY <3>3, <4>1, <4>2, <1>16
      <3>4. QED
        BY <3>2, <3>3, <1>17
    <2>2. QED
      BY <2>1, <1>1, <1>4 DEF Flushed
  <1>23. Types'
    BY <1>1, <1>14, EndStarts DEF Types, Pcs
  <1>24. Feeds(am', ceps', start, pc', mode, noSearch, chunk, fed)
    BY <1>1 DEF Feeds
  <1>25. QED
    BY <1>13, <1>19, <1>21, <1>22, <1>23, <1>24, EndStarts DEF IInv

(* ps_end_utt() keeps it. *)
LEMMA EndOfUttInv == ASSUME IInv, EndOfUtt PROVE IInv'
  BY QuietInv, LastFrameInv

-----------------------------------------------------------------------------
(* The theorems. *)

(* An action changes vars or none of them. *)
LEMMA StutterInv == ASSUME IInv, UNCHANGED vars PROVE IInv'
  <1>1. /\ plWindow' = plWindow /\ twoPass' = twoPass /\ am' = am /\ pc' = pc /\ mode' = mode
        /\ noSearch' = noSearch /\ utt' = utt /\ chunk' = chunk /\ fed' = fed /\ ceps' = ceps
        /\ start' = start /\ looped' = looped /\ searched' = searched /\ again' = again
    BY DEF vars, config, source, input, history
  <1>2. Types'
    BY <1>1 DEF IInv, Types
  <1>3. QED
    BY <1>1, <1>2 DEF IInv

(* The inductive invariant: acmod holds the features of the utterance in   *)
(* their slots, and every search has scored some of them.                  *)
THEOREM DecoderInvariant == ASSUME ShortCalls PROVE Spec => []IInv
  <1>1. Init => IInv
    BY InitInv
  <1>2. IInv /\ [Next]_vars => IInv'
    <2> SUFFICES ASSUME IInv, [Next]_vars PROVE IInv'
      OBVIOUS
    <2>1. CASE StartUtt
      BY <2>1, StartUttInv
    <2>2. CASE Process
      BY <2>2, ProcessInv
    <2>3. CASE ProcessSome
      BY <2>3, ProcessSomeInv
    <2>4. CASE ProcessDone
      BY <2>4, ProcessDoneInv
    <2>5. CASE EndOfUtt
      BY <2>5, EndOfUttInv
    <2>6. CASE Forward
      BY <2>6, ForwardInv
    <2>7. CASE ForwardDone
      BY <2>7, ForwardDoneInv
    <2>8. CASE SearchLookahead
      BY <2>8, SearchLookaheadInv
    <2>9. CASE Finish
      BY <2>9, FinishInv
    <2>10. CASE SecondPass
      BY <2>10, SecondPassInv
    <2>11. CASE SecondPassDone
      BY <2>11, SecondPassDoneInv
    <2>12. CASE UNCHANGED vars
      BY <2>12, StutterInv
    <2>13. QED
      BY <2>1, <2>2, <2>3, <2>4, <2>5, <2>6, <2>7, <2>8, <2>9, <2>10, <2>11, <2>12 DEF Next
  <1>3. QED
    BY <1>1, <1>2, PTL DEF Spec

(* No buffer of acmod or of the live features holds more than its size or  *)
(* is used outside it.                                                     *)
THEOREM DecoderTypes == ASSUME ShortCalls PROVE Spec => []TypeOK
  <1>1. IInv => TypeOK
    <2> SUFFICES ASSUME IInv PROVE TypeOK
      OBVIOUS
    <2>1. QueueOK(am) /\ FcbOK(am.fcb) /\ MfcOK(am) /\ Types
      BY DEF IInv, Sized
    <2>2. am.nMfc \in 0 .. MfcAlloc /\ am.mfcOut \in 0 .. MfcAlloc - 1
      BY <2>1 DEF MfcOK
    <2>3. /\ am.nAlloc \in Nat \ {0} /\ am.nFeat \in 0 .. am.nAlloc /\ am.output \in Nat
          /\ am.featOut = Rem(am.output, am.nAlloc)
          /\ am.featBuf = [p \in 0 .. am.nAlloc - 1 |-> am.featBuf[p]]
      BY <2>1 DEF QueueOK
    <2>4. am.featOut \in 0 .. am.nAlloc - 1
      <3>1. am.output \in Int
        BY <2>3
      <3>2. Rem(am.output, am.nAlloc) \in 0 .. am.nAlloc - 1
        BY <2>3, <3>1, RemRange
      <3>3. QED
        BY <2>3, <3>2
    <2>5. DOMAIN am.featBuf = 0 .. am.nAlloc - 1
      BY <2>3
    <2>6. am.fcb.bufpos \in 0 .. BlockSize - 1 /\ am.fcb.curpos \in 0 .. BlockSize - 1
      BY <2>1 DEF FcbOK
    <2>7. /\ pc \in {"idle", "open", "process", "forward", "flush", "finish", "again", "done"}
          /\ utt \in 0 .. MaxUtts
      BY <2>1 DEF Types, Pcs
    <2>8. QED
      BY <2>2, <2>3, <2>4, <2>5, <2>6, <2>7 DEF TypeOK
  <1>2. QED
    BY <1>1, DecoderInvariant, PTL

(* An utterance that is not shorter than the window: its searches are sound. *)
LEMMA NotTooShort ==
  ASSUME IInv, ~TooShort
  PROVE  /\ Seen(am, ceps, start, twoPass, looped, searched, again)
         /\ (pc \in Ends => Len(searched) = Made(am))
         /\ (pc \notin Ends => Len(searched) = Positive(am.output - plWindow))
         /\ (pc = "again" \/ (pc = "done" /\ twoPass = TRUE) => Len(again) = am.output)
         /\ (~ (pc = "again" \/ (pc = "done" /\ twoPass = TRUE)) => Len(again) = 0)
         /\ am.output \in Nat /\ am.nFeat \in Nat /\ Made(am) = am.output + am.nFeat
         /\ IsSeq(looped) /\ IsSeq(searched) /\ IsSeq(again)
         /\ Flushed(am, ceps, pc, mode, twoPass) /\ Types
  <1>1. QueueOK(am) /\ plWindow \in Nat /\ Flushed(am, ceps, pc, mode, twoPass) /\ Types
        /\ Searches(am, ceps, start, pc, plWindow, twoPass, looped, searched, again)
    BY DEF IInv, Sized, Types
  <1>2. am.output \in Nat /\ am.nFeat \in Nat /\ Made(am) = am.output + am.nFeat
    BY <1>1 DEF QueueOK, Made
  <1>3. Made(am) >= plWindow
    <2>1. ~(am.output < plWindow)
      BY DEF TooShort
    <2>2. QED
      BY <2>1, <1>1, <1>2
  <1>4. Sound(am, pc, plWindow)
    BY <1>3 DEF Sound
  <1>5. Seen(am, ceps, start, twoPass, looped, searched, again)
         /\ (pc \in Ends => Len(searched) = Made(am))
         /\ (pc \notin Ends => Len(searched) = Positive(am.output - plWindow))
         /\ (pc = "again" \/ (pc = "done" /\ twoPass = TRUE) => Len(again) = am.output)
         /\ (~ (pc = "again" \/ (pc = "done" /\ twoPass = TRUE)) => Len(again) = 0)
    BY <1>1, <1>4 DEF Searches
  <1>6. IsSeq(looped) /\ IsSeq(searched) /\ IsSeq(again)
    BY <1>5 DEF Seen, Entries
  <1>7. QED
    BY <1>1, <1>2, <1>5, <1>6

(* What is in one of two sequences put together is in one of them. *)
LEMMA OfEither ==
  ASSUME NEW s, IsSeq(s), NEW t, IsSeq(t), NEW x \in ToSet(s \o t)
  PROVE  (\E i \in 1 .. Len(s) : x = s[i]) \/ (\E i \in 1 .. Len(t) : x = t[i])
  <1>1. s \in Seq(Both(s, t)) /\ t \in Seq(Both(s, t)) /\ IsSeq(s \o t)
    BY OfMembers, ConcatIs
  <1>2. PICK m \in Nat, n \in Nat : m = Len(s) /\ n = Len(t)
    BY DEF IsSeq
  <1>3. /\ Len(s \o t) = m + n
        /\ \A i \in 1 .. m + n : (s \o t)[i] = IF i <= m THEN s[i] ELSE t[i - m]
    BY <1>1, <1>2, ConcatProperties
  <1>4. DOMAIN (s \o t) = 1 .. m + n
    BY <1>1, <1>3 DEF IsSeq
  <1>5. PICK i \in 1 .. m + n : x = (s \o t)[i]
    BY <1>4 DEF ToSet
  <1>6. x = IF i <= m THEN s[i] ELSE t[i - m]
    BY <1>3, <1>5
  <1>7. CASE i <= m
    <2>1. i \in 1 .. m
      BY <1>7
    <2>2. QED
      BY <2>1, <1>2, <1>6, <1>7
  <1>8. CASE ~(i <= m)
    <2>1. i - m \in 1 .. n
      BY <1>8
    <2>2. QED
      BY <2>1, <1>2, <1>6, <1>8
  <1>9. QED
    BY <1>7, <1>8

(* What a search saw is the window of its frame, or came of the first      *)
(* cepstra of an utterance that starts with none.                          *)
LEMMA EntryFits ==
  ASSUME NEW seen, NEW made, Entries(seen, made, ceps, start), NEW i \in 1 .. Len(seen)
  PROVE  (start = "empty" /\ seen[i].frame < Win) \/ seen[i].feat = Window(seen[i].frame)
  <1>1. Fits(seen[i].feat, ceps, start, seen[i].frame)
    BY DEF Entries
  <1>2. QED
    BY <1>1 DEF Fits, Window

(* Every score comes from the window of cepstra around the frame it was    *)
(* asked for, however the utterance was cut into calls.                    *)
THEOREM DecoderScoresTheFrame == ASSUME ShortCalls PROVE Spec => []ScoresTheFrame
  <1>1. IInv => ScoresTheFrame
    <2> SUFFICES ASSUME IInv, ~TooShort, NEW s \in ToSet(looped \o searched \o again)
                 PROVE  (start = "empty" /\ s.frame < Win) \/ s.feat = Window(s.frame)
      BY DEF ScoresTheFrame
    <2>1. /\ Entries(looped, Made(am), ceps, start) /\ Entries(searched, Made(am), ceps, start)
          /\ Entries(again, Made(am), ceps, start)
          /\ IsSeq(looped) /\ IsSeq(searched) /\ IsSeq(again) /\ IsSeq(looped \o searched)
      BY NotTooShort, ConcatIs DEF Seen
    <2>2. CASE \E i \in 1 .. Len(again) : s = again[i]
      BY <2>1, <2>2, EntryFits
    <2>3. CASE \E i \in 1 .. Len(looped \o searched) : s = (looped \o searched)[i]
      <3>1. s \in ToSet(looped \o searched)
        <4>1. DOMAIN (looped \o searched) = 1 .. Len(looped \o searched)
          BY <2>1 DEF IsSeq
        <4>2. QED
          BY <4>1, <2>3 DEF ToSet
      <3>2. (\E i \in 1 .. Len(looped) : s = looped[i]) \/ (\E i \in 1 .. Len(searched) : s = searched[i])
        BY <2>1, <3>1, OfEither
      <3>3. QED
        BY <2>1, <3>2, EntryFits
    <2>4. PICK first : first = looped \o searched
      OBVIOUS
    <2>5. s \in ToSet(first \o again) /\ IsSeq(first) /\ IsSeq(again)
      BY <2>1, <2>4
    <2>6. (\E i \in 1 .. Len(first) : s = first[i]) \/ (\E i \in 1 .. Len(again) : s = again[i])
      BY <2>5, OfEither
    <2>7. QED
      BY <2>2, <2>3, <2>4, <2>6
  <1>2. QED
    BY <1>1, DecoderInvariant, PTL

(* The main search sees the frames in order and leaves none out, and at    *)
(* its end has scored all but what no last frame flushed.                  *)
THEOREM DecoderSearchesAllInOrder == ASSUME ShortCalls PROVE Spec => []SearchesAllInOrder
  <1>1. IInv => SearchesAllInOrder
    <2> DEFINE but(n) == IF Len(ceps) > n THEN Len(ceps) - n ELSE 0
    <2> SUFFICES ASSUME IInv, ~TooShort
                 PROVE  /\ \A i \in DOMAIN searched : searched[i].frame = i - 1
                        /\ pc \in {"finish", "again", "done"} =>
                             /\ Len(searched) \in {but(0), but(Win)}
                                                  \cup (IF twoPass THEN {} ELSE {but(Win + 1)})
                             /\ mode = "full" => Len(searched) = but(0)
      BY DEF SearchesAllInOrder
    <2>1. InOrder(searched) /\ IsSeq(searched)
      BY NotTooShort DEF Seen
    <2>2. \A i \in DOMAIN searched : searched[i].frame = i - 1
      <3>1. DOMAIN searched = 1 .. Len(searched)
        BY <2>1 DEF IsSeq
      <3>2. QED
        BY <3>1, <2>1 DEF InOrder
    <2>3. ASSUME pc \in {"finish", "again", "done"}
          PROVE  /\ Len(searched) \in {but(0), but(Win)} \cup (IF twoPass THEN {} ELSE {but(Win + 1)})
                 /\ mode = "full" => Len(searched) = but(0)
      <3>1. Len(searched) = Made(am) /\ Flushed(am, ceps, pc, mode, twoPass) /\ twoPass \in BOOLEAN
        BY <2>3, NotTooShort DEF Ends, Types
      <3>2. PICK k \in Nat, w \in Nat : k = Len(ceps) /\ w = Win
        BY NotTooShort, Sizes DEF Types, IsSeq
      <3>3. /\ Len(ceps) = but(0) /\ Positive(Len(ceps) - Win) = but(Win)
            /\ Positive(Len(ceps) - Win - 1) = but(Win + 1)
        <4>1. k = IF k > 0 THEN k - 0 ELSE 0
          OBVIOUS
        <4>2. Positive(k - w) = IF k > w THEN k - w ELSE 0
          BY DEF Positive
        <4>3. Positive(k - w - 1) = IF k > w + 1 THEN k - (w + 1) ELSE 0
          BY DEF Positive
        <4>4. QED
          BY <4>1, <4>2, <4>3, <3>2
      <3> HIDE DEF but
      <3>4. /\ \/ Made(am) = Len(ceps) \/ Made(am) = Positive(Len(ceps) - Win)
               \/ twoPass = FALSE /\ Made(am) = Positive(Len(ceps) - Win - 1)
            /\ (mode = "full" => Made(am) = Len(ceps))
        BY <2>3, <3>1 DEF Flushed
      <3>5. QED
        BY <3>1, <3>3, <3>4
    <2>4. QED
      BY <2>2, <2>3
  <1>2. QED
    BY <1>1, DecoderInvariant, PTL

(* Both passes have scored the features of one buffer in order. *)
LEMMA SameEntries ==
  ASSUME NEW made, NEW cs, NEW st, NEW buf, NEW s, NEW t,
         Entries(s, made, cs, st), InOrder(s), FromBuf(s, buf),
         Entries(t, made, cs, st), InOrder(t), FromBuf(t, buf), Len(s) <= Len(t)
  PROVE  /\ IsPrefix(s, t)
         /\ Len(s) = Len(t) => s = t
  <1>1. IsSeq(s) /\ IsSeq(t) /\ s \in Seq(Both(s, t)) /\ t \in Seq(Both(s, t))
    BY OfMembers DEF Entries
  <1>2. PICK m \in Nat, n \in Nat : m = Len(s) /\ n = Len(t) /\ m <= n
    BY <1>1 DEF IsSeq
  <1>3. ASSUME NEW i \in 1 .. m PROVE s[i] = t[i]
    <2>1. i \in 1 .. Len(s) /\ i \in 1 .. Len(t)
      BY <1>2
    <2>2. s[i].frame = i - 1 /\ t[i].frame = i - 1
      BY <2>1 DEF InOrder
    <2>3. s[i].feat = buf[i - 1] /\ t[i].feat = buf[i - 1]
      BY <2>1 DEF FromBuf
    <2>4. s[i] = [frame |-> s[i].frame, feat |-> s[i].feat] /\ t[i] = [frame |-> t[i].frame, feat |-> t[i].feat]
      BY <2>1 DEF Entries
    <2>5. QED
      BY <2>2, <2>3, <2>4
  <1>4. \A i \in 1 .. m : s[i] \in Both(s, t) /\ t[i] \in Both(s, t)
    BY <1>2, <1>3 DEF Both, Members
  <1>5. /\ SubSeq(s, 1, m) \in Seq(Both(s, t)) /\ SubSeq(t, 1, m) \in Seq(Both(s, t))
        /\ Len(SubSeq(s, 1, m)) = m /\ Len(SubSeq(t, 1, m)) = m
        /\ \A i \in 1 .. m : SubSeq(s, 1, m)[i] = s[i] /\ SubSeq(t, 1, m)[i] = t[i]
    <2>1. /\ SubSeq(s, 1, m) \in Seq(Both(s, t)) /\ SubSeq(t, 1, m) \in Seq(Both(s, t))
          /\ Len(SubSeq(s, 1, m)) = (IF 1 <= m THEN m - 1 + 1 ELSE 0)
          /\ Len(SubSeq(t, 1, m)) = (IF 1 <= m THEN m - 1 + 1 ELSE 0)
          /\ \A i \in 1 .. m - 1 + 1 : SubSeq(s, 1, m)[i] = s[1 + i - 1] /\ SubSeq(t, 1, m)[i] = t[1 + i - 1]
      BY <1>4, SubSeqProperties
    <2>2. (IF 1 <= m THEN m - 1 + 1 ELSE 0) = m /\ m - 1 + 1 = m /\ \A i \in 1 .. m : 1 + i - 1 = i
      OBVIOUS
    <2>3. QED
      BY <2>1, <2>2
  <1>6. SubSeq(s, 1, m) = SubSeq(t, 1, m)
    <2>1. \A i \in 1 .. Len(SubSeq(s, 1, m)) : SubSeq(s, 1, m)[i] = SubSeq(t, 1, m)[i]
      BY <1>3, <1>5
    <2>2. QED
      BY <2>1, <1>5, SeqEqual
  <1>7. IsPrefix(s, t)
    BY <1>2, <1>6 DEF IsPrefix
  <1>8. ASSUME Len(s) = Len(t) PROVE s = t
    <2>1. \A i \in 1 .. Len(s) : s[i] = t[i]
      BY <1>2, <1>3
    <2>2. QED
      BY <2>1, <1>1, <1>8, SeqEqual
  <1>9. QED
    BY <1>7, <1>8

(* The second pass scores the same frames from the same cepstra as the     *)
(* first.                                                                  *)
THEOREM DecoderSecondPassAgrees == ASSUME ShortCalls PROVE Spec => []SecondPassAgrees
  <1>1. IInv => SecondPassAgrees
    <2> SUFFICES ASSUME IInv, twoPass, ~TooShort
                 PROVE  IsPrefix(again, searched) /\ (pc = "done" => again = searched)
      BY DEF SecondPassAgrees
    <2>1. twoPass = TRUE
      BY NotTooShort DEF Types
    <2>2. /\ Entries(searched, Made(am), ceps, start) /\ InOrder(searched) /\ FromBuf(searched, am.featBuf)
          /\ Entries(again, Made(am), ceps, start) /\ InOrder(again) /\ FromBuf(again, am.featBuf)
      BY <2>1, NotTooShort DEF Seen
    <2>3. PICK out \in Nat, n \in Nat, m \in Nat, k \in Nat :
            out = am.output /\ n = am.nFeat /\ m = Len(again) /\ k = Len(searched) /\ Made(am) = out + n
      BY NotTooShort DEF IsSeq
    <2>4. /\ (pc = "again" \/ pc = "done" => m = out /\ k = out + n)
          /\ (~(pc = "again" \/ pc = "done") => m = 0)
          /\ (pc = "done" => n = 0)
      BY <2>1, <2>3, NotTooShort DEF Ends, Flushed
    <2>5. m <= k /\ (pc = "done" => m = k)
      BY <2>3, <2>4
    <2>6. Len(again) <= Len(searched) /\ (pc = "done" => Len(again) = Len(searched))
      BY <2>3, <2>5
    <2>7. QED
      BY <2>2, <2>6, SameEntries
  <1>2. QED
    BY <1>1, DecoderInvariant, PTL
=============================================================================
