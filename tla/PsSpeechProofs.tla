----------------------------- MODULE PsSpeechProofs -----------------------------
(***************************************************************************)
(* Proofs about what the front end of pocketsphinx makes of the samples,   *)
(* for any sizes of the frames, of their shift, of the prespeech buffer    *)
(* and of the cepstrum buffer, for any voice and any way to cut an         *)
(* utterance into calls: the decoder is given the speech of the signal.    *)
(*                                                                         *)
(* A run of voiced frames makes speech begin and end where the pattern as  *)
(* a whole says so, and the prespeech buffer has the frames of that run.   *)
(* Between calls the overflow has the samples of the frame to come, so     *)
(* that each frame starts a shift after the one before.  PsDecoderProofs   *)
(* says that there is always room enough for what comes out.               *)
(***************************************************************************)
EXTENDS PsDecoderProofs

-----------------------------------------------------------------------------
(* Speech() is a function of its rounds. *)
LEMMA SpeechRounds ==
  ASSUME NEW v, NEW n \in Nat
  PROVE  \E r : /\ Speech(v, n) = r[n] /\ r[0] = <<>>
                /\ \A k \in 1 .. n : r[k] = IF IsSpeech(v, n, k) THEN Append(r[k - 1], k) ELSE r[k - 1]
  <1> DEFINE arg == [k \in 1 .. n |-> IsSpeech(v, n, k)]
             step(h) == [k \in 0 .. n |->
                           IF k = 0 THEN <<>>
                           ELSE IF IsSpeech(v, n, k) THEN Append(h[k - 1], k) ELSE h[k - 1]]
             d == CHOOSE h : h = step(h)
  <1>1. Speech(v, n) = d[n]
    BY DEF Speech
  <1>2. \A k \in 1 .. n : arg[k] = IsSpeech(v, n, k)
    OBVIOUS
  <1> HIDE DEF arg
  <1>3. ASSUME NEW h
        PROVE  h = step(h) <=> Runs(h, "speech", <<>>, arg, n)
    <2>1. \A k \in 0 .. n : k # 0 => k \in 1 .. n
      OBVIOUS
    <2>2. \A k \in 0 .. n :
            (IF k = 0 THEN <<>>
             ELSE IF IsSpeech(v, n, k) THEN Append(h[k - 1], k) ELSE h[k - 1])
            = IF k = 0 THEN <<>> ELSE Round("speech", h[k - 1], arg, k)
      BY <2>1, <1>2 DEF Round
    <2>3. QED
      BY <2>2 DEF Runs
  <1> HIDE DEF step
  <1>4. PICK h : h = step(h)
    BY <1>3, LoopEnds
  <1>5. d = step(d)
    BY <1>4
  <1> HIDE DEF d
  <1>6. Runs(d, "speech", <<>>, arg, n)
    BY <1>3, <1>5
  <1>7. d[0] = <<>> /\ \A k \in 1 .. n : d[k] = Round("speech", d[k - 1], arg, k)
    <2>1. PICK none : none = <<>>
      OBVIOUS
    <2>2. Runs(d, "speech", none, arg, n)
      BY <1>6, <2>1
    <2>3. d[0] = none /\ \A k \in 1 .. n : d[k] = Round("speech", d[k - 1], arg, k)
      BY <2>2, LoopGoes
    <2>4. QED
      BY <2>1, <2>3
  <1>8. \A k \in 1 .. n : d[k] = IF IsSpeech(v, n, k) THEN Append(d[k - 1], k) ELSE d[k - 1]
    BY <1>2, <1>7 DEF Round
  <1>9. QED
    BY <1>1, <1>7, <1>8

(* A run of num frames that goes on is long enough, or not. *)
LEMMA RunGoesOn ==
  ASSUME NEW v, NEW value, NEW len \in Nat \ {0}, NEW n \in Nat, NEW num \in Nat, num <= n,
         \A i \in n - num + 1 .. n : v[i] = value, num < n => v[n - num] # value,
         v[n + 1] = value
  PROVE  RunEnds(v, value, len, n + 1) <=> num + 1 >= len
  <1>1. CASE num + 1 >= len
    <2>1. \A i \in (n + 1) - len + 1 .. n + 1 : i \in n - num + 1 .. n \/ i = n + 1
      BY <1>1
    <2>2. n + 1 >= len
      BY <1>1
    <2>3. QED
      BY <1>1, <2>1, <2>2 DEF RunEnds
  <1>2. CASE ~ (num + 1 >= len)
    <2>1. CASE num = n
      BY <1>2, <2>1 DEF RunEnds
    <2>2. CASE num < n
      <3>1. n - num \in (n + 1) - len + 1 .. n + 1
        BY <1>2, <2>2
      <3>2. QED
        BY <1>2, <2>2, <3>1 DEF RunEnds
    <2>3. QED
      BY <2>1, <2>2
  <1>3. QED
    BY <1>1, <1>2

(* A frame that is not part of it ends a run. *)
LEMMA RunBroken ==
  ASSUME NEW v, NEW value, NEW len \in Nat \ {0}, NEW n \in Nat, v[n + 1] # value
  PROVE  ~RunEnds(v, value, len, n + 1)
  <1>1. n + 1 \in (n + 1) - len + 1 .. n + 1
    OBVIOUS
  <1>2. QED
    BY <1>1 DEF RunEnds

(* Speech is on, with a frame more. *)
LEMMA InSpeechNext ==
  ASSUME NEW v, NEW n \in Nat
  PROVE  InSpeech(v, n + 1) <=> /\ InSpeech(v, n) \/ SpeechStarts(v, n + 1)
                                /\ ~RunEnds(v, FALSE, PostspchLen, n + 1)
  <1> DEFINE Silent(i) == RunEnds(v, FALSE, PostspchLen, i)
  <1>1. InSpeech(v, n + 1) <=> \E j \in 1 .. n + 1 : SpeechStarts(v, j) /\ \A i \in j .. n + 1 : ~Silent(i)
    BY DEF InSpeech
  <1>2. InSpeech(v, n) <=> \E j \in 1 .. n : SpeechStarts(v, j) /\ \A i \in j .. n : ~Silent(i)
    BY DEF InSpeech
  <1> HIDE DEF Silent
  <1>3. ASSUME InSpeech(v, n + 1)
        PROVE  (InSpeech(v, n) \/ SpeechStarts(v, n + 1)) /\ ~Silent(n + 1)
    <2>1. PICK j \in 1 .. n + 1 : SpeechStarts(v, j) /\ \A i \in j .. n + 1 : ~Silent(i)
      BY <1>1, <1>3
    <2>2. ~Silent(n + 1)
      BY <2>1
    <2>3. CASE j = n + 1
      BY <2>1, <2>2, <2>3
    <2>4. CASE j # n + 1
      <3>1. j \in 1 .. n /\ \A i \in j .. n : i \in j .. n + 1
        BY <2>4
      <3>2. QED
        BY <1>2, <2>1, <2>2, <3>1
    <2>5. QED
      BY <2>3, <2>4
  <1>4. ASSUME InSpeech(v, n), ~Silent(n + 1)
        PROVE  InSpeech(v, n + 1)
    <2>1. PICK j \in 1 .. n : SpeechStarts(v, j) /\ \A i \in j .. n : ~Silent(i)
      BY <1>2, <1>4
    <2>2. j \in 1 .. n + 1 /\ \A i \in j .. n + 1 : i \in j .. n \/ i = n + 1
      OBVIOUS
    <2>3. \A i \in j .. n + 1 : ~Silent(i)
      BY <1>4, <2>1, <2>2
    <2>4. QED
      BY <1>1, <2>1, <2>2, <2>3
  <1>5. ASSUME SpeechStarts(v, n + 1), ~Silent(n + 1)
        PROVE  InSpeech(v, n + 1)
    <2>1. n + 1 \in 1 .. n + 1 /\ \A i \in n + 1 .. n + 1 : i = n + 1
      OBVIOUS
    <2>2. QED
      BY <1>1, <1>5, <2>1
  <1>6. QED
    BY <1>3, <1>4, <1>5 DEF Silent

(* The front end's numbers. *)
LEMMA SpchNumbers == PrespchLen \in Nat \ {0} /\ PostspchLen \in Nat \ {0}
  BY SpchAssumption

(* The smaller of two. *)
LEMMA NoMoreIs ==
  ASSUME NEW m \in Int, NEW n \in Int
  PROVE  NoMoreThan(m, n) \in Int /\ \A j \in Int : j <= NoMoreThan(m, n) <=> j <= m /\ j <= n
  BY DEF NoMoreThan

(* What makes a frame speech, of n that were analysed. *)
LEMMA IsSpeechMeans ==
  ASSUME NEW v, NEW n \in Nat, NEW k \in Nat
  PROVE  IsSpeech(v, n, k) <=>
           \/ InSpeech(v, k)
           \/ \E j \in Nat : k <= j /\ j <= k + PrespchLen - 1 /\ j <= n /\ SpeechStarts(v, j)
  <1>1. PICK m \in Int : m = k + PrespchLen - 1
    BY SpchNumbers
  <1>2. \A j : j \in k .. NoMoreThan(m, n) <=> j \in Nat /\ k <= j /\ j <= m /\ j <= n
    <2>1. PICK least \in Int : least = NoMoreThan(m, n)
      BY NoMoreIs
    <2>2. \A j \in Int : j <= least <=> j <= m /\ j <= n
      BY <2>1 DEF NoMoreThan
    <2>3. \A j : j \in k .. least <=> j \in Nat /\ k <= j /\ j <= m /\ j <= n
      BY <2>2
    <2>4. QED
      BY <2>1, <2>3
  <1>3. IsSpeech(v, n, k) <=> InSpeech(v, k) \/ \E j \in k .. NoMoreThan(m, n) : SpeechStarts(v, j)
    BY <1>1 DEF IsSpeech
  <1>4. QED
    BY <1>1, <1>2, <1>3

(* Speech ends in no frame that is voiced. *)
LEMMA VoicedGoesOn ==
  ASSUME NEW v, NEW i \in Nat, v[i] = TRUE
  PROVE  ~RunEnds(v, FALSE, PostspchLen, i)
  <1>1. i \in i - PostspchLen + 1 .. i
    BY SpchNumbers
  <1>2. QED
    BY <1>1 DEF RunEnds

(* Speech that was on is still on after frames that are voiced. *)
LEMMA InSpeechWhileVoiced ==
  ASSUME NEW v, NEW k \in Nat, NEW n \in Nat, k <= n, \A i \in k + 1 .. n : v[i] = TRUE,
         InSpeech(v, k)
  PROVE  InSpeech(v, n)
  <1>1. PICK j \in 1 .. k : SpeechStarts(v, j) /\ \A i \in j .. k : ~RunEnds(v, FALSE, PostspchLen, i)
    BY DEF InSpeech
  <1>2. \A i \in j .. n : i \in j .. k \/ i \in k + 1 .. n
    OBVIOUS
  <1>3. \A i \in k + 1 .. n : ~RunEnds(v, FALSE, PostspchLen, i)
    <2>1. \A i \in k + 1 .. n : i \in Nat
      OBVIOUS
    <2>2. QED
      BY <2>1, VoicedGoesOn
  <1>4. j \in 1 .. n
    OBVIOUS
  <1>5. QED
    BY <1>1, <1>2, <1>3, <1>4 DEF InSpeech

(* It is on where it starts. *)
LEMMA InSpeechFromStart ==
  ASSUME NEW v, NEW k \in Nat \ {0}, SpeechStarts(v, k), v[k] = TRUE
  PROVE  InSpeech(v, k)
  <1>1. k \in 1 .. k /\ \A i \in k .. k : i = k
    OBVIOUS
  <1>2. ~RunEnds(v, FALSE, PostspchLen, k)
    BY VoicedGoesOn
  <1>3. QED
    BY <1>1, <1>2 DEF InSpeech

(* A frame is speech, or not, with a frame more. *)
LEMMA IsSpeechNext ==
  ASSUME NEW v, NEW n \in Nat, NEW k \in 1 .. n, InSpeech(v, n) \/ ~SpeechStarts(v, n + 1)
  PROVE  IsSpeech(v, n + 1, k) <=> IsSpeech(v, n, k)
  <1>1. PICK m \in Int : m = k + PrespchLen - 1
    BY SpchNumbers
  <1>2. \A p \in {n, n + 1} : IsSpeech(v, p, k) <=>
           \/ InSpeech(v, k)
           \/ \E j \in Nat : k <= j /\ j <= m /\ j <= p /\ SpeechStarts(v, j)
    <2>1. n \in Nat /\ n + 1 \in Nat /\ k \in Nat
      OBVIOUS
    <2>2. QED
      BY <1>1, <2>1, IsSpeechMeans
  <1>3. ASSUME IsSpeech(v, n, k)
        PROVE  IsSpeech(v, n + 1, k)
    BY <1>2, <1>3
  <1>4. ASSUME IsSpeech(v, n + 1, k), ~IsSpeech(v, n, k)
        PROVE  FALSE
    <2>1. PICK j \in Nat : k <= j /\ j <= m /\ j <= n + 1 /\ SpeechStarts(v, j)
      BY <1>2, <1>4
    <2>2. j = n + 1 /\ InSpeech(v, n)
      BY <1>2, <1>4, <2>1
    <2>3. PICK i \in 1 .. n : SpeechStarts(v, i) /\ \A q \in i .. n : ~RunEnds(v, FALSE, PostspchLen, q)
      BY <2>2 DEF InSpeech
    <2>4. CASE i <= k
      <3>1. i \in 1 .. k /\ \A q \in i .. k : q \in i .. n
        BY <2>4
      <3>2. InSpeech(v, k)
        BY <2>3, <3>1 DEF InSpeech
      <3>3. QED
        BY <1>2, <1>4, <3>2
    <2>5. CASE i > k
      <3>1. i \in Nat /\ k <= i /\ i <= m /\ i <= n
        BY <2>1, <2>2, <2>5
      <3>2. QED
        BY <1>2, <1>4, <2>3, <3>1
    <2>6. QED
      BY <2>4, <2>5
  <1>5. QED
    BY <1>3, <1>4

(* Speech that begins takes the frames that made it begin, and none before *)
(* them.                                                                   *)
LEMMA IsSpeechBegins ==
  ASSUME NEW v, NEW n \in Nat, ~InSpeech(v, n), SpeechStarts(v, n + 1), NEW k \in 1 .. n + 1
  PROVE  /\ k <= n + 1 - PrespchLen => (IsSpeech(v, n + 1, k) <=> IsSpeech(v, n, k))
         /\ k > n + 1 - PrespchLen => IsSpeech(v, n + 1, k) /\ (k <= n => ~IsSpeech(v, n, k))
  <1>1. PICK m \in Int, p \in Nat \ {0} : m = k + p - 1 /\ p = PrespchLen
    BY SpchNumbers
  <1>2. \A q \in {n, n + 1} : IsSpeech(v, q, k) <=>
           \/ InSpeech(v, k)
           \/ \E j \in Nat : k <= j /\ j <= m /\ j <= q /\ SpeechStarts(v, j)
    <2>1. n \in Nat /\ n + 1 \in Nat /\ k \in Nat
      OBVIOUS
    <2>2. QED
      BY <1>1, <2>1, IsSpeechMeans
  <1>3. ASSUME k <= n + 1 - p
        PROVE  IsSpeech(v, n + 1, k) <=> IsSpeech(v, n, k)
    <2>1. \A j \in Nat : j <= m => j <= n
      BY <1>1, <1>3
    <2>2. QED
      BY <1>2, <2>1
  <1>4. \A i \in n + 2 - p .. n + 1 : v[i] = TRUE
    BY <1>1 DEF SpeechStarts, RunEnds
  <1>5. ASSUME k > n + 1 - p
        PROVE  IsSpeech(v, n + 1, k) /\ (k <= n => ~IsSpeech(v, n, k))
    <2>1. IsSpeech(v, n + 1, k)
      <3>1. n + 1 \in Nat /\ k <= n + 1 /\ n + 1 <= m
        BY <1>1, <1>5
      <3>2. QED
        BY <1>2, <3>1
    <2>2. ASSUME k <= n, InSpeech(v, k)
          PROVE  FALSE
      <3>1. \A i \in k + 1 .. n : v[i] = TRUE
        BY <1>4, <1>5
      <3>2. k \in Nat
        OBVIOUS
      <3>3. InSpeech(v, n)
        BY <2>2, <3>1, <3>2, InSpeechWhileVoiced
      <3>4. QED
        BY <3>3
    <2>3. ASSUME NEW j \in Nat, k <= j, j <= n, SpeechStarts(v, j)
          PROVE  FALSE
      <3>1. \A i \in j + 1 .. n : v[i] = TRUE
        BY <1>4, <1>5, <2>3
      <3>2. v[j] = TRUE /\ j \in Nat \ {0}
        BY <1>4, <1>5, <2>3
      <3>3. InSpeech(v, j)
        BY <2>3, <3>2, InSpeechFromStart
      <3>4. InSpeech(v, n)
        BY <2>3, <3>1, <3>3, InSpeechWhileVoiced
      <3>5. QED
        BY <3>4
    <2>4. k <= n => ~IsSpeech(v, n, k)
      BY <1>2, <2>2, <2>3
    <2>5. QED
      BY <2>1, <2>4
  <1>6. QED
    BY <1>1, <1>3, <1>5

(* The frame itself. *)
LEMMA IsSpeechItself ==
  ASSUME NEW v, NEW n \in Nat
  PROVE  IsSpeech(v, n + 1, n + 1) <=> InSpeech(v, n + 1)
  <1>1. IsSpeech(v, n + 1, n + 1) <=>
           \/ InSpeech(v, n + 1)
           \/ \E j \in Nat : n + 1 <= j /\ j <= n + 1 + PrespchLen - 1 /\ j <= n + 1 /\ SpeechStarts(v, j)
    BY IsSpeechMeans
  <1>2. ASSUME NEW j \in Nat, n + 1 <= j, j <= n + 1, SpeechStarts(v, j)
        PROVE  InSpeech(v, n + 1)
    <2>1. j = n + 1
      BY <1>2
    <2>2. v[n + 1] = TRUE
      <3>1. n + 1 \in n + 1 - PrespchLen + 1 .. n + 1
        BY SpchNumbers
      <3>2. SpeechStarts(v, n + 1)
        BY <1>2, <2>1
      <3>3. \A i \in n + 1 - PrespchLen + 1 .. n + 1 : v[i] = TRUE
        BY <3>2, SpchNumbers DEF SpeechStarts, RunEnds
      <3>4. QED
        BY <3>1, <3>3
    <2>3. ~RunEnds(v, FALSE, PostspchLen, n + 1)
      <3>1. n + 1 \in Nat
        OBVIOUS
      <3>2. QED
        BY <2>2, <3>1, VoicedGoesOn
    <2>4. QED
      BY <1>2, <2>1, <2>3, InSpeechNext
  <1>3. QED
    BY <1>1, <1>2

(* The numbers below n that p selects, r[k] of them up to k. *)
Selects(r, p, n) ==
  r[0] = <<>> /\ \A k \in 1 .. n : r[k] = IF p[k] = TRUE THEN Append(r[k - 1], k) ELSE r[k - 1]

(* The frames that are speech. *)
Spoken(v, n) == [k \in 1 .. n |-> IF IsSpeech(v, n, k) THEN TRUE ELSE FALSE]

(* They are what is selected.                                              *)
LEMMA SpeechSelects ==
  ASSUME NEW v, NEW n \in Nat
  PROVE  \E r : Selects(r, Spoken(v, n), n) /\ Speech(v, n) = r[n]
  <1>1. PICK r : /\ Speech(v, n) = r[n] /\ r[0] = <<>>
                 /\ \A k \in 1 .. n : r[k] = IF IsSpeech(v, n, k) THEN Append(r[k - 1], k) ELSE r[k - 1]
    BY SpeechRounds
  <1>2. \A k \in 1 .. n : Spoken(v, n)[k] = TRUE <=> IsSpeech(v, n, k)
    BY DEF Spoken
  <1>3. Selects(r, Spoken(v, n), n)
    BY <1>1, <1>2 DEF Selects
  <1>4. QED
    BY <1>1, <1>3

(* They are numbers of frames. *)
LEMMA SelectsNumbers ==
  ASSUME NEW n \in Nat, NEW r, NEW p, Selects(r, p, n)
  PROVE  \A k \in 0 .. n : r[k] \in Seq(1 .. n)
  <1> DEFINE S == {k \in 0 .. n : r[k] \in Seq(1 .. n)}
  <1>1. 0 \in S
    <2>1. PICK none : none = <<>>
      OBVIOUS
    <2>2. none \in Seq(1 .. n)
      BY <2>1, EmptySeq
    <2>3. r[0] = none
      BY <2>1 DEF Selects
    <2>4. QED
      BY <2>2, <2>3
  <1>2. ASSUME NEW k \in 1 .. n, k - 1 \in S
        PROVE  k \in S
    <2>1. r[k - 1] \in Seq(1 .. n)
      BY <1>2
    <2>2. Append(r[k - 1], k) \in Seq(1 .. n)
      BY <2>1, AppendProperties
    <2>3. r[k] = Append(r[k - 1], k) \/ r[k] = r[k - 1]
      BY DEF Selects
    <2>4. r[k] \in Seq(1 .. n)
      BY <2>1, <2>2, <2>3
    <2>5. QED
      BY <2>4
  <1>3. 0 .. n \subseteq S
    <2> HIDE DEF S
    <2>1. QED BY <1>1, <1>2, UpTo
  <1>4. QED
    BY <1>3

(* The same frames are selected as long as it is by the same. *)
LEMMA SelectsSame ==
  ASSUME NEW m \in Nat, NEW n \in Nat, NEW r, NEW p, Selects(r, p, m), NEW s, NEW q, Selects(s, q, n),
         NEW to \in Nat, to <= m, to <= n, \A k \in 1 .. to : p[k] = q[k]
  PROVE  r[to] = s[to]
  <1> DEFINE S == {k \in 0 .. to : r[k] = s[k]}
  <1>1. 0 \in S
    BY DEF Selects
  <1>2. ASSUME NEW k \in 1 .. to, k - 1 \in S
        PROVE  k \in S
    <2>1. r[k - 1] = s[k - 1] /\ p[k] = q[k] /\ k \in 1 .. m /\ k \in 1 .. n
      BY <1>2
    <2>2. QED
      BY <2>1 DEF Selects
  <1>3. 0 .. to \subseteq S
    <2> HIDE DEF S
    <2>1. QED BY <1>1, <1>2, UpTo
  <1>4. QED
    BY <1>3

(* Where none is selected there are no more. *)
LEMMA SelectsNone ==
  ASSUME NEW n \in Nat, NEW r, NEW p, Selects(r, p, n), NEW from \in Nat, from <= n,
         \A k \in from + 1 .. n : p[k] # TRUE
  PROVE  r[n] = r[from]
  <1> DEFINE S == {d \in 0 .. n - from : r[from + d] = r[from]}
  <1>1. 0 \in S
    OBVIOUS
  <1>2. ASSUME NEW d \in 1 .. n - from, d - 1 \in S
        PROVE  d \in S
    <2>1. from + d \in 1 .. n /\ from + d \in from + 1 .. n /\ from + d - 1 = from + (d - 1)
      OBVIOUS
    <2>2. r[from + (d - 1)] = r[from]
      BY <1>2
    <2>3. r[from + d] = r[from + d - 1]
      <3>1. PICK k \in 1 .. n : k = from + d /\ p[k] # TRUE
        BY <2>1
      <3>2. r[k] = r[k - 1]
        BY <3>1 DEF Selects
      <3>3. QED
        BY <3>1, <3>2
    <2>4. QED
      BY <2>1, <2>2, <2>3
  <1>3. 0 .. n - from \subseteq S
    <2> HIDE DEF S
    <2>1. n - from \in Nat
      OBVIOUS
    <2>2. QED BY <1>1, <1>2, <2>1, UpTo
  <1>4. n - from \in 0 .. n - from /\ from + (n - from) = n
    OBVIOUS
  <1>5. n - from \in S
    BY <1>3, <1>4
  <1>6. QED
    BY <1>4, <1>5

(* The numbers after one, so many of them. *)
Numbers(from, d) == [i \in 1 .. d |-> from + i]

(* With one more of them.                                                  *)
LEMMA NumbersMore ==
  ASSUME NEW from \in Nat, NEW d \in Nat
  PROVE  /\ Numbers(from, d) \in Seq(Nat) /\ Len(Numbers(from, d)) = d
         /\ Numbers(from, d + 1) = Append(Numbers(from, d), from + d + 1)
  <1>1. Numbers(from, d) \in [1 .. d -> Nat] /\ Numbers(from, d + 1) \in [1 .. d + 1 -> Nat]
    BY DEF Numbers
  <1>2. /\ Numbers(from, d) \in Seq(Nat) /\ Len(Numbers(from, d)) = d
        /\ Numbers(from, d + 1) \in Seq(Nat) /\ Len(Numbers(from, d + 1)) = d + 1
    <2>1. d + 1 \in Nat
      OBVIOUS
    <2>2. QED
      BY <1>1, <2>1, IsASeq, LenProperties DEF Numbers
  <1>3. from + d + 1 \in Nat
    OBVIOUS
  <1>4. /\ Append(Numbers(from, d), from + d + 1) \in Seq(Nat)
        /\ Len(Append(Numbers(from, d), from + d + 1)) = d + 1
        /\ \A i \in 1 .. d : Append(Numbers(from, d), from + d + 1)[i] = Numbers(from, d)[i]
        /\ Append(Numbers(from, d), from + d + 1)[d + 1] = from + d + 1
    BY <1>2, <1>3, AppendProperties
  <1>5. \A i \in 1 .. d + 1 : Numbers(from, d + 1)[i] = Append(Numbers(from, d), from + d + 1)[i]
    <2>1. \A i \in 1 .. d + 1 : i \in 1 .. d \/ i = d + 1
      OBVIOUS
    <2>2. \A i \in 1 .. d + 1 : Numbers(from, d + 1)[i] = from + i
      BY DEF Numbers
    <2>3. \A i \in 1 .. d : Numbers(from, d)[i] = from + i
      BY DEF Numbers
    <2>4. from + (d + 1) = from + d + 1
      OBVIOUS
    <2>5. QED
      BY <1>4, <2>1, <2>2, <2>3, <2>4
  <1>6. QED
    BY <1>2, <1>4, <1>5, SeqEqual

(* Where all are selected there are all of them. *)
LEMMA SelectsAll ==
  ASSUME NEW n \in Nat, NEW r, NEW p, Selects(r, p, n), NEW from \in Nat, from <= n,
         \A k \in from + 1 .. n : p[k] = TRUE
  PROVE  r[n] = r[from] \o Numbers(from, n - from)
  <1> DEFINE S == {d \in 0 .. n - from : r[from + d] = r[from] \o Numbers(from, d)}
  <1>0. \A k \in 0 .. n : r[k] \in Seq(Nat)
    <2>1. \A k \in 0 .. n : r[k] \in Seq(1 .. n)
      BY SelectsNumbers
    <2>2. 1 .. n \subseteq Nat
      OBVIOUS
    <2>3. QED
      BY <2>1, <2>2, SeqMonotonic
  <1>1. 0 \in S
    <2>1. PICK none : none = Numbers(from, 0)
      OBVIOUS
    <2>2. none = <<>>
      <3>1. none \in Seq(Nat) /\ Len(none) = 0
        BY <2>1, NumbersMore
      <3>2. QED
        BY <3>1, EmptySeq
    <2>3. r[from] \o none = r[from]
      BY <1>0, <2>2, ConcatEmptySeq
    <2>4. from + 0 = from /\ 0 \in 0 .. n - from
      OBVIOUS
    <2>5. r[from + 0] = r[from] \o Numbers(from, 0)
      BY <2>1, <2>3, <2>4
    <2>6. QED
      BY <2>4, <2>5
  <1>2. ASSUME NEW d \in 1 .. n - from, d - 1 \in S
        PROVE  d \in S
    <2>1. from + d \in 1 .. n /\ from + d \in from + 1 .. n /\ from + d - 1 = from + (d - 1) /\ d - 1 \in Nat
      OBVIOUS
    <2>2. PICK e \in Nat : e = d - 1 /\ d = e + 1 /\ from + d = from + e + 1 /\ from + d - 1 = from + e
      BY <2>1
    <2>3. r[from + e] = r[from] \o Numbers(from, e)
      BY <1>2, <2>2
    <2>4. r[from + d] = Append(r[from + d - 1], from + d)
      <3>1. PICK k \in 1 .. n : k = from + d /\ p[k] = TRUE
        BY <2>1
      <3>2. r[k] = Append(r[k - 1], k)
        BY <3>1 DEF Selects
      <3>3. QED
        BY <3>1, <3>2
    <2>5. /\ Numbers(from, e) \in Seq(Nat)
          /\ Numbers(from, d) = Append(Numbers(from, e), from + d)
      BY <2>2, NumbersMore
    <2>6. Append(r[from] \o Numbers(from, e), from + d) = r[from] \o Append(Numbers(from, e), from + d)
      <3>1. PICK a \in Seq(Nat), b \in Seq(Nat), x \in Nat :
              a = r[from] /\ b = Numbers(from, e) /\ x = from + d
        BY <1>0, <2>5
      <3>2. /\ Append(a \o b, x) = (a \o b) \o <<x>> /\ Append(b, x) = b \o <<x>>
            /\ <<x>> \in Seq(Nat)
        <4>1. a \o b \in Seq(Nat)
          BY ConcatProperties
        <4>2. QED
          BY <4>1, AppendIsConcat
      <3>3. (a \o b) \o <<x>> = a \o (b \o <<x>>)
        BY <3>2, ConcatAssociative
      <3>4. QED
        BY <3>1, <3>2, <3>3
    <2>7. r[from + d] = r[from] \o Numbers(from, d)
      <3>1. r[from + d] = Append(r[from] \o Numbers(from, e), from + d)
        BY <2>2, <2>3, <2>4
      <3>2. QED
        BY <2>5, <2>6, <3>1
    <2>8. QED
      BY <2>7
  <1>3. 0 .. n - from \subseteq S
    <2> HIDE DEF S
    <2>1. n - from \in Nat
      OBVIOUS
    <2>2. QED BY <1>1, <1>2, <2>1, UpTo
  <1>4. n - from \in 0 .. n - from /\ from + (n - from) = n
    OBVIOUS
  <1>5. n - from \in S
    BY <1>3, <1>4
  <1>6. QED
    BY <1>4, <1>5

(* Sequences are the same if their members are. *)
LEMMA SameSeq ==
  ASSUME NEW s, IsSeq(s), NEW t, IsSeq(t), Len(s) = Len(t), \A i \in 1 .. Len(s) : s[i] = t[i]
  PROVE  s = t
  BY DEF IsSeq

(* The members of what is put together. *)
LEMMA ConcatAt ==
  ASSUME NEW s, IsSeq(s), NEW t, IsSeq(t)
  PROVE  /\ \A i \in 1 .. Len(s) : (s \o t)[i] = s[i]
         /\ \A i \in 1 .. Len(t) : (s \o t)[Len(s) + i] = t[i]
  <1>1. s \in Seq(Both(s, t)) /\ t \in Seq(Both(s, t))
    BY OfMembers
  <1>2. PICK m \in Nat, n \in Nat : m = Len(s) /\ n = Len(t)
    BY DEF IsSeq
  <1>3. \A i \in 1 .. m + n : (s \o t)[i] = IF i <= m THEN s[i] ELSE t[i - m]
    BY <1>1, <1>2, ConcatProperties
  <1>4. \A i \in 1 .. m : (s \o t)[i] = s[i]
    <2>1. \A i \in 1 .. m : i \in 1 .. m + n /\ i <= m
      OBVIOUS
    <2>2. QED
      BY <1>3, <2>1
  <1>5. \A i \in 1 .. n : m + i \in 1 .. m + n /\ ~ (m + i <= m) /\ (m + i) - m = i
    OBVIOUS
  <1>6. \A i \in 1 .. n : (s \o t)[m + i] = t[i]
    BY <1>3, <1>5
  <1>7. QED
    BY <1>2, <1>4, <1>6

(* One more is put together with a sequence of it. *)
LEMMA AppendOne ==
  ASSUME NEW s, IsSeq(s), NEW x
  PROVE  Append(s, x) = s \o <<x>> /\ IsSeq(<<x>>) /\ Len(<<x>>) = 1 /\ <<x>>[1] = x
  <1> DEFINE V == Both(s, s) \cup {x}
  <1>1. s \in Seq(Both(s, s))
    BY OfMembers
  <1>2. s \in Seq(V) /\ x \in V
    BY <1>1, SeqMonotonic
  <1> HIDE DEF V
  <1>3. Append(s, x) = s \o <<x>>
    BY <1>2, AppendIsConcat
  <1>4. IsSeq(<<x>>) /\ Len(<<x>>) = 1 /\ <<x>>[1] = x
    BY DEF IsSeq
  <1>5. QED
    BY <1>3, <1>4

(* It does not matter what is put together first. *)
LEMMA ConcatThree ==
  ASSUME NEW s, IsSeq(s), NEW t, IsSeq(t), NEW u, IsSeq(u)
  PROVE  (s \o t) \o u = s \o (t \o u)
  <1> DEFINE V == Both(s, t) \cup Both(u, u)
  <1>1. s \in Seq(Both(s, t)) /\ t \in Seq(Both(s, t)) /\ u \in Seq(Both(u, u))
    BY OfMembers
  <1>2. Both(s, t) \subseteq V /\ Both(u, u) \subseteq V
    OBVIOUS
  <1> HIDE DEF V
  <1>3. s \in Seq(V) /\ t \in Seq(V) /\ u \in Seq(V)
    BY <1>1, <1>2, SeqMonotonic
  <1>4. QED
    BY <1>3, ConcatAssociative

(* Nothing is put together with a sequence. *)
LEMMA ConcatNothing ==
  ASSUME NEW s, IsSeq(s)
  PROVE  s \o <<>> = s /\ <<>> \o s = s
  <1>1. s \in Seq(Both(s, s))
    BY OfMembers
  <1>2. QED
    BY <1>1, ConcatEmptySeq

(* The members of a part. *)
LEMMA SubSeqAt ==
  ASSUME NEW s, NEW m \in Int, NEW n \in Int
  PROVE  \A i \in 1 .. n - m + 1 : SubSeq(s, m, n)[i] = s[m + i - 1]
  <1> DEFINE V == {s[i] : i \in m .. n}
  <1>1. \A i \in m .. n : s[i] \in V
    OBVIOUS
  <1> HIDE DEF V
  <1>2. QED
    BY <1>1, SubSeqProperties

-----------------------------------------------------------------------------
(* The frames of these numbers, of all frames S. *)
Frames(S, s) == [i \in 1 .. Len(s) |-> S[s[i]]]

(* They are a sequence.                                                    *)
LEMMA FramesIs ==
  ASSUME NEW S, NEW s, Len(s) \in Nat
  PROVE  IsSeq(Frames(S, s)) /\ Len(Frames(S, s)) = Len(s)
  <1>1. Len(Frames(S, s)) = Len(s)
    BY DEF Frames
  <1>2. QED
    BY <1>1 DEF Frames, IsSeq

(* Of numbers that are put together, they are put together.                *)
LEMMA FramesConcat ==
  ASSUME NEW S, NEW s, IsSeq(s), NEW t, IsSeq(t)
  PROVE  Frames(S, s \o t) = Frames(S, s) \o Frames(S, t)
  <1>1. PICK m \in Nat, n \in Nat : m = Len(s) /\ n = Len(t)
    BY DEF IsSeq
  <1>2. Len(s \o t) = m + n
    BY <1>1, ConcatIs
  <1>3. /\ IsSeq(Frames(S, s)) /\ Len(Frames(S, s)) = m
        /\ IsSeq(Frames(S, t)) /\ Len(Frames(S, t)) = n
        /\ IsSeq(Frames(S, s \o t)) /\ Len(Frames(S, s \o t)) = m + n
    <2>1. PICK u : u = s \o t /\ Len(u) = m + n
      BY <1>2
    <2>2. Len(s) \in Nat /\ Len(t) \in Nat /\ Len(u) \in Nat
      BY <1>1, <2>1
    <2>3. IsSeq(Frames(S, u)) /\ Len(Frames(S, u)) = m + n
      BY <2>1, <2>2, FramesIs
    <2>4. /\ IsSeq(Frames(S, s)) /\ Len(Frames(S, s)) = m
          /\ IsSeq(Frames(S, t)) /\ Len(Frames(S, t)) = n
      BY <1>1, <2>2, FramesIs
    <2>5. QED
      BY <2>1, <2>3, <2>4
  <1>4. IsSeq(Frames(S, s) \o Frames(S, t)) /\ Len(Frames(S, s) \o Frames(S, t)) = m + n
    BY <1>3, ConcatIs
  <1>5. \A i \in 1 .. m : Frames(S, s \o t)[i] = (Frames(S, s) \o Frames(S, t))[i]
    <2> SUFFICES ASSUME NEW i \in 1 .. m
                 PROVE  Frames(S, s \o t)[i] = (Frames(S, s) \o Frames(S, t))[i]
      OBVIOUS
    <2>1. (s \o t)[i] = s[i]
      BY <1>1, ConcatAt
    <2>2. (Frames(S, s) \o Frames(S, t))[i] = Frames(S, s)[i]
      BY <1>3, ConcatAt
    <2>3. i \in 1 .. m + n
      OBVIOUS
    <2>4. Frames(S, s)[i] = S[s[i]]
      BY <1>1 DEF Frames
    <2>5. Frames(S, s \o t)[i] = S[(s \o t)[i]]
      BY <1>2, <2>3 DEF Frames
    <2>6. QED
      BY <2>1, <2>2, <2>4, <2>5
  <1>6. \A i \in 1 .. n : Frames(S, s \o t)[m + i] = (Frames(S, s) \o Frames(S, t))[m + i]
    <2> SUFFICES ASSUME NEW i \in 1 .. n
                 PROVE  Frames(S, s \o t)[m + i] = (Frames(S, s) \o Frames(S, t))[m + i]
      OBVIOUS
    <2>1. (s \o t)[m + i] = t[i]
      BY <1>1, ConcatAt
    <2>2. (Frames(S, s) \o Frames(S, t))[m + i] = Frames(S, t)[i]
      BY <1>3, ConcatAt
    <2>3. m + i \in 1 .. m + n
      OBVIOUS
    <2>4. Frames(S, t)[i] = S[t[i]]
      BY <1>1 DEF Frames
    <2>5. Frames(S, s \o t)[m + i] = S[(s \o t)[m + i]]
      BY <1>2, <2>3 DEF Frames
    <2>6. QED
      BY <2>1, <2>2, <2>4, <2>5
  <1>7. \A i \in 1 .. m + n : Frames(S, s \o t)[i] = (Frames(S, s) \o Frames(S, t))[i]
    <2>1. \A i \in 1 .. m + n : i \in 1 .. m \/ \E j \in 1 .. n : i = m + j
      <3>1. \A i \in 1 .. m + n : i \notin 1 .. m => i - m \in 1 .. n /\ i = m + (i - m)
        OBVIOUS
      <3>2. QED
        BY <3>1
    <2>2. QED
      BY <1>5, <1>6, <2>1
  <1>8. QED
    BY <1>3, <1>4, <1>7, SameSeq

(* So many frames after one. *)
FramesAfter(S, from, d) == [i \in 1 .. d |-> S[from + i]]

(* They are the frames of these numbers.                                   *)
LEMMA FramesNumbers ==
  ASSUME NEW S, NEW from \in Nat, NEW d \in Nat
  PROVE  Frames(S, Numbers(from, d)) = FramesAfter(S, from, d) /\ IsSeq(Numbers(from, d))
  <1>1. Numbers(from, d) \in Seq(Nat) /\ Len(Numbers(from, d)) = d
    BY NumbersMore
  <1>2. \A i \in 1 .. d : Numbers(from, d)[i] = from + i
    BY DEF Numbers
  <1>3. IsSeq(Numbers(from, d))
    BY <1>1, SeqIs
  <1>4. QED
    BY <1>1, <1>2, <1>3 DEF Frames, FramesAfter

(* What should be heard of n frames. *)
Heard(S, v, n) == Frames(S, Speech(v, n))

(* The speech of n frames is a sequence of their numbers, ...              *)
LEMMA SpeechIs ==
  ASSUME NEW v, NEW n \in Nat
  PROVE  Speech(v, n) \in Seq(1 .. n) /\ IsSeq(Speech(v, n))
  <1>1. PICK r : Selects(r, Spoken(v, n), n) /\ Speech(v, n) = r[n]
    BY SpeechSelects
  <1>2. PICK p : p = Spoken(v, n)
    OBVIOUS
  <1>3. \A k \in 0 .. n : r[k] \in Seq(1 .. n)
    BY <1>1, <1>2, SelectsNumbers
  <1>4. Speech(v, n) \in Seq(1 .. n)
    BY <1>1, <1>3
  <1>5. QED
    BY <1>4, SeqIs

(* ... and what should be heard is as long.                                *)
LEMMA HeardIs ==
  ASSUME NEW S, NEW v, NEW n \in Nat
  PROVE  IsSeq(Heard(S, v, n)) /\ Len(Heard(S, v, n)) = Len(Speech(v, n))
  BY SpeechIs, FramesIs DEF Heard, IsSeq

(* Nothing of none. *)
LEMMA HeardNothing ==
  ASSUME NEW S, NEW v
  PROVE  Heard(S, v, 0) = <<>>
  <1>1. PICK r : Selects(r, Spoken(v, 0), 0) /\ Speech(v, 0) = r[0]
    BY SpeechSelects
  <1>2. Speech(v, 0) = <<>>
    BY <1>1 DEF Selects
  <1>3. IsSeq(Heard(S, v, 0)) /\ Len(Heard(S, v, 0)) = 0
    BY <1>2, HeardIs, EmptyIs
  <1>4. QED
    BY <1>3, EmptyIs, SameSeq

(* A frame more. *)
LEMMA HeardNext ==
  ASSUME NEW S, NEW v, NEW n \in Nat, InSpeech(v, n) \/ ~SpeechStarts(v, n + 1)
  PROVE  Heard(S, v, n + 1) = IF InSpeech(v, n + 1) THEN Append(Heard(S, v, n), S[n + 1])
                              ELSE Heard(S, v, n)
  <1>1. PICK r, p : Selects(r, p, n) /\ Speech(v, n) = r[n] /\ p = Spoken(v, n)
    BY SpeechSelects
  <1>m. PICK m \in Nat : m = n + 1
    OBVIOUS
  <1>2. PICK s, q : Selects(s, q, m) /\ Speech(v, m) = s[m] /\ q = Spoken(v, m) /\ m = n + 1
    BY <1>m, SpeechSelects
  <1>3. \A k \in 1 .. n : p[k] = q[k]
    <2>1. \A k \in 1 .. n : IsSpeech(v, n + 1, k) <=> IsSpeech(v, n, k)
      BY IsSpeechNext
    <2>2. \A k \in 1 .. n : k \in 1 .. m
      BY <1>2
    <2>3. QED
      BY <1>1, <1>2, <2>1, <2>2 DEF Spoken
  <1>4. r[n] = s[n]
    <2>1. n <= m
      BY <1>2
    <2>2. QED
      BY <1>1, <1>2, <1>3, <2>1, SelectsSame
  <1>5. s[m] = IF InSpeech(v, m) THEN Append(s[n], m) ELSE s[n]
    <2>1. m \in 1 .. m /\ m - 1 = n
      BY <1>2
    <2>2. q[m] = TRUE <=> InSpeech(v, m)
      BY <1>2, <2>1, IsSpeechItself DEF Spoken
    <2>3. s[m] = IF q[m] = TRUE THEN Append(s[n], m) ELSE s[n]
      BY <1>2, <2>1 DEF Selects
    <2>4. QED
      BY <2>2, <2>3
  <1>6. Frames(S, Append(s[n], m)) = Append(Frames(S, s[n]), S[m])
    <2>1. IsSeq(s[n])
      BY <1>1, <1>4, SpeechIs
    <2>2. Append(s[n], m) = s[n] \o <<m>> /\ IsSeq(<<m>>) /\ Len(<<m>>) = 1 /\ <<m>>[1] = m
      BY <2>1, AppendOne
    <2>3. Frames(S, s[n] \o <<m>>) = Frames(S, s[n]) \o Frames(S, <<m>>)
      BY <2>1, <2>2, FramesConcat
    <2>4. IsSeq(Frames(S, s[n]))
      BY <2>1, FramesIs DEF IsSeq
    <2>5. Frames(S, <<m>>) = <<S[m]>>
      <3>1. IsSeq(Frames(S, <<m>>)) /\ Len(Frames(S, <<m>>)) = 1
        BY <2>2, FramesIs
      <3>2. Frames(S, <<m>>)[1] = S[m]
        BY <2>2 DEF Frames
      <3>3. /\ IsSeq(<<S[m]>>) /\ Len(<<S[m]>>) = 1
            /\ <<S[m]>>[1] = S[m]
        BY <2>1, AppendOne
      <3>4. \A i \in 1 .. 1 : i = 1
        OBVIOUS
      <3>5. QED
        BY <3>1, <3>2, <3>3, <3>4, SameSeq
    <2>6. Append(Frames(S, s[n]), S[m]) = Frames(S, s[n]) \o <<S[m]>>
      BY <2>4, AppendOne
    <2>7. QED
      BY <2>2, <2>3, <2>5, <2>6
  <1>7. QED
    BY <1>1, <1>2, <1>4, <1>5, <1>6 DEF Heard

(* Speech that begins. *)
LEMMA HeardBegins ==
  ASSUME NEW S, NEW v, NEW n \in Nat, ~InSpeech(v, n), SpeechStarts(v, n + 1)
  PROVE  /\ PrespchLen <= n + 1
         /\ Heard(S, v, n + 1) = Heard(S, v, n) \o FramesAfter(S, n + 1 - PrespchLen, PrespchLen)
  <1>1. PICK r, p : Selects(r, p, n) /\ Speech(v, n) = r[n] /\ p = Spoken(v, n)
    BY SpeechSelects
  <1>m. PICK m \in Nat : m = n + 1
    OBVIOUS
  <1>2. PICK s, q : Selects(s, q, m) /\ Speech(v, m) = s[m] /\ q = Spoken(v, m) /\ m = n + 1
    BY <1>m, SpeechSelects
  <1>3. PICK from \in Nat, d \in Nat \ {0} : d = PrespchLen /\ from = n + 1 - d /\ m = from + d /\ from <= n
    <2>1. n + 1 >= PrespchLen
      BY DEF SpeechStarts, RunEnds
    <2>2. QED
      BY <1>2, <2>1, SpchNumbers
  <1>4. \A k \in 1 .. m : /\ k <= from => (IsSpeech(v, n + 1, k) <=> IsSpeech(v, n, k))
                          /\ k > from => IsSpeech(v, n + 1, k) /\ (k <= n => ~IsSpeech(v, n, k))
    BY <1>2, <1>3, IsSpeechBegins
  <1>5. /\ \A k \in 1 .. from : p[k] = q[k]
        /\ \A k \in from + 1 .. n : p[k] # TRUE
        /\ \A k \in from + 1 .. m : q[k] = TRUE
    <2>1. \A k \in 1 .. from : k \in 1 .. n /\ k \in 1 .. m /\ k <= from
      BY <1>2, <1>3
    <2>2. \A k \in from + 1 .. n : k \in 1 .. n /\ k \in 1 .. m /\ k > from /\ k <= n
      BY <1>2, <1>3
    <2>3. \A k \in from + 1 .. m : k \in 1 .. m /\ k > from
      BY <1>2, <1>3
    <2>4. /\ \A k \in 1 .. n : p[k] = IF IsSpeech(v, n, k) THEN TRUE ELSE FALSE
          /\ \A k \in 1 .. m : q[k] = IF IsSpeech(v, n + 1, k) THEN TRUE ELSE FALSE
      BY <1>1, <1>2 DEF Spoken
    <2>5. QED
      BY <1>4, <2>1, <2>2, <2>3, <2>4
  <1>6. r[from] = s[from]
    <2>1. from <= m
      BY <1>3
    <2>2. QED
      BY <1>1, <1>2, <1>3, <1>5, <2>1, SelectsSame
  <1>7. r[n] = r[from]
    <2>1. Selects(r, p, n)
      BY <1>1
    <2>2. from <= n /\ \A k \in from + 1 .. n : p[k] # TRUE
      BY <1>3, <1>5
    <2>3. QED
      BY ZenonT(40), <2>1, <2>2, SelectsNone
  <1>8. s[m] = s[from] \o Numbers(from, d)
    <2>1. from <= m /\ m - from = d
      BY <1>3
    <2>2. Selects(s, q, m)
      BY <1>2
    <2>3. \A k \in from + 1 .. m : q[k] = TRUE
      BY <1>5
    <2>4. s[m] = s[from] \o Numbers(from, m - from)
      BY <2>1, <2>2, <2>3, SelectsAll
    <2>5. QED
      BY <2>1, <2>4
  <1>9. Frames(S, s[from] \o Numbers(from, d)) = Frames(S, s[from]) \o FramesAfter(S, from, d)
    <2>1. PICK u : u = s[from]
      OBVIOUS
    <2>2. IsSeq(u)
      BY <1>1, <1>6, <1>7, <2>1, SpeechIs
    <2>3. PICK w : w = Numbers(from, d) /\ IsSeq(w) /\ Frames(S, w) = FramesAfter(S, from, d)
      BY FramesNumbers
    <2>4. Frames(S, u \o w) = Frames(S, u) \o Frames(S, w)
      BY <2>2, <2>3, FramesConcat
    <2>5. QED
      BY <2>1, <2>3, <2>4
  <1>10. /\ Heard(S, v, n + 1) = Frames(S, s[m]) /\ Heard(S, v, n) = Frames(S, s[from])
         /\ from = n + 1 - PrespchLen /\ d = PrespchLen
    BY <1>1, <1>2, <1>3, <1>6, <1>7 DEF Heard
  <1>11. PrespchLen <= n + 1
    BY <1>3
  <1>12. QED
    BY <1>8, <1>9, <1>10, <1>11

(* The frames after one, with a frame more. *)
LEMMA FramesAfterMore ==
  ASSUME NEW S, NEW from \in Nat, NEW d \in Nat
  PROVE  /\ IsSeq(FramesAfter(S, from, d)) /\ Len(FramesAfter(S, from, d)) = d
         /\ FramesAfter(S, from, d + 1) = Append(FramesAfter(S, from, d), S[from + d + 1])
  <1>1. \A m \in Nat : /\ IsSeq(FramesAfter(S, from, m)) /\ Len(FramesAfter(S, from, m)) = m
                       /\ \A i \in 1 .. m : FramesAfter(S, from, m)[i] = S[from + i]
    BY DEF FramesAfter, IsSeq
  <1>2. PICK s, t : /\ s = FramesAfter(S, from, d) /\ IsSeq(s) /\ Len(s) = d /\ \A i \in 1 .. d : s[i] = S[from + i]
                    /\ t = FramesAfter(S, from, d + 1) /\ IsSeq(t) /\ Len(t) = d + 1
                    /\ \A i \in 1 .. d + 1 : t[i] = S[from + i]
    <2>1. d + 1 \in Nat
      OBVIOUS
    <2>2. QED
      BY <1>1, <2>1
  <1>3. PICK x : x = S[from + d + 1]
    OBVIOUS
  <1>4. IsSeq(<<x>>) /\ Len(<<x>>) = 1 /\ <<x>>[1] = x /\ Append(s, x) = s \o <<x>>
    BY <1>2, AppendOne
  <1>5. IsSeq(Append(s, x)) /\ Len(Append(s, x)) = d + 1
    BY <1>2, AppendIs
  <1>6. /\ \A i \in 1 .. d : Append(s, x)[i] = s[i]
        /\ Append(s, x)[d + 1] = x
    <2>1. PICK y : y = <<x>>
      OBVIOUS
    <2>2. IsSeq(y) /\ Len(y) = 1 /\ y[1] = x /\ Append(s, x) = s \o y /\ 1 \in 1 .. 1
      BY <1>4, <2>1
    <2>3. (\A i \in 1 .. Len(s) : (s \o y)[i] = s[i]) /\ \A i \in 1 .. Len(y) : (s \o y)[Len(s) + i] = y[i]
      <3>1. IsSeq(s) /\ IsSeq(y)
        BY <1>2, <2>2
      <3>2. QED
        BY ONLY <3>1, ConcatAt
    <2>4. QED
      BY <1>2, <2>2, <2>3
  <1>7. \A i \in 1 .. d + 1 : Append(s, x)[i] = t[i]
    <2>1. \A i \in 1 .. d + 1 : i \in 1 .. d \/ i = d + 1
      OBVIOUS
    <2>2. from + (d + 1) = from + d + 1 /\ d + 1 \in 1 .. d + 1 /\ \A i \in 1 .. d : i \in 1 .. d + 1
      OBVIOUS
    <2>3. t[d + 1] = x
      BY <1>2, <1>3, <2>2
    <2>4. \A i \in 1 .. d : t[i] = s[i]
      BY <1>2, <2>2
    <2>5. QED
      BY <1>6, <2>1, <2>3, <2>4
  <1>8. Append(s, x) = t
    BY <1>2, <1>5, <1>7, SameSeq
  <1>9. QED
    BY <1>2, <1>3, <1>8

(* Parts of a sequence: all of it, and nothing. *)
LEMMA SubSeqWhole ==
  ASSUME NEW s, IsSeq(s)
  PROVE  SubSeq(s, 1, Len(s)) = s /\ SubSeq(s, Len(s) + 1, Len(s)) = <<>>
  <1>1. PICK n \in Nat : n = Len(s)
    BY DEF IsSeq
  <1>2. IsSeq(SubSeq(s, 1, n)) /\ Len(SubSeq(s, 1, n)) = n
    <2>1. Len(SubSeq(s, 1, n)) = IF 1 <= n THEN n - 1 + 1 ELSE 0
      BY SubSeqIs
    <2>2. IsSeq(SubSeq(s, 1, n))
      BY SubSeqIs
    <2>3. QED
      BY <2>1, <2>2
  <1>3. \A i \in 1 .. n : SubSeq(s, 1, n)[i] = s[i]
    <2>1. \A i \in 1 .. n - 1 + 1 : SubSeq(s, 1, n)[i] = s[1 + i - 1]
      BY SubSeqAt
    <2>2. \A i \in 1 .. n : i \in 1 .. n - 1 + 1 /\ 1 + i - 1 = i
      OBVIOUS
    <2>3. QED
      BY <2>1, <2>2
  <1>4. SubSeq(s, 1, n) = s
    <2>1. PICK t : t = SubSeq(s, 1, n)
      OBVIOUS
    <2>2. IsSeq(t) /\ Len(t) = Len(s) /\ \A i \in 1 .. Len(t) : t[i] = s[i]
      BY <1>1, <1>2, <1>3, <2>1
    <2>3. QED
      BY <2>1, <2>2, SameSeq
  <1>5. SubSeq(s, n + 1, n) = <<>>
    <2>1. PICK m \in Int : m = n + 1
      OBVIOUS
    <2>2. IsSeq(SubSeq(s, m, n)) /\ Len(SubSeq(s, m, n)) = IF m <= n THEN n - m + 1 ELSE 0
      BY SubSeqIs
    <2>3. PICK t, none : t = SubSeq(s, m, n) /\ none = <<>>
      OBVIOUS
    <2>4. IsSeq(t) /\ IsSeq(none) /\ Len(t) = Len(none) /\ \A i \in 1 .. Len(t) : t[i] = none[i]
      BY <2>1, <2>2, <2>3, EmptyIs
    <2>5. t = none
      BY <2>4, SameSeq
    <2>6. QED
      BY <2>1, <2>3, <2>5
  <1>6. QED
    BY <1>1, <1>4, <1>5

-----------------------------------------------------------------------------
(* The last num frames of n have the value, and the one before them has not. *)
Trailing(v, value, len, n, num) ==
  /\ num \in Nat /\ num <= n /\ num < len
  /\ \A i \in n - num + 1 .. n : v[i] = value
  /\ num < n => v[n - num] # value

(* One more of them. *)
LEMMA TrailMore ==
  ASSUME NEW v, NEW value, NEW len \in Nat \ {0}, NEW n \in Nat, NEW num, Trailing(v, value, len, n, num),
         v[n + 1] = value
  PROVE  /\ RunEnds(v, value, len, n + 1) <=> num + 1 >= len
         /\ ~ (num + 1 >= len) => Trailing(v, value, len, n + 1, num + 1)
  <1>1. /\ num \in Nat /\ num <= n /\ num < len
        /\ \A i \in n - num + 1 .. n : v[i] = value
        /\ num < n => v[n - num] # value
    BY DEF Trailing
  <1>2. RunEnds(v, value, len, n + 1) <=> num + 1 >= len
    BY <1>1, RunGoesOn
  <1>3. ASSUME ~ (num + 1 >= len)
        PROVE  Trailing(v, value, len, n + 1, num + 1)
    <2>1. num + 1 \in Nat /\ num + 1 <= n + 1 /\ num + 1 < len /\ (n + 1) - (num + 1) = n - num
          /\ (num + 1 < n + 1 => num < n)
      BY <1>1, <1>3
    <2>2. \A i \in n - num + 1 .. n + 1 : i \in n - num + 1 .. n \/ i = n + 1
      BY <1>1
    <2>3. QED
      BY <1>1, <2>1, <2>2 DEF Trailing
  <1>4. QED
    BY <1>2, <1>3

(* None of them. *)
LEMMA TrailNone ==
  ASSUME NEW v, NEW value, NEW len \in Nat \ {0}, NEW n \in Nat, v[n + 1] # value
  PROVE  ~RunEnds(v, value, len, n + 1) /\ Trailing(v, value, len, n + 1, 0)
  <1>1. ~RunEnds(v, value, len, n + 1)
    BY RunBroken
  <1>2. 0 \in Nat /\ 0 <= n + 1 /\ 0 < len /\ (n + 1) - 0 = n + 1 /\ \A i \in (n + 1) - 0 + 1 .. n + 1 : FALSE
    OBVIOUS
  <1>3. QED
    BY <1>1, <1>2 DEF Trailing

(* The voice activity after n frames S. *)
VadOK(fe, v, S, n) ==
  /\ fe.global \in BOOLEAN /\ (fe.global = TRUE <=> InSpeech(v, n))
  /\ fe.global = FALSE => /\ Trailing(v, TRUE, PrespchLen, n, fe.prespchNum) /\ fe.cepRead = 0
                          /\ fe.cepBuf = FramesAfter(S, n - fe.prespchNum, fe.prespchNum)
  /\ fe.global = TRUE => /\ Trailing(v, FALSE, PostspchLen, n, fe.postspchNum) /\ fe.prespchNum = 0
                         /\ Len(fe.cepBuf) <= PrespchLen

(* The fields after the voice activity of a frame, that is voiced or not. *)
VadStep(b, fe, spch, y) ==
  /\ b.spch = spch /\ b.nframe = fe.nframe + 1 /\ b.overflow = fe.overflow
  /\ y = TRUE => /\ b.postspchNum = 0
                 /\ fe.global = TRUE =>
                      /\ b.global = TRUE /\ b.changed = FALSE /\ b.prespchNum = fe.prespchNum
                      /\ b.cepBuf = fe.cepBuf /\ b.cepRead = fe.cepRead
                 /\ fe.global = FALSE =>
                      /\ b.cepBuf = Append(fe.cepBuf, spch) /\ b.cepRead = fe.cepRead
                      /\ IF fe.prespchNum + 1 >= PrespchLen
                         THEN b.global = TRUE /\ b.changed = TRUE /\ b.prespchNum = 0
                         ELSE b.global = FALSE /\ b.changed = FALSE /\ b.prespchNum = fe.prespchNum + 1
  /\ y = FALSE => /\ b.prespchNum = 0 /\ b.cepBuf = <<>> /\ b.cepRead = 0
                  /\ fe.global = FALSE => b.global = FALSE /\ b.changed = FALSE
                  /\ fe.global = TRUE =>
                       IF fe.postspchNum + 1 >= PostspchLen
                       THEN b.global = FALSE /\ b.changed = TRUE /\ b.postspchNum = 0
                       ELSE b.global = TRUE /\ b.changed = FALSE /\ b.postspchNum = fe.postspchNum + 1

(* Which is what a frame makes of the front end.                           *)
LEMMA AnalyseIs ==
  ASSUME NEW fe, FeOK(fe), fe.global \in BOOLEAN, NEW spch, NEW v, v[fe.nframe + 1] \in BOOLEAN
  PROVE  VadStep(Analyse(fe, spch, v), fe, spch, v[fe.nframe + 1])
  <1>b. PICK b : b = Analyse(fe, spch, v)
    OBVIOUS
  <1>y. PICK y \in BOOLEAN : y = v[fe.nframe + 1]
    OBVIOUS
  <1> SUFFICES VadStep(b, fe, spch, y)
    BY <1>b, <1>y
  <1> USE DEF VadStep
  <1> DEFINE read == [fe EXCEPT !.spch = spch, !.nframe = @ + 1]
  <1>1. b = IF y THEN Voiced(read) ELSE Unvoiced(read)
    BY <1>b, <1>y DEF Analyse, FeOK, FeFields
  <1>2. /\ read = [f \in FeFields |-> read[f]] /\ read.spch = spch /\ read.nframe = fe.nframe + 1
        /\ read.overflow = fe.overflow /\ read.global = fe.global /\ read.prespchNum = fe.prespchNum
        /\ read.postspchNum = fe.postspchNum /\ read.cepBuf = fe.cepBuf /\ read.cepRead = fe.cepRead
    BY DEF FeOK, FeFields
  <1> HIDE DEF read
  <1>3. CASE y = TRUE
    <2>1. b = Voiced(read)
      BY <1>1, <1>3
    <2>2. CASE fe.global = TRUE
      <3>1. b = [read EXCEPT !.postspchNum = 0, !.changed = FALSE]
        BY <1>2, <2>1, <2>2 DEF Voiced
      <3>2. QED
        BY <1>2, <1>3, <2>2, <3>1 DEF FeFields
    <2>3. CASE fe.global = FALSE
      <3> DEFINE held == [read EXCEPT !.cepBuf = Append(@, read.spch), !.prespchNum = @ + 1,
                                      !.postspchNum = 0, !.changed = FALSE]
      <3>1. b = IF held.prespchNum >= PrespchLen
                THEN [held EXCEPT !.prespchNum = 0, !.global = TRUE, !.changed = TRUE] ELSE held
        BY <1>2, <2>1, <2>3 DEF Voiced
      <3>2. /\ held = [f \in FeFields |-> held[f]] /\ held.spch = spch /\ held.nframe = fe.nframe + 1
            /\ held.overflow = fe.overflow /\ held.global = FALSE /\ held.prespchNum = fe.prespchNum + 1
            /\ held.postspchNum = 0 /\ held.cepBuf = Append(fe.cepBuf, spch) /\ held.cepRead = fe.cepRead
            /\ held.changed = FALSE
        BY <1>2, <2>3 DEF FeFields
      <3> HIDE DEF held
      <3>3. CASE fe.prespchNum + 1 >= PrespchLen
        <4>1. b = [held EXCEPT !.prespchNum = 0, !.global = TRUE, !.changed = TRUE]
          BY <3>1, <3>2, <3>3
        <4>2. QED
          BY <1>3, <2>3, <3>2, <3>3, <4>1 DEF FeFields
      <3>4. CASE ~ (fe.prespchNum + 1 >= PrespchLen)
        <4>1. b = held
          BY <3>1, <3>2, <3>4
        <4>2. QED
          BY <1>3, <2>3, <3>2, <3>4, <4>1
      <3>5. QED
        BY <3>3, <3>4
    <2>4. QED
      BY <2>2, <2>3
  <1>4. CASE y = FALSE
    <2> DEFINE reset == [read EXCEPT !.prespchNum = 0, !.cepBuf = <<>>, !.cepRead = 0, !.changed = FALSE]
    <2>1. b = IF ~read.global THEN reset
              ELSE IF read.postspchNum + 1 >= PostspchLen
                   THEN [reset EXCEPT !.postspchNum = 0, !.global = FALSE, !.changed = TRUE]
                   ELSE [reset EXCEPT !.postspchNum = @ + 1]
      BY <1>1, <1>4 DEF Unvoiced
    <2>2. /\ reset = [f \in FeFields |-> reset[f]] /\ reset.spch = spch /\ reset.nframe = fe.nframe + 1
          /\ reset.overflow = fe.overflow /\ reset.global = fe.global /\ reset.prespchNum = 0
          /\ reset.postspchNum = fe.postspchNum /\ reset.cepBuf = <<>> /\ reset.cepRead = 0
          /\ reset.changed = FALSE
      BY <1>2 DEF FeFields
    <2> HIDE DEF reset
    <2>3. CASE fe.global = FALSE
      BY <1>2, <1>4, <2>1, <2>2, <2>3
    <2>4. CASE fe.global = TRUE /\ fe.postspchNum + 1 >= PostspchLen
      <3>1. b = [reset EXCEPT !.postspchNum = 0, !.global = FALSE, !.changed = TRUE]
        BY <1>2, <2>1, <2>4
      <3>2. QED
        BY <1>4, <2>2, <2>4, <3>1 DEF FeFields
    <2>5. CASE fe.global = TRUE /\ ~ (fe.postspchNum + 1 >= PostspchLen)
      <3>1. b = [reset EXCEPT !.postspchNum = @ + 1]
        BY <1>2, <2>1, <2>5
      <3>2. QED
        BY <1>4, <2>2, <2>5, <3>1 DEF FeFields
    <2>6. QED
      BY <2>3, <2>4, <2>5
  <1>5. QED
    BY <1>3, <1>4

(* What the front end makes of a frame more. *)
Analysed(b, fe, v, S, n) ==
  /\ FeOK(b) /\ b.nframe = n + 1 /\ b.spch = S[n + 1] /\ b.overflow = fe.overflow
  /\ VadOK(b, v, S, n + 1)
  /\ InSpeech(v, n) /\ InSpeech(v, n + 1) => b.changed = FALSE /\ (Held(b) = <<>> \/ Held(b) = Held(fe))
  /\ ~InSpeech(v, n) /\ InSpeech(v, n + 1) =>
       b.changed = TRUE /\ b.cepRead = 0 /\ Held(b) = FramesAfter(S, n + 1 - PrespchLen, PrespchLen)
  /\ SpeechStarts(v, n + 1) => InSpeech(v, n + 1)

(* A voiced frame while there is speech ... *)
LEMMA HearsOn ==
  ASSUME NEW v, NEW S, NEW n \in Nat, NEW fe, FeOK(fe), fe.nframe = n, VadOK(fe, v, S, n),
         v[n + 1] = TRUE, fe.global = TRUE
  PROVE  Analysed(Analyse(fe, S[n + 1], v), fe, v, S, n)
  <1>1. PICK b : b = Analyse(fe, S[n + 1], v)
    OBVIOUS
  <1>2. /\ b.spch = S[n + 1] /\ b.nframe = n + 1 /\ b.overflow = fe.overflow
        /\ b.postspchNum = 0 /\ b.global = TRUE /\ b.changed = FALSE /\ b.prespchNum = fe.prespchNum
        /\ b.cepBuf = fe.cepBuf /\ b.cepRead = fe.cepRead
    <2>1. v[fe.nframe + 1] \in BOOLEAN /\ fe.global \in BOOLEAN /\ v[fe.nframe + 1] = TRUE
      OBVIOUS
    <2>2. VadStep(b, fe, S[n + 1], v[fe.nframe + 1])
      BY <1>1, <2>1, AnalyseIs
    <2>3. QED
      BY <2>1, <2>2 DEF VadStep
  <1>3. FeOK(b)
    BY <1>1, AnalyseEffect
  <1>4. v[n + 1] # FALSE
    OBVIOUS
  <1>5. ~RunEnds(v, FALSE, PostspchLen, n + 1) /\ Trailing(v, FALSE, PostspchLen, n + 1, 0)
    BY <1>4, SpchNumbers, TrailNone
  <1>6. InSpeech(v, n) /\ InSpeech(v, n + 1)
    BY <1>5, InSpeechNext DEF VadOK
  <1>7. VadOK(b, v, S, n + 1)
    BY <1>2, <1>5, <1>6 DEF VadOK
  <1>8. Held(b) = Held(fe)
    BY <1>2 DEF Held
  <1>9. QED
    BY <1>1, <1>2, <1>3, <1>6, <1>7, <1>8 DEF Analysed

(* ... and while there is none. *)
LEMMA HearsOff ==
  ASSUME NEW v, NEW S, NEW n \in Nat, NEW fe, FeOK(fe), fe.nframe = n, VadOK(fe, v, S, n),
         v[n + 1] = TRUE, fe.global = FALSE
  PROVE  Analysed(Analyse(fe, S[n + 1], v), fe, v, S, n)
  <1>1. PICK b, x : x = S[n + 1] /\ b = Analyse(fe, x, v)
    OBVIOUS
  <1>2. /\ b.spch = x /\ b.nframe = n + 1 /\ b.overflow = fe.overflow
        /\ b.postspchNum = 0 /\ b.cepBuf = Append(fe.cepBuf, x) /\ b.cepRead = fe.cepRead
        /\ IF fe.prespchNum + 1 >= PrespchLen
           THEN b.global = TRUE /\ b.changed = TRUE /\ b.prespchNum = 0
           ELSE b.global = FALSE /\ b.changed = FALSE /\ b.prespchNum = fe.prespchNum + 1
    <2>1. v[fe.nframe + 1] \in BOOLEAN /\ fe.global \in BOOLEAN /\ v[fe.nframe + 1] = TRUE
      OBVIOUS
    <2>2. VadStep(b, fe, x, v[fe.nframe + 1])
      BY <1>1, <2>1, AnalyseIs
    <2>3. QED
      BY <2>1, <2>2 DEF VadStep
  <1>3. FeOK(b)
    BY <1>1, AnalyseEffect
  <1>4. PICK num \in Nat, len \in Nat \ {0} :
          /\ num = fe.prespchNum /\ len = PrespchLen /\ num <= n /\ num < len
          /\ Trailing(v, TRUE, len, n, num)
          /\ fe.cepBuf = FramesAfter(S, n - num, num) /\ fe.cepRead = 0
    BY SpchNumbers DEF VadOK, Trailing
  <1>5. /\ RunEnds(v, TRUE, len, n + 1) <=> num + 1 >= len
        /\ ~ (num + 1 >= len) => Trailing(v, TRUE, len, n + 1, num + 1)
    BY <1>4, TrailMore
  <1>6. /\ ~InSpeech(v, n) /\ (InSpeech(v, n + 1) <=> num + 1 >= len)
        /\ SpeechStarts(v, n + 1) <=> num + 1 >= len
    <2>1. ~InSpeech(v, n)
      BY DEF VadOK
    <2>2. v[n + 1] # FALSE
      OBVIOUS
    <2>3. ~RunEnds(v, FALSE, PostspchLen, n + 1)
      BY <2>2, SpchNumbers, TrailNone
    <2>4. SpeechStarts(v, n + 1) <=> num + 1 >= len
      BY <1>4, <1>5 DEF SpeechStarts
    <2>5. QED
      BY <2>1, <2>3, <2>4, InSpeechNext
  <1>7. b.cepBuf = FramesAfter(S, n - num, num + 1) /\ Len(b.cepBuf) = num + 1
    <2>1. PICK from \in Nat : from = n - num /\ from + num + 1 = n + 1
      BY <1>4
    <2>2. FramesAfter(S, from, num + 1) = Append(FramesAfter(S, from, num), S[from + num + 1])
      BY ZenonT(40), <2>1, FramesAfterMore
    <2>3. num + 1 \in Nat
      OBVIOUS
    <2>4. Len(FramesAfter(S, from, num + 1)) = num + 1
      BY ZenonT(40), <2>1, <2>3, FramesAfterMore
    <2>5. Append(FramesAfter(S, from, num), S[from + num + 1]) = b.cepBuf
      BY <1>1, <1>2, <1>4, <2>1
    <2>6. QED
      BY <2>1, <2>2, <2>4, <2>5
  <1>8. CASE num + 1 >= len
    <2>1. b.global = TRUE /\ b.changed = TRUE /\ b.prespchNum = 0 /\ b.cepRead = 0 /\ InSpeech(v, n + 1)
      BY <1>2, <1>4, <1>6, <1>8
    <2>2. num + 1 = len /\ n - num = n + 1 - len
      BY <1>4, <1>8
    <2>3. Trailing(v, FALSE, PostspchLen, n + 1, 0)
      <3>1. v[n + 1] # FALSE
        OBVIOUS
      <3>2. QED
        BY <3>1, SpchNumbers, TrailNone
    <2>4. Len(b.cepBuf) <= PrespchLen
      BY <1>4, <1>7, <2>2
    <2>5. VadOK(b, v, S, n + 1)
      BY <1>2, <2>1, <2>3, <2>4 DEF VadOK
    <2>6. Held(b) = FramesAfter(S, n + 1 - PrespchLen, PrespchLen)
      <3>1. PICK buf : buf = b.cepBuf /\ IsSeq(buf) /\ buf = FramesAfter(S, n + 1 - len, len)
        BY <1>3, <1>7, <2>2 DEF FeOK
      <3>2. SubSeq(buf, 1, Len(buf)) = buf
        BY <3>1, SubSeqWhole
      <3>3. Held(b) = SubSeq(buf, 0 + 1, Len(buf))
        BY <2>1, <3>1 DEF Held
      <3>4. 0 + 1 = 1
        OBVIOUS
      <3>5. QED
        BY <1>4, <3>1, <3>2, <3>3, <3>4
    <2>7. Analysed(b, fe, v, S, n)
      BY <1>1, <1>2, <1>3, <1>6, <2>1, <2>5, <2>6 DEF Analysed
    <2>8. QED
      BY <1>1, <2>7
  <1>9. CASE ~ (num + 1 >= len)
    <2>1. b.global = FALSE /\ b.changed = FALSE /\ b.prespchNum = num + 1 /\ b.cepRead = 0 /\ ~InSpeech(v, n + 1)
      BY <1>2, <1>4, <1>6, <1>9
    <2>2. (n + 1) - (num + 1) = n - num
      OBVIOUS
    <2>3. VadOK(b, v, S, n + 1)
      <3>1. Trailing(v, TRUE, PrespchLen, n + 1, b.prespchNum)
        BY <1>4, <1>5, <1>9, <2>1
      <3>2. b.cepBuf = FramesAfter(S, (n + 1) - b.prespchNum, b.prespchNum)
        BY <1>7, <2>1, <2>2
      <3>3. QED
        BY <2>1, <3>1, <3>2 DEF VadOK
    <2>4. Analysed(b, fe, v, S, n)
      BY <1>1, <1>2, <1>3, <1>6, <1>9, <2>1, <2>3 DEF Analysed
    <2>5. QED
      BY <1>1, <2>4
  <1>10. QED
    BY <1>8, <1>9

(* A frame that is not voiced. *)
LEMMA HearsNone ==
  ASSUME NEW v, NEW S, NEW n \in Nat, NEW fe, FeOK(fe), fe.nframe = n, VadOK(fe, v, S, n), v[n + 1] = FALSE
  PROVE  Analysed(Analyse(fe, S[n + 1], v), fe, v, S, n)
  <1>1. PICK b, x : x = S[n + 1] /\ b = Analyse(fe, x, v)
    OBVIOUS
  <1>2. fe.global \in BOOLEAN
    BY DEF VadOK
  <1>3. /\ b.spch = x /\ b.nframe = n + 1 /\ b.overflow = fe.overflow
        /\ b.prespchNum = 0 /\ b.cepBuf = <<>> /\ b.cepRead = 0
        /\ fe.global = FALSE => b.global = FALSE /\ b.changed = FALSE
        /\ fe.global = TRUE =>
             IF fe.postspchNum + 1 >= PostspchLen
             THEN b.global = FALSE /\ b.changed = TRUE /\ b.postspchNum = 0
             ELSE b.global = TRUE /\ b.changed = FALSE /\ b.postspchNum = fe.postspchNum + 1
    <2>1. v[fe.nframe + 1] \in BOOLEAN /\ v[fe.nframe + 1] = FALSE
      OBVIOUS
    <2>2. VadStep(b, fe, x, v[fe.nframe + 1])
      BY <1>1, <1>2, <2>1, AnalyseIs
    <2>3. QED
      BY <2>1, <2>2 DEF VadStep
  <1>4. FeOK(b)
    BY <1>1, AnalyseEffect
  <1>5. ~SpeechStarts(v, n + 1) /\ Trailing(v, TRUE, PrespchLen, n + 1, 0)
    <2>1. v[n + 1] # TRUE
      OBVIOUS
    <2>2. QED
      BY <2>1, SpchNumbers, TrailNone DEF SpeechStarts
  <1>6. b.cepBuf = FramesAfter(S, (n + 1) - 0, 0)
    <2>1. PICK m \in Nat : m = (n + 1) - 0
      OBVIOUS
    <2>2. IsSeq(FramesAfter(S, m, 0)) /\ Len(FramesAfter(S, m, 0)) = 0
      <3>1. PICK zero \in Nat : zero = 0
        OBVIOUS
      <3>2. IsSeq(FramesAfter(S, m, zero)) /\ Len(FramesAfter(S, m, zero)) = zero
        BY FramesAfterMore
      <3>3. QED
        BY <3>1, <3>2
    <2>3. PICK s, none : s = FramesAfter(S, m, 0) /\ none = <<>>
      OBVIOUS
    <2>4. IsSeq(s) /\ IsSeq(none) /\ Len(s) = Len(none) /\ \A i \in 1 .. Len(s) : s[i] = none[i]
      BY <2>2, <2>3, EmptyIs
    <2>5. s = none
      BY <2>4, SameSeq
    <2>6. QED
      BY <1>3, <2>1, <2>3, <2>5
  <1>7. InSpeech(v, n + 1) <=> InSpeech(v, n) /\ ~RunEnds(v, FALSE, PostspchLen, n + 1)
    BY <1>5, InSpeechNext
  <1>8. ASSUME b.global = FALSE, ~InSpeech(v, n + 1)
        PROVE  Analysed(b, fe, v, S, n)
    <2>1. VadOK(b, v, S, n + 1)
      BY <1>3, <1>5, <1>6, <1>8 DEF VadOK
    <2>2. QED
      BY <1>1, <1>3, <1>4, <1>5, <1>8, <2>1 DEF Analysed
  <1>9. CASE fe.global = FALSE
    <2>1. ~InSpeech(v, n)
      BY <1>9 DEF VadOK
    <2>2. QED
      BY <1>1, <1>3, <1>7, <1>8, <1>9, <2>1
  <1>10. CASE fe.global = TRUE
    <2>1. PICK num \in Nat, len \in Nat \ {0} :
            num = fe.postspchNum /\ len = PostspchLen /\ Trailing(v, FALSE, len, n, num)
      BY <1>10, SpchNumbers DEF VadOK, Trailing
    <2>2. /\ RunEnds(v, FALSE, len, n + 1) <=> num + 1 >= len
          /\ ~ (num + 1 >= len) => Trailing(v, FALSE, len, n + 1, num + 1)
      BY <2>1, TrailMore
    <2>3. CASE num + 1 >= len
      BY <1>1, <1>3, <1>7, <1>8, <1>10, <2>1, <2>2, <2>3
    <2>4. CASE ~ (num + 1 >= len)
      <3>1. b.global = TRUE /\ b.changed = FALSE /\ b.postspchNum = num + 1
        BY <1>3, <1>10, <2>1, <2>4
      <3>2. InSpeech(v, n) /\ InSpeech(v, n + 1)
        BY <1>7, <1>10, <2>1, <2>2, <2>4 DEF VadOK
      <3>3. Len(b.cepBuf) <= PrespchLen
        BY <1>3, EmptyIs, SpchNumbers
      <3>4. VadOK(b, v, S, n + 1)
        BY <1>3, <2>1, <2>2, <2>4, <3>1, <3>2, <3>3 DEF VadOK
      <3>5. Held(b) = <<>>
        <4>1. PICK none : none = <<>> /\ IsSeq(none) /\ Len(none) = 0
          BY EmptyIs
        <4>2. SubSeq(none, 0 + 1, 0) = none
          BY <4>1, SubSeqWhole
        <4>3. Held(b) = SubSeq(none, 0 + 1, 0)
          BY <1>3, <3>1, <4>1 DEF Held
        <4>4. QED
          BY <4>1, <4>2, <4>3
      <3>6. Analysed(b, fe, v, S, n)
        BY <1>1, <1>3, <1>4, <1>5, <3>1, <3>2, <3>4, <3>5 DEF Analysed
      <3>7. QED
        BY <1>1, <3>6
    <2>5. QED
      BY <2>3, <2>4
  <1>11. QED
    BY <1>2, <1>9, <1>10

(* A frame more. *)
LEMMA AnalyseHears ==
  ASSUME NEW v, NEW S, NEW n \in Nat, NEW fe, FeOK(fe), fe.nframe = n, VadOK(fe, v, S, n), v[n + 1] \in BOOLEAN
  PROVE  Analysed(Analyse(fe, S[n + 1], v), fe, v, S, n)
  <1>1. fe.global \in BOOLEAN
    BY DEF VadOK
  <1>2. QED
    BY <1>1, HearsOn, HearsOff, HearsNone

(* A sequence of length 0. *)
LEMMA NothingIs ==
  ASSUME NEW s, IsSeq(s), Len(s) = 0
  PROVE  s = <<>>
  <1>1. PICK none : none = <<>> /\ IsSeq(none) /\ Len(none) = 0
    BY EmptyIs
  <1>2. \A i \in 1 .. Len(s) : s[i] = none[i]
    OBVIOUS
  <1>3. s = none
    BY <1>1, <1>2, SameSeq
  <1>4. QED
    BY <1>1, <1>3

(* Two parts that follow each other. *)
LEMMA SubSeqSplit ==
  ASSUME NEW s, NEW a \in Int, NEW b \in Int, NEW c \in Int, a <= b, b <= c
  PROVE  SubSeq(s, a + 1, b) \o SubSeq(s, b + 1, c) = SubSeq(s, a + 1, c)
  <1>1. PICK m \in Nat, k \in Nat : m = b - a /\ k = c - b /\ m + k = c - a
    OBVIOUS
  <1>2. ASSUME NEW x \in Int, NEW y \in Int, NEW z \in Nat, z = y - x
        PROVE  /\ IsSeq(SubSeq(s, x + 1, y)) /\ Len(SubSeq(s, x + 1, y)) = z
               /\ \A i \in 1 .. z : SubSeq(s, x + 1, y)[i] = s[x + i]
    <2>1. PICK x1 \in Int : x1 = x + 1
      OBVIOUS
    <2>2. IsSeq(SubSeq(s, x1, y)) /\ Len(SubSeq(s, x1, y)) = IF x1 <= y THEN y - x1 + 1 ELSE 0
      BY SubSeqIs
    <2>3. (IF x1 <= y THEN y - x1 + 1 ELSE 0) = z
      BY <1>2, <2>1
    <2>4. \A i \in 1 .. y - x1 + 1 : SubSeq(s, x1, y)[i] = s[x1 + i - 1]
      BY SubSeqAt
    <2>5. \A i \in 1 .. z : i \in 1 .. y - x1 + 1 /\ x1 + i - 1 = x + i
      BY <1>2, <2>1
    <2>6. \A i \in 1 .. z : SubSeq(s, x1, y)[i] = s[x + i]
      BY <2>4, <2>5
    <2>7. QED
      BY <2>1, <2>2, <2>3, <2>6
  <1>3. PICK p, q, r : p = SubSeq(s, a + 1, b) /\ q = SubSeq(s, b + 1, c) /\ r = SubSeq(s, a + 1, c)
    OBVIOUS
  <1>p. IsSeq(p) /\ Len(p) = m /\ \A i \in 1 .. m : p[i] = s[a + i]
    BY <1>1, <1>2, <1>3
  <1>q. IsSeq(q) /\ Len(q) = k /\ \A i \in 1 .. k : q[i] = s[b + i]
    BY <1>1, <1>2, <1>3
  <1>r. IsSeq(r) /\ Len(r) = m + k /\ \A i \in 1 .. m + k : r[i] = s[a + i]
    <2>1. m + k \in Nat
      OBVIOUS
    <2>2. QED
      BY ZenonT(40), <1>1, <1>2, <1>3, <2>1
  <1>4. IsSeq(p \o q) /\ Len(p \o q) = m + k
    BY <1>p, <1>q, <1>r, ConcatIs
  <1>5. (\A i \in 1 .. Len(p) : (p \o q)[i] = p[i]) /\ \A i \in 1 .. Len(q) : (p \o q)[Len(p) + i] = q[i]
    <2>1. IsSeq(p) /\ IsSeq(q)
      BY <1>p, <1>q, <1>r
    <2>2. QED
      BY ONLY <2>1, ConcatAt
  <1>6. PICK t : t = p \o q
    OBVIOUS
  <1>7. \A i \in 1 .. m + k : t[i] = r[i]
    <2>1. ASSUME NEW i \in 1 .. m + k
          PROVE  t[i] = r[i]
      <3>1. r[i] = s[a + i]
        BY <1>p, <1>q, <1>r
      <3>2. CASE i <= m
        <4>1. i \in 1 .. m
          BY <3>2
        <4>2. t[i] = p[i] /\ p[i] = s[a + i]
          BY <1>p, <1>q, <1>r, <1>5, <1>6, <4>1
        <4>3. QED
          BY <3>1, <4>2
      <3>3. CASE i > m
        <4>1. PICK j \in 1 .. k : i = m + j /\ b + j = a + i
          <5>1. i - m \in 1 .. k /\ i = m + (i - m) /\ b + (i - m) = a + i
            BY <1>1, <3>3
          <5>2. QED
            BY <5>1
        <4>2. t[m + j] = q[j] /\ q[j] = s[b + j]
          BY <1>p, <1>q, <1>r, <1>5, <1>6
        <4>3. QED
          BY <3>1, <4>1, <4>2
      <3>4. QED
        BY <3>2, <3>3
    <2>2. QED
      BY <2>1
  <1>8. t = r
    BY <1>p, <1>q, <1>r, <1>4, <1>6, <1>7, SameSeq
  <1>9. QED
    BY <1>3, <1>6, <1>8

-----------------------------------------------------------------------------
(* What was heard so far: what was given, and what is still held back, are *)
(* the speech of the frames S that were analysed.                          *)
Hears(fe, v, S, given) ==
  /\ FeOK(fe) /\ fe.nframe \in Nat /\ VadOK(fe, v, S, fe.nframe) /\ IsSeq(given)
  /\ given \o Held(fe) = Heard(S, v, fe.nframe)
  /\ Held(fe) # <<>> => SpeechBegins(v, fe.nframe)

(* What is held back. *)
LEMMA HeldIs ==
  ASSUME NEW fe, FeOK(fe)
  PROVE  IsSeq(Held(fe)) /\ Len(Held(fe)) \in Nat
  <1>1. PICK len \in Nat, pos \in Int : len = Len(fe.cepBuf) /\ pos = fe.cepRead + 1
    <2>1. Len(fe.cepBuf) \in Nat /\ fe.cepRead \in 0 .. Len(fe.cepBuf)
      BY DEF FeOK, IsSeq
    <2>2. fe.cepRead + 1 \in Int
      BY <2>1
    <2>3. QED
      BY <2>1, <2>2
  <1>2. IsSeq(SubSeq(fe.cepBuf, pos, len))
    BY SubSeqIs
  <1>3. IsSeq(Held(fe))
    BY <1>1, <1>2, EmptyIs DEF Held
  <1>4. QED
    BY <1>3 DEF IsSeq

(* What else a call keeps. *)
Same(d, c) ==
  /\ d.used = c.used /\ d.needed = c.needed /\ d.spch = c.spch
  /\ d.fe.overflow = c.fe.overflow /\ d.fe.spch = c.fe.spch /\ d.fe.nframe = c.fe.nframe

(* Prespeech that goes out is no longer held back, and if there is room    *)
(* left nothing is.                                                        *)
LEMMA DumpHears ==
  ASSUME NEW c, NEW spch, NEW total \in Nat, CallOK(c, spch, total), c.fe.global = TRUE,
         NEW v, NEW S, NEW given, IsSeq(given), Hears(c.fe, v, S, given \o c.out)
  PROVE  LET d == DumpPrespch(c)
         IN  Hears(d.fe, v, S, given \o d.out) /\ (d.room # 0 => Held(d.fe) = <<>>) /\ Same(d, c)
  <1>1. PICK len \in Nat, pos \in Nat, room \in Nat :
          len = Len(c.fe.cepBuf) /\ pos = c.fe.cepRead /\ pos <= len /\ room = c.room
    <2>1. Len(c.fe.cepBuf) \in Nat /\ c.fe.cepRead \in 0 .. Len(c.fe.cepBuf) /\ c.room \in Nat
      BY DEF CallOK, FeOK, IsSeq
    <2>2. c.fe.cepRead \in Nat /\ c.fe.cepRead <= Len(c.fe.cepBuf)
      BY <2>1
    <2>3. QED
      BY <2>1, <2>2
  <1>2. PICK n \in Nat : n = NoMoreThan(room, len - pos) /\ n <= room /\ pos + n <= len /\ (n = room \/ pos + n = len)
    <2>1. PICK left \in Nat : left = len - pos
      BY <1>1
    <2>2. PICK n \in Nat : n = NoMoreThan(room, left) /\ n <= room /\ n <= left /\ (n = room \/ n = left)
      <3>1. NoMoreThan(room, left) \in Nat /\ NoMoreThan(room, left) <= room /\ NoMoreThan(room, left) <= left
            /\ (NoMoreThan(room, left) = room \/ NoMoreThan(room, left) = left)
        BY DEF NoMoreThan
      <3>2. QED
        BY <3>1
    <2>3. pos + n <= len /\ (n = left => pos + n = len)
      BY <1>1, <2>1, <2>2
    <2>4. QED
      BY <2>1, <2>2, <2>3
  <1>3. PICK d : d = DumpPrespch(c)
    OBVIOUS
  <1>4. CallOK(d, spch, total)
    BY <1>3, DumpEffect
  <1>5. PICK out, buf : out = SubSeq(buf, pos + 1, pos + n) /\ buf = c.fe.cepBuf
    OBVIOUS
  <1>6. /\ d.out = c.out \o out /\ d.room = room - n /\ d.fe.cepRead = pos + n /\ d.fe.cepBuf = buf
        /\ d.fe.global = TRUE /\ d.fe.prespchNum = c.fe.prespchNum /\ d.fe.postspchNum = c.fe.postspchNum
        /\ Same(d, c)
    <2> DEFINE fe == [c.fe EXCEPT !.cepRead = @ + n]
    <2>1. d = [c EXCEPT !.out = @ \o out, !.room = @ - n, !.fe = fe]
      BY <1>1, <1>2, <1>3, <1>5 DEF DumpPrespch, CallOK, CallFields
    <2>2. /\ fe.cepRead = pos + n /\ fe.cepBuf = buf /\ fe.global = TRUE /\ fe.prespchNum = c.fe.prespchNum
          /\ fe.postspchNum = c.fe.postspchNum /\ fe.overflow = c.fe.overflow /\ fe.spch = c.fe.spch
          /\ fe.nframe = c.fe.nframe
      BY <1>1, <1>5 DEF CallOK, FeOK, FeFields
    <2> HIDE DEF fe
    <2>3. /\ d.out = c.out \o out /\ d.room = room - n /\ d.fe = fe /\ d.used = c.used
          /\ d.needed = c.needed /\ d.spch = c.spch
      BY <1>1, <2>1 DEF CallOK, CallFields
    <2>4. QED
      BY <2>2, <2>3 DEF Same
  <1>7. /\ Held(c.fe) = SubSeq(buf, pos + 1, len) /\ Held(d.fe) = SubSeq(buf, pos + n + 1, len)
    BY <1>1, <1>5, <1>6 DEF Held
  <1>8. out \o Held(d.fe) = Held(c.fe) /\ IsSeq(out) /\ Len(out) = n
    <2>1. PICK at \in Nat : at = pos + n /\ pos <= at /\ at <= len
      BY <1>2
    <2>2. SubSeq(buf, pos + 1, at) \o SubSeq(buf, at + 1, len) = SubSeq(buf, pos + 1, len)
      <3>1. pos \in Int /\ at \in Int /\ len \in Int
        OBVIOUS
      <3>2. QED
        BY <2>1, <3>1, SubSeqSplit
    <2>3. IsSeq(SubSeq(buf, pos + 1, at)) /\ Len(SubSeq(buf, pos + 1, at)) = n
      <3>1. PICK p1 \in Int : p1 = pos + 1
        OBVIOUS
      <3>2. IsSeq(SubSeq(buf, p1, at)) /\ Len(SubSeq(buf, p1, at)) = IF p1 <= at THEN at - p1 + 1 ELSE 0
        BY SubSeqIs
      <3>3. (IF p1 <= at THEN at - p1 + 1 ELSE 0) = n
        BY <2>1, <3>1
      <3>4. QED
        BY <3>1, <3>2, <3>3
    <2>4. QED
      BY <1>5, <1>7, <2>1, <2>2, <2>3
  <1>9. IsSeq(c.out) /\ FeOK(c.fe) /\ FeOK(d.fe)
    BY <1>4 DEF CallOK
  <1>10. IsSeq(Held(d.fe)) /\ IsSeq(Held(c.fe)) /\ Len(Held(d.fe)) \in Nat
    BY <1>9, HeldIs
  <1>11. IsSeq(given \o d.out) /\ (given \o d.out) \o Held(d.fe) = (given \o c.out) \o Held(c.fe)
    <2>1. PICK o, h : o = c.out /\ h = Held(d.fe) /\ IsSeq(o) /\ IsSeq(h)
      BY <1>9, <1>10
    <2>2. IsSeq(given \o o) /\ IsSeq(o \o out)
      BY <1>8, <2>1, ConcatIs
    <2>a. IsSeq(given) /\ IsSeq(o) /\ IsSeq(out) /\ IsSeq(h)
      BY <1>8, <2>1
    <2>3. (given \o o) \o out = given \o (o \o out)
      BY ONLY <2>a, ConcatThree
    <2>b. PICK g : g = given \o o /\ IsSeq(g)
      BY <2>2
    <2>c. IsSeq(g) /\ IsSeq(out) /\ IsSeq(h)
      BY ONLY <2>a, <2>b
    <2>4. (g \o out) \o h = g \o (out \o h)
      BY ONLY <2>c, ConcatThree
    <2>5. IsSeq(given \o (o \o out))
      BY <2>2, ConcatIs
    <2>6. QED
      BY <1>6, <1>8, <2>1, <2>b, <2>3, <2>4, <2>5
  <1>12. Held(d.fe) # <<>> => Held(c.fe) # <<>>
    <2>1. Len(Held(c.fe)) = n + Len(Held(d.fe))
      BY <1>8, <1>10, ConcatIs
    <2>2. Held(c.fe) = <<>> => Len(Held(d.fe)) = 0
      BY <1>10, <2>1, EmptyIs
    <2>3. QED
      BY <1>10, <2>2, NothingIs
  <1>13. d.room # 0 => Held(d.fe) = <<>>
    <2>1. d.room # 0 => pos + n = len
      BY <1>2, <1>6
    <2>2. ASSUME pos + n = len PROVE Held(d.fe) = <<>>
      <3>1. Held(d.fe) = SubSeq(buf, len + 1, len)
        BY <1>7, <2>2
      <3>2. PICK p1 \in Int : p1 = len + 1
        OBVIOUS
      <3>3. Len(SubSeq(buf, p1, len)) = IF p1 <= len THEN len - p1 + 1 ELSE 0
        BY SubSeqIs
      <3>4. Len(Held(d.fe)) = 0
        BY <3>1, <3>2, <3>3
      <3>5. QED
        BY <1>10, <3>4, NothingIs
    <2>3. QED
      BY <2>1, <2>2
  <1>14. Hears(d.fe, v, S, given \o d.out)
    <2>1. d.fe.nframe = c.fe.nframe
      BY <1>6 DEF Same
    <2>2. VadOK(d.fe, v, S, d.fe.nframe)
      BY <1>5, <1>6, <2>1 DEF Hears, VadOK
    <2>3. QED
      BY <1>9, <1>11, <1>12, <2>1, <2>2 DEF Hears
  <1>15. QED
    BY <1>3, <1>6, <1>13, <1>14

(* Where a round of the loop over the frames is to go: a frame more heard, *)
(* and nothing held back if there is room.                                 *)
HeardOn(d, c, v, S, n, given) ==
  /\ Hears(d.fe, v, S, given \o d.out) /\ d.fe.nframe = n + 1
  /\ d.room # 0 => Held(d.fe) = <<>>
  /\ Same(d, c)

(* A frame of speech that goes on goes out, ... *)
LEMMA OutputGoesOn ==
  ASSUME NEW v, NEW S, NEW n \in Nat, NEW fe, Held(fe) = <<>>,
         NEW c, NEW spch, NEW total \in Nat, CallOK(c, spch, total), c.room # 0, Analysed(c.fe, fe, v, S, n),
         NEW given, IsSeq(given), given \o c.out = Heard(S, v, n), InSpeech(v, n), InSpeech(v, n + 1)
  PROVE  HeardOn(Output(c), c, v, S, n, given)
  <1>1. /\ FeOK(c.fe) /\ c.fe.nframe = n + 1 /\ c.fe.spch = S[n + 1] /\ VadOK(c.fe, v, S, n + 1)
        /\ c.fe.changed = FALSE /\ Held(c.fe) = <<>>
    BY DEF Analysed
  <1>2. c.fe.global = TRUE
    BY <1>1 DEF VadOK
  <1>3. PICK d : d = [c EXCEPT !.out = Append(@, c.fe.spch), !.room = @ - 1]
    OBVIOUS
  <1>4. Output(c) = d
    BY <1>1, <1>2, <1>3 DEF Output, GoesOut
  <1>5. PICK x : x = S[n + 1]
    OBVIOUS
  <1>6. /\ d.out = Append(c.out, x) /\ d.fe = c.fe /\ d.used = c.used /\ d.needed = c.needed /\ d.spch = c.spch
    BY <1>1, <1>3, <1>5 DEF CallOK, CallFields
  <1>7. given \o Append(c.out, x) = Append(Heard(S, v, n), x) /\ IsSeq(given \o Append(c.out, x))
    <2>1. PICK o, y : o = c.out /\ y = <<x>> /\ IsSeq(o) /\ IsSeq(y) /\ Append(o, x) = o \o y
      <3>1. IsSeq(c.out)
        BY DEF CallOK
      <3>2. Append(c.out, x) = c.out \o <<x>> /\ IsSeq(<<x>>)
        BY <3>1, AppendOne
      <3>3. QED
        BY <3>1, <3>2
    <2>2. IsSeq(given) /\ IsSeq(o) /\ IsSeq(y)
      BY <2>1
    <2>3. (given \o o) \o y = given \o (o \o y)
      BY ONLY <2>2, ConcatThree
    <2>4. IsSeq(given \o o) /\ IsSeq(o \o y)
      BY <2>2, ConcatIs
    <2>5. Append(given \o o, x) = (given \o o) \o <<x>>
      BY <2>4, AppendOne
    <2>6. IsSeq(given \o (o \o y))
      BY <2>2, <2>4, ConcatIs
    <2>7. QED
      BY <2>1, <2>3, <2>5, <2>6
  <1>8. Heard(S, v, n + 1) = Append(Heard(S, v, n), x)
    <2>1. InSpeech(v, n) \/ ~SpeechStarts(v, n + 1)
      OBVIOUS
    <2>2. Heard(S, v, n + 1) = IF InSpeech(v, n + 1) THEN Append(Heard(S, v, n), S[n + 1]) ELSE Heard(S, v, n)
      BY <2>1, HeardNext
    <2>3. QED
      BY <1>5, <2>2
  <1>9. PICK g : g = given \o d.out /\ IsSeq(g) /\ g = Heard(S, v, n + 1)
    BY <1>6, <1>7, <1>8
  <1>10. g \o Held(d.fe) = Heard(S, v, n + 1)
    BY <1>1, <1>6, <1>9, ConcatNothing
  <1>11. n + 1 \in Nat
    OBVIOUS
  <1>12. Hears(d.fe, v, S, g)
    BY <1>1, <1>6, <1>9, <1>10, <1>11 DEF Hears
  <1>13. QED
    BY <1>1, <1>4, <1>6, <1>9, <1>12 DEF HeardOn, Same

(* ... the frames that made it begin go out as far as there is room, ... *)
LEMMA OutputBegins ==
  ASSUME NEW v, NEW S, NEW n \in Nat, NEW fe,
         NEW c, NEW spch, NEW total \in Nat, CallOK(c, spch, total), Analysed(c.fe, fe, v, S, n),
         NEW given, IsSeq(given), given \o c.out = Heard(S, v, n), ~InSpeech(v, n), InSpeech(v, n + 1)
  PROVE  HeardOn(Output(c), c, v, S, n, given)
  <1>1. /\ FeOK(c.fe) /\ c.fe.nframe = n + 1 /\ VadOK(c.fe, v, S, n + 1)
        /\ c.fe.changed = TRUE /\ Held(c.fe) = FramesAfter(S, n + 1 - PrespchLen, PrespchLen)
    BY DEF Analysed
  <1>2. c.fe.global = TRUE
    BY <1>1 DEF VadOK
  <1>3. PICK d : d = DumpPrespch(c)
    OBVIOUS
  <1>4. Output(c) = d
    BY <1>1, <1>2, <1>3 DEF Output, GoesOut
  <1>5. SpeechStarts(v, n + 1)
    BY InSpeechNext
  <1>6. Heard(S, v, n + 1) = Heard(S, v, n) \o FramesAfter(S, n + 1 - PrespchLen, PrespchLen)
    BY <1>5, HeardBegins
  <1>7. IsSeq(given \o c.out)
    BY ConcatIs DEF CallOK
  <1>8. SpeechBegins(v, n + 1)
    <2>1. n + 1 - 1 = n
      OBVIOUS
    <2>2. QED
      BY <2>1 DEF SpeechBegins
  <1>9. Hears(c.fe, v, S, given \o c.out)
    <2>1. n + 1 \in Nat
      OBVIOUS
    <2>2. QED
      BY <1>1, <1>6, <1>7, <1>8, <2>1 DEF Hears
  <1>10. Hears(d.fe, v, S, given \o d.out) /\ (d.room # 0 => Held(d.fe) = <<>>) /\ Same(d, c)
    BY <1>2, <1>3, <1>9, DumpHears
  <1>11. d.fe.nframe = n + 1
    BY <1>1, <1>10 DEF Same
  <1>12. QED
    BY <1>4, <1>10, <1>11 DEF HeardOn

(* ... and where there is no speech nothing goes out. *)
LEMMA OutputNone ==
  ASSUME NEW v, NEW S, NEW n \in Nat, NEW fe,
         NEW c, NEW spch, NEW total \in Nat, CallOK(c, spch, total), Analysed(c.fe, fe, v, S, n),
         NEW given, IsSeq(given), given \o c.out = Heard(S, v, n), ~InSpeech(v, n + 1)
  PROVE  HeardOn(Output(c), c, v, S, n, given)
  <1>1. FeOK(c.fe) /\ c.fe.nframe = n + 1 /\ VadOK(c.fe, v, S, n + 1) /\ ~SpeechStarts(v, n + 1)
    BY DEF Analysed
  <1>2. c.fe.global = FALSE
    BY <1>1 DEF VadOK
  <1>3. Output(c) = c
    BY <1>2 DEF Output, GoesOut
  <1>4. Held(c.fe) = <<>>
    BY <1>2 DEF Held
  <1>5. Heard(S, v, n + 1) = Heard(S, v, n)
    <2>1. InSpeech(v, n) \/ ~SpeechStarts(v, n + 1)
      BY <1>1
    <2>2. Heard(S, v, n + 1) = IF InSpeech(v, n + 1) THEN Append(Heard(S, v, n), S[n + 1]) ELSE Heard(S, v, n)
      BY <2>1, HeardNext
    <2>3. QED
      BY <2>2
  <1>6. PICK g : g = given \o c.out /\ IsSeq(g) /\ g = Heard(S, v, n + 1)
    BY <1>5, ConcatIs DEF CallOK
  <1>7. g \o Held(c.fe) = Heard(S, v, n + 1)
    BY <1>4, <1>6, ConcatNothing
  <1>8. n + 1 \in Nat
    OBVIOUS
  <1>9. Hears(c.fe, v, S, g)
    BY <1>1, <1>4, <1>6, <1>7, <1>8 DEF Hears
  <1>10. QED
    BY <1>1, <1>3, <1>4, <1>6, <1>9 DEF HeardOn, Same

(* In any case it is heard.                                                *)
LEMMA OutputHears ==
  ASSUME NEW v, NEW S, NEW n \in Nat, NEW fe, Held(fe) = <<>>,
         NEW c, NEW spch, NEW total \in Nat, CallOK(c, spch, total), c.room # 0, Analysed(c.fe, fe, v, S, n),
         NEW given, IsSeq(given), given \o c.out = Heard(S, v, n)
  PROVE  HeardOn(Output(c), c, v, S, n, given)
  <1>1. CASE InSpeech(v, n) /\ InSpeech(v, n + 1)
    BY <1>1, OutputGoesOn
  <1>2. CASE ~InSpeech(v, n) /\ InSpeech(v, n + 1)
    BY <1>2, OutputBegins
  <1>3. CASE ~InSpeech(v, n + 1)
    BY <1>3, OutputNone
  <1>4. QED
    BY <1>1, <1>2, <1>3

(* The members of a sequence after one of them and up to another. *)
Part(s, x, y) == SubSeq(s, x + 1, y)

(* It is a sequence.                                                       *)
LEMMA PartIs ==
  ASSUME NEW s, NEW x \in Int, NEW y \in Int, x <= y
  PROVE  /\ IsSeq(Part(s, x, y)) /\ Len(Part(s, x, y)) = y - x
         /\ \A i \in 1 .. y - x : Part(s, x, y)[i] = s[x + i]
  <1>1. PICK x1 \in Int : x1 = x + 1
    OBVIOUS
  <1>2. IsSeq(SubSeq(s, x1, y)) /\ Len(SubSeq(s, x1, y)) = IF x1 <= y THEN y - x1 + 1 ELSE 0
    BY SubSeqIs
  <1>3. (IF x1 <= y THEN y - x1 + 1 ELSE 0) = y - x
    BY <1>1
  <1>4. \A i \in 1 .. y - x1 + 1 : SubSeq(s, x1, y)[i] = s[x1 + i - 1]
    BY SubSeqAt
  <1>5. \A i \in 1 .. y - x : i \in 1 .. y - x1 + 1 /\ x1 + i - 1 = x + i
    BY <1>1
  <1>6. \A i \in 1 .. y - x : SubSeq(s, x1, y)[i] = s[x + i]
    BY <1>4, <1>5
  <1>7. QED
    BY <1>1, <1>2, <1>3, <1>6 DEF Part

(* Two parts that follow each other. *)
LEMMA PartsJoin ==
  ASSUME NEW s, NEW a \in Int, NEW b \in Int, NEW c \in Int, a <= b, b <= c
  PROVE  Part(s, a, b) \o Part(s, b, c) = Part(s, a, c)
  BY SubSeqSplit DEF Part

(* A part of a part. *)
LEMMA PartWithin ==
  ASSUME NEW s, NEW a \in Int, NEW b \in Int, NEW p \in Int, NEW q \in Int, a <= p, p <= q, q <= b,
         NEW x \in Int, NEW y \in Int, x = p - a, y = q - a
  PROVE  Part(Part(s, a, b), x, y) = Part(s, p, q)
  <1>1. PICK w, u, r : w = Part(s, a, b) /\ u = Part(w, x, y) /\ r = Part(s, p, q)
    OBVIOUS
  <1>2. a <= b /\ x <= y
    OBVIOUS
  <1>a. a \in Int /\ b \in Int /\ x \in Int /\ y \in Int
    OBVIOUS
  <1>b. y - x = q - p
    OBVIOUS
  <1>3. \A i \in 1 .. b - a : w[i] = s[a + i]
    <2>1. \A i \in 1 .. b - a : Part(s, a, b)[i] = s[a + i]
      BY ONLY <1>2, <1>a, PartIs
    <2>2. QED
      BY ONLY <1>1, <2>1
  <1>4. IsSeq(u) /\ Len(u) = y - x /\ \A i \in 1 .. y - x : u[i] = w[x + i]
    <2>1. /\ IsSeq(Part(w, x, y)) /\ Len(Part(w, x, y)) = y - x
          /\ \A i \in 1 .. y - x : Part(w, x, y)[i] = w[x + i]
      BY ONLY <1>2, <1>a, PartIs
    <2>2. QED
      BY ONLY <1>1, <2>1
  <1>5. IsSeq(r) /\ Len(r) = q - p /\ \A i \in 1 .. q - p : r[i] = s[p + i]
    BY ZenonT(40), <1>1, PartIs
  <1>6. \A i \in 1 .. y - x : x + i \in 1 .. b - a /\ a + (x + i) = p + i
    OBVIOUS
  <1>7. \A i \in 1 .. y - x : u[i] = r[i]
    <2>1. SUFFICES ASSUME NEW i \in 1 .. y - x  PROVE u[i] = r[i]
      OBVIOUS
    <2>2. x + i \in 1 .. b - a /\ a + (x + i) = p + i
      BY ONLY <1>6, <2>1
    <2>3. u[i] = w[x + i]
      BY ONLY <1>4, <2>1
    <2>4. w[x + i] = s[a + (x + i)]
      BY ONLY <1>3, <2>2
    <2>5. i \in 1 .. q - p
      BY ONLY <1>b, <2>1
    <2>6. r[i] = s[p + i]
      BY ONLY <1>5, <2>5
    <2>7. QED
      BY ONLY <2>2, <2>3, <2>4, <2>6
  <1>8. Len(u) = Len(r) /\ \A i \in 1 .. Len(u) : u[i] = r[i]
    <2>1. Len(u) = Len(r) /\ Len(u) = y - x
      BY ONLY <1>b, <1>4, <1>5
    <2>2. QED
      BY ONLY <1>7, <2>1
  <1>9. QED
    BY <1>1, <1>4, <1>5, <1>8, SameSeq

(* The first and the last members. *)
LEMMA FirstIs ==
  ASSUME NEW s, NEW n \in Int
  PROVE  FirstOf(s, n) = Part(s, 0, n)
  <1>1. 0 + 1 = 1
    OBVIOUS
  <1>2. QED
    BY <1>1 DEF FirstOf, Part

(* ... of which the last are at its end.                                   *)
LEMMA LastIs ==
  ASSUME NEW s, NEW n \in Int, NEW len \in Int, len = Len(s)
  PROVE  LastOf(s, n) = Part(s, len - n, len)
  BY DEF LastOf, Part

-----------------------------------------------------------------------------
(* Where the frames of a signal start. *)
Start(k) == k * FrameShift

(* Each a shift after the one before.                                      *)
LEMMA StartIs ==
  ASSUME NEW n \in Nat
  PROVE  /\ Start(n) \in Nat /\ Start(n + 1) = Start(n) + FrameShift /\ n <= Start(n) /\ Start(0) = 0
         /\ FrameSize \in Nat /\ FrameShift \in Nat /\ FrameShift >= 1 /\ FrameSize > FrameShift
  <1>1. FrameSize \in Nat /\ FrameShift \in Nat /\ FrameShift >= 1 /\ FrameSize > FrameShift
    BY FrameAssumption
  <1>2. \A h \in Nat : h >= 1 => /\ n * h \in Nat /\ (n + 1) * h = n * h + h /\ n <= n * h /\ 0 * h = 0
    <2>1. \A h \in Nat : h >= 1 => n * (h - 1) >= 0
      BY SMTT(30)
    <2>2. \A h \in Nat : n * h = n * (h - 1) + n
      BY SMTT(30)
    <2>3. QED
      BY <2>1, <2>2, SMTT(30)
  <1>3. QED
    BY <1>1, <1>2 DEF Start

(* The frames of a signal that goes on for long enough. *)
WholeFrames(T) == [k \in Nat |-> Part(T, Start(k - 1), Start(k - 1) + FrameSize)]

(* The one with number n + 1.                                              *)
LEMMA WholeFrame ==
  ASSUME NEW T, NEW n \in Nat
  PROVE  WholeFrames(T)[n + 1] = Part(T, Start(n), Start(n) + FrameSize)
  <1>1. n + 1 \in Nat /\ n + 1 - 1 = n
    OBVIOUS
  <1>2. QED
    BY <1>1 DEF WholeFrames

(* In the loop of fe_process_frames() over the frames of samples that      *)
(* start at base: m frames, and the one just analysed, were heard; spch is *)
(* that one, overflow the old overflow, and needed how much of it is part  *)
(* of the frame that comes next.                                           *)
InFrames(c, m, v, T, base, given) ==
  /\ Hears(c.fe, v, WholeFrames(T), given \o c.out) /\ (c.room # 0 => Held(c.fe) = <<>>)
  /\ c.fe.nframe = m + 1
  /\ base + c.used = Start(m) + FrameSize /\ 0 <= c.used /\ c.used <= Len(c.spch)
  /\ c.fe.spch = Part(T, Start(m), Start(m) + FrameSize)
  /\ \E o \in Int : o <= base /\ o <= Start(m + 1) /\ c.fe.overflow = Part(T, o, base)
  /\ c.needed > 0 => c.needed = base - Start(m + 1)
  /\ c.needed <= 0 => base <= Start(m + 1)

(* The front end between calls: overflow has the samples of the frame that *)
(* comes next, up to sample t.                                             *)
Between(fe, v, T, t, given) ==
  /\ Hears(fe, v, WholeFrames(T), given)
  /\ t \in Nat /\ Start(fe.nframe) <= t /\ t <= Start(fe.nframe) + FrameSize
  /\ fe.overflow = Part(T, Start(fe.nframe), t)
  /\ fe.nframe > 0 => Start(fe.nframe - 1) + FrameSize <= t

(* After n frames, all of whose speech is out, a frame more was analysed. *)
FrameMore(d, fe, v, S, n, given, spch, total) ==
  /\ fe.nframe = n /\ Hears(fe, v, S, given \o d.out) /\ Held(fe) = <<>>
  /\ v[n + 1] \in BOOLEAN /\ d.fe = Analyse(fe, S[n + 1], v)
  /\ CallOK(d, spch, total) /\ d.room # 0

(* It is heard. *)
LEMMA FrameHears ==
  ASSUME NEW v, NEW S, NEW given, IsSeq(given), NEW n \in Nat, NEW fe, NEW d, NEW spch, NEW total \in Nat,
         FrameMore(d, fe, v, S, n, given, spch, total)
  PROVE  HeardOn(Output(d), d, v, S, n, given) /\ d.fe.overflow = fe.overflow /\ d.fe.spch = S[n + 1]
  <1>0. /\ fe.nframe = n /\ Hears(fe, v, S, given \o d.out) /\ Held(fe) = <<>>
        /\ v[n + 1] \in BOOLEAN /\ d.fe = Analyse(fe, S[n + 1], v)
        /\ CallOK(d, spch, total) /\ d.room # 0
    BY DEF FrameMore
  <1>1. FeOK(fe) /\ VadOK(fe, v, S, n) /\ IsSeq(given \o d.out) /\ (given \o d.out) \o Held(fe) = Heard(S, v, n)
    BY <1>0 DEF Hears
  <1>2. Analysed(d.fe, fe, v, S, n)
    BY <1>0, <1>1, AnalyseHears
  <1>3. given \o d.out = Heard(S, v, n)
    <2>1. PICK g : g = given \o d.out
      OBVIOUS
    <2>2. g \o <<>> = g
      BY <1>1, <2>1, ConcatNothing
    <2>3. QED
      BY <1>0, <1>1, <2>1, <2>2
  <1>4. HeardOn(Output(d), d, v, S, n, given)
    BY <1>0, <1>2, <1>3, OutputHears
  <1>5. QED
    BY <1>2, <1>4 DEF Analysed

(* The first frame of a call has the samples of the old overflow. *)
LEMMA FirstFrameHears ==
  ASSUME NEW v, NEW T, NEW given, IsSeq(given), NEW n \in Nat, NEW base \in Nat, NEW len \in Nat,
         NEW c, NEW total \in Nat, CallOK(c, Part(T, base, base + len), total), c.room # 0, Held(c.fe) = <<>>,
         Between(c.fe, v, T, base, given \o c.out), c.fe.nframe = n, v[n + 1] \in BOOLEAN,
         Start(n) + FrameSize <= base + len
  PROVE  InFrames(FirstFrame(c, v), n, v, T, base, given)
  <1>1. PICK sz \in Nat, sh \in Nat, st \in Nat :
          /\ sz = FrameSize /\ sh = FrameShift /\ st = Start(n) /\ sh >= 1 /\ sz > sh /\ Start(n + 1) = st + sh
    BY StartIs
  <1>2. /\ Hears(c.fe, v, WholeFrames(T), given \o c.out) /\ st <= base /\ base <= st + sz
        /\ c.fe.overflow = Part(T, st, base)
    BY <1>1 DEF Between
  <1>3. PICK spch : spch = Part(T, base, base + len)
    OBVIOUS
  <1>4. IsSeq(spch) /\ Len(spch) = len
    <2>1. base + len \in Int /\ base \in Int /\ base <= base + len /\ (base + len) - base = len
      OBVIOUS
    <2>2. IsSeq(Part(T, base, base + len)) /\ Len(Part(T, base, base + len)) = (base + len) - base
      BY ONLY <2>1, PartIs
    <2>3. QED
      BY <1>3, <2>1, <2>2
  <1>5. Len(c.fe.overflow) = base - st
    <2>1. st \in Int /\ base \in Int
      OBVIOUS
    <2>2. Len(Part(T, st, base)) = base - st
      BY <1>2, <2>1, PartIs
    <2>3. QED
      BY <1>2, <2>2
  <1>6. PICK offset \in Nat, needed \in Int :
          /\ offset = sz - (base - st) /\ needed = (base - st) - sh
          /\ base + offset = st + sz /\ offset <= len /\ needed = base - (st + sh)
    <2>1. sz - (base - st) \in Nat /\ base + (sz - (base - st)) = st + sz
      BY <1>2
    <2>2. sz - (base - st) <= len
      BY <1>1, <1>2
    <2>3. (base - st) - sh \in Int /\ (base - st) - sh = base - (st + sh)
      BY <1>1
    <2>4. QED
      BY <2>1, <2>2, <2>3
  <1> DEFINE frame == c.fe.overflow \o FirstOf(c.spch, offset)
             fe == Analyse(c.fe, frame, v)
             d == [c EXCEPT !.fe = fe, !.used = offset, !.needed = needed]
  <1>7. FirstFrame(c, v) = Output(d)
    <2>1. FrameSize - Len(c.fe.overflow) = offset /\ Len(c.fe.overflow) - FrameShift = needed
      BY <1>1, <1>5, <1>6
    <2>2. QED
      BY <2>1 DEF FirstFrame, CallOK, CallFields
  <1>8. frame = WholeFrames(T)[n + 1]
    <2>1. c.spch = spch
      BY <1>3 DEF CallOK
    <2>2. FirstOf(spch, offset) = Part(spch, 0, offset)
      BY FirstIs
    <2>3. Part(spch, 0, offset) = Part(T, base, st + sz)
      <3>1. PICK to \in Int, from \in Int, end \in Int : to = base + len /\ from = base /\ end = st + sz
        OBVIOUS
      <3>2. PICK zero \in Int, n2 \in Int : zero = 0 /\ n2 = offset
        OBVIOUS
      <3>3. from <= from /\ from <= end /\ end <= to /\ zero = from - from /\ n2 = end - from
        BY <1>2, <1>6, <3>1, <3>2
      <3>4. Part(Part(T, from, to), zero, n2) = Part(T, from, end)
        BY ONLY <3>3, from \in Int, to \in Int, end \in Int, zero \in Int, n2 \in Int, PartWithin
      <3>5. QED
        BY <1>3, <3>1, <3>2, <3>4
    <2>4. Part(T, st, base) \o Part(T, base, st + sz) = Part(T, st, st + sz)
      <3>1. PICK to \in Int : to = st + sz /\ base <= to
        BY <1>2
      <3>2. st \in Int /\ base \in Int
        OBVIOUS
      <3>3. Part(T, st, base) \o Part(T, base, to) = Part(T, st, to)
        BY <1>2, <3>1, <3>2, PartsJoin
      <3>4. QED
        BY <3>1, <3>3
    <2>6. frame = Part(T, st, st + sz)
      BY <1>2, <2>1, <2>2, <2>3, <2>4
    <2>7. QED
      BY <1>1, <2>6, WholeFrame
  <1>9. FeOK(fe)
    BY <1>2, AnalyseEffect DEF Hears
  <1> HIDE DEF frame, fe
  <1>10. /\ d = [f \in CallFields |-> d[f]] /\ d.spch = spch /\ d.used = offset /\ d.needed = needed
         /\ d.out = c.out /\ d.room = c.room /\ d.fe = fe
    BY <1>3 DEF CallOK, CallFields
  <1> HIDE DEF d
  <1>11. CallOK(d, spch, total) /\ d.room # 0
    <2>1. /\ c.used \in Int /\ c.room \in Nat /\ IsSeq(c.out) /\ Len(c.out) + c.room = total
      BY DEF CallOK
    <2>2. d.used \in Int /\ d.needed \in Int /\ d.room \in Nat /\ IsSeq(d.out) /\ Len(d.out) + d.room = total
      <3>1. d.used = offset /\ d.needed = needed /\ d.out = c.out /\ d.room = c.room
        BY <1>10
      <3>2. QED
        BY ONLY <2>1, <3>1, offset \in Nat, needed \in Int
    <2>3. FeOK(d.fe) /\ d = [f \in CallFields |-> d[f]] /\ d.spch = spch
      BY <1>9, <1>10
    <2>4. CallOK(d, spch, total)
      BY <2>2, <2>3 DEF CallOK
    <2>5. QED
      BY <1>10, <2>4
  <1>12. d.fe = Analyse(c.fe, WholeFrames(T)[n + 1], v) /\ d.out = c.out
    BY <1>8, <1>10 DEF fe
  <1>13. Hears(c.fe, v, WholeFrames(T), given \o d.out)
    BY <1>2, <1>12
  <1>14. /\ HeardOn(Output(d), d, v, WholeFrames(T), n, given)
         /\ d.fe.overflow = c.fe.overflow /\ d.fe.spch = WholeFrames(T)[n + 1]
    <2>1. PICK S, f : S = WholeFrames(T) /\ f = c.fe
      OBVIOUS
    <2>2. FrameMore(d, f, v, S, n, given, spch, total)
      BY <1>11, <1>12, <1>13, <2>1 DEF FrameMore
    <2>3. HeardOn(Output(d), d, v, S, n, given) /\ d.fe.overflow = f.overflow /\ d.fe.spch = S[n + 1]
      BY <2>2, FrameHears
    <2>4. QED
      BY <2>1, <2>3
  <1>15. PICK e : e = Output(d)
    OBVIOUS
  <1>16. /\ Hears(e.fe, v, WholeFrames(T), given \o e.out) /\ e.fe.nframe = n + 1
         /\ (e.room # 0 => Held(e.fe) = <<>>)
         /\ e.used = offset /\ e.needed = needed /\ e.spch = spch
         /\ e.fe.overflow = Part(T, st, base) /\ e.fe.spch = WholeFrames(T)[n + 1]
    BY <1>2, <1>10, <1>14, <1>15 DEF HeardOn, Same
  <1>17. e.fe.spch = Part(T, Start(n), Start(n) + FrameSize)
    BY <1>16, WholeFrame
  <1>18. \E o \in Int : o <= base /\ o <= Start(n + 1) /\ e.fe.overflow = Part(T, o, base)
    <2>1. st \in Int /\ st <= base /\ st <= Start(n + 1)
      BY <1>1, <1>2
    <2>2. QED
      BY <1>16, <2>1
  <1>19. /\ base + e.used = Start(n) + FrameSize /\ 0 <= e.used /\ e.used <= Len(e.spch)
         /\ (e.needed > 0 => e.needed = base - Start(n + 1))
         /\ (e.needed <= 0 => base <= Start(n + 1))
    <2>1. base + e.used = Start(n) + FrameSize
      BY <1>1, <1>6, <1>16
    <2>2. 0 <= e.used /\ e.used <= Len(e.spch)
      BY <1>4, <1>6, <1>16
    <2>3. e.needed = base - Start(n + 1)
      BY <1>1, <1>6, <1>16
    <2>4. needed <= 0 => base <= st + sh
      BY <1>6
    <2>5. QED
      BY <1>1, <1>16, <2>1, <2>2, <2>3, <2>4
  <1>20. InFrames(e, n, v, T, base, given)
    BY <1>16, <1>17, <1>18, <1>19 DEF InFrames
  <1>21. QED
    BY <1>7, <1>15, <1>20

(* The last members of a part. *)
LEMMA LastOfPart ==
  ASSUME NEW s, NEW a \in Int, NEW b \in Int, NEW p \in Int, a <= p, p <= b, NEW n \in Int, n = b - p
  PROVE  LastOf(Part(s, a, b), n) = Part(s, p, b)
  <1>1. PICK w : w = Part(s, a, b)
    OBVIOUS
  <1>2. PICK len \in Int, x \in Int : len = b - a /\ x = p - a /\ x = len - n
    OBVIOUS
  <1>3. a <= b /\ a \in Int /\ b \in Int
    OBVIOUS
  <1>4. Len(w) = len
    <2>1. Len(Part(s, a, b)) = b - a
      BY ONLY <1>3, PartIs
    <2>2. QED
      BY <1>1, <1>2, <2>1
  <1>5. LastOf(w, n) = Part(w, len - n, len)
    BY <1>4, LastIs
  <1>6. Part(Part(s, a, b), x, len) = Part(s, p, b)
    <2>1. b <= b /\ a <= p /\ p <= b /\ x = p - a /\ len = b - a
      BY <1>2
    <2>2. QED
      BY ONLY <1>3, <2>1, p \in Int, x \in Int, len \in Int, PartWithin
  <1>7. QED
    BY <1>1, <1>2, <1>5, <1>6

(* A frame more in the loop of fe_process_frames(). *)
LEMMA NextFrameHears ==
  ASSUME NEW v, NEW T, NEW given, IsSeq(given), NEW m \in Nat, NEW n \in Nat, n = m + 1,
         NEW base \in Nat, NEW len \in Nat,
         NEW c, NEW total \in Nat, CallOK(c, Part(T, base, base + len), total), MoreFrames(c),
         InFrames(c, m, v, T, base, given), v[n + 1] \in BOOLEAN
  PROVE  InFrames(NextFrame(c, v), n, v, T, base, given)
  <1>1. PICK sz \in Nat, sh \in Nat, st \in Nat, st1 \in Nat, end \in Nat :
          /\ sz = FrameSize /\ sh = FrameShift /\ st = Start(m) /\ sh >= 1 /\ sz > sh
          /\ st1 = Start(n) /\ st1 = st + sh /\ end = st + sz
    <2>1. Start(m) + FrameSize \in Nat /\ Start(m) + FrameShift \in Nat
      BY StartIs
    <2>2. QED
      BY <2>1, StartIs
  <1>2. Start(n + 1) = st1 + sh
    BY <1>1, StartIs
  <1>3. /\ Hears(c.fe, v, WholeFrames(T), given \o c.out) /\ (c.room # 0 => Held(c.fe) = <<>>)
        /\ c.fe.nframe = n /\ c.fe.spch = Part(T, st, end)
        /\ base + c.used = end /\ 0 <= c.used
        /\ \E o \in Int : o <= base /\ o <= st1 /\ c.fe.overflow = Part(T, o, base)
        /\ c.needed > 0 => c.needed = base - st1
        /\ c.needed <= 0 => base <= st1
    BY <1>1 DEF InFrames
  <1>4. PICK spch : spch = Part(T, base, base + len)
    OBVIOUS
  <1>5. Len(spch) = len
    <2>1. PICK to \in Int : to = base + len /\ base <= to /\ to - base = len
      OBVIOUS
    <2>2. base \in Int /\ base <= to
      BY <2>1
    <2>3. Len(Part(T, base, to)) = to - base
      BY ONLY <2>2, to \in Int, PartIs
    <2>4. QED
      BY <1>4, <2>1, <2>3
  <1>a. base + c.used = end /\ (c.needed > 0 => c.needed = base - st1) /\ (c.needed <= 0 => base <= st1)
    BY <1>3
  <1>b. PICK used \in Int, old \in Int : used = c.used /\ old = c.needed
    BY DEF CallOK
  <1>c. PICK used1 \in Int, needed \in Int : used1 = used + sh /\ needed = IF old > 0 THEN old - sh ELSE old
    <2>1. used + sh \in Int /\ (IF old > 0 THEN old - sh ELSE old) \in Int
      BY ONLY used \in Int, old \in Int, sh \in Nat
    <2>2. QED
      BY ONLY <2>1
  <1>d. base + used = end /\ 0 <= used /\ (old > 0 => old = base - st1) /\ (old <= 0 => base <= st1)
    <2>1. 0 <= c.used
      BY <1>3
    <2>2. QED
      BY ONLY <1>a, <1>b, <2>1
  <1>6. used1 <= len /\ used1 >= 0
    <2>1. Len(c.spch) = len
      BY <1>4, <1>5 DEF CallOK
    <2>2. len - used >= sh
      BY <1>1, <1>b, <2>1 DEF MoreFrames
    <2>3. QED
      BY ONLY <1>c, <1>d, <2>2, len \in Nat, used \in Int, sh \in Nat, used1 \in Int
  <1> DEFINE frame == LastOf(c.fe.spch, FrameSize - FrameShift) \o SubSeq(c.spch, c.used + 1, c.used + FrameShift)
             fe == Analyse(c.fe, frame, v)
             d == [c EXCEPT !.fe = fe, !.used = used1, !.needed = needed]
  <1>7. NextFrame(c, v) = Output(d)
    BY <1>1, <1>b, <1>c DEF NextFrame, CallOK, CallFields
  <1>8. frame = WholeFrames(T)[n + 1]
    <2>1. c.spch = spch
      BY <1>4 DEF CallOK
    <2>2. PICK keep \in Int, end1 \in Int, to \in Int, from \in Int :
            /\ keep = FrameSize - FrameShift /\ keep = end - st1 /\ end1 = end + sh /\ to = base + len /\ from = base
            /\ end1 = st1 + sz
      BY <1>1
    <2>3. LastOf(Part(T, st, end), keep) = Part(T, st1, end)
      <3>1. st <= st1 /\ st1 <= end /\ keep = end - st1
        BY <1>1, <2>2
      <3>2. st \in Int /\ end \in Int /\ st1 \in Int
        OBVIOUS
      <3>3. QED
        BY ONLY <3>1, <3>2, keep \in Int, LastOfPart
    <2>4. Part(Part(T, from, to), used, used1) = Part(T, end, end1)
      <3>1. from <= end /\ end <= end1 /\ end1 <= to /\ used = end - from /\ used1 = end1 - from
        BY ONLY <1>1, <1>c, <1>d, <1>6, <2>2, base \in Nat, len \in Nat, used \in Int, used1 \in Int
      <3>2. end \in Int
        OBVIOUS
      <3>3. QED
        BY ONLY <3>1, <3>2, from \in Int, to \in Int, end1 \in Int, used \in Int, used1 \in Int, PartWithin
    <2>5. Part(T, st1, end) \o Part(T, end, end1) = Part(T, st1, end1)
      <3>1. st1 <= end /\ end <= end1
        BY <1>1, <2>2
      <3>2. end \in Int /\ st1 \in Int
        OBVIOUS
      <3>3. QED
        BY ONLY <3>1, <3>2, end1 \in Int, PartsJoin
    <2>6. SubSeq(c.spch, c.used + 1, c.used + FrameShift) = Part(Part(T, from, to), used, used1)
      BY <1>1, <1>4, <1>b, <1>c, <2>1, <2>2 DEF Part
    <2>7. LastOf(c.fe.spch, FrameSize - FrameShift) = LastOf(Part(T, st, end), keep)
      BY <1>3, <2>2
    <2>8. frame = Part(T, st1, end1)
      BY <2>3, <2>4, <2>5, <2>6, <2>7
    <2>9. WholeFrames(T)[n + 1] = Part(T, Start(n), Start(n) + FrameSize)
      BY WholeFrame
    <2>10. QED
      BY <1>1, <2>2, <2>8, <2>9
  <1>9. FeOK(fe)
    BY <1>3, AnalyseEffect DEF Hears
  <1> HIDE DEF frame, fe
  <1>10. /\ d = [f \in CallFields |-> d[f]] /\ d.spch = spch /\ d.used = used1 /\ d.needed = needed
         /\ d.out = c.out /\ d.room = c.room /\ d.fe = fe
    BY <1>4 DEF CallOK, CallFields
  <1> HIDE DEF d
  <1>11. CallOK(d, spch, total) /\ d.room # 0 /\ c.room # 0
    <2>1. /\ c.room \in Nat /\ IsSeq(c.out) /\ Len(c.out) + c.room = total /\ c.room # 0
      <3>1. c.room \in Nat /\ IsSeq(c.out) /\ Len(c.out) + c.room = total
        BY DEF CallOK
      <3>2. c.room > 0
        BY DEF MoreFrames
      <3>3. QED
        BY <3>1, <3>2
    <2>2. d.used \in Int /\ d.needed \in Int /\ d.room \in Nat /\ IsSeq(d.out) /\ Len(d.out) + d.room = total
      <3>1. d.used = used1 /\ d.needed = needed /\ d.out = c.out /\ d.room = c.room
        BY <1>10
      <3>2. QED
        BY ONLY <2>1, <3>1, used1 \in Int, needed \in Int
    <2>3. FeOK(d.fe) /\ d = [f \in CallFields |-> d[f]] /\ d.spch = spch
      BY <1>9, <1>10
    <2>4. CallOK(d, spch, total)
      BY <2>2, <2>3 DEF CallOK
    <2>5. QED
      BY <1>10, <2>1, <2>4
  <1>12. d.fe = Analyse(c.fe, WholeFrames(T)[n + 1], v) /\ d.out = c.out
    BY <1>8, <1>10 DEF fe
  <1>13. Hears(c.fe, v, WholeFrames(T), given \o d.out) /\ Held(c.fe) = <<>>
    BY <1>3, <1>11, <1>12
  <1>14. /\ HeardOn(Output(d), d, v, WholeFrames(T), n, given)
         /\ d.fe.overflow = c.fe.overflow /\ d.fe.spch = WholeFrames(T)[n + 1]
    <2>1. PICK S, f : S = WholeFrames(T) /\ f = c.fe
      OBVIOUS
    <2>2. FrameMore(d, f, v, S, n, given, spch, total)
      BY <1>3, <1>11, <1>12, <1>13, <2>1 DEF FrameMore
    <2>3. HeardOn(Output(d), d, v, S, n, given) /\ d.fe.overflow = f.overflow /\ d.fe.spch = S[n + 1]
      BY <2>2, FrameHears
    <2>4. QED
      BY <2>1, <2>3
  <1>15. PICK e : e = Output(d)
    OBVIOUS
  <1>16. /\ Hears(e.fe, v, WholeFrames(T), given \o e.out) /\ e.fe.nframe = n + 1
         /\ (e.room # 0 => Held(e.fe) = <<>>)
         /\ e.used = used1 /\ e.needed = needed /\ e.spch = spch
         /\ e.fe.overflow = c.fe.overflow /\ e.fe.spch = WholeFrames(T)[n + 1]
    BY <1>10, <1>14, <1>15 DEF HeardOn, Same
  <1>17. e.fe.spch = Part(T, Start(n), Start(n) + FrameSize)
    BY <1>16, WholeFrame
  <1>18. \E o \in Int : o <= base /\ o <= Start(n + 1) /\ e.fe.overflow = Part(T, o, base)
    <2>1. PICK o \in Int : o <= base /\ o <= st1 /\ c.fe.overflow = Part(T, o, base)
      BY <1>3
    <2>2. o <= Start(n + 1)
      BY <1>1, <1>2, <2>1
    <2>3. QED
      BY <1>16, <2>1, <2>2
  <1>19. /\ base + e.used = Start(n) + FrameSize /\ 0 <= e.used /\ e.used <= Len(e.spch)
         /\ (e.needed > 0 => e.needed = base - Start(n + 1))
         /\ (e.needed <= 0 => base <= Start(n + 1))
    <2>1. base + used1 = Start(n) + FrameSize
      BY ONLY <1>1, <1>c, <1>d, base \in Nat, used \in Int, used1 \in Int
    <2>2. 0 <= used1 /\ used1 <= Len(spch)
      BY <1>5, <1>6
    <2>4. needed > 0 => needed = base - (st1 + sh)
      BY ONLY <1>1, <1>c, <1>d, base \in Nat, old \in Int, needed \in Int
    <2>5. needed <= 0 => base <= st1 + sh
      BY ONLY <1>1, <1>c, <1>d, base \in Nat, old \in Int, needed \in Int
    <2>6. QED
      BY <1>2, <1>16, <2>1, <2>2, <2>4, <2>5
  <1>20. InFrames(e, n, v, T, base, given)
    BY <1>16, <1>17, <1>18, <1>19 DEF InFrames
  <1>21. QED
    BY <1>7, <1>15, <1>20

(* The numbers of the frames are those of a sequence as long as the signal. *)
LEMMA FrameNumber ==
  ASSUME NEW n \in Nat, NEW max \in Nat, Start(n) + FrameSize <= max
  PROVE  n + 1 \in 1 .. max
  <1>1. PICK st \in Nat, sz \in Nat : st = Start(n) /\ sz = FrameSize /\ sz > 1 /\ n <= st
    BY StartIs
  <1>2. st + sz <= max
    BY <1>1
  <1>3. QED
    BY ONLY <1>1, <1>2, n \in Nat, max \in Nat

(* The loop of fe_process_frames(): the frames of a call are heard. *)
InLoop(c, v, T, base, len, given, total) ==
  CallOK(c, Part(T, base, base + len), total) /\ \E m \in Nat : InFrames(c, m, v, T, base, given)

(* A round of it keeps this.                                               *)
LEMMA FrameRoundHears ==
  ASSUME NEW T, NEW given, IsSeq(given), NEW base \in Nat, NEW len \in Nat, NEW max \in Nat, base + len <= max,
         NEW v \in [1 .. max -> BOOLEAN], NEW c, NEW total \in Nat, InLoop(c, v, T, base, len, given, total)
  PROVE  InLoop(FrameRound(c, v), v, T, base, len, given, total)
  <1>1. PICK spch : spch = Part(T, base, base + len) /\ CallOK(c, spch, total)
    BY DEF InLoop
  <1>2. CallOK(FrameRound(c, v), spch, total)
    BY <1>1, FrameRoundEffect
  <1>3. PICK m \in Nat : InFrames(c, m, v, T, base, given)
    BY DEF InLoop
  <1>4. CASE ~MoreFrames(c)
    BY <1>4 DEF FrameRound
  <1>5. CASE MoreFrames(c)
    <2>1. PICK n \in Nat : n = m + 1
      OBVIOUS
    <2>2. PICK used \in Int, sz \in Nat, sh \in Nat, st \in Nat :
            used = c.used /\ sz = FrameSize /\ sh = FrameShift /\ st = Start(m) /\ Start(n) = st + sh
      <3>1. c.used \in Int
        BY <1>1 DEF CallOK
      <3>2. QED
        BY ZenonT(40), <2>1, <3>1, StartIs
    <2>3. base + used = st + sz
      BY <1>3, <2>2 DEF InFrames
    <2>4. len - used >= sh
      <3>1. Len(spch) = len
        <4>1. PICK to \in Int : to = base + len /\ base <= to /\ to - base = len
          OBVIOUS
        <4>2. base \in Int /\ base <= to
          BY <4>1
        <4>3. Len(Part(T, base, to)) = to - base
          BY ONLY <4>2, to \in Int, PartIs
        <4>4. QED
          BY <1>1, <4>1, <4>3
      <3>2. c.spch = spch
        BY <1>1 DEF CallOK
      <3>3. QED
        BY <1>5, <2>2, <3>1, <3>2 DEF MoreFrames
    <2>5. (st + sh) + sz <= max
      BY ONLY <2>3, <2>4, base + len <= max, base \in Nat, len \in Nat, max \in Nat,
              used \in Int, st \in Nat, sz \in Nat, sh \in Nat
    <2>6. Start(n) + FrameSize <= max
      BY <2>2, <2>5
    <2>7. n + 1 \in 1 .. max
      BY <2>6, FrameNumber
    <2>8. v[n + 1] \in BOOLEAN
      BY <2>7
    <2>9. InFrames(NextFrame(c, v), n, v, T, base, given)
      BY <1>1, <1>3, <1>5, <2>1, <2>8, NextFrameHears
    <2>10. FrameRound(c, v) = NextFrame(c, v)
      BY <1>5 DEF FrameRound
    <2>11. QED
      BY <1>1, <1>2, <2>9, <2>10 DEF InLoop
  <1>6. QED
    BY <1>4, <1>5

(* Only the overflow of the front end changes. *)
LEMMA HearsKeeps ==
  ASSUME NEW fe, NEW v, NEW S, NEW given, Hears(fe, v, S, given), NEW over, IsSeq(over)
  PROVE  LET f == [fe EXCEPT !.overflow = over]
         IN  Hears(f, v, S, given) /\ f.overflow = over /\ f.nframe = fe.nframe /\ Held(f) = Held(fe)
  <1>1. FeOK(fe)
    BY DEF Hears
  <1>2. PICK f : f = [fe EXCEPT !.overflow = over]
    OBVIOUS
  <1>3. /\ f = [g \in FeFields |-> f[g]] /\ f.overflow = over /\ f.cepBuf = fe.cepBuf
        /\ f.cepRead = fe.cepRead /\ f.nframe = fe.nframe /\ f.global = fe.global
        /\ f.prespchNum = fe.prespchNum /\ f.postspchNum = fe.postspchNum
    BY <1>1, <1>2 DEF FeOK, FeFields
  <1>4. FeOK(f)
    BY <1>1, <1>3 DEF FeOK
  <1>5. Held(f) = Held(fe)
    BY <1>3 DEF Held
  <1>6. VadOK(f, v, S, f.nframe)
    BY <1>3 DEF Hears, VadOK
  <1>7. Hears(f, v, S, given)
    BY <1>3, <1>4, <1>5, <1>6 DEF Hears
  <1>8. QED
    BY <1>2, <1>3, <1>5, <1>7

(* Where a call ends: up to sample t, between the frames. *)
CallEnds(d, v, T, base, len, given) ==
  d.used \in 0 .. len /\ Between(d.fe, v, T, base + d.used, given \o d.out)

(* The samples that are kept for the next call are those of the frame that *)
(* comes next.                                                             *)
LEMMA SaveOverflowHears ==
  ASSUME NEW v, NEW T, NEW given, IsSeq(given), NEW m \in Nat, NEW base \in Nat, NEW len \in Nat,
         NEW c, NEW total \in Nat, CallOK(c, Part(T, base, base + len), total), InFrames(c, m, v, T, base, given)
  PROVE  CallEnds(SaveOverflow(c), v, T, base, len, given)
  <1>1. PICK sz \in Nat, sh \in Nat, st \in Nat, n \in Nat, st1 \in Nat :
          /\ sz = FrameSize /\ sh = FrameShift /\ st = Start(m) /\ sh >= 1 /\ sz > sh
          /\ n = m + 1 /\ st1 = Start(n) /\ st1 = st + sh
    <2>1. m + 1 \in Nat /\ Start(m) + FrameShift \in Nat
      BY StartIs
    <2>2. QED
      BY <2>1, StartIs
  <1>t. PICK to \in Int : to = base + len
    OBVIOUS
  <1>s. PICK spch : spch = Part(T, base, to)
    OBVIOUS
  <1>2. spch = Part(T, base, to) /\ to = base + len
    BY <1>t, <1>s
  <1>3. Len(spch) = len
    <2>1. base \in Int /\ base <= to /\ to - base = len
      BY <1>2
    <2>2. Len(Part(T, base, to)) = to - base
      BY ONLY <2>1, to \in Int, PartIs
    <2>3. QED
      BY <1>2, <2>1, <2>2
  <1>4. CallOK(c, spch, total)
    BY <1>2
  <1>5. PICK used \in Int, needed \in Int : used = c.used /\ needed = c.needed
    BY <1>4 DEF CallOK
  <1>6. /\ Hears(c.fe, v, WholeFrames(T), given \o c.out) /\ c.fe.nframe = n
        /\ base + used = st + sz /\ 0 <= used /\ used <= len
        /\ needed > 0 => needed = base - st1
        /\ needed <= 0 => base <= st1
    <2>1. c.spch = spch
      BY <1>4 DEF CallOK
    <2>2. QED
      BY <1>1, <1>3, <1>5, <2>1 DEF InFrames
  <1>7. PICK o \in Int : o <= base /\ o <= st1 /\ c.fe.overflow = Part(T, o, base)
    BY <1>1 DEF InFrames
  <1>8. \E x \in Int : \E over :
                               /\ SaveOverflow(c) = [c EXCEPT !.used = x, !.fe = [c.fe EXCEPT !.overflow = over]]
                               /\ 0 <= x /\ x <= len
                               /\ st + sz <= base + x /\ base + x <= st1 + sz
                               /\ over = Part(T, st1, base + x)
    <2>1. CASE needed <= 0
      <3>1. PICK upto \in Int, from \in Int :
              /\ upto = used + NoMoreThan(len - used, sh) /\ from = used - (sz - sh)
              /\ 0 <= from /\ from <= upto /\ upto <= len /\ base + from = st + sh
              /\ st + sz <= base + upto /\ base + upto <= (st + sh) + sz
        <4>1. needed <= 0 => LET upto == used + NoMoreThan(len - used, sh)
                                 from == used - (sz - sh)
                             IN  /\ upto \in Int /\ from \in Int /\ 0 <= from /\ from <= upto /\ upto <= len
                                 /\ base + from = st + sh /\ used <= upto
                                 /\ st + sz <= base + upto /\ base + upto <= (st + sh) + sz
          <5>1. /\ sh >= 1 /\ sz > sh /\ base + used = st + sz /\ 0 <= used /\ used <= len
                /\ (needed > 0 => needed = base - (st + sh)) /\ (needed <= 0 => base <= st + sh)
            BY <1>1, <1>6
          <5>2. QED
            BY ONLY <5>1, used \in Int, needed \in Int, len \in Nat, base \in Nat, st \in Nat, sz \in Nat, sh \in Nat
               DEF NoMoreThan
        <4>2. QED
          BY <2>1, <4>1
      <3>2. PICK over : over = SubSeq(c.spch, used - (sz - sh) + 1, upto)
        OBVIOUS
      <3>3. SaveOverflow(c) = [c EXCEPT !.used = upto, !.fe = [c.fe EXCEPT !.overflow = over]]
        <4>1. c = [f \in CallFields |-> c[f]] /\ c.spch = spch
          BY <1>4 DEF CallOK
        <4>2. QED
          BY <1>1, <1>3, <1>5, <2>1, <3>1, <3>2, <4>1 DEF SaveOverflow, CallFields
      <3>4. over = Part(T, st1, base + upto)
        <4>1. PICK end \in Int : end = base + upto
          OBVIOUS
        <4>2. base <= st1 /\ st1 <= end /\ end <= to /\ from = st1 - base /\ upto = end - base
          BY ONLY <1>1, <1>2, <3>1, <4>1, base \in Nat, len \in Nat, from \in Int, upto \in Int, to \in Int
        <4>3. base \in Int /\ st1 \in Int
          OBVIOUS
        <4>4. Part(Part(T, base, to), from, upto) = Part(T, st1, end)
          BY ONLY <4>2, <4>3, end \in Int, to \in Int, from \in Int, upto \in Int, PartWithin
        <4>5. c.spch = spch
          BY <1>4 DEF CallOK
        <4>6. over = Part(spch, from, upto)
          BY <3>1, <3>2, <4>5 DEF Part
        <4>7. QED
          BY <1>2, <4>1, <4>4, <4>6
      <3>5. st + sz <= base + upto /\ base + upto <= st1 + sz /\ 0 <= upto /\ upto <= len
        BY <1>1, <3>1
      <3>6. QED
        BY <3>3, <3>4, <3>5
    <2>2. CASE needed > 0
      <3>1. PICK fill \in Int :
              /\ fill = NoMoreThan(len, sz - needed) /\ 0 <= fill /\ fill <= len /\ fill >= used
              /\ st + sz <= base + fill /\ base + fill <= (st + sh) + sz /\ base - needed = st + sh
        <4>1. needed > 0 => LET fill == NoMoreThan(len, sz - needed)
                            IN  /\ fill \in Int /\ 0 <= fill /\ fill <= len /\ fill >= used
                                /\ st + sz <= base + fill /\ base + fill <= (st + sh) + sz
                                /\ base - needed = st + sh
          <5>1. /\ sh >= 1 /\ sz > sh /\ base + used = st + sz /\ 0 <= used /\ used <= len
                /\ (needed > 0 => needed = base - (st + sh)) /\ (needed <= 0 => base <= st + sh)
            BY <1>1, <1>6
          <5>2. QED
            BY ONLY <5>1, used \in Int, needed \in Int, len \in Nat, base \in Nat, st \in Nat, sz \in Nat, sh \in Nat
               DEF NoMoreThan
        <4>2. QED
          BY <2>2, <4>1
      <3>2. PICK over : over = LastOf(c.fe.overflow, needed) \o FirstOf(c.spch, fill)
        OBVIOUS
      <3>3. SaveOverflow(c) = [c EXCEPT !.used = fill, !.fe = [c.fe EXCEPT !.overflow = over]]
        <4>1. c = [f \in CallFields |-> c[f]] /\ c.spch = spch
          BY <1>4 DEF CallOK
        <4>2. (IF fill > used THEN fill ELSE used) = fill /\ ~(needed <= 0)
          BY <2>2, <3>1
        <4>3. QED
          BY <1>1, <1>3, <1>5, <3>1, <3>2, <4>1, <4>2 DEF SaveOverflow, CallFields
      <3>4. over = Part(T, st1, base + fill)
        <4>1. PICK end \in Int, zero \in Int : end = base + fill /\ zero = 0
          OBVIOUS
        <4>2. /\ base <= base /\ base <= end /\ end <= to /\ zero = base - base /\ fill = end - base
              /\ o <= st1 /\ st1 <= base /\ needed = base - st1
          BY ONLY <1>1, <1>2, <1>7, <2>2, <3>1, <4>1,
                  base \in Nat, len \in Nat, fill \in Int, to \in Int, needed \in Int
        <4>3. base \in Int /\ st1 \in Int
          OBVIOUS
        <4>4. Part(Part(T, base, to), zero, fill) = Part(T, base, end)
          BY ONLY <4>2, <4>3, end \in Int, to \in Int, zero \in Int, fill \in Int, PartWithin
        <4>5. LastOf(Part(T, o, base), needed) = Part(T, st1, base)
          BY ONLY <4>2, <4>3, o \in Int, needed \in Int, LastOfPart
        <4>6. Part(T, st1, base) \o Part(T, base, end) = Part(T, st1, end)
          BY ONLY <4>2, <4>3, end \in Int, PartsJoin
        <4>7. FirstOf(spch, fill) = Part(spch, zero, fill)
          BY <4>1, FirstIs
        <4>8. c.spch = spch
          BY <1>4 DEF CallOK
        <4>9. QED
          BY <1>2, <1>7, <3>2, <4>1, <4>4, <4>5, <4>6, <4>7, <4>8
      <3>5. st + sz <= base + fill /\ base + fill <= st1 + sz
        BY <1>1, <3>1
      <3>6. QED
        BY <3>1, <3>3, <3>4, <3>5
    <2>3. needed <= 0 \/ needed > 0
      OBVIOUS
    <2>4. QED
      BY ONLY <2>1, <2>2, <2>3
  <1>x. PICK x \in Int : \E over :
                               /\ SaveOverflow(c) = [c EXCEPT !.used = x, !.fe = [c.fe EXCEPT !.overflow = over]]
                               /\ 0 <= x /\ x <= len
                               /\ st + sz <= base + x /\ base + x <= st1 + sz
                               /\ over = Part(T, st1, base + x)
    BY <1>8
  <1>y. PICK over :
                               /\ SaveOverflow(c) = [c EXCEPT !.used = x, !.fe = [c.fe EXCEPT !.overflow = over]]
                               /\ 0 <= x /\ x <= len
                               /\ st + sz <= base + x /\ base + x <= st1 + sz
                               /\ over = Part(T, st1, base + x)
    BY <1>x
  <1>z. PICK t \in Nat : t = base + x
    <2>1. base + x \in Nat
      BY ONLY <1>y, x \in Int, base \in Nat
    <2>2. QED
      BY <2>1
  <1>9. PICK d, f : d = SaveOverflow(c) /\ f = [c.fe EXCEPT !.overflow = over]
    OBVIOUS
  <1>10. d.used = x /\ d.fe = f /\ d.out = c.out
    BY <1>4, <1>y, <1>z, <1>9 DEF CallOK, CallFields
  <1>11. IsSeq(over)
    <2>1. st1 <= t /\ st1 \in Int /\ t \in Int
      BY ONLY <1>1, <1>y, <1>z, <1>9, st1 \in Nat, t \in Nat
    <2>2. IsSeq(Part(T, st1, t))
      BY ONLY <2>1, PartIs
    <2>3. QED
      BY <1>y, <1>z, <1>9, <2>2
  <1>12. Hears(f, v, WholeFrames(T), given \o c.out) /\ f.overflow = over /\ f.nframe = n
    BY <1>6, <1>9, <1>11, HearsKeeps
  <1>13. Between(f, v, T, t, given \o c.out)
    <2>1. st1 <= t /\ t <= st1 + sz /\ st + sz <= t /\ n - 1 = m
      BY ONLY <1>1, <1>y, <1>z, <1>9, st1 \in Nat, t \in Nat, st \in Nat, m \in Nat
    <2>2. QED
      BY <1>1, <1>y, <1>z, <1>9, <1>12, <2>1 DEF Between
  <1>14. x \in 0 .. len
    BY <1>y
  <1>15. QED
    BY <1>z, <1>9, <1>10, <1>13, <1>14 DEF CallEnds

(* All of the frames of a call are heard. *)
LEMMA FramedHears ==
  ASSUME NEW T, NEW given, IsSeq(given), NEW base \in Nat, NEW len \in Nat, NEW max \in Nat, base + len <= max,
         NEW v \in [1 .. max -> BOOLEAN], NEW c, NEW total \in Nat, CallOK(c, Part(T, base, base + len), total),
         c.room # 0, Held(c.fe) = <<>>, Between(c.fe, v, T, base, given \o c.out),
         NEW n \in Nat, c.fe.nframe = n, Start(n) + FrameSize <= base + len
  PROVE  CallEnds(Framed(c, v), v, T, base, len, given)
  <1>0. PICK spch : spch = Part(T, base, base + len)
    OBVIOUS
  <1>1. Len(spch) = len /\ Len(c.spch) = len
    <2>1. PICK to \in Int : to = base + len /\ base <= to /\ to - base = len
      OBVIOUS
    <2>2. base \in Int /\ base <= to
      BY <2>1
    <2>3. Len(Part(T, base, to)) = to - base
      BY ONLY <2>2, to \in Int, PartIs
    <2>4. c.spch = spch
      BY <1>0 DEF CallOK
    <2>5. QED
      BY <1>0, <2>1, <2>3, <2>4
  <1> DEFINE first == FirstFrame(c, v)
             d == FrameRounds(c, v)
             step(h) == [i \in 0 .. len |-> IF i = 0 THEN first ELSE FrameRound(h[i - 1], v)]
  <1>2. d = CHOOSE h : h = step(h)
    BY <1>1 DEF FrameRounds
  <1>3. \A h : h = step(h) <=> Runs(h, "frames", first, v, len)
    BY DEF Runs, Round
  <1> HIDE DEF step, first
  <1>4. PICK h : h = step(h)
    BY <1>3, LoopEnds
  <1>5. d = step(d)
    BY <1>2, <1>4
  <1> HIDE DEF d
  <1>6. Runs(d, "frames", first, v, len)
    BY <1>3, <1>5
  <1>7. d[0] = first /\ \A i \in 1 .. len : d[i] = Round("frames", d[i - 1], v, i)
    BY ONLY <1>6, len \in Nat, LoopGoes
  <1>8. \A i \in 1 .. len : d[i] = FrameRound(d[i - 1], v)
    BY <1>7 DEF Round
  <1>9. v[n + 1] \in BOOLEAN
    <2>1. Start(n) + FrameSize <= max
      <3>1. PICK e \in Int : e = Start(n) + FrameSize
        <4>1. Start(n) \in Nat /\ FrameSize \in Nat
          BY ONLY n \in Nat, StartIs
        <4>3. Start(n) + FrameSize \in Int
          BY ONLY <4>1
        <4>2. QED
          BY <4>3
      <3>2. e <= base + len
        BY <3>1
      <3>3. QED
        BY ONLY <3>1, <3>2, base + len <= max, base \in Nat, len \in Nat, max \in Nat, e \in Int
    <2>2. n + 1 \in 1 .. max
      BY <2>1, FrameNumber
    <2>3. QED
      BY <2>2
  <1>10. InFrames(first, n, v, T, base, given)
    BY <1>9, FirstFrameHears DEF first
  <1>11. CallOK(first, spch, total)
    BY <1>0, FirstFrameEffect DEF first
  <1> DEFINE W == {k \in 0 .. len : InLoop(d[k], v, T, base, len, given, total)}
  <1>12. 0 \in W
    BY <1>0, <1>7, <1>10, <1>11 DEF InLoop
  <1>13. ASSUME NEW k \in 1 .. len, k - 1 \in W
         PROVE  k \in W
    <2>1. PICK p, q : p = d[k - 1] /\ q = d[k] /\ q = FrameRound(p, v) /\ InLoop(p, v, T, base, len, given, total)
      BY <1>8, <1>13
    <2>2. InLoop(FrameRound(p, v), v, T, base, len, given, total)
      BY <2>1, FrameRoundHears
    <2>3. InLoop(d[k], v, T, base, len, given, total)
      BY ONLY <2>1, <2>2
    <2>4. k \in 0 .. len
      OBVIOUS
    <2>5. QED
      BY ONLY <2>3, <2>4
  <1>14. len \in W
    <2> HIDE DEF W
    <2>1. \A k \in 1 .. len : k - 1 \in W => k \in W
      BY <1>13
    <2>2. 0 .. len \subseteq W
      BY ONLY <1>12, <2>1, len \in Nat, UpTo
    <2>3. QED
      BY <2>2
  <1>15. PICK e : e = d[len] /\ InLoop(e, v, T, base, len, given, total)
    BY <1>14
  <1>16. PICK m \in Nat : InFrames(e, m, v, T, base, given)
    BY <1>15 DEF InLoop
  <1>17. CallOK(e, Part(T, base, base + len), total)
    BY <1>15 DEF InLoop
  <1>18. CallEnds(SaveOverflow(e), v, T, base, len, given)
    BY <1>16, <1>17, SaveOverflowHears
  <1>19. QED
    BY <1>1, <1>15, <1>18 DEF Framed, d

(* The samples of a call, whole. *)
Resumes(fe, v, T, base, len, given) ==
  Between(fe, v, T, base, given) /\ IsSeq(given) /\ base \in Nat /\ len \in Nat

(* fe_process_frames() without enough for a frame, ... *)
LEMMA ShortCallHears ==
  ASSUME NEW v, NEW T, NEW given, NEW base \in Nat, NEW len \in Nat, NEW fe, Resumes(fe, v, T, base, len, given),
         NEW spch, spch = Part(T, base, base + len),
         ~ (Start(fe.nframe) + FrameSize <= base + len)
  PROVE  Between([fe EXCEPT !.overflow = @ \o spch], v, T, base + len, given)
  <1>1. PICK n \in Nat, st \in Nat, sz \in Nat, to \in Nat :
          n = fe.nframe /\ st = Start(n) /\ sz = FrameSize /\ to = base + len
    <2>1. fe.nframe \in Nat
      BY DEF Resumes, Between, Hears
    <2>2. base + len \in Nat
      OBVIOUS
    <2>3. QED
      BY <2>1, <2>2, StartIs
  <1>2. /\ Hears(fe, v, WholeFrames(T), given) /\ st <= base /\ fe.overflow = Part(T, st, base)
        /\ n > 0 => Start(n - 1) + FrameSize <= base
    BY <1>1 DEF Resumes, Between
  <1>3. PICK over : over = fe.overflow \o spch
    OBVIOUS
  <1>4. st <= base /\ base <= to /\ st \in Int /\ base \in Int /\ to \in Int /\ st <= to
    BY <1>1, <1>2
  <1>5. over = Part(T, st, to)
    <2>1. Part(T, st, base) \o Part(T, base, to) = Part(T, st, to)
      BY ONLY <1>4, PartsJoin
    <2>2. QED
      BY <1>1, <1>2, <1>3, <2>1
  <1>6. IsSeq(over)
    <2>1. IsSeq(Part(T, st, to))
      BY ONLY <1>4, PartIs
    <2>2. QED
      BY <1>5, <2>1
  <1>7. PICK f : f = [fe EXCEPT !.overflow = over]
    OBVIOUS
  <1>8. Hears(f, v, WholeFrames(T), given) /\ f.overflow = over /\ f.nframe = n
    BY <1>1, <1>2, <1>6, <1>7, HearsKeeps
  <1>9. to <= st + sz
    <2>1. ~ (st + sz <= to)
      BY <1>1
    <2>2. QED
      BY ONLY <2>1, st \in Nat, sz \in Nat, to \in Nat
  <1>10. n > 0 => Start(n - 1) + FrameSize <= to
    <2>1. SUFFICES ASSUME n > 0 PROVE Start(n - 1) + FrameSize <= to
      OBVIOUS
    <2>2. PICK e \in Int : e = Start(n - 1) + FrameSize
      <3>1. n - 1 \in Nat
        BY <2>1
      <3>2. Start(n - 1) + FrameSize \in Int
        BY <3>1, StartIs
      <3>3. QED
        BY <3>2
    <2>3. e <= base
      BY <1>2, <2>1, <2>2
    <2>4. QED
      BY <1>4, <2>2, <2>3
  <1>11. Between(f, v, T, to, given)
    BY <1>1, <1>4, <1>5, <1>8, <1>9, <1>10 DEF Between
  <1>12. [fe EXCEPT !.overflow = @ \o spch] = f
    BY <1>3, <1>7
  <1>13. QED
    BY <1>1, <1>11, <1>12

(* The call of fe_process_frames() on samples base + 1 to base + len of a  *)
(* signal that is heard up to base.                                        *)
Calls(fe, v, T, base, len, given, spch, max) ==
  /\ Between(fe, v, T, base, given) /\ IsSeq(given) /\ spch = Part(T, base, base + len)
  /\ base + len <= max /\ v \in [1 .. max -> BOOLEAN]

(* ... with no room for a cepstrum, or for more than was held back, ...    *)
LEMMA DumpedHears ==
  ASSUME NEW v, NEW T, NEW given, NEW base \in Nat, NEW len \in Nat, NEW max \in Nat, NEW fe, NEW spch,
         Calls(fe, v, T, base, len, given, spch, max), NEW room \in Nat,
         NEW call, call = [fe |-> fe, spch |-> spch, used |-> 0, needed |-> 0, room |-> room, out |-> <<>>],
         NEW d, d = IF fe.global THEN DumpPrespch(call) ELSE call
  PROVE  /\ CallOK(d, spch, room) /\ Between(d.fe, v, T, base, given \o d.out) /\ d.used = 0
         /\ (d.room # 0 => Held(d.fe) = <<>>) /\ d.fe.nframe = fe.nframe
  <1>1. /\ Hears(fe, v, WholeFrames(T), given) /\ IsSeq(given) /\ spch = Part(T, base, base + len)
    BY DEF Calls, Between
  <1>2. FeOK(fe) /\ fe.global \in BOOLEAN
    BY <1>1 DEF Hears, VadOK
  <1>3. /\ call.fe = fe /\ call.used = 0 /\ call.out = <<>> /\ call.spch = spch
        /\ CallOK(call, spch, room)
    <2>1. /\ call = [f \in CallFields |-> call[f]] /\ call.spch = spch /\ call.used = 0 /\ call.needed = 0
          /\ call.room = room /\ call.out = <<>> /\ call.fe = fe
      BY DEF CallFields
    <2>2. CallOK(call, spch, room)
      BY <1>2, <2>1, EmptyIs DEF CallOK
    <2>3. QED
      BY <2>1, <2>2
  <1>4. given \o call.out = given
    <2>1. PICK none : none = <<>>
      OBVIOUS
    <2>2. given \o <<>> = given
      BY <1>1, ConcatNothing
    <2>3. QED
      BY <1>3, <2>2
  <1>5. /\ CallOK(d, spch, room) /\ Hears(d.fe, v, WholeFrames(T), given \o d.out)
        /\ (d.room # 0 => Held(d.fe) = <<>>) /\ Same(d, call)
    <2>1. CASE fe.global = TRUE
      <3>1. d = DumpPrespch(call)
        BY <2>1
      <3>2. call.fe.global = TRUE
        BY <1>3, <2>1
      <3>3. PICK S : S = WholeFrames(T) /\ Hears(call.fe, v, S, given \o call.out)
        BY <1>1, <1>3, <1>4
      <3>4. /\ Hears(DumpPrespch(call).fe, v, S, given \o DumpPrespch(call).out)
            /\ (DumpPrespch(call).room # 0 => Held(DumpPrespch(call).fe) = <<>>) /\ Same(DumpPrespch(call), call)
        BY <1>1, <1>3, <3>2, <3>3, DumpHears
      <3>5. CallOK(DumpPrespch(call), spch, room)
        BY <1>3, DumpEffect
      <3>6. QED
        BY <3>1, <3>3, <3>4, <3>5
    <2>2. CASE fe.global = FALSE
      <3>1. d = call
        BY <2>2
      <3>2. Held(fe) = <<>>
        BY <2>2 DEF Held
      <3>3. QED
        BY <1>1, <1>3, <1>4, <3>1, <3>2 DEF Same
    <2>3. QED
      BY <1>2, <2>1, <2>2
  <1>6. d.used = 0 /\ d.fe.overflow = fe.overflow /\ d.fe.nframe = fe.nframe
    BY <1>3, <1>5 DEF Same
  <1>7. Between(d.fe, v, T, base, given \o d.out)
    BY <1>5, <1>6 DEF Between, Calls
  <1>8. QED
    BY <1>5, <1>6, <1>7

(* ... and in any case.                                                    *)
LEMMA ProcessFramesHears ==
  ASSUME NEW v, NEW T, NEW given, NEW base \in Nat, NEW len \in Nat, NEW max \in Nat, NEW fe, NEW spch,
         Calls(fe, v, T, base, len, given, spch, max), NEW room \in Nat
  PROVE  CallEnds(ProcessFrames(fe, spch, room, v), v, T, base, len, given)
  <1> DEFINE call == [fe |-> fe, spch |-> spch, used |-> 0, needed |-> 0, room |-> room, out |-> <<>>]
             dumped == IF fe.global THEN DumpPrespch(call) ELSE call
             short == [call EXCEPT !.fe = [fe EXCEPT !.overflow = @ \o spch], !.used = Len(spch)]
             c == ProcessFrames(fe, spch, room, v)
  <1>1. c = IF Len(spch) + Len(fe.overflow) < FrameSize THEN short
            ELSE IF room = 0 \/ dumped.room = 0 THEN dumped ELSE Framed(dumped, v)
    BY DEF ProcessFrames
  <1>2. /\ short.fe = [fe EXCEPT !.overflow = @ \o spch] /\ short.used = Len(spch) /\ short.out = <<>>
    OBVIOUS
  <1>3. /\ CallOK(dumped, spch, room) /\ Between(dumped.fe, v, T, base, given \o dumped.out) /\ dumped.used = 0
        /\ (dumped.room # 0 => Held(dumped.fe) = <<>>) /\ dumped.fe.nframe = fe.nframe
    BY DumpedHears
  <1> HIDE DEF call, short, dumped, c
  <1>4. /\ Between(fe, v, T, base, given) /\ IsSeq(given) /\ spch = Part(T, base, base + len)
        /\ base + len <= max /\ v \in [1 .. max -> BOOLEAN]
    BY DEF Calls
  <1>5. PICK n \in Nat, st \in Nat, sz \in Nat, to \in Nat :
          n = fe.nframe /\ st = Start(n) /\ sz = FrameSize /\ to = base + len
    <2>1. fe.nframe \in Nat
      BY <1>4 DEF Between, Hears
    <2>2. base + len \in Nat
      OBVIOUS
    <2>3. QED
      BY <2>1, <2>2, StartIs
  <1>6. Len(spch) = len /\ Len(fe.overflow) = base - st
    <2>1. st <= base /\ fe.overflow = Part(T, st, base)
      BY <1>4, <1>5 DEF Between
    <2>2. base <= to /\ to - base = len /\ st \in Int /\ base \in Int /\ to \in Int
      BY <1>5
    <2>3. Len(Part(T, base, to)) = to - base
      BY ONLY <2>2, PartIs
    <2>4. Len(Part(T, st, base)) = base - st
      BY ONLY <2>1, <2>2, PartIs
    <2>5. QED
      BY <1>4, <1>5, <2>1, <2>2, <2>3, <2>4
  <1>7. Len(spch) + Len(fe.overflow) < FrameSize <=> ~ (st + sz <= to)
    <2>1. len + (base - st) < sz <=> ~ (st + sz <= to)
      BY <1>5
    <2>2. QED
      BY <1>5, <1>6, <2>1
  <1>8. CASE ~ (st + sz <= to)
    <2>1. c = short
      BY <1>1, <1>7, <1>8
    <2>2. Resumes(fe, v, T, base, len, given)
      BY <1>4 DEF Resumes
    <2>3. ~ (Start(fe.nframe) + FrameSize <= base + len)
      BY <1>5, <1>8
    <2>4. Between([fe EXCEPT !.overflow = @ \o spch], v, T, base + len, given)
      BY <1>4, <2>2, <2>3, ShortCallHears
    <2>5. given \o short.out = given
      BY <1>2, <1>4, ConcatNothing
    <2>6. short.used = len /\ len \in 0 .. len
      BY <1>2, <1>6
    <2>7. CallEnds(short, v, T, base, len, given)
      BY <1>2, <2>4, <2>5, <2>6 DEF CallEnds
    <2>8. QED
      BY <2>1, <2>7 DEF c
  <1>9. CASE st + sz <= to /\ (room = 0 \/ dumped.room = 0)
    <2>1. c = dumped
      BY <1>1, <1>7, <1>9
    <2>2. 0 \in 0 .. len /\ base + 0 = base
      OBVIOUS
    <2>3. CallEnds(dumped, v, T, base, len, given)
      BY <1>3, <2>2 DEF CallEnds
    <2>4. QED
      BY <2>1, <2>3 DEF c
  <1>10. CASE st + sz <= to /\ ~ (room = 0 \/ dumped.room = 0)
    <2>1. c = Framed(dumped, v)
      BY <1>1, <1>7, <1>10
    <2>2. dumped.room # 0 /\ Held(dumped.fe) = <<>> /\ dumped.fe.nframe = n
      BY <1>3, <1>5, <1>10
    <2>3. Start(n) + FrameSize <= base + len
      BY <1>5, <1>10
    <2>4. CallOK(dumped, Part(T, base, base + len), room) /\ Between(dumped.fe, v, T, base, given \o dumped.out)
      BY <1>3, <1>4
    <2>5. CallEnds(Framed(dumped, v), v, T, base, len, given)
      BY <1>4, <2>2, <2>3, <2>4, FramedHears
    <2>6. QED
      BY <2>1, <2>5 DEF c
  <1>11. QED
    BY <1>8, <1>9, <1>10 DEF c

(* The loop of acmod_process_raw(): what it has given to the front end is  *)
(* heard, and the rest of the samples up to b is left.                     *)
Hearing(r, v, T, b, given) ==
  /\ IsSeq(given \o r.ceps)
  /\ \E t \in 0 .. b : Between(r.am.fe, v, T, t, given \o r.ceps) /\ r.spch = Part(T, t, b)

(* A part of the buffer. *)
LEMMA FillPartHears ==
  ASSUME NEW a, NEW r, Filling(a, r), NEW room \in Nat, r.am.nMfc + room <= MfcAlloc,
         NEW T, NEW given, IsSeq(given), NEW max \in Nat, NEW b \in 0 .. max, NEW v \in [1 .. max -> BOOLEAN],
         Hearing(r, v, T, b, given)
  PROVE  Hearing(FillPart(r, room, v), v, T, b, given)
  <1>1. PICK t \in 0 .. b : Between(r.am.fe, v, T, t, given \o r.ceps) /\ r.spch = Part(T, t, b)
    BY DEF Hearing
  <1>2. PICK len \in Nat : len = b - t /\ t + len = b /\ t + len <= max /\ t \in Nat
    OBVIOUS
  <1>3. PICK fe, spch, g : fe = r.am.fe /\ spch = r.spch /\ g = given \o r.ceps
    OBVIOUS
  <1>4. Calls(fe, v, T, t, len, g, spch, max)
    <2>1. IsSeq(g)
      BY <1>3 DEF Hearing
    <2>2. Between(fe, v, T, t, g) /\ spch = Part(T, t, t + len)
      BY <1>1, <1>2, <1>3
    <2>3. QED
      BY <1>2, <2>1, <2>2 DEF Calls
  <1>5. PICK c : c = ProcessFrames(fe, spch, room, v)
    OBVIOUS
  <1>6. CallEnds(c, v, T, t, len, g)
    BY <1>2, <1>4, <1>5, ProcessFramesHears
  <1>7. PICK used \in 0 .. len : used = c.used /\ Between(c.fe, v, T, t + used, g \o c.out)
    BY <1>6 DEF CallEnds
  <1>8. IsSeq(c.out) /\ IsSeq(r.ceps) /\ IsSeq(spch)
    <2>1. IsSeq(spch) /\ IsSeq(r.ceps) /\ FeOK(fe)
      BY <1>3 DEF Filling, MfcOK
    <2>2. IsSeq(c.out)
      BY <1>5, <2>1, ProcessFramesEffect
    <2>3. QED
      BY <2>1, <2>2
  <1>9. PICK q, p, o : q = FillPart(r, room, v) /\ p = r.ceps /\ o = c.out
    OBVIOUS
  <1>10. q.am.fe = c.fe /\ q.ceps = p \o o /\ q.spch = LastOf(spch, Len(spch) - used)
    <2>1. /\ q.am = PutMfc([r.am EXCEPT !.fe = c.fe], o) /\ q.ceps = p \o o
          /\ q.spch = LastOf(spch, Len(spch) - used)
      BY <1>3, <1>5, <1>7, <1>9 DEF FillPart
    <2>2. IsAm(r.am)
      BY DEF Filling
    <2>3. PICK m : m = [r.am EXCEPT !.fe = c.fe]
      OBVIOUS
    <2>4. m.fe = c.fe /\ m = [f \in AmFields |-> m[f]]
      BY <2>2, <2>3 DEF IsAm, AmFields
    <2>5. PutMfc(m, o).fe = m.fe
      BY <2>4 DEF PutMfc, AmFields
    <2>6. QED
      BY <2>1, <2>3, <2>4, <2>5
  <1>11. PICK u \in 0 .. b : u = t + used
    BY <1>2
  <1>12. q.spch = Part(T, u, b)
    <2>1. PICK n \in Int : n = b - u /\ n = len - used
      BY <1>2, <1>11
    <2>2. t <= u /\ u <= b /\ t \in Int /\ u \in Int /\ b \in Int /\ t <= b
      BY <1>2, <1>11
    <2>3. LastOf(Part(T, t, b), n) = Part(T, u, b)
      BY ONLY <2>1, <2>2, n \in Int, LastOfPart
    <2>4. Len(spch) = len
      <3>1. Len(Part(T, t, b)) = b - t
        BY ONLY <2>2, PartIs
      <3>2. QED
        BY <1>1, <1>2, <1>3, <3>1
    <2>5. QED
      BY <1>1, <1>3, <1>10, <2>1, <2>3, <2>4
  <1>13. given \o (p \o o) = g \o o /\ IsSeq(g \o o)
    <2>1. IsSeq(p) /\ IsSeq(o) /\ IsSeq(g) /\ g = given \o p
      BY <1>3, <1>8, <1>9 DEF Hearing
    <2>2. (given \o p) \o o = given \o (p \o o)
      BY ONLY <2>1, IsSeq(given), ConcatThree
    <2>3. IsSeq(g \o o)
      BY ONLY <2>1, ConcatIs
    <2>4. QED
      BY <2>1, <2>2, <2>3
  <1>14. Between(q.am.fe, v, T, u, given \o q.ceps) /\ IsSeq(given \o q.ceps)
    BY <1>7, <1>9, <1>10, <1>11, <1>13
  <1>15. Hearing(q, v, T, b, given)
    BY <1>12, <1>14 DEF Hearing
  <1>16. QED
    BY <1>9, <1>15

(* The room there is in a round. *)
LEMMA FillRoom ==
  ASSUME NEW a, NEW r, Filling(a, r)
  PROVE  /\ Wraps(r) => /\ MfcAlloc - InMfcPtr(r.am) \in Nat
                        /\ r.am.nMfc + (MfcAlloc - InMfcPtr(r.am)) <= MfcAlloc
         /\ MfcAlloc - r.am.nMfc \in Nat /\ r.am.nMfc + (MfcAlloc - r.am.nMfc) <= MfcAlloc
  <1>1. PICK m \in Nat \ {0} : m = MfcAlloc
    BY MfcSize
  <1>2. PICK in \in 0 .. m - 1 : in = InMfcPtr(r.am)
    <2>1. PICK x \in Int : x = r.am.mfcOut + r.am.nMfc
      BY <1>1 DEF Filling, MfcOK
    <2>2. Rem(x, m) \in 0 .. m - 1
      BY RemRange
    <2>3. InMfcPtr(r.am) = Rem(x, m)
      BY <2>1, <1>1 DEF InMfcPtr, Rem
    <2>4. QED
      BY <2>2, <2>3
  <1>3. PICK held \in 0 .. m : held = r.am.nMfc
    BY <1>1 DEF Filling, MfcOK
  <1>4. Wraps(r) => in > held
    BY <1>2, <1>3 DEF Wraps
  <1>5. m - in \in Nat /\ (in > held => held + (m - in) <= m) /\ m - held \in Nat /\ held + (m - held) <= m
    OBVIOUS
  <1>6. QED
    BY <1>1, <1>2, <1>3, <1>4, <1>5

(* All of the parts. *)
HearsFilling(a, r, v, T, b, given) == Filling(a, r) /\ Hearing(r, v, T, b, given)

(* They fill the buffer, and are heard.                                    *)
LEMMA FillMfcHears ==
  ASSUME NEW a, IsAm(a), MfcOK(a), a.nMfc = 0, NEW T, NEW given, IsSeq(given),
         NEW max \in Nat, NEW b \in 0 .. max, NEW v \in [1 .. max -> BOOLEAN], NEW base \in 0 .. b,
         NEW spch, spch = Part(T, base, b), Between(a.fe, v, T, base, given)
  PROVE  HearsFilling(a, FillMfcBuf(a, spch, v), v, T, b, given)
  <1> DEFINE first == [am |-> a, spch |-> spch, ceps |-> <<>>, done |-> FALSE]
             n == MfcAlloc + 1
             d == FillRounds(a, spch, v)
             step(h) == [i \in 0 .. n |-> IF i = 0 THEN first ELSE FillRound(h[i - 1], v)]
  <1>0. n \in Nat
    BY MfcSize
  <1>1. Filling(a, first)
    <2>1. Keeps(a, a, {"fe", "mfcBuf", "nMfc"})
      BY DEF Keeps
    <2>2. MfcHolds(a, <<>>)
      <3>1. \A i \in 1 .. 0 : FALSE
        OBVIOUS
      <3>2. QED
        BY <3>1, EmptyIs DEF MfcHolds
    <2>3. IsSeq(spch)
      <3>1. base <= b /\ base \in Int /\ b \in Int
        OBVIOUS
      <3>2. IsSeq(Part(T, base, b))
        BY ONLY <3>1, PartIs
      <3>3. QED
        BY <3>2
    <2>4. QED
      BY <2>1, <2>2, <2>3, EmptyIs DEF Filling
  <1>2. Hearing(first, v, T, b, given)
    <2>1. given \o first.ceps = given
      BY ConcatNothing
    <2>2. QED
      BY <2>1 DEF Hearing
  <1>3. d = CHOOSE h : h = step(h)
    BY DEF FillRounds
  <1> HIDE DEF n, first, d
  <1>4. \A h : h = step(h) <=> Runs(h, "fill", first, v, n)
    BY DEF Runs, Round
  <1> HIDE DEF step
  <1>5. PICK h : h = step(h)
    BY ONLY <1>0, <1>4, LoopEnds
  <1>6. d = step(d)
    BY <1>3, <1>5
  <1>7. Runs(d, "fill", first, v, n)
    BY <1>4, <1>6
  <1>8. d[0] = first /\ \A i \in 1 .. n : d[i] = Round("fill", d[i - 1], v, i)
    <2>1. \A arg, m, f, e : m \in Nat /\ Runs(e, "fill", f, arg, m) =>
                             e[0] = f /\ \A i \in 1 .. m : e[i] = Round("fill", e[i - 1], arg, i)
      BY LoopGoes
    <2>2. QED
      BY ONLY <1>0, <1>7, <2>1
  <1>9. \A i \in 1 .. n : d[i] = FillRound(d[i - 1], v)
    BY <1>8 DEF Round
  <1> DEFINE W == {k \in 0 .. n : HearsFilling(a, d[k], v, T, b, given)}
  <1>10. 0 \in W
    BY <1>0, <1>1, <1>2, <1>8 DEF HearsFilling
  <1>11. ASSUME NEW r, HearsFilling(a, r, v, T, b, given), NEW room \in Nat, r.am.nMfc + room <= MfcAlloc
         PROVE  HearsFilling(a, FillPart(r, room, v), v, T, b, given)
    <2>1. Filling(a, r) /\ Hearing(r, v, T, b, given)
      BY <1>11 DEF HearsFilling
    <2>2. Filling(a, FillPart(r, room, v))
      BY <1>11, <2>1, FillPartEffect
    <2>3. Hearing(FillPart(r, room, v), v, T, b, given)
      BY <1>11, <2>1, FillPartHears
    <2>4. QED
      BY <2>2, <2>3 DEF HearsFilling
  <1>12. ASSUME NEW r, HearsFilling(a, r, v, T, b, given)
         PROVE  HearsFilling(a, FillRound(r, v), v, T, b, given)
    <2>1. CASE ~Wraps(r)
      BY <1>12, <2>1 DEF FillRound
    <2>2. CASE Wraps(r)
      <3>1. PICK room : room = MfcAlloc - InMfcPtr(r.am)
        OBVIOUS
      <3>2. room \in Nat /\ r.am.nMfc + room <= MfcAlloc
        BY <1>12, <2>2, <3>1, FillRoom DEF HearsFilling
      <3>3. HearsFilling(a, FillPart(r, room, v), v, T, b, given)
        BY <1>11, <1>12, <3>2
      <3>4. QED
        BY <2>2, <3>1, <3>3 DEF FillRound
    <2>3. QED
      BY <2>1, <2>2
  <1>13. ASSUME NEW k \in 1 .. n, k - 1 \in W
         PROVE  k \in W
    <2>1. PICK p, q : p = d[k - 1] /\ q = d[k]
      OBVIOUS
    <2>2. HearsFilling(a, p, v, T, b, given) /\ q = FillRound(p, v)
      BY <1>9, <1>13, <2>1
    <2>3. HearsFilling(a, q, v, T, b, given)
      BY <1>12, <2>2
    <2>4. HearsFilling(a, d[k], v, T, b, given) /\ k \in 0 .. n
      BY <1>0, <2>1, <2>3
    <2>5. QED
      BY <2>4
  <1>14. n \in W
    <2> HIDE DEF W
    <2>1. \A k \in 1 .. n : k - 1 \in W => k \in W
      BY <1>13
    <2>2. 0 .. n \subseteq W
      BY ONLY <1>0, <1>10, <2>1, UpTo
    <2>3. QED
      BY <1>0, <2>2
  <1>15. PICK r : r = d[n] /\ HearsFilling(a, r, v, T, b, given)
    BY <1>14
  <1>16. FillMfcBuf(a, spch, v) = IF r.done THEN r ELSE FillPart(r, MfcAlloc - r.am.nMfc, v)
    BY <1>15 DEF FillMfcBuf, d, n
  <1>17. HearsFilling(a, FillPart(r, MfcAlloc - r.am.nMfc, v), v, T, b, given)
    <2>1. PICK room : room = MfcAlloc - r.am.nMfc
      OBVIOUS
    <2>2. room \in Nat /\ r.am.nMfc + room <= MfcAlloc
      BY <1>15, <2>1, FillRoom DEF HearsFilling
    <2>3. QED
      BY <1>11, <1>15, <2>1, <2>2
  <1>18. QED
    BY <1>15, <1>16, <1>17

(* acmod_process_raw(): what it gives, after what was given before, is     *)
(* heard.                                                                  *)
LEMMA ProcessRawHears ==
  ASSUME NEW a, IsAm(a), MfcOK(a), a.nMfc = 0, NEW T, NEW given, IsSeq(given),
         NEW max \in Nat, NEW b \in 0 .. max, NEW v \in [1 .. max -> BOOLEAN], NEW base \in 0 .. b,
         NEW spch, spch = Part(T, base, b), Between(a.fe, v, T, base, given),
         NEW r, Hands(FillMfcBuf(a, spch, v), r)
  PROVE  Hearing(r, v, T, b, given)
  <1>1. PICK q : q = FillMfcBuf(a, spch, v)
    OBVIOUS
  <1>2. HearsFilling(a, FillMfcBuf(a, spch, v), v, T, b, given)
    BY FillMfcHears
  <1>3. Hearing(q, v, T, b, given)
    BY <1>1, <1>2 DEF HearsFilling
  <1>4. r.am.fe = q.am.fe /\ r.ceps = q.ceps /\ r.spch = q.spch
    BY <1>1 DEF Hands
  <1>5. QED
    BY <1>3, <1>4 DEF Hearing

-----------------------------------------------------------------------------
(* The end of the utterance. *)

(* The first and the last of two sequences that are put together. *)
LEMMA FirstAndLast ==
  ASSUME NEW s, IsSeq(s), NEW t, IsSeq(t)
  PROVE  FirstOf(s \o t, Len(s)) = s /\ LastOf(s \o t, Len(t)) = t
  <1>1. PICK m \in Nat, n \in Nat, len \in Nat : m = Len(s) /\ n = Len(t) /\ len = m + n
    BY DEF IsSeq
  <1>2. PICK w : w = s \o t
    OBVIOUS
  <1>3. IsSeq(w) /\ Len(w) = len /\ (\A i \in 1 .. m : w[i] = s[i]) /\ \A i \in 1 .. n : w[m + i] = t[i]
    <2>1. IsSeq(s \o t) /\ Len(s \o t) = Len(s) + Len(t)
      BY ConcatIs
    <2>2. (\A i \in 1 .. Len(s) : (s \o t)[i] = s[i]) /\ \A i \in 1 .. Len(t) : (s \o t)[Len(s) + i] = t[i]
      BY ConcatAt
    <2>3. QED
      BY <1>1, <1>2, <2>1, <2>2
  <1>4. PICK zero \in Int : zero = 0
    OBVIOUS
  <1>5. Part(w, zero, m) = s
    <2>1. PICK p : p = Part(w, zero, m)
      OBVIOUS
    <2>2. zero <= m /\ m \in Int
      BY <1>4
    <2>3. /\ IsSeq(Part(w, zero, m)) /\ Len(Part(w, zero, m)) = m - zero
          /\ \A i \in 1 .. m - zero : Part(w, zero, m)[i] = w[zero + i]
      BY ONLY <2>2, zero \in Int, PartIs
    <2>4. m - zero = m /\ \A i \in 1 .. m : zero + i = i
      BY <1>4
    <2>5. IsSeq(p) /\ Len(p) = m /\ \A i \in 1 .. m : p[i] = s[i]
      BY <1>3, <2>1, <2>3, <2>4
    <2>6. Len(p) = Len(s) /\ \A i \in 1 .. Len(p) : p[i] = s[i]
      BY <1>1, <2>5
    <2>7. QED
      BY <2>1, <2>5, <2>6, SameSeq
  <1>6. Part(w, m, len) = t
    <2>1. PICK p : p = Part(w, m, len)
      OBVIOUS
    <2>2. m <= len /\ m \in Int /\ len \in Int
      BY <1>1
    <2>3. /\ IsSeq(Part(w, m, len)) /\ Len(Part(w, m, len)) = len - m
          /\ \A i \in 1 .. len - m : Part(w, m, len)[i] = w[m + i]
      BY ONLY <2>2, PartIs
    <2>4. len - m = n
      BY <1>1
    <2>5. IsSeq(p) /\ Len(p) = n /\ \A i \in 1 .. n : p[i] = t[i]
      BY <1>3, <2>1, <2>3, <2>4
    <2>6. Len(p) = Len(t) /\ \A i \in 1 .. Len(p) : p[i] = t[i]
      BY <1>1, <2>5
    <2>7. QED
      BY <2>1, <2>5, <2>6, SameSeq
  <1>7. FirstOf(w, m) = s
    BY <1>4, <1>5, FirstIs
  <1>8. LastOf(w, n) = t
    <2>1. LastOf(w, n) = Part(w, len - n, len)
      BY <1>3, LastIs
    <2>2. len - n = m
      BY <1>1
    <2>3. QED
      BY <1>6, <2>1, <2>2
  <1>9. QED
    BY <1>1, <1>2, <1>7, <1>8

(* What was given, of speech: all of it but some frames that were held     *)
(* back, and perhaps the last one.                                         *)
Loses(speech, given, lost, last) ==
  /\ lost + last <= Len(speech)
  /\ given = FirstOf(speech, Len(speech) - lost - last) \o LastOf(speech, last)

(* Frames h that were held back when x came are lost.                      *)
LEMMA HeldIsLost ==
  ASSUME NEW g, IsSeq(g), NEW h, IsSeq(h), NEW x, IsSeq(x)
  PROVE  Loses((g \o h) \o x, g \o x, Len(h), Len(x)) /\ Len(h) \in Nat /\ Len(x) \in Nat
  <1>1. PICK m \in Nat, n \in Nat, k \in Nat : m = Len(g) /\ n = Len(h) /\ k = Len(x)
    BY DEF IsSeq
  <1>2. PICK w, y, z : w = (g \o h) \o x /\ y = g \o h /\ z = h \o x
    OBVIOUS
  <1>3. IsSeq(y) /\ Len(y) = m + n /\ IsSeq(z)
    BY <1>1, <1>2, ConcatIs
  <1>4. w = y \o x /\ Len(w) = (m + n) + k /\ w = g \o z
    <2>1. (g \o h) \o x = g \o (h \o x)
      BY ConcatThree
    <2>2. Len(y \o x) = Len(y) + Len(x)
      BY <1>3, ConcatIs
    <2>3. QED
      BY <1>1, <1>2, <1>3, <2>1, <2>2
  <1>5. FirstOf(w, m) = g
    BY <1>1, <1>3, <1>4, FirstAndLast
  <1>6. LastOf(w, k) = x
    <2>1. IsSeq(y) /\ IsSeq(x)
      BY <1>3
    <2>2. LastOf(y \o x, Len(x)) = x
      BY ONLY <2>1, FirstAndLast
    <2>3. QED
      BY <1>1, <1>4, <2>2
  <1>7. ((m + n) + k) - n - k = m /\ n + k <= (m + n) + k
    OBVIOUS
  <1>8. Len(w) - n - k = m /\ n + k <= Len(w)
    BY <1>4, <1>7
  <1>9. QED
    BY <1>1, <1>2, <1>5, <1>6, <1>8 DEF Loses

-----------------------------------------------------------------------------
(* The frames of a signal X, that is the start of T and t samples long. *)
Begins(X, T, t) == t \in Nat /\ IsSeq(X) /\ Len(X) = t /\ \A i \in 1 .. t : X[i] = T[i]
SignalFrames(X) == [k \in Nat |-> FrameOf(X, k)]

(* A part of the one is a part of the other. *)
LEMMA PartBegins ==
  ASSUME NEW X, NEW T, NEW t, Begins(X, T, t), NEW p \in Nat, NEW q \in Nat, p <= q, q <= t
  PROVE  Part(X, p, q) = Part(T, p, q)
  <1>1. p \in Int /\ q \in Int /\ t \in Nat
    BY DEF Begins
  <1>2. PICK x, y : x = Part(X, p, q) /\ y = Part(T, p, q)
    OBVIOUS
  <1>3. IsSeq(x) /\ Len(x) = q - p /\ \A i \in 1 .. q - p : x[i] = X[p + i]
    BY <1>1, <1>2, PartIs
  <1>4. IsSeq(y) /\ Len(y) = q - p /\ \A i \in 1 .. q - p : y[i] = T[p + i]
    BY <1>1, <1>2, PartIs
  <1>5. ASSUME NEW i \in 1 .. q - p
        PROVE  x[i] = y[i]
    <2>1. p + i \in 1 .. t
      BY <1>1
    <2>2. X[p + i] = T[p + i]
      BY <2>1 DEF Begins
    <2>3. QED
      BY <1>3, <1>4, <2>2
  <1>6. x = y
    BY ONLY <1>3, <1>4, <1>5, SameSeq
  <1>7. QED
    BY <1>2, <1>6

(* A frame that is whole, and one that ends with the signal. *)
LEMMA FrameOfIs ==
  ASSUME NEW X, NEW T, NEW t, Begins(X, T, t), NEW n \in Nat, Start(n) <= t
  PROVE  /\ Start(n) + FrameSize <= t => SignalFrames(X)[n + 1] = Part(T, Start(n), Start(n) + FrameSize)
         /\ t <= Start(n) + FrameSize => SignalFrames(X)[n + 1] = Part(T, Start(n), t)
  <1>1. t \in Nat /\ Len(X) = t /\ Start(n) \in Nat /\ FrameSize \in Nat /\ n + 1 \in Nat /\ (n + 1) - 1 = n
    BY StartIs DEF Begins
  <1>2. SignalFrames(X)[n + 1] = FrameOf(X, n + 1)
    BY <1>1 DEF SignalFrames
  <1>3. FrameOf(X, n + 1) = Part(X, Start(n), NoMoreThan(Start(n) + FrameSize, t))
    <2>1. FrameOf(X, n + 1) = SubSeq(X, ((n + 1) - 1) * FrameShift + 1,
                                     NoMoreThan(((n + 1) - 1) * FrameShift + FrameSize, Len(X)))
      BY DEF FrameOf
    <2>2. ((n + 1) - 1) * FrameShift = Start(n)
      BY <1>1 DEF Start
    <2>3. QED
      BY <1>1, <2>1, <2>2 DEF Part
  <1>4. ASSUME Start(n) + FrameSize <= t
        PROVE  SignalFrames(X)[n + 1] = Part(T, Start(n), Start(n) + FrameSize)
    <2>1. NoMoreThan(Start(n) + FrameSize, t) = Start(n) + FrameSize
      BY <1>1, <1>4 DEF NoMoreThan
    <2>2. PICK q \in Nat : q = Start(n) + FrameSize
      BY <1>1
    <2>3. Start(n) <= q /\ q <= t
      BY <1>1, <1>4, <2>2
    <2>4. Part(X, Start(n), q) = Part(T, Start(n), q)
      BY <1>1, <2>3, PartBegins
    <2>5. QED
      BY <1>2, <1>3, <2>1, <2>2, <2>4
  <1>5. ASSUME t <= Start(n) + FrameSize
        PROVE  SignalFrames(X)[n + 1] = Part(T, Start(n), t)
    <2>1. NoMoreThan(Start(n) + FrameSize, t) = t
      BY <1>1, <1>5 DEF NoMoreThan
    <2>2. Part(X, Start(n), t) = Part(T, Start(n), t)
      BY <1>1, PartBegins
    <2>3. QED
      BY <1>2, <1>3, <2>1, <2>2
  <1>6. QED
    BY <1>4, <1>5

(* The later a frame the later it starts. *)
LEMMA StartsLater ==
  ASSUME NEW m \in Nat, NEW n \in Nat, m <= n
  PROVE  Start(m) <= Start(n)
  <1>1. PICK s \in Nat : s = FrameShift
    BY FrameAssumption
  <1>2. PICK d \in Nat : n = m + d
    <2>1. n - m \in Nat /\ n = m + (n - m)
      OBVIOUS
    <2>2. QED
      BY <2>1
  <1>3. n * s = m * s + d * s /\ d * s \in Nat /\ m * s \in Nat
    BY <1>1, <1>2
  <1>4. QED
    BY <1>1, <1>3 DEF Start

(* The frames that were analysed are those of the signal. *)
LEMMA SameFrames ==
  ASSUME NEW X, NEW T, NEW t, Begins(X, T, t), NEW n \in Nat, n > 0 => Start(n - 1) + FrameSize <= t
  PROVE  \A k \in 1 .. n : WholeFrames(T)[k] = SignalFrames(X)[k]
  <1> SUFFICES ASSUME NEW k \in 1 .. n PROVE WholeFrames(T)[k] = SignalFrames(X)[k]
    OBVIOUS
  <1>1. PICK m \in Nat, l \in Nat : m = k - 1 /\ l = n - 1
    <2>1. k - 1 \in Nat /\ n - 1 \in Nat
      OBVIOUS
    <2>2. QED
      BY <2>1
  <1>2. m <= l /\ m + 1 = k /\ n > 0
    BY <1>1
  <1>3. Start(m) <= Start(l) /\ Start(m) \in Nat /\ Start(l) \in Nat /\ FrameSize \in Nat /\ t \in Nat
    BY <1>2, StartsLater, StartIs DEF Begins
  <1>4. Start(l) + FrameSize <= t
    BY <1>1, <1>2
  <1>5. Start(m) <= t /\ Start(m) + FrameSize <= t
    BY ONLY <1>3, <1>4
  <1>6. SignalFrames(X)[m + 1] = Part(T, Start(m), Start(m) + FrameSize)
    BY <1>5, FrameOfIs
  <1>7. WholeFrames(T)[m + 1] = Part(T, Start(m), Start(m) + FrameSize)
    BY WholeFrame
  <1>8. QED
    BY <1>2, <1>6, <1>7

(* What is heard depends on no frame that was not analysed. *)
LEMMA HeardSame ==
  ASSUME NEW S, NEW U, NEW v, NEW n \in Nat, \A k \in 1 .. n : S[k] = U[k]
  PROVE  Heard(S, v, n) = Heard(U, v, n)
  <1>1. PICK s : s = Speech(v, n)
    OBVIOUS
  <1>2. s \in Seq(1 .. n) /\ IsSeq(s)
    BY <1>1, SpeechIs
  <1>3. PICK len \in Nat : len = Len(s)
    BY <1>2 DEF IsSeq
  <1>4. \A i \in 1 .. len : s[i] \in 1 .. n
    BY <1>2, <1>3
  <1>5. Frames(S, s) = Frames(U, s)
    BY <1>3, <1>4 DEF Frames
  <1>6. QED
    BY <1>1, <1>5 DEF Heard

(* Nor do the last of those that were.                                     *)
LEMMA FramesAfterSame ==
  ASSUME NEW S, NEW U, NEW n \in Nat, \A k \in 1 .. n : S[k] = U[k], NEW d \in Nat, d <= n
  PROVE  FramesAfter(S, n - d, d) = FramesAfter(U, n - d, d)
  <1>1. \A i \in 1 .. d : (n - d) + i \in 1 .. n
    OBVIOUS
  <1>2. \A i \in 1 .. d : S[(n - d) + i] = U[(n - d) + i]
    BY <1>1
  <1>3. QED
    BY <1>2 DEF FramesAfter

(* The same is heard of the same frames.                                   *)
LEMMA HearsSame ==
  ASSUME NEW fe, NEW v, NEW S, NEW given, Hears(fe, v, S, given),
         NEW U, \A k \in 1 .. fe.nframe : S[k] = U[k]
  PROVE  Hears(fe, v, U, given)
  <1>1. /\ FeOK(fe) /\ fe.nframe \in Nat /\ VadOK(fe, v, S, fe.nframe) /\ IsSeq(given)
        /\ given \o Held(fe) = Heard(S, v, fe.nframe)
        /\ Held(fe) # <<>> => SpeechBegins(v, fe.nframe)
    BY DEF Hears
  <1>2. PICK n \in Nat : n = fe.nframe
    BY <1>1
  <1>3. Heard(S, v, n) = Heard(U, v, n)
    BY <1>2, HeardSame
  <1>4. VadOK(fe, v, U, n)
    <2>1. ASSUME fe.global = FALSE
          PROVE  FramesAfter(S, n - fe.prespchNum, fe.prespchNum) = FramesAfter(U, n - fe.prespchNum, fe.prespchNum)
      <3>1. fe.prespchNum \in Nat /\ fe.prespchNum <= n
        BY <1>1, <1>2, <2>1 DEF VadOK, Trailing
      <3>2. PICK d \in Nat : d = fe.prespchNum
        BY <3>1
      <3>3. d <= n /\ \A k \in 1 .. n : S[k] = U[k]
        BY <1>2, <3>1, <3>2
      <3>4. FramesAfter(S, n - d, d) = FramesAfter(U, n - d, d)
        BY ONLY <3>3, n \in Nat, d \in Nat, FramesAfterSame
      <3>5. QED
        BY <3>2, <3>4
    <2>2. QED
      BY <1>1, <1>2, <2>1 DEF VadOK
  <1>5. QED
    BY <1>1, <1>2, <1>3, <1>4 DEF Hears

(* What is heard of a signal is its speech. *)
LEMMA HeardFrames ==
  ASSUME NEW X, NEW v, NEW n \in Nat
  PROVE  Heard(SignalFrames(X), v, n) = SpeechFrames(X, v, n)
  <1>1. PICK s : s = Speech(v, n)
    OBVIOUS
  <1>2. s \in Seq(1 .. n) /\ DOMAIN s = 1 .. Len(s)
    BY <1>1, SpeechIs
  <1>3. \A i \in 1 .. Len(s) : s[i] \in Nat
    BY <1>2
  <1>4. \A i \in 1 .. Len(s) : SignalFrames(X)[s[i]] = FrameOf(X, s[i])
    BY <1>3 DEF SignalFrames
  <1>5. Frames(SignalFrames(X), s) = [i \in DOMAIN s |-> FrameOf(X, s[i])]
    BY <1>2, <1>4 DEF Frames
  <1>6. QED
    BY <1>1, <1>5 DEF Heard, SpeechFrames

(* Between calls what was given, and what is still held back, are the      *)
(* speech of the signal so far.                                            *)
LEMMA BetweenHears ==
  ASSUME NEW fe, NEW v, NEW T, NEW t, NEW given, Between(fe, v, T, t, given), NEW X, Begins(X, T, t)
  PROVE  /\ Hears(fe, v, SignalFrames(X), given)
         /\ given \o Held(fe) = SpeechFrames(X, v, fe.nframe)
  <1>1. /\ Hears(fe, v, WholeFrames(T), given) /\ fe.nframe \in Nat
        /\ fe.nframe > 0 => Start(fe.nframe - 1) + FrameSize <= t
    BY DEF Between, Hears
  <1>2. PICK n \in Nat : n = fe.nframe
    BY <1>1
  <1>3. \A k \in 1 .. n : WholeFrames(T)[k] = SignalFrames(X)[k]
    BY <1>1, <1>2, SameFrames
  <1>4. Hears(fe, v, SignalFrames(X), given)
    BY <1>1, <1>2, <1>3, HearsSame
  <1>5. given \o Held(fe) = Heard(SignalFrames(X), v, n)
    BY <1>2, <1>4 DEF Hears
  <1>6. QED
    BY <1>2, <1>4, <1>5, HeardFrames

-----------------------------------------------------------------------------
(* What is held back is no more than what makes speech begin. *)
LEMMA HeldShort ==
  ASSUME NEW fe, NEW v, NEW S, NEW given, Hears(fe, v, S, given)
  PROVE  IsSeq(Held(fe)) /\ Len(Held(fe)) \in Nat /\ Len(Held(fe)) <= PrespchLen
  <1>1. FeOK(fe) /\ VadOK(fe, v, S, fe.nframe)
    BY DEF Hears
  <1>2. IsSeq(Held(fe)) /\ Len(Held(fe)) \in Nat
    BY <1>1, HeldIs
  <1>3. CASE fe.global = TRUE
    <2>1. PICK len \in Nat, m \in Nat : len = Len(fe.cepBuf) /\ m = fe.cepRead /\ m <= len
      <3>1. Len(fe.cepBuf) \in Nat /\ fe.cepRead \in 0 .. Len(fe.cepBuf)
        BY <1>1 DEF FeOK, IsSeq
      <3>2. QED
        BY <3>1
    <2>2. m <= len /\ len <= PrespchLen
      <3>1. Len(fe.cepBuf) <= PrespchLen
        BY <1>1, <1>3 DEF VadOK
      <3>2. QED
        BY <2>1, <3>1
    <2>3. Held(fe) = Part(fe.cepBuf, m, len)
      BY <1>3, <2>1 DEF Held, Part
    <2>4. m \in Int /\ len \in Int /\ m <= len
      BY <2>1, <2>2
    <2>5. Len(Part(fe.cepBuf, m, len)) = len - m
      BY ONLY <2>4, PartIs
    <2>6. len - m <= PrespchLen
      BY <2>1, <2>2, SpchNumbers
    <2>7. QED
      BY <1>2, <2>3, <2>5, <2>6
  <1>4. CASE fe.global = FALSE
    <2>1. Held(fe) = <<>>
      BY <1>4 DEF Held
    <2>2. QED
      BY <1>2, <2>1, SpchNumbers
  <1>5. QED
    BY <1>1, <1>3, <1>4 DEF VadOK

(* What was given at the end of an utterance, of the speech of n frames:   *)
(* it lacks what was held back, if speech began with one of the last two.  *)
LosesHeld(speech, given, v, n) ==
  \E lost \in 0 .. PrespchLen, last \in {0, 1} :
     Loses(speech, given, lost, last) /\ (lost > 0 => \E k \in {n - 1, n} : SpeechBegins(v, k))

(* It lacks h, that was held back before x. *)
LEMMA EndedIs ==
  ASSUME NEW g, IsSeq(g), NEW h, IsSeq(h), Len(h) <= PrespchLen, NEW x, IsSeq(x), Len(x) \in {0, 1},
         NEW v, NEW n \in Nat, h # <<>> => \E k \in {n - 1, n} : SpeechBegins(v, k)
  PROVE  LosesHeld((g \o h) \o x, g \o x, v, n)
  <1>1. Loses((g \o h) \o x, g \o x, Len(h), Len(x)) /\ Len(h) \in Nat
    BY HeldIsLost
  <1>2. Len(h) \in 0 .. PrespchLen
    BY <1>1, SpchNumbers
  <1>3. Len(h) > 0 => h # <<>>
    OBVIOUS
  <1>4. QED
    BY <1>1, <1>2, <1>3 DEF LosesHeld

(* The frame that a signal ends with. *)
LEMMA LastFrame ==
  ASSUME NEW fe, NEW v, NEW T, NEW t, NEW given, Between(fe, v, T, t, given), NEW X, Begins(X, T, t),
         fe.overflow # <<>>
  PROVE  fe.overflow = SignalFrames(X)[fe.nframe + 1] /\ fe.nframe + 1 <= t /\ fe.nframe \in Nat
  <1>1. PICK n \in Nat : n = fe.nframe
    BY DEF Between, Hears
  <1>2. /\ t \in Nat /\ Start(n) <= t /\ t <= Start(n) + FrameSize /\ fe.overflow = Part(T, Start(n), t)
    BY <1>1 DEF Between
  <1>3. Start(n) \in Nat /\ n <= Start(n)
    BY StartIs
  <1>4. SignalFrames(X)[n + 1] = Part(T, Start(n), t)
    BY <1>2, FrameOfIs
  <1>5. n + 1 <= t
    <2>1. PICK s \in Int, e \in Int : s = Start(n) /\ e = t
      BY <1>2, <1>3
    <2>2. s <= e
      BY <1>2, <2>1
    <2>3. IsSeq(Part(T, s, e)) /\ Len(Part(T, s, e)) = e - s
      BY ONLY <2>2, s \in Int, e \in Int, PartIs
    <2>4. e # s
      <3>1. SUFFICES ASSUME e = s PROVE FALSE
        OBVIOUS
      <3>2. e - s = 0
        BY <3>1
      <3>3. Part(T, s, e) = <<>>
        BY ONLY <2>3, <3>2, NothingIs
      <3>4. QED
        BY <1>2, <2>1, <3>3
    <2>5. QED
      BY <1>2, <1>3, <2>1, <2>4
  <1>6. QED
    BY <1>1, <1>2, <1>4, <1>5

(* fe_end_utt(). *)
LEMMA FeEndHears ==
  ASSUME NEW fe, NEW v, NEW T, NEW t, NEW given, Between(fe, v, T, t, given), NEW X, Begins(X, T, t),
         NEW max \in Nat, t <= max, v \in [1 .. max -> BOOLEAN]
  PROVE  LET e == FeEndUtt(fe, v)
         IN  LosesHeld(SpeechFrames(X, v, e.fe.nframe), given \o e.out, v, e.fe.nframe)
  <1>1. PICK S : S = SignalFrames(X)
    OBVIOUS
  <1>2. Hears(fe, v, S, given)
    BY <1>1, BetweenHears
  <1>3. PICK n \in Nat : n = fe.nframe
    BY <1>2 DEF Hears
  <1>4. PICK h : h = Held(fe)
    OBVIOUS
  <1>5. IsSeq(h) /\ Len(h) <= PrespchLen /\ IsSeq(given) /\ given \o h = Heard(S, v, n)
        /\ FeOK(fe) /\ VadOK(fe, v, S, n)
    BY <1>2, <1>3, <1>4, HeldShort DEF Hears
  <1>6. h # <<>> => SpeechBegins(v, n)
    BY <1>2, <1>3, <1>4 DEF Hears
  <1>7. PICK none : none = <<>> /\ IsSeq(none) /\ Len(none) \in {0, 1} /\ Len(none) <= PrespchLen
    <2>1. Len(<<>>) = 0
      OBVIOUS
    <2>2. IsSeq(<<>>)
      BY ONLY ConcatNothing, <2>1 DEF IsSeq
    <2>3. 0 <= PrespchLen
      BY SpchNumbers
    <2>4. QED
      BY <2>1, <2>2, <2>3
  <1>8. (given \o h) \o none = given \o h /\ given \o none = given
    <2>1. IsSeq(given \o h)
      BY <1>5, ConcatIs
    <2>2. QED
      BY <1>5, <1>7, <2>1, ConcatNothing
  <1>9. CASE fe.overflow = <<>>
    <2>1. FeEndUtt(fe, v).fe.nframe = n /\ FeEndUtt(fe, v).out = none
      BY <1>3, <1>5, <1>7, <1>9 DEF FeEndUtt, FeOK, FeFields
    <2>2. h # <<>> => \E k \in {n - 1, n} : SpeechBegins(v, k)
      BY <1>6
    <2>3. LosesHeld((given \o h) \o none, given \o none, v, n)
      BY ONLY <1>5, <1>7, <2>2, n \in Nat, EndedIs
    <2>4. LosesHeld(Heard(S, v, n), given \o none, v, n)
      BY <1>5, <1>8, <2>3
    <2>5. QED
      BY <1>1, <2>1, <2>4, HeardFrames
  <1>10. CASE fe.overflow # <<>>
    <2>1. fe.overflow = S[n + 1] /\ n + 1 \in 1 .. max
      <3>1. fe.overflow = S[n + 1] /\ n + 1 <= t /\ t \in Nat
        BY <1>1, <1>3, <1>10, LastFrame DEF Begins
      <3>2. QED
        BY <3>1
    <2>2. PICK b : b = Analyse(fe, S[n + 1], v)
      OBVIOUS
    <2>3. v[n + 1] \in BOOLEAN
      BY <2>1
    <2>4. Analysed(b, fe, v, S, n)
      BY <1>3, <1>5, <2>2, <2>3, AnalyseHears
    <2>5. /\ FeOK(b) /\ b.nframe = n + 1 /\ b.spch = S[n + 1] /\ VadOK(b, v, S, n + 1)
      BY <2>4 DEF Analysed
    <2>6. /\ FeEndUtt(fe, v).fe.nframe = n + 1
          /\ FeEndUtt(fe, v).out = IF GoesOut(b) THEN <<S[n + 1]>> ELSE none
      <3>1. FeEndUtt(fe, v).fe = [b EXCEPT !.overflow = <<>>]
        BY <1>10, <2>1, <2>2 DEF FeEndUtt
      <3>2. [b EXCEPT !.overflow = <<>>].nframe = b.nframe
        BY <2>5 DEF FeOK, FeFields
      <3>3. FeEndUtt(fe, v).out = IF GoesOut(b) THEN <<b.spch>> ELSE <<>>
        BY <1>10, <2>1, <2>2 DEF FeEndUtt
      <3>4. QED
        BY <1>7, <2>5, <3>1, <3>2, <3>3
    <2>7. b.global \in BOOLEAN /\ (b.global = TRUE <=> InSpeech(v, n + 1))
      BY <2>5 DEF VadOK
    <2>8. PICK m \in Nat : m = n + 1 /\ m - 1 = n
      <3>1. n + 1 \in Nat /\ (n + 1) - 1 = n
        OBVIOUS
      <3>2. QED
        BY <3>1
    <2>9. PICK out, speech : out = FeEndUtt(fe, v).out /\ speech = Heard(S, v, m)
      OBVIOUS
    <2>10. ASSUME InSpeech(v, n), InSpeech(v, m) PROVE LosesHeld(speech, given \o out, v, m)
      <3>1. b.changed = FALSE /\ b.global = TRUE
        BY <2>4, <2>7, <2>8, <2>10 DEF Analysed
      <3>2. PICK x : x = <<S[m]>>
        OBVIOUS
      <3>3. FeEndUtt(fe, v).out = x
        BY <2>6, <2>8, <3>1, <3>2 DEF GoesOut
      <3>4. IsSeq(given \o h)
        BY <1>5, ConcatIs
      <3>5. Heard(S, v, n + 1) = Append(Heard(S, v, n), S[n + 1])
        BY <2>8, <2>10, HeardNext
      <3>6. Append(given \o h, S[m]) = (given \o h) \o x /\ IsSeq(x) /\ Len(x) = 1
        BY <3>2, <3>4, AppendOne
      <3>7. Heard(S, v, m) = (given \o h) \o x
        BY <1>5, <2>8, <3>5, <3>6
      <3>8. h # <<>> => \E k \in {m - 1, m} : SpeechBegins(v, k)
        BY <1>6, <2>8
      <3>9. Len(x) \in {0, 1}
        BY <3>6
      <3>10. LosesHeld((given \o h) \o x, given \o x, v, m)
        BY ONLY <1>5, <3>6, <3>8, <3>9, m \in Nat, EndedIs
      <3>11. QED
        BY ONLY <2>9, <3>3, <3>7, <3>10
    <2>11. ASSUME ~InSpeech(v, n), InSpeech(v, m) PROVE LosesHeld(speech, given \o out, v, m)
      <3>1. b.changed = TRUE
        BY <2>4, <2>8, <2>11 DEF Analysed
      <3>2. FeEndUtt(fe, v).out = none
        BY <2>6, <3>1 DEF GoesOut
      <3>3. h = <<>>
        BY <1>4, <1>5, <2>11 DEF VadOK, Held
      <3>4. SpeechStarts(v, n + 1)
        BY <2>8, <2>11, InSpeechNext
      <3>5. PICK k : k = FramesAfter(S, n + 1 - PrespchLen, PrespchLen)
        OBVIOUS
      <3>6. PrespchLen <= n + 1 /\ Heard(S, v, n + 1) = Heard(S, v, n) \o k
        BY <2>11, <3>4, <3>5, HeardBegins
      <3>7. IsSeq(k) /\ Len(k) <= PrespchLen
        <4>1. n + 1 - PrespchLen \in Nat /\ PrespchLen \in Nat
          BY <3>6, SpchNumbers
        <4>2. IsSeq(k) /\ Len(k) = PrespchLen
          BY <3>5, <4>1, FramesAfterMore
        <4>3. QED
          BY <4>1, <4>2
      <3>8. Heard(S, v, n) = given
        <4>1. given \o <<>> = given
          BY <1>5, ConcatNothing
        <4>2. QED
          BY <1>5, <3>3, <4>1
      <3>9. Heard(S, v, m) = (given \o k) \o none
        <4>1. IsSeq(given \o k)
          BY <1>5, <3>7, ConcatIs
        <4>2. (given \o k) \o none = given \o k
          BY <1>7, <4>1, ConcatNothing
        <4>3. QED
          BY <2>8, <3>6, <3>8, <4>2
      <3>10. k # <<>> => \E i \in {m - 1, m} : SpeechBegins(v, i)
        BY <2>8, <2>11 DEF SpeechBegins
      <3>11. LosesHeld((given \o k) \o none, given \o none, v, m)
        BY ONLY <1>5, <1>7, <3>7, <3>10, m \in Nat, EndedIs
      <3>12. QED
        BY ONLY <2>9, <3>2, <3>9, <3>11
    <2>12. ASSUME ~InSpeech(v, m) PROVE LosesHeld(speech, given \o out, v, m)
      <3>1. b.global = FALSE
        BY <2>7, <2>8, <2>12
      <3>2. FeEndUtt(fe, v).out = none
        BY <2>6, <3>1 DEF GoesOut
      <3>3. ~SpeechStarts(v, n + 1)
        BY <2>4, <2>8, <2>12 DEF Analysed
      <3>4. Heard(S, v, n + 1) = Heard(S, v, n)
        BY <2>8, <2>12, <3>3, HeardNext
      <3>5. Heard(S, v, m) = (given \o h) \o none
        BY <1>5, <1>8, <2>8, <3>4
      <3>6. h # <<>> => \E i \in {m - 1, m} : SpeechBegins(v, i)
        BY <1>6, <2>8
      <3>7. LosesHeld((given \o h) \o none, given \o none, v, m)
        BY ONLY <1>5, <1>7, <3>6, m \in Nat, EndedIs
      <3>8. QED
        BY ONLY <2>9, <3>2, <3>5, <3>7
    <2>13. LosesHeld(speech, given \o out, v, m)
      BY <2>10, <2>11, <2>12
    <2>14. speech = SpeechFrames(X, v, m) /\ FeEndUtt(fe, v).fe.nframe = m
      BY <1>1, <2>6, <2>8, <2>9, HeardFrames
    <2>15. QED
      BY ONLY <2>13, <2>14, <2>9
  <1>11. QED
    BY <1>9, <1>10

-----------------------------------------------------------------------------
(* The speech of an utterance. *)

(* The samples of an utterance, by its number. *)
SignalOf(u, n) == [i \in 1 .. n |-> u * MaxSamps + i]

(* While samples are given, those that the front end took are heard, and   *)
(* the others are left in the call.                                        *)
Listens(fe, cs, v, T, given, left) ==
  /\ v \in [1 .. MaxSamps -> BOOLEAN] /\ given \in 0 .. MaxSamps /\ IsSeq(cs)
  /\ \E t \in 0 .. given : Between(fe, v, T, t, cs) /\ left = Part(T, t, given)

(* What is heard of an utterance. *)
SpeechInv(fe, cs, v, u, p, m, given, left) ==
  m = "raw" =>
    /\ p # "idle" /\ (p = "open" => left = <<>>)
    /\ p \in {"open", "process", "forward"} => Listens(fe, cs, v, SignalOf(u, MaxSamps), given, left)
    /\ p \in {"flush", "finish", "again", "done"} =>
         LosesHeld(SpeechFrames(SignalOf(u, given - Len(left)), v, fe.nframe), cs, v, fe.nframe)

(* The signal so far is the start of the whole. *)
LEMMA SignalBegins ==
  ASSUME NEW u, NEW t \in Nat, NEW max \in Nat, t <= max
  PROVE  Begins(SignalOf(u, t), SignalOf(u, max), t)
  <1>1. Len(SignalOf(u, t)) = t
    BY DEF SignalOf
  <1>2. \A i \in 1 .. t : i \in 1 .. max
    OBVIOUS
  <1>3. IsSeq(SignalOf(u, t))
    BY <1>1 DEF IsSeq, SignalOf
  <1>4. \A i \in 1 .. t : SignalOf(u, t)[i] = SignalOf(u, max)[i]
    BY <1>2 DEF SignalOf
  <1>5. QED
    BY <1>1, <1>3, <1>4 DEF Begins

(* What is left says how much was taken. *)
LEMMA ListensTo ==
  ASSUME NEW fe, NEW cs, NEW v, NEW T, NEW given, NEW left, Listens(fe, cs, v, T, given, left)
  PROVE  /\ given - Len(left) \in 0 .. given /\ given \in Nat /\ MaxSamps \in Nat /\ given <= MaxSamps
         /\ Between(fe, v, T, given - Len(left), cs) /\ left = Part(T, given - Len(left), given)
         /\ IsSeq(cs) /\ v \in [1 .. MaxSamps -> BOOLEAN]
  <1>1. MaxSamps \in Nat
    BY DecoderAssumption
  <1>2. given \in Nat /\ given <= MaxSamps /\ IsSeq(cs) /\ v \in [1 .. MaxSamps -> BOOLEAN]
    BY <1>1 DEF Listens
  <1>3. PICK t \in 0 .. given : Between(fe, v, T, t, cs) /\ left = Part(T, t, given)
    BY DEF Listens
  <1>4. PICK g \in Int : g = given
    BY <1>2
  <1>5. t \in Int /\ t <= g
    BY <1>2, <1>4
  <1>6. Len(Part(T, t, g)) = g - t
    BY ONLY <1>5, g \in Int, PartIs
  <1>7. g - (g - t) = t
    BY <1>5
  <1>8. given - Len(left) = t
    BY <1>3, <1>4, <1>6, <1>7
  <1>9. QED
    BY <1>1, <1>2, <1>3, <1>8

(* The front end at the start of an utterance. *)
LEMMA StartHears ==
  ASSUME NEW v, NEW T
  PROVE  Between(FeStartUtt, v, T, 0, <<>>)
  <1>1. PICK none : none = <<>> /\ IsSeq(none) /\ Len(none) = 0
    BY EmptyIs
  <1>2. PICK zero \in Nat : zero = 0
    OBVIOUS
  <1>3. /\ FeStartUtt.overflow = none /\ FeStartUtt.nframe = zero /\ FeStartUtt.global = FALSE
        /\ FeStartUtt.prespchNum = zero /\ FeStartUtt.cepBuf = none /\ FeStartUtt.cepRead = zero
    BY <1>1, <1>2 DEF FeStartUtt
  <1>4. FeOK(FeStartUtt)
    <2>1. FeStartUtt = [f \in FeFields |-> FeStartUtt[f]]
      BY DEF FeStartUtt, FeFields
    <2>2. zero \in 0 .. Len(none)
      BY <1>1, <1>2
    <2>3. QED
      BY <1>1, <1>3, <2>1, <2>2 DEF FeOK
  <1>5. Held(FeStartUtt) = none
    BY <1>1, <1>3 DEF Held
  <1>6. PICK S : S = WholeFrames(T)
    OBVIOUS
  <1>7. ~InSpeech(v, zero)
    <2>1. \A j \in 1 .. zero : FALSE
      BY <1>2
    <2>2. QED
      BY <2>1 DEF InSpeech
  <1>8. Trailing(v, TRUE, PrespchLen, zero, zero)
    <2>1. zero < PrespchLen /\ zero - zero + 1 > zero
      BY <1>2, SpchNumbers
    <2>2. \A i \in zero - zero + 1 .. zero : FALSE
      BY <1>2
    <2>3. QED
      BY <1>2, <2>1, <2>2 DEF Trailing
  <1>9. none = FramesAfter(S, zero - zero, zero)
    <2>1. zero - zero = zero
      BY <1>2
    <2>2. IsSeq(FramesAfter(S, zero, zero)) /\ Len(FramesAfter(S, zero, zero)) = zero
      BY <1>2, FramesAfterMore
    <2>3. FramesAfter(S, zero, zero) = <<>>
      BY <1>2, <2>2, NothingIs
    <2>4. QED
      BY <1>1, <2>1, <2>3
  <1>10. VadOK(FeStartUtt, v, S, zero)
    BY <1>2, <1>3, <1>7, <1>8, <1>9 DEF VadOK
  <1>11. none \o Held(FeStartUtt) = Heard(S, v, zero)
    <2>1. none \o none = none
      BY <1>1, ConcatNothing
    <2>2. Heard(S, v, 0) = <<>>
      BY HeardNothing
    <2>3. QED
      BY <1>1, <1>2, <1>5, <2>1, <2>2
  <1>12. Hears(FeStartUtt, v, S, none)
    BY <1>1, <1>2, <1>3, <1>4, <1>5, <1>10, <1>11 DEF Hears
  <1>13. Start(zero) = 0 /\ 0 <= 0 + FrameSize
    BY <1>2, StartIs
  <1>14. none = Part(T, 0, 0)
    <2>1. IsSeq(Part(T, zero, zero)) /\ Len(Part(T, zero, zero)) = zero - zero
      <3>1. zero \in Int /\ zero <= zero
        BY <1>2
      <3>2. QED
        BY ONLY <3>1, PartIs
    <2>2. zero - zero = 0
      BY <1>2
    <2>3. Part(T, zero, zero) = <<>>
      BY ONLY <2>1, <2>2, NothingIs
    <2>4. QED
      BY <1>1, <1>2, <2>3
  <1>15. ~ (zero > 0)
    BY <1>2
  <1>16. QED
    BY <1>1, <1>2, <1>3, <1>6, <1>12, <1>13, <1>14, <1>15 DEF Between

(* The same is heard in the same part of an utterance. *)
Feeding == {"open", "process", "forward"}
Over == {"flush", "finish", "again", "done"}

(* There it is heard still.                                                *)
LEMMA SpeechKept ==
  ASSUME NEW fe, NEW cs, NEW v, NEW u, NEW p, NEW q, NEW m, NEW given, NEW left,
         SpeechInv(fe, cs, v, u, p, m, given, left), q = "open" => left = <<>>,
         (p \in Feeding /\ q \in Feeding) \/ (p \in Over /\ q \in Over) \/ p = q
  PROVE  SpeechInv(fe, cs, v, u, q, m, given, left)
  <1>1. q \in Feeding => q \notin Over /\ q # "idle"
    BY DEF Feeding, Over
  <1>2. q \in Over => q \notin Feeding /\ q # "idle"
    BY DEF Feeding, Over
  <1>3. QED
    BY <1>1, <1>2 DEF SpeechInv, Feeding, Over

(* What is heard now. *)
SpeechOK == SpeechInv(am.fe, ceps, voiced, utt, pc, mode, fed, chunk)

(* A step that leaves the front end and what was given. *)
Deaf ==
  /\ am'.fe = am.fe /\ ceps' = ceps /\ voiced' = voiced /\ utt' = utt /\ mode' = mode
  /\ fed' = fed /\ chunk' = chunk
  /\ (pc \in Feeding /\ pc' \in Feeding) \/ (pc \in Over /\ pc' \in Over) \/ pc = pc'
  /\ pc' = "open" => pc = "open" \/ chunk = <<>>

(* Such a step keeps what is heard.                                        *)
LEMMA DeafKeeps == ASSUME SpeechOK, Deaf PROVE SpeechOK'
  <1>1. pc' = "open" /\ mode = "raw" => chunk = <<>>
    BY DEF SpeechOK, SpeechInv, Deaf
  <1>2. CASE mode = "raw"
    <2>1. SpeechInv(am.fe, ceps, voiced, utt, pc', mode, fed, chunk)
      BY <1>1, <1>2, SpeechKept DEF SpeechOK, Deaf
    <2>2. QED
      BY <2>1 DEF SpeechOK, Deaf
  <1>3. CASE mode # "raw"
    <2>1. mode' # "raw"
      BY <1>3 DEF Deaf
    <2>2. QED
      BY <2>1 DEF SpeechOK, SpeechInv
  <1>4. QED
    BY <1>2, <1>3

(* The steps after the samples were taken. *)
LEMMA SearchesDeaf ==
  ASSUME IInv, Forward \/ ForwardDone \/ ProcessDone \/ SearchLookahead \/ Finish \/ SecondPass \/ SecondPassDone
               \/ UNCHANGED vars
  PROVE  Deaf
  <1>1. Sized(am, plWindow, twoPass) /\ IsAm(am) /\ plWindow \in Nat
    BY DEF IInv, Types, Sized
  <1>2. CASE Forward
    <2>1. Keeps(am, am', Scoring)
      BY <1>2, ForwardEffect
    <2>2. am'.fe = am.fe
      BY <2>1 DEF Keeps, AmFields, Scoring
    <2>3. QED
      BY <1>2, <2>2 DEF Deaf, Forward, config, source, input
  <1>3. CASE ForwardDone
    BY <1>3 DEF Deaf, ForwardDone, config, source, input, Feeding
  <1>4. CASE ProcessDone
    BY <1>4 DEF Deaf, ProcessDone, config, source, input, Feeding
  <1>5. CASE SearchLookahead
    <2> DEFINE b == LookaheadRounds[Len(LookaheadFrames)].am
    <2>1. Keeps(am, b, {"senscr", "scores"}) /\ am' = b
      BY <1>1, <1>5, LookaheadKeeps DEF SearchLookahead
    <2> HIDE DEF b
    <2>2. am'.fe = am.fe
      BY <2>1 DEF Keeps, AmFields
    <2>3. QED
      BY <1>5, <2>2 DEF Deaf, SearchLookahead, config, source, input, Over
  <1>6. CASE Finish
    <2>1. am' = am \/ am' = Rewind(am)
      BY <1>6 DEF Finish
    <2>2. Rewind(am).fe = am.fe
      BY <1>1 DEF Rewind, IsAm, AmFields
    <2>3. am'.fe = am.fe
      BY <2>1, <2>2
    <2>4. QED
      BY <1>6, <2>3 DEF Deaf, Finish, config, source, input, Over
  <1>7. CASE SecondPass
    <2> DEFINE c == AfterScore(am, Len(again))
    <2>1. IsAm(c) /\ Keeps(am, c, {"senscr", "scores"})
      BY <1>1, ScoreKeeps
    <2>2. am' = Advance(c)
      BY <1>7 DEF SecondPass
    <2> HIDE DEF c
    <2>3. Advance(c).fe = c.fe
      BY <2>1 DEF Advance, IsAm, AmFields
    <2>4. am'.fe = am.fe
      BY <2>1, <2>2, <2>3 DEF Keeps, AmFields
    <2>5. QED
      BY <1>7, <2>4 DEF Deaf, SecondPass, config, source, input
  <1>8. CASE SecondPassDone
    BY <1>8 DEF Deaf, SecondPassDone, config, source, input, Over
  <1>9. CASE UNCHANGED vars
    BY <1>9 DEF Deaf, vars, config, source, input
  <1>10. QED
    BY <1>2, <1>3, <1>4, <1>5, <1>6, <1>7, <1>8, <1>9

(* ps_start_utt(). *)
LEMMA StartHeard == ASSUME IInv, StartUtt PROVE SpeechOK'
  <1>1. /\ am' = StartedUtt(am) /\ pc' = "open" /\ chunk' = <<>> /\ fed' = 0 /\ ceps' = <<>>
        /\ voiced' \in IF mode' = "raw" THEN Voices ELSE {<<>>}
    BY DEF StartUtt
  <1>2. am'.fe = FeStartUtt
    <2>1. IsAm(am)
      BY DEF IInv, Sized
    <2>2. StartedUtt(am).fe = FeStartUtt
      BY <2>1 DEF StartedUtt, IsAm, AmFields
    <2>3. QED
      BY <1>1, <2>2
  <1>3. ASSUME mode' = "raw"
        PROVE  Listens(am'.fe, ceps', voiced', SignalOf(utt', MaxSamps), fed', chunk')
    <2>1. PICK T : T = SignalOf(utt', MaxSamps)
      OBVIOUS
    <2>2. voiced' \in [1 .. MaxSamps -> BOOLEAN] /\ MaxSamps \in Nat
      BY <1>1, <1>3, DecoderAssumption
    <2>3. Between(am'.fe, voiced', T, 0, ceps')
      BY <1>1, <1>2, StartHears
    <2>4. chunk' = Part(T, 0, 0)
      <3>1. PICK zero \in Int : zero = 0
        OBVIOUS
      <3>2. zero <= zero /\ zero - zero = 0
        BY <3>1
      <3>3. IsSeq(Part(T, zero, zero)) /\ Len(Part(T, zero, zero)) = zero - zero
        BY ONLY <3>2, zero \in Int, PartIs
      <3>4. Part(T, zero, zero) = <<>>
        BY ONLY <3>2, <3>3, NothingIs
      <3>5. QED
        BY <1>1, <3>1, <3>4
    <2>5. fed' = 0 /\ 0 \in 0 .. 0 /\ 0 \in 0 .. MaxSamps /\ IsSeq(ceps')
      BY <1>1, <2>2, EmptyIs
    <2>6. QED
      BY <2>1, <2>2, <2>3, <2>4, <2>5 DEF Listens
  <1>4. pc' # "idle" /\ pc' \notin Over
    BY <1>1 DEF Over
  <1>5. QED
    BY <1>1, <1>3, <1>4 DEF SpeechOK, SpeechInv, Over

(* ps_process_raw() is called. *)
LEMMA ProcessHeard == ASSUME IInv, SpeechOK, Process PROVE SpeechOK'
  <1>1. /\ pc = "open" /\ pc' = "process" /\ mode' = mode /\ voiced' = voiced /\ utt' = utt /\ ceps' = ceps
        /\ am' = IF noSearch THEN SetGrow(am, TRUE) ELSE am
    BY DEF Process, source
  <1>2. am'.fe = am.fe
    <2>1. IsAm(am)
      BY DEF IInv, Sized
    <2>2. SetGrow(am, TRUE).fe = am.fe
      BY <2>1 DEF SetGrow, GrowFeatBuf, IsAm, AmFields
    <2>3. QED
      BY <1>1, <2>2
  <1>3. CASE mode # "raw"
    BY <1>1, <1>3 DEF SpeechOK, SpeechInv
  <1>4. CASE mode = "raw"
    <2>1. PICK T : T = SignalOf(utt, MaxSamps)
      OBVIOUS
    <2>2. Listens(am.fe, ceps, voiced, T, fed, chunk) /\ chunk = <<>>
      BY <1>1, <1>4, <2>1 DEF SpeechOK, SpeechInv
    <2>3. PICK g \in Nat, max \in Nat : g = fed /\ max = MaxSamps /\ g <= max
      BY <2>2, ListensTo
    <2>4. Between(am.fe, voiced, T, g, ceps) /\ IsSeq(ceps) /\ voiced \in [1 .. max -> BOOLEAN]
      <3>1. Len(chunk) = 0
        BY <2>2, EmptyIs
      <3>2. fed - Len(chunk) = g
        BY <2>3, <3>1
      <3>3. QED
        BY <2>2, <2>3, <3>2, ListensTo
    <2>5. PICK n \in Gives : chunk' = SubSeq(Signal(MaxSamps), fed + 1, fed + n) /\ fed' = fed + n
      BY <1>4 DEF Process
    <2>6. n \in Nat /\ g + n <= max
      <3>1. n \in SampChunks /\ fed + n <= MaxSamps
        BY <1>4, <2>5 DEF Gives
      <3>2. QED
        BY <2>3, <3>1, DecoderAssumption
    <2>7. Signal(MaxSamps) = T
      BY <2>1 DEF Signal, SignalOf
    <2>8. PICK e \in Nat : e = g + n /\ e \in 0 .. max /\ g \in 0 .. e
      <3>1. g + n \in Nat /\ g + n \in 0 .. max /\ g \in 0 .. g + n
        BY <2>6
      <3>2. QED
        BY <3>1
    <2>9. fed' = e /\ chunk' = Part(T, g, e)
      BY <2>3, <2>5, <2>7, <2>8 DEF Part
    <2>10. Listens(am'.fe, ceps', voiced', T, fed', chunk')
      BY <1>1, <1>2, <2>3, <2>4, <2>8, <2>9 DEF Listens
    <2>11. QED
      BY <1>1, <2>1, <2>10 DEF SpeechOK, SpeechInv
  <1>5. QED
    BY <1>3, <1>4

(* acmod_process_raw(). *)
LEMMA RawHeard == ASSUME IInv, SpeechOK, ProcessSome, mode = "raw" PROVE SpeechOK'
  <1>1. /\ pc = "process" /\ pc' \in {"process", "forward"} /\ mode' = mode /\ voiced' = voiced /\ utt' = utt
        /\ fed' = fed
    BY DEF ProcessSome, source
  <1>2. PICK r : r = ProcessRaw(am, chunk, voiced)
    OBVIOUS
  <1>3. am' = r.am /\ ceps' = ceps \o r.ceps /\ chunk' = r.spch
    BY <1>2 DEF ProcessSome, Acmod, Took
  <1>4. PICK T : T = SignalOf(utt, MaxSamps)
    OBVIOUS
  <1>5. Listens(am.fe, ceps, voiced, T, fed, chunk)
    BY <1>1, <1>4 DEF SpeechOK, SpeechInv
  <1>6. PICK max \in Nat, b \in Nat, t \in Nat :
          max = MaxSamps /\ b = fed /\ t = fed - Len(chunk) /\ t <= b /\ b <= max
    <2>1. fed - Len(chunk) \in 0 .. fed /\ fed \in Nat /\ MaxSamps \in Nat /\ fed <= MaxSamps
      BY <1>5, ListensTo
    <2>2. fed - Len(chunk) \in Nat /\ fed - Len(chunk) <= fed
      BY ONLY <2>1
    <2>3. QED
      BY ONLY <2>1, <2>2
  <1>7. /\ Between(am.fe, voiced, T, t, ceps) /\ chunk = Part(T, t, b) /\ IsSeq(ceps)
        /\ voiced \in [1 .. max -> BOOLEAN]
    BY <1>5, <1>6, ListensTo
  <1>8. Hands(FillMfcBuf(am, chunk, voiced), r) /\ IsAm(am) /\ MfcOK(am) /\ am.nMfc = 0
    <2>1. /\ (start = "pending" => Opening(am, ceps))
          /\ (start # "pending" => Steady(am, ceps, start) /\ am.nMfc = 0)
          /\ (~am.grow => am.nFeat = 0 /\ MfcAlloc <= am.nAlloc) /\ IsSeq(chunk) /\ IsSeq(ceps)
      BY CallStarts
    <2>2. IsAm(am) /\ MfcOK(am)
      BY DEF IInv, Sized
    <2>3. CASE start = "pending"
      <3>1. Fresh(am, <<>>, "empty") /\ am.mfcOut = 0 /\ am.nMfc = 0
        BY <2>1, <2>3 DEF Opening
      <3>2. Hands(FillMfcBuf(am, chunk, voiced), ProcessRaw(am, chunk, voiced))
        BY <2>1, <3>1, RawFirst
      <3>3. QED
        BY <1>2, <2>2, <3>1, <3>2
    <2>4. CASE start # "pending"
      <3>1. Steady(am, ceps, start) /\ am.nMfc = 0
        BY <2>1, <2>4
      <3>2. Hands(FillMfcBuf(am, chunk, voiced), ProcessRaw(am, chunk, voiced))
        BY <2>1, <3>1, RawMore
      <3>3. QED
        BY <1>2, <2>2, <3>1, <3>2
    <2>5. QED
      BY <2>3, <2>4
  <1>9. b \in 0 .. max /\ t \in 0 .. b
    BY <1>6
  <1>10. Hearing(r, voiced, T, b, ceps)
    BY ONLY <1>7, <1>8, <1>9, max \in Nat, ProcessRawHears
  <1>11. Listens(am'.fe, ceps', voiced', T, fed', chunk')
    <2>1. IsSeq(ceps') /\ \E x \in 0 .. b : Between(am'.fe, voiced, T, x, ceps') /\ chunk' = Part(T, x, b)
      BY <1>3, <1>10 DEF Hearing
    <2>2. QED
      BY <1>1, <1>6, <1>7, <1>9, <2>1 DEF Listens
  <1>12. QED
    BY <1>1, <1>4, <1>11 DEF SpeechOK, SpeechInv

(* Calls that give cepstra are not heard.                                  *)
LEMMA ProcessSomeHeard == ASSUME IInv, SpeechOK, ProcessSome PROVE SpeechOK'
  <1>1. CASE mode # "raw"
    <2>1. mode' = mode
      BY DEF ProcessSome, source
    <2>2. QED
      BY <1>1, <2>1 DEF SpeechOK, SpeechInv
  <1>2. QED
    BY <1>1, RawHeard

(* ps_end_utt(). *)
LEMMA EndHeard == ASSUME IInv, SpeechOK, EndOfUtt PROVE SpeechOK'
  <1>1. /\ pc = "open" /\ pc' = "flush" /\ mode' = mode /\ voiced' = voiced /\ utt' = utt
        /\ fed' = fed /\ chunk' = chunk /\ am' = EndUtt(am, voiced)
        /\ ceps' = ceps \o FeEndUtt(am.fe, voiced).out
    BY DEF EndOfUtt, source
  <1>2. CASE mode # "raw"
    BY <1>1, <1>2 DEF SpeechOK, SpeechInv
  <1>3. CASE mode = "raw"
    <2>1. PICK T, e : T = SignalOf(utt, MaxSamps) /\ e = FeEndUtt(am.fe, voiced)
      OBVIOUS
    <2>2. Listens(am.fe, ceps, voiced, T, fed, chunk)
      BY <1>1, <1>3, <2>1 DEF SpeechOK, SpeechInv
    <2>3. PICK max \in Nat, t \in Nat : max = MaxSamps /\ t = fed - Len(chunk) /\ t <= max
      <3>1. fed - Len(chunk) \in 0 .. fed /\ fed \in Nat /\ MaxSamps \in Nat /\ fed <= MaxSamps
        BY <2>2, ListensTo
      <3>2. fed - Len(chunk) \in Nat /\ fed - Len(chunk) <= MaxSamps
        BY ONLY <3>1
      <3>3. QED
        BY ONLY <3>1, <3>2
    <2>4. Between(am.fe, voiced, T, t, ceps) /\ voiced \in [1 .. max -> BOOLEAN]
      BY <2>2, <2>3, ListensTo
    <2>5. am'.fe = e.fe
      <3>1. /\ (start = "pending" => Opening(am, ceps))
            /\ (start # "pending" => Steady(am, ceps, start) /\ am.nMfc = 0)
            /\ Sized(am, plWindow, twoPass) /\ (start # "pending" /\ ~am.grow => am.nFeat = 0) /\ IsSeq(ceps)
            /\ plWindow \in Nat
        BY <1>3, EndStarts
      <3>2. IsAm(am) /\ MfcOK(am) /\ am.nMfc = 0
        BY <3>1 DEF Sized, Opening
      <3>3. CASE e.out = <<>>
        BY <1>1, <2>1, <3>2, <3>3, EndQuiet
      <3>4. CASE e.out # <<>>
        <4>1. am.fe.overflow # <<>>
          BY <2>1, <3>4 DEF FeEndUtt
        <4>2. Steady(am, ceps, start) /\ am.nMfc = 0 /\ (~am.grow => am.nFeat = 0)
          BY <3>1, <4>1 DEF Opening
        <4>3. am.nAlloc >= 2 * Win + 1
          <5>1. am.nAlloc \in Nat /\ am.nAlloc >= MfcAlloc + plWindow
            BY <3>1 DEF Sized, QueueOK
          <5>2. MfcAlloc = 2 * Win + 1 /\ Win \in Nat
            BY MfcSize, Sizes
          <5>3. QED
            BY <3>1, <5>1, <5>2
        <4>4. QED
          BY <1>1, <2>1, <3>1, <3>4, <4>2, <4>3, EndSpeech
      <3>5. QED
        BY <3>3, <3>4
    <2>6. PICK X, n : X = SignalOf(utt, t) /\ n = e.fe.nframe
      OBVIOUS
    <2>7. Begins(X, T, t)
      BY <2>1, <2>3, <2>6, SignalBegins
    <2>8. LosesHeld(SpeechFrames(X, voiced, n), ceps \o e.out, voiced, n)
      BY <2>1, <2>3, <2>4, <2>6, <2>7, FeEndHears
    <2>9. LosesHeld(SpeechFrames(SignalOf(utt', fed' - Len(chunk')), voiced', am'.fe.nframe),
                    ceps', voiced', am'.fe.nframe)
      BY <1>1, <2>1, <2>3, <2>5, <2>6, <2>8
    <2>10. QED
      BY <1>1, <2>9 DEF SpeechOK, SpeechInv
  <1>4. QED
    BY <1>2, <1>3

(* What is heard is what SpeechOfTheSignal says. *)
LEMMA SpeechIsHeard == ASSUME IInv, SpeechOK PROVE SpeechOfTheSignal
  <1>1. CASE mode # "raw"
    BY <1>1 DEF SpeechOfTheSignal
  <1>2. CASE mode = "raw"
    <2>1. PICK n, speech : n = am.fe.nframe /\ speech = SpeechFrames(Signal(fed - Len(chunk)), voiced, n)
      OBVIOUS
    <2>2. pc \in Feeding \cup Over
      BY <1>2 DEF IInv, Types, Pcs, SpeechOK, SpeechInv, Feeding, Over
    <2>3. ASSUME pc \in Feeding
          PROVE  ceps \o Held(am.fe) = speech
      <3>1. PICK T : T = SignalOf(utt, MaxSamps)
        OBVIOUS
      <3>2. Listens(am.fe, ceps, voiced, T, fed, chunk)
        BY <1>2, <2>3, <3>1 DEF SpeechOK, SpeechInv, Feeding
      <3>3. PICK max \in Nat, t \in Nat : max = MaxSamps /\ t = fed - Len(chunk) /\ t <= max
        <4>1. fed - Len(chunk) \in 0 .. fed /\ fed \in Nat /\ MaxSamps \in Nat /\ fed <= MaxSamps
          BY <3>2, ListensTo
        <4>2. fed - Len(chunk) \in Nat /\ fed - Len(chunk) <= MaxSamps
          BY ONLY <4>1
        <4>3. QED
          BY ONLY <4>1, <4>2
      <3>4. Between(am.fe, voiced, T, t, ceps)
        BY <3>2, <3>3, ListensTo
      <3>5. PICK X : X = SignalOf(utt, t)
        OBVIOUS
      <3>6. Begins(X, T, t)
        BY <3>1, <3>3, <3>5, SignalBegins
      <3>7. ceps \o Held(am.fe) = SpeechFrames(X, voiced, am.fe.nframe)
        BY <3>4, <3>6, BetweenHears
      <3>8. Signal(t) = X
        BY <3>5 DEF Signal, SignalOf
      <3>9. QED
        BY <2>1, <3>3, <3>7, <3>8
    <2>4. ASSUME pc \in Over
          PROVE  LosesHeld(speech, ceps, voiced, n)
      <3>1. LosesHeld(SpeechFrames(SignalOf(utt, fed - Len(chunk)), voiced, n), ceps, voiced, n)
        BY <1>2, <2>1, <2>4 DEF SpeechOK, SpeechInv, Over
      <3>2. SignalOf(utt, fed - Len(chunk)) = Signal(fed - Len(chunk))
        BY DEF Signal, SignalOf
      <3>3. QED
        BY <2>1, <3>1, <3>2
    <2>5. IF pc \in {"open", "process", "forward"} THEN ceps \o Held(am.fe) = speech
          ELSE \E lost \in 0 .. PrespchLen, last \in {0, 1} :
                 /\ lost + last <= Len(speech)
                 /\ ceps = FirstOf(speech, Len(speech) - lost - last) \o LastOf(speech, last)
                 /\ lost > 0 => \E k \in {n - 1, n} : SpeechBegins(voiced, k)
      <3>1. CASE pc \in Feeding
        BY <2>3, <3>1 DEF Feeding
      <3>2. CASE pc \in Over
        <4>1. ~ (pc \in {"open", "process", "forward"})
          BY <3>2 DEF Over
        <4>2. LosesHeld(speech, ceps, voiced, n)
          BY <2>4, <3>2
        <4>3. QED
          BY <4>1, <4>2 DEF LosesHeld, Loses
      <3>3. QED
        BY <2>2, <3>1, <3>2
    <2>6. QED
      BY <1>2, <2>1, <2>5 DEF SpeechOfTheSignal
  <1>3. QED
    BY <1>1, <1>2

(* What was given to the decoder, and what the front end still holds back, *)
(* is the speech of the samples: for every frame and shift, every length   *)
(* of prespeech and of the buffers, every voice and every way to cut an    *)
(* utterance into calls.                                                   *)
THEOREM DecoderSpeechOfTheSignal == ASSUME ShortCalls PROVE Spec => []SpeechOfTheSignal
  <1>1. Init => SpeechOK
    BY DEF Init, SpeechOK, SpeechInv
  <1>2. IInv /\ SpeechOK /\ [Next]_vars => SpeechOK'
    <2> SUFFICES ASSUME IInv, SpeechOK, [Next]_vars PROVE SpeechOK'
      OBVIOUS
    <2>1. CASE StartUtt
      BY <2>1, StartHeard
    <2>2. CASE Process
      BY <2>2, ProcessHeard
    <2>3. CASE ProcessSome
      BY <2>3, ProcessSomeHeard
    <2>4. CASE EndOfUtt
      BY <2>4, EndHeard
    <2>5. CASE Forward \/ ForwardDone \/ ProcessDone \/ SearchLookahead \/ Finish \/ SecondPass \/ SecondPassDone
               \/ UNCHANGED vars
      BY <2>5, SearchesDeaf, DeafKeeps
    <2>6. QED
      BY <2>1, <2>2, <2>3, <2>4, <2>5 DEF Next
  <1>3. IInv /\ SpeechOK => SpeechOfTheSignal
    BY SpeechIsHeard
  <1>4. QED
    BY <1>1, <1>2, <1>3, DecoderInvariant, PTL DEF Spec
=============================================================================
