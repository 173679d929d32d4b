------------------------------ MODULE FrontEnd ------------------------------
(***************************************************************************)
(* The front end of sphinxbase (fe_interface.c, fe_prespch_buf.c and       *)
(* fe_vad_hangover()): a stream of samples, handed over in calls of any    *)
(* length, is analysed in overlapping frames, and the frames that are      *)
(* speech come out as cepstra, no more in a call than the caller has room  *)
(* for.  Samples of an unfinished frame wait in the overflow buffer;       *)
(* frames that may turn out to be the start of speech wait in the          *)
(* prespeech buffer.                                                       *)
(*                                                                         *)
(* The signal processing is left out: a cepstrum is the sequence of the    *)
(* samples it is computed from.  Whether a frame sounds like speech is an  *)
(* input (voiced, by the number of the frame), as fe_track_snr() decides   *)
(* it.  fe is the record of what fe_t keeps between calls.                 *)
(***************************************************************************)
EXTENDS Integers, SequencesExt

CONSTANTS
    FrameSize,   \* samples in a frame
    FrameShift,  \* samples from the start of a frame to that of the next
    PrespchLen,  \* -vad_prespeech: voiced frames that make speech
    PostspchLen  \* -vad_postspeech: unvoiced frames that end it

ASSUME FrameAssumption == FrameShift \in Nat \ {0} /\ FrameSize \in Nat /\ FrameSize > FrameShift
ASSUME SpchAssumption == {PrespchLen, PostspchLen} \subseteq Nat \ {0}

NoMoreThan(n, most) == IF n < most THEN n ELSE most

\* The first and the last n members of a sequence.
FirstOf(s, n) == SubSeq(s, 1, n)
LastOf(s, n) == SubSeq(s, Len(s) - n + 1, Len(s))

\* fe_start_utt(); nframe is a history, the number of frames analysed.
FeStartUtt ==
    [overflow |-> <<>>, spch |-> <<>>, nframe |-> 0, global |-> FALSE, changed |-> FALSE,
     prespchNum |-> 0, postspchNum |-> 0, cepBuf |-> <<>>, cepRead |-> 0]

\* fe_vad_hangover() of the frame just analysed.
Voiced(fe) ==
    LET held == [fe EXCEPT !.cepBuf = Append(@, fe.spch), !.prespchNum = @ + 1,
                           !.postspchNum = 0, !.changed = FALSE]
    IN  IF fe.global THEN [fe EXCEPT !.postspchNum = 0, !.changed = FALSE]
        ELSE IF held.prespchNum >= PrespchLen
             THEN [held EXCEPT !.prespchNum = 0, !.global = TRUE, !.changed = TRUE]
             ELSE held

Unvoiced(fe) ==
    LET reset == [fe EXCEPT !.prespchNum = 0, !.cepBuf = <<>>, !.cepRead = 0, !.changed = FALSE]
    IN  IF ~fe.global THEN reset
        ELSE IF fe.postspchNum + 1 >= PostspchLen
             THEN [reset EXCEPT !.postspchNum = 0, !.global = FALSE, !.changed = TRUE]
             ELSE [reset EXCEPT !.postspchNum = @ + 1]

\* fe_read_frame() or fe_shift_frame() of a frame, and fe_write_frame().
Analyse(fe, spch, voiced) ==
    LET read == [fe EXCEPT !.spch = spch, !.nframe = @ + 1]
    IN  IF voiced[read.nframe] THEN Voiced(read) ELSE Unvoiced(read)

\* The frame just analysed is output itself: speech went on.
GoesOut(fe) == fe.global /\ ~fe.changed

-----------------------------------------------------------------------------
(* fe_process_frames(), as a record of where it is: the front end, the     *)
(* samples it was given and how many of them it has used, the samples of   *)
(* the old overflow still needed, the room and the cepstra put out.        *)

\* fe_prespch_read_cep() until there is no room or nothing left to read.
DumpPrespch(c) ==
    LET n == NoMoreThan(c.room, Len(c.fe.cepBuf) - c.fe.cepRead)
    IN  [c EXCEPT !.out = @ \o SubSeq(c.fe.cepBuf, c.fe.cepRead + 1, c.fe.cepRead + n),
                  !.room = @ - n, !.fe.cepRead = @ + n]

\* What happens to the frame that was analysed, and to those it had held back.
Output(c) ==
    LET out == IF GoesOut(c.fe) THEN [c EXCEPT !.out = Append(@, c.fe.spch), !.room = @ - 1] ELSE c
    IN  IF c.fe.changed /\ c.fe.global THEN DumpPrespch(out) ELSE out

\* The first frame is completed with the start of the new samples.
FirstFrame(c, voiced) ==
    LET offset == FrameSize - Len(c.fe.overflow)
    IN  Output([c EXCEPT !.fe = Analyse(@, @.overflow \o FirstOf(c.spch, offset), voiced),
                         !.used = offset, !.needed = Len(c.fe.overflow) - FrameShift])

MoreFrames(c) == c.room > 0 /\ Len(c.spch) - c.used >= FrameShift

NextFrame(c, voiced) ==
    LET new == SubSeq(c.spch, c.used + 1, c.used + FrameShift)
    IN  Output([c EXCEPT !.fe = Analyse(@, LastOf(@.spch, FrameSize - FrameShift) \o new, voiced),
                         !.used = @ + FrameShift,
                         !.needed = IF @ > 0 THEN @ - FrameShift ELSE @])

\* Mutant: an old overflow used up to its last sample counts as needed.
SaveOverflowInclusive(c) ==
    LET more == NoMoreThan(Len(c.spch) - c.used, FrameShift)
        upto == c.used + more
        fill == NoMoreThan(Len(c.spch), FrameSize - c.needed)
    IN  IF c.needed < 0
        THEN [c EXCEPT !.used = upto,
                       !.fe.overflow = SubSeq(c.spch, c.used - (FrameSize - FrameShift) + 1, upto)]
        ELSE [c EXCEPT !.used = IF fill > @ THEN fill ELSE @,
                       !.fe.overflow = LastOf(c.fe.overflow, c.needed) \o FirstOf(c.spch, fill)]

\* The samples kept for the next call: the end of what was used and up to a
\* shift more, or, if the old overflow is still needed, what makes it a frame.
SaveOverflow(c) ==
    LET more == NoMoreThan(Len(c.spch) - c.used, FrameShift)
        upto == c.used + more
        fill == NoMoreThan(Len(c.spch), FrameSize - c.needed)
    IN  IF c.needed <= 0
        THEN [c EXCEPT !.used = upto,
                       !.fe.overflow = SubSeq(c.spch, c.used - (FrameSize - FrameShift) + 1, upto)]
        ELSE [c EXCEPT !.used = IF fill > @ THEN fill ELSE @,
                       !.fe.overflow = LastOf(c.fe.overflow, c.needed) \o FirstOf(c.spch, fill)]

FrameRound(c, voiced) == IF MoreFrames(c) THEN NextFrame(c, voiced) ELSE c

\* The call after each round of the loop over its frames: not more rounds than samples.
FrameRounds(c, voiced) ==
    LET d[i \in 0 .. Len(c.spch)] ==
            IF i = 0 THEN FirstFrame(c, voiced) ELSE FrameRound(d[i - 1], voiced)
    IN  d

Framed(c, voiced) == SaveOverflow(FrameRounds(c, voiced)[Len(c.spch)])

\* fe_process_frames(): the new front end, the samples used and the cepstra.
ProcessFrames(fe, spch, room, voiced) ==
    LET call == [fe |-> fe, spch |-> spch, used |-> 0, needed |-> 0, room |-> room, out |-> <<>>]
        dumped == IF fe.global THEN DumpPrespch(call) ELSE call
    IN  IF Len(spch) + Len(fe.overflow) < FrameSize
        THEN [call EXCEPT !.fe.overflow = @ \o spch, !.used = Len(spch)]
        ELSE IF room = 0 \/ dumped.room = 0 THEN dumped
        ELSE Framed(dumped, voiced)

\* fe_end_utt(): what is left makes a last frame, shorter than the others.
FeEndUtt(fe, voiced) ==
    LET last == IF fe.overflow # <<>> THEN Analyse(fe, fe.overflow, voiced) ELSE fe
    IN  [fe  |-> [last EXCEPT !.overflow = <<>>],
         out |-> IF fe.overflow # <<>> /\ GoesOut(last) THEN <<last.spch>> ELSE <<>>]

\* Speech that began and has not come out yet, for lack of room.
Held(fe) == IF fe.global THEN SubSeq(fe.cepBuf, fe.cepRead + 1, Len(fe.cepBuf)) ELSE <<>>

-----------------------------------------------------------------------------
(* What the front end is for, by itself: frame number k of a signal, and   *)
(* which of the frames are speech.                                         *)

FrameOf(signal, k) ==
    SubSeq(signal, (k - 1) * FrameShift + 1,
           NoMoreThan((k - 1) * FrameShift + FrameSize, Len(signal)))

RunEnds(voiced, value, len, k) == k >= len /\ \A i \in k - len + 1 .. k : voiced[i] = value
SpeechStarts(voiced, k) == RunEnds(voiced, TRUE, PrespchLen, k)
InSpeech(voiced, k) ==
    \E j \in 1 .. k :
        /\ SpeechStarts(voiced, j)
        /\ \A i \in j .. k : ~RunEnds(voiced, FALSE, PostspchLen, i)

SpeechBegins(voiced, k) == InSpeech(voiced, k) /\ ~InSpeech(voiced, k - 1)

\* Of n frames analysed, the numbers of those that are speech, in order.
IsSpeech(voiced, n, k) ==
    InSpeech(voiced, k) \/ \E j \in k .. NoMoreThan(k + PrespchLen - 1, n) : SpeechStarts(voiced, j)
Speech(voiced, n) ==
    LET speech[k \in 0 .. n] ==
            IF k = 0 THEN <<>>
            ELSE IF IsSpeech(voiced, n, k) THEN Append(speech[k - 1], k) ELSE speech[k - 1]
    IN  speech[n]

\* The frames themselves.
SpeechFrames(signal, voiced, n) ==
    [i \in DOMAIN Speech(voiced, n) |-> FrameOf(signal, Speech(voiced, n)[i])]
=============================================================================
