------------------------------ MODULE PsAcmod -------------------------------
(***************************************************************************)
(* The acoustic model of pocketsphinx (acmod.c): audio goes through the    *)
(* front end (FrontEnd) into a circular buffer of MfcAlloc cepstra, and    *)
(* these through the dynamic features (LiveFeat) into a circular buffer of *)
(* features, from which searches score frames, behind and at the output    *)
(* position.                                                               *)
(*                                                                         *)
(* am is the record of acmod_t.  Its functions are called by one thread,   *)
(* and call each other, so they are operators from an acmod to an acmod.   *)
(***************************************************************************)
EXTENDS LiveFeat, FrontEnd

CONSTANTS
    GrowAlloc,  \* the 128 frames of acmod_set_grow()
    NoFeature   \* what the feature buffer holds before anything was written

ASSUME GrowAllocAssumption == GrowAlloc \in Nat \ {0}

\* n_mfc_alloc, and n_feat_alloc before it has grown.
MfcAlloc == 2 * Win + 1
FeatAlloc(plWindow) == MfcAlloc + plWindow

\* A feature buffer of n frames that starts with buf.
Resized(buf, n) == [p \in 0 .. n - 1 |-> IF p \in DOMAIN buf THEN buf[p] ELSE NoFeature]

AcmodInit(plWindow) ==
    [state |-> "idle", grow |-> FALSE, fe |-> FeStartUtt, fcb |-> FcbInit,
     mfcBuf |-> [p \in 0 .. MfcAlloc - 1 |-> NoCep], nMfc |-> 0, mfcOut |-> 0,
     featBuf |-> Resized(<<>>, FeatAlloc(plWindow)), nAlloc |-> FeatAlloc(plWindow),
     nFeat |-> 0, featOut |-> 0, output |-> 0, senscr |-> -1, scores |-> NoFeature]

\* acmod_grow_feat_buf()
GrowFeatBuf(am, n) == [am EXCEPT !.featBuf = Resized(@, n), !.nAlloc = n]

\* acmod_set_grow()
SetGrow(am, grow) ==
    LET set == [am EXCEPT !.grow = grow]
    IN  IF grow /\ am.nAlloc < GrowAlloc THEN GrowFeatBuf(set, GrowAlloc) ELSE set

\* Mutant: the scores of the utterance before are still taken for this one's.
StartedWithScores(am) ==
    [am EXCEPT !.fe = FeStartUtt, !.state = "started", !.nMfc = 0, !.nFeat = 0, !.mfcOut = 0,
               !.featOut = 0, !.output = 0]

\* acmod_start_utt()
StartedUtt(am) ==
    [am EXCEPT !.fe = FeStartUtt, !.state = "started", !.nMfc = 0, !.nFeat = 0, !.mfcOut = 0, !.featOut = 0,
               !.output = 0, !.senscr = -1]

-----------------------------------------------------------------------------
(* Cepstra to features.                                                    *)

\* Features written to the buffer from a position on.
StoreFeats(am, pos, feats) ==
    [am EXCEPT
        !.featBuf = [p \in DOMAIN @ |->
                       IF p \in pos .. pos + Len(feats) - 1 THEN feats[p - pos + 1] ELSE @[p]],
        !.nFeat = @ + Len(feats)]

\* One call of feat_s2mfc2feat_live() by acmod_process_cep(); live is its result.
Stored(am, pos, live) ==
    [am   |-> [StoreFeats(am, pos, live.feats) EXCEPT !.fcb = live.fcb],
     used |-> live.used, next |-> (pos + Len(live.feats)) % am.nAlloc]
Compute(am, pos, ceps, end) == Stored(am, pos, Live(am.fcb, ceps, am.state = "started", end))

\* The features acmod_process_cep() expects of n cepstra.
Expected(am, n) ==
    CASE am.state = "ended"   -> n + Win
      [] am.state = "started" -> n - Win
      [] OTHER                -> n

Room(am) == am.nAlloc - am.nFeat

\* The feature buffer, when it may or must, grows by what is expected and then doubles until
\* it does not wrap around.
Doubled(n, least) == IF n > least THEN n ELSE 2 * n

\* The size after each round: that of a frame or more is past least after least of them.
DoublingRounds(n, least) ==
    LET size[k \in 0 .. least] == IF k = 0 THEN n ELSE Doubled(size[k - 1], least)
    IN  size

\* Mutant: the feature after the last of these may be the first of the buffer.
DoublingsJustEnough(n, least) == IF least <= n THEN n ELSE DoublingRounds(n, least - 1)[least - 1]

Doublings(n, least) == IF least < n THEN n ELSE DoublingRounds(n, least)[least]

GrownToFit(am, nfeat) ==
    LET grown == IF nfeat > Room(am) /\ (am.grow \/ am.state = "ended")
                 THEN GrowFeatBuf(am, am.nAlloc + nfeat) ELSE am
    IN  IF grown.grow
        THEN GrowFeatBuf(grown, Doublings(grown.nAlloc, grown.featOut + grown.nFeat + nfeat))
        ELSE grown

\* Mutant: all of them are taken.
NotClamped(am, n) == n

\* Cepstra left out when the buffer may not grow.
Clamp(am, n) ==
    LET nfeat == Expected(am, n)
    IN  IF nfeat > Room(am) /\ ~(am.grow \/ am.state = "ended")
        THEN n - (nfeat - Room(am)) ELSE n

\* Where the next feature goes.
InPtr(am) == IF am.grow THEN am.featOut + am.nFeat ELSE (am.featOut + am.nFeat) % am.nAlloc

\* The buffer wraps around in what is about to be written: the part before its end is
\* computed first, never as the end of the utterance.
ComputeRest(first, ceps, n) ==
    LET rest == SubSeq(ceps, first.used + 1, n)
    IN  [Compute(first.am, first.next, rest, first.am.state = "ended") EXCEPT !.used = @ + first.used]

ComputeInTwo(am, ceps, n) ==
    ComputeRest(Compute(am, InPtr(am), SubSeq(ceps, 1, am.nAlloc - InPtr(am)), FALSE), ceps, n)

ComputeInOne(am, ceps, n) == Compute(am, InPtr(am), SubSeq(ceps, 1, n), am.state = "ended")

\* Past the start of the utterance once cepstra were processed, or none were there.
Processing(am) == IF am.state = "started" THEN [am EXCEPT !.state = "processing"] ELSE am

\* The computation of nfeat features from n of the cepstra in a buffer that was made to fit.
\* They are dropped if it would wrap around at the end of the utterance, and the answer
\* is then 0.
ProcessFitting(fit, ceps, nfeat, n) ==
    LET wraps == InPtr(fit) + nfeat > fit.nAlloc
    IN  IF wraps /\ fit.state = "ended" THEN [am |-> fit, used |-> 0]
        ELSE [IF wraps THEN ComputeInTwo(fit, ceps, n) ELSE ComputeInOne(fit, ceps, n)
                EXCEPT !.am = Processing(@)]

\* acmod_process_cep() of less than an utterance.
ProcessCep(am, ceps) ==
    LET nfeat == Expected(am, Len(ceps))
    IN  ProcessFitting(GrownToFit(am, nfeat), ceps, nfeat, Clamp(am, Len(ceps)))

\* acmod_process_full_cep(): a whole utterance, after which the feature buffer has it all.
ProcessFullCep(am, ceps) ==
    LET fit == IF am.nAlloc < Len(ceps)
               THEN [am EXCEPT !.featBuf = Resized(<<>>, Len(ceps)), !.nAlloc = Len(ceps),
                               !.nFeat = 0, !.featOut = 0]
               ELSE am
        r == Live(fit.fcb, ceps, TRUE, TRUE)
    IN  [StoreFeats(fit, 0, r.feats) EXCEPT !.fcb = r.fcb, !.nFeat = Len(r.feats)]

-----------------------------------------------------------------------------
(* Audio: the front end writes cepstra into the circular buffer.           *)

\* Frames of the front end appended to those in the buffer.
PutMfc(am, ceps) ==
    LET slot(i) == (am.mfcOut + am.nMfc + i - 1) % MfcAlloc
    IN  [am EXCEPT
            !.mfcBuf = [p \in DOMAIN @ |-> IF \E i \in DOMAIN ceps : slot(i) = p
                                           THEN ceps[CHOOSE i \in DOMAIN ceps : slot(i) = p]
                                           ELSE @[p]],
            !.nMfc = @ + Len(ceps)]

\* The next n frames of the buffer that do not wrap around, and their removal.
MfcSlice(am, n) == [i \in 1 .. n |-> am.mfcBuf[am.mfcOut + i - 1]]
DropUsed(r) == [r.am EXCEPT !.nMfc = @ - r.used, !.mfcOut = (@ + r.used) % MfcAlloc]

\* What acmod_process_mfcbuf() does with one part of the buffer.
ProcessSlice(am, n) == DropUsed(ProcessCep(am, MfcSlice(am, n)))

\* The part up to the end of the circular buffer, which is not the end of the utterance.
ProcessUpToWrap(am) ==
    LET open == IF am.state = "ended" THEN [am EXCEPT !.state = "processing"] ELSE am
    IN  [ProcessSlice(open, MfcAlloc - am.mfcOut) EXCEPT !.state = am.state]

\* acmod_process_mfcbuf()
ProcessRest(am) == ProcessSlice(am, am.nMfc)
ProcessMfcBuf(am) ==
    ProcessRest(IF am.mfcOut + am.nMfc > MfcAlloc THEN ProcessUpToWrap(am) ELSE am)

\* acmod_process_raw(), up to its call of acmod_process_mfcbuf(): the circular buffer is
\* filled in parts that do not wrap around, until it is full or the front end has no
\* more frames.  r is the acmod, the samples left, the cepstra made of the others and
\* whether there are no more.
FillPart(r, room, voiced) ==
    LET c == ProcessFrames(r.am.fe, r.spch, room, voiced)
    IN  [am |-> PutMfc([r.am EXCEPT !.fe = c.fe], c.out),
         spch |-> LastOf(r.spch, Len(r.spch) - c.used),
         ceps |-> r.ceps \o c.out, done |-> c.out = <<>>]

InMfcPtr(am) == (am.mfcOut + am.nMfc) % MfcAlloc
Wraps(r) == ~r.done /\ InMfcPtr(r.am) > r.am.nMfc

FillRound(r, voiced) == IF Wraps(r) THEN FillPart(r, MfcAlloc - InMfcPtr(r.am), voiced) ELSE r

\* The loop over the parts that do not wrap around, by its rounds.
FillRounds(am, spch, voiced) ==
    LET r[i \in 0 .. MfcAlloc + 1] ==
            IF i = 0 THEN [am |-> am, spch |-> spch, ceps |-> <<>>, done |-> FALSE]
            ELSE FillRound(r[i - 1], voiced)
    IN  r

FillMfcBuf(am, spch, voiced) ==
    LET r == FillRounds(am, spch, voiced)[MfcAlloc + 1]
    IN  IF r.done THEN r ELSE FillPart(r, MfcAlloc - r.am.nMfc, voiced)

ProcessRaw(am, spch, voiced) ==
    LET r == FillMfcBuf(am, spch, voiced)
    IN  [r EXCEPT !.am = ProcessMfcBuf(@)]

\* acmod_end_utt()
EndUtt(am, voiced) ==
    LET ended == [am EXCEPT !.state = "ended"]
        last == FeEndUtt(am.fe, voiced)
        flushed == [ended EXCEPT !.fe = last.fe]
    IN  IF am.nMfc = MfcAlloc THEN ended
        ELSE IF last.out = <<>> THEN flushed
        ELSE ProcessMfcBuf(PutMfc(flushed, last.out))

-----------------------------------------------------------------------------
(* Scoring.                                                                *)

\* calc_frame_idx(): a negative index counts from the frame after the output frame.
FrameIdx(am, idx) == IF idx < 0 THEN am.output + 1 + idx ELSE idx

\* calc_feat_idx(): only frames that have not been overwritten can be scored.
InQueue(am, frame) == frame >= 0 /\ am.output - frame <= am.nAlloc - am.nFeat
FeatIdx(am, frame) == (am.featOut + frame - am.output) % am.nAlloc

\* acmod_score(): scores are kept, and used again when all senones are computed.
Reuses(am, compallsen, frame) == compallsen /\ frame = am.senscr

CanScore(am, compallsen, idx) ==
    Reuses(am, compallsen, FrameIdx(am, idx)) \/ InQueue(am, FrameIdx(am, idx))

Score(am, compallsen, idx) ==
    IF Reuses(am, compallsen, FrameIdx(am, idx)) THEN am
    ELSE [am EXCEPT !.senscr = FrameIdx(am, idx),
                    !.scores = am.featBuf[FeatIdx(am, FrameIdx(am, idx))]]

\* acmod_advance()
Advance(am) ==
    [am EXCEPT !.featOut = IF @ + 1 = am.nAlloc THEN 0 ELSE @ + 1,
               !.nFeat = @ - 1, !.output = @ + 1]

\* acmod_rewind()
CanRewind(am) == am.output <= am.nAlloc
Rewind(am) ==
    [am EXCEPT !.nFeat = am.output + am.nFeat, !.featOut = 0, !.output = 0, !.senscr = -1]
=============================================================================
