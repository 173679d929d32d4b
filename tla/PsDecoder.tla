----------------------------- MODULE PsDecoder ------------------------------
(***************************************************************************)
(* An utterance in pocketsphinx: ps_start_utt(), ps_process_raw() or       *)
(* ps_process_cep(), ps_end_utt() of pocketsphinx.c over the acoustic      *)
(* model of PsAcmod.  A phone loop may run plWindow frames ahead of the    *)
(* main search, and a second pass of the main search may read the          *)
(* utterance again (ngram_search_finish()).                                *)
(*                                                                         *)
(* The caller chooses how an utterance is cut into calls;                  *)
(* ps_search_forward() is a step per frame.  Each sample is told by its    *)
(* utterance and its place in it, a cepstrum by its samples and a feature  *)
(* by its cepstra, so that what a search has scored can be compared with   *)
(* the signal.                                                             *)
(***************************************************************************)
EXTENDS PsAcmod

CONSTANTS
    PlWindows,  \* values of -pl_window to try
    Modes,      \* ways to feed an utterance: "raw", "cep", "full"
    Voices,     \* which frames of an utterance are voiced
    SampChunks, \* samples in a call of ps_process_raw()
    MaxChunk,   \* frames of cepstra in a call of ps_process_cep()
    MaxSamps,   \* bound: samples in an utterance
    MaxUtts     \* bound: utterances

ASSUME DecoderAssumption ==
    /\ PlWindows \subseteq Nat /\ Voices \subseteq [1 .. MaxSamps -> BOOLEAN]
    /\ Modes \subseteq {"raw", "cep", "full"}
    /\ SampChunks \subseteq Nat \ {0}
    /\ MaxChunk \in Nat /\ MaxUtts \in Nat
    /\ MaxSamps \in Nat /\ MaxSamps >= FrameSize

\* No call gives more cepstra than fit when it is the first of an utterance:
\* ps_test.c gives them one by one, batch.c whole utterances.
ShortCalls == MaxChunk <= 3 * Win + 1

VARIABLES
    plWindow,   \* ps->pl_window; the phone loop is there when it is not 0
    twoPass,    \* -fwdtree and -fwdflat: the feature buffer grows
    compallsen, \* -compallsen
    am,         \* ps->acmod
    pc,         \* where the caller is
    mode,       \* how this utterance is fed
    noSearch,   \* no_search of its calls: it is only searched at its end
    voiced,     \* which of its frames are voiced
    utt,        \* number of this utterance
    chunk,      \* data: what is left of this call
    fed,        \* how much has been given to calls, samples or cepstra
    ceps,       \* history: cepstra of this utterance that acmod has taken
    start,      \* history: what its first call gave
    looped,     \* history: what the phone loop scored in it
    searched,   \* history: what the main search scored in it
    again       \* history: what its second pass scored

config == <<plWindow, twoPass, compallsen>>
source == <<mode, noSearch, voiced, utt>>
input == <<chunk, fed, ceps, start>>
history == <<looped, searched, again>>
vars == <<config, am, pc, source, input, history>>

Init ==
    /\ plWindow \in PlWindows
    /\ twoPass \in BOOLEAN
    /\ compallsen \in BOOLEAN
    /\ am = SetGrow(AcmodInit(plWindow), twoPass)
    /\ pc = "idle"
    /\ mode = "none" /\ noSearch = FALSE /\ voiced = <<>>
    /\ utt = 0
    /\ chunk = <<>> /\ fed = 0 /\ ceps = <<>> /\ start = "pending"
    /\ looped = <<>> /\ searched = <<>> /\ again = <<>>

\* The samples of this utterance, and the cepstra of all of it.
Signal(n) == [i \in 1 .. n |-> utt * MaxSamps + i]
MaxCeps == (MaxSamps - FrameSize) \div FrameShift + 1
AllCeps == [k \in 1 .. MaxCeps |-> FrameOf(Signal(MaxSamps), k)]

\* ps_start_utt()
StartUtt ==
    /\ pc \in {"idle", "done"}
    /\ utt < MaxUtts
    /\ am' = StartedUtt(am)
    /\ pc' = "open"
    /\ utt' = utt + 1
    /\ mode' \in Modes /\ noSearch' \in BOOLEAN
    /\ voiced' \in IF mode' = "raw" THEN Voices ELSE {<<>>}
    /\ chunk' = <<>> /\ fed' = 0 /\ ceps' = <<>> /\ start' = "pending"
    /\ looped' = <<>> /\ searched' = <<>> /\ again' = <<>>
    /\ UNCHANGED config

\* How much a call gives.  With a phone loop no more cepstra than the front end
\* would, or those of one call overwrite the features the main search is behind.
Gives ==
    LET upto(n, m) == 1 .. NoMoreThan(n, m)
    IN  CASE mode = "raw"  -> {n \in SampChunks : fed + n <= MaxSamps}
          [] mode = "cep"  -> upto(IF plWindow = 0 THEN MaxChunk ELSE MfcAlloc, MaxCeps - fed)
          [] mode = "full" -> IF fed = 0 THEN 1 .. MaxCeps ELSE {}

\* ps_process_raw() or ps_process_cep() is called.
Process ==
    /\ pc = "open"
    /\ \E n \in Gives :
        /\ chunk' = SubSeq(IF mode = "raw" THEN Signal(MaxSamps) ELSE AllCeps, fed + 1, fed + n)
        /\ fed' = fed + n
    /\ am' = IF noSearch THEN SetGrow(am, TRUE) ELSE am
    /\ pc' = "process"
    /\ UNCHANGED <<config, source, ceps, start, history>>

\* The first call of the utterance is the one that counts.
StartedBy(call) == IF start = "pending" THEN call ELSE start

\* A round of their loop begins.
Took(r, cepstra, left) ==
    /\ am' = r.am
    /\ ceps' = ceps \o cepstra
    /\ chunk' = left
    /\ start' = StartedBy(IF cepstra = <<>> THEN "empty" ELSE "given")

Acmod ==
    \/ /\ mode = "raw"
       /\ LET r == ProcessRaw(am, chunk, voiced) IN Took(r, r.ceps, r.spch)
    \/ /\ mode = "cep"
       /\ LET r == ProcessCep(am, chunk)
          IN  Took(r, FirstOf(chunk, r.used), LastOf(chunk, Len(chunk) - r.used))
    \/ /\ mode = "full"
       /\ Took([am |-> ProcessFullCep(am, chunk)], chunk, <<>>)

\* acmod_process_raw(), acmod_process_cep() with and without full_utt.
ProcessSome ==
    /\ pc = "process" /\ chunk # <<>>
    /\ Acmod
    /\ pc' = IF noSearch THEN "process" ELSE "forward"
    /\ UNCHANGED <<config, source, fed, history>>

\* ps_process_raw() or ps_process_cep() returns.
ProcessDone ==
    /\ pc = "process" /\ chunk = <<>>
    /\ pc' = "open"
    /\ UNCHANGED <<config, am, source, input, history>>

\* A step of a search: what it scored goes to its history, and nothing if the
\* frame cannot be scored (ngram_fwdtree_search() then returns 0).
Scored(a, idx, seen) ==
    IF CanScore(a, compallsen, idx)
    THEN Append(seen, [frame |-> FrameIdx(a, idx), feat |-> Score(a, compallsen, idx).scores])
    ELSE seen
AfterScore(a, idx) == IF CanScore(a, compallsen, idx) THEN Score(a, compallsen, idx) ELSE a

\* What the phone loop leaves behind.
AfterLoop == IF plWindow > 0 THEN AfterScore(am, am.output) ELSE am

\* One round of ps_search_forward(): the phone loop, the main search once it is
\* plWindow frames behind, the next frame.
Forward ==
    /\ pc \in {"forward", "flush"}
    /\ am.nFeat > 0
    /\ looped' = IF plWindow > 0 THEN Scored(am, am.output, looped) ELSE looped
    /\ IF am.output >= plWindow
       THEN /\ searched' = Scored(AfterLoop, am.output - plWindow, searched)
            /\ am' = Advance(AfterScore(AfterLoop, am.output - plWindow))
       ELSE /\ am' = Advance(AfterLoop)
            /\ UNCHANGED searched
    /\ UNCHANGED <<config, pc, source, input, again>>

\* ps_search_forward() returns to ps_process_raw() or ps_process_cep().
ForwardDone ==
    /\ pc = "forward" /\ am.nFeat = 0
    /\ pc' = "process"
    /\ UNCHANGED <<config, am, source, input, history>>

\* ps_end_utt() starts with acmod_end_utt().
EndOfUtt ==
    /\ pc = "open"
    /\ am' = EndUtt(am, voiced)
    /\ ceps' = ceps \o FeEndUtt(am.fe, voiced).out
    /\ pc' = "flush"
    /\ UNCHANGED <<config, source, chunk, fed, start, history>>

\* Mutant: the frames of the window are forgotten.
NoLookaheadFrames == <<>>

\* The frames of the lookahead window, by their numbers.
LookaheadFrames == [i \in 1 .. plWindow |-> am.output - plWindow + i - 1]

\* A frame of it is searched.
LookaheadRound(r, idx) == [am |-> AfterScore(r.am, idx), seen |-> Scored(r.am, idx, r.seen)]

\* The acoustic model and what was searched after each of them.
LookaheadRounds ==
    LET r[i \in 0 .. Len(LookaheadFrames)] ==
            IF i = 0 THEN [am |-> am, seen |-> searched]
            ELSE LookaheadRound(r[i - 1], LookaheadFrames[i])
    IN  r

SearchLookahead ==
    /\ pc = "flush" /\ am.nFeat = 0
    /\ searched' = LookaheadRounds[Len(LookaheadFrames)].seen
    /\ am' = LookaheadRounds[Len(LookaheadFrames)].am
    /\ pc' = "finish"
    /\ UNCHANGED <<config, source, input, looped, again>>

\* ngram_search_finish(): a single pass is done, a second one rewinds.
Finish ==
    /\ pc = "finish"
    /\ IF twoPass /\ CanRewind(am)
       THEN pc' = "again" /\ am' = Rewind(am)
       ELSE pc' = "done" /\ UNCHANGED am
    /\ UNCHANGED <<config, source, input, history>>

SecondPass ==
    /\ pc = "again" /\ am.nFeat > 0
    /\ again' = Scored(am, Len(again), again)
    /\ am' = Advance(AfterScore(am, Len(again)))
    /\ UNCHANGED <<config, pc, source, input, looped, searched>>

SecondPassDone ==
    /\ pc = "again" /\ am.nFeat = 0
    /\ pc' = "done"
    /\ UNCHANGED <<config, am, source, input, history>>

Next ==
    \/ StartUtt \/ Process \/ ProcessSome \/ ProcessDone \/ EndOfUtt
    \/ Forward \/ ForwardDone \/ SearchLookahead \/ Finish \/ SecondPass \/ SecondPassDone

Spec == Init /\ [][Next]_vars
-----------------------------------------------------------------------------
\* No buffer holds more than its size or is used outside it.
TypeOK ==
    /\ am.nMfc \in 0 .. MfcAlloc /\ am.mfcOut \in 0 .. MfcAlloc - 1
    /\ am.nFeat \in 0 .. am.nAlloc /\ am.featOut \in 0 .. am.nAlloc - 1
    /\ DOMAIN am.featBuf = 0 .. am.nAlloc - 1
    /\ am.fcb.bufpos \in 0 .. BlockSize - 1 /\ am.fcb.curpos \in 0 .. BlockSize - 1
    /\ pc \in {"idle", "open", "process", "forward", "flush", "finish", "again", "done"}
    /\ utt \in 0 .. MaxUtts

\* What the front end has given the decoder, and the start of speech it still holds
\* back for lack of room, are the frames of the signal that are speech, whole and in
\* order, however the samples were cut into calls and whatever room each call had.
\* Only the end of the utterance loses what is held back, and only of speech that began
\* with one of the last two frames.
SpeechOfTheSignal ==
    LET n == am.fe.nframe
        speech == SpeechFrames(Signal(fed - Len(chunk)), voiced, n)
        but(lost, last) == FirstOf(speech, Len(speech) - lost - last) \o LastOf(speech, last)
    IN  mode = "raw" =>
          IF pc \in {"open", "process", "forward"} THEN ceps \o Held(am.fe) = speech
          ELSE \E lost \in 0 .. PrespchLen, last \in {0, 1} :
                  /\ lost + last <= Len(speech) /\ ceps = but(lost, last)
                  /\ lost > 0 => \E k \in {n - 1, n} : SpeechBegins(voiced, k)

\* The cepstra a feature should come from, the first and last repeated.
Window(frame) == BlockFeature(ceps, frame + 1)

\* Shorter than the lookahead window: ps_end_utt() then passes negative
\* numbers, which acmod_score() takes for something else.
TooShort == am.output < plWindow

\* Every score comes from the window of cepstra around the frame it was asked for,
\* whatever the buffers had in them and however the utterance was cut.  Left out are
\* the first frames of an utterance whose first call made none.
ScoresTheFrame ==
    \/ TooShort
    \/ \A s \in ToSet(looped \o searched \o again) :
           \/ start = "empty" /\ s.frame < Win
           \/ s.feat = Window(s.frame)

\* Without exception, as feat.c has the first frame replicated "if we're at the
\* beginning of the utterance and there was some actual input to deal with".
FirstFramesToo ==
    TooShort \/ \A s \in ToSet(looped \o searched) : s.feat = Window(s.frame)

\* test_acmod.c gives the cepstra of an utterance in one call that is not said to
\* be all of it, to "make sure we get the same results" as from all of it.
SameResults == mode = "cep" /\ ~TooShort => \A s \in ToSet(searched) : s.feat = Window(s.frame)

\* The main search sees frames in order and leaves none out, though it is behind the
\* output and the buffer goes around.  At its end it has scored every cepstrum, or all
\* but the window that no last frame flushed; a buffer that goes around may also lose
\* that last frame, one that grows for a second pass never does.
SearchesAllInOrder ==
    LET but(n) == IF Len(ceps) > n THEN Len(ceps) - n ELSE 0
    IN  ~TooShort =>
          /\ \A i \in DOMAIN searched : searched[i].frame = i - 1
          /\ pc \in {"finish", "again", "done"} =>
                /\ Len(searched) \in {but(0), but(Win)} \cup (IF twoPass THEN {} ELSE {but(Win + 1)})
                /\ mode = "full" => Len(searched) = but(0)

\* The second pass scores the same frames from the same cepstra as the first.
SecondPassAgrees ==
    /\ twoPass /\ ~TooShort => IsPrefix(again, searched)
    /\ twoPass /\ pc = "done" /\ ~TooShort => again = searched
=============================================================================
