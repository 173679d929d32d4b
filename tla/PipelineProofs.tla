---------------------------- MODULE PipelineProofs ----------------------------
(***************************************************************************)
(* Proofs about the two passes of the decoder, on one feature buffer and   *)
(* linked by an arc buffer, for every window, reference limit and number of*)
(* frames, arcs and utterances.                                            *)
(*                                                                         *)
(* What SyncArrayProofs shows of searches of a feature buffer that are     *)
(* independent of each other holds of these two as soon as each of their   *)
(* steps is a step of FeatBuf: all are, but for a poll for a frame that    *)
(* finds none.  That it finds the frame rests on how the passes take turns *)
(* in the arc buffer.                                                      *)
(***************************************************************************)
EXTENDS Pipeline, FiniteSetTheorems, TLAPS

(* The proofs about FeatBuf; those about other consumers of the array are  *)
(* not used, and their variables stand for any here.                       *)
FBP == INSTANCE SyncArrayProofs WITH
         Consumers <- Searches, MaxItems <- MaxCeps, ReleasesAll <- FALSE,
         cons <- tpc, pos <- fpc, released <- seen

(* What the operations of the arc buffer do is shown in ArcLatticeProofs, by*)
(* lemmas that do not look at who calls them: the variables of that search *)
(* and of latgen stand for any others here.                                *)
ALP == INSTANCE ArcLatticeProofs WITH
         MaxFrames <- MaxCeps, frames <- nth, lastExit <- final, lpc <- fpc, taken <- ceps

(* What SyncArrayProofs assumes of the constants. *)
LEMMA BufferAssumptions ==
  /\ MaxRefcount \in Nat \ {0}
  /\ FBP!IsFiniteSet(Searches) /\ FBP!Cardinality(Searches) < MaxRefcount
  /\ Win \in Nat /\ MaxCeps \in Nat /\ MaxUtts \in Nat /\ FALSE \in BOOLEAN
  <1>1. \A S : FBP!Cardinality(S) = Cardinality(S)
    BY DEF FBP!Cardinality, Cardinality
  <1>2. \A S : FBP!IsFiniteSet(S) = IsFiniteSet(S)
    BY DEF FBP!IsFiniteSet, IsFiniteSet
  <1>3. IsFiniteSet({tree}) /\ Cardinality({tree}) = 1
    BY FS_Singleton
  <1>4. Searches = {tree} \cup {flat} /\ flat \notin {tree}
    BY PipelineAssumption DEF Searches
  <1>5. IsFiniteSet(Searches) /\ Cardinality(Searches) = 2
    BY <1>3, <1>4, FS_AddElement
  <1>6. QED
    BY <1>1, <1>2, <1>5, PipelineAssumption

(* The actions of FeatBuf are what they are in its proofs. *)
LEMMA SameProducer == FB!Produce => FBP!Produce
  BY DEF FB!Produce, FB!StartReset, FB!StartSignal, FB!Tokens, FB!ProcessCep, FB!ProcessFull,
         FB!Drain, FB!EndOfUtt, FB!ProcessFeat, FB!Finalize, FB!Drained, FB!Awaited,
         FB!AwaitRelease, FB!EndReturns, FB!Shutdown, FB!ShutdownFlag, FB!ShutdownSignal,
         FB!SaReset, FB!SaAppend, FB!CanAppend, FB!PastFinal, FB!Unset, FB!SaFinalize,
         FB!FeaturesReady, FB!saVars, FB!producerVars, FB!searchVars,
         FBP!Produce, FBP!StartReset, FBP!StartSignal, FBP!Tokens, FBP!ProcessCep,
         FBP!ProcessFull, FBP!Drain, FBP!EndOfUtt, FBP!ProcessFeat, FBP!Finalize, FBP!Drained,
         FBP!Awaited, FBP!AwaitRelease, FBP!EndReturns, FBP!Shutdown, FBP!ShutdownFlag,
         FBP!ShutdownSignal, FBP!SaReset, FBP!SaAppend, FBP!CanAppend, FBP!PastFinal,
         FBP!Unset, FBP!SaFinalize, FBP!FeaturesReady, FBP!saVars, FBP!producerVars,
         FBP!searchVars

LEMMA SameSearch ==
  ASSUME NEW s \in Searches
  PROVE  /\ FB!Attach(s) => FBP!Attach(s)
         /\ FB!Detach(s) => FBP!Detach(s)
         /\ FB!StartDown(s) => FBP!StartDown(s)
         /\ FB!StartUtt(s) => FBP!StartUtt(s)
         /\ FB!WaitFrame(s) => FBP!WaitFrame(s)
         /\ FB!GetFrame(s) => FBP!GetFrame(s)
         /\ FB!SearchFails(s) => FBP!SearchFails(s)
         /\ FB!EndIndex(s) => FBP!EndIndex(s)
         /\ FB!EndSignal(s) => FBP!EndSignal(s)
  BY DEF FB!Attach, FB!Detach, FB!StartDown, FB!StartUtt, FB!WaitFrame, FB!GetFrame,
         FB!SearchFails, FB!EndIndex, FB!EndSignal, FB!SaRetain, FB!CanRetain, FB!SaFree,
         FB!Held, FB!WaitSucceeds, FB!WaitFails, FB!PastFinal, FB!Unset, FB!GetSucceeds,
         FB!GoTo, FB!saVars, FB!producerVars,
         FBP!Attach, FBP!Detach, FBP!StartDown, FBP!StartUtt, FBP!WaitFrame, FBP!GetFrame,
         FBP!SearchFails, FBP!EndIndex, FBP!EndSignal, FBP!SaRetain, FBP!CanRetain, FBP!SaFree,
         FBP!Held, FBP!WaitSucceeds, FBP!WaitFails, FBP!PastFinal, FBP!Unset, FBP!GetSucceeds,
         FBP!GoTo, FBP!saVars, FBP!producerVars

LEMMA SameRelease ==
  ASSUME NEW s \in Searches
  PROVE  /\ FB!ReleaseFrame(s) => FBP!ReleaseFrame(s)
         /\ FB!EndRelease(s) => FBP!EndRelease(s)
  <1>1. \A from, to : FB!SaRelease(from, to) = FBP!SaRelease(from, to)
    BY DEF FB!SaRelease, FB!Held, FB!Released, FB!IsFirstReachable, FB!CountModulus,
           FBP!SaRelease, FBP!Held, FBP!Released, FBP!IsFirstReachable, FBP!CountModulus
  <1>2. QED
    BY <1>1 DEF FB!ReleaseFrame, FB!EndRelease, FB!GoTo, FB!producerVars,
                FBP!ReleaseFrame, FBP!EndRelease, FBP!GoTo, FBP!producerVars
-----------------------------------------------------------------------------
(* The arc buffer is the one of ArcLatticeProofs. *)
LEMMA SameBuffer ==
  /\ \A S : ALP!Cardinality(S) = Cardinality(S)
  /\ ALP!ActiveArc = ActiveArc
  /\ ALP!AbIInv <=> AbIInv
  /\ ALP!Emptied <=> Emptied
  <1>1. \A S : ALP!Cardinality(S) = Cardinality(S)
    BY DEF ALP!Cardinality, Cardinality
  <1>2. ALP!ActiveArc = ActiveArc
    BY <1>1 DEF ALP!ActiveArc, ActiveArc
  <1>3. ALP!AbIInv <=> AbIInv
    BY <1>1, <1>2 DEF ALP!AbIInv, AbIInv, ALP!AbTypeOK, AbTypeOK, ALP!IsSorted, IsSorted
  <1>4. ALP!Emptied <=> Emptied
    BY DEF ALP!Emptied, Emptied, ALP!EmptyFrom, EmptyFrom
  <1>5. QED
    BY <1>1, <1>2, <1>3, <1>4

LEMMA SameBufferNext == ALP!AbIInv' <=> AbIInv'
  BY SameBuffer, PTL

LEMMA SameDeliver == Deliver(bpSf) => ALP!Deliver(bpSf)
  BY ZenonT(60)
     DEF Deliver, Incoming, FrameStart, ArcPosition, Precedes, NextToScan, ActiveArc, Cardinality,
         ALP!Deliver, ALP!Incoming, ALP!FrameStart, ALP!ArcPosition, ALP!Precedes, ALP!NextToScan,
         ALP!ActiveArc, ALP!Cardinality

LEMMA DeliverEffect ==
  ASSUME AbIInv, Deliver(bpSf), UNCHANGED <<tableVars, arcStart, arcRelease>>,
         state' \in {"INITIAL", "RUNNING", "FINAL", "CANCELED"}
  PROVE  /\ AbIInv'
         /\ sfBase' = sfBase /\ activeSf' = bpSf
         /\ \A p \in DOMAIN arcs : p \in DOMAIN arcs' /\ arcs'[p] = arcs[p]
         /\ \A i \in DOMAIN retired : activeSf <= retired[i] /\ retired[i] < bpSf =>
              \E p \in DOMAIN arcs' : arcs'[p] = i
  <1>1. ALP!AbIInv /\ ALP!Deliver(bpSf)
    BY SameBuffer, SameDeliver
  <1>2. UNCHANGED <<ALP!tableVars, arcStart, arcRelease>>
    BY DEF tableVars, ALP!tableVars
  <1>3. QED
    BY <1>1, <1>2, SameBufferNext, PipelineAssumption, ALP!DeliverEffect

LEMMA ArcReleaseEffect ==
  ASSUME AbIInv, NEW sf \in Nat, sfBase <= sf, sf < activeSf, AbRelease(sf)
  PROVE  /\ AbIInv'
         /\ sfBase' = sf /\ UNCHANGED <<activeSf, tableVars, syncVars>>
         /\ \A p \in DOMAIN arcs' : p \in DOMAIN arcs /\ arcs'[p] = arcs[p]
         /\ \A p \in DOMAIN arcs : p \notin DOMAIN arcs' => retired[arcs[p]] < sf
  <1>1. ALP!AbIInv /\ ALP!ActiveArc = ActiveArc
    BY SameBuffer
  <1>2. ALP!AbRelease(sf)
    BY <1>1 DEF ALP!AbRelease, AbRelease, ALP!ReleaseIsDefined, ReleaseIsDefined,
                ALP!EmptyFrom, EmptyFrom, ALP!tableVars, tableVars, ALP!syncVars, syncVars
  <1>3. QED
    BY <1>1, <1>2, SameBufferNext, PipelineAssumption, ALP!ArcReleaseEffect
       DEF ALP!tableVars, tableVars, ALP!syncVars, syncVars

LEMMA TableGrowth ==
  ASSUME AbIInv, UNCHANGED <<bufVars, syncVars>>,
         NEW n \in Nat, NEW room \in Int,
         \/ TablePush(n, room)
         \/ TableFinalize(n, room)
         \/ TableFinalizeWithoutExit(n)
  PROVE  /\ AbIInv'
         /\ \A i \in DOMAIN retired : i \in DOMAIN retired' /\ retired'[i] = retired[i]
         /\ \A i \in DOMAIN retired' : i \notin DOMAIN retired => activeSf <= retired'[i]
  <1>1. ALP!AbIInv /\ UNCHANGED <<ALP!bufVars, ALP!syncVars>>
    BY SameBuffer DEF ALP!bufVars, bufVars, ALP!syncVars, syncVars
  <1>2. ALP!TablePush(n, room) \/ ALP!TableFinalize(n, room) \/ ALP!TableFinalizeWithoutExit(n)
    BY DEF ALP!TablePush, TablePush, ALP!TableFinalize, TableFinalize,
           ALP!TableFinalizeWithoutExit, TableFinalizeWithoutExit, ALP!tableVars, tableVars
  <1>3. QED
    BY <1>1, <1>2, SameBufferNext, PipelineAssumption, ALP!TableGrowth

LEMMA EmptyBuffer == Emptied => AbIInv
  BY SameBuffer, PipelineAssumption, ALP!EmptyBuffer

LEMMA EmptiedBuffer == Emptied' => AbIInv'
  BY EmptyBuffer, PTL
-----------------------------------------------------------------------------
(* How the passes take turns. *)

(* fwdtree has started the utterance of the arc buffer and has not seen    *)
(* fwdflat give it back.                                                   *)
TreeIn == spc[tree] \in {"wait", "get", "search", "ending"} /\ tpc # "done"

(* fwdflat was let into it and has not given it back. *)
FlatIn == fpc \notin {"start", "arcs", "done"}

(* The two semaphores of the arc buffer pass one token: while fwdtree is in*)
(* the utterance, fwdflat has it, or is yet to take it, or gave it back.   *)
Turns ==
  /\ arcStart \in Nat /\ arcRelease \in Nat
  /\ TreeIn => /\ \/ arcStart = 1 /\ arcRelease = 0 /\ ~FlatIn
                  \/ arcStart = 0 /\ arcRelease = 1 /\ ~FlatIn
                  \/ arcStart = 0 /\ arcRelease = 0 /\ FlatIn
               /\ state \in {"RUNNING", "FINAL"}
  /\ ~TreeIn /\ spc[tree] \notin {"gone", "freed"} =>
       arcStart = 0 /\ arcRelease = 0 /\ ~FlatIn

(* Where each pass is in its own loop, by where it is on the feature       *)
(* buffer.                                                                 *)
Places ==
  /\ spc[tree] \in {"none", "wait", "get", "gone", "freed"} => tpc = "frame"
  /\ spc[tree] \in {"start", "started"} => tpc \in {"frame", "done"}
  /\ spc[tree] = "search" => tpc \in {"push", "sweep", "frame"}
  /\ spc[tree] = "ending" => tpc \in {"frame", "final", "await", "done"}
  /\ spc[tree] \in {"releasing", "signalling"} => tpc = "done"
  /\ spc[flat] \in {"none", "start", "started"} => fpc \in {"start", "done"}
  /\ spc[flat] \in {"gone", "freed"} => fpc = "arcs"
  /\ spc[flat] = "wait" =>
       fpc \in {"arcs", "outer", "test", "choose", "block", "poll", "release"}
  /\ spc[flat] = "get" => fpc = "expand"
  /\ spc[flat] = "search" => fpc \in {"expand", "search"}
  /\ spc[flat] = "ending" => fpc \in {"expand", "done"}
  /\ spc[flat] \in {"releasing", "signalling"} => fpc = "done"

(* No pass reads past the features. *)
ReadsWithin ==
  \A s \in Searches : spc[s] \in {"wait", "get", "search", "ending"} => output[s] <= next

(* The frame fwdflat is at, and the window it has found the arcs of.       *)
FlatAt ==
  /\ frameIdx \in Nat /\ endWin \in Nat
  /\ spc[flat] = "wait" => output[flat] = IF fpc = "release" THEN frameIdx + 1 ELSE frameIdx
  /\ spc[flat] = "get" => output[flat] = frameIdx
  /\ spc[flat] = "search" => output[flat] = frameIdx + 1
  /\ fpc \in {"test", "choose", "block", "poll"} =>
       frameIdx + SfWin - 1 <= endWin /\ 1 <= endWin
  /\ fpc \in {"search", "release"} => endWin = frameIdx + SfWin
  /\ fpc = "choose" /\ ~Eou => endWin <= activeSf
  /\ fpc = "poll" => frameIdx < next
  /\ fpc = "block" => Eou
  /\ fpc \in {"poll", "expand", "search", "release"} /\ spc[flat] # "ending" /\ ~Eou =>
       frameIdx + SfWin - 1 <= activeSf

(* A frame is swept one frame after it was read at the earliest. *)
Behind(sf) == sf = 0 \/ sf < output[tree]

TreeSearches == spc[tree] \in {"wait", "get", "search"} \/ (spc[tree] = "ending" /\ tpc = "frame")

SweepLags ==
  /\ sfBase \in Nat /\ activeSf \in Nat /\ bpSf \in Nat /\ activeSf <= bpSf
  /\ retired \in Seq(Nat)
  /\ TreeSearches => Behind(bpSf) /\ ~Eou
  /\ TreeIn => bpSf <= output[tree]
  /\ TreeIn /\ ~Eou => Behind(activeSf)
  /\ tpc = "final" => ~Eou

IInv == FBP!IInv /\ Turns /\ Places /\ ReadsWithin /\ FlatAt /\ SweepLags
-----------------------------------------------------------------------------
(* What the feature buffer keeps, as far as the passes rest on it. *)
LEMMA BufferKeeps ==
  ASSUME FBP!IInv
  PROVE  /\ spc \in [Searches -> {"none", "start", "gone", "freed", "started", "wait", "get",
                                  "search", "ending", "releasing", "signalling"}]
         /\ output \in [Searches -> Nat] /\ next \in Nat /\ failed \in [Searches -> BOOLEAN]
         /\ tree \in Searches /\ flat \in Searches
         /\ \A s \in Searches :
              /\ spc[s] \in {"wait", "get", "search", "ending", "releasing", "signalling"} =>
                   ppc \in {"open", "draining", "awaiting"}
              /\ spc[s] \in {"gone", "freed"} => ppc = "stopped"
              /\ spc[s] = "get" => output[s] < next
              /\ spc[s] = "search" => output[s] > 0
              /\ spc[s] = "ending" /\ ~failed[s] => final = next
         /\ ppc \in {"open", "draining"} => final = -1
  <1>1. /\ spc \in [Searches -> FBP!Outside \cup FBP!Inside]
        /\ output \in [Searches -> Nat] /\ next \in Nat /\ failed \in [Searches -> BOOLEAN]
    BY DEF FBP!IInv, FBP!TypeOK, FBP!SaTypeOK
  <1>2. FBP!Outside \cup FBP!Inside =
          {"none", "start", "gone", "freed", "started", "wait", "get",
           "search", "ending", "releasing", "signalling"}
    BY DEF FBP!Outside, FBP!Inside
  <1>3. QED
    BY <1>1, <1>2
       DEF FBP!IInv, FBP!FramesRead, FBP!TokensAccounted, FBP!FramesAccounted, FBP!InUtterance,
           FBP!Unset, Searches

(* fwdflat is in the utterance only while fwdtree is. *)
LEMMA FlatInsideTree ==
  ASSUME FBP!IInv, Turns, Places
  PROVE  /\ FlatIn => TreeIn /\ arcStart = 0 /\ arcRelease = 0
         /\ spc[flat] \in {"wait", "get", "search", "ending"} => spc[tree] \notin {"gone", "freed"}
         /\ FlatIn => fpc \in {"outer", "test", "choose", "block", "poll", "release",
                               "expand", "search"}
  <1>1. spc[flat] \in {"wait", "get", "search", "ending"} => spc[tree] \notin {"gone", "freed"}
    BY BufferKeeps
  <1>2. FlatIn => spc[flat] \in {"wait", "get", "search", "ending"}
    BY BufferKeeps DEF FlatIn, Places
  <1>3. FlatIn => fpc \in {"outer", "test", "choose", "block", "poll", "release",
                           "expand", "search"}
    BY <1>2 DEF FlatIn, Places
  <1>4. QED
    BY <1>1, <1>2, <1>3 DEF Turns
-----------------------------------------------------------------------------
(* What the steps keep. *)

Linked == Turns /\ Places /\ ReadsWithin /\ FlatAt /\ SweepLags

(* The poll for a frame finds it. *)
LEMMA PollSucceeds ==
  ASSUME IInv, spc[flat] = "wait"
  PROVE  ~PollFails
  BY BufferKeeps DEF IInv, FlatAt, PollFails, FB!WaitSucceeds

(* Every step of the passes on the feature buffer is one of FeatBuf. *)
LEMMA StepsOfFeatBuf ==
  ASSUME ~FlatMayFail, IInv, [Next]_vars
  PROVE  [FBP!Next]_(FBP!vars)
  <1>1. CASE Producer
    BY <1>1, SameProducer DEF Producer, FBP!Next
  <1>2. ASSUME NEW s \in Searches, Attach(s) \/ Detach(s)
        PROVE  FBP!Next
    BY <1>2, SameSearch DEF Attach, Detach, FBP!Next
  <1>3. tree \in Searches /\ flat \in Searches
    BY DEF Searches
  <1>4. UNCHANGED fbVars => UNCHANGED FBP!vars
    BY DEF fbVars, saVars, fbOtherVars, FBP!vars, FBP!saVars, FBP!producerVars, FBP!searchVars
  <1>5. CASE Tree \/ TreeFails
    <2>1. CASE TreeDown \/ TreeStart \/ TreeWait \/ TreeGet \/ TreeSearched \/ TreeEnd \/ TreeFails
      BY <1>3, <2>1, SameSearch, SameRelease
         DEF TreeDown, TreeStart, TreeWait, TreeGet, TreeSearched, TreeEnd, TreeFails,
             FBP!Next, FBP!Search
    <2>2. CASE TreePush \/ TreeSweep \/ TreeFinalize \/ TreeEndArcs \/ TreeAwaitFlat
      BY <1>4, <2>2 DEF TreePush, TreeSweep, TreeFinalize, TreeEndArcs, TreeAwaitFlat
    <2>3. QED
      BY <1>5, <2>1, <2>2 DEF Tree
  <1>6. CASE Flat
    <2>1. CASE FlatDown \/ FlatStart \/ FlatGet \/ FlatSearched \/ FlatEnd
      BY <1>3, <2>1, SameSearch, SameRelease
         DEF FlatDown, FlatStart, FlatGet, FlatSearched, FlatEnd, FBP!Next, FBP!Search
    <2>2. CASE FlatWait
      BY <1>3, <2>2, SameSearch, PollSucceeds DEF FlatWait, FBP!Next, FBP!Search
    <2>3. CASE FlatStartArcs \/ FlatWaitArcs \/ FlatTest \/ FlatChoose \/ FlatExpand
               \/ FlatReleaseArcs \/ FlatEndArcs
      BY <1>4, <2>3 DEF FlatStartArcs, FlatWaitArcs, FlatTest, FlatChoose, FlatExpand,
                        FlatReleaseArcs, FlatEndArcs
    <2>4. QED
      BY <1>6, <2>1, <2>2, <2>3 DEF Flat
  <1>7. CASE FlatFails
    BY <1>7 DEF FlatFails
  <1>8. CASE FlatWakesSpuriously \/ Stopped \/ UNCHANGED vars
    BY <1>4, <1>8
       DEF FlatWakesSpuriously, Stopped, FB!Stopped, FB!vars, FB!saVars, FB!producerVars,
           FB!searchVars, fbVars, saVars, fbOtherVars, vars
  <1>9. QED
    BY <1>1, <1>2, <1>5, <1>6, <1>7, <1>8 DEF Next

LEMMA BufferStep ==
  ASSUME ~FlatMayFail, IInv, [Next]_vars
  PROVE  FBP!IInv'
  BY StepsOfFeatBuf, BufferAssumptions, FBP!NextIInv DEF IInv

(* The producer only makes frames, but for the reset when no pass is in an *)
(* utterance.                                                              *)
LEMMA ProducerStep ==
  ASSUME IInv, Producer
  PROVE  Linked'
  <1>1. /\ UNCHANGED <<spc, output, abVars, tpc, flatVars>>
        /\ next \in Nat /\ (next' = next \/ next' = next + 1 \/ (ppc = "idle" /\ next' = 0))
    BY BufferKeeps
       DEF Producer, IInv, FB!Produce, FB!StartReset, FB!StartSignal, FB!ProcessCep,
           FB!ProcessFull, FB!Drain, FB!EndOfUtt, FB!ProcessFeat, FB!Finalize,
           FB!AwaitRelease, FB!EndReturns, FB!Shutdown, FB!ShutdownFlag, FB!ShutdownSignal,
           FB!SaReset, FB!SaAppend, FB!SaFinalize, FB!saVars, FB!producerVars, FB!searchVars
  <1>2. \A s \in Searches : spc[s] \in {"wait", "get", "search", "ending"} => next <= next'
    BY <1>1, BufferKeeps DEF IInv
  <1>3. Turns' /\ Places' /\ SweepLags'
    BY <1>1 DEF IInv, Turns, Places, SweepLags, TreeIn, FlatIn, TreeSearches, Behind, Eou,
                abVars, tableVars, bufVars, syncVars, flatVars
  <1>4. ReadsWithin' /\ next' \in Nat
    BY <1>1, <1>2, BufferKeeps DEF IInv, ReadsWithin
  <1>5. FlatAt'
    <2>1. fpc = "poll" => spc[flat] = "wait"
      BY BufferKeeps DEF IInv, Places
    <2>2. fpc' = "poll" => frameIdx' < next'
      BY <1>1, <1>2, <2>1, BufferKeeps DEF IInv, FlatAt, flatVars
    <2>3. QED
      BY <1>1, <2>2 DEF IInv, FlatAt, Eou, abVars, bufVars, syncVars, flatVars
  <1>6. QED
    BY <1>3, <1>4, <1>5 DEF Linked

(* The references are taken before the first utterance and given back after*)
(* the last.                                                               *)
LEMMA AttachStep ==
  ASSUME IInv, NEW s \in Searches, Attach(s) \/ Detach(s)
  PROVE  Linked'
  <1>1. /\ UNCHANGED <<output, next, abVars, tpc, flatVars>>
        /\ \/ spc[s] = "none" /\ spc' = [spc EXCEPT ![s] = "start"]
           \/ spc[s] = "gone" /\ spc' = [spc EXCEPT ![s] = "freed"]
    BY DEF Attach, Detach, FB!Attach, FB!Detach, FB!GoTo, FB!SaRetain, FB!SaFree, FB!producerVars
  <1>2. /\ \A t \in Searches \ {s} : spc'[t] = spc[t]
        /\ \/ spc[s] = "none" /\ spc'[s] = "start"
           \/ spc[s] = "gone" /\ spc'[s] = "freed"
    BY <1>1, BufferKeeps DEF IInv
  <1>3. tree \in Searches /\ flat \in Searches
    BY DEF Searches
  <1>4. Turns' /\ Places' /\ SweepLags'
    BY <1>1, <1>2, <1>3
       DEF IInv, Turns, Places, SweepLags, TreeIn, FlatIn, TreeSearches, Behind, Eou,
           abVars, tableVars, bufVars, syncVars, flatVars
  <1>5. ReadsWithin' /\ FlatAt'
    BY <1>1, <1>2, <1>3
       DEF IInv, ReadsWithin, FlatAt, Eou, abVars, bufVars, syncVars, flatVars
  <1>6. QED
    BY <1>4, <1>5 DEF Linked

(* A step of fwdtree on the feature buffer moves no one else. *)
TreeAlone ==
  /\ \A s \in Searches \ {tree} : spc'[s] = spc[s] /\ output'[s] = output[s]
  /\ UNCHANGED <<next, flatVars>>

LEMMA TreeKeepsFlat ==
  ASSUME IInv, TreeAlone, activeSf' \in Nat, FlatIn => activeSf <= activeSf' /\ (Eou => Eou')
  PROVE  FlatAt'
  <1>1. /\ UNCHANGED <<fpc, frameIdx, endWin, next>>
        /\ spc'[flat] = spc[flat] /\ output'[flat] = output[flat]
    BY PipelineAssumption DEF TreeAlone, flatVars, Searches
  <1>2. activeSf \in Nat /\ frameIdx \in Nat /\ endWin \in Nat /\ SfWin \in Nat
    BY PipelineAssumption DEF IInv, SweepLags, FlatAt
  <1>3. (fpc = "choose" /\ ~Eou => endWin <= activeSf)'
    BY <1>1, <1>2 DEF IInv, FlatAt, FlatIn
  <1>4. (fpc \in {"poll", "expand", "search", "release"} /\ spc[flat] # "ending" /\ ~Eou =>
           frameIdx + SfWin - 1 <= activeSf)'
    BY <1>1, <1>2 DEF IInv, FlatAt, FlatIn
  <1>5. (fpc = "block" => Eou)'
    BY <1>1 DEF IInv, FlatAt, FlatIn
  <1>6. QED
    BY <1>1, <1>3, <1>4, <1>5 DEF IInv, FlatAt

(* fwdtree in its loop over the frames, and where it waits to start and    *)
(* ends.                                                                   *)
LEMMA TreeReadStep ==
  ASSUME IInv, TreeDown \/ TreeWait \/ TreeGet \/ TreeSearched \/ TreeFails \/ TreeEnd
  PROVE  Linked'
  <1>1. /\ UNCHANGED <<next, abVars, flatVars>>
        /\ \E where : spc' = [spc EXCEPT ![tree] = where]
        /\ output' = output \/ output' = [output EXCEPT ![tree] = output[tree] + 1]
    BY DEF TreeDown, TreeWait, TreeGet, TreeSearched, TreeFails, TreeEnd,
           FB!StartDown, FB!WaitFrame, FB!GetFrame, FB!ReleaseFrame, FB!SearchFails,
           FB!EndIndex, FB!EndRelease, FB!EndSignal, FB!GoTo, FB!SaRelease, FB!saVars, flatVars
  <1>2. TreeAlone
    BY <1>1, BufferKeeps DEF IInv, TreeAlone
  <1>3. /\ tree \in Searches /\ output[tree] \in Nat /\ next \in Nat
        /\ spc[tree] = "get" => output[tree] < next
        /\ spc[tree] \in {"wait", "get", "search", "ending"} => output[tree] <= next
    BY BufferKeeps DEF IInv, ReadsWithin
  <1>4. \/ spc[tree] = "start" /\ spc'[tree] = "started" /\ tpc' = tpc /\ output'[tree] = output[tree]
        \/ spc[tree] = "wait" /\ spc'[tree] \in {"get", "ending"} /\ tpc' = tpc
           /\ output'[tree] = output[tree]
        \/ spc[tree] = "get" /\ spc'[tree] = "search" /\ tpc' = "push"
           /\ output'[tree] = output[tree] + 1
        \/ spc[tree] = "search" /\ tpc = "frame" /\ spc'[tree] \in {"wait", "ending"}
           /\ tpc' = tpc /\ output'[tree] = output[tree]
        \/ spc[tree] \in {"ending", "releasing", "signalling"} /\ tpc = "done" /\ tpc' = tpc
           /\ spc'[tree] \in {"releasing", "signalling", "start"} /\ output'[tree] = output[tree]
    BY BufferKeeps
       DEF IInv, TreeDown, TreeWait, TreeGet, TreeSearched, TreeFails, TreeEnd,
           FB!StartDown, FB!WaitFrame, FB!GetFrame, FB!ReleaseFrame, FB!SearchFails,
           FB!EndIndex, FB!EndRelease, FB!EndSignal, FB!GoTo
  <1>5. Turns' /\ Places'
    BY <1>1, <1>2, <1>4, PipelineAssumption
       DEF IInv, Turns, Places, TreeIn, FlatIn, TreeAlone, Searches,
           abVars, syncVars, flatVars
  <1>6. ReadsWithin'
    BY <1>2, <1>3, <1>4 DEF IInv, ReadsWithin, TreeAlone
  <1>7. FlatAt'
    BY <1>1, <1>2, TreeKeepsFlat DEF IInv, SweepLags, Eou, abVars, bufVars, syncVars
  <1>8. SweepLags'
    BY <1>1, <1>3, <1>4 DEF IInv, Places, SweepLags, TreeIn, TreeSearches, Behind, Eou,
                            abVars, tableVars, bufVars, syncVars
  <1>9. QED
    BY <1>5, <1>6, <1>7, <1>8 DEF Linked
(* The arc buffer is reset while fwdflat is not in it. *)
LEMMA TreeStartStep ==
  ASSUME IInv, TreeStart
  PROVE  Linked'
  <1>1. /\ spc[tree] = "started" /\ tpc' = "frame" /\ UNCHANGED <<next, flatVars>>
        /\ spc' = [spc EXCEPT ![tree] = IF canceled THEN "gone" ELSE "wait"]
        /\ output' = [output EXCEPT ![tree] = 0]
        /\ IF canceled THEN AbShutdown ELSE AbStartUtt
    BY DEF TreeStart, FB!StartUtt, FB!GoTo, FB!saVars
  <1>2. /\ TreeAlone /\ tree \in Searches /\ tree # flat
        /\ spc'[tree] = IF canceled THEN "gone" ELSE "wait"
        /\ output'[tree] = 0 /\ next \in Nat
    BY <1>1, BufferKeeps, PipelineAssumption DEF IInv, TreeAlone
  <1>3. ~TreeIn /\ ~FlatIn /\ arcStart = 0 /\ arcRelease = 0
    BY <1>1 DEF IInv, Turns, TreeIn
  <1>4. /\ ~canceled => /\ arcStart' = 1 /\ arcRelease' = 0 /\ state' = "RUNNING"
                        /\ activeSf' = 0 /\ sfBase' = 0 /\ retired' = << >> /\ bpSf' = 0
        /\ canceled => /\ arcStart' = 1 /\ arcRelease' = 0 /\ state' = "CANCELED"
                       /\ UNCHANGED <<activeSf, sfBase, retired, bpSf>>
    BY <1>1, <1>3 DEF AbShutdown, AbStartUtt, TableReset, tableVars, bufVars
  <1>5. Turns'
    BY <1>1, <1>2, <1>3, <1>4 DEF Turns, TreeIn, FlatIn, flatVars
  <1>6. Places'
    BY <1>1, <1>2 DEF IInv, Places, TreeAlone, Searches, flatVars
  <1>7. ReadsWithin'
    BY <1>2 DEF IInv, ReadsWithin, TreeAlone
  <1>8. FlatAt'
    BY <1>2, <1>3, <1>4, TreeKeepsFlat DEF IInv, SweepLags
  <1>9. SweepLags'
    <2>1. CASE canceled
      BY <1>1, <1>2, <1>4, <2>1 DEF IInv, SweepLags, TreeIn, TreeSearches, Behind, Eou
    <2>2. CASE ~canceled
      <3>1. << >> \in Seq(Nat)
        OBVIOUS
      <3>2. QED
        BY <1>1, <1>2, <1>4, <2>2, <3>1 DEF IInv, SweepLags, TreeIn, TreeSearches, Behind, Eou
    <2>3. QED
      BY <2>1, <2>2
  <1>10. QED
    BY <1>5, <1>6, <1>7, <1>8, <1>9 DEF Linked

(* The backpointer table goes forward, and with its last entry to the end. *)
LEMMA TableStep ==
  ASSUME retired \in Seq(Nat), bpSf \in Nat, NEW n \in Nat, NEW room \in Int,
         \/ TablePush(n, room)
         \/ TableFinalize(n, room)
         \/ TableFinalizeWithoutExit(n)
  PROVE  /\ retired' \in Seq(Nat) /\ bpSf' \in Nat /\ bpSf <= bpSf'
         /\ TablePush(n, room) \/ TableFinalizeWithoutExit(n) => bpSf' = bpSf \/ bpSf' < n
         /\ TableFinalize(n, room) => bpSf' = n
  <1>1. ASSUME NEW k \in Nat, NEW m \in Int, NEW new \in [1 .. k -> bpSf .. m],
               retired' = retired \o new
        PROVE  retired' \in Seq(Nat)
    <2>1. new \in [1 .. k -> Nat]
      OBVIOUS
    <2>2. new \in Seq(Nat)
      BY <2>1
    <2>3. QED
      BY <1>1, <2>2
  <1>2. ASSUME TablePush(n, room)
        PROVE  retired' \in Seq(Nat) /\ (bpSf' = bpSf \/ bpSf' \in bpSf .. (n - 1))
    <2>1. CASE UNCHANGED tableVars
      BY <2>1 DEF tableVars
    <2>2. CASE ~ UNCHANGED tableVars
      <3>1. PICK k \in 0 .. room : \E new \in [1 .. k -> bpSf .. (n - 2)] :
              retired' = retired \o new /\ bpSf' \in bpSf .. (n - 1)
        BY <1>2, <2>2 DEF TablePush
      <3>2. PICK new \in [1 .. k -> bpSf .. (n - 2)] :
              retired' = retired \o new /\ bpSf' \in bpSf .. (n - 1)
        BY <3>1
      <3>3. QED
        BY <1>1, <3>2
    <2>3. QED
      BY <2>1, <2>2
  <1>3. ASSUME TableFinalize(n, room)
        PROVE  retired' \in Seq(Nat) /\ bpSf' = n /\ bpSf <= n
    <2>1. PICK k \in 1 .. room : \E new \in [1 .. k -> bpSf .. (n - 1)] :
            retired' = retired \o new /\ bpSf' = n
      BY <1>3 DEF TableFinalize
    <2>2. PICK new \in [1 .. k -> bpSf .. (n - 1)] : retired' = retired \o new /\ bpSf' = n
      BY <2>1
    <2>3. new[1] \in bpSf .. (n - 1)
      OBVIOUS
    <2>4. retired' \in Seq(Nat)
      BY <1>1, <2>2
    <2>5. QED
      BY <2>2, <2>3, <2>4
  <1>4. ASSUME TableFinalizeWithoutExit(n)
        PROVE  retired' \in Seq(Nat) /\ (bpSf' = bpSf \/ bpSf' \in bpSf .. (n - 1))
    BY <1>4 DEF TableFinalizeWithoutExit
  <1>5. QED
    BY <1>2, <1>3, <1>4

(* fwdtree works on the table and its arcs: no pass moves on the features. *)
LEMMA TreeArcsStep ==
  ASSUME IInv, TreePush \/ TreeSweep \/ TreeFinalize \/ TreeEndArcs \/ TreeAwaitFlat
  PROVE  Linked'
  <1>1. /\ UNCHANGED <<fbVars, flatVars, sfBase, arcStart>> /\ TreeAlone
        /\ UNCHANGED <<spc, output, next>>
    BY DEF TreePush, TreeSweep, TreeFinalize, TreeEndArcs, TreeAwaitFlat, AbSweep, AbEndUtt,
           Deliver, fbVars, saVars, fbOtherVars, bufVars, syncVars, TreeAlone
  <1>2. /\ output[tree] \in Nat /\ retired \in Seq(Nat) /\ bpSf \in Nat /\ activeSf \in Nat
        /\ sfBase \in Nat /\ activeSf <= bpSf
        /\ spc[tree] = "search" => output[tree] > 0
    BY BufferKeeps DEF IInv, SweepLags
  <1>3. ReadsWithin'
    BY <1>1 DEF IInv, ReadsWithin
  <1>4. CASE TreePush
    <2>1. /\ spc[tree] = "search" /\ tpc = "push" /\ tpc' = "sweep"
          /\ TablePush(output[tree] - 1, MaxArcs - 1 - Len(retired))
          /\ UNCHANGED <<activeSf, state, arcRelease>>
      BY <1>4 DEF TreePush, bufVars, syncVars
    <2>2. output[tree] - 1 \in Nat /\ MaxArcs - 1 - Len(retired) \in Int
      BY <1>2, <2>1, PipelineAssumption
    <2>3. /\ retired' \in Seq(Nat) /\ bpSf' \in Nat /\ bpSf <= bpSf'
          /\ bpSf' = bpSf \/ bpSf' < output[tree] - 1
      BY <1>2, <2>1, <2>2, TableStep
    <2>4. Turns' /\ Places'
      BY <1>1, <2>1 DEF IInv, Turns, Places, TreeIn, FlatIn, flatVars
    <2>5. FlatAt'
      BY <1>1, <1>2, <2>1, TreeKeepsFlat DEF Eou
    <2>6. SweepLags'
      BY <1>1, <1>2, <2>1, <2>3 DEF IInv, SweepLags, TreeIn, TreeSearches, Behind, Eou
    <2>7. QED
      BY <1>3, <2>4, <2>5, <2>6 DEF Linked
  <1>5. CASE TreeSweep
    <2>1. /\ spc[tree] = "search" /\ tpc = "sweep" /\ tpc' = "frame"
          /\ activeSf' = bpSf /\ UNCHANGED <<bpSf, retired, state, arcRelease>>
      BY <1>5 DEF TreeSweep, AbSweep, Deliver, tableVars, bufVars
    <2>2. Turns' /\ Places'
      BY <1>1, <2>1 DEF IInv, Turns, Places, TreeIn, FlatIn, flatVars
    <2>3. FlatAt'
      BY <1>1, <1>2, <2>1, TreeKeepsFlat DEF Eou
    <2>4. SweepLags'
      BY <1>1, <1>2, <2>1 DEF IInv, SweepLags, TreeIn, TreeSearches, Behind, Eou
    <2>5. QED
      BY <1>3, <2>2, <2>3, <2>4 DEF Linked
  <1>6. CASE TreeFinalize
    <2>1. /\ spc[tree] = "ending" /\ tpc = "frame" /\ tpc' = "final"
          /\ UNCHANGED <<activeSf, state, arcRelease>>
          /\ \/ TableFinalizeWithoutExit(output[tree])
             \/ TableFinalize(output[tree], MaxArcs - Len(retired))
      BY <1>6 DEF TreeFinalize, bufVars, syncVars
    <2>2. MaxArcs - Len(retired) \in Int
      BY <1>2, PipelineAssumption
    <2>3. /\ retired' \in Seq(Nat) /\ bpSf' \in Nat /\ bpSf <= bpSf'
          /\ bpSf' = bpSf \/ bpSf' <= output[tree]
      BY <1>2, <2>1, <2>2, TableStep
    <2>4. Turns' /\ Places'
      BY <1>1, <2>1 DEF IInv, Turns, Places, TreeIn, FlatIn, flatVars
    <2>5. FlatAt'
      BY <1>1, <1>2, <2>1, TreeKeepsFlat DEF Eou
    <2>6. SweepLags'
      BY <1>1, <1>2, <2>1, <2>3 DEF IInv, SweepLags, TreeIn, TreeSearches, Behind, Eou
    <2>7. QED
      BY <1>3, <2>4, <2>5, <2>6 DEF Linked
  <1>7. CASE TreeEndArcs
    <2>1. /\ spc[tree] = "ending" /\ tpc = "final" /\ tpc' = "await"
          /\ UNCHANGED <<bpSf, retired, arcRelease>>
          /\ \/ activeSf' = bpSf /\ state' = "FINAL"
             \/ UNCHANGED <<activeSf, state>>
      BY <1>7, BufferKeeps
         DEF TreeEndArcs, AbEndUtt, MarksFinal, Deliver, tableVars, bufVars, IInv, Places
    <2>2. Turns' /\ Places'
      BY <1>1, <2>1 DEF IInv, Turns, Places, TreeIn, FlatIn, flatVars
    <2>3. FlatAt'
      BY <1>1, <1>2, <2>1, TreeKeepsFlat DEF Eou
    <2>4. SweepLags'
      BY <1>1, <1>2, <2>1 DEF IInv, SweepLags, TreeIn, TreeSearches, Behind, Eou
    <2>5. QED
      BY <1>3, <2>2, <2>3, <2>4 DEF Linked
  <1>8. CASE TreeAwaitFlat
    <2>1. /\ spc[tree] = "ending" /\ tpc = "await" /\ tpc' = "done" /\ arcRelease > 0
          /\ arcRelease' = arcRelease - 1
          /\ UNCHANGED <<activeSf, bpSf, retired, state>>
      BY <1>8, BufferKeeps DEF TreeAwaitFlat, tableVars, bufVars, IInv, Places
    <2>2. Turns' /\ Places'
      BY <1>1, <2>1 DEF IInv, Turns, Places, TreeIn, FlatIn, flatVars
    <2>3. FlatAt'
      BY <1>1, <1>2, <2>1, TreeKeepsFlat DEF Eou
    <2>4. SweepLags'
      BY <1>1, <1>2, <2>1 DEF IInv, SweepLags, TreeIn, TreeSearches, Behind, Eou
    <2>5. QED
      BY <1>3, <2>2, <2>3, <2>4 DEF Linked
  <1>9. QED
    BY <1>4, <1>5, <1>6, <1>7, <1>8

(* A step of fwdflat moves no one else, and leaves the table and what was  *)
(* swept as they are.                                                      *)
FlatAlone ==
  /\ \A s \in Searches \ {flat} : spc'[s] = spc[s] /\ output'[s] = output[s]
  /\ UNCHANGED <<next, tpc, retired, bpSf, activeSf, state>>

LEMMA FlatKeepsTree ==
  ASSUME IInv, FlatAlone, sfBase' \in Nat
  PROVE  SweepLags' /\ TreeIn' = TreeIn
  BY PipelineAssumption
     DEF IInv, FlatAlone, SweepLags, TreeIn, TreeSearches, Behind, Eou, Searches

(* fwdflat starts the utterance on the feature buffer, and ends it.        *)
LEMMA FlatOutsideStep ==
  ASSUME IInv, FlatDown \/ FlatStart \/ FlatEnd
  PROVE  Linked'
  <1>1. /\ UNCHANGED <<next, abVars, tpc>>
        /\ \E where : spc' = [spc EXCEPT ![flat] = where]
        /\ output' = output \/ output' = [output EXCEPT ![flat] = 0]
    BY DEF FlatDown, FlatStart, FlatEnd, FB!StartDown, FB!StartUtt, FB!EndIndex, FB!EndRelease,
           FB!EndSignal, FB!GoTo, FB!SaRelease, FB!saVars
  <1>2. /\ FlatAlone /\ UNCHANGED <<sfBase, arcStart, arcRelease>>
        /\ flat \in Searches /\ output[flat] \in Nat /\ next \in Nat
    BY <1>1, BufferKeeps DEF IInv, FlatAlone, abVars, tableVars, bufVars, syncVars
  <1>3. SweepLags' /\ TreeIn' = TreeIn
    BY <1>2, FlatKeepsTree DEF IInv, SweepLags
  <1>4. \/ /\ spc[flat] = "start" /\ spc'[flat] = "started" /\ UNCHANGED flatVars
           /\ output'[flat] = output[flat]
        \/ /\ spc[flat] = "started" /\ spc'[flat] \in {"wait", "gone"}
           /\ fpc' = "arcs" /\ frameIdx' = 0 /\ endWin' = endWin /\ output'[flat] = 0
        \/ /\ fpc = "done" /\ UNCHANGED flatVars /\ output'[flat] = output[flat]
           /\ spc[flat] \in {"ending", "releasing", "signalling"}
           /\ spc'[flat] \in {"releasing", "signalling", "start"}
    BY BufferKeeps
       DEF IInv, FlatDown, FlatStart, FlatEnd, FlatGoes, FB!StartDown, FB!StartUtt, FB!EndIndex,
           FB!EndRelease, FB!EndSignal, FB!GoTo
  <1>5. Places' /\ FlatIn' = FlatIn
    BY <1>2, <1>4, PipelineAssumption DEF IInv, Places, FlatIn, FlatAlone, Searches, flatVars
  <1>6. Turns'
    BY <1>2, <1>3, <1>5, PipelineAssumption DEF IInv, Turns, FlatAlone, Searches
  <1>7. ReadsWithin'
    BY <1>2, <1>4 DEF IInv, ReadsWithin, FlatAlone
  <1>8. FlatAt'
    BY <1>2, <1>4 DEF IInv, FlatAt, FlatAlone, Eou, flatVars
  <1>9. QED
    BY <1>3, <1>5, <1>6, <1>7, <1>8 DEF Linked

(* fwdflat takes the token of the arc buffer, and gives it back.           *)
LEMMA FlatArcsStep ==
  ASSUME IInv, FlatStartArcs \/ FlatEndArcs
  PROVE  Linked'
  <1>1. /\ UNCHANGED <<fbVars, frameIdx, endWin, sfBase>> /\ FlatAlone
        /\ UNCHANGED <<spc, output, next, activeSf, state>>
        /\ \/ /\ spc[flat] = "wait" /\ fpc = "arcs" /\ fpc' = "outer"
              /\ arcStart > 0 /\ arcStart' = arcStart - 1 /\ arcRelease' = arcRelease
           \/ /\ spc[flat] = "ending" /\ fpc # "done" /\ fpc' = "done"
              /\ arcRelease' = arcRelease + 1 /\ arcStart' = arcStart
    BY DEF FlatStartArcs, FlatEndArcs, FlatGoes, FlatAlone, fbVars, saVars, fbOtherVars,
           tableVars, bufVars
  <1>2. SweepLags' /\ TreeIn' = TreeIn
    BY <1>1, FlatKeepsTree DEF IInv, SweepLags
  <1>3. /\ spc[flat] = "ending" => FlatIn \/ fpc = "done"
        /\ spc[tree] \notin {"gone", "freed"} /\ FlatIn' = ~FlatIn
    BY <1>1, FlatInsideTree DEF IInv, Places, FlatIn
  <1>4. Turns'
    BY <1>1, <1>2, <1>3 DEF IInv, Turns, FlatIn
  <1>5. Places' /\ ReadsWithin'
    BY <1>1 DEF IInv, Places, ReadsWithin, FlatAlone
  <1>6. FlatAt'
    BY <1>1 DEF IInv, FlatAt, Eou
  <1>7. QED
    BY <1>2, <1>4, <1>5, <1>6 DEF Linked

(* fwdflat within the utterance of the arc buffer. *)
LEMMA FlatInsideStep ==
  ASSUME IInv, FlatAlone, UNCHANGED <<arcStart, arcRelease>>, sfBase' \in Nat,
         FlatIn, FlatIn', Places', ReadsWithin', FlatAt'
  PROVE  Linked'
  <1>1. SweepLags' /\ TreeIn' = TreeIn
    BY FlatKeepsTree
  <1>2. Turns'
    BY <1>1, PipelineAssumption DEF IInv, Turns, FlatAlone, Searches
  <1>3. QED
    BY <1>1, <1>2 DEF Linked
(* fwdflat waits for arcs, and finds a frame whose window was swept.       *)
LEMMA FlatTurnStep ==
  ASSUME IInv, FlatWaitArcs \/ FlatWakesSpuriously \/ FlatTest \/ FlatChoose
  PROVE  Linked'
  <1>1. /\ FlatAlone /\ UNCHANGED <<arcStart, arcRelease, sfBase, spc, output, next, activeSf, state>>
        /\ frameIdx' = frameIdx
        /\ \/ /\ fpc = "outer" /\ fpc' = "test" /\ endWin' = frameIdx + SfWin
           \/ /\ fpc = "test" /\ endWin' = endWin
              /\ fpc' = IF Eou \/ IterSucceeds(FrameNeeded) THEN "choose" ELSE "outer"
           \/ /\ fpc = "choose" /\ endWin' = endWin
              /\ fpc' = IF Eou THEN "block" ELSE "poll"
    BY DEF FlatWaitArcs, FlatWakesSpuriously, FlatTest, FlatChoose, FlatGoes, MayBlock, AbWait,
           AbWakeSpuriously, FlatAlone, fbVars, saVars, fbOtherVars, abVars, tableVars, bufVars,
           syncVars
  <1>2. /\ spc[flat] = "wait" /\ TreeIn /\ flat \in Searches /\ tree \in Searches
        /\ output[tree] \in Nat /\ output[tree] <= next /\ next \in Nat
        /\ sfBase \in Nat /\ activeSf \in Nat /\ frameIdx \in Nat /\ endWin \in Nat
        /\ SfWin \in Nat /\ SfWin >= 1
    BY <1>1, BufferKeeps, FlatInsideTree, PipelineAssumption
       DEF IInv, Places, FlatIn, TreeIn, ReadsWithin, SweepLags, FlatAt
  <1>3. FlatIn /\ FlatIn' /\ Places' /\ ReadsWithin'
    BY <1>1, <1>2 DEF IInv, Places, ReadsWithin, FlatIn, FlatAlone
  <1>4. fpc' = "choose" /\ ~Eou => endWin <= activeSf
    BY <1>1, <1>2 DEF IterSucceeds, FrameNeeded, IInv, FlatAt
  <1>5. fpc' = "poll" => frameIdx < next /\ frameIdx + SfWin - 1 <= activeSf
    <2> SUFFICES ASSUME fpc' = "poll" PROVE frameIdx < next /\ frameIdx + SfWin - 1 <= activeSf
      OBVIOUS
    <2>1. /\ fpc = "choose" /\ ~Eou /\ endWin <= activeSf
          /\ 1 <= endWin /\ frameIdx + SfWin - 1 <= endWin
      BY <1>1 DEF IInv, FlatAt
    <2>2. activeSf < output[tree]
      BY <1>2, <2>1 DEF IInv, SweepLags, Behind
    <2>3. QED
      BY <1>2, <2>1, <2>2
  <1>6. FlatAt'
    BY <1>1, <1>2, <1>4, <1>5 DEF IInv, FlatAt, Eou
  <1>7. QED
    BY <1>1, <1>2, <1>3, <1>6, FlatInsideStep

(* fwdflat reads, searches and releases a frame. *)
LEMMA FlatFrameStep ==
  ASSUME IInv, FlatWait \/ FlatGet \/ FlatExpand \/ FlatSearched \/ FlatReleaseArcs
  PROVE  Linked'
  <1>1. /\ spc[flat] \in {"wait", "get", "search"}
        /\ fpc \in {"block", "poll", "expand", "search", "release"}
    BY BufferKeeps DEF IInv, Places, FlatWait, FlatGet, FlatExpand, FlatSearched, FlatReleaseArcs,
                       FB!GetFrame, FB!ReleaseFrame
  <1>2. /\ UNCHANGED <<next, tpc, retired, bpSf, activeSf, state, arcStart, arcRelease>>
        /\ spc' = spc \/ \E where : spc' = [spc EXCEPT ![flat] = where]
        /\ output' = output \/ output' = [output EXCEPT ![flat] = output[flat] + 1]
    BY <1>1, PollSucceeds
       DEF FlatWait, FlatGet, FlatExpand, FlatSearched, FlatReleaseArcs,
           FB!WaitFrame, FB!GetFrame, FB!ReleaseFrame, FB!GoTo, FB!SaRelease, FB!saVars,
           AbRelease, fbVars, saVars, fbOtherVars, abVars, tableVars, bufVars, syncVars
  <1>3. /\ flat \in Searches /\ output[flat] \in Nat /\ next \in Nat
        /\ spc[flat] = "get" => output[flat] < next
        /\ spc[flat] \in {"wait", "get", "search", "ending"} => output[flat] <= next
        /\ frameIdx \in Nat /\ endWin \in Nat /\ SfWin \in Nat /\ SfWin >= 1 /\ activeSf \in Nat
        /\ sfBase \in Nat
    BY BufferKeeps, PipelineAssumption DEF IInv, ReadsWithin, FlatAt, SweepLags
  <1>4. FlatAlone
    BY <1>2, BufferKeeps DEF IInv, FlatAlone
  <1>5. \/ /\ spc[flat] = "wait" /\ fpc \in {"block", "poll"}
           /\ spc'[flat] \in {"get", "ending"} /\ fpc' = "expand"
           /\ output'[flat] = output[flat] /\ UNCHANGED <<frameIdx, endWin>>
        \/ /\ spc[flat] = "get" /\ spc'[flat] = "search" /\ fpc = "expand" /\ fpc' = "expand"
           /\ output'[flat] = output[flat] + 1 /\ UNCHANGED <<frameIdx, endWin>>
        \/ /\ spc[flat] = "search" /\ spc'[flat] = "search" /\ fpc = "expand" /\ fpc' = "search"
           /\ output'[flat] = output[flat] /\ frameIdx' = frameIdx /\ endWin' = frameIdx + SfWin
        \/ /\ spc[flat] = "search" /\ spc'[flat] = "wait" /\ fpc = "search" /\ fpc' = "release"
           /\ output'[flat] = output[flat] /\ UNCHANGED <<frameIdx, endWin>>
        \/ /\ spc[flat] = "wait" /\ spc'[flat] = "wait" /\ fpc = "release" /\ fpc' = "test"
           /\ output'[flat] = output[flat] /\ frameIdx' = frameIdx + 1 /\ endWin' = endWin
    <2>1. CASE FlatWait
      BY <1>1, <2>1, PollSucceeds, BufferKeeps
         DEF IInv, FlatWait, FlatGoes, FB!WaitFrame, FB!GoTo
    <2>2. CASE FlatGet
      BY <1>1, <2>2, BufferKeeps
         DEF IInv, Places, FlatGet, FB!GetFrame, FB!GoTo, flatVars
    <2>3. CASE FlatExpand
      BY <1>1, <2>3 DEF FlatExpand, FlatGoes, fbVars, fbOtherVars
    <2>4. CASE FlatSearched
      BY <1>1, <2>4, BufferKeeps DEF IInv, FlatSearched, FlatGoes, FB!ReleaseFrame, FB!GoTo
    <2>5. CASE FlatReleaseArcs
      BY <1>1, <2>5 DEF IInv, Places, FlatReleaseArcs, FlatGoes, fbVars, fbOtherVars
    <2>6. QED
      BY <2>1, <2>2, <2>3, <2>4, <2>5
  <1>6. sfBase' \in Nat
    BY <1>3 DEF FlatWait, FlatGet, FlatExpand, FlatSearched, FlatReleaseArcs, AbRelease,
                FirstNeeded, StartWin, abVars, bufVars
  <1>7. FlatIn /\ FlatIn' /\ Places'
    BY <1>4, <1>5, PipelineAssumption DEF IInv, Places, FlatIn, FlatAlone, Searches
  <1>8. ReadsWithin'
    BY <1>3, <1>4, <1>5 DEF IInv, ReadsWithin, FlatAlone
  <1>9. FlatAt'
    BY <1>3, <1>4, <1>5 DEF IInv, FlatAt, FlatAlone, Eou
  <1>10. QED
    BY <1>2, <1>4, <1>6, <1>7, <1>8, <1>9, FlatInsideStep

LEMMA InitIInv == Init => IInv
  <1> SUFFICES ASSUME Init
               PROVE  IInv
    OBVIOUS
  <1>1. FBP!Init
    BY DEF Init, FB!Init, FB!SaInit, FB!Unset, FBP!Init, FBP!SaInit, FBP!Unset
  <1>2. FBP!IInv
    BY <1>1, FBP!InitIInv, BufferAssumptions
  <1>3. Turns /\ Places /\ ReadsWithin /\ FlatAt
    BY PipelineAssumption
       DEF Init, FB!Init, AbInit, Turns, Places, ReadsWithin, FlatAt, TreeIn, FlatIn, Searches
  <1>4. SweepLags
    <2>1. << >> \in Seq(Nat)
      OBVIOUS
    <2>2. QED
      BY <2>1 DEF Init, FB!Init, AbInit, TableInit, SweepLags, TreeSearches, TreeIn, Searches
  <1>5. QED
    BY <1>2, <1>3, <1>4 DEF IInv

LEMMA NextIInv ==
  ASSUME ~FlatMayFail, IInv, [Next]_vars
  PROVE  IInv'
  <1>1. FBP!IInv'
    BY BufferStep
  <1> SUFFICES Linked'
    BY <1>1 DEF Linked, IInv
  <1>2. CASE Producer
    BY <1>2, ProducerStep
  <1>3. ASSUME NEW s \in Searches, Attach(s) \/ Detach(s)
        PROVE  Linked'
    BY <1>3, AttachStep
  <1>4. CASE Tree \/ TreeFails
    BY <1>4, TreeReadStep, TreeStartStep, TreeArcsStep DEF Tree
  <1>5. CASE Flat \/ FlatWakesSpuriously
    BY <1>5, FlatOutsideStep, FlatArcsStep, FlatTurnStep, FlatFrameStep DEF Flat
  <1>6. CASE FlatFails
    BY <1>6 DEF FlatFails
  <1>7. CASE Stopped \/ UNCHANGED vars
    <2>1. UNCHANGED vars
      BY <1>7 DEF Stopped, FB!Stopped, FB!vars, FB!saVars, FB!producerVars, FB!searchVars,
                  vars, fbVars, saVars, fbOtherVars
    <2>2. UNCHANGED <<spc, output, next, tpc, fpc, frameIdx, endWin, retired, bpSf, activeSf,
                      sfBase, state, arcStart, arcRelease>>
      BY <2>1 DEF vars, fbVars, saVars, fbOtherVars, flatVars, abVars, tableVars, bufVars, syncVars
    <2>3. QED
      BY <2>2 DEF IInv, Linked, Turns, Places, ReadsWithin, FlatAt, SweepLags, TreeIn, FlatIn,
                  TreeSearches, Behind, Eou
  <1>8. QED
    BY <1>2, <1>3, <1>4, <1>5, <1>6, <1>7 DEF Next
LEMMA Invariance == ASSUME ~FlatMayFail PROVE Spec => []IInv
  <1>1. Init => IInv
    BY InitIInv
  <1>2. IInv /\ [Next]_vars => IInv'
    BY NextIInv
  <1>3. QED
    BY <1>1, <1>2, PTL DEF Spec

(* A poll for a frame that comes too early would set acmod->eou and cut the*)
(* second pass short: however the passes interleave it never does, because *)
(* fwdflat goes on only when arcs were swept, and fwdtree sweeps them at   *)
(* the earliest one frame after it has read the frame.                     *)
THEOREM PollsInTime == ASSUME ~FlatMayFail PROVE Spec => []PollFindsTheFrame
  <1>1. IInv => PollFindsTheFrame
    BY PollSucceeds DEF PollFindsTheFrame
  <1>2. QED
    BY <1>1, Invariance, PTL

(* So each pass that does not give up reads the utterance to its end.      *)
THEOREM BothReadEverything == ASSUME ~FlatMayFail PROVE Spec => []SeesWholeUtterance
  <1>1. IInv => SeesWholeUtterance
    BY DEF IInv, FBP!IInv, FBP!FramesRead, SeesWholeUtterance, FB!SeesWholeUtterance
  <1>2. QED
    BY <1>1, Invariance, PTL

(* A frame is searched with all arcs of its window swept but, at most,     *)
(* those that start in the last frame of it.                               *)
THEOREM WindowIsSwept == ASSUME ~FlatMayFail PROVE Spec => []WindowLagsByOne
  <1>1. IInv => WindowLagsByOne
    BY PipelineAssumption DEF IInv, FlatAt, WindowLagsByOne
  <1>2. QED
    BY <1>1, Invariance, PTL
(* The linked passes implement the independent searches of FeatBuf: what is*)
(* shown of those there holds of these, but for what rests on fairness.    *)
THEOREM PassesAreSearches ==
  ASSUME ~FlatMayFail
  PROVE  Spec => FBP!Init /\ [][FBP!Next]_(FBP!vars)
  <1>1. Init => FBP!Init
    BY DEF Init, FB!Init, FB!SaInit, FB!Unset, FBP!Init, FBP!SaInit, FBP!Unset
  <1>2. IInv /\ [Next]_vars => [FBP!Next]_(FBP!vars)
    BY StepsOfFeatBuf
  <1>3. QED
    BY <1>1, <1>2, Invariance, PTL DEF Spec
-----------------------------------------------------------------------------
(* The arcs fwdflat needs.  What follows is about a first pass that does   *)
(* not give up, for then the buffer ends with the last frame.              *)

(* What was swept and not given back is in the buffer. *)
Complete ==
  \A i \in DOMAIN retired : sfBase <= retired[i] /\ retired[i] < activeSf =>
    \E p \in DOMAIN arcs : arcs[p] = i

(* At the end fwdtree has swept to the last frame of the utterance, and    *)
(* fwdflat gives back what starts before its window.                       *)
ArcsToTheEnd ==
  /\ ~failed[tree]
  /\ spc[tree] = "ending" => output[tree] = next
  /\ tpc = "final" => bpSf = output[tree]
  /\ TreeIn /\ Eou => spc[tree] = "ending" /\ activeSf = output[tree]
  /\ TreeIn /\ ~FlatIn /\ arcStart > 0 => sfBase = 0
  /\ FlatIn => sfBase <= StartWin

Kept == AbIInv /\ Complete /\ ArcsToTheEnd

WindowInv == IInv /\ Kept

LEMMA StartWinIs ==
  ASSUME frameIdx \in Nat
  PROVE  /\ StartWin \in Nat /\ (StartWin = 0 \/ StartWin + SfWin = frameIdx)
         /\ StartWin <= frameIdx
  BY PipelineAssumption DEF StartWin

(* The first frame of a window that was searched is in the index.          *)
LEMMA FirstNeededIsThere ==
  ASSUME WindowInv, fpc = "release"
  PROVE  FirstNeeded \in Nat /\ sfBase <= FirstNeeded
         /\ (FirstNeeded = sfBase \/ FirstNeeded < activeSf)
  <1>1. /\ FlatIn /\ TreeIn /\ spc[flat] = "wait"
    BY FlatInsideTree, BufferKeeps DEF WindowInv, IInv, Places, FlatIn
  <1>2. /\ frameIdx \in Nat /\ sfBase \in Nat /\ activeSf \in Nat /\ next \in Nat
        /\ frameIdx + 1 <= next /\ SfWin \in Nat /\ SfWin >= 1
        /\ ~Eou => frameIdx + SfWin - 1 <= activeSf
        /\ Eou => activeSf = next
    BY <1>1, BufferKeeps, PipelineAssumption
       DEF WindowInv, IInv, Kept, FlatAt, SweepLags, ReadsWithin, ArcsToTheEnd
  <1>3. StartWin \in Nat /\ sfBase <= StartWin /\ StartWin <= frameIdx
        /\ (StartWin = 0 \/ StartWin + SfWin = frameIdx)
    BY <1>1, <1>2, StartWinIs DEF WindowInv, Kept, ArcsToTheEnd
  <1>4. QED
    BY <1>2, <1>3 DEF FirstNeeded

(* The end of the features stays where fwdtree has seen it. *)
LEMMA EndStays ==
  ASSUME WindowInv, Producer
  PROVE  spc[tree] = "ending" => next' = next
  <1>1. spc[tree] = "ending" => ppc = "awaiting" /\ final = next /\ final # -1 /\ next \in Nat
    BY BufferKeeps DEF WindowInv, IInv, Kept, ArcsToTheEnd
  <1>2. QED
    BY <1>1
       DEF Producer, FB!Produce, FB!StartReset, FB!StartSignal, FB!ProcessCep,
           FB!ProcessFull, FB!Drain, FB!EndOfUtt, FB!ProcessFeat, FB!Finalize,
           FB!AwaitRelease, FB!EndReturns, FB!Shutdown, FB!ShutdownFlag, FB!ShutdownSignal,
           FB!SaAppend, FB!CanAppend, FB!PastFinal, FB!Unset, FB!SaFinalize, FB!saVars
(* The buffer stays as it is but for the semaphores, state and event. *)
LEMMA BufferStays ==
  ASSUME AbIInv, Complete, UNCHANGED <<tableVars, bufVars>>,
         arcStart' \in Nat, arcRelease' \in Nat, evt' \in BOOLEAN,
         state' \in {"INITIAL", "RUNNING", "FINAL", "CANCELED"}
  PROVE  AbIInv' /\ Complete'
  <1>1. UNCHANGED <<retired, bpSf, nextIdx, activeSf, sfBase, sfIdx, arcBase, arcs, ActiveArc>>
    BY DEF tableVars, bufVars, ActiveArc
  <1>2. AbTypeOK'
    BY <1>1 DEF AbIInv, AbTypeOK
  <1>3. AbIInv'
    BY <1>1, <1>2 DEF AbIInv, IsSorted
  <1>4. QED
    BY <1>1, <1>3 DEF Complete

LEMMA SyncType ==
  ASSUME AbIInv
  PROVE  /\ arcStart \in Nat /\ arcRelease \in Nat /\ evt \in BOOLEAN
         /\ state \in {"INITIAL", "RUNNING", "FINAL", "CANCELED"}
         /\ UNCHANGED syncVars => /\ arcStart' \in Nat /\ arcRelease' \in Nat /\ evt' \in BOOLEAN
                                  /\ state' \in {"INITIAL", "RUNNING", "FINAL", "CANCELED"}
  BY DEF AbIInv, AbTypeOK, syncVars

(* New features, references, and what fwdtree does on the feature buffer.  *)
LEMMA KeptOnFeatures ==
  ASSUME ~NoExit, WindowInv,
         \/ Producer
         \/ \E s \in Searches : Attach(s) \/ Detach(s)
         \/ TreeDown \/ TreeWait \/ TreeGet \/ TreeSearched \/ TreeEnd
  PROVE  Kept'
  <1>1. /\ UNCHANGED <<abVars, flatVars>>
        /\ UNCHANGED failed
    BY DEF Producer, Attach, Detach, TreeDown, TreeWait, TreeGet, TreeSearched, TreeEnd,
           FB!Produce, FB!StartReset, FB!StartSignal, FB!ProcessCep,
           FB!ProcessFull, FB!Drain, FB!EndOfUtt, FB!ProcessFeat, FB!Finalize,
           FB!AwaitRelease, FB!EndReturns, FB!Shutdown, FB!ShutdownFlag, FB!ShutdownSignal,
           FB!Attach, FB!Detach, FB!StartDown, FB!WaitFrame, FB!GetFrame, FB!ReleaseFrame,
           FB!EndIndex, FB!EndRelease, FB!EndSignal, FB!searchVars, flatVars
  <1>2. AbIInv' /\ Complete'
    BY <1>1, BufferStays, SyncType DEF WindowInv, Kept, abVars
  <1>3. /\ tree \in Searches /\ flat \in Searches /\ output[tree] \in Nat /\ next \in Nat
        /\ spc[tree] = "wait" => output[tree] <= next
    BY BufferKeeps DEF WindowInv, IInv, ReadsWithin
  <1>4. \/ UNCHANGED <<spc, output, tpc>> /\ (spc[tree] = "ending" => next' = next)
        \/ /\ output'[tree] = output[tree] /\ tpc' = tpc /\ next' = next
           /\ spc'[tree] \in {spc[tree], "start", "freed", "started", "get", "wait", "releasing",
                              "signalling"}
           /\ spc'[tree] = spc[tree] \/ spc[tree] # "ending" \/ tpc = "done"
           /\ spc'[tree] \in {"get", "wait"} => TreeSearches
        \/ /\ spc[tree] = "wait" /\ spc'[tree] = "ending" /\ tpc' = tpc /\ next' = next
           /\ output'[tree] = output[tree] /\ output[tree] = next
        \/ spc[tree] = "get" /\ spc'[tree] = "search" /\ tpc' = "push"
    <2>1. CASE Producer
      BY <2>1, EndStays
         DEF Producer, FB!Produce, FB!StartReset, FB!StartSignal, FB!ProcessCep,
             FB!ProcessFull, FB!Drain, FB!EndOfUtt, FB!ProcessFeat, FB!Finalize,
             FB!AwaitRelease, FB!EndReturns, FB!Shutdown, FB!ShutdownFlag, FB!ShutdownSignal,
             FB!searchVars
    <2>2. CASE \E s \in Searches : Attach(s) \/ Detach(s)
      BY <1>3, <2>2, BufferKeeps
         DEF Attach, Detach, FB!Attach, FB!Detach, FB!SaRetain, FB!SaFree, FB!GoTo,
             WindowInv, IInv
    <2>3. CASE TreeWait
      <3>1. /\ spc[tree] = "wait" /\ UNCHANGED <<output, next, tpc>>
            /\ \/ spc'[tree] = "get"
               \/ spc'[tree] = "ending" /\ ~ (next > output[tree])
        BY <1>3, <2>3, BufferKeeps
           DEF TreeWait, FB!WaitFrame, FB!WaitFails, FB!WaitSucceeds, FB!GoTo, FB!saVars,
               WindowInv, IInv
      <3>2. QED
        BY <1>3, <3>1 DEF TreeSearches
    <2>4. CASE TreeDown \/ TreeGet \/ TreeSearched \/ TreeEnd
      BY <1>3, <2>4, BufferKeeps
         DEF TreeDown, TreeGet, TreeSearched, TreeEnd, FB!StartDown, FB!GetFrame,
             FB!ReleaseFrame, FB!EndIndex, FB!EndRelease, FB!EndSignal, FB!GoTo, FB!SaRelease,
             FB!saVars, WindowInv, IInv, TreeSearches
    <2>5. QED
      BY <2>1, <2>2, <2>3, <2>4
  <1>5. UNCHANGED <<state, arcStart, bpSf, activeSf, sfBase, fpc, frameIdx>>
    BY <1>1 DEF abVars, tableVars, bufVars, syncVars, flatVars
  <1>6. ArcsToTheEnd'
    BY <1>1, <1>3, <1>4, <1>5
       DEF WindowInv, IInv, Kept, ArcsToTheEnd, Places, SweepLags, TreeSearches, TreeIn, FlatIn,
           Eou, StartWin
  <1>7. QED
    BY <1>2, <1>6 DEF Kept
(* A new utterance begins with an empty buffer. *)
LEMMA KeptAtStart ==
  ASSUME WindowInv, TreeStart
  PROVE  Kept'
  <1>1. /\ spc[tree] = "started" /\ tpc' = "frame" /\ UNCHANGED flatVars
        /\ spc'[tree] = IF canceled THEN "gone" ELSE "wait"
        /\ failed'[tree] = FALSE
        /\ IF canceled THEN AbShutdown ELSE AbStartUtt
    BY BufferKeeps DEF TreeStart, FB!StartUtt, FB!GoTo, WindowInv, IInv
  <1>2. ~FlatIn /\ AbIInv /\ Complete /\ ~TreeIn /\ ~FlatIn'
    BY <1>1 DEF WindowInv, IInv, Kept, Turns, TreeIn, FlatIn, flatVars
  <1>3. CASE canceled
    <2>1. /\ UNCHANGED <<tableVars, bufVars>> /\ arcStart' = arcStart + 1
          /\ arcRelease' = arcRelease /\ evt' = evt /\ state' = "CANCELED"
      BY <1>1, <1>3 DEF AbShutdown
    <2>2. AbIInv' /\ Complete'
      BY <1>2, <2>1, BufferStays, SyncType
    <2>3. ArcsToTheEnd'
      BY <1>1, <1>2, <1>3, <2>1 DEF ArcsToTheEnd, TreeIn
    <2>4. QED
      BY <2>2, <2>3 DEF Kept
  <1>4. CASE ~canceled
    <2>1. Emptied' /\ state' = "RUNNING"
      BY <1>1, <1>2, <1>4, SyncType DEF AbStartUtt, TableReset, Emptied
    <2>2. AbIInv' /\ Complete'
      BY <2>1, EmptiedBuffer DEF Emptied, Complete
    <2>3. ArcsToTheEnd'
      BY <1>1, <1>2, <1>4, <2>1 DEF ArcsToTheEnd, TreeIn, Emptied, Eou
    <2>4. QED
      BY <2>2, <2>3 DEF Kept
  <1>5. QED
    BY <1>3, <1>4

(* fwdtree retires entries, which start in frames not swept yet. *)
LEMMA KeptOfTable ==
  ASSUME ~NoExit, WindowInv, TreePush \/ TreeFinalize
  PROVE  Kept'
  <1>1. /\ AbIInv /\ Complete /\ UNCHANGED <<bufVars, syncVars, flatVars, fbVars>>
        /\ UNCHANGED <<nextIdx, activeSf, sfBase, sfIdx, arcBase, arcs>>
        /\ UNCHANGED <<state, arcStart, fpc, frameIdx, spc, output, next, failed>>
    BY DEF TreePush, TreeFinalize, WindowInv, Kept, bufVars, syncVars, flatVars, fbVars, saVars,
           fbOtherVars
  <1>2. \E n \in Nat, room \in Int :
          TablePush(n, room) \/ TableFinalize(n, room) \/ TableFinalizeWithoutExit(n)
    <2>1. Len(retired) \in Int /\ MaxArcs \in Int
      BY PipelineAssumption DEF WindowInv, IInv, SweepLags
    <2>2. CASE TreePush
      <3>1. output[tree] - 1 \in Nat /\ TablePush(output[tree] - 1, MaxArcs - 1 - Len(retired))
        BY <2>2, BufferKeeps DEF TreePush, WindowInv, IInv
      <3>2. MaxArcs - 1 - Len(retired) \in Int
        BY <2>1
      <3>3. QED
        BY <3>1, <3>2
    <2>3. CASE TreeFinalize
      <3>1. output[tree] \in Nat /\ TableFinalize(output[tree], MaxArcs - Len(retired))
        BY <2>3, BufferKeeps DEF TreeFinalize, WindowInv, IInv
      <3>2. MaxArcs - Len(retired) \in Int
        BY <2>1
      <3>3. QED
        BY <3>1, <3>2
    <2>4. QED
      BY <2>2, <2>3
  <1>3. /\ AbIInv'
        /\ \A i \in DOMAIN retired : i \in DOMAIN retired' /\ retired'[i] = retired[i]
        /\ \A i \in DOMAIN retired' : i \notin DOMAIN retired => activeSf <= retired'[i]
    BY <1>1, <1>2, TableGrowth
  <1>4. retired' \in Seq(Nat) /\ activeSf \in Nat
    BY <1>1, <1>3 DEF AbIInv, AbTypeOK
  <1>5. Complete'
    <2> SUFFICES ASSUME NEW i \in DOMAIN retired', sfBase <= retired'[i], retired'[i] < activeSf
                 PROVE  \E p \in DOMAIN arcs : arcs[p] = i
      BY <1>1 DEF Complete
    <2>1. retired'[i] \in Nat
      BY <1>4
    <2>2. i \in DOMAIN retired /\ retired'[i] = retired[i]
      BY <1>3, <1>4, <2>1
    <2>3. QED
      BY <1>1, <2>2 DEF Complete
  <1>6. \/ spc[tree] = "search" /\ tpc = "push" /\ tpc' = "sweep"
        \/ spc[tree] = "ending" /\ tpc = "frame" /\ tpc' = "final" /\ bpSf' = output[tree]
    BY DEF TreePush, TreeFinalize, TableFinalize
  <1>7. ArcsToTheEnd'
    BY <1>1, <1>6 DEF WindowInv, IInv, SweepLags, TreeSearches, Kept, ArcsToTheEnd, TreeIn,
                      FlatIn, Eou, StartWin
  <1>8. QED
    BY <1>3, <1>5, <1>7 DEF Kept

(* fwdtree sweeps the frames up to bptbl_active_sf: what starts in them is *)
(* in the buffer then.                                                     *)
LEMMA KeptOfSweep ==
  ASSUME WindowInv, TreeSweep \/ TreeEndArcs
  PROVE  Kept'
  <1>1. /\ AbIInv /\ Complete /\ UNCHANGED <<tableVars, flatVars, fbVars>>
        /\ UNCHANGED <<retired, bpSf, arcStart, arcRelease, fpc, frameIdx, spc, output, next, failed>>
        /\ retired \in Seq(Nat) /\ activeSf \in Nat /\ bpSf \in Nat
    BY DEF TreeSweep, TreeEndArcs, AbSweep, AbEndUtt, WindowInv, IInv, SweepLags, Kept, flatVars,
           fbVars, saVars, fbOtherVars, tableVars
  <1>2. /\ IF bpSf # activeSf THEN Deliver(bpSf) ELSE UNCHANGED <<bufVars, evt>>
        /\ \/ state' = state
           \/ state' = "FINAL" /\ bpSf # activeSf /\ tpc = "final" /\ spc[tree] = "ending"
        /\ \/ tpc = "sweep" /\ tpc' = "frame" /\ state' = state
           \/ tpc = "final" /\ tpc' = "await"
    BY BufferKeeps
       DEF TreeSweep, TreeEndArcs, AbSweep, AbEndUtt, MarksFinal, WindowInv, IInv, Places
  <1>3. state' \in {"INITIAL", "RUNNING", "FINAL", "CANCELED"}
    BY <1>1, <1>2, SyncType
  <1>4. CASE bpSf # activeSf
    <2>1. /\ AbIInv' /\ sfBase' = sfBase /\ activeSf' = bpSf
          /\ \A p \in DOMAIN arcs : p \in DOMAIN arcs' /\ arcs'[p] = arcs[p]
          /\ \A i \in DOMAIN retired : activeSf <= retired[i] /\ retired[i] < bpSf =>
               \E p \in DOMAIN arcs' : arcs'[p] = i
      BY <1>1, <1>2, <1>3, <1>4, DeliverEffect
    <2>2. Complete'
      <3> SUFFICES ASSUME NEW i \in DOMAIN retired, sfBase <= retired[i], retired[i] < bpSf
                   PROVE  \E p \in DOMAIN arcs' : arcs'[p] = i
        BY <1>1, <2>1 DEF Complete
      <3>1. retired[i] \in Nat
        BY <1>1
      <3>2. CASE retired[i] < activeSf
        BY <1>1, <2>1, <3>2 DEF Complete
      <3>3. CASE activeSf <= retired[i]
        BY <2>1, <3>3
      <3>4. QED
        BY <1>1, <3>1, <3>2, <3>3
    <2>3. ArcsToTheEnd'
      BY <1>1, <1>2, <2>1 DEF WindowInv, IInv, SweepLags, TreeSearches, Kept, ArcsToTheEnd,
                              Places, TreeIn, FlatIn, Eou, StartWin
    <2>4. QED
      BY <2>1, <2>2, <2>3 DEF Kept
  <1>5. CASE bpSf = activeSf
    <2>1. UNCHANGED <<bufVars, evt>> /\ state' = state
      BY <1>2, <1>5
    <2>2. AbIInv' /\ Complete'
      BY <1>1, <1>3, <2>1, BufferStays, SyncType
    <2>3. ArcsToTheEnd'
      BY <1>1, <1>2, <2>1 DEF WindowInv, IInv, SweepLags, TreeSearches, Kept, ArcsToTheEnd,
                              Places, TreeIn, FlatIn, Eou, StartWin, bufVars
    <2>4. QED
      BY <2>2, <2>3 DEF Kept
  <1>6. QED
    BY <1>4, <1>5
(* The token goes from one pass to the other. *)
LEMMA KeptOfTurns ==
  ASSUME WindowInv, TreeAwaitFlat \/ FlatStartArcs \/ FlatEndArcs
  PROVE  Kept'
  <1>1. /\ AbIInv /\ Complete /\ UNCHANGED <<tableVars, bufVars, state, evt, frameIdx>>
        /\ UNCHANGED <<bpSf, activeSf, sfBase, spc, output, next, failed>>
        /\ arcStart \in Nat /\ arcRelease \in Nat
        /\ \/ /\ arcRelease > 0 /\ arcRelease' = arcRelease - 1 /\ UNCHANGED <<arcStart, fpc>>
              /\ tpc' = "done"
           \/ /\ spc[flat] = "wait" /\ fpc = "arcs" /\ fpc' = "outer" /\ arcStart > 0
              /\ arcStart' = arcStart - 1 /\ UNCHANGED <<arcRelease, tpc>>
           \/ /\ spc[flat] = "ending" /\ fpc # "done" /\ fpc' = "done"
              /\ arcRelease' = arcRelease + 1 /\ UNCHANGED <<arcStart, tpc>>
    BY SyncType
       DEF TreeAwaitFlat, FlatStartArcs, FlatEndArcs, FlatGoes, WindowInv, Kept, flatVars, fbVars,
           saVars, fbOtherVars, tableVars, bufVars
  <1>2. AbIInv' /\ Complete'
    BY <1>1, BufferStays, SyncType
  <1>3. frameIdx \in Nat /\ StartWin \in Nat /\ StartWin' = StartWin
    BY <1>1, StartWinIs DEF WindowInv, IInv, FlatAt, StartWin
  <1>4. fpc = "arcs" /\ arcStart > 0 /\ spc[flat] = "wait" => TreeIn
    BY FlatInsideTree DEF WindowInv, IInv, Turns
  <1>5. spc[flat] = "ending" => FlatIn \/ fpc = "done"
    BY BufferKeeps DEF WindowInv, IInv, Places, FlatIn
  <1>6. FlatIn => arcStart = 0 /\ arcRelease = 0
    BY FlatInsideTree DEF WindowInv, IInv
  <1>7. ArcsToTheEnd'
    BY <1>1, <1>3, <1>4, <1>5, <1>6
       DEF WindowInv, Kept, ArcsToTheEnd, TreeIn, FlatIn, Eou
  <1>8. QED
    BY <1>2, <1>7 DEF Kept

(* fwdflat looks at the buffer, and reads and searches frames. *)
LEMMA KeptOfLook ==
  ASSUME WindowInv,
         \/ FlatDown \/ FlatStart \/ FlatEnd
         \/ FlatWaitArcs \/ FlatWakesSpuriously \/ FlatTest \/ FlatChoose
         \/ FlatWait \/ FlatGet \/ FlatExpand \/ FlatSearched
  PROVE  Kept'
  <1>1. /\ UNCHANGED <<tableVars, bufVars, state, arcStart, arcRelease, next, tpc>>
        /\ evt' \in BOOLEAN
    BY PollSucceeds, SyncType
       DEF FlatDown, FlatStart, FlatEnd, FlatWaitArcs, FlatWakesSpuriously, FlatTest, FlatChoose,
           FlatWait, FlatGet, FlatExpand, FlatSearched, AbWait, AbWakeSpuriously,
           FB!StartDown, FB!StartUtt, FB!WaitFrame, FB!GetFrame, FB!ReleaseFrame, FB!EndIndex,
           FB!EndRelease, FB!EndSignal, FB!SaRelease, FB!saVars, abVars, syncVars, fbVars, saVars,
           WindowInv, Kept
  <1>2. AbIInv' /\ Complete'
    BY <1>1, BufferStays, SyncType DEF WindowInv, Kept
  <1>3. spc'[tree] = spc[tree] /\ output'[tree] = output[tree] /\ failed'[tree] = failed[tree]
    BY BufferKeeps, PipelineAssumption
       DEF FlatDown, FlatStart, FlatEnd, FlatWaitArcs, FlatWakesSpuriously, FlatTest, FlatChoose,
           FlatWait, FlatGet, FlatExpand, FlatSearched,
           FB!StartDown, FB!StartUtt, FB!WaitFrame, FB!GetFrame, FB!ReleaseFrame, FB!EndIndex,
           FB!EndRelease, FB!EndSignal, FB!GoTo, fbVars, fbOtherVars, WindowInv, IInv
  <1>4. \/ ~FlatIn' /\ ~FlatIn
        \/ FlatIn /\ frameIdx' = frameIdx
    <2>1. CASE FlatDown \/ FlatStart \/ FlatEnd
      BY <2>1, BufferKeeps
         DEF FlatDown, FlatStart, FlatEnd, FlatGoes, FB!StartDown, FB!StartUtt, FB!EndIndex,
             FB!EndRelease, FB!EndSignal, FlatIn, WindowInv, IInv, Places, flatVars
    <2>2. CASE FlatWaitArcs \/ FlatWakesSpuriously \/ FlatTest \/ FlatChoose
               \/ FlatWait \/ FlatExpand \/ FlatSearched
      BY <2>2 DEF FlatWaitArcs, FlatWakesSpuriously, FlatTest, FlatChoose, FlatWait, FlatExpand,
                  FlatSearched, FlatIn
    <2>3. CASE FlatGet
      BY <2>3 DEF FlatGet, FB!GetFrame, FlatIn, WindowInv, IInv, Places, flatVars
    <2>4. QED
      BY <2>1, <2>2, <2>3
  <1>5. UNCHANGED <<bpSf, activeSf, sfBase>>
    BY <1>1 DEF tableVars, bufVars
  <1>6. ArcsToTheEnd'
    BY <1>1, <1>3, <1>4, <1>5, FlatInsideTree
       DEF WindowInv, IInv, Kept, ArcsToTheEnd, TreeIn, Eou, StartWin
  <1>7. QED
    BY <1>2, <1>6 DEF Kept

(* fwdflat gives back what starts before its window. *)
LEMMA KeptOfRelease ==
  ASSUME WindowInv, FlatReleaseArcs
  PROVE  Kept'
  <1> DEFINE sf == FirstNeeded
  <1>1. /\ AbIInv /\ Complete /\ fpc = "release" /\ fpc' = "test" /\ frameIdx' = frameIdx + 1
        /\ AbRelease(sf) /\ UNCHANGED <<fbVars, tpc>>
        /\ UNCHANGED <<spc, output, next, failed>>
    BY DEF FlatReleaseArcs, FlatGoes, WindowInv, Kept, fbVars, saVars, fbOtherVars
  <1>2. sf \in Nat /\ sfBase <= sf /\ (sf = sfBase \/ sf < activeSf) /\ sf = StartWin
    BY <1>1, FirstNeededIsThere DEF FirstNeeded
  <1>3. AbIInv' /\ Complete' /\ sfBase' = sf /\ UNCHANGED <<activeSf, tableVars, syncVars>>
    <2>1. CASE sf = sfBase
      <3>1. UNCHANGED <<tableVars, bufVars, syncVars>>
        BY <1>1, <2>1 DEF AbRelease, bufVars
      <3>2. QED
        BY <1>1, <2>1, <3>1, BufferStays, SyncType DEF bufVars
    <2>2. CASE sf < activeSf
      <3>1. /\ AbIInv' /\ sfBase' = sf /\ UNCHANGED <<activeSf, tableVars, syncVars>>
            /\ \A p \in DOMAIN arcs' : p \in DOMAIN arcs /\ arcs'[p] = arcs[p]
            /\ \A p \in DOMAIN arcs : p \notin DOMAIN arcs' => retired[arcs[p]] < sf
        <4> HIDE DEF sf
        <4>1. QED BY <1>1, <1>2, <2>2, ArcReleaseEffect
      <3>2. Complete'
        <4> HIDE DEF sf
        <4> SUFFICES ASSUME NEW i \in DOMAIN retired, sf <= retired[i], retired[i] < activeSf
                     PROVE  \E p \in DOMAIN arcs' : arcs'[p] = i
          BY <3>1 DEF Complete, tableVars
        <4>1. retired[i] \in Nat /\ sfBase \in Nat /\ activeSf \in Nat
          BY <1>1 DEF AbIInv, AbTypeOK
        <4>2. PICK p \in DOMAIN arcs : arcs[p] = i
          BY <1>1, <1>2, <4>1 DEF Complete
        <4>3. p \in DOMAIN arcs'
          BY <1>2, <3>1, <4>1, <4>2
        <4>4. QED
          BY <3>1, <4>2, <4>3
      <3>3. QED
        BY <3>1, <3>2
    <2>3. QED
      BY <1>2, <2>1, <2>2
  <1>4. frameIdx \in Nat /\ StartWin <= StartWin' /\ FlatIn
    <2>1. frameIdx \in Nat /\ FlatIn
      BY <1>1 DEF WindowInv, IInv, FlatAt, FlatIn
    <2>2. QED
      BY <1>1, <2>1, PipelineAssumption DEF StartWin
  <1>5. TreeIn /\ arcStart = 0
    BY <1>4, FlatInsideTree DEF WindowInv, IInv
  <1>6. ArcsToTheEnd'
    BY <1>1, <1>2, <1>3, <1>4, <1>5
       DEF WindowInv, IInv, Kept, ArcsToTheEnd, TreeIn, Eou, tableVars, syncVars
  <1>7. QED
    BY <1>3, <1>6 DEF Kept

LEMMA InitKept == Init => Kept
  <1> SUFFICES ASSUME Init
               PROVE  Kept
    OBVIOUS
  <1>1. Emptied
    BY DEF Init, AbInit, TableInit, Emptied
  <1>2. AbIInv /\ Complete
    BY <1>1, EmptyBuffer DEF Emptied, Complete
  <1>3. ArcsToTheEnd
    BY DEF Init, FB!Init, AbInit, ArcsToTheEnd, TreeIn, FlatIn, Searches
  <1>4. QED
    BY <1>2, <1>3 DEF Kept

LEMMA NextKept ==
  ASSUME ~NoExit, ~FlatMayFail, WindowInv, [Next]_vars
  PROVE  Kept'
  <1>1. CASE Producer
    BY <1>1, KeptOnFeatures
  <1>2. ASSUME NEW s \in Searches, Attach(s) \/ Detach(s)
        PROVE  Kept'
    BY <1>2, KeptOnFeatures
  <1>3. CASE Tree
    BY <1>3, KeptOnFeatures, KeptAtStart, KeptOfTable, KeptOfSweep, KeptOfTurns DEF Tree
  <1>4. CASE TreeFails \/ FlatFails
    BY <1>4 DEF TreeFails, FlatFails
  <1>5. CASE Flat \/ FlatWakesSpuriously
    BY <1>5, KeptOfTurns, KeptOfLook, KeptOfRelease DEF Flat
  <1>6. CASE Stopped \/ UNCHANGED vars
    <2>1. UNCHANGED vars
      BY <1>6 DEF Stopped, FB!Stopped, FB!vars, FB!saVars, FB!producerVars, FB!searchVars,
                  vars, fbVars, saVars, fbOtherVars
    <2>2. UNCHANGED <<spc, output, next, failed, tpc, fpc, frameIdx, bpSf, activeSf, sfBase,
                      tableVars, bufVars, syncVars, state, arcStart>>
      BY <2>1 DEF vars, fbVars, saVars, fbOtherVars, flatVars, abVars, tableVars, bufVars, syncVars
    <2>3. AbIInv' /\ Complete'
      BY <2>2, BufferStays, SyncType DEF WindowInv, Kept
    <2>4. ArcsToTheEnd'
      BY <2>2 DEF WindowInv, Kept, ArcsToTheEnd, TreeIn, FlatIn, Eou, StartWin
    <2>5. QED
      BY <2>3, <2>4 DEF Kept
  <1>7. QED
    BY <1>1, <1>2, <1>3, <1>4, <1>5, <1>6 DEF Next

LEMMA WindowInvariance == ASSUME ~NoExit, ~FlatMayFail PROVE Spec => []WindowInv
  <1>1. Init => WindowInv
    BY InitIInv, InitKept DEF WindowInv
  <1>2. WindowInv /\ [Next]_vars => WindowInv'
    BY NextIInv, NextKept DEF WindowInv
  <1>3. QED
    BY <1>1, <1>2, PTL DEF Spec

(* fwdflat gives back only arcs that start before the window of the frame  *)
(* it has searched, and the window never goes back.                        *)
THEOREM WindowStaysHeld == ASSUME ~NoExit, ~FlatMayFail PROVE Spec => []WindowIsHeld
  <1>1. WindowInv => WindowIsHeld
    <2> SUFFICES ASSUME WindowInv, spc[flat] = "search", fpc = "search",
                        NEW i \in DOMAIN retired, StartWin <= retired[i], retired[i] < activeSf
                 PROVE  \E p \in DOMAIN arcs : arcs[p] = i
      BY DEF WindowIsHeld
    <2>1. sfBase <= StartWin /\ Complete /\ FlatIn
      BY DEF WindowInv, Kept, ArcsToTheEnd, FlatIn
    <2>2. sfBase \in Nat /\ StartWin \in Nat /\ retired[i] \in Nat
      BY StartWinIs DEF WindowInv, IInv, SweepLags, FlatAt
    <2>3. QED
      BY <2>1, <2>2 DEF Complete
  <1>2. QED
    BY <1>1, WindowInvariance, PTL

(* The frame arc_buffer_consumer_release is given without a test is one of *)
(* the buffer: behind the sweep as long as fwdtree goes on, and of the     *)
(* frames of the utterance when it has swept to the end.                   *)
THEOREM ReleasesInRange == ASSUME ~NoExit, ~FlatMayFail PROVE Spec => []ReleasesWhatIsThere
  <1>1. WindowInv => ReleasesWhatIsThere
    <2> SUFFICES ASSUME WindowInv, fpc = "release"
                 PROVE  ReleaseIsDefined(FirstNeeded)
      BY DEF ReleasesWhatIsThere
    <2>1. FirstNeeded \in Nat /\ sfBase <= FirstNeeded
          /\ (FirstNeeded = sfBase \/ FirstNeeded < activeSf)
      BY FirstNeededIsThere
    <2>2. DOMAIN sfIdx = sfBase .. (activeSf - 1) /\ sfBase \in Nat /\ activeSf \in Nat
      BY DEF WindowInv, Kept, AbIInv, AbTypeOK
    <2>3. QED
      BY <2>1, <2>2 DEF ReleaseIsDefined
  <1>2. QED
    BY <1>1, WindowInvariance, PTL
===============================================================================
