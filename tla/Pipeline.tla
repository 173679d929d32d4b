------------------------------ MODULE Pipeline ------------------------------
(***************************************************************************)
(* The two-pass decoder as programs/multisphinx_batch.c builds it: fwdtree *)
(* and fwdflat read the same feature buffer, and fwdtree feeds fwdflat     *)
(* through an arc buffer.  fwdtree ends an utterance only when fwdflat has *)
(* given the arc buffer back, fwdflat advances only with fwdtree's arcs.   *)
(*                                                                         *)
(* The two passes are searches of FeatBuf: every step on the feature buffer*)
(* is an action of that module, joined with what the search does to the    *)
(* arc buffer at that point of its loop.                                   *)
(***************************************************************************)
EXTENDS ArcBuffer

CONSTANTS
  tree, flat,    (* the two searches                                       *)
  MaxRefcount, Win, MaxCeps, MaxUtts,
  MaxArcs,       (* bound: backpointers retired in an utterance            *)
  SfWin,         (* -fwdflatsfwin: start frames expanded on either side    *)
  NoExit,        (* whether fwdtree may end with no word exit in its last  *)
                 (* frame, as it does when it gives up                     *)
  FlatMayFail    (* whether fwdflat may give up in an utterance            *)

ASSUME PipelineAssumption ==
  /\ tree # flat
  /\ MaxRefcount \in Nat /\ MaxRefcount > 2
  /\ Win \in Nat /\ MaxCeps \in Nat /\ MaxUtts \in Nat
  /\ MaxArcs \in Nat \ {0}
  /\ SfWin \in Nat \ {0}
  /\ {NoExit, FlatMayFail} \subseteq BOOLEAN

Searches == {tree, flat}

VARIABLES
  refcount, base, next, count, final,                    (* of SyncArray   *)
  start, release, canceled, ppc, nth, mode, ceps, owed,  (* of FeatBuf     *)
  utt, spc, output, upto, seen, failed, ended,
  tpc,      (* fwdtree: its step within a frame or at the end              *)
  fpc,      (* fwdflat: its step within its loops                          *)
  frameIdx, (* fwdflat: frame_idx                                          *)
  endWin    (* fwdflat: end_win as the inner loop tests it                 *)

FB == INSTANCE FeatBuf

saVars == <<refcount, base, next, count, final>>
(* What is left of FeatBuf but where the searches are. *)
fbOtherVars == <<start, release, canceled, ppc, nth, mode, ceps, owed, utt,
                 output, upto, seen, failed, ended>>
fbVars == <<saVars, fbOtherVars, spc>>
flatVars == <<fpc, frameIdx, endWin>>
vars == <<fbVars, abVars, tpc, flatVars>>

Init ==
  /\ FB!Init
  /\ AbInit
  /\ tpc = "frame" /\ fpc = "start" /\ frameIdx = 0 /\ endWin = 0
-----------------------------------------------------------------------------
Producer ==
  /\ FB!Produce
  /\ ppc = "open" /\ ppc' = "draining" => NoExit \/ next + owed' > 0
  /\ UNCHANGED <<abVars, tpc, flatVars>>

(* The references are all taken before the first utterance. *)
Attach(s) ==
  /\ utt = 0
  /\ FB!Attach(s)
  /\ UNCHANGED <<abVars, tpc, flatVars>>

Detach(s) == FB!Detach(s) /\ UNCHANGED <<abVars, tpc, flatVars>>

Ready == \A s \in Searches : spc[s] # "none"
-----------------------------------------------------------------------------
(* fwdtree_search_decode. *)

TreeDown == FB!StartDown(tree) /\ UNCHANGED <<abVars, tpc, flatVars>>

TreeStart ==
  /\ FB!StartUtt(tree)
  /\ IF canceled THEN AbShutdown ELSE AbStartUtt
  /\ tpc' = "frame"
  /\ UNCHANGED flatVars

TreeWait ==
  /\ FB!WaitFrame(tree)
  /\ UNCHANGED <<abVars, tpc, flatVars>>

TreeGet ==
  /\ FB!GetFrame(tree)
  /\ tpc' = "push"
  /\ UNCHANGED <<abVars, flatVars>>

TreePush ==
  /\ spc[tree] = "search" /\ tpc = "push"
  /\ TablePush(output[tree] - 1, MaxArcs - 1 - Len(retired))
  /\ tpc' = "sweep"
  /\ UNCHANGED <<fbVars, bufVars, syncVars, flatVars>>

TreeSweep ==
  /\ spc[tree] = "search" /\ tpc = "sweep"
  /\ AbSweep
  /\ tpc' = "frame"
  /\ UNCHANGED <<fbVars, flatVars>>

TreeSearched ==
  /\ tpc = "frame"
  /\ FB!ReleaseFrame(tree)
  /\ UNCHANGED <<abVars, tpc, flatVars>>

TreeFails ==
  /\ NoExit /\ tpc = "frame" /\ FB!SearchFails(tree)
  /\ UNCHANGED <<abVars, tpc, flatVars>>

(* fwdtree_search_finish: bptbl_finalize, then arc_buffer_producer_end_utt,*)
(* then acmod_consumer_end_utt.                                            *)
TreeFinalize ==
  /\ spc[tree] = "ending" /\ tpc = "frame"
  /\ \/ NoExit /\ TableFinalizeWithoutExit(output[tree])
     \/ ~failed[tree] /\ TableFinalize(output[tree], MaxArcs - Len(retired))
  /\ tpc' = "final"
  /\ UNCHANGED <<fbVars, bufVars, syncVars, flatVars>>

TreeEndArcs ==
  /\ tpc = "final"
  /\ AbEndUtt
  /\ tpc' = "await"
  /\ UNCHANGED <<fbVars, flatVars>>

TreeAwaitFlat ==
  /\ tpc = "await" /\ arcRelease > 0
  /\ arcRelease' = arcRelease - 1
  /\ tpc' = "done"
  /\ UNCHANGED <<fbVars, tableVars, bufVars, state, arcStart, evt, flatVars>>

TreeEnd ==
  /\ tpc = "done"
  /\ FB!EndIndex(tree) \/ FB!EndRelease(tree) \/ FB!EndSignal(tree)
  /\ UNCHANGED <<abVars, tpc, flatVars>>

Tree ==
  \/ TreeDown \/ TreeStart \/ TreeWait \/ TreeGet \/ TreePush \/ TreeSweep \/ TreeSearched
  \/ TreeFinalize \/ TreeEndArcs \/ TreeAwaitFlat \/ TreeEnd
-----------------------------------------------------------------------------
(* fwdflat_search_decode.  fwdflat's acmod->eou is set when its wait for a *)
(* frame has failed, which is when FeatBuf has it at "ending".             *)

FlatGoes(where) == fpc' = where

FlatDown == FB!StartDown(flat) /\ UNCHANGED <<abVars, tpc, flatVars>>

FlatStart ==
  /\ FB!StartUtt(flat)
  /\ FlatGoes("arcs")
  /\ frameIdx' = 0
  /\ UNCHANGED <<abVars, tpc, endWin>>

(* arc_buffer_consumer_start_utt; fwdtree cannot cancel an utterance it    *)
(* has started.                                                            *)
FlatStartArcs ==
  /\ spc[flat] = "wait" /\ fpc = "arcs" /\ arcStart > 0
  /\ arcStart' = arcStart - 1
  /\ FlatGoes("outer")
  /\ UNCHANGED <<fbVars, tableVars, bufVars, state, arcRelease, evt, tpc, frameIdx, endWin>>

FlatWaitArcs ==
  /\ spc[flat] = "wait" /\ fpc = "outer"
  /\ AbWait
  /\ endWin' = frameIdx + SfWin
  /\ FlatGoes("test")
  /\ UNCHANGED <<fbVars, tpc, frameIdx>>

FlatWakesSpuriously ==
  /\ spc[flat] = "wait" /\ fpc = "outer"
  /\ AbWakeSpuriously
  /\ endWin' = frameIdx + SfWin
  /\ FlatGoes("test")
  /\ UNCHANGED <<fbVars, tpc, frameIdx>>

(* Mutant: the loop is entered one frame early. *)
FrameNeededBefore == endWin - 2

FrameNeeded == endWin - 1

(* The condition of the inner loop, read without the lock. *)
FlatTest ==
  /\ fpc = "test"
  /\ FlatGoes(IF Eou \/ IterSucceeds(FrameNeeded) THEN "choose" ELSE "outer")
  /\ UNCHANGED <<fbVars, abVars, tpc, frameIdx, endWin>>

(* Mutant: fwdflat polls for the frames of the whole utterance. *)
NeverBlocks == FALSE

MayBlock == Eou

FlatChoose ==
  /\ fpc = "choose"
  /\ FlatGoes(IF MayBlock THEN "block" ELSE "poll")
  /\ UNCHANGED <<fbVars, abVars, tpc, frameIdx, endWin>>

(* acmod_consumer_wait without or with a timeout of 0: a poll that finds no*)
(* frame sets acmod->eou just as the end of the utterance does.            *)
PollFails == fpc = "poll" /\ ~FB!WaitSucceeds(output[flat])

FlatWait ==
  /\ spc[flat] = "wait" /\ fpc \in {"block", "poll"}
  /\ IF PollFails
     THEN /\ spc' = [spc EXCEPT ![flat] = "ending"]
          /\ UNCHANGED <<saVars, fbOtherVars>>
     ELSE FB!WaitFrame(flat)
  /\ FlatGoes("expand")
  /\ UNCHANGED <<abVars, tpc, frameIdx, endWin>>

FlatGet ==
  /\ FB!GetFrame(flat)
  /\ UNCHANGED <<abVars, tpc, flatVars>>

StartWin == IF frameIdx > SfWin THEN frameIdx - SfWin ELSE 0

(* The arcs of start_win .. end_win - 1 are expanded under the lock, with  *)
(* end_win moved to this frame.                                            *)
FlatExpand ==
  /\ spc[flat] = "search" /\ fpc = "expand"
  /\ endWin' = frameIdx + SfWin
  /\ FlatGoes("search")
  /\ UNCHANGED <<fbVars, abVars, tpc, frameIdx>>

FlatSearched ==
  /\ fpc = "search"
  /\ FB!ReleaseFrame(flat)
  /\ FlatGoes("release")
  /\ UNCHANGED <<abVars, tpc, frameIdx, endWin>>

(* fwdflat_search_one_frame returns 0: back to the outer loop, without     *)
(* releasing and with frame_idx as it was.                                 *)
FlatFails ==
  /\ FlatMayFail
  /\ spc[flat] = "search" /\ fpc = "search"
  /\ spc' = [spc EXCEPT ![flat] = "wait"]
  /\ FlatGoes("outer")
  /\ UNCHANGED <<saVars, fbOtherVars, abVars, tpc, frameIdx, endWin>>

(* Mutants: only the arcs that start in this frame or later are kept; all  *)
(* up to the end of the window are given back.                             *)
FirstNeededIsFrame == frameIdx
FirstNeededIsEnd == endWin + 1

FirstNeeded == StartWin

FlatReleaseArcs ==
  /\ fpc = "release"
  /\ AbRelease(FirstNeeded)
  /\ frameIdx' = frameIdx + 1
  /\ FlatGoes("test")
  /\ UNCHANGED <<fbVars, tpc, endWin>>

FlatEndArcs ==
  /\ spc[flat] = "ending" /\ fpc # "done"
  /\ arcRelease' = arcRelease + 1
  /\ FlatGoes("done")
  /\ UNCHANGED <<fbVars, tableVars, bufVars, state, arcStart, evt, tpc, frameIdx, endWin>>

FlatEnd ==
  /\ fpc = "done"
  /\ FB!EndIndex(flat) \/ FB!EndRelease(flat) \/ FB!EndSignal(flat)
  /\ UNCHANGED <<abVars, tpc, flatVars>>

Flat ==
  \/ FlatDown \/ FlatStart \/ FlatStartArcs \/ FlatWaitArcs \/ FlatTest \/ FlatChoose
  \/ FlatWait \/ FlatGet \/ FlatExpand \/ FlatSearched \/ FlatReleaseArcs
  \/ FlatEndArcs \/ FlatEnd
-----------------------------------------------------------------------------
Stopped == FB!Stopped /\ UNCHANGED <<abVars, tpc, flatVars>>

Next ==
  \/ Ready /\ Producer
  \/ \E s \in Searches : Attach(s) \/ Detach(s)
  \/ Tree \/ TreeFails
  \/ Flat \/ FlatFails \/ FlatWakesSpuriously
  \/ Stopped

(* As in FeatBuf: each thread runs on, and the producer ends an utterance  *)
(* it has begun to end.                                                    *)
Spec ==
  /\ Init /\ [][Next]_vars
  /\ WF_vars(Tree) /\ WF_vars(Flat)
  /\ WF_vars(FB!EndOfUtt /\ UNCHANGED <<abVars, tpc, flatVars>>)
  /\ WF_vars(FB!ShutdownSignal /\ UNCHANGED <<abVars, tpc, flatVars>>)
-----------------------------------------------------------------------------
TypeOK ==
  /\ FB!TypeOK
  /\ AbTypeOK
  /\ tpc \in {"frame", "push", "sweep", "final", "await", "done"}
  /\ fpc \in {"start", "arcs", "outer", "test", "choose", "block", "poll", "expand",
              "search", "release", "done"}
  /\ frameIdx \in Nat /\ endWin \in Nat

(* Linked, the two passes cannot take each other's tokens: whatever way an *)
(* utterance ends for them, both have ended it when                        *)
(* featbuf_producer_end_utt returns.                                       *)
EndUttWaitsForAll ==
  [][FB!EndReturns => \A s \in FB!Holders : ended[s] = utt]_vars

(* A pass that does not give up ends the utterance having read every frame *)
(* of it: the way fwdflat alternates between the two buffers never makes it*)
(* take the end of its patience for the end of the utterance.              *)
SeesWholeUtterance == FB!SeesWholeUtterance

(* "Don't wait on the acoustic model as that could cause deadlock"         *)
(* (fwdflat_search.c): the poll for a frame always finds it.  Were it to   *)
(* time out, acmod->eou would be set and the utterance cut short.          *)
PollFindsTheFrame == spc[flat] = "wait" => ~PollFails

(* As long as the arc buffer is not final fwdflat expands a frame with the *)
(* arcs of its window in the buffer, but for those of the last start frame:*)
(* the inner loop tests end_win as the frame before left it.               *)
WindowLagsByOne ==
  spc[flat] = "search" /\ fpc = "search" /\ ~Eou => activeSf >= endWin - 1

(* The arcs fwdflat gives back are not those it needs again: what was swept*)
(* and starts in its window is in the buffer.                              *)
WindowIsHeld ==
  spc[flat] = "search" /\ fpc = "search" =>
    \A i \in DOMAIN retired :
      StartWin <= retired[i] /\ retired[i] < activeSf => \E p \in DOMAIN arcs : arcs[p] = i

(* arc_buffer_consumer_release reads the index of the frame it is given    *)
(* without a test: as long as fwdtree does not give up fwdflat names one   *)
(* the buffer has.                                                         *)
ReleasesWhatIsThere == fpc = "release" => ReleaseIsDefined(FirstNeeded)

(* The assertion fi == frame_idx in fwdflat_search_one_frame: the frames   *)
(* pushed so far are those searched.                                       *)
FramesAgree == spc[flat] = "search" /\ fpc = "search" => output[flat] - 1 = frameIdx

(* featbuf_producer_end_utt returns through both passes and the arc buffer *)
(* between them, and after a shutdown both threads end.                    *)
EndUttReturns == FB!EndUttReturns
ShutdownStopsAll == FB!ShutdownStopsAll
=============================================================================
