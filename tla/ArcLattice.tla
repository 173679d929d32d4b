----------------------------- MODULE ArcLattice -----------------------------
(***************************************************************************)
(* An arc buffer between a search and a lattice generator, as test_latgen.c*)
(* links them: the search retires backpointers frame by frame and sweeps   *)
(* them into the buffer, latgen_search.c takes the arcs of one start frame *)
(* after the other and releases them.                                      *)
(*                                                                         *)
(* The search is reduced to what its backpointer table promises to the     *)
(* buffer: an entry retired now starts no earlier than the bptbl_active_sf *)
(* of before, and bptbl_finalize moves bptbl_active_sf past all that it    *)
(* retires.                                                                *)
(***************************************************************************)
EXTENDS ArcBuffer

CONSTANTS
  MaxFrames,  (* bound: frames searched in an utterance                    *)
  MaxArcs,    (* bound: entries retired in an utterance                    *)
  MaxUtts     (* bound: utterances                                         *)

ASSUME ArcLatticeAssumption ==
  {MaxFrames, MaxArcs, MaxUtts} \subseteq Nat

VARIABLES
  ppc,       (* where the search is                                        *)
  frames,    (* frames it has searched                                     *)
  utt,       (* history: utterances started                                *)
  lastExit,  (* history: whether a word ended in the last frame of one     *)
  lpc,       (* where latgen is                                            *)
  frameIdx,  (* latgen's frame_idx                                         *)
  taken,     (* history: the arcs latgen took, in its order                *)
  ended      (* history: the last utterance latgen ended                   *)

searchVars == <<ppc, frames, utt, lastExit>>
latgenVars == <<lpc, frameIdx, taken, ended>>
vars == <<abVars, searchVars, latgenVars>>

Init ==
  /\ AbInit
  /\ ppc = "idle" /\ frames = 0 /\ utt = 0 /\ lastExit = TRUE
  /\ lpc = "start" /\ frameIdx = 0 /\ taken = <<>> /\ ended = 0
-----------------------------------------------------------------------------
(* The search. *)

StartUtt ==
  /\ ppc = "idle" /\ utt < MaxUtts
  /\ AbStartUtt
  /\ utt' = utt + 1 /\ frames' = 0
  /\ ppc' = "push"
  /\ UNCHANGED <<lastExit, latgenVars>>

PushFrame ==
  /\ ppc = "push" /\ frames < MaxFrames
  /\ frames' = frames + 1
  /\ TablePush(frames, MaxArcs - 1 - Len(retired))
  /\ ppc' = "sweep"
  /\ UNCHANGED <<bufVars, syncVars, utt, lastExit, latgenVars>>

Sweep ==
  /\ ppc = "sweep"
  /\ AbSweep
  /\ ppc' = "push"
  /\ UNCHANGED <<frames, utt, lastExit, latgenVars>>

FinalizeTable ==
  /\ ppc = "push"
  /\ \/ TableFinalizeWithoutExit(frames) /\ lastExit' = FALSE
     \/ TableFinalize(frames, MaxArcs - Len(retired)) /\ lastExit' = TRUE
  /\ ppc' = "end"
  /\ UNCHANGED <<bufVars, syncVars, frames, utt, latgenVars>>

EndUtt ==
  /\ ppc = "end"
  /\ AbEndUtt
  /\ ppc' = "awaiting"
  /\ UNCHANGED <<frames, utt, lastExit, latgenVars>>

AwaitRelease ==
  /\ ppc = "awaiting" /\ arcRelease > 0
  /\ arcRelease' = arcRelease - 1
  /\ ppc' = "idle"
  /\ UNCHANGED <<tableVars, bufVars, state, arcStart, evt, frames, utt, lastExit,
                 latgenVars>>

Shutdown ==
  /\ ppc = "idle"
  /\ AbShutdown
  /\ ppc' = "stopped"
  /\ UNCHANGED <<frames, utt, lastExit, latgenVars>>

Search == StartUtt \/ PushFrame \/ Sweep \/ FinalizeTable \/ EndUtt \/ AwaitRelease \/ Shutdown
-----------------------------------------------------------------------------
(* latgen_search_decode. *)

StartDown ==
  /\ lpc = "start" /\ arcStart > 0
  /\ arcStart' = arcStart - 1
  /\ lpc' = IF Canceled THEN "gone" ELSE "wait"
  /\ frameIdx' = 0 /\ taken' = <<>>
  /\ UNCHANGED <<tableVars, bufVars, state, arcRelease, evt, searchVars, ended>>

Wait ==
  /\ lpc = "wait"
  /\ AbWait
  /\ lpc' = IF Canceled THEN "gone" ELSE "grab"
  /\ UNCHANGED <<searchVars, frameIdx, taken, ended>>

WakeSpuriously ==
  /\ lpc = "wait"
  /\ AbWakeSpuriously
  /\ lpc' = IF Canceled THEN "gone" ELSE "grab"
  /\ UNCHANGED <<searchVars, frameIdx, taken, ended>>

ArcsFrom(p) == {q \in p .. (ActiveArc - 1) : \A r \in p .. q : retired[arcs[r]] = frameIdx}

(* Under the lock: the arcs at the iterator, as long as they start in      *)
(* this frame.                                                             *)
Grab ==
  /\ lpc = "grab"
  /\ IF IterSucceeds(frameIdx)
     THEN LET first == IterPosition(frameIdx)
          IN  /\ taken' = taken \o [k \in 1 .. Cardinality(ArcsFrom(first)) |->
                                      arcs[first + k - 1]]
              /\ lpc' = "release"
     ELSE lpc' = "test" /\ UNCHANGED taken
  /\ UNCHANGED <<abVars, searchVars, frameIdx, ended>>

Release ==
  /\ lpc = "release"
  /\ AbRelease(frameIdx)
  /\ frameIdx' = frameIdx + 1
  /\ lpc' = "grab"
  /\ UNCHANGED <<searchVars, taken, ended>>

(* arc_buffer_eou, after the lock was given up. *)
TestEou ==
  /\ lpc = "test"
  /\ lpc' = IF Eou THEN "finish" ELSE "wait"
  /\ UNCHANGED <<abVars, searchVars, frameIdx, taken, ended>>

Finish ==
  /\ lpc = "finish"
  /\ arcRelease' = arcRelease + 1
  /\ ended' = utt
  /\ lpc' = "start"
  /\ UNCHANGED <<tableVars, bufVars, state, arcStart, evt, searchVars, frameIdx, taken>>

Latgen == StartDown \/ Wait \/ Grab \/ Release \/ TestEou \/ Finish

Stopped == ppc = "stopped" /\ lpc = "gone" /\ UNCHANGED vars

Next == Search \/ Latgen \/ WakeSpuriously \/ Stopped

(* Both threads run on; the search ends an utterance it has begun to end.  *)
Spec ==
  /\ Init /\ [][Next]_vars
  /\ WF_vars(Latgen)
  /\ WF_vars(EndUtt \/ AwaitRelease)
-----------------------------------------------------------------------------
TypeOK ==
  /\ AbTypeOK
  /\ ppc \in {"idle", "push", "sweep", "end", "awaiting", "stopped"}
  /\ frames \in 0 .. MaxFrames /\ utt \in 0 .. MaxUtts /\ lastExit \in BOOLEAN
  /\ lpc \in {"start", "wait", "grab", "release", "test", "finish", "gone"}
  /\ frameIdx \in Nat /\ taken \in Seq(Nat) /\ ended \in 0 .. MaxUtts

Held == {arcs[p] : p \in DOMAIN arcs}
Swept == {i \in DOMAIN retired : retired[i] < activeSf}
Taken == {taken[k] : k \in DOMAIN taken}

(* Within an utterance: what it has taken are arcs of this one. *)
Inside == {"wait", "grab", "release", "test", "finish"}

(* The frames of sf_idx cut the arcs at the right places: what lies from a *)
(* frame's index on starts in it or later, what lies before starts earlier.*)
FramesCutTheArcs ==
  \A f \in DOMAIN sfIdx, p \in DOMAIN arcs : p >= sfIdx[f] <=> retired[arcs[p]] >= f

(* The sweep neither loses nor duplicates an arc: whatever the order in    *)
(* which entries retire, each one that starts before active_sf has gone    *)
(* into the buffer exactly once, and only what latgen took has left it.    *)
SweptExactlyOnce ==
  /\ Cardinality(Held) = Cardinality(DOMAIN arcs)
  /\ Held \subseteq Swept
  /\ lpc \in Inside => Swept \ Held \subseteq Taken

(* latgen takes no arc twice, and takes them in order of start frame. *)
TakenInOrder ==
  lpc \in Inside =>
    \A j, k \in DOMAIN taken : j < k =>
      taken[j] # taken[k] /\ retired[taken[j]] <= retired[taken[k]]

(* "Sweep all remaining arcs from the bptbl into the arc buffer and mark   *)
(* it as final" (arc_buffer_producer_end_utt in arc_buffer.h).             *)
EndUttMarksFinal == ppc = "awaiting" => Eou

(* "Do this after marking the arc buffer final to avoid race conditions"   *)
(* (arc_buffer.c): a lattice generator that ends the utterance has all of  *)
(* its arcs.                                                               *)
EouMeansAllTaken == lpc = "finish" => Taken = DOMAIN retired

(* When a word ended in the last frame arc_buffer_producer_end_utt returns:*)
(* latgen is never left waiting for an event that was signalled before.    *)
EndUttReturns == ppc = "awaiting" /\ lastExit ~> ppc # "awaiting"
=============================================================================
