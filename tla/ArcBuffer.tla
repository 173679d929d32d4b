------------------------------ MODULE ArcBuffer ------------------------------
(***************************************************************************)
(* The arc buffer of multisphinx/multisphinx/arc_buffer.c: word arcs flow  *)
(* from the backpointer table of one search to the search after it, sorted *)
(* by the frame they start in.                                             *)
(*                                                                         *)
(* This module is the object, on top of what it needs of the producer's    *)
(* table.  Each operator is one function or one critical section of        *)
(* fab->mtx; the modules that EXTEND it add the threads.                   *)
(*                                                                         *)
(* Abstractions.  An arc is the index of its backpointer (from 1) and its  *)
(* start frame is retired[arc].  Scores, right contexts and words are left *)
(* out.  The counting sort of arc_buffer_commit is what it computes: the   *)
(* incoming arcs in order of start frame, and where each frame begins.     *)
(* Outside the critical sections active_sf = next_sf and active_arc is the *)
(* end of arcs, so one variable stands for each pair.  A consumer may read *)
(* them without the lock, but sees a frame only once its arcs are there:   *)
(* both are the last assignments of the section, active_sf before          *)
(* active_arc.                                                             *)
(***************************************************************************)
EXTENDS TableContract, FiniteSets

VARIABLES
  state,     (* INITIAL, RUNNING, FINAL or CANCELED                        *)
  arcStart,  (* semaphore: the consumer may start                          *)
  arcRelease,(* semaphore: the consumer has finished                       *)
  evt,       (* auto-reset event: arcs were committed                      *)
  nextIdx,   (* the table index to scan from                               *)
  activeSf,  (* first frame of incoming arcs                               *)
  sfBase,    (* first frame not given back                                 *)
  sfIdx,     (* for each frame since, the position of its first arc        *)
  arcBase,   (* position of the first arc not given back                   *)
  arcs       (* for each position since, its arc                           *)

bufVars == <<nextIdx, activeSf, sfBase, sfIdx, arcBase, arcs>>
syncVars == <<state, arcStart, arcRelease, evt>>
abVars == <<tableVars, bufVars, syncVars>>

EmptyFrom(base) == [i \in {} |-> base]

ActiveArc == arcBase + Cardinality(DOMAIN arcs)

AbInit ==
  /\ TableInit
  /\ state = "INITIAL" /\ arcStart = 0 /\ arcRelease = 0 /\ evt = FALSE
  /\ nextIdx = 1 /\ activeSf = 0
  /\ sfBase = 0 /\ sfIdx = EmptyFrom(0)
  /\ arcBase = 0 /\ arcs = EmptyFrom(0)
-----------------------------------------------------------------------------
(* arc_buffer_producer_start_utt, after bptbl_reset. *)
AbStartUtt ==
  /\ TableReset
  /\ nextIdx' = 1 /\ activeSf' = 0
  /\ sfBase' = 0 /\ sfIdx' = EmptyFrom(0)
  /\ arcBase' = 0 /\ arcs' = EmptyFrom(0)
  /\ state' = "RUNNING"
  /\ arcStart' = arcStart + 1
  /\ UNCHANGED <<arcRelease, evt>>

Precedes(i, j) == retired[i] < retired[j] \/ (retired[i] = retired[j] /\ i < j)

(* Mutant: arcs of frames already swept are taken again. *)
IncomingUnbounded(sf) == {i \in nextIdx .. Len(retired) : retired[i] < sf}

(* arc_buffer_add_bps: of the entries not scanned, those that start in the *)
(* frames active_sf .. sf - 1.                                             *)
Incoming(sf) == {i \in nextIdx .. Len(retired) : activeSf <= retired[i] /\ retired[i] < sf}

(* Mutant: the scan never goes back. *)
NextToScanIsEnd(sf) == Len(retired) + 1

(* The first entry that starts after the span, or the end. *)
NextToScan(sf) ==
  CHOOSE i \in nextIdx .. (Len(retired) + 1) :
    /\ i <= Len(retired) => retired[i] >= sf
    /\ \A j \in nextIdx .. (i - 1) : retired[j] < sf

(* Mutant: a frame begins after its own arcs. *)
FrameStartPastIt(sf, f) ==
  ActiveArc + Cardinality({j \in Incoming(sf) : retired[j] <= f})

(* Where the arcs of frame f begin once the span up to sf is committed. *)
FrameStart(sf, f) ==
  ActiveArc + Cardinality({j \in Incoming(sf) : retired[j] < f})

ArcPosition(sf, i) == ActiveArc + Cardinality({j \in Incoming(sf) : Precedes(j, i)})

(* arc_buffer_extend, _add_bps and _commit of the frames up to sf, which   *)
(* is bptbl_active_sf.                                                     *)
Deliver(sf) ==
  /\ nextIdx' = NextToScan(sf)
  /\ activeSf' = sf
  /\ sfIdx' = [f \in sfBase .. (sf - 1) |->
                 IF f < activeSf THEN sfIdx[f] ELSE FrameStart(sf, f)]
  /\ arcs' = [p \in arcBase .. (ActiveArc + Cardinality(Incoming(sf)) - 1) |->
                IF p < ActiveArc THEN arcs[p]
                ELSE CHOOSE i \in Incoming(sf) : ArcPosition(sf, i) = p]
  /\ evt' = TRUE
  /\ UNCHANGED <<sfBase, arcBase>>

AbSweep ==
  /\ IF bpSf # activeSf THEN Deliver(bpSf) ELSE UNCHANGED <<bufVars, evt>>
  /\ UNCHANGED <<tableVars, state, arcStart, arcRelease>>

(* Mutant: the last arcs are committed and the buffer stays RUNNING. *)
NeverFinal(delivered) == FALSE

MarksFinal(delivered) == delivered

(* The critical section of arc_buffer_producer_end_utt: the state becomes  *)
(* FINAL only when there are frames to deliver.                            *)
AbEndUtt ==
  /\ IF bpSf # activeSf THEN Deliver(bpSf) ELSE UNCHANGED <<bufVars, evt>>
  /\ state' = IF MarksFinal(bpSf # activeSf) THEN "FINAL" ELSE state
  /\ UNCHANGED <<tableVars, arcStart, arcRelease>>

AbShutdown ==
  /\ state' = "CANCELED"
  /\ arcStart' = arcStart + 1
  /\ UNCHANGED <<tableVars, bufVars, arcRelease, evt>>

Eou == state = "FINAL"

Canceled == state = "CANCELED"

(* sbevent_wait on the auto-reset event. *)
AbWait ==
  /\ evt
  /\ evt' = FALSE
  /\ UNCHANGED <<tableVars, bufVars, state, arcStart, arcRelease>>

(* It does not test the event again when it wakes, so a spurious wakeup of *)
(* the condition variable is a wait that succeeds.                         *)
AbWakeSpuriously == ~evt /\ UNCHANGED abVars

(* arc_buffer_iter returns an arc, and its position. *)
IterSucceeds(sf) == sf \in sfBase .. (activeSf - 1) /\ sfIdx[sf] < ActiveArc
IterPosition(sf) == sfIdx[sf]

(* arc_buffer_consumer_release reads sf_idx[first_sf]: there must be one.  *)
ReleaseIsDefined(sf) == sf = sfBase \/ sf \in DOMAIN sfIdx

(* With no such entry it reads past the array.  Whatever it reads, the base*)
(* of sf_idx is then past active_sf and no iterator succeeds any more, so  *)
(* what becomes of the arcs does not matter.                               *)
AbRelease(sf) ==
  /\ CASE sf = sfBase -> UNCHANGED <<sfBase, sfIdx, arcBase, arcs>>
       [] sf # sfBase /\ ReleaseIsDefined(sf) ->
            /\ sfBase' = sf
            /\ sfIdx' = [f \in sf .. (activeSf - 1) |-> sfIdx[f]]
            /\ arcBase' = sfIdx[sf]
            /\ arcs' = [p \in arcBase' .. (ActiveArc - 1) |-> arcs[p]]
       [] OTHER ->
            /\ sfBase' = sf
            /\ sfIdx' = EmptyFrom(sf)
            /\ arcBase' = ActiveArc
            /\ arcs' = EmptyFrom(ActiveArc)
  /\ UNCHANGED <<nextIdx, activeSf, tableVars, syncVars>>
-----------------------------------------------------------------------------
AbTypeOK ==
  /\ retired \in Seq(Nat) /\ bpSf \in Nat
  /\ state \in {"INITIAL", "RUNNING", "FINAL", "CANCELED"}
  /\ arcStart \in Nat /\ arcRelease \in Nat /\ evt \in BOOLEAN
  /\ nextIdx \in 1 .. (Len(retired) + 1)
  /\ activeSf \in Nat /\ sfBase \in Nat
  /\ sfIdx \in [sfBase .. (activeSf - 1) -> Nat]
  /\ arcBase \in Nat
  /\ arcs \in [arcBase .. (ActiveArc - 1) -> 1 .. Len(retired)]

(* The indices in sf_idx cut the arcs by start frame. *)
IsSorted ==
  \A f \in DOMAIN sfIdx, p \in DOMAIN arcs : p >= sfIdx[f] <=> retired[arcs[p]] >= f

(* The inductive invariant of the buffer: what was scanned starts before   *)
(* active_sf, and the arcs held are distinct and start between the base of *)
(* sf_idx and active_sf.                                                   *)
AbIInv ==
  /\ AbTypeOK
  /\ Cardinality(DOMAIN arcs) \in Nat
  /\ sfBase <= activeSf /\ activeSf <= bpSf
  /\ \A i \in 1 .. (nextIdx - 1) : retired[i] < activeSf
  /\ \A f \in DOMAIN sfIdx : arcBase <= sfIdx[f] /\ sfIdx[f] <= ActiveArc
  /\ \A p \in DOMAIN arcs : sfBase <= retired[arcs[p]] /\ retired[arcs[p]] < activeSf
  /\ \A p, q \in DOMAIN arcs : arcs[p] = arcs[q] => p = q
  /\ IsSorted

(* A buffer that was just reset, and one where the program starts, is      *)
(* empty.                                                                  *)
Emptied ==
  /\ retired = << >> /\ bpSf = 0 /\ nextIdx = 1 /\ activeSf = 0
  /\ sfBase = 0 /\ sfIdx = EmptyFrom(0) /\ arcBase = 0 /\ arcs = EmptyFrom(0)
  /\ arcStart \in Nat /\ arcRelease \in Nat /\ evt \in BOOLEAN
  /\ state \in {"INITIAL", "RUNNING", "FINAL", "CANCELED"}
=============================================================================
