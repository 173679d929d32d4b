-------------------------------- MODULE Bptbl --------------------------------
(***************************************************************************)
(* The backpointer table of multisphinx/multisphinx/bptbl.c: word exits    *)
(* enter as active entries, frame by frame; when the oldest history of the *)
(* search has moved on, what cannot be reached any more is dropped and the *)
(* rest is retired, which renumbers it and moves its right context scores. *)
(*                                                                         *)
(* One search thread owns the table.  The search is reduced to what it     *)
(* tells the table: every history it holds is at least oldest_bp, which    *)
(* never goes back, and a word is left at the earliest in the frame after  *)
(* it was entered.                                                         *)
(*                                                                         *)
(* Abstractions.  Words and scores are left out.  A score in the array rc  *)
(* is the entry it belongs to.  The valid flag is FALSE only inside        *)
(* bptbl_gc, or from fwdtree_maxwpf to the bptbl_commit after it, which are*)
(* one action here.  The entries of one garray lie between its base and its*)
(* next index.                                                             *)
(***************************************************************************)
EXTENDS Integers, SequencesExt

CONSTANTS
  MaxFrames,   (* bound: frames in an utterance                            *)
  MaxEntries,  (* bound: entries in an utterance                           *)
  RcSizes      (* how many right context scores an entry may have          *)

ASSUME BptblAssumption ==
  /\ {MaxFrames, MaxEntries} \subseteq Nat
  /\ RcSizes \subseteq Nat

VARIABLES
  ret,       (* the retired entries, from index 0                          *)
  ent,       (* the active entries                                         *)
  entBase,   (* bptbl_active_idx                                           *)
  entNext,   (* bptbl_end_idx                                              *)
  efIdx,     (* for each frame from activeFr on, its first entry           *)
  activeFr,  (* bptbl_active_frame                                         *)
  nFrame,    (* frames pushed                                              *)
  oldestBp,  (* oldest retired entry an active one points to               *)
  rc,        (* right context scores, position 0 first                     *)
  destS,     (* dest_s_idx: where the scores of the retired entries end    *)
  pc,        (* where the search is in a frame                             *)
  lo,        (* the oldest_bp of the search                                *)
  entered    (* history: entries entered                                   *)

framesVars == <<efIdx, activeFr, nFrame>>
entriesVars == <<ret, ent, entBase, entNext, oldestBp, rc, destS>>
vars == <<entriesVars, framesVars, pc, lo, entered>>

NoBp == -1

Init ==
  /\ ret = <<>> /\ ent = <<>> /\ entBase = 0 /\ entNext = 0
  /\ efIdx = <<>> /\ activeFr = 0 /\ nFrame = 0
  /\ oldestBp = NoBp /\ rc = <<>> /\ destS = 0
  /\ pc = "push" /\ lo = NoBp /\ entered = 0
-----------------------------------------------------------------------------
(* bptbl_ent, where bp is not NO_BP: the two arrays share their indices. *)
Entry(bp) == IF bp < entBase THEN ret[bp + 1] ELSE ent[bp]

EndFrame(bp) == IF bp = NoBp THEN -1 ELSE Entry(bp).frame

(* bptbl_sf *)
StartFrame(e) == EndFrame(e.bp) + 1

(* bptbl_active_sf *)
ActiveSf == EndFrame(oldestBp) + 1

(* bptbl_ef_idx *)
EfIdx(f) ==
  CASE f < activeFr -> 0
    [] f >= nFrame  -> entNext
    [] OTHER        -> efIdx[f]

Exits(from, to) == EfIdx(from) .. (EfIdx(to) - 1)

PredecessorFrames(entries) == {f \in {EndFrame(ent[i].bp) : i \in entries} : f >= activeFr}

(* Mutant: the walk stops a frame short. *)
NextGcFrEarly(frames) == Max(frames \cup {1}) - 1

NextGcFr(frames) == Max(frames \cup {0})

(* A pass of bptbl_mark takes the frames set up to last, marks them and    *)
(* sets the frames their entries point to.                                 *)
MarkPass(p) ==
  LET here == {f \in p.set : f <= p.last}
      back == PredecessorFrames(UNION {Exits(f, f + 1) : f \in here})
  IN  [set |-> (p.set \ here) \cup back, last |-> NextGcFr(back), marked |-> p.marked \cup here]

(* bptbl_mark: the passes end when one sets no frame. *)
Marked(ef, cf) ==
  LET pass[k \in 0 .. ef] ==
        IF k = 0
        THEN [set |-> PredecessorFrames(Exits(ef, cf)), last |-> ef - 1, marked |-> {}]
        ELSE MarkPass(pass[k - 1])
  IN  pass[ef].marked

(* The entries before ef that survive a collection. *)
Survivors(ef, cf) == UNION {Exits(f, f + 1) : f \in Marked(ef, cf)}
-----------------------------------------------------------------------------
(* garray_move: n scores from position src to position dest, or nothing if *)
(* they do not lie in the array.                                           *)
Moved(scores, dest, src, n) ==
  [p \in DOMAIN scores |->
     IF /\ {src, dest} \subseteq 0 .. (Len(scores) - n)
        /\ dest < p /\ p <= dest + n
     THEN scores[src + p - dest] ELSE scores[p]]

(* A round of the loop that moves the scores of the entries of K down.     *)
MoveScores(K, i, c) ==
  IF i \in K
  THEN [rc |-> Moved(c.rc, c.dest, ent[i].s, ent[i].n), dest |-> c.dest + ent[i].n]
  ELSE c

(* The loop over the entries between from and to: where the scores of each *)
(* one go, and what rc becomes.                                            *)
Compaction(K, from, to, scores, dest) ==
  LET c[i \in from .. to] ==
        IF i = from THEN [rc |-> scores, dest |-> dest] ELSE MoveScores(K, i - 1, c[i - 1])
  IN  c

(* The entries of K from the first to the last. *)
InOrder(K) ==
  [k \in 1 .. Cardinality(K) |-> CHOOSE i \in K : Cardinality({j \in K : j < i}) = k - 1]

(* Mutant: the entries dropped are counted. *)
PermuteAll(K, bp) == Len(ret) + bp - entBase

(* bptbl->permute *)
Permute(K, bp) ==
  IF bp \in K THEN Len(ret) + Cardinality({i \in K : i < bp}) ELSE NoBp

IsRemapped(eidx, bp) == entBase <= bp /\ bp < eidx

Remap(K, eidx, bp) == IF IsRemapped(eidx, bp) THEN Permute(K, bp) ELSE bp

(* Mutant: the active entries are not looked at. *)
OldestOfNone(entries, retiredIdx) == retiredIdx - 1

(* The end of bptbl_remap. *)
Oldest(entries, retiredIdx) ==
  Min({retiredIdx - 1} \cup {entries[i].bp : i \in DOMAIN entries})

(* Mutant: dest_s_idx moves past the active entries too. *)
DestOfAll(retiring, active) == active

(* Where the next collection goes on: the scores of the active entries have*)
(* only moved closer.                                                      *)
DestOf(retiring, active) == retiring

(* garray_expand_to asserts that it is not asked for an empty array, which *)
(* bptbl_retire asks for when there is nothing to retire and never was.    *)
Aborts(K) == ret = <<>> /\ K = {}

(* bptbl_retire and bptbl_remap: of the entries before eidx those of K are *)
(* retired.                                                                *)
Retire(K, eidx) ==
  LET retiring == Compaction(K, entBase, eidx, rc, destS)
      active   == Compaction(eidx .. (entNext - 1), eidx, entNext,
                             retiring[eidx].rc, retiring[eidx].dest)
      order    == InOrder(K)
  IN  /\ ret' = ret \o [k \in DOMAIN order |->
                          [ent[order[k]] EXCEPT !.bp = Remap(K, eidx, @),
                                                !.s = retiring[order[k]].dest]]
      /\ ent' = [i \in eidx .. (entNext - 1) |->
                   [ent[i] EXCEPT !.bp = Remap(K, eidx, @), !.s = active[i].dest]]
      /\ rc' = IF eidx < entNext THEN SubSeq(active[entNext].rc, 1, active[entNext].dest)
               ELSE retiring[eidx].rc
      /\ destS' = DestOf(retiring[eidx].dest, active[entNext].dest)
      /\ entBase' = eidx
      /\ oldestBp' = Oldest(ent', Len(ret'))
-----------------------------------------------------------------------------
(* bptbl_push_frame and bptbl_gc. *)

(* oldest_bp, as compute_sen_active finds it. *)
Histories == {h \in {NoBp} \cup (entBase .. (entNext - 1)) : lo <= h}

NextActiveFr(oldest) == IF oldest = NoBp THEN 0 ELSE ent[oldest].frame

NeedsGc(oldest) == NextActiveFr(oldest) > activeFr + 1

NothingToGc(fr) == EfIdx(activeFr) = EfIdx(fr)

Push(oldest) ==
  /\ pc = "push" /\ nFrame < MaxFrames
  /\ lo' = oldest
  /\ nFrame' = nFrame + 1
  /\ UNCHANGED <<entNext, entered>>

(* ef_idx with the new frame, from frame fr on (bptbl_update_active). *)
FramesFrom(fr) ==
  /\ activeFr' = fr
  /\ efIdx' = [f \in fr .. nFrame |-> EfIdx(f)]

PushOnly(oldest) ==
  /\ Push(oldest) /\ ~NeedsGc(oldest)
  /\ FramesFrom(activeFr)
  /\ pc' = "enter"
  /\ UNCHANGED entriesVars

PushNothingToGc(oldest) ==
  /\ Push(oldest) /\ NeedsGc(oldest) /\ NothingToGc(NextActiveFr(oldest))
  /\ FramesFrom(NextActiveFr(oldest))
  /\ pc' = "enter"
  /\ UNCHANGED entriesVars

PushAndGc(oldest) ==
  LET fr   == NextActiveFr(oldest)
      kept == Survivors(fr, nFrame)
  IN  /\ Push(oldest) /\ NeedsGc(oldest) /\ ~NothingToGc(fr)
      /\ ~Aborts(kept)
      /\ Retire(kept, EfIdx(fr))
      /\ FramesFrom(fr)
      /\ pc' = "enter"

PushAborts(oldest) ==
  LET fr == NextActiveFr(oldest)
  IN  /\ Push(oldest) /\ NeedsGc(oldest) /\ ~NothingToGc(fr)
      /\ Aborts(Survivors(fr, nFrame))
      /\ FramesFrom(activeFr)
      /\ pc' = "aborted"
      /\ UNCHANGED entriesVars

PushFrame ==
  \E oldest \in Histories :
    PushOnly(oldest) \/ PushNothingToGc(oldest) \/ PushAndGc(oldest) \/ PushAborts(oldest)
-----------------------------------------------------------------------------
(* bptbl_enter: an exit in this frame of a word with history bp. *)
Enter(bp, n) ==
  /\ pc = "enter" /\ nFrame > 1 /\ entered < MaxEntries
  /\ bp < EfIdx(nFrame - 1)
  /\ entered' = entered + 1
  /\ ent' = [i \in entBase .. entNext |->
               IF i < entNext THEN ent[i]
               ELSE [frame |-> nFrame - 1, bp |-> bp, s |-> Len(rc), n |-> n,
                     id |-> entered', prev |-> IF bp = NoBp THEN 0 ELSE Entry(bp).id]]
  /\ entNext' = entNext + 1
  /\ rc' = rc \o [p \in 1 .. n |-> entered']
  /\ UNCHANGED <<ret, entBase, oldestBp, destS, framesVars, pc, lo>>

(* bptbl_update_bp: the same exit, found again with a better score. *)
Update(i, bp) ==
  /\ pc = "enter"
  /\ bp < EfIdx(nFrame - 1)
  /\ ent' = [ent EXCEPT ![i].bp = bp,
                        ![i].prev = IF bp = NoBp THEN 0 ELSE Entry(bp).id]
  /\ UNCHANGED <<ret, entBase, entNext, oldestBp, rc, destS, framesVars, pc, lo, entered>>

(* fwdtree_maxwpf leaves the exits K of this frame valid, bptbl_commit     *)
(* removes the others.                                                     *)
Commit(K) ==
  LET dest == EfIdx(nFrame - 1)
      order == InOrder(K)
      c == Compaction(K, dest, entNext, rc, IF dest < entNext THEN ent[dest].s ELSE 0)
  IN  /\ pc = "enter"
      /\ pc' = "push"
      /\ IF dest = entNext THEN UNCHANGED <<ent, entNext, rc>>
         ELSE /\ entNext' = dest + Cardinality(K)
              /\ ent' = [i \in entBase .. (entNext' - 1) |->
                           IF i < dest THEN ent[i]
                           ELSE LET src == order[i - dest + 1]
                                IN  [ent[src] EXCEPT !.s = c[src].dest]]
              /\ rc' = SubSeq(c[entNext].rc, 1, c[entNext].dest)
      /\ UNCHANGED <<ret, entBase, oldestBp, destS, framesVars, lo, entered>>

SearchFrame ==
  \/ \E bp \in Histories : \E n \in RcSizes : Enter(bp, n)
  \/ \E bp \in Histories, i \in Exits(nFrame - 1, nFrame) : Update(i, bp)
  \/ \E K \in SUBSET Exits(nFrame - 1, nFrame) : Commit(K)
-----------------------------------------------------------------------------
(* bptbl_finalize. *)

IsFinal == entNext = entBase

LastExits == Exits(nFrame - 1, nFrame)

FinalizeNothing ==
  /\ pc = "push" /\ nFrame > 0 /\ IsFinal
  /\ pc' = "done"
  /\ UNCHANGED <<entriesVars, framesVars, lo, entered>>

FinalizeAndRetire ==
  LET kept == Survivors(nFrame - 1, nFrame) \cup LastExits
  IN  /\ pc = "push" /\ ~IsFinal
      /\ ~Aborts(kept)
      /\ Retire(kept, entNext)
      /\ efIdx' = <<>> /\ activeFr' = nFrame
      /\ pc' = "done"
      /\ UNCHANGED <<nFrame, entNext, lo, entered>>

FinalizeAborts ==
  /\ pc = "push" /\ ~IsFinal
  /\ Aborts(Survivors(nFrame - 1, nFrame) \cup LastExits)
  /\ pc' = "aborted"
  /\ UNCHANGED <<entriesVars, framesVars, lo, entered>>

Finalize == FinalizeNothing \/ FinalizeAndRetire \/ FinalizeAborts

(* bptbl_reset, at the start of the next utterance. *)
Reset ==
  /\ pc = "done"
  /\ ret' = <<>> /\ ent' = <<>> /\ entBase' = 0 /\ entNext' = 0
  /\ efIdx' = <<>> /\ activeFr' = 0 /\ nFrame' = 0
  /\ oldestBp' = NoBp /\ rc' = <<>> /\ destS' = 0
  /\ pc' = "push" /\ lo' = NoBp /\ entered' = 0

Aborted == pc = "aborted" /\ UNCHANGED vars

Next == PushFrame \/ SearchFrame \/ Finalize \/ Reset \/ Aborted

Spec == Init /\ [][Next]_vars
-----------------------------------------------------------------------------
EntryType ==
  [frame : 0 .. (MaxFrames - 1), bp : {NoBp} \cup (0 .. MaxEntries), s : Nat, n : RcSizes,
   id : 1 .. MaxEntries, prev : 0 .. MaxEntries]

Entries == {ret[k] : k \in DOMAIN ret} \cup {ent[i] : i \in DOMAIN ent}

TypeOK ==
  /\ \A e \in Entries : e \in EntryType
  /\ DOMAIN ent = entBase .. (entNext - 1) /\ Len(ret) <= entBase
  /\ DOMAIN efIdx = activeFr .. (nFrame - 1)
  /\ {entBase, entNext, activeFr, nFrame, destS} \subseteq Nat
  /\ oldestBp \in {NoBp} \cup (0 .. (Len(ret) - 1))
  /\ rc \in Seq(1 .. MaxEntries) /\ destS <= Len(rc)
  /\ pc \in {"push", "enter", "done", "aborted"}
  /\ lo \in {NoBp} \cup (0 .. entNext) /\ entered \in 0 .. MaxEntries

(* Through every collection, renumbering and removal each entry points to  *)
(* the entry it was entered with, and that entry is still in the table:    *)
(* no hypothesis or word arc that is traced back ever takes another way.   *)
PredecessorsKept ==
  \A e \in Entries : IF e.bp = NoBp THEN e.prev = 0 ELSE Entry(e.bp).id = e.prev

(* The scores that are moved down as entries retire are never overwritten  *)
(* before they have moved: each entry still finds its own.                 *)
RcIntact ==
  \A e \in Entries : \A p \in 1 .. e.n : e.s + p <= Len(rc) /\ rc[e.s + p] = e.id

(* "No active backpointer has a starting frame before this one"            *)
(* (bptbl_active_sf in bptbl.h), on which the arc buffer relies.           *)
ActiveSfIsABound == \A i \in DOMAIN ent : StartFrame(ent[i]) >= ActiveSf

(* The reference for bptbl_mark: the frames of predecessors of entries in  *)
(* the frames from ef on, and of entries in such frames, from the last one *)
(* to the first.                                                           *)
Coaccessible(ef, cf) ==
  LET from[f \in activeFr .. ef] ==
        IF f = ef THEN {}
        ELSE from[f + 1] \cup
               ({f} \cap PredecessorFrames(
                  Exits(ef, cf) \cup UNION {Exits(g, g + 1) : g \in from[f + 1]}))
  IN  from[activeFr]

Retired(entries) == {entries[k].id : k \in DOMAIN entries}

CollectionStep ==
  \A oldest \in Histories : PushAndGc(oldest) =>
    Retired(ret') \ Retired(ret) =
      {ent[i].id : i \in UNION {Exits(f, f + 1) :
                       f \in Coaccessible(NextActiveFr(oldest), nFrame)}}

(* A collection retires exactly the entries of the frames that the search  *)
(* can still go back to.                                                   *)
RetiresTheCoaccessible == [][CollectionStep]_vars

TC == INSTANCE TableContract WITH
  retired <- [k \in DOMAIN ret |-> StartFrame(ret[k])],
  bpSf    <- ActiveSf

ContractStep ==
  /\ pc = "push" /\ pc' = "enter" => TC!TablePush(nFrame, MaxEntries)
  /\ pc' = "done" =>
       \/ LastExits # {} /\ TC!TableFinalize(nFrame, MaxEntries)
       \/ LastExits = {} /\ TC!TableFinalizeWithoutExit(nFrame)
  /\ pc = "done" => TC!TableReset

(* What ArcBuffer takes of its table: the steps of this one are no others. *)
KeepsTableContract == [][ContractStep]_vars

(* assert(next_idx != 0) in garray_expand_to (garray.c) does not fail. *)
NeverAborts == pc # "aborted"
=============================================================================
