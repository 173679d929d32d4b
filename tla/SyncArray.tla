------------------------------ MODULE SyncArray ------------------------------
(***************************************************************************)
(* The synchronized expandable array of                                    *)
(* multisphinx/sphinxbase/sync_array.c: one producer appends elements,     *)
(* every consumer holds a reference and releases the elements it has       *)
(* finished with, and an initial run of elements that all consumers have   *)
(* released is given back.                                                 *)
(*                                                                         *)
(* This module is the object alone.  Each operator is one function of the  *)
(* C file; all of them take sa->mtx for their whole body, so each is one   *)
(* atomic step.  The modules that EXTEND this one add the threads.         *)
(*                                                                         *)
(* Abstractions.  An element is identified by its index.  The two garrays  *)
(* data and count always move together (appended, shifted and reset in the *)
(* same critical section), so one base, one next index and the counts stand*)
(* for both.  The event evt is left out: an endless wait re-tests the      *)
(* array every 50 microseconds whatever the event does.                    *)
(***************************************************************************)
EXTENDS Integers

CONSTANT MaxRefcount   (* the largest reference count: 255 in the code     *)

ASSUME MaxRefcountAssumption == MaxRefcount \in Nat \ {0}

VARIABLES
  refcount,  (* references held: the producer's and one per consumer       *)
  base,      (* index of the first element still held                      *)
  next,      (* index of the next element to be appended                   *)
  count,     (* for each held element, how often it was released           *)
  final      (* the number of elements once it is settled, else Unset      *)

saVars == <<refcount, base, next, count, final>>

(* (size_t)-1, which no index reaches. *)
Unset == -1

(* count is a garray of uint8: an increment wraps. *)
CountModulus == MaxRefcount + 1

Held == base .. (next - 1)

(* Mutant: a reader of the first index past the end is kept waiting. *)
PastFinalOffByOne(idx) == final # Unset /\ idx > final

(* idx >= sa->final_next_idx. *)
PastFinal(idx) == final # Unset /\ idx >= final

SaInit ==
  /\ refcount = 1
  /\ base = 0
  /\ next = 0
  /\ count = [i \in {} |-> 0]
  /\ final = Unset
-----------------------------------------------------------------------------
CanRetain == refcount # MaxRefcount

SaRetain ==
  /\ CanRetain
  /\ refcount' = refcount + 1
  /\ UNCHANGED <<base, next, count, final>>

(* Mutant: the counts are left as they are. *)
SaFreeKeepsCounts ==
  /\ refcount > 1
  /\ refcount' = refcount - 1
  /\ UNCHANGED <<base, next, count, final>>

(* sync_array_free by one of several owners: it cannot know which elements *)
(* the caller had released, so it takes one from every positive count, and *)
(* it releases nothing.                                                    *)
SaFree ==
  /\ refcount > 1
  /\ refcount' = refcount - 1
  /\ count' = [i \in Held |-> IF count[i] > 0 THEN count[i] - 1 ELSE 0]
  /\ UNCHANGED <<base, next, final>>

(* Mutant: nothing can be waited for once the array is final. *)
WaitFailsOnceFinal(idx) == final # Unset

(* The two ways out of sync_array_wait(idx, -1, ...), tested in this order. *)
WaitSucceeds(idx) == next > idx
WaitFails(idx) == ~WaitSucceeds(idx) /\ PastFinal(idx)

GetSucceeds(idx) == idx \in Held

(* Mutant: appending without looking at final_next_idx. *)
CanAppendAlways == TRUE

CanAppend == ~PastFinal(next)

SaAppend ==
  /\ CanAppend
  /\ next' = next + 1
  /\ count' = [i \in base .. next |-> IF i = next THEN 0 ELSE count[i]]
  /\ UNCHANGED <<refcount, base, final>>

SaFinalize ==
  /\ final = Unset
  /\ final' = next
  /\ UNCHANGED <<refcount, base, next, count>>

SaForceQuit ==
  /\ final' = 0
  /\ UNCHANGED <<refcount, base, next, count>>

SaReset ==
  /\ base' = 0
  /\ next' = 0
  /\ count' = [i \in {} |-> 0]
  /\ final' = Unset
  /\ UNCHANGED refcount

(* Mutant: releasing from the base, whatever start is. *)
ReleasedFromBase(start, end) ==
  [i \in Held |-> IF i < end THEN (count[i] + 1) % CountModulus ELSE count[i]]

(* The counts after one more release of the elements start .. end - 1; the *)
(* clamping of start and end to the held range is the intersection.        *)
Released(start, end) ==
  [i \in Held |-> IF start <= i /\ i < end
                  THEN (count[i] + 1) % CountModulus
                  ELSE count[i]]

(* Mutants: one consumer is enough; the producer is expected to release. *)
IsFirstReachableByOne(cnt, i) ==
  /\ i \in base .. next
  /\ \A j \in base .. (i - 1) : cnt[j] > 0
  /\ i < next => cnt[i] = 0

IsFirstReachableByProducer(cnt, i) ==
  /\ i \in base .. next
  /\ \A j \in base .. (i - 1) : cnt[j] >= refcount
  /\ i < next => cnt[i] < refcount

(* The first held element with a count short of refcount - 1. *)
IsFirstReachable(cnt, i) ==
  /\ i \in base .. next
  /\ \A j \in base .. (i - 1) : cnt[j] >= refcount - 1
  /\ i < next => cnt[i] < refcount - 1

SaRelease(start, end) ==
  /\ IF \E i \in Held : start <= i /\ i < end
     THEN \E first \in base .. next :
            /\ IsFirstReachable(Released(start, end), first)
            /\ base' = first
            /\ count' = [i \in first .. (next - 1) |-> Released(start, end)[i]]
     ELSE UNCHANGED <<base, count>>
  /\ UNCHANGED <<refcount, next, final>>
-----------------------------------------------------------------------------
SaTypeOK ==
  /\ refcount \in 1 .. MaxRefcount
  /\ base \in Nat
  /\ next \in Nat
  /\ base <= next
  /\ count \in [Held -> 0 .. (CountModulus - 1)]
  /\ final \in Nat \cup {Unset}
=============================================================================
