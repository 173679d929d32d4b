------------------------------- MODULE FeatBuf -------------------------------
(***************************************************************************)
(* The feature buffer of multisphinx/multisphinx/featbuf.c with the threads*)
(* on both sides: a producer that runs utterances one after the other, and *)
(* search threads (search_main in search.c) that read the frames through   *)
(* acmod.c.  The searches here are independent of each other.              *)
(*                                                                         *)
(* fb->refcount and sa->refcount always move together, so one variable     *)
(* stands for both.  A semaphore is its value: sbsem_down blocks until it  *)
(* is positive.  Frames are identified by their index.                     *)
(***************************************************************************)
EXTENDS SyncArray, FiniteSets

CONSTANTS
  Searches,    (* the search threads                                       *)
  Win,         (* feat_window_size: frames of context on either side       *)
  MaxCeps,     (* bound: cepstrum frames in an utterance                   *)
  MaxUtts      (* bound: utterances                                        *)

ASSUME FeatBufAssumption ==
  /\ IsFiniteSet(Searches)
  /\ Cardinality(Searches) < MaxRefcount
  /\ Win \in Nat
  /\ MaxCeps \in Nat
  /\ MaxUtts \in Nat

VARIABLES
  start,      (* semaphore: searches that may start the utterance          *)
  release,    (* semaphore: searches that have finished with it            *)
  canceled,   (* set by featbuf_producer_shutdown                          *)
  ppc,        (* where the producer is                                     *)
  nth,        (* releases the producer still waits for                     *)
  mode,       (* how the utterance's input comes                           *)
  ceps,       (* cepstrum frames given to fcb in this utterance            *)
  owed,       (* features computed but not yet appended                    *)
  utt,        (* history: utterances started                               *)
  spc,        (* where each search is                                      *)
  output,     (* acmod->output_frame of each search                        *)
  upto,       (* the end index each search read in consumer_end_utt        *)
  seen,       (* history: frames each search got in its utterance          *)
  failed,     (* history: it gave up before the end of its utterance       *)
  ended       (* history: the last utterance each search ended             *)

producerVars == <<ppc, nth, mode, ceps, owed, utt>>
searchVars == <<spc, output, upto, seen, failed, ended>>
vars == <<saVars, start, release, canceled, producerVars, searchVars>>

Init ==
  /\ SaInit
  /\ start = 0 /\ release = 0 /\ canceled = FALSE
  /\ ppc = "idle" /\ nth = 0 /\ mode = "none" /\ ceps = 0 /\ owed = 0 /\ utt = 0
  /\ spc = [s \in Searches |-> "none"]
  /\ output = [s \in Searches |-> 0]
  /\ upto = [s \in Searches |-> 0]
  /\ seen = [s \in Searches |-> {}]
  /\ failed = [s \in Searches |-> FALSE]
  /\ ended = [s \in Searches |-> 0]
-----------------------------------------------------------------------------
(* The producer. *)

(* featbuf_producer_start_utt, in its order: the array first, then the     *)
(* flag, and only then the tokens that let the searches in.                *)
StartReset ==
  /\ ppc = "idle" /\ utt < MaxUtts
  /\ SaReset
  /\ utt' = utt + 1
  /\ \E m \in {"raw", "cep", "full"} : mode' = m
  /\ ceps' = 0
  /\ ppc' = "starting"
  /\ UNCHANGED <<start, release, canceled, nth, owed, searchVars>>

(* Mutants: a token for the producer's own reference too; one too few. *)
TokensForAllReferences == refcount
TokensOneLess == refcount - 2

Tokens == refcount - 1

StartSignal ==
  /\ ppc = "starting"
  /\ canceled' = FALSE
  /\ start' = Tokens
  /\ ppc' = "open"
  /\ UNCHANGED <<saVars, release, nth, mode, ceps, owed, utt, searchVars>>

(* feat_s2mfc2feat_live, n frames into an utterance that has not ended:    *)
(* the last Win frames wait for their right context.                       *)
FeaturesReady(n) == IF n > Win THEN n - Win ELSE 0

(* Input as it comes: one frame into fcb, what becomes ready is owed.      *)
ProcessCep ==
  /\ ppc = "open" /\ owed = 0 /\ mode \in {"raw", "cep"} /\ ceps < MaxCeps
  /\ ceps' = ceps + 1
  /\ owed' = FeaturesReady(ceps') - next
  /\ UNCHANGED <<saVars, start, release, canceled, ppc, nth, mode, utt, searchVars>>

(* A whole utterance in one call (full_utt): nothing stays in fcb. *)
ProcessFull ==
  /\ ppc = "open" /\ mode = "full" /\ ceps = 0
  /\ \E n \in 1 .. MaxCeps : ceps' = n /\ owed' = n
  /\ UNCHANGED <<saVars, start, release, canceled, ppc, nth, mode, utt, searchVars>>

ProcessFeat ==
  /\ owed > 0
  /\ SaAppend
  /\ owed' = owed - 1
  /\ UNCHANGED <<start, release, canceled, ppc, nth, mode, ceps, utt, searchVars>>

(* featbuf_producer_end_utt: fe_end_utt yields one more frame when audio   *)
(* is left over, as it always is once live audio has made a frame, and that*)
(* frame's call of feat_s2mfc2feat_live, with endutt set, flushes fcb.     *)
(* When it yields none the loop of featbuf_producer_process_cep is not     *)
(* entered.                                                                *)
Drain ==
  /\ ppc = "open" /\ owed = 0
  /\ \/ mode = "raw" /\ ceps' = ceps + 1 /\ owed' = ceps' - next
     \/ (mode = "raw" => ceps = 0) /\ UNCHANGED <<ceps, owed>>
  /\ ppc' = "draining"
  /\ UNCHANGED <<saVars, start, release, canceled, nth, mode, utt, searchVars>>

(* Mutant: finalizing without the drained frames. *)
DrainedAtOnce == TRUE

Drained == owed = 0

(* Mutants: one release is enough; one is expected of the producer.        *)
AwaitedOneLess == refcount - 2
AwaitedAllReferences == refcount

Awaited == refcount - 1

Finalize ==
  /\ ppc = "draining" /\ Drained
  /\ SaFinalize
  /\ nth' = Awaited
  /\ ppc' = "awaiting"
  /\ UNCHANGED <<start, release, canceled, mode, ceps, owed, utt, searchVars>>

AwaitRelease ==
  /\ ppc = "awaiting" /\ nth > 0 /\ release > 0
  /\ nth' = nth - 1
  /\ release' = release - 1
  /\ UNCHANGED <<saVars, start, canceled, ppc, mode, ceps, owed, utt, searchVars>>

EndReturns ==
  /\ ppc = "awaiting" /\ nth = 0
  /\ ppc' = "idle"
  /\ UNCHANGED <<saVars, start, release, canceled, nth, mode, ceps, owed, utt, searchVars>>

ShutdownFlag ==
  /\ ppc = "idle"
  /\ canceled' = TRUE
  /\ ppc' = "stopping"
  /\ UNCHANGED <<saVars, start, release, nth, mode, ceps, owed, utt, searchVars>>

ShutdownSignal ==
  /\ ppc = "stopping"
  /\ start' = Tokens
  /\ ppc' = "stopped"
  /\ UNCHANGED <<saVars, release, canceled, nth, mode, ceps, owed, utt, searchVars>>

EndOfUtt == ProcessFeat \/ Finalize \/ AwaitRelease \/ EndReturns
Shutdown == ShutdownFlag \/ ShutdownSignal
Produce == StartReset \/ StartSignal \/ ProcessCep \/ ProcessFull \/ Drain \/ EndOfUtt \/ Shutdown
-----------------------------------------------------------------------------
(* Search s. *)

GoTo(s, where) == spc' = [spc EXCEPT ![s] = where]

(* acmod_init or acmod_copy takes the reference, search_run the thread. *)
Attach(s) ==
  /\ spc[s] = "none" /\ ppc = "idle"
  /\ SaRetain
  /\ GoTo(s, "start")
  /\ UNCHANGED <<start, release, canceled, producerVars, output, upto, seen, failed, ended>>

StartDown(s) ==
  /\ spc[s] = "start" /\ start > 0
  /\ start' = start - 1
  /\ GoTo(s, "started")
  /\ UNCHANGED <<saVars, release, canceled, producerVars, output, upto, seen, failed, ended>>

(* The test of fb->canceled, outside the semaphore's mutex. *)
StartUtt(s) ==
  /\ spc[s] = "started"
  /\ GoTo(s, IF canceled THEN "gone" ELSE "wait")
  /\ output' = [output EXCEPT ![s] = 0]
  /\ seen' = [seen EXCEPT ![s] = {}]
  /\ failed' = [failed EXCEPT ![s] = FALSE]
  /\ UNCHANGED <<saVars, start, release, canceled, producerVars, upto, ended>>

WaitFrame(s) ==
  /\ spc[s] = "wait"
  /\ \/ WaitSucceeds(output[s]) /\ GoTo(s, "get")
     \/ WaitFails(output[s])    /\ GoTo(s, "ending")
  /\ UNCHANGED <<saVars, start, release, canceled, producerVars,
                 output, upto, seen, failed, ended>>

(* The result of sync_array_get is ignored: when it fails the search goes  *)
(* on with whatever its buffer holds.  acmod_score waits for the frame and *)
(* gets it once more, to the same effect.                                  *)
GetFrame(s) ==
  /\ spc[s] = "get"
  /\ IF GetSucceeds(output[s])
     THEN seen' = [seen EXCEPT ![s] = @ \cup {output[s]}]
     ELSE UNCHANGED seen
  /\ output' = [output EXCEPT ![s] = @ + 1]
  /\ GoTo(s, "search")
  /\ UNCHANGED <<saVars, start, release, canceled, producerVars, upto, failed, ended>>

ReleaseFrame(s) ==
  /\ spc[s] = "search"
  /\ SaRelease(output[s] - 1, output[s])
  /\ GoTo(s, "wait")
  /\ UNCHANGED <<start, release, canceled, producerVars, output, upto, seen, failed, ended>>

(* "recognition has failed, don't bother to keep trying": the frame just   *)
(* searched is not released.                                               *)
SearchFails(s) ==
  /\ spc[s] = "search"
  /\ failed' = [failed EXCEPT ![s] = TRUE]
  /\ GoTo(s, "ending")
  /\ UNCHANGED <<saVars, start, release, canceled, producerVars, output, upto, seen, ended>>

(* featbuf_consumer_end_utt: the end index, the release and the semaphore  *)
(* in three critical sections.                                             *)
EndIndex(s) ==
  /\ spc[s] = "ending"
  /\ upto' = [upto EXCEPT ![s] = next]
  /\ GoTo(s, "releasing")
  /\ UNCHANGED <<saVars, start, release, canceled, producerVars, output, seen, failed, ended>>

EndRelease(s) ==
  /\ spc[s] = "releasing"
  /\ SaRelease(output[s], upto[s])
  /\ GoTo(s, "signalling")
  /\ UNCHANGED <<start, release, canceled, producerVars, output, upto, seen, failed, ended>>

EndSignal(s) ==
  /\ spc[s] = "signalling"
  /\ release' = release + 1
  /\ ended' = [ended EXCEPT ![s] = utt]
  /\ GoTo(s, "start")
  /\ UNCHANGED <<saVars, start, canceled, producerVars, output, upto, seen, failed>>

(* search_free after search_wait. *)
Detach(s) ==
  /\ spc[s] = "gone" /\ ppc = "stopped"
  /\ SaFree
  /\ GoTo(s, "freed")
  /\ UNCHANGED <<start, release, canceled, producerVars, output, upto, seen, failed, ended>>

Search(s) ==
  \/ StartDown(s) \/ StartUtt(s)
  \/ WaitFrame(s) \/ GetFrame(s) \/ ReleaseFrame(s)
  \/ EndIndex(s) \/ EndRelease(s) \/ EndSignal(s)

Stopped ==
  /\ ppc = "stopped"
  /\ \A s \in Searches : spc[s] \in {"none", "gone", "freed"}
  /\ UNCHANGED vars

Next ==
  \/ Produce
  \/ \E s \in Searches : Attach(s) \/ Search(s) \/ SearchFails(s) \/ Detach(s)
  \/ Stopped

(* Threads keep running: a search through its loop, the producer through   *)
(* featbuf_producer_end_utt and _shutdown once it has called them.  When   *)
(* it calls them is its client's business.                                 *)
Spec ==
  /\ Init /\ [][Next]_vars
  /\ \A s \in Searches : WF_vars(Search(s))
  /\ WF_vars(EndOfUtt)
  /\ WF_vars(ShutdownSignal)
-----------------------------------------------------------------------------
Outside == {"none", "start", "gone", "freed"}
Inside  == {"started", "wait", "get", "search", "ending", "releasing", "signalling"}

TypeOK ==
  /\ SaTypeOK
  /\ start \in Nat /\ release \in Nat /\ canceled \in BOOLEAN
  /\ ppc \in {"idle", "starting", "open", "draining", "awaiting", "stopping", "stopped"}
  /\ nth \in Nat /\ mode \in {"none", "raw", "cep", "full"}
  /\ ceps \in Nat /\ owed \in Nat /\ utt \in 0 .. MaxUtts
  /\ spc \in [Searches -> Outside \cup Inside]
  /\ output \in [Searches -> Nat] /\ upto \in [Searches -> Nat]
  /\ seen \in [Searches -> SUBSET Nat]
  /\ failed \in [Searches -> BOOLEAN] /\ ended \in [Searches -> 0 .. MaxUtts]

Busy == {s \in Searches : spc[s] \in Inside}

(* featbuf_producer_start_utt resets the array under no lock of its own:   *)
(* from the return of featbuf_producer_end_utt until the next tokens no    *)
(* search is between its start and its end of an utterance, and no token   *)
(* of the last utterance is left.                                          *)
QuietBetweenUtterances ==
  ppc \in {"idle", "starting", "stopping"} =>
    /\ Busy = {}
    /\ release = 0
    /\ utt > 0 => start = 0

(* A search that did not fail ends its utterance having read every frame   *)
(* of it, each one still there when it asked for it.                       *)
SeesWholeUtterance ==
  \A s \in Searches :
    spc[s] \in {"ending", "releasing", "signalling"} /\ ~failed[s] =>
      final = next /\ seen[s] = 0 .. (next - 1)

(* "This function blocks until all consumers release the final frame of    *)
(* the utterance" (featbuf_producer_end_utt in featbuf.h): when it has     *)
(* returned every search that holds the buffer has ended this utterance.   *)
Holders == {s \in Searches : spc[s] \in {"start"} \cup Inside}

EndUttWaitsForAll ==
  [][EndReturns => \A s \in Holders : ended[s] = utt]_vars

(* Audio and whole utterances: every frame that went in has come out when  *)
(* the array is final.  Live cepstra are left out: for them nothing flushes*)
(* fcb, and the last Win frames are lost.                                  *)
NoFeatureLost == ppc = "awaiting" /\ mode # "cep" => next = ceps

(* featbuf_producer_end_utt returns: no search waits for a frame that will *)
(* not come or for a token another one took, and every token comes back.   *)
EndUttReturns == ppc = "awaiting" ~> ppc = "idle"

(* After featbuf_producer_shutdown every search thread ends. *)
ShutdownStopsAll ==
  ppc = "stopped" ~> \A s \in Searches : spc[s] \in {"none", "gone", "freed"}
=============================================================================
