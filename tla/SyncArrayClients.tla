--------------------------- MODULE SyncArrayClients ---------------------------
(***************************************************************************)
(* A producer and its consumers on one synchronized array, between two     *)
(* resets.  A consumer retains the array, reads the elements in order with *)
(* sync_array_wait and sync_array_get, releases each one when it is done   *)
(* with it, releases what is left when its wait fails or when it gives up, *)
(* and frees its reference.  This is what acmod.c does through featbuf.c.  *)
(***************************************************************************)
EXTENDS SyncArray, FiniteSets

CONSTANTS
  Consumers,   (* the consumer threads                                     *)
  MaxItems,    (* bound: elements the producer appends                     *)
  ReleasesAll  (* TRUE: a consumer ends with sync_array_release_all, FALSE:*)
               (* with a release from the element it has reached           *)

ASSUME ClientsAssumption ==
  /\ IsFiniteSet(Consumers)
  /\ MaxItems \in Nat
  /\ ReleasesAll \in BOOLEAN

VARIABLES
  cons,      (* where each consumer is                                     *)
  pos,       (* the element each consumer has reached                      *)
  released   (* history: the elements each consumer has released, or that  *)
             (* were gone before it came                                   *)

clientVars == <<cons, pos, released>>
systemVars == <<refcount, base, next, count, final, cons, pos, released>>

Idle    == {"out", "refused", "freed"}
Reading == {"wait", "get", "release", "missed"}

(* The consumers that hold a reference. *)
Live == {c \in Consumers : cons[c] \notin Idle}

ClientsInit ==
  /\ SaInit
  /\ cons = [c \in Consumers |-> "out"]
  /\ pos = [c \in Consumers |-> 0]
  /\ released = [c \in Consumers |-> {}]
-----------------------------------------------------------------------------
(* The producer. *)

ProducerAppend == next < MaxItems /\ SaAppend /\ UNCHANGED clientVars

ProducerFinalize == SaFinalize /\ UNCHANGED clientVars

ProducerForceQuit == SaForceQuit /\ UNCHANGED clientVars

(* Consumer c. *)

MoveTo(c, where) == cons' = [cons EXCEPT ![c] = where]

Join(c) ==
  /\ cons[c] = "out"
  /\ SaRetain
  /\ MoveTo(c, "wait")
  /\ pos' = [pos EXCEPT ![c] = base]
  /\ released' = [released EXCEPT ![c] = 0 .. (base - 1)]

JoinRefused(c) ==
  /\ cons[c] = "out"
  /\ ~CanRetain
  /\ MoveTo(c, "refused")
  /\ UNCHANGED <<saVars, pos, released>>

WaitReturns(c) ==
  /\ cons[c] = "wait"
  /\ \/ WaitSucceeds(pos[c]) /\ MoveTo(c, "get")
     \/ WaitFails(pos[c])    /\ MoveTo(c, "ending")
  /\ UNCHANGED <<saVars, pos, released>>

Get(c) ==
  /\ cons[c] = "get"
  /\ MoveTo(c, IF GetSucceeds(pos[c]) THEN "release" ELSE "missed")
  /\ UNCHANGED <<saVars, pos, released>>

ReleaseOne(c) ==
  /\ cons[c] = "release"
  /\ SaRelease(pos[c], pos[c] + 1)
  /\ MoveTo(c, "wait")
  /\ pos' = [pos EXCEPT ![c] = @ + 1]
  /\ released' = [released EXCEPT ![c] = @ \cup {pos[c]}]

(* An error in the decoder ends a consumer before the array is final. *)
GiveUp(c) ==
  /\ cons[c] = "wait"
  /\ MoveTo(c, "ending")
  /\ UNCHANGED <<saVars, pos, released>>

ReleaseRest(c) ==
  /\ cons[c] = "ending"
  /\ SaRelease(IF ReleasesAll THEN 0 ELSE pos[c], next)
  /\ MoveTo(c, "gone")
  /\ released' = [released EXCEPT ![c] = @ \cup (pos[c] .. (next - 1))]
  /\ UNCHANGED pos

FreeReference(c) ==
  /\ cons[c] = "gone"
  /\ SaFree
  /\ MoveTo(c, "freed")
  /\ UNCHANGED <<pos, released>>

Consume(c) == WaitReturns(c) \/ Get(c) \/ ReleaseOne(c) \/ ReleaseRest(c)

Finished ==
  /\ final # Unset
  /\ \A c \in Consumers : cons[c] \in Idle \cup {"gone", "missed"}
  /\ UNCHANGED systemVars

ClientsNext ==
  \/ ProducerAppend
  \/ ProducerFinalize
  \/ ProducerForceQuit
  \/ \E c \in Consumers :
       Join(c) \/ JoinRefused(c) \/ Consume(c) \/ GiveUp(c) \/ FreeReference(c)
  \/ Finished

(* A consumer's thread keeps running; nothing obliges the producer to      *)
(* append or to finalize, nor a consumer to come, to fail or to free.      *)
ClientsSpec == ClientsInit /\ [][ClientsNext]_systemVars /\ \A c \in Consumers : WF_systemVars(Consume(c))
-----------------------------------------------------------------------------
ClientTypes ==
  /\ SaTypeOK
  /\ cons \in [Consumers -> Idle \cup Reading \cup {"ending", "gone"}]
  /\ pos \in [Consumers -> Nat]
  /\ released \in [Consumers -> SUBSET Nat]

(* The fields have their types, and the count of a held element is below   *)
(* the number of references: as these are at most 255, sync_array_release  *)
(* never makes a uint8 count wrap.                                         *)
ClientsTypeOK ==
  /\ ClientTypes
  /\ \A i \in Held : count[i] < refcount

(* sync_array_release gives an element back only when every consumer that  *)
(* holds a reference has released it (or came after it was given back).    *)
NoEarlyDrop == \A c \in Live : 0 .. (base - 1) \subseteq released[c]

(* "The waited-for element is guaranteed to be accessible": the get that   *)
(* follows a successful wait never fails, whatever the other consumers     *)
(* release in between.                                                     *)
WaitedElementIsAccessible == \A c \in Consumers : cons[c] # "missed"

Releasers(i) == {c \in Live : i \in released[c]}

(* No initial run of elements that all present consumers have released.    *)
NothingToReturn == Live # {} /\ base < next => Releasers(base) # Live

(* As long as no consumer freed its reference with elements unreleased,    *)
(* the uint8 count of a held element is exactly the number of consumers    *)
(* that released it, and an initial run released by all is never kept.     *)
FreedWithNothingLeft ==
  \A c \in Consumers : cons[c] = "freed" => 0 .. (next - 1) \subseteq released[c]

NoLeak ==
  FreedWithNothingLeft =>
    /\ \A i \in Held : count[i] = Cardinality(Releasers(i))
    /\ NothingToReturn

(* Once the array is final every reader is let go, however it waits.       *)
FinalResumesReaders ==
  (final # Unset) ~> (\A c \in Consumers : cons[c] \notin Reading \cup {"ending"})

MC == INSTANCE Multicast WITH
  Members <- Consumers,
  sent    <- next,
  closed  <- (final # Unset),
  low     <- base,
  present <- Live,
  acked   <- released

(* The counted array is a multicast channel: counts, clamping and shifting *)
(* never forget an element that a present member has not acknowledged.     *)
ImplementsMulticast == MC!Spec
=============================================================================
