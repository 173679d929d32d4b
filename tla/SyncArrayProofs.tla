---------------------------- MODULE SyncArrayProofs ----------------------------
(***************************************************************************)
(* Proofs about the synchronized array and what is built on it.            *)
(*                                                                         *)
(* SyncArrayClients, for every set of consumers, reference limit and       *)
(* number of elements: its type invariant, that no element is given back   *)
(* early, that a waited-for element is accessible, and that the counted    *)
(* array implements Multicast.                                             *)
(*                                                                         *)
(* FeatBuf, for every set of searches, reference limit, window and number  *)
(* of frames and utterances: between utterances no search is in one, every *)
(* search that does not give up reads every frame, and of audio every      *)
(* frame becomes a feature.                                                *)
(***************************************************************************)
EXTENDS SyncArrayClients, FeatBuf, FiniteSetTheorems, TLAPS

-----------------------------------------------------------------------------
(* What the operations of the array do to its fields, whoever calls them. *)

(* sync_array_release returns only elements whose count, with this release,*)
(* reaches refcount - 1, and raises only the counts it is asked to raise.  *)
LEMMA ReleaseEffect ==
  ASSUME SaTypeOK, NEW from \in Nat, NEW to \in Nat, SaRelease(from, to)
  PROVE  /\ SaTypeOK'
         /\ base <= base' /\ base' <= next
         /\ next' = next /\ refcount' = refcount /\ final' = final
         /\ \A i \in Held' : i \in Held
                          /\ count'[i] <= IF from <= i /\ i < to
                                          THEN count[i] + 1 ELSE count[i]
         /\ \A i \in base .. (base' - 1) :
              i \in Held /\ refcount - 1 <= IF from <= i /\ i < to
                                            THEN count[i] + 1 ELSE count[i]
  <1> DEFINE new == Released(from, to)
  <1>1. /\ new \in [Held -> 0 .. (CountModulus - 1)]
        /\ \A i \in Held : new[i] <= IF from <= i /\ i < to
                                     THEN count[i] + 1 ELSE count[i]
    <2>1. CountModulus \in Nat /\ CountModulus > 0
      BY MaxRefcountAssumption DEF CountModulus
    <2>2. \A i \in Held : count[i] \in Nat /\ count[i] < CountModulus
      BY <2>1 DEF SaTypeOK
    <2>3. \A n \in Nat : n % CountModulus \in 0 .. (CountModulus - 1)
                      /\ n % CountModulus <= n
      BY <2>1
    <2>4. QED
      BY <2>1, <2>2, <2>3 DEF Released
  <1>2. CASE \E i \in Held : from <= i /\ i < to
    <2>1. PICK first \in base .. next :
            /\ IsFirstReachable(new, first)
            /\ base' = first
            /\ count' = [i \in first .. (next - 1) |-> new[i]]
      BY <1>2 DEF SaRelease
    <2>2. UNCHANGED <<refcount, next, final>>
      BY DEF SaRelease
    <2>3. \A i \in base .. (base' - 1) : i \in Held /\ new[i] >= refcount - 1
      BY <2>1 DEF IsFirstReachable, SaTypeOK, Held
    <2>4. \A i \in Held' : i \in Held /\ count'[i] = new[i]
      BY <2>1, <2>2 DEF SaTypeOK, Held
    <2>5. count' \in [Held' -> 0 .. (CountModulus - 1)]
      BY <1>1, <2>1, <2>2, <2>4 DEF Held
    <2>6. CountModulus' = CountModulus
      BY DEF CountModulus
    <2>7. SaTypeOK'
      BY <2>1, <2>2, <2>5, <2>6 DEF SaTypeOK
    <2>8. base <= base' /\ base' <= next /\ base \in Nat /\ base' \in Nat
      BY <2>1, <2>7 DEF SaTypeOK
    <2>9. \A i \in Held' : count'[i] <= IF from <= i /\ i < to
                                       THEN count[i] + 1 ELSE count[i]
      BY <1>1, <2>4
    <2>10. refcount \in Nat /\ \A i \in Held : count[i] \in Nat /\ new[i] \in Nat
      BY <1>1 DEF SaTypeOK, CountModulus
    <2>11. \A i \in base .. (base' - 1) :
             refcount - 1 <= IF from <= i /\ i < to
                             THEN count[i] + 1 ELSE count[i]
      <3> SUFFICES ASSUME NEW i \in base .. (base' - 1)
                   PROVE  refcount - 1 <= IF from <= i /\ i < to
                                          THEN count[i] + 1 ELSE count[i]
        OBVIOUS
      <3>1. i \in Held /\ new[i] >= refcount - 1
        BY <2>3
      <3>2. new[i] <= IF from <= i /\ i < to THEN count[i] + 1 ELSE count[i]
        BY <1>1, <3>1
      <3> HIDE DEF new
      <3>3. QED
        BY <2>10, <3>1, <3>2
    <2>12. QED
      BY <2>2, <2>3, <2>4, <2>7, <2>8, <2>9, <2>11
  <1>3. CASE ~ \E i \in Held : from <= i /\ i < to
    <2>1. UNCHANGED saVars
      BY <1>3 DEF SaRelease, saVars
    <2>2. QED
      BY <2>1, <1>3 DEF saVars, SaTypeOK, Held, CountModulus
  <1>4. QED
    BY <1>2, <1>3

(* As long as no count is at its limit, the counts are raised by exactly   *)
(* one, and what is kept begins with an element that is still wanted.      *)
LEMMA ReleaseCounts ==
  ASSUME SaTypeOK, NEW from \in Nat, NEW to \in Nat, SaRelease(from, to),
         \A i \in Held : from <= i /\ i < to => count[i] < MaxRefcount
  PROVE  /\ \A i \in Held' : count'[i] = IF from <= i /\ i < to
                                         THEN count[i] + 1 ELSE count[i]
         /\ (\E i \in Held : from <= i /\ i < to) /\ base' < next => count'[base'] < refcount - 1
  <1> DEFINE new == Released(from, to)
  <1>1. \A i \in Held : new[i] = IF from <= i /\ i < to THEN count[i] + 1 ELSE count[i]
    <2> SUFFICES ASSUME NEW i \in Held
                 PROVE  new[i] = IF from <= i /\ i < to THEN count[i] + 1 ELSE count[i]
      OBVIOUS
    <2>1. count[i] \in Nat /\ MaxRefcount \in Nat
      BY MaxRefcountAssumption DEF SaTypeOK, CountModulus
    <2>2. count[i] < MaxRefcount => (count[i] + 1) % (MaxRefcount + 1) = count[i] + 1
      BY <2>1
    <2>3. QED
      BY <2>2 DEF Released, CountModulus
  <1>2. CASE \E i \in Held : from <= i /\ i < to
    <2>1. PICK first \in base .. next :
            /\ IsFirstReachable(new, first)
            /\ base' = first
            /\ count' = [i \in first .. (next - 1) |-> new[i]]
      BY <1>2 DEF SaRelease
    <2>2. next' = next /\ first \in Int /\ next \in Int /\ base \in Int /\ base <= first
      BY <2>1 DEF SaRelease, SaTypeOK
    <2> HIDE DEF new
    <2>3. \A i \in Held' : i \in Held /\ count'[i] = new[i]
      <3>1. Held' = first .. (next - 1)
        BY <2>1, <2>2 DEF Held
      <3>2. QED
        BY <2>1, <2>2, <3>1 DEF Held
    <2>4. first < next => new[first] < refcount - 1 /\ count'[first] = new[first]
      <3>1. first < next => first \in first .. (next - 1)
        BY <2>2
      <3>2. QED
        BY <2>1, <3>1 DEF IsFirstReachable
    <2>5. QED
      BY <1>1, <2>1, <2>3, <2>4
  <1>3. CASE ~ \E i \in Held : from <= i /\ i < to
    BY <1>3 DEF SaRelease, Held
  <1>4. QED
    BY <1>2, <1>3

(* sync_array_append adds one element, which nobody has released.          *)
LEMMA AppendEffect ==
  ASSUME SaTypeOK, SaAppend
  PROVE  /\ SaTypeOK'
         /\ next' = next + 1
         /\ UNCHANGED <<refcount, base, final>>
         /\ \A i \in Held' : count'[i] = IF i = next THEN 0 ELSE count[i]
         /\ \A i \in Held' : i # next => i \in Held
  BY MaxRefcountAssumption DEF SaAppend, SaTypeOK, Held, CountModulus

(* sync_array_free takes a release back from every element that has one.   *)
LEMMA FreeEffect ==
  ASSUME SaTypeOK, SaFree
  PROVE  /\ SaTypeOK'
         /\ refcount' = refcount - 1
         /\ UNCHANGED <<base, next, final>>
         /\ \A i \in Held : count'[i] = IF count[i] > 0 THEN count[i] - 1 ELSE 0
  BY MaxRefcountAssumption DEF SaFree, SaTypeOK, Held, CountModulus

(* sync_array_retain counts the reference and nothing else.                *)
LEMMA RetainEffect ==
  ASSUME SaTypeOK, SaRetain
  PROVE  SaTypeOK' /\ refcount' = refcount + 1 /\ UNCHANGED <<base, next, count, final>>
  BY MaxRefcountAssumption DEF SaRetain, CanRetain, SaTypeOK, Held, CountModulus

(* The finalizing operations touch nothing but final. *)
LEMMA FinalEffect ==
  ASSUME SaTypeOK, SaFinalize \/ SaForceQuit
  PROVE  SaTypeOK' /\ UNCHANGED <<refcount, base, next, count>>
  BY DEF SaFinalize, SaForceQuit, SaTypeOK, Held, CountModulus

(* sync_array_reset leaves an empty array with its references.             *)
LEMMA ResetEffect ==
  ASSUME SaTypeOK, SaReset
  PROVE  /\ SaTypeOK' /\ refcount' = refcount
         /\ base' = 0 /\ next' = 0 /\ final' = Unset
  BY DEF SaReset, SaTypeOK, Held, CountModulus
-----------------------------------------------------------------------------
(* A producer and its consumers: the invariant. *)

(* The counts never claim more than what happened, and a consumer releases *)
(* only elements it has not released before.                               *)
CountsOfReleasers ==
  /\ refcount = Cardinality(Live) + 1
  /\ \A i \in Held : count[i] <= Cardinality(Releasers(i))

ReleasedBehindPosition ==
  \A c \in Consumers : cons[c] \in Reading \cup {"ending"} =>
    /\ released[c] \subseteq 0 .. (pos[c] - 1)
    /\ cons[c] \in {"get", "release"} => pos[c] < next

ClientsIInv ==
  /\ ClientTypes
  /\ CountsOfReleasers
  /\ ReleasedBehindPosition
  /\ NoEarlyDrop
  /\ WaitedElementIsAccessible
-----------------------------------------------------------------------------
(* Facts about finite sets of consumers. *)

LEMMA LiveFinite ==
  ASSUME IsFiniteSet(Consumers)
  PROVE  /\ IsFiniteSet(Live)
         /\ Cardinality(Live) \in Nat
         /\ \A i : IsFiniteSet(Releasers(i)) /\ Cardinality(Releasers(i)) \in Nat
  <1>1. IsFiniteSet(Live)
    BY FS_Subset DEF Live
  <1>2. \A i : IsFiniteSet(Releasers(i))
    BY <1>1, FS_Subset DEF Releasers
  <1>3. QED
    BY <1>1, <1>2, FS_CardinalityType

(* As many releasers as present consumers are all of them. *)
LEMMA AllReleased ==
  ASSUME IsFiniteSet(Consumers), NEW i, Cardinality(Releasers(i)) >= Cardinality(Live)
  PROVE  Releasers(i) = Live
  <1>1. IsFiniteSet(Live) /\ Releasers(i) \in SUBSET Live
    BY LiveFinite DEF Releasers
  <1>2. Cardinality(Releasers(i)) \in Nat /\ Cardinality(Live) \in Nat
    BY LiveFinite
  <1>3. Cardinality(Releasers(i)) <= Cardinality(Live)
    BY <1>1, FS_Subset
  <1>4. Cardinality(Releasers(i)) = Cardinality(Live)
    BY <1>2, <1>3
  <1>5. QED
    BY <1>1, <1>4, FS_Subset
-----------------------------------------------------------------------------
(* The invariant. *)

LEMMA ClientsInitIInv ==
  ASSUME IsFiniteSet(Consumers), MaxRefcount \in Nat \ {0}, ClientsInit
  PROVE  ClientsIInv
  <1>1. Live = {}
    BY DEF Live, ClientsInit, Idle
  <1>2. ClientTypes
    BY DEF ClientsInit, SaInit, ClientTypes, SaTypeOK, Held, Idle, CountModulus, Unset
  <1>3. CountsOfReleasers
    BY <1>1, FS_EmptySet DEF CountsOfReleasers, ClientsInit, SaInit, Held
  <1>4. QED
    BY <1>1, <1>2, <1>3 DEF ClientsIInv, ReleasedBehindPosition, NoEarlyDrop,
                            WaitedElementIsAccessible, ClientsInit, Reading

(* Who is present after a consumer moves. *)
LEMMA LiveAfterMove ==
  ASSUME ClientTypes, NEW c \in Consumers, NEW where, MoveTo(c, where)
  PROVE  /\ cons'[c] = where
         /\ \A d \in Consumers \ {c} : cons'[d] = cons[d]
         /\ Live' = IF where \in Idle THEN Live \ {c} ELSE Live \cup {c}
  BY DEF ClientTypes, MoveTo, Live, Idle

LEMMA ProducerStep ==
  ASSUME IsFiniteSet(Consumers), ClientsIInv,
         ProducerAppend \/ ProducerFinalize \/ ProducerForceQuit
  PROVE  ClientsIInv'
  <1>1. SaTypeOK /\ UNCHANGED clientVars
    BY DEF ClientsIInv, ClientTypes, ProducerAppend, ProducerFinalize, ProducerForceQuit
  <1>2. Live' = Live /\ \A i : Releasers(i)' = Releasers(i)
    BY <1>1 DEF clientVars, Live, Releasers
  <1>3. /\ SaTypeOK' /\ UNCHANGED <<refcount, base>> /\ next' >= next
        /\ \A i \in Held' : (i \in Held /\ count'[i] = count[i]) \/ count'[i] = 0
    <2>1. CASE ProducerAppend
      <3>1. SaAppend
        BY <2>1 DEF ProducerAppend
      <3>2. base \in Nat /\ next \in Nat
        BY <1>1 DEF SaTypeOK
      <3>3. QED
        BY <1>1, <3>1, <3>2, AppendEffect
    <2>2. CASE ProducerFinalize \/ ProducerForceQuit
      <3>1. SaFinalize \/ SaForceQuit
        BY <2>2 DEF ProducerFinalize, ProducerForceQuit
      <3>2. SaTypeOK' /\ UNCHANGED <<refcount, base, next, count>>
        BY <1>1, <3>1, FinalEffect
      <3>3. QED
        BY <1>1, <3>2 DEF SaTypeOK, Held
    <2>3. QED
      BY <2>1, <2>2
  <1>4. CountsOfReleasers'
    <2>1. \A i \in Held' : count'[i] <= Cardinality(Releasers(i))'
      BY <1>2, <1>3, LiveFinite DEF ClientsIInv, CountsOfReleasers
    <2>2. QED
      BY <1>2, <1>3, <2>1 DEF ClientsIInv, CountsOfReleasers
  <1>5. ClientTypes'
    BY <1>1, <1>3 DEF ClientsIInv, ClientTypes, clientVars
  <1>6. ReleasedBehindPosition'
    <2>1. next \in Nat /\ next' \in Nat /\ pos \in [Consumers -> Nat]
      BY <1>3, <1>1 DEF SaTypeOK, ClientsIInv, ClientTypes
    <2>2. QED
      BY <1>1, <1>3, <2>1 DEF ClientsIInv, ReleasedBehindPosition, clientVars
  <1>7. NoEarlyDrop' /\ WaitedElementIsAccessible'
    BY <1>1, <1>2, <1>3 DEF ClientsIInv, NoEarlyDrop, WaitedElementIsAccessible, clientVars
  <1>8. QED
    BY <1>4, <1>5, <1>6, <1>7 DEF ClientsIInv

LEMMA JoinStep ==
  ASSUME IsFiniteSet(Consumers), ClientsIInv, NEW c \in Consumers, Join(c)
  PROVE  ClientsIInv'
  <1>1. /\ ClientTypes /\ cons[c] = "out" /\ MoveTo(c, "wait") /\ SaTypeOK /\ base \in Nat
    BY DEF ClientsIInv, ClientTypes, Join, SaTypeOK
  <1>2. SaTypeOK' /\ refcount' = refcount + 1 /\ UNCHANGED <<base, next, count, final>>
    BY <1>1, RetainEffect DEF Join
  <1>3. c \notin Live /\ Live' = Live \cup {c}
    BY <1>1, LiveAfterMove DEF Live, Idle
  <1>4. /\ released'[c] = 0 .. (base - 1) /\ pos'[c] = base
        /\ \A d \in Consumers \ {c} : released'[d] = released[d] /\ pos'[d] = pos[d]
    BY <1>1 DEF ClientTypes, Join
  <1>5. CountsOfReleasers'
    <2>1. refcount' = Cardinality(Live') + 1
      BY <1>2, <1>3, LiveFinite, FS_AddElement DEF ClientsIInv, CountsOfReleasers
    <2>2. ASSUME NEW i \in Held' PROVE Releasers(i)' = Releasers(i) /\ i \in Held
      BY <1>2, <1>3, <1>4, <1>1 DEF Held, Releasers, SaTypeOK, Live
    <2>3. QED
      BY <1>2, <2>1, <2>2 DEF ClientsIInv, CountsOfReleasers
  <1>6. ClientTypes'
    <2>1. 0 .. (base - 1) \in SUBSET Nat
      BY <1>1
    <2>2. pos' \in [Consumers -> Nat] /\ released' \in [Consumers -> SUBSET Nat]
      BY <1>1, <2>1 DEF ClientTypes, Join
    <2>3. cons' \in [Consumers -> Idle \cup Reading \cup {"ending", "gone"}]
      BY <1>1 DEF ClientTypes, MoveTo, Reading
    <2>4. QED
      BY <1>2, <2>2, <2>3 DEF ClientTypes
  <1>7. ReleasedBehindPosition'
    BY <1>1, <1>2, <1>4, LiveAfterMove DEF ClientsIInv, ReleasedBehindPosition
  <1>8. NoEarlyDrop' /\ WaitedElementIsAccessible'
    <2>1. \A d \in Live' : 0 .. (base' - 1) \subseteq released'[d]
      BY <1>2, <1>3, <1>4 DEF ClientsIInv, NoEarlyDrop, Live
    <2>2. QED
      BY <2>1, <1>1, LiveAfterMove DEF ClientsIInv, NoEarlyDrop, WaitedElementIsAccessible
  <1>9. QED
    BY <1>5, <1>6, <1>7, <1>8 DEF ClientsIInv

(* A get that follows a successful wait finds its element. *)
LEMMA GetFindsElement ==
  ASSUME ClientsIInv, NEW c \in Consumers, cons[c] = "get"
  PROVE  GetSucceeds(pos[c])
  <1>1. /\ base \in Nat /\ next \in Nat /\ pos[c] \in Nat /\ pos[c] < next
        /\ released[c] \subseteq 0 .. (pos[c] - 1)
    BY DEF ClientsIInv, ClientTypes, SaTypeOK, ReleasedBehindPosition, Reading
  <1>2. 0 .. (base - 1) \subseteq released[c]
    BY DEF ClientsIInv, NoEarlyDrop, Live, Idle
  <1>3. ~ (pos[c] < base)
    BY <1>1, <1>2
  <1>4. QED
    BY <1>1, <1>3 DEF GetSucceeds, Held

(* The steps of a consumer that leave the array alone. *)
LEMMA ClientLookStep ==
  ASSUME IsFiniteSet(Consumers), ClientsIInv, NEW c \in Consumers,
         JoinRefused(c) \/ WaitReturns(c) \/ Get(c) \/ GiveUp(c)
  PROVE  ClientsIInv'
  <1>1. ClientTypes /\ UNCHANGED <<saVars, pos, released>>
    BY DEF ClientsIInv, JoinRefused, WaitReturns, Get, GiveUp
  <1>2. PICK where : /\ MoveTo(c, where)
                     /\ where \in {"get", "ending", "release", "refused"}
                     /\ where = "refused" <=> cons[c] = "out"
                     /\ where # "refused" => cons[c] \in {"wait", "get"}
                     /\ where = "get" => WaitSucceeds(pos[c])
                     /\ where = "release" => cons[c] = "get"
    BY GetFindsElement DEF JoinRefused, WaitReturns, Get, GiveUp
  <1>3. /\ cons'[c] = where
        /\ \A d \in Consumers \ {c} : cons'[d] = cons[d]
        /\ Live' = Live
    BY <1>1, <1>2, LiveAfterMove DEF Live, Idle
  <1>4. ClientTypes'
    BY <1>1, <1>2 DEF ClientTypes, SaTypeOK, saVars, MoveTo, Idle, Reading, Held, CountModulus
  <1>5. CountsOfReleasers'
    BY <1>1, <1>3 DEF ClientsIInv, CountsOfReleasers, saVars, Held, Releasers
  <1>6. ReleasedBehindPosition'
    BY <1>1, <1>2, <1>3
       DEF ClientsIInv, ReleasedBehindPosition, Reading, saVars, WaitSucceeds
  <1>7. NoEarlyDrop' /\ WaitedElementIsAccessible'
    BY <1>1, <1>2, <1>3 DEF ClientsIInv, NoEarlyDrop, WaitedElementIsAccessible, saVars
  <1>8. QED
    BY <1>4, <1>5, <1>6, <1>7 DEF ClientsIInv
(* A consumer releases the elements from its position to some other one.   *)
MarkedReleased(c, to) ==
  released' = [released EXCEPT ![c] = @ \cup (pos[c] .. (to - 1))]

LEMMA ReleaseFromPosition ==
  ASSUME IsFiniteSet(Consumers), ClientsIInv, NEW c \in Consumers, NEW to \in Nat, NEW where,
         cons[c] \in {"release", "ending"}, to <= next,
         SaRelease(pos[c], to), MoveTo(c, where), where \in {"wait", "gone"},
         MarkedReleased(c, to)
  PROVE  /\ SaTypeOK' /\ next' = next /\ CountsOfReleasers' /\ NoEarlyDrop'
         /\ released' \in [Consumers -> SUBSET Nat]
  <1> DEFINE gain(i) == pos[c] <= i /\ i < to
  <1>1. /\ ClientTypes /\ SaTypeOK /\ pos[c] \in Nat /\ base \in Nat /\ next \in Nat
        /\ released[c] \subseteq 0 .. (pos[c] - 1)
        /\ released \in [Consumers -> SUBSET Nat]
    BY DEF ClientsIInv, ClientTypes, SaTypeOK, ReleasedBehindPosition, Reading
  <1>2. c \in Live /\ Live' = Live
    BY <1>1, LiveAfterMove DEF Live, Idle
  <1>3. /\ SaTypeOK' /\ next' = next /\ refcount' = refcount
        /\ base' \in Nat /\ base <= base'
        /\ \A i \in Held' : i \in Held
             /\ count'[i] <= IF gain(i) THEN count[i] + 1 ELSE count[i]
        /\ \A i \in base .. (base' - 1) : i \in Held
             /\ refcount - 1 <= IF gain(i) THEN count[i] + 1 ELSE count[i]
    BY <1>1, ReleaseEffect DEF SaTypeOK
  <1>4. /\ \A i \in Nat : i \in released'[c] <=> (i \in released[c] \/ gain(i))
        /\ \A d \in Consumers \ {c} : released'[d] = released[d]
    BY <1>1 DEF MarkedReleased
  <1>5. ASSUME NEW i \in Held
        PROVE  /\ Cardinality(Releasers(i)') \in Nat
               /\ count[i] \in Nat
               /\ (IF gain(i) THEN count[i] + 1 ELSE count[i]) <= Cardinality(Releasers(i)')
    <2>1. i \in Nat /\ count[i] \in Nat /\ count[i] <= Cardinality(Releasers(i))
      BY <1>1 DEF Held, SaTypeOK, ClientsIInv, CountsOfReleasers
    <2>2. IsFiniteSet(Releasers(i)) /\ Cardinality(Releasers(i)) \in Nat
      BY LiveFinite
    <2>3. CASE gain(i)
      <3>1. c \notin Releasers(i)
        BY <1>1, <2>1, <2>3 DEF Releasers
      <3>2. Releasers(i)' = Releasers(i) \cup {c}
        BY <1>2, <1>4, <2>1, <2>3 DEF Releasers, Live
      <3>3. Cardinality(Releasers(i)') = Cardinality(Releasers(i)) + 1
        BY <3>1, <3>2, <2>2, FS_AddElement
      <3>4. QED
        BY <2>1, <2>2, <2>3, <3>3
    <2>4. CASE ~ gain(i)
      <3>1. Releasers(i)' = Releasers(i)
        BY <1>2, <1>4, <2>1, <2>4 DEF Releasers, Live
      <3>2. QED
        BY <2>1, <2>2, <2>4, <3>1
    <2>5. QED
      BY <2>3, <2>4
  <1>6. CountsOfReleasers'
    <2>1. ASSUME NEW i \in Held' PROVE count'[i] <= Cardinality(Releasers(i)')
      <3>1. i \in Held /\ count'[i] \in Nat
        BY <1>3 DEF SaTypeOK
      <3>2. QED
        BY <1>3, <1>5, <3>1
    <2>2. QED
      BY <1>2, <1>3, <2>1 DEF ClientsIInv, CountsOfReleasers
  <1>7. NoEarlyDrop'
    <2> DEFINE newBase == base'
    <2>0. newBase \in Nat /\ base \in Nat
      BY <1>1, <1>3
    <2> SUFFICES ASSUME NEW d \in Live, NEW i \in 0 .. (newBase - 1)
                 PROVE  i \in released'[d]
      BY <1>2 DEF NoEarlyDrop
    <2> HIDE DEF newBase
    <2>1. CASE i < base
      <3>1. i \in 0 .. (base - 1)
        BY <2>0, <2>1
      <3>2. i \in released[d]
        BY <3>1 DEF ClientsIInv, NoEarlyDrop
      <3>3. QED
        BY <2>0, <3>2, <1>4 DEF Live
    <2>2. CASE ~ (i < base)
      <3>1. i \in base .. (base' - 1) /\ i \in Held
        <4>1. i \in base .. (newBase - 1)
          BY <2>0, <2>2
        <4>2. QED
          BY <1>3, <4>1 DEF newBase
      <3>2. Cardinality(Live) \in Nat /\ refcount = Cardinality(Live) + 1
        BY LiveFinite DEF ClientsIInv, CountsOfReleasers
      <3>3. Cardinality(Releasers(i)') >= Cardinality(Live)
        <4> DEFINE n == IF gain(i) THEN count[i] + 1 ELSE count[i]
        <4>1. refcount - 1 <= n
          BY <1>3, <3>1
        <4>2. n \in Nat /\ n <= Cardinality(Releasers(i)')
          BY <1>5, <3>1
        <4> HIDE DEF n
        <4>3. Cardinality(Releasers(i)') \in Nat
          BY <1>5, <3>1
        <4>4. QED
          BY <3>2, <4>1, <4>2, <4>3
      <3>4. Releasers(i)' \in SUBSET Live /\ IsFiniteSet(Live)
        BY <1>2, LiveFinite DEF Releasers
      <3>5. Releasers(i)' = Live
        BY <3>2, <3>3, <3>4, <1>5, <3>1, FS_Subset
      <3>6. QED
        BY <3>5 DEF Releasers
    <2>3. QED
      BY <2>1, <2>2
  <1>8. released' \in [Consumers -> SUBSET Nat]
    <2>1. pos[c] .. (to - 1) \in SUBSET Nat
      BY <1>1
    <2>2. QED
      BY <1>1, <2>1 DEF MarkedReleased
  <1>9. QED
    BY <1>3, <1>6, <1>7, <1>8

LEMMA ReleaseOneStep ==
  ASSUME IsFiniteSet(Consumers), ClientsIInv, NEW c \in Consumers, ReleaseOne(c)
  PROVE  ClientsIInv'
  <1>1. /\ ClientTypes /\ cons[c] = "release" /\ MoveTo(c, "wait")
        /\ pos[c] \in Nat /\ pos[c] + 1 \in Nat /\ next \in Nat /\ pos[c] + 1 <= next
        /\ pos[c] .. ((pos[c] + 1) - 1) = {pos[c]}
        /\ released[c] \subseteq 0 .. (pos[c] - 1)
    BY DEF ClientsIInv, ClientTypes, SaTypeOK, ReleaseOne, ReleasedBehindPosition, Reading
  <1>2. /\ SaTypeOK' /\ next' = next /\ CountsOfReleasers' /\ NoEarlyDrop'
        /\ released' \in [Consumers -> SUBSET Nat]
    <2> DEFINE to == pos[c] + 1
    <2>1. /\ SaRelease(pos[c], to) /\ to \in Nat /\ to <= next /\ "wait" \in {"wait", "gone"}
          /\ cons[c] \in {"release", "ending"} /\ MoveTo(c, "wait")
          /\ MarkedReleased(c, to)
      BY <1>1 DEF MarkedReleased, ReleaseOne, Idle
    <2> HIDE DEF to
    <2>2. QED
      BY <2>1, ReleaseFromPosition
  <1>3. /\ pos'[c] = pos[c] + 1 /\ released'[c] = released[c] \cup {pos[c]}
        /\ \A d \in Consumers \ {c} : pos'[d] = pos[d] /\ released'[d] = released[d]
        /\ pos' \in [Consumers -> Nat]
    BY <1>1 DEF ReleaseOne, ClientTypes
  <1>4. ClientTypes'
    BY <1>1, <1>2, <1>3 DEF ClientTypes, MoveTo, Reading
  <1>5. ReleasedBehindPosition'
    BY <1>1, <1>2, <1>3, LiveAfterMove DEF ClientsIInv, ReleasedBehindPosition, Reading
  <1>6. WaitedElementIsAccessible'
    BY <1>1, LiveAfterMove DEF ClientsIInv, WaitedElementIsAccessible
  <1>7. QED
    BY <1>2, <1>4, <1>5, <1>6 DEF ClientsIInv

LEMMA ReleaseRestStep ==
  ASSUME IsFiniteSet(Consumers), ~ReleasesAll, ClientsIInv, NEW c \in Consumers, ReleaseRest(c)
  PROVE  ClientsIInv'
  <1>1. /\ ClientTypes /\ cons[c] = "ending" /\ MoveTo(c, "gone")
        /\ pos[c] \in Nat /\ next \in Nat
    BY DEF ClientsIInv, ClientTypes, SaTypeOK, ReleaseRest
  <1>2. /\ SaTypeOK' /\ next' = next /\ CountsOfReleasers' /\ NoEarlyDrop'
        /\ released' \in [Consumers -> SUBSET Nat]
    <2>1. /\ SaRelease(pos[c], next) /\ next <= next /\ "gone" \in {"wait", "gone"} /\ next \in Nat
          /\ cons[c] \in {"release", "ending"} /\ MoveTo(c, "gone")
          /\ MarkedReleased(c, next)
      BY <1>1 DEF MarkedReleased, ReleaseRest, Idle
    <2>2. QED
      BY <2>1, ReleaseFromPosition
  <1>3. ClientTypes'
    BY <1>1, <1>2 DEF ReleaseRest, ClientTypes, MoveTo
  <1>4. ReleasedBehindPosition'
    <2>1. \A d \in Consumers \ {c} : pos'[d] = pos[d] /\ released'[d] = released[d]
      BY <1>1 DEF ReleaseRest, ClientTypes
    <2>2. QED
      BY <1>1, <1>2, <2>1, LiveAfterMove DEF ClientsIInv, ReleasedBehindPosition, Reading
  <1>5. WaitedElementIsAccessible'
    BY <1>1, LiveAfterMove DEF ClientsIInv, WaitedElementIsAccessible
  <1>6. QED
    BY <1>2, <1>3, <1>4, <1>5 DEF ClientsIInv

(* A freed reference takes one from every count, and one consumer from the *)
(* releasers of some elements only: the counts stay founded.               *)
LEMMA FreeStep ==
  ASSUME IsFiniteSet(Consumers), ClientsIInv, NEW c \in Consumers, FreeReference(c)
  PROVE  ClientsIInv'
  <1>1. /\ ClientTypes /\ SaTypeOK /\ cons[c] = "gone" /\ MoveTo(c, "freed")
        /\ UNCHANGED <<pos, released>>
    BY DEF ClientsIInv, ClientTypes, FreeReference
  <1>2. /\ SaTypeOK' /\ refcount' = refcount - 1 /\ UNCHANGED <<base, next, final>>
        /\ \A i \in Held : count'[i] = IF count[i] > 0 THEN count[i] - 1 ELSE 0
    BY <1>1, FreeEffect DEF FreeReference
  <1>3. c \in Live /\ Live' = Live \ {c}
    BY <1>1, LiveAfterMove DEF Live, Idle
  <1>4. ASSUME NEW i \in Held' PROVE count'[i] <= Cardinality(Releasers(i)')
    <2>1. i \in Held /\ count[i] \in Nat /\ count[i] <= Cardinality(Releasers(i))
      BY <1>1, <1>2 DEF Held, SaTypeOK, ClientsIInv, CountsOfReleasers
    <2>2. IsFiniteSet(Releasers(i)) /\ Cardinality(Releasers(i)) \in Nat
      BY LiveFinite
    <2>3. Releasers(i)' = Releasers(i) \ {c}
      BY <1>1, <1>3 DEF Releasers
    <2>4. /\ Cardinality(Releasers(i)') \in Nat
          /\ Cardinality(Releasers(i)') >= Cardinality(Releasers(i)) - 1
      BY <2>2, <2>3, FS_RemoveElement, FS_CardinalityType
    <2>5. QED
      BY <1>2, <2>1, <2>2, <2>4
  <1>5. CountsOfReleasers'
    <2>1. Cardinality(Live') = Cardinality(Live) - 1
      BY <1>3, LiveFinite, FS_RemoveElement
    <2>2. QED
      BY <1>2, <1>4, <2>1, LiveFinite DEF ClientsIInv, CountsOfReleasers
  <1>6. ClientTypes'
    BY <1>1, <1>2 DEF ClientTypes, MoveTo, Idle
  <1>7. ReleasedBehindPosition' /\ NoEarlyDrop' /\ WaitedElementIsAccessible'
    BY <1>1, <1>2, <1>3, LiveAfterMove
       DEF ClientsIInv, ReleasedBehindPosition, Reading, NoEarlyDrop, WaitedElementIsAccessible
  <1>8. QED
    BY <1>5, <1>6, <1>7 DEF ClientsIInv
-----------------------------------------------------------------------------
(* The theorems.  They are about consumers that end with a release from    *)
(* the element they have reached, as acmod.c does: with                    *)
(* sync_array_release_all the invariant fails, and so does the property.   *)

LEMMA ClientsNextIInv ==
  ASSUME IsFiniteSet(Consumers), ~ReleasesAll, ClientsIInv, [ClientsNext]_systemVars
  PROVE  ClientsIInv'
  <1>1. CASE ProducerAppend \/ ProducerFinalize \/ ProducerForceQuit
    BY <1>1, ProducerStep
  <1>2. ASSUME NEW c \in Consumers, Join(c)
        PROVE  ClientsIInv'
    BY <1>2, JoinStep
  <1>3. ASSUME NEW c \in Consumers,
               JoinRefused(c) \/ WaitReturns(c) \/ Get(c) \/ GiveUp(c)
        PROVE  ClientsIInv'
    BY <1>3, ClientLookStep
  <1>4. ASSUME NEW c \in Consumers, ReleaseOne(c)
        PROVE  ClientsIInv'
    BY <1>4, ReleaseOneStep
  <1>5. ASSUME NEW c \in Consumers, ReleaseRest(c)
        PROVE  ClientsIInv'
    BY <1>5, ReleaseRestStep
  <1>6. ASSUME NEW c \in Consumers, FreeReference(c)
        PROVE  ClientsIInv'
    BY <1>6, FreeStep
  <1>7. CASE UNCHANGED systemVars
    <2>1. /\ Live' = Live /\ Held' = Held /\ CountModulus' = CountModulus
          /\ \A i : Releasers(i)' = Releasers(i)
      BY <1>7 DEF systemVars, Live, Held, Releasers, CountModulus
    <2>2. ClientTypes'
      BY <1>7, <2>1 DEF ClientsIInv, ClientTypes, SaTypeOK, systemVars
    <2>3. QED
      BY <1>7, <2>1, <2>2
         DEF systemVars, ClientsIInv, CountsOfReleasers, ReleasedBehindPosition, NoEarlyDrop,
             WaitedElementIsAccessible
  <1>8. CASE Finished
    BY <1>7, <1>8 DEF Finished
  <1>9. QED
    BY <1>1, <1>2, <1>3, <1>4, <1>5, <1>6, <1>7, <1>8 DEF ClientsNext, Consume

LEMMA ClientsInvariance ==
  ASSUME ~ReleasesAll
  PROVE  ClientsSpec => []ClientsIInv
  <1>1. ClientsInit => ClientsIInv
    BY ClientsInitIInv, ClientsAssumption, MaxRefcountAssumption
  <1>2. ClientsIInv /\ [ClientsNext]_systemVars => ClientsIInv'
    BY ClientsNextIInv, ClientsAssumption
  <1>3. QED
    BY <1>1, <1>2, PTL DEF ClientsSpec

(* A count is of present consumers, of whom there is one less than         *)
(* references.                                                             *)
LEMMA CountsBelowReferences ==
  ASSUME IsFiniteSet(Consumers), ClientsIInv, NEW i \in Held
  PROVE  count[i] < refcount
  <1>1. /\ refcount = Cardinality(Live) + 1 /\ count[i] <= Cardinality(Releasers(i))
        /\ count[i] \in Nat
    BY MaxRefcountAssumption
       DEF ClientsIInv, CountsOfReleasers, ClientTypes, SaTypeOK, CountModulus
  <1>2. Cardinality(Releasers(i)) <= Cardinality(Live)
    <2>1. Releasers(i) \in SUBSET Live
      BY DEF Releasers
    <2>2. QED
      BY <2>1, LiveFinite, FS_Subset
  <1>3. Cardinality(Live) \in Nat /\ Cardinality(Releasers(i)) \in Nat
    BY LiveFinite
  <1>4. QED
    BY <1>1, <1>2, <1>3

(* sync_array.c keeps its fields well-formed, and the count of a held      *)
(* element stays below the number of references, itself at most 255: no    *)
(* increment of the byte wraps.                                            *)
THEOREM TypeCorrect == ASSUME ~ReleasesAll PROVE ClientsSpec => []ClientsTypeOK
  <1>1. ClientsIInv => ClientsTypeOK
    BY CountsBelowReferences, ClientsAssumption DEF ClientsIInv, ClientsTypeOK
  <1>2. QED
    BY <1>1, ClientsInvariance, PTL

(* sync_array_release gives back no element that a present consumer has    *)
(* yet to release, however consumers join, lag, give up and free.          *)
THEOREM NothingDroppedEarly == ASSUME ~ReleasesAll PROVE ClientsSpec => []NoEarlyDrop
  <1>1. ClientsIInv => NoEarlyDrop
    BY DEF ClientsIInv
  <1>2. QED
    BY <1>1, ClientsInvariance, PTL

(* sync_array_get after a successful sync_array_wait does not fail, though *)
(* the lock is given up between the two.                                   *)
THEOREM WaitThenGet == ASSUME ~ReleasesAll PROVE ClientsSpec => []WaitedElementIsAccessible
  <1>1. ClientsIInv => WaitedElementIsAccessible
    BY DEF ClientsIInv
  <1>2. QED
    BY <1>1, ClientsInvariance, PTL
-----------------------------------------------------------------------------
(* What is kept: no consumer has released what is not there yet, and while *)
(* no one has freed a reference too early the counts are exact.            *)

ReleasedWithin == \A c \in Live : \A i \in released[c] : i < next

KeptInv == ClientsIInv /\ ReleasedWithin /\ NoLeak

(* Whoever freed a reference with elements unreleased has still done so.   *)
LEMMA FreedStaysFreed ==
  ASSUME ClientTypes, next \in Nat, next' \in Nat, next <= next', FreedWithNothingLeft',
         \A c \in Consumers : cons[c] = "freed" => cons'[c] = "freed" /\ released'[c] = released[c]
  PROVE  FreedWithNothingLeft
  <1> SUFFICES ASSUME NEW c \in Consumers, cons[c] = "freed"
               PROVE  0 .. (next - 1) \subseteq released[c]
    BY DEF FreedWithNothingLeft
  <1> DEFINE newNext == next'
  <1>1. 0 .. (newNext - 1) \subseteq released[c]
    BY DEF FreedWithNothingLeft
  <1>2. newNext \in Nat /\ next <= newNext
    OBVIOUS
  <1> HIDE DEF newNext
  <1>3. QED
    BY <1>1, <1>2

LEMMA AppendKeeps ==
  ASSUME IsFiniteSet(Consumers), KeptInv, ProducerAppend
  PROVE  ReleasedWithin' /\ NoLeak'
  <1>1. /\ ClientTypes /\ SaTypeOK /\ SaAppend /\ UNCHANGED clientVars
        /\ base \in Nat /\ next \in Nat /\ base <= next
    BY DEF KeptInv, ClientsIInv, ClientTypes, SaTypeOK, ProducerAppend
  <1>2. /\ next' = next + 1 /\ base' = base
        /\ \A i \in Held' : count'[i] = IF i = next THEN 0 ELSE count[i]
        /\ \A i \in Held' : i # next => i \in Held
        /\ Live' = Live /\ cons' = cons /\ released' = released
        /\ \A i : Releasers(i)' = Releasers(i)
    BY <1>1, AppendEffect DEF clientVars, Live, Releasers
  <1>3. \A c \in Live : \A i \in released[c] : i \in Nat /\ i < next
    BY <1>1 DEF KeptInv, ReleasedWithin, ClientTypes, Live
  <1>4. Releasers(next) = {}
    BY <1>1, <1>3 DEF Releasers
  <1>5. ASSUME FreedWithNothingLeft'
        PROVE  (\A i \in Held : count[i] = Cardinality(Releasers(i)))' /\ NothingToReturn'
    <2>1. FreedWithNothingLeft
      BY <1>1, <1>2, <1>5, FreedStaysFreed
    <2>2. (\A i \in Held : count[i] = Cardinality(Releasers(i))) /\ NothingToReturn
      BY <2>1 DEF KeptInv, NoLeak
    <2>3. (\A i \in Held : count[i] = Cardinality(Releasers(i)))'
      BY <1>2, <1>4, <2>2, FS_EmptySet
    <2>4. NothingToReturn'
      BY <1>1, <1>2, <1>4, <2>2 DEF NothingToReturn
    <2>5. QED
      BY <2>3, <2>4
  <1>6. QED
    BY <1>1, <1>2, <1>3, <1>5 DEF ReleasedWithin, NoLeak

(* The newcomer has released what was gone before it came, nothing else. *)
LEMMA JoinKeeps ==
  ASSUME IsFiniteSet(Consumers), KeptInv, NEW c \in Consumers, Join(c)
  PROVE  ReleasedWithin' /\ NoLeak'
  <1>1. /\ ClientTypes /\ cons[c] = "out" /\ MoveTo(c, "wait") /\ SaTypeOK
        /\ base \in Nat /\ next \in Nat /\ base <= next
    BY DEF KeptInv, ClientsIInv, ClientTypes, Join, SaTypeOK
  <1>2. UNCHANGED <<base, next, count, final>> /\ Held' = Held
    BY <1>1, RetainEffect DEF Join, Held
  <1>3. c \notin Live /\ Live' = Live \cup {c} /\ cons'[c] = "wait"
        /\ \A d \in Consumers \ {c} : cons'[d] = cons[d]
    BY <1>1, LiveAfterMove DEF Live, Idle
  <1>4. /\ released'[c] = 0 .. (base - 1)
        /\ \A d \in Consumers \ {c} : released'[d] = released[d]
    BY <1>1 DEF ClientTypes, Join
  <1>5. ReleasedWithin'
    BY <1>1, <1>2, <1>3, <1>4 DEF KeptInv, ReleasedWithin, Live
  <1>6. ASSUME NEW i \in Held PROVE Releasers(i)' = Releasers(i)
    BY <1>1, <1>3, <1>4 DEF Held, Releasers, Live
  <1>7. ASSUME FreedWithNothingLeft'
        PROVE  (\A i \in Held : count[i] = Cardinality(Releasers(i)))' /\ NothingToReturn'
    <2>1. FreedWithNothingLeft
      BY <1>1, <1>2, <1>3, <1>4, <1>7, FreedStaysFreed
    <2>2. \A i \in Held : count[i] = Cardinality(Releasers(i))
      BY <2>1 DEF KeptInv, NoLeak
    <2>3. NothingToReturn'
      <3> SUFFICES ASSUME base < next
                   PROVE  Releasers(base)' # Live'
        BY <1>2 DEF NothingToReturn
      <3>2. c \notin Releasers(base)' /\ c \in Live'
        BY <1>1, <1>2, <1>3, <1>4 DEF Releasers
      <3>3. QED
        BY <3>2
    <2>4. QED
      BY <1>2, <1>6, <2>2, <2>3
  <1>8. QED
    BY <1>5, <1>7 DEF NoLeak

(* The steps that leave the array and who released what alone. *)
LEMMA LookKeeps ==
  ASSUME KeptInv, UNCHANGED <<base, next, count, released>>, Live' = Live,
         \A c \in Consumers : cons[c] = "freed" => cons'[c] = "freed"
  PROVE  ReleasedWithin' /\ NoLeak'
  <1>1. Held' = Held /\ \A i : Releasers(i)' = Releasers(i)
    BY DEF Held, Releasers
  <1>2. next \in Nat /\ next' \in Nat /\ next <= next' /\ ClientTypes
    BY DEF KeptInv, ClientsIInv, ClientTypes, SaTypeOK
  <1>3. FreedWithNothingLeft' => FreedWithNothingLeft
    BY <1>2, FreedStaysFreed
  <1>4. QED
    BY <1>1, <1>3 DEF KeptInv, ReleasedWithin, NoLeak, NothingToReturn

(* The counts of elements on their way out cannot wrap: they are at most   *)
(* the number of consumers present, which is below the limit.              *)
LEMMA ReleaseKeeps ==
  ASSUME IsFiniteSet(Consumers), KeptInv, NEW c \in Consumers, NEW to \in Nat, NEW where,
         cons[c] \in {"release", "ending"}, to <= next, pos[c] < to \/ to = next,
         SaRelease(pos[c], to), MoveTo(c, where), where \in {"wait", "gone"},
         MarkedReleased(c, to)
  PROVE  ReleasedWithin' /\ NoLeak'
  <1> DEFINE gain(i) == pos[c] <= i /\ i < to
  <1>1. /\ ClientTypes /\ SaTypeOK /\ pos[c] \in Nat /\ base \in Nat /\ next \in Nat /\ base <= next
        /\ released[c] \subseteq 0 .. (pos[c] - 1) /\ MaxRefcount \in Nat
        /\ refcount \in Nat /\ refcount <= MaxRefcount
    BY MaxRefcountAssumption
       DEF KeptInv, ClientsIInv, ClientTypes, SaTypeOK, ReleasedBehindPosition, Reading
  <1>2. /\ c \in Live /\ Live' = Live /\ cons[c] # "freed" /\ cons'[c] # "freed"
        /\ \A d \in Consumers \ {c} : cons'[d] = cons[d]
    BY <1>1, LiveAfterMove DEF Live, Idle
  <1>3. /\ \A i \in Nat : i \in released'[c] <=> (i \in released[c] \/ gain(i))
        /\ \A d \in Consumers \ {c} : released'[d] = released[d]
        /\ released'[c] \subseteq Nat
    <2>1. pos[c] .. (to - 1) \in SUBSET Nat /\ \A i \in Nat : i \in pos[c] .. (to - 1) <=> gain(i)
      BY <1>1
    <2>2. released'[c] = released[c] \cup (pos[c] .. (to - 1))
          /\ \A d \in Consumers \ {c} : released'[d] = released[d]
      BY <1>1 DEF MarkedReleased, ClientTypes
    <2>3. released[c] \subseteq Nat
      BY <1>1 DEF ClientTypes
    <2>4. QED
      BY <2>1, <2>2, <2>3
  <1>4. /\ SaTypeOK' /\ next' = next /\ base' \in Nat /\ base <= base' /\ base' <= next
        /\ \A i \in Held' : i \in Held
    BY <1>1, ReleaseEffect DEF SaTypeOK
  <1>5. ReleasedWithin'
    <2> SUFFICES ASSUME NEW d \in Live, NEW i \in released'[d]
                 PROVE  i < next
      BY <1>2, <1>4 DEF ReleasedWithin
    <2>1. CASE d = c
      <3>1. i \in Nat /\ (i \in released[c] \/ gain(i))
        BY <1>3, <2>1
      <3>2. QED
        BY <1>1, <1>2, <3>1 DEF KeptInv, ReleasedWithin
    <2>2. CASE d # c
      BY <1>3, <2>2 DEF KeptInv, ReleasedWithin, Live
    <2>3. QED
      BY <2>1, <2>2
  <1>6. ASSUME FreedWithNothingLeft'
        PROVE  (\A i \in Held : count[i] = Cardinality(Releasers(i)))' /\ NothingToReturn'
    <2>1. FreedWithNothingLeft
      BY <1>1, <1>2, <1>3, <1>4, <1>6, FreedStaysFreed
    <2>2. (\A i \in Held : count[i] = Cardinality(Releasers(i))) /\ NothingToReturn
      BY <2>1 DEF KeptInv, NoLeak
    <2>3. ASSUME NEW i \in Held
          PROVE  /\ i \in Nat /\ count[i] \in Nat
                 /\ Cardinality(Releasers(i)') = IF gain(i) THEN count[i] + 1 ELSE count[i]
                 /\ gain(i) => count[i] < MaxRefcount
      <3>1. i \in Nat /\ count[i] \in Nat /\ count[i] = Cardinality(Releasers(i))
        BY <1>1, <2>2 DEF Held, SaTypeOK
      <3>2. IsFiniteSet(Releasers(i))
        BY LiveFinite
      <3>3. CASE gain(i)
        <4>1. c \notin Releasers(i)
          BY <1>1, <3>1, <3>3 DEF Releasers
        <4>2. Releasers(i)' = Releasers(i) \cup {c}
          BY <1>2, <1>3, <3>1, <3>3 DEF Releasers, Live
        <4>3. Cardinality(Releasers(i)') = Cardinality(Releasers(i)) + 1
          BY <4>1, <4>2, <3>2, FS_AddElement
        <4>4. Cardinality(Releasers(i)') <= Cardinality(Live)
          <5>1. IsFiniteSet(Live) /\ Releasers(i)' \in SUBSET Live
            BY <1>2, LiveFinite DEF Releasers
          <5>2. QED
            BY <5>1, FS_Subset
        <4>5. refcount = Cardinality(Live) + 1 /\ Cardinality(Live) \in Nat
          BY LiveFinite DEF KeptInv, ClientsIInv, CountsOfReleasers
        <4>6. QED
          BY <1>1, <3>1, <3>3, <4>3, <4>4, <4>5
      <3>4. CASE ~ gain(i)
        <4>1. Releasers(i)' = Releasers(i)
          BY <1>2, <1>3, <3>1, <3>4 DEF Releasers, Live
        <4>2. QED
          BY <3>1, <3>4, <4>1
      <3>5. QED
        BY <3>3, <3>4
    <2>4. /\ \A i \in Held' : count'[i] = IF gain(i) THEN count[i] + 1 ELSE count[i]
          /\ (\E i \in Held : gain(i)) /\ base' < next => count'[base'] < refcount - 1
      <3>1. \A i \in Held : pos[c] <= i /\ i < to => count[i] < MaxRefcount
        BY <2>3
      <3>2. QED
        BY <1>1, <3>1, ReleaseCounts
    <2>5. (\A i \in Held : count[i] = Cardinality(Releasers(i)))'
      <3> SUFFICES ASSUME NEW i \in Held'
                   PROVE  count'[i] = Cardinality(Releasers(i)')
        OBVIOUS
      <3>1. i \in Held
        BY <1>4
      <3>2. QED
        BY <2>3, <2>4, <3>1
    <2>6. NothingToReturn'
      <3> SUFFICES ASSUME NEW b \in Held', b = base', b < next
                   PROVE  Releasers(b)' # Live
        <4>1. base' < next => base' \in Held'
          <5>1. base' < next' => base' \in base' .. (next' - 1)
            BY <1>1, <1>4
          <5>2. QED
            BY <1>4, <5>1 DEF Held
        <4>2. \A b : b = base' => Releasers(b)' = {d \in Live' : base' \in released'[d]}
          BY DEF Releasers
        <4>3. NothingToReturn' <=>
                (Live' # {} /\ base' < next' => {d \in Live' : base' \in released'[d]} # Live')
          BY DEF NothingToReturn, Releasers
        <4>4. QED
          BY <1>2, <1>4, <4>1, <4>2, <4>3
      <3>1. b \in Held
        BY <1>4
      <3>2. CASE \E i \in Held : gain(i)
        <4>1. count'[b] < refcount - 1
          BY <2>4, <3>2
        <4>2. count'[b] = Cardinality(Releasers(b)')
          BY <2>5
        <4>3. refcount = Cardinality(Live) + 1 /\ Cardinality(Live) \in Nat
          BY LiveFinite DEF KeptInv, ClientsIInv, CountsOfReleasers
        <4>4. QED
          BY <4>1, <4>2, <4>3
      <3>3. CASE ~ \E i \in Held : gain(i)
        <4>1. base' = base
          BY <3>3 DEF SaRelease
        <4>2. b \in Nat /\ ~ gain(b)
          BY <1>1, <3>1, <3>3 DEF Held
        <4>3. Releasers(b)' = Releasers(b)
          BY <1>2, <1>3, <4>2 DEF Releasers, Live
        <4>4. QED
          BY <1>2, <2>2, <4>1, <4>3 DEF NothingToReturn
      <3>4. QED
        BY <3>2, <3>3
    <2>7. QED
      BY <2>5, <2>6
  <1>7. QED
    BY <1>5, <1>6 DEF NoLeak

(* A consumer that frees its reference with nothing left unreleased counted*)
(* once in every element.                                                  *)
LEMMA FreeKeeps ==
  ASSUME IsFiniteSet(Consumers), KeptInv, NEW c \in Consumers, FreeReference(c)
  PROVE  ReleasedWithin' /\ NoLeak'
  <1>1. /\ ClientTypes /\ SaTypeOK /\ cons[c] = "gone" /\ MoveTo(c, "freed")
        /\ pos' = pos /\ released' = released /\ base \in Nat /\ next \in Nat /\ base <= next
    BY DEF KeptInv, ClientsIInv, ClientTypes, SaTypeOK, FreeReference
  <1>2. /\ UNCHANGED <<base, next, final>> /\ Held' = Held
        /\ \A i \in Held : count'[i] = IF count[i] > 0 THEN count[i] - 1 ELSE 0
    BY <1>1, FreeEffect DEF FreeReference, Held
  <1>3. /\ c \in Live /\ Live' = Live \ {c} /\ cons'[c] = "freed"
        /\ \A d \in Consumers \ {c} : cons'[d] = cons[d]
    BY <1>1, LiveAfterMove DEF Live, Idle
  <1>4. ReleasedWithin'
    BY <1>1, <1>2, <1>3 DEF KeptInv, ReleasedWithin
  <1>5. ASSUME FreedWithNothingLeft'
        PROVE  (\A i \in Held : count[i] = Cardinality(Releasers(i)))' /\ NothingToReturn'
    <2>1. FreedWithNothingLeft
      BY <1>1, <1>2, <1>3, <1>5, FreedStaysFreed
    <2>2. (\A i \in Held : count[i] = Cardinality(Releasers(i))) /\ NothingToReturn
      BY <2>1 DEF KeptInv, NoLeak
    <2>3. 0 .. (next - 1) \subseteq released[c]
      BY <1>1, <1>2, <1>3, <1>5 DEF FreedWithNothingLeft
    <2>4. \A i \in Held : c \in Releasers(i) /\ Releasers(i)' = Releasers(i) \ {c}
      BY <1>1, <1>3, <2>3 DEF Held, Releasers
    <2>5. \A i \in Held : count'[i] = Cardinality(Releasers(i)')
      <3> SUFFICES ASSUME NEW i \in Held
                   PROVE  count'[i] = Cardinality(Releasers(i)')
        OBVIOUS
      <3>1. count[i] \in Nat /\ count[i] = Cardinality(Releasers(i)) /\ IsFiniteSet(Releasers(i))
        BY <1>1, <2>2, LiveFinite DEF SaTypeOK
      <3>2. Cardinality(Releasers(i)') = Cardinality(Releasers(i)) - 1
        BY <2>4, <3>1, FS_RemoveElement
      <3>3. Cardinality(Releasers(i)') \in Nat
        <4>1. IsFiniteSet(Releasers(i)')
          BY <2>4, <3>1, FS_RemoveElement
        <4>2. QED
          BY <4>1, FS_CardinalityType
      <3>4. QED
        BY <1>2, <3>1, <3>2, <3>3
    <2>6. NothingToReturn'
      <3> SUFFICES ASSUME Live' # {}, base < next
                   PROVE  Releasers(base)' # Live'
        BY <1>2 DEF NothingToReturn
      <3>1. base \in Held
        BY <1>1 DEF Held
      <3>2. Releasers(base) # Live
        BY <1>3, <2>2 DEF NothingToReturn
      <3>3. PICK d \in Live : base \notin released[d]
        BY <3>2 DEF Releasers
      <3>4. d \in Live' /\ d \notin Releasers(base)'
        BY <1>1, <1>2, <1>3, <2>4, <3>1, <3>3 DEF Releasers
      <3>5. QED
        BY <3>4
    <2>7. QED
      BY <1>2, <2>5, <2>6
  <1>6. QED
    BY <1>4, <1>5 DEF NoLeak

LEMMA NextKeeps ==
  ASSUME IsFiniteSet(Consumers), ~ReleasesAll, KeptInv, [ClientsNext]_systemVars
  PROVE  ReleasedWithin' /\ NoLeak'
  <1>0. ClientTypes /\ next \in Nat
    BY DEF KeptInv, ClientsIInv, ClientTypes, SaTypeOK
  <1>1. CASE ProducerAppend
    BY <1>1, AppendKeeps
  <1>2. CASE ProducerFinalize \/ ProducerForceQuit
    <2>1. UNCHANGED <<base, next, count, released>> /\ Live' = Live /\ cons' = cons
      BY <1>2 DEF ProducerFinalize, ProducerForceQuit, SaFinalize, SaForceQuit, clientVars, Live
    <2>2. QED
      BY <2>1, LookKeeps
  <1>3. ASSUME NEW c \in Consumers, Join(c)
        PROVE  ReleasedWithin' /\ NoLeak'
    BY <1>3, JoinKeeps
  <1>4. ASSUME NEW c \in Consumers,
               JoinRefused(c) \/ WaitReturns(c) \/ Get(c) \/ GiveUp(c)
        PROVE  ReleasedWithin' /\ NoLeak'
    <2>1. PICK where : /\ MoveTo(c, where)
                       /\ where \in {"get", "ending", "release", "missed", "refused"}
                       /\ where = "refused" <=> cons[c] = "out"
                       /\ where # "refused" => cons[c] \in {"wait", "get"}
      BY <1>4 DEF JoinRefused, WaitReturns, Get, GiveUp
    <2>2. Live' = Live /\ \A d \in Consumers : cons[d] = "freed" => cons'[d] = "freed"
      BY <1>0, <2>1, LiveAfterMove DEF Live, Idle
    <2>3. UNCHANGED <<base, next, count, released>>
      BY <1>4 DEF JoinRefused, WaitReturns, Get, GiveUp, saVars
    <2>4. QED
      BY <2>2, <2>3, LookKeeps
  <1>5. ASSUME NEW c \in Consumers, ReleaseOne(c)
        PROVE  ReleasedWithin' /\ NoLeak'
    <2> DEFINE to == pos[c] + 1
    <2>1. /\ cons[c] \in {"release", "ending"} /\ pos[c] \in Nat /\ to <= next /\ pos[c] < to
          /\ to \in Nat /\ MoveTo(c, "wait") /\ SaRelease(pos[c], to) /\ "wait" \in {"wait", "gone"}
      BY <1>0, <1>5 DEF ReleaseOne, KeptInv, ClientsIInv, ClientTypes, ReleasedBehindPosition, Reading
    <2>2. pos[c] .. (to - 1) = {pos[c]}
      BY <2>1
    <2>3. MarkedReleased(c, to)
      BY <1>5, <2>2 DEF ReleaseOne, MarkedReleased
    <2> HIDE DEF to
    <2>4. QED
      BY <2>1, <2>3, ReleaseKeeps
  <1>6. ASSUME NEW c \in Consumers, ReleaseRest(c)
        PROVE  ReleasedWithin' /\ NoLeak'
    <2>1. /\ cons[c] \in {"release", "ending"} /\ next <= next
          /\ MoveTo(c, "gone") /\ SaRelease(pos[c], next) /\ "gone" \in {"wait", "gone"}
          /\ MarkedReleased(c, next)
      BY <1>0, <1>6 DEF ReleaseRest, MarkedReleased
    <2>2. QED
      BY <1>0, <2>1, ReleaseKeeps
  <1>7. ASSUME NEW c \in Consumers, FreeReference(c)
        PROVE  ReleasedWithin' /\ NoLeak'
    BY <1>7, FreeKeeps
  <1>8. CASE UNCHANGED systemVars \/ Finished
    <2>1. UNCHANGED <<base, next, count, released>> /\ Live' = Live /\ cons' = cons
      BY <1>8 DEF systemVars, Finished, Live
    <2>2. QED
      BY <2>1, LookKeeps
  <1>9. QED
    BY <1>1, <1>2, <1>3, <1>4, <1>5, <1>6, <1>7, <1>8 DEF ClientsNext, Consume

(* sync_array_release keeps no initial run of elements that every consumer *)
(* present has released, and the byte it counts them in is exact, as long  *)
(* as no consumer frees its reference with elements unreleased.            *)
THEOREM NothingIsLeaked == ASSUME ~ReleasesAll PROVE ClientsSpec => []NoLeak
  <1>1. ClientsInit => ReleasedWithin /\ NoLeak
    BY DEF ClientsInit, SaInit, Live, Idle, ReleasedWithin, NoLeak, NothingToReturn, Held
  <1>2. ClientsIInv /\ ReleasedWithin /\ NoLeak /\ [ClientsNext]_systemVars => ReleasedWithin' /\ NoLeak'
    BY NextKeeps, ClientsAssumption DEF KeptInv
  <1>3. QED
    BY <1>1, <1>2, ClientsInvariance, PTL DEF ClientsSpec
-----------------------------------------------------------------------------
(* Refinement. *)

(* An array is settled at a length it has, or at zero. *)
FinalReached == final # Unset => final <= next

LEMMA FinalReachedInvariance ==
  ASSUME ~ReleasesAll
  PROVE  ClientsSpec => []FinalReached
  <1>1. ClientsInit => FinalReached
    BY DEF ClientsInit, SaInit, FinalReached
  <1>2. ClientsIInv /\ FinalReached /\ [ClientsNext]_systemVars => FinalReached'
    <2> SUFFICES ASSUME ClientsIInv, FinalReached, [ClientsNext]_systemVars
                 PROVE  FinalReached'
      OBVIOUS
    <2>1. next \in Nat /\ final \in Nat \cup {Unset}
      BY DEF ClientsIInv, ClientTypes, SaTypeOK
    <2>2. CASE UNCHANGED <<next, final>>
      BY <2>2 DEF FinalReached
    <2>3. CASE ProducerAppend
      BY <2>1, <2>3 DEF ProducerAppend, SaAppend, FinalReached, Unset
    <2>4. CASE ProducerFinalize \/ ProducerForceQuit
      BY <2>1, <2>4 DEF ProducerFinalize, ProducerForceQuit, SaFinalize, SaForceQuit,
                        FinalReached, Unset
    <2>5. ASSUME NEW c \in Consumers,
                 Join(c) \/ JoinRefused(c) \/ Consume(c) \/ GiveUp(c) \/ FreeReference(c)
          PROVE  UNCHANGED <<next, final>>
      BY <2>5 DEF Join, JoinRefused, Consume, GiveUp, FreeReference, WaitReturns, Get,
                  ReleaseOne, ReleaseRest, SaRetain, SaFree, SaRelease, saVars
    <2>6. QED
      BY <2>2, <2>3, <2>4, <2>5 DEF ClientsNext, Finished, systemVars
  <1>3. QED
    BY <1>1, <1>2, ClientsInvariance, PTL DEF ClientsSpec

(* A consumer's release is an acknowledgement that may forget elements. *)
LEMMA ReleaseAcknowledges ==
  ASSUME ClientsIInv, NoEarlyDrop', SaTypeOK', Live' = Live, NEW c \in Live,
         UNCHANGED <<next, final>>, base <= base', NEW S \in SUBSET (0 .. (next - 1)),
         released' = [released EXCEPT ![c] = @ \cup S]
  PROVE  MC!Ack(c)
  <1> DEFINE newBase == base'
  <1>1. base \in Nat /\ newBase \in Nat /\ base <= newBase /\ newBase <= next /\ next \in Nat
    BY DEF ClientsIInv, ClientTypes, SaTypeOK
  <1>2. \A m \in Live : 0 .. (newBase - 1) \subseteq released'[m]
    BY DEF NoEarlyDrop
  <1>3. newBase \in base .. next /\ base .. (newBase - 1) \subseteq 0 .. (newBase - 1)
    <2> HIDE DEF newBase
    <2>1. QED
      BY <1>1
  <1>4. MC!MayForget(base')
    BY <1>2, <1>3 DEF MC!MayForget
  <1>5. QED
    BY <1>3, <1>4 DEF MC!Ack

LEMMA MulticastStep ==
  ASSUME IsFiniteSet(Consumers), ~ReleasesAll, ClientsIInv, FinalReached, ClientsIInv', [ClientsNext]_systemVars
  PROVE  [MC!Next]_(MC!mcVars)
  <1>1. /\ ClientTypes /\ next \in Nat /\ base \in Nat /\ final \in Nat \cup {Unset}
        /\ SaTypeOK'
    BY DEF ClientsIInv, ClientTypes, SaTypeOK
  <1>2. CASE ProducerAppend
    <2>1. final = Unset /\ final' = final /\ next' = next + 1 /\ base' = base
          /\ Live' = Live /\ released' = released
      BY <1>1, <1>2 DEF ProducerAppend, SaAppend, CanAppend, PastFinal, FinalReached,
                        clientVars, Live
    <2>2. QED
      BY <2>1 DEF MC!Next, MC!Send
  <1>3. CASE ProducerFinalize \/ ProducerForceQuit
    <2>1. final' # Unset /\ UNCHANGED <<next, base, released>> /\ Live' = Live
      BY <1>1, <1>3 DEF ProducerFinalize, ProducerForceQuit, SaFinalize, SaForceQuit,
                        Unset, clientVars, Live
    <2>2. QED
      BY <2>1 DEF MC!Next, MC!Close
  <1>4. ASSUME NEW c \in Consumers, Join(c)
        PROVE  MC!Next
    <2>1. c \notin Live /\ Live' = Live \cup {c}
      BY <1>1, <1>4, LiveAfterMove DEF Join, Live, Idle
    <2>2. UNCHANGED <<next, final, base>> /\ released' = [released EXCEPT ![c] = 0 .. (base - 1)]
      BY <1>4 DEF Join, SaRetain
    <2>3. MC!Join(c)
      BY <2>1, <2>2 DEF MC!Join
    <2>4. QED
      BY <2>3 DEF MC!Next
  <1>5. ASSUME NEW c \in Consumers, FreeReference(c)
        PROVE  MC!Next
    <2>1. c \in Live /\ Live' = Live \ {c}
      BY <1>1, <1>5, LiveAfterMove DEF FreeReference, Live, Idle
    <2>2. MC!Leave(c)
      BY <1>5, <2>1 DEF MC!Leave, FreeReference, SaFree
    <2>3. QED
      BY <2>2 DEF MC!Next
  <1>6. ASSUME NEW c \in Consumers,
               JoinRefused(c) \/ WaitReturns(c) \/ Get(c) \/ GiveUp(c)
        PROVE  UNCHANGED MC!mcVars
    <2>1. PICK where : /\ MoveTo(c, where)
                       /\ where \in {"get", "ending", "release", "missed", "refused"}
                       /\ where = "refused" <=> cons[c] = "out"
                       /\ where # "refused" => cons[c] \in {"wait", "get"}
      BY <1>6 DEF JoinRefused, WaitReturns, Get, GiveUp
    <2>2. Live' = Live
      BY <1>1, <2>1, LiveAfterMove DEF Live, Idle
    <2>3. UNCHANGED <<next, final, base, released>>
      BY <1>6 DEF JoinRefused, WaitReturns, Get, GiveUp, saVars
    <2>4. QED
      BY <2>2, <2>3 DEF MC!mcVars
  <1>7. ASSUME NEW c \in Consumers, ReleaseOne(c) \/ ReleaseRest(c)
        PROVE  MC!Next
    <2>1. c \in Live /\ Live' = Live
      BY <1>1, <1>7, LiveAfterMove DEF ReleaseOne, ReleaseRest, Live, Idle
    <2>2. pos[c] \in Nat /\ (ReleaseOne(c) => pos[c] < next)
      BY DEF ClientsIInv, ClientTypes, ReleasedBehindPosition, ReleaseOne, Reading
    <2>3. PICK S \in SUBSET (0 .. (next - 1)) : released' = [released EXCEPT ![c] = @ \cup S]
      <3>1. pos[c] .. (next - 1) \in SUBSET (0 .. (next - 1))
        BY <1>1, <2>2
      <3>2. ReleaseOne(c) => {pos[c]} \in SUBSET (0 .. (next - 1))
        BY <1>1, <2>2
      <3>3. QED
        BY <1>7, <3>1, <3>2 DEF ReleaseOne, ReleaseRest
    <2>4. base <= base' /\ UNCHANGED <<next, final>>
      <3>1. PICK to \in Nat : SaRelease(pos[c], to)
        BY <1>1, <1>7, <2>2 DEF ReleaseOne, ReleaseRest
      <3>2. SaTypeOK
        BY <1>1 DEF ClientTypes
      <3>3. QED
        BY <2>2, <3>1, <3>2, ReleaseEffect
    <2>5. NoEarlyDrop'
      BY DEF ClientsIInv
    <2>6. MC!Ack(c)
      BY <1>1, <2>1, <2>3, <2>4, <2>5, ReleaseAcknowledges
    <2>7. QED
      BY <1>7, <2>6 DEF MC!Next
  <1>8. CASE UNCHANGED systemVars \/ Finished
    BY <1>8 DEF systemVars, Finished, MC!mcVars, Live
  <1>9. QED
    BY <1>2, <1>3, <1>4, <1>5, <1>6, <1>7, <1>8 DEF ClientsNext, Consume

(* The counted array, with its clamped releases, its shifts and its        *)
(* approximate free, is a multicast channel: nothing is sent after it is   *)
(* closed, and what is forgotten was acknowledged by every present member. *)
THEOREM Implementation == ASSUME ~ReleasesAll PROVE ClientsSpec => ImplementsMulticast
  <1>1. ClientsInit => MC!Init
    BY DEF ClientsInit, SaInit, MC!Init, Live, Idle
  <1>2. ClientsIInv /\ FinalReached /\ ClientsIInv' /\ [ClientsNext]_systemVars => [MC!Next]_(MC!mcVars)
    BY MulticastStep, ClientsAssumption
  <1>3. QED
    BY <1>1, <1>2, ClientsInvariance, FinalReachedInvariance, PTL
       DEF ClientsSpec, ImplementsMulticast, MC!Spec
-----------------------------------------------------------------------------
(* featbuf and its searches: the invariant. *)

(* The search still has the element i to release in this run.              *)
Unreleased(s, i) ==
  \/ spc[s] = "started"
  \/ spc[s] \in {"wait", "get", "ending", "releasing"} /\ output[s] <= i
  \/ spc[s] = "search" /\ output[s] <= i + 1

Waiting(i) == {s \in Searches : Unreleased(s, i)}

InUtterance == ppc \in {"open", "draining", "awaiting"}

(* Between the tokens of an utterance and its end every token is waiting,  *)
(* with a search, or given back; whoever holds it.                         *)
TokensAccounted ==
  /\ ppc \in {"open", "draining"} => start + Cardinality(Busy) + release = refcount - 1
  /\ ppc = "awaiting" => start + Cardinality(Busy) + release = nth
  /\ ppc \in {"idle", "starting", "stopping"} => start = 0 /\ Busy = {} /\ release = 0
  /\ ppc = "stopped" => \A s \in Searches : spc[s] \in Outside \cup {"started"}
  /\ canceled <=> ppc \in {"stopping", "stopped"}
  /\ \A s \in Searches : spc[s] \in {"gone", "freed"} => ppc = "stopped"

(* Runs of an utterance yet to release an element are not counted in its   *)
(* releases, and an element no longer held is waited for by none.          *)
CountsAreFounded ==
  InUtterance =>
    /\ \A i \in Held : count[i] + start + Cardinality(Waiting(i)) <= refcount - 1
    /\ \A i \in 0 .. (base - 1) : start = 0 /\ Waiting(i) = {}

(* What a run has read, and where it may be when the array is final.       *)
FramesRead ==
  \A s \in Searches :
    /\ spc[s] \in {"wait", "get", "search"} =>
         /\ InUtterance
         /\ output[s] <= next /\ ~failed[s]
         /\ seen[s] = 0 .. (output[s] - 1)
    /\ spc[s] = "get" => output[s] < next
    /\ spc[s] = "search" => output[s] > 0
    /\ spc[s] \in {"ending", "releasing", "signalling"} =>
         InUtterance /\ (failed[s] \/ (final = next /\ seen[s] = 0 .. (next - 1)))

(* Every cepstrum frame is a feature that was appended, one that is owed   *)
(* to the array, or one of those that wait for their right context.        *)
FramesAccounted ==
  /\ ppc \in {"open", "draining", "starting"} => final = Unset
  /\ ppc \notin {"open", "draining"} => owed = 0
  /\ ppc = "starting" => ceps = 0 /\ next = 0 /\ base = 0
  /\ final # Unset => final = next
  /\ ppc = "open" => next + owed = IF mode = "full" THEN ceps ELSE FeaturesReady(ceps)
  /\ ppc \in {"draining", "awaiting"} /\ mode # "cep" => next + owed = ceps
  /\ ppc = "awaiting" => final = next
  /\ ppc \notin {"idle", "stopping", "stopped"} => mode # "none"

IInv ==
  TypeOK /\ TokensAccounted /\ CountsAreFounded /\ FramesRead /\ FramesAccounted
-----------------------------------------------------------------------------
(* Facts about finite sets of searches. *)

LEMMA BusyFinite ==
  /\ IsFiniteSet(Busy) /\ Cardinality(Busy) \in Nat
  /\ \A i : IsFiniteSet(Waiting(i)) /\ Cardinality(Waiting(i)) \in Nat
  <1>1. IsFiniteSet(Busy) /\ \A i : IsFiniteSet(Waiting(i))
    BY FeatBufAssumption, FS_Subset DEF Busy, Waiting
  <1>2. QED
    BY <1>1, FS_CardinalityType

(* Who is in an utterance after a search moves. *)
LEMMA BusyAfterMove ==
  ASSUME TypeOK, NEW s \in Searches, NEW where, GoTo(s, where)
  PROVE  /\ spc'[s] = where
         /\ \A t \in Searches \ {s} : spc'[t] = spc[t]
         /\ Busy' = IF where \in Inside THEN Busy \cup {s} ELSE Busy \ {s}
         /\ where \in Outside \cup Inside => spc' \in [Searches -> Outside \cup Inside]
  BY DEF TypeOK, GoTo, Busy, Outside, Inside

(* Fewer waiting searches are counted for no more. *)
LEMMA WaitingShrinks ==
  ASSUME NEW i, NEW S \in SUBSET Waiting(i)
  PROVE  IsFiniteSet(S) /\ Cardinality(S) \in Nat /\ Cardinality(S) <= Cardinality(Waiting(i))
  BY BusyFinite, FS_Subset, FS_CardinalityType

(* ... and one fewer for one less. *)
LEMMA WaitingLosesOne ==
  ASSUME NEW i, NEW s \in Waiting(i), NEW S \in SUBSET Waiting(i), s \notin S
  PROVE  /\ IsFiniteSet(S) /\ Cardinality(S) \in Nat
         /\ Cardinality(S) <= Cardinality(Waiting(i)) - 1
  <1>1. IsFiniteSet(Waiting(i) \ {s}) /\ Cardinality(Waiting(i) \ {s}) = Cardinality(Waiting(i)) - 1
    BY BusyFinite, FS_RemoveElement
  <1>2. S \in SUBSET (Waiting(i) \ {s})
    OBVIOUS
  <1>3. QED
    BY <1>1, <1>2, FS_Subset, FS_CardinalityType
-----------------------------------------------------------------------------
(* What a step of a search keeps. *)

(* A search that is in an utterance, and stays in it, has its token still. *)
LEMMA TokensStay ==
  ASSUME IInv, NEW s \in Searches, NEW where \in Inside \ {"started"},
         spc[s] \in Inside \ {"started"}, GoTo(s, where),
         UNCHANGED <<start, release, refcount, ppc, nth, canceled>>
  PROVE  TokensAccounted'
  <1>1. /\ spc'[s] = where /\ Busy' = Busy
        /\ \A t \in Searches \ {s} : spc'[t] = spc[t]
    BY BusyAfterMove DEF IInv, Busy
  <1>2. ppc # "stopped"
    BY DEF IInv, TokensAccounted, Outside, Inside
  <1>3. \A t \in Searches : spc'[t] \in {"gone", "freed"} => spc[t] \in {"gone", "freed"}
    BY <1>1 DEF Inside
  <1>4. QED
    BY <1>1, <1>2, <1>3 DEF IInv, TokensAccounted

(* The counts of the array stay founded when no search has more to release. *)
LEMMA CountsStay ==
  ASSUME IInv, UNCHANGED <<base, next, count, refcount, start, ppc>>,
         \A i \in Nat : Waiting(i)' \subseteq Waiting(i)
  PROVE  CountsAreFounded'
  <1> SUFFICES ASSUME InUtterance
               PROVE  /\ \A i \in Held : count[i] + start + Cardinality(Waiting(i)') <= refcount - 1
                      /\ \A i \in 0 .. (base - 1) : start = 0 /\ Waiting(i)' = {}
    BY DEF CountsAreFounded, InUtterance, Held
  <1>1. base \in Nat /\ next \in Nat /\ refcount \in Nat /\ start \in Nat
        /\ \A i \in Held : count[i] \in Nat /\ i \in Nat
    BY DEF IInv, TypeOK, SaTypeOK, Held, CountModulus
  <1>2. ASSUME NEW i \in Held
        PROVE  count[i] + start + Cardinality(Waiting(i)') <= refcount - 1
    <2> DEFINE new == Waiting(i)'
    <2>1. new \in SUBSET Waiting(i)
      BY <1>1, <1>2
    <2> HIDE DEF new
    <2>2. Cardinality(new) \in Nat /\ Cardinality(new) <= Cardinality(Waiting(i))
      BY <2>1, WaitingShrinks
    <2>3. count[i] + start + Cardinality(Waiting(i)) <= refcount - 1
      BY DEF IInv, CountsAreFounded
    <2>4. count[i] + start + Cardinality(new) <= refcount - 1
      BY <1>1, <2>2, <2>3, BusyFinite
    <2>5. QED
      BY <2>4 DEF new
  <1>3. ASSUME NEW i \in 0 .. (base - 1)
        PROVE  start = 0 /\ Waiting(i)' = {}
    BY <1>1, <1>3 DEF IInv, CountsAreFounded
  <1>4. QED
    BY <1>2, <1>3

(* A search releases elements it has yet to release: what is given back no *)
(* run of the utterance waits for.                                         *)
LEMMA ReleaseKeepsCounts ==
  ASSUME IInv, NEW s \in Searches, NEW from \in Nat, NEW to \in Nat,
         InUtterance, SaRelease(from, to), UNCHANGED <<start, ppc>>,
         \A i \in Nat : Waiting(i)' \subseteq Waiting(i),
         \A i \in Nat : from <= i /\ i < to => s \in Waiting(i) /\ s \notin Waiting(i)'
  PROVE  /\ SaTypeOK' /\ CountsAreFounded'
         /\ next' = next /\ refcount' = refcount /\ final' = final
  <1> DEFINE gain(i) == from <= i /\ i < to
             new(i) == Waiting(i)'
  <1>1. /\ SaTypeOK' /\ next' = next /\ refcount' = refcount /\ final' = final
        /\ base <= base' /\ base' <= next
        /\ \A i \in Held' : i \in Held
             /\ count'[i] <= IF gain(i) THEN count[i] + 1 ELSE count[i]
        /\ \A i \in base .. (base' - 1) : i \in Held
             /\ refcount - 1 <= IF gain(i) THEN count[i] + 1 ELSE count[i]
    BY ReleaseEffect DEF IInv, TypeOK
  <1>2. /\ base \in Nat /\ base' \in Nat /\ refcount \in Nat /\ start \in Nat
        /\ \A i \in Held : count[i] \in Nat /\ i \in Nat
    BY <1>1 DEF IInv, TypeOK, SaTypeOK, Held, CountModulus
  <1>3. \A i \in Held' : count'[i] \in Nat
    BY <1>1 DEF SaTypeOK, Held, CountModulus
  <1>4. \A i \in Nat : /\ Cardinality(new(i)) \in Nat /\ IsFiniteSet(new(i))
                       /\ Cardinality(new(i)) <= Cardinality(Waiting(i))
                       /\ gain(i) => Cardinality(new(i)) <= Cardinality(Waiting(i)) - 1
    <2> SUFFICES ASSUME NEW i \in Nat
                 PROVE  /\ Cardinality(new(i)) \in Nat /\ IsFiniteSet(new(i))
                        /\ Cardinality(new(i)) <= Cardinality(Waiting(i))
                        /\ gain(i) => Cardinality(new(i)) <= Cardinality(Waiting(i)) - 1
      OBVIOUS
    <2>1. new(i) \in SUBSET Waiting(i) /\ (gain(i) => s \in Waiting(i) /\ s \notin new(i))
      OBVIOUS
    <2> HIDE DEF new, gain
    <2>2. QED
      BY <2>1, WaitingShrinks, WaitingLosesOne
  <1>5. \A i \in Held : /\ count[i] + start + Cardinality(Waiting(i)) <= refcount - 1
                        /\ Cardinality(Waiting(i)) \in Nat
    BY BusyFinite DEF IInv, CountsAreFounded
  <1>6. ASSUME NEW i \in Held'
        PROVE  count'[i] + start + Cardinality(new(i)) <= refcount - 1
    <2> HIDE DEF new, gain
    <2>1. i \in Nat /\ i \in Held /\ count[i] \in Nat /\ count'[i] \in Nat
      BY <1>1, <1>2, <1>3
    <2>2. QED
      BY <1>1, <1>2, <1>4, <1>5, <2>1
  <1>7. ASSUME NEW i \in 0 .. (base' - 1)
        PROVE  start = 0 /\ new(i) = {}
    <2> DEFINE newBase == base'
    <2>0. base \in Nat /\ newBase \in Nat /\ i \in 0 .. (newBase - 1)
      BY <1>2
    <2>1. i \in Nat /\ (i >= base => i \in base .. (newBase - 1))
      <3> HIDE DEF newBase
      <3>1. QED
        BY <2>0
    <2>2. CASE i < base
      <3>1. start = 0 /\ Waiting(i) = {}
        BY <1>2, <2>1, <2>2 DEF IInv, CountsAreFounded
      <3>2. QED
        BY <2>1, <3>1
    <2>3. CASE i >= base
      <3> HIDE DEF new, gain
      <3>1. i \in base .. (base' - 1)
        BY <2>1, <2>3 DEF newBase
      <3>2. i \in Held /\ refcount - 1 <= IF gain(i) THEN count[i] + 1 ELSE count[i]
        BY <1>1, <3>1
      <3>3. start = 0 /\ Cardinality(new(i)) = 0
        BY <1>2, <1>4, <1>5, <2>1, <3>2
      <3>4. QED
        BY <1>4, <2>1, <3>3, FS_EmptySet
    <2>4. QED
      BY <1>2, <2>1, <2>2, <2>3
  <1>8. CountsAreFounded'
    BY <1>1, <1>6, <1>7 DEF CountsAreFounded, InUtterance
  <1>9. QED
    BY <1>1, <1>8
-----------------------------------------------------------------------------
(* The invariant, an action at a time: the searches. *)

(* Frames and features are the producer's. *)
LEMMA FramesStay ==
  ASSUME IInv, UNCHANGED <<ppc, owed, ceps, mode, next, final>>, base' = base \/ ppc # "starting"
  PROVE  FramesAccounted'
  BY DEF IInv, FramesAccounted

(* Of what a search does to itself the other searches see nothing. *)
LEMMA ReadingStays ==
  ASSUME IInv, NEW s \in Searches, NEW where, GoTo(s, where), UNCHANGED <<ppc, next, final>>,
         \A t \in Searches \ {s} :
            output'[t] = output[t] /\ seen'[t] = seen[t] /\ failed'[t] = failed[t],
         where \in {"wait", "get", "search"} =>
            /\ InUtterance /\ output'[s] <= next /\ ~failed'[s]
            /\ seen'[s] = 0 .. (output'[s] - 1),
         where = "get" => output'[s] < next,
         where = "search" => output'[s] > 0,
         where \in {"ending", "releasing", "signalling"} =>
            InUtterance /\ (failed'[s] \/ (final = next /\ seen'[s] = 0 .. (next - 1)))
  PROVE  FramesRead'
  <1>1. spc'[s] = where /\ \A t \in Searches \ {s} : spc'[t] = spc[t]
    BY BusyAfterMove DEF IInv
  <1>2. InUtterance' = InUtterance
    BY DEF InUtterance
  <1> SUFFICES ASSUME NEW t \in Searches
               PROVE  /\ spc'[t] \in {"wait", "get", "search"} =>
                           /\ InUtterance' /\ output'[t] <= next' /\ ~failed'[t]
                           /\ seen'[t] = 0 .. (output'[t] - 1)
                      /\ spc'[t] = "get" => output'[t] < next'
                      /\ spc'[t] = "search" => output'[t] > 0
                      /\ spc'[t] \in {"ending", "releasing", "signalling"} =>
                           /\ InUtterance'
                           /\ failed'[t] \/ (final' = next' /\ seen'[t] = 0 .. (next' - 1))
    BY DEF FramesRead
  <1>3. CASE t = s
    BY <1>1, <1>2, <1>3
  <1>4. CASE t # s
    BY <1>1, <1>2, <1>4 DEF IInv, FramesRead
  <1>5. QED
    BY <1>3, <1>4

LEMMA AttachStep ==
  ASSUME IInv, NEW s \in Searches, Attach(s)
  PROVE  IInv'
  <1>1. /\ TypeOK /\ SaTypeOK /\ ppc = "idle" /\ spc[s] = "none" /\ GoTo(s, "start")
        /\ UNCHANGED <<start, release, canceled, producerVars, output, upto, seen, failed, ended>>
    BY DEF Attach, IInv, TypeOK
  <1>2. SaTypeOK' /\ refcount' = refcount + 1 /\ UNCHANGED <<base, next, count, final>>
    BY <1>1, RetainEffect DEF Attach
  <1>3. /\ Busy' = Busy \ {s} /\ spc'[s] = "start"
        /\ \A t \in Searches \ {s} : spc'[t] = spc[t]
        /\ spc' \in [Searches -> Outside \cup Inside]
    BY <1>1, BusyAfterMove DEF Outside, Inside
  <1>4. TypeOK'
    BY <1>1, <1>2, <1>3 DEF TypeOK, producerVars
  <1>5. TokensAccounted'
    BY <1>1, <1>3 DEF IInv, TokensAccounted, producerVars
  <1>6. CountsAreFounded'
    BY <1>1 DEF CountsAreFounded, InUtterance, producerVars
  <1>7. FramesRead'
    BY <1>1, <1>2, ReadingStays DEF producerVars
  <1>8. FramesAccounted'
    BY <1>1, <1>2, FramesStay DEF producerVars
  <1>9. QED
    BY <1>4, <1>5, <1>6, <1>7, <1>8 DEF IInv

(* A token goes from the semaphore to a search, which waits for every      *)
(* element.                                                                *)
LEMMA StartDownStep ==
  ASSUME IInv, NEW s \in Searches, StartDown(s)
  PROVE  IInv'
  <1>1. /\ TypeOK /\ SaTypeOK /\ spc[s] = "start" /\ GoTo(s, "started") /\ start > 0
        /\ start' = start - 1 /\ start \in Nat
        /\ UNCHANGED <<saVars, release, canceled, producerVars, output, upto, seen, failed, ended>>
    BY DEF StartDown, IInv, TypeOK
  <1>2. /\ Busy' = Busy \cup {s} /\ s \notin Busy /\ spc'[s] = "started"
        /\ \A t \in Searches \ {s} : spc'[t] = spc[t]
        /\ spc' \in [Searches -> Outside \cup Inside]
    BY <1>1, BusyAfterMove DEF Outside, Inside, Busy
  <1>3. Cardinality(Busy') = Cardinality(Busy) + 1
    BY <1>2, BusyFinite, FS_AddElement
  <1>4. TypeOK'
    BY <1>1, <1>2 DEF TypeOK, SaTypeOK, Held, CountModulus, producerVars, saVars
  <1>5. TokensAccounted'
    <2>1. ppc \in {"open", "draining", "awaiting", "stopped"}
      BY <1>1 DEF IInv, TokensAccounted, TypeOK
    <2>2. \A t \in Searches : spc'[t] \in {"gone", "freed"} => ppc = "stopped"
      BY <1>2 DEF IInv, TokensAccounted
    <2>3. ppc = "stopped" => \A t \in Searches : spc'[t] \in Outside \cup {"started"}
      BY <1>2 DEF IInv, TokensAccounted
    <2>4. start' + Cardinality(Busy') + release = start + Cardinality(Busy) + release
      BY <1>1, <1>3, BusyFinite DEF TypeOK
    <2>5. QED
      BY <1>1, <2>1, <2>2, <2>3, <2>4 DEF IInv, TokensAccounted, producerVars, saVars
  <1>6. CountsAreFounded'
    <2> SUFFICES ASSUME InUtterance
                 PROVE  /\ \A i \in Held : count[i] + start' + Cardinality(Waiting(i)') <= refcount - 1
                        /\ \A i \in 0 .. (base - 1) : start' = 0 /\ Waiting(i)' = {}
      BY <1>1 DEF CountsAreFounded, InUtterance, Held, producerVars, saVars
    <2>1. \A i : Waiting(i)' = Waiting(i) \cup {s} /\ s \notin Waiting(i)
      BY <1>1, <1>2 DEF Waiting, Unreleased
    <2>2. ASSUME NEW i \in Held
          PROVE  count[i] + start' + Cardinality(Waiting(i)') <= refcount - 1
      <3>1. Cardinality(Waiting(i)') = Cardinality(Waiting(i)) + 1
        BY <2>1, BusyFinite, FS_AddElement
      <3>2. count[i] + start + Cardinality(Waiting(i)) <= refcount - 1
        BY DEF IInv, CountsAreFounded
      <3>3. count[i] \in Nat /\ refcount \in Nat
        BY <1>1 DEF SaTypeOK, CountModulus
      <3>4. QED
        BY <1>1, <3>1, <3>2, <3>3, BusyFinite
    <2>3. 0 .. (base - 1) = {}
      BY <1>1 DEF IInv, CountsAreFounded
    <2>4. QED
      BY <2>2, <2>3
  <1>7. FramesRead'
    BY <1>1, ReadingStays DEF producerVars, saVars
  <1>8. FramesAccounted'
    BY <1>1, FramesStay DEF producerVars, saVars
  <1>9. QED
    BY <1>4, <1>5, <1>6, <1>7, <1>8 DEF IInv

LEMMA StartUttStep ==
  ASSUME IInv, NEW s \in Searches, StartUtt(s)
  PROVE  IInv'
  <1> DEFINE where == IF canceled THEN "gone" ELSE "wait"
  <1>1. /\ TypeOK /\ SaTypeOK /\ spc[s] = "started" /\ GoTo(s, where)
        /\ UNCHANGED <<saVars, start, release, canceled, producerVars, upto, ended>>
        /\ output'[s] = 0 /\ seen'[s] = {} /\ ~failed'[s]
        /\ \A t \in Searches \ {s} :
             output'[t] = output[t] /\ seen'[t] = seen[t] /\ failed'[t] = failed[t]
        /\ output' \in [Searches -> Nat] /\ seen' \in [Searches -> SUBSET Nat]
        /\ failed' \in [Searches -> BOOLEAN]
    BY DEF StartUtt, IInv, TypeOK
  <1>2. /\ spc'[s] = where /\ \A t \in Searches \ {s} : spc'[t] = spc[t]
        /\ Busy' = IF canceled THEN Busy \ {s} ELSE Busy
        /\ spc' \in [Searches -> Outside \cup Inside]
    BY <1>1, BusyAfterMove DEF Outside, Inside, Busy
  <1>3. (canceled => ppc = "stopped") /\ (~canceled => InUtterance)
    BY <1>1 DEF IInv, TokensAccounted, TypeOK, Busy, Inside, InUtterance
  <1>4. TypeOK'
    BY <1>1, <1>2 DEF TypeOK, SaTypeOK, Held, CountModulus, producerVars, saVars
  <1>5. TokensAccounted'
    BY <1>1, <1>2, <1>3 DEF IInv, TokensAccounted, producerVars, saVars, Outside, InUtterance
  <1>6. CountsAreFounded'
    <2>1. \A i \in Nat : Waiting(i)' \subseteq Waiting(i)
      BY <1>1, <1>2 DEF Waiting, Unreleased
    <2>2. QED
      BY <1>1, <2>1, CountsStay DEF producerVars, saVars
  <1>7. FramesRead'
    <2>1. next \in Nat /\ 0 .. (0 - 1) = {}
      BY <1>1 DEF SaTypeOK
    <2>2. UNCHANGED <<ppc, next, final>>
      BY <1>1 DEF producerVars, saVars
    <2>3. where = "wait" => InUtterance /\ output'[s] <= next /\ seen'[s] = 0 .. (output'[s] - 1)
      BY <1>1, <1>3, <2>1
    <2>4. where \in {"gone", "wait"}
      OBVIOUS
    <2> HIDE DEF where
    <2>5. QED
      BY <1>1, <2>2, <2>3, <2>4, ReadingStays
  <1>8. FramesAccounted'
    BY <1>1, FramesStay DEF producerVars, saVars
  <1>9. QED
    BY <1>4, <1>5, <1>6, <1>7, <1>8 DEF IInv

(* The frame a search has waited for has not been given back. *)
LEMMA GetFinds ==
  ASSUME IInv, NEW s \in Searches, spc[s] = "get"
  PROVE  GetSucceeds(output[s])
  <1>1. InUtterance /\ output[s] < next
    BY DEF IInv, FramesRead
  <1>2. base \in Nat /\ next \in Nat /\ output[s] \in Nat
    BY DEF IInv, TypeOK, SaTypeOK
  <1>3. s \in Waiting(output[s])
    BY <1>2 DEF Waiting, Unreleased
  <1>4. ~(output[s] < base)
    BY <1>1, <1>2, <1>3 DEF IInv, CountsAreFounded
  <1>5. QED
    BY <1>1, <1>2, <1>4 DEF GetSucceeds, Held

(* The steps that leave the array alone: what a search has yet to release  *)
(* can only become less.                                                   *)
LEMMA LookStep ==
  ASSUME IInv, NEW s \in Searches,
         WaitFrame(s) \/ GetFrame(s) \/ SearchFails(s) \/ EndIndex(s)
  PROVE  IInv'
  <1>1. PICK where : /\ GoTo(s, where)
                     /\ where \in {"get", "ending", "search", "releasing"}
                     /\ where = "get" => spc[s] = "wait" /\ output[s] < next
                     /\ where = "ending" => spc[s] \in {"wait", "search"}
                     /\ where = "search" => spc[s] = "get"
                     /\ where = "releasing" => spc[s] = "ending"
    BY DEF WaitFrame, GetFrame, SearchFails, EndIndex, WaitSucceeds
  <1>2. /\ TypeOK /\ SaTypeOK /\ next \in Nat /\ output[s] \in Nat
        /\ UNCHANGED <<saVars, start, release, canceled, producerVars, ended>>
    BY DEF IInv, TypeOK, SaTypeOK, WaitFrame, GetFrame, SearchFails, EndIndex
  <1>3. /\ spc'[s] = where /\ \A t \in Searches \ {s} : spc'[t] = spc[t]
        /\ spc' \in [Searches -> Outside \cup Inside]
    BY <1>1, <1>2, BusyAfterMove DEF Inside
  <1>4. /\ \A t \in Searches \ {s} :
             output'[t] = output[t] /\ seen'[t] = seen[t] /\ failed'[t] = failed[t]
        /\ output' \in [Searches -> Nat] /\ upto' \in [Searches -> Nat]
        /\ failed' \in [Searches -> BOOLEAN] /\ seen' \in [Searches -> SUBSET Nat]
    <2>1. CASE WaitFrame(s)
      BY <1>2, <2>1 DEF TypeOK, WaitFrame
    <2>2. CASE GetFrame(s)
      <3>1. /\ output' = [output EXCEPT ![s] = @ + 1]
            /\ seen' = [seen EXCEPT ![s] = @ \cup {output[s]}] \/ seen' = seen
            /\ UNCHANGED <<upto, failed>>
        BY <2>2 DEF GetFrame
      <3>2. QED
        BY <1>2, <3>1 DEF TypeOK
    <2>3. CASE SearchFails(s)
      BY <1>2, <2>3 DEF TypeOK, SearchFails
    <2>4. CASE EndIndex(s)
      BY <1>2, <2>4 DEF TypeOK, EndIndex
    <2>5. QED
      BY <2>1, <2>2, <2>3, <2>4
  <1>5. output'[s] = IF where = "search" THEN output[s] + 1 ELSE output[s]
    BY <1>1, <1>2 DEF TypeOK, GoTo, WaitFrame, GetFrame, SearchFails, EndIndex
  <1>6. TypeOK'
    BY <1>2, <1>3, <1>4 DEF TypeOK, SaTypeOK, Held, CountModulus, producerVars, saVars
  <1>7. TokensAccounted'
    <2>1. spc[s] \in Inside \ {"started"} /\ where \in Inside \ {"started"}
      BY <1>1 DEF Inside
    <2>2. UNCHANGED <<start, release, refcount, ppc, nth, canceled>>
      BY <1>2 DEF producerVars, saVars
    <2>3. QED
      BY <1>1, <2>1, <2>2, TokensStay
  <1>8. CountsAreFounded'
    <2>1. ASSUME NEW i \in Nat, NEW t \in Searches, Unreleased(t, i)'
          PROVE  Unreleased(t, i)
      <3>1. CASE t # s
        BY <1>3, <1>4, <2>1, <3>1 DEF Unreleased
      <3>2. CASE t = s
        BY <1>1, <1>2, <1>3, <1>5, <2>1, <3>2 DEF Unreleased
      <3>3. QED
        BY <3>1, <3>2
    <2>2. \A i \in Nat : Waiting(i)' \subseteq Waiting(i)
      BY <2>1 DEF Waiting
    <2>3. QED
      BY <1>2, <2>2, CountsStay DEF producerVars, saVars
  <1>9. FramesRead'
    <2>1. /\ InUtterance
          /\ spc[s] \in {"wait", "get", "search"} =>
               output[s] <= next /\ ~failed[s] /\ seen[s] = 0 .. (output[s] - 1)
          /\ spc[s] = "get" => output[s] < next
          /\ spc[s] = "ending" => failed[s] \/ (final = next /\ seen[s] = 0 .. (next - 1))
      BY <1>1 DEF IInv, FramesRead
    <2>2. CASE WaitFrame(s)
      <3>1. output' = output /\ seen' = seen /\ failed' = failed /\ spc[s] = "wait"
        BY <2>2 DEF WaitFrame
      <3>2. where = "ending" => WaitFails(output[s])
        BY <1>3, <2>2 DEF WaitFrame, GoTo, IInv, TypeOK
      <3>3. WaitFails(output[s]) => final = next /\ output[s] = next
        BY <1>2, <2>1, <3>1 DEF WaitFails, WaitSucceeds, PastFinal, IInv, FramesAccounted
      <3>4. where \in {"get", "ending"}
        BY <1>1, <3>1
      <3>5. UNCHANGED <<ppc, next, final>>
        BY <1>2 DEF producerVars, saVars
      <3>6. QED
        BY <1>1, <2>1, <3>1, <3>2, <3>3, <3>4, <3>5, ReadingStays
    <2>3. CASE GetFrame(s)
      <3>1. /\ failed' = failed /\ spc[s] = "get" /\ where = "search"
            /\ UNCHANGED <<ppc, next, final>>
        BY <1>1, <1>2, <2>3 DEF GetFrame, producerVars, saVars
      <3>2. seen'[s] = seen[s] \cup {output[s]}
        BY <1>2, <2>3, <3>1, GetFinds DEF GetFrame, TypeOK
      <3>3. \A n \in Nat : 0 .. ((n + 1) - 1) = (0 .. (n - 1)) \cup {n}
        OBVIOUS
      <3>4. seen'[s] = 0 .. (output'[s] - 1)
        BY <1>2, <1>5, <2>1, <3>1, <3>2, <3>3
      <3>5. output'[s] <= next /\ output'[s] > 0 /\ ~failed'[s]
        BY <1>2, <1>5, <2>1, <3>1
      <3>6. QED
        BY <1>1, <1>4, <2>1, <3>1, <3>4, <3>5, ReadingStays
    <2>4. CASE SearchFails(s)
      <3>1. failed'[s] /\ where = "ending" /\ UNCHANGED <<ppc, next, final>>
        BY <1>1, <1>2, <2>4 DEF SearchFails, TypeOK, producerVars, saVars
      <3>2. QED
        BY <1>1, <1>4, <2>1, <3>1, ReadingStays
    <2>5. CASE EndIndex(s)
      <3>1. /\ output' = output /\ seen' = seen /\ failed' = failed /\ spc[s] = "ending"
            /\ UNCHANGED <<ppc, next, final>>
        BY <1>2, <2>5 DEF EndIndex, producerVars, saVars
      <3>2. where = "releasing"
        BY <1>1, <3>1
      <3>3. QED
        BY <1>1, <2>1, <3>1, <3>2, ReadingStays
    <2>6. QED
      BY <2>2, <2>3, <2>4, <2>5
  <1>10. FramesAccounted'
    BY <1>2, FramesStay DEF producerVars, saVars
  <1>11. QED
    BY <1>6, <1>7, <1>8, <1>9, <1>10 DEF IInv

(* A search releases the frame it has searched, or at its end those it has *)
(* not come to.                                                            *)
LEMMA ReleaseStep ==
  ASSUME IInv, NEW s \in Searches, ReleaseFrame(s) \/ EndRelease(s)
  PROVE  IInv'
  <1>1. PICK where, from, to :
            /\ GoTo(s, where) /\ SaRelease(from, to)
            /\ \/ spc[s] = "search" /\ where = "wait" /\ from = output[s] - 1 /\ to = output[s]
               \/ spc[s] = "releasing" /\ where = "signalling" /\ from = output[s] /\ to = upto[s]
    BY DEF ReleaseFrame, EndRelease
  <1>2. /\ TypeOK /\ SaTypeOK /\ output[s] \in Nat /\ upto[s] \in Nat
        /\ UNCHANGED <<start, release, canceled, producerVars, output, upto, seen, failed, ended>>
        /\ InUtterance
        /\ spc[s] = "search" => output[s] > 0 /\ ~failed[s] /\ output[s] <= next
                             /\ seen[s] = 0 .. (output[s] - 1)
        /\ spc[s] = "releasing" => failed[s] \/ (final = next /\ seen[s] = 0 .. (next - 1))
    BY DEF ReleaseFrame, EndRelease, IInv, TypeOK, FramesRead
  <1>3. /\ spc'[s] = where /\ \A t \in Searches \ {s} : spc'[t] = spc[t]
        /\ spc' \in [Searches -> Outside \cup Inside]
    BY <1>1, <1>2, BusyAfterMove DEF Inside
  <1>4. from \in Nat /\ to \in Nat
    BY <1>1, <1>2
  <1>5. \A i \in Nat : Waiting(i)' \subseteq Waiting(i)
    BY <1>1, <1>2, <1>3 DEF Waiting, Unreleased
  <1>6. \A i \in Nat : from <= i /\ i < to => s \in Waiting(i) /\ s \notin Waiting(i)'
    BY <1>1, <1>2, <1>3 DEF Waiting, Unreleased
  <1>7. /\ SaTypeOK' /\ CountsAreFounded'
        /\ next' = next /\ refcount' = refcount /\ final' = final
    BY <1>1, <1>2, <1>4, <1>5, <1>6, ReleaseKeepsCounts DEF producerVars
  <1>8. TypeOK'
    BY <1>2, <1>3, <1>7 DEF TypeOK, producerVars
  <1>9. TokensAccounted'
    <2>1. spc[s] \in Inside \ {"started"} /\ where \in Inside \ {"started"}
      BY <1>1 DEF Inside
    <2>2. UNCHANGED <<start, release, refcount, ppc, nth, canceled>>
      BY <1>2, <1>7 DEF producerVars
    <2>3. QED
      BY <1>1, <2>1, <2>2, TokensStay
  <1>10. FramesRead'
    <2>1. UNCHANGED <<ppc, next, final, output, seen, failed>>
      BY <1>2, <1>7 DEF producerVars
    <2>2. QED
      BY <1>1, <1>2, <2>1, ReadingStays
  <1>11. FramesAccounted'
    <2>1. ppc # "starting"
      BY <1>2 DEF InUtterance
    <2>2. QED
      BY <1>2, <1>7, <2>1, FramesStay DEF producerVars
  <1>12. QED
    BY <1>7, <1>8, <1>9, <1>10, <1>11 DEF IInv

(* The token a search has used comes back. *)
LEMMA EndSignalStep ==
  ASSUME IInv, NEW s \in Searches, EndSignal(s)
  PROVE  IInv'
  <1>1. /\ TypeOK /\ SaTypeOK /\ spc[s] = "signalling" /\ GoTo(s, "start")
        /\ release' = release + 1 /\ release \in Nat /\ start \in Nat
        /\ UNCHANGED <<saVars, start, canceled, producerVars, output, upto, seen, failed>>
        /\ ended' \in [Searches -> 0 .. MaxUtts]
    BY DEF EndSignal, IInv, TypeOK
  <1>2. /\ Busy' = Busy \ {s} /\ s \in Busy /\ spc'[s] = "start"
        /\ \A t \in Searches \ {s} : spc'[t] = spc[t]
        /\ spc' \in [Searches -> Outside \cup Inside]
    BY <1>1, BusyAfterMove DEF Outside, Inside, Busy
  <1>3. Cardinality(Busy') = Cardinality(Busy) - 1
    BY <1>2, BusyFinite, FS_RemoveElement
  <1>4. TypeOK'
    BY <1>1, <1>2 DEF TypeOK, SaTypeOK, Held, CountModulus, producerVars, saVars
  <1>5. InUtterance
    BY <1>1 DEF IInv, FramesRead
  <1>6. TokensAccounted'
    <2>1. start + Cardinality(Busy') + release' = start + Cardinality(Busy) + release
      BY <1>1, <1>3, BusyFinite
    <2>2. \A t \in Searches : spc'[t] \in {"gone", "freed"} => ppc = "stopped"
      BY <1>2 DEF IInv, TokensAccounted
    <2>3. QED
      BY <1>1, <1>5, <2>1, <2>2 DEF IInv, TokensAccounted, InUtterance, producerVars, saVars
  <1>7. CountsAreFounded'
    <2>1. \A i \in Nat : Waiting(i)' \subseteq Waiting(i)
      BY <1>1, <1>2 DEF Waiting, Unreleased
    <2>2. QED
      BY <1>1, <2>1, CountsStay DEF producerVars, saVars
  <1>8. FramesRead'
    BY <1>1, ReadingStays DEF producerVars, saVars
  <1>9. FramesAccounted'
    BY <1>1, FramesStay DEF producerVars, saVars
  <1>10. QED
    BY <1>4, <1>6, <1>7, <1>8, <1>9 DEF IInv

LEMMA DetachStep ==
  ASSUME IInv, NEW s \in Searches, Detach(s)
  PROVE  IInv'
  <1>1. /\ TypeOK /\ SaTypeOK /\ ppc = "stopped" /\ spc[s] = "gone" /\ GoTo(s, "freed")
        /\ UNCHANGED <<start, release, canceled, producerVars, output, upto, seen, failed, ended>>
    BY DEF Detach, IInv, TypeOK
  <1>2. SaTypeOK' /\ UNCHANGED <<base, next, final>>
    BY <1>1, FreeEffect DEF Detach
  <1>3. /\ spc'[s] = "freed" /\ \A t \in Searches \ {s} : spc'[t] = spc[t]
        /\ spc' \in [Searches -> Outside \cup Inside]
    BY <1>1, BusyAfterMove DEF Outside
  <1>4. TypeOK'
    BY <1>1, <1>2, <1>3 DEF TypeOK, producerVars
  <1>5. TokensAccounted'
    BY <1>1, <1>3 DEF IInv, TokensAccounted, producerVars, Outside
  <1>6. CountsAreFounded'
    BY <1>1 DEF CountsAreFounded, InUtterance, producerVars
  <1>7. FramesRead'
    BY <1>1, <1>2, ReadingStays DEF producerVars
  <1>8. FramesAccounted'
    BY <1>1, <1>2, FramesStay DEF producerVars
  <1>9. QED
    BY <1>4, <1>5, <1>6, <1>7, <1>8 DEF IInv
-----------------------------------------------------------------------------
(* The producer. *)

LEMMA InitIInv == Init => IInv
  <1> SUFFICES ASSUME Init PROVE IInv
    OBVIOUS
  <1>1. TypeOK
    <2>1. SaTypeOK
      BY MaxRefcountAssumption DEF Init, SaInit, SaTypeOK, Held, CountModulus, Unset
    <2>2. /\ spc \in [Searches -> Outside \cup Inside]
          /\ output \in [Searches -> Nat] /\ upto \in [Searches -> Nat]
          /\ seen \in [Searches -> SUBSET Nat] /\ failed \in [Searches -> BOOLEAN]
      BY DEF Init, Outside
    <2>3. utt \in 0 .. MaxUtts /\ ended \in [Searches -> 0 .. MaxUtts]
      BY FeatBufAssumption DEF Init
    <2>4. QED
      BY <2>1, <2>2, <2>3 DEF Init, TypeOK
  <1>2. TokensAccounted /\ CountsAreFounded /\ FramesRead /\ FramesAccounted
    BY DEF Init, SaInit, TokensAccounted, CountsAreFounded, FramesRead, FramesAccounted,
           InUtterance, Busy, Inside, Outside
  <1>3. QED
    BY <1>1, <1>2 DEF IInv

(* Features follow frames. *)
LEMMA ReadyIsNat ==
  ASSUME NEW n \in Nat
  PROVE  FeaturesReady(n) \in Nat /\ FeaturesReady(n) <= n
         /\ FeaturesReady(n) <= FeaturesReady(n + 1)
  BY FeatBufAssumption DEF FeaturesReady

(* The array is reset when no search looks at it. *)
LEMMA StartResetStep ==
  ASSUME IInv, StartReset
  PROVE  IInv'
  <1>1. /\ TypeOK /\ SaTypeOK /\ ppc = "idle" /\ ppc' = "starting" /\ Busy = {}
        /\ UNCHANGED <<start, release, canceled, nth, owed, searchVars>>
        /\ utt' \in 0 .. MaxUtts /\ mode' \in {"raw", "cep", "full"} /\ ceps' = 0
    BY FeatBufAssumption DEF StartReset, IInv, TypeOK, TokensAccounted
  <1>2. SaTypeOK' /\ refcount' = refcount /\ base' = 0 /\ next' = 0 /\ final' = Unset
    BY <1>1, ResetEffect DEF StartReset
  <1>3. TypeOK'
    BY <1>1, <1>2 DEF TypeOK, searchVars
  <1>4. TokensAccounted'
    BY <1>1 DEF IInv, TokensAccounted, searchVars, Busy
  <1>5. CountsAreFounded'
    BY <1>1 DEF CountsAreFounded, InUtterance
  <1>6. FramesRead'
    BY <1>1 DEF FramesRead, Busy, Inside, searchVars
  <1>7. FramesAccounted'
    BY <1>1, <1>2 DEF IInv, FramesAccounted
  <1>8. QED
    BY <1>3, <1>4, <1>5, <1>6, <1>7 DEF IInv

(* The tokens let as many runs in as there are references of searches. *)
LEMMA StartSignalStep ==
  ASSUME IInv, StartSignal
  PROVE  IInv'
  <1>1. /\ TypeOK /\ SaTypeOK /\ ppc = "starting" /\ ppc' = "open"
        /\ canceled' = FALSE /\ start' = refcount - 1
        /\ start' \in Nat /\ refcount \in Nat
        /\ UNCHANGED <<saVars, release, nth, mode, ceps, owed, utt, searchVars>>
    BY DEF StartSignal, Tokens, IInv, TypeOK, SaTypeOK
  <1>2. Busy = {} /\ release = 0 /\ Busy' = Busy /\ \A i : Waiting(i) = {} /\ Waiting(i)' = {}
    BY <1>1 DEF IInv, TokensAccounted, Busy, Waiting, Unreleased, Inside, searchVars
  <1>3. TypeOK'
    BY <1>1 DEF TypeOK, SaTypeOK, Held, CountModulus, saVars, searchVars
  <1>4. TokensAccounted'
    <2>1. \A s \in Searches : spc[s] \notin {"gone", "freed"}
      BY <1>1 DEF IInv, TokensAccounted
    <2>2. start' + Cardinality(Busy') + release' = refcount' - 1
      BY <1>1, <1>2, FS_EmptySet DEF saVars
    <2>3. QED
      BY <1>1, <2>1, <2>2 DEF TokensAccounted, searchVars
  <1>5. CountsAreFounded'
    BY <1>1 DEF CountsAreFounded, IInv, FramesAccounted, Held, saVars
  <1>6. FramesRead'
    BY <1>1, <1>2 DEF FramesRead, Busy, Inside, searchVars
  <1>7. FramesAccounted'
    BY <1>1, FeatBufAssumption DEF IInv, FramesAccounted, FeaturesReady, saVars, TypeOK
  <1>8. QED
    BY <1>3, <1>4, <1>5, <1>6, <1>7 DEF IInv

(* Frames go in, and the end of the input closes none of the accounts. *)
LEMMA InputStep ==
  ASSUME IInv, ProcessCep \/ ProcessFull \/ Drain
  PROVE  IInv'
  <1>1. /\ TypeOK /\ SaTypeOK /\ ppc = "open" /\ ppc' \in {"open", "draining"}
        /\ final = Unset /\ next \in Nat /\ ceps \in Nat /\ owed \in Nat
        /\ next + owed = IF mode = "full" THEN ceps ELSE FeaturesReady(ceps)
        /\ mode \in {"raw", "cep", "full"}
        /\ UNCHANGED <<saVars, start, release, canceled, nth, mode, utt, searchVars>>
    BY DEF ProcessCep, ProcessFull, Drain, IInv, TypeOK, SaTypeOK, FramesAccounted
  <1>2. /\ ceps' \in Nat /\ owed' \in Nat
        /\ ppc' = "open" => next + owed' = IF mode = "full" THEN ceps' ELSE FeaturesReady(ceps')
        /\ ppc' = "draining" /\ mode # "cep" => next + owed' = ceps'
    <2>1. CASE ProcessCep
      <3>1. /\ ceps' = ceps + 1 /\ owed' = FeaturesReady(ceps + 1) - next /\ owed = 0
            /\ mode # "full" /\ ppc' = "open"
        BY <1>1, <2>1 DEF ProcessCep
      <3>2. FeaturesReady(ceps + 1) \in Nat /\ FeaturesReady(ceps) <= FeaturesReady(ceps + 1)
        BY <1>1, ReadyIsNat
      <3>3. QED
        BY <1>1, <3>1, <3>2
    <2>2. CASE ProcessFull
      BY <1>1, <2>2, FeatBufAssumption DEF ProcessFull
    <2>3. CASE Drain
      <3>1. ppc' = "draining" /\ owed = 0 /\ FeaturesReady(ceps) <= ceps /\ FeaturesReady(0) = 0
        BY <1>1, <2>3, ReadyIsNat, FeatBufAssumption DEF Drain, FeaturesReady
      <3>2. \/ mode = "raw" /\ ceps' = ceps + 1 /\ owed' = ceps + 1 - next
            \/ (mode = "raw" => ceps = 0) /\ UNCHANGED <<ceps, owed>>
        BY <1>1, <2>3 DEF Drain
      <3>3. QED
        BY <1>1, <3>1, <3>2, ReadyIsNat
    <2>4. QED
      BY <2>1, <2>2, <2>3
  <1>3. TypeOK'
    BY <1>1, <1>2 DEF TypeOK, SaTypeOK, Held, CountModulus, saVars, searchVars
  <1>4. TokensAccounted'
    BY <1>1 DEF IInv, TokensAccounted, Busy, saVars, searchVars
  <1>5. CountsAreFounded'
    BY <1>1 DEF IInv, CountsAreFounded, InUtterance, Held, Waiting, Unreleased, saVars, searchVars
  <1>6. FramesRead'
    BY <1>1 DEF IInv, FramesRead, InUtterance, saVars, searchVars
  <1>7. FramesAccounted'
    BY <1>1, <1>2 DEF IInv, FramesAccounted, saVars
  <1>8. QED
    BY <1>3, <1>4, <1>5, <1>6, <1>7 DEF IInv

(* A feature that was owed is appended, with a count that claims nothing.  *)
LEMMA ProcessFeatStep ==
  ASSUME IInv, ProcessFeat
  PROVE  IInv'
  <1>1. /\ TypeOK /\ SaTypeOK /\ owed > 0 /\ owed \in Nat /\ owed' = owed - 1
        /\ ppc \in {"open", "draining"} /\ final = Unset /\ next \in Nat /\ ceps \in Nat
        /\ base \in Nat /\ refcount \in Nat /\ start \in Nat /\ release \in Nat
        /\ UNCHANGED <<start, release, canceled, ppc, nth, mode, ceps, utt, searchVars>>
    BY DEF ProcessFeat, IInv, TypeOK, SaTypeOK, FramesAccounted
  <1>2. /\ SaTypeOK' /\ next' = next + 1 /\ UNCHANGED <<refcount, base, final>>
        /\ \A i \in Held' : count'[i] = IF i = next THEN 0 ELSE count[i]
        /\ \A i \in Held' : i # next => i \in Held
    BY <1>1, AppendEffect DEF ProcessFeat
  <1>3. TypeOK'
    BY <1>1, <1>2 DEF TypeOK, searchVars
  <1>4. TokensAccounted'
    BY <1>1, <1>2 DEF IInv, TokensAccounted, Busy, searchVars
  <1>5. \A i : Waiting(i)' = Waiting(i) /\ Waiting(i) \in SUBSET Busy
    BY <1>1 DEF Waiting, Unreleased, Busy, Inside, searchVars
  <1>6. \A i \in Held' : count'[i] + start + Cardinality(Waiting(i)) <= refcount - 1
    <2> SUFFICES ASSUME NEW i \in Held'
                 PROVE  count'[i] + start + Cardinality(Waiting(i)) <= refcount - 1
      OBVIOUS
    <2>1. CASE i # next
      BY <1>1, <1>2, <2>1 DEF IInv, CountsAreFounded, InUtterance
    <2>2. CASE i = next
      <3>1. count'[i] = 0
        BY <1>2, <2>2
      <3>2. Cardinality(Waiting(i)) <= Cardinality(Busy)
        BY <1>5, BusyFinite, FS_Subset
      <3>3. start + Cardinality(Busy) + release = refcount - 1
        BY <1>1 DEF IInv, TokensAccounted
      <3>4. QED
        BY <1>1, <3>1, <3>2, <3>3, BusyFinite
    <2>3. QED
      BY <2>1, <2>2
  <1>7. CountsAreFounded'
    BY <1>1, <1>2, <1>5, <1>6 DEF IInv, CountsAreFounded, InUtterance
  <1>8. FramesRead'
    <2> SUFFICES ASSUME NEW s \in Searches
                 PROVE  /\ spc[s] \in {"wait", "get", "search"} =>
                             /\ InUtterance /\ output[s] <= next + 1 /\ ~failed[s]
                             /\ seen[s] = 0 .. (output[s] - 1)
                        /\ spc[s] = "get" => output[s] < next + 1
                        /\ spc[s] = "search" => output[s] > 0
                        /\ spc[s] \in {"ending", "releasing", "signalling"} =>
                             InUtterance /\ failed[s]
      BY <1>1, <1>2 DEF FramesRead, InUtterance, searchVars
    <2>1. output[s] \in Nat
      BY <1>1 DEF TypeOK
    <2>2. final # next
      BY <1>1 DEF Unset
    <2>3. QED
      BY <1>1, <2>1, <2>2 DEF IInv, FramesRead
  <1>9. FramesAccounted'
    BY <1>1, <1>2 DEF IInv, FramesAccounted
  <1>10. QED
    BY <1>3, <1>4, <1>7, <1>8, <1>9 DEF IInv

(* The producer waits for as many releases as it has given tokens. *)
LEMMA FinalizeStep ==
  ASSUME IInv, Finalize
  PROVE  IInv'
  <1>1. /\ TypeOK /\ SaTypeOK /\ ppc = "draining" /\ ppc' = "awaiting" /\ owed = 0
        /\ nth' = refcount - 1 /\ nth' \in Nat /\ final = Unset /\ final' = next /\ next \in Nat
        /\ UNCHANGED <<refcount, base, next, count>>
        /\ UNCHANGED <<start, release, canceled, mode, ceps, owed, utt, searchVars>>
    BY DEF Finalize, Drained, Awaited, SaFinalize, IInv, TypeOK, SaTypeOK
  <1>2. TypeOK'
    BY <1>1 DEF TypeOK, SaTypeOK, Held, CountModulus, searchVars
  <1>3. TokensAccounted'
    BY <1>1 DEF IInv, TokensAccounted, Busy, searchVars
  <1>4. CountsAreFounded'
    BY <1>1 DEF IInv, CountsAreFounded, InUtterance, Held, Waiting, Unreleased, searchVars
  <1>5. FramesRead'
    BY <1>1 DEF IInv, FramesRead, InUtterance, Unset, searchVars
  <1>6. FramesAccounted'
    BY <1>1 DEF IInv, FramesAccounted
  <1>7. QED
    BY <1>2, <1>3, <1>4, <1>5, <1>6 DEF IInv

LEMMA AwaitReleaseStep ==
  ASSUME IInv, AwaitRelease
  PROVE  IInv'
  <1>1. /\ TypeOK /\ SaTypeOK /\ ppc = "awaiting" /\ nth > 0 /\ release > 0
        /\ nth' = nth - 1 /\ release' = release - 1
        /\ nth \in Nat /\ release \in Nat /\ start \in Nat
        /\ UNCHANGED <<saVars, start, canceled, ppc, mode, ceps, owed, utt, searchVars>>
    BY DEF AwaitRelease, IInv, TypeOK
  <1>2. TypeOK'
    BY <1>1 DEF TypeOK, SaTypeOK, Held, CountModulus, saVars, searchVars
  <1>3. TokensAccounted'
    <2>1. start + Cardinality(Busy) + release' = nth'
      BY <1>1, BusyFinite DEF IInv, TokensAccounted
    <2>2. QED
      BY <1>1, <2>1 DEF IInv, TokensAccounted, Busy, searchVars
  <1>4. CountsAreFounded'
    BY <1>1 DEF IInv, CountsAreFounded, InUtterance, Held, Waiting, Unreleased, saVars, searchVars
  <1>5. FramesRead'
    BY <1>1 DEF IInv, FramesRead, InUtterance, saVars, searchVars
  <1>6. FramesAccounted'
    BY <1>1 DEF IInv, FramesAccounted, saVars
  <1>7. QED
    BY <1>2, <1>3, <1>4, <1>5, <1>6 DEF IInv

(* With the last release no token is out and no search in the utterance. *)
LEMMA EndReturnsStep ==
  ASSUME IInv, EndReturns
  PROVE  IInv'
  <1>1. /\ TypeOK /\ SaTypeOK /\ ppc = "awaiting" /\ nth = 0 /\ ppc' = "idle"
        /\ start \in Nat /\ release \in Nat
        /\ UNCHANGED <<saVars, start, release, canceled, nth, mode, ceps, owed, utt, searchVars>>
    BY DEF EndReturns, IInv, TypeOK
  <1>2. start = 0 /\ Busy = {} /\ release = 0
    <2>1. start + Cardinality(Busy) + release = 0
      BY <1>1 DEF IInv, TokensAccounted
    <2>2. start = 0 /\ Cardinality(Busy) = 0 /\ release = 0
      BY <1>1, <2>1, BusyFinite
    <2>3. QED
      BY <2>2, BusyFinite, FS_EmptySet
  <1>3. TypeOK'
    BY <1>1 DEF TypeOK, SaTypeOK, Held, CountModulus, saVars, searchVars
  <1>4. TokensAccounted'
    BY <1>1, <1>2 DEF IInv, TokensAccounted, Busy, searchVars
  <1>5. CountsAreFounded'
    BY <1>1 DEF CountsAreFounded, InUtterance
  <1>6. FramesRead'
    BY <1>1, <1>2 DEF FramesRead, Busy, Inside, searchVars
  <1>7. FramesAccounted'
    BY <1>1 DEF IInv, FramesAccounted, saVars
  <1>8. QED
    BY <1>3, <1>4, <1>5, <1>6, <1>7 DEF IInv

(* The tokens of a shutdown find no search in an utterance. *)
LEMMA ShutdownStep ==
  ASSUME IInv, Shutdown
  PROVE  IInv'
  <1>1. /\ TypeOK /\ SaTypeOK
        /\ \/ ppc = "idle" /\ ppc' = "stopping" /\ start' = start /\ canceled' = TRUE
           \/ ppc = "stopping" /\ ppc' = "stopped" /\ start' = refcount - 1 /\ canceled' = canceled
        /\ start' \in Nat
        /\ UNCHANGED <<saVars, release, nth, mode, ceps, owed, utt, searchVars>>
    BY DEF Shutdown, ShutdownFlag, ShutdownSignal, Tokens, IInv, TypeOK, SaTypeOK
  <1>2. /\ start = 0 /\ Busy = {} /\ release = 0
        /\ \A s \in Searches : spc[s] \in {"none", "start"}
    BY <1>1 DEF IInv, TokensAccounted, TypeOK, Busy, Outside
  <1>3. TypeOK'
    BY <1>1, <1>2 DEF TypeOK, SaTypeOK, Held, CountModulus, saVars, searchVars
  <1>4. TokensAccounted'
    BY <1>1, <1>2 DEF IInv, TokensAccounted, Busy, Outside, searchVars
  <1>5. CountsAreFounded'
    BY <1>1 DEF CountsAreFounded, InUtterance
  <1>6. FramesRead'
    BY <1>1, <1>2 DEF FramesRead, searchVars
  <1>7. FramesAccounted'
    BY <1>1 DEF IInv, FramesAccounted, saVars
  <1>8. QED
    BY <1>3, <1>4, <1>5, <1>6, <1>7 DEF IInv
-----------------------------------------------------------------------------
LEMMA NextIInv ==
  ASSUME IInv, [Next]_vars
  PROVE  IInv'
  <1>1. CASE Produce
    BY <1>1, StartResetStep, StartSignalStep, InputStep, ProcessFeatStep, FinalizeStep,
       AwaitReleaseStep, EndReturnsStep, ShutdownStep
       DEF Produce, EndOfUtt
  <1>2. ASSUME NEW s \in Searches, Attach(s) \/ Detach(s)
        PROVE  IInv'
    BY <1>2, AttachStep, DetachStep
  <1>3. ASSUME NEW s \in Searches, Search(s) \/ SearchFails(s)
        PROVE  IInv'
    BY <1>3, StartDownStep, StartUttStep, LookStep, ReleaseStep, EndSignalStep DEF Search
  <1>4. CASE UNCHANGED vars
    <2>1. UNCHANGED <<saVars, start, release, canceled, producerVars, searchVars>>
      BY <1>4 DEF vars
    <2>2. TypeOK'
      BY <2>1 DEF IInv, TypeOK, SaTypeOK, Held, CountModulus, saVars, producerVars, searchVars
    <2>3. TokensAccounted' /\ FramesRead' /\ FramesAccounted'
      BY <2>1 DEF IInv, TokensAccounted, FramesRead, FramesAccounted, InUtterance, Busy,
                  saVars, producerVars, searchVars
    <2>4. CountsAreFounded'
      BY <2>1 DEF IInv, CountsAreFounded, InUtterance, Held, Waiting, Unreleased,
                  saVars, producerVars, searchVars
    <2>5. QED
      BY <2>2, <2>3, <2>4 DEF IInv
  <1>5. CASE Stopped
    BY <1>4, <1>5 DEF Stopped
  <1>6. QED
    BY <1>1, <1>2, <1>3, <1>4, <1>5 DEF Next

LEMMA Invariance == Spec => []IInv
  <1>1. Init => IInv
    BY InitIInv
  <1>2. IInv /\ [Next]_vars => IInv'
    BY NextIInv
  <1>3. QED
    BY <1>1, <1>2, PTL DEF Spec

(* featbuf_producer_start_utt may reset the array without a lock: whichever*)
(* search took which token, every one has come back by then.               *)
THEOREM QuietReset == Spec => []QuietBetweenUtterances
  <1>1. IInv => QuietBetweenUtterances
    BY DEF IInv, TokensAccounted, QuietBetweenUtterances
  <1>2. QED
    BY <1>1, Invariance, PTL

(* No frame is given back before a search that reads the utterance got it, *)
(* and none is left when sync_array_wait tells it of the end.              *)
THEOREM WholeUtteranceSeen == Spec => []SeesWholeUtterance
  <1>1. IInv => SeesWholeUtterance
    BY DEF IInv, FramesRead, SeesWholeUtterance
  <1>2. QED
    BY <1>1, Invariance, PTL

(* featbuf_producer_end_utt drains what audio has left before it finalizes *)
(* the array.                                                              *)
THEOREM EveryFrameComesOut == Spec => []NoFeatureLost
  <1>1. IInv => NoFeatureLost
    BY DEF IInv, TypeOK, SaTypeOK, FramesAccounted, NoFeatureLost
  <1>2. QED
    BY <1>1, Invariance, PTL
================================================================================
