--------------------------- MODULE ArcLatticeProofs ---------------------------
(***************************************************************************)
(* Proofs about the arc buffer between a search and a lattice generator:   *)
(* the invariants of ArcLattice, for any number of frames, arcs and        *)
(* utterances.                                                             *)
(***************************************************************************)
EXTENDS ArcLattice, FiniteSetTheorems, TLAPS
-----------------------------------------------------------------------------
(* The buffer, whoever calls it. *)

LEMMA ActiveArcIsNat ==
  ASSUME AbTypeOK, Cardinality(DOMAIN arcs) \in Nat
  PROVE  ActiveArc \in Nat
  <1> DEFINE n == Cardinality(DOMAIN arcs)
  <1>1. arcBase \in Nat
    BY DEF AbTypeOK
  <1>2. n \in Nat /\ ActiveArc = arcBase + n
    BY DEF ActiveArc
  <1> HIDE DEF n
  <1>3. QED
    BY <1>1, <1>2

LEMMA ArcsStart ==
  ASSUME AbTypeOK
  PROVE  \A p \in DOMAIN arcs : arcs[p] \in 1 .. Len(retired) /\ retired[arcs[p]] \in Nat
  <1>1. \A p \in DOMAIN arcs : arcs[p] \in 1 .. Len(retired)
    BY DEF AbTypeOK
  <1>2. \A i \in 1 .. Len(retired) : retired[i] \in Nat
    BY DEF AbTypeOK
  <1>3. QED
    BY <1>1, <1>2

(* A non-empty set of numbers has a least one: of the intervals that start *)
(* at 0 and end in the set, the smallest ends there.                       *)
LEMMA LeastNatural ==
  ASSUME NEW S \in SUBSET Nat, S # {}
  PROVE  \E m \in S : \A n \in S : m <= n
  <1> DEFINE Upto == {0 .. m : m \in S}
             R == StrictSubsetOrdering(Nat)
  <1>1. IsWellFoundedOn(R, FiniteSubsetsOf(Nat))
    BY FS_StrictSubsetOrderingWellFounded
  <1>2. \A m \in S : IsFiniteSet(0 .. m) /\ 0 .. m \in SUBSET Nat
    BY FS_Interval
  <1>3. Upto \subseteq FiniteSubsetsOf(Nat) /\ Upto # {}
    BY <1>2 DEF FiniteSubsetsOf
  <1> HIDE DEF R
  <1>4. \E x \in Upto : \A y \in Upto : ~ (<<y, x>> \in R)
    <2> HIDE DEF Upto
    <2>1. QED BY <1>1, <1>3, WFMin
  <1>5. PICK m \in S : \A n \in S : <<0 .. n, 0 .. m>> \notin R
    BY <1>4
  <1>6. ASSUME NEW n \in S, n < m
        PROVE  FALSE
    <2>1. m \in Nat /\ n \in Nat
      OBVIOUS
    <2>2. 0 .. n \subseteq 0 .. m /\ m \in 0 .. m /\ m \notin 0 .. n
      BY <2>1, <1>6
    <2>3. <<0 .. n, 0 .. m>> \in R
      BY <2>1, <2>2, <1>2 DEF R, StrictSubsetOrdering
    <2>4. QED
      BY <2>3, <1>5
  <1>7. \A n \in S : m <= n
    BY <1>6
  <1>8. QED
    BY <1>7

LEMMA FirstNumbers ==
  ASSUME NEW n \in Nat
  PROVE  IsFiniteSet(0 .. (n - 1)) /\ Cardinality(0 .. (n - 1)) = n
  <1> DEFINE m == n - 1
  <1>1. m \in Int /\ (IF 0 > m THEN 0 ELSE m - 0 + 1) = n
    OBVIOUS
  <1> HIDE DEF m
  <1>2. IsFiniteSet(0 .. m) /\ Cardinality(0 .. m) = IF 0 > m THEN 0 ELSE m - 0 + 1
    BY <1>1, FS_Interval
  <1>3. QED
    BY <1>1, <1>2 DEF m

(* The scan has an entry to go on from, and goes past no entry that starts *)
(* after the span.                                                         *)
LEMMA NextToScanIsFirst ==
  ASSUME AbTypeOK, NEW sf \in Nat
  PROVE  /\ NextToScan(sf) \in nextIdx .. (Len(retired) + 1)
         /\ \A j \in nextIdx .. (NextToScan(sf) - 1) : retired[j] < sf
  <1> DEFINE Stops == {i \in nextIdx .. (Len(retired) + 1) : i <= Len(retired) => retired[i] >= sf}
  <1>1. Len(retired) \in Nat /\ nextIdx \in Nat
        /\ nextIdx <= Len(retired) + 1 /\ 1 <= nextIdx
    BY DEF AbTypeOK
  <1>2. Len(retired) + 1 \in Stops /\ Stops \in SUBSET Nat
    BY <1>1
  <1>3. \E m \in Stops : \A n \in Stops : m <= n
    <2> HIDE DEF Stops
    <2>1. QED BY <1>2, LeastNatural
  <1>4. PICK m \in Stops : \A n \in Stops : m <= n
    BY <1>3
  <1>5. ASSUME NEW j \in nextIdx .. (m - 1)
        PROVE  retired[j] < sf
    <2>1. j \in nextIdx .. (Len(retired) + 1) /\ j <= Len(retired) /\ ~ (m <= j)
      BY <1>1, <1>4
    <2>2. retired[j] \in Nat
      BY <2>1, <1>1 DEF AbTypeOK
    <2>3. ~ (retired[j] >= sf)
      BY <2>1, <1>4
    <2>4. QED
      BY <2>2, <2>3
  <1>6. \E i \in nextIdx .. (Len(retired) + 1) :
          /\ i <= Len(retired) => retired[i] >= sf
          /\ \A j \in nextIdx .. (i - 1) : retired[j] < sf
    <2>1. m \in nextIdx .. (Len(retired) + 1) /\ (m <= Len(retired) => retired[m] >= sf)
      BY <1>4
    <2>2. QED
      BY <2>1, <1>5
  <1>7. QED
    BY <1>6 DEF NextToScan
-----------------------------------------------------------------------------
Before(sf, i) == {j \in Incoming(sf) : Precedes(j, i)}

LEMMA IncomingFinite ==
  ASSUME AbTypeOK, NEW sf \in Nat
  PROVE  /\ IsFiniteSet(Incoming(sf)) /\ Cardinality(Incoming(sf)) \in Nat
         /\ \A S \in SUBSET Incoming(sf) : 
              /\ IsFiniteSet(S) /\ Cardinality(S) \in Nat
              /\ Cardinality(S) <= Cardinality(Incoming(sf))
  <1>1. nextIdx \in Int /\ Len(retired) \in Int
    BY DEF AbTypeOK
  <1>2. IsFiniteSet(nextIdx .. Len(retired))
    BY <1>1, FS_Interval
  <1>3. Incoming(sf) \in SUBSET (nextIdx .. Len(retired))
    BY DEF Incoming
  <1>4. IsFiniteSet(Incoming(sf))
    BY <1>2, <1>3, FS_Subset
  <1>5. Cardinality(Incoming(sf)) \in Nat
    BY <1>4, FS_CardinalityType
  <1>6. ASSUME NEW S \in SUBSET Incoming(sf)
        PROVE  IsFiniteSet(S) /\ Cardinality(S) <= Cardinality(Incoming(sf))
    BY <1>4, FS_Subset
  <1>7. ASSUME NEW S \in SUBSET Incoming(sf)
        PROVE  Cardinality(S) \in Nat
    BY <1>6, FS_CardinalityType
  <1>8. QED
    BY <1>4, <1>5, <1>6, <1>7

LEMMA IncomingType ==
  ASSUME AbTypeOK, NEW sf \in Nat, NEW i \in Incoming(sf)
  PROVE  /\ i \in 1 .. Len(retired) /\ nextIdx <= i
         /\ retired[i] \in Nat /\ activeSf <= retired[i] /\ retired[i] < sf
  <1>1. i \in nextIdx .. Len(retired) /\ activeSf <= retired[i] /\ retired[i] < sf
    BY DEF Incoming
  <1>2. nextIdx \in Nat /\ 1 <= nextIdx /\ Len(retired) \in Nat
    BY DEF AbTypeOK
  <1>3. i \in 1 .. Len(retired) /\ nextIdx <= i
    BY <1>1, <1>2
  <1>4. retired[i] \in Nat
    BY <1>3 DEF AbTypeOK
  <1>5. QED
    BY <1>1, <1>3, <1>4

(* An arc that precedes another has a lower position. *)
LEMMA PositionsFollowOrder ==
  ASSUME AbTypeOK, NEW sf \in Nat, NEW i \in Incoming(sf), NEW j \in Incoming(sf),
         Precedes(i, j)
  PROVE  Cardinality(Before(sf, i)) < Cardinality(Before(sf, j))
  <1>1. \A k \in Incoming(sf) : k \in Nat /\ retired[k] \in Nat
    <2>1. \A k \in Incoming(sf) : k \in 1 .. Len(retired) /\ retired[k] \in Nat
      BY IncomingType
    <2>2. QED
      BY <2>1
  <1>2. i \notin Before(sf, i)
    BY <1>1 DEF Before, Precedes
  <1>3. Before(sf, i) \cup {i} \in SUBSET Before(sf, j)
    BY <1>1 DEF Before, Precedes
  <1>4. /\ IsFiniteSet(Before(sf, i)) /\ IsFiniteSet(Before(sf, j))
        /\ Cardinality(Before(sf, i)) \in Nat /\ Cardinality(Before(sf, j)) \in Nat
    BY IncomingFinite DEF Before
  <1>5. Cardinality(Before(sf, i) \cup {i}) = Cardinality(Before(sf, i)) + 1
    BY <1>2, <1>4, FS_AddElement
  <1>6. Cardinality(Before(sf, i) \cup {i}) <= Cardinality(Before(sf, j))
    BY <1>3, <1>4, FS_Subset
  <1>7. QED
    BY <1>4, <1>5, <1>6

(* The sort gives the incoming arcs all the positions after the last arc,  *)
(* one each.                                                               *)
LEMMA PositionsAreFilled ==
  ASSUME AbTypeOK, NEW sf \in Nat, Cardinality(DOMAIN arcs) \in Nat
  PROVE  LET n == Cardinality(Incoming(sf))
         IN  /\ \A i \in Incoming(sf) :
                  ArcPosition(sf, i) \in ActiveArc .. (ActiveArc + n - 1)
             /\ \A p \in ActiveArc .. (ActiveArc + n - 1) :
                  \E i \in Incoming(sf) : ArcPosition(sf, i) = p
  <1> DEFINE n == Cardinality(Incoming(sf))
             rank == [i \in Incoming(sf) |-> Cardinality(Before(sf, i))]
  <1>1. n \in Nat /\ IsFiniteSet(Incoming(sf)) /\ ActiveArc \in Nat
    BY IncomingFinite, ActiveArcIsNat
  <1>2. ASSUME NEW i \in Incoming(sf)
        PROVE  rank[i] \in 0 .. (n - 1)
    <2>1. i \notin Before(sf, i)
      BY IncomingType DEF Before, Precedes
    <2>2. Before(sf, i) \in SUBSET Incoming(sf) /\ Before(sf, i) # Incoming(sf)
      BY <2>1 DEF Before
    <2>3. Cardinality(Before(sf, i)) \in Nat /\ Cardinality(Before(sf, i)) <= n
      BY <2>2, IncomingFinite
    <2>4. Cardinality(Before(sf, i)) # n
      BY <2>2, <1>1, FS_Subset
    <2>5. QED
      BY <2>3, <2>4, <1>1
  <1>3. ASSUME NEW i \in Incoming(sf), NEW j \in Incoming(sf), i # j
        PROVE  rank[i] # rank[j]
    <2>1. Precedes(i, j) \/ Precedes(j, i)
      BY <1>3, IncomingType DEF Precedes
    <2>2. rank[i] < rank[j] \/ rank[j] < rank[i]
      BY <2>1, PositionsFollowOrder
    <2>3. QED
      BY <2>2, <1>2
  <1>4. rank \in Injection(Incoming(sf), 0 .. (n - 1))
    BY <1>2, <1>3 DEF Injection, IsInjective
  <1>5. IsFiniteSet(0 .. (n - 1)) /\ Cardinality(0 .. (n - 1)) = n
    <2> HIDE DEF n
    <2> HIDE DEF n
    <2>1. QED BY <1>1, FirstNumbers
  <1>6. rank \in Surjection(Incoming(sf), 0 .. (n - 1))
    <2> HIDE DEF rank
    <2>1. QED BY <1>4, <1>5, FS_Injection
  <1>7. \A i \in Incoming(sf) : ArcPosition(sf, i) = ActiveArc + rank[i]
    BY DEF ArcPosition, Before
  <1>8. ASSUME NEW p \in ActiveArc .. (ActiveArc + n - 1)
        PROVE  \E i \in Incoming(sf) : ArcPosition(sf, i) = p
    <2>1. p - ActiveArc \in 0 .. (n - 1)
      BY <1>1
    <2>2. PICK i \in Incoming(sf) : rank[i] = p - ActiveArc
      BY <2>1, <1>6 DEF Surjection
    <2>3. QED
      BY <2>2, <1>7, <1>1
  <1>9. QED
    <2> HIDE DEF rank
    <2>1. QED BY <1>1, <1>2, <1>7, <1>8

(* A frame begins at the position of the first arc that starts in it or    *)
(* later.                                                                  *)
LEMMA FrameStartCuts ==
  ASSUME AbTypeOK, NEW sf \in Nat, Cardinality(DOMAIN arcs) \in Nat, NEW f \in Nat
  PROVE  /\ FrameStart(sf, f) \in ActiveArc .. (ActiveArc + Cardinality(Incoming(sf)))
         /\ \A i \in Incoming(sf) : ArcPosition(sf, i) >= FrameStart(sf, f) <=> retired[i] >= f
  <1> DEFINE Earlier == {j \in Incoming(sf) : retired[j] < f}
  <1>1. ActiveArc \in Nat /\ Cardinality(Incoming(sf)) \in Nat
    BY IncomingFinite, ActiveArcIsNat
  <1>2. /\ IsFiniteSet(Earlier) /\ Cardinality(Earlier) \in Nat
        /\ Cardinality(Earlier) <= Cardinality(Incoming(sf))
    BY IncomingFinite
  <1>3. FrameStart(sf, f) = ActiveArc + Cardinality(Earlier)
    BY DEF FrameStart
  <1> HIDE DEF Earlier
  <1>4. ASSUME NEW i \in Incoming(sf)
        PROVE  ArcPosition(sf, i) >= FrameStart(sf, f) <=> retired[i] >= f
    <2>1. /\ IsFiniteSet(Before(sf, i)) /\ Cardinality(Before(sf, i)) \in Nat
      BY IncomingFinite DEF Before
    <2>2. ArcPosition(sf, i) = ActiveArc + Cardinality(Before(sf, i))
      BY DEF ArcPosition, Before
    <2>3. \A k \in Incoming(sf) : k \in Nat /\ retired[k] \in Nat
      BY IncomingType
    <2>4. CASE retired[i] >= f
      <3>1. Earlier \in SUBSET Before(sf, i)
        BY <2>3, <2>4 DEF Earlier, Before, Precedes
      <3>2. Cardinality(Earlier) <= Cardinality(Before(sf, i))
        BY <3>1, <2>1, FS_Subset
      <3>3. QED
        BY <3>2, <2>4, <2>2, <2>1, <1>3, <1>2, <1>1
    <2>5. CASE ~ (retired[i] >= f)
      <3>1. i \notin Before(sf, i) /\ Before(sf, i) \cup {i} \in SUBSET Earlier
        BY <2>3, <2>5 DEF Earlier, Before, Precedes
      <3>2. Cardinality(Before(sf, i) \cup {i}) = Cardinality(Before(sf, i)) + 1
        BY <3>1, <2>1, FS_AddElement
      <3>3. Cardinality(Before(sf, i) \cup {i}) <= Cardinality(Earlier)
        BY <3>1, <1>2, FS_Subset
      <3>4. QED
        BY <3>2, <3>3, <2>5, <2>2, <2>1, <1>3, <1>2, <1>1
    <2>6. QED
      BY <2>4, <2>5
  <1>5. QED
    BY <1>1, <1>2, <1>3, <1>4
-----------------------------------------------------------------------------
(* arc_buffer_extend, _add_bps and _commit keep the arcs that are there and*)
(* their positions, and add behind them, in order, every entry that starts *)
(* in the frames they span.                                                *)
LEMMA DeliverEffect ==
  ASSUME AbIInv, Deliver(bpSf), UNCHANGED <<tableVars, arcStart, arcRelease>>,
         state' \in {"INITIAL", "RUNNING", "FINAL", "CANCELED"}
  PROVE  /\ AbIInv'
         /\ sfBase' = sfBase /\ activeSf' = bpSf
         /\ \A p \in DOMAIN arcs : p \in DOMAIN arcs' /\ arcs'[p] = arcs[p]
         /\ \A i \in DOMAIN retired : activeSf <= retired[i] /\ retired[i] < bpSf =>
              \E p \in DOMAIN arcs' : arcs'[p] = i
  <1> DEFINE old == ActiveArc
             n == Cardinality(Incoming(bpSf))
  <1>1. /\ AbTypeOK /\ old \in Nat /\ n \in Nat /\ bpSf \in Nat /\ activeSf \in Nat
        /\ sfBase \in Nat /\ arcBase \in Nat /\ arcBase <= old
        /\ sfBase <= activeSf /\ activeSf <= bpSf
    <2>1. AbTypeOK /\ Cardinality(DOMAIN arcs) \in Nat /\ bpSf \in Nat /\ arcBase \in Nat
      BY DEF AbIInv, AbTypeOK
    <2>2. old \in Nat /\ n \in Nat
      BY <2>1, ActiveArcIsNat, IncomingFinite
    <2>3. arcBase <= old
      <3> DEFINE k == Cardinality(DOMAIN arcs)
      <3>1. k \in Nat /\ old = arcBase + k
        BY <2>1 DEF ActiveArc
      <3> HIDE DEF k, old
      <3>2. QED
        BY <3>1, <2>1
    <2>4. QED
      BY <2>1, <2>2, <2>3 DEF AbIInv, AbTypeOK
  <1>2. /\ retired' = retired /\ bpSf' = bpSf /\ arcStart' = arcStart /\ arcRelease' = arcRelease
        /\ sfBase' = sfBase /\ arcBase' = arcBase /\ activeSf' = bpSf /\ evt' = TRUE
        /\ nextIdx' = NextToScan(bpSf)
    BY DEF Deliver, tableVars
  <1>3. /\ arcs \in [arcBase .. (old - 1) -> 1 .. Len(retired)]
        /\ DOMAIN arcs = arcBase .. (old - 1)
        /\ DOMAIN arcs' = arcBase .. (old + n - 1)
        /\ \A p \in DOMAIN arcs' : arcs'[p] = IF p < old THEN arcs[p]
                              ELSE CHOOSE i \in Incoming(bpSf) : ArcPosition(bpSf, i) = p
        /\ sfIdx \in [sfBase .. (activeSf - 1) -> Nat]
        /\ sfIdx' = [f \in sfBase .. (bpSf - 1) |->
                       IF f < activeSf THEN sfIdx[f] ELSE FrameStart(bpSf, f)]
    BY <1>1 DEF Deliver, AbTypeOK
  <1>4. /\ \A i \in Incoming(bpSf) : ArcPosition(bpSf, i) \in old .. (old + n - 1)
        /\ \A p \in old .. (old + n - 1) : \E i \in Incoming(bpSf) : ArcPosition(bpSf, i) = p
        /\ \A f \in Nat : /\ FrameStart(bpSf, f) \in old .. (old + n)
                          /\ \A i \in Incoming(bpSf) :
                               ArcPosition(bpSf, i) >= FrameStart(bpSf, f) <=> retired[i] >= f
    BY <1>1, PositionsAreFilled, FrameStartCuts DEF AbIInv
  <1>5. \A i \in Incoming(bpSf) : /\ i \in 1 .. Len(retired) /\ retired[i] \in Nat
                                  /\ activeSf <= retired[i] /\ retired[i] < bpSf
    BY <1>1, IncomingType
  <1>6. /\ \A p \in DOMAIN arcs : /\ arcs[p] \in 1 .. Len(retired) /\ retired[arcs[p]] \in Nat
                                  /\ sfBase <= retired[arcs[p]] /\ retired[arcs[p]] < activeSf
        /\ \A p, q \in DOMAIN arcs : arcs[p] = arcs[q] => p = q
    <2>1. \A p \in DOMAIN arcs : arcs[p] \in 1 .. Len(retired)
      BY <1>3
    <2>2. \A i \in 1 .. Len(retired) : retired[i] \in Nat
      BY <1>1 DEF AbTypeOK
    <2>3. \A p \in DOMAIN arcs : sfBase <= retired[arcs[p]] /\ retired[arcs[p]] < activeSf
      BY DEF AbIInv
    <2>4. \A p, q \in DOMAIN arcs : arcs[p] = arcs[q] => p = q
      BY DEF AbIInv
    <2>5. QED
      BY <2>1, <2>2, <2>3, <2>4
  <1>7. ActiveArc' = old + n /\ Cardinality(DOMAIN arcs') \in Nat
    <2> HIDE DEF n
    <2>1. Cardinality(DOMAIN arcs') = old + n - arcBase
      <3> HIDE DEF old
      <3> DEFINE last == old + n - 1
      <3>1. arcBase \in Int /\ last \in Int
            /\ (IF arcBase > last THEN 0 ELSE last - arcBase + 1) = old + n - arcBase
        BY <1>1
      <3>2. Cardinality(arcBase .. last) = old + n - arcBase
        <4> HIDE DEF last
        <4>1. QED BY <3>1, FS_Interval
      <3>3. DOMAIN arcs' = arcBase .. (old + n - 1)
        BY <1>3 DEF old
      <3>4. QED
        BY <3>2, <3>3
    <2>2. ActiveArc' = arcBase + Cardinality(DOMAIN arcs')
      BY <1>2 DEF ActiveArc
    <2>3. old \in Nat /\ n \in Nat /\ arcBase \in Nat /\ arcBase <= old
      BY <1>1
    <2> DEFINE size == Cardinality(DOMAIN arcs')
    <2> HIDE DEF old, size
    <2>4. size = old + n - arcBase /\ ActiveArc' = arcBase + size
      BY <2>1, <2>2 DEF size
    <2>5. ActiveArc' = old + n /\ size \in Nat
      BY <2>3, <2>4
    <2>6. QED
      BY <2>5 DEF size
  <1> HIDE DEF n
  <1>8. \A p \in DOMAIN arcs : p \in DOMAIN arcs' /\ arcs'[p] = arcs[p] /\ p < old
    <2> HIDE DEF old
    <2>1. old \in Nat /\ n \in Nat /\ arcBase \in Nat
      BY <1>1
    <2>2. \A p \in arcBase .. (old - 1) : p \in arcBase .. (old + n - 1) /\ p < old
      BY <2>1
    <2>3. QED
      BY <2>2, <1>3
  <1>9. \A p \in DOMAIN arcs' : p \notin DOMAIN arcs =>
          p >= old /\ arcs'[p] \in Incoming(bpSf) /\ ArcPosition(bpSf, arcs'[p]) = p
    <2> SUFFICES ASSUME NEW p \in DOMAIN arcs', p \notin DOMAIN arcs
                 PROVE  p >= old /\ arcs'[p] \in Incoming(bpSf) /\ ArcPosition(bpSf, arcs'[p]) = p
      OBVIOUS
    <2>1. p \in Int /\ p \in old .. (old + n - 1) /\ ~ (p < old) /\ p >= old
      <3> HIDE DEF old
      <3>1. QED BY <1>1, <1>3
    <2>2. arcs'[p] = CHOOSE i \in Incoming(bpSf) : ArcPosition(bpSf, i) = p
      BY <2>1, <1>3
    <2>3. QED
      BY <2>1, <2>2, <1>4
  <1>10. \A p \in DOMAIN arcs' :
           /\ arcs'[p] \in 1 .. Len(retired)
           /\ sfBase <= retired[arcs'[p]] /\ retired[arcs'[p]] < bpSf
    <2> SUFFICES ASSUME NEW p \in DOMAIN arcs'
                 PROVE  /\ arcs'[p] \in 1 .. Len(retired)
                        /\ sfBase <= retired[arcs'[p]] /\ retired[arcs'[p]] < bpSf
      OBVIOUS
    <2>1. CASE p \in DOMAIN arcs
      BY <2>1, <1>1, <1>6, <1>8
    <2>2. CASE p \notin DOMAIN arcs
      BY <2>2, <1>1, <1>5, <1>9
    <2>3. QED
      BY <2>1, <2>2
  <1>11. \A p, q \in DOMAIN arcs' : arcs'[p] = arcs'[q] => p = q
    <2> SUFFICES ASSUME NEW p \in DOMAIN arcs', NEW q \in DOMAIN arcs', arcs'[p] = arcs'[q]
                 PROVE  p = q
      OBVIOUS
    <2>1. CASE p \in DOMAIN arcs /\ q \in DOMAIN arcs
      BY <2>1, <1>6, <1>8
    <2>2. CASE p \notin DOMAIN arcs /\ q \notin DOMAIN arcs
      BY <2>2, <1>9
    <2>3. CASE p \in DOMAIN arcs /\ q \notin DOMAIN arcs
      <3>1. retired[arcs'[p]] < activeSf /\ activeSf <= retired[arcs'[q]] /\ retired[arcs'[p]] \in Nat
        BY <2>3, <1>5, <1>6, <1>8, <1>9
      <3>2. QED BY <3>1, <1>1
    <2>4. CASE p \notin DOMAIN arcs /\ q \in DOMAIN arcs
      <3>1. retired[arcs'[q]] < activeSf /\ activeSf <= retired[arcs'[p]] /\ retired[arcs'[p]] \in Nat
        BY <2>4, <1>5, <1>6, <1>8, <1>9
      <3>2. QED BY <3>1, <1>1
    <2>5. QED
      BY <2>1, <2>2, <2>3, <2>4
  <1>12. \A f \in DOMAIN sfIdx' : /\ f \in Nat /\ sfBase <= f /\ f < bpSf
                                  /\ f < activeSf => f \in DOMAIN sfIdx /\ sfIdx'[f] = sfIdx[f]
                                  /\ ~ (f < activeSf) => sfIdx'[f] = FrameStart(bpSf, f)
    BY <1>1, <1>3
  <1>13. \A f \in DOMAIN sfIdx' : sfIdx'[f] \in Nat /\ arcBase <= sfIdx'[f] /\ sfIdx'[f] <= old + n
    <2> SUFFICES ASSUME NEW f \in DOMAIN sfIdx'
                 PROVE  sfIdx'[f] \in Nat /\ arcBase <= sfIdx'[f] /\ sfIdx'[f] <= old + n
      OBVIOUS
    <2>1. CASE f < activeSf
      <3>1. sfIdx'[f] \in Nat /\ arcBase <= sfIdx'[f] /\ sfIdx'[f] <= old
        BY <2>1, <1>3, <1>12 DEF AbIInv
      <3> HIDE DEF old
      <3>2. QED BY <3>1, <1>1
    <2>2. CASE ~ (f < activeSf)
      <3>1. sfIdx'[f] \in old .. (old + n)
        BY <2>2, <1>4, <1>12
      <3> HIDE DEF old
      <3>2. QED BY <3>1, <1>1
    <2>3. QED
      BY <2>1, <2>2
  <1>14. \A f \in DOMAIN sfIdx', p \in DOMAIN arcs' : p >= sfIdx'[f] <=> retired[arcs'[p]] >= f
    <2> SUFFICES ASSUME NEW f \in DOMAIN sfIdx', NEW p \in DOMAIN arcs'
                 PROVE  p >= sfIdx'[f] <=> retired[arcs'[p]] >= f
      OBVIOUS
    <2>0. p \in Nat /\ f \in Nat /\ sfIdx'[f] \in Nat
      <3>1. p \in Nat
        <4> HIDE DEF old
        <4>1. QED BY <1>1, <1>3
      <3>2. QED BY <3>1, <1>12, <1>13
    <2>1. CASE f < activeSf /\ p \in DOMAIN arcs
      BY <2>1, <1>8, <1>12 DEF AbIInv, IsSorted
    <2>2. CASE f < activeSf /\ p \notin DOMAIN arcs
      <3>1. sfIdx'[f] <= old
        BY <2>2, <1>12 DEF AbIInv
      <3>2. p >= old /\ activeSf <= retired[arcs'[p]] /\ retired[arcs'[p]] \in Nat
        BY <2>2, <1>5, <1>9
      <3> HIDE DEF old
      <3>3. QED
        BY <2>0, <2>2, <3>1, <3>2, <1>1
    <2>3. CASE ~ (f < activeSf) /\ p \in DOMAIN arcs
      <3>1. sfIdx'[f] >= old /\ p < old
        BY <2>3, <2>0, <1>1, <1>4, <1>8, <1>12
      <3>2. retired[arcs'[p]] < activeSf /\ retired[arcs'[p]] \in Nat
        BY <2>3, <1>6, <1>8
      <3> HIDE DEF old
      <3>3. QED
        BY <2>0, <2>3, <3>1, <3>2, <1>1
    <2>4. CASE ~ (f < activeSf) /\ p \notin DOMAIN arcs
      BY <2>0, <2>4, <1>4, <1>9, <1>12
    <2>5. QED
      BY <2>1, <2>2, <2>3, <2>4
  <1>15. \A i \in 1 .. (nextIdx' - 1) : retired[i] < bpSf
    <2> DEFINE scanned == NextToScan(bpSf)
    <2>1. nextIdx \in Nat /\ Len(retired) \in Nat
      BY <1>1 DEF AbTypeOK
    <2>2. /\ scanned \in nextIdx .. (Len(retired) + 1)
          /\ \A j \in nextIdx .. (scanned - 1) : retired[j] < bpSf
      BY <1>1, NextToScanIsFirst
    <2> HIDE DEF scanned
    <2>3. ASSUME NEW i \in 1 .. (scanned - 1)
          PROVE  retired[i] < bpSf
      <3>1. CASE i < nextIdx
        <4>1. i \in 1 .. (nextIdx - 1) /\ i \in 1 .. Len(retired)
          BY <2>1, <2>2, <3>1
        <4>2. retired[i] < activeSf
          BY <4>1 DEF AbIInv
        <4>3. retired[i] \in Nat
          BY <1>1, <4>1 DEF AbTypeOK
        <4>4. QED
          BY <4>2, <4>3, <1>1
      <3>2. CASE ~ (i < nextIdx)
        BY <2>1, <2>2, <3>2
      <3>3. QED
        BY <3>1, <3>2
    <2>4. nextIdx' = scanned
      BY <1>2 DEF scanned
    <2>5. QED
      BY <2>3, <2>4
  <1>16. AbTypeOK'
    <2>1. sfIdx' \in [sfBase .. (bpSf - 1) -> Nat]
      BY <1>3, <1>13
    <2>2. arcs' \in [arcBase .. (old + n - 1) -> 1 .. Len(retired)]
      <3>1. arcs' = [p \in DOMAIN arcs' |-> arcs'[p]]
        BY DEF Deliver
      <3>2. \A p \in DOMAIN arcs' : arcs'[p] \in 1 .. Len(retired)
        BY <1>10
      <3>3. QED
        BY <3>1, <3>2, <1>3
    <2>3. nextIdx' \in 1 .. (Len(retired) + 1)
      <3>1. nextIdx \in 1 .. (Len(retired) + 1) /\ Len(retired) \in Nat
        BY <1>1 DEF AbTypeOK
      <3>2. nextIdx' \in nextIdx .. (Len(retired) + 1)
        BY <1>1, <1>2, NextToScanIsFirst
      <3>3. QED
        BY <3>1, <3>2
    <2> HIDE DEF old
    <2>4. QED
      BY <1>1, <1>2, <1>7, <2>1, <2>2, <2>3 DEF AbTypeOK
  <1>17. AbIInv'
    <2>1. (sfBase <= activeSf)' /\ (activeSf <= bpSf)'
      BY <1>1, <1>2
    <2>2. (\A f \in DOMAIN sfIdx : arcBase <= sfIdx[f] /\ sfIdx[f] <= ActiveArc)'
      BY <1>2, <1>7, <1>13
    <2>3. (\A p \in DOMAIN arcs : sfBase <= retired[arcs[p]] /\ retired[arcs[p]] < activeSf)'
      BY <1>2, <1>10
    <2>4. IsSorted'
      BY <1>2, <1>14 DEF IsSorted
    <2>5. QED
      BY <2>1, <2>2, <2>3, <2>4, <1>2, <1>7, <1>11, <1>15, <1>16 DEF AbIInv
  <1>18. ASSUME NEW i \in DOMAIN retired, activeSf <= retired[i], retired[i] < bpSf
         PROVE  \E p \in DOMAIN arcs' : arcs'[p] = i
    <2>1. i \in 1 .. Len(retired) /\ retired[i] \in Nat
      BY <1>1 DEF AbTypeOK
    <2>2. i >= nextIdx
      BY <1>1, <1>18, <2>1 DEF AbIInv, AbTypeOK
    <2>3. i \in Incoming(bpSf)
      BY <1>1, <1>18, <2>1, <2>2 DEF Incoming, AbTypeOK
    <2>4. DEFINE p == ArcPosition(bpSf, i)
    <2>5. p \in old .. (old + n - 1)
      BY <2>3, <1>4
    <2>6. p \in DOMAIN arcs' /\ p \notin DOMAIN arcs
      <3> HIDE DEF old, p
      <3>1. QED BY <2>5, <1>1, <1>3
    <2>7. arcs'[p] \in Incoming(bpSf) /\ ArcPosition(bpSf, arcs'[p]) = ArcPosition(bpSf, i)
      BY <2>6, <1>9
    <2>8. arcs'[p] = i
      <3>1. arcs'[p] = i \/ Precedes(arcs'[p], i) \/ Precedes(i, arcs'[p])
        BY <2>3, <2>7, <1>5 DEF Precedes
      <3> DEFINE j == arcs'[p]
      <3>2. Cardinality(Before(bpSf, j)) = Cardinality(Before(bpSf, i))
        <4>1. /\ Cardinality(Before(bpSf, j)) \in Nat /\ Cardinality(Before(bpSf, i)) \in Nat
              /\ ArcPosition(bpSf, j) = old + Cardinality(Before(bpSf, j))
              /\ ArcPosition(bpSf, i) = old + Cardinality(Before(bpSf, i))
          BY <1>1, IncomingFinite DEF Before, ArcPosition
        <4> HIDE DEF old, p, j
        <4>2. ArcPosition(bpSf, j) = ArcPosition(bpSf, i)
          BY <2>7 DEF j, p
        <4>3. QED BY <4>1, <4>2, <1>1
      <3>3. Cardinality(Before(bpSf, j)) \in Nat
        BY <1>1, IncomingFinite DEF Before
      <3> HIDE DEF p, j
      <3>4. j \in Incoming(bpSf) /\ (j = i \/ Precedes(j, i) \/ Precedes(i, j))
        BY <2>7, <3>1 DEF j
      <3>5. QED
        <4>1. j = i
          BY <3>2, <3>3, <3>4, <2>3, <1>1, PositionsFollowOrder
        <4>2. QED BY <4>1 DEF j
    <2>9. QED
      BY <2>6, <2>8
  <1>19. QED
    BY <1>2, <1>8, <1>17, <1>18
-----------------------------------------------------------------------------
(* arc_buffer_consumer_release of a frame that is there gives back the arcs*)
(* that start before it, and no other.                                     *)
LEMMA ArcReleaseEffect ==
  ASSUME AbIInv, NEW sf \in Nat, sfBase <= sf, sf < activeSf, AbRelease(sf)
  PROVE  /\ AbIInv'
         /\ sfBase' = sf /\ UNCHANGED <<activeSf, tableVars, syncVars>>
         /\ \A p \in DOMAIN arcs' : p \in DOMAIN arcs /\ arcs'[p] = arcs[p]
         /\ \A p \in DOMAIN arcs : p \notin DOMAIN arcs' => retired[arcs[p]] < sf
  <1>1. CASE sf = sfBase
    <2>1. UNCHANGED abVars
      BY <1>1 DEF AbRelease, abVars, bufVars, tableVars, syncVars
    <2>2. AbIInv'
      BY <2>1 DEF AbIInv, AbTypeOK, ActiveArc, IsSorted, abVars, bufVars, tableVars, syncVars
    <2>3. QED
      BY <1>1, <2>1, <2>2 DEF abVars, bufVars, tableVars, syncVars
  <1>2. CASE sf # sfBase
    <2> DEFINE old == ActiveArc
               first == sfIdx[sf]
    <2>1. /\ AbTypeOK /\ old \in Nat /\ arcBase \in Nat /\ sfBase \in Nat /\ activeSf \in Nat
          /\ sf \in sfBase .. (activeSf - 1) /\ sf \in DOMAIN sfIdx
          /\ sfIdx \in [sfBase .. (activeSf - 1) -> Nat]
          /\ arcs \in [arcBase .. (old - 1) -> 1 .. Len(retired)]
      <3>1. AbTypeOK /\ old \in Nat
        BY ActiveArcIsNat DEF AbIInv
      <3>2. /\ arcBase \in Nat /\ sfBase \in Nat /\ activeSf \in Nat
            /\ sfIdx \in [sfBase .. (activeSf - 1) -> Nat]
            /\ arcs \in [arcBase .. (old - 1) -> 1 .. Len(retired)]
        BY <3>1 DEF AbTypeOK
      <3>3. sf \in sfBase .. (activeSf - 1)
        BY <3>2
      <3>4. QED
        BY <3>1, <3>2, <3>3
    <2>2. first \in Nat /\ arcBase <= first /\ first <= old
      BY <2>1 DEF AbIInv
    <2>3. /\ sfBase' = sf /\ sfIdx' = [f \in sf .. (activeSf - 1) |-> sfIdx[f]]
          /\ arcBase' = first /\ arcs' = [p \in first .. (old - 1) |-> arcs[p]]
          /\ UNCHANGED <<nextIdx, activeSf, tableVars, syncVars>>
      BY <1>2, <2>1 DEF AbRelease, ReleaseIsDefined
    <2>4. /\ retired' = retired /\ bpSf' = bpSf /\ nextIdx' = nextIdx /\ activeSf' = activeSf
          /\ state' = state /\ arcStart' = arcStart /\ arcRelease' = arcRelease /\ evt' = evt
      BY <2>3 DEF tableVars, syncVars
    <2> HIDE DEF old, first
    <2>5. /\ DOMAIN arcs = arcBase .. (old - 1) /\ DOMAIN arcs' = first .. (old - 1)
          /\ \A p \in DOMAIN arcs' : p \in DOMAIN arcs /\ arcs'[p] = arcs[p]
      BY <2>1, <2>2, <2>3
    <2>6. \A f \in DOMAIN sfIdx' : f \in DOMAIN sfIdx /\ sfIdx'[f] = sfIdx[f] /\ f \in Nat /\ sf <= f
      BY <2>1, <2>3
    <2>7. ActiveArc' = old /\ Cardinality(DOMAIN arcs') \in Nat
      <3> DEFINE last == old - 1
      <3>1. first \in Int /\ last \in Int
            /\ (IF first > last THEN 0 ELSE last - first + 1) = old - first
        BY <2>1, <2>2
      <3>2. Cardinality(first .. last) = old - first
        <4> HIDE DEF last
        <4>1. QED BY <3>1, FS_Interval
      <3>3. Cardinality(DOMAIN arcs') = old - first
        BY <2>5, <3>2
      <3>4. ActiveArc' = first + Cardinality(DOMAIN arcs')
        BY <2>3 DEF ActiveArc
      <3>5. QED
        BY <3>3, <3>4, <2>1, <2>2
    <2>8. \A p \in DOMAIN arcs : p >= first <=> retired[arcs[p]] >= sf
      BY <2>1 DEF AbIInv, IsSorted, first
    <2>9. \A p \in DOMAIN arcs' : sf <= retired[arcs'[p]] /\ retired[arcs'[p]] < activeSf
      <3> SUFFICES ASSUME NEW p \in DOMAIN arcs'
                   PROVE  sf <= retired[arcs'[p]] /\ retired[arcs'[p]] < activeSf
        OBVIOUS
      <3>1. p \in DOMAIN arcs /\ arcs'[p] = arcs[p] /\ p >= first
        BY <2>1, <2>2, <2>5
      <3>2. retired[arcs[p]] >= sf /\ retired[arcs[p]] < activeSf
        BY <3>1, <2>8 DEF AbIInv
      <3>3. retired[arcs[p]] \in Nat
        BY <3>1, <2>1, ArcsStart
      <3>4. QED
        BY <3>1, <3>2, <3>3
    <2>10. \A f \in DOMAIN sfIdx' : first <= sfIdx'[f] /\ sfIdx'[f] <= old
      <3> SUFFICES ASSUME NEW f \in DOMAIN sfIdx'
                   PROVE  first <= sfIdx'[f] /\ sfIdx'[f] <= old
        OBVIOUS
      <3>1. /\ f \in DOMAIN sfIdx /\ sfIdx'[f] = sfIdx[f] /\ sfIdx[f] \in Nat /\ f \in Nat
            /\ sf <= f /\ arcBase <= sfIdx[f] /\ sfIdx[f] <= old
        BY <2>1, <2>6 DEF AbIInv, old
      <3>2. ~ (sfIdx[f] < first)
        <4> SUFFICES ASSUME sfIdx[f] < first
                     PROVE  FALSE
          OBVIOUS
        <4>1. sfIdx[f] \in DOMAIN arcs
          BY <3>1, <2>1, <2>2, <2>5
        <4>2. retired[arcs[sfIdx[f]]] >= f
          BY <3>1, <4>1 DEF AbIInv, IsSorted
        <4>3. ~ (retired[arcs[sfIdx[f]]] >= sf)
          BY <3>1, <4>1, <2>2, <2>8
        <4>4. retired[arcs[sfIdx[f]]] \in Nat
          BY <4>1, <2>1, ArcsStart
        <4>5. QED
          BY <3>1, <4>2, <4>3, <4>4
      <3>3. QED
        BY <3>1, <3>2, <2>2
    <2>11. (\A p, q \in DOMAIN arcs : arcs[p] = arcs[q] => p = q)'
      BY <2>5 DEF AbIInv
    <2>12. IsSorted'
      BY <2>4, <2>5, <2>6 DEF IsSorted, AbIInv
    <2>13. AbTypeOK'
      <3>1. sfIdx' \in [sf .. (activeSf - 1) -> Nat]
        BY <2>1, <2>3
      <3>2. arcs' \in [first .. (old - 1) -> 1 .. Len(retired)]
        BY <2>1, <2>2, <2>3
      <3>3. QED
        BY <2>1, <2>2, <2>3, <2>4, <2>7, <3>1, <3>2 DEF AbTypeOK
    <2>14. AbIInv'
      <3>1. (sfBase <= activeSf)' /\ (activeSf <= bpSf)'
        BY <2>1, <2>3, <2>4 DEF AbIInv
      <3>2. (\A i \in 1 .. (nextIdx - 1) : retired[i] < activeSf)'
        BY <2>4 DEF AbIInv
      <3>3. (\A f \in DOMAIN sfIdx : arcBase <= sfIdx[f] /\ sfIdx[f] <= ActiveArc)'
        BY <2>3, <2>7, <2>10
      <3>4. (\A p \in DOMAIN arcs : sfBase <= retired[arcs[p]] /\ retired[arcs[p]] < activeSf)'
        BY <2>3, <2>4, <2>9
      <3>5. QED
        BY <2>7, <2>11, <2>12, <2>13, <3>1, <3>2, <3>3, <3>4 DEF AbIInv
    <2>15. ASSUME NEW p \in DOMAIN arcs, p \notin DOMAIN arcs'
           PROVE  retired[arcs[p]] < sf
      <3>1. ~ (p >= first)
        BY <2>1, <2>2, <2>5, <2>15
      <3>2. retired[arcs[p]] \in Nat
        BY <2>1, ArcsStart
      <3>3. QED
        BY <2>8, <3>1, <3>2
    <2>16. QED
      BY <2>3, <2>5, <2>14, <2>15
  <1>3. QED
    BY <1>1, <1>2
-----------------------------------------------------------------------------
(* The table of the search appends, and what it appends starts in frames   *)
(* that were not swept yet.                                                *)
LEMMA TableGrowth ==
  ASSUME AbIInv, UNCHANGED <<bufVars, syncVars>>,
         NEW n \in Nat, NEW room \in Int,
         \/ TablePush(n, room)
         \/ TableFinalize(n, room)
         \/ TableFinalizeWithoutExit(n)
  PROVE  /\ AbIInv'
         /\ \A i \in DOMAIN retired : i \in DOMAIN retired' /\ retired'[i] = retired[i]
         /\ \A i \in DOMAIN retired' : i \notin DOMAIN retired => activeSf <= retired'[i]
  <1>1. AbTypeOK /\ retired \in Seq(Nat) /\ bpSf \in Nat /\ activeSf \in Nat /\ activeSf <= bpSf
    BY DEF AbIInv, AbTypeOK
  <1>2. \E new \in Seq(Nat) : /\ retired' = retired \o new
                              /\ \A k \in DOMAIN new : bpSf <= new[k]
    <2>1. CASE retired' = retired
      <3>1. retired' = retired \o << >> /\ << >> \in Seq(Nat)
        BY <2>1, <1>1
      <3>2. \A k \in DOMAIN << >> : bpSf <= << >>[k]
        OBVIOUS
      <3>3. QED BY <3>1, <3>2
    <2>2. ASSUME NEW k \in Nat, NEW m \in Int, NEW new \in [1 .. k -> bpSf .. m],
                 retired' = retired \o new
          PROVE  \E s \in Seq(Nat) : /\ retired' = retired \o s
                                     /\ \A j \in DOMAIN s : bpSf <= s[j]
      <3>1. new \in Seq(Nat) /\ \A j \in DOMAIN new : bpSf <= new[j]
        BY <1>1
      <3>2. QED
        BY <3>1, <2>2
    <2>3. CASE TablePush(n, room)
      <3>1. CASE \E k \in 0 .. room : \E new \in [1 .. k -> bpSf .. (n - 2)] :
                   retired' = retired \o new
        <4>0. PICK k \in 0 .. room : \E new \in [1 .. k -> bpSf .. (n - 2)] :
                retired' = retired \o new
          BY <3>1
        <4>1. PICK new \in [1 .. k -> bpSf .. (n - 2)] : retired' = retired \o new
          BY <4>0
        <4>2. k \in Nat /\ n - 2 \in Int
          OBVIOUS
        <4>3. QED
          BY <2>2, <4>1, <4>2
      <3>2. QED
        BY <2>1, <2>3, <3>1 DEF TablePush, tableVars
    <2>4. CASE TableFinalize(n, room)
      <3>0. PICK k \in 1 .. room : \E new \in [1 .. k -> bpSf .. (n - 1)] :
              retired' = retired \o new
        BY <2>4 DEF TableFinalize
      <3>1. PICK new \in [1 .. k -> bpSf .. (n - 1)] : retired' = retired \o new
        BY <3>0
      <3>2. k \in Nat /\ n - 1 \in Int
        OBVIOUS
      <3>3. QED
        BY <2>2, <3>1, <3>2
    <2>5. CASE TableFinalizeWithoutExit(n)
      BY <2>1, <2>5 DEF TableFinalizeWithoutExit
    <2>6. QED
      BY <2>3, <2>4, <2>5
  <1>3. bpSf' \in Nat /\ bpSf <= bpSf'
    <2>1. CASE TablePush(n, room)
      BY <1>1, <2>1 DEF TablePush, tableVars
    <2>2. CASE TableFinalize(n, room)
      <3>0. PICK k \in 1 .. room : \E new \in [1 .. k -> bpSf .. (n - 1)] : bpSf' = n
        BY <2>2 DEF TableFinalize
      <3>1. PICK new \in [1 .. k -> bpSf .. (n - 1)] : bpSf' = n
        BY <3>0
      <3>2. 1 \in 1 .. k /\ new[1] \in bpSf .. (n - 1)
        BY <3>1
      <3>3. QED
        BY <1>1, <3>1, <3>2
    <2>3. CASE TableFinalizeWithoutExit(n)
      BY <1>1, <2>3 DEF TableFinalizeWithoutExit
    <2>4. QED
      BY <2>1, <2>2, <2>3
  <1>4. PICK new \in Seq(Nat) : /\ retired' = retired \o new
                                /\ \A k \in DOMAIN new : bpSf <= new[k]
    BY <1>2
  <1>5. /\ retired' \in Seq(Nat) /\ Len(retired) \in Nat /\ Len(new) \in Nat
        /\ Len(retired') = Len(retired) + Len(new)
        /\ DOMAIN retired = 1 .. Len(retired) /\ DOMAIN new = 1 .. Len(new)
        /\ DOMAIN retired' = 1 .. (Len(retired) + Len(new))
    BY <1>1, <1>4
  <1>6. \A i \in 1 .. Len(retired) : i \in DOMAIN retired' /\ retired'[i] = retired[i]
    BY <1>1, <1>4, <1>5
  <1>7. ASSUME NEW i \in DOMAIN retired', i \notin DOMAIN retired
        PROVE  activeSf <= retired'[i]
    <2>1. i - Len(retired) \in 1 .. Len(new) /\ retired'[i] = new[i - Len(retired)]
      BY <1>1, <1>4, <1>5, <1>7
    <2>2. new[i - Len(retired)] \in Nat /\ bpSf <= new[i - Len(retired)]
      BY <2>1, <1>4, <1>5
    <2>3. QED
      BY <2>1, <2>2, <1>1
  <1>8. /\ nextIdx' = nextIdx /\ activeSf' = activeSf /\ sfBase' = sfBase /\ sfIdx' = sfIdx
        /\ arcBase' = arcBase /\ arcs' = arcs /\ state' = state /\ arcStart' = arcStart
        /\ arcRelease' = arcRelease /\ evt' = evt /\ ActiveArc' = ActiveArc
    BY DEF bufVars, syncVars, ActiveArc
  <1>9. /\ nextIdx \in 1 .. (Len(retired) + 1)
        /\ \A p \in DOMAIN arcs : arcs[p] \in 1 .. Len(retired)
        /\ arcs \in [arcBase .. (ActiveArc - 1) -> 1 .. Len(retired)]
    <2>1. arcs \in [arcBase .. (ActiveArc - 1) -> 1 .. Len(retired)]
      BY <1>1 DEF AbTypeOK
    <2>2. QED
      BY <1>1, <2>1 DEF AbTypeOK
  <1>10. AbTypeOK'
    <2>1. arcs \in [arcBase .. (ActiveArc - 1) -> 1 .. Len(retired')]
      BY <1>5, <1>9
    <2>2. nextIdx \in 1 .. (Len(retired') + 1)
      BY <1>5, <1>9
    <2>3. QED
      BY <1>1, <1>3, <1>5, <1>8, <2>1, <2>2 DEF AbTypeOK
  <1>11. \A p \in DOMAIN arcs : retired'[arcs[p]] = retired[arcs[p]]
    BY <1>6, <1>9
  <1>12. \A i \in 1 .. (nextIdx - 1) : retired'[i] < activeSf
    <2> SUFFICES ASSUME NEW i \in 1 .. (nextIdx - 1)
                 PROVE  retired'[i] < activeSf
      OBVIOUS
    <2>1. i \in 1 .. Len(retired)
      BY <1>5, <1>9
    <2>2. QED
      BY <2>1, <1>6 DEF AbIInv
  <1>13. AbIInv'
    <2>1. (\A i \in 1 .. (nextIdx - 1) : retired[i] < activeSf)'
      BY <1>8, <1>12
    <2>2. (sfBase <= activeSf)' /\ (activeSf <= bpSf)'
      BY <1>1, <1>3, <1>8 DEF AbIInv
    <2>3. (Cardinality(DOMAIN arcs) \in Nat)'
      BY <1>8 DEF AbIInv
    <2>4. (\A f \in DOMAIN sfIdx : arcBase <= sfIdx[f] /\ sfIdx[f] <= ActiveArc)'
      BY <1>8 DEF AbIInv
    <2>5. (\A p \in DOMAIN arcs : sfBase <= retired[arcs[p]] /\ retired[arcs[p]] < activeSf)'
      BY <1>8, <1>11 DEF AbIInv
    <2>6. (\A p, q \in DOMAIN arcs : arcs[p] = arcs[q] => p = q)'
      BY <1>8 DEF AbIInv
    <2>7. IsSorted'
      BY <1>8, <1>11 DEF AbIInv, IsSorted
    <2>8. QED
      BY <1>10, <2>1, <2>2, <2>3, <2>4, <2>5, <2>6, <2>7 DEF AbIInv
  <1>14. QED
    BY <1>5, <1>6, <1>7, <1>13

LEMMA EmptyBuffer == Emptied => AbIInv
  <1> SUFFICES ASSUME Emptied
               PROVE  AbIInv
    OBVIOUS
  <1> USE DEF Emptied
  <1>1. DOMAIN arcs = {} /\ DOMAIN sfIdx = {}
    BY DEF EmptyFrom
  <1>2. Cardinality(DOMAIN arcs) = 0
    BY <1>1, FS_EmptySet
  <1>3. ActiveArc = 0
    BY <1>2 DEF ActiveArc
  <1>4. Len(retired) = 0 /\ retired \in Seq(Nat)
    OBVIOUS
  <1>5. arcs \in [0 .. -1 -> 1 .. 0] /\ sfIdx \in [0 .. -1 -> Nat]
    BY DEF EmptyFrom
  <1>6. AbTypeOK
    BY <1>3, <1>4, <1>5 DEF AbTypeOK
  <1>7. QED
    BY <1>1, <1>2, <1>3, <1>6 DEF AbIInv, IsSorted

LEMMA EmptiedBuffer == Emptied' => AbIInv'
  BY EmptyBuffer, PTL
-----------------------------------------------------------------------------
(* The two threads. *)


(* The two semaphores pass the utterance back and forth: while the search  *)
(* is in it, either latgen is, or one of the semaphores says so.           *)
Turns ==
  /\ state = "CANCELED" <=> ppc = "stopped"
  /\ ppc = "idle" => lpc = "start" /\ arcStart = 0 /\ arcRelease = 0
  /\ ppc = "stopped" => lpc \in {"start", "gone"}
  /\ ppc \in {"push", "sweep", "end", "awaiting"} =>
      \/ lpc = "start" /\ arcStart + arcRelease = 1
      \/ lpc \in Inside /\ arcStart = 0 /\ arcRelease = 0

(* The frame before which latgen has taken all there is. *)
Reached == IF lpc = "release" THEN frameIdx + 1 ELSE frameIdx

(* Between the frame given back and the frame swept: latgen has exactly    *)
(* the arcs of the frames it has reached, in order, and an arc that left   *)
(* the buffer is one of those.                                             *)
TakenWithin ==
  /\ sfBase <= frameIdx /\ frameIdx <= activeSf
  /\ lpc = "release" => frameIdx < activeSf
  /\ \A k \in DOMAIN taken : taken[k] \in DOMAIN retired /\ retired[taken[k]] < Reached
  /\ \A i \in Swept : retired[i] < Reached => i \in Taken
  /\ Swept \ Held \subseteq Taken
  /\ TakenInOrder

(* An utterance that latgen has not begun has lost no arc yet. *)
TakenSoFar ==
  /\ ppc # "stopped" /\ lpc = "start" /\ arcStart > 0 => sfBase = 0 /\ Swept \subseteq Held
  /\ lpc \in Inside => TakenWithin

IInv == TypeOK /\ AbIInv /\ Turns /\ TakenSoFar
-----------------------------------------------------------------------------
LEMMA SweptIs == AbTypeOK => \A i : i \in Swept <=> i \in 1 .. Len(retired) /\ retired[i] < activeSf
  BY DEF Swept, AbTypeOK

(* The arcs that latgen copies under the lock are those of the frame, no   *)
(* more and no fewer, and they lie side by side.                           *)
LEMMA GrabTakesTheFrame ==
  ASSUME AbIInv, frameIdx \in Nat, IterSucceeds(frameIdx)
  PROVE  LET first == IterPosition(frameIdx)
         IN  /\ first \in Nat /\ Cardinality(ArcsFrom(first)) \in Nat
             /\ \A p : p \in DOMAIN arcs /\ retired[arcs[p]] = frameIdx
                       <=> p \in first .. (first + Cardinality(ArcsFrom(first)) - 1)
  <1> DEFINE first == sfIdx[frameIdx]
             end == ActiveArc
             Stops == {q \in first .. end : q < end => retired[arcs[q]] # frameIdx}
  <1>1. /\ AbTypeOK /\ end \in Nat /\ arcBase \in Nat /\ sfBase \in Nat /\ activeSf \in Nat
        /\ frameIdx \in DOMAIN sfIdx /\ first \in Nat /\ arcBase <= first /\ first < end
        /\ DOMAIN arcs = arcBase .. (end - 1)
        /\ DOMAIN sfIdx = sfBase .. (activeSf - 1)
    <2>1. AbTypeOK /\ end \in Nat
      BY ActiveArcIsNat DEF AbIInv
    <2>2. /\ arcBase \in Nat /\ sfBase \in Nat /\ activeSf \in Nat
          /\ DOMAIN arcs = arcBase .. (end - 1)
          /\ DOMAIN sfIdx = sfBase .. (activeSf - 1)
          /\ \A f \in DOMAIN sfIdx : sfIdx[f] \in Nat
      BY <2>1 DEF AbTypeOK
    <2>3. frameIdx \in DOMAIN sfIdx /\ first < end
      BY <2>2 DEF IterSucceeds
    <2>4. QED
      BY <2>1, <2>2, <2>3 DEF AbIInv
  <1> HIDE DEF end
  <1>2. \A p \in DOMAIN arcs : retired[arcs[p]] \in Nat /\ retired[arcs[p]] < activeSf
    BY <1>1, ArcsStart DEF AbIInv
  <1>3. \A p \in DOMAIN arcs : p >= first <=> retired[arcs[p]] >= frameIdx
    BY <1>1 DEF AbIInv, IsSorted
  <1>4. ASSUME NEW p \in DOMAIN arcs, retired[arcs[p]] = frameIdx,
               NEW r \in first .. p
        PROVE  retired[arcs[r]] = frameIdx
    <2>1. r \in DOMAIN arcs /\ r >= first /\ r <= p /\ p \in Nat /\ r \in Nat
      BY <1>1
    <2>2. retired[arcs[r]] >= frameIdx /\ retired[arcs[r]] \in Nat /\ retired[arcs[r]] < activeSf
      BY <2>1, <1>2, <1>3
    <2>3. CASE retired[arcs[r]] > frameIdx
      <3>1. frameIdx + 1 \in DOMAIN sfIdx /\ retired[arcs[r]] >= frameIdx + 1
        <4> DEFINE f == retired[arcs[r]]
        <4>1. f \in Nat /\ f > frameIdx /\ f < activeSf
          BY <2>2, <2>3
        <4>2. frameIdx \in Nat /\ sfBase \in Nat /\ activeSf \in Nat /\ frameIdx >= sfBase
          BY <1>1
        <4> HIDE DEF f
        <4>3. frameIdx + 1 \in sfBase .. (activeSf - 1) /\ f >= frameIdx + 1
          BY <4>1, <4>2
        <4>4. QED
          BY <4>3, <1>1 DEF f
      <3>2. sfIdx[frameIdx + 1] \in Nat
        BY <3>1, <1>1 DEF AbTypeOK
      <3>3. r >= sfIdx[frameIdx + 1]
        BY <2>1, <3>1 DEF AbIInv, IsSorted
      <3>4. p >= sfIdx[frameIdx + 1]
        BY <2>1, <3>2, <3>3
      <3>5. retired[arcs[p]] >= frameIdx + 1
        BY <3>1, <3>4 DEF AbIInv, IsSorted
      <3>6. QED
        BY <3>5, <1>4
    <2>4. QED
      BY <2>2, <2>3
  <1>5. \A q : q \in ArcsFrom(first) <=> q \in DOMAIN arcs /\ retired[arcs[q]] = frameIdx
    <2>1. ASSUME NEW q \in ArcsFrom(first)
          PROVE  q \in DOMAIN arcs /\ retired[arcs[q]] = frameIdx
      <3>1. q \in first .. (end - 1) /\ \A r \in first .. q : retired[arcs[r]] = frameIdx
        BY DEF ArcsFrom, end
      <3>2. q \in DOMAIN arcs /\ q \in first .. q
        BY <3>1, <1>1
      <3>3. QED
        BY <3>1, <3>2
    <2>2. ASSUME NEW q \in DOMAIN arcs, retired[arcs[q]] = frameIdx
          PROVE  q \in ArcsFrom(first)
      <3>1. q >= first
        BY <2>2, <1>3
      <3>2. q \in first .. (end - 1)
        BY <3>1, <1>1
      <3>3. QED
        BY <3>2, <2>2, <1>4 DEF ArcsFrom, end
    <2>3. QED
      BY <2>1, <2>2
  <1>6. PICK stop \in Stops : \A q \in Stops : stop <= q
    <2>1. end \in Stops /\ Stops \in SUBSET Nat
      BY <1>1
    <2> HIDE DEF Stops
    <2>2. QED BY <2>1, LeastNatural
  <1>7. stop \in Nat /\ first <= stop /\ stop <= end
    BY <1>1
  <1>8. ArcsFrom(first) = first .. (stop - 1)
    <2>1. ASSUME NEW q \in ArcsFrom(first)
          PROVE  q \in first .. (stop - 1)
      <3>1. q \in first .. (end - 1) /\ \A r \in first .. q : retired[arcs[r]] = frameIdx
        BY DEF ArcsFrom, end
      <3>2. ~ (stop <= q)
        <4> SUFFICES ASSUME stop <= q
                     PROVE  FALSE
          OBVIOUS
        <4>1. stop \in first .. q /\ stop < end
          BY <3>1, <1>1, <1>7
        <4>2. QED
          BY <3>1, <4>1
      <3>3. QED
        BY <3>1, <3>2, <1>1, <1>7
    <2>2. ASSUME NEW q \in first .. (stop - 1)
          PROVE  q \in ArcsFrom(first)
      <3>1. q \in DOMAIN arcs /\ q \in first .. end /\ q < end /\ q < stop
        BY <1>1, <1>7
      <3>2. q \notin Stops
        BY <3>1, <1>6, <1>7
      <3>3. retired[arcs[q]] = frameIdx
        BY <3>1, <3>2
      <3>4. QED
        BY <3>1, <3>3, <1>5
    <2>3. QED
      BY <2>1, <2>2
  <1>9. Cardinality(ArcsFrom(first)) = stop - first
    <2> DEFINE last == stop - 1
    <2>1. first \in Int /\ last \in Int
          /\ (IF first > last THEN 0 ELSE last - first + 1) = stop - first
      BY <1>1, <1>7
    <2>2. Cardinality(first .. last) = stop - first
      <3> HIDE DEF first, last
      <3>1. QED BY <2>1, FS_Interval
    <2>3. QED
      BY <2>2, <1>8
  <1> HIDE DEF first, Stops
  <1>10. /\ Cardinality(ArcsFrom(first)) \in Nat
         /\ first + Cardinality(ArcsFrom(first)) - 1 = stop - 1
    BY <1>1, <1>7, <1>9
  <1>11. IterPosition(frameIdx) = first
    BY DEF IterPosition, first
  <1>12. QED
    BY <1>1, <1>5, <1>8, <1>10, <1>11
-----------------------------------------------------------------------------
(* A critical section of the search that commits arcs, in an utterance that*)
(* latgen may be anywhere in.                                              *)
LEMMA DeliverKeeps ==
  ASSUME IInv, Deliver(bpSf) \/ UNCHANGED <<bufVars, evt>>,
         UNCHANGED <<tableVars, arcStart, arcRelease, latgenVars>>,
         state' \in {"INITIAL", "RUNNING", "FINAL", "CANCELED"},
         ppc # "stopped"
  PROVE  AbIInv' /\ TakenSoFar'
  <1>1. /\ frameIdx' = frameIdx /\ taken' = taken /\ lpc' = lpc /\ arcStart' = arcStart
        /\ retired' = retired /\ bpSf' = bpSf /\ arcRelease' = arcRelease
        /\ Taken' = Taken /\ Reached' = Reached
    BY DEF latgenVars, tableVars, Taken, Reached
  <1>2. CASE UNCHANGED <<bufVars, evt>>
    <2>1. /\ nextIdx' = nextIdx /\ activeSf' = activeSf /\ sfBase' = sfBase /\ sfIdx' = sfIdx
          /\ arcBase' = arcBase /\ arcs' = arcs /\ evt' = evt
          /\ Held' = Held /\ Swept' = Swept
      BY <1>1, <1>2 DEF bufVars, Held, Swept
    <2>2. AbTypeOK'
      BY <1>1, <2>1 DEF IInv, AbIInv, AbTypeOK, ActiveArc
    <2>3. AbIInv'
      BY <1>1, <2>1, <2>2 DEF IInv, AbIInv, ActiveArc, IsSorted
    <2>4. TakenInOrder' <=> TakenInOrder
      BY <1>1, <2>1 DEF TakenInOrder
    <2>5. TakenWithin' <=> TakenWithin
      BY <1>1, <2>1, <2>4 DEF TakenWithin
    <2>6. TakenSoFar'
      BY <1>1, <2>1, <2>5 DEF IInv, TakenSoFar
    <2>7. QED
      BY <2>3, <2>6
  <1>3. CASE Deliver(bpSf)
    <2>1. AbIInv /\ AbTypeOK /\ frameIdx \in Nat
      BY DEF IInv, AbIInv, TypeOK
    <2>2. /\ AbIInv'
          /\ sfBase' = sfBase /\ activeSf' = bpSf
          /\ \A p \in DOMAIN arcs : p \in DOMAIN arcs' /\ arcs'[p] = arcs[p]
          /\ \A i \in DOMAIN retired : activeSf <= retired[i] /\ retired[i] < bpSf =>
               \E p \in DOMAIN arcs' : arcs'[p] = i
      <3>1. UNCHANGED <<tableVars, arcStart, arcRelease>>
        OBVIOUS
      <3>2. QED
        BY <1>3, <2>1, <3>1, DeliverEffect
    <2>3. activeSf \in Nat /\ bpSf \in Nat /\ activeSf <= bpSf
      BY <2>1 DEF AbIInv, AbTypeOK
    <2>4. \A i \in DOMAIN retired : retired[i] \in Nat
      BY <2>1 DEF AbTypeOK
    <2>5. Held \subseteq Held'
      BY <2>2 DEF Held
    <2>6. \A i \in Swept' : i \in DOMAIN retired /\ (i \in Swept \/ i \in Held')
      <3> SUFFICES ASSUME NEW i \in Swept'
                   PROVE  i \in DOMAIN retired /\ (i \in Swept \/ i \in Held')
        OBVIOUS
      <3>1. i \in DOMAIN retired /\ retired[i] < bpSf
        BY <1>1, <2>2 DEF Swept
      <3>2. CASE retired[i] < activeSf
        BY <3>1, <3>2 DEF Swept
      <3>3. CASE activeSf <= retired[i]
        BY <3>1, <3>3, <2>2 DEF Held
      <3>4. QED
        BY <3>1, <3>2, <3>3, <2>3, <2>4
    <2>7. CASE lpc \in Inside
      <3>1. TakenWithin
        BY <2>7 DEF IInv, TakenSoFar
      <3>2. Reached \in Nat /\ Reached <= activeSf
        BY <2>1, <2>3, <3>1 DEF Reached, TakenWithin
      <3>3. \A i \in Swept' : retired[i] < Reached => i \in Taken
        <4> SUFFICES ASSUME NEW i \in Swept', retired[i] < Reached
                     PROVE  i \in Taken
          OBVIOUS
        <4>1. i \in DOMAIN retired /\ retired[i] < activeSf
          BY <2>3, <2>4, <2>6, <3>2
        <4>2. QED
          BY <3>1, <4>1 DEF TakenWithin, Swept
      <3>4. Swept' \ Held' \subseteq Taken
        BY <2>5, <2>6, <3>1 DEF TakenWithin
      <3>5. sfBase' <= frameIdx /\ frameIdx <= activeSf' /\ (lpc = "release" => frameIdx < activeSf')
        BY <2>1, <2>2, <2>3, <3>1 DEF TakenWithin
      <3>6. TakenInOrder'
        BY <1>1, <3>1 DEF TakenInOrder, TakenWithin
      <3>7. TakenWithin'
        BY <1>1, <3>1, <3>3, <3>4, <3>5, <3>6 DEF TakenWithin
      <3>8. QED
        BY <1>1, <2>2, <2>7, <3>7 DEF TakenSoFar, Inside
    <2>8. CASE lpc \notin Inside
      <3>1. lpc = "start" /\ arcStart > 0 => sfBase' = 0 /\ Swept' \subseteq Held'
        BY <2>2, <2>5, <2>6 DEF IInv, TakenSoFar
      <3>2. QED
        BY <1>1, <2>2, <2>8, <3>1 DEF TakenSoFar, Inside
    <2>9. QED
      BY <2>7, <2>8
  <1>4. QED
    BY <1>2, <1>3

(* What the search retires was not swept, so latgen has missed nothing.    *)
LEMMA TableGrowthKeeps ==
  ASSUME IInv, UNCHANGED <<bufVars, syncVars, latgenVars>>,
         NEW room \in Int,
         \/ TablePush(frames, room)
         \/ TableFinalize(frames, room)
         \/ TableFinalizeWithoutExit(frames),
         ppc # "stopped"
  PROVE  AbIInv' /\ TakenSoFar'
  <1>1. /\ frameIdx' = frameIdx /\ taken' = taken /\ lpc' = lpc /\ arcStart' = arcStart
        /\ activeSf' = activeSf /\ sfBase' = sfBase /\ arcs' = arcs
        /\ Taken' = Taken /\ Reached' = Reached /\ Held' = Held
    BY DEF latgenVars, bufVars, syncVars, Taken, Reached, Held
  <1>2. /\ AbIInv'
        /\ \A i \in DOMAIN retired : i \in DOMAIN retired' /\ retired'[i] = retired[i]
        /\ \A i \in DOMAIN retired' : i \notin DOMAIN retired => activeSf <= retired'[i]
    <2>1. frames \in Nat /\ AbIInv
      BY ArcLatticeAssumption DEF IInv, TypeOK
    <2>2. UNCHANGED <<bufVars, syncVars>>
      OBVIOUS
    <2>3. QED
      BY <2>1, <2>2, TableGrowth
  <1>3. Swept' = Swept
    <2>1. activeSf \in Nat /\ \A i \in DOMAIN retired' : retired'[i] \in Nat
      <3>1. AbTypeOK'
        BY <1>2 DEF AbIInv
      <3>2. activeSf' \in Nat /\ retired' \in Seq(Nat)
        BY <3>1 DEF AbTypeOK
      <3>3. QED
        BY <1>1, <3>2
    <2>2. QED
      BY <1>1, <1>2, <2>1 DEF Swept
  <1>4. lpc \in Inside => TakenWithin'
    <2> SUFFICES ASSUME lpc \in Inside
                 PROVE  TakenWithin'
      OBVIOUS
    <2>1. TakenWithin
      BY DEF IInv, TakenSoFar
    <2>2. \A k \in DOMAIN taken : taken[k] \in DOMAIN retired' /\ retired'[taken[k]] < Reached
      BY <1>2, <2>1 DEF TakenWithin
    <2>3. \A i \in Swept : retired'[i] < Reached => i \in Taken
      BY <1>2, <2>1 DEF TakenWithin, Swept
    <2>4. TakenInOrder'
      BY <1>1, <1>2, <2>1 DEF TakenInOrder, TakenWithin
    <2>5. QED
      BY <1>1, <1>3, <2>1, <2>2, <2>3, <2>4 DEF TakenWithin
  <1>5. lpc = "start" /\ arcStart > 0 => sfBase' = 0 /\ Swept' \subseteq Held'
    BY <1>1, <1>3 DEF IInv, TakenSoFar
  <1>6. QED
    BY <1>1, <1>2, <1>4, <1>5 DEF TakenSoFar

(* A step of latgen that leaves the table and the buffer alone.            *)
LEMMA BufferUntouched ==
  ASSUME IInv, UNCHANGED <<tableVars, bufVars>>, state' \in {"INITIAL", "RUNNING", "FINAL", "CANCELED"},
         arcStart' \in Nat, arcRelease' \in Nat, evt' \in BOOLEAN
  PROVE  /\ AbIInv' /\ Held' = Held /\ Swept' = Swept
         /\ activeSf' = activeSf /\ sfBase' = sfBase /\ retired' = retired
  <1>1. /\ nextIdx' = nextIdx /\ activeSf' = activeSf /\ sfBase' = sfBase /\ sfIdx' = sfIdx
        /\ arcBase' = arcBase /\ arcs' = arcs /\ retired' = retired /\ bpSf' = bpSf
    BY DEF bufVars, tableVars
  <1>2. AbTypeOK'
    BY <1>1 DEF IInv, AbIInv, AbTypeOK, ActiveArc
  <1>3. AbIInv'
    BY <1>1, <1>2 DEF IInv, AbIInv, ActiveArc, IsSorted
  <1>4. QED
    BY <1>1, <1>3 DEF Held, Swept

LEMMA SamePlaceTaken ==
  ASSUME lpc \in Inside, TakenWithin, lpc' \in Inside, UNCHANGED <<frameIdx, taken>>, Reached' = Reached,
         lpc' = "release" => frameIdx < activeSf,
         Held' = Held, Swept' = Swept, activeSf' = activeSf, sfBase' = sfBase, retired' = retired
  PROVE  TakenWithin'
  <1>1. Taken' = Taken
    BY DEF Taken
  <1>2. TakenInOrder'
    BY DEF TakenInOrder, TakenWithin
  <1>3. QED
    BY <1>1, <1>2 DEF TakenWithin
-----------------------------------------------------------------------------
(* latgen copies the arcs of its frame.                                    *)
LEMMA GrabKeeps ==
  ASSUME IInv, Grab
  PROVE  IInv'
  <1>1. /\ lpc = "grab" /\ lpc \in Inside /\ frameIdx \in Nat /\ taken \in Seq(Nat)
        /\ AbIInv /\ AbTypeOK /\ activeSf \in Nat /\ TakenWithin
    BY DEF Grab, Inside, IInv, TypeOK, AbTypeOK, TakenSoFar
  <1>2. /\ UNCHANGED abVars /\ UNCHANGED searchVars /\ frameIdx' = frameIdx /\ ended' = ended
    BY DEF Grab
  <1>3. /\ AbIInv' /\ AbTypeOK' /\ Held' = Held /\ Swept' = Swept
        /\ activeSf' = activeSf /\ sfBase' = sfBase /\ retired' = retired
    <2>1. AbIInv' /\ Held' = Held /\ Swept' = Swept
          /\ activeSf' = activeSf /\ sfBase' = sfBase /\ retired' = retired
      <3>1. UNCHANGED <<tableVars, bufVars>> /\ UNCHANGED syncVars
        BY <1>2 DEF abVars
      <3>2. /\ state' \in {"INITIAL", "RUNNING", "FINAL", "CANCELED"}
            /\ arcStart' \in Nat /\ arcRelease' \in Nat /\ evt' \in BOOLEAN
        BY <1>1, <3>1 DEF AbTypeOK, syncVars
      <3>3. QED
        BY <3>1, <3>2, BufferUntouched
    <2>2. QED
      BY <2>1 DEF AbIInv
  <1>4. taken' \in Seq(Nat) /\ lpc' \in {"release", "test"} /\ TakenWithin'
    <2>1. CASE ~ IterSucceeds(frameIdx)
      <3>1. lpc' = "test" /\ taken' = taken
        BY <2>1 DEF Grab
      <3>2. Reached' = Reached
        BY <1>1, <1>2, <3>1 DEF Reached
      <3>3. lpc' \in Inside
        BY <3>1 DEF Inside
      <3>4. TakenWithin'
        BY <1>1, <1>2, <1>3, <3>1, <3>2, <3>3, SamePlaceTaken
      <3>5. QED
        BY <1>1, <3>1, <3>4
    <2>2. CASE IterSucceeds(frameIdx)
      <3> DEFINE first == IterPosition(frameIdx)
                 m == Cardinality(ArcsFrom(first))
                 more == [k \in 1 .. m |-> arcs[first + k - 1]]
      <3>1. lpc' = "release" /\ taken' = taken \o more
        BY <2>2 DEF Grab
      <3>2. /\ first \in Nat /\ m \in Nat
            /\ \A p : p \in DOMAIN arcs /\ retired[arcs[p]] = frameIdx <=> p \in first .. (first + m - 1)
        BY <1>1, <2>2, GrabTakesTheFrame
      <3> HIDE DEF first, m
      <3>3. \A k \in 1 .. m : first + k - 1 \in DOMAIN arcs /\ retired[arcs[first + k - 1]] = frameIdx
        <4>1. \A k \in 1 .. m : first + k - 1 \in first .. (first + m - 1)
          BY <3>2
        <4>2. QED
          BY <4>1, <3>2
      <3>4. /\ more \in Seq(Nat) /\ Len(more) = m
            /\ \A k \in 1 .. m : /\ more[k] = arcs[first + k - 1]
                                 /\ more[k] \in DOMAIN retired /\ retired[more[k]] = frameIdx
        <4>1. \A k \in 1 .. m : more[k] = arcs[first + k - 1]
          OBVIOUS
        <4>2. \A k \in 1 .. m : arcs[first + k - 1] \in 1 .. Len(retired)
          BY <1>1, <3>3, ArcsStart
        <4>3. DOMAIN retired = 1 .. Len(retired) /\ \A i \in 1 .. Len(retired) : i \in Nat
          BY <1>1 DEF AbTypeOK
        <4>4. \A k \in 1 .. m : more[k] \in DOMAIN retired /\ more[k] \in Nat /\ retired[more[k]] = frameIdx
          BY <3>3, <4>1, <4>2, <4>3
        <4>5. more \in [1 .. m -> Nat]
          BY <4>4
        <4>6. more \in Seq(Nat) /\ Len(more) = m
          BY <3>2, <4>5
        <4>7. QED
          BY <4>1, <4>4, <4>6
      <3> HIDE DEF more
      <3>5. /\ taken' \in Seq(Nat) /\ Len(taken) \in Nat
            /\ DOMAIN taken = 1 .. Len(taken)
            /\ DOMAIN taken' = 1 .. (Len(taken) + m)
            /\ \A k \in DOMAIN taken' : taken'[k] = IF k <= Len(taken) THEN taken[k] ELSE more[k - Len(taken)]
        <4>1. taken \in Seq(Nat) /\ more \in Seq(Nat) /\ Len(more) = m /\ taken' = taken \o more
          BY <1>1, <3>1, <3>4
        <4>2. taken \o more \in Seq(Nat) /\ Len(taken) \in Nat /\ DOMAIN taken = 1 .. Len(taken)
          BY <4>1
        <4>3. /\ DOMAIN (taken \o more) = 1 .. (Len(taken) + Len(more))
              /\ \A k \in 1 .. (Len(taken) + Len(more)) :
                   (taken \o more)[k] = IF k <= Len(taken) THEN taken[k] ELSE more[k - Len(taken)]
          BY <4>1
        <4>4. QED
          BY <4>1, <4>2, <4>3
      <3>6. \A k \in DOMAIN taken' :
              \/ k \in DOMAIN taken /\ taken'[k] = taken[k]
              \/ /\ k - Len(taken) \in 1 .. m /\ k \notin DOMAIN taken /\ k > Len(taken)
                 /\ taken'[k] = more[k - Len(taken)]
        BY <3>2, <3>5, SMTT(20)
      <3>7. Reached = frameIdx /\ Reached' = frameIdx + 1
        BY <1>1, <1>2, <3>1 DEF Reached
      <3>8. \A k \in DOMAIN taken : taken[k] \in DOMAIN retired /\ retired[taken[k]] < frameIdx
                                    /\ retired[taken[k]] \in Nat
        <4>1. \A k \in DOMAIN taken : taken[k] \in DOMAIN retired /\ retired[taken[k]] < frameIdx
          BY <1>1, <3>7 DEF TakenWithin
        <4>2. \A i \in DOMAIN retired : retired[i] \in Nat
          BY <1>1 DEF AbTypeOK
        <4>3. QED
          BY <4>1, <4>2
      <3>9. \A k \in DOMAIN taken' : taken'[k] \in DOMAIN retired /\ retired[taken'[k]] < frameIdx + 1
        BY <1>1, <3>4, <3>6, <3>8
      <3>10. Taken \subseteq Taken'
        <4>1. \A k \in DOMAIN taken : k \in DOMAIN taken' /\ taken'[k] = taken[k]
          BY <3>2, <3>5
        <4>2. QED
          BY <4>1 DEF Taken
      <3>11. ASSUME NEW i \in Swept, retired[i] < frameIdx + 1
             PROVE  i \in Taken'
        <4>1. i \in DOMAIN retired /\ retired[i] \in Nat
          BY <1>1 DEF Swept, AbTypeOK
        <4>2. CASE retired[i] < frameIdx
          BY <1>1, <3>7, <3>10, <4>2 DEF TakenWithin
        <4>3. CASE retired[i] = frameIdx /\ i \in Held
          <5>1. PICK p \in DOMAIN arcs : arcs[p] = i
            BY <4>3 DEF Held
          <5>2. p \in first .. (first + m - 1)
            BY <3>2, <4>3, <5>1
          <5> DEFINE k == p - first + 1
                     size == Len(taken)
          <5>3. k \in 1 .. m /\ first + k - 1 = p
            BY <3>2, <5>2
          <5> HIDE DEF k, size
          <5>4. size + k \in DOMAIN taken' /\ taken'[size + k] = more[k]
            <6> DEFINE at == size + k
            <6>1. DOMAIN taken' = 1 .. (size + m)
              BY <3>5 DEF size
            <6>2. at \in 1 .. (size + m) /\ ~ (at <= size) /\ at - size = k
              <7>1. size \in Nat
                BY <3>5 DEF size
              <7>2. QED
                BY <7>1, <5>3, <3>2
            <6> HIDE DEF at
            <6>3. at \in DOMAIN taken'
              BY <6>1, <6>2
            <6>4. taken'[at] = more[at - size]
              BY <3>5, <6>2, <6>3 DEF size
            <6>5. taken'[at] = more[k]
              BY <6>2, <6>4
            <6>6. QED
              BY <6>3, <6>5 DEF at
          <5>5. taken'[size + k] = i
            BY <3>4, <5>1, <5>3, <5>4
          <5>6. QED
            BY <5>4, <5>5 DEF Taken
        <4>4. CASE i \notin Held
          BY <1>1, <3>10, <4>4 DEF TakenWithin
        <4>5. QED
          BY <1>1, <3>11, <4>1, <4>2, <4>3, <4>4
      <3>12. ASSUME NEW j \in DOMAIN taken', NEW k \in DOMAIN taken', j < k
             PROVE  taken'[j] # taken'[k] /\ retired[taken'[j]] <= retired[taken'[k]]
        <4>1. CASE k \in DOMAIN taken
          <5>1. j \in DOMAIN taken /\ taken'[j] = taken[j] /\ taken'[k] = taken[k]
            BY <3>2, <3>5, <3>12, <4>1
          <5>2. QED
            BY <1>1, <5>1, <3>12, <4>1 DEF TakenWithin, TakenInOrder
        <4>2. CASE k \notin DOMAIN taken /\ j \in DOMAIN taken
          <5>1. retired[taken'[k]] = frameIdx /\ retired[taken'[j]] < frameIdx
                /\ retired[taken'[j]] \in Nat
            BY <3>2, <3>4, <3>5, <3>6, <3>8, <4>2
          <5>2. QED
            BY <5>1, <1>1
        <4>3. CASE k \notin DOMAIN taken /\ j \notin DOMAIN taken
          <5> DEFINE a == j - Len(taken)
                     b == k - Len(taken)
          <5>1. /\ a \in 1 .. m /\ b \in 1 .. m /\ taken'[j] = more[a] /\ taken'[k] = more[b]
            BY <3>6, <4>3
          <5>2. first + a - 1 # first + b - 1
            BY <3>2, <3>5, <3>12
          <5> HIDE DEF a, b
          <5>3. arcs[first + a - 1] # arcs[first + b - 1]
            BY <1>1, <3>3, <5>1, <5>2 DEF AbIInv
          <5>4. QED
            BY <1>1, <3>4, <5>1, <5>3
        <4>4. QED
          BY <4>1, <4>2, <4>3
      <3>13. TakenInOrder'
        BY <1>3, <3>12 DEF TakenInOrder
      <3>14. sfBase <= frameIdx /\ frameIdx < activeSf /\ frameIdx <= activeSf
        BY <1>1, <2>2 DEF IterSucceeds, TakenWithin, AbTypeOK
      <3>15. Swept \ Held \subseteq Taken'
        BY <1>1, <3>10 DEF TakenWithin
      <3>16. TakenWithin'
        BY <1>2, <1>3, <3>7, <3>9, <3>11, <3>13, <3>14, <3>15 DEF TakenWithin
      <3>17. QED
        BY <3>1, <3>5, <3>16
    <2>3. QED
      BY <2>1, <2>2
  <1>5. TypeOK'
    BY <1>1, <1>2, <1>3, <1>4 DEF IInv, TypeOK, searchVars
  <1>6. /\ state' = state /\ ppc' = ppc /\ arcStart' = arcStart /\ arcRelease' = arcRelease
    BY <1>2 DEF abVars, syncVars, searchVars
  <1>7. Turns'
    <2>1. ppc # "stopped" /\ ppc # "idle"
      BY <1>1 DEF IInv, Turns
    <2>2. lpc' \in Inside
      BY <1>4 DEF Inside
    <2>3. QED
      BY <1>1, <1>6, <2>1, <2>2 DEF IInv, Turns, Inside
  <1>8. TakenSoFar'
    BY <1>4 DEF TakenSoFar
  <1>9. QED
    BY <1>3, <1>5, <1>7, <1>8 DEF IInv

(* latgen gives back the frame it has taken.                               *)
LEMMA ReleaseKeeps ==
  ASSUME IInv, Release
  PROVE  IInv'
  <1>1. /\ lpc = "release" /\ lpc \in Inside /\ frameIdx \in Nat /\ taken \in Seq(Nat)
        /\ AbIInv /\ AbTypeOK /\ activeSf \in Nat /\ sfBase \in Nat /\ TakenWithin
    BY DEF Release, Inside, IInv, TypeOK, AbTypeOK, TakenSoFar
  <1>2. /\ frameIdx' = frameIdx + 1 /\ lpc' = "grab" /\ UNCHANGED searchVars
        /\ taken' = taken /\ ended' = ended /\ Taken' = Taken
    BY DEF Release, Taken
  <1>3. sfBase <= frameIdx /\ frameIdx < activeSf
    BY <1>1 DEF TakenWithin
  <1>4. /\ AbIInv' /\ sfBase' = frameIdx /\ UNCHANGED <<activeSf, tableVars, syncVars>>
        /\ \A p \in DOMAIN arcs' : p \in DOMAIN arcs /\ arcs'[p] = arcs[p]
        /\ \A p \in DOMAIN arcs : p \notin DOMAIN arcs' => retired[arcs[p]] < frameIdx
    BY <1>1, <1>3, ArcReleaseEffect DEF Release
  <1>5. /\ retired' = retired /\ activeSf' = activeSf /\ state' = state /\ ppc' = ppc
        /\ arcStart' = arcStart /\ arcRelease' = arcRelease /\ Swept' = Swept
    BY <1>2, <1>4 DEF tableVars, syncVars, searchVars, Swept
  <1>6. Reached = frameIdx + 1 /\ Reached' = frameIdx + 1
    BY <1>1, <1>2 DEF Reached
  <1>7. \A i \in Swept \ Held' : i \in Taken
    <2> SUFFICES ASSUME NEW i \in Swept, i \notin Held'
                 PROVE  i \in Taken
      OBVIOUS
    <2>1. CASE i \notin Held
      BY <1>1, <2>1 DEF TakenWithin
    <2>2. CASE i \in Held
      <3>1. PICK p \in DOMAIN arcs : arcs[p] = i
        BY <2>2 DEF Held
      <3>2. p \notin DOMAIN arcs'
        BY <1>4, <3>1 DEF Held
      <3>3. retired[i] < frameIdx
        BY <1>4, <3>1, <3>2
      <3>4. retired[i] < Reached
        BY <1>1, <1>6, <3>3 DEF Swept, AbTypeOK
      <3>5. QED
        BY <1>1, <3>4 DEF TakenWithin
    <2>3. QED
      BY <2>1, <2>2
  <1>8. TakenInOrder'
    BY <1>1, <1>2, <1>5 DEF TakenInOrder, TakenWithin
  <1>9. TakenWithin'
    <2>1. frameIdx <= frameIdx + 1 /\ frameIdx + 1 <= activeSf
      BY <1>1, <1>3
    <2>2. QED
      BY <1>1, <1>2, <1>4, <1>5, <1>6, <1>7, <1>8, <2>1 DEF TakenWithin
  <1>10. TypeOK'
    BY <1>1, <1>2, <1>4 DEF IInv, TypeOK, AbIInv, searchVars
  <1>11. Turns'
    BY <1>1, <1>2, <1>5 DEF IInv, Turns, Inside
  <1>12. QED
    BY <1>2, <1>4, <1>9, <1>10, <1>11 DEF IInv, TakenSoFar
-----------------------------------------------------------------------------
LEMMA Initially == Init => IInv
  <1> SUFFICES ASSUME Init
               PROVE  IInv
    OBVIOUS
  <1>1. AbIInv
    BY EmptyBuffer DEF Init, AbInit, TableInit, Emptied
  <1>2. TypeOK
    BY <1>1, ArcLatticeAssumption DEF Init, AbIInv, TypeOK
  <1>3. Turns
    BY DEF Init, AbInit, Turns
  <1>4. TakenSoFar
    BY DEF Init, AbInit, TakenSoFar, Inside
  <1>5. QED
    BY <1>1, <1>2, <1>3, <1>4 DEF IInv

LEMMA Inductive == IInv /\ [Next]_vars => IInv'
  <1> SUFFICES ASSUME IInv, [Next]_vars
               PROVE  IInv'
    OBVIOUS
  <1>1. /\ TypeOK /\ AbIInv /\ AbTypeOK /\ Turns /\ TakenSoFar
        /\ arcStart \in Nat /\ arcRelease \in Nat /\ evt \in BOOLEAN
        /\ state \in {"INITIAL", "RUNNING", "FINAL", "CANCELED"}
        /\ {MaxFrames, MaxArcs, MaxUtts} \subseteq Nat
        /\ Len(retired) \in Nat
    <2>1. TypeOK /\ AbIInv /\ Turns /\ TakenSoFar
      BY DEF IInv
    <2>2. AbTypeOK
      BY <2>1 DEF TypeOK
    <2>3. /\ arcStart \in Nat /\ arcRelease \in Nat /\ evt \in BOOLEAN
          /\ state \in {"INITIAL", "RUNNING", "FINAL", "CANCELED"}
          /\ Len(retired) \in Nat
      BY <2>2 DEF AbTypeOK
    <2>4. QED
      BY <2>1, <2>2, <2>3, ArcLatticeAssumption
  <1>2. ASSUME UNCHANGED <<tableVars, bufVars>>,
               state' \in {"INITIAL", "RUNNING", "FINAL", "CANCELED"},
               arcStart' \in Nat, arcRelease' \in Nat, evt' \in BOOLEAN
        PROVE  /\ AbIInv' /\ AbTypeOK' /\ Held' = Held /\ Swept' = Swept
               /\ activeSf' = activeSf /\ sfBase' = sfBase /\ retired' = retired
    BY <1>2, BufferUntouched DEF AbIInv
  <1>3. ASSUME UNCHANGED <<tableVars, bufVars>>, lpc \in Inside, lpc' \in Inside,
               UNCHANGED <<frameIdx, taken>>, lpc # "release", lpc' # "release",
               Held' = Held, Swept' = Swept, activeSf' = activeSf, sfBase' = sfBase,
               retired' = retired
        PROVE  TakenSoFar'
    <2>1. Reached' = Reached
      BY <1>3 DEF Reached
    <2>2. TakenWithin
      BY <1>1, <1>3 DEF TakenSoFar
    <2>3. TakenWithin'
      BY <1>3, <2>1, <2>2, SamePlaceTaken
    <2>4. lpc' # "start"
      BY <1>3 DEF Inside
    <2>5. QED
      BY <2>3, <2>4 DEF TakenSoFar
  <1>4. CASE StartUtt
    <2>1. /\ ppc = "idle" /\ lpc = "start" /\ arcStart = 0 /\ arcRelease = 0
          /\ ppc' = "push" /\ lpc' = "start" /\ arcStart' = 1 /\ arcRelease' = 0
          /\ state' = "RUNNING" /\ evt' = evt
      BY <1>1, <1>4 DEF StartUtt, AbStartUtt, Turns, latgenVars
    <2>2. /\ retired' = << >> /\ bpSf' = 0 /\ nextIdx' = 1 /\ activeSf' = 0
          /\ sfBase' = 0 /\ sfIdx' = EmptyFrom(0) /\ arcBase' = 0 /\ arcs' = EmptyFrom(0)
      BY <1>4 DEF StartUtt, AbStartUtt, TableReset
    <2>3. AbIInv'
      <3>1. evt' \in BOOLEAN
        BY <1>1, <2>1
      <3>2. Emptied'
        BY <2>1, <2>2, <3>1 DEF Emptied, EmptyFrom
      <3>3. QED
        BY <3>2, EmptiedBuffer
    <2>4. TypeOK'
      BY <1>1, <1>4, <2>3 DEF StartUtt, TypeOK, AbIInv, latgenVars
    <2>5. Turns'
      BY <2>1 DEF Turns
    <2>6. TakenSoFar'
      <3>1. Swept' = {}
        BY <2>2 DEF Swept
      <3>2. QED
        BY <2>1, <2>2, <3>1 DEF TakenSoFar, Inside
    <2>7. QED
      BY <2>3, <2>4, <2>5, <2>6 DEF IInv
  <1>5. CASE PushFrame
    <2>1. UNCHANGED <<bufVars, syncVars, latgenVars>> /\ ppc # "stopped"
          /\ MaxArcs - 1 - Len(retired) \in Int /\ TablePush(frames, MaxArcs - 1 - Len(retired))
      BY <1>1, <1>5 DEF PushFrame
    <2>2. AbIInv' /\ TakenSoFar'
      BY <2>1, TableGrowthKeeps
    <2>3. TypeOK'
      BY <1>1, <1>5, <2>2 DEF PushFrame, TypeOK, AbIInv, latgenVars
    <2>4. Turns'
      BY <1>1, <1>5 DEF PushFrame, Turns, syncVars, latgenVars
    <2>5. QED
      BY <2>2, <2>3, <2>4 DEF IInv
  <1>6. CASE Sweep
    <2>1. /\ Deliver(bpSf) \/ UNCHANGED <<bufVars, evt>>
          /\ UNCHANGED <<tableVars, arcStart, arcRelease, latgenVars>>
          /\ state' \in {"INITIAL", "RUNNING", "FINAL", "CANCELED"} /\ state' = state
          /\ ppc = "sweep" /\ ppc' = "push"
      BY <1>1, <1>6 DEF Sweep, AbSweep
    <2>2. AbIInv' /\ TakenSoFar'
      BY <2>1, DeliverKeeps
    <2>3. TypeOK'
      BY <1>1, <1>6, <2>1, <2>2 DEF Sweep, TypeOK, AbIInv, latgenVars
    <2>4. Turns'
      BY <1>1, <2>1 DEF Turns, latgenVars
    <2>5. QED
      BY <2>2, <2>3, <2>4 DEF IInv
  <1>7. CASE FinalizeTable
    <2>1. /\ UNCHANGED <<bufVars, syncVars, latgenVars>> /\ ppc # "stopped"
          /\ MaxArcs - Len(retired) \in Int
          /\ TableFinalizeWithoutExit(frames) \/ TableFinalize(frames, MaxArcs - Len(retired))
          /\ lastExit' \in BOOLEAN
      <3>1. MaxArcs - Len(retired) \in Int
        BY <1>1
      <3>2. /\ UNCHANGED <<bufVars, syncVars, latgenVars>> /\ ppc # "stopped"
            /\ \/ TableFinalizeWithoutExit(frames) /\ lastExit' = FALSE
               \/ TableFinalize(frames, MaxArcs - Len(retired)) /\ lastExit' = TRUE
        BY <1>7 DEF FinalizeTable
      <3>3. QED
        BY <3>1, <3>2
    <2>2. AbIInv' /\ TakenSoFar'
      BY <2>1, TableGrowthKeeps
    <2>3. TypeOK'
      BY <1>1, <1>7, <2>1, <2>2 DEF FinalizeTable, TypeOK, AbIInv, latgenVars
    <2>4. Turns'
      BY <1>1, <1>7 DEF FinalizeTable, Turns, syncVars, latgenVars
    <2>5. QED
      BY <2>2, <2>3, <2>4 DEF IInv
  <1>8. CASE EndUtt
    <2>1. /\ Deliver(bpSf) \/ UNCHANGED <<bufVars, evt>>
          /\ UNCHANGED <<tableVars, arcStart, arcRelease, latgenVars>>
          /\ state' \in {state, "FINAL"}
          /\ ppc = "end" /\ ppc' = "awaiting"
      BY <1>1, <1>8 DEF EndUtt, AbEndUtt
    <2>2. state' \in {"INITIAL", "RUNNING", "FINAL", "CANCELED"} /\ ppc # "stopped"
      BY <1>1, <2>1
    <2>3. AbIInv' /\ TakenSoFar'
      BY <2>1, <2>2, DeliverKeeps
    <2>4. TypeOK'
      BY <1>1, <1>8, <2>1, <2>3 DEF EndUtt, TypeOK, AbIInv, latgenVars
    <2>5. Turns'
      BY <1>1, <2>1 DEF Turns, latgenVars
    <2>6. QED
      BY <2>3, <2>4, <2>5 DEF IInv
  <1>9. CASE AwaitRelease
    <2>1. /\ ppc = "awaiting" /\ arcRelease > 0 /\ arcRelease' = arcRelease - 1 /\ ppc' = "idle"
          /\ UNCHANGED <<tableVars, bufVars, state, arcStart, evt, frames, utt, lastExit, latgenVars>>
      BY <1>9 DEF AwaitRelease
    <2>2. /\ lpc = "start" /\ arcStart = 0 /\ arcRelease = 1
          /\ lpc' = "start" /\ arcStart' = 0 /\ arcRelease' = 0 /\ state' = state /\ evt' = evt
      BY <1>1, <2>1 DEF Turns, latgenVars
    <2>3. AbIInv' /\ AbTypeOK'
      BY <1>1, <1>2, <2>1, <2>2
    <2>4. TypeOK'
      BY <1>1, <2>1, <2>3 DEF TypeOK, latgenVars
    <2>5. Turns'
      BY <1>1, <2>1, <2>2 DEF Turns
    <2>6. TakenSoFar'
      BY <2>2 DEF TakenSoFar, Inside
    <2>7. QED
      BY <2>3, <2>4, <2>5, <2>6 DEF IInv
  <1>10. CASE Shutdown
    <2>1. /\ ppc = "idle" /\ ppc' = "stopped" /\ state' = "CANCELED" /\ arcStart' = arcStart + 1
          /\ UNCHANGED <<tableVars, bufVars, arcRelease, evt, frames, utt, lastExit, latgenVars>>
      BY <1>10 DEF Shutdown, AbShutdown
    <2>2. lpc = "start" /\ lpc' = "start" /\ arcStart' \in Nat /\ arcRelease' = arcRelease /\ evt' = evt
      BY <1>1, <2>1 DEF Turns, latgenVars
    <2>3. AbIInv' /\ AbTypeOK'
      BY <1>1, <1>2, <2>1, <2>2
    <2>4. TypeOK'
      BY <1>1, <2>1, <2>3 DEF TypeOK, latgenVars
    <2>5. Turns'
      BY <2>1, <2>2 DEF Turns
    <2>6. TakenSoFar'
      BY <2>1, <2>2 DEF TakenSoFar, Inside
    <2>7. QED
      BY <2>3, <2>4, <2>5, <2>6 DEF IInv
  <1>11. CASE StartDown
    <2>1. /\ lpc = "start" /\ arcStart > 0 /\ arcStart' = arcStart - 1 /\ arcStart' \in Nat
          /\ lpc' = (IF Canceled THEN "gone" ELSE "wait") /\ frameIdx' = 0 /\ taken' = << >>
          /\ UNCHANGED <<tableVars, bufVars, state, arcRelease, evt, searchVars, ended>>
          /\ state' = state /\ ppc' = ppc /\ arcRelease' = arcRelease /\ evt' = evt
      BY <1>1, <1>11 DEF StartDown, searchVars
    <2>2. /\ AbIInv' /\ AbTypeOK' /\ Held' = Held /\ Swept' = Swept
          /\ activeSf' = activeSf /\ sfBase' = sfBase /\ retired' = retired
      <3>1. arcRelease' \in Nat /\ evt' \in BOOLEAN /\ state' \in {"INITIAL", "RUNNING", "FINAL", "CANCELED"}
        BY <1>1, <2>1
      <3>2. QED
        BY <1>2, <2>1, <3>1
    <2>3. TypeOK'
      BY <1>1, <2>1, <2>2 DEF TypeOK, searchVars
    <2>4. Turns'
      <3>1. ppc # "idle" /\ (Canceled <=> ppc = "stopped")
        BY <1>1, <2>1 DEF Turns, Canceled
      <3>2. QED
        BY <1>1, <2>1, <3>1 DEF Turns, Inside
    <2>5. TakenSoFar'
      <3>1. CASE Canceled
        BY <2>1, <3>1 DEF TakenSoFar, Inside
      <3>2. CASE ~ Canceled
        <4>1. ppc # "stopped" /\ sfBase = 0 /\ Swept \subseteq Held /\ lpc' = "wait"
          BY <1>1, <2>1, <3>2 DEF Turns, Canceled, TakenSoFar
        <4>2. Reached' = 0 /\ DOMAIN taken' = {}
          BY <2>1, <4>1 DEF Reached
        <4>3. \A i \in Swept : ~ (retired[i] < 0)
          BY <1>1 DEF Swept, AbTypeOK
        <4>4. TakenInOrder'
          BY <4>2 DEF TakenInOrder
        <4>5. 0 <= activeSf
          BY <1>1 DEF AbTypeOK
        <4>6. TakenWithin'
          BY <2>1, <2>2, <4>1, <4>2, <4>3, <4>4, <4>5 DEF TakenWithin
        <4>7. QED
          BY <4>1, <4>6 DEF TakenSoFar
      <3>3. QED
        BY <3>1, <3>2
    <2>6. QED
      BY <2>2, <2>3, <2>4, <2>5 DEF IInv
  <1>12. CASE Wait \/ WakeSpuriously
    <2>1. /\ lpc = "wait" /\ lpc' = (IF Canceled THEN "gone" ELSE "grab")
          /\ UNCHANGED <<tableVars, bufVars, state, arcStart, arcRelease, searchVars, frameIdx, taken, ended>>
          /\ evt' \in BOOLEAN
      BY <1>1, <1>12 DEF Wait, WakeSpuriously, AbWait, AbWakeSpuriously, abVars, syncVars
    <2>2. /\ AbIInv' /\ AbTypeOK' /\ Held' = Held /\ Swept' = Swept
          /\ activeSf' = activeSf /\ sfBase' = sfBase /\ retired' = retired
      <3>1. arcStart' \in Nat /\ arcRelease' \in Nat /\ state' \in {"INITIAL", "RUNNING", "FINAL", "CANCELED"}
        BY <1>1, <2>1
      <3>2. QED
        BY <1>2, <2>1, <3>1
    <2>3. ppc # "stopped" /\ ~ Canceled /\ lpc' = "grab" /\ ppc' = ppc
      BY <1>1, <2>1 DEF Turns, Canceled, searchVars
    <2>4. TypeOK'
      BY <1>1, <2>1, <2>2, <2>3 DEF TypeOK, searchVars
    <2>5. Turns'
      BY <1>1, <2>1, <2>3 DEF Turns, Inside
    <2>6. TakenSoFar'
      BY <1>3, <2>1, <2>2, <2>3 DEF Inside
    <2>7. QED
      BY <2>2, <2>4, <2>5, <2>6 DEF IInv
  <1>13. CASE Grab
    BY <1>13, GrabKeeps
  <1>14. CASE Release
    BY <1>14, ReleaseKeeps
  <1>15. CASE TestEou
    <2>1. /\ lpc = "test" /\ lpc' \in {"finish", "wait"}
          /\ UNCHANGED <<tableVars, bufVars, state, arcStart, arcRelease, evt, searchVars, frameIdx, taken, ended>>
      BY <1>15 DEF TestEou, abVars, syncVars
    <2>2. /\ AbIInv' /\ AbTypeOK' /\ Held' = Held /\ Swept' = Swept
          /\ activeSf' = activeSf /\ sfBase' = sfBase /\ retired' = retired
      <3>1. /\ arcStart' \in Nat /\ arcRelease' \in Nat /\ state' \in {"INITIAL", "RUNNING", "FINAL", "CANCELED"}
            /\ evt' \in BOOLEAN
        BY <1>1, <2>1
      <3>2. QED
        BY <1>2, <2>1, <3>1
    <2>3. TypeOK'
      BY <1>1, <2>1, <2>2 DEF TypeOK, searchVars
    <2>4. Turns'
      BY <1>1, <2>1 DEF Turns, Inside, searchVars
    <2>5. TakenSoFar'
      BY <1>3, <2>1, <2>2 DEF Inside
    <2>6. QED
      BY <2>2, <2>3, <2>4, <2>5 DEF IInv
  <1>16. CASE Finish
    <2>1. /\ lpc = "finish" /\ lpc' = "start" /\ arcRelease' = arcRelease + 1 /\ ended' = utt
          /\ UNCHANGED <<tableVars, bufVars, state, arcStart, evt, searchVars, frameIdx, taken>>
          /\ ppc' = ppc
      BY <1>16 DEF Finish, searchVars
    <2>2. arcStart = 0 /\ arcRelease = 0 /\ ppc \in {"push", "sweep", "end", "awaiting"}
      BY <1>1, <2>1 DEF Turns, TypeOK
    <2>3. AbIInv' /\ AbTypeOK'
      <3>1. /\ arcStart' \in Nat /\ arcRelease' \in Nat /\ state' \in {"INITIAL", "RUNNING", "FINAL", "CANCELED"}
            /\ evt' \in BOOLEAN
        BY <1>1, <2>1
      <3>2. QED
        BY <1>2, <2>1, <3>1
    <2>4. TypeOK'
      BY <1>1, <2>1, <2>3 DEF TypeOK, searchVars
    <2>5. Turns'
      BY <1>1, <2>1, <2>2 DEF Turns
    <2>6. TakenSoFar'
      BY <2>1, <2>2 DEF TakenSoFar, Inside
    <2>7. QED
      BY <2>3, <2>4, <2>5, <2>6 DEF IInv
  <1>17. CASE UNCHANGED vars
    <2>1. /\ UNCHANGED <<tableVars, bufVars>> /\ UNCHANGED searchVars /\ UNCHANGED latgenVars
          /\ state' = state /\ arcStart' = arcStart /\ arcRelease' = arcRelease /\ evt' = evt
      BY <1>17 DEF vars, abVars, syncVars
    <2>2. /\ AbIInv' /\ AbTypeOK' /\ Held' = Held /\ Swept' = Swept
          /\ activeSf' = activeSf /\ sfBase' = sfBase /\ retired' = retired
      BY <1>1, <1>2, <2>1
    <2>3. TypeOK'
      BY <1>1, <2>1, <2>2 DEF TypeOK, searchVars, latgenVars
    <2>4. Turns'
      BY <1>1, <2>1 DEF Turns, searchVars, latgenVars
    <2>5. TakenWithin' <=> TakenWithin
      BY <2>1, <2>2 DEF TakenWithin, TakenInOrder, Taken, Reached, latgenVars
    <2>6. TakenSoFar'
      BY <1>1, <2>1, <2>2, <2>5 DEF TakenSoFar, searchVars, latgenVars
    <2>7. QED
      BY <2>2, <2>3, <2>4, <2>6 DEF IInv
  <1>18. QED
    BY <1>4, <1>5, <1>6, <1>7, <1>8, <1>9, <1>10, <1>11, <1>12, <1>13, <1>14, <1>15, <1>16, <1>17
    DEF Next, Search, Latgen, Stopped

LEMMA Invariance == Spec => []IInv
  BY Initially, Inductive, PTL DEF Spec
-----------------------------------------------------------------------------
(* arc_buffer_commit puts the start of each frame where the frame begins,  *)
(* whatever the order in which the table retired its entries and however   *)
(* the commits and releases interleave.                                    *)
THEOREM ArcsAreCut == Spec => []FramesCutTheArcs
  <1>1. IInv => FramesCutTheArcs
    BY DEF IInv, AbIInv, IsSorted, FramesCutTheArcs
  <1>2. QED
    BY <1>1, Invariance, PTL

(* No arc is lost or duplicated by arc_buffer_add_bps, _commit or          *)
(* _consumer_release: each entry swept is in the buffer once or latgen has *)
(* taken it.                                                               *)
THEOREM NoArcLost == Spec => []SweptExactlyOnce
  <1>1. IInv => SweptExactlyOnce
    <2> SUFFICES ASSUME IInv
                 PROVE  SweptExactlyOnce
      OBVIOUS
    <2>1. AbIInv /\ AbTypeOK /\ TakenSoFar /\ arcBase \in Nat
      BY DEF IInv, AbIInv, AbTypeOK
    <2>2. Cardinality(Held) = Cardinality(DOMAIN arcs)
      <3>1. DOMAIN arcs = arcBase .. (ActiveArc - 1) /\ ActiveArc - 1 \in Int
        <4>1. DOMAIN arcs = arcBase .. (ActiveArc - 1)
          BY <2>1 DEF AbTypeOK
        <4>2. ActiveArc \in Nat
          BY <2>1, ActiveArcIsNat DEF AbIInv
        <4>3. QED
          BY <4>1, <4>2
      <3>2. IsFiniteSet(DOMAIN arcs)
        BY <2>1, <3>1, FS_Interval
      <3>3. arcs \in Bijection(DOMAIN arcs, Held)
        <4>1. arcs \in [DOMAIN arcs -> Held]
          BY <2>1 DEF AbTypeOK, Held
        <4>2. \A p, q \in DOMAIN arcs : arcs[p] = arcs[q] => p = q
          BY <2>1 DEF AbIInv
        <4>3. \A i \in Held : \E p \in DOMAIN arcs : arcs[p] = i
          BY DEF Held
        <4>4. QED
          BY <4>1, <4>2, <4>3 DEF Bijection, Injection, Surjection, IsInjective
      <3>4. QED
        BY <3>2, <3>3, FS_Bijection DEF ExistsBijection
    <2>3. Held \subseteq Swept
      BY <2>1, ArcsStart DEF Held, Swept, AbIInv, AbTypeOK
    <2>4. lpc \in Inside => Swept \ Held \subseteq Taken
      BY <2>1 DEF TakenSoFar, TakenWithin
    <2>5. QED
      BY <2>2, <2>3, <2>4 DEF SweptExactlyOnce
  <1>2. QED
    BY <1>1, Invariance, PTL

(* latgen_search_decode takes no arc twice, and those of a frame before    *)
(* those of a later one.                                                   *)
THEOREM OneAfterTheOther == Spec => []TakenInOrder
  <1>1. IInv => TakenInOrder
    BY DEF IInv, TakenSoFar, TakenWithin, TakenInOrder
  <1>2. QED
    BY <1>1, Invariance, PTL
=============================================================================
