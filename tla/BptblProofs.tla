------------------------------ MODULE BptblProofs ------------------------------
(***************************************************************************)
(* Proofs about the backpointer table, for any number of frames, entries   *)
(* and right contexts: through every collection each entry finds its       *)
(* predecessor and its own scores, bptbl_active_sf is a bound, a collection*)
(* retires what its reference says, and every step is one of TableContract.*)
(***************************************************************************)
EXTENDS Bptbl, FiniteSetTheorems, TLAPS

(* An entry, with numbers of any size.                                     *)
EntryRecord ==
  [frame : Nat, bp : Nat \cup {NoBp}, s : Nat, n : Nat, id : Nat, prev : Nat]

Types ==
  /\ ret \in Seq(EntryRecord) /\ ent \in [entBase .. (entNext - 1) -> EntryRecord]
  /\ entBase \in Nat /\ entNext \in Nat /\ Len(ret) <= entBase /\ entBase <= entNext
  /\ efIdx \in [activeFr .. (nFrame - 1) -> Nat]
  /\ activeFr \in Nat /\ nFrame \in Nat /\ activeFr <= nFrame
  /\ oldestBp \in {NoBp} \cup (0 .. (Len(ret) - 1))
  /\ rc \in Seq(Nat) /\ destS \in Nat /\ destS <= Len(rc)
  /\ lo \in Nat \cup {NoBp} /\ entered \in Nat
  /\ pc = "enter" => activeFr < nFrame

(* The first entries of the frames cut the active ones by frame.           *)
FramesCut ==
  /\ EfIdx(activeFr) = entBase
  /\ \A f \in activeFr .. nFrame : EfIdx(f) \in entBase .. entNext
  /\ \A f \in activeFr .. nFrame : \A i \in DOMAIN ent : i >= EfIdx(f) <=> ent[i].frame >= f

(* Retired entries are in the order of their frames, before the active     *)
(* ones.                                                                   *)
RetiredInOrder ==
  /\ \A k \in DOMAIN ret : ret[k].frame < activeFr
  /\ \A j, k \in DOMAIN ret : j <= k => ret[j].frame <= ret[k].frame

(* Retired entries point to retired ones, active ones to these or to an    *)
(* active one of an earlier frame.                                         *)
Pointers ==
  /\ \A k \in DOMAIN ret : ret[k].bp \in {NoBp} \cup (0 .. (Len(ret) - 1))
  /\ \A i \in DOMAIN ent :
       \/ ent[i].bp \in {NoBp} \cup (0 .. (Len(ret) - 1))
       \/ ent[i].bp \in DOMAIN ent /\ ent[ent[i].bp].frame < ent[i].frame

(* The scores of the retired entries end where the next ones will go, those*)
(* of the active ones lie behind, one after the other.                     *)
Scores ==
  /\ \A k \in DOMAIN ret : ret[k].s + ret[k].n <= destS
  /\ \A i \in DOMAIN ent : destS <= ent[i].s /\ ent[i].s + ent[i].n <= Len(rc)
  /\ \A i, j \in DOMAIN ent : i < j => ent[i].s + ent[i].n <= ent[j].s

(* A search whose table has retired something has left the beginning.      *)
HistoriesGoOn == oldestBp # NoBp /\ pc \in {"push", "enter"} => lo >= 0

(* No active entry points behind the oldest one.                           *)
OldestFirst == \A i \in DOMAIN ent : oldestBp <= ent[i].bp

IInv ==
  /\ Types /\ FramesCut /\ RetiredInOrder /\ Pointers /\ Scores /\ HistoriesGoOn /\ OldestFirst
  /\ PredecessorsKept /\ RcIntact
-----------------------------------------------------------------------------
(* Numbers. *)

(* A non-empty set of numbers has a least one: the intervals from 0 to its *)
(* members are finite sets, ordered by inclusion.                          *)
LEMMA LeastNumber ==
  ASSUME NEW S \in SUBSET Nat, S # {}
  PROVE  \E m \in S : \A n \in S : m <= n
  <1> DEFINE Intervals == {0 .. m : m \in S}
             R == StrictSubsetOrdering(Nat)
  <1>1. IsWellFoundedOn(R, FiniteSubsetsOf(Nat))
    BY FS_StrictSubsetOrderingWellFounded
  <1>2. \A m \in S : IsFiniteSet(0 .. m) /\ 0 .. m \in SUBSET Nat
    BY FS_Interval
  <1>3. Intervals \subseteq FiniteSubsetsOf(Nat) /\ Intervals # {}
    BY <1>2 DEF FiniteSubsetsOf
  <1> HIDE DEF R
  <1>4. \E x \in Intervals : \A y \in Intervals : ~ (<<y, x>> \in R)
    <2> HIDE DEF Intervals
    <2>1. QED BY <1>1, <1>3, WFMin
  <1>5. PICK m \in S : \A n \in S : <<0 .. n, 0 .. m>> \notin R
    BY <1>4
  <1>6. ASSUME NEW n \in S, n < m
        PROVE  FALSE
    <2>1. m \in Nat /\ n \in Nat
      OBVIOUS
    <2>2. 0 .. n \subseteq 0 .. m /\ m \in 0 .. m /\ m \notin 0 .. n
      BY <2>1, <1>6
    <2>3. <<0 .. n, 0 .. m>> \in R
      BY <2>1, <2>2, <1>2 DEF R, StrictSubsetOrdering
    <2>4. QED
      BY <2>3, <1>5
  <1>7. QED
    BY <1>6

(* What holds of the first and, with each number, of the next holds of all.*)
LEMMA UpFrom ==
  ASSUME NEW from \in Nat, NEW to \in Nat, NEW S, from \in S,
         \A k \in (from + 1) .. to : k - 1 \in S => k \in S
  PROVE  from .. to \subseteq S
  <1> DEFINE Rest == {k \in from .. to : k \notin S}
  <1> SUFFICES ASSUME Rest # {}
               PROVE  FALSE
    OBVIOUS
  <1>1. Rest \in SUBSET Nat
    OBVIOUS
  <1>2. \E m \in Rest : \A n \in Rest : m <= n
    <2> HIDE DEF Rest
    <2>1. QED BY <1>1, LeastNumber
  <1>3. PICK m \in Rest : \A n \in Rest : m <= n
    BY <1>2
  <1>4. m \in from .. to /\ m \notin S /\ m # from
    OBVIOUS
  <1>5. m \in (from + 1) .. to /\ m - 1 \in from .. to
    BY <1>4
  <1>6. m - 1 \notin Rest
    BY <1>3, <1>4
  <1>7. QED
    BY <1>4, <1>5, <1>6

(* A bounded set of numbers with 0 in it has a greatest, one with a lower  *)
(* bound a least one.                                                      *)
LEMMA Greatest ==
  ASSUME NEW S \in SUBSET Nat, S # {}, NEW b \in Nat, \A n \in S : n <= b
  PROVE  Max(S) \in S /\ \A n \in S : n <= Max(S)
  <1> DEFINE Bounds == {m \in Nat : \A n \in S : n <= m}
  <1>1. Bounds \in SUBSET Nat /\ Bounds # {}
    OBVIOUS
  <1>2. \E m \in Bounds : \A n \in Bounds : m <= n
    <2> HIDE DEF Bounds
    <2>1. QED BY <1>1, LeastNumber
  <1>3. PICK m \in Bounds : \A n \in Bounds : m <= n
    BY <1>2
  <1>4. m \in S
    <2> SUFFICES ASSUME m \notin S
                 PROVE  FALSE
      OBVIOUS
    <2>1. m \in Nat /\ \A n \in S : n \in Nat /\ n <= m /\ n # m
      OBVIOUS
    <2>2. \A n \in S : n <= m - 1
      BY <2>1
    <2>3. m - 1 \in Nat
      <3>1. PICK n \in S : n \in Nat /\ n <= m - 1
        BY <2>1, <2>2
      <3>2. QED
        BY <2>1, <3>1
    <2>4. m - 1 \in Bounds
      BY <2>2, <2>3
    <2>5. QED
      BY <2>1, <2>4, <1>3
  <1>5. \E x \in S : \A y \in S : x >= y
    BY <1>4
  <1>6. \A y \in S : Max(S) \in S /\ Max(S) >= y
    BY <1>5 DEF Max
  <1>7. QED
    BY <1>6

(* A set of numbers that is not empty has a smallest one.                  *)
LEMMA Smallest ==
  ASSUME NEW S \in SUBSET (Nat \cup {-1}), S # {}
  PROVE  Min(S) \in S /\ \A n \in S : Min(S) <= n
  <1>1. \E x \in S : \A y \in S : x <= y
    <2>1. CASE -1 \in S
      BY <2>1
    <2>2. CASE -1 \notin S
      <3>1. S \in SUBSET Nat
        BY <2>2
      <3>2. QED
        BY <3>1, LeastNumber
    <2>3. QED
      BY <2>1, <2>2
  <1>2. QED
    BY <1>1 DEF Min

(* The ranks of the members of K are 0 .. Cardinality(K) - 1, so that each *)
(* member has its place in InOrder(K).                                     *)
Rank(K, i) == Cardinality({j \in K : j < i})

(* Ranks tell the members of a set apart, in their order.                  *)
LEMMA Ranks ==
  ASSUME NEW from \in Nat, NEW to \in Nat, NEW K \in SUBSET (from .. (to - 1))
  PROVE  /\ IsFiniteSet(K) /\ Cardinality(K) \in Nat
         /\ \A i \in Nat : Rank(K, i) \in Nat /\ Rank(K, i) <= Cardinality(K)
         /\ \A i \in K : Rank(K, i) < Cardinality(K)
         /\ \A i, j \in K : i < j => Rank(K, i) < Rank(K, j)
  <1> DEFINE last == to - 1
  <1>1. IsFiniteSet(from .. last)
    <2>1. last \in Int
      OBVIOUS
    <2> HIDE DEF last
    <2>2. QED BY <2>1, FS_Interval
  <1>2. IsFiniteSet(K)
    BY <1>1, FS_Subset
  <1>3. Cardinality(K) \in Nat
    BY <1>2, FS_CardinalityType
  <1>4. ASSUME NEW T \in SUBSET K
        PROVE  IsFiniteSet(T) /\ Cardinality(T) \in Nat /\ Cardinality(T) <= Cardinality(K)
    BY <1>2, FS_Subset, FS_CardinalityType
  <1>5. \A i \in Nat : Rank(K, i) \in Nat /\ Rank(K, i) <= Cardinality(K)
    BY <1>4 DEF Rank
  <1>6. ASSUME NEW i \in K, NEW T \in SUBSET K, {j \in K : j < i} \subseteq T, i \in T
        PROVE  Rank(K, i) < Cardinality(T)
    <2> DEFINE Lower == {j \in K : j < i}
    <2>1. i \in Nat /\ i \notin Lower
      OBVIOUS
    <2>2. IsFiniteSet(Lower) /\ Cardinality(Lower) \in Nat
      BY <1>4
    <2>3. Cardinality(Lower \cup {i}) = Cardinality(Lower) + 1
      <3> HIDE DEF Lower
      <3>1. QED BY <2>1, <2>2, FS_AddElement
    <2>4. Lower \cup {i} \in SUBSET T /\ IsFiniteSet(T) /\ Cardinality(T) \in Nat
      BY <1>4, <1>6
    <2>5. Cardinality(Lower \cup {i}) <= Cardinality(T)
      <3> HIDE DEF Lower
      <3>1. QED BY <2>4, FS_Subset
    <2>6. QED
      BY <2>2, <2>3, <2>4, <2>5 DEF Rank
  <1>7. \A i \in K : Rank(K, i) < Cardinality(K)
    BY <1>6
  <1>8. ASSUME NEW i \in K, NEW j \in K, i < j
        PROVE  Rank(K, i) < Rank(K, j)
    <2>1. i \in Nat /\ j \in Nat
      OBVIOUS
    <2> DEFINE T == {h \in K : h < j}
    <2>2. \A h \in K : h \in Nat
      OBVIOUS
    <2>3. T \in SUBSET K /\ {h \in K : h < i} \subseteq T /\ i \in T
      <3>1. \A h \in K : h < i => h < j
        BY <2>1, <2>2, <1>8
      <3>2. i \in T
        BY <1>8
      <3>3. QED
        BY <3>1, <3>2
    <2>4. Rank(K, j) = Cardinality(T)
      BY DEF Rank
    <2> HIDE DEF T
    <2>5. QED
      BY <2>3, <2>4, <1>6
  <1>9. QED
    BY <1>2, <1>3, <1>5, <1>7, <1>8

(* InOrder lists each member of a set once, at its rank.                   *)
LEMMA OrderIsByRank ==
  ASSUME NEW from \in Nat, NEW to \in Nat, NEW K \in SUBSET (from .. (to - 1))
  PROVE  /\ DOMAIN InOrder(K) = 1 .. Cardinality(K)
         /\ \A k \in 1 .. Cardinality(K) : InOrder(K)[k] \in K /\ Rank(K, InOrder(K)[k]) = k - 1
         /\ \A i \in K : InOrder(K)[Rank(K, i) + 1] = i
         /\ \A k, l \in 1 .. Cardinality(K) : k < l => InOrder(K)[k] < InOrder(K)[l]
  <1> DEFINE n == Cardinality(K)
             rank == [i \in K |-> Rank(K, i)]
  <1>1. n \in Nat /\ IsFiniteSet(K)
    BY Ranks
  <1>2. \A i \in K : i \in Nat /\ rank[i] \in 0 .. (n - 1)
    <2>1. \A i \in K : i \in Nat
      OBVIOUS
    <2>2. \A i \in K : Rank(K, i) \in Nat /\ Rank(K, i) < n
      BY <2>1, Ranks
    <2> HIDE DEF n
    <2>3. QED
      BY <1>1, <2>1, <2>2
  <1>3. \A i, j \in K : rank[i] = rank[j] => i = j
    <2> SUFFICES ASSUME NEW i \in K, NEW j \in K, i # j
                 PROVE  rank[i] # rank[j]
      OBVIOUS
    <2>1. i < j \/ j < i
      BY <1>2
    <2>2. Rank(K, i) < Rank(K, j) \/ Rank(K, j) < Rank(K, i)
      BY <2>1, Ranks
    <2>3. Rank(K, i) \in Nat /\ Rank(K, j) \in Nat
      BY <1>2, Ranks
    <2>4. QED
      BY <2>2, <2>3
  <1>4. rank \in Injection(K, 0 .. (n - 1))
    BY <1>2, <1>3 DEF Injection, IsInjective
  <1>5. IsFiniteSet(0 .. (n - 1)) /\ Cardinality(0 .. (n - 1)) = n
    <2> DEFINE m == n - 1
    <2>1. m \in Int /\ (IF 0 > m THEN 0 ELSE m - 0 + 1) = n
      <3> HIDE DEF n
      <3>1. QED BY <1>1
    <2> HIDE DEF m
    <2>2. IsFiniteSet(0 .. m) /\ Cardinality(0 .. m) = n
      BY <2>1, FS_Interval
    <2>3. QED
      BY <2>2 DEF m
  <1>6. rank \in Surjection(K, 0 .. (n - 1))
    <2> HIDE DEF rank
    <2>1. QED BY <1>4, <1>5, FS_Injection
  <1>7. \A k \in 1 .. n : \E i \in K : Rank(K, i) = k - 1
    <2> SUFFICES ASSUME NEW k \in 1 .. n
                 PROVE  \E i \in K : Rank(K, i) = k - 1
      OBVIOUS
    <2>1. k - 1 \in 0 .. (n - 1)
      <3> HIDE DEF n
      <3>1. QED BY <1>1
    <2>2. PICK i \in K : rank[i] = k - 1
      BY <2>1, <1>6 DEF Surjection
    <2>3. QED
      BY <2>2
  <1>8. \A k \in 1 .. n : InOrder(K)[k] = CHOOSE i \in K : Rank(K, i) = k - 1
    BY DEF InOrder, Rank
  <1>9. \A k \in 1 .. n : InOrder(K)[k] \in K /\ Rank(K, InOrder(K)[k]) = k - 1
    <2> HIDE DEF n
    <2>1. QED BY <1>7, <1>8
  <1>10. \A i \in K : InOrder(K)[Rank(K, i) + 1] = i
    <2> SUFFICES ASSUME NEW i \in K
                 PROVE  InOrder(K)[Rank(K, i) + 1] = i
      OBVIOUS
    <2> DEFINE k == Rank(K, i) + 1
    <2>1. Rank(K, i) \in 0 .. (n - 1)
      BY <1>2
    <2>2. k \in 1 .. n /\ k - 1 = Rank(K, i)
      <3> HIDE DEF n
      <3>1. QED BY <1>1, <2>1
    <2>3. InOrder(K)[k] \in K /\ Rank(K, InOrder(K)[k]) = Rank(K, i)
      BY <1>9, <2>2
    <2>4. QED
      BY <2>3, <1>3
  <1>11. ASSUME NEW k \in 1 .. n, NEW l \in 1 .. n, k < l
         PROVE  InOrder(K)[k] < InOrder(K)[l]
    <2> DEFINE i == InOrder(K)[k]
               j == InOrder(K)[l]
    <2>1. i \in K /\ Rank(K, i) = k - 1 /\ j \in K /\ Rank(K, j) = l - 1
      BY <1>9
    <2>2. k \in Nat /\ l \in Nat /\ i \in Nat /\ j \in Nat
      <3>1. k \in Nat /\ l \in Nat
        <4> HIDE DEF n
        <4>1. QED BY <1>1
      <3>2. QED
        BY <3>1, <2>1, <1>2
    <2> HIDE DEF i, j
    <2>3. ~ (j < i) /\ i # j
      <3>1. CASE j < i
        <4>1. Rank(K, j) < Rank(K, i)
          BY <2>1, <3>1, Ranks
        <4>2. QED
          BY <4>1, <2>1, <2>2, <1>11
      <3>2. CASE i = j
        BY <3>2, <2>1, <2>2, <1>11
      <3>3. QED
        BY <3>1, <3>2
    <2>4. i < j
      BY <2>2, <2>3
    <2>5. QED
      BY <2>4 DEF i, j
  <1>12. DOMAIN InOrder(K) = 1 .. n
    BY DEF InOrder
  <1>13. QED
    BY <1>9, <1>10, <1>11, <1>12
-----------------------------------------------------------------------------
(* The loop that moves the right context scores.                           *)

Loop(c, K, from, to, scores, dest) ==
  [i \in from .. to |->
     IF i = from THEN [rc |-> scores, dest |-> dest] ELSE MoveScores(K, i - 1, c[i - 1])]

(* The loop ends: its rounds define Compaction one after the other.        *)
LEMMA Rounds ==
  ASSUME NEW K, NEW from \in Nat, NEW to \in Nat, from <= to, NEW scores, NEW dest
  PROVE  LET c == Compaction(K, from, to, scores, dest)
         IN  /\ c[from] = [rc |-> scores, dest |-> dest]
             /\ \A i \in (from + 1) .. to : c[i] = MoveScores(K, i - 1, c[i - 1])
  <1> DEFINE S == {k \in from .. to : \E h : h = Loop(h, K, from, k, scores, dest)}
             first == [rc |-> scores, dest |-> dest]
  <1>1. from \in S
    <2> DEFINE h == [i \in from .. from |-> first]
    <2>1. h = Loop(h, K, from, from, scores, dest)
      BY DEF Loop
    <2>2. QED
      BY <2>1
  <1>2. ASSUME NEW k \in (from + 1) .. to, k - 1 \in S
        PROVE  k \in S
    <2>1. PICK h : h = Loop(h, K, from, k - 1, scores, dest)
      BY <1>2
    <2> DEFINE g == [i \in from .. k |-> IF i = k THEN MoveScores(K, k - 1, h[k - 1]) ELSE h[i]]
    <2>2. \A i \in from .. (k - 1) : g[i] = h[i] /\ i \in from .. k
      OBVIOUS
    <2>3. \A i \in from .. (k - 1) : h[i] = IF i = from THEN first ELSE MoveScores(K, i - 1, h[i - 1])
      BY <2>1 DEF Loop
    <2>4. \A i \in from .. k : g[i] = IF i = from THEN first ELSE MoveScores(K, i - 1, g[i - 1])
      <3> SUFFICES ASSUME NEW i \in from .. k
                   PROVE  g[i] = IF i = from THEN first ELSE MoveScores(K, i - 1, g[i - 1])
        OBVIOUS
      <3>1. CASE i = k
        <4>1. k - 1 \in from .. (k - 1) /\ i # from
          BY <3>1
        <4>2. g[k - 1] = h[k - 1]
          BY <4>1, <2>2
        <4>3. QED
          BY <3>1, <4>1, <4>2
      <3>2. CASE i # k
        <4>1. i \in from .. (k - 1) /\ (i # from => i - 1 \in from .. (k - 1))
          BY <3>2
        <4>2. g[i] = h[i] /\ (i # from => g[i - 1] = h[i - 1])
          BY <4>1, <2>2
        <4> HIDE DEF g
        <4>3. QED
          BY <4>1, <4>2, <2>3
      <3>3. QED
        BY <3>1, <3>2
    <2>5. g = [i \in from .. k |-> g[i]]
      OBVIOUS
    <2> HIDE DEF g
    <2>6. g = Loop(g, K, from, k, scores, dest)
      BY <2>4, <2>5 DEF Loop
    <2>7. QED
      BY <2>6
  <1>3. to \in S
    <2> HIDE DEF S
    <2>1. QED BY <1>1, <1>2, UpFrom
  <1>4. PICK h : h = Loop(h, K, from, to, scores, dest)
    BY <1>3
  <1> DEFINE c == Compaction(K, from, to, scores, dest)
  <1>5. c = CHOOSE g : g = Loop(g, K, from, to, scores, dest)
    BY DEF Compaction, Loop
  <1>6. c = Loop(c, K, from, to, scores, dest)
    BY <1>4, <1>5
  <1> HIDE DEF c
  <1>7. \A i \in from .. to : c[i] = IF i = from THEN first ELSE MoveScores(K, i - 1, c[i - 1])
    BY <1>6 DEF Loop
  <1>8. QED
    BY <1>7 DEF c

(* garray_move moves down what it is asked to and touches nothing else.    *)
AreMovedDown(moved, scores, dest, src, n) ==
  /\ moved \in Seq(Nat) /\ Len(moved) = Len(scores)
  /\ \A p \in 1 .. n : moved[dest + p] = scores[src + p]
  /\ \A p \in 1 .. dest : moved[p] = scores[p]
  /\ \A p \in (dest + n + 1) .. Len(scores) : moved[p] = scores[p]

(* garray_move down, where both ends lie in the array.                     *)
LEMMA MovedDown ==
  ASSUME NEW scores \in Seq(Nat), NEW dest \in Nat, NEW src \in Nat, NEW n \in Nat,
         dest <= src, src + n <= Len(scores)
  PROVE  AreMovedDown(Moved(scores, dest, src, n), scores, dest, src, n)
  <1> DEFINE moved == Moved(scores, dest, src, n)
             len == Len(scores)
  <1>1. DOMAIN scores = 1 .. len /\ len \in Nat /\ \A p \in 1 .. len : scores[p] \in Nat
    OBVIOUS
  <1> HIDE DEF len
  <1>2. {dest, src} \subseteq 0 .. (len - n) /\ dest + n <= len /\ src + n <= len
    BY <1>1 DEF len
  <1>3. moved = [p \in 1 .. len |-> IF dest < p /\ p <= dest + n THEN scores[src + p - dest] ELSE scores[p]]
    BY <1>1, <1>2 DEF Moved, len
  <1> HIDE DEF moved
  <1>4. \A p \in 1 .. len : moved[p] \in Nat
    <2> SUFFICES ASSUME NEW p \in 1 .. len
                 PROVE  moved[p] \in Nat
      OBVIOUS
    <2>1. CASE dest < p /\ p <= dest + n
      <3>1. src + p - dest \in 1 .. len
        BY <1>2, <2>1, <1>1
      <3>2. QED
        BY <3>1, <2>1, <1>1, <1>3
    <2>2. CASE ~ (dest < p /\ p <= dest + n)
      BY <2>2, <1>1, <1>3
    <2>3. QED
      BY <2>1, <2>2
  <1>5. moved \in [1 .. len -> Nat]
    BY <1>3, <1>4
  <1>6. moved \in Seq(Nat) /\ Len(moved) = len
    BY <1>1, <1>5
  <1>7. ASSUME NEW p \in 1 .. n
        PROVE  moved[dest + p] = scores[src + p]
    <2>1. dest + p \in 1 .. len /\ dest < dest + p /\ dest + p <= dest + n
          /\ src + (dest + p) - dest = src + p
      BY <1>1, <1>2
    <2>2. QED
      BY <2>1, <1>3
  <1>8. ASSUME NEW p \in 1 .. len, p <= dest \/ dest + n < p
        PROVE  moved[p] = scores[p]
    BY <1>3, <1>8
  <1>9. \A p \in 1 .. dest : p \in 1 .. len /\ p <= dest
    BY <1>1, <1>2
  <1>10. \A p \in (dest + n + 1) .. len : p \in 1 .. len /\ dest + n < p
    BY <1>1
  <1>11. QED
    BY <1>6, <1>7, <1>8, <1>9, <1>10 DEF AreMovedDown, moved, len

(* The scores of the active entries from the i-th on are where these say,  *)
(* none below dest.                                                        *)
InPlace(i, scores, dest) ==
  \A j \in i .. (entNext - 1) :
    /\ dest <= ent[j].s /\ ent[j].s + ent[j].n <= Len(scores)
    /\ \A p \in 1 .. ent[j].n : scores[ent[j].s + p] = ent[j].id

(* The scores of entry j of those moved: not below dest, and in rc before  *)
(* end.                                                                    *)
HasMoved(j, c, i, dest) ==
  /\ c[j].dest \in Nat /\ dest <= c[j].dest /\ c[j].dest + ent[j].n <= c[i].dest
  /\ \A p \in 1 .. ent[j].n : c[i].rc[c[j].dest + p] = ent[j].id

(* Where the loop is when it comes to entry i.                             *)
MovedUpTo(K, from, scores, dest, c, i) ==
  /\ c[i].rc \in Seq(Nat) /\ Len(c[i].rc) = Len(scores)
  /\ c[i].dest \in Nat /\ dest <= c[i].dest /\ c[i].dest <= Len(scores)
  /\ \A p \in 1 .. dest : c[i].rc[p] = scores[p]
  /\ InPlace(i, c[i].rc, c[i].dest)
  /\ \A j \in from .. (i - 1) : j \in K => HasMoved(j, c, i, dest)

(* What the type invariant says of an active entry.                        *)
LEMMA ActiveEntries ==
  ASSUME Types
  PROVE  /\ DOMAIN ent = entBase .. (entNext - 1) /\ entBase \in Nat /\ entNext \in Nat
         /\ \A i \in entBase .. (entNext - 1) :
              /\ i \in Nat /\ ent[i] \in EntryRecord
              /\ ent[i].frame \in Nat /\ ent[i].bp \in Nat \cup {NoBp} /\ ent[i].s \in Nat
              /\ ent[i].n \in Nat /\ ent[i].id \in Nat /\ ent[i].prev \in Nat
  <1>1. ent \in [entBase .. (entNext - 1) -> EntryRecord] /\ entBase \in Nat /\ entNext \in Nat
    BY DEF Types
  <1>2. \A i \in entBase .. (entNext - 1) : i \in Nat /\ ent[i] \in EntryRecord
    BY <1>1
  <1>3. \A e \in EntryRecord :
          /\ e.frame \in Nat /\ e.bp \in Nat \cup {NoBp} /\ e.s \in Nat
          /\ e.n \in Nat /\ e.id \in Nat /\ e.prev \in Nat
    BY DEF EntryRecord
  <1>4. QED
    BY <1>1, <1>2, <1>3

(* What the type invariant says of a retired entry.                        *)
LEMMA RetiredEntries ==
  ASSUME Types
  PROVE  /\ Len(ret) \in Nat /\ DOMAIN ret = 1 .. Len(ret)
         /\ \A k \in DOMAIN ret :
              /\ ret[k] \in EntryRecord
              /\ ret[k].frame \in Nat /\ ret[k].bp \in Nat \cup {NoBp} /\ ret[k].s \in Nat
              /\ ret[k].n \in Nat /\ ret[k].id \in Nat /\ ret[k].prev \in Nat
  <1>1. ret \in Seq(EntryRecord)
    BY DEF Types
  <1>2. Len(ret) \in Nat /\ DOMAIN ret = 1 .. Len(ret) /\ \A k \in DOMAIN ret : ret[k] \in EntryRecord
    BY <1>1
  <1>3. \A e \in EntryRecord :
          /\ e.frame \in Nat /\ e.bp \in Nat \cup {NoBp} /\ e.s \in Nat
          /\ e.n \in Nat /\ e.id \in Nat /\ e.prev \in Nat
    BY DEF EntryRecord
  <1>4. QED
    BY <1>2, <1>3

(* By induction on the rounds of the loop: after each one the scores of    *)
(* the entries before lie where they were moved to, those of the entries   *)
(* behind where they were.                                                 *)
LEMMA ScoresMoveDown ==
  ASSUME Types, Scores, NEW K, NEW from \in Nat, NEW to \in Nat,
         entBase <= from, from <= to, to <= entNext,
         NEW scores \in Seq(Nat), NEW dest \in Nat, dest <= Len(scores),
         InPlace(from, scores, dest)
  PROVE  LET c == Compaction(K, from, to, scores, dest)
         IN  \A i \in from .. to : MovedUpTo(K, from, scores, dest, c, i)
  <1> DEFINE c == Compaction(K, from, to, scores, dest)
             S == {i \in from .. to : MovedUpTo(K, from, scores, dest, c, i)}
  <1>1. /\ c[from] = [rc |-> scores, dest |-> dest]
        /\ \A i \in (from + 1) .. to : c[i] = MoveScores(K, i - 1, c[i - 1])
    BY Rounds
  <1> HIDE DEF c
  <1>2. from \in S
    <2>1. c[from].rc = scores /\ c[from].dest = dest
      BY <1>1
    <2>2. from .. (from - 1) = {} /\ Len(scores) \in Nat
      OBVIOUS
    <2>3. MovedUpTo(K, from, scores, dest, c, from)
      BY <2>1, <2>2 DEF MovedUpTo
    <2>4. QED
      BY <2>3
  <1>3. ASSUME NEW i \in (from + 1) .. to, i - 1 \in S
        PROVE  i \in S
    <2> DEFINE h == i - 1
               oldRc == c[h].rc
               oldDest == c[h].dest
               src == ent[h].s
               num == ent[h].n
               who == ent[h].id
               len == Len(scores)
    <2>1. /\ h \in Nat /\ h \in from .. to /\ h \in entBase .. (entNext - 1) /\ h \in DOMAIN ent
          /\ i \in Nat /\ i = h + 1 /\ h + 1 \in from .. to /\ entNext \in Nat
      BY ActiveEntries
    <2>2. MovedUpTo(K, from, scores, dest, c, h)
      BY <1>3
    <2>3. src \in Nat /\ num \in Nat /\ who \in Nat
      BY <2>1, ActiveEntries
    <2>4. /\ oldRc \in Seq(Nat) /\ Len(oldRc) = len /\ oldDest \in Nat
          /\ dest <= oldDest /\ oldDest <= len /\ len \in Nat
          /\ \A p \in 1 .. dest : oldRc[p] = scores[p]
      BY <2>2 DEF MovedUpTo
    <2>5. InPlace(h, oldRc, oldDest)
      BY <2>2 DEF MovedUpTo
    <2>6. /\ oldDest <= src /\ src + num <= len
          /\ \A p \in 1 .. num : oldRc[src + p] = who
      BY <2>1, <2>4, <2>5 DEF InPlace
    <2>7. \A j \in i .. (entNext - 1) :
            /\ j \in DOMAIN ent /\ j \in h .. (entNext - 1)
            /\ ent[j].s \in Nat /\ ent[j].n \in Nat /\ src + num <= ent[j].s
      <3> SUFFICES ASSUME NEW j \in i .. (entNext - 1)
                   PROVE  /\ j \in DOMAIN ent /\ j \in h .. (entNext - 1)
                          /\ ent[j].s \in Nat /\ ent[j].n \in Nat /\ src + num <= ent[j].s
        OBVIOUS
      <3>1. j \in entBase .. (entNext - 1) /\ j \in h .. (entNext - 1) /\ h < j
        BY <2>1, ActiveEntries
      <3>2. j \in DOMAIN ent /\ ent[j].s \in Nat /\ ent[j].n \in Nat
        BY <3>1, ActiveEntries
      <3>3. src + num <= ent[j].s
        BY <2>1, <3>1, <3>2 DEF Scores
      <3>4. QED
        BY <3>1, <3>2, <3>3
    <2>8. \A j \in i .. (entNext - 1) :
            /\ oldDest <= ent[j].s /\ ent[j].s + ent[j].n <= len
            /\ \A p \in 1 .. ent[j].n : oldRc[ent[j].s + p] = ent[j].id
      BY <2>4, <2>5, <2>7 DEF InPlace
    <2>9. \A j \in from .. (h - 1) : j \in K => HasMoved(j, c, h, dest)
      BY <2>2 DEF MovedUpTo
    <2>10. CASE h \notin K
      <3>1. c[i].rc = oldRc /\ c[i].dest = oldDest
        <4>1. i - 1 \notin K /\ c[i] = MoveScores(K, i - 1, c[i - 1])
          BY <1>1, <2>10
        <4>2. c[i] = c[h]
          BY <4>1 DEF MoveScores
        <4>3. QED
          BY <4>2
      <3>2. InPlace(i, oldRc, oldDest)
        BY <2>4, <2>8 DEF InPlace
      <3>3. \A j \in from .. (i - 1) : j \in K => HasMoved(j, c, i, dest)
        <4>1. \A j \in from .. (i - 1) : j \in K => j \in from .. (h - 1)
          BY <2>1, <2>10
        <4>2. QED
          BY <4>1, <2>9, <3>1 DEF HasMoved
      <3>4. MovedUpTo(K, from, scores, dest, c, i)
        BY <2>4, <3>1, <3>2, <3>3 DEF MovedUpTo
      <3>5. QED
        BY <3>4
    <2>11. CASE h \in K
      <3> DEFINE new == Moved(oldRc, oldDest, src, num)
      <3>1. c[i].rc = new /\ c[i].dest = oldDest + num
        <4>1. i - 1 \in K /\ c[i] = MoveScores(K, i - 1, c[i - 1])
          BY <1>1, <2>11
        <4>2. c[i] = [rc |-> new, dest |-> oldDest + num]
          BY <4>1 DEF MoveScores
        <4> HIDE DEF new
        <4>3. QED
          BY <4>2
      <3>2. /\ new \in Seq(Nat) /\ Len(new) = len
            /\ \A p \in 1 .. num : new[oldDest + p] = oldRc[src + p]
            /\ \A p \in 1 .. oldDest : new[p] = oldRc[p]
            /\ \A p \in (oldDest + num + 1) .. len : new[p] = oldRc[p]
        <4> HIDE DEF oldRc, oldDest, src, num, who, len
        <4>1. src + num <= Len(oldRc) /\ Len(oldRc) = len
          BY <2>4, <2>6
        <4>2. AreMovedDown(new, oldRc, oldDest, src, num)
          BY <2>3, <2>4, <2>6, <4>1, MovedDown
        <4>3. QED
          BY <4>1, <4>2 DEF AreMovedDown
      <3> HIDE DEF new
      <3>3. oldDest + num \in Nat /\ dest <= oldDest + num /\ oldDest + num <= len
        <4> HIDE DEF oldRc, oldDest, src, num, who, len
        <4>1. QED BY <2>3, <2>4, <2>6
      <3>4. \A p \in 1 .. dest : new[p] = scores[p]
        <4> HIDE DEF oldRc, oldDest, src, num, who, len
        <4>1. \A p \in 1 .. dest : p \in 1 .. oldDest
          BY <2>4
        <4>2. QED
          BY <4>1, <3>2, <2>4
      <3>5. ASSUME NEW j \in i .. (entNext - 1)
            PROVE  /\ oldDest + num <= ent[j].s
                   /\ \A p \in 1 .. ent[j].n : new[ent[j].s + p] = ent[j].id
        <4> DEFINE s == ent[j].s
                   n == ent[j].n
        <4>1. s \in Nat /\ n \in Nat /\ src + num <= s /\ s + n <= len
          BY <2>7, <2>8
        <4>2. \A p \in 1 .. n : oldRc[s + p] = ent[j].id
          BY <2>8
        <4> HIDE DEF oldRc, oldDest, src, num, who, len, s, n
        <4>3. oldDest + num <= s
          BY <4>1, <2>3, <2>4, <2>6
        <4>4. \A p \in 1 .. n : s + p \in (oldDest + num + 1) .. len
          BY <4>1, <4>3, <2>3, <2>4
        <4>5. \A p \in 1 .. n : new[s + p] = ent[j].id
          BY <4>2, <4>4, <3>2
        <4>6. QED
          BY <4>3, <4>5 DEF s, n
      <3>6. InPlace(i, new, oldDest + num)
        BY <2>8, <3>2, <3>5 DEF InPlace
      <3>7. ASSUME NEW j \in from .. (i - 1), j \in K
            PROVE  HasMoved(j, c, i, dest)
        <4>1. CASE j = h
          <5>1. /\ c[h].dest \in Nat /\ dest <= c[h].dest /\ c[h].dest + ent[h].n <= c[i].dest
            BY <2>4, <2>3, <3>1
          <5>2. \A p \in 1 .. ent[h].n : c[i].rc[c[h].dest + p] = ent[h].id
            BY <2>6, <3>1, <3>2
          <5>3. QED
            BY <4>1, <5>1, <5>2 DEF HasMoved
        <4>2. CASE j # h
          <5>1. j \in from .. (h - 1) /\ j \in entBase .. (entNext - 1)
            BY <4>2, <2>1, ActiveEntries
          <5>2. HasMoved(j, c, h, dest)
            BY <5>1, <3>7, <2>9
          <5> DEFINE n == ent[j].n
                     d == c[j].dest
          <5>3. n \in Nat /\ d \in Nat /\ dest <= d /\ d + n <= oldDest
                /\ \A p \in 1 .. n : oldRc[d + p] = ent[j].id
            BY <5>1, <5>2, ActiveEntries DEF HasMoved
          <5> HIDE DEF oldRc, oldDest, src, num, who, len, n, d
          <5>4. d + n <= oldDest + num
            BY <5>3, <2>3, <2>4
          <5>5. \A p \in 1 .. n : d + p \in 1 .. oldDest
            BY <5>3, <2>4
          <5>6. \A p \in 1 .. n : new[d + p] = ent[j].id
            BY <5>3, <5>5, <3>2
          <5>7. QED
            BY <5>3, <5>4, <5>6, <3>1 DEF HasMoved, n, d
        <4>3. QED
          BY <4>1, <4>2
      <3>8. MovedUpTo(K, from, scores, dest, c, i)
        BY <3>1, <3>2, <3>3, <3>4, <3>6, <3>7 DEF MovedUpTo
      <3>9. QED
        BY <3>8
    <2>12. QED
      BY <2>10, <2>11
  <1>4. from .. to \subseteq S
    <2> HIDE DEF S
    <2>1. QED BY <1>2, <1>3, UpFrom
  <1>5. QED
    BY <1>4 DEF c
-----------------------------------------------------------------------------
(* What bptbl_mark finds. *)

(* The frames cut the active entries: those of a frame are its exits.      *)
LEMMA ExitsByFrame ==
  ASSUME Types, FramesCut
  PROVE  /\ DOMAIN ent = Exits(activeFr, nFrame) /\ EfIdx(nFrame) = entNext
         /\ \A i \in DOMAIN ent : ent[i].frame \in activeFr .. (nFrame - 1)
         /\ \A f \in activeFr .. (nFrame - 1) :
              Exits(f, f + 1) = {i \in DOMAIN ent : ent[i].frame = f}
         /\ \A f \in activeFr .. nFrame :
              /\ EfIdx(f) \in Nat /\ entBase <= EfIdx(f) /\ EfIdx(f) <= entNext
              /\ Exits(f, nFrame) = {i \in DOMAIN ent : ent[i].frame >= f}
         /\ \A i, j \in DOMAIN ent : i <= j => ent[i].frame <= ent[j].frame
  <1>1. /\ activeFr \in Nat /\ nFrame \in Nat /\ activeFr <= nFrame
        /\ entBase \in Nat /\ entNext \in Nat /\ DOMAIN ent = entBase .. (entNext - 1)
    BY DEF Types
  <1>2. EfIdx(nFrame) = entNext /\ EfIdx(activeFr) = entBase
    BY <1>1 DEF EfIdx, FramesCut
  <1>3. \A f \in activeFr .. nFrame :
          EfIdx(f) \in Nat /\ entBase <= EfIdx(f) /\ EfIdx(f) <= entNext
    BY <1>1 DEF FramesCut
  <1>4. \A i \in DOMAIN ent : i \in Nat /\ ent[i].frame \in Nat
    BY <1>1, ActiveEntries
  <1>5. \A f \in activeFr .. nFrame : \A i \in DOMAIN ent : i >= EfIdx(f) <=> ent[i].frame >= f
    BY DEF FramesCut
  <1>6. \A i \in DOMAIN ent : ent[i].frame \in activeFr .. (nFrame - 1)
    <2> SUFFICES ASSUME NEW i \in DOMAIN ent
                 PROVE  ent[i].frame \in activeFr .. (nFrame - 1)
      OBVIOUS
    <2>1. i >= EfIdx(activeFr) /\ ~ (i >= EfIdx(nFrame))
      BY <1>1, <1>2
    <2>2. ent[i].frame >= activeFr /\ ~ (ent[i].frame >= nFrame)
      BY <1>1, <1>5, <2>1
    <2>3. QED
      BY <1>1, <1>4, <2>2
  <1>7. ASSUME NEW f \in activeFr .. (nFrame - 1)
        PROVE  Exits(f, f + 1) = {i \in DOMAIN ent : ent[i].frame = f}
    <2>1. f \in activeFr .. nFrame /\ f + 1 \in activeFr .. nFrame /\ f \in Nat
      BY <1>1
    <2>2. \A i \in DOMAIN ent : i \in Exits(f, f + 1) <=> i >= EfIdx(f) /\ ~ (i >= EfIdx(f + 1))
      <3>1. EfIdx(f) \in Nat /\ EfIdx(f + 1) \in Nat
        BY <1>3, <2>1
      <3>2. QED
        BY <3>1, <1>4 DEF Exits
    <2>3. \A i \in DOMAIN ent : i \in Exits(f, f + 1) <=> ent[i].frame = f
      BY <1>4, <1>5, <2>1, <2>2
    <2>4. Exits(f, f + 1) \subseteq DOMAIN ent
      <3>1. EfIdx(f) \in Nat /\ EfIdx(f + 1) \in Nat /\ entBase <= EfIdx(f) /\ EfIdx(f + 1) <= entNext
        BY <1>3, <2>1
      <3>2. QED
        BY <3>1, <1>1 DEF Exits
    <2>5. QED
      BY <2>3, <2>4
  <1>8. ASSUME NEW f \in activeFr .. nFrame
        PROVE  Exits(f, nFrame) = {i \in DOMAIN ent : ent[i].frame >= f}
    <2>1. EfIdx(f) \in Nat /\ entBase <= EfIdx(f)
      BY <1>3
    <2>2. Exits(f, nFrame) = {i \in DOMAIN ent : i >= EfIdx(f)}
      BY <1>1, <1>2, <2>1 DEF Exits
    <2>3. QED
      BY <2>2, <1>5
  <1>9. ASSUME NEW i \in DOMAIN ent, NEW j \in DOMAIN ent, i <= j
        PROVE  ent[i].frame <= ent[j].frame
    <2> DEFINE f == ent[i].frame
    <2>1. f \in activeFr .. nFrame /\ f \in Nat
      BY <1>1, <1>6
    <2>2. i >= EfIdx(f)
      BY <1>5, <2>1
    <2>3. j >= EfIdx(f)
      BY <2>1, <2>2, <1>3, <1>4, <1>9
    <2>4. ent[j].frame >= f
      BY <1>5, <2>1, <2>3
    <2>5. QED
      BY <2>1, <2>4, <1>4
  <1>10. DOMAIN ent = Exits(activeFr, nFrame)
    BY <1>1, <1>2 DEF Exits
  <1>11. QED
    BY <1>2, <1>3, <1>6, <1>7, <1>8, <1>9, <1>10

MarkLoop(pass, first, last) ==
  [k \in 0 .. last |-> IF k = 0 THEN first ELSE MarkPass(pass[k - 1])]

FirstPass(ef, cf) == [set |-> PredecessorFrames(Exits(ef, cf)), last |-> ef - 1, marked |-> {}]

(* The passes define Marked one after the other.                           *)
LEMMA Passes ==
  ASSUME NEW ef \in Nat, NEW cf
  PROVE  \E pass : /\ pass[0] = FirstPass(ef, cf)
                   /\ \A k \in 1 .. ef : pass[k] = MarkPass(pass[k - 1])
                   /\ Marked(ef, cf) = pass[ef].marked
  <1> DEFINE first == FirstPass(ef, cf)
             S == {k \in 0 .. ef : \E h : h = MarkLoop(h, first, k)}
  <1>1. 0 \in S
    <2> DEFINE h == [k \in 0 .. 0 |-> first]
    <2>1. h = MarkLoop(h, first, 0)
      BY DEF MarkLoop
    <2>2. QED
      BY <2>1
  <1>2. ASSUME NEW k \in (0 + 1) .. ef, k - 1 \in S
        PROVE  k \in S
    <2>1. PICK h : h = MarkLoop(h, first, k - 1)
      BY <1>2
    <2> DEFINE g == [i \in 0 .. k |-> IF i = k THEN MarkPass(h[k - 1]) ELSE h[i]]
    <2>2. \A i \in 0 .. (k - 1) : g[i] = h[i] /\ i \in 0 .. k
      OBVIOUS
    <2>3. \A i \in 0 .. (k - 1) : h[i] = IF i = 0 THEN first ELSE MarkPass(h[i - 1])
      BY <2>1 DEF MarkLoop
    <2>4. \A i \in 0 .. k : g[i] = IF i = 0 THEN first ELSE MarkPass(g[i - 1])
      <3> SUFFICES ASSUME NEW i \in 0 .. k
                   PROVE  g[i] = IF i = 0 THEN first ELSE MarkPass(g[i - 1])
        OBVIOUS
      <3>1. CASE i = k
        <4>1. k - 1 \in 0 .. (k - 1) /\ i # 0
          BY <3>1
        <4>2. g[k - 1] = h[k - 1]
          BY <4>1, <2>2
        <4>3. QED
          BY <3>1, <4>1, <4>2
      <3>2. CASE i # k
        <4>1. i \in 0 .. (k - 1) /\ (i # 0 => i - 1 \in 0 .. (k - 1))
          BY <3>2
        <4>2. g[i] = h[i] /\ (i # 0 => g[i - 1] = h[i - 1])
          BY <4>1, <2>2
        <4> HIDE DEF g
        <4>3. QED
          BY <4>1, <4>2, <2>3
      <3>3. QED
        BY <3>1, <3>2
    <2>5. g = [i \in 0 .. k |-> g[i]]
      OBVIOUS
    <2> HIDE DEF g
    <2>6. g = MarkLoop(g, first, k)
      BY <2>4, <2>5 DEF MarkLoop
    <2>7. QED
      BY <2>6
  <1>3. ef \in S
    <2> HIDE DEF S
    <2>1. 0 .. ef \subseteq S
      BY <1>1, <1>2, UpFrom
    <2>2. QED
      BY <2>1
  <1>4. PICK h : h = MarkLoop(h, first, ef)
    BY <1>3
  <1> DEFINE c == CHOOSE g : g = MarkLoop(g, first, ef)
  <1>5. Marked(ef, cf) = c[ef].marked
    BY DEF Marked, MarkLoop, FirstPass
  <1>6. c = MarkLoop(c, first, ef)
    BY <1>4
  <1> HIDE DEF c
  <1>7. \A k \in 0 .. ef : c[k] = IF k = 0 THEN first ELSE MarkPass(c[k - 1])
    BY <1>6 DEF MarkLoop
  <1>8. c[0] = first /\ \A k \in 1 .. ef : c[k] = MarkPass(c[k - 1])
    BY <1>7
  <1>9. QED
    BY <1>5, <1>8

(* Where the predecessor of an active entry is. *)
LEMMA Predecessor ==
  ASSUME Types, FramesCut, RetiredInOrder, Pointers, NEW i \in DOMAIN ent
  PROVE  /\ EndFrame(ent[i].bp) \in Int
         /\ ent[i].bp \in DOMAIN ent =>
              EndFrame(ent[i].bp) = ent[ent[i].bp].frame /\ ent[ent[i].bp].frame < ent[i].frame
         /\ ent[i].bp \notin DOMAIN ent => EndFrame(ent[i].bp) < activeFr
  <1> DEFINE bp == ent[i].bp
  <1>1. DOMAIN ent = entBase .. (entNext - 1) /\ entBase \in Nat /\ activeFr \in Nat
    BY ActiveEntries DEF Types
  <1>2. CASE bp = NoBp
    <2>1. EndFrame(bp) = -1 /\ bp \notin DOMAIN ent
      BY <1>1, <1>2 DEF EndFrame, NoBp
    <2>2. QED
      BY <1>1, <2>1
  <1>3. CASE bp \in 0 .. (Len(ret) - 1)
    <2>1. Len(ret) <= entBase /\ Len(ret) \in Nat
      BY DEF Types
    <2>2. bp \in Nat /\ bp < entBase /\ bp # NoBp /\ bp \notin DOMAIN ent /\ bp + 1 \in DOMAIN ret
      BY <1>1, <1>3, <2>1 DEF NoBp
    <2>3. EndFrame(bp) = ret[bp + 1].frame
      BY <2>2 DEF EndFrame, Entry
    <2>4. ret[bp + 1].frame < activeFr
      BY <2>2 DEF RetiredInOrder
    <2>5. ret[bp + 1].frame \in Nat
      BY <2>2, RetiredEntries
    <2>6. QED
      BY <2>2, <2>3, <2>4, <2>5
  <1>4. CASE bp \in DOMAIN ent /\ ent[bp].frame < ent[i].frame
    <2>1. bp \in Nat /\ ~ (bp < entBase) /\ bp # NoBp
      BY <1>1, <1>4 DEF NoBp
    <2>2. EndFrame(bp) = ent[bp].frame
      BY <2>1 DEF EndFrame, Entry
    <2>3. ent[bp].frame \in Nat
      BY <1>1, <1>4, ActiveEntries
    <2>4. QED
      BY <1>4, <2>2, <2>3
  <1>5. QED
    BY <1>2, <1>3, <1>4 DEF Pointers

(* What holds after k passes of bptbl_mark for the frames from ef on: the  *)
(* predecessors of what is marked, and of what is in these frames, are     *)
(* marked or set, and the frames set lie further and further back.         *)
PassKept(p, k, ef) ==
  /\ \A f \in p.set : f \in Nat /\ activeFr <= f /\ (f < ef => f <= p.last /\ f + k < ef)
  /\ p.last \in Int /\ p.last < ef
  /\ \A f \in p.marked : f \in activeFr .. (ef - 1)
  /\ PredecessorFrames(Exits(ef, nFrame)) \subseteq p.marked \cup p.set
  /\ PredecessorFrames(UNION {Exits(f, f + 1) : f \in p.marked}) \subseteq p.marked \cup p.set

(* A pass of bptbl_mark keeps this.                                        *)
LEMMA PassKeeps ==
  ASSUME Types, FramesCut, RetiredInOrder, Pointers, NEW ef \in activeFr .. nFrame,
         NEW k \in 1 .. ef, NEW p, PassKept(p, k - 1, ef)
  PROVE  PassKept(MarkPass(p), k, ef)
  <1> DEFINE here == {f \in p.set : f <= p.last}
             there == UNION {Exits(f, f + 1) : f \in here}
             back == PredecessorFrames(there)
             set == (p.set \ here) \cup back
             last == NextGcFr(back)
             marked == p.marked \cup here
             marks == UNION {Exits(f, f + 1) : f \in p.marked}
  <1>1. MarkPass(p) = [set |-> set, last |-> last, marked |-> marked]
    BY DEF MarkPass
  <1>2. /\ activeFr \in Nat /\ nFrame \in Nat /\ ef \in Nat /\ k \in Nat
        /\ 1 <= k /\ k <= ef /\ activeFr <= ef /\ ef <= nFrame
    BY DEF Types
  <1>3. \A f \in p.set : f \in Nat /\ activeFr <= f /\ (f < ef => f <= p.last /\ f + (k - 1) < ef)
    BY DEF PassKept
  <1>4. p.last \in Int /\ p.last < ef
    BY DEF PassKept
  <1>5. \A f \in here : f \in p.set /\ f \in activeFr .. (ef - 1) /\ f \in Nat /\ f + (k - 1) < ef
    BY <1>2, <1>3, <1>4
  <1> HIDE DEF here
  <1>6. \A i \in there : i \in DOMAIN ent /\ ent[i].frame \in here
    <2> SUFFICES ASSUME NEW i \in there
                 PROVE  i \in DOMAIN ent /\ ent[i].frame \in here
      OBVIOUS
    <2>1. PICK f \in here : i \in Exits(f, f + 1)
      OBVIOUS
    <2>2. f \in activeFr .. (nFrame - 1)
      BY <1>2, <1>5
    <2>3. Exits(f, f + 1) = {j \in DOMAIN ent : ent[j].frame = f}
      BY <2>2, ExitsByFrame
    <2>4. QED
      BY <2>1, <2>3
  <1> HIDE DEF there
  <1>7. \A f \in back : f \in Nat /\ activeFr <= f /\ f + k < ef
    <2> SUFFICES ASSUME NEW f \in back
                 PROVE  f \in Nat /\ activeFr <= f /\ f + k < ef
      OBVIOUS
    <2>1. PICK i \in there : f = EndFrame(ent[i].bp) /\ f >= activeFr
      BY DEF PredecessorFrames
    <2>2. i \in DOMAIN ent /\ ent[i].frame \in here
      BY <1>6
    <2>3. EndFrame(ent[i].bp) \in Int
      BY <2>2, Predecessor
    <2>4. ent[i].bp \in DOMAIN ent
      BY <1>2, <2>1, <2>2, <2>3, Predecessor
    <2>5. f = ent[ent[i].bp].frame /\ ent[ent[i].bp].frame < ent[i].frame
      BY <2>1, <2>2, <2>4, Predecessor
    <2> DEFINE g == ent[i].frame
    <2>6. g \in Nat /\ g + (k - 1) < ef /\ f < g
      BY <1>5, <2>2, <2>5
    <2> HIDE DEF g
    <2>7. QED
      BY <1>2, <2>1, <2>3, <2>6
  <1> HIDE DEF back
  <1>8. last \in Int /\ last < ef /\ \A f \in back : f <= last
    <2> DEFINE T == back \cup {0}
    <2>1. T \in SUBSET Nat /\ T # {} /\ ef - 1 \in Nat /\ \A f \in T : f <= ef - 1
      BY <1>2, <1>7
    <2>2. last = Max(T)
      BY DEF NextGcFr
    <2> HIDE DEF T, last
    <2>3. Max(T) \in T /\ \A f \in T : f <= Max(T)
      <3> DEFINE b == ef - 1
      <3>1. b \in Nat /\ \A f \in T : f <= b
        BY <2>1
      <3> HIDE DEF b
      <3>2. QED
        BY <2>1, <3>1, Greatest
    <2>4. last \in Int /\ last < ef
      <3>1. last \in T
        BY <2>2, <2>3
      <3>2. last \in Nat /\ last <= ef - 1
        BY <2>1, <3>1
      <3>3. QED
        BY <1>2, <3>2
    <2>5. QED
      BY <2>2, <2>3, <2>4 DEF T
  <1> HIDE DEF last
  <1>9. \A f \in set : f \in Nat /\ activeFr <= f /\ (f < ef => f <= last /\ f + k < ef)
    <2> SUFFICES ASSUME NEW f \in set
                 PROVE  f \in Nat /\ activeFr <= f /\ (f < ef => f <= last /\ f + k < ef)
      OBVIOUS
    <2>1. CASE f \in back
      BY <1>7, <1>8, <2>1
    <2>2. CASE f \in p.set /\ f \notin here
      <3>1. f \in Nat /\ activeFr <= f /\ ~ (f <= p.last)
        BY <1>3, <2>2 DEF here
      <3>2. ~ (f < ef)
        BY <1>3, <2>2, <3>1
      <3>3. QED
        BY <3>1, <3>2
    <2>3. QED
      BY <2>1, <2>2
  <1>10. \A f \in marked : f \in activeFr .. (ef - 1)
    <2>1. \A f \in p.marked : f \in activeFr .. (ef - 1)
      BY DEF PassKept
    <2>2. QED
      BY <1>5, <2>1
  <1>11. p.marked \cup p.set \subseteq marked \cup set
    OBVIOUS
  <1>12. PredecessorFrames(Exits(ef, nFrame)) \subseteq marked \cup set
    <2>1. PredecessorFrames(Exits(ef, nFrame)) \subseteq p.marked \cup p.set
      BY DEF PassKept
    <2> HIDE DEF marked, set
    <2>2. QED
      BY <1>11, <2>1
  <1>13. PredecessorFrames(UNION {Exits(f, f + 1) : f \in marked}) \subseteq marked \cup set
    <2>1. PredecessorFrames(marks) \subseteq p.marked \cup p.set
      BY DEF PassKept
    <2>2. UNION {Exits(f, f + 1) : f \in marked} = marks \cup there
      BY DEF there
    <2> HIDE DEF marks
    <2>3. PredecessorFrames(marks \cup there) = PredecessorFrames(marks) \cup back
      BY DEF PredecessorFrames, back
    <2>4. back \subseteq set
      OBVIOUS
    <2> HIDE DEF marked, set
    <2>5. QED
      BY <1>11, <2>1, <2>2, <2>3, <2>4
  <1> HIDE DEF set, marked
  <1>14. QED
    BY <1>1, <1>8, <1>9, <1>10, <1>12, <1>13 DEF PassKept

(* What a collection keeps: entries before those of frame ef, and with an  *)
(* entry, or one from frame ef on, its predecessor.                        *)
Closed(K, eidx) ==
  /\ \A i \in K : i \in entBase .. (eidx - 1) /\ i \in DOMAIN ent
  /\ \A i \in K : ent[i].bp \in DOMAIN ent => ent[i].bp \in K
  /\ \A i \in eidx .. (entNext - 1) :
       ent[i].bp \in DOMAIN ent => ent[i].bp \in K \cup (eidx .. (entNext - 1))

(* What the passes of bptbl_mark keep, up to the last.                     *)
LEMMA PassesKeep ==
  ASSUME Types, FramesCut, RetiredInOrder, Pointers, NEW ef \in activeFr .. nFrame
  PROVE  \E pass : /\ pass[0] = FirstPass(ef, nFrame)
                   /\ \A k \in 1 .. ef : pass[k] = MarkPass(pass[k - 1])
                   /\ \A k \in 0 .. ef : PassKept(pass[k], k, ef)
                   /\ Marked(ef, nFrame) = pass[ef].marked
  <1>1. activeFr \in Nat /\ nFrame \in Nat /\ ef \in Nat /\ activeFr <= ef /\ ef <= nFrame
    BY DEF Types
  <1>2. PICK pass : /\ pass[0] = FirstPass(ef, nFrame)
                    /\ \A k \in 1 .. ef : pass[k] = MarkPass(pass[k - 1])
                    /\ Marked(ef, nFrame) = pass[ef].marked
    BY <1>1, Passes
  <1> DEFINE S == {k \in 0 .. ef : PassKept(pass[k], k, ef)}
             first == PredecessorFrames(Exits(ef, nFrame))
  <1>3. \A f \in first : f \in Nat /\ activeFr <= f
    <2> SUFFICES ASSUME NEW f \in first
                 PROVE  f \in Nat /\ activeFr <= f
      OBVIOUS
    <2>1. PICK i \in Exits(ef, nFrame) : f = EndFrame(ent[i].bp) /\ f >= activeFr
      BY DEF PredecessorFrames
    <2>2. i \in DOMAIN ent
      BY <2>1, ExitsByFrame
    <2>3. f \in Int
      BY <2>1, <2>2, Predecessor
    <2>4. QED
      BY <1>1, <2>1, <2>3
  <1>4. 0 \in S
    <2>1. pass[0].set = first /\ pass[0].last = ef - 1 /\ pass[0].marked = {}
      BY <1>2 DEF FirstPass
    <2>2. \A f \in first : f < ef => f <= ef - 1 /\ f + 0 < ef
      BY <1>1, <1>3
    <2>3. PredecessorFrames(UNION {Exits(f, f + 1) : f \in {}}) = {}
      BY DEF PredecessorFrames
    <2> HIDE DEF first
    <2>4. PassKept(pass[0], 0, ef)
      BY <1>1, <1>3, <2>1, <2>2, <2>3 DEF PassKept, first
    <2>5. QED
      BY <1>1, <2>4
  <1>5. \A k \in (0 + 1) .. ef : k - 1 \in S => k \in S
    <2> SUFFICES ASSUME NEW k \in 1 .. ef, PassKept(pass[k - 1], k - 1, ef)
                 PROVE  PassKept(pass[k], k, ef)
      OBVIOUS
    <2>1. QED
      BY <1>2, PassKeeps
  <1>6. 0 .. ef \subseteq S
    <2> HIDE DEF S
    <2>1. QED BY <1>1, <1>4, <1>5, UpFrom
  <1>7. QED
    BY <1>2, <1>6

(* When the passes end, no entry that survives points to one that does     *)
(* not.                                                                    *)
LEMMA SurvivorsClosed ==
  ASSUME Types, FramesCut, RetiredInOrder, Pointers, NEW ef \in activeFr .. nFrame
  PROVE  Closed(Survivors(ef, nFrame), EfIdx(ef))
  <1> DEFINE K == Survivors(ef, nFrame)
             eidx == EfIdx(ef)
             marked == Marked(ef, nFrame)
  <1>1. activeFr \in Nat /\ nFrame \in Nat /\ ef \in Nat /\ activeFr <= ef /\ ef <= nFrame
    BY DEF Types
  <1>2. PICK pass : PassKept(pass[ef], ef, ef) /\ marked = pass[ef].marked
    <2>1. ef \in 0 .. ef
      BY <1>1
    <2>2. QED
      BY <2>1, PassesKeep
  <1> DEFINE first == PredecessorFrames(Exits(ef, nFrame))
  <1> DEFINE set == pass[ef].set
  <1>3. \A f \in set : f \in Nat /\ ~ (f < ef)
    BY <1>1, <1>2 DEF PassKept
  <1>4. \A f \in marked : f \in activeFr .. (ef - 1) /\ f \in activeFr .. (nFrame - 1)
    BY <1>1, <1>2 DEF PassKept
  <1>5. first \subseteq marked \cup set
    BY <1>2 DEF PassKept
  <1>6. PredecessorFrames(K) \subseteq marked \cup set
    BY <1>2 DEF PassKept, Survivors
  <1> HIDE DEF set, first, marked
  <1>7. \A i : i \in K <=> i \in DOMAIN ent /\ ent[i].frame \in marked
    <2>1. \A f \in marked : Exits(f, f + 1) = {i \in DOMAIN ent : ent[i].frame = f}
      BY <1>4, ExitsByFrame
    <2>2. \A i : i \in K <=> \E f \in marked : i \in Exits(f, f + 1)
      BY DEF Survivors, marked
    <2> HIDE DEF K
    <2>3. QED
      BY <2>1, <2>2
  <1>8. /\ eidx \in Nat /\ entBase <= eidx /\ eidx <= entNext /\ entNext \in Nat /\ entBase \in Nat
         /\ DOMAIN ent = entBase .. (entNext - 1)
         /\ eidx .. (entNext - 1) = {i \in DOMAIN ent : ent[i].frame >= ef}
    <2>1. Exits(ef, nFrame) = eidx .. (entNext - 1)
      BY ExitsByFrame DEF Exits
    <2>2. QED
      BY <2>1, ExitsByFrame, ActiveEntries
  <1>9. \A i \in DOMAIN ent : i \in Nat /\ ent[i].frame \in Nat
    BY <1>8, ActiveEntries
  <1> HIDE DEF eidx
  <1>10. \A i \in K : i \in entBase .. (eidx - 1) /\ i \in DOMAIN ent
    <2> SUFFICES ASSUME NEW i \in K
                 PROVE  i \in entBase .. (eidx - 1) /\ i \in DOMAIN ent
      OBVIOUS
    <2>1. i \in DOMAIN ent /\ ent[i].frame \in activeFr .. (ef - 1)
      BY <1>4, <1>7
    <2>2. i \notin eidx .. (entNext - 1)
      <3>1. ~ (ent[i].frame >= ef)
        BY <1>1, <2>1
      <3>2. QED
        BY <3>1, <1>8
    <2>3. QED
      BY <1>8, <2>1, <2>2
  <1>11. ASSUME NEW i \in DOMAIN ent, ent[i].bp \in DOMAIN ent,
                EndFrame(ent[i].bp) \in marked \cup set
         PROVE  ent[i].bp \in K \cup (eidx .. (entNext - 1))
    <2> DEFINE bp == ent[i].bp
               f == ent[bp].frame
    <2>1. f \in marked \cup set
      BY <1>11, Predecessor
    <2>2. CASE f \in marked
      BY <1>7, <1>11, <2>2
    <2>3. CASE f \in set
      <3>1. f >= ef
        BY <1>1, <1>3, <2>3
      <3>2. QED
        BY <3>1, <1>8, <1>11
    <2>4. QED
      BY <2>1, <2>2, <2>3
  <1>12. ASSUME NEW T, NEW i \in T, i \in DOMAIN ent, ent[i].bp \in DOMAIN ent
         PROVE  EndFrame(ent[i].bp) \in PredecessorFrames(T)
    <2>1. EndFrame(ent[i].bp) = ent[ent[i].bp].frame /\ ent[ent[i].bp].frame \in activeFr .. (nFrame - 1)
      BY <1>12, Predecessor, ExitsByFrame
    <2>2. EndFrame(ent[i].bp) >= activeFr
      BY <1>1, <2>1
    <2>3. QED
      BY <2>2 DEF PredecessorFrames
  <1>13. ASSUME NEW i \in K, ent[i].bp \in DOMAIN ent
         PROVE  ent[i].bp \in K
    <2> HIDE DEF K
    <2>1. i \in DOMAIN ent /\ ent[i].frame \in activeFr .. (ef - 1) /\ ent[i].frame \in Nat
      BY <1>4, <1>7, <1>9, <1>13
    <2>2. ent[i].bp \in K \cup (eidx .. (entNext - 1))
      BY <1>6, <1>11, <1>12, <1>13, <2>1
    <2>3. ent[ent[i].bp].frame < ent[i].frame /\ ent[ent[i].bp].frame \in Nat
      BY <1>9, <1>13, <2>1, Predecessor
    <2> DEFINE f == ent[ent[i].bp].frame
               g == ent[i].frame
    <2>4. ~ (f >= ef)
      <3>1. f \in Nat /\ g \in activeFr .. (ef - 1) /\ f < g
        BY <2>1, <2>3
      <3> HIDE DEF f, g
      <3>2. QED
        BY <3>1, <1>1
    <2>5. ent[i].bp \notin eidx .. (entNext - 1)
      BY <2>4, <1>8
    <2>6. QED
      BY <2>2, <2>5
  <1>14. ASSUME NEW i \in eidx .. (entNext - 1), ent[i].bp \in DOMAIN ent
         PROVE  ent[i].bp \in K \cup (eidx .. (entNext - 1))
    <2>1. i \in DOMAIN ent /\ i \in Exits(ef, nFrame)
      <3>1. Exits(ef, nFrame) = eidx .. (entNext - 1)
        BY ExitsByFrame DEF Exits, eidx
      <3>2. QED
        BY <3>1, <1>8, <1>14
    <2>2. EndFrame(ent[i].bp) \in first
      BY <2>1, <1>12, <1>14 DEF first
    <2>3. QED
      BY <2>1, <2>2, <1>5, <1>11, <1>14
  <1>15. QED
    <2> HIDE DEF K
    <2>1. Closed(K, eidx)
      BY <1>10, <1>13, <1>14 DEF Closed
    <2>2. QED
      BY <2>1 DEF K, eidx
-----------------------------------------------------------------------------
(* What a collection does to the scores. *)

(* A prefix of an array.                                                   *)
LEMMA Prefix ==
  ASSUME NEW scores \in Seq(Nat), NEW n \in 0 .. Len(scores)
  PROVE  /\ SubSeq(scores, 1, n) \in Seq(Nat) /\ Len(SubSeq(scores, 1, n)) = n
         /\ \A p \in 1 .. n : SubSeq(scores, 1, n)[p] = scores[p]
  <1>1. n \in Nat /\ \A p \in 1 .. n : p \in 1 .. Len(scores) /\ scores[p] \in Nat
    OBVIOUS
  <1>2. SubSeq(scores, 1, n) = [p \in 1 .. n |-> scores[p]]
    BY <1>1
  <1>3. [p \in 1 .. n |-> scores[p]] \in Seq(Nat) /\ Len([p \in 1 .. n |-> scores[p]]) = n
    BY <1>1
  <1>4. QED
    BY <1>2, <1>3

(* Two sequences one after the other.                                      *)
LEMMA Appended ==
  ASSUME NEW S, NEW s \in Seq(S), NEW t \in Seq(S)
  PROVE  /\ s \o t \in Seq(S) /\ Len(s \o t) = Len(s) + Len(t)
         /\ \A p \in 1 .. Len(s) : (s \o t)[p] = s[p]
         /\ \A p \in 1 .. Len(t) : (s \o t)[Len(s) + p] = t[p]
  OBVIOUS

(* Before the loop the scores of all entries are in place.                 *)
LEMMA StartInPlace ==
  ASSUME Types, Scores, RcIntact, NEW from \in Nat, entBase <= from, NEW dest \in Nat,
         \A j \in from .. (entNext - 1) : dest <= ent[j].s
  PROVE  InPlace(from, rc, dest)
  <1> SUFFICES ASSUME NEW j \in from .. (entNext - 1)
               PROVE  /\ dest <= ent[j].s /\ ent[j].s + ent[j].n <= Len(rc)
                      /\ \A p \in 1 .. ent[j].n : rc[ent[j].s + p] = ent[j].id
    BY DEF InPlace
  <1>1. j \in DOMAIN ent
    BY ActiveEntries
  <1>2. ent[j].s + ent[j].n <= Len(rc)
    BY <1>1 DEF Scores
  <1>3. ent[j] \in Entries
    BY <1>1 DEF Entries
  <1>4. \A p \in 1 .. ent[j].n : rc[ent[j].s + p] = ent[j].id
    BY <1>3 DEF RcIntact
  <1>5. QED
    BY <1>2, <1>4

(* The two loops of bptbl_retire. *)
Retiring(K, eidx) == Compaction(K, entBase, eidx, rc, destS)

Active(K, eidx) ==
  Compaction(eidx .. (entNext - 1), eidx, entNext, Retiring(K, eidx)[eidx].rc, Retiring(K, eidx)[eidx].dest)

RcAfter(K, eidx) ==
  IF eidx < entNext THEN SubSeq(Active(K, eidx)[entNext].rc, 1, Active(K, eidx)[entNext].dest)
  ELSE Retiring(K, eidx)[eidx].rc

DestAfter(K, eidx) == Retiring(K, eidx)[eidx].dest

(* The scores of an entry lie in rc from position s on. *)
Lie(scores, s, e) == \A p \in 1 .. e.n : scores[s + p] = e.id

ScoresAfter(K, eidx) ==
  /\ RcAfter(K, eidx) \in Seq(Nat) /\ DestAfter(K, eidx) \in Nat
  /\ destS <= DestAfter(K, eidx) /\ DestAfter(K, eidx) <= Len(RcAfter(K, eidx))
  /\ \A p \in 1 .. destS : RcAfter(K, eidx)[p] = rc[p]
  /\ \A i \in K :
       /\ Retiring(K, eidx)[i].dest \in Nat
       /\ Retiring(K, eidx)[i].dest + ent[i].n <= DestAfter(K, eidx)
       /\ Lie(RcAfter(K, eidx), Retiring(K, eidx)[i].dest, ent[i])
  /\ \A i \in eidx .. (entNext - 1) :
       /\ Active(K, eidx)[i].dest \in Nat
       /\ DestAfter(K, eidx) <= Active(K, eidx)[i].dest
       /\ Active(K, eidx)[i].dest + ent[i].n <= Len(RcAfter(K, eidx))
       /\ Lie(RcAfter(K, eidx), Active(K, eidx)[i].dest, ent[i])
  /\ \A i, j \in eidx .. (entNext - 1) :
       i < j => Active(K, eidx)[i].dest + ent[i].n <= Active(K, eidx)[j].dest

(* After both loops of bptbl_retire every entry that is kept has its       *)
(* scores.                                                                 *)
LEMMA RetireMovesScores ==
  ASSUME Types, Scores, RcIntact, NEW K, NEW eidx \in Nat, entBase <= eidx, eidx <= entNext,
         \A i \in K : i \in entBase .. (eidx - 1)
  PROVE  ScoresAfter(K, eidx)
  <1> DEFINE c == Retiring(K, eidx)
             a == Active(K, eidx)
             midRc == c[eidx].rc
             dest == DestAfter(K, eidx)
             newRc == RcAfter(K, eidx)
             rest == eidx .. (entNext - 1)
  <1>1. /\ entBase \in Nat /\ entNext \in Nat /\ destS \in Nat /\ destS <= Len(rc)
        /\ rc \in Seq(Nat) /\ eidx \in entBase .. eidx
    BY DEF Types
  <1>2. \A i \in K : i \in entBase .. (entNext - 1) /\ ent[i].n \in Nat
    BY <1>1, ActiveEntries
  <1>3. \A i \in rest : i \in entBase .. (entNext - 1) /\ i \in Nat /\ ent[i].n \in Nat
    BY <1>1, ActiveEntries
  <1>4. MovedUpTo(K, entBase, rc, destS, c, eidx)
    <2>1. \A j \in entBase .. (entNext - 1) : destS <= ent[j].s
      BY ActiveEntries DEF Scores
    <2>2. InPlace(entBase, rc, destS)
      BY <1>1, <2>1, StartInPlace
    <2>3. \A i \in entBase .. eidx : MovedUpTo(K, entBase, rc, destS, Compaction(K, entBase, eidx, rc, destS), i)
      BY <1>1, <2>2, ScoresMoveDown
    <2>4. QED
      BY <1>1, <2>3 DEF Retiring
  <1>5. /\ midRc \in Seq(Nat) /\ Len(midRc) = Len(rc)
        /\ dest \in Nat /\ destS <= dest /\ dest <= Len(midRc)
        /\ \A p \in 1 .. destS : midRc[p] = rc[p]
        /\ InPlace(eidx, midRc, dest)
    BY <1>4 DEF MovedUpTo, DestAfter
  <1>6. \A i \in K : /\ c[i].dest \in Nat /\ c[i].dest + ent[i].n <= dest
                     /\ Lie(midRc, c[i].dest, ent[i])
    BY <1>4 DEF MovedUpTo, HasMoved, Lie, DestAfter
  <1>7. \A i \in eidx .. entNext : MovedUpTo(rest, eidx, midRc, dest, a, i)
    <2> HIDE DEF rest, midRc, dest
    <2>1. \A i \in eidx .. entNext :
            MovedUpTo(rest, eidx, midRc, dest, Compaction(rest, eidx, entNext, midRc, dest), i)
      BY <1>1, <1>5, ScoresMoveDown
    <2>2. a = Compaction(rest, eidx, entNext, midRc, dest)
      BY DEF Active, DestAfter, rest, midRc, dest
    <2> HIDE DEF a
    <2>3. QED
      BY <2>1, <2>2
  <1>8. /\ a[entNext].rc \in Seq(Nat) /\ Len(a[entNext].rc) = Len(midRc)
        /\ a[entNext].dest \in Nat /\ dest <= a[entNext].dest /\ a[entNext].dest <= Len(midRc)
        /\ \A p \in 1 .. dest : a[entNext].rc[p] = midRc[p]
        /\ \A j \in rest : HasMoved(j, a, entNext, dest)
    <2>1. MovedUpTo(rest, eidx, midRc, dest, a, entNext)
      BY <1>1, <1>7
    <2>2. QED
      BY <2>1 DEF MovedUpTo
  <1>9. \A i, j \in rest : i < j => a[i].dest + ent[i].n <= a[j].dest
    <2> SUFFICES ASSUME NEW i \in rest, NEW j \in rest, i < j
                 PROVE  a[i].dest + ent[i].n <= a[j].dest
      OBVIOUS
    <2>1. j \in eidx .. entNext /\ i \in eidx .. (j - 1)
      BY <1>1
    <2>2. MovedUpTo(rest, eidx, midRc, dest, a, j)
      BY <1>7, <2>1
    <2>3. HasMoved(i, a, j, dest)
      BY <2>1, <2>2 DEF MovedUpTo
    <2>4. QED
      BY <2>3 DEF HasMoved
  <1> HIDE DEF c, a, dest
  <1>10. CASE eidx < entNext
    <2> DEFINE full == a[entNext].rc
               end == a[entNext].dest
    <2>1. newRc = SubSeq(full, 1, end)
      BY <1>10 DEF RcAfter, a
    <2>2. full \in Seq(Nat) /\ end \in 0 .. Len(full) /\ dest <= end /\ end \in Nat
      BY <1>5, <1>8
    <2> HIDE DEF full, end, newRc
    <2>3. newRc \in Seq(Nat) /\ Len(newRc) = end /\ \A p \in 1 .. end : newRc[p] = full[p]
      BY <2>1, <2>2, Prefix
    <2>4. \A p \in 1 .. dest : newRc[p] = midRc[p]
      <3>1. \A p \in 1 .. dest : p \in 1 .. end
        BY <1>5, <2>2
      <3>2. QED
        BY <3>1, <1>8, <2>3 DEF full
    <2>5. \A p \in 1 .. destS : newRc[p] = rc[p]
      <3>1. \A p \in 1 .. destS : p \in 1 .. dest
        BY <1>1, <1>5
      <3>2. QED
        BY <3>1, <1>5, <2>4
    <2>6. \A i \in K : Lie(newRc, c[i].dest, ent[i])
      <3> SUFFICES ASSUME NEW i \in K, NEW p \in 1 .. ent[i].n
                   PROVE  newRc[c[i].dest + p] = ent[i].id
        BY DEF Lie
      <3> DEFINE d == c[i].dest
                 n == ent[i].n
      <3>1. d \in Nat /\ n \in Nat /\ d + n <= dest /\ midRc[d + p] = ent[i].id
        BY <1>2, <1>6 DEF Lie
      <3>2. d + p \in 1 .. dest
        <4>1. p \in 1 .. n /\ dest \in Nat
          BY <1>5
        <4> HIDE DEF d, n
        <4>2. p \in Nat /\ 1 <= p /\ p <= n
          BY <3>1, <4>1
        <4>3. 1 <= d + p /\ d + p <= d + n
          BY <3>1, <4>2
        <4> HIDE DEF dest
        <4>4. QED
          BY <3>1, <4>1, <4>2, <4>3
      <3>3. QED
        BY <3>1, <3>2, <2>4
    <2>7. ASSUME NEW i \in rest
          PROVE  /\ a[i].dest \in Nat /\ dest <= a[i].dest /\ a[i].dest + ent[i].n <= end
                 /\ Lie(newRc, a[i].dest, ent[i])
      <3> DEFINE d == a[i].dest
                 n == ent[i].n
      <3>1. HasMoved(i, a, entNext, dest)
        BY <1>8
      <3>2. d \in Nat /\ dest <= d /\ d + n <= end /\ \A p \in 1 .. n : full[d + p] = ent[i].id
        BY <3>1 DEF HasMoved, full, end
      <3>3. n \in Nat
        BY <1>3
      <3>4. \A p \in 1 .. n : d + p \in 1 .. end
        <4> HIDE DEF d, n
        <4>1. QED
          BY <3>2, <3>3, <2>2
      <3>5. \A p \in 1 .. n : newRc[d + p] = ent[i].id
        BY <3>2, <3>4, <2>3
      <3>6. QED
        BY <3>2, <3>5 DEF Lie
    <2>8. QED
      BY <1>5, <1>6, <1>9, <2>2, <2>3, <2>5, <2>6, <2>7 DEF ScoresAfter, newRc, c, a, dest
  <1>11. CASE eidx = entNext
    <2>1. newRc = midRc /\ rest = {}
      BY <1>1, <1>11 DEF RcAfter, c
    <2>2. QED
      BY <1>5, <1>6, <2>1 DEF ScoresAfter, c, dest
  <1>12. QED
    BY <1>1, <1>10, <1>11
-----------------------------------------------------------------------------
(* What a collection does to the entries. *)

(* An entry with another history, its scores in another place.             *)
IsCopy(new, old, bp, s) ==
  /\ new \in EntryRecord /\ new.bp = bp /\ new.s = s
  /\ new.frame = old.frame /\ new.n = old.n /\ new.id = old.id /\ new.prev = old.prev

(* The assignments of bptbl_retire and bptbl_remap make such an entry.     *)
LEMMA Copy ==
  ASSUME NEW e \in EntryRecord, NEW bp \in Nat \cup {NoBp}, NEW s \in Nat
  PROVE  IsCopy([e EXCEPT !.bp = bp, !.s = s], e, bp, s)
  BY DEF IsCopy, EntryRecord

(* A history that is kept stays where it is or goes where its entry goes.  *)
LEMMA RemapTo ==
  ASSUME Types, Pointers, NEW K, NEW eidx \in Nat, entBase <= eidx, eidx <= entNext,
         Closed(K, eidx), NEW i \in K \cup (eidx .. (entNext - 1))
  PROVE  LET bp == ent[i].bp
         IN  \/ bp \in {NoBp} \cup (0 .. (Len(ret) - 1)) /\ Remap(K, eidx, bp) = bp
             \/ /\ bp \in K /\ Remap(K, eidx, bp) = Len(ret) + Rank(K, bp)
                /\ ent[bp].frame < ent[i].frame
             \/ /\ i \notin K /\ bp \in eidx .. (entNext - 1) /\ Remap(K, eidx, bp) = bp
                /\ ent[bp].frame < ent[i].frame
  <1> DEFINE bp == ent[i].bp
  <1>1. /\ DOMAIN ent = entBase .. (entNext - 1) /\ entBase \in Nat /\ entNext \in Nat
        /\ Len(ret) \in Nat /\ Len(ret) <= entBase
    BY ActiveEntries, RetiredEntries DEF Types
  <1>2. i \in DOMAIN ent
    BY <1>1 DEF Closed
  <1>3. CASE bp \in {NoBp} \cup (0 .. (Len(ret) - 1))
    <2>1. ~ (entBase <= bp)
      BY <1>1, <1>3 DEF NoBp
    <2>2. Remap(K, eidx, bp) = bp
      BY <2>1 DEF Remap, IsRemapped
    <2>3. QED
      BY <1>3, <2>2
  <1>4. CASE bp \in DOMAIN ent /\ ent[bp].frame < ent[i].frame
    <2>1. bp \in K \/ (i \notin K /\ bp \in eidx .. (entNext - 1))
      BY <1>4 DEF Closed
    <2>2. CASE bp \in K
      <3>1. entBase <= bp /\ bp < eidx
        BY <1>1, <2>2 DEF Closed
      <3>2. Remap(K, eidx, bp) = Len(ret) + Cardinality({j \in K : j < bp})
        BY <2>2, <3>1 DEF Remap, IsRemapped, Permute
      <3>3. QED
        BY <1>4, <2>2, <3>2 DEF Rank
    <2>3. CASE i \notin K /\ bp \in eidx .. (entNext - 1)
      <3>1. ~ (bp < eidx)
        BY <2>3
      <3>2. Remap(K, eidx, bp) = bp
        BY <3>1 DEF Remap, IsRemapped
      <3>3. QED
        BY <1>4, <2>3, <3>2
    <2>4. QED
      BY <2>1, <2>2, <2>3
  <1>5. QED
    BY <1>2, <1>3, <1>4 DEF Pointers

RetireEffect(K, eidx) ==
  /\ ret' \in Seq(EntryRecord) /\ Len(ret') = Len(ret) + Cardinality(K) /\ Len(ret') <= eidx
  /\ \A k \in DOMAIN ret : ret'[k] = ret[k]
  /\ \A i \in K :
       /\ Len(ret) + Rank(K, i) + 1 \in (Len(ret) + 1) .. Len(ret')
       /\ IsCopy(ret'[Len(ret) + Rank(K, i) + 1], ent[i], Remap(K, eidx, ent[i].bp),
                 Retiring(K, eidx)[i].dest)
  /\ \A k \in (Len(ret) + 1) .. Len(ret') : \E i \in K : k = Len(ret) + Rank(K, i) + 1
  /\ ent' \in [eidx .. (entNext - 1) -> EntryRecord]
  /\ \A i \in eidx .. (entNext - 1) :
       IsCopy(ent'[i], ent[i], Remap(K, eidx, ent[i].bp), Active(K, eidx)[i].dest)
  /\ entBase' = eidx /\ rc' = RcAfter(K, eidx) /\ destS' = DestAfter(K, eidx)
  /\ oldestBp' = Oldest(ent', Len(ret'))

(* Retire, entry by entry.                                                 *)
LEMMA RetireHasEffect ==
  ASSUME Types, Scores, RcIntact, Pointers, NEW K, NEW eidx \in Nat, entBase <= eidx, eidx <= entNext,
         Closed(K, eidx), Retire(K, eidx)
  PROVE  RetireEffect(K, eidx)
  <1> DEFINE n == Cardinality(K)
             len == Len(ret)
             order == InOrder(K)
             c == Retiring(K, eidx)
             a == Active(K, eidx)
             copy(i) == [ent[i] EXCEPT !.bp = Remap(K, eidx, @), !.s = c[i].dest]
             rest == eidx .. (entNext - 1)
  <1>1. /\ DOMAIN ent = entBase .. (entNext - 1) /\ entBase \in Nat /\ entNext \in Nat
        /\ ret \in Seq(EntryRecord) /\ len \in Nat /\ DOMAIN ret = 1 .. len /\ len <= entBase
    BY ActiveEntries, RetiredEntries DEF Types
  <1>2. K \in SUBSET (entBase .. (eidx - 1)) /\ \A i \in K : i \in Nat
    BY <1>1 DEF Closed
  <1>3. /\ n \in Nat
        /\ \A i \in K : Rank(K, i) \in Nat /\ Rank(K, i) < n
    BY <1>1, <1>2, Ranks
  <1>4. /\ DOMAIN order = 1 .. n
        /\ \A k \in 1 .. n : order[k] \in K /\ Rank(K, order[k]) = k - 1
        /\ \A i \in K : order[Rank(K, i) + 1] = i
    BY <1>1, <1>2, OrderIsByRank
  <1>5. len + n <= eidx
    <2> DEFINE last == eidx - 1
    <2>1. last \in Int /\ (IF entBase > last THEN 0 ELSE last - entBase + 1) = eidx - entBase
      BY <1>1
    <2>2. K \in SUBSET (entBase .. last)
      BY <1>2
    <2> HIDE DEF last
    <2>3. IsFiniteSet(entBase .. last) /\ Cardinality(entBase .. last) = eidx - entBase
      <3>1. entBase \in Int
        BY <1>1
      <3>2. /\ IsFiniteSet(entBase .. last)
            /\ Cardinality(entBase .. last) = IF entBase > last THEN 0 ELSE last - entBase + 1
        BY <2>1, <3>1, FS_Interval
      <3>3. QED
        BY <2>1, <3>2
    <2>4. n <= Cardinality(entBase .. last)
      BY <2>2, <2>3, FS_Subset
    <2> HIDE DEF n, len
    <2>5. QED
      BY <1>1, <1>3, <2>3, <2>4
  <1>6. ScoresAfter(K, eidx)
    BY <1>2, RetireMovesScores
  <1>7. ASSUME NEW i \in K \cup rest
        PROVE  i \in DOMAIN ent /\ ent[i] \in EntryRecord /\ Remap(K, eidx, ent[i].bp) \in Nat \cup {NoBp}
    <2>1. i \in DOMAIN ent
      BY <1>1, <1>2
    <2>2. ent[i] \in EntryRecord /\ ent[i].bp \in Nat \cup {NoBp}
      BY <1>1, <2>1, ActiveEntries
    <2>3. Remap(K, eidx, ent[i].bp) \in Nat \cup {NoBp}
      <3>1. \A j \in K : len + Rank(K, j) \in Nat
        BY <1>1, <1>3
      <3>2. Remap(K, eidx, ent[i].bp) = ent[i].bp \/ \E j \in K : Remap(K, eidx, ent[i].bp) = len + Rank(K, j)
        BY RemapTo
      <3>3. QED
        BY <2>2, <3>1, <3>2
    <2>4. QED
      BY <2>1, <2>2, <2>3
  <1>8. ASSUME NEW i \in K
        PROVE  IsCopy(copy(i), ent[i], Remap(K, eidx, ent[i].bp), c[i].dest)
    <2>1. c[i].dest \in Nat
      BY <1>6 DEF ScoresAfter
    <2>2. QED
      BY <1>7, <2>1, Copy
  <1>9. ASSUME NEW i \in rest
        PROVE  IsCopy([ent[i] EXCEPT !.bp = Remap(K, eidx, @), !.s = a[i].dest],
                      ent[i], Remap(K, eidx, ent[i].bp), a[i].dest)
    <2>1. a[i].dest \in Nat
      BY <1>6 DEF ScoresAfter
    <2>2. QED
      BY <1>7, <2>1, Copy
  <1> DEFINE new == [k \in 1 .. n |-> copy(order[k])]
  <1>10. ret' = ret \o new
    <2>1. ret' = ret \o [k \in DOMAIN order |-> copy(order[k])]
      BY DEF Retire, Retiring
    <2>2. QED
      BY <1>4, <2>1
  <1>11. /\ new \in Seq(EntryRecord) /\ Len(new) = n
    <2>1. \A k \in 1 .. n : copy(order[k]) \in EntryRecord
      BY <1>4, <1>8 DEF IsCopy
    <2> HIDE DEF n, order, copy
    <2>2. new \in [1 .. n -> EntryRecord]
      BY <2>1
    <2> HIDE DEF new
    <2>3. QED
      BY <1>3, <2>2
  <1>12. ASSUME NEW k \in 1 .. n
         PROVE  new[k] = copy(order[k])
    OBVIOUS
  <1>13. /\ ret' \in Seq(EntryRecord) /\ Len(ret') = len + n
         /\ \A k \in 1 .. len : ret'[k] = ret[k]
         /\ \A k \in 1 .. n : ret'[len + k] = new[k]
    <2> HIDE DEF new, n
    <2>1. /\ ret \o new \in Seq(EntryRecord) /\ Len(ret \o new) = Len(ret) + Len(new)
          /\ \A k \in 1 .. Len(ret) : (ret \o new)[k] = ret[k]
          /\ \A k \in 1 .. Len(new) : (ret \o new)[Len(ret) + k] = new[k]
      <3>1. ret \in Seq(EntryRecord) /\ new \in Seq(EntryRecord)
        BY <1>1, <1>11
      <3> HIDE DEF len
      <3>2. QED
        BY <3>1, Appended
    <2>2. QED
      BY <1>10, <1>11, <2>1
  <1> HIDE DEF new, copy
  <1>14. ASSUME NEW i \in K
         PROVE  /\ len + Rank(K, i) + 1 \in (len + 1) .. Len(ret')
                /\ IsCopy(ret'[len + Rank(K, i) + 1], ent[i], Remap(K, eidx, ent[i].bp), c[i].dest)
    <2> DEFINE r == Rank(K, i)
               k == r + 1
    <2>1. r \in Nat /\ r < n
      BY <1>3
    <2>2. order[k] = i
      BY <1>4
    <2> HIDE DEF r
    <2>3. k \in 1 .. n /\ len + r + 1 = len + k /\ len + r + 1 \in (len + 1) .. (len + n)
      <3> HIDE DEF len, n
      <3>1. QED
        BY <1>1, <1>3, <2>1
    <2> HIDE DEF k
    <2>4. ret'[len + k] = copy(i)
      BY <1>12, <1>13, <2>2, <2>3
    <2>5. QED
      BY <1>8, <1>13, <2>3, <2>4 DEF r
  <1>15. ASSUME NEW k \in (len + 1) .. Len(ret')
         PROVE  \E i \in K : k = len + Rank(K, i) + 1
    <2> DEFINE m == k - len
    <2>1. m \in 1 .. n /\ k = len + (m - 1) + 1
      <3> HIDE DEF len, n
      <3>1. QED
        BY <1>1, <1>3, <1>13
    <2> HIDE DEF m
    <2>2. order[m] \in K /\ Rank(K, order[m]) = m - 1
      BY <1>4, <2>1
    <2>3. QED
      BY <2>1, <2>2
  <1>16. ent' = [i \in rest |-> [ent[i] EXCEPT !.bp = Remap(K, eidx, @), !.s = a[i].dest]]
    BY DEF Retire, Retiring, Active
  <1>17. /\ ent' \in [rest -> EntryRecord]
         /\ \A i \in rest : IsCopy(ent'[i], ent[i], Remap(K, eidx, ent[i].bp), a[i].dest)
    <2> HIDE DEF rest, a
    <2>1. \A i \in rest : IsCopy(ent'[i], ent[i], Remap(K, eidx, ent[i].bp), a[i].dest)
      BY <1>9, <1>16
    <2>2. \A i \in rest : ent'[i] \in EntryRecord
      BY <2>1 DEF IsCopy
    <2>3. ent' = [i \in rest |-> ent'[i]]
      BY <1>16
    <2>4. QED
      BY <2>1, <2>2, <2>3
  <1>18. entBase' = eidx /\ oldestBp' = Oldest(ent', Len(ret'))
    BY DEF Retire
  <1>19. rc' = RcAfter(K, eidx)
    BY DEF Retire, RcAfter, Active, Retiring
  <1>20. destS' = DestAfter(K, eidx)
    BY DEF Retire, DestOf, DestAfter, Retiring
  <1> HIDE DEF c, a, order
  <1>21. QED
    BY <1>1, <1>5, <1>13, <1>14, <1>15, <1>17, <1>18, <1>19, <1>20 DEF RetireEffect, c, a

(* Where the entries lie before and after a collection.                    *)
LEMMA CollectionFacts ==
  ASSUME Types, FramesCut, NEW K, NEW eidx \in Nat, entBase <= eidx, eidx <= entNext,
         Closed(K, eidx), RetireEffect(K, eidx)
  PROVE  /\ Len(ret) \in Nat /\ Len(ret') \in Nat /\ Len(ret) <= Len(ret') /\ Len(ret') <= eidx
         /\ DOMAIN ret = 1 .. Len(ret) /\ DOMAIN ret' = 1 .. Len(ret')
         /\ \A k \in DOMAIN ret : k \in DOMAIN ret' /\ ret'[k] = ret[k]
         /\ DOMAIN ent = entBase .. (entNext - 1) /\ DOMAIN ent' = eidx .. (entNext - 1)
         /\ \A i \in K : /\ i \in DOMAIN ent /\ i \in Nat /\ entBase <= i /\ i < eidx
                         /\ Rank(K, i) \in Nat /\ Len(ret) + Rank(K, i) \in 0 .. (Len(ret') - 1)
         /\ \A i \in DOMAIN ent' : i \in DOMAIN ent
         /\ entBase \in Nat /\ entNext \in Nat /\ Len(ret) <= entBase
  <1>1. /\ DOMAIN ent = entBase .. (entNext - 1) /\ entBase \in Nat /\ entNext \in Nat
        /\ Len(ret) \in Nat /\ DOMAIN ret = 1 .. Len(ret) /\ Len(ret) <= entBase
    BY ActiveEntries, RetiredEntries DEF Types
  <1>2. /\ ret' \in Seq(EntryRecord) /\ Len(ret') = Len(ret) + Cardinality(K) /\ Len(ret') <= eidx
    BY DEF RetireEffect
  <1>3. Cardinality(K) \in Nat
    <2>1. K \in SUBSET (entBase .. (eidx - 1))
      BY DEF Closed
    <2>2. QED
      BY <1>1, <2>1, Ranks
  <1>4. Len(ret') \in Nat /\ DOMAIN ret' = 1 .. Len(ret') /\ Len(ret) <= Len(ret')
    BY <1>1, <1>2, <1>3
  <1>5. \A k \in DOMAIN ret : k \in DOMAIN ret' /\ ret'[k] = ret[k]
    BY <1>1, <1>4 DEF RetireEffect
  <1>6. DOMAIN ent' = eidx .. (entNext - 1)
    BY DEF RetireEffect
  <1>7. ASSUME NEW i \in K
        PROVE  /\ i \in DOMAIN ent /\ i \in Nat /\ entBase <= i /\ i < eidx
               /\ Rank(K, i) \in Nat /\ Len(ret) + Rank(K, i) \in 0 .. (Len(ret') - 1)
    <2> DEFINE r == Rank(K, i)
               len == Len(ret)
               newLen == Len(ret')
    <2>1. i \in DOMAIN ent /\ i \in entBase .. (eidx - 1) /\ K \in SUBSET (entBase .. (eidx - 1))
      BY DEF Closed
    <2>2. i \in Nat /\ entBase <= i /\ i < eidx
      BY <1>1, <2>1
    <2>3. r \in Nat
      BY <1>1, <2>1, <2>2, Ranks
    <2>4. len + r + 1 \in (len + 1) .. newLen
      BY DEF RetireEffect
    <2>5. len \in Nat /\ newLen \in Nat
      BY <1>1, <1>4
    <2> HIDE DEF r, len, newLen
    <2>6. len + r \in 0 .. (newLen - 1)
      BY <2>3, <2>4, <2>5
    <2>7. QED
      BY <2>1, <2>2, <2>3, <2>6 DEF r, len, newLen
  <1>8. QED
    BY <1>1, <1>2, <1>4, <1>5, <1>6, <1>7 DEF Closed

(* Where the entries of the table after a collection come from.            *)
LEMMA RetiredFrom ==
  ASSUME Types, FramesCut, NEW K, NEW eidx \in Nat, entBase <= eidx, eidx <= entNext,
         Closed(K, eidx), RetireEffect(K, eidx), NEW k \in DOMAIN ret'
  PROVE  \/ k \in DOMAIN ret /\ ret'[k] = ret[k]
         \/ \E i \in K : /\ k = Len(ret) + Rank(K, i) + 1
                         /\ IsCopy(ret'[k], ent[i], Remap(K, eidx, ent[i].bp), Retiring(K, eidx)[i].dest)
  <1>1. k \in DOMAIN ret \/ k \in (Len(ret) + 1) .. Len(ret')
    BY CollectionFacts
  <1>2. CASE k \in DOMAIN ret
    BY <1>2, CollectionFacts
  <1>3. CASE k \in (Len(ret) + 1) .. Len(ret')
    <2>1. PICK i \in K : k = Len(ret) + Rank(K, i) + 1
      BY <1>3 DEF RetireEffect
    <2>2. IsCopy(ret'[k], ent[i], Remap(K, eidx, ent[i].bp), Retiring(K, eidx)[i].dest)
      BY <2>1 DEF RetireEffect
    <2>3. QED
      BY <2>1, <2>2
  <1>4. QED
    BY <1>1, <1>2, <1>3

(* After a collection the pointers go where they may.                      *)
LEMMA CollectionKeepsPointers ==
  ASSUME Types, FramesCut, Pointers, NEW K, NEW eidx \in Nat, entBase <= eidx, eidx <= entNext,
         Closed(K, eidx), RetireEffect(K, eidx)
  PROVE  Pointers'
  <1> DEFINE len == Len(ret)
             newLen == Len(ret')
  <1>1. len \in Nat /\ newLen \in Nat /\ len <= newLen
    BY CollectionFacts
  <1>2. \A j \in K : len + Rank(K, j) \in 0 .. (newLen - 1)
    BY CollectionFacts
  <1>3. ASSUME NEW k \in DOMAIN ret'
        PROVE  ret'[k].bp \in {NoBp} \cup (0 .. (newLen - 1))
    <2>1. CASE k \in DOMAIN ret /\ ret'[k] = ret[k]
      <3>1. ret[k].bp \in {NoBp} \cup (0 .. (len - 1))
        BY <2>1 DEF Pointers
      <3> HIDE DEF len, newLen
      <3>2. QED
        BY <1>1, <2>1, <3>1
    <2>2. ASSUME NEW i \in K, IsCopy(ret'[k], ent[i], Remap(K, eidx, ent[i].bp), Retiring(K, eidx)[i].dest)
          PROVE  ret'[k].bp \in {NoBp} \cup (0 .. (newLen - 1))
      <3>1. ret'[k].bp = Remap(K, eidx, ent[i].bp)
        BY <2>2 DEF IsCopy
      <3>2. \/ Remap(K, eidx, ent[i].bp) \in {NoBp} \cup (0 .. (len - 1))
            \/ \E j \in K : Remap(K, eidx, ent[i].bp) = len + Rank(K, j)
        BY RemapTo
      <3> HIDE DEF len, newLen
      <3>3. QED
        BY <1>1, <1>2, <3>1, <3>2
    <2>3. QED
      BY <2>1, <2>2, RetiredFrom
  <1>4. ASSUME NEW i \in DOMAIN ent'
        PROVE  \/ ent'[i].bp \in {NoBp} \cup (0 .. (newLen - 1))
               \/ ent'[i].bp \in DOMAIN ent' /\ ent'[ent'[i].bp].frame < ent'[i].frame
    <2> DEFINE bp == ent[i].bp
    <2>1. i \in eidx .. (entNext - 1) /\ DOMAIN ent' = eidx .. (entNext - 1)
      BY CollectionFacts
    <2>2. ent'[i].bp = Remap(K, eidx, bp) /\ ent'[i].frame = ent[i].frame
      BY <2>1 DEF RetireEffect, IsCopy
    <2>3. CASE bp \in {NoBp} \cup (0 .. (len - 1)) /\ Remap(K, eidx, bp) = bp
      <3> HIDE DEF len, newLen, bp
      <3>1. QED
        BY <1>1, <2>2, <2>3
    <2>4. CASE bp \in K /\ Remap(K, eidx, bp) = len + Rank(K, bp)
      BY <1>2, <2>2, <2>4
    <2>5. CASE bp \in eidx .. (entNext - 1) /\ Remap(K, eidx, bp) = bp /\ ent[bp].frame < ent[i].frame
      <3>1. ent'[bp].frame = ent[bp].frame
        BY <2>5 DEF RetireEffect, IsCopy
      <3>2. QED
        BY <2>1, <2>2, <2>5, <3>1
    <2>6. QED
      BY <2>1, <2>3, <2>4, <2>5, RemapTo
  <1>5. QED
    BY <1>3, <1>4 DEF Pointers

(* bptbl_ent after a step. *)
EntryAfter(bp) == IF bp < entBase' THEN ret'[bp + 1] ELSE ent'[bp]

(* A retired history is the same entry after a collection, one that is kept*)
(* the same but for its number.                                            *)
LEMMA HistoryStays ==
  ASSUME Types, FramesCut, Pointers, NEW K, NEW eidx \in Nat,
         entBase <= eidx, eidx <= entNext, Closed(K, eidx), RetireEffect(K, eidx)
  PROVE  /\ \A b \in 0 .. (Len(ret) - 1) : b # NoBp /\ EntryAfter(b) = Entry(b)
         /\ \A i \in K \cup (eidx .. (entNext - 1)) :
              LET bp  == ent[i].bp
                  new == Remap(K, eidx, bp)
              IN  IF bp = NoBp THEN new = NoBp
                  ELSE /\ new # NoBp /\ EntryAfter(new).id = Entry(bp).id
                       /\ EntryAfter(new).frame = Entry(bp).frame
  <1> DEFINE len == Len(ret)
  <1>1. /\ len \in Nat /\ Len(ret') \in Nat /\ len <= Len(ret') /\ Len(ret') <= eidx
        /\ entBase \in Nat /\ len <= entBase /\ entBase' = eidx
    BY CollectionFacts DEF RetireEffect
  <1>2. ASSUME NEW b \in 0 .. (len - 1)
        PROVE  b # NoBp /\ EntryAfter(b) = Entry(b)
    <2>1. b < entBase /\ b < entBase' /\ b + 1 \in DOMAIN ret /\ b # NoBp
      BY <1>1, CollectionFacts DEF NoBp
    <2>2. ret'[b + 1] = ret[b + 1]
      BY <2>1, CollectionFacts
    <2>3. QED
      BY <2>1, <2>2 DEF Entry, EntryAfter
  <1>3. ASSUME NEW j \in K, NEW b, b = len + Rank(K, j)
        PROVE  /\ b # NoBp /\ j # NoBp
               /\ EntryAfter(b).id = Entry(j).id /\ EntryAfter(b).frame = Entry(j).frame
    <2> DEFINE r == Rank(K, j)
    <2>1. /\ len + r + 1 \in (len + 1) .. Len(ret')
          /\ IsCopy(ret'[len + r + 1], ent[j], Remap(K, eidx, ent[j].bp), Retiring(K, eidx)[j].dest)
      BY DEF RetireEffect
    <2>2. j \in Nat /\ entBase <= j /\ r \in Nat
      BY CollectionFacts
    <2>7. ~ (j < entBase) /\ j # NoBp
      BY <1>1, <2>2 DEF NoBp
    <2>3. b < entBase' /\ b + 1 = len + r + 1 /\ b # NoBp
      <3>1. b = len + r
        BY <1>3
      <3>2. len + r + 1 <= Len(ret')
        BY <2>1
      <3> HIDE DEF r, len
      <3>3. QED
        BY <1>1, <2>2, <3>1, <3>2 DEF NoBp
    <2>4. EntryAfter(b) = ret'[b + 1]
      BY <2>3 DEF EntryAfter
    <2>5. Entry(j) = ent[j]
      BY <2>7 DEF Entry
    <2>6. QED
      BY <2>1, <2>7, <2>3, <2>4, <2>5 DEF IsCopy
  <1>4. ASSUME NEW j \in eidx .. (entNext - 1)
        PROVE  /\ j # NoBp
               /\ EntryAfter(j).id = Entry(j).id /\ EntryAfter(j).frame = Entry(j).frame
    <2>1. ~ (j < entBase) /\ ~ (j < entBase') /\ j # NoBp
      BY <1>1 DEF NoBp
    <2>2. Entry(j) = ent[j] /\ EntryAfter(j) = ent'[j]
      BY <2>1 DEF Entry, EntryAfter
    <2>3. ent'[j].id = ent[j].id /\ ent'[j].frame = ent[j].frame
      BY DEF RetireEffect, IsCopy
    <2>4. QED
      BY <2>1, <2>2, <2>3
  <1>5. ASSUME NEW i \in K \cup (eidx .. (entNext - 1))
        PROVE  LET bp  == ent[i].bp
                   new == Remap(K, eidx, bp)
               IN  IF bp = NoBp THEN new = NoBp
                   ELSE /\ new # NoBp /\ EntryAfter(new).id = Entry(bp).id
                        /\ EntryAfter(new).frame = Entry(bp).frame
    <2> DEFINE bp == ent[i].bp
    <2>1. CASE bp = NoBp /\ Remap(K, eidx, bp) = bp
      BY <2>1
    <2>2. CASE bp \in 0 .. (len - 1) /\ Remap(K, eidx, bp) = bp
      BY <1>2, <2>2
    <2>3. CASE bp \in K /\ Remap(K, eidx, bp) = len + Rank(K, bp)
      BY <1>3, <2>3
    <2>4. CASE bp \in eidx .. (entNext - 1) /\ Remap(K, eidx, bp) = bp
      BY <1>4, <2>4
    <2>5. QED
      BY <2>1, <2>2, <2>3, <2>4, RemapTo
  <1>6. QED
    BY <1>2, <1>5

(* After a collection each entry finds the entry it was entered with.      *)
LEMMA CollectionKeepsPredecessors ==
  ASSUME Types, FramesCut, Pointers, PredecessorsKept, NEW K, NEW eidx \in Nat,
         entBase <= eidx, eidx <= entNext, Closed(K, eidx), RetireEffect(K, eidx)
  PROVE  PredecessorsKept'
  <1> DEFINE len == Len(ret)
  <1>1. ASSUME NEW i \in K \cup (eidx .. (entNext - 1)), NEW e, NEW s,
               IsCopy(e, ent[i], Remap(K, eidx, ent[i].bp), s)
        PROVE  IF e.bp = NoBp THEN e.prev = 0 ELSE EntryAfter(e.bp).id = e.prev
    <2> DEFINE bp == ent[i].bp
    <2>1. e.bp = Remap(K, eidx, bp) /\ e.prev = ent[i].prev
      BY <1>1 DEF IsCopy
    <2>2. ent[i] \in Entries
      <3>1. i \in DOMAIN ent
        BY CollectionFacts
      <3>2. QED
        BY <3>1 DEF Entries
    <2>3. IF bp = NoBp THEN ent[i].prev = 0 ELSE Entry(bp).id = ent[i].prev
      BY <2>2 DEF PredecessorsKept
    <2>4. IF bp = NoBp THEN e.bp = NoBp ELSE e.bp # NoBp /\ EntryAfter(e.bp).id = Entry(bp).id
      BY <2>1, HistoryStays
    <2>5. QED
      BY <2>1, <2>3, <2>4
  <1>2. ASSUME NEW k \in DOMAIN ret
        PROVE  IF ret[k].bp = NoBp THEN ret[k].prev = 0 ELSE EntryAfter(ret[k].bp).id = ret[k].prev
    <2>1. IF ret[k].bp = NoBp THEN ret[k].prev = 0 ELSE Entry(ret[k].bp).id = ret[k].prev
      BY DEF PredecessorsKept, Entries
    <2>2. ret[k].bp \in {NoBp} \cup (0 .. (len - 1))
      BY DEF Pointers
    <2>3. QED
      BY <2>1, <2>2, HistoryStays
  <1>3. ASSUME NEW e \in Entries'
        PROVE  IF e.bp = NoBp THEN e.prev = 0 ELSE EntryAfter(e.bp).id = e.prev
    <2>1. CASE \E k \in DOMAIN ret' : e = ret'[k]
      <3>1. PICK k \in DOMAIN ret' : e = ret'[k]
        BY <2>1
      <3>2. CASE k \in DOMAIN ret /\ ret'[k] = ret[k]
        BY <1>2, <3>1, <3>2
      <3>3. ASSUME NEW i \in K,
                   IsCopy(ret'[k], ent[i], Remap(K, eidx, ent[i].bp), Retiring(K, eidx)[i].dest)
            PROVE  IF e.bp = NoBp THEN e.prev = 0 ELSE EntryAfter(e.bp).id = e.prev
        BY <1>1, <3>1, <3>3
      <3>4. QED
        BY <3>2, <3>3, RetiredFrom
    <2>2. CASE \E i \in DOMAIN ent' : e = ent'[i]
      <3>1. PICK i \in DOMAIN ent' : e = ent'[i]
        BY <2>2
      <3>2. i \in eidx .. (entNext - 1)
        BY CollectionFacts
      <3>3. IsCopy(e, ent[i], Remap(K, eidx, ent[i].bp), Active(K, eidx)[i].dest)
        BY <3>1, <3>2 DEF RetireEffect
      <3>4. QED
        BY <1>1, <3>2, <3>3
    <2>3. QED
      BY <2>1, <2>2 DEF Entries
  <1>4. \A e \in Entries' : Entry(e.bp)' = EntryAfter(e.bp)
    BY DEF Entry, EntryAfter
  <1>5. QED
    BY <1>3, <1>4 DEF PredecessorsKept, NoBp

(* After a collection each entry finds its scores.                         *)
LEMMA CollectionKeepsScores ==
  ASSUME Types, FramesCut, Scores, RcIntact, NEW K, NEW eidx \in Nat, entBase <= eidx, eidx <= entNext,
         Closed(K, eidx), RetireEffect(K, eidx), entNext' = entNext
  PROVE  Scores' /\ RcIntact' /\ rc' \in Seq(Nat) /\ destS' \in Nat /\ destS' <= Len(rc')
  <1>1. /\ rc' = RcAfter(K, eidx) /\ destS' = DestAfter(K, eidx)
        /\ DOMAIN ent' = eidx .. (entNext - 1)
    BY DEF RetireEffect
  <1>2. ScoresAfter(K, eidx)
    BY RetireMovesScores DEF Closed
  <1>3. /\ rc' \in Seq(Nat) /\ Len(rc') \in Nat /\ destS' \in Nat
        /\ destS <= destS' /\ destS' <= Len(rc') /\ destS \in Nat
        /\ \A p \in 1 .. destS : rc'[p] = rc[p]
    <2>1. /\ rc' \in Seq(Nat) /\ destS' \in Nat /\ destS <= destS' /\ destS' <= Len(rc')
          /\ \A p \in 1 .. destS : rc'[p] = rc[p]
      BY <1>1, <1>2 DEF ScoresAfter
    <2>2. destS \in Nat
      BY DEF Types
    <2>3. Len(rc') \in Nat
      BY <2>1
    <2>4. QED
      BY <2>1, <2>2, <2>3
  <1>4. ASSUME NEW k \in DOMAIN ret'
        PROVE  /\ ret'[k].s + ret'[k].n <= destS' /\ Lie(rc', ret'[k].s, ret'[k])
               /\ ret'[k].s \in Nat /\ ret'[k].n \in Nat
    <2>1. CASE k \in DOMAIN ret /\ ret'[k] = ret[k]
      <3> DEFINE s == ret[k].s
                 n == ret[k].n
      <3>1. s \in Nat /\ n \in Nat /\ s + n <= destS
        BY <2>1, RetiredEntries DEF Scores
      <3>2. ret[k] \in Entries
        BY <2>1 DEF Entries
      <3>3. \A p \in 1 .. n : rc[s + p] = ret[k].id
        BY <3>2 DEF RcIntact
      <3> HIDE DEF s, n
      <3>4. s + n <= destS'
        BY <1>3, <3>1
      <3>5. \A p \in 1 .. n : s + p \in 1 .. destS
        BY <1>3, <3>1
      <3>6. ASSUME NEW p \in 1 .. n
            PROVE  rc'[s + p] = ret[k].id
        <4>1. rc'[s + p] = rc[s + p]
          BY <1>3, <3>5
        <4>2. QED
          BY <3>3, <4>1
      <3>7. QED
        BY <2>1, <3>1, <3>4, <3>6 DEF Lie, s, n
    <2>2. ASSUME NEW i \in K,
                 IsCopy(ret'[k], ent[i], Remap(K, eidx, ent[i].bp), Retiring(K, eidx)[i].dest)
          PROVE  /\ ret'[k].s + ret'[k].n <= destS' /\ Lie(rc', ret'[k].s, ret'[k])
                 /\ ret'[k].s \in Nat /\ ret'[k].n \in Nat
      <3>1. /\ ret'[k].s = Retiring(K, eidx)[i].dest /\ ret'[k].n = ent[i].n /\ ret'[k].id = ent[i].id
        BY <2>2 DEF IsCopy
      <3>2. /\ Retiring(K, eidx)[i].dest \in Nat
            /\ Retiring(K, eidx)[i].dest + ent[i].n <= destS'
            /\ Lie(rc', Retiring(K, eidx)[i].dest, ent[i])
        BY <1>1, <1>2 DEF ScoresAfter
      <3>3. ent[i].n \in Nat
        BY CollectionFacts, ActiveEntries
      <3>4. QED
        BY <3>1, <3>2, <3>3 DEF Lie
    <2>3. QED
      BY <2>1, <2>2, RetiredFrom
  <1>5. ASSUME NEW i \in DOMAIN ent'
        PROVE  /\ ent'[i].s = Active(K, eidx)[i].dest /\ ent'[i].n = ent[i].n
               /\ destS' <= ent'[i].s /\ ent'[i].s + ent'[i].n <= Len(rc')
               /\ Lie(rc', ent'[i].s, ent'[i]) /\ ent'[i].s \in Nat /\ ent'[i].n \in Nat
    <2>1. i \in eidx .. (entNext - 1)
      BY <1>1
    <2>2. /\ ent'[i].s = Active(K, eidx)[i].dest /\ ent'[i].n = ent[i].n /\ ent'[i].id = ent[i].id
      BY <2>1 DEF RetireEffect, IsCopy
    <2>3. /\ Active(K, eidx)[i].dest \in Nat
          /\ destS' <= Active(K, eidx)[i].dest
          /\ Active(K, eidx)[i].dest + ent[i].n <= Len(rc')
          /\ Lie(rc', Active(K, eidx)[i].dest, ent[i])
      BY <1>1, <1>2, <2>1 DEF ScoresAfter
    <2>4. ent[i].n \in Nat
      BY CollectionFacts, ActiveEntries
    <2>5. QED
      BY <2>2, <2>3, <2>4 DEF Lie
  <1>6. \A i, j \in DOMAIN ent' : i < j => ent'[i].s + ent'[i].n <= ent'[j].s
    BY <1>1, <1>2, <1>5 DEF ScoresAfter
  <1>7. Scores'
    BY <1>4, <1>5, <1>6 DEF Scores
  <1>8. ASSUME NEW e \in Entries', NEW p \in 1 .. e.n
        PROVE  e.s + p <= Len(rc') /\ rc'[e.s + p] = e.id
    <2> DEFINE s == e.s
               n == e.n
    <2>1. s \in Nat /\ n \in Nat /\ s + n <= Len(rc') /\ Lie(rc', s, e)
      <3>1. CASE \E k \in DOMAIN ret' : e = ret'[k]
        <4>1. PICK k \in DOMAIN ret' : e = ret'[k]
          BY <3>1
        <4>2. s \in Nat /\ n \in Nat /\ s + n <= destS' /\ Lie(rc', s, e)
          BY <1>4, <4>1
        <4> HIDE DEF s, n
        <4>3. QED
          BY <1>3, <4>2
      <3>2. CASE \E i \in DOMAIN ent' : e = ent'[i]
        BY <1>5, <3>2
      <3>3. QED
        BY <3>1, <3>2 DEF Entries
    <2>2. rc'[s + p] = e.id
      BY <2>1 DEF Lie
    <2>3. p \in 1 .. n
      OBVIOUS
    <2> HIDE DEF s, n
    <2>4. s + p <= Len(rc')
      BY <1>3, <2>1, <2>3
    <2>5. QED
      BY <2>2, <2>4 DEF s
  <1>9. RcIntact'
    BY <1>8 DEF RcIntact
  <1>10. QED
    BY <1>3, <1>7, <1>9

(* A collection appends entries in the order of their frames.              *)
LEMMA CollectionKeepsOrder ==
  ASSUME Types, FramesCut, RetiredInOrder, NEW fr \in activeFr .. nFrame, NEW K,
         Closed(K, EfIdx(fr)), RetireEffect(K, EfIdx(fr)), activeFr' = fr
  PROVE  RetiredInOrder'
  <1> DEFINE eidx == EfIdx(fr)
             len == Len(ret)
  <1>1. /\ activeFr \in Nat /\ fr \in Nat /\ activeFr <= fr /\ nFrame \in Nat
        /\ eidx \in Nat /\ entBase <= eidx /\ eidx <= entNext
    BY ExitsByFrame DEF Types
  <1>2. /\ len \in Nat /\ DOMAIN ret = 1 .. len
        /\ \A i \in K : i \in DOMAIN ent /\ i \in Nat /\ i < eidx /\ Rank(K, i) \in Nat
    BY <1>1, CollectionFacts
  <1>3. \A k \in DOMAIN ret' :
          \/ k \in DOMAIN ret /\ ret'[k] = ret[k]
          \/ \E i \in K : k = len + Rank(K, i) + 1 /\ ret'[k].frame = ent[i].frame
    <2> SUFFICES ASSUME NEW k \in DOMAIN ret', ~ (k \in DOMAIN ret /\ ret'[k] = ret[k])
                 PROVE  \E i \in K : k = len + Rank(K, i) + 1 /\ ret'[k].frame = ent[i].frame
      OBVIOUS
    <2>1. PICK i \in K : /\ k = len + Rank(K, i) + 1
                         /\ IsCopy(ret'[k], ent[i], Remap(K, eidx, ent[i].bp), Retiring(K, eidx)[i].dest)
      BY <1>1, RetiredFrom
    <2>2. QED
      BY <2>1 DEF IsCopy
  <1>4. \A i \in K : ent[i].frame \in Nat /\ activeFr <= ent[i].frame /\ ent[i].frame < fr
    <2> SUFFICES ASSUME NEW i \in K
                 PROVE  ent[i].frame \in Nat /\ activeFr <= ent[i].frame /\ ent[i].frame < fr
      OBVIOUS
    <2>1. i \in DOMAIN ent /\ ent[i].frame \in activeFr .. (nFrame - 1) /\ ~ (i >= eidx)
      BY <1>1, <1>2, ExitsByFrame
    <2>2. ~ (ent[i].frame >= fr)
      BY <2>1 DEF FramesCut
    <2>3. QED
      BY <1>1, <2>1, <2>2
  <1>5. \A k \in DOMAIN ret : ret[k].frame \in Nat /\ ret[k].frame < activeFr
    BY RetiredEntries DEF RetiredInOrder
  <1> HIDE DEF eidx, len
  <1>6. ASSUME NEW k \in DOMAIN ret'
        PROVE  ret'[k].frame < activeFr'
    <2>1. CASE k \in DOMAIN ret /\ ret'[k] = ret[k]
      <3> DEFINE f == ret[k].frame
      <3>1. f \in Nat /\ f < activeFr
        BY <1>5, <2>1
      <3> HIDE DEF f
      <3>2. f < fr
        BY <1>1, <3>1
      <3>3. QED
        BY <2>1, <3>2 DEF f
    <2>2. CASE \E i \in K : ret'[k].frame = ent[i].frame
      BY <1>4, <2>2
    <2>3. QED
      BY <1>3, <2>1, <2>2
  <1>7. ASSUME NEW j \in DOMAIN ret', NEW k \in DOMAIN ret', j <= k
        PROVE  ret'[j].frame <= ret'[k].frame
    <2>1. CASE /\ j \in DOMAIN ret /\ ret'[j] = ret[j]
               /\ k \in DOMAIN ret /\ ret'[k] = ret[k]
      BY <1>7, <2>1 DEF RetiredInOrder
    <2>2. CASE /\ j \in DOMAIN ret /\ ret'[j] = ret[j]
               /\ \E i \in K : ret'[k].frame = ent[i].frame
      <3>1. PICK i \in K : ret'[k].frame = ent[i].frame
        BY <2>2
      <3> DEFINE f == ret[j].frame
                 g == ent[i].frame
      <3>2. f \in Nat /\ f < activeFr /\ g \in Nat /\ activeFr <= g
        BY <1>4, <1>5, <2>2
      <3> HIDE DEF f, g
      <3>3. f <= g
        BY <1>1, <3>2
      <3>4. QED
        BY <2>2, <3>1, <3>3 DEF f, g
    <2>3. ASSUME NEW h \in K, j = len + Rank(K, h) + 1, ret'[j].frame = ent[h].frame,
                 k \in DOMAIN ret
          PROVE  FALSE
      <3> DEFINE r == Rank(K, h)
      <3>1. r \in Nat /\ k \in 1 .. len /\ j = len + r + 1
        BY <1>2, <2>3
      <3> HIDE DEF r
      <3>2. QED
        BY <1>2, <1>7, <3>1
    <2>4. ASSUME NEW h \in K, j = len + Rank(K, h) + 1, ret'[j].frame = ent[h].frame,
                 NEW i \in K, k = len + Rank(K, i) + 1, ret'[k].frame = ent[i].frame
          PROVE  ret'[j].frame <= ret'[k].frame
      <3> DEFINE r == Rank(K, h)
                 q == Rank(K, i)
      <3>1. r \in Nat /\ q \in Nat /\ j = len + r + 1 /\ k = len + q + 1
        BY <1>2, <2>4
      <3>2. ~ (q < r)
        <4> HIDE DEF r, q
        <4>1. QED
          BY <1>2, <1>7, <3>1
      <3>3. ~ (i < h)
        <4>1. K \in SUBSET (entBase .. (eidx - 1)) /\ entBase \in Nat
          BY CollectionFacts, <1>1 DEF Closed, eidx, Types
        <4>2. i < h => Rank(K, i) < Rank(K, h)
          BY <1>1, <4>1, Ranks DEF eidx
        <4>3. QED
          BY <3>2, <4>2
      <3>4. h <= i /\ h \in DOMAIN ent /\ i \in DOMAIN ent
        BY <1>2, <3>3
      <3>5. ent[h].frame <= ent[i].frame
        BY <3>4, ExitsByFrame
      <3>6. QED
        BY <2>4, <3>5
    <2>5. QED
      BY <1>3, <2>1, <2>2, <2>3, <2>4
  <1>8. QED
    BY <1>6, <1>7 DEF RetiredInOrder
-----------------------------------------------------------------------------
(* bptbl_active_sf. *)

(* The entries, as far as the lemmas below need to know them.              *)
EntryTypes ==
  /\ ret \in Seq(EntryRecord) /\ ent \in [entBase .. (entNext - 1) -> EntryRecord]
  /\ ret # <<>>

(* oldest_bp is the last retired entry or what an active one points to, and*)
(* none points behind it.                                                  *)
LEMMA OldestIsOldest ==
  EntryTypes /\ oldestBp = Oldest(ent, Len(ret)) =>
    /\ oldestBp \in {NoBp} \cup (0 .. (Len(ret) - 1))
    /\ \A i \in DOMAIN ent : oldestBp <= ent[i].bp
    /\ oldestBp = Len(ret) - 1 \/ \E i \in DOMAIN ent : oldestBp = ent[i].bp
  <1> SUFFICES ASSUME EntryTypes, oldestBp = Oldest(ent, Len(ret))
               PROVE  /\ oldestBp \in {NoBp} \cup (0 .. (Len(ret) - 1))
                      /\ \A i \in DOMAIN ent : oldestBp <= ent[i].bp
                      /\ oldestBp = Len(ret) - 1 \/ \E i \in DOMAIN ent : oldestBp = ent[i].bp
    OBVIOUS
  <1> DEFINE S == {Len(ret) - 1} \cup {ent[i].bp : i \in DOMAIN ent}
  <1>1. Len(ret) \in Nat /\ Len(ret) - 1 \in Nat
    BY DEF EntryTypes
  <1>2. \A i \in DOMAIN ent : ent[i].bp \in Nat \cup {NoBp}
    <2>1. \A i \in DOMAIN ent : ent[i] \in EntryRecord
      BY DEF EntryTypes
    <2>2. \A e \in EntryRecord : e.bp \in Nat \cup {NoBp}
      BY DEF EntryRecord
    <2>3. QED
      BY <2>1, <2>2
  <1>3. S \in SUBSET (Nat \cup {-1}) /\ S # {}
    BY <1>1, <1>2 DEF NoBp
  <1>4. oldestBp = Min(S)
    BY DEF Oldest
  <1>5. /\ Len(ret) - 1 \in S /\ \A i \in DOMAIN ent : ent[i].bp \in S
        /\ \A n \in S : n = Len(ret) - 1 \/ \E i \in DOMAIN ent : n = ent[i].bp
    OBVIOUS
  <1> HIDE DEF S
  <1>6. oldestBp \in S /\ \A n \in S : oldestBp <= n
    BY <1>3, <1>4, Smallest
  <1>7. oldestBp \in Nat \cup {-1} /\ oldestBp <= Len(ret) - 1
    BY <1>3, <1>5, <1>6
  <1>8. oldestBp \in {NoBp} \cup (0 .. (Len(ret) - 1))
    BY <1>1, <1>7 DEF NoBp
  <1>9. QED
    BY <1>5, <1>6, <1>8

(* The same of the next state.                                             *)
LEMMA OldestIsOldestPrimed ==
  EntryTypes' /\ (oldestBp = Oldest(ent, Len(ret)))' =>
    /\ (oldestBp \in {NoBp} \cup (0 .. (Len(ret) - 1)))'
    /\ (\A i \in DOMAIN ent : oldestBp <= ent[i].bp)'
    /\ (oldestBp = Len(ret) - 1 \/ \E i \in DOMAIN ent : oldestBp = ent[i].bp)'
  BY OldestIsOldest, PTL

(* Retired entries are in the order of their frames, so the oldest one that*)
(* an active entry points to bounds the frames where active ones start.    *)
LEMMA OldestBoundsTheFrames ==
  Types /\ FramesCut /\ RetiredInOrder /\ Pointers /\ OldestFirst => ActiveSfIsABound
  <1> SUFFICES ASSUME Types, FramesCut, RetiredInOrder, Pointers,
                      OldestFirst, NEW i \in DOMAIN ent
               PROVE  EndFrame(ent[i].bp) + 1 >= EndFrame(oldestBp) + 1
    BY DEF ActiveSfIsABound, StartFrame, ActiveSf
  <1> DEFINE bp == ent[i].bp
             f == EndFrame(bp)
             g == EndFrame(oldestBp)
  <1>1. /\ Len(ret) \in Nat /\ DOMAIN ret = 1 .. Len(ret) /\ Len(ret) <= entBase
        /\ entBase \in Nat /\ activeFr \in Nat /\ DOMAIN ent = entBase .. (entNext - 1)
    BY RetiredEntries, ActiveEntries DEF Types
  <1>2. \A b \in 0 .. (Len(ret) - 1) :
          /\ b + 1 \in DOMAIN ret /\ EndFrame(b) = ret[b + 1].frame
          /\ EndFrame(b) \in Nat /\ EndFrame(b) < activeFr
    <2> SUFFICES ASSUME NEW b \in 0 .. (Len(ret) - 1)
                 PROVE  /\ b + 1 \in DOMAIN ret /\ EndFrame(b) = ret[b + 1].frame
                        /\ EndFrame(b) \in Nat /\ EndFrame(b) < activeFr
      OBVIOUS
    <2>1. b + 1 \in DOMAIN ret /\ b < entBase /\ b # NoBp
      BY <1>1 DEF NoBp
    <2>2. EndFrame(b) = ret[b + 1].frame
      BY <2>1 DEF EndFrame, Entry
    <2>3. ret[b + 1].frame \in Nat /\ ret[b + 1].frame < activeFr
      BY <2>1, RetiredEntries DEF RetiredInOrder
    <2>4. QED
      BY <2>1, <2>2, <2>3
  <1>3. oldestBp \in {NoBp} \cup (0 .. (Len(ret) - 1)) /\ oldestBp <= bp
    BY DEF Types, OldestFirst
  <1>4. f \in Int /\ f >= -1
    <2>1. f \in Int
      BY Predecessor
    <2>2. CASE bp = NoBp
      BY <2>2 DEF EndFrame
    <2>3. CASE bp \in 0 .. (Len(ret) - 1)
      BY <1>2, <2>3
    <2>4. CASE bp \in DOMAIN ent
      <3>1. f = ent[bp].frame /\ ent[bp].frame \in Nat
        BY <1>1, <2>4, Predecessor, ActiveEntries
      <3>2. QED
        BY <3>1
    <2>5. QED
      BY <2>1, <2>2, <2>3, <2>4 DEF Pointers
  <1>5. CASE oldestBp = NoBp
    <2>1. g = -1
      BY <1>5 DEF EndFrame
    <2> HIDE DEF f, g
    <2>2. f + 1 >= g + 1
      BY <1>4, <2>1
    <2>3. QED
      BY <2>2 DEF f, g
  <1>6. CASE oldestBp \in 0 .. (Len(ret) - 1)
    <2>1. oldestBp + 1 \in DOMAIN ret /\ g = ret[oldestBp + 1].frame /\ g \in Nat /\ g < activeFr
      BY <1>2, <1>6
    <2>2. f >= g
      <3>1. CASE bp = NoBp
        BY <1>3, <1>6, <3>1 DEF NoBp
      <3>2. CASE bp \in 0 .. (Len(ret) - 1)
        <4>1. bp + 1 \in DOMAIN ret /\ f = ret[bp + 1].frame /\ oldestBp + 1 <= bp + 1
          BY <1>2, <1>3, <1>6, <3>2
        <4>2. ret[oldestBp + 1].frame <= ret[bp + 1].frame
          BY <2>1, <4>1 DEF RetiredInOrder
        <4> HIDE DEF f, g
        <4>3. QED
          BY <2>1, <4>1, <4>2, <1>4
      <3>3. CASE bp \in DOMAIN ent
        <4>1. f = ent[bp].frame /\ ent[bp].frame \in activeFr .. (nFrame - 1)
          BY <3>3, Predecessor, ExitsByFrame
        <4>2. f >= activeFr
          BY <1>1, <4>1
        <4> HIDE DEF f, g
        <4>3. QED
          BY <1>1, <1>4, <2>1, <4>2
      <3>4. QED
        BY <3>1, <3>2, <3>3 DEF Pointers
    <2> HIDE DEF f, g
    <2>3. f + 1 >= g + 1
      BY <1>4, <2>1, <2>2
    <2>4. QED
      BY <2>3 DEF f, g
  <1>7. QED
    BY <1>3, <1>5, <1>6

(* bptbl_remap finds the oldest entry that an active one points to.        *)
LEMMA CollectionFindsOldest ==
  ASSUME Types, FramesCut, NEW K, NEW eidx \in Nat, entBase <= eidx, eidx <= entNext,
         Closed(K, eidx), RetireEffect(K, eidx), ~Aborts(K), entNext' = entNext
  PROVE  /\ oldestBp' \in {NoBp} \cup (0 .. (Len(ret') - 1))
         /\ \A i \in DOMAIN ent' : oldestBp' <= ent'[i].bp
         /\ oldestBp' = Len(ret') - 1 \/ \E i \in DOMAIN ent' : oldestBp' = ent'[i].bp
         /\ ret' # <<>>
  <1>1. /\ ret' \in Seq(EntryRecord) /\ entBase' = eidx
        /\ ent' \in [eidx .. (entNext - 1) -> EntryRecord]
        /\ oldestBp' = Oldest(ent', Len(ret'))
    BY DEF RetireEffect
  <1>2. ret' # <<>>
    <2>1. Len(ret') # 0
      <3>1. CASE ret # <<>>
        <4>1. ret \in Seq(EntryRecord)
          BY DEF Types
        <4>2. Len(ret) # 0
          BY <3>1, <4>1
        <4>3. QED
          BY <4>2, CollectionFacts
      <3>2. CASE K # {}
        <4>1. PICK i \in K : TRUE
          BY <3>2
        <4>2. Len(ret) + Rank(K, i) \in 0 .. (Len(ret') - 1)
          BY CollectionFacts
        <4>3. QED
          BY <4>2
      <3>3. QED
        BY <3>1, <3>2 DEF Aborts
    <2>2. QED
      BY <2>1
  <1>3. EntryTypes'
    BY <1>1, <1>2 DEF EntryTypes, EntryRecord, NoBp
  <1>4. (oldestBp = Oldest(ent, Len(ret)))'
    BY <1>1 DEF Oldest
  <1>5. QED
    BY <1>2, <1>3, <1>4, OldestIsOldestPrimed DEF NoBp
-----------------------------------------------------------------------------
(* The frames of the table after a frame is pushed. *)

(* bptbl_push_frame and bptbl_update_active leave frames that cut the      *)
(* entries.                                                                *)
LEMMA FramesAdded ==
  ASSUME Types, FramesCut, NEW fr \in activeFr .. nFrame,
         FramesFrom(fr), nFrame' = nFrame + 1, entNext' = entNext, entBase' = EfIdx(fr),
         DOMAIN ent' = EfIdx(fr) .. (entNext - 1),
         \A i \in DOMAIN ent' : ent'[i].frame = ent[i].frame
  PROVE  /\ FramesCut' /\ efIdx' \in [activeFr' .. (nFrame' - 1) -> Nat]
         /\ activeFr' \in Nat /\ nFrame' \in Nat /\ activeFr' < nFrame' /\ activeFr <= activeFr'
  <1> DEFINE eidx == EfIdx(fr)
             after(f) == IF f < activeFr' THEN 0 ELSE IF f >= nFrame' THEN entNext' ELSE efIdx'[f]
  <1>1. /\ activeFr \in Nat /\ nFrame \in Nat /\ fr \in Nat /\ activeFr <= fr /\ fr <= nFrame
        /\ entNext \in Nat /\ entBase \in Nat /\ DOMAIN ent = entBase .. (entNext - 1)
        /\ eidx \in Nat /\ entBase <= eidx /\ eidx <= entNext
    <2>1. /\ activeFr \in Nat /\ nFrame \in Nat /\ entNext \in Nat /\ entBase \in Nat
          /\ DOMAIN ent = entBase .. (entNext - 1)
      BY ActiveEntries DEF Types
    <2>2. eidx \in Nat /\ entBase <= eidx /\ eidx <= entNext
      BY ExitsByFrame
    <2>3. QED
      BY <2>1, <2>2
  <1>2. activeFr' = fr /\ efIdx' = [f \in fr .. nFrame |-> EfIdx(f)] /\ nFrame' = nFrame + 1
    BY DEF FramesFrom
  <1>3. \A f \in fr .. nFrame : EfIdx(f) \in Nat /\ EfIdx(f) <= entNext
    <2>1. \A f \in fr .. nFrame : f \in activeFr .. nFrame
      BY <1>1
    <2>2. QED
      BY <2>1, ExitsByFrame
  <1>4. \A i \in DOMAIN ent' : i \in DOMAIN ent /\ i \in Nat /\ i >= eidx /\ i < entNext
    BY <1>1
  <1>5. /\ \A f \in fr .. nFrame : after(f) = EfIdx(f)
        /\ after(nFrame + 1) = entNext
    <2> SUFFICES ASSUME NEW f \in fr .. (nFrame + 1)
                 PROVE  after(f) = IF f = nFrame + 1 THEN entNext ELSE EfIdx(f)
      BY <1>1
    <2>1. ~ (f < activeFr') /\ f \in Nat
      BY <1>1, <1>2
    <2>2. CASE f = nFrame + 1
      BY <1>1, <1>2, <2>1, <2>2
    <2>3. CASE f # nFrame + 1
      <3>1. f \in fr .. nFrame /\ ~ (f >= nFrame')
        BY <1>1, <1>2, <2>3
      <3>2. QED
        BY <1>2, <2>1, <2>3, <3>1
    <2>4. QED
      BY <2>2, <2>3
  <1>6. \A f \in fr .. nFrame : eidx <= EfIdx(f)
    <2> SUFFICES ASSUME NEW f \in fr .. nFrame, ~ (eidx <= EfIdx(f))
                 PROVE  FALSE
      OBVIOUS
    <2> DEFINE i == EfIdx(f)
    <2>1. i \in Nat /\ entBase <= i /\ i <= entNext /\ f \in activeFr .. nFrame /\ f \in Nat
      BY <1>1, ExitsByFrame
    <2>2. i \in DOMAIN ent /\ ~ (i >= eidx)
      BY <1>1, <2>1
    <2>3. ent[i].frame >= f /\ ~ (ent[i].frame >= fr)
      BY <1>1, <2>1, <2>2 DEF FramesCut
    <2>4. ent[i].frame \in Nat /\ f >= fr
      BY <1>1, <2>2, ActiveEntries
    <2> HIDE DEF i
    <2>5. QED
      BY <1>1, <2>1, <2>3, <2>4
  <1>7. \A f \in fr .. (nFrame + 1) : after(f) \in eidx .. entNext
    <2> SUFFICES ASSUME NEW f \in fr .. (nFrame + 1)
                 PROVE  after(f) \in eidx .. entNext
      OBVIOUS
    <2> HIDE DEF after, eidx
    <2>1. CASE f = nFrame + 1
      BY <1>1, <1>5, <2>1
    <2>2. CASE f # nFrame + 1
      <3>1. f \in fr .. nFrame
        BY <1>1, <2>2
      <3>2. after(f) = EfIdx(f) /\ EfIdx(f) \in Nat /\ eidx <= EfIdx(f) /\ EfIdx(f) <= entNext
        BY <1>3, <1>5, <1>6, <3>1
      <3>3. QED
        BY <1>1, <3>2
    <2>3. QED
      BY <2>1, <2>2
  <1>8. ASSUME NEW f \in fr .. (nFrame + 1), NEW i \in DOMAIN ent'
        PROVE  i >= after(f) <=> ent'[i].frame >= f
    <2>1. i \in DOMAIN ent /\ ent'[i].frame = ent[i].frame /\ i \in Nat /\ i < entNext
      BY <1>4
    <2>2. CASE f = nFrame + 1
      <3>1. after(f) = entNext
        BY <1>5, <2>2
      <3>2. ent[i].frame \in activeFr .. (nFrame - 1)
        BY <2>1, ExitsByFrame
      <3> HIDE DEF after
      <3>3. QED
        BY <1>1, <2>1, <2>2, <3>1, <3>2
    <2>3. CASE f \in fr .. nFrame
      <3>1. after(f) = EfIdx(f) /\ f \in activeFr .. nFrame
        BY <1>1, <1>5, <2>3
      <3>2. i >= EfIdx(f) <=> ent[i].frame >= f
        BY <2>1, <3>1 DEF FramesCut
      <3> HIDE DEF after
      <3>3. QED
        BY <2>1, <3>1, <3>2
    <2>4. QED
      BY <1>1, <2>2, <2>3
  <1>9. after(fr) = eidx
    BY <1>1, <1>5
  <1>10. FramesCut'
    <2>1. /\ after(activeFr') = entBase'
          /\ \A f \in activeFr' .. nFrame' : after(f) \in entBase' .. entNext'
          /\ \A f \in activeFr' .. nFrame' : \A i \in DOMAIN ent' : i >= after(f) <=> ent'[i].frame >= f
      <3> HIDE DEF after
      <3>1. QED
        BY <1>2, <1>7, <1>8, <1>9
    <2>2. nFrame' \in Nat /\ activeFr' \in Nat /\ activeFr' <= nFrame'
      BY <1>1, <1>2
    <2>3. \A f \in activeFr' .. nFrame' : EfIdx(f)' = after(f)
      BY <2>2 DEF EfIdx
    <2>4. EfIdx(activeFr)' = after(activeFr')
      BY <2>2 DEF EfIdx
    <2> HIDE DEF after
    <2>5. QED
      BY <2>1, <2>3, <2>4 DEF FramesCut
  <1>11. efIdx' \in [activeFr' .. (nFrame' - 1) -> Nat]
    <2>1. nFrame' - 1 = nFrame
      BY <1>1, <1>2
    <2>2. QED
      BY <1>2, <1>3, <2>1
  <1>12. QED
    BY <1>1, <1>2, <1>10, <1>11

(* The parts of the invariant about the entries.                           *)
EntriesInv == Pointers /\ Scores /\ PredecessorsKept /\ RcIntact /\ OldestFirst

(* What does not touch the entries keeps what is said of them.             *)
LEMMA EntriesInvUnchanged ==
  ASSUME EntriesInv, UNCHANGED entriesVars
  PROVE  EntriesInv'
  <1> USE DEF entriesVars
  <1>1. Pointers'
    BY DEF EntriesInv, Pointers
  <1>2. Scores'
    BY DEF EntriesInv, Scores
  <1>3. PredecessorsKept'
    BY DEF EntriesInv, PredecessorsKept, Entries, Entry
  <1>4. RcIntact'
    BY DEF EntriesInv, RcIntact, Entries
  <1>5. OldestFirst'
    BY DEF EntriesInv, OldestFirst
  <1>6. QED
    BY <1>1, <1>2, <1>3, <1>4, <1>5 DEF EntriesInv

(* Where the oldest history of the search may be.                          *)
LEMMA NextActive ==
  ASSUME Types, FramesCut, NEW oldest \in Histories
  PROVE  /\ oldest \in Nat \cup {NoBp} /\ lo <= oldest
         /\ NeedsGc(oldest) => /\ NextActiveFr(oldest) \in activeFr .. nFrame
                               /\ oldest \in Nat
  <1>1. /\ entBase \in Nat /\ entNext \in Nat /\ DOMAIN ent = entBase .. (entNext - 1)
        /\ activeFr \in Nat /\ nFrame \in Nat
    BY ActiveEntries DEF Types
  <1>2. oldest \in {NoBp} \cup (entBase .. (entNext - 1)) /\ lo <= oldest
    BY DEF Histories
  <1>3. CASE oldest = NoBp
    <2>1. NextActiveFr(oldest) = 0
      BY <1>3 DEF NextActiveFr
    <2>2. ~ NeedsGc(oldest)
      BY <1>1, <2>1 DEF NeedsGc
    <2>3. QED
      BY <1>2, <1>3, <2>2
  <1>4. CASE oldest \in entBase .. (entNext - 1)
    <2>1. oldest \in DOMAIN ent /\ oldest \in Nat /\ oldest # NoBp
      BY <1>1, <1>4 DEF NoBp
    <2>2. ent[oldest].frame \in activeFr .. (nFrame - 1)
      BY <2>1, ExitsByFrame
    <2>3. NextActiveFr(oldest) = ent[oldest].frame
      BY <2>1 DEF NextActiveFr
    <2>4. NextActiveFr(oldest) \in activeFr .. nFrame
      BY <1>1, <2>2, <2>3
    <2>5. QED
      BY <1>2, <2>1, <2>4
  <1>5. QED
    BY <1>2, <1>3, <1>4

(* A frame is pushed and no entry touched.                                 *)
LEMMA FrameOnly ==
  ASSUME IInv, NEW oldest \in Histories, Push(oldest), NEW fr \in activeFr .. nFrame,
         EfIdx(fr) = entBase, FramesFrom(fr), UNCHANGED entriesVars
  PROVE  IInv'
  <1>1. Types /\ FramesCut /\ RetiredInOrder /\ EntriesInv /\ HistoriesGoOn
    BY DEF IInv, EntriesInv
  <1>2. /\ ret' = ret /\ ent' = ent /\ entBase' = entBase /\ entNext' = entNext
        /\ oldestBp' = oldestBp /\ rc' = rc /\ destS' = destS
        /\ lo' = oldest /\ nFrame' = nFrame + 1 /\ entered' = entered /\ pc = "push"
    BY DEF entriesVars, Push
  <1>3. DOMAIN ent = entBase .. (entNext - 1)
    BY <1>1, ActiveEntries
  <1>4. /\ FramesCut' /\ efIdx' \in [activeFr' .. (nFrame' - 1) -> Nat]
        /\ activeFr' \in Nat /\ nFrame' \in Nat /\ activeFr' < nFrame' /\ activeFr <= activeFr'
    BY <1>1, <1>2, <1>3, FramesAdded
  <1>5. oldest \in Nat \cup {NoBp} /\ lo <= oldest
    BY <1>1, NextActive
  <1>6. Types'
    <2>1. /\ ret' \in Seq(EntryRecord) /\ ent' \in [entBase' .. (entNext' - 1) -> EntryRecord]
          /\ entBase' \in Nat /\ entNext' \in Nat /\ Len(ret') <= entBase' /\ entBase' <= entNext'
          /\ oldestBp' \in {NoBp} \cup (0 .. (Len(ret') - 1))
          /\ rc' \in Seq(Nat) /\ destS' \in Nat /\ destS' <= Len(rc') /\ entered' \in Nat
      BY <1>1, <1>2 DEF Types
    <2>2. lo' \in Nat \cup {NoBp} /\ activeFr' <= nFrame'
      BY <1>2, <1>4, <1>5
    <2>3. QED
      BY <1>4, <2>1, <2>2 DEF Types, EntryRecord, NoBp
  <1>7. RetiredInOrder'
    <2>1. \A k \in DOMAIN ret : ret[k].frame < activeFr'
      <3> SUFFICES ASSUME NEW k \in DOMAIN ret
                   PROVE  ret[k].frame < activeFr'
        OBVIOUS
      <3> DEFINE f == ret[k].frame
      <3>1. f \in Nat /\ f < activeFr /\ activeFr \in Nat
        BY <1>1, RetiredEntries DEF RetiredInOrder, Types
      <3> HIDE DEF f
      <3>2. f < activeFr'
        BY <1>4, <3>1
      <3>3. QED
        BY <3>2 DEF f
    <2>2. QED
      BY <1>1, <1>2, <2>1 DEF RetiredInOrder
  <1>8. EntriesInv'
    BY <1>1, EntriesInvUnchanged
  <1>9. HistoriesGoOn'
    <2> SUFFICES ASSUME oldestBp # NoBp
                 PROVE  lo' >= 0
      BY <1>2 DEF HistoriesGoOn, NoBp
    <2>1. lo >= 0 /\ lo \in Nat \cup {NoBp}
      BY <1>1, <1>2 DEF HistoriesGoOn, Types
    <2>2. QED
      BY <1>2, <1>5, <2>1 DEF NoBp
  <1>10. QED
    BY <1>4, <1>6, <1>7, <1>8, <1>9 DEF IInv, EntriesInv
-----------------------------------------------------------------------------
(* The collections. *)

(* What a collection needs of the frames it leaves.                        *)
FramesAfter(fr) ==
  /\ FramesCut' /\ activeFr' = fr /\ activeFr' <= nFrame' /\ nFrame' \in Nat
  /\ efIdx' \in [activeFr' .. (nFrame' - 1) -> Nat]
  /\ pc' = "enter" => activeFr' < nFrame'
  /\ lo' \in Nat \cup {NoBp} /\ entered' \in Nat /\ entNext' = entNext
  /\ HistoriesGoOn'

(* A collection, with the frames after it, keeps the invariant.            *)
LEMMA Collected ==
  ASSUME IInv, NEW fr \in activeFr .. nFrame, NEW K, Closed(K, EfIdx(fr)),
         RetireEffect(K, EfIdx(fr)), ~ Aborts(K), FramesAfter(fr)
  PROVE  IInv'
  <1> DEFINE eidx == EfIdx(fr)
  <1>1. /\ Types /\ FramesCut /\ RetiredInOrder /\ Pointers /\ Scores
        /\ PredecessorsKept /\ RcIntact
    BY DEF IInv
  <1>2. eidx \in Nat /\ entBase <= eidx /\ eidx <= entNext /\ fr \in Nat /\ entNext \in Nat
    BY <1>1, ExitsByFrame DEF Types
  <1>3. /\ FramesCut' /\ HistoriesGoOn' /\ activeFr' = fr /\ entNext' = entNext
    BY DEF FramesAfter
  <1>4. Closed(K, eidx) /\ RetireEffect(K, eidx)
    OBVIOUS
  <1> HIDE DEF eidx
  <1>5. Pointers'
    BY <1>1, <1>2, <1>4, CollectionKeepsPointers
  <1>6. PredecessorsKept'
    BY <1>1, <1>2, <1>4, CollectionKeepsPredecessors
  <1>7. Scores' /\ RcIntact' /\ rc' \in Seq(Nat) /\ destS' \in Nat /\ destS' <= Len(rc')
    BY <1>1, <1>2, <1>3, <1>4, CollectionKeepsScores
  <1>8. RetiredInOrder'
    BY <1>1, <1>3, CollectionKeepsOrder
  <1>9. /\ oldestBp' \in {NoBp} \cup (0 .. (Len(ret') - 1))
        /\ \A i \in DOMAIN ent' : oldestBp' <= ent'[i].bp
    BY <1>1, <1>2, <1>3, <1>4, CollectionFindsOldest
  <1>10. Types'
    <2>1. /\ ret' \in Seq(EntryRecord) /\ ent' \in [entBase' .. (entNext' - 1) -> EntryRecord]
          /\ entBase' \in Nat /\ entNext' \in Nat /\ Len(ret') <= entBase' /\ entBase' <= entNext'
      BY <1>2, <1>3, <1>4 DEF RetireEffect
    <2>2. /\ efIdx' \in [activeFr' .. (nFrame' - 1) -> Nat] /\ activeFr' \in Nat /\ nFrame' \in Nat
          /\ activeFr' <= nFrame' /\ lo' \in Nat \cup {NoBp} /\ entered' \in Nat
          /\ pc' = "enter" => activeFr' < nFrame'
      BY <1>2 DEF FramesAfter
    <2>3. QED
      BY <1>7, <1>9, <2>1, <2>2 DEF Types, EntryRecord, NoBp
  <1>11. OldestFirst'
    BY <1>9 DEF OldestFirst
  <1>12. QED
    BY <1>3, <1>5, <1>6, <1>7, <1>8, <1>10, <1>11 DEF IInv

(* A collection of what is before frame fr: of it K is retired.            *)
CollectsUpTo(fr, K) ==
  /\ fr \in activeFr .. nFrame /\ EfIdx(fr) \in Nat /\ entBase <= EfIdx(fr) /\ EfIdx(fr) <= entNext
  /\ Closed(K, EfIdx(fr)) /\ RetireEffect(K, EfIdx(fr)) /\ ~ Aborts(K)
  /\ activeFr' = fr /\ entNext' = entNext /\ entered' = entered

(* bptbl_gc collects up to the frame of the oldest history.                *)
LEMMA PushCollects ==
  ASSUME IInv, NEW oldest \in Histories, PushAndGc(oldest)
  PROVE  CollectsUpTo(NextActiveFr(oldest), Survivors(NextActiveFr(oldest), nFrame))
  <1> DEFINE fr == NextActiveFr(oldest)
             K == Survivors(fr, nFrame)
             eidx == EfIdx(fr)
  <1>1. Types /\ FramesCut /\ RetiredInOrder /\ Pointers /\ Scores /\ RcIntact
    BY DEF IInv
  <1>2. /\ Push(oldest) /\ NeedsGc(oldest) /\ ~ Aborts(K) /\ Retire(K, eidx) /\ FramesFrom(fr)
    BY DEF PushAndGc
  <1>3. fr \in activeFr .. nFrame
    BY <1>1, <1>2, NextActive
  <1> HIDE DEF fr
  <1>4. eidx \in Nat /\ entBase <= eidx /\ eidx <= entNext
    BY <1>1, <1>3, ExitsByFrame
  <1>5. Closed(K, eidx)
    BY <1>1, <1>3, SurvivorsClosed
  <1> HIDE DEF K
  <1>6. RetireEffect(K, eidx)
    <2> HIDE DEF eidx
    <2>1. QED
      BY <1>1, <1>2, <1>4, <1>5, RetireHasEffect
  <1>7. activeFr' = fr /\ entNext' = entNext /\ entered' = entered
    BY <1>2 DEF Push, FramesFrom
  <1>8. CollectsUpTo(fr, K)
    BY <1>2, <1>3, <1>4, <1>5, <1>6, <1>7 DEF CollectsUpTo
  <1>9. QED
    BY <1>8 DEF fr, K

(* bptbl_push_frame with a collection.                                     *)
LEMMA PushAndGcKeeps ==
  ASSUME IInv, NEW oldest \in Histories, PushAndGc(oldest)
  PROVE  IInv'
  <1>1. Types /\ FramesCut
    BY DEF IInv
  <1>2. PICK fr \in activeFr .. nFrame : fr = NextActiveFr(oldest)
    BY PushCollects DEF CollectsUpTo
  <1>3. PICK K : K = Survivors(fr, nFrame)
    OBVIOUS
  <1>4. CollectsUpTo(fr, K)
    BY <1>2, <1>3, PushCollects
  <1>5. /\ lo' = oldest /\ nFrame' = nFrame + 1 /\ entNext' = entNext /\ entered' = entered
        /\ NeedsGc(oldest) /\ FramesFrom(fr) /\ pc' = "enter"
    BY <1>2 DEF PushAndGc, Push
  <1>6. oldest \in Nat
    BY <1>1, <1>5, NextActive
  <1>7. /\ entBase' = EfIdx(fr) /\ DOMAIN ent' = EfIdx(fr) .. (entNext - 1)
        /\ \A i \in DOMAIN ent' : ent'[i].frame = ent[i].frame
    BY <1>4 DEF CollectsUpTo, RetireEffect, IsCopy
  <1>8. /\ FramesCut' /\ efIdx' \in [activeFr' .. (nFrame' - 1) -> Nat]
        /\ activeFr' \in Nat /\ nFrame' \in Nat /\ activeFr' < nFrame' /\ activeFr <= activeFr'
    BY <1>1, <1>5, <1>7, FramesAdded
  <1>9. FramesAfter(fr)
    <2>1. activeFr' = fr
      BY <1>4 DEF CollectsUpTo
    <2>2. activeFr' <= nFrame'
      BY <1>8
    <2>3. HistoriesGoOn'
      BY <1>5, <1>6 DEF HistoriesGoOn
    <2>4. entered' \in Nat
      BY <1>1, <1>5 DEF Types
    <2>5. QED
      BY <1>5, <1>6, <1>8, <2>1, <2>2, <2>3, <2>4 DEF FramesAfter
  <1>10. QED
    BY <1>4, <1>9, Collected DEF CollectsUpTo

(* bptbl_finalize collects all there is, and keeps the last frame.         *)
LEMMA FinalizeCollects ==
  ASSUME IInv, FinalizeAndRetire
  PROVE  /\ CollectsUpTo(nFrame, Survivors(nFrame - 1, nFrame) \cup LastExits)
         /\ EfIdx(nFrame) = entNext /\ nFrame - 1 \in activeFr .. nFrame
  <1> DEFINE last == nFrame - 1
             survivors == Survivors(last, nFrame)
             K == survivors \cup LastExits
             eidx == EfIdx(nFrame)
  <1>1. Types /\ FramesCut /\ RetiredInOrder /\ Pointers /\ Scores /\ RcIntact
    BY DEF IInv
  <1>2. /\ ~ IsFinal /\ ~ Aborts(K) /\ Retire(K, entNext) /\ efIdx' = <<>> /\ activeFr' = nFrame
        /\ entNext' = entNext /\ entered' = entered
    BY DEF FinalizeAndRetire
  <1>3. /\ entBase \in Nat /\ entNext \in Nat /\ entBase <= entNext /\ DOMAIN ent = entBase .. (entNext - 1)
        /\ nFrame \in Nat /\ activeFr \in Nat /\ activeFr <= nFrame /\ nFrame \in activeFr .. nFrame
    BY <1>1, ActiveEntries DEF Types
  <1>4. eidx = entNext
    BY <1>1, ExitsByFrame
  <1>5. last \in activeFr .. nFrame /\ last + 1 = nFrame
    <2>1. entBase \in DOMAIN ent
      BY <1>2, <1>3 DEF IsFinal
    <2>2. ent[entBase].frame \in activeFr .. (nFrame - 1)
      BY <1>1, <2>1, ExitsByFrame
    <2>3. QED
      BY <1>3, <2>2
  <1>6. Closed(survivors, EfIdx(last))
    BY <1>1, <1>5, SurvivorsClosed
  <1>7. /\ LastExits = EfIdx(last) .. (entNext - 1)
        /\ EfIdx(last) \in Nat /\ entBase <= EfIdx(last) /\ EfIdx(last) <= entNext
    BY <1>1, <1>4, <1>5, ExitsByFrame DEF LastExits, Exits
  <1> HIDE DEF last, survivors, eidx
  <1>8. Closed(K, eidx)
    <2>1. \A i \in K : i \in entBase .. (eidx - 1) /\ i \in DOMAIN ent
      BY <1>3, <1>4, <1>6, <1>7 DEF Closed
    <2>2. \A i \in K : ent[i].bp \in DOMAIN ent => ent[i].bp \in K
      BY <1>6, <1>7 DEF Closed
    <2>3. eidx .. (entNext - 1) = {}
      BY <1>3, <1>4
    <2> HIDE DEF K
    <2>4. QED
      BY <2>1, <2>2, <2>3 DEF Closed
  <1> HIDE DEF K
  <1>9. RetireEffect(K, entNext)
    BY <1>1, <1>2, <1>3, <1>4, <1>8, RetireHasEffect
  <1>10. CollectsUpTo(nFrame, K)
    BY <1>2, <1>3, <1>4, <1>8, <1>9 DEF CollectsUpTo, eidx
  <1>11. QED
    BY <1>3, <1>4, <1>5, <1>10 DEF K, last, survivors, eidx

(* bptbl_finalize.                                                         *)
LEMMA FinalizeAndRetireKeeps ==
  ASSUME IInv, FinalizeAndRetire
  PROVE  IInv'
  <1>1. Types
    BY DEF IInv
  <1>2. /\ efIdx' = <<>> /\ activeFr' = nFrame
        /\ pc' = "done" /\ nFrame' = nFrame /\ entNext' = entNext /\ lo' = lo /\ entered' = entered
    BY DEF FinalizeAndRetire
  <1>3. /\ entNext \in Nat /\ nFrame \in Nat /\ activeFr \in Nat /\ activeFr <= nFrame
    BY <1>1 DEF Types
  <1>4. PICK K : CollectsUpTo(nFrame, K)
    BY FinalizeCollects
  <1>5. EfIdx(nFrame) = entNext
    BY FinalizeCollects
  <1>6. entBase' = entNext /\ DOMAIN ent' = {}
    <2>1. entBase' = entNext /\ DOMAIN ent' = entNext .. (entNext - 1)
      BY <1>4, <1>5 DEF CollectsUpTo, RetireEffect
    <2>2. QED
      BY <1>3, <2>1
  <1>7. activeFr' .. (nFrame' - 1) = {} /\ activeFr' .. nFrame' = {nFrame}
    BY <1>2, <1>3
  <1>8. FramesCut'
    <2>1. EfIdx(activeFr)' = entNext
      BY <1>2, <1>3 DEF EfIdx
    <2>2. EfIdx(nFrame)' = entNext
      BY <1>2, <1>3 DEF EfIdx
    <2>3. \A f \in activeFr' .. nFrame' : EfIdx(f)' = entNext
      BY <1>2, <1>3, <1>7 DEF EfIdx
    <2>4. entNext \in entBase' .. entNext'
      BY <1>2, <1>3, <1>6
    <2>5. QED
      BY <1>6, <2>1, <2>3, <2>4 DEF FramesCut
  <1>9. FramesAfter(nFrame)
    <2>1. efIdx' \in [activeFr' .. (nFrame' - 1) -> Nat]
      BY <1>2, <1>7
    <2>2. HistoriesGoOn' /\ (pc' = "enter" => activeFr' < nFrame')
      BY <1>2 DEF HistoriesGoOn
    <2>3. lo' \in Nat \cup {NoBp} /\ entered' \in Nat
      BY <1>1, <1>2 DEF Types
    <2>4. activeFr' <= nFrame' /\ nFrame' \in Nat
      BY <1>2, <1>3
    <2>5. QED
      BY <1>2, <1>8, <2>1, <2>2, <2>3, <2>4 DEF FramesAfter
  <1>10. QED
    BY <1>4, <1>9, Collected DEF CollectsUpTo
-----------------------------------------------------------------------------
(* What a search does to the entries of its last frame. *)

(* An entry as it may stand in the last frame.                             *)
LastEntry(e) ==
  /\ e.frame = nFrame - 1 /\ oldestBp <= e.bp
  /\ e.bp \in {NoBp} \cup (0 .. (Len(ret) - 1)) \cup (entBase .. (EfIdx(nFrame - 1) - 1))
  /\ IF e.bp = NoBp THEN e.prev = 0 ELSE Entry(e.bp).id = e.prev

(* The exits of the last frame are the last entries.                       *)
LEMMA LastFrame ==
  ASSUME Types, FramesCut, activeFr < nFrame
  PROVE  /\ nFrame - 1 \in Nat /\ nFrame - 1 \in activeFr .. nFrame
         /\ EfIdx(nFrame - 1) \in Nat /\ entBase <= EfIdx(nFrame - 1) /\ EfIdx(nFrame - 1) <= entNext
         /\ Exits(nFrame - 1, nFrame) = EfIdx(nFrame - 1) .. (entNext - 1)
         /\ \A i \in EfIdx(nFrame - 1) .. (entNext - 1) : i \in DOMAIN ent /\ ent[i].frame = nFrame - 1
  <1> DEFINE last == nFrame - 1
  <1>1. activeFr \in Nat /\ nFrame \in Nat /\ last \in Nat /\ last \in activeFr .. nFrame
        /\ last \in activeFr .. (nFrame - 1) /\ last + 1 = nFrame
    BY DEF Types
  <1>2. Exits(last, nFrame) = EfIdx(last) .. (entNext - 1)
    BY ExitsByFrame DEF Exits
  <1>3. Exits(last, nFrame) = {i \in DOMAIN ent : ent[i].frame = last}
    BY <1>1, ExitsByFrame
  <1>4. EfIdx(last) \in Nat /\ entBase <= EfIdx(last) /\ EfIdx(last) <= entNext
    BY <1>1, ExitsByFrame
  <1>5. QED
    BY <1>1, <1>2, <1>3, <1>4

(* The entries of the last frame are what they may be.                     *)
LEMMA LastEntries ==
  ASSUME IInv, activeFr < nFrame
  PROVE  \A i \in EfIdx(nFrame - 1) .. (entNext - 1) : LastEntry(ent[i])
  <1> DEFINE d == EfIdx(nFrame - 1)
  <1> SUFFICES ASSUME NEW i \in d .. (entNext - 1)
               PROVE  LastEntry(ent[i])
    OBVIOUS
  <1>1. Types /\ FramesCut /\ Pointers /\ OldestFirst /\ PredecessorsKept
    BY DEF IInv
  <1>2. i \in DOMAIN ent /\ ent[i].frame = nFrame - 1 /\ d \in Nat /\ entBase <= d
    BY <1>1, LastFrame
  <1>3. oldestBp <= ent[i].bp
    BY <1>1, <1>2 DEF OldestFirst
  <1>4. IF ent[i].bp = NoBp THEN ent[i].prev = 0 ELSE Entry(ent[i].bp).id = ent[i].prev
    BY <1>1, <1>2 DEF PredecessorsKept, Entries
  <1>5. ent[i].bp \in {NoBp} \cup (0 .. (Len(ret) - 1)) \cup (entBase .. (d - 1))
    <2>1. ASSUME ent[i].bp \in DOMAIN ent, ent[ent[i].bp].frame < ent[i].frame
          PROVE  ent[i].bp \in entBase .. (d - 1)
      <3> DEFINE bp == ent[i].bp
      <3>1. DOMAIN ent = entBase .. (entNext - 1) /\ entBase \in Nat /\ entNext \in Nat
        BY <1>1, ActiveEntries
      <3>2. bp \in entBase .. (entNext - 1) /\ bp \in Nat
        BY <2>1, <3>1
      <3>3. bp \notin d .. (entNext - 1)
        <4>1. ASSUME bp \in d .. (entNext - 1)
              PROVE  FALSE
          <5>1. ent[bp].frame = nFrame - 1
            BY <1>1, <4>1, LastFrame
          <5>2. nFrame - 1 \in Nat
            BY <1>1, LastFrame
          <5>3. QED
            BY <1>2, <2>1, <5>1, <5>2
        <4>2. QED
          BY <4>1
      <3> HIDE DEF bp
      <3>4. bp \in entBase .. (d - 1)
        BY <1>2, <3>1, <3>2, <3>3
      <3>5. QED
        BY <3>4 DEF bp
    <2>2. QED
      BY <1>1, <1>2, <2>1 DEF Pointers
  <1>6. QED
    BY <1>2, <1>3, <1>4, <1>5 DEF LastEntry

(* Which histories a word exit may have.                                   *)
LEMMA HistoryOfExit ==
  ASSUME IInv, pc = "enter", NEW bp \in Histories, bp < EfIdx(nFrame - 1)
  PROVE  /\ bp \in {NoBp} \cup (entBase .. (EfIdx(nFrame - 1) - 1)) /\ oldestBp <= bp
         /\ bp \in Nat \cup {NoBp}
         /\ bp # NoBp => bp \in DOMAIN ent
  <1> DEFINE d == EfIdx(nFrame - 1)
  <1>1. Types /\ FramesCut /\ HistoriesGoOn
    BY DEF IInv
  <1>2. activeFr < nFrame /\ entBase \in Nat /\ entNext \in Nat /\ DOMAIN ent = entBase .. (entNext - 1)
        /\ Len(ret) <= entBase /\ Len(ret) \in Nat
    BY <1>1, ActiveEntries, RetiredEntries DEF Types
  <1>3. d \in Nat
    BY <1>1, <1>2, LastFrame
  <1>4. bp \in {NoBp} \cup (entBase .. (entNext - 1)) /\ lo <= bp
    BY DEF Histories
  <1>5. oldestBp \in {NoBp} \cup (0 .. (Len(ret) - 1)) /\ lo \in Nat \cup {NoBp}
    BY <1>1 DEF Types
  <1>6. bp < d
    OBVIOUS
  <1> HIDE DEF d
  <1>7. CASE bp = NoBp
    <2>1. ~ (lo >= 0)
      BY <1>4, <1>5, <1>7 DEF NoBp
    <2>2. oldestBp = NoBp
      BY <1>1, <2>1 DEF HistoriesGoOn
    <2>3. QED
      BY <1>7, <2>2 DEF NoBp
  <1>8. CASE bp \in entBase .. (entNext - 1)
    <2>1. bp \in entBase .. (d - 1) /\ bp \in Nat /\ bp \in DOMAIN ent
      BY <1>2, <1>3, <1>6, <1>8
    <2>2. oldestBp <= bp
      BY <1>2, <1>5, <2>1 DEF NoBp
    <2>3. QED
      BY <2>1, <2>2 DEF d
  <1>9. QED
    BY <1>4, <1>7, <1>8

(* A later frame has no earlier first entry.                               *)
LEMMA EfIdxMonotone ==
  ASSUME Types, FramesCut, NEW f \in activeFr .. nFrame, NEW g \in activeFr .. nFrame, f <= g
  PROVE  EfIdx(f) <= EfIdx(g)
  <1> SUFFICES ASSUME ~ (EfIdx(f) <= EfIdx(g))
               PROVE  FALSE
    OBVIOUS
  <1> DEFINE i == EfIdx(g)
             j == EfIdx(f)
  <1>1. /\ i \in Nat /\ entBase <= i /\ j \in Nat /\ j <= entNext /\ i < j
        /\ f \in Nat /\ g \in Nat /\ entBase \in Nat /\ entNext \in Nat
        /\ DOMAIN ent = entBase .. (entNext - 1)
    <2>1. i \in Nat /\ entBase <= i /\ j \in Nat /\ j <= entNext
      BY ExitsByFrame
    <2>2. /\ entBase \in Nat /\ entNext \in Nat /\ DOMAIN ent = entBase .. (entNext - 1)
          /\ activeFr \in Nat /\ nFrame \in Nat
      BY ActiveEntries DEF Types
    <2>3. ~ (j <= i)
      OBVIOUS
    <2> HIDE DEF i, j
    <2>4. QED
      BY <2>1, <2>2, <2>3
  <1>2. i \in DOMAIN ent /\ i >= EfIdx(g) /\ ~ (i >= EfIdx(f))
    BY <1>1
  <1>3. ent[i].frame >= g /\ ~ (ent[i].frame >= f) /\ ent[i].frame \in Nat
    BY <1>1, <1>2, ActiveEntries DEF FramesCut
  <1> HIDE DEF i, j
  <1>4. QED
    BY <1>1, <1>3

(* The entries before those of the last frame stay where they are, those of*)
(* the last frame are such as may stand there.                             *)
Rewritten ==
  /\ UNCHANGED <<ret, entBase, oldestBp, destS, framesVars, lo>>
  /\ entNext' \in Nat /\ EfIdx(nFrame - 1) <= entNext'
  /\ ent' \in [entBase .. (entNext' - 1) -> EntryRecord]
  /\ \A i \in entBase .. (EfIdx(nFrame - 1) - 1) : ent'[i] = ent[i]
  /\ \A i \in EfIdx(nFrame - 1) .. (entNext' - 1) : LastEntry(ent'[i])
  /\ pc = "enter" /\ pc' \in {"push", "enter"} /\ entered' \in Nat

(* What lies in an interval lies in a longer one.                          *)
LEMMA ShorterInterval ==
  ASSUME NEW a \in Nat, NEW d \in Nat, NEW n \in Nat, d <= n
  PROVE  \A i \in a .. (d - 1) : i \in a .. (n - 1)
  OBVIOUS

(* A search that changes the entries of its last frame only, to such as    *)
(* may stand there, keeps these parts.                                     *)
LEMMA RewrittenKeeps ==
  ASSUME IInv, Rewritten, rc' \in Seq(Nat), destS <= Len(rc')
  PROVE  /\ Types' /\ FramesCut' /\ RetiredInOrder' /\ Pointers' /\ OldestFirst'
         /\ PredecessorsKept' /\ HistoriesGoOn'
  <1> DEFINE last == nFrame - 1
             d == EfIdx(last)
  <1>1. /\ Types /\ FramesCut /\ RetiredInOrder /\ Pointers /\ OldestFirst /\ PredecessorsKept
        /\ HistoriesGoOn
    BY DEF IInv
  <1>2. /\ ret' = ret /\ entBase' = entBase /\ oldestBp' = oldestBp /\ destS' = destS /\ lo' = lo
        /\ efIdx' = efIdx /\ activeFr' = activeFr /\ nFrame' = nFrame
        /\ pc = "enter" /\ pc' \in {"push", "enter"} /\ entered' \in Nat
    BY DEF Rewritten, framesVars
  <1>3. /\ activeFr < nFrame /\ activeFr \in Nat /\ nFrame \in Nat
        /\ DOMAIN ent = entBase .. (entNext - 1) /\ entBase \in Nat /\ entNext \in Nat
    BY <1>1, <1>2, ActiveEntries DEF Types
  <1>4. /\ last \in Nat /\ last \in activeFr .. nFrame /\ d \in Nat /\ entBase <= d /\ d <= entNext
        /\ \A i \in d .. (entNext - 1) : ent[i].frame = last
    BY <1>1, <1>3, LastFrame
  <1>5. /\ entNext' \in Nat /\ d <= entNext' /\ DOMAIN ent' = entBase .. (entNext' - 1)
        /\ ent' \in [entBase .. (entNext' - 1) -> EntryRecord]
    BY DEF Rewritten
  <1>6. \A i \in entBase .. (d - 1) : i \in DOMAIN ent /\ i \in DOMAIN ent' /\ ent'[i] = ent[i]
    <2>1. \A i \in entBase .. (d - 1) : ent'[i] = ent[i]
      BY DEF Rewritten
    <2>4. /\ d \in Nat /\ d <= entNext /\ d <= entNext'
          /\ entBase \in Nat /\ entNext \in Nat /\ entNext' \in Nat
      BY <1>3, <1>4, <1>5
    <2>2. /\ \A i \in entBase .. (d - 1) : i \in entBase .. (entNext - 1)
          /\ \A i \in entBase .. (d - 1) : i \in entBase .. (entNext' - 1)
      BY <2>4, ShorterInterval
    <2>3. QED
      BY <1>3, <1>5, <2>1, <2>2
  <1>7. \A i \in d .. (entNext' - 1) : LastEntry(ent'[i])
    BY DEF Rewritten
  <1>8. \A i \in DOMAIN ent' : i \in Nat /\ (i \in entBase .. (d - 1) \/ i \in d .. (entNext' - 1))
    BY <1>3, <1>4, <1>5
  <1>9. Types'
    <2>1. /\ ret' \in Seq(EntryRecord) /\ ent' \in [entBase' .. (entNext' - 1) -> EntryRecord]
          /\ entBase' \in Nat /\ entNext' \in Nat /\ Len(ret') <= entBase'
      BY <1>1, <1>2, <1>5 DEF Types
    <2>2. entBase' <= entNext'
      BY <1>2, <1>3, <1>4, <1>5
    <2>3. /\ efIdx' \in [activeFr' .. (nFrame' - 1) -> Nat] /\ activeFr' \in Nat /\ nFrame' \in Nat
          /\ activeFr' <= nFrame' /\ activeFr' < nFrame'
          /\ oldestBp' \in {NoBp} \cup (0 .. (Len(ret') - 1)) /\ lo' \in Nat \cup {NoBp}
          /\ destS' \in Nat /\ destS' <= Len(rc')
      BY <1>1, <1>2, <1>3 DEF Types
    <2>4. QED
      BY <1>2, <2>1, <2>2, <2>3 DEF Types, EntryRecord, NoBp
  <1>10. FramesCut'
    <2> DEFINE after(f) == IF f = nFrame THEN entNext' ELSE EfIdx(f)
    <2>1. \A f \in activeFr .. nFrame : EfIdx(f)' = after(f)
      <3>1. \A f \in activeFr .. nFrame : f = nFrame \/ ~ (f >= nFrame)
        BY <1>3
      <3>2. \A f \in activeFr .. nFrame : ~ (f < activeFr)
        BY <1>3
      <3>3. QED
        BY <1>2, <3>1, <3>2 DEF EfIdx
    <2>2. EfIdx(activeFr)' = after(activeFr)
      <3>1. activeFr # nFrame /\ ~ (activeFr >= nFrame) /\ ~ (activeFr < activeFr)
        BY <1>3
      <3>2. QED
        BY <1>2, <3>1 DEF EfIdx
    <2>3. after(activeFr) = entBase
      BY <1>1, <1>3 DEF FramesCut
    <2>4. ASSUME NEW f \in activeFr .. nFrame, f # nFrame
          PROVE  EfIdx(f) \in Nat /\ entBase <= EfIdx(f) /\ EfIdx(f) <= d /\ f \in Nat /\ f <= last
      <3>1. f \in Nat /\ f <= last
        BY <1>3, <2>4
      <3>2. EfIdx(f) <= d
        BY <1>1, <1>4, <3>1, EfIdxMonotone
      <3>3. QED
        BY <1>1, <3>1, <3>2, ExitsByFrame
    <2>5. \A f \in activeFr .. nFrame : after(f) \in entBase .. entNext'
      <3> SUFFICES ASSUME NEW f \in activeFr .. nFrame
                   PROVE  after(f) \in entBase .. entNext'
        OBVIOUS
      <3>1. CASE f = nFrame
        BY <1>3, <1>4, <1>5, <3>1
      <3>2. CASE f # nFrame
        BY <1>3, <1>4, <1>5, <2>4, <3>2
      <3>3. QED
        BY <3>1, <3>2
    <2>6. ASSUME NEW f \in activeFr .. nFrame, NEW i \in DOMAIN ent'
          PROVE  i >= after(f) <=> ent'[i].frame >= f
      <3>1. i \in Nat /\ i < entNext' /\ i \in entBase .. (entNext' - 1)
        <4>1. i \in entBase .. (entNext' - 1) /\ entNext' \in Nat
          BY <1>5
        <4>2. QED
          BY <1>3, <4>1
      <3>2. CASE i \in d .. (entNext' - 1)
        <4>1. ent'[i].frame = last
          BY <1>7, <3>2 DEF LastEntry
        <4>2. CASE f = nFrame
          BY <1>3, <1>5, <3>1, <4>1, <4>2
        <4>3. CASE f # nFrame
          <5>1. i >= EfIdx(f) /\ last >= f
            BY <1>4, <2>4, <3>1, <3>2, <4>3
          <5>2. QED
            BY <4>1, <4>3, <5>1
        <4>4. QED
          BY <4>2, <4>3
      <3>3. CASE i \in entBase .. (d - 1)
        <4>1. i \in DOMAIN ent /\ ent'[i] = ent[i]
          BY <1>6, <3>3
        <4>2. CASE f = nFrame
          <5>1. ent[i].frame \in activeFr .. (nFrame - 1)
            BY <1>1, <4>1, ExitsByFrame
          <5>2. ~ (ent[i].frame >= f) /\ ~ (i >= entNext')
            BY <1>3, <1>5, <3>1, <4>2, <5>1
          <5>3. QED
            BY <4>1, <4>2, <5>2
        <4>3. CASE f # nFrame
          BY <1>1, <4>1, <4>3 DEF FramesCut
        <4>4. QED
          BY <4>2, <4>3
      <3>4. QED
        BY <1>8, <3>2, <3>3
    <2> HIDE DEF after
    <2>7. QED
      BY <1>2, <2>1, <2>2, <2>3, <2>5, <2>6 DEF FramesCut
  <1>11. RetiredInOrder'
    BY <1>1, <1>2 DEF RetiredInOrder
  <1>12. Pointers'
    <2>1. ASSUME NEW i \in DOMAIN ent'
          PROVE  \/ ent'[i].bp \in {NoBp} \cup (0 .. (Len(ret) - 1))
                 \/ ent'[i].bp \in DOMAIN ent' /\ ent'[ent'[i].bp].frame < ent'[i].frame
      <3>1. \A b \in entBase .. (d - 1) : ent'[b] = ent[b] /\ ent[b].frame < last /\ b \in DOMAIN ent'
        <4> SUFFICES ASSUME NEW b \in entBase .. (d - 1)
                     PROVE  ent'[b] = ent[b] /\ ent[b].frame < last /\ b \in DOMAIN ent'
          OBVIOUS
        <4>1. b \in DOMAIN ent /\ b \in DOMAIN ent' /\ ent'[b] = ent[b]
          BY <1>6
        <4>2. ~ (b >= d)
          BY <1>4
        <4>3. ~ (ent[b].frame >= last) /\ ent[b].frame \in Nat
          BY <1>1, <1>3, <1>4, <4>1, <4>2, ActiveEntries DEF FramesCut
        <4>4. QED
          BY <1>4, <4>1, <4>3
      <3>2. CASE i \in d .. (entNext' - 1)
        <4>1. LastEntry(ent'[i])
          BY <1>7, <3>2
        <4>2. ent'[i].bp \in {NoBp} \cup (0 .. (Len(ret) - 1)) \cup (entBase .. (d - 1)) /\ ent'[i].frame = last
          BY <4>1 DEF LastEntry
        <4>3. QED
          BY <3>1, <4>2
      <3>3. CASE i \in entBase .. (d - 1)
        <4> DEFINE bp == ent[i].bp
        <4>1. i \in DOMAIN ent /\ ent'[i] = ent[i]
          BY <1>6, <3>3
        <4>2. ASSUME bp \in DOMAIN ent, ent[bp].frame < ent[i].frame
              PROVE  bp \in entBase .. (d - 1)
          <5>1. bp \in Nat /\ bp \in entBase .. (entNext - 1) /\ ent[bp].frame \in Nat /\ ent[i].frame \in Nat
            BY <1>1, <1>3, <4>1, <4>2, ActiveEntries
          <5>2. ~ (i <= bp)
            BY <1>1, <4>1, <4>2, <5>1, ExitsByFrame
          <5> HIDE DEF bp
          <5>3. QED
            BY <1>4, <3>3, <5>1, <5>2
        <4>3. CASE bp \in {NoBp} \cup (0 .. (Len(ret) - 1))
          BY <4>1, <4>3
        <4>4. CASE bp \in DOMAIN ent /\ ent[bp].frame < ent[i].frame
          <5>1. bp \in DOMAIN ent' /\ ent'[bp] = ent[bp]
            BY <3>1, <4>2, <4>4
          <5>2. QED
            BY <4>1, <4>4, <5>1
        <4>5. QED
          BY <1>1, <4>1, <4>3, <4>4 DEF Pointers
      <3>4. QED
        BY <1>8, <3>2, <3>3
    <2>2. QED
      BY <1>1, <1>2, <2>1 DEF Pointers, NoBp
  <1>13. OldestFirst'
    <2> SUFFICES ASSUME NEW i \in DOMAIN ent'
                 PROVE  oldestBp <= ent'[i].bp
      BY <1>2 DEF OldestFirst
    <2>1. CASE i \in d .. (entNext' - 1)
      BY <1>7, <2>1 DEF LastEntry
    <2>2. CASE i \in entBase .. (d - 1)
      BY <1>1, <1>6, <2>2 DEF OldestFirst
    <2>3. QED
      BY <1>8, <2>1, <2>2
  <1>14. PredecessorsKept'
    <2>1. \A b \in {NoBp} \cup (0 .. (Len(ret) - 1)) \cup (entBase .. (d - 1)) :
            b # NoBp => EntryAfter(b) = Entry(b)
      <3> SUFFICES ASSUME NEW b \in (0 .. (Len(ret) - 1)) \cup (entBase .. (d - 1))
                   PROVE  EntryAfter(b) = Entry(b)
        BY <1>3
      <3>1. CASE b < entBase
        BY <1>2, <3>1 DEF EntryAfter, Entry
      <3>2. CASE ~ (b < entBase)
        <4>1. Len(ret) <= entBase /\ Len(ret) \in Nat
          BY <1>1, RetiredEntries DEF Types
        <4>2. b \in entBase .. (d - 1)
          BY <1>3, <3>2, <4>1
        <4>3. ent'[b] = ent[b]
          BY <1>6, <4>2
        <4>4. QED
          BY <1>2, <3>2, <4>3 DEF EntryAfter, Entry
      <3>3. QED
        BY <3>1, <3>2
    <2>2. ASSUME NEW e \in Entries'
          PROVE  /\ e.bp \in {NoBp} \cup (0 .. (Len(ret) - 1)) \cup (entBase .. (d - 1))
                 /\ IF e.bp = NoBp THEN e.prev = 0 ELSE Entry(e.bp).id = e.prev
      <3>1. CASE \E k \in DOMAIN ret' : e = ret'[k]
        <4>1. PICK k \in DOMAIN ret : e = ret[k]
          BY <1>2, <3>1
        <4>2. e \in Entries /\ e.bp \in {NoBp} \cup (0 .. (Len(ret) - 1))
          BY <1>1, <4>1 DEF Entries, Pointers
        <4>3. QED
          BY <1>1, <4>2 DEF PredecessorsKept
      <3>2. CASE \E i \in DOMAIN ent' : e = ent'[i]
        <4>1. PICK i \in DOMAIN ent' : e = ent'[i]
          BY <3>2
        <4>2. CASE i \in d .. (entNext' - 1)
          <5>1. LastEntry(e)
            BY <1>7, <4>1, <4>2
          <5>2. QED
            BY <5>1 DEF LastEntry
        <4>3. CASE i \in entBase .. (d - 1)
          <5> DEFINE bp == ent[i].bp
          <5>1. i \in DOMAIN ent /\ e = ent[i] /\ e \in Entries
            BY <1>6, <4>1, <4>3 DEF Entries
          <5>2. ASSUME bp \in DOMAIN ent, ent[bp].frame < ent[i].frame
                PROVE  bp \in entBase .. (d - 1)
            <6>1. bp \in Nat /\ bp \in entBase .. (entNext - 1) /\ ent[bp].frame \in Nat /\ ent[i].frame \in Nat
              BY <1>1, <1>3, <5>1, <5>2, ActiveEntries
            <6>2. ~ (i <= bp)
              BY <1>1, <5>1, <5>2, <6>1, ExitsByFrame
            <6> HIDE DEF bp
            <6>3. QED
              BY <1>4, <4>3, <6>1, <6>2
          <5>3. bp \in {NoBp} \cup (0 .. (Len(ret) - 1)) \cup (entBase .. (d - 1))
            BY <1>1, <5>1, <5>2 DEF Pointers
          <5>4. QED
            BY <1>1, <5>1, <5>3 DEF PredecessorsKept
        <4>4. QED
          BY <1>8, <4>2, <4>3
      <3>3. QED
        BY <3>1, <3>2 DEF Entries
    <2>3. \A e \in Entries' : Entry(e.bp)' = EntryAfter(e.bp)
      BY DEF Entry, EntryAfter
    <2>4. QED
      BY <2>1, <2>2, <2>3 DEF PredecessorsKept, NoBp
  <1>15. HistoriesGoOn'
    BY <1>1, <1>2 DEF HistoriesGoOn, NoBp
  <1>16. QED
    BY <1>9, <1>10, <1>11, <1>12, <1>13, <1>14, <1>15

(* What bptbl_enter assigns is an entry.                                   *)
LEMMA MadeEntry ==
  ASSUME NEW f \in Nat, NEW bp \in Nat \cup {NoBp}, NEW s \in Nat, NEW n \in Nat,
         NEW id \in Nat, NEW prev \in Nat
  PROVE  [frame |-> f, bp |-> bp, s |-> s, n |-> n, id |-> id, prev |-> prev] \in EntryRecord
  BY DEF EntryRecord

(* bptbl_enter.                                                            *)
LEMMA EnterKeeps ==
  ASSUME IInv, NEW bp \in Histories, NEW n \in RcSizes, Enter(bp, n)
  PROVE  IInv'
  <1> DEFINE d == EfIdx(nFrame - 1)
             len == Len(rc)
             new == [frame |-> nFrame - 1, bp |-> bp, s |-> len, n |-> n,
                     id |-> entered', prev |-> IF bp = NoBp THEN 0 ELSE Entry(bp).id]
             more == [p \in 1 .. n |-> entered']
  <1>1. Types /\ FramesCut /\ Scores /\ RcIntact /\ PredecessorsKept
    BY DEF IInv
  <1>2. /\ pc = "enter" /\ bp < d /\ entered' = entered + 1 /\ entNext' = entNext + 1
        /\ rc' = rc \o more
        /\ ret' = ret /\ entBase' = entBase /\ oldestBp' = oldestBp /\ destS' = destS
        /\ framesVars' = framesVars /\ pc' = pc /\ lo' = lo
    BY DEF Enter
  <1>3. ent' = [i \in entBase .. entNext |-> IF i < entNext THEN ent[i] ELSE new]
    BY DEF Enter
  <1>4. /\ activeFr < nFrame /\ entBase \in Nat /\ entNext \in Nat /\ entBase <= entNext
        /\ DOMAIN ent = entBase .. (entNext - 1) /\ entered' \in Nat
        /\ rc \in Seq(Nat) /\ len \in Nat /\ destS \in Nat /\ destS <= len
    BY <1>1, <1>2, ActiveEntries DEF Types
  <1>5. n \in Nat
    BY BptblAssumption
  <1>6. nFrame - 1 \in Nat /\ d \in Nat /\ entBase <= d /\ d <= entNext
    BY <1>1, <1>4, LastFrame
  <1>7. /\ bp \in {NoBp} \cup (entBase .. (d - 1)) /\ oldestBp <= bp /\ bp \in Nat \cup {NoBp}
        /\ bp # NoBp => bp \in DOMAIN ent
    BY <1>2, HistoryOfExit
  <1>8. bp # NoBp => Entry(bp).id \in Nat
    <2>1. ASSUME bp \in DOMAIN ent
          PROVE  Entry(bp).id \in Nat
      <3>1. Entry(bp) = ent[bp]
        BY <1>4, <2>1 DEF Entry
      <3>2. QED
        BY <1>1, <1>4, <2>1, <3>1, ActiveEntries
    <2>2. QED
      BY <1>7, <2>1
  <1>9. new.prev \in Nat
    BY <1>8
  <1>10. new \in EntryRecord
    <2> DEFINE prev == IF bp = NoBp THEN 0 ELSE Entry(bp).id
    <2>1. prev \in Nat
      BY <1>8
    <2>2. new = [frame |-> nFrame - 1, bp |-> bp, s |-> len, n |-> n, id |-> entered', prev |-> prev]
      OBVIOUS
    <2>3. nFrame - 1 \in Nat /\ bp \in Nat \cup {NoBp} /\ len \in Nat /\ n \in Nat /\ entered' \in Nat
      BY <1>4, <1>5, <1>6, <1>7
    <2> HIDE DEF prev, len, new
    <2>4. QED
      BY <2>1, <2>2, <2>3, MadeEntry
  <1>11. /\ new.frame = nFrame - 1 /\ new.bp = bp /\ new.s = len /\ new.n = n /\ new.id = entered'
         /\ IF bp = NoBp THEN new.prev = 0 ELSE Entry(bp).id = new.prev
    OBVIOUS
  <1> HIDE DEF new
  <1>12. LastEntry(new)
    BY <1>7, <1>11 DEF LastEntry
  <1>13. /\ DOMAIN ent' = entBase .. (entNext' - 1) /\ ent'[entNext] = new
         /\ \A i \in entBase .. (entNext - 1) : ent'[i] = ent[i]
    BY <1>2, <1>3, <1>4
  <1>14. \A i \in DOMAIN ent' : i \in entBase .. (entNext - 1) \/ i = entNext
    BY <1>2, <1>4, <1>13
  <1>15. Rewritten
    <2>1. ent' \in [entBase .. (entNext' - 1) -> EntryRecord]
      <3>1. \A i \in DOMAIN ent' : ent'[i] \in EntryRecord
        BY <1>1, <1>10, <1>13, <1>14, ActiveEntries
      <3>2. ent' = [i \in entBase .. (entNext' - 1) |-> ent'[i]]
        BY <1>3, <1>13
      <3>3. QED
        BY <1>13, <3>1, <3>2
    <2>2. \A i \in entBase .. (d - 1) : ent'[i] = ent[i]
      <3>1. \A i \in entBase .. (d - 1) : i \in entBase .. (entNext - 1)
        <4> HIDE DEF d
        <4>1. QED
          BY <1>4, <1>6
      <3>2. QED
        BY <1>13, <3>1
    <2>3. \A i \in d .. (entNext' - 1) : LastEntry(ent'[i])
      <3> SUFFICES ASSUME NEW i \in d .. (entNext' - 1)
                   PROVE  LastEntry(ent'[i])
        OBVIOUS
      <3>1. i = entNext \/ (i \in d .. (entNext - 1) /\ i \in entBase .. (entNext - 1))
        <4> HIDE DEF d
        <4>1. QED
          BY <1>2, <1>4, <1>6
      <3>2. QED
        BY <1>4, <1>12, <1>13, <3>1, LastEntries
    <2>4. entNext' \in Nat /\ d <= entNext'
      <3> HIDE DEF d
      <3>1. QED
        BY <1>2, <1>4, <1>6
    <2>5. QED
      BY <1>2, <1>4, <2>1, <2>2, <2>3, <2>4 DEF Rewritten
  <1>16. /\ rc' \in Seq(Nat) /\ Len(rc') = len + n
         /\ \A p \in 1 .. len : rc'[p] = rc[p]
         /\ \A p \in 1 .. n : rc'[len + p] = entered'
    <2>1. more \in [1 .. n -> Nat]
      BY <1>4
    <2>2. more \in Seq(Nat) /\ Len(more) = n /\ \A p \in 1 .. n : more[p] = entered'
      BY <1>5, <2>1
    <2> HIDE DEF more
    <2>3. /\ rc \o more \in Seq(Nat) /\ Len(rc \o more) = Len(rc) + Len(more)
          /\ \A p \in 1 .. Len(rc) : (rc \o more)[p] = rc[p]
          /\ \A p \in 1 .. Len(more) : (rc \o more)[Len(rc) + p] = more[p]
      <3>1. rc \in Seq(Nat) /\ more \in Seq(Nat)
        BY <1>4, <2>2
      <3> HIDE DEF len
      <3>2. QED
        BY <3>1, Appended
    <2>4. QED
      BY <1>2, <2>2, <2>3
  <1> HIDE DEF len
  <1>17. destS <= Len(rc') /\ len <= Len(rc')
    BY <1>4, <1>5, <1>16
  <1>18. /\ Types' /\ FramesCut' /\ RetiredInOrder' /\ Pointers' /\ OldestFirst'
         /\ PredecessorsKept' /\ HistoriesGoOn'
    BY <1>15, <1>16, <1>17, RewrittenKeeps
  <1>19. \A e \in Entries : e.s \in Nat /\ e.n \in Nat /\ e.s + e.n <= len
    <2> SUFFICES ASSUME NEW e \in Entries
                 PROVE  e.s \in Nat /\ e.n \in Nat /\ e.s + e.n <= len
      OBVIOUS
    <2>1. CASE \E k \in DOMAIN ret : e = ret[k]
      <3>1. PICK k \in DOMAIN ret : e = ret[k]
        BY <2>1
      <3> DEFINE s == e.s
                 m == e.n
      <3>2. s \in Nat /\ m \in Nat /\ s + m <= destS
        BY <1>1, <3>1, RetiredEntries DEF Scores
      <3> HIDE DEF s, m
      <3>3. s + m <= len
        BY <1>4, <3>2
      <3>4. QED
        BY <3>2, <3>3 DEF s, m
    <2>2. CASE \E i \in DOMAIN ent : e = ent[i]
      BY <1>1, <1>4, <2>2, ActiveEntries DEF Scores, len
    <2>3. QED
      BY <2>1, <2>2 DEF Entries
  <1>20. Scores'
    <2>1. \A k \in DOMAIN ret : ret[k].s + ret[k].n <= destS
      BY <1>1 DEF Scores
    <2>2. ASSUME NEW i \in DOMAIN ent'
          PROVE  destS <= ent'[i].s /\ ent'[i].s + ent'[i].n <= Len(rc')
      <3>1. CASE i \in entBase .. (entNext - 1)
        <4> DEFINE s == ent[i].s
                   m == ent[i].n
        <4>1. ent'[i] = ent[i] /\ ent[i] \in Entries /\ destS <= s
          BY <1>1, <1>4, <1>13, <3>1 DEF Scores, Entries
        <4>2. s \in Nat /\ m \in Nat /\ s + m <= len
          BY <1>19, <4>1
        <4> HIDE DEF s, m
        <4>3. s + m <= Len(rc')
          BY <1>4, <1>5, <1>16, <4>2
        <4>4. QED
          BY <4>1, <4>3 DEF s, m
      <3>2. CASE i = entNext
        BY <1>4, <1>5, <1>11, <1>13, <1>16, <3>2
      <3>3. QED
        BY <1>14, <3>1, <3>2
    <2>3. ASSUME NEW i \in DOMAIN ent', NEW j \in DOMAIN ent', i < j
          PROVE  ent'[i].s + ent'[i].n <= ent'[j].s
      <3>1. i \in entBase .. (entNext - 1)
        <4>1. i \in entBase .. (entNext' - 1) /\ j \in entBase .. (entNext' - 1)
          BY <1>13
        <4>2. QED
          BY <1>2, <1>4, <2>3, <4>1
      <3>2. ent'[i] = ent[i] /\ i \in DOMAIN ent /\ ent[i] \in Entries
        BY <1>4, <1>13, <3>1 DEF Entries
      <3>3. CASE j \in entBase .. (entNext - 1)
        BY <1>1, <1>4, <1>13, <2>3, <3>2, <3>3 DEF Scores
      <3>4. CASE j = entNext
        BY <1>11, <1>13, <1>19, <3>2, <3>4
      <3>5. QED
        BY <1>14, <3>3, <3>4
    <2>4. QED
      BY <1>2, <2>1, <2>2, <2>3 DEF Scores
  <1>21. RcIntact'
    <2>1. ASSUME NEW e \in Entries, NEW p \in 1 .. e.n
          PROVE  e.s + p <= Len(rc') /\ rc'[e.s + p] = e.id
      <3> DEFINE s == e.s
                 m == e.n
      <3>1. s \in Nat /\ m \in Nat /\ s + m <= len /\ p \in 1 .. m
        BY <1>19
      <3>2. rc[s + p] = e.id
        BY <1>1 DEF RcIntact
      <3> HIDE DEF s, m
      <3>3. s + p \in 1 .. len /\ s + p <= Len(rc')
        BY <1>4, <1>5, <1>16, <3>1
      <3>4. QED
        BY <1>16, <3>2, <3>3 DEF s
    <2>2. \A p \in 1 .. new.n : new.s + p <= Len(rc') /\ rc'[new.s + p] = new.id
      BY <1>4, <1>5, <1>11, <1>16
    <2>3. \A e \in Entries' : e \in Entries \/ e = new
      <3>1. \A i \in DOMAIN ent' : ent'[i] = new \/ (i \in DOMAIN ent /\ ent'[i] = ent[i])
        BY <1>4, <1>13, <1>14
      <3>2. QED
        BY <1>2, <3>1 DEF Entries
    <2>4. QED
      BY <2>1, <2>2, <2>3 DEF RcIntact
  <1>22. QED
    BY <1>18, <1>20, <1>21 DEF IInv

(* An entry with another history and another predecessor.                  *)
IsUpdated(new, old, bp, prev) ==
  /\ new \in EntryRecord /\ new.bp = bp /\ new.prev = prev
  /\ new.frame = old.frame /\ new.s = old.s /\ new.n = old.n /\ new.id = old.id

(* What bptbl_update_bp assigns is an entry.                               *)
LEMMA UpdatedEntry ==
  ASSUME NEW e \in EntryRecord, NEW bp \in Nat \cup {NoBp}, NEW prev \in Nat
  PROVE  IsUpdated([e EXCEPT !.bp = bp, !.prev = prev], e, bp, prev)
  BY DEF IsUpdated, EntryRecord

(* bptbl_update_bp.                                                        *)
LEMMA UpdateKeeps ==
  ASSUME IInv, NEW bp \in Histories, NEW i \in Exits(nFrame - 1, nFrame), Update(i, bp)
  PROVE  IInv'
  <1> DEFINE d == EfIdx(nFrame - 1)
             prev == IF bp = NoBp THEN 0 ELSE Entry(bp).id
             new == [ent[i] EXCEPT !.bp = bp, !.prev = prev]
  <1>1. Types /\ FramesCut /\ Scores /\ RcIntact
    BY DEF IInv
  <1>2. /\ pc = "enter" /\ bp < d /\ entered' = entered /\ entNext' = entNext /\ rc' = rc
        /\ ret' = ret /\ entBase' = entBase /\ oldestBp' = oldestBp /\ destS' = destS
        /\ framesVars' = framesVars /\ pc' = pc /\ lo' = lo
    BY DEF Update
  <1>3. /\ activeFr < nFrame /\ entBase \in Nat /\ entNext \in Nat /\ entBase <= entNext
        /\ DOMAIN ent = entBase .. (entNext - 1) /\ entered \in Nat
        /\ rc \in Seq(Nat) /\ destS <= Len(rc)
    BY <1>1, <1>2, ActiveEntries DEF Types
  <1>4. /\ d \in Nat /\ entBase <= d /\ d <= entNext
        /\ i \in d .. (entNext - 1) /\ i \in DOMAIN ent /\ ent[i].frame = nFrame - 1
    BY <1>1, <1>3, LastFrame
  <1>5. /\ bp \in {NoBp} \cup (entBase .. (d - 1)) /\ oldestBp <= bp /\ bp \in Nat \cup {NoBp}
        /\ bp # NoBp => bp \in DOMAIN ent
    BY <1>2, HistoryOfExit
  <1>6. prev \in Nat
    <2>1. ASSUME bp \in DOMAIN ent
          PROVE  Entry(bp).id \in Nat
      <3>1. Entry(bp) = ent[bp]
        BY <1>3, <2>1 DEF Entry
      <3>2. QED
        BY <1>1, <1>3, <2>1, <3>1, ActiveEntries
    <2>2. QED
      BY <1>5, <2>1
  <1>7. IF bp = NoBp THEN prev = 0 ELSE Entry(bp).id = prev
    OBVIOUS
  <1>8. ent' = [ent EXCEPT ![i] = new]
    BY DEF Update
  <1> HIDE DEF prev
  <1>9. /\ new \in EntryRecord /\ new.bp = bp /\ new.prev = prev /\ new.frame = nFrame - 1
        /\ new.s = ent[i].s /\ new.n = ent[i].n /\ new.id = ent[i].id
    <2>1. ent[i] \in EntryRecord
      BY <1>1, <1>4, ActiveEntries
    <2>2. IsUpdated(new, ent[i], bp, prev)
      BY <1>5, <1>6, <2>1, UpdatedEntry
    <2> HIDE DEF new
    <2>3. QED
      BY <1>4, <2>2 DEF IsUpdated
  <1> HIDE DEF new
  <1>10. LastEntry(new)
    BY <1>5, <1>7, <1>9 DEF LastEntry
  <1>11. /\ DOMAIN ent' = DOMAIN ent /\ ent'[i] = new
         /\ \A j \in DOMAIN ent : j # i => ent'[j] = ent[j]
    BY <1>4, <1>8
  <1>12. Rewritten
    <2>1. ent' \in [entBase .. (entNext' - 1) -> EntryRecord]
      <3>1. \A j \in DOMAIN ent' : ent'[j] \in EntryRecord
        BY <1>1, <1>9, <1>11, ActiveEntries
      <3>2. ent' = [j \in DOMAIN ent |-> ent'[j]]
        BY <1>8
      <3>3. QED
        BY <1>2, <1>3, <1>11, <3>1, <3>2
    <2>2. \A j \in entBase .. (d - 1) : ent'[j] = ent[j]
      <3>1. \A j \in entBase .. (d - 1) : j \in entBase .. (entNext - 1)
        BY <1>3, <1>4, ShorterInterval
      <3>2. \A j \in entBase .. (d - 1) : j # i
        <4> HIDE DEF d
        <4>1. QED
          BY <1>4
      <3>3. QED
        BY <1>3, <1>11, <3>1, <3>2
    <2>3. \A j \in d .. (entNext' - 1) : LastEntry(ent'[j])
      <3> SUFFICES ASSUME NEW j \in d .. (entNext - 1)
                   PROVE  LastEntry(ent'[j])
        BY <1>2
      <3>1. j \in DOMAIN ent /\ LastEntry(ent[j])
        BY <1>1, <1>3, LastEntries, LastFrame
      <3>2. QED
        BY <1>10, <1>11, <3>1
    <2>4. QED
      BY <1>2, <1>3, <1>4, <2>1, <2>2, <2>3 DEF Rewritten
  <1>13. /\ Types' /\ FramesCut' /\ RetiredInOrder' /\ Pointers' /\ OldestFirst'
         /\ PredecessorsKept' /\ HistoriesGoOn'
    BY <1>2, <1>3, <1>12, RewrittenKeeps
  <1>14. \A j \in DOMAIN ent : ent'[j].s = ent[j].s /\ ent'[j].n = ent[j].n /\ ent'[j].id = ent[j].id
    BY <1>9, <1>11
  <1>15. Scores'
    BY <1>1, <1>2, <1>11, <1>14 DEF Scores
  <1>16. RcIntact'
    <2>1. ASSUME NEW e \in Entries'
          PROVE  \E h \in Entries : e.s = h.s /\ e.n = h.n /\ e.id = h.id
      <3>1. CASE \E k \in DOMAIN ret' : e = ret'[k]
        BY <1>2, <3>1 DEF Entries
      <3>2. CASE \E j \in DOMAIN ent' : e = ent'[j]
        <4>1. PICK j \in DOMAIN ent : e = ent'[j]
          BY <1>11, <3>2
        <4>2. ent[j] \in Entries
          BY DEF Entries
        <4>3. QED
          BY <1>14, <4>1, <4>2
      <3>3. QED
        BY <3>1, <3>2 DEF Entries
    <2>2. QED
      BY <1>1, <1>2, <2>1 DEF RcIntact
  <1>17. QED
    BY <1>13, <1>15, <1>16 DEF IInv

(* A step that changes nothing but where the search is.                    *)
LEMMA OnlyPc ==
  ASSUME IInv, UNCHANGED <<entriesVars, framesVars, lo, entered>>,
         pc' = "enter" => pc = "enter", pc' \in {"push", "enter"} => pc \in {"push", "enter"}
  PROVE  IInv'
  <1>1. Types /\ FramesCut /\ RetiredInOrder /\ EntriesInv /\ HistoriesGoOn
    BY DEF IInv, EntriesInv
  <1>2. EntriesInv'
    <2>1. UNCHANGED entriesVars
      OBVIOUS
    <2>2. QED
      BY <1>1, <2>1, EntriesInvUnchanged
  <1>3. Types'
    BY <1>1 DEF Types, entriesVars, framesVars
  <1>4. FramesCut'
    BY <1>1 DEF FramesCut, EfIdx, entriesVars, framesVars
  <1>5. RetiredInOrder'
    BY <1>1 DEF RetiredInOrder, entriesVars, framesVars
  <1>6. HistoriesGoOn'
    BY <1>1 DEF HistoriesGoOn, entriesVars, framesVars, NoBp
  <1>7. QED
    BY <1>2, <1>3, <1>4, <1>5, <1>6 DEF IInv, EntriesInv

(* An entry with its scores in another place.                              *)
LEMMA MovedEntry ==
  ASSUME NEW e \in EntryRecord, NEW s \in Nat
  PROVE  IsCopy([e EXCEPT !.s = s], e, e.bp, s)
  BY DEF IsCopy, EntryRecord

(* The exits of a frame that are kept, and their scores, close up.         *)
IsCommitted(K, d, start, size, c) ==
  /\ d = EfIdx(nFrame - 1) /\ size = Cardinality(K) /\ d + size <= entNext
  /\ start <= Len(rc') /\ \A p \in 1 .. start : rc'[p] = rc[p]
  /\ start <= Len(rc) /\ destS <= start
  /\ \A i \in entBase .. (d - 1) : ent[i].s + ent[i].n <= start
  /\ \A i \in K : /\ c[i].dest \in Nat /\ start <= c[i].dest
                  /\ c[i].dest + ent[i].n <= Len(rc') /\ Lie(rc', c[i].dest, ent[i])
  /\ \A i, j \in K : i < j => c[i].dest + ent[i].n <= c[j].dest
  /\ rc' \in Seq(Nat)
  /\ entNext' = d + size /\ DOMAIN ent' = entBase .. (d + size - 1)
  /\ ent' \in [entBase .. (d + size - 1) -> EntryRecord]
  /\ \A i \in entBase .. (d - 1) : ent'[i] = ent[i]
  /\ \A k \in 1 .. size : InOrder(K)[k] \in K
  /\ \A k \in 1 .. size :
       IsCopy(ent'[d + k - 1], ent[InOrder(K)[k]], ent[InOrder(K)[k]].bp, c[InOrder(K)[k]].dest)
  /\ \A k, l \in 1 .. size : k < l => InOrder(K)[k] < InOrder(K)[l]

(* Commit, entry by entry.                                                 *)
LEMMA CommitHasEffect ==
  ASSUME IInv, NEW K \in SUBSET Exits(nFrame - 1, nFrame), Commit(K), EfIdx(nFrame - 1) # entNext
  PROVE  \E d, start, size \in Nat : \E c : IsCommitted(K, d, start, size, c)
  <1>1. Types /\ FramesCut /\ Scores /\ RcIntact
    BY DEF IInv
  <1>2. pc = "enter"
    BY DEF Commit
  <1>3. /\ activeFr < nFrame /\ entBase \in Nat /\ entNext \in Nat /\ entBase <= entNext
        /\ DOMAIN ent = entBase .. (entNext - 1)
        /\ rc \in Seq(Nat) /\ destS \in Nat /\ destS <= Len(rc)
    BY <1>1, <1>2, ActiveEntries DEF Types
  <1>4. PICK d \in Nat : d = EfIdx(nFrame - 1)
    BY <1>1, <1>3, LastFrame
  <1>5. entBase <= d /\ d < entNext /\ d \in DOMAIN ent /\ K \in SUBSET (d .. (entNext - 1))
    <2>1. entBase <= d /\ d <= entNext /\ K \in SUBSET (d .. (entNext - 1))
      BY <1>1, <1>3, <1>4, LastFrame
    <2>2. QED
      BY <1>3, <1>4, <2>1
  <1>6. PICK size \in Nat : size = Cardinality(K)
    BY <1>3, <1>5, Ranks
  <1>7. PICK start \in Nat : start = ent[d].s
    BY <1>1, <1>3, <1>5, ActiveEntries
  <1>8. PICK c : c = Compaction(K, d, entNext, rc, start)
    OBVIOUS
  <1>9. \A i \in d .. (entNext - 1) :
          /\ i \in DOMAIN ent /\ i \in Nat /\ ent[i] \in EntryRecord
          /\ ent[i].s \in Nat /\ ent[i].n \in Nat
    BY <1>1, <1>3, <1>5, ActiveEntries
  <1>10. destS <= start /\ start <= Len(rc)
    <2>1. destS <= ent[d].s /\ ent[d].s + ent[d].n <= Len(rc) /\ ent[d].n \in Nat /\ Len(rc) \in Nat
      BY <1>1, <1>3, <1>5, ActiveEntries DEF Scores
    <2>2. QED
      BY <1>7, <2>1
  <1>11. \A j \in d .. (entNext - 1) : start <= ent[j].s
    <2> SUFFICES ASSUME NEW j \in d .. (entNext - 1)
                 PROVE  start <= ent[j].s
      OBVIOUS
    <2>1. j = d \/ d < j
      BY <1>3
    <2>2. ASSUME d < j
          PROVE  ent[d].s + ent[d].n <= ent[j].s
      BY <1>1, <1>5, <1>9, <2>2 DEF Scores
    <2>3. ent[d].s \in Nat /\ ent[d].n \in Nat /\ ent[j].s \in Nat
      BY <1>1, <1>3, <1>5, <1>9, ActiveEntries
    <2>4. QED
      BY <1>7, <2>1, <2>2, <2>3
  <1>12. \A i \in d .. entNext : MovedUpTo(K, d, rc, start, c, i)
    <2>1. InPlace(d, rc, start)
      BY <1>1, <1>5, <1>11, StartInPlace
    <2>2. \A i \in d .. entNext : MovedUpTo(K, d, rc, start, Compaction(K, d, entNext, rc, start), i)
      BY <1>1, <1>3, <1>5, <1>10, <2>1, ScoresMoveDown
    <2>3. QED
      BY <1>8, <2>2
  <1>13. PICK end \in Nat : end = c[entNext].dest
    BY <1>3, <1>5, <1>12 DEF MovedUpTo
  <1>14. /\ c[entNext].rc \in Seq(Nat) /\ start <= end /\ end <= Len(c[entNext].rc)
         /\ \A p \in 1 .. start : c[entNext].rc[p] = rc[p]
         /\ \A j \in K : HasMoved(j, c, entNext, start)
    <2>1. MovedUpTo(K, d, rc, start, c, entNext)
      BY <1>3, <1>5, <1>12
    <2>2. QED
      BY <1>5, <1>13, <2>1 DEF MovedUpTo
  <1>15. /\ entNext' = d + size /\ rc' = SubSeq(c[entNext].rc, 1, end)
         /\ ent' = [i \in entBase .. (entNext' - 1) |->
                      IF i < d THEN ent[i]
                      ELSE [ent[InOrder(K)[i - d + 1]] EXCEPT !.s = c[InOrder(K)[i - d + 1]].dest]]
    <2>1. c = Compaction(K, d, entNext, rc, IF d < entNext THEN ent[d].s ELSE 0)
      BY <1>5, <1>7, <1>8
    <2>2. QED
      BY <1>4, <1>6, <1>13, <2>1 DEF Commit
  <1>16. rc' \in Seq(Nat) /\ Len(rc') = end /\ \A p \in 1 .. end : rc'[p] = c[entNext].rc[p]
    <2>1. end \in 0 .. Len(c[entNext].rc)
      BY <1>14
    <2>2. QED
      BY <1>14, <1>15, <2>1, Prefix
  <1>17. \A p \in 1 .. start : rc'[p] = rc[p]
    <2>1. \A p \in 1 .. start : p \in 1 .. end
      BY <1>14
    <2>2. QED
      BY <1>14, <1>16, <2>1
  <1>18. ASSUME NEW i \in K
         PROVE  /\ c[i].dest \in Nat /\ start <= c[i].dest
                /\ c[i].dest + ent[i].n <= end /\ Lie(rc', c[i].dest, ent[i])
    <2>1. /\ c[i].dest \in Nat /\ start <= c[i].dest /\ c[i].dest + ent[i].n <= end
          /\ \A p \in 1 .. ent[i].n : c[entNext].rc[c[i].dest + p] = ent[i].id
      BY <1>13, <1>14 DEF HasMoved
    <2>2. ent[i].n \in Nat
      BY <1>5, <1>9
    <2>3. \A p \in 1 .. ent[i].n : c[i].dest + p \in 1 .. end
      BY <2>1, <2>2
    <2>4. \A p \in 1 .. ent[i].n : rc'[c[i].dest + p] = ent[i].id
      <3> SUFFICES ASSUME NEW p \in 1 .. ent[i].n
                   PROVE  rc'[c[i].dest + p] = ent[i].id
        OBVIOUS
      <3>1. rc'[c[i].dest + p] = c[entNext].rc[c[i].dest + p]
        BY <1>16, <2>3
      <3>2. QED
        BY <2>1, <3>1
    <2>5. QED
      BY <2>1, <2>4 DEF Lie
  <1>19. \A i, j \in K : i < j => c[i].dest + ent[i].n <= c[j].dest
    <2> SUFFICES ASSUME NEW i \in K, NEW j \in K, i < j
                 PROVE  c[i].dest + ent[i].n <= c[j].dest
      OBVIOUS
    <2>1. j \in d .. entNext /\ i \in d .. (j - 1)
      BY <1>3, <1>5
    <2>2. MovedUpTo(K, d, rc, start, c, j)
      BY <1>12, <2>1
    <2>3. HasMoved(i, c, j, start)
      BY <2>1, <2>2 DEF MovedUpTo
    <2>4. QED
      BY <2>3 DEF HasMoved
  <1>20. \A i \in entBase .. (d - 1) : ent[i].s + ent[i].n <= start
    <2>1. \A i \in entBase .. (d - 1) : i \in DOMAIN ent /\ i < d
      BY <1>3, <1>4, <1>5
    <2>2. QED
      BY <1>1, <1>5, <1>7, <2>1 DEF Scores
  <1>21. d + size <= entNext
    <2> DEFINE last == entNext - 1
    <2>1. last \in Int /\ d \in Int /\ ~ (d > last) /\ last - d + 1 = entNext - d
      BY <1>3, <1>5
    <2>2. K \in SUBSET (d .. last)
      BY <1>5
    <2> HIDE DEF last
    <2>3. IsFiniteSet(d .. last) /\ Cardinality(d .. last) = entNext - d
      BY <2>1, FS_Interval
    <2>4. size <= Cardinality(d .. last)
      BY <1>6, <2>2, <2>3, FS_Subset
    <2>5. QED
      BY <1>3, <2>3, <2>4
  <1>22. /\ \A k \in 1 .. size : InOrder(K)[k] \in K
         /\ \A k, l \in 1 .. size : k < l => InOrder(K)[k] < InOrder(K)[l]
    BY <1>3, <1>5, <1>6, OrderIsByRank
  <1>23. DOMAIN ent' = entBase .. (d + size - 1) /\ \A i \in entBase .. (d - 1) : ent'[i] = ent[i]
    <2>1. DOMAIN ent' = entBase .. (d + size - 1)
      BY <1>15
    <2>2. \A i \in entBase .. (d - 1) : i \in entBase .. (d + size - 1) /\ i < d
      BY <1>3
    <2>3. QED
      BY <1>15, <2>1, <2>2
  <1>24. ASSUME NEW k \in 1 .. size
         PROVE  /\ d + k - 1 \in DOMAIN ent'
                /\ IsCopy(ent'[d + k - 1], ent[InOrder(K)[k]], ent[InOrder(K)[k]].bp, c[InOrder(K)[k]].dest)
    <2>1. PICK i \in K : i = InOrder(K)[k]
      BY <1>22
    <2>2. IsCopy([ent[i] EXCEPT !.s = c[i].dest], ent[i], ent[i].bp, c[i].dest)
      BY <1>5, <1>9, <1>18, MovedEntry
    <2>3. PICK m \in Nat : m = d + k - 1
      OBVIOUS
    <2>4. m \in entBase .. (d + size - 1) /\ ~ (m < d) /\ m - d + 1 = k
      BY <1>3, <1>5, <2>3
    <2>5. ent'[m] = [ent[InOrder(K)[m - d + 1]] EXCEPT !.s = c[InOrder(K)[m - d + 1]].dest]
      BY <1>15, <1>23, <2>4
    <2>6. ent'[m] = [ent[i] EXCEPT !.s = c[i].dest]
      BY <2>1, <2>4, <2>5
    <2>7. QED
      BY <1>23, <2>1, <2>2, <2>3, <2>4, <2>6
  <1>25. ent' \in [entBase .. (d + size - 1) -> EntryRecord]
    <2>1. ASSUME NEW i \in entBase .. (d + size - 1)
          PROVE  ent'[i] \in EntryRecord
      <3>1. CASE i < d
        <4>1. i \in entBase .. (d - 1) /\ i \in entBase .. (entNext - 1)
          BY <1>3, <1>5, <3>1
        <4>2. QED
          BY <1>1, <1>23, <4>1, ActiveEntries
      <3>2. CASE ~ (i < d)
        <4>1. PICK k \in 1 .. size : i = d + k - 1
          <5>1. i - d + 1 \in 1 .. size /\ i = d + (i - d + 1) - 1
            BY <1>3, <3>2
          <5>2. QED
            BY <5>1
        <4>2. QED
          BY <1>24, <4>1 DEF IsCopy
      <3>3. QED
        BY <3>1, <3>2
    <2>2. ent' = [i \in DOMAIN ent' |-> ent'[i]]
      BY <1>15
    <2>3. QED
      BY <1>23, <2>1, <2>2
  <1>26. QED
    <2>1. /\ start <= Len(rc')
          /\ \A i \in K : /\ c[i].dest \in Nat /\ start <= c[i].dest
                          /\ c[i].dest + ent[i].n <= Len(rc') /\ Lie(rc', c[i].dest, ent[i])
      BY <1>14, <1>16, <1>18
    <2>2. IsCommitted(K, d, start, size, c)
      BY <1>4, <1>6, <1>10, <1>15, <1>16, <1>17, <1>19, <1>20, <1>21, <1>22, <1>23, <1>24, <1>25, <2>1
        DEF IsCommitted
    <2>3. QED
      BY <2>2

(* fwdtree_maxwpf and bptbl_commit.                                        *)
LEMMA CommitKeeps ==
  ASSUME IInv, NEW K \in SUBSET Exits(nFrame - 1, nFrame), Commit(K)
  PROVE  IInv'
  <1>1. Types /\ FramesCut /\ Scores /\ RcIntact
    BY DEF IInv
  <1>2. /\ pc = "enter" /\ pc' = "push" /\ entered' = entered
        /\ ret' = ret /\ entBase' = entBase /\ oldestBp' = oldestBp /\ destS' = destS
        /\ framesVars' = framesVars /\ lo' = lo
    BY DEF Commit
  <1>3. CASE EfIdx(nFrame - 1) = entNext
    <2>1. ent' = ent /\ entNext' = entNext /\ rc' = rc
      BY <1>3 DEF Commit
    <2>2. UNCHANGED <<entriesVars, framesVars, lo, entered>>
      BY <1>2, <2>1 DEF entriesVars
    <2>3. QED
      BY <1>2, <2>2, OnlyPc
  <1>4. CASE EfIdx(nFrame - 1) # entNext
    <2>1. PICK d, start, size \in Nat : \E c : IsCommitted(K, d, start, size, c)
      BY <1>4, CommitHasEffect
    <2>2. PICK c : IsCommitted(K, d, start, size, c)
      BY <2>1
    <2>3. /\ activeFr < nFrame /\ entBase \in Nat /\ entNext \in Nat
          /\ DOMAIN ent = entBase .. (entNext - 1) /\ entered \in Nat
          /\ rc \in Seq(Nat) /\ destS \in Nat /\ destS <= Len(rc)
          /\ Len(rc) \in Nat /\ Len(rc') \in Nat
          /\ destS <= start /\ start <= Len(rc) /\ start <= Len(rc')
      <3>1. /\ activeFr < nFrame /\ entBase \in Nat /\ entNext \in Nat
            /\ DOMAIN ent = entBase .. (entNext - 1) /\ entered \in Nat
            /\ rc \in Seq(Nat) /\ destS \in Nat /\ destS <= Len(rc)
        BY <1>1, <1>2, ActiveEntries DEF Types
      <3>2. rc' \in Seq(Nat) /\ destS <= start /\ start <= Len(rc) /\ start <= Len(rc')
        BY <2>2 DEF IsCommitted
      <3>3. Len(rc) \in Nat /\ Len(rc') \in Nat
        BY <3>1, <3>2
      <3>4. QED
        BY <3>1, <3>2, <3>3
    <2>4. entBase <= d /\ d <= entNext /\ \A i \in K : i \in d .. (entNext - 1) /\ LastEntry(ent[i])
      BY <1>1, <2>2, <2>3, LastFrame, LastEntries DEF IsCommitted
    <2>5. \A i \in K : i \in DOMAIN ent /\ ent[i] \in Entries /\ ent[i].n \in Nat
      <3>1. \A i \in K : i \in entBase .. (entNext - 1)
        BY <2>3, <2>4
      <3>2. QED
        BY <1>1, <2>3, <3>1, ActiveEntries DEF Entries
    <2>6. \A i \in entBase .. (d - 1) :
            /\ i \in DOMAIN ent /\ ent[i].s \in Nat /\ ent[i].n \in Nat /\ ent[i] \in Entries
            /\ ent[i].s + ent[i].n <= start /\ ent'[i] = ent[i]
      <3>1. \A i \in entBase .. (d - 1) : i \in entBase .. (entNext - 1)
        BY <2>3, <2>4, ShorterInterval
      <3>2. QED
        BY <1>1, <2>2, <2>3, <3>1, ActiveEntries DEF IsCommitted, Entries
    <2>7. ASSUME NEW i \in DOMAIN ent'
          PROVE  \/ i \in entBase .. (d - 1)
                 \/ \E k \in 1 .. size : i = d + k - 1
      <3>1. i \in entBase .. (d + size - 1)
        BY <2>2 DEF IsCommitted
      <3>2. i \in Int /\ entBase <= i /\ i <= d + size - 1
        BY <2>3, <3>1
      <3>3. CASE i < d
        BY <2>3, <3>2, <3>3
      <3>4. CASE ~ (i < d)
        <4>1. i - d + 1 \in 1 .. size /\ i = d + (i - d + 1) - 1
          BY <3>2, <3>4
        <4>2. QED
          BY <4>1
      <3>5. QED
        BY <3>3, <3>4
    <2>8. ASSUME NEW k \in 1 .. size
          PROVE  \E i \in K : /\ i = InOrder(K)[k]
                              /\ ent'[d + k - 1].s = c[i].dest /\ ent'[d + k - 1].n = ent[i].n
                              /\ ent'[d + k - 1].id = ent[i].id /\ ent'[d + k - 1].bp = ent[i].bp
                              /\ ent'[d + k - 1].prev = ent[i].prev
                              /\ ent'[d + k - 1].frame = ent[i].frame
      <3>1. /\ InOrder(K)[k] \in K
            /\ IsCopy(ent'[d + k - 1], ent[InOrder(K)[k]], ent[InOrder(K)[k]].bp, c[InOrder(K)[k]].dest)
        BY <2>2 DEF IsCommitted
      <3>2. QED
        <4>1. PICK i \in K : i = InOrder(K)[k]
          BY <3>1
        <4>2. IsCopy(ent'[d + k - 1], ent[i], ent[i].bp, c[i].dest)
          BY <3>1, <4>1
        <4>3. QED
          BY <4>1, <4>2 DEF IsCopy
    <2>9. Rewritten
      <3>1. \A i \in d .. (entNext' - 1) : LastEntry(ent'[i])
        <4> SUFFICES ASSUME NEW i \in d .. (d + size - 1)
                     PROVE  LastEntry(ent'[i])
          BY <2>2 DEF IsCommitted
        <4>1. PICK k \in 1 .. size : i = d + k - 1
          <5>1. i - d + 1 \in 1 .. size /\ i = d + (i - d + 1) - 1
            OBVIOUS
          <5>2. QED
            BY <5>1
        <4>2. PICK j \in K : /\ ent'[i].bp = ent[j].bp /\ ent'[i].prev = ent[j].prev
                             /\ ent'[i].frame = ent[j].frame
          BY <2>8, <4>1
        <4>3. LastEntry(ent[j])
          BY <2>4
        <4>4. QED
          BY <4>2, <4>3 DEF LastEntry
      <3>2. d + size \in Nat /\ d <= d + size
        OBVIOUS
      <3>3. /\ d = EfIdx(nFrame - 1) /\ entNext' = d + size
            /\ ent' \in [entBase .. (d + size - 1) -> EntryRecord]
            /\ \A i \in entBase .. (d - 1) : ent'[i] = ent[i]
        BY <2>2 DEF IsCommitted
      <3>4. entNext' \in Nat /\ EfIdx(nFrame - 1) <= entNext'
        BY <3>2, <3>3
      <3>5. ent' \in [entBase .. (entNext' - 1) -> EntryRecord]
        BY <3>3
      <3>6. \A i \in entBase .. (EfIdx(nFrame - 1) - 1) : ent'[i] = ent[i]
        BY <3>3
      <3>7. \A i \in EfIdx(nFrame - 1) .. (entNext' - 1) : LastEntry(ent'[i])
        BY <3>1, <3>3
      <3>8. QED
        BY <1>2, <2>3, <3>4, <3>5, <3>6, <3>7 DEF Rewritten
    <2>10. destS <= Len(rc')
      BY <2>3
    <2>11. /\ Types' /\ FramesCut' /\ RetiredInOrder' /\ Pointers' /\ OldestFirst'
           /\ PredecessorsKept' /\ HistoriesGoOn'
      BY <2>2, <2>9, <2>10, RewrittenKeeps DEF IsCommitted
    <2>12. Scores'
      <3>1. ASSUME NEW i \in DOMAIN ent'
            PROVE  destS <= ent'[i].s /\ ent'[i].s + ent'[i].n <= Len(rc')
        <4>1. CASE i \in entBase .. (d - 1)
          <5>1. destS <= ent[i].s
            BY <1>1, <2>6, <4>1 DEF Scores
          <5>2. ent[i].s + ent[i].n <= start /\ start <= Len(rc') /\ ent[i].s \in Nat /\ ent[i].n \in Nat
            BY <2>2, <2>6, <4>1 DEF IsCommitted
          <5>3. ent'[i] = ent[i]
            BY <2>6, <4>1
          <5>4. QED
            BY <2>3, <5>1, <5>2, <5>3
        <4>2. CASE \E k \in 1 .. size : i = d + k - 1
          <5>1. PICK k \in 1 .. size : i = d + k - 1
            BY <4>2
          <5>2. PICK j \in K : ent'[i].s = c[j].dest /\ ent'[i].n = ent[j].n
            BY <2>8, <5>1
          <5>3. c[j].dest \in Nat /\ start <= c[j].dest /\ c[j].dest + ent[j].n <= Len(rc')
            BY <2>2 DEF IsCommitted
          <5>4. QED
            BY <2>3, <5>2, <5>3
        <4>3. QED
          BY <2>7, <4>1, <4>2
      <3>2. ASSUME NEW i \in DOMAIN ent', NEW j \in DOMAIN ent', i < j
            PROVE  ent'[i].s + ent'[i].n <= ent'[j].s
        <4>1. CASE j \in entBase .. (d - 1)
          <5>1. i \in entBase .. (d - 1)
            <6>1. i \in entBase .. (d + size - 1)
              BY <2>2 DEF IsCommitted
            <6>2. QED
              BY <2>3, <3>2, <4>1, <6>1
          <5>2. QED
            BY <1>1, <2>6, <3>2, <4>1, <5>1 DEF Scores
        <4>2. CASE \E l \in 1 .. size : j = d + l - 1
          <5>1. PICK l \in 1 .. size : j = d + l - 1
            BY <4>2
          <5>2. PICK b \in K : b = InOrder(K)[l] /\ ent'[j].s = c[b].dest
            BY <2>8, <5>1
          <5>3. CASE i \in entBase .. (d - 1)
            <6>1. ent'[i] = ent[i] /\ ent[i].s \in Nat /\ ent[i].n \in Nat /\ ent[i].s + ent[i].n <= start
              BY <2>6, <5>3
            <6>2. c[b].dest \in Nat /\ start <= c[b].dest
              BY <2>2 DEF IsCommitted
            <6>3. QED
              BY <5>2, <6>1, <6>2
          <5>4. CASE \E k \in 1 .. size : i = d + k - 1
            <6>1. PICK k \in 1 .. size : i = d + k - 1
              BY <5>4
            <6>2. PICK a \in K : a = InOrder(K)[k] /\ ent'[i].s = c[a].dest /\ ent'[i].n = ent[a].n
              BY <2>8, <6>1
            <6>3. k < l
              BY <3>2, <5>1, <6>1
            <6>4. a < b
              BY <2>2, <5>2, <6>2, <6>3 DEF IsCommitted
            <6>5. QED
              BY <2>2, <5>2, <6>2, <6>4 DEF IsCommitted
          <5>5. QED
            BY <2>7, <5>3, <5>4
        <4>3. QED
          BY <2>7, <4>1, <4>2
      <3>3. \A k \in DOMAIN ret : ret[k].s + ret[k].n <= destS
        BY <1>1 DEF Scores
      <3>4. QED
        BY <1>2, <3>1, <3>2, <3>3 DEF Scores
    <2>13. RcIntact'
      <3>1. ASSUME NEW e \in Entries, e.s \in Nat, e.n \in Nat, e.s + e.n <= start, NEW p \in 1 .. e.n
            PROVE  e.s + p <= Len(rc') /\ rc'[e.s + p] = e.id
        <4>1. rc[e.s + p] = e.id
          BY <1>1 DEF RcIntact
        <4>2. e.s + p \in 1 .. start /\ e.s + p <= start
          BY <3>1
        <4>3. rc'[e.s + p] = rc[e.s + p]
          BY <2>2, <4>2 DEF IsCommitted
        <4>4. e.s + p <= Len(rc')
          BY <2>3, <3>1, <4>2
        <4>5. QED
          BY <4>1, <4>3, <4>4
      <3>2. ASSUME NEW e \in Entries', NEW p \in 1 .. e.n
            PROVE  e.s + p <= Len(rc') /\ rc'[e.s + p] = e.id
        <4>1. CASE \E k \in DOMAIN ret' : e = ret'[k]
          <5>1. PICK k \in DOMAIN ret : e = ret[k]
            BY <1>2, <4>1
          <5>2. e.s \in Nat /\ e.n \in Nat /\ e.s + e.n <= destS /\ e \in Entries
            BY <1>1, <5>1, RetiredEntries DEF Scores, Entries
          <5>3. e.s + e.n <= start
            BY <2>3, <5>2
          <5>4. QED
            BY <3>1, <5>2, <5>3
        <4>2. CASE \E i \in DOMAIN ent' : e = ent'[i]
          <5>1. PICK i \in DOMAIN ent' : e = ent'[i]
            BY <4>2
          <5>2. CASE i \in entBase .. (d - 1)
            BY <2>6, <3>1, <5>1, <5>2
          <5>3. CASE \E k \in 1 .. size : i = d + k - 1
            <6> PICK k \in 1 .. size : i = d + k - 1
              BY <5>3
            <6>1. PICK j \in K : e.s = c[j].dest /\ e.n = ent[j].n /\ e.id = ent[j].id
              BY <2>8, <5>1
            <6>2. rc'[e.s + p] = e.id
              BY <2>2, <6>1 DEF IsCommitted, Lie
            <6>3. e.s \in Nat /\ e.n \in Nat /\ e.s + e.n <= Len(rc')
              BY <2>2, <2>5, <6>1 DEF IsCommitted
            <6>4. QED
              BY <2>3, <6>2, <6>3
          <5>4. QED
            BY <2>7, <5>2, <5>3
        <4>3. QED
          BY <4>1, <4>2 DEF Entries
      <3>3. QED
        BY <3>2 DEF RcIntact
    <2>14. QED
      BY <2>11, <2>12, <2>13 DEF IInv
  <1>5. QED
    BY <1>3, <1>4
-----------------------------------------------------------------------------
(* The invariant. *)

(* A table as bptbl_init and bptbl_reset leave it.                         *)
Empty ==
  /\ ret = <<>> /\ ent = <<>> /\ entBase = 0 /\ entNext = 0
  /\ efIdx = <<>> /\ activeFr = 0 /\ nFrame = 0
  /\ oldestBp = NoBp /\ rc = <<>> /\ destS = 0
  /\ pc = "push" /\ lo = NoBp /\ entered = 0

(* The invariant holds of an empty table.                                  *)
LEMMA EmptyHolds == Empty => IInv
  <1> SUFFICES ASSUME Empty
               PROVE  IInv
    OBVIOUS
  <1> USE DEF Empty
  <1>1. DOMAIN ent = {} /\ DOMAIN ret = {} /\ Entries = {}
    <2>1. DOMAIN ent = {} /\ DOMAIN ret = {}
      OBVIOUS
    <2>2. QED
      BY <2>1 DEF Entries
  <1>2. Types
    <2>1. ent \in [entBase .. (entNext - 1) -> EntryRecord] /\ efIdx \in [activeFr .. (nFrame - 1) -> Nat]
      <3>1. 0 .. (0 - 1) = {} /\ \A S : <<>> \in [{} -> S]
        OBVIOUS
      <3>2. QED
        BY <3>1
    <2>2. ret \in Seq(EntryRecord) /\ Len(ret) = 0 /\ rc \in Seq(Nat) /\ Len(rc) = 0
      OBVIOUS
    <2>3. QED
      BY <2>1, <2>2 DEF Types
  <1>3. FramesCut
    <2>1. \A f \in activeFr .. nFrame : EfIdx(f) = 0
      BY DEF EfIdx
    <2>2. activeFr \in activeFr .. nFrame
      OBVIOUS
    <2>3. QED
      BY <1>1, <2>1, <2>2 DEF FramesCut
  <1>4. RetiredInOrder /\ Pointers /\ Scores /\ OldestFirst
    BY <1>1 DEF RetiredInOrder, Pointers, Scores, OldestFirst
  <1>5. HistoriesGoOn
    BY DEF HistoriesGoOn
  <1>6. PredecessorsKept /\ RcIntact
    BY <1>1 DEF PredecessorsKept, RcIntact
  <1>7. QED
    BY <1>2, <1>3, <1>4, <1>5, <1>6 DEF IInv

(* The same of the next state.                                             *)
LEMMA EmptyHoldsPrimed == Empty' => IInv'
  BY EmptyHolds, PTL

(* bptbl_push_frame without a collection.                                  *)
LEMMA PushOnlyKeeps ==
  ASSUME IInv, NEW oldest \in Histories, PushOnly(oldest)
  PROVE  IInv'
  <1>1. Types /\ FramesCut
    BY DEF IInv
  <1>2. activeFr \in activeFr .. nFrame /\ EfIdx(activeFr) = entBase
    BY <1>1 DEF Types, FramesCut
  <1>3. Push(oldest) /\ FramesFrom(activeFr) /\ UNCHANGED entriesVars
    BY DEF PushOnly
  <1>4. QED
    BY <1>2, <1>3, FrameOnly

(* bptbl_push_frame when no entry is behind the frame.                     *)
LEMMA PushNothingToGcKeeps ==
  ASSUME IInv, NEW oldest \in Histories, PushNothingToGc(oldest)
  PROVE  IInv'
  <1>1. Types /\ FramesCut
    BY DEF IInv
  <1>2. /\ Push(oldest) /\ NeedsGc(oldest) /\ FramesFrom(NextActiveFr(oldest))
        /\ UNCHANGED entriesVars /\ EfIdx(activeFr) = EfIdx(NextActiveFr(oldest))
    BY DEF PushNothingToGc, NothingToGc
  <1>3. NextActiveFr(oldest) \in activeFr .. nFrame
    BY <1>1, <1>2, NextActive
  <1>4. EfIdx(NextActiveFr(oldest)) = entBase
    BY <1>1, <1>2 DEF FramesCut
  <1>5. QED
    BY <1>2, <1>3, <1>4, FrameOnly

(* bptbl_push_frame when the collection aborts.                            *)
LEMMA PushAbortsKeeps ==
  ASSUME IInv, NEW oldest \in Histories, PushAborts(oldest)
  PROVE  IInv'
  <1>1. Types /\ FramesCut
    BY DEF IInv
  <1>2. activeFr \in activeFr .. nFrame /\ EfIdx(activeFr) = entBase
    BY <1>1 DEF Types, FramesCut
  <1>3. Push(oldest) /\ FramesFrom(activeFr) /\ UNCHANGED entriesVars
    BY DEF PushAborts
  <1>4. QED
    BY <1>2, <1>3, FrameOnly

(* Every step keeps the invariant.                                         *)
LEMMA StepKeeps == IInv /\ [Next]_vars => IInv'
  <1> SUFFICES ASSUME IInv, [Next]_vars
               PROVE  IInv'
    OBVIOUS
  <1>1. ASSUME PushFrame
        PROVE  IInv'
    <2>1. PICK oldest \in Histories : \/ PushOnly(oldest) \/ PushNothingToGc(oldest)
                                      \/ PushAndGc(oldest) \/ PushAborts(oldest)
      BY <1>1 DEF PushFrame
    <2>2. QED
      BY <2>1, PushOnlyKeeps, PushNothingToGcKeeps, PushAndGcKeeps, PushAbortsKeeps
  <1>2. ASSUME SearchFrame
        PROVE  IInv'
    <2>1. ASSUME NEW bp \in Histories, NEW n \in RcSizes, Enter(bp, n)
          PROVE  IInv'
      BY <2>1, EnterKeeps
    <2>2. ASSUME NEW bp \in Histories, NEW i \in Exits(nFrame - 1, nFrame), Update(i, bp)
          PROVE  IInv'
      BY <2>2, UpdateKeeps
    <2>3. ASSUME NEW K \in SUBSET Exits(nFrame - 1, nFrame), Commit(K)
          PROVE  IInv'
      BY <2>3, CommitKeeps
    <2>4. QED
      BY <1>2, <2>1, <2>2, <2>3 DEF SearchFrame
  <1>3. ASSUME FinalizeNothing
        PROVE  IInv'
    <2>1. UNCHANGED <<entriesVars, framesVars, lo, entered>> /\ pc' = "done"
      BY <1>3 DEF FinalizeNothing
    <2>2. QED
      BY <2>1, OnlyPc
  <1>4. ASSUME FinalizeAndRetire
        PROVE  IInv'
    BY <1>4, FinalizeAndRetireKeeps
  <1>5. ASSUME FinalizeAborts
        PROVE  IInv'
    <2>1. UNCHANGED <<entriesVars, framesVars, lo, entered>> /\ pc' = "aborted"
      BY <1>5 DEF FinalizeAborts
    <2>2. QED
      BY <2>1, OnlyPc
  <1>6. ASSUME Reset
        PROVE  IInv'
    <2>1. Empty'
      BY <1>6 DEF Reset, Empty, NoBp
    <2>2. QED
      BY <2>1, EmptyHoldsPrimed
  <1>7. ASSUME UNCHANGED vars
        PROVE  IInv'
    <2>1. UNCHANGED <<entriesVars, framesVars, lo, entered>> /\ pc' = pc
      BY <1>7 DEF vars
    <2>2. QED
      BY <2>1, OnlyPc
  <1>8. QED
    BY <1>1, <1>2, <1>3, <1>4, <1>5, <1>6, <1>7 DEF Next, Finalize, Aborted

(* In every state of the table the entries, their frames, their pointers   *)
(* and their scores are where the parts of the invariant say.              *)
THEOREM Invariance == Spec => []IInv
  <1>1. Init => IInv
    BY EmptyHolds DEF Init, Empty
  <1>2. QED
    BY <1>1, StepKeeps, PTL DEF Spec

(* Whatever bptbl_gc, bptbl_commit and bptbl_finalize drop, renumber and   *)
(* move, an entry points to the entry it was entered with (bptbl_enter) or *)
(* last updated to (bptbl_update_bp), and that entry is in the table.      *)
THEOREM PredecessorsStay == Spec => []PredecessorsKept
  <1>1. IInv => PredecessorsKept
    BY DEF IInv
  <1>2. QED
    BY <1>1, Invariance, PTL

(* The right context scores that bptbl_retire and bptbl_commit move down   *)
(* with garray_move are not overwritten before they have moved.            *)
THEOREM ScoresStay == Spec => []RcIntact
  <1>1. IInv => RcIntact
    BY DEF IInv
  <1>2. QED
    BY <1>1, Invariance, PTL

(* What bptbl_active_sf returns is a bound: no active entry starts before. *)
THEOREM ActiveSfBounds == Spec => []ActiveSfIsABound
  <1>1. IInv => ActiveSfIsABound
    BY OldestBoundsTheFrames DEF IInv
  <1>2. QED
    BY <1>1, Invariance, PTL
-----------------------------------------------------------------------------
(* What the steps of the table look like from outside. *)

(* Entries are numbered as they come, up to the bound.                     *)
Numbered ==
  /\ entNext <= entered /\ entered <= MaxEntries
  /\ \A k \in DOMAIN ret : ret[k].id <= entered
  /\ \A i \in DOMAIN ent : ent[i].id <= entered
  /\ \A k \in DOMAIN ret : \A i \in DOMAIN ent : ret[k].id # ent[i].id
  /\ \A i, j \in DOMAIN ent : i # j => ent[i].id # ent[j].id

(* A retired entry points to one of an earlier frame.                      *)
RetiredGoBack ==
  \A k \in DOMAIN ret : ret[k].bp # NoBp => ret[ret[k].bp + 1].frame < ret[k].frame

(* Until the table is final something is active once something is retired: *)
(* the entry that the last collection went up to, which bptbl_commit does  *)
(* not drop as it is not of the last frame.                                *)
StillActive ==
  ret # <<>> =>
    /\ pc = "push" => entBase < entNext
    /\ pc = "enter" => entBase < EfIdx(nFrame - 1)

(* There is a last frame, unless none was pushed.                          *)
LastIsActive == pc = "push" /\ nFrame > 0 => activeFr < nFrame

OutsideInv == Numbered /\ RetiredGoBack /\ StillActive /\ LastIsActive

(* The frame that is pushed has no entries yet.                            *)
LEMMA NewFrameIsEmpty ==
  ASSUME Types, FramesCut, NEW fr \in activeFr .. nFrame, FramesFrom(fr), nFrame' = nFrame + 1
  PROVE  EfIdx(nFrame - 1)' = entNext
  <1>1. /\ nFrame \in Nat /\ fr \in Nat /\ fr <= nFrame /\ EfIdx(nFrame) = entNext
    BY ExitsByFrame DEF Types
  <1>2. activeFr' = fr /\ efIdx' = [f \in fr .. nFrame |-> EfIdx(f)]
    BY DEF FramesFrom
  <1>3. nFrame' - 1 = nFrame /\ ~ (nFrame < activeFr') /\ ~ (nFrame >= nFrame')
    BY <1>1, <1>2
  <1>4. EfIdx(nFrame - 1)' = efIdx'[nFrame]
    BY <1>3 DEF EfIdx
  <1>5. efIdx'[nFrame] = EfIdx(nFrame)
    BY <1>1, <1>2
  <1>6. QED
    BY <1>1, <1>4, <1>5

(* A word is entered after its history has ended.                          *)
LEMMA HistoryIsEarlier ==
  ASSUME Types, FramesCut, RetiredInOrder, Pointers, NEW i \in DOMAIN ent
  PROVE  /\ EndFrame(ent[i].bp) \in Int /\ -1 <= EndFrame(ent[i].bp)
         /\ EndFrame(ent[i].bp) < ent[i].frame
         /\ ent[i].bp # NoBp => EndFrame(ent[i].bp) = Entry(ent[i].bp).frame
  <1> DEFINE bp == ent[i].bp
             f == EndFrame(bp)
             g == ent[i].frame
  <1>1. g \in activeFr .. (nFrame - 1) /\ activeFr \in Nat /\ nFrame \in Nat
    BY ExitsByFrame DEF Types
  <1>2. /\ f \in Int
        /\ bp \in DOMAIN ent => f = ent[bp].frame /\ ent[bp].frame < g
        /\ bp \notin DOMAIN ent => f < activeFr
    BY Predecessor
  <1>3. f < g
    <2> HIDE DEF f, g
    <2>1. QED
      BY <1>1, <1>2
  <1>4. CASE bp = NoBp
    BY <1>2, <1>3, <1>4 DEF EndFrame
  <1>5. CASE bp # NoBp
    <2>1. f = Entry(bp).frame
      BY <1>5 DEF EndFrame
    <2>2. bp \in 0 .. (Len(ret) - 1) \/ bp \in DOMAIN ent
      BY <1>5 DEF Pointers
    <2>3. f \in Nat
      <3>1. CASE bp \in DOMAIN ent
        BY <1>2, <3>1, ActiveEntries
      <3>2. CASE bp \in 0 .. (Len(ret) - 1)
        <4>1. bp + 1 \in DOMAIN ret /\ bp < entBase
          BY <3>2, RetiredEntries DEF Types
        <4>2. f = ret[bp + 1].frame
          BY <2>1, <4>1 DEF Entry
        <4>3. QED
          BY <4>1, <4>2, RetiredEntries
      <3>3. QED
        BY <2>2, <3>1, <3>2
    <2>4. QED
      BY <1>2, <1>3, <2>1, <2>3
  <1>6. QED
    BY <1>4, <1>5

(* bptbl_ef_idx of the end frame of a history, after a step.               *)
EndFrameAfter(bp) == IF bp = NoBp THEN -1 ELSE EntryAfter(bp).frame

(* After a collection the histories end where they ended.                  *)
LEMMA EndFrameStays ==
  ASSUME IInv, NEW K, NEW eidx \in Nat, entBase <= eidx, eidx <= entNext,
         Closed(K, eidx), RetireEffect(K, eidx)
  PROVE  /\ \A i \in K \cup (eidx .. (entNext - 1)) :
              EndFrameAfter(Remap(K, eidx, ent[i].bp)) = EndFrame(ent[i].bp)
         /\ \A b \in {NoBp} \cup (0 .. (Len(ret) - 1)) : EndFrameAfter(b) = EndFrame(b)
         /\ \A b \in 0 .. (Len(ret') - 1) :
              b + 1 \in DOMAIN ret' /\ b # NoBp /\ EndFrameAfter(b) = ret'[b + 1].frame
  <1>1. Types /\ FramesCut /\ Pointers
    BY DEF IInv
  <1>2. ASSUME NEW i \in K \cup (eidx .. (entNext - 1))
        PROVE  EndFrameAfter(Remap(K, eidx, ent[i].bp)) = EndFrame(ent[i].bp)
    <2> DEFINE bp == ent[i].bp
               new == Remap(K, eidx, bp)
    <2>1. IF bp = NoBp THEN new = NoBp
          ELSE new # NoBp /\ EntryAfter(new).frame = Entry(bp).frame
      BY <1>1, HistoryStays
    <2> HIDE DEF new
    <2>2. EndFrameAfter(new) = EndFrame(bp)
      BY <2>1 DEF EndFrameAfter, EndFrame
    <2>3. QED
      BY <2>2 DEF new
  <1>3. \A b \in {NoBp} \cup (0 .. (Len(ret) - 1)) : EndFrameAfter(b) = EndFrame(b)
    BY <1>1, HistoryStays DEF EndFrameAfter, EndFrame
  <1>4. ASSUME NEW b \in 0 .. (Len(ret') - 1)
        PROVE  b + 1 \in DOMAIN ret' /\ b # NoBp /\ EndFrameAfter(b) = ret'[b + 1].frame
    <2>1. Len(ret') \in Nat /\ Len(ret') <= eidx /\ DOMAIN ret' = 1 .. Len(ret')
      BY <1>1, CollectionFacts
    <2>2. entBase' = eidx
      BY DEF RetireEffect
    <2>3. b \in Nat /\ b < entBase' /\ b + 1 \in DOMAIN ret' /\ b # NoBp
      BY <2>1, <2>2 DEF NoBp
    <2>4. QED
      BY <2>3 DEF EndFrameAfter, EntryAfter
  <1>5. QED
    BY <1>2, <1>3, <1>4

(* A collection keeps the retired entries pointing back.                   *)
LEMMA CollectionGoesBack ==
  ASSUME IInv, RetiredGoBack, NEW K, NEW eidx \in Nat, entBase <= eidx, eidx <= entNext,
         Closed(K, eidx), RetireEffect(K, eidx)
  PROVE  RetiredGoBack'
  <1>1. Types /\ FramesCut /\ RetiredInOrder /\ Pointers
    BY DEF IInv
  <1>2. Pointers'
    BY <1>1, CollectionKeepsPointers
  <1>3. SUFFICES ASSUME NEW k \in DOMAIN ret', ret'[k].bp # NoBp
                 PROVE  ret'[ret'[k].bp + 1].frame < ret'[k].frame
    BY DEF RetiredGoBack, NoBp
  <1>4. CASE k \in DOMAIN ret /\ ret'[k] = ret[k]
    <2> DEFINE bp == ret[k].bp
    <2>1. ret[bp + 1].frame < ret[k].frame
      BY <1>3, <1>4 DEF RetiredGoBack
    <2>2. bp \in 0 .. (Len(ret) - 1)
      BY <1>1, <1>3, <1>4 DEF Pointers
    <2>3. bp + 1 \in DOMAIN ret
      BY <1>1, <2>2, RetiredEntries
    <2>4. ret'[bp + 1] = ret[bp + 1]
      BY <1>1, <2>3, CollectionFacts
    <2>5. QED
      BY <1>4, <2>1, <2>4
  <1>5. ASSUME NEW i \in K,
               IsCopy(ret'[k], ent[i], Remap(K, eidx, ent[i].bp), Retiring(K, eidx)[i].dest)
        PROVE  ret'[ret'[k].bp + 1].frame < ret'[k].frame
    <2>1. ret'[k].bp = Remap(K, eidx, ent[i].bp) /\ ret'[k].frame = ent[i].frame
      BY <1>5 DEF IsCopy
    <2>2. ret'[k].bp \in 0 .. (Len(ret') - 1)
      BY <1>2, <1>3 DEF Pointers, NoBp
    <2>3. EndFrameAfter(ret'[k].bp) = ret'[ret'[k].bp + 1].frame
      BY <2>2, EndFrameStays
    <2>4. EndFrameAfter(ret'[k].bp) = EndFrame(ent[i].bp)
      BY <2>1, EndFrameStays
    <2>5. EndFrame(ent[i].bp) < ent[i].frame
      BY <1>1, HistoryIsEarlier, CollectionFacts
    <2>6. QED
      BY <2>1, <2>3, <2>4, <2>5
  <1>6. QED
    BY <1>1, <1>4, <1>5, RetiredFrom

(* A collection keeps the numbers of the entries apart.                    *)
LEMMA CollectionKeepsNumbers ==
  ASSUME IInv, Numbered, NEW K, NEW eidx \in Nat, entBase <= eidx, eidx <= entNext,
         Closed(K, eidx), RetireEffect(K, eidx), entNext' = entNext, entered' = entered
  PROVE  Numbered'
  <1>1. Types /\ FramesCut
    BY DEF IInv
  <1>2. \A i \in DOMAIN ent' : /\ i \in DOMAIN ent /\ ent'[i].id = ent[i].id
                               /\ \A j \in K : j # i
    <2>1. /\ DOMAIN ent' = eidx .. (entNext - 1) /\ \A i \in DOMAIN ent' : i \in DOMAIN ent
          /\ \A j \in K : j \in Nat /\ j < eidx
      BY <1>1, CollectionFacts
    <2>2. \A i \in eidx .. (entNext - 1) : ent'[i].id = ent[i].id
      BY DEF RetireEffect, IsCopy
    <2>3. QED
      BY <2>1, <2>2
  <1>3. \A k \in DOMAIN ret' : \/ k \in DOMAIN ret /\ ret'[k].id = ret[k].id
                               \/ \E i \in K : i \in DOMAIN ent /\ ret'[k].id = ent[i].id
    <2> SUFFICES ASSUME NEW k \in DOMAIN ret', ~ (k \in DOMAIN ret /\ ret'[k] = ret[k])
                 PROVE  \E i \in K : i \in DOMAIN ent /\ ret'[k].id = ent[i].id
      OBVIOUS
    <2>1. PICK i \in K : IsCopy(ret'[k], ent[i], Remap(K, eidx, ent[i].bp), Retiring(K, eidx)[i].dest)
      BY <1>1, RetiredFrom
    <2>2. i \in DOMAIN ent
      BY <1>1, CollectionFacts
    <2>3. QED
      BY <2>1, <2>2 DEF IsCopy
  <1>4. /\ entNext' <= entered' /\ entered' <= MaxEntries
        /\ \A k \in DOMAIN ret' : ret'[k].id <= entered'
        /\ \A i \in DOMAIN ent' : ent'[i].id <= entered'
    BY <1>2, <1>3 DEF Numbered
  <1>5. \A k \in DOMAIN ret' : \A i \in DOMAIN ent' : ret'[k].id # ent'[i].id
    BY <1>2, <1>3 DEF Numbered
  <1>6. \A i, j \in DOMAIN ent' : i # j => ent'[i].id # ent'[j].id
    BY <1>2 DEF Numbered
  <1>7. QED
    BY <1>4, <1>5, <1>6 DEF Numbered

(* bptbl_push_frame keeps this when it does not collect.                   *)
LEMMA FrameOnlyOutside ==
  ASSUME IInv, OutsideInv, NEW oldest, Push(oldest), NEW fr \in activeFr .. nFrame,
         FramesFrom(fr), UNCHANGED entriesVars, pc' \in {"enter", "aborted"}
  PROVE  OutsideInv'
  <1>1. Types /\ FramesCut
    BY DEF IInv
  <1>2. /\ ret' = ret /\ ent' = ent /\ entBase' = entBase /\ entNext' = entNext
        /\ entered' = entered /\ nFrame' = nFrame + 1 /\ pc = "push"
    BY DEF entriesVars, Push
  <1>3. EfIdx(nFrame - 1)' = entNext
    BY <1>1, <1>2, NewFrameIsEmpty
  <1>4. Numbered' /\ RetiredGoBack'
    BY <1>2 DEF OutsideInv, Numbered, RetiredGoBack, NoBp
  <1>5. StillActive'
    BY <1>2, <1>3 DEF OutsideInv, StillActive
  <1>6. QED
    BY <1>4, <1>5 DEF OutsideInv, LastIsActive

(* bptbl_gc keeps it.                                                      *)
LEMMA PushAndGcOutside ==
  ASSUME IInv, OutsideInv, NEW oldest \in Histories, PushAndGc(oldest)
  PROVE  OutsideInv'
  <1>1. Types /\ FramesCut
    BY DEF IInv
  <1>2. PICK fr \in activeFr .. nFrame : fr = NextActiveFr(oldest)
    BY PushCollects DEF CollectsUpTo
  <1>3. PICK K : CollectsUpTo(fr, K)
    BY <1>2, PushCollects
  <1>4. NeedsGc(oldest) /\ FramesFrom(fr) /\ nFrame' = nFrame + 1 /\ pc' = "enter"
    BY <1>2 DEF PushAndGc, Push
  <1>5. EfIdx(nFrame - 1)' = entNext
    BY <1>1, <1>4, NewFrameIsEmpty
  <1>6. EfIdx(fr) < entNext
    <2>1. oldest \in Nat
      BY <1>1, <1>4, NextActive
    <2>2. oldest \in entBase .. (entNext - 1) /\ fr = ent[oldest].frame
      BY <1>2, <2>1 DEF Histories, NextActiveFr, NoBp
    <2>3. oldest \in DOMAIN ent /\ entNext \in Nat /\ fr \in Nat
      BY <1>1, <2>2, ActiveEntries
    <2>4. oldest >= EfIdx(fr)
      BY <1>1, <2>2, <2>3 DEF FramesCut
    <2>5. EfIdx(fr) \in Nat
      BY <1>3 DEF CollectsUpTo
    <2>6. QED
      BY <2>1, <2>2, <2>3, <2>4, <2>5
  <1>7. entBase' = EfIdx(fr)
    BY <1>3 DEF CollectsUpTo, RetireEffect
  <1>8. StillActive'
    BY <1>4, <1>5, <1>6, <1>7 DEF StillActive
  <1>9. Numbered' /\ RetiredGoBack'
    BY <1>3, CollectionGoesBack, CollectionKeepsNumbers DEF CollectsUpTo, OutsideInv
  <1>10. QED
    BY <1>4, <1>8, <1>9 DEF OutsideInv, LastIsActive

(* bptbl_finalize keeps it.                                                *)
LEMMA FinalizeAndRetireOutside ==
  ASSUME IInv, OutsideInv, FinalizeAndRetire
  PROVE  OutsideInv'
  <1>1. PICK K : CollectsUpTo(nFrame, K)
    BY FinalizeCollects
  <1>2. Numbered' /\ RetiredGoBack'
    BY <1>1, CollectionGoesBack, CollectionKeepsNumbers DEF CollectsUpTo, OutsideInv
  <1>3. StillActive' /\ LastIsActive'
    BY DEF FinalizeAndRetire, StillActive, LastIsActive
  <1>4. QED
    BY <1>2, <1>3 DEF OutsideInv

(* The first entry of the last frame, when a search has rewritten it.      *)
LEMMA LastFrameStays ==
  ASSUME Types, pc = "enter", UNCHANGED framesVars
  PROVE  EfIdx(nFrame - 1)' = EfIdx(nFrame - 1)
  <1>1. /\ activeFr \in Nat /\ nFrame \in Nat /\ activeFr < nFrame
        /\ activeFr' = activeFr /\ nFrame' = nFrame /\ efIdx' = efIdx
    BY DEF Types, framesVars
  <1>2. ~ (nFrame - 1 < activeFr) /\ ~ (nFrame - 1 >= nFrame)
    BY <1>1
  <1>3. QED
    BY <1>1, <1>2 DEF EfIdx

(* bptbl_enter keeps it.                                                   *)
LEMMA EnterOutside ==
  ASSUME IInv, OutsideInv, NEW bp \in Histories, NEW n \in RcSizes, Enter(bp, n)
  PROVE  OutsideInv'
  <1>1. Types
    BY DEF IInv
  <1>2. /\ pc = "enter" /\ entered < MaxEntries /\ entered' = entered + 1 /\ entNext' = entNext + 1
        /\ ret' = ret /\ entBase' = entBase /\ UNCHANGED framesVars /\ pc' = pc
    BY DEF Enter
  <1>3. /\ entBase \in Nat /\ entNext \in Nat /\ entBase <= entNext /\ entered \in Nat
        /\ DOMAIN ent = entBase .. (entNext - 1) /\ MaxEntries \in Nat
    BY <1>1, ActiveEntries, BptblAssumption DEF Types
  <1>4. PICK new : new.id = entered' /\ ent' = [i \in entBase .. entNext |-> IF i < entNext THEN ent[i] ELSE new]
    BY DEF Enter
  <1>5. /\ DOMAIN ent' = entBase .. entNext
        /\ \A i \in DOMAIN ent' : \/ i \in DOMAIN ent /\ ent'[i] = ent[i]
                                  \/ i = entNext /\ ent'[i].id = entered + 1
    BY <1>2, <1>3, <1>4
  <1>6. /\ \A k \in DOMAIN ret : ret[k].id <= entered /\ ret[k].id \in Nat
        /\ \A i \in DOMAIN ent : ent[i].id <= entered /\ ent[i].id \in Nat
        /\ \A k \in DOMAIN ret : \A i \in DOMAIN ent : ret[k].id # ent[i].id
        /\ \A i, j \in DOMAIN ent : i # j => ent[i].id # ent[j].id
    BY <1>1, <1>3, ActiveEntries, RetiredEntries DEF OutsideInv, Numbered
  <1>7. entNext' <= entered' /\ entered' <= MaxEntries
    BY <1>2, <1>3 DEF OutsideInv, Numbered
  <1>8. /\ \A k \in DOMAIN ret : ret[k].id <= entered + 1 /\ ret[k].id # entered + 1
        /\ \A i \in DOMAIN ent : ent[i].id <= entered + 1 /\ ent[i].id # entered + 1
    BY <1>3, <1>6
  <1>9. \A i \in DOMAIN ent' : ent'[i].id <= entered + 1
    BY <1>3, <1>5, <1>8
  <1>10. \A k \in DOMAIN ret : \A i \in DOMAIN ent' : ret[k].id # ent'[i].id
    BY <1>5, <1>6, <1>8
  <1>11. \A i, j \in DOMAIN ent' : i # j => ent'[i].id # ent'[j].id
    BY <1>5, <1>6, <1>8
  <1>12. Numbered'
    BY <1>2, <1>7, <1>8, <1>9, <1>10, <1>11 DEF Numbered
  <1>13. RetiredGoBack'
    BY <1>2 DEF OutsideInv, RetiredGoBack, NoBp
  <1>14. StillActive'
    BY <1>1, <1>2, LastFrameStays DEF OutsideInv, StillActive
  <1>15. QED
    BY <1>2, <1>12, <1>13, <1>14 DEF OutsideInv, LastIsActive

(* bptbl_update_bp keeps it.                                               *)
LEMMA UpdateOutside ==
  ASSUME IInv, OutsideInv, NEW bp, NEW i \in Exits(nFrame - 1, nFrame), Update(i, bp)
  PROVE  OutsideInv'
  <1>1. Types /\ FramesCut
    BY DEF IInv
  <1>2. /\ pc = "enter" /\ entered' = entered /\ entNext' = entNext
        /\ ret' = ret /\ entBase' = entBase /\ UNCHANGED framesVars /\ pc' = pc
    BY DEF Update
  <1>3. PICK prev : ent' = [ent EXCEPT ![i] = [ent[i] EXCEPT !.bp = bp, !.prev = prev]]
    BY DEF Update
  <1>4. DOMAIN ent' = DOMAIN ent /\ \A j \in DOMAIN ent : ent'[j].id = ent[j].id
    <2>1. \A j \in DOMAIN ent : ent[j] \in EntryRecord
      BY <1>1, ActiveEntries
    <2>2. \A e \in EntryRecord : [e EXCEPT !.bp = bp, !.prev = prev].id = e.id
      BY DEF EntryRecord
    <2>3. \A j \in DOMAIN ent : ent'[j] = IF j = i THEN [ent[j] EXCEPT !.bp = bp, !.prev = prev] ELSE ent[j]
      BY <1>3
    <2>4. DOMAIN ent' = DOMAIN ent
      BY <1>3
    <2>5. QED
      BY <2>1, <2>2, <2>3, <2>4
  <1>5. Numbered' /\ RetiredGoBack'
    BY <1>2, <1>4 DEF OutsideInv, Numbered, RetiredGoBack, NoBp
  <1>6. StillActive'
    BY <1>1, <1>2, LastFrameStays DEF OutsideInv, StillActive
  <1>7. QED
    BY <1>2, <1>5, <1>6 DEF OutsideInv, LastIsActive

(* bptbl_commit keeps it.                                                  *)
LEMMA CommitOutside ==
  ASSUME IInv, OutsideInv, NEW K \in SUBSET Exits(nFrame - 1, nFrame), Commit(K)
  PROVE  OutsideInv'
  <1>1. Types /\ FramesCut
    BY DEF IInv
  <1>2. /\ pc = "enter" /\ pc' = "push" /\ entered' = entered
        /\ ret' = ret /\ entBase' = entBase /\ UNCHANGED framesVars
    BY DEF Commit
  <1>3. /\ activeFr < nFrame /\ entBase \in Nat /\ entNext \in Nat /\ entered \in Nat
        /\ DOMAIN ent = entBase .. (entNext - 1)
    BY <1>1, <1>2, ActiveEntries DEF Types
  <1>4. RetiredGoBack' /\ LastIsActive'
    BY <1>2, <1>3 DEF OutsideInv, RetiredGoBack, LastIsActive, framesVars, NoBp
  <1>5. CASE EfIdx(nFrame - 1) = entNext
    <2>1. ent' = ent /\ entNext' = entNext
      BY <1>5 DEF Commit
    <2>2. Numbered' /\ StillActive'
      BY <1>2, <1>5, <2>1 DEF OutsideInv, Numbered, StillActive
    <2>3. QED
      BY <1>4, <2>2 DEF OutsideInv
  <1>6. CASE EfIdx(nFrame - 1) # entNext
    <2>1. PICK d, start, size \in Nat : \E c : IsCommitted(K, d, start, size, c)
      BY <1>6, CommitHasEffect
    <2>2. PICK c : IsCommitted(K, d, start, size, c)
      BY <2>1
    <2>3. /\ d = EfIdx(nFrame - 1) /\ d + size <= entNext /\ entNext' = d + size
          /\ DOMAIN ent' = entBase .. (d + size - 1)
          /\ \A i \in entBase .. (d - 1) : ent'[i] = ent[i]
          /\ \A k \in 1 .. size : InOrder(K)[k] \in K
          /\ \A k \in 1 .. size : ent'[d + k - 1].id = ent[InOrder(K)[k]].id
          /\ \A k, l \in 1 .. size : k < l => InOrder(K)[k] < InOrder(K)[l]
      BY <2>2 DEF IsCommitted, IsCopy
    <2>4. entBase <= d /\ d <= entNext /\ \A i \in K : i \in d .. (entNext - 1)
      BY <1>1, <1>3, <2>3, LastFrame
    <2> DEFINE From(i, j) == /\ j \in DOMAIN ent /\ ent'[i].id = ent[j].id
                             /\ i < d => j = i
                             /\ ~ (i < d) => i - d + 1 \in 1 .. size /\ j = InOrder(K)[i - d + 1] /\ j \in K
    <2>5. ASSUME NEW i \in DOMAIN ent'
          PROVE  i \in Nat /\ \E j : From(i, j)
      <3>1. i \in Nat /\ entBase <= i /\ i <= d + size - 1
        BY <1>3, <2>3
      <3>2. CASE i < d
        <4>1. i \in entBase .. (d - 1) /\ i \in DOMAIN ent
          BY <1>3, <2>3, <2>4, <3>1, <3>2
        <4>2. From(i, i)
          BY <2>3, <3>2, <4>1
        <4>3. QED
          BY <3>1, <4>2
      <3>3. CASE ~ (i < d)
        <4>1. PICK k \in 1 .. size : k = i - d + 1 /\ d + k - 1 = i
          BY <3>1, <3>3
        <4>2. InOrder(K)[k] \in K /\ ent'[i].id = ent[InOrder(K)[k]].id
          BY <2>3, <4>1
        <4>3. InOrder(K)[k] \in DOMAIN ent
          BY <1>3, <2>4, <4>2
        <4>4. From(i, InOrder(K)[k])
          BY <3>3, <4>1, <4>2, <4>3
        <4>5. QED
          BY <3>1, <4>4
      <3>4. QED
        BY <3>2, <3>3
    <2>6. ASSUME NEW i \in DOMAIN ent', NEW j \in DOMAIN ent', i # j
          PROVE  ent'[i].id # ent'[j].id
      <3>1. i \in Nat /\ j \in Nat
        BY <2>5
      <3>2. PICK p : From(i, p)
        BY <2>5
      <3>3. PICK q : From(j, q)
        BY <2>5
      <3>4. p # q
        <4>1. CASE i < d /\ j < d
          BY <2>6, <3>2, <3>3, <4>1
        <4>2. CASE i < d /\ ~ (j < d)
          BY <2>4, <3>1, <3>2, <3>3, <4>2
        <4>3. CASE ~ (i < d) /\ j < d
          BY <2>4, <3>1, <3>2, <3>3, <4>3
        <4>4. CASE ~ (i < d) /\ ~ (j < d)
          <5>1. PICK k \in 1 .. size : k = i - d + 1 /\ p = InOrder(K)[k]
            BY <3>2, <4>4
          <5>2. PICK l \in 1 .. size : l = j - d + 1 /\ q = InOrder(K)[l]
            BY <3>3, <4>4
          <5>3. k < l \/ l < k
            BY <2>6, <3>1, <5>1, <5>2
          <5>4. p < q \/ q < p
            BY <2>3, <5>1, <5>2, <5>3
          <5>5. p \in Nat
            BY <1>3, <2>4, <3>2, <4>4
          <5>6. QED
            BY <5>4, <5>5
        <4>5. QED
          BY <4>1, <4>2, <4>3, <4>4
      <3>5. p \in DOMAIN ent /\ q \in DOMAIN ent /\ ent'[i].id = ent[p].id /\ ent'[j].id = ent[q].id
        BY <3>2, <3>3
      <3>6. QED
        BY <3>4, <3>5 DEF OutsideInv, Numbered
    <2>7. \A i \in DOMAIN ent' : \E j \in DOMAIN ent : ent'[i].id = ent[j].id
      BY <2>5
    <2>8. entNext' <= entered
      BY <1>3, <2>1, <2>3 DEF OutsideInv, Numbered
    <2>9. Numbered'
      BY <1>2, <2>6, <2>7, <2>8 DEF OutsideInv, Numbered
    <2>10. StillActive'
      <3>1. ret # <<>> => entBase < d
        BY <1>2, <2>3 DEF OutsideInv, StillActive
      <3>2. d <= entNext'
        BY <2>1, <2>3
      <3>3. QED
        BY <1>2, <1>3, <2>1, <2>3, <3>1, <3>2 DEF StillActive
    <2>11. QED
      BY <1>4, <2>9, <2>10 DEF OutsideInv
  <1>7. QED
    BY <1>5, <1>6

(* Every step keeps it.                                                    *)
LEMMA StepKeepsOutside == IInv /\ OutsideInv /\ [Next]_vars => OutsideInv'
  <1> SUFFICES ASSUME IInv, OutsideInv, [Next]_vars
               PROVE  OutsideInv'
    OBVIOUS
  <1>1. ASSUME PushFrame
        PROVE  OutsideInv'
    <2>1. PICK oldest \in Histories : \/ PushOnly(oldest) \/ PushNothingToGc(oldest)
                                      \/ PushAndGc(oldest) \/ PushAborts(oldest)
      BY <1>1 DEF PushFrame
    <2>2. Types /\ FramesCut
      BY DEF IInv
    <2>3. activeFr \in activeFr .. nFrame
      BY <2>2 DEF Types
    <2>4. CASE PushOnly(oldest)
      BY <2>3, <2>4, FrameOnlyOutside DEF PushOnly
    <2>5. CASE PushNothingToGc(oldest)
      <3>1. NextActiveFr(oldest) \in activeFr .. nFrame
        BY <2>2, <2>5, NextActive DEF PushNothingToGc
      <3>2. QED
        BY <2>5, <3>1, FrameOnlyOutside DEF PushNothingToGc
    <2>6. CASE PushAndGc(oldest)
      BY <2>6, PushAndGcOutside
    <2>7. CASE PushAborts(oldest)
      BY <2>3, <2>7, FrameOnlyOutside DEF PushAborts
    <2>8. QED
      BY <2>1, <2>4, <2>5, <2>6, <2>7
  <1>2. ASSUME SearchFrame
        PROVE  OutsideInv'
    <2>1. ASSUME NEW bp \in Histories, NEW n \in RcSizes, Enter(bp, n)
          PROVE  OutsideInv'
      BY <2>1, EnterOutside
    <2>2. ASSUME NEW bp \in Histories, NEW i \in Exits(nFrame - 1, nFrame), Update(i, bp)
          PROVE  OutsideInv'
      BY <2>2, UpdateOutside
    <2>3. ASSUME NEW K \in SUBSET Exits(nFrame - 1, nFrame), Commit(K)
          PROVE  OutsideInv'
      BY <2>3, CommitOutside
    <2>4. QED
      BY <1>2, <2>1, <2>2, <2>3 DEF SearchFrame
  <1>3. ASSUME FinalizeAndRetire
        PROVE  OutsideInv'
    BY <1>3, FinalizeAndRetireOutside
  <1>4. ASSUME Reset
        PROVE  OutsideInv'
    <2>1. /\ ret' = <<>> /\ ent' = <<>> /\ entNext' = 0 /\ entered' = 0 /\ nFrame' = 0
          /\ DOMAIN ret' = {} /\ DOMAIN ent' = {}
      BY <1>4 DEF Reset
    <2>2. 0 <= MaxEntries
      BY BptblAssumption
    <2>3. QED
      BY <2>1, <2>2 DEF OutsideInv, Numbered, RetiredGoBack, StillActive, LastIsActive
  <1>5. ASSUME UNCHANGED <<entriesVars, framesVars, entered>>, pc' \in {"done", "aborted", pc}
        PROVE  OutsideInv'
    <2>1. Numbered' /\ RetiredGoBack' /\ LastIsActive'
      BY <1>5 DEF OutsideInv, Numbered, RetiredGoBack, LastIsActive, entriesVars, framesVars, NoBp
    <2>2. EfIdx(nFrame - 1)' = EfIdx(nFrame - 1)
      BY <1>5 DEF EfIdx, entriesVars, framesVars
    <2>3. StillActive'
      BY <1>5, <2>2 DEF OutsideInv, StillActive, entriesVars
    <2>4. QED
      BY <2>1, <2>3 DEF OutsideInv
  <1>6. ASSUME FinalizeNothing \/ FinalizeAborts \/ UNCHANGED vars
        PROVE  OutsideInv'
    <2>1. UNCHANGED <<entriesVars, framesVars, entered>> /\ pc' \in {"done", "aborted", pc}
      BY <1>6 DEF FinalizeNothing, FinalizeAborts, vars
    <2>2. QED
      BY <1>5, <2>1
  <1>7. QED
    BY <1>1, <1>2, <1>3, <1>4, <1>6 DEF Next, Finalize, Aborted

(* The table is as its invariant says, and numbers, pointers and what is   *)
(* still active as the steps seen from outside need it.                    *)
THEOREM OutsideInvariance == Spec => [](IInv /\ OutsideInv)
  <1>1. Init => OutsideInv
    <2> SUFFICES ASSUME Init
                 PROVE  OutsideInv
      OBVIOUS
    <2>1. /\ ret = <<>> /\ ent = <<>> /\ DOMAIN ret = {} /\ DOMAIN ent = {}
          /\ entNext = 0 /\ entered = 0 /\ nFrame = 0
      BY DEF Init
    <2>2. 0 <= MaxEntries
      BY BptblAssumption
    <2>3. QED
      BY <2>1, <2>2 DEF OutsideInv, Numbered, RetiredGoBack, StillActive, LastIsActive
  <1>2. QED
    BY <1>1, Invariance, StepKeeps, StepKeepsOutside, PTL DEF Spec

(* Where the retired entries start: what an arc buffer sees of them.       *)
Starts == [k \in DOMAIN ret |-> StartFrame(ret[k])]

(* An entry starts no later than it ends, an active one no earlier than    *)
(* bptbl_active_sf.                                                        *)
LEMMA StartFrames ==
  ASSUME IInv, OutsideInv
  PROVE  /\ ActiveSf \in Nat /\ (ret = <<>> => ActiveSf = 0)
         /\ \A k \in DOMAIN ret : StartFrame(ret[k]) \in Int /\ StartFrame(ret[k]) <= ret[k].frame
         /\ \A i \in DOMAIN ent : /\ StartFrame(ent[i]) \in Int /\ ActiveSf <= StartFrame(ent[i])
                                  /\ StartFrame(ent[i]) <= ent[i].frame
  <1>1. Types /\ FramesCut /\ RetiredInOrder /\ Pointers /\ RetiredGoBack /\ ActiveSfIsABound
    BY OldestBoundsTheFrames DEF IInv, OutsideInv
  <1>2. Len(ret) \in Nat /\ DOMAIN ret = 1 .. Len(ret) /\ Len(ret) <= entBase /\ entBase \in Nat
    BY <1>1, RetiredEntries DEF Types
  <1>3. ASSUME NEW b \in 0 .. (Len(ret) - 1)
        PROVE  b + 1 \in DOMAIN ret /\ EndFrame(b) = ret[b + 1].frame /\ EndFrame(b) \in Nat
    <2>1. b + 1 \in DOMAIN ret /\ b < entBase /\ b # NoBp
      BY <1>2 DEF NoBp
    <2>2. EndFrame(b) = ret[b + 1].frame
      BY <2>1 DEF EndFrame, Entry
    <2>3. QED
      BY <1>1, <2>1, <2>2, RetiredEntries
  <1>4. EndFrame(NoBp) = -1
    BY DEF EndFrame
  <1>5. oldestBp \in {NoBp} \cup (0 .. (Len(ret) - 1))
    BY <1>1 DEF Types
  <1>6. ActiveSf \in Nat
    BY <1>3, <1>4, <1>5 DEF ActiveSf
  <1>7. ret = <<>> => ActiveSf = 0
    <2>1. ret = <<>> => oldestBp = NoBp
      BY <1>5
    <2>2. QED
      BY <1>4, <2>1 DEF ActiveSf
  <1>8. ASSUME NEW k \in DOMAIN ret
        PROVE  StartFrame(ret[k]) \in Int /\ StartFrame(ret[k]) <= ret[k].frame
    <2> DEFINE bp == ret[k].bp
               f == EndFrame(bp)
               g == ret[k].frame
    <2>1. g \in Nat /\ bp \in {NoBp} \cup (0 .. (Len(ret) - 1))
      BY <1>1, RetiredEntries DEF Pointers
    <2>2. CASE bp = NoBp
      <3>1. f = -1
        BY <1>4, <2>2
      <3>2. StartFrame(ret[k]) = 0
        BY <3>1 DEF StartFrame
      <3>3. QED
        BY <2>1, <3>2
    <2>3. CASE bp \in 0 .. (Len(ret) - 1)
      <3>1. f = ret[bp + 1].frame /\ f \in Nat /\ bp # NoBp
        BY <1>3, <2>3 DEF NoBp
      <3>2. f < g
        BY <1>1, <3>1 DEF RetiredGoBack
      <3>3. StartFrame(ret[k]) = f + 1
        BY DEF StartFrame
      <3> HIDE DEF f, g
      <3>4. QED
        BY <2>1, <3>1, <3>2, <3>3 DEF g
    <2>4. QED
      BY <2>1, <2>2, <2>3
  <1>9. ASSUME NEW i \in DOMAIN ent
        PROVE  /\ StartFrame(ent[i]) \in Int /\ ActiveSf <= StartFrame(ent[i])
               /\ StartFrame(ent[i]) <= ent[i].frame
    <2> DEFINE f == EndFrame(ent[i].bp)
               g == ent[i].frame
    <2>1. f \in Int /\ f < g /\ g \in Nat
      BY <1>1, HistoryIsEarlier, ActiveEntries
    <2>2. StartFrame(ent[i]) = f + 1 /\ StartFrame(ent[i]) >= ActiveSf
      BY <1>1 DEF StartFrame, ActiveSfIsABound
    <2> HIDE DEF f, g
    <2>3. QED
      BY <1>6, <2>1, <2>2 DEF g
  <1>10. QED
    BY <1>6, <1>7, <1>8, <1>9

(* A sequence with the elements of two others is one after the other.      *)
LEMMA Followed ==
  ASSUME NEW s \in Seq(Int), NEW new \in Seq(Int), NEW t \in Seq(Int),
         Len(t) = Len(s) + Len(new),
         \A k \in 1 .. Len(s) : t[k] = s[k],
         \A k \in 1 .. Len(new) : t[Len(s) + k] = new[k]
  PROVE  t = s \o new
  <1>1. PICK u : u = s \o new
    OBVIOUS
  <1> DEFINE n == Len(s)
             m == Len(new)
  <1>2. /\ u \in Seq(Int) /\ Len(u) = n + m
        /\ \A k \in 1 .. n : u[k] = s[k]
        /\ \A k \in 1 .. m : u[n + k] = new[k]
    BY <1>1, Appended
  <1>3. n \in Nat /\ m \in Nat /\ Len(t) = n + m
    OBVIOUS
  <1>4. /\ \A k \in 1 .. n : t[k] = s[k]
        /\ \A k \in 1 .. m : t[n + k] = new[k]
    OBVIOUS
  <1> HIDE DEF n, m
  <1>5. ASSUME NEW k \in 1 .. (n + m)
        PROVE  t[k] = u[k]
    <2>1. CASE k \in 1 .. n
      BY <1>2, <1>4, <2>1
    <2>2. CASE k \notin 1 .. n
      <3>1. PICK j \in 1 .. m : n + j = k
        <4>1. k - n \in 1 .. m /\ n + (k - n) = k
          BY <1>3, <2>2
        <4>2. QED
          BY <4>1
      <3>2. QED
        BY <1>2, <1>4, <3>1
    <2>3. QED
      BY <2>1, <2>2
  <1>6. t = [k \in 1 .. (n + m) |-> t[k]] /\ u = [k \in 1 .. (n + m) |-> u[k]]
    <2>1. \A v \in Seq(Int) : v = [k \in 1 .. Len(v) |-> v[k]]
      OBVIOUS
    <2>2. QED
      BY <1>2, <1>3, <2>1
  <1>7. QED
    BY <1>1, <1>5, <1>6

(* A function on the first numbers is a sequence.                          *)
LEMMA IsSequence ==
  ASSUME NEW S, NEW m \in Nat, NEW s \in [1 .. m -> S]
  PROVE  s \in Seq(S) /\ Len(s) = m
  OBVIOUS

(* A collection appends entries that start from bptbl_active_sf on.        *)
LEMMA CollectionAppends ==
  ASSUME IInv, OutsideInv, NEW fr, NEW K, CollectsUpTo(fr, K), NEW top \in Nat,
         \A i \in K : ent[i].frame <= top
  PROVE  \E m \in 0 .. MaxEntries :
           /\ m = Cardinality(K)
           /\ \E new \in [1 .. m -> ActiveSf .. top] : Starts' = Starts \o new
  <1>1. Types /\ FramesCut /\ Pointers
    BY DEF IInv
  <1>2. PICK eidx \in Nat : /\ eidx = EfIdx(fr) /\ entBase <= eidx /\ eidx <= entNext
                            /\ Closed(K, eidx) /\ RetireEffect(K, eidx)
    BY DEF CollectsUpTo
  <1>3. PICK len \in Nat : len = Len(ret) /\ DOMAIN ret = 1 .. len
    BY <1>1, RetiredEntries
  <1>4. K \in SUBSET (entBase .. (eidx - 1)) /\ entBase \in Nat
    BY <1>1, <1>2 DEF Closed, Types
  <1>5. PICK m \in Nat : m = Cardinality(K)
    BY <1>4, Ranks
  <1>6. Len(ret') = len + m /\ Len(ret') <= eidx /\ DOMAIN ret' = 1 .. (len + m)
    BY <1>1, <1>2, <1>3, <1>5, CollectionFacts DEF RetireEffect
  <1>7. m \in 0 .. MaxEntries
    <2>1. /\ entNext <= entered /\ entered <= MaxEntries /\ entNext \in Nat /\ entered \in Nat
          /\ MaxEntries \in Nat
      BY <1>1, BptblAssumption DEF OutsideInv, Numbered, Types
    <2>2. QED
      BY <1>2, <1>3, <1>5, <1>6, <2>1
  <1> DEFINE start(k) == EndFrameAfter(ret'[k].bp) + 1
             new == [k \in 1 .. m |-> start(len + k)]
  <1>8. Starts' = [k \in DOMAIN ret' |-> start(k)]
    BY DEF Starts, StartFrame, EndFrame, Entry, EndFrameAfter, EntryAfter, NoBp
  <1>9. Starts \in Seq(Int) /\ Len(Starts) = len
    <2>1. Starts \in [1 .. len -> Int]
      BY <1>3, StartFrames DEF Starts
    <2>2. QED
      BY <2>1
  <1>10. ASSUME NEW k \in 1 .. len
         PROVE  start(k) = Starts[k]
    <2>1. k \in DOMAIN ret /\ ret'[k] = ret[k]
      BY <1>1, <1>2, <1>3, CollectionFacts
    <2>2. ret[k].bp \in {NoBp} \cup (0 .. (Len(ret) - 1))
      BY <1>1, <2>1 DEF Pointers
    <2>3. EndFrameAfter(ret[k].bp) = EndFrame(ret[k].bp)
      BY <1>2, <2>2, EndFrameStays
    <2>4. QED
      BY <2>1, <2>3 DEF Starts, StartFrame
  <1>11. ASSUME NEW k \in 1 .. m
         PROVE  start(len + k) \in ActiveSf .. top
    <2>1. len + k \in DOMAIN ret' /\ len + k \notin DOMAIN ret
      BY <1>3, <1>5, <1>6
    <2>2. PICK i \in K : IsCopy(ret'[len + k], ent[i], Remap(K, eidx, ent[i].bp), Retiring(K, eidx)[i].dest)
      BY <1>1, <1>2, <2>1, RetiredFrom
    <2>3. ret'[len + k].bp = Remap(K, eidx, ent[i].bp)
      BY <2>2 DEF IsCopy
    <2>4. start(len + k) = StartFrame(ent[i])
      BY <1>2, <2>3, EndFrameStays DEF StartFrame
    <2>5. i \in DOMAIN ent
      BY <1>1, <1>2, CollectionFacts
    <2>6. StartFrame(ent[i]) \in Int /\ ActiveSf <= StartFrame(ent[i]) /\ StartFrame(ent[i]) <= ent[i].frame
          /\ ActiveSf \in Nat
      BY <2>5, StartFrames
    <2>7. ent[i].frame <= top /\ ent[i].frame \in Nat
      BY <1>1, <2>5, ActiveEntries
    <2> HIDE DEF start
    <2>8. QED
      BY <2>4, <2>6, <2>7
  <1> HIDE DEF start
  <1>12. new \in [1 .. m -> ActiveSf .. top] /\ new \in Seq(Int) /\ Len(new) = m
    <2>1. new \in [1 .. m -> ActiveSf .. top]
      BY <1>11
    <2>2. \A n \in ActiveSf .. top : n \in Int
      OBVIOUS
    <2> HIDE DEF new
    <2>3. new \in [1 .. m -> Int]
      BY <2>1, <2>2
    <2>4. QED
      BY <2>1, <2>3, IsSequence
  <1>13. Starts' = Starts \o new
    <2>1. PICK t : t = Starts'
      OBVIOUS
    <2>2. t = [k \in 1 .. (len + m) |-> start(k)]
      BY <1>6, <1>8, <2>1
    <2>3. \A k \in 1 .. len : t[k] = Starts[k]
      <3>1. \A k \in 1 .. len : k \in 1 .. (len + m)
        OBVIOUS
      <3>2. QED
        BY <1>10, <2>2, <3>1
    <2>4. \A k \in 1 .. m : t[len + k] = new[k] /\ new[k] \in Int
      <3>1. \A k \in 1 .. m : len + k \in 1 .. (len + m)
        OBVIOUS
      <3>2. \A k \in 1 .. m : start(len + k) \in Int
        BY <1>11
      <3>3. QED
        BY <2>2, <3>1, <3>2
    <2>5. \A k \in 1 .. (len + m) : t[k] \in Int
      <3> SUFFICES ASSUME NEW k \in 1 .. (len + m)
                   PROVE  t[k] \in Int
        OBVIOUS
      <3>1. CASE k \in 1 .. len
        BY <1>9, <2>3, <3>1
      <3>2. CASE k \notin 1 .. len
        <4>1. k - len \in 1 .. m /\ len + (k - len) = k
          BY <3>2
        <4> HIDE DEF new
        <4>2. QED
          BY <2>4, <4>1
      <3>3. QED
        BY <3>1, <3>2
    <2>6. len + m \in Nat /\ t \in [1 .. (len + m) -> Int]
      BY <2>2, <2>5
    <2>7. t \in Seq(Int) /\ Len(t) = len + m
      BY <2>6, IsSequence
    <2> HIDE DEF new
    <2>8. t = Starts \o new
      <3>1. PICK r : r = Starts
        OBVIOUS
      <3>2. PICK w : w = new
        OBVIOUS
      <3>3. r \in Seq(Int) /\ w \in Seq(Int) /\ Len(r) = len /\ Len(w) = m
        BY <1>9, <1>12, <3>1, <3>2
      <3>4. /\ \A k \in 1 .. Len(r) : t[k] = r[k]
            /\ \A k \in 1 .. Len(w) : t[Len(r) + k] = w[k]
        BY <2>3, <2>4, <3>1, <3>2, <3>3
      <3>5. t = r \o w
        BY <2>7, <3>3, <3>4, Followed
      <3>6. QED
        BY <3>1, <3>2, <3>5
    <2>9. QED
      BY <2>1, <2>8
  <1> HIDE DEF new
  <1>14. QED
    BY <1>5, <1>7, <1>12, <1>13

(* A collection never moves bptbl_active_sf back, nor past the frame it    *)
(* goes up to; when nothing stays active it is the frame after the last    *)
(* retired entry.                                                          *)
LEMMA BoundMovesOn ==
  ASSUME IInv, OutsideInv, IInv', NEW fr, NEW K, CollectsUpTo(fr, K)
  PROVE  /\ ret' # <<>> /\ ActiveSf' \in Nat /\ ActiveSf <= ActiveSf' /\ ActiveSf' <= fr
         /\ DOMAIN ent' = {} => /\ Len(ret') \in DOMAIN ret'
                                /\ ActiveSf' = ret'[Len(ret')].frame + 1
  <1>1. Types /\ FramesCut
    BY DEF IInv
  <1>2. PICK eidx \in Nat : /\ eidx = EfIdx(fr) /\ entBase <= eidx /\ eidx <= entNext
                            /\ Closed(K, eidx) /\ RetireEffect(K, eidx) /\ ~Aborts(K)
    BY DEF CollectsUpTo
  <1>3. entNext' = entNext /\ activeFr' = fr /\ fr \in Nat
    <2>1. activeFr \in Nat /\ nFrame \in Nat
      BY <1>1 DEF Types
    <2>2. QED
      BY <2>1 DEF CollectsUpTo
  <1>4. /\ oldestBp' \in {NoBp} \cup (0 .. (Len(ret') - 1)) /\ ret' # <<>>
        /\ oldestBp' = Len(ret') - 1 \/ \E i \in DOMAIN ent' : oldestBp' = ent'[i].bp
    BY <1>1, <1>2, <1>3, CollectionFindsOldest
  <1>5. PICK len \in Nat : len = Len(ret') /\ DOMAIN ret' = 1 .. len /\ len # 0
    <2>1. ret' \in Seq(EntryRecord)
      BY <1>2 DEF RetireEffect
    <2>2. PICK s : s = ret'
      OBVIOUS
    <2>3. s \in Seq(EntryRecord) /\ s # <<>>
      BY <1>4, <2>1, <2>2
    <2>4. Len(s) \in Nat /\ DOMAIN s = 1 .. Len(s) /\ Len(s) # 0
      BY <2>3
    <2>5. QED
      BY <2>2, <2>4
  <1>6. \A k \in 1 .. len : ret'[k].frame \in Nat /\ ret'[k].frame < fr
    <2>1. RetiredInOrder'
      BY DEF IInv
    <2>2. \A k \in DOMAIN ret' : ret'[k].frame < fr
      BY <1>3, <2>1 DEF RetiredInOrder
    <2>3. ret' \in Seq(EntryRecord)
      BY <1>2 DEF RetireEffect
    <2>4. PICK s : s = ret'
      OBVIOUS
    <2>5. \A k \in DOMAIN s : s[k] \in EntryRecord
      BY <2>3, <2>4
    <2>6. \A k \in DOMAIN ret' : ret'[k].frame \in Nat
      BY <2>4, <2>5 DEF EntryRecord
    <2>7. QED
      BY <1>5, <2>2, <2>6
  <1>7. \A j, k \in 1 .. len : j <= k => ret'[j].frame <= ret'[k].frame
    BY <1>5 DEF IInv, RetiredInOrder
  <1>8. ActiveSf' = EndFrameAfter(oldestBp') + 1
    BY DEF ActiveSf, EndFrame, Entry, EndFrameAfter, EntryAfter, NoBp
  <1>9. \A b \in 0 .. (len - 1) :
          b + 1 \in 1 .. len /\ b # NoBp /\ EndFrameAfter(b) = ret'[b + 1].frame
    BY <1>2, <1>5, EndFrameStays
  <1>10. EndFrameAfter(NoBp) = -1
    BY DEF EndFrameAfter
  <1>11. ActiveSf \in Nat
    BY StartFrames
  <1>12. ActiveSf' \in Nat /\ ActiveSf' <= fr
    <2>1. CASE oldestBp' = NoBp
      BY <1>3, <1>8, <1>10, <2>1
    <2>2. CASE oldestBp' \in 0 .. (len - 1)
      <3>1. /\ ActiveSf' = ret'[oldestBp' + 1].frame + 1
            /\ ret'[oldestBp' + 1].frame \in Nat /\ ret'[oldestBp' + 1].frame < fr
        BY <1>6, <1>8, <1>9, <2>2
      <3>2. QED
        BY <1>3, <3>1
    <2>3. QED
      BY <1>4, <1>5, <2>1, <2>2
  <1>13. CASE oldestBp' = Len(ret') - 1
    <2>1. len - 1 \in 0 .. (len - 1) /\ len - 1 + 1 = len /\ len \in 1 .. len
      BY <1>5
    <2>2. ActiveSf' = ret'[len].frame + 1
      BY <1>5, <1>8, <1>9, <1>13, <2>1
    <2>3. ActiveSf <= ActiveSf'
      <3>1. CASE oldestBp = NoBp
        <4>1. ActiveSf = 0
          BY <3>1 DEF ActiveSf, EndFrame
        <4>2. QED
          BY <1>12, <4>1
      <3>2. CASE oldestBp # NoBp
        <4>1. oldestBp \in 0 .. (Len(ret) - 1) /\ Len(ret) \in Nat /\ DOMAIN ret = 1 .. Len(ret)
          BY <1>1, <3>2, RetiredEntries DEF Types
        <4>2. PICK k \in 1 .. len : k = oldestBp + 1 /\ k \in DOMAIN ret
          <5>1. oldestBp + 1 \in DOMAIN ret
            BY <4>1
          <5>2. oldestBp + 1 \in DOMAIN ret'
            BY <1>1, <1>2, <5>1, CollectionFacts
          <5>3. QED
            BY <1>5, <5>1, <5>2
        <4>3. EndFrame(oldestBp) = ret[k].frame
          <5>1. oldestBp < entBase
            <6>1. Len(ret) <= entBase /\ entBase \in Nat
              BY <1>1 DEF Types
            <6>2. QED
              BY <4>1, <6>1
          <5>2. QED
            BY <3>2, <4>2, <5>1 DEF EndFrame, Entry
        <4>4. ret[k].frame = ret'[k].frame
          BY <1>1, <1>2, <4>2, CollectionFacts
        <4>5. k <= len
          BY <4>2
        <4>6. ret'[k].frame <= ret'[len].frame
          BY <1>7, <2>1, <4>2, <4>5
        <4>7. ActiveSf = ret'[k].frame + 1
          BY <4>3, <4>4 DEF ActiveSf
        <4>8. ret'[k].frame \in Nat /\ ret'[len].frame \in Nat
          BY <1>6, <2>1, <4>2
        <4>9. QED
          BY <2>2, <4>6, <4>7, <4>8
      <3>3. QED
        BY <3>1, <3>2
    <2>4. QED
      BY <1>4, <1>5, <1>12, <2>1, <2>2, <2>3
  <1>14. ASSUME NEW i \in DOMAIN ent', oldestBp' = ent'[i].bp
         PROVE  ActiveSf <= ActiveSf'
    <2>1. i \in eidx .. (entNext - 1) /\ i \in DOMAIN ent
      BY <1>1, <1>2, CollectionFacts
    <2>2. ent'[i].bp = Remap(K, eidx, ent[i].bp)
      BY <1>2, <2>1 DEF RetireEffect, IsCopy
    <2>3. EndFrameAfter(oldestBp') = EndFrame(ent[i].bp)
      BY <1>2, <1>14, <2>1, <2>2, EndFrameStays
    <2>4. ActiveSf' = StartFrame(ent[i])
      BY <1>8, <2>3 DEF StartFrame
    <2>5. QED
      BY <2>1, <2>4, StartFrames
  <1>15. QED
    BY <1>4, <1>12, <1>13, <1>14

(* What is collected ended before the frame the collection goes up to.     *)
LEMMA CollectedEarlier ==
  ASSUME IInv, NEW fr, NEW K, CollectsUpTo(fr, K)
  PROVE  \A i \in K : ent[i].frame \in Nat /\ ent[i].frame < fr
  <1>1. Types /\ FramesCut /\ fr \in activeFr .. nFrame /\ activeFr \in Nat /\ nFrame \in Nat
    BY DEF IInv, CollectsUpTo, Types
  <1> SUFFICES ASSUME NEW i \in K
               PROVE  ent[i].frame \in Nat /\ ent[i].frame < fr
    OBVIOUS
  <1>2. i \in entBase .. (EfIdx(fr) - 1) /\ i \in DOMAIN ent
    BY DEF CollectsUpTo, Closed
  <1>3. ent[i].frame \in Nat /\ entBase \in Nat
    BY <1>1, <1>2, ActiveEntries
  <1>4. ~ (i >= EfIdx(fr))
    <2>1. EfIdx(fr) \in Nat
      BY DEF CollectsUpTo
    <2>2. QED
      BY <1>2, <1>3, <2>1
  <1>5. ~ (ent[i].frame >= fr)
    BY <1>1, <1>2, <1>4 DEF FramesCut
  <1>6. QED
    BY <1>1, <1>3, <1>5

(* bptbl_push_frame with a collection, seen from outside.                  *)
LEMMA PushSeen ==
  ASSUME IInv, OutsideInv, IInv', NEW oldest \in Histories, PushAndGc(oldest)
  PROVE  TC!TablePush(nFrame, MaxEntries)
  <1>1. Types /\ FramesCut
    BY DEF IInv
  <1>2. PICK fr : fr = NextActiveFr(oldest)
    OBVIOUS
  <1>3. PICK K : CollectsUpTo(fr, K)
    BY <1>2, PushCollects
  <1>4. /\ NeedsGc(oldest) /\ oldest \in Nat /\ fr > activeFr + 1
        /\ activeFr \in Nat /\ nFrame \in Nat
    BY <1>1, <1>2, NextActive DEF PushAndGc, NeedsGc, Types
  <1>5. fr \in Nat /\ fr <= nFrame - 1
    <2>1. oldest \in DOMAIN ent /\ fr = ent[oldest].frame
      BY <1>1, <1>2, <1>4, ActiveEntries DEF Histories, NextActiveFr, NoBp
    <2>2. fr \in activeFr .. (nFrame - 1)
      BY <1>1, <2>1, ExitsByFrame
    <2>3. QED
      BY <1>4, <2>2
  <1>6. PICK top \in Nat : top = nFrame - 2
    <2>1. nFrame - 2 \in Nat
      BY <1>4, <1>5
    <2>2. QED
      BY <2>1
  <1>7. \A i \in K : ent[i].frame <= top
    <2>1. \A i \in K : ent[i].frame \in Nat /\ ent[i].frame < fr
      BY <1>3, CollectedEarlier
    <2>2. \A g \in Nat : g < fr => g <= top
      BY <1>4, <1>5, <1>6
    <2>3. QED
      BY <2>1, <2>2
  <1>8. PICK k \in 0 .. MaxEntries : \E new \in [1 .. k -> ActiveSf .. top] : Starts' = Starts \o new
    BY <1>3, <1>7, CollectionAppends
  <1>9. PICK new \in [1 .. k -> ActiveSf .. top] : Starts' = Starts \o new
    BY <1>8
  <1>10. ActiveSf' \in ActiveSf .. (nFrame - 1) /\ ret' # <<>>
    <2>1. ret' # <<>> /\ ActiveSf' \in Nat /\ ActiveSf <= ActiveSf' /\ ActiveSf' <= fr
      BY <1>3, BoundMovesOn
    <2>2. ActiveSf \in Nat
      BY StartFrames
    <2>3. QED
      BY <1>4, <1>5, <2>1, <2>2
  <1>11. Starts' # <<>>
    <2>1. PICK s : s = ret'
      OBVIOUS
    <2>2. s \in Seq(EntryRecord) /\ s # <<>>
      BY <1>3, <1>10, <2>1 DEF CollectsUpTo, RetireEffect
    <2>3. DOMAIN s # {}
      <3>1. DOMAIN s = 1 .. Len(s) /\ Len(s) \in Nat /\ Len(s) # 0
        BY <2>2
      <3>2. QED
        BY <3>1
    <2>4. DOMAIN Starts' = DOMAIN s
      BY <2>1 DEF Starts
    <2>5. DOMAIN Starts' # {}
      BY <2>3, <2>4
    <2>6. QED
      BY <2>5
  <1>12. QED
    BY <1>6, <1>9, <1>10, <1>11 DEF TC!TablePush, Starts

(* Without a first predecessor bptbl_mark finds none.                      *)
LEMMA NothingMarked ==
  ASSUME NEW ef \in Nat, NEW cf, Exits(ef, cf) = {}
  PROVE  Survivors(ef, cf) = {}
  <1>1. PICK pass : /\ pass[0] = FirstPass(ef, cf)
                    /\ \A k \in 1 .. ef : pass[k] = MarkPass(pass[k - 1])
                    /\ Marked(ef, cf) = pass[ef].marked
    BY Passes
  <1> DEFINE S == {k \in 0 .. ef : pass[k].set = {} /\ pass[k].marked = {}}
  <1>2. 0 \in S
    BY <1>1 DEF FirstPass, PredecessorFrames
  <1>3. \A k \in 1 .. ef : k - 1 \in S => k \in S
    <2> SUFFICES ASSUME NEW k \in 1 .. ef, k - 1 \in S
                 PROVE  k \in S
      OBVIOUS
    <2>1. pass[k - 1].set = {} /\ pass[k - 1].marked = {}
      OBVIOUS
    <2>2. pass[k] = MarkPass(pass[k - 1])
      BY <1>1
    <2>3. pass[k].set = {} /\ pass[k].marked = {}
      BY <2>1, <2>2 DEF MarkPass, PredecessorFrames
    <2>4. QED
      BY <2>3
  <1>4. 0 .. ef \subseteq S
    <2> HIDE DEF S
    <2>1. 0 \in Nat /\ \A k \in (0 + 1) .. ef : k - 1 \in S => k \in S
      BY <1>3
    <2>2. QED
      BY <1>2, <2>1, UpFrom
  <1>5. ef \in S
    BY <1>4
  <1>6. Marked(ef, cf) = {}
    BY <1>1, <1>5
  <1>7. QED
    BY <1>6 DEF Survivors

(* bptbl_finalize when a word ends in the last frame, seen from outside.   *)
LEMMA FinalizeSeen ==
  ASSUME IInv, OutsideInv, IInv', FinalizeAndRetire, LastExits # {}
  PROVE  TC!TableFinalize(nFrame, MaxEntries)
  <1>1. Types /\ FramesCut /\ IInv'
    BY DEF IInv
  <1>2. PICK K : K = Survivors(nFrame - 1, nFrame) \cup LastExits /\ CollectsUpTo(nFrame, K)
    BY FinalizeCollects
  <1>3. /\ EfIdx(nFrame) = entNext /\ nFrame - 1 \in activeFr .. nFrame
        /\ activeFr \in Nat /\ nFrame \in Nat
    BY <1>1, FinalizeCollects DEF Types
  <1>4. PICK top \in Nat : top = nFrame - 1 /\ top \in activeFr .. (nFrame - 1)
    <2>1. nFrame - 1 \in Nat /\ nFrame - 1 \in activeFr .. (nFrame - 1)
      BY <1>3
    <2>2. QED
      BY <2>1
  <1>5. \A i \in K : ent[i].frame <= top
    <2>1. \A i \in K : ent[i].frame \in Nat /\ ent[i].frame < nFrame
      BY <1>2, CollectedEarlier
    <2>2. \A g \in Nat : g < nFrame => g <= top
      BY <1>3, <1>4
    <2>3. QED
      BY <2>1, <2>2
  <1>6. PICK k \in 0 .. MaxEntries :
          k = Cardinality(K) /\ \E new \in [1 .. k -> ActiveSf .. top] : Starts' = Starts \o new
    BY <1>2, <1>5, CollectionAppends
  <1>7. PICK new \in [1 .. k -> ActiveSf .. top] : Starts' = Starts \o new
    BY <1>6
  <1>8. PICK i \in LastExits : i \in K /\ i \in DOMAIN ent /\ ent[i].frame = top
    <2>1. LastExits = {i \in DOMAIN ent : ent[i].frame = top}
      <3>1. LastExits = Exits(top, top + 1)
        BY <1>3, <1>4 DEF LastExits
      <3>2. QED
        BY <1>1, <1>4, <3>1, ExitsByFrame
    <2>2. QED
      BY <1>2, <2>1
  <1>9. k \in 1 .. MaxEntries
    <2>1. K \in SUBSET (entBase .. (entNext - 1)) /\ entBase \in Nat /\ entNext \in Nat
      BY <1>1, <1>2, <1>3 DEF CollectsUpTo, Closed, Types
    <2>2. Cardinality(K) \in Nat /\ Rank(K, i) < Cardinality(K) /\ Rank(K, i) \in Nat
      <3>1. i \in Nat
        BY <1>1, <1>8, ActiveEntries
      <3>2. QED
        BY <1>8, <2>1, <3>1, Ranks
    <2>3. QED
      BY <1>6, <2>2
  <1>10. ActiveSf' = nFrame
    <2>1. /\ DOMAIN ent' = {} /\ Len(ret') \in DOMAIN ret'
          /\ ActiveSf' = ret'[Len(ret')].frame + 1 /\ ActiveSf' \in Nat /\ ActiveSf' <= nFrame
      <3>1. DOMAIN ent' = {}
        <4>1. /\ EfIdx(nFrame) \in Nat /\ entBase <= EfIdx(nFrame) /\ EfIdx(nFrame) <= entNext
              /\ Closed(K, EfIdx(nFrame)) /\ RetireEffect(K, EfIdx(nFrame))
          BY <1>2 DEF CollectsUpTo
        <4>2. DOMAIN ent' = EfIdx(nFrame) .. (entNext - 1) /\ entNext \in Nat
          BY <1>1, <4>1, CollectionFacts
        <4>3. QED
          BY <1>3, <4>2
      <3>2. QED
        BY <1>2, <3>1, BoundMovesOn
    <2>2. PICK j \in DOMAIN ret' : ret'[j].frame = top
      <3>1. /\ EfIdx(nFrame) \in Nat /\ entBase <= EfIdx(nFrame) /\ EfIdx(nFrame) <= entNext
            /\ Closed(K, EfIdx(nFrame)) /\ RetireEffect(K, EfIdx(nFrame))
        BY <1>2 DEF CollectsUpTo
      <3>2. /\ Len(ret) + Rank(K, i) + 1 \in (Len(ret) + 1) .. Len(ret')
            /\ ret'[Len(ret) + Rank(K, i) + 1].frame = ent[i].frame
        BY <1>8, <3>1 DEF RetireEffect, IsCopy
      <3>3. Len(ret) \in Nat /\ Len(ret') \in Nat /\ DOMAIN ret' = 1 .. Len(ret')
        BY <1>1, <3>1, CollectionFacts
      <3>4. PICK j \in (Len(ret) + 1) .. Len(ret') : ret'[j].frame = ent[i].frame
        BY <3>2
      <3>5. j \in DOMAIN ret'
        BY <3>3, <3>4
      <3>6. QED
        BY <1>8, <3>4, <3>5
    <2>3. PICK len \in Nat : len = Len(ret') /\ DOMAIN ret' = 1 .. len
      <3>1. Types'
        BY DEF IInv
      <3>2. ret' \in Seq(EntryRecord)
        BY <3>1 DEF Types
      <3>3. PICK s : s = ret'
        OBVIOUS
      <3>4. Len(s) \in Nat /\ DOMAIN s = 1 .. Len(s)
        BY <3>2, <3>3
      <3>5. QED
        BY <3>3, <3>4
    <2>4. top <= ret'[len].frame
      <3>1. RetiredInOrder'
        BY DEF IInv
      <3>2. j <= len /\ len \in DOMAIN ret'
        BY <2>1, <2>2, <2>3
      <3>3. QED
        BY <2>2, <3>1, <3>2 DEF RetiredInOrder
    <2>5. PICK g : g = ret'[len].frame
      OBVIOUS
    <2>6. g \in Nat
      <3>1. ret' \in Seq(EntryRecord) /\ len \in DOMAIN ret'
        BY <1>2, <2>1, <2>3 DEF CollectsUpTo, RetireEffect
      <3>2. PICK s : s = ret'
        OBVIOUS
      <3>3. s[len] \in EntryRecord
        BY <3>1, <3>2
      <3>4. QED
        BY <2>5, <3>2, <3>3 DEF EntryRecord
    <2>7. g + 1 \in Nat /\ g + 1 <= nFrame /\ ActiveSf' = g + 1 /\ top <= g
      BY <2>1, <2>3, <2>4, <2>5
    <2>8. QED
      BY <1>3, <1>4, <2>6, <2>7
  <1>11. QED
    BY <1>4, <1>7, <1>9, <1>10 DEF TC!TableFinalize, Starts

(* bptbl_finalize when no word ends in the last frame, seen from outside.  *)
LEMMA FinalizeWithoutExitSeen ==
  ASSUME IInv, OutsideInv, IInv', FinalizeAndRetire, LastExits = {}
  PROVE  TC!TableFinalizeWithoutExit(nFrame)
  <1>1. Types /\ FramesCut /\ RetiredInOrder
    BY DEF IInv
  <1>2. /\ EfIdx(nFrame) = entNext /\ nFrame - 1 \in activeFr .. nFrame
        /\ activeFr \in Nat /\ nFrame \in Nat
    BY <1>1, FinalizeCollects DEF Types
  <1>3. PICK K : K = {} /\ CollectsUpTo(nFrame, K)
    <2>1. nFrame - 1 \in Nat
      BY <1>2
    <2>2. Survivors(nFrame - 1, nFrame) = {}
      BY <2>1, NothingMarked DEF LastExits
    <2>3. QED
      BY <2>2, FinalizeCollects
  <1>4. /\ EfIdx(nFrame) \in Nat /\ entBase <= EfIdx(nFrame) /\ EfIdx(nFrame) <= entNext
        /\ Closed(K, EfIdx(nFrame)) /\ RetireEffect(K, EfIdx(nFrame))
    BY <1>3 DEF CollectsUpTo
  <1>5. ret' = ret
    <2>1. PICK s : s = ret'
      OBVIOUS
    <2>2. s \in Seq(EntryRecord) /\ Len(s) = Len(ret) /\ \A k \in DOMAIN ret : s[k] = ret[k]
      <3>1. Cardinality(K) = 0
        BY <1>3, FS_EmptySet
      <3>2. Len(ret) \in Nat
        BY <1>1, RetiredEntries
      <3>3. QED
        BY <1>4, <2>1, <3>1, <3>2 DEF RetireEffect
    <2>3. ret \in Seq(EntryRecord)
      BY <1>1 DEF Types
    <2>4. \A v \in Seq(EntryRecord) : v = [k \in 1 .. Len(v) |-> v[k]] /\ DOMAIN v = 1 .. Len(v)
      OBVIOUS
    <2>5. s = ret
      BY <2>2, <2>3, <2>4
    <2>6. QED
      BY <2>1, <2>5
  <1>6. Starts' = Starts
    <2>1. \A k \in DOMAIN ret : ret[k].bp \in {NoBp} \cup (0 .. (Len(ret) - 1))
      BY DEF IInv, Pointers
    <2>2. \A k \in DOMAIN ret : EndFrameAfter(ret[k].bp) = EndFrame(ret[k].bp)
      BY <1>4, <2>1, EndFrameStays
    <2>3. Starts' = [k \in DOMAIN ret |-> EndFrameAfter(ret[k].bp) + 1]
      BY <1>5 DEF Starts, StartFrame, EndFrame, Entry, EndFrameAfter, EntryAfter, NoBp
    <2>4. Starts = [k \in DOMAIN ret |-> EndFrame(ret[k].bp) + 1]
      BY DEF Starts, StartFrame
    <2>5. QED
      BY <2>2, <2>3, <2>4
  <1>7. PICK len \in Nat : len = Len(ret) /\ DOMAIN ret = 1 .. len
    BY <1>1, RetiredEntries
  <1>8. /\ DOMAIN ent' = {} /\ len \in 1 .. len /\ ret # <<>> /\ ActiveSf' \in Nat
        /\ ActiveSf <= ActiveSf' /\ ActiveSf \in Nat
    <2>1. DOMAIN ent' = EfIdx(nFrame) .. (entNext - 1) /\ entNext \in Nat
      BY <1>1, <1>4, CollectionFacts
    <2>2. DOMAIN ent' = {}
      BY <1>2, <2>1
    <2>3. QED
      BY <1>3, <1>5, <1>7, <2>2, BoundMovesOn, StartFrames
  <1>9. ActiveSf' = ret[len].frame + 1
    BY <1>3, <1>5, <1>7, <1>8, BoundMovesOn
  <1>10. ASSUME NEW k \in 1 .. len
         PROVE  Starts[k] \in Int /\ Starts[k] < ActiveSf'
    <2>1. Starts[k] = StartFrame(ret[k]) /\ StartFrame(ret[k]) \in Int /\ StartFrame(ret[k]) <= ret[k].frame
      BY <1>7, StartFrames DEF Starts
    <2>2. ret[k].frame <= ret[len].frame
      <3>1. k <= len
        OBVIOUS
      <3>2. QED
        BY <1>1, <1>7, <1>8, <3>1 DEF RetiredInOrder
    <2>3. ret[k].frame \in Nat /\ ret[len].frame \in Nat
      BY <1>1, <1>7, <1>8, RetiredEntries
    <2>4. QED
      BY <1>9, <2>1, <2>2, <2>3
  <1>11. ActiveSf' \in ActiveSf .. (nFrame - 1)
    <2>1. ret[len].frame \in Nat /\ ret[len].frame < activeFr
      BY <1>1, <1>7, <1>8, RetiredEntries DEF RetiredInOrder
    <2>2. QED
      BY <1>2, <1>8, <1>9, <2>1
  <1>12. DOMAIN Starts = 1 .. len
    BY <1>7 DEF Starts
  <1>13. QED
    BY <1>6, <1>8, <1>10, <1>11, <1>12 DEF TC!TableFinalizeWithoutExit, Starts

(* Every step of the table is one that an arc buffer can stand.            *)
LEMMA StepIsSeen == IInv /\ OutsideInv /\ IInv' /\ Next => ContractStep
  <1> SUFFICES ASSUME IInv, OutsideInv, IInv', Next
               PROVE  ContractStep
    OBVIOUS
  <1>1. Types /\ FramesCut
    BY DEF IInv
  <1>2. ASSUME UNCHANGED entriesVars
        PROVE  Starts' = Starts /\ ActiveSf' = ActiveSf
    BY <1>2 DEF entriesVars, Starts, ActiveSf, StartFrame, EndFrame, Entry, NoBp
  <1>3. ASSUME PushFrame
        PROVE  ContractStep
    <2>1. PICK oldest \in Histories : \/ PushOnly(oldest) \/ PushNothingToGc(oldest)
                                      \/ PushAndGc(oldest) \/ PushAborts(oldest)
      BY <1>3 DEF PushFrame
    <2>2. pc = "push"
      BY <2>1 DEF PushOnly, PushNothingToGc, PushAndGc, PushAborts, Push
    <2>3. CASE PushOnly(oldest) \/ PushNothingToGc(oldest)
      <3>1. UNCHANGED entriesVars /\ pc' = "enter"
        BY <2>3 DEF PushOnly, PushNothingToGc
      <3>2. TC!TablePush(nFrame, MaxEntries)
        BY <1>2, <3>1 DEF TC!TablePush, TC!tableVars, Starts
      <3>3. QED
        BY <2>2, <3>1, <3>2 DEF ContractStep
    <2>4. CASE PushAndGc(oldest)
      <3>1. pc' = "enter"
        BY <2>4 DEF PushAndGc
      <3>2. TC!TablePush(nFrame, MaxEntries)
        BY <2>4, PushSeen
      <3>3. QED
        BY <2>2, <3>1, <3>2 DEF ContractStep
    <2>5. CASE PushAborts(oldest)
      BY <2>2, <2>5 DEF PushAborts, ContractStep
    <2>6. QED
      BY <2>1, <2>3, <2>4, <2>5
  <1>4. ASSUME SearchFrame
        PROVE  ContractStep
    BY <1>4 DEF SearchFrame, Enter, Update, Commit, ContractStep
  <1>5. ASSUME FinalizeNothing
        PROVE  ContractStep
    <2>1. pc = "push" /\ pc' = "done" /\ nFrame > 0 /\ entNext = entBase /\ UNCHANGED entriesVars
      BY <1>5 DEF FinalizeNothing, IsFinal
    <2>2. Starts' = Starts /\ ActiveSf' = ActiveSf
      BY <1>2, <2>1
    <2>3. entBase \in Nat /\ ret = <<>>
      BY <1>1, <2>1 DEF Types, OutsideInv, StillActive
    <2>4. ActiveSf = 0 /\ Starts = <<>> /\ DOMAIN Starts = {}
      <3>1. ActiveSf = 0
        BY <2>3, StartFrames
      <3>2. DOMAIN ret = {}
        BY <2>3
      <3>3. QED
        BY <3>1, <3>2 DEF Starts
    <2>5. LastExits = {}
      <3>1. activeFr < nFrame
        BY <2>1 DEF OutsideInv, LastIsActive
      <3>2. /\ LastExits = EfIdx(nFrame - 1) .. (entNext - 1)
            /\ EfIdx(nFrame - 1) \in Nat /\ entBase <= EfIdx(nFrame - 1)
        BY <1>1, <3>1, LastFrame DEF LastExits
      <3>3. QED
        BY <2>1, <2>3, <3>2
    <2>6. TC!TableFinalizeWithoutExit(nFrame)
      BY <2>2, <2>4 DEF TC!TableFinalizeWithoutExit, Starts
    <2>7. QED
      BY <2>1, <2>5, <2>6 DEF ContractStep
  <1>6. ASSUME FinalizeAndRetire
        PROVE  ContractStep
    <2>1. pc = "push" /\ pc' = "done"
      BY <1>6 DEF FinalizeAndRetire
    <2>2. \/ LastExits # {} /\ TC!TableFinalize(nFrame, MaxEntries)
          \/ LastExits = {} /\ TC!TableFinalizeWithoutExit(nFrame)
      BY <1>6, FinalizeSeen, FinalizeWithoutExitSeen
    <2>3. QED
      BY <2>1, <2>2 DEF ContractStep
  <1>7. ASSUME FinalizeAborts
        PROVE  ContractStep
    BY <1>7 DEF FinalizeAborts, ContractStep
  <1>8. ASSUME Reset
        PROVE  ContractStep
    <2>1. pc = "done" /\ pc' = "push" /\ ret' = <<>> /\ oldestBp' = NoBp
      BY <1>8 DEF Reset
    <2>2. ActiveSf' = 0
      BY <2>1 DEF ActiveSf, EndFrame, NoBp
    <2>3. Starts' = <<>>
      <3>1. DOMAIN ret' = {}
        BY <2>1
      <3>2. Starts' = [k \in DOMAIN ret' |-> StartFrame(ret[k])']
        BY DEF Starts
      <3>3. QED
        BY <3>1, <3>2
    <2>4. TC!TableReset
      BY <2>2, <2>3 DEF TC!TableReset, Starts
    <2>5. QED
      BY <2>1, <2>4 DEF ContractStep
  <1>9. ASSUME Aborted
        PROVE  ContractStep
    BY <1>9 DEF Aborted, vars, ContractStep
  <1>10. QED
    BY <1>3, <1>4, <1>5, <1>6, <1>7, <1>8, <1>9 DEF Next, Finalize

(* The steps of bptbl.c change the retired entries and bptbl_active_sf no  *)
(* other way than TableContract says, on which ArcBuffer is built.         *)
THEOREM ContractKept == Spec => KeepsTableContract
  <1>1. IInv /\ OutsideInv /\ [Next]_vars => [ContractStep]_vars
    BY StepKeeps, StepIsSeen
  <1>2. QED
    BY <1>1, OutsideInvariance, PTL DEF Spec, KeepsTableContract
-----------------------------------------------------------------------------
(* What bptbl_mark marks is what its reference says. *)

(* The frames of the predecessors of entries from frame ef on and of       *)
(* entries in the frames of F.                                             *)
Back(ef, F) ==
  PredecessorFrames(Exits(ef, nFrame) \cup UNION {Exits(g, g + 1) : g \in F})

(* Frames among which is every such frame before ef.                       *)
ClosedBack(ef, F) == \A f \in Back(ef, F) : f < ef => f \in F

(* A frame further back is that of a predecessor.                          *)
LEMMA FurtherBack ==
  ASSUME Types, FramesCut, RetiredInOrder, Pointers, NEW ef \in activeFr .. nFrame,
         NEW F, \A g \in F : g \in activeFr .. (ef - 1), NEW f \in Back(ef, F)
  PROVE  /\ f \in Nat /\ activeFr <= f
         /\ \A G : {g \in F : f < g} \subseteq G => f \in Back(ef, G)
  <1>1. activeFr \in Nat /\ nFrame \in Nat /\ ef \in Nat /\ activeFr <= ef /\ ef <= nFrame
    BY DEF Types
  <1>2. PICK i \in Exits(ef, nFrame) \cup UNION {Exits(g, g + 1) : g \in F} :
          f = EndFrame(ent[i].bp) /\ f >= activeFr
    BY DEF Back, PredecessorFrames
  <1>3. ASSUME NEW g \in F
        PROVE  g \in activeFr .. (nFrame - 1) /\ g \in Nat
    BY <1>1
  <1>4. CASE i \in Exits(ef, nFrame)
    <2>1. i \in DOMAIN ent
      BY <1>4, ExitsByFrame
    <2>2. f \in Int
      BY <1>2, <2>1, HistoryIsEarlier
    <2>3. f \in Nat /\ activeFr <= f
      BY <1>1, <1>2, <2>2
    <2>4. QED
      BY <1>2, <1>4, <2>3 DEF Back, PredecessorFrames
  <1>5. ASSUME NEW g \in F, i \in Exits(g, g + 1)
        PROVE  /\ f \in Nat /\ activeFr <= f
               /\ \A G : {h \in F : f < h} \subseteq G => f \in Back(ef, G)
    <2>1. i \in DOMAIN ent /\ ent[i].frame = g
      BY <1>3, <1>5, ExitsByFrame
    <2>2. f \in Int /\ f < g
      BY <1>2, <2>1, HistoryIsEarlier
    <2>3. f \in Nat /\ activeFr <= f
      BY <1>1, <1>2, <2>2
    <2>4. QED
      BY <1>2, <1>5, <2>2, <2>3 DEF Back, PredecessorFrames
  <1>6. QED
    BY <1>2, <1>4, <1>5

(* What the passes mark is closed, and is the least that is.               *)
LEMMA MarkedIsLeast ==
  ASSUME Types, FramesCut, RetiredInOrder, Pointers, NEW ef \in activeFr .. nFrame
  PROVE  /\ \A f \in Marked(ef, nFrame) : f \in activeFr .. (ef - 1)
         /\ ClosedBack(ef, Marked(ef, nFrame))
         /\ \A F : ClosedBack(ef, F) => Marked(ef, nFrame) \subseteq F
  <1>1. activeFr \in Nat /\ nFrame \in Nat /\ ef \in Nat /\ activeFr <= ef /\ ef <= nFrame
    BY DEF Types
  <1>2. PICK pass : /\ pass[0] = FirstPass(ef, nFrame)
                    /\ \A k \in 1 .. ef : pass[k] = MarkPass(pass[k - 1])
                    /\ \A k \in 0 .. ef : PassKept(pass[k], k, ef)
                    /\ Marked(ef, nFrame) = pass[ef].marked
    BY PassesKeep
  <1>3. PICK marked, set : /\ marked = Marked(ef, nFrame) /\ marked = pass[ef].marked
                           /\ set = pass[ef].set /\ PassKept(pass[ef], ef, ef)
    <2>1. ef \in 0 .. ef
      BY <1>1
    <2>2. QED
      BY <1>2, <2>1
  <1>4. /\ \A f \in marked : f \in activeFr .. (ef - 1)
        /\ \A f \in set : f \in Nat /\ (f < ef => f + ef < ef)
        /\ PredecessorFrames(Exits(ef, nFrame)) \subseteq marked \cup set
        /\ PredecessorFrames(UNION {Exits(f, f + 1) : f \in marked}) \subseteq marked \cup set
    BY <1>3 DEF PassKept
  <1>5. ClosedBack(ef, marked)
    <2>1. Back(ef, marked) \subseteq marked \cup set
      BY <1>4 DEF Back, PredecessorFrames
    <2>2. \A f \in set : ~ (f < ef)
      BY <1>1, <1>4
    <2>3. QED
      BY <2>1, <2>2 DEF ClosedBack
  <1>6. ASSUME NEW F, ClosedBack(ef, F)
        PROVE  marked \subseteq F
    <2> DEFINE Reached(p) == p.marked \subseteq F /\ \A f \in p.set : f < ef => f \in F
               S == {k \in 0 .. ef : Reached(pass[k])}
    <2>1. 0 \in S
      <3>1. pass[0].marked = {} /\ pass[0].set = PredecessorFrames(Exits(ef, nFrame))
        BY <1>2 DEF FirstPass
      <3>2. PredecessorFrames(Exits(ef, nFrame)) \subseteq Back(ef, F)
        BY DEF Back, PredecessorFrames
      <3>3. QED
        BY <1>1, <1>6, <3>1, <3>2 DEF ClosedBack
    <2>2. ASSUME NEW k \in 1 .. ef, Reached(pass[k - 1])
          PROVE  Reached(pass[k])
      <3>1. PICK p : p = pass[k - 1] /\ pass[k] = MarkPass(p) /\ PassKept(p, k - 1, ef)
        <4>1. k - 1 \in 0 .. ef
          BY <1>1
        <4>2. QED
          BY <1>2, <4>1
      <3> DEFINE here == {f \in p.set : f <= p.last}
                 back == PredecessorFrames(UNION {Exits(f, f + 1) : f \in here})
      <3>2. pass[k].marked = p.marked \cup here /\ pass[k].set = (p.set \ here) \cup back
        BY <3>1 DEF MarkPass
      <3>3. \A f \in here : f < ef
        <4>1. p.last \in Int /\ p.last < ef /\ \A f \in p.set : f \in Nat
          BY <3>1 DEF PassKept
        <4>2. QED
          BY <1>1, <4>1
      <3>4. here \subseteq F
        BY <2>2, <3>1, <3>3
      <3>5. back \subseteq Back(ef, F)
        BY <3>4 DEF Back, PredecessorFrames
      <3>6. \A f \in back : f < ef => f \in F
        BY <1>6, <3>5 DEF ClosedBack
      <3>7. p.marked \subseteq F /\ \A f \in p.set : f < ef => f \in F
        BY <2>2, <3>1
      <3> HIDE DEF here, back
      <3>8. QED
        BY <3>2, <3>4, <3>6, <3>7
    <2>3. 0 .. ef \subseteq S
      <3>1. \A k \in (0 + 1) .. ef : k - 1 \in S => k \in S
        <4> HIDE DEF Reached
        <4>1. QED BY <1>1, <2>2
      <3> HIDE DEF S
      <3>2. QED
        BY <1>1, <2>1, <3>1, UpFrom
    <2>4. ef \in S
      BY <1>1, <2>3
    <2>5. QED
      BY <1>3, <2>4
  <1>7. QED
    BY <1>3, <1>4, <1>5, <1>6

(* The reference is defined from one frame to the one before.              *)
LEMMA CoaccessibleFrames ==
  ASSUME NEW ef \in Nat, activeFr \in Nat, activeFr <= ef
  PROVE  \E from : /\ Coaccessible(ef, nFrame) = from[activeFr] /\ from[ef] = {}
                   /\ \A f \in activeFr .. (ef - 1) :
                        from[f] = from[f + 1] \cup ({f} \cap Back(ef, from[f + 1]))
  <1> DEFINE Step(g, f) == IF f = ef THEN {} ELSE g[f + 1] \cup ({f} \cap Back(ef, g[f + 1]))
             Down(g, low) == [f \in low .. ef |-> Step(g, f)]
             S == {k \in 0 .. (ef - activeFr) : \E h : h = Down(h, ef - k)}
  <1>1. 0 \in S
    <2> DEFINE h == [f \in ef .. ef |-> {}]
    <2>1. h = Down(h, ef)
      <3>1. \A f \in ef .. ef : f = ef
        OBVIOUS
      <3>2. QED
        BY <3>1
    <2> HIDE DEF Down
    <2>2. ef - 0 = ef /\ 0 \in 0 .. (ef - activeFr)
      OBVIOUS
    <2>3. QED
      BY <2>1, <2>2
  <1>2. ASSUME NEW k \in (0 + 1) .. (ef - activeFr), k - 1 \in S
        PROVE  k \in S
    <2>1. PICK low \in Nat : low = ef - k /\ ef - (k - 1) = low + 1 /\ low < ef
      OBVIOUS
    <2>2. PICK h : h = Down(h, low + 1)
      BY <1>2, <2>1
    <2> DEFINE g == [f \in low .. ef |-> IF f = low THEN Step(h, low) ELSE h[f]]
    <2>3. \A f \in (low + 1) .. ef : g[f] = h[f] /\ f \in low .. ef
      BY <2>1
    <2>4. \A f \in (low + 1) .. ef : h[f] = Step(h, f)
      BY <2>2
    <2>5. ASSUME NEW f \in low .. ef
          PROVE  g[f] = Step(g, f)
      <3>1. f # ef => g[f + 1] = h[f + 1]
        <4>1. f # ef => f + 1 \in (low + 1) .. ef
          BY <2>1
        <4> HIDE DEF g
        <4>2. QED
          BY <2>3, <4>1
      <3>2. Step(g, f) = Step(h, f)
        <4> HIDE DEF g
        <4>1. QED BY <3>1
      <3>3. CASE f = low
        <4> HIDE DEF Step
        <4>1. QED BY <3>2, <3>3
      <3>4. CASE f # low
        <4>1. f \in (low + 1) .. ef
          BY <2>1, <3>4
        <4> HIDE DEF g, Step
        <4>2. QED
          BY <2>3, <2>4, <3>2, <4>1
      <3>5. QED
        BY <3>3, <3>4
    <2>6. g = [f \in low .. ef |-> g[f]]
      OBVIOUS
    <2> HIDE DEF g, Step
    <2>7. g = Down(g, low)
      BY <2>5, <2>6
    <2> HIDE DEF Down
    <2>8. QED
      BY <2>1, <2>7
  <1>3. \E h : h = Down(h, activeFr)
    <2>1. PICK n \in Nat : n = ef - activeFr /\ ef - n = activeFr
      OBVIOUS
    <2> HIDE DEF S, Down
    <2>2. 0 .. n \subseteq S
      BY <1>1, <1>2, <2>1, UpFrom
    <2>3. n \in S
      BY <2>2
    <2>4. QED
      BY <2>1, <2>3 DEF S
  <1> DEFINE from == CHOOSE h : h = Down(h, activeFr)
  <1>4. Coaccessible(ef, nFrame) = from[activeFr]
    BY DEF Coaccessible, Back
  <1>5. from = Down(from, activeFr)
    <2> HIDE DEF Down
    <2>1. QED BY <1>3
  <1> HIDE DEF from
  <1>6. \A f \in activeFr .. ef : from[f] = Step(from, f)
    BY <1>5
  <1>7. /\ ef \in activeFr .. ef
        /\ \A f \in activeFr .. (ef - 1) : f \in activeFr .. ef /\ f # ef
    OBVIOUS
  <1>8. QED
    BY <1>4, <1>6, <1>7

(* The passes of bptbl_mark, whatever their order, mark the frames that the*)
(* walk from the last frame to the first does.                             *)
LEMMA MarksTheCoaccessible ==
  ASSUME Types, FramesCut, RetiredInOrder, Pointers, NEW ef \in activeFr .. nFrame
  PROVE  Marked(ef, nFrame) = Coaccessible(ef, nFrame)
  <1>1. activeFr \in Nat /\ nFrame \in Nat /\ ef \in Nat /\ activeFr <= ef /\ ef <= nFrame
    BY DEF Types
  <1>2. PICK from : /\ Coaccessible(ef, nFrame) = from[activeFr] /\ from[ef] = {}
                    /\ \A f \in activeFr .. (ef - 1) :
                         from[f] = from[f + 1] \cup ({f} \cap Back(ef, from[f + 1]))
    BY <1>1, CoaccessibleFrames
  <1>3. PICK marked : /\ marked = Marked(ef, nFrame)
                      /\ \A f \in marked : f \in activeFr .. (ef - 1)
                      /\ ClosedBack(ef, marked)
                      /\ \A F : ClosedBack(ef, F) => marked \subseteq F
    BY MarkedIsLeast
  <1> DEFINE C == from[activeFr]
  <1>4. C \subseteq marked
    <2> DEFINE S == {k \in 0 .. (ef - activeFr) : from[ef - k] \subseteq marked}
    <2>1. 0 \in S
      BY <1>1, <1>2
    <2>2. ASSUME NEW k \in (0 + 1) .. (ef - activeFr), k - 1 \in S
          PROVE  k \in S
      <3>1. PICK f \in activeFr .. (ef - 1) : f = ef - k /\ ef - (k - 1) = f + 1 /\ f < ef
        <4>1. ef - k \in activeFr .. (ef - 1) /\ ef - (k - 1) = (ef - k) + 1 /\ ef - k < ef
          BY <1>1
        <4>2. QED
          BY <4>1
      <3>2. from[f + 1] \subseteq marked
        BY <2>2, <3>1
      <3>3. Back(ef, from[f + 1]) \subseteq Back(ef, marked)
        BY <3>2 DEF Back, PredecessorFrames
      <3>4. from[f] \subseteq marked
        BY <1>2, <1>3, <3>1, <3>2, <3>3 DEF ClosedBack
      <3>5. QED
        BY <3>1, <3>4
    <2>3. PICK n \in Nat : n = ef - activeFr /\ ef - n = activeFr
      BY <1>1
    <2>4. n \in S
      <3> HIDE DEF S
      <3>1. 0 .. n \subseteq S
        BY <2>1, <2>2, <2>3, UpFrom
      <3>2. QED
        BY <3>1
    <2>5. QED
      BY <2>3, <2>4
  <1>5. \A f \in activeFr .. ef : from[f] \subseteq C /\ \A g \in C : f <= g => g \in from[f]
    <2> DEFINE S == {f \in activeFr .. ef : from[f] \subseteq C /\ \A g \in C : f <= g => g \in from[f]}
    <2>1. activeFr \in S
      BY <1>1
    <2>2. ASSUME NEW f \in (activeFr + 1) .. ef, f - 1 \in S
          PROVE  f \in S
      <3>1. PICK e \in activeFr .. (ef - 1) : e = f - 1 /\ e + 1 = f
        <4>1. f - 1 \in activeFr .. (ef - 1) /\ (f - 1) + 1 = f
          BY <1>1
        <4>2. QED
          BY <4>1
      <3>2. from[e] \subseteq C /\ \A g \in C : e <= g => g \in from[e]
        BY <2>2, <3>1
      <3>3. from[e] = from[f] \cup ({e} \cap Back(ef, from[f]))
        BY <1>2, <3>1
      <3>4. from[f] \subseteq C
        BY <3>2, <3>3
      <3>5. ASSUME NEW g \in C, f <= g
            PROVE  g \in from[f]
        <4>1. g \in Nat /\ e \in Nat /\ e <= g /\ g # e
          BY <1>1, <1>3, <1>4, <3>1, <3>5
        <4>2. g \in from[e]
          BY <3>2, <4>1
        <4>3. QED
          BY <3>3, <4>1, <4>2
      <3>6. QED
        BY <1>1, <3>4, <3>5
    <2> HIDE DEF S
    <2>3. activeFr .. ef \subseteq S
      BY <1>1, <2>1, <2>2, UpFrom
    <2>4. QED
      BY <2>3 DEF S
  <1>6. ClosedBack(ef, C)
    <2> SUFFICES ASSUME NEW f \in Back(ef, C), f < ef
                 PROVE  f \in C
      BY DEF ClosedBack
    <2>1. \A g \in C : g \in activeFr .. (ef - 1)
      BY <1>3, <1>4
    <2> HIDE DEF C
    <2>2. /\ f \in Nat /\ activeFr <= f
          /\ \A G : {g \in C : f < g} \subseteq G => f \in Back(ef, G)
      BY <2>1, FurtherBack
    <2>3. f \in activeFr .. (ef - 1) /\ f + 1 \in activeFr .. ef /\ f \in activeFr .. ef
      BY <1>1, <2>2
    <2>4. \A g \in C : f < g => g \in from[f + 1]
      <3>1. \A g \in C : f < g => f + 1 <= g
        BY <1>1, <2>1, <2>2
      <3>2. QED
        BY <1>5, <2>3, <3>1
    <2>5. f \in Back(ef, from[f + 1])
      BY <2>2, <2>4
    <2>6. f \in from[f]
      BY <1>2, <2>3, <2>5
    <2>7. QED
      BY <1>5, <2>3, <2>6
  <1>7. QED
    BY <1>2, <1>3, <1>4, <1>6

(* A collection retires what it keeps.                                     *)
LEMMA RetiresWhatItKeeps ==
  ASSUME IInv, Numbered, NEW fr, NEW K, CollectsUpTo(fr, K)
  PROVE  Retired(ret') \ Retired(ret) = {ent[i].id : i \in K}
  <1>1. Types /\ FramesCut
    BY DEF IInv
  <1>2. PICK eidx \in Nat : /\ eidx = EfIdx(fr) /\ entBase <= eidx /\ eidx <= entNext
                            /\ Closed(K, eidx) /\ RetireEffect(K, eidx)
    BY DEF CollectsUpTo
  <1>3. ASSUME NEW id \in Retired(ret') \ Retired(ret)
        PROVE  id \in {ent[i].id : i \in K}
    <2>1. PICK k \in DOMAIN ret' : id = ret'[k].id
      BY DEF Retired
    <2>2. ~ (k \in DOMAIN ret /\ ret'[k] = ret[k])
      BY <2>1 DEF Retired
    <2>3. PICK i \in K : IsCopy(ret'[k], ent[i], Remap(K, eidx, ent[i].bp), Retiring(K, eidx)[i].dest)
      BY <1>1, <1>2, <2>2, RetiredFrom
    <2>4. QED
      BY <2>1, <2>3 DEF IsCopy
  <1>4. ASSUME NEW i \in K
        PROVE  ent[i].id \in Retired(ret') \ Retired(ret)
    <2>1. PICK k \in (Len(ret) + 1) .. Len(ret') : ret'[k].id = ent[i].id
      BY <1>2 DEF RetireEffect, IsCopy
    <2>2. k \in DOMAIN ret' /\ i \in DOMAIN ent
      BY <1>1, <1>2, <2>1, CollectionFacts
    <2>3. ent[i].id \in Retired(ret')
      BY <2>1, <2>2 DEF Retired
    <2>4. ent[i].id \notin Retired(ret)
      BY <2>2 DEF Retired, Numbered
    <2>5. QED
      BY <2>3, <2>4
  <1>5. QED
    BY <1>3, <1>4

(* bptbl_gc retires the entries of the frames that the reference names, and*)
(* no others.                                                              *)
THEOREM CoaccessibleRetired == Spec => RetiresTheCoaccessible
  <1>1. IInv /\ OutsideInv /\ [Next]_vars => [CollectionStep]_vars
    <2> SUFFICES ASSUME IInv, OutsideInv, NEW oldest \in Histories, PushAndGc(oldest)
                 PROVE  Retired(ret') \ Retired(ret) =
                          {ent[i].id : i \in UNION {Exits(f, f + 1) :
                                           f \in Coaccessible(NextActiveFr(oldest), nFrame)}}
      BY DEF CollectionStep
    <2>1. Types /\ FramesCut /\ RetiredInOrder /\ Pointers /\ Numbered
      BY DEF IInv, OutsideInv
    <2>2. PICK fr \in activeFr .. nFrame : fr = NextActiveFr(oldest)
      BY PushCollects DEF CollectsUpTo
    <2>3. CollectsUpTo(fr, Survivors(fr, nFrame))
      BY <2>2, PushCollects
    <2>4. Survivors(fr, nFrame) = UNION {Exits(f, f + 1) : f \in Coaccessible(fr, nFrame)}
      BY <2>1, MarksTheCoaccessible DEF Survivors
    <2>5. QED
      BY <2>1, <2>2, <2>3, <2>4, RetiresWhatItKeeps
  <1>2. QED
    BY <1>1, OutsideInvariance, PTL DEF Spec, RetiresTheCoaccessible
=============================================================================
