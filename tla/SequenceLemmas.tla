---------------------------- MODULE SequenceLemmas ----------------------------
(***************************************************************************)
(* Induction over the natural numbers, and what it gives about functions   *)
(* defined by recursion, flattened sequences and orders by rank.  The      *)
(* library's induction theorems take a predicate as an operator; here it   *)
(* is a set of numbers, so that the facts can be cited by name.            *)
(***************************************************************************)
EXTENDS Integers, Sequences, SequencesExt, Picks, FiniteSetTheorems, SequenceTheorems, WellFoundedInduction, TLAPS

(* A set of numbers has a least one: 1..n is a strict subset of 1..m when  *)
(* n < m, and that order is well founded.                                  *)
LEMMA LeastOf ==
  ASSUME NEW T \in SUBSET Nat, T # {}
  PROVE  \E m \in T : \A n \in T : m <= n
<1> DEFINE TT == {1..n : n \in T}
<1>1. TT \subseteq FiniteSubsetsOf(Nat)
  <2> SUFFICES ASSUME NEW n \in T PROVE 1..n \in FiniteSubsetsOf(Nat)
    OBVIOUS
  <2>1. IsFiniteSet(1..n)
    BY FS_Interval
  <2>2. 1..n \subseteq Nat
    OBVIOUS
  <2> QED
    BY <2>1, <2>2 DEF FiniteSubsetsOf
<1>2. TT # {}
  OBVIOUS
<1>3. \E x \in TT : \A y \in TT : ~(<<y, x>> \in StrictSubsetOrdering(Nat))
  BY <1>1, <1>2, WFMin, FS_StrictSubsetOrderingWellFounded
<1>4. PICK m \in T : \A y \in TT : ~(<<y, 1..m>> \in StrictSubsetOrdering(Nat))
  BY <1>3
<1>5. ASSUME NEW n \in T PROVE m <= n
  <2> SUFFICES ASSUME n < m PROVE FALSE
    OBVIOUS
  <2>1. 1..n \subseteq Nat /\ 1..m \subseteq Nat /\ 1..n \subseteq 1..m /\ m \in 1..m /\ m \notin 1..n
    OBVIOUS
  <2>2. <<1..n, 1..m>> \in StrictSubsetOrdering(Nat)
    BY <2>1 DEF StrictSubsetOrdering
  <2> QED
    BY <1>4, <2>2
<1> QED
  BY <1>5

(* Induction up to a bound. *)
LEMMA InductionTo ==
  ASSUME NEW N \in Nat, NEW P, 0 \in P, \A n \in 1..N : n - 1 \in P => n \in P
  PROVE  0..N \subseteq P
<1> SUFFICES ASSUME 0..N \ P # {} PROVE FALSE
  OBVIOUS
<1>0. 0..N \ P \in SUBSET Nat
  OBVIOUS
<1>1. PICK m \in 0..N \ P : \A n \in 0..N \ P : m <= n
  BY <1>0, LeastOf
<1>2. m \in 1..N /\ m - 1 \in 0..N /\ m - 1 \notin 0..N \ P
  BY <1>1
<1> QED
  BY <1>1, <1>2

(* A recursion up to a bound has a solution.                               *)
Unfolds(f, N, base, step) == f[0] = base /\ \A n \in 1..N : f[n] = step[<<f[n-1], n>>]

\* And so there is a function that unfolds it.
LEMMA RecursionTo ==
  ASSUME NEW N \in Nat, NEW S, NEW base \in S, NEW step \in [S \X (1..N) -> S]
  PROVE  \E f \in [0..N -> S] : Unfolds(f, N, base, step)
<1> DEFINE P == {k \in 0..N : \E f \in [0..k -> S] : Unfolds(f, k, base, step)}
<1>1. 0 \in P
  <2> DEFINE g == [n \in 0..0 |-> base]
  <2>1. g \in [0..0 -> S]
    OBVIOUS
  <2>2. Unfolds(g, 0, base, step)
    BY DEF Unfolds
  <2> HIDE DEF g
  <2> QED
    BY <2>1, <2>2
<1>2. ASSUME NEW k \in 1..N, k - 1 \in P PROVE k \in P
  <2>1. PICK f \in [0..k-1 -> S] : Unfolds(f, k-1, base, step)
    BY <1>2
  <2> DEFINE g == [n \in 0..k |-> IF n = k THEN step[<<f[k-1], k>>] ELSE f[n]]
  <2>2. k - 1 \in 0..k-1 /\ f[k-1] \in S /\ <<f[k-1], k>> \in S \X (1..N)
    OBVIOUS
  <2>3. step[<<f[k-1], k>>] \in S
    BY <2>2
  <2>4. g \in [0..k -> S]
    BY <2>3
  <2>5. g[0] = base
    BY <2>1 DEF Unfolds
  <2>6. ASSUME NEW n \in 1..k PROVE g[n] = step[<<g[n-1], n>>]
    <3>1. CASE n = k
      BY <3>1
    <3>2. CASE n # k
      BY <3>2, <2>1 DEF Unfolds
    <3> QED
      BY <3>1, <3>2
  <2> HIDE DEF g
  <2>7. Unfolds(g, k, base, step)
    BY <2>5, <2>6 DEF Unfolds
  <2> QED
    BY <2>4, <2>7
<1>3. 0..N \subseteq P
  <2> HIDE DEF P
  <2> QED
    BY <1>1, <1>2, InductionTo
<1> QED
  BY <1>3

(* A function on 1..N is a sequence of that length. *)
LEMMA IsSequence ==
  ASSUME NEW S, NEW N \in Nat, NEW s \in [1..N -> S]
  PROVE  s \in Seq(S) /\ Len(s) = N /\ DOMAIN s = 1..N
<1>1. s \in Seq(S)
  BY SeqDef
<1> QED
  BY <1>1, LenProperties

(* FlattenSeq is the last of the partial concatenations. *)
LEMMA FlattenIs ==
  ASSUME NEW S, NEW s \in Seq(Seq(S)), s # <<>>
  PROVE  \E f \in [1..Len(s) -> Seq(S)] :
           /\ f[1] = s[1]
           /\ \A i \in 2..Len(s) : f[i] = f[i-1] \o s[i]
           /\ FlattenSeq(s) = f[Len(s)]
<1>0. PICK N \in Nat : N = Len(s) /\ N > 0 /\ \A i \in 1..N : s[i] \in Seq(S)
  OBVIOUS
<1> DEFINE Body(h) == [i \in 1..N |-> IF i = 1 THEN s[i] ELSE h[i-1] \o s[i]]
           flatten == CHOOSE h : h = Body(h)
           step == [p \in Seq(S) \X (1..N) |-> p[1] \o s[p[2]]]
<1>2. step \in [Seq(S) \X (1..N) -> Seq(S)]
  <2> SUFFICES ASSUME NEW p \in Seq(S) \X (1..N) PROVE p[1] \o s[p[2]] \in Seq(S)
    OBVIOUS
  <2> QED
    BY <1>0
<1>3. <<>> \in Seq(S)
  OBVIOUS
<1>4. PICK g \in [0..N -> Seq(S)] : Unfolds(g, N, <<>>, step)
  <2> HIDE DEF step
  <2> QED
    BY <1>2, <1>3, RecursionTo
<1>5. ASSUME NEW n \in 1..N PROVE g[n-1] \in Seq(S) /\ g[n] \in Seq(S) /\ g[n] = g[n-1] \o s[n]
  <2>1. n - 1 \in 0..N /\ n \in 0..N
    OBVIOUS
  <2>2. g[n-1] \in Seq(S) /\ g[n] \in Seq(S)
    BY <2>1
  <2>3. <<g[n-1], n>> \in Seq(S) \X (1..N)
    BY <2>2
  <2>4. step[<<g[n-1], n>>] = g[n-1] \o s[n]
    BY <2>3
  <2> HIDE DEF step
  <2> QED
    BY <1>4, <2>2, <2>4 DEF Unfolds
<1>6. g[1] = s[1]
  <2>1. 1 \in 1..N /\ 1 - 1 = 0 /\ s[1] \in Seq(S)
    BY <1>0
  <2>2. g[1] = <<>> \o s[1]
    <3>1. g[0] = <<>> /\ g[1] = g[1 - 1] \o s[1]
      BY <1>4, <1>5, <2>1 DEF Unfolds
    <3> QED
      BY <2>1, <3>1
  <2> QED
    BY <2>1, <2>2
<1> DEFINE f == [i \in 1..N |-> g[i]]
<1>7. f \in [1..N -> Seq(S)]
  BY <1>4
<1>8. ASSUME NEW i \in 2..N PROVE f[i] = f[i-1] \o s[i]
  <2>1. i \in 1..N /\ i - 1 \in 1..N
    OBVIOUS
  <2> QED
    BY <2>1, <1>5
<1>9. f = Body(f)
  <2>1. ASSUME NEW i \in 1..N PROVE f[i] = IF i = 1 THEN s[i] ELSE f[i-1] \o s[i]
    <3>1. CASE i = 1
      BY <3>1, <1>6
    <3>2. CASE i # 1
      <4>1. i \in 2..N
        BY <3>2
      <4> HIDE DEF f
      <4> QED
        BY <3>2, <4>1, <1>8
    <3> QED
      BY <3>1, <3>2
  <2> QED
    BY <2>1, Zenon
<1>10. flatten = Body(flatten)
  <2> HIDE DEF f, Body
  <2> QED
    BY <1>9
<1>11. ASSUME NEW i \in 1..N
       PROVE  flatten[i] = IF i = 1 THEN s[i] ELSE flatten[i-1] \o s[i]
  <2> HIDE DEF flatten
  <2> QED
    BY <1>10, Zenon
<1>12. \A i \in 1..N : flatten[i] = f[i]
  <2> DEFINE P == {n \in 0..N : n = 0 \/ flatten[n] = f[n]}
  <2> HIDE DEF flatten
  <2>1. 0 \in P
    BY <1>0
  <2>2. ASSUME NEW n \in 1..N, n - 1 \in P PROVE n \in P
    <3>1. CASE n = 1
      BY <3>1, <1>6, <1>11
    <3>2. CASE n # 1
      <4>1. n \in 2..N /\ n \in 0..N
        BY <3>2
      <4>2. flatten[n-1] = f[n-1]
        BY <2>2, <3>2
      <4>3. flatten[n] = flatten[n-1] \o s[n]
        BY <3>2, <1>11
      <4>4. flatten[n] = f[n]
        <5> HIDE DEF f
        <5> QED
          BY <4>1, <4>2, <4>3, <1>8
      <4> QED
        BY <4>1, <4>4
    <3> QED
      BY <3>1, <3>2
  <2>3. 0..N \subseteq P
    <3> HIDE DEF P
    <3> QED
      BY <2>1, <2>2, InductionTo
  <2> HIDE DEF f
  <2> QED
    BY <2>3
<1>13. FlattenSeq(s) = flatten[N]
  BY <1>0 DEF FlattenSeq
<1>14. FlattenSeq(s) = f[N] /\ f[1] = s[1]
  <2>1. 1 \in 1..N /\ N \in 1..N
    BY <1>0
  <2> HIDE DEF flatten
  <2>2. f[1] = g[1]
    BY <2>1
  <2> HIDE DEF f
  <2> QED
    BY <2>1, <2>2, <1>6, <1>12, <1>13
<1> QED
  <2> HIDE DEF f
  <2> QED
    BY <1>0, <1>7, <1>8, <1>14

(* The rank of an element in a strict total order of a finite set: how     *)
(* many are up to it.  Every rank belongs to exactly one element.          *)
RankIn(R, S, i) == Cardinality({j \in S : j = i \/ <<j, i>> \in R})
TotalOrder(R, S) ==
  /\ \A i \in S : <<i, i>> \notin R
  /\ \A i \in S, j \in S : i = j \/ <<i, j>> \in R \/ <<j, i>> \in R
  /\ \A i \in S, j \in S, k \in S : <<i, j>> \in R /\ <<j, k>> \in R => <<i, k>> \in R

\* Under a total order the ranks of n elements are 1..n.
LEMMA RanksAre ==
  ASSUME NEW S, IsFiniteSet(S), NEW R, TotalOrder(R, S)
  PROVE  /\ \A i \in S : RankIn(R, S, i) \in 1..Cardinality(S)
         /\ \A i \in S, j \in S : RankIn(R, S, i) = RankIn(R, S, j) => i = j
         /\ \A k \in 1..Cardinality(S) : \E i \in S : RankIn(R, S, i) = k
<1> DEFINE upTo(i) == {j \in S : j = i \/ <<j, i>> \in R}
           rank == [i \in S |-> RankIn(R, S, i)]
<1>0. PICK N \in Nat : N = Cardinality(S) /\ IsFiniteSet(1..N) /\ Cardinality(1..N) = N
  BY FS_CardinalityType, FS_Interval
<1>1. ASSUME NEW i \in S
      PROVE  IsFiniteSet(upTo(i)) /\ Cardinality(upTo(i)) \in 1..N
  <2>1. upTo(i) \in SUBSET S /\ i \in upTo(i)
    OBVIOUS
  <2> HIDE DEF upTo
  <2>2. IsFiniteSet(upTo(i)) /\ Cardinality(upTo(i)) <= N
    BY <1>0, <2>1, FS_Subset
  <2>3. Cardinality(upTo(i)) \in Nat /\ Cardinality(upTo(i)) # 0
    BY <2>1, <2>2, FS_CardinalityType, FS_EmptySet
  <2> QED
    BY <2>2, <2>3
<1>2. ASSUME NEW i \in S, NEW j \in S, <<i, j>> \in R
      PROVE  Cardinality(upTo(i)) # Cardinality(upTo(j))
  <2>1. upTo(i) \in SUBSET upTo(j) /\ j \in upTo(j) /\ j \notin upTo(i)
    BY <1>2 DEF TotalOrder
  <2>2. IsFiniteSet(upTo(j)) /\ upTo(j) # upTo(i)
    BY <1>1, <2>1
  <2> HIDE DEF upTo
  <2> QED
    BY <2>1, <2>2, FS_Subset
<1>3. \A i \in S : RankIn(R, S, i) = Cardinality(upTo(i))
  BY DEF RankIn
<1> HIDE DEF upTo
<1>4. \A i \in S, j \in S : RankIn(R, S, i) = RankIn(R, S, j) => i = j
  BY <1>2, <1>3 DEF TotalOrder
<1>5. rank \in Injection(S, 1..N)
  BY <1>1, <1>3, <1>4 DEF Injection, IsInjective
<1>6. rank \in Surjection(S, 1..N)
  <2> HIDE DEF rank
  <2> QED
    BY <1>0, <1>5, FS_Injection
<1>7. \A k \in 1..N : \E i \in S : RankIn(R, S, i) = k
  BY <1>6 DEF Surjection
<1> QED
  BY <1>0, <1>1, <1>3, <1>4, <1>7

------------------------------------------------------------------------------
(* Sequences made from the elements of another.                            *)

\* `at` lists the elements of S, each once.
Lists(at, S) ==
  /\ at \in [1..Cardinality(S) -> S]
  /\ \A k, m \in 1..Cardinality(S) : at[k] = at[m] => k = m
  /\ \A i \in S : \E k \in 1..Cardinality(S) : at[k] = i

\* What a total order lists a set by.
LEMMA ListedBy ==
  ASSUME NEW S, IsFiniteSet(S), NEW R, TotalOrder(R, S), NEW at,
         at = [k \in 1..Cardinality(S) |-> CHOOSE i \in S : RankIn(R, S, i) = k]
  PROVE  Lists(at, S)
<1>1. /\ \A i \in S : RankIn(R, S, i) \in 1..Cardinality(S)
      /\ \A i \in S, j \in S : RankIn(R, S, i) = RankIn(R, S, j) => i = j
      /\ \A k \in 1..Cardinality(S) : \E i \in S : RankIn(R, S, i) = k
  BY RanksAre
<1>2. ASSUME NEW k \in 1..Cardinality(S) PROVE at[k] \in S /\ RankIn(R, S, at[k]) = k
  <2>1. at[k] = CHOOSE i \in S : RankIn(R, S, i) = k
    OBVIOUS
  <2>2. \E i \in S : RankIn(R, S, i) = k
    BY <1>1
  <2> QED
    BY <2>1, <2>2
<1>3. ASSUME NEW i \in S PROVE \E k \in 1..Cardinality(S) : at[k] = i
  <2>1. RankIn(R, S, i) \in 1..Cardinality(S)
    BY <1>1
  <2> QED
    BY <1>1, <1>2, <2>1
<1>4. at \in [1..Cardinality(S) -> S]
  BY <1>2
<1> QED
  BY <1>2, <1>3, <1>4 DEF Lists

\* The places of a sequence are as many as its length.
LEMMA PlacesAre ==
  ASSUME NEW T, NEW s \in Seq(T)
  PROVE  IsFiniteSet(DOMAIN s) /\ Cardinality(DOMAIN s) = Len(s)
<1>1. PICK N \in Nat : N = Len(s) /\ DOMAIN s = 1..N
  OBVIOUS
<1>2. IsFiniteSet(1..N) /\ Cardinality(1..N) = N
  BY FS_Interval
<1> QED
  BY <1>1, <1>2

\* One sequence takes its elements from places of another.
Takes(u, s, at, S) ==
  /\ Lists(at, S) /\ Len(u) = Cardinality(S)
  /\ \A k \in 1..Cardinality(S) : u[k] = s[at[k]]

\* Every place picked has a rank of its own, and its element is there.
PlacesPicked(s, places) ==
  /\ \A i \in places : UpTo(places, i) \in 1..Cardinality(places) /\ Picked(s, places)[UpTo(places, i)] = s[i]
  /\ \A i, j \in places : UpTo(places, i) = UpTo(places, j) => i = j
  /\ \A k \in 1..Cardinality(places) : \E i \in places : UpTo(places, i) = k

\* The places of a sequence that are picked, in their order.
LEMMA PickedIs ==
  ASSUME NEW T, NEW s \in Seq(T), NEW places \in SUBSET (DOMAIN s)
  PROVE  /\ IsFiniteSet(places) /\ Cardinality(places) \in Nat
         /\ Picked(s, places) \in Seq(T) /\ Len(Picked(s, places)) = Cardinality(places)
         /\ \E at : Takes(Picked(s, places), s, at, places)
         /\ PlacesPicked(s, places)
<1>1. DOMAIN s = 1..Len(s) /\ Len(s) \in Nat /\ places \subseteq 1..Len(s)
  OBVIOUS
<1>2. IsFiniteSet(places) /\ Cardinality(places) \in Nat
  <2>1. IsFiniteSet(1..Len(s))
    BY <1>1, FS_Interval
  <2>2. places \in SUBSET (1..Len(s))
    BY <1>1
  <2>3. IsFiniteSet(places)
    BY <2>1, <2>2, FS_Subset
  <2> QED
    BY <2>3, FS_CardinalityType
<1> DEFINE R == {p \in places \X places : p[1] < p[2]}
           at == [k \in 1..Cardinality(places) |-> CHOOSE i \in places : RankIn(R, places, i) = k]
<1>3. TotalOrder(R, places)
  <2>1. \A i \in places, j \in places : <<i, j>> \in R <=> i < j
    OBVIOUS
  <2>2. \A i \in places : i \in Int
    BY <1>1
  <2> HIDE DEF R
  <2> QED
    BY <2>1, <2>2 DEF TotalOrder
<1>4. Lists(at, places)
  <2> HIDE DEF R
  <2> QED
    BY <1>2, <1>3, ListedBy
<1>5. ASSUME NEW i \in places PROVE RankIn(R, places, i) = UpTo(places, i)
  <2>1. \A j \in places : j = i \/ <<j, i>> \in R <=> j <= i
    BY <1>1
  <2>2. {j \in places : j = i \/ <<j, i>> \in R} = {j \in places : j <= i}
    <3> HIDE DEF R
    <3> QED
      BY <2>1
  <2> QED
    BY <2>2 DEF RankIn, UpTo
<1>6. ASSUME NEW k \in 1..Cardinality(places)
      PROVE  Picked(s, places)[k] = s[at[k]] /\ s[at[k]] \in T
  <2>1. (CHOOSE i \in places : UpTo(places, i) = k) = at[k]
    <3> HIDE DEF R
    <3> QED
      BY <1>5
  <2>2. at[k] \in places
    BY <1>4 DEF Lists
  <2>3. Picked(s, places)[k] = s[CHOOSE i \in places : UpTo(places, i) = k]
    BY DEF Picked
  <2>4. s[at[k]] \in T
    <3> HIDE DEF at
    <3> QED
      BY <1>1, <2>2
  <2> QED
    BY <2>1, <2>3, <2>4
<1>7. Picked(s, places) \in [1..Cardinality(places) -> T]
  <2>1. Picked(s, places) = [k \in 1..Cardinality(places) |-> Picked(s, places)[k]]
    BY DEF Picked
  <2> HIDE DEF at
  <2> QED
    BY <1>6, <2>1
<1> HIDE DEF at
<1>8. Picked(s, places) \in Seq(T) /\ Len(Picked(s, places)) = Cardinality(places)
  BY <1>2, <1>7, IsSequence
<1>9. PlacesPicked(s, places)
  <2>1. /\ \A i \in places : RankIn(R, places, i) \in 1..Cardinality(places)
        /\ \A i, j \in places : RankIn(R, places, i) = RankIn(R, places, j) => i = j
        /\ \A k \in 1..Cardinality(places) : \E i \in places : RankIn(R, places, i) = k
    <3> HIDE DEF R
    <3> QED
      BY <1>2, <1>3, RanksAre
  <2> HIDE DEF R
  <2>2. /\ \A i \in places : UpTo(places, i) \in 1..Cardinality(places)
        /\ \A i, j \in places : UpTo(places, i) = UpTo(places, j) => i = j
        /\ \A k \in 1..Cardinality(places) : \E i \in places : UpTo(places, i) = k
    BY <1>5, <2>1
  <2>3. ASSUME NEW i \in places PROVE Picked(s, places)[UpTo(places, i)] = s[i]
    <3>1. UpTo(places, i) \in 1..Cardinality(places)
      BY <2>2
    <3>2. (CHOOSE j \in places : UpTo(places, j) = UpTo(places, i)) = i
      BY <2>2
    <3> QED
      BY <3>1, <3>2 DEF Picked
  <2> QED
    BY <2>2, <2>3 DEF PlacesPicked
<1> QED
  BY <1>2, <1>4, <1>6, <1>8, <1>9 DEF Takes

------------------------------------------------------------------------------
(* The elements of a sequence that are in a set.                           *)

LEMMA OnlyIs ==
  ASSUME NEW T, NEW s \in Seq(T), NEW S
  PROVE  Only(s, S) \in Seq(T) /\ ToSet(Only(s, S)) = ToSet(s) \intersect S
<1> DEFINE places == {i \in DOMAIN s : s[i] \in S}
           u == Only(s, S)
<1>1. u = Picked(s, places)
  BY DEF Only
<1>2. places \in SUBSET DOMAIN s
  OBVIOUS
<1> HIDE DEF places, u
<1>3. PICK at : u \in Seq(T) /\ Takes(u, s, at, places)
  BY <1>1, <1>2, PickedIs
<1>4. DOMAIN u = 1..Cardinality(places) /\ Lists(at, places)
  BY <1>3, LenProperties DEF Takes
<1>5. ASSUME NEW k \in DOMAIN u PROVE u[k] \in ToSet(s) \intersect S
  <2>1. at[k] \in places /\ u[k] = s[at[k]]
    BY <1>3, <1>4 DEF Takes, Lists
  <2>2. at[k] \in DOMAIN s /\ s[at[k]] \in S
    BY <2>1 DEF places
  <2> QED
    BY <2>1, <2>2 DEF ToSet
<1>6. ASSUME NEW x \in ToSet(s) \intersect S PROVE \E k \in DOMAIN u : u[k] = x
  <2>1. PICK i \in DOMAIN s : s[i] = x
    BY DEF ToSet
  <2>2. i \in places
    BY <2>1 DEF places
  <2>3. PICK k \in 1..Cardinality(places) : at[k] = i
    BY <1>4, <2>2 DEF Lists
  <2> QED
    BY <1>3, <1>4, <2>1, <2>3 DEF Takes
<1>7. ToSet(u) = ToSet(s) \intersect S
  BY <1>5, <1>6 DEF ToSet
<1> QED
  BY <1>3, <1>7 DEF u

LEMMA WithoutIs ==
  ASSUME NEW T, NEW s \in Seq(T), NEW S
  PROVE  /\ Without(s, S) = Only(s, T \ S)
         /\ Without(s, S) \in Seq(T) /\ ToSet(Without(s, S)) = ToSet(s) \ S
<1>1. {i \in DOMAIN s : s[i] \notin S} = {i \in DOMAIN s : s[i] \in T \ S}
  OBVIOUS
<1>2. Without(s, S) = Only(s, T \ S)
  BY <1>1 DEF Without, Only
<1>3. ToSet(s) \subseteq T
  BY DEF ToSet
<1> QED
  BY <1>2, <1>3, OnlyIs

\* One element more at the end.
LEMMA OnlyAppend ==
  ASSUME NEW T, NEW s \in Seq(T), NEW e \in T, NEW S
  PROVE  Only(Append(s, e), S) = IF e \in S THEN Append(Only(s, S), e) ELSE Only(s, S)
<1> DEFINE places == {i \in DOMAIN s : s[i] \in S}
           more == {i \in DOMAIN Append(s, e) : Append(s, e)[i] \in S}
           u == Only(s, S)
           v == Only(Append(s, e), S)
<1>1. PICK N \in Nat : N = Len(s) /\ DOMAIN s = 1..N
  OBVIOUS
<1>2. /\ Append(s, e) \in Seq(T) /\ DOMAIN Append(s, e) = 1..N + 1
      /\ \A i \in 1..N : Append(s, e)[i] = s[i]
      /\ Append(s, e)[N + 1] = e
  BY <1>1
<1>3. u = Picked(s, places) /\ v = Picked(Append(s, e), more)
  BY DEF Only
<1>4. /\ places \in SUBSET (1..N) /\ more \in SUBSET (1..N + 1)
      /\ more = IF e \in S THEN places \union {N + 1} ELSE places
  BY <1>1, <1>2
<1> DEFINE P == places
           M == more
<1>5. /\ IsFiniteSet(P) /\ u \in Seq(T) /\ Len(u) = Cardinality(P) /\ PlacesPicked(s, P)
  <2> HIDE DEF places, u
  <2> QED
    BY <1>1, <1>3, <1>4, PickedIs
<1>6. v \in Seq(T) /\ Len(v) = Cardinality(M) /\ PlacesPicked(Append(s, e), M)
  <2> HIDE DEF more, v
  <2> QED
    BY <1>2, <1>3, <1>4, PickedIs
<1> HIDE DEF places, more, u, v
<1>7. Len(u) \in Nat /\ N + 1 \notin P /\ \A i \in P : i \in 1..N /\ i # N + 1
  <2>1. \A i \in 1..N : i # N + 1
    BY <1>1
  <2> QED
    BY <1>4, <1>5, <2>1
<1>8. CASE e \notin S
  <2>1. M = P
    BY <1>4, <1>8
  <2>2. ASSUME NEW k \in 1..Len(u) PROVE v[k] = u[k]
    <3>1. PICK i \in P : UpTo(P, i) = k
      BY <1>5 DEF PlacesPicked
    <3>2. v[k] = Append(s, e)[i] /\ u[k] = s[i]
      BY <1>3, <1>5, <1>6, <2>1, <3>1 DEF PlacesPicked
    <3> QED
      BY <1>2, <1>7, <3>2
  <2>3. v = u
    BY <1>5, <1>6, <2>1, <2>2, SeqEqual
  <2> QED
    BY <1>8, <2>3 DEF u, v
<1>9. CASE e \in S
  <2>1. M = P \union {N + 1}
    BY <1>4, <1>9
  <2>2. IsFiniteSet(M) /\ Cardinality(M) = Len(u) + 1
    BY <1>5, <1>7, <2>1, FS_AddElement
  <2>3. ASSUME NEW i \in P PROVE UpTo(M, i) = UpTo(P, i)
    <3>1. ~(N + 1 <= i)
      BY <1>4
    <3>2. {j \in M : j <= i} = {j \in P : j <= i}
      BY <2>1, <3>1
    <3> QED
      BY <3>2 DEF UpTo
  <2>4. UpTo(M, N + 1) = Len(u) + 1
    <3>1. \A j \in M : j <= N + 1
      BY <1>4
    <3>2. {j \in M : j <= N + 1} = M
      BY <3>1
    <3> QED
      BY <2>2, <3>2 DEF UpTo
  <2>5. Append(u, e) \in Seq(T) /\ Len(Append(u, e)) = Len(u) + 1
    BY <1>5
  <2>6. ASSUME NEW k \in 1..Len(u) + 1 PROVE v[k] = Append(u, e)[k]
    <3>1. CASE k = Len(u) + 1
      <4>1. N + 1 \in M
        BY <2>1
      <4>2. v[k] = Append(s, e)[N + 1]
        BY <1>3, <1>6, <2>4, <3>1, <4>1 DEF PlacesPicked
      <4> QED
        BY <1>2, <1>5, <3>1, <4>2
    <3>2. CASE k # Len(u) + 1
      <4>1. k \in 1..Len(u)
        BY <1>7, <3>2
      <4>2. PICK i \in P : UpTo(P, i) = k
        BY <1>5, <4>1 DEF PlacesPicked
      <4>3. i \in M /\ UpTo(M, i) = k
        BY <2>1, <2>3, <4>2
      <4>4. v[k] = Append(s, e)[i] /\ u[k] = s[i]
        BY <1>3, <1>5, <1>6, <4>2, <4>3 DEF PlacesPicked
      <4>5. Append(u, e)[k] = u[k]
        BY <1>5, <4>1
      <4> QED
        BY <1>2, <1>7, <4>4, <4>5
    <3> QED
      BY <3>1, <3>2
  <2>7. v = Append(u, e)
    <3> DEFINE w == Append(u, e)
    <3>1. w \in Seq(T) /\ Len(w) = Len(u) + 1 /\ \A k \in 1..Len(w) : v[k] = w[k]
      BY <2>5, <2>6
    <3> HIDE DEF w
    <3>2. v = w
      BY <1>6, <2>2, <3>1, SeqEqual
    <3> QED
      BY <3>2 DEF w
  <2> QED
    BY <1>9, <2>7 DEF u, v
<1> QED
  BY <1>8, <1>9

\* Nothing of a sequence without such elements.
LEMMA OnlyNone ==
  ASSUME NEW T, NEW s \in Seq(T), NEW S, ToSet(s) \intersect S = {}
  PROVE  Only(s, S) = <<>>
<1> DEFINE u == Only(s, S)
<1>1. u \in Seq(T) /\ ToSet(u) = {}
  BY OnlyIs
<1> HIDE DEF u
<1>2. DOMAIN u = 1..Len(u) /\ Len(u) \in Nat /\ DOMAIN u = {}
  <2>1. DOMAIN u = 1..Len(u) /\ Len(u) \in Nat
    BY <1>1
  <2>2. \A i \in DOMAIN u : u[i] \in ToSet(u)
    BY DEF ToSet
  <2> QED
    BY <1>1, <2>1, <2>2
<1>3. Len(u) = 0
  <2>1. Len(u) >= 1 => 1 \in 1..Len(u)
    BY <1>2
  <2> QED
    BY <1>2, <2>1
<1>4. u = <<>>
  BY <1>1, <1>3, EmptySeq
<1> QED
  BY <1>4 DEF u

\* A sequence grows by its elements.
LEMMA Parts ==
  ASSUME NEW T, NEW s \in Seq(T)
  PROVE  /\ SubSeq(s, 1, 0) = <<>> /\ SubSeq(s, 1, Len(s)) = s
         /\ \A n \in 0..Len(s) : SubSeq(s, 1, n) \in Seq(T)
         /\ \A n \in 1..Len(s) : SubSeq(s, 1, n) = Append(SubSeq(s, 1, n - 1), s[n])
<1>1. PICK N \in Nat : N = Len(s) /\ \A n \in 1..N : s[n] \in T
  OBVIOUS
<1>2. ASSUME NEW n \in 0..N
      PROVE  /\ SubSeq(s, 1, n) \in Seq(T) /\ Len(SubSeq(s, 1, n)) = n
             /\ \A k \in 1..n : SubSeq(s, 1, n)[k] = s[k]
  BY <1>1
<1>3. SubSeq(s, 1, N) = s
  BY <1>1, <1>2, SeqEqual
<1>4. ASSUME NEW n \in 1..N PROVE SubSeq(s, 1, n) = Append(SubSeq(s, 1, n - 1), s[n])
  <2> DEFINE u == SubSeq(s, 1, n)
             v == SubSeq(s, 1, n - 1)
  <2>1. n - 1 \in 0..N /\ n \in 0..N /\ s[n] \in T
    BY <1>1
  <2>2. /\ u \in Seq(T) /\ Len(u) = n /\ \A k \in 1..n : u[k] = s[k]
        /\ v \in Seq(T) /\ Len(v) = n - 1 /\ \A k \in 1..n - 1 : v[k] = s[k]
    BY <1>2, <2>1
  <2> HIDE DEF u, v
  <2>3. Append(v, s[n]) \in Seq(T) /\ Len(Append(v, s[n])) = n
    BY <2>1, <2>2
  <2>4. ASSUME NEW k \in 1..n PROVE Append(v, s[n])[k] = u[k]
    <3>1. CASE k = n
      BY <2>1, <2>2, <3>1
    <3>2. CASE k # n
      <4>1. k \in 1..n - 1
        BY <3>2
      <4> QED
        BY <2>1, <2>2, <4>1
    <3> QED
      BY <3>1, <3>2
  <2> DEFINE w == Append(v, s[n])
  <2>5. w \in Seq(T) /\ Len(w) = n /\ \A k \in 1..n : w[k] = u[k]
    BY <2>3, <2>4
  <2> HIDE DEF w
  <2>6. u = w
    BY <2>2, <2>5, SeqEqual
  <2> QED
    BY <2>6 DEF u, v, w
<1>5. SubSeq(s, 1, 0) = <<>>
  <2>1. 0 \in 0..N
    BY <1>1
  <2> QED
    BY <1>2, <2>1, EmptySeq
<1> QED
  BY <1>1, <1>2, <1>3, <1>4, <1>5

\* All of a sequence of such elements.
LEMMA OnlyAll ==
  ASSUME NEW T, NEW s \in Seq(T), NEW S, ToSet(s) \subseteq S
  PROVE  Only(s, S) = s
<1> DEFINE part(n) == SubSeq(s, 1, n)
           P == {n \in 0..Len(s) : Only(part(n), S) = part(n)}
<1>1. Len(s) \in Nat /\ \A n \in 1..Len(s) : s[n] \in S /\ s[n] \in T
  BY DEF ToSet
<1>2. /\ part(0) = <<>> /\ part(Len(s)) = s
      /\ \A n \in 0..Len(s) : part(n) \in Seq(T)
      /\ \A n \in 1..Len(s) : part(n) = Append(part(n - 1), s[n])
  BY Parts
<1> HIDE DEF part
<1>3. 0 \in P
  <2>1. <<>> \in Seq(T) /\ ToSet(<<>>) = {}
    BY DEF ToSet
  <2>2. Only(<<>>, S) = <<>>
    BY <2>1, OnlyNone
  <2> QED
    BY <1>1, <1>2, <2>2
<1>4. ASSUME NEW n \in 1..Len(s), n - 1 \in P PROVE n \in P
  <2>1. n - 1 \in 0..Len(s) /\ n \in 0..Len(s)
    BY <1>1
  <2>2. Only(Append(part(n - 1), s[n]), S) = Append(Only(part(n - 1), S), s[n])
    <3>1. part(n - 1) \in Seq(T) /\ s[n] \in T /\ s[n] \in S
      BY <1>1, <1>2, <2>1
    <3> QED
      BY <3>1, OnlyAppend
  <2> QED
    BY <1>2, <1>4, <2>1, <2>2
<1>5. Len(s) \in P
  <2> HIDE DEF P
  <2>1. 0..Len(s) \subseteq P
    BY <1>1, <1>3, <1>4, InductionTo
  <2> QED
    BY <1>1, <2>1
<1> QED
  BY <1>2, <1>5

\* Two sequences one after the other.
LEMMA OnlyConcat ==
  ASSUME NEW T, NEW s \in Seq(T), NEW t \in Seq(T), NEW S
  PROVE  Only(s \o t, S) = Only(s, S) \o Only(t, S)
<1> DEFINE part(n) == SubSeq(t, 1, n)
           P == {n \in 0..Len(t) : Only(s \o part(n), S) = Only(s, S) \o Only(part(n), S)}
<1>1. Len(t) \in Nat /\ \A n \in 1..Len(t) : t[n] \in T
  OBVIOUS
<1>2. /\ part(0) = <<>> /\ part(Len(t)) = t
      /\ \A n \in 0..Len(t) : part(n) \in Seq(T)
      /\ \A n \in 1..Len(t) : part(n) = Append(part(n - 1), t[n])
  BY Parts
<1> HIDE DEF part
<1>3. 0 \in P
  <2>1. <<>> \in Seq(T) /\ ToSet(<<>>) = {}
    BY DEF ToSet
  <2>2. Only(<<>>, S) = <<>>
    BY <2>1, OnlyNone
  <2>3. s \o <<>> = s /\ Only(s, S) \o <<>> = Only(s, S)
    BY OnlyIs, ConcatEmptySeq
  <2>4. 0 \in 0..Len(t)
    BY <1>1
  <2>5. Only(s \o part(0), S) = Only(s, S) \o Only(part(0), S)
    BY <1>2, <2>2, <2>3
  <2> QED
    BY <2>4, <2>5
<1>4. ASSUME NEW n \in 1..Len(t), n - 1 \in P PROVE n \in P
  <2> DEFINE u == part(n - 1)
             e == t[n]
  <2>1. n - 1 \in 0..Len(t) /\ n \in 0..Len(t) /\ u \in Seq(T) /\ e \in T
    BY <1>1, <1>2
  <2>2. part(n) = Append(u, e) /\ Only(s \o u, S) = Only(s, S) \o Only(u, S)
    BY <1>2, <1>4
  <2> HIDE DEF u, e
  <2>3. s \o Append(u, e) = Append(s \o u, e) /\ s \o u \in Seq(T)
    BY <2>1
  <2>4. Only(Append(s \o u, e), S) = IF e \in S THEN Append(Only(s \o u, S), e) ELSE Only(s \o u, S)
    BY <2>1, <2>3, OnlyAppend
  <2>5. Only(Append(u, e), S) = IF e \in S THEN Append(Only(u, S), e) ELSE Only(u, S)
    BY <2>1, OnlyAppend
  <2>6. Only(s, S) \in Seq(T) /\ Only(u, S) \in Seq(T)
    BY <2>1, OnlyIs
  <2>7. Only(s, S) \o Append(Only(u, S), e) = Append(Only(s, S) \o Only(u, S), e)
    BY <2>1, <2>6
  <2>8. Only(s \o Append(u, e), S) = Only(s, S) \o Only(Append(u, e), S)
    BY <2>2, <2>3, <2>4, <2>5, <2>7
  <2> QED
    BY <2>1, <2>2, <2>8
<1>5. Len(t) \in P
  <2> HIDE DEF P
  <2>1. 0..Len(t) \subseteq P
    BY <1>1, <1>3, <1>4, InductionTo
  <2> QED
    BY <1>1, <2>1
<1> QED
  BY <1>2, <1>5


===============================================================================
