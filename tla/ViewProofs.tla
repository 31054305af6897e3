------------------------------ MODULE ViewProofs ------------------------------
(***************************************************************************)
(* The steps of a plan over any table, and the grid that shows their rows. *)
(*                                                                         *)
(* A step keeps a table a table; the columns it derives have names of      *)
(* their own; the walk without data never loses a column a replay has; and *)
(* the order of the view is one of the rows there are.                     *)
(***************************************************************************)
EXTENDS ViewSession, SequenceLemmas, SequenceTheorems, FiniteSetTheorems, TLAPS

------------------------------------------------------------------------------
(* Sequences made from the elements of another.                            *)

\* What is seen first: each element, once.
LEMMA FirstSeenIs ==
  ASSUME NEW T, NEW s \in Seq(T)
  PROVE  /\ FirstSeen(s) \in Seq(T)
         /\ \A k, m \in DOMAIN FirstSeen(s) : FirstSeen(s)[k] = FirstSeen(s)[m] => k = m
         /\ {FirstSeen(s)[k] : k \in DOMAIN FirstSeen(s)} = {s[i] : i \in DOMAIN s}
<1> DEFINE places == {i \in DOMAIN s : \A j \in DOMAIN s : j < i => s[j] # s[i]}
           u == FirstSeen(s)
<1>0. u = Picked(s, places)
  BY DEF FirstSeen
<1>1. DOMAIN s = 1..Len(s) /\ Len(s) \in Nat
  OBVIOUS
<1>2. places \in SUBSET (DOMAIN s)
  OBVIOUS
<1>3. \A i, j \in places : s[i] = s[j] => i = j
  BY <1>1
<1>4. ASSUME NEW i \in DOMAIN s PROVE \E j \in places : s[j] = s[i]
  <2> DEFINE same == {j \in DOMAIN s : s[j] = s[i]}
  <2>1. same \in SUBSET Nat /\ i \in same
    BY <1>1
  <2>2. PICK j \in same : \A m \in same : j <= m
    <3> HIDE DEF same
    <3> QED
      BY <2>1, LeastOf
  <2> QED
    BY <1>1, <2>2
<1> HIDE DEF places, u
<1>at. PICK at : Takes(u, s, at, places)
  BY <1>0, <1>2, PickedIs
<1>5. Lists(at, places) /\ \A k \in 1..Cardinality(places) : u[k] = s[at[k]]
  BY <1>at DEF Takes
<1>6. u \in Seq(T) /\ DOMAIN u = 1..Cardinality(places)
  BY <1>0, <1>2, PickedIs
<1>7. \A k, m \in DOMAIN u : u[k] = u[m] => k = m
  BY <1>3, <1>5, <1>6 DEF Lists
<1>8. ASSUME NEW k \in DOMAIN u PROVE \E i \in DOMAIN s : u[k] = s[i]
  BY <1>2, <1>5, <1>6 DEF Lists
<1>9. ASSUME NEW i \in DOMAIN s PROVE \E k \in DOMAIN u : u[k] = s[i]
  BY <1>4, <1>5, <1>6 DEF Lists
<1>10. {u[k] : k \in DOMAIN u} = {s[i] : i \in DOMAIN s}
  BY <1>8, <1>9
<1> QED
  BY <1>6, <1>7, <1>10 DEF u

------------------------------------------------------------------------------
(* Names of derived columns.                                               *)

\* The set of the elements of a sequence, and their number.
LEMMA ToSetIs ==
  ASSUME NEW T, NEW s \in Seq(T)
  PROVE  /\ ToSet(s) \subseteq T /\ IsFiniteSet(ToSet(s))
         /\ IsInjective(s) => Cardinality(ToSet(s)) = Len(s)
<1>1. DOMAIN s = 1..Len(s) /\ Len(s) \in Nat
  OBVIOUS
<1>2. IsFiniteSet(1..Len(s)) /\ Cardinality(1..Len(s)) = Len(s)
  BY <1>1, FS_Interval
<1>3. s \in Surjection(1..Len(s), ToSet(s))
  BY <1>1 DEF Surjection, ToSet
<1>4. /\ IsFiniteSet(ToSet(s))
      /\ Cardinality(ToSet(s)) = Len(s) <=> s \in Injection(1..Len(s), ToSet(s))
  BY <1>2, <1>3, FS_Surjection
<1>5. IsInjective(s) => s \in Injection(1..Len(s), ToSet(s))
  BY <1>3 DEF Surjection, Injection
<1>6. ToSet(s) \subseteq T
  BY <1>1 DEF ToSet
<1> QED
  BY <1>4, <1>5, <1>6

\* Of as many numbered names as are taken, and one more, one is free.
LEMMA FreeColumnNameIs ==
  ASSUME NEW name \in Text, NEW taken, IsFiniteSet(taken)
  PROVE  FreeColumnName(name, taken) \in Text /\ FreeColumnName(name, taken) \notin taken
<1>1. CASE name \notin taken
  BY <1>1 DEF FreeColumnName
<1>2. CASE name \in taken
  <2>0. PICK N \in Nat : N = Cardinality(taken)
    BY FS_CardinalityType
  <2> DEFINE free == {n \in 2..N + 2 : Append(name, n) \notin taken}
             numbered == [n \in 2..N + 2 |-> Append(name, n)]
  <2>1. IsFiniteSet(2..N + 2) /\ Cardinality(2..N + 2) = N + 1
    BY FS_Interval
  <2>2. ASSUME NEW n \in Int PROVE Append(name, n) \in Text /\ Append(name, n)[Len(name) + 1] = n
    BY DEF Text
  <2>3. free # {}
    <3> SUFFICES ASSUME free = {} PROVE FALSE
      OBVIOUS
    <3>1. numbered \in [2..N + 2 -> taken]
      OBVIOUS
    <3>2. PICK x \in 2..N + 2, y \in 2..N + 2 : x # y /\ numbered[x] = numbered[y]
      <4> HIDE DEF numbered
      <4> QED
        BY <2>0, <2>1, <3>1, FS_PigeonHole
    <3>3. Append(name, x) = Append(name, y)
      BY <3>2
    <3> QED
      BY <2>2, <3>2, <3>3
  <2>4. free \in SUBSET Nat
    OBVIOUS
  <2>5. PICK m \in free : \A n \in free : m <= n
    <3> HIDE DEF free
    <3> QED
      BY <2>3, <2>4, LeastOf
  <2>6. Min(free) \in free
    <3> HIDE DEF free
    <3> QED
      BY <2>5 DEF Min
  <2>7. FreeColumnName(name, taken) = Append(name, Min(free))
    BY <1>2, <2>0 DEF FreeColumnName
  <2>8. Min(free) \in Int /\ Append(name, Min(free)) \notin taken
    BY <2>6
  <2> HIDE DEF free
  <2> QED
    BY <2>2, <2>7, <2>8
<1> QED
  BY <1>1, <1>2

\* What is named so far: a kept name, or one that is neither taken nor given to an earlier one.
Fresh(u, wanted, own, taken) ==
  \A n \in 1..Len(u) :
    \/ wanted[n] \in own /\ u[n] = wanted[n]
    \/ wanted[n] \notin own /\ u[n] \notin taken /\ \A m \in 1..n - 1 : u[m] # u[n]

LEMMA NamedIs ==
  ASSUME NEW wanted \in Seq(Text), NEW own, NEW taken, IsFiniteSet(taken)
  PROVE  /\ Named(wanted, own, taken) \in Seq(Text)
         /\ Len(Named(wanted, own, taken)) = Len(wanted)
         /\ Fresh(Named(wanted, own, taken), wanted, own, taken)
<1>0. PICK N \in Nat : N = Len(wanted) /\ \A n \in 1..N : wanted[n] \in Text
  OBVIOUS
<1> DEFINE Next1(u, n) == IF wanted[n] \in own THEN wanted[n]
                          ELSE FreeColumnName(wanted[n], taken \union ToSet(u))
           Body(g) == [n \in 0..N |-> IF n = 0 THEN <<>> ELSE Append(g[n - 1], Next1(g[n - 1], n))]
           names == CHOOSE g : g = Body(g)
           step == [p \in Seq(Text) \X (1..N) |-> Append(p[1], Next1(p[1], p[2]))]
<1>1. ASSUME NEW u \in Seq(Text), NEW n \in 1..N
      PROVE  /\ Next1(u, n) \in Text
             /\ \/ wanted[n] \in own /\ Next1(u, n) = wanted[n]
                \/ /\ wanted[n] \notin own /\ Next1(u, n) \notin taken
                   /\ \A m \in 1..Len(u) : u[m] # Next1(u, n)
  <2>1. CASE wanted[n] \in own
    BY <1>0, <2>1
  <2>2. CASE wanted[n] \notin own
    <3>1. IsFiniteSet(ToSet(u))
      BY ToSetIs
    <3>2. IsFiniteSet(taken \union ToSet(u))
      BY <3>1, FS_Union
    <3>3. wanted[n] \in Text
      BY <1>0
    <3>4. Next1(u, n) \in Text /\ Next1(u, n) \notin taken \union ToSet(u)
      BY <2>2, <3>2, <3>3, FreeColumnNameIs
    <3>5. \A m \in 1..Len(u) : u[m] \in ToSet(u)
      BY DEF ToSet
    <3> HIDE DEF Next1
    <3> QED
      BY <2>2, <3>4, <3>5
  <2> QED
    BY <2>1, <2>2
<1> HIDE DEF Next1
<1>2. step \in [Seq(Text) \X (1..N) -> Seq(Text)]
  <2> SUFFICES ASSUME NEW p \in Seq(Text) \X (1..N) PROVE Append(p[1], Next1(p[1], p[2])) \in Seq(Text)
    OBVIOUS
  <2>1. p[1] \in Seq(Text) /\ p[2] \in 1..N
    OBVIOUS
  <2> QED
    BY <1>1, <2>1
<1>3. PICK f \in [0..N -> Seq(Text)] : Unfolds(f, N, <<>>, step)
  <2> HIDE DEF step
  <2>1. <<>> \in Seq(Text)
    OBVIOUS
  <2> QED
    BY <1>2, <2>1, RecursionTo
<1>4. ASSUME NEW n \in 1..N
      PROVE  f[n - 1] \in Seq(Text) /\ f[n] = Append(f[n - 1], Next1(f[n - 1], n))
  <2>1. n - 1 \in 0..N
    OBVIOUS
  <2>2. <<f[n - 1], n>> \in Seq(Text) \X (1..N)
    BY <2>1
  <2>3. step[<<f[n - 1], n>>] = Append(f[n - 1], Next1(f[n - 1], n))
    BY <2>2
  <2> HIDE DEF step
  <2> QED
    BY <1>3, <2>1, <2>3 DEF Unfolds
<1>5. f[0] = <<>>
  BY <1>3 DEF Unfolds
<1>6. f = Body(f)
  <2>1. ASSUME NEW n \in 0..N
        PROVE  f[n] = IF n = 0 THEN <<>> ELSE Append(f[n - 1], Next1(f[n - 1], n))
    <3>1. CASE n = 0
      BY <1>5, <3>1
    <3>2. CASE n # 0
      <4>1. n \in 1..N
        BY <3>2
      <4> QED
        BY <1>4, <3>2, <4>1
    <3> QED
      BY <3>1, <3>2
  <2> QED
    BY <2>1, Zenon
<1>7. names = Body(names)
  <2> HIDE DEF Body
  <2> QED
    BY <1>6
<1>8. ASSUME NEW n \in 0..N
      PROVE  names[n] = IF n = 0 THEN <<>> ELSE Append(names[n - 1], Next1(names[n - 1], n))
  <2> HIDE DEF names
  <2> QED
    BY <1>7, Zenon
<1> DEFINE P == {n \in 0..N : names[n] = f[n] /\ Len(f[n]) = n /\ Fresh(f[n], wanted, own, taken)}
<1> HIDE DEF names
<1>9. 0 \in P
  <2>1. names[0] = <<>>
    BY <1>8
  <2>2. Len(f[0]) = 0 /\ Fresh(f[0], wanted, own, taken)
    BY <1>5 DEF Fresh
  <2> QED
    BY <1>5, <2>1, <2>2
<1>10. ASSUME NEW n \in 1..N, n - 1 \in P PROVE n \in P
  <2> DEFINE u == f[n - 1]
             x == Next1(u, n)
  <2>1. u \in Seq(Text) /\ f[n] = Append(u, x)
    BY <1>4
  <2>2. n \in 0..N /\ n # 0 /\ names[n] = Append(names[n - 1], Next1(names[n - 1], n))
    <3>1. n \in 0..N /\ n # 0
      OBVIOUS
    <3> QED
      BY <1>8, <3>1
  <2>3. names[n - 1] = u /\ Len(u) = n - 1 /\ Fresh(u, wanted, own, taken)
    BY <1>10
  <2>4. /\ x \in Text
        /\ \/ wanted[n] \in own /\ x = wanted[n]
           \/ /\ wanted[n] \notin own /\ x \notin taken
              /\ \A m \in 1..n - 1 : u[m] # x
    BY <1>1, <2>1, <2>3
  <2> HIDE DEF u, x
  <2>5. Len(f[n]) = n /\ f[n][n] = x /\ \A m \in 1..n - 1 : f[n][m] = u[m]
    BY <2>1, <2>3, <2>4
  <2>6. Fresh(f[n], wanted, own, taken)
    <3> SUFFICES ASSUME NEW m \in 1..n
                 PROVE  \/ wanted[m] \in own /\ f[n][m] = wanted[m]
                        \/ /\ wanted[m] \notin own /\ f[n][m] \notin taken
                           /\ \A k \in 1..m - 1 : f[n][k] # f[n][m]
      BY <2>5 DEF Fresh
    <3>1. CASE m = n
      BY <2>4, <2>5, <3>1
    <3>2. CASE m # n
      <4>1. m \in 1..n - 1 /\ f[n][m] = u[m] /\ \A k \in 1..m - 1 : f[n][k] = u[k]
        BY <2>5, <3>2
      <4>2. \/ wanted[m] \in own /\ u[m] = wanted[m]
            \/ wanted[m] \notin own /\ u[m] \notin taken /\ \A k \in 1..m - 1 : u[k] # u[m]
        BY <2>3, <4>1 DEF Fresh
      <4> QED
        BY <4>1, <4>2
    <3> QED
      BY <3>1, <3>2
  <2>7. names[n] = f[n]
    BY <2>1, <2>2, <2>3 DEF x
  <2> QED
    BY <2>2, <2>5, <2>6, <2>7
<1>11. 0..N \subseteq P
  <2> HIDE DEF P
  <2> QED
    BY <1>9, <1>10, InductionTo
<1>12. Named(wanted, own, taken) = names[N]
  BY <1>0 DEF Named, names, Next1
<1>13. N \in P
  BY <1>11
<1> QED
  BY <1>0, <1>12, <1>13

\* Names of an aggregate or a pivot are distinct, and none is a key.
LEMMA ClaimedIs ==
  ASSUME NEW wanted \in Seq(Text), NEW taken, IsFiniteSet(taken)
  PROVE  /\ Claimed(wanted, taken) \in Seq(Text) /\ Len(Claimed(wanted, taken)) = Len(wanted)
         /\ IsInjective(Claimed(wanted, taken))
         /\ ToSet(Claimed(wanted, taken)) \intersect taken = {}
<1> DEFINE u == Claimed(wanted, taken)
<1>1. u \in Seq(Text) /\ Len(u) = Len(wanted) /\ Fresh(u, wanted, {}, taken)
  BY NamedIs DEF Claimed
<1> HIDE DEF u
<1>2. DOMAIN u = 1..Len(u) /\ Len(u) \in Nat
  BY <1>1
<1>3. ASSUME NEW n \in DOMAIN u PROVE u[n] \notin taken /\ \A m \in 1..n - 1 : u[m] # u[n]
  BY <1>1, <1>2 DEF Fresh
<1>4. IsInjective(u)
  <2> SUFFICES ASSUME NEW m \in DOMAIN u, NEW n \in DOMAIN u, u[m] = u[n], m # n PROVE FALSE
    BY DEF IsInjective
  <2>1. m \in 1..n - 1 \/ n \in 1..m - 1
    BY <1>2
  <2> QED
    BY <1>3, <2>1
<1>5. ToSet(u) \intersect taken = {}
  BY <1>3 DEF ToSet
<1> QED
  BY <1>1, <1>4, <1>5 DEF u

\* What a join names the columns of its right table: apart from each other and from the left ones.
LEMMA RightNamesIs ==
  ASSUME NEW columns \in SUBSET Text, IsFiniteSet(columns), NEW t,
         t.with.columns \in Seq(Text), IsInjective(t.with.columns)
  PROVE  /\ RightNames(t, columns) \in Seq(Text)
         /\ Len(RightNames(t, columns)) = Len(t.with.columns)
         /\ IsInjective(RightNames(t, columns))
         /\ ToSet(RightNames(t, columns)) \intersect columns = {}
<1> DEFINE wanted == t.with.columns
           theirs == ToSet(wanted)
           own == theirs \ columns
           taken == columns \union theirs
           u == RightNames(t, columns)
<1>0. IsFiniteSet(taken)
  BY ToSetIs, FS_Union
<1>1. u \in Seq(Text) /\ Len(u) = Len(wanted) /\ Fresh(u, wanted, own, taken)
  <2> HIDE DEF own, taken
  <2>1. u = Named(wanted, own, taken)
    BY DEF RightNames, own, taken
  <2> HIDE DEF u
  <2> QED
    BY <1>0, <2>1, NamedIs
<1> HIDE DEF u
<1>2. DOMAIN u = 1..Len(u) /\ Len(u) \in Nat /\ DOMAIN wanted = DOMAIN u
  BY <1>1
<1>3. \A n \in DOMAIN u : wanted[n] \in theirs
  BY <1>2 DEF ToSet
<1>4. ASSUME NEW n \in DOMAIN u
      PROVE  \/ u[n] = wanted[n] /\ u[n] \in theirs /\ u[n] \notin columns
             \/ u[n] \notin theirs /\ u[n] \notin columns /\ \A m \in 1..n - 1 : u[m] # u[n]
  <2> HIDE DEF theirs
  <2> QED
    BY <1>1, <1>2, <1>3 DEF Fresh
<1>5. IsInjective(u)
  <2> SUFFICES ASSUME NEW m \in DOMAIN u, NEW n \in DOMAIN u, u[m] = u[n], m # n PROVE FALSE
    BY DEF IsInjective
  <2>1. m \in 1..n - 1 \/ n \in 1..m - 1
    BY <1>2
  <2>2. wanted[m] # wanted[n]
    BY <1>2 DEF IsInjective
  <2> HIDE DEF theirs, wanted
  <2> QED
    BY <1>4, <2>1, <2>2
<1>6. ToSet(u) \intersect columns = {}
  BY <1>4 DEF ToSet
<1> QED
  BY <1>1, <1>5, <1>6 DEF u

------------------------------------------------------------------------------
(* Order, and sequences put together.                                      *)

\* Numbers by magnitude, then text, then empty cells: an order of the cells.
LEMMA SortsBeforeIs ==
  /\ \A x \in Text : ~SortsBefore(x, x)
  /\ \A x, y \in Text : ~(SortsBefore(x, y) /\ SortsBefore(y, x))
  /\ \A x, y, z \in Text : SortsBefore(x, y) /\ SortsBefore(y, z) => SortsBefore(x, z)
  /\ \A x, y, z \in Text : ~SortsBefore(x, y) /\ ~SortsBefore(y, z) => ~SortsBefore(x, z)
<1>1. \A x \in Text : x # Missing => x[1] \in Int
  BY DEF Text, Missing
<1>2. Pending # Missing
  BY DEF Pending, Missing
<1> QED
  BY <1>1, <1>2 DEF SortsBefore

\* A sort puts every element in one place.
LEMMA SortedByIs ==
  ASSUME NEW T, NEW s \in Seq(T), NEW cells \in [DOMAIN s -> Text]
  PROVE  /\ SortedBy(s, cells) \in Seq(T) /\ Len(SortedBy(s, cells)) = Len(s)
         /\ \E at : Takes(SortedBy(s, cells), s, at, DOMAIN s)
<1>1. DOMAIN s = 1..Len(s) /\ Len(s) \in Nat
  OBVIOUS
<1>0. IsFiniteSet(DOMAIN s) /\ Cardinality(DOMAIN s) = Len(s)
  BY PlacesAre
<1> DEFINE S == DOMAIN s
           before(i, j) == SortsBefore(cells[i], cells[j])
           R == {p \in S \X S : before(p[1], p[2]) \/ (p[1] < p[2] /\ ~before(p[2], p[1]))}
           at == [k \in 1..Cardinality(S) |-> CHOOSE i \in S : RankIn(R, S, i) = k]
<1>2. IsFiniteSet(S) /\ Cardinality(S) = Len(s)
  BY <1>0
<1>3. \A i, j \in S : <<i, j>> \in R <=> before(i, j) \/ (i < j /\ ~before(j, i))
  OBVIOUS
<1>4. /\ \A i \in S : ~before(i, i)
      /\ \A i, j \in S : ~(before(i, j) /\ before(j, i))
      /\ \A i, j, k \in S : before(i, j) /\ before(j, k) => before(i, k)
      /\ \A i, j, k \in S : ~before(i, j) /\ ~before(j, k) => ~before(i, k)
  <2>1. \A i \in S : cells[i] \in Text
    OBVIOUS
  <2> QED
    BY <2>1, SortsBeforeIs
<1>5. \A i \in S : i \in Int
  BY <1>1
<1> HIDE DEF before, R
<1>6. TotalOrder(R, S)
  <2>1. \A i \in S : <<i, i>> \notin R
    BY <1>3, <1>4, <1>5
  <2>2. ASSUME NEW i \in S, NEW j \in S, i # j PROVE <<i, j>> \in R \/ <<j, i>> \in R
    <3>1. i < j \/ j < i
      BY <1>5, <2>2
    <3> QED
      BY <1>3, <3>1
  <2>3. ASSUME NEW i \in S, NEW j \in S, NEW k \in S, <<i, j>> \in R, <<j, k>> \in R
        PROVE  <<i, k>> \in R
    <3>1. (before(i, j) \/ (i < j /\ ~before(j, i))) /\ (before(j, k) \/ (j < k /\ ~before(k, j)))
      BY <1>3, <2>3
    <3>2. ~before(j, i) /\ ~before(k, j)
      BY <1>4, <3>1
    <3>3. ~before(k, i)
      BY <1>4, <3>2
    <3>4. CASE before(i, k)
      BY <1>3, <3>4
    <3>5. CASE ~before(i, k)
      <4>1. ~before(i, j)
        BY <1>4, <3>2, <3>5
      <4>2. ~before(j, k)
        BY <1>4, <3>2, <3>5
      <4>3. i < k
        BY <1>5, <3>1, <4>1, <4>2
      <4> QED
        BY <1>3, <3>3, <4>3
    <3> QED
      BY <3>4, <3>5
  <2> QED
    BY <2>1, <2>2, <2>3 DEF TotalOrder
<1>7. Lists(at, S)
  BY <1>2, <1>6, ListedBy
<1>8. ASSUME NEW i \in S
      PROVE  RankIn(R, S, i) = Cardinality({j \in S : before(j, i) \/ (j <= i /\ ~before(i, j))})
  <2>1. \A j \in S : j = i \/ <<j, i>> \in R <=> before(j, i) \/ (j <= i /\ ~before(i, j))
    BY <1>3, <1>4, <1>5
  <2>2. {j \in S : j = i \/ <<j, i>> \in R} = {j \in S : before(j, i) \/ (j <= i /\ ~before(i, j))}
    BY <2>1
  <2> QED
    BY <2>2 DEF RankIn
<1>9. ASSUME NEW k \in S PROVE SortedBy(s, cells)[k] = s[at[k]]
  <2>1. (CHOOSE i \in S : Cardinality({j \in S : before(j, i) \/ (j <= i /\ ~before(i, j))}) = k)
          = CHOOSE i \in S : RankIn(R, S, i) = k
    BY <1>8
  <2>2. at[k] = CHOOSE i \in S : RankIn(R, S, i) = k
    BY <1>1, <1>2
  <2>3. SortedBy(s, cells)[k] =
          s[CHOOSE i \in S : Cardinality({j \in S : before(j, i) \/ (j <= i /\ ~before(i, j))}) = k]
    BY DEF SortedBy, before
  <2> QED
    BY <2>1, <2>2, <2>3
<1> HIDE DEF at
<1>10. \A k \in S : at[k] \in S /\ s[at[k]] \in T
  BY <1>1, <1>2, <1>7 DEF Lists
<1>11. SortedBy(s, cells) \in [1..Len(s) -> T]
  <2>1. SortedBy(s, cells) = [k \in S |-> SortedBy(s, cells)[k]]
    BY DEF SortedBy
  <2> QED
    BY <1>1, <1>9, <1>10, <2>1
<1>12. SortedBy(s, cells) \in Seq(T) /\ Len(SortedBy(s, cells)) = Len(s)
  BY <1>1, <1>11, IsSequence
<1> QED
  BY <1>1, <1>2, <1>7, <1>9, <1>12 DEF Takes

\* A flattened sequence has the elements of the sequences, and no others.
LEMMA FlattenedIs ==
  ASSUME NEW S, NEW s \in Seq(Seq(S))
  PROVE  /\ FlattenSeq(s) \in Seq(S)
         /\ \A k \in DOMAIN FlattenSeq(s) :
              \E i \in DOMAIN s : \E m \in DOMAIN s[i] : FlattenSeq(s)[k] = s[i][m]
         /\ \A i \in DOMAIN s : \A m \in DOMAIN s[i] :
              \E k \in DOMAIN FlattenSeq(s) : FlattenSeq(s)[k] = s[i][m]
<1>1. CASE s = <<>>
  <2>1. FlattenSeq(s) = <<>>
    BY <1>1 DEF FlattenSeq
  <2>2. <<>> \in Seq(S) /\ DOMAIN FlattenSeq(s) = {} /\ DOMAIN s = {}
    BY <1>1, <2>1
  <2> QED
    BY <2>1, <2>2
<1>2. CASE s # <<>>
  <2>1. PICK N \in Nat : N = Len(s) /\ N > 0 /\ DOMAIN s = 1..N /\ \A i \in 1..N : s[i] \in Seq(S)
    BY <1>2
  <2>2. PICK f \in [1..N -> Seq(S)] : /\ f[1] = s[1] /\ FlattenSeq(s) = f[N]
                                      /\ \A i \in 2..N : f[i] = f[i-1] \o s[i]
    BY <1>2, <2>1, FlattenIs
  <2> DEFINE From(n) == \A k \in DOMAIN f[n] : \E i \in 1..n : \E m \in DOMAIN s[i] : f[n][k] = s[i][m]
             Has(n) == \A i \in 1..n : \A m \in DOMAIN s[i] : \E k \in DOMAIN f[n] : f[n][k] = s[i][m]
             P == {n \in 0..N : n = 0 \/ (From(n) /\ Has(n))}
  <2>3. 0 \in P
    OBVIOUS
  <2>4. ASSUME NEW n \in 1..N, n - 1 \in P PROVE n \in P
    <3>1. CASE n = 1
      <4>1. f[1] = s[1] /\ 1..1 = {1}
        BY <2>2
      <4> QED
        BY <3>1, <4>1
    <3>2. CASE n # 1
      <4>0. n - 1 \in 1..N /\ n \in 2..N
        BY <3>2
      <4>1. n \in 2..N /\ f[n - 1] \in Seq(S) /\ s[n] \in Seq(S)
        <5> HIDE DEF P
        <5> QED
          BY <2>1, <4>0
      <4>2. f[n] = f[n - 1] \o s[n]
        BY <2>2, <4>1
      <4>3. From(n - 1) /\ Has(n - 1)
        BY <2>4, <3>2
      <4>4. PICK a \in Nat, b \in Nat :
              /\ a = Len(f[n - 1]) /\ b = Len(s[n])
              /\ DOMAIN f[n - 1] = 1..a /\ DOMAIN s[n] = 1..b /\ DOMAIN f[n] = 1..a + b
              /\ \A k \in 1..a : f[n][k] = f[n - 1][k]
              /\ \A m \in 1..b : f[n][a + m] = s[n][m]
        <5> DEFINE u == f[n - 1]
                   v == s[n]
        <5>1. u \in Seq(S) /\ v \in Seq(S) /\ f[n] = u \o v
          BY <4>1, <4>2
        <5> HIDE DEF u, v, P
        <5>2. /\ Len(u) \in Nat /\ Len(v) \in Nat
              /\ DOMAIN u = 1..Len(u) /\ DOMAIN v = 1..Len(v)
              /\ DOMAIN f[n] = 1..Len(u) + Len(v)
              /\ \A k \in 1..Len(u) : f[n][k] = u[k]
              /\ \A m \in 1..Len(v) : f[n][Len(u) + m] = v[m]
          BY <5>1
        <5> QED
          BY <5>2 DEF u, v
      <4>5. From(n)
        <5> SUFFICES ASSUME NEW k \in 1..a + b
                     PROVE  \E i \in 1..n : \E m \in DOMAIN s[i] : f[n][k] = s[i][m]
          BY <4>4
        <5>1. CASE k \in 1..a
          <6>1. PICK i \in 1..n - 1 : \E m \in DOMAIN s[i] : f[n - 1][k] = s[i][m]
            BY <4>3, <4>4, <5>1
          <6>2. i \in 1..n
            OBVIOUS
          <6> QED
            BY <4>4, <5>1, <6>1, <6>2
        <5>2. CASE k \notin 1..a
          <6>1. k - a \in 1..b /\ a + (k - a) = k
            BY <5>2
          <6>2. f[n][a + (k - a)] = s[n][k - a] /\ k - a \in DOMAIN s[n]
            BY <4>4, <6>1
          <6>3. n \in 1..n
            OBVIOUS
          <6> QED
            BY <6>1, <6>2, <6>3
        <5> QED
          BY <5>1, <5>2
      <4>6. Has(n)
        <5> SUFFICES ASSUME NEW i \in 1..n, NEW m \in DOMAIN s[i]
                     PROVE  \E k \in 1..a + b : f[n][k] = s[i][m]
          BY <4>4
        <5>1. CASE i = n
          <6>0. m \in 1..b
            BY <4>4, <5>1
          <6>1. a + m \in 1..a + b
            BY <6>0
          <6>2. f[n][a + m] = s[n][m]
            BY <4>4, <6>0
          <6>3. f[n][a + m] = s[i][m]
            BY <5>1, <6>2
          <6> QED
            BY <6>1, <6>3
        <5>2. CASE i # n
          <6>1. i \in 1..n - 1
            BY <5>2
          <6>2. PICK k \in DOMAIN f[n - 1] : f[n - 1][k] = s[i][m]
            BY <4>3, <6>1
          <6>4. k \in 1..a
            BY <4>4
          <6>3. k \in 1..a /\ k \in 1..a + b
            BY <6>4
          <6> QED
            BY <4>4, <6>2, <6>3
        <5> QED
          BY <5>1, <5>2
      <4> QED
        BY <4>5, <4>6
    <3> QED
      BY <3>1, <3>2
  <2>5. 0..N \subseteq P
    <3> HIDE DEF P
    <3> QED
      BY <2>1, <2>3, <2>4, InductionTo
  <2>6. From(N) /\ Has(N)
    <3>1. N \in P /\ N # 0
      BY <2>1, <2>5
    <3> QED
      BY <3>1
  <2>7. f[N] \in Seq(S) /\ DOMAIN s = 1..N
    BY <2>1
  <2>8. FlattenSeq(s) = f[N]
    BY <2>2
  <2> HIDE DEF P
  <2>9. ASSUME NEW k \in DOMAIN FlattenSeq(s)
        PROVE  \E i \in DOMAIN s : \E m \in DOMAIN s[i] : FlattenSeq(s)[k] = s[i][m]
    <3>1. k \in DOMAIN f[N]
      BY <2>8
    <3>2. PICK i \in 1..N : \E m \in DOMAIN s[i] : f[N][k] = s[i][m]
      BY <2>6, <3>1
    <3> QED
      BY <2>7, <2>8, <3>2
  <2>10. ASSUME NEW i \in DOMAIN s, NEW m \in DOMAIN s[i]
         PROVE  \E k \in DOMAIN FlattenSeq(s) : FlattenSeq(s)[k] = s[i][m]
    <3>1. PICK k \in DOMAIN f[N] : f[N][k] = s[i][m]
      BY <2>6, <2>7
    <3> QED
      BY <2>8, <3>1
  <2>11. FlattenSeq(s) \in Seq(S)
    BY <2>7, <2>8, Zenon
  <2> QED
    BY <2>9, <2>10, <2>11
<1> QED
  BY <1>1, <1>2


------------------------------------------------------------------------------
(* Rows.                                                                   *)

\* A cell that is not there is an empty one.
LEMMA CellAtIs ==
  ASSUME NEW columns, NEW cells \in [columns -> Text]
  PROVE  /\ \A c : CellAt(cells, c) \in Text
         /\ \A c \in columns : CellAt(cells, c) = cells[c]
         /\ \A few : Tuple(cells, few) \in [few -> Text]
<1>1. Missing \in Text
  BY DEF Missing, Text
<1>2. \A c : CellAt(cells, c) \in Text
  BY <1>1 DEF CellAt
<1>3. \A c \in columns : CellAt(cells, c) = cells[c]
  BY DEF CellAt
<1>4. \A few : Tuple(cells, few) \in [few -> Text]
  BY <1>2 DEF Tuple
<1> QED
  BY <1>2, <1>3, <1>4

\* A table is its columns and rows over them.
LEMMA TableIs ==
  ASSUME NEW columns \in SUBSET Text, IsFiniteSet(columns), NEW rows \in Seq(RowOver(columns))
  PROVE  IsTable([columns |-> columns, rows |-> rows])
BY DEF IsTable

LEMMA RowsAre ==
  ASSUME NEW columns, NEW rows \in Seq(RowOver(columns))
  PROVE  /\ DOMAIN rows = 1..Len(rows) /\ Len(rows) \in Nat
         /\ \A i \in DOMAIN rows : /\ rows[i] \in RowOver(columns) /\ rows[i].origin \in Nat
                                   /\ rows[i].cells \in [columns -> Text]
<1>1. DOMAIN rows = 1..Len(rows) /\ Len(rows) \in Nat /\ \A i \in DOMAIN rows : rows[i] \in RowOver(columns)
  OBVIOUS
<1>2. \A row \in RowOver(columns) : row.origin \in Nat /\ row.cells \in [columns -> Text]
  BY DEF RowOver
<1> QED
  BY <1>1, <1>2

\* A row with other cells.
LEMMA CellsPut ==
  ASSUME NEW columns, NEW row \in RowOver(columns), NEW more, NEW cells \in [more -> Text]
  PROVE  /\ [row EXCEPT !.cells = cells] \in RowOver(more)
         /\ [row EXCEPT !.cells = cells].cells = cells
         /\ [row EXCEPT !.cells = cells].origin = row.origin
BY DEF RowOver

\* A text for each row.
TextsFor(values, rows) == values \in [DOMAIN rows -> Text]

\* A column put into the rows, or put again.
LEMMA WithIs ==
  ASSUME NEW columns, NEW rows \in Seq(RowOver(columns)), NEW column,
         NEW values, TextsFor(values, rows)
  PROVE  /\ With(rows, column, values) \in Seq(RowOver(columns \union {column}))
         /\ DOMAIN With(rows, column, values) = DOMAIN rows
<1> DEFINE filled(i) == [c \in columns \union {column} |->
                          IF c = column THEN values[i] ELSE rows[i].cells[c]]
           put(i) == [rows[i] EXCEPT !.cells = filled(i)]
<1>1. PICK N \in Nat : N = Len(rows) /\ DOMAIN rows = 1..N
  BY RowsAre
<1>2. ASSUME NEW i \in DOMAIN rows PROVE put(i) \in RowOver(columns \union {column})
  <2>1. rows[i] \in RowOver(columns) /\ rows[i].cells \in [columns -> Text] /\ values[i] \in Text
    BY RowsAre DEF TextsFor
  <2>2. filled(i) \in [columns \union {column} -> Text]
    BY <2>1
  <2> HIDE DEF filled
  <2> QED
    BY <2>1, <2>2, CellsPut
<1>3. With(rows, column, values) = [i \in DOMAIN rows |-> put(i)]
  <2>1. ASSUME NEW i \in DOMAIN rows
        PROVE  [rows[i] EXCEPT !.cells = [c \in DOMAIN @ \union {column} |->
                                            IF c = column THEN values[i] ELSE @[c]]] = put(i)
    <3>1. rows[i].cells \in [columns -> Text]
      BY RowsAre
    <3>2. DOMAIN rows[i].cells = columns
      BY <3>1
    <3> QED
      BY <3>2
  <2> HIDE DEF put
  <2> QED
    BY <2>1 DEF With
<1> HIDE DEF put
<1>4. With(rows, column, values) \in [1..N -> RowOver(columns \union {column})]
  BY <1>1, <1>2, <1>3
<1> QED
  BY <1>1, <1>4, IsSequence


------------------------------------------------------------------------------
(* The steps, each over any table.                                         *)

\* A step makes a table with these columns.
Makes(t, input, ai, columns) ==
  IsTable(Applied(t, input, ai)) /\ Applied(t, input, ai).columns = columns

LEMMA MakesRows ==
  ASSUME NEW t, NEW input, NEW ai, NEW columns \in SUBSET Text, IsFiniteSet(columns),
         NEW rows \in Seq(RowOver(columns)),
         Applied(t, input, ai) = [columns |-> columns, rows |-> rows]
  PROVE  Makes(t, input, ai, columns)
BY TableIs DEF Makes

LEMMA TableHas ==
  ASSUME NEW input, IsTable(input)
  PROVE  /\ input.columns \in SUBSET Text /\ IsFiniteSet(input.columns)
         /\ input.rows \in Seq(RowOver(input.columns))
BY DEF IsTable

\* The cells of a column, one for each row.
LEMMA ColumnIs ==
  ASSUME NEW columns, NEW rows \in Seq(RowOver(columns)), NEW column
  PROVE  TextsFor([i \in DOMAIN rows |-> CellAt(rows[i].cells, column)], rows)
<1>1. \A i \in DOMAIN rows : CellAt(rows[i].cells, column) \in Text
  BY RowsAre, CellAtIs
<1> QED
  BY <1>1 DEF TextsFor

LEMMA FilterMakes ==
  ASSUME NEW t, IsStep(t), t.kind = "filter", NEW input, IsTable(input), NEW ai
  PROVE  Makes(t, input, ai, input.columns)
<1> DEFINE rows == input.rows
           places == {i \in DOMAIN rows : CellAt(rows[i].cells, t.reads) = t.text}
<1>1. Applied(t, input, ai) = [columns |-> input.columns, rows |-> Picked(rows, places)]
  BY DEF Applied
<1>2. places \in SUBSET DOMAIN rows
  OBVIOUS
<1> HIDE DEF places
<1>3. Picked(rows, places) \in Seq(RowOver(input.columns))
  BY <1>2, PickedIs, TableHas
<1> QED
  BY <1>1, <1>3, MakesRows, TableHas

\* A column put with given values.
LEMMA PutMakes ==
  ASSUME NEW t, NEW input, IsTable(input), NEW ai, NEW column \in Text,
         NEW values, TextsFor(values, input.rows),
         Applied(t, input, ai) = [columns |-> input.columns \union {column},
                                  rows |-> With(input.rows, column, values)]
  PROVE  Makes(t, input, ai, input.columns \union {column})
<1>1. With(input.rows, column, values) \in Seq(RowOver(input.columns \union {column}))
  BY TableHas, WithIs
<1>2. input.columns \union {column} \in SUBSET Text /\ IsFiniteSet(input.columns \union {column})
  BY TableHas, FS_AddElement
<1> QED
  BY <1>1, <1>2, MakesRows

LEMMA MutateMakes ==
  ASSUME NEW t, IsStep(t), t.kind = "mutate", NEW input, IsTable(input), NEW ai
  PROVE  Makes(t, input, ai, input.columns \union {t.column})
<1> DEFINE values == [i \in DOMAIN input.rows |-> CellAt(input.rows[i].cells, t.reads)]
<1>1. TextsFor(values, input.rows) /\ t.column \in Text
  BY TableHas, ColumnIs DEF IsStep
<1>2. Applied(t, input, ai) = [columns |-> input.columns \union {t.column},
                               rows |-> With(input.rows, t.column, values)]
  BY DEF Applied
<1> HIDE DEF values
<1> QED
  BY <1>1, <1>2, PutMakes

LEMMA EditMakes ==
  ASSUME NEW t, IsStep(t), t.kind = "edit", NEW input, IsTable(input), NEW ai
  PROVE  Makes(t, input, ai, input.columns \union {t.column})
<1> DEFINE values == [i \in DOMAIN input.rows |->
                        IF i = t.row THEN t.text ELSE CellAt(input.rows[i].cells, t.column)]
<1>1. t.column \in Text /\ t.text \in Text
  BY DEF IsStep
<1>2. \A i \in DOMAIN input.rows : CellAt(input.rows[i].cells, t.column) \in Text
  BY TableHas, RowsAre, CellAtIs
<1>3. TextsFor(values, input.rows)
  BY <1>1, <1>2 DEF TextsFor
<1>4. Applied(t, input, ai) = [columns |-> input.columns \union {t.column},
                               rows |-> With(input.rows, t.column, values)]
  BY DEF Applied
<1> HIDE DEF values
<1> QED
  BY <1>1, <1>3, <1>4, PutMakes

LEMMA AiMakes ==
  ASSUME NEW t, IsStep(t), t.kind = "ai", NEW input, IsTable(input), NEW ai
  PROVE  Makes(t, input, ai, input.columns \union {t.column})
<1> DEFINE prompt(i) == CellAt(input.rows[i].cells, t.reads)
           values == [i \in DOMAIN input.rows |->
                        IF OriginKey(input.rows, i) \in ai.target \/ prompt(i) \in ai.cache
                        THEN Answer(prompt(i)) ELSE Pending]
<1>1. t.column \in Text /\ Pending \in Text
  BY DEF IsStep, Pending, Text
<1>2. \A i \in DOMAIN input.rows : prompt(i) \in Text
  BY TableHas, RowsAre, CellAtIs
<1>3. TextsFor(values, input.rows)
  BY <1>1, <1>2 DEF Answer, TextsFor
<1>4. Applied(t, input, ai) = [columns |-> input.columns \union {t.column},
                               rows |-> With(input.rows, t.column, values)]
  BY DEF Applied
<1> HIDE DEF values
<1> QED
  BY <1>1, <1>3, <1>4, PutMakes

\* Two columns put, one after the other.
LEMMA WithTwo ==
  ASSUME NEW columns, NEW rows \in Seq(RowOver(columns)), NEW a, NEW b,
         NEW u, TextsFor(u, rows), NEW v, TextsFor(v, rows)
  PROVE  /\ With(With(rows, a, u), b, v) \in Seq(RowOver(columns \union {a, b}))
         /\ DOMAIN With(With(rows, a, u), b, v) = DOMAIN rows
<1> DEFINE once == With(rows, a, u)
<1>1. once \in Seq(RowOver(columns \union {a})) /\ DOMAIN once = DOMAIN rows
  BY WithIs
<1> HIDE DEF once
<1>2. /\ With(once, b, v) \in Seq(RowOver((columns \union {a}) \union {b}))
      /\ DOMAIN With(once, b, v) = DOMAIN once
  <2>1. TextsFor(v, once)
    BY <1>1 DEF TextsFor
  <2> QED
    BY <1>1, <2>1, WithIs
<1>3. (columns \union {a}) \union {b} = columns \union {a, b}
  OBVIOUS
<1> QED
  BY <1>1, <1>2, <1>3 DEF once

LEMMA TwoMore ==
  ASSUME NEW columns \in SUBSET Text, IsFiniteSet(columns), NEW a \in Text, NEW b \in Text
  PROVE  columns \union {a, b} \in SUBSET Text /\ IsFiniteSet(columns \union {a, b})
<1>1. columns \union {a, b} = (columns \union {a}) \union {b}
  OBVIOUS
<1>2. IsFiniteSet((columns \union {a}) \union {b})
  BY FS_AddElement
<1> QED
  BY <1>1, <1>2

LEMMA ValidateMakes ==
  ASSUME NEW t, IsStep(t), t.kind = "validate", NEW input, IsTable(input), NEW ai
  PROVE  Makes(t, input, ai, input.columns \union {t.into, Append(t.into, 1)})
<1> DEFINE rows == input.rows
           why == Append(t.into, 1)
           columns == input.columns \union {t.into, why}
           verdicts == [i \in DOMAIN rows |->
                          <<IF CellAt(rows[i].cells, t.reads) = Missing THEN 0 ELSE 1>>]
           reasons == [i \in DOMAIN rows |-> CellAt(rows[i].cells, Missing)]
<1>1. t.into \in Text /\ why \in Text
  BY DEF IsStep, Text
<1>2. TextsFor(verdicts, rows)
  <2>1. <<0>> \in Text /\ <<1>> \in Text
    BY DEF Text
  <2>2. \A i \in DOMAIN rows : <<IF CellAt(rows[i].cells, t.reads) = Missing THEN 0 ELSE 1>> \in Text
    BY <2>1
  <2> QED
    BY <2>2 DEF TextsFor
<1>3. TextsFor(reasons, rows)
  BY TableHas, ColumnIs
<1>4. Applied(t, input, ai) = [columns |-> columns,
                               rows |-> With(With(rows, t.into, verdicts), why, reasons)]
  BY DEF Applied
<1> HIDE DEF verdicts, reasons, why
<1>5. With(With(rows, t.into, verdicts), why, reasons) \in Seq(RowOver(columns))
  BY <1>2, <1>3, TableHas, WithTwo
<1>6. columns \in SUBSET Text /\ IsFiniteSet(columns)
  BY <1>1, TableHas, TwoMore
<1> HIDE DEF columns
<1>7. Makes(t, input, ai, columns)
  BY <1>4, <1>5, <1>6, MakesRows
<1> QED
  BY <1>7 DEF columns, why

\* Rows cut to some columns, or widened by empty cells.
CutTo(result, rows, few) ==
  /\ DOMAIN result = DOMAIN rows /\ result = [i \in DOMAIN rows |-> result[i]]
  /\ \A i \in DOMAIN rows :
       \/ result[i] = [rows[i] EXCEPT !.cells = Tuple(rows[i].cells, few)]
       \/ result[i] = [origin |-> 0, cells |-> Tuple(rows[i].cells, few)]
LEMMA RowsCut ==
  ASSUME NEW columns, NEW rows \in Seq(RowOver(columns)), NEW few, NEW result,
         CutTo(result, rows, few)
  PROVE  result \in Seq(RowOver(few))
<1>1. PICK N \in Nat : N = Len(rows) /\ DOMAIN rows = 1..N
  BY RowsAre
<1>2. ASSUME NEW i \in DOMAIN rows PROVE result[i] \in RowOver(few)
  <2>1. rows[i] \in RowOver(columns) /\ rows[i].cells \in [columns -> Text]
    BY RowsAre
  <2>2. Tuple(rows[i].cells, few) \in [few -> Text]
    BY <2>1, CellAtIs
  <2>3. [rows[i] EXCEPT !.cells = Tuple(rows[i].cells, few)] \in RowOver(few)
    BY <2>1, <2>2, CellsPut
  <2>4. [origin |-> 0, cells |-> Tuple(rows[i].cells, few)] \in RowOver(few)
    BY <2>2 DEF RowOver
  <2> QED
    BY <2>3, <2>4 DEF CutTo
<1>3. result \in [1..N -> RowOver(few)]
  BY <1>1, <1>2 DEF CutTo
<1> QED
  BY <1>1, <1>3, IsSequence

LEMMA SplitMakes ==
  ASSUME NEW t, IsStep(t), t.kind = "split", NEW input, IsTable(input), NEW ai
  PROVE  Makes(t, input, ai,
               (input.columns \union ToSet(t.into)) \ (IF t.drop THEN {t.from} ELSE {}))
<1> DEFINE rows == input.rows
           column(c) == [i \in DOMAIN rows |-> CellAt(rows[i].cells, c)]
           filled == With(With(rows, t.into[1], column(t.from)), t.into[2], column(Missing))
           columns == (input.columns \union ToSet(t.into)) \ (IF t.drop THEN {t.from} ELSE {})
           result == [i \in DOMAIN rows |-> [filled[i] EXCEPT !.cells = Tuple(filled[i].cells, columns)]]
<1>1. t.into[1] \in Text /\ t.into[2] \in Text /\ ToSet(t.into) = {t.into[1], t.into[2]}
  BY DEF IsStep, ToSet
<1>2. TextsFor(column(t.from), rows) /\ TextsFor(column(Missing), rows)
  BY TableHas, ColumnIs
<1>3. Applied(t, input, ai) = [columns |-> columns, rows |-> result]
  BY DEF Applied
<1> HIDE DEF column
<1>4. /\ filled \in Seq(RowOver(input.columns \union {t.into[1], t.into[2]}))
      /\ DOMAIN filled = DOMAIN rows
  <2> DEFINE a == t.into[1]
             b == t.into[2]
             u == column(t.from)
             v == column(Missing)
  <2>1. TextsFor(u, rows) /\ TextsFor(v, rows) /\ rows \in Seq(RowOver(input.columns))
    BY <1>2, TableHas
  <2> HIDE DEF a, b, u, v, rows
  <2>2. With(With(rows, a, u), b, v) \in Seq(RowOver(input.columns \union {a, b}))
    BY <2>1, WithTwo
  <2>3. DOMAIN With(With(rows, a, u), b, v) = DOMAIN rows
    BY DEF With
  <2> QED
    BY <2>2, <2>3 DEF a, b, u, v
<1>5. columns \in SUBSET Text /\ IsFiniteSet(columns)
  <2>1. /\ input.columns \union {t.into[1], t.into[2]} \in SUBSET Text
        /\ IsFiniteSet(input.columns \union {t.into[1], t.into[2]})
    BY <1>1, TableHas, TwoMore
  <2> QED
    BY <1>1, <2>1, FS_Difference
<1> HIDE DEF filled, columns
<1>6. result \in Seq(RowOver(columns))
  <2>1. CutTo(result, filled, columns)
    BY <1>4 DEF CutTo
  <2> HIDE DEF result
  <2> QED
    BY <1>4, <2>1, RowsCut
<1> HIDE DEF result
<1>7. Makes(t, input, ai, columns)
  BY <1>3, <1>5, <1>6, MakesRows
<1> QED
  BY <1>7 DEF columns

LEMMA SelectMakes ==
  ASSUME NEW t, IsStep(t), t.kind = "select", NEW input, IsTable(input), NEW ai
  PROVE  Makes(t, input, ai, t.columns)
<1> DEFINE rows == input.rows
           result == [i \in DOMAIN rows |-> [origin |-> 0, cells |-> Tuple(rows[i].cells, t.columns)]]
<1>1. t.columns \in SUBSET Text /\ IsFiniteSet(t.columns)
  BY DEF IsStep
<1>2. Applied(t, input, ai) = [columns |-> t.columns, rows |-> result]
  BY DEF Applied
<1>3. result \in Seq(RowOver(t.columns))
  <2>1. CutTo(result, rows, t.columns)
    BY DEF CutTo
  <2> HIDE DEF result
  <2> QED
    BY <2>1, TableHas, RowsCut
<1> HIDE DEF result
<1> QED
  BY <1>1, <1>2, <1>3, MakesRows

LEMMA SortMakes ==
  ASSUME NEW t, IsStep(t), t.kind = "sort", NEW input, IsTable(input), NEW ai
  PROVE  Makes(t, input, ai, input.columns)
<1> DEFINE cells == [i \in DOMAIN input.rows |-> CellAt(input.rows[i].cells, t.reads)]
<1>1. cells \in [DOMAIN input.rows -> Text]
  BY TableHas, ColumnIs DEF TextsFor
<1>2. Applied(t, input, ai) = [columns |-> input.columns, rows |-> SortedBy(input.rows, cells)]
  BY DEF Applied
<1> HIDE DEF cells
<1>3. SortedBy(input.rows, cells) \in Seq(RowOver(input.columns))
  BY <1>1, TableHas, SortedByIs
<1> QED
  BY <1>2, <1>3, MakesRows, TableHas


\* The keys the rows have.
Seen(rows, keys) == {Tuple(rows[i].cells, keys) : i \in DOMAIN rows}

\* A step makes `n` columns beside the keys of the rows, and keeps those keys.
Derives(t, input, ai, keys, n) ==
  /\ IsTable(Applied(t, input, ai))
  /\ Cardinality(Applied(t, input, ai).columns) = Cardinality(keys) + n
  /\ Seen(Applied(t, input, ai).rows, keys) = Seen(input.rows, keys)

\* The same of a step whose keys are read from columns of other names, for
\* the rows it keeps.
Reaches(after, before, keys) == \A k \in keys : CellAt(after, k[1]) = CellAt(before, k[2])
Retains(t, input, ai, keys, n) ==
  LET result == Applied(t, input, ai)
  IN  /\ Cardinality(result.columns) = Cardinality({k[1] : k \in keys}) + n
      /\ {[k \in keys |-> CellAt(result.rows[i].cells, k[1])] : i \in DOMAIN result.rows}
           = {[k \in keys |-> CellAt(input.rows[i].cells, k[2])] : i \in Stay(t, input.rows)}

LEMMA RetainsRows ==
  ASSUME NEW t, NEW input, NEW ai, NEW keys, NEW n, NEW result, Applied(t, input, ai) = result,
         Cardinality(result.columns) = Cardinality({k[1] : k \in keys}) + n,
         \A i \in DOMAIN result.rows : \E j \in Stay(t, input.rows) :
           Reaches(result.rows[i].cells, input.rows[j].cells, keys),
         \A j \in Stay(t, input.rows) : \E i \in DOMAIN result.rows :
           Reaches(result.rows[i].cells, input.rows[j].cells, keys)
  PROVE  Retains(t, input, ai, keys, n)
<1> DEFINE to(i) == [k \in keys |-> CellAt(result.rows[i].cells, k[1])]
           from(j) == [k \in keys |-> CellAt(input.rows[j].cells, k[2])]
<1>1. \A i, j : Reaches(result.rows[i].cells, input.rows[j].cells, keys) => to(i) = from(j)
  BY DEF Reaches
<1> HIDE DEF to, from
<1>2. {to(i) : i \in DOMAIN result.rows} = {from(j) : j \in Stay(t, input.rows)}
  BY <1>1
<1> QED
  BY <1>2 DEF Retains, to, from

\* Keys read from columns of their own names.
LEMMA FirstsAre ==
  ASSUME NEW S
  PROVE  {k[1] : k \in {<<c, c>> : c \in S}} = S
<1> DEFINE K == {<<c, c>> : c \in S}
<1>1. ASSUME NEW c \in S PROVE \E k \in K : k[1] = c
  <2>1. <<c, c>> \in K /\ <<c, c>>[1] = c
    OBVIOUS
  <2> HIDE DEF K
  <2> QED
    BY <2>1
<1>2. ASSUME NEW k \in K PROVE k[1] \in S
  OBVIOUS
<1> HIDE DEF K
<1>3. {k[1] : k \in K} = S
  BY <1>1, <1>2
<1> QED
  BY <1>3 DEF K

LEMMA TupleReaches ==
  ASSUME NEW names, NEW a, NEW b, Tuple(a, names) = Tuple(b, names)
  PROVE  Reaches(a, b, {<<c, c>> : c \in names})
<1> SUFFICES ASSUME NEW c \in names PROVE CellAt(a, c) = CellAt(b, c)
  BY DEF Reaches
<1>1. Tuple(a, names)[c] = CellAt(a, c) /\ Tuple(b, names)[c] = CellAt(b, c)
  BY DEF Tuple
<1> QED
  BY <1>1

LEMMA DerivesRetains ==
  ASSUME NEW t, NEW input, NEW ai, NEW names, NEW n, Derives(t, input, ai, names, n),
         Stay(t, input.rows) = DOMAIN input.rows
  PROVE  Retains(t, input, ai, {<<c, c>> : c \in names}, n)
<1> DEFINE result == Applied(t, input, ai)
           keys == {<<c, c>> : c \in names}
<1>1. {k[1] : k \in keys} = names
  BY FirstsAre
<1>2. \A a, b : Tuple(a, names) = Tuple(b, names) => Reaches(a, b, keys)
  BY TupleReaches
<1> HIDE DEF result, keys
<1>3. Cardinality(result.columns) = Cardinality({k[1] : k \in keys}) + n
  BY <1>1 DEF Derives, result
<1>4. {Tuple(result.rows[i].cells, names) : i \in DOMAIN result.rows}
        = {Tuple(input.rows[j].cells, names) : j \in DOMAIN input.rows}
  BY DEF Derives, Seen, result
<1>5. ASSUME NEW i \in DOMAIN result.rows
      PROVE  \E j \in DOMAIN input.rows : Reaches(result.rows[i].cells, input.rows[j].cells, keys)
  BY <1>2, <1>4
<1>6. ASSUME NEW j \in DOMAIN input.rows
      PROVE  \E i \in DOMAIN result.rows : Reaches(result.rows[i].cells, input.rows[j].cells, keys)
  BY <1>2, <1>4
<1>7. result = Applied(t, input, ai)
  BY DEF result
<1> QED
  BY <1>3, <1>5, <1>6, <1>7, RetainsRows DEF keys

\* Distinct names beside the keys.
LEMMA NamesBeside ==
  ASSUME NEW keys \in SUBSET Text, IsFiniteSet(keys), NEW names \in Seq(Text),
         IsInjective(names), ToSet(names) \intersect keys = {}
  PROVE  /\ keys \union ToSet(names) \in SUBSET Text /\ IsFiniteSet(keys \union ToSet(names))
         /\ Cardinality(keys \union ToSet(names)) = Cardinality(keys) + Len(names)
<1> DEFINE S == ToSet(names)
<1>1. S \subseteq Text /\ IsFiniteSet(S) /\ Cardinality(S) = Len(names)
  BY ToSetIs
<1> HIDE DEF S
<1>2. keys \intersect S = {}
  BY DEF S
<1>3. /\ IsFiniteSet(keys \union S)
      /\ Cardinality(keys \union S) = Cardinality(keys) + Cardinality(S) - Cardinality(keys \intersect S)
  BY <1>1, FS_Union
<1>4. Cardinality(keys) \in Nat /\ Cardinality(S) \in Nat /\ Cardinality({}) = 0
  BY <1>1, FS_CardinalityType, FS_EmptySet
<1>5. Cardinality(keys \union S) = Cardinality(keys) + Len(names)
  <2>1. PICK a \in Nat, b \in Nat : a = Cardinality(keys) /\ b = Cardinality(S) /\ b = Len(names)
    BY <1>1, <1>4
  <2>2. Cardinality(keys \union S) = a + b - 0
    BY <1>2, <1>3, <1>4, <2>1
  <2> QED
    BY <2>1, <2>2
<1> QED
  BY <1>1, <1>3, <1>5 DEF S

\* One row for each key seen, with more cells beside the key.
Keyed(result, rows, by, names, values) ==
  LET keys == FirstSeen([i \in DOMAIN rows |-> Tuple(rows[i].cells, by)])
  IN  /\ values \in [DOMAIN keys -> [names -> Text]]
      /\ result = [k \in DOMAIN keys |->
           [origin |-> 0,
            cells |-> [c \in by \union names |-> IF c \in names THEN values[k][c] ELSE keys[k][c]]]]

LEMMA KeyedIs ==
  ASSUME NEW columns, NEW rows \in Seq(RowOver(columns)), NEW by, NEW names,
         names \intersect by = {}, NEW values, NEW result, Keyed(result, rows, by, names, values)
  PROVE  result \in Seq(RowOver(by \union names)) /\ Seen(result, by) = Seen(rows, by)
<1> DEFINE ks == [i \in DOMAIN rows |-> Tuple(rows[i].cells, by)]
           keys == FirstSeen(ks)
<1>1. PICK N \in Nat : N = Len(rows) /\ DOMAIN rows = 1..N
  BY RowsAre
<1>2. \A i \in DOMAIN rows : Tuple(rows[i].cells, by) \in [by -> Text]
  BY RowsAre, CellAtIs
<1>3. ks \in Seq([by -> Text]) /\ DOMAIN ks = DOMAIN rows
  <2>1. ks \in [1..N -> [by -> Text]]
    BY <1>1, <1>2
  <2> QED
    BY <1>1, <2>1, IsSequence
<1>4. keys \in Seq([by -> Text]) /\ {keys[k] : k \in DOMAIN keys} = {ks[i] : i \in DOMAIN ks}
  <2> HIDE DEF ks
  <2> QED
    BY <1>3, FirstSeenIs
<1>5. Seen(rows, by) = {ks[i] : i \in DOMAIN ks}
  BY DEF Seen
<1>6. /\ values \in [DOMAIN keys -> [names -> Text]]
      /\ result = [k \in DOMAIN keys |->
           [origin |-> 0,
            cells |-> [c \in by \union names |-> IF c \in names THEN values[k][c] ELSE keys[k][c]]]]
  BY DEF Keyed
<1> HIDE DEF ks, keys
<1>7. PICK M \in Nat : DOMAIN keys = 1..M /\ \A k \in 1..M : keys[k] \in [by -> Text]
  BY <1>4
<1>8. ASSUME NEW k \in 1..M
      PROVE  result[k] \in RowOver(by \union names) /\ Tuple(result[k].cells, by) = keys[k]
  <2> DEFINE cells == [c \in by \union names |-> IF c \in names THEN values[k][c] ELSE keys[k][c]]
  <2>1. keys[k] \in [by -> Text] /\ values[k] \in [names -> Text]
    BY <1>6, <1>7
  <2>2. cells \in [by \union names -> Text] /\ \A c \in by : cells[c] = keys[k][c]
    BY <2>1
  <2>3. result[k] = [origin |-> 0, cells |-> cells]
    BY <1>6, <1>7
  <2> HIDE DEF cells
  <2>4. result[k] \in RowOver(by \union names) /\ result[k].cells = cells
    BY <2>2, <2>3 DEF RowOver
  <2>5. \A c \in by : CellAt(cells, c) = keys[k][c]
    BY <2>2, CellAtIs
  <2>6. Tuple(cells, by) = keys[k]
    BY <2>1, <2>5 DEF Tuple
  <2> QED
    BY <2>4, <2>6
<1>9. DOMAIN result = 1..M /\ result \in [1..M -> RowOver(by \union names)]
  <2>1. DOMAIN result = 1..M /\ result = [k \in 1..M |-> result[k]]
    BY <1>6, <1>7
  <2> QED
    BY <1>8, <2>1
<1>10. Seen(result, by) = {keys[k] : k \in DOMAIN keys}
  BY <1>7, <1>8, <1>9 DEF Seen
<1> QED
  BY <1>4, <1>5, <1>9, <1>10, IsSequence

\* One row or more for each row, with the same key.
Spread(spread, rows, columns, keys) ==
  /\ spread \in Seq(Seq(RowOver(columns))) /\ DOMAIN spread = DOMAIN rows
  /\ \A i \in DOMAIN rows :
       /\ DOMAIN spread[i] # {}
       /\ \A m \in DOMAIN spread[i] : Tuple(spread[i][m].cells, keys) = Tuple(rows[i].cells, keys)

LEMMA SpreadIs ==
  ASSUME NEW spread, NEW rows, NEW columns, NEW keys, Spread(spread, rows, columns, keys)
  PROVE  /\ FlattenSeq(spread) \in Seq(RowOver(columns))
         /\ Seen(FlattenSeq(spread), keys) = Seen(rows, keys)
<1> DEFINE u == FlattenSeq(spread)
<1>1. /\ u \in Seq(RowOver(columns))
      /\ \A k \in DOMAIN u : \E i \in DOMAIN spread : \E m \in DOMAIN spread[i] : u[k] = spread[i][m]
      /\ \A i \in DOMAIN spread : \A m \in DOMAIN spread[i] : \E k \in DOMAIN u : u[k] = spread[i][m]
  BY FlattenedIs DEF Spread
<1> HIDE DEF u
<1>2. ASSUME NEW k \in DOMAIN u
      PROVE  \E i \in DOMAIN rows : Tuple(u[k].cells, keys) = Tuple(rows[i].cells, keys)
  <2>1. PICK i \in DOMAIN spread : \E m \in DOMAIN spread[i] : u[k] = spread[i][m]
    BY <1>1
  <2>2. PICK m \in DOMAIN spread[i] : u[k] = spread[i][m]
    BY <2>1
  <2>3. i \in DOMAIN rows
    BY DEF Spread
  <2>4. Tuple(spread[i][m].cells, keys) = Tuple(rows[i].cells, keys)
    BY <2>3 DEF Spread
  <2> QED
    BY <2>2, <2>3, <2>4
<1>3. ASSUME NEW i \in DOMAIN rows
      PROVE  \E k \in DOMAIN u : Tuple(u[k].cells, keys) = Tuple(rows[i].cells, keys)
  <2>1. PICK m \in DOMAIN spread[i] : Tuple(spread[i][m].cells, keys) = Tuple(rows[i].cells, keys)
    BY DEF Spread
  <2>2. i \in DOMAIN spread
    BY DEF Spread
  <2>3. PICK k \in DOMAIN u : u[k] = spread[i][m]
    BY <1>1, <2>2
  <2> QED
    BY <2>1, <2>3
<1>4. Seen(u, keys) = Seen(rows, keys)
  BY <1>2, <1>3 DEF Seen
<1> QED
  BY <1>1, <1>4 DEF u


\* The greatest of some places.
LEMMA GreatestOf ==
  ASSUME NEW N \in Nat, NEW S \in SUBSET (1..N), S # {}
  PROVE  Max(S) \in S
<1> DEFINE T == {N - n : n \in S}
<1>0. PICK a \in S : TRUE
  OBVIOUS
<1>1. T \in SUBSET Nat /\ N - a \in T
  <2>1. \A k \in 1..N : N - k \in Nat
    OBVIOUS
  <2> QED
    BY <2>1
<1> HIDE DEF T
<1>2. PICK m \in T : \A k \in T : m <= k
  BY <1>1, LeastOf
<1>3. PICK x \in S : m = N - x
  BY DEF T
<1>4. ASSUME NEW y \in S PROVE x >= y
  <2>1. m <= N - y
    BY <1>2 DEF T
  <2> QED
    BY <1>3, <2>1
<1> QED
  BY <1>4 DEF Max

LEMMA KeyNamesAre ==
  ASSUME NEW t, IsStep(t), t.kind = "group"
  PROVE  /\ KeyNames(t) \in Seq(Text) /\ DOMAIN KeyNames(t) = DOMAIN t.by
         /\ ToSet(KeyNames(t)) \in SUBSET Text /\ IsFiniteSet(ToSet(KeyNames(t)))
         /\ \E N \in Nat : DOMAIN t.by = 1..N
<1> DEFINE GroupKeys == [reads : Text, computed : BOOLEAN]
<1>0. t.by \in Seq(GroupKeys) /\ \A g \in GroupKeys : g.reads \in Text
  BY DEF IsStep
<1> HIDE DEF GroupKeys
<1>1. PICK N \in Nat : /\ DOMAIN t.by = 1..N
                       /\ \A k \in 1..N : t.by[k].reads \in Text
  BY <1>0
<1>2. \A k \in 1..N : Append(Key, k) \in Text
  BY DEF Key, Text
<1>3. KeyNames(t) \in [1..N -> Text]
  BY <1>1, <1>2 DEF KeyNames
<1>4. KeyNames(t) \in Seq(Text) /\ DOMAIN KeyNames(t) = DOMAIN t.by
  BY <1>1, <1>3, IsSequence
<1> HIDE DEF KeyNames
<1>5. ToSet(KeyNames(t)) \in SUBSET Text /\ IsFiniteSet(ToSet(KeyNames(t)))
  BY <1>4, ToSetIs
<1> QED
  BY <1>1, <1>4, <1>5

LEMMA GroupMakes ==
  ASSUME NEW t, IsStep(t), t.kind = "group", NEW input, IsTable(input), NEW ai
  PROVE  /\ Makes(t, input, ai, Grouped(t))
         /\ ~KeysClash(t) => Retains(t, input, ai, Keys(t, input), Len(t.agg))
<1> DEFINE rows == input.rows
           by == t.by
           asked == ToSet(KeyNames(t))
           names == ToSet(AggNames(t))
           columns == asked \union names
           key(i) == [k \in DOMAIN by |-> CellAt(rows[i].cells, by[k].reads)]
           ks == [i \in DOMAIN rows |-> key(i)]
           keys == FirstSeen(ks)
           size(k) == <<Cardinality({i \in DOMAIN rows : key(i) = keys[k]})>>
           last(c) == Max({n \in DOMAIN by : KeyNames(t)[n] = c})
           cells(k) == [c \in columns |-> IF c \in names THEN size(k) ELSE keys[k][last(c)]]
           result == Group(t, rows)
<1>1. /\ KeyNames(t) \in Seq(Text) /\ DOMAIN KeyNames(t) = DOMAIN by
      /\ asked \in SUBSET Text /\ IsFiniteSet(asked)
      /\ t.agg \in Seq(Text)
  BY KeyNamesAre DEF IsStep
<1>2. /\ AggNames(t) \in Seq(Text) /\ Len(AggNames(t)) = Len(t.agg)
      /\ IsInjective(AggNames(t)) /\ names \intersect asked = {}
  BY <1>1, ClaimedIs DEF AggNames
<1>3. /\ columns \in SUBSET Text /\ IsFiniteSet(columns)
      /\ Cardinality(columns) = Cardinality(asked) + Len(t.agg)
  BY <1>1, <1>2, NamesBeside
<1>4. Applied(t, input, ai) = [columns |-> columns, rows |-> result]
  BY DEF Applied
<1>5. result = [k \in DOMAIN keys |-> [origin |-> 0, cells |-> cells(k)]]
  BY DEF Group
<1> HIDE DEF result
<1>6. PICK B \in Nat : DOMAIN by = 1..B
  BY KeyNamesAre
<1>7. PICK N \in Nat : N = Len(rows) /\ DOMAIN rows = 1..N
  BY TableHas, RowsAre
<1> DEFINE Tuples == [1..B -> Text]
<1>8. \A i \in DOMAIN rows : key(i) \in Tuples
  <2>1. \A i \in DOMAIN rows : \A c : CellAt(rows[i].cells, c) \in Text
    BY TableHas, RowsAre, CellAtIs
  <2> HIDE DEF rows
  <2> QED
    BY <1>6, <2>1
<1> HIDE DEF asked, names, rows, by
<1>9. ks \in Seq(Tuples) /\ DOMAIN ks = 1..N
  <2>1. ks \in [1..N -> Tuples]
    BY <1>7, <1>8
  <2> HIDE DEF ks
  <2> QED
    BY <2>1, IsSequence
<1>10. /\ keys \in Seq(Tuples)
       /\ {keys[k] : k \in DOMAIN keys} = {ks[i] : i \in DOMAIN ks}
  <2> HIDE DEF ks, Tuples
  <2> QED
    BY <1>9, FirstSeenIs
<1>11. PICK M \in Nat : DOMAIN keys = 1..M /\ \A k \in 1..M : keys[k] \in Tuples
  <2> HIDE DEF keys, Tuples
  <2> QED
    BY <1>10
<1>12. \A k : size(k) \in Text
  <2> SUFFICES ASSUME NEW k PROVE size(k) \in Text
    OBVIOUS
  <2> DEFINE S == {i \in DOMAIN rows : key(i) = keys[k]}
  <2>1. S \in SUBSET DOMAIN rows /\ IsFiniteSet(DOMAIN rows)
    BY <1>7, FS_Interval
  <2> HIDE DEF S
  <2>2. Cardinality(S) \in Nat
    BY <2>1, FS_Subset, FS_CardinalityType
  <2>3. <<Cardinality(S)>> \in Text
    BY <2>2 DEF Text
  <2> QED
    BY <2>3 DEF S
<1> HIDE DEF size, keys
<1>13. \A c \in asked : last(c) \in 1..B /\ KeyNames(t)[last(c)] = c
  <2> SUFFICES ASSUME NEW c \in asked PROVE last(c) \in 1..B /\ KeyNames(t)[last(c)] = c
    OBVIOUS
  <2> DEFINE S == {n \in DOMAIN by : KeyNames(t)[n] = c}
  <2>1. S # {} /\ S \in SUBSET (1..B)
    BY <1>1, <1>6 DEF asked, ToSet
  <2> HIDE DEF S
  <2>3. Max(S) \in S
    BY <2>1, GreatestOf
  <2> QED
    BY <2>1, <2>3 DEF S
<1> HIDE DEF last
<1>14. \A k \in 1..M : cells(k) \in [columns -> Text]
  <2> SUFFICES ASSUME NEW k \in 1..M, NEW c \in columns
               PROVE  (IF c \in names THEN size(k) ELSE keys[k][last(c)]) \in Text
    OBVIOUS
  <2>1. keys[k] \in [1..B -> Text]
    BY <1>11
  <2> QED
    BY <1>12, <1>13, <2>1
<1> HIDE DEF columns
<1>15. \A k \in 1..M : cells(k) \in [columns -> Text] /\ result[k] = [origin |-> 0, cells |-> cells(k)]
  BY <1>5, <1>11, <1>14
<1>16. \A k \in 1..M : \A c \in asked : cells(k)[c] = keys[k][last(c)]
  BY <1>2 DEF columns
<1> HIDE DEF cells
<1>17. \A k \in 1..M : result[k] \in RowOver(columns) /\ result[k].cells = cells(k)
  <2> SUFFICES ASSUME NEW k \in 1..M PROVE result[k] \in RowOver(columns) /\ result[k].cells = cells(k)
    OBVIOUS
  <2>1. PICK x \in [columns -> Text] : x = cells(k) /\ result[k] = [origin |-> 0, cells |-> x]
    BY <1>15
  <2> QED
    BY <2>1 DEF RowOver
<1>18. DOMAIN result = 1..M /\ result \in Seq(RowOver(columns))
  <2>1. DOMAIN result = 1..M
    BY <1>5, <1>11
  <2>2. result = [k \in 1..M |-> result[k]]
    BY <1>5, <2>1
  <2>3. result \in [1..M -> RowOver(columns)]
    BY <1>17, <2>2
  <2> QED
    BY <2>1, <2>3, IsSequence
<1>19. Makes(t, input, ai, columns)
  BY <1>3, <1>4, <1>18, MakesRows
<1>20. ASSUME ~KeysClash(t)
       PROVE  Retains(t, input, ai, Keys(t, input), Len(t.agg))
  <2> DEFINE pairs == {<<KeyNames(t)[n], by[n].reads>> : n \in 1..B}
             after == Applied(t, input, ai)
  <2>1. Keys(t, input) = pairs
    BY <1>6 DEF Keys, by
  <2>2. {p[1] : p \in pairs} = asked
    <3>1. ASSUME NEW n \in 1..B PROVE \E p \in pairs : p[1] = KeyNames(t)[n]
      <4> DEFINE p == <<KeyNames(t)[n], by[n].reads>>
      <4>1. p \in pairs /\ p[1] = KeyNames(t)[n]
        OBVIOUS
      <4> HIDE DEF pairs, p
      <4> QED
        BY <4>1
    <3>2. asked = {KeyNames(t)[n] : n \in 1..B}
      BY <1>1, <1>6 DEF asked, ToSet
    <3>3. ASSUME NEW p \in pairs PROVE \E n \in 1..B : p[1] = KeyNames(t)[n]
      OBVIOUS
    <3> HIDE DEF pairs
    <3> QED
      BY <3>1, <3>2, <3>3
  <2>3. Stay(t, input.rows) = 1..N
    BY <1>7 DEF Stay, rows
  <2>4. \A n, m \in 1..B : KeyNames(t)[n] = KeyNames(t)[m] => by[n] = by[m]
    BY <1>6, <1>20 DEF KeysClash, by
  <2>5. ASSUME NEW k \in 1..M, NEW j \in 1..N, keys[k] = key(j)
        PROVE  Reaches(cells(k), rows[j].cells, pairs)
    <3> SUFFICES ASSUME NEW n \in 1..B
                 PROVE  CellAt(cells(k), KeyNames(t)[n]) = CellAt(rows[j].cells, by[n].reads)
      BY DEF Reaches
    <3> DEFINE c == KeyNames(t)[n]
    <3>1. c \in asked
      BY <1>1, <1>6 DEF asked, ToSet
    <3>2. last(c) \in 1..B /\ by[last(c)] = by[n]
      BY <1>13, <2>4, <3>1
    <3> HIDE DEF c
    <3>3. CellAt(cells(k), c) = keys[k][last(c)]
      BY <1>15, <1>16, <3>1 DEF CellAt, columns
    <3>4. key(j)[last(c)] = CellAt(rows[j].cells, by[last(c)].reads)
      BY <1>6, <3>2
    <3> QED
      BY <2>5, <3>2, <3>3, <3>4 DEF c
  <2>0. \A j \in 1..N : ks[j] = key(j)
    BY <1>7
  <2> HIDE DEF pairs, ks, key
  <2>6. ASSUME NEW k \in 1..M PROVE \E j \in 1..N : keys[k] = key(j)
    BY <1>9, <1>10, <1>11, <2>0
  <2>7. ASSUME NEW j \in 1..N PROVE \E k \in 1..M : keys[k] = key(j)
    BY <1>9, <1>10, <1>11, <2>0
  <2>8. after.columns = columns /\ after.rows = result /\ after = Applied(t, input, ai)
    BY <1>4
  <2>9. Cardinality(after.columns) = Cardinality({p[1] : p \in pairs}) + Len(t.agg)
    BY <1>3, <2>2, <2>8
  <2> HIDE DEF after
  <2>10. ASSUME NEW i \in DOMAIN after.rows
         PROVE  \E j \in Stay(t, input.rows) : Reaches(after.rows[i].cells, input.rows[j].cells, pairs)
    <3>1. i \in 1..M /\ after.rows[i].cells = cells(i)
      BY <1>17, <1>18, <2>8
    <3>2. PICK j \in 1..N : keys[i] = key(j)
      BY <2>6, <3>1
    <3>3. Reaches(cells(i), rows[j].cells, pairs)
      BY <2>5, <3>1, <3>2
    <3> QED
      BY <2>3, <3>1, <3>3 DEF rows
  <2>11. ASSUME NEW j \in Stay(t, input.rows)
         PROVE  \E i \in DOMAIN after.rows : Reaches(after.rows[i].cells, input.rows[j].cells, pairs)
    <3>1. j \in 1..N
      BY <2>3
    <3>2. PICK k \in 1..M : keys[k] = key(j)
      BY <2>7, <3>1
    <3>3. Reaches(cells(k), rows[j].cells, pairs)
      BY <2>5, <3>1, <3>2
    <3>4. k \in DOMAIN after.rows /\ after.rows[k].cells = cells(k)
      BY <1>17, <1>18, <2>8
    <3> QED
      BY <3>3, <3>4 DEF rows
  <2> QED
    BY <2>1, <2>8, <2>9, <2>10, <2>11, RetainsRows
<1> QED
  BY <1>19, <1>20 DEF Grouped, columns, asked, names

LEMMA OnValuesIs ==
  ASSUME NEW t, NEW columns, NEW rows \in Seq(RowOver(columns))
  PROVE  OnValues(t, rows) \in Seq(Text)
<1> DEFINE cells == [i \in DOMAIN rows |-> CellAt(rows[i].cells, t.on)]
<1>1. PICK N \in Nat : N = Len(rows) /\ DOMAIN rows = 1..N
  BY RowsAre
<1>2. cells \in [1..N -> Text]
  BY <1>1, ColumnIs DEF TextsFor
<1>3. OnValues(t, rows) = FirstSeen(cells)
  BY DEF OnValues
<1> HIDE DEF cells
<1> QED
  BY <1>2, <1>3, IsSequence, FirstSeenIs

LEMMA PivotMakes ==
  ASSUME NEW t, IsStep(t), t.kind = "pivot", NEW input, IsTable(input), NEW ai
  PROVE  /\ IsTable(Applied(t, input, ai))
         /\ Derives(t, input, ai, t.index, Len(OnValues(t, input.rows)))
<1> DEFINE rows == input.rows
           key(i) == Tuple(rows[i].cells, t.index)
           keys == FirstSeen([i \in DOMAIN rows |-> key(i)])
           on == OnValues(t, rows)
           names == PivotNames(t, rows)
           S == ToSet(names)
           bucket(k, v) == {i \in DOMAIN rows : key(i) = keys[k] /\ CellAt(rows[i].cells, t.on) = on[v]}
           cell(k, v) == IF bucket(k, v) = {} THEN Missing
                         ELSE CellAt(rows[Min(bucket(k, v))].cells, t.values)
           last(c) == Max({v \in DOMAIN names : names[v] = c})
           values == [k \in DOMAIN keys |-> [c \in S |-> cell(k, last(c))]]
           result == Pivot(t, rows)
<1>1. t.index \in SUBSET Text /\ IsFiniteSet(t.index) /\ on \in Seq(Text)
  BY OnValuesIs, TableHas DEF IsStep
<1>2. /\ names \in Seq(Text) /\ Len(names) = Len(on)
      /\ IsInjective(names) /\ S \intersect t.index = {}
  BY <1>1, ClaimedIs DEF PivotNames
<1>3. /\ t.index \union S \in SUBSET Text /\ IsFiniteSet(t.index \union S)
      /\ Cardinality(t.index \union S) = Cardinality(t.index) + Len(on)
  <2> HIDE DEF names, on
  <2> QED
    BY <1>1, <1>2, NamesBeside
<1>4. Applied(t, input, ai) = [columns |-> t.index \union S, rows |-> result]
  BY DEF Applied
<1>5. ASSUME NEW k, NEW v PROVE cell(k, v) \in Text
  <2>1. CASE bucket(k, v) = {}
    BY <2>1 DEF Missing, Text
  <2>2. CASE bucket(k, v) # {}
    <3>1. bucket(k, v) \in SUBSET DOMAIN rows /\ DOMAIN rows = 1..Len(rows) /\ Len(rows) \in Nat
      BY TableHas, RowsAre
    <3> HIDE DEF bucket
    <3>2. bucket(k, v) \in SUBSET Nat
      BY <3>1
    <3>3. PICK m \in bucket(k, v) : \A n \in bucket(k, v) : m <= n
      BY <2>2, <3>2, LeastOf
    <3>4. Min(bucket(k, v)) \in DOMAIN rows
      BY <3>1, <3>3 DEF Min
    <3> HIDE DEF rows
    <3>5. CellAt(rows[Min(bucket(k, v))].cells, t.values) \in Text
      BY <3>4, TableHas, RowsAre, CellAtIs DEF rows
    <3> QED
      BY <2>2, <3>5
  <2> QED
    BY <2>1, <2>2
<1> HIDE DEF S
<1>6. Keyed(result, rows, t.index, S, values)
  <2>3. result = [k \in DOMAIN keys |->
          [origin |-> 0,
           cells |-> [c \in t.index \union S |-> IF c \in S THEN cell(k, last(c)) ELSE keys[k][c]]]]
    BY DEF Pivot, S
  <2> HIDE DEF cell, result, keys, last
  <2>1. values \in [DOMAIN keys -> [S -> Text]]
    BY <1>5
  <2>2. ASSUME NEW k \in DOMAIN keys, NEW c \in S PROVE values[k][c] = cell(k, last(c))
    OBVIOUS
  <2> HIDE DEF values
  <2>4. result = [k \in DOMAIN keys |->
          [origin |-> 0,
           cells |-> [c \in t.index \union S |-> IF c \in S THEN values[k][c] ELSE keys[k][c]]]]
    BY <2>2, <2>3
  <2> QED
    BY <2>1, <2>4 DEF Keyed, keys
<1> HIDE DEF result, values, on
<1>7. result \in Seq(RowOver(t.index \union S)) /\ Seen(result, t.index) = Seen(rows, t.index)
  <2>1. S \intersect t.index = {} /\ rows \in Seq(RowOver(input.columns))
    BY <1>2, TableHas
  <2> HIDE DEF rows, names
  <2> QED
    BY <1>6, <2>1, KeyedIs
<1>8. Makes(t, input, ai, t.index \union S)
  BY <1>3, <1>4, <1>7, MakesRows
<1>9. Derives(t, input, ai, t.index, Len(on))
  BY <1>3, <1>4, <1>7, <1>8 DEF Derives, Makes
<1> QED
  BY <1>8, <1>9 DEF Makes, on


\* The names an unpivot gives are new, and two.
LEMMA UnpivotNames ==
  ASSUME NEW t, IsStep(t), t.kind = "unpivot"
  PROVE  LET columns == t.id \union {NamesTo(t), ValuesTo(t)}
         IN  /\ columns \in SUBSET Text /\ IsFiniteSet(columns)
             /\ NamesTo(t) \notin t.id /\ ValuesTo(t) \notin t.id /\ NamesTo(t) # ValuesTo(t)
             /\ Cardinality(columns) = Cardinality(t.id) + 2
<1>1. t.id \subseteq Text /\ IsFiniteSet(t.id) /\ Name \in Text /\ Value \in Text
  BY DEF IsStep, Name, Value, Text
<1> DEFINE a == NamesTo(t)
           b == ValuesTo(t)
<1>2. a \in Text /\ a \notin t.id
  BY <1>1, FreeColumnNameIs DEF NamesTo
<1>3. /\ IsFiniteSet(t.id \union {a})
      /\ Cardinality(t.id \union {a}) = Cardinality(t.id) + 1
  BY <1>1, <1>2, FS_AddElement
<1>4. b \in Text /\ b \notin t.id \union {a}
  BY <1>1, <1>3, FreeColumnNameIs DEF ValuesTo
<1>5. /\ IsFiniteSet((t.id \union {a}) \union {b})
      /\ Cardinality((t.id \union {a}) \union {b}) = Cardinality(t.id \union {a}) + 1
  BY <1>3, <1>4, FS_AddElement
<1>6. (t.id \union {a}) \union {b} = t.id \union {a, b} /\ Cardinality(t.id) \in Nat
  BY <1>1, FS_CardinalityType
<1> HIDE DEF a, b
<1>7. Cardinality(t.id \union {a, b}) = Cardinality(t.id) + 2
  BY <1>3, <1>5, <1>6
<1>8. t.id \union {a, b} \in SUBSET Text /\ IsFiniteSet(t.id \union {a, b})
  BY <1>1, <1>2, <1>4, <1>5, <1>6
<1> QED
  BY <1>2, <1>4, <1>7, <1>8 DEF a, b

LEMMA UnpivotMakes ==
  ASSUME NEW t, IsStep(t), t.kind = "unpivot", NEW input, IsTable(input), NEW ai
  PROVE  /\ Makes(t, input, ai, t.id \union {NamesTo(t), ValuesTo(t)})
         /\ Derives(t, input, ai, t.id, 2)
<1> DEFINE rows == input.rows
           a == NamesTo(t)
           b == ValuesTo(t)
           columns == t.id \union {a, b}
           cells(i, m) == [c \in t.id \union {a, b} |->
             CASE c = b -> CellAt(rows[i].cells, t.measures[m])
               [] c = a /\ c # b -> t.measures[m]
               [] OTHER -> CellAt(rows[i].cells, c)]
           row(i, m) == [origin |-> 0, cells |-> cells(i, m)]
           spread == [i \in DOMAIN rows |-> [m \in DOMAIN t.measures |-> row(i, m)]]
<1>1. /\ columns \in SUBSET Text /\ IsFiniteSet(columns)
      /\ a \notin t.id /\ b \notin t.id
      /\ Cardinality(columns) = Cardinality(t.id) + 2
  BY UnpivotNames
<1>2. PICK M \in Nat : /\ M = Len(t.measures) /\ M # 0 /\ DOMAIN t.measures = 1..M
                       /\ \A m \in 1..M : t.measures[m] \in Text
  BY DEF IsStep
<1>3. PICK N \in Nat : N = Len(rows) /\ DOMAIN rows = 1..N
  BY TableHas, RowsAre
<1>4. Applied(t, input, ai) = [columns |-> columns, rows |-> FlattenSeq(spread)]
  BY DEF Applied, Unpivot
<1> HIDE DEF a, b
<1>5. ASSUME NEW i \in DOMAIN rows, NEW m \in 1..M
      PROVE  row(i, m) \in RowOver(columns) /\ Tuple(row(i, m).cells, t.id) = Tuple(rows[i].cells, t.id)
  <2>1. \A c : CellAt(rows[i].cells, c) \in Text
    BY TableHas, RowsAre, CellAtIs
  <2>2. cells(i, m) \in [columns -> Text]
    BY <1>2, <2>1
  <2>3. \A c \in t.id : cells(i, m)[c] = CellAt(rows[i].cells, c)
    BY <1>1
  <2> HIDE DEF cells
  <2>4. row(i, m) \in RowOver(columns) /\ row(i, m).cells = cells(i, m)
    BY <2>2 DEF RowOver
  <2>5. \A c \in t.id : CellAt(cells(i, m), c) = CellAt(rows[i].cells, c)
    BY <2>2, <2>3, CellAtIs
  <2> HIDE DEF row
  <2> QED
    BY <2>4, <2>5 DEF Tuple
<1> HIDE DEF row
<1>6. Spread(spread, rows, columns, t.id)
  <2>1. ASSUME NEW i \in DOMAIN rows
        PROVE  /\ spread[i] \in Seq(RowOver(columns)) /\ DOMAIN spread[i] = 1..M
               /\ \A m \in 1..M : spread[i][m] = row(i, m)
    <3>1. spread[i] = [m \in 1..M |-> row(i, m)]
      BY <1>2
    <3>2. spread[i] \in [1..M -> RowOver(columns)]
      BY <1>5, <3>1
    <3> QED
      BY <3>1, <3>2, IsSequence
  <2>2. DOMAIN spread = DOMAIN rows /\ spread = [i \in DOMAIN rows |-> spread[i]]
    OBVIOUS
  <2> HIDE DEF spread
  <2>3. spread \in [1..N -> Seq(RowOver(columns))]
    BY <1>3, <2>1, <2>2
  <2>4. spread \in Seq(Seq(RowOver(columns)))
    BY <2>3, IsSequence
  <2>5. \A i \in DOMAIN rows :
          /\ DOMAIN spread[i] # {}
          /\ \A m \in DOMAIN spread[i] : Tuple(spread[i][m].cells, t.id) = Tuple(rows[i].cells, t.id)
    BY <1>2, <1>5, <2>1
  <2> QED
    BY <2>2, <2>4, <2>5 DEF Spread
<1> HIDE DEF spread, columns
<1>7. FlattenSeq(spread) \in Seq(RowOver(columns)) /\ Seen(FlattenSeq(spread), t.id) = Seen(rows, t.id)
  BY <1>6, SpreadIs
<1>8. Makes(t, input, ai, columns)
  BY <1>1, <1>4, <1>7, MakesRows
<1>9. Derives(t, input, ai, t.id, 2)
  BY <1>1, <1>4, <1>7, <1>8 DEF Derives, Makes
<1> QED
  BY <1>8, <1>9 DEF columns, a, b

LEMMA JoinMakes ==
  ASSUME NEW t, IsStep(t), t.kind = "join", NEW input, IsTable(input), NEW ai
  PROVE  /\ IsTable(Applied(t, input, ai))
         /\ Retains(t, input, ai, Keys(t, input), Len(t.with.columns))
<1> DEFINE rows == input.rows
           old == input.columns
           names == RightNames(t, old)
           S == ToSet(names)
           columns == old \union S
           right(m, c) == CellAt(m, t.with.columns[Max({n \in DOMAIN names : names[n] = c})])
           cells(row, m) == [c \in old \union S |-> IF c \in S THEN right(m, c) ELSE row.cells[c]]
           merged(row, m) == [row EXCEPT !.cells = cells(row, m)]
           found(row) == Picked(t.with.rows, Matches(t, row))
           joined(row) ==
             IF Matches(t, row) # {} THEN [m \in DOMAIN found(row) |-> merged(row, found(row)[m])]
             ELSE IF t.inner THEN <<>> ELSE <<merged(row, [c \in {} |-> Missing])>>
           Kept(row) == t.inner => Matches(t, row) # {}
           spread == [i \in DOMAIN rows |-> joined(rows[i])]
           theirs == [ToSet(t.with.columns) -> Text]
<1>0. /\ t.with.columns \in Seq(Text) /\ IsInjective(t.with.columns)
      /\ t.with.rows \in Seq(theirs) /\ old \in SUBSET Text /\ IsFiniteSet(old)
  BY TableHas DEF IsStep
<1>1. names \in Seq(Text) /\ Len(names) = Len(t.with.columns) /\ IsInjective(names) /\ S \intersect old = {}
  BY <1>0, RightNamesIs
<1>2. /\ columns \in SUBSET Text /\ IsFiniteSet(columns)
      /\ Cardinality(columns) = Cardinality(old) + Len(t.with.columns)
  <2> HIDE DEF names, old
  <2> QED
    BY <1>0, <1>1, NamesBeside
<1>3. PICK N \in Nat : N = Len(rows) /\ DOMAIN rows = 1..N
  BY TableHas, RowsAre
<1>4. Applied(t, input, ai) = [columns |-> columns, rows |-> FlattenSeq(spread)]
  BY DEF Applied, Join
<1> HIDE DEF S
<1>5. ASSUME NEW row \in RowOver(old), NEW some, NEW m \in [some -> Text]
      PROVE  merged(row, m) \in RowOver(columns) /\ Tuple(merged(row, m).cells, old) = Tuple(row.cells, old)
  <2>1. row.cells \in [old -> Text]
    BY DEF RowOver
  <2>2. \A c : right(m, c) \in Text
    BY CellAtIs
  <2> HIDE DEF right, old
  <2>3. cells(row, m) \in [columns -> Text]
    BY <2>1, <2>2
  <2>4. \A c \in old : cells(row, m)[c] = row.cells[c]
    BY <1>1
  <2> HIDE DEF cells
  <2>5. merged(row, m) \in RowOver(columns) /\ merged(row, m).cells = cells(row, m)
    BY <2>3, CellsPut
  <2>6. \A c \in old : CellAt(cells(row, m), c) = cells(row, m)[c] /\ CellAt(row.cells, c) = row.cells[c]
    BY <2>1, <2>3, CellAtIs
  <2> HIDE DEF merged
  <2> QED
    BY <2>4, <2>5, <2>6 DEF Tuple
<1> HIDE DEF merged
<1>6. ASSUME NEW row \in RowOver(old)
      PROVE  /\ joined(row) \in Seq(RowOver(columns)) /\ (DOMAIN joined(row) # {} <=> Kept(row))
             /\ \A m \in DOMAIN joined(row) : Tuple(joined(row)[m].cells, old) = Tuple(row.cells, old)
  <2>1. CASE Matches(t, row) = {} /\ ~t.inner
    <3> DEFINE x == merged(row, [c \in {} |-> Missing])
    <3>1. [c \in {} |-> Missing] \in [{} -> Text]
      OBVIOUS
    <3>2. x \in RowOver(columns) /\ Tuple(x.cells, old) = Tuple(row.cells, old)
      BY <1>5, <3>1
    <3>3. joined(row) = <<x>>
      BY <2>1
    <3> HIDE DEF x, joined, columns
    <3> QED
      BY <2>1, <3>2, <3>3
  <2>2. CASE Matches(t, row) = {} /\ t.inner
    <3>1. joined(row) = <<>>
      BY <2>2
    <3> HIDE DEF joined, columns
    <3> QED
      BY <2>2, <3>1
  <2>3. CASE Matches(t, row) # {}
    <3> DEFINE u == found(row)
               K == Cardinality(Matches(t, row))
    <3>1. Matches(t, row) \in SUBSET DOMAIN t.with.rows
      BY DEF Matches
    <3> HIDE DEF theirs
    <3>2. u \in Seq(theirs) /\ Len(u) = K
      BY <1>0, <3>1, PickedIs DEF Takes
    <3>3. K \in Nat /\ DOMAIN u = 1..K /\ \A m \in 1..K : u[m] \in theirs
      BY <3>2
    <3>4. joined(row) = [m \in 1..K |-> merged(row, u[m])]
      BY <2>3, <3>3
    <3>5. K # 0
      <4>1. IsFiniteSet(Matches(t, row))
        BY <1>0, <3>1, PickedIs
      <4> QED
        BY <2>3, <4>1, FS_EmptySet
    <3> HIDE DEF K
    <3>6. ASSUME NEW m \in 1..K
          PROVE  merged(row, u[m]) \in RowOver(columns) /\ Tuple(merged(row, u[m]).cells, old) = Tuple(row.cells, old)
      BY <1>5, <3>3 DEF theirs
    <3> HIDE DEF u, joined, columns
    <3>7. joined(row) \in [1..K -> RowOver(columns)] /\ DOMAIN joined(row) = 1..K
      BY <3>4, <3>6
    <3>8. joined(row) \in Seq(RowOver(columns))
      BY <3>3, <3>7, IsSequence
    <3>9. \A m \in 1..K : joined(row)[m] = merged(row, u[m])
      BY <3>4
    <3>10. 1 \in 1..K
      BY <3>3, <3>5
    <3>11. DOMAIN joined(row) # {}
      BY <3>7, <3>10
    <3>12. \A m \in 1..K : Tuple(joined(row)[m].cells, old) = Tuple(row.cells, old)
      BY <3>6, <3>9
    <3> QED
      BY <2>3, <3>7, <3>8, <3>11, <3>12
  <2> QED
    BY <1>0, <2>1, <2>2, <2>3
<1> HIDE DEF joined, columns
<1>7. /\ spread \in Seq(Seq(RowOver(columns))) /\ DOMAIN spread = DOMAIN rows
      /\ \A i \in DOMAIN rows :
           /\ DOMAIN spread[i] # {} <=> Kept(rows[i])
           /\ \A m \in DOMAIN spread[i] : Tuple(spread[i][m].cells, old) = Tuple(rows[i].cells, old)
  <2>1. \A i \in DOMAIN rows : rows[i] \in RowOver(old) /\ spread[i] = joined(rows[i])
    BY TableHas, RowsAre
  <2>2. DOMAIN spread = DOMAIN rows /\ spread = [i \in DOMAIN rows |-> spread[i]]
    OBVIOUS
  <2> HIDE DEF spread, rows, old, Kept
  <2>3. spread \in [1..N -> Seq(RowOver(columns))]
    BY <1>3, <1>6, <2>1, <2>2
  <2>4. spread \in Seq(Seq(RowOver(columns)))
    BY <2>3, IsSequence
  <2> QED
    BY <1>6, <2>1, <2>2, <2>4
<1> HIDE DEF spread
<1> DEFINE u == FlattenSeq(spread)
<1>8. /\ u \in Seq(RowOver(columns))
      /\ \A k \in DOMAIN u : \E i \in DOMAIN spread : \E m \in DOMAIN spread[i] : u[k] = spread[i][m]
      /\ \A i \in DOMAIN spread : \A m \in DOMAIN spread[i] : \E k \in DOMAIN u : u[k] = spread[i][m]
  BY <1>7, FlattenedIs
<1> HIDE DEF u
<1>9. Makes(t, input, ai, columns)
  BY <1>2, <1>4, <1>8, MakesRows DEF u
<1>10. Retains(t, input, ai, Keys(t, input), Len(t.with.columns))
  <2> DEFINE keys == {<<c, c>> : c \in old}
             after == Applied(t, input, ai)
  <2>1. Keys(t, input) = keys
    BY DEF Keys
  <2>2. {k[1] : k \in keys} = old
    BY FirstsAre
  <2>3. ASSUME NEW a, NEW b, Tuple(a, old) = Tuple(b, old) PROVE Reaches(a, b, keys)
    BY <2>3, TupleReaches
  <2>4. Stay(t, input.rows) = {i \in DOMAIN rows : Kept(rows[i])}
    BY DEF Stay
  <2>5. after.columns = columns /\ after.rows = u /\ after = Applied(t, input, ai)
    BY <1>4 DEF u
  <2> HIDE DEF after, keys, Kept, old
  <2>6. Cardinality(after.columns) = Cardinality({k[1] : k \in keys}) + Len(t.with.columns)
    BY <1>2, <2>2, <2>5
  <2>7. ASSUME NEW k \in DOMAIN after.rows
        PROVE  \E j \in Stay(t, input.rows) : Reaches(after.rows[k].cells, input.rows[j].cells, keys)
    <3>1. PICK i \in DOMAIN spread : \E m \in DOMAIN spread[i] : u[k] = spread[i][m]
      BY <1>8, <2>5
    <3>2. PICK m \in DOMAIN spread[i] : u[k] = spread[i][m]
      BY <3>1
    <3>3. i \in DOMAIN rows /\ Kept(rows[i]) /\ Tuple(u[k].cells, old) = Tuple(rows[i].cells, old)
      BY <1>7, <3>2
    <3> QED
      BY <2>3, <2>4, <2>5, <3>3
  <2>8. ASSUME NEW j \in Stay(t, input.rows)
        PROVE  \E k \in DOMAIN after.rows : Reaches(after.rows[k].cells, input.rows[j].cells, keys)
    <3>1. j \in DOMAIN rows /\ j \in DOMAIN spread /\ DOMAIN spread[j] # {}
      BY <1>7, <2>4
    <3>2. PICK m \in DOMAIN spread[j] : TRUE
      BY <3>1
    <3>3. PICK k \in DOMAIN u : u[k] = spread[j][m]
      BY <1>8, <3>1
    <3>4. Tuple(u[k].cells, old) = Tuple(rows[j].cells, old)
      BY <1>7, <3>1, <3>3
    <3> QED
      BY <2>3, <2>5, <3>4
  <2> QED
    BY <2>1, <2>5, <2>6, <2>7, <2>8, RetainsRows
<1> QED
  BY <1>9, <1>10 DEF Makes


------------------------------------------------------------------------------
(* Plans.                                                                  *)

\* What the walk has is at least what the table has, as far as it can tell.
Covers(walk, input) == walk.unknowable \/ input.columns \subseteq walk.available

\* The walk's account of a plan, without its verdict.
IsWalk(walk) ==
  /\ walk = [available |-> walk.available, unknowable |-> walk.unknowable, refused |-> walk.refused]
  /\ walk.unknowable \in BOOLEAN /\ walk.refused \in BOOLEAN

LEMMA StepMakes ==
  ASSUME NEW t, IsStep(t), NEW input, IsTable(input), NEW ai
  PROVE  /\ IsTable(Applied(t, input, ai))
         /\ \A walk, kinds : IsWalk(walk) /\ Covers(walk, input) =>
              Covers(Step(t, walk, kinds), Applied(t, input, ai))
<1> DEFINE after == Applied(t, input, ai)
           Follows == \A walk, kinds : IsWalk(walk) /\ Covers(walk, input) =>
                        Covers(Step(t, walk, kinds), after)
<1>1. t.kind \in AllKinds
  BY DEF IsStep
<1> SUFFICES IsTable(after) /\ Follows
  OBVIOUS
<1> HIDE DEF after
<1>2. ASSUME NEW few, after.columns = few, IsTable(after),
             \A walk : IsWalk(walk) /\ Covers(walk, input) =>
               Provided(t, walk).unknowable \/ few \subseteq Provided(t, walk).available,
             \A walk : IsWalk(walk) => IsWalk(Provided(t, walk))
      PROVE  IsTable(after) /\ Follows
  <2> SUFFICES ASSUME NEW walk, NEW kinds, IsWalk(walk), Covers(walk, input)
               PROVE  Covers(Step(t, walk, kinds), after)
    BY <1>2
  <2> DEFINE w == Provided(t, walk)
  <2>1. IsWalk(w) /\ (w.unknowable \/ few \subseteq w.available)
    BY <1>2
  <2> HIDE DEF w
  <2>2. \A r : [w EXCEPT !.refused = r].unknowable = w.unknowable
               /\ [w EXCEPT !.refused = r].available = w.available
    BY <2>1 DEF IsWalk
  <2>3. /\ Step(t, walk, kinds).unknowable = w.unknowable
        /\ Step(t, walk, kinds).available = w.available
    BY <2>2 DEF Step, w
  <2> QED
    BY <1>2, <2>1, <2>3 DEF Covers
<1>3. CASE t.kind \in {"filter", "sort"}
  <2>1. Makes(t, input, ai, input.columns)
    BY <1>3, FilterMakes, SortMakes
  <2>2. \A walk : Provided(t, walk) = walk
    BY <1>3 DEF Provided
  <2> HIDE DEF Follows
  <2> QED
    BY <1>2, <2>1, <2>2 DEF Makes, Covers, after
<1>4. CASE t.kind \in {"mutate", "edit", "ai"}
  <2>1. Makes(t, input, ai, input.columns \union {t.column})
    BY <1>4, MutateMakes, EditMakes, AiMakes
  <2>2. \A walk : Provided(t, walk) = [walk EXCEPT !.available = walk.available \union {t.column}]
    BY <1>4 DEF Provided
  <2>3. \A walk : IsWalk(walk) =>
          /\ IsWalk(Provided(t, walk)) /\ Provided(t, walk).unknowable = walk.unknowable
          /\ Provided(t, walk).available = walk.available \union {t.column}
    BY <2>2 DEF IsWalk
  <2> HIDE DEF Follows
  <2> QED
    BY <1>2, <2>1, <2>3 DEF Makes, Covers, after
<1>5. CASE t.kind = "validate"
  <2>1. Makes(t, input, ai, input.columns \union {t.into, Append(t.into, 1)})
    BY <1>5, ValidateMakes
  <2>2. \A walk : Provided(t, walk) =
          [walk EXCEPT !.available = walk.available \union {t.into, Append(t.into, 1)}]
    BY <1>5 DEF Provided
  <2>3. \A walk : IsWalk(walk) =>
          /\ IsWalk(Provided(t, walk)) /\ Provided(t, walk).unknowable = walk.unknowable
          /\ Provided(t, walk).available = walk.available \union {t.into, Append(t.into, 1)}
    BY <2>2 DEF IsWalk
  <2> HIDE DEF Follows
  <2> QED
    BY <1>2, <2>1, <2>3 DEF Makes, Covers, after
<1>6. CASE t.kind = "split"
  <2> DEFINE gone == IF t.drop THEN {t.from} ELSE {}
  <2>1. Makes(t, input, ai, (input.columns \union ToSet(t.into)) \ gone)
    BY <1>6, SplitMakes
  <2> HIDE DEF gone
  <2>2. \A walk : Provided(t, walk) = [walk EXCEPT !.available = walk.available \union ToSet(t.into)]
    BY <1>6 DEF Provided
  <2>3. \A walk : IsWalk(walk) =>
          /\ IsWalk(Provided(t, walk)) /\ Provided(t, walk).unknowable = walk.unknowable
          /\ Provided(t, walk).available = walk.available \union ToSet(t.into)
    BY <2>2 DEF IsWalk
  <2> HIDE DEF Follows
  <2> QED
    BY <1>2, <2>1, <2>3 DEF Makes, Covers, after
<1>7. CASE t.kind \in {"select", "group", "unpivot"}
  <2> DEFINE columns == CASE t.kind = "select" -> t.columns
                          [] t.kind = "group" -> Grouped(t)
                          [] t.kind = "unpivot" -> t.id \union {NamesTo(t), ValuesTo(t)}
  <2>1. Makes(t, input, ai, columns)
    BY <1>7, SelectMakes, GroupMakes, UnpivotMakes
  <2>2. \A walk : Provided(t, walk) = [walk EXCEPT !.available = columns, !.unknowable = FALSE]
    BY <1>7 DEF Provided
  <2> HIDE DEF columns
  <2>3. \A walk : IsWalk(walk) => IsWalk(Provided(t, walk)) /\ Provided(t, walk).available = columns
    BY <2>2 DEF IsWalk
  <2> HIDE DEF Follows
  <2> QED
    BY <1>2, <2>1, <2>3 DEF Makes, after
<1>8. CASE t.kind \in {"pivot", "join"}
  <2>1. IsTable(after)
    BY <1>8, PivotMakes, JoinMakes DEF after
  <2>2. \A walk : IsWalk(walk) => IsWalk(Provided(t, walk)) /\ Provided(t, walk).unknowable
    BY <1>8 DEF Provided, IsWalk
  <2> HIDE DEF Follows
  <2> QED
    BY <1>2, <2>1, <2>2
<1> QED
  BY <1>1, <1>3, <1>4, <1>5, <1>6, <1>7, <1>8 DEF AllKinds


\* All tables.
Tables == UNION {[columns : {C}, rows : Seq(RowOver(C))] : C \in {C \in SUBSET Text : IsFiniteSet(C)}}

LEMMA TablesAre == \A u : u \in Tables <=> IsTable(u)
<1>1. ASSUME NEW u, IsTable(u) PROVE u \in Tables
  <2> DEFINE C == u.columns
             rows == u.rows
  <2>1. u = [columns |-> C, rows |-> rows] /\ C \in SUBSET Text /\ IsFiniteSet(C) /\ rows \in Seq(RowOver(C))
    BY <1>1 DEF IsTable
  <2> HIDE DEF C, rows
  <2>2. u \in [columns : {C}, rows : Seq(RowOver(C))]
    BY <2>1
  <2> QED
    BY <2>1, <2>2 DEF Tables
<1>2. ASSUME NEW u, u \in Tables PROVE IsTable(u)
  <2>1. PICK C \in SUBSET Text : IsFiniteSet(C) /\ u \in [columns : {C}, rows : Seq(RowOver(C))]
    BY <1>2 DEF Tables
  <2> QED
    BY <2>1 DEF IsTable
<1> QED
  BY <1>1, <1>2

\* The tables a replay goes through.
Replays(f, steps, source, ai) ==
  /\ f[0] = source
  /\ \A n \in 1..Len(steps) : f[n] = Applied(steps[n], f[n - 1], ai)
  /\ Replayed(steps, source, ai) = f[Len(steps)]

LEMMA ReplayUnfolds ==
  ASSUME NEW S, \A t \in S : IsStep(t), NEW steps \in Seq(S), NEW source, IsTable(source), NEW ai
  PROVE  \E f \in [0..Len(steps) -> Tables] : Replays(f, steps, source, ai)
<1>0. PICK N \in Nat : N = Len(steps) /\ \A n \in 1..N : steps[n] \in S
  OBVIOUS
<1> DEFINE Body(g) == [n \in 0..N |-> IF n = 0 THEN source ELSE Applied(steps[n], g[n - 1], ai)]
           after == CHOOSE g : g = Body(g)
           step == [p \in Tables \X (1..N) |-> Applied(steps[p[2]], p[1], ai)]
<1>1. step \in [Tables \X (1..N) -> Tables]
  <2> SUFFICES ASSUME NEW p \in Tables \X (1..N) PROVE Applied(steps[p[2]], p[1], ai) \in Tables
    OBVIOUS
  <2>1. IsStep(steps[p[2]]) /\ p[1] \in Tables
    BY <1>0
  <2>2. IsTable(p[1])
    BY <2>1, TablesAre
  <2>3. IsTable(Applied(steps[p[2]], p[1], ai))
    BY <2>1, <2>2, StepMakes
  <2> QED
    BY <2>3, TablesAre
<1>2. PICK f \in [0..N -> Tables] : Unfolds(f, N, source, step)
  <2>1. source \in Tables
    BY TablesAre
  <2> HIDE DEF step
  <2> QED
    BY <1>1, <2>1, RecursionTo
<1>3. ASSUME NEW n \in 1..N PROVE f[n] = Applied(steps[n], f[n - 1], ai)
  <2>1. n - 1 \in 0..N
    OBVIOUS
  <2>2. <<f[n - 1], n>> \in Tables \X (1..N)
    BY <2>1
  <2>3. step[<<f[n - 1], n>>] = Applied(steps[n], f[n - 1], ai)
    BY <2>2
  <2> HIDE DEF step
  <2> QED
    BY <1>2, <2>3 DEF Unfolds
<1>4. f[0] = source
  BY <1>2 DEF Unfolds
<1>5. f = Body(f)
  <2>1. ASSUME NEW n \in 0..N PROVE f[n] = IF n = 0 THEN source ELSE Applied(steps[n], f[n - 1], ai)
    <3>1. CASE n = 0
      BY <1>4, <3>1
    <3>2. CASE n # 0
      <4>1. n \in 1..N
        BY <3>2
      <4> QED
        BY <1>3, <3>2, <4>1
    <3> QED
      BY <3>1, <3>2
  <2> QED
    BY <2>1, Zenon
<1>6. after = Body(after)
  <2> HIDE DEF Body
  <2> QED
    BY <1>5
<1>7. ASSUME NEW n \in 0..N
      PROVE  after[n] = IF n = 0 THEN source ELSE Applied(steps[n], after[n - 1], ai)
  <2> HIDE DEF after
  <2> QED
    BY <1>6, Zenon
<1> HIDE DEF after, step
<1> DEFINE P == {n \in 0..N : after[n] = f[n]}
<1>8. 0 \in P
  BY <1>4, <1>7
<1>9. ASSUME NEW n \in 1..N, n - 1 \in P PROVE n \in P
  <2>1. n \in 0..N /\ n # 0
    OBVIOUS
  <2>2. after[n] = Applied(steps[n], after[n - 1], ai)
    BY <1>7, <2>1
  <2> QED
    BY <1>3, <1>9, <2>1, <2>2
<1>10. 0..N \subseteq P
  <2> HIDE DEF P
  <2> QED
    BY <1>8, <1>9, InductionTo
<1>11. Replayed(steps, source, ai) = after[N]
  BY <1>0 DEF Replayed, after
<1>12. N \in P
  BY <1>10
<1>13. Replays(f, steps, source, ai)
  BY <1>0, <1>3, <1>4, <1>11, <1>12 DEF Replays
<1> QED
  BY <1>0, <1>13

\* A replay of one more step.
StepByStep(steps, source, ai) ==
  \A n \in 1..Len(steps) :
    Replayed(SubSeq(steps, 1, n), source, ai)
      = Applied(steps[n], Replayed(SubSeq(steps, 1, n - 1), source, ai), ai)
LEMMA ReplayedAt ==
  ASSUME NEW S, \A t \in S : IsStep(t), NEW steps \in Seq(S), NEW source, IsTable(source), NEW ai
  PROVE  /\ IsTable(Replayed(steps, source, ai))
         /\ Replayed(SubSeq(steps, 1, 0), source, ai) = source
         /\ StepByStep(steps, source, ai)
<1> DEFINE part(n) == SubSeq(steps, 1, n)
<1>0. PICK N \in Nat : N = Len(steps) /\ \A n \in 1..N : steps[n] \in S
  OBVIOUS
<1>1. PICK f \in [0..N -> Tables] : Replays(f, steps, source, ai)
  BY <1>0, ReplayUnfolds
<1>2. ASSUME NEW n \in 0..N PROVE Replayed(part(n), source, ai) = f[n]
  <2>1. part(n) \in Seq(S) /\ Len(part(n)) = n /\ \A m \in 1..n : part(n)[m] = steps[m]
    BY <1>0
  <2> HIDE DEF part
  <2>2. PICK g \in [0..n -> Tables] : Replays(g, part(n), source, ai)
    BY <2>1, ReplayUnfolds
  <2> DEFINE P == {m \in 0..n : g[m] = f[m]}
  <2>3. 0 \in P /\ n \in Nat
    BY <1>1, <2>2 DEF Replays
  <2>4. ASSUME NEW m \in 1..n, m - 1 \in P PROVE m \in P
    <3>1. g[m] = Applied(steps[m], g[m - 1], ai)
      BY <2>1, <2>2 DEF Replays
    <3>2. m \in 1..N /\ f[m] = Applied(steps[m], f[m - 1], ai)
      BY <1>0, <1>1 DEF Replays
    <3> QED
      BY <2>4, <3>1, <3>2
  <2>5. 0..n \subseteq P
    <3> HIDE DEF P
    <3> QED
      BY <2>3, <2>4, InductionTo
  <2>6. n \in P
    BY <2>5
  <2> QED
    BY <2>1, <2>2, <2>6 DEF Replays
<1> HIDE DEF part
<1>3. Replayed(part(0), source, ai) = source
  BY <1>1, <1>2 DEF Replays
<1>4. ASSUME NEW n \in 1..N
      PROVE  Replayed(part(n), source, ai) = Applied(steps[n], Replayed(part(n - 1), source, ai), ai)
  <2>1. n \in 0..N /\ n - 1 \in 0..N
    OBVIOUS
  <2>2. f[n] = Applied(steps[n], f[n - 1], ai)
    BY <1>0, <1>1 DEF Replays
  <2> QED
    BY <1>2, <2>1, <2>2
<1>5. IsTable(Replayed(steps, source, ai))
  <2>1. f[N] \in Tables /\ Replayed(steps, source, ai) = f[N]
    BY <1>0, <1>1 DEF Replays
  <2> QED
    BY <2>1, TablesAre
<1> QED
  BY <1>0, <1>3, <1>4, <1>5 DEF part, StepByStep

\* All walks.
Walks == [available : SUBSET Text, unknowable : BOOLEAN, refused : BOOLEAN]

LEMMA StepWalks ==
  ASSUME NEW t, IsStep(t), NEW walk \in Walks, NEW kinds
  PROVE  /\ IsWalk(walk) /\ Step(t, walk, kinds) \in Walks
         /\ Step(t, walk, kinds).refused <=>
              \/ walk.refused
              \/ t.kind \in kinds /\ ~walk.unknowable /\ ~(Reads(t) \subseteq walk.available)
<1> DEFINE w == Provided(t, walk)
           ends == \/ walk.refused
                   \/ t.kind \in kinds /\ ~walk.unknowable /\ ~(Reads(t) \subseteq walk.available)
<1>1. t.kind \in AllKinds
  BY DEF IsStep
<1>2. IsWalk(walk)
  BY DEF IsWalk, Walks
<1>3. ASSUME NEW more \in SUBSET Text, NEW b \in BOOLEAN
      PROVE  /\ [walk EXCEPT !.available = more, !.unknowable = b] \in Walks
             /\ [walk EXCEPT !.available = walk.available \union more] \in Walks
             /\ [walk EXCEPT !.unknowable = TRUE] \in Walks
  BY DEF Walks
<1>4. w \in Walks
  <2>1. CASE t.kind \in {"filter", "sort"}
    BY <2>1 DEF Provided
  <2>2. CASE t.kind \in {"mutate", "edit", "ai"}
    <3>1. {t.column} \in SUBSET Text
      BY <2>2 DEF IsStep
    <3>2. w = [walk EXCEPT !.available = walk.available \union {t.column}]
      BY <2>2 DEF Provided
    <3> HIDE DEF w
    <3> QED
      BY <1>3, <3>1, <3>2
  <2>3. CASE t.kind = "validate"
    <3>1. {t.into, Append(t.into, 1)} \in SUBSET Text
      BY <2>3 DEF IsStep, Text
    <3>2. w = [walk EXCEPT !.available = walk.available \union {t.into, Append(t.into, 1)}]
      BY <2>3 DEF Provided
    <3> HIDE DEF w
    <3> QED
      BY <1>3, <3>1, <3>2
  <2>4. CASE t.kind = "split"
    <3>1. ToSet(t.into) \in SUBSET Text
      BY <2>4 DEF IsStep, ToSet
    <3>2. w = [walk EXCEPT !.available = walk.available \union ToSet(t.into)]
      BY <2>4 DEF Provided
    <3> HIDE DEF w
    <3> QED
      BY <1>3, <3>1, <3>2
  <2>5. CASE t.kind = "select"
    <3>1. t.columns \in SUBSET Text
      BY <2>5 DEF IsStep
    <3>2. w = [walk EXCEPT !.available = t.columns, !.unknowable = FALSE]
      BY <2>5 DEF Provided
    <3> HIDE DEF w
    <3> QED
      BY <1>3, <3>1, <3>2
  <2>6. CASE t.kind = "group"
    <3>0. ToSet(KeyNames(t)) \in SUBSET Text /\ IsFiniteSet(ToSet(KeyNames(t))) /\ t.agg \in Seq(Text)
      BY <2>6, KeyNamesAre DEF IsStep
    <3>1. Grouped(t) \in SUBSET Text
      BY <3>0, ClaimedIs, ToSetIs DEF Grouped, AggNames
    <3>2. w = [walk EXCEPT !.available = Grouped(t), !.unknowable = FALSE]
      BY <2>6 DEF Provided
    <3> HIDE DEF w
    <3> QED
      BY <1>3, <3>1, <3>2
  <2>7. CASE t.kind = "unpivot"
    <3>1. t.id \union {NamesTo(t), ValuesTo(t)} \in SUBSET Text
      BY <2>7, UnpivotNames
    <3>2. w = [walk EXCEPT !.available = t.id \union {NamesTo(t), ValuesTo(t)}, !.unknowable = FALSE]
      BY <2>7 DEF Provided
    <3> HIDE DEF w
    <3> QED
      BY <1>3, <3>1, <3>2
  <2>8. CASE t.kind = "pivot"
    <3>1. t.index \in SUBSET Text
      BY <2>8 DEF IsStep
    <3>2. w = [walk EXCEPT !.available = t.index, !.unknowable = TRUE]
      BY <2>8 DEF Provided
    <3> HIDE DEF w
    <3> QED
      BY <1>3, <3>1, <3>2
  <2>9. CASE t.kind = "join"
    <3>2. w = [walk EXCEPT !.unknowable = TRUE]
      BY <2>9 DEF Provided
    <3> HIDE DEF w
    <3> QED
      BY <1>3, <3>2
  <2> QED
    BY <1>1, <2>1, <2>2, <2>3, <2>4, <2>5, <2>6, <2>7, <2>8, <2>9 DEF AllKinds
<1> HIDE DEF w
<1>5. PICK b \in BOOLEAN : b = ends
  OBVIOUS
<1>6. Step(t, walk, kinds) = [w EXCEPT !.refused = b]
  BY <1>5 DEF Step, w
<1> HIDE DEF ends
<1>7. [w EXCEPT !.refused = b] \in Walks /\ [w EXCEPT !.refused = b].refused = b
  BY <1>4 DEF Walks
<1> QED
  BY <1>2, <1>5, <1>6, <1>7 DEF ends

\* What a walk goes through.
Start(columns) == [available |-> columns, unknowable |-> FALSE, refused |-> FALSE]
WalksBy(f, steps, columns, kinds) ==
  /\ f[0] = Start(columns)
  /\ \A n \in 1..Len(steps) : f[n] = Step(steps[n], f[n - 1], kinds)
  /\ Walked(steps, columns, kinds) = f[Len(steps)]

LEMMA WalkUnfolds ==
  ASSUME NEW S, \A t \in S : IsStep(t), NEW steps \in Seq(S), NEW columns \in SUBSET Text, NEW kinds
  PROVE  \E f \in [0..Len(steps) -> Walks] : WalksBy(f, steps, columns, kinds)
<1>0. PICK N \in Nat : N = Len(steps) /\ \A n \in 1..N : steps[n] \in S
  OBVIOUS
<1> DEFINE start == Start(columns)
           Body(g) == [n \in 0..N |-> IF n = 0 THEN start ELSE Step(steps[n], g[n - 1], kinds)]
           walk == CHOOSE g : g = Body(g)
           step == [p \in Walks \X (1..N) |-> Step(steps[p[2]], p[1], kinds)]
<1>start. start \in Walks
  BY DEF Walks, Start
<1>last. Walked(steps, columns, kinds) = walk[N]
  BY <1>0 DEF Walked, Start
<1> HIDE DEF start
<1>1. step \in [Walks \X (1..N) -> Walks]
  <2> SUFFICES ASSUME NEW p \in Walks \X (1..N) PROVE Step(steps[p[2]], p[1], kinds) \in Walks
    OBVIOUS
  <2>1. IsStep(steps[p[2]]) /\ p[1] \in Walks
    BY <1>0
  <2> QED
    BY <2>1, StepWalks
<1>2. PICK f \in [0..N -> Walks] : Unfolds(f, N, start, step)
  <2> HIDE DEF step
  <2> QED
    BY <1>start, <1>1, RecursionTo
<1>3. ASSUME NEW n \in 1..N PROVE f[n] = Step(steps[n], f[n - 1], kinds)
  <2>1. n - 1 \in 0..N
    OBVIOUS
  <2>2. <<f[n - 1], n>> \in Walks \X (1..N)
    BY <2>1
  <2>3. step[<<f[n - 1], n>>] = Step(steps[n], f[n - 1], kinds)
    BY <2>2
  <2> HIDE DEF step
  <2> QED
    BY <1>2, <2>3 DEF Unfolds
<1>4. f[0] = start
  BY <1>2 DEF Unfolds
<1>5. f = Body(f)
  <2>1. ASSUME NEW n \in 0..N PROVE f[n] = IF n = 0 THEN start ELSE Step(steps[n], f[n - 1], kinds)
    <3>1. CASE n = 0
      BY <1>4, <3>1
    <3>2. CASE n # 0
      <4>1. n \in 1..N
        BY <3>2
      <4> QED
        BY <1>3, <3>2, <4>1
    <3> QED
      BY <3>1, <3>2
  <2> QED
    BY <2>1, Zenon
<1>6. walk = Body(walk)
  <2> HIDE DEF Body
  <2> QED
    BY <1>5
<1>7. ASSUME NEW n \in 0..N
      PROVE  walk[n] = IF n = 0 THEN start ELSE Step(steps[n], walk[n - 1], kinds)
  <2> HIDE DEF walk
  <2> QED
    BY <1>6, Zenon
<1> HIDE DEF walk, step
<1> DEFINE P == {n \in 0..N : walk[n] = f[n]}
<1>8. 0 \in P
  BY <1>4, <1>7
<1>9. ASSUME NEW n \in 1..N, n - 1 \in P PROVE n \in P
  <2>1. n \in 0..N /\ n # 0
    OBVIOUS
  <2>2. walk[n] = Step(steps[n], walk[n - 1], kinds)
    BY <1>7, <2>1
  <2> QED
    BY <1>3, <1>9, <2>1, <2>2
<1>10. 0..N \subseteq P
  <2> HIDE DEF P
  <2> QED
    BY <1>8, <1>9, InductionTo
<1>12. N \in P
  BY <1>10
<1>13. WalksBy(f, steps, columns, kinds)
  BY <1>0, <1>last, <1>3, <1>4, <1>12 DEF WalksBy, start
<1> QED
  BY <1>0, <1>13

\* A walk of one more step.
LEMMA WalkedAt ==
  ASSUME NEW S, \A t \in S : IsStep(t), NEW steps \in Seq(S), NEW columns \in SUBSET Text, NEW kinds
  PROVE  /\ \A n \in 0..Len(steps) : Walked(SubSeq(steps, 1, n), columns, kinds) \in Walks
         /\ Walked(SubSeq(steps, 1, 0), columns, kinds) = Start(columns)
         /\ \A n \in 1..Len(steps) :
              Walked(SubSeq(steps, 1, n), columns, kinds)
                = Step(steps[n], Walked(SubSeq(steps, 1, n - 1), columns, kinds), kinds)
<1> DEFINE part(n) == SubSeq(steps, 1, n)
<1>0. PICK N \in Nat : N = Len(steps) /\ \A n \in 1..N : steps[n] \in S
  OBVIOUS
<1>1. PICK f \in [0..N -> Walks] : WalksBy(f, steps, columns, kinds)
  BY <1>0, WalkUnfolds
<1>2. ASSUME NEW n \in 0..N PROVE Walked(part(n), columns, kinds) = f[n]
  <2>1. part(n) \in Seq(S) /\ Len(part(n)) = n /\ \A m \in 1..n : part(n)[m] = steps[m]
    BY <1>0
  <2> HIDE DEF part
  <2>2. PICK g \in [0..n -> Walks] : WalksBy(g, part(n), columns, kinds)
    BY <2>1, WalkUnfolds
  <2> DEFINE P == {m \in 0..n : g[m] = f[m]}
  <2>3. 0 \in P /\ n \in Nat
    BY <1>1, <2>2 DEF WalksBy
  <2>4. ASSUME NEW m \in 1..n, m - 1 \in P PROVE m \in P
    <3>1. g[m] = Step(steps[m], g[m - 1], kinds)
      BY <2>1, <2>2 DEF WalksBy
    <3>2. m \in 1..N /\ f[m] = Step(steps[m], f[m - 1], kinds)
      BY <1>0, <1>1 DEF WalksBy
    <3> QED
      BY <2>4, <3>1, <3>2
  <2>5. 0..n \subseteq P
    <3> HIDE DEF P
    <3> QED
      BY <2>3, <2>4, InductionTo
  <2>6. n \in P
    BY <2>5
  <2> QED
    BY <2>1, <2>2, <2>6 DEF WalksBy
<1> HIDE DEF part
<1>3. Walked(part(0), columns, kinds) = Start(columns)
  BY <1>1, <1>2 DEF WalksBy
<1>4. ASSUME NEW n \in 1..N
      PROVE  Walked(part(n), columns, kinds) = Step(steps[n], Walked(part(n - 1), columns, kinds), kinds)
  <2>1. n \in 0..N /\ n - 1 \in 0..N
    OBVIOUS
  <2>2. f[n] = Step(steps[n], f[n - 1], kinds)
    BY <1>0, <1>1 DEF WalksBy
  <2> QED
    BY <1>2, <2>1, <2>2
<1>5. \A n \in 0..N : Walked(part(n), columns, kinds) \in Walks
  BY <1>2
<1> QED
  BY <1>0, <1>3, <1>4, <1>5 DEF part


\* A replay of the rest of a plan, and the walk through it.
Together(W, T, plan0, rest, columns, kinds, from, ai) ==
  /\ W[0] = Walked(plan0, columns, kinds) /\ T[0] = from
  /\ \A n \in 1..Len(rest) : W[n] = Step(rest[n], W[n - 1], kinds) /\ T[n] = Applied(rest[n], T[n - 1], ai)
  /\ \A n \in 0..Len(rest) : T[n] = Replayed(SubSeq(rest, 1, n), from, ai)
  /\ W[Len(rest)] = Walked(plan0 \o rest, columns, kinds) /\ T[Len(rest)] = Replayed(rest, from, ai)

LEMMA GoTogether ==
  ASSUME NEW S, \A t \in S : IsStep(t), NEW plan0 \in Seq(S), NEW rest \in Seq(S),
         NEW columns \in SUBSET Text, NEW kinds, NEW from, IsTable(from), NEW ai
  PROVE  \E W \in [0..Len(rest) -> Walks], T \in [0..Len(rest) -> Tables] :
           Together(W, T, plan0, rest, columns, kinds, from, ai)
<1> DEFINE all == plan0 \o rest
<1>0. PICK L \in Nat, N \in Nat : L = Len(plan0) /\ N = Len(rest)
  OBVIOUS
<1>1. /\ all \in Seq(S) /\ Len(all) = L + N /\ SubSeq(all, 1, L) = plan0 /\ SubSeq(all, 1, L + N) = all
      /\ \A n \in 1..N : all[L + n] = rest[n]
  <2>1. all \in Seq(S) /\ Len(all) = L + N /\ \A n \in 1..N : all[L + n] = rest[n]
    BY <1>0
  <2>2. SubSeq(all, 1, L) = plan0
    <3>1. Len(SubSeq(all, 1, L)) = L /\ \A m \in 1..L : SubSeq(all, 1, L)[m] = plan0[m]
      BY <1>0, <2>1
    <3>2. SubSeq(all, 1, L) \in Seq(S)
      BY <1>0, <2>1
    <3> HIDE DEF all
    <3> QED
      BY <1>0, <3>1, <3>2, SeqEqual
  <2>3. SubSeq(all, 1, L + N) = all
    <3> HIDE DEF all
    <3>1. /\ SubSeq(all, 1, L + N) \in Seq(S) /\ Len(SubSeq(all, 1, L + N)) = L + N
          /\ \A m \in 1..L + N : SubSeq(all, 1, L + N)[m] = all[m]
      BY <1>0, <2>1
    <3> QED
      BY <2>1, <3>1, SeqEqual
  <2> QED
    BY <2>1, <2>2, <2>3
<1> HIDE DEF all
<1> DEFINE W == [n \in 0..N |-> Walked(SubSeq(all, 1, L + n), columns, kinds)]
           T == [n \in 0..N |-> Replayed(SubSeq(rest, 1, n), from, ai)]
<1>2. /\ \A n \in 0..L + N : Walked(SubSeq(all, 1, n), columns, kinds) \in Walks
      /\ \A n \in 1..L + N :
           Walked(SubSeq(all, 1, n), columns, kinds)
             = Step(all[n], Walked(SubSeq(all, 1, n - 1), columns, kinds), kinds)
  BY <1>1, WalkedAt
<1>3. ASSUME NEW n \in 0..N PROVE W[n] \in Walks
  <2>1. L + n \in 0..L + N
    OBVIOUS
  <2> QED
    BY <1>2, <2>1
<1>4. ASSUME NEW n \in 1..N PROVE W[n] = Step(rest[n], W[n - 1], kinds)
  <2>1. L + n \in 1..L + N /\ (L + n) - 1 = L + (n - 1) /\ n \in 0..N /\ n - 1 \in 0..N
    OBVIOUS
  <2>2. Walked(SubSeq(all, 1, L + n), columns, kinds)
          = Step(all[L + n], Walked(SubSeq(all, 1, (L + n) - 1), columns, kinds), kinds)
    BY <1>2, <2>1
  <2>3. all[L + n] = rest[n]
    BY <1>1
  <2> QED
    BY <2>1, <2>2, <2>3
<1>5. ASSUME NEW n \in 0..N PROVE T[n] \in Tables
  <2>1. SubSeq(rest, 1, n) \in Seq(S)
    BY <1>0
  <2>2. IsTable(Replayed(SubSeq(rest, 1, n), from, ai))
    BY <2>1, ReplayedAt
  <2> QED
    BY <2>2, TablesAre
<1>6. /\ Replayed(SubSeq(rest, 1, 0), from, ai) = from
      /\ \A n \in 1..N : Replayed(SubSeq(rest, 1, n), from, ai)
                           = Applied(rest[n], Replayed(SubSeq(rest, 1, n - 1), from, ai), ai)
  <2>1. /\ Replayed(SubSeq(rest, 1, 0), from, ai) = from
        /\ \A n \in 1..Len(rest) : Replayed(SubSeq(rest, 1, n), from, ai)
                                     = Applied(rest[n], Replayed(SubSeq(rest, 1, n - 1), from, ai), ai)
    <3>1. Replayed(SubSeq(rest, 1, 0), from, ai) = from
      BY ReplayedAt
    <3>2. StepByStep(rest, from, ai)
      BY ReplayedAt
    <3> QED
      BY <3>1, <3>2 DEF StepByStep
  <2> QED
    BY <1>0, <2>1
<1>7. ASSUME NEW n \in 1..N PROVE T[n] = Applied(rest[n], T[n - 1], ai)
  <2>1. n \in 0..N /\ n - 1 \in 0..N
    OBVIOUS
  <2> QED
    BY <1>6, <2>1
<1>8. SubSeq(rest, 1, N) = rest
  <2>1. /\ SubSeq(rest, 1, N) \in Seq(S) /\ Len(SubSeq(rest, 1, N)) = N
        /\ \A m \in 1..N : SubSeq(rest, 1, N)[m] = rest[m]
    BY <1>0
  <2> QED
    BY <1>0, <2>1, SeqEqual
<1>9. T[0] = from /\ T[N] = Replayed(rest, from, ai)
  <2>1. 0 \in 0..N /\ N \in 0..N
    OBVIOUS
  <2>2. T[0] = Replayed(SubSeq(rest, 1, 0), from, ai) /\ T[N] = Replayed(SubSeq(rest, 1, N), from, ai)
    BY <2>1
  <2> HIDE DEF T
  <2> QED
    BY <1>6, <1>8, <2>2
<1>10. W[0] = Walked(plan0, columns, kinds) /\ W[N] = Walked(all, columns, kinds)
  <2>1. L + 0 = L /\ 0 \in 0..N /\ N \in 0..N
    OBVIOUS
  <2>2. /\ W[0] = Walked(SubSeq(all, 1, L + 0), columns, kinds)
        /\ W[N] = Walked(SubSeq(all, 1, L + N), columns, kinds)
    BY <2>1
  <2> HIDE DEF W
  <2> QED
    BY <1>1, <2>1, <2>2
<1>11. \A n \in 0..N : T[n] = Replayed(SubSeq(rest, 1, n), from, ai)
  OBVIOUS
<1>12. W \in [0..N -> Walks] /\ T \in [0..N -> Tables]
  BY <1>3, <1>5
<1> HIDE DEF W, T
<1>13. Together(W, T, plan0, rest, columns, kinds, from, ai)
  BY <1>0, <1>4, <1>7, <1>9, <1>10, <1>11 DEF Together, all
<1> QED
  BY <1>0, <1>12, <1>13

\* The walk covers a replay as long as it did before the rest, and it
\* refuses no step whose columns the replay has.
LEMMA WalkCovers ==
  ASSUME NEW S, \A t \in S : IsStep(t), NEW plan0 \in Seq(S), NEW rest \in Seq(S),
         NEW columns \in SUBSET Text, NEW kinds, NEW from, IsTable(from), NEW ai,
         Covers(Walked(plan0, columns, kinds), from)
  PROVE  /\ Covers(Walked(plan0 \o rest, columns, kinds), Replayed(rest, from, ai))
         /\ \/ Refused(plan0, columns, kinds) \/ ~Refused(plan0 \o rest, columns, kinds)
            \/ \E i \in DOMAIN rest :
                 ~(Reads(rest[i]) \subseteq Replayed(SubSeq(rest, 1, i - 1), from, ai).columns)
<1>0. PICK N \in Nat : N = Len(rest) /\ DOMAIN rest = 1..N /\ \A n \in 1..N : IsStep(rest[n])
  OBVIOUS
<1>1. PICK W \in [0..N -> Walks], T \in [0..N -> Tables] :
        Together(W, T, plan0, rest, columns, kinds, from, ai)
  BY <1>0, GoTogether
<1>2. /\ W[0] = Walked(plan0, columns, kinds) /\ T[0] = from
      /\ W[N] = Walked(plan0 \o rest, columns, kinds) /\ T[N] = Replayed(rest, from, ai)
      /\ \A n \in 1..N : W[n] = Step(rest[n], W[n - 1], kinds) /\ T[n] = Applied(rest[n], T[n - 1], ai)
      /\ \A n \in 0..N : T[n] = Replayed(SubSeq(rest, 1, n), from, ai)
  BY <1>0, <1>1 DEF Together
<1> DEFINE P == {n \in 0..N : Covers(W[n], T[n])}
           had == \A i \in 1..N : Reads(rest[i]) \subseteq T[i - 1].columns
           Q == {n \in 0..N : ~W[n].refused}
<1>3. 0 \in P
  BY <1>2
<1>4. ASSUME NEW n \in 1..N, n - 1 \in P PROVE n \in P
  <2>1. n - 1 \in 0..N /\ n \in 0..N
    OBVIOUS
  <2>2. IsWalk(W[n - 1]) /\ IsTable(T[n - 1]) /\ IsStep(rest[n])
    BY <1>0, <2>1, TablesAre, StepWalks
  <2>3. Covers(Step(rest[n], W[n - 1], kinds), Applied(rest[n], T[n - 1], ai))
    BY <1>4, <2>2, StepMakes
  <2> QED
    BY <1>2, <2>1, <2>3
<1>5. 0..N \subseteq P
  <2> HIDE DEF P
  <2> QED
    BY <1>3, <1>4, InductionTo
<1>6. ASSUME had, ~W[0].refused PROVE ~W[N].refused
  <2>1. 0 \in Q
    BY <1>6
  <2>2. ASSUME NEW n \in 1..N, n - 1 \in Q PROVE n \in Q
    <3>1. n - 1 \in 0..N /\ n \in 0..N
      OBVIOUS
    <3>2. Covers(W[n - 1], T[n - 1]) /\ Reads(rest[n]) \subseteq T[n - 1].columns
      BY <1>5, <1>6, <3>1
    <3>3. W[n - 1] \in Walks /\ IsStep(rest[n])
      BY <1>0, <3>1
    <3>4. Step(rest[n], W[n - 1], kinds).refused <=>
            \/ W[n - 1].refused
            \/ /\ rest[n].kind \in kinds /\ ~W[n - 1].unknowable
               /\ ~(Reads(rest[n]) \subseteq W[n - 1].available)
      BY <3>3, StepWalks
    <3>5. ~W[n - 1].refused
      BY <2>2
    <3>6. W[n] = Step(rest[n], W[n - 1], kinds)
      BY <1>2
    <3> QED
      BY <3>1, <3>2, <3>4, <3>5, <3>6 DEF Covers
  <2>3. 0..N \subseteq Q
    <3> HIDE DEF Q
    <3> QED
      BY <2>1, <2>2, InductionTo
  <2> QED
    BY <2>3
<1>7. ASSUME NEW i \in 1..N PROVE T[i - 1] = Replayed(SubSeq(rest, 1, i - 1), from, ai)
  <2>1. i - 1 \in 0..N
    OBVIOUS
  <2> QED
    BY <1>2, <2>1
<1>8. Covers(W[N], T[N])
  BY <1>5
<1>9. ASSUME ~W[0].refused, W[N].refused
      PROVE  \E i \in DOMAIN rest :
               ~(Reads(rest[i]) \subseteq Replayed(SubSeq(rest, 1, i - 1), from, ai).columns)
  <2>1. PICK i \in 1..N : ~(Reads(rest[i]) \subseteq T[i - 1].columns)
    BY <1>6, <1>9
  <2> QED
    BY <1>0, <1>7, <2>1
<1> QED
  BY <1>2, <1>8, <1>9 DEF Refused


------------------------------------------------------------------------------
(* The order of the view.                                                  *)

\* An order shows rows there are, none twice, and all when nothing is filtered.
Shows(order, count, narrowed) ==
  /\ IsInjective(order) /\ Range(order) \subseteq 1..count
  /\ narrowed = {} => Range(order) = 1..count

\* What a listing of some places makes of a sequence without repetition.
LEMMA ListedShows ==
  ASSUME NEW T, NEW base \in Seq(T), IsInjective(base), NEW S \in SUBSET DOMAIN base,
         NEW u \in Seq(T), NEW at, Takes(u, base, at, S)
  PROVE  /\ IsInjective(u) /\ Range(u) \subseteq Range(base)
         /\ S = DOMAIN base => Range(u) = Range(base)
<1>1. DOMAIN u = 1..Cardinality(S) /\ Lists(at, S)
  BY LenProperties DEF Takes
<1>2. ASSUME NEW k \in DOMAIN u PROVE at[k] \in S /\ at[k] \in DOMAIN base /\ u[k] = base[at[k]]
  BY <1>1 DEF Lists, Takes
<1>3. IsInjective(u)
  <2> SUFFICES ASSUME NEW k \in DOMAIN u, NEW m \in DOMAIN u, u[k] = u[m] PROVE k = m
    BY DEF IsInjective
  <2>1. at[k] = at[m]
    BY <1>2 DEF IsInjective
  <2> QED
    BY <1>1, <2>1 DEF Lists
<1>4. Range(u) \subseteq Range(base)
  BY <1>2 DEF Range
<1>5. ASSUME S = DOMAIN base, NEW i \in DOMAIN base PROVE \E k \in DOMAIN u : u[k] = base[i]
  <2>1. PICK k \in 1..Cardinality(S) : at[k] = i
    BY <1>1, <1>5 DEF Lists
  <2> QED
    BY <1>1, <1>2, <2>1
<1>6. S = DOMAIN base => Range(base) \subseteq Range(u)
  BY <1>5 DEF Range
<1> QED
  BY <1>3, <1>4, <1>6

\* The rows in the order of the table, and in the order of the shuffle.
LEMMA BaseIs ==
  ASSUME NEW n \in Nat, NEW base, base = Identity(n) \/ base = Reverse(Identity(n))
  PROVE  /\ base \in Seq(1..n) /\ DOMAIN base = 1..n
         /\ IsInjective(base) /\ Range(base) = 1..n
<1>1. Identity(n) \in [1..n -> 1..n] /\ \A i \in 1..n : Identity(n)[i] = i
  BY DEF Identity
<1>2. Identity(n) \in Seq(1..n) /\ Len(Identity(n)) = n
  BY <1>1, IsSequence
<1>3. /\ Reverse(Identity(n)) \in [1..n -> 1..n]
      /\ \A i \in 1..n : Reverse(Identity(n))[i] = n - i + 1
  <2>1. \A i \in 1..n : (n - i) + 1 \in 1..n
    OBVIOUS
  <2>2. Reverse(Identity(n)) = [i \in 1..n |-> Identity(n)[(n - i) + 1]]
    BY <1>2 DEF Reverse
  <2> QED
    BY <1>1, <2>1, <2>2
<1>4. Reverse(Identity(n)) \in Seq(1..n)
  BY <1>3, IsSequence
<1>5. CASE base = Identity(n)
  BY <1>1, <1>2, <1>5 DEF IsInjective, Range
<1>6. CASE base = Reverse(Identity(n))
  <2>1. base \in Seq(1..n) /\ DOMAIN base = 1..n /\ \A i \in 1..n : base[i] = n - i + 1
    BY <1>3, <1>4, <1>6
  <2>2. IsInjective(base)
    BY <2>1 DEF IsInjective
  <2>3. ASSUME NEW i \in 1..n PROVE \E k \in DOMAIN base : base[k] = i
    <3>1. n - i + 1 \in 1..n /\ n - (n - i + 1) + 1 = i
      OBVIOUS
    <3> QED
      BY <2>1, <3>1
  <2>4. \A k \in DOMAIN base : base[k] \in 1..n
    <3>1. \A k \in 1..n : n - k + 1 \in 1..n
      OBVIOUS
    <3> QED
      BY <2>1, <3>1
  <2>5. Range(base) = 1..n
    BY <2>3, <2>4 DEF Range
  <2> QED
    BY <2>1, <2>2, <2>5
<1> QED
  BY <1>5, <1>6

\* The order computed for any rows.
LEMMA ComputeOrderShows ==
  ASSUME NEW columns, NEW rows \in Seq(RowOver(columns)), NEW sample, NEW by, NEW narrowed
  PROVE  Shows(ComputeOrder(rows, sample, by, narrowed), Len(rows), narrowed)
<1> DEFINE base == IF sample THEN Reverse(Identity(Len(rows))) ELSE Identity(Len(rows))
           found(i, c) == ~MissingCell(CellAt(rows[i].cells, c)) /\ CellAt(rows[i].cells, c) = Needle
           places == {k \in DOMAIN base : \A c \in narrowed : found(base[k], c)}
           kept == Picked(base, places)
           cell(k) == CellAt(rows[kept[k]].cells, by)
           shown == [k \in DOMAIN kept |-> IF MissingCell(cell(k)) THEN Missing ELSE cell(k)]
<1>1. PICK n \in Nat : n = Len(rows) /\ DOMAIN rows = 1..n
  BY RowsAre
<1>2. /\ base \in Seq(1..n) /\ DOMAIN base = 1..n
      /\ IsInjective(base) /\ Range(base) = 1..n
  BY <1>1, BaseIs
<1>3. places \in SUBSET DOMAIN base /\ (narrowed = {} => places = DOMAIN base)
  OBVIOUS
<1>4. ComputeOrder(rows, sample, by, narrowed) = IF by = NoSort THEN kept ELSE SortedBy(kept, shown)
  BY DEF ComputeOrder
<1> HIDE DEF base, places
<1>5. PICK at : kept \in Seq(1..n) /\ Takes(kept, base, at, places)
  BY <1>2, <1>3, PickedIs
<1> HIDE DEF kept
<1>6. IsInjective(kept) /\ Range(kept) \subseteq Range(base) /\ (places = DOMAIN base => Range(kept) = Range(base))
  BY <1>2, <1>3, <1>5, ListedShows
<1>7. Shows(kept, n, narrowed)
  BY <1>2, <1>3, <1>6 DEF Shows
<1>8. CASE by = NoSort
  BY <1>1, <1>4, <1>7, <1>8
<1>9. CASE by # NoSort
  <2> DEFINE u == SortedBy(kept, shown)
             S == DOMAIN kept
  <2>1. shown \in [DOMAIN kept -> Text]
    <3> SUFFICES ASSUME NEW k \in DOMAIN kept PROVE Missing \in Text /\ cell(k) \in Text
      OBVIOUS
    <3>1. kept[k] \in DOMAIN rows
      BY <1>1, <1>5
    <3>2. cell(k) \in Text
      BY <3>1, RowsAre, CellAtIs
    <3> QED
      BY <3>2 DEF Missing, Text
  <2> HIDE DEF shown
  <2>2. PICK to : u \in Seq(1..n) /\ Takes(u, kept, to, S)
    BY <1>5, <2>1, SortedByIs
  <2> HIDE DEF u
  <2>4. S \in SUBSET DOMAIN kept
    OBVIOUS
  <2>5. IsInjective(u) /\ Range(u) \subseteq Range(kept) /\ (S = DOMAIN kept => Range(u) = Range(kept))
    BY <1>5, <1>6, <2>2, <2>4, ListedShows
  <2>6. Shows(u, n, narrowed)
    BY <1>7, <2>5 DEF Shows
  <2> QED
    BY <1>1, <1>4, <1>9, <2>6 DEF u
<1> QED
  BY <1>8, <1>9

\* A pin that is kept shows what it showed.
PinShows(by, pin, count, narrowed) ==
  by # NoSort => pin.count = count /\ Shows(pin.order, count, narrowed)

LEMMA DrawnShows ==
  ASSUME NEW count \in Nat, NEW narrowed, NEW order, Shows(order, count, narrowed), NEW by, NEW pin,
         by # NoSort /\ pin.count = count => Shows(pin.order, count, narrowed)
  PROVE  PinShows(by, Drawn(pin, count, order, by), count, narrowed)
BY DEF Drawn, PinShows


------------------------------------------------------------------------------
(* The session.                                                            *)

\* The steps of a plan: of a request or a flow, an edit, a deleted column.
AllSteps ==
  Steps \union [kind : {"edit"}, column : Text, row : Nat, text : {Needle}]
        \union [kind : {"select"}, columns : {C \in SUBSET Text : IsFiniteSet(C)}]

LineOk == line \in Seq(Seq(AllSteps)) /\ cursor \in 1..Len(line)
TableOk == IsTable(table) /\ Covers(Walked(plan, Source.columns, AllKinds), table)
PinOk == PinShows(sort, pinned, Len(table.rows), filters)

\* The plans are plans, the table is one the walk of its plan covers, and a
\* pinned order is an order of its rows.
ViewInv == LineOk /\ TableOk /\ PinOk

LEMMA AllStepsAre == \A t \in AllSteps : IsStep(t)
<1>1. \A t \in Steps : IsStep(t)
  BY ViewAssumption
<1>2. Needle \in Text
  BY ViewAssumption
<1>3. \A t \in [kind : {"edit"}, column : Text, row : Nat, text : {Needle}] : IsStep(t)
  BY <1>2 DEF IsStep, AllKinds
<1>4. \A t \in [kind : {"select"}, columns : {C \in SUBSET Text : IsFiniteSet(C)}] : IsStep(t)
  BY DEF IsStep, AllKinds
<1> QED
  BY <1>1, <1>3, <1>4 DEF AllSteps

LEMMA FlowsAre ==
  /\ \A flow \in Flows : flow \in Seq(AllSteps)
  /\ \A t \in Menu : t \in AllSteps
<1>1. Flows \subseteq Seq(Steps) /\ Steps \subseteq AllSteps
  BY ViewAssumption DEF AllSteps
<1>2. ASSUME NEW flow \in Flows PROVE flow \in Seq(AllSteps)
  <2>1. flow \in Seq(Steps)
    BY <1>1
  <2> QED
    BY <1>1, <2>1
<1> QED
  BY <1>1, <1>2 DEF Steps

LEMMA SourceIs == IsTable(Source) /\ Source.columns \in SUBSET Text
BY ViewAssumption, TableHas

\* The plan at the cursor.
LEMMA PlanIs ==
  ASSUME LineOk
  PROVE  plan \in Seq(AllSteps)
BY DEF LineOk, plan

\* A plan recorded is the one at the cursor.
LEMMA RecordIs ==
  ASSUME LineOk, NEW steps \in Seq(AllSteps), Record(steps)
  PROVE  LineOk' /\ plan' = steps
<1>1. SubSeq(line, 1, cursor) \in Seq(Seq(AllSteps)) /\ Len(SubSeq(line, 1, cursor)) = cursor /\ cursor \in Nat
  BY DEF LineOk
<1>2. line' = Append(SubSeq(line, 1, cursor), steps) /\ cursor' = cursor + 1
  BY DEF Record
<1>3. line' \in Seq(Seq(AllSteps)) /\ Len(line') = cursor + 1 /\ line'[cursor + 1] = steps
  BY <1>1, <1>2
<1> QED
  BY <1>1, <1>2, <1>3 DEF LineOk, plan

\* A replay of a plan from the source is a table its walk covers.
LEMMA FreshReplay ==
  ASSUME NEW steps \in Seq(AllSteps), NEW ai
  PROVE  /\ IsTable(Replayed(steps, Source, ai))
         /\ Covers(Walked(steps, Source.columns, AllKinds), Replayed(steps, Source, ai))
<1>1. <<>> \in Seq(AllSteps) /\ <<>> \o steps = steps
  OBVIOUS
<1>2. Covers(Walked(<<>>, Source.columns, AllKinds), Source)
  <2>1. SubSeq(<<>>, 1, 0) = <<>> /\ <<>> \in Seq(AllSteps)
    OBVIOUS
  <2>2. Walked(SubSeq(<<>>, 1, 0), Source.columns, AllKinds) = Start(Source.columns)
    BY <2>1, AllStepsAre, SourceIs, WalkedAt
  <2>3. Walked(<<>>, Source.columns, AllKinds) = Start(Source.columns)
    BY <2>1, <2>2
  <2>4. Start(Source.columns).available = Source.columns
    BY DEF Start
  <2> QED
    BY <2>3, <2>4 DEF Covers
<1>3. Covers(Walked(<<>> \o steps, Source.columns, AllKinds), Replayed(steps, Source, ai))
  BY <1>1, <1>2, AllStepsAre, SourceIs, WalkCovers
<1>4. IsTable(Replayed(steps, Source, ai))
  BY AllStepsAre, SourceIs, ReplayedAt
<1> QED
  BY <1>1, <1>3, <1>4

\* What remains of a plan that grows.
LEMMA PrefixRest ==
  ASSUME NEW S, NEW s \in Seq(S), NEW u \in Seq(S), IsPrefix(s, u)
  PROVE  /\ SubSeq(u, Len(s) + 1, Len(u)) \in Seq(S)
         /\ s \o SubSeq(u, Len(s) + 1, Len(u)) = u
<1>1. PICK a \in Nat, b \in Nat : a = Len(s) /\ b = Len(u) /\ a <= b
  BY DEF IsPrefix
<1> DEFINE rest == SubSeq(u, a + 1, b)
<1>2. rest \in Seq(S) /\ Len(rest) = b - a /\ \A n \in 1..b - a : rest[n] = u[a + n]
  BY <1>1
<1>3. \A n \in 1..a : s[n] = u[n]
  <2>1. \A n \in 1..a : SubSeq(s, 1, a)[n] = s[n] /\ SubSeq(u, 1, a)[n] = u[n]
    BY <1>1
  <2>2. SubSeq(s, 1, a) = SubSeq(u, 1, a)
    BY <1>1 DEF IsPrefix
  <2> QED
    BY <2>1, <2>2
<1> HIDE DEF rest
<1>4. s \o rest \in Seq(S) /\ Len(s \o rest) = b
  <2>1. Len(s \o rest) = Len(s) + Len(rest)
    BY <1>2, ConcatProperties
  <2>2. a + (b - a) = b
    BY <1>1
  <2> QED
    BY <1>1, <1>2, <2>1, <2>2
<1>5. ASSUME NEW n \in 1..b PROVE (s \o rest)[n] = u[n]
  <2>1. CASE n \in 1..a
    BY <1>1, <1>2, <1>3, <2>1
  <2>2. CASE n \notin 1..a
    <3>1. n - a \in 1..b - a /\ a + (n - a) = n
      BY <2>2
    <3>2. (s \o rest)[n] = rest[n - a]
      BY <1>1, <1>2, <2>2, <3>1
    <3> QED
      BY <1>2, <3>1, <3>2
  <2> QED
    BY <2>1, <2>2
<1>6. s \o rest = u
  BY <1>1, <1>4, <1>5, SeqEqual
<1> QED
  BY <1>1, <1>2, <1>6 DEF rest

\* The grid drawn again shows an order of the rows it has.
LEMMA DrawKeeps ==
  ASSUME IsTable(table'), NEW pin, Draw(pin),
         sort' # NoSort /\ pin.count = Len(table'.rows) => Shows(pin.order, Len(table'.rows), filters')
  PROVE  PinOk'
<1>1. Len(table'.rows) \in Nat /\ table'.rows \in Seq(RowOver(table'.columns))
  BY TableHas, RowsAre
<1>2. Shows(FreshOrder', Len(table'.rows), filters')
  BY <1>1, ComputeOrderShows DEF FreshOrder
<1>3. pinned' = Drawn(pin, Len(table'.rows), FreshOrder', sort')
  BY DEF Draw
<1>4. PinShows(sort', pinned', Len(table'.rows), filters')
  BY <1>1, <1>2, <1>3, DrawnShows
<1> QED
  BY <1>4 DEF PinOk

\* A pin dropped keeps nothing.
LEMMA UnpinnedKeeps ==
  ASSUME IsTable(table'), Draw(Unpinned)
  PROVE  PinOk'
<1>1. Len(table'.rows) \in Nat
  BY TableHas, RowsAre
<1>2. Unpinned.count # Len(table'.rows)
  BY <1>1 DEF Unpinned
<1> QED
  BY <1>2, DrawKeeps

LEMMA SyncKeeps ==
  ASSUME PinOk, IsTable(table'), NEW steps, NEW columns, NEW repin, Sync(steps, columns, repin)
  PROVE  PinOk'
<1> DEFINE ordered == DecidesOrder(steps)
           lost == sort # NoSort /\ sort \notin columns
           stale == repin \/ ordered # specOrdered \/ lost \/ ~(filters \subseteq columns)
<1>1. /\ sort' = IF lost THEN NoSort ELSE sort
      /\ filters' = filters \intersect columns
      /\ Draw(IF stale THEN Unpinned ELSE pinned)
  BY DEF Sync
<1>2. CASE stale
  <2>1. Draw(Unpinned)
    BY <1>1, <1>2
  <2> QED
    BY <2>1, UnpinnedKeeps
<1>3. CASE ~stale
  <2>1. Draw(pinned) /\ sort' = sort /\ filters' = filters
    BY <1>1, <1>3
  <2>2. sort' # NoSort /\ pinned.count = Len(table'.rows) =>
          Shows(pinned.order, Len(table'.rows), filters')
    BY <2>1 DEF PinOk, PinShows
  <2> QED
    BY <2>1, <2>2, DrawKeeps
<1> QED
  BY <1>2, <1>3


\* A commit replays the rest of a plan over the rows at hand, or all of it from the source.
LEMMA CommitKeeps ==
  ASSUME ViewInv, NEW steps \in Seq(AllSteps), NEW target, Commit(steps, target)
  PROVE  ViewInv'
<1> DEFINE from == IF Grows(steps) THEN table ELSE Source
           rest == IF Grows(steps) THEN SubSeq(steps, Len(plan) + 1, Len(steps)) ELSE steps
           ai == [target |-> target, cache |-> cache]
<1>1. Record(steps) /\ table' = Replayed(rest, from, ai) /\ Sync(steps, table'.columns, FALSE)
  BY DEF Commit
<1>2. LineOk' /\ plan' = steps
  BY <1>1, RecordIs DEF ViewInv
<1>3. IsTable(table') /\ Covers(Walked(steps, Source.columns, AllKinds), table')
  <2>1. CASE Grows(steps)
    <3>1. plan \in Seq(AllSteps) /\ IsPrefix(plan, steps)
      BY <2>1, PlanIs DEF ViewInv, Grows
    <3>2. rest \in Seq(AllSteps) /\ plan \o rest = steps
      BY <2>1, <3>1, PrefixRest
    <3>3. table' = Replayed(rest, table, ai)
      BY <1>1, <2>1
    <3> HIDE DEF rest, ai
    <3>4. IsTable(table) /\ Covers(Walked(plan, Source.columns, AllKinds), table)
      BY DEF ViewInv, TableOk
    <3>5. IsTable(Replayed(rest, table, ai))
      BY <3>2, <3>4, AllStepsAre, ReplayedAt
    <3>6. Covers(Walked(plan \o rest, Source.columns, AllKinds), Replayed(rest, table, ai))
      BY <3>1, <3>2, <3>4, AllStepsAre, SourceIs, WalkCovers
    <3> QED
      BY <3>2, <3>3, <3>5, <3>6
  <2>2. CASE ~Grows(steps)
    <3>1. table' = Replayed(steps, Source, ai)
      BY <1>1, <2>2
    <3> HIDE DEF ai
    <3> QED
      BY <3>1, FreshReplay
  <2> QED
    BY <2>1, <2>2
<1>4. TableOk'
  BY <1>2, <1>3 DEF TableOk
<1>5. PinOk'
  BY <1>1, <1>3, SyncKeeps DEF ViewInv
<1> QED
  BY <1>2, <1>4, <1>5 DEF ViewInv

\* A replay that calls nothing.
LEMMA CachedKeeps ==
  ASSUME ViewInv, NEW steps \in Seq(AllSteps), LineOk', plan' = steps, table' = Cached(steps),
         NEW repin, Sync(steps, table'.columns, repin)
  PROVE  ViewInv'
<1>1. IsTable(table') /\ Covers(Walked(steps, Source.columns, AllKinds), table')
  BY FreshReplay DEF Cached
<1>2. TableOk'
  BY <1>1 DEF TableOk
<1>3. PinOk'
  BY <1>1, SyncKeeps DEF ViewInv
<1> QED
  BY <1>2, <1>3 DEF ViewInv

\* Pending cells put back.
LEMMA RemarkPendingIs ==
  ASSUME NEW after, IsTable(after), NEW target
  PROVE  /\ IsTable(RemarkPending(after, target))
         /\ RemarkPending(after, target).columns = after.columns
<1> DEFINE rows == after.rows
           columns == after.columns
           left(i, c) == /\ i \notin target /\ c \in AiColumns
                         /\ i \in DOMAIN table.rows /\ CellAt(table.rows[i].cells, c) = Pending
           cells(i) == [c \in columns |-> IF left(i, c) THEN Pending ELSE rows[i].cells[c]]
           result == [i \in DOMAIN rows |-> [rows[i] EXCEPT !.cells = cells(i)]]
<1>1. after = [columns |-> columns, rows |-> rows]
  BY DEF IsTable
<1>2. PICK N \in Nat : N = Len(rows) /\ DOMAIN rows = 1..N
  BY TableHas, RowsAre
<1>3. ASSUME NEW i \in DOMAIN rows
      PROVE  /\ rows[i] \in RowOver(columns) /\ rows[i].cells \in [columns -> Text]
             /\ cells(i) \in [columns -> Text]
             /\ [rows[i] EXCEPT !.cells = cells(i)] \in RowOver(columns)
  <2>1. rows[i] \in RowOver(columns) /\ rows[i].cells \in [columns -> Text]
    BY TableHas, RowsAre
  <2>2. Pending \in Text
    BY DEF Pending, Text
  <2>3. cells(i) \in [columns -> Text]
    BY <2>1, <2>2
  <2> HIDE DEF cells
  <2> QED
    BY <2>1, <2>3, CellsPut
<1>4. result \in Seq(RowOver(columns))
  <2>1. result \in [1..N -> RowOver(columns)]
    BY <1>2, <1>3
  <2> HIDE DEF result
  <2> QED
    BY <2>1, IsSequence
<1>5. RemarkPending(after, target) = [columns |-> columns, rows |-> result]
  <2>1. RemarkPending(after, target) = [after EXCEPT !.rows = result]
    BY DEF RemarkPending
  <2> HIDE DEF result, rows, columns
  <2> QED
    BY <1>1, <2>1
<1> HIDE DEF result
<1>6. IsTable([columns |-> columns, rows |-> result])
  BY <1>4, TableHas, TableIs
<1> QED
  BY <1>5, <1>6

\* A pass replays the plan of the cursor from the source.
LEMMA LandsKeeps ==
  ASSUME ViewInv, NEW target, NEW asked, Lands(target, asked)
  PROVE  ViewInv'
<1> DEFINE ai == [target |-> target, cache |-> cache \union asked]
           after == Replayed(plan, Source, ai)
<1>1. /\ table' = IF target = {} THEN after ELSE RemarkPending(after, pass.target)
      /\ UNCHANGED <<line, cursor, specOrdered, sort, filters>> /\ Draw(Unpinned)
  BY DEF Lands
<1> HIDE DEF ai
<1>2. plan \in Seq(AllSteps)
  BY PlanIs DEF ViewInv
<1>3. IsTable(after) /\ Covers(Walked(plan, Source.columns, AllKinds), after)
  BY <1>2, FreshReplay
<1> HIDE DEF after
<1>4. IsTable(table') /\ table'.columns = after.columns
  BY <1>1, <1>3, RemarkPendingIs
<1>5. LineOk' /\ plan' = plan
  BY <1>1 DEF ViewInv, LineOk, plan
<1>6. TableOk'
  BY <1>3, <1>4, <1>5 DEF TableOk, Covers
<1>7. PinOk'
  BY <1>1, <1>4, UnpinnedKeeps
<1> QED
  BY <1>5, <1>6, <1>7 DEF ViewInv

\* The menu draws the rows there are in a new order.
LEMMA RedrawKeeps ==
  ASSUME ViewInv, UNCHANGED edits, Draw(Unpinned)
  PROVE  ViewInv'
<1>1. LineOk' /\ TableOk'
  BY DEF ViewInv, LineOk, TableOk, edits, plan
<1>2. PinOk'
  BY <1>1, UnpinnedKeeps DEF TableOk
<1> QED
  BY <1>1, <1>2 DEF ViewInv

\* What leaves the plans, the rows and the view alone.
LEMMA QuietKeeps ==
  ASSUME ViewInv, UNCHANGED edits, UNCHANGED view
  PROVE  ViewInv'
BY DEF ViewInv, LineOk, TableOk, PinOk, edits, view, plan


\* The order the grid is drawn in, pinned or fresh.
LEMMA ViewOrderShows ==
  ASSUME ViewInv
  PROVE  Shows(ViewOrder, Len(table.rows), filters)
<1>1. table.rows \in Seq(RowOver(table.columns))
  BY TableHas DEF ViewInv, TableOk
<1>2. Shows(FreshOrder, Len(table.rows), filters)
  BY <1>1, ComputeOrderShows DEF FreshOrder
<1>3. sort # NoSort => Shows(pinned.order, Len(table.rows), filters)
  BY DEF ViewInv, PinOk, PinShows
<1> QED
  BY <1>2, <1>3 DEF ViewOrder

LEMMA ViewInit == Init => ViewInv
<1> SUFFICES ASSUME Init PROVE ViewInv
  OBVIOUS
<1>1. <<>> \in Seq(AllSteps) /\ SubSeq(<<>>, 1, 0) = <<>>
  OBVIOUS
<1>2. LineOk /\ plan = <<>>
  <2>1. line = <<(<<>>)>> /\ cursor = 1
    BY DEF Init
  <2> QED
    BY <1>1, <2>1 DEF LineOk, plan
<1>3. TableOk
  <2>1. Replayed(<<>>, Source, cache) = Source
    BY <1>1, AllStepsAre, SourceIs, ReplayedAt
  <2>2. table = Source
    BY DEF Init
  <2> QED
    BY <1>1, <1>2, <2>1, <2>2, FreshReplay DEF TableOk
<1>4. PinOk
  BY DEF Init, PinOk, PinShows
<1> QED
  BY <1>2, <1>3, <1>4 DEF ViewInv


LEMMA RequestKeeps ==
  ASSUME ViewInv, NEW t \in Menu, Request(t)
  PROVE  ViewInv'
<1>1. plan \in Seq(AllSteps) /\ t \in AllSteps
  BY PlanIs, FlowsAre DEF ViewInv
<1>2. Append(plan, t) \in Seq(AllSteps)
  BY <1>1
<1>3. Commit(Append(plan, t), window.target)
  BY DEF Request
<1> QED
  BY <1>2, <1>3, CommitKeeps

LEMMA OpenFlowKeeps ==
  ASSUME ViewInv, NEW flow \in Flows, OpenFlow(flow)
  PROVE  ViewInv'
<1>1. flow \in Seq(AllSteps)
  BY FlowsAre
<1>2. Commit(flow, TargetOrigins(VisibleTarget))
  BY DEF OpenFlow
<1> QED
  BY <1>1, <1>2, CommitKeeps

LEMMA MoveKeeps ==
  ASSUME ViewInv, NEW position \in DOMAIN line, Move(position)
  PROVE  ViewInv'
<1>1. /\ position \in DOMAIN line /\ cursor' = position /\ line' = line
      /\ table' = Cached(line[position]) /\ Sync(line[position], table'.columns, FALSE)
  BY DEF Move
<1>2. line \in Seq(Seq(AllSteps))
  BY DEF ViewInv, LineOk
<1>3. line[position] \in Seq(AllSteps) /\ position \in 1..Len(line)
  BY <1>1, <1>2
<1>4. LineOk' /\ plan' = line[position]
  BY <1>1, <1>2, <1>3 DEF LineOk, plan
<1> QED
  BY <1>1, <1>3, <1>4, CachedKeeps

LEMMA EditCellKeeps ==
  ASSUME ViewInv, NEW place \in DOMAIN ViewOrder, NEW column \in FilterColumns, EditCell(place, column)
  PROVE  ViewInv'
<1> DEFINE row == ViewOrder[place]
           edit == [kind |-> "edit", column |-> column, row |-> row, text |-> Needle]
           steps == Append(plan, edit)
<1>1. /\ column \in table.columns /\ Record(steps)
      /\ table' = Cached(steps) /\ Sync(steps, table'.columns, TRUE)
  BY DEF EditCell
<1>2. row \in Nat
  <2>1. row \in Range(ViewOrder)
    BY DEF Range
  <2>2. Range(ViewOrder) \subseteq 1..Len(table.rows)
    BY ViewOrderShows DEF Shows
  <2> QED
    BY <2>1, <2>2
<1>3. column \in Text
  BY <1>1, TableHas DEF ViewInv, TableOk
<1> HIDE DEF row
<1>4. edit \in AllSteps
  BY <1>2, <1>3 DEF AllSteps
<1>5. plan \in Seq(AllSteps)
  BY PlanIs DEF ViewInv
<1> HIDE DEF edit
<1>6. steps \in Seq(AllSteps)
  BY <1>4, <1>5
<1> HIDE DEF steps
<1>7. LineOk' /\ plan' = steps
  BY <1>1, <1>6, RecordIs DEF ViewInv
<1> QED
  BY <1>1, <1>6, <1>7, CachedKeeps

LEMMA DeleteColumnKeeps ==
  ASSUME ViewInv, NEW column \in table.columns, DeleteColumn(column)
  PROVE  ViewInv'
<1> DEFINE few == table.columns \ {column}
           cut == [kind |-> "select", columns |-> few]
           steps == Append(plan, cut)
<1>1. Record(steps) /\ table' = Cached(steps) /\ Sync(steps, table'.columns, FALSE)
  BY DEF DeleteColumn
<1>2. few \in SUBSET Text /\ IsFiniteSet(few)
  <2>1. table.columns \subseteq Text /\ IsFiniteSet(table.columns)
    BY TableHas DEF ViewInv, TableOk
  <2> QED
    BY <2>1, FS_Subset
<1> HIDE DEF few
<1>3. cut \in AllSteps
  BY <1>2 DEF AllSteps
<1>4. plan \in Seq(AllSteps)
  BY PlanIs DEF ViewInv
<1> HIDE DEF cut
<1>5. steps \in Seq(AllSteps)
  BY <1>3, <1>4
<1> HIDE DEF steps
<1>6. LineOk' /\ plan' = steps
  BY <1>1, <1>5, RecordIs DEF ViewInv
<1> QED
  BY <1>1, <1>5, <1>6, CachedKeeps

\* The steps of the menu that draw the rows there are.
LEMMA MenuKeeps ==
  ASSUME ViewInv, Proceed \/ ApplyEvaluatedOnly \/ \E what, column : Clear(what, column)
  PROVE  ViewInv'
<1>1. UNCHANGED edits /\ Draw(Unpinned)
  BY DEF Proceed, ApplyEvaluatedOnly, Clear, Apply
<1> QED
  BY <1>1, RedrawKeeps

LEMMA ViewStep == ViewInv /\ [Next]_vars => ViewInv'
<1> SUFFICES ASSUME ViewInv, [Next]_vars PROVE ViewInv'
  OBVIOUS
<1>1. CASE \E t \in Menu : Request(t)
  BY <1>1, RequestKeeps
<1>2. CASE \E flow \in Flows : OpenFlow(flow)
  BY <1>2, OpenFlowKeeps
<1>3. CASE \E position \in DOMAIN line : Move(position)
  BY <1>3, MoveKeeps
<1>4. CASE \E place \in DOMAIN ViewOrder, column \in FilterColumns : EditCell(place, column)
  BY <1>4, EditCellKeeps
<1>5. CASE \E column \in table.columns : DeleteColumn(column)
  BY <1>5, DeleteColumnKeeps
<1>6. CASE EndPass
  <2>1. Lands(TargetOrigins(pass.target), Asked(plan, Source, TargetOrigins(pass.target)))
    BY <1>6 DEF EndPass
  <2> QED
    BY <2>1, LandsKeeps
<1>7. CASE CancelRun
  <2>1. PICK done : Lands({}, done)
    BY <1>7 DEF CancelRun
  <2> QED
    BY <2>1, LandsKeeps
<1>8. CASE \/ Proceed \/ ApplyEvaluatedOnly \/ Clear("sort", Missing)
           \/ \E column \in filters : Clear("filter", column)
  BY <1>8, MenuKeeps
<1>9. CASE \/ SendRequest \/ RequestEnds \/ \E page \in 1..PageCount : GoToPage(page)
           \/ EvaluateVisible \/ \E what, column : Choose(what, column)
           \/ Ask \/ Run \/ Decline \/ UNCHANGED vars
  <2>1. UNCHANGED edits /\ UNCHANGED view
    BY <1>9 DEF SendRequest, RequestEnds, GoToPage, EvaluateVisible, Choose, Ask, Run, Decline,
                vars, edits, view
  <2> QED
    BY <2>1, QuietKeeps
<1> QED
  BY <1>1, <1>2, <1>3, <1>4, <1>5, <1>6, <1>7, <1>8, <1>9 DEF Next

\* The plans on the undo timeline are plans the schema allows, the table is one
\* the walk without data covers, and the pinned order is one of its rows,
\* whatever was requested, opened, undone, edited, sorted or run.
THEOREM ViewInvariant == Spec => []ViewInv
BY ViewInit, ViewStep, PTL DEF Spec

\* ViewManager never shows a row twice or one that is gone, and without a
\* filter it shows them all: a pinned order is dropped with the rows it ordered.
THEOREM ShownAlwaysOnce == Spec => []ShownOnce
<1>1. ViewInv => ShownOnce
  <2> SUFFICES ASSUME ViewInv PROVE ShownOnce
    OBVIOUS
  <2>1. DOMAIN table.rows = 1..Len(table.rows)
    BY TableHas, RowsAre DEF ViewInv, TableOk
  <2> QED
    BY <2>1, ViewOrderShows DEF ShownOnce, Shows
<1> QED
  BY <1>1, ViewInvariant, PTL

\* A flow that checkFlowInputColumns refuses after the plan at hand has a step
\* that a replay of the flow would leave without a column it reads.
THEOREM RefusalsAlwaysRight == Spec => []RefusalsAreRight
<1>1. ViewInv => RefusalsAreRight
  <2> SUFFICES ASSUME ViewInv, NEW flow \in Flows, CheckFlowInputColumns(plan, Source.columns),
                      ~CheckFlowInputColumns(plan \o flow, Source.columns)
               PROVE  \E i \in DOMAIN flow :
                        ~(Reads(flow[i]) \subseteq
                            Replayed(SubSeq(flow, 1, i - 1), table, [target |-> {}, cache |-> cache]).columns)
    BY DEF RefusalsAreRight
  <2> DEFINE ai == [target |-> {}, cache |-> cache]
  <2>1. ~Refused(plan, Source.columns, AllKinds) /\ Refused(plan \o flow, Source.columns, AllKinds)
    BY DEF CheckFlowInputColumns
  <2>2. plan \in Seq(AllSteps) /\ flow \in Seq(AllSteps)
    BY PlanIs, FlowsAre DEF ViewInv
  <2>3. IsTable(table) /\ Covers(Walked(plan, Source.columns, AllKinds), table)
    BY DEF ViewInv, TableOk
  <2> HIDE DEF ai
  <2>4. \E i \in DOMAIN flow :
          ~(Reads(flow[i]) \subseteq Replayed(SubSeq(flow, 1, i - 1), table, ai).columns)
    BY <2>1, <2>2, <2>3, AllStepsAre, SourceIs, WalkCovers
  <2> QED
    BY <2>4 DEF ai
<1> QED
  BY <1>1, ViewInvariant, PTL

\* A group, an unpivot, a pivot or a join gives its derived columns names of
\* their own: none overwrites a key or another, and the rows keep their keys,
\* the computed ones of a group included, all but those an inner join drops.
\* Two keys of one group may clash by themselves: that is excepted.
THEOREM NothingEverOverwritten == Spec => []NothingOverwritten
<1>1. ViewInv => NothingOverwritten
  <2> SUFFICES ASSUME ViewInv, NEW t \in Steps, t.kind \in {"group", "unpivot", "pivot", "join"},
                      ~KeysClash(t)
               PROVE  Retains(t, table, [target |-> {}, cache |-> cache], Keys(t, table), Derived(t, table))
    BY DEF NothingOverwritten, Retains
  <2> DEFINE ai == [target |-> {}, cache |-> cache]
  <2>1. IsStep(t) /\ IsTable(table)
    BY ViewAssumption DEF ViewInv, TableOk
  <2> HIDE DEF ai
  <2>2. t.kind # "join" => Stay(t, table.rows) = DOMAIN table.rows
    BY DEF Stay
  <2>3. CASE t.kind = "group"
    BY <2>1, <2>3, GroupMakes DEF Derived, ai
  <2>4. CASE t.kind = "unpivot"
    BY <2>1, <2>2, <2>4, UnpivotMakes, DerivesRetains DEF Keys, Derived, ai
  <2>5. CASE t.kind = "pivot"
    BY <2>1, <2>2, <2>5, PivotMakes, DerivesRetains DEF Keys, Derived, ai
  <2>6. CASE t.kind = "join"
    BY <2>1, <2>6, JoinMakes DEF Derived, ai
  <2> QED
    BY <2>3, <2>4, <2>5, <2>6
<1> QED
  BY <1>1, ViewInvariant, PTL


=============================================================================
