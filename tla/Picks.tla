-------------------------------- MODULE Picks --------------------------------
(***************************************************************************)
(* Parts of a sequence, told by sets: the sequence library selects by a    *)
(* predicate and a recursion, which no theorem here could speak about.     *)
(***************************************************************************)
EXTENDS Integers, Sequences, FiniteSetsExt

(* How many of some places there are up to one of them. *)
UpTo(places, i) == Cardinality({j \in places : j <= i})

(* The elements of `s` at some of its places, in their order. *)
Picked(s, places) ==
  [k \in 1..Cardinality(places) |-> s[CHOOSE i \in places : UpTo(places, i) = k]]

(* The elements of `s` that are in S, and those that are not. *)
Only(s, S) == Picked(s, {i \in DOMAIN s : s[i] \in S})
Without(s, S) == Picked(s, {i \in DOMAIN s : s[i] \notin S})
===============================================================================
