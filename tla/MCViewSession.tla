---------------------------- MODULE MCViewSession ----------------------------
(* An instance of ViewSession: two rows, a page each. *)
EXTENDS ViewSession

A == <<3>>
B == <<4>>
Summary == <<6>>
One == <<1>>
Two == <<2>>

(* Column B holds the name of column A in one row: a pivot names a column after it. *)
SourceTable ==
  [columns |-> {A, B},
   rows |-> <<[origin |-> 1, cells |-> (A :> Two @@ B :> One)],
              [origin |-> 2, cells |-> (A :> One @@ B :> A)]>>]

(* The right table has a column of the name a renamed one would get, and  *)
(* no match for the first row.                                            *)
RightTable ==
  [columns |-> <<A, Append(A, 2)>>,
   rows |-> <<(A :> One @@ Append(A, 2) :> Two), (A :> One @@ Append(A, 2) :> One)>>]

Ai == [kind |-> "ai", column |-> Summary, reads |-> A]
Filter == [kind |-> "filter", reads |-> B, text |-> One]
GroupA ==
  [kind |-> "group", agg |-> <<A, Append(Key, 2)>>,
   by |-> <<[reads |-> A, computed |-> FALSE], [reads |-> B, computed |-> TRUE]>>]
JoinRight == [kind |-> "join", with |-> RightTable, on |-> A, inner |-> FALSE]
InnerRight == [JoinRight EXCEPT !.inner = TRUE]

Validate == [kind |-> "validate", reads |-> Summary, into |-> <<5>>]
Split == [kind |-> "split", from |-> B, into |-> <<B, Name>>, drop |-> FALSE]
UnpivotB == [kind |-> "unpivot", id |-> {A, Name}, measures |-> <<B>>]
PivotB == [kind |-> "pivot", index |-> {A}, on |-> B, values |-> B]

Requests == {Ai, Filter}

(* The last of them reads the column that only a request adds. *)
Plans ==
  {<<GroupA, [kind |-> "sort", reads |-> Append(A, 2)]>>,
   <<JoinRight, [kind |-> "mutate", column |-> A, reads |-> B]>>,
   <<Split, UnpivotB>>, <<Validate, InnerRight, PivotB>>}

SortCols == {Summary}
FilterCols == {B}
===============================================================================
