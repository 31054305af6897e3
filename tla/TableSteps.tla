------------------------------ MODULE TableSteps ------------------------------
(***************************************************************************)
(* The transformation steps of headless/engine.ts as functions of tables,  *)
(* and the two walks of headless/index.ts that judge a plan without        *)
(* running it.                                                             *)
(*                                                                         *)
(* A text is a sequence of numbers: a column's name, or what a cell holds. *)
(* Names and cells share one type because `unpivot` and `pivot` turn one   *)
(* into the other; Append(n, 2) is the name "n_2".  A row carries the      *)
(* place of the source row it copies (the origin tag), 0 when it was       *)
(* computed.  Every row of a table has the same columns.  An expression is *)
(* known by the column it reads.                                           *)
(***************************************************************************)
EXTENDS Integers, Sequences, SequencesExt, FiniteSetsExt, Picks

Missing == <<>>        \* null
Pending == <<-1>>      \* the sentinel of an AI cell not yet evaluated
Name == <<7>>          \* the default names of an unpivot
Value == <<8>>
Key == <<10>>          \* a computed group key is named after its place: key_1, key_2

Text == Seq(Int)

CellAt(cells, column) == IF column \in DOMAIN cells THEN cells[column] ELSE Missing
Tuple(cells, columns) == [c \in columns |-> CellAt(cells, c)]

FirstSeen(s) == Picked(s, {i \in DOMAIN s : \A j \in DOMAIN s : j < i => s[j] # s[i]})

------------------------------------------------------------------------------
(* Names of derived columns.                                               *)

(* Mutant: a derived name taken as it is. *)
FreeColumnNameBlind(name, taken) == name

FreeColumnName(name, taken) ==
  IF name \notin taken THEN name
  ELSE Append(name, Min({n \in 2..Cardinality(taken) + 2 : Append(name, n) \notin taken}))

(* Each of `wanted` in turn, none of them one of `taken` or an earlier one; *)
(* those in `own` stay as they are.                                        *)
Named(wanted, own, taken) ==
  LET names[n \in 0..Len(wanted)] ==
        IF n = 0 THEN <<>>
        ELSE Append(names[n - 1],
                    IF wanted[n] \in own THEN wanted[n]
                    ELSE FreeColumnName(wanted[n], taken \union ToSet(names[n - 1])))
  IN  names[Len(wanted)]

Claimed(wanted, taken) == Named(wanted, {}, taken)

(* A computed key takes the name of its place, free or not.                *)
KeyNames(t) == [k \in DOMAIN t.by |-> IF t.by[k].computed THEN Append(Key, k) ELSE t.by[k].reads]
AggNames(t) == Claimed(t.agg, ToSet(KeyNames(t)))
NamesTo(t) == FreeColumnName(Name, t.id)
ValuesTo(t) == FreeColumnName(Value, t.id \union {NamesTo(t)})
OnValues(t, rows) == FirstSeen([i \in DOMAIN rows |-> CellAt(rows[i].cells, t.on)])
PivotNames(t, rows) == Claimed(OnValues(t, rows), t.index)

(* A join renames only what the left table has, and past the right table's *)
(* own names too.                                                          *)
RightNames(t, columns) ==
  LET theirs == ToSet(t.with.columns)
  IN  Named(t.with.columns, theirs \ columns, columns \union theirs)

------------------------------------------------------------------------------
(* Order: numbers by magnitude, then text, then empty cells, stable.       *)
SortsBefore(x, y) ==
  /\ x # Missing
  /\ \/ y = Missing
     \/ x # Pending /\ y = Pending
     \/ x # Pending /\ y # Pending /\ x[1] < y[1]

(* `s` in the order of its `cells`. *)
SortedBy(s, cells) ==
  LET before(i, j) == SortsBefore(cells[i], cells[j])
      rank(i) == Cardinality({j \in DOMAIN s : before(j, i) \/ (j <= i /\ ~before(i, j))})
  IN  [k \in DOMAIN s |-> s[CHOOSE i \in DOMAIN s : rank(i) = k]]

------------------------------------------------------------------------------
(* Rows with one more column, or another value in it. *)
With(rows, column, values) ==
  [i \in DOMAIN rows |-> [rows[i] EXCEPT !.cells =
     [c \in DOMAIN @ \union {column} |-> IF c = column THEN values[i] ELSE @[c]]]]

(* Of two keys of one name the later is written last.                      *)
Group(t, rows) ==
  LET key(i) == [k \in DOMAIN t.by |-> CellAt(rows[i].cells, t.by[k].reads)]
      keys == FirstSeen([i \in DOMAIN rows |-> key(i)])
      size(k) == <<Cardinality({i \in DOMAIN rows : key(i) = keys[k]})>>
      last(c) == Max({n \in DOMAIN t.by : KeyNames(t)[n] = c})
      names == ToSet(AggNames(t))
  IN  [k \in DOMAIN keys |->
         [origin |-> 0,
          cells |-> [c \in ToSet(KeyNames(t)) \union names |->
            IF c \in names THEN size(k) ELSE keys[k][last(c)]]]]

Unpivot(t, rows) ==
  FlattenSeq([i \in DOMAIN rows |-> [m \in DOMAIN t.measures |->
    [origin |-> 0,
     cells |-> [c \in t.id \union {NamesTo(t), ValuesTo(t)} |->
       CASE c = ValuesTo(t) -> CellAt(rows[i].cells, t.measures[m])
         [] c = NamesTo(t) /\ c # ValuesTo(t) -> t.measures[m]
         [] OTHER -> CellAt(rows[i].cells, c)]]]])

(* The aggregate is "first". *)
Pivot(t, rows) ==
  LET key(i) == Tuple(rows[i].cells, t.index)
      keys == FirstSeen([i \in DOMAIN rows |-> key(i)])
      on == OnValues(t, rows)
      names == PivotNames(t, rows)
      bucket(k, v) == {i \in DOMAIN rows : key(i) = keys[k] /\ CellAt(rows[i].cells, t.on) = on[v]}
      cell(k, v) == IF bucket(k, v) = {} THEN Missing
                    ELSE CellAt(rows[Min(bucket(k, v))].cells, t.values)
  IN  [k \in DOMAIN keys |->
         [origin |-> 0,
          cells |-> [c \in t.index \union ToSet(names) |->
            IF c \in ToSet(names) THEN cell(k, Max({v \in DOMAIN names : names[v] = c}))
            ELSE keys[k][c]]]]

(* One row per match.  A row without any is kept with empty cells, and     *)
(* dropped by an inner join.                                               *)
Matches(t, row) ==
  {m \in DOMAIN t.with.rows : CellAt(t.with.rows[m], t.on) = CellAt(row.cells, t.on)}

Join(t, table) ==
  LET names == RightNames(t, table.columns)
      right(m, c) == CellAt(m, t.with.columns[Max({n \in DOMAIN names : names[n] = c})])
      merged(row, m) ==
        [row EXCEPT !.cells = [c \in table.columns \union ToSet(names) |->
           IF c \in ToSet(names) THEN right(m, c) ELSE row.cells[c]]]
      found(row) == Picked(t.with.rows, Matches(t, row))
      joined(row) ==
        IF Matches(t, row) # {} THEN [m \in DOMAIN found(row) |-> merged(row, found(row)[m])]
        ELSE IF t.inner THEN <<>> ELSE <<merged(row, [c \in {} |-> Missing])>>
  IN  FlattenSeq([i \in DOMAIN table.rows |-> joined(table.rows[i])])

(* How a row is known to the filter of AI calls: by its origin, or by its  *)
(* position when it has none.                                              *)
OriginKey(rows, i) == IF rows[i].origin = 0 THEN i ELSE rows[i].origin

(* An AI cell is answered when the filter lets it call, or from the cache  *)
(* of the prompts answered before.                                         *)
Answer(prompt) == prompt

(* One step over a table; `ai` has the filter's keys and the cache.        *)
Applied(t, table, ai) ==
  LET rows == table.rows
      at(i, column) == CellAt(rows[i].cells, column)
      cell(column) == [i \in DOMAIN rows |-> at(i, column)]
      over(columns, result) == [columns |-> columns, rows |-> result]
      put(column, values) ==
        over(table.columns \union {column}, With(rows, column, values))
  IN  CASE t.kind = "filter" ->
             over(table.columns, Picked(rows, {i \in DOMAIN rows : at(i, t.reads) = t.text}))
        [] t.kind = "mutate" -> put(t.column, cell(t.reads))
        [] t.kind = "edit" ->
             put(t.column, [i \in DOMAIN rows |-> IF i = t.row THEN t.text ELSE at(i, t.column)])
        [] t.kind = "ai" ->
             put(t.column, [i \in DOMAIN rows |->
                IF OriginKey(rows, i) \in ai.target \/ at(i, t.reads) \in ai.cache
                THEN Answer(at(i, t.reads)) ELSE Pending])
        [] t.kind = "validate" ->
             LET why == Append(t.into, 1)
                 verdicts == [i \in DOMAIN rows |-> <<IF at(i, t.reads) = Missing THEN 0 ELSE 1>>]
             IN  over(table.columns \union {t.into, why},
                      With(With(rows, t.into, verdicts), why, cell(Missing)))
        [] t.kind = "split" ->
             LET gone == IF t.drop THEN {t.from} ELSE {}
                 filled == With(With(rows, t.into[1], cell(t.from)), t.into[2], cell(Missing))
                 columns == (table.columns \union ToSet(t.into)) \ gone
             IN  over(columns, [i \in DOMAIN rows |->
                        [filled[i] EXCEPT !.cells = Tuple(@, columns)]])
        [] t.kind = "select" ->
             over(t.columns, [i \in DOMAIN rows |->
                [origin |-> 0, cells |-> Tuple(rows[i].cells, t.columns)]])
        [] t.kind = "sort" ->
             over(table.columns, SortedBy(rows, cell(t.reads)))
        [] t.kind = "group" -> over(ToSet(KeyNames(t)) \union ToSet(AggNames(t)), Group(t, rows))
        [] t.kind = "unpivot" -> over(t.id \union {NamesTo(t), ValuesTo(t)}, Unpivot(t, rows))
        [] t.kind = "pivot" -> over(t.index \union ToSet(PivotNames(t, rows)), Pivot(t, rows))
        [] t.kind = "join" ->
             over(table.columns \union ToSet(RightNames(t, table.columns)), Join(t, table))

Replayed(plan, source, ai) ==
  LET after[n \in 0..Len(plan)] ==
        IF n = 0 THEN source ELSE Applied(plan[n], after[n - 1], ai)
  IN  after[Len(plan)]

------------------------------------------------------------------------------
(* The walks: the columns a plan has at a step, as far as it can be told   *)
(* without the data.                                                       *)

(* Mutant: an aggregate counted under the name it asks for. *)
GroupedAsAsked(t) == ToSet(KeyNames(t)) \union ToSet(t.agg)

Grouped(t) == ToSet(KeyNames(t)) \union ToSet(AggNames(t))

(* A split that drops its column leaves it available: the code does so.    *)
Provided(t, walk) ==
  CASE t.kind = "group" ->
         [walk EXCEPT !.available = Grouped(t), !.unknowable = FALSE]
    [] t.kind = "unpivot" ->
         [walk EXCEPT !.available = t.id \union {NamesTo(t), ValuesTo(t)}, !.unknowable = FALSE]
    [] t.kind = "pivot" -> [walk EXCEPT !.available = t.index, !.unknowable = TRUE]
    [] t.kind = "join" -> [walk EXCEPT !.unknowable = TRUE]
    [] t.kind = "select" -> [walk EXCEPT !.available = t.columns, !.unknowable = FALSE]
    [] t.kind \in {"mutate", "edit", "ai"} -> [walk EXCEPT !.available = @ \union {t.column}]
    [] t.kind = "split" -> [walk EXCEPT !.available = @ \union ToSet(t.into)]
    [] t.kind = "validate" -> [walk EXCEPT !.available = @ \union {t.into, Append(t.into, 1)}]
    [] OTHER -> walk

Reads(t) ==
  CASE t.kind \in {"filter", "mutate", "ai", "validate", "sort"} -> {t.reads}
    [] t.kind = "edit" -> {t.column}
    [] t.kind = "select" -> t.columns
    [] t.kind = "group" -> {t.by[k].reads : k \in DOMAIN t.by}
    [] t.kind = "split" -> {t.from}
    [] t.kind = "pivot" -> t.index \union {t.on, t.values}
    [] t.kind = "unpivot" -> t.id \union ToSet(t.measures)
    [] t.kind = "join" -> {}

(* A plan is refused at the first step of the checked kinds that reads     *)
(* what no earlier step provides.                                          *)
Step(t, walk, kinds) ==
  [Provided(t, walk) EXCEPT !.refused =
     \/ walk.refused
     \/ t.kind \in kinds /\ ~walk.unknowable /\ ~(Reads(t) \subseteq walk.available)]

Walked(plan, columns, kinds) ==
  LET walk[n \in 0..Len(plan)] ==
        IF n = 0 THEN [available |-> columns, unknowable |-> FALSE, refused |-> FALSE]
        ELSE Step(plan[n], walk[n - 1], kinds)
  IN  walk[Len(plan)]

Refused(plan, columns, kinds) == Walked(plan, columns, kinds).refused

AllKinds == {"filter", "mutate", "edit", "ai", "validate", "split", "select", "sort",
             "group", "unpivot", "pivot", "join"}

(* What the schema of plans lets a step be, and what a table is.           *)
IsStep(t) ==
  /\ t.kind \in AllKinds
  /\ t.kind \in {"filter", "mutate", "ai", "validate", "sort"} => t.reads \in Text
  /\ t.kind \in {"mutate", "edit", "ai"} => t.column \in Text
  /\ t.kind \in {"filter", "edit"} => t.text \in Text
  /\ t.kind = "validate" => t.into \in Text
  /\ t.kind = "split" => t.from \in Text /\ t.into \in Text \X Text /\ t.drop \in BOOLEAN
  /\ t.kind = "select" => t.columns \subseteq Text /\ IsFiniteSet(t.columns)
  /\ t.kind = "group" => t.by \in Seq([reads : Text, computed : BOOLEAN]) /\ t.agg \in Seq(Text)
  /\ t.kind = "unpivot" =>
       t.id \subseteq Text /\ IsFiniteSet(t.id) /\ t.measures \in Seq(Text) \ {<<>>}
  /\ t.kind = "pivot" => t.index \subseteq Text /\ IsFiniteSet(t.index)
  /\ t.kind = "join" =>
       /\ t.with.columns \in Seq(Text) /\ IsInjective(t.with.columns)
       /\ t.with.rows \in Seq([ToSet(t.with.columns) -> Text])
       /\ t.inner \in BOOLEAN

RowOver(columns) == [origin : Nat, cells : [columns -> Text]]
IsTable(table) ==
  /\ table = [columns |-> table.columns, rows |-> table.rows]
  /\ table.columns \subseteq Text /\ IsFiniteSet(table.columns)
  /\ table.rows \in Seq(RowOver(table.columns))

CheckValidateColumnOrder(plan, columns) == ~Refused(plan, columns, {"validate"})
CheckFlowInputColumns(plan, columns) == ~Refused(plan, columns, AllKinds)
===============================================================================
