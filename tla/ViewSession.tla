----------------------------- MODULE ViewSession -----------------------------
(***************************************************************************)
(* What the grid shows: ViewManager (web/src/controller-view.ts) over the  *)
(* rows of the runner, the pages of controller.ts, the sort and filter of  *)
(* the column menu with their run-all gate, and the passes that evaluate   *)
(* the rows in view.  The view is no part of the plan: a replay changes    *)
(* the rows under it.                                                      *)
(*                                                                         *)
(* Replays of the plan happen one at a time and beside no pass: WebSession *)
(* has their interleavings, LazyEval the cells that fail.  A filter looks  *)
(* for one text, a sort ascends, and a shuffle, on from the load or not at *)
(* all, is one fixed permutation.  The grid is drawn after every step.     *)
(***************************************************************************)
EXTENDS TableSteps

CONSTANTS
  Source,         \* the loaded table
  Menu,           \* the steps a request may append
  Flows,          \* the plans of the flow files
  PageSize,
  SortColumns,    \* columns the menu sorts by
  FilterColumns,  \* columns the menu filters
  Needle,         \* the text it filters for
  Shuffled,       \* the view has a shuffle seed
  MaxLine         \* bound: plans on the undo timeline

Steps == Menu \union UNION {ToSet(flow) : flow \in Flows}

ASSUME ViewAssumption ==
  /\ Shuffled \in BOOLEAN
  /\ PageSize \in Nat \ {0} /\ MaxLine \in Nat \ {0}
  /\ IsTable(Source) /\ \A t \in Steps : IsStep(t)
  /\ Flows \subseteq Seq(Steps) /\ Needle \in Text

VARIABLES
  table,       \* the derived rows and the columns of the plan
  line,        \* the undo timeline of plans and its cursor
  cursor,
  cache,       \* prompts answered so far
  specOrdered, \* ViewManager's note that the plan orders the rows
  sort,        \* the menu's sort: a column, or none
  filters,     \* the columns the menu filters
  pinned,      \* the order kept while a sort is on
  pageNum,
  queued,      \* a page waits to be evaluated
  pass,        \* the pass in flight
  gate,        \* the sort or filter that waits for the run-all gate
  window       \* the filter of the request in flight

plan == line[cursor]
edits == <<table, line, cursor>>
view == <<specOrdered, sort, filters, pinned>>
vars == <<table, line, cursor, cache, specOrdered, sort, filters,
          pinned, pageNum, queued, pass, gate, window>>

NoSort == Missing
Unpinned == [order |-> <<>>, count |-> -1]
NoPass == [on |-> FALSE, target |-> {}, all |-> FALSE]
NoGate == [pc |-> "none", what |-> "sort", column |-> Missing]
NoWindow == [on |-> FALSE, target |-> {}]

------------------------------------------------------------------------------
(* The order of the view.                                                  *)
DecidesOrder(steps) == \E i \in DOMAIN steps : steps[i].kind \in {"sort", "group", "pivot", "unpivot"}

MissingCell(cell) == cell \in {Missing, Pending}

Identity(n) == [i \in 1..n |-> i]

ComputeOrder(rows, sample, by, narrowed) ==
  LET base == IF sample THEN Reverse(Identity(Len(rows))) ELSE Identity(Len(rows))
      found(i, c) == ~MissingCell(CellAt(rows[i].cells, c)) /\ CellAt(rows[i].cells, c) = Needle
      kept == Picked(base, {k \in DOMAIN base : \A c \in narrowed : found(base[k], c)})
      cell(k) == CellAt(rows[kept[k]].cells, by)
      shown == [k \in DOMAIN kept |-> IF MissingCell(cell(k)) THEN Missing ELSE cell(k)]
  IN  IF by = NoSort THEN kept ELSE SortedBy(kept, shown)

FreshOrder == ComputeOrder(table.rows, Shuffled /\ ~specOrdered, sort, filters)

(* Mutant: a pin kept whatever the number of rows. *)
DrawnStale(pin, count, order, by) ==
  IF by = NoSort THEN Unpinned
  ELSE IF pin # Unpinned THEN pin ELSE [order |-> order, count |-> count]

(* viewOrder: with a sort on, the order drawn first holds until the number *)
(* of rows changes.                                                        *)
Drawn(pin, count, order, by) ==
  IF by = NoSort THEN Unpinned
  ELSE IF pin.count = count THEN pin ELSE [order |-> order, count |-> count]

ViewOrder == IF sort = NoSort THEN FreshOrder ELSE pinned.order

(* Draw the grid after a step that leaves `pin`, or nothing, behind. *)
Draw(pin) == pinned' = Drawn(pin, Len(table'.rows), FreshOrder', sort')

PageCount == Max({1, (Len(ViewOrder) + PageSize - 1) \div PageSize})
CurrentPage == Min({pageNum, PageCount})

Slice(order, page) ==
  {order[i] : i \in {i \in DOMAIN order : (i - 1) \div PageSize = page - 1}}

(* Mutant: positions of the view taken for rows of the table. *)
VisibleUnmapped == Slice(Identity(Len(table.rows)), pageNum)

(* visibleTarget: by the page number as last set, not the page shown. *)
VisibleTarget == Slice(ViewOrder, pageNum)

------------------------------------------------------------------------------
(* AI cells.                                                               *)
AiSteps == {i \in DOMAIN plan : plan[i].kind = "ai"}
AiColumns == {plan[i].column : i \in AiSteps} \intersect table.columns
PendingRows ==
  {i \in DOMAIN table.rows : \E c \in AiColumns : CellAt(table.rows[i].cells, c) = Pending}

(* targetOrigins: rows a select or a reshape built have only a position. *)
TargetOrigins(positions) == {OriginKey(table.rows, i) : i \in positions}

(* The prompts of the input rows a filter lets through. *)
Asked(steps, from, target) ==
  UNION {LET input == Replayed(SubSeq(steps, 1, i - 1), from, [target |-> target, cache |-> cache]).rows
         IN  {CellAt(input[r].cells, steps[i].reads) :
                r \in {r \in DOMAIN input : OriginKey(input, r) \in target}}
         : i \in {i \in DOMAIN steps : steps[i].kind = "ai"}}

(* remarkPending: off the target, what was pending is pending again. *)
RemarkPending(after, target) ==
  LET left(i, c) == /\ i \notin target /\ c \in AiColumns
                    /\ i \in DOMAIN table.rows /\ CellAt(table.rows[i].cells, c) = Pending
      cells(i) == [c \in after.columns |-> IF left(i, c) THEN Pending ELSE after.rows[i].cells[c]]
  IN  [after EXCEPT !.rows = [i \in DOMAIN @ |-> [after.rows[i] EXCEPT !.cells = cells(i)]]]

------------------------------------------------------------------------------
Init ==
  /\ table = Source /\ line = <<(<<>>)>> /\ cursor = 1 /\ cache = {}
  /\ specOrdered = FALSE
  /\ sort = NoSort /\ filters = {} /\ pinned = Unpinned
  /\ pageNum = 1 /\ queued = FALSE
  /\ pass = NoPass /\ gate = NoGate /\ window = NoWindow

(* A replay may land: no pass, no queue, no dialog, no request. *)
Idle == ~pass.on /\ ~queued /\ ~window.on /\ gate = NoGate

(* syncToSpec, and the pin dropped beside it when `repin`: sort and        *)
(* filters follow their columns, the shuffle follows the order.            *)
Sync(steps, columns, repin) ==
  LET ordered == DecidesOrder(steps)
      lost == sort # NoSort /\ sort \notin columns
      stale == repin \/ ordered # specOrdered \/ lost \/ ~(filters \subseteq columns)
  IN  /\ specOrdered' = ordered
      /\ sort' = IF lost THEN NoSort ELSE sort
      /\ filters' = filters \intersect columns
      /\ Draw(IF stale THEN Unpinned ELSE pinned)

Record(steps) ==
  /\ cursor < MaxLine
  /\ line' = Append(SubSeq(line, 1, cursor), steps)
  /\ cursor' = cursor + 1

(* A replay starts from the rows at hand when the plan only grows. *)
Grows(steps) == IsPrefix(plan, steps) /\ table.rows # <<>>

(* A request or a flow commits: AI cells run where its filter lets them.   *)
Commit(steps, target) ==
  LET from == IF Grows(steps) THEN table ELSE Source
      rest == IF Grows(steps) THEN SubSeq(steps, Len(plan) + 1, Len(steps)) ELSE steps
      known == cache \union Asked(rest, from, target)
  IN  /\ Record(steps)
      /\ cache' = known
      /\ table' = Replayed(rest, from, [target |-> target, cache |-> cache])
      /\ Sync(steps, table'.columns, FALSE)

SendRequest ==
  /\ Idle
  /\ window' = [on |-> TRUE, target |-> TargetOrigins(VisibleTarget)]
  /\ UNCHANGED <<edits, cache, view, pageNum, queued, pass, gate>>

(* The runner's guards on a patch: the order of validates, an empty table. *)
Request(t) ==
  /\ window.on
  /\ CheckValidateColumnOrder(Append(plan, t), Source.columns)
  /\ Commit(Append(plan, t), window.target)
  /\ table'.rows # <<>>
  /\ window' = NoWindow
  /\ UNCHANGED <<pageNum, queued, pass, gate>>

(* Answered, failed, declined or stopped. *)
RequestEnds ==
  /\ window.on
  /\ window' = NoWindow
  /\ UNCHANGED <<edits, cache, view, pageNum, queued, pass, gate>>

OpenFlow(steps) ==
  /\ Idle
  /\ CheckFlowInputColumns(steps, Source.columns)
  /\ Commit(steps, TargetOrigins(VisibleTarget))
  /\ UNCHANGED <<pageNum, queued, pass, gate, window>>

(* applySpecCached: a fresh replay that calls nothing. *)
Cached(steps) == Replayed(steps, Source, [target |-> {}, cache |-> cache])

Move(position) ==
  /\ Idle
  /\ position \in DOMAIN line \ {cursor}
  /\ cursor' = position
  /\ table' = Cached(line[position])
  /\ Sync(line[position], table'.columns, FALSE)
  /\ UNCHANGED <<line, cache, pageNum, queued, pass, gate, window>>

(* editCell of the row shown at a place; the sort takes it in at once. *)
EditCell(place, column) ==
  LET row == ViewOrder[place]
      steps == Append(plan, [kind |-> "edit", column |-> column, row |-> row, text |-> Needle])
  IN  /\ Idle
      /\ place \in DOMAIN ViewOrder /\ column \in table.columns
      /\ Record(steps)
      /\ table' = Cached(steps)
      /\ Sync(steps, table'.columns, TRUE)
      /\ UNCHANGED <<cache, pageNum, queued, pass, gate, window>>

DeleteColumn(column) ==
  LET steps == Append(plan, [kind |-> "select", columns |-> table.columns \ {column}])
  IN  /\ Idle
      /\ column \in table.columns /\ Cardinality(table.columns) > 1
      /\ Record(steps)
      /\ table' = Cached(steps)
      /\ Sync(steps, table'.columns, FALSE)
      /\ UNCHANGED <<cache, pageNum, queued, pass, gate, window>>

------------------------------------------------------------------------------
(* Pages and passes.                                                       *)

GoToPage(page) ==
  /\ gate.pc # "asking" /\ page \in 1..PageCount
  /\ pageNum' = page
  /\ queued' = TRUE
  /\ UNCHANGED <<edits, cache, view, pass, gate, window>>

(* evaluateVisible, when the queue comes to it. *)
EvaluateVisible ==
  LET target == VisibleTarget \intersect PendingRows
  IN  /\ queued /\ ~pass.on
      /\ queued' = FALSE
      /\ pass' = IF window.on \/ target = {} THEN NoPass
                 ELSE [on |-> TRUE, target |-> target, all |-> FALSE]
      /\ UNCHANGED <<edits, cache, view, pageNum, gate, window>>

(* A pass lands; the sort takes its values in. *)
Lands(target, asked) ==
  LET after == Replayed(plan, Source, [target |-> target, cache |-> cache \union asked])
  IN  /\ cache' = cache \union asked
      /\ table' = IF target = {} THEN after ELSE RemarkPending(after, pass.target)
      /\ UNCHANGED <<line, cursor, specOrdered, sort, filters>>
      /\ Draw(Unpinned)

EndPass ==
  LET target == TargetOrigins(pass.target)
  IN  /\ pass.on
      /\ Lands(target, Asked(plan, Source, target))
      /\ pass' = NoPass
      /\ UNCHANGED <<pageNum, queued, gate, window>>

(* Cancel on the panel of a run: what was answered is kept, by a second    *)
(* pass without a target.                                                  *)
CancelRun ==
  /\ pass.on /\ pass.all
  /\ \E done \in SUBSET Asked(plan, Source, TargetOrigins(pass.target)) : Lands({}, done)
  /\ pass' = NoPass
  /\ UNCHANGED <<pageNum, queued, gate, window>>

------------------------------------------------------------------------------
(* The column menu.                                                        *)

(* setSort or setFilter, and the page evaluated unless the spend was       *)
(* declined.                                                               *)
Apply(what, column, evaluate) ==
  /\ IF what = "sort"
     THEN sort' = column /\ UNCHANGED filters
     ELSE filters' = filters \union {column} /\ UNCHANGED sort
  /\ UNCHANGED specOrdered
  /\ queued' = (queued \/ evaluate)
  /\ Draw(Unpinned)

Columns(what) == IF what = "sort" THEN SortColumns ELSE FilterColumns

Choose(what, column) ==
  /\ gate = NoGate
  /\ column \in Columns(what) \intersect table.columns
  /\ gate' = [pc |-> "settling", what |-> what, column |-> column]
  /\ UNCHANGED <<edits, cache, view, pageNum, queued, pass, window>>

Settled == gate.pc = "settling" /\ ~queued /\ ~pass.on

(* gateViewApply: nothing of the column is pending. *)
Proceed ==
  /\ \/ Settled /\ (PendingRows = {} \/ gate.column \notin AiColumns)
     \/ gate.pc = "running" /\ ~pass.on
  /\ UNCHANGED <<edits, cache, pageNum, pass, window>>
  /\ Apply(gate.what, gate.column, TRUE)
  /\ gate' = NoGate

Ask ==
  /\ Settled /\ gate.column \in AiColumns
  /\ Cardinality(PendingRows) > PageSize
  /\ gate' = [gate EXCEPT !.pc = "asking"]
  /\ UNCHANGED <<edits, cache, view, pageNum, queued, pass, window>>

(* A page or less runs without asking.  The model has no run beside a      *)
(* request.                                                                *)
Run ==
  /\ \/ gate.pc = "asking"
     \/ Settled /\ gate.column \in AiColumns /\ Cardinality(PendingRows) \in 1..PageSize
  /\ ~window.on
  /\ pass' = [on |-> PendingRows # {}, target |-> PendingRows, all |-> TRUE]
  /\ gate' = [gate EXCEPT !.pc = "running"]
  /\ UNCHANGED <<edits, cache, view, pageNum, queued, window>>

ApplyEvaluatedOnly ==
  /\ gate.pc = "asking"
  /\ UNCHANGED <<edits, cache, pageNum, pass, window>>
  /\ Apply(gate.what, gate.column, FALSE)
  /\ gate' = NoGate

Decline ==
  /\ gate.pc = "asking"
  /\ gate' = NoGate
  /\ UNCHANGED <<edits, cache, view, pageNum, queued, pass, window>>

(* A sort or a filter taken off asks nothing. *)
Clear(what, column) ==
  /\ gate.pc # "asking"
  /\ IF what = "sort"
     THEN sort # NoSort /\ sort' = NoSort /\ UNCHANGED filters
     ELSE column \in filters /\ filters' = filters \ {column} /\ UNCHANGED sort
  /\ UNCHANGED <<edits, cache, specOrdered, pageNum, pass, gate, window>>
  /\ queued' = TRUE
  /\ Draw(Unpinned)

Next ==
  \/ SendRequest \/ RequestEnds \/ \E t \in Menu : Request(t)
  \/ \E flow \in Flows : OpenFlow(flow)
  \/ \E position \in DOMAIN line : Move(position)
  \/ \E place \in DOMAIN ViewOrder, column \in FilterColumns : EditCell(place, column)
  \/ \E column \in table.columns : DeleteColumn(column)
  \/ \E page \in 1..PageCount : GoToPage(page)
  \/ EvaluateVisible \/ EndPass
  \/ CancelRun
  \/ \E column \in SortColumns : Choose("sort", column)
  \/ \E column \in FilterColumns : Choose("filter", column)
  \/ Proceed \/ Ask \/ Run \/ ApplyEvaluatedOnly \/ Decline
  \/ Clear("sort", Missing) \/ \E column \in filters : Clear("filter", column)

Spec == Init /\ [][Next]_vars

------------------------------------------------------------------------------
(* The grid shows rows of the table, none of them twice, and all of them   *)
(* when nothing is filtered, through every replay that changes the rows    *)
(* under a pinned order.                                                   *)
ShownOnce ==
  /\ IsInjective(ViewOrder)
  /\ Range(ViewOrder) \subseteq DOMAIN table.rows
  /\ filters = {} => Range(ViewOrder) = DOMAIN table.rows

(* The columns that identify a row of the result, each with the column it  *)
(* is read from, and the rows whose keys the result has.                   *)
Keys(t, input) ==
  LET same(columns) == {<<c, c>> : c \in columns}
  IN  CASE t.kind = "group" -> {<<KeyNames(t)[k], t.by[k].reads>> : k \in DOMAIN t.by}
        [] t.kind = "unpivot" -> same(t.id)
        [] t.kind = "pivot" -> same(t.index)
        [] OTHER -> same(input.columns)
Derived(t, input) ==
  CASE t.kind = "group" -> Len(t.agg)
    [] t.kind = "unpivot" -> 2
    [] t.kind = "pivot" -> Len(OnValues(t, input.rows))
    [] OTHER -> Len(t.with.columns)
Stay(t, rows) ==
  {i \in DOMAIN rows : t.kind = "join" /\ t.inner => Matches(t, rows[i]) # {}}

(* A group key computed at a place has the name of another key: then the   *)
(* code does overwrite.                                                    *)
KeysClash(t) ==
  t.kind = "group" /\ \E k, n \in DOMAIN t.by : KeyNames(t)[k] = KeyNames(t)[n] /\ t.by[k] # t.by[n]

(* No step of a plan overwrites the columns that identify a row, nor loses *)
(* a derived one: every column it claims is there, and the rows have the   *)
(* keys they had, computed ones included, all rows but those an inner join *)
(* drops.  A group whose keys clash by themselves is excepted.             *)
NothingOverwritten ==
  \A t \in Steps :
    t.kind \in {"group", "unpivot", "pivot", "join"} /\ ~KeysClash(t) =>
      LET result == Applied(t, table, [target |-> {}, cache |-> cache])
          keys == Keys(t, table)
      IN  /\ Cardinality(result.columns) = Cardinality({k[1] : k \in keys}) + Derived(t, table)
          /\ {[k \in keys |-> CellAt(result.rows[i].cells, k[1])] : i \in DOMAIN result.rows}
               = {[k \in keys |-> CellAt(table.rows[i].cells, k[2])] : i \in Stay(t, table.rows)}

(* A flow is refused only if one of its steps would find a column gone:    *)
(* what the walk without data gives a step is what a replay gives it,      *)
(* derived names included.                                                 *)
RefusalsAreRight ==
  \A flow \in Flows :
    CheckFlowInputColumns(plan, Source.columns) /\ ~CheckFlowInputColumns(plan \o flow, Source.columns)
    => \E i \in DOMAIN flow :
         ~(Reads(flow[i]) \subseteq
             Replayed(SubSeq(flow, 1, i - 1), table, [target |-> {}, cache |-> cache]).columns)

(* When the pass of an opened page lands, no row of the page has a pending *)
(* cell: through the sort, the filters and the shuffle of the view, as     *)
(* long as the rows keep their origins, no step reads the answers and the  *)
(* page is one the view has.                                               *)
Traced ==
  \A i \in DOMAIN plan :
    plan[i].kind \notin {"select", "group", "unpivot", "pivot"} /\ Reads(plan[i]) \intersect AiColumns = {}

PageIsEvaluated ==
  [][EndPass /\ ~pass.all /\ ~queued /\ Traced /\ pageNum <= PageCount =>
       Slice(ViewOrder, pageNum) \intersect PendingRows' = {}]_vars
===============================================================================
