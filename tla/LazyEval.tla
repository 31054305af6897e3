------------------------------- MODULE LazyEval -------------------------------
(***************************************************************************)
(* Lazy evaluation of an AI column: LazyManager (controller-lazy.ts) over  *)
(* the cells of the runner (headless/index.ts: applyMutateLlm,             *)
(* evalLlmBatch, replay).  A replay fills the AI cells of the rows it is   *)
(* aimed at by model calls, refills the others from the cell cache, and    *)
(* leaves the rest pending; a cell whose call fails carries a failure.     *)
(*                                                                         *)
(* One operation at a time: WebSession has the interleavings.  A source    *)
(* row is its position, which is also the origin tag its copies carry; its *)
(* prompt reads source columns only, and rows may share a prompt.  The     *)
(* view adds no sort or filter of its own, and "Always run on all rows" is *)
(* off.                                                                    *)
(***************************************************************************)
EXTENDS Integers, Sequences, SequencesExt, FiniteSetsExt

CONSTANTS
  Height,    \* rows of the source
  Prompts,   \* distinct prompts they render to
  PageSize,
  Step,      \* among "ai", "flip" (sort by a source column) and
             \* "rank" (sort by the AI column)
  MaxLine    \* bound: plans on the undo timeline

ASSUME LazyAssumption ==
  /\ Height \in Nat \ {0} /\ Prompts \in Nat \ {0} /\ PageSize \in Nat \ {0}
  /\ Step \subseteq {"ai", "flip", "rank"}
  /\ MaxLine \in Nat \ {0}

VARIABLES
  spec,        \* the committed plan
  rows,        \* its rows: origin and AI cell
  cache,       \* the prompts with an answer in the cell cache
  failedInfo,  \* derived positions the manager knows as failed
  line,        \* the undo timeline and its cursor (see SpecJournal)
  cursor,
  sent         \* history: the rows the last operation sent to the model

vars == <<spec, rows, cache, failedInfo, line, cursor, sent>>

Origins == 1..Height
Prompt(o) == 1 + ((o - 1) % Prompts)
Cell == {"none", "pending", "failed", "value"}
Row == [origin : Origins, cell : Cell]
Source == [o \in Origins |-> [origin |-> o, cell |-> "none"]]

(* A step at most once; a sort by the AI column after the column is made.  *)
Plans ==
  {p \in UNION {[1..n -> Step] : n \in 0..Cardinality(Step)} :
     /\ IsInjective(p)
     /\ \A i \in DOMAIN p : p[i] = "rank" => \E j \in 1..i : p[j] = "ai"}

HasAi(plan) == "ai" \in ToSet(plan)

(* Mutant: rows the filter excludes are not refilled. *)
FilledNoRefill(input, target, bad, known) ==
  [i \in DOMAIN input |-> [input[i] EXCEPT !.cell =
     LET o == input[i].origin
     IN  IF o \in bad THEN "failed" ELSE IF o \in target THEN "value" ELSE "pending"]]

(* What one replay does with AI cells: the origins its filter lets call    *)
(* the model, those whose call fails, the answers at hand before it.       *)
Filled(input, target, bad, known) ==
  [i \in DOMAIN input |-> [input[i] EXCEPT !.cell =
     LET o == input[i].origin
     IN  IF o \in bad THEN "failed"
         ELSE IF o \in target \/ Prompt(o) \in known THEN "value" ELSE "pending"]]

(* applySortT by a source column, descending. *)
Flipped(input) ==
  [k \in DOMAIN input |-> input[CHOOSE i \in DOMAIN input : input[i].origin = Height + 1 - k]]

(* compareSortKeys over numeric answers: sentinels sort as text, after     *)
(* every number and equal among themselves.                                *)
SortsFirst(r, q) ==
  r.cell = "value" /\ (q.cell = "value" => Prompt(r.origin) < Prompt(q.origin))

(* applySortT by the AI column: the sort is stable. *)
Before(input) ==
  {p \in (DOMAIN input) \X (DOMAIN input) :
     \/ SortsFirst(input[p[1]], input[p[2]])
     \/ p[1] < p[2] /\ ~SortsFirst(input[p[2]], input[p[1]])}
Ranked(input) ==
  LET before == Before(input)
      rank(i) == Cardinality({j \in DOMAIN input : j = i \/ <<j, i>> \in before})
  IN  [k \in DOMAIN input |-> input[CHOOSE i \in DOMAIN input : rank(i) = k]]

Applied(step, input, target, bad, known) ==
  CASE step = "ai"   -> Filled(input, target, bad, known)
    [] step = "flip" -> Flipped(input)
    [] step = "rank" -> Ranked(input)

Run(from, steps, target, bad, known) ==
  LET after[n \in 0..Len(steps)] ==
        IF n = 0 THEN from ELSE Applied(steps[n], after[n - 1], target, bad, known)
  IN  after[Len(steps)]

(* The committed steps a replay need not run again. *)
Reused(plan, fresh) == IF ~fresh /\ IsPrefix(spec, plan) THEN Len(spec) ELSE 0
ToRun(plan, fresh) == SubSeq(plan, Reused(plan, fresh) + 1, Len(plan))

Replay(plan, fresh, target, bad, known) ==
  Run(IF Reused(plan, fresh) > 0 THEN rows ELSE Source, ToRun(plan, fresh),
      target, bad, known)

(* The rows a replay aimed at `target` sends to the model. *)
Calls(plan, fresh, target) ==
  {o \in target : HasAi(ToRun(plan, fresh)) /\ Prompt(o) \notin cache}

(* The position of a row among the inputs of the AI step. *)
StepInput(o) ==
  LET before == SubSeq(spec, 1, (CHOOSE n \in DOMAIN spec : spec[n] = "ai") - 1)
      input == Run(Source, before, {}, {}, {})
  IN  CHOOSE i \in DOMAIN input : input[i].origin = o

------------------------------------------------------------------------------
(* scan(): a position is failed by its cell, or pending and known failed.  *)
Pending == {i \in DOMAIN rows : rows[i].cell = "pending" /\ i \notin failedInfo}
Failed ==
  {i \in DOMAIN rows : \/ rows[i].cell = "failed"
                       \/ rows[i].cell = "pending" /\ i \in failedInfo}
Lagging == Pending \union Failed

Pages == 1..((Height - 1) \div PageSize + 1)
OnPage(page) == {i \in DOMAIN rows : (i - 1) \div PageSize = page - 1}

(* Mutant: positions taken for origins. *)
PositionsAsOrigins(target) == target

(* targetOrigins: positions of the grid to source rows. *)
TargetOrigins(target) == {rows[i].origin : i \in target}

(* remarkFailures: pending positions known as failed. *)
RemarkFailures(after, known) ==
  [i \in DOMAIN after |-> [after[i] EXCEPT !.cell =
     IF @ = "pending" /\ i \in known THEN "failed" ELSE @]]

(* Mutant: the free refills of other pages kept. *)
KeepRefills(after, target) == after

(* remarkPending: off the target, positions that were pending before the   *)
(* pass are pending again; a pass without a target is exempt.              *)
RemarkPending(after, target) ==
  [i \in DOMAIN after |-> [after[i] EXCEPT !.cell =
     IF target # {} /\ i \notin target /\ rows[i].cell = "pending" THEN "pending" ELSE @]]

Answered(origins) == {Prompt(o) : o \in origins}

(* The rows after evaluatePass over the positions `target`, with the       *)
(* answers `known` at hand, the failures `bad`, and failedInfo `info`.     *)
Landed(target, bad, known, info) ==
  RemarkPending(
    RemarkFailures(Replay(spec, TRUE, TargetOrigins(target), bad, known), info), target)

(* evaluatePass; failures are known by their input positions. *)
Pass(target, info) ==
  LET calls == Calls(spec, TRUE, TargetOrigins(target))
  IN  /\ sent' = calls
      /\ UNCHANGED <<spec, line, cursor>>
      /\ \E bad \in SUBSET calls :
           /\ failedInfo' = info \union {StepInput(o) : o \in bad}
           /\ cache' = cache \union Answered(calls \ bad)
           /\ rows' = Landed(target, bad, cache, failedInfo')

------------------------------------------------------------------------------
Init ==
  /\ spec = <<>> /\ rows = Source /\ cache = {} /\ failedInfo = {}
  /\ line = <<(<<>>)>> /\ cursor = 1
  /\ sent = {}

(* evaluateVisible: the pending rows of the page just opened. *)
OpenPage(page) ==
  LET target == OnPage(page) \intersect Pending
  IN  target # {} /\ Pass(target, failedInfo)

RetryFailedRows == Failed # {} /\ Pass(Failed, failedInfo \ Failed)

RunAll == Lagging # {} /\ Pass(Lagging, failedInfo \ Failed)

(* Mutant: a cancelled run banks nothing. *)
CancelRunLosesAnswers(done, bad) ==
  /\ sent' = done
  /\ UNCHANGED <<spec, cache, line, cursor>>
  /\ failedInfo' = (failedInfo \ Failed) \union {StepInput(o) : o \in bad}
  /\ rows' = Landed({}, {}, cache \union Answered(done \ bad), failedInfo')

(* runAll cancelled when `done` had been called: its replay commits        *)
(* nothing, and a second pass without a target refills from the cache.     *)
CancelRun(done, bad) ==
  /\ sent' = done
  /\ UNCHANGED <<spec, line, cursor>>
  /\ failedInfo' = (failedInfo \ Failed) \union {StepInput(o) : o \in bad}
  /\ cache' = cache \union Answered(done \ bad)
  /\ rows' = Landed({}, {}, cache', failedInfo')

(* A recorded edit of the plan. *)
Record(plan) ==
  /\ cursor < MaxLine
  /\ spec' = plan
  /\ line' = Append(SubSeq(line, 1, cursor), plan)
  /\ cursor' = cursor + 1

(* One step added or removed. *)
Patches ==
  {p \in Plans : \/ Len(p) = Len(spec) + 1 /\ IsPrefix(spec, p)
                 \/ \E i \in DOMAIN spec : p = RemoveAt(spec, i)}

(* confirmPatch: an added step reads the AI column while rows lag. *)
Gated(plan) == Lagging # {} /\ HasAi(spec) /\ "rank" \in ToSet(plan) \ ToSet(spec)

(* The replay of a request has no failure capture: it lands whole. *)
Commit(plan, target) ==
  LET calls == Calls(plan, FALSE, target)
  IN  /\ Record(plan)
      /\ rows' = Replay(plan, FALSE, target, {}, cache)
      /\ cache' = cache \union Answered(calls)
      /\ failedInfo' = {}
      /\ sent' = calls

(* A request aimed at the page in view. *)
Request(plan, page) ==
  ~Gated(plan) /\ Commit(plan, TargetOrigins(OnPage(page)))

(* The dependency rule confirmed (allowAllOnce): every row passes the filter. *)
Confirmed(plan) ==
  Gated(plan) /\ Commit(plan, Origins)

(* A request that answers, is declined, or dies on a failed cell after     *)
(* `done` were answered: requestSettled drops failedInfo all the same.     *)
RequestFails(done) ==
  /\ cache' = cache \union Answered(done)
  /\ failedInfo' = {}
  /\ sent' = done
  /\ UNCHANGED <<spec, rows, line, cursor>>

(* openFlow: a whole plan, aimed at the page in view, failedInfo untouched. *)
Flow(plan, page) ==
  LET target == TargetOrigins(OnPage(page))
      calls == Calls(plan, FALSE, target)
  IN  /\ Record(plan)
      /\ rows' = Replay(plan, FALSE, target, {}, cache)
      /\ cache' = cache \union Answered(calls)
      /\ sent' = calls
      /\ UNCHANGED failedInfo

(* Undo, redo, jump (applySpecCached): from the cache alone. *)
Move(position) ==
  /\ position \in DOMAIN line \ {cursor}
  /\ cursor' = position
  /\ spec' = line[position]
  /\ rows' = Replay(line[position], TRUE, {}, {}, cache)
  /\ sent' = {}
  /\ UNCHANGED <<cache, failedInfo, line>>

(* A load: commitSource clears the cell cache, afterLoad the lazy state. *)
Load ==
  /\ spec' = <<>> /\ rows' = Source /\ cache' = {} /\ failedInfo' = {}
  /\ line' = <<(<<>>)>> /\ cursor' = 1
  /\ sent' = {}

Next ==
  \/ \E page \in Pages : OpenPage(page)
  \/ RetryFailedRows
  \/ RunAll
  \/ \E done \in SUBSET Calls(spec, TRUE, TargetOrigins(Lagging)) :
       \E bad \in SUBSET done : CancelRun(done, bad)
  \/ \E plan \in Patches :
       \/ Confirmed(plan)
       \/ \E page \in Pages : Request(plan, page)
       \/ \E page \in Pages :
            \E done \in SUBSET Calls(plan, FALSE, TargetOrigins(OnPage(page))) : RequestFails(done)
  \/ \E plan \in Plans, page \in Pages : Flow(plan, page)
  \/ \E position \in DOMAIN line : Move(position)
  \/ Load

Spec == Init /\ [][Next]_vars

------------------------------------------------------------------------------
TypeOK ==
  /\ spec \in Plans
  /\ rows \in [Origins -> Row] /\ {rows[i].origin : i \in Origins} = Origins
  /\ cache \subseteq 1..Prompts
  /\ failedInfo \subseteq Origins
  /\ line \in Seq(Plans) /\ Len(line) \in 1..MaxLine
  /\ cursor \in DOMAIN line /\ line[cursor] = spec
  /\ sent \subseteq Origins

(* Every answer on the grid is in the cell cache, whichever passes, failed *)
(* requests and cancelled runs it came from: undo, redo and later passes   *)
(* restore it without a call.                                              *)
AnswersBanked ==
  \A i \in DOMAIN rows : rows[i].cell = "value" => Prompt(rows[i].origin) \in cache

(* Evaluated rows stay evaluated through every pass, request, flow, undo   *)
(* and cancelled run, as long as the table and its AI step stay and no     *)
(* step of the plan orders the rows by the AI column itself.               *)
CellOf(table, o) == table[CHOOSE i \in DOMAIN table : table[i].origin = o].cell
Keeps(from, to) == HasAi(from) /\ HasAi(to) /\ "rank" \notin ToSet(from) \union ToSet(to)

EvaluatedStays ==
  [][~Load /\ Keeps(spec, spec')
       => \A o \in Origins : CellOf(rows, o) = "value" => CellOf(rows', o) = "value"]_vars

(* Opening a page evaluates, and pays for, exactly that page: its rows     *)
(* settle, rows elsewhere stay pending though their answer is at hand.     *)
PageIsExact ==
  [][\A page \in Pages : Keeps(spec, spec) /\ OpenPage(page) =>
         LET there == TargetOrigins(OnPage(page))
         IN  /\ sent' \subseteq there
             /\ OnPage(page) \intersect Pending \intersect Pending' = {}
             /\ \A o \in Origins \ there :
                  CellOf(rows, o) = "pending" => CellOf(rows', o) = "pending"]_vars

===============================================================================
