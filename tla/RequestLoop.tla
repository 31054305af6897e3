----------------------------- MODULE RequestLoop -----------------------------
(***************************************************************************)
(* HeadlessRunner.request (headless/index.ts): one natural-language        *)
(* request as a bounded loop of model turns.  The model's turn, the gate   *)
(* and the replay are the awaits; setSpec, whose replay is an await too,   *)
(* and a load run between them, because neither looks at `busy`.           *)
(*                                                                         *)
(* A plan is a sequence of stamped steps.  Rows are known by the table     *)
(* they were read from and the trace of the steps applied to it, so that a *)
(* replay that skips or repeats a step, or starts from another table,      *)
(* shows; a plan that thins the table twice leaves no row.                 *)
(***************************************************************************)
EXTENDS Integers, Sequences, SequencesExt, FiniteSetsExt, Picks

CONSTANTS
  Step,         \* the transformations a model can emit
  Thins,        \* those that thin the table out: two of them leave no row
  Budget,       \* recovery budget: model turns per request
  MaxRequests,  \* bound: requests of a session
  MaxLoads,     \* bound: loads after the first
  MaxSteps      \* bound: steps of a plan

ASSUME LoopAssumption ==
  /\ Thins \subseteq Step
  /\ Budget \in Nat \ {0}
  /\ MaxRequests \in Nat
  /\ MaxLoads \in Nat
  /\ MaxSteps \in Nat

VARIABLES
  table,         \* sourceRows: the number of the table that is loaded
  spec, rows,    \* the committed plan and its rows
  current,       \* the request in the loop (`busy` in the code), or None
  asked,         \* requests accepted so far
  pc,            \* what the request awaits
  turn,          \* model turns spent
  signalled,     \* its signal
  specBefore,    \* the plan it started from
  tried,         \* the patched plan it replays
  newRows,       \* what that replay will yield
  lastAnswer,    \* the request whose answer rides on the next prompt, or None
  reports,       \* debug reports per request
  aside,         \* the setSpecs that replay: its plan and what it will yield
  lastCommit,    \* history: the latest request that committed
  raced          \* history: a replay was under way when the table was loaded

request == <<current, pc, turn, signalled, specBefore, tried, newRows>>
loopVars == <<request, table, spec, rows, asked, lastAnswer, reports, aside, lastCommit, raced>>
beside == <<table, aside, raced>>  \* what a request in the loop leaves alone

None == 0
Asked == 1..MaxRequests

(* query: the request whose text the step carries, None when it has none.  *)
Stamped == [op : Step, query : Asked \union {None}]
Bare(ops) == [i \in DOMAIN ops |-> [op |-> ops[i], query |-> None]]
Ops(plan) == [i \in DOMAIN plan |-> plan[i].op]
BarePlans == {Bare(ops) : ops \in UNION {[1..n -> Step] : n \in 0..MaxSteps}}

(* Table t as it was read, and what is left when every row is gone. *)
Source(t) == [source |-> t, trace |-> <<>>]
NoRows == Source(-1)

Wiped(trace) == \E i, j \in DOMAIN trace : i < j /\ {trace[i], trace[j]} \subseteq Thins

(* The steps of `ops` applied in order to `from`. *)
Apply(from, ops) ==
  IF from = NoRows \/ Wiped(from.trace \o ops) THEN NoRows
  ELSE [from EXCEPT !.trace = from.trace \o ops]

(* Mutant: the prefix told by its length alone. *)
ReplayByLength(plan, fresh) ==
  IF ~fresh /\ Len(plan) >= Len(spec) /\ rows # NoRows
  THEN Apply(rows, SubSeq(Ops(plan), Len(spec) + 1, Len(plan)))
  ELSE Apply(Source(table), Ops(plan))

(* replay(): from the derived rows when the committed steps, stamps and    *)
(* all, are a prefix of the new ones; otherwise from the source.           *)
Replay(plan, fresh) ==
  IF ~fresh /\ IsPrefix(spec, plan) /\ rows # NoRows
  THEN Apply(rows, SubSeq(Ops(plan), Len(spec) + 1, Len(plan)))
  ELSE Apply(Source(table), Ops(plan))

(* The model edits the plan in place (stamps kept) or sends a whole new    *)
(* array as it saw it (stamps stripped).                                   *)
PatchesOf(plan) ==
  {Append(plan, [op |-> s, query |-> None]) : s \in Step}
    \union {RemoveAt(plan, i) : i \in DOMAIN plan}
    \union BarePlans

(* The how-many-th occurrence of its step plan[i] is. *)
Rank(plan, i) == Cardinality({j \in 1..i : plan[j].op = plan[i].op})
Nth(plan, op, n) == {j \in DOMAIN plan : plan[j].op = op /\ Rank(plan, j) = n}

(* Mutant: steps told apart as a set, not as a multiset. *)
StampAsSet(plan, before, query) ==
  LET Prior(i) == {j \in DOMAIN before : before[j].op = plan[i].op}
      added == {i \in DOMAIN plan : Prior(i) = {}}
  IN  [i \in DOMAIN plan |->
        IF Prior(i) # {} THEN before[CHOOSE j \in Prior(i) : TRUE]
        ELSE [plan[i] EXCEPT !.query = IF i = Min(added) THEN query ELSE None]]

(* stampQueries: each untouched step gets its earlier stamps back, the     *)
(* first added one carries the request.                                    *)
StampQueries(plan, before, query) ==
  LET Prior(i) == Nth(before, plan[i].op, Rank(plan, i))
      added == {i \in DOMAIN plan : Prior(i) = {}}
  IN  [i \in DOMAIN plan |->
        IF Prior(i) # {} THEN before[CHOOSE j \in Prior(i) : TRUE]
        ELSE [plan[i] EXCEPT !.query = IF i = Min(added) THEN query ELSE @]]

------------------------------------------------------------------------------
LoopInit ==
  /\ table = 0 /\ spec = <<>> /\ rows = Source(0)
  /\ aside = {} /\ raced = FALSE
  /\ current = None /\ asked = 0 /\ pc = "idle" /\ turn = 0 /\ signalled = FALSE
  /\ specBefore = <<>> /\ tried = <<>> /\ newRows = NoRows
  /\ lastAnswer = None
  /\ reports = [r \in Asked |-> 0]
  /\ lastCommit = None

(* A request made while one is in the loop throws and changes nothing. *)
Ask ==
  /\ current = None
  /\ asked < MaxRequests
  /\ asked' = asked + 1
  /\ current' = asked + 1
  /\ pc' = "model"
  /\ turn' = 0
  /\ signalled' = FALSE
  /\ specBefore' = spec
  /\ UNCHANGED <<beside, spec, rows, tried, newRows, lastAnswer, reports, lastCommit>>

Abort ==
  /\ current # None /\ ~signalled
  /\ signalled' = TRUE
  /\ UNCHANGED <<beside, spec, rows, asked, current, pc, turn, specBefore, tried, newRows,
                 lastAnswer, reports, lastCommit>>

(* reportDebug: the flag drops every report but the first. *)
ReportDebug(count) == IF count = 0 THEN 1 ELSE count

(* The finally block; the scratch variables die with the call. *)
Finally(report) ==
  /\ reports' = [reports EXCEPT ![current] = report]
  /\ current' = None
  /\ pc' = "idle"
  /\ turn' = 0 /\ signalled' = FALSE
  /\ specBefore' = <<>> /\ tried' = <<>> /\ newRows' = NoRows

(* Anything thrown out of the loop: reported by the catch, unless before.  *)
Throw == Finally(ReportDebug(reports[current]))

(* Mutant: a turn that spends nothing of the budget. *)
NextTurnFree ==
  /\ pc' = "model"
  /\ tried' = <<>> /\ newRows' = NoRows
  /\ UNCHANGED <<current, turn, signalled, specBefore, reports>>

(* The next turn of the loop; past the budget, the exhausted error: the    *)
(* loop reports it, and the catch would report it again.                   *)
NextTurn ==
  IF turn + 1 < Budget
  THEN /\ turn' = turn + 1
       /\ pc' = "model"
       /\ tried' = <<>> /\ newRows' = NoRows
       /\ UNCHANGED <<current, signalled, specBefore, reports>>
  ELSE Finally(ReportDebug(ReportDebug(reports[current])))

(* The model call throws: an HTTP error, or the abort. *)
CallFails ==
  /\ pc = "model"
  /\ Throw
  /\ UNCHANGED <<beside, spec, rows, asked, lastAnswer, lastCommit>>

(* An empty reply, or a patch one of the guards refuses. *)
Refused ==
  /\ pc = "model" /\ ~signalled
  /\ NextTurn
  /\ UNCHANGED <<beside, spec, rows, asked, lastAnswer, lastCommit>>

Reply ==
  /\ pc = "model" /\ ~signalled
  /\ lastAnswer' = current
  /\ Finally(ReportDebug(reports[current]))
  /\ UNCHANGED <<beside, spec, rows, asked, lastCommit>>

(* A patch that leaves the plan as it was is refused: Refused.  Whether    *)
(* there is a gate to wait at is the host's affair.                        *)
Patch(plan) ==
  /\ pc = "model" /\ ~signalled
  /\ Len(plan) <= MaxSteps
  /\ Ops(plan) # Ops(spec)
  /\ tried' = plan
  /\ pc' = "confirm"
  /\ UNCHANGED <<beside, spec, rows, asked, current, turn, signalled, specBefore, newRows,
                 lastAnswer, reports, lastCommit>>

Decline ==
  /\ pc = "confirm"
  /\ Throw
  /\ UNCHANGED <<beside, spec, rows, asked, lastAnswer, lastCommit>>

(* The gate passed: the replay starts, from the rows of this moment.       *)
Confirm ==
  /\ pc = "confirm"
  /\ pc' = "replay"
  /\ newRows' = Replay(tried, FALSE)
  /\ UNCHANGED <<beside, spec, rows, asked, current, turn, signalled, specBefore, tried,
                 lastAnswer, reports, lastCommit>>

(* A step throws, the abort stops the replay, or it leaves no row at all.   *)
ReplayFails ==
  /\ pc = "replay"
  /\ IF signalled THEN Throw ELSE NextTurn
  /\ UNCHANGED <<beside, spec, rows, asked, lastAnswer, lastCommit>>

(* Mutant: the carried answer survives the step that makes it stale. *)
CommitKeepsAnswer ==
  /\ pc = "replay" /\ ~signalled
  /\ newRows # NoRows
  /\ spec' = StampQueries(tried, specBefore, current)
  /\ rows' = newRows
  /\ lastCommit' = current
  /\ Finally(ReportDebug(reports[current]))
  /\ UNCHANGED <<beside, asked, lastAnswer>>

Commit ==
  /\ pc = "replay" /\ ~signalled
  /\ newRows # NoRows
  /\ spec' = StampQueries(tried, specBefore, current)
  /\ rows' = newRows
  /\ lastAnswer' = None
  /\ lastCommit' = current
  /\ Finally(ReportDebug(reports[current]))
  /\ UNCHANGED <<beside, asked>>

(* An undo, a redo, a gesture, a pass: no look at `busy`; one at a time    *)
(* here (WebSession has what several do to one another).                   *)
BeginSetSpec(plan, fresh) ==
  /\ aside = {}
  /\ aside' = {[plan |-> plan, rows |-> Replay(plan, fresh)]}
  /\ UNCHANGED <<request, table, spec, rows, asked, lastAnswer, reports, lastCommit, raced>>

LandSetSpec(set) ==
  /\ aside' = aside \ {set}
  /\ spec' = set.plan
  /\ rows' = set.rows
  /\ UNCHANGED <<request, table, asked, lastAnswer, reports, lastCommit, raced>>

(* Its replay throws or is cancelled. *)
DropSetSpec(set) ==
  /\ aside' = aside \ {set}
  /\ UNCHANGED <<request, table, spec, rows, asked, lastAnswer, reports, lastCommit, raced>>

Load ==
  /\ table < MaxLoads
  /\ table' = table + 1
  /\ spec' = <<>> /\ rows' = Source(table + 1)
  /\ lastAnswer' = None
  /\ raced' = (pc = "replay" \/ aside # {})
  /\ UNCHANGED <<request, asked, reports, aside, lastCommit>>

LoopNext ==
  \/ Ask \/ Abort \/ CallFails \/ Refused \/ Reply \/ Decline \/ Confirm
  \/ \E plan \in PatchesOf(spec) : Patch(plan)
  \/ ReplayFails \/ Commit \/ Load
  \/ \E plan \in PatchesOf(spec), fresh \in BOOLEAN :
       Len(plan) <= MaxSteps /\ BeginSetSpec(plan, fresh)
  \/ \E set \in aside : LandSetSpec(set) \/ DropSetSpec(set)

(* The model answers or its call fails, the user answers the gate, and a   *)
(* replay ends: each settles or spends a turn.                             *)
Turn == CallFails \/ Refused \/ Reply \/ \E plan \in PatchesOf(spec) : Patch(plan)
AtGate == Confirm \/ Decline
Replayed == ReplayFails \/ Commit

LoopSpec == LoopInit /\ [][LoopNext]_loopVars /\ WF_loopVars(Turn) /\ WF_loopVars(AtGate) /\ WF_loopVars(Replayed)

------------------------------------------------------------------------------
Rows == [source : 0..MaxLoads, trace : Seq(Step)] \union {NoRows}

LoopTypeOK ==
  /\ spec \in Seq(Stamped) /\ tried \in Seq(Stamped) /\ specBefore \in Seq(Stamped)
  /\ table \in 0..MaxLoads /\ raced \in BOOLEAN
  /\ rows \in Rows /\ newRows \in Rows
  /\ aside \subseteq [plan : Seq(Stamped), rows : Rows]
  /\ current \in 0..MaxRequests /\ asked \in 0..MaxRequests
  /\ pc \in {"idle", "model", "confirm", "replay"}
  /\ turn \in 0..(Budget - 1)
  /\ signalled \in BOOLEAN
  /\ lastAnswer \in 0..MaxRequests /\ lastCommit \in 0..MaxRequests
  /\ reports \in [Asked -> Nat]

(* The rows are always those of a full replay of the committed plan over   *)
(* one table, however many incremental replays, failed turns and undos     *)
(* built them; and that is the table that is loaded, unless a replay was   *)
(* under way when it was (see the README: it lands all the same).          *)
WholeReplay(replayed, plan) ==
  /\ \E t \in 0..table : replayed = Apply(Source(t), Ops(plan))
  /\ ~raced => replayed = Apply(Source(table), Ops(plan))

RowsMatchPlan == WholeReplay(rows, spec)

(* Every accepted request that settled reported its debug summary exactly  *)
(* once, on whichever way out; one still in the loop has not.              *)
ReportedOnce ==
  \A r \in Asked : reports[r] = IF r <= asked /\ r # current THEN 1 ELSE 0

(* The answer that rides on the next prompt is younger than every commit.  *)
AnswerIsFresh == lastAnswer # None => lastAnswer > lastCommit

(* A commit never moves a request's text to another request's step: of     *)
(* each transformation, the instances that were there when the request     *)
(* began keep their stamps in order, and the text of this one is on        *)
(* exactly one step, or on none if it added none.                          *)
StampsOf(plan, op) ==
  Picked([i \in DOMAIN plan |-> plan[i].query], {i \in DOMAIN plan : plan[i].op = op})

ProvenanceKept ==
  [][Commit =>
      /\ \A op \in Step :
           LET old == StampsOf(specBefore, op)
               new == StampsOf(spec', op)
           IN  IF Len(new) <= Len(old) THEN IsPrefix(new, old) ELSE IsPrefix(old, new)
      /\ LET added == {op \in Step : Len(StampsOf(spec', op)) > Len(StampsOf(specBefore, op))}
         IN  Cardinality({i \in DOMAIN spec' : spec'[i].query = current})
               = IF added = {} THEN 0 ELSE 1]_loopVars

(* An accepted request settles.                                            *)
Settles == current # None ~> current = None
==============================================================================
