# TamedTable in TLA+

TamedTable turns requests in plain language into a *table plan*: a list of
transformation steps that a language model edits by patches and a runner
replays over a loaded table. This directory models the parts of it that are
hard to get right and hard to test. TLC checks the models on small instances;
TLAPS proves, for any instance, the theorems named under *Proofs*.

All paths below are relative to `src/src/packages/` unless they start with
`spec/`, which is `src/spec/`.

## Inventory

| Component | State it keeps | Operations | Hard behaviour | What makes it correct |
| --- | --- | --- | --- | --- |
| Edit journal (`headless/journal.ts`) | undo and redo stacks, id counter | record, takeUndo, takeRedo, jumpTo, relabelLast, clear | long mixes of moves and forks | one timeline, a cursor, forks are final |
| Web session (`web/src/controller-engine.ts`, `-patch.ts`, `-lazy.ts`, `-files.ts`) | run flag, abort controller, marks, journal, runner | request, open flow, undo, redo, jump, gestures, passes, Stop, Cancel, load | everything awaits, little looks at what else is in flight | history and plan agree; what is stopped does not land; the shell unlocks |
| Request loop (`headless/index.ts`: `request`, `setSpec`, `replay`) | plan, derived rows, busy flag, carried answer | request, setSpec, load | retries with feedback, a gate, incremental replays | rows are those of the plan; provenance stays put; it settles |
| Model calls (`headless/index.ts`: cell batches, rate limiter) | cache, calls in flight, timestamps | batch, fall back, wait, stop | failures of some of several calls, a stop while asleep | the rate holds; an answer is its own cell's; a pass ends |
| Lazy evaluation (`web/src/controller-lazy.ts`, cells in `headless/index.ts`) | pending and failed cells, cell cache | page, retry and run-all passes, gates | positions against origins, partial failure, cancel and refill | a cell is paid for once; a page evaluates itself only |
| View (`web/src/controller-view.ts`, pages of `controller.ts`) | sort, filters, shuffle, pinned order, page | sort, filter, clear, page, gate | the plan replays under a pinned order | every row is shown once; an opened page is evaluated |
| Plan steps (`headless/engine.ts`, the walks of `headless/index.ts`) | none | group, pivot, unpivot, join, select, split, ... | derived names that clash | nothing is overwritten; a refused flow would have failed |
| SQL session (`headless/sql.ts`) | connection, relation `t`, parked query | register, query, interrupt, give up | statements of several readers interleave; queries that ignore interrupts | a lone reader reads its own rows; no request races a parked query |
| CLI session (`cli/session.ts`, `cli/index.ts`) | journal with statuses, redo stack, held right tables | load, request, undo, redo, reorder | files that move, orders that survive undo | history tells the plan; tables of the plan are held |
| Voice (`web/src/controller-voice.ts`, `voice-input/`) | status, epoch, abort, auto-stop, detector | start, latch, release, cancel, hands-free | a release during the permission prompt, Escape during an await | the microphone is live only while a control shows it |
| Settings (`web/src/controller-config.ts`) | provider, model, the runner in place | change model or key | a rebuild beside work in flight | the runner on screen holds what the journal says |
| Files (`web/src/controller-files.ts`) | save gate and token, pending save, lookup dialog | load, save, export, lookups | a late export after its gate closed, dialogs with one resolver | what was cancelled is never written; no request waits for ever |
| Guided tours (`web/src/controller-tutorial.ts`, `gherkin-tour/`) | active tour, step, tape misses, staged lookups | select, play, Next, Esc, finish, close | Next waits while the visitor leaves and starts another | steps run once; leaving gives everything back |
| Suggestions (`controller.ts`) | chips, sequence number | refresh, clear | answers of older tables | the chips are of the table shown |
| Messages, diagnostics, React components, UI kit | derived or presentation state | | | |
| Formats, catalogue, cassettes, MCP server, benchmarks | none of their own | | | |

The web controllers call the runner and hand it callbacks (`confirmSpec`,
`onChunk`, `onStep`, `onCellError`); the runner calls them back at its awaits.
All of them share one journal, one run flag (`streaming`), one abort controller
(`activeAbort`) and the runner's committed plan. A change of settings replaces
the runner under all of them. The CLI session keeps its own journal beside the
same runner. The runner's transformation steps and the model's `query_table`
tool share the SQL session. A tour drives the load, the request and the voice
clip of the others, with every model call replayed from a tape.

## Modules

**Timeline** is the abstract specification: a line of plans with a cursor. An
edit drops what is after the cursor and adds one; a move picks another plan of
the line; a load starts a new one. It never says "stack".

**SpecJournal** is `headless/journal.ts`, one action per method, with the plan
on screen that `controller-patch.ts` replays after a move. `Clamp`, the pops and
pushes of `jumpTo` and the id counter that survives `clear` are as in the code.
`ImplementsTimeline` is the refinement. `MaxId` bounds the records.

**WebSession** composes the managers. A user operation is a record with a
program counter (`model`, `confirm`, `replay`, `done`): what the code captured
before its first await (the previous plan, the target) is in the record, what it
reads and writes after the await is the shared state. The tint (`marks`) is told
by whose cells it shows: an entry's by its id (`Tint`, kept with the entry as
`record` does), a pass's by the pass. A commit and a gesture replace it, a move
restores the copy of the entry at the cursor (`MarksAt`), and the `finally` of a
pass adds what it filled (`TintPass`), landed or thrown. One constant,
`Overlap`, says whether operations may start beside one another; `Covered` says
what a modal dialog keeps from starting. `Reject` and `Answer` are the outcomes
of `RequestLoop` seen from outside. A plan is the set of operations whose steps
it carries with the table its rows came from.

**RequestLoop** is `HeadlessRunner.request`: `Ask`, then a turn that ends in
`Refused`, `Reply`, `Patch` or `CallFails`; a patch waits at the gate, is
replayed, and commits or feeds its error to the next turn. `setSpec` starts its
replay (`BeginSetSpec`) and lands or drops it an await later (`LandSetSpec`,
`DropSetSpec`); it and `Load` interleave freely because neither looks at `busy`.
The rows are the table they were read from and the trace of the steps applied to
it, so an incremental replay over the wrong prefix, or over another table, is
visible. `raced` is history: a replay was under way when the table was loaded,
and its rows are of the table before; `StampQueries` is the multiset algorithm
of the code.

**CellBatches** is how the cells of one AI step are paid for: `runCellBatches`,
`callLlmCells` with its fallback to `callLlmCell`, `evalLlmBatch` with the
caller's failure capture, and `rateLimiter`. A batch moves through `queued`,
`asking`, `done`, `failed` and `out`; what the cache lacks is `pending`, in the
order it was pushed, and a call, its reply and its failure are known by their
place *there* (`slot`). `Fetched` are the replies in that order, and `Merged`
takes each to the index its prompt was pushed with. A call waits in the limiter
(`Acquire`) or for its reply. Nothing recalls the calls of a batch that was
given up on, and the model keeps them. Time is counted in the limiter's polls
(`Tick`).

**LazyEval** is the AI column of `controller-lazy.ts` over the runner's cells. A
row is its origin and the state of its cell; the plan is a sequence of at most
three steps (the AI column, a sort by a source column, a sort by the AI column),
and `Replay` runs it over the source or over the rows at hand, as `replay` does.
A pass (`OpenPage`, `RetryFailedRows`, `RunAll`, `CancelRun`) translates the
positions of the grid to origins, calls the model for prompts not in the cell
cache, keys failures by the row's place in the *step's input*, and then restores
failed and pending cells by position: `RemarkFailures` and `RemarkPending`. A
request has no failure capture: it lands whole (`Commit`) or not at all
(`RequestFails`).

**TableSteps** has the steps of `headless/engine.ts` as functions of small
tables, with the names their columns get (`FreeColumnName`, `Claimed`,
`RightNames`), and the two walks of `headless/index.ts` that judge a plan
without data (`CheckValidateColumnOrder`, `CheckFlowInputColumns`). `IsStep` is
what the schema of plans lets a step be: a group key may be computed, its column
named after its place alone (`KeyNames`), and a join may be inner and drop the
rows that match nothing (`Matches`). Names and cells are of one type, because
`pivot` and `unpivot` turn one into the other. It has no state; ViewSession runs
it.

**Picks** holds the parts of a sequence that the other modules pick (`Picked`,
`Only`, `Without`), told by sets of places and their ranks: the selections of the
library recurse over the sequence, and no theorem could speak of them.

**ViewSession** is `ViewManager` over those tables: the order of the view with
its pin (`Drawn`), pages, passes over `VisibleTarget`, the sort and filter of
the column menu with the run-all gate on AI columns (`Choose` to `Decline`),
cell edits, undo and flows, which replay the plan under the view. The view is no
part of the plan; every step draws the grid.

**EngineRebuild** is `rebuildForConfigChange` and what it races: typed requests,
gestures, and undos, redos and jumps, which hold on to the runner they started
on. `grids` is what each runner's plan carries; the journal is the timeline of
plans before and after each change (`entries`), how many are applied (`at`) and
the plan it says is on screen (`cursor`). `StartMove` moves the journal at once,
as `takeUndo` and its neighbours do before the await, and the replay follows or
fails (`missed`). Gestures and moves raise no run flag (`Flagless`).
**VoiceSession** composes it with the microphone: the press, the permission
prompt, the recording port with its single handle, the latch, the timer, the
release through the recorder and the encoder, Escape, and the hands-free session
with its detector, segments and clips. Its requests are requests of
EngineRebuild. The recorder is the browser's: one that was told to stop delivers
its data and stops whatever a cancel does meanwhile (`RecorderStops`), and one
cancelled in mid-recording still delivers its data, into whichever list of
chunks there is by then (`LateData`). `overtaken` records that a start did not
wait for what the last one left (a release or its spoken request under way, a
grant while the port held another handle or before the data of a cancelled
recorder had come, a detector still loading); the code has known weaknesses
there (see below), and the properties say what holds otherwise.

**FileDialogs** is the save gate with its token, Python exports that land late,
saves that ask for a run on all rows first, the estimate dialog and the lookup
dialog with one resolver each, and the requests and flows that wait on them.
How many rows lack an answer is told in three sizes: none, a page or less, more.
`crossed` records that a request and a flow were under way together.

**TourSession** is `controller-tutorial.ts` with the suggestions of
`controller.ts`. A `play` is a `playTutorial` in flight with the fetches it still
awaits; `adv` is the one `advanceStep` in flight with the await it is at; the
tour object is known by its tour and play, as `cancelled()` compares objects. A
request may miss its tape, which cancels the tour when it settles. `begun`,
`overrun` and `late` are history: the steps of the activation, whether it armed
while an older Next or play was under way, and whether a lookup, a parse or an
expected output was on its way at an exit.

**CliSession** is `cli/session.ts`. One REPL line is one step: the REPL reads
the next line when the last is done. A column is a number and a step is known by
the column it adds or drops. `FileMoves` is the environment. `held` is
`joinRightTables`, `Commit` prunes it as the code does.

**SqlSession** is `headless/sql.ts`, one action per awaited statement: `Drop`,
`Create`, each `Insert` batch, then the query, which is issued, waits for the
connection (`Execute`), and returns, fails, is interrupted, or is given up on
after a timeout and parked until it drains. Callers are requests, which look at
`busy` and at the parked query, and passes (`setSpec`), which look at neither
and start beside anything. `paired` is history: the queries that were parked
while another was.

Every module holds, beside its definitions, variants marked *Mutant*: a
plausible bug in the definition below it. None is reachable from a
specification; they show that each property can fail.

## Runs

| Run | Instance | Shows |
| --- | --- | --- |
| `spec_journal` | 3 plans, 2 labels, 3 records | the two stacks implement the timeline; a forked entry never comes back |
| `web_session_serial` | 4 operations one at a time, 2 tables | the session implements the journal however each operation ends |
| `web_session_overlap` | 3 operations of all seven kinds, 2 tables, overlapping | the shell unlocks, what is stopped never lands, marks are the cursor's and the passes', a stop settles |
| `request_loop` | 2 requests of 2 turns, 2 steps of which one thins the table out, plans of 2 steps, a load | rows match plan and table, the carried answer is fresh, provenance is kept, requests settle |
| `cell_batches` | 5 cells of 2 prompts, batches of 2, 2 batches a group, a limiter of 2 calls a window | the rate holds, every result is its own cell's, no call after Stop, a pass ends |
| `lazy_eval` | 5 rows on 3 pages, 3 prompts, all three steps, 3 plans on the timeline | answers are banked whatever they came from; evaluated rows stay; a page evaluates and pays for itself only |
| `view_session` | 2 rows on pages of one, every kind of step with a computed key, an inner join and clashing names among them, a menu sort and filter and a shuffle, 3 plans on the timeline | rows are shown once, nothing is overwritten, refusals are right, an opened page is evaluated |
| `voice_session` | 2 models of which one hears, 2 presses, 2 switches, a typed request or gesture, a move, one hands-free session with a clip | the microphone and its status agree, nothing is sent after Escape, the runner tells the journal, sending ends |
| `file_dialogs` | 2 saves, 2 exports, a request and a flow over one lookup | requests are not parked, a cancelled script is never written, written rows are evaluated, a gate stops waiting |
| `tour_session` | a tour with a lookup and one that speaks, two plays, a file and a request of the visitor's | steps run once, checkmarks are earned, an exit leaves nothing, chips are of the table |
| `cli_session` | 2 source columns, a joining step and a dropping one, 3 turns | history and plan agree, the order survives, the plan's tables are held |
| `sql_session` | 2 callers, 3 evaluations, 2 batches | a lone reader reads its own rows, no request starts beside a parked query, a stopped query settles |

The bounds. Three records are the least that let a fork drop an entry from the
middle of a timeline and a jump cross more than one entry. Three overlapping
operations are the least in which two end in either order while a third is stopped
or refused; the serial run takes four, so that an undo, a jump and an edit can
follow an edit. Two turns per request exercise the retry and the exhausted budget
(`WebSession` and `RequestLoop` have the budget as a constant; the code's is 3,
and nothing but the number of retries depends on it). Two plan steps over two
transformations give repeated steps, removals, whole re-sent plans and a plan that
leaves no row; one load gives every replay under way a table that is not its own.
Two `INSERT` batches are the least in which a relation is ever partly filled. Five
rows on pages of two with three prompts are the least in which a row off the page
shares its prompt with a row of it *and* a row of a third page is still
unanswered; three plans on the timeline let an undo cross a sort and a redo cross
it back. Five cells make three batches in two groups, the last of them short, and
with two prompts some cells share one; a window of one poll is the least a call
can be asleep in. Two rows are the least a sort, a filter and a page tell apart;
one cell of the table holds the name of the other column, so that a pivot and a
right table ask for names that are taken. Two presses are the least in which a
recording finds what another left; a gesture, a move and two switches let the
journal move on one runner and the next come in before the grid follows. Two
callers with an evaluation each let a request meet the parked query of a pass. Two
saves and two exports are the least in which one lands while the gate is the
other's. Two plays are the least in which one takes over from the other. The
counters `MaxOps`, `MaxRequests`, `MaxTurns`, `MaxEvals`, `MaxCallers`,
`MaxTables`, `MaxSteps`, `MaxId`, `MaxLine`, `MaxPresses`, `MaxToggles`,
`MaxClips`, `MaxTyped`, `MaxMoves`, `MaxSwitches`, `MaxLoads`, `MaxSaves`,
`MaxExports`, `MaxFlows`, `MaxPlays`, `MaxOpens` and `MaxSends` bound what the
user does, not what the code does, and the runs do not check for deadlock where
they let a session end.

Fairness. `WebSession` assumes that an aborted fetch or replay ends (the signal is
checked between steps and chunks, and the fetch is given it) and that a dialog is
answered; it does not assume that a model call returns. `RequestLoop` assumes that
a model turn ends, that the gate is answered and that a replay ends. `CellBatches`
assumes that time passes, that a call which can go out does, that a reply or an
error comes, and that the driver's continuations run. `SqlSession` assumes that
registration statements end, that a timer fires and that a parked query drains;
the running query of a caller nobody stopped need never return, and `StopSettles`
excepts a registration that waits behind one. `VoiceSession` assumes that a
recorder told to stop stops, that an encoder ends and that a request settles; a
permission prompt need never be answered. `FileDialogs` assumes that an export's
model call returns or fails, and nothing of the user. The others state safety
only.

Assumptions. `WebSession`: the replay of a move does not throw (its steps ran
before; EngineRebuild has one that does), and a gesture, which has no signal, is
not stopped. `RequestLoop`: one `setSpec` at a time (what several do to one
another is WebSession's subject). `CliSession`: `:reorder` names each column once.
`SqlSession`: the statements of one read count as one, and the connection serves
one statement at a time. `LazyEval`: one operation at a time, one AI step whose
prompt reads source columns, answers that are numbers, no sort or filter of the
view's own, the Simple mode off; a pass other than a run on all rows has no signal
and ends. `CellBatches`: the answer to a prompt is always the same, and the client
library's own retries, which the limiter does not see, count as part of a call.
`ViewSession`: replays come one at a time and beside no pass, a filter looks for
one text, a shuffle is one fixed permutation; a computed key is computed from one
column. `VoiceSession`: a gesture or a move starts on a quiet engine, and no
request while one replays; what they do to one another is WebSession's subject.
`TourSession`: every play waits for its feature file (the code caches it, so plays
overlap more in the model), every tour has an expected output, a tour blocks only
what its overlay covers, and the visitor stages no lookup of a tour's name.

## Where the code and its documents differ

These were seen while modelling. The models have the code's behaviour, and the
properties are stated of what holds. The first five were each confirmed by a
counterexample of the model with the documented property put in its place.

- A request in flight when another table is opened is not cancelled; its commit
  writes its plan and the rows it computed from the old source over the new
  table (`headless/index.ts:1780`). `spec/behavior.md:1189`: "Opening a table is
  a **fresh start**".
- `runAll` lowers `streaming` (`controller-lazy.ts:621`) under a request in
  flight, so a second can be sent; the busy runner refuses it, and its `finally`
  clears `activeAbort` (`controller-engine.ts:534`), so that Stop no longer
  reaches the first. The comment at `controller-engine.ts:453-454` says Stop
  "reaches every kind of run".
- `pruneJoinRightTables` (`headless/index.ts:1606`) drops a right table when an
  undo removes its join, and the redo opens the file again.
  `spec/code-contract.md:743-745` and `spec/behavior.md:839-842` say a right
  table is not re-read on undo or redo.
- `query_table` calls of one model step run together and drop, create and fill
  the one relation `t` (`headless/sql.ts:68`), so that one may read a part of
  its rows; `spec/behavior.md:1058`: "It computes over the rows as they stand".
- Confirming the dependency rule widens the cell filter, but the replay
  (`headless/index.ts:1956`) starts from the derived rows and does not run the
  AI step again, so an appended step reads pending cells, against
  `spec/behavior.md:2026-2030`.

The session and its passes:

- A pass that began under one step and ends under another adds the cells it filled
  to the tint of the other (`controller-lazy.ts:476`), although a pass belongs to the
  request whose columns it finishes (`spec/behavior.md:2060-2064`) and stepping
  through history "always shows *which cells that step changed*" (`:2096-2097`).
  `MarksAtCursor` is of the cells that entries changed, and lets passes add to them.
- An answer clears the changed-cell marks (`controller-engine.ts:474`), which
  `spec/behavior.md:1044-1045` says it leaves untouched.
- A failure is keyed by the row's place in the step's input, because the commit
  has stripped the origin tags `evaluatePass` then reads
  (`controller-lazy.ts:448-458`); after a sort it is shown at another row.
- `failedInfo` outlives undo, redo and flows, and is dropped by any request, an
  answer included (`controller-lazy.ts:355-360`); after that a page pass turns a
  failed row into a pending one without the explicit retry that
  `controller-lazy.ts:510-511` speaks of.
- With a sort by the AI column in the plan, `remarkPending` restores pending
  cells by position over rows the pass has just moved, so an evaluated row may
  be pending again, against the comment at `controller-lazy.ts:491-494`.
  `EvaluatedStays` and `PageIsExact` are stated for plans without such a sort.

The view and the steps:

- `visibleTarget` (`controller-lazy.ts:293`) uses the page number as last set,
  while the grid shows it clamped (`controller.ts:492`), so that after the table
  shrank the page shown is not evaluated, against `spec/behavior.md:2122-2125`.
  After a `select` rows lose their origin tags (`engine.ts:185`), and with a sort
  in the plan a page pass evaluates other rows. `PageIsEvaluated` excepts both,
  and plans in which a step reads the answers.
- A request that lands while the sort or filter gate is open may remove the
  gate's column (against `spec/behavior.md:2108-2114`).
- After an undo or a request the pinned order is not computed again
  (`controller-view.ts:203`), although the comment at
  `controller-patch.ts:149-151` speaks of a refreshed sort.
- A `split` that drops its column leaves it available to the walk
  (`headless/index.ts:996`, comment at 962): a flow that will fail is not
  refused. Grouping by a column named `key_2` and a computed key in the second place
  gives two columns one name, and the later overwrites the earlier
  (`engine.ts:151`), against the comment at `engine.ts:143-145`, which speaks of
  aggregates only. `NothingOverwritten` excepts it (`KeysClash`).

Voice and settings:

- `stopVoice` sets the status idle in its `finally` (`controller-voice.ts:154`)
  whoever owns it by then, and an Escape while the recorder stops or the clip is
  encoded sets `voiceAbort` to null, which the next line reads: the recorder,
  already inactive, delivers its clip all the same (`browser-voice.ts:59`), and
  only the throw on null keeps it from being sent. With a next session's
  controller there by then it is sent; the data of a recorder cancelled in
  mid-recording may land in the next session's chunks (`browser-voice.ts:36`). The
  timer of an old recording can end a later one, Escape does nothing while the
  prompt is open, and two prompts granted out of order leave a stream live. All of
  them need a start or a grant that overtook what the last session left
  (`overtaken`), which `StatusMatchesMic` and `NothingSentAfterCancel` except.
- Gestures, undos, redos and jumps raise no run flag (`controller-engine.ts:333`),
  so a change of model orphans the one in flight: its commit goes to a runner nobody
  shows. A move has taken the journal on before its await
  (`controller-patch.ts:79`, `:92`, `:104`), so the new runner starts on the plan the
  journal has just left; and so it stays when the replay of a move throws. The same
  befalls a request whose run flag the end of another one lowered (`robbed`).
  `RunnerTellsJournal` excepts these: a gesture, a move or a robbed request in
  flight at the change, and a move that failed last (`missed`).
- A refused `setConfig` has cleared the key field and stored the probe results
  by then, and `measure` leaves its flag up when its provider was removed.

Files and dialogs:

- The estimate dialog has one resolver (`controller-lazy.ts:637`): a hands-free
  request that asks while a save waits takes the answer, and the save waits for
  ever. Stop does not answer a dialog. The lookup dialog is the same for a
  request and a flow (`crossed`).
- A data gate opened while a script is being written moves the token on, and the
  script is dropped without a word. A request that commits while a data gate is
  ready makes the save write rows without answers; `WrittenRowsEvaluated` is of
  the plan the gate was opened on.

Model calls and SQL:

- Of two queries parked at once the one field `lingeringSql` tells of the later, and
  the first to drain clears it (`sql.ts:134`), so a request may start beside the
  other, against `sql.ts:120-122`: "the next request waits for the drain". It takes a
  request and a pass, stopped together. `NoHalfDeadRace` excepts queries parked
  beside one another (`paired`).
- When a batch fails without failure capture the pass rejects, but its siblings
  and their fallbacks go on and are paid for; a batch that cannot be parsed
  beside a failing cell is paid for twice; equal prompts within one group are
  each paid for.

Tours:

- After Esc during a step and the start of another tour, the old `advanceStep`
  resumes on the new tour and skips its first step (against
  `spec/behavior.md:2389-2394`). With two tours clicked, the one whose files
  come later takes over mid-play, and the checkmark goes to the wrong one. A
  replayed tour without lookups is the same object, so `cancelled()` is false.
- An exit while a tour's file is parsed lets the parse commit it into the user's
  session; one during `writeLookup` leaves the lookup staged; the expected output
  may be shown after the exit; closing the panel while a feature is fetched still
  starts the tour. Chips of a tour survive its exit.
- A query step is skipped silently while a request of the user's streams; the
  request in flight at an exit goes to the network with the placeholder key; the
  suggestion call can consume the miss of the scripted request.

## Proofs

The theorems of a component are in a module of its own, or share one with those
of a component beside it:

| Module | Proves about |
| --- | --- |
| SpecJournalProofs | SpecJournal |
| WebSessionProofs | WebSession |
| ChatProofs | RequestLoop, VoiceSession |
| TerminalProofs | CliSession, SqlSession |
| CellsProofs | CellBatches, LazyEval |
| ShellProofs | FileDialogs, TourSession |
| ViewProofs | TableSteps, ViewSession |
| SequenceLemmas | Picks; induction, flattened sequences and orders by rank |

Where two modules share one, the second's `Init`, `Next`, `Spec` and `TypeOK`
carry its name (`SqlInit`, `LoopNext`, `BatchesSpec`, `DialogsTypeOK`). Each
theorem follows from one inductive invariant of its component, a conjunction of
named parts that TLC checked on the instance of the component's run before it
was proved; the only assumptions are those the modules state of their constants.

**SequenceLemmas.** The induction theorems of the library take the predicate as
an operator, which no installed prover can instantiate. Taken as a *set* of
numbers it needs no induction theorem: a set of naturals has a least element,
because `1..n` grows with `n` and strict inclusion of finite sets is well
founded (`LeastOf`, from the library's `WFMin`), so a set that holds 0 and with
every number the next one holds all (`InductionTo`). From it come that a function
defined by recursion exists (`RecursionTo`), that a flattened sequence is the last
of its partial concatenations (`FlattenIs`), and that ranks under a strict total
order are a permutation (`RanksAre`), so that the places picked from a sequence
have the ranks 1 to their number (`PickedIs`) and picking commutes with
concatenation (`OnlyConcat`). They carry the proofs about replays, results, stamps
and column orders below.

**SpecJournal**, for any plans, labels and bound:

- `TypeCorrect`, `AlwaysLinked`, `CursorAlwaysShowsPlan`: the three invariants.
  Linkedness alone is not inductive: recording appends an entry whose
  `prevSpec` is the plan on screen, which links only if the cursor shows that
  plan; and a move shows the right plan only because the entries on both sides
  of the cursor link. The inductive invariant is their conjunction, `JInv`.
- `ForkIsFinal`: an id that left the timeline does not return. It needs only
  types: ids on the timeline change by records (a fresh id), forks and clears.
- `JournalImplementsTimeline`: undo, redo and jump leave `TimelineOf(undoStack,
  redoStack)` unchanged (`RedoKeepsSteps`, `UndoKeepsSteps`, `JumpKeepsSteps`),
  so each is a `Move`; a record is an `Edit`, a clear a `Load`, and a relabel a
  stutter. The lemmas about timelines are facts about two sequences laid end to
  end, one reversed; the rest of the proof never looks inside the stacks.

**WebSession**, for any number of operations and tables, any budget, and
whether operations overlap or not:

- `SessionTypeCorrect`, `AlwaysUnlockedAtRest`, `RunnerHasOneRequest`,
  `StoppedWorkNeverLands`, `MarksAlwaysAtCursor`: the invariants of the
  overlapping run. Each needs what is not in its statement. Unlocking needs to
  know *who* will lower a raised flag (`Raised`: an operation in flight that
  raised it, never a move or an edit, which lower none). "A stopped run never
  lands" needs every plan in sight (on screen, in both stacks, the snapshot and
  the target of every operation in flight) to carry settled steps only, an
  operation's own excepted (`CleanJournal`, `CleanOps`): a stopped step would
  otherwise come back through an undo or through another run's snapshot. The
  bound of the ids needs a count (`Counted`: no entry without an operation that
  is over). The tint, cells of passes apart, is the cursor's whenever no move
  replays, not only at rest, and every recorded tint is its own entry's
  (`MarksFollow`): the cells a pass filled join the tint but no entry's record.
- The proof is by what a step does to one operation: it turns it (`TurnKeeps`),
  ends it without a commit (`DropKeeps`), ends it with a record (`CommitKeeps`),
  starts one (`StartKeeps`), or touches none (`StopKeeps`, `LoadKeeps`); each
  action is then an instance of one of these.
- `SerialSessionImplementsJournal`: with one operation at a time (`~Overlap`) the
  session implements `SpecJournal`: what lands is one record, an undo, a redo or a
  jump is `takeUndo`, `takeRedo` or `jumpTo`, a load clears, and every other step
  stutters. The invariant `SInv` says why overlap would break it. Whoever is in
  flight was started last (`Alone`); what it read at its start is still so when it
  lands (`Waiting`: its snapshot is the plan on screen); and no entry of the
  timeline is of another table (`Here`), so the refinement may forget tables. The
  refinement relabels every entry, and the proof rests on relabelling commuting
  with appending, cutting and reversing the stacks (`LabelledAppend` and its
  neighbours).

**RequestLoop**, for any transformations, number of requests, budget and
plan length:

- `LoopTypeCorrect`, `RowsAlwaysMatchPlan`, `AlwaysReportedOnce`,
  `AnswerAlwaysFresh`. That the rows are those of the plan needs a promise about
  the replay in flight: it yields the rows of its whole plan, although it may
  run only the new steps over the rows at hand (`ReplayedWhole`). That promise
  rests on two lemmas: applying the rest of a plan to the rows of its first
  steps gives the rows of the plan (`ReplayIsWhole`), and stamping query ids on
  a plan changes no step of it (`StampKeepsSteps`). `RowsMatchPlan` says of which
  table: always one table, and the one that is loaded unless a replay was under way
  at the load (`raced`); the promise is the same for the replays of the loop and of
  `setSpec`.
- `ProvenanceAlwaysKept`. The stamping counts the instances of a transformation:
  the k-th in the new plan takes the stamp of the k-th before (`NthIs`,
  `StampsKept`), and the first instance past their number carries the request's
  text. That the text is on *one* step needs that no plan in sight carried it
  before (`Older`): neither the plan on screen, which undos and gestures replace
  beside the loop, nor the one the request started from, nor the one it replays.

**SqlSession**, for any number of callers, evaluations and batches:

- `SqlTypeCorrect`, `LoneReaderReadsOwnRows`, `NeverHalfDeadRace`. One field
  remembers the parked query and any drain clears it; what it is worth is that a
  query parked while no other was is the one remembered until it drains, whatever
  passes start and query beside it (`Waited`). A lone reader needs `Lone` (nothing
  started beside it) and `Filling` (the relation holds the batches it has
  inserted, and no others).

**VoiceSession**, for any models and any number of presses, switches and
clips:

- `VoiceDrivesEngine`: every step of the voice session is a step of the engine
  or leaves it as it is, so what is proved of the engine alone holds of the two
  together. `RunnerAlwaysTellsJournal` is such a fact: it needs `Lowered` (while
  the run flag is down every request in flight was robbed of it) to know what a
  switch can find in flight (`Orphaned`), `InPlace` and `Undisturbed` (as long as
  nothing was orphaned and no move has failed, all work is on the runner in place,
  which holds the cursor's plan unless a move is on its way), and `Alone` (a move in
  flight is bound for the cursor's plan and nothing flies beside it).
- `VoiceTypeCorrect`, `StatusAlwaysMatchesMic`, `NothingEverSentAfterCancel`. The
  strengthening (`MicCalm`, `WavCalm`) says, as long as no start overtook, who
  owns the microphone in each status: one prompt while starting, one hot session
  with its timer while recording, one release while sending. A cancelled release
  goes on and delivers its clip; nothing of it is sent because its controller is
  gone, and as long as no start overtook it no other is there (`voiceAbort` is 0
  unless sending). That a clip holds its own session's data only needs that no
  data of a cancelled recorder is still to come when a session takes the handle.

**FileDialogs**, for any lookups and any number of saves, exports, requests
and flows:

- `DialogsTypeCorrect`, `GateAlwaysHasItsJob`, `RequestNeverParked`,
  `ReplaysAlwaysHaveLookups`, `CancelledNeverReachesDisk`,
  `WrittenRowsAreEvaluated`. Cancelled scripts stay unwritten because every
  token of a cancelled gate is below the token of everything still to come
  (`Tokens`). Written rows need `Evaluated`: the bytes in a gate are of a plan
  not newer than the session's and, when they are of this plan, nothing is
  pending. `Askers` and `Dialogs` tie each dialog to the caller it will answer.

**CellBatches**, for any limit, window, number of items and batch sizes:

- `RateAlwaysHeld`: the limiter counts its own stamps, the promise is about the
  calls of the last window. The two agree (`LimiterCounts`) because the stamps
  are in order of age (`Ordered`), so that dropping the old ones from the front
  leaves exactly the calls of the window (`Counted`): `WithinAged` is the step
  where time passes. Everything the batches do leaves the limiter alone
  (`OthersKeep`).
- `StopEndsCalls`: no call goes out once the signal is up, for the driver and for
  a waiter of the limiter alike.
- `ResultsAlwaysInOrder`: every result is its own item's and a finished pass has
  one for each. What is pushed are the uncached items of the batch, each once and
  in order (`Uncached`, by `PickedIs`), so the reply at a place belongs to the
  item pushed there, and an item that was not pushed has its answer from the
  cache. The length of what was laid out must be told from the batches alone
  (`OutIs`): it is that of the groups before the one in progress, or of this one
  too once its batches are out. That needs their order of leaving
  (`GroupsLeaveInTurn`): batches before the group are out and those after it
  queued (`InTurn`), those of one group leave at once (`Together`), and a batch is
  asked as a whole by one call at most (`OneCall`), so that a late reply of an
  abandoned round moves none back. `GroupEnds` then appends a flattened sequence
  whose length is the number of items of the group (`FlattenIs`), the short last
  batch included.

**LazyEval**, for any height, page size, number of prompts and length of the
timeline:

- `AnswersStayBanked`: each replay is a recursive function over the steps, and
  what it gives is proved by induction along them: the rows stay a permutation of
  the source, an answer is one of the table before, of the cache, or of the calls
  just made, and the rows stay where the plan puts them.
- `EvaluationIsKept`: a replay over the source forgets the answers, and finds them
  in the cache because they are banked; one over the rows at hand keeps them. What
  `RemarkPending` and `RemarkFailures` restore by *position* is a row that was
  pending or failed before only because positions have not moved: without a sort
  by the answers a row's place follows from the plan (`Placed`). This is why the
  property excepts such sorts.
- `PagesAreExact`: the positions of a page are translated to origins before the
  replay and back after it; `Placed` makes the two agree.

**CliSession**, for any source, steps, joins and number of turns:

- `HistoryAlwaysTellsPlan`. The journal marks turns in place, so the committed
  ones need not lie side by side: after an undo and a new request an undone turn
  stays between two committed ones. What holds is that each committed turn
  starts where the committed one before it ended (`Chained`), that the last ends
  at the plan on screen (`AtEnd`), and that the redo stack goes on from there
  with turns younger than every committed one, in order (`Redoable`). An undo
  moves a turn from one chain to the other, a redo back; a request and a redo
  both put a turn at the end of the first (`ChainGrows`). The chains make the
  fall-back of undo (`UndoStep`) impossible before a redo has thrown, which is
  how it keeps them (`PlanOnlyKeeps`).
- `PlanAlwaysHeld`: a replay that runs only the new steps of a plan opens every
  table that the plan joins and that is not in memory, because the steps it
  leaves out are on screen and theirs is (`ReplayFinds`).
- `OrderAlwaysSurvives`: the plan and every snapshot of the journal list the columns
  of the rows of their own steps (`Ordered`), so that the sync at the end of an undo
  finds nothing to add or drop, and the order it commits is the one on screen with
  what comes back behind it (`RestoreKeepsOrder`).

**TourSession**, for any tours, scripts and bounds on the visitor's operations:

- `StepsAlwaysRunOnce`, `CompletedAlwaysPlayed`. Between the steps, the cursor
  stands right after what has begun (`executedThrough` and `begun` agree, unless
  an older Next overran the activation), and while an `advanceStep` is at an await
  its stage tells which step of which activation it is in. Both are parts of one
  invariant of the cursor (`CursorInv`).
- `ExitAlwaysLeavesNothing`. After an exit the fetches, the parse and the expected
  output of the tour may still be under way; what they can still change is told by
  the stage they are at and by whether they were on their way at the exit (`late`).
  `Left` says both that nothing is left and that nothing is to come which would
  bring it back.
- `ChipsAlwaysOfTable`: while chips are shown, or a call whose number is still
  current is in flight, that number is the one of the table on screen and no
  request was committed on it (`Suggested`): a new table and a commit both move
  the number on.

**TableSteps and ViewSession**, for any source table, menu, flows and page size:

- What a step makes of *any* table is one lemma per kind of step (`FilterMakes`
  to `JoinMakes`): the result is a table, its columns are those the walk without
  data provides or fewer (`StepMakes`), and a group, an unpivot, a pivot or a join
  keeps the keys of the rows beside columns with names of their own (`Derives`): a
  join keeps those of the rows that stay (`RetainsRows`), a group those it computed
  too, unless two of its keys have one name (`KeyNamesAre`). `NothingEverOverwritten`
  is this at the table on screen. It rests on the names
  being told apart: a free name is not taken (`FreeColumnNameIs`), and names
  claimed in turn are distinct (`NamedIs`). Sequences are picked by places and ranks
  (`PlacesAre`, `PickedIs`, `SortedByIs`), so that a stable sort is a permutation and
  a selection keeps its order, with no recursion in either.
- A replay and a walk are recursive functions along the plan; unfolded together
  (`GoTogether`) the walk covers the columns of the table after every step
  (`WalkCovers`). `RefusalsAlwaysRight` needs this of the table on screen and the
  plan at the cursor, through commits that replay only the rest of a plan, passes
  that put pending cells back and undone plans: `TableOk` of the invariant.
- `ShownAlwaysOnce`: an order computed afresh is a permutation of the rows a filter
  leaves (`ComputeOrderShows`), and a pinned one is kept only while the number of
  rows is that of its rows and the filters are those it was drawn under (`PinOk`).
  That the number is enough, although a replay may have put other rows there, is
  what the theorem says.

What is only model-checked. Liveness under fairness (`StopSettles` of the session
and of the stopped query, `Settles`, `SendingEnds`, `WaitEnds`, `PassIsOver`) is out
of the prover's reach. One safety property is checked and not proved:
`PageIsEvaluated`, which is no theorem of every menu of steps. A join on an AI
column, or a filter on one that a later split drops, is not seen by `Traced` and
moves rows while a pass is under way; and a source cell may hold the text that
stands for the sentinel. The instance has none of these.

## Not modelled

The React components and the UI kit render the state modelled here; the codecs,
the model catalogue, the cassettes, the MCP server and the benchmarks have no
state whose order matters. Messages and diagnostics are presentation state. The
probes of keys and models and sign-in only colour the settings panel. Cell
values, prompts, formatting, the JavaScript and SQL expressions and the parse
formats are abstracted everywhere. Of the tours, the script parser, the spotlight
and the large-file and estimate steps of one tour are left out. Hazards without
a property are listed in `PROJECT.json` with the reason.

## Plan

1. Proofs: `PageIsEvaluated` for the menus in which no step joins on an answer, by
   an invariant that relates the table on screen to every other replay of its plan;
   the abstract timeline under `CliSession`'s marks.
2. *LazyEval* with table-wide model steps and the Simple mode, and a property of
   failures that holds.
3. `diffPlans` and `addedTransformations` as operators checked against
   definitions.
4. The probes of the settings panel beside a change of provider.
