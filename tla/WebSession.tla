------------------------------ MODULE WebSession ------------------------------
(***************************************************************************)
(* One browser session: the operations that change the table or its plan,  *)
(* interleaved at the awaits of the code.  EngineManager (controller-      *)
(* engine.ts), PatchManager (controller-patch.ts), LazyManager             *)
(* (controller-lazy.ts) and the headless runner share the journal, the     *)
(* runner's plan, the run flag `streaming` and one abort controller.       *)
(*                                                                         *)
(* An operation is known by its number, in the order the user started      *)
(* them; a plan is the set of operations whose steps it carries, with the  *)
(* table its rows were computed from.  The runner commits plan and rows    *)
(* together, so one value stands for both.                                 *)
(***************************************************************************)
EXTENDS Integers, Sequences, SequencesExt

CONSTANTS
  MaxOps,     \* bound: operations a session starts
  MaxTables,  \* bound: tables loaded, the first included
  Kinds,      \* the kinds of operation the session uses
  Overlap,    \* may an operation start while another is in flight?
  Budget      \* the recovery budget of one request (3 in the code)

ASSUME SessionAssumption ==
  /\ MaxOps \in Nat
  /\ MaxTables \in Nat \ {0}
  /\ Overlap \in BOOLEAN
  /\ Budget \in Nat \ {0, 1}

VARIABLES
  undoStack, redoStack, idSeq,  \* the journal
  spec,          \* the plan and rows of the runner
  table,         \* the table last loaded
  busy,          \* the request inside the runner, or None
  streaming,     \* the shell's run flag
  progress,      \* is a run's progress published (and its panel shown)?
  activeAbort,   \* the run that Stop aborts, or None
  runAbort,      \* the run on all rows that its panel's Cancel aborts, or None
  stopped,       \* the runs whose signal is aborted
  marks,         \* whose cells are tinted: entries', and what passes filled
  tints,         \* the marks recorded with each entry, by its id
  ops            \* the operations started, in order

journal == <<undoStack, redoStack, idSeq>>
flags == <<busy, streaming, progress, activeAbort, runAbort>>
vars == <<journal, flags, spec, table, stopped, marks, tints, ops>>

Ops == 1..MaxOps
None == 0

Plan == [table : 1..MaxTables, steps : SUBSET Ops]

(* Tinted cells are known by who changed them: an entry by its id, a pass   *)
(* by its operation's number, negated.                                     *)
Filled(o) == -o
Source == Ops \union {Filled(o) : o \in Ops}

Entry == [id : Ops, prevSpec : Plan, nextSpec : Plan]

Kind == {"request", "flow", "move", "gesture", "page", "retry", "runAll"}
Wait == {"model", "confirm", "replay", "done"}

Operation == [kind : Kind, pc : Wait, prev : Plan, target : Plan,
              tries : 0..(Budget - 1), raised : BOOLEAN]

------------------------------------------------------------------------------
Timeline == undoStack \o Reverse(redoStack)
Cursor(undo) == IF undo = <<>> THEN None ELSE Last(undo).id

At(o, kinds, pc) == ops[o].kind \in kinds /\ ops[o].pc = pc
InFlight(o) == ops[o].pc # "done"
Running(kinds) == \E o \in DOMAIN ops : InFlight(o) /\ ops[o].kind \in kinds
Quiet == ~Running(Kind)

(* A dialog, or the run-all panel, covers the whole page.                  *)
Covered ==
  \/ \E o \in DOMAIN ops : ops[o].pc = "confirm"
  \/ runAbort # None /\ progress

(* The rows a replay starting now will be computed from.                   *)
Over(steps) == [table |-> table, steps |-> steps]

Goto(o, pc) == ops' = [ops EXCEPT ![o].pc = pc]

(* An operation begins; the code snapshots what it needs before its first  *)
(* await.  The user can start one only on a page that nothing covers.      *)
Self == Len(ops) + 1
Begin(kind, pc, target, raised) ==
  /\ kind \in Kinds
  /\ Self \in Ops
  /\ Overlap \/ Quiet
  /\ ops' = Append(ops, [kind |-> kind, pc |-> pc, prev |-> spec,
                         target |-> target, tries |-> 0, raised |-> raised])

Start(kind, pc, target, raised) == ~Covered /\ Begin(kind, pc, target, raised)

(* record() of a committed operation: its cells are tinted instead of what *)
(* was, and the entry keeps a copy of the marks.                           *)
Tint(id, cells) ==
  /\ marks' = cells
  /\ tints' = [tints EXCEPT ![id] = cells]

Record(o) ==
  /\ idSeq' = idSeq + 1
  /\ undoStack' = Append(undoStack, [id |-> idSeq + 1, prevSpec |-> ops[o].prev,
                                     nextSpec |-> ops[o].target])
  /\ redoStack' = <<>>
  /\ Tint(idSeq + 1, {idSeq + 1})

(* The marks of the entry at the cursor; none before the first.            *)
MarksAt(undo) == IF undo = <<>> THEN {} ELSE tints[Last(undo).id]

(* recordFilled of a pass: the cells it filled, if any, join the tint.     *)
RecordFilled(o) == marks' \in {marks, marks \union {Filled(o)}}

RaiseRun ==
  /\ streaming' = TRUE
  /\ progress' = TRUE
  /\ activeAbort' = Self
  /\ UNCHANGED runAbort

(* Mutant: the abort controller left behind. *)
LowerRunKeepsAbort ==
  /\ streaming' = FALSE
  /\ progress' = FALSE
  /\ UNCHANGED <<activeAbort, runAbort>>

(* The finally blocks of request and applySpec: unconditional. *)
LowerRun ==
  /\ streaming' = FALSE
  /\ progress' = FALSE
  /\ activeAbort' = None
  /\ UNCHANGED runAbort

------------------------------------------------------------------------------
Init ==
  /\ undoStack = <<>> /\ redoStack = <<>> /\ idSeq = 0
  /\ table = 1
  /\ spec = Over({})
  /\ busy = None
  /\ streaming = FALSE /\ progress = FALSE /\ activeAbort = None /\ runAbort = None
  /\ stopped = {}
  /\ marks = {} /\ tints = [id \in Ops |-> {}]
  /\ ops = <<>>

(* ---- a chat request: engine.request around runner.request ------------- *)

StartRequest ==
  /\ ~streaming
  /\ busy = None
  /\ Start("request", "model", spec, TRUE)
  /\ busy' = Self
  /\ RaiseRun
  /\ marks' = {}
  /\ UNCHANGED <<journal, spec, table, stopped, tints>>

(* The runner throws, and the shell's finally block runs all the same.     *)
RefuseRequest ==
  /\ ~streaming
  /\ busy # None
  /\ Start("request", "done", spec, TRUE)
  /\ LowerRun
  /\ marks' = {}
  /\ UNCHANGED <<journal, busy, spec, table, stopped, tints>>

(* The patch goes onto the runner's plan of this moment, then to the gates *)
(* (a lookup file to pick, the run-all estimate) or straight to replay.    *)
Patch(o) ==
  /\ At(o, {"request"}, "model") /\ o \notin stopped
  /\ \E pc \in {"confirm", "replay"} :
       /\ pc = "confirm" => ~Covered
       /\ ops' = [ops EXCEPT ![o].pc = pc, ![o].target = Over(spec.steps \union {o})]
  /\ UNCHANGED <<journal, flags, spec, table, stopped, marks, tints>>

Confirm(o) ==
  /\ At(o, {"request"}, "confirm")
  /\ ops' = [ops EXCEPT ![o].pc = "replay", ![o].target = Over(@.steps)]
  /\ UNCHANGED <<journal, flags, spec, table, stopped, marks, tints>>

EndRequest(o) ==
  /\ Goto(o, "done")
  /\ busy' = None
  /\ LowerRun

(* Mutant: a commit that never looks at the signal after the replay. *)
CommitRequestUnchecked(o) ==
  /\ At(o, {"request"}, "replay")
  /\ spec' = ops[o].target
  /\ Record(o)
  /\ EndRequest(o)
  /\ UNCHANGED <<table, stopped>>

(* abortIf(signal), the commit and the journal entry: no await between     *)
(* them but the return of the awaited call itself.                         *)
CommitRequest(o) ==
  /\ At(o, {"request"}, "replay") /\ o \notin stopped
  /\ spec' = ops[o].target
  /\ Record(o)
  /\ EndRequest(o)
  /\ UNCHANGED <<table, stopped>>

(* A patch the guards reject or the replay fails on goes back to the model *)
(* until the budget is spent.                                              *)
Reject(o) ==
  /\ At(o, {"request"}, "model") \/ At(o, {"request"}, "replay")
  /\ o \notin stopped
  /\ ops[o].tries + 1 < Budget
  /\ ops' = [ops EXCEPT ![o].pc = "model", ![o].tries = @ + 1]
  /\ UNCHANGED <<journal, flags, spec, table, stopped, marks, tints>>

Answer(o) ==
  /\ At(o, {"request"}, "model") /\ o \notin stopped
  /\ EndRequest(o)
  /\ UNCHANGED <<journal, spec, table, stopped, marks, tints>>

(* Mutant: an abort that does not reach the model call. *)
DropRequestDeaf(o) ==
  /\ \/ At(o, {"request"}, "model") /\ ops[o].tries + 1 = Budget
     \/ At(o, {"request"}, "replay") /\ (o \in stopped \/ ops[o].tries + 1 = Budget)
     \/ At(o, {"request"}, "confirm")
  /\ EndRequest(o)
  /\ UNCHANGED <<journal, spec, table, stopped, marks, tints>>

(* The call failed, the gate declined, the budget is spent, the abort has  *)
(* landed: nothing is committed.                                           *)
DropRequest(o) ==
  /\ \/ At(o, {"request"}, "model")
     \/ At(o, {"request"}, "replay") /\ (o \in stopped \/ ops[o].tries + 1 = Budget)
     \/ At(o, {"request"}, "confirm")
  /\ EndRequest(o)
  /\ UNCHANGED <<journal, spec, table, stopped, marks, tints>>

(* ---- a replayed flow: openFlow around applySpec ----------------------- *)

StartFlow ==
  /\ ~streaming
  /\ Start("flow", "replay", Over({Self}), TRUE)
  /\ RaiseRun
  /\ marks' = {}
  /\ UNCHANGED <<journal, busy, spec, table, stopped, tints>>

LandFlow(o) ==
  /\ At(o, {"flow"}, "replay") /\ o \notin stopped
  /\ spec' = ops[o].target
  /\ Record(o)
  /\ Goto(o, "done")
  /\ LowerRun
  /\ UNCHANGED <<busy, table, stopped>>

DropFlow(o) ==
  /\ At(o, {"flow"}, "replay")
  /\ Goto(o, "done")
  /\ LowerRun
  /\ UNCHANGED <<journal, busy, spec, table, stopped, marks, tints>>

(* The chat's Stop button. *)
Stop ==
  /\ activeAbort # None /\ activeAbort \notin stopped
  /\ ~Covered
  /\ stopped' = stopped \union {activeAbort}
  /\ UNCHANGED <<journal, flags, spec, table, marks, tints, ops>>

(* ---- undo, redo, a tap in the History sheet --------------------------- *)
(* The cursor moves at once; the table follows when the replay ends.  The  *)
(* phone's History sheet stays live while a run streams.                   *)

StartUndo ==
  /\ undoStack # <<>>
  /\ undoStack' = Front(undoStack)
  /\ redoStack' = Append(redoStack, Last(undoStack))
  /\ Start("move", "replay", Over(Last(undoStack).prevSpec.steps), FALSE)
  /\ UNCHANGED <<idSeq, flags, spec, table, stopped, marks, tints>>

StartRedo ==
  /\ redoStack # <<>>
  /\ redoStack' = Front(redoStack)
  /\ undoStack' = Append(undoStack, Last(redoStack))
  /\ Start("move", "replay", Over(Last(redoStack).nextSpec.steps), FALSE)
  /\ UNCHANGED <<idSeq, flags, spec, table, stopped, marks, tints>>

(* The sheet's taps name a step of the timeline, or the start. *)
StartJump(index) ==
  LET applied == SubSeq(Timeline, 1, index)
      undone == SubSeq(Timeline, index + 1, Len(Timeline))
      goal == IF applied = <<>> THEN undone[1].prevSpec ELSE Last(applied).nextSpec
  IN  /\ Timeline # <<>>
      /\ undoStack' = applied
      /\ redoStack' = Reverse(undone)
      /\ Start("move", "replay", Over(goal.steps), FALSE)
      /\ UNCHANGED <<idSeq, flags, spec, table, stopped, marks, tints>>

(* Mutant: the marks of the landing step not restored. *)
LandMoveKeepsMarks(o) ==
  /\ At(o, {"move"}, "replay")
  /\ spec' = ops[o].target
  /\ Goto(o, "done")
  /\ UNCHANGED <<journal, flags, table, stopped, marks, tints>>

(* applySpecCached commits, then restoreCurrentMarks reads the cursor anew. *)
LandMove(o) ==
  /\ At(o, {"move"}, "replay")
  /\ spec' = ops[o].target
  /\ marks' = MarksAt(undoStack)
  /\ Goto(o, "done")
  /\ UNCHANGED <<journal, flags, table, stopped, tints>>

(* ---- a cell edit, a reorder, a deleted column: applySpecChange -------- *)

StartGesture ==
  /\ Start("gesture", "replay", Over(spec.steps \union {Self}), FALSE)
  /\ UNCHANGED <<journal, flags, spec, table, stopped, marks, tints>>

(* Mutant: the entry recorded on top of the steps already undone. *)
LandGestureKeepsRedo(o) ==
  /\ At(o, {"gesture"}, "replay")
  /\ spec' = ops[o].target
  /\ idSeq' = idSeq + 1
  /\ undoStack' = Append(undoStack, [id |-> idSeq + 1, prevSpec |-> ops[o].prev,
                                     nextSpec |-> ops[o].target])
  /\ Tint(idSeq + 1, {idSeq + 1})
  /\ Goto(o, "done")
  /\ UNCHANGED <<redoStack, flags, table, stopped>>

LandGesture(o) ==
  /\ At(o, {"gesture"}, "replay")
  /\ spec' = ops[o].target
  /\ Record(o)
  /\ Goto(o, "done")
  /\ UNCHANGED <<flags, table, stopped>>

DropGesture(o) ==
  /\ At(o, {"gesture"}, "replay")
  /\ Goto(o, "done")
  /\ UNCHANGED <<journal, flags, spec, table, stopped, marks, tints>>

(* ---- evaluation passes: the plan of the start is committed again ------ *)

(* settle() waits for the pages queued at the press: one queued since may  *)
(* be evaluated beside the run, and a panel may cover the page by then.    *)

(* scheduleVisible: queued passes run one at a time, none beside a run.    *)
StartPage ==
  /\ ~streaming
  /\ ~Running({"page"})
  /\ Begin("page", "replay", Over(spec.steps), TRUE)
  /\ streaming' = TRUE
  /\ UNCHANGED <<journal, busy, progress, activeAbort, runAbort, spec, table, stopped, marks, tints>>

(* "Retry n failed rows" lowers the flag only if it raised it.             *)
StartRetry ==
  /\ Begin("retry", "replay", Over(spec.steps), ~streaming)
  /\ streaming' = TRUE
  /\ UNCHANGED <<journal, busy, progress, activeAbort, runAbort, spec, table, stopped, marks, tints>>

StartRunAll ==
  /\ Begin("runAll", "replay", Over(spec.steps), TRUE)
  /\ streaming' = TRUE
  /\ progress' = TRUE
  /\ runAbort' = Self
  /\ UNCHANGED <<journal, busy, activeAbort, spec, table, stopped, marks, tints>>

(* The finally of runAll clears the panel, whoever's it is by now. *)
EndPass(o) ==
  /\ Goto(o, "done")
  /\ streaming' = (streaming /\ ~ops[o].raised)
  /\ IF ops[o].kind = "runAll" THEN progress' = FALSE /\ runAbort' = None
     ELSE UNCHANGED <<progress, runAbort>>
  /\ UNCHANGED <<busy, activeAbort>>

(* The panel's Cancel.  The refill after it carries no signal.             *)
CancelRunAll ==
  /\ runAbort # None /\ progress /\ runAbort \notin stopped
  /\ stopped' = stopped \union {runAbort}
  /\ UNCHANGED <<journal, flags, spec, table, marks, tints, ops>>

(* A run-all cancelled or thrown out of its pass refills the finished      *)
(* cells by a second, call-free pass over the plan of that moment.         *)
RefillRunAll(o) ==
  /\ At(o, {"runAll"}, "replay") /\ ops[o].tries = 0
  /\ ops' = [ops EXCEPT ![o].target = Over(spec.steps), ![o].tries = 1]
  /\ RecordFilled(o)
  /\ UNCHANGED <<journal, flags, spec, table, stopped, tints>>

(* Its finally, landed or thrown; the refill of a run-all tints nothing.   *)
TintPass(o) == IF ops[o].tries = 0 THEN RecordFilled(o) ELSE UNCHANGED marks

LandPass(o) ==
  /\ At(o, {"page", "retry", "runAll"}, "replay")
  /\ o \notin stopped \/ ops[o].tries = 1
  /\ spec' = ops[o].target
  /\ EndPass(o)
  /\ TintPass(o)
  /\ UNCHANGED <<journal, table, stopped, tints>>

(* The replay threw.                                                       *)
DropPass(o) ==
  /\ \/ At(o, {"page", "retry"}, "replay")
     \/ At(o, {"runAll"}, "replay") /\ ops[o].tries = 1
  /\ EndPass(o)
  /\ TintPass(o)
  /\ UNCHANGED <<journal, spec, table, stopped, tints>>

(* ---- opening another table: loadParsed and afterLoad ------------------ *)

(* The toolbar's Open is disabled while streaming, a drop is not. *)
Load ==
  /\ table < MaxTables
  /\ ~Covered
  /\ Overlap \/ Quiet
  /\ table' = table + 1
  /\ spec' = [table |-> table + 1, steps |-> {}]
  /\ undoStack' = <<>> /\ redoStack' = <<>>
  /\ marks' = {} /\ tints' = [id \in Ops |-> {}]
  /\ UNCHANGED <<idSeq, flags, stopped, ops>>

Next ==
  \/ StartRequest \/ RefuseRequest \/ StartFlow \/ Stop
  \/ StartUndo \/ StartRedo \/ \E index \in 0..Len(Timeline) : StartJump(index)
  \/ StartGesture \/ StartPage \/ StartRetry \/ StartRunAll \/ CancelRunAll \/ Load
  \/ \E o \in DOMAIN ops :
       \/ Patch(o) \/ Confirm(o) \/ CommitRequest(o) \/ Reject(o) \/ Answer(o)
       \/ DropRequest(o) \/ LandFlow(o) \/ DropFlow(o) \/ LandMove(o)
       \/ LandGesture(o) \/ DropGesture(o) \/ RefillRunAll(o)
       \/ LandPass(o) \/ DropPass(o)

(* An aborted signal rejects the fetch, and every replay checks it between *)
(* steps and chunks; a dialog is answered.  No model call need ever return. *)
AbortLands == \E o \in DOMAIN ops : o \in stopped /\ (DropRequest(o) \/ DropFlow(o))
DialogAnswered == \E o \in DOMAIN ops : ops[o].pc = "confirm" /\ (Confirm(o) \/ DropRequest(o))

Spec == Init /\ [][Next]_vars /\ WF_vars(AbortLands) /\ WF_vars(DialogAnswered)

------------------------------------------------------------------------------
TypeOK ==
  /\ undoStack \in Seq(Entry) /\ redoStack \in Seq(Entry)
  /\ idSeq \in 0..MaxOps
  /\ spec \in Plan /\ table \in 1..MaxTables
  /\ busy \in 0..MaxOps /\ activeAbort \in 0..MaxOps /\ runAbort \in 0..MaxOps
  /\ streaming \in BOOLEAN /\ progress \in BOOLEAN
  /\ stopped \subseteq Ops
  /\ marks \subseteq Source /\ tints \in [Ops -> SUBSET Source]
  /\ ops \in Seq(Operation)

(* With one operation at a time the session is the journal of SpecJournal: *)
(* every landed change is one record, undo, redo, jump or clear, and the   *)
(* plan on screen (or, while a move replays, the one it is bound for) is   *)
(* the plan at the cursor.                                                 *)
Labelled(entries) ==
  [i \in DOMAIN entries |->
     [label |-> "step", prevSpec |-> entries[i].prevSpec,
      nextSpec |-> entries[i].nextSpec, id |-> entries[i].id]]

BoundFor ==
  IF Running({"move"})
  THEN ops[CHOOSE o \in DOMAIN ops : At(o, {"move"}, "replay")].target
  ELSE spec

Journal == INSTANCE SpecJournal
  WITH Label <- {"step"}, MaxId <- MaxOps, plan <- BoundFor,
       undoStack <- Labelled(undoStack), redoStack <- Labelled(redoStack)

ImplementsJournal == Journal!Spec

(* When nothing is in flight the shell is unlocked: no run flag, no panel, *)
(* no abort controller and no busy runner is left behind by any mix of     *)
(* runs that ended, failed, were stopped or refused beside each other.     *)
AtRestUnlocked ==
  Quiet => ~streaming /\ ~progress /\ activeAbort = None /\ runAbort = None /\ busy = None

(* "The runner handles one request at a time": whatever the shell's flags  *)
(* say, the requests in flight are exactly the one the runner is busy with. *)
OneInRunner ==
  {o \in DOMAIN ops : ops[o].kind = "request" /\ InFlight(o)} = {busy} \ {None}

(* A request or flow stopped in time never reaches the table: no plan on   *)
(* screen, in the journal or about to land carries its steps.              *)
StoppedNeverLands ==
  \A o \in stopped : ops[o].kind # "runAll" =>
    /\ o \notin spec.steps
    /\ \A i \in DOMAIN Timeline : o \notin Timeline[i].nextSpec.steps
    /\ \A p \in DOMAIN ops \ {o} : InFlight(p) => o \notin ops[p].target.steps

(* The tint never shows another step's cells: at rest, apart from what     *)
(* passes filled since the last change, the tinted cells are those of the  *)
(* step at the cursor, or none; and every entry's recorded marks are its   *)
(* own step's, of no pass that ran beside it.  So undo, redo and jumps     *)
(* show which cells the step they land on changed, in whatever order their *)
(* replays, the edits beside them and the passes end.                      *)
MarksAtCursor ==
  /\ \A i \in DOMAIN Timeline : tints[Timeline[i].id] \subseteq {Timeline[i].id}
  /\ Quiet => marks \intersect Ops \subseteq {Cursor(undoStack)}

(* A stopped request or flow ends, though the model never answers it.     *)
StopSettles ==
  \A o \in Ops :
    o \in stopped /\ ops[o].kind # "runAll" ~> o \in DOMAIN ops /\ ~InFlight(o)

==============================================================================
