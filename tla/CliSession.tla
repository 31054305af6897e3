------------------------------ MODULE CliSession ------------------------------
(***************************************************************************)
(* The REPL session (cli/session.ts, CliRunnerImpl) over the headless      *)
(* runner: a journal of turns with a status each, a redo stack, :reorder   *)
(* that is not journaled, and the right tables of joins, read from disk on *)
(* first use and held while the committed plan names them.  The REPL runs  *)
(* one line at a time, so an operation is one step.                        *)
(*                                                                         *)
(* A column is a number.  A step is known by the column it changes: one of *)
(* the source's 1..Width is dropped, a later one is added (by a join of a  *)
(* file when it is in Joined).  Cell values, the viewport and the printing *)
(* are left out.                                                           *)
(***************************************************************************)
EXTENDS Integers, Sequences, SequencesExt, FiniteSetsExt, Picks

CONSTANTS
  Width,     \* columns of the source
  Step,      \* the steps a request may add
  Joined,    \* those that read a lookup file
  MaxTurns   \* bound: requests that change the table, per session

ASSUME CliAssumption ==
  /\ Width \in Nat \ {0}
  /\ Step \subseteq Nat \ {0}
  /\ Joined \subseteq {s \in Step : s > Width}
  /\ \E c \in 1..Width : c \notin Step
  /\ MaxTurns \in Nat

VARIABLES
  journal,    \* the turns, oldest first, with their status
  redoStack,  \* positions in the journal (the code holds the same objects)
  spec,       \* the runner's committed plan
  held,       \* joinRightTables: right tables in memory
  onDisk,     \* lookup files where the plan says they are
  redoLost    \* history: has a redo thrown?

vars == <<journal, redoStack, spec, held, onDisk, redoLost>>

Columns == (1..Width) \union Step
Distinct(s) == IsInjective(s)
Steps == {s \in UNION {[1..n -> Step] : n \in 0..Cardinality(Step)} : Distinct(s)}

(* The keys of the rows that `steps` leave, in row order. *)
RowKeys(steps) ==
  Without([i \in 1..Width |-> i], ToSet(steps)) \o Without(steps, 1..Width)

(* syncColumnsToRows: the plan's order for what survives, new keys last.   *)
SyncColumnsToRows(columns, steps) ==
  Only(columns, ToSet(RowKeys(steps))) \o Without(RowKeys(steps), ToSet(columns))

Loaded == [steps |-> <<>>, columns |-> RowKeys(<<>>)]

(* Mutant: the snapshot restored wholesale. *)
SnapshotOrder(snapshot) == snapshot

(* keepingColumnOrder: the shown order for the shown columns of the        *)
(* snapshot, the others after them in the snapshot's order.                *)
KeepingColumnOrder(snapshot) ==
  [snapshot EXCEPT !.columns =
     Only(spec.columns, ToSet(snapshot.columns))
       \o Without(snapshot.columns, ToSet(spec.columns))]

------------------------------------------------------------------------------
(* The runner *)

(* The steps a replay to `steps` evaluates: all of them, unless the plan   *)
(* on screen is a prefix.                                                  *)
Replayed(steps) ==
  IF IsPrefix(spec.steps, steps)
  THEN SubSeq(steps, Len(spec.steps) + 1, Len(steps)) ELSE steps

(* The files it opens, up to the first that is missing. *)
Misses(steps) == {i \in DOMAIN Replayed(steps) : Replayed(steps)[i] \in Joined \ held}
Missing(steps) == {i \in Misses(steps) : Replayed(steps)[i] \notin onDisk}
Opens(steps) ==
  {Replayed(steps)[i] : i \in {j \in Misses(steps) : \A m \in Missing(steps) : j < m}}

(* Mutant: pruned to the plan being replaced. *)
CommitPrunesEarly(plan) ==
  /\ Missing(plan.steps) = {}
  /\ spec' = [plan EXCEPT !.columns = SyncColumnsToRows(plan.columns, plan.steps)]
  /\ held' = (held \union Opens(plan.steps)) \intersect ToSet(spec.steps)

(* setSpec and the commit of a request, with the prune at their end.       *)
Commit(plan) ==
  /\ Missing(plan.steps) = {}
  /\ spec' = [plan EXCEPT !.columns = SyncColumnsToRows(plan.columns, plan.steps)]
  /\ held' = (held \union Opens(plan.steps)) \intersect ToSet(plan.steps)

(* The replay throws: nothing committed, what it read stays in memory.     *)
Throw(plan) ==
  /\ Missing(plan.steps) # {}
  /\ spec' = spec
  /\ held' = held \union Opens(plan.steps)

------------------------------------------------------------------------------
Init ==
  /\ journal = <<>> /\ redoStack = <<>>
  /\ spec = Loaded
  /\ held = {} /\ onDisk = Joined
  /\ redoLost = FALSE

Load ==
  /\ journal' = <<>> /\ redoStack' = <<>>
  /\ spec' = Loaded
  /\ held' = {}
  /\ redoLost' = FALSE
  /\ UNCHANGED onDisk

(* What a model may do to the plan: add a step, take one away, and list    *)
(* the columns in the order it likes.                                      *)
Patches ==
  LET added == {Append(spec.steps, s) : s \in Step \ ToSet(spec.steps)}
      removed == {RemoveAt(spec.steps, i) : i \in DOMAIN spec.steps}
  IN  {[steps |-> steps, columns |-> columns] :
         steps \in added \union removed, columns \in {spec.columns, Reverse(spec.columns)}}

(* Mutant: the redo stack kept. *)
RequestKeepsRedo(plan) ==
  /\ Len(journal) < MaxTurns
  /\ Commit(plan)
  /\ journal' = Append(journal, [prevSpec |-> spec, newSpec |-> spec', status |-> "committed"])
  /\ UNCHANGED <<redoStack, onDisk, redoLost>>

Request(plan) ==
  /\ Len(journal) < MaxTurns
  /\ Commit(plan)
  /\ journal' = Append(journal, [prevSpec |-> spec, newSpec |-> spec', status |-> "committed"])
  /\ redoStack' = <<>>
  /\ UNCHANGED <<onDisk, redoLost>>

(* A failed, declined or cancelled request, an answer: no entry.           *)
RequestFails(plan) ==
  /\ Throw(plan)
  /\ UNCHANGED <<journal, redoStack, onDisk, redoLost>>

Committed == {i \in DOMAIN journal : journal[i].status = "committed"}
FindLastCommittedIndex == Max(Committed)
MarkedAs(i, status) == [journal EXCEPT ![i].status = status]

Undo ==
  /\ Committed # {}
  /\ Commit(KeepingColumnOrder(journal[FindLastCommittedIndex].prevSpec))
  /\ journal' = MarkedAs(FindLastCommittedIndex, "undone")
  /\ redoStack' = Append(redoStack, FindLastCommittedIndex)
  /\ UNCHANGED <<onDisk, redoLost>>

UndoFails ==
  /\ Committed # {}
  /\ Throw(KeepingColumnOrder(journal[FindLastCommittedIndex].prevSpec))
  /\ UNCHANGED <<journal, redoStack, onDisk, redoLost>>

(* The legacy fall-back: a plan with steps, no committed turn.             *)
UndoStep ==
  /\ Committed = {}
  /\ spec.steps # <<>>
  /\ Commit([spec EXCEPT !.steps = Front(@)])
  /\ UNCHANGED <<journal, redoStack, onDisk, redoLost>>

Redo ==
  /\ redoStack # <<>>
  /\ Commit(KeepingColumnOrder(journal[Last(redoStack)].newSpec))
  /\ journal' = MarkedAs(Last(redoStack), "committed")
  /\ redoStack' = Front(redoStack)
  /\ UNCHANGED <<onDisk, redoLost>>

(* The entry is popped before the replay is tried. *)
RedoFails ==
  /\ redoStack # <<>>
  /\ Throw(KeepingColumnOrder(journal[Last(redoStack)].newSpec))
  /\ redoStack' = Front(redoStack)
  /\ redoLost' = TRUE
  /\ UNCHANGED <<journal, onDisk>>

(* :reorder.  Repeating the command with one name reaches every order.     *)
ReorderCmd(wanted) ==
  /\ wanted # <<>>
  /\ ToSet(wanted) \subseteq ToSet(spec.columns)
  /\ Commit([spec EXCEPT !.columns =
               wanted \o Without(@, ToSet(wanted))])
  /\ UNCHANGED <<journal, redoStack, onDisk, redoLost>>

(* Somebody renames a lookup file, or puts it back. *)
FileMoves(join) ==
  /\ onDisk' = IF join \in onDisk THEN onDisk \ {join} ELSE onDisk \union {join}
  /\ UNCHANGED <<journal, redoStack, spec, held, redoLost>>

Next ==
  \/ Load \/ Undo \/ UndoFails \/ UndoStep \/ Redo \/ RedoFails
  \/ \E plan \in Patches : Request(plan) \/ RequestFails(plan)
  \/ ReorderCmd(<<Last(spec.columns)>>)
  \/ \E join \in Joined : FileMoves(join)

Spec == Init /\ [][Next]_vars

------------------------------------------------------------------------------
Snapshot == [steps : Steps, columns : Seq(Columns)]
Turn == [prevSpec : Snapshot, newSpec : Snapshot, status : {"committed", "undone"}]

TypeOK ==
  /\ journal \in Seq(Turn)
  /\ redoStack \in Seq(DOMAIN journal)
  /\ spec \in Snapshot
  /\ held \subseteq Joined /\ onDisk \subseteq Joined
  /\ redoLost \in BOOLEAN

(* :history tells the truth: the steps on screen are those the last turn   *)
(* marked committed left, or none when every turn is marked undone, however *)
(* the undone turns lie among the committed ones; and what :redo would     *)
(* replay next starts from there.  A redo that threw ends this (RedoFails). *)
HistoryTellsPlan ==
  ~redoLost =>
    /\ spec.steps = IF Committed = {} THEN <<>>
                    ELSE journal[FindLastCommittedIndex].newSpec.steps
    /\ redoStack # <<>> => journal[Last(redoStack)].prevSpec.steps = spec.steps

(* "The column order on screen survives the undo": whatever reorders ran   *)
(* since, the columns shown before and after an undo or redo keep their    *)
(* relative order, and the columns shown are those of the rows.            *)
ShownBy(columns, others) == Only(columns, ToSet(others))
OrderSurvives ==
  [][Undo \/ Redo =>
       /\ ShownBy(spec.columns, spec'.columns) = ShownBy(spec'.columns, spec.columns)
       /\ ToSet(spec'.columns) = ToSet(RowKeys(spec'.steps))]_vars

(* Every join of the plan on screen is in memory: no replay of the         *)
(* committed plan touches the disk, wherever the files have gone.          *)
PlanIsHeld == ToSet(spec.steps) \intersect Joined = held \intersect ToSet(spec.steps)
==============================================================================
