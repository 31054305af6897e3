----------------------------- MODULE SpecJournal -----------------------------
(***************************************************************************)
(* The undo/redo journal (headless/journal.ts) and the caller that applies *)
(* the snapshots it hands out (web/src/controller-patch.ts), one operation *)
(* at a time.  WebSession has the same operations interleaved with running *)
(* requests.  An entry's time stamp is left out: nothing but the layout of *)
(* the History sheet reads it.                                             *)
(***************************************************************************)
EXTENDS Integers, Sequences, SequencesExt

CONSTANTS
  Plan,     \* the whole-TablePlan snapshots
  Label,    \* the human-readable labels
  MaxId     \* bound: how many entries a session records

ASSUME MaxIdAssumption == MaxId \in Nat

VARIABLES
  undoStack,   \* applied entries, the latest last
  redoStack,   \* undone entries, the next one to redo last
  idSeq,       \* the last entry id stamped
  plan         \* the plan the caller has applied to the runner

vars == <<undoStack, redoStack, idSeq, plan>>

Entry == [label : Label, prevSpec : Plan, nextSpec : Plan, id : 1..MaxId]

(* timeline(): the applied entries, then the undone ones in the order they *)
(* would be redone.  The cursor of the code is Len(undo) - 1.              *)
TimelineOf(undo, redo) == undo \o Reverse(redo)

Steps == TimelineOf(undoStack, redoStack)

Ids(entries) == {entries[i].id : i \in DOMAIN entries}

(* isApplied(id) *)
IsApplied(id) == id \in Ids(undoStack)

(* jumpTo clamps the index it is given to -1 .. total - 1. *)
Clamp(index, total) ==
  IF index >= total THEN total - 1 ELSE IF index < -1 THEN -1 ELSE index

------------------------------------------------------------------------------
Init ==
  /\ undoStack = <<>>
  /\ redoStack = <<>>
  /\ idSeq = 0
  /\ plan \in Plan

(* record(entry), called with the plan just committed. *)
Record(label, next) ==
  /\ idSeq < MaxId
  /\ idSeq' = idSeq + 1
  /\ undoStack' = Append(undoStack, [label |-> label, prevSpec |-> plan,
                                     nextSpec |-> next, id |-> idSeq + 1])
  /\ redoStack' = <<>>
  /\ plan' = next

TakeUndo ==
  /\ undoStack # <<>>
  /\ undoStack' = Front(undoStack)
  /\ redoStack' = Append(redoStack, Last(undoStack))
  /\ plan' = Last(undoStack).prevSpec
  /\ UNCHANGED idSeq

TakeRedo ==
  /\ redoStack # <<>>
  /\ redoStack' = Front(redoStack)
  /\ undoStack' = Append(undoStack, Last(redoStack))
  /\ plan' = Last(redoStack).nextSpec
  /\ UNCHANGED idSeq

(* Mutant: the undone steps moved in timeline order, not popped one by one. *)
JumpToInOrder(index) ==
  LET target == Clamp(index, Len(Steps))
      applied == SubSeq(Steps, 1, target + 1)
      undone == SubSeq(Steps, target + 2, Len(Steps))
  IN  /\ Steps # <<>>
      /\ undoStack' = applied
      /\ redoStack' = undone
      /\ plan' = IF applied # <<>> THEN Last(applied).nextSpec
                 ELSE Last(undone).prevSpec
      /\ UNCHANGED idSeq

(* The two while loops walk one entry at a time until the cursor is at the *)
(* clamped index; no other code runs in between, so they are one step.     *)
JumpTo(index) ==
  LET target == Clamp(index, Len(Steps))
      applied == SubSeq(Steps, 1, target + 1)
      undone == Reverse(SubSeq(Steps, target + 2, Len(Steps)))
  IN  /\ Steps # <<>>
      /\ undoStack' = applied
      /\ redoStack' = undone
      /\ plan' = IF applied # <<>> THEN Last(applied).nextSpec
                 ELSE Last(undone).prevSpec
      /\ UNCHANGED idSeq

RelabelLast(label) ==
  /\ undoStack # <<>>
  /\ undoStack' = [undoStack EXCEPT ![Len(undoStack)].label = label]
  /\ UNCHANGED <<redoStack, idSeq, plan>>

(* Mutant: the id counter starts again with the new table. *)
ClearIds(loaded) ==
  /\ undoStack' = <<>>
  /\ redoStack' = <<>>
  /\ plan' = loaded
  /\ idSeq' = 0

(* A load clears both stacks and keeps the id counter. *)
Clear(loaded) ==
  /\ undoStack' = <<>>
  /\ redoStack' = <<>>
  /\ plan' = loaded
  /\ UNCHANGED idSeq

Next ==
  \/ \E label \in Label, next \in Plan : Record(label, next)
  \/ TakeUndo
  \/ TakeRedo
  \/ \E index \in -2..(MaxId + 1) : JumpTo(index)
  \/ \E label \in Label : RelabelLast(label)
  \/ \E loaded \in Plan : Clear(loaded)

Spec == Init /\ [][Next]_vars

------------------------------------------------------------------------------
TypeOK ==
  /\ undoStack \in Seq(Entry)
  /\ redoStack \in Seq(Entry)
  /\ idSeq \in 0..MaxId
  /\ plan \in Plan

(* Neighbouring entries of the whole timeline share a snapshot, whatever   *)
(* mix of edits, undos, redos and jumps built the two stacks: what a redo  *)
(* restores is what the next undo finds.                                   *)
Linked ==
  \A i \in 1..(Len(Steps) - 1) : Steps[i].nextSpec = Steps[i + 1].prevSpec

(* The plan on screen is the snapshot at the cursor, seen from both sides: *)
(* the applied entry's nextSpec and the next undone entry's prevSpec.      *)
CursorShowsPlan ==
  /\ undoStack # <<>> => Last(undoStack).nextSpec = plan
  /\ redoStack # <<>> => Last(redoStack).prevSpec = plan

(* Once an issued id has left the timeline (forked off by an edit, or      *)
(* cleared by a load) it never comes back, neither to the stacks nor from  *)
(* the counter: isApplied stays false forever.                             *)
ForkedForever ==
  [][/\ idSeq' >= idSeq
     /\ \A id \in 1..idSeq : id \notin Ids(Steps) => id \notin Ids(Steps)']_vars

(* The two stacks implement the line of plans the user was promised.       *)
History ==
  IF Steps = <<>> THEN <<plan>>
  ELSE <<Steps[1].prevSpec>> \o [i \in 1..Len(Steps) |-> Steps[i].nextSpec]

UserTimeline == INSTANCE Timeline
  WITH history <- History, cursor <- Len(undoStack) + 1

ImplementsTimeline == UserTimeline!Spec
==============================================================================
