------------------------------ MODULE Timeline ------------------------------
(***************************************************************************)
(* What the undo history promises its user, without saying how it is kept: *)
(* a non-empty line of plans, one of which is the plan on screen.  An edit *)
(* drops everything after the cursor and adds one plan; a move (undo,      *)
(* redo, a tap in the History sheet) picks another plan of the same line   *)
(* and changes nothing else; a load starts a new line.                     *)
(***************************************************************************)
EXTENDS Naturals, Sequences

CONSTANT Plan

VARIABLES
  history,   \* the plans, oldest first; history[1] is the plan before step one
  cursor,    \* position of the plan on screen
  plan       \* the plan on screen

vars == <<history, cursor, plan>>

Init ==
  \E p \in Plan : history = <<p>> /\ cursor = 1 /\ plan = p

Edit(p) ==
  /\ history' = Append(SubSeq(history, 1, cursor), p)
  /\ cursor' = cursor + 1
  /\ plan' = p

Move(c) ==
  /\ cursor' = c
  /\ plan' = history[c]
  /\ UNCHANGED history

Load(p) ==
  /\ history' = <<p>>
  /\ cursor' = 1
  /\ plan' = p

Next ==
  \/ \E p \in Plan : Edit(p) \/ Load(p)
  \/ \E c \in 1..Len(history) : Move(c)

Spec == Init /\ [][Next]_vars
=============================================================================
