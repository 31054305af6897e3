-------------------------- MODULE SpecJournalProofs --------------------------
(***************************************************************************)
(* The journal's type correctness, its linking invariant, the finality of  *)
(* a forked entry and the refinement of the user's timeline, for every set *)
(* of plans and labels and every bound on the ids.                         *)
(***************************************************************************)
EXTENDS SpecJournal, SequenceTheorems, TLAPS

(* Front and Last of a non-empty sequence.                                 *)
LEMMA EndsOfSequence ==
  ASSUME NEW S, NEW s \in Seq(S), s # <<>>
  PROVE  /\ Len(s) \in Nat \ {0}
         /\ Front(s) \in Seq(S)
         /\ Last(s) \in S
         /\ Len(Front(s)) = Len(s) - 1
         /\ \A i \in 1..(Len(s) - 1) : Front(s)[i] = s[i]
<1>1. Len(s) \in Nat \ {0}
  OBVIOUS
<1>2. Front(s) \in Seq(S) /\ Len(Front(s)) = Len(s) - 1
  <2> DEFINE n == Len(s) - 1
  <2>1. n \in Nat /\ \A i \in 1..n : s[i] \in S
    BY <1>1
  <2> HIDE DEF n
  <2>2. SubSeq(s, 1, n) \in Seq(S) /\ Len(SubSeq(s, 1, n)) = n
    BY <2>1, SubSeqProperties
  <2> QED
    BY <2>2 DEF Front, n
<1>3. Last(s) \in S
  BY <1>1 DEF Last
<1>4. ASSUME NEW i \in 1..(Len(s) - 1) PROVE Front(s)[i] = s[i]
  BY <1>1 DEF Front
<1> QED
  BY <1>1, <1>2, <1>3, <1>4

(* The timeline position by position: the undo stack, then the redo stack  *)
(* backwards.                                                              *)
LaidOut(t, u, r) ==
  /\ Len(t) = Len(u) + Len(r)
  /\ \A i \in 1..Len(u) : t[i] = u[i]
  /\ \A i \in (Len(u) + 1)..(Len(u) + Len(r)) :
        t[i] = r[Len(u) + Len(r) - i + 1]

(* timeline() puts every entry of both stacks where LaidOut says.          *)
LEMMA TimelineAt ==
  ASSUME NEW S, NEW u \in Seq(S), NEW r \in Seq(S)
  PROVE  /\ TimelineOf(u, r) \in Seq(S)
         /\ LaidOut(TimelineOf(u, r), u, r)
<1> DEFINE b == Reverse(r)
<1>1. /\ b \in Seq(S)
      /\ Len(b) = Len(r)
      /\ \A i \in 1..Len(r) : b[i] = r[Len(r) - i + 1]
  BY DEF Reverse
<1>2. TimelineOf(u, r) = u \o b
  BY DEF TimelineOf
<1> HIDE DEF b
<1>3. TimelineOf(u, r) \in Seq(S) /\ Len(TimelineOf(u, r)) = Len(u) + Len(r)
  <2>1. u \o b \in Seq(S) /\ Len(u \o b) = Len(u) + Len(b)
    BY <1>1
  <2> QED
    BY <1>1, <1>2, <2>1
<1>4. ASSUME NEW i \in 1..Len(u) PROVE TimelineOf(u, r)[i] = u[i]
  BY <1>1, <1>2
<1>5. ASSUME NEW i \in (Len(u) + 1)..(Len(u) + Len(r))
      PROVE  TimelineOf(u, r)[i] = r[Len(u) + Len(r) - i + 1]
  <2>1. TimelineOf(u, r)[i] = b[i - Len(u)] /\ i - Len(u) \in 1..Len(r)
    BY <1>1, <1>2
  <2>2. b[i - Len(u)] = r[Len(r) - (i - Len(u)) + 1]
    BY <1>1, <2>1
  <2>3. Len(r) - (i - Len(u)) + 1 = Len(u) + Len(r) - i + 1
    OBVIOUS
  <2> QED
    BY <2>1, <2>2, <2>3
<1> QED
  BY <1>3, <1>4, <1>5 DEF LaidOut

(* Undo, redo and jump move the cursor along one and the same timeline.    *)
LEMMA RedoKeepsSteps ==
  ASSUME NEW S, NEW u \in Seq(S), NEW r \in Seq(S), r # <<>>
  PROVE  TimelineOf(Append(u, Last(r)), Front(r)) = TimelineOf(u, r)
  BY DEF TimelineOf, Front, Last, Reverse

(* takeUndo moves one entry between the stacks: the timeline is the same.  *)
LEMMA UndoKeepsSteps ==
  ASSUME NEW S, NEW u \in Seq(S), NEW r \in Seq(S), u # <<>>
  PROVE  TimelineOf(Front(u), Append(r, Last(u))) = TimelineOf(u, r)
<1> DEFINE v == Front(u)
           s == Append(r, Last(u))
<1>1. v \in Seq(S) /\ s \in Seq(S) /\ s # <<>>
  BY DEF Front, Last
<1>2. Append(v, Last(s)) = u
  BY DEF Front, Last
<1>3. Front(s) = r
  BY DEF Front, Last
<1>4. TimelineOf(Append(v, Last(s)), Front(s)) = TimelineOf(v, s)
  BY <1>1, RedoKeepsSteps
<1> QED
  BY <1>2, <1>3, <1>4

(* Cutting the timeline anywhere into two stacks gives the timeline back.  *)
LEMMA JumpKeepsSteps ==
  ASSUME NEW S, NEW t \in Seq(S), NEW k \in 0..Len(t)
  PROVE  TimelineOf(SubSeq(t, 1, k), Reverse(SubSeq(t, k + 1, Len(t)))) = t
  BY DEF TimelineOf, Reverse

(* The two stacks of a timeline cut after its first k entries.             *)
LEMMA JumpStacks ==
  ASSUME NEW S, NEW t \in Seq(S), NEW k \in 0..Len(t)
  PROVE  /\ SubSeq(t, 1, k) \in Seq(S)
         /\ Len(SubSeq(t, 1, k)) = k
         /\ k > 0 => Last(SubSeq(t, 1, k)) = t[k]
         /\ Reverse(SubSeq(t, k + 1, Len(t))) \in Seq(S)
         /\ Len(Reverse(SubSeq(t, k + 1, Len(t)))) = Len(t) - k
         /\ k < Len(t) => Last(Reverse(SubSeq(t, k + 1, Len(t)))) = t[k + 1]
<1> DEFINE a == SubSeq(t, 1, k)
           b == SubSeq(t, k + 1, Len(t))
<1>1. a \in Seq(S) /\ Len(a) = k /\ (k > 0 => Last(a) = t[k])
  BY DEF Last
<1>2. b \in Seq(S) /\ Len(b) = Len(t) - k /\ (k < Len(t) => b[1] = t[k + 1])
  OBVIOUS
<1> HIDE DEF b
<1>3. Reverse(b) \in Seq(S) /\ Len(Reverse(b)) = Len(b)
  BY <1>2 DEF Reverse
<1>4. k < Len(t) => Last(Reverse(b)) = b[1]
  BY <1>2, <1>3 DEF Reverse, Last
<1> QED
  BY <1>1, <1>2, <1>3, <1>4 DEF b

(* What each operation does to the timeline and to the cursor, in one      *)
(* place: everything below cites this and not the actions.                 *)
LEMMA RecordStep ==
  ASSUME TypeOK, NEW label \in Label, NEW next \in Plan, Record(label, next)
  PROVE  LET e == [label |-> label, prevSpec |-> plan, nextSpec |-> next,
                   id |-> idSeq + 1]
         IN  /\ e \in Entry
             /\ Steps' = Append(undoStack, e)
             /\ undoStack' = Append(undoStack, e)
             /\ redoStack' = <<>>
             /\ plan' = next
             /\ idSeq' = idSeq + 1 /\ idSeq' \in 0..MaxId
<1>1. idSeq + 1 \in 1..MaxId
  BY MaxIdAssumption DEF Record, TypeOK
<1>2. Steps' = undoStack' \o Reverse(redoStack')
  BY DEF Steps, TimelineOf
<1>3. Reverse(<<>>) = <<>>
  BY DEF Reverse
<1> QED
  BY <1>1, <1>2, <1>3 DEF Record, TypeOK, Entry

(* The timeline of a well-typed journal, position by position.             *)
LEMMA StepsLaidOut ==
  ASSUME TypeOK
  PROVE  /\ undoStack \in Seq(Entry) /\ redoStack \in Seq(Entry)
         /\ Steps \in Seq(Entry)
         /\ LaidOut(Steps, undoStack, redoStack)
  BY TimelineAt DEF TypeOK, Steps

(* An operation that only moves the cursor, to position k of the timeline. *)
CursorMove(k) ==
  /\ Steps # <<>>
  /\ k \in 0..Len(Steps)
  /\ Steps' = Steps
  /\ undoStack' \in Seq(Entry) /\ Len(undoStack') = k
  /\ redoStack' \in Seq(Entry) /\ Len(redoStack') = Len(Steps) - k
  /\ k > 0 => Last(undoStack') = Steps[k]
  /\ k < Len(Steps) => Last(redoStack') = Steps[k + 1]
  /\ \/ k > 0 /\ plan' = Steps[k].nextSpec
     \/ k < Len(Steps) /\ plan' = Steps[k + 1].prevSpec
  /\ UNCHANGED idSeq

(* takeUndo moves the cursor one position back.                            *)
LEMMA UndoMoves ==
  ASSUME TypeOK, TakeUndo
  PROVE  CursorMove(Len(undoStack) - 1)
<1> DEFINE k == Len(undoStack) - 1
<1>1. undoStack \in Seq(Entry) /\ redoStack \in Seq(Entry) /\ undoStack # <<>>
  BY DEF TypeOK, TakeUndo
<1>2. Steps' = Steps
  BY <1>1, UndoKeepsSteps DEF Steps, TakeUndo
<1>3. /\ Len(Steps) = Len(undoStack) + Len(redoStack)
      /\ \A i \in 1..Len(undoStack) : Steps[i] = undoStack[i]
      /\ Steps # <<>>
  BY <1>1, StepsLaidOut, EmptySeq DEF LaidOut
<1>4. k \in 0..Len(Steps) /\ k < Len(Steps) /\ k + 1 = Len(undoStack)
  BY <1>1, <1>3
<1>5. Last(undoStack) = Steps[k + 1]
  BY <1>1, <1>3, <1>4 DEF Last
<1>6. undoStack' \in Seq(Entry) /\ Len(undoStack') = k
  BY <1>1, EndsOfSequence DEF TakeUndo
<1>7. k > 0 => Last(undoStack') = Steps[k]
  <2> SUFFICES ASSUME k > 0 PROVE Last(undoStack') = Steps[k]
    OBVIOUS
  <2>1. Last(undoStack') = undoStack[k]
    BY <1>1, <1>6, EndsOfSequence DEF TakeUndo, Last
  <2>2. Steps[k] = undoStack[k]
    BY <1>1, <1>3
  <2> QED
    BY <2>1, <2>2
<1>8. /\ redoStack' \in Seq(Entry)
      /\ Len(redoStack') = Len(redoStack) + 1
      /\ Last(redoStack') = Last(undoStack)
  BY <1>1, EndsOfSequence DEF TakeUndo, Last
<1> QED
  BY <1>1, <1>2, <1>3, <1>4, <1>5, <1>6, <1>7, <1>8 DEF CursorMove, TakeUndo

(* takeRedo moves the cursor one position on.                              *)
LEMMA RedoMoves ==
  ASSUME TypeOK, TakeRedo
  PROVE  CursorMove(Len(undoStack) + 1)
<1> DEFINE k == Len(undoStack) + 1
<1>1. undoStack \in Seq(Entry) /\ redoStack \in Seq(Entry) /\ redoStack # <<>>
  BY DEF TypeOK, TakeRedo
<1>2. Steps' = Steps
  BY <1>1, RedoKeepsSteps DEF Steps, TakeRedo
<1>3. /\ Len(Steps) = Len(undoStack) + Len(redoStack)
      /\ \A i \in (Len(undoStack) + 1)..(Len(undoStack) + Len(redoStack)) :
            Steps[i] = redoStack[Len(undoStack) + Len(redoStack) - i + 1]
      /\ Steps # <<>>
  BY <1>1, StepsLaidOut, EmptySeq DEF LaidOut
<1>4. k \in 1..Len(Steps)
  BY <1>1, <1>3
<1>5. Last(redoStack) = Steps[k]
  BY <1>1, <1>3, <1>4 DEF Last
<1>6. redoStack' \in Seq(Entry) /\ Len(redoStack') = Len(redoStack) - 1
  BY <1>1, EndsOfSequence DEF TakeRedo
<1>7. k < Len(Steps) => Last(redoStack') = Steps[k + 1]
  <2> SUFFICES ASSUME k < Len(Steps)
               PROVE  Last(redoStack') = Steps[k + 1]
    OBVIOUS
  <2>1. Last(redoStack') = redoStack[Len(redoStack) - 1]
    BY <1>1, <1>3, <1>6, EndsOfSequence DEF TakeRedo, Last
  <2>2. Steps[k + 1] = redoStack[Len(undoStack) + Len(redoStack) - (k + 1) + 1]
    BY <1>1, <1>3
  <2>3. Len(undoStack) + Len(redoStack) - (k + 1) + 1 = Len(redoStack) - 1
    BY <1>1
  <2> QED
    BY <2>1, <2>2, <2>3
<1>8. /\ undoStack' \in Seq(Entry)
      /\ Len(undoStack') = k
      /\ Last(undoStack') = Last(redoStack)
  BY <1>1, EndsOfSequence DEF TakeRedo, Last
<1> QED
  BY <1>1, <1>2, <1>3, <1>4, <1>5, <1>6, <1>7, <1>8 DEF CursorMove, TakeRedo

(* jumpTo moves the cursor to its clamped index.                           *)
LEMMA JumpMoves ==
  ASSUME TypeOK, NEW index \in Int, JumpTo(index)
  PROVE  CursorMove(Clamp(index, Len(Steps)) + 1)
<1> DEFINE k == Clamp(index, Len(Steps)) + 1
<1>1. Steps \in Seq(Entry) /\ Steps # <<>>
  BY StepsLaidOut DEF JumpTo
<1>2. k \in 0..Len(Steps)
  BY <1>1 DEF Clamp
<1>3. /\ undoStack' = SubSeq(Steps, 1, k)
      /\ redoStack' = Reverse(SubSeq(Steps, k + 1, Len(Steps)))
      /\ plan' = IF undoStack' # <<>> THEN Last(undoStack').nextSpec
                 ELSE Last(redoStack').prevSpec
      /\ UNCHANGED idSeq
  <2>1. Clamp(index, Len(Steps)) + 2 = k + 1
    BY <1>1 DEF Clamp
  <2> QED
    BY <2>1 DEF JumpTo
<1>4. Steps' = Steps
  <2>1. Steps' = TimelineOf(undoStack', redoStack')
    BY DEF Steps
  <2> QED
    BY <1>1, <1>2, <1>3, <2>1, JumpKeepsSteps
<1>5. /\ undoStack' \in Seq(Entry) /\ Len(undoStack') = k
      /\ redoStack' \in Seq(Entry) /\ Len(redoStack') = Len(Steps) - k
      /\ k > 0 => Last(undoStack') = Steps[k]
      /\ k < Len(Steps) => Last(redoStack') = Steps[k + 1]
  BY <1>1, <1>2, <1>3, JumpStacks
<1>6. undoStack' # <<>> <=> k > 0
  BY <1>2, <1>5
<1> QED
  BY <1>1, <1>2, <1>3, <1>4, <1>5, <1>6 DEF CursorMove

(* relabelLast touches the label of the last applied entry and nothing     *)
(* else.                                                                   *)
LEMMA RelabelStep ==
  ASSUME TypeOK, NEW label \in Label, RelabelLast(label)
  PROVE  /\ undoStack' \in Seq(Entry)
         /\ Len(undoStack') = Len(undoStack)
         /\ \A i \in 1..Len(undoStack) :
              /\ undoStack'[i].prevSpec = undoStack[i].prevSpec
              /\ undoStack'[i].nextSpec = undoStack[i].nextSpec
              /\ undoStack'[i].id = undoStack[i].id
         /\ UNCHANGED <<redoStack, idSeq, plan>>
<1> DEFINE n == Len(undoStack)
           top == [undoStack[n] EXCEPT !.label = label]
<1>1. undoStack \in Seq(Entry) /\ n \in Nat \ {0}
  BY DEF RelabelLast, TypeOK
<1>2. undoStack[n] \in Entry
  BY <1>1
<1>3. /\ top \in Entry
      /\ top.prevSpec = undoStack[n].prevSpec
      /\ top.nextSpec = undoStack[n].nextSpec
      /\ top.id = undoStack[n].id
  BY <1>2 DEF Entry
<1>4. undoStack' = [undoStack EXCEPT ![n] = top]
  BY DEF RelabelLast
<1> HIDE DEF top
<1> QED
  BY <1>1, <1>3, <1>4 DEF RelabelLast

(* A relabel changes nothing else on the timeline; a load empties it.      *)
SameButLabels ==
  /\ Steps' \in Seq(Entry)
  /\ Len(Steps') = Len(Steps)
  /\ \A i \in 1..Len(Steps) : /\ Steps'[i].prevSpec = Steps[i].prevSpec
                              /\ Steps'[i].nextSpec = Steps[i].nextSpec
                              /\ Steps'[i].id = Steps[i].id

(* relabelLast leaves the snapshots and the ids of the timeline alone.     *)
LEMMA RelabelSteps ==
  ASSUME TypeOK, NEW label \in Label, RelabelLast(label)
  PROVE  SameButLabels
<1> DEFINE n == Len(undoStack)
           m == Len(redoStack)
<1>1. /\ undoStack \in Seq(Entry) /\ redoStack \in Seq(Entry)
      /\ undoStack' \in Seq(Entry) /\ redoStack' = redoStack
      /\ Len(undoStack') = n
      /\ n \in Nat /\ m \in Nat
  BY RelabelStep DEF TypeOK
<1>2. /\ Len(Steps) = n + m
      /\ \A i \in 1..n : Steps[i] = undoStack[i]
      /\ \A i \in (n + 1)..(n + m) : Steps[i] = redoStack[n + m - i + 1]
  BY <1>1, StepsLaidOut DEF LaidOut
<1>3. Steps' = TimelineOf(undoStack', redoStack')
  BY DEF Steps
<1>4. /\ Steps' \in Seq(Entry)
      /\ Len(Steps') = n + m
      /\ \A i \in 1..n : Steps'[i] = undoStack'[i]
      /\ \A i \in (n + 1)..(n + m) : Steps'[i] = redoStack[n + m - i + 1]
  <2>1. Steps' \in Seq(Entry) /\ LaidOut(Steps', undoStack', redoStack')
    BY <1>1, <1>3, TimelineAt
  <2> QED
    BY <1>1, <2>1 DEF LaidOut
<1>5. ASSUME NEW i \in 1..(n + m)
      PROVE  /\ Steps'[i].prevSpec = Steps[i].prevSpec
             /\ Steps'[i].nextSpec = Steps[i].nextSpec
             /\ Steps'[i].id = Steps[i].id
  <2>1. CASE i \in 1..n
    BY <1>2, <1>4, <2>1, RelabelStep
  <2>2. CASE i \in (n + 1)..(n + m)
    BY <1>2, <1>4, <2>2
  <2> QED
    BY <1>1, <2>1, <2>2
<1> QED
  BY <1>2, <1>4, <1>5 DEF SameButLabels

(* clear leaves an empty timeline.                                         *)
LEMMA ClearSteps ==
  ASSUME NEW loaded, Clear(loaded)
  PROVE  Steps' = <<>> /\ Len(Steps') = 0
<1>1. Steps' = TimelineOf(<<>>, <<>>)
  BY DEF Steps, Clear
<1> QED
  BY <1>1 DEF TimelineOf, Reverse

------------------------------------------------------------------------------
(* The inductive invariant: linking alone is not inductive, because what   *)
(* an edit appends is linked only if the cursor shows the current plan.    *)
JInv == TypeOK /\ Linked /\ CursorShowsPlan

(* The stacks are sequences of entries, the counter is within its bound    *)
(* and the plan on screen is a plan, whatever the operations.              *)
LEMMA TypeStep == TypeOK /\ [Next]_vars => TypeOK'
<1> SUFFICES ASSUME TypeOK, [Next]_vars PROVE TypeOK'
  OBVIOUS
<1>1. ASSUME NEW k, CursorMove(k) PROVE TypeOK'
  <2>1. \A i \in 1..Len(Steps) : Steps[i] \in Entry
    BY StepsLaidOut, ElementOfSeq
  <2>2. plan' \in Plan
    BY <1>1, <2>1 DEF CursorMove, Entry
  <2> QED
    BY <1>1, <2>2 DEF CursorMove, TypeOK
<1>2. ASSUME NEW label \in Label, NEW next \in Plan, Record(label, next)
      PROVE  TypeOK'
  <2>1. undoStack' \in Seq(Entry)
    BY <1>2, RecordStep, AppendProperties DEF TypeOK
  <2>2. redoStack' \in Seq(Entry) /\ plan' \in Plan /\ idSeq' \in 0..MaxId
    BY <1>2, RecordStep, EmptySeq
  <2> QED
    BY <2>1, <2>2 DEF TypeOK
<1>3. CASE TakeUndo
  BY <1>1, <1>3, UndoMoves
<1>4. CASE TakeRedo
  BY <1>1, <1>4, RedoMoves
<1>5. ASSUME NEW index \in -2..(MaxId + 1), JumpTo(index) PROVE TypeOK'
  BY <1>1, <1>5, JumpMoves, MaxIdAssumption
<1>6. ASSUME NEW label \in Label, RelabelLast(label) PROVE TypeOK'
  BY <1>6, RelabelStep DEF TypeOK
<1>7. ASSUME NEW loaded \in Plan, Clear(loaded) PROVE TypeOK'
  BY <1>7 DEF Clear, TypeOK
<1>8. CASE UNCHANGED vars
  BY <1>8 DEF vars, TypeOK
<1> QED
  BY <1>2, <1>3, <1>4, <1>5, <1>6, <1>7, <1>8 DEF Next

(* A new journal is well typed, linked and at its plan.                    *)
LEMMA InitJInv == Init => JInv
<1> SUFFICES ASSUME Init PROVE JInv
  OBVIOUS
<1>1. TypeOK
  BY MaxIdAssumption DEF Init, TypeOK
<1>2. Len(Steps) = 0
  BY <1>1, StepsLaidOut DEF Init, LaidOut
<1> QED
  BY <1>1, <1>2 DEF JInv, Linked, CursorShowsPlan, Init

(* Every operation keeps the inductive invariant, one case each.           *)
LEMMA NextJInv == JInv /\ [Next]_vars => JInv'
<1> SUFFICES ASSUME JInv, [Next]_vars PROVE Linked' /\ CursorShowsPlan'
  BY TypeStep DEF JInv
<1>0. /\ undoStack \in Seq(Entry) /\ redoStack \in Seq(Entry)
      /\ Steps \in Seq(Entry)
      /\ Len(Steps) = Len(undoStack) + Len(redoStack)
      /\ \A i \in 1..Len(undoStack) : Steps[i] = undoStack[i]
      /\ \A i \in (Len(undoStack) + 1)..(Len(undoStack) + Len(redoStack)) :
            Steps[i] = redoStack[Len(undoStack) + Len(redoStack) - i + 1]
  BY StepsLaidOut DEF JInv, LaidOut
<1>1. ASSUME NEW k, CursorMove(k) PROVE Linked' /\ CursorShowsPlan'
  <2>1. Linked'
    BY <1>1 DEF CursorMove, Linked, JInv
  <2>2. k > 0 /\ k < Len(Steps) => Steps[k].nextSpec = Steps[k + 1].prevSpec
    BY <1>0, <1>1 DEF CursorMove, Linked, JInv
  <2>3. /\ undoStack' # <<>> => k > 0
        /\ redoStack' # <<>> => k < Len(Steps)
    BY <1>0, <1>1, EmptySeq DEF CursorMove
  <2>4. /\ k > 0 => plan' = Steps[k].nextSpec
        /\ k < Len(Steps) => plan' = Steps[k + 1].prevSpec
    BY <1>0, <1>1, <2>2 DEF CursorMove
  <2>5. CursorShowsPlan'
    BY <1>1, <2>3, <2>4 DEF CursorMove, CursorShowsPlan
  <2> QED
    BY <2>1, <2>5
<1>2. ASSUME NEW label \in Label, NEW next \in Plan, Record(label, next)
      PROVE  Linked' /\ CursorShowsPlan'
  <2> DEFINE n == Len(undoStack)
             e == [label |-> label, prevSpec |-> plan, nextSpec |-> next,
                   id |-> idSeq + 1]
  <2>1. /\ e \in Entry /\ e.prevSpec = plan /\ e.nextSpec = next
        /\ Steps' = Append(undoStack, e)
        /\ undoStack' = Append(undoStack, e)
        /\ redoStack' = <<>>
        /\ plan' = next
    BY <1>2, RecordStep DEF JInv
  <2> HIDE DEF e
  <2>2. /\ Len(Steps') = n + 1
        /\ \A i \in 1..n : Steps'[i] = undoStack[i]
        /\ Steps'[n + 1] = e
    BY <1>0, <2>1, AppendProperties
  <2>3. n > 0 => undoStack[n].nextSpec = plan
    BY <1>0 DEF JInv, CursorShowsPlan, Last
  <2>4. ASSUME NEW i \in 1..n PROVE Steps'[i].nextSpec = Steps'[i + 1].prevSpec
    <3>1. CASE i = n
      BY <1>0, <2>1, <2>2, <2>3, <3>1
    <3>2. CASE i < n
      <4>1. i + 1 \in 1..n /\ i \in 1..(Len(Steps) - 1)
        BY <1>0, <3>2
      <4> QED
        BY <1>0, <2>2, <4>1 DEF JInv, Linked
    <3> QED
      BY <1>0, <3>1, <3>2
  <2>5. Linked'
    BY <1>0, <2>2, <2>4 DEF Linked
  <2>6. Last(undoStack') = e
    BY <1>0, <2>1, AppendProperties DEF Last
  <2> QED
    BY <2>1, <2>5, <2>6 DEF CursorShowsPlan
<1>3. CASE TakeUndo
  BY <1>1, <1>3, UndoMoves DEF JInv
<1>4. CASE TakeRedo
  BY <1>1, <1>4, RedoMoves DEF JInv
<1>5. ASSUME NEW index \in -2..(MaxId + 1), JumpTo(index)
      PROVE  Linked' /\ CursorShowsPlan'
  BY <1>1, <1>5, JumpMoves, MaxIdAssumption DEF JInv
<1>6. ASSUME NEW label \in Label, RelabelLast(label)
      PROVE  Linked' /\ CursorShowsPlan'
  <2>1. SameButLabels
    BY <1>6, RelabelSteps DEF JInv
  <2>2. Linked'
    BY <1>0, <2>1 DEF SameButLabels, Linked, JInv
  <2>3. Len(undoStack) > 0 /\ Len(undoStack') = Len(undoStack)
    BY <1>0, <1>6, RelabelStep, EmptySeq DEF RelabelLast, JInv
  <2>4. Last(undoStack').nextSpec = Last(undoStack).nextSpec
    BY <1>0, <1>6, <2>3, RelabelStep DEF Last, JInv
  <2> QED
    BY <1>0, <1>6, <2>2, <2>3, <2>4, RelabelStep DEF CursorShowsPlan, JInv
<1>7. ASSUME NEW loaded \in Plan, Clear(loaded)
      PROVE  Linked' /\ CursorShowsPlan'
  <2>1. Len(Steps') = 0
    BY <1>7, ClearSteps
  <2> QED
    BY <1>7, <2>1 DEF Clear, Linked, CursorShowsPlan
<1>8. CASE UNCHANGED vars
  BY <1>8 DEF vars, JInv, Linked, CursorShowsPlan, Steps
<1> QED
  BY <1>2, <1>3, <1>4, <1>5, <1>6, <1>7, <1>8 DEF Next

(* The journal keeps its types.                                            *)
THEOREM TypeCorrect == Spec => []TypeOK
<1>1. Init => TypeOK
  BY InitJInv DEF JInv
<1> QED
  BY <1>1, TypeStep, PTL DEF Spec

(* Neighbouring entries share a snapshot through any mix of operations.    *)
THEOREM AlwaysLinked == Spec => []Linked
<1>1. JInv => Linked
  BY DEF JInv
<1> QED
  BY <1>1, InitJInv, NextJInv, PTL DEF Spec

(* The snapshot at the cursor is the plan the caller has on screen.        *)
THEOREM CursorAlwaysShowsPlan == Spec => []CursorShowsPlan
<1>1. JInv => CursorShowsPlan
  BY DEF JInv
<1> QED
  BY <1>1, InitJInv, NextJInv, PTL DEF Spec

(* An entry forked off the timeline, or cleared with it, never returns:    *)
(* its reply stays marked undone for good.                                 *)
THEOREM ForkIsFinal == Spec => ForkedForever
<1>1. TypeOK /\ [Next]_vars => [idSeq' >= idSeq]_vars
  <2> SUFFICES ASSUME idSeq \in 0..MaxId, Next PROVE idSeq' >= idSeq
    BY DEF TypeOK
  <2>1. idSeq' = idSeq \/ idSeq' = idSeq + 1
    BY Zenon DEF Next, Record, TakeUndo, TakeRedo, JumpTo, RelabelLast, Clear
  <2> QED
    BY <2>1, MaxIdAssumption
<1>2. TypeOK /\ [Next]_vars =>
        [\A id \in 1..idSeq : id \notin Ids(Steps) => id \notin Ids(Steps)']_vars
  <2> SUFFICES ASSUME TypeOK, Next, NEW id \in 1..idSeq, id \notin Ids(Steps)
               PROVE  id \notin Ids(Steps)'
    OBVIOUS
  <2> DEFINE NotOn(t) == \A i \in 1..Len(t) : t[i].id # id
  <2>0. /\ Steps \in Seq(Entry) /\ NotOn(Steps)
        /\ LaidOut(Steps, undoStack, redoStack)
        /\ undoStack \in Seq(Entry) /\ redoStack \in Seq(Entry)
    BY StepsLaidOut, LenProperties DEF Ids
  <2>1. SUFFICES ASSUME Steps' \in Seq(Entry) PROVE NotOn(Steps')
    <3>1. Steps' \in Seq(Entry)
      BY TypeStep, TimelineAt DEF TypeOK, Steps
    <3> QED
      BY <2>1, <3>1, LenProperties DEF Ids
  <2>2. ASSUME NEW k, CursorMove(k) PROVE NotOn(Steps')
    BY <2>0, <2>2 DEF CursorMove
  <2>3. ASSUME NEW label \in Label, NEW next \in Plan, Record(label, next)
        PROVE  NotOn(Steps')
    <3> DEFINE e == [label |-> label, prevSpec |-> plan, nextSpec |-> next,
                     id |-> idSeq + 1]
    <3>1. e \in Entry /\ e.id # id /\ Steps' = Append(undoStack, e)
      BY <2>3, RecordStep DEF TypeOK
    <3> HIDE DEF e
    <3>2. NotOn(undoStack)
      BY <2>0 DEF LaidOut
    <3> QED
      BY <2>0, <3>1, <3>2, AppendProperties
  <2>4. CASE TakeUndo
    BY <2>2, <2>4, UndoMoves
  <2>5. CASE TakeRedo
    BY <2>2, <2>5, RedoMoves
  <2>6. ASSUME NEW index \in -2..(MaxId + 1), JumpTo(index) PROVE NotOn(Steps')
    BY <2>2, <2>6, JumpMoves, MaxIdAssumption
  <2>7. ASSUME NEW label \in Label, RelabelLast(label) PROVE NotOn(Steps')
    BY <2>0, <2>7, RelabelSteps DEF SameButLabels
  <2>8. ASSUME NEW loaded \in Plan, Clear(loaded) PROVE NotOn(Steps')
    BY <2>8, ClearSteps
  <2> QED
    BY <2>3, <2>4, <2>5, <2>6, <2>7, <2>8 DEF Next
<1>3. TypeOK /\ [Next]_vars =>
        [/\ idSeq' >= idSeq
         /\ \A id \in 1..idSeq : id \notin Ids(Steps) => id \notin Ids(Steps)']_vars
  BY <1>1, <1>2
<1> QED
  BY <1>3, TypeCorrect, PTL DEF Spec, ForkedForever

------------------------------------------------------------------------------
(* The history line of the abstract specification, position by position.   *)
HistoryOf(t, p) ==
  IF t = <<>> THEN <<p>>
  ELSE <<t[1].prevSpec>> \o [i \in 1..Len(t) |-> t[i].nextSpec]

(* A sequence with one element put in front of it.                         *)
LEMMA Prepend ==
  ASSUME NEW S, NEW x \in S, NEW b \in Seq(S)
  PROVE  /\ <<x>> \o b \in Seq(S)
         /\ Len(<<x>> \o b) = Len(b) + 1
         /\ (<<x>> \o b)[1] = x
         /\ \A i \in 1..Len(b) : (<<x>> \o b)[i + 1] = b[i]
<1> DEFINE a == <<x>>
<1>1. a \in Seq(S) /\ Len(a) = 1 /\ a[1] = x
  OBVIOUS
<1>2. Len(b) \in Nat
  OBVIOUS
<1> HIDE DEF a
<1>3. /\ a \o b \in Seq(S)
      /\ Len(a \o b) = Len(a) + Len(b)
      /\ \A i \in 1..Len(a) + Len(b) :
            (a \o b)[i] = IF i <= Len(a) THEN a[i] ELSE b[i - Len(a)]
  BY <1>1, ConcatProperties
<1>4. (a \o b)[1] = x
  BY <1>1, <1>2, <1>3
<1>5. ASSUME NEW i \in 1..Len(b) PROVE (a \o b)[i + 1] = b[i]
  BY <1>1, <1>2, <1>3
<1> QED
  BY <1>1, <1>2, <1>3, <1>4, <1>5 DEF a

(* The history line of a timeline, position by position.                   *)
LEMMA HistoryAt ==
  ASSUME NEW t \in Seq(Entry), NEW p \in Plan
  PROVE  /\ HistoryOf(t, p) \in Seq(Plan)
         /\ Len(HistoryOf(t, p)) = Len(t) + 1
         /\ HistoryOf(t, p)[1] = IF t = <<>> THEN p ELSE t[1].prevSpec
         /\ \A i \in 1..Len(t) : HistoryOf(t, p)[i + 1] = t[i].nextSpec
<1>1. CASE t = <<>>
  BY <1>1 DEF HistoryOf
<1>2. CASE t # <<>>
  <2> DEFINE b == [i \in 1..Len(t) |-> t[i].nextSpec]
  <2>1. /\ Len(t) \in Nat \ {0}
        /\ \A i \in 1..Len(t) : t[i] \in Entry
    BY <1>2
  <2>2. t[1].prevSpec \in Plan
    BY <2>1 DEF Entry
  <2>3. /\ b \in Seq(Plan) /\ Len(b) = Len(t)
        /\ \A i \in 1..Len(t) : b[i] = t[i].nextSpec
    BY <2>1 DEF Entry
  <2>4. HistoryOf(t, p) = <<t[1].prevSpec>> \o b
    BY <1>2 DEF HistoryOf
  <2> HIDE DEF b
  <2>5. /\ HistoryOf(t, p) \in Seq(Plan)
        /\ Len(HistoryOf(t, p)) = Len(b) + 1
        /\ HistoryOf(t, p)[1] = t[1].prevSpec
        /\ \A i \in 1..Len(b) : HistoryOf(t, p)[i + 1] = b[i]
    BY <2>2, <2>3, <2>4, Prepend
  <2> QED
    BY <1>2, <2>3, <2>5
<1> QED
  BY <1>1, <1>2

(* Each initial state maps to an initial state of the timeline, each step  *)
(* to an edit, a move, a load or a stutter.                                *)
THEOREM JournalImplementsTimeline == Spec => ImplementsTimeline
<1> DEFINE k == Len(undoStack)
<1>1. Init => UserTimeline!Init
  <2> SUFFICES ASSUME Init PROVE UserTimeline!Init
    OBVIOUS
  <2>1. Len(Steps) = 0 /\ Steps \in Seq(Entry)
    BY InitJInv, StepsLaidOut DEF JInv, Init, LaidOut
  <2> QED
    BY <2>1 DEF UserTimeline!Init, Init, History
<1>2. JInv /\ [Next]_vars => [UserTimeline!Next]_(UserTimeline!vars)
  <2> SUFFICES ASSUME JInv, JInv', [Next]_vars
               PROVE  [UserTimeline!Next]_(UserTimeline!vars)
    BY NextJInv
  <2>0. /\ undoStack \in Seq(Entry) /\ redoStack \in Seq(Entry)
        /\ Steps \in Seq(Entry) /\ k \in Nat
        /\ Len(Steps) = k + Len(redoStack)
        /\ \A i \in 1..k : Steps[i] = undoStack[i]
        /\ \A i \in (k + 1)..(k + Len(redoStack)) :
              Steps[i] = redoStack[k + Len(redoStack) - i + 1]
        /\ plan \in Plan
    BY StepsLaidOut DEF JInv, LaidOut, TypeOK
  <2>00. History = HistoryOf(Steps, plan) /\ History' = HistoryOf(Steps', plan')
    BY DEF History, HistoryOf
  <2>000. /\ History \in Seq(Plan)
          /\ Len(History) = Len(Steps) + 1
          /\ History[1] = IF Steps = <<>> THEN plan ELSE Steps[1].prevSpec
          /\ \A i \in 1..Len(Steps) : History[i + 1] = Steps[i].nextSpec
    BY <2>0, <2>00, HistoryAt
  <2>1. ASSUME NEW c, CursorMove(c) PROVE UserTimeline!Move(c + 1)
    <3>1. History' = History
      BY <2>1 DEF CursorMove, History
    <3>2. plan' = History[c + 1]
      <4>1. CASE c > 0 /\ plan' = Steps[c].nextSpec
        BY <2>000, <2>1, <4>1 DEF CursorMove
      <4>2. CASE c < Len(Steps) /\ plan' = Steps[c + 1].prevSpec
        <5>1. CASE c = 0
          BY <2>000, <2>1, <4>2, <5>1 DEF CursorMove
        <5>2. CASE c > 0
          <6>1. c \in 1..(Len(Steps) - 1)
            BY <2>0, <2>1, <4>2, <5>2 DEF CursorMove
          <6>2. Steps[c].nextSpec = Steps[c + 1].prevSpec
            BY <6>1 DEF JInv, Linked
          <6> QED
            BY <2>000, <4>2, <6>1, <6>2
        <5> QED
          BY <2>1, <5>1, <5>2 DEF CursorMove
      <4> QED
        BY <2>1, <4>1, <4>2 DEF CursorMove
    <3> QED
      BY <2>1, <3>1, <3>2 DEF CursorMove, UserTimeline!Move
  <2>2. ASSUME NEW label \in Label, NEW next \in Plan, Record(label, next)
        PROVE  UserTimeline!Edit(next)
    <3> DEFINE e == [label |-> label, prevSpec |-> plan, nextSpec |-> next,
                     id |-> idSeq + 1]
    <3>1. /\ e \in Entry /\ e.prevSpec = plan /\ e.nextSpec = next
          /\ Steps' = Append(undoStack, e)
          /\ undoStack' = Append(undoStack, e)
          /\ plan' = next
      BY <2>2, RecordStep DEF JInv
    <3> HIDE DEF e
    <3>2. /\ Steps' \in Seq(Entry) /\ Steps' # <<>> /\ Len(Steps') = k + 1
          /\ \A i \in 1..k : Steps'[i] = undoStack[i]
          /\ Steps'[k + 1] = e
      BY <2>0, <3>1, AppendProperties
    <3>3. /\ History' \in Seq(Plan) /\ Len(History') = k + 2
          /\ History'[1] = Steps'[1].prevSpec
          /\ \A i \in 1..(k + 1) : History'[i + 1] = Steps'[i].nextSpec
      <4> DEFINE h == HistoryOf(Steps', plan')
      <4>1. plan' \in Plan /\ h = History'
        BY <2>00, <3>1
      <4>2. /\ h \in Seq(Plan) /\ Len(h) = Len(Steps') + 1
            /\ h[1] = IF Steps' = <<>> THEN plan' ELSE Steps'[1].prevSpec
            /\ \A i \in 1..Len(Steps') : h[i + 1] = Steps'[i].nextSpec
        BY <3>2, <4>1, HistoryAt
      <4> HIDE DEF h
      <4> QED
        BY <2>0, <3>2, <4>1, <4>2
    <3> DEFINE a == SubSeq(History, 1, k + 1)
    <3>4. /\ a \in Seq(Plan) /\ Len(a) = k + 1
          /\ \A i \in 1..(k + 1) : a[i] = History[i]
      BY <2>0, <2>000
    <3> HIDE DEF a
    <3>5. ASSUME NEW i \in 1..(k + 1) PROVE History'[i] = History[i]
      <4>1. CASE i = 1 /\ k = 0
        <5>1. Steps'[1] = e
          BY <3>2, <4>1
        <5>2. CASE Steps = <<>>
          BY <2>000, <3>1, <3>3, <4>1, <5>1, <5>2
        <5>3. CASE Steps # <<>>
          <6>1. redoStack # <<>> /\ Steps[1] = Last(redoStack)
            BY <2>0, <4>1, <5>3, EmptySeq DEF Last
          <6>2. Steps[1].prevSpec = plan
            BY <6>1 DEF JInv, CursorShowsPlan
          <6> QED
            BY <2>000, <3>1, <3>3, <4>1, <5>1, <5>3, <6>2
        <5> QED
          BY <5>2, <5>3
      <4>2. CASE i = 1 /\ k > 0
        <5>1. Steps # <<>> /\ Steps[1] = undoStack[1] /\ Steps'[1] = undoStack[1]
          BY <2>0, <3>2, <4>2
        <5> QED
          BY <2>000, <3>3, <4>2, <5>1
      <4>3. CASE i > 1
        <5>1. i - 1 \in 1..k /\ i - 1 \in 1..(k + 1) /\ i - 1 \in 1..Len(Steps)
          BY <2>0, <4>3
        <5>2. History'[i] = Steps'[i - 1].nextSpec
          BY <3>3, <5>1
        <5>3. History[i] = Steps[i - 1].nextSpec
          BY <2>000, <5>1
        <5> QED
          BY <2>0, <3>2, <5>1, <5>2, <5>3
      <4> QED
        BY <2>0, <4>1, <4>2, <4>3
    <3>6. History'[k + 2] = next
      <4>1. k + 1 \in 1..(k + 1) /\ (k + 1) + 1 = k + 2
        BY <2>0
      <4> QED
        BY <3>1, <3>2, <3>3, <4>1
    <3>7. /\ Append(a, next) \in Seq(Plan) /\ Len(Append(a, next)) = k + 2
          /\ \A i \in 1..(k + 1) : Append(a, next)[i] = History[i]
          /\ Append(a, next)[k + 2] = next
      BY <2>0, <3>4, AppendProperties
    <3>8. ASSUME NEW i \in 1..(k + 2) PROVE History'[i] = Append(a, next)[i]
      BY <2>0, <3>5, <3>6, <3>7
    <3>9. History' = Append(a, next)
      BY <3>3, <3>7, <3>8, SeqEqual
    <3>10. Len(undoStack') = k + 1
      BY <2>0, <3>1, AppendProperties
    <3> QED
      BY <3>1, <3>9, <3>10 DEF UserTimeline!Edit, a
  <2>3. CASE TakeUndo
    <3>1. UserTimeline!Move((k - 1) + 1) /\ k - 1 \in 0..Len(Steps)
      BY <2>1, <2>3, UndoMoves DEF CursorMove, JInv
    <3> QED
      BY <2>0, <2>000, <3>1 DEF UserTimeline!Next
  <2>4. CASE TakeRedo
    <3>1. UserTimeline!Move((k + 1) + 1) /\ k + 1 \in 0..Len(Steps)
      BY <2>1, <2>4, RedoMoves DEF CursorMove, JInv
    <3> QED
      BY <2>0, <2>000, <3>1 DEF UserTimeline!Next
  <2>5. ASSUME NEW index \in -2..(MaxId + 1), JumpTo(index)
        PROVE  UserTimeline!Next
    <3> DEFINE c == Clamp(index, Len(Steps)) + 1
    <3>1. index \in Int
      BY MaxIdAssumption
    <3>2. CursorMove(c)
      BY <2>5, <3>1, JumpMoves DEF JInv
    <3>3. UserTimeline!Move(c + 1) /\ c \in 0..Len(Steps)
      BY <2>1, <3>2 DEF CursorMove
    <3> HIDE DEF c
    <3>4. c + 1 \in 1..Len(History)
      BY <2>0, <2>000, <3>3
    <3> QED
      BY <3>3, <3>4 DEF UserTimeline!Next
  <2>6. ASSUME NEW label \in Label, RelabelLast(label)
        PROVE  UNCHANGED <<History, Len(undoStack) + 1, plan>>
    <3>1. SameButLabels /\ Len(undoStack') = k /\ plan' = plan
      BY <2>6, RelabelSteps, RelabelStep DEF JInv
    <3>2. /\ Steps' \in Seq(Entry) /\ Len(Steps') = Len(Steps)
          /\ Steps' = <<>> <=> Steps = <<>>
      BY <2>0, <3>1, EmptySeq DEF SameButLabels
    <3>3. /\ History' \in Seq(Plan) /\ Len(History') = Len(Steps) + 1
          /\ History'[1] = IF Steps' = <<>> THEN plan ELSE Steps'[1].prevSpec
          /\ \A i \in 1..Len(Steps) : History'[i + 1] = Steps'[i].nextSpec
      <4> DEFINE h == HistoryOf(Steps', plan')
      <4>1. plan' = plan /\ plan' \in Plan /\ h = History'
        BY <2>0, <2>00, <3>1
      <4>2. /\ h \in Seq(Plan) /\ Len(h) = Len(Steps') + 1
            /\ h[1] = IF Steps' = <<>> THEN plan' ELSE Steps'[1].prevSpec
            /\ \A i \in 1..Len(Steps') : h[i + 1] = Steps'[i].nextSpec
        BY <3>2, <4>1, HistoryAt
      <4> HIDE DEF h
      <4> QED
        BY <2>0, <3>2, <4>1, <4>2
    <3>4. History'[1] = History[1]
      <4>1. Steps # <<>> => Steps'[1].prevSpec = Steps[1].prevSpec
        BY <2>0, <3>1, EmptySeq DEF SameButLabels
      <4> QED
        BY <2>000, <3>2, <3>3, <4>1
    <3>5. ASSUME NEW i \in 1..Len(Steps) PROVE History'[i + 1] = History[i + 1]
      BY <2>000, <3>1, <3>3 DEF SameButLabels
    <3>6. ASSUME NEW i \in 1..Len(History) PROVE History'[i] = History[i]
      <4>1. i = 1 \/ (i - 1 \in 1..Len(Steps) /\ (i - 1) + 1 = i)
        BY <2>0, <2>000
      <4> QED
        BY <3>4, <3>5, <4>1
    <3>7. History' = History
      BY <2>000, <3>3, <3>6, SeqEqual
    <3> QED
      BY <3>1, <3>7
  <2>7. ASSUME NEW loaded \in Plan, Clear(loaded) PROVE UserTimeline!Load(loaded)
    <3>1. Steps' = <<>> /\ Len(undoStack') + 1 = 1
      BY <2>7, ClearSteps DEF Clear
    <3> QED
      BY <2>7, <3>1 DEF UserTimeline!Load, Clear, History
  <2>8. CASE UNCHANGED vars
    BY <2>8 DEF vars, UserTimeline!vars, History, Steps
  <2>9. CASE Next
    BY <2>2, <2>3, <2>4, <2>5, <2>6, <2>7, <2>9
       DEF Next, UserTimeline!Next, UserTimeline!vars
  <2> QED
    BY <2>8, <2>9
<1> QED
  BY <1>1, <1>2, InitJInv, NextJInv, PTL
     DEF Spec, ImplementsTimeline, UserTimeline!Spec

==============================================================================
