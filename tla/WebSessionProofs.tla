--------------------------- MODULE WebSessionProofs ---------------------------
(***************************************************************************)
(* What holds of a browser session however many operations overlap: it     *)
(* comes to rest unlocked, the runner has one request, nothing stopped     *)
(* lands, and the marks are those of the step at the cursor. With one      *)
(* operation at a time it also implements the journal (the last section).  *)
(***************************************************************************)
EXTENDS WebSession, FiniteSetTheorems, SequenceTheorems, TLAPS

(* The operations that are over, and those whose steps may be found in a   *)
(* plan: over, and not stopped on the way.                                 *)
Done == {o \in DOMAIN ops : ~InFlight(o)}
Settled == Done \ stopped

PlanOf(S) == [table : 1..MaxTables, steps : SUBSET S]
EntryOf(S) == [id : Ops, prevSpec : PlanOf(S), nextSpec : PlanOf(S)]

Tinted == marks \subseteq Source /\ tints \in [Ops -> SUBSET Source]

Flags ==
  /\ busy \in 0..MaxOps /\ activeAbort \in 0..MaxOps
  /\ streaming \in BOOLEAN /\ progress \in BOOLEAN
  /\ stopped \subseteq Ops /\ table \in 1..MaxTables /\ runAbort \in 0..MaxOps
  /\ Tinted
  /\ ops \in Seq(Operation) /\ Len(ops) <= MaxOps

(* No entry without an operation that is over. *)
Counted == idSeq \in Nat /\ idSeq <= Cardinality(Done)

(* The plans of the journal and of the screen carry settled operations;    *)
(* an operation in flight is bound for such a plan, with its own step.     *)
CleanJournal ==
  /\ undoStack \in Seq(EntryOf(Settled)) /\ redoStack \in Seq(EntryOf(Settled))
  /\ spec \in PlanOf(Settled)

Adds == {"request", "flow", "gesture"}
CleanOps ==
  \A o \in DOMAIN ops : InFlight(o) =>
    /\ ops[o].prev \in PlanOf(Settled)
    /\ ops[o].target \in PlanOf(IF ops[o].kind \in Adds THEN Settled \union {o} ELSE Settled)

Stoppable == \A o \in stopped : o \in DOMAIN ops /\ ops[o].kind \in {"request", "flow", "runAll"}

(* Somebody in flight will lower what is raised; a move or an edit never    *)
(* raises the flag.                                                        *)
Raised ==
  /\ \A o \in DOMAIN ops : ops[o].raised => ops[o].kind \notin {"move", "gesture"}
  /\ streaming => \E o \in DOMAIN ops : InFlight(o) /\ ops[o].raised
  /\ progress => Running({"request", "flow", "runAll"})
  /\ activeAbort # None =>
       /\ activeAbort \in DOMAIN ops /\ InFlight(activeAbort)
       /\ ops[activeAbort].kind \in {"request", "flow"}
  /\ runAbort # None =>
       /\ runAbort \in DOMAIN ops /\ InFlight(runAbort)
       /\ ops[runAbort].kind = "runAll"

(* An entry keeps the marks of its own step; while no move replays, no     *)
(* step is tinted but the one at the cursor.                               *)
MarksFollow ==
  /\ \A e \in Ops : tints[e] \subseteq {e}
  /\ ~Running({"move"}) => marks \intersect Ops \subseteq {Cursor(undoStack)}

WInv ==
  /\ Flags /\ Counted /\ CleanJournal /\ CleanOps /\ Stoppable
  /\ Raised /\ OneInRunner /\ MarksFollow

------------------------------------------------------------------------------
(* Sequences: what the stacks of the journal are cut and joined from.      *)

(* A sequence over some entries is one over more.                          *)
LEMMA SeqMono ==
  ASSUME NEW S, NEW T, S \subseteq T, NEW s \in Seq(S)
  PROVE  s \in Seq(T)
<1>1. DOMAIN s = 1..Len(s) /\ Len(s) \in Nat /\ \A i \in 1..Len(s) : s[i] \in T
  OBVIOUS
<1>2. s = [i \in 1..Len(s) |-> s[i]]
  BY <1>1
<1> QED
  BY <1>1, <1>2

(* A piece of the timeline is a sequence of its entries.                   *)
LEMMA CutOf ==
  ASSUME NEW S, NEW s \in Seq(S), NEW m \in 1..(Len(s) + 1), NEW n \in 0..Len(s)
  PROVE  SubSeq(s, m, n) \in Seq(S)
<1>1. \A i \in m..n : s[i] \in S
  OBVIOUS
<1>2. m \in Int /\ n \in Int
  OBVIOUS
<1> QED
  BY <1>1, <1>2, SubSeqProperties

(* A non-empty stack is its top and the rest, of the same entries.         *)
LEMMA FrontAndLast ==
  ASSUME NEW S, NEW s \in Seq(S), s # <<>>
  PROVE  Front(s) \in Seq(S) /\ Last(s) \in S
<1>1. Len(s) \in Nat \ {0}
  OBVIOUS
<1>2. SubSeq(s, 1, Len(s) - 1) \in Seq(S)
  <2>1. Len(s) - 1 \in 0..Len(s) /\ 1 \in 1..(Len(s) + 1)
    BY <1>1
  <2> QED
    BY <2>1, CutOf
<1>3. s[Len(s)] \in S
  BY <1>1
<1> QED
  BY <1>2, <1>3 DEF Front, Last

(* A stack turned over has the same entries.                               *)
LEMMA ReverseOf ==
  ASSUME NEW S, NEW s \in Seq(S)
  PROVE  Reverse(s) \in Seq(S)
<1>1. Len(s) \in Nat /\ \A i \in 1..Len(s) : s[(Len(s) - i) + 1] \in S
  OBVIOUS
<1> QED
  BY <1>1 DEF Reverse

(* The timeline has the entries of the two stacks.                         *)
LEMMA TimelineOf ==
  ASSUME NEW S, undoStack \in Seq(S), redoStack \in Seq(S)
  PROVE  Timeline \in Seq(S)
<1>1. Reverse(redoStack) \in Seq(S)
  BY ReverseOf
<1> QED
  BY <1>1, ConcatProperties DEF Timeline

------------------------------------------------------------------------------
(* Operations: what a step does to one of them, and to those that are      *)
(* over.                                                                   *)

(* What is known of the record of an operation.                            *)
LEMMA OperationAt ==
  ASSUME ops \in Seq(Operation), NEW o \in DOMAIN ops
  PROVE  /\ ops[o] \in Operation
         /\ ops[o].kind \in Kind /\ ops[o].pc \in Wait
         /\ ops[o].prev \in Plan /\ ops[o].target \in Plan
         /\ ops[o].tries \in 0..(Budget - 1) /\ ops[o].raised \in BOOLEAN
         /\ o \in Nat \ {0} /\ o <= Len(ops)
<1>1. ops[o] \in Operation /\ o \in Nat \ {0} /\ o <= Len(ops)
  OBVIOUS
<1> QED
  BY <1>1 DEF Operation

(* A step that moves operation o along.                                    *)
Turned(o) ==
  /\ ops' \in Seq(Operation)
  /\ Len(ops') = Len(ops) /\ DOMAIN ops' = DOMAIN ops
  /\ \A p \in DOMAIN ops : p # o => ops'[p] = ops[p]
  /\ ops'[o].kind = ops[o].kind /\ ops'[o].prev = ops[o].prev
  /\ ops'[o].raised = ops[o].raised

(* New pc, target and tries: the rest of the operation stays.              *)
LEMMA TurnedBy ==
  ASSUME ops \in Seq(Operation), NEW o \in DOMAIN ops,
         NEW pc \in Wait, NEW target \in Plan, NEW tries \in 0..(Budget - 1),
         ops' = [ops EXCEPT ![o] = [ops[o] EXCEPT !.pc = pc, !.target = target, !.tries = tries]]
  PROVE  Turned(o) /\ ops'[o].pc = pc /\ ops'[o].target = target
<1> DEFINE r == [ops[o] EXCEPT !.pc = pc, !.target = target, !.tries = tries]
<1>1. ops[o] \in Operation
  BY OperationAt
<1>2. /\ r \in Operation /\ r.pc = pc /\ r.target = target
      /\ r.kind = ops[o].kind /\ r.prev = ops[o].prev /\ r.raised = ops[o].raised
  BY <1>1 DEF Operation
<1>3. ops' = [ops EXCEPT ![o] = r]
  OBVIOUS
<1> HIDE DEF r
<1>4. /\ ops' \in Seq(Operation)
      /\ Len(ops') = Len(ops) /\ DOMAIN ops' = DOMAIN ops
      /\ ops'[o] = r
      /\ \A p \in DOMAIN ops : p # o => ops'[p] = ops[p]
  BY <1>2, <1>3
<1> QED
  BY <1>2, <1>4 DEF Turned

(* An operation that ends keeps what it was bound for.                     *)
LEMMA GotoTurns ==
  ASSUME ops \in Seq(Operation), NEW o \in DOMAIN ops, Goto(o, "done")
  PROVE  Turned(o) /\ ops'[o].pc = "done" /\ ops'[o].target = ops[o].target
<1> DEFINE r == [ops[o] EXCEPT !.pc = "done"]
<1>1. ops[o] \in Operation /\ "done" \in Wait
  BY OperationAt DEF Wait
<1>2. /\ r \in Operation /\ r.pc = "done" /\ r.target = ops[o].target
      /\ r.kind = ops[o].kind /\ r.prev = ops[o].prev /\ r.raised = ops[o].raised
  BY <1>1 DEF Operation
<1>3. ops' = [ops EXCEPT ![o] = r]
  BY DEF Goto
<1> HIDE DEF r
<1>4. /\ ops' \in Seq(Operation)
      /\ Len(ops') = Len(ops) /\ DOMAIN ops' = DOMAIN ops
      /\ ops'[o] = r
      /\ \A p \in DOMAIN ops : p # o => ops'[p] = ops[p]
  BY <1>2, <1>3
<1> QED
  BY <1>2, <1>4 DEF Turned

(* A step that starts an operation.                                        *)
Started(kind, pc, target, raised) ==
  /\ ops' \in Seq(Operation)
  /\ Len(ops') = Len(ops) + 1 /\ DOMAIN ops' = DOMAIN ops \union {Self} /\ Self \notin DOMAIN ops
  /\ Self \in Ops
  /\ \A p \in DOMAIN ops : ops'[p] = ops[p]
  /\ ops'[Self].kind = kind /\ ops'[Self].pc = pc /\ ops'[Self].prev = spec
  /\ ops'[Self].target = target /\ ops'[Self].raised = raised

(* Begin appends one operation, bound for its target.                      *)
LEMMA StartedBy ==
  ASSUME ops \in Seq(Operation), spec \in Plan,
         NEW kind \in Kind, NEW pc \in Wait, NEW target \in Plan, NEW raised \in BOOLEAN,
         Begin(kind, pc, target, raised)
  PROVE  Started(kind, pc, target, raised) /\ (Overlap \/ Quiet)
<1> DEFINE r == [kind |-> kind, pc |-> pc, prev |-> spec, target |-> target, tries |-> 0,
                 raised |-> raised]
<1>1. ops' = Append(ops, r) /\ Self \in Ops /\ (Overlap \/ Quiet)
  BY DEF Begin
<1>2. r \in Operation
  <2>1. 0 \in 0..(Budget - 1)
    BY SessionAssumption
  <2> QED
    BY <2>1 DEF Operation
<1>3. /\ r.kind = kind /\ r.pc = pc /\ r.prev = spec /\ r.target = target /\ r.raised = raised
  OBVIOUS
<1> HIDE DEF r
<1>4. /\ ops' \in Seq(Operation) /\ Len(ops') = Len(ops) + 1
      /\ ops'[Len(ops) + 1] = r
      /\ \A i \in 1..Len(ops) : ops'[i] = ops[i]
  BY <1>1, <1>2, AppendProperties
<1>5. Len(ops) \in Nat /\ DOMAIN ops = 1..Len(ops) /\ DOMAIN ops' = 1..(Len(ops) + 1)
  BY <1>4
<1>6. DOMAIN ops' = DOMAIN ops \union {Self} /\ Self \notin DOMAIN ops
  BY <1>5 DEF Self
<1> QED
  BY <1>1, <1>3, <1>4, <1>5, <1>6 DEF Started, Self

(* There are n numbers from 1 to n.                                        *)
LEMMA FirstNumbers ==
  ASSUME NEW n \in Nat
  PROVE  IsFiniteSet(1..n) /\ Cardinality(1..n) = n
BY FS_Interval

(* No more operations are over than were started.                          *)
LEMMA DoneFinite ==
  ASSUME ops \in Seq(Operation)
  PROVE  /\ IsFiniteSet(Done) /\ Cardinality(Done) \in Nat
         /\ Cardinality(Done) <= Len(ops)
         /\ Done \subseteq 1..Len(ops)
<1>1. Len(ops) \in Nat /\ Done \subseteq 1..Len(ops)
  BY DEF Done
<1>2. IsFiniteSet(1..Len(ops)) /\ Cardinality(1..Len(ops)) = Len(ops)
  BY <1>1, FirstNumbers
<1> QED
  BY <1>1, <1>2, FS_Subset, FS_CardinalityType

------------------------------------------------------------------------------
(* What is settled only grows, whatever an operation does.                 *)

(* A plan of some settled steps is one of more.                            *)
LEMMA PlansGrow ==
  ASSUME NEW S, NEW T, S \subseteq T
  PROVE  /\ \A p \in PlanOf(S) : p \in PlanOf(T)
         /\ EntryOf(S) \subseteq EntryOf(T)
<1>1. \A p \in PlanOf(S) : p \in PlanOf(T)
  BY DEF PlanOf
<1> QED
  BY <1>1 DEF EntryOf

(* A replay starting now has the steps it is given.                        *)
LEMMA OverOf ==
  ASSUME NEW S, NEW steps \in SUBSET S, table \in 1..MaxTables
  PROVE  Over(steps) \in PlanOf(S)
BY DEF Over, PlanOf

(* Plans over operations of the session are plans.                         *)
LEMMA SettledPlans ==
  ASSUME Flags, NEW S, S \subseteq DOMAIN ops
  PROVE  /\ S \subseteq Ops
         /\ \A p \in PlanOf(S) : p \in Plan /\ p.steps \subseteq S
         /\ EntryOf(S) \subseteq Entry
<1>1. S \subseteq Ops
  <2>1. DOMAIN ops = 1..Len(ops) /\ Len(ops) \in Nat /\ Len(ops) <= MaxOps
    BY DEF Flags
  <2> QED
    BY <2>1, SessionAssumption DEF Ops
<1>2. \A p \in PlanOf(S) : p \in Plan /\ p.steps \subseteq S
  BY <1>1 DEF PlanOf, Plan
<1> QED
  BY <1>1, <1>2 DEF EntryOf, Entry

(* An operation still in flight settles nothing.                           *)
LEMMA TurnSettles ==
  ASSUME ops \in Seq(Operation), NEW o \in DOMAIN ops, InFlight(o), Turned(o),
         ops'[o].pc # "done", stopped' = stopped
  PROVE  /\ Done' = Done /\ Settled' = Settled
         /\ \A p \in DOMAIN ops : InFlight(p)' <=> InFlight(p)
<1>1. \A p \in DOMAIN ops : InFlight(p)' <=> InFlight(p)
  BY DEF Turned, InFlight
<1>2. Done' = Done
  BY <1>1 DEF Done, Turned
<1> QED
  BY <1>1, <1>2 DEF Settled

(* An ending adds one operation that is over, and settles it unless        *)
(* stopped.                                                                *)
LEMMA EndSettles ==
  ASSUME ops \in Seq(Operation), NEW o \in DOMAIN ops, InFlight(o), Turned(o),
         ops'[o].pc = "done", stopped' = stopped
  PROVE  /\ Done' = Done \union {o}
         /\ Settled \subseteq Settled' /\ (o \notin stopped => o \in Settled')
         /\ Cardinality(Done') = Cardinality(Done) + 1
         /\ \A p \in DOMAIN ops : InFlight(p)' <=> (p # o /\ InFlight(p))
<1>1. \A p \in DOMAIN ops : InFlight(p)' <=> (p # o /\ InFlight(p))
  BY DEF Turned, InFlight
<1>2. Done' = Done \union {o} /\ o \notin Done
  BY <1>1 DEF Done, Turned
<1>3. Cardinality(Done') = Cardinality(Done) + 1
  BY <1>2, DoneFinite, FS_AddElement
<1> QED
  BY <1>1, <1>2, <1>3 DEF Settled

(* A start unsettles nothing; only a refused request is over at once.      *)
LEMMA StartSettles ==
  ASSUME ops \in Seq(Operation), NEW kind \in Kind, NEW pc \in Wait,
         NEW target \in Plan, NEW raised \in BOOLEAN,
         Started(kind, pc, target, raised), stopped' = stopped
  PROVE  /\ Settled \subseteq Settled' /\ Cardinality(Done) <= Cardinality(Done')
         /\ Settled' \subseteq Settled \union {Self}
         /\ \A p \in DOMAIN ops : InFlight(p)' <=> InFlight(p)
         /\ pc # "done" => Done' = Done /\ Settled' = Settled
<1>1. \A p \in DOMAIN ops : InFlight(p)' <=> InFlight(p)
  BY DEF Started, InFlight
<1>2. Done \subseteq Done' /\ Done' \subseteq Done \union {Self}
  BY <1>1 DEF Done, Started
<1>3. Cardinality(Done) <= Cardinality(Done')
  <2>1. IsFiniteSet(Done')
    <3>1. ops' \in Seq(Operation)
      BY DEF Started
    <3>2. Len(ops') \in Nat /\ Done' \subseteq 1..Len(ops')
      BY <3>1 DEF Done
    <3>3. IsFiniteSet(1..Len(ops'))
      BY <3>2, FS_Interval
    <3> QED
      BY <3>2, <3>3, FS_Subset
  <2> QED
    BY <2>1, <1>2, FS_Subset
<1>4. pc # "done" => Done' = Done
  BY <1>1, <1>2 DEF Done, Started, InFlight
<1> QED
  BY <1>1, <1>2, <1>3, <1>4 DEF Settled

------------------------------------------------------------------------------
(* The parts of the invariant, step by step: first those that only look at *)
(* the operations.                                                         *)

OpsPart == CleanOps /\ Stoppable /\ ops \in Seq(Operation) /\ Len(ops) <= MaxOps

(* An operation still in flight may change its target for a clean one.     *)
LEMMA TurnOps ==
  ASSUME WInv, NEW o \in DOMAIN ops, InFlight(o), Turned(o),
         ops'[o].pc # "done", stopped' = stopped,
         ops'[o].target \in PlanOf(IF ops[o].kind \in Adds THEN Settled \union {o} ELSE Settled)
  PROVE  OpsPart'
<1>1. Settled' = Settled /\ \A p \in DOMAIN ops : InFlight(p)' <=> InFlight(p)
  BY TurnSettles DEF WInv, Flags
<1>2. DOMAIN ops' = DOMAIN ops /\ ops' \in Seq(Operation) /\ Len(ops') <= MaxOps
  BY DEF Turned, WInv, Flags
<1>3. CleanOps'
  <2>1. SUFFICES ASSUME NEW p \in DOMAIN ops, InFlight(p)'
                 PROVE  /\ ops'[p].prev \in PlanOf(Settled)
                        /\ ops'[p].target \in PlanOf(IF ops'[p].kind \in Adds THEN Settled \union {p} ELSE Settled)
    BY <1>1, <1>2 DEF CleanOps
  <2>2. InFlight(p)
    BY <1>1, <2>1
  <2>3. /\ ops[p].prev \in PlanOf(Settled)
        /\ ops[p].target \in PlanOf(IF ops[p].kind \in Adds THEN Settled \union {p} ELSE Settled)
    BY <2>2 DEF WInv, CleanOps
  <2>4. CASE p = o
    BY <2>3, <2>4 DEF Turned
  <2>5. CASE p # o
    BY <2>3, <2>5 DEF Turned
  <2> QED
    BY <2>4, <2>5
<1>4. Stoppable'
  BY <1>2 DEF WInv, Stoppable, Turned
<1> QED
  BY <1>2, <1>3, <1>4 DEF OpsPart

(* An ending leaves the others bound for clean plans.                      *)
LEMMA EndOps ==
  ASSUME WInv, NEW o \in DOMAIN ops, InFlight(o), Turned(o),
         ops'[o].pc = "done", stopped' = stopped
  PROVE  OpsPart'
<1>1. /\ Settled \subseteq Settled'
      /\ \A p \in DOMAIN ops : InFlight(p)' <=> (p # o /\ InFlight(p))
  BY EndSettles DEF WInv, Flags
<1>2. DOMAIN ops' = DOMAIN ops /\ ops' \in Seq(Operation) /\ Len(ops') <= MaxOps
  BY DEF Turned, WInv, Flags
<1>3. CleanOps'
  <2>1. SUFFICES ASSUME NEW p \in DOMAIN ops, InFlight(p)'
                 PROVE  /\ ops'[p].prev \in PlanOf(Settled')
                        /\ ops'[p].target \in PlanOf(IF ops'[p].kind \in Adds THEN Settled' \union {p} ELSE Settled')
    BY <1>2 DEF CleanOps
  <2>2. InFlight(p) /\ ops'[p] = ops[p]
    BY <1>1, <2>1 DEF Turned
  <2>3. /\ ops[p].prev \in PlanOf(Settled)
        /\ ops[p].target \in PlanOf(IF ops[p].kind \in Adds THEN Settled \union {p} ELSE Settled)
    BY <2>2 DEF WInv, CleanOps
  <2> DEFINE S == IF ops[p].kind \in Adds THEN Settled \union {p} ELSE Settled
             T == IF ops[p].kind \in Adds THEN Settled' \union {p} ELSE Settled'
  <2>4. S \subseteq T
    BY <1>1
  <2>5. ops[p].target \in PlanOf(S)
    BY <2>3
  <2> HIDE DEF S, T
  <2>6. ops[p].target \in PlanOf(T)
    BY <2>4, <2>5, PlansGrow
  <2>7. ops[p].prev \in PlanOf(Settled')
    BY <1>1, <2>3, PlansGrow
  <2> QED
    BY <2>2, <2>6, <2>7 DEF T
<1>4. Stoppable'
  BY <1>2 DEF WInv, Stoppable, Turned
<1> QED
  BY <1>2, <1>3, <1>4 DEF OpsPart

(* A start bound for a clean plan joins the others.                        *)
LEMMA StartOps ==
  ASSUME WInv, NEW kind \in Kind, NEW pc \in Wait,
         NEW target \in Plan, NEW raised \in BOOLEAN,
         Started(kind, pc, target, raised), stopped' = stopped,
         pc # "done" => target \in PlanOf(IF kind \in Adds THEN Settled \union {Self} ELSE Settled)
  PROVE  OpsPart'
<1>1. /\ Settled \subseteq Settled' /\ \A p \in DOMAIN ops : InFlight(p)' <=> InFlight(p)
      /\ pc # "done" => Settled' = Settled
  BY StartSettles DEF WInv, Flags
<1>2. /\ DOMAIN ops' = DOMAIN ops \union {Self} /\ ops' \in Seq(Operation) /\ Len(ops') <= MaxOps
      /\ Self \notin DOMAIN ops
  <2>1. Len(ops') <= MaxOps
    BY SessionAssumption DEF Started, Self, Ops
  <2> QED
    BY <2>1 DEF Started
<1>3. CleanOps'
  <2>1. SUFFICES ASSUME NEW p \in DOMAIN ops \union {Self}, InFlight(p)'
                 PROVE  /\ ops'[p].prev \in PlanOf(Settled')
                        /\ ops'[p].target \in PlanOf(IF ops'[p].kind \in Adds THEN Settled' \union {p} ELSE Settled')
    BY <1>2 DEF CleanOps
  <2>2. CASE p = Self
    <3>1. ops'[p].kind = kind /\ ops'[p].pc = pc /\ ops'[p].prev = spec /\ ops'[p].target = target
      BY <2>2 DEF Started
    <3>2. pc # "done"
      BY <2>1, <3>1 DEF InFlight
    <3>3. spec \in PlanOf(Settled)
      BY DEF WInv, CleanJournal
    <3> QED
      BY <1>1, <2>2, <3>1, <3>2, <3>3
  <2>3. CASE p # Self
    <3>1. p \in DOMAIN ops /\ InFlight(p) /\ ops'[p] = ops[p]
      BY <1>1, <2>1, <2>3 DEF Started
    <3>2. /\ ops[p].prev \in PlanOf(Settled)
          /\ ops[p].target \in PlanOf(IF ops[p].kind \in Adds THEN Settled \union {p} ELSE Settled)
      BY <3>1 DEF WInv, CleanOps
    <3> DEFINE S == IF ops[p].kind \in Adds THEN Settled \union {p} ELSE Settled
               T == IF ops[p].kind \in Adds THEN Settled' \union {p} ELSE Settled'
    <3>3. S \subseteq T
      BY <1>1
    <3>4. ops[p].target \in PlanOf(S)
      BY <3>2
    <3> HIDE DEF S, T
    <3>5. ops[p].target \in PlanOf(T)
      BY <3>3, <3>4, PlansGrow
    <3>6. ops[p].prev \in PlanOf(Settled')
      BY <1>1, <3>2, PlansGrow
    <3> QED
      BY <3>1, <3>5, <3>6 DEF T
  <2> QED
    BY <2>2, <2>3
<1>4. Stoppable'
  BY <1>2 DEF WInv, Stoppable, Started
<1> QED
  BY <1>2, <1>3, <1>4 DEF OpsPart

------------------------------------------------------------------------------
(* Then the journal: of the entries there were, or with one more.          *)

JournalPart == CleanJournal /\ Counted

(* Stacks cut from the entries there were stay clean, and counted.         *)
LEMMA JournalWithin ==
  ASSUME WInv, Settled \subseteq Settled', Cardinality(Done) <= Cardinality(Done'),
         ops' \in Seq(Operation), idSeq' = idSeq, spec' \in PlanOf(Settled),
         undoStack' \in Seq(EntryOf(Settled)), redoStack' \in Seq(EntryOf(Settled))
  PROVE  JournalPart'
<1>1. EntryOf(Settled) \subseteq EntryOf(Settled') /\ spec' \in PlanOf(Settled')
  BY PlansGrow
<1>2. /\ undoStack' \in Seq(EntryOf(Settled')) /\ redoStack' \in Seq(EntryOf(Settled'))
  BY <1>1, SeqMono
<1>3. CleanJournal'
  BY <1>1, <1>2 DEF CleanJournal
<1>4. Cardinality(Done) \in Nat /\ Cardinality(Done') \in Nat
  <2>1. Cardinality(Done) \in Nat
    BY DoneFinite DEF WInv, Flags
  <2>2. IsFiniteSet(Done')
    <3>1. Len(ops') \in Nat /\ Done' \subseteq 1..Len(ops')
      BY DEF Done
    <3>2. IsFiniteSet(1..Len(ops'))
      BY <3>1, FS_Interval
    <3> QED
      BY <3>1, <3>2, FS_Subset
  <2> QED
    BY <2>1, <2>2, FS_CardinalityType
<1>5. Counted'
  BY <1>4 DEF WInv, Counted
<1> QED
  BY <1>3, <1>5 DEF JournalPart

(* A record adds the entry of an operation that is over and was not        *)
(* stopped.                                                                *)
LEMMA Recorded ==
  ASSUME WInv, NEW o \in DOMAIN ops, InFlight(o), Turned(o), ops'[o].pc = "done",
         stopped' = stopped, o \notin stopped,
         spec' = ops[o].target, Record(o)
  PROVE  /\ JournalPart'
         /\ Tinted' /\ MarksFollow'
<1>1. /\ Settled \subseteq Settled' /\ o \in Settled'
      /\ Cardinality(Done') = Cardinality(Done) + 1
  BY EndSettles DEF WInv, Flags
<1>2. ops \in Seq(Operation) /\ ops' \in Seq(Operation) /\ Len(ops') = Len(ops) /\ Len(ops) <= MaxOps
  BY DEF WInv, Flags, Turned
<1>3. /\ Cardinality(Done) \in Nat /\ Cardinality(Done') \in Nat
      /\ Cardinality(Done') <= MaxOps
  <2>1. Len(ops') \in Nat /\ Done' \subseteq 1..Len(ops')
    BY <1>2 DEF Done
  <2>2. IsFiniteSet(1..Len(ops')) /\ Cardinality(1..Len(ops')) = Len(ops')
    BY <2>1, FirstNumbers
  <2>3. IsFiniteSet(Done') /\ Cardinality(Done') <= Len(ops')
    BY <2>1, <2>2, FS_Subset
  <2>4. Cardinality(Done) \in Nat
    BY <1>2, DoneFinite
  <2> QED
    BY <1>1, <1>2, <2>1, <2>3, <2>4, SessionAssumption
<1>4. idSeq + 1 \in Ops /\ Counted'
  BY <1>1, <1>3, SessionAssumption DEF WInv, Counted, Record, Ops
<1>5. ops[o].prev \in PlanOf(Settled') /\ ops[o].target \in PlanOf(Settled')
  <2>1. /\ ops[o].prev \in PlanOf(Settled)
        /\ ops[o].target \in PlanOf(IF ops[o].kind \in Adds THEN Settled \union {o} ELSE Settled)
    BY DEF WInv, CleanOps
  <2> DEFINE S == IF ops[o].kind \in Adds THEN Settled \union {o} ELSE Settled
  <2>2. S \subseteq Settled' /\ ops[o].target \in PlanOf(S)
    BY <1>1, <2>1
  <2> HIDE DEF S
  <2> QED
    BY <1>1, <2>1, <2>2, PlansGrow
<1> DEFINE e == [id |-> idSeq + 1, prevSpec |-> ops[o].prev, nextSpec |-> ops[o].target]
<1>6. e \in EntryOf(Settled') /\ e.id = idSeq + 1
  BY <1>4, <1>5 DEF EntryOf
<1>7. undoStack' = Append(undoStack, e) /\ redoStack' = <<>>
      /\ marks' = {idSeq + 1} /\ tints' = [tints EXCEPT ![idSeq + 1] = {idSeq + 1}]
  BY DEF Record, Tint
<1> HIDE DEF e
<1>8. undoStack \in Seq(EntryOf(Settled'))
  BY <1>1, PlansGrow, SeqMono DEF WInv, CleanJournal
<1>9. undoStack' \in Seq(EntryOf(Settled')) /\ Len(undoStack') = Len(undoStack) + 1
      /\ undoStack'[Len(undoStack) + 1] = e
  BY <1>6, <1>7, <1>8, AppendProperties
<1>10. CleanJournal'
  BY <1>5, <1>7, <1>9 DEF CleanJournal
<1>11. MarksFollow'
  <2>1. undoStack' # <<>> /\ Last(undoStack') = e
    BY <1>8, <1>9 DEF Last
  <2> QED
    BY <2>1, <1>4, <1>6, <1>7 DEF WInv, Flags, Tinted, MarksFollow, Cursor
<1>12. Tinted'
  BY <1>4, <1>7, SessionAssumption DEF WInv, Flags, Tinted, Source
<1> QED
  BY <1>4, <1>10, <1>11, <1>12 DEF JournalPart

------------------------------------------------------------------------------
(* Then the flags, and who is there to lower them.                         *)

RunPart == Raised /\ OneInRunner

(* An operation still in flight holds its flags, as do the others.         *)
LEMMA TurnRun ==
  ASSUME WInv, NEW o \in DOMAIN ops, InFlight(o), Turned(o),
         ops'[o].pc # "done", stopped' = stopped, UNCHANGED flags
  PROVE  RunPart' /\ (Running({"move"})' <=> Running({"move"}))
<1>1. /\ DOMAIN ops' = DOMAIN ops
      /\ \A p \in DOMAIN ops : /\ InFlight(p)' <=> InFlight(p)
                               /\ ops'[p].kind = ops[p].kind /\ ops'[p].raised = ops[p].raised
  BY TurnSettles DEF WInv, Flags, Turned
<1>2. Raised'
  BY <1>1 DEF WInv, Raised, Running, flags
<1>3. OneInRunner'
  BY <1>1 DEF WInv, OneInRunner, flags
<1> QED
  BY <1>1, <1>2, <1>3 DEF RunPart, Running

(* The request of the runner frees it; nothing else was in it.             *)
LEMMA EndRunner ==
  ASSUME WInv, NEW o \in DOMAIN ops, InFlight(o), Turned(o),
         ops'[o].pc = "done", stopped' = stopped,
         IF ops[o].kind = "request" THEN busy' = None ELSE busy' = busy
  PROVE  OneInRunner' /\ (ops[o].kind # "move" => (Running({"move"})' <=> Running({"move"})))
<1>1. /\ DOMAIN ops' = DOMAIN ops
      /\ \A p \in DOMAIN ops : /\ InFlight(p)' <=> (p # o /\ InFlight(p))
                               /\ ops'[p].kind = ops[p].kind
  BY EndSettles DEF WInv, Flags, Turned
<1>2. {p \in DOMAIN ops : ops[p].kind = "request" /\ InFlight(p)} = {busy} \ {None}
  BY DEF WInv, OneInRunner
<1>3. OneInRunner'
  <2>1. {p \in DOMAIN ops' : ops'[p].kind = "request" /\ InFlight(p)'}
          = {p \in DOMAIN ops : ops[p].kind = "request" /\ InFlight(p)} \ {o}
    BY <1>1
  <2>2. CASE ops[o].kind = "request"
    <3>1. {busy} \ {None} = {o}
      BY <1>2, <2>2
    <3> QED
      BY <1>2, <2>1, <2>2, <3>1 DEF OneInRunner
  <2>3. CASE ops[o].kind # "request"
    <3>1. o \notin {busy} \ {None}
      BY <1>2, <2>3
    <3> QED
      BY <1>2, <2>1, <2>3, <3>1 DEF OneInRunner
  <2> QED
    BY <2>2, <2>3
<1> QED
  BY <1>1, <1>3 DEF Running

(* With every flag down nobody need hold one.                              *)
LEMMA EndLowered ==
  ASSUME WInv, NEW o \in DOMAIN ops, InFlight(o), Turned(o), LowerRun, ops[o].kind # "runAll"
  PROVE  Raised'
<1>1. \A p \in DOMAIN ops' : ops'[p].raised => ops'[p].kind \notin {"move", "gesture"}
  BY DEF WInv, Raised, Turned
<1>2. runAbort' = runAbort /\ (runAbort # None => runAbort # o)
  BY DEF WInv, Raised, LowerRun
<1> QED
  BY <1>1, <1>2 DEF WInv, Raised, LowerRun, Turned, InFlight

(* Whoever raised a flag is another operation, or the flag goes down now.  *)
LEMMA EndRaised ==
  ASSUME WInv, NEW o \in DOMAIN ops, InFlight(o), Turned(o),
         ops'[o].pc = "done", stopped' = stopped,
         ops[o].kind \notin {"request", "flow"},
         streaming' \in BOOLEAN, progress' \in BOOLEAN,
         streaming' => streaming /\ ~ops[o].raised,
         progress' => progress /\ ops[o].kind # "runAll",
         activeAbort' = activeAbort,
         runAbort' = None \/ (runAbort' = runAbort /\ ops[o].kind # "runAll")
  PROVE  Raised'
<1>1. /\ DOMAIN ops' = DOMAIN ops
      /\ \A p \in DOMAIN ops : /\ InFlight(p)' <=> (p # o /\ InFlight(p))
                               /\ ops'[p].kind = ops[p].kind /\ ops'[p].raised = ops[p].raised
  BY EndSettles DEF WInv, Flags, Turned
<1>2. ASSUME streaming' PROVE \E p \in DOMAIN ops' : InFlight(p)' /\ ops'[p].raised
  BY <1>1, <1>2 DEF WInv, Raised
<1>3. ASSUME progress' PROVE Running({"request", "flow", "runAll"})'
  BY <1>1, <1>3 DEF WInv, Raised, Running
<1>4. ASSUME activeAbort' # None
      PROVE  /\ activeAbort' \in DOMAIN ops' /\ InFlight(activeAbort)'
             /\ ops'[activeAbort'].kind \in {"request", "flow"}
  <2>1. /\ activeAbort \in DOMAIN ops /\ InFlight(activeAbort)
        /\ ops[activeAbort].kind \in {"request", "flow"}
    BY <1>4 DEF WInv, Raised
  <2>2. activeAbort # o /\ ops'[activeAbort] = ops[activeAbort]
    BY <2>1 DEF Turned
  <2> QED
    BY <1>1, <2>1, <2>2 DEF InFlight
<1>5. ASSUME runAbort' # None
      PROVE  /\ runAbort' \in DOMAIN ops' /\ InFlight(runAbort)'
             /\ ops'[runAbort'].kind = "runAll"
  <2>1. /\ runAbort \in DOMAIN ops /\ InFlight(runAbort) /\ runAbort' = runAbort
        /\ ops[runAbort].kind = "runAll" /\ ops[o].kind # "runAll"
    BY <1>5 DEF WInv, Raised
  <2>2. runAbort # o /\ ops'[runAbort] = ops[runAbort]
    BY <2>1 DEF Turned
  <2> QED
    BY <1>1, <2>1, <2>2 DEF InFlight
<1>6. \A p \in DOMAIN ops' : ops'[p].raised => ops'[p].kind \notin {"move", "gesture"}
  BY <1>1 DEF WInv, Raised
<1> QED
  BY <1>2, <1>3, <1>4, <1>5, <1>6 DEF Raised

(* Who starts holds what it raises; what was raised is still held.         *)
LEMMA StartRun ==
  ASSUME WInv, NEW kind \in Kind, NEW pc \in Wait \ {"done"},
         NEW target \in Plan, NEW raised \in BOOLEAN,
         Started(kind, pc, target, raised), stopped' = stopped,
         raised = FALSE \/ kind \notin {"move", "gesture"},
         streaming' = streaming \/ raised = TRUE,
         progress' = progress \/ kind \in {"request", "flow", "runAll"},
         activeAbort' = activeAbort \/ (activeAbort' = Self /\ kind \in {"request", "flow"}),
         runAbort' = runAbort \/ (runAbort' = Self /\ kind = "runAll")
  PROVE  Raised'
<1>1. /\ DOMAIN ops' = DOMAIN ops \union {Self}
      /\ \A p \in DOMAIN ops : /\ InFlight(p)' <=> InFlight(p)
                               /\ ops'[p] = ops[p]
      /\ ops'[Self].pc # "done" /\ ops'[Self].kind = kind /\ ops'[Self].raised = raised
  BY StartSettles DEF WInv, Flags, Started
<1>2. ASSUME streaming' PROVE \E p \in DOMAIN ops' : ops'[p].pc # "done" /\ ops'[p].raised
  BY <1>1, <1>2 DEF WInv, Raised, InFlight
<1>3. ASSUME progress'
      PROVE  \E p \in DOMAIN ops' : ops'[p].pc # "done" /\ ops'[p].kind \in {"request", "flow", "runAll"}
  BY <1>1, <1>3 DEF WInv, Raised, Running, InFlight
<1>4. ASSUME activeAbort' # None
      PROVE  /\ activeAbort' \in DOMAIN ops' /\ ops'[activeAbort'].pc # "done"
             /\ ops'[activeAbort'].kind \in {"request", "flow"}
  BY <1>1, <1>4 DEF WInv, Raised, InFlight
<1>5. ASSUME runAbort' # None
      PROVE  /\ runAbort' \in DOMAIN ops' /\ ops'[runAbort'].pc # "done"
             /\ ops'[runAbort'].kind = "runAll"
  BY <1>1, <1>5 DEF WInv, Raised, InFlight
<1>6. \A p \in DOMAIN ops' : ops'[p].raised => ops'[p].kind \notin {"move", "gesture"}
  BY <1>1 DEF WInv, Raised
<1> QED
  BY <1>2, <1>3, <1>4, <1>5, <1>6 DEF Raised, Running, InFlight

(* A request takes the free runner; nothing else goes in.                  *)
LEMMA StartRunner ==
  ASSUME WInv, NEW kind \in Kind, NEW pc \in Wait,
         NEW target \in Plan, NEW raised \in BOOLEAN,
         Started(kind, pc, target, raised), stopped' = stopped,
         IF kind = "request" /\ pc # "done" THEN busy = None /\ busy' = Self ELSE busy' = busy
  PROVE  OneInRunner' /\ (kind # "move" => (Running({"move"})' <=> Running({"move"})))
<1>1. /\ DOMAIN ops' = DOMAIN ops \union {Self} /\ Self \notin DOMAIN ops /\ Self \in Ops
      /\ \A p \in DOMAIN ops : /\ InFlight(p)' <=> InFlight(p)
                               /\ ops'[p] = ops[p]
      /\ ops'[Self].pc = pc /\ ops'[Self].kind = kind
  BY StartSettles DEF WInv, Flags, Started
<1>2. {p \in DOMAIN ops : ops[p].kind = "request" /\ InFlight(p)} = {busy} \ {None}
  BY DEF WInv, OneInRunner
<1> DEFINE New == {p \in DOMAIN ops' : ops'[p].kind = "request" /\ ops'[p].pc # "done"}
<1>3. New = {busy'} \ {None}
  <2>1. CASE kind = "request" /\ pc # "done"
    <3>1. New = {Self}
      BY <1>1, <1>2, <2>1 DEF InFlight
    <3>2. Self # None
      BY <1>1, SessionAssumption DEF Ops, None
    <3> QED
      BY <2>1, <3>1, <3>2
  <2>2. CASE ~(kind = "request" /\ pc # "done")
    <3>1. New = {p \in DOMAIN ops : ops[p].kind = "request" /\ InFlight(p)}
      BY <1>1, <2>2 DEF InFlight
    <3> QED
      BY <1>2, <2>2, <3>1
  <2> QED
    BY <2>1, <2>2
<1>4. OneInRunner'
  BY <1>3 DEF OneInRunner, InFlight
<1>5. ASSUME kind # "move" PROVE Running({"move"})' <=> Running({"move"})
  BY <1>1, <1>5 DEF Running, InFlight
<1> QED
  BY <1>4, <1>5

------------------------------------------------------------------------------
(* The steps of an operation that leave it in flight.                      *)

Rest == <<journal, flags, spec, table, stopped, tints>>

(* Cells that a pass fills, or none, join the tint of the step at the      *)
(* cursor.                                                                 *)
LEMMA FillKeeps ==
  ASSUME WInv, NEW o \in DOMAIN ops, RecordFilled(o), UNCHANGED <<undoStack, tints>>,
         Running({"move"})' <=> Running({"move"})
  PROVE  MarksFollow' /\ Tinted'
<1>1. o \in Ops /\ Filled(o) \in Source /\ Filled(o) \notin Ops
  <2>1. o \in Nat \ {0} /\ o <= MaxOps
    <3>1. ops \in Seq(Operation) /\ Len(ops) \in Nat /\ Len(ops) <= MaxOps
      BY DEF WInv, Flags
    <3> QED
      BY <3>1, OperationAt, SessionAssumption
  <2> QED
    BY <2>1, SessionAssumption DEF Ops, Filled, Source
<1>2. marks' \subseteq marks \union {Filled(o)}
  BY DEF RecordFilled
<1>3. marks' \intersect Ops \subseteq marks \intersect Ops
  BY <1>1, <1>2
<1>4. marks' \subseteq Source
  BY <1>1, <1>2 DEF WInv, Flags, Tinted
<1> QED
  BY <1>3, <1>4 DEF WInv, Flags, Tinted, MarksFollow

(* A step that leaves its operation in flight keeps the invariant.         *)
LEMMA TurnKeeps ==
  ASSUME WInv, NEW o \in DOMAIN ops, InFlight(o), Turned(o),
         ops'[o].pc # "done", UNCHANGED Rest, RecordFilled(o),
         ops'[o].target \in PlanOf(IF ops[o].kind \in Adds THEN Settled \union {o} ELSE Settled)
  PROVE  WInv'
<1>1. stopped' = stopped /\ UNCHANGED flags
  BY DEF Rest
<1>2. OpsPart' /\ RunPart' /\ (Running({"move"})' <=> Running({"move"}))
  BY <1>1, TurnOps, TurnRun
<1>3. JournalPart'
  <2>1. Done' = Done /\ Settled' = Settled
    BY <1>1, TurnSettles DEF WInv, Flags
  <2> QED
    BY <2>1 DEF WInv, CleanJournal, Counted, JournalPart, Rest, journal
<1>4. MarksFollow' /\ Tinted'
  BY <1>2, FillKeeps DEF Rest, journal
<1>5. Flags'
  BY <1>2, <1>4 DEF WInv, Flags, OpsPart, Rest, flags
<1> QED
  BY <1>2, <1>3, <1>4, <1>5 DEF WInv, OpsPart, RunPart, JournalPart

(* A patch goes onto the plan of the moment.                               *)
LEMMA PatchKeeps ==
  ASSUME WInv, NEW o \in DOMAIN ops, Patch(o)
  PROVE  WInv'
<1>1. PICK pc \in {"confirm", "replay"} :
        ops' = [ops EXCEPT ![o].pc = pc, ![o].target = Over(spec.steps \union {o})]
  BY DEF Patch
<1>2. ops \in Seq(Operation) /\ table \in 1..MaxTables /\ spec \in PlanOf(Settled)
  BY DEF WInv, Flags, CleanJournal
<1>3. InFlight(o) /\ ops[o].kind \in Adds
  BY DEF Patch, At, InFlight, Adds
<1>4. Over(spec.steps \union {o}) \in PlanOf(Settled \union {o})
  <2>1. spec.steps \union {o} \in SUBSET (Settled \union {o})
    BY <1>2 DEF PlanOf
  <2> QED
    BY <1>2, <2>1, OverOf
<1>5. Over(spec.steps \union {o}) \in Plan
  <2>1. Settled \union {o} \subseteq DOMAIN ops
    BY DEF Settled, Done
  <2> QED
    BY <1>4, <2>1, SettledPlans DEF WInv
<1> DEFINE target == Over(spec.steps \union {o})
<1>6. ops' = [ops EXCEPT ![o] = [ops[o] EXCEPT !.pc = pc, !.target = target, !.tries = ops[o].tries]]
  BY <1>1, <1>2, OperationAt DEF Operation
<1>7. pc \in Wait /\ pc # "done" /\ ops[o].tries \in 0..(Budget - 1)
  BY <1>2, OperationAt DEF Wait
<1>8. Turned(o) /\ ops'[o].pc = pc /\ ops'[o].target = target
  <2>1. target \in Plan
    BY <1>5
  <2> HIDE DEF target
  <2> QED
    BY <1>2, <1>6, <1>7, <2>1, TurnedBy
<1>9. UNCHANGED Rest /\ RecordFilled(o)
  BY DEF Patch, Rest, RecordFilled
<1> QED
  BY <1>3, <1>4, <1>7, <1>8, <1>9, TurnKeeps

(* An answered dialog takes the table of the moment.                       *)
LEMMA ConfirmKeeps ==
  ASSUME WInv, NEW o \in DOMAIN ops, Confirm(o)
  PROVE  WInv'
<1>1. ops' = [ops EXCEPT ![o].pc = "replay", ![o].target = Over(@.steps)]
  BY DEF Confirm
<1>2. ops \in Seq(Operation) /\ table \in 1..MaxTables
  BY DEF WInv, Flags
<1>3. InFlight(o) /\ ops[o].kind \in Adds
  BY DEF Confirm, At, InFlight, Adds
<1>4. Over(ops[o].target.steps) \in PlanOf(Settled \union {o})
  <2>1. ops[o].target \in PlanOf(Settled \union {o})
    BY <1>3 DEF WInv, CleanOps
  <2> QED
    BY <1>2, <2>1, OverOf DEF PlanOf
<1>5. Over(ops[o].target.steps) \in Plan
  <2>1. Settled \union {o} \subseteq DOMAIN ops
    BY DEF Settled, Done
  <2> QED
    BY <1>4, <2>1, SettledPlans DEF WInv
<1> DEFINE target == Over(ops[o].target.steps)
<1>6. ops' = [ops EXCEPT ![o] = [ops[o] EXCEPT !.pc = "replay", !.target = target, !.tries = ops[o].tries]]
  BY <1>1, <1>2, OperationAt DEF Operation
<1>7. "replay" \in Wait /\ ops[o].tries \in 0..(Budget - 1)
  BY <1>2, OperationAt DEF Wait
<1>8. Turned(o) /\ ops'[o].pc = "replay" /\ ops'[o].target = target
  <2>1. target \in Plan
    BY <1>5
  <2> HIDE DEF target
  <2> QED
    BY <1>2, <1>6, <1>7, <2>1, TurnedBy
<1>9. UNCHANGED Rest /\ RecordFilled(o)
  BY DEF Confirm, Rest, RecordFilled
<1> QED
  BY <1>3, <1>4, <1>8, <1>9, TurnKeeps

(* A retry stays within the budget.                                        *)
LEMMA RejectKeeps ==
  ASSUME WInv, NEW o \in DOMAIN ops, Reject(o)
  PROVE  WInv'
<1>1. ops' = [ops EXCEPT ![o].pc = "model", ![o].tries = @ + 1]
  BY DEF Reject
<1>2. ops \in Seq(Operation) /\ ops[o].target \in Plan
  BY OperationAt DEF WInv, Flags
<1>3. InFlight(o) /\ ops[o].kind \in Adds
  BY DEF Reject, At, InFlight, Adds
<1>4. "model" \in Wait /\ ops[o].tries + 1 \in 0..(Budget - 1)
  BY <1>2, OperationAt, SessionAssumption DEF Wait, Reject
<1>5. ops' = [ops EXCEPT ![o] = [ops[o] EXCEPT !.pc = "model", !.target = ops[o].target, !.tries = ops[o].tries + 1]]
  BY <1>1, <1>2, OperationAt DEF Operation
<1>6. Turned(o) /\ ops'[o].pc = "model" /\ ops'[o].target = ops[o].target
  BY <1>2, <1>4, <1>5, TurnedBy
<1>7. UNCHANGED Rest /\ RecordFilled(o)
  BY DEF Reject, Rest, RecordFilled
<1>8. ops[o].target \in PlanOf(IF ops[o].kind \in Adds THEN Settled \union {o} ELSE Settled)
  BY <1>3 DEF WInv, CleanOps
<1> QED
  BY <1>3, <1>6, <1>7, <1>8, TurnKeeps

(* The refill of a cancelled run-all takes the plan of the moment.         *)
LEMMA RefillRunAllKeeps ==
  ASSUME WInv, NEW o \in DOMAIN ops, RefillRunAll(o)
  PROVE  WInv'
<1>1. ops' = [ops EXCEPT ![o].target = Over(spec.steps), ![o].tries = 1]
  BY DEF RefillRunAll
<1>2. ops \in Seq(Operation) /\ table \in 1..MaxTables /\ spec \in PlanOf(Settled)
  BY DEF WInv, Flags, CleanJournal
<1>3. InFlight(o) /\ ops[o].kind \notin Adds /\ ops[o].pc = "replay"
  BY DEF RefillRunAll, At, InFlight, Adds
<1>4. Over(spec.steps) \in PlanOf(Settled)
  BY <1>2, OverOf DEF PlanOf
<1>5. Over(spec.steps) \in Plan
  <2>1. Settled \subseteq DOMAIN ops
    BY DEF Settled, Done
  <2> QED
    BY <1>4, <2>1, SettledPlans DEF WInv
<1> DEFINE target == Over(spec.steps)
<1>6. ops' = [ops EXCEPT ![o] = [ops[o] EXCEPT !.pc = "replay", !.target = target, !.tries = 1]]
  BY <1>1, <1>2, <1>3, OperationAt DEF Operation
<1>7. "replay" \in Wait /\ 1 \in 0..(Budget - 1)
  BY SessionAssumption DEF Wait
<1>8. Turned(o) /\ ops'[o].pc = "replay" /\ ops'[o].target = target
  <2>1. target \in Plan
    BY <1>5
  <2> HIDE DEF target
  <2> QED
    BY <1>2, <1>6, <1>7, <2>1, TurnedBy
<1>9. UNCHANGED Rest /\ RecordFilled(o)
  BY DEF RefillRunAll, Rest, RecordFilled
<1> QED
  BY <1>3, <1>4, <1>8, <1>9, TurnKeeps

------------------------------------------------------------------------------
(* The steps that end an operation.                                        *)

(* What every ending keeps, and what is left to show of each.              *)
LEMMA EndKeeps ==
  ASSUME WInv, NEW o \in DOMAIN ops, InFlight(o), Goto(o, "done"),
         stopped' = stopped, table' = table
  PROVE  /\ Turned(o) /\ ops'[o].pc = "done" /\ OpsPart'
         /\ Settled \subseteq Settled' /\ Cardinality(Done) <= Cardinality(Done')
         /\ ( /\ JournalPart' /\ RunPart' /\ MarksFollow' /\ Tinted'
              /\ busy' \in 0..MaxOps /\ activeAbort' \in 0..MaxOps /\ runAbort' \in 0..MaxOps
              /\ streaming' \in BOOLEAN /\ progress' \in BOOLEAN ) => WInv'
<1>1. ops \in Seq(Operation)
  BY DEF WInv, Flags
<1>2. Turned(o) /\ ops'[o].pc = "done"
  BY <1>1, GotoTurns
<1>3. OpsPart'
  BY <1>2, EndOps
<1>4. Settled \subseteq Settled' /\ Cardinality(Done) <= Cardinality(Done')
  <2>1. Cardinality(Done') = Cardinality(Done) + 1 /\ Settled \subseteq Settled'
    BY <1>1, <1>2, EndSettles
  <2> QED
    BY <1>1, <2>1, DoneFinite
<1>5. ASSUME JournalPart', RunPart', MarksFollow', Tinted',
             busy' \in 0..MaxOps, activeAbort' \in 0..MaxOps, runAbort' \in 0..MaxOps,
             streaming' \in BOOLEAN, progress' \in BOOLEAN
      PROVE  WInv'
  <2>1. Flags'
    BY <1>3, <1>5 DEF WInv, Flags, OpsPart
  <2> QED
    BY <1>3, <1>5, <2>1 DEF WInv, OpsPart, JournalPart, RunPart
<1> QED
  BY <1>2, <1>3, <1>4, <1>5

(* An ending that commits nothing leaves the journal and its marks.        *)
LEMMA DropKeeps ==
  ASSUME WInv, NEW o \in DOMAIN ops, InFlight(o), Goto(o, "done"),
         ops[o].kind # "move", Raised',
         IF ops[o].kind = "request" THEN busy' = None ELSE busy' = busy,
         activeAbort' \in 0..MaxOps, runAbort' \in 0..MaxOps,
         streaming' \in BOOLEAN, progress' \in BOOLEAN, RecordFilled(o),
         UNCHANGED <<journal, table, stopped, tints>>, spec' \in PlanOf(Settled)
  PROVE  WInv'
<1>1. /\ Turned(o) /\ ops'[o].pc = "done" /\ OpsPart'
      /\ Settled \subseteq Settled' /\ Cardinality(Done) <= Cardinality(Done')
  BY EndKeeps
<1>2. OneInRunner' /\ (Running({"move"})' <=> Running({"move"}))
  BY <1>1, EndRunner
<1>3. JournalPart'
  BY <1>1, JournalWithin DEF WInv, CleanJournal, OpsPart, journal
<1>4. MarksFollow' /\ Tinted'
  BY <1>2, FillKeeps DEF journal
<1>5. busy' \in 0..MaxOps
  BY SessionAssumption DEF WInv, Flags, None
<1> QED
  BY <1>2, <1>3, <1>4, <1>5, EndKeeps DEF RunPart

(* Lowered flags are flags.                                                *)
LEMMA LoweredFlags ==
  ASSUME WInv, LowerRun
  PROVE  /\ activeAbort' \in 0..MaxOps /\ runAbort' \in 0..MaxOps
         /\ streaming' \in BOOLEAN /\ progress' \in BOOLEAN
<1>1. None \in 0..MaxOps
  BY SessionAssumption DEF None
<1> QED
  BY <1>1 DEF LowerRun, WInv, Flags

(* A request that ends without a commit frees the runner and the flags.    *)
LEMMA EndRequestKeeps ==
  ASSUME WInv, NEW o \in DOMAIN ops, Answer(o) \/ DropRequest(o)
  PROVE  WInv'
<1>1. InFlight(o) /\ ops[o].kind = "request"
  BY DEF Answer, DropRequest, At, InFlight
<1>2. Goto(o, "done") /\ busy' = None /\ LowerRun
      /\ RecordFilled(o) /\ UNCHANGED <<journal, spec, table, stopped, tints>>
  BY DEF Answer, DropRequest, EndRequest, RecordFilled
<1>3. Turned(o)
  BY <1>1, <1>2, EndKeeps
<1>4. Raised'
  BY <1>1, <1>2, <1>3, EndLowered
<1>5. spec' \in PlanOf(Settled)
  BY <1>2 DEF WInv, CleanJournal
<1> QED
  BY <1>1, <1>2, <1>4, <1>5, LoweredFlags, DropKeeps

(* A dropped flow lowers the flags it raised.                              *)
LEMMA DropFlowKeeps ==
  ASSUME WInv, NEW o \in DOMAIN ops, DropFlow(o)
  PROVE  WInv'
<1>1. InFlight(o) /\ ops[o].kind = "flow"
  BY DEF DropFlow, At, InFlight
<1>2. Goto(o, "done") /\ LowerRun
      /\ RecordFilled(o) /\ UNCHANGED <<journal, busy, spec, table, stopped, tints>>
  BY DEF DropFlow, RecordFilled
<1>3. Turned(o)
  BY <1>1, <1>2, EndKeeps
<1>4. Raised'
  BY <1>1, <1>2, <1>3, EndLowered
<1>5. spec' \in PlanOf(Settled)
  BY <1>2 DEF WInv, CleanJournal
<1> QED
  BY <1>1, <1>2, <1>4, <1>5, LoweredFlags, DropKeeps

(* A failed edit raised no flag and lowers none.                           *)
LEMMA DropGestureKeeps ==
  ASSUME WInv, NEW o \in DOMAIN ops, DropGesture(o)
  PROVE  WInv'
<1>1. InFlight(o) /\ ops[o].kind = "gesture" /\ ops[o].raised = FALSE
  BY OperationAt DEF DropGesture, At, InFlight, WInv, Raised, Flags
<1>2. Goto(o, "done") /\ RecordFilled(o) /\ UNCHANGED <<journal, flags, spec, table, stopped, tints>>
  BY DEF DropGesture, RecordFilled
<1>3. Turned(o) /\ ops'[o].pc = "done"
  BY <1>1, <1>2, EndKeeps
<1>4. /\ streaming' \in BOOLEAN /\ progress' \in BOOLEAN /\ activeAbort' \in 0..MaxOps
      /\ streaming' = streaming /\ progress' = progress /\ activeAbort' = activeAbort /\ busy' = busy
      /\ runAbort' \in 0..MaxOps /\ runAbort' = runAbort
  BY <1>2 DEF WInv, Flags, flags
<1>5. Raised'
  BY <1>1, <1>2, <1>3, <1>4, EndRaised
<1>6. spec' \in PlanOf(Settled)
  BY <1>2 DEF WInv, CleanJournal
<1> QED
  BY <1>1, <1>2, <1>4, <1>5, <1>6, DropKeeps

(* A pass lowers what it raised, and commits the clean plan of its start.  *)
LEMMA EndPassKeeps ==
  ASSUME WInv, NEW o \in DOMAIN ops, LandPass(o) \/ DropPass(o)
  PROVE  WInv'
<1>1. InFlight(o) /\ ops[o].kind \in {"page", "retry", "runAll"}
  BY DEF LandPass, DropPass, At, InFlight
<1>2. /\ Goto(o, "done")
      /\ streaming' = (streaming /\ ~ops[o].raised)
      /\ progress' = (progress /\ ops[o].kind # "runAll")
      /\ runAbort' = IF ops[o].kind = "runAll" THEN None ELSE runAbort
      /\ RecordFilled(o) /\ UNCHANGED <<busy, activeAbort, journal, table, stopped, tints>>
  BY DEF LandPass, DropPass, EndPass, TintPass, RecordFilled, WInv, Flags
<1>3. Turned(o) /\ ops'[o].pc = "done"
  BY <1>1, <1>2, EndKeeps
<1>4. /\ streaming' \in BOOLEAN /\ progress' \in BOOLEAN /\ activeAbort' \in 0..MaxOps
      /\ activeAbort' = activeAbort /\ busy' = busy
      /\ streaming' => streaming /\ ~ops[o].raised
      /\ progress' => progress /\ ops[o].kind # "runAll"
      /\ runAbort' \in 0..MaxOps
      /\ runAbort' = None \/ (runAbort' = runAbort /\ ops[o].kind # "runAll")
  <2>1. runAbort' \in 0..MaxOps /\ (runAbort' = None \/ (runAbort' = runAbort /\ ops[o].kind # "runAll"))
    BY <1>2, SessionAssumption DEF WInv, Flags, None
  <2> QED
    BY <1>2, <2>1 DEF WInv, Flags
<1>5. Raised'
  BY <1>1, <1>2, <1>3, <1>4, EndRaised
<1>6. spec' \in PlanOf(Settled)
  <2>1. spec \in PlanOf(Settled) /\ ops[o].target \in PlanOf(Settled)
    BY <1>1 DEF WInv, CleanJournal, CleanOps, Adds
  <2> QED
    BY <2>1 DEF LandPass, DropPass
<1> QED
  BY <1>1, <1>2, <1>4, <1>5, <1>6, DropKeeps

(* A move lands with the marks of the cursor.                              *)
LEMMA LandMoveKeeps ==
  ASSUME WInv, NEW o \in DOMAIN ops, LandMove(o)
  PROVE  WInv'
<1>1. InFlight(o) /\ ops[o].kind = "move" /\ ops[o].raised = FALSE
  BY OperationAt DEF LandMove, At, InFlight, WInv, Raised, Flags
<1>2. /\ Goto(o, "done") /\ spec' = ops[o].target /\ marks' = MarksAt(undoStack)
      /\ UNCHANGED <<journal, flags, table, stopped, tints>>
  BY DEF LandMove
<1>3. /\ Turned(o) /\ ops'[o].pc = "done" /\ OpsPart'
      /\ Settled \subseteq Settled' /\ Cardinality(Done) <= Cardinality(Done')
  BY <1>1, <1>2, EndKeeps
<1>4. /\ streaming' \in BOOLEAN /\ progress' \in BOOLEAN /\ activeAbort' \in 0..MaxOps
      /\ streaming' = streaming /\ progress' = progress /\ activeAbort' = activeAbort /\ busy' = busy
      /\ busy' \in 0..MaxOps /\ runAbort' \in 0..MaxOps /\ runAbort' = runAbort
  BY <1>2 DEF WInv, Flags, flags
<1>5. Raised'
  BY <1>1, <1>2, <1>3, <1>4, EndRaised
<1>6. OneInRunner'
  BY <1>1, <1>2, <1>3, <1>4, EndRunner
<1>7. JournalPart'
  <2>1. ops[o].target \in PlanOf(Settled)
    BY <1>1 DEF WInv, CleanOps, Adds
  <2> QED
    BY <1>2, <1>3, <2>1, JournalWithin DEF WInv, CleanJournal, OpsPart, journal
<1>8. MarksFollow' /\ Tinted'
  <2>1. CASE undoStack = <<>>
    <3>1. marks' = {}
      BY <1>2, <2>1 DEF MarksAt
    <3> QED
      BY <1>2, <3>1 DEF WInv, Flags, Tinted, MarksFollow
  <2>2. CASE undoStack # <<>>
    <3>1. Last(undoStack) \in EntryOf(Settled)
      BY <2>2, FrontAndLast DEF WInv, CleanJournal
    <3>2. PICK e \in Ops : e = Last(undoStack).id
      BY <3>1 DEF EntryOf
    <3>3. marks' = tints[e] /\ Cursor(undoStack)' = e
      BY <1>2, <2>2, <3>2 DEF MarksAt, Cursor, journal
    <3>4. tints[e] \subseteq {e} /\ tints[e] \subseteq Source
      BY DEF WInv, Flags, Tinted, MarksFollow
    <3> QED
      BY <1>2, <3>3, <3>4 DEF WInv, Flags, Tinted, MarksFollow
  <2> QED
    BY <2>1, <2>2
<1> QED
  BY <1>1, <1>2, <1>4, <1>5, <1>6, <1>7, <1>8, EndKeeps DEF RunPart

(* The three ways to commit: each one records, none is a stopped run.      *)
LEMMA CommitKeeps ==
  ASSUME WInv, NEW o \in DOMAIN ops, CommitRequest(o) \/ LandFlow(o) \/ LandGesture(o)
  PROVE  WInv'
<1>1. /\ InFlight(o) /\ ops[o].kind \in {"request", "flow", "gesture"}
      /\ spec' = ops[o].target /\ Record(o) /\ Goto(o, "done") /\ UNCHANGED <<table, stopped>>
  BY DEF CommitRequest, LandFlow, LandGesture, At, InFlight, EndRequest
<1>2. o \notin stopped
  BY DEF CommitRequest, LandFlow, LandGesture, At, WInv, Stoppable
<1>3. /\ Turned(o) /\ ops'[o].pc = "done"
  BY <1>1, EndKeeps
<1>4. JournalPart' /\ Tinted' /\ MarksFollow'
  BY <1>1, <1>2, <1>3, Recorded
<1>5. /\ IF ops[o].kind = "request" THEN busy' = None ELSE busy' = busy
      /\ busy' \in 0..MaxOps
  BY SessionAssumption DEF CommitRequest, LandFlow, LandGesture, At, EndRequest, WInv, Flags, flags, None
<1>6. OneInRunner'
  BY <1>1, <1>3, <1>5, EndRunner
<1>7. /\ Raised' /\ activeAbort' \in 0..MaxOps /\ runAbort' \in 0..MaxOps
      /\ streaming' \in BOOLEAN /\ progress' \in BOOLEAN
  <2>1. CASE LowerRun
    BY <1>1, <2>1, <1>3, EndLowered, LoweredFlags
  <2>2. CASE LandGesture(o)
    <3>1. ops[o].kind = "gesture" /\ ops[o].raised = FALSE
      BY <2>2, OperationAt DEF LandGesture, At, WInv, Raised, Flags
    <3>2. /\ streaming' \in BOOLEAN /\ progress' \in BOOLEAN /\ activeAbort' \in 0..MaxOps
          /\ streaming' = streaming /\ progress' = progress /\ activeAbort' = activeAbort
          /\ runAbort' \in 0..MaxOps /\ runAbort' = runAbort
      BY <2>2 DEF LandGesture, WInv, Flags, flags
    <3> QED
      BY <1>1, <1>3, <3>1, <3>2, EndRaised
  <2> QED
    BY <2>1, <2>2 DEF CommitRequest, LandFlow, EndRequest
<1> QED
  BY <1>1, <1>4, <1>5, <1>6, <1>7, EndKeeps DEF RunPart

------------------------------------------------------------------------------
(* The steps that start an operation.                                      *)

(* What every start keeps, and what is left to show of each.               *)
LEMMA StartKeeps ==
  ASSUME WInv, NEW kind \in Kind, NEW pc \in Wait,
         NEW target \in Plan, NEW raised \in BOOLEAN,
         Started(kind, pc, target, raised), UNCHANGED <<idSeq, spec, table, stopped>>,
         pc # "done" => target \in PlanOf(IF kind \in Adds THEN Settled \union {Self} ELSE Settled),
         undoStack' \in Seq(EntryOf(Settled)), redoStack' \in Seq(EntryOf(Settled)),
         IF kind = "request" /\ pc # "done" THEN busy = None /\ busy' = Self ELSE busy' = busy,
         Raised', MarksFollow', Tinted', activeAbort' \in 0..MaxOps, runAbort' \in 0..MaxOps,
         streaming' \in BOOLEAN, progress' \in BOOLEAN
  PROVE  WInv'
<1>1. OpsPart'
  BY StartOps
<1>2. JournalPart'
  <2>1. Settled \subseteq Settled' /\ Cardinality(Done) <= Cardinality(Done')
    BY StartSettles DEF WInv, Flags
  <2> QED
    BY <1>1, <2>1, JournalWithin DEF WInv, CleanJournal, OpsPart
<1>3. OneInRunner'
  BY StartRunner
<1>4. busy' \in 0..MaxOps
  <2>1. Self \in 0..MaxOps
    BY SessionAssumption DEF Started, Ops
  <2> QED
    BY <2>1 DEF WInv, Flags
<1>5. Flags'
  BY <1>1, <1>4 DEF WInv, Flags, OpsPart
<1> QED
  BY <1>1, <1>2, <1>3, <1>5 DEF WInv, OpsPart, JournalPart

(* What an operation starts from.                                          *)
LEMMA HereAndNow ==
  ASSUME WInv
  PROVE  /\ ops \in Seq(Operation) /\ spec \in Plan /\ spec \in PlanOf(Settled)
         /\ table \in 1..MaxTables
         /\ undoStack \in Seq(EntryOf(Settled)) /\ redoStack \in Seq(EntryOf(Settled))
<1>1. Settled \subseteq DOMAIN ops
  BY DEF Settled, Done
<1> QED
  BY <1>1, SettledPlans DEF WInv, Flags, CleanJournal

(* The plan of the start, over the table of the start.                     *)
LEMMA GoalOf ==
  ASSUME WInv, NEW p \in PlanOf(Settled)
  PROVE  Over(p.steps) \in PlanOf(Settled) /\ Over(p.steps) \in Plan
<1>1. Settled \subseteq DOMAIN ops
  BY DEF Settled, Done
<1>2. Over(p.steps) \in PlanOf(Settled)
  BY HereAndNow, OverOf DEF PlanOf
<1> QED
  BY <1>1, <1>2, SettledPlans DEF WInv

(* The same, with a step of one's own.                                     *)
LEMMA AddedOf ==
  ASSUME WInv, Self \in Ops, NEW steps \in SUBSET (Settled \union {Self})
  PROVE  Over(steps) \in PlanOf(Settled \union {Self}) /\ Over(steps) \in Plan
<1>1. Settled \subseteq Ops
  <2>1. Settled \subseteq DOMAIN ops
    BY DEF Settled, Done
  <2> QED
    BY <2>1, SettledPlans DEF WInv
<1>2. table \in 1..MaxTables
  BY HereAndNow
<1> QED
  BY <1>1, <1>2 DEF Over, PlanOf, Plan

(* Raised flags are flags, and the run is the new operation.               *)
LEMMA RunRaised ==
  ASSUME WInv, RaiseRun, Self \in Ops
  PROVE  /\ activeAbort' \in 0..MaxOps /\ activeAbort' = Self
         /\ runAbort' \in 0..MaxOps /\ runAbort' = runAbort
         /\ streaming' \in BOOLEAN /\ progress' \in BOOLEAN
<1>1. Self \in 0..MaxOps
  BY SessionAssumption DEF Ops
<1> QED
  BY <1>1 DEF RaiseRun, WInv, Flags

(* Cleared marks are no marks.                                             *)
LEMMA NoMarks ==
  ASSUME WInv, marks' = {}, tints' = tints
  PROVE  MarksFollow' /\ Tinted'
BY DEF WInv, Flags, Tinted, MarksFollow

(* A request takes the free runner and raises the flags.                   *)
LEMMA StartRequestKeeps ==
  ASSUME WInv, StartRequest
  PROVE  WInv'
<1>1. /\ Begin("request", "model", spec, TRUE)
      /\ busy = None /\ busy' = Self /\ RaiseRun /\ marks' = {}
      /\ UNCHANGED <<journal, spec, table, stopped, tints>>
  BY DEF StartRequest, Start
<1>2. "request" \in Kind /\ "model" \in Wait /\ TRUE \in BOOLEAN
  BY DEF Kind, Wait
<1>3. Started("request", "model", spec, TRUE)
  BY <1>1, <1>2, HereAndNow, StartedBy
<1>4. Self \in Ops
  BY <1>3 DEF Started
<1>5. Raised'
  BY <1>1, <1>2, <1>3, <1>4, HereAndNow, RunRaised, StartRun
<1>6. spec \in PlanOf(IF "request" \in Adds THEN Settled \union {Self} ELSE Settled)
  BY HereAndNow, PlansGrow DEF Adds
<1>7. UNCHANGED <<idSeq, undoStack, redoStack, spec, table, stopped>>
  BY <1>1 DEF journal
<1> QED
  BY <1>1, <1>2, <1>3, <1>4, <1>5, <1>6, <1>7, HereAndNow, NoMarks, RunRaised, StartKeeps

(* A refused request lowers every flag; those who raised them find them    *)
(* down.                                                                   *)
LEMMA RefuseRequestKeeps ==
  ASSUME WInv, RefuseRequest
  PROVE  WInv'
<1>1. /\ Begin("request", "done", spec, TRUE)
      /\ busy' = busy /\ LowerRun /\ marks' = {}
      /\ UNCHANGED <<journal, spec, table, stopped, tints>>
  BY DEF RefuseRequest, Start
<1>2. "request" \in Kind /\ "done" \in Wait /\ TRUE \in BOOLEAN
  BY DEF Kind, Wait
<1>3. Started("request", "done", spec, TRUE)
  BY <1>1, <1>2, HereAndNow, StartedBy
<1>4. Raised'
  <2>1. runAbort' = runAbort
    BY <1>1 DEF LowerRun
  <2> QED
    BY <1>1, <1>3, <2>1 DEF WInv, Raised, Started, LowerRun, InFlight
<1>5. UNCHANGED <<idSeq, undoStack, redoStack, spec, table, stopped>>
  BY <1>1 DEF journal
<1> QED
  BY <1>1, <1>2, <1>3, <1>4, <1>5, HereAndNow, NoMarks, LoweredFlags, StartKeeps

(* A flow raises the flags and is bound for its own steps.                 *)
LEMMA StartFlowKeeps ==
  ASSUME WInv, StartFlow
  PROVE  WInv'
<1> DEFINE goal == Over({Self})
<1>1. /\ Begin("flow", "replay", goal, TRUE)
      /\ busy' = busy /\ RaiseRun /\ marks' = {}
      /\ UNCHANGED <<journal, spec, table, stopped, tints>>
  BY DEF StartFlow, Start
<1>2. "flow" \in Kind /\ "replay" \in Wait /\ TRUE \in BOOLEAN
  BY DEF Kind, Wait
<1>3. Self \in Ops
  BY <1>1 DEF Begin
<1>4. goal \in Plan /\ goal \in PlanOf(Settled \union {Self})
  BY <1>3, AddedOf
<1> HIDE DEF goal
<1>5. Started("flow", "replay", goal, TRUE)
  BY <1>1, <1>2, <1>4, HereAndNow, StartedBy
<1>6. Raised'
  BY <1>1, <1>2, <1>3, <1>4, <1>5, RunRaised, StartRun
<1>7. goal \in PlanOf(IF "flow" \in Adds THEN Settled \union {Self} ELSE Settled)
  BY <1>4 DEF Adds
<1>8. UNCHANGED <<idSeq, undoStack, redoStack, spec, table, stopped>>
  BY <1>1 DEF journal
<1> QED
  BY <1>1, <1>2, <1>3, <1>4, <1>5, <1>6, <1>7, <1>8, HereAndNow, NoMarks, RunRaised, StartKeeps

(* A start that leaves the flags and the marks.                            *)
LEMMA QuietStartKeeps ==
  ASSUME WInv, NEW kind \in {"move", "gesture"}, NEW target \in Plan,
         Begin(kind, "replay", target, FALSE), UNCHANGED <<idSeq, flags, spec, table, stopped, marks, tints>>,
         target \in PlanOf(IF kind \in Adds THEN Settled \union {Self} ELSE Settled),
         undoStack' \in Seq(EntryOf(Settled)), redoStack' \in Seq(EntryOf(Settled)),
         kind = "move" \/ undoStack' = undoStack
  PROVE  WInv'
<1>1. /\ kind \in Kind /\ kind # "request" /\ FALSE \in BOOLEAN
      /\ "replay" \in Wait /\ "replay" \in Wait \ {"done"}
  BY DEF Kind, Wait
<1>2. Started(kind, "replay", target, FALSE)
  BY <1>1, HereAndNow, StartedBy
<1>3. /\ streaming' \in BOOLEAN /\ progress' \in BOOLEAN /\ activeAbort' \in 0..MaxOps
      /\ streaming' = streaming /\ progress' = progress /\ activeAbort' = activeAbort /\ busy' = busy
      /\ runAbort' \in 0..MaxOps /\ runAbort' = runAbort
      /\ marks' = marks /\ tints' = tints /\ Tinted'
  BY DEF WInv, Flags, Tinted, flags
<1>4. Raised'
  BY <1>1, <1>2, <1>3, StartRun
<1>5. MarksFollow'
  <2>1. CASE kind = "move"
    <3>1. Running({"move"})'
      BY <1>2, <2>1 DEF Started, Running, InFlight
    <3> QED
      BY <1>3, <3>1 DEF WInv, MarksFollow
  <2>2. CASE kind # "move"
    <3>1. Running({"move"})' <=> Running({"move"})
      BY <1>1, <1>2, <1>3, <2>2, StartRunner
    <3> QED
      BY <1>3, <2>2, <3>1 DEF WInv, MarksFollow
  <2> QED
    BY <2>1, <2>2
<1> QED
  BY <1>1, <1>2, <1>3, <1>4, <1>5, StartKeeps

(* An edit adds its step to the plan of the moment.                        *)
LEMMA StartGestureKeeps ==
  ASSUME WInv, StartGesture
  PROVE  WInv'
<1> DEFINE goal == Over(spec.steps \union {Self})
<1>1. Begin("gesture", "replay", goal, FALSE) /\ UNCHANGED <<journal, flags, spec, table, stopped, marks, tints>>
  BY DEF StartGesture, Start
<1>2. Self \in Ops
  BY <1>1 DEF Begin
<1>3. goal \in Plan /\ goal \in PlanOf(Settled \union {Self})
  <2>1. spec.steps \union {Self} \in SUBSET (Settled \union {Self})
    BY HereAndNow DEF PlanOf
  <2> QED
    BY <1>2, <2>1, AddedOf
<1> HIDE DEF goal
<1>4. goal \in PlanOf(IF "gesture" \in Adds THEN Settled \union {Self} ELSE Settled)
  BY <1>3 DEF Adds
<1>5. UNCHANGED <<idSeq, undoStack, redoStack>>
  BY <1>1 DEF journal
<1> QED
  BY <1>1, <1>3, <1>4, <1>5, HereAndNow, QuietStartKeeps

(* A move to a plan of the journal may cut the stacks anywhere.            *)
LEMMA MoveKeeps ==
  ASSUME WInv, NEW p \in PlanOf(Settled), Begin("move", "replay", Over(p.steps), FALSE),
         UNCHANGED <<idSeq, flags, spec, table, stopped, marks, tints>>,
         undoStack' \in Seq(EntryOf(Settled)), redoStack' \in Seq(EntryOf(Settled))
  PROVE  WInv'
<1>1. Over(p.steps) \in Plan /\ Over(p.steps) \in PlanOf(IF "move" \in Adds THEN Settled \union {Self} ELSE Settled)
  BY GoalOf DEF Adds
<1> QED
  BY <1>1, QuietStartKeeps

(* An undo moves one entry over and is bound for the plan before it.       *)
LEMMA StartUndoKeeps ==
  ASSUME WInv, StartUndo
  PROVE  WInv'
<1>1. /\ undoStack # <<>> /\ undoStack' = Front(undoStack)
      /\ redoStack' = Append(redoStack, Last(undoStack))
      /\ Begin("move", "replay", Over(Last(undoStack).prevSpec.steps), FALSE)
      /\ UNCHANGED <<idSeq, flags, spec, table, stopped, marks, tints>>
  BY DEF StartUndo, Start
<1>2. Front(undoStack) \in Seq(EntryOf(Settled)) /\ Last(undoStack) \in EntryOf(Settled)
  BY <1>1, HereAndNow, FrontAndLast
<1>3. redoStack' \in Seq(EntryOf(Settled))
  BY <1>1, <1>2, HereAndNow, AppendProperties
<1>4. Last(undoStack).prevSpec \in PlanOf(Settled)
  BY <1>2 DEF EntryOf
<1> QED
  BY <1>1, <1>2, <1>3, <1>4, MoveKeeps

(* A redo moves one entry back and is bound for its plan.                  *)
LEMMA StartRedoKeeps ==
  ASSUME WInv, StartRedo
  PROVE  WInv'
<1>1. /\ redoStack # <<>> /\ redoStack' = Front(redoStack)
      /\ undoStack' = Append(undoStack, Last(redoStack))
      /\ Begin("move", "replay", Over(Last(redoStack).nextSpec.steps), FALSE)
      /\ UNCHANGED <<idSeq, flags, spec, table, stopped, marks, tints>>
  BY DEF StartRedo, Start
<1>2. Front(redoStack) \in Seq(EntryOf(Settled)) /\ Last(redoStack) \in EntryOf(Settled)
  BY <1>1, HereAndNow, FrontAndLast
<1>3. undoStack' \in Seq(EntryOf(Settled))
  BY <1>1, <1>2, HereAndNow, AppendProperties
<1>4. Last(redoStack).nextSpec \in PlanOf(Settled)
  BY <1>2 DEF EntryOf
<1> QED
  BY <1>1, <1>2, <1>3, <1>4, MoveKeeps

(* A jump cuts the timeline and is bound for the plan at the cut.          *)
LEMMA StartJumpKeeps ==
  ASSUME WInv, NEW index \in 0..Len(Timeline), StartJump(index)
  PROVE  WInv'
<1> DEFINE applied == SubSeq(Timeline, 1, index)
           undone == SubSeq(Timeline, index + 1, Len(Timeline))
           goal == IF applied = <<>> THEN undone[1].prevSpec ELSE Last(applied).nextSpec
<1>1. /\ Timeline # <<>> /\ undoStack' = applied /\ redoStack' = Reverse(undone)
      /\ Begin("move", "replay", Over(goal.steps), FALSE)
      /\ UNCHANGED <<idSeq, flags, spec, table, stopped, marks, tints>>
  BY DEF StartJump, Start
<1>2. Timeline \in Seq(EntryOf(Settled)) /\ Len(Timeline) \in Nat
  BY HereAndNow, TimelineOf
<1>3. applied \in Seq(EntryOf(Settled))
  BY <1>2, CutOf
<1>4. undone \in Seq(EntryOf(Settled))
  <2>1. index + 1 \in 1..(Len(Timeline) + 1) /\ Len(Timeline) \in 0..Len(Timeline)
    BY <1>2
  <2> QED
    BY <1>2, <2>1, CutOf
<1>5. goal \in PlanOf(Settled)
  <2>1. CASE applied = <<>>
    <3>1. index = 0
      BY <1>2, <2>1, SubSeqProperties
    <3>2. undone # <<>>
      <4>1. Len(Timeline) # 0
        BY <1>1, <1>2
      <4>2. undone = SubSeq(Timeline, 1, Len(Timeline))
        BY <3>1
      <4>3. Len(undone) = Len(Timeline)
        BY <1>2, <4>1, <4>2, SubSeqProperties
      <4> QED
        BY <4>1, <4>3
    <3>3. undone[1] \in EntryOf(Settled)
      BY <1>4, <3>2
    <3> QED
      BY <2>1, <3>3 DEF EntryOf
  <2>2. CASE applied # <<>>
    <3>1. Last(applied) \in EntryOf(Settled)
      BY <1>3, <2>2, FrontAndLast
    <3> QED
      BY <2>2, <3>1 DEF EntryOf
  <2> QED
    BY <2>1, <2>2
<1>6. redoStack' \in Seq(EntryOf(Settled))
  BY <1>1, <1>4, ReverseOf
<1> HIDE DEF goal
<1> QED
  BY <1>1, <1>3, <1>5, <1>6, MoveKeeps

(* The passes raise the flag, and nothing else but the panel.              *)
LEMMA PassKeeps ==
  ASSUME WInv, NEW kind \in {"page", "retry", "runAll"}, NEW r \in BOOLEAN,
         Begin(kind, "replay", Over(spec.steps), r), streaming = TRUE \/ r = TRUE,
         progress' = progress \/ (progress' = TRUE /\ kind = "runAll"),
         streaming' = TRUE,
         runAbort' = runAbort \/ (runAbort' = Self /\ kind = "runAll"),
         UNCHANGED <<journal, busy, activeAbort, spec, table, stopped, marks, tints>>
  PROVE  WInv'
<1> DEFINE goal == Over(spec.steps)
<1>1. /\ kind \in Kind /\ kind \notin Adds /\ kind \notin {"request", "move", "gesture"}
      /\ "replay" \in Wait /\ "replay" \in Wait \ {"done"}
  BY DEF Kind, Wait, Adds
<1>2. goal \in Plan /\ goal \in PlanOf(Settled)
  BY HereAndNow, GoalOf
<1>3. Begin(kind, "replay", goal, r)
  OBVIOUS
<1> HIDE DEF goal
<1>4. Started(kind, "replay", goal, r)
  BY <1>1, <1>2, <1>3, HereAndNow, StartedBy
<1>5. /\ streaming' \in BOOLEAN /\ progress' \in BOOLEAN
      /\ streaming' = streaming \/ r = TRUE
      /\ progress' = progress \/ kind \in {"request", "flow", "runAll"}
  BY DEF WInv, Flags
<1>6. /\ activeAbort' = activeAbort /\ busy' = busy /\ marks' = marks /\ tints' = tints
      /\ activeAbort' \in 0..MaxOps /\ runAbort' \in 0..MaxOps /\ Tinted'
  <2>1. Self \in 0..MaxOps
    BY <1>4, SessionAssumption DEF Started, Ops
  <2> QED
    BY <2>1 DEF WInv, Flags, Tinted
<1>7. Raised'
  BY <1>1, <1>2, <1>4, <1>5, <1>6, StartRun
<1>8. MarksFollow'
  <2>1. Running({"move"})' <=> Running({"move"})
    BY <1>1, <1>2, <1>4, <1>6, StartRunner
  <2> QED
    BY <1>6, <2>1 DEF WInv, MarksFollow, journal
<1>9. goal \in PlanOf(IF kind \in Adds THEN Settled \union {Self} ELSE Settled)
  BY <1>1, <1>2
<1>10. UNCHANGED <<idSeq, undoStack, redoStack, spec, table, stopped>>
  BY DEF journal
<1> QED
  BY <1>1, <1>2, <1>4, <1>5, <1>6, <1>7, <1>8, <1>9, <1>10, HereAndNow, StartKeeps

(* The three passes are such starts.                                       *)
LEMMA StartPassKeeps ==
  ASSUME WInv, StartPage \/ StartRetry \/ StartRunAll
  PROVE  WInv'
<1>1. CASE StartPage
  <2>1. Begin("page", "replay", Over(spec.steps), TRUE)
    BY <1>1 DEF StartPage
  <2> QED
    BY <1>1, <2>1, PassKeeps DEF StartPage
<1>2. CASE StartRetry
  <2> DEFINE r == ~streaming
  <2>1. /\ Begin("retry", "replay", Over(spec.steps), r)
        /\ r \in BOOLEAN /\ (streaming = TRUE \/ r = TRUE)
    BY <1>2 DEF StartRetry, WInv, Flags
  <2>2. /\ progress' = progress /\ streaming' = TRUE /\ runAbort' = runAbort
        /\ UNCHANGED <<journal, busy, activeAbort, spec, table, stopped, marks, tints>>
    BY <1>2 DEF StartRetry
  <2> HIDE DEF r
  <2> QED
    BY <2>1, <2>2, PassKeeps
<1>3. CASE StartRunAll
  <2>1. Begin("runAll", "replay", Over(spec.steps), TRUE)
    BY <1>3 DEF StartRunAll
  <2> QED
    BY <1>3, <2>1, PassKeeps DEF StartRunAll
<1> QED
  BY <1>1, <1>2, <1>3

------------------------------------------------------------------------------
(* Stop, Cancel and a load start and end nothing.                          *)

(* With the operations unchanged, what is over and what runs is unchanged. *)
LEMMA OpsStay ==
  ASSUME ops' = ops
  PROVE  /\ Done' = Done /\ \A p : InFlight(p)' <=> InFlight(p)
         /\ \A kinds : Running(kinds)' <=> Running(kinds)
BY DEF Done, InFlight, Running

(* Stopping an operation in flight unsettles nothing that was settled.     *)
LEMMA StopKeeps ==
  ASSUME WInv, NEW x \in DOMAIN ops, InFlight(x), ops[x].kind \in {"request", "flow", "runAll"},
         stopped' = stopped \union {x}, UNCHANGED <<journal, flags, spec, table, marks, tints, ops>>
  PROVE  WInv'
<1>1. Settled' = Settled
  BY OpsStay DEF Settled, Done
<1>2. stopped' \subseteq Ops
  <2>1. x \in Ops
    BY OperationAt, SessionAssumption DEF WInv, Flags, Ops
  <2> QED
    BY <2>1 DEF WInv, Flags
<1>3. Flags' /\ Counted' /\ CleanJournal'
  BY <1>1, <1>2, OpsStay DEF WInv, Flags, Tinted, Counted, CleanJournal, journal, flags
<1>4. CleanOps'
  BY <1>1, OpsStay DEF WInv, CleanOps
<1>5. Stoppable'
  BY DEF WInv, Stoppable
<1>6. Raised'
  BY DEF WInv, Raised, InFlight, Running, flags
<1>7. OneInRunner' /\ MarksFollow'
  BY DEF WInv, OneInRunner, MarksFollow, InFlight, Running, journal, flags
<1> QED
  BY <1>3, <1>4, <1>5, <1>6, <1>7 DEF WInv

(* A load empties the stacks and shows a plan without steps.               *)
LEMMA LoadKeeps ==
  ASSUME WInv, Load
  PROVE  WInv'
<1>1. Settled' = Settled
  BY OpsStay DEF Settled, Load
<1>2. table + 1 \in 1..MaxTables
  BY SessionAssumption DEF WInv, Flags, Load
<1>3. Flags' /\ tints' = [id \in Ops |-> {}] /\ marks' = {}
  <2>1. Tinted' /\ tints' = [id \in Ops |-> {}] /\ marks' = {}
    BY DEF Load, Tinted
  <2> QED
    BY <1>2, <2>1 DEF WInv, Flags, Load, flags
<1>4. Counted'
  BY OpsStay DEF WInv, Counted, Load
<1>5. CleanJournal'
  <2>1. [table |-> table + 1, steps |-> {}] \in PlanOf(Settled)
    BY <1>2 DEF PlanOf
  <2> QED
    BY <1>1, <2>1 DEF CleanJournal, Load
<1>6. CleanOps'
  BY <1>1, OpsStay DEF WInv, CleanOps, Load
<1>7. Stoppable'
  BY DEF WInv, Stoppable, Load
<1>8. Raised'
  BY DEF WInv, Raised, InFlight, Running, Load, flags
<1>9. OneInRunner' /\ MarksFollow'
  BY <1>3 DEF WInv, OneInRunner, MarksFollow, Flags, Tinted, InFlight, Load, flags
<1> QED
  BY <1>3, <1>4, <1>5, <1>6, <1>7, <1>8, <1>9 DEF WInv

(* The invariant holds when the session opens.                             *)
LEMMA InitEstablishes ==
  ASSUME Init
  PROVE  WInv
<1>1. Done = {} /\ Settled = {} /\ \A kinds : ~Running(kinds)
  BY DEF Init, Done, Settled, Running
<1>2. Flags
  <2>1. None \in 0..MaxOps /\ 1 \in 1..MaxTables
    BY SessionAssumption DEF None
  <2>2. ops \in Seq(Operation) /\ Len(ops) <= MaxOps
    BY SessionAssumption DEF Init
  <2>3. stopped \subseteq Ops /\ streaming \in BOOLEAN /\ progress \in BOOLEAN /\ Tinted
    BY DEF Init, Tinted
  <2> QED
    BY <2>1, <2>2, <2>3 DEF Init, Flags
<1>3. Counted
  BY <1>1, FS_EmptySet DEF Init, Counted
<1>4. CleanJournal
  BY <1>1, SessionAssumption DEF Init, CleanJournal, Over, PlanOf
<1>5. CleanOps /\ Stoppable
  BY DEF Init, CleanOps, Stoppable
<1>6. Raised
  BY DEF Init, Raised
<1>7. OneInRunner /\ MarksFollow
  BY DEF Init, OneInRunner, MarksFollow
<1> QED
  BY <1>2, <1>3, <1>4, <1>5, <1>6, <1>7 DEF WInv

(* Every step of the session keeps the invariant.                          *)
LEMMA NextHolds ==
  ASSUME WInv, [Next]_vars
  PROVE  WInv'
<1>1. CASE UNCHANGED vars
  <2>1. UNCHANGED <<undoStack, redoStack, idSeq, busy, streaming, progress, activeAbort, runAbort,
                    spec, table, stopped, marks, tints, ops>>
    BY <1>1 DEF vars, journal, flags
  <2> QED
    <3>1. Flags' /\ MarksFollow'
      BY <2>1 DEF WInv, Flags, Tinted, MarksFollow, Running, InFlight
    <3>2. Counted' /\ CleanJournal' /\ CleanOps' /\ Stoppable'
      BY <2>1 DEF WInv, Counted, CleanJournal, CleanOps, Stoppable, Settled, Done, InFlight
    <3>3. Raised' /\ OneInRunner'
      BY <2>1 DEF WInv, Raised, OneInRunner, InFlight, Running
    <3> QED
      BY <3>1, <3>2, <3>3 DEF WInv
<1>2. CASE StartRequest \/ RefuseRequest \/ StartFlow
  BY <1>2, StartRequestKeeps, RefuseRequestKeeps, StartFlowKeeps
<1>3. CASE Stop
  <2>1. activeAbort # None
    BY <1>3 DEF Stop
  <2>2. /\ activeAbort \in DOMAIN ops /\ InFlight(activeAbort)
        /\ ops[activeAbort].kind \in {"request", "flow", "runAll"}
    BY <2>1 DEF WInv, Raised
  <2>3. PICK x \in DOMAIN ops : x = activeAbort
    BY <2>2
  <2> QED
    BY <1>3, <2>2, <2>3, StopKeeps DEF Stop
<1>7. CASE CancelRunAll
  <2>1. runAbort # None
    BY <1>7 DEF CancelRunAll
  <2>2. /\ runAbort \in DOMAIN ops /\ InFlight(runAbort)
        /\ ops[runAbort].kind \in {"request", "flow", "runAll"}
    BY <2>1 DEF WInv, Raised
  <2>3. PICK x \in DOMAIN ops : x = runAbort
    BY <2>2
  <2> QED
    BY <1>7, <2>2, <2>3, StopKeeps DEF CancelRunAll
<1>4. CASE StartUndo \/ StartRedo \/ \E index \in 0..Len(Timeline) : StartJump(index)
  BY <1>4, StartUndoKeeps, StartRedoKeeps, StartJumpKeeps
<1>5. CASE StartGesture \/ StartPage \/ StartRetry \/ StartRunAll \/ Load
  BY <1>5, StartGestureKeeps, StartPassKeeps, LoadKeeps
<1>6. ASSUME NEW o \in DOMAIN ops,
             \/ Patch(o) \/ Confirm(o) \/ CommitRequest(o) \/ Reject(o) \/ Answer(o)
             \/ DropRequest(o) \/ LandFlow(o) \/ DropFlow(o) \/ LandMove(o)
             \/ LandGesture(o) \/ DropGesture(o) \/ RefillRunAll(o)
             \/ LandPass(o) \/ DropPass(o)
      PROVE  WInv'
  <2>2. CASE Patch(o) \/ Confirm(o) \/ Reject(o) \/ RefillRunAll(o)
    BY <2>2, PatchKeeps, ConfirmKeeps, RejectKeeps, RefillRunAllKeeps
  <2>3. CASE CommitRequest(o) \/ LandFlow(o) \/ LandGesture(o)
    BY <2>3, CommitKeeps
  <2>4. CASE Answer(o) \/ DropRequest(o) \/ DropFlow(o) \/ DropGesture(o)
    BY <2>4, EndRequestKeeps, DropFlowKeeps, DropGestureKeeps
  <2>5. CASE LandMove(o) \/ LandPass(o) \/ DropPass(o)
    BY <2>5, LandMoveKeeps, EndPassKeeps
  <2> QED
    BY <1>6, <2>2, <2>3, <2>4, <2>5
<1> QED
  BY <1>1, <1>2, <1>3, <1>4, <1>5, <1>6, <1>7 DEF Next

------------------------------------------------------------------------------
(* The invariant has the types of the state.                               *)
LEMMA Types ==
  ASSUME WInv
  PROVE  TypeOK
<1>1. Settled \subseteq DOMAIN ops
  BY DEF Settled, Done
<1>2. EntryOf(Settled) \subseteq Entry /\ spec \in Plan
  BY <1>1, SettledPlans DEF WInv, CleanJournal
<1>3. undoStack \in Seq(Entry) /\ redoStack \in Seq(Entry)
  BY <1>2, SeqMono DEF WInv, CleanJournal
<1>4. idSeq \in 0..MaxOps
  <2>1. Cardinality(Done) \in Nat /\ Cardinality(Done) <= Len(ops)
    BY DoneFinite DEF WInv, Flags
  <2>2. Len(ops) \in Nat /\ Len(ops) <= MaxOps
    BY DEF WInv, Flags
  <2> QED
    BY <2>1, <2>2, SessionAssumption DEF WInv, Counted
<1> QED
  BY <1>2, <1>3, <1>4 DEF WInv, Flags, Tinted, TypeOK

(* With nothing in flight there is nobody to have raised a flag.           *)
LEMMA Unlocked ==
  ASSUME WInv
  PROVE  AtRestUnlocked
<1>1. SUFFICES ASSUME Quiet PROVE ~streaming /\ ~progress /\ activeAbort = None /\ runAbort = None /\ busy = None
  BY DEF AtRestUnlocked
<1>2. \A o \in DOMAIN ops : ~InFlight(o)
  <2>1. \A o \in DOMAIN ops : ops[o].kind \in Kind
    BY OperationAt DEF WInv, Flags
  <2> QED
    BY <1>1, <2>1 DEF Quiet, Running
<1>3. ~streaming /\ ~progress
  BY <1>2 DEF WInv, Raised, Running
<1>4. activeAbort = None /\ runAbort = None
  BY <1>2 DEF WInv, Raised
<1>5. {busy} \ {None} = {}
  BY <1>2 DEF WInv, OneInRunner
<1> QED
  BY <1>3, <1>4, <1>5

(* A stopped operation is not settled, and only settled steps are in       *)
(* plans.                                                                  *)
LEMMA NeverLands ==
  ASSUME WInv
  PROVE  StoppedNeverLands
<1>1. SUFFICES ASSUME NEW o \in stopped
               PROVE  /\ o \notin spec.steps
                      /\ \A i \in DOMAIN Timeline : o \notin Timeline[i].nextSpec.steps
                      /\ \A p \in DOMAIN ops \ {o} : InFlight(p) => o \notin ops[p].target.steps
  BY DEF StoppedNeverLands
<1>2. o \notin Settled
  BY DEF Settled
<1>3. o \notin spec.steps
  BY <1>2, HereAndNow DEF PlanOf
<1>4. ASSUME NEW i \in DOMAIN Timeline PROVE o \notin Timeline[i].nextSpec.steps
  <2>1. Timeline \in Seq(EntryOf(Settled))
    BY HereAndNow, TimelineOf
  <2>2. Timeline[i] \in EntryOf(Settled)
    BY <2>1
  <2> QED
    BY <1>2, <2>2 DEF EntryOf, PlanOf
<1>5. ASSUME NEW p \in DOMAIN ops \ {o}, InFlight(p) PROVE o \notin ops[p].target.steps
  <2>1. ops[p].target \in PlanOf(Settled \union {p}) \/ ops[p].target \in PlanOf(Settled)
    BY <1>5 DEF WInv, CleanOps
  <2> QED
    BY <1>2, <2>1 DEF PlanOf
<1> QED
  BY <1>3, <1>4, <1>5

(* At rest no move replays, so the marks are those of the cursor.          *)
LEMMA AtCursor ==
  ASSUME WInv
  PROVE  MarksAtCursor
<1>1. Quiet => ~Running({"move"})
  BY DEF Quiet, Running, Kind
<1>2. ASSUME NEW i \in DOMAIN Timeline PROVE Timeline[i].id \in Ops
  <2>1. Timeline \in Seq(EntryOf(Settled))
    BY HereAndNow, TimelineOf
  <2>2. Timeline[i] \in EntryOf(Settled)
    BY <2>1
  <2> QED
    BY <2>2 DEF EntryOf
<1> QED
  BY <1>1, <1>2 DEF WInv, MarksFollow, MarksAtCursor

(* The invariant holds throughout a session.                               *)
LEMMA Invariance == Spec => []WInv
BY InitEstablishes, NextHolds, PTL DEF Spec

(* A session keeps its types: no journal number beyond the operations that *)
(* ended, no plan of a step nobody took.                                   *)
THEOREM SessionTypeCorrect == Spec => []TypeOK
BY Invariance, Types, PTL

(* Whatever mix of requests, flows, passes, moves and edits ended, failed, *)
(* was stopped or was refused, a session with nothing in flight is         *)
(* unlocked (the finally blocks of controller-engine.ts and -lazy.ts).     *)
THEOREM AlwaysUnlockedAtRest == Spec => []AtRestUnlocked
BY Invariance, Unlocked, PTL

(* The runner's one-request guard holds though the shell's flag does not   *)
(* protect it: the requests in flight are the one the runner is busy with. *)
THEOREM RunnerHasOneRequest == Spec => []OneInRunner
<1>1. WInv => OneInRunner
  BY DEF WInv
<1> QED
  BY <1>1, Invariance, PTL

(* A request or flow stopped before it committed leaves no trace: in the   *)
(* rows, in the history, or in what any other operation is about to commit.*)
THEOREM StoppedWorkNeverLands == Spec => []StoppedNeverLands
BY Invariance, NeverLands, PTL

(* However undos, redos, jumps, edits and passes overlap, the cells tinted *)
(* at rest are those of the step at the cursor, or none, and what passes   *)
(* filled since; every entry's recorded marks are its own step's alone     *)
(* (record, restoreCurrentMarks, recordFilled).                            *)
THEOREM MarksAlwaysAtCursor == Spec => []MarksAtCursor
BY Invariance, AtCursor, PTL

------------------------------------------------------------------------------
(* One operation at a time: the session is the journal of SpecJournal.     *)
(*                                                                         *)
(* Whoever is in flight was started last (Alone), so that what it read at  *)
(* its start is still so when it lands (Waiting); and nothing on the       *)
(* timeline is of another table than the one on screen (Here).             *)

OnTable(t) == [table : {t}, steps : SUBSET Ops]
EntriesOn(t) == [id : Ops, prevSpec : OnTable(t), nextSpec : OnTable(t)]
Passes == {"page", "retry", "runAll"}

Alone == \A o \in DOMAIN ops : InFlight(o) => o = Len(ops)

Here ==
  /\ spec \in OnTable(table)
  /\ undoStack \in Seq(EntriesOn(table)) /\ redoStack \in Seq(EntriesOn(table))
  /\ Len(undoStack) + Len(redoStack) <= idSeq

Waiting ==
  \A o \in DOMAIN ops : InFlight(o) =>
    /\ ops[o].prev = spec
    /\ ops[o].target \in OnTable(table)
    /\ ops[o].kind \in Passes => ops[o].target = spec
    /\ ops[o].kind = "move" => ops[o].pc = "replay"

SInv == Alone /\ Here /\ Waiting

(* Entries with the one label of the refinement.                           *)
LabelOf(e) == [label |-> "step", prevSpec |-> e.prevSpec, nextSpec |-> e.nextSpec, id |-> e.id]

(* Two sequences of the same elements in the same places are the same.     *)
LEMMA SameSequence ==
  ASSUME NEW S, NEW s \in Seq(S), NEW T, NEW t \in Seq(T), Len(s) = Len(t),
         \A i \in 1..Len(s) : s[i] = t[i]
  PROVE  s = t
<1>1. s = [i \in 1..Len(s) |-> s[i]] /\ t = [i \in 1..Len(t) |-> t[i]]
  OBVIOUS
<1> QED
  BY <1>1

(* Labelling changes entries one by one.                                   *)
LEMMA LabelledIs ==
  ASSUME NEW S, NEW s \in Seq(S)
  PROVE  /\ Labelled(s) \in Seq({LabelOf(e) : e \in S})
         /\ Len(Labelled(s)) = Len(s) /\ Len(s) \in Nat
         /\ \A i \in 1..Len(s) : Labelled(s)[i] = LabelOf(s[i])
         /\ Labelled(s) = <<>> <=> s = <<>>
<1>1. Len(s) \in Nat /\ DOMAIN s = 1..Len(s) /\ \A i \in 1..Len(s) : s[i] \in S
  OBVIOUS
<1>2. Labelled(s) = [i \in 1..Len(s) |-> LabelOf(s[i])]
  BY <1>1 DEF Labelled, LabelOf
<1>3. \A i \in 1..Len(s) : LabelOf(s[i]) \in {LabelOf(e) : e \in S}
  BY <1>1
<1> HIDE DEF LabelOf
<1>4. Labelled(s) \in Seq({LabelOf(e) : e \in S})
  BY <1>1, <1>2, <1>3, IsASeq
<1>5. Len(Labelled(s)) = Len(s)
  BY <1>1, <1>2, <1>4
<1> QED
  BY <1>1, <1>2, <1>4, <1>5

(* An entry recorded.                                                      *)
LEMMA LabelledAppend ==
  ASSUME NEW S, NEW s \in Seq(S), NEW e \in S
  PROVE  Labelled(Append(s, e)) = Append(Labelled(s), LabelOf(e))
<1> DEFINE T == {LabelOf(x) : x \in S}
           a == Append(s, e)
<1>1. /\ a \in Seq(S) /\ Len(a) = Len(s) + 1 /\ Len(s) \in Nat
      /\ \A i \in 1..Len(s) : a[i] = s[i]
      /\ a[Len(s) + 1] = e
  BY AppendProperties
<1>2. /\ Labelled(s) \in Seq(T) /\ Len(Labelled(s)) = Len(s)
      /\ \A i \in 1..Len(s) : Labelled(s)[i] = LabelOf(s[i])
  BY LabelledIs
<1> HIDE DEF a
<1>3. /\ Labelled(a) \in Seq(T) /\ Len(Labelled(a)) = Len(a)
      /\ \A i \in 1..Len(a) : Labelled(a)[i] = LabelOf(a[i])
  BY <1>1, LabelledIs
<1> DEFINE b == Append(Labelled(s), LabelOf(e))
<1>4. LabelOf(e) \in T
  OBVIOUS
<1> HIDE DEF T
<1>5. /\ b \in Seq(T) /\ Len(b) = Len(s) + 1
      /\ \A i \in 1..Len(s) : b[i] = Labelled(s)[i]
      /\ b[Len(s) + 1] = LabelOf(e)
  BY <1>2, <1>4, AppendProperties
<1> HIDE DEF b
<1>6. ASSUME NEW i \in 1..Len(Labelled(a)) PROVE Labelled(a)[i] = b[i]
  <2>1. i \in 1..Len(a) /\ (i \in 1..Len(s) \/ i = Len(s) + 1)
    BY <1>1, <1>3
  <2> QED
    BY <1>1, <1>2, <1>3, <1>5, <2>1
<1>7. Labelled(a) = b
  BY <1>1, <1>3, <1>5, <1>6, SameSequence
<1> QED
  BY <1>7 DEF a, b

(* A piece of the timeline.                                                *)
LEMMA LabelledCut ==
  ASSUME NEW S, NEW s \in Seq(S), NEW m \in 1..(Len(s) + 1), NEW n \in 0..Len(s)
  PROVE  Labelled(SubSeq(s, m, n)) = SubSeq(Labelled(s), m, n)
<1> DEFINE T == {LabelOf(x) : x \in S}
           l == Labelled(s)
           a == SubSeq(s, m, n)
           b == SubSeq(l, m, n)
           size == IF m <= n THEN n - m + 1 ELSE 0
<1>0. m \in Int /\ n \in Int /\ Len(s) \in Nat /\ \A i \in m..n : i \in 1..Len(s)
  OBVIOUS
<1>1. /\ l \in Seq(T) /\ Len(l) = Len(s)
      /\ \A i \in 1..Len(s) : l[i] = LabelOf(s[i])
  BY LabelledIs
<1>2. \A i \in m..n : s[i] \in S
  BY <1>0
<1>3. /\ a \in Seq(S) /\ Len(a) = size
      /\ \A i \in 1..n - m + 1 : a[i] = s[m + i - 1]
  BY <1>0, <1>2, SubSeqProperties
<1> HIDE DEF l, T
<1>4. \A i \in m..n : l[i] \in T
  BY <1>0, <1>1
<1>5. /\ b \in Seq(T) /\ Len(b) = size
      /\ \A i \in 1..n - m + 1 : b[i] = l[m + i - 1]
  BY <1>0, <1>4, SubSeqProperties
<1> HIDE DEF a, b
<1>6. /\ Labelled(a) \in Seq(T) /\ Len(Labelled(a)) = Len(a)
      /\ \A i \in 1..Len(a) : Labelled(a)[i] = LabelOf(a[i])
  BY <1>3, LabelledIs DEF T
<1>7. ASSUME NEW i \in 1..Len(Labelled(a)) PROVE Labelled(a)[i] = b[i]
  <2>1. i \in 1..n - m + 1 /\ i \in 1..Len(a) /\ m + i - 1 \in 1..Len(s)
    BY <1>0, <1>3, <1>6
  <2> QED
    BY <1>1, <1>3, <1>5, <1>6, <2>1
<1>8. Labelled(a) = b
  BY <1>3, <1>5, <1>6, <1>7, SameSequence
<1> QED
  BY <1>8 DEF a, b, l

(* The top of a stack and the rest.                                        *)
LEMMA LabelledFront ==
  ASSUME NEW S, NEW s \in Seq(S), s # <<>>
  PROVE  /\ Labelled(Front(s)) = Front(Labelled(s))
         /\ Last(Labelled(s)) = LabelOf(Last(s))
         /\ Len(Front(s)) = Len(s) - 1
<1>1. Len(s) \in Nat \ {0}
  OBVIOUS
<1>2. Len(Labelled(s)) = Len(s) /\ \A i \in 1..Len(s) : Labelled(s)[i] = LabelOf(s[i])
  BY LabelledIs
<1>3. 1 \in 1..(Len(s) + 1) /\ Len(s) - 1 \in 0..Len(s)
  BY <1>1
<1>4. Labelled(SubSeq(s, 1, Len(s) - 1)) = SubSeq(Labelled(s), 1, Len(s) - 1)
  BY <1>3, LabelledCut
<1> DEFINE n == Len(s) - 1
<1>5. Len(SubSeq(s, 1, n)) = n
  <2>1. n \in Nat /\ 1 \in Int /\ \A i \in 1..n : s[i] \in S
    BY <1>1
  <2> HIDE DEF n
  <2>2. Len(SubSeq(s, 1, n)) = IF 1 <= n THEN n - 1 + 1 ELSE 0
    BY <2>1, SubSeqProperties
  <2>3. (IF 1 <= n THEN n - 1 + 1 ELSE 0) = n
    BY <2>1
  <2> QED
    BY <2>1, <2>2, <2>3
<1> QED
  BY <1>1, <1>2, <1>4, <1>5 DEF Front, Last

(* A stack turned over.                                                    *)
LEMMA LabelledReverse ==
  ASSUME NEW S, NEW s \in Seq(S)
  PROVE  /\ Labelled(Reverse(s)) = Reverse(Labelled(s))
         /\ Reverse(s) \in Seq(S) /\ Len(Reverse(s)) = Len(s)
         /\ s # <<>> => Last(Reverse(s)) = s[1]
<1> DEFINE T == {LabelOf(x) : x \in S}
           l == Labelled(s)
           a == Reverse(s)
           b == Reverse(l)
<1>0. Len(s) \in Nat
  OBVIOUS
<1>1. /\ l \in Seq(T) /\ Len(l) = Len(s)
      /\ \A i \in 1..Len(s) : l[i] = LabelOf(s[i])
  BY LabelledIs
<1>2. /\ a \in Seq(S) /\ Len(a) = Len(s)
      /\ \A i \in 1..Len(s) : a[i] = s[(Len(s) - i) + 1]
  BY DEF Reverse
<1> HIDE DEF l, T, a
<1>3. /\ b \in Seq(T) /\ Len(b) = Len(s)
      /\ \A i \in 1..Len(s) : b[i] = l[(Len(s) - i) + 1]
  BY <1>1 DEF Reverse
<1> HIDE DEF b
<1>4. /\ Labelled(a) \in Seq(T) /\ Len(Labelled(a)) = Len(a)
      /\ \A i \in 1..Len(a) : Labelled(a)[i] = LabelOf(a[i])
  BY <1>2, LabelledIs DEF T
<1>5. ASSUME NEW i \in 1..Len(Labelled(a)) PROVE Labelled(a)[i] = b[i]
  <2>1. i \in 1..Len(s) /\ (Len(s) - i) + 1 \in 1..Len(s)
    BY <1>0, <1>2, <1>4
  <2> QED
    BY <1>1, <1>2, <1>3, <1>4, <2>1
<1>6. Labelled(a) = b
  BY <1>2, <1>3, <1>4, <1>5, SameSequence
<1>7. s # <<>> => Last(a) = s[1]
  <2> SUFFICES ASSUME s # <<>> PROVE Last(a) = s[1]
    OBVIOUS
  <2>1. Len(s) \in 1..Len(s) /\ (Len(s) - Len(s)) + 1 = 1
    BY <1>0
  <2>2. a[Len(s)] = s[1]
    BY <1>2, <2>1
  <2> QED
    BY <1>2, <2>2 DEF Last
<1> QED
  BY <1>2, <1>6, <1>7 DEF a, b, l

(* The timeline is that of the journal.                                    *)
LEMMA LabelledTimeline ==
  ASSUME NEW S, undoStack \in Seq(S), redoStack \in Seq(S)
  PROVE  Journal!Steps = Labelled(Timeline) /\ Len(Timeline) = Len(undoStack) + Len(redoStack)
<1> DEFINE T == {LabelOf(x) : x \in S}
           u == Labelled(undoStack)
           r == Reverse(redoStack)
           v == Labelled(r)
<1>1. /\ u \in Seq(T) /\ Len(u) = Len(undoStack) /\ Len(undoStack) \in Nat
      /\ \A i \in 1..Len(undoStack) : u[i] = LabelOf(undoStack[i])
  BY LabelledIs
<1>2. r \in Seq(S) /\ Len(r) = Len(redoStack) /\ v = Reverse(Labelled(redoStack))
  BY LabelledReverse
<1> HIDE DEF r, u
<1>3. /\ v \in Seq(T) /\ Len(v) = Len(r) /\ Len(r) \in Nat
      /\ \A i \in 1..Len(r) : v[i] = LabelOf(r[i])
  BY <1>2, LabelledIs
<1> DEFINE a == undoStack \o r
           b == u \o v
<1>4. /\ a \in Seq(S) /\ Len(a) = Len(undoStack) + Len(r)
      /\ \A i \in 1..Len(a) : a[i] = IF i <= Len(undoStack) THEN undoStack[i]
                                     ELSE r[i - Len(undoStack)]
  BY <1>2, ConcatProperties
<1> HIDE DEF v, T, a
<1>5. /\ b \in Seq(T) /\ Len(b) = Len(u) + Len(v)
      /\ \A i \in 1..Len(b) : b[i] = IF i <= Len(u) THEN u[i] ELSE v[i - Len(u)]
  <2>1. u \in Seq(T) /\ v \in Seq(T)
    BY <1>1, <1>3
  <2> QED
    BY <2>1, ConcatProperties
<1> HIDE DEF b
<1>6. /\ Labelled(a) \in Seq(T) /\ Len(Labelled(a)) = Len(a)
      /\ \A i \in 1..Len(a) : Labelled(a)[i] = LabelOf(a[i])
  BY <1>4, LabelledIs DEF T
<1>7. ASSUME NEW i \in 1..Len(Labelled(a)) PROVE Labelled(a)[i] = b[i]
  <2>1. i \in 1..Len(a) /\ i \in 1..Len(b)
    BY <1>1, <1>3, <1>4, <1>5, <1>6
  <2>2. CASE i <= Len(undoStack)
    <3>1. i \in 1..Len(undoStack)
      BY <1>1, <2>1, <2>2
    <3>2. a[i] = undoStack[i] /\ b[i] = u[i]
      BY <1>1, <1>4, <1>5, <2>1, <2>2
    <3> QED
      BY <1>1, <1>6, <2>1, <3>1, <3>2
  <2>3. CASE ~(i <= Len(undoStack))
    <3>1. i - Len(undoStack) \in 1..Len(r)
      BY <1>1, <1>3, <1>4, <2>1, <2>3
    <3>2. a[i] = r[i - Len(undoStack)] /\ b[i] = v[i - Len(undoStack)]
      BY <1>1, <1>4, <1>5, <2>1, <2>3
    <3> QED
      BY <1>3, <1>6, <2>1, <3>1, <3>2
  <2> QED
    BY <2>2, <2>3
<1>8. Labelled(a) = b
  BY <1>1, <1>3, <1>4, <1>5, <1>6, <1>7, SameSequence
<1>9. Labelled(Timeline) = Journal!Steps
  <2>1. a = Timeline
    BY DEF a, r, Timeline
  <2>2. b = Labelled(undoStack) \o Reverse(Labelled(redoStack))
    BY <1>2 DEF b, u
  <2> QED
    BY <1>8, <2>1, <2>2 DEF Journal!Steps, Journal!TimelineOf, Journal!Reverse, Reverse
<1>10. Len(Timeline) = Len(undoStack) + Len(redoStack)
  BY <1>2, <1>4 DEF a, r, Timeline
<1> QED
  BY <1>9, <1>10

------------------------------------------------------------------------------
(* Whose plan the session is bound for.                                    *)

BoundOf(s, p) ==
  IF \E o \in DOMAIN s : s[o].pc # "done" /\ s[o].kind \in {"move"}
  THEN s[CHOOSE o \in DOMAIN s : s[o].kind \in {"move"} /\ s[o].pc = "replay"].target
  ELSE p

(* The plan bound for is read off the operations and the screen.           *)
LEMMA BoundIs == BoundFor = BoundOf(ops, spec) /\ BoundFor' = BoundOf(ops', spec')
BY DEF BoundFor, BoundOf, Running, InFlight, At

(* With no move in flight it is the plan on screen.                        *)
LEMMA BoundHere ==
  ASSUME NEW s, NEW p, \A o \in DOMAIN s : s[o].pc # "done" => s[o].kind # "move"
  PROVE  BoundOf(s, p) = p
BY DEF BoundOf

(* With one, it is the plan that move replays.                             *)
LEMMA BoundThere ==
  ASSUME NEW s, NEW p, NEW o \in DOMAIN s, s[o].kind = "move", s[o].pc = "replay",
         \A q \in DOMAIN s : s[q].pc # "done" => q = o
  PROVE  BoundOf(s, p) = s[o].target
<1>1. (CHOOSE q \in DOMAIN s : s[q].kind \in {"move"} /\ s[q].pc = "replay") = o
  <2> DEFINE c == CHOOSE q \in DOMAIN s : s[q].kind \in {"move"} /\ s[q].pc = "replay"
  <2>1. c \in DOMAIN s /\ s[c].pc = "replay"
    OBVIOUS
  <2> HIDE DEF c
  <2>2. c = o
    BY <2>1
  <2> QED
    BY <2>2 DEF c
<1>2. \E q \in DOMAIN s : s[q].pc # "done" /\ s[q].kind \in {"move"}
  OBVIOUS
<1> QED
  BY <1>1, <1>2 DEF BoundOf

(* Nothing runs, nothing moves.                                            *)
LEMMA QuietIs ==
  ASSUME TypeOK, Quiet
  PROVE  (\A o \in DOMAIN ops : ops[o].pc = "done") /\ BoundFor = spec
<1>1. \A o \in DOMAIN ops : ops[o].kind \in Kind
  BY OperationAt DEF TypeOK
<1>2. \A o \in DOMAIN ops : ops[o].pc = "done"
  BY <1>1 DEF Quiet, Running, InFlight
<1> QED
  BY <1>2, BoundIs, BoundHere

(* Somebody runs: it moves, or nothing does.                               *)
LEMMA BusyIs ==
  ASSUME SInv, NEW o \in DOMAIN ops, InFlight(o)
  PROVE  /\ \A q \in DOMAIN ops : ops[q].pc # "done" => q = o
         /\ BoundFor = IF ops[o].kind = "move" THEN ops[o].target ELSE spec
<1>1. \A q \in DOMAIN ops : ops[q].pc # "done" => q = o
  BY DEF SInv, Alone, InFlight
<1>2. CASE ops[o].kind = "move"
  <2>1. ops[o].pc = "replay"
    BY <1>2 DEF SInv, Waiting
  <2> QED
    BY <1>1, <1>2, <2>1, BoundIs, BoundThere
<1>3. CASE ops[o].kind # "move"
  BY <1>1, <1>3, BoundIs, BoundHere
<1> QED
  BY <1>1, <1>2, <1>3

(* Plans of the table on screen.                                           *)
LEMMA OnTableIs ==
  /\ \A p \in Plan : p.table = table => p \in OnTable(table)
  /\ \A p \in OnTable(table) : Over(p.steps) = p /\ p.table = table /\ p.steps \in SUBSET Ops
  /\ \A x \in SUBSET Ops : Over(x) \in OnTable(table)
BY DEF OnTable, Over, Plan

(* The operation that starts is alone.                                     *)
LEMMA StartAlone ==
  ASSUME TypeOK, Quiet, NEW kind, NEW pc, NEW target, NEW raised,
         Started(kind, pc, target, raised), UNCHANGED <<spec, table>>,
         target \in OnTable(table), kind \in Passes => target = spec,
         kind = "move" => pc = "replay"
  PROVE  /\ Alone' /\ Waiting' /\ BoundFor = spec
         /\ BoundFor' = IF kind = "move" THEN target ELSE spec
<1>1. (\A o \in DOMAIN ops : ops[o].pc = "done") /\ BoundFor = spec
  BY QuietIs
<1>2. /\ DOMAIN ops' = DOMAIN ops \union {Self} /\ Self = Len(ops')
      /\ \A q \in DOMAIN ops' : ops'[q].pc # "done" => q = Self
      /\ ops'[Self].kind = kind /\ ops'[Self].pc = pc /\ ops'[Self].prev = spec
      /\ ops'[Self].target = target
  BY <1>1 DEF Started, Self
<1>3. Alone'
  BY <1>2 DEF Alone, InFlight
<1>4. Waiting'
  BY <1>2 DEF Waiting, InFlight
<1>5. CASE kind = "move"
  <2>1. ops'[Self].pc = "replay" /\ ops'[Self].kind = "move" /\ Self \in DOMAIN ops'
    BY <1>2, <1>5
  <2>2. BoundOf(ops', spec') = ops'[Self].target
    BY <1>2, <2>1, BoundThere
  <2> QED
    BY <1>1, <1>2, <1>3, <1>4, <1>5, <2>2, BoundIs
<1>6. CASE kind # "move"
  <2>1. BoundOf(ops', spec') = spec'
    BY <1>2, <1>6, BoundHere
  <2> QED
    BY <1>1, <1>3, <1>4, <1>6, <2>1, BoundIs
<1> QED
  BY <1>5, <1>6

(* A step of operation o.                                                  *)
Touched(o) ==
  /\ DOMAIN ops' = DOMAIN ops /\ Len(ops') = Len(ops)
  /\ \A p \in DOMAIN ops : p # o => ops'[p] = ops[p]
  /\ ops'[o].kind = ops[o].kind /\ ops'[o].prev = ops[o].prev

(* One that stays in flight is still alone.                                *)
LEMMA TurnAlone ==
  ASSUME SInv, NEW o \in DOMAIN ops, InFlight(o), ops[o].kind # "move", Touched(o),
         UNCHANGED <<spec, table>>, ops'[o].target \in OnTable(table),
         ops[o].kind \in Passes => ops'[o].target = spec
  PROVE  Alone' /\ Waiting' /\ BoundFor' = BoundFor
<1>1. (\A q \in DOMAIN ops : ops[q].pc # "done" => q = o) /\ BoundFor = spec
  BY BusyIs
<1>2. \A q \in DOMAIN ops' : ops'[q].pc # "done" => q = o
  BY <1>1 DEF Touched
<1>3. o = Len(ops) /\ ops[o].prev = spec
  BY DEF SInv, Alone, Waiting
<1>4. Alone'
  BY <1>2, <1>3 DEF Alone, InFlight, Touched
<1>5. Waiting'
  BY <1>2, <1>3 DEF Waiting, InFlight, Touched
<1>6. BoundOf(ops', spec') = spec'
  BY <1>2, BoundHere DEF Touched
<1> QED
  BY <1>1, <1>4, <1>5, <1>6, BoundIs

(* When it ends nobody is left, and the screen is what counts.             *)
LEMMA EndAlone ==
  ASSUME SInv, TypeOK, NEW o \in DOMAIN ops, InFlight(o), Goto(o, "done")
  PROVE  /\ Alone' /\ Waiting' /\ BoundFor' = spec'
         /\ BoundFor = IF ops[o].kind = "move" THEN ops[o].target ELSE spec
<1>1. /\ \A q \in DOMAIN ops : ops[q].pc # "done" => q = o
      /\ BoundFor = IF ops[o].kind = "move" THEN ops[o].target ELSE spec
  BY BusyIs
<1>2. Turned(o) /\ ops'[o].pc = "done"
  BY GotoTurns DEF TypeOK
<1>3. \A q \in DOMAIN ops' : ops'[q].pc = "done"
  BY <1>1, <1>2 DEF Turned
<1>4. Alone' /\ Waiting'
  BY <1>3 DEF Alone, Waiting, InFlight
<1>5. BoundOf(ops', spec') = spec'
  BY <1>3, BoundHere
<1> QED
  BY <1>1, <1>4, <1>5, BoundIs

------------------------------------------------------------------------------
(* What a step of the session is for the journal.                          *)

(* The stacks and the screen that stay are of the same table.              *)
LEMMA HereStays ==
  ASSUME Here, UNCHANGED <<journal, table>>, spec' \in OnTable(table)
  PROVE  Here'
BY DEF Here, journal

(* Every start but a move's.                                               *)
LEMMA SerialStart ==
  ASSUME TypeOK, SInv, ~Overlap,
         NEW kind \in Kind \ {"move"}, NEW pc \in Wait, NEW steps, NEW target,
         NEW raised \in BOOLEAN,
         Begin(kind, pc, target, raised), UNCHANGED <<journal, spec, table>>,
         target = spec \/ (kind \notin Passes /\ target = Over(steps) /\ target \in Plan)
  PROVE  SInv' /\ UNCHANGED Journal!vars
<1>1. spec \in OnTable(table) /\ Here /\ spec \in Plan
  BY DEF SInv, Here, TypeOK
<1>2. target \in Plan /\ target \in OnTable(table)
  <2>1. CASE target = spec
    BY <1>1, <2>1
  <2>2. CASE target = Over(steps) /\ target \in Plan
    <3>1. target.table = table
      BY <2>2 DEF Over
    <3> QED
      BY <2>2, <3>1, OnTableIs
  <2> QED
    BY <2>1, <2>2
<1>3. Started(kind, pc, target, raised)
  BY <1>1, <1>2, StartedBy DEF TypeOK
<1>4. Alone' /\ Waiting' /\ BoundFor' = spec /\ BoundFor = spec
  <2>1. Quiet
    BY DEF Begin
  <2> QED
    BY <1>2, <1>3, <2>1, StartAlone
<1>5. Here'
  BY <1>1, HereStays
<1> QED
  BY <1>4, <1>5 DEF SInv, Journal!vars, journal, Labelled

(* A step that ends an operation without a record.                         *)
LEMMA SerialEnd ==
  ASSUME TypeOK, SInv, NEW o \in DOMAIN ops, InFlight(o), Goto(o, "done"),
         UNCHANGED <<journal, table>>,
         \/ spec' = spec /\ ops[o].kind # "move"
         \/ spec' = ops[o].target /\ ops[o].kind \in Passes \union {"move"}
  PROVE  SInv' /\ UNCHANGED Journal!vars
<1>1. /\ Alone' /\ Waiting' /\ BoundFor' = spec'
      /\ BoundFor = IF ops[o].kind = "move" THEN ops[o].target ELSE spec
  BY EndAlone
<1>2. /\ ops[o].kind \in Passes => ops[o].target = spec
      /\ ops[o].target \in OnTable(table) /\ spec \in OnTable(table) /\ Here
  BY DEF SInv, Waiting, Here
<1>3. BoundFor' = BoundFor /\ spec' \in OnTable(table)
  BY <1>1, <1>2
<1>4. Here'
  BY <1>2, <1>3, HereStays
<1> QED
  BY <1>1, <1>3, <1>4 DEF SInv, Journal!vars, journal, Labelled

(* A commit, a landing flow and a landing edit are one record of the       *)
(* journal, from the plan on screen to the one that landed.                *)
LEMMA SerialRecord ==
  ASSUME TypeOK, TypeOK', SInv, NEW o \in DOMAIN ops,
         CommitRequest(o) \/ LandFlow(o) \/ LandGesture(o)
  PROVE  SInv' /\ Journal!Record("step", BoundFor') /\ BoundFor' = spec'
<1>1. /\ InFlight(o) /\ ops[o].kind \in {"request", "flow", "gesture"}
      /\ spec' = ops[o].target /\ Record(o) /\ Goto(o, "done") /\ table' = table
  BY DEF CommitRequest, LandFlow, LandGesture, At, InFlight, EndRequest
<1>2. Alone' /\ Waiting' /\ BoundFor' = spec' /\ BoundFor = spec
  BY <1>1, EndAlone
<1>3. /\ ops[o].prev = spec /\ ops[o].target \in OnTable(table) /\ spec \in OnTable(table)
      /\ undoStack \in Seq(EntriesOn(table)) /\ redoStack \in Seq(EntriesOn(table))
      /\ Len(undoStack) + Len(redoStack) <= idSeq
  BY <1>1 DEF SInv, Waiting, Here
<1> DEFINE e == [id |-> idSeq + 1, prevSpec |-> spec, nextSpec |-> ops[o].target]
<1>4. /\ undoStack' = Append(undoStack, e) /\ redoStack' = <<>> /\ idSeq' = idSeq + 1
  BY <1>1, <1>3 DEF Record
<1>5. idSeq + 1 \in Ops /\ idSeq < MaxOps /\ idSeq \in Nat
  BY <1>4, SessionAssumption DEF TypeOK, Ops
<1>6. e \in EntriesOn(table)
  BY <1>3, <1>5 DEF EntriesOn
<1>7. LabelOf(e) = [label |-> "step", prevSpec |-> BoundFor, nextSpec |-> BoundFor', id |-> idSeq + 1]
  BY <1>1, <1>2 DEF LabelOf
<1> HIDE DEF e
<1>8. Labelled(undoStack)' = Append(Labelled(undoStack), LabelOf(e))
  BY <1>3, <1>4, <1>6, LabelledAppend
<1>9. Labelled(redoStack)' = <<>>
  BY <1>4 DEF Labelled
<1>10. undoStack' \in Seq(EntriesOn(table)) /\ Len(undoStack') = Len(undoStack) + 1
  BY <1>3, <1>4, <1>6, AppendProperties
<1>11. Here'
  <2>1. redoStack' \in Seq(EntriesOn(table)) /\ Len(redoStack') = 0
    BY <1>4
  <2>2. Len(undoStack) \in Nat /\ Len(redoStack) \in Nat
    BY <1>3
  <2>3. Len(undoStack') + Len(redoStack') <= idSeq'
    BY <1>3, <1>4, <1>5, <1>10, <2>1, <2>2
  <2> QED
    BY <1>1, <1>3, <1>10, <2>1, <2>3 DEF Here
<1> QED
  BY <1>2, <1>4, <1>5, <1>7, <1>8, <1>9, <1>11 DEF SInv, Journal!Record

(* A move that starts carries the journal's cursor at once, and is bound   *)
(* for the plan there.                                                     *)
LEMMA SerialMove ==
  ASSUME TypeOK, SInv, ~Overlap, NEW p \in OnTable(table),
         Begin("move", "replay", Over(p.steps), FALSE), UNCHANGED <<idSeq, spec, table>>,
         undoStack' \in Seq(EntriesOn(table)), redoStack' \in Seq(EntriesOn(table)),
         Len(undoStack') + Len(redoStack') = Len(undoStack) + Len(redoStack)
  PROVE  SInv' /\ BoundFor' = p
<1>1. Over(p.steps) = p /\ p \in Plan /\ Quiet
  <2>1. Over(p.steps) = p /\ p.steps \in SUBSET Ops
    BY OnTableIs
  <2>2. Over(p.steps) \in Plan
    BY <2>1 DEF Over, Plan, TypeOK
  <2> QED
    BY <2>1, <2>2 DEF Begin
<1>2. "move" \in Kind /\ "replay" \in Wait /\ FALSE \in BOOLEAN /\ "move" \notin Passes
  BY DEF Kind, Wait, Passes
<1>3. Started("move", "replay", p, FALSE)
  BY <1>1, <1>2, StartedBy DEF TypeOK
<1>4. Alone' /\ Waiting' /\ BoundFor' = p
  BY <1>1, <1>2, <1>3, StartAlone
<1>5. Here'
  BY DEF SInv, Here
<1> QED
  BY <1>4, <1>5 DEF SInv

(* What the two stacks of a session that moves are made of.                *)
LEMMA StacksHere ==
  ASSUME SInv
  PROVE  /\ undoStack \in Seq(EntriesOn(table)) /\ redoStack \in Seq(EntriesOn(table))
         /\ Len(undoStack) \in Nat /\ Len(redoStack) \in Nat
         /\ \A e \in EntriesOn(table) : e.prevSpec \in OnTable(table) /\ e.nextSpec \in OnTable(table)
<1>1. undoStack \in Seq(EntriesOn(table)) /\ redoStack \in Seq(EntriesOn(table))
  BY DEF SInv, Here
<1>2. Len(undoStack) \in Nat /\ Len(redoStack) \in Nat
  BY <1>1
<1>3. \A e \in EntriesOn(table) : e.prevSpec \in OnTable(table) /\ e.nextSpec \in OnTable(table)
  BY DEF EntriesOn
<1> QED
  BY <1>1, <1>2, <1>3

(* An undo is takeUndo.                                                    *)
LEMMA SerialUndo ==
  ASSUME TypeOK, SInv, ~Overlap, StartUndo
  PROVE  SInv' /\ Journal!TakeUndo
<1> DEFINE e == Last(undoStack)
<1>1. /\ undoStack # <<>> /\ undoStack' = Front(undoStack) /\ redoStack' = Append(redoStack, e)
      /\ Begin("move", "replay", Over(e.prevSpec.steps), FALSE)
      /\ UNCHANGED <<idSeq, spec, table>>
  BY DEF StartUndo, Start
<1>2. /\ undoStack' \in Seq(EntriesOn(table)) /\ e \in EntriesOn(table)
      /\ Labelled(undoStack') = Front(Labelled(undoStack))
      /\ Last(Labelled(undoStack)) = LabelOf(e)
      /\ Len(undoStack') = Len(undoStack) - 1
      /\ Labelled(undoStack) # <<>>
  BY <1>1, StacksHere, FrontAndLast, LabelledFront, LabelledIs
<1> HIDE DEF e
<1>3. /\ redoStack' \in Seq(EntriesOn(table)) /\ Len(redoStack') = Len(redoStack) + 1
      /\ Labelled(redoStack') = Append(Labelled(redoStack), LabelOf(e))
  BY <1>1, <1>2, StacksHere, AppendProperties, LabelledAppend
<1>4. Len(undoStack') + Len(redoStack') = Len(undoStack) + Len(redoStack)
  BY <1>2, <1>3, StacksHere
<1>5. SInv' /\ BoundFor' = e.prevSpec
  <2>1. e.prevSpec \in OnTable(table)
    BY <1>2, StacksHere
  <2> QED
    BY <1>1, <1>2, <1>3, <1>4, <2>1, SerialMove
<1>6. BoundFor' = Last(Labelled(undoStack)).prevSpec
  BY <1>2, <1>5 DEF LabelOf
<1> QED
  BY <1>1, <1>2, <1>3, <1>5, <1>6
     DEF Journal!TakeUndo, Journal!Front, Journal!Last, Front, Last

(* A redo is takeRedo.                                                     *)
LEMMA SerialRedo ==
  ASSUME TypeOK, SInv, ~Overlap, StartRedo
  PROVE  SInv' /\ Journal!TakeRedo
<1> DEFINE e == Last(redoStack)
<1>1. /\ redoStack # <<>> /\ redoStack' = Front(redoStack) /\ undoStack' = Append(undoStack, e)
      /\ Begin("move", "replay", Over(e.nextSpec.steps), FALSE)
      /\ UNCHANGED <<idSeq, spec, table>>
  BY DEF StartRedo, Start
<1>2. /\ redoStack' \in Seq(EntriesOn(table)) /\ e \in EntriesOn(table)
      /\ Labelled(redoStack') = Front(Labelled(redoStack))
      /\ Last(Labelled(redoStack)) = LabelOf(e)
      /\ Len(redoStack') = Len(redoStack) - 1
      /\ Labelled(redoStack) # <<>>
  BY <1>1, StacksHere, FrontAndLast, LabelledFront, LabelledIs
<1> HIDE DEF e
<1>3. /\ undoStack' \in Seq(EntriesOn(table)) /\ Len(undoStack') = Len(undoStack) + 1
      /\ Labelled(undoStack') = Append(Labelled(undoStack), LabelOf(e))
  BY <1>1, <1>2, StacksHere, AppendProperties, LabelledAppend
<1>4. Len(undoStack') + Len(redoStack') = Len(undoStack) + Len(redoStack)
  BY <1>2, <1>3, StacksHere
<1>5. SInv' /\ BoundFor' = e.nextSpec
  <2>1. e.nextSpec \in OnTable(table)
    BY <1>2, StacksHere
  <2> QED
    BY <1>1, <1>2, <1>3, <1>4, <2>1, SerialMove
<1>6. BoundFor' = Last(Labelled(redoStack)).nextSpec
  BY <1>2, <1>5 DEF LabelOf
<1> QED
  BY <1>1, <1>2, <1>3, <1>5, <1>6
     DEF Journal!TakeRedo, Journal!Front, Journal!Last, Front, Last

(* A tap in the History sheet is jumpTo.                                   *)
LEMMA SerialJump ==
  ASSUME TypeOK, SInv, ~Overlap, NEW index \in 0..Len(Timeline), StartJump(index)
  PROVE  SInv' /\ index - 1 \in -2..(MaxOps + 1) /\ Journal!JumpTo(index - 1)
<1> DEFINE n == Len(Timeline)
           E == EntriesOn(table)
           applied == SubSeq(Timeline, 1, index)
           undone == SubSeq(Timeline, index + 1, n)
           goal == IF applied = <<>> THEN undone[1].prevSpec ELSE Last(applied).nextSpec
<1>1. /\ Timeline # <<>> /\ undoStack' = applied /\ redoStack' = Reverse(undone)
      /\ Begin("move", "replay", Over(goal.steps), FALSE)
      /\ UNCHANGED <<idSeq, spec, table>>
  BY DEF StartJump, Start
<1>2. /\ Timeline \in Seq(E) /\ Journal!Steps = Labelled(Timeline)
      /\ n = Len(undoStack) + Len(redoStack)
  BY StacksHere, TimelineOf, LabelledTimeline
<1>3. n \in Nat \ {0} /\ Len(Labelled(Timeline)) = n /\ n <= MaxOps
      /\ Labelled(Timeline) # <<>> /\ idSeq \in Int /\ MaxOps \in Int
  <2>1. n \in Nat \ {0}
    BY <1>1, <1>2
  <2>2. Len(Labelled(Timeline)) = n /\ Labelled(Timeline) # <<>>
    BY <1>1, <1>2, LabelledIs
  <2>3. n <= idSeq /\ idSeq <= MaxOps /\ idSeq \in Int /\ MaxOps \in Int
    BY <1>2, SessionAssumption DEF SInv, Here, TypeOK
  <2> QED
    BY <2>1, <2>2, <2>3
<1>4. 1 \in 1..(n + 1) /\ index \in 0..n /\ index + 1 \in 1..(n + 1) /\ n \in 0..n
  BY <1>3
<1> HIDE DEF n, E
<1>5. /\ applied \in Seq(E) /\ Labelled(applied) = SubSeq(Labelled(Timeline), 1, index)
      /\ undone \in Seq(E) /\ Labelled(undone) = SubSeq(Labelled(Timeline), index + 1, n)
  BY <1>2, <1>4, CutOf, LabelledCut DEF n
<1>6. Len(applied) = index /\ Len(undone) = n - index
  <2>1. /\ \A i \in 1..index : Timeline[i] \in E
        /\ \A i \in index + 1..n : Timeline[i] \in E
    BY <1>2, <1>3, <1>4 DEF n
  <2>2. /\ Len(applied) = IF 1 <= index THEN index - 1 + 1 ELSE 0
        /\ Len(undone) = IF index + 1 <= n THEN n - (index + 1) + 1 ELSE 0
    BY <1>3, <1>4, <2>1, SubSeqProperties
  <2> HIDE DEF applied, undone
  <2> QED
    BY <1>3, <1>4, <2>2
<1> HIDE DEF applied, undone
<1>7. /\ Labelled(Reverse(undone)) = Reverse(Labelled(undone))
      /\ Reverse(undone) \in Seq(E) /\ Len(Reverse(undone)) = n - index
      /\ undone # <<>> => Last(Reverse(undone)) = undone[1]
  BY <1>5, <1>6, LabelledReverse
<1>8. goal \in OnTable(table)
  <2>1. CASE applied = <<>>
    <3>1. index = 0 /\ undone # <<>>
      BY <1>3, <1>4, <1>6, <2>1
    <3>2. undone[1] \in E
      BY <1>5, <3>1
    <3> QED
      BY <2>1, <3>2, StacksHere DEF E
  <2>2. CASE applied # <<>>
    <3>1. Last(applied) \in E
      BY <1>5, <2>2, FrontAndLast
    <3> QED
      BY <2>2, <3>1, StacksHere DEF E
  <2> QED
    BY <2>1, <2>2
<1>9. SInv' /\ BoundFor' = goal
  <2>1. Len(undoStack') + Len(redoStack') = Len(undoStack) + Len(redoStack)
    BY <1>1, <1>2, <1>3, <1>4, <1>6, <1>7
  <2> HIDE DEF goal
  <2> QED
    BY <1>1, <1>5, <1>7, <1>8, <2>1, SerialMove DEF E
<1>10. Journal!Clamp(index - 1, n) = index - 1
  BY <1>3, <1>4 DEF Journal!Clamp
<1>11. Labelled(undoStack') = SubSeq(Labelled(Timeline), 1, (index - 1) + 1)
  BY <1>1, <1>4, <1>5
<1>12. Labelled(redoStack') = Reverse(SubSeq(Labelled(Timeline), (index - 1) + 2, n))
  <2>1. (index - 1) + 2 = index + 1
    BY <1>4
  <2> QED
    BY <1>1, <1>5, <1>7, <2>1
<1>13. BoundFor' = IF Labelled(undoStack') # <<>> THEN Last(Labelled(undoStack')).nextSpec
                   ELSE Last(Labelled(redoStack')).prevSpec
  <2>1. CASE applied = <<>>
    <3>1. undone # <<>> /\ Reverse(undone) # <<>>
      BY <1>3, <1>4, <1>6, <1>7, <2>1
    <3>2. Labelled(undoStack') = <<>>
      BY <1>1, <1>5, <2>1, LabelledIs
    <3>3. Last(Labelled(redoStack')) = LabelOf(undone[1])
      BY <1>1, <1>7, <3>1, LabelledFront
    <3> QED
      BY <1>9, <2>1, <3>2, <3>3 DEF LabelOf
  <2>2. CASE applied # <<>>
    <3>1. Labelled(undoStack') # <<>> /\ Last(Labelled(undoStack')) = LabelOf(Last(applied))
      BY <1>1, <1>5, <2>2, LabelledIs, LabelledFront
    <3> QED
      BY <1>9, <2>2, <3>1 DEF LabelOf
  <2> QED
    BY <2>1, <2>2
<1>14. Journal!JumpTo(index - 1)
  <2>1. Journal!Reverse(SubSeq(Labelled(Timeline), (index - 1) + 2, n))
          = Reverse(SubSeq(Labelled(Timeline), (index - 1) + 2, n))
    BY DEF Journal!Reverse, Reverse
  <2>2. /\ Journal!Last(Labelled(undoStack')) = Last(Labelled(undoStack'))
        /\ Journal!Last(Labelled(redoStack')) = Last(Labelled(redoStack'))
    BY DEF Journal!Last, Last
  <2> QED
    BY <1>1, <1>2, <1>3, <1>10, <1>11, <1>12, <1>13, <2>1, <2>2 DEF Journal!JumpTo
<1>15. index - 1 \in -2..(MaxOps + 1)
  BY <1>3, <1>4
<1> QED
  BY <1>9, <1>14, <1>15

(* A load clears the journal and shows the new table.                      *)
LEMMA SerialLoad ==
  ASSUME TypeOK, SInv, ~Overlap, Load
  PROVE  SInv' /\ Journal!Clear(BoundFor') /\ BoundFor' = spec'
<1>1. /\ Quiet /\ ops' = ops /\ idSeq' = idSeq /\ table' = table + 1
      /\ undoStack' = <<>> /\ redoStack' = <<>> /\ spec' = [table |-> table + 1, steps |-> {}]
  BY DEF Load
<1>2. \A o \in DOMAIN ops' : ops'[o].pc = "done"
  BY <1>1, QuietIs
<1>3. Alone' /\ Waiting'
  BY <1>2 DEF Alone, Waiting, InFlight
<1>4. BoundFor' = spec'
  BY <1>2, BoundIs, BoundHere
<1>5. Here'
  <2>1. spec' \in OnTable(table')
    BY <1>1 DEF OnTable
  <2>2. Len(undoStack') + Len(redoStack') <= idSeq'
    BY <1>1, SessionAssumption DEF TypeOK
  <2> QED
    BY <1>1, <2>1, <2>2 DEF Here
<1>6. Labelled(<<>>) = <<>>
  BY DEF Labelled
<1> QED
  BY <1>1, <1>3, <1>4, <1>5, <1>6 DEF SInv, Journal!Clear

(* A step between the awaits of an operation is none of the journal's.     *)
LEMMA SerialTurn ==
  ASSUME TypeOK, TypeOK', SInv, NEW o \in DOMAIN ops,
         Patch(o) \/ Confirm(o) \/ Reject(o) \/ RefillRunAll(o)
  PROVE  SInv' /\ UNCHANGED Journal!vars
<1>1. /\ InFlight(o) /\ ops[o].kind # "move" /\ UNCHANGED <<journal, spec, table>>
      /\ ops[o].kind \in Passes => RefillRunAll(o)
  BY DEF Patch, Confirm, Reject, RefillRunAll, At, InFlight, Passes
<1>2. /\ ops \in Seq(Operation) /\ ops' \in Seq(Operation) /\ Over(spec.steps) = spec
      /\ ops[o].target \in OnTable(table) /\ spec \in OnTable(table) /\ Here
  BY <1>1, OnTableIs DEF TypeOK, SInv, Here, Waiting
<1>3. /\ Touched(o)
      /\ \/ ops'[o].target.table = table
         \/ ops'[o].target = ops[o].target
      /\ RefillRunAll(o) => ops'[o].target = spec
  <2>1. ops[o] \in Operation
    BY <1>2
  <2>2. CASE Patch(o)
    <3>1. PICK pc \in {"confirm", "replay"} :
            ops' = [ops EXCEPT ![o].pc = pc, ![o].target = Over(spec.steps \union {o})]
      BY <2>2 DEF Patch
    <3> DEFINE goal == Over(spec.steps \union {o})
               r == [ops[o] EXCEPT !.pc = pc, !.target = goal]
    <3>2. Touched(o) /\ ops'[o].target = goal
      <4>1. ops' = [ops EXCEPT ![o] = r]
        BY <1>2, <2>1, <3>1 DEF Operation
      <4>2. r.kind = ops[o].kind /\ r.prev = ops[o].prev /\ r.target = goal
        BY <2>1 DEF Operation
      <4> HIDE DEF goal, r
      <4> QED
        BY <1>2, <4>1, <4>2 DEF Touched
    <3>3. ~RefillRunAll(o)
      BY <2>2 DEF Patch, RefillRunAll, At
    <3> QED
      BY <3>2, <3>3 DEF Over
  <2>3. CASE Confirm(o)
    <3>1. ops' = [ops EXCEPT ![o].pc = "replay", ![o].target = Over(@.steps)]
      BY <2>3 DEF Confirm
    <3> DEFINE goal == Over(ops[o].target.steps)
               r == [ops[o] EXCEPT !.pc = "replay", !.target = goal]
    <3>2. Touched(o) /\ ops'[o].target = goal
      <4>1. ops' = [ops EXCEPT ![o] = r]
        BY <1>2, <2>1, <3>1 DEF Operation
      <4>2. r.kind = ops[o].kind /\ r.prev = ops[o].prev /\ r.target = goal
        BY <2>1 DEF Operation
      <4> HIDE DEF goal, r
      <4> QED
        BY <1>2, <4>1, <4>2 DEF Touched
    <3>3. ~RefillRunAll(o)
      BY <2>3 DEF Confirm, RefillRunAll, At
    <3> QED
      BY <3>2, <3>3 DEF Over
  <2>4. CASE Reject(o)
    <3>1. ops' = [ops EXCEPT ![o].pc = "model", ![o].tries = @ + 1]
      BY <2>4 DEF Reject
    <3>2. Touched(o) /\ ops'[o].target = ops[o].target
      BY <1>2, <2>1, <3>1 DEF Touched, Operation
    <3>3. ~RefillRunAll(o)
      BY <2>4 DEF Reject, RefillRunAll, At
    <3> QED
      BY <3>2, <3>3
  <2>5. CASE RefillRunAll(o)
    <3>1. ops' = [ops EXCEPT ![o].target = Over(spec.steps), ![o].tries = 1]
      BY <2>5 DEF RefillRunAll
    <3>2. Touched(o) /\ ops'[o].target = Over(spec.steps)
      BY <1>2, <2>1, <3>1 DEF Touched, Operation
    <3> QED
      BY <1>2, <3>2 DEF Over
  <2> QED
    BY <2>2, <2>3, <2>4, <2>5
<1>4. ops'[o].target \in OnTable(table)
  <2>1. o \in DOMAIN ops'
    BY <1>3 DEF Touched
  <2>2. ops'[o] \in Operation
    BY <1>2, <2>1
  <2>3. ops'[o].target \in Plan
    BY <2>2 DEF Operation
  <2> QED
    BY <1>2, <1>3, <2>3, OnTableIs
<1>5. Alone' /\ Waiting' /\ BoundFor' = BoundFor
  BY <1>1, <1>3, <1>4, TurnAlone
<1>6. Here'
  BY <1>1, <1>2, HereStays
<1> QED
  BY <1>1, <1>5, <1>6 DEF SInv, Journal!vars, journal, Labelled

(* Nor is a step that leaves the operations as they are.                   *)
LEMMA SerialIdle ==
  ASSUME SInv, UNCHANGED <<journal, spec, table, ops>>
  PROVE  SInv' /\ UNCHANGED Journal!vars
<1>1. BoundFor' = BoundFor
  BY BoundIs
<1>2. Here'
  BY HereStays DEF SInv, Here
<1>3. Alone' /\ Waiting'
  BY DEF SInv, Alone, Waiting, InFlight
<1> QED
  BY <1>1, <1>2, <1>3 DEF SInv, Journal!vars, journal, Labelled

(* Every step of a serial session is one of the journal, or none of its.   *)
LEMMA SerialStep ==
  ASSUME TypeOK, TypeOK', SInv, ~Overlap, [Next]_vars
  PROVE  SInv' /\ [Journal!Next]_(Journal!vars)
<1>1. CASE StartRequest \/ RefuseRequest
  <2>1. /\ UNCHANGED <<journal, spec, table>>
        /\ Begin("request", "model", spec, TRUE) \/ Begin("request", "done", spec, TRUE)
    BY <1>1 DEF StartRequest, RefuseRequest, Start
  <2>2. /\ "request" \in Kind \ {"move"} /\ "model" \in Wait /\ "done" \in Wait
        /\ TRUE \in BOOLEAN
    BY DEF Kind, Wait
  <2> QED
    BY <2>1, <2>2, SerialStart
<1>2. CASE StartFlow
  <2> DEFINE goal == Over({Self})
  <2>1. /\ UNCHANGED <<journal, spec, table>> /\ Begin("flow", "replay", goal, TRUE)
        /\ Self \in Ops
    BY <1>2 DEF StartFlow, Start, Begin
  <2>2. /\ "flow" \in Kind \ {"move"} /\ "replay" \in Wait /\ "flow" \notin Passes
        /\ TRUE \in BOOLEAN
    BY DEF Kind, Wait, Passes
  <2>3. goal \in Plan
    BY <2>1 DEF Over, Plan, TypeOK
  <2> QED
    BY <2>1, <2>2, <2>3, SerialStart
<1>3. CASE StartGesture
  <2> DEFINE goal == Over(spec.steps \union {Self})
  <2>1. /\ UNCHANGED <<journal, spec, table>> /\ Begin("gesture", "replay", goal, FALSE)
        /\ Self \in Ops
    BY <1>3 DEF StartGesture, Start, Begin
  <2>2. /\ "gesture" \in Kind \ {"move"} /\ "replay" \in Wait /\ "gesture" \notin Passes
        /\ FALSE \in BOOLEAN
    BY DEF Kind, Wait, Passes
  <2>3. goal \in Plan
    BY <2>1 DEF Over, Plan, TypeOK
  <2> QED
    BY <2>1, <2>2, <2>3, SerialStart
<1>4. CASE StartPage \/ StartRetry \/ StartRunAll
  <2>1. Over(spec.steps) = spec
    BY OnTableIs DEF SInv, Here
  <2>2. PICK kind \in Passes, r \in BOOLEAN :
          Begin(kind, "replay", spec, r) /\ UNCHANGED <<journal, spec, table>>
    <3>1. CASE StartPage
      BY <2>1, <3>1 DEF StartPage, Passes
    <3>2. CASE StartRetry
      <4>1. (~streaming) \in BOOLEAN
        OBVIOUS
      <4> QED
        BY <2>1, <3>2, <4>1 DEF StartRetry, Passes
    <3>3. CASE StartRunAll
      BY <2>1, <3>3 DEF StartRunAll, Passes
    <3> QED
      BY <1>4, <3>1, <3>2, <3>3
  <2>3. kind \in Kind \ {"move"} /\ "replay" \in Wait
    BY DEF Kind, Wait, Passes
  <2> QED
    BY <2>2, <2>3, SerialStart
<1>5. CASE StartUndo
  BY <1>5, SerialUndo DEF Journal!Next
<1>6. CASE StartRedo
  BY <1>6, SerialRedo DEF Journal!Next
<1>7. ASSUME NEW index \in 0..Len(Timeline), StartJump(index)
      PROVE  SInv' /\ Journal!Next
  <2>1. SInv' /\ index - 1 \in -2..(MaxOps + 1) /\ Journal!JumpTo(index - 1)
    BY <1>7, SerialJump
  <2> QED
    BY <2>1 DEF Journal!Next
<1>8. CASE Load
  <2>1. SInv' /\ Journal!Clear(BoundFor') /\ BoundFor' \in Plan
    BY <1>8, SerialLoad DEF TypeOK
  <2> QED
    BY <2>1 DEF Journal!Next
<1>9. CASE Stop
  BY <1>9, SerialIdle DEF Stop
<1>10. ASSUME NEW o \in DOMAIN ops, CommitRequest(o) \/ LandFlow(o) \/ LandGesture(o)
       PROVE  SInv' /\ Journal!Next
  <2>1. SInv' /\ Journal!Record("step", BoundFor') /\ BoundFor' \in Plan
    BY <1>10, SerialRecord DEF TypeOK
  <2> QED
    BY <2>1 DEF Journal!Next
<1>11. ASSUME NEW o \in DOMAIN ops, Patch(o) \/ Confirm(o) \/ Reject(o) \/ RefillRunAll(o)
       PROVE  SInv' /\ UNCHANGED Journal!vars
  BY <1>11, SerialTurn
<1>12. ASSUME NEW o \in DOMAIN ops,
              Answer(o) \/ DropRequest(o) \/ DropFlow(o) \/ DropGesture(o) \/ DropPass(o)
       PROVE  SInv' /\ UNCHANGED Journal!vars
  <2>1. /\ InFlight(o) /\ ops[o].kind # "move" /\ Goto(o, "done")
        /\ UNCHANGED <<journal, table>> /\ spec' = spec
    BY <1>12 DEF Answer, DropRequest, DropFlow, DropGesture, DropPass, EndRequest, EndPass,
       At, InFlight
  <2> QED
    BY <2>1, SerialEnd
<1>13. ASSUME NEW o \in DOMAIN ops, LandMove(o) \/ LandPass(o)
       PROVE  SInv' /\ UNCHANGED Journal!vars
  <2>1. /\ InFlight(o) /\ ops[o].kind \in Passes \union {"move"} /\ Goto(o, "done")
        /\ UNCHANGED <<journal, table>> /\ spec' = ops[o].target
    BY <1>13 DEF LandMove, LandPass, EndPass, At, InFlight, Passes
  <2> QED
    BY <2>1, SerialEnd
<1>14. CASE CancelRunAll
  BY <1>14, SerialIdle DEF CancelRunAll
<1>15. CASE UNCHANGED vars
  BY <1>15, SerialIdle DEF vars
<1> QED
  BY <1>1, <1>2, <1>3, <1>4, <1>5, <1>6, <1>7, <1>8, <1>9, <1>10, <1>11, <1>12, <1>13,
     <1>14, <1>15 DEF Next

(* It opens as the journal opens.                                          *)
LEMMA SerialInit == Init => SInv /\ Journal!Init
<1> SUFFICES ASSUME Init PROVE SInv /\ Journal!Init
  OBVIOUS
<1>1. table = 1 /\ 1 \in 1..MaxTables
  BY SessionAssumption DEF Init
<1>2. spec \in OnTable(table) /\ spec \in Plan
  BY <1>1 DEF Init, Over, OnTable, Plan
<1>3. SInv
  BY <1>2 DEF Init, SInv, Alone, Waiting, Here
<1>4. BoundFor = spec
  BY BoundIs, BoundHere DEF Init
<1>5. Labelled(<<>>) = <<>>
  BY DEF Labelled
<1> QED
  BY <1>2, <1>3, <1>4, <1>5 DEF Init, Journal!Init

(* A session of one operation at a time keeps the promises of the journal: *)
(* every landed change is one record, and undo, redo, jumps and loads are  *)
(* takeUndo, takeRedo, jumpTo and clear, for any number of operations and  *)
(* tables and whatever the awaits of each operation bring.                 *)
THEOREM SerialSessionImplementsJournal ==
  ASSUME ~Overlap
  PROVE  Spec => ImplementsJournal
<1>1. TypeOK /\ TypeOK' /\ SInv /\ [Next]_vars => SInv' /\ [Journal!Next]_(Journal!vars)
  BY SerialStep
<1> QED
  BY <1>1, SerialInit, SessionTypeCorrect, PTL DEF Spec, ImplementsJournal, Journal!Spec
===============================================================================
