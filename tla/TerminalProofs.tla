--------------------------- MODULE TerminalProofs ---------------------------
(***************************************************************************)
(* The two halves of a session without a browser: the command line, its    *)
(* history and the right tables it holds (CliSession), and the SQL session *)
(* the engine queries through (SqlSession), for every source, every set of *)
(* steps, every number of turns, callers, evaluations and INSERT batches.  *)
(***************************************************************************)
EXTENDS CliSession, SqlSession, SequenceLemmas, SequenceTheorems, WellFoundedInduction, TLAPS

------------------------------------------------------------------------------
(* CliSession.  The committed turns make a chain (Chained) whose end is the *)
(* plan on screen (AtEnd), and the redo stack makes one that goes on from  *)
(* there (Redoable): its turns are undone, younger than every committed one *)
(* and in order.  A redo that throws breaks the second chain, so the three *)
(* are claimed until one does.                                             *)

From == [i \in DOMAIN journal |-> journal[i].prevSpec.steps]
To == [i \in DOMAIN journal |-> journal[i].newSpec.steps]

IsPlan(p) == p = [steps |-> p.steps, columns |-> p.columns] /\ p.steps \in Seq(Step)
IsTurn(t) ==
  /\ t = [prevSpec |-> t.prevSpec, newSpec |-> t.newSpec, status |-> t.status]
  /\ IsPlan(t.prevSpec) /\ IsPlan(t.newSpec)

Shapes ==
  /\ journal \in Seq(ToSet(journal)) /\ \A i \in DOMAIN journal : IsTurn(journal[i])
  /\ redoStack \in Seq(DOMAIN journal)
  /\ IsPlan(spec)

Chained ==
  \A i \in Committed :
    /\ (\A j \in Committed : i <= j) => From[i] = <<>>
    /\ \A j \in Committed :
         j < i /\ (\A k \in Committed : k <= j \/ i <= k) => From[i] = To[j]

AtEnd ==
  /\ Committed = {} => spec.steps = <<>>
  /\ \A i \in Committed : (\A j \in Committed : j <= i) => spec.steps = To[i]

Redoable ==
  /\ \A k \in DOMAIN redoStack :
       /\ \A i \in Committed : i < redoStack[k]
       /\ \A l \in DOMAIN redoStack : k < l => redoStack[l] < redoStack[k]
  /\ \A k, l \in DOMAIN redoStack : l = k + 1 => From[redoStack[k]] = To[redoStack[l]]
  /\ redoStack # <<>> => From[redoStack[Len(redoStack)]] = spec.steps

Told == ~redoLost => Chained /\ AtEnd /\ Redoable
Held == held \subseteq Joined /\ ToSet(spec.steps) \intersect Joined \subseteq held
CInv == Shapes /\ Told /\ Held

------------------------------------------------------------------------------
(* Sequences and greatest elements.                                        *)

(* A bounded set of numbers that is not empty has a greatest element.      *)
LEMMA MaxOf ==
  ASSUME NEW n \in Nat, NEW S \in SUBSET (1..n), S # {}
  PROVE  Max(S) \in S /\ \A y \in S : y <= Max(S)
<1> DEFINE gaps == {n - x : x \in S}
<1>0. \A x \in S : x \in Int /\ n - x \in Nat
  <2> SUFFICES ASSUME NEW x \in S PROVE x \in Int /\ n - x \in Nat
    OBVIOUS
  <2>1. x \in 1..n
    OBVIOUS
  <2> QED
    BY <2>1
<1>1. gaps \subseteq Nat /\ gaps # {}
  BY <1>0
<1>2. PICK g \in gaps : \A h \in gaps : ~(<<h, g>> \in OpToRel(<, Nat))
  BY <1>1, NatLessThanWellFounded, WFMin
<1>3. \A h \in gaps : ~(h < g)
  BY <1>1, <1>2 DEF OpToRel
<1>4. PICK x \in S : g = n - x
  OBVIOUS
<1>5. \A y \in S : x >= y
  <2> SUFFICES ASSUME NEW y \in S PROVE x >= y
    OBVIOUS
  <2>1. n - y \in gaps /\ x \in Int /\ y \in Int
    BY <1>0
  <2> QED
    BY <1>3, <1>4, <2>1
<1>6. Max(S) \in S /\ \A y \in S : Max(S) >= y
  BY <1>5 DEF Max
<1> QED
  BY <1>6

(* A sequence grows by one at its end, whatever the new element is.        *)
LEMMA AppendAny ==
  ASSUME NEW s, s \in Seq(ToSet(s)), NEW e
  PROVE  /\ Append(s, e) \in Seq(ToSet(Append(s, e)))
         /\ Len(Append(s, e)) = Len(s) + 1 /\ Len(s) \in Nat
         /\ DOMAIN Append(s, e) = 1..Len(s) + 1 /\ DOMAIN s = 1..Len(s)
         /\ \A i \in DOMAIN s : Append(s, e)[i] = s[i]
         /\ Append(s, e)[Len(s) + 1] = e
<1> DEFINE T == ToSet(s) \union {e}
           r == Append(s, e)
<1>1. s \in Seq(T)
  <2>1. \A i \in 1..Len(s) : s[i] \in T
    BY DEF ToSet
  <2> QED
    BY <2>1
<1>2. /\ r \in Seq(T) /\ Len(r) = Len(s) + 1
      /\ \A i \in 1..Len(s) : r[i] = s[i]
      /\ r[Len(s) + 1] = e
  BY <1>1, AppendProperties
<1> HIDE DEF r, T
<1>3. Len(s) \in Nat /\ DOMAIN s = 1..Len(s) /\ DOMAIN r = 1..Len(s) + 1
  BY <1>2
<1>4. r \in Seq(ToSet(r))
  <2>1. r = [i \in 1..Len(r) |-> r[i]] /\ Len(r) \in Nat /\ DOMAIN r = 1..Len(r)
    BY <1>2, <1>3
  <2>2. \A i \in 1..Len(r) : r[i] \in ToSet(r)
    BY <2>1 DEF ToSet
  <2> QED
    BY <2>1, <2>2, IsASeq
<1> QED
  BY <1>2, <1>3, <1>4 DEF r

(* The steps of a replay, the plan with one more, with one less, and all   *)
(* but the last are sequences of steps.                                    *)
LEMMA StepSequences ==
  ASSUME NEW s \in Seq(Step)
  PROVE  /\ \A e \in Step : Append(s, e) \in Seq(Step)
         /\ \A i \in DOMAIN s : RemoveAt(s, i) \in Seq(Step)
         /\ s # <<>> => Front(s) \in Seq(Step)
<1>1. Len(s) \in Nat /\ DOMAIN s = 1..Len(s) /\ \A i \in 1..Len(s) : s[i] \in Step
  OBVIOUS
<1>2. \A m, n \in Int : m >= 1 /\ n <= Len(s) => SubSeq(s, m, n) \in Seq(Step)
  <2> SUFFICES ASSUME NEW m \in Int, NEW n \in Int, m >= 1, n <= Len(s)
               PROVE  SubSeq(s, m, n) \in Seq(Step)
    OBVIOUS
  <2>1. \A i \in m..n : s[i] \in Step
    BY <1>1
  <2> QED
    BY <2>1, SubSeqProperties
<1>3. \A i \in DOMAIN s : RemoveAt(s, i) \in Seq(Step)
  <2> SUFFICES ASSUME NEW i \in DOMAIN s PROVE RemoveAt(s, i) \in Seq(Step)
    OBVIOUS
  <2>1. SubSeq(s, 1, i - 1) \in Seq(Step) /\ SubSeq(s, i + 1, Len(s)) \in Seq(Step)
    BY <1>1, <1>2
  <2> QED
    BY <2>1, ConcatProperties DEF RemoveAt
<1>4. s # <<>> => Front(s) \in Seq(Step)
  BY <1>1, <1>2 DEF Front
<1> QED
  BY <1>3, <1>4, AppendProperties

(* All but the last of a sequence.                                         *)
LEMMA FrontIs ==
  ASSUME NEW S, NEW s \in Seq(S), s # <<>>
  PROVE  /\ Front(s) \in Seq(S) /\ Len(Front(s)) = Len(s) - 1
         /\ DOMAIN Front(s) = 1..Len(s) - 1
         /\ \A k \in 1..Len(s) - 1 : Front(s)[k] = s[k]
<1> DEFINE f == SubSeq(s, 1, Len(s) - 1)
           m == Len(s) - 1
<1>1. Len(s) \in Nat \ {0} /\ \A i \in 1..Len(s) : s[i] \in S
  OBVIOUS
<1>2. m \in Nat /\ \A i \in 1..m : s[i] \in S
  BY <1>1
<1> HIDE DEF m
<1>3. /\ SubSeq(s, 1, m) \in Seq(S)
      /\ Len(SubSeq(s, 1, m)) = IF 1 <= m THEN m - 1 + 1 ELSE 0
      /\ \A i \in 1..m - 1 + 1 : SubSeq(s, 1, m)[i] = s[1 + i - 1]
  BY <1>2, SubSeqProperties
<1>4. f \in Seq(S) /\ Len(f) = m
  <2>1. f = SubSeq(s, 1, m)
    BY DEF m
  <2>2. (IF 1 <= m THEN m - 1 + 1 ELSE 0) = m
    BY <1>2
  <2> QED
    BY <1>3, <2>1, <2>2
<1>5. \A k \in 1..m : f[k] = s[k]
  <2> SUFFICES ASSUME NEW k \in 1..m PROVE f[k] = s[k]
    OBVIOUS
  <2>1. k \in 1..m - 1 + 1 /\ 1 + k - 1 = k
    BY <1>2
  <2> QED
    BY <1>3, <2>1 DEF m
<1> HIDE DEF f
<1>6. DOMAIN f = 1..m
  BY <1>4
<1> QED
  BY <1>4, <1>5, <1>6 DEF f, m, Front

------------------------------------------------------------------------------
(* The runner.                                                             *)

(* What a model may ask for is a plan.                                     *)
LEMMA PatchesArePlans == ASSUME IsPlan(spec), NEW plan \in Patches PROVE IsPlan(plan)
<1>1. \A c, s : s \in Seq(Step) => IsPlan([steps |-> s, columns |-> c])
  BY DEF IsPlan
<1> DEFINE added == {Append(spec.steps, s) : s \in Step \ ToSet(spec.steps)}
           removed == {RemoveAt(spec.steps, i) : i \in DOMAIN spec.steps}
<1>2. added \union removed \subseteq Seq(Step)
  BY StepSequences DEF IsPlan
<1>3. PICK s \in added \union removed, c \in {spec.columns, Reverse(spec.columns)} :
        plan = [steps |-> s, columns |-> c]
  BY DEF Patches
<1> QED
  BY <1>1, <1>2, <1>3

(* A plan with its columns in any other order is a plan of the same steps. *)
LEMMA ReorderedIsPlan ==
  ASSUME NEW p, IsPlan(p), NEW c
  PROVE  IsPlan([p EXCEPT !.columns = c]) /\ [p EXCEPT !.columns = c].steps = p.steps
BY DEF IsPlan

(* So is a snapshot in the order of the columns on screen.                 *)
LEMMA KeepingKeepsSteps ==
  ASSUME NEW p, IsPlan(p)
  PROVE  IsPlan(KeepingColumnOrder(p)) /\ KeepingColumnOrder(p).steps = p.steps
BY ReorderedIsPlan DEF KeepingColumnOrder

(* A replay that is not the whole plan leaves out a part whose tables are  *)
(* in memory: what the plan joins is held, opened now, or missing.         *)
LEMMA ReplayFinds ==
  ASSUME Held, IsPlan(spec), NEW steps \in Seq(Step)
  PROVE  /\ Opens(steps) \subseteq Joined
         /\ Missing(steps) = {} => ToSet(steps) \intersect Joined \subseteq held \union Opens(steps)
<1> DEFINE n == Len(spec.steps)
           rest == Replayed(steps)
<1>1. n \in Nat /\ Len(steps) \in Nat /\ DOMAIN steps = 1..Len(steps)
      /\ DOMAIN spec.steps = 1..n /\ \A i \in 1..Len(steps) : steps[i] \in Step
  BY DEF IsPlan
<1>2. CASE IsPrefix(spec.steps, steps)
  <2>1. n <= Len(steps) /\ SubSeq(spec.steps, 1, n) = SubSeq(steps, 1, n)
    BY <1>2 DEF IsPrefix
  <2>2. \A i \in 1..n : steps[i] = spec.steps[i]
    <3>1. \A i \in 1..n : spec.steps[i] \in Step /\ steps[i] \in Step
      BY <1>1, <2>1 DEF IsPlan
    <3>2. /\ \A i \in 1..n - 1 + 1 : SubSeq(spec.steps, 1, n)[i] = spec.steps[1 + i - 1]
          /\ \A i \in 1..n - 1 + 1 : SubSeq(steps, 1, n)[i] = steps[1 + i - 1]
      BY <1>1, <3>1, SubSeqProperties
    <3>3. SUFFICES ASSUME NEW i \in 1..n PROVE steps[i] = spec.steps[i]
      OBVIOUS
    <3>4. i \in 1..n - 1 + 1 /\ 1 + i - 1 = i
      BY <1>1
    <3> QED
      BY <2>1, <3>2, <3>4
  <2>3. rest = SubSeq(steps, n + 1, Len(steps))
    BY <1>2 DEF Replayed
  <2>4. /\ rest \in Seq(Step) /\ Len(rest) = Len(steps) - n
        /\ \A i \in 1..Len(steps) - n : rest[i] = steps[n + i]
    <3>1. \A i \in n + 1..Len(steps) : steps[i] \in Step
      BY <1>1
    <3> HIDE DEF rest, n
    <3>2. /\ rest \in Seq(Step)
          /\ Len(rest) = IF n + 1 <= Len(steps) THEN Len(steps) - (n + 1) + 1 ELSE 0
          /\ \A i \in 1..Len(steps) - (n + 1) + 1 : rest[i] = steps[n + 1 + i - 1]
      BY <1>1, <2>3, <3>1, SubSeqProperties
    <3>3. Len(rest) = Len(steps) - n
      <4>1. Len(steps) \in Nat /\ n \in Nat /\ n <= Len(steps)
        BY <1>1, <2>1
      <4>2. CASE n + 1 <= Len(steps)
        BY <3>2, <4>1, <4>2
      <4>3. CASE n = Len(steps)
        BY <3>2, <4>1, <4>3
      <4> QED
        BY <4>1, <4>2, <4>3
    <3>4. SUFFICES ASSUME NEW i \in 1..Len(steps) - n PROVE rest[i] = steps[n + i]
      BY <3>2, <3>3
    <3>5. i \in 1..Len(steps) - (n + 1) + 1 /\ n + 1 + i - 1 = n + i
      BY <1>1
    <3> QED
      BY <3>2, <3>5
  <2> HIDE DEF rest, n
  <2>5. \A i \in 1..Len(steps) : steps[i] \in Joined =>
          steps[i] \in held \/ \E k \in DOMAIN rest : rest[k] = steps[i]
    <3> SUFFICES ASSUME NEW i \in 1..Len(steps), steps[i] \in Joined
                 PROVE  steps[i] \in held \/ \E k \in DOMAIN rest : rest[k] = steps[i]
      OBVIOUS
    <3>1. CASE i <= n
      <4>1. i \in DOMAIN spec.steps /\ steps[i] = spec.steps[i]
        BY <1>1, <2>2, <3>1
      <4> QED
        BY <4>1 DEF Held, ToSet
    <3>2. CASE ~(i <= n)
      <4>1. i - n \in DOMAIN rest /\ i - n \in 1..Len(steps) - n /\ n + (i - n) = i
        BY <1>1, <2>1, <2>4, <3>2
      <4> QED
        BY <2>4, <4>1
    <3> QED
      BY <3>1, <3>2
  <2>6. ToSet(steps) \intersect Joined \subseteq held \union {rest[k] : k \in DOMAIN rest}
    BY <1>1, <2>5 DEF ToSet
  <2> QED
    BY <2>6 DEF Opens, Missing, Misses, rest
<1>3. CASE ~IsPrefix(spec.steps, steps)
  BY <1>1, <1>3 DEF Opens, Missing, Misses, Replayed, ToSet
<1> QED
  BY <1>2, <1>3

(* A commit leaves its plan on screen and its tables in memory.            *)
LEMMA CommitKeeps ==
  ASSUME Held, IsPlan(spec), NEW plan, IsPlan(plan), Commit(plan)
  PROVE  IsPlan(spec)' /\ spec'.steps = plan.steps /\ Held'
<1>1. IsPlan(spec)' /\ spec'.steps = plan.steps
  BY ReorderedIsPlan DEF Commit, IsPlan
<1>2. plan.steps \in Seq(Step)
  BY DEF IsPlan
<1>3. /\ Opens(plan.steps) \subseteq Joined
      /\ ToSet(plan.steps) \intersect Joined \subseteq held \union Opens(plan.steps)
  BY <1>2, ReplayFinds DEF Commit
<1> QED
  BY <1>1, <1>3 DEF Held, Commit

(* A replay that throws leaves the plan and only adds tables.              *)
LEMMA ThrowKeeps ==
  ASSUME Held, IsPlan(spec), NEW plan, IsPlan(plan), Throw(plan)
  PROVE  spec' = spec /\ Held'
<1>1. plan.steps \in Seq(Step)
  BY DEF IsPlan
<1>2. Opens(plan.steps) \subseteq Joined
  BY <1>1, ReplayFinds
<1> QED
  BY <1>2 DEF Held, Throw

------------------------------------------------------------------------------
(* The journal.                                                            *)

(* The committed turn that an undo takes is the youngest.                  *)
LEMMA LastCommitted ==
  ASSUME Shapes
  PROVE  /\ Len(journal) \in Nat /\ DOMAIN journal = 1..Len(journal)
         /\ Committed \subseteq 1..Len(journal)
         /\ Committed # {} =>
              FindLastCommittedIndex \in Committed
              /\ \A i \in Committed : i <= FindLastCommittedIndex
<1>1. Len(journal) \in Nat /\ DOMAIN journal = 1..Len(journal)
  BY DEF Shapes
<1>2. Committed \subseteq 1..Len(journal)
  BY <1>1 DEF Committed
<1>3. ASSUME Committed # {}
      PROVE  Max(Committed) \in Committed /\ \A i \in Committed : i <= Max(Committed)
  BY <1>1, <1>2, <1>3, MaxOf
<1> QED
  BY <1>1, <1>2, <1>3 DEF FindLastCommittedIndex

(* A mark changes the status of one turn and nothing else.                 *)
LEMMA MarkKeeps ==
  ASSUME Shapes, NEW n \in DOMAIN journal, NEW s, journal' = MarkedAs(n, s)
  PROVE  /\ journal' \in Seq(ToSet(journal')) /\ DOMAIN journal' = DOMAIN journal
         /\ \A i \in DOMAIN journal' : IsTurn(journal'[i])
         /\ From' = From /\ To' = To
         /\ s = "undone" => Committed' = Committed \ {n}
         /\ s = "committed" => Committed' = Committed \union {n}
<1>1. Len(journal) \in Nat /\ DOMAIN journal = 1..Len(journal)
  BY DEF Shapes
<1>2. journal' = [i \in DOMAIN journal |->
                    IF i = n THEN [journal[n] EXCEPT !.status = s] ELSE journal[i]]
  BY DEF MarkedAs
<1>3. DOMAIN journal' = 1..Len(journal)
  BY <1>1, <1>2
<1>4. journal' \in Seq(ToSet(journal'))
  <2>1. \A i \in 1..Len(journal) : journal'[i] \in ToSet(journal')
    BY <1>3 DEF ToSet
  <2>2. journal' = [i \in 1..Len(journal) |-> journal'[i]]
    BY <1>1, <1>2
  <2> QED
    BY <1>1, <2>1, <2>2, IsASeq
<1>5. [journal[n] EXCEPT !.status = s] =
        [prevSpec |-> journal[n].prevSpec, newSpec |-> journal[n].newSpec, status |-> s]
  BY DEF Shapes, IsTurn
<1>6. \A i \in DOMAIN journal :
        /\ journal'[i].prevSpec = journal[i].prevSpec
        /\ journal'[i].newSpec = journal[i].newSpec
        /\ journal'[i].status = IF i = n THEN s ELSE journal[i].status
        /\ journal'[i] = [prevSpec |-> journal'[i].prevSpec, newSpec |-> journal'[i].newSpec,
                          status |-> journal'[i].status]
  <2> SUFFICES ASSUME NEW i \in DOMAIN journal
               PROVE  /\ journal'[i].prevSpec = journal[i].prevSpec
                      /\ journal'[i].newSpec = journal[i].newSpec
                      /\ journal'[i].status = IF i = n THEN s ELSE journal[i].status
                      /\ journal'[i] = [prevSpec |-> journal'[i].prevSpec,
                                        newSpec |-> journal'[i].newSpec,
                                        status |-> journal'[i].status]
    OBVIOUS
  <2>1. CASE i = n
    BY <1>2, <1>5, <2>1
  <2>2. CASE i # n
    BY <1>2, <2>2 DEF Shapes, IsTurn
  <2> QED
    BY <2>1, <2>2
<1>7. \A i \in DOMAIN journal' : IsTurn(journal'[i])
  BY <1>1, <1>3, <1>6 DEF Shapes, IsTurn
<1>8. From' = From /\ To' = To
  BY <1>3, <1>1, <1>6 DEF From, To
<1>9. /\ s = "undone" => Committed' = Committed \ {n}
      /\ s = "committed" => Committed' = Committed \union {n}
  BY <1>1, <1>3, <1>6 DEF Committed
<1> QED
  BY <1>1, <1>3, <1>4, <1>7, <1>8, <1>9

------------------------------------------------------------------------------
(* The operations.                                                         *)

(* A turn younger than the committed ones that starts from the plan on     *)
(* screen and leaves the next one goes at the end of the chain.            *)
LEMMA ChainGrows ==
  ASSUME Chained, AtEnd, NEW n \in Nat, \A i \in Committed : i < n /\ i \in Nat,
         Committed' = Committed \union {n},
         \A i \in Committed : From'[i] = From[i] /\ To'[i] = To[i],
         From'[n] = spec.steps, To'[n] = spec'.steps
  PROVE  Chained' /\ AtEnd'
<1>1. Chained'
  <2> SUFFICES ASSUME NEW i \in Committed'
               PROVE  /\ (\A j \in Committed' : i <= j) => From'[i] = <<>>
                      /\ \A j \in Committed' :
                           j < i /\ (\A k \in Committed' : k <= j \/ i <= k) => From'[i] = To'[j]
    BY DEF Chained
  <2>1. CASE i \in Committed
    <3>1. (\A j \in Committed' : i <= j) => From'[i] = <<>>
      BY <2>1 DEF Chained
    <3>2. ASSUME NEW j \in Committed', j < i, \A k \in Committed' : k <= j \/ i <= k
          PROVE  From'[i] = To'[j]
      <4>1. j \in Committed
        BY <2>1, <3>2
      <4> QED
        BY <2>1, <3>2, <4>1 DEF Chained
    <3> QED
      BY <3>1, <3>2
  <2>2. CASE i = n
    <3>1. ASSUME \A j \in Committed' : i <= j PROVE From'[i] = <<>>
      <4>1. Committed = {}
        BY <2>2, <3>1
      <4> QED
        BY <2>2, <4>1 DEF AtEnd
    <3>2. ASSUME NEW j \in Committed', j < i, \A k \in Committed' : k <= j \/ i <= k
          PROVE  From'[i] = To'[j]
      <4>1. j \in Committed
        BY <2>2, <3>2
      <4>2. \A k \in Committed : k <= j
        BY <2>2, <3>2
      <4> QED
        BY <2>2, <4>1, <4>2 DEF AtEnd
    <3> QED
      BY <3>1, <3>2
  <2> QED
    BY <2>1, <2>2
<1>2. AtEnd'
  <2>1. ASSUME NEW i \in Committed', \A j \in Committed' : j <= i PROVE spec'.steps = To'[i]
    <3>1. i = n
      BY <2>1
    <3> QED
      BY <3>1
  <2> QED
    BY <2>1 DEF AtEnd
<1> QED
  BY <1>1, <1>2

(* A request ends the redo chain and adds its turn to that of the history. *)
LEMMA RequestKeeps ==
  ASSUME CInv, NEW plan \in Patches, Request(plan)
  PROVE  CInv'
<1> DEFINE n == Len(journal) + 1
           turn == [prevSpec |-> spec, newSpec |-> spec', status |-> "committed"]
<1>1. IsPlan(spec) /\ IsPlan(plan) /\ Held
  BY PatchesArePlans DEF CInv, Shapes
<1>2. IsPlan(spec)' /\ Held'
  BY <1>1, CommitKeeps DEF Request
<1>3. journal' = Append(journal, turn) /\ redoStack' = <<>> /\ redoLost' = redoLost
  BY DEF Request
<1>4. /\ journal' \in Seq(ToSet(journal')) /\ Len(journal) \in Nat
      /\ DOMAIN journal' = 1..n /\ DOMAIN journal = 1..Len(journal)
      /\ \A i \in DOMAIN journal : journal'[i] = journal[i]
      /\ journal'[n] = turn
  BY <1>3, AppendAny DEF CInv, Shapes
<1>5. IsTurn(turn)
  BY <1>1, <1>2 DEF IsTurn, IsPlan
<1>6. Shapes'
  <2>1. \A i \in DOMAIN journal' : IsTurn(journal'[i])
    BY <1>4, <1>5 DEF CInv, Shapes
  <2>2. redoStack' \in Seq(DOMAIN journal')
    BY <1>3
  <2> QED
    BY <1>2, <1>4, <2>1, <2>2 DEF Shapes
<1>7. /\ Committed' = Committed \union {n} /\ Committed \subseteq 1..Len(journal)
      /\ \A i \in Committed : From'[i] = From[i] /\ To'[i] = To[i]
      /\ From'[n] = spec.steps /\ To'[n] = spec'.steps
  <2> HIDE DEF n
  <2>1. n \in 1..n /\ n \notin 1..Len(journal) /\ 1..n = 1..Len(journal) \union {n}
    BY <1>4 DEF n
  <2>2. Committed \subseteq 1..Len(journal) /\ Committed' = Committed \union {n}
    BY <1>4, <2>1 DEF Committed, turn
  <2>3. From'[n] = spec.steps /\ To'[n] = spec'.steps
    BY <1>4, <2>1 DEF From, To, turn
  <2>4. \A i \in Committed : From'[i] = From[i] /\ To'[i] = To[i]
    BY <1>4, <2>1, <2>2 DEF From, To
  <2> QED
    BY <2>2, <2>3, <2>4
<1>8. ASSUME ~redoLost PROVE Chained' /\ AtEnd' /\ Redoable'
  <2>1. Chained /\ AtEnd
    BY <1>8 DEF CInv, Told
  <2> HIDE DEF turn, n
  <2>2. \A i \in Committed : i < n /\ i \in Nat
    BY <1>4, <1>7 DEF n
  <2>3. n \in Nat
    BY <1>4 DEF n
  <2>4. Chained' /\ AtEnd'
    BY <1>7, <2>1, <2>2, <2>3, ChainGrows
  <2>5. Redoable'
    BY <1>3 DEF Redoable
  <2> QED
    BY <2>4, <2>5
<1>9. Told'
  BY <1>3, <1>8 DEF Told
<1> QED
  BY <1>2, <1>6, <1>9 DEF CInv

(* An undo takes the youngest committed turn off one chain and puts it on  *)
(* the other.                                                              *)
LEMMA UndoKeeps ==
  ASSUME CInv, Undo
  PROVE  CInv'
<1> DEFINE n == FindLastCommittedIndex
<1>1. /\ Shapes /\ Held /\ Committed # {} /\ n \in Committed
      /\ \A i \in Committed : i <= n
      /\ Len(journal) \in Nat /\ DOMAIN journal = 1..Len(journal) /\ Committed \subseteq 1..Len(journal)
  BY LastCommitted DEF CInv, Undo
<1> HIDE DEF n
<1>2. IsPlan(journal[n].prevSpec) /\ IsPlan(spec)
  BY <1>1 DEF Shapes, IsTurn
<1>3. IsPlan(KeepingColumnOrder(journal[n].prevSpec))
      /\ KeepingColumnOrder(journal[n].prevSpec).steps = From[n]
  BY <1>1, <1>2, KeepingKeepsSteps DEF From
<1>4. IsPlan(spec)' /\ Held' /\ spec'.steps = From[n]
  BY <1>1, <1>2, <1>3, CommitKeeps DEF Undo, n
<1>5. /\ journal' = MarkedAs(n, "undone")
      /\ redoStack' = Append(redoStack, n) /\ redoLost' = redoLost
  BY DEF Undo, n
<1>6. /\ journal' \in Seq(ToSet(journal')) /\ DOMAIN journal' = DOMAIN journal
      /\ \A i \in DOMAIN journal' : IsTurn(journal'[i])
      /\ From' = From /\ To' = To
      /\ Committed' = Committed \ {n}
  BY <1>1, <1>5, MarkKeeps
<1>7. /\ redoStack \in Seq(DOMAIN journal) /\ n \in DOMAIN journal
      /\ redoStack' \in Seq(DOMAIN journal)
      /\ Len(redoStack) \in Nat /\ Len(redoStack') = Len(redoStack) + 1
      /\ \A k \in 1..Len(redoStack) : redoStack'[k] = redoStack[k]
      /\ redoStack'[Len(redoStack) + 1] = n
  BY <1>1, <1>5, AppendProperties DEF Shapes
<1>8. Shapes'
  BY <1>4, <1>6, <1>7 DEF Shapes
<1>9. ASSUME ~redoLost PROVE Chained' /\ AtEnd' /\ Redoable'
  <2>1. Chained /\ AtEnd /\ Redoable
    BY <1>9 DEF CInv, Told
  <2>2. \A i \in Committed : i \in DOMAIN journal /\ i \in Nat
    BY <1>1
  <2>3. Chained'
    <3> SUFFICES ASSUME NEW i \in Committed'
                 PROVE  /\ (\A j \in Committed' : i <= j) => From'[i] = <<>>
                        /\ \A j \in Committed' :
                             j < i /\ (\A k \in Committed' : k <= j \/ i <= k) => From'[i] = To'[j]
      BY DEF Chained
    <3>1. i \in Committed /\ i <= n
      BY <1>1, <1>6
    <3>2. ASSUME \A j \in Committed' : i <= j PROVE From'[i] = <<>>
      BY <1>6, <2>1, <2>2, <3>1, <3>2 DEF Chained
    <3>3. ASSUME NEW j \in Committed', j < i, \A k \in Committed' : k <= j \/ i <= k
          PROVE  From'[i] = To'[j]
      <4>1. \A k \in Committed : k <= j \/ i <= k
        BY <1>6, <3>1, <3>3
      <4> QED
        BY <1>6, <2>1, <2>2, <3>1, <3>3, <4>1 DEF Chained
    <3> QED
      BY <3>2, <3>3
  <2>4. AtEnd'
    <3>1. ASSUME Committed' = {} PROVE spec'.steps = <<>>
      <4>1. \A j \in Committed : n <= j
        BY <1>1, <1>6, <2>2, <3>1
      <4> QED
        BY <1>1, <1>4, <2>1, <4>1 DEF Chained
    <3>2. ASSUME NEW i \in Committed', \A j \in Committed' : j <= i PROVE spec'.steps = To'[i]
      <4>1. i \in Committed /\ i < n
        BY <1>1, <1>6, <2>2
      <4>2. \A k \in Committed : k <= i \/ n <= k
        BY <1>1, <1>6, <2>2, <3>2
      <4>3. From[n] = To[i]
        BY <1>1, <2>1, <4>1, <4>2 DEF Chained
      <4> QED
        BY <1>4, <1>6, <2>2, <4>1, <4>3
    <3> QED
      BY <3>1, <3>2 DEF AtEnd
  <2>5. Redoable'
    <3> DEFINE top == Len(redoStack) + 1
    <3>1. DOMAIN redoStack' = 1..top /\ DOMAIN redoStack = 1..Len(redoStack)
      BY <1>7
    <3>2. \A k \in 1..Len(redoStack) : redoStack[k] \in 1..Len(journal) /\ n < redoStack[k]
      <4> SUFFICES ASSUME NEW k \in 1..Len(redoStack)
                   PROVE  redoStack[k] \in 1..Len(journal) /\ n < redoStack[k]
        OBVIOUS
      <4>1. redoStack[k] \in DOMAIN journal /\ k \in DOMAIN redoStack
        BY <1>7, <3>1
      <4> QED
        BY <1>1, <2>1, <4>1 DEF Redoable
    <3>3. \A k \in 1..top : redoStack'[k] \in 1..Len(journal) /\ n <= redoStack'[k]
      <4> SUFFICES ASSUME NEW k \in 1..top
                   PROVE  redoStack'[k] \in 1..Len(journal) /\ n <= redoStack'[k]
        OBVIOUS
      <4>1. CASE k = top
        BY <1>1, <1>7, <4>1
      <4>2. CASE k # top
        <5>1. k \in 1..Len(redoStack) /\ redoStack'[k] = redoStack[k]
          BY <1>7, <4>2
        <5>2. redoStack[k] \in 1..Len(journal) /\ n < redoStack[k]
          BY <3>2, <5>1
        <5> HIDE DEF top
        <5>3. n \in Int /\ redoStack[k] \in Int
          BY <1>1, <5>2
        <5> QED
          BY <5>1, <5>2, <5>3
      <4> QED
        BY <4>1, <4>2
    <3>4. ASSUME NEW k \in DOMAIN redoStack', NEW i \in Committed' PROVE i < redoStack'[k]
      <4>1. i \in Nat /\ i <= n /\ i # n /\ n \in Nat
        BY <1>1, <1>6, <2>2
      <4>2. redoStack'[k] \in Nat /\ n <= redoStack'[k]
        BY <1>1, <3>1, <3>3, <3>4
      <4> QED
        BY <4>1, <4>2
    <3>5. ASSUME NEW k \in DOMAIN redoStack', NEW l \in DOMAIN redoStack', k < l
          PROVE  redoStack'[l] < redoStack'[k]
      <4>1. k \in 1..Len(redoStack)
        BY <1>7, <3>1, <3>5
      <4>2. CASE l = top
        BY <1>7, <3>2, <4>1, <4>2
      <4>3. CASE l # top
        <5>1. l \in 1..Len(redoStack)
          BY <1>7, <3>1, <4>3
        <5> QED
          BY <1>7, <2>1, <3>1, <3>5, <4>1, <5>1 DEF Redoable
      <4> QED
        BY <4>2, <4>3
    <3>6. ASSUME NEW k \in DOMAIN redoStack', NEW l \in DOMAIN redoStack', l = k + 1
          PROVE  From'[redoStack'[k]] = To'[redoStack'[l]]
      <4>1. k \in 1..Len(redoStack) /\ redoStack[k] \in DOMAIN journal
            /\ redoStack'[k] = redoStack[k]
        BY <1>7, <3>1, <3>6
      <4>2. CASE l = top
        <5>1. k = Len(redoStack) /\ redoStack # <<>> /\ redoStack'[l] = n
          BY <1>7, <3>6, <4>1, <4>2
        <5>2. From[redoStack[k]] = spec.steps
          BY <2>1, <5>1 DEF Redoable
        <5>3. spec.steps = To[n]
          BY <1>1, <2>1 DEF AtEnd
        <5> QED
          BY <1>1, <1>6, <1>7, <4>1, <5>1, <5>2, <5>3
      <4>3. CASE l # top
        <5>1. l \in 1..Len(redoStack) /\ redoStack[l] \in DOMAIN journal
              /\ redoStack'[l] = redoStack[l]
          BY <1>7, <3>1, <4>3
        <5>2. From[redoStack[k]] = To[redoStack[l]]
          BY <2>1, <3>1, <3>6, <4>1, <5>1 DEF Redoable
        <5> QED
          BY <1>6, <4>1, <5>1, <5>2
      <4> QED
        BY <4>2, <4>3
    <3>7. From'[redoStack'[Len(redoStack')]] = spec'.steps
      BY <1>4, <1>6, <1>7
    <3> QED
      BY <3>4, <3>5, <3>6, <3>7 DEF Redoable
  <2> QED
    BY <2>3, <2>4, <2>5
<1>10. Told'
  BY <1>5, <1>9 DEF Told
<1> QED
  BY <1>4, <1>8, <1>10 DEF CInv

(* A redo takes the turn back: it is younger than every committed one, and *)
(* it starts from the plan on screen.                                      *)
LEMMA RedoKeeps ==
  ASSUME CInv, Redo
  PROVE  CInv'
<1> DEFINE top == Len(redoStack)
           r == redoStack[top]
<1>1. /\ Shapes /\ Held /\ redoStack # <<>> /\ redoStack \in Seq(DOMAIN journal)
      /\ Last(redoStack) = r
  BY DEF CInv, Shapes, Redo, Last
<1>2. /\ top \in Nat \ {0} /\ DOMAIN redoStack = 1..top /\ r \in DOMAIN journal
      /\ Len(journal) \in Nat /\ DOMAIN journal = 1..Len(journal) /\ Committed \subseteq 1..Len(journal)
  BY <1>1, LastCommitted
<1> HIDE DEF r
<1>3. IsPlan(journal[r].newSpec) /\ IsPlan(spec)
  BY <1>1, <1>2 DEF Shapes, IsTurn
<1>4. IsPlan(KeepingColumnOrder(journal[r].newSpec))
      /\ KeepingColumnOrder(journal[r].newSpec).steps = To[r]
  BY <1>2, <1>3, KeepingKeepsSteps DEF To
<1>5. IsPlan(spec)' /\ Held' /\ spec'.steps = To[r]
  BY <1>1, <1>3, <1>4, CommitKeeps DEF Redo
<1>6. /\ journal' = MarkedAs(r, "committed")
      /\ redoStack' = Front(redoStack) /\ redoLost' = redoLost
  BY <1>1 DEF Redo
<1>7. /\ journal' \in Seq(ToSet(journal')) /\ DOMAIN journal' = DOMAIN journal
      /\ \A i \in DOMAIN journal' : IsTurn(journal'[i])
      /\ From' = From /\ To' = To
      /\ Committed' = Committed \union {r}
  BY <1>1, <1>2, <1>6, MarkKeeps
<1>8. /\ redoStack' \in Seq(DOMAIN journal) /\ Len(redoStack') = top - 1
      /\ DOMAIN redoStack' = 1..top - 1
      /\ \A k \in 1..top - 1 : redoStack'[k] = redoStack[k]
  BY <1>1, <1>2, <1>6, FrontIs
<1>9. Shapes'
  BY <1>5, <1>7, <1>8 DEF Shapes
<1>10. ASSUME ~redoLost PROVE Chained' /\ AtEnd' /\ Redoable'
  <2> HIDE DEF top
  <2>1. Chained /\ AtEnd /\ Redoable
    BY <1>10 DEF CInv, Told
  <2>2. top \in DOMAIN redoStack /\ r = redoStack[top] /\ r \in Nat
    BY <1>2 DEF r
  <2>3. \A i \in Committed : i < r /\ i \in Nat
    BY <1>2, <2>1, <2>2 DEF Redoable
  <2>4. From[r] = spec.steps
    BY <1>1, <2>1, <2>2 DEF Redoable, top
  <2>5. Chained' /\ AtEnd'
    BY <1>5, <1>7, <2>1, <2>2, <2>3, <2>4, ChainGrows
  <2>6. Redoable'
    <3>1. \A k \in 1..top - 1 : k \in DOMAIN redoStack /\ k < top
      BY <1>2
    <3>2. ASSUME NEW k \in DOMAIN redoStack', NEW i \in Committed' PROVE i < redoStack'[k]
      <4>1. k \in DOMAIN redoStack /\ k < top /\ redoStack'[k] = redoStack[k]
        BY <1>8, <3>1
      <4>2. r < redoStack[k]
        BY <2>1, <2>2, <4>1 DEF Redoable
      <4>3. \A j \in Committed : j < redoStack[k]
        BY <2>1, <4>1 DEF Redoable
      <4> QED
        BY <1>7, <4>1, <4>2, <4>3
    <3>3. ASSUME NEW k \in DOMAIN redoStack', NEW l \in DOMAIN redoStack'
          PROVE  /\ k < l => redoStack'[l] < redoStack'[k]
                 /\ l = k + 1 => From'[redoStack'[k]] = To'[redoStack'[l]]
      <4>1. /\ k \in DOMAIN redoStack /\ redoStack'[k] = redoStack[k]
            /\ l \in DOMAIN redoStack /\ redoStack'[l] = redoStack[l]
        BY <1>8, <3>1
      <4> QED
        BY <1>7, <2>1, <4>1 DEF Redoable
    <3>4. ASSUME redoStack' # <<>> PROVE From'[redoStack'[Len(redoStack')]] = spec'.steps
      <4>1. top - 1 \in 1..top - 1 /\ top = (top - 1) + 1
        BY <1>2, <1>8, <3>4
      <4>2. From[redoStack[top - 1]] = To[redoStack[top]]
        BY <2>1, <2>2, <3>1, <4>1 DEF Redoable
      <4> QED
        BY <1>5, <1>7, <1>8, <2>2, <4>1, <4>2
    <3> QED
      BY <3>2, <3>3, <3>4 DEF Redoable
  <2> QED
    BY <2>5, <2>6
<1>11. Told'
  BY <1>6, <1>10 DEF Told
<1> QED
  BY <1>5, <1>9, <1>11 DEF CInv

(* A replay that throws changes neither the plan nor the turns; if it was  *)
(* a redo's, the redo stack is no longer the chain it was.                 *)
LEMMA FailureKeeps ==
  ASSUME CInv, NEW plan, IsPlan(plan), Throw(plan), journal' = journal,
         \/ redoStack' = redoStack /\ redoLost' = redoLost
         \/ redoStack' = Front(redoStack) /\ redoStack # <<>> /\ redoLost' = TRUE
  PROVE  CInv'
<1>1. spec' = spec /\ Held'
  BY ThrowKeeps DEF CInv, Shapes
<1>2. redoStack' \in Seq(DOMAIN journal)
  BY FrontIs DEF CInv, Shapes
<1>3. Shapes'
  BY <1>1, <1>2 DEF CInv, Shapes
<1>4. Told'
  <2>1. CASE redoStack' = redoStack /\ redoLost' = redoLost
    BY <1>1, <2>1 DEF CInv, Told, Chained, AtEnd, Redoable, Committed, From, To
  <2>2. CASE redoLost' = TRUE
    BY <2>2 DEF Told
  <2> QED
    BY <2>1, <2>2
<1> QED
  BY <1>1, <1>3, <1>4 DEF CInv

(* The plans that are replayed are plans.                                  *)
LEMMA SnapshotsArePlans ==
  ASSUME CInv
  PROVE  /\ Committed # {} => IsPlan(KeepingColumnOrder(journal[FindLastCommittedIndex].prevSpec))
         /\ redoStack # <<>> => IsPlan(KeepingColumnOrder(journal[Last(redoStack)].newSpec))
<1>1. Committed # {} => FindLastCommittedIndex \in DOMAIN journal
  BY LastCommitted DEF CInv
<1>2. redoStack # <<>> => Last(redoStack) \in DOMAIN journal
  BY DEF CInv, Shapes, Last
<1> QED
  BY <1>1, <1>2, KeepingKeepsSteps DEF CInv, Shapes, IsTurn

(* The plan stays as it is but for the order of its columns, or the        *)
(* fall-back of undo runs: with no committed turn there is nothing to take *)
(* off the plan, unless a redo has thrown.                                 *)
LEMMA PlanOnlyKeeps ==
  ASSUME CInv, NEW plan, IsPlan(plan), Commit(plan),
         plan.steps = spec.steps \/ redoLost \/ (Committed = {} /\ spec.steps # <<>>),
         UNCHANGED <<journal, redoStack, redoLost>>
  PROVE  CInv'
<1>1. IsPlan(spec)' /\ spec'.steps = plan.steps /\ Held'
  BY CommitKeeps DEF CInv, Shapes
<1>2. Shapes'
  BY <1>1 DEF CInv, Shapes
<1>3. ~redoLost => plan.steps = spec.steps
  BY DEF CInv, Told, AtEnd
<1>4. Told'
  BY <1>1, <1>3 DEF CInv, Told, Chained, AtEnd, Redoable, Committed, From, To
<1> QED
  BY <1>1, <1>2, <1>4 DEF CInv

(* Where the lookup files are makes no difference to it.                   *)
LEMMA DiskAside ==
  ASSUME CInv, UNCHANGED <<journal, redoStack, spec, held, redoLost>>
  PROVE  CInv'
<1>1. Shapes' /\ Held'
  BY DEF CInv, Shapes, Held
<1>2. Committed' = Committed /\ From' = From /\ To' = To
  BY DEF Committed, From, To
<1>3. Chained' = Chained
  BY <1>2 DEF Chained
<1>4. AtEnd' = AtEnd
  BY <1>2 DEF AtEnd
<1>5. Redoable' = Redoable
  BY <1>2 DEF Redoable
<1> QED
  BY <1>1, <1>3, <1>4, <1>5 DEF CInv, Told

(* A session that has just started, or just loaded a source, satisfies all *)
(* of it.                                                                  *)
LEMMA LoadedHolds ==
  /\ Init => CInv
  /\ Load => CInv'
<1>1. IsPlan(Loaded) /\ Loaded.steps = <<>>
  BY DEF IsPlan, Loaded
<1>2. ToSet(<<>>) = {}
  BY DEF ToSet
<1>3. DOMAIN <<>> = {} /\ \A T : <<>> \in Seq(T)
  OBVIOUS
<1>4. Init => CInv
  BY <1>1, <1>2, <1>3 DEF Init, CInv, Shapes, Told, Chained, AtEnd, Redoable, Held, Committed
<1>5. Load => CInv'
  BY <1>1, <1>2, <1>3 DEF Load, CInv, Shapes, Told, Chained, AtEnd, Redoable, Held, Committed
<1> QED
  BY <1>4, <1>5

(* The chains, the shapes and the tables in memory hold in every reachable *)
(* state of the session.                                                   *)
THEOREM ChainsHold == Spec => []CInv
<1>1. ASSUME CInv, [Next]_vars PROVE CInv'
  <2>1. ASSUME Load PROVE CInv'
    BY <2>1, LoadedHolds
  <2>2. ASSUME Undo PROVE CInv'
    BY <1>1, <2>2, UndoKeeps
  <2>3. ASSUME UndoFails PROVE CInv'
    BY <1>1, <2>3, SnapshotsArePlans, FailureKeeps DEF UndoFails
  <2>4. ASSUME UndoStep PROVE CInv'
    <3> DEFINE plan == [spec EXCEPT !.steps = Front(@)]
    <3>1. IsPlan(spec) /\ spec.steps # <<>> /\ Committed = {}
      BY <1>1, <2>4 DEF CInv, Shapes, UndoStep
    <3>2. IsPlan(plan)
      BY <3>1, StepSequences DEF IsPlan
    <3> QED
      BY <1>1, <2>4, <3>1, <3>2, PlanOnlyKeeps DEF UndoStep
  <2>5. ASSUME Redo PROVE CInv'
    BY <1>1, <2>5, RedoKeeps
  <2>6. ASSUME RedoFails PROVE CInv'
    BY <1>1, <2>6, SnapshotsArePlans, FailureKeeps DEF RedoFails
  <2>7. ASSUME NEW plan \in Patches, Request(plan) PROVE CInv'
    BY <1>1, <2>7, RequestKeeps
  <2>8. ASSUME NEW plan \in Patches, RequestFails(plan) PROVE CInv'
    <3>1. IsPlan(plan)
      BY <1>1, PatchesArePlans DEF CInv, Shapes
    <3> QED
      BY <1>1, <2>8, <3>1, FailureKeeps DEF RequestFails
  <2>9. ASSUME NEW wanted, ReorderCmd(wanted) PROVE CInv'
    <3> DEFINE plan == [spec EXCEPT !.columns =
                          wanted \o Without(@, ToSet(wanted))]
    <3>1. IsPlan(plan) /\ plan.steps = spec.steps
      BY <1>1, ReorderedIsPlan DEF CInv, Shapes
    <3> QED
      BY <1>1, <2>9, <3>1, PlanOnlyKeeps DEF ReorderCmd
  <2>10. ASSUME NEW join \in Joined, FileMoves(join) PROVE CInv'
    BY <1>1, <2>10, DiskAside DEF FileMoves
  <2>11. CASE UNCHANGED vars
    BY <1>1, <2>11, DiskAside DEF vars
  <2> QED
    BY <1>1, <2>1, <2>2, <2>3, <2>4, <2>5, <2>6, <2>7, <2>8, <2>9, <2>10, <2>11 DEF Next
<1> QED
  BY <1>1, LoadedHolds, PTL DEF Spec

(* :history names the turn whose plan is on screen, whatever requests,     *)
(* undos, redos, reorders and failures came before; what :redo would       *)
(* replay starts from that plan.                                           *)
THEOREM HistoryAlwaysTellsPlan == Spec => []HistoryTellsPlan
<1>1. CInv => HistoryTellsPlan
  <2> SUFFICES ASSUME CInv, ~redoLost PROVE HistoryTellsPlan
    BY DEF HistoryTellsPlan
  <2>1. Shapes /\ Chained /\ AtEnd /\ Redoable
    BY DEF CInv, Told
  <2>2. Committed # {} =>
          /\ FindLastCommittedIndex \in DOMAIN journal
          /\ spec.steps = To[FindLastCommittedIndex]
    BY <2>1, LastCommitted DEF AtEnd
  <2>3. redoStack # <<>> =>
          /\ redoStack[Len(redoStack)] \in DOMAIN journal
          /\ From[redoStack[Len(redoStack)]] = spec.steps
    BY <2>1 DEF Shapes, Redoable
  <2> QED
    BY <2>1, <2>2, <2>3 DEF HistoryTellsPlan, AtEnd, From, To, Last
<1> QED
  BY <1>1, ChainsHold, PTL

(* Every join of the plan on screen is in memory, wherever its file has    *)
(* gone since it was read.                                                 *)
THEOREM PlanAlwaysHeld == Spec => []PlanIsHeld
<1>1. CInv => PlanIsHeld
  BY DEF CInv, Held, PlanIsHeld
<1> QED
  BY <1>1, ChainsHold, PTL

------------------------------------------------------------------------------
(* The order of the columns.  The plan on screen and the snapshots of the  *)
(* journal list the columns of the rows their own steps leave.             *)
Shows(p) == p.columns \in Seq(Columns) /\ ToSet(p.columns) = ToSet(RowKeys(p.steps))
Ordered ==
  /\ Shows(spec)
  /\ \A i \in DOMAIN journal : Shows(journal[i].prevSpec) /\ Shows(journal[i].newSpec)

LEMMA ConcatHas ==
  ASSUME NEW T, NEW s \in Seq(T), NEW t \in Seq(T)
  PROVE  s \o t \in Seq(T) /\ ToSet(s \o t) = ToSet(s) \union ToSet(t)
<1>1. PICK m \in Nat, n \in Nat : m = Len(s) /\ n = Len(t) /\ DOMAIN s = 1..m /\ DOMAIN t = 1..n
  OBVIOUS
<1>2. /\ s \o t \in Seq(T) /\ DOMAIN (s \o t) = 1..m + n
      /\ \A i \in 1..m + n : (s \o t)[i] = IF i <= m THEN s[i] ELSE t[i - m]
  BY <1>1
<1> DEFINE u == s \o t
<1> HIDE DEF u
<1>3. u \in Seq(T) /\ DOMAIN u = 1..m + n
      /\ \A i \in 1..m + n : u[i] = IF i <= m THEN s[i] ELSE t[i - m]
  BY <1>2 DEF u
<1>4. ASSUME NEW i \in DOMAIN u PROVE u[i] \in ToSet(s) \union ToSet(t)
  <2>1. i <= m \/ i - m \in 1..n
    BY <1>1, <1>3
  <2>2. CASE i <= m
    <3>1. i \in DOMAIN s /\ u[i] = s[i]
      BY <1>1, <1>3, <2>2
    <3> QED
      BY <3>1 DEF ToSet
  <2>3. CASE ~(i <= m)
    <3>1. i - m \in DOMAIN t /\ u[i] = t[i - m]
      BY <1>1, <1>3, <2>1, <2>3
    <3> QED
      BY <3>1 DEF ToSet
  <2> QED
    BY <2>2, <2>3
<1>5. ASSUME NEW i \in DOMAIN s PROVE s[i] \in ToSet(u)
  <2>1. i \in DOMAIN u /\ i <= m
    BY <1>1, <1>3
  <2> QED
    BY <1>3, <2>1 DEF ToSet
<1>6. ASSUME NEW i \in DOMAIN t PROVE t[i] \in ToSet(u)
  <2>1. m + i \in DOMAIN u /\ ~(m + i <= m) /\ m + i - m = i
    BY <1>1, <1>3
  <2>2. u[m + i] = t[i]
    BY <1>3, <2>1
  <2> QED
    BY <2>1, <2>2 DEF ToSet
<1>7. ToSet(u) = ToSet(s) \union ToSet(t)
  BY <1>4, <1>5, <1>6 DEF ToSet
<1> QED
  BY <1>3, <1>7 DEF u

LEMMA RowKeysAre == ASSUME NEW steps \in Seq(Step) PROVE RowKeys(steps) \in Seq(Columns)
<1> DEFINE source == [i \in 1..Width |-> i]
<1>1. source \in Seq(Columns)
  BY CliAssumption DEF Columns
<1>2. steps \in Seq(Columns)
  BY DEF Columns
<1> HIDE DEF source
<1>3. Without(source, ToSet(steps)) \in Seq(Columns) /\ Without(steps, 1..Width) \in Seq(Columns)
  BY <1>1, <1>2, WithoutIs
<1>4. RowKeys(steps) = Without(source, ToSet(steps)) \o Without(steps, 1..Width)
  BY DEF RowKeys, source
<1> QED
  BY <1>3, <1>4, ConcatHas

\* The plan that is synced lists the columns of its rows.
LEMMA SyncedShows ==
  ASSUME NEW columns \in Seq(Columns), NEW steps \in Seq(Step)
  PROVE  /\ SyncColumnsToRows(columns, steps) \in Seq(Columns)
         /\ ToSet(SyncColumnsToRows(columns, steps)) = ToSet(RowKeys(steps))
<1> DEFINE keys == RowKeys(steps)
<1>1. keys \in Seq(Columns)
  BY RowKeysAre
<1>2. SyncColumnsToRows(columns, steps) = Only(columns, ToSet(keys)) \o Without(keys, ToSet(columns))
  BY DEF SyncColumnsToRows
<1> HIDE DEF keys
<1>3. /\ Only(columns, ToSet(keys)) \in Seq(Columns)
      /\ ToSet(Only(columns, ToSet(keys))) = ToSet(columns) \intersect ToSet(keys)
  BY OnlyIs
<1>4. /\ Without(keys, ToSet(columns)) \in Seq(Columns)
      /\ ToSet(Without(keys, ToSet(columns))) = ToSet(keys) \ ToSet(columns)
  BY <1>1, WithoutIs
<1>5. /\ SyncColumnsToRows(columns, steps) \in Seq(Columns)
      /\ ToSet(SyncColumnsToRows(columns, steps)) =
           (ToSet(columns) \intersect ToSet(keys)) \union (ToSet(keys) \ ToSet(columns))
  BY <1>2, <1>3, <1>4, ConcatHas
<1> QED
  BY <1>5 DEF keys

LEMMA CommitShows ==
  ASSUME NEW plan, IsPlan(plan), plan.columns \in Seq(Columns), Commit(plan)
  PROVE  Shows(spec)' /\ spec'.steps = plan.steps
         /\ spec'.columns = SyncColumnsToRows(plan.columns, plan.steps)
<1>1. /\ spec'.steps = plan.steps /\ plan.steps \in Seq(Step)
      /\ spec'.columns = SyncColumnsToRows(plan.columns, plan.steps)
  BY DEF Commit, IsPlan
<1>2. spec'.columns \in Seq(Columns) /\ ToSet(spec'.columns) = ToSet(RowKeys(spec'.steps))
  BY <1>1, SyncedShows
<1> QED
  BY <1>1, <1>2 DEF Shows, RowKeys

\* The snapshot as it is restored.
LEMMA KeptIs ==
  ASSUME Shows(spec), NEW p, IsPlan(p), Shows(p)
  PROVE  /\ IsPlan(KeepingColumnOrder(p)) /\ KeepingColumnOrder(p).steps = p.steps
         /\ KeepingColumnOrder(p).columns =
              Only(spec.columns, ToSet(p.columns)) \o Without(p.columns, ToSet(spec.columns))
         /\ KeepingColumnOrder(p).columns \in Seq(Columns)
         /\ ToSet(KeepingColumnOrder(p).columns) = ToSet(p.columns)
<1> DEFINE kept == Only(spec.columns, ToSet(p.columns))
           back == Without(p.columns, ToSet(spec.columns))
<1>1. IsPlan(KeepingColumnOrder(p)) /\ KeepingColumnOrder(p).steps = p.steps
  BY KeepingKeepsSteps
<1>2. KeepingColumnOrder(p).columns = kept \o back
  BY DEF KeepingColumnOrder, IsPlan
<1>3. spec.columns \in Seq(Columns) /\ p.columns \in Seq(Columns)
  BY DEF Shows
<1>4. kept \in Seq(Columns) /\ ToSet(kept) = ToSet(spec.columns) \intersect ToSet(p.columns)
  BY <1>3, OnlyIs
<1>5. back \in Seq(Columns) /\ ToSet(back) = ToSet(p.columns) \ ToSet(spec.columns)
  BY <1>3, WithoutIs
<1> HIDE DEF kept, back
<1>6. kept \o back \in Seq(Columns) /\ ToSet(kept \o back) = ToSet(kept) \union ToSet(back)
  BY <1>4, <1>5, ConcatHas
<1>7. ToSet(kept) \union ToSet(back) = ToSet(p.columns)
  BY <1>4, <1>5
<1> QED
  BY <1>1, <1>2, <1>6, <1>7 DEF kept, back

\* What a replay to a snapshot shows, in which order.
LEMMA RestoreKeepsOrder ==
  ASSUME Shows(spec), NEW p, IsPlan(p), Shows(p), Commit(KeepingColumnOrder(p))
  PROVE  /\ Shows(spec)'
         /\ ShownBy(spec.columns, spec'.columns) = ShownBy(spec'.columns, spec.columns)
<1> DEFINE plan == KeepingColumnOrder(p)
           C == spec.columns
           S == p.columns
           P == plan.columns
           keys == RowKeys(p.steps)
<1>1. /\ IsPlan(plan) /\ plan.steps = p.steps
      /\ P = Only(C, ToSet(S)) \o Without(S, ToSet(C)) /\ P \in Seq(Columns)
      /\ ToSet(P) = ToSet(S)
  BY KeptIs
<1>2. C \in Seq(Columns) /\ S \in Seq(Columns) /\ ToSet(S) = ToSet(keys)
  BY DEF Shows
<1>3. keys \in Seq(Columns)
  BY RowKeysAre DEF IsPlan
<1>4. Shows(spec)' /\ spec'.columns = SyncColumnsToRows(P, p.steps)
  <2> HIDE DEF plan
  <2> QED
    BY <1>1, CommitShows DEF plan
<1>5. SyncColumnsToRows(P, p.steps) = Only(P, ToSet(keys)) \o Without(keys, ToSet(P))
  BY DEF SyncColumnsToRows
<1> HIDE DEF plan, C, S, P, keys
<1>6. Only(P, ToSet(keys)) = P
  BY <1>1, <1>2, OnlyAll
<1>7. Without(keys, ToSet(P)) = <<>>
  <2>1. Without(keys, ToSet(P)) \in Seq(Columns) /\ ToSet(Without(keys, ToSet(P))) = {}
    <3>1. ToSet(keys) \ ToSet(P) = {}
      BY <1>1, <1>2
    <3> QED
      BY <1>3, <3>1, WithoutIs
  <2>2. Without(keys, ToSet(P)) = Only(keys, Columns \ ToSet(P))
    BY <1>3, WithoutIs
  <2>3. ToSet(keys) \intersect (Columns \ ToSet(P)) = {}
    BY <1>1, <1>2
  <2> QED
    BY <1>3, <2>2, <2>3, OnlyNone
<1>8. spec'.columns = P
  BY <1>1, <1>4, <1>5, <1>6, <1>7, ConcatEmptySeq
<1>9. Only(P, ToSet(C)) = Only(C, ToSet(S))
  <2> DEFINE kept == Only(C, ToSet(S))
             back == Without(S, ToSet(C))
  <2>1. kept \in Seq(Columns) /\ ToSet(kept) \subseteq ToSet(C)
    <3>1. kept \in Seq(Columns) /\ ToSet(kept) = ToSet(C) \intersect ToSet(S)
      BY <1>2, OnlyIs
    <3> QED
      BY <3>1
  <2>2. back \in Seq(Columns) /\ ToSet(back) = ToSet(S) \ ToSet(C)
    <3>1. S \in Seq(Columns)
      BY <1>2
    <3>2. /\ Without(S, ToSet(C)) \in Seq(Columns)
          /\ ToSet(Without(S, ToSet(C))) = ToSet(S) \ ToSet(C)
      BY <3>1, WithoutIs
    <3> QED
      BY <3>2
  <2>3. P = kept \o back
    BY <1>1
  <2> HIDE DEF kept, back
  <2>4. Only(P, ToSet(C)) = Only(kept, ToSet(C)) \o Only(back, ToSet(C))
    BY <2>1, <2>2, <2>3, OnlyConcat
  <2>5. Only(kept, ToSet(C)) = kept
    BY <2>1, OnlyAll
  <2>6. Only(back, ToSet(C)) = <<>>
    <3>1. ToSet(back) \intersect ToSet(C) = {}
      BY <2>2
    <3> QED
      BY <2>2, <3>1, OnlyNone
  <2>7. kept \o <<>> = kept
    BY <2>1, ConcatEmptySeq
  <2>8. Only(P, ToSet(C)) = kept
    BY <2>4, <2>5, <2>6, <2>7
  <2> QED
    BY <2>8 DEF kept
<1>10. ShownBy(spec.columns, spec'.columns) = Only(C, ToSet(P))
       /\ ShownBy(spec'.columns, spec.columns) = Only(P, ToSet(C))
  BY <1>8 DEF ShownBy, C
<1> QED
  BY <1>1, <1>4, <1>9, <1>10

\* A mark leaves the snapshots alone.
LEMMA MarkShows ==
  ASSUME CInv, Ordered, NEW n \in DOMAIN journal, NEW s, journal' = MarkedAs(n, s)
  PROVE  \A i \in DOMAIN journal' : Shows(journal'[i].prevSpec) /\ Shows(journal'[i].newSpec)
<1>1. IsTurn(journal[n])
  BY DEF CInv, Shapes
<1>2. /\ [journal[n] EXCEPT !.status = s].prevSpec = journal[n].prevSpec
      /\ [journal[n] EXCEPT !.status = s].newSpec = journal[n].newSpec
  BY <1>1 DEF IsTurn
<1>3. journal' = [i \in DOMAIN journal |->
                    IF i = n THEN [journal[n] EXCEPT !.status = s] ELSE journal[i]]
  BY DEF MarkedAs
<1>4. ASSUME NEW i \in DOMAIN journal'
      PROVE  /\ i \in DOMAIN journal
             /\ journal'[i].prevSpec = journal[i].prevSpec /\ journal'[i].newSpec = journal[i].newSpec
  <2>1. i \in DOMAIN journal
    BY <1>3
  <2>2. CASE i = n
    BY <1>2, <1>3, <2>2
  <2>3. CASE i # n
    BY <1>3, <2>1, <2>3
  <2> QED
    BY <2>1, <2>2, <2>3
<1> QED
  BY <1>4 DEF Ordered

\* What a model asks for lists columns.
LEMMA PatchesShow ==
  ASSUME Shows(spec), NEW plan \in Patches
  PROVE  plan.columns \in Seq(Columns)
<1> DEFINE C == spec.columns
<1>1. C \in Seq(Columns)
  BY DEF Shows
<1>2. Reverse(C) \in Seq(Columns)
  <2> HIDE DEF C
  <2>1. PICK n \in Nat : n = Len(C) /\ \A i \in 1..n : C[i] \in Columns
    BY <1>1
  <2>2. Reverse(C) = [i \in 1..n |-> C[(n - i) + 1]]
    BY <2>1 DEF Reverse
  <2>3. \A i \in 1..n : (n - i) + 1 \in 1..n
    BY <2>1
  <2>4. [i \in 1..n |-> C[(n - i) + 1]] \in [1..n -> Columns]
    BY <2>1, <2>3
  <2> QED
    BY <2>1, <2>2, <2>4, IsSequence
<1>3. plan.columns \in {C, Reverse(C)}
  BY DEF Patches
<1> QED
  BY <1>1, <1>2, <1>3

LEMMA LoadedShows == Shows(Loaded) /\ IsPlan(Loaded)
<1>1. <<>> \in Seq(Step)
  OBVIOUS
<1>2. RowKeys(<<>>) \in Seq(Columns)
  BY <1>1, RowKeysAre
<1> QED
  BY <1>1, <1>2 DEF Shows, Loaded, IsPlan

\* The order holds through every step.
LEMMA OrderHolds == ASSUME CInv, Ordered, [Next]_vars PROVE Ordered'
<1>1. Shapes /\ IsPlan(spec) /\ Shows(spec)
      /\ \A i \in DOMAIN journal : IsTurn(journal[i])
  BY DEF CInv, Shapes, Ordered
<1>2. ASSUME spec' = spec, journal' = journal PROVE Ordered'
  BY <1>2 DEF Ordered, Shows, RowKeys
<1>3. ASSUME NEW plan, IsPlan(plan), plan.columns \in Seq(Columns), Commit(plan), journal' = journal
      PROVE  Ordered'
  BY <1>3, CommitShows DEF Ordered, Shows, RowKeys
<1>4. ASSUME Load PROVE Ordered'
  <2>1. spec' = Loaded /\ DOMAIN journal' = {}
    BY <1>4 DEF Load
  <2> QED
    BY <2>1, LoadedShows DEF Ordered, Shows, RowKeys
<1>5. ASSUME Undo PROVE Ordered'
  <2>1. FindLastCommittedIndex \in DOMAIN journal
    BY <1>1, <1>5, LastCommitted DEF Undo
  <2>2. /\ IsPlan(journal[FindLastCommittedIndex].prevSpec)
        /\ Shows(journal[FindLastCommittedIndex].prevSpec)
    BY <1>1, <2>1 DEF IsTurn, Ordered
  <2>3. Shows(spec)'
    BY <1>1, <1>5, <2>2, RestoreKeepsOrder DEF Undo
  <2>4. \A i \in DOMAIN journal' : Shows(journal'[i].prevSpec) /\ Shows(journal'[i].newSpec)
    BY <1>5, <2>1, MarkShows DEF Undo
  <2> QED
    BY <2>3, <2>4 DEF Ordered, Shows, RowKeys
<1>6. ASSUME Redo PROVE Ordered'
  <2>1. Last(redoStack) \in DOMAIN journal
    BY <1>1, <1>6 DEF Redo, Shapes, Last
  <2>2. IsPlan(journal[Last(redoStack)].newSpec) /\ Shows(journal[Last(redoStack)].newSpec)
    BY <1>1, <2>1 DEF IsTurn, Ordered
  <2>3. Shows(spec)'
    BY <1>1, <1>6, <2>2, RestoreKeepsOrder DEF Redo
  <2>4. \A i \in DOMAIN journal' : Shows(journal'[i].prevSpec) /\ Shows(journal'[i].newSpec)
    BY <1>6, <2>1, MarkShows DEF Redo
  <2> QED
    BY <2>3, <2>4 DEF Ordered, Shows, RowKeys
<1>7. ASSUME NEW plan \in Patches, Request(plan) PROVE Ordered'
  <2>1. IsPlan(plan) /\ plan.columns \in Seq(Columns)
    BY <1>1, PatchesArePlans, PatchesShow
  <2>2. Shows(spec)'
    BY <1>7, <2>1, CommitShows DEF Request
  <2> DEFINE turn == [prevSpec |-> spec, newSpec |-> spec', status |-> "committed"]
  <2>3. /\ DOMAIN journal' = 1..Len(journal) + 1 /\ DOMAIN journal = 1..Len(journal)
        /\ \A i \in DOMAIN journal : journal'[i] = journal[i]
        /\ journal'[Len(journal) + 1] = turn /\ Len(journal) \in Nat
    <3>1. journal' = Append(journal, turn) /\ journal \in Seq(ToSet(journal))
      BY <1>1, <1>7 DEF Request, Shapes
    <3> HIDE DEF turn
    <3> QED
      BY <3>1, AppendAny
  <2>4. ASSUME NEW i \in DOMAIN journal' PROVE Shows(journal'[i].prevSpec) /\ Shows(journal'[i].newSpec)
    <3>1. CASE i \in DOMAIN journal
      BY <2>3, <3>1 DEF Ordered
    <3>2. CASE i \notin DOMAIN journal
      <4>1. i = Len(journal) + 1
        BY <2>3, <3>2
      <4>2. journal'[i].prevSpec = spec /\ journal'[i].newSpec = spec'
        BY <2>3, <4>1
      <4> QED
        BY <1>1, <2>2, <4>2 DEF Shows, RowKeys
    <3> QED
      BY <3>1, <3>2
  <2> QED
    BY <2>2, <2>4 DEF Ordered, Shows, RowKeys
<1>8. ASSUME UndoStep PROVE Ordered'
  <2> DEFINE plan == [spec EXCEPT !.steps = Front(@)]
  <2>1. IsPlan(plan) /\ plan.columns \in Seq(Columns)
    BY <1>1, <1>8, StepSequences DEF UndoStep, IsPlan, Shows
  <2>2. Commit(plan) /\ journal' = journal
    BY <1>8 DEF UndoStep
  <2> HIDE DEF plan
  <2> QED
    BY <1>3, <2>1, <2>2
<1>9. ASSUME NEW wanted, ReorderCmd(wanted), wanted = <<Last(spec.columns)>> PROVE Ordered'
  <2> DEFINE others == Without(spec.columns, ToSet(wanted))
             plan == [spec EXCEPT !.columns = wanted \o Without(@, ToSet(wanted))]
  <2>1. spec.columns \in Seq(Columns) /\ ToSet(spec.columns) \subseteq Columns
    BY <1>1 DEF Shows, ToSet
  <2>2. others \in Seq(Columns)
    BY <2>1, WithoutIs
  <2>3. wanted \in Seq(Columns)
    <3>1. Last(spec.columns) \in ToSet(wanted)
      BY <1>9 DEF ToSet
    <3>2. Last(spec.columns) \in Columns
      BY <1>9, <2>1, <3>1 DEF ReorderCmd
    <3> QED
      BY <1>9, <3>2
  <2>4. wanted \o others \in Seq(Columns)
    <3> HIDE DEF others
    <3> QED
      BY <2>2, <2>3
  <2>5. IsPlan(plan) /\ plan.columns = wanted \o others
    BY <1>1, ReorderedIsPlan DEF IsPlan
  <2>6. Commit(plan) /\ journal' = journal
    BY <1>9 DEF ReorderCmd
  <2> HIDE DEF plan, others
  <2> QED
    BY <1>3, <2>4, <2>5, <2>6
<1>10. ASSUME UndoFails \/ RedoFails \/ \E plan \in Patches : RequestFails(plan) PROVE Ordered'
  BY <1>2, <1>10 DEF UndoFails, RedoFails, RequestFails, Throw
<1>11. ASSUME NEW join, FileMoves(join) PROVE Ordered'
  BY <1>2, <1>11 DEF FileMoves
<1>12. CASE UNCHANGED vars
  BY <1>2, <1>12 DEF vars
<1> QED
  BY <1>4, <1>5, <1>6, <1>7, <1>8, <1>9, <1>10, <1>11, <1>12 DEF Next

(* "The column order on screen survives the undo": the columns shown       *)
(* before and after an undo or a redo keep their relative order, whatever  *)
(* requests and reorders ran since the snapshot, and what is shown are the *)
(* columns of the rows.                                                    *)
THEOREM OrderAlwaysSurvives == Spec => OrderSurvives
<1> DEFINE Kept ==
      Undo \/ Redo =>
        /\ ShownBy(spec.columns, spec'.columns) = ShownBy(spec'.columns, spec.columns)
        /\ ToSet(spec'.columns) = ToSet(RowKeys(spec'.steps))
<1>1. Init => CInv /\ Ordered
  <2>1. Init => CInv
    BY LoadedHolds
  <2>2. ASSUME Init PROVE Ordered
    BY <2>2, LoadedShows DEF Init, Ordered
  <2> QED
    BY <2>1, <2>2
<1>2. ASSUME CInv, Ordered, [Next]_vars PROVE [Kept]_vars
  <2>1. Shows(spec)'
    BY <1>2, OrderHolds DEF Ordered
  <2>2. ToSet(spec'.columns) = ToSet(RowKeys(spec'.steps))
    BY <2>1 DEF Shows, RowKeys
  <2>3. Shapes /\ Shows(spec) /\ \A i \in DOMAIN journal : IsTurn(journal[i])
    BY <1>2 DEF CInv, Shapes, Ordered
  <2>4. ASSUME Undo PROVE ShownBy(spec.columns, spec'.columns) = ShownBy(spec'.columns, spec.columns)
    <3>1. FindLastCommittedIndex \in DOMAIN journal
      BY <2>3, <2>4, LastCommitted DEF Undo
    <3>2. /\ IsPlan(journal[FindLastCommittedIndex].prevSpec)
          /\ Shows(journal[FindLastCommittedIndex].prevSpec)
      BY <1>2, <2>3, <3>1 DEF IsTurn, Ordered
    <3> QED
      BY <2>3, <2>4, <3>2, RestoreKeepsOrder DEF Undo
  <2>5. ASSUME Redo PROVE ShownBy(spec.columns, spec'.columns) = ShownBy(spec'.columns, spec.columns)
    <3>1. Last(redoStack) \in DOMAIN journal
      BY <2>3, <2>5 DEF Redo, Shapes, Last
    <3>2. IsPlan(journal[Last(redoStack)].newSpec) /\ Shows(journal[Last(redoStack)].newSpec)
      BY <1>2, <2>3, <3>1 DEF IsTurn, Ordered
    <3> QED
      BY <2>3, <2>5, <3>2, RestoreKeepsOrder DEF Redo
  <2> QED
    BY <2>2, <2>4, <2>5
<1>3. CInv /\ Ordered /\ [Next]_vars => Ordered'
  BY OrderHolds
<1>4. Spec => []CInv
  BY ChainsHold
<1> HIDE DEF Kept
<1>5. Spec => [][Kept]_vars
  BY <1>1, <1>2, <1>3, <1>4, PTL DEF Spec
<1>6. OrderSurvives <=> [][Kept]_vars
  BY DEF OrderSurvives, Kept
<1> QED
  BY <1>5, <1>6

------------------------------------------------------------------------------
(* SqlSession.  Type correctness, the rows a lone reader answers from, and *)
(* the requests that never race a parked query.                            *)

(* A query parked while no other was is the one the session waits for.     *)
Waited ==
  /\ \A e \in Parked \ paired : lingering = e
  /\ \A e, d \in Parked : e # d => e \in paired

(* An evaluation in flight that nothing ran beside is the only one.        *)
Lone ==
  \A e, d \in DOMAIN evals :
    InFlight(e) /\ ~evals[e].shared /\ InFlight(d) => d = e

(* How far its table is filled, and what a lone one finds in the relation. *)
Upto(owner, n) == [i \in 1..n |-> <<owner, i>>]
Filling ==
  \A e \in DOMAIN evals :
    /\ evals[e].pc \in {"drop", "create"} => evals[e].filled = 0
    /\ evals[e].pc = "insert" => evals[e].filled < Batches
    /\ ~evals[e].shared =>
         /\ evals[e].pc = "create" => relation = NoTable
         /\ evals[e].pc = "insert" => relation = Upto(evals[e].owner, evals[e].filled)
         /\ evals[e].pc = "query" => relation = Rows(evals[e].owner)
         /\ evals[e].pc = "query" /\ conn = e => evals[e].got = Rows(evals[e].owner)
         /\ evals[e].pc = "ok" => evals[e].got = Rows(evals[e].owner)

Counted == Len(evals) <= MaxEvals

SInv == SqlTypeOK /\ Counted /\ Lone /\ Filling /\ Waited

------------------------------------------------------------------------------
(* What a step that touches evaluation e alone leaves of the others, and of *)
(* e: its owner, and whether another ran beside it.                        *)
Moved(e) ==
  /\ evals' \in Seq(Evaluation)
  /\ DOMAIN evals' = DOMAIN evals /\ Len(evals') = Len(evals)
  /\ \A d \in DOMAIN evals : d # e => evals'[d] = evals[d]
  /\ evals'[e].owner = evals[e].owner
  /\ evals'[e].shared = evals[e].shared

(* The fields of one evaluation.                                           *)
LEMMA EvaluationAt ==
  ASSUME evals \in Seq(Evaluation), NEW e \in DOMAIN evals
  PROVE  /\ evals[e] \in Evaluation
         /\ evals[e].owner \in Callers /\ evals[e].pc \in Await
         /\ evals[e].filled \in 0..Batches /\ evals[e].shared \in BOOLEAN
         /\ evals[e].got \in Seq(Row \union {<<None, None>>})
         /\ e \in Nat \ {0} /\ e <= Len(evals)
<1>1. evals[e] \in Evaluation /\ e \in Nat \ {0} /\ e <= Len(evals)
  OBVIOUS
<1> QED
  BY <1>1 DEF Evaluation

(* A record put in the place of e that keeps its owner and its history.    *)
LEMMA ChangeMoves ==
  ASSUME evals \in Seq(Evaluation), NEW e \in DOMAIN evals,
         NEW r \in Evaluation,
         r.owner = evals[e].owner, r.shared = evals[e].shared,
         evals' = [evals EXCEPT ![e] = r]
  PROVE  Moved(e) /\ evals'[e] = r
<1>1. /\ evals' \in Seq(Evaluation)
      /\ DOMAIN evals' = DOMAIN evals /\ Len(evals') = Len(evals)
      /\ evals'[e] = r
      /\ \A d \in DOMAIN evals : d # e => evals'[d] = evals[d]
  OBVIOUS
<1> QED
  BY <1>1 DEF Moved

(* The same for a change of the program counter alone.                     *)
LEMMA GotoMoves ==
  ASSUME evals \in Seq(Evaluation), NEW e \in DOMAIN evals, NEW pc \in Await,
         evals' = Goto(e, pc)
  PROVE  /\ Moved(e)
         /\ evals'[e].pc = pc
         /\ evals'[e].filled = evals[e].filled /\ evals'[e].got = evals[e].got
<1> DEFINE r == [evals[e] EXCEPT !.pc = pc]
<1>1. evals[e] \in Evaluation
  BY EvaluationAt
<1>2. /\ r \in Evaluation
      /\ r.owner = evals[e].owner /\ r.shared = evals[e].shared
      /\ r.pc = pc /\ r.filled = evals[e].filled /\ r.got = evals[e].got
  BY <1>1 DEF Evaluation
<1>3. evals' = [evals EXCEPT ![e] = r]
  BY DEF Goto
<1> HIDE DEF r
<1>4. Moved(e) /\ evals'[e] = r
  BY <1>2, <1>3, ChangeMoves
<1> QED
  BY <1>2, <1>4

(* A rejected query: no rows, and e is over.                               *)
LEMMA RejectedMoves ==
  ASSUME evals \in Seq(Evaluation), NEW e \in DOMAIN evals, evals' = Rejected(e)
  PROVE  /\ Moved(e)
         /\ evals'[e].pc \in {"cancelled", "failed"}
         /\ evals'[e].filled = evals[e].filled
<1> DEFINE pc == IF evals[e].owner \in stopped THEN "cancelled" ELSE "failed"
           r == [evals[e] EXCEPT !.got = NoTable, !.pc = pc]
<1>1. evals[e] \in Evaluation
  BY EvaluationAt
<1>2. NoTable \in Seq(Row \union {<<None, None>>})
  BY DEF NoTable
<1>3. pc \in Await /\ pc \in {"cancelled", "failed"}
  BY DEF Await
<1>4. evals' = [evals EXCEPT ![e] = r]
  BY DEF Rejected
<1>5. /\ r \in Evaluation
      /\ r.owner = evals[e].owner /\ r.shared = evals[e].shared
      /\ r.pc = pc /\ r.filled = evals[e].filled
  <2> HIDE DEF pc
  <2> QED
    BY <1>1, <1>2, <1>3 DEF Evaluation
<1> HIDE DEF pc, r
<1>6. Moved(e) /\ evals'[e] = r
  BY <1>4, <1>5, ChangeMoves
<1> QED
  BY <1>3, <1>5, <1>6

(* The relation after one more batch.                                      *)
LEMMA UptoAppend ==
  ASSUME NEW o \in Callers, NEW n \in Nat
  PROVE  /\ Upto(o, n) \in Seq(Callers \X Nat)
         /\ Append(Upto(o, n), <<o, n + 1>>) = Upto(o, n + 1)
<1>1. \A m \in Nat : Upto(o, m) \in Seq(Callers \X Nat) /\ Len(Upto(o, m)) = m
  <2> TAKE m \in Nat
  <2>1. \A i \in 1..m : <<o, i>> \in Callers \X Nat
    OBVIOUS
  <2> QED
    BY <2>1 DEF Upto
<1> DEFINE s == Upto(o, n)
           x == Upto(o, n + 1)
           y == Append(s, <<o, n + 1>>)
<1>2. s \in Seq(Callers \X Nat) /\ Len(s) = n /\ \A i \in 1..n : s[i] = <<o, i>>
  BY <1>1 DEF Upto
<1>3. x \in Seq(Callers \X Nat) /\ Len(x) = n + 1 /\ \A i \in 1..(n + 1) : x[i] = <<o, i>>
  <2>1. n + 1 \in Nat
    OBVIOUS
  <2> QED
    BY <1>1, <2>1 DEF Upto
<1> HIDE DEF s, x
<1>4. <<o, n + 1>> \in Callers \X Nat
  OBVIOUS
<1>5. y \in Seq(Callers \X Nat) /\ Len(y) = n + 1 /\ \A i \in 1..(n + 1) : y[i] = <<o, i>>
  BY <1>2, <1>4, AppendProperties
<1> HIDE DEF y
<1>6. y = x
  BY <1>3, <1>5, SeqEqual
<1> QED
  BY <1>2, <1>6 DEF s, x, y

------------------------------------------------------------------------------
(* The session starts in the invariant.                                    *)
LEMMA InitHolds == SqlInit => SInv
<1> SUFFICES ASSUME SqlInit PROVE SInv
  OBVIOUS
<1> USE SqlAssumption DEF SqlInit
<1>1. evals = <<>> /\ evals \in Seq(Evaluation) /\ DOMAIN evals = {} /\ Len(evals) = 0
  OBVIOUS
<1>2. SqlTypeOK
  BY <1>1 DEF SqlTypeOK, None
<1>3. Counted /\ Lone /\ Filling /\ Waited
  BY <1>1 DEF Counted, Lone, Filling, Waited, Parked, None
<1> QED
  BY <1>2, <1>3 DEF SInv

(* What every step of one evaluation keeps, as long as it brings nothing   *)
(* into flight and parks nothing.                                          *)
LEMMA StepFrame ==
  ASSUME SInv, NEW e \in DOMAIN evals, Moved(e),
         InFlight(e)' => InFlight(e),
         evals'[e].pc = "parked" <=> evals[e].pc = "parked",
         UNCHANGED <<active, requests, callers, lingering, paired>>
  PROVE  Counted' /\ Lone' /\ Waited'
<1>1. Counted'
  BY DEF SInv, Counted, Moved
<1>2. Lone'
  BY DEF SInv, Lone, InFlight, Moved
<1>3. Parked' = Parked
  BY DEF Parked, Moved
<1>4. Waited'
  BY <1>3 DEF SInv, Waited
<1> QED
  BY <1>1, <1>2, <1>4

(* DROP TABLE: the relation is gone, and e alone awaits its CREATE.        *)
LEMMA DropHolds ==
  ASSUME SInv, NEW e \in DOMAIN evals, Drop(e) PROVE SInv'
<1>1. /\ evals[e].pc = "drop" /\ conn = None /\ relation' = NoTable
      /\ evals' = Goto(e, "create")
      /\ UNCHANGED <<active, requests, callers, stopped, conn, lingering, paired>>
  BY DEF Drop
<1>2. evals \in Seq(Evaluation)
  BY DEF SInv, SqlTypeOK
<1>3. /\ Moved(e)
      /\ evals'[e].pc = "create"
      /\ evals'[e].filled = evals[e].filled /\ evals'[e].got = evals[e].got
  BY <1>1, <1>2, GotoMoves DEF Await
<1>4. Counted' /\ Lone' /\ Waited'
  BY <1>1, <1>3, StepFrame DEF InFlight
<1>5. SqlTypeOK'
  BY <1>1, <1>3 DEF SInv, SqlTypeOK, Moved
<1>7. Filling'
  BY <1>1, <1>3 DEF SInv, Filling, Lone, InFlight, Moved
<1> QED
  BY <1>4, <1>5, <1>7 DEF SInv

(* CREATE TABLE: the relation is empty, which is Upto(owner, 0).           *)
LEMMA CreateHolds ==
  ASSUME SInv, NEW e \in DOMAIN evals, Create(e) PROVE SInv'
<1>1. /\ evals[e].pc = "create" /\ conn = None /\ relation' = <<>>
      /\ evals' = Goto(e, "insert")
      /\ UNCHANGED <<active, requests, callers, stopped, conn, lingering, paired>>
  BY DEF Create
<1>2. evals \in Seq(Evaluation)
  BY DEF SInv, SqlTypeOK
<1>3. /\ Moved(e)
      /\ evals'[e].pc = "insert"
      /\ evals'[e].filled = evals[e].filled /\ evals'[e].got = evals[e].got
  BY <1>1, <1>2, GotoMoves DEF Await
<1>4. Counted' /\ Lone' /\ Waited'
  BY <1>1, <1>3, StepFrame DEF InFlight
<1>5. SqlTypeOK'
  BY <1>1, <1>3 DEF SInv, SqlTypeOK, Moved
<1>7. evals'[e].filled = 0 /\ 0 < Batches
  BY <1>1, <1>3, SqlAssumption DEF SInv, Filling
<1>8. relation' = Upto(evals'[e].owner, evals'[e].filled)
  BY <1>1, <1>7 DEF Upto
<1>9. Filling'
  BY <1>1, <1>3, <1>7, <1>8 DEF SInv, Filling, Lone, InFlight, Moved
<1> QED
  BY <1>4, <1>5, <1>9 DEF SInv

(* A registration that fails takes e out of flight.                        *)
LEMMA RegisterFailsHolds ==
  ASSUME SInv, NEW e \in DOMAIN evals, RegisterFails(e) PROVE SInv'
<1> DEFINE pc == IF evals[e].owner \in stopped THEN "cancelled" ELSE "failed"
<1>1. /\ evals[e].pc \in {"create", "insert"} /\ conn = None
      /\ evals' = Goto(e, pc)
      /\ UNCHANGED <<active, requests, callers, stopped, relation, conn, lingering, paired>>
  BY DEF RegisterFails
<1>2. evals \in Seq(Evaluation)
  BY DEF SInv, SqlTypeOK
<1>3. pc \in Await /\ pc \in {"cancelled", "failed"}
  BY DEF Await
<1> HIDE DEF pc
<1>4. /\ Moved(e)
      /\ evals'[e].pc \in {"cancelled", "failed"}
      /\ evals'[e].filled = evals[e].filled
  BY <1>1, <1>2, <1>3, GotoMoves
<1>5. Counted' /\ Lone' /\ Waited'
  BY <1>1, <1>4, StepFrame DEF InFlight
<1>6. SqlTypeOK'
  BY <1>1, <1>4 DEF SInv, SqlTypeOK, Moved
<1>7. Filling'
  BY <1>1, <1>4 DEF SInv, Filling, Moved
<1> QED
  BY <1>5, <1>6, <1>7 DEF SInv

(* The query of e begins: a lone one finds its own rows.                   *)
LEMMA ExecuteHolds ==
  ASSUME SInv, NEW e \in DOMAIN evals, Execute(e) PROVE SInv'
<1> DEFINE got == IF evals[e].pc = "query" THEN relation ELSE evals[e].got
           r == [evals[e] EXCEPT !.got = got]
<1>1. /\ evals[e].pc \in {"query", "parked"} /\ conn = None /\ relation # NoTable /\ conn' = e
      /\ evals' = [evals EXCEPT ![e] = r]
      /\ UNCHANGED <<active, requests, callers, stopped, relation, lingering, paired>>
  BY DEF Execute, Issued
<1>2. /\ evals \in Seq(Evaluation) /\ evals[e] \in Evaluation
      /\ relation \in Seq(Row) /\ Len(evals) <= MaxEvals /\ e \in Nat /\ e <= Len(evals)
      /\ evals[e].got \in Seq(Row \union {<<None, None>>})
  <2>1. evals \in Seq(Evaluation) /\ relation \in Seq(Row) /\ Len(evals) <= MaxEvals
    BY <1>1 DEF SInv, SqlTypeOK, Counted
  <2> QED
    BY <2>1, EvaluationAt
<1>3. relation \in Seq(Row \union {<<None, None>>})
  BY <1>2
<1>4. got \in Seq(Row \union {<<None, None>>})
  BY <1>2, <1>3
<1> HIDE DEF got
<1>5. /\ r \in Evaluation
      /\ r.owner = evals[e].owner /\ r.shared = evals[e].shared
      /\ r.pc = evals[e].pc /\ r.filled = evals[e].filled /\ r.got = got
  BY <1>2, <1>4 DEF Evaluation
<1> HIDE DEF r
<1>6. Moved(e) /\ evals'[e] = r
  BY <1>1, <1>2, <1>5, ChangeMoves
<1>7. Counted' /\ Lone' /\ Waited'
  BY <1>1, <1>5, <1>6, StepFrame DEF InFlight
<1>8. conn' \in 0..MaxEvals
  BY <1>1, <1>2, SqlAssumption
<1>9. SqlTypeOK'
  BY <1>1, <1>6, <1>8 DEF SInv, SqlTypeOK, Moved
<1>10. Filling'
  <2>1. evals[e].pc = "query" /\ ~evals[e].shared => got = Rows(evals[e].owner)
    BY DEF SInv, Filling, got
  <2>2. ASSUME NEW d \in DOMAIN evals, d # e PROVE evals'[d] = evals[d] /\ conn' # d
    BY <1>1, <1>6, <2>2 DEF Moved
  <2> QED
    BY <1>1, <1>5, <1>6, <2>1, <2>2 DEF SInv, Filling, Moved
<1> QED
  BY <1>7, <1>9, <1>10 DEF SInv

(* What is left parked, and waited for, when the query of e has ended.     *)
LEMMA DrainWaited ==
  ASSUME SInv, NEW e \in DOMAIN evals, Moved(e), evals'[e].pc # "parked", Drained(e),
         evals[e].pc \in {"query", "parked"}, paired' = paired
  PROVE  Waited'
<1>1. Parked' = Parked \ {e}
  BY DEF Parked, Moved
<1>2. CASE evals[e].pc = "parked"
  <2>1. e \in Parked
    BY <1>2 DEF Parked
  <2>2. Parked' \ paired' = {}
    BY <1>1, <2>1 DEF SInv, Waited
  <2> QED
    BY <1>1, <2>2 DEF SInv, Waited
<1>3. CASE evals[e].pc # "parked"
  BY <1>1, <1>3 DEF SInv, Waited, Drained
<1> QED
  BY <1>2, <1>3

(* The query of e has ended, with a result (for one still awaited) or not.  *)
LEMMA EndedHolds ==
  ASSUME SInv, NEW e \in DOMAIN evals, Moved(e),
         \/ evals'[e].pc \in {"cancelled", "failed"}
         \/ /\ evals[e].pc = "query" /\ evals'[e].pc = "ok"
            /\ evals'[e].got = evals[e].got /\ conn = e,
         evals'[e].filled = evals[e].filled,
         evals[e].pc \in {"query", "parked"},
         conn \in {e, None}, conn' = None, Drained(e),
         UNCHANGED <<active, requests, callers, stopped, relation, paired>>
  PROVE  SInv'
<1>1. Waited'
  BY DrainWaited
<1>2. Counted' /\ Lone'
  <2>1. Counted'
    BY DEF SInv, Counted, Moved
  <2>2. Lone'
    BY DEF SInv, Lone, InFlight, Moved
  <2> QED
    BY <2>1, <2>2
<1>3. SqlTypeOK'
  BY SqlAssumption DEF SInv, SqlTypeOK, Moved, Drained, None
<1>4. Filling'
  <2>1. \A d \in DOMAIN evals : d # None
    BY EvaluationAt DEF SInv, SqlTypeOK, None
  <2> QED
    BY <2>1 DEF SInv, Filling, Moved
<1> QED
  BY <1>1, <1>2, <1>3, <1>4 DEF SInv

(* A result, an SQL error or an interrupt ends a query.                    *)
LEMMA ReturnHolds ==
  ASSUME SInv, NEW e \in DOMAIN evals, Return(e) \/ QueryFails(e) PROVE SInv'
<1>1. evals \in Seq(Evaluation)
  BY DEF SInv, SqlTypeOK
<1>2. /\ evals[e].pc \in {"query", "parked"} /\ conn \in {e, None} /\ conn' = None
      /\ Drained(e) /\ UNCHANGED <<active, requests, callers, stopped, relation, paired>>
  BY DEF Return, QueryFails, Issued
<1>3. CASE evals[e].pc = "query" /\ Return(e)
  <2>1. /\ Moved(e)
        /\ evals'[e].pc = "ok"
        /\ evals'[e].filled = evals[e].filled /\ evals'[e].got = evals[e].got
    BY <1>1, <1>3, GotoMoves DEF Return, Await
  <2>2. conn = e
    BY <1>3 DEF Return
  <2> QED
    BY <1>2, <1>3, <2>1, <2>2, EndedHolds
<1>4. CASE ~(evals[e].pc = "query" /\ Return(e))
  <2>1. evals' = Rejected(e)
    BY <1>4 DEF Return, QueryFails
  <2>2. /\ Moved(e)
        /\ evals'[e].pc \in {"cancelled", "failed"}
        /\ evals'[e].filled = evals[e].filled
    BY <1>1, <2>1, RejectedMoves
  <2> QED
    BY <1>2, <2>2, EndedHolds
<1> QED
  BY <1>3, <1>4

(* The give-up timer parks a query: the session waits for it, and one that *)
(* was parked already is a pair with it.                                   *)
LEMMA GiveUpHolds ==
  ASSUME SInv, NEW e \in DOMAIN evals, GiveUp(e) PROVE SInv'
<1> DEFINE r == [evals[e] EXCEPT !.pc = "parked", !.got = NoTable]
<1>1. /\ evals[e].pc = "query" /\ lingering' = e
      /\ evals' = [evals EXCEPT ![e] = r]
      /\ paired' = IF Parked = {} THEN paired ELSE paired \union Parked \union {e}
      /\ UNCHANGED <<active, requests, callers, stopped, relation, conn>>
  BY DEF GiveUp, Park
<1>2. /\ evals \in Seq(Evaluation) /\ Len(evals) <= MaxEvals /\ evals[e] \in Evaluation
      /\ e \in Nat /\ e <= Len(evals)
  <2>1. evals \in Seq(Evaluation) /\ Len(evals) <= MaxEvals
    BY DEF SInv, SqlTypeOK, Counted
  <2> QED
    BY <2>1, EvaluationAt
<1>3. /\ r \in Evaluation
      /\ r.owner = evals[e].owner /\ r.shared = evals[e].shared
      /\ r.pc = "parked" /\ r.filled = evals[e].filled
  <2>1. NoTable \in Seq(Row \union {<<None, None>>}) /\ "parked" \in Await
    BY DEF NoTable, Await
  <2> QED
    BY <1>2, <2>1 DEF Evaluation
<1> HIDE DEF r
<1>4. Moved(e) /\ evals'[e] = r
  BY <1>1, <1>2, <1>3, ChangeMoves
<1>5. Counted' /\ Lone'
  <2>1. Counted'
    BY <1>1, <1>4 DEF SInv, Counted, Moved
  <2>2. Lone'
    BY <1>1, <1>3, <1>4 DEF SInv, Lone, InFlight, Moved
  <2> QED
    BY <2>1, <2>2
<1>6. Waited'
  <2>1. Parked' = Parked \union {e}
    BY <1>3, <1>4 DEF Parked, Moved
  <2> QED
    BY <1>1, <2>1 DEF SInv, Waited
<1>7. e \in 0..MaxEvals
  BY <1>2, SqlAssumption
<1>8. SqlTypeOK'
  BY <1>1, <1>4, <1>7 DEF SInv, SqlTypeOK, Moved
<1>9. Filling'
  BY <1>1, <1>3, <1>4 DEF SInv, Filling, Moved
<1> QED
  BY <1>5, <1>6, <1>8, <1>9 DEF SInv

(* INSERT: one more batch, and after the last one the query.               *)
LEMMA InsertHolds ==
  ASSUME SInv, NEW e \in DOMAIN evals, Insert(e) PROVE SInv'
<1> DEFINE owner == evals[e].owner
           filled == evals[e].filled + 1
           next == IF filled < Batches THEN "insert"
                   ELSE IF owner \in stopped THEN "cancelled" ELSE "query"
           r == [evals[e] EXCEPT !.filled = filled, !.pc = next]
<1>1. /\ evals[e].pc = "insert" /\ conn = None /\ relation # NoTable
      /\ relation' = Append(relation, <<owner, filled>>)
      /\ UNCHANGED <<active, requests, callers, stopped, conn, lingering, paired>>
  BY DEF Insert
<1>2. evals' = [evals EXCEPT ![e] = r]
  BY DEF Insert
<1>3. /\ evals \in Seq(Evaluation) /\ Len(evals) <= MaxEvals /\ relation \in Seq(Row)
  BY <1>1 DEF SInv, SqlTypeOK, Counted
<1>4. /\ evals[e] \in Evaluation
      /\ owner \in Callers
      /\ evals[e].filled \in 0..Batches
      /\ evals[e].got \in Seq(Row \union {<<None, None>>})
      /\ e \in Nat \ {0} /\ e <= Len(evals)
  BY <1>3, EvaluationAt
<1>5. filled \in 1..Batches /\ Batches \in Nat
  BY <1>1, <1>4, SqlAssumption DEF SInv, Filling
<1>6. relation' \in Seq(Row)
  <2>1. <<owner, filled>> \in Row
    BY <1>4, <1>5 DEF Row
  <2> QED
    BY <1>1, <1>3, <2>1, AppendProperties
<1>7. ~evals[e].shared => relation' = Upto(owner, filled)
  <2>1. ~evals[e].shared => relation = Upto(owner, evals[e].filled)
    BY <1>1 DEF SInv, Filling
  <2>2. Append(Upto(owner, evals[e].filled), <<owner, filled>>) = Upto(owner, filled)
    <3> DEFINE n == evals[e].filled
    <3>1. n \in Nat /\ owner \in Callers /\ filled = n + 1
      BY <1>4, <1>5
    <3> HIDE DEF n, owner, filled
    <3>2. Append(Upto(owner, n), <<owner, n + 1>>) = Upto(owner, n + 1)
      BY <3>1, UptoAppend
    <3> QED
      BY <3>1, <3>2 DEF n
  <2> QED
    BY <1>1, <2>1, <2>2
<1>8. /\ next \in Await /\ next \in {"insert", "cancelled", "query"}
      /\ next = "insert" <=> filled < Batches
  BY DEF Await
<1>9. next = "query" => Upto(owner, filled) = Rows(owner)
  BY <1>5, <1>8 DEF Upto, Rows
<1> HIDE DEF next
<1>11. /\ r \in Evaluation
       /\ r.owner = owner /\ r.shared = evals[e].shared
       /\ r.pc = next /\ r.filled = filled
  <2>1. filled \in 0..Batches
    BY <1>5
  <2> HIDE DEF filled
  <2> QED
    BY <1>4, <1>8, <2>1 DEF Evaluation
<1> HIDE DEF r
<1>12. Moved(e) /\ evals'[e] = r
  BY <1>2, <1>3, <1>11, ChangeMoves
<1>13. Counted' /\ Lone' /\ Waited'
  BY <1>1, <1>8, <1>11, <1>12, StepFrame DEF InFlight
<1>14. SqlTypeOK'
  BY <1>1, <1>6, <1>12 DEF SInv, SqlTypeOK, Moved
<1>16. Filling'
  <2>1. /\ evals'[e].pc \in {"insert", "cancelled", "query"}
        /\ evals'[e].pc = "insert" => evals'[e].filled < Batches
        /\ evals'[e].pc = "insert" /\ ~evals'[e].shared
             => relation' = Upto(evals'[e].owner, evals'[e].filled)
        /\ evals'[e].pc = "query" /\ ~evals'[e].shared
             => relation' = Rows(evals'[e].owner)
        /\ conn' # e
    BY <1>1, <1>4, <1>7, <1>8, <1>9, <1>11, <1>12 DEF None
  <2>2. ASSUME NEW d \in DOMAIN evals, d # e
        PROVE  evals'[d] = evals[d] /\ (InFlight(d) => evals[d].shared)
    BY <1>1, <1>12, <2>2 DEF SInv, Lone, InFlight, Moved
  <2> QED
    BY <1>12, <2>1, <2>2 DEF SInv, Filling, InFlight, Moved
<1> QED
  BY <1>13, <1>14, <1>16 DEF SInv

(* Another caller, or one less, is nothing to the evaluations.             *)
LEMMA CallersHold ==
  ASSUME SInv, BeginRequest \/ BeginPass \/ \E o \in Callers : End(o) PROVE SInv'
<1>1. /\ UNCHANGED <<stopped, relation, conn, lingering, paired, evals>>
      /\ \/ /\ callers < MaxCallers /\ callers' = callers + 1
            /\ active' = active \union {callers + 1}
            /\ requests' \in {requests, requests \union {callers + 1}}
         \/ callers' = callers /\ active' \subseteq active /\ requests' = requests
  BY DEF BeginRequest, BeginPass, Begin, End
<1>2. SqlTypeOK' /\ Counted'
  <2>1. callers \in 0..MaxCallers /\ MaxCallers \in Nat
    BY SqlAssumption DEF SInv, SqlTypeOK
  <2>2. callers < MaxCallers => callers + 1 \in Callers
    BY <2>1 DEF Callers
  <2> QED
    BY <1>1, <2>1, <2>2 DEF SInv, SqlTypeOK, Counted
<1>3. Lone' /\ Filling'
  BY <1>1 DEF SInv, Lone, Filling, InFlight
<1>4. Waited'
  BY <1>1 DEF SInv, Waited, Parked
<1> QED
  BY <1>2, <1>3, <1>4 DEF SInv

(* A stop changes the signal only.                                         *)
LEMMA StopHolds ==
  ASSUME SInv, NEW o \in Callers, Stop(o) PROVE SInv'
<1>1. /\ stopped' = stopped \union {o}
      /\ UNCHANGED <<active, requests, callers, relation, conn, lingering, paired, evals>>
  BY DEF Stop
<1>2. SqlTypeOK'
  BY <1>1 DEF SInv, SqlTypeOK
<1>3. Counted' /\ Lone' /\ Filling' /\ Waited'
  BY <1>1 DEF SInv, Counted, Lone, Filling, Waited, InFlight, Parked
<1> QED
  BY <1>2, <1>3 DEF SInv

(* A new evaluation marks those it runs beside.                            *)
LEMMA EvaluateHolds ==
  ASSUME SInv, NEW o \in Callers, Evaluate(o) PROVE SInv'
<1> DEFINE beside == {e \in DOMAIN evals : InFlight(e)}
           marked == [e \in DOMAIN evals |-> [evals[e] EXCEPT !.shared = @ \/ e \in beside]]
           new == [owner |-> o, pc |-> "drop", filled |-> 0,
                   shared |-> beside # {}, got |-> NoTable]
           n == Len(evals)
<1>1. /\ n < MaxEvals
      /\ evals' = Append(marked, new)
      /\ UNCHANGED <<active, requests, callers, stopped, relation, conn, lingering, paired>>
  BY DEF Evaluate
<1>2. evals \in Seq(Evaluation) /\ n \in Nat /\ DOMAIN evals = 1..n
  BY DEF SInv, SqlTypeOK
<1>3. new \in Evaluation
  <2>2. NoTable \in Seq(Row \union {<<None, None>>})
    BY DEF NoTable
  <2> QED
    BY <2>2, SqlAssumption DEF Evaluation, Await
<1>4. \A e \in 1..n :
         /\ marked[e] \in Evaluation
         /\ marked[e].owner = evals[e].owner /\ marked[e].pc = evals[e].pc
         /\ marked[e].filled = evals[e].filled /\ marked[e].got = evals[e].got
         /\ marked[e].shared <=> evals[e].shared \/ InFlight(e)
  <2> TAKE e \in 1..n
  <2>1. evals[e] \in Evaluation
    BY <1>2
  <2>2. marked[e] = [evals[e] EXCEPT !.shared = @ \/ InFlight(e)]
    BY <1>2
  <2> HIDE DEF marked
  <2> QED
    BY <2>1, <2>2 DEF Evaluation
<1>5. marked \in Seq(Evaluation) /\ Len(marked) = n
  <2>1. marked \in [1..n -> Evaluation]
    BY <1>2, <1>4
  <2> HIDE DEF marked, n
  <2> QED
    BY <1>2, <2>1
<1>6. /\ evals' \in Seq(Evaluation) /\ Len(evals') = n + 1 /\ DOMAIN evals' = 1..(n + 1)
      /\ \A e \in 1..n : evals'[e] = marked[e]
      /\ evals'[n + 1] = new
  <2> HIDE DEF marked, new, n
  <2> QED
    BY <1>1, <1>2, <1>3, <1>5, AppendProperties
<1>7. /\ new.owner = o /\ new.pc = "drop" /\ new.filled = 0
      /\ new.shared <=> \E e \in 1..n : InFlight(e)
  BY <1>2
<1> HIDE DEF marked, new, n
<1>8. \A e \in 1..n :
         /\ evals'[e].owner = evals[e].owner /\ evals'[e].pc = evals[e].pc
         /\ evals'[e].filled = evals[e].filled /\ evals'[e].got = evals[e].got
         /\ evals'[e].shared <=> evals[e].shared \/ InFlight(e)
  BY <1>4, <1>6
<1>9. /\ evals'[n + 1].owner = o /\ evals'[n + 1].pc = "drop"
      /\ evals'[n + 1].filled = 0
      /\ evals'[n + 1].shared <=> \E e \in 1..n : InFlight(e)
  BY <1>6, <1>7
<1>10. \A e \in DOMAIN evals' : e \in 1..n \/ e = n + 1
  BY <1>2, <1>6
<1>11. SqlTypeOK'
  BY <1>1, <1>6 DEF SInv, SqlTypeOK
<1>12. Counted'
  BY <1>1, <1>2, <1>6, SqlAssumption DEF SInv, Counted
<1>15. Lone'
  BY <1>2, <1>8, <1>9, <1>10 DEF Lone, InFlight
<1>16. Filling'
  BY <1>1, <1>2, <1>8, <1>9, <1>10 DEF SInv, Filling
<1>17. Waited'
  <2>1. Parked' = Parked
    BY <1>2, <1>6, <1>8, <1>9, <1>10 DEF Parked
  <2> QED
    BY <1>1, <2>1 DEF SInv, Waited
<1> QED
  BY <1>11, <1>12, <1>15, <1>16, <1>17 DEF SInv

(* Every step keeps the invariant.                                         *)
LEMMA NextHolds == SInv /\ [SqlNext]_sqlVars => SInv'
<1> SUFFICES ASSUME SInv, [SqlNext]_sqlVars PROVE SInv'
  OBVIOUS
<1>1. CASE BeginRequest \/ BeginPass \/ \E o \in Callers : End(o)
  BY <1>1, CallersHold
<1>2. ASSUME NEW o \in Callers, Stop(o) \/ Evaluate(o) PROVE SInv'
  BY <1>2, StopHolds, EvaluateHolds
<1>3. ASSUME NEW e \in DOMAIN evals,
             \/ Drop(e) \/ Create(e) \/ Insert(e) \/ RegisterFails(e)
             \/ Execute(e) \/ Return(e) \/ QueryFails(e) \/ GiveUp(e)
      PROVE  SInv'
  BY <1>3, DropHolds, CreateHolds, InsertHolds, RegisterFailsHolds, ExecuteHolds, ReturnHolds,
     GiveUpHolds
<1>4. CASE UNCHANGED sqlVars
  BY <1>4 DEF sqlVars, SInv, SqlTypeOK, Counted, Lone, Filling, Waited, InFlight, Parked
<1> QED
  BY <1>1, <1>2, <1>3, <1>4 DEF SqlNext

(* The invariant holds throughout.                                         *)
LEMMA AlwaysSInv == SqlSpec => []SInv
  BY InitHolds, NextHolds, PTL DEF SqlSpec

------------------------------------------------------------------------------
(* The connection, the relation and the evaluations keep their types.      *)
THEOREM SqlTypeCorrect == SqlSpec => []SqlTypeOK
<1>1. SInv => SqlTypeOK
  BY DEF SInv
<1> QED
  BY <1>1, AlwaysSInv, PTL

(* registerRelation and the query after it: an evaluation nothing ran      *)
(* beside answers from its own rows, whatever was registered, broken off,  *)
(* cancelled or given up on before it.                                     *)
THEOREM LoneReaderReadsOwnRows == SqlSpec => []AloneReadsOwnRows
<1>1. SInv => AloneReadsOwnRows
  BY DEF SInv, Filling, AloneReadsOwnRows, Answered
<1> QED
  BY <1>1, AlwaysSInv, PTL

(* hasLingeringSql: no request starts beside a parked query that was       *)
(* parked while no other was, whatever passes run meanwhile.               *)
THEOREM NeverHalfDeadRace == SqlSpec => NoHalfDeadRace
<1>1. SInv /\ [SqlNext]_sqlVars => [requests' # requests => Parked \subseteq paired]_sqlVars
  <2> SUFFICES ASSUME SInv, SqlNext, requests' # requests PROVE Parked \subseteq paired
    BY DEF sqlVars
  <2>1. BeginRequest
    BY DEF SqlNext, BeginPass, Begin, Stop, End, Evaluate, Drop, Create, Insert, RegisterFails,
           Execute, Return, QueryFails, GiveUp, Park
  <2>2. lingering = None
    BY <2>1 DEF BeginRequest
  <2>3. \A e \in Parked : e # None
    BY EvaluationAt DEF SInv, SqlTypeOK, Parked, None
  <2> QED
    BY <2>2, <2>3 DEF SInv, Waited
<1> QED
  BY <1>1, AlwaysSInv, PTL DEF SqlSpec, NoHalfDeadRace

=============================================================================
