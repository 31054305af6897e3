----------------------------- MODULE ChatProofs -----------------------------
(***************************************************************************)
(* The two ways a request is made: the recovery loop a typed one goes      *)
(* through (RequestLoop), and voice input over the engine's rebuilds       *)
(* (VoiceSession), for any transformations, any recovery budget and any    *)
(* length of plans, and for every number of presses, toggles, clips,       *)
(* requests and changes of settings.                                       *)
(***************************************************************************)
EXTENDS RequestLoop, VoiceSession, SequenceLemmas, SequenceTheorems, TLAPS

------------------------------------------------------------------------------
(* RequestLoop.  Type correctness, the single report, the age of the answer *)
(* a request carries, and rows that are those of the committed plan.       *)

(* The request in the loop is the last one accepted, and younger than      *)
(* every commit.                                                           *)
Looping ==
  /\ pc = "idle" <=> current = None
  /\ current # None => current = asked /\ lastCommit < asked
  /\ lastCommit <= asked

(* A replay in flight yields the rows of the plan it was asked for.        *)
ReplayedWhole ==
  /\ pc = "replay" => WholeReplay(newRows, tried)
  /\ \A set \in aside : WholeReplay(set.rows, set.plan)

LInv == LoopTypeOK /\ Looping /\ ReplayedWhole /\ ReportedOnce /\ AnswerIsFresh /\ RowsMatchPlan

------------------------------------------------------------------------------
(* The steps of a plan without their stamps.                               *)
LEMMA OpsType ==
  ASSUME NEW plan \in Seq(Stamped)
  PROVE  /\ Ops(plan) \in Seq(Step)
         /\ Len(Ops(plan)) = Len(plan)
         /\ \A i \in 1..Len(plan) : Ops(plan)[i] = plan[i].op
<1>1. DOMAIN plan = 1..Len(plan) /\ Len(plan) \in Nat
  OBVIOUS
<1>2. \A i \in 1..Len(plan) : plan[i].op \in Step
  <2>1. \A i \in 1..Len(plan) : plan[i] \in Stamped
    OBVIOUS
  <2> QED
    BY <2>1 DEF Stamped
<1>3. Ops(plan) = [i \in 1..Len(plan) |-> plan[i].op]
  BY <1>1 DEF Ops
<1> DEFINE n == Len(plan)
           s == Ops(plan)
<1>4. n \in Nat /\ s \in [1..n -> Step] /\ \A i \in 1..n : s[i] = plan[i].op
  BY <1>1, <1>2, <1>3
<1> HIDE DEF n, s
<1>5. s \in Seq(Step) /\ Len(s) = n
  BY <1>4
<1> QED
  BY <1>4, <1>5 DEF n, s

(* Rows are the trace of steps on a table, or none.                        *)
LEMMA ApplyType ==
  ASSUME NEW ops \in Seq(Step), NEW t \in 0..MaxLoads
  PROVE  Apply(Source(t), ops) \in Rows
<1>1. <<>> \o ops \in Seq(Step) /\ <<>> \in Seq(Step)
  BY ConcatEmptySeq
<1>2. Source(t) \in [source : 0..MaxLoads, trace : Seq(Step)] /\ Source(t).trace = <<>>
  BY <1>1 DEF Source
<1>3. [Source(t) EXCEPT !.trace = Source(t).trace \o ops] \in [source : 0..MaxLoads, trace : Seq(Step)]
  BY <1>1, <1>2
<1> QED
  BY <1>3 DEF Apply, Rows

(* Steps applied in two goes are the steps applied in one.                 *)
LEMMA ApplyRest ==
  ASSUME NEW ops \in Seq(Step), NEW n \in 0..Len(ops), NEW t \in Nat,
         Apply(Source(t), SubSeq(ops, 1, n)) # NoRows
  PROVE  Apply(Apply(Source(t), SubSeq(ops, 1, n)), SubSeq(ops, n + 1, Len(ops)))
           = Apply(Source(t), ops)
<1> DEFINE a == SubSeq(ops, 1, n)
           b == SubSeq(ops, n + 1, Len(ops))
<1>1. /\ a \in Seq(Step) /\ Len(a) = n
      /\ \A i \in 1..n : a[i] = ops[i]
  BY SubSeqProperties
<1>2. /\ b \in Seq(Step) /\ Len(b) = Len(ops) - n
      /\ \A i \in 1..(Len(ops) - n) : b[i] = ops[n + i]
  <2>1. \A i \in (n + 1)..Len(ops) : ops[i] \in Step
    OBVIOUS
  <2>2. n + 1 \in Int /\ Len(ops) \in Int
    OBVIOUS
  <2>3. /\ b \in Seq(Step)
        /\ Len(b) = IF n + 1 <= Len(ops) THEN Len(ops) - (n + 1) + 1 ELSE 0
        /\ \A i \in 1..(Len(ops) - (n + 1) + 1) : b[i] = ops[n + 1 + i - 1]
    BY <2>1, <2>2, SubSeqProperties
  <2> HIDE DEF b
  <2> QED
    BY <2>3
<1>3. Apply(Source(t), a) # NoRows
  OBVIOUS
<1> HIDE DEF a, b
<1>4. a \o b = ops
  <2>1. /\ a \o b \in Seq(Step) /\ Len(a \o b) = Len(ops)
        /\ \A i \in 1..Len(ops) : (a \o b)[i] = IF i <= n THEN a[i] ELSE b[i - n]
    BY <1>1, <1>2, ConcatProperties
  <2>2. \A i \in 1..Len(ops) : (a \o b)[i] = ops[i]
    <3> TAKE i \in 1..Len(ops)
    <3>1. CASE i <= n
      BY <1>1, <2>1, <3>1
    <3>2. CASE ~(i <= n)
      <4>1. i - n \in 1..(Len(ops) - n) /\ n + (i - n) = i
        BY <3>2
      <4>2. b[i - n] = ops[n + (i - n)]
        BY <1>2, <4>1
      <4>3. (a \o b)[i] = b[i - n]
        BY <2>1, <3>2
      <4> QED
        BY <4>1, <4>2, <4>3
    <3> QED
      BY <3>1, <3>2
  <2> QED
    BY <2>1, <2>2, SeqEqual
<1>5. Source(t) # NoRows /\ Source(t).trace = <<>>
  BY DEF Source, NoRows
<1>6. <<>> \o a = a /\ <<>> \o ops = ops
  BY <1>1, ConcatEmptySeq
<1>7. /\ Apply(Source(t), a) = [Source(t) EXCEPT !.trace = a]
      /\ Apply(Source(t), a).trace = a
  BY <1>3, <1>5, <1>6 DEF Apply, Source
<1>8. Apply(Apply(Source(t), a), b)
        = IF Wiped(ops) THEN NoRows ELSE [Apply(Source(t), a) EXCEPT !.trace = ops]
  BY <1>3, <1>4, <1>7 DEF Apply
<1>9. Apply(Source(t), ops) = IF Wiped(ops) THEN NoRows ELSE [Source(t) EXCEPT !.trace = ops]
  BY <1>5, <1>6 DEF Apply
<1>10. [Apply(Source(t), a) EXCEPT !.trace = ops] = [Source(t) EXCEPT !.trace = ops]
  BY <1>7 DEF Source
<1> QED
  BY <1>8, <1>9, <1>10 DEF a, b

(* An incremental replay yields what a full one would, of the table its    *)
(* rows came from.                                                         *)
LEMMA ReplayIsWhole ==
  ASSUME LoopTypeOK, RowsMatchPlan,
         NEW plan \in Seq(Stamped), NEW fresh \in BOOLEAN
  PROVE  WholeReplay(Replay(plan, fresh), plan) /\ Replay(plan, fresh) \in Rows
<1>0. table \in 0..MaxLoads /\ MaxLoads \in Nat /\ spec \in Seq(Stamped)
  BY LoopAssumption DEF LoopTypeOK
<1>1. CASE ~fresh /\ IsPrefix(spec, plan) /\ rows # NoRows
  <2> DEFINE n == Len(spec)
             ops == Ops(plan)
  <2>1. n \in Nat /\ n <= Len(plan) /\ SubSeq(spec, 1, n) = SubSeq(plan, 1, n)
    BY <1>0, <1>1 DEF IsPrefix
  <2>2. ops \in Seq(Step) /\ Len(ops) = Len(plan)
        /\ \A i \in 1..Len(plan) : ops[i] = plan[i].op
    BY OpsType
  <2>3. /\ Ops(spec) \in Seq(Step) /\ Len(Ops(spec)) = n
        /\ \A i \in 1..n : Ops(spec)[i] = spec[i].op
    BY <1>0, OpsType
  <2>4. \A i \in 1..n : spec[i] = plan[i]
    <3>1. \A i \in 1..n : SubSeq(spec, 1, n)[i] = spec[i] /\ SubSeq(plan, 1, n)[i] = plan[i]
      BY <2>1
    <3> QED
      BY <2>1, <3>1
  <2>8. Replay(plan, fresh) = Apply(rows, SubSeq(ops, n + 1, Len(plan)))
    BY <1>1 DEF Replay
  <2> HIDE DEF n, ops
  <2>5. Ops(spec) = SubSeq(ops, 1, n)
    <3>1. /\ SubSeq(ops, 1, n) \in Seq(Step) /\ Len(SubSeq(ops, 1, n)) = n
          /\ \A i \in 1..n : SubSeq(ops, 1, n)[i] = ops[i]
      BY <2>1, <2>2
    <3>2. \A i \in 1..n : Ops(spec)[i] = SubSeq(ops, 1, n)[i]
      BY <2>1, <2>2, <2>3, <2>4, <3>1
    <3> QED
      BY <2>3, <3>1, <3>2, SeqEqual
  <2>6. \A t \in 0..table : rows = Apply(Source(t), Ops(spec)) => Replay(plan, fresh) = Apply(Source(t), Ops(plan))
    <3> SUFFICES ASSUME NEW t \in 0..table, rows = Apply(Source(t), Ops(spec))
                 PROVE  Replay(plan, fresh) = Apply(Source(t), Ops(plan))
      OBVIOUS
    <3>1. n \in 0..Len(ops) /\ t \in Nat
      BY <2>1, <2>2
    <3>2. Apply(Source(t), SubSeq(ops, 1, n)) # NoRows
      BY <1>1, <2>5
    <3>3. Apply(Apply(Source(t), SubSeq(ops, 1, n)), SubSeq(ops, n + 1, Len(ops))) = Apply(Source(t), ops)
      BY <2>2, <3>1, <3>2, ApplyRest
    <3> QED
      BY <2>2, <2>5, <2>8, <3>3 DEF ops
  <2>7. WholeReplay(Replay(plan, fresh), plan)
    BY <1>0, <2>6 DEF RowsMatchPlan, WholeReplay
  <2>9. PICK t \in 0..table : Replay(plan, fresh) = Apply(Source(t), Ops(plan))
    BY <2>7 DEF WholeReplay
  <2>10. Apply(Source(t), Ops(plan)) \in Rows
    BY <1>0, <2>2, ApplyType DEF ops
  <2> QED
    BY <2>7, <2>9, <2>10
<1>2. CASE ~(~fresh /\ IsPrefix(spec, plan) /\ rows # NoRows)
  <2>1. Replay(plan, fresh) = Apply(Source(table), Ops(plan))
    BY <1>2 DEF Replay
  <2>2. Apply(Source(table), Ops(plan)) \in Rows
    BY <1>0, OpsType, ApplyType
  <2>3. table \in 0..table
    BY <1>0
  <2> QED
    BY <2>1, <2>2, <2>3 DEF WholeReplay
<1> QED
  BY <1>1, <1>2

(* Stamping changes no step and keeps the type of the plan.                *)
LEMMA StampKeepsSteps ==
  ASSUME NEW plan \in Seq(Stamped), NEW before \in Seq(Stamped), NEW query \in Asked
  PROVE  /\ StampQueries(plan, before, query) \in Seq(Stamped)
         /\ Ops(StampQueries(plan, before, query)) = Ops(plan)
<1> DEFINE Prior(i) == Nth(before, plan[i].op, Rank(plan, i))
           added == {i \in DOMAIN plan : Prior(i) = {}}
           At(i) == IF Prior(i) # {} THEN before[CHOOSE j \in Prior(i) : TRUE]
                    ELSE [plan[i] EXCEPT !.query = IF i = Min(added) THEN query ELSE @]
           s == StampQueries(plan, before, query)
<1>1. s = [i \in DOMAIN plan |-> At(i)]
  BY DEF StampQueries
<1>2. \A i \in DOMAIN plan : At(i) \in Stamped /\ At(i).op = plan[i].op
  <2> TAKE i \in DOMAIN plan
  <2>1. CASE Prior(i) # {}
    <3> DEFINE j == CHOOSE k \in Prior(i) : TRUE
    <3>1. j \in Prior(i)
      BY <2>1
    <3>2. j \in DOMAIN before /\ before[j].op = plan[i].op
      BY <3>1 DEF Nth
    <3>3. At(i) = before[j]
      BY <2>1
    <3> HIDE DEF j, At
    <3> QED
      BY <3>2, <3>3
  <2>2. CASE Prior(i) = {}
    <3> DEFINE q == IF i = Min(added) THEN query ELSE plan[i].query
    <3>1. plan[i] \in Stamped
      OBVIOUS
    <3>2. q \in Asked \union {None}
      BY <3>1 DEF Stamped
    <3>3. At(i) = [plan[i] EXCEPT !.query = q]
      BY <2>2
    <3> HIDE DEF q, At
    <3> QED
      BY <3>1, <3>2, <3>3 DEF Stamped
  <2> QED
    BY <2>1, <2>2
<1> HIDE DEF At, s
<1>3. DOMAIN plan = 1..Len(plan) /\ Len(plan) \in Nat
  OBVIOUS
<1>4. /\ s \in Seq(Stamped) /\ DOMAIN s = DOMAIN plan
      /\ \A i \in DOMAIN plan : s[i].op = plan[i].op
  BY <1>1, <1>2, <1>3
<1>5. Ops(s) = Ops(plan)
  BY <1>4 DEF Ops
<1> QED
  BY <1>4, <1>5 DEF s

(* What the model sends is a plan.                                         *)
LEMMA PatchesType ==
  ASSUME NEW before \in Seq(Stamped), NEW plan \in PatchesOf(before)
  PROVE  plan \in Seq(Stamped)
<1>1. CASE \E s \in Step : plan = Append(before, [op |-> s, query |-> None])
  <2>1. \A s \in Step : [op |-> s, query |-> None] \in Stamped
    BY DEF Stamped
  <2> QED
    BY <1>1, <2>1, AppendProperties
<1>2. ASSUME NEW k \in DOMAIN before, plan = RemoveAt(before, k)
      PROVE  plan \in Seq(Stamped)
  <2> DEFINE a == SubSeq(before, 1, k - 1)
             b == SubSeq(before, k + 1, Len(before))
  <2>1. k \in 1..Len(before) /\ Len(before) \in Nat
    OBVIOUS
  <2>2. a \in Seq(Stamped)
    <3>1. \A i \in 1..(k - 1) : before[i] \in Stamped
      BY <2>1
    <3>2. 1 \in Int /\ k - 1 \in Int
      BY <2>1
    <3> QED
      BY <3>1, <3>2, SubSeqProperties
  <2>3. b \in Seq(Stamped)
    <3>1. \A i \in (k + 1)..Len(before) : before[i] \in Stamped
      BY <2>1
    <3>2. k + 1 \in Int /\ Len(before) \in Int
      BY <2>1
    <3> QED
      BY <3>1, <3>2, SubSeqProperties
  <2>4. plan = a \o b
    BY <1>2 DEF RemoveAt
  <2> HIDE DEF a, b
  <2> QED
    BY <2>2, <2>3, <2>4, ConcatProperties
<1>3. CASE plan \in BarePlans
  <2>0. PICK n \in 0..MaxSteps : \E ops \in [1..n -> Step] : plan = Bare(ops)
    BY <1>3 DEF BarePlans
  <2>1. PICK ops \in [1..n -> Step] : plan = Bare(ops)
    BY <2>0
  <2>2. DOMAIN ops = 1..n /\ n \in Nat
    BY LoopAssumption
  <2>3. \A i \in 1..n : [op |-> ops[i], query |-> None] \in Stamped
    BY DEF Stamped
  <2> QED
    BY <2>1, <2>2, <2>3 DEF Bare
<1> QED
  BY <1>1, <1>2, <1>3 DEF PatchesOf

------------------------------------------------------------------------------
(* The values of a loop at rest.                                           *)
LEMMA Blank ==
  /\ <<>> \in Seq(Stamped) /\ <<>> \in Seq(Step) /\ NoRows \in Rows
  /\ None \in 0..MaxRequests /\ 0 \in 0..(Budget - 1)
  BY LoopAssumption DEF None, Rows

(* The empty plan leaves a table as it was read.                           *)
LEMMA EmptyPlan ==
  ASSUME NEW t \in Nat
  PROVE  Apply(Source(t), Ops(<<>>)) = Source(t)
<1>1. Ops(<<>>) = <<>> /\ <<>> \o <<>> = <<>>
  BY DEF Ops
<1>2. Source(t) # NoRows /\ Source(t).trace = <<>>
  BY DEF Source, NoRows
<1>3. ~Wiped(<<>>)
  BY DEF Wiped
<1>4. [Source(t) EXCEPT !.trace = <<>>] = Source(t)
  BY DEF Source
<1> QED
  BY <1>1, <1>2, <1>3, <1>4 DEF Apply

(* The loop starts in the invariant.                                       *)
LEMMA InitHolds == LoopInit => LInv
<1> SUFFICES ASSUME LoopInit PROVE LInv
  OBVIOUS
<1> USE LoopAssumption DEF LoopInit
<1>1. LoopTypeOK
  <2>1. asked \in 0..MaxRequests /\ reports \in [Asked -> Nat]
    BY DEF None
  <2>2. table \in 0..MaxLoads /\ rows \in Rows
    BY Blank DEF Rows, Source
  <2> QED
    BY <2>1, <2>2, Blank DEF LoopTypeOK
<1>2. Looping /\ ReplayedWhole /\ ReportedOnce /\ AnswerIsFresh
  BY DEF Looping, ReplayedWhole, ReportedOnce, AnswerIsFresh, Asked, None
<1>3. RowsMatchPlan
  BY EmptyPlan DEF RowsMatchPlan, WholeReplay
<1> QED
  BY <1>1, <1>2, <1>3 DEF LInv

(* The request in the loop has not reported yet.                           *)
LEMMA FirstReport ==
  ASSUME LInv, current # None
  PROVE  /\ current \in Asked /\ current = asked /\ reports[current] = 0
         /\ ReportDebug(reports[current]) = 1
         /\ ReportDebug(ReportDebug(reports[current])) = 1
<1>1. current \in Asked /\ current = asked
  BY LoopAssumption DEF LInv, LoopTypeOK, Looping, Asked, None
<1>2. reports[current] = 0
  BY <1>1 DEF LInv, ReportedOnce
<1> QED
  BY <1>1, <1>2 DEF ReportDebug

(* What a request leaves behind when it settles.                           *)
LEMMA SettleLeaves ==
  ASSUME LInv, current # None, Finally(1), asked' = asked
  PROVE  /\ current' = None /\ pc' = "idle" /\ turn' = 0 /\ signalled' = FALSE
         /\ specBefore' = <<>> /\ tried' = <<>> /\ newRows' = NoRows
         /\ reports' \in [Asked -> Nat]
         /\ ReportedOnce'
<1>1. current \in Asked /\ current = asked
  BY FirstReport
<1>2. /\ reports' = [reports EXCEPT ![current] = 1]
      /\ current' = None /\ pc' = "idle" /\ turn' = 0 /\ signalled' = FALSE
      /\ specBefore' = <<>> /\ tried' = <<>> /\ newRows' = NoRows
  BY DEF Finally
<1>3. reports \in [Asked -> Nat]
  BY DEF LInv, LoopTypeOK, beside
<1>4. reports' \in [Asked -> Nat]
  BY <1>2, <1>3
<1>5. ReportedOnce'
  <2>1. \A r \in Asked : r \in Nat /\ r # None
    BY DEF Asked, None
  <2> QED
    BY <1>1, <1>2, <1>3, <2>1 DEF LInv, ReportedOnce
<1> QED
  BY <1>2, <1>4, <1>5

(* A request that settles without a commit.                                *)
LEMMA SettleHolds ==
  ASSUME LInv, current # None, Finally(1), asked' = asked,
         UNCHANGED <<beside, spec, rows, lastCommit>>,
         lastAnswer' \in {lastAnswer, current}
  PROVE  LInv'
<1>1. /\ current' = None /\ pc' = "idle" /\ turn' = 0 /\ signalled' = FALSE
      /\ specBefore' = <<>> /\ tried' = <<>> /\ newRows' = NoRows
      /\ reports' \in [Asked -> Nat]
      /\ ReportedOnce'
  BY SettleLeaves
<1>2. current \in Asked /\ current = asked
  BY FirstReport
<1>3. LoopTypeOK'
  <2>1. current \in 0..MaxRequests
    BY DEF LInv, LoopTypeOK, beside
  <2> QED
    BY <1>1, <2>1, Blank DEF LInv, LoopTypeOK, beside
<1>4. Looping'
  BY <1>1 DEF LInv, Looping
<1>5. ReplayedWhole'
  BY <1>1 DEF LInv, ReplayedWhole, WholeReplay, beside
<1>6. AnswerIsFresh'
  BY <1>2 DEF LInv, Looping, AnswerIsFresh
<1>7. RowsMatchPlan'
  BY DEF LInv, RowsMatchPlan, WholeReplay, beside
<1> QED
  BY <1>1, <1>3, <1>4, <1>5, <1>6, <1>7 DEF LInv

(* Whatever is thrown out of the loop settles the request.                 *)
LEMMA ThrowHolds ==
  ASSUME LInv, current # None, Throw, UNCHANGED <<beside, spec, rows, asked, lastAnswer, lastCommit>>
  PROVE  LInv'
<1>1. Finally(1)
  BY FirstReport DEF Throw
<1> QED
  BY <1>1, SettleHolds

(* The next turn, or the exhausted budget.                                 *)
LEMMA NextTurnHolds ==
  ASSUME LInv, current # None, NextTurn, UNCHANGED <<beside, spec, rows, asked, lastAnswer, lastCommit>>
  PROVE  LInv'
<1>1. CASE turn + 1 < Budget
  <2>1. /\ turn' = turn + 1 /\ pc' = "model" /\ tried' = <<>> /\ newRows' = NoRows
        /\ UNCHANGED <<current, signalled, specBefore, reports>>
    BY <1>1 DEF NextTurn
  <2>2. LoopTypeOK'
    BY <1>1, <2>1, Blank, LoopAssumption DEF LInv, LoopTypeOK, beside
  <2>3. Looping' /\ ReplayedWhole' /\ ReportedOnce' /\ AnswerIsFresh' /\ RowsMatchPlan'
    BY <2>1 DEF LInv, Looping, ReplayedWhole, ReportedOnce, AnswerIsFresh, RowsMatchPlan, WholeReplay, beside
  <2> QED
    BY <2>2, <2>3 DEF LInv
<1>2. CASE ~(turn + 1 < Budget)
  <2>1. Finally(ReportDebug(ReportDebug(reports[current])))
    BY <1>2 DEF NextTurn
  <2>2. Finally(1)
    BY <2>1, FirstReport
  <2> QED
    BY <2>2, SettleHolds
<1> QED
  BY <1>1, <1>2

(* The actions that need a request in the loop find one.                   *)
LEMMA InLoop ==
  ASSUME LInv, pc # "idle" PROVE current # None
  BY DEF LInv, Looping

(* A request is accepted: it is the latest, and has not reported.          *)
LEMMA AskHolds ==
  ASSUME LInv, Ask PROVE LInv'
<1>1. /\ current = None /\ asked < MaxRequests
      /\ asked' = asked + 1 /\ current' = asked + 1
      /\ pc' = "model" /\ turn' = 0 /\ signalled' = FALSE /\ specBefore' = spec
      /\ UNCHANGED <<beside, spec, rows, tried, newRows, lastAnswer, reports, lastCommit>>
  BY DEF Ask
<1>2. asked \in Nat /\ asked + 1 \in 0..MaxRequests /\ lastCommit \in Nat
  BY <1>1, LoopAssumption DEF LInv, LoopTypeOK, beside
<1>3. LoopTypeOK'
  BY <1>1, <1>2, Blank DEF LInv, LoopTypeOK, beside
<1>4. Looping'
  BY <1>1, <1>2 DEF LInv, Looping, None
<1>5. ReportedOnce'
  <2>1. \A r \in Asked : r \in Nat /\ r # None
    BY DEF Asked, None
  <2> QED
    BY <1>1, <1>2, <2>1 DEF LInv, ReportedOnce
<1>6. ReplayedWhole' /\ AnswerIsFresh' /\ RowsMatchPlan'
  BY <1>1 DEF LInv, ReplayedWhole, AnswerIsFresh, RowsMatchPlan, WholeReplay, beside
<1> QED
  BY <1>3, <1>4, <1>5, <1>6 DEF LInv

(* An abort changes the signal only.                                       *)
LEMMA AbortHolds ==
  ASSUME LInv, Abort PROVE LInv'
<1>1. /\ signalled' = TRUE
      /\ UNCHANGED <<beside, spec, rows, asked, current, pc, turn, specBefore, tried, newRows,
                     lastAnswer, reports, lastCommit>>
  BY DEF Abort
<1>2. LoopTypeOK'
  BY <1>1 DEF LInv, LoopTypeOK, beside
<1>3. Looping' /\ ReplayedWhole' /\ ReportedOnce' /\ AnswerIsFresh' /\ RowsMatchPlan'
  BY <1>1 DEF LInv, Looping, ReplayedWhole, ReportedOnce, AnswerIsFresh, RowsMatchPlan, WholeReplay, beside
<1> QED
  BY <1>2, <1>3 DEF LInv

(* The turns that end without a commit.                                    *)
LEMMA TurnHolds ==
  ASSUME LInv, CallFails \/ Refused \/ Reply \/ Decline \/ ReplayFails PROVE LInv'
<1>1. CASE CallFails
  BY <1>1, InLoop, ThrowHolds DEF CallFails
<1>2. CASE Refused
  BY <1>2, InLoop, NextTurnHolds DEF Refused
<1>3. CASE Reply
  <2>1. current # None
    BY <1>3, InLoop DEF Reply
  <2>2. Finally(1)
    BY <1>3, <2>1, FirstReport DEF Reply
  <2>3. lastAnswer' = current /\ UNCHANGED <<beside, spec, rows, asked, lastCommit>>
    BY <1>3 DEF Reply
  <2> QED
    BY <2>1, <2>2, <2>3, SettleHolds
<1>4. CASE Decline
  BY <1>4, InLoop, ThrowHolds DEF Decline
<1>5. CASE ReplayFails
  BY <1>5, InLoop, ThrowHolds, NextTurnHolds DEF ReplayFails
<1> QED
  BY <1>1, <1>2, <1>3, <1>4, <1>5

(* A patch waits at the gate.                                              *)
LEMMA PatchHolds ==
  ASSUME LInv, NEW plan \in PatchesOf(spec), Patch(plan) PROVE LInv'
<1>1. /\ pc = "model" /\ tried' = plan /\ pc' = "confirm"
      /\ UNCHANGED <<beside, spec, rows, asked, current, turn, signalled, specBefore, newRows,
                     lastAnswer, reports, lastCommit>>
  BY DEF Patch
<1>2. plan \in Seq(Stamped)
  BY PatchesType DEF LInv, LoopTypeOK, beside
<1>3. LoopTypeOK'
  BY <1>1, <1>2 DEF LInv, LoopTypeOK, beside
<1>4. Looping' /\ ReplayedWhole' /\ ReportedOnce' /\ AnswerIsFresh' /\ RowsMatchPlan'
  BY <1>1 DEF LInv, Looping, ReplayedWhole, ReportedOnce, AnswerIsFresh, RowsMatchPlan, WholeReplay, beside
<1> QED
  BY <1>3, <1>4 DEF LInv

(* The gate passed: the replay starts from the rows of the moment.         *)
LEMMA ConfirmHolds ==
  ASSUME LInv, Confirm PROVE LInv'
<1>1. /\ pc = "confirm" /\ pc' = "replay" /\ newRows' = Replay(tried, FALSE)
      /\ UNCHANGED <<beside, spec, rows, asked, current, turn, signalled, specBefore, tried,
                     lastAnswer, reports, lastCommit>>
  BY DEF Confirm
<1>7. tried \in Seq(Stamped)
  BY DEF LInv, LoopTypeOK
<1>2. WholeReplay(Replay(tried, FALSE), tried) /\ Replay(tried, FALSE) \in Rows
  BY <1>7, ReplayIsWhole DEF LInv
<1>3. newRows' \in Rows
  BY <1>1, <1>2
<1>4. LoopTypeOK'
  BY <1>1, <1>3 DEF LInv, LoopTypeOK, beside
<1>5. Looping' /\ ReportedOnce' /\ AnswerIsFresh' /\ RowsMatchPlan'
  BY <1>1 DEF LInv, Looping, ReportedOnce, AnswerIsFresh, RowsMatchPlan, WholeReplay, beside
<1>6. ReplayedWhole'
  BY <1>1, <1>2 DEF LInv, ReplayedWhole, WholeReplay, beside
<1> QED
  BY <1>4, <1>5, <1>6 DEF LInv

(* A commit: the stamped plan has the steps the replay ran.                *)
LEMMA CommitHolds ==
  ASSUME LInv, Commit PROVE LInv'
<1>1. /\ pc = "replay" /\ spec' = StampQueries(tried, specBefore, current)
      /\ rows' = newRows /\ lastAnswer' = None /\ lastCommit' = current
      /\ Finally(ReportDebug(reports[current])) /\ UNCHANGED <<beside, asked>>
  BY DEF Commit
<1>2. current # None
  BY <1>1, InLoop
<1>3. Finally(1) /\ current \in Asked /\ current = asked
  BY <1>1, <1>2, FirstReport
<1>4. /\ current' = None /\ pc' = "idle" /\ turn' = 0 /\ signalled' = FALSE
      /\ specBefore' = <<>> /\ tried' = <<>> /\ newRows' = NoRows
      /\ reports' \in [Asked -> Nat]
      /\ ReportedOnce'
  BY <1>1, <1>2, <1>3, SettleLeaves
<1>5. spec' \in Seq(Stamped) /\ Ops(spec') = Ops(tried)
  BY <1>1, <1>3, StampKeepsSteps DEF LInv, LoopTypeOK, beside
<1>6. LoopTypeOK'
  <2>1. current \in 0..MaxRequests /\ asked \in 0..MaxRequests
    BY DEF LInv, LoopTypeOK, beside
  <2>2. /\ rows' \in Rows /\ table' \in 0..MaxLoads /\ raced' \in BOOLEAN
        /\ aside' \subseteq [plan : Seq(Stamped), rows : Rows]
    BY <1>1 DEF LInv, LoopTypeOK, beside
  <2> QED
    BY <1>1, <1>4, <1>5, <2>1, <2>2, Blank DEF LoopTypeOK
<1>7. Looping'
  BY <1>1, <1>3, <1>4 DEF Looping, Asked
<1>8. ReplayedWhole' /\ AnswerIsFresh'
  BY <1>1, <1>4 DEF LInv, ReplayedWhole, AnswerIsFresh, WholeReplay, beside
<1>9. RowsMatchPlan'
  BY <1>1, <1>5 DEF LInv, ReplayedWhole, RowsMatchPlan, WholeReplay, beside
<1> QED
  BY <1>4, <1>6, <1>7, <1>8, <1>9 DEF LInv

(* A setSpec starts beside the loop: it will yield the rows of its plan.   *)
LEMMA BeginSetSpecHolds ==
  ASSUME LInv, NEW plan \in PatchesOf(spec), NEW fresh \in BOOLEAN, BeginSetSpec(plan, fresh)
  PROVE  LInv'
<1>1. /\ aside' = {[plan |-> plan, rows |-> Replay(plan, fresh)]}
      /\ UNCHANGED <<current, pc, turn, signalled, specBefore, tried, newRows>>
      /\ UNCHANGED <<table, spec, rows, asked, lastAnswer, reports, lastCommit, raced>>
  BY DEF BeginSetSpec, request
<1>2. plan \in Seq(Stamped)
  BY PatchesType DEF LInv, LoopTypeOK
<1>3. WholeReplay(Replay(plan, fresh), plan) /\ Replay(plan, fresh) \in Rows
  BY <1>2, ReplayIsWhole DEF LInv
<1>4. LoopTypeOK'
  BY <1>1, <1>2, <1>3 DEF LInv, LoopTypeOK
<1>5. Looping' /\ ReportedOnce' /\ AnswerIsFresh' /\ RowsMatchPlan'
  BY <1>1 DEF LInv, Looping, ReportedOnce, AnswerIsFresh, RowsMatchPlan, WholeReplay
<1>6. ReplayedWhole'
  BY <1>1, <1>3 DEF LInv, ReplayedWhole, WholeReplay
<1> QED
  BY <1>4, <1>5, <1>6 DEF LInv

(* It lands, its plan and its rows together, or is dropped.                *)
LEMMA SetSpecEndHolds ==
  ASSUME LInv, NEW set \in aside, LandSetSpec(set) \/ DropSetSpec(set) PROVE LInv'
<1>1. /\ aside' = aside \ {set}
      /\ UNCHANGED <<current, pc, turn, signalled, specBefore, tried, newRows>>
      /\ UNCHANGED <<table, asked, lastAnswer, reports, lastCommit, raced>>
  BY DEF LandSetSpec, DropSetSpec, request
<1>2. (spec' = set.plan /\ rows' = set.rows) \/ UNCHANGED <<spec, rows>>
  BY DEF LandSetSpec, DropSetSpec
<1>3. set.plan \in Seq(Stamped) /\ set.rows \in Rows /\ WholeReplay(set.rows, set.plan)
  BY DEF LInv, LoopTypeOK, ReplayedWhole
<1>4. LoopTypeOK'
  BY <1>1, <1>2, <1>3 DEF LInv, LoopTypeOK
<1>5. Looping' /\ ReportedOnce' /\ AnswerIsFresh'
  BY <1>1 DEF LInv, Looping, ReportedOnce, AnswerIsFresh
<1>6. ReplayedWhole'
  BY <1>1 DEF LInv, ReplayedWhole, WholeReplay
<1>7. RowsMatchPlan'
  BY <1>1, <1>2, <1>3 DEF LInv, RowsMatchPlan, WholeReplay
<1> QED
  BY <1>4, <1>5, <1>6, <1>7 DEF LInv

(* A load empties the plan and takes the new table; what replays races it. *)
LEMMA LoadHolds ==
  ASSUME LInv, Load PROVE LInv'
<1>1. /\ table < MaxLoads /\ table' = table + 1
      /\ spec' = <<>> /\ rows' = Source(table + 1) /\ lastAnswer' = None
      /\ raced' = (pc = "replay" \/ aside # {})
      /\ UNCHANGED <<current, pc, turn, signalled, specBefore, tried, newRows>>
      /\ UNCHANGED <<asked, reports, aside, lastCommit>>
  BY DEF Load, request
<1>0. table \in Nat /\ table + 1 \in 0..MaxLoads /\ raced' \in BOOLEAN
  BY <1>1, LoopAssumption DEF LInv, LoopTypeOK
<1>2. LoopTypeOK'
  <2>1. rows' \in Rows
    BY <1>0, <1>1, Blank DEF Rows, Source
  <2> QED
    BY <1>0, <1>1, <2>1, Blank DEF LInv, LoopTypeOK
<1>3. Looping' /\ ReportedOnce' /\ AnswerIsFresh'
  BY <1>1 DEF LInv, Looping, ReportedOnce, AnswerIsFresh
<1>4. RowsMatchPlan'
  <2>1. table' \in 0..table' /\ table' \in Nat
    BY <1>0, <1>1
  <2>2. rows' = Apply(Source(table'), Ops(spec'))
    BY <1>1, <2>1, EmptyPlan
  <2> QED
    BY <2>1, <2>2 DEF RowsMatchPlan, WholeReplay
<1>5. ReplayedWhole'
  <2>1. 0..table \subseteq 0..table'
    BY <1>0, <1>1
  <2>2. CASE raced'
    BY <1>1, <2>1, <2>2 DEF LInv, ReplayedWhole, WholeReplay
  <2>3. CASE ~raced'
    BY <1>1, <2>3 DEF ReplayedWhole
  <2> QED
    BY <2>2, <2>3
<1> QED
  BY <1>2, <1>3, <1>4, <1>5 DEF LInv

(* Every step keeps the invariant.                                         *)
LEMMA NextHolds == LInv /\ [LoopNext]_loopVars => LInv'
<1> SUFFICES ASSUME LInv, [LoopNext]_loopVars PROVE LInv'
  OBVIOUS
<1>1. CASE Ask \/ Abort
  BY <1>1, AskHolds, AbortHolds
<1>2. CASE CallFails \/ Refused \/ Reply \/ Decline \/ ReplayFails
  BY <1>2, TurnHolds
<1>3. CASE Confirm \/ Commit \/ Load
  BY <1>3, ConfirmHolds, CommitHolds, LoadHolds
<1>4. ASSUME NEW plan \in PatchesOf(spec), Patch(plan) PROVE LInv'
  BY <1>4, PatchHolds
<1>5. ASSUME NEW plan \in PatchesOf(spec), NEW fresh \in BOOLEAN, BeginSetSpec(plan, fresh)
      PROVE  LInv'
  BY <1>5, BeginSetSpecHolds
<1>7. ASSUME NEW set \in aside, LandSetSpec(set) \/ DropSetSpec(set) PROVE LInv'
  BY <1>7, SetSpecEndHolds
<1>6. CASE UNCHANGED loopVars
  BY <1>6 DEF loopVars, request, LInv, LoopTypeOK, Looping, ReplayedWhole, ReportedOnce,
              AnswerIsFresh, RowsMatchPlan, WholeReplay
<1> QED
  BY <1>1, <1>2, <1>3, <1>4, <1>5, <1>6, <1>7 DEF LoopNext

(* The invariant holds throughout.                                         *)
LEMMA AlwaysLInv == LoopSpec => []LInv
  BY InitHolds, NextHolds, PTL DEF LoopSpec

------------------------------------------------------------------------------
(* The loop's scratch variables, the plans and the rows keep their types,  *)
(* and no request takes more turns than its budget.                        *)
THEOREM LoopTypeCorrect == LoopSpec => []LoopTypeOK
<1>1. LInv => LoopTypeOK
  BY DEF LInv
<1> QED
  BY <1>1, AlwaysLInv, PTL

(* replay(), request() and setSpec(): whatever incremental replays, failed *)
(* turns, undos and loads came before, the rows are those of a full replay *)
(* of the plan over one table: the one that is loaded, unless a replay was *)
(* under way when it was.                                                  *)
THEOREM RowsAlwaysMatchPlan == LoopSpec => []RowsMatchPlan
<1>1. LInv => RowsMatchPlan
  BY DEF LInv
<1> QED
  BY <1>1, AlwaysLInv, PTL

(* reportDebug: one report for every request that settled, none before.    *)
THEOREM AlwaysReportedOnce == LoopSpec => []ReportedOnce
<1>1. LInv => ReportedOnce
  BY DEF LInv
<1> QED
  BY <1>1, AlwaysLInv, PTL

(* The answer carried into the next prompt is younger than every commit.   *)
THEOREM AnswerAlwaysFresh == LoopSpec => []AnswerIsFresh
<1>1. LInv => AnswerIsFresh
  BY DEF LInv
<1> QED
  BY <1>1, AlwaysLInv, PTL

------------------------------------------------------------------------------
(* Whose text a step carries.  The k-th instance of a transformation in the *)
(* stamped plan takes the stamp of the k-th instance before, so that the    *)
(* text of the request in the loop can only be where this commit puts it:   *)
(* no plan the loop knows carries it yet (Older).                           *)

Past == IF current = None THEN asked ELSE asked - 1
CarriesUpTo(plan, n) == \A i \in DOMAIN plan : plan[i].query <= n
AsideUpTo(n) == \A set \in aside : CarriesUpTo(set.plan, n)
Older ==
  /\ CarriesUpTo(spec, Past) /\ CarriesUpTo(tried, Past) /\ CarriesUpTo(specBefore, Past)
  /\ AsideUpTo(Past)

InstancesOf(plan, op) == {i \in DOMAIN plan : plan[i].op = op}
Texts(plan) == [i \in DOMAIN plan |-> plan[i].query]

(* The stamps of a transformation's instances, and which instance each is. *)
LEMMA StampsAre ==
  ASSUME NEW plan \in Seq(Stamped), NEW op
  PROVE  LET N == InstancesOf(plan, op)
         IN  /\ IsFiniteSet(N) /\ Cardinality(N) \in Nat
             /\ StampsOf(plan, op) \in Seq(Asked \union {None})
             /\ Len(StampsOf(plan, op)) = Cardinality(N)
             /\ PlacesPicked(Texts(plan), N)
             /\ StampsOf(plan, op) = Picked(Texts(plan), N)
<1> DEFINE N == InstancesOf(plan, op)
<1>1. PICK n \in Nat : n = Len(plan) /\ DOMAIN plan = 1..n /\ \A i \in 1..n : plan[i] \in Stamped
  OBVIOUS
<1>2. \A i \in 1..n : plan[i].query \in Asked \union {None}
  BY <1>1 DEF Stamped
<1>3. Texts(plan) \in [1..n -> Asked \union {None}]
  BY <1>1, <1>2 DEF Texts
<1>4. Texts(plan) \in Seq(Asked \union {None}) /\ DOMAIN Texts(plan) = 1..n
  BY <1>1, <1>3, IsSequence
<1>5. N \in SUBSET DOMAIN Texts(plan)
  BY <1>1, <1>4 DEF InstancesOf
<1>6. StampsOf(plan, op) = Picked(Texts(plan), N)
  BY DEF StampsOf, Texts, InstancesOf
<1> HIDE DEF N
<1>7. /\ IsFiniteSet(N) /\ Cardinality(N) \in Nat
      /\ Picked(Texts(plan), N) \in Seq(Asked \union {None})
      /\ Len(Picked(Texts(plan), N)) = Cardinality(N)
      /\ PlacesPicked(Texts(plan), N)
  BY <1>4, <1>5, PickedIs
<1> QED
  BY <1>6, <1>7 DEF N

LEMMA RankIsUpTo ==
  ASSUME NEW plan \in Seq(Stamped), NEW i \in DOMAIN plan
  PROVE  Rank(plan, i) = UpTo(InstancesOf(plan, plan[i].op), i)
<1>1. PICK n \in Nat : n = Len(plan) /\ DOMAIN plan = 1..n
  OBVIOUS
<1>2. {j \in 1..i : plan[j].op = plan[i].op} =
        {j \in InstancesOf(plan, plan[i].op) : j <= i}
  BY <1>1 DEF InstancesOf
<1> QED
  BY <1>2 DEF Rank, UpTo

(* The instance of a transformation that has a number is the only one, and *)
(* there is one up to as many as there are.                                *)
LEMMA NthIs ==
  ASSUME NEW plan \in Seq(Stamped), NEW op, NEW k \in Nat \ {0}
  PROVE  /\ \A j \in Nth(plan, op, k) :
              /\ j \in DOMAIN plan /\ j \in InstancesOf(plan, op)
              /\ k \in 1..Cardinality(InstancesOf(plan, op))
              /\ StampsOf(plan, op)[k] = plan[j].query
         /\ Nth(plan, op, k) = {} <=> k > Cardinality(InstancesOf(plan, op))
<1> DEFINE N == InstancesOf(plan, op)
<1>1. /\ Cardinality(N) \in Nat /\ PlacesPicked(Texts(plan), N)
      /\ StampsOf(plan, op) = Picked(Texts(plan), N)
  BY StampsAre
<1>2. \A j \in N : j \in DOMAIN plan /\ Rank(plan, j) = UpTo(N, j)
  BY RankIsUpTo DEF InstancesOf
<1>3. Nth(plan, op, k) = {j \in N : UpTo(N, j) = k}
  <2>1. Nth(plan, op, k) = {j \in N : Rank(plan, j) = k}
    BY DEF Nth, InstancesOf
  <2> HIDE DEF N
  <2> QED
    BY <1>2, <2>1
<1> HIDE DEF N
<1>4. ASSUME NEW j \in Nth(plan, op, k)
      PROVE  /\ j \in DOMAIN plan /\ j \in N /\ k \in 1..Cardinality(N)
             /\ StampsOf(plan, op)[k] = plan[j].query
  <2>1. j \in N /\ UpTo(N, j) = k /\ j \in DOMAIN plan
    BY <1>2, <1>3
  <2>2. k \in 1..Cardinality(N) /\ Picked(Texts(plan), N)[k] = Texts(plan)[j]
    BY <1>1, <2>1 DEF PlacesPicked
  <2> QED
    BY <1>1, <2>1, <2>2 DEF Texts
<1>5. k <= Cardinality(N) => Nth(plan, op, k) # {}
  <2>1. k <= Cardinality(N) => k \in 1..Cardinality(N)
    BY <1>1
  <2> QED
    BY <1>1, <1>3, <2>1 DEF PlacesPicked
<1>6. k > Cardinality(N) => Nth(plan, op, k) = {}
  <2> SUFFICES ASSUME k > Cardinality(N), NEW j \in Nth(plan, op, k) PROVE FALSE
    OBVIOUS
  <2>1. k \in 1..Cardinality(N)
    BY <1>4
  <2> QED
    BY <1>1, <2>1
<1>7. Nth(plan, op, k) = {} <=> k > Cardinality(N)
  BY <1>1, <1>5, <1>6
<1> QED
  BY <1>4, <1>7 DEF N

(* What the stamping leaves on each step.                                  *)
LEMMA StampedIs ==
  ASSUME NEW plan \in Seq(Stamped), NEW before \in Seq(Stamped), NEW query \in Asked
  PROVE  LET stamped == StampQueries(plan, before, query)
             added == {i \in DOMAIN plan : Rank(plan, i) > Cardinality(InstancesOf(before, plan[i].op))}
         IN  /\ DOMAIN stamped = DOMAIN plan
             /\ \A op : InstancesOf(stamped, op) = InstancesOf(plan, op)
             /\ \A i \in DOMAIN plan : i \notin added =>
                  /\ stamped[i].query = StampsOf(before, plan[i].op)[Rank(plan, i)]
                  /\ \E j \in DOMAIN before : stamped[i].query = before[j].query
             /\ \A i \in added :
                  stamped[i].query = IF i = Min(added) THEN query ELSE plan[i].query
<1> DEFINE stamped == StampQueries(plan, before, query)
           Prior(i) == Nth(before, plan[i].op, Rank(plan, i))
           fresh == {i \in DOMAIN plan : Prior(i) = {}}
           added == {i \in DOMAIN plan : Rank(plan, i) > Cardinality(InstancesOf(before, plan[i].op))}
           At(i) == IF Prior(i) # {} THEN before[CHOOSE j \in Prior(i) : TRUE]
                    ELSE [plan[i] EXCEPT !.query = IF i = Min(fresh) THEN query ELSE @]
<1>1. stamped = [i \in DOMAIN plan |-> At(i)]
  BY DEF StampQueries
<1>2. stamped \in Seq(Stamped) /\ Ops(stamped) = Ops(plan)
  BY StampKeepsSteps
<1>3. \A i \in DOMAIN plan : Rank(plan, i) \in Nat \ {0}
  <2> SUFFICES ASSUME NEW i \in DOMAIN plan PROVE Rank(plan, i) \in Nat \ {0}
    OBVIOUS
  <2> DEFINE N == InstancesOf(plan, plan[i].op)
  <2>1. i \in N
    BY DEF InstancesOf
  <2>2. PlacesPicked(Texts(plan), N) /\ Cardinality(N) \in Nat
    BY StampsAre
  <2>3. Rank(plan, i) = UpTo(N, i)
    BY RankIsUpTo
  <2> HIDE DEF N
  <2>4. UpTo(N, i) \in 1..Cardinality(N)
    BY <2>1, <2>2 DEF PlacesPicked
  <2> QED
    BY <2>2, <2>3, <2>4
<1>4. \A i \in DOMAIN plan : Prior(i) = {} <=> Rank(plan, i) > Cardinality(InstancesOf(before, plan[i].op))
  BY <1>3, NthIs
<1>5. fresh = added
  BY <1>4
<1>6. DOMAIN stamped = DOMAIN plan /\ \A i \in DOMAIN plan : stamped[i].op = plan[i].op
  <2>1. DOMAIN stamped = DOMAIN plan
    BY <1>1
  <2>2. \A i \in DOMAIN plan : Ops(plan)[i] = plan[i].op /\ Ops(stamped)[i] = stamped[i].op
    BY <2>1 DEF Ops
  <2> QED
    BY <1>2, <2>1, <2>2
<1>7. \A op : InstancesOf(stamped, op) = InstancesOf(plan, op)
  BY <1>6 DEF InstancesOf
<1>8. ASSUME NEW i \in DOMAIN plan, i \notin added
      PROVE  /\ stamped[i].query = StampsOf(before, plan[i].op)[Rank(plan, i)]
             /\ \E j \in DOMAIN before : stamped[i].query = before[j].query
  <2> DEFINE j == CHOOSE k \in Prior(i) : TRUE
  <2>1. j \in Prior(i)
    BY <1>4, <1>8
  <2>2. stamped[i] = before[j]
    BY <1>1, <1>4, <1>8
  <2> HIDE DEF j
  <2>3. j \in DOMAIN before /\ StampsOf(before, plan[i].op)[Rank(plan, i)] = before[j].query
    BY <1>3, <2>1, NthIs
  <2> QED
    BY <2>2, <2>3
<1>9. ASSUME NEW i \in added
      PROVE  stamped[i].query = IF i = Min(added) THEN query ELSE plan[i].query
  <2> DEFINE q == IF i = Min(added) THEN query ELSE plan[i].query
  <2>1. i \in DOMAIN plan /\ Prior(i) = {} /\ plan[i] \in Stamped
    <3>1. i \in DOMAIN plan /\ Rank(plan, i) > Cardinality(InstancesOf(before, plan[i].op))
      OBVIOUS
    <3>2. Prior(i) = {}
      BY <1>4, <3>1
    <3>3. plan[i] \in Stamped
      BY <3>1
    <3> QED
      BY <3>1, <3>2, <3>3
  <2>2. stamped[i] = [plan[i] EXCEPT !.query = q]
    <3>1. stamped[i] = At(i)
      BY <1>1, <2>1
    <3>2. At(i) = [plan[i] EXCEPT !.query = IF i = Min(fresh) THEN query ELSE plan[i].query]
      BY <2>1
    <3> QED
      BY <1>5, <3>1, <3>2
  <2> HIDE DEF q
  <2>3. stamped[i].query = q
    BY <2>1, <2>2 DEF Stamped
  <2> QED
    BY <2>3 DEF q
<1> QED
  BY <1>6, <1>7, <1>8, <1>9

LEMMA PrefixIs ==
  ASSUME NEW T, NEW s \in Seq(T), NEW t \in Seq(T), Len(s) <= Len(t),
         \A k \in 1..Len(s) : s[k] = t[k]
  PROVE  IsPrefix(s, t)
<1>1. PICK m \in Nat, n \in Nat : m = Len(s) /\ n = Len(t) /\ m <= n
  OBVIOUS
<1>2. /\ SubSeq(s, 1, m) \in Seq(T) /\ Len(SubSeq(s, 1, m)) = m
      /\ \A k \in 1..m : SubSeq(s, 1, m)[k] = s[k]
  BY <1>1
<1>3. /\ SubSeq(t, 1, m) \in Seq(T) /\ Len(SubSeq(t, 1, m)) = m
      /\ \A k \in 1..m : SubSeq(t, 1, m)[k] = t[k]
  BY <1>1
<1>4. SubSeq(s, 1, m) = SubSeq(t, 1, m)
  <2> DEFINE u == SubSeq(s, 1, m)
             v == SubSeq(t, 1, m)
  <2>1. u \in Seq(T) /\ v \in Seq(T) /\ Len(u) = m /\ Len(v) = m /\ \A k \in 1..m : u[k] = v[k]
    BY <1>1, <1>2, <1>3
  <2> HIDE DEF u, v
  <2>2. u = v
    BY <2>1, SeqEqual
  <2> QED
    BY <2>2 DEF u, v
<1> QED
  BY <1>1, <1>4 DEF IsPrefix

(* The instances of a transformation that were there keep their stamps.    *)
LEMMA StampsKept ==
  ASSUME NEW plan \in Seq(Stamped), NEW before \in Seq(Stamped), NEW query \in Asked, NEW op
  PROVE  LET new == StampsOf(StampQueries(plan, before, query), op)
             old == StampsOf(before, op)
         IN  IF Len(new) <= Len(old) THEN IsPrefix(new, old) ELSE IsPrefix(old, new)
<1> DEFINE stamped == StampQueries(plan, before, query)
           N == InstancesOf(plan, op)
           new == StampsOf(stamped, op)
           old == StampsOf(before, op)
           added == {i \in DOMAIN plan : Rank(plan, i) > Cardinality(InstancesOf(before, plan[i].op))}
<1>1. stamped \in Seq(Stamped)
  BY StampKeepsSteps
<1>2. /\ DOMAIN stamped = DOMAIN plan /\ InstancesOf(stamped, op) = N
      /\ \A i \in DOMAIN plan : i \notin added =>
           stamped[i].query = StampsOf(before, plan[i].op)[Rank(plan, i)]
  BY StampedIs
<1>3. /\ new \in Seq(Asked \union {None}) /\ Len(new) = Cardinality(N) /\ Cardinality(N) \in Nat
      /\ PlacesPicked(Texts(stamped), N) /\ new = Picked(Texts(stamped), N)
  <2> HIDE DEF stamped, N
  <2> QED
    BY <1>1, <1>2, StampsAre DEF N
<1>4. /\ old \in Seq(Asked \union {None}) /\ Len(old) = Cardinality(InstancesOf(before, op))
      /\ Len(old) \in Nat
  BY StampsAre
<1>5. ASSUME NEW k \in 1..Len(new), k <= Len(old) PROVE new[k] = old[k]
  <2>1. PICK i \in N : UpTo(N, i) = k
    BY <1>3 DEF PlacesPicked
  <2>2. i \in DOMAIN plan /\ plan[i].op = op
    BY DEF InstancesOf
  <2>3. Rank(plan, i) = k
    BY <2>1, <2>2, RankIsUpTo
  <2>4. i \notin added
    BY <1>3, <1>4, <1>5, <2>2, <2>3
  <2>5. new[k] = Texts(stamped)[i]
    <3> HIDE DEF new, N, stamped
    <3> QED
      BY <1>3, <2>1 DEF PlacesPicked
  <2>6. Texts(stamped)[i] = stamped[i].query
    BY <1>2, <2>2 DEF Texts
  <2> QED
    BY <1>2, <2>2, <2>3, <2>4, <2>5, <2>6
<1> HIDE DEF new, old
<1>6. CASE Len(new) <= Len(old)
  <2>1. \A k \in 1..Len(new) : new[k] = old[k]
    BY <1>3, <1>4, <1>5, <1>6
  <2>2. IsPrefix(new, old)
    BY <1>3, <1>4, <1>6, <2>1, PrefixIs
  <2> QED
    BY <1>6, <2>2 DEF new, old
<1>7. CASE ~(Len(new) <= Len(old))
  <2>1. Len(old) <= Len(new)
    BY <1>3, <1>4, <1>7
  <2>2. \A k \in 1..Len(old) : old[k] = new[k]
    BY <1>3, <1>4, <1>5, <2>1
  <2>3. IsPrefix(old, new)
    BY <1>3, <1>4, <2>1, <2>2, PrefixIs
  <2> QED
    BY <1>7, <2>3 DEF new, old
<1> QED
  BY <1>6, <1>7

(* The request's text is on one step, if a transformation has an instance  *)
(* more than before, and else on none.                                     *)
LEMMA StampIsOnce ==
  ASSUME NEW plan \in Seq(Stamped), NEW before \in Seq(Stamped), NEW query \in Asked,
         CarriesUpTo(plan, query - 1), CarriesUpTo(before, query - 1)
  PROVE  LET stamped == StampQueries(plan, before, query)
             more == {op \in Step : Len(StampsOf(stamped, op)) > Len(StampsOf(before, op))}
         IN  Cardinality({i \in DOMAIN stamped : stamped[i].query = query})
               = IF more = {} THEN 0 ELSE 1
<1> DEFINE stamped == StampQueries(plan, before, query)
           added == {i \in DOMAIN plan : Rank(plan, i) > Cardinality(InstancesOf(before, plan[i].op))}
           more == {op \in Step : Len(StampsOf(stamped, op)) > Len(StampsOf(before, op))}
           carriers == {i \in DOMAIN stamped : stamped[i].query = query}
<1>1. stamped \in Seq(Stamped)
  BY StampKeepsSteps
<1>2. /\ DOMAIN stamped = DOMAIN plan
      /\ \A op : InstancesOf(stamped, op) = InstancesOf(plan, op)
      /\ \A i \in DOMAIN plan : i \notin added =>
           \E j \in DOMAIN before : stamped[i].query = before[j].query
      /\ \A i \in added : stamped[i].query = IF i = Min(added) THEN query ELSE plan[i].query
  BY StampedIs
<1>3. PICK n \in Nat : n = Len(plan) /\ DOMAIN plan = 1..n /\ \A i \in 1..n : plan[i] \in Stamped
  OBVIOUS
<1>4. query \in Int /\ (\A i \in DOMAIN plan : plan[i].query \in Int /\ plan[i].query <= query - 1)
      /\ (\A j \in DOMAIN before : before[j].query \in Int /\ before[j].query <= query - 1)
  <2>1. \A s \in Stamped : s.query \in Int
    BY LoopAssumption DEF Stamped, Asked, None
  <2>2. \A j \in DOMAIN before : before[j] \in Stamped
    OBVIOUS
  <2> QED
    BY <1>3, <2>1, <2>2, LoopAssumption DEF CarriesUpTo, Asked
<1>5. more = {} <=> added = {}
  <2>1. \A op : /\ Len(StampsOf(stamped, op)) = Cardinality(InstancesOf(plan, op))
                /\ Len(StampsOf(before, op)) = Cardinality(InstancesOf(before, op))
                /\ Cardinality(InstancesOf(plan, op)) \in Nat
                /\ Cardinality(InstancesOf(before, op)) \in Nat
                /\ PlacesPicked(Texts(plan), InstancesOf(plan, op))
    <3> HIDE DEF stamped
    <3> QED
      BY <1>1, <1>2, StampsAre
  <2>2. ASSUME NEW op \in more PROVE added # {}
    <3> DEFINE N == InstancesOf(plan, op)
               k == Cardinality(N)
    <3>1. k > Cardinality(InstancesOf(before, op)) /\ k \in Nat
      BY <2>1
    <3>2. k \in 1..k
      BY <2>1, <3>1
    <3>3. PICK i \in N : UpTo(N, i) = k
      <4>1. PlacesPicked(Texts(plan), N)
        BY <2>1
      <4> HIDE DEF N
      <4> QED
        BY <3>2, <4>1 DEF PlacesPicked
    <3>4. i \in DOMAIN plan /\ plan[i].op = op
      BY DEF InstancesOf
    <3>5. Rank(plan, i) = k
      BY <3>3, <3>4, RankIsUpTo
    <3> QED
      BY <3>1, <3>4, <3>5
  <2>3. ASSUME NEW i \in added PROVE more # {}
    <3> DEFINE op == plan[i].op
               N == InstancesOf(plan, op)
    <3>1. i \in DOMAIN plan /\ Rank(plan, i) > Cardinality(InstancesOf(before, op))
      OBVIOUS
    <3>2. op \in Step
      BY <1>3, <3>1 DEF Stamped
    <3>3. i \in N /\ Rank(plan, i) = UpTo(N, i)
      BY <3>1, RankIsUpTo DEF InstancesOf
    <3>4. UpTo(N, i) \in 1..Cardinality(N)
      <4>1. PlacesPicked(Texts(plan), N)
        BY <2>1
      <4> HIDE DEF N, op
      <4> QED
        BY <3>3, <4>1 DEF PlacesPicked
    <3>5. Cardinality(N) > Cardinality(InstancesOf(before, op))
      BY <2>1, <3>1, <3>3, <3>4
    <3>6. Len(StampsOf(stamped, op)) > Len(StampsOf(before, op))
      BY <2>1, <3>5
    <3> QED
      BY <3>2, <3>6
  <2> QED
    BY <2>2, <2>3
<1>6. CASE added = {}
  <2>1. carriers = {}
    <3> SUFFICES ASSUME NEW i \in carriers PROVE FALSE
      OBVIOUS
    <3>1. i \in DOMAIN plan /\ i \notin added /\ stamped[i].query = query
      BY <1>2, <1>6
    <3>2. PICK j \in DOMAIN before : stamped[i].query = before[j].query
      BY <1>2, <3>1
    <3> QED
      BY <1>4, <3>1, <3>2
  <2>2. Cardinality(carriers) = 0
    BY <2>1, FS_EmptySet
  <2> QED
    BY <1>5, <1>6, <2>2
<1>7. CASE added # {}
  <2>1. added \in SUBSET Nat /\ added \subseteq DOMAIN plan
    BY <1>3
  <2>2. Min(added) \in added
    <3> HIDE DEF added
    <3>1. PICK m \in added : \A i \in added : m <= i
      BY <1>7, <2>1, LeastOf
    <3> QED
      BY <3>1 DEF Min
  <2>3. carriers = {Min(added)}
    <3>1. Min(added) \in carriers
      BY <1>2, <2>1, <2>2
    <3>2. ASSUME NEW i \in carriers, i # Min(added) PROVE FALSE
      <4>1. i \in DOMAIN plan /\ stamped[i].query = query
        BY <1>2
      <4>2. CASE i \in added
        <5>1. stamped[i].query = plan[i].query
          BY <1>2, <3>2, <4>2
        <5> QED
          BY <1>4, <4>1, <5>1
      <4>3. CASE i \notin added
        <5>1. PICK j \in DOMAIN before : stamped[i].query = before[j].query
          BY <1>2, <4>1, <4>3
        <5> QED
          BY <1>4, <4>1, <5>1
      <4> QED
        BY <4>2, <4>3
    <3> HIDE DEF carriers, added
    <3> QED
      BY <3>1, <3>2
  <2>4. Cardinality(carriers) = 1
    BY <2>3, FS_Singleton
  <2> QED
    BY <1>5, <1>7, <2>4
<1> QED
  BY <1>6, <1>7

(* What the model sends carries stamps that were there, or none.           *)
LEMMA PatchesCarry ==
  ASSUME NEW before \in Seq(Stamped), NEW n \in Nat, CarriesUpTo(before, n),
         NEW plan \in PatchesOf(before)
  PROVE  CarriesUpTo(plan, n)
<1>1. PICK N \in Nat : N = Len(before) /\ DOMAIN before = 1..N
  OBVIOUS
<1>2. ASSUME NEW s \in Step, plan = Append(before, [op |-> s, query |-> None])
      PROVE  CarriesUpTo(plan, n)
  <2>1. /\ DOMAIN plan = 1..N + 1 /\ plan[N + 1].query = None
        /\ \A i \in 1..N : plan[i] = before[i]
    BY <1>1, <1>2
  <2>2. None <= n
    BY DEF None
  <2>3. ASSUME NEW i \in 1..N + 1 PROVE plan[i].query <= n
    <3>1. i \in 1..N \/ i = N + 1
      BY <1>1
    <3> QED
      BY <1>1, <2>1, <2>2, <3>1 DEF CarriesUpTo
  <2> QED
    BY <2>1, <2>3 DEF CarriesUpTo
<1>3. ASSUME NEW k \in DOMAIN before, plan = RemoveAt(before, k)
      PROVE  CarriesUpTo(plan, n)
  <2> DEFINE a == SubSeq(before, 1, k - 1)
             b == SubSeq(before, k + 1, Len(before))
  <2>1. k \in 1..N
    BY <1>1
  <2>2. a \in Seq(Stamped) /\ Len(a) = k - 1 /\ \A i \in 1..k - 1 : a[i] = before[i]
    BY <1>1, <2>1
  <2>3. b \in Seq(Stamped) /\ Len(b) = N - k /\ \A i \in 1..N - k : b[i] = before[k + i]
    BY <1>1, <2>1
  <2>4. plan = a \o b
    BY <1>3 DEF RemoveAt
  <2> HIDE DEF a, b
  <2>5. /\ DOMAIN plan = 1..(k - 1) + (N - k)
        /\ \A i \in 1..(k - 1) + (N - k) : plan[i] = IF i <= k - 1 THEN a[i] ELSE b[i - (k - 1)]
    BY <2>1, <2>2, <2>3, <2>4
  <2>6. ASSUME NEW i \in DOMAIN plan PROVE \E j \in DOMAIN before : plan[i] = before[j]
    <3>1. CASE i <= k - 1
      <4>1. i \in 1..k - 1 /\ i \in 1..N
        BY <1>1, <2>1, <2>5, <3>1
      <4> QED
        BY <1>1, <2>2, <2>5, <3>1, <4>1
    <3>2. CASE ~(i <= k - 1)
      <4>1. i - (k - 1) \in 1..N - k /\ k + (i - (k - 1)) \in 1..N
        BY <1>1, <2>1, <2>5, <3>2
      <4>2. plan[i] = b[i - (k - 1)]
        BY <2>5, <3>2
      <4> QED
        BY <1>1, <2>3, <4>1, <4>2
    <3> QED
      BY <3>1, <3>2
  <2> QED
    BY <2>6 DEF CarriesUpTo
<1>4. CASE plan \in BarePlans
  <2>1. PICK ops : plan = Bare(ops)
    BY <1>4 DEF BarePlans
  <2> QED
    BY <2>1 DEF Bare, CarriesUpTo, None
<1> QED
  BY <1>2, <1>3, <1>4 DEF PatchesOf

(* The request in the loop is not heard of yet, and stays so.              *)
LEMMA OlderHolds == ASSUME LInv, Older, [LoopNext]_loopVars PROVE Older'
<1>1. /\ asked \in Nat /\ (current # None => current = asked /\ current \in Asked)
      /\ spec \in Seq(Stamped) /\ tried \in Seq(Stamped) /\ specBefore \in Seq(Stamped)
      /\ Past \in Nat /\ Past <= asked /\ (pc = "idle" <=> current = None)
      /\ \A set \in aside : set.plan \in Seq(Stamped)
  BY LoopAssumption DEF LInv, LoopTypeOK, Looping, Past, Asked, None
<1> DEFINE Known == {spec, <<>>} \union PatchesOf(spec) \union {set.plan : set \in aside}
<1>2. /\ \A n : CarriesUpTo(<<>>, n)
      /\ \A plan \in {spec, tried, specBefore} : CarriesUpTo(plan, Past)
      /\ \A plan \in PatchesOf(spec) : CarriesUpTo(plan, Past)
      /\ \A set \in aside : CarriesUpTo(set.plan, Past)
  <2>1. /\ CarriesUpTo(spec, Past) /\ CarriesUpTo(tried, Past) /\ CarriesUpTo(specBefore, Past)
        /\ \A set \in aside : CarriesUpTo(set.plan, Past)
    BY DEF Older, AsideUpTo
  <2>2. \A plan \in PatchesOf(spec) : CarriesUpTo(plan, Past)
    BY <1>1, <2>1, PatchesCarry
  <2>3. \A n : CarriesUpTo(<<>>, n)
    BY DEF CarriesUpTo
  <2> QED
    BY <2>1, <2>2, <2>3
<1>3. ASSUME NEW plan \in Seq(Stamped), CarriesUpTo(plan, Past) PROVE CarriesUpTo(plan, asked)
  <2>1. \A i \in DOMAIN plan : plan[i] \in Stamped
    OBVIOUS
  <2>2. \A i \in DOMAIN plan : plan[i].query \in Int
    BY <2>1, LoopAssumption DEF Stamped, Asked, None
  <2> QED
    BY <1>1, <1>3, <2>2 DEF CarriesUpTo
<1>4. ASSUME current' = current, asked' = asked, spec' \in Known,
             tried' \in {tried, <<>>} \union PatchesOf(spec), specBefore' = specBefore,
             \A set \in aside' : set \in aside \/ set.plan \in PatchesOf(spec)
      PROVE  Older'
  <2>1. Past' = Past
    BY <1>4 DEF Past
  <2>2. CarriesUpTo(spec', Past) /\ CarriesUpTo(tried', Past) /\ CarriesUpTo(specBefore', Past)
    BY <1>2, <1>4
  <2>3. \A set \in aside' : CarriesUpTo(set.plan, Past)
    BY <1>2, <1>4
  <2> QED
    BY <2>1, <2>2, <2>3 DEF Older, AsideUpTo, CarriesUpTo
<1>5. ASSUME NEW report, Finally(report), asked' = asked, CarriesUpTo(spec', asked), aside' = aside
      PROVE  Older'
  <2>1. Past' = asked /\ tried' = <<>> /\ specBefore' = <<>>
    BY <1>5 DEF Finally, Past
  <2>2. \A set \in aside : CarriesUpTo(set.plan, asked)
    BY <1>1, <1>2, <1>3
  <2> QED
    BY <1>2, <1>5, <2>1, <2>2 DEF Older, AsideUpTo, CarriesUpTo
<1>6. ASSUME NEW report, Finally(report), asked' = asked, spec' = spec, aside' = aside PROVE Older'
  BY <1>1, <1>2, <1>3, <1>5, <1>6
<1>7. ASSUME NextTurn, asked' = asked, spec' = spec, aside' = aside PROVE Older'
  <2>1. CASE Finally(ReportDebug(ReportDebug(reports[current])))
    BY <1>6, <1>7, <2>1
  <2>2. CASE tried' = <<>> /\ UNCHANGED <<current, specBefore>>
    BY <1>4, <1>7, <2>2
  <2> QED
    BY <1>7, <2>1, <2>2 DEF NextTurn
<1>8. ASSUME Ask PROVE Older'
  <2>1. /\ asked' = asked + 1 /\ current' # None /\ spec' = spec /\ specBefore' = spec /\ tried' = tried
        /\ current = None /\ aside' = aside
    BY <1>1, <1>8 DEF Ask, None, beside
  <2>2. Past' = Past
    BY <1>1, <2>1 DEF Past
  <2> QED
    BY <1>2, <2>1, <2>2 DEF Older, AsideUpTo, CarriesUpTo
<1>9. ASSUME Commit PROVE Older'
  <2>1. /\ spec' = StampQueries(tried, specBefore, current) /\ asked' = asked
        /\ Finally(ReportDebug(reports[current])) /\ pc = "replay" /\ aside' = aside
    BY <1>9 DEF Commit, beside
  <2>2. current = asked /\ current \in Asked
    BY <1>1, <2>1
  <2>3. spec' \in Seq(Stamped)
    BY <1>1, <2>1, <2>2, StampKeepsSteps
  <2>4. CarriesUpTo(spec', asked)
    <3> DEFINE added == {i \in DOMAIN tried : Rank(tried, i) > Cardinality(InstancesOf(specBefore, tried[i].op))}
    <3>1. /\ DOMAIN spec' = DOMAIN tried
          /\ \A i \in DOMAIN tried : i \notin added =>
               \E j \in DOMAIN specBefore : spec'[i].query = specBefore[j].query
          /\ \A i \in added : spec'[i].query = IF i = Min(added) THEN current ELSE tried[i].query
      <4> DEFINE stamped == StampQueries(tried, specBefore, current)
      <4>1. /\ DOMAIN stamped = DOMAIN tried
            /\ \A i \in DOMAIN tried : i \notin added =>
                 \E j \in DOMAIN specBefore : stamped[i].query = specBefore[j].query
            /\ \A i \in added : stamped[i].query = IF i = Min(added) THEN current ELSE tried[i].query
        BY <1>1, <2>2, StampedIs
      <4>2. spec' = stamped
        BY <2>1
      <4> HIDE DEF stamped, added
      <4> QED
        BY <4>1, <4>2
    <3>2. CarriesUpTo(tried, asked) /\ CarriesUpTo(specBefore, asked)
      BY <1>1, <1>2, <1>3
    <3>3. current <= asked
      BY <1>1, <2>2
    <3> HIDE DEF added
    <3> SUFFICES ASSUME NEW i \in DOMAIN spec' PROVE spec'[i].query <= asked
      BY DEF CarriesUpTo
    <3>4. CASE i \notin added
      BY <3>1, <3>2, <3>4 DEF CarriesUpTo
    <3>5. CASE i \in added
      BY <3>1, <3>2, <3>3, <3>5 DEF CarriesUpTo
    <3> QED
      BY <3>4, <3>5
  <2> QED
    BY <1>5, <2>1, <2>4
<1>10. ASSUME CallFails \/ Reply \/ Decline PROVE Older'
  BY <1>6, <1>10 DEF CallFails, Reply, Decline, Throw, beside
<1>11. ASSUME Refused PROVE Older'
  BY <1>7, <1>11 DEF Refused, beside
<1>12. ASSUME ReplayFails PROVE Older'
  BY <1>6, <1>7, <1>12 DEF ReplayFails, Throw, beside
<1>13. ASSUME Abort \/ Confirm PROVE Older'
  BY <1>4, <1>13 DEF Abort, Confirm, beside
<1>14. ASSUME NEW plan \in PatchesOf(spec), Patch(plan) PROVE Older'
  BY <1>4, <1>14 DEF Patch, beside
<1>15. ASSUME NEW plan \in PatchesOf(spec), NEW fresh, BeginSetSpec(plan, fresh) PROVE Older'
  <2>1. \A set \in aside' : set.plan = plan
    BY <1>15 DEF BeginSetSpec
  <2> QED
    BY <1>4, <1>15, <2>1 DEF BeginSetSpec, request
<1>16. ASSUME NEW set \in aside, LandSetSpec(set) \/ DropSetSpec(set) PROVE Older'
  <2>1. aside' \subseteq aside /\ spec' \in {spec, set.plan}
    BY <1>16 DEF LandSetSpec, DropSetSpec
  <2> QED
    BY <1>4, <1>16, <2>1 DEF LandSetSpec, DropSetSpec, request
<1>17. ASSUME Load PROVE Older'
  BY <1>4, <1>17 DEF Load, request
<1>18. CASE UNCHANGED loopVars
  BY <1>4, <1>18 DEF loopVars, request
<1> QED
  BY <1>8, <1>9, <1>10, <1>11, <1>12, <1>13, <1>14, <1>15, <1>16, <1>17, <1>18 DEF LoopNext

(* A commit never moves a request's text to another request's step: the    *)
(* instances of a transformation that were there when the request began    *)
(* keep their stamps in order, and this request's text is on exactly one   *)
(* step, or on none if it added none; whatever undos, gestures and loads   *)
(* ran beside the loop.                                                    *)
THEOREM ProvenanceAlwaysKept == LoopSpec => ProvenanceKept
<1> DEFINE Kept ==
      Commit =>
        /\ \A op \in Step :
             LET old == StampsOf(specBefore, op)
                 new == StampsOf(spec', op)
             IN  IF Len(new) <= Len(old) THEN IsPrefix(new, old) ELSE IsPrefix(old, new)
        /\ LET added == {op \in Step : Len(StampsOf(spec', op)) > Len(StampsOf(specBefore, op))}
           IN  Cardinality({i \in DOMAIN spec' : spec'[i].query = current})
                 = IF added = {} THEN 0 ELSE 1
<1>1. LoopInit => LInv /\ Older
  <2>1. LoopInit => LInv
    BY InitHolds
  <2>2. LoopInit => Older
    BY DEF LoopInit, Older, AsideUpTo, CarriesUpTo
  <2> QED
    BY <2>1, <2>2
<1>2. ASSUME LInv, Older, Commit PROVE Kept
  <2>1. spec' = StampQueries(tried, specBefore, current) /\ pc = "replay"
    BY <1>2 DEF Commit
  <2>2. current # None /\ current = asked /\ current \in Asked
        /\ tried \in Seq(Stamped) /\ specBefore \in Seq(Stamped)
    BY <1>2, <2>1, LoopAssumption DEF LInv, LoopTypeOK, Looping, Asked, None
  <2>3. CarriesUpTo(tried, current - 1) /\ CarriesUpTo(specBefore, current - 1)
    BY <1>2, <2>2 DEF Older, Past
  <2>4. \A op \in Step :
          LET old == StampsOf(specBefore, op)
              new == StampsOf(spec', op)
          IN  IF Len(new) <= Len(old) THEN IsPrefix(new, old) ELSE IsPrefix(old, new)
    BY <2>1, <2>2, StampsKept
  <2>5. LET added == {op \in Step : Len(StampsOf(spec', op)) > Len(StampsOf(specBefore, op))}
        IN  Cardinality({i \in DOMAIN spec' : spec'[i].query = current})
              = IF added = {} THEN 0 ELSE 1
    BY <2>1, <2>2, <2>3, StampIsOnce
  <2> QED
    BY <2>4, <2>5
<1>3. ASSUME LInv, Older, [LoopNext]_loopVars PROVE [Kept]_loopVars
  <2>1. Commit => Kept
    BY <1>2, <1>3
  <2> QED
    BY <2>1
<1>4. LInv /\ Older /\ [LoopNext]_loopVars => Older'
  BY OlderHolds
<1>5. LoopSpec => []LInv
  BY AlwaysLInv
<1>6. ProvenanceKept <=> [][Kept]_loopVars
  BY DEF ProvenanceKept
<1> HIDE DEF Kept
<1>7. LoopSpec => [][Kept]_loopVars
  BY <1>1, <1>3, <1>4, <1>5, PTL DEF LoopSpec
<1> QED
  BY <1>6, <1>7

------------------------------------------------------------------------------
(* VoiceSession.  The engine half is proved of EngineRebuild alone: each   *)
(* step of VoiceSession is one of EngineNext or leaves the engine as it is. *)
(* The microphone half holds while no start has overtaken what the last one *)
(* left (MicCalm, WavCalm).                                                *)

------------------------------------------------------------------------------
(* The engine.                                                             *)

(* What a change of runner leaves in flight is a gesture, a move, or a      *)
(* request whose run flag another one's end had lowered; a move is in      *)
(* flight alone, to the plan at the journal's cursor.                      *)
Orphaned == \A o \in orphans : o.kind \in Flagless \/ o.id \in robbed
Lowered == ~streaming => \A o \in Requests : o.id \in robbed
Alone == \A o \in flying : o.kind = "move" => o.plan = cursor /\ flying = {o}
Moving == \E o \in flying : o.kind = "move"
InPlace == orphans = {} => \A o \in flying : o.runner = runner
Undisturbed == orphans = {} /\ ~missed => Moving \/ grids[runner] = cursor
EngineInv == Orphaned /\ Lowered /\ Alone /\ InPlace /\ Undisturbed

(* The first engine has nothing in flight and an empty journal. *)
LEMMA EngineStarts == EngineInit => EngineTypeOK /\ EngineInv
<1> SUFFICES ASSUME EngineInit PROVE EngineTypeOK /\ EngineInv
  OBVIOUS
<1>1. 0 \in Runners /\ 0 \in 0..MaxMoves /\ <<>> \in Seq(Entry) /\ 0 \in 0..Len(<<>>)
  BY BoundsAssumption DEF Runners
<1>2. EngineTypeOK
  BY <1>1, ModelsAssumption DEF EngineInit, EngineTypeOK, Operation
<1>3. EngineInv
  BY <1>1 DEF EngineInit, EngineInv, Orphaned, Lowered, Alone, InPlace, Undisturbed, Moving,
     Requests
<1> QED
  BY <1>2, <1>3

(* An operation is one, whatever its kind and its plan. *)
LEMMA OpType ==
  ASSUME EngineTypeOK, NEW kind \in Kinds \cup Flagless, NEW signal \in Nat, NEW plan \in SUBSET Nat
  PROVE  Op(kind, signal, plan) \in Operation
BY DEF EngineTypeOK, Op, Operation

(* A timeline that a change is recorded on is one still. *)
LEMMA RecordType ==
  ASSUME EngineTypeOK, NEW r \in Runners, NEW plan \in SUBSET Nat, Record(r, plan)
  PROVE  /\ grids' \in [Runners -> SUBSET Nat] /\ cursor' \subseteq Nat
         /\ entries' \in Seq(Entry) /\ at' \in 0..Len(entries')
<1>1. entries \in Seq(Entry) /\ at \in 0..Len(entries) /\ Len(entries) \in Nat
  BY DEF EngineTypeOK
<1>2. SubSeq(entries, 1, at) \in Seq(Entry) /\ Len(SubSeq(entries, 1, at)) = at
  BY <1>1
<1>3. [prev |-> grids[r], next |-> plan] \in Entry
  BY DEF Entry, EngineTypeOK
<1>4. entries' \in Seq(Entry) /\ Len(entries') = at + 1
  BY <1>2, <1>3 DEF Record
<1> QED
  BY <1>1, <1>4 DEF Record, EngineTypeOK

(* What a move reaches is a step of the timeline, and a plan. *)
LEMMA ReachesType ==
  ASSUME EngineTypeOK, NEW k \in 0..Len(entries), NEW plan, Reaches(k, plan)
  PROVE  plan \in SUBSET Nat
<1>1. \A i \in DOMAIN entries : entries[i] \in Entry
  BY DEF EngineTypeOK
<1>2. CASE at > 0 /\ k = at - 1 /\ plan = entries[at].prev
  <2>1. at \in DOMAIN entries
    BY <1>2 DEF EngineTypeOK
  <2> QED
    BY <1>1, <1>2, <2>1 DEF Entry
<1>3. CASE k \in DOMAIN entries /\ plan = entries[k].next
  BY <1>1, <1>3 DEF Entry
<1>4. CASE k = 0 /\ entries # <<>> /\ plan = entries[1].prev
  <2>1. 1 \in DOMAIN entries
    BY <1>4 DEF EngineTypeOK
  <2> QED
    BY <1>1, <1>4, <2>1 DEF Entry
<1> QED
  BY <1>2, <1>3, <1>4 DEF Reaches

(* The engine's variables keep their types. *)
LEMMA EngineTypeKept == EngineTypeOK /\ [EngineNext]_engineVars => EngineTypeOK'
<1> SUFFICES ASSUME EngineTypeOK, [EngineNext]_engineVars PROVE EngineTypeOK'
  OBVIOUS
<1>1. ASSUME NEW kind \in Kinds, NEW signal \in Nat, Enter(kind, signal) PROVE EngineTypeOK'
  <2>1. Op(kind, signal, {}) \in Operation
    BY OpType
  <2> QED
    BY <1>1, <2>1 DEF Enter, EngineTypeOK, journalVars
<1>2. CASE Bounce
  <2>1. {o.id : o \in Requests} \subseteq Nat
    BY DEF Requests, Operation, EngineTypeOK
  <2> QED
    BY <1>2, <2>1 DEF Bounce, EngineTypeOK, journalVars
<1>3. CASE StartEdit
  <2>1. Op("edit", 0, {}) \in Operation
    BY OpType DEF Flagless
  <2> QED
    BY <1>3, <2>1 DEF StartEdit, EngineTypeOK, journalVars
<1>4. ASSUME NEW k \in 0..Len(entries), NEW plan, StartMove(k, plan) PROVE EngineTypeOK'
  <2>1. plan \in SUBSET Nat
    BY <1>4, ReachesType DEF StartMove
  <2>2. Op("move", 0, plan) \in Operation
    BY <2>1, OpType DEF Flagless
  <2>3. moves' \in 0..MaxMoves
    BY <1>4, BoundsAssumption DEF StartMove, EngineTypeOK
  <2> QED
    BY <1>4, <2>1, <2>2, <2>3 DEF StartMove, EngineTypeOK
<1>5. ASSUME NEW o \in flying, NEW commits \in BOOLEAN, Settle(o, commits) PROVE EngineTypeOK'
  <2>1. o.runner \in Runners /\ o.id \in Nat /\ o.plan \subseteq Nat
    BY DEF Operation, EngineTypeOK
  <2>2. {q.id : q \in Requests \ {o}} \subseteq Nat
    BY DEF Requests, Operation, EngineTypeOK
  <2>3. /\ grids' \in [Runners -> SUBSET Nat] /\ cursor' \subseteq Nat
        /\ entries' \in Seq(Entry) /\ at' \in 0..Len(entries')
    <3>1. CASE Record(o.runner, grids[o.runner] \cup {o.id})
      <4>1. grids[o.runner] \cup {o.id} \in SUBSET Nat
        BY <2>1 DEF EngineTypeOK
      <4> QED
        BY <2>1, <3>1, <4>1, RecordType
    <3>2. CASE grids' = [grids EXCEPT ![o.runner] = o.plan] /\ UNCHANGED journalVars
      BY <2>1, <3>2 DEF EngineTypeOK, journalVars
    <3>3. CASE UNCHANGED <<grids, journalVars>>
      BY <3>3 DEF EngineTypeOK, journalVars
    <3> QED
      BY <1>5, <3>1, <3>2, <3>3 DEF Settle
  <2>4. busy' \subseteq Runners /\ streaming' \in BOOLEAN /\ robbed' \subseteq Nat /\ missed' \in BOOLEAN
    BY <1>5, <2>2 DEF Settle, EngineTypeOK
  <2> QED
    BY <1>5, <2>3, <2>4 DEF Settle, EngineTypeOK
<1>6. ASSUME NEW m \in Models, Rebuild(m) PROVE EngineTypeOK'
  <2>1. runner + 1 \in Runners
    BY <1>6, BoundsAssumption DEF Rebuild, Runners, EngineTypeOK
  <2> QED
    BY <1>6, <2>1 DEF Rebuild, EngineTypeOK, journalVars
<1>7. CASE UNCHANGED engineVars
  BY <1>7 DEF engineVars, journalVars, EngineTypeOK
<1> QED
  BY <1>1, <1>2, <1>3, <1>4, <1>5, <1>6, <1>7 DEF EngineNext, StartReplay

(* No step of the engine parts the runner in place from the journal.       *)
LEMMA EngineInvKept ==
  EngineTypeOK /\ EngineInv /\ [EngineNext]_engineVars => EngineInv'
<1> SUFFICES ASSUME EngineTypeOK, EngineInv, [EngineNext]_engineVars PROVE EngineInv'
  OBVIOUS
<1> USE DEF EngineInv, Orphaned, Lowered, Alone, InPlace, Undisturbed, Moving, Requests, Flagless
<1>1. ASSUME NEW kind \in Kinds, NEW signal \in Nat, Enter(kind, signal) PROVE EngineInv'
  BY <1>1 DEF Enter, Op, Kinds, Replays, journalVars
<1>2. CASE Bounce
  BY <1>2 DEF Bounce, journalVars
<1>3. CASE StartEdit
  BY <1>3 DEF StartEdit, Op, journalVars
<1>4. ASSUME NEW k \in 0..Len(entries), NEW plan, StartMove(k, plan) PROVE EngineInv'
  BY <1>4 DEF StartMove, Op
<1>5. ASSUME NEW o \in flying, NEW commits \in BOOLEAN, Settle(o, commits) PROVE EngineInv'
  <2>0. o.runner \in Runners /\ runner \in Runners /\ grids \in [Runners -> SUBSET Nat]
    BY DEF EngineTypeOK, Operation
  <2>1. Orphaned'
    BY <1>5 DEF Settle
  <2>2. Lowered'
    BY <1>5 DEF Settle
  <2>3. Alone' /\ InPlace'
    <3>1. flying' = flying \ {o} /\ UNCHANGED <<runner, orphans>>
      BY <1>5 DEF Settle
    <3>2. CASE \E q \in flying : q.kind = "move"
      BY <3>1, <3>2
    <3>3. CASE ~\E q \in flying : q.kind = "move"
      BY <3>1, <3>3
    <3> QED
      BY <3>2, <3>3
  <2>4. Undisturbed'
    <3>1. SUFFICES ASSUME orphans' = {}, ~missed' PROVE grids'[runner'] = cursor'
      OBVIOUS
    <3>2. orphans = {} /\ o.runner = runner /\ runner' = runner
      BY <1>5, <3>1 DEF Settle
    <3>3. CASE commits /\ o.kind # "move" /\ Record(o.runner, grids[o.runner] \cup {o.id})
      BY <2>0, <3>2, <3>3 DEF Record
    <3>4. CASE commits /\ o.kind = "move" /\ grids' = [grids EXCEPT ![o.runner] = o.plan] /\ UNCHANGED journalVars
      BY <2>0, <3>2, <3>4 DEF journalVars
    <3>5. CASE ~commits /\ UNCHANGED <<grids, journalVars>>
      <4>1. ~missed /\ o.kind # "move"
        BY <1>5, <3>1, <3>5 DEF Settle
      <4>2. ~Moving
        BY <4>1
      <4> QED
        BY <3>2, <3>5, <4>1, <4>2 DEF journalVars
    <3> QED
      BY <1>5, <3>3, <3>4, <3>5 DEF Settle
  <2> QED
    BY <2>1, <2>2, <2>3, <2>4
<1>6. ASSUME NEW m \in Models, Rebuild(m) PROVE EngineInv'
  <2>1. runner + 1 \in Runners
    BY <1>6, BoundsAssumption DEF Rebuild, Runners, EngineTypeOK
  <2> QED
    BY <1>6, <2>1 DEF Rebuild, EngineTypeOK, journalVars
<1>7. CASE UNCHANGED engineVars
  BY <1>7 DEF engineVars, journalVars
<1> QED
  BY <1>1, <1>2, <1>3, <1>4, <1>5, <1>6, <1>7 DEF EngineNext, StartReplay


(* Voice input drives the engine by the engine's own steps only. *)
LEMMA EngineDriven == TypeOK /\ [Next]_vars => [EngineNext]_engineVars
<1> SUFFICES ASSUME TypeOK, [Next]_vars PROVE [EngineNext]_engineVars
  OBVIOUS
<1>0. voiceAbort \in Nat
  BY DEF TypeOK, MicTypeOK
<1>1. CASE StartVoice
  BY <1>1 DEF StartVoice
<1>2. CASE LatchVoice
  BY <1>2 DEF LatchVoice
<1>3. CASE Release
  BY <1>3 DEF Release
<1>4. CASE CancelVoice
  BY <1>4 DEF CancelVoice
<1>5. ASSUME NEW e \in prompts, Denied(e) PROVE [EngineNext]_engineVars
  BY <1>5 DEF Denied
<1>6. ASSUME NEW e \in prompts, Granted(e) PROVE [EngineNext]_engineVars
  BY <1>6 DEF Granted
<1>7. ASSUME NEW e \in timers, TimerFires(e) PROVE [EngineNext]_engineVars
  BY <1>7 DEF TimerFires
<1>8. ASSUME NEW s \in stops, RecorderStops(s) PROVE [EngineNext]_engineVars
  BY <1>8 DEF RecorderStops
<1>9. ASSUME NEW s \in stops, EncodeFails(s) PROVE [EngineNext]_engineVars
  BY <1>9 DEF EncodeFails
<1>10. ASSUME NEW s \in stops, Encoded(s) PROVE [EngineNext]_engineVars
  BY <1>10, <1>0 DEF Encoded, EngineNext, Kinds, engineVars
<1>11. CASE ToggleOn
  BY <1>11 DEF ToggleOn
<1>12. CASE ToggleOff
  BY <1>12 DEF ToggleOff
<1>13. CASE Segment
  BY <1>13 DEF Segment
<1>14. CASE SendClip
  BY <1>14 DEF SendClip, EngineNext, Kinds
<1>15. ASSUME NEW l \in loads, LoadFails(l) PROVE [EngineNext]_engineVars
  BY <1>15 DEF LoadFails
<1>16. ASSUME NEW l \in loads, LoadEnds(l) PROVE [EngineNext]_engineVars
  BY <1>16 DEF LoadEnds
<1>17. ASSUME NEW m \in Models, SwitchModel(m) PROVE [EngineNext]_engineVars
  BY <1>17 DEF SwitchModel, EngineNext
<1>18. CASE SendTyped /\ UNCHANGED <<micVars, wavVars, overtaken>>
  BY <1>18 DEF SendTyped, EngineNext, Kinds
<1>19. CASE StartReplay /\ UNCHANGED <<micVars, wavVars, overtaken>>
  BY <1>19 DEF EngineNext
<1>20. ASSUME NEW o \in flying, NEW commits \in BOOLEAN, OwnSettles(o, commits) PROVE [EngineNext]_engineVars
  BY <1>20 DEF OwnSettles, SettleOwn, EngineNext
<1>21. ASSUME NEW o \in flying, NEW commits \in BOOLEAN, SpokenSettles(o, commits) PROVE [EngineNext]_engineVars
  BY <1>21 DEF SpokenSettles, EngineNext
<1>22. ASSUME NEW o \in flying, NEW commits \in BOOLEAN, ClipSettles(o, commits) PROVE [EngineNext]_engineVars
  BY <1>22 DEF ClipSettles, EngineNext
<1>24. ASSUME NEW e \in late, LateData(e) PROVE [EngineNext]_engineVars
  BY <1>24 DEF LateData
<1>23. CASE UNCHANGED vars
  BY <1>23 DEF vars
<1> QED
  BY <1>1, <1>2, <1>3, <1>4, <1>5, <1>6, <1>7, <1>8, <1>9, <1>10, <1>11,
  <1>12, <1>13, <1>14, <1>15, <1>16, <1>17, <1>18, <1>19, <1>20, <1>21,
  <1>22, <1>23, <1>24 DEF Next

------------------------------------------------------------------------------
(* Types.                                                                  *)

(* A cancel keeps the types: what it drops are sessions that were started. *)
LEMMA CancelTypes ==
  MicTypeOK /\ Cancel /\ UNCHANGED <<latchOnStart, prompts, stops, presses, heard>> => MicTypeOK'
<1> SUFFICES ASSUME MicTypeOK, Cancel, UNCHANGED <<latchOnStart, prompts, stops, presses, heard>>
             PROVE  MicTypeOK'
  OBVIOUS
<1>1. {s.mic : s \in stops} \subseteq 0..epoch
  BY DEF MicTypeOK, Stop
<1>2. /\ epoch' \in Nat /\ epoch <= epoch'
  BY DEF MicTypeOK, Cancel
<1>3. 0..epoch \subseteq 0..epoch' /\ 1..epoch \subseteq 1..epoch'
  BY <1>2 DEF MicTypeOK
<1>0. 0 \in 0..epoch /\ epoch \in 0..epoch /\ handle \in 0..epoch
  BY DEF MicTypeOK
<1>10. late' \subseteq 1..epoch /\ chunks' \subseteq 1..epoch
  <2>1. CASE voiceStatus = "starting"
    BY <2>1 DEF Cancel, MicTypeOK, port
  <2>2. CASE voiceStatus # "starting"
    <3>1. Running \subseteq 1..epoch
      BY DEF Running, MicTypeOK
    <3> QED
      BY <3>1, <2>2 DEF Cancel, CancelRecording, Teardown, MicTypeOK
  <2> QED
    BY <2>1, <2>2
<1>4. handle' \in 0..epoch /\ hot' \subseteq 1..epoch
  <2>1. CASE voiceStatus = "starting"
    BY <2>1 DEF Cancel, MicTypeOK, port
  <2>2. CASE voiceStatus # "starting"
    BY <1>0, <2>2 DEF Cancel, CancelRecording, Teardown, MicTypeOK
  <2> QED
    BY <2>1, <2>2
<1>5. timer' \in 0..epoch /\ timers' \subseteq 1..epoch /\ voiceAbort' \in 0..epoch
  <2>1. CASE voiceStatus = "starting"
    BY <1>0, <2>1 DEF Cancel, MicTypeOK
  <2>2. CASE voiceStatus # "starting"
    BY <1>0, <2>2 DEF Cancel, MicTypeOK
  <2> QED
    BY <2>1, <2>2
<1>6. aborted' \subseteq 1..epoch
  <2>1. CASE voiceStatus = "starting"
    BY <2>1 DEF Cancel, MicTypeOK, port
  <2>2. CASE voiceStatus # "starting"
    BY <2>2 DEF Cancel, MicTypeOK
  <2> QED
    BY <2>1, <2>2
<1>7. dropped' \subseteq 0..epoch
  <2>1. dropped \subseteq 0..epoch
    BY DEF MicTypeOK
  <2>2. CASE voiceStatus = "starting"
    BY <1>0, <2>1, <2>2 DEF Cancel, Discarded
  <2>3. CASE voiceStatus # "starting"
    BY <1>0, <1>1, <2>1, <2>3 DEF Cancel, Discarded
  <2> QED
    BY <2>2, <2>3
<1>8. \A s \in stops' : s.mic \in 1..epoch' /\ s.clip \subseteq 1..epoch'
  BY <1>2 DEF MicTypeOK, Stop
<1>9. voiceStatus' \in Statuses
  BY DEF Cancel, Statuses
<1> QED
  BY <1>2, <1>3, <1>4, <1>5, <1>6, <1>7, <1>8, <1>9, <1>10 DEF MicTypeOK

(* A release keeps the types, whoever makes it. *)
LEMMA StopVoiceTypes ==
  /\ MicTypeOK /\ StopVoice /\ timers' \subseteq timers
  /\ UNCHANGED <<latchOnStart, prompts, port, aborted, presses, heard>>
  => MicTypeOK'
<1> SUFFICES ASSUME MicTypeOK, StopVoice, timers' \subseteq timers,
                    UNCHANGED <<latchOnStart, prompts, port, aborted, presses, heard>>
             PROVE  MicTypeOK'
  OBVIOUS
<1>1. CASE AbandonStart
  <2>1. epoch' = epoch + 1 /\ epoch \in Nat
    BY <1>1 DEF AbandonStart, MicTypeOK
  <2>2. 0..epoch \subseteq 0..epoch' /\ 1..epoch \subseteq 1..epoch' /\ epoch \in 0..epoch'
    BY <2>1
  <2>3. \A s \in stops' : s.mic \in 1..epoch' /\ s.clip \subseteq 1..epoch'
    BY <1>1, <2>1 DEF AbandonStart, MicTypeOK, Stop
  <2> QED
    BY <1>1, <2>1, <2>2, <2>3 DEF AbandonStart, MicTypeOK, Statuses, port
<1>2. CASE StopRecording
  <2>1. voiceStatus' \in Statuses /\ timer' \in 0..epoch /\ voiceAbort' \in 0..epoch
    BY <1>2 DEF StopRecording, MicTypeOK, Statuses, port
  <2>2. [mic |-> handle, clip |-> {}, stage |-> "stopping"] \in Stop
    BY DEF MicTypeOK, Stop
  <2>3. stops' \subseteq Stop /\ \A s \in stops' : s.mic \in 1..epoch /\ s.clip \subseteq 1..epoch
    <3>1. CASE handle = 0
      BY <1>2, <3>1 DEF StopRecording, MicTypeOK, port
    <3>2. CASE handle # 0
      <4>1. handle \in 1..epoch
        BY <3>2 DEF MicTypeOK
      <4> DEFINE x == [mic |-> handle, clip |-> {}, stage |-> "stopping"]
      <4>2. stops' = stops \cup {x} /\ x \in Stop /\ x.mic \in 1..epoch /\ x.clip = {}
        BY <1>2, <2>2, <3>2, <4>1 DEF StopRecording
      <4> HIDE DEF x
      <4> QED
        BY <4>2 DEF MicTypeOK
    <3> QED
      BY <3>1, <3>2
  <2> QED
    BY <1>2, <2>1, <2>3 DEF StopRecording, MicTypeOK, port
<1> QED
  BY <1>1, <1>2 DEF StopVoice

(* Voice input keeps its types. *)
LEMMA VoiceTypeKept == TypeOK /\ [Next]_vars => TypeOK'
<1> SUFFICES ASSUME TypeOK, [Next]_vars PROVE TypeOK'
  OBVIOUS
<1>0. EngineTypeOK'
  BY EngineDriven, EngineTypeKept DEF TypeOK
<1> SUFFICES MicTypeOK' /\ WavTypeOK' /\ overtaken' \in BOOLEAN
  BY <1>0 DEF TypeOK
<1> USE VoiceBoundsAssumption DEF TypeOK, Statuses
<1>1. CASE StartVoice
  <2>1. MicTypeOK'
    <3>1. epoch' = epoch + 1 /\ epoch \in Nat
      BY <1>1 DEF StartVoice, MicTypeOK
    <3>2. 0..epoch \subseteq 0..epoch' /\ 1..epoch \subseteq 1..epoch' /\ epoch + 1 \in 1..epoch'
      BY <3>1
    <3>3. \A s \in stops' : s.mic \in 1..epoch' /\ s.clip \subseteq 1..epoch'
      BY <1>1, <3>1 DEF StartVoice, MicTypeOK, Stop
    <3>4. presses' \in 0..MaxPresses
      BY <1>1 DEF StartVoice, MicTypeOK
    <3> QED
      <4>1. prompts' \subseteq 1..epoch'
        BY <1>1, <3>2 DEF StartVoice, MicTypeOK
      <4>2. /\ handle' \in 0..epoch' /\ hot' \subseteq 1..epoch'
            /\ timer' \in 0..epoch' /\ timers' \subseteq 1..epoch'
        BY <1>1, <3>2 DEF port, StartVoice, MicTypeOK
      <4>5. late' \subseteq 1..epoch' /\ chunks' \subseteq 1..epoch'
        BY <1>1, <3>2 DEF port, StartVoice, MicTypeOK
      <4>3. /\ voiceAbort' \in 0..epoch' /\ aborted' \subseteq 1..epoch'
            /\ dropped' \subseteq 0..epoch' /\ heard' \subseteq 1..epoch'
        BY <1>1, <3>2 DEF StartVoice, MicTypeOK
      <4>4. voiceStatus' \in Statuses /\ latchOnStart' \in BOOLEAN /\ stops' \subseteq Stop
        BY <1>1 DEF StartVoice, MicTypeOK
      <4> QED
        BY <3>1, <3>3, <3>4, <4>1, <4>2, <4>3, <4>4, <4>5 DEF MicTypeOK
  <2>2. WavTypeOK'
    BY <1>1 DEF StartVoice, Gate, WavTypeOK, wavVars
  <2>3. overtaken' \in BOOLEAN
    BY <1>1 DEF StartVoice, Gate
  <2> QED
    BY <2>1, <2>2, <2>3
<1>2. CASE LatchVoice
  <2>1. MicTypeOK'
    BY <1>2 DEF LatchVoice, MicTypeOK, micVars, port
  <2>2. WavTypeOK'
    BY <1>2 DEF LatchVoice, WavTypeOK, wavVars
  <2>3. overtaken' \in BOOLEAN
    BY <1>2 DEF LatchVoice
  <2> QED
    BY <2>1, <2>2, <2>3
<1>3. CASE Release
  <2>1. MicTypeOK'
    BY <1>3, StopVoiceTypes DEF Release
  <2>2. WavTypeOK'
    BY <1>3 DEF Release, StopVoice, AbandonStart, StopRecording, Live, Stop,
    WavTypeOK, wavVars
  <2>3. overtaken' \in BOOLEAN
    BY <1>3 DEF Release, StopVoice, AbandonStart, StopRecording, Live, Stop
  <2> QED
    BY <2>1, <2>2, <2>3
<1>4. CASE CancelVoice
  <2>1. MicTypeOK'
    BY <1>4, CancelTypes DEF CancelVoice
  <2>2. WavTypeOK'
    BY <1>4 DEF CancelVoice, Cancel, Teardown, Live, WavTypeOK, wavVars
  <2>3. overtaken' \in BOOLEAN
    BY <1>4 DEF CancelVoice, Cancel, Teardown, Live
  <2> QED
    BY <2>1, <2>2, <2>3
<1>5. ASSUME NEW e \in prompts, Denied(e) PROVE (MicTypeOK' /\ WavTypeOK' /\ overtaken' \in BOOLEAN)
  <2>1. MicTypeOK'
    BY <1>5 DEF Denied, MicTypeOK, micVars, port
  <2>2. WavTypeOK'
    BY <1>5 DEF Denied, WavTypeOK, wavVars
  <2>3. overtaken' \in BOOLEAN
    BY <1>5 DEF Denied
  <2> QED
    BY <2>1, <2>2, <2>3
<1>6. ASSUME NEW e \in prompts, Granted(e) PROVE (MicTypeOK' /\ WavTypeOK' /\ overtaken' \in BOOLEAN)
  <2>1. MicTypeOK'
    <3>1. e \in 1..epoch /\ prompts' \subseteq 1..epoch
      BY <1>6 DEF Granted, MicTypeOK
    <3>2. CASE GoLive(e)
      <4>1. e \in 0..epoch
        BY <3>1 DEF MicTypeOK
      <4>2. voiceStatus' \in Statuses /\ latchOnStart' \in BOOLEAN
        BY <3>2 DEF GoLive
      <4>3. hot' \subseteq 1..epoch /\ timers' \subseteq 1..epoch
        BY <3>1, <3>2 DEF GoLive, MicTypeOK
      <4> QED
        BY <1>6, <3>1, <3>2, <4>1, <4>2, <4>3 DEF Granted, GoLive, MicTypeOK
    <3>3. CASE Unwanted(e)
      BY <1>6, <3>1, <3>3 DEF Granted, Unwanted, MicTypeOK
    <3> QED
      BY <1>6, <3>2, <3>3 DEF Granted
  <2>2. WavTypeOK'
    BY <1>6 DEF Granted, GoLive, Unwanted, WavTypeOK, wavVars
  <2>3. overtaken' \in BOOLEAN
    BY <1>6 DEF Granted, GoLive, Unwanted
  <2> QED
    BY <2>1, <2>2, <2>3
<1>7. ASSUME NEW e \in timers, TimerFires(e) PROVE (MicTypeOK' /\ WavTypeOK' /\ overtaken' \in BOOLEAN)
  <2>1. MicTypeOK'
    <3>1. CASE StopVoice
      <4>1. timers' \subseteq timers
        BY <1>7 DEF TimerFires
      <4> QED
        BY <1>7, <3>1, <4>1, StopVoiceTypes DEF TimerFires
    <3>2. CASE UNCHANGED <<voiceStatus, epoch, timer, voiceAbort, stops, dropped>>
      BY <1>7, <3>2 DEF port, TimerFires, MicTypeOK
    <3> QED
      BY <1>7, <3>1, <3>2 DEF TimerFires
  <2>2. WavTypeOK'
    BY <1>7 DEF TimerFires, StopVoice, AbandonStart, StopRecording, Live,
    Stop, WavTypeOK, wavVars
  <2>3. overtaken' \in BOOLEAN
    BY <1>7 DEF TimerFires, StopVoice, AbandonStart, StopRecording, Live,
    Stop
  <2> QED
    BY <2>1, <2>2, <2>3
<1>8. ASSUME NEW s \in stops, RecorderStops(s) PROVE (MicTypeOK' /\ WavTypeOK' /\ overtaken' \in BOOLEAN)
  <2>1. MicTypeOK'
    <3>1. /\ s.mic \in 1..epoch /\ epoch \in Nat
          /\ chunks \cup {s.mic} \subseteq 1..epoch
      BY DEF MicTypeOK, Stop
    <3>2. [mic |-> s.mic, clip |-> chunks \cup {s.mic}, stage |-> "encoding"] \in Stop
      BY <3>1 DEF Stop
    <3>3. /\ stops' \subseteq Stop
          /\ \A t \in stops' : t.mic \in 1..epoch' /\ t.clip \subseteq 1..epoch'
      <4> DEFINE x == [mic |-> s.mic, clip |-> chunks \cup {s.mic}, stage |-> "encoding"]
      <4>1. /\ stops' = (stops \ {s}) \cup {x} /\ epoch' = epoch
            /\ x \in Stop /\ x.mic \in 1..epoch /\ x.clip \subseteq 1..epoch
        BY <1>8, <3>1, <3>2 DEF RecorderStops
      <4> HIDE DEF x
      <4> QED
        BY <4>1 DEF MicTypeOK
    <3>4. handle' \in 0..epoch' /\ hot' \subseteq 1..epoch' /\ chunks' \subseteq 1..epoch'
      BY <1>8 DEF RecorderStops, Teardown, MicTypeOK
    <3> QED
      BY <1>8, <3>3, <3>4 DEF RecorderStops, MicTypeOK
  <2>2. WavTypeOK'
    BY <1>8 DEF RecorderStops, Teardown, Stop, WavTypeOK, wavVars
  <2>3. overtaken' \in BOOLEAN
    BY <1>8 DEF RecorderStops, Teardown, Stop
  <2> QED
    BY <2>1, <2>2, <2>3
<1>9. ASSUME NEW s \in stops, EncodeFails(s) PROVE (MicTypeOK' /\ WavTypeOK' /\ overtaken' \in BOOLEAN)
  <2>1. MicTypeOK'
    BY <1>9 DEF EncodeFails, EndRelease, Stop, MicTypeOK, micVars, port
  <2>2. WavTypeOK'
    BY <1>9 DEF EncodeFails, EndRelease, Stop, WavTypeOK, wavVars
  <2>3. overtaken' \in BOOLEAN
    BY <1>9 DEF EncodeFails, EndRelease, Stop
  <2> QED
    BY <2>1, <2>2, <2>3
<1>10. ASSUME NEW s \in stops, Encoded(s) PROVE (MicTypeOK' /\ WavTypeOK' /\ overtaken' \in BOOLEAN)
  <2>1. MicTypeOK'
    <3>1. s.clip \subseteq 1..epoch
      BY <1>10 DEF MicTypeOK
    <3>2. heard' \subseteq 1..epoch
      BY <1>10, <3>1 DEF Encoded, MicTypeOK
    <3>3. voiceStatus' \in Statuses /\ voiceAbort' \in 0..epoch
      BY <1>10 DEF Encoded, EndRelease, MicTypeOK
    <3> QED
      BY <1>10, <3>2, <3>3 DEF port, Encoded, MicTypeOK
  <2>2. WavTypeOK'
    BY <1>10 DEF Encoded, EndRelease, Stop, WavTypeOK, wavVars
  <2>3. overtaken' \in BOOLEAN
    BY <1>10 DEF Encoded, EndRelease, Stop
  <2> QED
    BY <2>1, <2>2, <2>3
<1>11. CASE ToggleOn
  <2>1. MicTypeOK'
    BY <1>11 DEF ToggleOn, Gate, MicTypeOK, micVars, port
  <2>2. WavTypeOK'
    BY <1>11 DEF ToggleOn, Gate, WavTypeOK, wavVars
  <2>3. overtaken' \in BOOLEAN
    BY <1>11 DEF ToggleOn, Gate
  <2> QED
    BY <2>1, <2>2, <2>3
<1>12. CASE ToggleOff
  <2>1. MicTypeOK'
    BY <1>12 DEF ToggleOff, StopListening, MicTypeOK, micVars, port
  <2>2. WavTypeOK'
    BY <1>12 DEF ToggleOff, StopListening, WavTypeOK, wavVars
  <2>3. overtaken' \in BOOLEAN
    BY <1>12 DEF ToggleOff, StopListening
  <2> QED
    BY <2>1, <2>2, <2>3
<1>13. CASE Segment
  <2>1. MicTypeOK'
    BY <1>13 DEF Segment, MicTypeOK, micVars, port
  <2>2. WavTypeOK'
    BY <1>13 DEF Segment, WavTypeOK, wavVars
  <2>3. overtaken' \in BOOLEAN
    BY <1>13 DEF Segment
  <2> QED
    BY <2>1, <2>2, <2>3
<1>14. CASE SendClip
  <2>1. MicTypeOK'
    BY <1>14 DEF SendClip, Relisten, MicTypeOK, micVars, port
  <2>2. WavTypeOK'
    BY <1>14 DEF SendClip, Relisten, WavTypeOK, wavVars
  <2>3. overtaken' \in BOOLEAN
    BY <1>14 DEF SendClip, Relisten
  <2> QED
    BY <2>1, <2>2, <2>3
<1>15. ASSUME NEW l \in loads, LoadFails(l) PROVE (MicTypeOK' /\ WavTypeOK' /\ overtaken' \in BOOLEAN)
  <2>1. MicTypeOK'
    BY <1>15 DEF LoadFails, MicTypeOK, micVars, port
  <2>2. WavTypeOK'
    BY <1>15 DEF LoadFails, WavTypeOK, wavVars
  <2>3. overtaken' \in BOOLEAN
    BY <1>15 DEF LoadFails
  <2> QED
    BY <2>1, <2>2, <2>3
<1>16. ASSUME NEW l \in loads, LoadEnds(l) PROVE (MicTypeOK' /\ WavTypeOK' /\ overtaken' \in BOOLEAN)
  <2>1. MicTypeOK'
    BY <1>16 DEF LoadEnds, MicTypeOK, micVars, port
  <2>2. WavTypeOK'
    <3>1. l \in 1..toggles
      BY <1>16 DEF LoadEnds, WavTypeOK
    <3>2. CASE continuousStatus = "starting"
      <4>1. l \in 0..toggles
        BY <3>1
      <4>2. vad' = l /\ open' = open \cup {l} /\ continuousStatus' = "listening"
        BY <1>16, <3>2 DEF LoadEnds
      <4> QED
        BY <1>16, <3>1, <4>1, <4>2 DEF LoadEnds, WavTypeOK
    <3>3. CASE continuousStatus # "starting"
      <4>1. vad' \in 0..toggles /\ open' = open /\ continuousStatus' = continuousStatus
        BY <1>16, <3>1, <3>3 DEF LoadEnds, WavTypeOK
      <4> QED
        BY <1>16, <4>1 DEF LoadEnds, WavTypeOK
    <3> QED
      BY <3>2, <3>3
  <2>3. overtaken' \in BOOLEAN
    BY <1>16 DEF LoadEnds
  <2> QED
    BY <2>1, <2>2, <2>3
<1>17. ASSUME NEW m \in Models, SwitchModel(m) PROVE (MicTypeOK' /\ WavTypeOK' /\ overtaken' \in BOOLEAN)
  <2>1. MicTypeOK'
    <3>1. CASE Cancel
      BY <1>17, <3>1, CancelTypes DEF SwitchModel
    <3>2. CASE UNCHANGED <<timer, timers, aborted, voiceAbort, epoch, port, dropped, voiceStatus>>
      BY <1>17, <3>2 DEF port, SwitchModel, MicTypeOK
    <3> QED
      BY <1>17, <3>1, <3>2 DEF SwitchModel
  <2>2. WavTypeOK'
    <3>1. CASE StopListening
      BY <1>17, <3>1 DEF SwitchModel, StopListening, WavTypeOK
    <3>2. CASE UNCHANGED <<open, vad, continuousStatus>>
      BY <1>17, <3>2 DEF SwitchModel, WavTypeOK
    <3> QED
      BY <1>17, <3>1, <3>2 DEF SwitchModel
  <2>3. overtaken' \in BOOLEAN
    BY <1>17 DEF SwitchModel, Cancel, Teardown, StopListening
  <2> QED
    BY <2>1, <2>2, <2>3
<1>18. CASE SendTyped /\ UNCHANGED <<micVars, wavVars, overtaken>>
  <2>1. MicTypeOK'
    BY <1>18 DEF MicTypeOK, micVars, port
  <2>2. WavTypeOK'
    BY <1>18 DEF WavTypeOK, wavVars
  <2>3. overtaken' \in BOOLEAN
    BY <1>18
  <2> QED
    BY <2>1, <2>2, <2>3
<1>19. CASE StartReplay /\ UNCHANGED <<micVars, wavVars, overtaken>>
  <2>1. MicTypeOK'
    BY <1>19 DEF MicTypeOK, micVars, port
  <2>2. WavTypeOK'
    BY <1>19 DEF WavTypeOK, wavVars
  <2>3. overtaken' \in BOOLEAN
    BY <1>19
  <2> QED
    BY <2>1, <2>2, <2>3
<1>20. ASSUME NEW o \in flying, NEW commits \in BOOLEAN, OwnSettles(o, commits) PROVE (MicTypeOK' /\ WavTypeOK' /\ overtaken' \in BOOLEAN)
  <2>1. MicTypeOK'
    BY <1>20 DEF OwnSettles, MicTypeOK, micVars, port
  <2>2. WavTypeOK'
    BY <1>20 DEF OwnSettles, WavTypeOK, wavVars
  <2>3. overtaken' \in BOOLEAN
    BY <1>20 DEF OwnSettles
  <2> QED
    BY <2>1, <2>2, <2>3
<1>21. ASSUME NEW o \in flying, NEW commits \in BOOLEAN, SpokenSettles(o, commits) PROVE (MicTypeOK' /\ WavTypeOK' /\ overtaken' \in BOOLEAN)
  <2>1. MicTypeOK'
    BY <1>21 DEF SpokenSettles, EndRelease, MicTypeOK, micVars, port
  <2>2. WavTypeOK'
    BY <1>21 DEF SpokenSettles, EndRelease, WavTypeOK, wavVars
  <2>3. overtaken' \in BOOLEAN
    BY <1>21 DEF SpokenSettles, EndRelease
  <2> QED
    BY <2>1, <2>2, <2>3
<1>22. ASSUME NEW o \in flying, NEW commits \in BOOLEAN, ClipSettles(o, commits) PROVE (MicTypeOK' /\ WavTypeOK' /\ overtaken' \in BOOLEAN)
  <2>1. MicTypeOK'
    BY <1>22 DEF ClipSettles, Relisten, MicTypeOK, micVars, port
  <2>2. WavTypeOK'
    BY <1>22 DEF ClipSettles, Relisten, WavTypeOK, wavVars
  <2>3. overtaken' \in BOOLEAN
    BY <1>22 DEF ClipSettles, Relisten
  <2> QED
    BY <2>1, <2>2, <2>3
<1>24. ASSUME NEW e \in late, LateData(e) PROVE (MicTypeOK' /\ WavTypeOK' /\ overtaken' \in BOOLEAN)
  <2>1. MicTypeOK'
    BY <1>24 DEF LateData, MicTypeOK
  <2>2. WavTypeOK'
    BY <1>24 DEF LateData, WavTypeOK, wavVars
  <2> QED
    BY <1>24, <2>1, <2>2 DEF LateData
<1>23. CASE UNCHANGED vars
  <2>1. MicTypeOK'
    BY <1>23 DEF vars, MicTypeOK, micVars, port
  <2>2. WavTypeOK'
    BY <1>23 DEF vars, WavTypeOK, wavVars
  <2>3. overtaken' \in BOOLEAN
    BY <1>23 DEF vars
  <2> QED
    BY <2>1, <2>2, <2>3
<1> QED
  BY <1>1, <1>2, <1>3, <1>4, <1>5, <1>6, <1>7, <1>8, <1>9, <1>10, <1>11,
  <1>12, <1>13, <1>14, <1>15, <1>16, <1>17, <1>18, <1>19, <1>20, <1>21,
  <1>22, <1>23, <1>24 DEF Next

------------------------------------------------------------------------------
(* The microphone.                                                         *)

(* Nothing of an earlier session is left when the next one starts, and the *)
(* port's handle is the session on the controls or none.                   *)
MicCalm ==
    /\ handle # 0 => voiceStatus \in Live \cup {"sending"} /\ handle \notin dropped
    /\ hot \subseteq {handle}
    /\ voiceStatus = "starting" => epoch \notin dropped
    /\ voiceStatus \in Live => handle = epoch /\ handle \in hot /\ timer \in timers
    /\ epoch \in prompts => voiceStatus = "starting"
    /\ voiceAbort # 0 => voiceStatus = "sending"
    /\ stops # {} \/ Spoken # {} => voiceStatus \in {"idle", "sending"}
    /\ \A s, t \in stops : s = t
    /\ \A s \in stops : s.stage = "encoding" => handle = 0
    /\ handle # 0 => late = {} /\ chunks = {}
    /\ \A s \in stops : voiceAbort # 0 => ({s.mic} \cup s.clip) \cap dropped = {}
    /\ \A s \in stops : voiceAbort # 0 /\ s.stage = "stopping" => handle = s.mic
    /\ Spoken # {} => stops = {} /\ handle = 0

(* The same of the hands-free session and its detector. *)
WavCalm ==
    /\ open \subseteq {vad}
    /\ open # {} <=> continuousStatus \in {"listening", "sending"}
    /\ loads # {} => continuousStatus \in {"idle", "starting"}
    /\ \A l, k \in loads : l = k
    /\ continuousBusy => continuousStatus \in {"idle", "sending"}
    /\ Clips # {} => continuousBusy
    /\ \A o, q \in Clips : o = q

Calm == ~overtaken => MicCalm /\ WavCalm

(* A step that leaves the microphone alone and sends nothing spoken. *)
LEMMA MicFrame == MicCalm /\ UNCHANGED micVars /\ Spoken' \subseteq Spoken => MicCalm'
BY DEF MicCalm, micVars, port, Live

(* A step that leaves the detector alone and sends no clip. *)
LEMMA WavFrame == WavCalm /\ UNCHANGED wavVars /\ Clips' \subseteq Clips => WavCalm'
BY DEF WavCalm, wavVars

(* What a step of the engine does to the requests of the two. *)
LEMMA NothingSent == UNCHANGED engineVars => Spoken' = Spoken /\ Clips' = Clips
BY DEF engineVars, Spoken, Clips

(* A request settled is the one that goes. *)
LEMMA OneSettled ==
  ASSUME NEW o \in flying, NEW commits, Settle(o, commits)
  PROVE  Spoken' = Spoken \ {o} /\ Clips' = Clips \ {o}
BY DEF Settle, Spoken, Clips

(* A cancel leaves no handle, no track and no controller behind. *)
LEMMA CancelCalm ==
  TypeOK /\ MicCalm /\ Cancel /\ Spoken' = Spoken /\ UNCHANGED <<prompts, stops>> => MicCalm'
<1> SUFFICES ASSUME TypeOK, MicCalm, Cancel, Spoken' = Spoken, UNCHANGED <<prompts, stops>>
             PROVE  MicCalm'
  OBVIOUS
<1>1. CASE voiceStatus = "starting"
  <2>1. epoch' \notin prompts'
    BY <1>1 DEF Cancel, TypeOK, MicTypeOK
  <2>2. handle' = 0 /\ hot' \subseteq {0} /\ voiceStatus' = "idle" /\ voiceAbort' = 0
    BY <1>1 DEF MicCalm, Cancel, Live, port
  <2> QED
    BY <1>1, <2>1, <2>2 DEF MicCalm, Live
<1>2. CASE voiceStatus # "starting"
  BY <1>2 DEF MicCalm, Cancel, CancelRecording, Teardown, Discarded, Running, Live, TypeOK, MicTypeOK
<1> QED
  BY <1>1, <1>2

(* A release drops a pending start, or leaves one recorder to stop. *)
LEMMA StopVoiceCalm ==
  TypeOK /\ MicCalm /\ StopVoice /\ Spoken' = Spoken /\ UNCHANGED <<prompts, port>> => MicCalm'
<1> SUFFICES ASSUME TypeOK, MicCalm, StopVoice, Spoken' = Spoken, UNCHANGED <<prompts, port>>
             PROVE  MicCalm'
  OBVIOUS
<1> USE DEF Live, port
<1>1. CASE AbandonStart
  <2>1. epoch' \notin prompts'
    BY <1>1 DEF AbandonStart, TypeOK, MicTypeOK
  <2>2. handle' = 0 /\ voiceAbort' = 0 /\ voiceStatus' = "idle" /\ stops' = stops
    BY <1>1 DEF AbandonStart, MicCalm
  <2> QED
    BY <1>1, <2>1, <2>2 DEF AbandonStart, MicCalm
<1>2. CASE StopRecording
  <2>1. /\ stops = {} /\ Spoken = {} /\ handle = epoch /\ handle # 0
        /\ epoch \notin prompts /\ handle \notin dropped
    BY <1>2 DEF StopRecording, MicCalm, TypeOK, MicTypeOK
  <2>2. /\ voiceStatus' = "sending" /\ voiceAbort' = epoch /\ dropped' = dropped /\ epoch' = epoch
        /\ stops' = {[mic |-> handle, clip |-> {}, stage |-> "stopping"]}
    BY <1>2, <2>1 DEF StopRecording
  <2>3. /\ \A s, t \in stops' : s = t
        /\ \A s \in stops' : s.mic = handle /\ s.clip = {} /\ s.stage = "stopping"
    BY <2>2
  <2> QED
    BY <2>1, <2>2, <2>3 DEF MicCalm
<1> QED
  BY <1>1, <1>2 DEF StopVoice

(* A calm session stays calm until a start overtakes the last one. *)
LEMMA CalmKept == TypeOK /\ Calm /\ [Next]_vars => Calm'
<1> SUFFICES ASSUME TypeOK, Calm, [Next]_vars, ~overtaken' PROVE MicCalm' /\ WavCalm'
  BY DEF Calm
<1> USE DEF Live
<1>1. CASE StartVoice
  <2>1. ~overtaken /\ MicCalm /\ WavCalm
    BY <1>1 DEF Calm, StartVoice
  <2>2. Spoken' = Spoken /\ Clips' = Clips
    BY <1>1, NothingSent DEF StartVoice
  <2>3. WavCalm'
    BY <1>1, <2>1, <2>2, WavFrame DEF StartVoice
  <2>4. MicCalm'
    <3>1. epoch' = epoch + 1 /\ epoch \in Nat
      BY <1>1 DEF StartVoice, TypeOK, MicTypeOK
    <3>2. epoch' \notin dropped
      BY <3>1 DEF TypeOK, MicTypeOK
    <3>3. voiceStatus' = "starting" /\ handle' = 0 /\ hot' \subseteq {0}
      BY <1>1, <2>1 DEF port, StartVoice, MicCalm
    <3>4. stops' = {} /\ Spoken' = {} /\ voiceAbort' = 0
      BY <1>1, <2>1, <2>2 DEF StartVoice, MicCalm, TypeOK, MicTypeOK
    <3> QED
      BY <1>1, <3>2, <3>3, <3>4 DEF StartVoice, MicCalm
  <2> QED
    BY <2>3, <2>4
<1>2. CASE LatchVoice
  <2>1. ~overtaken /\ MicCalm /\ WavCalm
    BY <1>2 DEF Calm, LatchVoice
  <2>2. Spoken' = Spoken /\ Clips' = Clips
    BY <1>2, NothingSent DEF LatchVoice
  <2>3. WavCalm'
    BY <1>2, <2>1, <2>2, WavFrame DEF LatchVoice
  <2>4. MicCalm'
    BY <1>2, <2>1, <2>2 DEF port, LatchVoice, MicCalm, TypeOK, MicTypeOK
  <2> QED
    BY <2>3, <2>4
<1>3. CASE Release
  <2>1. ~overtaken /\ MicCalm /\ WavCalm
    BY <1>3 DEF Calm, Release
  <2>2. Spoken' = Spoken /\ Clips' = Clips
    BY <1>3, NothingSent DEF Release
  <2>3. WavCalm'
    BY <1>3, <2>1, <2>2, WavFrame DEF Release
  <2>4. MicCalm'
    BY <1>3, <2>1, <2>2, StopVoiceCalm DEF Release
  <2> QED
    BY <2>3, <2>4
<1>4. CASE CancelVoice
  <2>1. ~overtaken /\ MicCalm /\ WavCalm
    BY <1>4 DEF Calm, CancelVoice
  <2>2. Spoken' = Spoken /\ Clips' = Clips
    BY <1>4, NothingSent DEF CancelVoice
  <2>3. WavCalm'
    BY <1>4, <2>1, <2>2, WavFrame DEF CancelVoice
  <2>4. MicCalm'
    BY <1>4, <2>1, <2>2, CancelCalm DEF CancelVoice
  <2> QED
    BY <2>3, <2>4
<1>5. ASSUME NEW e \in prompts, Denied(e) PROVE (MicCalm' /\ WavCalm')
  <2>1. ~overtaken /\ MicCalm /\ WavCalm
    BY <1>5 DEF Calm, Denied
  <2>2. Spoken' = Spoken /\ Clips' = Clips
    BY <1>5, NothingSent DEF Denied
  <2>3. WavCalm'
    BY <1>5, <2>1, <2>2, WavFrame DEF Denied
  <2>4. MicCalm'
    BY <1>5, <2>1, <2>2 DEF port, Denied, MicCalm, TypeOK, MicTypeOK
  <2> QED
    BY <2>3, <2>4
<1>6. ASSUME NEW e \in prompts, Granted(e) PROVE (MicCalm' /\ WavCalm')
  <2>1. ~overtaken /\ MicCalm /\ WavCalm
    BY <1>6 DEF Calm, Granted
  <2>2. Spoken' = Spoken /\ Clips' = Clips
    BY <1>6, NothingSent DEF Granted
  <2>3. WavCalm'
    BY <1>6, <2>1, <2>2, WavFrame DEF Granted
  <2>4. MicCalm'
    <3>1. handle = 0 /\ 0 \notin hot /\ epoch # 0
      <4>1. handle = 0
        BY <1>6 DEF Granted
      <4>2. 0 \notin hot
        BY DEF TypeOK, MicTypeOK
      <4>3. e \in 1..epoch
        BY <1>6 DEF Granted, TypeOK, MicTypeOK
      <4> QED
        BY <4>1, <4>2, <4>3 DEF TypeOK, MicTypeOK
    <3>2. CASE epoch = e /\ voiceStatus = "starting"
      <4>5. late' = {} /\ chunks' = {}
        BY <1>6, <3>2 DEF Granted, GoLive
      <4>1. handle' = e /\ hot' \subseteq {e} /\ e \in hot' /\ e \notin dropped'
        BY <1>6, <2>1, <3>1, <3>2 DEF Granted, GoLive, MicCalm
      <4>2. stops' = {} /\ Spoken' = {} /\ voiceAbort' = 0
        BY <1>6, <2>1, <2>2, <3>2 DEF Granted, MicCalm
      <4>3. /\ voiceStatus' \in Live /\ epoch' = e /\ timer' \in timers' /\ epoch' \notin prompts'
        BY <1>6, <3>2 DEF Granted, GoLive
      <4> QED
        BY <4>1, <4>2, <4>3, <4>5 DEF MicCalm
    <3>3. CASE ~(epoch = e /\ voiceStatus = "starting")
      BY <1>6, <2>1, <2>2, <3>1, <3>3 DEF Granted, Unwanted, MicCalm
    <3> QED
      BY <3>2, <3>3
  <2> QED
    BY <2>3, <2>4
<1>7. ASSUME NEW e \in timers, TimerFires(e) PROVE (MicCalm' /\ WavCalm')
  <2>1. ~overtaken /\ MicCalm /\ WavCalm
    BY <1>7 DEF Calm, TimerFires
  <2>2. Spoken' = Spoken /\ Clips' = Clips
    BY <1>7, NothingSent DEF TimerFires
  <2>3. WavCalm'
    BY <1>7, <2>1, <2>2, WavFrame DEF TimerFires
  <2>4. MicCalm'
    <3>1. CASE StopVoice
      BY <1>7, <2>1, <2>2, <3>1, StopVoiceCalm DEF TimerFires
    <3>2. CASE /\ voiceStatus \in {"idle", "sending"}
               /\ UNCHANGED <<voiceStatus, epoch, timer, voiceAbort, stops, dropped>>
      BY <1>7, <2>1, <2>2, <3>2 DEF port, TimerFires, MicCalm
    <3> QED
      BY <1>7, <3>1, <3>2 DEF TimerFires
  <2> QED
    BY <2>3, <2>4
<1>8. ASSUME NEW s \in stops, RecorderStops(s) PROVE (MicCalm' /\ WavCalm')
  <2>1. ~overtaken /\ MicCalm /\ WavCalm
    BY <1>8 DEF Calm, RecorderStops
  <2>2. Spoken' = Spoken /\ Clips' = Clips
    BY <1>8, NothingSent DEF RecorderStops
  <2>3. WavCalm'
    BY <1>8, <2>1, <2>2, WavFrame DEF RecorderStops
  <2>4. MicCalm'
    <3> DEFINE x == [mic |-> s.mic, clip |-> chunks \cup {s.mic}, stage |-> "encoding"]
    <3>1. stops = {s} /\ stops' = {x} /\ handle' = 0
      BY <1>8, <2>1 DEF RecorderStops, Teardown, MicCalm
    <3>2. voiceAbort # 0 => handle = s.mic /\ s.mic \notin dropped
      BY <1>8, <2>1 DEF RecorderStops, MicCalm
    <3>3. s.mic # 0
      BY DEF TypeOK, MicTypeOK
    <3>4. voiceAbort # 0 => chunks = {}
      BY <2>1, <3>2, <3>3 DEF MicCalm
    <3>5. voiceAbort # 0 => ({x.mic} \cup x.clip) \cap dropped = {}
      BY <3>2, <3>4
    <3>6. x.stage = "encoding"
      OBVIOUS
    <3>7. /\ UNCHANGED <<voiceStatus, epoch, prompts, voiceAbort, dropped, timer, timers>>
          /\ hot' \subseteq {0} /\ voiceStatus \in {"idle", "sending"} /\ Spoken = {}
      BY <1>8, <2>1, <3>1 DEF RecorderStops, Teardown, MicCalm
    <3> HIDE DEF x
    <3> QED
      BY <2>1, <2>2, <3>1, <3>5, <3>6, <3>7 DEF MicCalm
  <2> QED
    BY <2>3, <2>4
<1>9. ASSUME NEW s \in stops, EncodeFails(s) PROVE (MicCalm' /\ WavCalm')
  <2>1. ~overtaken /\ MicCalm /\ WavCalm
    BY <1>9 DEF Calm, EncodeFails
  <2>2. Spoken' = Spoken /\ Clips' = Clips
    BY <1>9, NothingSent DEF EncodeFails
  <2>3. WavCalm'
    BY <1>9, <2>1, <2>2, WavFrame DEF EncodeFails
  <2>4. MicCalm'
    BY <1>9, <2>1, <2>2 DEF port, EncodeFails, EndRelease, Stop, MicCalm, TypeOK,
    MicTypeOK
  <2> QED
    BY <2>3, <2>4
<1>10. ASSUME NEW s \in stops, Encoded(s) PROVE (MicCalm' /\ WavCalm')
  <2>1. ~overtaken /\ MicCalm /\ WavCalm
    BY <1>10 DEF Calm, Encoded
  <2>5. stops = {s} /\ stops' = {} /\ handle = 0 /\ Spoken = {}
    BY <1>10, <2>1 DEF Encoded, MicCalm
  <2>6. CASE UNCHANGED engineVars /\ EndRelease
    <3>1. Spoken' = Spoken /\ Clips' = Clips
      BY <2>6, NothingSent
    <3>2. MicCalm'
      BY <1>10, <2>1, <2>5, <2>6, <3>1 DEF port, Encoded, EndRelease, MicCalm
    <3>3. WavCalm'
      BY <1>10, <2>1, <3>1, WavFrame DEF Encoded
    <3> QED
      BY <3>2, <3>3
  <2>7. CASE Enter("spoken", voiceAbort) /\ UNCHANGED <<voiceStatus, voiceAbort>>
    <3>1. Clips' = Clips
      BY <2>7 DEF Enter, Op, Clips
    <3>2. MicCalm'
      BY <1>10, <2>1, <2>5, <2>7 DEF port, Encoded, MicCalm
    <3>3. WavCalm'
      BY <1>10, <2>1, <3>1, WavFrame DEF Encoded
    <3> QED
      BY <3>2, <3>3
  <2>8. CASE Bounce /\ EndRelease
    <3>1. Spoken' = Spoken /\ Clips' = Clips
      BY <2>8 DEF Bounce, Spoken, Clips
    <3>2. MicCalm'
      BY <1>10, <2>1, <2>5, <2>8, <3>1 DEF port, Encoded, EndRelease, MicCalm
    <3>3. WavCalm'
      BY <1>10, <2>1, <3>1, WavFrame DEF Encoded
    <3> QED
      BY <3>2, <3>3
  <2>3. MicCalm'
    BY <1>10, <2>6, <2>7, <2>8 DEF Encoded
  <2>4. WavCalm'
    BY <1>10, <2>6, <2>7, <2>8 DEF Encoded
  <2> QED
    BY <2>3, <2>4
<1>11. CASE ToggleOn
  <2>1. ~overtaken /\ MicCalm /\ WavCalm
    BY <1>11 DEF Calm, ToggleOn
  <2>2. Spoken' = Spoken /\ Clips' = Clips
    BY <1>11, NothingSent DEF ToggleOn
  <2>3. MicCalm'
    BY <1>11, <2>1, <2>2, MicFrame DEF ToggleOn
  <2>4. WavCalm'
    BY <1>11, <2>1, <2>2 DEF ToggleOn, Gate, WavCalm
  <2> QED
    BY <2>3, <2>4
<1>12. CASE ToggleOff
  <2>1. ~overtaken /\ MicCalm /\ WavCalm
    BY <1>12 DEF Calm, ToggleOff
  <2>2. Spoken' = Spoken /\ Clips' = Clips
    BY <1>12, NothingSent DEF ToggleOff
  <2>3. MicCalm'
    BY <1>12, <2>1, <2>2, MicFrame DEF ToggleOff
  <2>4. WavCalm'
    BY <1>12, <2>1, <2>2 DEF ToggleOff, StopListening, WavCalm
  <2> QED
    BY <2>3, <2>4
<1>13. CASE Segment
  <2>1. ~overtaken /\ MicCalm /\ WavCalm
    BY <1>13 DEF Calm, Segment
  <2>2. Spoken' = Spoken /\ Clips' = Clips
    BY <1>13, NothingSent DEF Segment
  <2>3. MicCalm'
    BY <1>13, <2>1, <2>2, MicFrame DEF Segment
  <2>4. WavCalm'
    BY <1>13, <2>1, <2>2 DEF Segment, WavCalm
  <2> QED
    BY <2>3, <2>4
<1>14. CASE SendClip
  <2>1. ~overtaken /\ MicCalm /\ WavCalm
    BY <1>14 DEF Calm, SendClip, Relisten
  <2>2. CASE Enter("clip", 0) /\ UNCHANGED <<micVars, wavVars, overtaken>>
    <3>1. Spoken' = Spoken
      BY <2>2 DEF Enter, Op, Spoken
    <3>2. \A o, q \in Clips' : o = q
      BY <1>14, <2>2 DEF SendClip, Enter, Op, Clips
    <3>3. MicCalm'
      BY <2>1, <2>2, <3>1, MicFrame
    <3>4. WavCalm'
      BY <1>14, <2>1, <2>2, <3>2 DEF SendClip, WavCalm, wavVars
    <3> QED
      BY <3>3, <3>4
  <2>5. CASE Bounce /\ Relisten
    <3>1. Spoken' = Spoken /\ Clips' = Clips
      BY <2>5 DEF Bounce, Spoken, Clips
    <3>2. MicCalm'
      BY <2>1, <2>5, <3>1, MicFrame DEF Relisten
    <3>3. WavCalm'
      BY <1>14, <2>1, <2>5, <3>1 DEF SendClip, Relisten, WavCalm
    <3> QED
      BY <3>2, <3>3
  <2>3. MicCalm'
    BY <1>14, <2>2, <2>5 DEF SendClip
  <2>4. WavCalm'
    BY <1>14, <2>2, <2>5 DEF SendClip
  <2> QED
    BY <2>3, <2>4
<1>15. ASSUME NEW l \in loads, LoadFails(l) PROVE (MicCalm' /\ WavCalm')
  <2>1. ~overtaken /\ MicCalm /\ WavCalm
    BY <1>15 DEF Calm, LoadFails
  <2>2. Spoken' = Spoken /\ Clips' = Clips
    BY <1>15, NothingSent DEF LoadFails
  <2>3. MicCalm'
    BY <1>15, <2>1, <2>2, MicFrame DEF LoadFails
  <2>4. WavCalm'
    BY <1>15, <2>1, <2>2 DEF LoadFails, WavCalm
  <2> QED
    BY <2>3, <2>4
<1>16. ASSUME NEW l \in loads, LoadEnds(l) PROVE (MicCalm' /\ WavCalm')
  <2>1. ~overtaken /\ MicCalm /\ WavCalm
    BY <1>16 DEF Calm, LoadEnds
  <2>2. Spoken' = Spoken /\ Clips' = Clips
    BY <1>16, NothingSent DEF LoadEnds
  <2>3. MicCalm'
    BY <1>16, <2>1, <2>2, MicFrame DEF LoadEnds
  <2>4. WavCalm'
    BY <1>16, <2>1, <2>2 DEF LoadEnds, WavCalm
  <2> QED
    BY <2>3, <2>4
<1>17. ASSUME NEW m \in Models, SwitchModel(m) PROVE (MicCalm' /\ WavCalm')
  <2>1. ~overtaken /\ MicCalm /\ WavCalm
    BY <1>17 DEF Calm, SwitchModel
  <2>2. Spoken' = Spoken /\ Clips' = Clips
    BY <1>17 DEF SwitchModel, Rebuild, Spoken, Clips
  <2>3. MicCalm'
    <3>1. CASE Cancel
      BY <1>17, <2>1, <2>2, <3>1, CancelCalm DEF SwitchModel
    <3>2. CASE UNCHANGED <<timer, timers, aborted, voiceAbort, epoch, port, dropped, voiceStatus>>
      BY <1>17, <2>1, <2>2, <3>2 DEF port, SwitchModel, MicCalm
    <3> QED
      BY <1>17, <3>1, <3>2 DEF SwitchModel
  <2>4. WavCalm'
    BY <1>17, <2>1, <2>2 DEF SwitchModel, StopListening, WavCalm
  <2> QED
    BY <2>3, <2>4
<1>18. CASE SendTyped /\ UNCHANGED <<micVars, wavVars, overtaken>>
  <2>1. ~overtaken /\ MicCalm /\ WavCalm
    BY <1>18 DEF Calm
  <2>2. Spoken' \subseteq Spoken /\ Clips' \subseteq Clips
    <3>1. CASE Enter("typed", 0)
      BY <3>1 DEF Enter, Op, Spoken, Clips
    <3>2. CASE Bounce
      BY <3>2 DEF Bounce, Spoken, Clips
    <3> QED
      BY <1>18, <3>1, <3>2 DEF SendTyped
  <2>3. MicCalm'
    BY <1>18, <2>1, <2>2, MicFrame
  <2>4. WavCalm'
    BY <1>18, <2>1, <2>2, WavFrame
  <2> QED
    BY <2>3, <2>4
<1>19. CASE StartReplay /\ UNCHANGED <<micVars, wavVars, overtaken>>
  <2>1. ~overtaken /\ MicCalm /\ WavCalm
    BY <1>19 DEF Calm
  <2>2. Spoken' \subseteq Spoken /\ Clips' \subseteq Clips
    BY <1>19 DEF StartReplay, StartEdit, StartMove, Op, Spoken, Clips
  <2>3. MicCalm'
    BY <1>19, <2>1, <2>2, MicFrame
  <2>4. WavCalm'
    BY <1>19, <2>1, <2>2, WavFrame
  <2> QED
    BY <2>3, <2>4
<1>20. ASSUME NEW o \in flying, NEW commits \in BOOLEAN, OwnSettles(o, commits) PROVE (MicCalm' /\ WavCalm')
  <2>1. ~overtaken /\ MicCalm /\ WavCalm
    BY <1>20 DEF Calm, OwnSettles
  <2>2. Spoken' \subseteq Spoken /\ Clips' \subseteq Clips
    BY <1>20, OneSettled DEF OwnSettles, SettleOwn
  <2>3. MicCalm'
    BY <1>20, <2>1, <2>2, MicFrame DEF OwnSettles
  <2>4. WavCalm'
    BY <1>20, <2>1, <2>2, WavFrame DEF OwnSettles
  <2> QED
    BY <2>3, <2>4
<1>21. ASSUME NEW o \in flying, NEW commits \in BOOLEAN, SpokenSettles(o, commits) PROVE (MicCalm' /\ WavCalm')
  <2>1. ~overtaken /\ MicCalm /\ WavCalm
    BY <1>21 DEF Calm, SpokenSettles
  <2>2. Spoken' = Spoken \ {o} /\ Clips' \subseteq Clips
    BY <1>21, OneSettled DEF SpokenSettles
  <2>3. MicCalm'
    BY <1>21, <2>1, <2>2 DEF port, SpokenSettles, EndRelease, MicCalm, TypeOK, MicTypeOK
  <2>4. WavCalm'
    BY <1>21, <2>1, <2>2, WavFrame DEF SpokenSettles
  <2> QED
    BY <2>3, <2>4
<1>22. ASSUME NEW o \in flying, NEW commits \in BOOLEAN, ClipSettles(o, commits) PROVE (MicCalm' /\ WavCalm')
  <2>1. ~overtaken /\ MicCalm /\ WavCalm
    BY <1>22 DEF Calm, ClipSettles, Relisten
  <2>2. Spoken' \subseteq Spoken /\ Clips' = Clips \ {o}
    BY <1>22, OneSettled DEF ClipSettles
  <2>3. MicCalm'
    BY <1>22, <2>1, <2>2, MicFrame DEF ClipSettles, Relisten
  <2>4. WavCalm'
    BY <1>22, <2>1, <2>2 DEF ClipSettles, Relisten, WavCalm
  <2> QED
    BY <2>3, <2>4
<1>24. ASSUME NEW e \in late, LateData(e) PROVE (MicCalm' /\ WavCalm')
  <2>1. ~overtaken /\ MicCalm /\ WavCalm
    BY <1>24 DEF Calm, LateData
  <2>2. Spoken' = Spoken /\ Clips' = Clips
    BY <1>24, NothingSent DEF LateData
  <2>3. WavCalm'
    BY <1>24, <2>1, <2>2, WavFrame DEF LateData
  <2>4. MicCalm'
    BY <1>24, <2>1, <2>2 DEF LateData, MicCalm
  <2> QED
    BY <2>3, <2>4
<1>23. CASE UNCHANGED vars
  <2>1. ~overtaken /\ MicCalm /\ WavCalm
    BY <1>23 DEF Calm, vars
  <2>2. Spoken' = Spoken /\ Clips' = Clips
    BY <1>23, NothingSent DEF vars
  <2>3. MicCalm'
    BY <1>23, <2>1, <2>2, MicFrame DEF vars
  <2>4. WavCalm'
    BY <1>23, <2>1, <2>2, WavFrame DEF vars
  <2> QED
    BY <2>3, <2>4
<1> QED
  BY <1>1, <1>2, <1>3, <1>4, <1>5, <1>6, <1>7, <1>8, <1>9, <1>10, <1>11,
  <1>12, <1>13, <1>14, <1>15, <1>16, <1>17, <1>18, <1>19, <1>20, <1>21,
  <1>22, <1>23, <1>24 DEF Next

------------------------------------------------------------------------------
(* The theorems.                                                           *)
(* The inductive invariant: the types, the engine's half, the calm session. *)
VInv == TypeOK /\ EngineInv /\ Calm

(* VInv holds at the start and through every step. *)
LEMMA VoiceInductive == Spec => []VInv
<1>1. Init => VInv
  <2> SUFFICES ASSUME Init PROVE VInv
    OBVIOUS
  <2>1. EngineTypeOK /\ EngineInv
    BY EngineStarts DEF Init
  <2>2. MicTypeOK /\ WavTypeOK /\ overtaken \in BOOLEAN
    <3>1. 0 \in 0..MaxPresses /\ 0 \in 0..MaxToggles /\ 0 \in 0..MaxClips
      BY VoiceBoundsAssumption
    <3>2. MicTypeOK
      <4>1. epoch = 0 /\ handle = 0 /\ timer = 0 /\ voiceAbort = 0 /\ presses = 0
        BY DEF Init
      <4>2. prompts = {} /\ hot = {} /\ late = {} /\ chunks = {} /\ timers = {} /\ aborted = {} /\ stops = {} /\ dropped = {} /\ heard = {}
        BY DEF Init
      <4>3. voiceStatus = "idle" /\ latchOnStart = FALSE
        BY DEF Init
      <4>4. epoch \in Nat /\ handle \in 0..epoch /\ timer \in 0..epoch /\ voiceAbort \in 0..epoch
        BY <4>1
      <4>5. presses \in 0..MaxPresses
        BY <3>1, <4>1
      <4>6. /\ prompts \subseteq 1..epoch /\ hot \subseteq 1..epoch /\ timers \subseteq 1..epoch
            /\ late \subseteq 1..epoch /\ chunks \subseteq 1..epoch
            /\ aborted \subseteq 1..epoch /\ dropped \subseteq 0..epoch /\ heard \subseteq 1..epoch
        BY <4>2
      <4>7. stops \subseteq Stop /\ \A s \in stops : s.mic \in 1..epoch /\ s.clip \subseteq 1..epoch
        BY <4>2
      <4> QED
        BY <4>3, <4>4, <4>5, <4>6, <4>7 DEF MicTypeOK, Statuses
    <3>3. WavTypeOK
      <4>1. toggles = 0 /\ clips = 0 /\ vad = 0
        BY DEF Init
      <4>2. loads = {} /\ open = {} /\ continuousStatus = "idle" /\ continuousBusy = FALSE
        BY DEF Init
      <4>3. toggles \in 0..MaxToggles /\ clips \in 0..MaxClips /\ vad \in 0..toggles
        BY <3>1, <4>1
      <4>4. loads \subseteq 1..toggles /\ open \subseteq 1..toggles
        BY <4>2
      <4> QED
        BY <4>2, <4>3, <4>4 DEF WavTypeOK
    <3> QED
      BY <3>2, <3>3 DEF Init
  <2>3. Calm
    BY DEF Init, EngineInit, Calm, MicCalm, WavCalm, Live, Spoken, Clips
  <2> QED
    BY <2>1, <2>2, <2>3 DEF VInv, TypeOK
<1>2. VInv /\ [Next]_vars => VInv'
  BY VoiceTypeKept, EngineDriven, EngineInvKept, CalmKept DEF VInv, TypeOK
<1> QED
  BY <1>1, <1>2, PTL DEF Spec

(* Every variable of voice input and of its engine keeps its type, for any *)
(* number of presses, sessions, clips and changes of settings.             *)
THEOREM VoiceTypeCorrect == Spec => []TypeOK
BY VoiceInductive, PTL DEF VInv

(* Voice input is one more client of the engine: it changes the engine by  *)
(* the engine's own steps, at any interleaving of the two.                 *)
THEOREM VoiceDrivesEngine == Spec => EngineInit /\ [][EngineNext]_engineVars
<1>1. Init => EngineInit
  BY DEF Init
<1>2. VInv /\ [Next]_vars => [EngineNext]_engineVars
  BY EngineDriven DEF VInv
<1> QED
  BY <1>1, <1>2, VoiceInductive, PTL DEF Spec

(* A quiet grid shows what the journal says through any number of changes  *)
(* of settings; excepted are a gesture, a move or a robbed request that was *)
(* in flight as the runner changed, and a move that failed.                *)
THEOREM RunnerAlwaysTellsJournal == Spec => []RunnerTellsJournal
<1>1. VInv => RunnerTellsJournal
  <2> SUFFICES ASSUME VInv, flying = {}, ~missed,
                      \A o \in orphans : o.kind \notin Flagless /\ o.id \notin robbed
               PROVE  grids[runner] = cursor
    BY DEF RunnerTellsJournal
  <2>1. orphans = {}
    BY DEF VInv, EngineInv, Orphaned
  <2> QED
    BY <2>1 DEF VInv, EngineInv, Undisturbed, Moving
<1> QED
  BY <1>1, VoiceInductive, PTL

(* The microphone is live only while a control shows it.                   *)
THEOREM StatusAlwaysMatchesMic == Spec => []StatusMatchesMic
<1>1. VInv => StatusMatchesMic
  <2> SUFFICES ASSUME VInv, ~overtaken
               PROVE  /\ AtRest => hot = {} /\ open = {}
                      /\ voiceStatus \in Live => handle = epoch /\ handle \in hot /\ timer \in timers
                      /\ continuousStatus = "listening" => open # {}
    BY DEF StatusMatchesMic
  <2>1. MicCalm /\ WavCalm
    BY DEF VInv, Calm
  <2>2. 0 \notin hot
    BY DEF VInv, TypeOK, MicTypeOK
  <2> QED
    BY <2>1, <2>2 DEF MicCalm, WavCalm, AtRest, Live
<1> QED
  BY <1>1, VoiceInductive, PTL

(* Audio of a session that was cancelled or released at the prompt is never *)
(* sent, though its recorder still delivers it, while no start has overtaken *)
(* what an earlier session left: a release, a request, a handle or data.   *)
THEOREM NothingEverSentAfterCancel == Spec => NothingSentAfterCancel
<1>1. VInv /\ [Next]_vars => [~overtaken => (heard' \ heard) \cap dropped = {}]_vars
  <2> SUFFICES ASSUME VInv, Next, ~overtaken
               PROVE  (heard' \ heard) \cap dropped = {}
    OBVIOUS
  <2>1. CASE \E s \in stops : Encoded(s)
    <3>1. PICK s \in stops : Encoded(s)
      BY <2>1
    <3>2. voiceAbort # 0 => s.clip \cap dropped = {}
      BY DEF VInv, Calm, MicCalm
    <3> QED
      BY <3>1, <3>2 DEF Encoded
  <2>2. CASE ~(\E s \in stops : Encoded(s))
    <3>1. heard' = heard
      BY <2>2 DEF Next, StartVoice, LatchVoice, Release, CancelVoice, Denied, Granted, TimerFires,
        RecorderStops, EncodeFails, ToggleOn, ToggleOff, Segment, SendClip, Relisten, LoadFails,
        LoadEnds, LateData, SwitchModel, OwnSettles, SpokenSettles, ClipSettles, micVars
    <3> QED
      BY <3>1
  <2> QED
    BY <2>1, <2>2
<1> QED
  BY <1>1, VoiceInductive, PTL DEF Spec, NothingSentAfterCancel

=============================================================================
