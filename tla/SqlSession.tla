------------------------------ MODULE SqlSession ------------------------------
(***************************************************************************)
(* The runner's DuckDB session (headless/sql.ts): every evaluation drops   *)
(* the one relation there is, creates it, fills it in batches and queries  *)
(* it, over one connection, with an await after each statement.  The       *)
(* statements of one read (SET threads, DESCRIBE, the query) count as one: *)
(* it is issued, waits until the connection is free, and holds it until it *)
(* ends.  A query that ignores the interrupt, or has not even begun when   *)
(* it comes, is given up on and parked until it drains.                    *)
(*                                                                         *)
(* Callers are requests (Runner.request) and passes (setSpec: a replayed   *)
(* flow, a run-all), numbered as they start; a pass may start beside any   *)
(* of them.  Row i of the table an evaluation is given is <<o, i>>, o its  *)
(* owner.                                                                  *)
(***************************************************************************)
EXTENDS Integers, Sequences, SequencesExt, FiniteSetsExt

CONSTANTS
  MaxCallers,  \* bound: requests and passes of a session
  MaxEvals,    \* bound: evaluations, over all callers
  Batches,     \* INSERT batches that fill a table
  Parallel     \* may one request have two evaluations in flight?

ASSUME SqlAssumption ==
  /\ MaxCallers \in Nat
  /\ MaxEvals \in Nat
  /\ Batches \in Nat \ {0}
  /\ Parallel \in BOOLEAN

VARIABLES
  active,     \* the callers in flight
  requests,   \* the callers that are requests
  callers,    \* how many have started
  stopped,    \* the callers whose signal is aborted
  relation,   \* what the queries read: a sequence of rows, or NoTable
  conn,       \* the evaluation whose query the connection executes, or None
  lingering,  \* lingeringSql: the parked evaluation it was set for, or None
  paired,     \* history: the evaluations that were parked while another was
  evals       \* the evaluations started, in order; `shared` is history: did
              \* another run beside it?

sqlVars ==
  <<active, requests, callers, stopped, relation, conn, lingering, paired, evals>>

None == 0
NoTable == <<<<None, None>>>>
Callers == 1..MaxCallers
Rows(owner) == [i \in 1..Batches |-> <<owner, i>>]
Row == Callers \X (1..Batches)

(* What an evaluation awaits: a statement of its registration, its result  *)
(* ("query"), or nothing any more: it resolved, was rejected, or was given *)
(* up on while its query goes on.                                          *)
Await == {"drop", "create", "insert", "query", "ok", "failed", "cancelled", "parked"}
Evaluation == [owner : Callers, pc : Await, filled : 0..Batches, shared : BOOLEAN,
               got : Seq(Row \union {<<None, None>>})]

InFlight(e) == evals[e].pc \in {"drop", "create", "insert", "query"}
Parked == {e \in DOMAIN evals : evals[e].pc = "parked"}
Goto(e, pc) == [evals EXCEPT ![e].pc = pc]

------------------------------------------------------------------------------
SqlInit ==
  /\ active = {} /\ requests = {} /\ callers = 0 /\ stopped = {}
  /\ relation = NoTable /\ conn = None /\ lingering = None
  /\ paired = {} /\ evals = <<>>

Begin ==
  /\ callers < MaxCallers
  /\ callers' = callers + 1
  /\ active' = active \union {callers + 1}
  /\ UNCHANGED <<stopped, relation, conn, lingering, paired, evals>>

(* Mutant: hasLingeringSql never asked. *)
BeginRequestAtOnce ==
  /\ active \intersect requests = {}
  /\ Begin
  /\ requests' = requests \union {callers + 1}

(* Runner.request refuses to start beside another or a lingering query. *)
BeginRequest ==
  /\ active \intersect requests = {}
  /\ lingering = None
  /\ Begin
  /\ requests' = requests \union {callers + 1}

(* setSpec asks neither flag. *)
BeginPass == Begin /\ UNCHANGED requests

End(o) ==
  /\ o \in active
  /\ \A e \in DOMAIN evals : evals[e].owner = o => ~InFlight(e)
  /\ active' = active \ {o}
  /\ UNCHANGED <<requests, callers, stopped, relation, conn, lingering, paired, evals>>

(* The tool calls of one model turn run side by side, the steps of a       *)
(* replay one after the other.                                             *)
Evaluate(o) ==
  LET beside == {e \in DOMAIN evals : InFlight(e)}
      marked == [e \in DOMAIN evals |-> [evals[e] EXCEPT !.shared = @ \/ e \in beside]]
  IN  /\ o \in active \ stopped
      /\ Len(evals) < MaxEvals
      /\ (Parallel /\ o \in requests) \/ \A e \in beside : evals[e].owner # o
      /\ evals' = Append(marked, [owner |-> o, pc |-> "drop", filled |-> 0,
                                  shared |-> beside # {}, got |-> NoTable])
      /\ UNCHANGED <<active, requests, callers, stopped, relation, conn, lingering, paired>>

(* ---- registerRelation: one statement, one await ----------------------- *)

Drop(e) ==
  /\ evals[e].pc = "drop" /\ conn = None
  /\ relation' = NoTable
  /\ evals' = Goto(e, "create")
  /\ UNCHANGED <<active, requests, callers, stopped, conn, lingering, paired>>

Create(e) ==
  /\ evals[e].pc = "create" /\ conn = None
  /\ relation = NoTable
  /\ relation' = <<>>
  /\ evals' = Goto(e, "insert")
  /\ UNCHANGED <<active, requests, callers, stopped, conn, lingering, paired>>

(* CREATE on a table that is there, INSERT into one that is not.           *)
RegisterFails(e) ==
  /\ conn = None
  /\ \/ evals[e].pc = "create" /\ relation # NoTable
     \/ evals[e].pc = "insert" /\ relation = NoTable
  /\ evals' = Goto(e, IF evals[e].owner \in stopped THEN "cancelled" ELSE "failed")
  /\ UNCHANGED <<active, requests, callers, stopped, relation, conn, lingering, paired>>

(* Mutant: the last batch left out. *)
InsertShort(e) ==
  LET owner == evals[e].owner
      filled == evals[e].filled + 1
      next == IF filled + 1 < Batches THEN "insert"
              ELSE IF owner \in stopped THEN "cancelled" ELSE "query"
  IN  /\ evals[e].pc = "insert" /\ conn = None
      /\ relation # NoTable
      /\ relation' = Append(relation, <<owner, filled>>)
      /\ evals' = [evals EXCEPT ![e].filled = filled, ![e].pc = next]
      /\ UNCHANGED <<active, requests, callers, stopped, conn, lingering, paired>>

(* After the last batch the signal is looked at for the first time, and    *)
(* the query is issued.                                                    *)
Insert(e) ==
  LET owner == evals[e].owner
      filled == evals[e].filled + 1
      next == IF filled < Batches THEN "insert"
              ELSE IF owner \in stopped THEN "cancelled" ELSE "query"
  IN  /\ evals[e].pc = "insert" /\ conn = None
      /\ relation # NoTable
      /\ relation' = Append(relation, <<owner, filled>>)
      /\ evals' = [evals EXCEPT ![e].filled = filled, ![e].pc = next]
      /\ UNCHANGED <<active, requests, callers, stopped, conn, lingering, paired>>

(* ---- runInterruptibleSql ---------------------------------------------- *)

Issued(e) == evals[e].pc \in {"query", "parked"}

(* The connection is free for an issued query, parked or not: it reads     *)
(* what is registered then.                                                *)
Execute(e) ==
  /\ Issued(e) /\ conn = None
  /\ relation # NoTable
  /\ conn' = e
  /\ evals' = [evals EXCEPT ![e].got = IF evals[e].pc = "query" THEN relation ELSE @]
  /\ UNCHANGED <<active, requests, callers, stopped, relation, lingering, paired>>

(* The parked promise's finally clears the one field there is.             *)
Drained(e) == lingering' = IF evals[e].pc = "parked" THEN None ELSE lingering

(* A rejected query is a cancel only for the owner whose signal is aborted. *)
Rejected(e) ==
  [evals EXCEPT
     ![e].got = NoTable,
     ![e].pc = IF evals[e].owner \in stopped THEN "cancelled" ELSE "failed"]

(* The query is over, for a caller that waits for it or for nobody.        *)
Return(e) ==
  /\ Issued(e) /\ conn = e
  /\ conn' = None
  /\ evals' = IF evals[e].pc = "query" THEN Goto(e, "ok") ELSE Rejected(e)
  /\ Drained(e)
  /\ UNCHANGED <<active, requests, callers, stopped, relation, paired>>

(* An SQL error, the interrupt, or a table that is gone.                   *)
QueryFails(e) ==
  /\ Issued(e)
  /\ conn = e \/ (conn = None /\ relation = NoTable)
  /\ conn' = None
  /\ evals' = Rejected(e)
  /\ Drained(e)
  /\ UNCHANGED <<active, requests, callers, stopped, relation, paired>>

(* The abort.  Its interrupt is best effort: QueryFails, or nothing.       *)
Stop(o) ==
  /\ o \in active \ stopped
  /\ stopped' = stopped \union {o}
  /\ UNCHANGED <<active, requests, callers, relation, conn, lingering, paired, evals>>

Park(e) ==
  /\ evals' = [evals EXCEPT ![e].pc = "parked", ![e].got = NoTable]
  /\ lingering' = e
  /\ paired' = IF Parked = {} THEN paired ELSE paired \union Parked \union {e}
  /\ UNCHANGED <<active, requests, callers, stopped, relation, conn>>

(* Mutant: the timer left to a query that has not reached DuckDB. *)
GiveUpIdle(e) ==
  /\ evals[e].pc = "query" /\ evals[e].owner \in stopped /\ conn # e
  /\ Park(e)

(* SQL_CANCEL_GIVE_UP_MS after the abort. *)
GiveUp(e) ==
  /\ evals[e].pc = "query" /\ evals[e].owner \in stopped
  /\ Park(e)

SqlNext ==
  \/ BeginRequest \/ BeginPass
  \/ \E o \in Callers : Stop(o) \/ End(o) \/ Evaluate(o)
  \/ \E e \in DOMAIN evals :
       \/ Drop(e) \/ Create(e) \/ Insert(e) \/ RegisterFails(e)
       \/ Execute(e) \/ Return(e) \/ QueryFails(e) \/ GiveUp(e)

(* Statements of a registration return, a query given up on begins and     *)
(* ends in the end, the give-up timer fires, and a settled caller returns. *)
(* A query nobody stopped may run for ever.                                *)
Register == \E e \in DOMAIN evals : Drop(e) \/ Create(e) \/ Insert(e) \/ RegisterFails(e)
Drain == \E e \in Parked : Execute(e) \/ Return(e) \/ QueryFails(e)
Timer == \E e \in DOMAIN evals : GiveUp(e)
SqlFairness ==
  /\ WF_sqlVars(Register) /\ WF_sqlVars(Drain) /\ WF_sqlVars(Timer)
  /\ \A o \in Callers : WF_sqlVars(End(o))

SqlSpec == SqlInit /\ [][SqlNext]_sqlVars /\ SqlFairness

------------------------------------------------------------------------------
SqlTypeOK ==
  /\ active \subseteq Callers /\ requests \subseteq Callers /\ callers \in 0..MaxCallers
  /\ stopped \subseteq Callers
  /\ relation = NoTable \/ relation \in Seq(Row)
  /\ conn \in 0..MaxEvals /\ lingering \in 0..MaxEvals
  /\ evals \in Seq(Evaluation)

(* An evaluation with no other beside it answers from the rows it was      *)
(* given, each exactly once, whatever was registered, broken off, cancelled *)
(* or given up on before it.                                               *)
Answered(e) == evals[e].pc = "ok"
AloneReadsOwnRows ==
  \A e \in DOMAIN evals :
    Answered(e) /\ ~evals[e].shared => evals[e].got = Rows(evals[e].owner)

(* "The next request waits for the drain rather than racing a half-dead    *)
(* query": none starts beside a parked query, whoever it is of.  Two       *)
(* queries parked at once are told by the one field there is, which the    *)
(* first to drain clears; they are the exception.                          *)
NoHalfDeadRace == [][requests' # requests => Parked \subseteq paired]_sqlVars

(* A stopped caller settles, though its query ignores the interrupt, unless *)
(* the query of a caller nobody stopped holds the connection.              *)
HeldByOther == conn # None /\ evals[conn].owner \notin stopped
StopSettles == \A o \in Callers : o \in stopped ~> (o \notin active \/ HeldByOther)
==============================================================================
