------------------------------ MODULE EngineRebuild ------------------------------
(***************************************************************************)
(* The engine of the browser session under a change of its settings:       *)
(* web/src/controller-config.ts (setConfig) and controller-engine.ts       *)
(* (ensureHeadless, request, rebuildForConfigChange).                      *)
(*                                                                         *)
(* A change of provider, model or key builds a new runner and hands it the *)
(* plan and the rows of the old one.  Work in flight keeps the runner it   *)
(* was started on.  This module has the engine's half; the microphone's is *)
(* in VoiceSession, which composes the two.                                *)
(***************************************************************************)
EXTENDS Naturals, FiniteSets, Sequences

CONSTANTS
    Models,       \* the configurations a user can choose
    Hearing,      \* those whose model takes audio and whose provider has a key
    MaxTyped,     \* bound: typed requests and gestures
    MaxMoves,     \* bound: undos, redos and jumps
    MaxSwitches   \* bound: changes of the configuration

ASSUME ModelsAssumption == Hearing \subseteq Models /\ Hearing # {}
ASSUME BoundsAssumption ==
    MaxTyped \in Nat /\ MaxMoves \in Nat /\ MaxSwitches \in Nat

VARIABLES
    model,      \* host.config
    runner,     \* headless: the runner in place
    grids,      \* of each runner, the operations its plan carries
    busy,       \* the runners with a request inside (HeadlessRunner.busy)
    streaming,  \* host.streaming
    flying,     \* operations that await their runner
    cursor,     \* the plan the journal says is on the grid
    entries,    \* the journal's timeline: the plan before and after each change
    at,         \* how many of them are applied
    sent,       \* operations started so far
    moves,      \* undos, redos and jumps so far
    orphans,    \* history: operations in flight when their runner was replaced
    robbed,     \* history: requests whose run flag another one's end lowered
    missed      \* history: the last move failed, and nothing has landed since

engineVars ==
    <<model, runner, grids, busy, streaming, flying, cursor, entries, at, sent,
      moves, orphans, robbed, missed>>
journalVars == <<cursor, entries, at>>

Runners == 0..MaxSwitches

EngineInit ==
    /\ model \in Hearing
    /\ runner = 0
    /\ grids = [r \in Runners |-> {}]
    /\ busy = {}
    /\ streaming = FALSE
    /\ flying = {}
    /\ cursor = {} /\ entries = <<>> /\ at = 0
    /\ sent = 0 /\ moves = 0
    /\ orphans = {}
    /\ robbed = {}
    /\ missed = FALSE

\* What replays on the runner in place and raises no run flag.
Flagless == {"edit", "move"}
Requests == {o \in flying : o.kind \notin Flagless}
Replays  == flying \ Requests

\* voiceAvailable and continuousAvailable, with both ports wired and no tour.
Gate == model \in Hearing

-----------------------------------------------------------------------------
(* Operations.  `kind` tells who started it, `signal` what can abort it,   *)
(* `plan` what a move goes to.  Replays start on a quiet engine here; what *)
(* gestures, moves and requests do to one another is WebSession's subject. *)

Op(kind, signal, plan) ==
    [id |-> sent + 1, kind |-> kind, runner |-> runner, signal |-> signal, plan |-> plan]

\* engine.request on a runner that is free: the run flag goes up and the
\* request waits inside the runner it was sent to.
Enter(kind, signal) ==
    /\ Replays = {}
    /\ runner \notin busy
    /\ busy' = busy \cup {runner}
    /\ streaming' = TRUE
    /\ flying' = flying \cup {Op(kind, signal, {})}
    /\ sent' = sent + 1
    /\ UNCHANGED <<model, runner, grids, journalVars, moves, orphans, robbed, missed>>

\* engine.request on a busy runner: the runner throws, and the finally block
\* lowers the run flag of whoever holds it.
Bounce ==
    /\ runner \in busy
    /\ streaming' = FALSE
    /\ robbed' = robbed \cup {o.id : o \in Requests}
    /\ UNCHANGED <<model, runner, grids, busy, flying, journalVars, sent, moves, orphans,
                   missed>>

\* The plan of runner r becomes `plan`; the change is one entry of the journal,
\* and what was undone is gone.
Record(r, plan) ==
    /\ grids' = [grids EXCEPT ![r] = plan]
    /\ cursor' = plan
    /\ entries' = Append(SubSeq(entries, 1, at), [prev |-> grids[r], next |-> plan])
    /\ at' = at + 1

\* An operation settles: a request or a gesture commits on its own runner and
\* is recorded, a move puts on the grid what the journal said when it started;
\* or it fails, is declined, is cancelled or is answered.
Settle(o, commits) ==
    /\ o \in flying
    /\ flying' = flying \ {o}
    /\ busy' = IF o.kind \in Flagless THEN busy ELSE busy \ {o.runner}
    /\ streaming' = IF o.kind \in Flagless THEN streaming ELSE FALSE
    /\ \/ commits /\ o.kind # "move" /\ Record(o.runner, grids[o.runner] \cup {o.id})
       \/ /\ commits /\ o.kind = "move"
          /\ grids' = [grids EXCEPT ![o.runner] = o.plan]
          /\ UNCHANGED journalVars
       \/ ~commits /\ UNCHANGED <<grids, journalVars>>
    /\ missed' = IF commits THEN FALSE ELSE (missed \/ o.kind = "move")
    /\ robbed' = IF o.kind \in Flagless THEN robbed
                 ELSE robbed \cup {q.id : q \in Requests \ {o}}
    /\ UNCHANGED <<model, runner, sent, moves, orphans>>

\* A typed request: sendChat is open while the run flag is down.
SendTyped ==
    /\ ~streaming /\ Replays = {}
    /\ (sent < MaxTyped /\ Enter("typed", 0)) \/ Bounce

\* A gesture replays on the runner in place; it raises no flag.
StartEdit ==
    /\ sent < MaxTyped
    /\ flying = {}
    /\ flying' = {Op("edit", 0, {})}
    /\ sent' = sent + 1
    /\ UNCHANGED <<model, runner, grids, busy, streaming, journalVars, moves, orphans,
                   robbed, missed>>

\* The plans the journal holds.
Plans == {entries[i].prev : i \in DOMAIN entries} \cup {entries[i].next : i \in DOMAIN entries}

\* The steps of the timeline an undo, a redo or a jump goes to, and the plan
\* the journal gives for it: an undo the one before the entry it takes back, a
\* redo and a jump the one after the last entry applied.
Reaches(k, plan) ==
    \/ at > 0 /\ k = at - 1 /\ plan = entries[at].prev
    \/ k \in DOMAIN entries /\ plan = entries[k].next
    \/ k = 0 /\ entries # <<>> /\ plan = entries[1].prev

\* An undo, a redo or a jump: the journal moves at once, the replay on the
\* runner in place follows; it raises no flag.
StartMove(k, plan) ==
    /\ moves < MaxMoves
    /\ flying = {}
    /\ Reaches(k, plan)
    /\ cursor' = plan /\ at' = k
    /\ flying' = {Op("move", 0, plan)}
    /\ sent' = sent + 1 /\ moves' = moves + 1
    /\ UNCHANGED <<model, runner, grids, busy, streaming, entries, orphans, robbed, missed>>

StartReplay == StartEdit \/ \E k \in 0..Len(entries), plan \in Plans : StartMove(k, plan)

SettleOwn(o, commits) == o.kind \in {"typed"} \cup Flagless /\ Settle(o, commits)

-----------------------------------------------------------------------------
(* setConfig.  Its awaits run on a fresh runner with no connection, so no  *)
(* event falls between them.                                               *)

\* Mutant: the run flag is not looked at.
RebuildUnguarded(m) ==
    /\ runner < MaxSwitches
    /\ m \in Models \ {model}
    /\ model' = m
    /\ runner' = runner + 1
    /\ grids' = [grids EXCEPT ![runner + 1] = grids[runner]]
    /\ orphans' = orphans \cup flying
    /\ UNCHANGED <<busy, streaming, flying, journalVars, sent, moves, robbed, missed>>

\* A change that needs a new engine is refused while a run is on; else the
\* new runner loads the source and adopts the plan and the rows of the old.
Rebuild(m) ==
    /\ runner < MaxSwitches
    /\ m \in Models \ {model}
    /\ ~streaming
    /\ model' = m
    /\ runner' = runner + 1
    /\ grids' = [grids EXCEPT ![runner + 1] = grids[runner]]
    /\ orphans' = orphans \cup flying
    /\ UNCHANGED <<busy, streaming, flying, journalVars, sent, moves, robbed, missed>>

-----------------------------------------------------------------------------
(* The engine by itself: what whoever composes it may do to it.            *)
Kinds == {"typed", "spoken", "clip"}

EngineNext ==
    \/ \E kind \in Kinds, signal \in Nat : Enter(kind, signal)
    \/ Bounce \/ StartReplay
    \/ \E o \in flying, commits \in BOOLEAN : Settle(o, commits)
    \/ \E m \in Models : Rebuild(m)

Operation ==
    [id : Nat, kind : Kinds \cup Flagless, runner : Runners, signal : Nat,
     plan : SUBSET Nat]

Entry == [prev : SUBSET Nat, next : SUBSET Nat]

EngineTypeOK ==
    /\ model \in Models /\ runner \in Runners
    /\ grids \in [Runners -> SUBSET Nat]
    /\ busy \subseteq Runners /\ streaming \in BOOLEAN
    /\ flying \subseteq Operation /\ orphans \subseteq Operation
    /\ cursor \subseteq Nat /\ entries \in Seq(Entry) /\ at \in 0..Len(entries)
    /\ sent \in Nat /\ moves \in 0..MaxMoves
    /\ robbed \subseteq Nat /\ missed \in BOOLEAN

=============================================================================
