---------------------------- MODULE TourSession ----------------------------
(***************************************************************************)
(* Guided tours and load suggestions: web/src/controller-tutorial.ts, the  *)
(* suggestion part of controller.ts, and the loads and requests a tour     *)
(* scripts.  A tour is a list of steps, each run when the visitor presses  *)
(* Next; while one is active every model call is replayed from its tape.   *)
(* Between a click and its effect lie fetches, pauses, playbacks, parses   *)
(* and requests, and Esc, the Tours panel, a file of the visitor's own or  *)
(* an answer that is late may fall into any of them.                       *)
(*                                                                         *)
(* A tour object is the tour with the play that made it: playTutorial      *)
(* copies a tour that has lookups and hands out the parsed one otherwise,  *)
(* and cancelled() compares the objects.                                   *)
(***************************************************************************)
EXTENDS Integers, Sequences, FiniteSets

CONSTANTS Tours,        \* the tours of the panel
          Script,       \* their steps: load, query, audio, suggest
          Needs,        \* the lookups a tour stages before its first step
          MaxPlays,     \* tours clicked
          MaxOpens,     \* files the visitor opens
          MaxSends      \* requests the visitor sends

ASSUME ToursAssumption ==
  /\ Script \in [Tours -> Seq({"load", "query", "audio", "suggest"}) \ {<<>>}]
  /\ DOMAIN Needs = Tours /\ "none" \notin Tours
  /\ {MaxPlays, MaxOpens, MaxSends} \subseteq Nat

VARIABLES
  open,             \* tutorialOpen: the Tours panel
  active,           \* activeTour: the engine replays while there is one
  step,             \* tutorialStepIndex, or NoStep
  executedThrough,  \* the last step whose effect ran
  golden,           \* goldenRows: the tour whose expected output is shown
  completed,        \* tours with a checkmark
  plays,            \* the playTutorial calls in flight
  adv,              \* the advanceStep in flight: `advancing` and its locals
  pending,          \* the request a scripted step sent last
  requests,         \* requests in flight
  streaming,        \* the run flag of the shell
  replayMissed,     \* a call missed the tape
  staged,           \* lookups the engine holds
  tourLookups,      \* those a tour staged
  table,            \* the loaded table
  opening,          \* a file of the visitor's own is being parsed
  suggestionsSeq, chips, calls,   \* the suggestions shown, and asked for
  counts,           \* what the visitor did so far
  ghost             \* what the properties look back at

tourVars == <<active, step, executedThrough, golden>>
replayVars == <<pending, requests, streaming, replayMissed>>
lookupVars == <<staged, tourLookups>>
chipVars == <<suggestionsSeq, chips, calls>>
vars == <<open, tourVars, completed, plays, adv, replayVars, lookupVars,
          table, opening, chipVars, counts, ghost>>

NoStep == -1
NoTour == [tour |-> "none", play |-> 0]
NoTable == [id |-> 0, ofTour |-> FALSE, asked |-> FALSE]
Idle == [stage |-> "idle", of |-> NoTour, total |-> 0, call |-> 0]

Total(tour) == Len(Script[tour])
Done == active # NoTour /\ step # NoStep /\ step >= Total(active.tour)
Stayed == active # NoTour /\ step = NoStep
\* The overlay takes every click but Next and Esc.
Overlay == active # NoTour /\ step # NoStep
Waiting == \E r \in requests : r.id = pending

Init ==
  /\ open = FALSE
  /\ active = NoTour /\ step = NoStep /\ executedThrough = -1 /\ golden = "none"
  /\ completed = {} /\ plays = {} /\ adv = Idle
  /\ pending = 0 /\ requests = {} /\ streaming = FALSE /\ replayMissed = FALSE
  /\ staged = {} /\ tourLookups = {}
  /\ table = NoTable /\ opening = FALSE
  /\ suggestionsSeq = 0 /\ chips = 0 /\ calls = {}
  /\ counts = [plays |-> 0, opens |-> 0, sends |-> 0, requests |-> 0]
  /\ ghost = [begun |-> <<>>, overrun |-> FALSE, late |-> FALSE]

-----------------------------------------------------------------------------
(* Leaving a tour. *)

\* A lookup, a parse or an expected output on its way lands after the exit.
Landing == \/ \E p \in plays : p.stage = "staging"
           \/ adv.stage \in {"parsing", "golden"}

\* Mutant: the set is emptied, the engine keeps its tables.
CancelKeepsLookups ==
  /\ active' = NoTour /\ step' = NoStep /\ executedThrough' = -1 /\ golden' = "none"
  /\ staged' = staged /\ tourLookups' = {}
  /\ table' = IF active # NoTour THEN NoTable ELSE table
  /\ ghost' = [ghost EXCEPT !.late = @ \/ Landing]

Cancel ==
  /\ active' = NoTour /\ step' = NoStep /\ executedThrough' = -1 /\ golden' = "none"
  /\ staged' = staged \ tourLookups /\ tourLookups' = {}
  /\ table' = IF active # NoTour THEN NoTable ELSE table
  /\ ghost' = [ghost EXCEPT !.late = @ \/ Landing]

CancelVars == <<tourVars, lookupVars, table, ghost>>

OpenTutorial ==
  /\ ~Overlay /\ ~open
  /\ open' = TRUE
  /\ UNCHANGED <<tourVars, completed, plays, adv, replayVars, lookupVars, table,
                 opening, chipVars, counts, ghost>>

CloseTutorial ==
  /\ open /\ open' = FALSE
  /\ Cancel
  /\ UNCHANGED <<completed, plays, adv, replayVars, opening, chipVars, counts>>

\* Esc stays at the terminal stop and leaves before it.
Escape ==
  /\ Overlay
  /\ IF Done
     THEN /\ step' = NoStep
          /\ UNCHANGED <<active, executedThrough, golden, lookupVars, table, ghost>>
     ELSE Cancel
  /\ UNCHANGED <<open, completed, plays, adv, replayVars, opening, chipVars, counts>>

FinishTutorial ==
  /\ Done /\ open' = TRUE
  /\ Cancel
  /\ UNCHANGED <<completed, plays, adv, replayVars, opening, chipVars, counts>>

-----------------------------------------------------------------------------
(* Starting one: the feature is fetched, then the lookups, one by one. *)

\* A tour clicked in the panel: selectTutorialScenario, then playTutorial.
SelectTutorialScenario(t) ==
  /\ open /\ counts.plays < MaxPlays
  /\ counts' = [counts EXCEPT !.plays = @ + 1]
  /\ plays' = plays \cup {[tour |-> t, play |-> counts.plays + 1,
                           stage |-> "fetching", left |-> Needs[t]]}
  /\ Cancel
  /\ UNCHANGED <<open, completed, adv, replayVars, opening, chipVars>>

\* The first step is highlighted, whatever else is still under way.
Arm ==
  /\ step' = 0 /\ executedThrough' = -1 /\ replayMissed' = FALSE
  /\ golden' = "none" /\ open' = FALSE
  /\ ghost' = [ghost EXCEPT !.begun = <<>>, !.overrun = adv.stage # "idle"]

LoadTour(p) ==
  /\ p.stage = "fetching"
  /\ active' = [tour |-> p.tour, play |-> IF Needs[p.tour] = {} THEN 0 ELSE p.play]
  /\ table' = NoTable
  /\ IF p.left = {}
     THEN Arm /\ plays' = plays \ {p}
     ELSE /\ plays' = (plays \ {p}) \cup {[p EXCEPT !.stage = "staging"]}
          /\ ghost' = [ghost EXCEPT !.overrun = @ \/ active # NoTour \/ adv # Idle]
          /\ UNCHANGED <<open, step, executedThrough, golden, replayMissed>>
  /\ UNCHANGED <<completed, adv, pending, requests, streaming, lookupVars,
                 opening, chipVars, counts>>

LoadTourFails(p) ==
  /\ p.stage = "fetching" /\ plays' = plays \ {p}
  /\ UNCHANGED <<open, tourVars, completed, adv, replayVars, lookupVars, table,
                 opening, chipVars, counts, ghost>>

\* A lookup that cannot be fetched is a toast, and the tour goes on.
WriteLookup(p, name, ok) ==
  /\ p.stage = "staging" /\ name \in p.left
  /\ staged' = IF ok THEN staged \cup {name} ELSE staged
  /\ tourLookups' = IF ok THEN tourLookups \cup {name} ELSE tourLookups
  /\ IF p.left = {name}
     THEN Arm /\ plays' = plays \ {p}
     ELSE /\ plays' = (plays \ {p}) \cup {[p EXCEPT !.left = @ \ {name}]}
          /\ UNCHANGED <<open, step, executedThrough, golden, replayMissed, ghost>>
  /\ UNCHANGED <<active, completed, adv, pending, requests, streaming, table,
                 opening, chipVars, counts>>

-----------------------------------------------------------------------------
(* Tables and their suggestions. *)

\* A parsed table lands: the old suggestions go and a call asks for new ones.
CommitParsed(ofTour) ==
  /\ table' = [id |-> suggestionsSeq + 1, ofTour |-> ofTour, asked |-> FALSE]
  /\ suggestionsSeq' = suggestionsSeq + 1
  /\ chips' = 0
  /\ calls' = calls \cup {[seq |-> suggestionsSeq + 1, replaying |-> active # NoTour]}

\* Mutant: an answer is shown whatever was loaded since.
SuggestLate(c) ==
  /\ calls' = calls \ {c} /\ chips' = c.seq
  /\ UNCHANGED <<open, tourVars, completed, plays, adv, replayVars, lookupVars,
                 table, opening, suggestionsSeq, counts, ghost>>

Suggest(c) ==
  /\ calls' = calls \ {c}
  /\ chips' = IF c.seq = suggestionsSeq THEN c.seq ELSE chips
  /\ UNCHANGED <<open, tourVars, completed, plays, adv, replayVars, lookupVars,
                 table, opening, suggestionsSeq, counts, ghost>>

\* Under a tour it takes a miss with it, its own or another's.
SuggestFails(c) ==
  /\ calls' = calls \ {c}
  /\ replayMissed' = (replayMissed /\ ~c.replaying)
  /\ UNCHANGED <<open, tourVars, completed, plays, adv, pending, requests,
                 streaming, lookupVars, table, opening, suggestionsSeq, chips,
                 counts, ghost>>

ClearSuggestions ==
  /\ UNCHANGED calls
  /\ IF chips # 0 \/ \E c \in calls : c.seq = suggestionsSeq
     THEN suggestionsSeq' = suggestionsSeq + 1 /\ chips' = 0
     ELSE UNCHANGED <<suggestionsSeq, chips>>

\* The visitor opens a file; this is a way out of a stayed tour.
LoadFromPicked ==
  /\ ~Overlay /\ ~open /\ ~opening /\ counts.opens < MaxOpens
  /\ opening' = TRUE /\ counts' = [counts EXCEPT !.opens = @ + 1]
  /\ IF Stayed THEN Cancel ELSE UNCHANGED CancelVars
  /\ UNCHANGED <<open, completed, plays, adv, replayVars, chipVars>>

OwnTable(ok) ==
  /\ opening /\ opening' = FALSE
  /\ IF ok THEN CommitParsed(FALSE) ELSE UNCHANGED <<table, chipVars>>
  /\ UNCHANGED <<open, tourVars, completed, plays, adv, replayVars, lookupVars,
                 counts, ghost>>

-----------------------------------------------------------------------------
(* Requests, the visitor's and the scripted. *)

Send(mine) ==
  /\ requests' = requests \cup {[id |-> counts.requests + 1, mine |-> mine]}
  /\ streaming' = TRUE
  /\ counts' = [counts EXCEPT !.requests = @ + 1, !.sends = IF mine THEN @ + 1 ELSE @]

\* Staying in a tour, a request is ignored before any bubble.
SendChat ==
  /\ ~open /\ active = NoTour /\ table # NoTable /\ ~streaming
  /\ counts.sends < MaxSends
  /\ Send(TRUE)
  /\ UNCHANGED <<open, tourVars, completed, plays, adv, pending, replayMissed,
                 lookupVars, table, opening, chipVars, ghost>>

\* A call of a request or of the suggestions misses the active tour's tape.
NoteReplayMiss ==
  /\ active # NoTour /\ (requests # {} \/ calls # {})
  /\ ~replayMissed /\ replayMissed' = TRUE
  /\ UNCHANGED <<open, tourVars, completed, plays, adv, pending, requests,
                 streaming, lookupVars, table, opening, chipVars, counts, ghost>>

RequestSettles(r, commits) ==
  /\ requests' = requests \ {r} /\ streaming' = FALSE
  /\ IF commits
     THEN ClearSuggestions /\ table' = [table EXCEPT !.asked = table # NoTable]
     ELSE UNCHANGED <<chipVars, table>>
  /\ UNCHANGED <<open, tourVars, completed, plays, adv, pending, replayMissed,
                 lookupVars, opening, counts, ghost>>

\* A failure with a miss on the flag ends the tour; without, it is a toast.
RequestFails(r) ==
  /\ requests' = requests \ {r} /\ streaming' = FALSE
  /\ replayMissed' = FALSE
  /\ IF replayMissed THEN Cancel ELSE UNCHANGED CancelVars
  /\ UNCHANGED <<open, completed, plays, adv, pending, opening, chipVars, counts>>

-----------------------------------------------------------------------------
(* Next: advanceStep and the step it executes. *)

\* Mutant: the checkmark is set before the last request has settled.
PassedMarksEarly(a, waits) ==
  IF step = NoStep \/ active = NoTour
  THEN adv' = Idle /\ UNCHANGED <<step, executedThrough, completed>>
  ELSE /\ executedThrough' = step
       /\ IF step < a.total - 1
          THEN step' = step + 1 /\ adv' = Idle /\ UNCHANGED completed
          ELSE /\ step' = a.total
               /\ completed' = completed \cup {active.tour}
               /\ adv' = [a EXCEPT !.stage = "golden", !.of = active]

\* The step is over: the cursor moves on, if there still is one, or stops at
\* the terminal stop, where a request in flight is waited for.
Passed(a, waits) ==
  IF step = NoStep \/ active = NoTour
  THEN adv' = Idle /\ UNCHANGED <<step, executedThrough, completed>>
  ELSE /\ executedThrough' = step
       /\ IF step < a.total - 1
          THEN step' = step + 1 /\ adv' = Idle /\ UNCHANGED completed
          ELSE /\ step' = a.total
               /\ completed' = IF waits THEN completed ELSE completed \cup {active.tour}
               /\ adv' = [a EXCEPT !.stage = IF waits THEN "ending" ELSE "golden",
                                   !.of = active]

FirstStage == [load |-> "fetching", query |-> "pausing", audio |-> "clip",
               suggest |-> "suggesting"]

\* Execute the step at the cursor: its first await, or, for a query while
\* something streams, nothing.
ExecuteTutorialStep ==
  LET kind == Script[active.tour][step + 1]
      a == [stage |-> FirstStage[kind], of |-> active, total |-> Total(active.tour),
            call |-> suggestionsSeq]
  IN IF step <= executedThrough
     THEN Passed(a, Waiting) /\ UNCHANGED ghost
     ELSE /\ ghost' = [ghost EXCEPT !.begun = Append(@, step)]
          /\ IF kind = "query" /\ streaming
             THEN Passed(a, Waiting)
             ELSE adv' = a /\ UNCHANGED <<step, executedThrough, completed>>

\* Mutant: without the flag a second click runs the step again.
NextStepReentrant ==
  /\ Overlay /\ ~Done
  /\ IF Waiting
     THEN /\ adv' = [Idle EXCEPT !.stage = "waiting"]
          /\ UNCHANGED <<step, executedThrough, completed, ghost>>
     ELSE ExecuteTutorialStep
  /\ UNCHANGED <<open, active, golden, plays, replayVars, lookupVars, table,
                 opening, chipVars, counts>>

NextStep ==
  /\ Overlay /\ ~Done /\ adv = Idle
  /\ IF Waiting
     THEN /\ adv' = [Idle EXCEPT !.stage = "waiting"]
          /\ UNCHANGED <<step, executedThrough, completed, ghost>>
     ELSE ExecuteTutorialStep
  /\ UNCHANGED <<open, active, golden, plays, replayVars, lookupVars, table,
                 opening, chipVars, counts>>

\* The previous step's request is over; it may have ended the tour.
AdvanceStep ==
  /\ adv.stage = "waiting" /\ ~Waiting
  /\ IF Overlay /\ ~Done
     THEN ExecuteTutorialStep
     ELSE adv' = Idle /\ UNCHANGED <<step, executedThrough, completed, ghost>>
  /\ UNCHANGED <<open, active, golden, plays, replayVars, lookupVars, table,
                 opening, chipVars, counts>>

Cancelled == active # adv.of

\* The file of a load step, or the clip of an audio step, is fetched or is not.
LoadFixture(ok) ==
  /\ adv.stage = "fetching"
  /\ IF Cancelled \/ ~ok
     THEN Passed(adv, Waiting)
     ELSE adv' = [adv EXCEPT !.stage = "parsing"]
          /\ UNCHANGED <<step, executedThrough, completed>>
  /\ UNCHANGED <<open, active, golden, plays, replayVars, lookupVars, table,
                 opening, chipVars, counts, ghost>>

LoadFromText ==
  /\ adv.stage = "parsing"
  /\ CommitParsed(TRUE)
  /\ Passed(adv, Waiting)
  /\ UNCHANGED <<open, active, golden, plays, replayVars, lookupVars, opening,
                 counts, ghost>>

\* After the pause the query is sent; with no table it fails on the spot.
RunQuery ==
  /\ adv.stage = "pausing"
  /\ IF Cancelled \/ table = NoTable
     THEN /\ UNCHANGED <<requests, streaming, counts>>
          /\ pending' = IF Cancelled THEN pending ELSE 0
          /\ Passed(adv, Cancelled /\ Waiting)
     ELSE /\ Send(FALSE) /\ pending' = counts.requests + 1
          /\ Passed(adv, TRUE)
  /\ UNCHANGED <<open, active, golden, plays, replayMissed, lookupVars, table,
                 opening, chipVars, ghost>>

LoadAudio(ok) ==
  /\ adv.stage = "clip"
  /\ IF Cancelled \/ ~ok
     THEN Passed(adv, Waiting)
     ELSE adv' = [adv EXCEPT !.stage = "playing"]
          /\ UNCHANGED <<step, executedThrough, completed>>
  /\ UNCHANGED <<open, active, golden, plays, replayVars, lookupVars, table,
                 opening, chipVars, counts, ghost>>

ClipEnds ==
  /\ adv.stage = "playing"
  /\ IF Cancelled
     THEN Passed(adv, Waiting) /\ UNCHANGED <<pending, requests, streaming, counts>>
     ELSE /\ Send(FALSE) /\ pending' = counts.requests + 1
          /\ adv' = [adv EXCEPT !.stage = "sending"]
          /\ UNCHANGED <<step, executedThrough, completed>>
  /\ UNCHANGED <<open, active, golden, plays, replayMissed, lookupVars, table,
                 opening, chipVars, ghost>>

\* The spoken request, or the suggestion call, the step waits for is over.
StepSettles ==
  /\ \/ adv.stage = "sending" /\ ~Waiting
     \/ adv.stage = "suggesting" /\ \A c \in calls : c.seq # adv.call
  /\ Passed(adv, Waiting)
  /\ UNCHANGED <<open, active, golden, plays, replayVars, lookupVars, table,
                 opening, chipVars, counts, ghost>>

\* The last request is over: only a tour still standing gets its checkmark.
MarkCompleted ==
  /\ adv.stage = "ending" /\ ~Waiting
  /\ completed' = IF active = adv.of THEN completed \cup {active.tour} ELSE completed
  /\ adv' = IF active = NoTour THEN Idle
            ELSE [adv EXCEPT !.stage = "golden", !.of = active]
  /\ UNCHANGED <<open, tourVars, plays, replayVars, lookupVars, table, opening,
                 chipVars, counts, ghost>>

SurfaceGolden(ok) ==
  /\ adv.stage = "golden" /\ adv' = Idle
  /\ golden' = IF ok THEN adv.of.tour ELSE golden
  /\ UNCHANGED <<open, active, step, executedThrough, completed, plays, replayVars,
                 lookupVars, table, opening, chipVars, counts, ghost>>

-----------------------------------------------------------------------------
Next ==
  \/ OpenTutorial
  \/ CloseTutorial
  \/ Escape
  \/ FinishTutorial
  \/ \E t \in Tours : SelectTutorialScenario(t)
  \/ \E p \in plays : LoadTour(p)
  \/ \E p \in plays : LoadTourFails(p)
  \/ \E p \in plays : \E name \in p.left, ok \in BOOLEAN : WriteLookup(p, name, ok)
  \/ LoadFromPicked
  \/ \E ok \in BOOLEAN : OwnTable(ok)
  \/ SendChat
  \/ NoteReplayMiss
  \/ \E r \in requests, commits \in BOOLEAN : RequestSettles(r, commits)
  \/ \E r \in requests : RequestFails(r)
  \/ \E c \in calls : Suggest(c)
  \/ \E c \in calls : SuggestFails(c)
  \/ NextStep
  \/ AdvanceStep
  \/ \E ok \in BOOLEAN : LoadFixture(ok)
  \/ LoadFromText
  \/ RunQuery
  \/ \E ok \in BOOLEAN : LoadAudio(ok)
  \/ ClipEnds
  \/ StepSettles
  \/ MarkCompleted
  \/ \E ok \in BOOLEAN : SurfaceGolden(ok)

Spec == Init /\ [][Next]_vars

-----------------------------------------------------------------------------
TypeOK ==
  /\ {open, streaming, replayMissed, opening} \subseteq BOOLEAN
  /\ active = NoTour \/ (active.tour \in Tours /\ active.play \in 0 .. MaxPlays)
  /\ {step, executedThrough} \subseteq Nat \cup {NoStep}
  /\ completed \subseteq Tours
  /\ \A p \in plays : p.tour \in Tours /\ p.left \subseteq Needs[p.tour]
  /\ tourLookups \subseteq staged
  /\ pending \in 0 .. counts.requests
  /\ \A r \in requests : r.id \in 1 .. counts.requests
  /\ table.id \in 0 .. suggestionsSeq
  /\ chips \in 0 .. suggestionsSeq
  /\ \A c \in calls : c.seq \in 1 .. suggestionsSeq

\* Within one activation the steps begin in order, each of them once, however
\* fast Next is clicked and whatever ends meanwhile (controller-tutorial.ts:204-218,
\* spec/behavior.md:2389-2394).  An activation is excepted that armed while the
\* Next of an earlier one still ran: that one goes on, and over its first step.
StepsRunOnce ==
  [][ghost'.begun # ghost.begun /\ ghost'.begun # <<>> /\ ~ghost.overrun =>
       ghost'.begun = Append(ghost.begun, Len(ghost.begun))]_vars

\* A tour gets its checkmark when each of its steps has begun and none of its
\* requests is in flight (controller-tutorial.ts:254-258), with the same
\* exception.
CompletedWasPlayed ==
  [][\A t \in completed' \ completed : ~ghost.overrun =>
       /\ active.tour = t
       /\ Len(ghost'.begun) = Total(t)
       /\ ~Waiting']_vars

\* With no tour active, whatever of one is still under way, no lookup of a tour
\* is staged, no expected output is shown and the table is the visitor's
\* (controller-tutorial.ts:263-291).  Sessions are excepted in which a lookup, a
\* parse or an expected output was on its way at an exit: the code lets it land.
ExitLeavesNothing ==
  active = NoTour /\ ~ghost.late =>
    staged = {} /\ golden = "none" /\ ~table.ofTour

\* The chips are suggestions for the table on screen, and none are shown once a
\* request on it was committed, in whatever order the calls answer
\* (controller.ts:419-463).
ChipsAreOfTable ==
  chips # 0 /\ table # NoTable => chips = table.id /\ ~table.asked
=============================================================================
