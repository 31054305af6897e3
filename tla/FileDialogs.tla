------------------------------- MODULE FileDialogs -------------------------------
(***************************************************************************)
(* The dialogs a request, a save and a flow wait behind:                   *)
(* web/src/controller-files.ts (the save gate, the lookup dialog) and      *)
(* controller-lazy.ts (the run-on-all estimate).                           *)
(*                                                                         *)
(* The estimate and the lookup dialog keep one resolver each, so the last  *)
(* asker is the one an answer reaches.  The save gate is known by a token  *)
(* that every opening and closing changes, so that an export that lands    *)
(* late can tell that its gate is gone.  How many rows lack an answer is   *)
(* told in three sizes: none, a page or less, more.                        *)
(***************************************************************************)
EXTENDS Naturals, FiniteSets

CONSTANTS
    Lookups,       \* the second files a join can name
    MaxSaves,      \* bound: clicks on Save
    MaxExports,    \* bound: Python exports
    MaxRequests,   \* bound: requests
    MaxFlows       \* bound: flows opened

ASSUME BoundsAssumption ==
    /\ MaxSaves \in Nat /\ MaxExports \in Nat
    /\ MaxRequests \in Nat /\ MaxFlows \in Nat

VARIABLES
    hostStreaming,  \* host.streaming
    rows,         \* what is pending or failed: "none", "page" or "many"
    plan,         \* how often a plan was committed
    gate,         \* host.saveGate: "closed", "working" (busy) or "ready"
    gateToken,
    pendingSave,  \* what the gate will write
    exports,      \* Python exports that await the model
    saves,        \* calls of saveGated that await an answer or a run
    asking,       \* dialogResolve: whom the estimate's answer reaches
    viewRun,      \* the run-all button: "idle", "asking" or "running"
    request,      \* the request in flight
    flow,         \* the flow being opened
    looking,      \* lookupResolve: whom the lookup dialog's answer reaches
    tablesHeld,   \* the lookups the engine has rows for
    clicks,       \* clicks so far, of each kind
    written,      \* history: the last file written
    disowned,     \* history: exports whose gate was cancelled
    crossed       \* history: a request and a flow were under way at once

gateVars   == <<gate, gateToken, pendingSave, exports, written, disowned>>
askVars    == <<saves, asking, viewRun>>
operationVars == <<request, flow, looking, tablesHeld, crossed>>
dialogsVars == <<hostStreaming, rows, plan, gateVars, askVars, operationVars, clicks>>

None    == [kind |-> "none", of |-> 0]
AtRest  == [stage |-> "idle", left |-> {}, needs |-> {}]
Sizes   == {"none", "page", "many"}

\* What is left of `a` after a run that leaves `b`: answers are banked, so a
\* run never leaves more than it found.
Least(a, b) == IF "none" \in {a, b} THEN "none" ELSE IF "page" \in {a, b} THEN "page" ELSE "many"

DialogsInit ==
    /\ hostStreaming = FALSE /\ rows \in Sizes /\ plan = 0
    /\ gate = "closed" /\ gateToken = 0 /\ pendingSave = None /\ exports = {}
    /\ saves = {} /\ asking = "none" /\ viewRun = "idle"
    /\ request = AtRest /\ flow = AtRest /\ looking = "none" /\ tablesHeld = {}
    /\ clicks = [save |-> 0, export |-> 0, request |-> 0, flow |-> 0]
    /\ written = None /\ disowned = {} /\ crossed = FALSE

\* No dialog covers the page: neither a question, nor a gate, nor the
\* progress of a run.
Uncovered ==
    /\ asking = "none" /\ looking = "none" /\ gate = "closed"
    /\ viewRun # "running" /\ \A s \in saves : s.stage # "running"

Clicked(kind, bound) ==
    /\ clicks[kind] < bound
    /\ clicks' = [clicks EXCEPT ![kind] = @ + 1]

-----------------------------------------------------------------------------
(* The save gate.                                                          *)

\* openGate in its ready phase, with the bytes in hand.
Ready(bytes) ==
    /\ pendingSave' = bytes
    /\ gate' = "ready"
    /\ gateToken' = gateToken + 1

CloseGate ==
    /\ gateToken' = gateToken + 1
    /\ pendingSave' = None
    /\ gate' = "closed"

\* savePython: the gate opens on the click, before the model call.
SavePython ==
    /\ Clicked("export", MaxExports)
    /\ ~hostStreaming /\ Uncovered
    /\ gate' = "working"
    /\ gateToken' = gateToken + 1
    /\ exports' = exports \cup {gateToken + 1}
    /\ UNCHANGED <<hostStreaming, rows, plan, pendingSave, written, disowned, askVars,
                   operationVars>>

\* Mutant: the script takes whatever gate is up.
PythonLandsAnyway(e) ==
    /\ e \in exports
    /\ exports' = exports \ {e}
    /\ Ready([kind |-> "python", of |-> e])
    /\ UNCHANGED <<hostStreaming, rows, plan, written, disowned, askVars, operationVars, clicks>>

PythonLands(e) ==
    /\ e \in exports
    /\ exports' = exports \ {e}
    /\ IF e = gateToken
       THEN Ready([kind |-> "python", of |-> e])
       ELSE UNCHANGED <<gate, gateToken, pendingSave>>
    /\ UNCHANGED <<hostStreaming, rows, plan, written, disowned, askVars, operationVars, clicks>>

\* Mutant: the error path leaves the gate up.
PythonFailsOpen(e) ==
    /\ e \in exports
    /\ exports' = exports \ {e}
    /\ UNCHANGED <<gate, gateToken, pendingSave>>
    /\ UNCHANGED <<hostStreaming, rows, plan, written, disowned, askVars, operationVars, clicks>>

PythonFails(e) ==
    /\ e \in exports
    /\ exports' = exports \ {e}
    /\ IF e = gateToken THEN CloseGate ELSE UNCHANGED <<gate, gateToken, pendingSave>>
    /\ UNCHANGED <<hostStreaming, rows, plan, written, disowned, askVars, operationVars, clicks>>

\* The click the picker opens from.  A busy gate refuses it.
ConfirmSaveGate ==
    /\ gate = "ready"
    /\ written' = pendingSave
    /\ CloseGate
    /\ UNCHANGED <<hostStreaming, rows, plan, exports, disowned, askVars, operationVars, clicks>>

DismissSaveGate ==
    /\ gate # "closed"
    /\ disowned' = disowned \cup (exports \cap {gateToken})
         \cup (IF pendingSave.kind = "python" /\ gate = "ready" THEN {pendingSave.of} ELSE {})
    /\ CloseGate
    /\ UNCHANGED <<hostStreaming, rows, plan, exports, written, askVars, operationVars, clicks>>

-----------------------------------------------------------------------------
(* The estimate dialog and the run on all rows.                            *)

\* saveGated: with nothing to evaluate the file is written from the click;
\* one page just runs; more asks first.
Save ==
    /\ Clicked("save", MaxSaves)
    /\ ~hostStreaming /\ Uncovered
    /\ LET Call(stage) == [id |-> clicks.save + 1, stage |-> stage, plan |-> plan] IN
       \/ /\ rows = "none"
          /\ written' = [kind |-> "data", of |-> plan]
          /\ UNCHANGED <<hostStreaming, saves, asking>>
       \/ /\ rows = "page"
          /\ saves' = saves \cup {Call("running")}
          /\ hostStreaming' = TRUE
          /\ UNCHANGED <<asking, written>>
       \/ /\ rows = "many"
          /\ saves' = saves \cup {Call("asking")}
          /\ asking' = "save"
          /\ UNCHANGED <<hostStreaming, written>>
    /\ UNCHANGED <<rows, plan, gate, gateToken, pendingSave, exports, disowned, viewRun,
                   operationVars>>

\* The run-all button, or a sort or filter on an AI column: it is there while
\* a request streams too.
RunOnAllRows ==
    /\ Uncovered /\ viewRun = "idle"
    /\ \/ /\ rows = "page"
          /\ viewRun' = "running" /\ hostStreaming' = TRUE
          /\ UNCHANGED asking
       \/ /\ rows = "many"
          /\ viewRun' = "asking" /\ asking' = "view"
          /\ UNCHANGED hostStreaming
    /\ UNCHANGED <<rows, plan, gateVars, saves, operationVars, clicks>>

\* The save the dialog is up for: the newest that asks.
Asker == CHOOSE s \in saves :
    s.stage = "asking" /\ \A t \in saves : t.stage = "asking" => t.id <= s.id

\* An answer to the estimate: the dialog closes and its asker goes on, or
\* drops what it was about.
Answer(run) ==
    /\ asking # "none"
    /\ asking' = "none"
    /\ \/ /\ asking = "save"
          /\ saves' = (saves \ {Asker}) \cup
               (IF run THEN {[id |-> Asker.id, stage |-> "running", plan |-> plan]} ELSE {})
          /\ hostStreaming' = (hostStreaming \/ run)
          /\ UNCHANGED <<viewRun, request>>
       \/ /\ asking = "view"
          /\ viewRun' = IF run THEN "running" ELSE "idle"
          /\ hostStreaming' = (hostStreaming \/ run)
          /\ UNCHANGED <<saves, request>>
       \/ /\ asking = "request"
          /\ request' = IF run THEN [request EXCEPT !.stage = "replay"] ELSE AtRest
          /\ hostStreaming' = IF run THEN hostStreaming ELSE FALSE
          /\ UNCHANGED <<saves, viewRun>>
    /\ UNCHANGED <<rows, plan, gateVars, flow, looking, tablesHeld, crossed, clicks>>

\* Mutant: a run that ends short opens the gate all the same.
SaveRunEndsAnyway(s, left) ==
    /\ s \in saves /\ s.stage = "running"
    /\ saves' = saves \ {s}
    /\ hostStreaming' = FALSE
    /\ rows' = IF s.plan = plan THEN Least(rows, left) ELSE rows
    /\ Ready([kind |-> "data", of |-> s.plan])
    /\ UNCHANGED <<plan, exports, written, disowned, asking, viewRun, operationVars, clicks>>

\* The run of a save ends: complete, the gate opens ready; short, a toast
\* says so.  Rows that a later plan left are not its own.
SaveRunEnds(s, left) ==
    /\ s \in saves /\ s.stage = "running"
    /\ saves' = saves \ {s}
    /\ hostStreaming' = FALSE
    /\ rows' = IF s.plan = plan THEN Least(rows, left) ELSE rows
    /\ IF left = "none"
       THEN Ready([kind |-> "data", of |-> s.plan])
       ELSE UNCHANGED <<gate, gateToken, pendingSave>>
    /\ UNCHANGED <<plan, exports, written, disowned, asking, viewRun, operationVars, clicks>>

ViewRunEnds(left) ==
    /\ viewRun = "running"
    /\ viewRun' = "idle"
    /\ hostStreaming' = FALSE
    /\ rows' = Least(rows, left)
    /\ UNCHANGED <<plan, gateVars, saves, asking, operationVars, clicks>>

-----------------------------------------------------------------------------
(* A request, and a flow: lookups first, then the estimate, then the       *)
(* replay.                                                                 *)

\* A request that is typed or spoken while nothing streams; a spoken one
\* comes through any dialog.
SendRequest ==
    /\ Clicked("request", MaxRequests)
    /\ ~hostStreaming /\ request = AtRest
    /\ hostStreaming' = TRUE
    /\ request' = [AtRest EXCEPT !.stage = "model"]
    /\ crossed' = (crossed \/ flow # AtRest)
    /\ UNCHANGED <<rows, plan, gateVars, askVars, flow, looking, tablesHeld>>

\* The model's patch: a lookup that is not held is asked for first.
PatchArrives(needs) ==
    /\ request.stage = "model"
    /\ LET left == needs \ tablesHeld IN
       IF left = {}
       THEN /\ request' = [stage |-> "confirm", left |-> {}, needs |-> needs]
            /\ UNCHANGED looking
       ELSE /\ request' = [stage |-> "lookup", left |-> left, needs |-> needs]
            /\ looking' = "request"
    /\ UNCHANGED <<hostStreaming, rows, plan, gateVars, askVars, flow, tablesHeld, crossed, clicks>>

\* Mutant: the dialog answers whoever asked first.
ConfirmPatchKeepsAsker(asks) ==
    /\ request.stage = "confirm"
    /\ request' = [request EXCEPT !.stage = IF asks THEN "estimate" ELSE "replay"]
    /\ asking' = IF asks /\ asking = "none" THEN "request" ELSE asking
    /\ UNCHANGED <<hostStreaming, rows, plan, gateVars, saves, viewRun, flow, looking, tablesHeld,
                   crossed, clicks>>

\* confirmPatch: the estimate is shown in place of whatever it showed.
ConfirmPatch(asks) ==
    /\ request.stage = "confirm"
    /\ request' = [request EXCEPT !.stage = IF asks THEN "estimate" ELSE "replay"]
    /\ asking' = IF asks THEN "request" ELSE asking
    /\ UNCHANGED <<hostStreaming, rows, plan, gateVars, saves, viewRun, flow, looking, tablesHeld,
                   crossed, clicks>>

\* The request ends.  A commit may leave rows of its own to evaluate.
RequestEnds(commits, left) ==
    /\ request.stage \in {"model", "replay"}
    /\ commits => request.stage = "replay"
    /\ request' = AtRest
    /\ hostStreaming' = FALSE
    /\ IF commits THEN plan' = plan + 1 /\ rows' = left ELSE UNCHANGED <<plan, rows>>
    /\ UNCHANGED <<gateVars, askVars, flow, looking, tablesHeld, crossed, clicks>>

OpenFlow ==
    /\ Clicked("flow", MaxFlows)
    /\ ~hostStreaming /\ flow = AtRest /\ Uncovered
    /\ flow' = [AtRest EXCEPT !.stage = "picking"]
    /\ crossed' = (crossed \/ request # AtRest)
    /\ UNCHANGED <<hostStreaming, rows, plan, gateVars, askVars, request, looking, tablesHeld>>

\* The picker closes: on nothing, or on a flow, which asks for its lookups.
FlowPicked(needs) ==
    /\ flow.stage = "picking"
    /\ LET left == needs \ tablesHeld IN
       IF left = {}
       THEN /\ flow' = [stage |-> "replay", left |-> {}, needs |-> needs]
            /\ hostStreaming' = TRUE
            /\ UNCHANGED looking
       ELSE /\ flow' = [stage |-> "lookup", left |-> left, needs |-> needs]
            /\ looking' = "flow"
            /\ UNCHANGED hostStreaming
    /\ UNCHANGED <<rows, plan, gateVars, askVars, request, tablesHeld, crossed, clicks>>

FlowEnds(commits, left) ==
    /\ flow.stage \in {"picking", "replay"}
    /\ commits => flow.stage = "replay"
    /\ flow' = AtRest
    /\ hostStreaming' = IF flow.stage = "replay" THEN FALSE ELSE hostStreaming
    /\ IF commits THEN plan' = plan + 1 /\ rows' = left ELSE UNCHANGED <<plan, rows>>
    /\ UNCHANGED <<gateVars, askVars, request, looking, tablesHeld, crossed, clicks>>

\* What is left to ask for once `name` is held.
Supplied(run, name, next) ==
    [stage |-> IF run.left = {name} THEN next ELSE run.stage,
     left |-> run.left \ {name}, needs |-> run.needs]

\* The lookup dialog's file is picked and parsed; a file that does not parse,
\* or a picker that is dismissed, leaves the dialog up.
ChooseLookupFile(name) ==
    /\ tablesHeld' = tablesHeld \cup {name}
    /\ \/ /\ looking = "request" /\ name \in request.left
          /\ request' = Supplied(request, name, "confirm")
          /\ looking' = IF request.left = {name} THEN "none" ELSE looking
          /\ UNCHANGED <<hostStreaming, flow>>
       \/ /\ looking = "flow" /\ name \in flow.left
          /\ flow' = Supplied(flow, name, "replay")
          /\ looking' = IF flow.left = {name} THEN "none" ELSE looking
          /\ hostStreaming' = (hostStreaming \/ flow.left = {name})
          /\ UNCHANGED request
    /\ UNCHANGED <<rows, plan, gateVars, askVars, crossed, clicks>>

\* Cancel: the request or the flow is dropped whole.
DismissLookupDialog ==
    /\ looking # "none"
    /\ looking' = "none"
    /\ IF looking = "request"
       THEN request' = AtRest /\ hostStreaming' = FALSE /\ UNCHANGED flow
       ELSE flow' = AtRest /\ UNCHANGED <<request, hostStreaming>>
    /\ UNCHANGED <<rows, plan, gateVars, askVars, tablesHeld, crossed, clicks>>

-----------------------------------------------------------------------------
ExportSettles == \E e \in exports : PythonLands(e) \/ PythonFails(e)

DialogsNext ==
    \/ SavePython \/ ExportSettles \/ ConfirmSaveGate \/ DismissSaveGate
    \/ Save \/ RunOnAllRows
    \/ \E run \in BOOLEAN : Answer(run)
    \/ \E left \in Sizes : ViewRunEnds(left) \/ \E s \in saves : SaveRunEnds(s, left)
    \/ SendRequest \/ OpenFlow \/ DismissLookupDialog
    \/ \E asks \in BOOLEAN : ConfirmPatch(asks)
    \/ \E needs \in SUBSET Lookups : PatchArrives(needs) \/ FlowPicked(needs)
    \/ \E name \in Lookups : ChooseLookupFile(name)
    \/ \E commits \in BOOLEAN, left \in Sizes :
         RequestEnds(commits, left) \/ FlowEnds(commits, left)

\* A model call that was made returns or fails.
DialogsSpec == DialogsInit /\ [][DialogsNext]_dialogsVars /\ WF_dialogsVars(ExportSettles)

-----------------------------------------------------------------------------
(* Properties.                                                             *)

Runs  == [stage : {"idle", "model", "picking", "lookup", "confirm", "estimate", "replay"},
          left : SUBSET Lookups, needs : SUBSET Lookups]
Calls == [id : Nat, stage : {"asking", "running"}, plan : Nat]
Files == [kind : {"none", "data", "python"}, of : Nat]

DialogsTypeOK ==
    /\ hostStreaming \in BOOLEAN /\ crossed \in BOOLEAN /\ rows \in Sizes /\ plan \in Nat
    /\ gate \in {"closed", "working", "ready"} /\ gateToken \in Nat
    /\ pendingSave \in Files /\ written \in Files
    /\ saves \subseteq Calls /\ viewRun \in {"idle", "asking", "running"}
    /\ request \in Runs /\ flow \in Runs
    /\ clicks \in [{"save", "export", "request", "flow"} -> Nat]
    /\ exports \subseteq Nat /\ disowned \subseteq Nat
    /\ asking \in {"none", "save", "view", "request"}
    /\ looking \in {"none", "request", "flow"} /\ tablesHeld \subseteq Lookups

\* The gate and the work behind it agree through any mix of saves, exports
\* and cancels: a waiting gate has the export that will end its wait, a ready
\* one has bytes, and one that is down has left none behind.
GateHasItsJob ==
    /\ gate = "working" => gateToken \in exports
    /\ gate = "ready" => pendingSave # None
    /\ gate = "closed" => pendingSave = None

\* A script whose gate was cancelled is never written, however late it lands
\* and whatever gate is up by then.
CancelledNeverWritten ==
    [][written'.kind = "python" => written'.of \notin disowned]_dialogsVars

\* A data file holds evaluated rows: nothing was pending when it was written,
\* unless a plan was committed after its run.
WrittenRowsEvaluated ==
    [][written' # written /\ written'.kind = "data" /\ written'.of = plan
         => rows = "none"]_dialogsVars

\* A request that waits for an answer is the one the dialog will answer, so
\* that it cannot hold the session for good: it loses neither the estimate to
\* a save or to the run-all button nor, unless a flow was being opened beside
\* it, the lookup dialog.
RequestIsNeverParked ==
    /\ request.stage = "estimate" => asking = "request"
    /\ request.stage = "lookup" /\ ~crossed => looking = "request"

\* No replay starts with a join whose file was not staged.
ReplaysHaveLookups ==
    \A run \in {request, flow} : run.stage = "replay" => run.needs \subseteq tablesHeld

\* A gate that waits stops waiting.
WaitEnds == gate = "working" ~> gate # "working"

=============================================================================
