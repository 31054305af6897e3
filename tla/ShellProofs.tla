------------------------------ MODULE ShellProofs ------------------------------
(***************************************************************************)
(* What the shell waits behind: the dialogs of saves, requests and flows   *)
(* (FileDialogs), for any number of them and any set of lookups, and the   *)
(* guided tours (TourSession), for any tours, scripts and visitors.        *)
(*                                                                         *)
(* Dialogs: Tokens keeps what a gate was cancelled for apart from          *)
(* everything still to come, by the one number every opening and closing   *)
(* raises; Evaluated ties the bytes in a gate to the plan they were made   *)
(* for; Askers and Dialogs tie each dialog to the one caller it will       *)
(* answer; Covered says which lookups a run under way can count on.        *)
(*                                                                         *)
(* Tours: Paced ties the cursor, the step under way and the steps begun to *)
(* one another; Suggested ties the chips, and the calls that may yet set   *)
(* them, to the table on screen; Left says that an exit with nothing about *)
(* to land leaves nothing.                                                 *)
(***************************************************************************)
EXTENDS FileDialogs, TourSession, SequenceTheorems, TLAPS

Tokens ==
    /\ \A e \in exports : e <= gateToken
    /\ \A d \in disowned : d < gateToken
    /\ pendingSave.kind = "python" =>
         pendingSave.of < gateToken /\ pendingSave.of \notin disowned
    /\ written.kind = "python" => written.of < gateToken /\ written.of \notin disowned
    /\ pendingSave.kind = "python" /\ written.kind = "python" =>
         written.of < pendingSave.of

Evaluated ==
    /\ \A s \in saves : s.plan <= plan
    /\ pendingSave.kind = "data" => pendingSave.of <= plan
    /\ pendingSave.kind = "data" /\ pendingSave.of = plan => rows = "none"

Askers ==
    /\ \A s \in saves : s.id <= clicks.save
    /\ asking = "save" => \E s \in saves :
         s.stage = "asking" /\ \A t \in saves : t.stage = "asking" => t.id <= s.id

Dialogs ==
    /\ asking = "request" <=> request.stage = "estimate"
    /\ looking = "request" => request.stage = "lookup"
    /\ looking = "flow" => flow.stage = "lookup"
    /\ crossed \/ request = AtRest \/ flow = AtRest
    /\ request.stage = "idle" => request = AtRest
    /\ flow.stage \notin {"estimate", "confirm"}
    /\ request.stage = "lookup" /\ ~crossed => looking = "request"

Supplies(run) ==
    /\ run.stage \in {"confirm", "estimate", "replay"} => run.needs \subseteq tablesHeld
    /\ run.stage = "lookup" => run.needs \ run.left \subseteq tablesHeld

Covered == Supplies(request) /\ Supplies(flow)

DInv == DialogsTypeOK /\ GateHasItsJob /\ Tokens /\ Evaluated /\ Askers /\ Dialogs /\ Covered

------------------------------------------------------------------------------
(* What each group of variables is changed by.                             *)

(* Only the gate's own steps, a save and its run touch the gate. *)
LEMMA GateSteps ==
    [DialogsNext]_dialogsVars =>
      \/ SavePython \/ (\E e \in exports : PythonLands(e) \/ PythonFails(e))
      \/ ConfirmSaveGate \/ DismissSaveGate \/ Save
      \/ \E left \in Sizes, s \in saves : SaveRunEnds(s, left)
      \/ UNCHANGED gateVars
BY DEF DialogsNext, ExportSettles, dialogsVars, gateVars,
       RunOnAllRows, Answer, ViewRunEnds, SendRequest,
       OpenFlow, DismissLookupDialog, ConfirmPatch, PatchArrives, FlowPicked,
       ChooseLookupFile, RequestEnds, FlowEnds

(* Only requests, flows and the answers to their dialogs touch the lookups. *)
LEMMA LookupSteps ==
    [DialogsNext]_dialogsVars =>
      \/ (\E run \in BOOLEAN : Answer(run)) \/ SendRequest \/ OpenFlow
      \/ DismissLookupDialog \/ (\E asks \in BOOLEAN : ConfirmPatch(asks))
      \/ (\E needs \in SUBSET Lookups : PatchArrives(needs) \/ FlowPicked(needs))
      \/ (\E name \in Lookups : ChooseLookupFile(name))
      \/ (\E commits \in BOOLEAN, left \in Sizes :
            RequestEnds(commits, left) \/ FlowEnds(commits, left))
      \/ UNCHANGED operationVars
BY DEF DialogsNext, ExportSettles, dialogsVars, operationVars,
       RunOnAllRows, ViewRunEnds, SavePython, PythonLands,
       PythonFails, ConfirmSaveGate, DismissSaveGate, Save, SaveRunEnds

(* Only these touch the dialog's asker or the saves. *)
LEMMA AskSteps ==
    [DialogsNext]_dialogsVars =>
      \/ (\E run \in BOOLEAN : Answer(run)) \/ Save \/ RunOnAllRows
      \/ (\E left \in Sizes : ViewRunEnds(left) \/ \E s \in saves : SaveRunEnds(s, left))
      \/ (\E asks \in BOOLEAN : ConfirmPatch(asks))
      \/ UNCHANGED askVars
BY DEF DialogsNext, ExportSettles, dialogsVars, askVars,
       SavePython, PythonLands, PythonFails, ConfirmSaveGate,
       DismissSaveGate, SendRequest, OpenFlow, DismissLookupDialog, PatchArrives,
       FlowPicked, ChooseLookupFile, RequestEnds, FlowEnds

(* What a run of the rows leaves: the plan it ran for, or a later one. *)
LEMMA PlanSteps == [DialogsNext]_dialogsVars =>
    \/ plan' = plan /\ (rows' = rows \/ \E left \in Sizes : rows' = Least(rows, left))
    \/ plan' = plan + 1 /\ UNCHANGED <<gateVars, askVars>>
BY DEF DialogsNext, ExportSettles, dialogsVars, gateVars, askVars,
       SavePython, PythonLands, PythonFails, ConfirmSaveGate,
       DismissSaveGate, Save, RunOnAllRows, Answer, ViewRunEnds, SaveRunEnds,
       SendRequest, OpenFlow, DismissLookupDialog, ConfirmPatch, PatchArrives,
       FlowPicked, ChooseLookupFile, RequestEnds, FlowEnds

(* Sizes and records of the program's types. *)
LEMMA Shapes ==
    /\ \A a, b \in Sizes : Least(a, b) \in Sizes
    /\ \A a \in Sizes : Least(a, "none") = "none" /\ Least("none", a) = "none"
    /\ AtRest \in Runs /\ None \in Files
BY DEF Sizes, Least, AtRest, Runs, None, Files

(* The save an answer is for is one of those that wait. *)
LEMMA AskerWaits ==
    ASSUME Askers, asking = "save" PROVE Asker \in saves /\ Asker.stage = "asking"
BY DEF Askers, Asker

------------------------------------------------------------------------------
(* The parts of the invariant.                                             *)

(* The rows, the plan, the session's flag and the counters keep their types. *)
LEMMA SessionTyped == DialogsTypeOK /\ [DialogsNext]_dialogsVars =>
    /\ hostStreaming' \in BOOLEAN /\ rows' \in Sizes /\ plan' \in Nat
    /\ clicks' \in [{"save", "export", "request", "flow"} -> Nat]
<1> SUFFICES ASSUME DialogsTypeOK, [DialogsNext]_dialogsVars
             PROVE  /\ hostStreaming' \in BOOLEAN /\ rows' \in Sizes /\ plan' \in Nat
                    /\ clicks' \in [{"save", "export", "request", "flow"} -> Nat]
  OBVIOUS
<1>1. ASSUME NEW kind \in {"save", "export", "request", "flow"}, NEW bound, Clicked(kind, bound)
      PROVE  clicks' \in [{"save", "export", "request", "flow"} -> Nat]
  BY <1>1 DEF Clicked, DialogsTypeOK
<1>2. clicks' \in [{"save", "export", "request", "flow"} -> Nat]
  BY <1>1 DEF DialogsNext, ExportSettles, dialogsVars,
         DialogsTypeOK, SavePython, PythonLands, PythonFails, ConfirmSaveGate,
         DismissSaveGate, Save, RunOnAllRows, Answer, ViewRunEnds, SaveRunEnds,
         SendRequest, OpenFlow, DismissLookupDialog, ConfirmPatch, PatchArrives,
         FlowPicked, ChooseLookupFile, RequestEnds, FlowEnds
<1>3. plan' \in Nat
  BY PlanSteps DEF DialogsTypeOK
<1>4. rows' \in Sizes
  BY Shapes DEF DialogsNext, ExportSettles, dialogsVars,
         DialogsTypeOK, SavePython, PythonLands, PythonFails, ConfirmSaveGate,
         DismissSaveGate, Save, RunOnAllRows, Answer, ViewRunEnds, SaveRunEnds,
         SendRequest, OpenFlow, DismissLookupDialog, ConfirmPatch, PatchArrives,
         FlowPicked, ChooseLookupFile, RequestEnds, FlowEnds
<1>5. hostStreaming' \in BOOLEAN
  BY DEF DialogsNext, ExportSettles, dialogsVars,
         DialogsTypeOK, SavePython, PythonLands, PythonFails, ConfirmSaveGate,
         DismissSaveGate, Save, RunOnAllRows, Answer, ViewRunEnds, SaveRunEnds,
         SendRequest, OpenFlow, DismissLookupDialog, ConfirmPatch, PatchArrives,
         FlowPicked, ChooseLookupFile, RequestEnds, FlowEnds
<1> QED
  BY <1>2, <1>3, <1>4, <1>5

(* The gate and the files keep their types. *)
LEMMA GateTyped == DialogsTypeOK /\ [DialogsNext]_dialogsVars =>
    /\ gate' \in {"closed", "working", "ready"} /\ gateToken' \in Nat
    /\ pendingSave' \in Files /\ written' \in Files
    /\ exports' \subseteq Nat /\ disowned' \subseteq Nat
<1> SUFFICES ASSUME DialogsTypeOK, [DialogsNext]_dialogsVars
             PROVE  /\ gate' \in {"closed", "working", "ready"} /\ gateToken' \in Nat
                    /\ pendingSave' \in Files /\ written' \in Files
                    /\ exports' \subseteq Nat /\ disowned' \subseteq Nat
  OBVIOUS
<1> DEFINE Goal == /\ gate' \in {"closed", "working", "ready"} /\ gateToken' \in Nat
                   /\ pendingSave' \in Files /\ written' \in Files
                   /\ exports' \subseteq Nat /\ disowned' \subseteq Nat
<1> USE DEF DialogsTypeOK
<1>1. CASE SavePython
  BY <1>1 DEF SavePython
<1>2. ASSUME NEW e \in exports, PythonLands(e) PROVE Goal
  <2>1. [kind |-> "python", of |-> e] \in Files
    BY DEF Files
  <2> QED
    BY <1>2, <2>1 DEF PythonLands, Ready
<1>3. ASSUME NEW e \in exports, PythonFails(e) PROVE Goal
  BY <1>3, Shapes DEF PythonFails, CloseGate
<1>4. CASE ConfirmSaveGate
  BY <1>4, Shapes DEF ConfirmSaveGate, CloseGate
<1>5. CASE DismissSaveGate
  <2>1. pendingSave.of \in Nat
    BY DEF Files
  <2>2. disowned' \subseteq Nat
    BY <1>5, <2>1 DEF DismissSaveGate
  <2> QED
    BY <1>5, <2>2, Shapes DEF DismissSaveGate, CloseGate
<1>6. CASE Save
  <2>1. [kind |-> "data", of |-> plan] \in Files
    BY DEF Files
  <2> QED
    BY <1>6, <2>1 DEF Save
<1>7. ASSUME NEW left \in Sizes, NEW s \in saves, SaveRunEnds(s, left) PROVE Goal
  <2>1. [kind |-> "data", of |-> s.plan] \in Files
    BY DEF Files, Calls
  <2> QED
    BY <1>7, <2>1 DEF SaveRunEnds, Ready
<1>8. CASE UNCHANGED gateVars
  BY <1>8 DEF gateVars
<1> QED
  BY <1>1, <1>2, <1>3, <1>4, <1>5, <1>6, <1>7, <1>8, GateSteps

(* The askers keep their types. *)
LEMMA AskTyped == DialogsTypeOK /\ Askers /\ [DialogsNext]_dialogsVars =>
    /\ saves' \subseteq Calls /\ asking' \in {"none", "save", "view", "request"}
    /\ viewRun' \in {"idle", "asking", "running"}
<1> SUFFICES ASSUME DialogsTypeOK, Askers, [DialogsNext]_dialogsVars
             PROVE  /\ saves' \subseteq Calls /\ asking' \in {"none", "save", "view", "request"}
                    /\ viewRun' \in {"idle", "asking", "running"}
  OBVIOUS
<1> DEFINE Goal == /\ saves' \subseteq Calls
                   /\ asking' \in {"none", "save", "view", "request"}
                   /\ viewRun' \in {"idle", "asking", "running"}
<1> USE DEF DialogsTypeOK
<1>1. ASSUME NEW run \in BOOLEAN, Answer(run) PROVE Goal
  <2>1. CASE asking = "save"
    <3>1. [id |-> Asker.id, stage |-> "running", plan |-> plan] \in Calls
      BY <2>1, AskerWaits DEF Calls
    <3> QED
      BY <1>1, <2>1, <3>1 DEF Answer
  <2>2. CASE asking # "save"
    BY <1>1, <2>2 DEF Answer
  <2> QED
    BY <2>1, <2>2
<1>2. CASE Save
  <2>1. \A stage \in {"asking", "running"} :
           [id |-> clicks.save + 1, stage |-> stage, plan |-> plan] \in Calls
    BY DEF Calls
  <2> QED
    BY <1>2, <2>1 DEF Save
<1>3. CASE RunOnAllRows
  BY <1>3 DEF RunOnAllRows
<1>4. ASSUME NEW left \in Sizes, ViewRunEnds(left) PROVE Goal
  BY <1>4 DEF ViewRunEnds
<1>5. ASSUME NEW left \in Sizes, NEW s \in saves, SaveRunEnds(s, left) PROVE Goal
  BY <1>5 DEF SaveRunEnds
<1>6. ASSUME NEW asks \in BOOLEAN, ConfirmPatch(asks) PROVE Goal
  BY <1>6 DEF ConfirmPatch
<1>7. CASE UNCHANGED askVars
  BY <1>7 DEF askVars
<1> QED
  BY <1>1, <1>2, <1>3, <1>4, <1>5, <1>6, <1>7, AskSteps

(* The request, the flow and the lookups keep their types. *)
LEMMA LookupsTyped == DialogsTypeOK /\ [DialogsNext]_dialogsVars =>
    /\ request' \in Runs /\ flow' \in Runs /\ tablesHeld' \subseteq Lookups
    /\ looking' \in {"none", "request", "flow"} /\ crossed' \in BOOLEAN
<1> SUFFICES ASSUME DialogsTypeOK, [DialogsNext]_dialogsVars
             PROVE  /\ request' \in Runs /\ flow' \in Runs /\ tablesHeld' \subseteq Lookups
                    /\ looking' \in {"none", "request", "flow"} /\ crossed' \in BOOLEAN
  OBVIOUS
<1> DEFINE Goal == /\ request' \in Runs /\ flow' \in Runs /\ tablesHeld' \subseteq Lookups
                   /\ looking' \in {"none", "request", "flow"} /\ crossed' \in BOOLEAN
<1> USE DEF DialogsTypeOK
<1>1. ASSUME NEW run \in BOOLEAN, Answer(run) PROVE Goal
  <2>1. [request EXCEPT !.stage = "replay"] \in Runs
    BY DEF Runs
  <2> QED
    BY <1>1, <2>1, Shapes DEF Answer
<1>2. CASE SendRequest
  <2>1. [AtRest EXCEPT !.stage = "model"] \in Runs
    BY DEF Runs, AtRest
  <2> QED
    BY <1>2, <2>1 DEF SendRequest
<1>3. CASE OpenFlow
  <2>1. [AtRest EXCEPT !.stage = "picking"] \in Runs
    BY DEF Runs, AtRest
  <2> QED
    BY <1>3, <2>1 DEF OpenFlow
<1>4. CASE DismissLookupDialog
  BY <1>4, Shapes DEF DismissLookupDialog
<1>5. ASSUME NEW asks \in BOOLEAN, ConfirmPatch(asks) PROVE Goal
  <2>1. [request EXCEPT !.stage = IF asks THEN "estimate" ELSE "replay"] \in Runs
    BY DEF Runs
  <2> QED
    BY <1>5, <2>1 DEF ConfirmPatch
<1>6. ASSUME NEW needs \in SUBSET Lookups, PatchArrives(needs) PROVE Goal
  <2>1. /\ [stage |-> "confirm", left |-> {}, needs |-> needs] \in Runs
        /\ [stage |-> "lookup", left |-> needs \ tablesHeld, needs |-> needs] \in Runs
    BY DEF Runs
  <2> QED
    BY <1>6, <2>1 DEF PatchArrives
<1>7. ASSUME NEW needs \in SUBSET Lookups, FlowPicked(needs) PROVE Goal
  <2>1. /\ [stage |-> "replay", left |-> {}, needs |-> needs] \in Runs
        /\ [stage |-> "lookup", left |-> needs \ tablesHeld, needs |-> needs] \in Runs
    BY DEF Runs
  <2> QED
    BY <1>7, <2>1 DEF FlowPicked
<1>8. ASSUME NEW name \in Lookups, ChooseLookupFile(name) PROVE Goal
  <2>1. Supplied(request, name, "confirm") \in Runs /\ Supplied(flow, name, "replay") \in Runs
    BY DEF Supplied, Runs
  <2> QED
    BY <1>8, <2>1 DEF ChooseLookupFile
<1>9. ASSUME NEW commits \in BOOLEAN, NEW left \in Sizes,
             RequestEnds(commits, left) \/ FlowEnds(commits, left)
      PROVE Goal
  BY <1>9, Shapes DEF RequestEnds, FlowEnds
<1>10. CASE UNCHANGED operationVars
  BY <1>10 DEF operationVars
<1> QED
  BY <1>1, <1>2, <1>3, <1>4, <1>5, <1>6, <1>7, <1>8, <1>9, <1>10, LookupSteps

(* The gate's phase and the work behind it go together. *)
LEMMA GateJobKept == DialogsTypeOK /\ GateHasItsJob /\ [DialogsNext]_dialogsVars => GateHasItsJob'
<1> SUFFICES ASSUME DialogsTypeOK, GateHasItsJob, [DialogsNext]_dialogsVars PROVE GateHasItsJob'
  OBVIOUS
<1> USE DEF GateHasItsJob
<1>1. CASE SavePython
  BY <1>1 DEF SavePython, Uncovered
<1>2. ASSUME NEW e \in exports, PythonLands(e) PROVE GateHasItsJob'
  <2>1. [kind |-> "python", of |-> e] # None
    BY DEF None
  <2> QED
    BY <1>2, <2>1 DEF PythonLands, Ready
<1>3. ASSUME NEW e \in exports, PythonFails(e) PROVE GateHasItsJob'
  BY <1>3 DEF PythonFails, CloseGate
<1>4. CASE ConfirmSaveGate \/ DismissSaveGate
  BY <1>4 DEF ConfirmSaveGate, DismissSaveGate, CloseGate
<1>5. CASE Save
  BY <1>5 DEF Save
<1>6. ASSUME NEW left \in Sizes, NEW s \in saves, SaveRunEnds(s, left) PROVE GateHasItsJob'
  <2>1. [kind |-> "data", of |-> s.plan] # None
    BY DEF None
  <2> QED
    BY <1>6, <2>1 DEF SaveRunEnds, Ready
<1>7. CASE UNCHANGED gateVars
  BY <1>7 DEF gateVars
<1> QED
  BY <1>1, <1>2, <1>3, <1>4, <1>5, <1>6, <1>7, GateSteps

(* A token that was cancelled stays behind the gate's, and apart from what is
   to be written. *)
LEMMA TokensKept == DialogsTypeOK /\ GateHasItsJob /\ Tokens /\ [DialogsNext]_dialogsVars => Tokens'
<1> SUFFICES ASSUME DialogsTypeOK, GateHasItsJob, Tokens, [DialogsNext]_dialogsVars PROVE Tokens'
  OBVIOUS
<1>1. gateToken \in Nat /\ exports \subseteq Nat /\ disowned \subseteq Nat
      /\ pendingSave.of \in Nat /\ written.of \in Nat
  BY DEF DialogsTypeOK, Files
<1>2. CASE SavePython
  BY <1>1, <1>2 DEF SavePython, Tokens
<1>3. ASSUME NEW e \in exports, PythonLands(e) PROVE Tokens'
  <2>1. CASE e = gateToken
    <3>1. pendingSave' = [kind |-> "python", of |-> gateToken] /\ gateToken' = gateToken + 1
      BY <1>3, <2>1 DEF PythonLands, Ready
    <3>2. exports' = exports \ {e} /\ UNCHANGED <<written, disowned>>
      BY <1>3 DEF PythonLands
    <3> QED
      BY <1>1, <3>1, <3>2 DEF Tokens
  <2>2. CASE e # gateToken
    BY <1>1, <1>3, <2>2 DEF PythonLands, Tokens
  <2> QED
    BY <2>1, <2>2
<1>4. ASSUME NEW e \in exports, PythonFails(e) PROVE Tokens'
  BY <1>1, <1>4 DEF PythonFails, CloseGate, Tokens, None
<1>5. CASE ConfirmSaveGate
  BY <1>1, <1>5 DEF ConfirmSaveGate, CloseGate, Tokens, None
<1>6. CASE DismissSaveGate
  BY <1>1, <1>6 DEF DismissSaveGate, CloseGate, Tokens, None
<1>7. CASE Save
  <2>1. written' = written \/ written'.kind = "data"
    BY <1>7 DEF Save
  <2>2. UNCHANGED <<gateToken, exports, disowned, pendingSave>>
    BY <1>7 DEF Save
  <2> QED
    BY <2>1, <2>2 DEF Tokens
<1>8. ASSUME NEW left \in Sizes, NEW s \in saves, SaveRunEnds(s, left) PROVE Tokens'
  <2>1. UNCHANGED <<exports, disowned, written>>
    BY <1>8 DEF SaveRunEnds
  <2>2. \/ UNCHANGED <<gateToken, pendingSave>>
        \/ gateToken' = gateToken + 1 /\ pendingSave'.kind = "data"
    BY <1>8 DEF SaveRunEnds, Ready
  <2> QED
    BY <1>1, <2>1, <2>2 DEF Tokens
<1>9. CASE UNCHANGED gateVars
  BY <1>9 DEF gateVars, Tokens
<1> QED
  BY <1>2, <1>3, <1>4, <1>5, <1>6, <1>7, <1>8, <1>9, GateSteps

(* Bytes of the plan in force are of evaluated rows. *)
LEMMA EvaluatedKept == DialogsTypeOK /\ Askers /\ Evaluated /\ [DialogsNext]_dialogsVars => Evaluated'
<1> SUFFICES ASSUME DialogsTypeOK, Askers, Evaluated, [DialogsNext]_dialogsVars PROVE Evaluated'
  OBVIOUS
<1>1. plan \in Nat /\ rows \in Sizes /\ pendingSave.of \in Nat
      /\ \A s \in saves : s.plan \in Nat
  BY DEF DialogsTypeOK, Files, Calls
<1>2. CASE plan' = plan + 1 /\ UNCHANGED <<gateVars, askVars>>
  BY <1>1, <1>2 DEF gateVars, askVars, Evaluated
<1>3. CASE plan' = plan /\ (rows' = rows \/ \E left \in Sizes : rows' = Least(rows, left))
  <2>1. rows = "none" => rows' = "none"
    BY <1>3, Shapes
  <2>2. \A s \in saves' : s.plan <= plan'
    <3>1. ASSUME NEW run \in BOOLEAN, Answer(run) PROVE \A s \in saves' : s.plan <= plan
      <4>1. \/ saves' \subseteq saves
            \/ saves' \subseteq saves \cup {[id |-> Asker.id, stage |-> "running", plan |-> plan]}
        BY <3>1 DEF Answer
      <4> QED
        BY <1>1, <4>1 DEF Evaluated
    <3>2. CASE Save
      BY <1>1, <3>2 DEF Save, Evaluated
    <3>3. ASSUME NEW left \in Sizes, NEW s \in saves, SaveRunEnds(s, left)
          PROVE  \A t \in saves' : t.plan <= plan
      BY <3>3 DEF SaveRunEnds, Evaluated
    <3>4. CASE UNCHANGED saves
      BY <1>3, <3>4 DEF Evaluated
    <3> QED
      BY <1>3, <3>1, <3>2, <3>3, <3>4, AskSteps DEF RunOnAllRows, ViewRunEnds, ConfirmPatch, askVars
  <2>3. \/ pendingSave' = pendingSave
        \/ pendingSave'.kind # "data"
        \/ \E s \in saves, left \in Sizes : SaveRunEnds(s, left) /\ left = "none"
    <3>1. None.kind # "data"
      BY DEF None
    <3> QED
      BY <3>1, GateSteps DEF SavePython, PythonLands, PythonFails, ConfirmSaveGate,
         DismissSaveGate, Save, SaveRunEnds, Ready, CloseGate, gateVars
  <2>4. pendingSave'.kind = "data" =>
           pendingSave'.of <= plan' /\ (pendingSave'.of = plan' => rows' = "none")
    <3>1. ASSUME NEW s \in saves, SaveRunEnds(s, "none")
          PROVE  pendingSave'.of <= plan /\ (pendingSave'.of = plan => rows' = "none")
      <4>1. pendingSave'.of = s.plan /\ (s.plan = plan => rows' = Least(rows, "none"))
        BY <3>1 DEF SaveRunEnds, Ready
      <4> QED
        BY <1>1, <4>1, Shapes DEF Evaluated
    <3> QED
      BY <1>3, <2>1, <2>3, <3>1 DEF Evaluated
  <2> QED
    BY <2>2, <2>4 DEF Evaluated
<1> QED
  BY <1>2, <1>3, PlanSteps

(* The newest save that asks is there while the dialog is up for one. *)
LEMMA AskersKept == DialogsTypeOK /\ Askers /\ [DialogsNext]_dialogsVars => Askers'
<1> SUFFICES ASSUME DialogsTypeOK, Askers, [DialogsNext]_dialogsVars PROVE Askers'
  OBVIOUS
<1>1. /\ clicks \in [{"save", "export", "request", "flow"} -> Nat] /\ clicks.save \in Nat
      /\ \A s \in saves : s.id \in Nat
  BY DEF DialogsTypeOK, Calls
<1>2. clicks'.save \in Nat /\ clicks'.save >= clicks.save
  <2>1. ASSUME NEW kind \in {"save", "export", "request", "flow"}, NEW bound, Clicked(kind, bound)
        PROVE  clicks'.save \in Nat /\ clicks'.save >= clicks.save
    BY <1>1, <2>1 DEF Clicked
  <2>2. \/ clicks' = clicks
        \/ \E kind \in {"save", "export", "request", "flow"}, bound \in
             {MaxSaves, MaxExports, MaxRequests, MaxFlows} : Clicked(kind, bound)
    BY DEF DialogsNext, ExportSettles, dialogsVars,
           SavePython, PythonLands, PythonFails, ConfirmSaveGate,
         DismissSaveGate, Save, RunOnAllRows, Answer, ViewRunEnds, SaveRunEnds,
         SendRequest, OpenFlow, DismissLookupDialog, ConfirmPatch, PatchArrives,
         FlowPicked, ChooseLookupFile, RequestEnds, FlowEnds
  <2> QED
    BY <1>1, <2>1, <2>2
<1>3. ASSUME NEW run \in BOOLEAN, Answer(run) PROVE Askers'
  <2>1. asking' = "none"
    BY <1>3 DEF Answer
  <2>2. \A s \in saves' : s.id <= clicks.save
    <3>1. CASE asking = "save"
      BY <1>3, <3>1, AskerWaits DEF Answer, Askers
    <3>2. CASE asking # "save"
      BY <1>3, <3>2 DEF Answer, Askers
    <3> QED
      BY <3>1, <3>2
  <2>3. UNCHANGED clicks
    BY <1>3 DEF Answer
  <2> QED
    BY <2>1, <2>2, <2>3 DEF Askers
<1>4. CASE Save
  <2> DEFINE Call(stage) == [id |-> clicks.save + 1, stage |-> stage, plan |-> plan]
  <2>1. clicks'.save = clicks.save + 1
    BY <1>1, <1>4 DEF Save, Clicked
  <2>2. asking = "none"
    BY <1>4 DEF Save, Uncovered
  <2>3. \/ UNCHANGED <<saves, asking>>
        \/ saves' = saves \cup {Call("running")} /\ UNCHANGED asking
        \/ saves' = saves \cup {Call("asking")} /\ asking' = "save"
    BY <1>4 DEF Save
  <2>4. CASE UNCHANGED <<saves, asking>>
    BY <1>1, <2>1, <2>2, <2>4 DEF Askers
  <2>5. CASE saves' = saves \cup {Call("running")} /\ UNCHANGED asking
    BY <1>1, <2>1, <2>2, <2>5 DEF Askers
  <2>6. CASE saves' = saves \cup {Call("asking")} /\ asking' = "save"
    <3>1. \A t \in saves' : t.id <= clicks.save + 1
      BY <1>1, <2>6 DEF Askers
    <3>2. Call("asking") \in saves' /\ Call("asking").stage = "asking"
          /\ Call("asking").id = clicks.save + 1
      BY <2>6
    <3> QED
      BY <2>1, <3>1, <3>2 DEF Askers
  <2> QED
    BY <2>3, <2>4, <2>5, <2>6
<1>5. ASSUME NEW left \in Sizes, NEW s \in saves, SaveRunEnds(s, left) PROVE Askers'
  <2>1. s.stage = "running" /\ saves' = saves \ {s} /\ UNCHANGED <<asking, clicks>>
    BY <1>5 DEF SaveRunEnds
  <2> QED
    BY <2>1 DEF Askers
<1>6. CASE UNCHANGED saves /\ (asking' = asking \/ asking' # "save")
  BY <1>1, <1>2, <1>6 DEF Askers
<1> QED
  BY <1>3, <1>4, <1>5, <1>6, AskSteps DEF RunOnAllRows, ViewRunEnds, ConfirmPatch, askVars

(* Each dialog is up for the one it will answer. *)
LEMMA DialogsKept == DialogsTypeOK /\ Dialogs /\ [DialogsNext]_dialogsVars => Dialogs'
<1> SUFFICES ASSUME DialogsTypeOK, Dialogs, [DialogsNext]_dialogsVars PROVE Dialogs'
  OBVIOUS
<1>1. request \in Runs /\ flow \in Runs
  BY DEF DialogsTypeOK
<1> USE DEF Dialogs
<1>2. ASSUME NEW run \in BOOLEAN, Answer(run) PROVE Dialogs'
  <2>1. [request EXCEPT !.stage = "replay"].stage = "replay" /\ AtRest.stage = "idle"
    BY <1>1 DEF Runs, AtRest
  <2> QED
    BY <1>2, <2>1 DEF Answer
<1>3. CASE SendRequest
  <2>1. [AtRest EXCEPT !.stage = "model"].stage = "model" /\ AtRest.stage = "idle"
    BY DEF AtRest
  <2>2. request = AtRest /\ request' = [AtRest EXCEPT !.stage = "model"]
        /\ crossed' = (crossed \/ flow # AtRest) /\ UNCHANGED <<asking, looking, flow>>
    BY <1>3 DEF SendRequest, askVars
  <2> QED
    BY <2>1, <2>2
<1>4. CASE OpenFlow
  <2>1. [AtRest EXCEPT !.stage = "picking"].stage = "picking" /\ AtRest.stage = "idle"
    BY DEF AtRest
  <2>2. flow = AtRest /\ flow' = [AtRest EXCEPT !.stage = "picking"]
        /\ crossed' = (crossed \/ request # AtRest) /\ UNCHANGED <<asking, looking, request>>
    BY <1>4 DEF OpenFlow, askVars
  <2> QED
    BY <2>1, <2>2
<1>5. CASE DismissLookupDialog
  <2>1. AtRest.stage = "idle"
    BY DEF AtRest
  <2>2. looking # "none" /\ looking' = "none" /\ UNCHANGED <<asking, crossed>>
    BY <1>5 DEF DismissLookupDialog, askVars
  <2>3. CASE looking = "request"
    BY <1>5, <2>1, <2>2, <2>3 DEF DismissLookupDialog
  <2>4. CASE looking = "flow"
    BY <1>5, <2>1, <2>2, <2>4 DEF DismissLookupDialog
  <2> QED
    BY <2>2, <2>3, <2>4 DEF DialogsTypeOK
<1>6. ASSUME NEW asks \in BOOLEAN, ConfirmPatch(asks) PROVE Dialogs'
  <2>1. [request EXCEPT !.stage = IF asks THEN "estimate" ELSE "replay"].stage
          = IF asks THEN "estimate" ELSE "replay"
    BY <1>1 DEF Runs
  <2>2. AtRest.stage = "idle"
    BY DEF AtRest
  <2> QED
    BY <1>6, <2>1, <2>2 DEF ConfirmPatch
<1>7. ASSUME NEW needs \in SUBSET Lookups, PatchArrives(needs) PROVE Dialogs'
  BY <1>7 DEF PatchArrives, askVars, AtRest
<1>8. ASSUME NEW needs \in SUBSET Lookups, FlowPicked(needs) PROVE Dialogs'
  BY <1>8 DEF FlowPicked, askVars, AtRest
<1>9. ASSUME NEW name \in Lookups, ChooseLookupFile(name) PROVE Dialogs'
  BY <1>9 DEF ChooseLookupFile, Supplied, askVars, AtRest
<1>10. ASSUME NEW commits \in BOOLEAN, NEW left \in Sizes,
             RequestEnds(commits, left) \/ FlowEnds(commits, left)
      PROVE Dialogs'
  <2>1. AtRest.stage = "idle"
    BY DEF AtRest
  <2>2. CASE RequestEnds(commits, left)
    <3>1. /\ request.stage \in {"model", "replay"} /\ request' = AtRest
          /\ UNCHANGED <<asking, flow, looking, crossed>>
      BY <2>2 DEF RequestEnds, askVars
    <3> QED
      BY <2>1, <3>1
  <2>3. CASE FlowEnds(commits, left)
    <3>1. /\ flow.stage \in {"picking", "replay"} /\ flow' = AtRest
          /\ UNCHANGED <<asking, request, looking, crossed>>
      BY <2>3 DEF FlowEnds, askVars
    <3> QED
      BY <2>1, <3>1
  <2> QED
    BY <1>10, <2>2, <2>3
<1>11. CASE UNCHANGED operationVars
  <2>1. CASE Save \/ RunOnAllRows
    BY <1>11, <2>1 DEF Save, RunOnAllRows, Uncovered, operationVars
  <2>2. CASE UNCHANGED asking
    BY <1>11, <2>2 DEF operationVars
  <2> QED
    BY <1>2, <1>6, <2>1, <2>2, AskSteps DEF askVars, ViewRunEnds, SaveRunEnds
<1> QED
  BY <1>2, <1>3, <1>4, <1>5, <1>6, <1>7, <1>8, <1>9, <1>10, <1>11, LookupSteps

(* A run that goes on has the lookups it asked for. *)
LEMMA CoveredKept == DialogsTypeOK /\ Dialogs /\ Covered /\ [DialogsNext]_dialogsVars => Covered'
<1> SUFFICES ASSUME DialogsTypeOK, Dialogs, Covered, [DialogsNext]_dialogsVars PROVE Covered'
  OBVIOUS
<1>1. request \in Runs /\ flow \in Runs
  BY DEF DialogsTypeOK
<1> USE DEF Covered, Supplies
<1>2. ASSUME NEW run \in BOOLEAN, Answer(run) PROVE Covered'
  <2>1. /\ [request EXCEPT !.stage = "replay"].needs = request.needs
        /\ [request EXCEPT !.stage = "replay"].stage = "replay"
    BY <1>1 DEF Runs
  <2>2. \/ UNCHANGED request \/ request' = AtRest
        \/ request' = [request EXCEPT !.stage = "replay"] /\ request.stage = "estimate"
    BY <1>2 DEF Answer, Dialogs
  <2>3. UNCHANGED <<flow, tablesHeld>>
    BY <1>2 DEF Answer
  <2>4. CASE request' = AtRest
    BY <2>3, <2>4 DEF AtRest
  <2>5. CASE request' = [request EXCEPT !.stage = "replay"] /\ request.stage = "estimate"
    BY <2>1, <2>3, <2>5
  <2> QED
    BY <2>2, <2>3, <2>4, <2>5
<1>3. CASE SendRequest \/ OpenFlow
  BY <1>3 DEF SendRequest, OpenFlow, AtRest
<1>4. CASE DismissLookupDialog
  BY <1>4 DEF DismissLookupDialog, AtRest
<1>5. ASSUME NEW asks \in BOOLEAN, ConfirmPatch(asks) PROVE Covered'
  <2>1. [request EXCEPT !.stage = IF asks THEN "estimate" ELSE "replay"].needs = request.needs
        /\ [request EXCEPT !.stage = IF asks THEN "estimate" ELSE "replay"].stage # "lookup"
    BY <1>1 DEF Runs
  <2> QED
    BY <1>5, <2>1 DEF ConfirmPatch
<1>6. ASSUME NEW needs \in SUBSET Lookups, PatchArrives(needs) PROVE Covered'
  BY <1>6 DEF PatchArrives
<1>7. ASSUME NEW needs \in SUBSET Lookups, FlowPicked(needs) PROVE Covered'
  BY <1>7 DEF FlowPicked
<1>8. ASSUME NEW name \in Lookups, ChooseLookupFile(name) PROVE Covered'
  BY <1>8 DEF ChooseLookupFile, Supplied, Dialogs
<1>9. ASSUME NEW commits \in BOOLEAN, NEW left \in Sizes,
             RequestEnds(commits, left) \/ FlowEnds(commits, left)
      PROVE Covered'
  <2>1. /\ request' = request \/ request' = AtRest
        /\ flow' = flow \/ flow' = AtRest
        /\ UNCHANGED tablesHeld
    BY <1>9 DEF RequestEnds, FlowEnds
  <2> QED
    BY <2>1 DEF AtRest
<1>10. CASE UNCHANGED operationVars
  BY <1>10 DEF operationVars
<1> QED
  BY <1>2, <1>3, <1>4, <1>5, <1>6, <1>7, <1>8, <1>9, <1>10, LookupSteps

------------------------------------------------------------------------------
(* The inductive invariant and what follows from it.                       *)

(* The session starts with every dialog down. *)
LEMMA DialogsStart == DialogsInit => DInv
<1> SUFFICES ASSUME DialogsInit PROVE DInv
  OBVIOUS
<1>1. clicks \in [{"save", "export", "request", "flow"} -> Nat]
  BY DEF DialogsInit
<1>2. DialogsTypeOK
  <2>1. hostStreaming \in BOOLEAN /\ crossed \in BOOLEAN /\ rows \in Sizes /\ plan \in Nat
    BY DEF DialogsInit
  <2>2. /\ gate = "closed" /\ gateToken = 0 /\ pendingSave \in Files /\ written \in Files
        /\ exports = {} /\ disowned = {}
    BY Shapes DEF DialogsInit
  <2>3. /\ saves = {} /\ viewRun = "idle" /\ asking = "none" /\ looking = "none" /\ tablesHeld = {}
        /\ request \in Runs /\ flow \in Runs
    BY Shapes DEF DialogsInit
  <2> QED
    BY <1>1, <2>1, <2>2, <2>3 DEF DialogsTypeOK
<1>3. GateHasItsJob /\ Tokens /\ Evaluated /\ Askers
  BY DEF DialogsInit, GateHasItsJob, Tokens, Evaluated, Askers, None
<1>4. Dialogs /\ Covered
  BY DEF DialogsInit, Dialogs, Covered, Supplies, AtRest
<1> QED
  BY <1>2, <1>3, <1>4 DEF DInv

(* Every step keeps the invariant. *)
LEMMA DialogsKeep == DInv /\ [DialogsNext]_dialogsVars => DInv'
<1> SUFFICES ASSUME DInv, [DialogsNext]_dialogsVars PROVE DInv'
  OBVIOUS
<1>1. DialogsTypeOK'
  BY SessionTyped, GateTyped, AskTyped, LookupsTyped DEF DInv, DialogsTypeOK
<1> QED
  BY <1>1, GateJobKept, TokensKept, EvaluatedKept, AskersKept, DialogsKept, CoveredKept
  DEF DInv

(* The invariant holds in every reachable state. *)
LEMMA DialogsInvariant == DialogsSpec => []DInv
BY DialogsStart, DialogsKeep, PTL DEF DialogsSpec

(* The state of every dialog keeps its type: controller-files.ts and
   controller-lazy.ts never mix up a gate, an asker or a lookup. *)
THEOREM DialogsTypeCorrect == DialogsSpec => []DialogsTypeOK
<1>1. DInv => DialogsTypeOK
  BY DEF DInv
<1> QED
  BY <1>1, DialogsInvariant, PTL

(* A gate that waits has the export that ends its wait, a ready one has its
   bytes and one that is down has left none (openGate and closeGate of
   controller-files.ts), through any mix of saves, exports and cancels. *)
THEOREM GateAlwaysHasItsJob == DialogsSpec => []GateHasItsJob
<1>1. DInv => GateHasItsJob
  BY DEF DInv
<1> QED
  BY <1>1, DialogsInvariant, PTL

(* A request that waits is the one its dialog answers: confirmPatch of
   controller-lazy.ts and the lookup dialog of controller-files.ts never leave
   it behind another asker, unless a flow was being opened beside it. *)
THEOREM RequestNeverParked == DialogsSpec => []RequestIsNeverParked
<1>1. DInv => RequestIsNeverParked
  BY DEF DInv, Dialogs, RequestIsNeverParked
<1> QED
  BY <1>1, DialogsInvariant, PTL

(* No replay starts on a join whose file the lookup dialog did not stage. *)
THEOREM ReplaysAlwaysHaveLookups == DialogsSpec => []ReplaysHaveLookups
<1>1. DInv => ReplaysHaveLookups
  BY DEF DInv, Covered, Supplies, ReplaysHaveLookups
<1> QED
  BY <1>1, DialogsInvariant, PTL

(* Whatever lands late, a script whose gate was cancelled is never written:
   savePython compares the token it was given with the gate's. *)
THEOREM CancelledNeverReachesDisk == DialogsSpec => CancelledNeverWritten
<1>1. DInv /\ [DialogsNext]_dialogsVars => (written'.kind = "python" => written'.of \notin disowned)
  <2> SUFFICES ASSUME DInv, [DialogsNext]_dialogsVars, written'.kind = "python"
               PROVE  written'.of \notin disowned
    OBVIOUS
  <2>1. written' = written \/ written' = pendingSave \/ written'.kind = "data"
    <3>1. CASE Save
      BY <3>1 DEF Save
    <3>2. ASSUME NEW left \in Sizes, NEW s \in saves, SaveRunEnds(s, left)
          PROVE  written' = written
      BY <3>2 DEF SaveRunEnds
    <3> QED
      BY <3>1, <3>2, GateSteps DEF SavePython, PythonLands, PythonFails, ConfirmSaveGate,
         DismissSaveGate, gateVars
  <2> QED
    BY <2>1 DEF DInv, Tokens
<1> QED
  BY <1>1, DialogsInvariant, PTL DEF DialogsSpec, CancelledNeverWritten

(* A data file of the plan in force is written with nothing left to evaluate
   (saveGated and confirmSaveGate of controller-files.ts). *)
THEOREM WrittenRowsAreEvaluated == DialogsSpec => WrittenRowsEvaluated
<1>1. DInv /\ [DialogsNext]_dialogsVars =>
        (written' # written /\ written'.kind = "data" /\ written'.of = plan => rows = "none")
  <2> SUFFICES ASSUME DInv, [DialogsNext]_dialogsVars, written' # written, written'.kind = "data",
                      written'.of = plan
               PROVE  rows = "none"
    OBVIOUS
  <2>1. written' = pendingSave \/ rows = "none"
    BY GateSteps DEF SavePython, PythonLands, PythonFails, ConfirmSaveGate, DismissSaveGate,
       Save, SaveRunEnds, gateVars
  <2> QED
    BY <2>1 DEF DInv, Evaluated
<1> QED
  BY <1>1, DialogsInvariant, PTL DEF DialogsSpec, WrittenRowsEvaluated

------------------------------------------------------------------------------
(* The guided tours.                                                       *)

Running == {"fetching", "parsing", "pausing", "clip", "playing", "sending", "suggesting"}

\* The shapes of the records.
Played  == [tour : Tours, play : 0..MaxPlays]
Advance == [stage : Running \cup {"idle", "waiting", "ending", "golden"},
            of : Played \cup {NoTour}, total : Nat, call : Nat]
Play    == [tour : Tours, play : 1..MaxPlays, stage : {"fetching", "staging"},
            left : SUBSET UNION {Needs[t] : t \in Tours}]
Table   == [id : Nat, ofTour : BOOLEAN, asked : BOOLEAN]
Tally   == [plays : 0..MaxPlays, opens : Nat, sends : Nat, requests : Nat]
Ghost   == [begun : Seq(Nat), overrun : BOOLEAN, late : BOOLEAN]

CursorTyped ==
  /\ active \in Played \cup {NoTour}
  /\ step \in Nat \cup {NoStep} /\ executedThrough \in Nat \cup {NoStep}
  /\ golden \in Tours \cup {"none"} /\ completed \subseteq Tours
  /\ adv \in Advance /\ (adv.stage \notin {"idle", "waiting"} => adv.of \in Played)
  /\ ghost \in Ghost
PlaysTyped ==
  plays \subseteq Play /\ \A p \in plays : p.left \subseteq Needs[p.tour]
FlagsTyped ==
  /\ open \in BOOLEAN /\ streaming \in BOOLEAN
  /\ replayMissed \in BOOLEAN /\ opening \in BOOLEAN
RequestsTyped ==
  /\ counts \in Tally /\ pending \in 0..counts.requests
  /\ requests \subseteq [id : 1..counts.requests, mine : BOOLEAN]
TableTyped ==
  /\ table \in Table /\ suggestionsSeq \in Nat
  /\ table.id \in 0..suggestionsSeq /\ chips \in {0, suggestionsSeq}
  /\ calls \subseteq [seq : 1..suggestionsSeq, replaying : BOOLEAN]

\* Every tour has a step, and its steps are of the four kinds.
LEMMA ScriptIs ==
  /\ \A t \in Tours : Total(t) \in Nat \ {0}
  /\ \A t \in Tours, i \in Nat : i < Total(t) =>
       Script[t][i + 1] \in {"load", "query", "audio", "suggest"}
  /\ NoTour \notin Played /\ MaxPlays \in Nat
  /\ Idle \in Advance
<1>1. ASSUME NEW t \in Tours
      PROVE  /\ Total(t) \in Nat \ {0}
             /\ \A i \in Nat : i < Total(t) =>
                  Script[t][i + 1] \in {"load", "query", "audio", "suggest"}
  <2>1. Script[t] \in Seq({"load", "query", "audio", "suggest"}) /\ Script[t] # <<>>
    BY ToursAssumption
  <2>2. Len(Script[t]) \in Nat \ {0}
    BY <2>1, EmptySeq, LenProperties
  <2> QED
    BY <2>1, <2>2 DEF Total
<1>2. NoTour \notin Played
  BY ToursAssumption DEF NoTour, Played
<1>3. Idle \in Advance
  BY DEF Idle, Advance, NoTour
<1>4. MaxPlays \in Nat
  BY ToursAssumption
<1> QED
  BY <1>1, <1>2, <1>3, <1>4

\* The flags of the panel, the run, the tape and the parse stay flags.
LEMMA FlagsKept ==
  ASSUME FlagsTyped, [Next]_vars PROVE FlagsTyped'
BY DEF FlagsTyped, Next, vars, OpenTutorial, CloseTutorial, Escape, FinishTutorial,
       SelectTutorialScenario, LoadTour, LoadTourFails, WriteLookup, LoadFromPicked, OwnTable,
       SendChat, NoteReplayMiss, RequestSettles, RequestFails, Suggest, SuggestFails, NextStep,
       AdvanceStep, LoadFixture, LoadFromText, RunQuery, LoadAudio, ClipEnds, StepSettles,
       MarkCompleted, SurfaceGolden, Send, Arm, replayVars

Paced ==
  ~ghost.overrun =>
    /\ step # NoStep => executedThrough = step - 1
    /\ step # NoStep /\ adv.stage \notin Running => Len(ghost.begun) = step
    /\ step # NoStep /\ adv.stage \in Running =>
         /\ adv.of = active /\ adv.total = Total(active.tour)
         /\ step < adv.total /\ Len(ghost.begun) = step + 1
    /\ adv.stage = "ending" => Len(ghost.begun) = Total(adv.of.tour)

CursorInv == CursorTyped /\ Paced

\* A checkmark set now is earned.
Earned ==
  \A t \in completed' \ completed : ~ghost.overrun =>
    /\ active.tour = t
    /\ Len(ghost'.begun) = Total(t)
    /\ ~Waiting'

Begun(a) ==
  ~ghost.overrun /\ step # NoStep =>
    /\ active # NoTour /\ executedThrough = step - 1
    /\ a.total = Total(active.tour) /\ step < a.total /\ Len(ghost'.begun) = step + 1

\* A step that began and passes moves the cursor on by one, and a checkmark
\* is set only at the last.
LEMMA PassedIs ==
  ASSUME CursorInv, NEW a \in Advance, NEW waits \in BOOLEAN, Passed(a, waits), Begun(a),
         UNCHANGED <<active, golden>>, ghost' \in Ghost, ghost'.overrun = ghost.overrun,
         ~waits => ~Waiting'
  PROVE  /\ CursorInv' /\ Earned
         /\ active = NoTour => adv' = Idle
         /\ adv'.stage \in {"idle", "ending", "golden"}
<1> USE DEF CursorInv, CursorTyped
<1>1. CASE step = NoStep \/ active = NoTour
  <2>1. adv' = Idle /\ UNCHANGED <<step, executedThrough, completed>>
    BY <1>1 DEF Passed
  <2>2. CursorTyped'
    BY <2>1, ScriptIs DEF Idle
  <2>3. Paced'
    BY <1>1, <2>1 DEF Paced, Begun, Idle, Running
  <2> QED
    BY <2>1, <2>2, <2>3 DEF Earned, Idle
<1>2. CASE ~(step = NoStep \/ active = NoTour)
  <2>0. /\ active \in Played /\ step \in Nat /\ a.total \in Nat /\ active.tour \in Tours
        /\ executedThrough' = step
    BY <1>2 DEF Passed, Advance, Played
  <2>1. CASE step < a.total - 1
    <3>1. step' = step + 1 /\ adv' = Idle /\ UNCHANGED completed
      BY <1>2, <2>1 DEF Passed
    <3>2. CursorTyped'
      BY <2>0, <3>1, ScriptIs DEF Idle
    <3>3. Paced'
      BY <1>2, <2>0, <3>1 DEF Paced, Begun, Idle, Running
    <3> QED
      BY <1>2, <3>1, <3>2, <3>3 DEF Earned, Idle
  <2>2. CASE ~(step < a.total - 1)
    <3> DEFINE stage == IF waits THEN "ending" ELSE "golden"
    <3>1. /\ step' = a.total
          /\ completed' = IF waits THEN completed ELSE completed \cup {active.tour}
          /\ adv' = [a EXCEPT !.stage = stage, !.of = active]
      BY <1>2, <2>2 DEF Passed
    <3>2. adv' \in Advance /\ adv'.stage = stage /\ adv'.of = active
      BY <2>0, <3>1 DEF Advance
    <3>3. CursorTyped'
      BY <2>0, <3>1, <3>2
    <3>4. ~ghost.overrun => Len(ghost'.begun) = step' /\ step' = step + 1
                            /\ step' = Total(active.tour)
      BY <1>2, <2>0, <2>2, <3>1 DEF Begun
    <3>5. Paced'
      BY <2>0, <3>1, <3>2, <3>4 DEF Paced, Running
    <3>6. Earned
      BY <3>1, <3>4 DEF Earned
    <3> QED
      BY <1>2, <3>2, <3>3, <3>5, <3>6
  <2> QED
    BY <2>1, <2>2
<1> QED
  BY <1>1, <1>2

\* A step that begins is the next one.
LEMMA ExecuteIs ==
  ASSUME CursorInv, suggestionsSeq \in Nat, adv.stage \in {"idle", "waiting"},
         Overlay, ~Done, ~Waiting,
         ExecuteTutorialStep, UNCHANGED <<active, golden, pending, requests>>
  PROVE  /\ CursorInv' /\ Earned
         /\ adv'.stage \notin {"parsing", "waiting"}
         /\ ghost'.overrun = ghost.overrun /\ ghost'.late = ghost.late
         /\ ghost'.begun # ghost.begun /\ ~ghost.overrun =>
              ghost'.begun = Append(ghost.begun, Len(ghost.begun))
<1> USE DEF CursorInv, CursorTyped
<1> DEFINE kind == Script[active.tour][step + 1]
           a == [stage |-> FirstStage[kind], of |-> active, total |-> Total(active.tour),
                 call |-> suggestionsSeq]
<1>1. /\ active \in Played /\ active.tour \in Tours /\ step \in Nat
      /\ Total(active.tour) \in Nat /\ step < Total(active.tour)
  <2>1. active \in Played /\ active.tour \in Tours /\ step \in Nat
    BY DEF Overlay, Played
  <2> QED
    BY <2>1, ScriptIs DEF Overlay, Done
<1>2. kind \in {"load", "query", "audio", "suggest"}
  BY <1>1, ScriptIs
<1>3. FirstStage[kind] \in Running
  BY <1>2 DEF FirstStage, Running
<1>4. a \in Advance /\ a.total = Total(active.tour) /\ a.of = active /\ a.stage \in Running
      /\ a.stage # "parsing"
  <2>1. FirstStage[kind] # "parsing"
    BY <1>2 DEF FirstStage
  <2> HIDE DEF kind
  <2> QED
    BY <1>1, <1>3, <2>1 DEF Advance
<1>5. ~Waiting' /\ Waiting \in BOOLEAN
  BY DEF Waiting
<1>6. \/ step <= executedThrough /\ Passed(a, Waiting) /\ UNCHANGED ghost
      \/ /\ ghost' = [ghost EXCEPT !.begun = Append(@, step)]
         /\ ~(step <= executedThrough)
         /\ \/ Passed(a, Waiting)
            \/ adv' = a /\ UNCHANGED <<step, executedThrough, completed>>
  BY DEF ExecuteTutorialStep
<1> HIDE DEF a
<1>7. CASE step <= executedThrough /\ Passed(a, Waiting) /\ UNCHANGED ghost
  <2>1. Begun(a)
    BY <1>1, <1>7 DEF Begun, Paced, Overlay
  <2> QED
    BY <1>4, <1>5, <1>7, <2>1, PassedIs
<1>8. CASE /\ ghost' = [ghost EXCEPT !.begun = Append(@, step)]
           /\ \/ Passed(a, Waiting)
              \/ adv' = a /\ UNCHANGED <<step, executedThrough, completed>>
  <2>1. /\ ghost' \in Ghost /\ ghost'.overrun = ghost.overrun /\ ghost'.late = ghost.late
        /\ ghost'.begun = Append(ghost.begun, step) /\ Len(ghost'.begun) = Len(ghost.begun) + 1
    BY <1>1, <1>8 DEF Ghost
  <2>2. ~ghost.overrun => Len(ghost.begun) = step /\ executedThrough = step - 1
    BY <1>1 DEF Paced, Running, Overlay
  <2>3. Begun(a)
    BY <1>1, <1>4, <2>1, <2>2 DEF Begun, Overlay
  <2>4. CASE Passed(a, Waiting)
    BY <1>4, <1>5, <2>1, <2>2, <2>3, <2>4, PassedIs
  <2>5. CASE adv' = a /\ UNCHANGED <<step, executedThrough, completed>>
    <3>1. CursorTyped'
      BY <1>1, <1>4, <2>1, <2>5
    <3>2. Paced'
      BY <1>1, <1>4, <2>1, <2>2, <2>5 DEF Paced, Running
    <3>3. Earned
      BY <2>5 DEF Earned
    <3> QED
      BY <1>4, <2>1, <2>2, <2>5, <3>1, <3>2, <3>3 DEF Running
  <2> QED
    BY <1>8, <2>4, <2>5
<1> QED
  BY <1>6, <1>7, <1>8

\* The step that runs has begun.
LEMMA RunningBegan ==
  ASSUME CursorInv, adv.stage \in Running, UNCHANGED ghost
  PROVE  Begun(adv) /\ adv \in Advance /\ adv.of \in Played
<1>1. adv \in Advance /\ adv.of \in Played
  BY DEF CursorInv, CursorTyped, Running
<1> QED
  BY <1>1, ScriptIs DEF CursorInv, Paced, Begun

\* Each of them begins once, and in order.
Once ==
  ghost'.begun # ghost.begun /\ ghost'.begun # <<>> /\ ~ghost.overrun =>
    ghost'.begun = Append(ghost.begun, Len(ghost.begun))

\* What changes the cursor.
LEMMA CursorSteps ==
  [Next]_vars =>
    \/ UNCHANGED <<tourVars, completed, adv, ghost>>
    \/ Cancel /\ UNCHANGED <<completed, adv>>
    \/ Escape
    \/ \E p \in plays : LoadTour(p) \/ \E name \in p.left, ok \in BOOLEAN : WriteLookup(p, name, ok)
    \/ NextStep \/ AdvanceStep
    \/ \E ok \in BOOLEAN : LoadFixture(ok) \/ LoadAudio(ok) \/ SurfaceGolden(ok)
    \/ LoadFromText \/ RunQuery \/ ClipEnds \/ StepSettles \/ MarkCompleted
BY DEF Next, vars, OpenTutorial, CloseTutorial, FinishTutorial, SelectTutorialScenario,
       LoadTourFails, LoadFromPicked, OwnTable, SendChat, NoteReplayMiss, RequestSettles,
       RequestFails, Suggest, SuggestFails, CancelVars, tourVars

\* Leaving a tour takes the cursor away.
LEMMA CancelPaces ==
  ASSUME CursorInv, Cancel, UNCHANGED <<completed, adv>>
  PROVE  CursorInv' /\ Earned /\ Once
<1> USE DEF CursorInv, CursorTyped
<1>1. /\ ghost' \in Ghost /\ ghost'.begun = ghost.begun /\ ghost'.overrun = ghost.overrun
  BY DEF Cancel, Ghost, Landing
<1>2. CursorTyped'
  BY <1>1 DEF Cancel, NoStep
<1>3. Paced'
  BY <1>1 DEF Cancel, Paced
<1> QED
  BY <1>1, <1>2, <1>3 DEF Earned, Once

\* A tour that starts is at its first step, with nothing begun.
LEMMA StartPaces ==
  ASSUME CursorInv, PlaysTyped, NEW p \in plays,
         LoadTour(p) \/ \E name \in p.left, ok \in BOOLEAN : WriteLookup(p, name, ok)
  PROVE  CursorInv' /\ Earned /\ Once
<1> USE DEF CursorInv, CursorTyped
<1>1. UNCHANGED <<completed, adv>> /\ Earned
  BY DEF LoadTour, WriteLookup, Earned
<1>2. active' \in Played \cup {NoTour}
  <2>1. p \in Play /\ MaxPlays \in Nat
    BY ScriptIs DEF PlaysTyped
  <2>2. [tour |-> p.tour, play |-> IF Needs[p.tour] = {} THEN 0 ELSE p.play] \in Played
    BY <2>1 DEF Play, Played
  <2> QED
    BY <2>2 DEF LoadTour, WriteLookup
<1>3. CASE Arm
  <2>1. /\ ghost' \in Ghost /\ ghost'.begun = <<>> /\ (~ghost'.overrun => adv.stage = "idle")
    <3>1. PICK late \in BOOLEAN : late = (adv.stage # "idle")
      OBVIOUS
    <3>2. ghost' = [ghost EXCEPT !.begun = <<>>, !.overrun = late]
      BY <1>3, <3>1 DEF Arm
    <3>3. <<>> \in Seq(Nat)
      OBVIOUS
    <3> QED
      BY <3>1, <3>2, <3>3 DEF Ghost
  <2>2. step' = 0 /\ executedThrough' = -1 /\ golden' = "none"
    BY <1>3 DEF Arm
  <2>3. CursorTyped'
    BY <1>1, <1>2, <2>1, <2>2 DEF NoStep
  <2>4. Paced'
    BY <1>1, <2>1, <2>2 DEF Paced, NoStep, Running
  <2> QED
    BY <1>1, <2>1, <2>3, <2>4 DEF Once
<1>4. CASE /\ UNCHANGED <<step, executedThrough, golden>>
           /\ \/ UNCHANGED <<ghost, active>>
              \/ ghost' = [ghost EXCEPT !.overrun = @ \/ active # NoTour \/ adv # Idle]
  <2>1. /\ ghost' \in Ghost /\ ghost'.begun = ghost.begun
        /\ ~ghost'.overrun => ~ghost.overrun /\ (UNCHANGED active \/ adv = Idle)
    BY <1>4 DEF Ghost
  <2>2. CursorTyped'
    BY <1>1, <1>2, <1>4, <2>1
  <2>3. Paced'
    BY <1>1, <1>4, <2>1 DEF Paced, Idle, Running
  <2> QED
    BY <1>1, <2>1, <2>2, <2>3 DEF Once
<1> QED
  BY <1>3, <1>4 DEF LoadTour, WriteLookup

\* Every step keeps the pace.
LEMMA CursorKept ==
  ASSUME CursorInv, PlaysTyped, TableTyped, RequestsTyped, [Next]_vars
  PROVE  CursorInv' /\ Earned /\ Once
<1> USE DEF CursorInv, CursorTyped
<1> DEFINE Goal == CursorInv' /\ Earned /\ Once
<1>1. CASE UNCHANGED <<tourVars, completed, adv, ghost>>
  <2>1. CursorInv'
    BY <1>1 DEF tourVars, Paced
  <2> QED
    BY <1>1, <2>1 DEF Earned, Once
<1>2. CASE Cancel /\ UNCHANGED <<completed, adv>>
  BY <1>2, CancelPaces
<1>3. CASE Escape
  <2>1. CASE Done
    <3>1. step' = NoStep /\ UNCHANGED <<active, executedThrough, golden, completed, adv, ghost>>
      BY <1>3, <2>1 DEF Escape
    <3>2. CursorInv'
      BY <3>1 DEF Paced
    <3> QED
      BY <3>1, <3>2 DEF Earned, Once
  <2>2. CASE ~Done
    BY <1>3, <2>2, CancelPaces DEF Escape
  <2> QED
    BY <2>1, <2>2
<1>4. CASE NextStep \/ AdvanceStep
  <2>1. /\ UNCHANGED <<active, golden, replayVars>> /\ adv.stage \in {"idle", "waiting"}
        /\ \/ Overlay /\ ~Done /\ ~Waiting /\ ExecuteTutorialStep
           \/ /\ adv' \in {Idle, [Idle EXCEPT !.stage = "waiting"]}
              /\ UNCHANGED <<step, executedThrough, completed, ghost>>
    BY <1>4 DEF NextStep, AdvanceStep, Idle
  <2>2. CASE Overlay /\ ~Done /\ ~Waiting /\ ExecuteTutorialStep
    <3>1. suggestionsSeq \in Nat /\ UNCHANGED <<active, golden, pending, requests>>
      BY <2>1 DEF TableTyped, replayVars
    <3> QED
      BY <2>1, <2>2, <3>1, ExecuteIs DEF Once
  <2>3. CASE /\ adv' \in {Idle, [Idle EXCEPT !.stage = "waiting"]}
             /\ UNCHANGED <<step, executedThrough, completed, ghost>>
    <3>1. adv' \in Advance /\ adv'.stage \in {"idle", "waiting"}
      BY <2>3, ScriptIs DEF Idle, Advance
    <3>2. CursorTyped'
      BY <2>1, <2>3, <3>1
    <3>3. Paced'
      BY <2>1, <2>3, <3>1 DEF Paced, Running
    <3> QED
      BY <2>3, <3>2, <3>3 DEF Earned, Once
  <2> QED
    BY <2>1, <2>2, <2>3
<1>5. ASSUME adv.stage \in Running, UNCHANGED <<active, golden, ghost>>,
             NEW waits \in BOOLEAN, Passed(adv, waits), ~waits => ~Waiting'
      PROVE  Goal
  <2>1. Begun(adv) /\ adv \in Advance
    BY <1>5, RunningBegan
  <2> QED
    BY <1>5, <2>1, PassedIs DEF Once
<1>6. ASSUME adv.stage \in Running,
             UNCHANGED <<active, golden, ghost, step, executedThrough, completed>>,
             NEW stage \in Running, adv' = [adv EXCEPT !.stage = stage]
      PROVE  Goal
  <2>1. adv' \in Advance /\ adv'.stage = stage /\ adv'.of = adv.of /\ adv'.total = adv.total
    BY <1>6 DEF Advance
  <2>2. adv.of \in Played
    BY <1>6, RunningBegan
  <2>3. CursorTyped'
    BY <1>6, <2>1, <2>2
  <2>4. Paced'
    BY <1>6, <2>1 DEF Paced, Running
  <2> QED
    BY <1>6, <2>3, <2>4 DEF Earned, Once
<1>7. Waiting \in BOOLEAN /\ (UNCHANGED replayVars => Waiting' = Waiting)
  BY DEF Waiting, replayVars
<1>8. ASSUME NEW ok \in BOOLEAN, LoadFixture(ok) PROVE Goal
  <2>1. /\ adv.stage \in Running /\ UNCHANGED <<active, golden, ghost, replayVars>>
        /\ \/ Passed(adv, Waiting)
           \/ adv' = [adv EXCEPT !.stage = "parsing"] /\ UNCHANGED <<step, executedThrough, completed>>
    BY <1>8 DEF LoadFixture, Running
  <2> QED
    BY <1>5, <1>6, <1>7, <2>1 DEF Running
<1>9. ASSUME NEW ok \in BOOLEAN, LoadAudio(ok) PROVE Goal
  <2>1. /\ adv.stage \in Running /\ UNCHANGED <<active, golden, ghost, replayVars>>
        /\ \/ Passed(adv, Waiting)
           \/ adv' = [adv EXCEPT !.stage = "playing"] /\ UNCHANGED <<step, executedThrough, completed>>
    BY <1>9 DEF LoadAudio, Running
  <2> QED
    BY <1>5, <1>6, <1>7, <2>1 DEF Running
<1>10. CASE LoadFromText
  BY <1>5, <1>7, <1>10 DEF LoadFromText, Running
<1>11. CASE RunQuery
  <2>1. adv.stage \in Running /\ UNCHANGED <<active, golden, ghost>>
    BY <1>11 DEF RunQuery, Running
  <2>2. CASE Cancelled \/ table = NoTable
    <3> DEFINE waits == Cancelled /\ Waiting
    <3>1. Passed(adv, waits) /\ waits \in BOOLEAN
      BY <1>11, <2>2 DEF RunQuery
    <3>2. ~waits => ~Waiting'
      <4>1. UNCHANGED requests /\ pending' = IF Cancelled THEN pending ELSE 0
        BY <1>11, <2>2 DEF RunQuery
      <4>2. \A r \in requests : r.id # 0
        BY DEF RequestsTyped, Tally
      <4> QED
        BY <4>1, <4>2 DEF Waiting
    <3> HIDE DEF waits
    <3> QED
      BY <1>5, <2>1, <3>1, <3>2
  <2>3. CASE ~(Cancelled \/ table = NoTable)
    BY <1>5, <1>11, <2>1, <2>3 DEF RunQuery
  <2> QED
    BY <2>2, <2>3
<1>12. CASE ClipEnds
  <2>1. adv.stage \in Running /\ UNCHANGED <<active, golden, ghost>>
    BY <1>12 DEF ClipEnds, Running
  <2>2. CASE Cancelled
    <3>1. Passed(adv, Waiting) /\ (~Waiting => ~Waiting')
      BY <1>12, <2>2 DEF ClipEnds, Waiting
    <3> QED
      BY <1>5, <1>7, <2>1, <3>1
  <2>3. CASE ~Cancelled
    BY <1>6, <1>12, <2>1, <2>3 DEF ClipEnds, Running
  <2> QED
    BY <2>2, <2>3
<1>13. CASE StepSettles
  BY <1>5, <1>7, <1>13 DEF StepSettles, Running
<1>14. CASE MarkCompleted
  <2>1. /\ adv.stage = "ending" /\ ~Waiting /\ UNCHANGED <<tourVars, replayVars, ghost>>
        /\ completed' = IF active = adv.of THEN completed \cup {active.tour} ELSE completed
        /\ adv' = IF active = NoTour THEN Idle ELSE [adv EXCEPT !.stage = "golden", !.of = active]
    BY <1>14 DEF MarkCompleted
  <2>2. adv.of \in Played
    BY <2>1
  <2>3. /\ adv' \in Advance /\ adv'.stage \in {"idle", "golden"}
        /\ adv'.stage = "golden" => adv'.of \in Played
    BY <2>1, ScriptIs DEF Advance, Idle
  <2>4. CursorTyped'
    BY <2>1, <2>2, <2>3 DEF tourVars, Played
  <2>5. Paced'
    BY <2>1, <2>3 DEF Paced, Running, tourVars
  <2>6. Earned
    BY <1>7, <2>1 DEF Earned, Paced
  <2> QED
    BY <2>1, <2>4, <2>5, <2>6 DEF Once
<1>15. ASSUME NEW ok \in BOOLEAN, SurfaceGolden(ok) PROVE Goal
  <2>1. /\ adv.stage = "golden" /\ adv' = Idle
        /\ golden' = IF ok THEN adv.of.tour ELSE golden
        /\ UNCHANGED <<active, step, executedThrough, completed, ghost>>
    BY <1>15 DEF SurfaceGolden
  <2>2. adv.of \in Played
    BY <2>1
  <2>3. CursorTyped'
    BY <2>1, <2>2, ScriptIs DEF Played, Idle
  <2>4. Paced'
    BY <2>1 DEF Paced, Idle, Running
  <2> QED
    BY <2>1, <2>3, <2>4 DEF Earned, Once
<1> HIDE DEF Goal
<1>16. ASSUME NEW p \in plays,
             LoadTour(p) \/ \E name \in p.left, ok \in BOOLEAN : WriteLookup(p, name, ok)
      PROVE  Goal
  BY <1>16, StartPaces DEF Goal
<1> QED
  BY <1>1, <1>2, <1>3, <1>4, <1>8, <1>9, <1>10, <1>11, <1>12, <1>13, <1>14, <1>15, <1>16,
     CursorSteps DEF Goal

------------------------------------------------------------------------------
(* Plays, requests, tables.                                                *)

\* A play in flight is of a tour of the panel.
LEMMA PlaysKept ==
  ASSUME PlaysTyped, counts \in Tally, [Next]_vars
  PROVE  PlaysTyped'
<1> USE DEF PlaysTyped
<1>1. ASSUME NEW t \in Tours, SelectTutorialScenario(t) PROVE PlaysTyped'
  <2>1. counts.plays + 1 \in 1..MaxPlays
    BY <1>1, ScriptIs DEF SelectTutorialScenario, Tally
  <2> DEFINE p == [tour |-> t, play |-> counts.plays + 1, stage |-> "fetching", left |-> Needs[t]]
  <2>2. p \in Play /\ p.left \subseteq Needs[p.tour]
    BY <2>1 DEF Play
  <2> QED
    BY <1>1, <2>2 DEF SelectTutorialScenario
<1>2. ASSUME NEW p \in plays, LoadTour(p) \/ LoadTourFails(p) PROVE PlaysTyped'
  <2>1. /\ [p EXCEPT !.stage = "staging"] \in Play
        /\ [p EXCEPT !.stage = "staging"].left = p.left
        /\ [p EXCEPT !.stage = "staging"].tour = p.tour
    BY DEF Play
  <2> QED
    BY <1>2, <2>1 DEF LoadTour, LoadTourFails
<1>3. ASSUME NEW p \in plays, NEW name \in p.left, NEW ok \in BOOLEAN, WriteLookup(p, name, ok)
      PROVE  PlaysTyped'
  <2>1. /\ [p EXCEPT !.left = @ \ {name}] \in Play
        /\ [p EXCEPT !.left = @ \ {name}].left = p.left \ {name}
        /\ [p EXCEPT !.left = @ \ {name}].tour = p.tour
    BY DEF Play
  <2> QED
    BY <1>3, <2>1 DEF WriteLookup
<1>4. CASE UNCHANGED plays
  BY <1>4
<1> QED
  BY <1>1, <1>2, <1>3, <1>4 DEF Next, vars, OpenTutorial, CloseTutorial, Escape,
     FinishTutorial, LoadFromPicked, OwnTable, SendChat, NoteReplayMiss, RequestSettles,
     RequestFails, Suggest, SuggestFails, NextStep, AdvanceStep, LoadFixture, LoadFromText,
     RunQuery, LoadAudio, ClipEnds, StepSettles, MarkCompleted, SurfaceGolden

\* Requests are numbered, and the one a step waits for is among them.
LEMMA RequestsKept ==
  ASSUME RequestsTyped, [Next]_vars
  PROVE  RequestsTyped'
<1> USE DEF RequestsTyped
<1>1. ASSUME NEW mine \in BOOLEAN, Send(mine), pending' \in {pending, counts.requests + 1}
      PROVE  RequestsTyped'
  <2>1. counts' \in Tally /\ counts'.requests = counts.requests + 1
    <3>1. PICK sends \in Nat : sends = IF mine THEN counts.sends + 1 ELSE counts.sends
      BY DEF Tally
    <3>2. counts' = [counts EXCEPT !.requests = counts.requests + 1, !.sends = sends]
      BY <1>1, <3>1 DEF Send, Tally
    <3>3. counts.requests + 1 \in Nat
      BY DEF Tally
    <3> QED
      BY <3>1, <3>2, <3>3 DEF Tally
  <2>2. requests' = requests \cup {[id |-> counts.requests + 1, mine |-> mine]}
    BY <1>1 DEF Send
  <2>3. counts.requests \in Nat
    BY DEF Tally
  <2> QED
    BY <1>1, <2>1, <2>2, <2>3
<1>2. ASSUME NEW t \in Tours, SelectTutorialScenario(t) PROVE RequestsTyped'
  <2>1. counts' \in Tally /\ counts'.requests = counts.requests
    BY <1>2, ScriptIs DEF SelectTutorialScenario, Tally
  <2> QED
    BY <1>2, <2>1 DEF SelectTutorialScenario, replayVars
<1>3. CASE LoadFromPicked
  <2>1. counts' \in Tally /\ counts'.requests = counts.requests
    BY <1>3 DEF LoadFromPicked, Tally
  <2> QED
    BY <1>3, <2>1 DEF LoadFromPicked, replayVars
<1>4. CASE SendChat
  BY <1>1, <1>4 DEF SendChat
<1>5. CASE RunQuery \/ ClipEnds
  <2>1. \/ Send(FALSE) /\ pending' = counts.requests + 1
        \/ pending' \in {pending, 0} /\ UNCHANGED <<requests, counts>>
    BY <1>5 DEF RunQuery, ClipEnds
  <2>2. 0 \in 0..counts.requests
    BY DEF Tally
  <2> QED
    BY <1>1, <2>1, <2>2
<1>6. CASE requests' \subseteq requests /\ UNCHANGED <<counts, pending>>
  BY <1>6
<1> QED
  BY <1>2, <1>3, <1>4, <1>5, <1>6 DEF Next, vars, OpenTutorial, CloseTutorial, Escape,
     FinishTutorial, LoadTour, LoadTourFails, WriteLookup, OwnTable, NoteReplayMiss,
     RequestSettles, RequestFails, Suggest, SuggestFails, NextStep, AdvanceStep, LoadFixture,
     LoadFromText, LoadAudio, StepSettles, MarkCompleted, SurfaceGolden, replayVars

\* Suggestions shown or asked for are those of the table.
Asked == chips # 0 \/ \E c \in calls : c.seq = suggestionsSeq
Suggested ==
  TableTyped /\ (table # NoTable /\ Asked => table.id = suggestionsSeq /\ ~table.asked)

\* What changes them.
LEMMA TableSteps ==
  [Next]_vars =>
    \/ table' \in {table, NoTable} /\ UNCHANGED chipVars
    \/ \E ofTour \in BOOLEAN : CommitParsed(ofTour)
    \/ \E c \in calls : Suggest(c) \/ SuggestFails(c)
    \/ ClearSuggestions /\ table' = [table EXCEPT !.asked = table # NoTable]
BY DEF Next, vars, OpenTutorial, CloseTutorial, Escape, FinishTutorial, SelectTutorialScenario,
       LoadTour, LoadTourFails, WriteLookup, LoadFromPicked, OwnTable, SendChat, NoteReplayMiss,
       RequestSettles, RequestFails, NextStep, AdvanceStep, LoadFixture, LoadFromText, RunQuery,
       LoadAudio, ClipEnds, StepSettles, MarkCompleted, SurfaceGolden, Cancel, CancelVars

\* Chips, and the calls that may yet set them, stay those of the table.
LEMMA SuggestedKept ==
  ASSUME Suggested, [Next]_vars
  PROVE  Suggested'
<1> USE DEF Suggested, TableTyped
<1>1. CASE table' \in {table, NoTable} /\ UNCHANGED chipVars
  <2>1. NoTable \in Table /\ NoTable.id = 0
    BY DEF NoTable, Table
  <2> QED
    BY <1>1, <2>1 DEF chipVars, Asked
<1>2. ASSUME NEW ofTour \in BOOLEAN, CommitParsed(ofTour) PROVE Suggested'
  <2>1. /\ table' \in Table /\ table'.id = suggestionsSeq + 1 /\ ~table'.asked
        /\ suggestionsSeq' = suggestionsSeq + 1 /\ chips' = 0
    BY <1>2 DEF CommitParsed, Table
  <2>2. calls' \subseteq [seq : 1..suggestionsSeq', replaying : BOOLEAN]
    <3>1. PICK replaying \in BOOLEAN : replaying = (active # NoTour)
      OBVIOUS
    <3>2. calls' = calls \cup {[seq |-> suggestionsSeq + 1, replaying |-> replaying]}
      BY <1>2, <3>1 DEF CommitParsed
    <3> QED
      BY <2>1, <3>2
  <2> QED
    BY <2>1, <2>2
<1>3. ASSUME NEW c \in calls, Suggest(c) \/ SuggestFails(c) PROVE Suggested'
  BY <1>3 DEF Suggest, SuggestFails, Asked
<1>4. CASE ClearSuggestions /\ table' = [table EXCEPT !.asked = table # NoTable]
  <2>1. table' \in Table /\ table'.id = table.id
    <3>1. PICK asked \in BOOLEAN : asked = (table # NoTable)
      OBVIOUS
    <3> QED
      BY <1>4, <3>1 DEF Table
  <2>2. ~Asked'
    BY <1>4 DEF ClearSuggestions, Asked
  <2> QED
    BY <1>4, <2>1, <2>2 DEF ClearSuggestions
<1> QED
  BY <1>1, <1>2, <1>3, <1>4, TableSteps

------------------------------------------------------------------------------
(* Exits.                                                                  *)

\* Nothing of a tour is left, and nothing of one is about to land.
Clean ==
  /\ staged = {} /\ golden = "none" /\ ~table.ofTour
  /\ \A p \in plays : p.stage # "staging"
  /\ adv.stage \notin {"parsing", "golden"}
Left == staged = tourLookups /\ (active = NoTour /\ ~ghost.late => Clean)

\* Leaving a tour with nothing about to land leaves nothing.
LEMMA CancelLeaves ==
  ASSUME Left, CursorInv, Cancel, UNCHANGED adv,
         \A p \in plays' : p \in plays \/ p.stage = "fetching"
  PROVE  Left'
<1>1. ghost'.late = (ghost.late \/ Landing) /\ Landing \in BOOLEAN
  BY DEF Cancel, CursorInv, CursorTyped, Ghost, Landing
<1>2. ASSUME ~ghost'.late PROVE Clean'
  <2>1. ~ghost.late /\ ~Landing
    BY <1>1, <1>2
  <2>2. ~table'.ofTour
    BY <2>1 DEF Cancel, Left, Clean, NoTable
  <2>3. staged' = {} /\ golden' = "none"
    BY DEF Cancel, Left
  <2> QED
    BY <2>1, <2>2, <2>3 DEF Clean, Landing
<1> QED
  BY <1>2 DEF Left, Cancel

\* What a step can do to what a tour leaves behind.
LEMMA LeavingSteps ==
  [Next]_vars =>
    \/ Cancel /\ UNCHANGED adv /\ \A p \in plays' : p \in plays \/ p.stage = "fetching"
    \/ /\ UNCHANGED <<lookupVars, active, golden, adv, ghost>> /\ plays' \subseteq plays
       /\ \/ UNCHANGED table \/ CommitParsed(FALSE)
          \/ table' = [table EXCEPT !.asked = table # NoTable]
    \/ \E p \in plays : LoadTour(p) \/ \E name \in p.left, ok \in BOOLEAN : WriteLookup(p, name, ok)
    \/ NextStep \/ AdvanceStep
    \/ \E ok \in BOOLEAN : LoadFixture(ok) \/ LoadAudio(ok) \/ SurfaceGolden(ok)
    \/ LoadFromText \/ RunQuery \/ ClipEnds \/ StepSettles \/ MarkCompleted
<1>1. ASSUME CloseTutorial \/ Escape \/ FinishTutorial \/ LoadFromPicked
                \/ \E r \in requests : RequestFails(r)
      PROVE  \/ Cancel /\ UNCHANGED <<adv, plays>>
             \/ UNCHANGED <<lookupVars, active, golden, adv, ghost, plays, table>>
  BY <1>1 DEF CloseTutorial, Escape, FinishTutorial, LoadFromPicked, RequestFails, CancelVars,
              tourVars
<1>2. ASSUME NEW t \in Tours, SelectTutorialScenario(t)
      PROVE  Cancel /\ UNCHANGED adv /\ \A p \in plays' : p \in plays \/ p.stage = "fetching"
  BY <1>2 DEF SelectTutorialScenario
<1>3. ASSUME OpenTutorial \/ SendChat \/ NoteReplayMiss \/ UNCHANGED vars
                \/ (\E p \in plays : LoadTourFails(p))
                \/ \E c \in calls : Suggest(c) \/ SuggestFails(c)
      PROVE  UNCHANGED <<lookupVars, active, golden, adv, ghost, table>> /\ plays' \subseteq plays
  BY <1>3 DEF OpenTutorial, SendChat, NoteReplayMiss, vars, LoadTourFails, Suggest, SuggestFails,
              tourVars
<1>4. ASSUME (\E ok \in BOOLEAN : OwnTable(ok))
                \/ \E r \in requests, commits \in BOOLEAN : RequestSettles(r, commits)
      PROVE  /\ UNCHANGED <<lookupVars, active, golden, adv, ghost, plays>>
             /\ \/ UNCHANGED table \/ CommitParsed(FALSE)
                \/ table' = [table EXCEPT !.asked = table # NoTable]
  BY <1>4 DEF OwnTable, RequestSettles, tourVars
<1> QED
  BY <1>1, <1>2, <1>3, <1>4 DEF Next

\* Nor does any later step bring it back.
LEMMA LeftKept ==
  ASSUME Left, CursorInv, PlaysTyped, TableTyped, [Next]_vars
  PROVE  Left'
<1> USE DEF CursorInv, CursorTyped
<1>1. CASE Cancel /\ UNCHANGED adv /\ \A p \in plays' : p \in plays \/ p.stage = "fetching"
  BY <1>1, CancelLeaves
<1>2. CASE /\ UNCHANGED <<lookupVars, active, golden, adv, ghost>> /\ plays' \subseteq plays
           /\ \/ UNCHANGED table \/ CommitParsed(FALSE)
              \/ table' = [table EXCEPT !.asked = table # NoTable]
  <2>1. table'.ofTour = table.ofTour \/ ~table'.ofTour
    BY <1>2 DEF CommitParsed, TableTyped, Table
  <2> QED
    BY <1>2, <2>1 DEF Left, Clean, lookupVars
<1>3. ASSUME NEW p \in plays, LoadTour(p) PROVE Left'
  <2>1. p.tour \in Tours
    BY DEF PlaysTyped, Play
  <2>2. active' # NoTour
    BY <1>3, <2>1, ToursAssumption DEF LoadTour, NoTour
  <2> QED
    BY <1>3, <2>2 DEF LoadTour, Left, lookupVars
<1>4. ASSUME NEW p \in plays, NEW name \in p.left, NEW ok \in BOOLEAN, WriteLookup(p, name, ok)
      PROVE  Left'
  <2>1. ghost'.late = ghost.late
    BY <1>4 DEF WriteLookup, Arm, Ghost
  <2> QED
    BY <1>4, <2>1 DEF WriteLookup, Left, Clean
<1>5. ASSUME UNCHANGED <<lookupVars, active, plays, golden, table>>, ghost'.late = ghost.late,
             active = NoTour /\ ~ghost.late => adv'.stage \notin {"parsing", "golden"}
      PROVE  Left'
  BY <1>5 DEF Left, Clean, lookupVars
<1>6. CASE NextStep \/ AdvanceStep
  <2>1. /\ UNCHANGED <<lookupVars, active, plays, golden, table>>
        /\ active = NoTour => adv' = Idle
    BY <1>6 DEF NextStep, AdvanceStep, Overlay
  <2>2. ghost'.late = ghost.late
    BY <1>6 DEF NextStep, AdvanceStep, ExecuteTutorialStep, Ghost
  <2> QED
    BY <1>5, <2>1, <2>2 DEF Idle
<1>7. ASSUME adv.stage \in Running, active = NoTour PROVE Cancelled
  BY <1>7, ScriptIs DEF Cancelled, Running
<1>8. \A waits \in BOOLEAN : Passed(adv, waits) /\ active = NoTour => adv' = Idle
  BY DEF Passed
<1>9. Waiting \in BOOLEAN
  BY DEF Waiting
<1>10. ASSUME NEW ok \in BOOLEAN, LoadFixture(ok) \/ LoadAudio(ok) PROVE Left'
  <2>1. adv.stage \in Running /\ UNCHANGED <<lookupVars, active, plays, golden, table, ghost>>
    BY <1>10 DEF LoadFixture, LoadAudio, Running
  <2>2. active = NoTour => adv' = Idle
    BY <1>7, <1>8, <1>9, <1>10, <2>1 DEF LoadFixture, LoadAudio
  <2> QED
    BY <1>5, <2>1, <2>2 DEF Idle
<1>11. CASE RunQuery \/ ClipEnds \/ StepSettles
  <2>1. adv.stage \in Running /\ UNCHANGED <<lookupVars, active, plays, golden, table, ghost>>
    BY <1>11 DEF RunQuery, ClipEnds, StepSettles, Running
  <2>2. active = NoTour => adv' = Idle
    BY <1>7, <1>8, <1>9, <1>11, <2>1 DEF RunQuery, ClipEnds, StepSettles
  <2> QED
    BY <1>5, <2>1, <2>2 DEF Idle
<1>12. CASE LoadFromText
  BY <1>12 DEF LoadFromText, Left, Clean, lookupVars
<1>13. CASE MarkCompleted
  <2>1. /\ UNCHANGED <<lookupVars, active, plays, golden, table, ghost>>
        /\ active = NoTour => adv' = Idle
    BY <1>13 DEF MarkCompleted, tourVars
  <2> QED
    BY <1>5, <2>1 DEF Idle
<1>14. ASSUME NEW ok \in BOOLEAN, SurfaceGolden(ok) PROVE Left'
  BY <1>14 DEF SurfaceGolden, Left, Clean, lookupVars
<1> QED
  BY <1>1, <1>2, <1>3, <1>4, <1>6, <1>10, <1>11, <1>12, <1>13, <1>14, LeavingSteps

------------------------------------------------------------------------------
(* The invariant and what follows from it.                                 *)

TourInv ==
  FlagsTyped /\ PlaysTyped /\ RequestsTyped /\ CursorInv /\ Suggested /\ Left

\* A session starts without a tour.
LEMMA TourStarts == Init => TourInv
<1> SUFFICES ASSUME Init PROVE TourInv
  OBVIOUS
<1>1. FlagsTyped /\ PlaysTyped
  BY DEF Init, FlagsTyped, PlaysTyped
<1>2. RequestsTyped
  <2>1. counts \in Tally /\ counts.requests = 0
    BY ScriptIs DEF Init, Tally
  <2> QED
    BY <2>1 DEF Init, RequestsTyped
<1>3. CursorInv
  <2>1. ghost \in Ghost /\ ghost.begun = <<>>
    <3>1. <<>> \in Seq(Nat)
      OBVIOUS
    <3> QED
      BY <3>1 DEF Init, Ghost
  <2>2. CursorTyped
    BY <2>1, ScriptIs DEF Init, CursorTyped, Idle, NoStep
  <2>3. Paced
    BY DEF Init, Paced, Idle
  <2> QED
    BY <2>2, <2>3 DEF CursorInv
<1>4. Suggested
  BY DEF Init, Suggested, TableTyped, Table, NoTable, Asked
<1>5. Left
  BY DEF Init, Left, Clean, Idle, NoTable
<1> QED
  BY <1>1, <1>2, <1>3, <1>4, <1>5 DEF TourInv

\* Every step keeps the invariant.
LEMMA TourKeeps ==
  ASSUME TourInv, [Next]_vars
  PROVE  TourInv' /\ Earned /\ Once
<1>1. TableTyped /\ counts \in Tally
  BY DEF TourInv, Suggested, RequestsTyped
<1> QED
  BY <1>1, FlagsKept, PlaysKept, RequestsKept, CursorKept, SuggestedKept, LeftKept DEF TourInv

\* The invariant holds in every reachable state.
LEMMA TourInvariant == Spec => []TourInv
<1>1. TourInv /\ [Next]_vars => TourInv'
  BY TourKeeps
<1> QED
  BY <1>1, TourStarts, PTL DEF Spec

\* Type correctness of a tour's session (controller-tutorial.ts).
THEOREM TourTypeCorrect == Spec => []TypeOK
<1>1. TourInv => TypeOK
  <2> SUFFICES ASSUME TourInv PROVE TypeOK
    OBVIOUS
  <2> USE DEF TourInv, CursorInv, CursorTyped, FlagsTyped, PlaysTyped, RequestsTyped,
              Suggested, TableTyped, Left
  <2>1. active = NoTour \/ (active.tour \in Tours /\ active.play \in 0 .. MaxPlays)
    BY DEF Played
  <2>2. \A p \in plays : p.tour \in Tours /\ p.left \subseteq Needs[p.tour]
    BY DEF Play
  <2>3. /\ {open, streaming, replayMissed, opening} \subseteq BOOLEAN
        /\ {step, executedThrough} \subseteq Nat \cup {NoStep}
        /\ completed \subseteq Tours /\ tourLookups \subseteq staged
    OBVIOUS
  <2>4. /\ pending \in 0 .. counts.requests
        /\ \A r \in requests : r.id \in 1 .. counts.requests
        /\ table.id \in 0 .. suggestionsSeq
        /\ chips \in 0 .. suggestionsSeq
        /\ \A c \in calls : c.seq \in 1 .. suggestionsSeq
    OBVIOUS
  <2> QED
    BY <2>1, <2>2, <2>3, <2>4 DEF TypeOK
<1> QED
  BY <1>1, TourInvariant, PTL

\* However a tour is left, by Esc, the panel, a failure or a file of the
\* visitor's own, nothing of it stays (cancelTutorial, controller-tutorial.ts).
THEOREM ExitAlwaysLeavesNothing == Spec => []ExitLeavesNothing
<1>1. TourInv => ExitLeavesNothing
  BY DEF TourInv, Left, Clean, ExitLeavesNothing
<1> QED
  BY <1>1, TourInvariant, PTL

\* The chips shown are for the table on screen, in whatever order the calls
\* for them answer (suggest and clearSuggestions of controller.ts).
THEOREM ChipsAlwaysOfTable == Spec => []ChipsAreOfTable
<1>1. TourInv => ChipsAreOfTable
  BY DEF TourInv, Suggested, TableTyped, Asked, ChipsAreOfTable
<1> QED
  BY <1>1, TourInvariant, PTL

\* Next runs the steps of a tour once each and in order (advanceStep).
THEOREM StepsAlwaysRunOnce == Spec => StepsRunOnce
<1>1. TourInv /\ [Next]_vars =>
        [ghost'.begun # ghost.begun /\ ghost'.begun # <<>> /\ ~ghost.overrun =>
           ghost'.begun = Append(ghost.begun, Len(ghost.begun))]_vars
  BY TourKeeps DEF Once
<1> QED
  BY <1>1, TourInvariant, PTL DEF Spec, StepsRunOnce

\* A checkmark is set when every step of the tour has begun and none of its
\* requests is in flight (the end of advanceStep).
THEOREM CompletedAlwaysPlayed == Spec => CompletedWasPlayed
<1>1. TourInv /\ [Next]_vars =>
        [\A t \in completed' \ completed : ~ghost.overrun =>
           /\ active.tour = t
           /\ Len(ghost'.begun) = Total(t)
           /\ ~Waiting']_vars
  BY TourKeeps DEF Earned
<1> QED
  BY <1>1, TourInvariant, PTL DEF Spec, CompletedWasPlayed

===============================================================================
