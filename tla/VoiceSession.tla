------------------------------- MODULE VoiceSession -------------------------------
(***************************************************************************)
(* Voice input: web/src/controller-voice.ts over the ports of              *)
(* voice-input/browser-voice.ts and browser-vad.ts, composed with the      *)
(* engine of EngineRebuild, which it sends requests to and whose settings  *)
(* close its gate.                                                         *)
(*                                                                         *)
(* A microphone session is known by the epoch of its start.  Each port     *)
(* keeps one handle, so a session that is granted while another holds the  *)
(* handle replaces it.                                                     *)
(***************************************************************************)
EXTENDS EngineRebuild

CONSTANTS
    MaxPresses,   \* bound: presses of the microphone button
    MaxToggles,   \* bound: starts of the hands-free session
    MaxClips      \* bound: turns the detector cuts

ASSUME VoiceBoundsAssumption ==
    MaxPresses \in Nat /\ MaxToggles \in Nat /\ MaxClips \in Nat

VARIABLES
    voiceStatus, epoch, latchOnStart,
    prompts,     \* starts that await the permission prompt
    handle,      \* the session the recording port holds, 0 for none
    hot,         \* the sessions whose tracks are live
    late,        \* sessions cancelled in mid-recording, whose data is to come
    chunks,      \* the sessions whose data is in the list of chunks
    timer,       \* voiceAutoStopCancel: whose auto-stop it cancels, 0 for none
    timers,      \* the auto-stops that are armed
    voiceAbort,  \* the controller of the release in progress, 0 for null
    aborted,     \* the controllers that were aborted
    stops,       \* releases that await the recorder or the encoder
    presses,
    continuousStatus, continuousBusy,
    loads,       \* hands-free starts that await the detector
    vad,         \* the detector the port holds, 0 for none
    open,        \* the detectors that listen
    toggles, clips,
    dropped,     \* history: sessions ended by a cancel or an early release
    heard,       \* history: sessions whose audio was sent
    overtaken    \* history: a start did not wait for what the last one left

port    == <<handle, hot, late, chunks>>
micVars == <<voiceStatus, epoch, latchOnStart, prompts, port, timer, timers,
             voiceAbort, aborted, stops, presses, dropped, heard>>
wavVars == <<continuousStatus, continuousBusy, loads, vad, open, toggles, clips>>
vars == <<engineVars, micVars, wavVars, overtaken>>

Init ==
    /\ EngineInit
    /\ voiceStatus = "idle" /\ epoch = 0 /\ latchOnStart = FALSE
    /\ prompts = {} /\ handle = 0 /\ hot = {} /\ late = {} /\ chunks = {}
    /\ timer = 0 /\ timers = {}
    /\ voiceAbort = 0 /\ aborted = {} /\ stops = {} /\ presses = 0
    /\ continuousStatus = "idle" /\ continuousBusy = FALSE
    /\ loads = {} /\ vad = 0 /\ open = {} /\ toggles = 0 /\ clips = 0
    /\ dropped = {} /\ heard = {} /\ overtaken = FALSE

Live == {"recording", "latched"}

Spoken == {o \in flying : o.kind = "spoken"}
Clips  == {o \in flying : o.kind = "clip"}

-----------------------------------------------------------------------------
(* The recording port: one stream, one recorder, one list of chunks.       *)

\* teardown: the tracks of the session at hand stop, the handle clears, and
\* the list of chunks is a new one.
Teardown == hot' = hot \ {handle} /\ handle' = 0 /\ chunks' = {}

\* The recorder at hand, unless it was told to stop: then it is inactive, and
\* its stop goes on as if nothing had happened.
Running == {handle} \ ({0} \cup {s.mic : s \in stops})

\* cancelRecording: a running recorder stops without a word to anyone, but the
\* data it holds still comes.
CancelRecording == late' = late \cup Running /\ Teardown

\* The data of a cancelled recorder arrives, into the list there is now.
LateData(e) ==
    /\ e \in late
    /\ late' = late \ {e}
    /\ chunks' = chunks \cup {e}
    /\ UNCHANGED <<engineVars, wavVars, voiceStatus, epoch, latchOnStart, prompts, handle,
                   hot, timer, timers, voiceAbort, aborted, stops, presses, dropped,
                   heard, overtaken>>

-----------------------------------------------------------------------------
(* Press, grant, release.                                                  *)

StartVoice ==
    /\ presses < MaxPresses
    /\ voiceStatus = "idle" /\ Gate
    /\ epoch' = epoch + 1
    /\ latchOnStart' = FALSE
    /\ voiceStatus' = "starting"
    /\ prompts' = prompts \cup {epoch + 1}
    /\ presses' = presses + 1
    /\ overtaken' = (overtaken \/ stops # {} \/ Spoken # {})
    /\ UNCHANGED <<engineVars, wavVars, port, timer, timers, voiceAbort,
                   aborted, stops, dropped, heard>>

Denied(e) ==
    /\ e \in prompts
    /\ prompts' = prompts \ {e}
    /\ voiceStatus' = IF epoch = e THEN "idle" ELSE voiceStatus
    /\ UNCHANGED <<engineVars, wavVars, epoch, latchOnStart, port, timer,
                   timers, voiceAbort, aborted, stops, presses, dropped, heard,
                   overtaken>>

GoLive(e) ==
    /\ voiceStatus' = IF latchOnStart THEN "latched" ELSE "recording"
    /\ latchOnStart' = FALSE
    /\ handle' = e
    /\ hot' = hot \cup {e}
    /\ chunks' = {}
    /\ timer' = e
    /\ timers' = timers \cup {e}
    /\ UNCHANGED late

\* The grant of a session nobody holds: the port takes the stream and cancels
\* it again; whatever handle it held before is lost.
Unwanted(e) ==
    /\ handle' = 0 /\ chunks' = {} /\ late' = late \cup {e}
    /\ UNCHANGED <<voiceStatus, latchOnStart, hot, timer, timers>>

Granted(e) ==
    /\ e \in prompts
    /\ prompts' = prompts \ {e}
    /\ IF epoch = e /\ voiceStatus = "starting" THEN GoLive(e) ELSE Unwanted(e)
    /\ overtaken' = (overtaken \/ handle # 0 \/ late # {})
    /\ UNCHANGED <<engineVars, wavVars, epoch, voiceAbort, aborted, stops,
                   presses, dropped, heard>>

LatchVoice ==
    /\ \/ /\ voiceStatus = "starting"
          /\ latchOnStart' = TRUE
          /\ UNCHANGED voiceStatus
       \/ /\ voiceStatus = "recording"
          /\ voiceStatus' = "latched"
          /\ UNCHANGED latchOnStart
    /\ UNCHANGED <<engineVars, wavVars, epoch, prompts, port, timer, timers,
                   voiceAbort, aborted, stops, presses, dropped, heard, overtaken>>

\* stopVoice while the prompt is up.
AbandonStart ==
    /\ voiceStatus = "starting"
    /\ epoch' = epoch + 1
    /\ voiceStatus' = "idle"
    /\ dropped' = dropped \cup {epoch}
    /\ UNCHANGED <<timer, voiceAbort, stops>>

\* stopVoice on a live recording: the recorder is told to stop, and the
\* release awaits it; without a recorder it fails at once.
StopRecording ==
    /\ voiceStatus \in Live
    /\ timer' = 0
    /\ IF handle = 0
       THEN voiceStatus' = "idle" /\ voiceAbort' = 0 /\ UNCHANGED stops
       ELSE /\ voiceStatus' = "sending"
            /\ voiceAbort' = epoch
            /\ stops' = stops \cup {[mic |-> handle, clip |-> {}, stage |-> "stopping"]}
    /\ UNCHANGED <<epoch, dropped>>

StopVoice == AbandonStart \/ StopRecording

Release ==
    /\ StopVoice
    /\ timers' = IF voiceStatus \in Live THEN timers \ {timer} ELSE timers
    /\ UNCHANGED <<engineVars, wavVars, latchOnStart, prompts, port, aborted,
                   presses, heard, overtaken>>

\* The thirty seconds are over: the timer calls stopVoice, whatever it meets.
TimerFires(e) ==
    /\ e \in timers
    /\ timers' = IF voiceStatus \in Live THEN timers \ {e, timer} ELSE timers \ {e}
    /\ \/ StopVoice
       \/ /\ voiceStatus \in {"idle", "sending"}
          /\ UNCHANGED <<voiceStatus, epoch, timer, voiceAbort, stops, dropped>>
    /\ UNCHANGED <<engineVars, wavVars, latchOnStart, prompts, port, aborted,
                   presses, heard, overtaken>>

-----------------------------------------------------------------------------
(* The rest of a release: the recorder stops, the clip is encoded, the     *)
(* request is sent and settles.                                            *)

\* The recorder's data arrives, into the list there is now, and then onstop,
\* which no cancel takes off a recorder that was told to stop: the list becomes
\* the clip, and the session at hand is torn down.
RecorderStops(s) ==
    /\ s \in stops /\ s.stage = "stopping"
    /\ stops' = (stops \ {s}) \cup
         {[mic |-> s.mic, clip |-> chunks \cup {s.mic}, stage |-> "encoding"]}
    /\ Teardown
    /\ UNCHANGED <<engineVars, wavVars, voiceStatus, epoch, latchOnStart, prompts, late,
                   timer, timers, voiceAbort, aborted, presses, dropped, heard,
                   overtaken>>

\* The two ways out of stopVoice that are not a request in flight.
EndRelease == voiceStatus' = "idle" /\ voiceAbort' = 0

EncodeFails(s) ==
    /\ s \in stops /\ s.stage = "encoding"
    /\ stops' = stops \ {s}
    /\ EndRelease
    /\ UNCHANGED <<engineVars, wavVars, epoch, latchOnStart, prompts, port,
                   timer, timers, aborted, presses, dropped, heard, overtaken>>

\* Mutant: the signal is taken when the release starts, so a cancel that
\* cleared the controller does not keep the clip from being sent.
EncodedAnySignal(s) ==
    /\ s \in stops /\ s.stage = "encoding"
    /\ Replays = {}
    /\ stops' = stops \ {s}
    /\ heard' = heard \cup s.clip
    /\ \/ Enter("spoken", epoch) /\ UNCHANGED <<voiceStatus, voiceAbort>>
       \/ Bounce /\ EndRelease
    /\ UNCHANGED <<wavVars, epoch, latchOnStart, prompts, port, timer, timers,
                   aborted, presses, dropped, overtaken>>

\* The clip is ready.  With the controller gone, reading its signal throws,
\* inside the block whose finally ends the release; else the clip is sent
\* under the controller that is there now.
Encoded(s) ==
    /\ s \in stops /\ s.stage = "encoding"
    /\ Replays = {}
    /\ stops' = stops \ {s}
    /\ IF voiceAbort = 0
       THEN EndRelease /\ UNCHANGED <<engineVars, heard>>
       ELSE /\ heard' = heard \cup s.clip
            /\ \/ /\ Enter("spoken", voiceAbort)
                  /\ UNCHANGED <<voiceStatus, voiceAbort>>
               \/ Bounce /\ EndRelease
    /\ UNCHANGED <<wavVars, epoch, latchOnStart, prompts, port, timer, timers,
                   aborted, presses, dropped, overtaken>>

\* Mutant: a request that fails leaves the release open.
SpokenSettlesOpen(o, commits) ==
    /\ o \in Spoken
    /\ commits => o.signal \notin aborted
    /\ Settle(o, commits)
    /\ IF commits THEN EndRelease ELSE UNCHANGED <<voiceStatus, voiceAbort>>
    /\ UNCHANGED <<wavVars, epoch, latchOnStart, prompts, port, timer, timers,
                   aborted, stops, presses, dropped, heard, overtaken>>

SpokenSettles(o, commits) ==
    /\ o \in Spoken
    /\ commits => o.signal \notin aborted
    /\ Settle(o, commits)
    /\ EndRelease
    /\ UNCHANGED <<wavVars, epoch, latchOnStart, prompts, port, timer, timers,
                   aborted, stops, presses, dropped, heard, overtaken>>

-----------------------------------------------------------------------------
(* Escape, the cancel buttons, the gate.                                   *)

\* The sessions whose audio a cancel discards.
Discarded ==
    IF voiceStatus = "starting" THEN {epoch} ELSE {handle} \cup {s.mic : s \in stops}

\* Mutant: the cancel leaves the recorder to the release.
CancelKeepsMic ==
    /\ timer' = 0
    /\ timers' = timers \ {timer}
    /\ aborted' = IF voiceAbort = 0 THEN aborted ELSE aborted \cup {voiceAbort}
    /\ voiceAbort' = 0
    /\ epoch' = IF voiceStatus = "starting" THEN epoch + 1 ELSE epoch
    /\ UNCHANGED port
    /\ dropped' = dropped \cup Discarded
    /\ voiceStatus' = "idle"

Cancel ==
    /\ timer' = 0
    /\ timers' = timers \ {timer}
    /\ aborted' = IF voiceAbort = 0 THEN aborted ELSE aborted \cup {voiceAbort}
    /\ voiceAbort' = 0
    /\ IF voiceStatus = "starting"
       THEN epoch' = epoch + 1 /\ UNCHANGED port
       ELSE CancelRecording /\ UNCHANGED epoch
    /\ dropped' = dropped \cup Discarded
    /\ voiceStatus' = "idle"

\* The controls that call cancelVoice are up until the release is sending.
CancelVoice ==
    /\ voiceStatus \in Live \cup {"starting"}
    /\ Cancel
    /\ UNCHANGED <<engineVars, wavVars, latchOnStart, prompts, stops, presses, heard,
                   overtaken>>

StopListening ==
    /\ open' = open \ {vad}
    /\ vad' = 0
    /\ continuousStatus' = "idle"

\* setConfig with the gate it enforces, at whatever status.
SwitchModel(m) ==
    /\ Rebuild(m)
    /\ IF m \notin Hearing /\ voiceStatus # "idle"
       THEN Cancel
       ELSE UNCHANGED <<timer, timers, aborted, voiceAbort, epoch, port, dropped,
                        voiceStatus>>
    /\ IF m \notin Hearing /\ continuousStatus # "idle"
       THEN StopListening
       ELSE UNCHANGED <<open, vad, continuousStatus>>
    /\ UNCHANGED <<latchOnStart, prompts, stops, presses, heard, continuousBusy, loads,
                   toggles, clips, overtaken>>

-----------------------------------------------------------------------------
(* The hands-free session.                                                 *)

ToggleOn ==
    /\ toggles < MaxToggles
    /\ continuousStatus = "idle" /\ Gate
    /\ continuousStatus' = "starting"
    /\ loads' = loads \cup {toggles + 1}
    /\ toggles' = toggles + 1
    /\ overtaken' = (overtaken \/ loads # {} \/ continuousBusy)
    /\ UNCHANGED <<engineVars, micVars, continuousBusy, vad, open, clips>>

LoadFails(l) ==
    /\ l \in loads
    /\ loads' = loads \ {l}
    /\ continuousStatus' = IF continuousStatus = "starting" THEN "idle" ELSE continuousStatus
    /\ UNCHANGED <<engineVars, micVars, continuousBusy, vad, open, toggles, clips,
                   overtaken>>

\* The detector is up: it listens, or, if the session was stopped during the
\* load, it is destroyed with the handle it has just taken.
LoadEnds(l) ==
    /\ l \in loads
    /\ loads' = loads \ {l}
    /\ IF continuousStatus = "starting"
       THEN vad' = l /\ open' = open \cup {l} /\ continuousStatus' = "listening"
       ELSE vad' = 0 /\ UNCHANGED <<open, continuousStatus>>
    /\ UNCHANGED <<engineVars, micVars, continuousBusy, toggles, clips, overtaken>>

\* A click while the detector loads is ignored.
ToggleOff ==
    /\ continuousStatus \in {"listening", "sending"}
    /\ StopListening
    /\ UNCHANGED <<engineVars, micVars, continuousBusy, loads, toggles, clips, overtaken>>

\* The detector cuts a turn: it is dropped unless nothing at all is applying.
Segment ==
    /\ clips < MaxClips
    /\ open # {}
    /\ ~continuousBusy /\ ~streaming /\ continuousStatus = "listening"
    /\ clips' = clips + 1
    /\ continuousBusy' = TRUE
    /\ continuousStatus' = "sending"
    /\ UNCHANGED <<engineVars, micVars, loads, vad, open, toggles, overtaken>>

\* The end of a turn, whatever became of it.
Relisten ==
    /\ continuousBusy' = FALSE
    /\ continuousStatus' = IF continuousStatus = "idle" THEN "idle" ELSE "listening"
    /\ UNCHANGED <<micVars, loads, vad, open, toggles, clips, overtaken>>

\* The bytes of the clip are read, and it is sent; another request may have
\* taken the runner meanwhile.
SendClip ==
    /\ continuousBusy /\ Clips = {} /\ Replays = {}
    /\ \/ /\ Enter("clip", 0)
          /\ UNCHANGED <<micVars, wavVars, overtaken>>
       \/ Bounce /\ Relisten

ClipSettles(o, commits) ==
    /\ o \in Clips
    /\ Settle(o, commits)
    /\ Relisten

-----------------------------------------------------------------------------
OwnSettles(o, commits) == SettleOwn(o, commits) /\ UNCHANGED <<micVars, wavVars, overtaken>>

Next ==
    \/ StartVoice \/ LatchVoice \/ Release \/ CancelVoice
    \/ \E e \in prompts : Denied(e) \/ Granted(e)
    \/ \E e \in timers : TimerFires(e)
    \/ \E e \in late : LateData(e)
    \/ \E s \in stops : RecorderStops(s) \/ EncodeFails(s) \/ Encoded(s)
    \/ ToggleOn \/ ToggleOff \/ Segment \/ SendClip
    \/ \E l \in loads : LoadFails(l) \/ LoadEnds(l)
    \/ \E m \in Models : SwitchModel(m)
    \/ (SendTyped \/ StartReplay) /\ UNCHANGED <<micVars, wavVars, overtaken>>
    \/ \E o \in flying, commits \in BOOLEAN :
         OwnSettles(o, commits) \/ SpokenSettles(o, commits) \/ ClipSettles(o, commits)

\* A recorder that was told to stop stops, an encoder ends, and a request
\* settles: what a fetch does that returns or times out.
Fairness ==
    /\ WF_vars(\E s \in stops : RecorderStops(s))
    /\ WF_vars(\E s \in stops : EncodeFails(s) \/ Encoded(s))
    /\ WF_vars(\E o \in flying, commits \in BOOLEAN :
         OwnSettles(o, commits) \/ SpokenSettles(o, commits) \/ ClipSettles(o, commits))

Spec == Init /\ [][Next]_vars /\ Fairness

-----------------------------------------------------------------------------
(* Properties.                                                             *)

Statuses == {"idle", "starting", "recording", "latched", "sending"}
Stop == [mic : Nat, clip : SUBSET Nat, stage : {"stopping", "encoding"}]

MicTypeOK ==
    /\ voiceStatus \in Statuses /\ epoch \in Nat /\ latchOnStart \in BOOLEAN
    /\ prompts \subseteq 1..epoch
    /\ handle \in 0..epoch /\ hot \subseteq 1..epoch
    /\ late \subseteq 1..epoch /\ chunks \subseteq 1..epoch
    /\ timer \in 0..epoch /\ timers \subseteq 1..epoch
    /\ voiceAbort \in 0..epoch /\ aborted \subseteq 1..epoch
    /\ stops \subseteq Stop
    /\ \A s \in stops : s.mic \in 1..epoch /\ s.clip \subseteq 1..epoch
    /\ presses \in 0..MaxPresses
    /\ dropped \subseteq 0..epoch /\ heard \subseteq 1..epoch

WavTypeOK ==
    /\ continuousStatus \in {"idle", "starting", "listening", "sending"}
    /\ continuousBusy \in BOOLEAN
    /\ toggles \in 0..MaxToggles /\ clips \in 0..MaxClips
    /\ loads \subseteq 1..toggles /\ vad \in 0..toggles /\ open \subseteq 1..toggles

TypeOK == EngineTypeOK /\ MicTypeOK /\ WavTypeOK /\ overtaken \in BOOLEAN

AtRest ==
    /\ voiceStatus = "idle" /\ prompts = {} /\ stops = {}
    /\ continuousStatus = "idle" /\ loads = {}

\* The microphone is live only while a control shows it: at rest no track and
\* no detector is left, a recording has the newest start's tracks, and
\* `listening` has a detector.  Of sessions whose next start waits for what
\* the last one left (`overtaken` marks the others, see the README).
StatusMatchesMic ==
    ~overtaken =>
      /\ AtRest => hot = {} /\ open = {}
      /\ voiceStatus \in Live => handle = epoch /\ handle \in hot /\ timer \in timers
      /\ continuousStatus = "listening" => open # {}

\* Audio of a session that was cancelled, or released at the prompt, is never
\* sent, though its recorder, its encoder and its data go on.  Of sessions whose
\* start waits for what the last one left: `overtaken` marks the others, a start
\* beside a release or its request, and a grant beside another's handle or
\* before the data of a cancelled recorder has come (see the README).
NothingSentAfterCancel ==
    [][~overtaken => (heard' \ heard) \cap dropped = {}]_vars

\* A release that shows `sending` comes back, whether the clip is sent,
\* refused, fails to encode, or its request fails.
SendingEnds == voiceStatus = "sending" ~> voiceStatus # "sending"

\* A quiet grid shows what the journal says, through any change of settings:
\* the runner in place has the plan at the journal's cursor, unless what was in
\* flight when it came in was a gesture or a move, which raise no run flag, or
\* a request whose flag another one's end had lowered, or the last move failed.
RunnerTellsJournal ==
    /\ flying = {} /\ ~missed
    /\ \A o \in orphans : o.kind \notin Flagless /\ o.id \notin robbed
    => grids[runner] = cursor

=============================================================================
