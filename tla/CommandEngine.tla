--------------------------- MODULE CommandEngine ---------------------------
(***************************************************************************)
(* The command engine: every camera command of every interface, and the    *)
(* asynchronous Stop + Replay macro.                                       *)
(*                                                                         *)
(* The firmware's loop() runs one handler at a time to its end, so handlers*)
(* are atomic except where they block on the camera.  A blocking call is   *)
(* two steps: one that sends the command and records it in call, one that  *)
(* takes up the handler when the call returns.  Between them only the      *)
(* environment moves: time, the camera, the link and the notifications the *)
(* RPC's receive loop handles.  Times are ages, as in CameraStateStore.    *)
(***************************************************************************)
EXTENDS OperationArbiter, SonyCamera

CONSTANTS Commands,       \* semantic command ids
          Configs,        \* configurations an operator may save
          PlaybackHold,   \* how long playback is assumed after play, 10 s
          MacroHorizon    \* age at which the macro's clock saturates

(* mapped: the ids with a Sony mapping; http: those sent by HTTP, not over *)
(* /linear.  verifies: rec_review is mapped to the Thumbnail key of        *)
(* /linear, the one mapping whose playback is verified.                    *)
Config == [dryRun: BOOLEAN, replayDelayMs: Nat, replayTimeoutMs: Nat,
           telemetryFreshMs: Nat, mapped: SUBSET Commands, http: SUBSET Commands,
           verifies: BOOLEAN]

ASSUME CommandAssumption ==
  /\ {"record_stop", "rec_review"} \subseteq Commands
  /\ "stop_replay" \notin Commands
  /\ Configs \subseteq Config
  /\ PlaybackHold \in Nat
  /\ MacroHorizon \in Nat
  /\ \A c \in Configs :
       /\ c.replayTimeoutMs < MacroHorizon /\ c.telemetryFreshMs < SampleHorizon
       /\ c.verifies => "rec_review" \notin c.http

VARIABLES config,         \* the live configuration
          call,           \* the camera call the running handler blocks on
          macroState, macroAge, minReview, macroPhase, macroBusy,
          display         \* what the UI shows while telemetry is silent

engineVars == <<macroState, macroAge, minReview, macroPhase, macroBusy>>

MacroStates == {"Idle", "ObserveStop", "WaitReady", "FallbackDelay"}
Phases == {"READY", "WAIT_CAMERA_STATE", "WRITING", "CAMERA_READY", "WAIT_DELAY",
           "PLAYBACK_VERIFIED", "ERROR", "ABORTED"}

(* left: ticks until playback is no longer shown, if there is a deadline. *)
NoDeadline == -1
Display == [recording: BOOLEAN, playback: BOOLEAN, left: NoDeadline..PlaybackHold]
BlankDisplay == [recording |-> FALSE, playback |-> FALSE, left |-> NoDeadline]

Call == [by: Owners, id: Commands \cup {"none"}, obeyed: BOOLEAN, elapsed: BOOLEAN]
NoCall == [by |-> None, id |-> "none", obeyed |-> FALSE, elapsed |-> FALSE]

CpuFree == call = NoCall

EngineInit ==
  /\ call = NoCall
  /\ macroState = "Idle" /\ macroAge = 0 /\ minReview = 0
  /\ macroPhase = "READY" /\ macroBusy = FALSE
  /\ display = BlankDisplay

-----------------------------------------------------------------------------
(* runMapped: the call to the camera and how it may end                    *)

Fallback(id) == IF id \in {"record_start", "record_stop"} THEN "record_toggle" ELSE id
ActualId(id) == IF id \in config.mapped THEN id ELSE Fallback(id)
Configured(id) == ActualId(id) \in config.mapped

Send(by, id) ==
  call' = [by |-> by, id |-> id, obeyed |-> FALSE, elapsed |-> FALSE]

OverLinear(id) == Configured(id) /\ ActualId(id) \notin config.http

VerifiedReview(id) == id = "rec_review" /\ config.verifies

(* Dry-run answers at once.  A real success needs the camera to have acted *)
(* and a round trip of at least a millisecond.  An HTTP answer comes on a  *)
(* connection of its own; one over /linear is read after all that the      *)
(* session sent before it.                                                 *)
CallSucceeds ==
  \/ config.dryRun /\ UNCHANGED wire
  \/ /\ call.obeyed /\ call.elapsed
     /\ ~OverLinear(call.id)
     /\ UNCHANGED wire
  \/ /\ call.obeyed /\ call.elapsed
     /\ OverLinear(call.id)
     /\ wire # <<>> /\ Head(wire) = Answer
     /\ wire' = Tail(wire)

(* Slip: a failed call keeps its session, and the answer may still come.   *)
CallFailsInSession == ~config.dryRun /\ UNCHANGED wire

(* Unmapped, unreachable, refused and timed out, whether or not the camera *)
(* acted on it.  A session that was tried and failed is closed.            *)
CallFails ==
  /\ ~config.dryRun
  /\ \/ OverLinear(call.id) /\ wire' = <<>>
     \/ ~AnswerWaits /\ UNCHANGED wire

(* The optimistic state a successful command leaves on display.            *)
Shown(d, id) ==
  LET starts == id = "record_start" \/ (id = "record_toggle" /\ ~d.recording)
      stops  == id = "record_stop" \/ (id = "record_toggle" /\ d.recording)
      plays  == id \in {"rec_review", "play"}
      halts  == starts \/ id = "stop_playback"
  IN  [recording |-> starts \/ (d.recording /\ ~stops),
       playback |-> plays \/ (d.playback /\ ~halts),
       left |-> IF plays THEN PlaybackHold ELSE IF halts THEN NoDeadline ELSE d.left]

(* A verified review that fails after its Play was accepted leaves Play's. *)
ShownOnFailure(d, id) == IF VerifiedReview(id) THEN {d, Shown(d, "play")} ELSE {d}

Expired(d) ==
  IF d.playback /\ d.left = 0 THEN [d EXCEPT !.playback = FALSE, !.left = NoDeadline] ELSE d

(* A polled value replaces what is shown, and playback has no deadline.    *)
ShownByPoll(d, id, raw) ==
  CASE id = "recording" -> [d EXCEPT !.recording = TextBool(raw, d.recording)]
    [] id = "playback" -> [d EXCEPT !.playback = TextBool(raw, d.playback), !.left = NoDeadline]
    [] OTHER -> d

-----------------------------------------------------------------------------
(* What the macro reads from the store                                     *)

LinkAvailable == config.dryRun \/ link

FreshState(id) == Fresh(id, config.telemetryFreshMs)
FreshStateSince(id) == FreshSince(id, config.telemetryFreshMs, macroAge)

HaveStateDrivenReplay == \E id \in {"ready", "writing", "recording"} : FreshState(id)

(* ready decides, without it writing, without both recording; only samples *)
(* set since the STOP returned count.                                      *)
CameraReadyForReview ==
  \/ FreshStateSince("ready") /\ BoolValue("ready", FALSE)
  \/ /\ ~FreshStateSince("ready")
     /\ FreshStateSince("writing") /\ ~BoolValue("writing", TRUE)
  \/ /\ ~FreshStateSince("ready") /\ ~FreshStateSince("writing")
     /\ FreshStateSince("recording") /\ ~BoolValue("recording", TRUE)

-----------------------------------------------------------------------------
(* execute(): commands of the HTTP, TCP and VSM interfaces                 *)

(* Slip: the caller does not take the lock. *)
ManualCommandUnlocked(id) ==
  /\ CpuFree
  /\ Send(Manual, id)
  /\ UNCHANGED <<owner, engineVars, display>>

ManualCommand(id) ==
  /\ CpuFree
  /\ Acquire(Manual)
  /\ Send(Manual, id)
  /\ UNCHANGED <<engineVars, display>>

ManualReturn ==
  /\ call.by = Manual
  /\ \/ CallSucceeds /\ display' = Shown(display, call.id)
     \/ CallFails /\ display' \in ShownOnFailure(display, call.id)
  /\ call' = NoCall
  /\ Release(Manual)
  /\ UNCHANGED engineVars

StopReplayCommand ==
  /\ CpuFree
  /\ Acquire(StopReplay)
  /\ Send(StopReplay, "record_stop")
  /\ UNCHANGED <<engineVars, display>>

(* The macro starts its clocks when the STOP has returned. *)
MacroStarts ==
  /\ CallSucceeds
  /\ macroState' = IF HaveStateDrivenReplay THEN "ObserveStop" ELSE "FallbackDelay"
  /\ macroAge' = 0
  /\ minReview' = config.replayDelayMs
  /\ macroPhase' = IF HaveStateDrivenReplay THEN "WAIT_CAMERA_STATE" ELSE "WAIT_DELAY"
  /\ macroBusy' = TRUE
  /\ display' = [Shown(display, "record_stop") EXCEPT !.recording = FALSE]
  /\ UNCHANGED owner

StopReturns ==
  /\ call.by = StopReplay /\ call.id = "record_stop"
  /\ call' = NoCall
  /\ \/ MacroStarts
     \/ CallFails /\ Release(StopReplay) /\ UNCHANGED <<engineVars, display>>

-----------------------------------------------------------------------------
(* The macro                                                               *)

(* macroStartedMs and minReviewMs are dead once the macro is idle. *)
FinishMacro(phase) ==
  /\ macroState' = "Idle" /\ macroAge' = 0 /\ minReview' = 0
  /\ macroPhase' = phase
  /\ macroBusy' = FALSE
  /\ Release(StopReplay)

AbortStopReplay ==
  /\ CpuFree
  /\ macroState # "Idle" /\ owner = StopReplay
  /\ FinishMacro("ABORTED")
  /\ UNCHANGED <<call, display>>

(* One pass of loop(); every pass first expires the playback display. *)
IdlePass ==
  /\ CpuFree
  /\ macroState = "Idle"
  /\ display' = Expired(display)
  /\ UNCHANGED <<engineVars, call, owner>>

MacroPass ==
  /\ CpuFree
  /\ macroState # "Idle"
  /\ display' = Expired(display)

MacroLinkLost ==
  /\ MacroPass
  /\ ~LinkAvailable
  /\ FinishMacro("ERROR")
  /\ UNCHANGED call

MacroExpired == macroAge > config.replayTimeoutMs

MacroTimesOut ==
  /\ MacroPass
  /\ LinkAvailable
  /\ MacroExpired
  /\ FinishMacro("ERROR")
  /\ UNCHANGED call

MacroLive ==
  /\ MacroPass
  /\ LinkAvailable
  /\ ~MacroExpired
  /\ UNCHANGED <<macroAge, minReview, macroBusy, owner>>

Watching == macroState \in {"ObserveStop", "WaitReady"}

(* dispatchLatestClipPlayback, on the camera's word or on the timer. *)
ReviewDue == macroAge >= minReview

MacroReview ==
  /\ MacroLive
  /\ ReviewDue
  /\ \/ Watching /\ CameraReadyForReview /\ macroState' = "WaitReady" /\ macroPhase' = "CAMERA_READY"
     \/ macroState = "FallbackDelay" /\ macroPhase' = "WAIT_DELAY" /\ UNCHANGED macroState
  /\ Send(StopReplay, "rec_review")

MacroHoldsBack ==
  /\ MacroLive
  /\ ~ReviewDue
  /\ \/ Watching /\ CameraReadyForReview /\ macroState' = "WaitReady" /\ macroPhase' = "CAMERA_READY"
     \/ macroState = "FallbackDelay" /\ macroPhase' = "WAIT_DELAY" /\ UNCHANGED macroState
  /\ UNCHANGED call

(* Not ready: keep watching, or fall back once all feedback is stale. *)
MacroWatches ==
  /\ MacroLive
  /\ Watching
  /\ ~CameraReadyForReview
  /\ \/ /\ HaveStateDrivenReplay
        /\ macroPhase' = IF FreshStateSince("writing") /\ BoolValue("writing", FALSE)
                           THEN "WRITING" ELSE "WAIT_CAMERA_STATE"
        /\ UNCHANGED macroState
     \/ /\ ~HaveStateDrivenReplay
        /\ macroState' = "FallbackDelay"
        /\ macroPhase' = "WAIT_DELAY"
  /\ UNCHANGED call

ReviewReturns ==
  /\ call.by = StopReplay /\ call.id = "rec_review"
  /\ call' = NoCall
  /\ \/ /\ CallSucceeds
        /\ display' = Shown(display, "rec_review")
        /\ FinishMacro("PLAYBACK_VERIFIED")
     \/ /\ CallFails
        /\ display' \in ShownOnFailure(display, "rec_review")
        /\ FinishMacro("ERROR")

MacroLoop ==
  \/ MacroLinkLost
  \/ MacroTimesOut
  \/ MacroReview
  \/ MacroHoldsBack
  \/ MacroWatches

CommandReturns == ManualReturn \/ StopReturns \/ ReviewReturns

EngineStep ==
  /\ \/ CommandReturns
     \/ /\ \/ \E id \in Commands : ManualCommand(id)
           \/ StopReplayCommand
           \/ AbortStopReplay
           \/ IdlePass
           \/ MacroLoop
        /\ UNCHANGED wire
  /\ UNCHANGED <<config, camera, link, sample>>

-----------------------------------------------------------------------------
(* The environment                                                         *)

(* The camera acts on the command that is under way and, over /linear,     *)
(* answers it; a verified review is answered only by the probe of its      *)
(* playback.                                                               *)
CameraObeys ==
  /\ ~CpuFree
  /\ ~call.obeyed
  /\ link /\ ~config.dryRun /\ Configured(call.id)
  /\ camera' = Obeyed(camera, ActualId(call.id))
  /\ call' = [call EXCEPT !.obeyed = TRUE]
  /\ wire' = IF OverLinear(call.id) /\ ~VerifiedReview(call.id)
               THEN Append(wire, Answer) ELSE wire
  /\ UNCHANGED <<link, sample>>

ReviewProbed == call.obeyed /\ VerifiedReview(call.id) /\ ~AnswerWaits

(* Slip: the probe is content with any status. *)
ProbeAnsweredAnyway ==
  /\ ReviewProbed
  /\ link
  /\ wire' = Append(wire, Answer)
  /\ UNCHANGED <<call, camera, link, sample>>

(* waitForPlayback asks until the status is Playing. *)
ProbeAnswered ==
  /\ ReviewProbed
  /\ link /\ camera = "Playing"
  /\ wire' = Append(wire, Answer)
  /\ UNCHANGED <<call, camera, link, sample>>

(* Notifications are read by loop() and while a call waits for its answer. *)
Listening == CpuFree \/ (~config.dryRun /\ OverLinear(call.id))

(* A telemetry poll, made by loop() only. *)
PollState ==
  /\ CpuFree
  /\ \E id \in Polled : \E raw \in PollAnswers(id) :
       Poll(id, raw) /\ display' = ShownByPoll(display, id, raw)

CameraStep ==
  /\ \/ CameraObeys /\ UNCHANGED display
     \/ ProbeAnswered /\ UNCHANGED display
     \/ UNCHANGED <<call, display>> /\ (CameraSettles \/ LinkChanges \/ SessionEnds \/ Notify)
     \/ UNCHANGED <<call, display>> /\ Listening /\ ReadNotification
     \/ UNCHANGED call /\ PollState
  /\ UNCHANGED <<owner, config, engineVars>>

EngineTick ==
  /\ StoreTick
  /\ macroAge' = IF macroState = "Idle" THEN macroAge ELSE Older(macroAge, MacroHorizon)
  /\ display' = IF display.left > 0 THEN [display EXCEPT !.left = @ - 1] ELSE display
  /\ call' = IF CpuFree THEN call ELSE [call EXCEPT !.elapsed = TRUE]
  /\ UNCHANGED <<owner, config, camera, link, wire, macroState, minReview, macroPhase, macroBusy>>
-----------------------------------------------------------------------------
(* The engine with no other owner of the camera                            *)

engineAll == <<owner, sample, camera, link, wire, config, call, display,
               macroState, macroAge, minReview, macroPhase, macroBusy>>

EngineOnlyInit ==
  /\ owner = None
  /\ config \in Configs
  /\ StoreInit /\ CameraInit /\ EngineInit

EngineOnlyNext == EngineStep \/ CameraStep \/ EngineTick

(* loop() runs for ever, the clock advances, and every camera call is      *)
(* bounded by its timeout; commands, the camera and the link owe nothing.  *)
EngineFairness ==
  /\ WF_engineAll(EngineTick)
  /\ WF_engineAll(EngineStep /\ MacroLoop)
  /\ WF_engineAll(EngineStep /\ CommandReturns)

EngineOnlySpec ==
  EngineOnlyInit /\ [][EngineOnlyNext]_engineAll /\ EngineFairness

-----------------------------------------------------------------------------
(* Properties                                                              *)

EngineTypeOK ==
  /\ owner \in Owners
  /\ sample \in [StateIds -> Sample]
  /\ camera \in Conditions /\ link \in BOOLEAN
  /\ wire \in Seq(Conditions \cup {Answer})
  /\ config \in Configs
  /\ call \in Call
  /\ macroState \in MacroStates
  /\ macroAge \in 0..MacroHorizon
  /\ minReview \in Nat
  /\ macroPhase \in Phases /\ macroBusy \in BOOLEAN
  /\ display \in Display

(* The macro runs exactly while StopReplay holds the camera: from the STOP *)
(* it sends to every way it can end, and macroBusy says so.  A path that   *)
(* ends the macro and keeps the lock would refuse every later command.     *)
(* Its call before it runs is the STOP, its call while it runs the review. *)
MacroHoldsArbiter ==
  /\ owner = StopReplay <=> macroState # "Idle" \/ call.by = StopReplay
  /\ macroBusy <=> macroState # "Idle"
  /\ call.by = StopReplay => call.id = IF macroState = "Idle" THEN "record_stop" ELSE "rec_review"

(* A blocking camera call belongs to the operation that holds the camera,  *)
(* all the way to its return, and a manual command holds it no longer.     *)
CallerOwnsArbiter ==
  /\ ~CpuFree => call.by = owner /\ owner # None
  /\ owner = Manual <=> call.by = Manual

(* No answer outlives its call: after a failure, a timeout or a lost link  *)
(* no later command can be taken for acknowledged by an earlier one's.     *)
AnswerIsForCall == AnswerWaits => call.obeyed

(* While the macro waits for its review the UI never shows "recording":    *)
(* the STOP cleared it, the lock keeps every record command out, and what  *)
(* a poll reports cannot bring it back.  A dry run stops no camera.        *)
ReplayNeverShowsRecording == macroState # "Idle" /\ ~config.dryRun => ~display.recording

(* Whatever feedback the camera gives, delayed, stale or garbled, the      *)
(* review that ready or writing feedback releases is sent only once the    *)
(* camera has really closed the clip.  A dry run sends nothing.            *)
ReviewAfterCameraSettled ==
  [][ call'.id = "rec_review" /\ call'.by = StopReplay /\ CpuFree /\ Watching /\ ~config.dryRun
      /\ (FreshStateSince("ready") \/ FreshStateSince("writing"))
        => camera \notin {"Recording", "Writing"} ]_engineAll

(* Where the review is the verified one, PLAYBACK_VERIFIED is reported     *)
(* only of a camera that is done with recording and with writing the clip: *)
(* its Set and Play were acknowledged and the camera said that it plays.   *)
(* A dry run reports it of no camera.                                      *)
VerifiedReviewMeansPlayback ==
  [][ macroState # "Idle" /\ ~config.dryRun /\ config.verifies /\ macroPhase' = "PLAYBACK_VERIFIED"
        => camera \notin {"Recording", "Writing"} ]_engineAll

(* "report PLAYBACK_VERIFIED only after its acknowledged Set, explicit     *)
(* Play, and P.Clip.Mediabox.Status=Playing gate complete" (CHANGELOG:8):  *)
(* whatever rec_review is mapped to, it cannot be reported of a camera     *)
(* that is still recording or writing.                                     *)
VerifiedMeansPlayback ==
  [][ macroState # "Idle" /\ ~config.dryRun /\ macroPhase' = "PLAYBACK_VERIFIED"
        => camera \notin {"Recording", "Writing"} ]_engineAll
=============================================================================
