------------------------ MODULE CommandEngine_proofs ------------------------
(***************************************************************************)
(* Proofs about the command engine, for any set of commands, any           *)
(* configuration, any timeouts and any camera feedback.                    *)
(***************************************************************************)
EXTENDS CommandEngine, TLAPS

-----------------------------------------------------------------------------
(* Owners                                                                  *)

(* The numbering of owners keeps the operations apart.                     *)
LEMMA OwnersDiffer ==
  /\ None \in Owners /\ Manual \in Owners /\ StopReplay \in Owners /\ FirmwareUpdate \in Owners
  /\ Manual # None /\ StopReplay # None /\ FirmwareUpdate # None
  /\ Manual # StopReplay /\ Manual # FirmwareUpdate /\ StopReplay # FirmwareUpdate
  /\ \A s \in Slots : /\ SequenceOwner(s) \in Owners
                      /\ SequenceOwner(s) \notin {None, Manual, StopReplay, FirmwareUpdate}
                      /\ IsSequence(SequenceOwner(s))
  /\ \A r, s \in Slots : SequenceOwner(r) = SequenceOwner(s) => r = s
BY SlotCountAssumption
   DEF None, Manual, StopReplay, FirmwareUpdate, Owners, SequenceOwner, Slots, IsSequence

(* Only the slots' owners are sequences.                                   *)
LEMMA SequenceOwners ==
  ASSUME NEW o \in Owners, IsSequence(o)
  PROVE  \E s \in Slots : o = SequenceOwner(s)
<1> DEFINE s == o - StopReplay
<1>1. s \in Slots /\ o = SequenceOwner(s)
      BY SlotCountAssumption
         DEF None, StopReplay, FirmwareUpdate, Owners, SequenceOwner, Slots, IsSequence
<1> QED
    BY <1>1

-----------------------------------------------------------------------------
(* The data the operators return                                           *)

(* A command's effect on the display is a display.                         *)
LEMMA ShownType ==
  ASSUME NEW d \in Display, NEW id
  PROVE  Shown(d, id) \in Display /\ ShownOnFailure(d, id) \subseteq Display
<1>1. \A i : Shown(d, i) \in Display
      BY CommandAssumption DEF Shown, Display, NoDeadline
<1> QED
    BY <1>1 DEF ShownOnFailure

(* So is what a poll makes of it.                                          *)
LEMMA ShownByPollType ==
  ASSUME NEW d \in Display, NEW id, NEW raw \in Raws
  PROVE  ShownByPoll(d, id, raw) \in Display
<1>1. \A b \in BOOLEAN : TextBool(raw, b) \in BOOLEAN
      BY DEF TextBool
<1>2. NoDeadline \in NoDeadline..PlaybackHold
      BY CommandAssumption DEF NoDeadline
<1>3. [d EXCEPT !.recording = TextBool(raw, d.recording)] \in Display
      BY <1>1 DEF Display
<1>4. [d EXCEPT !.playback = TextBool(raw, d.playback), !.left = NoDeadline] \in Display
      BY <1>1, <1>2 DEF Display
<1> QED
    BY <1>3, <1>4 DEF ShownByPoll

(* And so is the display once its deadline has passed.                     *)
LEMMA ExpiredType ==
  ASSUME NEW d \in Display
  PROVE  Expired(d) \in Display
<1>1. NoDeadline \in NoDeadline..PlaybackHold
      BY CommandAssumption DEF NoDeadline
<1> QED
    BY <1>1 DEF Expired, Display

(* Setting samples, and letting them age, keeps them samples.              *)
LEMMA StoreSetType ==
  ASSUME sample \in [StateIds -> Sample], NEW raws, \A i \in DOMAIN raws : raws[i] \in Raws,
         StoreSet(raws)
  PROVE  sample' \in [StateIds -> Sample]
BY SampleHorizonAssumption DEF StoreSet, Sample

LEMMA StoreTickType ==
  ASSUME sample \in [StateIds -> Sample], StoreTick
  PROVE  sample' \in [StateIds -> Sample]
BY SampleHorizonAssumption DEF StoreTick, Aged, Sample, Older

(* What reading from, and sending on, the session's socket leaves there.   *)
Messages == Conditions \cup {Answer}
OneAnswer == \A i, j \in DOMAIN wire : wire[i] = Answer /\ wire[j] = Answer => i = j

LEMMA WireRead ==
  ASSUME wire \in Seq(Messages), wire # <<>>, wire' = Tail(wire)
  PROVE  /\ wire' \in Seq(Messages)
         /\ AnswerWaits' => AnswerWaits
         /\ OneAnswer => OneAnswer'
         /\ OneAnswer /\ Head(wire) = Answer => ~AnswerWaits'
<1>1. /\ wire' \in Seq(Messages)
      /\ \A i \in DOMAIN wire' : i + 1 \in DOMAIN wire /\ wire'[i] = wire[i + 1] /\ i \in Nat /\ i # 0
      /\ Head(wire) = wire[1] /\ 1 \in DOMAIN wire
      OBVIOUS
<1>2. AnswerWaits' => AnswerWaits
      BY <1>1 DEF AnswerWaits
<1>3. OneAnswer => OneAnswer'
      BY <1>1 DEF OneAnswer
<1>4. OneAnswer /\ Head(wire) = Answer => ~AnswerWaits'
      BY <1>1 DEF OneAnswer, AnswerWaits
<1> QED
    BY <1>1, <1>2, <1>3, <1>4

LEMMA WireSent ==
  ASSUME wire \in Seq(Messages), NEW m \in Messages, wire' = Append(wire, m)
  PROVE  /\ wire' \in Seq(Messages)
         /\ AnswerWaits' => AnswerWaits \/ m = Answer
         /\ OneAnswer /\ ~(AnswerWaits /\ m = Answer) => OneAnswer'
<1>1. /\ wire' \in Seq(Messages)
      /\ DOMAIN wire' = 1..Len(wire) + 1 /\ DOMAIN wire = 1..Len(wire) /\ Len(wire) \in Nat
      /\ \A i \in DOMAIN wire : wire'[i] = wire[i]
      /\ wire'[Len(wire) + 1] = m
      OBVIOUS
<1>2. AnswerWaits' => AnswerWaits \/ m = Answer
      BY <1>1 DEF AnswerWaits
<1>3. OneAnswer /\ ~(AnswerWaits /\ m = Answer) => OneAnswer'
      BY <1>1 DEF AnswerWaits, OneAnswer
<1> QED
    BY <1>1, <1>2, <1>3

(* A call's return leaves a session's messages on the wire.                *)
LEMMA ReturnWireType ==
  ASSUME wire \in Seq(Messages), CallSucceeds \/ CallFails
  PROVE  wire' \in Seq(Messages)
<1>1. UNCHANGED wire \/ wire' = <<>> \/ (wire # <<>> /\ wire' = Tail(wire))
      BY DEF CallSucceeds, CallFails
<1>2. <<>> \in Seq(Messages)
      OBVIOUS
<1> QED
    BY <1>1, <1>2, WireRead

-----------------------------------------------------------------------------
(* The inductive invariant                                                 *)

EngineInv == EngineTypeOK /\ MacroHoldsArbiter /\ CallerOwnsArbiter

(* Every end of the macro leaves it idle and the lock free.                *)
LEMMA FinishMacroInv ==
  ASSUME EngineInv, owner = StopReplay, NEW phase \in Phases, FinishMacro(phase),
         call' = NoCall, display' \in Display, wire' \in Seq(Messages),
         UNCHANGED <<config, camera, link, sample>>
  PROVE  EngineInv' /\ owner' = None
<1> USE OwnersDiffer
<1>1. owner' = None
      BY DEF FinishMacro, Release
<1>2. NoCall \in Call /\ NoCall.by = None
      BY DEF NoCall, Call
<1>3. macroState' = "Idle" /\ ~macroBusy' /\ macroBusy' \in BOOLEAN /\ macroPhase' \in Phases
      BY Zenon DEF FinishMacro
<1>4. macroState' \in MacroStates /\ macroAge' \in 0..MacroHorizon /\ minReview' \in Nat
      BY CommandAssumption DEF FinishMacro, MacroStates
<1>5. EngineTypeOK'
      BY <1>1, <1>2, <1>3, <1>4 DEF EngineInv, EngineTypeOK, Messages
<1>6. MacroHoldsArbiter'
      BY <1>1, <1>2, <1>3 DEF MacroHoldsArbiter
<1>7. CallerOwnsArbiter'
      BY <1>1, <1>2 DEF CallerOwnsArbiter, CpuFree
<1> QED
    BY <1>1, <1>5, <1>6, <1>7 DEF EngineInv

(* The engine's own steps.                                                 *)
LEMMA EngineInvStep ==
  ASSUME EngineInv, EngineStep
  PROVE  /\ EngineInv'
         /\ owner' # owner => {owner, owner'} \subseteq {None, Manual, StopReplay}
         /\ owner = None \/ owner' = None \/ owner' = owner
<1> USE OwnersDiffer
<1> USE DEF EngineInv, EngineTypeOK, MacroHoldsArbiter, CallerOwnsArbiter, CpuFree
<1>w. wire' \in Seq(Messages)
  <2>1. CASE UNCHANGED wire
        BY <2>1 DEF Messages
  <2>2. CASE CommandReturns
        BY <2>2, ReturnWireType
           DEF CommandReturns, ManualReturn, StopReturns, MacroStarts, ReviewReturns, Messages
  <2> QED
      BY <2>1, <2>2 DEF EngineStep
<1>0. display \in Display /\ NoCall.by = None /\ NoCall \in Call
      /\ wire' \in Seq(Conditions \cup {Answer})
      /\ UNCHANGED <<config, camera, link, sample>>
      BY <1>w DEF EngineStep, NoCall, Call, Messages
<1> DEFINE Goal == /\ EngineInv'
                   /\ owner' # owner => {owner, owner'} \subseteq {None, Manual, StopReplay}
                   /\ owner = None \/ owner' = None \/ owner' = owner
<1>1. ASSUME NEW id \in Commands, ManualCommand(id)
      PROVE  Goal
      BY <1>0, <1>1 DEF ManualCommand, Acquire, Send, Call, NoCall, engineVars
<1>2. CASE ManualReturn
      BY <1>0, <1>2, ShownType DEF ManualReturn, Release, Call, NoCall, engineVars
<1>3. CASE StopReplayCommand
      BY <1>0, <1>3, CommandAssumption DEF StopReplayCommand, Acquire, Send, Call, NoCall, engineVars
<1>4. CASE StopReturns
  <2>1. CASE MacroStarts
    <3>1. owner' = StopReplay /\ call' = NoCall
          BY <1>0, <1>4, <2>1 DEF StopReturns, MacroStarts, Call
    <3>2. config.replayDelayMs \in Nat /\ [Shown(display, "record_stop") EXCEPT !.recording = FALSE] \in Display
          BY <1>0, ShownType, CommandAssumption DEF Config, Display
    <3>3. macroAge' \in 0..MacroHorizon /\ minReview' \in Nat /\ display' \in Display
          BY <2>1, <3>2, CommandAssumption DEF MacroStarts
    <3>4. macroState' \in MacroStates /\ macroState' # "Idle" /\ macroPhase' \in Phases
          BY <2>1 DEF MacroStarts, MacroStates, Phases
    <3>5. macroBusy' /\ macroBusy' \in BOOLEAN
          BY <2>1, Zenon DEF MacroStarts
    <3> QED
        BY <1>0, <1>4, <3>1, <3>3, <3>4, <3>5 DEF StopReturns
  <2>2. CASE Release(StopReplay) /\ UNCHANGED <<engineVars, display>>
        BY <1>0, <1>4, <2>2 DEF StopReturns, Release, Call, engineVars
  <2> QED
      BY <1>4, <2>1, <2>2 DEF StopReturns
<1>5. CASE AbortStopReplay
  <2>1. owner = StopReplay /\ FinishMacro("ABORTED") /\ "ABORTED" \in Phases
        /\ call' = NoCall /\ display' \in Display
        BY <1>0, <1>5 DEF AbortStopReplay, Phases
  <2> QED
      BY <1>w, <1>0, <2>1, FinishMacroInv
<1>6. Expired(display) \in Display
      BY <1>0, ExpiredType
<1>7. CASE IdlePass
      BY <1>0, <1>6, <1>7 DEF IdlePass, engineVars
<1>8. CASE MacroLoop
  <2>1. CASE MacroLinkLost \/ MacroTimesOut
    <3>1. owner = StopReplay /\ FinishMacro("ERROR") /\ "ERROR" \in Phases
          /\ call' = NoCall /\ display' \in Display
          BY <1>0, <1>6, <2>1 DEF MacroLinkLost, MacroTimesOut, MacroPass, Phases
    <3> QED
        BY <1>w, <1>0, <3>1, FinishMacroInv
  <2>2. CASE MacroReview \/ MacroHoldsBack \/ MacroWatches
    <3>1. macroState # "Idle" /\ MacroLive /\ owner' = owner /\ owner = StopReplay
          BY <2>2 DEF MacroReview, MacroHoldsBack, MacroWatches, MacroLive, MacroPass
    <3>2. macroState' \in MacroStates /\ macroState' # "Idle" /\ macroPhase' \in Phases
          BY <2>2, <3>1 DEF MacroReview, MacroHoldsBack, MacroWatches, MacroStates, Phases, Watching
    <3>3. display' \in Display /\ UNCHANGED <<macroAge, minReview, macroBusy>>
          BY <1>6, <3>1 DEF MacroLive, MacroPass
    <3>4. CASE call' = NoCall
          BY <1>0, <3>1, <3>2, <3>3, <3>4
    <3>5. CASE Send(StopReplay, "rec_review")
      <4>1. call' \in Call /\ call'.by = StopReplay /\ call'.id = "rec_review"
            BY <3>5, CommandAssumption DEF Send, Call
      <4> QED
          BY <1>0, <3>1, <3>2, <3>3, <4>1
    <3>6. call' = NoCall \/ Send(StopReplay, "rec_review")
          BY <2>2 DEF MacroReview, MacroHoldsBack, MacroWatches, MacroLive, MacroPass
    <3> QED
        BY <3>4, <3>5, <3>6
  <2> QED
      BY <1>8, <2>1, <2>2 DEF MacroLoop
<1>9. CASE ReviewReturns
  <2>1. owner = StopReplay /\ call' = NoCall
        BY <1>9, <1>0 DEF ReviewReturns
  <2>2. display' \in Display
        BY <1>0, <1>9, ShownType DEF ReviewReturns
  <2>3. FinishMacro("PLAYBACK_VERIFIED") \/ FinishMacro("ERROR")
        BY <1>9 DEF ReviewReturns
  <2>4. {"PLAYBACK_VERIFIED", "ERROR"} \subseteq Phases
        BY DEF Phases
  <2> QED
      BY <1>w, <1>0, <2>1, <2>2, <2>3, <2>4, FinishMacroInv
<1> QED
    BY <1>1, <1>2, <1>3, <1>4, <1>5, <1>7, <1>8, <1>9 DEF EngineStep, CommandReturns

(* The environment touches neither the lock nor the engine's own state.    *)
LEMMA CameraInvStep ==
  ASSUME EngineInv, CameraStep
  PROVE  EngineInv' /\ UNCHANGED owner
<1> USE DEF EngineInv, EngineTypeOK, MacroHoldsArbiter, CallerOwnsArbiter, CpuFree, engineVars
<1>1. UNCHANGED <<owner, config, engineVars>>
      BY DEF CameraStep
<1>m. wire \in Seq(Messages) /\ Answer \in Messages /\ camera \in Messages
      BY DEF Messages
<1>2. CASE CameraObeys /\ UNCHANGED display
  <2>1. camera' \in Conditions
        BY <1>2 DEF CameraObeys, Obeyed, Conditions
  <2>2. call' \in Call /\ call'.by = call.by /\ call'.id = call.id /\ call' # NoCall
        BY <1>2 DEF CameraObeys, Call, NoCall
  <2>3. wire' \in Seq(Messages)
        BY <1>m, <1>2, WireSent DEF CameraObeys
  <2> QED
      BY <1>1, <1>2, <2>1, <2>2, <2>3 DEF CameraObeys, Messages
<1>3. CASE ProbeAnswered /\ UNCHANGED display
  <2>1. wire' \in Seq(Messages)
        BY <1>m, <1>3, WireSent DEF ProbeAnswered
  <2> QED
      BY <1>1, <1>3, <2>1 DEF ProbeAnswered, Messages
<1>7. CASE UNCHANGED <<call, display>> /\ (CameraSettles \/ LinkChanges \/ SessionEnds \/ Notify)
  <2>1. <<>> \in Seq(Messages)
        OBVIOUS
  <2>2. wire' \in Seq(Messages)
        BY <1>m, <1>7, <2>1, WireSent DEF CameraSettles, LinkChanges, SessionEnds, Notify
  <2>3. camera' \in Conditions /\ link' \in BOOLEAN /\ UNCHANGED <<call, sample, display>>
        BY <1>7 DEF CameraSettles, LinkChanges, SessionEnds, Notify, Conditions
  <2> QED
      BY <1>1, <2>2, <2>3 DEF Messages
<1>4. ASSUME NEW condition, NEW id \in StateIds
      PROVE  Reported(condition)[id] \in Raws
      BY DEF Reported, Text, Raws, StateIds
<1>5. CASE UNCHANGED <<call, display>> /\ Listening /\ ReadNotification
  <2>1. \A id \in DOMAIN Reported(Head(wire)) : Reported(Head(wire))[id] \in Raws
        BY <1>4 DEF Reported
  <2>2. sample' \in [StateIds -> Sample]
        BY <1>5, <2>1, StoreSetType DEF ReadNotification
  <2>3. wire' \in Seq(Messages)
        BY <1>m, <1>5, WireRead DEF ReadNotification
  <2> QED
      BY <1>1, <1>5, <2>2, <2>3 DEF ReadNotification, Messages
<1>6. CASE UNCHANGED call /\ PollState
  <2>0. PICK id \in Polled : \E raw \in PollAnswers(id) :
            Poll(id, raw) /\ display' = ShownByPoll(display, id, raw)
        BY <1>6 DEF PollState
  <2>1. PICK raw \in PollAnswers(id) : Poll(id, raw) /\ display' = ShownByPoll(display, id, raw)
        BY <2>0
  <2>2. raw \in Raws
        BY <1>4, <2>1, FeedbackAssumption DEF PollAnswers, Raws
  <2>3. sample' \in [StateIds -> Sample]
        BY <2>1, <2>2, StoreSetType DEF Poll
  <2>4. display' \in Display
        BY <2>1, <2>2, ShownByPollType
  <2> QED
      BY <1>1, <1>6, <2>1, <2>3, <2>4 DEF Poll
<1> HIDE DEF EngineInv, EngineTypeOK, MacroHoldsArbiter, CallerOwnsArbiter, CpuFree, engineVars
<1> QED
    BY <1>2, <1>3, <1>5, <1>6, <1>7 DEF CameraStep

(* Time ages the engine's clocks and nothing else.                         *)
LEMMA EngineTickInv ==
  ASSUME EngineInv, EngineTick
  PROVE  EngineInv' /\ UNCHANGED owner
<1> USE DEF EngineInv, EngineTypeOK, MacroHoldsArbiter, CallerOwnsArbiter, CpuFree
<1>1. sample' \in [StateIds -> Sample]
      BY StoreTickType DEF EngineTick
<1>2. display' \in Display
      BY CommandAssumption DEF EngineTick, Display, NoDeadline
<1>3. call' \in Call /\ call'.by = call.by /\ call'.id = call.id /\ (call' = NoCall <=> call = NoCall)
      BY DEF EngineTick, Call, NoCall
<1>4. macroAge' \in 0..MacroHorizon
      BY CommandAssumption DEF EngineTick, Older
<1> QED
    BY <1>1, <1>2, <1>3, <1>4 DEF EngineTick

(* The engine starts idle with the camera free.                            *)
LEMMA EngineInvInit ==
  ASSUME owner = None, config \in Configs, StoreInit, CameraInit, EngineInit
  PROVE  EngineInv
<1>1. call = NoCall /\ NoCall \in Call /\ NoCall.by = None
      BY OwnersDiffer DEF EngineInit, NoCall, Call
<1>2. sample \in [StateIds -> Sample]
      BY SampleHorizonAssumption DEF StoreInit, NoSample, Sample, Raws
<1>3. camera \in Conditions /\ link \in BOOLEAN
      BY Zenon DEF CameraInit, Conditions
<1>6. wire \in Seq(Conditions \cup {Answer})
      BY DEF CameraInit
<1>4. macroState = "Idle" /\ macroState \in MacroStates /\ ~macroBusy /\ macroBusy \in BOOLEAN
      BY Zenon DEF EngineInit, MacroStates
<1>5. macroPhase \in Phases /\ display \in Display /\ macroAge \in 0..MacroHorizon /\ minReview \in Nat
      BY CommandAssumption DEF EngineInit, Phases, Display, BlankDisplay, NoDeadline
<1> QED
    BY <1>1, <1>2, <1>3, <1>4, <1>5, <1>6, OwnersDiffer
       DEF EngineInv, EngineTypeOK, MacroHoldsArbiter, CallerOwnsArbiter, CpuFree

(* The engine on its own keeps its invariant.                              *)
THEOREM EngineInvariant == EngineOnlySpec => []EngineInv
<1>1. EngineOnlyInit => EngineInv
      BY EngineInvInit DEF EngineOnlyInit
<1>2. EngineInv /\ [EngineOnlyNext]_engineAll => EngineInv'
  <2> SUFFICES ASSUME EngineInv, [EngineOnlyNext]_engineAll
               PROVE  EngineInv'
      OBVIOUS
  <2>1. CASE UNCHANGED engineAll
        BY <2>1 DEF engineAll, EngineInv, EngineTypeOK, MacroHoldsArbiter, CallerOwnsArbiter, CpuFree
  <2> QED
      BY <2>1, EngineInvStep, CameraInvStep, EngineTickInv DEF EngineOnlyNext
<1> QED
    BY <1>1, <1>2, PTL DEF EngineOnlySpec

(* The macro holds the camera lock exactly while it runs, on every path    *)
(* out of execute(), loop(), abortStopReplay() and the macro's endings.    *)
THEOREM MacroAlwaysHoldsArbiter == EngineOnlySpec => []MacroHoldsArbiter
<1>1. EngineInv => MacroHoldsArbiter
      BY DEF EngineInv
<1> QED
    BY <1>1, EngineInvariant, PTL

(* Every camera call is made, and returns, under its operation's lock.     *)
THEOREM CallerAlwaysOwnsArbiter == EngineOnlySpec => []CallerOwnsArbiter
<1>1. EngineInv => CallerOwnsArbiter
      BY DEF EngineInv
<1> QED
    BY <1>1, EngineInvariant, PTL

-----------------------------------------------------------------------------
(* What the macro shows and reports                                        *)

(* Every configuration has a stop command of its own.                      *)
StopsAreMapped == \A c \in Configs : "record_stop" \in c.mapped

(* From the moment it obeyed the macro's STOP until the macro ends, the    *)
(* camera does not record.                                                 *)
ReplayInv ==
  ~config.dryRun =>
    /\ macroState # "Idle" => ~display.recording /\ camera # "Recording"
    /\ macroState = "Idle" /\ call.by = StopReplay /\ call.obeyed => camera # "Recording"

(* The review and what stands in for it start no recording.                *)
LEMMA ReviewStartsNoRecording ==
  ASSUME CameraObeys, camera # "Recording", call.id = "rec_review"
  PROVE  camera' # "Recording"
<1>1. ActualId(call.id) = "rec_review"
      BY DEF ActualId, Fallback
<1> QED
    BY <1>1 DEF CameraObeys, Obeyed

LEMMA ReplayInvStep ==
  ASSUME StopsAreMapped, EngineInv, ReplayInv, [EngineOnlyNext]_engineAll
  PROVE  ReplayInv'
<1> USE OwnersDiffer
<1> USE DEF ReplayInv, CpuFree
<1>1. /\ macroState # "Idle" => owner = StopReplay
      /\ owner = Manual <=> call.by = Manual
      /\ call # NoCall => call.by = owner
      /\ call.by = StopReplay => call.id = IF macroState = "Idle" THEN "record_stop" ELSE "rec_review"
      /\ display \in Display /\ call \in Call /\ config \in Configs
      /\ NoCall.by = None
      BY DEF EngineInv, EngineTypeOK, MacroHoldsArbiter, CallerOwnsArbiter, CpuFree, NoCall
<1>2. CASE EngineStep
  <2>1. UNCHANGED <<config, camera>>
        BY <1>2 DEF EngineStep
  <2>2. CASE \E id \in Commands : ManualCommand(id)
        BY <1>1, <2>1, <2>2 DEF ManualCommand, Acquire, Send, engineVars
  <2>3. CASE ManualReturn
        BY <1>1, <2>1, <2>3 DEF ManualReturn, engineVars
  <2>4. CASE StopReplayCommand
        BY <1>1, <2>1, <2>4 DEF StopReplayCommand, Acquire, Send, engineVars
  <2>5. CASE StopReturns
    <3>1. CASE MacroStarts
      <4>1. Shown(display, "record_stop") \in Display
            BY <1>1, ShownType
      <4>2. ~display'.recording
            BY <3>1, <4>1 DEF MacroStarts, Display
      <4>3. ~config.dryRun => call.obeyed
            BY <3>1 DEF MacroStarts, CallSucceeds
      <4> QED
          BY <1>1, <2>1, <2>5, <4>2, <4>3 DEF StopReturns
    <3>2. CASE UNCHANGED <<engineVars, display>>
          BY <1>1, <2>1, <2>5, <3>2 DEF StopReturns, engineVars
    <3> QED
        BY <2>5, <3>1, <3>2 DEF StopReturns
  <2>6. CASE AbortStopReplay \/ ReviewReturns \/ MacroLinkLost \/ MacroTimesOut
    <3>1. macroState' = "Idle" /\ call' = NoCall
          BY <2>6 DEF AbortStopReplay, ReviewReturns, MacroLinkLost, MacroTimesOut, MacroPass, FinishMacro
    <3> QED
        BY <1>1, <2>1, <3>1
  <2>7. Expired(display).recording = display.recording
        BY <1>1 DEF Expired, Display
  <2>8. CASE IdlePass
        BY <1>1, <2>1, <2>8 DEF IdlePass, engineVars
  <2>9. CASE MacroReview \/ MacroHoldsBack \/ MacroWatches
    <3>1. macroState # "Idle" /\ macroState' # "Idle" /\ display'.recording = display.recording
          BY <2>7, <2>9
             DEF MacroReview, MacroHoldsBack, MacroWatches, MacroLive, MacroPass, Watching
    <3> QED
        BY <2>1, <3>1
  <2> QED
      BY <1>2, <2>2, <2>3, <2>4, <2>5, <2>6, <2>8, <2>9 DEF EngineStep, CommandReturns, MacroLoop
<1>3. CASE CameraStep
  <2>1. UNCHANGED <<config, macroState>>
        BY <1>3 DEF CameraStep, engineVars
  <2>2. CASE CameraObeys /\ UNCHANGED display
    <3>1. call'.by = call.by /\ call # NoCall
          BY <1>1, <2>2 DEF CameraObeys, Call
    <3>2. CASE macroState # "Idle"
      <4>1. call.by = StopReplay /\ call.id = "rec_review"
            BY <1>1, <3>1, <3>2
      <4>2. camera # "Recording" /\ ~config.dryRun => camera' # "Recording"
            BY <2>2, <4>1, ReviewStartsNoRecording
      <4> QED
          BY <2>1, <2>2, <3>2, <4>2
    <3>3. CASE macroState = "Idle" /\ call.by = StopReplay
      <4>1. call.id = "record_stop" /\ ActualId(call.id) = "record_stop"
            BY <1>1, <3>3 DEF ActualId, StopsAreMapped
      <4>2. camera' # "Recording"
            BY <2>2, <4>1 DEF CameraObeys, Obeyed
      <4> QED
          BY <2>1, <3>3, <4>2
    <3>4. CASE macroState = "Idle" /\ call.by # StopReplay
          BY <2>1, <3>1, <3>4
    <3> QED
        BY <3>2, <3>3, <3>4
  <2>3. CASE UNCHANGED <<call, display>> /\ (camera' = camera \/ camera' = "Standby")
        BY <2>1, <2>3
  <2>4. CASE UNCHANGED call /\ PollState
    <3>0. PICK id \in Polled : \E raw \in PollAnswers(id) :
              UNCHANGED camera /\ display' = ShownByPoll(display, id, raw)
          BY <2>4 DEF PollState, Poll
    <3>1. PICK raw \in PollAnswers(id) :
              UNCHANGED camera /\ display' = ShownByPoll(display, id, raw)
          BY <3>0
    <3>2. camera # "Recording" /\ id = "recording" => raw # "true"
          BY <3>1, FeedbackAssumption DEF PollAnswers, Reported, Text, StateIds
    <3>3. camera # "Recording" /\ ~display.recording => ~display'.recording
          BY <1>1, <3>1, <3>2 DEF ShownByPoll, TextBool, Display
    <3> QED
        BY <2>1, <2>4, <3>1, <3>3
  <2> QED
      BY <1>3, <2>2, <2>3, <2>4
         DEF CameraStep, ProbeAnswered, CameraSettles, LinkChanges, SessionEnds, Notify, ReadNotification
<1>4. CASE EngineTick
  <2>1. /\ display'.recording = display.recording /\ UNCHANGED <<config, camera, macroState>>
        /\ call'.by = call.by /\ call'.obeyed = call.obeyed
        BY <1>1, <1>4 DEF EngineTick, Display, Call
  <2> QED
      BY <2>1
<1>5. CASE UNCHANGED engineAll
      BY <1>5 DEF engineAll
<1> QED
    BY <1>2, <1>3, <1>4, <1>5 DEF EngineOnlyNext

(* PLAYBACK_VERIFIED ends a macro: while one runs, another phase shows.    *)
PhaseInv == macroState # "Idle" => macroPhase # "PLAYBACK_VERIFIED"

LEMMA PhaseInvStep ==
  ASSUME EngineInv, PhaseInv, [EngineOnlyNext]_engineAll
  PROVE  PhaseInv'
<1> USE DEF PhaseInv
<1>1. ASSUME UNCHANGED engineVars PROVE PhaseInv'
      BY <1>1 DEF engineVars
<1>2. CASE EngineStep
  <2>1. CASE StopReturns
        BY <1>1, <2>1 DEF StopReturns, MacroStarts
  <2>2. CASE AbortStopReplay \/ ReviewReturns \/ MacroLinkLost \/ MacroTimesOut
        BY <2>2 DEF AbortStopReplay, ReviewReturns, MacroLinkLost, MacroTimesOut, FinishMacro
  <2>3. CASE MacroReview \/ MacroHoldsBack \/ MacroWatches
        BY <2>3 DEF MacroReview, MacroHoldsBack, MacroWatches
  <2>4. CASE ManualReturn \/ StopReplayCommand \/ IdlePass \/ \E id \in Commands : ManualCommand(id)
        BY <1>1, <2>4 DEF ManualReturn, StopReplayCommand, IdlePass, ManualCommand
  <2> QED
      BY <1>2, <2>1, <2>2, <2>3, <2>4 DEF EngineStep, CommandReturns, MacroLoop
<1>3. CASE CameraStep
      BY <1>1, <1>3 DEF CameraStep
<1>4. CASE EngineTick \/ UNCHANGED engineAll
      BY <1>4 DEF EngineTick, engineAll
<1> QED
    BY <1>2, <1>3, <1>4 DEF EngineOnlyNext

-----------------------------------------------------------------------------
(* Answers                                                                 *)

(* The answer on the wire is that of the command under way, which the      *)
(* camera has acted on; there is one at most; and a review's is there only *)
(* when its playback was seen.                                             *)
AnswerInv ==
  /\ call.obeyed => Configured(call.id) /\ ~config.dryRun
  /\ AnswerWaits => call.obeyed /\ OverLinear(call.id)
  /\ OneAnswer
  /\ AnswerWaits /\ VerifiedReview(call.id) => camera \notin {"Recording", "Writing"}

(* A returning call leaves no answer behind.                               *)
LEMMA ReturnTakesAnswer ==
  ASSUME EngineTypeOK, AnswerInv, CallSucceeds \/ CallFails
  PROVE  ~AnswerWaits' /\ OneAnswer'
<1>1. CASE UNCHANGED wire /\ ~AnswerWaits
      BY <1>1 DEF AnswerInv, OneAnswer, AnswerWaits
<1>2. CASE wire' = <<>>
      BY <1>2 DEF AnswerWaits, OneAnswer
<1>3. CASE wire # <<>> /\ Head(wire) = Answer /\ wire' = Tail(wire)
      BY <1>3, WireRead DEF AnswerInv, EngineTypeOK, Messages
<1> QED
    BY <1>1, <1>2, <1>3 DEF CallSucceeds, CallFails, AnswerInv

(* A verified review that the camera acted on runs over /linear.           *)
LEMMA VerifiedRunsOverLinear ==
  ASSUME EngineTypeOK, Configured(call.id), VerifiedReview(call.id)
  PROVE  OverLinear(call.id)
BY CommandAssumption DEF EngineTypeOK, OverLinear, VerifiedReview, ActualId, Fallback, Configured

LEMMA AnswerInvStep ==
  ASSUME EngineTypeOK, AnswerInv, [EngineOnlyNext]_engineAll
  PROVE  AnswerInv'
<1>1. ~NoCall.obeyed /\ call \in Call /\ wire \in Seq(Messages) /\ config \in Config
      BY CommandAssumption DEF NoCall, EngineTypeOK, Messages
<1>2. ASSUME UNCHANGED <<config, wire, camera>>, CpuFree, ~call'.obeyed
      PROVE  AnswerInv'
      BY <1>1, <1>2 DEF AnswerInv, AnswerWaits, OneAnswer, CpuFree
<1>3. ASSUME UNCHANGED config, call'.obeyed = call.obeyed, call'.id = call.id,
             AnswerWaits' => AnswerWaits, OneAnswer',
             camera' \in {"Recording", "Writing"} => camera \in {"Recording", "Writing"}
      PROVE  AnswerInv'
      BY <1>3 DEF AnswerInv, Configured, ActualId, OverLinear, VerifiedReview
<1>4. CASE EngineStep
  <2>1. CASE CommandReturns
    <3>1. (CallSucceeds \/ CallFails) /\ call' = NoCall /\ UNCHANGED config
          BY <1>4, <2>1 DEF EngineStep, CommandReturns, ManualReturn, StopReturns, MacroStarts, ReviewReturns
    <3> QED
        BY <1>1, <3>1, ReturnTakesAnswer DEF AnswerInv
  <2>2. CASE /\ \/ \E id \in Commands : ManualCommand(id)
                \/ StopReplayCommand \/ AbortStopReplay \/ IdlePass \/ MacroLoop
             /\ UNCHANGED wire
    <3>1. CpuFree /\ ~call'.obeyed /\ UNCHANGED <<config, wire, camera>>
      <4>1. CpuFree /\ UNCHANGED <<config, wire, camera>>
            BY <1>4, <2>2
               DEF EngineStep, ManualCommand, StopReplayCommand, AbortStopReplay, IdlePass, MacroLoop,
                   MacroLinkLost, MacroTimesOut, MacroReview, MacroHoldsBack, MacroWatches, MacroLive,
                   MacroPass
      <4>2. UNCHANGED call \/ \E by, id : Send(by, id)
            BY <2>2
               DEF ManualCommand, StopReplayCommand, AbortStopReplay, IdlePass, MacroLoop,
                   MacroLinkLost, MacroTimesOut, MacroReview, MacroHoldsBack, MacroWatches
      <4>3. ~call'.obeyed
            BY <1>1, <4>1, <4>2 DEF Send, CpuFree
      <4> QED
          BY <4>1, <4>3
    <3> QED
        BY <1>2, <3>1
  <2> QED
      BY <1>4, <2>1, <2>2 DEF EngineStep
<1>5. CASE CameraStep
  <2>0. UNCHANGED config /\ Answer \in Messages /\ camera \in Messages /\ camera # Answer
        BY <1>5 DEF CameraStep, EngineTypeOK, Messages, Conditions, Answer
  <2>1. CASE CameraObeys
    <3>1. /\ call'.obeyed /\ call'.id = call.id /\ ~AnswerWaits
          /\ Configured(call.id) /\ ~config.dryRun
          BY <1>1, <2>1 DEF CameraObeys, Call, AnswerInv
    <3>2. CASE OverLinear(call.id) /\ ~VerifiedReview(call.id)
      <4>1. OneAnswer'
            BY <1>1, <2>0, <2>1, <3>1, <3>2, WireSent DEF CameraObeys, AnswerInv
      <4> QED
          BY <2>0, <3>1, <3>2, <4>1
             DEF AnswerInv, Configured, ActualId, OverLinear, VerifiedReview
    <3>3. CASE UNCHANGED wire
      <4>1. ~AnswerWaits' /\ OneAnswer'
            BY <3>1, <3>3 DEF AnswerInv, AnswerWaits, OneAnswer
      <4> QED
          BY <2>0, <3>1, <4>1 DEF AnswerInv, Configured, ActualId
    <3> QED
        BY <2>1, <3>2, <3>3 DEF CameraObeys
  <2>2. CASE ProbeAnswered
    <3>1. /\ call.obeyed /\ VerifiedReview(call.id) /\ ~AnswerWaits
          /\ camera' = "Playing" /\ UNCHANGED call
          BY <2>2 DEF ProbeAnswered, ReviewProbed
    <3>2. OneAnswer'
          BY <1>1, <2>0, <2>2, <3>1, WireSent DEF ProbeAnswered, AnswerInv
    <3>3. OverLinear(call.id) /\ Configured(call.id) /\ ~config.dryRun
          BY <3>1, VerifiedRunsOverLinear DEF AnswerInv
    <3> QED
        BY <2>0, <3>1, <3>2, <3>3
           DEF AnswerInv, Configured, ActualId, OverLinear, VerifiedReview
  <2>3. CASE UNCHANGED call /\ Notify
    <3>1. OneAnswer' /\ (AnswerWaits' => AnswerWaits) /\ UNCHANGED camera
          BY <1>1, <2>0, <2>3, WireSent DEF Notify, AnswerInv
    <3> QED
        BY <1>3, <2>0, <2>3, <3>1
  <2>4. CASE UNCHANGED call /\ ReadNotification
    <3>1. OneAnswer' /\ (AnswerWaits' => AnswerWaits) /\ UNCHANGED camera
          BY <1>1, <2>4, WireRead DEF ReadNotification, AnswerInv
    <3> QED
        BY <1>3, <2>0, <2>4, <3>1
  <2>5. CASE UNCHANGED call /\ SessionEnds
    <3>1. OneAnswer' /\ ~AnswerWaits' /\ UNCHANGED camera
          BY <2>5 DEF SessionEnds, AnswerWaits, OneAnswer
    <3> QED
        BY <1>3, <2>0, <2>5, <3>1
  <2>6. CASE UNCHANGED <<call, wire>> /\ (camera' = "Standby" \/ camera' = camera)
    <3>1. OneAnswer' /\ (AnswerWaits' => AnswerWaits)
          BY <2>6 DEF AnswerInv, AnswerWaits, OneAnswer
    <3> QED
        BY <1>3, <2>0, <2>6, <3>1
  <2> QED
      BY <1>5, <2>1, <2>2, <2>3, <2>4, <2>5, <2>6
         DEF CameraStep, CameraSettles, LinkChanges, PollState, Poll
<1>6. CASE EngineTick \/ UNCHANGED engineAll
  <2>1. UNCHANGED <<config, wire, camera>> /\ call'.obeyed = call.obeyed /\ call'.id = call.id
        BY <1>1, <1>6 DEF EngineTick, engineAll, Call
  <2>2. OneAnswer' /\ (AnswerWaits' => AnswerWaits)
        BY <2>1 DEF AnswerInv, AnswerWaits, OneAnswer
  <2> QED
      BY <1>3, <2>1, <2>2
<1> QED
    BY <1>4, <1>5, <1>6 DEF EngineOnlyNext

(* The engine on its own keeps them all.                                   *)
LEMMA AnswerInvariant == EngineOnlySpec => [](EngineInv /\ AnswerInv /\ PhaseInv)
<1>1. EngineOnlyInit => AnswerInv /\ PhaseInv
      BY DEF EngineOnlyInit, EngineInit, CameraInit, PhaseInv, AnswerInv, NoCall, AnswerWaits, OneAnswer
<1>2. EngineInv /\ AnswerInv /\ PhaseInv /\ [EngineOnlyNext]_engineAll => AnswerInv' /\ PhaseInv'
      BY AnswerInvStep, PhaseInvStep DEF EngineInv
<1> QED
    BY <1>1, <1>2, EngineInvariant, PTL DEF EngineOnlySpec

(* Where STOP has a mapping of its own, no path of the macro and no poll   *)
(* shows "recording" after its STOP was taken.                             *)
THEOREM ReplayAlwaysHidesRecording ==
  ASSUME StopsAreMapped
  PROVE  EngineOnlySpec => []ReplayNeverShowsRecording
<1>1. EngineOnlyInit => ReplayInv
      BY OwnersDiffer DEF EngineOnlyInit, EngineInit, ReplayInv, NoCall
<1>2. EngineInv /\ ReplayInv /\ [EngineOnlyNext]_engineAll => ReplayInv'
      BY StopsAreMapped, ReplayInvStep
<1>3. ReplayInv => ReplayNeverShowsRecording
      BY DEF ReplayInv, ReplayNeverShowsRecording
<1> QED
    BY <1>1, <1>2, <1>3, EngineInvariant, PTL DEF EngineOnlySpec

(* Whatever fails, times out or is cut off, no command is ever taken for   *)
(* acknowledged by the answer to an earlier one.                           *)
THEOREM AnswerIsAlwaysForCall == EngineOnlySpec => []AnswerIsForCall
<1>1. AnswerInv => AnswerIsForCall
      BY DEF AnswerInv, AnswerIsForCall
<1> QED
    BY <1>1, AnswerInvariant, PTL

(* PLAYBACK_VERIFIED that a verified review leads to is reported only of a *)
(* camera that is done with recording and with writing the clip, whatever  *)
(* else the configurations are (CommandEngine.cpp:83-175, 338-345).        *)
THEOREM VerifiedAlwaysMeansPlayback == EngineOnlySpec => VerifiedReviewMeansPlayback
<1> DEFINE Verified == macroState # "Idle" /\ ~config.dryRun /\ config.verifies
                         /\ macroPhase' = "PLAYBACK_VERIFIED"
                         => camera \notin {"Recording", "Writing"}
<1>1. ASSUME EngineInv, PhaseInv, AnswerInv, [EngineOnlyNext]_engineAll,
             macroState # "Idle", ~config.dryRun, config.verifies, macroPhase' = "PLAYBACK_VERIFIED"
      PROVE  camera \notin {"Recording", "Writing"}
  <2>1. macroPhase' # macroPhase
        BY <1>1 DEF PhaseInv
  <2>2. EngineStep
        BY <1>1, <2>1 DEF EngineOnlyNext, CameraStep, EngineTick, engineAll, engineVars
  <2>3. owner = StopReplay /\ owner # None /\ call.by # Manual
        BY <1>1, OwnersDiffer DEF EngineInv, MacroHoldsArbiter, CallerOwnsArbiter
  <2>4. call.by = StopReplay => call.id # "record_stop"
        BY <1>1 DEF EngineInv, MacroHoldsArbiter
  <2>5. ReviewReturns
        BY <1>1, <2>1, <2>2, <2>3, <2>4
           DEF EngineStep, CommandReturns, ManualCommand, ManualReturn, StopReplayCommand, Acquire,
               StopReturns, AbortStopReplay, IdlePass, MacroLoop, MacroLinkLost, MacroTimesOut,
               MacroReview, MacroHoldsBack, MacroWatches, FinishMacro, engineVars
  <2>6. CallSucceeds /\ VerifiedReview(call.id)
        BY <1>1, <2>5 DEF ReviewReturns, FinishMacro, VerifiedReview, EngineInv, EngineTypeOK
  <2>7. call.obeyed /\ OverLinear(call.id)
        BY <1>1, <2>6, VerifiedRunsOverLinear DEF CallSucceeds, AnswerInv, EngineInv
  <2>8. wire # <<>> /\ Head(wire) = Answer
        BY <1>1, <2>6, <2>7 DEF CallSucceeds
  <2>9. AnswerWaits
        BY <1>1, <2>8 DEF AnswerWaits, EngineInv, EngineTypeOK
  <2> QED
      BY <1>1, <2>6, <2>9 DEF AnswerInv
<1>2. EngineInv /\ PhaseInv /\ AnswerInv /\ [EngineOnlyNext]_engineAll => [Verified]_engineAll
      BY <1>1
<1> QED
    BY <1>2, AnswerInvariant, PTL DEF EngineOnlySpec, VerifiedReviewMeansPlayback

-----------------------------------------------------------------------------
(* What the camera's feedback is worth                                     *)

Unsettled == camera \in {"Recording", "Writing"}
Starts == {"record_start", "record_toggle"}

(* What starts a recording is sent over /linear, as every default mapping  *)
(* is: its answer is read behind all that the session sent before.         *)
StartsOverLinear == \A c \in Configs : c.http \cap Starts = {}

StartUnderWay == call.obeyed /\ ActualId(call.id) \in Starts

AnswerBehind(w) ==
  \A i \in DOMAIN w : w[i] = "Standby" => \E j \in DOMAIN w : i < j /\ w[j] = Answer
NoStandby(w) == \A i \in DOMAIN w : w[i] # "Standby"

(* While the camera records or writes, a "Standby" that was not read yet   *)
(* is from before the start, whose call returns only behind it.            *)
StandbyPassed == Unsettled => NoStandby(wire) \/ (StartUnderWay /\ AnswerBehind(wire))

(* Reading a message disturbs neither, nor does sending another one; and   *)
(* an answer is behind all that was sent before it.                        *)
LEMMA BehindRead ==
  ASSUME NEW w \in Seq(Messages), w # <<>>
  PROVE  /\ NoStandby(w) => NoStandby(Tail(w))
         /\ AnswerBehind(w) => AnswerBehind(Tail(w))
<1>1. /\ DOMAIN w = 1..Len(w) /\ DOMAIN Tail(w) = 1..Len(w) - 1 /\ Len(w) \in Nat
      /\ \A i \in DOMAIN Tail(w) : Tail(w)[i] = w[i + 1] /\ i + 1 \in DOMAIN w
      OBVIOUS
<1>2. NoStandby(w) => NoStandby(Tail(w))
      BY <1>1 DEF NoStandby
<1>3. ASSUME AnswerBehind(w), NEW i \in DOMAIN Tail(w), Tail(w)[i] = "Standby"
      PROVE  \E j \in DOMAIN Tail(w) : i < j /\ Tail(w)[j] = Answer
  <2>1. PICK j \in DOMAIN w : i + 1 < j /\ w[j] = Answer
        BY <1>1, <1>3 DEF AnswerBehind
  <2>2. j - 1 \in DOMAIN Tail(w) /\ i < j - 1 /\ Tail(w)[j - 1] = w[j]
        BY <1>1, <2>1
  <2> QED
      BY <2>1, <2>2
<1> QED
    BY <1>2, <1>3 DEF AnswerBehind

LEMMA BehindSent ==
  ASSUME NEW w \in Seq(Messages), NEW m \in Messages
  PROVE  /\ m # "Standby" /\ NoStandby(w) => NoStandby(Append(w, m))
         /\ m # "Standby" /\ AnswerBehind(w) => AnswerBehind(Append(w, m))
         /\ m = Answer => AnswerBehind(Append(w, m))
<1> DEFINE v == Append(w, m)
<1>1. /\ DOMAIN w = 1..Len(w) /\ DOMAIN v = 1..Len(w) + 1 /\ Len(w) \in Nat
      /\ \A i \in DOMAIN w : v[i] = w[i] /\ i \in DOMAIN v
      /\ \A i \in DOMAIN v : i \in DOMAIN w \/ i = Len(w) + 1
      /\ v[Len(w) + 1] = m
      OBVIOUS
<1> HIDE DEF v
<1>2. m # "Standby" /\ NoStandby(w) => NoStandby(v)
      BY <1>1 DEF NoStandby
<1>3. m # "Standby" /\ AnswerBehind(w) => AnswerBehind(v)
      BY <1>1 DEF AnswerBehind
<1>4. ASSUME m = Answer, NEW i \in DOMAIN v, v[i] = "Standby"
      PROVE  \E j \in DOMAIN v : i < j /\ v[j] = Answer
  <2>1. i < Len(w) + 1
        BY <1>1, <1>4 DEF Answer
  <2> QED
      BY <1>1, <1>4, <2>1
<1>5. m = Answer => AnswerBehind(v)
      BY <1>4 DEF AnswerBehind
<1> QED
    BY <1>2, <1>3, <1>5 DEF v

(* A call's return takes the answer, and with it all that came before.     *)
LEMMA ReturnPassesStandby ==
  ASSUME StartsOverLinear, EngineTypeOK, AnswerInv, StandbyPassed, Unsettled,
         CallSucceeds \/ CallFails
  PROVE  NoStandby(wire')
<1>1. wire \in Seq(Messages) /\ config \in Configs /\ config \in Config
      BY CommandAssumption DEF EngineTypeOK, Messages
<1>2. CASE wire' = <<>>
      BY <1>2 DEF NoStandby
<1>3. CASE NoStandby(wire)
  <2>1. wire' = wire \/ wire' = <<>> \/ (wire # <<>> /\ wire' = Tail(wire))
        BY DEF CallSucceeds, CallFails
  <2> QED
      BY <1>1, <1>2, <1>3, <2>1, BehindRead
<1>4. CASE StartUnderWay /\ AnswerBehind(wire)
  <2>1. call.obeyed /\ Configured(call.id) /\ ~config.dryRun
        BY <1>4 DEF StartUnderWay, AnswerInv
  <2>2. ActualId(call.id) \notin config.http
        BY <1>1, <1>4 DEF StartsOverLinear, StartUnderWay
  <2>3. OverLinear(call.id)
        BY <2>1, <2>2 DEF OverLinear
  <2>4. CASE wire' = wire /\ ~AnswerWaits
        BY <1>4, <2>4 DEF AnswerBehind, AnswerWaits, NoStandby
  <2>5. CASE wire # <<>> /\ Head(wire) = Answer /\ wire' = Tail(wire)
    <3>1. 1 \in DOMAIN wire /\ wire[1] = Answer /\ \A i \in DOMAIN wire : i \in Nat /\ i >= 1
          BY <1>1, <2>5
    <3>2. NoStandby(wire)
          BY <1>4, <3>1 DEF AnswerBehind, NoStandby, AnswerInv, OneAnswer
    <3> QED
        BY <1>3, <3>2
  <2> QED
      BY <1>2, <2>1, <2>3, <2>4, <2>5 DEF CallSucceeds, CallFails
<1> QED
    BY <1>3, <1>4 DEF StandbyPassed

LEMMA StandbyPassedStep ==
  ASSUME StartsOverLinear, EngineTypeOK, AnswerInv, StandbyPassed, [EngineOnlyNext]_engineAll
  PROVE  StandbyPassed'
<1>1. /\ ~NoCall.obeyed /\ call \in Call /\ wire \in Seq(Messages) /\ camera \in Messages
      /\ config \in Configs /\ config \in Config /\ Answer \in Messages /\ Answer # "Standby"
      BY CommandAssumption DEF NoCall, EngineTypeOK, Messages, Answer
<1>2. Unsettled => NoStandby(wire) \/ (StartUnderWay /\ AnswerBehind(wire))
      BY DEF StandbyPassed
<1>3. ASSUME Unsettled' => NoStandby(wire') \/ (StartUnderWay' /\ AnswerBehind(wire'))
      PROVE  StandbyPassed'
      BY <1>3 DEF StandbyPassed, NoStandby, AnswerBehind
<1>4. ASSUME UNCHANGED config, call'.obeyed = call.obeyed, call'.id = call.id
      PROVE  StartUnderWay' = StartUnderWay
      BY <1>4 DEF StartUnderWay, ActualId
<1>5. CASE EngineStep
  <2>1. UNCHANGED <<config, camera>>
        BY <1>5 DEF EngineStep
  <2>2. CASE CommandReturns
    <3>1. CallSucceeds \/ CallFails
          BY <2>2 DEF CommandReturns, ManualReturn, StopReturns, MacroStarts, ReviewReturns
    <3>2. Unsettled' => NoStandby(wire')
          BY <2>1, <3>1, ReturnPassesStandby DEF Unsettled
    <3> QED
        BY <1>3, <3>2
  <2>3. CASE /\ \/ \E id \in Commands : ManualCommand(id)
                \/ StopReplayCommand \/ AbortStopReplay \/ IdlePass \/ MacroLoop
             /\ UNCHANGED wire
    <3>1. CpuFree
          BY <2>3
             DEF ManualCommand, StopReplayCommand, AbortStopReplay, IdlePass, MacroLoop,
                 MacroLinkLost, MacroTimesOut, MacroReview, MacroHoldsBack, MacroWatches, MacroLive,
                 MacroPass
    <3>2. Unsettled' => NoStandby(wire')
          BY <1>1, <1>2, <2>1, <2>3, <3>1 DEF Unsettled, StartUnderWay, CpuFree
    <3> QED
        BY <1>3, <3>2
  <2> QED
      BY <1>5, <2>2, <2>3 DEF EngineStep
<1>6. CASE CameraStep
  <2>0. UNCHANGED config
        BY <1>6 DEF CameraStep
  <2>1. CASE CameraObeys
    <3>1. ~call.obeyed /\ call'.obeyed /\ call'.id = call.id /\ Configured(call.id)
          /\ camera' = Obeyed(camera, ActualId(call.id))
          BY <1>1, <2>1 DEF CameraObeys, Call
    <3>2. CASE Unsettled
      <4>1. NoStandby(wire)
            BY <1>2, <3>1, <3>2 DEF StartUnderWay
      <4>2. NoStandby(wire')
            BY <1>1, <2>1, <4>1, BehindSent DEF CameraObeys
      <4> QED
          BY <1>3, <4>2
    <3>3. CASE ~Unsettled /\ Unsettled'
      <4>1. ActualId(call.id) \in Starts
            BY <3>1, <3>3 DEF Unsettled, Obeyed, Starts
      <4>2. OverLinear(call.id)
            BY <1>1, <3>1, <4>1 DEF OverLinear, StartsOverLinear
      <4>3. ~VerifiedReview(call.id)
            BY <4>1 DEF VerifiedReview, ActualId, Fallback, Starts
      <4>4. wire' = Append(wire, Answer)
            BY <2>1, <4>2, <4>3 DEF CameraObeys
      <4>5. AnswerBehind(wire')
            BY <1>1, <4>4, BehindSent
      <4>6. StartUnderWay'
            BY <2>0, <3>1, <4>1 DEF StartUnderWay, ActualId
      <4> QED
          BY <1>3, <4>5, <4>6
    <3> QED
        BY <1>3, <3>2, <3>3
  <2>2. CASE UNCHANGED call /\ UNCHANGED camera /\ \E m \in Messages \ {"Standby"} : wire' = Append(wire, m)
    <3>1. Unsettled' => NoStandby(wire') \/ (StartUnderWay /\ AnswerBehind(wire'))
          BY <1>1, <1>2, <2>2, BehindSent DEF Unsettled
    <3> QED
        BY <1>3, <1>4, <2>0, <2>2, <3>1
  <2>3. CASE UNCHANGED call /\ UNCHANGED camera /\ wire # <<>> /\ wire' = Tail(wire)
    <3>1. Unsettled' => NoStandby(wire') \/ (StartUnderWay /\ AnswerBehind(wire'))
          BY <1>1, <1>2, <2>3, BehindRead DEF Unsettled
    <3> QED
        BY <1>3, <1>4, <2>0, <2>3, <3>1
  <2>4. CASE wire' = <<>> \/ ~Unsettled'
        BY <1>3, <2>4 DEF NoStandby
  <2>5. CASE UNCHANGED <<call, wire, camera>>
        BY <1>2, <1>3, <1>4, <2>0, <2>5 DEF Unsettled
  <2>6. CASE UNCHANGED call /\ Notify
    <3>1. UNCHANGED camera /\ wire' = Append(wire, camera)
          BY <2>6 DEF Notify
    <3>2. CASE camera = "Standby"
          BY <2>4, <3>1, <3>2 DEF Unsettled
    <3>3. CASE camera # "Standby"
          BY <1>1, <2>2, <2>6, <3>1, <3>3
    <3> QED
        BY <3>2, <3>3
  <2>7. CASE ProbeAnswered
        BY <1>1, <2>2, <2>7 DEF ProbeAnswered
  <2>8. CASE UNCHANGED call /\ (CameraSettles \/ LinkChanges \/ SessionEnds)
        BY <2>4, <2>5, <2>8 DEF CameraSettles, LinkChanges, SessionEnds, Unsettled
  <2>9. CASE UNCHANGED call /\ ReadNotification
        BY <2>3, <2>9 DEF ReadNotification
  <2>10. CASE UNCHANGED call /\ PollState
         BY <2>5, <2>10 DEF PollState, Poll
  <2> QED
      BY <1>6, <2>1, <2>6, <2>7, <2>8, <2>9, <2>10 DEF CameraStep
<1>7. CASE EngineTick \/ UNCHANGED engineAll
  <2>1. UNCHANGED <<config, wire, camera>> /\ call'.obeyed = call.obeyed /\ call'.id = call.id
        BY <1>1, <1>7 DEF EngineTick, engineAll, Call
  <2> QED
      BY <1>2, <1>3, <1>4, <2>1 DEF Unsettled
<1> QED
    BY <1>5, <1>6, <1>7 DEF EngineOnlyNext

(* Once time has passed since a call began that starts no recording, a     *)
(* ready sample of age 0, which was read during the call, is the truth.    *)
Now(id) == sample[id].valid /\ sample[id].age = 0

NewsOfCall ==
  ~CpuFree /\ call.elapsed /\ ActualId(call.id) \notin Starts =>
    (Now("ready") /\ sample["ready"].raw = "true" => ~Unsettled)

LEMMA SampleTypes ==
  ASSUME EngineTypeOK, NEW id \in StateIds
  PROVE  /\ sample[id].valid \in BOOLEAN /\ sample[id].raw \in Raws
         /\ sample[id].age \in Nat /\ sample[id].age <= SampleHorizon
BY SampleHorizonAssumption DEF EngineTypeOK, Sample

(* Once time has passed, nothing was read just now.                        *)
LEMMA NothingIsNow ==
  ASSUME EngineTypeOK, EngineTick, NEW id \in StateIds
  PROVE  /\ sample'[id].valid = sample[id].valid /\ sample'[id].raw = sample[id].raw
         /\ sample[id].valid => sample'[id].age # 0
                               /\ sample'[id].age = Older(sample[id].age, SampleHorizon)
<1>1. sample'[id] = Aged(sample[id])
      BY DEF EngineTick, StoreTick
<1>2. sample[id].age \in Nat
      BY SampleTypes
<1>3. Older(sample[id].age, SampleHorizon) # 0
      BY <1>2, SampleHorizonAssumption DEF Older
<1> QED
    BY <1>1, <1>3 DEF Aged

(* A notification read while no start is under way is not an old "Standby".*)
LEMMA NotificationIsNews ==
  ASSUME EngineTypeOK, StandbyPassed, ReadNotification, ~StartUnderWay
  PROVE  /\ \A id \in StateIds : sample'[id].valid /\ sample'[id].age = 0
         /\ sample'["ready"].raw = "true" => ~Unsettled
<1>1. wire \in Seq(Messages) /\ wire # <<>> /\ Head(wire) = wire[1] /\ 1 \in DOMAIN wire
      BY DEF EngineTypeOK, Messages, ReadNotification
<1>2. Unsettled => Head(wire) # "Standby"
      BY <1>1 DEF StandbyPassed, NoStandby
<1>3. sample' = [id \in StateIds |->
                   [valid |-> TRUE, raw |-> Reported(Head(wire))[id], age |-> 0]]
      BY DEF ReadNotification, StoreSet, Reported
<1>4. Reported(Head(wire))["ready"] = "true" => Head(wire) = "Standby"
      BY DEF Reported, Text, StateIds
<1> QED
    BY <1>2, <1>3, <1>4 DEF StateIds

(* What is polled is the truth, or no text the store knows.                *)
LEMMA PollIsTrue ==
  ASSUME NEW id \in Polled, NEW raw \in PollAnswers(id), id = "ready", raw = "true"
  PROVE  ~Unsettled
BY DEF PollAnswers, Reported, Text, StateIds, Unsettled

LEMMA NewsOfCallStep ==
  ASSUME EngineTypeOK, StandbyPassed, NewsOfCall, [EngineOnlyNext]_engineAll
  PROVE  NewsOfCall'
<1>0. call \in Call /\ ~NoCall.elapsed /\ "ready" \in StateIds
      BY DEF EngineTypeOK, NoCall, StateIds
<1>1. ASSUME ~call'.elapsed \/ call' = NoCall
      PROVE  NewsOfCall'
      BY <1>1 DEF NewsOfCall, CpuFree
<1>2. CASE EngineStep
  <2>1. call' = NoCall \/ (CpuFree /\ UNCHANGED call) \/ \E by, id : Send(by, id)
        BY <1>2
           DEF EngineStep, CommandReturns, ManualReturn, StopReturns, ReviewReturns, ManualCommand,
               StopReplayCommand, AbortStopReplay, IdlePass, MacroLoop, MacroLinkLost,
               MacroTimesOut, MacroReview, MacroHoldsBack, MacroWatches, MacroLive, MacroPass
  <2> QED
      BY <1>0, <1>1, <2>1 DEF Send, CpuFree
<1>3. CASE EngineTick
  <2>1. ~(Now("ready"))'
        BY <1>0, <1>3, NothingIsNow DEF Now
  <2> QED
      BY <2>1 DEF NewsOfCall, Now
<1>4. ASSUME UNCHANGED <<config, sample>>, call'.id = call.id, call'.elapsed = call.elapsed,
             ~CpuFree, ActualId(call.id) \notin Starts => (~Unsettled => ~Unsettled')
      PROVE  NewsOfCall'
      BY <1>4 DEF NewsOfCall, Now, ActualId
<1>5. CASE UNCHANGED <<config, sample, call>> /\ (camera' = camera \/ camera' = "Standby")
      BY <1>5 DEF NewsOfCall, Now, ActualId, Unsettled, CpuFree
<1>6. CASE CameraStep
  <2>0. UNCHANGED config
        BY <1>6 DEF CameraStep
  <2>1. CASE CameraObeys
    <3>1. UNCHANGED sample /\ ~CpuFree /\ call'.id = call.id /\ call'.elapsed = call.elapsed
          BY <1>0, <2>1 DEF CameraObeys, Call
    <3>2. ActualId(call.id) \notin Starts => (~Unsettled => ~Unsettled')
          BY <2>1 DEF CameraObeys, Obeyed, Starts, Unsettled
    <3> QED
        BY <1>4, <2>0, <3>1, <3>2
  <2>2. CASE UNCHANGED call /\ ReadNotification
    <3>1. CASE ActualId(call.id) \notin Starts
      <4>1. ~StartUnderWay
            BY <3>1 DEF StartUnderWay
      <4>2. sample'["ready"].raw = "true" => ~Unsettled
            BY <2>2, <4>1, NotificationIsNews
      <4> QED
          BY <2>0, <2>2, <4>2 DEF NewsOfCall, ReadNotification, Unsettled
    <3>2. CASE ActualId(call.id) \in Starts
          BY <2>0, <2>2, <3>2 DEF NewsOfCall, ActualId
    <3> QED
        BY <3>1, <3>2
  <2>3. CASE UNCHANGED call /\ PollState
        BY <1>0, <1>1, <2>3 DEF PollState, CpuFree
  <2>4. CASE /\ UNCHANGED <<call, sample>>
             /\ camera' = camera \/ camera' = "Standby"
        BY <1>5, <2>0, <2>4
  <2> QED
      BY <1>6, <2>1, <2>2, <2>3, <2>4
         DEF CameraStep, ProbeAnswered, CameraSettles, LinkChanges, SessionEnds, Notify
<1>7. CASE UNCHANGED engineAll
      BY <1>5, <1>7 DEF engineAll
<1> QED
    BY <1>2, <1>3, <1>6, <1>7 DEF EngineOnlyNext

(* During the macro's STOP every notification sets ready beside writing.   *)
StopUnderWay == call.by = StopReplay /\ macroState = "Idle"

NewsOfStop == StopUnderWay /\ call.elapsed /\ Now("writing") => Now("ready")

(* So while the macro runs what is fresh and no older than the STOP's      *)
(* return is true of the camera; writing by itself only if ready was not   *)
(* set after it.                                                           *)
NewsOfReplay ==
  macroState # "Idle" =>
    /\ FreshStateSince("ready") /\ sample["ready"].raw = "true" => ~Unsettled
    /\ FreshStateSince("writing") /\ sample["writing"].raw = "false"
         => \/ ~Unsettled
            \/ sample["ready"].valid /\ sample["ready"].age <= sample["writing"].age

NewsInv ==
  /\ StandbyPassed /\ NewsOfCall
  /\ ~config.dryRun => NewsOfStop /\ NewsOfReplay

(* The macro's calls are its STOP, which has a mapping, and its review.    *)
LEMMA MacroStartsNothing ==
  ASSUME StopsAreMapped, EngineInv, StopUnderWay \/ macroState # "Idle"
  PROVE  ~StartUnderWay
<1> USE OwnersDiffer DEF EngineInv, EngineTypeOK, MacroHoldsArbiter, CallerOwnsArbiter, CpuFree
<1>1. ~NoCall.obeyed
      BY DEF NoCall
<1>2. call = NoCall \/ call.by = StopReplay
      BY DEF StopUnderWay
<1>3. call.by = StopReplay => call.id \in {"record_stop", "rec_review"}
      OBVIOUS
<1>4. ActualId("record_stop") = "record_stop" /\ ActualId("rec_review") = "rec_review"
      BY DEF ActualId, Fallback, StopsAreMapped
<1> QED
    BY <1>1, <1>2, <1>3, <1>4 DEF StartUnderWay, Starts

(* So while it is at work the camera does not become unsettled.            *)
LEMMA MacroSettles ==
  ASSUME StopsAreMapped, EngineInv, CameraObeys, StopUnderWay \/ macroState # "Idle",
         ~Unsettled
  PROVE  ~Unsettled'
<1> USE OwnersDiffer DEF EngineInv, EngineTypeOK, MacroHoldsArbiter, CallerOwnsArbiter, CpuFree
<1>1. call.by = StopReplay
      BY DEF StopUnderWay, CameraObeys
<1>2. call.id \in {"record_stop", "rec_review"}
      BY <1>1
<1>3. ActualId(call.id) = call.id
      BY <1>2 DEF ActualId, Fallback, StopsAreMapped
<1> QED
    BY <1>2, <1>3 DEF CameraObeys, Obeyed, Unsettled

(* What is fresh since the STOP after a tick was so before it.             *)
LEMMA FreshBeforeTick ==
  ASSUME EngineTypeOK, EngineTick, macroState # "Idle", NEW id \in StateIds,
         FreshStateSince(id)'
  PROVE  FreshStateSince(id)
<1>1. config \in Config /\ config.telemetryFreshMs < SampleHorizon /\ UNCHANGED config
      /\ config.telemetryFreshMs \in Nat
      BY CommandAssumption DEF EngineTypeOK, Config, EngineTick
<1>2. sample[id].age \in Nat /\ sample[id].age <= SampleHorizon /\ SampleHorizon \in Nat
      BY SampleTypes, SampleHorizonAssumption
<1>3. macroAge \in Nat /\ macroAge <= MacroHorizon /\ MacroHorizon \in Nat
      /\ macroAge' = Older(macroAge, MacroHorizon)
      BY CommandAssumption DEF EngineTypeOK, EngineTick
<1>4. /\ sample'[id].valid /\ sample'[id].age <= config.telemetryFreshMs
      /\ sample'[id].age <= macroAge'
      BY <1>1 DEF FreshStateSince, FreshSince, Fresh
<1>5. sample[id].valid /\ sample'[id].age = Older(sample[id].age, SampleHorizon)
      BY <1>4, NothingIsNow
<1>6. sample[id].age <= config.telemetryFreshMs /\ sample[id].age <= macroAge
      BY <1>1, <1>2, <1>3, <1>4, <1>5 DEF Older
<1> QED
    BY <1>5, <1>6 DEF FreshStateSince, FreshSince, Fresh

(* The STOP's return turns the one kind of news into the other.            *)
LEMMA NewsAtStart ==
  ASSUME StopsAreMapped, EngineTypeOK, NewsOfCall, NewsOfStop, StopUnderWay, MacroStarts,
         call.id = "record_stop", ~config.dryRun, UNCHANGED <<config, camera, sample>>
  PROVE  NewsOfReplay'
<1>1. call.elapsed /\ ~CpuFree /\ ActualId(call.id) \notin Starts
      BY OwnersDiffer
         DEF MacroStarts, CallSucceeds, StopUnderWay, CpuFree, NoCall, StopsAreMapped, ActualId,
             Starts, EngineTypeOK
<1>2. ASSUME NEW id \in StateIds, FreshStateSince(id)'
      PROVE  Now(id)
  <2>1. /\ macroAge' = 0 /\ sample'[id].valid /\ sample'[id].age <= macroAge'
        BY <1>2 DEF MacroStarts, FreshStateSince, FreshSince, Fresh
  <2> QED
      BY <2>1, SampleTypes DEF Now
<1>3. {"ready", "writing"} \subseteq StateIds
      BY DEF StateIds
<1>4. FreshStateSince("ready")' /\ sample'["ready"].raw = "true" => ~Unsettled'
      BY <1>1, <1>2, <1>3 DEF NewsOfCall, Unsettled
<1>5. FreshStateSince("writing")' =>
        sample'["ready"].valid /\ sample'["ready"].age <= sample'["writing"].age
      BY <1>1, <1>2, <1>3 DEF NewsOfStop, Now
<1> QED
    BY <1>4, <1>5 DEF NewsOfReplay

(* The engine's own steps read nothing new.                                *)
LEMMA NewsEngineStep ==
  ASSUME StopsAreMapped, EngineInv, NewsOfCall, NewsOfStop, NewsOfReplay, EngineStep,
         ~config.dryRun
  PROVE  NewsOfStop' /\ NewsOfReplay'
<1> USE OwnersDiffer
<1>0. /\ UNCHANGED <<config, camera, sample>> /\ ~NoCall.elapsed /\ NoCall.by = None
      /\ call.by = StopReplay => call.id = IF macroState = "Idle" THEN "record_stop" ELSE "rec_review"
      BY DEF EngineStep, NoCall, EngineInv, MacroHoldsArbiter
<1>1. ASSUME ~call'.elapsed, macroState' # "Idle" => macroState # "Idle", UNCHANGED macroAge
      PROVE  NewsOfStop' /\ NewsOfReplay'
      BY <1>0, <1>1
         DEF NewsOfStop, NewsOfReplay, FreshStateSince, FreshSince, Fresh, Unsettled
<1>2. ASSUME ~call'.elapsed, macroState' = "Idle"
      PROVE  NewsOfStop' /\ NewsOfReplay'
      BY <1>2 DEF NewsOfStop, NewsOfReplay
<1>3. CASE StopReturns
  <2>1. ~call'.elapsed /\ StopUnderWay
        BY <1>0, <1>3 DEF StopReturns, StopUnderWay
  <2>2. CASE MacroStarts
    <3>1. NewsOfReplay'
          BY <1>0, <1>3, <2>1, <2>2, StopsAreMapped, NewsAtStart DEF EngineInv, StopReturns
    <3>2. NewsOfStop'
          BY <2>1 DEF NewsOfStop
    <3> QED
        BY <3>1, <3>2
  <2>3. CASE UNCHANGED <<engineVars, display>>
        BY <1>1, <2>1, <2>3 DEF engineVars
  <2> QED
      BY <1>3, <2>2, <2>3 DEF StopReturns
<1>4. CASE AbortStopReplay \/ ReviewReturns \/ MacroLinkLost \/ MacroTimesOut
  <2>1. macroState' = "Idle"
        BY <1>4 DEF AbortStopReplay, ReviewReturns, MacroLinkLost, MacroTimesOut, FinishMacro
  <2>2. call' = NoCall
        BY <1>4 DEF AbortStopReplay, ReviewReturns, MacroLinkLost, MacroTimesOut, MacroPass, CpuFree
  <2> QED
      BY <1>0, <1>2, <2>1, <2>2
<1>5. CASE MacroReview \/ MacroHoldsBack \/ MacroWatches
  <2>1. macroState # "Idle" /\ UNCHANGED macroAge
        BY <1>5 DEF MacroReview, MacroHoldsBack, MacroWatches, MacroLive, MacroPass
  <2>2. call' = NoCall \/ Send(StopReplay, "rec_review")
        BY <1>5 DEF MacroReview, MacroHoldsBack, MacroWatches, MacroLive, MacroPass, CpuFree
  <2>3. ~call'.elapsed
        BY <1>0, <2>2 DEF Send
  <2> QED
      BY <1>1, <2>1, <2>3
<1>6. CASE \/ StopReplayCommand \/ IdlePass \/ ManualReturn
           \/ \E id \in Commands : ManualCommand(id)
  <2>1. UNCHANGED engineVars
        BY <1>6 DEF StopReplayCommand, IdlePass, ManualReturn, ManualCommand
  <2>2. call' = NoCall \/ \E by, id : Send(by, id)
        BY <1>6 DEF StopReplayCommand, IdlePass, ManualReturn, ManualCommand, CpuFree
  <2>3. ~call'.elapsed
        BY <1>0, <2>2 DEF Send
  <2> QED
      BY <1>1, <2>1, <2>3 DEF engineVars
<1> QED
    BY <1>3, <1>4, <1>5, <1>6 DEF EngineStep, CommandReturns, MacroLoop

(* Nor does time passing make news of what was none.                       *)
LEMMA NewsTick ==
  ASSUME EngineInv, NewsOfReplay, EngineTick
  PROVE  NewsOfStop' /\ NewsOfReplay'
<1>0. EngineTypeOK /\ UNCHANGED <<camera, macroState>> /\ {"ready", "writing"} \subseteq StateIds
      BY DEF EngineInv, EngineTick, StateIds
<1>1. NewsOfStop'
  <2>1. \A id \in {"ready", "writing"} : ~Now(id)'
        BY <1>0, NothingIsNow DEF Now
  <2> QED
      BY <2>1 DEF NewsOfStop, Now
<1>2. CASE macroState # "Idle"
  <2>1. \A id \in {"ready", "writing"} : /\ FreshStateSince(id)' => FreshStateSince(id)
                                        /\ sample'[id].raw = sample[id].raw
                                        /\ sample'[id].valid = sample[id].valid
        BY <1>0, <1>2, FreshBeforeTick, NothingIsNow
  <2>2. ASSUME FreshStateSince("writing")', sample["ready"].valid,
               sample["ready"].age <= sample["writing"].age
        PROVE  sample'["ready"].age <= sample'["writing"].age
    <3>1. /\ sample["ready"].age \in Nat /\ sample["writing"].age \in Nat
          /\ sample["ready"].age <= SampleHorizon /\ sample["writing"].age <= SampleHorizon
          /\ SampleHorizon \in Nat
          BY <1>0, SampleTypes, SampleHorizonAssumption
    <3>2. sample["writing"].valid
          BY <2>1, <2>2 DEF FreshStateSince, FreshSince, Fresh
    <3>3. /\ sample'["ready"].age = Older(sample["ready"].age, SampleHorizon)
          /\ sample'["writing"].age = Older(sample["writing"].age, SampleHorizon)
          BY <1>0, <2>2, <3>2, NothingIsNow
    <3> QED
        BY <2>2, <3>1, <3>3 DEF Older
  <2>3. Unsettled' = Unsettled
        BY <1>0 DEF Unsettled
  <2> QED
      BY <1>1, <1>2, <2>1, <2>2, <2>3 DEF NewsOfReplay
<1>3. CASE macroState = "Idle"
      BY <1>0, <1>1, <1>3 DEF NewsOfReplay
<1> QED
    BY <1>1, <1>2, <1>3

(* A poll is made between calls: what it sets is the camera's word, and    *)
(* while the macro runs the camera does not record.                        *)
LEMMA NewsPoll ==
  ASSUME EngineInv, ReplayInv, NewsOfReplay, PollState, UNCHANGED <<call, config, macroState, macroAge>>,
         ~config.dryRun
  PROVE  NewsOfStop' /\ NewsOfReplay'
<1>0. EngineTypeOK /\ {"ready", "writing"} \subseteq StateIds /\ "ready" # "writing"
      BY DEF EngineInv, StateIds
<1>1. PICK id \in Polled : \E r \in PollAnswers(id) : Poll(id, r)
      BY DEF PollState
<1>2. PICK raw \in PollAnswers(id) : Poll(id, raw)
      BY <1>1
<1>3. UNCHANGED camera /\ id \in StateIds
      /\ sample' = [i \in StateIds |-> IF i = id THEN [valid |-> TRUE, raw |-> raw, age |-> 0]
                                               ELSE sample[i]]
      BY <1>2, FeedbackAssumption DEF Poll, StoreSet
<1>4. NewsOfStop'
      BY OwnersDiffer DEF PollState, CpuFree, NoCall, NewsOfStop, StopUnderWay
<1>5. CASE macroState = "Idle"
      BY <1>4, <1>5 DEF NewsOfReplay
<1>6. CASE macroState # "Idle"
  <2>1. camera # "Recording"
        BY <1>6 DEF ReplayInv
  <2>2. \A i \in StateIds \ {id} : sample'[i] = sample[i] /\ FreshStateSince(i)' = FreshStateSince(i)
        BY <1>3 DEF FreshStateSince, FreshSince, Fresh
  <2>3. id = "ready" /\ raw = "true" => ~Unsettled
        BY PollIsTrue
  <2>4. id = "writing" /\ raw = "false" => ~Unsettled
        BY <1>2, <2>1 DEF PollAnswers, Reported, Text, StateIds, Unsettled
  <2>5. Unsettled' = Unsettled
        BY <1>3 DEF Unsettled
  <2>6. sample["writing"].age \in Nat
        BY <1>0, SampleTypes
  <2>7. CASE id = "ready"
    <3>1. sample'["ready"].raw = raw /\ sample'["ready"].valid /\ sample'["ready"].age = 0
          /\ sample'["writing"] = sample["writing"]
          BY <1>0, <1>3, <2>7
    <3> QED
        BY <1>4, <2>3, <2>5, <2>6, <2>7, <3>1 DEF NewsOfReplay
  <2>8. CASE id = "writing"
    <3>1. sample'["writing"].raw = raw
          BY <1>0, <1>3, <2>8
    <3> QED
        BY <1>0, <1>4, <1>6, <2>2, <2>4, <2>5, <2>8, <3>1 DEF NewsOfReplay
  <2>9. CASE id \notin {"ready", "writing"}
        BY <1>0, <1>4, <1>6, <2>2, <2>5, <2>9 DEF NewsOfReplay
  <2> QED
      BY <2>7, <2>8, <2>9
<1> QED
    BY <1>4, <1>5, <1>6

LEMMA NewsInvStep ==
  ASSUME StopsAreMapped, StartsOverLinear, EngineInv, ReplayInv, AnswerInv, NewsInv,
         [EngineOnlyNext]_engineAll
  PROVE  NewsInv'
<1>1. StandbyPassed' /\ NewsOfCall'
      BY StandbyPassedStep, NewsOfCallStep DEF NewsInv, EngineInv
<1>2. UNCHANGED config
      BY DEF EngineOnlyNext, EngineStep, CameraStep, EngineTick, engineAll
<1>3. ASSUME ~config.dryRun PROVE NewsOfStop' /\ NewsOfReplay'
  <2>0. NewsOfStop /\ NewsOfReplay /\ StandbyPassed /\ NewsOfCall
        BY <1>3 DEF NewsInv
  <2>1. CASE EngineStep
        BY <1>3, <2>0, <2>1, StopsAreMapped, NewsEngineStep
  <2>2. CASE EngineTick
        BY <2>0, <2>2, NewsTick
  <2>3. ASSUME UNCHANGED <<sample, macroState, macroAge>>,
               call'.by = call.by, call'.elapsed = call.elapsed,
               StopUnderWay \/ macroState # "Idle" => (~Unsettled => ~Unsettled')
        PROVE  NewsOfStop' /\ NewsOfReplay'
        BY <1>2, <2>0, <2>3
           DEF NewsOfStop, NewsOfReplay, StopUnderWay, Now, FreshStateSince, FreshSince, Fresh
  <2>4. CASE UNCHANGED engineAll
        BY <2>3, <2>4 DEF engineAll, Unsettled
  <2>5. CASE CameraStep
    <3>1. UNCHANGED <<macroState, macroAge>>
          BY <2>5 DEF CameraStep, engineVars
    <3>2. CASE CameraObeys
      <4>1. UNCHANGED sample /\ call'.by = call.by /\ call'.elapsed = call.elapsed
            BY <3>2 DEF CameraObeys, EngineInv, EngineTypeOK, Call
      <4> QED
          BY <2>3, <3>1, <3>2, <4>1, MacroSettles
    <3>3. CASE UNCHANGED <<call, sample>> /\ (camera' = camera \/ camera' = "Standby")
          BY <2>3, <3>1, <3>3 DEF Unsettled
    <3>4. CASE UNCHANGED call /\ PollState
          BY <1>2, <1>3, <2>0, <3>1, <3>4, NewsPoll
    <3>5. CASE UNCHANGED call /\ ReadNotification
      <4>1. CASE StopUnderWay \/ macroState # "Idle"
        <5>0. ~StartUnderWay
              BY <4>1, StopsAreMapped, MacroStartsNothing
        <5>1. /\ \A id \in StateIds : sample'[id].valid /\ sample'[id].age = 0
              /\ sample'["ready"].raw = "true" => ~Unsettled
              /\ UNCHANGED camera
              BY <2>0, <3>5, <5>0, NotificationIsNews DEF ReadNotification, EngineInv
        <5>2. {"ready", "writing"} \subseteq StateIds
              BY DEF StateIds
        <5> QED
            BY <5>1, <5>2 DEF NewsOfStop, NewsOfReplay, Now, Unsettled
      <4>2. CASE ~StopUnderWay /\ macroState = "Idle"
            BY <3>1, <3>5, <4>2 DEF NewsOfStop, NewsOfReplay, StopUnderWay
      <4> QED
          BY <4>1, <4>2
    <3> QED
        BY <2>5, <3>2, <3>3, <3>4, <3>5
           DEF CameraStep, ProbeAnswered, CameraSettles, LinkChanges, SessionEnds, Notify
  <2> QED
      BY <2>1, <2>2, <2>4, <2>5 DEF EngineOnlyNext
<1> QED
    BY <1>1, <1>2, <1>3 DEF NewsInv

(* However late, stale or garbled the feedback: where STOP has a mapping   *)
(* and what starts a recording goes over /linear, ready or writing         *)
(* feedback releases the review only after the camera closed the clip.     *)
THEOREM ReviewAlwaysAfterCameraSettled ==
  ASSUME StopsAreMapped, StartsOverLinear
  PROVE  EngineOnlySpec => ReviewAfterCameraSettled
<1> DEFINE Released == /\ call'.id = "rec_review" /\ call'.by = StopReplay
                       /\ CpuFree /\ Watching /\ ~config.dryRun
                       /\ FreshStateSince("ready") \/ FreshStateSince("writing")
           Inv == EngineInv /\ AnswerInv /\ ReplayInv /\ NewsInv
<1>1. EngineOnlyInit => ReplayInv /\ NewsInv
      BY OwnersDiffer
         DEF EngineOnlyInit, EngineInit, CameraInit, ReplayInv, NewsInv, NoCall, StandbyPassed,
             NoStandby, NewsOfCall, NewsOfStop, NewsOfReplay, StopUnderWay, CpuFree
<1>2. Inv /\ [EngineOnlyNext]_engineAll => (ReplayInv /\ NewsInv)'
      BY StopsAreMapped, StartsOverLinear, ReplayInvStep, NewsInvStep
<1>3. ASSUME Inv, [EngineOnlyNext]_engineAll, Released
      PROVE  camera \notin {"Recording", "Writing"}
  <2>1. call = NoCall /\ NoCall.id # "rec_review" /\ macroState # "Idle"
        BY <1>3 DEF CpuFree, NoCall, Watching
  <2>2. NewsOfReplay /\ EngineTypeOK
        BY <1>3 DEF NewsInv, EngineInv
  <2>3. MacroReview
    <3>1. call' # call /\ ~(call'.by = Manual) /\ call'.id # "record_stop" /\ call' # NoCall
          BY <1>3, <2>1, OwnersDiffer
    <3>2. EngineStep
          BY <1>3, <2>1, <3>1
             DEF EngineOnlyNext, CameraStep, EngineTick, CpuFree, CameraObeys, ProbeAnswered, engineAll
    <3>3. ~CommandReturns
          BY <3>1 DEF CommandReturns, ManualReturn, ReviewReturns, StopReturns
    <3>4. ~StopReplayCommand /\ \A id \in Commands : ~ManualCommand(id)
          BY <3>1 DEF ManualCommand, StopReplayCommand, Send
    <3> QED
        BY <3>1, <3>2, <3>3, <3>4
           DEF EngineStep, AbortStopReplay, IdlePass, MacroLoop, MacroLinkLost, MacroTimesOut,
               MacroHoldsBack, MacroWatches
  <2>4. CameraReadyForReview
        BY <1>3, <2>3 DEF MacroReview, Watching
  <2>5. CASE FreshStateSince("ready") /\ BoolValue("ready", FALSE)
    <3>1. sample["ready"].raw = "true"
          BY <2>5 DEF BoolValue, TextBool
    <3> QED
        BY <2>1, <2>2, <2>5, <3>1 DEF NewsOfReplay, Unsettled
  <2>6. CASE ~FreshStateSince("ready") /\ FreshStateSince("writing") /\ ~BoolValue("writing", TRUE)
    <3>1. sample["writing"].raw = "false"
      <4>1. sample["writing"].raw \in Raws
            BY <2>2, SampleTypes DEF StateIds
      <4> QED
          BY <2>6, <4>1 DEF BoolValue, TextBool, Raws
    <3>2. CASE sample["ready"].valid /\ sample["ready"].age <= sample["writing"].age
      <4>1. /\ sample["ready"].age \in Nat /\ sample["writing"].age \in Nat /\ macroAge \in Nat
            /\ config.telemetryFreshMs \in Nat
            BY <2>2, SampleTypes, CommandAssumption DEF StateIds, EngineTypeOK, Config
      <4>2. FreshStateSince("ready")
            BY <2>6, <3>2, <4>1 DEF FreshStateSince, FreshSince, Fresh
      <4> QED
          BY <2>6, <4>2
    <3> QED
        BY <2>1, <2>2, <2>6, <3>1, <3>2 DEF NewsOfReplay, Unsettled
  <2> QED
      BY <1>3, <2>4, <2>5, <2>6 DEF CameraReadyForReview
<1>4. Inv /\ [EngineOnlyNext]_engineAll => [Released => camera \notin {"Recording", "Writing"}]_engineAll
      BY <1>3
<1> QED
    BY <1>1, <1>2, <1>4, AnswerInvariant, PTL DEF EngineOnlySpec, ReviewAfterCameraSettled
=============================================================================
