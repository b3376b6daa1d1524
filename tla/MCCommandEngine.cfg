SPECIFICATION EngineOnlySpec
CONSTANTS
  SlotCount = 1
  SampleHorizon = 2
  Notifies = TRUE
  Unread = 1
  Polled = {"recording"}
  Commands <- MCCommands
  Configs <- MCConfigs
  PlaybackHold = 1
  MacroHorizon = 4
INVARIANTS AnswerIsForCall ReplayNeverShowsRecording
PROPERTIES ReviewAfterCameraSettled VerifiedReviewMeansPlayback
