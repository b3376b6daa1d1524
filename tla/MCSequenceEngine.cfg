SPECIFICATION SlotsSpec
CONSTANTS
  SlotCount = 1
  SampleHorizon = 2
  Notifies = TRUE
  Unread = 1
  Polled = {}
  Commands <- MCCommands
  Configs <- MCConfigs
  PlaybackHold = 0
  MacroHorizon = 1
  Programs <- MCPrograms
  HoldOnlyCommands = {}
  MaxSteps = 3
  CompleteHold = 0
  RunHorizon = 2
PROPERTIES WaitForReadyOutlastsClip CameraAlwaysFreed
