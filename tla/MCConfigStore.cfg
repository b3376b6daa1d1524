SPECIFICATION MCSpec
CONSTANTS
  Fields <- MCFields
  Low <- MCLow
  High <- MCHigh
  Default <- MCDefault
  Legacy <- MCLegacy
  Checked = {"recReviewSetDelayMs"}
  Inputs <- MCInputs
  Files <- MCFiles
  CommandEdits <- MCEdits
  TriggerCount = 2
  MapEntries = 3
  CallableIds = {"play"}
  RefusedIds = {}
  FactoryTriggers <- MCDefaults
  NoObject = NoObject
  NoStored = NoStored
  NoName = NoName
  Width = 3
  Reserved = {{0, 1}, {0, 1, 2}}
  SlotCount = 2
  MaxSteps = 2
  SourceCount = 2
  CommandIds = {"record_start", "record_stop", "rec_review", "stop_replay", "zoom_in"}
  HoldOnlyCommands = {"zoom_in"}
  DefaultItems <- MCDefaultItems
  StateIds = {"ready", "recording"}
  DefaultStates <- MCDefaultStates
  Layouts <- MCLayouts
  TelemetryMaps <- MCTelemetryMaps
  Programs <- MCPrograms
  OldLayouts <- MCOldLayouts
  OldTelemetryMaps <- MCTelemetryMaps
  OldPrograms <- MCPrograms
  FileValues = {factory, v1, v2}
  FactoryValue = factory
  Absent = absent
  Torn = torn
INVARIANTS NetworksAreRead SavedDocumentsAreUsed RestartKeepsSettings TriggerRunsItsSlot
PROPERTIES RestartKeepsMap UpgradeKeepsRequests SavesAreAtomic
