SPECIFICATION BridgeSpec
CONSTANTS
  SlotCount = 2
  SampleHorizon = 1
  Notifies = FALSE
  Unread = 0
  Polled = {"ready"}
  Commands <- MCCommands
  Configs <- MCConfigs
  PlaybackHold = 0
  MacroHorizon = 2
  Programs <- MCPrograms
  HoldOnlyCommands = {}
  MaxSteps = 2
  CompleteHold = 0
  RunHorizon = 1
  OtaTimeout = 1
  RebootDelay = 1
  SilentDrops = TRUE
  BareRequests = FALSE
INVARIANT Ownership
PROPERTIES OperationKeepsItsSettings FailureStaysShown OperationsAreExclusive
