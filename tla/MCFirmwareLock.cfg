SPECIFICATION UpdateSpec
CONSTANTS
  SlotCount = 1
  OtaTimeout = 2
  RebootDelay = 1
  SilentDrops = FALSE
  BareRequests = FALSE
PROPERTY UpdateReleasesArbiter
