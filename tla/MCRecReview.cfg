SPECIFICATION Spec
CONSTANTS
  Timeout = 12
  SetDelay = 2
  PlayDelay = 1
  RetryDelay = 1
  ProbeDelay = 1
  CallTimeout = 2
  CallMax = 3
  ProbeMax = 2
INVARIANTS VerifiedIsOwnPlayback ReviewBounded
PROPERTIES PlayFindsClip ReviewReturns
CHECK_DEADLOCK FALSE
