SPECIFICATION MCSpec
CONSTANTS
  Addresses = {a1, a2}
  MaxAssociations = 3
  RejoinAfter = 2
  JoinTime = 2
  RetryAfter = 1
  CallTimeout = 2
  LoopTimeout = 1
  MaxId = 2
  NoteCount = 2
  MaxPayload = 2
  Responses <- MCResponses
  Limits = {1, 3}
  MaxHead = 2
  Slack = 8
  BufferLength = 4
INVARIANTS OpenIsSubscribed WarmupOnce  BodyIsWhole
PROPERTIES JoinsAgain SessionRecovers StreamIsChannel RequestOutcome
