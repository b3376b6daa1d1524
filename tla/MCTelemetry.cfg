SPECIFICATION MCSpec
CONSTANTS
  SourceCount = 4
  Intervals = {5}
  AnswerTimes = {0, 4}
  FailTimes = {5}
  PassTimes = {1}
  FailLimit = 6
  RestLimit = 1
  MaxMultiplier = 4
  MaxDelay = 18
  FirstDue <- MCFirstDue
  MaxReloads = 1
  States <- MCStates
  Rule <- MCRules
  Properties <- MCProperties
  Responses <- MCResponses
  FreshMs = 1
  ClockSpan = 3
  Horizon = 4
INVARIANT FeedbackIsCurrent
PROPERTY EverySourcePolled FailingGoAheadOnce
