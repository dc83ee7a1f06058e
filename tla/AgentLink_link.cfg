SPECIFICATION LinkFairSpec
CONSTANTS
  MaxRequests = 4
  Chatter = 2
INVARIANTS AnswersMatch QuietWhenIdle
PROPERTIES LostForCause Returns
CHECK_DEADLOCK FALSE
