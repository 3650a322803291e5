\* One run without any failure, with a share for the broker alone.
CONSTANTS
  Answers <- MCBroker
  Sold <- MCSold
  Token <- MCToken
  MaxFaults = 0
  MaxRuns = 1
SPECIFICATION Spec
CHECK_DEADLOCK FALSE
INVARIANTS
  RecipientsKnown
