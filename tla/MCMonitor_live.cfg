\* Any command may fail; a crash, a transfer, a suspension, a cancellation.
CONSTANTS
  Owner = {u1, u2}
  NoOwner = NoOwner
  MaxSubs = 1
  MaxEvents = 2
  MaxTokens = 1
  MaxTransfers = 1
  MaxCrashes = 1
  MaxAdminErrors = 0
  MaxForeignMints = 0
  GcEnabled = FALSE
  LockSurvivesKill = FALSE
SPECIFICATION FairSpec
PROPERTIES
  EventsHandled
  OwnershipPropagates
  NetworkConverges
