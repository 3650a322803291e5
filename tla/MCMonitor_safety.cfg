\* One machine: crashes, a repeated range, suspension, a stale lock.
CONSTANTS
  Owner = {u1, u2}
  NoOwner = NoOwner
  MaxSubs = 1
  MaxEvents = 3
  MaxTokens = 2
  MaxTransfers = 1
  MaxCrashes = 1
  MaxAdminErrors = 1
  MaxForeignMints = 0
  GcEnabled = TRUE
  LockSurvivesKill = TRUE
SPECIFICATION Spec
SYMMETRY OwnerSymmetry
INVARIANTS
  TypeOK
  NetFlagSound
  EachBlockOnce
PROPERTY ImplementsService
