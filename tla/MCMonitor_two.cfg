\* Two machines that could be mistaken for each other.
CONSTANTS
  Owner = {u1, u2}
  NoOwner = NoOwner
  MaxSubs = 2
  MaxEvents = 2
  MaxTokens = 3
  MaxTransfers = 1
  MaxCrashes = 1
  MaxAdminErrors = 0
  MaxForeignMints = 1
  GcEnabled = FALSE
  LockSurvivesKill = FALSE
SPECIFICATION Spec
SYMMETRY OwnerSymmetry
INVARIANTS
  TokenLinked
  AccessOnlyToHolders
  GecosFlagSound
