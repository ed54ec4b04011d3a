CONSTANTS
  Jobs = {1}
  MaxRunners = 2
  MaxInstances = 2
  MaxAttempts = 2
  MaxLive = 1
  MaxFaults = 0
  Errors = {"other", "cancelled", "limited"}
  ConfirmsAbsence = FALSE
  ListingLag = FALSE
  AmbiguousCreates = FALSE
  Preemption = TRUE
  Workers = {w1, w2}
  Aging = TRUE
  Delivered = {1}
  MaxCrashes = 1
SPECIFICATION Spec
SYMMETRY WorkerSymmetry
INVARIANT TypeOK
INVARIANT ClaimsExclusive
INVARIANT NoAbandonedClaim
INVARIANT UnprovisionedHoldsNoInstance
INVARIANT OneInstancePerJob
INVARIANT DeletedLeavesNothing
INVARIANT ReaperKeepsToUntracked
CHECK_DEADLOCK FALSE
