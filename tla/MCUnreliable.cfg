CONSTANTS
  Jobs = {1}
  MaxRunners = 2
  MaxInstances = 2
  MaxAttempts = 1
  MaxLive = 1
  MaxFaults = 1
  Errors = {"other", "cancelled", "limited"}
  ConfirmsAbsence = TRUE
  ListingLag = TRUE
  AmbiguousCreates = TRUE
  Preemption = FALSE
  Workers = {w1}
  Aging = TRUE
  Delivered = {1}
  MaxCrashes = 1
SPECIFICATION Spec
INVARIANT IndexComplete
INVARIANT RunningRunnerOwned
PROPERTY IdentityDurable
CHECK_DEADLOCK FALSE
