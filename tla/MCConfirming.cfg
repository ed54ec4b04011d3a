CONSTANTS
  Jobs = {1, 2}
  MaxRunners = 3
  MaxInstances = 3
  MaxAttempts = 1
  MaxLive = 1
  MaxFaults = 0
  Errors = {}
  ConfirmsAbsence = TRUE
  ListingLag = FALSE
  AmbiguousCreates = FALSE
  Preemption = FALSE
  Workers = {w1}
  Aging = FALSE
  Delivered = {1, 2}
  MaxCrashes = 1
SPECIFICATION Spec
INVARIANT FleetWithinCeiling
INVARIANT ProvisionedMatches
INVARIANT IndexComplete
PROPERTY BusyRunnerSpared
PROPERTY RestoredCleanly
PROPERTY NoSecondDelete
CHECK_DEADLOCK FALSE
