CONSTANTS
  Jobs = {1, 2}
  MaxRunners = 2
  MaxInstances = 2
  MaxAttempts = 1
  MaxLive = 1
  MaxFaults = 0
  Errors = {}
  ConfirmsAbsence = TRUE
  ListingLag = FALSE
  AmbiguousCreates = TRUE
  Preemption = FALSE
  Workers = {w1}
  Aging = FALSE
  Delivered = {1, 2}
  MaxCrashes = 0
SPECIFICATION Spec
INVARIANT FleetWithinCeiling
CHECK_DEADLOCK FALSE
