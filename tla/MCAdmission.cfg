CONSTANTS
  Jobs = {1, 2}
  MaxRunners = 3
  MaxInstances = 2
  MaxAttempts = 1
  MaxLive = 1
  MaxFaults = 0
  Errors = {}
  ConfirmsAbsence = FALSE
  ListingLag = FALSE
  AmbiguousCreates = FALSE
  Preemption = TRUE
  Workers = {w1, w2}
  Aging = TRUE
  Delivered = {1, 2}
  MaxCrashes = 0
SPECIFICATION Spec
SYMMETRY WorkerSymmetry
INVARIANT CeilingHolds
CHECK_DEADLOCK FALSE
