CONSTANTS
  Jobs = {1, 2}
  MaxRunners = 2
  MaxInstances = 2
  MaxAttempts = 1
  MaxLive = 1
  MaxFaults = 0
  Errors = {}
  ConfirmsAbsence = FALSE
  ListingLag = FALSE
  AmbiguousCreates = FALSE
  Preemption = FALSE
  Workers = {w1}
  Aging = TRUE
  Delivered = {1}
  MaxCrashes = 0
SPECIFICATION Spec
PROPERTY ReassignedDemandKept
CHECK_DEADLOCK FALSE
