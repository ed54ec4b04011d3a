CONSTANTS
  Jobs = {1, 2}
  MaxRunners = 3
  MaxInstances = 3
  MaxAttempts = 1
  MaxLive = 1
  MaxFaults = 0
  Errors = {}
  ConfirmsAbsence = FALSE
  ListingLag = FALSE
  AmbiguousCreates = FALSE
  Preemption = FALSE
  Workers = {w1}
  Aging = FALSE
  Delivered = {1, 2}
  MaxCrashes = 0
SPECIFICATION FleetSpec
PROPERTY RequeuedOnlyGone
CHECK_DEADLOCK FALSE
