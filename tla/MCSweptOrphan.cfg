CONSTANTS
  Jobs = {1}
  MaxRunners = 2
  MaxInstances = 2
  MaxAttempts = 1
  MaxLive = 1
  MaxFaults = 0
  Errors = {"other"}
  ConfirmsAbsence = TRUE
  ListingLag = FALSE
  AmbiguousCreates = FALSE
  Preemption = FALSE
  Workers = {w1}
  Aging = TRUE
  Delivered = {1}
  MaxCrashes = 0
SPECIFICATION FleetSpec
PROPERTY SweptOrphansStopped
CHECK_DEADLOCK FALSE
