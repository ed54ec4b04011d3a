CONSTANTS
  Jobs = {1}
  MaxRunners = 2
  MaxInstances = 2
  MaxAttempts = 2
  MaxLive = 1
  MaxFaults = 0
  Errors = {}
  ConfirmsAbsence = FALSE
  ListingLag = FALSE
  AmbiguousCreates = FALSE
  Preemption = FALSE
  Workers = {w1}
  Aging = TRUE
  Delivered = {1}
  MaxCrashes = 1
SPECIFICATION FleetFair
INVARIANT FleetTypeOK
PROPERTY InstancesReclaimed
PROPERTY DemandAnswered
PROPERTY RecordsSettle
CHECK_DEADLOCK FALSE
