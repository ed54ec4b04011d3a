CONSTANTS
  Jobs = {1}
  MaxRunners = 2
  MaxInstances = 2
  MaxAttempts = 2
  MaxLive = 1
  MaxFaults = 0
  Errors = {"other"}
  ConfirmsAbsence = TRUE
  ListingLag = FALSE
  AmbiguousCreates = FALSE
  Preemption = TRUE
  Workers = {w1}
  Aging = FALSE
  Delivered = {1}
  MaxCrashes = 1
SPECIFICATION FleetSpec
INVARIANT NoOldObservations
PROPERTY OrphanKeepsReservation
PROPERTY RegistrationRemembered
PROPERTY RequeuedOnlyGone
PROPERTY CheckSparesBusy
CHECK_DEADLOCK FALSE
