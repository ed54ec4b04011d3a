SPECIFICATION Spec
CONSTANTS
  Keys <- MCKeys
  Contents <- MCContents
  CompactAt = 2
  MaxLines = 3
  RollbackFails = FALSE
  LinkSyncFails = FALSE
INVARIANT Recoverable
INVARIANT Reopens
PROPERTY Refines
