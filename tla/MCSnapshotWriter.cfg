CONSTANTS
  Checks = {check}
  Ticks = {tick1, tick2}
  Final = final
  None = None
  Torn = Torn
  MaxRevision = 3
  MaxFailures = 2
  MaxRetries = 1

SPECIFICATION FairSpec

INVARIANT SnapshotsNeverOverlap
INVARIANT UnsavedIsRemembered
PROPERTY LockCoversWrites
PROPERTY KeepsPromise
PROPERTY FlushReturns
PROPERTY ChangesLand

CHECK_DEADLOCK FALSE
