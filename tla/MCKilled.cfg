CONSTANTS
  Checks = {check}
  Ticks = {tick}
  Final = final
  None = None
  Torn = Torn
  MaxRevision = 3
  MaxFailures = 1
  MaxRetries = 0
  MaxRestarts = 2

SPECIFICATION DurableSpec

INVARIANT OneIdentity

CHECK_DEADLOCK FALSE
