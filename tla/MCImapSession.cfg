CONSTANTS
  CommandLines <- MCCommandLines
  Octets = {1}
  MaxMessageBytes = 1
  MiB = 1
  HighWater = 1
  Requests <- MCRequests
  MaxFetchItems = 4
  MaxFetched = 2
  MaxChunk = 2
  MaxQueuedCommands = 1
  PreAuthMs = 2
  IdleMs = 3
  DrainTimeoutMs = 1

SPECIFICATION FairSpec

INVARIANT PasswordsStayPrivate
INVARIANT DeadlinesKept
INVARIANT PacedFetchFits
PROPERTY FetchesEnd
CHECK_DEADLOCK FALSE
