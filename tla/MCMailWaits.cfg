CONSTANTS
  d1 = d1
  d2 = d2
  d3 = d3
  w1 = w1
  w2 = w2
  alice = alice
  bob = bob
  newsletter = newsletter
  seen = seen
  Deliveries = {d1, d2}
  Waiters = {w1, w2}
  Kinds = {alice, bob, newsletter}
  Kind <- MCKind
  RawSize <- MCRawSize
  StoredSize <- MCStoredSize
  Filters <- MCFilters
  OpenedStores <- WaitStores
  Flags = {}
  MaxMessageBytes = 2
  MaxMessages = 2
  MaxStorageBytes = 4
  MaxImapNumber = 6
  MaxActiveWaits = 2
  MaxFlagsPerMessage = 1

SPECIFICATION FairSpec

INVARIANT NoArrivalMissed
PROPERTY OutcomeMatchesStore
PROPERTY EveryCallSettles
