CONSTANTS
  d1 = d1
  d2 = d2
  d3 = d3
  w1 = w1
  w2 = w2
  alice = alice
  bob = bob
  newsletter = newsletter
  seen = seen
  Deliveries = {d1, d2, d3}
  Waiters = {w1}
  Kinds = {alice, bob, newsletter}
  Kind <- MCKind
  RawSize <- MCRawSize
  StoredSize <- MCStoredSize
  Filters <- MCFilters
  OpenedStores <- StorageStores
  Flags = {seen}
  MaxMessageBytes = 2
  MaxMessages = 2
  MaxStorageBytes = 4
  MaxImapNumber = 5
  MaxActiveWaits = 0
  MaxFlagsPerMessage = 1

SPECIFICATION Spec

INVARIANT TypeOK
INVARIANT KeysNeverReused
INVARIANT CommitsAreAnnounced
PROPERTY CapacityRespected
PROPERTY NothingStoredAfterStop
