CONSTANTS
  Sessions = {s1, s2}
  MaxUid = 2
  Seen = Seen
  Deleted = Deleted
  k1 = k1
  k2 = k2
  Flags <- AllFlags
  Keywords <- TwoKeywords
  StoreFlags <- DeletedOrKeyword
  MaxFlagsPerMessage = 2
  MaxKeywords = 1
  MaxQueuedNotifications = 0
  MaxRetained = 1
  BatchSize = 1
  Subscriptions = {TRUE, FALSE}
  OpenedMail <- LoadedKeyword
SYMMETRY Symmetry
SPECIFICATION Spec
INVARIANT MirrorMatches
PROPERTY RefusedRunChangesNothing
