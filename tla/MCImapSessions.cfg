CONSTANTS
  Sessions = {s1, s2}
  MaxUid = 2
  Seen = Seen
  Deleted = Deleted
  k1 = k1
  k2 = k2
  Flags <- SystemFlags
  Keywords = {}
  StoreFlags <- DeletedOnly
  MaxFlagsPerMessage = 1
  MaxKeywords = 0
  MaxQueuedNotifications = 2
  MaxRetained = 1
  BatchSize = 1
  Subscriptions = {TRUE}
  OpenedMail <- OneDeleted
SYMMETRY Symmetry
SPECIFICATION Spec
INVARIANTS UpdatesExplainMailbox ToldWhatIsStored FetchKeepsNumbers
PROPERTY BodySentIsSeen
