CONSTANTS
  CommandLines <- MCCommandLines
  p1 = p1
  p2 = p2
  p3 = p3
  Peers = {p1, p2, p3}
  MaxSessions = 1

SPECIFICATION FairSpec

INVARIANT StoreOutlivesConnections
INVARIANT SocketsAreTracked
PROPERTY ProcessEnds
CHECK_DEADLOCK FALSE
