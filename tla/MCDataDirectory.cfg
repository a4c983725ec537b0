CONSTANTS
  Pids = {p1, p2, p3}
  None = None
  Torn = Torn
  Originals = {old1, old2}
  Base = base
  Stamped = {stamp}
  MaxRevision = 1

SPECIFICATION Spec

INVARIANT AtMostOneOwner
INVARIANT NothingUnseenOverwritten
INVARIANT OriginalsKept
INVARIANT LeftLocksAreExplained
