CONSTANTS
  Matching = {1}
  PageSize = 10
  None = None
  All = All
  MaxId = 2
  MaxRefreshes = 2
  MaxLoads = 2
  MaxDeletes = 1
SPECIFICATION Spec
INVARIANTS ShownIsOpened RestingTableIsCurrent
 
CHECK_DEADLOCK FALSE
