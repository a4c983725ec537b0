CONSTANTS
  c1 = c1
  c2 = c2
  Calls = {c1, c2}
  Asks <- MCAsks
  BridgeLines <- MCBridgeLines
  Policy <- MCPolicy
  MaxMcpRequests = 1
  MaxMcpWaits = 1
  MaxActiveWaits = 1
  MaxWaitMs = 1
  Arrivals = {TRUE}
  MaxId = 2
  MaxFaults = 1

SPECIFICATION Spec
INVARIANT SlotsAreHeld
INVARIANT HonestOutcome
INVARIANT NoMatchSkipped
CHECK_DEADLOCK FALSE
