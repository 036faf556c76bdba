SPECIFICATION Spec
CONSTANTS
  NULL = NULL
  Clients = {c1, c2}
  MaxRequests = 1
  MaxSignals = 1
  MaxToggles = 0
  TerminalEnds = TRUE

INVARIANT SigintReachesAll
CHECK_DEADLOCK FALSE
