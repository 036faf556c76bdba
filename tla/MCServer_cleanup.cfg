SPECIFICATION Spec
CONSTANTS
  NULL = NULL
  Clients = {c1, c2}
  MaxRequests = 1
  MaxSignals = 0
  MaxToggles = 0
  TerminalEnds = TRUE

INVARIANT CleanupAlone
CHECK_DEADLOCK FALSE
