SPECIFICATION FairSpec
CONSTANTS
  NULL = NULL
  Clients = {c1, c2}
  MaxRequests = 1
  MaxSignals = 1
  MaxToggles = 2
  TerminalEnds = FALSE
PROPERTIES CancelledEnd GateOpens
CHECK_DEADLOCK FALSE
