SPECIFICATION Spec
CONSTANTS
  NULL = NULL
  Clients = {c1, c2}
  MaxRequests = 1
  MaxSignals = 1
  MaxToggles = 2
  TerminalEnds = TRUE
SYMMETRY Symmetry
INVARIANTS ListSafe CountExact GateOwner NoLostWakeup
PROPERTY StopHolds
CHECK_DEADLOCK FALSE
