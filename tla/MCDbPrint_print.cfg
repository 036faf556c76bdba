SPECIFICATION MCPrintSpec
CONSTANTS
  head = head
  NULL = NULL
  OldValue = old
  Torn = torn
  Threads = {t1, t2}
  Cells = {1, 2, 3, 4, 5}
  Names = {1, 2, 3, 4, 5}
  Values = {old}
  MaxCalls = 1
  Orders <- WalkOrder
SYMMETRY Symmetry
INVARIANTS PrintExact PrintInventsNothing PrintMissesOnlyMoved
