SPECIFICATION MCSpec
CONSTANTS
  head = head
  NULL = NULL
  OldValue = old
  Threads = {t1, t2}
  Cells = {1, 2, 3, 4, 5}
  Names = {1, 2, 3, 4}
  Values = {old, new}
  MaxCalls = 2
  Orders <- WalkOrder
SYMMETRY Symmetry
PROPERTY Linearizable
