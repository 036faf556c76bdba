SPECIFICATION Spec
CONSTANTS
  Base = 100
  MaxHeap = 28
  Sizes = {16, 24}
  Fills <- MCFills
  MaxLive = 3
VIEW View
INVARIANT TagsAgree
CHECK_DEADLOCK FALSE
