SPECIFICATION Spec
CONSTANTS
  Base = 100
  MaxHeap = 28
  Sizes = {16, 48}
  Fills <- MCFills
  MaxLive = 3
VIEW View
INVARIANTS Tiled FreeListExact Coalesced NothingLeaks
PROPERTIES GrowsOnlyWhenFull DiesOnlyWhereKnown Allocates
CHECK_DEADLOCK FALSE
