SPECIFICATION MCFairSpec
CONSTANTS
  head = head
  NULL = NULL
  OldValue = old
  Threads = {t1, t2}
  Cells = {1, 2, 3, 4, 5, 6}
  Names = {1, 2, 3, 4, 5}
  Values = {old}
  MaxCalls = 1
  Orders <- SpineOrders
INVARIANTS
  NoUseAfterFree
  RaceFree
  FreedUnlocked
  QuiescentClean
  IInv
  OrderInv
PROPERTY EveryCommandReturns
