SPECIFICATION FairSpec
CONSTANTS
  Fds = {1, 2, 3, 4}
  Slot = 3
  Near = 2
  MaxNow = 4
INVARIANTS TypeOK IndexRight HeapOrdered
PROPERTIES IsQueue DetectReturns
