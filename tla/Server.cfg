CONSTANTS
  Conns = {c1, c2}
  MaxRequests = 2
  MaxSize = 4
  MaxGen = 1
  Loads <- MCLoads
SPECIFICATION FairSpec
INVARIANTS RepliesAreOwn StopLeavesNothing NoLineSkipped DeliveredInOrder
PROPERTIES NothingAnsweredAfterStop 
CHECK_DEADLOCK FALSE
