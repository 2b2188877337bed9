SPECIFICATION FairFeedSpec
CONSTANTS
  Kind = {"console"}  Text = {x, odd}  Odd = odd
  BatchCap = 2  MaxPending = 2  MaxRing = 2
  MaxEntries = 3  MaxConn = 2  MaxSession = 1
CHECK_DEADLOCK FALSE
INVARIANTS StoredInOrder
PROPERTIES WaitSees FeedDrains
