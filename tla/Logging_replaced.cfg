CONSTANTS
  t1 = t1  t2 = t2  d1 = d1
  Threads <- TwoThreads
  Plain <- OnlyPlain
  First = d1
  Async = Async
  Worker = Worker
  NoThread = NoThread
  NoLogger = NoLogger
  Levels <- TwoLevels
  MaxQueue = 2
  MaxMessages = 3
  MaxLevels = 1
CHECK_DEADLOCK FALSE
SPECIFICATION FairSpec
INVARIANTS NothingIsLost AsyncKeepsOrder PointersHold
PROPERTIES WritesAsAllowed CallsReturn
