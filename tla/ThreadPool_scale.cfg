\* Workers are added and retired: safety, the refinement and liveness.
CONSTANTS
  p1 = p1  p2 = p2  w1 = w1  w2 = w2  t1 = t1  t2 = t2  t3 = t3
  Producers <- TwoProducers
  Workers <- TwoWorkers
  Tasks <- ThreeTasks
  UpThreshold = 1
  DownThreshold = 1
  MaxWorkers = 2
  UpPolicies <- TestedUp
  DownPolicies <- TestedDown
  NoThread = NoThread
  NoTask = NoTask
SPECIFICATION FairSpec
INVARIANTS TypeOK ExactlyOnce WorkerAccounting NoGhostThreads NoLostWakeup DrainedOnceServed
PROPERTIES ImplementsService TaskServed ShutdownHangsOnlyAsleep
