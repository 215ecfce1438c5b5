\* A worker sleeps through the shutdown.
CONSTANTS
  p1 = p1  p2 = p2  w1 = w1  w2 = w2  t1 = t1  t2 = t2  t3 = t3
  Producers <- TwoProducers
  Workers <- TwoWorkers
  Tasks <- TwoTasks
  UpThreshold = 0
  DownThreshold = 0
  MaxWorkers = 2
  UpPolicies <- NoPolicy
  DownPolicies <- NoPolicy
  NoThread = NoThread
  NoTask = NoTask
SPECIFICATION FairSpec
PROPERTY ShutdownTerminates
