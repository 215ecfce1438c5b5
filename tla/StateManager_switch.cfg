CONSTANTS
  t1 = t1  t2 = t2  east = east  west = west  k1 = k1
  Threads <- TwoThreads
  Servers <- TwoServers
  Keys <- OneKey
  Default = east
  NoThread = NoThread
  NoServer = NoServer
  NoKey = NoKey
  Attempts = 2
  MaxSwitches = 2
  MaxFailures = 2
  MaxCalls = 3
CHECK_DEADLOCK FALSE
SPECIFICATION FairSpec
INVARIANTS ReferencesHold NullNeedsAllAttempts ConnectedAsConfigured LocksHaveOneOwner
PROPERTY CallsReturn
