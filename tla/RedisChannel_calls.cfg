CONSTANTS
  a1 = a1  a2 = a2  ch1 = ch1  ch2 = ch2
  Callers <- OneCaller
  Channels <- TwoChannels
  Consumer = Consumer
  Every = Every
  AtExit = AtExit
  NoThread = NoThread
  MaxMessages = 1
  MaxFailures = 1
CHECK_DEADLOCK FALSE
SPECIFICATION FairSpec
INVARIANTS SettlesExactly TwoRacesOnly
PROPERTIES CallsReturn SubscriptionsArrive
