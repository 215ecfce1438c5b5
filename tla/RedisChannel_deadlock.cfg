CONSTANTS
  a1 = a1  a2 = a2  ch1 = ch1  ch2 = ch2
  Callers <- OneCaller
  Channels <- OneChannel
  Consumer = Consumer
  Every = Every
  AtExit = AtExit
  NoThread = NoThread
  MaxMessages = 1
  MaxFailures = 0
CHECK_DEADLOCK FALSE
SPECIFICATION Spec
INVARIANT NoMutualWait
