CONSTANTS
  a1 = a1  a2 = a2  ch1 = ch1  ch2 = ch2
  Callers <- TwoCallers
  Channels <- OneChannel
  Consumer = Consumer
  Every = Every
  AtExit = AtExit
  NoThread = NoThread
  MaxMessages = 2
  MaxFailures = 1
CHECK_DEADLOCK FALSE
SPECIFICATION Spec
SYMMETRY Symmetry
INVARIANTS HandedInOrder SomeoneListens OneDeadlockOnly
