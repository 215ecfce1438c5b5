CONSTANTS
  userEvents = userEvents  orders = orders  payments = payments
  broadcast = broadcast  stateChanges = stateChanges
  Callers <- OnlyMain
  Channels <- FiveChannels
  Shop <- ShortShop
  Workflow <- ShortWorkflow
  UserEvents = userEvents
  Broadcast = broadcast
  StateChanges = stateChanges
  Main = Main
  Consumer = Consumer
  Every = Every
  AtExit = AtExit
  NoThread = NoThread
  Events = 1
  Subscribers = 2
  Broadcasts = 1
  Operations = 1
  MaxMessages = 4
  MaxFailures = 1
CHECK_DEADLOCK FALSE
SPECIFICATION DemoSpec
INVARIANT EachSubscriberHears
