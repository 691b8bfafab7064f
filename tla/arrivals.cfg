SPECIFICATION FairSpec
CONSTANTS
  c1 = c1
  NoClient = NoClient
  Clients = {c1}
  Levels = {1, 2, 3, 4, 5}
  Commands = {"speak", "priority"}
  Faults = {}
  MaxMessages = 4
  MaxBlocks = 0
  MaxWakeups = 2
  MaxPaused = 1
  MaxEvents = 2
  MaxCrashes = 0
CHECK_DEADLOCK FALSE
INVARIANTS TypeOK NoLostWakeup InArrivalOrder
PROPERTIES ImportantNeverInterrupted QueuesDrain
