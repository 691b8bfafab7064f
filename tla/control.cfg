SPECIFICATION Spec
CONSTANTS
  c1 = c1
  c2 = c2
  NoClient = NoClient
  Clients = {c1, c2}
  Levels = {1, 3, 4}
  Commands = {"speak", "block", "stop", "stop_all", "cancel", "cancel_all"}
  Faults = {}
  MaxMessages = 3
  MaxBlocks = 2
  MaxWakeups = 2
  MaxPaused = 1
  MaxEvents = 2
  MaxCrashes = 0
SYMMETRY ClientSymmetry
CHECK_DEADLOCK FALSE
INVARIANTS CanceledIsGone OneTextAtATime
PROPERTIES EventOrder CancelAllSilences
