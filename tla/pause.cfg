SPECIFICATION Spec
CONSTANTS
  c1 = c1
  c2 = c2
  NoClient = NoClient
  Clients = {c1, c2}
  Levels = {2, 3}
  Commands = {"speak", "pause", "pause_all", "resume", "resume_all", "quit"}
  Faults = {"refuse","mark","crash"}
  MaxMessages = 2
  MaxBlocks = 0
  MaxWakeups = 1
  MaxPaused = 1
  MaxEvents = 2
  MaxCrashes = 1
SYMMETRY ClientSymmetry
ACTION_CONSTRAINT FaultsForOneClient
CHECK_DEADLOCK FALSE
INVARIANTS EventHasOwner OneVoice
PROPERTIES NothingVanishes OneVoicePromise
