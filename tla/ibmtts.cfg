SPECIFICATION Spec
CHECK_DEADLOCK FALSE
CONSTANTS
  Requests = {"stop", "pause", "quit"}
  MayFail = TRUE
  Prompt = TRUE
  MaxMessages = 2
  MaxEntries = 1
  MaxRequests = 2
INVARIANTS EventsInOrder
PROPERTIES StopCompletes
