SPECIFICATION Spec
CONSTANTS
  c1 = c1
  c2 = c2
  Callers = {c1, c2}
  Kinds = {"char", "say", "set", "notify", "list"}
  Levels = {1, 2}
  NULL = NULL
  MaxCalls = 3
  MaxEvents = 1
  ListsAlone = TRUE
  ServerFails = TRUE
INVARIANTS CallsAreOwn
PROPERTIES CallsReturn
