SPECIFICATION Spec
CHECK_DEADLOCK FALSE
CONSTANTS
    a = a
    d = d
    NULL = NULL
    Names = {a, d}
    Dummy = d
    Default = a
    MaxMessages = 2
    MaxCrashes = 1
    MaxControls = 1
    MaxReloads = 1
    Careful = TRUE
INVARIANTS CrashCostsOne SwallowsNothing StopsLiveModule
PROPERTIES RestartCompletes
