SPECIFICATION FestivalSpec
CONSTANTS
    NULL = NULL
    Languages = {"en", "cs"}
    Types = {"male1"}
    Names = {"kal"}
    Rates = {"slow", "fast"}
    SizeOf <- MCSizeOf
    FestivalCacheMaxKBytes = 2
    Distinguished <- MCDistinguished
    MixedVoices = FALSE
    DefaultHost = TRUE
INVARIANTS HeardAsAsked CacheBounded BreakCostsOne
