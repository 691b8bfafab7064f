SPECIFICATION Spec
CHECK_DEADLOCK FALSE
CONSTANTS
    Families = {"flite", "ivona", "cicero", "milena", "mbrpipe", "festival", "dummy", "generic", "pico"}
    MaxMessages = 3
    MaxControls = 3
    MayFail = TRUE
    Texts <- SampleTexts
INVARIANTS StopIsShort NoStrayChild
PROPERTIES  EveryMessageEnds QuitExits
