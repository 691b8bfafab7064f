SPECIFICATION TextsSpec
CHECK_DEADLOCK FALSE
CONSTANTS
    Chars = {"a", ".", "crlf", "lf", "<", ">", "&"}
    Modes = {"text", "ssml"}
    MarkNames <- MCMarkNames
    PartLength = 3
    MaxLength = 5
    MaxResumes = 2
INVARIANTS HeardIsSent StaysInStep MarksInOrder
