SPECIFICATION Spec
CHECK_DEADLOCK FALSE
CONSTANTS
    Fds = {1, 3}
    server_socket = 2
    Types = {"begin"}
    Commands = {"speak", "begin", "end", "on", "off", "all_fast", "char", "control", "quit"}
    MaxClients = 2
    MaxLines = 3
INVARIANTS MaxFdCovers BlocksAreOwn EventsAreAsked
PROPERTIES EveryCommandAnswered
