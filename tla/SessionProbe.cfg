\* CLIENT REPLY inside a transaction that is discarded.
SPECIFICATION Spec
CONSTANTS
    Dbs = {0, 3}
    Channels = {}
    InMulti = {"GET", "REPLY"}
    Refusable = {}
    SkipsWhileOff = FALSE
    MaxCommands = 5
INVARIANTS ProbeIsSafe
CHECK_DEADLOCK FALSE
