\* Patterns and keys with a backslash.
SPECIFICATION SessionSpec
CONSTANTS
    Subjects = {"glob"}
    Dbs = {0}
    Channels = {}
    InMulti = {}
    Refusable = {}
    SkipsWhileOff = FALSE
    MaxCommands = 0
    MaxApproved = 0
    Requests <- AskedFor
    Tools = {}
    Targets = {"a"}
    Rule <- ReadOneKey
    MaxTokens = 0
    MaxTime = 0
    Patterns <- EscapedPatterns
    Keys <- EscapedKeys
    Lines = {}
    Users = {"here", "there"}
    Places = {"dev/0", "prod/0"}
    ProfileOf <- ProfileOfPlace
    Upper <- UpperOf
    Keywords = {"NX", "COUNT", "GET"}
    Secret = {"AUTH"}
    Levels = {"None", "HashNames", "AllArguments"}
    KeepMax = 1
    MaxRecords = 2
    MaxDay = 1
    Offers <- Completions
    MaxTyped = 0
    MaxArgs = 0
INVARIANTS GlobIsExact
CHECK_DEADLOCK FALSE
