\* Transactions of plain commands, one channel; tokens and a rule; patterns without a backslash; lines, history and grammars.
SPECIFICATION SessionSpec
CONSTANTS
    Subjects = {"session", "approval", "glob", "line", "history", "grammar"}
    Dbs = {0, 3}
    Channels = {"news"}
    InMulti = {"GET"}
    Refusable = {"AUTH", "HELLO 3 AUTH", "SUBSCRIBE", "MULTI", "EXEC"}
    SkipsWhileOff = FALSE
    MaxCommands = 6
    MaxApproved = 2
    Requests <- AskedFor
    Tools = {"read", "execute_approved_plan"}
    Targets = {"a", "b"}
    Rule <- ReadOneKey
    MaxTokens = 1
    MaxTime = 1
    Patterns <- PlainPatterns
    Keys <- PlainKeys
    Lines <- PlainLines
    Users = {"here", "there"}
    Places = {"dev/0", "prod/0"}
    ProfileOf <- ProfileOfPlace
    Upper <- UpperOf
    Keywords = {"NX", "COUNT", "GET"}
    Secret = {"AUTH"}
    Levels = {"None", "HashNames", "AllArguments"}
    KeepMax = 1
    MaxRecords = 2
    MaxDay = 1
    Offers <- Completions
    MaxTyped = 4
    MaxArgs = 5
INVARIANTS ProbeIsSafe ReconnectIsHonest OnlyAPersonApproves RunsWhereApproved GlobIsExact
           ShownIsSent RecalledIsTyped RolesAreTheGrammars
CHECK_DEADLOCK FALSE
