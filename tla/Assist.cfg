\* Completions, the line, the keyspace walk and the caches of names, a behaviour about one of them.
SPECIFICATION AssistSpec
CONSTANTS
    Scopes = {"dev", "prod"}
    row1 = row1  row2 = row2
    Results <- Lists
    MaxChanges = 3
    MaxIssued = 2
    Inserts <- Wide
    Offers <- Mark
    MaxLen = 2
    MaxRevision = 4
    Pages <- KeyPages
    Fickle <- Passing
    Inputs <- Typed
    MaxScans = 4
    MaxDuration = 4
    MinGap = 1
    Cooldown = 3
    MaxFlying = 2
    MaxRuns = 2
    MaxTime = 8
    Names = {"s", "m", "l"}
    Cost <- NameCost
    Origins = {"reply", "schema"}
    Slot = 1
    FirstSlots = 2
    MaxItems = 3
    MaxBytes = 5
    CacheBytes = 10
    MaxEvicted = 2
INVARIANTS NoPanic ConclusiveMeansWalked NamesWithinBudget
PROPERTIES LateAnswersAreHarmless SettledIsShown StaleNeverLands UndoIsExact
CHECK_DEADLOCK FALSE
