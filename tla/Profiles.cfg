\* The journal alone and beside another process, and the shared file under every fault.
SPECIFICATION ProfilesSpec
CONSTANTS
    OneProcess = TRUE
    MaxRefs = 4
    CrashPoints = {"pending", "secret"}
    MaxCrashes = 2
    MaxTorn = 1
    MaxRollbacks = 0
    w1 = w1  w2 = w2  proc1 = proc1
    NoOne = NoOne
    MaxEdits = 2
    MaxFileCrashes = 1
    MaxCuts = 1
    MaxForeign = 1
INVARIANTS NoStraySecret
PROPERTIES CleanupCompletes LiveSecretIsKept EveryCallReturns
CHECK_DEADLOCK FALSE
