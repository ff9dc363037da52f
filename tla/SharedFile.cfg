\* Three writers in two processes, a death and a power cut: the locked protocol itself.
SPECIFICATION LockedSpec
CONSTANTS
    w1 = w1  w2 = w2  w3 = w3  proc1 = proc1  proc2 = proc2
    Writers <- ThreeWriters
    Pids <- TwoPids
    PidOf <- TwoInOne
    NoOne = NoOne
    DirSyncWorks = TRUE
    MaxEdits = 3
    MaxCrashes = 1
    MaxCuts = 1
    MaxForeign = 0
SYMMETRY SameProcess
INVARIANTS NoLostUpdate
PROPERTIES ImplementsRegister
CHECK_DEADLOCK FALSE
