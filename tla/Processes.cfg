\* Tasks, ssh processes, a plugin and interrupts, a behaviour about one of them.
SPECIFICATION ProcessesSpec
CONSTANTS
    Tasks = {t1, t2, t3}
    Floor = 2
    Nodes = {n1, n2}
    Ports = {q1, q2}
    Pids = {p1, p2, p3}
    Limit = 2
    Input = 2
    MaxOutput = 2
    PipeSize = 1
    MaxWritten = 3
    BreakCalls = FALSE
    MaxPresses = 5
INVARIANTS EverySshIsOwned NeverPartial InterruptsAreHonest
PROPERTIES CleanMeansDrained NothingOutlives CallReturns
CHECK_DEADLOCK FALSE
