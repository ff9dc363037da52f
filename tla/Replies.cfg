\* Pipes, decoders, one command, its output, tables, JSON, results and subscriptions, a
\* behaviour about one.
SPECIFICATION RepliesSpec
CONSTANTS
    TotalBytes = 5
    SingleBytes = 6
    Sizes = {0, 2, 3, 6, 7}
    MaxPuts = 5
    MaxScopes = 2
    MaxEntries = 3
    MaxBytes = 6
    Weights = {1, 2, 3, 6, 7}
    MaxMessages = 6
    MaxDepth = 9
    MaxElements = 9
    MaxBulk = 4
    MaxFrame = 9
    StreamAbove = 2
    MaxStreamed = 4
    MaxWire = 5
    Attributes = {FALSE}
    MaxPushes = 2
    MaxArrivals = 3
    MaxPieces = 3
    Pieces <- Piped
    Catalog <- Known
    NextFrame <- PipedFrame
    Titles <- ColumnTitles
    Missing <- NoCell
    Cells <- TableCells
    Totals = {12, 13, 18}
    MinContent = 3
    SampleRows = 1
    MaxRows = 2
    MaxRenders = 3
    MaxBatch = 2
    MaxEdits = 2
INVARIANTS RecordHasNoHole SameValues ExitIsHonest
           OutputIsTheReplies AdmissionIsExact TableIsStable
           LossIsTold EditIsExact
PROPERTIES AnswersAreFinal
CHECK_DEADLOCK FALSE
