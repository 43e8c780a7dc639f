SPECIFICATION TailSpec
CONSTANTS
    Requests = {r1, r2}
    Window = 3
    ChunkedPrefillSize = 4
    Draft = 2
    Interval = 1
    SkipNonfinal = FALSE
    MaxTokens = 9
INVARIANTS WindowWritten
PROPERTIES NothingInUseEvicted
CHECK_DEADLOCK FALSE
