SPECIFICATION TailSpec
CONSTANTS
    Requests = {r1}
    Window = 3
    ChunkedPrefillSize = 4
    Draft = 2
    Interval = 1
    SkipNonfinal = TRUE
    MaxTokens = 7
INVARIANTS WindowWritten
CHECK_DEADLOCK FALSE
