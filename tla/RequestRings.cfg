SPECIFICATION RingsSpec
CONSTANTS
    Window = 2
    NumSlots = 2
    page_size = 2
    Draft = 2
    ChunkSize = 5
    MaxLen = 5
    MaxRequests = 2
INVARIANTS QueriesExact HistoryPresent CommitsDistinct TagsOwn WorkspaceFits PendingHeld PairsExact
PROPERTIES PairsFinal
CHECK_DEADLOCK FALSE
