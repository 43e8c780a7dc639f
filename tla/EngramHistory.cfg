SPECIFICATION Spec
CONSTANTS
    Slots = {1, 2}
    N = 4
    Block = 3
    ChunkSize = 3
    MaxLen = 6
    MaxReqs = 2
    MaxRetracts = 1
    Prompts = {2, 3}
    ImageSets = {{}, {1}}
INVARIANTS TypeOK ContextExact HistoryCurrent
CHECK_DEADLOCK FALSE
