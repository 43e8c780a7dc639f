SPECIFICATION FairSpec
CONSTANTS
    Packers = {p1}
    Rows = 3
    ChunkRows = 2
    Inodes = {i1, i2, i3}
    MaxFaults = 2
    None = None
INVARIANTS ServedExact CompleteIsExact
 
