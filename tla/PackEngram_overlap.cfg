SPECIFICATION Spec
CONSTANTS
    Packers = {p1, p2}
    Rows = 3
    ChunkRows = 2
    Inodes = {i1, i2}
    MaxFaults = 0
    None = None
INVARIANTS ServedExact
