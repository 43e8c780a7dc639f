SPECIFICATION FairSpec
CONSTANTS
    Workers = {w1, w2}
    Callers = {c1, c2}
    None = None
    Counts = {1, 3}
    SerialBelow = 2
    MaxLookups = 2
INVARIANTS TypeOK LookupComplete NoDanglingWork DrainAccounting
PROPERTIES TicketResetSafe ImplementsParallelFor LookupReturns
