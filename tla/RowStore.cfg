SPECIFICATION FairSpec
CONSTANTS
    Threads = {t1, t2}
    None = None
    NumRows = 4
    Ids <- MCIds
    Ranges <- MCRanges
    Headers <- MCHeaders
    Budgets = {0, 5, 6}
    WaysChoices = {1, 2}
    SlotBytes = 2
    NumLocks = 2
    MaxFetches = 4
CHECK_DEADLOCK FALSE
INVARIANTS TypeOK ExactRows CacheCoherent StatsExact CacheWithinBudget
PROPERTIES HungReadBlocksNobody
