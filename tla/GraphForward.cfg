SPECIFICATION Spec
CONSTANTS
    Sizes = {2, 3, 4}
    CaptureSizes = {3, 4}
    MaxForwards = 6
    MaxQueued = 3
INVARIANTS GatherExact BucketsServe
CHECK_DEADLOCK FALSE
