SPECIFICATION LiveSpec
CONSTANTS
    NumWorkers = 2
    MaxFaults = 2
    MaxOps = 2
PROPERTIES WorkersFirst SelfHeals
CHECK_DEADLOCK FALSE
