SPECIFICATION Spec
CONSTANTS
    RING_DEPTH = 2
    MinCapacity = 1
    MaxBatch = 2
    Checking = FALSE
    MaxSteps = 6
INVARIANTS AllocReadsOwnPlan HostViewsIntact
PROPERTY SlotDrained
CHECK_DEADLOCK FALSE
