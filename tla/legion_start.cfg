SPECIFICATION FairSpec
CONSTANTS
    Names = {a, b}
    MaxSlots = 2
    MaxPids = 2
    LOG_VERSIONS = 2
    Rotates = FALSE
CHECK_DEADLOCK FALSE
INVARIANT EveryChildAccounted
PROPERTY StartReturns
