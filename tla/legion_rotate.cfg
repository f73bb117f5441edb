SPECIFICATION Spec
CONSTANTS
    Names = {a, b}
    MaxSlots = 2
    MaxPids = 3
    LOG_VERSIONS = 3
    Rotates = TRUE
SYMMETRY Symmetric
CHECK_DEADLOCK FALSE
INVARIANTS TypeOK ActiveUnreaped NamesUnique StatusTellsFate LogsOrdered
