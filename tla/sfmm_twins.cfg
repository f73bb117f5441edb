SPECIFICATION Spec
CONSTANTS
    QUICK_LIST_MAX = 5
    MaxPages = 2
    Requests = {200}
    MaxLive = 4
    MaxCalls = 7
    Unwritten = {1048580}
CHECK_DEADLOCK FALSE
INVARIANT HeapStaysSound

