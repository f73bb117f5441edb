SPECIFICATION Spec
CONSTANTS
    QUICK_LIST_MAX = 1
    MaxPages = 2
    Requests = {0, 8, 200, 204, 3800}
    MaxLive = 4
    MaxCalls = 5
    Unwritten = {0, 1048576, 1048580}
CHECK_DEADLOCK FALSE
INVARIANT QuickListsBounded
PROPERTIES ReleaseKeepsHeap MallocKeepsHeap ShrinkKeepsHeap

