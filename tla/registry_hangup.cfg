SPECIFICATION FairSpec
CONSTANTS
    Conns = {c1, c2}
    Fds = {f1, f2, f3}
    Names = {n1}
    MAX_CLIENTS = 2
    MallocFails = FALSE
    Sighup = TRUE
    Scans = FALSE
    None = None
CHECK_DEADLOCK FALSE
PROPERTY ShutdownCompletes
