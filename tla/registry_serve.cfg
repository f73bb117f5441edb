SPECIFICATION FairSpec
CONSTANTS
    Conns = {c1, c2, c3}
    Fds = {f1, f2, f3}
    Names = {n1}
    MAX_CLIENTS = 2
    MallocFails = FALSE
    Sighup = FALSE
    Scans = FALSE
    None = None
INVARIANTS PinAccounting UnregisterNeverWaits NoEarlyReturn
PROPERTIES ServiceEnds AdmissionProceeds
