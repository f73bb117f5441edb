SPECIFICATION Spec
CONSTANTS
    Conns = {c1, c2, c3}
    Fds = {f1, f2, f3}
    Names = {n1}
    MAX_CLIENTS = 2
    MallocFails = TRUE
    Sighup = TRUE
    Scans = TRUE
    None = None
SYMMETRY Symmetric
CHECK_DEADLOCK FALSE
INVARIANTS TypeOK MutualExclusion RegistryExact ScanSeesClients AllPlayersListed
PROPERTIES ImplementsAbstract
