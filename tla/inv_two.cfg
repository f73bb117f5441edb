SPECIFICATION Spec
CONSTANTS
    Clients = {a, b}
    Invs = {i1, i2}
    Ops = {"invite", "revoke", "accept", "resign"}
    SendFails = FALSE
    None = None
SYMMETRY Symmetric
CHECK_DEADLOCK FALSE
INVARIANTS GameRemovalHitsOwn
