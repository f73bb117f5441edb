SPECIFICATION Spec
CONSTANTS
    Clients = {a, b}
    Invs = {i1}
    Ops = {"invite", "accept", "move"}
    SendFails = FALSE
    None = None
CHECK_DEADLOCK FALSE
INVARIANT PostedAsPlayed
