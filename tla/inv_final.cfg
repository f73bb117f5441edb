SPECIFICATION Spec
CONSTANTS
    Clients = {a, b}
    Invs = {i1}
    Ops = {"invite", "revoke", "accept"}
    SendFails = FALSE
    None = None
CHECK_DEADLOCK FALSE
PROPERTY ClosedIsFinal
