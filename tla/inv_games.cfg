SPECIFICATION Spec
CONSTANTS
    Clients = {a, b}
    Invs = {i1}
    Ops = {"invite", "revoke", "decline", "accept", "resign", "move", "logout"}
    SendFails = TRUE
    None = None
SYMMETRY Symmetric
CHECK_DEADLOCK FALSE
INVARIANTS TypeOK MutexesAccounted StateMatchesGame PeersShareInvitations WinnerCredited
