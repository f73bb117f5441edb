SPECIFICATION Spec
CONSTANTS
    Threads = {t1, t2}
    Names = {n1, n2}
    PLAYER_INITIAL_RATING = 1500
    MaxPlayers = 2
    MaxRefs = 4
    MaxPosts = 15
    None = None
SYMMETRY Symmetric
CHECK_DEADLOCK FALSE
INVARIANT ReferencesHeld
PROPERTIES LockedUntouched NoPointsFromNowhere WinnerGains
