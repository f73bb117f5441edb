SPECIFICATION Spec
CONSTANTS
    Threads = {t1, t2}
    Names = {n1, n2}
    PLAYER_INITIAL_RATING = 1500
    MaxPlayers = 2
    MaxRefs = 5
    MaxPosts = 1
    None = None
CHECK_DEADLOCK FALSE
PROPERTY DrawBetweenEquals
