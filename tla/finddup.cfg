SPECIFICATION Spec
CONSTANTS
    Contents = {"", "ab", "ba", "cd", "abc"}
    LengthOf <- Length
    rc_crc32 <- Crc
    Inodes = {1, 2, 3}
    MaxPaths = 4
    INT_MAX = 7
INVARIANTS ReportedAreDuplicates DuplicatesReported LinksReported
