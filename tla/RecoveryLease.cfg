SPECIFICATION FairSpec
CONSTANTS
    Workers = {w1, w2}
    MaxAttempts = 1
    MaxDistance = 2
    MaxGeneration = 2
    MaxTasks = 2
INVARIANTS
    TypeOK
    HolderOwns
PROPERTIES
    WatchKept
    LostReleaseReclaimed
CHECK_DEADLOCK FALSE
