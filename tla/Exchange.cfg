SPECIFICATION Spec
CONSTANTS
    Threads = {t1, t2}
    Overlap = FALSE
    MaxRev = 2
    MaxOrders = 3
    MaxZoneEdits = 1
    MaxMoves = 2
    MaxRestarts = 1
SYMMETRY Symmetry
INVARIANTS
    BoundaryIsKept
PROPERTIES
    CommandsAreHonoured
    TrajectoryIsExact
    SpeechIsTruthful
CHECK_DEADLOCK FALSE
