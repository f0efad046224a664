SPECIFICATION Spec
CONSTANTS
    Samples = 2
    MaxCharges = 2
    Outages = 6
    Restorers = {a, b}
    MaxGeneration = 3
    Persons = {t1, t2}
    MaxFollows = 2
    MaxSkills = 2
    MaxManual = 3
INVARIANTS
    SearchesEndCleanly
    ChargesOncePerRequest
    MotionIsReleased
PROPERTIES
    EpisodesAreSound
    NewerIsSpared
CHECK_DEADLOCK FALSE
