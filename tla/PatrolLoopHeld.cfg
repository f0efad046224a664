SPECIFICATION Spec
CONSTANTS
    MaxRounds = 1
    MaxAttempts = 1
    Observation = 1
    MaxContinues = 0
    MaxPhases = 0
    MaxLost = 0
PROPERTY
    PausedStaysPaused
CHECK_DEADLOCK FALSE
