SPECIFICATION Spec
CONSTANTS
    Observation = 1
    LongRounds = 2
    LongAttempts = 2
    BatteryRounds = 1
    BatteryAttempts = 1
PROPERTIES
    LatchedIsStopped
    LoopIsSupervised
    SchedulesFireOnce
    HistoryIsKept
    IncidentsAreTold
    VerdictsAreEarned
CHECK_DEADLOCK FALSE
