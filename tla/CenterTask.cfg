SPECIFICATION FairSpec
CONSTANTS
    Executions = {e1}
    Commands = {c1, c2}
    Controls = {"pause", "cancel", "resume", "force_exit"}
    Messages = {"ack", "progress", "result", "event", "sync"}
    EdgeStates = {"accepted", "running", "pausing", "paused", "resuming", "cancelling",
                  "cancelled", "completed", "failed", "interrupted"}
    ErrorCodes = {"COMMAND_EXPIRED", "OTHER"}
    Faults = {"broker"}
    MaxVersion = 3
INVARIANTS
    TypeOK
PROPERTIES
    EndedByTimeout
    VersionsAdvance
    EndIsFinal
    StartFollowsEnd
    StartStaysClosed
    CommandCloses
    DispatchResolves
CHECK_DEADLOCK FALSE
