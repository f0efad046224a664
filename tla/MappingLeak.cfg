SPECIFICATION Spec
CONSTANTS
    Callers = {c1}
    Ops = {"lock", "warmup", "save"}
    Types = {"outdoor"}
    Stops = {TRUE}
    Quality = {"ok"}
    MaxCalls = 4
    MaxDirs = 2
    MaxCrashes = 0
INVARIANT NextStartAccepted
CHECK_DEADLOCK FALSE
