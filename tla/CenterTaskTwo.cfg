SPECIFICATION Spec
CONSTANTS
    Executions = {e1, e2}
    Commands = {c1, c2, c3}
    Controls = {"recover", "cancel", "resume_forward"}
    Messages = {"ack", "sync"}
    EdgeStates = {"running", "completed"}
    ErrorCodes = {}
    Faults = {"thread"}
    MaxVersion = 3
SYMMETRY Symmetry
INVARIANT
    OneActive
PROPERTY
    ImplementsLifecycle
CHECK_DEADLOCK FALSE
