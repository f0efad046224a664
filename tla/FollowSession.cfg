SPECIFICATION Spec
CONSTANTS
    Kinds = {"person_follow_start", "person_follow_stop"}
    Tracks = {"t1"}
    Plans = {}
    MaxCommands = 4
    MaxFollows = 3
    MaxSkills = 0
INVARIANT OneFollower
CHECK_DEADLOCK FALSE
