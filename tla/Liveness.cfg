SPECIFICATION Spec
PROPERTIES
    StartIsConcluded
    OutboxDrains
    
    RecoveryEnds
    DeadStreamEnds
CHECK_DEADLOCK FALSE
