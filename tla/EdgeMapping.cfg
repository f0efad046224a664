SPECIFICATION Spec
PROPERTIES
    LockEarned
    NoLeak
    OnlySoundMapsActivated
CHECK_DEADLOCK FALSE
