SPECIFICATION Spec
INVARIANTS
    OneMover
PROPERTIES
    StartIsLocalized
    EffectsOnce
CHECK_DEADLOCK FALSE
