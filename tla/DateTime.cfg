SPECIFICATION Spec
CONSTANTS
    Stamps <- MCStamps
INVARIANT
    TimeExact
CHECK_DEADLOCK FALSE
