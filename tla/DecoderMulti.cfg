SPECIFICATION FairSpec
CONSTANTS
    Ops <- MixedRows
    Codes <- MixedCodes
    MaxOperands = 6
    FirstCap = 3
    MaxAllocFailures = 0
INVARIANTS
    OneAtATime
    OperandsPaidFor
    MultiCountHonoured
    SelectionOptimal
PROPERTIES
    Terminates
CHECK_DEADLOCK FALSE
