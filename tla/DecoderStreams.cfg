SPECIFICATION Spec
CONSTANTS
    Ops <- IsaRows
    Codes <- StreamCodes
    MaxOperands = 1024
    FirstCap = 512
    MaxAllocFailures = 1
INVARIANTS
    TypeOK
    StatementsTile
    OutcomeExact
    BlocksAccountedFor
PROPERTIES
    ImplementsStream
CHECK_DEADLOCK FALSE
