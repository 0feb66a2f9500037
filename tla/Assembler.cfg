SPECIFICATION Spec
CONSTANTS
    Ops <- AsmRows
    Names <- IsaNames
    MaxOperands = 8
    FirstCap = 6
    Typed <- TypedLines
    Codes <- ShownCodes
INVARIANTS TypeOK WholeStatement   Settled ShortcutsAgree
CHECK_DEADLOCK FALSE
