SPECIFICATION Spec
CONSTANTS
    AddrSpace = 1048576
    Base = 1048570
    Programs <- MCPrograms
    Windows = {6, 9}
    Junk = {0, 255}
INVARIANTS
    TypeOK
    AnalysisAgrees
    WithinBlock
    ListingInStep
    TargetsExact
    NothingMissed
PROPERTY Finishes
CHECK_DEADLOCK FALSE
