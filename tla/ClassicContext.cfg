SPECIFICATION Spec
CONSTANTS
    AddrSpace = 1048576
    Base = 1048570
    Programs <- MCWordPrograms
    Windows = {6, 9}
    Junk = {0, 255}
INVARIANT ListingInStep
CHECK_DEADLOCK FALSE
