SPECIFICATION LoadFairSpec
CONSTANTS
    Stamps <- MCStamps
    Files <- MCFiles
INVARIANTS
    TypeOK
    DaysConserved
    DateExact
    HeaderExact
    SectionsTile
PROPERTY
    LoadEnds
CHECK_DEADLOCK FALSE
