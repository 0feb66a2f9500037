SPECIFICATION Spec
CONSTANTS
    Ops <- IsaRows
    MaxOperands = 1024
    FirstCap = 512
    Images <- MCImages
    DataLens <- MCDataLens
    Window = 8
    ScanMax = 6
    ScanBytes = 32
INVARIANTS
    TypeOK
    BodyTargetsExact
    LabelsKeepFlags
    AccessesFollowModes
