SPECIFICATION Spec
CONSTANTS
    s1 = s1
    s2 = s2
    s3 = s3
    Symbols = {s1, s2, s3}
    Bars <- MCBars
    VolumeMin = 2
    AtrMax = 3
    AtrBase = 6
    MaxPositions = 2
    MinPositions = 1
    Capital = 30
    CostBps = 10
    MaxDay = 2
    MaxFailures = 1
    MaxCrash = 1
SYMMETRY Symmetry
INVARIANTS
    TypeOK
    SelectsTheBest
    SizedToCapital
    HeldResolves
CHECK_DEADLOCK FALSE
