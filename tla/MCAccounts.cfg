SPECIFICATION Spec
CONSTANTS
    Symbols = {s1, s2}
    Seed = 26
    Prices = {8, 16}
    Grain <- MCGrain
    Fee = 1
    MaxQty = 2
    MaxFills = 3
    MaxDay = 2
SYMMETRY Symmetry
INVARIANTS
    TypeOK
    ReplaysAgree
    TilesAgree
    QuietDayShowsNoChange
CHECK_DEADLOCK FALSE
