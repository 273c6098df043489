SPECIFICATION Spec
CONSTANTS
    a = a
    b = b
    Symbols = {a}
    Foreign = {b}
    Prices = {2, 4}
    Fee = 1
    MaxQty = 2
    MaxTrades = 3
    MaxMoves = 2
INVARIANT PnlAsDocumented
CHECK_DEADLOCK FALSE
