SPECIFICATION Spec
CONSTANTS
    s1 = s1
    s2 = s2
    Symbols = {s1, s2}
    InitialCapital = 5
    InitialBooks <- MCInitialBooks
    Prices = {1, 2}
    BuyRate = 3
    SellRate = 4
    RateBase = 10
    MaxQty = 2
    MaxSession = 2
    MaxGen = 2
INVARIANTS
    TypeOK
    NoLeverage
    BookMatchesFills
    PendingClosesGap
    SellsSettleFirst
PROPERTIES
    NeverOvershoots
    HistoryIsKept
CHECK_DEADLOCK FALSE
