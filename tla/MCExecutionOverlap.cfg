SPECIFICATION Spec
CONSTANTS
    s1 = s1
    s2 = s2
    Symbols = {s1, s2}
    InitialCapital = 2
    InitialBooks <- MCInitialBooks
    Prices = {1}
    BuyRate = 3
    SellRate = 4
    RateBase = 10
    MaxQty = 1
    MaxSession = 1
    MaxGen = 2
    Runners = {"cron", "inbox"}
    Unresolvable = {s2}
    CanCrash = FALSE
INVARIANTS
    OneLiveOrderPerDay
CHECK_DEADLOCK FALSE
