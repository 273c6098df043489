SPECIFICATION Spec
CONSTANTS
    s1 = s1
    s2 = s2
    Symbols = {s1, s2}
    InitialCapital = 2
    InitialBooks <- MCInitialBooks
    Prices = {1}
    BuyRate = 3
    SellRate = 4
    RateBase = 10
    MaxQty = 2
    MaxSession = 2
    MaxGen = 1
    Runners = {"cron"}
    Unresolvable = {}
    CanCrash = TRUE
INVARIANTS
    OneLiveOrderPerDay
    PaperNeverExceedsLive
    CompletedDayIsSettled
    KillSwitchBites
CHECK_DEADLOCK FALSE
