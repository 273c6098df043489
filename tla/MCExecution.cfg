SPECIFICATION FairSpec
CONSTANTS
    s1 = s1
    s2 = s2
    Symbols = {s1}
    InitialCapital = 2
    InitialBooks <- MCOneHeld
    Prices = {1}
    BuyRate = 3
    SellRate = 4
    RateBase = 10
    MaxQty = 1
    MaxSession = 1
    MaxGen = 2
    Runners = {"cron", "inbox"}
    Unresolvable = {}
    CanCrash = TRUE
INVARIANTS
    TypeOK
    
PROPERTIES
    PaperContract
    RunsEnd
    CompletedDayIsQuiet
CHECK_DEADLOCK FALSE
