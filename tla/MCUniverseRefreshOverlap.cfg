SPECIFICATION Spec
CONSTANTS
    Jobs = {"nightly", "bootstrap"}
    Apart = FALSE
    MaxDay = 1
    Codes = {"a", "b", "c"}
    Equity = {"a", "b"}
    Listed = {"a", "b"}
    Volume <- MCVolume
    Legacy = {}
    AdvMin = 3
    AdvLookback = 2
    Window = 2
    MaxAge = 1
    MaxRefresh = 2
    MaxFailures = 0
INVARIANT PublishedWhole
CHECK_DEADLOCK FALSE
