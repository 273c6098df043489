SPECIFICATION Spec
CONSTANTS
    Jobs = {"nightly", "bootstrap"}
    Apart = TRUE
    MaxDay = 3
    Codes = {"a", "b", "c"}
    Equity = {"a", "b"}
    Listed = {"a", "b"}
    Volume <- MCVolume
    Legacy = {3}
    AdvMin = 3
    AdvLookback = 2
    Window = 2
    MaxAge = 1
    MaxRefresh = 2
    MaxFailures = 1
INVARIANTS TypeOK StampDescribesFile NoShareIsLost
PROPERTIES Publishes RefreshesEnd
CHECK_DEADLOCK FALSE
