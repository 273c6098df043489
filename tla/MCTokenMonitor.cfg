SPECIFICATION Spec
CONSTANTS
    monday = monday
    tuesday = tuesday
    NoToken = NoToken
    Tokens = {monday, tuesday}
    Expires <- TwoDays
    OneHour = 2
    TenMinutes = 1
    MaxTime = 6
    MaxEdits = 2
    MaxToggles = 1
    MaxStarts = 1
INVARIANTS TypeOK FreshTokenIsArmed
PROPERTIES TokenReachesClient EveryExpiryEndsLive
CHECK_DEADLOCK FALSE
