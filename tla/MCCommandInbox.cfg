SPECIFICATION Spec
CONSTANTS
    MaxClicks = 3
    MaxDay = 2
    MaxCrashes = 2
INVARIANTS
    TypeOK
    OneRunPerClick
    RunsAreWantedToday
PROPERTIES
    ClickIsAnswered
CHECK_DEADLOCK FALSE
