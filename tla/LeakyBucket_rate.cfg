SPECIFICATION LeakySpec
CONSTANTS
    Limit = 2
    Second = 4
    MaxTime = 20
CHECK_DEADLOCK FALSE
PROPERTIES RefusesForCause
