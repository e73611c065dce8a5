CONSTANTS
    r1 = r1
    r2 = r2
    Requests = {r1, r2}
    MaxPerWindow = 1
    Window = 1
    MaxClock = 2
    MaxCount = 4
SPECIFICATION LimiterSpec
PROPERTY NeverFewer
CHECK_DEADLOCK FALSE
