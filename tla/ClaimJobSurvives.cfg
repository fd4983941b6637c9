SPECIFICATION LiveSpec
CONSTANTS
    p1 = p1  once = once  daily = daily
    Replicas = {p1}
    Jobs = {once, daily}
    Recurring = {daily}
    Actions = 2
    MaxAttempts = 2
    MaxFaults = 1
PROPERTY JobsSurvive
CHECK_DEADLOCK FALSE
