SPECIFICATION MCSpec
CONSTANTS
    p1 = p1  once = once  daily = daily
    Replicas = {p1}
    Jobs = {once, daily}
    Recurring = {daily}
    Actions = 2
    MaxAttempts = 3
    MaxFaults = 2
INVARIANTS JobsSent
PROPERTIES OutcomeFinal JobsEnd EditsTakeEffect IndicatorClears
CHECK_DEADLOCK FALSE
