SPECIFICATION Spec
CONSTANTS
    InitMessages = 1
    MaxMessages = 1
    PageSize = 2
    HealLimit = 1
    Recoveries = {"first"}
    FaultKinds = {"drop"}
    Loads <- DropLoads
INVARIANT ConvergesWithoutReload
CHECK_DEADLOCK FALSE
