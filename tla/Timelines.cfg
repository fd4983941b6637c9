SPECIFICATION MCSpec
CONSTANTS
    alice = alice  duong = duong  NoUser = NoUser
    InitMessages = 2
    MaxMessages = 4
    PageSize = 2
    HealLimit = 1
    Recoveries = {"first", "second"}
    FaultKinds = {"drop", "relay", "fetch"}
    Loads <- WebLoads
INVARIANTS
     LiveRowsCurrent BufferingEnds
    MobileNoHole MobileRowsCurrent MobileBufferingEnds ReadCatchesUp
CHECK_DEADLOCK FALSE
