SPECIFICATION MCSpec
CONSTANTS
    p1 = p1  p2 = p2  r1 = r1  r2 = r2  r3 = r3
    alice = alice  bob = bob  room = room  x = x  hi = hi  like = like
    Empty = Empty  NoUser = NoUser  NoCommand = NoCommand
    Replicas = {p1, p2}
    Rows = {r1, r2, r3}
    BatchSize = 2
    MaxAttempts = 2
    MaxFaults = 2
INVARIANTS PublishedDelivered DuplicatesBounded
PROPERTIES RowsSettle 
CHECK_DEADLOCK FALSE
