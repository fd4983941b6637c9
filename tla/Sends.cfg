SPECIFICATION Spec
CONSTANTS
    m1 = m1  m2 = m2
    Messages = {m1, m2}
    MaxDrops = 2
    MaxRetries = 1
    MaxRejects = 1
INVARIANTS NeverLost
PROPERTIES ReconcileFinal SendsSettle
CHECK_DEADLOCK FALSE
