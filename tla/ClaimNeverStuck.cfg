SPECIFICATION SpecNoNetwork
CONSTANTS
    m1 = m1  m2 = m2
    Messages = {m1}
    MaxDrops = 1
    MaxRetries = 0
    MaxRejects = 0
PROPERTY NeverStuckSending
CHECK_DEADLOCK FALSE
