SPECIFICATION Spec
CONSTANTS
    w1 = w1  w2 = w2  s1 = s1  s2 = s2  phone = phone  laptop = laptop
    NoCommand = NoCommand
    Workers = {w1}
    Sessions = {s1, s2}
    Devices = {phone, laptop}
    DeviceOf <- OwnDevice
    MaxChanges = 2
    MaxFaults = 0
INVARIANTS ShownOnline
CHECK_DEADLOCK FALSE
