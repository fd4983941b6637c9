SPECIFICATION MCSpec
CONSTANTS
    alice = alice  bob = bob  bot = bot  r1 = r1  r2 = r2
    ann = ann  ben = ben  cem = cem  d1 = d1  d2 = d2  d3 = d3
    k1 = k1  k2 = k2  k3 = k3  k4 = k4
    w1 = w1  s1 = s1  s2 = s2  phone = phone  laptop = laptop
    snd = snd  off = off  on = on
    NoKey = NoKey  NoCommand = NoCommand
    Requests = {r1, r2}
    Users = {alice, bob, bot}
    Bots = {bot}
SYMMETRY Symmetry
INVARIANTS
    BotsNeverAdmin SerialAdminRemains SerialEventCurrent
     PresenceHonest PushesHonest ChainBounded SerialStateKept
 
CHECK_DEADLOCK FALSE
