SPECIFICATION Spec
CONSTANTS
    w1 = w1  w2 = w2
    alice = alice  bob = bob  bot = bot
    room = room  direct = direct
    x = x  y = y  hi = hi  yo = yo  like = like
    Workers = {w1, w2}
    Users <- MCUsers
    Bots = {bot}
    EnabledBots = {bot}
    NoUser = NoUser
    Conversations = {room, direct}
    Groups = {room}
    InitMembers <- MCMembers
    InitAdmins <- MCAdmins
    ClientMessageIds = {x, y}
    Contents = {hi, yo}
    Empty = Empty
    Emojis = {like}
    Commands <- EditDeleteCommands
    NoCommand = NoCommand
    Workloads <- EditDeleteLoads
    MaxFaults = 0
INVARIANT DeletedStaysEmpty
CHECK_DEADLOCK FALSE
