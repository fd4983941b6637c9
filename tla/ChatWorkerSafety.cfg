SPECIFICATION Spec
CONSTANTS
    w1 = w1  w2 = w2
    alice = alice  bob = bob  bot = bot
    room = room  direct = direct
    x = x  y = y  hi = hi  yo = yo  like = like
    Workers = {w1, w2}
    Users <- MCUsers
    Bots = {bot}
    EnabledBots = {bot}
    NoUser = NoUser
    Conversations = {room, direct}
    Groups = {room}
    InitMembers <- MCMembers
    InitAdmins <- MCAdmins
    ClientMessageIds = {x, y}
    Contents = {hi, yo}
    Empty = Empty
    Emojis = {like}
    Commands <- SafetyCommands
    NoCommand = NoCommand
    Workloads <- SafetyLoads
    MaxFaults = 1
SYMMETRY Symmetry
INVARIANTS LogSound NoSilentLoss UnreadBounded OutboxReplays ReadAnnounced
PROPERTIES NeverBack ImplementsChatLog
CHECK_DEADLOCK FALSE
