------------------------------ MODULE MCServices -------------------------------
(***************************************************************************)
(* Small instances of the services and their tables: Groups and DirectPair *)
(* of the API, Presence, the notification-worker, and the rules of the     *)
(* bot-worker.  A behaviour is one of one part, the others stay as they    *)
(* start.                                                                  *)
(***************************************************************************)
EXTENDS Groups, Sequences, TLC

CONSTANTS alice, bob, bot, r1, r2,                    \* Groups
          ann, ben, cem, d1, d2, d3, k1, k2, k3, k4,  \* DirectPair
          w1, s1, s2, phone, laptop,                  \* Presence
          NoKey, NoCommand,
          snd, off, on                                \* Notifications

VARIABLES part,
          exists, key, members, announced, request, answers,
          session, queue, job, pc, changed, conn, devs, handled, events, shown,
          grace, connects, faults,
          inRoom, online, created, pushes, pushing, pushed, recorded, moves, twice,
          sawOffline, stayed, excused,
          msgs, reactions, seen, commands, scheduled, run, state, cooldown, human, made,
          dup, keysSet, overlap

groupVars    == vars
directVars   == <<exists, key, members, announced, request, answers>>
presenceVars == <<session, queue, job, pc, changed, conn, devs, handled, events, shown,
                  grace, connects, faults>>
pushVars     == <<inRoom, online, created, pushes, pushing, pushed, recorded, moves, twice,
                  sawOffline, stayed, excused>>
botVars      == <<msgs, reactions, seen, commands, scheduled, run, state, cooldown, human,
                  made, dup, keysSet, overlap>>

(* One pair; legacy rows from an empty shell to the full pair, and a row   *)
(* of somebody else.                                                       *)
D == INSTANCE DirectPair WITH
        Requests <- {d1, d2, d3}, Users <- {ann, ben, cem}, Pairs <- {{ann, ben}},
        Conversations <- {k1, k2, k3, k4},
        LegacyMembers <- {{}, {ann}, {ann, ben}, {ann, ben, cem}}
(* One worker, two devices with a connection each.                         *)
P == INSTANCE Presence WITH
        Workers <- {w1}, Sessions <- {s1, s2}, Devices <- {phone, laptop},
        DeviceOf <- (s1 :> phone) @@ (s2 :> laptop), MaxChanges <- 3, MaxFaults <- 2

(* One message of snd to two others.                                       *)
N == INSTANCE Notifications WITH
        Users <- {snd, off, on}, Sender <- [m \in {"m"} |-> snd], MaxMoves <- 3,
        MaxTwice <- 1, members <- inRoom, queue <- pushes, run <- pushing
(* A rule that answers a reaction by a reaction and a job, one that keeps  *)
(* state for every message, one that asks for that state, drops it and counts.*)
Act(type, what) == [type |-> type, what |-> what, key |-> what]
If(field, operator) == [field |-> field, operator |-> operator]
RuleDefs == <<
    [bot |-> "sys", trigger |-> [event |-> "reaction.added"], conditions |-> {If("k2", "not_equals")},
     actions |-> <<Act("react", "heart"), Act("schedule", "none")>>],
    [bot |-> "sys", trigger |-> [event |-> "message.created"], conditions |-> {},
     actions |-> <<Act("set", "k1")>>],
    [bot |-> "sys", trigger |-> [command |-> "status"], conditions |-> {If("k1", "exists")},
     actions |-> <<Act("set", "k2"), Act("unset", "k1"), Act("count", "none")>>]>>
B == INSTANCE Bots WITH
        Users <- {"u"}, BotId <- "bot", Def <- RuleDefs, Allow <- [b \in {"sys"} |-> FALSE],
        Commands <- {"status"}, Dynamic <- {"status"}, Emojis <- {"like"}, Slots <- 1..2,
        MaxHuman <- 1, MaxMade <- 3, MaxDup <- 1,
        events <- seen, session <- state, written <- keysSet

Symmetry == Permutations(Requests) \cup Permutations(Users \ Bots)

(* The initial states of the parts that stay as they start.                *)
Alone == Cardinality(Members(role)) = 1
MCInit ==
    /\ part \in {"groups", "direct", "presence", "pushes", "bots"}
    /\ Init /\ (part = "groups" \/ Alone)
    /\ IF part = "direct" THEN D!Init ELSE exists = {} /\ D!Init
    /\ P!Init
    /\ N!Init /\ (part = "pushes" \/ online = {})
    /\ B!Init

InGroups(A)   == /\ part = "groups" /\ A
                 /\ UNCHANGED <<part, directVars, presenceVars, pushVars, botVars>>
InDirect(A)   == /\ part = "direct" /\ A
                 /\ UNCHANGED <<part, groupVars, presenceVars, pushVars, botVars>>
InPresence(A) == /\ part = "presence" /\ A
                 /\ UNCHANGED <<part, groupVars, directVars, pushVars, botVars>>
InPushes(A)   == /\ part = "pushes" /\ A
                 /\ UNCHANGED <<part, groupVars, directVars, presenceVars, botVars>>
InBots(A)     == /\ part = "bots" /\ A
                 /\ UNCHANGED <<part, groupVars, directVars, presenceVars, pushVars>>

GroupsNext == \E r \in Requests :
    \/ \E op \in {"add", "remove", "delete"}, a \in Users, S \in SUBSET Users :
          InGroups(Start(r, op, a, S))
    \/ InGroups(AddRows(r)) \/ InGroups(RemoveRows(r)) \/ InGroups(Find(r))
    \/ InGroups(Promote(r)) \/ InGroups(Emit(r)) \/ InGroups(Commit(r))
    \/ InGroups(Tombstone(r)) \/ InGroups(Abort(r))

DirectNext == \E r \in {d1, d2, d3} :
    \/ InDirect(D!Lookup(r, {ann, ben})) \/ InDirect(D!FindLegacy(r))
    \/ InDirect(D!Adopt(r)) \/ InDirect(D!Create(r)) \/ InDirect(D!Winner(r))
    \/ InDirect(D!Repair(r)) \/ InDirect(D!Restore(r)) \/ InDirect(D!Fail(r))

PresenceNext ==
    \/ \E s \in {s1, s2} :
          \/ InPresence(P!Connect(s)) \/ InPresence(P!Disconnect(s))
          \/ InPresence(P!Lose(s)) \/ InPresence(P!Will(s))
    \/ InPresence(P!Deliver(w1)) \/ InPresence(P!Fail(w1))
    \/ InPresence(P!SetConnection(w1)) \/ InPresence(P!AddDevice(w1))
    \/ InPresence(P!RemoveDevice(w1)) \/ InPresence(P!ReadMembers(w1))
    \/ InPresence(P!DropSet(w1)) \/ InPresence(P!DropFails(w1))
    \/ InPresence(P!Emit(w1)) \/ InPresence(P!Ack(w1))
    \/ InPresence(P!Show) \/ InPresence(P!GraceExpires)

PushesNext ==
    \/ InPushes(N!Created("m")) \/ InPushes(N!Take("m")) \/ InPushes(N!Crash)
    \/ \E u \in {snd, off, on} :
          \/ InPushes(N!Come(u)) \/ InPushes(N!Go(u))
          \/ InPushes(N!Join(u)) \/ InPushes(N!Leave(u))
          \/ InPushes(N!Check("m", u)) \/ InPushes(N!CheckFails("m", u))
          \/ InPushes(N!Send("m", u)) \/ InPushes(N!Record("m", u))
          \/ InPushes(N!Throws("m", u))

BotsNext ==
    \/ InBots(B!Say("u", "status"))
    \/ \E m \in 1..msgs : InBots(B!React("u", m, "like"))
    \/ \E c \in commands : InBots(B!HandleBotSend(c))
    \/ \E c \in commands : InBots(B!HandleReactionAdd(c))
    \/ \E s \in 1..2 :
          \/ \E e \in seen : InBots(B!Take(s, e))
          \/ InBots(B!Evaluate(s)) \/ InBots(B!Acquire(s)) \/ InBots(B!SendOrReact(s))
          \/ InBots(B!Schedule(s)) \/ InBots(B!IncrementCounter(s))
          \/ InBots(B!ReadState(s)) \/ InBots(B!WriteState(s))
          \/ InBots(B!DeleteState(s))
          \/ InBots(B!ActionEnds(s)) \/ InBots(B!EndRun(s))
    \/ \E c \in scheduled : InBots(B!RunJob(c))
    \/ \E k \in cooldown : InBots(B!CooldownExpires(k))
    \/ \E c \in B!Scopes : InBots(B!StateExpires(c))
    \/ InBots(B!Crash)

MCNext == GroupsNext \/ DirectNext \/ PresenceNext \/ PushesNext \/ BotsNext
MCSpec == MCInit /\ [][MCNext]_<<part, groupVars, directVars, presenceVars, pushVars, botVars>>

(* DirectPair: all requests for a pair get one conversation with exactly   *)
(* the two in it.                                                          *)
AnswersHonest == D!AnswersHonest
(* Presence: the presence set says what the last commands said.            *)
PresenceHonest == P!PresenceHonest
(* Notifications: who is pushed was offline, who stayed offline is pushed. *)
PushesHonest == N!PushesHonest
(* Bots: what bots do in answer to bots comes to an end.                   *)
ChainBounded == B!ChainBounded
(* Bots: what one rule has written is not undone by the next.              *)
SerialStateKept == B!SerialStateKept
================================================================================
