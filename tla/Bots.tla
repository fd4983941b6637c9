---------------------------------- MODULE Bots ----------------------------------
(***************************************************************************)
(* How the bot-worker turns canonical events into commands, and the        *)
(* chat-worker turns those into events again: the handlers of the SDK, the *)
(* rules with their state, cooldowns and actions, several runs at a time,  *)
(* in one process or in several.  The rules are those of one moment: how   *)
(* they change is in BotAdmin.                                             *)
(***************************************************************************)
EXTENDS Integers, FiniteSets, SequencesExt

CONSTANTS
    Users, BotId,       \* BotId: the identity of the transport, system-bot
    Def,                \* the rules in the order of the loops: bot, trigger, conditions, actions
    Allow,              \* settings.allowBotMessages of each bot
    Commands, Dynamic,  \* commands people type; those the dynamic responder answers
    Emojis,             \* that people use
    Slots,              \* handler runs under way at once
    MaxHuman, MaxMade, MaxDup   \* bounds: what people do, commands, redeliveries

VARIABLES
    msgs, reactions,    \* stored messages; <<message, user, emoji>>
    events, commands,   \* on their way to the bot-worker, to the chat-worker
    scheduled,          \* BotScheduledJob rows
    run,                \* the handler runs
    session, cooldown,  \* in Redis
    human, made, dup,   \* counters of the bounds
    written, overlap    \* history: keys set, and scopes two runs wrote at once
vars == <<msgs, reactions, events, commands, scheduled, run, session, cooldown, human, made, dup,
          written, overlap>>

Scopes == {Def[i].bot : i \in DOMAIN Def} \X (Users \cup {BotId})
Idle == [pc |-> "idle"]
Empty == [kind |-> "none", keys |-> {}]

Init == /\ msgs = 1 /\ reactions = {} /\ events = {} /\ commands = {} /\ scheduled = {}
        /\ run = [s \in Slots |-> Idle]
        /\ session = [c \in Scopes |-> Empty] /\ cooldown = {} /\ human = 0 /\ made = 0 /\ dup = 0
        /\ written = [c \in Scopes |-> {}] /\ overlap = {}

History == <<written, overlap>>
Redis == <<session, cooldown>>
Chat == <<msgs, reactions>>

MessageCreated(who, m, text, depth) ==
    [type |-> "message.created", origin |-> IF who = BotId THEN "bot" ELSE "user", sender |-> who,
     msg |-> m, text |-> text, depth |-> depth]
(* The origin of a reaction is its user, whoever that is.                  *)
ReactionAdded(who, m, depth) ==
    [type |-> "reaction.added", origin |-> "user", sender |-> who, msg |-> m, text |-> "none",
     depth |-> depth]
-----------------------------------------------------------------------------
(* People.                                                                 *)
Say(u, c) == /\ human < MaxHuman /\ human' = human + 1
             /\ msgs' = msgs + 1
             /\ events' = events \cup {MessageCreated(u, msgs + 1, c, 0)}
             /\ UNCHANGED <<reactions, commands, scheduled, run, Redis, made, dup, History>>
React(u, m, e) == /\ human < MaxHuman /\ human' = human + 1
                  /\ <<m, u, e>> \notin reactions
                  /\ reactions' = reactions \cup {<<m, u, e>>}
                  /\ events' = events \cup {ReactionAdded(u, m, 0)}
                  /\ UNCHANGED <<msgs, commands, scheduled, run, Redis, made, dup, History>>
-----------------------------------------------------------------------------
(* The chat-worker; the bot is enabled and a member of the conversation.   *)
HandleBotSend(c) ==
    /\ c.type = "send" /\ commands' = commands \ {c}
    /\ msgs' = msgs + 1
    /\ events' = events \cup {MessageCreated(BotId, msgs + 1, c.what, c.depth + 1)}
    /\ UNCHANGED <<human, reactions, scheduled, run, Redis, made, dup, History>>

MutantAnnouncesAgain(c) ==
    /\ c.type = "react" /\ commands' = commands \ {c}
    /\ reactions' = reactions \cup {<<c.msg, BotId, c.what>>}
    /\ events' = events \cup {ReactionAdded(BotId, c.msg, c.depth + 1)}
    /\ UNCHANGED <<human, msgs, scheduled, run, Redis, made, dup, History>>
HandleReactionAdd(c) ==
    /\ c.type = "react" /\ commands' = commands \ {c}
    /\ reactions' = reactions \cup {<<c.msg, BotId, c.what>>}
    /\ events' = IF <<c.msg, BotId, c.what>> \in reactions THEN events
                 ELSE events \cup {ReactionAdded(BotId, c.msg, c.depth + 1)}
    /\ UNCHANGED <<human, msgs, scheduled, run, Redis, made, dup, History>>
-----------------------------------------------------------------------------
(* The transport: a message has a fresh clientMessageId for every call.    *)
Command(type, what, e) ==
    [type |-> type, what |-> what, msg |-> e.msg, depth |-> e.depth,
     id |-> IF type = "send" THEN made + 1 ELSE 0]
Publish(c) == commands' = commands \cup {c} /\ made' = made + 1
(* Or the broker rejects it, and the handler goes on.                      *)
Try(c) == \/ made < MaxMade /\ Publish(c)
          \/ UNCHANGED <<commands, made>>

(* bot.processEvent: nothing for events of bots; /status and the like get  *)
(* one answer of the dynamic responder, whatever it finds out.             *)
OnMessage(e) == e.text \in Dynamic
SdkAnswers(e) == e.origin # "bot" /\ e.type = "message.created" /\ OnMessage(e)
Respond(e) == Try(Command("send", "none", e))

LoopProtected(r, e) == e.origin = "bot" => Allow[r.bot]
Triggers(r, e) == IF "command" \in DOMAIN r.trigger
                  THEN e.type = "message.created" /\ e.text = r.trigger.command
                  ELSE e.type = r.trigger.event
(* The rules whose turn comes, in order, if nothing throws.                *)
Matching(e) == SelectSeq([i \in DOMAIN Def |-> i],
                         LAMBDA i : LoopProtected(Def[i], e) /\ Triggers(Def[i], e))

(* An event arrives, is acknowledged at once and handled besides others.   *)
Take(s, e) ==
    /\ run[s] = Idle
    /\ \/ events' = events \ {e} /\ UNCHANGED dup
       \/ dup < MaxDup /\ dup' = dup + 1 /\ UNCHANGED events
    /\ IF SdkAnswers(e) THEN Respond(e) ELSE UNCHANGED <<commands, made>>
    /\ run' = [run EXCEPT ![s] = [pc |-> "rules", ev |-> e, todo |-> Matching(e), acts |-> <<>>]]
    /\ UNCHANGED <<human, Chat, scheduled, Redis, History>>

Rule(s) == Def[Head(run[s].todo)]
Scope(s) == <<Rule(s).bot, run[s].ev.sender>>
Onward(s) == [run[s] EXCEPT !.pc = "rules", !.todo = Tail(@), !.acts = <<>>]
After(s) == IF Len(run[s].acts) = 1 THEN Onward(s)
            ELSE [run[s] EXCEPT !.pc = "acting", !.acts = Tail(@)]
Becomes(s, r) == run' = [run EXCEPT ![s] = r]

(* All hold; a negative operator holds of a key that is not there.         *)
Holds(c, keys) == (c.field \in keys) = (c.operator = "exists")
Conditions(r, keys) == \A c \in r.conditions : Holds(c, keys)

(* getState, then the conditions.  A counter has made the key a hash: GET  *)
(* throws out of processEvent and the run is over.                         *)
Evaluate(s) ==
    /\ run[s].pc = "rules" /\ run[s].todo # <<>>
    /\ Becomes(s, CASE session[Scope(s)].kind = "hash" -> Idle
                    [] session[Scope(s)].kind # "hash" /\ Conditions(Rule(s), session[Scope(s)].keys) ->
                         [run[s] EXCEPT !.pc = "cooldown"]
                    [] OTHER -> Onward(s))
    /\ UNCHANGED <<human, Chat, events, commands, scheduled, Redis, made, dup, History>>

(* tryAcquireCooldown: SET NX EX.                                          *)
Acquire(s) ==
    LET key == <<Head(run[s].todo), run[s].ev.sender>>
    IN /\ run[s].pc = "cooldown"
       /\ cooldown' = cooldown \cup {key}
       /\ Becomes(s, IF key \in cooldown \/ Rule(s).actions = <<>> THEN Onward(s)
                     ELSE [run[s] EXCEPT !.pc = "acting", !.acts = Rule(s).actions])
       /\ UNCHANGED <<human, Chat, events, commands, scheduled, session, made, dup, History>>

Acting(s, type) == run[s].pc = "acting" /\ Head(run[s].acts).type = type

SendOrReact(s) ==
    /\ Acting(s, "send") \/ Acting(s, "react")
    /\ made < MaxMade
    /\ Publish(Command(Head(run[s].acts).type, Head(run[s].acts).what, run[s].ev))
    /\ Becomes(s, After(s))
    /\ UNCHANGED <<human, Chat, events, scheduled, Redis, dup, History>>

(* A job for later; the scheduler sends its message.                       *)
Schedule(s) ==
    /\ Acting(s, "schedule")
    /\ made < MaxMade /\ made' = made + 1
    /\ scheduled' = scheduled \cup {Command("send", Head(run[s].acts).what, run[s].ev)}
    /\ Becomes(s, After(s))
    /\ UNCHANGED <<human, Chat, events, commands, Redis, dup, History>>
RunJob(c) == /\ scheduled' = scheduled \ {c} /\ commands' = commands \cup {c}
             /\ UNCHANGED <<human, Chat, events, run, Redis, made, dup, History>>

IncrementCounter(s) ==
    /\ Acting(s, "count") /\ session[Scope(s)].kind # "json"
    /\ session' = [session EXCEPT ![Scope(s)] = [kind |-> "hash", keys |-> {}]]
    /\ Becomes(s, After(s))
    /\ UNCHANGED <<human, Chat, events, commands, scheduled, cooldown, made, dup, History>>

(* set_state and delete_state read the object, and write it back in        *)
(* another step.                                                           *)
With(r, keys) == [f \in DOMAIN r \cup {"read"} |-> IF f = "read" THEN keys ELSE r[f]]
ReadState(s) ==
    /\ Acting(s, "set") \/ Acting(s, "unset")
    /\ session[Scope(s)].kind # "hash"
    /\ "read" \notin DOMAIN run[s]
    /\ Becomes(s, With(run[s], session[Scope(s)].keys))
    /\ UNCHANGED <<human, Chat, events, commands, scheduled, Redis, made, dup, History>>
Without(r) == [f \in DOMAIN r \ {"read"} |-> r[f]]
MutantOnlyTheKey(read, key) == {key}
Stored(read, key) == read \cup {key}
Write(s, keys, wrote) ==
    /\ session' = [session EXCEPT ![Scope(s)] = [kind |-> "json", keys |-> keys]]
    /\ written' = [written EXCEPT ![Scope(s)] = wrote]
    /\ overlap' = IF \E t \in Slots \ {s} : "read" \in DOMAIN run[t] /\ Scope(t) = Scope(s)
                  THEN overlap \cup {Scope(s)} ELSE overlap
    /\ Becomes(s, Without(After(s)))
    /\ UNCHANGED <<human, Chat, events, commands, scheduled, cooldown, made, dup>>
WriteState(s) ==
    LET key == Head(run[s].acts).key
    IN  /\ "read" \in DOMAIN run[s] /\ Acting(s, "set")
        /\ Write(s, Stored(run[s].read, key), written[Scope(s)] \cup {key})
DeleteState(s) ==
    LET key == Head(run[s].acts).key
    IN  /\ "read" \in DOMAIN run[s] /\ Acting(s, "unset")
        /\ Write(s, run[s].read \ {key}, written[Scope(s)] \ {key})

(* An action throws: it is logged as FAILED, and the next one is tried.    *)
(* A delay, or a type that only the dynamic responder knows, just ends.    *)
ActionEnds(s) ==
    /\ run[s].pc = "acting"
    /\ Becomes(s, Without(After(s)))
    /\ UNCHANGED <<human, Chat, events, commands, scheduled, Redis, made, dup, History>>

(* The event log row; the handler ends.                                    *)
EndRun(s) == /\ run[s].pc = "rules" /\ run[s].todo = <<>>
             /\ Becomes(s, Idle)
             /\ UNCHANGED <<human, Chat, events, commands, scheduled, Redis, made, dup, History>>

(* The process dies: what it had acknowledged is lost.                     *)
Crash == /\ \E s \in Slots : run[s] # Idle
         /\ run' = [s \in Slots |-> Idle]
         /\ UNCHANGED <<human, Chat, events, commands, scheduled, Redis, made, dup, History>>

CooldownExpires(key) == /\ cooldown' = cooldown \ {key}
                        /\ UNCHANGED <<human, Chat, events, commands, scheduled, run, session, made, dup, History>>
(* Written state lives 30 minutes; a counter has no end.                   *)
StateExpires(c) ==
    /\ session[c].kind = "json"
    /\ session' = [session EXCEPT ![c] = Empty]
    /\ written' = [written EXCEPT ![c] = {}]
    /\ UNCHANGED <<human, Chat, events, commands, scheduled, run, cooldown, made, dup, overlap>>

Next == \/ \E u \in Users, c \in Commands : Say(u, c)
        \/ \E u \in Users, m \in 1..msgs, e \in Emojis : React(u, m, e)
        \/ \E c \in commands : HandleBotSend(c) \/ HandleReactionAdd(c)
        \/ \E s \in Slots, e \in events : Take(s, e)
        \/ \E s \in Slots : Evaluate(s) \/ Acquire(s) \/ SendOrReact(s) \/ Schedule(s)
                            \/ IncrementCounter(s) \/ ReadState(s) \/ WriteState(s) \/ DeleteState(s)
                            \/ ActionEnds(s) \/ EndRun(s)
        \/ \E c \in scheduled : RunJob(c)
        \/ \E key \in cooldown : CooldownExpires(key)
        \/ \E c \in Scopes : StateExpires(c)
        \/ Crash
Spec == Init /\ [][Next]_vars
-----------------------------------------------------------------------------
Depths == {x.depth : x \in events \cup commands \cup scheduled}
RuleEmojis == {a.what : a \in {a \in UNION {ToSet(Def[i].actions) : i \in DOMAIN Def} : a.type = "react"}}

(* What one message or reaction of a person sets off ends: a bot's         *)
(* reactions pass as a user's (reactions.ts:31), so rules answer them, but *)
(* each emoji only once per message, and its messages are not answered.    *)
ChainBounded ==
    (\A b \in DOMAIN Allow : ~Allow[b]) => \A d \in Depths : d <= Cardinality(RuleEmojis) + 1

(* What rules have put into a person's state stays there until it expires, *)
(* unless two runs read it before either wrote it (rule-engine.ts:268-270).*)
SerialStateKept == \A c \in Scopes : c \notin overlap => written[c] \subseteq session[c].keys

================================================================================
