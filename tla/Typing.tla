--------------------------------- MODULE Typing ---------------------------------
(***************************************************************************)
(* The typing indicator: a composer that tells when its user types and     *)
(* stops, the chat-worker's handler with its Redis key, QoS 0 events that  *)
(* get lost or overtake each other, and the web and the mobile client that *)
(* show it.  Time is what timers and stamps tell: fresh or old.            *)
(***************************************************************************)
EXTENDS Integers, FiniteSets

CONSTANTS
    Conversations,
    MaxKeystrokes   \* bound: people stop typing

VARIABLES
    kind, watcher,  \* the typing client and one that shows it: "web" or "mobile"
    timers,         \* conversations with a stop timer; at most one on the web
    throttled,      \* conversations told less than a second ago; all or none on the web
    told,           \* mobile: typingLastSentRef, told and not yet stopped
    member,         \* conversations the typing user is a member of
    commands, keys, \* typing.set on the way; Redis keys
    events,         \* on the way to the watcher
    seen, shown,    \* its typingSeen stamps, and what it displays
    strokes
vars == <<kind, watcher, timers, throttled, told, member, commands, keys, events, seen, shown, strokes>>

Set(c, on) == [conversation |-> c, isTyping |-> on]
Init == /\ kind \in {"web", "mobile"} /\ watcher \in {"web", "mobile"} /\ member = Conversations
        /\ timers = {} /\ throttled = {} /\ told = {} /\ commands = {} /\ keys = {}
        /\ events = {} /\ seen = [c \in Conversations |-> "never"] /\ shown = {}
        /\ strokes = 0

Client == <<kind, timers, throttled, told, strokes>>
Server == <<member, commands, keys>>
Display == <<watcher, events, seen, shown>>
-----------------------------------------------------------------------------
(* notifyTyping of the web: one throttle and one timer for all             *)
(* conversations, so typing in one forgets the timer of another.           *)
WebType(c) ==
    /\ kind = "web" /\ strokes < MaxKeystrokes /\ strokes' = strokes + 1
    /\ commands' = IF throttled = {} THEN commands \cup {Set(c, TRUE)} ELSE commands
    /\ throttled' = Conversations
    /\ timers' = {c}
    /\ UNCHANGED <<kind, told, member, keys, Display>>
(* sendTyping(c, true) of the mobile client.                               *)
MobileType(c) ==
    /\ kind = "mobile" /\ strokes < MaxKeystrokes /\ strokes' = strokes + 1
    /\ commands' = IF c \in throttled /\ c \in told THEN commands ELSE commands \cup {Set(c, TRUE)}
    /\ throttled' = throttled \cup {c} /\ told' = told \cup {c}
    /\ timers' = timers \cup {c}
    /\ UNCHANGED <<kind, member, keys, Display>>
ThrottleOver(c) ==
    /\ c \in throttled
    /\ throttled' = IF kind = "web" THEN {} ELSE throttled \ {c}
    /\ UNCHANGED <<kind, timers, told, strokes, Server, Display>>
(* Two seconds of silence.                                                 *)
AutoStop(c) ==
    /\ c \in timers /\ timers' = timers \ {c} /\ told' = told \ {c}
    /\ commands' = commands \cup {Set(c, FALSE)}
    /\ UNCHANGED <<kind, throttled, strokes, member, keys, Display>>
(* The message is sent: the web always says so, the mobile client when it  *)
(* had told.                                                               *)
WebSubmit(c) ==
    /\ kind = "web" /\ strokes > 0
    /\ timers' = {} /\ commands' = commands \cup {Set(c, FALSE)}
    /\ UNCHANGED <<kind, throttled, told, strokes, member, keys, Display>>
MobileSubmit(c) ==
    /\ kind = "mobile" /\ strokes > 0
    /\ timers' = timers \ {c} /\ told' = told \ {c}
    /\ commands' = IF c \in told THEN commands \cup {Set(c, FALSE)} ELSE commands
    /\ UNCHANGED <<kind, throttled, strokes, member, keys, Display>>
-----------------------------------------------------------------------------
(* Commands are handled in any order, or lost (QoS 0 on the web).          *)
HandleTypingSet(d) ==
    /\ commands' = commands \ {d}
    /\ IF d.conversation \notin member THEN UNCHANGED <<keys, events>>
       ELSE /\ keys' = IF d.isTyping THEN keys \cup {d.conversation} ELSE keys \ {d.conversation}
            /\ events' = events \cup {d}
    /\ UNCHANGED <<Client, member, watcher, seen, shown>>
LoseCommand(d) == /\ commands' = commands \ {d}
                  /\ UNCHANGED <<Client, member, keys, Display>>
LoseEvent(d) == events' = events \ {d} /\ UNCHANGED <<Client, Server, watcher, seen, shown>>
KeyExpires(c) == c \in keys /\ keys' = keys \ {c} /\ UNCHANGED <<Client, member, commands, Display>>
Removed(c) == c \in member /\ member' = member \ {c} /\ UNCHANGED <<Client, commands, keys, Display>>
-----------------------------------------------------------------------------
Shows(d) == shown' = IF d.isTyping THEN shown \cup {d.conversation} ELSE shown \ {d.conversation}
MutantNoStamp(d) == /\ events' = events \ {d} /\ Shows(d)
                    /\ UNCHANGED <<Client, Server, watcher, seen>>
(* setTyping of the store, and the same cases of the mobile handleEvent.   *)
Receive(d) ==
    /\ events' = events \ {d} /\ Shows(d)
    /\ seen' = [seen EXCEPT ![d.conversation] = IF d.isTyping THEN "fresh" ELSE "never"]
    /\ UNCHANGED <<Client, Server, watcher>>
(* Eight seconds after the last typing.started.                            *)
Age(c) == /\ seen[c] = "fresh" /\ seen' = [seen EXCEPT ![c] = "old"]
          /\ UNCHANGED <<Client, Server, watcher, events, shown>>
(* Web: those without a stamp stay.  Mobile: those with a fresh one do.    *)
WebSweep ==
    LET expired == {c \in shown : seen[c] = "old"}
    IN /\ watcher = "web" /\ expired # {}
       /\ shown' = shown \ expired
       /\ seen' = [c \in Conversations |-> IF c \in expired THEN "never" ELSE seen[c]]
       /\ UNCHANGED <<Client, Server, watcher, events>>
MobileSweep ==
    /\ watcher = "mobile" /\ \E c \in Conversations : seen[c] = "old"
    /\ shown' = {c \in Conversations : seen[c] = "fresh"}
    /\ seen' = [c \in Conversations |-> IF seen[c] = "fresh" THEN "fresh" ELSE "never"]
    /\ UNCHANGED <<Client, Server, watcher, events>>

Next == \/ \E c \in Conversations : WebType(c) \/ MobileType(c) \/ ThrottleOver(c) \/ AutoStop(c)
                                    \/ WebSubmit(c) \/ MobileSubmit(c) \/ KeyExpires(c) \/ Removed(c)
        \/ \E d \in commands : HandleTypingSet(d) \/ LoseCommand(d)
        \/ \E d \in events : Receive(d) \/ LoseEvent(d)
        \/ \E c \in Conversations : Age(c)
        \/ WebSweep \/ MobileSweep
(* Timers fire, commands and events arrive or are lost.                    *)
Fairness == /\ \A c \in Conversations : WF_vars(AutoStop(c)) /\ WF_vars(KeyExpires(c))
            /\ WF_vars(\E d \in commands : HandleTypingSet(d) \/ LoseCommand(d))
            /\ WF_vars(\E d \in events : Receive(d) \/ LoseEvent(d))
            /\ WF_vars(WebSweep) /\ WF_vars(MobileSweep)
            /\ \A c \in Conversations : WF_vars(Age(c))
Spec == Init /\ [][Next]_vars /\ Fairness
-----------------------------------------------------------------------------
(* An indicator is not stuck: whatever is lost, reordered or forgotten, it *)
(* goes out after the last keystroke, on both clients and in Redis         *)
(* (chat-store.ts:477-479).                                                *)
IndicatorClears == <>[](keys = {} /\ shown = {})
================================================================================
