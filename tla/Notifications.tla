------------------------------ MODULE Notifications ------------------------------
(***************************************************************************)
(* The notification-worker: message.created makes a push to each member    *)
(* that is offline when it is looked up.  Events are acknowledged at once, *)
(* may come twice, and the lookups and pushes of one event overlap with    *)
(* each other, with other events and with people coming and going.         *)
(***************************************************************************)
EXTENDS Integers, FiniteSets

CONSTANTS
    Users,
    Sender,         \* a function from the messages to their senders
    MaxMoves,       \* bound: changes of membership and presence
    MaxTwice        \* bound: redelivered events

VARIABLES
    members, online,    \* ConversationMember rows; users with a device in Redis
    created, queue,     \* the messages stored; their events on the way
    run,                \* for each message, the state of every lookup under way
    pushed, recorded,   \* sent by the provider; audit keys in Redis
    moves, twice,       \* counters of the bounds
    sawOffline,         \* history: who was offline at some time since the event,
    stayed, excused     \* who was an offline member all the time, whose push failed
vars == <<members, online, created, queue, run, pushed, recorded, moves, twice,
          sawOffline, stayed, excused>>

Messages == DOMAIN Sender
History == <<sawOffline, stayed, excused>>
NoRun == [u \in {} |-> "check"]

Init == /\ members = Users /\ online \in SUBSET Users
        /\ created = {} /\ queue = {} /\ run = [m \in Messages |-> NoRun]
        /\ pushed = {} /\ recorded = {} /\ moves = 0 /\ twice = 0
        /\ sawOffline = [m \in Messages |-> {}] /\ stayed = [m \in Messages |-> {}] /\ excused = {}

(* The history follows every change of who is a member and who is online.  *)
Follow == /\ sawOffline' = [m \in Messages |-> IF m \in created THEN sawOffline[m] \cup (Users \ online')
                                                ELSE {}]
          /\ stayed' = [m \in Messages |-> stayed[m] \cap (members' \ online')]
Move == moves < MaxMoves /\ moves' = moves + 1 /\ Follow
        /\ UNCHANGED <<created, queue, run, pushed, recorded, twice, excused>>
Come(u) == u \notin online /\ online' = online \cup {u} /\ UNCHANGED members /\ Move
Go(u) == u \in online /\ online' = online \ {u} /\ UNCHANGED members /\ Move
Join(u) == u \notin members /\ members' = members \cup {u} /\ UNCHANGED online /\ Move
Leave(u) == u \in members /\ members' = members \ {u} /\ UNCHANGED online /\ Move

Created(m) ==
    /\ m \notin created /\ Sender[m] \in members
    /\ created' = created \cup {m} /\ queue' = queue \cup {m}
    /\ sawOffline' = [sawOffline EXCEPT ![m] = Users \ online]
    /\ stayed' = [stayed EXCEPT ![m] = members \ online]
    /\ UNCHANGED <<members, online, run, pushed, recorded, moves, twice, excused>>
-----------------------------------------------------------------------------
Recipients(m) == members \ {Sender[m]}

(* The event is read, and the members are.                                 *)
Take(m) ==
    /\ m \in queue /\ run[m] = NoRun
    /\ \/ queue' = queue \ {m} /\ UNCHANGED twice
       \/ twice < MaxTwice /\ twice' = twice + 1 /\ UNCHANGED queue
    /\ run' = [run EXCEPT ![m] = [u \in Recipients(m) |-> "check"]]
    /\ UNCHANGED <<members, online, created, pushed, recorded, moves, History>>

At(m, u, pc) == u \in DOMAIN run[m] /\ run[m][u] = pc
Goto(m, u, pc) == run' = [run EXCEPT ![m][u] = pc]
Ended(m, u) == run' = [run EXCEPT ![m] = [v \in DOMAIN @ \ {u} |-> @[v]]]

MutantAssumesOffline(m, u) ==
    /\ At(m, u, "check") /\ Goto(m, u, "send")
    /\ UNCHANGED <<members, online, created, queue, pushed, recorded, moves, twice, History>>
Check(m, u) ==
    /\ At(m, u, "check")
    /\ IF u \in online THEN Ended(m, u) ELSE Goto(m, u, "send")
    /\ UNCHANGED <<members, online, created, queue, pushed, recorded, moves, twice, History>>
(* Redis does not answer: taken for online.                                *)
CheckFails(m, u) ==
    /\ At(m, u, "check") /\ Ended(m, u)
    /\ excused' = excused \cup {<<m, u>>}
    /\ UNCHANGED <<members, online, created, queue, pushed, recorded, moves, twice, sawOffline, stayed>>
Send(m, u) ==
    /\ At(m, u, "send") /\ Goto(m, u, "record")
    /\ pushed' = pushed \cup {<<m, u>>}
    /\ UNCHANGED <<members, online, created, queue, recorded, moves, twice, History>>
Record(m, u) ==
    /\ At(m, u, "record") /\ Ended(m, u)
    /\ recorded' = recorded \cup {<<m, u>>}
    /\ UNCHANGED <<members, online, created, queue, pushed, moves, twice, History>>
(* The provider or Redis throws: logged, nothing else.                     *)
Throws(m, u) ==
    /\ At(m, u, "send") \/ At(m, u, "record")
    /\ Ended(m, u)
    /\ excused' = excused \cup {<<m, u>>}
    /\ UNCHANGED <<members, online, created, queue, pushed, recorded, moves, twice, sawOffline, stayed>>
(* The process dies with all its runs; the events are acknowledged.        *)
Crash ==
    /\ \E m \in Messages : run[m] # NoRun
    /\ run' = [m \in Messages |-> NoRun]
    /\ excused' = excused \cup UNION {{m} \X DOMAIN run[m] : m \in Messages}
    /\ UNCHANGED <<members, online, created, queue, pushed, recorded, moves, twice, sawOffline, stayed>>

Next == \/ \E u \in Users : Come(u) \/ Go(u) \/ Join(u) \/ Leave(u)
        \/ \E m \in Messages : Created(m) \/ Take(m)
        \/ \E m \in Messages, u \in Users : Check(m, u) \/ CheckFails(m, u) \/ Send(m, u)
                                            \/ Record(m, u) \/ Throws(m, u)
        \/ Crash
Spec == Init /\ [][Next]_vars
-----------------------------------------------------------------------------
(* A push goes only to a member other than the sender who was offline at   *)
(* some time after the message, and to every member who was offline all    *)
(* the time, except for failed calls and crashes                           *)
(* (notification-worker/src/index.ts:64-102).                              *)
PushesHonest ==
    /\ recorded \subseteq pushed
    /\ \A p \in pushed : p[2] \in sawOffline[p[1]] \ {Sender[p[1]]}
    /\ \A m \in Messages :
          m \in created \ queue /\ run[m] = NoRun =>
              \A u \in stayed[m] \ {Sender[m]} : <<m, u>> \in pushed \cup excused
================================================================================
