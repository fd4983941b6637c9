------------------------------- MODULE Presence -------------------------------
(***************************************************************************)
(* Presence of one user with several devices: the clients announce         *)
(* themselves (realtime-service.ts, useChatSession.ts), the broker sends   *)
(* the will of a lost connection, a chat-worker keeps a Redis set of       *)
(* devices (handlers/presence.ts, packages/redis) and a peer shows what    *)
(* the events say, holding an offline back for a grace period              *)
(* (chat-store.ts).                                                        *)
(*                                                                         *)
(* Every Redis command is a step; workers that handle two commands of the  *)
(* user at once interleave.  The broker hands commands out in order; one   *)
(* that is redelivered goes back to either end of the queue.  presence     *)
(* events reach the peer in outbox order.                                  *)
(***************************************************************************)
EXTENDS Naturals, Sequences

CONSTANTS
    Workers,
    Sessions,       \* MQTT connections: a device has one per tab or reload
    Devices,
    DeviceOf,       \* [Sessions -> Devices]
    NoCommand,
    MaxChanges,     \* bound: connections made
    MaxFaults       \* bound: handler errors and crashes

VARIABLES
    session,    \* [Sessions -> {"off", "on", "lost"}]
    queue,      \* presence.set commands at the broker
    job, pc,    \* [Workers -> the command in hand, the next step]
    changed,    \* [Workers -> BOOLEAN]: PresenceTransition.changed
    conn,       \* devices with a connection key
    devs,       \* the presence set
    handled,    \* [Devices -> isOnline of the last command acknowledged]
    events,     \* presence events on their way to the peer
    shown,      \* the peer shows the user as online
    grace,      \* a grace timer runs at the peer
    connects, faults

redisVars == <<conn, devs>>
peerVars  == <<events, shown, grace>>
vars == <<session, queue, job, pc, changed, redisVars, handled, peerVars,
          connects, faults>>

Command == [device : Devices, isOnline : BOOLEAN]

Init ==
    /\ session = [s \in Sessions |-> "off"]
    /\ queue = <<>>
    /\ job = [w \in Workers |-> NoCommand]
    /\ pc = [w \in Workers |-> "idle"]
    /\ changed = [w \in Workers |-> FALSE]
    /\ conn = {} /\ devs = {}
    /\ handled = [d \in Devices |-> FALSE]
    /\ events = <<>> /\ shown = FALSE /\ grace = FALSE
    /\ connects = 0 /\ faults = 0

(* A presence.set of session s reaches the broker.                         *)
SetPresence(s, on) ==
    /\ queue' = Append(queue, [device |-> DeviceOf[s], isOnline |-> on])
    /\ UNCHANGED <<job, pc, changed, redisVars, handled, peerVars, faults>>

(* onConnect announces the device after every (re)connect.                 *)
Connect(s) ==
    /\ connects < MaxChanges
    /\ session[s] = "off"
    /\ session' = [session EXCEPT ![s] = "on"]
    /\ connects' = connects + 1
    /\ SetPresence(s, TRUE)

(* A graceful teardown announces offline before it closes the socket.      *)
Disconnect(s) ==
    /\ session[s] = "on"
    /\ session' = [session EXCEPT ![s] = "off"]
    /\ UNCHANGED connects
    /\ SetPresence(s, FALSE)

(* The network goes away; the broker notices later and sends the will.     *)
Lose(s) ==
    /\ session[s] = "on"
    /\ session' = [session EXCEPT ![s] = "lost"]
    /\ UNCHANGED <<queue, job, pc, changed, redisVars, handled, peerVars,
                   connects, faults>>

Will(s) ==
    /\ session[s] = "lost"
    /\ session' = [session EXCEPT ![s] = "off"]
    /\ UNCHANGED connects
    /\ SetPresence(s, FALSE)

Deliver(w) ==
    /\ pc[w] = "idle"
    /\ queue # <<>>
    /\ job' = [job EXCEPT ![w] = Head(queue)]
    /\ queue' = Tail(queue)
    /\ pc' = [pc EXCEPT ![w] = IF Head(queue).isOnline THEN "set" ELSE "del"]
    /\ UNCHANGED <<session, changed, redisVars, handled, peerVars, connects, faults>>

(* A step of the handler of w.                                             *)
At(w, step) == /\ pc[w] = step
               /\ UNCHANGED <<session, queue, job, shown, grace, connects, faults>>

(* addConnection: SET the connection key ...                               *)
SetConnection(w) ==
    /\ At(w, "set")
    /\ conn' = conn \cup {job[w].device}
    /\ pc' = [pc EXCEPT ![w] = "sadd"]
    /\ UNCHANGED <<changed, devs, handled, events>>

(* ... and SADD the device; nothing more to say when it was there.         *)
AddDevice(w) ==
    /\ At(w, "sadd")
    /\ devs' = devs \cup {job[w].device}
    /\ changed' = [changed EXCEPT ![w] = job[w].device \notin devs]
    /\ pc' = [pc EXCEPT ![w] = IF job[w].device \in devs THEN "ack" ELSE "emit"]
    /\ UNCHANGED <<conn, handled, events>>

(* removeConnection: DEL and SREM in one pipeline ...                      *)
RemoveDevice(w) ==
    /\ At(w, "del")
    /\ conn' = conn \ {job[w].device}
    /\ devs' = devs \ {job[w].device}
    /\ changed' = [changed EXCEPT ![w] = job[w].device \in conn \cup devs]
    /\ pc' = [pc EXCEPT ![w] = "smembers"]
    /\ UNCHANGED <<handled, events>>

AfterRemove(w) == IF changed[w] THEN "emit" ELSE "ack"

(* Mutant: the set is dropped whether or not a device is left.             *)
MutantDropsAlways(w) ==
    /\ At(w, "smembers")
    /\ pc' = [pc EXCEPT ![w] = "drop"]
    /\ UNCHANGED <<changed, redisVars, handled, events>>

(* ... then SMEMBERS: is any device left?                                  *)
ReadMembers(w) ==
    /\ At(w, "smembers")
    /\ pc' = [pc EXCEPT ![w] = IF devs = {} THEN "drop" ELSE AfterRemove(w)]
    /\ UNCHANGED <<changed, redisVars, handled, events>>

(* Nothing was left: store last-seen and DEL the set.                      *)
DropSet(w) ==
    /\ At(w, "drop")
    /\ devs' = {}
    /\ pc' = [pc EXCEPT ![w] = AfterRemove(w)]
    /\ UNCHANGED <<changed, conn, handled, events>>

(* An error of that DEL is swallowed.                                      *)
DropFails(w) ==
    /\ faults < MaxFaults
    /\ pc[w] = "drop"
    /\ pc' = [pc EXCEPT ![w] = AfterRemove(w)]
    /\ faults' = faults + 1
    /\ UNCHANGED <<session, queue, job, changed, redisVars, handled, peerVars, connects>>

(* The outbox row of presence.online or presence.offline.                  *)
Emit(w) ==
    /\ At(w, "emit")
    /\ events' = Append(events, job[w].isOnline)
    /\ pc' = [pc EXCEPT ![w] = "ack"]
    /\ UNCHANGED <<changed, redisVars, handled>>

Ack(w) ==
    /\ pc[w] = "ack"
    /\ handled' = [handled EXCEPT ![job[w].device] = job[w].isOnline]
    /\ job' = [job EXCEPT ![w] = NoCommand]
    /\ pc' = [pc EXCEPT ![w] = "idle"]
    /\ changed' = [changed EXCEPT ![w] = FALSE]
    /\ UNCHANGED <<session, queue, redisVars, peerVars, connects, faults>>

(* The handler throws or the worker dies: the command is redelivered.      *)
Fail(w) ==
    /\ faults < MaxFaults
    /\ pc[w] # "idle"
    /\ \/ queue' = <<job[w]>> \o queue
       \/ queue' = Append(queue, job[w])
    /\ job' = [job EXCEPT ![w] = NoCommand]
    /\ pc' = [pc EXCEPT ![w] = "idle"]
    /\ changed' = [changed EXCEPT ![w] = FALSE]
    /\ faults' = faults + 1
    /\ UNCHANGED <<session, redisVars, handled, peerVars, connects>>

(* setPresence at the peer: an online cancels the grace timer, an offline  *)
(* starts it, whatever its connectionCount.                                *)
Show ==
    /\ events # <<>>
    /\ events' = Tail(events)
    /\ \/ Head(events) /\ shown' = TRUE /\ grace' = FALSE
       \/ ~Head(events) /\ grace' = TRUE /\ UNCHANGED shown
    /\ UNCHANGED <<session, queue, job, pc, changed, redisVars, handled,
                   connects, faults>>

GraceExpires ==
    /\ grace
    /\ grace' = FALSE
    /\ shown' = FALSE
    /\ UNCHANGED <<session, queue, job, pc, changed, redisVars, handled, events,
                   connects, faults>>

Handle(w) == \/ SetConnection(w) \/ AddDevice(w) \/ RemoveDevice(w)
             \/ ReadMembers(w) \/ DropSet(w) \/ Emit(w) \/ Ack(w)

Next == \/ \E s \in Sessions : Connect(s) \/ Disconnect(s) \/ Lose(s) \/ Will(s)
        \/ \E w \in Workers : Deliver(w) \/ Handle(w) \/ DropFails(w) \/ Fail(w)
        \/ Show \/ GraceExpires

Spec == Init /\ [][Next]_vars
-----------------------------------------------------------------------------
(* No command is waiting or being handled.                                 *)
Quiet == queue = <<>> /\ \A w \in Workers : pc[w] = "idle"

(* With one worker, whatever failed and was redelivered half-way through   *)
(* its Redis commands, the presence set and the connection keys are what   *)
(* the last command of every device said; "A user is offline only when no  *)
(* active connection remains" (packages/redis/src/index.ts:41, 46-76) as   *)
(* long as no command was redelivered out of order.                        *)
PresenceHonest ==
    Quiet => /\ devs = {d \in Devices : handled[d]} /\ conn = devs
             /\ faults = 0 /\ (\E s \in Sessions : session[s] = "on") => devs # {}

(* The same, as a peer that has seen all events shows it                   *)
(* (apps/chat-worker/src/handlers/presence.ts:12).                         *)
ShownOnline == Quiet /\ events = <<>> /\ ~grace
                     /\ (\E s \in Sessions : session[s] = "on") => shown
===============================================================================
