-------------------------------- MODULE Sends --------------------------------
(***************************************************************************)
(* Optimistic sends: the bubble that stands for a message until its        *)
(* canonical event arrives.  The mobile app keeps them in a                *)
(* MessageLifecycleStore (features/messaging/message-lifecycle.ts), the    *)
(* web app in its store (chat-store.ts) with the timers and the publishing *)
(* of Composer.tsx and chat/page.tsx.  The two differ: the mobile store    *)
(* awaits every PUBACK before it arms a timer and clears it, the web page  *)
(* arms at once, forgets its timers, and publishes without waiting.        *)
(*                                                                         *)
(* The server stores a clientMessageId once; a copy of a stored one is     *)
(* dropped without an event (ChatWorker).  A publish that has no PUBACK    *)
(* when the connection closes stays with mqtt.js and is repeated after the *)
(* reconnect.  Events published while the client is not connected are      *)
(* lost; the history brings the row, not the event.                        *)
(***************************************************************************)
EXTENDS Naturals, Sequences, SequencesExt

CONSTANTS
    Messages,       \* clientMessageIds
    MaxDrops,       \* bound: connections lost
    MaxRetries,     \* bound: presses of Retry
    MaxRejects      \* bound: sends the chat-worker rejects

VARIABLES
    client,     \* "mobile" or "web": which of the two this behaviour is about
    conn,       \* its MQTT client is connected
    flushDue,   \* the effect of a reconnect has not run yet
    entry,      \* [Messages -> state of the pending entry]
    timers,     \* [Messages -> Nat]: send timeouts that run
    awaiting,   \* [Messages -> Nat]: publishes without PUBACK (send, retry)
    flushes,    \* mobile flushQueued calls in progress: what each has to go
                \* through yet, the publish of the first one being awaited
    cmds,       \* message.send commands at the broker
    log,        \* messages the server has stored
    events,     \* events on their way to the client
    rows,       \* messages in the client's timeline
    drops, retries, rejects

clientVars == <<entry, timers, awaiting, flushes, rows>>
serverVars == <<cmds, log, events>>
boundVars  == <<drops, retries, rejects>>
vars == <<client, conn, flushDue, clientVars, serverVars, boundVars>>

Mobile == client = "mobile"

Init ==
    /\ client \in {"mobile", "web"}
    /\ conn = TRUE /\ flushDue = FALSE
    /\ entry = [m \in Messages |-> "unsent"]
    /\ timers = [m \in Messages |-> 0]
    /\ awaiting = [m \in Messages |-> 0]
    /\ flushes = <<>>
    /\ cmds = {} /\ log = {} /\ events = {} /\ rows = {}
    /\ drops = 0 /\ retries = 0 /\ rejects = 0

(* armTimeout of the mobile store replaces the timer, armSendTimeout of    *)
(* the web starts one more and nothing on the web ever clears one.         *)
ArmTimeout(m) == timers' = [timers EXCEPT ![m] = 1]
ArmSendTimeout(m) == timers' = [timers EXCEPT ![m] = @ + 1]
ClearTimeout(m) == timers' = [timers EXCEPT ![m] = 0]

(* The command goes to mqtt.js, or the publish is refused.                 *)
Publish(m) == awaiting' = [awaiting EXCEPT ![m] = IF conn THEN @ + 1 ELSE @]
Entry(m, state) == entry' = [entry EXCEPT ![m] = state]
-----------------------------------------------------------------------------
(* What the user does *)

environment == <<client, conn, flushDue, flushes, rows, serverVars, drops, rejects>>

(* MessageLifecycleStore.send: published when connected, else queued; the  *)
(* timer of a published one is armed by PubAck.                            *)
SendMobile(m) ==
    /\ Mobile /\ entry[m] = "unsent"
    /\ \/ conn /\ Entry(m, "pending") /\ Publish(m) /\ UNCHANGED timers
       \/ ~conn /\ Entry(m, "queued") /\ ArmTimeout(m) /\ UNCHANGED awaiting
    /\ UNCHANGED <<environment, retries>>

(* publishOrQueueSend *)
SendWeb(m) ==
    /\ ~Mobile /\ entry[m] = "unsent"
    /\ Entry(m, IF conn THEN "pending" ELSE "queued")
    /\ Publish(m)
    /\ ArmSendTimeout(m)
    /\ UNCHANGED <<environment, retries>>

(* The Retry of a failed bubble publishes the same clientMessageId.        *)
Retry(m) == /\ entry[m] = "failed"
            /\ retries < MaxRetries
            /\ retries' = retries + 1
            /\ Publish(m)
            /\ UNCHANGED environment

(* A publish that is refused makes the mobile entry failed again ...       *)
RetryMobile(m) ==
    /\ Mobile /\ Retry(m)
    /\ \/ conn /\ Entry(m, "pending") /\ UNCHANGED timers
       \/ ~conn /\ ClearTimeout(m) /\ UNCHANGED entry

(* ... and the web one after the timer.                                    *)
RetryWeb(m) == ~Mobile /\ Retry(m) /\ Entry(m, "pending") /\ ArmSendTimeout(m)
-----------------------------------------------------------------------------
(* The store *)

(* markFailed / markPendingFailed: an entry that is gone stays gone.       *)
MutantRevives(m) == Entry(m, "failed")
MarkFailed(m) == Entry(m, IF entry[m] = "none" THEN "none" ELSE "failed")

TimerFires(m) ==
    /\ timers[m] > 0
    /\ timers' = [timers EXCEPT ![m] = @ - 1]
    /\ MarkFailed(m)
    /\ UNCHANGED <<environment, awaiting, retries>>

(* A canonical event: message.created takes the entry away and adds the    *)
(* row, message.rejected fails it.                                         *)
MutantLosesRow(e) ==
    /\ Mobile
    /\ ClearTimeout(e.id)
    /\ \/ e.type = "message.created" /\ Entry(e.id, "none")
       \/ e.type = "message.rejected" /\ MarkFailed(e.id)
    /\ UNCHANGED rows
ReconcileMobile(e) ==
    /\ Mobile
    /\ ClearTimeout(e.id)
    /\ \/ e.type = "message.created" /\ Entry(e.id, "none") /\ rows' = rows \cup {e.id}
       \/ e.type = "message.rejected" /\ MarkFailed(e.id) /\ UNCHANGED rows

ReconcileWeb(e) ==
    /\ ~Mobile
    /\ \/ e.type = "message.created" /\ Entry(e.id, "none") /\ rows' = rows \cup {e.id}
       \/ e.type = "message.rejected" /\ MarkFailed(e.id) /\ UNCHANGED rows
    /\ UNCHANGED timers

Receive(e) ==
    /\ conn
    /\ e \in events
    /\ events' = events \ {e}
    /\ ReconcileMobile(e) \/ ReconcileWeb(e)
    /\ UNCHANGED <<client, conn, flushDue, awaiting, flushes, cmds, log, boundVars>>

(* applyHistory and the merge of a page: rows, whatever is pending.        *)
History ==
    /\ conn
    /\ ~(log \subseteq rows)
    /\ rows' = rows \cup log
    /\ UNCHANGED <<client, conn, flushDue, entry, timers, awaiting, flushes,
                   serverVars, boundVars>>
-----------------------------------------------------------------------------
(* The connection *)

Drop ==
    /\ conn
    /\ drops < MaxDrops
    /\ drops' = drops + 1
    /\ conn' = FALSE
    /\ UNCHANGED <<client, flushDue, clientVars, serverVars, retries, rejects>>

Reconnect ==
    /\ ~conn
    /\ conn' = TRUE
    /\ flushDue' = TRUE
    /\ UNCHANGED <<client, clientVars, serverVars, boundVars>>

Queued == {m \in Messages : entry[m] = "queued"}

(* The web's flushQueuedMessages: publishes all, waits for none, and       *)
(* leaves the timers as they are.                                          *)
FlushWeb ==
    /\ ~Mobile /\ flushDue
    /\ flushDue' = FALSE
    /\ entry' = [m \in Messages |-> IF m \in Queued THEN "pending" ELSE entry[m]]
    /\ awaiting' = [m \in Messages |-> IF m \in Queued /\ conn THEN awaiting[m] + 1
                                       ELSE awaiting[m]]
    /\ UNCHANGED <<client, conn, timers, flushes, rows, serverVars, boundVars>>

(* The mobile's flushQueued takes the queued entries as they are now and   *)
(* writes each back as pending before it publishes it.                     *)
FlushMobile ==
    /\ Mobile /\ flushDue
    /\ flushDue' = FALSE
    /\ \/ /\ Queued = {}
          /\ UNCHANGED <<entry, timers, flushes>>
       \/ /\ Queued # {} /\ conn
          /\ \E todo \in SetToSeqs(Queued) :
                /\ flushes' = Append(flushes, todo)
                /\ entry' = [entry EXCEPT ![Head(todo)] = "pending"]
          /\ UNCHANGED timers
       \/ /\ Queued # {} /\ ~conn
          /\ entry' = [m \in Messages |-> IF m \in Queued THEN "failed" ELSE entry[m]]
          /\ timers' = [m \in Messages |-> IF m \in Queued THEN 0 ELSE timers[m]]
          /\ UNCHANGED flushes
    /\ UNCHANGED <<client, conn, awaiting, rows, serverVars, boundVars>>

(* The broker has the command of the publish that flush i awaits: the      *)
(* timer is armed and the loop goes on with the entry it noted.            *)
FlushAcked(i) ==
    LET todo == flushes[i] IN
    /\ conn
    /\ cmds' = cmds \cup {Head(todo)}
    /\ ArmTimeout(Head(todo))
    /\ \/ /\ Len(todo) = 1
          /\ flushes' = RemoveAt(flushes, i)
          /\ UNCHANGED entry
       \/ /\ Len(todo) > 1
          /\ flushes' = [flushes EXCEPT ![i] = Tail(todo)]
          /\ entry' = [entry EXCEPT ![todo[2]] = "pending"]
    /\ UNCHANGED <<client, conn, flushDue, awaiting, rows, log, events, boundVars>>

(* PUBACK of a send or a retry; the mobile store arms the timer only now.  *)
MutantForgetsTimer(m) ==
    /\ conn /\ awaiting[m] > 0
    /\ cmds' = cmds \cup {m}
    /\ awaiting' = [awaiting EXCEPT ![m] = @ - 1]
    /\ UNCHANGED <<client, conn, flushDue, entry, timers, flushes, rows, log, events,
                   boundVars>>
PubAck(m) ==
    /\ conn /\ awaiting[m] > 0
    /\ cmds' = cmds \cup {m}
    /\ awaiting' = [awaiting EXCEPT ![m] = @ - 1]
    /\ IF Mobile THEN ArmTimeout(m) ELSE UNCHANGED timers
    /\ UNCHANGED <<client, conn, flushDue, entry, flushes, rows, log, events, boundVars>>

(* Awaited by a send, a retry or a flush.                                  *)
InFlight(m) == awaiting[m] > 0 \/ \E i \in DOMAIN flushes : Head(flushes[i]) = m

(* The broker has a copy whose PUBACK is not here yet.                     *)
Transmit(m) ==
    /\ conn /\ InFlight(m) /\ m \notin cmds
    /\ cmds' = cmds \cup {m}
    /\ UNCHANGED <<client, conn, flushDue, clientVars, log, events, boundVars>>
-----------------------------------------------------------------------------
(* The server *)

Store(m) ==
    /\ m \in cmds
    /\ cmds' = cmds \ {m}
    /\ log' = log \cup {m}
    /\ events' = IF m \in log THEN events
                 ELSE events \cup {[type |-> "message.created", id |-> m]}
    /\ UNCHANGED <<client, conn, flushDue, clientVars, boundVars>>

Reject(m) ==
    /\ m \in cmds
    /\ rejects < MaxRejects
    /\ rejects' = rejects + 1
    /\ cmds' = cmds \ {m}
    /\ events' = events \cup {[type |-> "message.rejected", id |-> m]}
    /\ UNCHANGED <<client, conn, flushDue, clientVars, log, drops, retries>>

(* The relay publishes while the client is away: a clean session.          *)
Lose(e) ==
    /\ ~conn
    /\ e \in events
    /\ events' = events \ {e}
    /\ UNCHANGED <<client, conn, flushDue, clientVars, cmds, log, boundVars>>
-----------------------------------------------------------------------------
Next == \/ \E m \in Messages : \/ SendMobile(m) \/ SendWeb(m) \/ RetryMobile(m)
                               \/ RetryWeb(m) \/ TimerFires(m) \/ PubAck(m)
                               \/ Transmit(m) \/ Store(m) \/ Reject(m)
        \/ \E e \in events : Receive(e) \/ Lose(e)
        \/ \E i \in DOMAIN flushes : FlushAcked(i)
        \/ History \/ Drop \/ Reconnect \/ FlushWeb \/ FlushMobile

(* Timers fire and a broker that can be reached acknowledges.              *)
LocalFairness == /\ \A m \in Messages : WF_vars(TimerFires(m))
                 /\ WF_vars(FlushWeb) /\ WF_vars(FlushMobile)
                 /\ \A m \in Messages : WF_vars(PubAck(m))
                 /\ \A i \in 1..MaxDrops : WF_vars(i \in DOMAIN flushes /\ FlushAcked(i))
(* mqtt.js tries to reconnect every two seconds; here it succeeds.         *)
Spec == Init /\ [][Next]_vars /\ LocalFairness /\ WF_vars(Reconnect)
(* The network may stay away.                                              *)
SpecNoNetwork == Init /\ [][Next]_vars /\ LocalFairness
-----------------------------------------------------------------------------
Unsettled(m) == entry[m] \in {"queued", "pending"}

(* A message the user has sent is on the screen: as a bubble, or as its    *)
(* row.  "never an uncaught rejection, never a lost message"               *)
(* (Composer.tsx:37), through drops, rejections, timeouts and retries.     *)
NeverLost == \A m \in Messages : entry[m] = "none" => m \in rows

(* A reconciled message is not resurrected by a late PUBACK, a stale       *)
(* timer, a rejection, a copy of the command or a page of history.  A      *)
(* flush that noted it while it was queued does it                         *)
(* (message-lifecycle.ts:74-82), and nothing else.                         *)
ReconcileFinal ==
    [][\A m \in Messages :
          entry[m] = "none" /\ entry'[m] # "none" =>
              \E i \in DOMAIN flushes : m \in ToSet(Tail(flushes[i]))]_vars

(* Every bubble ends as its row or as failed, with Retry, when the network *)
(* comes back.                                                             *)
SendsSettle == \A m \in Messages : Unsettled(m) ~> ~Unsettled(m)

(* "timeout marks pending failed (never stuck Sending)"                    *)
(* (message-lifecycle.test.ts:59), with no word of a network.              *)
NeverStuckSending == \A m \in Messages : entry[m] = "pending" ~> entry[m] # "pending"
===============================================================================
