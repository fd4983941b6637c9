------------------------------ MODULE WebTimeline ------------------------------
(***************************************************************************)
(* What one browser tab shows of one conversation: apps/web's chat page    *)
(* (bootstrap, buffered events, gap recovery, recovery after a reconnect), *)
(* its store, and the message list that loads history pages.               *)
(*                                                                         *)
(* The server appends to the log and changes rows, one outbox row each;    *)
(* ChatWorker and Outbox say how.  Here the relay publishes rows in order  *)
(* unless a publish is rejected or repeated.  Events reach the tab over a  *)
(* clean MQTT session: what is published while it is not subscribed is     *)
(* lost.  REST answers travel on their own, so an answer may be applied    *)
(* after events that are younger than it.                                  *)
(*                                                                         *)
(* The list of cached messages is sorted by sequence after every change,   *)
(* so it is a function from sequence numbers to rows here.                 *)
(***************************************************************************)
EXTENDS Integers, FiniteSets, SequencesExt

CONSTANTS
    InitMessages,   \* messages in the conversation when the tab is opened
    MaxMessages,    \* bound: messages in the conversation
    PageSize,       \* PAGE_SIZE of MessageList.tsx and the latest-50 of a recovery
    HealLimit,      \* the limit of 100 of both recoveries
    Recoveries,     \* calls of recoverAfterReconnect that can be in progress
    FaultKinds,     \* subset of {"drop", "relay", "fetch"}
    Loads           \* bound: what happens in one behaviour, see Admits

ASSUME WebTimelineAssumption ==
    /\ {InitMessages, MaxMessages} \subseteq Nat
    /\ InitMessages <= MaxMessages
    /\ Loads \subseteq [changes : Nat, opens : Nat, faults : Nat, created : Nat]
    /\ {PageSize, HealLimit} \subseteq Nat \ {0}
    /\ Recoveries \cap {"boot", "page", "retry", "older", "gap"} = {}

VARIABLES
    log,        \* server: the rows of the conversation, by sequence
    outbox,     \* server: committed events that are not marked published
    wire,       \* events on their way to the subscribed tab
    conn,       \* ConnectionState
    boot,       \* progress of the page's effect
    buffering, buffer,
    rows,       \* messagesByConversation of the conversation
    last,       \* lastSequence of its entry in the list, 0 before there is one
    more,       \* hasMoreHistory
    open,       \* it is the active conversation
    loadError,  \* MessageList shows "Couldn't load messages"
    fetch,      \* REST calls in progress
    overtaken,  \* history: messages of which an answer came later than a change
    lost,       \* history: something that the tab does not try to repair
    changes, opens, faults

serverVars == <<log, outbox>>
storeVars  == <<rows, last, more>>
pageVars   == <<open, loadError>>
boundVars  == <<changes, opens, faults>>
vars == <<serverVars, wire, conn, boot, buffering, buffer, storeVars, pageVars,
          fetch, overtaken, lost, boundVars>>

Fresh == [content |-> "sent", deleted |-> FALSE]
ChangeTypes == {"message.edited", "message.deleted"}
(* A REST call: asked for the list ("list") or for messages ("asked"), the *)
(* answer on its way ("listed", "answered").  mark is before or after of   *)
(* the query, 0 when it has none; active is what a recovery noted when it  *)
(* began: whether this is the active conversation.                         *)
Slots == {"boot", "page", "retry", "older", "gap"} \cup Recoveries
Idle == [phase |-> "idle", mark |-> 0, last |-> 0, rows |-> <<>>, more |-> FALSE,
         active |-> FALSE]
Ask(n) == [Idle EXCEPT !.phase = "asked", !.mark = n]

Init ==
    /\ log = [s \in 1..InitMessages |-> Fresh]
    /\ outbox = <<>> /\ wire = <<>>
    /\ conn = "connecting" /\ boot = "connecting"
    /\ buffering = TRUE /\ buffer = <<>>
    /\ rows = <<>> /\ last = 0 /\ more = FALSE
    /\ open = FALSE /\ loadError = FALSE
    /\ fetch = [k \in Slots |-> Idle]
    /\ overtaken = {} /\ lost = FALSE
    /\ changes = 0 /\ opens = 0 /\ faults = 0

(* Some load has that many messages, changes, openings and faults.         *)
Admits(n, c, o, f) ==
    \E load \in Loads : /\ n <= InitMessages + load.created
                        /\ c <= load.changes
                        /\ o <= load.opens
                        /\ f <= load.faults

Fault(kind) == /\ kind \in FaultKinds
               /\ faults' = faults + 1
               /\ Admits(Len(log), changes, opens, faults')
-----------------------------------------------------------------------------
(* The server *)

(* What a change does to a row, in the tables as in the store.  Reactions  *)
(* reach a row in the way edits do and are not told apart from them.       *)
Patch(row, type) ==
    CASE type = "message.edited"  -> [row EXCEPT !.content = "edited"]
      [] type = "message.deleted" -> [content |-> "", deleted |-> TRUE]

clientVars == <<wire, conn, boot, buffering, buffer, storeVars, pageVars, fetch,
                overtaken, lost>>

Create ==
    /\ Len(log) < MaxMessages
    /\ Admits(Len(log) + 1, changes, opens, faults)
    /\ log' = Append(log, Fresh)
    /\ outbox' = Append(outbox, [type |-> "message.created", seq |-> Len(log) + 1])
    /\ UNCHANGED <<clientVars, boundVars>>

Change(s, type) ==
    /\ Admits(Len(log), changes + 1, opens, faults)
    /\ ~log[s].deleted
    /\ Patch(log[s], type) # log[s]
    /\ log' = [log EXCEPT ![s] = Patch(@, type)]
    /\ outbox' = Append(outbox, [type |-> type, seq |-> s])
    /\ changes' = changes + 1
    /\ UNCHANGED <<clientVars, opens, faults>>

(* The relay publishes row i.  Rows before it had their publish rejected;  *)
(* a row that stays was accepted and could not be marked.                  *)
Relay(i, marked) ==
    /\ \/ i = 1 /\ marked /\ UNCHANGED faults
       \/ (i > 1 \/ ~marked) /\ Fault("relay")
    /\ wire' = IF conn = "connected" THEN Append(wire, outbox[i]) ELSE wire
    /\ outbox' = IF marked THEN RemoveAt(outbox, i) ELSE outbox
    /\ UNCHANGED <<log, conn, boot, buffering, buffer, storeVars, pageVars, fetch,
                   overtaken, lost, changes, opens>>

(* The API's listMessages: after takes the oldest of what follows, before  *)
(* and a query without either the newest.                                  *)
Newest(S, n) == {s \in S : Cardinality({t \in S : t > s}) < n}
Oldest(S, n) == {s \in S : Cardinality({t \in S : t < s}) < n}
Selected(k) ==
    LET mark == fetch[k].mark IN
    CASE k = "older"                         -> Newest({s \in DOMAIN log : s < mark}, PageSize)
      [] k \in {"page", "retry"}             -> Newest(DOMAIN log, PageSize)
      [] k = "gap" /\ mark = 0               -> Newest(DOMAIN log, HealLimit)
      [] k \in Recoveries /\ mark = 0        -> Newest(DOMAIN log, PageSize)
      [] k \in Recoveries \cup {"gap"} /\ mark > 0
                                             -> Oldest({s \in DOMAIN log : s > mark}, HealLimit)
Limit(k) == IF k = "gap" \/ (k \in Recoveries /\ fetch[k].mark > 0)
            THEN HealLimit ELSE PageSize

Answer(k) ==
    /\ \/ /\ fetch[k].phase = "list"
          /\ fetch' = [fetch EXCEPT ![k].phase = "listed", ![k].last = Len(log)]
       \/ /\ fetch[k].phase = "asked"
          /\ fetch' = [fetch EXCEPT ![k].phase = "answered",
                                    ![k].rows = [s \in Selected(k) |-> log[s]],
                                    ![k].more = (Cardinality(Selected(k)) = Limit(k))]
    /\ UNCHANGED <<serverVars, wire, conn, boot, buffering, buffer, storeVars,
                   pageVars, overtaken, lost, boundVars>>
-----------------------------------------------------------------------------
(* The store.  handleEvent as a function of what it changes, so that the   *)
(* replay of the buffer can apply it to one event after the other.         *)

(* lastKnownByMessages: the last row of the sorted list.                   *)
LastKnown(r) == Max(DOMAIN r \cup {0})

(* upsertMessage for each of messages: they replace the rows there are.    *)
Upserted(messages, old) ==
    [s \in DOMAIN messages \cup DOMAIN old |->
        IF s \in DOMAIN messages THEN messages[s] ELSE old[s]]

(* message.created: the gap is looked for before the watermark moves; a    *)
(* recovery that is running already swallows the new one.                  *)
MutantReadsAfter(st, s) ==
    LET known == Max({st.last, s, LastKnown(st.rows)})
    IN  [st EXCEPT !.rows = Upserted([x \in {s} |-> Fresh], @),
                   !.last = Max({@, s}),
                   !.gap = IF s > known + 1 /\ @.phase = "idle" THEN Ask(known) ELSE @]
Created(st, s) ==
    LET known == Max({st.last, LastKnown(st.rows)})
    IN  [st EXCEPT !.rows = Upserted([x \in {s} |-> Fresh], @),
                   !.last = Max({@, s}),
                   !.gap = IF s > known + 1 /\ @.phase = "idle" THEN Ask(known) ELSE @]

(* An answer with an older row of s is on its way, and s is not cached:    *)
(* the change finds nothing to change and the answer brings the old row.   *)
Overtakes(st, e) ==
    /\ e.seq \notin DOMAIN st.rows
    /\ \E k \in {"page", "older"} : e.seq \in DOMAIN fetch[k].rows

HandleEvent(st, e) ==
    IF e.type = "message.created" THEN Created(st, e.seq)
    ELSE [st EXCEPT !.rows = [s \in DOMAIN @ |-> IF s = e.seq THEN Patch(@[s], e.type)
                                                 ELSE @[s]],
                    !.overtaken = IF Overtakes(st, e) THEN @ \cup {e.seq} ELSE @]

Store(r, n, g) == [rows |-> r, last |-> n, gap |-> g, overtaken |-> overtaken]

Install(st) == /\ rows' = st.rows
               /\ last' = st.last
               /\ overtaken' = st.overtaken

(* replayBufferedEvents, on a store that the same step has changed: after  *)
(* the first i events it is after[i].                                      *)
Replayed(st) ==
    LET after[i \in 0..Len(buffer)] ==
            IF i = 0 THEN st ELSE HandleEvent(after[i - 1], buffer[i])
    IN  after[Len(buffer)]
Replay(st) == /\ buffering' = FALSE
              /\ buffer' = <<>>
              /\ Install(Replayed(st))

(* realtime.onEvent *)
Deliver ==
    /\ conn = "connected"
    /\ wire # <<>>
    /\ wire' = Tail(wire)
    /\ IF buffering
       THEN /\ buffer' = Append(buffer, Head(wire))
            /\ UNCHANGED <<rows, last, overtaken, fetch>>
       ELSE LET st == HandleEvent(Store(rows, last, fetch["gap"]), Head(wire))
            IN  /\ Install(st)
                /\ fetch' = [fetch EXCEPT !["gap"] = st.gap]
                /\ UNCHANGED buffer
    /\ UNCHANGED <<serverVars, conn, boot, buffering, more, pageVars, lost, boundVars>>
-----------------------------------------------------------------------------
(* The connection *)

(* realtime.connect resolves: subscriptions granted, bootstrap goes on.    *)
Connect ==
    /\ boot = "connecting"
    /\ conn' = "connected"
    /\ boot' = "loading"
    /\ fetch' = [fetch EXCEPT !["boot"].phase = "list"]
    /\ UNCHANGED <<serverVars, wire, buffering, buffer, storeVars, pageVars,
                   overtaken, lost, boundVars>>

(* The socket closes before that: connect rejects and the bootstrap is     *)
(* over; mqtt.js goes on trying.                                           *)
ConnectFails ==
    /\ boot = "connecting"
    /\ Fault("drop")
    /\ conn' = "disconnected"
    /\ boot' = "failed"
    /\ UNCHANGED <<serverVars, wire, buffering, buffer, storeVars, pageVars, fetch,
                   overtaken, lost, changes, opens>>

Drop ==
    /\ conn = "connected"
    /\ Fault("drop")
    /\ conn' = "disconnected"
    /\ wire' = <<>>
    /\ buffering' = TRUE
    /\ UNCHANGED <<serverVars, boot, buffer, storeVars, pageVars, fetch, overtaken,
                   lost, changes, opens>>

Reconnecting ==
    /\ conn = "disconnected"
    /\ conn' = "reconnecting"
    /\ buffering' = TRUE
    /\ UNCHANGED <<serverVars, wire, boot, buffer, storeVars, pageVars, fetch,
                   overtaken, lost, boundVars>>

(* Connected again: recoverAfterReconnect when the bootstrap is done.  It  *)
(* notes the newest cached message before its first await.  (The queued    *)
(* sends that are flushed here are no part of the timeline.)               *)
Recover(r) ==
    fetch' = [fetch EXCEPT ![r] = [Idle EXCEPT !.phase = "list",
                                               !.mark = LastKnown(rows),
                                               !.active = open]]
Reconnect ==
    /\ conn = "reconnecting"
    /\ conn' = "connected"
    /\ IF boot = "ready"
       THEN \E r \in Recoveries : fetch[r].phase = "idle" /\ Recover(r)
       ELSE UNCHANGED fetch
    /\ lost' = (lost \/ boot # "ready")
    /\ UNCHANGED <<serverVars, wire, boot, buffering, buffer, storeVars, pageVars,
                   overtaken, boundVars>>
-----------------------------------------------------------------------------
(* Bootstrap *)

(* setConversations; the presence snapshot is fetched next.                *)
BootListed ==
    /\ fetch["boot"].phase = "listed"
    /\ last' = fetch["boot"].last
    /\ boot' = "presence"
    /\ fetch' = [fetch EXCEPT !["boot"] = Idle]
    /\ UNCHANGED <<serverVars, wire, conn, buffering, buffer, rows, more, pageVars,
                   overtaken, lost, boundVars>>

BootReady ==
    /\ boot = "presence"
    /\ boot' = "ready"
    /\ LET st == Store(rows, last, fetch["gap"])
       IN  /\ Replay(st)
           /\ fetch' = [fetch EXCEPT !["gap"] = Replayed(st).gap]
    /\ UNCHANGED <<serverVars, wire, conn, more, pageVars, lost, boundVars>>

BootFails ==
    /\ fetch["boot"].phase # "idle"
    /\ Fault("fetch")
    /\ boot' = "failed"
    /\ fetch' = [fetch EXCEPT !["boot"] = Idle]
    /\ UNCHANGED <<serverVars, wire, conn, buffering, buffer, storeVars, pageVars,
                   overtaken, lost, changes, opens>>
-----------------------------------------------------------------------------
(* The message list *)

(* Choosing the conversation mounts MessageList, which loads a page;       *)
(* leaving it cancels that.                                                *)
Open ==
    /\ ~open
    /\ boot \in {"presence", "ready"}
    /\ Admits(Len(log), changes, opens + 1, faults)
    /\ opens' = opens + 1
    /\ open' = TRUE /\ loadError' = FALSE
    /\ fetch' = [fetch EXCEPT !["page"] = Ask(0)]
    /\ UNCHANGED <<serverVars, wire, conn, boot, buffering, buffer, storeVars,
                   overtaken, lost, changes, faults>>

Close ==
    /\ open
    /\ open' = FALSE /\ loadError' = FALSE
    /\ fetch' = [fetch EXCEPT !["page"] = Idle]
    /\ UNCHANGED <<serverVars, wire, conn, boot, buffering, buffer, storeVars,
                   overtaken, lost, boundVars>>

(* mergeMessageSnapshot: the rows that are there already win.              *)
MutantSnapshotWins(snapshot, live) == Upserted(snapshot, live)
Merged(snapshot, live) == Upserted(live, snapshot)

PageLoaded ==
    /\ fetch["page"].phase = "answered"
    /\ rows' = Merged(fetch["page"].rows, rows)
    /\ more' = fetch["page"].more
    /\ fetch' = [fetch EXCEPT !["page"] = Idle]
    /\ UNCHANGED <<serverVars, wire, conn, boot, buffering, buffer, last, pageVars,
                   overtaken, lost, boundVars>>

(* "Try again" is there while nothing is cached; its answer replaces what  *)
(* has come meanwhile.                                                     *)
TryAgain ==
    /\ open /\ loadError /\ rows = <<>>
    /\ fetch["retry"].phase = "idle"
    /\ loadError' = FALSE
    /\ fetch' = [fetch EXCEPT !["retry"] = Ask(0)]
    /\ UNCHANGED <<serverVars, wire, conn, boot, buffering, buffer, storeVars, open,
                   overtaken, lost, boundVars>>

RetryLoaded ==
    /\ fetch["retry"].phase = "answered"
    /\ rows' = fetch["retry"].rows
    /\ more' = fetch["retry"].more
    /\ fetch' = [fetch EXCEPT !["retry"] = Idle]
    /\ UNCHANGED <<serverVars, wire, conn, boot, buffering, buffer, last, pageVars,
                   overtaken, lost, boundVars>>

LoadOlder ==
    /\ open /\ more /\ rows # <<>>
    /\ fetch["older"].phase = "idle"
    /\ fetch' = [fetch EXCEPT !["older"] = Ask(Min(DOMAIN rows))]
    /\ UNCHANGED <<serverVars, wire, conn, boot, buffering, buffer, storeVars,
                   pageVars, overtaken, lost, boundVars>>

(* prependMessages: rows that are known stay as they are.                  *)
OlderLoaded ==
    /\ fetch["older"].phase = "answered"
    /\ rows' = Merged(fetch["older"].rows, rows)
    /\ more' = fetch["older"].more
    /\ fetch' = [fetch EXCEPT !["older"] = Idle]
    /\ UNCHANGED <<serverVars, wire, conn, boot, buffering, buffer, last, pageVars,
                   overtaken, lost, boundVars>>

HistoryFails(k) ==
    /\ k \in {"page", "retry", "older"}
    /\ fetch[k].phase # "idle"
    /\ Fault("fetch")
    /\ loadError' = (open \/ loadError)
    /\ fetch' = [fetch EXCEPT ![k] = Idle]
    /\ lost' = (lost \/ k # "older")
    /\ UNCHANGED <<serverVars, wire, conn, boot, buffering, buffer, storeVars, open,
                   overtaken, changes, opens>>
-----------------------------------------------------------------------------
(* Recovery *)

(* More messages are missing than the limit of one call.                   *)
StopsShort(k) == /\ fetch[k].more
                 /\ LastKnown(fetch[k].rows) < Max({last, fetch[k].last})

(* recoverSequenceGap has its answer: upsertMessage for every row.         *)
GapFilled ==
    /\ fetch["gap"].phase = "answered"
    /\ rows' = Upserted(fetch["gap"].rows, rows)
    /\ lost' = (lost \/ StopsShort("gap"))
    /\ fetch' = [fetch EXCEPT !["gap"] = Idle]
    /\ UNCHANGED <<serverVars, wire, conn, boot, buffering, buffer, last, more,
                   pageVars, overtaken, boundVars>>

(* The catch block: nothing remembers that there was a gap.                *)
GapFails ==
    /\ fetch["gap"].phase # "idle"
    /\ Fault("fetch")
    /\ fetch' = [fetch EXCEPT !["gap"] = Idle]
    /\ lost' = TRUE
    /\ UNCHANGED <<serverVars, wire, conn, boot, buffering, buffer, storeVars,
                   pageVars, overtaken, changes, opens>>

(* recoverAfterReconnect: the list, then the messages of the conversation  *)
(* that was active when it began, then the buffered events, in any case.   *)
RecoveryListed(r) ==
    /\ fetch[r].phase = "listed"
    /\ fetch[r].active
    /\ last' = fetch[r].last
    /\ fetch' = [fetch EXCEPT ![r].phase = "asked"]
    /\ UNCHANGED <<serverVars, wire, conn, boot, buffering, buffer, rows, more,
                   pageVars, overtaken, lost, boundVars>>

MutantKeepsBuffering(r, st) ==
    /\ Install(st)
    /\ fetch' = [fetch EXCEPT ![r] = Idle]
    /\ UNCHANGED <<buffering, buffer>>
RecoveryEnds(r, st) ==
    /\ Replay(st)
    /\ fetch' = [fetch EXCEPT ![r] = Idle, !["gap"] = Replayed(st).gap]

NothingOpen(r) ==
    /\ fetch[r].phase = "listed"
    /\ ~fetch[r].active
    /\ RecoveryEnds(r, Store(rows, fetch[r].last, fetch["gap"]))
    /\ UNCHANGED <<serverVars, wire, conn, boot, more, pageVars, lost, boundVars>>

Recovered(r) ==
    /\ fetch[r].phase = "answered"
    /\ IF fetch[r].mark > 0
       THEN /\ RecoveryEnds(r, Store(Upserted(fetch[r].rows, rows), last, fetch["gap"]))
            /\ lost' = (lost \/ StopsShort(r))
            /\ UNCHANGED more
       ELSE /\ RecoveryEnds(r, Store(fetch[r].rows, last, fetch["gap"]))
            /\ more' = fetch[r].more
            /\ lost' = (lost \/ ~(DOMAIN rows \subseteq DOMAIN fetch[r].rows))
    /\ UNCHANGED <<serverVars, wire, conn, boot, pageVars, boundVars>>

RecoveryFails(r) ==
    /\ fetch[r].phase # "idle"
    /\ Fault("fetch")
    /\ RecoveryEnds(r, Store(rows, last, fetch["gap"]))
    /\ lost' = TRUE
    /\ UNCHANGED <<serverVars, wire, conn, boot, more, pageVars, changes, opens>>
-----------------------------------------------------------------------------
Server == \/ Create
          \/ \E s \in DOMAIN log, type \in ChangeTypes : Change(s, type)
          \/ \E i \in DOMAIN outbox, marked \in BOOLEAN : Relay(i, marked)
Connection == Deliver \/ Connect \/ ConnectFails \/ Drop \/ Reconnecting \/ Reconnect
Boot == BootListed \/ BootReady \/ BootFails
History == \/ Open \/ Close \/ PageLoaded \/ TryAgain \/ RetryLoaded
           \/ LoadOlder \/ OlderLoaded \/ \E k \in Slots : HistoryFails(k)
Recovery == \/ GapFilled \/ GapFails
            \/ \E r \in Recoveries : \/ RecoveryListed(r) \/ NothingOpen(r)
                                     \/ Recovered(r) \/ RecoveryFails(r)
Next == \/ Server \/ Connection \/ Boot \/ History \/ Recovery
        \/ \E k \in Slots : Answer(k)
Spec == Init /\ [][Next]_vars
-----------------------------------------------------------------------------
(* The conversation is on the screen and nothing is on its way to the tab. *)
Settled == /\ conn = "connected" /\ boot = "ready" /\ open
           /\ outbox = <<>> /\ wire = <<>> /\ buffer = <<>>
           /\ \A k \in Slots : fetch[k].phase = "idle"

(* Once things have settled the list has no hole: every message of the     *)
(* conversation is shown, or is older than the first one shown and can be  *)
(* scrolled to.  So it is through dropped connections, reordered and       *)
(* repeated events and pages under way ("this closes both bootstrap        *)
(* races", page.tsx:43-45), as long as nothing happened that the tab does  *)
(* not repair: a failed call, a reconnect during the bootstrap, more       *)
(* messages missed than one call returns, or a recovery that replaced rows *)
(* it did not have.                                                        *)
NoSilentHole ==
    Settled /\ ~lost =>
        \A s \in DOMAIN log : \/ s \in DOMAIN rows
                              \/ more /\ rows # <<>> /\ s < Min(DOMAIN rows)

(* "history can never erase a live create/edit/delete"                     *)
(* (MessageList.tsx:119-121): without faults a row on the screen is the    *)
(* server's, or an event for it is still to come; except where the change  *)
(* was handled before the page with the old row arrived and found no row.  *)
LiveRowsCurrent ==
    faults = 0 =>
        \A s \in DOMAIN rows \ overtaken :
            \/ rows[s] = log[s]
            \/ \E e \in ToSet(outbox \o wire \o buffer) : e.seq = s

(* A connected tab that still buffers events has something under way that  *)
(* will apply them: the bootstrap, or a recovery (page.tsx:67-93).  Only   *)
(* after a failed bootstrap it buffers for ever.                           *)
BufferingEnds ==
    buffering /\ conn = "connected" /\ boot = "ready" =>
        \E r \in Recoveries : fetch[r].phase # "idle"

(* "Refetch the conversation list and the active conversation's messages   *)
(* so the UI converges with the server WITHOUT a manual reload"            *)
(* (page.tsx:80-82): when the recovery after a drop has run as it should   *)
(* and nothing is on its way, the rows on the screen are the server's.     *)
ConvergesWithoutReload ==
    Settled /\ faults > 0 /\ ~lost =>
        \A s \in DOMAIN rows \ overtaken : rows[s] = log[s]
================================================================================
