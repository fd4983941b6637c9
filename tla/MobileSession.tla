----------------------------- MODULE MobileSession -----------------------------
(***************************************************************************)
(* The session of the mobile app: useChatSession.ts and the routes of      *)
(* AppRoot.tsx that begin and end it.  One conversation, of which only     *)
(* Owner is a member, seen from one phone on which users are switched.     *)
(*                                                                         *)
(* Everything that is awaited is a step of its own: the bootstrap, the     *)
(* healing after a reconnect, pages of history.  React's effects run when  *)
(* what they depend on has changed; the cleanup of an effect marks its     *)
(* calls cancelled, and what the code does not look at that mark for goes  *)
(* on.  Events come over a clean MQTT session on topics that every client  *)
(* subscribes to, whoever is a member.  Rows are kept by sequence: the     *)
(* lists are sorted after every change.                                    *)
(***************************************************************************)
EXTENDS Integers, FiniteSets, SequencesExt

CONSTANTS
    Users, Owner, NoUser,
    InitMessages,   \* messages in the conversation at the start
    PageSize,       \* the API's default limit, for pages and for healing
    Heals,          \* runs of the healing effect that can be in progress
    FaultKinds,     \* subset of {"drop", "fetch"}
    Loads           \* bound: what happens in one behaviour, see Admits

VARIABLES
    log,        \* server: by sequence, whether the row was changed
    read,       \* server: Owner's read watermark
    wire,       \* events on their way to the phone
    identity, route,
    conn,       \* ConnectionStatus of the client of this identity
    zombie,     \* the client of the last identity has not closed yet
    boot,       \* progress of the bootstrap effect
    ready,      \* bootstrapReadyRef
    buffer,     \* bufferedEventsRef
    list,       \* whose conversations are in the list
    rows, more, \* messagesByConv, hasMoreByConv of the conversation
    seen,       \* lastVisibleReadRef of the conversation
    fetch,      \* REST calls in progress
    lost,       \* history: something that the session does not repair
    stale,      \* history: rows whose change the phone could not learn of
    used        \* how much of the load has happened

serverVars == <<log, read>>
sessionVars == <<identity, route, zombie>>
cacheVars == <<list, rows, more>>
vars == <<serverVars, wire, sessionVars, conn, boot, ready, buffer, cacheVars, seen,
          fetch, lost, stale, used>>

(* phase: asked for the list, for messages, or answered.  of: the user the *)
(* call was made for.  mark: before or after of the query.  opened: the    *)
(* conversation was in messagesByConv when the healing began.  live: not   *)
(* cancelled.                                                              *)
Slots == {"boot", "page", "older"} \cup Heals
Idle == [phase |-> "idle", of |-> NoUser, mark |-> 0, rows |-> <<>>, more |-> FALSE,
         opened |-> FALSE, live |-> FALSE]
Call(phase, mark) == [Idle EXCEPT !.phase = phase, !.of = identity, !.mark = mark,
                                  !.opened = (rows # <<>>), !.live = TRUE]
Running(k) == fetch[k].phase # "idle"

Nothing == [created |-> 0, changes |-> 0, opens |-> 0, faults |-> 0, users |-> 0]
Use(what) == /\ used' = [used EXCEPT ![what] = @ + 1]
             /\ \E load \in Loads : \A x \in DOMAIN load : used'[x] <= load[x]
Fault(kind) == kind \in FaultKinds /\ Use("faults")

Init ==
    /\ log = [s \in 1..InitMessages |-> FALSE]
    /\ read = 0 /\ wire = <<>>
    /\ identity = NoUser /\ route = "picker" /\ zombie = FALSE
    /\ conn = "none" /\ boot = "none" /\ ready = FALSE /\ buffer = <<>>
    /\ list = NoUser /\ rows = <<>> /\ more = FALSE /\ seen = 0
    /\ fetch = [k \in Slots |-> Idle]
    /\ lost = FALSE /\ stale = {} /\ used = Nothing

(* Changes on their way; the ones that ended without reaching the row,     *)
(* when the row is cached, or on its way in a call or an event.             *)
OnTheWay == {e.seq : e \in {f \in ToSet(wire \o buffer) : f.type = "message.changed"}}
Missed == {s \in DOMAIN log : /\ log'[s] /\ s \notin OnTheWay'
                              /\ s \in OnTheWay \/ ~log[s]
                              /\ IF s \in DOMAIN rows' THEN ~rows'[s]
                                 ELSE \/ \E k \in Slots : Running(k)
                                      \/ \E e \in ToSet(wire' \o buffer') : e.seq = s}
Track == stale' = stale \cup Missed
-----------------------------------------------------------------------------
(* The server *)

LastKnown(r) == Max(DOMAIN r \cup {0})

Emit(e) == wire' = IF conn = "connected" THEN Append(wire, e) ELSE wire

Create ==
    /\ Use("created")
    /\ log' = Append(log, FALSE)
    /\ Emit([type |-> "message.created", seq |-> Len(log) + 1])
    /\ UNCHANGED <<read, sessionVars, conn, boot, ready, buffer, cacheVars,
                   seen, fetch, lost>>
    /\ Track

(* An edit, a deletion or a reaction: one change of a row.                 *)
Change(s) ==
    /\ ~log[s]
    /\ Use("changes")
    /\ log' = [log EXCEPT ![s] = TRUE]
    /\ Emit([type |-> "message.changed", seq |-> s])
    /\ UNCHANGED <<read, sessionVars, conn, boot, ready, buffer, cacheVars,
                   seen, fetch, lost>>
    /\ Track

(* listMessages: the oldest after a mark, else the newest (before a mark). *)
Newest(S) == {s \in S : Cardinality({t \in S : t > s}) < PageSize}
Oldest(S) == {s \in S : Cardinality({t \in S : t < s}) < PageSize}
Selected(k) == CASE k = "older" -> Newest({s \in DOMAIN log : s < fetch[k].mark})
                 [] k \in Heals /\ fetch[k].mark > 0
                                -> Oldest({s \in DOMAIN log : s > fetch[k].mark})
                 [] OTHER       -> Newest(DOMAIN log)

Answer(k) ==
    /\ \/ /\ fetch[k].phase = "list"
          /\ fetch' = [fetch EXCEPT ![k].phase = "listed"]
       \/ /\ fetch[k].phase = "asked"
          /\ fetch' = [fetch EXCEPT ![k].phase = "answered",
                                    ![k].rows = [s \in Selected(k) |-> log[s]],
                                    ![k].more = (Cardinality(Selected(k)) = PageSize)]
    /\ UNCHANGED <<serverVars, wire, sessionVars, conn, boot, ready, buffer, cacheVars,
                   seen, lost, used>>
    /\ Track
-----------------------------------------------------------------------------
(* Events *)

(* handleEvent: a message that is cached stays as it is, a change of one   *)
(* that is not cached changes nothing.                                     *)
HandleEvent(r, e) ==
    IF e.type = "message.created"
    THEN IF e.seq \in DOMAIN r THEN r ELSE (e.seq :> FALSE) @@ r
    ELSE [s \in DOMAIN r |-> r[s] \/ s = e.seq]

(* onEvent *)
Deliver ==
    /\ conn = "connected"
    /\ wire # <<>>
    /\ wire' = Tail(wire)
    /\ \/ /\ ready
          /\ rows' = HandleEvent(rows, Head(wire))
          /\ UNCHANGED buffer
       \/ /\ ~ready
          /\ buffer' = Append(buffer, Head(wire))
          /\ UNCHANGED rows
    /\ UNCHANGED <<serverVars, sessionVars, conn, boot, ready, list, more, seen, fetch,
                   lost, used>>
    /\ Track

(* The barrier opens: what was buffered is handled on top of r.            *)
Replay(r) == /\ ready' = TRUE
             /\ buffer' = <<>>
             /\ rows' = FoldLeft(HandleEvent, r, buffer)
-----------------------------------------------------------------------------
(* Identity *)

(* The picker, or the profile sheet's switch: every state of the session   *)
(* is reset, the old client is told to say goodbye and close.              *)
Reset(u) ==
    /\ identity' = u
    /\ wire' = <<>> /\ ready' = FALSE /\ buffer' = <<>>
    /\ list' = NoUser /\ rows' = <<>> /\ more' = FALSE /\ seen' = 0
    /\ fetch' = [k \in Slots |-> IF k = "boot" THEN Idle ELSE [fetch[k] EXCEPT !.live = FALSE]]

Pick(u) ==
    /\ route = "picker"
    /\ Use("users")
    /\ Reset(u)
    /\ route' = "list"
    /\ conn' = "connecting" /\ boot' = "connecting"
    /\ UNCHANGED <<serverVars, zombie, lost>>
    /\ Track

SwitchUser ==
    /\ route = "list"
    /\ Reset(NoUser)
    /\ route' = "picker"
    /\ zombie' = (conn # "connecting")
    /\ conn' = "none" /\ boot' = "none"
    /\ UNCHANGED <<serverVars, lost, used>>
    /\ Track

(* The old client closes.  Its onStatus is not told apart from the one of  *)
(* the client that is in use now.                                          *)
ZombieCloses ==
    /\ zombie
    /\ zombie' = FALSE
    /\ ready' = FALSE
    /\ lost' = (lost \/ identity # NoUser)
    /\ UNCHANGED <<serverVars, wire, identity, route, conn, boot, buffer, cacheVars, seen,
                   fetch, used>>
    /\ Track
-----------------------------------------------------------------------------
(* The connection *)

Cancelled(f) == [k \in Slots |-> IF k \in Heals THEN [f[k] EXCEPT !.live = FALSE] ELSE f[k]]

(* connect() resolves after the SUBACKs; the bootstrap asks for users and  *)
(* conversations.                                                          *)
Connect ==
    /\ conn = "connecting"
    /\ conn' = "connected" /\ boot' = "loading"
    /\ fetch' = [fetch EXCEPT !["boot"] = Call("list", 0)]
    /\ lost' = (lost \/ Running("page"))
    /\ UNCHANGED <<serverVars, wire, sessionVars, ready, buffer, cacheVars, seen, used>>
    /\ Track

(* It rejects; mqtt.js goes on trying, the bootstrap effect never runs.    *)
ConnectFails ==
    /\ conn = "connecting"
    /\ Fault("drop")
    /\ conn' = "offline" /\ boot' = "failed"
    /\ UNCHANGED <<serverVars, wire, sessionVars, ready, buffer, cacheVars, seen, fetch, lost>>
    /\ Track

(* A page or a list answered before this and applied later does not have   *)
(* what is missed now, and a page under way is not yet in the list of      *)
(* conversations that the healing goes through.                            *)
Drop ==
    /\ conn = "connected"
    /\ Fault("drop")
    /\ conn' = "offline"
    /\ wire' = <<>> /\ ready' = FALSE
    /\ fetch' = Cancelled(fetch)
    /\ lost' = (lost \/ Running("page"))
    /\ UNCHANGED <<serverVars, sessionVars, boot, buffer, cacheVars, seen>>
    /\ Track

Reconnecting ==
    /\ conn = "offline"
    /\ conn' = "reconnecting"
    /\ ready' = FALSE
    /\ UNCHANGED <<serverVars, wire, sessionVars, boot, buffer, cacheVars, seen, fetch,
                   lost, used>>
    /\ Track

(* Connected again: the healing effect asks for the list first.            *)
Reconnect ==
    /\ conn = "reconnecting"
    /\ conn' = "connected"
    /\ \E h \in Heals : /\ ~Running(h)
                        /\ fetch' = [fetch EXCEPT ![h] = Call("list", 0)]
    /\ lost' = (lost \/ ready \/ Running("page"))
    /\ UNCHANGED <<serverVars, wire, sessionVars, boot, ready, buffer, cacheVars, seen, used>>
    /\ Track
-----------------------------------------------------------------------------
(* Bootstrap *)

BootListed ==
    /\ fetch["boot"].phase = "listed"
    /\ list' = fetch["boot"].of
    /\ boot' = "presence"
    /\ fetch' = [fetch EXCEPT !["boot"] = Idle]
    /\ UNCHANGED <<serverVars, wire, sessionVars, conn, ready, buffer, rows, more, seen,
                   lost, used>>
    /\ Track

(* The presence snapshot is there.  The barrier opens even when the        *)
(* connection was lost meanwhile and a healing is about to run.            *)
BootReady ==
    /\ boot = "presence"
    /\ boot' = "ready"
    /\ Replay(rows)
    /\ lost' = (lost \/ conn # "connected" \/ \E h \in Heals : fetch[h].live /\ Running(h))
    /\ UNCHANGED <<serverVars, wire, sessionVars, conn, list, more, seen, fetch, used>>
    /\ Track

BootFails ==
    /\ boot \in {"loading", "presence"}
    /\ Fault("fetch")
    /\ boot' = "failed"
    /\ fetch' = [fetch EXCEPT !["boot"] = Idle]
    /\ UNCHANGED <<serverVars, wire, sessionVars, conn, ready, buffer, cacheVars, seen, lost>>
    /\ Track
-----------------------------------------------------------------------------
(* The transcript *)

MutantSentOnce(n) ==
    /\ seen' = Max({seen, n})
    /\ IF seen < n /\ conn = "connected"
       THEN /\ read' = IF identity = Owner THEN Max({read, n}) ELSE read
            ELSE UNCHANGED read
(* markVisibleRead, for what is on the screen now.  The receipt goes out   *)
(* with the client that is there when it is called.                        *)
MarkVisibleRead(n) ==
    \/ /\ seen >= n
       /\ UNCHANGED <<seen, read>>
    \/ /\ seen < n /\ conn = "connected"
       /\ seen' = n
       /\ read' = IF identity = Owner THEN Max({read, n}) ELSE read
    \/ /\ seen < n /\ conn # "connected"
       /\ seen' = 0
       /\ UNCHANGED read

OpenConversation ==
    /\ route = "list" /\ list = Owner
    /\ ~Running("page")
    /\ Use("opens")
    /\ route' = "chat"
    /\ fetch' = [fetch EXCEPT !["page"] = Call("asked", 0)]
    /\ UNCHANGED <<serverVars, wire, identity, zombie, conn, boot, ready, buffer,
                   cacheVars, seen, lost>>
    /\ Track

Back ==
    /\ route = "chat"
    /\ route' = "list"
    /\ UNCHANGED <<serverVars, wire, identity, zombie, conn, boot, ready, buffer,
                   cacheVars, seen, fetch, lost, used>>
    /\ Track

(* mergeMessageSnapshot: what is cached wins.                              *)
MutantSnapshotWins(snapshot, live) == snapshot @@ live
Merged(snapshot, live) == live @@ snapshot

(* The page is installed in whichever session there is now.                *)
PageLoaded ==
    /\ fetch["page"].phase = "answered"
    /\ rows' = Merged(fetch["page"].rows, rows)
    /\ more' = fetch["page"].more
    /\ MarkVisibleRead(LastKnown(fetch["page"].rows))
    /\ fetch' = [fetch EXCEPT !["page"] = Idle]
    /\ lost' = (lost \/ conn = "connecting")
    /\ UNCHANGED <<log, wire, sessionVars, conn, boot, ready, buffer, list, used>>
    /\ Track

LoadOlder ==
    /\ route = "chat" /\ more /\ rows # <<>>
    /\ ~Running("older")
    /\ fetch' = [fetch EXCEPT !["older"] = Call("asked", Min(DOMAIN rows))]
    /\ UNCHANGED <<serverVars, wire, sessionVars, conn, boot, ready, buffer, cacheVars,
                   seen, lost, used>>
    /\ Track

OlderLoaded ==
    /\ fetch["older"].phase = "answered"
    /\ rows' = Merged(fetch["older"].rows, rows)
    /\ more' = fetch["older"].more
    /\ fetch' = [fetch EXCEPT !["older"] = Idle]
    /\ UNCHANGED <<serverVars, wire, sessionVars, conn, boot, ready, buffer, list, seen,
                   lost, used>>
    /\ Track

HistoryFails(k) ==
    /\ k \in {"page", "older"} /\ Running(k)
    /\ Fault("fetch")
    /\ fetch' = [fetch EXCEPT ![k] = Idle]
    /\ lost' = (lost \/ k = "page")
    /\ UNCHANGED <<serverVars, wire, sessionVars, conn, boot, ready, buffer, cacheVars, seen>>
    /\ Track

(* AppRoot's effect: what arrives while the chat is open is marked read.   *)
ViewingEffect ==
    /\ route = "chat" /\ rows # <<>>
    /\ seen < LastKnown(rows)
    /\ MarkVisibleRead(LastKnown(rows))
    /\ UNCHANGED <<log, wire, sessionVars, conn, boot, ready, buffer, cacheVars, fetch,
                   lost, used>>
    /\ Track
-----------------------------------------------------------------------------
(* Healing after a reconnect *)

MutantNeverReady(h, r) ==
    /\ fetch' = [fetch EXCEPT ![h] = Idle]
    /\ rows' = r
    /\ UNCHANGED <<ready, buffer>>
(* The finally block, unless the effect was cleaned up.                    *)
HealEnds(h, r) ==
    /\ fetch' = [fetch EXCEPT ![h] = Idle]
    /\ IF fetch[h].live THEN Replay(r) ELSE UNCHANGED <<rows, ready, buffer>>

(* refreshConversations installs the list of the user it was asked for,    *)
(* cancelled or not.  The next message to ask for is what is cached now.   *)
MutantCountsRows(h) ==
    /\ fetch[h].phase = "listed"
    /\ list' = fetch[h].of
    /\ \/ /\ fetch[h].opened /\ fetch[h].live
          /\ fetch' = [fetch EXCEPT ![h].phase = "asked", ![h].mark = LastKnown(rows) + 1]
          /\ UNCHANGED <<rows, ready, buffer>>
       \/ ~(fetch[h].opened /\ fetch[h].live) /\ HealEnds(h, rows)
    /\ UNCHANGED <<serverVars, wire, sessionVars, conn, boot, more, seen, lost, used>>
    /\ Track
HealListed(h) ==
    /\ fetch[h].phase = "listed"
    /\ list' = fetch[h].of
    /\ \/ /\ fetch[h].opened /\ fetch[h].live
          /\ fetch' = [fetch EXCEPT ![h].phase = "asked", ![h].mark = LastKnown(rows)]
          /\ UNCHANGED <<rows, ready, buffer>>
       \/ ~(fetch[h].opened /\ fetch[h].live) /\ HealEnds(h, rows)
    /\ UNCHANGED <<serverVars, wire, sessionVars, conn, boot, more, seen, lost, used>>
    /\ Track

HealLoaded(h) ==
    /\ fetch[h].phase = "answered"
    /\ HealEnds(h, Merged(fetch[h].rows, rows))
    /\ lost' = (lost \/ (fetch[h].live /\ fetch[h].more))
    /\ UNCHANGED <<serverVars, wire, sessionVars, conn, boot, list, more, seen, used>>
    /\ Track

(* A call fails: the stale rows are kept and the barrier opens.            *)
HealFails(h) ==
    /\ Running(h)
    /\ Fault("fetch")
    /\ HealEnds(h, rows)
    /\ lost' = (lost \/ fetch[h].live)
    /\ UNCHANGED <<serverVars, wire, sessionVars, conn, boot, list, more, seen>>
    /\ Track
-----------------------------------------------------------------------------
Server == Create \/ (\E s \in DOMAIN log : Change(s)) \/ (\E k \in Slots : Answer(k))
Identity == (\E u \in Users : Pick(u)) \/ SwitchUser \/ ZombieCloses
Connection == Deliver \/ Connect \/ ConnectFails \/ Drop \/ Reconnecting \/ Reconnect
Boot == BootListed \/ BootReady \/ BootFails
Transcript == \/ OpenConversation \/ Back \/ PageLoaded \/ LoadOlder \/ OlderLoaded
              \/ ViewingEffect \/ \E k \in Slots : HistoryFails(k)
Healing == \E h \in Heals : HealListed(h) \/ HealLoaded(h) \/ HealFails(h)

Next == Server \/ Identity \/ Connection \/ Boot \/ Transcript \/ Healing
Spec == Init /\ [][Next]_vars
-----------------------------------------------------------------------------
Settled == /\ conn = "connected" /\ route = "chat" /\ boot = "ready"
           /\ wire = <<>> /\ buffer = <<>>
           /\ \A k \in Slots : ~Running(k)

(* Once things have settled, the open transcript has no hole: whatever     *)
(* dropped and was healed, every message is there or is older than the     *)
(* first one and can be scrolled to (useChatSession.ts:796-800).  Not so   *)
(* when a call failed, more was missed than one answer holds, a page was   *)
(* under way across the drop, or the bootstrap ended inside a healing and  *)
(* opened its barrier.                                                     *)
MobileNoHole ==
    Settled /\ ~lost =>
        \A s \in DOMAIN log : \/ s \in DOMAIN rows
                              \/ more /\ rows # <<>> /\ s < Min(DOMAIN rows)

(* And it is current: every edit, deletion and reaction shows, except one  *)
(* that was announced while the phone was away, or while the page with its *)
(* row was still under way: the merge keeps what is cached.                *)
MobileRowsCurrent == Settled => \A s \in DOMAIN rows \ stale : rows[s] = log[s]

(* A connected session that buffers has something under way that will      *)
(* replay what it buffers, unless the bootstrap failed, or the client of   *)
(* the user before closed late.                                            *)
MobileBufferingEnds ==
    conn = "connected" /\ ~ready =>
        \/ boot \in {"loading", "presence", "failed"}
        \/ \E h \in Heals : fetch[h].live /\ Running(h)
        \/ lost

(* What has been looked at is read on the server too, once things have     *)
(* settled: the effect of AppRoot.tsx:106-111 makes up for receipts that   *)
(* could not be sent ("retryable on the next view/reconnect").             *)
ReadCatchesUp ==
    Settled /\ identity = Owner /\ ~ENABLED ViewingEffect /\ rows # <<>> =>
        read >= LastKnown(rows)

================================================================================
