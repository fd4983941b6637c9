------------------------------ MODULE MCTimelines ------------------------------
(***************************************************************************)
(* Small instances of the two clients' copies of a conversation:           *)
(* WebTimeline and MobileSession.  A behaviour is one of one client, the   *)
(* other stays as it starts.                                               *)
(***************************************************************************)
EXTENDS WebTimeline

CONSTANTS alice, duong, NoUser

VARIABLES part,
          table, read, toPhone, identity, route, status, zombie, bootstrap, ready, held,
          list, cached, hasMore, seen, calls, gaps, stale, used

phoneVars == <<table, read, toPhone, identity, route, status, zombie, bootstrap, ready,
               held, list, cached, hasMore, seen, calls, gaps, stale, used>>

WebLoad(created, changed, opened, failed) ==
    [created |-> created, changes |-> changed, opens |-> opened, faults |-> failed]
PhoneLoad(created, changed, opened, failed, picked) ==
    [created |-> created, changes |-> changed, opens |-> opened, faults |-> failed,
     users |-> picked]

(* Web: a change and a fault; two messages and two faults; the             *)
(* conversation opened twice, with a fault or with a change.               *)
WebLoads == {WebLoad(1, 1, 1, 1), WebLoad(2, 0, 1, 2), WebLoad(1, 0, 2, 1),
             WebLoad(1, 1, 2, 0)}
(* Mobile: one user, a message and two faults, two messages and one, a     *)
(* change and a fault, or a second opening; two users and a fault.         *)
PhoneLoads == {PhoneLoad(1, 0, 1, 2, 1), PhoneLoad(2, 0, 1, 1, 1), PhoneLoad(1, 1, 1, 1, 1),
               PhoneLoad(0, 1, 2, 1, 1), PhoneLoad(1, 0, 2, 1, 1), PhoneLoad(1, 0, 1, 1, 2)}

M == INSTANCE MobileSession WITH
        Users <- {alice, duong}, Owner <- alice, Heals <- Recoveries,
        FaultKinds <- {"drop", "fetch"}, Loads <- PhoneLoads,
        log <- table, wire <- toPhone, conn <- status, boot <- bootstrap, buffer <- held,
        rows <- cached, more <- hasMore, fetch <- calls, lost <- gaps

MCInit == part \in {"web", "phone"} /\ Init /\ M!Init

OnWeb(A)   == part = "web" /\ A /\ UNCHANGED <<part, phoneVars>>
OnPhone(A) == part = "phone" /\ A /\ UNCHANGED <<part, vars>>

WebNext ==
    \/ OnWeb(Create)
    \/ \E s \in DOMAIN log, type \in ChangeTypes : OnWeb(Change(s, type))
    \/ \E i \in DOMAIN outbox, marked \in BOOLEAN : OnWeb(Relay(i, marked))
    \/ OnWeb(Deliver) \/ OnWeb(Connect) \/ OnWeb(ConnectFails) \/ OnWeb(Drop)
    \/ OnWeb(Reconnecting) \/ OnWeb(Reconnect)
    \/ OnWeb(BootListed) \/ OnWeb(BootReady) \/ OnWeb(BootFails)
    \/ OnWeb(Open) \/ OnWeb(Close) \/ OnWeb(PageLoaded) \/ OnWeb(TryAgain)
    \/ OnWeb(RetryLoaded) \/ OnWeb(LoadOlder) \/ OnWeb(OlderLoaded)
    \/ OnWeb(GapFilled) \/ OnWeb(GapFails)
    \/ \E k \in Slots : OnWeb(HistoryFails(k)) \/ OnWeb(Answer(k))
    \/ \E r \in Recoveries : \/ OnWeb(RecoveryListed(r)) \/ OnWeb(NothingOpen(r))
                             \/ OnWeb(Recovered(r)) \/ OnWeb(RecoveryFails(r))

PhoneNext ==
    \/ OnPhone(M!Create)
    \/ \E s \in DOMAIN table : OnPhone(M!Change(s))
    \/ \E u \in {alice, duong} : OnPhone(M!Pick(u))
    \/ OnPhone(M!SwitchUser) \/ OnPhone(M!ZombieCloses)
    \/ OnPhone(M!Deliver) \/ OnPhone(M!Connect) \/ OnPhone(M!ConnectFails)
    \/ OnPhone(M!Drop) \/ OnPhone(M!Reconnecting) \/ OnPhone(M!Reconnect)
    \/ OnPhone(M!BootListed) \/ OnPhone(M!BootReady) \/ OnPhone(M!BootFails)
    \/ OnPhone(M!OpenConversation) \/ OnPhone(M!Back) \/ OnPhone(M!PageLoaded)
    \/ OnPhone(M!LoadOlder) \/ OnPhone(M!OlderLoaded) \/ OnPhone(M!ViewingEffect)
    \/ \E k \in M!Slots : OnPhone(M!HistoryFails(k)) \/ OnPhone(M!Answer(k))
    \/ \E h \in Recoveries : \/ OnPhone(M!HealListed(h)) \/ OnPhone(M!HealLoaded(h))
                             \/ OnPhone(M!HealFails(h))

MCNext == WebNext \/ PhoneNext
MCSpec == MCInit /\ [][MCNext]_<<part, vars, phoneVars>>

(* MobileSession: the open transcript has no hole that nothing explains.   *)
MobileNoHole == M!MobileNoHole
(* MobileSession: changes the phone could learn of show.                   *)
MobileRowsCurrent == M!MobileRowsCurrent
(* MobileSession: what is buffered will be replayed.                       *)
MobileBufferingEnds == M!MobileBufferingEnds
(* MobileSession: what was looked at is read on the server.                *)
ReadCatchesUp == M!ReadCatchesUp
================================================================================
