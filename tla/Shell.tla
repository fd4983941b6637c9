--------------------------------- MODULE Shell ---------------------------------
(***************************************************************************)
(* The conversation list of one client, the screens around it and the      *)
(* group panel: apps/web (chat/page.tsx, Sidebar.tsx, DetailsPanel.tsx)    *)
(* and apps/mobile (AppRoot.tsx, conversation-events.ts,                   *)
(* NewConversationScreen.tsx, GroupDetailsScreen.tsx).                     *)
(*                                                                         *)
(* The server is what these clients see of it: the endpoints of module     *)
(* Groups, one call at a time, and a log of events in commit order.  The   *)
(* relay delivers the log in order and may start again from an earlier     *)
(* event (module Outbox).  Titles, previews, search and order are left     *)
(* out; reads are those of Self.                                           *)
(***************************************************************************)
EXTENDS Integers, FiniteSets, Sequences, FiniteSetsExt

CONSTANTS
    Self,           \* the user of the client
    Users,
    Conversations,  \* ids of groups, used and unused
    None,
    Starts,         \* the groups a behaviour may begin with
    Loads           \* bounds: [events, replays (of the relay), calls (REST)]

VARIABLES
    kind,       \* "web" or "mobile"
    srv,        \* [Conversations -> the rows of the group]
    log,        \* the events, in commit order
    next,       \* the events the client has handled
    list,       \* [Conversations -> the client's entry or NoRow]
    at,         \* the screen and its conversation
    panel,      \* state of DetailsPanel / GroupDetailsScreen
    alert,      \* mobile: the native confirmation on top of the screen
    requests,   \* REST calls in progress
    left,       \* what is left of the bounds
    overtaken   \* history: entries a REST answer replaced by older data

serverVars == <<srv, log>>
screenVars == <<at, panel, alert>>
vars == <<kind, srv, log, next, list, at, panel, alert, requests, left, overtaken>>

NoRow  == [members |-> {}, admins |-> {}, last |-> 0, read |-> 0]
Row(s) == [members |-> s.members, admins |-> s.admins, last |-> s.last, read |-> s.read]
(* listConversations: the groups of Self that are not deleted.             *)
Listed(s) == IF s.state = "live" /\ Self \in s.members THEN Row(s) ELSE NoRow
Known(c)  == list[c] # NoRow

Unused == [state |-> "none", members |-> {}, admins |-> {}, last |-> 0, read |-> 0]
Group(M, a) == [Unused EXCEPT !.state = "live", !.members = M, !.admins = {a}]

(* The states of a panel that was just opened.                             *)
Fresh == [confirm |-> FALSE, remove |-> None, adding |-> FALSE, busy |-> {}]

Screen(s, c) == [screen |-> s, conv |-> c]

Init ==
    /\ kind \in {"web", "mobile"}
    /\ srv \in Starts
    /\ log = <<>> /\ next = 0
    /\ list = [c \in Conversations |-> Listed(srv[c])]
    /\ at = Screen(IF kind = "web" THEN "chat" ELSE "list", None)
    /\ panel = Fresh /\ alert = None
    /\ requests = {}
    /\ left \in Loads
    /\ overtaken = {}

(***************************************************************************)
(* The server.                                                             *)
(***************************************************************************)
(* What the endpoint called by a makes of the group; nothing if it refuses.*)
Outcomes(s, op, a, S) ==
    LET gone == s.members \ S
        heirs == IF s.admins \subseteq S THEN {{h} : h \in gone} ELSE {s.admins \ S}
    IN  CASE op = "create" -> {Group(S \cup {a}, a)}
          [] s.state # "live" -> {}
          [] op = "add" /\ a \in s.admins ->
                {[s EXCEPT !.members = @ \cup S,
                           !.read = IF Self \in S \ s.members THEN 0 ELSE @]}
          [] op = "remove" /\ (S = {a} \/ a \in s.admins) /\ S \subseteq s.members ->
                {[s EXCEPT !.members = gone, !.admins = h,
                           !.read = IF Self \in S THEN 0 ELSE @] : h \in heirs}
          [] op = "delete" /\ a \in s.admins -> {[s EXCEPT !.state = "deleted"]}
          [] OTHER -> {}

EventName == [create |-> "created", add |-> "joined", remove |-> "left",
              delete |-> "deleted"]

(* One transaction: the rows and the event with the summary of the rows.   *)
Commit(c, new, type, users) ==
    /\ Len(log) < left.events
    /\ srv' = [srv EXCEPT ![c] = new]
    /\ log' = Append(log, [type |-> type, conv |-> c, users |-> users, row |-> Row(new)])

(* Another device calls an endpoint.                                       *)
OthersCall(c, op, a, u) ==
    /\ srv[c].state = "live" /\ a \in srv[c].members
    /\ \E new \in Outcomes(srv[c], op, a, IF op = "delete" THEN {} ELSE {u}) :
          Commit(c, new, EventName[op], {u})
    /\ UNCHANGED <<kind, next, list, at, panel, alert, requests, left, overtaken>>

(* The worker commits a message or moves the read watermark of Self.       *)
Message(c) ==
    /\ srv[c].state = "live"
    /\ Commit(c, [srv[c] EXCEPT !.last = @ + 1], "message", {})
    /\ UNCHANGED <<kind, next, list, at, panel, alert, requests, left, overtaken>>

Read(c) ==
    /\ srv[c].state = "live" /\ Self \in srv[c].members
    /\ \E n \in (srv[c].read + 1)..srv[c].last :
          Commit(c, [srv[c] EXCEPT !.read = n], "read", {Self})
    /\ UNCHANGED <<kind, next, list, at, panel, alert, requests, left, overtaken>>

(* The relay publishes again what it had not marked as published.          *)
Replay ==
    /\ next > 0 /\ left.replays > 0
    /\ \E n \in 0..(next - 1) : next' = n
    /\ left' = [left EXCEPT !.replays = @ - 1]
    /\ UNCHANGED <<kind, srv, log, list, at, panel, alert, requests, overtaken>>

(***************************************************************************)
(* Events.  Each handler gives the entry of the event's conversation.      *)
(***************************************************************************)
Preserving(row, old) == [row EXCEPT !.last = Max({@, old.last})]

Activity(e, old) == IF old # NoRow /\ e.row.last > old.last
                    THEN [old EXCEPT !.last = e.row.last] ELSE old

(* advanceMemberWatermark.                                                 *)
Receipt(e, old) == IF old # NoRow /\ Self \in old.members /\ e.row.read > old.read
                   THEN [old EXCEPT !.read = e.row.read] ELSE old

(* Mutant: the removal of Self is treated as anybody's removal.            *)
MutantLeftAnyone(e, old) == IF old # NoRow THEN Preserving(e.row, old) ELSE old

Left(e, old) == IF Self \in e.users THEN NoRow
                ELSE IF old # NoRow THEN Preserving(e.row, old) ELSE old

Deleted(e, old) == IF Self \in e.row.members THEN NoRow ELSE old

(* handleEvent of the web page.                                            *)
WebApplied(e, old) ==
    CASE e.type = "created" -> IF Self \in e.row.members THEN e.row ELSE old
      [] e.type = "joined"  -> IF Self \in e.row.members THEN Preserving(e.row, old)
                               ELSE old
      [] e.type = "left"    -> Left(e, old)
      [] e.type = "deleted" -> Deleted(e, old)
      [] e.type = "message" -> Activity(e, old)
      [] e.type = "read"    -> Receipt(e, old)

(* applyConversationEvent, applyMessageActivity, applyReadReceipt.         *)
MobileApplied(e, old) ==
    CASE e.type = "deleted" -> Deleted(e, old)
      [] e.type = "left"    -> Left(e, old)
      [] e.type = "message" -> Activity(e, old)
      [] e.type = "read"    -> Receipt(e, old)
      [] OTHER -> IF Self \in e.row.members \/ (e.type = "joined" /\ old # NoRow)
                  THEN Preserving(e.row, old) ELSE old

(* Mutant: the effect that leaves a removed conversation is missing.       *)
MutantStays(l, s) == s

(* ghostRoute: home when the open conversation is gone, unless the list    *)
(* is empty.                                                               *)
Home(l, s) ==
    IF s.conv # None /\ l[s.conv] = NoRow /\ \E c \in Conversations : l[c] # NoRow
    THEN Screen("list", None) ELSE s

(* removeConversation closes the chat that is open.                        *)
Closed(e, s) == IF e.type = "deleted" /\ Self \in e.row.members /\ s.conv = e.conv
                THEN Screen("chat", None) ELSE s

(* The mobile panel is shown while its screen is; leaving it drops its     *)
(* state, and its answers find nobody.  The web panel is always mounted.   *)
Shown(l, s) == kind = "web" \/ (s.screen = "details" /\ l[s.conv] # NoRow)
Panel(l, s, p) == IF Shown(l, s) THEN p ELSE Fresh
Detached(l, s, R) ==
    LET There(r) == Shown(l, s) \/ (r.op = "create" /\ s.screen = "new")
    IN  {[r EXCEPT !.mounted = @ /\ There(r)] : r \in R}

(* The list and the screen change; everything that depends on them follows.*)
Show(l, s, p, R) ==
    LET t == IF kind = "mobile" THEN Home(l, s) ELSE s
    IN  /\ list' = l /\ at' = t
        /\ panel' = Panel(l, t, p)
        /\ requests' = Detached(l, t, R)

(* A full summary, or none, replaces what an overtaken answer left.        *)
Heals(e) == \/ e.type = "joined" /\ Self \in e.row.members
            \/ e.type = "left" /\ Self \in e.users
            \/ e.type = "deleted" /\ Self \in e.row.members

Receive ==
    /\ next < Len(log)
    /\ next' = next + 1
    /\ LET e   == log[next + 1]
           row == IF kind = "web" THEN WebApplied(e, list[e.conv])
                  ELSE MobileApplied(e, list[e.conv])
       IN  /\ Show([list EXCEPT ![e.conv] = row],
                   IF kind = "web" THEN Closed(e, at) ELSE at, panel, requests)
           /\ overtaken' = IF Heals(e) THEN overtaken \ {e.conv} ELSE overtaken
    /\ UNCHANGED <<kind, serverVars, alert, left>>

(***************************************************************************)
(* REST calls of the client.                                               *)
(***************************************************************************)
(* A call starts.                                                          *)
Call(op, c, S) ==
    /\ left.calls > 0
    /\ left' = [left EXCEPT !.calls = @ - 1]
    /\ requests' = requests \cup {[op |-> op, conv |-> c, users |-> S, phase |-> "sent",
          pos |-> 0, rows |-> <<>>, mounted |-> TRUE, id |-> left.calls]}

Stays == UNCHANGED <<kind, serverVars, next, list, overtaken>>

(* The call is answered from what the server now has.                      *)
Served(r, phase, pos, now) ==
    requests' = (requests \ {r}) \cup {[r EXCEPT !.phase = phase, !.pos = pos,
        !.rows = IF phase = "ok" THEN [c \in Conversations |-> Listed(now[c])] ELSE @]}

(* The endpoint does it; the answer may get lost.                          *)
Serve(r) ==
    /\ r.phase = "sent" /\ r.op # "list"
    /\ \E new \in Outcomes(srv[r.conv], r.op, Self, r.users), phase \in {"ok", "failed"} :
          /\ Commit(r.conv, new, EventName[r.op], r.users)
          /\ Served(r, phase, Len(log) + 1, srv')
    /\ UNCHANGED <<kind, next, list, at, panel, alert, left, overtaken>>

ServeList(r) ==
    /\ r.phase = "sent" /\ r.op = "list"
    /\ Served(r, "ok", Len(log), srv)
    /\ UNCHANGED <<kind, serverVars, next, list, at, panel, alert, left, overtaken>>

(* It refuses, or the request gets lost.                                   *)
Fail(r) ==
    /\ r.phase = "sent"
    /\ Served(r, "failed", 0, srv)
    /\ UNCHANGED <<kind, serverVars, next, list, at, panel, alert, left, overtaken>>

(* The finally blocks: each web button has its flag, the mobile screen one.*)
Flag(op) == IF kind = "web" THEN op ELSE "busy"
Released(r, p) == IF r.mounted THEN [p EXCEPT !.busy = @ \ {Flag(r.op)}] ELSE p

(* Events after the answer's snapshot that the client has handled.         *)
Newer(r, C) == {c \in C : \E i \in (r.pos + 1)..next : log[i].conv = c}

Failed(r) ==
    /\ r.phase = "failed"
    /\ panel' = Released(r, panel)
    /\ requests' = requests \ {r}
    /\ UNCHANGED <<kind, serverVars, next, list, at, alert, left, overtaken>>

(* createConversation: upsert the answer and open it.                      *)
Created(r) ==
    /\ r.phase = "ok" /\ r.op = "create"
    /\ Show([list EXCEPT ![r.conv] = r.rows[r.conv]], Screen("chat", r.conv),
            panel, requests \ {r})
    /\ overtaken' = overtaken \cup Newer(r, {r.conv})
    /\ UNCHANGED <<kind, serverVars, next, alert, left>>
WebCreated(r)    == kind = "web" /\ Created(r)
MobileCreated(r) == kind = "mobile" /\ Created(r)

(* refreshConversations replaces the list.                                 *)
Refreshed(r) ==
    /\ r.phase = "ok" /\ r.op = "list"
    /\ Show(r.rows, at, panel, requests \ {r})
    /\ overtaken' = Newer(r, Conversations)
    /\ UNCHANGED <<kind, serverVars, next, alert, left>>

(* The panel's answer on the web: the confirmation or the form closes.     *)
WebAnswered(r) ==
    /\ kind = "web" /\ r.phase = "ok" /\ r.op \in {"add", "remove", "delete"}
    /\ panel' = [Released(r, panel) EXCEPT
          !.adding  = @ /\ r.op # "add",
          !.remove  = IF r.op = "remove" THEN None ELSE @,
          !.confirm = @ /\ r.op # "delete"]
    /\ requests' = requests \ {r}
    /\ UNCHANGED <<kind, serverVars, next, list, at, alert, left, overtaken>>

(* On mobile an added or removed member makes the client fetch the list.   *)
MobileChanged(r) ==
    /\ kind = "mobile" /\ r.phase = "ok" /\ r.op \in {"add", "remove"}
    /\ panel' = [Released(r, panel) EXCEPT !.adding = @ /\ ~(r.op = "add" /\ r.mounted)]
    /\ requests' = (requests \ {r}) \cup {[r EXCEPT !.op = "list", !.phase = "sent",
                                                       !.mounted = FALSE]}
    /\ UNCHANGED <<kind, serverVars, next, list, at, alert, left, overtaken>>

(* onDeleted: home, from wherever the user is by now.                      *)
MobileDeleted(r) ==
    /\ kind = "mobile" /\ r.phase = "ok" /\ r.op = "delete"
    /\ Show(list, Screen("list", None), panel, requests \ {r})
    /\ UNCHANGED <<kind, serverVars, next, alert, left, overtaken>>

(***************************************************************************)
(* The user.                                                               *)
(***************************************************************************)
(* Neither an alert nor the mobile confirmation covers the screen.         *)
Free == alert = None /\ (kind = "mobile" => ~panel.confirm)
Quiet == Stays /\ UNCHANGED <<alert, left>>

Opens(s) == Free /\ Show(list, s, panel, requests) /\ Quiet

(* Web: a row of the sidebar.                                              *)
SidebarRow(c) == kind = "web" /\ Known(c)
WebOpen(c) == SidebarRow(c) /\ at.conv # c /\ Opens(Screen("chat", c))

(* Mobile: a row of the list, the details of the open chat, the form for a *)
(* new conversation, and back.                                             *)
MobileListRow(c) == kind = "mobile" /\ at.screen = "list" /\ Known(c)
MobileOpen(c)    == MobileListRow(c) /\ Opens(Screen("chat", c))
MobileDetails    == /\ kind = "mobile" /\ at.screen = "chat" /\ Known(at.conv)
                    /\ Opens(Screen("details", at.conv))
MobileNewMessage == kind = "mobile" /\ at.screen = "list" /\ Opens(Screen("new", None))
MobileBack       == /\ kind = "mobile"
                    /\ at.screen = "new" \/ (at.conv # None /\ Known(at.conv))
                    /\ Opens(Screen("list", None))

(* The group whose panel is on the screen.  The user leaves the panel      *)
(* alone when no call is left to make.                                     *)
OnScreen(k, c) == kind = k /\ at.conv = c /\ Known(c) /\ Shown(list, at) /\ left.calls > 0
InPanel(k, c)  == OnScreen(k, c) /\ Free
Idle(op) == Flag(op) \notin panel.busy

(* A button that only changes the panel, and one that calls an endpoint.   *)
Set(p) == panel' = p /\ Quiet /\ UNCHANGED <<at, requests>>
Press(op, c, S, p) ==
    /\ Idle(op)
    /\ Call(op, c, S)
    /\ panel' = [p EXCEPT !.busy = @ \cup {Flag(op)}]
    /\ Stays /\ UNCHANGED <<at, alert>>

WebIsAdmin(c)    == Self \in list[c].admins
MobileIsAdmin(c) == Self \in list[c].admins
(* An admin removes others, anybody else leaves.                           *)
Removable(c, u)  == /\ u \in list[c].members
                    /\ IF Self \in list[c].admins THEN u # Self ELSE u = Self

WebToggleAdding(c) ==
    InPanel("web", c) /\ WebIsAdmin(c) /\ Set([panel EXCEPT !.adding = ~@])
MobileToggleAdding(c) ==
    InPanel("mobile", c) /\ MobileIsAdmin(c) /\ Set([panel EXCEPT !.adding = ~@])

(* The form stays open on the web when another group is opened; on mobile  *)
(* it is hidden from a user who is no admin.                               *)
WebAddMember(c, u) ==
    /\ InPanel("web", c) /\ panel.adding /\ u \notin list[c].members
    /\ Press("add", c, {u}, panel)
MobileAddMember(c, u) ==
    /\ InPanel("mobile", c) /\ panel.adding /\ MobileIsAdmin(c) /\ u \notin list[c].members
    /\ Press("add", c, {u}, panel)

WebAskDelete(c) ==
    /\ InPanel("web", c) /\ WebIsAdmin(c) /\ ~panel.confirm /\ Idle("delete")
    /\ Set([panel EXCEPT !.confirm = TRUE])
MobileAskDelete(c) ==
    /\ InPanel("mobile", c) /\ MobileIsAdmin(c) /\ Idle("delete")
    /\ Set([panel EXCEPT !.confirm = TRUE])

WebCancelDelete(c) ==
    /\ InPanel("web", c) /\ WebIsAdmin(c) /\ panel.confirm
    /\ Set([panel EXCEPT !.confirm = FALSE])
MobileCancelDelete(c) ==
    OnScreen("mobile", c) /\ panel.confirm /\ Set([panel EXCEPT !.confirm = FALSE])

(* The web box shows the open group, whichever group it was opened for.    *)
WebDeleteGroup(c) ==
    /\ InPanel("web", c) /\ WebIsAdmin(c) /\ panel.confirm
    /\ Press("delete", c, {}, panel)
MobileDeleteGroup(c) ==
    /\ OnScreen("mobile", c) /\ panel.confirm
    /\ Press("delete", c, {}, [panel EXCEPT !.confirm = FALSE])

WebAskRemove(c, u) ==
    /\ InPanel("web", c) /\ Removable(c, u) /\ panel.remove # u
    /\ Set([panel EXCEPT !.remove = u])
WebCancelRemove(c) ==
    /\ InPanel("web", c) /\ panel.remove # None /\ Removable(c, panel.remove)
    /\ Set([panel EXCEPT !.remove = None])
WebRemoveMember(c) ==
    /\ InPanel("web", c) /\ panel.remove # None /\ Removable(c, panel.remove)
    /\ Press("remove", c, {panel.remove}, panel)

(* Remove asks once, Leave twice.                                          *)
MobileAskRemove(c, u) ==
    /\ InPanel("mobile", c) /\ Removable(c, u) /\ Idle("remove")
    /\ alert' = [conv |-> c, user |-> u, leave |-> u = Self]
    /\ Stays /\ UNCHANGED <<at, panel, requests, left>>

MobileAlertCancel ==
    /\ alert # None
    /\ alert' = None
    /\ Stays /\ UNCHANGED <<at, panel, requests, left>>

MobileAlertLeave ==
    /\ alert # None /\ alert.leave
    /\ alert' = [alert EXCEPT !.leave = FALSE]
    /\ Stays /\ UNCHANGED <<at, panel, requests, left>>

(* The alert outlives the screen below it and does not look at busy.       *)
MobileRemoveMember ==
    /\ alert # None /\ ~alert.leave
    /\ Call("remove", alert.conv, {alert.user})
    /\ alert' = None
    /\ panel' = Panel(list, at, [panel EXCEPT !.busy = @ \cup {"busy"}])
    /\ Stays /\ UNCHANGED at

Unheard(c) == srv[c].state = "none" /\ \A r \in requests : r.op = "create" => r.conv # c

(* The selections the two forms let through for a group.                   *)
WebSelection    == SUBSET (Users \ {Self}) \ {{}}
MobileSelection == {S \in WebSelection : Cardinality(S) > 1}

(* The web form has no guard against a second click; the mobile one has,   *)
(* until the screen is left.                                               *)
WebCreate(c, S) ==
    /\ kind = "web" /\ S \in WebSelection /\ Unheard(c)
    /\ Call("create", c, S)
    /\ Stays /\ UNCHANGED <<at, panel, alert>>
MobileCreate(c, S) ==
    /\ kind = "mobile" /\ Free /\ at.screen = "new"
    /\ S \in MobileSelection /\ Unheard(c) /\ \A r \in requests : r.op = "create" => ~r.mounted
    /\ Call("create", c, S)
    /\ Stays /\ UNCHANGED <<at, panel, alert>>

Next ==
    \/ \E c \in Conversations :
          \/ Message(c) \/ Read(c) \/ WebOpen(c) \/ MobileOpen(c)
          \/ WebToggleAdding(c) \/ WebAskDelete(c) \/ WebCancelDelete(c) \/ WebDeleteGroup(c)
          \/ MobileToggleAdding(c) \/ MobileAskDelete(c) \/ MobileCancelDelete(c)
          \/ MobileDeleteGroup(c) \/ WebCancelRemove(c) \/ WebRemoveMember(c)
    \/ \E c \in Conversations, u \in Users :
          \/ WebAddMember(c, u) \/ MobileAddMember(c, u)
          \/ WebAskRemove(c, u) \/ MobileAskRemove(c, u)
          \/ \E op \in {"add", "remove", "delete"}, a \in Users : OthersCall(c, op, a, u)
    \/ \E c \in Conversations, S \in SUBSET (Users \ {Self}) :
          WebCreate(c, S) \/ MobileCreate(c, S)
    \/ \E r \in requests : \/ Serve(r) \/ ServeList(r) \/ Fail(r) \/ Failed(r)
                           \/ WebCreated(r) \/ MobileCreated(r) \/ Refreshed(r)
                           \/ WebAnswered(r) \/ MobileChanged(r) \/ MobileDeleted(r)
    \/ MobileDetails \/ MobileNewMessage \/ MobileBack
    \/ MobileAlertCancel \/ MobileAlertLeave \/ MobileRemoveMember
    \/ Receive \/ Replay

Spec == Init /\ [][Next]_vars

(***************************************************************************)
(* Properties.                                                             *)
(***************************************************************************)
(* Once every event was handled the list is what the server would answer,  *)
(* memberships, roles and unread counts included, however often the relay  *)
(* started again; the one exception is an entry that a REST answer         *)
(* replaced by older data (createConversation, refreshConversations) and   *)
(* no membership event or clean refetch has touched since.                 *)
ListHonest ==
    next = Len(log) => \A c \in Conversations \ overtaken : list[c] = Listed(srv[c])

(* Once every event was handled nobody looks at a conversation that is     *)
(* gone: on mobile the effect goes home unless the list is empty (a blank  *)
(* screen), on the web only a group that Self was taken out of stays open. *)
NoGhostScreen ==
    next = Len(log) =>
        \/ at.conv \in {None} \cup overtaken
        \/ Known(at.conv)
        \/ IF kind = "web" THEN Self \notin srv[at.conv].members
           ELSE \A c \in Conversations : ~Known(c)
================================================================================
