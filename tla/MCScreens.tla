------------------------------- MODULE MCScreens -------------------------------
(***************************************************************************)
(* Small instances of what the user sees: the open conversation of Pane,   *)
(* the list and the panels of Shell, the rows of ChatRows.  A              *)
(* behaviour is one of one part, the others stay as they start.            *)
(***************************************************************************)
EXTENDS Pane

VARIABLES part,
          client, srv, log, next, list, at, panel, alert, requests, left, overtaken,
          messages, pending, readWatermark

paneVars  == vars
shellVars == <<client, srv, log, next, list, at, panel, alert, requests, left, overtaken>>
rowVars   == <<messages, pending, readWatermark>>
allVars   == <<part, paneVars, shellVars, rowVars>>

(* One group Self only joined and one of Self; a group Self is not in and  *)
(* an id that is not used yet.                                             *)
Users == {"me", "ann", "bob"}
Rows(M, a) == [state |-> "live", members |-> M, admins |-> {a}, last |-> 0, read |-> 0]
Nothing    == [state |-> "none", members |-> {}, admins |-> {}, last |-> 0, read |-> 0]
Two(a, b)  == [g \in {"g1", "g2"} |-> IF g = "g1" THEN a ELSE b]
Both   == Two(Rows(Users, "ann"), Rows(Users, "me"))
Others == Two(Rows(Users \ {"me"}, "ann"), Nothing)
S == INSTANCE Shell WITH kind <- client, Self <- "me", Starts <- {Both, Others},
        Loads <- {[events |-> 3, replays |-> 1, calls |-> 0],
                  [events |-> 2, replays |-> 0, calls |-> 1]}
C == INSTANCE ChatRows WITH Self <- "me", Senders <- {"me", "you"}, IsGroup <- TRUE,
        GroupGap <- 2, DayLength <- 3, Times <- {1, 2, 3, 6}, MaxMessages <- 3,
        MaxPending <- 1, Reactions <- {{}, {<<1, "me">>, <<2, "you">>, <<2, "me">>}}

(* A message in each conversation, one of them the user's.                 *)
MCConvOf == [m \in {"a", "b"} |-> IF m = "b" THEN "g2" ELSE "g1"]

MCInit ==
    /\ part \in {"shell", "pane", "rows"}
    /\ Init /\ S!Init /\ C!Init
    /\ part = "shell" \/ (client = "web" /\ srv = Both /\ left.calls = 0)
    /\ part = "pane" \/ kind = "web"

InShell(A) == part = "shell" /\ A /\ UNCHANGED <<part, paneVars, rowVars>>
InPane(A)  == part = "pane" /\ A /\ UNCHANGED <<part, shellVars, rowVars>>
InRows(A)  == part = "rows" /\ A /\ UNCHANGED <<part, paneVars, shellVars>>

ShellNext ==
    \/ \E c \in Conversations :
          \/ InShell(S!Message(c)) \/ InShell(S!Read(c))
          \/ InShell(S!WebOpen(c)) \/ InShell(S!MobileOpen(c))
          \/ InShell(S!WebToggleAdding(c)) \/ InShell(S!MobileToggleAdding(c))
          \/ InShell(S!WebAskDelete(c)) \/ InShell(S!MobileAskDelete(c))
          \/ InShell(S!WebCancelDelete(c)) \/ InShell(S!MobileCancelDelete(c))
          \/ InShell(S!WebDeleteGroup(c)) \/ InShell(S!MobileDeleteGroup(c))
          \/ InShell(S!WebCancelRemove(c)) \/ InShell(S!WebRemoveMember(c))
    \/ \E c \in Conversations, u \in Users :
          \/ InShell(S!WebAddMember(c, u)) \/ InShell(S!MobileAddMember(c, u))
          \/ InShell(S!WebAskRemove(c, u)) \/ InShell(S!MobileAskRemove(c, u))
          \/ \E op \in {"add", "remove", "delete"}, a \in Users : InShell(S!OthersCall(c, op, a, u))
    \/ \E c \in Conversations, G \in SUBSET (Users \ {"me"}) :
          InShell(S!WebCreate(c, G)) \/ InShell(S!MobileCreate(c, G))
    \/ \E r \in requests : InShell(S!Serve(r))
    \/ \E r \in requests : InShell(S!ServeList(r))
    \/ \E r \in requests : InShell(S!Fail(r))
    \/ \E r \in requests : InShell(S!Failed(r))
    \/ \E r \in requests : InShell(S!WebCreated(r))
    \/ \E r \in requests : InShell(S!MobileCreated(r))
    \/ \E r \in requests : InShell(S!Refreshed(r))
    \/ \E r \in requests : InShell(S!WebAnswered(r))
    \/ \E r \in requests : InShell(S!MobileChanged(r))
    \/ \E r \in requests : InShell(S!MobileDeleted(r))
    \/ InShell(S!MobileDetails) \/ InShell(S!MobileNewMessage) \/ InShell(S!MobileBack)
    \/ InShell(S!MobileAlertCancel) \/ InShell(S!MobileAlertLeave) \/ InShell(S!MobileRemoveMember)
    \/ InShell(S!Receive) \/ InShell(S!Replay)

PaneNext ==
    \/ \E c \in Conversations : InPane(WebOpen(c)) \/ InPane(MobileOpen(c))
    \/ InPane(WebClosed) \/ InPane(MobileLeave)
    \/ InPane(Type) \/ InPane(Erase) \/ InPane(WebSend) \/ InPane(MobileSubmit)
    \/ InPane(CancelBanner) \/ InPane(MenuClose) \/ InPane(MenuReact)
    \/ InPane(MenuReply) \/ InPane(MenuEdit) \/ InPane(MenuDelete)
    \/ \E m \in Messages :
          \/ InPane(Deleted(m)) \/ InPane(LongPress(m)) \/ InPane(WebReply(m))
          \/ InPane(WebEmojiBar(m)) \/ InPane(WebReact(m)) \/ InPane(WebChip(m))
          \/ InPane(MobileChip(m)) \/ InPane(WebEdit(m)) \/ InPane(WebSaveEdit(m))
          \/ InPane(WebAskDelete(m)) \/ InPane(WebDelete(m))
    \/ InPane(OpenSheet) \/ InPane(CloseSheet) \/ InPane(RequestAttachment)
    \/ InPane(LaunchPending) \/ InPane(WebUpload)
    \/ \E p \in pickers : InPane(PickNothing(p))
    \/ \E p \in pickers : InPane(PickFile(p))
    \/ \E u \in uploads : InPane(WebUploadEnds(u))
    \/ \E u \in uploads : InPane(MobileUploadEnds(u))

RowsNext == InRows(C!Extend) \/ InRows(C!Send) \/ InRows(C!ReadBy)

MCSpec == MCInit /\ [][ShellNext \/ PaneNext \/ RowsNext]_allVars

(* Shell: once all events are handled, the list is the server's.           *)
ListHonest == S!ListHonest
(* Shell: nobody is left on a conversation that is gone.                   *)
NoGhostScreen == S!NoGhostScreen
(* ChatRows: the rows of a transcript are those of its messages.           *)
RowsMatch == C!RowsMatch
================================================================================
