---------------------------------- MODULE Pane ----------------------------------
(***************************************************************************)
(* The open conversation: composer, reply and edit banners, message menu   *)
(* and attachments.  apps/web (Composer.tsx, MessageBubble.tsx, the reply  *)
(* state of chat/page.tsx) and apps/mobile (ChatScreen.tsx, the attachment *)
(* flows of AppRoot.tsx).                                                  *)
(*                                                                         *)
(* The mobile screen is unmounted when the user leaves a conversation; the *)
(* web composer stays mounted while some conversation is open.  A draft is *)
(* known by where it was typed and by the message it was loaded from; of   *)
(* the commands the last one is kept.  What happens to a command is the    *)
(* matter of modules Sends and ChatWorker.                                 *)
(***************************************************************************)
EXTENDS Naturals, FiniteSets

CONSTANTS
    Conversations,
    Messages,
    ConvOf,     \* [Messages -> Conversations]
    Own,        \* the messages the user sent
    Text,       \* the messages of type TEXT
    None,
    MaxPicks    \* bound on attachments

VARIABLES
    kind,       \* "web", "ios" or "android"
    open,       \* the open conversation or None
    ui,         \* state of the screen: draft, reply, edit, menu, confirm, emoji
    sheet,      \* mobile: the attachment sheet and the request it left
    pickers,    \* mobile: native pickers on the screen
    uploads,    \* uploads in progress
    uploading,  \* the flag of the composer (web) or of the app (mobile)
    picks,      \* [asked, launched]: attachments asked for, pickers launched
    gone,       \* messages shown as deleted
    last        \* the last command

vars == <<kind, open, ui, sheet, pickers, uploads, uploading, picks, gone, last>>
restVars == <<kind, pickers, uploads, uploading, picks, gone>>

Fresh   == [draft |-> None, reply |-> None, edit |-> {}, menu |-> None,
            confirm |-> {}, emoji |-> {}]
NoSheet == [open |-> FALSE, pending |-> None]

Init ==
    /\ kind \in {"web", "ios", "android"}
    /\ open = None
    /\ ui = Fresh
    /\ sheet = NoSheet
    /\ pickers = {} /\ uploads = {} /\ uploading = FALSE
    /\ picks = [asked |-> 0, launched |-> 0]
    /\ gone = {}
    /\ last = None

Web    == kind = "web"
Mobile == ~Web

(* A command: about msg, or a message with its reply, its text and the     *)
(* conversation its attachment was picked in.                              *)
Command(op, c, m, reply, text, from) ==
    last' = [op |-> op, conv |-> c, msg |-> m, reply |-> reply, text |-> text, from |-> from]
About(op, m) == Command(op, open, m, None, None, None)

(***************************************************************************)
(* Opening and leaving a conversation.                                     *)
(***************************************************************************)
(* Mutant: the effect on activeConversationId forgets the reply.           *)
MutantKeepsReply(c) ==
    /\ Web /\ open # c
    /\ open' = c
    /\ ui' = [Fresh EXCEPT !.draft = ui.draft, !.reply = ui.reply]
    /\ UNCHANGED <<restVars, sheet, last>>

(* The bubbles of the other conversation are gone, the composer and its    *)
(* text stay, the effect drops the reply.                                  *)
WebOpen(c) ==
    /\ Web /\ open # c
    /\ open' = c
    /\ ui' = [Fresh EXCEPT !.draft = ui.draft]
    /\ UNCHANGED <<restVars, sheet, last>>

(* The open conversation is deleted; the composer is unmounted.            *)
WebClosed ==
    /\ Web /\ open # None
    /\ open' = None
    /\ ui' = Fresh
    /\ uploading' = FALSE
    /\ uploads' = {[u EXCEPT !.mounted = FALSE] : u \in uploads}
    /\ UNCHANGED <<kind, sheet, pickers, picks, gone, last>>

MobileOpen(c) ==
    /\ Mobile /\ open = None
    /\ open' = c
    /\ UNCHANGED <<restVars, ui, sheet, last>>

(* Back, or the conversation is removed under the user.                    *)
MobileLeave ==
    /\ Mobile /\ open # None /\ pickers = {}
    /\ open' = None
    /\ ui' = Fresh
    /\ sheet' = NoSheet
    /\ UNCHANGED <<restVars, last>>

(* message.deleted arrives.                                                *)
Deleted(m) ==
    /\ m \notin gone
    /\ gone' = gone \cup {m}
    /\ UNCHANGED <<kind, open, ui, sheet, pickers, uploads, uploading, picks, last>>

(***************************************************************************)
(* The composer.                                                           *)
(***************************************************************************)
Plain == UNCHANGED <<restVars, open, sheet>>
(* No modal covers the screen.                                             *)
Uncovered == open # None /\ ui.menu = None /\ ~sheet.open /\ pickers = {}

Type ==
    /\ Uncovered /\ (Web => ~uploading)
    /\ ui' = [ui EXCEPT !.draft =
          [conv |-> open, of |-> IF ui.draft = None THEN None ELSE ui.draft.of]]
    /\ Plain /\ UNCHANGED last

Erase ==
    /\ Uncovered /\ ui.draft # None /\ (Web => ~uploading)
    /\ ui' = [ui EXCEPT !.draft = None]
    /\ Plain /\ UNCHANGED last

(* sendMessage of the web composer.                                        *)
WebSend ==
    /\ Web /\ open # None /\ ui.draft # None /\ ~uploading
    /\ Command("send", open, None, ui.reply, ui.draft, None)
    /\ ui' = [ui EXCEPT !.draft = None, !.reply = None]
    /\ Plain

(* submit saves the edit in progress and keeps the reply, or sends.        *)
MobileSubmit ==
    /\ Mobile /\ Uncovered /\ ui.draft # None
    /\ \/ \E m \in ui.edit :
             /\ Command("edit", open, m, None, ui.draft, None)
             /\ ui' = [ui EXCEPT !.draft = None, !.edit = {}]
       \/ /\ ui.edit = {}
          /\ Command("send", open, None, ui.reply, ui.draft, None)
          /\ ui' = [ui EXCEPT !.draft = None, !.reply = None]
    /\ Plain

(* The cross of the banner drops reply and edit, not the text.             *)
CancelBanner ==
    /\ Uncovered /\ (ui.reply # None \/ (Mobile /\ ui.edit # {}))
    /\ ui' = [ui EXCEPT !.reply = None, !.edit = IF Mobile THEN {} ELSE @]
    /\ Plain /\ UNCHANGED last

(***************************************************************************)
(* Mobile: the menu of a message, a snapshot of the message.               *)
(***************************************************************************)
LongPress(m) ==
    /\ Mobile /\ Uncovered /\ ConvOf[m] = open
    /\ ui' = [ui EXCEPT !.menu = [msg |-> m, gone |-> m \in gone]]
    /\ Plain /\ UNCHANGED last

Live == ui.menu # None /\ ~ui.menu.gone
Mine == ui.menu.msg \in Own

MenuClose ==
    /\ ui.menu # None
    /\ ui' = [ui EXCEPT !.menu = None]
    /\ Plain /\ UNCHANGED last

MenuReact ==
    /\ ui.menu # None
    /\ About("react", ui.menu.msg)
    /\ ui' = [ui EXCEPT !.menu = None]
    /\ Plain

MenuReply ==
    /\ Live
    /\ ui' = [ui EXCEPT !.reply = ui.menu.msg, !.menu = None]
    /\ Plain /\ UNCHANGED last

(* The content of the message replaces what was typed.                     *)
MenuEdit ==
    /\ Live /\ Mine /\ ui.menu.msg \in Text
    /\ ui' = [ui EXCEPT !.edit = {ui.menu.msg}, !.menu = None,
                        !.draft = [conv |-> open, of |-> ui.menu.msg]]
    /\ Plain /\ UNCHANGED last

MenuDelete ==
    /\ Live /\ Mine
    /\ About("delete", ui.menu.msg)
    /\ ui' = [ui EXCEPT !.menu = None]
    /\ Plain

(***************************************************************************)
(* Web: the actions of a bubble, offered for the message as it is now.     *)
(***************************************************************************)
Bubble(m)  == Web /\ open # None /\ ConvOf[m] = open
Actions(m) == Bubble(m) /\ m \notin gone /\ m \notin ui.edit

WebReply(m) ==
    /\ Actions(m)
    /\ ui' = [ui EXCEPT !.reply = m]
    /\ Plain /\ UNCHANGED last

(* The emoji bar, once open, and the chips stay for a deleted message.     *)
WebEmojiBar(m) ==
    /\ Actions(m)
    /\ ui' = [ui EXCEPT !.emoji = IF m \in @ THEN @ \ {m} ELSE @ \cup {m}]
    /\ Plain /\ UNCHANGED last

WebReact(m) ==
    /\ Bubble(m) /\ m \in ui.emoji
    /\ About("react", m)
    /\ ui' = [ui EXCEPT !.emoji = @ \ {m}]
    /\ Plain

WebChip(m)    == Bubble(m) /\ About("react", m) /\ Plain /\ UNCHANGED ui
MobileChip(m) == /\ Mobile /\ Uncovered /\ ConvOf[m] = open
                 /\ About("react", m) /\ Plain /\ UNCHANGED ui

WebEdit(m) ==
    /\ Actions(m) /\ m \in Own \cap Text
    /\ ui' = [ui EXCEPT !.edit = @ \cup {m}]
    /\ Plain /\ UNCHANGED last

(* The field stays when the message is deleted meanwhile.  An empty or     *)
(* unchanged text sends nothing.                                           *)
WebSaveEdit(m) ==
    /\ Bubble(m) /\ m \in ui.edit
    /\ ui' = [ui EXCEPT !.edit = @ \ {m}]
    /\ Command("edit", open, m, None, [conv |-> open, of |-> m], None) \/ UNCHANGED last
    /\ Plain

WebAskDelete(m) ==
    /\ Actions(m) /\ m \in Own
    /\ ui' = [ui EXCEPT !.confirm = IF m \in @ THEN @ \ {m} ELSE @ \cup {m}]
    /\ Plain /\ UNCHANGED last

WebDelete(m) ==
    /\ Actions(m) /\ m \in ui.confirm
    /\ About("delete", m)
    /\ ui' = [ui EXCEPT !.confirm = @ \ {m}]
    /\ Plain

(***************************************************************************)
(* Attachments.                                                            *)
(***************************************************************************)
OpenSheet ==
    /\ Mobile /\ Uncovered
    /\ sheet' = [sheet EXCEPT !.open = TRUE]
    /\ UNCHANGED <<restVars, open, ui, last>>

CloseSheet ==
    /\ sheet.open /\ pickers = {}
    /\ sheet' = NoSheet
    /\ UNCHANGED <<restVars, open, ui, last>>

(* The sheet closes; the picker has to wait until it is dismissed.         *)
RequestAttachment ==
    /\ sheet.open /\ pickers = {} /\ picks.asked < MaxPicks
    /\ sheet' = [open |-> FALSE, pending |-> open]
    /\ picks' = [picks EXCEPT !.asked = @ + 1]
    /\ UNCHANGED <<kind, open, ui, pickers, uploads, uploading, gone, last>>

(* Mutant: the request is not consumed.                                    *)
MutantNotConsumed ==
    /\ sheet.pending # None /\ (kind = "android" => ~sheet.open)
    /\ picks.launched <= MaxPicks
    /\ pickers' = pickers \cup {[n |-> picks.launched, from |-> sheet.pending, conv |-> open]}
    /\ picks' = [picks EXCEPT !.launched = @ + 1]
    /\ UNCHANGED <<kind, open, ui, sheet, uploads, uploading, gone, last>>

(* onDismiss on iOS, possibly several times; on Android the effect, which  *)
(* waits until the sheet is closed.  The request is consumed before the    *)
(* picker is presented, which works with the conversation of this render.  *)
LaunchPending ==
    /\ sheet.pending # None /\ (kind = "android" => ~sheet.open)
    /\ pickers' = pickers \cup {[n |-> picks.launched, from |-> sheet.pending, conv |-> open]}
    /\ picks' = [picks EXCEPT !.launched = @ + 1]
    /\ sheet' = [sheet EXCEPT !.pending = None]
    /\ UNCHANGED <<kind, open, ui, uploads, uploading, gone, last>>

(* Cancelled, not supported or too large.                                  *)
PickNothing(p) ==
    /\ pickers' = pickers \ {p}
    /\ UNCHANGED <<kind, open, ui, sheet, uploads, uploading, picks, gone, last>>

Upload(n, from, c) == [n |-> n, from |-> from, conv |-> c, mounted |-> TRUE]

(* handlePickedFile.                                                       *)
PickFile(p) ==
    /\ pickers' = pickers \ {p}
    /\ uploads' = uploads \cup {Upload(p.n, p.from, p.conv)}
    /\ uploading' = TRUE
    /\ UNCHANGED <<kind, open, ui, sheet, picks, gone, last>>

(* uploadFile of the web composer: chosen or pasted.                       *)
WebUpload ==
    /\ Web /\ open # None /\ ~uploading /\ picks.asked < MaxPicks
    /\ uploads' = uploads \cup {Upload(picks.asked, open, open)}
    /\ uploading' = TRUE
    /\ picks' = [picks EXCEPT !.asked = @ + 1]
    /\ UNCHANGED <<kind, open, ui, sheet, pickers, gone, last>>

(* The upload ends: the message is sent, without a reply, or an error is   *)
(* shown; the finally block clears the one flag.                           *)
UploadEnds(u) ==
    /\ uploads' = uploads \ {u}
    /\ uploading' = (uploading /\ ~u.mounted)
    /\ Command("media", u.conv, None, None, None, u.from) \/ UNCHANGED last
    /\ UNCHANGED <<kind, open, ui, sheet, pickers, picks, gone>>
WebUploadEnds(u)    == Web /\ UploadEnds(u)
MobileUploadEnds(u) == Mobile /\ UploadEnds(u)

Next ==
    \/ \E c \in Conversations : WebOpen(c) \/ MobileOpen(c)
    \/ WebClosed \/ MobileLeave
    \/ Type \/ Erase \/ WebSend \/ MobileSubmit \/ CancelBanner
    \/ MenuClose \/ MenuReact \/ MenuReply \/ MenuEdit \/ MenuDelete
    \/ \E m \in Messages :
          \/ Deleted(m) \/ LongPress(m) \/ WebReply(m) \/ WebEmojiBar(m) \/ WebReact(m)
          \/ WebChip(m) \/ MobileChip(m) \/ WebEdit(m) \/ WebSaveEdit(m) \/ WebAskDelete(m) \/ WebDelete(m)
    \/ OpenSheet \/ CloseSheet \/ RequestAttachment \/ LaunchPending \/ WebUpload
    \/ \E p \in pickers : PickNothing(p) \/ PickFile(p)
    \/ \E u \in uploads : WebUploadEnds(u) \/ MobileUploadEnds(u)

Spec == Init /\ [][Next]_vars

(***************************************************************************)
(* Properties.                                                             *)
(***************************************************************************)
(* Whatever the user switches to between composing and sending: a command  *)
(* goes to the conversation its message or its reply target is in, an edit *)
(* never carries text loaded from another message, and on mobile a message *)
(* is sent where it was typed (the web draft follows the user instead).    *)
SentWhereMeant ==
    last # None =>
        /\ last.msg # None => ConvOf[last.msg] = last.conv
        /\ last.reply # None => ConvOf[last.reply] = last.conv
        /\ last.op = "edit" => last.text.of \in {None, last.msg}
        /\ last.op = "send" /\ Mobile => last.text.conv = last.conv

(* An attachment is sent where it was asked for, though its upload may end *)
(* when the user is elsewhere, and "Consume before presenting: some native *)
(* modal implementations can emit more than one dismissal signal": one     *)
(* request launches at most one picker.                                    *)
UploadStays ==
    /\ last # None /\ last.op = "media" => last.conv = last.from
    /\ picks.launched <= picks.asked /\ Cardinality(pickers) <= 1
================================================================================
