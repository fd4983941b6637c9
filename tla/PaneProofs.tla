------------------------------- MODULE PaneProofs -------------------------------
(***************************************************************************)
(* Proofs about the open conversation, for any conversations, messages and *)
(* number of attachments: what is sent goes where it was meant, on web,    *)
(* iOS and Android, whatever the user opens between two steps.             *)
(***************************************************************************)
EXTENDS Pane, FiniteSetTheorems, TLAPS

Somewhere == Conversations \cup {None}
Draft     == [conv : Somewhere, of : Messages \cup {None}]
Screen    == [draft : Draft \cup {None}, reply : Messages \cup {None},
              edit : SUBSET Messages, menu : [msg : Messages, gone : BOOLEAN] \cup {None},
              confirm : SUBSET Messages, emoji : SUBSET Messages]
Sheet     == [open : BOOLEAN, pending : Somewhere]
Picker    == [n : Nat, from : Somewhere, conv : Somewhere]
Sending   == [n : Nat, from : Somewhere, conv : Somewhere, mounted : BOOLEAN]

Shape == /\ open \in Somewhere
         /\ ui \in Screen
         /\ sheet \in Sheet
         /\ pickers \subseteq Picker
         /\ uploads \subseteq Sending
         /\ picks \in [asked : Nat, launched : Nat]

(* What the screen offers is about the open conversation.                  *)
Here == /\ ui.reply # None => ConvOf[ui.reply] = open
        /\ ui.menu # None => ConvOf[ui.menu.msg] = open
        /\ \A m \in ui.edit : ConvOf[m] = open

(* Mobile: the text was typed here, and the text of an edit was loaded     *)
(* from the message it will be saved to.                                   *)
Typed == Mobile /\ ui.draft # None =>
            /\ ui.draft.conv = open
            /\ \A m \in ui.edit : ui.draft.of \in {None, m}

(* What a client has nothing of: the web no menu and no sheet, a phone on  *)
(* its list nothing at all.                                                *)
Unmounted == /\ Web => ui.menu = None /\ sheet = NoSheet
             /\ Mobile /\ open = None => ui = Fresh /\ sheet = NoSheet

Meant == Shape /\ Here /\ Typed /\ Unmounted /\ SentWhereMeant

(* Every request for a picker is used up once, and a file, once picked,    *)
(* keeps the conversation in which it was asked for.                       *)
Paid == /\ picks.launched <= picks.asked
        /\ sheet.pending # None => picks.launched < picks.asked
Single == /\ \A p, q \in pickers : p = q
          /\ sheet.pending # None => pickers = {}
Kept == /\ sheet.pending # None => sheet.pending = open
        /\ \A p \in pickers : p.conv = p.from
        /\ \A u \in uploads : u.conv = u.from
        /\ last # None /\ last.op = "media" => last.conv = last.from

Inv == Meant /\ Paid /\ Single /\ Kept

-----------------------------------------------------------------------------
LEMMA InitInv == Init => Inv
  <1> SUFFICES ASSUME Init PROVE Inv
    OBVIOUS
  <1> USE DEF Init, Fresh, NoSheet
  <1>1. Shape
    BY DEF Shape, Somewhere, Screen, Sheet
  <1>2. Here /\ Typed /\ Unmounted /\ SentWhereMeant
    BY DEF Here, Typed, Unmounted, SentWhereMeant
  <1>3. Paid /\ Single /\ Kept
    BY DEF Paid, Single, Kept
  <1>4. QED
    BY <1>1, <1>2, <1>3 DEF Inv, Meant

(* A step that changes at most what is on the screen and the command keeps *)
(* the attachments as they are.                                            *)
LEMMA ScreenStep ==
    ASSUME Inv, UNCHANGED <<sheet, pickers, uploads, picks>>,
           open' = open \/ sheet = NoSheet,
           UNCHANGED last \/ last'.op # "media"
    PROVE  (Paid /\ Single /\ Kept)'
  BY DEF Inv, Paid, Single, Kept, NoSheet

(* The last command is all that SentWhereMeant looks at.                   *)
LEMMA CommandMeant ==
    ASSUME NEW op, NEW c, NEW m, NEW r, NEW t, NEW f, Command(op, c, m, r, t, f),
           kind' = kind,
           m # None => ConvOf[m] = c, r # None => ConvOf[r] = c,
           op = "edit" => t.of \in {None, m}, op = "send" /\ Mobile => t.conv = c
    PROVE  SentWhereMeant' /\ last'.op = op
  BY DEF Command, SentWhereMeant, Mobile, Web

LEMMA AboutMeant ==
    ASSUME NEW m, NEW op \in {"react", "delete"}, About(op, m), kind' = kind,
           ConvOf[m] = open
    PROVE  SentWhereMeant' /\ last'.op # "media"
  <1>1. Command(op, open, m, None, None, None)
    BY DEF About
  <1>2. SentWhereMeant' /\ last'.op = op
    BY <1>1, CommandMeant
  <1>3. QED
    BY <1>2

LEMMA SameMeant == ASSUME Inv, UNCHANGED <<kind, last>> PROVE SentWhereMeant'
  BY DEF Inv, Meant, SentWhereMeant, Mobile, Web

(* A step of the screen in an open conversation keeps Inv, when what it    *)
(* puts on the screen and what it sends is about that conversation.        *)
LEMMA ScreenKeeps ==
    ASSUME Inv, Plain, open # None,
           ui' \in Screen, Here', Typed', Web => ui'.menu = None,
           SentWhereMeant', UNCHANGED last \/ last'.op # "media"
    PROVE  Inv'
  <1>1. /\ UNCHANGED <<kind, open, sheet, pickers, uploads, picks>>
    BY DEF Plain, restVars
  <1>2. (Paid /\ Single /\ Kept)'
    BY <1>1, ScreenStep
  <1>3. Shape'
    BY <1>1 DEF Inv, Meant, Shape
  <1>4. Unmounted'
    BY <1>1 DEF Inv, Meant, Unmounted, Web, Mobile
  <1>5. QED
    BY <1>2, <1>3, <1>4 DEF Inv, Meant

LEMMA ComposerKeeps ==
    ASSUME Inv, Type \/ Erase \/ WebSend \/ MobileSubmit \/ CancelBanner
    PROVE  Inv'
  <1> USE DEF Inv, Meant, Shape
  <1>1. /\ open # None /\ Plain /\ kind' = kind /\ open' = open
        /\ open \in Conversations
    BY DEF Type, Erase, WebSend, MobileSubmit, CancelBanner, Uncovered, Plain, restVars,
           Somewhere
  <1>2. CASE Type
    <2> DEFINE d == [conv |-> open, of |-> IF ui.draft = None THEN None ELSE ui.draft.of]
    <2>1. d \in Draft
      BY DEF Draft, Screen
    <2>2. ui' = [ui EXCEPT !.draft = d]
      BY <1>2 DEF Type
    <2>3. d.conv = open /\ d.of = IF ui.draft = None THEN None ELSE ui.draft.of
      OBVIOUS
    <2> HIDE DEF d
    <2>4. ui' \in Screen /\ ui'.draft = d
      BY <2>1, <2>2 DEF Screen
    <2>5. ui'.reply = ui.reply /\ ui'.edit = ui.edit /\ ui'.menu = ui.menu
      BY <2>2 DEF Screen
    <2>6. Here' /\ (Web => ui'.menu = None)
      BY <1>1, <2>5 DEF Here, Unmounted
    <2>7. Typed'
      BY <1>1, <2>3, <2>4, <2>5 DEF Typed, Mobile, Web
    <2>8. QED
      BY <1>1, <1>2, <2>4, <2>6, <2>7, SameMeant, ScreenKeeps DEF Type
  <1>3. CASE Erase \/ CancelBanner
    <2>1. /\ ui' \in Screen
          /\ ui'.draft \in {ui.draft, None} /\ ui'.reply \in {ui.reply, None}
          /\ ui'.edit \subseteq ui.edit /\ ui'.menu = ui.menu
      BY <1>3 DEF Erase, CancelBanner, Screen
    <2>2. Here' /\ Typed' /\ (Web => ui'.menu = None)
      BY <1>1, <2>1 DEF Here, Typed, Unmounted, Mobile, Web
    <2>3. QED
      BY <1>1, <1>3, <2>1, <2>2, SameMeant, ScreenKeeps DEF Erase, CancelBanner
  <1>4. CASE WebSend \/ MobileSubmit
    <2>1. /\ ui' \in Screen
          /\ ui'.draft = None /\ ui'.reply \in {ui.reply, None}
          /\ ui'.edit \subseteq ui.edit /\ ui'.menu = ui.menu
      BY <1>4 DEF WebSend, MobileSubmit, Screen
    <2>2. Here' /\ Typed' /\ (Web => ui'.menu = None)
      BY <1>1, <2>1 DEF Here, Typed, Unmounted, Mobile, Web
    <2>3. SentWhereMeant' /\ last'.op # "media"
      <3>1. CASE Command("send", open, None, ui.reply, ui.draft, None)
        <4>1. ui.reply # None => ConvOf[ui.reply] = open
          BY DEF Here
        <4>2. Mobile => ui.draft.conv = open
          BY <1>4 DEF Typed, WebSend, MobileSubmit, Mobile
        <4>3. QED
          BY <1>1, <3>1, <4>1, <4>2, CommandMeant
      <3>2. ASSUME NEW m \in ui.edit, Mobile, ui.draft # None,
                   Command("edit", open, m, None, ui.draft, None)
            PROVE  SentWhereMeant' /\ last'.op # "media"
        <4>1. ConvOf[m] = open /\ ui.draft.of \in {None, m}
          BY <3>2 DEF Here, Typed
        <4>2. QED
          BY <1>1, <3>2, <4>1, CommandMeant
      <3>3. QED
        BY <1>4, <3>1, <3>2 DEF WebSend, MobileSubmit
    <2>4. QED
      BY <1>1, <2>1, <2>2, <2>3, ScreenKeeps
  <1>5. QED
    BY <1>2, <1>3, <1>4

LEMMA MenuKeeps ==
    ASSUME Inv, (\E m \in Messages : LongPress(m)) \/ MenuClose \/ MenuReact \/ MenuReply
                \/ MenuEdit \/ MenuDelete
    PROVE  Inv'
  <1> USE DEF Inv, Meant, Shape
  <1>1. CASE \E m \in Messages : LongPress(m)
    <2>1. PICK m \in Messages : LongPress(m)
      BY <1>1
    <2>2. Plain /\ open # None /\ Mobile /\ kind' = kind /\ open' = open /\ ConvOf[m] = open
      BY <2>1 DEF LongPress, Uncovered, Plain, restVars
    <2> DEFINE d == [msg |-> m, gone |-> m \in gone]
    <2>a. d \in [msg : Messages, gone : BOOLEAN] /\ d.msg = m
      OBVIOUS
    <2>b. ui' = [ui EXCEPT !.menu = d]
      BY <2>1 DEF LongPress
    <2> HIDE DEF d
    <2>3. /\ ui' \in Screen /\ ui'.menu.msg = m /\ ui'.draft = ui.draft
          /\ ui'.reply = ui.reply /\ ui'.edit = ui.edit
      BY <2>a, <2>b DEF Screen
    <2>4. Here' /\ Typed' /\ (Web => ui'.menu = None)
      BY <2>2, <2>3 DEF Here, Typed, Mobile, Web
    <2>5. QED
      BY <2>1, <2>2, <2>3, <2>4, SameMeant, ScreenKeeps DEF LongPress
  <1>2. CASE MenuClose \/ MenuReact \/ MenuReply \/ MenuEdit \/ MenuDelete
    <2> DEFINE m == ui.menu.msg
    <2>1. Plain /\ ui.menu # None /\ kind' = kind /\ open' = open
      BY <1>2 DEF MenuClose, MenuReact, MenuReply, MenuEdit, MenuDelete, Live, Plain, restVars
    <2>2. Mobile /\ open # None /\ ConvOf[m] = open /\ m \in Messages
      BY <2>1 DEF Here, Unmounted, Mobile, Fresh, Screen
    <2>3. CASE MenuEdit
      <3> DEFINE d == [conv |-> open, of |-> m]
      <3>1. d \in Draft /\ d.conv = open /\ d.of = m
        BY <2>2 DEF Draft
      <3>2. ui' = [ui EXCEPT !.edit = {m}, !.menu = None, !.draft = d]
        BY <2>3 DEF MenuEdit
      <3> HIDE DEF m, d
      <3>3. ui' \in Screen /\ ui'.draft = d /\ ui'.edit = {m} /\ ui'.reply = ui.reply
            /\ ui'.menu = None
        BY <2>2, <3>1, <3>2 DEF Screen
      <3>4. Here' /\ Typed'
        BY <2>1, <2>2, <3>1, <3>3 DEF Here, Typed, Mobile, Web
      <3>5. UNCHANGED last
        BY <2>3 DEF MenuEdit
      <3>6. QED
        BY <2>1, <2>2, <3>3, <3>4, <3>5, SameMeant, ScreenKeeps
    <2>4. CASE ~MenuEdit
      <3>1. /\ ui' \in Screen /\ ui'.draft = ui.draft /\ ui'.edit = ui.edit
            /\ ui'.reply \in {ui.reply, m} /\ ui'.menu = None
        BY <1>2, <2>2, <2>4 DEF MenuClose, MenuReact, MenuReply, MenuDelete, Screen
      <3>2. UNCHANGED last \/ About("react", m) \/ About("delete", m)
        BY <1>2, <2>4 DEF MenuClose, MenuReact, MenuReply, MenuDelete
      <3> HIDE DEF m
      <3>3. Here' /\ Typed'
        BY <2>1, <2>2, <3>1 DEF Here, Typed, Mobile, Web
      <3>4. SentWhereMeant' /\ (UNCHANGED last \/ last'.op # "media")
        BY <2>1, <2>2, <3>2, SameMeant, AboutMeant
      <3>5. QED
        BY <2>1, <2>2, <3>1, <3>3, <3>4, ScreenKeeps
    <2>5. QED
      BY <2>3, <2>4
  <1>3. QED
    BY <1>1, <1>2

LEMMA BubbleKeeps ==
    ASSUME Inv, NEW m \in Messages,
           WebReply(m) \/ WebEmojiBar(m) \/ WebReact(m) \/ WebChip(m) \/ MobileChip(m)
           \/ WebEdit(m) \/ WebSaveEdit(m) \/ WebAskDelete(m) \/ WebDelete(m)
    PROVE  Inv'
  <1> USE DEF Inv, Meant, Shape
  <1>1. Plain /\ open # None /\ ConvOf[m] = open /\ kind' = kind /\ open' = open
    BY DEF WebReply, WebEmojiBar, WebReact, WebChip, MobileChip, WebEdit, WebSaveEdit,
           WebAskDelete, WebDelete, Bubble, Actions, Uncovered, Plain, restVars
  <1>2. /\ ui' \in Screen /\ ui'.draft = ui.draft
        /\ ui'.reply \in {ui.reply, m} /\ ui'.menu = ui.menu
        /\ ui'.edit \subseteq ui.edit \cup {m} /\ (Mobile => ui'.edit = ui.edit)
    <2>1. CASE MobileChip(m) \/ WebChip(m)
      BY <2>1 DEF MobileChip, WebChip
    <2>2. CASE WebEmojiBar(m)
      <3>1. PICK E \in SUBSET Messages : ui' = [ui EXCEPT !.emoji = E]
        BY <2>2 DEF WebEmojiBar, Screen
      <3>2. QED
        BY <3>1 DEF Screen
    <2>3. CASE WebAskDelete(m)
      <3>1. PICK E \in SUBSET Messages : ui' = [ui EXCEPT !.confirm = E]
        BY <2>3 DEF WebAskDelete, Screen
      <3>2. QED
        BY <3>1 DEF Screen
    <2>4. CASE WebReply(m) \/ WebReact(m) \/ WebEdit(m) \/ WebSaveEdit(m) \/ WebDelete(m)
      BY <2>4 DEF WebReply, WebReact, WebEdit, WebSaveEdit, WebDelete, Actions, Bubble,
                  Mobile, Screen
    <2>5. QED
      BY <2>1, <2>2, <2>3, <2>4
  <1>3. Here' /\ Typed' /\ (Web => ui'.menu = None)
    BY <1>1, <1>2 DEF Here, Typed, Unmounted, Mobile, Web
  <1>4. SentWhereMeant' /\ (UNCHANGED last \/ last'.op # "media")
    <2>1. CASE UNCHANGED last
      BY <1>1, <2>1, SameMeant
    <2>2. CASE About("react", m) \/ About("delete", m)
      BY <1>1, <2>2, AboutMeant
    <2>3. CASE Command("edit", open, m, None, [conv |-> open, of |-> m], None)
      BY <1>1, <2>3, CommandMeant
    <2>4. QED
      BY <2>1, <2>2, <2>3 DEF WebReply, WebEmojiBar, WebReact, WebChip, MobileChip, WebEdit,
                              WebSaveEdit, WebAskDelete, WebDelete
  <1>5. QED
    BY <1>1, <1>2, <1>3, <1>4, ScreenKeeps

(* Opening and leaving; what is deleted in the meantime stays referred to. *)
LEMMA OpeningKeeps ==
    ASSUME Inv, \/ \E c \in Conversations : WebOpen(c) \/ MobileOpen(c)
                \/ WebClosed \/ MobileLeave
                \/ \E m \in Messages : Deleted(m)
    PROVE  Inv'
  <1> USE DEF Inv, Meant, Shape, restVars
  <1>1. UNCHANGED <<kind, last, pickers, picks>>
    BY DEF WebOpen, MobileOpen, WebClosed, MobileLeave, Deleted
  <1>2. SentWhereMeant'
    BY <1>1, SameMeant
  <1>3. CASE \E m \in Messages : Deleted(m)
    <2>1. UNCHANGED <<open, ui, sheet, uploads>>
      BY <1>3 DEF Deleted
    <2>2. QED
      BY <1>1, <1>2, <2>1 DEF Here, Typed, Unmounted, Paid, Single, Kept, Mobile, Web
  <1>4. CASE \E c \in Conversations : WebOpen(c) \/ MobileOpen(c)
    <2>1. PICK c \in Conversations : WebOpen(c) \/ MobileOpen(c)
      BY <1>4
    <2>2. UNCHANGED <<sheet, uploads>> /\ open' = c /\ sheet = NoSheet
      BY <2>1 DEF WebOpen, MobileOpen, Unmounted
    <2>3. /\ ui' \in Screen /\ ui'.reply = None /\ ui'.menu = None /\ ui'.edit = {}
          /\ Mobile => ui'.draft = None
      BY <2>1 DEF WebOpen, MobileOpen, Unmounted, Fresh, Screen, Mobile
    <2>4. (Here /\ Typed)' /\ open' \in Somewhere
      BY <1>1, <2>2, <2>3 DEF Here, Typed, Somewhere, Mobile, Web
    <2>5. Unmounted'
      BY <1>1, <2>1, <2>2, <2>3 DEF WebOpen, MobileOpen, Unmounted, Mobile, Web
    <2>6. (Paid /\ Single /\ Kept)'
      BY <1>1, <2>2 DEF Paid, Single, Kept, NoSheet
    <2>7. QED
      BY <1>1, <1>2, <2>2, <2>3, <2>4, <2>5, <2>6
  <1>5. CASE WebClosed \/ MobileLeave
    <2>1. open' = None /\ ui' = Fresh /\ sheet' = NoSheet
      BY <1>5 DEF WebClosed, MobileLeave, Unmounted
    <2>2. /\ uploads' \subseteq Sending
          /\ \A u \in uploads' : u.conv = u.from
      <3>1. CASE WebClosed
        <4>1. \A u \in uploads : /\ [u EXCEPT !.mounted = FALSE] \in Sending
                                 /\ [u EXCEPT !.mounted = FALSE].conv = u.conv
                                 /\ [u EXCEPT !.mounted = FALSE].from = u.from
          BY DEF Sending
        <4>2. uploads' = {[u EXCEPT !.mounted = FALSE] : u \in uploads}
          BY <3>1 DEF WebClosed
        <4>3. \A u \in uploads : u.conv = u.from
          BY DEF Kept
        <4>4. ASSUME NEW v \in uploads' PROVE v \in Sending /\ v.conv = v.from
          <5>1. PICK u \in uploads : v = [u EXCEPT !.mounted = FALSE]
            BY <4>2
          <5>2. QED
            BY <4>1, <4>3, <5>1
        <4>5. QED
          BY <4>4
      <3>2. CASE MobileLeave
        BY <3>2 DEF MobileLeave, Kept
      <3>3. QED
        BY <1>5, <3>1, <3>2
    <2>3. ui' \in Screen /\ sheet' \in Sheet /\ open' \in Somewhere
      BY <2>1 DEF Fresh, NoSheet, Screen, Sheet, Somewhere
    <2>4. (Here /\ Typed /\ Unmounted)'
      BY <2>1 DEF Here, Typed, Unmounted, Fresh, Mobile, Web
    <2>5. (Paid /\ Single /\ Kept)'
      BY <1>1, <2>1, <2>2 DEF Paid, Single, Kept, NoSheet
    <2>6. QED
      BY <1>1, <1>2, <2>1, <2>2, <2>3, <2>4, <2>5
  <1>6. QED
    BY <1>3, <1>4, <1>5

(* A step of the attachments changes nothing the composer has.             *)
LEMMA AttachmentMeant ==
    ASSUME Inv, UNCHANGED <<kind, open, ui>>, SentWhereMeant',
           sheet' \in Sheet, pickers' \subseteq Picker, uploads' \subseteq Sending,
           picks' \in [asked : Nat, launched : Nat],
           sheet' = NoSheet \/ (Mobile /\ open # None)
    PROVE  Meant'
  BY DEF Inv, Meant, Shape, Here, Typed, Unmounted, Mobile, Web

LEMMA SheetKeeps ==
    ASSUME Inv, OpenSheet \/ CloseSheet \/ RequestAttachment \/ LaunchPending
    PROVE  Inv'
  <1> USE DEF Inv, Meant, Shape, restVars
  <1>1. UNCHANGED <<kind, open, ui, last, uploads>>
    BY DEF OpenSheet, CloseSheet, RequestAttachment, LaunchPending
  <1>2. SentWhereMeant'
    BY <1>1, SameMeant
  <1>3. Mobile /\ open # None
    <2>1. NoSheet.open = FALSE /\ NoSheet.pending = None
      BY DEF NoSheet
    <2>2. (Mobile /\ open # None) \/ sheet # NoSheet
      BY <2>1 DEF OpenSheet, Uncovered, CloseSheet, RequestAttachment, LaunchPending
    <2>3. QED
      BY <2>2 DEF Unmounted, Mobile
  <1>4. open \in Somewhere /\ \A u \in uploads : u.conv = u.from
    BY DEF Kept
  <1>5. CASE OpenSheet \/ CloseSheet
    <2>0. NoSheet \in Sheet /\ NoSheet.pending = None
      BY DEF NoSheet, Sheet, Somewhere
    <2>1. /\ UNCHANGED <<pickers, picks>>
          /\ sheet' \in Sheet /\ sheet'.pending \in {sheet.pending, None}
      <3>1. CASE OpenSheet
        BY <3>1 DEF OpenSheet, Sheet
      <3>2. CASE CloseSheet
        BY <2>0, <3>2 DEF CloseSheet
      <3>3. QED
        BY <1>5, <3>1, <3>2
    <2>2. Meant'
      BY <1>1, <1>2, <1>3, <2>1, AttachmentMeant
    <2>3. (Paid /\ Single /\ Kept)'
      BY <1>1, <2>1 DEF Paid, Single, Kept
    <2>4. QED
      BY <2>2, <2>3
  <1>6. CASE RequestAttachment
    <2>1. /\ pickers = {} /\ pickers' = {}
          /\ sheet' = [open |-> FALSE, pending |-> open]
          /\ picks' = [picks EXCEPT !.asked = @ + 1]
      BY <1>6 DEF RequestAttachment
    <2>2. /\ sheet' \in Sheet /\ sheet'.pending = open
          /\ picks' \in [asked : Nat, launched : Nat]
          /\ picks'.asked = picks.asked + 1 /\ picks'.launched = picks.launched
      BY <1>4, <2>1 DEF Sheet
    <2>3. Meant'
      BY <1>1, <1>2, <1>3, <2>1, <2>2, AttachmentMeant
    <2>4. (Paid /\ Single)'
      BY <2>1, <2>2 DEF Paid, Single
    <2>5. Kept'
      BY <1>1, <2>1, <2>2 DEF Kept
    <2>6. QED
      BY <2>3, <2>4, <2>5
  <1>7. CASE LaunchPending
    <2> DEFINE p == [n |-> picks.launched, from |-> sheet.pending, conv |-> open]
    <2>1. /\ sheet.pending # None /\ pickers = {} /\ pickers' = {p}
          /\ picks' = [picks EXCEPT !.launched = @ + 1]
          /\ sheet' = [sheet EXCEPT !.pending = None]
      BY <1>7 DEF LaunchPending, Single
    <2>2. p \in Picker /\ p.conv = p.from
      BY <1>4, <2>1 DEF Picker, Sheet, Kept
    <2>3. /\ sheet' \in Sheet /\ sheet'.pending = None
          /\ picks' \in [asked : Nat, launched : Nat]
          /\ picks'.asked = picks.asked /\ picks'.launched = picks.launched + 1
      BY <2>1 DEF Sheet, Somewhere
    <2> HIDE DEF p
    <2>4. Meant'
      BY <1>1, <1>2, <1>3, <2>1, <2>2, <2>3, AttachmentMeant
    <2>5. (Paid /\ Single)'
      BY <2>1, <2>3 DEF Paid, Single
    <2>6. Kept'
      BY <1>1, <2>1, <2>2, <2>3 DEF Kept
    <2>7. QED
      BY <2>4, <2>5, <2>6
  <1>8. QED
    BY <1>5, <1>6, <1>7

LEMMA UnmountedSheet == Unmounted => sheet = NoSheet \/ (Mobile /\ open # None)
  BY DEF Unmounted, Mobile

LEMMA UploadKeeps ==
    ASSUME Inv, \/ WebUpload
                \/ \E p \in pickers : PickNothing(p) \/ PickFile(p)
                \/ \E u \in uploads : WebUploadEnds(u) \/ MobileUploadEnds(u)
    PROVE  Inv'
  <1> USE DEF Inv, Meant, Shape
  <1>1. UNCHANGED <<kind, open, ui, sheet>>
    BY DEF WebUpload, PickNothing, PickFile, WebUploadEnds, MobileUploadEnds, UploadEnds
  <1>2. sheet' = NoSheet \/ (Mobile /\ open # None)
    <2>1. sheet = NoSheet \/ (Mobile /\ open # None)
      BY UnmountedSheet
    <2>2. QED
      BY <1>1, <2>1
  <1>3. CASE WebUpload
    <2> DEFINE u == Upload(picks.asked, open, open)
    <2>1. u \in Sending /\ u.conv = u.from
      BY DEF Upload, Sending
    <2>2. /\ UNCHANGED <<pickers, last>> /\ uploads' = uploads \cup {u}
          /\ picks' = [picks EXCEPT !.asked = @ + 1]
      BY <1>3 DEF WebUpload
    <2> HIDE DEF u
    <2>3. /\ picks' \in [asked : Nat, launched : Nat]
          /\ picks'.asked = picks.asked + 1 /\ picks'.launched = picks.launched
      BY <2>2
    <2>4. Meant'
      BY <1>1, <1>2, <2>1, <2>2, <2>3, SameMeant, AttachmentMeant
    <2>5. (Paid /\ Single /\ Kept)'
      BY <1>1, <2>1, <2>2, <2>3 DEF Paid, Single, Kept
    <2>6. QED
      BY <2>4, <2>5
  <1>4. CASE \E p \in pickers : PickNothing(p) \/ PickFile(p)
    <2>1. PICK p \in pickers : PickNothing(p) \/ PickFile(p)
      BY <1>4
    <2> DEFINE u == Upload(p.n, p.from, p.conv)
    <2>2. u \in Sending /\ u.conv = u.from
      BY DEF Upload, Sending, Picker, Kept
    <2>3. /\ UNCHANGED <<picks, last>> /\ pickers' = pickers \ {p}
          /\ uploads' \subseteq uploads \cup {u}
      BY <2>1 DEF PickNothing, PickFile
    <2> HIDE DEF u
    <2>4. Meant'
      BY <1>1, <1>2, <2>2, <2>3, SameMeant, AttachmentMeant
    <2>5. (Paid /\ Single /\ Kept)'
      BY <1>1, <2>2, <2>3 DEF Paid, Single, Kept
    <2>6. QED
      BY <2>4, <2>5
  <1>5. CASE \E u \in uploads : WebUploadEnds(u) \/ MobileUploadEnds(u)
    <2>1. PICK u \in uploads : UploadEnds(u)
      BY <1>5 DEF WebUploadEnds, MobileUploadEnds
    <2>2. /\ UNCHANGED <<pickers, picks>> /\ uploads' \subseteq uploads
          /\ Command("media", u.conv, None, None, None, u.from) \/ UNCHANGED last
      BY <2>1 DEF UploadEnds
    <2>3. SentWhereMeant'
      BY <1>1, <2>2, SameMeant, CommandMeant
    <2>4. Meant'
      BY <1>1, <1>2, <2>2, <2>3, AttachmentMeant
    <2>5. Kept'
      <3>1. u.conv = u.from
        BY DEF Kept
      <3>2. last' # None /\ last'.op = "media" => last'.conv = last'.from
        BY <2>2, <3>1 DEF Kept, Command
      <3>3. QED
        BY <1>1, <2>2, <3>2 DEF Kept
    <2>6. (Paid /\ Single)'
      BY <1>1, <2>2 DEF Paid, Single
    <2>7. QED
      BY <2>4, <2>5, <2>6
  <1>6. QED
    BY <1>3, <1>4, <1>5

LEMMA StepInv == Inv /\ [Next]_vars => Inv'
  <1> SUFFICES ASSUME Inv, [Next]_vars PROVE Inv'
    OBVIOUS
  <1>1. CASE UNCHANGED vars
    <2>1. SentWhereMeant'
      BY <1>1, SameMeant DEF vars
    <2>2. Meant'
      BY <1>1, <2>1 DEF vars, Inv, Meant, Shape, Here, Typed, Unmounted, Mobile, Web
    <2>3. (Paid /\ Single /\ Kept)'
      BY <1>1 DEF vars, Inv, Paid, Single, Kept
    <2>4. QED
      BY <2>2, <2>3 DEF Inv
  <1>2. CASE Next
    BY <1>2, OpeningKeeps, ComposerKeeps, MenuKeeps, BubbleKeeps, SheetKeeps, UploadKeeps
       DEF Next
  <1>3. QED
    BY <1>1, <1>2

LEMMA InvHolds == Spec => []Inv
  BY InitInv, StepInv, PTL DEF Spec

(* Whatever the user opens, types, cancels or edits, on web, iOS and       *)
(* Android: a command goes to the conversation of its message and its      *)
(* reply target, an edit does not carry the text of another message, and a *)
(* phone sends where the text was typed (Composer.tsx, MessageBubble.tsx,  *)
(* ChatScreen.tsx).                                                        *)
THEOREM MeantIsSent == Spec => []SentWhereMeant
  <1>1. Inv => SentWhereMeant
    BY DEF Inv, Meant
  <1>2. QED
    BY <1>1, InvHolds, PTL

(* A file goes to the conversation in which it was asked for, and however  *)
(* often the dismissal of the sheet is signalled, one request opens at     *)
(* most one picker (AppRoot.tsx, ChatScreen.tsx).                          *)
THEOREM OnePicker == Spec => []UploadStays
  <1>1. Inv => UploadStays
    <2> SUFFICES ASSUME Inv PROVE UploadStays
      OBVIOUS
    <2>1. pickers = {} \/ \E p : pickers = {p}
      BY DEF Inv, Single
    <2>2. Cardinality(pickers) \in {0, 1}
      BY <2>1, FS_EmptySet, FS_Singleton
    <2>3. picks.launched <= picks.asked
      BY DEF Inv, Paid
    <2>4. last # None /\ last.op = "media" => last.conv = last.from
      BY DEF Inv, Kept
    <2>5. QED
      BY <2>2, <2>3, <2>4 DEF UploadStays
  <1>2. QED
    BY <1>1, InvHolds, PTL
=================================================================================
