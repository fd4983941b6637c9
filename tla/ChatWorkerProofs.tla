---------------------------- MODULE ChatWorkerProofs ---------------------------
(***************************************************************************)
(* Proofs about the chat-worker, for any number of replicas, users,        *)
(* conversations and commands and any bounds.                              *)
(*                                                                         *)
(* First types and the log of messages.  Every step either leaves the      *)
(* identity of the stored messages alone or is the one transaction that    *)
(* creates a message (lemma StepKinds); the invariants about messages are  *)
(* proved from that.                                                       *)
(*                                                                         *)
(* Then the promises: the deferred acknowledgement loses no message,       *)
(* receipts move watermarks forward within the conversation, and the       *)
(* chat-worker implements the abstract log of module ChatLog.  The outbox  *)
(* in commit order says what the tables hold: reactions, contents and read *)
(* watermarks.  Every step is of one of seven kinds (lemma StepEvents),    *)
(* and each kind that changes a table appends the one event that says so.  *)
(* An unread counter counts no more than the messages others have sent.    *)
(***************************************************************************)
EXTENDS ChatWorker, SequenceTheorems, FiniteSetTheorems, TLAPS

(* What a handler that has passed its checks still knows when it opens its *)
(* transaction: a sender is a user, and the message it names exists (rows  *)
(* are never removed and never change conversation).                       *)
Checked ==
    \A w \in Workers : pc[w] = "tx" =>
        /\ job[w].type \in {"message.send", "bot.send", "reaction.add",
                            "reaction.remove"} => job[w].user \in Users
        /\ job[w].type \in {"message.edit", "message.delete", "reaction.add"}
              => Found(job[w])

Typed == TypeOK /\ Checked

-----------------------------------------------------------------------------
(* The fields a command has, by its type.                                  *)
LEMMA CommandFields ==
    ASSUME NEW cmd \in Commands
    PROVE  /\ cmd # NoCommand
           /\ cmd.type \in {"message.send", "bot.send"} =>
                /\ cmd.cmid \in ClientMessageIds /\ cmd.conv \in Conversations
                /\ cmd.content \in Contents /\ cmd.replyTo \in Nat
           /\ cmd.type = "message.edit" =>
                /\ cmd.msg \in Nat /\ cmd.conv \in Conversations
                /\ cmd.content \in Contents
           /\ cmd.type = "message.delete" =>
                /\ cmd.msg \in Nat /\ cmd.conv \in Conversations
           /\ cmd.type \in {"reaction.add", "reaction.remove"} =>
                /\ cmd.msg \in Nat /\ cmd.conv \in Conversations
                /\ cmd.emoji \in Emojis
           /\ cmd.type \in {"receipt.read", "receipt.delivered"} =>
                /\ cmd.conv \in Conversations /\ cmd.seq \in Nat \ {0}
  BY CommandsAssumption, SMTT(60) DEF Command, SendCommand, EditCommand, DeleteCommand,
     ReactionCommand, ReceiptCommand, InvalidCommand

LEMMA InitTyped == Init => Typed
  BY ConversationsAssumption DEF Init, Typed, TypeOK, BrokerOK, WorkerOK,
     GroupOK, ChatOK, Checked

USE DEF At, Goto, Puback, Nack, Return

(* A client's publication and a delivery.                                  *)
LEMMA PublishTyped == ASSUME NEW cmd \in Commands, Typed, Publish(cmd) PROVE Typed'
  BY BoundsAssumption DEF Publish, Typed, TypeOK, BrokerOK, WorkerOK, GroupOK,
     ChatOK, Checked, Found, workerVars, groupVars, markVars, chatVars, countVars

LEMMA DeliverTyped ==
    ASSUME NEW w \in Workers, NEW cmd \in Commands, Typed, Deliver(w, cmd)
    PROVE  Typed'
  BY CommandFields DEF Deliver, Typed, TypeOK, BrokerOK, WorkerOK, GroupOK,
     ChatOK, Checked, Found, workerVars, groupVars, markVars, chatVars, countVars

(* A handler that ends without touching the tables: by an early return, or *)
(* by an error or the end of its process.                                  *)
LEMMA ReturnTyped ==
    ASSUME NEW w \in Workers, Typed, pc[w] # "idle", Return(w),
           rejections' \subseteq Commands
    PROVE  Typed'
  <1>1. job[w] \in Commands
    BY DEF Typed, TypeOK, WorkerOK
  <1>2. BrokerOK'
    BY <1>1 DEF Typed, TypeOK, BrokerOK
  <1>3. WorkerOK'
    BY DEF Typed, TypeOK, WorkerOK
  <1>4. GroupOK' /\ ChatOK' /\ (faults \in Nat /\ apiCalls \in Nat)'
    BY DEF Typed, TypeOK, GroupOK, ChatOK, groupVars, markVars, chatVars, countVars
  <1>5. Checked'
    BY DEF Typed, TypeOK, WorkerOK, Checked, Found, chatVars
  <1>6. QED
    BY <1>2, <1>3, <1>4, <1>5 DEF Typed, TypeOK

LEMMA NackTyped ==
    ASSUME NEW w \in Workers, Typed, pc[w] # "idle", Nack(w),
           UNCHANGED <<published, rejections, groupVars, markVars, chatVars,
                       outbox, unread>>,
           life' \in [Workers -> {"up", "stopping", "down"}],
           faults' \in Nat, apiCalls' \in Nat
    PROVE  Typed'
  <1>1. job[w] \in Commands
    BY DEF Typed, TypeOK, WorkerOK
  <1>2. BrokerOK'
    BY <1>1 DEF Typed, TypeOK, BrokerOK
  <1>3. WorkerOK'
    BY DEF Typed, TypeOK, WorkerOK
  <1>4. GroupOK' /\ ChatOK'
    BY DEF Typed, TypeOK, GroupOK, ChatOK, groupVars, markVars, chatVars
  <1>5. Checked'
    BY DEF Typed, TypeOK, WorkerOK, Checked, Found, chatVars
  <1>6. QED
    BY <1>2, <1>3, <1>4, <1>5 DEF Typed, TypeOK

(* A check that passes: only the handler's place changes.                  *)
LEMMA PassTyped ==
    ASSUME NEW w \in Workers, Typed, pc[w] # "idle", Goto(w, "tx"),
           UNCHANGED <<published, rejections, life, groupVars, markVars,
                       chatVars, outbox, unread, countVars>>,
           accepted' \in [Workers -> Nat],
           job[w].type \in {"message.send", "bot.send", "reaction.add",
                            "reaction.remove"} => job[w].user \in Users,
           job[w].type \in {"message.edit", "message.delete", "reaction.add"}
              => Found(job[w])
    PROVE  Typed'
  <1>1. BrokerOK' /\ GroupOK' /\ ChatOK' /\ (faults \in Nat /\ apiCalls \in Nat)'
    BY DEF Typed, TypeOK, BrokerOK, GroupOK, ChatOK, groupVars, markVars,
       chatVars, countVars
  <1>2. WorkerOK'
    BY DEF Typed, TypeOK, WorkerOK
  <1>3. Checked'
    BY DEF Typed, TypeOK, WorkerOK, Checked, Found, chatVars
  <1>4. QED
    BY <1>1, <1>2, <1>3 DEF Typed, TypeOK

LEMMA CheckSendTyped == ASSUME NEW w \in Workers, Typed, CheckSend(w) PROVE Typed'
  <1>1. job[w] \in Commands /\ pc[w] # "idle"
    BY DEF CheckSend, Typed, TypeOK, WorkerOK
  <1>2. CASE MaySend(job[w])
    <2>1. job[w].user \in Users
      BY <1>1, <1>2, CommandFields DEF MaySend, CheckSend, Typed, TypeOK, GroupOK
    <2>2. QED
      BY <1>1, <1>2, <2>1, PassTyped DEF CheckSend, Typed, TypeOK, WorkerOK, groupVars, markVars, chatVars, countVars
  <1>3. CASE ~MaySend(job[w])
    BY <1>1, <1>3, ReturnTyped DEF CheckSend, Typed, TypeOK, BrokerOK
  <1>4. QED
    BY <1>2, <1>3

LEMMA CheckBotSendTyped ==
    ASSUME NEW w \in Workers, Typed, CheckBotSend(w) PROVE Typed'
  <1>1. job[w] \in Commands /\ pc[w] # "idle"
    BY DEF CheckBotSend, Typed, TypeOK, WorkerOK
  <1>2. CASE MayBotSend(job[w])
    <2>1. job[w].user \in Users
      BY <1>2, PeopleAssumption DEF MayBotSend
    <2>2. QED
      BY <1>1, <1>2, <2>1, PassTyped DEF CheckBotSend, Typed, TypeOK, WorkerOK
  <1>3. CASE ~MayBotSend(job[w])
    BY <1>1, <1>3, ReturnTyped DEF CheckBotSend, Typed, TypeOK, BrokerOK
  <1>4. QED
    BY <1>2, <1>3

LEMMA CheckChangeTyped ==
    ASSUME NEW w \in Workers, Typed, CheckChange(w) PROVE Typed'
  <1>1. job[w] \in Commands /\ pc[w] # "idle"
    BY DEF CheckChange, Typed, TypeOK, WorkerOK
  <1>2. CASE May(job[w])
    <2>1. /\ job[w].type \in {"message.edit", "message.delete", "reaction.add"}
                => Found(job[w])
          /\ job[w].type \in {"reaction.add", "reaction.remove"}
                => job[w].user \in members[job[w].conv]
      BY <1>2 DEF CheckChange, May, MayEdit, MayDelete, MayAddReaction,
         MayRemoveReaction
    <2>2. job[w].type \in {"reaction.add", "reaction.remove"}
            => job[w].user \in Users
      BY <1>1, <2>1, CommandFields DEF Typed, TypeOK, GroupOK
    <2>3. QED
      BY <1>1, <1>2, <2>1, <2>2, PassTyped
      DEF CheckChange, Typed, TypeOK, WorkerOK
  <1>3. CASE ~May(job[w])
    BY <1>1, <1>3, ReturnTyped DEF CheckChange, Typed, TypeOK, BrokerOK
  <1>4. QED
    BY <1>2, <1>3

LEMMA CheckReceiptTyped ==
    ASSUME NEW w \in Workers, Typed, CheckReceipt(w) PROVE Typed'
  <1>1. job[w] \in Commands /\ pc[w] # "idle"
    BY DEF CheckReceipt, Typed, TypeOK, WorkerOK
  <1> DEFINE n == Clamp(job[w].seq, lastSequence[job[w].conv])
  <1>2. CASE /\ accepted' = [accepted EXCEPT ![w] = n]
             /\ Goto(w, "tx")
             /\ UNCHANGED <<published, life, groupVars, markVars, chatVars,
                            outbox, unread, countVars>>
    <2>1. n \in Nat
      BY <1>1, CommandFields DEF CheckReceipt, Clamp, Typed, TypeOK, ChatOK
    <2>2. accepted' \in [Workers -> Nat]
      BY <1>2, <2>1 DEF Typed, TypeOK, WorkerOK
    <2>3. QED
      BY <1>1, <1>2, <2>2, PassTyped DEF CheckReceipt
  <1>3. CASE Return(w)
    BY <1>1, <1>3, ReturnTyped DEF CheckReceipt, Typed, TypeOK, BrokerOK
  <1>4. QED
    BY <1>2, <1>3 DEF CheckReceipt

(* A step that writes rows: stored messages stay where they are, so what   *)
(* the other handlers have checked still holds.                            *)
LEMMA WriteTyped ==
    ASSUME NEW w \in Workers, NEW step \in {"post", "ack"}, Typed,
           pc[w] # "idle", Goto(w, step),
           UNCHANGED <<published, rejections, life, accepted, countVars>>,
           GroupOK', ChatOK',
           \A i \in DOMAIN messages :
              i \in DOMAIN messages' /\ messages'[i].conv = messages[i].conv
    PROVE  Typed'
  <1>1. BrokerOK' /\ (faults \in Nat /\ apiCalls \in Nat)'
    BY DEF Typed, TypeOK, BrokerOK, countVars
  <1>2. WorkerOK'
    BY DEF Typed, TypeOK, WorkerOK
  <1>3. Checked'
    BY DEF Typed, TypeOK, WorkerOK, Checked, Found
  <1>4. QED
    BY <1>1, <1>2, <1>3 DEF Typed, TypeOK

LEMMA CreateMessageOK ==
    ASSUME Typed, NEW cmd \in Commands, NEW bot \in BOOLEAN,
           cmd.type \in {"message.send", "bot.send"}, cmd.user \in Users,
           CreateMessage(cmd, bot)
    PROVE  /\ ChatOK'
           /\ \A i \in DOMAIN messages :
                 i \in DOMAIN messages' /\ messages'[i] = messages[i]
  <1> DEFINE row == [cmid |-> cmd.cmid, conv |-> cmd.conv,
                     seq |-> NextSequence(cmd.conv), sender |-> cmd.user,
                     bot |-> bot, content |-> cmd.content, deleted |-> FALSE,
                     replyTo |-> cmd.replyTo]
             event == NewEvent("message.created", cmd, Len(messages) + 1,
                               NextSequence(cmd.conv), {})
  <1>1. NextSequence(cmd.conv) \in Nat \ {0}
    BY CommandFields DEF NextSequence, Typed, TypeOK, ChatOK
  <1>2. row \in Message
    BY <1>1, CommandFields DEF Message
  <1>3. messages \in Seq(Message) /\ outbox \in Seq(Event)
    BY DEF Typed, TypeOK, ChatOK
  <1>4. event \in Event
    BY <1>1, <1>3, CommandFields DEF NewEvent, Event, EventTypes
  <1>5. messages' = Append(messages, row) /\ outbox' = Append(outbox, event)
    BY DEF CreateMessage
  <1>6. lastSequence' \in [Conversations -> Nat]
    BY <1>1, CommandFields DEF CreateMessage, Typed, TypeOK, ChatOK
  <1> HIDE DEF row, event
  <1>7. messages' \in Seq(Message) /\ outbox' \in Seq(Event)
    BY <1>2, <1>3, <1>4, <1>5
  <1>8. reactions' \subseteq (1 .. Len(messages')) \X Users \X Emojis
    BY <1>3, <1>5 DEF CreateMessage, Typed, TypeOK, ChatOK
  <1>9. QED
    BY <1>3, <1>5, <1>6, <1>7, <1>8 DEF ChatOK

LEMMA TxSendTyped ==
    ASSUME NEW w \in Workers, Typed, TxSend(w) \/ TxBotSend(w) PROVE Typed'
  <1>1. /\ job[w] \in Commands /\ pc[w] # "idle" /\ job[w].user \in Users
        /\ job[w].type \in {"message.send", "bot.send"}
    BY DEF TxSend, TxBotSend, Typed, TypeOK, WorkerOK, Checked
  <1>2. GroupOK'
    BY DEF TxSend, TxBotSend, Typed, TypeOK, GroupOK, groupVars, markVars
  <1>3. /\ ChatOK'
        /\ \A i \in DOMAIN messages :
              i \in DOMAIN messages' /\ messages'[i] = messages[i]
    BY <1>1, CreateMessageOK DEF TxSend, TxBotSend
  <1>4. QED
    BY <1>1, <1>2, <1>3, WriteTyped DEF TxSend, TxBotSend

(* The transactions of the four handlers that change a message.            *)
LEMMA CommitTyped ==
    ASSUME NEW w \in Workers, NEW e \in Event, Typed, pc[w] # "idle",
           Commit(w, e), messages' \in Seq(Message),
           Len(messages') = Len(messages),
           \A i \in DOMAIN messages : messages'[i].conv = messages[i].conv,
           reactions' \subseteq (1 .. Len(messages)) \X Users \X Emojis
    PROVE  Typed'
  <1>1. GroupOK'
    BY DEF Commit, Typed, TypeOK, GroupOK, groupVars, markVars
  <1>2. ChatOK'
    BY DEF Commit, Typed, TypeOK, ChatOK
  <1>3. DOMAIN messages' = DOMAIN messages
    BY DEF Typed, TypeOK, ChatOK
  <1>4. QED
    BY <1>1, <1>2, <1>3, WriteTyped DEF Commit

LEMMA ChangeEvent ==
    ASSUME NEW cmd \in Commands,
           cmd.type \in {"message.edit", "message.delete", "reaction.add",
                         "reaction.remove"},
           NEW type \in EventTypes
    PROVE  NewEvent(type, cmd, cmd.msg, 0, {}) \in Event
  BY CommandFields DEF NewEvent, Event

(* An edit or a deletion rewrites one row, and only its content and its    *)
(* deletion mark.                                                          *)
LEMMA EditedRow ==
    ASSUME NEW w \in Workers, Typed, TxEdit(w) \/ TxDelete(w)
    PROVE  /\ job[w] \in Commands
           /\ job[w].msg \in 1 .. Len(messages)
           /\ messages' \in Seq(Message)
           /\ Len(messages') = Len(messages)
           /\ \A i \in 1 .. Len(messages) :
                 /\ i # job[w].msg => messages'[i] = messages[i]
                 /\ messages'[i].cmid = messages[i].cmid
                 /\ messages'[i].conv = messages[i].conv
                 /\ messages'[i].seq = messages[i].seq
                 /\ messages'[i].sender = messages[i].sender
                 /\ messages[i].deleted => messages'[i].deleted
  <1> DEFINE i == job[w].msg
             m == messages[i]
             content == IF TxEdit(w) THEN job[w].content ELSE Empty
             deleted == IF TxEdit(w) THEN m.deleted ELSE TRUE
             row == [m EXCEPT !.content = content, !.deleted = deleted]
  <1>1. /\ job[w] \in Commands
        /\ job[w].type \in {"message.edit", "message.delete"}
        /\ TxEdit(w) => job[w].type = "message.edit"
        /\ Found(job[w])
    BY DEF TxEdit, TxDelete, Typed, TypeOK, WorkerOK, Checked
  <1>2. messages \in Seq(Message) /\ i \in 1 .. Len(messages)
    BY <1>1 DEF Found, Typed, TypeOK, ChatOK
  <1>3. m \in Message
    BY <1>2
  <1>4. content \in Contents \cup {Empty} /\ deleted \in BOOLEAN
    BY <1>1, <1>3, CommandFields DEF Message
  <1>5. /\ row \in Message
        /\ row.cmid = m.cmid /\ row.conv = m.conv /\ row.seq = m.seq
        /\ row.sender = m.sender /\ (m.deleted => row.deleted)
    BY <1>3, <1>4 DEF Message
  <1>6. messages' = [messages EXCEPT ![i] = row]
    <2>1. CASE TxEdit(w)
      <3>1. row = [m EXCEPT !.content = job[w].content]
        BY <1>3, <2>1 DEF Message
      <3>2. QED
        BY <1>2, <2>1, <3>1 DEF TxEdit
    <2>2. CASE TxDelete(w)
      <3>1. ~TxEdit(w)
        BY <2>2 DEF TxEdit, TxDelete
      <3>2. row = [m EXCEPT !.content = Empty, !.deleted = TRUE]
        BY <3>1
      <3>3. messages' = [messages EXCEPT ![i] = [m EXCEPT !.content = Empty,
                                                          !.deleted = TRUE]]
        BY <1>2, <1>3, <2>2 DEF TxDelete, Message
      <3>4. QED
        BY <3>2, <3>3
    <2>3. QED
      BY <2>1, <2>2
  <1>7. QED
    BY <1>1, <1>2, <1>3, <1>5, <1>6, ExceptSeq

LEMMA TxEditTyped ==
    ASSUME NEW w \in Workers, Typed, TxEdit(w) \/ TxDelete(w) PROVE Typed'
  <1>1. /\ job[w] \in Commands /\ pc[w] # "idle"
        /\ job[w].type \in {"message.edit", "message.delete"}
    BY DEF TxEdit, TxDelete, Typed, TypeOK, WorkerOK, Checked
  <1>2. /\ messages' \in Seq(Message)
        /\ Len(messages') = Len(messages)
        /\ \A i \in DOMAIN messages : messages'[i].conv = messages[i].conv
    <2>1. messages \in Seq(Message)
      BY DEF Typed, TypeOK, ChatOK
    <2>2. DOMAIN messages = 1 .. Len(messages)
      BY <2>1
    <2>3. QED
      BY <2>2, EditedRow
  <1>3. reactions' \subseteq (1 .. Len(messages)) \X Users \X Emojis
    BY DEF TxEdit, TxDelete, Typed, TypeOK, ChatOK
  <1>4. PICK type \in EventTypes :
           Commit(w, NewEvent(type, job[w], job[w].msg, 0, {}))
    BY DEF TxEdit, TxDelete, EventTypes
  <1>5. NewEvent(type, job[w], job[w].msg, 0, {}) \in Event
    BY <1>1, ChangeEvent
  <1>6. QED
    BY <1>1, <1>2, <1>3, <1>4, <1>5, CommitTyped

(* Overwriting one entry of a table indexed by conversation and user.      *)
LEMMA TableExcept ==
    ASSUME NEW f \in [Conversations -> [Users -> Nat]], NEW c \in Conversations,
           NEW u \in Users, NEW n \in Nat
    PROVE  /\ [f EXCEPT ![c][u] = n] \in [Conversations -> [Users -> Nat]]
           /\ \A d \in Conversations, v \in Users :
                 [f EXCEPT ![c][u] = n][d][v] =
                    IF d = c /\ v = u THEN n ELSE f[d][v]
  <1>1. [f EXCEPT ![c][u] = n] = [f EXCEPT ![c] = [f[c] EXCEPT ![u] = n]]
    OBVIOUS
  <1>2. [f[c] EXCEPT ![u] = n] \in [Users -> Nat]
    OBVIOUS
  <1>3. QED
    BY <1>1, <1>2

LEMMA TxReactionTyped ==
    ASSUME NEW w \in Workers, Typed, TxAddReaction(w) \/ TxRemoveReaction(w)
    PROVE  Typed'
  <1>1. /\ job[w] \in Commands /\ pc[w] # "idle" /\ job[w].user \in Users
        /\ job[w].type \in {"reaction.add", "reaction.remove"}
        /\ job[w].type = "reaction.add" => Found(job[w])
    BY DEF TxAddReaction, TxRemoveReaction, Typed, TypeOK, WorkerOK, Checked
  <1>2. reactions' \subseteq (1 .. Len(messages)) \X Users \X Emojis
    <2>1. CASE TxRemoveReaction(w)
      BY <2>1 DEF TxRemoveReaction, Typed, TypeOK, ChatOK
    <2>2. CASE TxAddReaction(w)
      <3>1. job[w].msg \in 1 .. Len(messages) /\ job[w].emoji \in Emojis
        BY <1>1, <2>2, CommandFields
        DEF TxAddReaction, Found, Typed, TypeOK, ChatOK
      <3>2. QED
        BY <1>1, <2>2, <3>1
        DEF TxAddReaction, ReactionKey, Typed, TypeOK, ChatOK
    <2>3. QED
      BY <2>1, <2>2
  <1>3. PICK type \in EventTypes :
           Commit(w, NewEvent(type, job[w], job[w].msg, 0, {}))
    BY DEF TxAddReaction, TxRemoveReaction, EventTypes
  <1>4. NewEvent(type, job[w], job[w].msg, 0, {}) \in Event
    BY <1>1, ChangeEvent
  <1>5. UNCHANGED messages /\ messages \in Seq(Message)
    BY DEF TxAddReaction, TxRemoveReaction, Typed, TypeOK, ChatOK
  <1>6. QED
    BY <1>1, <1>2, <1>3, <1>4, <1>5, CommitTyped

LEMMA TxReceiptTyped ==
    ASSUME NEW w \in Workers, Typed, TxRead(w) \/ TxDelivered(w) PROVE Typed'
  <1>1. /\ job[w] \in Commands /\ pc[w] # "idle"
        /\ job[w].type \in {"receipt.read", "receipt.delivered"}
        /\ job[w].user \in members[job[w].conv]
    BY DEF TxRead, TxDelivered, CompareAndAdvance, Typed, TypeOK, WorkerOK
  <1>2. job[w].conv \in Conversations
    BY <1>1, CommandFields
  <1>3. job[w].user \in Users /\ members[job[w].conv] \subseteq Users
    BY <1>1, <1>2 DEF Typed, TypeOK, GroupOK
  <1>4. accepted[w] \in Nat
    BY DEF Typed, TypeOK, WorkerOK
  <1>5. GroupOK'
    <2>1. \A f \in [Conversations -> [Users -> Nat]] :
             [f EXCEPT ![job[w].conv][job[w].user] = accepted[w]]
                \in [Conversations -> [Users -> Nat]]
      BY <1>2, <1>3, <1>4, TableExcept
    <2>2. GroupOK
      BY DEF Typed, TypeOK
    <2>3. CASE TxRead(w)
      BY <2>1, <2>2, <2>3 DEF TxRead, GroupOK, groupVars
    <2>4. CASE TxDelivered(w)
      BY <2>1, <2>2, <2>4 DEF TxDelivered, GroupOK, groupVars
    <2>5. QED
      BY <2>3, <2>4
  <1>6. PICK e \in Event : outbox' = Append(outbox, e)
    <2>1. /\ NewEvent("receipt.read", job[w], 0, accepted[w],
                      ReadRecipients(job[w])) \in Event
          /\ NewEvent("receipt.delivered", job[w], 0, accepted[w],
                      DeliveredRecipients(job[w])) \in Event
      BY <1>1, <1>2, <1>3, <1>4
      DEF NewEvent, Event, EventTypes, ReadRecipients, DeliveredRecipients
    <2>2. QED
      BY <2>1 DEF TxRead, TxDelivered
  <1>7. ChatOK'
    BY <1>6 DEF TxRead, TxDelivered, Typed, TypeOK, ChatOK, chatVars
  <1>8. UNCHANGED messages
    BY DEF TxRead, TxDelivered, chatVars
  <1>9. QED
    BY <1>1, <1>5, <1>7, <1>8, WriteTyped DEF TxRead, TxDelivered

(* The best-effort writes to the unread counters.                          *)
LEMMA PostTyped ==
    ASSUME NEW w \in Workers, Typed, PostSend(w) \/ PostRead(w) PROVE Typed'
  <1>1. pc[w] # "idle" /\ job[w] \in Commands
    BY DEF PostSend, PostRead, Typed, TypeOK, WorkerOK
  <1>2. unread' \in [Conversations -> [Users -> Nat]]
    <2> DEFINE c == job[w].conv
    <2>1. c \in Conversations /\ unread \in [Conversations -> [Users -> Nat]]
      BY <1>1, CommandFields DEF PostSend, PostRead, Typed, TypeOK, GroupOK
    <2>2. CASE PostSend(w)
      <3>1. PICK S \in SUBSET (members[c] \ {job[w].user}) :
               unread' = [unread EXCEPT ![c] =
                  [u \in Users |-> IF u \in S THEN unread[c][u] + 1
                                  ELSE unread[c][u]]]
        BY <2>2 DEF PostSend
      <3>2. [u \in Users |-> IF u \in S THEN unread[c][u] + 1 ELSE unread[c][u]]
              \in [Users -> Nat]
        BY <2>1
      <3>3. QED
        BY <2>1, <3>1, <3>2
    <2>3. CASE PostRead(w)
      <3>1. CASE job[w].user \in Users
        <4>1. [unread EXCEPT ![c][job[w].user] = 0]
                 \in [Conversations -> [Users -> Nat]]
          BY <2>1, <3>1, TableExcept
        <4>2. QED
          BY <2>1, <2>3, <4>1 DEF PostRead
      <3>2. CASE job[w].user \notin Users
        <4>1. [unread[c] EXCEPT ![job[w].user] = 0] = unread[c]
          BY <2>1, <3>2
        <4>2. QED
          BY <2>1, <2>3, <4>1 DEF PostRead
      <3>3. QED
        BY <3>1, <3>2
    <2>4. QED
      BY <2>2, <2>3
  <1>3. GroupOK' /\ ChatOK' /\ UNCHANGED messages
    BY <1>2 DEF PostSend, PostRead, Typed, TypeOK, GroupOK, ChatOK, groupVars,
       markVars, chatVars
  <1>4. QED
    BY <1>1, <1>3, WriteTyped DEF PostSend, PostRead

(* The API's transactions.                                                 *)
LEMMA ApiTyped ==
    ASSUME Typed, NEW c \in Conversations,
           \/ DeleteConversation(c)
           \/ \E S \in (SUBSET Users) \ {{}} : AddMembers(c, S)
           \/ \E u \in Users : RemoveMember(c, u)
    PROVE  Typed'
  <1>1. PICK type \in EventTypes : ApiCall(GroupEvent(type, c))
    BY DEF DeleteConversation, AddMembers, RemoveMember, EventTypes
  <1>2. GroupEvent(type, c) \in Event
    BY DEF GroupEvent, Event
  <1>3. BrokerOK' /\ WorkerOK' /\ ChatOK' /\ (faults \in Nat /\ apiCalls \in Nat)'
    BY <1>1, <1>2 DEF ApiCall, Typed, TypeOK, BrokerOK, WorkerOK, ChatOK,
       brokerVars, workerVars, chatVars
  <1>4. Checked'
    BY <1>1 DEF ApiCall, Typed, Checked, Found, workerVars, chatVars
  <1>5. GroupOK /\ unread' = unread
    BY <1>1 DEF ApiCall, Typed, TypeOK
  <1>6. GroupOK'
    <2>1. CASE DeleteConversation(c)
      BY <1>5, <2>1 DEF DeleteConversation, GroupOK, markVars
    <2>2. CASE \E S \in (SUBSET Users) \ {{}} : AddMembers(c, S)
      BY <1>5, <2>2 DEF AddMembers, GroupOK, markVars
    <2>3. CASE \E u \in Users : RemoveMember(c, u)
      <3>1. PICK u \in Users : RemoveMember(c, u)
        BY <2>3
      <3>2. \A f \in [Conversations -> [Users -> Nat]] :
               [f EXCEPT ![c][u] = 0] \in [Conversations -> [Users -> Nat]]
        BY TableExcept
      <3>3. members' \in [Conversations -> SUBSET Users]
        BY <1>5, <3>1 DEF RemoveMember, GroupOK
      <3>4. admins' \in [Conversations -> SUBSET Users]
        <4>1. members[c] \in SUBSET Users /\ admins \in [Conversations -> SUBSET Users]
          BY <1>5 DEF GroupOK
        <4>2. PICK T \in SUBSET Users : admins' = [admins EXCEPT ![c] = T]
          <5>1. CASE admins' = [admins EXCEPT ![c] = @ \ {u}]
            BY <4>1, <5>1
          <5>2. ASSUME NEW s \in (members[c] \ {u}) \ Bots,
                       admins' = [admins EXCEPT ![c] = (@ \ {u}) \cup {s}]
                PROVE  \E T \in SUBSET Users : admins' = [admins EXCEPT ![c] = T]
            <6>1. (admins[c] \ {u}) \cup {s} \in SUBSET Users
              BY <4>1
            <6> QED
              BY <5>2, <6>1
          <5> QED
            BY <3>1, <5>1, <5>2 DEF RemoveMember
        <4> QED
          BY <4>1, <4>2
      <3>5. QED
        BY <1>5, <3>1, <3>2, <3>3, <3>4 DEF RemoveMember, GroupOK
    <2>4. QED
      BY <2>1, <2>2, <2>3
  <1>7. QED
    BY <1>3, <1>4, <1>6 DEF Typed, TypeOK

(* Errors, crashes, shutdowns and restarts.                                *)
LEMMA LeaveTyped ==
    ASSUME NEW w \in Workers, Typed, Leave(w), faults' \in Nat PROVE Typed'
  <1>1. life' \in [Workers -> {"up", "stopping", "down"}] /\ apiCalls' \in Nat
    BY DEF Leave, Typed, TypeOK, WorkerOK
  <1>2. CASE pc[w] # "idle" /\ Nack(w)
    BY <1>1, <1>2, NackTyped DEF Leave
  <1>3. CASE UNCHANGED <<copies, acked, job, pc, accepted>>
    BY <1>1, <1>3 DEF Leave, Typed, TypeOK, BrokerOK, WorkerOK, GroupOK, ChatOK,
       Checked, Found, groupVars, markVars, chatVars
  <1>4. QED
    BY <1>2, <1>3 DEF Leave

LEMMA FaultTyped ==
    ASSUME NEW w \in Workers, Typed,
           Fail(w) \/ Crash(w) \/ Stop(w) \/ Exit(w) \/ Restart(w)
    PROVE  Typed'
  <1>1. CASE Fail(w)
    <2>1. pc[w] # "idle" /\ faults' \in Nat /\ apiCalls' \in Nat
      BY <1>1 DEF Fail, Typed, TypeOK
    <2>2. life' \in [Workers -> {"up", "stopping", "down"}]
      BY <1>1 DEF Fail, Typed, TypeOK, WorkerOK
    <2>3. QED
      BY <1>1, <2>1, <2>2, NackTyped DEF Fail
  <1>2. CASE Crash(w) \/ Exit(w)
    BY <1>2, LeaveTyped DEF Crash, Exit, Typed, TypeOK
  <1>3. CASE Stop(w) \/ Restart(w)
    <2>1. WorkerOK' /\ (faults \in Nat /\ apiCalls \in Nat)'
      BY <1>3 DEF Stop, Restart, Typed, TypeOK, WorkerOK, countVars
    <2>2. BrokerOK' /\ GroupOK' /\ ChatOK' /\ Checked'
      BY <1>3 DEF Stop, Restart, Typed, TypeOK, BrokerOK, GroupOK, ChatOK,
         Checked, Found, brokerVars, groupVars, markVars, chatVars
    <2>3. QED
      BY <2>1, <2>2 DEF Typed, TypeOK
  <1>4. QED
    BY <1>1, <1>2, <1>3

LEMMA HandleTyped == ASSUME NEW w \in Workers, Typed, Handle(w) PROVE Typed'
  <1>1. rejections \subseteq Commands
    BY DEF Typed, TypeOK, BrokerOK
  <1>2. CASE DropInvalid(w) \/ Ack(w) \/ TxBotSendDuplicate(w)
             \/ TxReactionNoop(w) \/ TxReceiptStale(w)
    <2>1. pc[w] # "idle" /\ Return(w) /\ UNCHANGED rejections
      BY <1>2 DEF DropInvalid, Ack, TxBotSendDuplicate, TxReactionNoop,
         TxReceiptStale
    <2>2. QED
      BY <1>1, <2>1, ReturnTyped
  <1>3. CASE TxSendDuplicate(w)
    <2>1. pc[w] # "idle"
      BY <1>3 DEF TxSendDuplicate
    <2>2. CASE Puback(w)
      BY <1>1, <1>3, <2>1, <2>2, ReturnTyped DEF TxSendDuplicate
    <2>3. CASE Nack(w)
      BY <1>3, <2>1, <2>3, NackTyped
      DEF TxSendDuplicate, Typed, TypeOK, WorkerOK, countVars
    <2>4. QED
      BY <1>3, <2>2, <2>3 DEF TxSendDuplicate
  <1>4. CASE CheckSend(w) \/ CheckBotSend(w) \/ CheckChange(w) \/ CheckReceipt(w)
    BY <1>4, CheckSendTyped, CheckBotSendTyped, CheckChangeTyped, CheckReceiptTyped
  <1>5. CASE TxSend(w) \/ TxBotSend(w) \/ TxEdit(w) \/ TxDelete(w)
             \/ TxAddReaction(w) \/ TxRemoveReaction(w)
             \/ TxRead(w) \/ TxDelivered(w)
    BY <1>5, TxSendTyped, TxEditTyped, TxReactionTyped, TxReceiptTyped
  <1>6. CASE PostSend(w) \/ PostRead(w)
    BY <1>6, PostTyped
  <1>7. QED
    BY <1>2, <1>3, <1>4, <1>5, <1>6 DEF Handle

LEMMA NextTyped == Typed /\ [Next]_vars => Typed'
  <1> SUFFICES ASSUME Typed, [Next]_vars PROVE Typed'
    OBVIOUS
  <1>1. CASE UNCHANGED vars
    BY <1>1 DEF Typed, TypeOK, BrokerOK, WorkerOK, GroupOK, ChatOK, Checked,
       Found, vars, brokerVars, workerVars, groupVars, markVars, chatVars, countVars
  <1>2. CASE \E cmd \in Commands : Publish(cmd)
    BY <1>2, PublishTyped
  <1>3. CASE \E w \in Workers, cmd \in Commands : Deliver(w, cmd)
    BY <1>3, DeliverTyped
  <1>4. CASE \E w \in Workers : Handle(w)
    BY <1>4, HandleTyped
  <1>5. CASE \E w \in Workers :
               Fail(w) \/ Crash(w) \/ Stop(w) \/ Exit(w) \/ Restart(w)
    BY <1>5, FaultTyped
  <1>6. CASE \E c \in Conversations :
               \/ DeleteConversation(c)
               \/ \E S \in (SUBSET Users) \ {{}} : AddMembers(c, S)
               \/ \E u \in Users : RemoveMember(c, u)
    BY <1>6, ApiTyped
  <1>7. QED
    BY <1>1, <1>2, <1>3, <1>4, <1>5, <1>6 DEF Next

(* The state is well typed in every reachable state: each command being    *)
(* handled, table row, event and counter has the shape its schema gives it *)
(* (worker.ts, handlers/).                                                 *)
THEOREM Typing == Spec => []TypeOK
  <1>1. Spec => []Typed
    BY InitTyped, NextTyped, PTL DEF Spec
  <1>2. Typed => TypeOK
    BY DEF Typed
  <1>3. QED
    BY <1>1, <1>2, PTL

-----------------------------------------------------------------------------
(* Every step is quiet or creates one message.                             *)

(* The two kinds of step.                                                  *)
Creates(cmd, bot) ==
    /\ cmd.type \in {"message.send", "bot.send"}
    /\ cmd.user \in Users
    /\ CreateMessage(cmd, bot)

SameRows ==
    /\ lastSequence' = lastSequence
    /\ Len(messages') = Len(messages)
    /\ \A i \in 1 .. Len(messages) :
          /\ messages'[i].cmid = messages[i].cmid
          /\ messages'[i].conv = messages[i].conv
          /\ messages'[i].seq = messages[i].seq
          /\ messages'[i].sender = messages[i].sender
          /\ messages[i].deleted => messages'[i].deleted

OtherEvent == \/ outbox' = outbox
              \/ \E e \in Event : /\ e.type # "message.created"
                                  /\ outbox' = Append(outbox, e)

Quiet == SameRows /\ OtherEvent

LEMMA UnchangedQuiet == ASSUME UNCHANGED chatVars, OtherEvent PROVE Quiet
  BY DEF Quiet, SameRows, chatVars

LEMMA HandleKinds ==
    ASSUME NEW w \in Workers, Typed, Handle(w)
    PROVE  Quiet \/ \E cmd \in Commands, bot \in BOOLEAN : Creates(cmd, bot)
  <1>1. CASE TxSend(w) \/ TxBotSend(w)
    <2>1. /\ job[w] \in Commands /\ job[w].user \in Users
          /\ job[w].type \in {"message.send", "bot.send"}
      BY <1>1 DEF TxSend, TxBotSend, Typed, TypeOK, WorkerOK, Checked, At
    <2>2. CreateMessage(job[w], TRUE) \/ CreateMessage(job[w], FALSE)
      BY <1>1 DEF TxSend, TxBotSend
    <2>3. QED
      BY <2>1, <2>2 DEF Creates
  <1>2. CASE TxEdit(w) \/ TxDelete(w)
    <2>1. SameRows
      BY <1>2, EditedRow DEF SameRows, TxEdit, TxDelete, Commit
    <2>2. job[w] \in Commands /\ job[w].type \in {"message.edit", "message.delete"}
      BY <1>2 DEF TxEdit, TxDelete, Typed, TypeOK, WorkerOK, At
    <2>3. PICK type \in EventTypes \ {"message.created"} :
             outbox' = Append(outbox, NewEvent(type, job[w], job[w].msg, 0, {}))
      BY <1>2 DEF TxEdit, TxDelete, Commit, EventTypes
    <2>4. /\ NewEvent(type, job[w], job[w].msg, 0, {}) \in Event
          /\ NewEvent(type, job[w], job[w].msg, 0, {}).type # "message.created"
      BY <2>2, ChangeEvent DEF NewEvent
    <2>5. QED
      BY <2>1, <2>3, <2>4 DEF Quiet, OtherEvent
  <1>3. CASE TxAddReaction(w) \/ TxRemoveReaction(w)
    <2>1. job[w] \in Commands /\ job[w].type \in {"reaction.add", "reaction.remove"}
      BY <1>3 DEF TxAddReaction, TxRemoveReaction, Typed, TypeOK, WorkerOK, At
    <2>2. PICK type \in EventTypes \ {"message.created"} :
             outbox' = Append(outbox, NewEvent(type, job[w], job[w].msg, 0, {}))
      BY <1>3 DEF TxAddReaction, TxRemoveReaction, Commit, EventTypes
    <2>3. /\ NewEvent(type, job[w], job[w].msg, 0, {}) \in Event
          /\ NewEvent(type, job[w], job[w].msg, 0, {}).type # "message.created"
      BY <2>1, ChangeEvent DEF NewEvent
    <2>4. SameRows
      BY <1>3 DEF SameRows, TxAddReaction, TxRemoveReaction, Commit
    <2>5. QED
      BY <2>2, <2>3, <2>4 DEF Quiet, OtherEvent
  <1>4. CASE TxRead(w) \/ TxDelivered(w)
    <2>1. PICK e : /\ outbox' = Append(outbox, e) /\ e.type # "message.created"
                   /\ e \in {NewEvent("receipt.read", job[w], 0, accepted[w],
                                      ReadRecipients(job[w])),
                             NewEvent("receipt.delivered", job[w], 0, accepted[w],
                                      DeliveredRecipients(job[w]))}
      BY <1>4 DEF TxRead, TxDelivered, NewEvent
    <2>2. e \in Event
      <3>1. Typed'
        BY <1>4, TxReceiptTyped
      <3>2. outbox' \in Seq(Event) /\ outbox \in Seq(Event)
        BY <3>1 DEF Typed, TypeOK, ChatOK
      <3>3. e = outbox'[Len(outbox')] /\ Len(outbox') \in DOMAIN outbox'
        BY <2>1, <3>2
      <3>4. QED
        BY <3>2, <3>3
    <2>3. UNCHANGED chatVars
      BY <1>4 DEF TxRead, TxDelivered
    <2>4. QED
      BY <2>1, <2>2, <2>3, UnchangedQuiet DEF OtherEvent
  <1>5. CASE DropInvalid(w) \/ Ack(w) \/ TxBotSendDuplicate(w)
             \/ TxReactionNoop(w) \/ TxReceiptStale(w)
    BY <1>5, UnchangedQuiet DEF DropInvalid, Ack, TxBotSendDuplicate,
       TxReactionNoop, TxReceiptStale, Return, OtherEvent
  <1>6. CASE TxSendDuplicate(w) \/ PostSend(w) \/ PostRead(w)
    BY <1>6, UnchangedQuiet DEF TxSendDuplicate, PostSend, PostRead, OtherEvent
  <1>7. CASE CheckSend(w) \/ CheckBotSend(w) \/ CheckChange(w) \/ CheckReceipt(w)
    BY <1>7, UnchangedQuiet DEF CheckSend, CheckBotSend, CheckChange,
       CheckReceipt, Return, OtherEvent
  <1>8. QED
    BY <1>1, <1>2, <1>3, <1>4, <1>5, <1>6, <1>7 DEF Handle

LEMMA StepKinds ==
    ASSUME Typed, [Next]_vars
    PROVE  Quiet \/ \E cmd \in Commands, bot \in BOOLEAN : Creates(cmd, bot)
  <1>1. CASE UNCHANGED vars
    BY <1>1, UnchangedQuiet DEF vars, OtherEvent
  <1>2. CASE \E cmd \in Commands : Publish(cmd)
    BY <1>2, UnchangedQuiet DEF Publish, OtherEvent
  <1>3. CASE \E w \in Workers, cmd \in Commands : Deliver(w, cmd)
    BY <1>3, UnchangedQuiet DEF Deliver, OtherEvent
  <1>4. CASE \E w \in Workers : Handle(w)
    BY <1>4, HandleKinds
  <1>5. CASE \E w \in Workers :
               Fail(w) \/ Crash(w) \/ Stop(w) \/ Exit(w) \/ Restart(w)
    BY <1>5, UnchangedQuiet DEF Fail, Crash, Stop, Exit, Restart, Leave, OtherEvent
  <1>6. CASE \E c \in Conversations :
               \/ DeleteConversation(c)
               \/ \E S \in (SUBSET Users) \ {{}} : AddMembers(c, S)
               \/ \E u \in Users : RemoveMember(c, u)
    <2>1. PICK c \in Conversations, type \in EventTypes \ {"message.created"} :
             ApiCall(GroupEvent(type, c))
      BY <1>6 DEF DeleteConversation, AddMembers, RemoveMember, EventTypes
    <2>2. GroupEvent(type, c) \in Event /\ GroupEvent(type, c).type # "message.created"
      BY DEF GroupEvent, Event
    <2>3. QED
      BY <2>1, <2>2, UnchangedQuiet DEF ApiCall, OtherEvent
  <1>7. QED
    BY <1>1, <1>2, <1>3, <1>4, <1>5, <1>6 DEF Next

-----------------------------------------------------------------------------
(* What a step of either kind does to the tables, index by index.          *)
LEMMA CreatedRow ==
    ASSUME Typed, NEW cmd \in Commands, NEW bot \in BOOLEAN, Creates(cmd, bot)
    PROVE  LET n == Len(messages) + 1
               c == cmd.conv
           IN  /\ n \in Nat /\ c \in Conversations
               /\ Len(messages') = n
               /\ \A i \in 1 .. Len(messages) :
                     messages'[i] = messages[i] /\ messages[i].cmid # cmd.cmid
               /\ messages'[n].cmid = cmd.cmid /\ messages'[n].conv = c
               /\ messages'[n].seq = lastSequence[c] + 1
               /\ lastSequence[c] \in Nat
               /\ lastSequence' = [lastSequence EXCEPT ![c] = lastSequence[c] + 1]
  <1>1. messages \in Seq(Message) /\ lastSequence \in [Conversations -> Nat]
    BY DEF Typed, TypeOK, ChatOK
  <1>2. cmd.conv \in Conversations
    BY CommandFields DEF Creates
  <1>3. DOMAIN messages = 1 .. Len(messages) /\ Len(messages) \in Nat
    BY <1>1
  <1>4. \A i \in 1 .. Len(messages) : messages[i].cmid # cmd.cmid
    BY <1>3 DEF Creates, CreateMessage, P2002
  <1> DEFINE row == [cmid |-> cmd.cmid, conv |-> cmd.conv,
                     seq |-> NextSequence(cmd.conv), sender |-> cmd.user,
                     bot |-> bot, content |-> cmd.content, deleted |-> FALSE,
                     replyTo |-> cmd.replyTo]
  <1>5. messages' = Append(messages, row)
    BY DEF Creates, CreateMessage
  <1>6. /\ row.cmid = cmd.cmid /\ row.conv = cmd.conv
        /\ row.seq = lastSequence[cmd.conv] + 1
    BY DEF NextSequence
  <1>7. lastSequence' = [lastSequence EXCEPT ![cmd.conv] = lastSequence[cmd.conv] + 1]
    BY DEF Creates, CreateMessage, NextSequence
  <1> HIDE DEF row
  <1>8. QED
    BY <1>1, <1>2, <1>3, <1>4, <1>5, <1>6, <1>7

LEMMA CreatedEvent ==
    ASSUME Typed, NEW cmd \in Commands, NEW bot \in BOOLEAN, Creates(cmd, bot)
    PROVE  LET n == Len(outbox) + 1
           IN  /\ n \in Nat
               /\ Len(outbox') = n
               /\ \A k \in 1 .. Len(outbox) : outbox'[k] = outbox[k]
               /\ outbox'[n].type = "message.created"
               /\ outbox'[n].msg = Len(messages) + 1
               /\ outbox'[n].seq = lastSequence[cmd.conv] + 1
               /\ outbox'[n].conv = cmd.conv
  <1> DEFINE event == NewEvent("message.created", cmd, Len(messages) + 1,
                               NextSequence(cmd.conv), {})
  <1>1. outbox \in Seq(Event)
    BY DEF Typed, TypeOK, ChatOK
  <1>2. outbox' = Append(outbox, event)
    BY DEF Creates, CreateMessage
  <1>3. /\ event.type = "message.created" /\ event.msg = Len(messages) + 1
        /\ event.seq = lastSequence[cmd.conv] + 1 /\ event.conv = cmd.conv
    BY DEF NewEvent, NextSequence
  <1> HIDE DEF event
  <1>4. QED
    BY <1>1, <1>2, <1>3

(* Outside the creating transaction no message.created row is written.     *)
LEMMA QuietEvents ==
    ASSUME Typed, OtherEvent
    PROVE  /\ Len(outbox) \in Nat /\ Len(outbox') \in Nat
           /\ Len(outbox') >= Len(outbox)
           /\ \A k \in 1 .. Len(outbox) : outbox'[k] = outbox[k]
           /\ \A k \in 1 .. Len(outbox') : outbox'[k].type = "message.created" =>
                  k \in 1 .. Len(outbox)
  <1>1. outbox \in Seq(Event)
    BY DEF Typed, TypeOK, ChatOK
  <1>2. CASE outbox' = outbox
    BY <1>1, <1>2
  <1>3. CASE \E e \in Event : /\ e.type # "message.created"
                              /\ outbox' = Append(outbox, e)
    BY <1>1, <1>3
  <1>4. QED
    BY <1>2, <1>3 DEF OtherEvent

(* The shapes of the tables, from their types.                             *)
Shapes ==
    /\ DOMAIN messages = 1 .. Len(messages) /\ Len(messages) \in Nat
    /\ DOMAIN outbox = 1 .. Len(outbox) /\ Len(outbox) \in Nat
    /\ lastSequence \in [Conversations -> Nat]
    /\ \A i \in 1 .. Len(messages) : /\ messages[i].conv \in Conversations
                                      /\ messages[i].seq \in Nat
    /\ \A k \in 1 .. Len(outbox) : outbox[k].msg \in Nat /\ outbox[k].seq \in Nat

LEMMA TypedShapes == Typed => Shapes
  <1> SUFFICES ASSUME Typed PROVE Shapes
    OBVIOUS
  <1>1. /\ messages \in Seq(Message) /\ outbox \in Seq(Event)
        /\ lastSequence \in [Conversations -> Nat]
    BY DEF Typed, TypeOK, ChatOK
  <1>2. \A i \in 1 .. Len(messages) : messages[i] \in Message
    BY <1>1
  <1>3. \A k \in 1 .. Len(outbox) : outbox[k] \in Event
    BY <1>1
  <1>4. QED
    BY <1>1, <1>2, <1>3 DEF Message, Event, Shapes

LEMMA NextShapes == Typed /\ [Next]_vars => Shapes /\ Shapes'
  BY TypedShapes, NextTyped, PTL

-----------------------------------------------------------------------------
(* The stored log: sequences are dense, clientMessageIds are unique.       *)
LEMMA SameDomain ==
    ASSUME Shapes, Shapes', SameRows
    PROVE  /\ DOMAIN messages' = DOMAIN messages
           /\ lastSequence' = lastSequence
           /\ \A i \in DOMAIN messages :
                 /\ messages'[i].cmid = messages[i].cmid
                 /\ messages'[i].conv = messages[i].conv
                 /\ messages'[i].seq = messages[i].seq
  BY DEF Shapes, SameRows

(* The rows a creating step adds.                                          *)
LEMMA NewMessage ==
    ASSUME Typed, Shapes, Shapes', NEW cmd \in Commands, NEW bot \in BOOLEAN,
           Creates(cmd, bot)
    PROVE  \E n :
             /\ n = Len(messages) + 1
             /\ DOMAIN messages' = DOMAIN messages \cup {n}
             /\ n \notin DOMAIN messages
             /\ \A i \in DOMAIN messages :
                   messages'[i] = messages[i] /\ messages[i].cmid # cmd.cmid
             /\ messages'[n].cmid = cmd.cmid
             /\ messages'[n].conv = cmd.conv
             /\ messages'[n].seq = lastSequence[cmd.conv] + 1
  <1> DEFINE n == Len(messages) + 1
  <1>1. /\ n \in Nat
        /\ Len(messages') = n
        /\ \A i \in 1 .. Len(messages) :
              messages'[i] = messages[i] /\ messages[i].cmid # cmd.cmid
        /\ messages'[n].cmid = cmd.cmid /\ messages'[n].conv = cmd.conv
        /\ messages'[n].seq = lastSequence[cmd.conv] + 1
    BY CreatedRow
  <1>2. QED
    BY <1>1 DEF Shapes

LEMMA NewCreated ==
    ASSUME Typed, Shapes, Shapes', NEW cmd \in Commands, NEW bot \in BOOLEAN,
           Creates(cmd, bot)
    PROVE  \E e :
             /\ DOMAIN outbox' = DOMAIN outbox \cup {e}
             /\ e \notin DOMAIN outbox
             /\ \A k \in DOMAIN outbox : outbox'[k] = outbox[k] /\ ~(e < k)
             /\ ~(e < e)
             /\ outbox'[e].type = "message.created"
             /\ outbox'[e].msg = Len(messages) + 1
             /\ outbox'[e].conv = cmd.conv
             /\ outbox'[e].seq = lastSequence[cmd.conv] + 1
  <1> DEFINE e == Len(outbox) + 1
  <1>1. /\ e \in Nat
        /\ Len(outbox') = e
        /\ \A k \in 1 .. Len(outbox) : outbox'[k] = outbox[k]
        /\ outbox'[e].type = "message.created"
        /\ outbox'[e].msg = Len(messages) + 1
        /\ outbox'[e].seq = lastSequence[cmd.conv] + 1
        /\ outbox'[e].conv = cmd.conv
    BY CreatedEvent
  <1>2. /\ DOMAIN outbox = 1 .. Len(outbox) /\ Len(outbox) \in Nat
        /\ DOMAIN outbox' = 1 .. e
    BY <1>1 DEF Shapes
  <1>3. /\ DOMAIN outbox' = DOMAIN outbox \cup {e}
        /\ e \notin DOMAIN outbox /\ ~(e < e)
        /\ \A k \in DOMAIN outbox : outbox'[k] = outbox[k] /\ ~(e < k)
    BY <1>1, <1>2
  <1> HIDE DEF e
  <1>4. QED
    BY <1>1, <1>3

LEMMA DenseStep == Typed /\ SequencesDense /\ [Next]_vars => SequencesDense'
  <1> SUFFICES ASSUME Typed, SequencesDense, [Next]_vars PROVE SequencesDense'
    OBVIOUS
  <1>1. Shapes /\ Shapes'
    BY NextShapes
  <1> DEFINE Within == \A i \in DOMAIN messages :
                          messages[i].seq \in 1 .. lastSequence[messages[i].conv]
             Distinct == \A i, j \in DOMAIN messages :
                            /\ messages[i].conv = messages[j].conv
                            /\ messages[i].seq = messages[j].seq
                            => i = j
             Filled == \A d \in Conversations : \A m \in 1 .. lastSequence[d] :
                          \E i \in DOMAIN messages :
                             messages[i].conv = d /\ messages[i].seq = m
  <1>2. Within /\ Distinct /\ Filled
    BY DEF SequencesDense
  <1>3. CASE Quiet
    <2>1. /\ DOMAIN messages' = DOMAIN messages
          /\ lastSequence' = lastSequence
          /\ \A i \in DOMAIN messages :
                /\ messages'[i].conv = messages[i].conv
                /\ messages'[i].seq = messages[i].seq
      BY <1>1, <1>3, SameDomain DEF Quiet
    <2>2. Within'
      BY <1>2, <2>1
    <2>3. Distinct'
      BY <1>2, <2>1
    <2>4. Filled'
      BY <1>2, <2>1
    <2>5. QED
      BY <2>2, <2>3, <2>4 DEF SequencesDense
  <1>4. CASE \E cmd \in Commands, bot \in BOOLEAN : Creates(cmd, bot)
    <2>1. PICK cmd \in Commands, bot \in BOOLEAN : Creates(cmd, bot)
      BY <1>4
    <2> DEFINE n == Len(messages) + 1
               c == cmd.conv
    <2>2. /\ n \in Nat /\ c \in Conversations
          /\ Len(messages') = n
          /\ \A i \in 1 .. Len(messages) : messages'[i] = messages[i]
          /\ messages'[n].conv = c
          /\ messages'[n].seq = lastSequence[c] + 1
          /\ lastSequence[c] \in Nat
          /\ lastSequence' = [lastSequence EXCEPT ![c] = lastSequence[c] + 1]
      BY <2>1, CreatedRow
    <2>3. /\ DOMAIN messages' = DOMAIN messages \cup {n}
          /\ n \notin DOMAIN messages
          /\ \A i \in DOMAIN messages : messages'[i] = messages[i]
          /\ \A d \in Conversations : lastSequence[d] \in Nat
          /\ lastSequence'[c] = lastSequence[c] + 1
          /\ \A d \in Conversations \ {c} : lastSequence'[d] = lastSequence[d]
          /\ \A i \in DOMAIN messages : messages[i].conv \in Conversations
      BY <1>1, <2>2 DEF Shapes
    <2> HIDE DEF n, c
    <2>4. Within'
      <3> SUFFICES ASSUME NEW i \in DOMAIN messages'
                   PROVE  messages'[i].seq \in 1 .. lastSequence'[messages'[i].conv]
        OBVIOUS
      <3>1. CASE i = n
        BY <2>2, <2>3, <3>1
      <3>2. CASE i \in DOMAIN messages
        <4>1. messages[i].seq \in 1 .. lastSequence[messages[i].conv]
          BY <1>2, <3>2
        <4>2. CASE messages[i].conv = c
          BY <2>2, <2>3, <3>2, <4>1, <4>2
        <4>3. CASE messages[i].conv # c
          BY <2>2, <2>3, <3>2, <4>1, <4>3
        <4>4. QED
          BY <4>2, <4>3
      <3>3. QED
        BY <2>3, <3>1, <3>2
    <2>5. \A i \in DOMAIN messages :
             ~(messages[i].conv = c /\ messages[i].seq = lastSequence[c] + 1)
      <3>1. lastSequence[c] + 1 \notin 1 .. lastSequence[c]
        BY <2>2
      <3>2. QED
        BY <1>2, <3>1
    <2>6. Distinct'
      BY <1>2, <2>2, <2>3, <2>5
    <2>7. Filled'
      <3> SUFFICES ASSUME NEW d \in Conversations, NEW m \in 1 .. lastSequence'[d]
                   PROVE  \E i \in DOMAIN messages' :
                             messages'[i].conv = d /\ messages'[i].seq = m
        OBVIOUS
      <3>1. CASE m \in 1 .. lastSequence[d]
        <4>1. PICK i \in DOMAIN messages : messages[i].conv = d /\ messages[i].seq = m
          BY <1>2, <3>1
        <4>2. QED
          BY <2>3, <4>1
      <3>2. CASE m \notin 1 .. lastSequence[d]
        <4>1. d = c /\ m = lastSequence[c] + 1
          BY <2>2, <2>3, <3>2
        <4>2. QED
          BY <2>2, <2>3, <4>1
      <3>3. QED
        BY <3>1, <3>2
    <2>8. QED
      BY <2>4, <2>6, <2>7 DEF SequencesDense
  <1>5. QED
    BY <1>3, <1>4, StepKinds

LEMMA UniqueStep ==
    Typed /\ ClientMessageIdUnique /\ [Next]_vars => ClientMessageIdUnique'
  <1> SUFFICES ASSUME Typed, ClientMessageIdUnique, [Next]_vars
               PROVE  ClientMessageIdUnique'
    OBVIOUS
  <1>1. Shapes /\ Shapes'
    BY NextShapes
  <1>2. CASE Quiet
    BY <1>1, <1>2, SameDomain DEF Quiet, ClientMessageIdUnique
  <1>3. CASE \E cmd \in Commands, bot \in BOOLEAN : Creates(cmd, bot)
    <2>1. PICK cmd \in Commands, bot \in BOOLEAN : Creates(cmd, bot)
      BY <1>3
    <2>2. PICK n :
             /\ DOMAIN messages' = DOMAIN messages \cup {n}
             /\ \A i \in DOMAIN messages :
                   messages'[i] = messages[i] /\ messages[i].cmid # cmd.cmid
             /\ messages'[n].cmid = cmd.cmid
      BY <1>1, <2>1, NewMessage
    <2>3. QED
      BY <2>2 DEF ClientMessageIdUnique
  <1>4. QED
    BY <1>2, <1>3, StepKinds

(* The outbox announces each message once and in order.                    *)
LEMMA CreatedOnceStep == Typed /\ CreatedOnce /\ [Next]_vars => CreatedOnce'
  <1> SUFFICES ASSUME Typed, CreatedOnce, [Next]_vars PROVE CreatedOnce'
    OBVIOUS
  <1>1. Shapes /\ Shapes'
    BY NextShapes
  <1> DEFINE Announced(i) ==
               \E k \in DOMAIN outbox :
                  /\ IsCreated(k) /\ outbox[k].msg = i
                  /\ outbox[k].seq = messages[i].seq
                  /\ outbox[k].conv = messages[i].conv
                  /\ \A m \in DOMAIN outbox :
                        IsCreated(m) /\ outbox[m].msg = i => m = k
             Grounded == \A k \in DOMAIN outbox :
                            IsCreated(k) => outbox[k].msg \in DOMAIN messages
  <1>2. (\A i \in DOMAIN messages : Announced(i)) /\ Grounded
    BY DEF CreatedOnce
  <1>3. CASE Quiet
    <2>1. /\ DOMAIN messages' = DOMAIN messages
          /\ \A i \in DOMAIN messages :
                /\ messages'[i].conv = messages[i].conv
                /\ messages'[i].seq = messages[i].seq
      BY <1>1, <1>3, SameDomain DEF Quiet
    <2>2. /\ \A k \in DOMAIN outbox : k \in DOMAIN outbox' /\ outbox'[k] = outbox[k]
          /\ \A k \in DOMAIN outbox' :
                outbox'[k].type = "message.created" => k \in DOMAIN outbox
      BY <1>1, <1>3, QuietEvents DEF Quiet, Shapes
    <2>3. ASSUME NEW i \in DOMAIN messages' PROVE Announced(i)'
      <3>1. PICK k \in DOMAIN outbox :
                  /\ IsCreated(k) /\ outbox[k].msg = i
                  /\ outbox[k].seq = messages[i].seq
                  /\ outbox[k].conv = messages[i].conv
                  /\ \A m \in DOMAIN outbox :
                        IsCreated(m) /\ outbox[m].msg = i => m = k
        BY <1>2, <2>1
      <3>2. QED
        BY <2>1, <2>2, <3>1 DEF IsCreated
    <2>4. Grounded'
      BY <1>2, <2>1, <2>2 DEF IsCreated
    <2>5. QED
      BY <2>3, <2>4 DEF CreatedOnce
  <1>4. CASE \E cmd \in Commands, bot \in BOOLEAN : Creates(cmd, bot)
    <2>1. PICK cmd \in Commands, bot \in BOOLEAN : Creates(cmd, bot)
      BY <1>4
    <2>2. PICK n :
             /\ n = Len(messages) + 1
             /\ DOMAIN messages' = DOMAIN messages \cup {n}
             /\ n \notin DOMAIN messages
             /\ \A i \in DOMAIN messages : messages'[i] = messages[i]
             /\ messages'[n].conv = cmd.conv
             /\ messages'[n].seq = lastSequence[cmd.conv] + 1
      BY <1>1, <2>1, NewMessage
    <2>3. PICK e :
             /\ DOMAIN outbox' = DOMAIN outbox \cup {e}
             /\ e \notin DOMAIN outbox
             /\ \A k \in DOMAIN outbox : outbox'[k] = outbox[k]
             /\ outbox'[e].type = "message.created"
             /\ outbox'[e].msg = n
             /\ outbox'[e].conv = cmd.conv
             /\ outbox'[e].seq = lastSequence[cmd.conv] + 1
      BY <1>1, <2>1, <2>2, NewCreated
    <2>4. ASSUME NEW i \in DOMAIN messages PROVE Announced(i)'
      <3>1. PICK k \in DOMAIN outbox :
                  /\ IsCreated(k) /\ outbox[k].msg = i
                  /\ outbox[k].seq = messages[i].seq
                  /\ outbox[k].conv = messages[i].conv
                  /\ \A m \in DOMAIN outbox :
                        IsCreated(m) /\ outbox[m].msg = i => m = k
        BY <1>2
      <3>2. QED
        BY <2>2, <2>3, <3>1 DEF IsCreated
    <2>5. Announced(n)'
      <3>1. \A k \in DOMAIN outbox : IsCreated(k) => outbox[k].msg # n
        BY <1>2, <2>2
      <3>2. /\ IsCreated(e)' /\ outbox'[e].msg = n
            /\ outbox'[e].seq = messages'[n].seq
            /\ outbox'[e].conv = messages'[n].conv
            /\ e \in DOMAIN outbox'
        BY <2>2, <2>3 DEF IsCreated
      <3>3. \A m \in DOMAIN outbox' : IsCreated(m)' /\ outbox'[m].msg = n => m = e
        BY <2>3, <3>1 DEF IsCreated
      <3>4. QED
        BY <3>2, <3>3
    <2>6. Grounded'
      BY <1>2, <2>2, <2>3 DEF IsCreated
    <2> HIDE DEF Announced
    <2>7. \A i \in DOMAIN messages' : Announced(i)'
      BY <2>2, <2>4, <2>5
    <2>8. QED
      BY <2>6, <2>7 DEF CreatedOnce, Announced
  <1>5. QED
    BY <1>3, <1>4, StepKinds

(* What CreatedOnce and SequencesDense say together: no announced sequence *)
(* is beyond the end of its conversation.                                  *)
LEMMA AnnouncedWithin ==
    ASSUME SequencesDense, CreatedOnce
    PROVE  \A k \in DOMAIN outbox : IsCreated(k) =>
              outbox[k].seq \in 1 .. lastSequence[outbox[k].conv]
  BY DEF SequencesDense, CreatedOnce

LEMMA CreatedInOrderStep ==
    /\ Typed /\ SequencesDense /\ CreatedOnce /\ CreatedInOrder
    /\ [Next]_vars
    => CreatedInOrder'
  <1> SUFFICES ASSUME Typed, SequencesDense, CreatedOnce, CreatedInOrder,
                      [Next]_vars
               PROVE  CreatedInOrder'
    OBVIOUS
  <1>1. Shapes /\ Shapes'
    BY NextShapes
  <1>2. CASE Quiet
    <2>1. /\ \A k \in DOMAIN outbox : outbox'[k] = outbox[k]
          /\ \A k \in DOMAIN outbox' :
                outbox'[k].type = "message.created" => k \in DOMAIN outbox
      BY <1>1, <1>2, QuietEvents DEF Quiet, Shapes
    <2>2. QED
      BY <2>1 DEF CreatedInOrder, IsCreated
  <1>3. CASE \E cmd \in Commands, bot \in BOOLEAN : Creates(cmd, bot)
    <2>1. PICK cmd \in Commands, bot \in BOOLEAN : Creates(cmd, bot)
      BY <1>3
    <2>2. PICK e :
             /\ DOMAIN outbox' = DOMAIN outbox \cup {e}
             /\ \A k \in DOMAIN outbox : outbox'[k] = outbox[k] /\ ~(e < k)
             /\ ~(e < e)
             /\ outbox'[e].conv = cmd.conv
             /\ outbox'[e].seq = lastSequence[cmd.conv] + 1
      BY <1>1, <2>1, NewCreated
    <2>3. lastSequence[cmd.conv] \in Nat
      BY <2>1, CreatedRow
    <2>4. \A k \in DOMAIN outbox : IsCreated(k) /\ outbox[k].conv = cmd.conv
                                   => outbox[k].seq < lastSequence[cmd.conv] + 1
      BY <2>3, AnnouncedWithin
    <2>5. SUFFICES ASSUME NEW j \in DOMAIN outbox', NEW k \in DOMAIN outbox',
                          j < k, IsCreated(j)', IsCreated(k)',
                          outbox'[j].conv = outbox'[k].conv
                   PROVE  outbox'[j].seq < outbox'[k].seq
      BY DEF CreatedInOrder
    <2>6. j \in DOMAIN outbox
      BY <2>2, <2>5
    <2>7. CASE k = e
      BY <2>2, <2>4, <2>5, <2>6, <2>7 DEF IsCreated
    <2>8. CASE k \in DOMAIN outbox
      BY <2>2, <2>5, <2>6, <2>8 DEF CreatedInOrder, IsCreated
    <2>9. QED
      BY <2>2, <2>7, <2>8
  <1>4. QED
    BY <1>2, <1>3, StepKinds

(* The parts of the log invariant, inductive together.                     *)
LogInv == /\ Typed /\ SequencesDense /\ ClientMessageIdUnique
          /\ CreatedOnce /\ CreatedInOrder

LEMMA InitLog == Init => LogInv
  <1> SUFFICES ASSUME Init PROVE LogInv
    OBVIOUS
  <1>1. messages = <<>> /\ outbox = <<>> /\ DOMAIN messages = {} /\ DOMAIN outbox = {}
    BY DEF Init
  <1>2. \A c \in Conversations : 1 .. lastSequence[c] = {}
    BY DEF Init
  <1>3. SequencesDense
    BY <1>1, <1>2 DEF SequencesDense
  <1>4. ClientMessageIdUnique /\ CreatedOnce /\ CreatedInOrder
    BY <1>1 DEF ClientMessageIdUnique, CreatedOnce, CreatedInOrder
  <1>5. QED
    BY <1>3, <1>4, InitTyped DEF LogInv

LEMMA NextLog == LogInv /\ [Next]_vars => LogInv'
  BY NextTyped, DenseStep, UniqueStep, CreatedOnceStep, CreatedInOrderStep
  DEF LogInv

LEMMA LogInvariant == Spec => []LogInv
  BY InitLog, NextLog, PTL DEF Spec

(* However many replicas handle however many copies of a command, and      *)
(* wherever they crash, the messages of a conversation carry exactly the   *)
(* sequences 1..lastSequence, each once (messages.ts:121-170).             *)
THEOREM DenseSequences == Spec => []SequencesDense
  BY LogInvariant, PTL DEF LogInv

(* A clientMessageId is stored at most once (messages.ts:190-207).         *)
THEOREM StoredOnce == Spec => []ClientMessageIdUnique
  BY LogInvariant, PTL DEF LogInv

(* Each message has exactly one message.created row, with its sequence and *)
(* conversation (messages.ts:157-165).                                     *)
THEOREM AnnouncedOnce == Spec => []CreatedOnce
  BY LogInvariant, PTL DEF LogInv

(* The message.created rows of a conversation enter the outbox in sequence *)
(* order, whichever replicas write them (messages.ts:124-165).             *)
THEOREM AnnouncedInOrder == Spec => []CreatedInOrder
  BY LogInvariant, PTL DEF LogInv

LEMMA HistoryStep == ASSUME Typed, [Next]_vars PROVE HistoryKept
  <1>1. Shapes /\ Shapes'
    BY NextShapes
  <1>2. CASE Quiet
    BY <1>1, <1>2, QuietEvents DEF Shapes, Quiet, SameRows, HistoryKept
  <1>3. CASE \E cmd \in Commands, bot \in BOOLEAN : Creates(cmd, bot)
    <2>1. PICK cmd \in Commands, bot \in BOOLEAN : Creates(cmd, bot)
      BY <1>3
    <2>2. /\ Len(messages') = Len(messages) + 1
          /\ \A i \in 1 .. Len(messages) : messages'[i] = messages[i]
      BY <2>1, CreatedRow
    <2>3. /\ Len(outbox') = Len(outbox) + 1
          /\ \A k \in 1 .. Len(outbox) : outbox'[k] = outbox[k]
      BY <2>1, CreatedEvent
    <2>4. QED
      BY <1>1, <2>2, <2>3 DEF Shapes, HistoryKept
  <1>4. QED
    BY <1>2, <1>3, StepKinds

(* Stored messages keep their identity, are never undeleted, and outbox    *)
(* rows are only appended.                                                 *)
THEOREM AppendOnly == Spec => [][HistoryKept]_vars
  <1>1. Spec => []Typed
    BY LogInvariant, PTL DEF LogInv
  <1>2. QED
    BY <1>1, HistoryStep, PTL DEF Spec
-----------------------------------------------------------------------------
Later == {"post", "ack"}

(* A message.send whose transaction is over is stored.                     *)
Kept == \A w \in Workers : pc[w] \in Later /\ job[w].type = "message.send"
                           => Stored(job[w])

LEMMA StoredStays ==
    ASSUME Typed, [Next]_vars, NEW cmd, Stored(cmd) PROVE Stored(cmd)'
  <1>1. Shapes /\ Shapes'
    BY NextShapes
  <1>2. PICK i \in DOMAIN messages :
           messages[i].cmid = cmd.cmid /\ messages[i].conv = cmd.conv
    BY DEF Stored
  <1>3. CASE Quiet
    BY <1>1, <1>2, <1>3, SameDomain DEF Quiet, Stored
  <1>4. CASE \E c \in Commands, bot \in BOOLEAN : Creates(c, bot)
    <2>1. i \in DOMAIN messages' /\ messages'[i] = messages[i]
      BY <1>1, <1>2, <1>4, NewMessage
    <2>2. QED
      BY <1>2, <2>1 DEF Stored
  <1>5. QED
    BY <1>3, <1>4, StepKinds

(* After its transaction the command of TxSend is stored.                  *)
LEMMA TxSendStores ==
    ASSUME Typed, [Next]_vars, NEW w \in Workers, TxSend(w) PROVE Stored(job[w])'
  <1>1. Shapes /\ Shapes'
    BY NextShapes
  <1>2. job[w] \in Commands /\ job[w]' = job[w]
    BY DEF TxSend, Goto, At, Typed, TypeOK, WorkerOK
  <1>3. Creates(job[w], FALSE)
    BY DEF Creates, TxSend, At, Typed, TypeOK, WorkerOK, Checked
  <1>4. PICK n : /\ n \in DOMAIN messages'
                 /\ messages'[n].cmid = job[w].cmid
                 /\ messages'[n].conv = job[w].conv
    BY <1>1, <1>2, <1>3, NewMessage
  <1>5. QED
    BY <1>2, <1>4 DEF Stored

(* How a handler can be past its transaction after a step.                 *)
Arrives(w) ==
    pc'[w] \in Later =>
       \/ pc[w] \in Later /\ job'[w] = job[w]
       \/ job'[w] = job[w] /\ job[w].type # "message.send"
       \/ TxSend(w)

(* A step of replica w leaves the others where they are.                   *)
LEMMA OthersArrive ==
    ASSUME Typed, NEW w \in Workers, NEW v \in Workers, v # w,
           \/ Handle(w)
           \/ Fail(w) \/ Crash(w) \/ Stop(w) \/ Exit(w) \/ Restart(w)
    PROVE  pc'[v] = pc[v] /\ job'[v] = job[v]
  <1>1. \/ pc' = pc /\ job' = job
        \/ \E p, j : /\ pc' = [pc EXCEPT ![w] = p]
                     /\ job' = job \/ job' = [job EXCEPT ![w] = j]
    <2>1. CASE Handle(w)
      BY <2>1 DEF Handle, DropInvalid, Ack, CheckSend, TxSend, TxSendDuplicate,
         PostSend, CheckBotSend, TxBotSend, TxBotSendDuplicate, CheckChange,
         TxEdit, TxDelete, TxAddReaction, TxRemoveReaction, TxReactionNoop,
         CheckReceipt, TxRead, TxDelivered, TxReceiptStale, PostRead, Commit,
         Return, Puback, Nack, Goto
    <2>2. CASE Fail(w) \/ Crash(w) \/ Stop(w) \/ Exit(w) \/ Restart(w)
      BY <2>2 DEF Fail, Crash, Stop, Exit, Restart, Leave, Nack
    <2>3. QED
      BY <2>1, <2>2
  <1>2. QED
    BY <1>1 DEF Typed, TypeOK, WorkerOK

LEMMA HandlerArrives ==
    ASSUME Typed, NEW w \in Workers,
           \/ Handle(w)
           \/ Fail(w) \/ Crash(w) \/ Stop(w) \/ Exit(w) \/ Restart(w)
    PROVE  Arrives(w)
  <1>1. /\ pc \in [Workers -> {"idle", "check", "tx", "post", "ack"}]
        /\ job \in [Workers -> Commands \cup {NoCommand}]
    BY DEF Typed, TypeOK, WorkerOK
  <1>2. CASE TxSend(w)
    BY <1>2 DEF Arrives
  <1>3. CASE DropInvalid(w) \/ Ack(w) \/ TxBotSendDuplicate(w)
             \/ TxReactionNoop(w) \/ TxReceiptStale(w) \/ TxSendDuplicate(w)
    <2>1. Puback(w) \/ Nack(w)
      BY <1>3 DEF DropInvalid, Ack, TxBotSendDuplicate, TxReactionNoop,
         TxReceiptStale, TxSendDuplicate, Return
    <2>2. QED
      BY <1>1, <2>1 DEF Arrives, Later, Puback, Nack
  <1>4. CASE CheckSend(w) \/ CheckBotSend(w) \/ CheckChange(w) \/ CheckReceipt(w)
    <2>1. Goto(w, "tx") \/ Puback(w)
      BY <1>4 DEF CheckSend, CheckBotSend, CheckChange, CheckReceipt, Return
    <2>2. QED
      BY <1>1, <2>1 DEF Arrives, Later, Puback, Goto
  <1>5. CASE PostSend(w) \/ PostRead(w)
    BY <1>1, <1>5 DEF PostSend, PostRead, Arrives, Later, At, Goto
  <1>6. CASE TxBotSend(w) \/ TxEdit(w) \/ TxDelete(w) \/ TxAddReaction(w)
             \/ TxRemoveReaction(w) \/ TxRead(w) \/ TxDelivered(w)
    <2>1. job' = job /\ job[w].type # "message.send"
      BY <1>6 DEF TxBotSend, TxEdit, TxDelete, TxAddReaction, TxRemoveReaction,
         TxRead, TxDelivered, Commit, At, Goto
    <2>2. QED
      BY <2>1 DEF Arrives
  <1>7. CASE Fail(w) \/ Crash(w) \/ Stop(w) \/ Exit(w) \/ Restart(w)
    <2>1. Nack(w) \/ (pc' = pc /\ job' = job)
      BY <1>7 DEF Fail, Crash, Stop, Exit, Restart, Leave
    <2>2. QED
      BY <1>1, <2>1 DEF Arrives, Later, Nack
  <1>8. QED
    BY <1>2, <1>3, <1>4, <1>5, <1>6, <1>7 DEF Handle

LEMMA KeptStep == Typed /\ Kept /\ [Next]_vars => Kept'
  <1> SUFFICES ASSUME Typed, Kept, [Next]_vars PROVE Kept'
    OBVIOUS
  <1>1. \A v \in Workers : Arrives(v)
    <2>1. CASE UNCHANGED <<pc, job>>
      BY <2>1 DEF Arrives
    <2>2. CASE \E w \in Workers, cmd \in Commands : Deliver(w, cmd)
      <3>1. PICK w \in Workers, cmd \in Commands : Deliver(w, cmd)
        BY <2>2
      <3>2. \A v \in Workers : pc'[v] \in Later => pc'[v] = pc[v] /\ job'[v] = job[v]
        BY <3>1 DEF Deliver, Typed, TypeOK, WorkerOK, Later
      <3>3. QED
        BY <3>2 DEF Arrives
    <2>3. CASE \E w \in Workers : \/ Handle(w)
                                  \/ Fail(w) \/ Crash(w) \/ Stop(w) \/ Exit(w)
                                  \/ Restart(w)
      <3>1. PICK w \in Workers : \/ Handle(w)
                                 \/ Fail(w) \/ Crash(w) \/ Stop(w) \/ Exit(w)
                                 \/ Restart(w)
        BY <2>3
      <3>2. SUFFICES ASSUME NEW v \in Workers PROVE Arrives(v)
        OBVIOUS
      <3>3. CASE v = w
        BY <3>1, <3>3, HandlerArrives
      <3>4. CASE v # w
        BY <3>1, <3>4, OthersArrive DEF Arrives
      <3>5. QED
        BY <3>3, <3>4
    <2>4. QED
      BY <2>1, <2>2, <2>3 DEF Next, vars, workerVars, Publish, DeleteConversation,
         AddMembers, RemoveMember, ApiCall
  <1>2. SUFFICES ASSUME NEW v \in Workers, pc'[v] \in Later,
                        job'[v].type = "message.send"
                 PROVE  Stored(job[v])'
    BY DEF Kept
  <1>3. CASE pc[v] \in Later /\ job'[v] = job[v]
    <2>1. Stored(job[v])
      BY <1>2, <1>3 DEF Kept
    <2>2. QED
      BY <1>3, <2>1, StoredStays DEF Stored
  <1>4. CASE TxSend(v)
    BY <1>4, TxSendStores
  <1>5. QED
    BY <1>1, <1>2, <1>3, <1>4 DEF Arrives

(* A send that is acknowledged in this step is stored already or rejected  *)
(* in this step.                                                           *)
LEMMA AckedStep ==
    ASSUME Typed, Kept, [Next]_vars
    PROVE  /\ rejections \subseteq rejections'
           /\ \A cmd \in acked' : \/ cmd \in acked
                                  \/ cmd.type # "message.send"
                                  \/ Stored(cmd)
                                  \/ cmd \in rejections'
  <1>1. CASE UNCHANGED <<acked, rejections>>
    BY <1>1
  <1>2. CASE \E w \in Workers : Handle(w)
    <2>1. PICK w \in Workers : Handle(w)
      BY <1>2
    <2>2. rejections \subseteq rejections'
      BY <2>1 DEF Handle, DropInvalid, Ack, CheckSend, TxSend, TxSendDuplicate,
         PostSend, CheckBotSend, TxBotSend, TxBotSendDuplicate, CheckChange,
         TxEdit, TxDelete, TxAddReaction, TxRemoveReaction, TxReactionNoop,
         CheckReceipt, TxRead, TxDelivered, TxReceiptStale, PostRead, Commit
    <2>3. CASE acked' = acked
      BY <2>2, <2>3
    <2>4. CASE CheckSend(w)
      BY <2>2, <2>4 DEF CheckSend, Return, Puback, Goto
    <2>5. CASE TxSendDuplicate(w)
      <3>1. acked' = acked \/ (acked' = acked \cup {job[w]} /\ Stored(job[w]))
        BY <2>5 DEF TxSendDuplicate, Puback, Nack, SameConversation, Stored
      <3>2. QED
        BY <2>2, <3>1
    <2>6. CASE Ack(w)
      <3>1. acked' = acked \cup {job[w]} /\ pc[w] \in Later
        BY <2>6 DEF Ack, Return, Puback, Later
      <3>2. QED
        BY <2>2, <3>1 DEF Kept
    <2>7. CASE DropInvalid(w) \/ CheckBotSend(w) \/ CheckChange(w)
               \/ CheckReceipt(w) \/ TxBotSendDuplicate(w)
               \/ TxReactionNoop(w) \/ TxReceiptStale(w)
      <3>1. job[w].type # "message.send"
        BY <2>7 DEF DropInvalid, CheckBotSend, CheckChange, CheckReceipt,
           TxBotSendDuplicate, TxReactionNoop, TxReceiptStale, At
      <3>2. acked' = acked \/ acked' = acked \cup {job[w]}
        BY <2>7 DEF DropInvalid, CheckBotSend, CheckChange, CheckReceipt,
           TxBotSendDuplicate, TxReactionNoop, TxReceiptStale, Return, Puback, Goto
      <3>3. QED
        BY <2>2, <3>1, <3>2
    <2>8. CASE TxSend(w) \/ PostSend(w) \/ TxBotSend(w) \/ TxEdit(w)
               \/ TxDelete(w) \/ TxAddReaction(w) \/ TxRemoveReaction(w)
               \/ TxRead(w) \/ TxDelivered(w) \/ PostRead(w)
      BY <2>3, <2>8 DEF TxSend, PostSend, TxBotSend, TxEdit, TxDelete,
         TxAddReaction, TxRemoveReaction, TxRead, TxDelivered, PostRead, Commit, Goto
    <2>9. QED
      BY <2>1, <2>4, <2>5, <2>6, <2>7, <2>8 DEF Handle
  <1>3. QED
    BY <1>1, <1>2 DEF Next, vars, brokerVars, Publish, Deliver, Fail, Crash, Stop,
       Exit, Restart, Leave, Nack, DeleteConversation, AddMembers, RemoveMember,
       ApiCall

SettleInv == LogInv /\ Kept /\ NoSilentLoss

LEMMA NextSettle == SettleInv /\ [Next]_vars => SettleInv'
  <1> SUFFICES ASSUME LogInv, Kept, NoSilentLoss, [Next]_vars PROVE SettleInv'
    BY DEF SettleInv
  <1>1. Typed
    BY DEF LogInv
  <1>2. LogInv' /\ Kept'
    BY <1>1, NextLog, KeptStep
  <1>3. NoSilentLoss'
    <2> SUFFICES ASSUME NEW cmd \in acked', cmd.type = "message.send"
                 PROVE  Stored(cmd)' \/ cmd \in rejections'
      BY DEF NoSilentLoss
    <2>1. Stored(cmd) \/ cmd \in rejections'
      BY <1>1, AckedStep DEF NoSilentLoss
    <2>2. QED
      BY <1>1, <2>1, StoredStays
  <1>4. QED
    BY <1>2, <1>3 DEF SettleInv

LEMMA InitSettle == Init => SettleInv
  BY InitLog DEF Init, SettleInv, Kept, NoSilentLoss, Later

(* The deferred PUBACK loses nothing: a message.send the broker was told   *)
(* to forget is stored or was rejected, with any number of crashes, errors *)
(* and shutdowns at any step (packages/mqtt/src/index.ts:65-87).           *)
THEOREM NothingLost == Spec => []NoSilentLoss
  <1>1. Spec => []SettleInv
    BY InitSettle, NextSettle, PTL DEF Spec
  <1>2. QED
    BY <1>1, PTL DEF SettleInv

-----------------------------------------------------------------------------
(* Receipts *)

Receipts == {"receipt.read", "receipt.delivered"}

(* The sequence a receipt handler has accepted was within the conversation *)
(* when it was read, and the conversation has only grown since.            *)
AcceptedBounded ==
    \A w \in Workers : pc[w] = "tx" /\ job[w].type \in Receipts
                       => accepted[w] <= lastSequence[job[w].conv]

LEMMA SequenceGrows ==
    ASSUME Typed, [Next]_vars
    PROVE  \A c \in Conversations : /\ lastSequence[c] \in Nat
                                    /\ lastSequence'[c] \in Nat
                                    /\ lastSequence'[c] >= lastSequence[c]
  <1>1. Shapes /\ Shapes'
    BY NextShapes
  <1>2. CASE Quiet
    BY <1>1, <1>2 DEF Quiet, SameRows, Shapes
  <1>3. CASE \E cmd \in Commands, bot \in BOOLEAN : Creates(cmd, bot)
    <2>1. PICK c \in Conversations :
             lastSequence' = [lastSequence EXCEPT ![c] = lastSequence[c] + 1]
      BY <1>3, CreatedRow
    <2>2. QED
      BY <1>1, <2>1 DEF Shapes
  <1>4. QED
    BY <1>2, <1>3, StepKinds

(* How a receipt handler can be before its transaction after a step.       *)
Opens(w) ==
    pc'[w] = "tx" /\ job'[w].type \in Receipts =>
       \/ pc[w] = "tx" /\ job'[w] = job[w] /\ accepted'[w] = accepted[w]
       \/ /\ job'[w] = job[w]
          /\ accepted'[w] = Clamp(job[w].seq, lastSequence[job[w].conv])

LEMMA HandlerOpens ==
    ASSUME Typed, NEW w \in Workers,
           \/ Handle(w)
           \/ Fail(w) \/ Crash(w) \/ Stop(w) \/ Exit(w) \/ Restart(w)
    PROVE  /\ Opens(w)
           /\ \A v \in Workers \ {w} : accepted'[v] = accepted[v]
  <1>1. /\ pc \in [Workers -> {"idle", "check", "tx", "post", "ack"}]
        /\ job \in [Workers -> Commands \cup {NoCommand}]
        /\ accepted \in [Workers -> Nat]
    BY DEF Typed, TypeOK, WorkerOK
  <1>2. CASE CheckReceipt(w)
    BY <1>1, <1>2 DEF CheckReceipt, Opens, Return, Puback, Goto
  <1>3. CASE CheckSend(w) \/ CheckBotSend(w) \/ CheckChange(w)
    <2>1. \/ Goto(w, "tx") /\ accepted' = accepted /\ job[w].type \notin Receipts
          \/ Puback(w)
      BY <1>3 DEF CheckSend, CheckBotSend, CheckChange, Return, At, Receipts
    <2>2. QED
      BY <1>1, <2>1 DEF Opens, Puback, Goto
  <1>4. CASE DropInvalid(w) \/ Ack(w) \/ TxBotSendDuplicate(w)
             \/ TxReactionNoop(w) \/ TxReceiptStale(w) \/ TxSendDuplicate(w)
    <2>1. Puback(w) \/ Nack(w)
      BY <1>4 DEF DropInvalid, Ack, TxBotSendDuplicate, TxReactionNoop,
         TxReceiptStale, TxSendDuplicate, Return
    <2>2. QED
      BY <1>1, <2>1 DEF Opens, Puback, Nack
  <1>5. CASE TxSend(w) \/ PostSend(w) \/ TxBotSend(w) \/ TxEdit(w)
             \/ TxDelete(w) \/ TxAddReaction(w) \/ TxRemoveReaction(w)
             \/ TxRead(w) \/ TxDelivered(w) \/ PostRead(w)
    <2>1. (Goto(w, "post") \/ Goto(w, "ack")) /\ accepted' = accepted
      BY <1>5 DEF TxSend, PostSend, TxBotSend, TxEdit, TxDelete, TxAddReaction,
         TxRemoveReaction, TxRead, TxDelivered, PostRead, Commit
    <2>2. QED
      BY <1>1, <2>1 DEF Opens, Goto
  <1>6. CASE Fail(w) \/ Crash(w) \/ Stop(w) \/ Exit(w) \/ Restart(w)
    <2>1. Nack(w) \/ (pc' = pc /\ job' = job /\ accepted' = accepted)
      BY <1>6 DEF Fail, Crash, Stop, Exit, Restart, Leave
    <2>2. QED
      BY <1>1, <2>1 DEF Opens, Nack
  <1>7. QED
    BY <1>2, <1>3, <1>4, <1>5, <1>6 DEF Handle

LEMMA AcceptedStep == Typed /\ AcceptedBounded /\ [Next]_vars => AcceptedBounded'
  <1> SUFFICES ASSUME Typed, AcceptedBounded, [Next]_vars PROVE AcceptedBounded'
    OBVIOUS
  <1>1. \A v \in Workers : Opens(v)
    <2>1. CASE UNCHANGED <<pc, job, accepted>>
      BY <2>1 DEF Opens
    <2>2. CASE \E w \in Workers, cmd \in Commands : Deliver(w, cmd)
      <3>1. PICK w \in Workers, cmd \in Commands : Deliver(w, cmd)
        BY <2>2
      <3>2. \A v \in Workers : pc'[v] = "tx" => /\ pc'[v] = pc[v] /\ job'[v] = job[v]
                                                /\ accepted'[v] = accepted[v]
        BY <3>1 DEF Deliver, Typed, TypeOK, WorkerOK
      <3>3. QED
        BY <3>2 DEF Opens
    <2>3. CASE \E w \in Workers : \/ Handle(w)
                                  \/ Fail(w) \/ Crash(w) \/ Stop(w) \/ Exit(w)
                                  \/ Restart(w)
      <3>1. PICK w \in Workers : \/ Handle(w)
                                 \/ Fail(w) \/ Crash(w) \/ Stop(w) \/ Exit(w)
                                 \/ Restart(w)
        BY <2>3
      <3>2. SUFFICES ASSUME NEW v \in Workers PROVE Opens(v)
        OBVIOUS
      <3>3. CASE v = w
        BY <3>1, <3>3, HandlerOpens
      <3>4. CASE v # w
        <4>1. pc'[v] = pc[v] /\ job'[v] = job[v] /\ accepted'[v] = accepted[v]
          BY <3>1, <3>4, OthersArrive, HandlerOpens
        <4>2. QED
          BY <4>1 DEF Opens
      <3>5. QED
        BY <3>3, <3>4
    <2>4. QED
      BY <2>1, <2>2, <2>3 DEF Next, vars, workerVars, Publish, DeleteConversation,
         AddMembers, RemoveMember, ApiCall
  <1>2. SUFFICES ASSUME NEW v \in Workers, pc'[v] = "tx", job'[v].type \in Receipts
                 PROVE  accepted'[v] <= lastSequence'[job'[v].conv]
    BY DEF AcceptedBounded
  <1>3. job'[v] = job[v]
    BY <1>1, <1>2 DEF Opens
  <1>4. job[v] \in Commands /\ job[v] # NoCommand
    <2>1. Typed'
      BY NextTyped
    <2>2. QED
      BY <1>2, <1>3, <2>1, CommandFields DEF Typed, TypeOK, WorkerOK
  <1>5. /\ job[v].conv \in Conversations /\ job[v].seq \in Nat
        /\ accepted[v] \in Nat
    BY <1>2, <1>3, <1>4, CommandFields DEF Receipts, Typed, TypeOK, WorkerOK
  <1>6. /\ lastSequence[job[v].conv] \in Nat /\ lastSequence'[job[v].conv] \in Nat
        /\ lastSequence'[job[v].conv] >= lastSequence[job[v].conv]
    BY <1>5, SequenceGrows
  <1>7. CASE pc[v] = "tx" /\ accepted'[v] = accepted[v]
    BY <1>2, <1>3, <1>5, <1>6, <1>7 DEF AcceptedBounded
  <1>8. CASE accepted'[v] = Clamp(job[v].seq, lastSequence[job[v].conv])
    BY <1>3, <1>5, <1>6, <1>8 DEF Clamp
  <1>9. QED
    BY <1>1, <1>2, <1>7, <1>8 DEF Opens

(* How a step can change the watermarks: it writes one entry.              *)
Advances(c, u, n, mark) == /\ u \in members[c] /\ members' = members
                           /\ mark < n /\ n <= lastSequence[c]
                           /\ lastSequence' = lastSequence
ReadStep(c, u, n) ==
    /\ lastRead' = [lastRead EXCEPT ![c][u] = n]
    /\ lastDelivered' = lastDelivered
    /\ Advances(c, u, n, lastRead[c][u])
DeliveredStep(c, u, n) ==
    /\ lastDelivered' = [lastDelivered EXCEPT ![c][u] = n]
    /\ lastRead' = lastRead
    /\ Advances(c, u, n, lastDelivered[c][u])
ForgetStep(c, u) ==
    /\ lastRead' = [lastRead EXCEPT ![c][u] = 0]
    /\ lastDelivered' = [lastDelivered EXCEPT ![c][u] = 0]
    /\ u \notin members'[c]
    /\ UNCHANGED chatVars

LEMMA MarkStep ==
    ASSUME Typed, AcceptedBounded, [Next]_vars
    PROVE  \/ UNCHANGED markVars
           \/ \E c \in Conversations, u \in Users, n \in Nat :
                 ReadStep(c, u, n) \/ DeliveredStep(c, u, n)
           \/ \E c \in Conversations, u \in Users : ForgetStep(c, u)
  <1>1. CASE \E w \in Workers : TxRead(w) \/ TxDelivered(w)
    <2>1. PICK w \in Workers : TxRead(w) \/ TxDelivered(w)
      BY <1>1
    <2>2. /\ job[w] \in Commands /\ job[w].type \in Receipts
          /\ job[w].user \in members[job[w].conv]
          /\ accepted[w] \in Nat
          /\ accepted[w] <= lastSequence[job[w].conv]
      BY <2>1 DEF TxRead, TxDelivered, At, Receipts, CompareAndAdvance,
         AcceptedBounded, Typed, TypeOK, WorkerOK
    <2>3. job[w].conv \in Conversations
      BY <2>2, CommandFields DEF Receipts
    <2>4. job[w].user \in Users
      BY <2>2, <2>3 DEF Typed, TypeOK, GroupOK
    <2>5. \/ ReadStep(job[w].conv, job[w].user, accepted[w])
          \/ DeliveredStep(job[w].conv, job[w].user, accepted[w])
      BY <2>1, <2>2 DEF TxRead, TxDelivered, ReadStep, DeliveredStep, Advances,
         CompareAndAdvance, Mark, At, groupVars, chatVars
    <2>6. QED
      BY <2>2, <2>3, <2>4, <2>5
  <1>2. CASE \E c \in Conversations, u \in Users : RemoveMember(c, u)
    <2>1. PICK c \in Conversations, u \in Users : RemoveMember(c, u)
      BY <1>2
    <2>2. u \notin members'[c]
      BY <2>1 DEF RemoveMember, Typed, TypeOK, GroupOK
    <2>3. QED
      BY <2>1, <2>2 DEF RemoveMember, ApiCall, ForgetStep
  <1>3. CASE \E w \in Workers : Handle(w) /\ ~(TxRead(w) \/ TxDelivered(w))
    BY <1>3 DEF Handle, DropInvalid, Ack, CheckSend, TxSend, TxSendDuplicate,
       PostSend, CheckBotSend, TxBotSend, TxBotSendDuplicate, CheckChange,
       TxEdit, TxDelete, TxAddReaction, TxRemoveReaction, TxReactionNoop,
       CheckReceipt, TxReceiptStale, PostRead, Commit, Return
  <1>4. QED
    BY <1>1, <1>2, <1>3 DEF Next, vars, Publish, Deliver, Fail, Crash, Stop, Exit,
       Restart, Leave, DeleteConversation, AddMembers

LEMMA BoundedStep ==
    Typed /\ AcceptedBounded /\ WatermarksBounded /\ [Next]_vars
       => WatermarksBounded'
  <1> SUFFICES ASSUME Typed, AcceptedBounded, WatermarksBounded, [Next]_vars
               PROVE  WatermarksBounded'
    OBVIOUS
  <1>1. /\ lastRead \in [Conversations -> [Users -> Nat]]
        /\ lastDelivered \in [Conversations -> [Users -> Nat]]
    BY DEF Typed, TypeOK, GroupOK
  <1>2. \A c \in Conversations : /\ lastSequence[c] \in Nat
                                 /\ lastSequence'[c] \in Nat
                                 /\ lastSequence'[c] >= lastSequence[c]
    BY SequenceGrows
  <1>3. \A c \in Conversations, u \in Users :
           /\ lastRead[c][u] \in Nat /\ lastDelivered[c][u] \in Nat
           /\ lastRead[c][u] <= lastSequence'[c]
           /\ lastDelivered[c][u] <= lastSequence'[c]
    BY <1>1, <1>2 DEF WatermarksBounded
  <1>4. CASE UNCHANGED markVars
    BY <1>3, <1>4 DEF markVars, WatermarksBounded
  <1>5. ASSUME NEW c \in Conversations, NEW u \in Users, NEW n \in Nat,
               ReadStep(c, u, n) \/ DeliveredStep(c, u, n)
        PROVE  WatermarksBounded'
    <2>1. n <= lastSequence'[c]
      BY <1>5 DEF ReadStep, DeliveredStep, Advances
    <2>2. CASE ReadStep(c, u, n)
      <3>1. \A d \in Conversations, v \in Users :
               lastRead'[d][v] = IF d = c /\ v = u THEN n ELSE lastRead[d][v]
        BY <1>1, <2>2, TableExcept DEF ReadStep
      <3>2. QED
        BY <1>3, <2>1, <2>2, <3>1 DEF ReadStep, WatermarksBounded
    <2>3. CASE DeliveredStep(c, u, n)
      <3>1. \A d \in Conversations, v \in Users :
               lastDelivered'[d][v] = IF d = c /\ v = u THEN n ELSE lastDelivered[d][v]
        BY <1>1, <2>3, TableExcept DEF DeliveredStep
      <3>2. QED
        BY <1>3, <2>1, <2>3, <3>1 DEF DeliveredStep, WatermarksBounded
    <2>4. QED
      BY <1>5, <2>2, <2>3
  <1>6. ASSUME NEW c \in Conversations, NEW u \in Users, ForgetStep(c, u)
        PROVE  WatermarksBounded'
    <2>1. \A d \in Conversations, v \in Users :
             /\ lastRead'[d][v] = IF d = c /\ v = u THEN 0 ELSE lastRead[d][v]
             /\ lastDelivered'[d][v] =
                   IF d = c /\ v = u THEN 0 ELSE lastDelivered[d][v]
      BY <1>1, <1>6, TableExcept DEF ForgetStep
    <2>2. QED
      BY <1>2, <1>3, <2>1 DEF WatermarksBounded
  <1>7. QED
    BY <1>4, <1>5, <1>6, MarkStep

ReceiptInv == LogInv /\ AcceptedBounded /\ WatermarksBounded

LEMMA ReceiptInvariant == Spec => []ReceiptInv
  <1>1. Init => ReceiptInv
    BY InitLog DEF Init, ReceiptInv, AcceptedBounded, WatermarksBounded
  <1>2. ReceiptInv /\ [Next]_vars => ReceiptInv'
    BY NextLog, AcceptedStep, BoundedStep DEF ReceiptInv, LogInv
  <1>3. QED
    BY <1>1, <1>2, PTL DEF Spec

(* No watermark passes the end of its conversation, whatever sequence a    *)
(* client claims and however stale the handler's read (receipts.ts:33-50). *)
THEOREM Bounded == Spec => []WatermarksBounded
  BY ReceiptInvariant, PTL DEF ReceiptInv

(* While a member stays, its watermarks never move backwards               *)
(* (receipts.ts:39-50, 109-117).                                           *)
THEOREM Monotone == Spec => [][WatermarksAdvance]_vars
  <1>1. ASSUME Typed, AcceptedBounded, [Next]_vars PROVE WatermarksAdvance
    <2>1. /\ lastRead \in [Conversations -> [Users -> Nat]]
          /\ lastDelivered \in [Conversations -> [Users -> Nat]]
      BY <1>1 DEF Typed, TypeOK, GroupOK
    <2>2. \A c \in Conversations, u \in Users :
             /\ lastRead[c][u] \in Nat /\ lastRead[c][u] >= lastRead[c][u]
             /\ lastDelivered[c][u] \in Nat
             /\ lastDelivered[c][u] >= lastDelivered[c][u]
      BY <2>1
    <2>3. CASE UNCHANGED markVars
      BY <2>2, <2>3 DEF markVars, WatermarksAdvance
    <2>4. ASSUME NEW c \in Conversations, NEW u \in Users, NEW n \in Nat,
                 ReadStep(c, u, n) \/ DeliveredStep(c, u, n)
          PROVE  WatermarksAdvance
      <3>1. CASE ReadStep(c, u, n)
        <4>1. /\ lastDelivered' = lastDelivered /\ n >= lastRead[c][u]
              /\ \A d \in Conversations, v \in Users :
                   lastRead'[d][v] = IF d = c /\ v = u THEN n ELSE lastRead[d][v]
          BY <2>1, <2>2, <3>1, TableExcept DEF ReadStep, Advances
        <4>2. QED
          BY <2>2, <4>1 DEF WatermarksAdvance
      <3>2. CASE DeliveredStep(c, u, n)
        <4>1. /\ lastRead' = lastRead /\ n >= lastDelivered[c][u]
              /\ \A d \in Conversations, v \in Users :
                   lastDelivered'[d][v] =
                      IF d = c /\ v = u THEN n ELSE lastDelivered[d][v]
          BY <2>1, <2>2, <3>2, TableExcept DEF DeliveredStep, Advances
        <4>2. QED
          BY <2>2, <4>1 DEF WatermarksAdvance
      <3>3. QED
        BY <2>4, <3>1, <3>2
    <2>5. ASSUME NEW c \in Conversations, NEW u \in Users, ForgetStep(c, u)
          PROVE  WatermarksAdvance
      <3>1. \A d \in Conversations, v \in Users : ~(d = c /\ v = u) =>
               /\ lastRead'[d][v] = lastRead[d][v]
               /\ lastDelivered'[d][v] = lastDelivered[d][v]
        BY <2>1, <2>5, TableExcept DEF ForgetStep
      <3>2. u \notin members'[c]
        BY <2>5 DEF ForgetStep
      <3>3. QED
        BY <2>2, <3>1, <3>2 DEF WatermarksAdvance
    <2>6. QED
      BY <1>1, <2>3, <2>4, <2>5, MarkStep
  <1>2. Spec => [](Typed /\ AcceptedBounded)
    BY ReceiptInvariant, PTL DEF ReceiptInv, LogInv
  <1>3. QED
    BY <1>1, <1>2, PTL DEF Spec

(* The log is sound whatever is retried, redelivered, raced for or rolled  *)
(* back by the replicas (messages.ts:121-207, receipts.ts:33-37).          *)
THEOREM SoundLog == Spec => []LogSound
  <1>1. Spec => [](/\ SequencesDense /\ ClientMessageIdUnique
                   /\ CreatedOnce /\ CreatedInOrder /\ WatermarksBounded)
    BY DenseSequences, StoredOnce, AnnouncedOnce, AnnouncedInOrder, Bounded, PTL
  <1>2. QED
    BY <1>1, PTL DEF LogSound

(* History is only appended to and watermarks only advance, whichever      *)
(* replica commits last.                                                   *)
THEOREM NoStepBack == Spec => NeverBack
  BY AppendOnly, Monotone, PTL DEF NeverBack

-----------------------------------------------------------------------------
(* Refinement *)

(* The entry at a sequence is the clientMessageId of the row stored there. *)
Entries == \A i \in DOMAIN messages :
              ClientIdAt(messages[i].conv, messages[i].seq) = messages[i].cmid

LEMMA EntryOf == SequencesDense => Entries
  <1> SUFFICES ASSUME SequencesDense, NEW i \in DOMAIN messages
               PROVE  ClientIdAt(messages[i].conv, messages[i].seq) = messages[i].cmid
    BY DEF Entries
  <1> DEFINE Here(j) == /\ messages[j].conv = messages[i].conv
                        /\ messages[j].seq = messages[i].seq
  <1>1. \A j \in DOMAIN messages : Here(j) => j = i
    BY DEF SequencesDense
  <1>2. (CHOOSE j \in DOMAIN messages : Here(j)) = i
    BY <1>1
  <1>3. QED
    BY <1>2 DEF ClientIdAt

LEMMA NextEntries == LogInv /\ [Next]_vars => Entries /\ Entries'
  BY EntryOf, NextLog, PTL DEF LogInv

(* Rows that stay keep their entries.                                      *)
LEMMA EntryStays ==
    ASSUME LogInv, [Next]_vars, NEW c \in Conversations,
           NEW n \in 1 .. lastSequence[c]
    PROVE  ClientIdAt(c, n)' = ClientIdAt(c, n)
  <1>1. Typed /\ SequencesDense
    BY DEF LogInv
  <1>2. Shapes /\ Shapes' /\ Entries /\ Entries'
    BY <1>1, NextShapes, NextEntries
  <1>3. PICK i \in DOMAIN messages : messages[i].conv = c /\ messages[i].seq = n
    BY <1>1 DEF SequencesDense
  <1>4. /\ i \in DOMAIN messages' /\ messages'[i].cmid = messages[i].cmid
        /\ messages'[i].conv = messages[i].conv /\ messages'[i].seq = messages[i].seq
    <2>1. CASE Quiet
      BY <1>2, <1>3, <2>1, SameDomain DEF Quiet
    <2>2. CASE \E cmd \in Commands, bot \in BOOLEAN : Creates(cmd, bot)
      BY <1>1, <1>2, <1>3, <2>2, NewMessage
    <2>3. QED
      BY <1>1, <2>1, <2>2, StepKinds
  <1>5. ClientIdAt(c, n) = messages[i].cmid
    BY <1>2, <1>3 DEF Entries
  <1>6. ClientIdAt(c, n)' = messages'[i].cmid
    BY <1>2, <1>3, <1>4 DEF Entries
  <1>7. QED
    BY <1>4, <1>5, <1>6

LEMMA LogUnchanged ==
    ASSUME LogInv, [Next]_vars, lastSequence' = lastSequence PROVE LogOf' = LogOf
  BY EntryStays DEF LogOf

(* The log is a sequence of clientMessageIds.                              *)
LEMMA LogShape ==
    ASSUME LogInv, NEW c \in Conversations
    PROVE  /\ LogOf[c] \in Seq(ClientMessageIds)
           /\ Len(LogOf[c]) = lastSequence[c]
           /\ lastSequence[c] \in Nat
           /\ \A n \in 1 .. lastSequence[c] :
                 /\ LogOf[c][n] = ClientIdAt(c, n)
                 /\ \E i \in DOMAIN messages : ClientIdAt(c, n) = messages[i].cmid
  <1>1. Typed /\ SequencesDense /\ Shapes /\ Entries
    BY TypedShapes, EntryOf DEF LogInv
  <1>2. lastSequence[c] \in Nat
    BY <1>1 DEF Shapes
  <1>3. \A n \in 1 .. lastSequence[c] : \E i \in DOMAIN messages :
           ClientIdAt(c, n) = messages[i].cmid
    BY <1>1 DEF SequencesDense, Entries
  <1>4. \A i \in DOMAIN messages : messages[i].cmid \in ClientMessageIds
    <2>1. messages \in Seq(Message)
      BY <1>1 DEF Typed, TypeOK, ChatOK
    <2>2. \A i \in DOMAIN messages : messages[i] \in Message
      BY <2>1
    <2>3. QED
      BY <2>2 DEF Message
  <1>5. LogOf[c] = [n \in 1 .. lastSequence[c] |-> ClientIdAt(c, n)]
    BY DEF LogOf
  <1>6. LogOf[c] \in [1 .. lastSequence[c] -> ClientMessageIds]
    BY <1>3, <1>4, <1>5
  <1>7. QED
    BY <1>2, <1>3, <1>5, <1>6

LogGood == \A c \in Conversations :
              /\ LogOf[c] \in Seq(ClientMessageIds)
              /\ Len(LogOf[c]) = lastSequence[c]
              /\ \A n \in 1 .. lastSequence[c] : LogOf[c][n] = ClientIdAt(c, n)

LEMMA LogIsGood == LogInv => LogGood
  BY LogShape DEF LogGood

LEMMA NextLogGood == LogInv /\ [Next]_vars => LogGood /\ LogGood'
  BY LogIsGood, NextLog, PTL

(* The transaction that creates a message says its clientMessageId.        *)
LEMMA LogAppended ==
    ASSUME LogInv, [Next]_vars, NEW cmd \in Commands, NEW bot \in BOOLEAN,
           Creates(cmd, bot)
    PROVE  /\ cmd.conv \in Conversations
           /\ LogOf' = [LogOf EXCEPT ![cmd.conv] = Append(@, cmd.cmid)]
  <1> DEFINE c == cmd.conv
  <1>1. Typed /\ Shapes /\ Shapes' /\ Entries'
    BY NextShapes, NextEntries DEF LogInv
  <1>2. PICK last \in Nat :
           /\ c \in Conversations /\ cmd.cmid \in ClientMessageIds
           /\ last = lastSequence[c]
           /\ lastSequence' = [lastSequence EXCEPT ![c] = last + 1]
    <2>1. /\ c \in Conversations /\ lastSequence[c] \in Nat
          /\ lastSequence' = [lastSequence EXCEPT ![c] = lastSequence[c] + 1]
      BY <1>1, CreatedRow
    <2>2. cmd.cmid \in ClientMessageIds
      BY CommandFields DEF Creates
    <2>3. QED
      BY <2>1, <2>2
  <1>3. PICK m \in DOMAIN messages' : /\ messages'[m].cmid = cmd.cmid
                                      /\ messages'[m].conv = c
                                      /\ messages'[m].seq = last + 1
    BY <1>1, <1>2, NewMessage
  <1>4. ClientIdAt(c, last + 1)' = cmd.cmid
    BY <1>1, <1>3 DEF Entries
  <1>5. LogGood /\ LogGood'
    BY NextLogGood
  <1>6. lastSequence \in [Conversations -> Nat]
    BY <1>1 DEF Shapes
  <1> HIDE DEF c
  <1>7. LogOf'[c] = Append(LogOf[c], cmd.cmid)
    <2>1. LogOf[c] \in Seq(ClientMessageIds) /\ Len(LogOf[c]) = last
      BY <1>2, <1>5 DEF LogGood
    <2>2. /\ Append(LogOf[c], cmd.cmid) \in Seq(ClientMessageIds)
          /\ Len(Append(LogOf[c], cmd.cmid)) = last + 1
          /\ \A n \in 1 .. last : Append(LogOf[c], cmd.cmid)[n] = LogOf[c][n]
          /\ Append(LogOf[c], cmd.cmid)[last + 1] = cmd.cmid
      BY <1>2, <2>1, AppendProperties
    <2>3. lastSequence'[c] = last + 1
      BY <1>2, <1>6
    <2>4. /\ LogOf'[c] \in Seq(ClientMessageIds) /\ Len(LogOf'[c]) = last + 1
          /\ \A n \in 1 .. last + 1 : LogOf'[c][n] = ClientIdAt(c, n)'
      BY <1>2, <1>5, <2>3 DEF LogGood
    <2>5. \A n \in 1 .. last : LogOf'[c][n] = LogOf[c][n]
      <3> SUFFICES ASSUME NEW n \in 1 .. last PROVE LogOf'[c][n] = LogOf[c][n]
        OBVIOUS
      <3>1. ClientIdAt(c, n)' = ClientIdAt(c, n)
        BY <1>2, EntryStays
      <3>2. LogOf[c][n] = ClientIdAt(c, n)
        BY <1>2, <1>5 DEF LogGood
      <3>3. n \in 1 .. last + 1
        BY <1>2
      <3>4. QED
        BY <2>4, <3>1, <3>2, <3>3
    <2>6. LogOf'[c][last + 1] = cmd.cmid
      BY <1>2, <1>4, <2>4
    <2>7. \A n \in 1 .. last + 1 : LogOf'[c][n] = Append(LogOf[c], cmd.cmid)[n]
      <3> SUFFICES ASSUME NEW n \in 1 .. last + 1
                   PROVE  LogOf'[c][n] = Append(LogOf[c], cmd.cmid)[n]
        OBVIOUS
      <3>1. CASE n = last + 1
        BY <2>2, <2>6, <3>1
      <3>2. CASE n \in 1 .. last
        BY <2>2, <2>5, <3>2
      <3>3. n = last + 1 \/ n \in 1 .. last
        BY <1>2
      <3>4. QED
        BY <3>1, <3>2, <3>3
    <2>8. QED
      BY <2>2, <2>4, <2>7, SeqEqual
  <1>8. \A d \in Conversations \ {c} : LogOf'[d] = LogOf[d]
    <2> SUFFICES ASSUME NEW d \in Conversations, d # c PROVE LogOf'[d] = LogOf[d]
      OBVIOUS
    <2>1. lastSequence'[d] = lastSequence[d]
      BY <1>2, <1>6
    <2>2. \A n \in 1 .. lastSequence[d] : ClientIdAt(d, n)' = ClientIdAt(d, n)
      BY EntryStays
    <2>3. QED
      BY <2>1, <2>2 DEF LogOf
  <1>9. DOMAIN LogOf = Conversations /\ DOMAIN LogOf' = Conversations
        /\ LogOf = [d \in Conversations |-> LogOf[d]]
        /\ LogOf' = [d \in Conversations |-> LogOf'[d]]
    BY DEF LogOf
  <1>10. LogOf' = [LogOf EXCEPT ![c] = Append(@, cmd.cmid)]
    BY <1>2, <1>7, <1>8, <1>9
  <1>11. QED
    BY <1>2, <1>10 DEF c

LEMMA RefineInit == Init => Abstract!Init
  <1> SUFFICES ASSUME Init PROVE Abstract!Init
    OBVIOUS
  <1>1. \A c \in Conversations : LogOf[c] = <<>>
    BY DEF Init, LogOf
  <1>2. LogOf = [c \in Conversations |-> <<>>]
    BY <1>1 DEF LogOf
  <1>3. QED
    BY <1>2 DEF Init, Abstract!Init

LEMMA RefineNext ==
    ReceiptInv /\ [Next]_vars => [Abstract!Next]_(Abstract!logVars)
  <1> SUFFICES ASSUME ReceiptInv, [Next]_vars
               PROVE  Abstract!Next \/ UNCHANGED Abstract!logVars
    OBVIOUS
  <1>1. LogInv /\ Typed /\ AcceptedBounded
    BY DEF ReceiptInv, LogInv
  <1>2. Shapes
    BY <1>1, TypedShapes
  <1>3. ASSUME NEW cmd \in Commands, NEW bot \in BOOLEAN, Creates(cmd, bot)
        PROVE  Abstract!Next \/ UNCHANGED Abstract!logVars
    <2>1. /\ cmd.conv \in Conversations
          /\ LogOf' = [LogOf EXCEPT ![cmd.conv] = Append(@, cmd.cmid)]
      BY <1>1, <1>3, LogAppended
    <2>2. Abstract!Fresh(cmd.cmid)
      <3> SUFFICES ASSUME NEW c \in Conversations, NEW n \in DOMAIN LogOf[c]
                   PROVE  LogOf[c][n] # cmd.cmid
        BY DEF Abstract!Fresh
      <3>1. n \in 1 .. lastSequence[c]
        BY DEF LogOf
      <3>2. \E i \in DOMAIN messages : LogOf[c][n] = messages[i].cmid
        BY <1>1, <3>1, LogShape
      <3>3. \A i \in DOMAIN messages : messages[i].cmid # cmd.cmid
        BY <1>3 DEF Creates, CreateMessage, P2002
      <3>4. QED
        BY <3>2, <3>3
    <2>3. lastRead' = lastRead
      <3>1. lastSequence'[cmd.conv] # lastSequence[cmd.conv] /\ ~UNCHANGED chatVars
        BY <1>1, <1>2, <1>3, <2>1, CreatedRow DEF Shapes, chatVars
      <3>2. CASE UNCHANGED markVars
        BY <3>2 DEF markVars
      <3>3. QED
        BY <1>1, <3>1, <3>2, MarkStep
        DEF ReadStep, DeliveredStep, Advances, ForgetStep
    <2>4. cmd.cmid \in ClientMessageIds
      BY <1>3, CommandFields DEF Creates
    <2>5. Abstract!Say(cmd.conv, cmd.cmid)
      BY <2>1, <2>2, <2>3 DEF Abstract!Say
    <2>6. QED
      BY <2>1, <2>4, <2>5 DEF Abstract!Next
  <1>4. CASE Quiet
    <2>1. LogOf' = LogOf
      BY <1>1, <1>4, LogUnchanged DEF Quiet, SameRows
    <2>2. CASE lastRead' = lastRead
      BY <2>1, <2>2 DEF Abstract!logVars
    <2>3. ASSUME NEW c \in Conversations, NEW u \in Users, NEW n \in Nat,
                 ReadStep(c, u, n)
          PROVE  Abstract!Next
      <3>1. lastRead[c][u] \in Nat /\ Len(LogOf[c]) = lastSequence[c]
        BY <1>1, LogShape DEF Typed, TypeOK, GroupOK
      <3>2. lastRead[c][u] < n /\ n <= Len(LogOf[c])
        BY <2>3, <3>1 DEF ReadStep, Advances
      <3>3. n \in 1 .. Len(LogOf[c])
        BY <1>2, <3>1, <3>2 DEF Shapes
      <3>4. Abstract!Read(c, u, n)
        BY <2>1, <2>3, <3>2 DEF ReadStep, Abstract!Read
      <3>5. QED
        BY <3>3, <3>4 DEF Abstract!Next
    <2>4. ASSUME NEW c \in Conversations, NEW u \in Users, ForgetStep(c, u)
          PROVE  Abstract!Next
      <3>1. Abstract!Forget(c, u)
        BY <2>1, <2>4 DEF ForgetStep, Abstract!Forget
      <3>2. QED
        BY <3>1 DEF Abstract!Next
    <2>5. QED
      BY <1>1, <2>2, <2>3, <2>4, MarkStep DEF markVars, DeliveredStep
  <1>5. QED
    BY <1>1, <1>3, <1>4, StepKinds

(* Every behaviour of the chat-worker is a behaviour of the abstract log:  *)
(* the replicas with their redeliveries, races and crashes act as one      *)
(* append-only log per conversation with forward-moving read watermarks.   *)
THEOREM Refinement == Spec => ImplementsChatLog
  BY RefineInit, RefineNext, ReceiptInvariant, PTL
  DEF Spec, ImplementsChatLog, Abstract!Spec

-----------------------------------------------------------------------------
(* What the outbox says.                                                   *)

ContentTypes  == {"message.created", "message.edited", "message.deleted"}
ReactionTypes == {"reaction.added", "reaction.removed"}
OtherTypes    == EventTypes \ (ContentTypes \cup ReactionTypes \cup {"receipt.read"})

Says(e) == e \in Event /\ outbox' = Append(outbox, e)

(* A step that changes no table a replay is about; a member who is removed *)
(* takes the watermark along.                                              *)
Silent == /\ UNCHANGED <<messages, reactions>>
          /\ \A c \in Conversations, u \in Users : lastRead'[c][u] \in {lastRead[c][u], 0}
          /\ \/ UNCHANGED outbox
             \/ \E e : Says(e) /\ e.type \in OtherTypes

Adds(cmd) ==
    /\ UNCHANGED <<reactions, lastRead>>
    /\ Len(messages') = Len(messages) + 1
    /\ \A i \in 1 .. Len(messages) : messages'[i] = messages[i]
    /\ ~messages'[Len(messages) + 1].deleted
    /\ messages'[Len(messages) + 1].content = cmd.content
    /\ \E e : /\ Says(e) /\ e.type = "message.created"
              /\ e.msg = Len(messages) + 1 /\ e.cmd = cmd

Rewrites(cmd, type, content, deleted) ==
    /\ UNCHANGED <<reactions, lastRead>>
    /\ cmd.msg \in 1 .. Len(messages)
    /\ Len(messages') = Len(messages)
    /\ \A i \in 1 .. Len(messages) : i # cmd.msg => messages'[i] = messages[i]
    /\ messages'[cmd.msg].content = content
    /\ messages'[cmd.msg].deleted = deleted
    /\ \E e : Says(e) /\ e.type = type /\ e.msg = cmd.msg /\ e.cmd = cmd

Edits(cmd) == Rewrites(cmd, "message.edited", cmd.content, messages[cmd.msg].deleted)
Deletes(cmd) == Rewrites(cmd, "message.deleted", Empty, TRUE)

Reacts(cmd) ==
    /\ UNCHANGED <<messages, lastRead>>
    /\ \E e : /\ Says(e) /\ e.msg = cmd.msg /\ e.cmd = cmd
              /\ \/ /\ e.type = "reaction.added" /\ ReactionKey(cmd) \notin reactions
                    /\ reactions' = reactions \cup {ReactionKey(cmd)}
                 \/ /\ e.type = "reaction.removed" /\ ReactionKey(cmd) \in reactions
                    /\ reactions' = reactions \ {ReactionKey(cmd)}

Reads(cmd, n) ==
    /\ UNCHANGED <<messages, reactions>>
    /\ \A c \in Conversations, u \in Users :
          lastRead'[c][u] = IF c = cmd.conv /\ u = cmd.user THEN n ELSE lastRead[c][u]
    /\ \E e : /\ Says(e) /\ e.type = "receipt.read" /\ e.conv = cmd.conv
              /\ e.cmd = cmd /\ e.seq = n /\ cmd.user \in e.to

Speaks(cmd) == \/ Adds(cmd) \/ Edits(cmd) \/ Deletes(cmd) \/ Reacts(cmd)
               \/ \E n \in Nat : Reads(cmd, n)

LEMMA NoTableStep ==
    ASSUME UNCHANGED <<messages, reactions, lastRead, outbox>> PROVE Silent
  BY DEF Silent

(* A row appended to the outbox is an event, since the outbox stays typed. *)
LEMMA AppendedIsEvent ==
    ASSUME Typed, Typed', NEW e, outbox' = Append(outbox, e) PROVE Says(e)
  <1>1. outbox' \in Seq(Event) /\ outbox \in Seq(Event)
    BY DEF Typed, TypeOK, ChatOK
  <1>2. e = outbox'[Len(outbox')] /\ Len(outbox') \in DOMAIN outbox'
    BY <1>1
  <1> QED
    BY <1>1, <1>2 DEF Says

LEMMA SendSpeaks ==
    ASSUME Typed, Typed', NEW w \in Workers, TxSend(w) \/ TxBotSend(w)
    PROVE  job[w] \in Commands /\ Adds(job[w])
  <1>1. job[w] \in Commands /\ UNCHANGED lastRead
    BY DEF TxSend, TxBotSend, At, Typed, TypeOK, WorkerOK, markVars
  <1>2. PICK bot \in BOOLEAN : CreateMessage(job[w], bot)
    BY DEF TxSend, TxBotSend
  <1> DEFINE m == [cmid |-> job[w].cmid, conv |-> job[w].conv,
                   seq |-> NextSequence(job[w].conv), sender |-> job[w].user,
                   bot |-> bot, content |-> job[w].content, deleted |-> FALSE,
                   replyTo |-> job[w].replyTo]
             e == NewEvent("message.created", job[w], Len(messages) + 1,
                           NextSequence(job[w].conv), {})
  <1>3. messages' = Append(messages, m) /\ outbox' = Append(outbox, e) /\ UNCHANGED reactions
    BY <1>2 DEF CreateMessage
  <1>4. ~m.deleted /\ m.content = job[w].content
    OBVIOUS
  <1>5. e.type = "message.created" /\ e.msg = Len(messages) + 1 /\ e.cmd = job[w]
    BY DEF NewEvent
  <1>6. messages \in Seq(Message)
    BY DEF Typed, TypeOK, ChatOK
  <1> HIDE DEF m, e
  <1>7. Says(e)
    BY <1>3, AppendedIsEvent
  <1>8. /\ Len(messages') = Len(messages) + 1
        /\ \A i \in 1 .. Len(messages) : messages'[i] = messages[i]
        /\ messages'[Len(messages) + 1] = m
    BY <1>3, <1>6
  <1> QED
    BY <1>1, <1>3, <1>4, <1>5, <1>7, <1>8 DEF Adds

LEMMA ChangeSpeaks ==
    ASSUME Typed, Typed', NEW w \in Workers, TxEdit(w) \/ TxDelete(w)
    PROVE  job[w] \in Commands /\ (Edits(job[w]) \/ Deletes(job[w]))
  <1> DEFINE i == job[w].msg
  <1>1. /\ job[w] \in Commands
        /\ i \in 1 .. Len(messages)
        /\ Len(messages') = Len(messages)
        /\ \A j \in 1 .. Len(messages) : j # i => messages'[j] = messages[j]
    BY EditedRow
  <1>2. UNCHANGED <<reactions, lastRead>>
    BY DEF TxEdit, TxDelete, Commit, markVars
  <1>3. messages \in Seq(Message) /\ messages[i] \in Message /\ i \in DOMAIN messages
    <2>1. messages \in Seq(Message)
      BY DEF Typed, TypeOK, ChatOK
    <2> QED
      BY <1>1, <2>1
  <1>4. CASE TxEdit(w)
    <2>1. messages'[i] = [messages[i] EXCEPT !.content = job[w].content]
      BY <1>3, <1>4 DEF TxEdit
    <2>2. messages'[i].content = job[w].content /\ messages'[i].deleted = messages[i].deleted
      BY <1>3, <2>1 DEF Message
    <2> DEFINE e == NewEvent("message.edited", job[w], i, 0, {})
    <2>3. outbox' = Append(outbox, e)
      BY <1>4 DEF TxEdit, Commit
    <2>4. e.type = "message.edited" /\ e.msg = i /\ e.cmd = job[w]
      BY DEF NewEvent
    <2> HIDE DEF e
    <2>5. Says(e)
      BY <2>3, AppendedIsEvent
    <2> QED
      BY <1>1, <1>2, <2>2, <2>4, <2>5 DEF Edits, Rewrites
  <1>5. CASE TxDelete(w)
    <2>1. messages'[i] = [messages[i] EXCEPT !.content = Empty, !.deleted = TRUE]
      BY <1>3, <1>5 DEF TxDelete, Message
    <2>2. messages'[i].content = Empty /\ messages'[i].deleted = TRUE
      BY <1>3, <2>1 DEF Message
    <2> DEFINE e == NewEvent("message.deleted", job[w], i, 0, {})
    <2>3. outbox' = Append(outbox, e)
      BY <1>5 DEF TxDelete, Commit
    <2>4. e.type = "message.deleted" /\ e.msg = i /\ e.cmd = job[w]
      BY DEF NewEvent
    <2> HIDE DEF e
    <2>5. Says(e)
      BY <2>3, AppendedIsEvent
    <2> QED
      BY <1>1, <1>2, <2>2, <2>4, <2>5 DEF Deletes, Rewrites
  <1> QED
    BY <1>1, <1>4, <1>5

LEMMA ReactionSpeaks ==
    ASSUME Typed, Typed', NEW w \in Workers, TxAddReaction(w) \/ TxRemoveReaction(w)
    PROVE  job[w] \in Commands /\ Reacts(job[w])
  <1>1. job[w] \in Commands /\ UNCHANGED <<messages, lastRead>>
    BY DEF TxAddReaction, TxRemoveReaction, At, Commit, Typed, TypeOK, WorkerOK, markVars
  <1> DEFINE e(type) == NewEvent(type, job[w], job[w].msg, 0, {})
  <1>2. \A type : e(type).type = type /\ e(type).msg = job[w].msg /\ e(type).cmd = job[w]
    BY DEF NewEvent
  <1>3. CASE TxAddReaction(w)
    <2>1. outbox' = Append(outbox, e("reaction.added"))
      BY <1>3 DEF TxAddReaction, Commit
    <2> HIDE DEF e
    <2>2. Says(e("reaction.added"))
      BY <2>1, AppendedIsEvent
    <2> QED
      BY <1>1, <1>2, <1>3, <2>2 DEF TxAddReaction, Reacts
  <1>4. CASE TxRemoveReaction(w)
    <2>1. outbox' = Append(outbox, e("reaction.removed"))
      BY <1>4 DEF TxRemoveReaction, Commit
    <2> HIDE DEF e
    <2>2. Says(e("reaction.removed"))
      BY <2>1, AppendedIsEvent
    <2> QED
      BY <1>1, <1>2, <1>4, <2>2 DEF TxRemoveReaction, ReactionMatches, Reacts
  <1> QED
    BY <1>1, <1>3, <1>4

LEMMA ReadSpeaks ==
    ASSUME Typed, Typed', NEW w \in Workers, TxRead(w)
    PROVE  job[w] \in Commands /\ \E n \in Nat : Reads(job[w], n)
  <1>1. /\ job[w] \in Commands /\ accepted[w] \in Nat
        /\ job[w].type = "receipt.read"
        /\ job[w].user \in members[job[w].conv]
        /\ UNCHANGED <<messages, reactions>>
    BY DEF TxRead, At, CompareAndAdvance, Typed, TypeOK, WorkerOK, chatVars
  <1>2. job[w].conv \in Conversations
    BY <1>1, CommandFields
  <1>3. job[w].user \in Users /\ lastRead \in [Conversations -> [Users -> Nat]]
    BY <1>1, <1>2 DEF Typed, TypeOK, GroupOK
  <1>4. \A c \in Conversations, u \in Users :
           lastRead'[c][u] = IF c = job[w].conv /\ u = job[w].user THEN accepted[w]
                             ELSE lastRead[c][u]
    BY <1>1, <1>2, <1>3, TableExcept DEF TxRead
  <1> DEFINE e == NewEvent("receipt.read", job[w], 0, accepted[w], ReadRecipients(job[w]))
  <1>5. outbox' = Append(outbox, e)
    BY DEF TxRead
  <1>6. /\ e.type = "receipt.read" /\ e.conv = job[w].conv /\ e.cmd = job[w]
        /\ e.seq = accepted[w] /\ job[w].user \in e.to
    BY <1>1 DEF NewEvent, ReadRecipients
  <1> HIDE DEF e
  <1>7. Says(e)
    BY <1>5, AppendedIsEvent
  <1>8. Reads(job[w], accepted[w])
    BY <1>1, <1>4, <1>6, <1>7 DEF Reads
  <1> QED
    BY <1>1, <1>8

LEMMA HandleSpeaks ==
    ASSUME Typed, Typed', NEW w \in Workers, Handle(w)
    PROVE  Silent \/ \E cmd \in Commands : Speaks(cmd)
  <1>1. CASE TxSend(w) \/ TxBotSend(w)
    BY <1>1, SendSpeaks DEF Speaks
  <1>2. CASE TxEdit(w) \/ TxDelete(w)
    BY <1>2, ChangeSpeaks DEF Speaks
  <1>3. CASE TxAddReaction(w) \/ TxRemoveReaction(w)
    BY <1>3, ReactionSpeaks DEF Speaks
  <1>4. CASE TxRead(w)
    BY <1>4, ReadSpeaks DEF Speaks
  <1>5. CASE TxDelivered(w)
    <2> DEFINE e == NewEvent("receipt.delivered", job[w], 0, accepted[w],
                             DeliveredRecipients(job[w]))
    <2>1. outbox' = Append(outbox, e) /\ UNCHANGED <<messages, reactions, lastRead>>
      BY <1>5 DEF TxDelivered, chatVars
    <2>2. e.type \in OtherTypes
      BY DEF NewEvent, OtherTypes, EventTypes, ContentTypes, ReactionTypes
    <2> HIDE DEF e
    <2>3. Says(e)
      BY <2>1, AppendedIsEvent
    <2> QED
      BY <2>1, <2>2, <2>3 DEF Silent
  <1>6. CASE DropInvalid(w) \/ Ack(w) \/ TxBotSendDuplicate(w)
             \/ TxReactionNoop(w) \/ TxReceiptStale(w)
    BY <1>6, NoTableStep DEF DropInvalid, Ack, TxBotSendDuplicate,
       TxReactionNoop, TxReceiptStale, Return, chatVars, markVars
  <1>7. CASE TxSendDuplicate(w) \/ PostSend(w) \/ PostRead(w)
    BY <1>7, NoTableStep DEF TxSendDuplicate, PostSend, PostRead, chatVars, markVars
  <1>8. CASE CheckSend(w) \/ CheckBotSend(w) \/ CheckChange(w) \/ CheckReceipt(w)
    BY <1>8, NoTableStep DEF CheckSend, CheckBotSend, CheckChange,
       CheckReceipt, Return, chatVars, markVars
  <1> QED
    BY <1>1, <1>2, <1>3, <1>4, <1>5, <1>6, <1>7, <1>8 DEF Handle

LEMMA ApiSpeaks ==
    ASSUME Typed, Typed', NEW c \in Conversations,
           \/ DeleteConversation(c)
           \/ \E S \in (SUBSET Users) \ {{}} : AddMembers(c, S)
           \/ \E u \in Users : RemoveMember(c, u)
    PROVE  Silent
  <1>1. PICK type \in OtherTypes : ApiCall(GroupEvent(type, c))
    BY DEF DeleteConversation, AddMembers, RemoveMember, OtherTypes, EventTypes,
       ContentTypes, ReactionTypes
  <1>2. GroupEvent(type, c).type = type
    BY DEF GroupEvent
  <1>3. outbox' = Append(outbox, GroupEvent(type, c)) /\ UNCHANGED <<messages, reactions>>
    BY <1>1 DEF ApiCall, chatVars
  <1>4. Says(GroupEvent(type, c))
    BY <1>3, AppendedIsEvent
  <1>5. \A d \in Conversations, v \in Users : lastRead'[d][v] \in {lastRead[d][v], 0}
    <2>1. lastRead \in [Conversations -> [Users -> Nat]]
      BY DEF Typed, TypeOK, GroupOK
    <2>2. CASE \E u \in Users : RemoveMember(c, u)
      <3>1. PICK u \in Users : lastRead' = [lastRead EXCEPT ![c][u] = 0]
        BY <2>2 DEF RemoveMember
      <3> QED
        BY <2>1, <3>1, TableExcept
    <2>3. CASE UNCHANGED lastRead
      BY <2>3
    <2> QED
      BY <2>2, <2>3 DEF DeleteConversation, AddMembers, markVars
  <1> QED
    BY <1>2, <1>3, <1>4, <1>5 DEF Silent

LEMMA StepEvents ==
    ASSUME Typed, Typed', [Next]_vars
    PROVE  Silent \/ \E cmd \in Commands : Speaks(cmd)
  <1>1. CASE UNCHANGED vars
    BY <1>1, NoTableStep DEF vars, chatVars, markVars
  <1>2. CASE \E cmd \in Commands : Publish(cmd)
    BY <1>2, NoTableStep DEF Publish, chatVars, markVars
  <1>3. CASE \E w \in Workers, cmd \in Commands : Deliver(w, cmd)
    BY <1>3, NoTableStep DEF Deliver, chatVars, markVars
  <1>4. CASE \E w \in Workers : Handle(w)
    BY <1>4, HandleSpeaks
  <1>5. CASE \E w \in Workers :
               Fail(w) \/ Crash(w) \/ Stop(w) \/ Exit(w) \/ Restart(w)
    BY <1>5, NoTableStep DEF Fail, Crash, Stop, Exit, Restart, Leave, chatVars, markVars
  <1>6. CASE \E c \in Conversations :
               \/ DeleteConversation(c)
               \/ \E S \in (SUBSET Users) \ {{}} : AddMembers(c, S)
               \/ \E u \in Users : RemoveMember(c, u)
    BY <1>6, ApiSpeaks
  <1> QED
    BY <1>1, <1>2, <1>3, <1>4, <1>5, <1>6 DEF Next

(* What an event appended to the outbox changes of it.                     *)
LEMMA SaysAppends ==
    ASSUME Typed, NEW e, Says(e)
    PROVE  LET n == Len(outbox) + 1
           IN  /\ n \in Nat /\ n \notin DOMAIN outbox
               /\ DOMAIN outbox' = DOMAIN outbox \cup {n}
               /\ Len(outbox') = n
               /\ outbox'[n] = e
               /\ \A k \in DOMAIN outbox : k \in Nat /\ k < n /\ outbox'[k] = outbox[k]
  <1>1. outbox \in Seq(Event) /\ outbox' = Append(outbox, e)
    BY DEF Typed, TypeOK, ChatOK, Says
  <1> QED
    BY <1>1

-----------------------------------------------------------------------------
(* Read watermarks *)

(* k is the last receipt.read event of u in c.                             *)
LastRead(k, c, u) ==
    /\ k \in DOMAIN outbox
    /\ ReceiptEvent(k, "receipt.read", c, u)
    /\ \A m \in DOMAIN outbox : k < m => ~ReceiptEvent(m, "receipt.read", c, u)
ReadSaid == \A c \in Conversations, u \in Users : lastRead[c][u] > 0 =>
    \E k \in DOMAIN outbox :
       LastRead(k, c, u) /\ outbox[k].seq = lastRead[c][u] /\ u \in outbox[k].to

LEMMA ReadSaidAnnounced == Typed /\ ReadSaid => ReadAnnounced
  <1> SUFFICES ASSUME Typed, ReadSaid, NEW c \in Conversations, NEW u \in Users,
                      lastRead[c][u] > 0
               PROVE  \E k \in DOMAIN outbox :
                         /\ ReceiptEvent(k, "receipt.read", c, u)
                         /\ outbox[k].seq = lastRead[c][u]
                         /\ u \in outbox[k].to
                         /\ \A m \in k + 1 .. Len(outbox) :
                               ~ReceiptEvent(m, "receipt.read", c, u)
    BY DEF ReadAnnounced
  <1>1. PICK k \in DOMAIN outbox :
           LastRead(k, c, u) /\ outbox[k].seq = lastRead[c][u] /\ u \in outbox[k].to
    BY DEF ReadSaid
  <1>2. DOMAIN outbox = 1 .. Len(outbox) /\ Len(outbox) \in Nat
    BY TypedShapes DEF Shapes
  <1>3. \A m \in k + 1 .. Len(outbox) : m \in DOMAIN outbox /\ k < m
    BY <1>2
  <1> QED
    BY <1>1, <1>3 DEF LastRead

LEMMA ReadSaidStep == Typed /\ Typed' /\ ReadSaid /\ [Next]_vars => ReadSaid'
  <1> SUFFICES ASSUME Typed, Typed', ReadSaid, [Next]_vars,
                      NEW c \in Conversations, NEW u \in Users, lastRead'[c][u] > 0
               PROVE  \E k \in DOMAIN outbox' :
                         /\ LastRead(k, c, u)' /\ outbox'[k].seq = lastRead'[c][u]
                         /\ u \in outbox'[k].to
    BY DEF ReadSaid
  (* Nothing new about this member: the event of before is still the last. *)
  <1>1. ASSUME lastRead'[c][u] = lastRead[c][u],
               \/ UNCHANGED outbox
               \/ \E e : /\ Says(e)
                         /\ ~(e.type = "receipt.read" /\ e.conv = c /\ e.cmd.user = u)
        PROVE  \E k \in DOMAIN outbox' :
                         /\ LastRead(k, c, u)' /\ outbox'[k].seq = lastRead'[c][u]
                         /\ u \in outbox'[k].to
    <2>1. PICK k \in DOMAIN outbox :
             LastRead(k, c, u) /\ outbox[k].seq = lastRead[c][u] /\ u \in outbox[k].to
      BY <1>1 DEF ReadSaid
    <2>2. CASE UNCHANGED outbox
      BY <1>1, <2>1, <2>2 DEF LastRead, ReceiptEvent
    <2>3. ASSUME NEW e, Says(e),
                 ~(e.type = "receipt.read" /\ e.conv = c /\ e.cmd.user = u)
          PROVE  \E j \in DOMAIN outbox' :
                         /\ LastRead(j, c, u)' /\ outbox'[j].seq = lastRead'[c][u]
                         /\ u \in outbox'[j].to
      <3>1. /\ k \in DOMAIN outbox' /\ outbox'[k] = outbox[k]
            /\ \A m \in DOMAIN outbox' : \/ m \in DOMAIN outbox /\ outbox'[m] = outbox[m]
                                         \/ outbox'[m] = e
        BY <2>3, SaysAppends
      <3>2. LastRead(k, c, u)'
        BY <2>1, <2>3, <3>1 DEF LastRead, ReceiptEvent
      <3> QED
        BY <1>1, <2>1, <3>1, <3>2
    <2> QED
      BY <1>1, <2>2, <2>3
  <1>2. CASE Silent
    <2>1. lastRead'[c][u] = lastRead[c][u]
      BY <1>2 DEF Silent
    <2>2. \/ UNCHANGED outbox
          \/ \E e : Says(e) /\ e.type # "receipt.read"
      BY <1>2 DEF Silent, OtherTypes
    <2> QED
      BY <1>1, <2>1, <2>2
  <1>3. ASSUME NEW cmd \in Commands,
               Adds(cmd) \/ Edits(cmd) \/ Deletes(cmd) \/ Reacts(cmd)
        PROVE  \E k \in DOMAIN outbox' :
                         /\ LastRead(k, c, u)' /\ outbox'[k].seq = lastRead'[c][u]
                         /\ u \in outbox'[k].to
    <2>1. UNCHANGED lastRead /\ \E e : Says(e) /\ e.type # "receipt.read"
      BY <1>3 DEF Adds, Edits, Deletes, Rewrites, Reacts
    <2> QED
      BY <1>1, <2>1
  <1>4. ASSUME NEW cmd \in Commands, NEW n \in Nat, Reads(cmd, n)
        PROVE  \E k \in DOMAIN outbox' :
                         /\ LastRead(k, c, u)' /\ outbox'[k].seq = lastRead'[c][u]
                         /\ u \in outbox'[k].to
    <2>1. PICK e : /\ Says(e) /\ e.type = "receipt.read" /\ e.conv = cmd.conv
                   /\ e.cmd = cmd /\ e.seq = n /\ cmd.user \in e.to
      BY <1>4 DEF Reads
    <2>2. CASE c = cmd.conv /\ u = cmd.user
      <3>1. PICK k \in Nat :
               /\ k \in DOMAIN outbox' /\ outbox'[k] = e
               /\ \A m \in DOMAIN outbox' : m \in Nat /\ (m = k \/ m < k)
        BY <2>1, SaysAppends
      <3>2. \A m \in DOMAIN outbox' : ~(k < m)
        BY <3>1
      <3>3. LastRead(k, c, u)'
        BY <2>1, <2>2, <3>1, <3>2 DEF LastRead, ReceiptEvent
      <3> QED
        BY <1>4, <2>1, <2>2, <3>1, <3>3 DEF Reads
    <2>3. CASE ~(c = cmd.conv /\ u = cmd.user)
      <3>1. lastRead'[c][u] = lastRead[c][u]
        BY <1>4, <2>3 DEF Reads
      <3> QED
        BY <1>1, <2>1, <2>3, <3>1
    <2> QED
      BY <2>2, <2>3
  <1> QED
    BY <1>2, <1>3, <1>4, StepEvents DEF Speaks

(* Whatever crashes between whatever steps, a durable read watermark is    *)
(* the one last announced, to the reader's own devices too                 *)
(* (receipts.ts:52-79).                                                    *)
THEOREM MarksAnnounced == Spec => []ReadAnnounced
  <1>1. Init => Typed /\ ReadSaid
    BY InitTyped DEF Init, ReadSaid
  <1>2. Typed /\ ReadSaid /\ [Next]_vars => (Typed /\ ReadSaid)'
    BY NextTyped, ReadSaidStep
  <1>3. QED
    BY <1>1, <1>2, ReadSaidAnnounced, PTL DEF Spec

-----------------------------------------------------------------------------
(* Contents *)

(* k is the last event about the content of message i.                     *)
LastContent(k, i) ==
    /\ k \in DOMAIN outbox
    /\ ContentEvent(k, i)
    /\ \A m \in DOMAIN outbox : k < m => ~ContentEvent(m, i)
DeletedSaid(i) == \E k \in DOMAIN outbox : outbox[k].type = "message.deleted"
                                           /\ outbox[k].msg = i
ContentSaid ==
    /\ \A i \in DOMAIN messages :
          /\ \E k \in DOMAIN outbox :
                LastContent(k, i) /\ EventContent(k) = messages[i].content
          /\ messages[i].deleted <=> DeletedSaid(i)
    /\ \A k \in DOMAIN outbox :
          outbox[k].type \in ContentTypes => outbox[k].msg \in DOMAIN messages

LEMMA ContentSaidReplays == Typed /\ ContentSaid => ContentReplays
  <1> SUFFICES ASSUME Typed, ContentSaid, NEW i \in DOMAIN messages
               PROVE  /\ \E k \in DOMAIN outbox :
                            /\ ContentEvent(k, i)
                            /\ EventContent(k) = messages[i].content
                            /\ \A m \in k + 1 .. Len(outbox) : ~ContentEvent(m, i)
                      /\ messages[i].deleted <=>
                            \E k \in DOMAIN outbox : outbox[k].type = "message.deleted"
                                                     /\ outbox[k].msg = i
    BY DEF ContentReplays
  <1>1. PICK k \in DOMAIN outbox :
           LastContent(k, i) /\ EventContent(k) = messages[i].content
    BY DEF ContentSaid
  <1>2. DOMAIN outbox = 1 .. Len(outbox) /\ Len(outbox) \in Nat
    BY TypedShapes DEF Shapes
  <1>3. \A m \in k + 1 .. Len(outbox) : m \in DOMAIN outbox /\ k < m
    BY <1>2
  <1>4. messages[i].deleted <=> DeletedSaid(i)
    BY DEF ContentSaid
  <1> QED
    BY <1>1, <1>3, <1>4 DEF LastContent, DeletedSaid

(* An event about something else leaves the last content event of i where  *)
(* it is.                                                                  *)
LEMMA ContentStays ==
    ASSUME Typed, NEW e, Says(e), NEW i \in Nat,
           ~(e.type \in ContentTypes /\ e.msg = i)
    PROVE  /\ \A k \in DOMAIN outbox :
                 LastContent(k, i) => /\ k \in DOMAIN outbox'
                                      /\ LastContent(k, i)'
                                      /\ EventContent(k)' = EventContent(k)
           /\ DeletedSaid(i)' <=> DeletedSaid(i)
  <1>1. PICK n : /\ DOMAIN outbox' = DOMAIN outbox \cup {n} /\ outbox'[n] = e
                 /\ \A k \in DOMAIN outbox : outbox'[k] = outbox[k]
    BY SaysAppends
  <1>2. ~(e.type = "message.deleted" /\ e.msg = i)
    BY DEF ContentTypes
  <1>3. DeletedSaid(i)' <=> DeletedSaid(i)
    BY <1>1, <1>2 DEF DeletedSaid
  <1>4. ASSUME NEW k \in DOMAIN outbox, LastContent(k, i)
        PROVE  LastContent(k, i)' /\ EventContent(k)' = EventContent(k)
    BY <1>1, <1>4 DEF LastContent, ContentEvent, ContentTypes, EventContent
  <1> QED
    BY <1>1, <1>3, <1>4

(* The event that was appended is the last one of its message.             *)
LEMMA ContentNow ==
    ASSUME Typed, NEW e, Says(e), e.type \in ContentTypes
    PROVE  /\ \E k \in DOMAIN outbox' :
                 /\ LastContent(k, e.msg)'
                 /\ EventContent(k)' = IF e.type = "message.deleted" THEN Empty
                                       ELSE e.cmd.content
           /\ DeletedSaid(e.msg)' <=> e.type = "message.deleted" \/ DeletedSaid(e.msg)
  <1>1. PICK n \in Nat :
           /\ DOMAIN outbox' = DOMAIN outbox \cup {n} /\ outbox'[n] = e
           /\ \A k \in DOMAIN outbox : k \in Nat /\ k < n /\ outbox'[k] = outbox[k]
    BY SaysAppends
  <1>2. \A m \in DOMAIN outbox' : ~(n < m)
    BY <1>1
  <1>3. LastContent(n, e.msg)'
    BY <1>1, <1>2 DEF LastContent, ContentEvent, ContentTypes
  <1>4. EventContent(n)' = IF e.type = "message.deleted" THEN Empty ELSE e.cmd.content
    BY <1>1 DEF EventContent
  <1>5. DeletedSaid(e.msg)' <=> e.type = "message.deleted" \/ DeletedSaid(e.msg)
    BY <1>1 DEF DeletedSaid
  <1> QED
    BY <1>1, <1>3, <1>4, <1>5

LEMMA ContentSaidStep == Typed /\ Typed' /\ ContentSaid /\ [Next]_vars => ContentSaid'
  <1> SUFFICES ASSUME Typed, Typed', ContentSaid, [Next]_vars PROVE ContentSaid'
    OBVIOUS
  <1>1. Shapes /\ Shapes'
    BY NextShapes
  <1> DEFINE Told(i) == /\ \E k \in DOMAIN outbox :
                              LastContent(k, i) /\ EventContent(k) = messages[i].content
                        /\ messages[i].deleted <=> DeletedSaid(i)
             Real == \A k \in DOMAIN outbox :
                        outbox[k].type \in ContentTypes => outbox[k].msg \in DOMAIN messages
  <1>2. (\A i \in DOMAIN messages : Told(i)) /\ Real
    BY DEF ContentSaid
  <1>3. SUFFICES (\A i \in DOMAIN messages' : Told(i)') /\ Real'
    BY DEF ContentSaid
  <1>4. ASSUME UNCHANGED <<messages, outbox>>
        PROVE  (\A i \in DOMAIN messages' : Told(i)') /\ Real'
    BY <1>2, <1>4 DEF LastContent, ContentEvent, EventContent, DeletedSaid
  (* A message the event is not about.                                     *)
  <1>5. ASSUME NEW e, Says(e), NEW i \in DOMAIN messages, messages'[i] = messages[i],
               ~(e.type \in ContentTypes /\ e.msg = i)
        PROVE  Told(i)'
    <2>1. PICK k \in DOMAIN outbox :
             LastContent(k, i) /\ EventContent(k) = messages[i].content
      BY <1>2
    <2>2. i \in Nat
      BY <1>1 DEF Shapes
    <2>3. /\ k \in DOMAIN outbox' /\ LastContent(k, i)'
          /\ EventContent(k)' = EventContent(k)
          /\ DeletedSaid(i)' <=> DeletedSaid(i)
      BY <1>5, <2>1, <2>2, ContentStays
    <2>4. messages'[i].deleted <=> DeletedSaid(i)'
      BY <1>2, <1>5, <2>3
    <2> QED
      BY <1>5, <2>1, <2>3, <2>4
  <1>6. ASSUME NEW e, Says(e), DOMAIN messages \subseteq DOMAIN messages',
               e.type \in ContentTypes => e.msg \in DOMAIN messages'
        PROVE  Real'
    BY <1>2, <1>6, SaysAppends
  <1>7. CASE Silent
    <2>1. CASE UNCHANGED outbox
      BY <1>4, <1>7, <2>1 DEF Silent
    <2>2. ASSUME NEW e, Says(e), e.type \in OtherTypes
          PROVE  (\A i \in DOMAIN messages' : Told(i)') /\ Real'
      <3>1. e.type \notin ContentTypes /\ UNCHANGED messages
        BY <1>7, <2>2 DEF OtherTypes, Silent
      <3>2. Real'
        BY <1>6, <2>2, <3>1
      <3>3. \A i \in DOMAIN messages : Told(i)'
        BY <1>5, <2>2, <3>1
      <3> QED
        BY <3>1, <3>2, <3>3
    <2> QED
      BY <1>7, <2>1, <2>2 DEF Silent
  <1>8. ASSUME NEW cmd \in Commands, Reacts(cmd) \/ \E n \in Nat : Reads(cmd, n)
        PROVE  (\A i \in DOMAIN messages' : Told(i)') /\ Real'
    <2>1. UNCHANGED messages
      BY <1>8 DEF Reacts, Reads
    <2>2. PICK e : Says(e) /\ e.type \notin ContentTypes
      BY <1>8 DEF Reacts, Reads, ContentTypes
    <2>3. Real'
      BY <1>6, <2>1, <2>2
    <2>4. \A i \in DOMAIN messages : Told(i)'
      BY <1>5, <2>1, <2>2
    <2> QED
      BY <2>1, <2>3, <2>4
  <1>9. ASSUME NEW cmd \in Commands, Adds(cmd)
        PROVE  (\A i \in DOMAIN messages' : Told(i)') /\ Real'
    <2>1. PICK n \in Nat :
             /\ n = Len(messages) + 1 /\ n \notin DOMAIN messages
             /\ DOMAIN messages' = DOMAIN messages \cup {n}
             /\ \A i \in DOMAIN messages : messages'[i] = messages[i]
             /\ ~messages'[n].deleted /\ messages'[n].content = cmd.content
      BY <1>1, <1>9 DEF Adds, Shapes
    <2>2. PICK e : Says(e) /\ e.type = "message.created" /\ e.msg = n /\ e.cmd = cmd
      BY <1>9, <2>1 DEF Adds
    <2>3. e.type \in ContentTypes
      BY <2>2 DEF ContentTypes
    <2>4. Real'
      BY <1>6, <2>1, <2>2
    <2>5. \A i \in DOMAIN messages : Told(i)'
      BY <1>5, <2>1, <2>2
    <2>6. ~DeletedSaid(n)
      BY <1>2, <2>1 DEF DeletedSaid, ContentTypes
    <2>7. Told(n)'
      BY <2>1, <2>2, <2>3, <2>6, ContentNow
    <2> QED
      BY <2>1, <2>4, <2>5, <2>7
  <1>10. ASSUME NEW cmd \in Commands, Edits(cmd) \/ Deletes(cmd)
         PROVE  (\A i \in DOMAIN messages' : Told(i)') /\ Real'
    <2>1. PICK n \in DOMAIN messages :
             /\ n = cmd.msg
             /\ DOMAIN messages' = DOMAIN messages
             /\ \A i \in DOMAIN messages : i # n => messages'[i] = messages[i]
      BY <1>1, <1>10 DEF Edits, Deletes, Rewrites, Shapes
    <2>2. PICK e : /\ Says(e) /\ e.type \in ContentTypes /\ e.msg = n
                   /\ messages'[n].content = IF e.type = "message.deleted" THEN Empty
                                             ELSE e.cmd.content
                   /\ messages'[n].deleted = IF e.type = "message.deleted" THEN TRUE
                                             ELSE messages[n].deleted
      BY <1>10, <2>1 DEF Edits, Deletes, Rewrites, ContentTypes
    <2>3. Real'
      BY <1>6, <2>1, <2>2
    <2>4. \A i \in DOMAIN messages : i # n => Told(i)'
      BY <1>5, <2>1, <2>2
    <2>5. messages[n].deleted <=> DeletedSaid(n)
      BY <1>2
    <2>6. Told(n)'
      BY <2>2, <2>5, ContentNow
    <2> QED
      BY <2>1, <2>3, <2>4, <2>6
  <1> QED
    BY <1>7, <1>8, <1>9, <1>10, StepEvents DEF Speaks

-----------------------------------------------------------------------------
(* Reactions *)

(* The event k of a key is the last one and says whether the row exists,   *)
(* or the next one says the opposite.                                      *)
Alternates(k, key) ==
    \/ /\ \A m \in DOMAIN outbox : k < m => ~ReactionEvent(m, key)
       /\ key \in reactions <=> outbox[k].type = "reaction.added"
    \/ \E m \in DOMAIN outbox :
          /\ k < m /\ ReactionEvent(m, key) /\ outbox[m].type # outbox[k].type
          /\ \A n \in DOMAIN outbox : k < n /\ ReactionEvent(n, key) => m <= n
ReactionsSaid ==
    /\ \A k \in DOMAIN outbox : \A key : ReactionEvent(k, key) => Alternates(k, key)
    /\ \A key \in reactions : \E k \in DOMAIN outbox : ReactionEvent(k, key)

LEMMA ReactionsSaidReplay == Typed /\ ReactionsSaid => ReactionsReplay
  <1> SUFFICES ASSUME Typed, ReactionsSaid PROVE ReactionsReplay
    OBVIOUS
  <1>1. DOMAIN outbox = 1 .. Len(outbox) /\ Len(outbox) \in Nat
    BY TypedShapes DEF Shapes
  <1>2. ASSUME NEW k \in DOMAIN outbox,
               outbox[k].type \in {"reaction.added", "reaction.removed"}
        PROVE  LET key == <<outbox[k].msg, outbox[k].cmd.user, outbox[k].cmd.emoji>>
                   next == {m \in k + 1 .. Len(outbox) : ReactionEvent(m, key)}
               IN  \/ /\ next = {}
                      /\ (key \in reactions) <=> (outbox[k].type = "reaction.added")
                   \/ \E m \in next : /\ \A n \in next : m <= n
                                      /\ outbox[m].type # outbox[k].type
    <2> DEFINE key == <<outbox[k].msg, outbox[k].cmd.user, outbox[k].cmd.emoji>>
               next == {m \in k + 1 .. Len(outbox) : ReactionEvent(m, key)}
    <2>1. ReactionEvent(k, key)
      BY <1>2 DEF ReactionEvent
    <2> HIDE DEF key
    <2>2. \A m : m \in next <=> m \in DOMAIN outbox /\ k < m /\ ReactionEvent(m, key)
      <3>1. \A m : m \in k + 1 .. Len(outbox) <=> m \in DOMAIN outbox /\ k < m
        BY <1>1
      <3> QED
        BY <3>1
    <2>3. Alternates(k, key)
      BY <2>1 DEF ReactionsSaid
    <2> HIDE DEF next
    <2>4. \/ /\ next = {}
             /\ (key \in reactions) <=> (outbox[k].type = "reaction.added")
          \/ \E m \in next : /\ \A n \in next : m <= n
                             /\ outbox[m].type # outbox[k].type
      BY <2>2, <2>3 DEF Alternates
    <2> QED
      BY <2>4 DEF key, next
  <1> QED
    BY <1>2 DEF ReactionsSaid, ReactionsReplay

(* An event that is not of the key, and leaves its row alone.              *)
LEMMA AlternatesStays ==
    ASSUME Typed, NEW e, Says(e), NEW key, key \in reactions' <=> key \in reactions,
           ~(e.type \in ReactionTypes /\ key = <<e.msg, e.cmd.user, e.cmd.emoji>>)
    PROVE  \A k \in DOMAIN outbox' : ReactionEvent(k, key)' =>
              /\ k \in DOMAIN outbox /\ ReactionEvent(k, key)
              /\ Alternates(k, key) => Alternates(k, key)'
  <1>1. PICK n \in Nat :
           /\ DOMAIN outbox' = DOMAIN outbox \cup {n} /\ outbox'[n] = e
           /\ \A k \in DOMAIN outbox : k \in Nat /\ k < n /\ outbox'[k] = outbox[k]
    BY SaysAppends
  <1>2. ~ReactionEvent(n, key)'
    BY <1>1 DEF ReactionEvent, ReactionTypes
  <1>3. \A k \in DOMAIN outbox : ReactionEvent(k, key)' <=> ReactionEvent(k, key)
    BY <1>1 DEF ReactionEvent
  <1> QED
    BY <1>1, <1>2, <1>3 DEF Alternates

(* The event of a real transition follows one that said the opposite.      *)
LEMMA AlternatesNow ==
    ASSUME Typed, ReactionsSaid, NEW e, Says(e), NEW key,
           key = <<e.msg, e.cmd.user, e.cmd.emoji>>,
           \/ e.type = "reaction.added" /\ key \notin reactions /\ key \in reactions'
           \/ e.type = "reaction.removed" /\ key \in reactions /\ key \notin reactions'
    PROVE  \A k \in DOMAIN outbox' : ReactionEvent(k, key)' => Alternates(k, key)'
  <1>1. PICK n \in Nat :
           /\ DOMAIN outbox' = DOMAIN outbox \cup {n} /\ outbox'[n] = e
           /\ \A k \in DOMAIN outbox : k \in Nat /\ k < n /\ outbox'[k] = outbox[k]
    BY SaysAppends
  <1>2. ReactionEvent(n, key)'
    BY <1>1 DEF ReactionEvent
  <1>3. Alternates(n, key)'
    <2>1. \A m \in DOMAIN outbox' : ~(n < m)
      BY <1>1
    <2> QED
      BY <1>1, <2>1 DEF Alternates
  <1>4. ASSUME NEW k \in DOMAIN outbox, ReactionEvent(k, key)'
        PROVE  Alternates(k, key)'
    <2>1. \A m \in DOMAIN outbox : ReactionEvent(m, key)' <=> ReactionEvent(m, key)
      BY <1>1 DEF ReactionEvent
    <2>2. Alternates(k, key) /\ outbox[k].type \in {"reaction.added", "reaction.removed"}
      BY <1>4, <2>1 DEF ReactionsSaid, ReactionEvent
    <2>3. CASE /\ \A m \in DOMAIN outbox : k < m => ~ReactionEvent(m, key)
               /\ key \in reactions <=> outbox[k].type = "reaction.added"
      <3>1. outbox'[n].type # outbox'[k].type /\ k < n
        BY <1>1, <2>2, <2>3
      <3>2. \A m \in DOMAIN outbox' : k < m /\ ReactionEvent(m, key)' => n <= m
        BY <1>1, <2>1, <2>3
      <3> QED
        BY <1>1, <1>2, <3>1, <3>2 DEF Alternates
    <2>4. ASSUME NEW m \in DOMAIN outbox,
                 k < m /\ ReactionEvent(m, key) /\ outbox[m].type # outbox[k].type,
                 \A j \in DOMAIN outbox : k < j /\ ReactionEvent(j, key) => m <= j
          PROVE  Alternates(k, key)'
      <3>1. m \in DOMAIN outbox' /\ m <= n /\ outbox'[m].type # outbox'[k].type
        BY <1>1, <2>4
      <3>2. \A j \in DOMAIN outbox' : k < j /\ ReactionEvent(j, key)' => m <= j
        BY <1>1, <2>1, <2>4, <3>1
      <3> QED
        BY <2>1, <2>4, <3>1, <3>2 DEF Alternates
    <2> QED
      BY <2>2, <2>3, <2>4 DEF Alternates
  <1> QED
    BY <1>1, <1>3, <1>4

LEMMA ReactionsSaidStep == Typed /\ Typed' /\ ReactionsSaid /\ [Next]_vars => ReactionsSaid'
  <1> SUFFICES ASSUME Typed, Typed', ReactionsSaid, [Next]_vars PROVE ReactionsSaid'
    OBVIOUS
  <1>1. ASSUME UNCHANGED <<reactions, outbox>> PROVE ReactionsSaid'
    BY <1>1 DEF ReactionsSaid, ReactionEvent, Alternates
  <1>2. ASSUME NEW e, Says(e), e.type \notin ReactionTypes, UNCHANGED reactions
        PROVE  ReactionsSaid'
    <2>1. \A k \in DOMAIN outbox' : \A key : ReactionEvent(k, key)' => Alternates(k, key)'
      BY <1>2, AlternatesStays DEF ReactionsSaid
    <2>2. \A k \in DOMAIN outbox : k \in DOMAIN outbox' /\ outbox'[k] = outbox[k]
      BY <1>2, SaysAppends
    <2>3. \A key \in reactions' : \E k \in DOMAIN outbox' : ReactionEvent(k, key)'
      BY <1>2, <2>2 DEF ReactionsSaid, ReactionEvent
    <2> QED
      BY <2>1, <2>3 DEF ReactionsSaid
  <1>3. CASE Silent
    BY <1>1, <1>2, <1>3 DEF Silent, OtherTypes
  <1>4. ASSUME NEW cmd \in Commands,
               Adds(cmd) \/ Edits(cmd) \/ Deletes(cmd) \/ \E n \in Nat : Reads(cmd, n)
        PROVE  ReactionsSaid'
    <2>1. UNCHANGED reactions /\ \E e : Says(e) /\ e.type \notin ReactionTypes
      BY <1>4 DEF Adds, Edits, Deletes, Rewrites, Reads, ReactionTypes
    <2> QED
      BY <1>2, <2>1
  <1>5. ASSUME NEW cmd \in Commands, Reacts(cmd) PROVE ReactionsSaid'
    <2> DEFINE rk == ReactionKey(cmd)
    <2>1. PICK e : /\ Says(e) /\ e.msg = cmd.msg /\ e.cmd = cmd
                   /\ \/ /\ e.type = "reaction.added" /\ rk \notin reactions
                         /\ reactions' = reactions \cup {rk}
                      \/ /\ e.type = "reaction.removed" /\ rk \in reactions
                         /\ reactions' = reactions \ {rk}
      BY <1>5 DEF Reacts
    <2>2. rk = <<e.msg, e.cmd.user, e.cmd.emoji>> /\ e.type \in ReactionTypes
      BY <2>1 DEF ReactionKey, ReactionTypes
    <2> HIDE DEF rk
    <2>3. \A k \in DOMAIN outbox' : ReactionEvent(k, rk)' => Alternates(k, rk)'
      BY <2>1, <2>2, AlternatesNow
    <2>4. ASSUME NEW key, key # rk
          PROVE  /\ \A k \in DOMAIN outbox' : ReactionEvent(k, key)' => Alternates(k, key)'
                 /\ key \in reactions' <=> key \in reactions
      <3>1. key \in reactions' <=> key \in reactions
        BY <2>1, <2>4
      <3>2. ASSUME NEW k \in DOMAIN outbox', ReactionEvent(k, key)'
            PROVE  Alternates(k, key)'
        <4>1. /\ k \in DOMAIN outbox /\ ReactionEvent(k, key)
              /\ Alternates(k, key) => Alternates(k, key)'
          BY <2>1, <2>2, <2>4, <3>1, <3>2, AlternatesStays
        <4> QED
          BY <4>1 DEF ReactionsSaid
      <3> QED
        BY <3>1, <3>2
    <2>5. PICK n : /\ n \in DOMAIN outbox' /\ outbox'[n] = e
                   /\ \A k \in DOMAIN outbox : k \in DOMAIN outbox' /\ outbox'[k] = outbox[k]
      BY <2>1, SaysAppends
    <2>6. ReactionEvent(n, rk)'
      BY <2>2, <2>5 DEF ReactionEvent, ReactionTypes
    <2>7. ASSUME NEW key \in reactions'
          PROVE  \E k \in DOMAIN outbox' : ReactionEvent(k, key)'
      <3>1. CASE key = rk
        BY <2>5, <2>6, <3>1
      <3>2. CASE key # rk
        <4>1. PICK k \in DOMAIN outbox : ReactionEvent(k, key)
          BY <2>4, <2>7, <3>2 DEF ReactionsSaid
        <4>2. k \in DOMAIN outbox' /\ ReactionEvent(k, key)'
          BY <2>5, <4>1 DEF ReactionEvent
        <4> QED
          BY <4>2
      <3> QED
        BY <3>1, <3>2
    <2>8. \A k \in DOMAIN outbox' : \A key : ReactionEvent(k, key)' => Alternates(k, key)'
      BY <2>3, <2>4
    <2> QED
      BY <2>7, <2>8 DEF ReactionsSaid
  <1> QED
    BY <1>3, <1>4, <1>5, StepEvents DEF Speaks

(* A client that applies the outbox in commit order ends up with the       *)
(* reactions and the contents of the tables, whichever replicas wrote them *)
(* (messages.ts:239-268, 299-327; reactions.ts:44-71, 102-121).            *)
THEOREM OutboxTellsTables == Spec => []OutboxReplays
  <1>1. Init => Typed /\ ContentSaid /\ ReactionsSaid
    BY InitTyped DEF Init, ContentSaid, ReactionsSaid
  <1>2. Typed /\ ContentSaid /\ ReactionsSaid /\ [Next]_vars
        => (Typed /\ ContentSaid /\ ReactionsSaid)'
    BY NextTyped, ContentSaidStep, ReactionsSaidStep
  <1>3. Typed /\ ContentSaid /\ ReactionsSaid => OutboxReplays
    BY ContentSaidReplays, ReactionsSaidReplay DEF OutboxReplays
  <1>4. QED
    BY <1>1, <1>2, <1>3, PTL DEF Spec

-----------------------------------------------------------------------------
(* Unread counters *)

Foreign(c, u) == {i \in DOMAIN messages : messages[i].conv = c /\ messages[i].sender # u}

(* The replicas that stored a message of another sender and have not yet   *)
(* counted it.                                                             *)
IsPosting(w, c, u) == /\ pc[w] = "post" /\ job[w].type = "message.send"
                      /\ job[w].conv = c /\ job[w].user # u
Posting(c, u) == {w \in Workers : IsPosting(w, c, u)}

(* What is counted and what is still to be counted are different messages. *)
Budget(c, u) == /\ IsFiniteSet(Posting(c, u))
                /\ unread[c][u] + Cardinality(Posting(c, u)) <= Cardinality(Foreign(c, u))
Counted == \A c \in Conversations, u \in Users : Budget(c, u)

LEMMA BudgetKept ==
    ASSUME NEW P, IsFiniteSet(P), NEW Q \in SUBSET P,
           NEW G, IsFiniteSet(G), NEW F \in SUBSET G,
           NEW n \in Nat, NEW m \in Nat, m <= n, n + Cardinality(P) <= Cardinality(F)
    PROVE  IsFiniteSet(Q) /\ m + Cardinality(Q) <= Cardinality(G)
  <1>1. IsFiniteSet(Q) /\ Cardinality(Q) <= Cardinality(P)
    BY FS_Subset, Zenon
  <1>2. IsFiniteSet(F) /\ Cardinality(F) <= Cardinality(G)
    BY FS_Subset, Zenon
  <1>3. /\ Cardinality(P) \in Nat /\ Cardinality(Q) \in Nat
        /\ Cardinality(F) \in Nat /\ Cardinality(G) \in Nat
    BY <1>1, <1>2, FS_CardinalityType, Zenon
  <1> QED
    BY <1>1, <1>2, <1>3

LEMMA BudgetSpent ==
    ASSUME NEW P, IsFiniteSet(P), NEW p \in P, NEW Q \in SUBSET (P \ {p}),
           NEW F, IsFiniteSet(F),
           NEW n \in Nat, NEW m \in Nat, m <= n + 1, n + Cardinality(P) <= Cardinality(F)
    PROVE  IsFiniteSet(Q) /\ m + Cardinality(Q) <= Cardinality(F)
  <1>1. IsFiniteSet(P \ {p}) /\ Cardinality(P \ {p}) = Cardinality(P) - 1
    BY FS_RemoveElement, Zenon
  <1>2. IsFiniteSet(Q) /\ Cardinality(Q) <= Cardinality(P \ {p})
    BY <1>1, FS_Subset, Zenon
  <1>3. Cardinality(P) \in Nat /\ Cardinality(Q) \in Nat /\ Cardinality(F) \in Nat
    BY <1>2, FS_CardinalityType, Zenon
  <1> QED
    BY <1>1, <1>2, <1>3

LEMMA BudgetRaised ==
    ASSUME NEW P, IsFiniteSet(P), NEW p, p \notin P, NEW Q \in SUBSET (P \cup {p}),
           NEW F, IsFiniteSet(F), NEW i, i \notin F, NEW n \in Nat,
           n + Cardinality(P) <= Cardinality(F)
    PROVE  IsFiniteSet(Q) /\ n + Cardinality(Q) <= Cardinality(F \cup {i})
  <1>1. IsFiniteSet(P \cup {p}) /\ Cardinality(P \cup {p}) = Cardinality(P) + 1
    BY FS_AddElement, Zenon
  <1>2. Cardinality(F \cup {i}) = Cardinality(F) + 1
    BY FS_AddElement, Zenon
  <1>3. IsFiniteSet(Q) /\ Cardinality(Q) <= Cardinality(P \cup {p})
    BY <1>1, FS_Subset, Zenon
  <1>4. Cardinality(P) \in Nat /\ Cardinality(Q) \in Nat /\ Cardinality(F) \in Nat
    BY <1>3, FS_CardinalityType, Zenon
  <1> QED
    BY <1>1, <1>2, <1>3, <1>4

AllFinite == \A c \in Conversations, u \in Users : IsFiniteSet(Foreign(c, u))
LEMMA ForeignFinite == Shapes => AllFinite
  <1> SUFFICES ASSUME Shapes, NEW c \in Conversations, NEW u \in Users
               PROVE  IsFiniteSet(Foreign(c, u))
    BY DEF AllFinite
  <1>1. Len(messages) \in Int /\ 1 \in Int
    BY DEF Shapes
  <1>2. IsFiniteSet(1 .. Len(messages))
    BY <1>1, FS_Interval, Zenon
  <1>3. Foreign(c, u) \in SUBSET (1 .. Len(messages))
    BY DEF Foreign, Shapes
  <1> QED
    BY <1>2, <1>3, FS_Subset, Zenon

(* Rows are only added, and keep conversation and author.                  *)
LEMMA ForeignGrows ==
    ASSUME Typed, Typed', [Next]_vars, NEW c, NEW u
    PROVE  Foreign(c, u) \subseteq Foreign(c, u)'
  <1>1. Shapes /\ Shapes'
    BY NextShapes
  <1>2. HistoryKept
    BY HistoryStep
  <1>3. DOMAIN messages \subseteq DOMAIN messages'
    BY <1>1, <1>2 DEF Shapes, HistoryKept
  <1> QED
    BY <1>2, <1>3 DEF Foreign, HistoryKept

(* Only the transaction of message.send makes a replica owe a count.       *)
LEMMA OwesLess ==
    ASSUME Typed, NEW w \in Workers, ~TxSend(w),
           \/ Handle(w)
           \/ Fail(w) \/ Crash(w) \/ Stop(w) \/ Exit(w) \/ Restart(w)
    PROVE  pc'[w] = "post" => /\ job'[w] = job[w]
                              /\ pc[w] = "post" \/ job[w].type # "message.send"
  <1>1. /\ pc \in [Workers -> {"idle", "check", "tx", "post", "ack"}]
        /\ job \in [Workers -> Commands \cup {NoCommand}]
    BY DEF Typed, TypeOK, WorkerOK
  <1>2. CASE DropInvalid(w) \/ Ack(w) \/ TxBotSendDuplicate(w)
             \/ TxReactionNoop(w) \/ TxReceiptStale(w) \/ TxSendDuplicate(w)
    <2>1. Puback(w) \/ Nack(w)
      BY <1>2 DEF DropInvalid, Ack, TxBotSendDuplicate, TxReactionNoop,
         TxReceiptStale, TxSendDuplicate, Return
    <2>2. pc'[w] # "post"
      BY <1>1, <2>1 DEF Puback, Nack
    <2> QED
      BY <2>2
  <1>3. CASE CheckSend(w) \/ CheckBotSend(w) \/ CheckChange(w) \/ CheckReceipt(w)
    <2>1. Goto(w, "tx") \/ Puback(w)
      BY <1>3 DEF CheckSend, CheckBotSend, CheckChange, CheckReceipt, Return
    <2>2. pc'[w] # "post"
      BY <1>1, <2>1 DEF Puback, Goto
    <2> QED
      BY <2>2
  <1>4. CASE PostSend(w) \/ PostRead(w) \/ TxBotSend(w) \/ TxEdit(w) \/ TxDelete(w)
             \/ TxAddReaction(w) \/ TxRemoveReaction(w) \/ TxDelivered(w)
    <2>1. Goto(w, "ack")
      BY <1>4 DEF PostSend, PostRead, TxBotSend, TxEdit, TxDelete, TxAddReaction,
         TxRemoveReaction, TxDelivered, Commit
    <2>2. pc'[w] # "post"
      BY <1>1, <2>1 DEF Goto
    <2> QED
      BY <2>2
  <1>5. CASE TxRead(w)
    BY <1>5 DEF TxRead, At, Goto
  <1>6. CASE Fail(w) \/ Crash(w) \/ Stop(w) \/ Exit(w) \/ Restart(w)
    <2>1. Nack(w) \/ (pc' = pc /\ job' = job)
      BY <1>6 DEF Fail, Crash, Stop, Exit, Restart, Leave
    <2> QED
      BY <1>1, <2>1 DEF Nack
  <1> QED
    BY <1>2, <1>3, <1>4, <1>5, <1>6 DEF Handle

LEMMA PostingShrinks ==
    ASSUME Typed, [Next]_vars, ~(\E w \in Workers : TxSend(w)), NEW c, NEW u
    PROVE  Posting(c, u)' \subseteq Posting(c, u)
  <1>1. CASE UNCHANGED <<pc, job>>
    BY <1>1 DEF Posting, IsPosting
  <1>2. ASSUME NEW w \in Workers, NEW cmd \in Commands, Deliver(w, cmd)
        PROVE  Posting(c, u)' \subseteq Posting(c, u)
    <2>1. \A v \in Workers : pc'[v] = "post" => pc'[v] = pc[v] /\ job'[v] = job[v]
      BY <1>2 DEF Deliver, Typed, TypeOK, WorkerOK
    <2> QED
      BY <2>1 DEF Posting, IsPosting
  <1>3. ASSUME NEW w \in Workers,
               \/ Handle(w)
               \/ Fail(w) \/ Crash(w) \/ Stop(w) \/ Exit(w) \/ Restart(w)
        PROVE  Posting(c, u)' \subseteq Posting(c, u)
    <2>1. \A v \in Workers : v # w => pc'[v] = pc[v] /\ job'[v] = job[v]
      BY <1>3, OthersArrive
    <2>2. pc'[w] = "post" => /\ job'[w] = job[w]
                             /\ pc[w] = "post" \/ job[w].type # "message.send"
      BY <1>3, OwesLess
    <2>3. \A v \in Workers : IsPosting(v, c, u)' => IsPosting(v, c, u)
      BY <2>1, <2>2 DEF IsPosting
    <2> QED
      BY <2>3 DEF Posting
  <1> QED
    BY <1>1, <1>2, <1>3 DEF Next, vars, workerVars, Publish, DeleteConversation,
       AddMembers, RemoveMember, ApiCall

(* Only PostSend counts.                                                   *)
LEMMA CountsLess ==
    ASSUME Typed, Typed', [Next]_vars, ~(\E w \in Workers : PostSend(w)),
           NEW c \in Conversations, NEW u \in Users
    PROVE  unread'[c][u] <= unread[c][u]
  <1>1. unread \in [Conversations -> [Users -> Nat]]
    BY DEF Typed, TypeOK, GroupOK
  <1>2. CASE UNCHANGED unread
    BY <1>1, <1>2
  <1>3. ASSUME NEW w \in Workers, PostRead(w)
        PROVE  unread'[c][u] <= unread[c][u]
    <2>1. CASE unread' = [unread EXCEPT ![job[w].conv][job[w].user] = 0]
      BY <1>1, <2>1
    <2> QED
      BY <1>2, <1>3, <2>1 DEF PostRead
  <1>4. ASSUME NEW w \in Workers, Handle(w) PROVE unread'[c][u] <= unread[c][u]
    <2>1. CASE PostRead(w)
      BY <1>3, <2>1
    <2>2. CASE ~PostRead(w)
      BY <1>2, <1>4, <2>2 DEF Handle, DropInvalid, Ack, CheckSend, TxSend,
         TxSendDuplicate, CheckBotSend, TxBotSend, TxBotSendDuplicate, CheckChange,
         TxEdit, TxDelete, TxAddReaction, TxRemoveReaction, TxReactionNoop,
         CheckReceipt, TxRead, TxDelivered, TxReceiptStale, Commit, Return
    <2> QED
      BY <2>1, <2>2
  <1> QED
    BY <1>2, <1>4 DEF Next, vars, Publish, Deliver, DeleteConversation, AddMembers,
       RemoveMember, ApiCall, Fail, Crash, Stop, Exit, Restart, Leave

LEMMA SendRaises ==
    ASSUME Typed, Typed', NEW w \in Workers, TxSend(w),
           NEW c \in Conversations, NEW u \in Users, Budget(c, u)
    PROVE  Budget(c, u)'
  <1>1. Shapes /\ Shapes'
    BY TypedShapes, PTL
  <1> DEFINE mine == job[w].conv = c /\ job[w].user # u
  <1>2. PICK n : /\ n \notin DOMAIN messages
                 /\ DOMAIN messages' = DOMAIN messages \cup {n}
                 /\ \A i \in DOMAIN messages : messages'[i] = messages[i]
                 /\ messages'[n].conv = job[w].conv
                 /\ messages'[n].sender = job[w].user
    <2>1. messages \in Seq(Message)
      BY DEF Typed, TypeOK, ChatOK
    <2>2. \E m : messages' = Append(messages, m) /\ m.conv = job[w].conv
                                                 /\ m.sender = job[w].user
      BY DEF TxSend, CreateMessage
    <2> QED
      BY <2>1, <2>2
  <1>3. /\ pc[w] = "tx" /\ pc' = [pc EXCEPT ![w] = "post"] /\ job' = job
        /\ unread' = unread /\ pc \in [Workers -> {"idle", "check", "tx", "post", "ack"}]
    BY DEF TxSend, At, Goto, Typed, TypeOK, WorkerOK
  <1>4. w \notin Posting(c, u) /\ Posting(c, u)' \subseteq Posting(c, u) \cup {w}
    BY <1>3 DEF Posting, IsPosting
  <1>5. unread[c][u] \in Nat /\ IsFiniteSet(Foreign(c, u)) /\ IsFiniteSet(Foreign(c, u)')
    <2>1. AllFinite /\ AllFinite'
      BY <1>1, ForeignFinite, PTL
    <2> QED
      BY <2>1 DEF AllFinite, Typed, TypeOK, GroupOK
  <1>6. IsFiniteSet(Posting(c, u))
        /\ unread[c][u] + Cardinality(Posting(c, u)) <= Cardinality(Foreign(c, u))
    BY DEF Budget
  <1>7. CASE mine
    <2>1. Foreign(c, u)' = Foreign(c, u) \cup {n} /\ n \notin Foreign(c, u)
      BY <1>2, <1>7 DEF Foreign
    <2>2. /\ IsFiniteSet(Posting(c, u)')
          /\ unread[c][u] + Cardinality(Posting(c, u)') <= Cardinality(Foreign(c, u) \cup {n})
      BY <1>4, <1>5, <1>6, <2>1, BudgetRaised, Zenon
    <2> QED
      BY <1>3, <2>1, <2>2 DEF Budget
  <1>8. CASE ~mine
    <2>1. Foreign(c, u) \subseteq Foreign(c, u)'
      BY <1>2 DEF Foreign
    <2>2. Posting(c, u)' \subseteq Posting(c, u)
      BY <1>3, <1>8 DEF Posting, IsPosting
    <2>3. /\ IsFiniteSet(Posting(c, u)')
          /\ unread'[c][u] + Cardinality(Posting(c, u)') <= Cardinality(Foreign(c, u)')
      <3>1. unread'[c][u] \in Nat /\ unread'[c][u] <= unread[c][u]
        BY <1>3, <1>5
      <3> QED
        BY <1>5, <1>6, <2>1, <2>2, <3>1, BudgetKept
    <2> QED
      BY <2>3 DEF Budget
  <1> QED
    BY <1>7, <1>8

LEMMA CountSpends ==
    ASSUME Typed, Typed', [Next]_vars, NEW w \in Workers, PostSend(w),
           NEW c \in Conversations, NEW u \in Users, Budget(c, u)
    PROVE  Budget(c, u)'
  <1>1. Shapes
    BY TypedShapes
  <1>2. /\ unread[c][u] \in Nat /\ unread'[c][u] \in Nat
        /\ IsFiniteSet(Foreign(c, u)) /\ UNCHANGED messages
    BY <1>1, ForeignFinite DEF AllFinite, Typed, TypeOK, GroupOK, PostSend, chatVars
  <1>3. Foreign(c, u)' = Foreign(c, u)
    BY <1>2 DEF Foreign
  <1>4. ~(\E v \in Workers : TxSend(v))
    <2>1. messages \in Seq(Message)
      BY DEF Typed, TypeOK, ChatOK
    <2>2. \A m : Append(messages, m) # messages
      BY <2>1
    <2> QED
      BY <1>2, <2>2 DEF TxSend, CreateMessage
  <1>5. Posting(c, u)' \subseteq Posting(c, u)
    BY <1>4, PostingShrinks
  <1>6. w \notin Posting(c, u)'
    <2>1. pc'[w] # "post"
      BY DEF PostSend, Goto, Typed, TypeOK, WorkerOK
    <2> QED
      BY <2>1 DEF Posting, IsPosting
  <1>7. IsFiniteSet(Posting(c, u))
        /\ unread[c][u] + Cardinality(Posting(c, u)) <= Cardinality(Foreign(c, u))
    BY DEF Budget
  <1>8. PICK S \in SUBSET (members[job[w].conv] \ {job[w].user}) :
           unread' = [unread EXCEPT ![job[w].conv] =
                        [v \in Users |-> IF v \in S THEN @[v] + 1 ELSE @[v]]]
    BY DEF PostSend
  <1>9. unread \in [Conversations -> [Users -> Nat]]
    BY DEF Typed, TypeOK, GroupOK
  <1>10. CASE job[w].conv = c /\ u \in S
    <2>1. unread'[c][u] <= unread[c][u] + 1
      BY <1>8, <1>9, <1>10
    <2>2. w \in Posting(c, u)
      BY <1>8, <1>10 DEF Posting, IsPosting, PostSend, At
    <2>3. Posting(c, u)' \in SUBSET (Posting(c, u) \ {w})
      BY <1>5, <1>6
    <2>4. /\ IsFiniteSet(Posting(c, u)')
          /\ unread'[c][u] + Cardinality(Posting(c, u)') <= Cardinality(Foreign(c, u))
      BY <1>2, <1>7, <2>1, <2>2, <2>3, BudgetSpent
    <2> QED
      BY <1>3, <2>4 DEF Budget
  <1>11. CASE ~(job[w].conv = c /\ u \in S)
    <2>1. unread'[c][u] <= unread[c][u]
      BY <1>8, <1>9, <1>11
    <2>2. /\ IsFiniteSet(Posting(c, u)')
          /\ unread'[c][u] + Cardinality(Posting(c, u)') <= Cardinality(Foreign(c, u))
      <3>1. Posting(c, u)' \in SUBSET Posting(c, u) /\ Foreign(c, u) \in SUBSET Foreign(c, u)
        BY <1>5
      <3> QED
        BY <1>2, <1>7, <2>1, <3>1, BudgetKept
    <2> QED
      BY <1>3, <2>2 DEF Budget
  <1> QED
    BY <1>10, <1>11

LEMMA CountedStep == Typed /\ Typed' /\ Counted /\ [Next]_vars => Counted'
  <1> SUFFICES ASSUME Typed, Typed', Counted, [Next]_vars,
                      NEW c \in Conversations, NEW u \in Users
               PROVE  Budget(c, u)'
    BY DEF Counted
  <1>1. Budget(c, u)
    BY DEF Counted
  <1>2. CASE \E w \in Workers : TxSend(w)
    BY <1>1, <1>2, SendRaises
  <1>3. CASE \E w \in Workers : PostSend(w)
    BY <1>1, <1>3, CountSpends
  <1>4. CASE ~(\E w \in Workers : TxSend(w)) /\ ~(\E w \in Workers : PostSend(w))
    <2>1. Posting(c, u)' \in SUBSET Posting(c, u) /\ Foreign(c, u) \in SUBSET Foreign(c, u)'
      BY <1>4, PostingShrinks, ForeignGrows
    <2>2. unread[c][u] \in Nat /\ unread'[c][u] \in Nat /\ unread'[c][u] <= unread[c][u]
      BY <1>4, CountsLess DEF Typed, TypeOK, GroupOK
    <2>3. Shapes'
      BY NextShapes
    <2>4. IsFiniteSet(Foreign(c, u)')
      <3>1. AllFinite'
        BY <2>3, ForeignFinite, PTL
      <3> QED
        BY <3>1 DEF AllFinite
    <2>5. IsFiniteSet(Posting(c, u))
          /\ unread[c][u] + Cardinality(Posting(c, u)) <= Cardinality(Foreign(c, u))
      BY <1>1 DEF Budget
    <2>6. /\ IsFiniteSet(Posting(c, u)')
          /\ unread'[c][u] + Cardinality(Posting(c, u)') <= Cardinality(Foreign(c, u)')
      BY <2>1, <2>2, <2>4, <2>5, BudgetKept
    <2> QED
      BY <2>6 DEF Budget
  <1> QED
    BY <1>2, <1>3, <1>4

LEMMA CountedBounds == Typed /\ Counted => UnreadBounded
  <1> SUFFICES ASSUME Typed, Counted, NEW c \in Conversations, NEW u \in Users
               PROVE  unread[c][u] <= Cardinality(Foreign(c, u))
    BY DEF UnreadBounded, Foreign
  <1>1. IsFiniteSet(Posting(c, u))
        /\ unread[c][u] + Cardinality(Posting(c, u)) <= Cardinality(Foreign(c, u))
    BY DEF Counted, Budget
  <1>2. Shapes
    BY TypedShapes
  <1>3. Cardinality(Posting(c, u)) \in Nat /\ Cardinality(Foreign(c, u)) \in Nat
    BY <1>1, <1>2, ForeignFinite, FS_CardinalityType, Zenon DEF AllFinite
  <1>4. unread[c][u] \in Nat
    BY DEF Typed, TypeOK, GroupOK
  <1> QED
    BY <1>1, <1>3, <1>4

LEMMA InitCounted == Init => Counted
  <1> SUFFICES ASSUME Init, NEW c \in Conversations, NEW u \in Users PROVE Budget(c, u)
    BY DEF Counted
  <1>1. Posting(c, u) = {} /\ Foreign(c, u) = {} /\ unread[c][u] = 0
    BY DEF Init, Posting, IsPosting, Foreign
  <1>2. IsFiniteSet({}) /\ Cardinality({}) = 0
    BY FS_EmptySet, Zenon
  <1> QED
    BY <1>1, <1>2 DEF Budget

(* No unread counter counts a message twice or one that is not stored,     *)
(* although it is written after the commit, by whichever replica, and the  *)
(* command may be redelivered (messages.ts:172-181, 191-206).              *)
THEOREM UnreadCounts == Spec => []UnreadBounded
  <1>1. Init => Typed /\ Counted
    BY InitTyped, InitCounted
  <1>2. Typed /\ Counted /\ [Next]_vars => (Typed /\ Counted)'
    BY NextTyped, CountedStep
  <1>3. QED
    BY <1>1, <1>2, CountedBounds, PTL DEF Spec
===============================================================================
