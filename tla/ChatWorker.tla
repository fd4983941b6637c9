------------------------------ MODULE ChatWorker ------------------------------
(***************************************************************************)
(* The chat-worker: replicas that share one QoS-1 subscription to the      *)
(* command topics, run one handler per delivered command against           *)
(* PostgreSQL, and send the PUBACK only after the handler has settled.     *)
(*                                                                         *)
(* Source: apps/chat-worker/src/worker.ts and handlers/, the deferred-ack  *)
(* bridge of packages/mqtt/src/index.ts, and the group endpoints of        *)
(* apps/api/src/controllers/chat.controller.ts that write the rows the     *)
(* handlers read.                                                          *)
(*                                                                         *)
(* A handler is several steps, because what it reads outside a transaction *)
(* may be stale when the transaction runs:                                 *)
(*   "check"  the reads and early returns before the transaction,          *)
(*   "tx"     the transaction, atomic at its commit,                       *)
(*   "post"   the best-effort Redis writes after the commit,               *)
(*   "ack"    the handler has resolved, the PUBACK is not yet sent.        *)
(* A replica runs one handler at a time (mqtt.js hands packets over one by *)
(* one); interleavings are between replicas, the API and the clients.      *)
(***************************************************************************)
EXTENDS Naturals, Sequences, FiniteSets

CONSTANTS
    Workers,        \* replicas of the chat-worker
    Users,          \* rows of table User (a bot has one too)
    Bots,           \* the users that are bots ("system-bot...")
    EnabledBots,    \* bots whose row says enabled
    NoUser,         \* a command envelope without actor.userId
    Conversations,
    Groups,         \* the conversations of type GROUP; the others are DIRECT
    InitMembers,    \* [Conversations -> SUBSET Users]
    InitAdmins,     \* members with role ADMIN
    ClientMessageIds,
    Contents,
    Empty,          \* the content "" of a deleted message
    Emojis,
    Commands,       \* the commands clients may publish, see Command below
    NoCommand,
    Workloads,      \* bound: what clients do in one behaviour, see Admits
    MaxFaults       \* bound: crashes, failed handlers and shutdowns

(* packages/mqtt-contracts/src/commands.ts; "invalid" stands for payloads  *)
(* that fail the envelope or the data schema.  replyTo and msg name a      *)
(* message by its row number, 0 is "no reply".                             *)
SendCommand == [type: {"message.send", "bot.send"}, cmid: ClientMessageIds,
                conv: Conversations, user: Users \cup {NoUser},
                content: Contents, replyTo: Nat]
EditCommand == [type: {"message.edit"}, msg: Nat, conv: Conversations,
                user: Users \cup {NoUser}, content: Contents]
DeleteCommand == [type: {"message.delete"}, msg: Nat, conv: Conversations,
                  user: Users \cup {NoUser}]
ReactionCommand == [type: {"reaction.add", "reaction.remove"}, msg: Nat,
                    conv: Conversations, user: Users \cup {NoUser},
                    emoji: Emojis]
ReceiptCommand == [type: {"receipt.read", "receipt.delivered"},
                   conv: Conversations, user: Users \cup {NoUser},
                   seq: Nat \ {0}]
InvalidCommand == [type: {"invalid"}]
Command == SendCommand \cup EditCommand \cup DeleteCommand
           \cup ReactionCommand \cup ReceiptCommand \cup InvalidCommand

ASSUME CommandsAssumption ==
    /\ Commands \subseteq Command
    /\ NoCommand \notin Command
ASSUME PeopleAssumption ==
    /\ NoUser \notin Users
    /\ EnabledBots \subseteq Bots
    /\ Bots \subseteq Users
ASSUME ConversationsAssumption ==
    /\ Groups \subseteq Conversations
    /\ InitMembers \in [Conversations -> SUBSET Users]
    /\ InitAdmins \in [Conversations -> SUBSET Users]
    /\ \A c \in Conversations : InitAdmins[c] \subseteq InitMembers[c]
ASSUME BoundsAssumption ==
    /\ Workloads \subseteq [publish : [Commands -> Nat], api : Nat]
    /\ MaxFaults \in Nat

VARIABLES
    copies,         \* [Commands -> Nat]: QoS-1 copies the broker still holds
    published,      \* [Commands -> Nat]: times a client published it
    acked,          \* commands the broker got a PUBACK for
    rejections,     \* commands answered with message.rejected
    life,           \* [Workers -> {"up", "stopping", "down"}]
    job,            \* [Workers -> the command being handled]
    pc,             \* [Workers -> the step the handler is at]
    accepted,       \* [Workers -> Nat]: a receipt handler's acceptedSequence
    lastSequence,   \* Conversation.lastSequence
    tombstones,     \* conversations with deletedAt set
    members,        \* the rows of ConversationMember
    admins,         \* ... of those, the ones with role ADMIN
    lastRead,       \* ConversationMember.lastReadSequence, 0 without a row
    lastDelivered,  \* ConversationMember.lastDeliveredSequence
    messages,       \* table Message; a row's id is its index
    reactions,      \* table MessageReaction: <<message, user, emoji>>
    outbox,         \* table OutboxEvent in commit order
    unread,         \* the Redis unread counters
    faults, apiCalls

brokerVars == <<copies, published, acked, rejections>>
workerVars == <<life, job, pc, accepted>>
groupVars  == <<tombstones, members, admins>>
markVars   == <<lastRead, lastDelivered>>
chatVars   == <<lastSequence, messages, reactions>>
countVars  == <<faults, apiCalls>>
vars == <<brokerVars, workerVars, groupVars, markVars, chatVars, outbox,
          unread, countVars>>

Message == [cmid: ClientMessageIds, conv: Conversations, seq: Nat \ {0},
            sender: Users, bot: BOOLEAN, content: Contents \cup {Empty},
            deleted: BOOLEAN, replyTo: Nat]

(* An outbox row: the command it answers carries the rest of the payload.  *)
(* "to" is the set of users whose own topic gets a row (one createMany), { } *)
(* for an event on a shared topic.                                         *)
EventTypes == {"message.created", "message.edited", "message.deleted",
               "reaction.added", "reaction.removed", "receipt.read",
               "receipt.delivered", "conversation.deleted",
               "conversation.member-joined", "conversation.member-left"}
Event == [type: EventTypes, conv: Conversations,
          cmd: Commands \cup {NoCommand}, msg: Nat, seq: Nat, to: SUBSET Users]

NewEvent(type, cmd, msg, seq, to) ==
    [type |-> type, conv |-> cmd.conv, cmd |-> cmd, msg |-> msg, seq |-> seq,
     to |-> to]
GroupEvent(type, c) ==
    [type |-> type, conv |-> c, cmd |-> NoCommand, msg |-> 0, seq |-> 0,
     to |-> {}]

Init ==
    /\ copies = [cmd \in Commands |-> 0]
    /\ published = [cmd \in Commands |-> 0]
    /\ acked = {}
    /\ rejections = {}
    /\ life = [w \in Workers |-> "up"]
    /\ job = [w \in Workers |-> NoCommand]
    /\ pc = [w \in Workers |-> "idle"]
    /\ accepted = [w \in Workers |-> 0]
    /\ lastSequence = [c \in Conversations |-> 0]
    /\ tombstones = {}
    /\ members = InitMembers
    /\ admins = InitAdmins
    /\ lastRead = [c \in Conversations |-> [u \in Users |-> 0]]
    /\ lastDelivered = [c \in Conversations |-> [u \in Users |-> 0]]
    /\ messages = <<>>
    /\ reactions = {}
    /\ outbox = <<>>
    /\ unread = [c \in Conversations |-> [u \in Users |-> 0]]
    /\ faults = 0
    /\ apiCalls = 0

-----------------------------------------------------------------------------
(* Broker and deferred acknowledgement *)

(* Some workload has that many publications and group endpoint calls.      *)
Admits(publications, calls) ==
    \E load \in Workloads : /\ calls <= load.api
                            /\ \A cmd \in Commands :
                                  publications[cmd] <= load.publish[cmd]

(* A client publishes a command, or publishes it again because it saw no   *)
(* canonical event (same clientMessageId).                                 *)
Publish(cmd) ==
    /\ published' = [published EXCEPT ![cmd] = @ + 1]
    /\ Admits(published', apiCalls)
    /\ copies' = [copies EXCEPT ![cmd] = @ + 1]
    /\ UNCHANGED <<acked, rejections, workerVars, groupVars, markVars,
                   chatVars, outbox, unread, countVars>>

(* The broker hands a copy to one replica of the shared group.             *)
Deliver(w, cmd) ==
    /\ life[w] = "up"
    /\ pc[w] = "idle"
    /\ copies[cmd] > 0
    /\ copies' = [copies EXCEPT ![cmd] = @ - 1]
    /\ job' = [job EXCEPT ![w] = cmd]
    /\ pc' = [pc EXCEPT ![w] = "check"]
    /\ UNCHANGED <<published, acked, rejections, life, accepted, groupVars,
                   markVars, chatVars, outbox, unread, countVars>>

(* The handler goes on with its next step.                                 *)
Goto(w, step) ==
    /\ pc' = [pc EXCEPT ![w] = step]
    /\ UNCHANGED <<job, copies, acked>>

(* The handler resolved: the PUBACK goes out, the broker forgets the copy. *)
Puback(w) ==
    /\ acked' = acked \cup {job[w]}
    /\ job' = [job EXCEPT ![w] = NoCommand]
    /\ pc' = [pc EXCEPT ![w] = "idle"]
    /\ accepted' = [accepted EXCEPT ![w] = 0]
    /\ UNCHANGED copies

(* The handler threw or died: no PUBACK, the broker keeps the copy.        *)
Nack(w) ==
    /\ copies' = [copies EXCEPT ![job[w]] = @ + 1]
    /\ job' = [job EXCEPT ![w] = NoCommand]
    /\ pc' = [pc EXCEPT ![w] = "idle"]
    /\ accepted' = [accepted EXCEPT ![w] = 0]
    /\ UNCHANGED acked

At(w, step, types) == /\ pc[w] = step
                      /\ job[w] # NoCommand
                      /\ job[w].type \in types

(* An early return: the command is acknowledged and changes nothing.       *)
Return(w) ==
    /\ Puback(w)
    /\ UNCHANGED <<published, life, groupVars, markVars, chatVars, outbox,
                   unread, countVars>>

(* consume: malformed payloads and unknown types are acked and dropped.    *)
DropInvalid(w) ==
    /\ At(w, "check", {"invalid"})
    /\ Return(w)
    /\ UNCHANGED rejections

(* The PUBACK of a handler whose last write is done.                       *)
Ack(w) ==
    /\ pc[w] = "ack"
    /\ Return(w)
    /\ UNCHANGED rejections

-----------------------------------------------------------------------------
(* message.send and bot.send *)

ReplyTargetOk(cmd) ==
    \/ cmd.replyTo = 0
    \/ /\ cmd.replyTo \in DOMAIN messages
       /\ messages[cmd.replyTo].conv = cmd.conv

(* handleMessageSend's checks; a missing userId is never a member.         *)
MaySend(cmd) == /\ cmd.user \in members[cmd.conv]
                /\ cmd.conv \notin tombstones
                /\ ReplyTargetOk(cmd)

(* handleBotSend's checks: the tombstone is not one of them.               *)
MayBotSend(cmd) == /\ cmd.user \in EnabledBots
                   /\ cmd.user \in members[cmd.conv]
                   /\ ReplyTargetOk(cmd)

CheckSend(w) ==
    /\ At(w, "check", {"message.send"})
    /\ \/ /\ MaySend(job[w])
          /\ Goto(w, "tx")
          /\ UNCHANGED <<published, rejections, life, accepted, groupVars,
                         markVars, chatVars, outbox, unread, countVars>>
       \/ /\ ~MaySend(job[w])
          /\ rejections' = rejections \cup {job[w]}
          /\ Return(w)

CheckBotSend(w) ==
    /\ At(w, "check", {"bot.send"})
    /\ \/ /\ MayBotSend(job[w])
          /\ Goto(w, "tx")
          /\ UNCHANGED <<published, life, accepted, groupVars, markVars,
                         chatVars, outbox, unread, countVars>>
       \/ ~MayBotSend(job[w]) /\ Return(w)
    /\ UNCHANGED rejections

(* Mutant: no unique index.                                                *)
MutantNoIndex(cmd) == FALSE

(* The unique index on Message.clientMessageId (global, schema.prisma:91). *)
P2002(cmd) == \E i \in DOMAIN messages : messages[i].cmid = cmd.cmid
SameConversation(cmd) == \E i \in DOMAIN messages :
                            /\ messages[i].cmid = cmd.cmid
                            /\ messages[i].conv = cmd.conv

(* UPDATE "Conversation" SET "lastSequence" = "lastSequence" + 1 RETURNING *)
NextSequence(c) == lastSequence[c] + 1

(* The transaction of both handlers: sequence, message and outbox row.     *)
(* The UNIQUE(conversationId, sequence) index is left out: the invariant   *)
(* SequencesDense shows it can never be the one that fires.                *)
CreateMessage(cmd, bot) ==
    /\ ~P2002(cmd)
    /\ lastSequence' = [lastSequence EXCEPT ![cmd.conv] = NextSequence(cmd.conv)]
    /\ messages' = Append(messages,
         [cmid |-> cmd.cmid, conv |-> cmd.conv, seq |-> NextSequence(cmd.conv),
          sender |-> cmd.user, bot |-> bot, content |-> cmd.content,
          deleted |-> FALSE, replyTo |-> cmd.replyTo])
    /\ outbox' = Append(outbox,
         NewEvent("message.created", cmd, Len(messages) + 1,
                  NextSequence(cmd.conv), {}))
    /\ UNCHANGED reactions

(* "Conversation not found" cannot happen after the membership check: a    *)
(* member row references its conversation and no code deletes one.         *)
TxSend(w) ==
    /\ At(w, "tx", {"message.send"})
    /\ CreateMessage(job[w], FALSE)
    /\ Goto(w, "post")
    /\ UNCHANGED <<published, rejections, life, accepted, groupVars, markVars,
                   unread, countVars>>

(* Mutants of the duplicate path: the increment survives the rollback; the *)
(* unread counters are incremented again; the error is always rethrown.    *)
MutantSequenceKept(w) ==
    /\ At(w, "tx", {"message.send"}) /\ P2002(job[w]) /\ Puback(w)
    /\ lastSequence' = [lastSequence EXCEPT ![job[w].conv] = @ + 1]
    /\ UNCHANGED <<published, rejections, life, groupVars, markVars, messages,
                   reactions, outbox, unread, countVars>>
MutantCountsAgain(w) ==
    /\ At(w, "tx", {"message.send"}) /\ P2002(job[w]) /\ Goto(w, "post")
    /\ UNCHANGED <<published, rejections, life, accepted, groupVars, markVars,
                   chatVars, outbox, unread, countVars>>
MutantRethrows(w) ==
    /\ At(w, "tx", {"message.send"}) /\ P2002(job[w]) /\ Nack(w)
    /\ UNCHANGED <<published, rejections, life, groupVars, markVars, chatVars,
                   outbox, unread, countVars>>

(* Duplicate clientMessageId: rolled back, then acked without re-emitting  *)
(* when the stored message is of the same conversation, rethrown if not.   *)
TxSendDuplicate(w) ==
    /\ At(w, "tx", {"message.send"})
    /\ P2002(job[w])
    /\ \/ SameConversation(job[w]) /\ Puback(w)
       \/ ~SameConversation(job[w]) /\ Nack(w)
    /\ UNCHANGED <<published, rejections, life, groupVars, markVars, chatVars,
                   outbox, unread, countVars>>

TxBotSend(w) ==
    /\ At(w, "tx", {"bot.send"})
    /\ CreateMessage(job[w], TRUE)
    /\ Goto(w, "ack")
    /\ UNCHANGED <<published, rejections, life, accepted, groupVars, markVars,
                   unread, countVars>>

TxBotSendDuplicate(w) ==
    /\ At(w, "tx", {"bot.send"})
    /\ P2002(job[w])
    /\ Return(w)
    /\ UNCHANGED rejections

(* Unread counters of the other members, each increment best-effort.       *)
PostSend(w) ==
    /\ At(w, "post", {"message.send"})
    /\ \E S \in SUBSET (members[job[w].conv] \ {job[w].user}) :
          unread' = [unread EXCEPT ![job[w].conv] =
                       [u \in Users |-> IF u \in S THEN @[u] + 1 ELSE @[u]]]
    /\ Goto(w, "ack")
    /\ UNCHANGED <<published, rejections, life, accepted, groupVars, markVars,
                   chatVars, outbox, countVars>>

-----------------------------------------------------------------------------
(* message.edit and message.delete: checked outside the transaction *)

Found(cmd) == /\ cmd.msg \in DOMAIN messages
              /\ messages[cmd.msg].conv = cmd.conv
Author(cmd) == messages[cmd.msg].sender = cmd.user /\ ~messages[cmd.msg].bot

MayEdit(cmd) == Found(cmd) /\ Author(cmd) /\ ~messages[cmd.msg].deleted
MayDelete(cmd) == /\ Found(cmd)
                  /\ Author(cmd) \/ cmd.user \in admins[cmd.conv]
                  /\ ~messages[cmd.msg].deleted
MayAddReaction(cmd) == /\ Found(cmd)
                       /\ ~messages[cmd.msg].deleted
                       /\ cmd.user \in members[cmd.conv]
MayRemoveReaction(cmd) == cmd.user \in members[cmd.conv]

(* Each of the four handlers reads its guard before it opens a transaction *)
(* and returns silently when the guard fails.                              *)
May(cmd) == CASE cmd.type = "message.edit"    -> MayEdit(cmd)
              [] cmd.type = "message.delete"  -> MayDelete(cmd)
              [] cmd.type = "reaction.add"    -> MayAddReaction(cmd)
              [] cmd.type = "reaction.remove" -> MayRemoveReaction(cmd)

CheckChange(w) ==
    /\ At(w, "check", {"message.edit", "message.delete", "reaction.add",
                       "reaction.remove"})
    /\ \/ /\ May(job[w])
          /\ Goto(w, "tx")
          /\ UNCHANGED <<published, life, accepted, groupVars, markVars,
                         chatVars, outbox, unread, countVars>>
       \/ ~May(job[w]) /\ Return(w)
    /\ UNCHANGED rejections

(* What the transactions of the four handlers leave alone.                 *)
Commit(w, event) ==
    /\ outbox' = Append(outbox, event)
    /\ Goto(w, "ack")
    /\ UNCHANGED <<published, rejections, life, accepted, groupVars, markVars,
                   lastSequence, unread, countVars>>

TxEdit(w) ==
    /\ At(w, "tx", {"message.edit"})
    /\ messages' = [messages EXCEPT ![job[w].msg].content = job[w].content]
    /\ Commit(w, NewEvent("message.edited", job[w], job[w].msg, 0, {}))
    /\ UNCHANGED reactions

TxDelete(w) ==
    /\ At(w, "tx", {"message.delete"})
    /\ messages' = [messages EXCEPT ![job[w].msg].content = Empty,
                                    ![job[w].msg].deleted = TRUE]
    /\ Commit(w, NewEvent("message.deleted", job[w], job[w].msg, 0, {}))
    /\ UNCHANGED reactions

(* The composite primary key of MessageReaction tells a transition from a  *)
(* redelivery: only a row really created or removed gets an event.         *)
ReactionKey(cmd) == <<cmd.msg, cmd.user, cmd.emoji>>

(* Mutant: an upsert, which cannot tell a redelivery from a new reaction.  *)
MutantUpsert(w) ==
    /\ At(w, "tx", {"reaction.add"})
    /\ reactions' = reactions \cup {ReactionKey(job[w])}
    /\ Commit(w, NewEvent("reaction.added", job[w], job[w].msg, 0, {}))
    /\ UNCHANGED messages

TxAddReaction(w) ==
    /\ At(w, "tx", {"reaction.add"})
    /\ ReactionKey(job[w]) \notin reactions
    /\ reactions' = reactions \cup {ReactionKey(job[w])}
    /\ Commit(w, NewEvent("reaction.added", job[w], job[w].msg, 0, {}))
    /\ UNCHANGED messages

(* deleteMany also matches the row's conversation.                         *)
ReactionMatches(cmd) == /\ ReactionKey(cmd) \in reactions
                        /\ messages[cmd.msg].conv = cmd.conv

TxRemoveReaction(w) ==
    /\ At(w, "tx", {"reaction.remove"})
    /\ ReactionMatches(job[w])
    /\ reactions' = reactions \ {ReactionKey(job[w])}
    /\ Commit(w, NewEvent("reaction.removed", job[w], job[w].msg, 0, {}))
    /\ UNCHANGED messages

TxReactionNoop(w) ==
    /\ \/ At(w, "tx", {"reaction.add"}) /\ ReactionKey(job[w]) \in reactions
       \/ At(w, "tx", {"reaction.remove"}) /\ ~ReactionMatches(job[w])
    /\ Return(w)
    /\ UNCHANGED rejections

-----------------------------------------------------------------------------
(* receipt.read and receipt.delivered: one transaction at READ COMMITTED,  *)
(* so another replica may commit between its read and its update           *)

Clamp(n, last) == IF n <= last THEN n ELSE last

Mark(cmd) == IF cmd.type = "receipt.read"
             THEN lastRead[cmd.conv][cmd.user]
             ELSE lastDelivered[cmd.conv][cmd.user]

(* The membership row, the clamp, and the return when nothing advances.    *)
CheckReceipt(w) ==
    LET cmd == job[w]
        acceptedSequence == Clamp(cmd.seq, lastSequence[cmd.conv])
        advances == /\ cmd.user \in members[cmd.conv]
                    /\ acceptedSequence > Mark(cmd)
    IN  /\ At(w, "check", {"receipt.read", "receipt.delivered"})
        /\ \/ /\ advances
              /\ accepted' = [accepted EXCEPT ![w] = acceptedSequence]
              /\ Goto(w, "tx")
              /\ UNCHANGED <<published, life, groupVars, markVars, chatVars,
                             outbox, unread, countVars>>
           \/ ~advances /\ Return(w)
        /\ UNCHANGED rejections

(* Mutant: the update is not conditional on the stored mark.               *)
MutantBlindUpdate(w) == job[w].user \in members[job[w].conv]

(* updateMany ... WHERE the mark is still below the accepted sequence.     *)
CompareAndAdvance(w) == /\ job[w].user \in members[job[w].conv]
                        /\ Mark(job[w]) < accepted[w]

(* Mutant: the reader's own devices are left out.                          *)
MutantOthersOnly(cmd) == members[cmd.conv] \ {cmd.user}

ReadRecipients(cmd) == members[cmd.conv]
DeliveredRecipients(cmd) == members[cmd.conv] \ {cmd.user}

TxRead(w) ==
    LET cmd == job[w]
    IN  /\ At(w, "tx", {"receipt.read"})
        /\ CompareAndAdvance(w)
        /\ lastRead' = [lastRead EXCEPT ![cmd.conv][cmd.user] = accepted[w]]
        /\ outbox' = Append(outbox, NewEvent("receipt.read", cmd, 0,
                                             accepted[w], ReadRecipients(cmd)))
        /\ Goto(w, "post")
        /\ UNCHANGED <<published, rejections, life, accepted, groupVars,
                       lastDelivered, chatVars, unread, countVars>>

TxDelivered(w) ==
    LET cmd == job[w]
    IN  /\ At(w, "tx", {"receipt.delivered"})
        /\ CompareAndAdvance(w)
        /\ lastDelivered' =
             [lastDelivered EXCEPT ![cmd.conv][cmd.user] = accepted[w]]
        /\ outbox' = Append(outbox, NewEvent("receipt.delivered", cmd, 0,
                                     accepted[w], DeliveredRecipients(cmd)))
        /\ Goto(w, "ack")
        /\ UNCHANGED <<published, rejections, life, accepted, groupVars,
                       lastRead, chatVars, unread, countVars>>

TxReceiptStale(w) ==
    /\ At(w, "tx", {"receipt.read", "receipt.delivered"})
    /\ ~CompareAndAdvance(w)
    /\ Return(w)
    /\ UNCHANGED rejections

(* unread.reset, best-effort: a Redis error is swallowed.                  *)
PostRead(w) ==
    /\ At(w, "post", {"receipt.read"})
    /\ \/ unread' = [unread EXCEPT ![job[w].conv][job[w].user] = 0]
       \/ UNCHANGED unread
    /\ Goto(w, "ack")
    /\ UNCHANGED <<published, rejections, life, accepted, groupVars, markVars,
                   chatVars, outbox, countVars>>

-----------------------------------------------------------------------------
(* Faults and shutdown *)

(* Mutant: mqtt.js' default, the PUBACK goes out whatever the handler does. *)
MutantAcksFailure(w) ==
    /\ faults < MaxFaults
    /\ pc[w] \in {"check", "tx"}
    /\ Puback(w)
    /\ faults' = faults + 1
    /\ UNCHANGED <<published, rejections, life, groupVars, markVars, chatVars,
                   outbox, unread, apiCalls>>

(* A database error: the handler rejects, the bridge skips the PUBACK.     *)
(* After the commit only message.send still reads the database.            *)
Fail(w) ==
    /\ faults < MaxFaults
    /\ \/ pc[w] \in {"check", "tx"}
       \/ At(w, "post", {"message.send"})
    /\ Nack(w)
    /\ faults' = faults + 1
    /\ UNCHANGED <<published, rejections, life, groupVars, markVars, chatVars,
                   outbox, unread, apiCalls>>

(* The process goes: an unacknowledged command returns to the broker.      *)
Leave(w) ==
    /\ life' = [life EXCEPT ![w] = "down"]
    /\ \/ pc[w] = "idle" /\ UNCHANGED <<copies, acked, job, pc, accepted>>
       \/ pc[w] # "idle" /\ Nack(w)
    /\ UNCHANGED <<published, rejections, groupVars, markVars, chatVars,
                   outbox, unread, apiCalls>>

Crash(w) ==
    /\ faults < MaxFaults
    /\ life[w] # "down"
    /\ faults' = faults + 1
    /\ Leave(w)

(* ChatWorker.stop: leave the group, let the handler drain ...             *)
Stop(w) ==
    /\ faults < MaxFaults
    /\ life[w] = "up"
    /\ life' = [life EXCEPT ![w] = "stopping"]
    /\ faults' = faults + 1
    /\ UNCHANGED <<brokerVars, job, pc, accepted, groupVars, markVars,
                   chatVars, outbox, unread, apiCalls>>

(* ... and exit, after 10 s also with the handler still in flight.         *)
Exit(w) ==
    /\ life[w] = "stopping"
    /\ Leave(w)
    /\ UNCHANGED faults

Restart(w) ==
    /\ life[w] = "down"
    /\ life' = [life EXCEPT ![w] = "up"]
    /\ UNCHANGED <<brokerVars, job, pc, accepted, groupVars, markVars,
                   chatVars, outbox, unread, countVars>>

-----------------------------------------------------------------------------
(* The transactions of the API's group endpoints.  Their checks are made   *)
(* before, on a snapshot that may be stale by now (module Groups has them, *)
(* and the overlap of transactions), so one may come at any time.          *)

ApiCall(event) ==
    /\ apiCalls' = apiCalls + 1
    /\ Admits(published, apiCalls')
    /\ outbox' = Append(outbox, event)
    /\ UNCHANGED <<brokerVars, workerVars, chatVars, unread, faults>>

DeleteConversation(c) ==
    /\ c \in Groups
    /\ tombstones' = tombstones \cup {c}
    /\ ApiCall(GroupEvent("conversation.deleted", c))
    /\ UNCHANGED <<members, admins, markVars>>

AddMembers(c, S) ==
    /\ c \in Groups
    /\ members' = [members EXCEPT ![c] = @ \cup S]
    /\ ApiCall(GroupEvent("conversation.member-joined", c))
    /\ UNCHANGED <<tombstones, admins, markVars>>

(* The member row goes with its watermarks; a human may be promoted in the *)
(* same transaction.  Overlapping removals can leave the group empty.      *)
RemoveMember(c, u) ==
    LET remaining == members[c] \ {u}
    IN  /\ c \in Groups
        /\ members' = [members EXCEPT ![c] = remaining]
        /\ \/ admins' = [admins EXCEPT ![c] = @ \ {u}]
           \/ \E s \in remaining \ Bots :
                 admins' = [admins EXCEPT ![c] = (@ \ {u}) \cup {s}]
        /\ lastRead' = [lastRead EXCEPT ![c][u] = 0]
        /\ lastDelivered' = [lastDelivered EXCEPT ![c][u] = 0]
        /\ ApiCall(GroupEvent("conversation.member-left", c))
        /\ UNCHANGED tombstones

-----------------------------------------------------------------------------
Handle(w) ==
    \/ DropInvalid(w) \/ Ack(w)
    \/ CheckSend(w) \/ TxSend(w) \/ TxSendDuplicate(w) \/ PostSend(w)
    \/ CheckBotSend(w) \/ TxBotSend(w) \/ TxBotSendDuplicate(w)
    \/ CheckChange(w) \/ TxEdit(w) \/ TxDelete(w)
    \/ TxAddReaction(w) \/ TxRemoveReaction(w) \/ TxReactionNoop(w)
    \/ CheckReceipt(w) \/ TxRead(w) \/ TxDelivered(w) \/ TxReceiptStale(w)
    \/ PostRead(w)

Next ==
    \/ \E cmd \in Commands : Publish(cmd)
    \/ \E w \in Workers, cmd \in Commands : Deliver(w, cmd)
    \/ \E w \in Workers : Handle(w)
    \/ \E w \in Workers : Fail(w) \/ Crash(w) \/ Stop(w) \/ Exit(w) \/ Restart(w)
    \/ \E c \in Conversations :
          \/ DeleteConversation(c)
          \/ \E S \in (SUBSET Users) \ {{}} : AddMembers(c, S)
          \/ \E u \in Users : RemoveMember(c, u)

Spec == Init /\ [][Next]_vars

(* A live replica keeps taking commands and its handler keeps running; no  *)
(* fairness for clients, faults, restarts or the API.                      *)
Fairness == \A w \in Workers :
               /\ WF_vars(Handle(w))
               /\ WF_vars(\E cmd \in Commands : Deliver(w, cmd))
LiveSpec == Spec /\ Fairness
-----------------------------------------------------------------------------
(* Properties *)

BrokerOK == /\ copies \in [Commands -> Nat]
            /\ published \in [Commands -> Nat]
            /\ acked \subseteq Commands
            /\ rejections \subseteq Commands
WorkerOK == /\ life \in [Workers -> {"up", "stopping", "down"}]
            /\ job \in [Workers -> Commands \cup {NoCommand}]
            /\ pc \in [Workers -> {"idle", "check", "tx", "post", "ack"}]
            /\ \A w \in Workers : pc[w] = "idle" <=> job[w] = NoCommand
            /\ accepted \in [Workers -> Nat]
GroupOK == /\ tombstones \subseteq Groups
           /\ members \in [Conversations -> SUBSET Users]
           /\ admins \in [Conversations -> SUBSET Users]
           /\ lastRead \in [Conversations -> [Users -> Nat]]
           /\ lastDelivered \in [Conversations -> [Users -> Nat]]
           /\ unread \in [Conversations -> [Users -> Nat]]
ChatOK == /\ lastSequence \in [Conversations -> Nat]
          /\ messages \in Seq(Message)
          /\ reactions \subseteq (1 .. Len(messages)) \X Users \X Emojis
          /\ outbox \in Seq(Event)

(* The state stays well typed: rows, events and counters have the columns  *)
(* of schema.prisma, a replica holds a command exactly while it handles    *)
(* one, and a reaction belongs to a stored message.                        *)
TypeOK == /\ BrokerOK /\ WorkerOK /\ GroupOK /\ ChatOK
          /\ faults \in Nat /\ apiCalls \in Nat

(* Sequences are dense and unique: the messages of a conversation carry    *)
(* exactly the numbers 1..lastSequence, each once, whatever was retried,   *)
(* deduplicated or rolled back (messages.ts:121-170, bot-send.ts:55-116).  *)
SequencesDense ==
    /\ \A i \in DOMAIN messages :
          messages[i].seq \in 1 .. lastSequence[messages[i].conv]
    /\ \A i, j \in DOMAIN messages :
          /\ messages[i].conv = messages[j].conv
          /\ messages[i].seq = messages[j].seq
          => i = j
    /\ \A c \in Conversations : \A n \in 1 .. lastSequence[c] :
          \E i \in DOMAIN messages :
             messages[i].conv = c /\ messages[i].seq = n

(* A clientMessageId is stored at most once, under client retries, broker  *)
(* redelivery and two replicas handling copies of one command at a time    *)
(* (messages.ts:190-207).                                                  *)
ClientMessageIdUnique ==
    \A i, j \in DOMAIN messages : messages[i].cmid = messages[j].cmid => i = j

IsCreated(k) == outbox[k].type = "message.created"

(* Every message has exactly one message.created row, with its sequence:   *)
(* no message without its event, no event without its message, no second   *)
(* event on a retry (messages.ts:157-165, 191-206).                        *)
CreatedOnce ==
    /\ \A i \in DOMAIN messages : \E k \in DOMAIN outbox :
          /\ IsCreated(k) /\ outbox[k].msg = i
          /\ outbox[k].seq = messages[i].seq
          /\ outbox[k].conv = messages[i].conv
          /\ \A m \in DOMAIN outbox :
                IsCreated(m) /\ outbox[m].msg = i => m = k
    /\ \A k \in DOMAIN outbox : IsCreated(k) => outbox[k].msg \in DOMAIN messages

(* The created rows of a conversation enter the outbox in sequence order,  *)
(* although the replicas that write them do not know of each other (the    *)
(* row lock taken by UPDATE ... RETURNING, messages.ts:124-132).           *)
CreatedInOrder ==
    \A j, k \in DOMAIN outbox :
        /\ j < k /\ IsCreated(j) /\ IsCreated(k)
        /\ outbox[j].conv = outbox[k].conv
        => outbox[j].seq < outbox[k].seq

Stored(cmd) == \E i \in DOMAIN messages :
                  messages[i].cmid = cmd.cmid /\ messages[i].conv = cmd.conv

(* The deferred PUBACK: a message.send the broker was told to forget is    *)
(* either stored or its sender was told it was rejected; a crash, an error *)
(* or a shutdown between the steps never loses it (mqtt index.ts:65-87).   *)
NoSilentLoss ==
    \A cmd \in acked : cmd.type = "message.send" =>
        Stored(cmd) \/ cmd \in rejections

ReactionEvent(k, key) ==
    /\ outbox[k].type \in {"reaction.added", "reaction.removed"}
    /\ key = <<outbox[k].msg, outbox[k].cmd.user, outbox[k].cmd.emoji>>

(* Replaying the reaction events gives the reaction table, and only real   *)
(* transitions have one: the last event of a key says whether the row      *)
(* exists, and successive events of a key alternate (reactions.ts:44-71,   *)
(* 102-121).                                                               *)
ReactionsReplay ==
    /\ \A k \in DOMAIN outbox :
          outbox[k].type \in {"reaction.added", "reaction.removed"} =>
             LET key == <<outbox[k].msg, outbox[k].cmd.user, outbox[k].cmd.emoji>>
                 next == {m \in k + 1 .. Len(outbox) : ReactionEvent(m, key)}
             IN  \/ /\ next = {}
                    /\ (key \in reactions) <=> (outbox[k].type = "reaction.added")
                 \/ \E m \in next : /\ \A n \in next : m <= n
                                    /\ outbox[m].type # outbox[k].type
    /\ \A key \in reactions : \E k \in DOMAIN outbox : ReactionEvent(k, key)

ContentEvent(k, i) ==
    /\ outbox[k].type \in {"message.created", "message.edited", "message.deleted"}
    /\ outbox[k].msg = i
EventContent(k) == IF outbox[k].type = "message.deleted" THEN Empty
                   ELSE outbox[k].cmd.content

(* A client that applies the content events in commit order shows what the *)
(* table holds: the last of them carries the stored content, and a message *)
(* is deleted iff its deletion was announced (messages.ts:239-268,         *)
(* 299-327).                                                               *)
ContentReplays ==
    \A i \in DOMAIN messages :
        /\ \E k \in DOMAIN outbox :
              /\ ContentEvent(k, i)
              /\ EventContent(k) = messages[i].content
              /\ \A m \in k + 1 .. Len(outbox) : ~ContentEvent(m, i)
        /\ messages[i].deleted <=>
              \E k \in DOMAIN outbox : outbox[k].type = "message.deleted"
                                       /\ outbox[k].msg = i

(* No member's watermark passes the end of its conversation, however large *)
(* the sequence in the command and however stale the handler's read        *)
(* (receipts.ts:33-37).                                                    *)
WatermarksBounded ==
    \A c \in Conversations, u \in Users :
        lastRead[c][u] <= lastSequence[c] /\ lastDelivered[c][u] <= lastSequence[c]

(* The log is sound, whatever is retried, redelivered, raced for or rolled *)
(* back: sequences are dense and unique, a clientMessageId is stored once, *)
(* every message has one message.created row, these enter the outbox in    *)
(* sequence order, and no watermark passes the end.                        *)
LogSound == /\ SequencesDense /\ ClientMessageIdUnique
            /\ CreatedOnce /\ CreatedInOrder
            /\ WatermarksBounded

(* A client that applies the outbox in commit order ends up with the       *)
(* reactions and the contents of the tables, edits and deletions racing.   *)
OutboxReplays == ReactionsReplay /\ ContentReplays

ReceiptEvent(k, type, c, u) == /\ outbox[k].type = type
                               /\ outbox[k].conv = c
                               /\ outbox[k].cmd.user = u

(* A durable read watermark is the one last announced, and the reader's    *)
(* own devices are among the recipients: no crash leaves an advance        *)
(* without its events (receipts.ts:52-79).                                 *)
ReadAnnounced ==
    \A c \in Conversations, u \in Users : lastRead[c][u] > 0 =>
        \E k \in DOMAIN outbox :
           /\ ReceiptEvent(k, "receipt.read", c, u)
           /\ outbox[k].seq = lastRead[c][u]
           /\ u \in outbox[k].to
           /\ \A m \in k + 1 .. Len(outbox) : ~ReceiptEvent(m, "receipt.read", c, u)

(* While a member stays, its watermarks never move backwards: the older of *)
(* two concurrent receipts loses (receipts.ts:39-50, 109-117).             *)
WatermarksAdvance ==
    \A c \in Conversations, u \in Users :
        u \in members[c] /\ u \in members'[c] =>
           /\ lastRead'[c][u] >= lastRead[c][u]
           /\ lastDelivered'[c][u] >= lastDelivered[c][u]

(* History is never rewritten: a stored message keeps its identity, place  *)
(* and author for good and is never undeleted, and outbox rows are only    *)
(* ever appended.                                                          *)
HistoryKept ==
    /\ Len(messages') >= Len(messages) /\ Len(outbox') >= Len(outbox)
    /\ \A k \in DOMAIN outbox : outbox'[k] = outbox[k]
    /\ \A i \in DOMAIN messages :
          /\ messages'[i].cmid = messages[i].cmid
          /\ messages'[i].conv = messages[i].conv
          /\ messages'[i].seq = messages[i].seq
          /\ messages'[i].sender = messages[i].sender
          /\ messages[i].deleted => messages'[i].deleted

(* Nothing moves back: stored history is only appended to and a member's   *)
(* watermarks only advance, whichever replica commits last.                *)
NeverBack == [][HistoryKept /\ WatermarksAdvance]_vars

(* An unread counter never counts a message twice or one that does not     *)
(* exist, although it is written after the commit and the command may be   *)
(* redelivered (messages.ts:172-181).                                      *)
UnreadBounded ==
    \A c \in Conversations, u \in Users :
        unread[c][u] <= Cardinality({i \in DOMAIN messages :
                            messages[i].conv = c /\ messages[i].sender # u})

(* Every published command is settled in the end: while one replica lives, *)
(* no command is redelivered for ever (worker.ts:81-86).                   *)
CommandsSettle ==
    \A cmd \in Commands :
        copies[cmd] > 0 ~> copies[cmd] = 0 /\ \A w \in Workers : job[w] # cmd
-----------------------------------------------------------------------------
(* The log a conversation's rows spell, ordered by sequence.               *)
ClientIdAt(c, n) == messages[CHOOSE i \in DOMAIN messages :
                       messages[i].conv = c /\ messages[i].seq = n].cmid
LogOf == [c \in Conversations |-> [n \in 1 .. lastSequence[c] |-> ClientIdAt(c, n)]]

Abstract == INSTANCE ChatLog WITH log <- LogOf, read <- lastRead

(* The replicas, with their retries, races and crashes, implement the one  *)
(* log per conversation of module ChatLog.                                 *)
ImplementsChatLog == Abstract!Spec
===============================================================================
