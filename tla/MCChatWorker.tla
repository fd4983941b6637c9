----------------------------- MODULE MCChatWorker -----------------------------
(* Small instances of ChatWorker.                                          *)
EXTENDS ChatWorker, TLC

CONSTANTS w1, w2, alice, bob, bot, room, direct, x, y, hi, yo, like

MCUsers == {alice, bob, bot}
Humans == {alice, bob}
MCMembers == [c \in Conversations |-> IF c = room THEN Users ELSE Humans]
MCAdmins == [c \in Conversations |-> IF c = room THEN {alice} ELSE {}]
Symmetry == Permutations(Workers)

Send(id, c, u, reply) == [type |-> "message.send", cmid |-> id, conv |-> c,
                          user |-> u, content |-> hi, replyTo |-> reply]
BotSend(id, c) == [type |-> "bot.send", cmid |-> id, conv |-> c, user |-> bot,
                   content |-> hi, replyTo |-> 0]
Edit(i, u) == [type |-> "message.edit", msg |-> i, conv |-> room, user |-> u,
               content |-> yo]
Delete(i, u) == [type |-> "message.delete", msg |-> i, conv |-> room, user |-> u]
React(kind, i, u) == [type |-> kind, msg |-> i, conv |-> room, user |-> u,
                      emoji |-> like]
Receipt(kind, c, u, n) == [type |-> kind, conv |-> c, user |-> u, seq |-> n]

Invalid == [type |-> "invalid"]

(* The commands of S, those of T twice, and n group endpoint calls.        *)
Load(S, T, n) == [publish |-> [cmd \in Commands |-> IF cmd \in T THEN 2
                                                   ELSE IF cmd \in S THEN 1 ELSE 0],
                  api |-> n]

(* A send retried against its own redelivery, and a bot, while the group   *)
(* changes.                                                                *)
Sends == {Send(x, room, bob, 0), BotSend(y, room)}

(* One clientMessageId in two conversations; a malformed payload.          *)
Collisions == {Send(x, room, bob, 0), Send(x, direct, alice, 0), Invalid}

(* One message, edited and deleted; a delivery receipt.                    *)
Changes == {Send(x, room, bob, 0), Edit(1, bob), Delete(1, alice),
            Receipt("receipt.delivered", room, bob, 2)}

(* One message, reacted to and deleted.                                    *)
Reactions == {Send(x, room, bob, 0), Delete(1, alice),
              React("reaction.add", 1, bob), React("reaction.remove", 1, bob)}

(* Two devices of bob report different watermarks, one beyond the end; the *)
(* second send replies to the first message.                               *)
Receipts == {Send(x, room, alice, 0), Send(y, room, alice, 1),
             Receipt("receipt.read", room, bob, 1),
             Receipt("receipt.read", room, bob, 3)}

(* Receipts while a member leaves or the group is deleted.                 *)
Leaving == {Send(x, room, alice, 0), Receipt("receipt.read", room, bob, 1),
            Receipt("receipt.delivered", room, bob, 2)}

SafetyCommands == UNION {Sends, Collisions, Changes, Reactions, Receipts, Leaving}
SafetyLoads == {Load(Sends, {Send(x, room, bob, 0)}, 1),
                Load(Collisions, {Send(x, room, bob, 0)}, 0),
                Load(Changes, {}, 0), Load(Reactions, {}, 0),
                Load(Receipts, {}, 0), Load(Leaving, {}, 1)}

-----------------------------------------------------------------------------
(* handlers/messages.ts:234: an edit of a deleted message is "rejected:    *)
(* already deleted", so the content of a deleted message stays "".         *)
DeletedStaysEmpty ==
    \A i \in DOMAIN messages : messages[i].deleted => messages[i].content = Empty
EditDeleteCommands == {Send(x, room, bob, 0), Edit(1, bob), Delete(1, bob)}
EditDeleteLoads == {Load(EditDeleteCommands, {}, 0)}
===============================================================================
