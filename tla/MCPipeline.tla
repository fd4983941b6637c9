------------------------------ MODULE MCPipeline ------------------------------
(***************************************************************************)
(* Small instances of the chat-worker's two loops: the commands it takes   *)
(* from the broker (ChatWorker) and the rows it publishes (Outbox).  A     *)
(* behaviour is one of one part, the other stays as it starts.             *)
(***************************************************************************)
EXTENDS Outbox

CONSTANTS p1, p2, r1, r2, r3,
          alice, bob, room, x, hi, like, Empty, NoUser, NoCommand

VARIABLES part,
          copies, published, acked, rejections, alive, job, pc, acceptedSequence,
          lastSequence, tombstones, members, admins, lastRead, lastDelivered, messages,
          reactions, outbox, unread, failures, apiCalls

workerVars == <<copies, published, acked, rejections, alive, job, pc, acceptedSequence,
                lastSequence, tombstones, members, admins, lastRead, lastDelivered,
                messages, reactions, outbox, unread, failures, apiCalls>>
allVars    == <<part, vars, workerVars>>

(* A send that is retried, a receipt and a reaction, all to be settled.    *)
TheSend == [type |-> "message.send", cmid |-> x, conv |-> room, user |-> alice,
            content |-> hi, replyTo |-> 0]
LiveCommands ==
    {TheSend,
     [type |-> "receipt.read", conv |-> room, user |-> bob, seq |-> 1],
     [type |-> "reaction.add", msg |-> 1, conv |-> room, user |-> bob, emoji |-> like]}
LiveLoad == [publish |-> [cmd \in LiveCommands |-> IF cmd = TheSend THEN 2 ELSE 1], api |-> 0]

W == INSTANCE ChatWorker WITH
        Workers <- Replicas, Users <- {alice, bob}, Bots <- {}, EnabledBots <- {},
        Conversations <- {room}, Groups <- {room},
        InitMembers <- [c \in {room} |-> {alice, bob}], InitAdmins <- [c \in {room} |-> {alice}],
        ClientMessageIds <- {x}, Contents <- {hi}, Emojis <- {like},
        Commands <- LiveCommands, Workloads <- {LiveLoad}, MaxFaults <- 1,
        life <- alive, accepted <- acceptedSequence, faults <- failures

MCInit == part \in {"outbox", "commands"} /\ Init /\ W!Init

InOutbox(A)   == part = "outbox" /\ A /\ UNCHANGED <<part, workerVars>>
InCommands(A) == part = "commands" /\ A /\ UNCHANGED <<part, vars>>

OutboxNext ==
    \/ \E r \in Rows : InOutbox(Insert(r))
    \/ \E p \in Replicas :
          \/ InOutbox(Select(p)) \/ InOutbox(Publish(p)) \/ InOutbox(Mark(p))
          \/ InOutbox(Commit(p)) \/ InOutbox(Rollback(p))
          \/ InOutbox(PublishFails(p)) \/ InOutbox(MarkFails(p)) \/ InOutbox(Expire(p))
          \/ InOutbox(Crash(p)) \/ InOutbox(Stop(p)) \/ InOutbox(Exit(p))
          \/ InOutbox(Restart(p))

CommandsNext ==
    \/ \E cmd \in LiveCommands : InCommands(W!Publish(cmd))
    \/ \E w \in Replicas, cmd \in LiveCommands : InCommands(W!Deliver(w, cmd))
    \/ \E w \in Replicas :
          \/ InCommands(W!Handle(w)) \/ InCommands(W!Fail(w)) \/ InCommands(W!Crash(w))
          \/ InCommands(W!Stop(w)) \/ InCommands(W!Exit(w)) \/ InCommands(W!Restart(w))

MCNext == OutboxNext \/ CommandsNext

(* The fairness of the two modules, each for its own behaviours.           *)
OutboxFair   == \A p \in Replicas : WF_allVars(InOutbox(Poll(p)))
CommandsFair == \A w \in Replicas :
    /\ WF_allVars(InCommands(W!Handle(w)))
    /\ WF_allVars(InCommands(\E cmd \in LiveCommands : W!Deliver(w, cmd)))
MCSpec == MCInit /\ [][MCNext]_allVars /\ OutboxFair /\ CommandsFair

(* ChatWorker: every published command is settled in the end.              *)
CommandsSettle == W!CommandsSettle
===============================================================================
