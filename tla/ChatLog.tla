------------------------------- MODULE ChatLog -------------------------------
(***************************************************************************)
(* What the chat-worker promises its clients, without commands, replicas,  *)
(* retries or faults: every conversation is one append-only log, an entry  *)
(* is identified by its clientMessageId and is appended at most once in    *)
(* the whole system, and a member's read watermark only moves forward      *)
(* within the log, until the member leaves.                                *)
(***************************************************************************)
EXTENDS Naturals, Sequences

CONSTANTS Conversations, Users, ClientMessageIds

VARIABLES log,   \* [Conversations -> Seq(ClientMessageIds)]
          read   \* [Conversations -> [Users -> Nat]]

logVars == <<log, read>>

Init == /\ log = [c \in Conversations |-> <<>>]
        /\ read = [c \in Conversations |-> [u \in Users |-> 0]]

Fresh(id) == \A c \in Conversations : \A n \in DOMAIN log[c] : log[c][n] # id

Say(c, id) == /\ Fresh(id)
              /\ log' = [log EXCEPT ![c] = Append(@, id)]
              /\ UNCHANGED read

Read(c, u, n) == /\ read[c][u] < n
                 /\ n <= Len(log[c])
                 /\ read' = [read EXCEPT ![c][u] = n]
                 /\ UNCHANGED log

Forget(c, u) == /\ read' = [read EXCEPT ![c][u] = 0]
                /\ UNCHANGED log

Next == \E c \in Conversations :
           \/ \E id \in ClientMessageIds : Say(c, id)
           \/ \E u \in Users : \/ \E n \in 1 .. Len(log[c]) : Read(c, u, n)
                               \/ Forget(c, u)

Spec == Init /\ [][Next]_logVars
===============================================================================
