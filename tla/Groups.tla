-------------------------------- MODULE Groups --------------------------------
(***************************************************************************)
(* One group and the API endpoints that change its membership: add,        *)
(* remove (or leave) and delete, apps/api/src/controllers/                 *)
(* chat.controller.ts.                                                     *)
(*                                                                         *)
(* An endpoint reads a snapshot of the group, decides everything from it,  *)
(* and then runs a READ COMMITTED transaction, statement by statement:     *)
(* write the rows, find and promote a successor, read the members for the  *)
(* event, commit.  A statement sees what others have committed and waits   *)
(* for the rows others have written.  Requests is the concurrency: one     *)
(* request makes the calls one after the other, two let them overlap.      *)
(*                                                                         *)
(* ORDER BY "joinedAt" of the successor is a free choice here.  Rejected   *)
(* calls change nothing and are left out.                                  *)
(***************************************************************************)
EXTENDS Naturals, FiniteSets

CONSTANTS
    Requests,   \* the calls that may be in progress at the same time
    Users,
    Bots        \* user ids that start with "system-bot"

ASSUME BotsAssumption == Bots \subseteq Users

VARIABLES
    role,       \* [Users -> {"none", "MEMBER", "ADMIN"}], committed rows
    deleted,    \* deletedAt is set
    last,       \* the member list of the last event committed to the outbox
    call,       \* [Requests -> what the request was asked and has read]
    written,    \* [Requests -> the rows written and not yet committed]
    calm        \* history: no two calls have been in progress at a time

vars == <<role, deleted, last, call, written, calm>>

Roles   == {"none", "MEMBER", "ADMIN"}
Tables  == [Users -> Roles]
NoRows  == [u \in {} |-> "none"]
Overlay == UNION {[S -> Roles] : S \in SUBSET Users}

Call == [phase : {"write", "find", "promote", "emit", "commit"},
         op : {"add", "remove", "delete"}, users : SUBSET Users,
         snap : Tables, heir : SUBSET Users, event : Tables]
Idle == [phase |-> "idle"]

(* createConversation: the creator is a member and the only ADMIN.         *)
Init ==
    /\ \E S \in SUBSET Users, a \in Users \ Bots :
          /\ a \in S
          /\ role = [u \in Users |-> IF u = a THEN "ADMIN"
                                     ELSE IF u \in S THEN "MEMBER" ELSE "none"]
    /\ deleted = FALSE
    /\ last = role
    /\ call = [r \in Requests |-> Idle]
    /\ written = [r \in Requests |-> NoRows]
    /\ calm = TRUE

Members(t) == {u \in Users : t[u] # "none"}
Admins(t)  == {u \in Users : t[u] = "ADMIN"}

(* What the transaction of r sees: its own writes over the committed rows. *)
View(r) == [u \in Users |-> IF u \in DOMAIN written[r] THEN written[r][u]
                            ELSE role[u]]

(* No other transaction has written one of these rows.                     *)
Free(r, S) == \A q \in Requests \ {r} : DOMAIN written[q] \cap S = {}

(* Mutant: the tombstone check is dropped.                                 *)
MutantIgnoresTombstone(op, a, S) ==
    /\ role[a] = "ADMIN"
    /\ (op = "add" /\ S # {}) \/ (op = "delete" /\ S = {})

(* The checks of the three endpoints, all made on the snapshot.            *)
May(op, a, S) ==
    /\ ~deleted
    /\ \/ op = "add" /\ role[a] = "ADMIN" /\ S # {}
       \/ /\ op = "remove"
          /\ \E u \in Users : S = {u} /\ role[u] # "none"
                              /\ (a = u \/ role[a] = "ADMIN")
          /\ Cardinality(Members(role)) # 1
       \/ op = "delete" /\ role[a] = "ADMIN" /\ S = {}

Start(r, op, a, S) ==
    /\ call[r] = Idle
    /\ role[a] # "none"
    /\ May(op, a, S)
    /\ call' = [call EXCEPT ![r] = [phase |-> "write", op |-> op, users |-> S,
                                    snap |-> role, heir |-> {}, event |-> role]]
    /\ calm' = (calm /\ \A q \in Requests : call[q] = Idle)
    /\ UNCHANGED <<role, deleted, last, written>>

At(r, phase, op) == call[r].phase = phase /\ call[r].op = op

(* The statement of r sets rows: rows is a function on a set of users.     *)
Write(r, rows, phase) ==
    /\ written' = [written EXCEPT ![r] =
          [u \in DOMAIN @ \cup DOMAIN rows |->
              IF u \in DOMAIN rows THEN rows[u] ELSE @[u]]]
    /\ call' = [call EXCEPT ![r].phase = phase]
    /\ UNCHANGED <<role, deleted, last, calm>>

(* The transaction ends without effect.                                    *)
Discard(r) ==
    /\ call' = [call EXCEPT ![r] = Idle]
    /\ written' = [written EXCEPT ![r] = NoRows]
    /\ UNCHANGED <<role, deleted, last, calm>>

(* createMany with skipDuplicates.                                         *)
AddRows(r) ==
    /\ At(r, "write", "add")
    /\ Free(r, call[r].users)
    /\ Write(r, [u \in call[r].users \ Members(role) |-> "MEMBER"], "emit")

(* Mutant: nobody is promoted for a sole admin.                            *)
MutantNoSuccession(r) == FALSE

(* The snapshot shows the user to remove as the only ADMIN.                *)
SoleAdmin(r) == Admins(call[r].snap) = call[r].users

(* deleteMany removes the row if it still exists.                          *)
RemoveRows(r) ==
    /\ At(r, "write", "remove")
    /\ Free(r, call[r].users)
    /\ Write(r, [u \in call[r].users \cap Members(role) |-> "none"],
             IF SoleAdmin(r) THEN "find" ELSE "emit")

(* Mutant: a bot may inherit.                                              *)
MutantBotInherits(r) == Members(View(r))

Heirs(r) == Members(View(r)) \ Bots

(* The successor is looked up; without a human member the call fails.      *)
Find(r) ==
    /\ At(r, "find", "remove")
    /\ \/ /\ \E u \in Heirs(r) :
                call' = [call EXCEPT ![r].phase = "promote", ![r].heir = {u}]
          /\ UNCHANGED <<role, deleted, last, written, calm>>
       \/ Heirs(r) = {} /\ Discard(r)

(* update fails when the successor's row is gone by now.                   *)
Promote(r) ==
    /\ At(r, "promote", "remove")
    /\ Free(r, call[r].heir)
    /\ \/ /\ call[r].heir \subseteq Members(View(r))
          /\ Write(r, [u \in call[r].heir |-> "ADMIN"], "emit")
       \/ ~(call[r].heir \subseteq Members(View(r))) /\ Discard(r)

(* Mutant: the event is built from the snapshot the checks used.           *)
MutantEmitsSnapshot(r) ==
    /\ call[r].phase = "emit"
    /\ call' = [call EXCEPT ![r].phase = "commit"]
    /\ UNCHANGED <<role, deleted, last, written, calm>>

(* emitConversationMembersChanged: the event needs at least one member.    *)
Emit(r) ==
    /\ call[r].phase = "emit"
    /\ \/ /\ Members(View(r)) # {}
          /\ call' = [call EXCEPT ![r].phase = "commit", ![r].event = View(r)]
          /\ UNCHANGED <<role, deleted, last, written, calm>>
       \/ Members(View(r)) = {} /\ Discard(r)

Commit(r) ==
    /\ call[r].phase = "commit"
    /\ role' = View(r)
    /\ last' = call[r].event
    /\ call' = [call EXCEPT ![r] = Idle]
    /\ written' = [written EXCEPT ![r] = NoRows]
    /\ UNCHANGED <<deleted, calm>>

(* deleteConversation: tombstone and event, with the members of the        *)
(* snapshot.                                                               *)
Tombstone(r) ==
    /\ At(r, "write", "delete")
    /\ deleted' = TRUE
    /\ last' = call[r].event
    /\ call' = [call EXCEPT ![r] = Idle]
    /\ UNCHANGED <<role, written, calm>>

(* The transaction times out, fails or loses a deadlock.                   *)
Abort(r) == call[r] # Idle /\ Discard(r)

Next == \E r \in Requests :
    \/ \E op \in {"add", "remove", "delete"}, a \in Users, S \in SUBSET Users :
          Start(r, op, a, S)
    \/ AddRows(r) \/ RemoveRows(r) \/ Find(r) \/ Promote(r)
    \/ Emit(r) \/ Commit(r) \/ Tombstone(r) \/ Abort(r)

Spec == Init /\ [][Next]_vars
-----------------------------------------------------------------------------
(* The state is well typed and no two transactions have written one row.   *)
TypeOK ==
    /\ role \in Tables
    /\ deleted \in BOOLEAN
    /\ last \in Tables
    /\ call \in [Requests -> Call \cup {Idle}]
    /\ written \in [Requests -> Overlay]
    /\ calm \in BOOLEAN
    /\ \A r, q \in Requests :
          r # q => DOMAIN written[r] \cap DOMAIN written[q] = {}

(* However calls overlap, "bots never inherit authority"                   *)
(* (chat.controller.ts:618).                                               *)
BotsNeverAdmin == Admins(role) \cap Bots = {}

(* A group keeps an ADMIN to manage it, whoever leaves, is removed or joins *)
(* (chat.controller.ts:604-607, 615-619).                                  *)
AdminRemains == Admins(role) # {}

(* The same as long as calls do not overlap: succession works.             *)
SerialAdminRemains == calm => AdminRemains

(* Without overlap, the last event of a live group carries its members and *)
(* their roles when no call is in progress: a client that upserts it needs *)
(* no refetch (packages/mqtt-contracts/src/events.ts:164-166).             *)
SerialEventCurrent ==
    calm /\ ~deleted /\ (\A r \in Requests : call[r] = Idle) => last = role

(* Without overlap, a tombstoned group is frozen (chat.controller.ts:515). *)
SerialTombstone == [][calm /\ deleted => role' = role]_vars
===============================================================================
