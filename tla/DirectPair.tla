------------------------------ MODULE DirectPair ------------------------------
(***************************************************************************)
(* createConversation for DIRECT conversations, apps/api/src/controllers/  *)
(* chat.controller.ts: a pair of users has one conversation, found by its  *)
(* directPairKey, adopted from a legacy row without a key, or created.     *)
(* Several requests run at once; what one has looked up may be stale when  *)
(* it writes, and the unique index on the key decides.                     *)
(*                                                                         *)
(* "Oldest first" of the legacy lookup is a free choice here.  The checks  *)
(* of the request body have passed.                                        *)
(***************************************************************************)
EXTENDS Naturals, FiniteSets

CONSTANTS
    Requests,
    Users,
    Pairs,          \* the pairs somebody opens a conversation for
    Conversations,  \* row ids
    LegacyMembers,  \* the member sets rows without a key may have
    NoKey

VARIABLES
    exists,     \* rows of table Conversation
    key,        \* [Conversations -> Pairs \cup {NoKey}]: directPairKey
    members,    \* [Conversations -> SUBSET Users]
    announced,  \* the rows with a conversation.created event
    request,    \* [Requests -> what the request does next]
    answers     \* the <<pair, conversation>> that requests have returned

vars == <<exists, key, members, announced, request, answers>>

Idle == [phase |-> "idle"]

(* Keyed rows may have lost members with their users, rows older than the  *)
(* key have none; one row id is still free.                                *)
Init ==
    /\ exists \in (SUBSET Conversations) \ {Conversations}
    /\ key \in [Conversations -> Pairs \cup {NoKey}]
    /\ members \in [Conversations -> SUBSET Users]
    /\ \A k \in Conversations :
          /\ k \notin exists => key[k] = NoKey /\ members[k] = {}
          /\ k \in exists /\ key[k] = NoKey => members[k] \in LegacyMembers
          /\ key[k] # NoKey => members[k] \subseteq key[k]
    /\ \A k, l \in Conversations : key[k] = key[l] => k = l \/ key[k] = NoKey
    /\ announced = {}
    /\ request = [r \in Requests |-> Idle]
    /\ answers = {}

Keyed(p) == {k \in exists : key[k] = p}

Goto(r, phase, p, K, S) ==
    request' = [request EXCEPT ![r] = [phase |-> phase, pair |-> p,
                                       conv |-> K, have |-> S]]

(* The request returns conversation k, or fails without effect.            *)
Answer(r, p, k) == /\ answers' = answers \cup {<<p, k>>}
                   /\ request' = [request EXCEPT ![r] = Idle]
Throw(r) == /\ request' = [request EXCEPT ![r] = Idle]
            /\ UNCHANGED <<exists, key, members, announced, answers>>

(* The fast path: reuse by the key, repair a row with missing members.     *)
Lookup(r, p) ==
    /\ request[r] = Idle
    /\ \/ \E k \in Keyed(p) :
             \/ Cardinality(members[k]) = 2 /\ Answer(r, p, k)
             \/ /\ Cardinality(members[k]) # 2
                /\ Goto(r, "repair", p, {k}, {})
                /\ UNCHANGED answers
       \/ Keyed(p) = {} /\ Goto(r, "legacy", p, {}, {}) /\ UNCHANGED answers
    /\ UNCHANGED <<exists, key, members, announced>>

(* Rows without a key whose members all belong to the pair.                *)
Adoptable(p) == {k \in Keyed(NoKey) : members[k] \subseteq p}

FindLegacy(r) ==
    /\ request[r].phase = "legacy"
    /\ \/ \E k \in Adoptable(request[r].pair) :
             Goto(r, "adopt", request[r].pair, {k}, members[k])
       \/ /\ Adoptable(request[r].pair) = {}
          /\ Goto(r, "create", request[r].pair, {}, {})
    /\ UNCHANGED <<exists, key, members, announced, answers>>

(* Mutant: no unique index on directPairKey.                               *)
MutantNoIndex(p, k) == FALSE

(* The unique index refuses key p for row k.                               *)
Taken(p, k) == Keyed(p) \ {k} # {}

(* The adopting transaction holds the row from its first statement on: it  *)
(* stamps the key and inserts the members the lookup missed.  An insert of *)
(* a member who is there by now is a P2002 as well.                        *)
Adopt(r) ==
    /\ request[r].phase = "adopt"
    /\ LET p == request[r].pair
           missing == p \ request[r].have
       IN  \E k \in request[r].conv :
             \/ /\ Taken(p, k) \/ missing \cap members[k] # {}
                /\ Goto(r, "winner", p, {}, {})
                /\ UNCHANGED <<key, members, answers>>
             \/ /\ ~Taken(p, k) /\ missing \cap members[k] = {}
                /\ key' = [key EXCEPT ![k] = p]
                /\ members' = [members EXCEPT ![k] = @ \cup missing]
                /\ Answer(r, p, k)
    /\ UNCHANGED <<exists, announced>>

(* createWithOutboxEvent.                                                  *)
Create(r) ==
    /\ request[r].phase = "create"
    /\ LET p == request[r].pair
       IN  \E k \in Conversations \ exists :
             \/ /\ Taken(p, k)
                /\ Goto(r, "winner", p, {}, {})
                /\ UNCHANGED <<exists, key, members, announced, answers>>
             \/ /\ ~Taken(p, k)
                /\ exists' = exists \cup {k}
                /\ key' = [key EXCEPT ![k] = p]
                /\ members' = [members EXCEPT ![k] = p]
                /\ announced' = announced \cup {k}
                /\ Answer(r, p, k)

(* After P2002: return the row that has the key.                           *)
Winner(r) ==
    /\ request[r].phase = "winner"
    /\ \/ /\ \E k \in Keyed(request[r].pair) : Answer(r, request[r].pair, k)
          /\ UNCHANGED <<exists, key, members, announced>>
       \/ Keyed(request[r].pair) = {} /\ Throw(r)

(* repairDirectMembership reads the members ...                            *)
Repair(r) ==
    /\ request[r].phase = "repair"
    /\ LET p == request[r].pair
       IN  \E k \in request[r].conv :
             \/ p \subseteq members[k] /\ Answer(r, p, k)
             \/ /\ ~(p \subseteq members[k])
                /\ Goto(r, "restore", p, {k}, members[k])
                /\ UNCHANGED answers
    /\ UNCHANGED <<exists, key, members, announced>>

(* ... and inserts the missing ones; a repair that lost a race fails.      *)
Restore(r) ==
    /\ request[r].phase = "restore"
    /\ LET p == request[r].pair
           missing == p \ request[r].have
       IN  \E k \in request[r].conv :
             \/ /\ missing \cap members[k] = {}
                /\ members' = [members EXCEPT ![k] = @ \cup missing]
                /\ Answer(r, p, k)
                /\ UNCHANGED <<exists, key, announced>>
             \/ missing \cap members[k] # {} /\ Throw(r)

(* The database fails or the process dies.                                 *)
Fail(r) == request[r] # Idle /\ Throw(r)

Next == \E r \in Requests :
    \/ \E p \in Pairs : Lookup(r, p)
    \/ FindLegacy(r) \/ Adopt(r) \/ Create(r) \/ Winner(r)
    \/ Repair(r) \/ Restore(r) \/ Fail(r)

Spec == Init /\ [][Next]_vars
-----------------------------------------------------------------------------
(* "A DIRECT conversation is exactly its pair - it must never grow"        *)
(* (chat.controller.ts:519).  A legacy row that could belong to two pairs  *)
(* and is adopted for both at once does (306-345).                         *)
ExactPair ==
    \A k \in Conversations : key[k] # NoKey => members[k] \subseteq key[k]

(* Everybody who opens a conversation for a pair gets the same one,        *)
(* however lookups, adoptions and creations overlap, with both members in  *)
(* it whichever path found it and nobody else (chat.controller.ts:286-289, *)
(* 306-312, 519).                                                          *)
AnswersHonest ==
    /\ \A x, y \in answers : x[1] = y[1] => x[2] = y[2]
    /\ \A x \in answers : x[1] \subseteq members[x[2]]
    /\ ExactPair
===============================================================================
