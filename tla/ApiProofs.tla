------------------------------- MODULE ApiProofs -------------------------------
(***************************************************************************)
(* Proofs about the endpoints of the API, for any number of overlapping    *)
(* requests: Groups, for every set of users, and DirectPair, for every set *)
(* of pairs and rows.                                                      *)
(***************************************************************************)
EXTENDS Groups, FiniteSetTheorems, TLAPS

(* The first five conjuncts of TypeOK.                                     *)
Shape ==
    /\ role \in Tables
    /\ deleted \in BOOLEAN
    /\ last \in Tables
    /\ call \in [Requests -> Call \cup {Idle}]
    /\ written \in [Requests -> Overlay]

Disjoint == \A r, q \in Requests :
    r # q => DOMAIN written[r] \cap DOMAIN written[q] = {}

(* Nothing in progress will make a bot an ADMIN.                           *)
Authority ==
    /\ BotsNeverAdmin
    /\ \A r \in Requests :
          /\ \A u \in DOMAIN written[r] : written[r][u] = "ADMIN" => u \notin Bots
          /\ call[r] # Idle => call[r].heir \cap Bots = {}

LEMMA OverlayType ==
    ASSUME NEW f, NEW S \in SUBSET Users, f \in [S -> Roles]
    PROVE  f \in Overlay /\ DOMAIN f = S
BY DEF Overlay

LEMMA OverlayDomain ==
    ASSUME NEW f \in Overlay
    PROVE  DOMAIN f \in SUBSET Users /\ f \in [DOMAIN f -> Roles]
BY DEF Overlay

LEMMA NoRowsType == NoRows \in Overlay /\ DOMAIN NoRows = {}
<1>1. NoRows \in [{} -> Roles]
  BY DEF NoRows, Roles
<1> QED
  BY <1>1, OverlayType

LEMMA CallType ==
    ASSUME Shape, NEW r \in Requests, call[r] # Idle
    PROVE  /\ call[r] \in Call
           /\ call[r].users \in SUBSET Users
           /\ call[r].heir \in SUBSET Users
           /\ call[r].event \in Tables
BY DEF Shape, Call

LEMMA NotIdle ==
    ASSUME Shape, NEW r \in Requests, call[r].phase # "idle"
    PROVE  call[r] # Idle
BY DEF Idle

LEMMA ViewType == ASSUME Shape, NEW r \in Requests PROVE View(r) \in Tables
<1>1. ASSUME NEW u \in DOMAIN written[r] PROVE written[r][u] \in Roles
  BY OverlayDomain DEF Shape
<1> QED
  BY <1>1 DEF View, Shape, Tables

(* What a statement that sets rows does to the transaction's overlay.      *)
LEMMA WriteEffect ==
    ASSUME Shape, NEW r \in Requests, NEW rows \in Overlay, NEW phase,
           phase \in {"emit", "find"}, call[r] # Idle, Write(r, rows, phase)
    PROVE  /\ Shape'
           /\ \A q \in Requests \ {r} : written'[q] = written[q] /\ call'[q] = call[q]
           /\ DOMAIN written'[r] = DOMAIN written[r] \cup DOMAIN rows
           /\ \A u \in DOMAIN written'[r] : written'[r][u] =
                 IF u \in DOMAIN rows THEN rows[u] ELSE written[r][u]
           /\ call'[r].heir = call[r].heir
           /\ role' = role
<1> DEFINE f == [u \in DOMAIN written[r] \cup DOMAIN rows |->
                    IF u \in DOMAIN rows THEN rows[u] ELSE written[r][u]]
<1>1. written' = [written EXCEPT ![r] = f] /\ UNCHANGED <<role, deleted, last>>
  BY DEF Write
<1>2. f \in Overlay
  <2>1. DOMAIN written[r] \cup DOMAIN rows \in SUBSET Users
    BY OverlayDomain DEF Shape
  <2>2. ASSUME NEW u \in DOMAIN written[r] \cup DOMAIN rows PROVE f[u] \in Roles
    BY OverlayDomain DEF Shape
  <2>3. f \in [DOMAIN written[r] \cup DOMAIN rows -> Roles]
    BY <2>2
  <2> HIDE DEF f
  <2> QED
    BY <2>1, <2>3, OverlayType
<1>3. call[r] \in Call
  BY CallType
<1>4. call' = [call EXCEPT ![r] = [call[r] EXCEPT !.phase = phase]]
  BY <1>3 DEF Write, Shape
<1>5. [call[r] EXCEPT !.phase = phase] \in Call
  BY <1>3 DEF Call
<1>6. [call[r] EXCEPT !.phase = phase].heir = call[r].heir
  BY <1>3 DEF Call
<1>7. call' \in [Requests -> Call \cup {Idle}] /\ call'[r].heir = call[r].heir
  BY <1>4, <1>5, <1>6 DEF Shape
<1>8. written'[r] = f /\ written' \in [Requests -> Overlay]
  BY <1>1, <1>2 DEF Shape
<1>9. Shape'
  BY <1>1, <1>7, <1>8 DEF Shape
<1> QED
  BY <1>1, <1>4, <1>7, <1>8, <1>9 DEF Shape

LEMMA DiscardEffect ==
    ASSUME Shape, NEW r \in Requests, Discard(r)
    PROVE  /\ Shape'
           /\ \A q \in Requests \ {r} : written'[q] = written[q] /\ call'[q] = call[q]
           /\ written'[r] = NoRows /\ call'[r] = Idle
           /\ role' = role
BY NoRowsType DEF Discard, Shape

Inv == Shape /\ Disjoint /\ Authority

(* Discarding a transaction keeps the invariant.                           *)
LEMMA DiscardKeeps == ASSUME Inv, NEW r \in Requests, Discard(r) PROVE Inv'
<1>1. /\ Shape'
      /\ \A q \in Requests \ {r} : written'[q] = written[q] /\ call'[q] = call[q]
      /\ written'[r] = NoRows /\ call'[r] = Idle
      /\ role' = role
  BY DiscardEffect DEF Inv
<1>2. Disjoint'
  BY <1>1, NoRowsType DEF Inv, Disjoint
<1>3. Authority'
  BY <1>1, NoRowsType DEF Inv, Authority, BotsNeverAdmin, Admins
<1> QED
  BY <1>1, <1>2, <1>3 DEF Inv

(* So does a statement on free rows that makes no bot an ADMIN.            *)
LEMMA WriteKeeps ==
    ASSUME Inv, NEW r \in Requests, NEW rows \in Overlay, NEW phase,
           phase \in {"emit", "find"}, call[r] # Idle, Write(r, rows, phase),
           Free(r, DOMAIN rows),
           \A u \in DOMAIN rows : rows[u] = "ADMIN" => u \notin Bots
    PROVE  Inv'
<1>1. /\ Shape'
      /\ \A q \in Requests \ {r} : written'[q] = written[q] /\ call'[q] = call[q]
      /\ DOMAIN written'[r] = DOMAIN written[r] \cup DOMAIN rows
      /\ \A u \in DOMAIN written'[r] : written'[r][u] =
            IF u \in DOMAIN rows THEN rows[u] ELSE written[r][u]
      /\ call'[r].heir = call[r].heir
      /\ role' = role
  BY WriteEffect DEF Inv
<1>2. Disjoint'
  <2> SUFFICES ASSUME NEW p \in Requests, NEW q \in Requests, p # q
               PROVE  DOMAIN written'[p] \cap DOMAIN written'[q] = {}
    BY DEF Disjoint
  <2>1. DOMAIN written[p] \cap DOMAIN written[q] = {}
    BY DEF Inv, Disjoint
  <2>2. \A x \in Requests \ {r} : DOMAIN written[x] \cap DOMAIN rows = {}
    BY DEF Free
  <2> QED
    BY <1>1, <2>1, <2>2
<1>3. Authority'
  BY <1>1 DEF Inv, Authority, BotsNeverAdmin, Admins
<1> QED
  BY <1>1, <1>2, <1>3 DEF Inv

(* So does a step that only moves the request on.                          *)
LEMMA MoveKeeps ==
    ASSUME Inv, NEW r \in Requests, NEW c \in Call,
           call' = [call EXCEPT ![r] = c], c.heir \cap Bots = {},
           UNCHANGED <<role, written>>, deleted' \in BOOLEAN, last' \in Tables
    PROVE  Inv'
<1>1. Shape' /\ Disjoint'
  BY DEF Inv, Shape, Disjoint
<1>2. Authority'
  BY DEF Inv, Shape, Authority, BotsNeverAdmin, Admins
<1> QED
  BY <1>1, <1>2 DEF Inv

LEMMA StepKeeps == Inv /\ [Next]_vars => Inv'
<1> SUFFICES ASSUME Inv, [Next]_vars PROVE Inv'
  OBVIOUS
<1>0. Shape
  BY DEF Inv
<1>1. ASSUME NEW r \in Requests, NEW op \in {"add", "remove", "delete"},
             NEW a \in Users, NEW S \in SUBSET Users, Start(r, op, a, S)
      PROVE  Inv'
  <2> DEFINE c == [phase |-> "write", op |-> op, users |-> S,
                   snap |-> role, heir |-> {}, event |-> role]
  <2>1. c \in Call /\ c.heir = {}
    BY <1>0 DEF Call, Shape
  <2>2. call' = [call EXCEPT ![r] = c] /\ UNCHANGED <<role, deleted, last, written>>
    BY <1>1 DEF Start
  <2> HIDE DEF c
  <2> QED
    BY <1>0, <2>1, <2>2, MoveKeeps DEF Shape
<1>2. ASSUME NEW r \in Requests, AddRows(r) PROVE Inv'
  <2> DEFINE S == call[r].users \ Members(role)
             rows == [u \in S |-> "MEMBER"]
  <2>1. call[r] # Idle
    BY <1>2, <1>0, NotIdle DEF AddRows, At
  <2>2. S \in SUBSET Users
    BY <1>0, <2>1, CallType
  <2>3. rows \in [S -> Roles] /\ \A u \in S : rows[u] = "MEMBER"
    BY DEF Roles
  <2>4. Write(r, rows, "emit") /\ Free(r, call[r].users)
    BY <1>2 DEF AddRows
  <2> HIDE DEF rows
  <2>5. rows \in Overlay /\ DOMAIN rows = S
    BY <2>2, <2>3, OverlayType
  <2>6. Free(r, DOMAIN rows)
    BY <2>4, <2>5 DEF Free
  <2> QED
    BY <2>1, <2>3, <2>4, <2>5, <2>6, WriteKeeps
<1>3. ASSUME NEW r \in Requests, RemoveRows(r) PROVE Inv'
  <2> DEFINE S == call[r].users \cap Members(role)
             rows == [u \in S |-> "none"]
  <2>1. call[r] # Idle
    BY <1>3, <1>0, NotIdle DEF RemoveRows, At
  <2>2. S \in SUBSET Users
    BY <1>0, <2>1, CallType
  <2>3. rows \in [S -> Roles] /\ \A u \in S : rows[u] = "none"
    BY DEF Roles
  <2>4. PICK phase \in {"emit", "find"} : Write(r, rows, phase)
    BY <1>3 DEF RemoveRows
  <2>5. Free(r, call[r].users)
    BY <1>3 DEF RemoveRows
  <2> HIDE DEF rows
  <2>6. rows \in Overlay /\ DOMAIN rows = S
    BY <2>2, <2>3, OverlayType
  <2>7. Free(r, DOMAIN rows)
    BY <2>5, <2>6 DEF Free
  <2> QED
    BY <2>1, <2>3, <2>4, <2>6, <2>7, WriteKeeps
<1>4. ASSUME NEW r \in Requests, Find(r) PROVE Inv'
  <2>1. call[r] # Idle
    BY <1>4, <1>0, NotIdle DEF Find, At
  <2>2. call[r] \in Call
    BY <1>0, <2>1, CallType
  <2>3. ASSUME NEW u \in Heirs(r), UNCHANGED <<role, deleted, last, written>>,
               call' = [call EXCEPT ![r].phase = "promote", ![r].heir = {u}]
        PROVE  Inv'
    <3> DEFINE c == [call[r] EXCEPT !.phase = "promote", !.heir = {u}]
    <3>1. u \in Users \ Bots
      BY DEF Heirs, Members
    <3>2. c \in Call /\ c.heir = {u}
      BY <2>2, <3>1 DEF Call
    <3>3. call' = [call EXCEPT ![r] = c]
      BY <1>0, <2>2, <2>3 DEF Shape, Call
    <3> HIDE DEF c
    <3>4. c.heir \cap Bots = {}
      BY <3>1, <3>2
    <3>5. deleted' \in BOOLEAN /\ last' \in Tables /\ UNCHANGED <<role, written>>
      BY <1>0, <2>3 DEF Shape
    <3> QED
      BY <3>2, <3>3, <3>4, <3>5, MoveKeeps
  <2> QED
    BY <1>4, <2>3, DiscardKeeps DEF Find
<1>5. ASSUME NEW r \in Requests, Promote(r) PROVE Inv'
  <2> DEFINE S == call[r].heir
             rows == [u \in S |-> "ADMIN"]
  <2>1. call[r] # Idle
    BY <1>5, <1>0, NotIdle DEF Promote, At
  <2>2. S \in SUBSET Users /\ S \cap Bots = {}
    BY <1>0, <2>1, CallType DEF Inv, Authority
  <2>3. CASE Discard(r)
    BY <2>3, DiscardKeeps
  <2>4. CASE Write(r, rows, "emit")
    <3>1. rows \in [S -> Roles]
      BY DEF Roles
    <3>2. Write(r, rows, "emit")
      BY <2>4
    <3>6. Free(r, S)
      BY <1>5 DEF Promote
    <3> HIDE DEF rows
    <3>3. rows \in Overlay /\ DOMAIN rows = S
      BY <2>2, <3>1, OverlayType
    <3>4. \A u \in DOMAIN rows : u \notin Bots
      BY <2>2, <3>3
    <3>5. Free(r, DOMAIN rows)
      BY <3>6, <3>3 DEF Free
    <3> QED
      BY <2>1, <3>2, <3>3, <3>4, <3>5, WriteKeeps
  <2> QED
    BY <1>5, <2>3, <2>4 DEF Promote
<1>6. ASSUME NEW r \in Requests, Emit(r) PROVE Inv'
  <2>1. call[r] # Idle
    BY <1>6, <1>0, NotIdle DEF Emit
  <2>2. call[r] \in Call /\ call[r].heir \cap Bots = {}
    BY <1>0, <2>1, CallType DEF Inv, Authority
  <2>3. View(r) \in Tables
    BY <1>0, ViewType
  <2>4. CASE /\ call' = [call EXCEPT ![r].phase = "commit", ![r].event = View(r)]
             /\ UNCHANGED <<role, deleted, last, written>>
    <3> DEFINE c == [call[r] EXCEPT !.phase = "commit", !.event = View(r)]
    <3>1. c \in Call /\ c.heir = call[r].heir
      BY <2>2, <2>3 DEF Call
    <3>2. call' = [call EXCEPT ![r] = c]
      BY <1>0, <2>2, <2>4 DEF Shape, Call
    <3> HIDE DEF c
    <3> QED
      BY <1>0, <2>2, <2>4, <3>1, <3>2, MoveKeeps DEF Shape
  <2> QED
    BY <1>6, <2>4, DiscardKeeps DEF Emit
<1>7. ASSUME NEW r \in Requests, Commit(r) PROVE Inv'
  <2>1. call[r].event \in Tables
    BY <1>7, <1>0, NotIdle, CallType DEF Commit
  <2>2. View(r) \in Tables
    BY <1>0, ViewType
  <2>3. Shape'
    BY <1>0, <1>7, <2>1, <2>2, NoRowsType DEF Commit, Shape
  <2>4. /\ written'[r] = NoRows /\ call'[r] = Idle
        /\ \A q \in Requests \ {r} : written'[q] = written[q] /\ call'[q] = call[q]
    BY <1>0, <1>7 DEF Commit, Shape
  <2>5. Disjoint'
    BY <2>4, NoRowsType DEF Inv, Disjoint
  <2>6. ASSUME NEW u \in Users, View(r)[u] = "ADMIN" PROVE u \notin Bots
    BY <2>6 DEF View, Inv, Authority, BotsNeverAdmin, Admins
  <2>7. Authority'
    BY <1>7, <2>4, <2>6, NoRowsType DEF Commit, Inv, Authority, BotsNeverAdmin, Admins
  <2> QED
    BY <2>3, <2>5, <2>7 DEF Inv
<1>8. ASSUME NEW r \in Requests, Tombstone(r) PROVE Inv'
  <2>1. call[r].event \in Tables
    BY <1>8, <1>0, NotIdle, CallType DEF Tombstone, At
  <2>2. Shape'
    BY <1>0, <1>8, <2>1 DEF Tombstone, Shape
  <2>3. UNCHANGED <<role, written>> /\ \A q \in Requests \ {r} : call'[q] = call[q]
    BY <1>0, <1>8 DEF Tombstone, Shape
  <2>4. call'[r] = Idle
    BY <1>0, <1>8 DEF Tombstone, Shape
  <2>5. Disjoint' /\ Authority'
    BY <2>3, <2>4 DEF Inv, Disjoint, Authority, BotsNeverAdmin, Admins
  <2> QED
    BY <2>2, <2>5 DEF Inv
<1>9. CASE UNCHANGED vars
  BY <1>9 DEF vars, Inv, Shape, Disjoint, Authority, BotsNeverAdmin, Admins
<1> QED
  BY <1>1, <1>2, <1>3, <1>4, <1>5, <1>6, <1>7, <1>8, <1>9, DiscardKeeps DEF Next, Abort

LEMMA InvHolds == Spec => []Inv
<1>1. Init => Inv
  <2> SUFFICES ASSUME Init PROVE Inv
    OBVIOUS
  <2>1. Shape
    BY NoRowsType DEF Init, Shape, Tables, Roles
  <2>2. Disjoint
    BY NoRowsType DEF Init, Disjoint
  <2>3. Authority
    BY NoRowsType DEF Init, Authority, BotsNeverAdmin, Admins
  <2> QED
    BY <2>1, <2>2, <2>3 DEF Inv
<1> QED
  BY <1>1, StepKeeps, PTL DEF Spec

CalmType == calm \in BOOLEAN

LEMMA CalmHolds == Spec => []CalmType
<1>1. Init => CalmType
  BY DEF Init, CalmType
<1>2. CalmType /\ [Next]_vars => CalmType'
  <2> SUFFICES ASSUME calm \in BOOLEAN, [Next]_vars, calm' # calm
               PROVE  calm' \in BOOLEAN
    BY DEF CalmType
  <2>1. PICK r \in Requests : \E op \in {"add", "remove", "delete"}, a \in Users,
                                S \in SUBSET Users : Start(r, op, a, S)
    BY DEF Next, vars, AddRows, RemoveRows, Find, Promote, Emit, Commit,
           Tombstone, Abort, Write, Discard
  <2> QED
    BY <2>1, Zenon DEF Start
<1> QED
  BY <1>1, <1>2, PTL DEF Spec

(* TypeOK: the row locks keep overlapping transactions apart.              *)
THEOREM GroupsTyping == Spec => []TypeOK
<1>1. Inv /\ CalmType => TypeOK
  BY DEF Inv, CalmType, Shape, Disjoint, TypeOK
<1> QED
  BY <1>1, InvHolds, CalmHolds, PTL

(* However many calls overlap and whichever fail, no bot is ever an ADMIN  *)
(* (chat.controller.ts:615-643).                                           *)
THEOREM BotsInheritNothing == Spec => []BotsNeverAdmin
<1>1. Inv => BotsNeverAdmin
  BY DEF Inv, Authority
<1> QED
  BY <1>1, InvHolds, PTL

-----------------------------------------------------------------------------
(* Calls that do not overlap.  The only call in progress decides on what   *)
(* is still true: its snapshot is the table, and what it is about to       *)
(* commit has an ADMIN and is what its event says.                         *)
Going(r) ==
    /\ ~deleted
    /\ call[r].snap = role
    /\ call[r].op = "remove" => \E u : call[r].users = {u}
    /\ call[r].phase = "promote" => call[r].heir # {}
    /\ call[r].phase \in {"emit", "commit"} => Admins(View(r)) # {}
    /\ call[r].phase = "commit" => call[r].event = View(r)

Alone == \A r, q \in Requests : call[r] # Idle /\ call[q] # Idle => r = q

(* A transaction that has not begun, or has ended, has written nothing.    *)
Fresh(r) == call[r] = Idle \/ call[r].phase = "write" => written[r] = NoRows

Serial == /\ \A r \in Requests : Fresh(r)
          /\ calm => /\ AdminRemains
                     /\ ~deleted => last = role
                     /\ Alone
                     /\ \A r \in Requests : call[r] # Idle => Going(r)

LEMMA NoRowsView ==
    ASSUME Shape, NEW r \in Requests, written[r] = NoRows PROVE View(r) = role
<1>1. \A u \in Users : View(r)[u] = role[u]
  BY NoRowsType DEF View
<1> QED
  BY <1>1, ViewType DEF Shape, Tables

(* What a statement does to the request's record and to what it sees.      *)
LEMMA WriteGoes ==
    ASSUME Shape, NEW r \in Requests, NEW rows \in Overlay, NEW phase,
           phase \in {"emit", "find"}, call[r] # Idle, Write(r, rows, phase)
    PROVE  /\ call'[r].phase = phase /\ call'[r].op = call[r].op
           /\ call'[r].users = call[r].users /\ call'[r].snap = call[r].snap
           /\ \A q \in Requests \ {r} : call'[q] = call[q] /\ written'[q] = written[q]
           /\ call'[r] # Idle
           /\ UNCHANGED <<role, deleted, last, calm>>
           /\ \A u \in Users : View(r)'[u] = IF u \in DOMAIN rows THEN rows[u]
                                             ELSE View(r)[u]
<1>1. call[r] \in Call
  BY CallType
<1>2. call' = [call EXCEPT ![r] = [call[r] EXCEPT !.phase = phase]]
  BY <1>1 DEF Write, Shape
<1>3. call'[r] = [call[r] EXCEPT !.phase = phase]
  BY <1>2 DEF Shape
<1>4. /\ call'[r].phase = phase /\ call'[r].op = call[r].op
      /\ call'[r].users = call[r].users /\ call'[r].snap = call[r].snap
  BY <1>1, <1>3 DEF Call
<1>5. call'[r] # Idle
  BY <1>4 DEF Idle
<1>6. /\ \A q \in Requests \ {r} : written'[q] = written[q] /\ call'[q] = call[q]
      /\ DOMAIN written'[r] = DOMAIN written[r] \cup DOMAIN rows
      /\ \A u \in DOMAIN written'[r] : written'[r][u] =
            IF u \in DOMAIN rows THEN rows[u] ELSE written[r][u]
  BY WriteEffect
<1>7. UNCHANGED <<role, deleted, last, calm>>
  BY DEF Write
<1> QED
  BY <1>4, <1>5, <1>6, <1>7 DEF View

(* A step of the only call in progress, which goes on or ends.             *)
LEMMA SerialMove ==
    ASSUME Serial, NEW r \in Requests, call[r] # Idle, calm' = calm,
           UNCHANGED <<role, deleted, last>>,
           \A q \in Requests \ {r} : call'[q] = call[q] /\ written'[q] = written[q],
           Fresh(r)',
           calm => call'[r] = Idle \/ Going(r)'
    PROVE  Serial'
<1>1. \A q \in Requests : Fresh(q)'
  BY DEF Serial, Fresh
<1>2. ASSUME calm PROVE \A q \in Requests \ {r} : call'[q] = Idle
  BY <1>2 DEF Serial, Alone
<1>3. ASSUME calm PROVE Alone' /\ \A q \in Requests : call'[q] # Idle => Going(q)'
  BY <1>2, <1>3 DEF Alone
<1>4. calm => AdminRemains' /\ (~deleted' => last' = role')
  BY DEF Serial, AdminRemains, Admins
<1> QED
  BY <1>1, <1>3, <1>4 DEF Serial

LEMMA DiscardSerial ==
    ASSUME Shape, Serial, NEW r \in Requests, call[r] # Idle, Discard(r) PROVE Serial'
<1>1. /\ \A q \in Requests \ {r} : written'[q] = written[q] /\ call'[q] = call[q]
      /\ written'[r] = NoRows /\ call'[r] = Idle
  BY DiscardEffect
<1>2. calm' = calm /\ UNCHANGED <<role, deleted, last>>
  BY DEF Discard
<1> QED
  BY <1>1, <1>2, SerialMove DEF Fresh

(* A statement after which an ADMIN is in view, or a successor is sought.  *)
LEMMA WriteSerial ==
    ASSUME Shape, Serial, NEW r \in Requests, NEW rows \in Overlay, NEW phase,
           phase \in {"emit", "find"}, call[r] # Idle, Write(r, rows, phase),
           calm /\ phase = "emit" => Admins(View(r)') # {}
    PROVE  Serial'
<1>1. /\ call'[r].phase = phase /\ call'[r].op = call[r].op
      /\ call'[r].users = call[r].users /\ call'[r].snap = call[r].snap
      /\ \A q \in Requests \ {r} : call'[q] = call[q] /\ written'[q] = written[q]
      /\ call'[r] # Idle
      /\ UNCHANGED <<role, deleted, last, calm>>
  BY WriteGoes
<1>2. ASSUME calm PROVE Going(r)'
  <2>1. Going(r)
    BY <1>2 DEF Serial
  <2>2. phase = "emit" => Admins(View(r)') # {}
    BY <1>2
  <2> QED
    BY <1>1, <2>1, <2>2 DEF Going, Admins
<1>3. Fresh(r)'
  BY <1>1 DEF Fresh
<1> QED
  BY <1>1, <1>2, <1>3, SerialMove

LEMMA StartSerial ==
    ASSUME Shape, Serial, NEW r \in Requests, NEW op, NEW a \in Users,
           NEW S \in SUBSET Users, Start(r, op, a, S)
    PROVE  Serial'
<1> DEFINE c == [phase |-> "write", op |-> op, users |-> S,
                 snap |-> role, heir |-> {}, event |-> role]
<1>1. /\ call' = [call EXCEPT ![r] = c] /\ call[r] = Idle
      /\ UNCHANGED <<role, deleted, last, written>>
      /\ calm' = (calm /\ \A q \in Requests : call[q] = Idle)
  BY DEF Start
<1>2. call'[r] = c /\ \A q \in Requests \ {r} : call'[q] = call[q]
  BY <1>1 DEF Shape
<1>3. /\ call'[r].phase = "write" /\ call'[r].snap = role
      /\ call'[r].op = op /\ call'[r].users = S
  BY <1>2
<1>4. \A q \in Requests : Fresh(q)'
  BY <1>1, <1>2 DEF Serial, Fresh
<1>5. ASSUME calm' PROVE Alone' /\ Going(r)'
  <2>1. \A q \in Requests \ {r} : call'[q] = Idle
    BY <1>1, <1>2, <1>5
  <2>2. ~deleted /\ (op = "remove" => \E u \in Users : S = {u})
    BY DEF Start, May
  <2>4. Going(r)'
    BY <1>1, <1>3, <2>2 DEF Going
  <2> QED
    BY <2>1, <2>4 DEF Alone
<1>6. calm' => calm /\ AdminRemains' /\ (~deleted' => last' = role')
  <2>1. calm' => calm
    BY <1>1
  <2> QED
    BY <1>1, <2>1 DEF Serial, AdminRemains, Admins
<1>7. ASSUME calm', NEW q \in Requests, call'[q] # Idle PROVE Going(q)'
  <2>1. q = r
    BY <1>1, <1>2, <1>7
  <2> QED
    BY <1>5, <1>7, <2>1
<1> QED
  BY <1>4, <1>5, <1>6, <1>7 DEF Serial

LEMMA AddSerial ==
    ASSUME Shape, Serial, NEW r \in Requests, AddRows(r) PROVE Serial'
<1> DEFINE S == call[r].users \ Members(role)
           rows == [u \in S |-> "MEMBER"]
<1>1. call[r] # Idle
  BY NotIdle DEF AddRows, At
<1>2. S \in SUBSET Users /\ rows \in [S -> Roles]
  BY <1>1, CallType DEF Roles
<1>3. rows \in Overlay /\ DOMAIN rows = S
  BY <1>2, OverlayType
<1>4. Write(r, rows, "emit")
  BY DEF AddRows
<1>5. ASSUME calm PROVE Admins(View(r)') # {}
  <2>1. written[r] = NoRows /\ AdminRemains
    BY <1>1, <1>5 DEF Serial, Fresh, Going, AddRows, At
  <2>2. PICK a \in Users : role[a] = "ADMIN"
    BY <2>1 DEF AdminRemains, Admins
  <2>3. a \notin DOMAIN rows /\ View(r)[a] = "ADMIN"
    BY <1>3, <2>1, <2>2, NoRowsView DEF Members
  <2> HIDE DEF rows
  <2>4. View(r)'[a] = "ADMIN"
    BY <1>1, <1>3, <1>4, <2>3, WriteGoes
  <2> QED
    BY <2>4 DEF Admins
<1> HIDE DEF rows
<1> QED
  BY <1>1, <1>3, <1>4, <1>5, WriteSerial

LEMMA RemoveSerial ==
    ASSUME Shape, Serial, NEW r \in Requests, RemoveRows(r) PROVE Serial'
<1> DEFINE S == call[r].users \cap Members(role)
           rows == [u \in S |-> "none"]
<1>1. call[r] # Idle
  BY NotIdle DEF RemoveRows, At
<1>2. S \in SUBSET Users /\ rows \in [S -> Roles]
  BY <1>1, CallType DEF Roles
<1>3. rows \in Overlay /\ DOMAIN rows = S
  BY <1>2, OverlayType
<1>4. PICK phase \in {"emit", "find"} :
         Write(r, rows, phase) /\ (phase = "emit" => ~SoleAdmin(r))
  BY DEF RemoveRows
<1>5. ASSUME calm, phase = "emit" PROVE Admins(View(r)') # {}
  <2>1. /\ written[r] = NoRows /\ AdminRemains /\ call[r].snap = role
        /\ \E u : call[r].users = {u}
    BY <1>1, <1>5 DEF Serial, Fresh, Going, RemoveRows, At
  <2>2. PICK x : call[r].users = {x}
    BY <2>1
  <2>3. Admins(role) # {x} /\ Admins(role) # {}
    BY <1>4, <1>5, <2>1, <2>2 DEF SoleAdmin, AdminRemains
  <2>4. PICK a \in Users : role[a] = "ADMIN" /\ a # x
    BY <2>3 DEF Admins
  <2>5. a \notin DOMAIN rows /\ View(r)[a] = "ADMIN"
    BY <1>3, <2>1, <2>2, <2>4, NoRowsView
  <2> HIDE DEF rows
  <2>6. View(r)'[a] = "ADMIN"
    BY <1>1, <1>3, <1>4, <2>5, WriteGoes
  <2> QED
    BY <2>6 DEF Admins
<1> HIDE DEF rows
<1> QED
  BY <1>1, <1>3, <1>4, <1>5, WriteSerial

LEMMA FindSerial ==
    ASSUME Shape, Serial, NEW r \in Requests, Find(r) PROVE Serial'
<1>1. call[r] # Idle /\ call[r] \in Call
  BY NotIdle, CallType DEF Find, At
<1>2. CASE Discard(r)
  BY <1>1, <1>2, DiscardSerial
<1>3. ASSUME NEW u \in Heirs(r), UNCHANGED <<role, deleted, last, written, calm>>,
             call' = [call EXCEPT ![r].phase = "promote", ![r].heir = {u}]
      PROVE  Serial'
  <2>1. call'[r] = [call[r] EXCEPT !.phase = "promote", !.heir = {u}]
    BY <1>1, <1>3 DEF Shape, Call
  <2>2. /\ call'[r].phase = "promote" /\ call'[r].heir = {u}
        /\ call'[r].op = call[r].op /\ call'[r].users = call[r].users
        /\ call'[r].snap = call[r].snap
    BY <1>1, <2>1 DEF Call
  <2>3. \A q \in Requests \ {r} : call'[q] = call[q] /\ written'[q] = written[q]
    BY <1>3 DEF Shape
  <2>4. call'[r] # Idle
    BY <2>2 DEF Idle
  <2>5. Fresh(r)'
    BY <2>2, <2>4 DEF Fresh
  <2>6. ASSUME calm PROVE Going(r)'
    <3>1. Going(r)
      BY <1>1, <2>6 DEF Serial
    <3> QED
      BY <1>3, <2>2, <3>1 DEF Going
  <2> QED
    BY <1>1, <1>3, <2>3, <2>4, <2>6, <2>5, SerialMove
<1> QED
  BY <1>2, <1>3 DEF Find

LEMMA PromoteSerial ==
    ASSUME Shape, Serial, NEW r \in Requests, Promote(r) PROVE Serial'
<1> DEFINE S == call[r].heir
           rows == [u \in S |-> "ADMIN"]
<1>1. call[r] # Idle
  BY NotIdle DEF Promote, At
<1>2. S \in SUBSET Users /\ rows \in [S -> Roles]
  BY <1>1, CallType DEF Roles
<1>3. rows \in Overlay /\ DOMAIN rows = S
  BY <1>2, OverlayType
<1>4. CASE Discard(r)
  BY <1>1, <1>4, DiscardSerial
<1>5. CASE Write(r, rows, "emit")
  <2>1. ASSUME calm PROVE Admins(View(r)') # {}
    <3>1. S # {}
      BY <1>1, <2>1 DEF Serial, Going, Promote, At
    <3>2. PICK a \in Users : a \in S
      BY <1>2, <3>1
    <3>3. a \in DOMAIN rows /\ rows[a] = "ADMIN"
      BY <1>3, <3>2
    <3>4. Write(r, rows, "emit")
      BY <1>5
    <3> HIDE DEF rows
    <3>5. View(r)'[a] = "ADMIN"
      BY <1>1, <1>3, <3>3, <3>4, WriteGoes
    <3> QED
      BY <3>5 DEF Admins
  <2>2. Write(r, rows, "emit")
    BY <1>5
  <2> HIDE DEF rows
  <2> QED
    BY <1>1, <1>3, <2>1, <2>2, WriteSerial
<1> QED
  BY <1>4, <1>5 DEF Promote

LEMMA EmitSerial ==
    ASSUME Shape, Serial, NEW r \in Requests, Emit(r) PROVE Serial'
<1>1. call[r] # Idle /\ call[r] \in Call
  BY NotIdle, CallType DEF Emit
<1>2. CASE Discard(r)
  BY <1>1, <1>2, DiscardSerial
<1>3. CASE /\ call' = [call EXCEPT ![r].phase = "commit", ![r].event = View(r)]
           /\ UNCHANGED <<role, deleted, last, written, calm>>
  <2>1. call'[r] = [call[r] EXCEPT !.phase = "commit", !.event = View(r)]
    BY <1>1, <1>3 DEF Shape, Call
  <2>2. /\ call'[r].phase = "commit" /\ call'[r].event = View(r)
        /\ call'[r].op = call[r].op /\ call'[r].users = call[r].users
        /\ call'[r].snap = call[r].snap
    BY <1>1, <2>1 DEF Call
  <2>3. \A q \in Requests \ {r} : call'[q] = call[q] /\ written'[q] = written[q]
    BY <1>3 DEF Shape
  <2>4. call'[r] # Idle
    BY <2>2 DEF Idle
  <2>5. Fresh(r)'
    BY <2>2, <2>4 DEF Fresh
  <2>6. View(r)' = View(r)
    BY <1>3 DEF View
  <2>7. ASSUME calm PROVE Going(r)'
    <3>1. Going(r) /\ call[r].phase = "emit"
      BY <1>1, <2>7 DEF Serial, Emit
    <3> QED
      BY <1>3, <2>2, <2>6, <3>1 DEF Going, Admins
  <2> QED
    BY <1>1, <1>3, <2>3, <2>4, <2>7, <2>5, SerialMove
<1> QED
  BY <1>2, <1>3 DEF Emit

(* The last step of a call: nobody else is in progress while calls are     *)
(* calm.                                                                   *)
LEMMA EndSerial ==
    ASSUME Shape, Serial, NEW r \in Requests, Commit(r) \/ Tombstone(r) PROVE Serial'
<1>1. call[r] # Idle
  BY NotIdle DEF Commit, Tombstone, At
<1>2. /\ call'[r] = Idle /\ calm' = calm
      /\ \A q \in Requests \ {r} : call'[q] = call[q] /\ written'[q] = written[q]
  BY DEF Commit, Tombstone, Shape
<1>3. ASSUME calm PROVE \A q \in Requests : call'[q] = Idle
  BY <1>1, <1>2, <1>3 DEF Serial, Alone
<1>4. CASE Commit(r)
  <2>1. written'[r] = NoRows /\ role' = View(r) /\ last' = call[r].event
    BY <1>4 DEF Commit, Shape
  <2>2. ASSUME calm PROVE AdminRemains' /\ last' = role'
    <3>1. Admins(View(r)) # {} /\ call[r].event = View(r)
      BY <1>1, <1>4, <2>2 DEF Serial, Going, Commit
    <3> QED
      BY <2>1, <3>1 DEF AdminRemains, Admins
  <2> QED
    BY <1>2, <1>3, <2>1, <2>2 DEF Serial, Fresh, Alone
<1>5. CASE Tombstone(r)
  <2>1. deleted' /\ UNCHANGED <<role, written>> /\ written[r] = NoRows
    BY <1>5 DEF Tombstone, At, Serial, Fresh
  <2>2. calm => AdminRemains'
    BY <2>1 DEF Serial, AdminRemains, Admins
  <2> QED
    BY <1>2, <1>3, <2>1, <2>2 DEF Serial, Fresh, Alone
<1> QED
  BY <1>4, <1>5

LEMMA SerialStep == Shape /\ Serial /\ [Next]_vars => Serial'
<1> SUFFICES ASSUME Shape, Serial, [Next]_vars PROVE Serial'
  OBVIOUS
<1>1. CASE UNCHANGED vars
  BY <1>1 DEF vars, Serial, Fresh, Alone, Going, AdminRemains, Admins, View
<1>2. ASSUME NEW r \in Requests, Abort(r) PROVE Serial'
  BY <1>2, DiscardSerial DEF Abort
<1> QED
  BY <1>1, <1>2, StartSerial, AddSerial, RemoveSerial, FindSerial, PromoteSerial,
     EmitSerial, EndSerial DEF Next

LEMMA SerialHolds == Spec => [](Shape /\ Serial)
<1>1. Init => Serial
  BY DEF Init, Serial, Fresh, Alone, AdminRemains, Admins
<1>2. Inv => Shape
  BY DEF Inv
<1> QED
  BY <1>1, <1>2, SerialStep, InvHolds, PTL DEF Spec

(* As long as calls do not overlap the group keeps an ADMIN, whoever       *)
(* leaves, is removed or joins and whichever calls fail                    *)
(* (chat.controller.ts:604-643).                                           *)
THEOREM SuccessionWorks == Spec => []SerialAdminRemains
<1>1. Serial => SerialAdminRemains
  BY DEF Serial, SerialAdminRemains
<1> QED
  BY <1>1, SerialHolds, PTL

(* And the last event committed carries the members and roles of the       *)
(* table, so that a client needs no refetch                                *)
(* (packages/mqtt-contracts/src/events.ts:164-166).                        *)
THEOREM EventsCarryMembers == Spec => []SerialEventCurrent
<1>1. Serial => SerialEventCurrent
  BY DEF Serial, SerialEventCurrent
<1> QED
  BY <1>1, SerialHolds, PTL

(* And a tombstoned group is frozen (chat.controller.ts:515).              *)
THEOREM TombstoneFreezes == Spec => SerialTombstone
<1>1. Shape /\ Serial /\ [Next]_vars => (calm /\ deleted => role' = role)
  <2> SUFFICES ASSUME Shape, Serial, [Next]_vars, calm, deleted, role' # role PROVE FALSE
    OBVIOUS
  <2>1. PICK r \in Requests : Commit(r)
    BY DEF Next, vars, Start, AddRows, RemoveRows, Find, Promote, Emit, Tombstone,
       Abort, Write, Discard
  <2>2. call[r] # Idle
    BY <2>1, NotIdle DEF Commit
  <2> QED
    BY <2>2 DEF Serial, Going
<1> QED
  BY <1>1, SerialHolds, PTL DEF Spec, SerialTombstone

-----------------------------------------------------------------------------
(* Direct conversations.  Two things are asked of the constants: a pair is *)
(* a pair, and no legacy row could belong to two of the pairs.  Without    *)
(* the second the promise fails: requests for both pairs adopt the row,    *)
(* one after the other.                                                    *)
CONSTANTS Pairs, Conversations, LegacyMembers, NoKey
VARIABLES exists, key, members, announced, request, answers

D == INSTANCE DirectPair

PairsOK == /\ NoKey \notin Pairs
           /\ \A p \in Pairs : /\ p \in SUBSET Users
                               /\ IsFiniteSet(p) /\ Cardinality(p) = 2
OwnLegacy == \A S \in LegacyMembers, p, q \in Pairs :
                S \subseteq p /\ S \subseteq q => p = q
PairConstants == PairsOK /\ OwnLegacy

PairPhases == {"legacy", "adopt", "create", "winner", "repair", "restore"}
Request == [phase : PairPhases, pair : Pairs, conv : SUBSET Conversations, have : SUBSET Users]

PairShape == /\ exists \subseteq Conversations
             /\ key \in [Conversations -> Pairs \cup {NoKey}]
             /\ members \in [Conversations -> SUBSET Users]
             /\ request \in [Requests -> Request \cup {D!Idle}]
             /\ answers \subseteq Pairs \X Conversations

Rows == /\ \A k \in Conversations :
              /\ k \notin exists => key[k] = NoKey
              /\ k \in exists /\ key[k] = NoKey => members[k] \in LegacyMembers
              /\ key[k] # NoKey => members[k] \subseteq key[k]
        /\ \A k, l \in Conversations : key[k] = key[l] => k = l \/ key[k] = NoKey

Full(p, k) == key[k] = p /\ p \subseteq members[k]

(* What a request has seen and may still rely on.  A request that found no *)
(* row for its pair knows that the one there is now is complete; the row   *)
(* it wants to adopt is as it was, or adopted for the same pair.           *)
Fits(q) ==
    /\ q.phase \in {"legacy", "adopt", "create", "winner"} =>
          \A k \in Conversations : key[k] = q.pair => q.pair \subseteq members[k]
    /\ q.phase = "adopt" =>
          /\ q.have \in LegacyMembers /\ q.have \subseteq q.pair
          /\ \A k \in q.conv : /\ k \in exists
                               /\ key[k] \in {NoKey, q.pair}
                               /\ key[k] = NoKey => members[k] = q.have
    /\ q.phase \in {"repair", "restore"} => \A k \in q.conv : key[k] = q.pair
    /\ q.phase = "restore" => \A k \in q.conv : q.have \subseteq members[k]

PairGood == /\ PairShape /\ Rows
            /\ \A x \in answers : Full(x[1], x[2])
            /\ \A r \in Requests : request[r] # D!Idle => Fits(request[r])

LEMMA GoodHonest == PairConstants /\ PairGood => D!AnswersHonest
<1> SUFFICES ASSUME PairConstants, PairGood PROVE D!AnswersHonest
  OBVIOUS
<1>1. \A x \in answers : x[1] \in Pairs /\ x[2] \in Conversations /\ Full(x[1], x[2])
  BY DEF PairGood, PairShape
<1>2. ASSUME NEW x \in answers, NEW y \in answers, x[1] = y[1] PROVE x[2] = y[2]
  <2>1. key[x[2]] = key[y[2]] /\ key[x[2]] # NoKey
    BY <1>1, <1>2 DEF Full, PairConstants, PairsOK
  <2> QED
    BY <1>1, <2>1 DEF PairGood, Rows
<1> QED
  BY <1>1, <1>2 DEF D!AnswersHonest, D!ExactPair, PairGood, Rows, Full

(* The rows stay: the request goes on with what it has seen, or ends.      *)
LEMMA PairMoveKeeps ==
    ASSUME PairGood, NEW r \in Requests, NEW q \in Request \cup {D!Idle},
           request' = [request EXCEPT ![r] = q], q # D!Idle => Fits(q),
           UNCHANGED <<exists, key, members, answers>>
    PROVE  PairGood'
<1>1. PairShape' /\ Rows'
  BY DEF PairGood, PairShape, Rows
<1>2. \A x \in answers' : Full(x[1], x[2])'
  BY DEF PairGood, Full
<1>3. ASSUME NEW p \in Requests, request'[p] # D!Idle PROVE Fits(request[p])'
  <2>1. request'[p] = IF p = r THEN q ELSE request[p]
    BY DEF PairGood, PairShape
  <2>2. Fits(request'[p])
    BY <1>3, <2>1 DEF PairGood
  <2> QED
    BY <2>2 DEF Fits
<1> QED
  BY <1>1, <1>2, <1>3 DEF PairGood

LEMMA AnswerKeeps ==
    ASSUME PairGood, NEW r \in Requests, NEW p \in Pairs, NEW k \in Conversations,
           D!Answer(r, p, k), Full(p, k), UNCHANGED <<exists, key, members>>
    PROVE  PairGood'
<1>1. request' = [request EXCEPT ![r] = D!Idle] /\ answers' = answers \cup {<<p, k>>}
  BY DEF D!Answer
<1>2. PairShape' /\ Rows'
  BY <1>1 DEF PairGood, PairShape, Rows
<1>3. \A x \in answers' : Full(x[1], x[2])'
  BY <1>1 DEF PairGood, Full
<1>4. ASSUME NEW q \in Requests, request'[q] # D!Idle PROVE Fits(request[q])'
  <2>1. request'[q] = request[q] /\ request[q] # D!Idle
    BY <1>1, <1>4 DEF PairGood, PairShape
  <2>2. Fits(request'[q])
    BY <2>1 DEF PairGood
  <2> QED
    BY <2>2 DEF Fits
<1> QED
  BY <1>2, <1>3, <1>4 DEF PairGood

(* A write completes row k for pair p and returns it.                      *)
LEMMA StampKeeps ==
    ASSUME PairConstants, PairGood, NEW r \in Requests, NEW p \in Pairs, NEW k \in Conversations,
           D!Answer(r, p, k), ~D!Taken(p, k), key[k] \in {NoKey, p},
           exists' = exists \cup {k},
           key' = [key EXCEPT ![k] = p], members' = [members EXCEPT ![k] = p],
           \A q \in Requests : request[q] # D!Idle /\ request[q].phase = "adopt"
                               /\ k \in request[q].conv => request[q].pair = p
    PROVE  PairGood'
<1>0. /\ request' = [request EXCEPT ![r] = D!Idle] /\ answers' = answers \cup {<<p, k>>}
      /\ p \in SUBSET Users /\ p # NoKey
  BY DEF D!Answer, PairConstants, PairsOK
<1>1. PairShape'
  BY <1>0 DEF PairGood, PairShape
<1>2. /\ key'[k] = p /\ members'[k] = p
      /\ \A l \in Conversations \ {k} : key'[l] = key[l] /\ members'[l] = members[l]
  BY DEF PairGood, PairShape
<1>3. \A l \in Conversations \ {k} : key[l] # p
  BY <1>0 DEF D!Taken, D!Keyed, PairGood, Rows
<1>4. key[k] # NoKey => key[k] = p /\ members[k] \subseteq p
  BY DEF PairGood, Rows
<1>5. Rows'
  BY <1>0, <1>2, <1>3 DEF PairGood, Rows
<1>6. ASSUME NEW x \in answers' PROVE Full(x[1], x[2])'
  <2>1. CASE x = <<p, k>>
    BY <1>2, <2>1 DEF Full
  <2>2. CASE x \in answers
    <3>1. Full(x[1], x[2]) /\ x[1] \in Pairs /\ x[2] \in Conversations
      BY <2>2 DEF PairGood, PairShape
    <3>2. x[2] = k => x[1] = p
      BY <1>4, <3>1 DEF Full, PairConstants, PairsOK
    <3> QED
      BY <1>2, <3>1, <3>2 DEF Full
  <2> QED
    BY <1>0, <2>1, <2>2
<1>7. ASSUME NEW n \in Requests, request'[n] # D!Idle PROVE Fits(request[n])'
  <2> DEFINE q == request[n]
  <2>1. request'[n] = q /\ q # D!Idle
    BY <1>0, <1>7 DEF PairGood, PairShape
  <2>2. Fits(q) /\ q \in Request
    BY <2>1 DEF PairGood, PairShape
  <2>3. q.pair \in Pairs /\ q.conv \in SUBSET Conversations /\ q.pair # NoKey
    BY <2>2 DEF Request, PairConstants, PairsOK
  <2>4. q.phase = "adopt" /\ k \in q.conv => q.pair = p
    BY <2>1
  <2> HIDE DEF q
  <2>5. q.phase \in {"legacy", "adopt", "create", "winner"} =>
           \A l \in Conversations : key'[l] = q.pair => q.pair \subseteq members'[l]
    BY <1>2, <2>2 DEF Fits
  <2>6. q.phase = "adopt" =>
           /\ q.have \in LegacyMembers /\ q.have \subseteq q.pair
           /\ \A l \in q.conv : /\ l \in exists'
                                /\ key'[l] \in {NoKey, q.pair}
                                /\ key'[l] = NoKey => members'[l] = q.have
    BY <1>0, <1>2, <2>2, <2>3, <2>4 DEF Fits
  <2>7. q.phase \in {"repair", "restore"} => \A l \in q.conv : key'[l] = q.pair
    BY <1>2, <1>4, <2>2, <2>3 DEF Fits
  <2>8. q.phase = "restore" => \A l \in q.conv : q.have \subseteq members'[l]
    <3>1. ASSUME q.phase = "restore", NEW l \in q.conv PROVE q.have \subseteq members'[l]
      <4>1. key[l] = q.pair /\ q.have \subseteq members[l] /\ l \in Conversations
        BY <2>2, <2>3, <3>1 DEF Fits
      <4> QED
        BY <1>2, <1>4, <2>3, <4>1
    <3> QED
      BY <3>1
  <2>9. Fits(q)'
    BY <2>1, <2>5, <2>6, <2>7, <2>8 DEF Fits, q
  <2> QED
    BY <2>9 DEF q
<1> QED
  BY <1>1, <1>5, <1>6, <1>7 DEF PairGood

LEMMA InHand ==
    ASSUME PairGood, NEW r \in Requests, request[r].phase \in PairPhases
    PROVE  /\ request[r] # D!Idle /\ request[r] \in Request /\ Fits(request[r])
           /\ request[r].pair \in Pairs
           /\ request[r].conv \in SUBSET Conversations
           /\ request[r].have \in SUBSET Users
<1>1. request[r] # D!Idle
  BY DEF D!Idle, PairPhases
<1>2. request[r] \in Request /\ Fits(request[r])
  BY <1>1 DEF PairGood, PairShape
<1> QED
  BY <1>1, <1>2 DEF Request

LEMMA GotoKeeps ==
    ASSUME PairGood, NEW r \in Requests, NEW phase \in PairPhases, NEW p \in Pairs,
           NEW K \in SUBSET Conversations, NEW S \in SUBSET Users, D!Goto(r, phase, p, K, S),
           Fits([phase |-> phase, pair |-> p, conv |-> K, have |-> S]),
           UNCHANGED <<exists, key, members, answers>>
    PROVE  PairGood'
<1> DEFINE q == [phase |-> phase, pair |-> p, conv |-> K, have |-> S]
<1>1. q \in Request
  BY DEF Request
<1>2. q # D!Idle
  BY DEF D!Idle
<1>3. request' = [request EXCEPT ![r] = q] /\ Fits(q)
  BY DEF D!Goto
<1> HIDE DEF q
<1> QED
  BY <1>1, <1>2, <1>3, PairMoveKeeps

LEMMA ThrowKeeps == ASSUME PairGood, NEW r \in Requests, D!Throw(r) PROVE PairGood'
  BY PairMoveKeeps DEF D!Throw

LEMMA SameCardinality == \A S : D!Cardinality(S) = Cardinality(S)
  BY DEF Cardinality, D!Cardinality

LEMMA LookupKeeps ==
    ASSUME PairConstants, PairGood, NEW r \in Requests, NEW p \in Pairs, D!Lookup(r, p)
    PROVE  PairGood'
<1>1. ASSUME NEW k \in D!Keyed(p), Cardinality(members[k]) = 2, D!Answer(r, p, k)
      PROVE  PairGood'
  <2>1. k \in Conversations /\ key[k] = p /\ p # NoKey
    BY DEF D!Keyed, PairGood, PairShape, PairConstants, PairsOK
  <2>2. members[k] \in SUBSET p /\ IsFiniteSet(p) /\ Cardinality(p) = Cardinality(members[k])
    BY <1>1, <2>1 DEF PairGood, Rows, PairConstants, PairsOK
  <2>3. p = members[k]
    BY <2>2, FS_Subset, Zenon
  <2> QED
    BY <1>1, <2>1, <2>3, AnswerKeeps DEF Full, D!Lookup
<1>2. ASSUME NEW k \in D!Keyed(p), D!Goto(r, "repair", p, {k}, {}), UNCHANGED answers
      PROVE  PairGood'
  <2>1. k \in Conversations /\ key[k] = p
    BY DEF D!Keyed, PairGood, PairShape
  <2>2. Fits([phase |-> "repair", pair |-> p, conv |-> {k}, have |-> {}])
    BY <2>1 DEF Fits
  <2> QED
    BY <1>2, <2>1, <2>2, GotoKeeps DEF D!Lookup, PairPhases
<1>3. ASSUME D!Keyed(p) = {}, D!Goto(r, "legacy", p, {}, {}), UNCHANGED answers
      PROVE  PairGood'
  <2>1. \A k \in Conversations : key[k] # p
    BY <1>3 DEF D!Keyed, PairGood, Rows, PairConstants, PairsOK
  <2>2. Fits([phase |-> "legacy", pair |-> p, conv |-> {}, have |-> {}])
    BY <2>1 DEF Fits
  <2> QED
    BY <1>3, <2>2, GotoKeeps DEF D!Lookup, PairPhases
<1> QED
  BY <1>1, <1>2, <1>3, SameCardinality DEF D!Lookup

LEMMA FindLegacyKeeps ==
    ASSUME PairGood, NEW r \in Requests, D!FindLegacy(r) PROVE PairGood'
<1> DEFINE p == request[r].pair
<1>1. p \in Pairs /\ \A k \in Conversations : key[k] = p => p \subseteq members[k]
  BY InHand DEF D!FindLegacy, PairPhases, Fits
<1>2. UNCHANGED <<exists, key, members, answers>>
  BY DEF D!FindLegacy
<1>3. ASSUME NEW k \in D!Adoptable(p), D!Goto(r, "adopt", p, {k}, members[k]) PROVE PairGood'
  <2>1. k \in Conversations /\ k \in exists /\ key[k] = NoKey /\ members[k] \subseteq p
    BY DEF D!Adoptable, D!Keyed, PairGood, PairShape
  <2>2. members[k] \in LegacyMembers /\ members[k] \in SUBSET Users
    BY <2>1 DEF PairGood, Rows, PairShape
  <2> HIDE DEF p
  <2>3. Fits([phase |-> "adopt", pair |-> p, conv |-> {k}, have |-> members[k]])
    BY <1>1, <2>1, <2>2 DEF Fits
  <2> QED
    BY <1>1, <1>2, <1>3, <2>1, <2>2, <2>3, GotoKeeps DEF PairPhases
<1>4. ASSUME D!Goto(r, "create", p, {}, {}) PROVE PairGood'
  <2> HIDE DEF p
  <2>1. Fits([phase |-> "create", pair |-> p, conv |-> {}, have |-> {}])
    BY <1>1 DEF Fits
  <2> QED
    BY <1>1, <1>2, <1>4, <2>1, GotoKeeps DEF PairPhases
<1> QED
  BY <1>3, <1>4 DEF D!FindLegacy

(* The unique index refused, or a member was there already.                *)
LEMMA LoserKeeps ==
    ASSUME PairGood, NEW r \in Requests, request[r].phase \in {"adopt", "create"},
           D!Goto(r, "winner", request[r].pair, {}, {}),
           UNCHANGED <<exists, key, members, answers>>
    PROVE  PairGood'
<1> DEFINE p == request[r].pair
<1>1. p \in Pairs /\ \A k \in Conversations : key[k] = p => p \subseteq members[k]
  BY InHand DEF PairPhases, Fits
<1>2. D!Goto(r, "winner", p, {}, {})
  OBVIOUS
<1> HIDE DEF p
<1>3. Fits([phase |-> "winner", pair |-> p, conv |-> {}, have |-> {}])
  BY <1>1 DEF Fits
<1> QED
  BY <1>1, <1>2, <1>3, GotoKeeps DEF PairPhases

LEMMA AdoptKeeps ==
    ASSUME PairConstants, PairGood, NEW r \in Requests, D!Adopt(r) PROVE PairGood'
<1> DEFINE p == request[r].pair
           missing == p \ request[r].have
<1>1. /\ request[r] # D!Idle /\ Fits(request[r]) /\ request[r].phase = "adopt"
      /\ p \in Pairs /\ request[r].conv \in SUBSET Conversations
  BY InHand DEF D!Adopt, PairPhases
<1>2. CASE D!Goto(r, "winner", p, {}, {}) /\ UNCHANGED <<key, members, answers>>
  BY <1>1, <1>2, LoserKeeps DEF D!Adopt
<1>3. ASSUME NEW k \in request[r].conv, ~D!Taken(p, k),
             key' = [key EXCEPT ![k] = p],
             members' = [members EXCEPT ![k] = members[k] \cup missing], D!Answer(r, p, k)
      PROVE  PairGood'
  <2>1. /\ k \in Conversations /\ k \in exists /\ key[k] \in {NoKey, p}
        /\ key[k] = NoKey => members[k] = request[r].have
        /\ request[r].have \in LegacyMembers /\ request[r].have \subseteq p
        /\ key[k] = p => p \subseteq members[k]
    BY <1>1 DEF Fits
  <2>2. members[k] \cup missing = p
    <3>1. key[k] = p => members[k] = p
      <4>1. key[k] = p => members[k] \subseteq p
        BY <1>1, <2>1 DEF PairGood, Rows, PairConstants, PairsOK
      <4> QED
        BY <2>1, <4>1
    <3> QED
      BY <2>1, <3>1
  <2>3. ASSUME NEW q \in Requests, request[q] # D!Idle, request[q].phase = "adopt",
               k \in request[q].conv
        PROVE  request[q].pair = p
    <3>1. /\ Fits(request[q]) /\ request[q].pair \in Pairs
      BY <2>3 DEF PairGood, PairShape, Request
    <3>2. key[k] = p => request[q].pair = p
      BY <1>1, <2>3, <3>1 DEF Fits, PairConstants, PairsOK
    <3>3. key[k] = NoKey => request[q].have = request[r].have
      BY <2>1, <2>3, <3>1 DEF Fits
    <3>4. request[q].have \subseteq request[q].pair
      BY <2>3, <3>1 DEF Fits
    <3>5. key[k] = NoKey => request[q].pair = p
      BY <1>1, <2>1, <3>1, <3>3, <3>4 DEF PairConstants, OwnLegacy
    <3> QED
      BY <2>1, <3>2, <3>5
  <2>4. exists' = exists \cup {k}
    BY <2>1 DEF D!Adopt
  <2>5. members' = [members EXCEPT ![k] = p]
    BY <1>3, <2>2
  <2>6. D!Answer(r, p, k) /\ ~D!Taken(p, k) /\ key' = [key EXCEPT ![k] = p]
    BY <1>3
  <2> HIDE DEF p
  <2> QED
    BY <1>1, <2>1, <2>3, <2>4, <2>5, <2>6, StampKeeps
<1> QED
  BY <1>2, <1>3 DEF D!Adopt

LEMMA CreateKeeps ==
    ASSUME PairConstants, PairGood, NEW r \in Requests, D!Create(r) PROVE PairGood'
<1> DEFINE p == request[r].pair
<1>1. p \in Pairs /\ request[r].phase = "create"
  BY InHand DEF D!Create, PairPhases
<1>2. CASE D!Goto(r, "winner", p, {}, {}) /\ UNCHANGED <<exists, key, members, answers>>
  BY <1>1, <1>2, LoserKeeps
<1>3. ASSUME NEW k \in Conversations \ exists, ~D!Taken(p, k), exists' = exists \cup {k},
             key' = [key EXCEPT ![k] = p], members' = [members EXCEPT ![k] = p],
             D!Answer(r, p, k)
      PROVE  PairGood'
  <2>1. key[k] = NoKey
    BY DEF PairGood, Rows
  <2>2. ASSUME NEW q \in Requests, request[q] # D!Idle, request[q].phase = "adopt",
               k \in request[q].conv
        PROVE  request[q].pair = p
    BY <2>2 DEF PairGood, Fits
  <2>3. k \in Conversations /\ key[k] \in {NoKey, p}
    BY <2>1
  <2> HIDE DEF p
  <2> QED
    BY <1>1, <1>3, <2>2, <2>3, StampKeeps
<1> QED
  BY <1>2, <1>3 DEF D!Create

LEMMA WinnerKeeps ==
    ASSUME PairGood, NEW r \in Requests, D!Winner(r) PROVE PairGood'
<1> DEFINE p == request[r].pair
<1>1. p \in Pairs /\ \A k \in Conversations : key[k] = p => p \subseteq members[k]
  BY InHand DEF D!Winner, PairPhases, Fits
<1>2. ASSUME NEW k \in D!Keyed(p), D!Answer(r, p, k), UNCHANGED <<exists, key, members>>
      PROVE  PairGood'
  <2>1. k \in Conversations /\ Full(p, k)
    BY <1>1 DEF D!Keyed, Full, PairGood, PairShape
  <2> HIDE DEF p
  <2> QED
    BY <1>1, <1>2, <2>1, AnswerKeeps
<1> QED
  BY <1>2, ThrowKeeps DEF D!Winner

LEMMA RepairKeeps ==
    ASSUME PairGood, NEW r \in Requests, D!Repair(r) PROVE PairGood'
<1> DEFINE p == request[r].pair
<1>1. /\ p \in Pairs /\ request[r].conv \in SUBSET Conversations
      /\ \A k \in request[r].conv : key[k] = p
  BY InHand DEF D!Repair, PairPhases, Fits
<1>2. UNCHANGED <<exists, key, members>>
  BY DEF D!Repair
<1>3. ASSUME NEW k \in request[r].conv, p \subseteq members[k], D!Answer(r, p, k)
      PROVE  PairGood'
  <2>1. k \in Conversations /\ Full(p, k)
    BY <1>1, <1>3 DEF Full
  <2> HIDE DEF p
  <2> QED
    BY <1>1, <1>2, <1>3, <2>1, AnswerKeeps
<1>4. ASSUME NEW k \in request[r].conv, D!Goto(r, "restore", p, {k}, members[k]),
             UNCHANGED answers
      PROVE  PairGood'
  <2>1. k \in Conversations /\ key[k] = p /\ members[k] \in SUBSET Users
    BY <1>1 DEF PairGood, PairShape
  <2> HIDE DEF p
  <2>2. Fits([phase |-> "restore", pair |-> p, conv |-> {k}, have |-> members[k]])
    BY <2>1 DEF Fits
  <2> QED
    BY <1>1, <1>2, <1>4, <2>1, <2>2, GotoKeeps DEF PairPhases
<1> QED
  BY <1>3, <1>4 DEF D!Repair

LEMMA RestoreKeeps ==
    ASSUME PairConstants, PairGood, NEW r \in Requests, D!Restore(r) PROVE PairGood'
<1> DEFINE p == request[r].pair
           missing == p \ request[r].have
<1>1. /\ p \in Pairs /\ request[r].conv \in SUBSET Conversations
      /\ \A k \in request[r].conv : key[k] = p /\ request[r].have \subseteq members[k]
  BY InHand DEF D!Restore, PairPhases, Fits
<1>2. ASSUME NEW k \in request[r].conv,
             members' = [members EXCEPT ![k] = members[k] \cup missing],
             D!Answer(r, p, k), UNCHANGED <<exists, key, announced>>
      PROVE  PairGood'
  <2>1. /\ k \in Conversations /\ key[k] = p /\ p # NoKey
        /\ request[r].have \subseteq members[k]
    BY <1>1 DEF PairConstants, PairsOK
  <2>2. members[k] \subseteq p /\ k \in exists
    BY <2>1 DEF PairGood, Rows
  <2>3. members[k] \cup missing = p
    BY <2>1, <2>2
  <2>4. members' = [members EXCEPT ![k] = p] /\ exists' = exists \cup {k}
    BY <1>2, <2>2, <2>3
  <2>5. key' = [key EXCEPT ![k] = p]
    BY <1>2, <2>1 DEF PairGood, PairShape
  <2>6. ~D!Taken(p, k)
    BY <2>1 DEF D!Taken, D!Keyed, PairGood, PairShape, Rows
  <2>7. ASSUME NEW q \in Requests, request[q] # D!Idle, request[q].phase = "adopt",
               k \in request[q].conv
        PROVE  request[q].pair = p
    BY <2>1, <2>7 DEF PairGood, Fits
  <2>8. D!Answer(r, p, k)
    BY <1>2
  <2> HIDE DEF p
  <2> QED
    BY <1>1, <2>1, <2>4, <2>5, <2>6, <2>7, <2>8, StampKeeps
<1> QED
  BY <1>2, ThrowKeeps DEF D!Restore

LEMMA GoodStep == PairConstants /\ PairGood /\ [D!Next]_(D!vars) => PairGood'
<1> SUFFICES ASSUME PairConstants, PairGood, [D!Next]_(D!vars) PROVE PairGood'
  OBVIOUS
<1>1. CASE UNCHANGED D!vars
  BY <1>1 DEF D!vars, PairGood, PairShape, Rows, Full, Fits
<1> QED
  BY <1>1, LookupKeeps, FindLegacyKeeps, AdoptKeeps, CreateKeeps, WinnerKeeps,
     RepairKeeps, RestoreKeeps, ThrowKeeps DEF D!Next, D!Fail

(* Every request for a pair gets the same conversation, exactly the two in *)
(* it, however lookups, adoptions, creations and repairs overlap, unless a *)
(* legacy row could belong to two of the pairs                             *)
(* (chat.controller.ts:286-412).                                           *)
THEOREM OneConversation == PairConstants => (D!Spec => []D!AnswersHonest)
<1> SUFFICES ASSUME PairConstants PROVE D!Spec => []D!AnswersHonest
  OBVIOUS
<1>1. D!Init => PairGood
  BY DEF D!Init, PairGood, PairShape, Rows
<1>2. PairGood /\ [D!Next]_(D!vars) => PairGood'
  BY GoodStep
<1>3. PairGood => D!AnswersHonest
  BY GoodHonest
<1> QED
  BY <1>1, <1>2, <1>3, PTL DEF D!Spec
================================================================================
