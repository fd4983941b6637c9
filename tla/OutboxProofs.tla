----------------------------- MODULE OutboxProofs -----------------------------
(* Proofs about Outbox: locks are kept exactly as long as a transaction    *)
(* can commit, and nothing is marked published that was never accepted.    *)
EXTENDS Outbox, SequenceTheorems, FiniteSetTheorems, TLAPS

(* The first 11 conjuncts of TypeOK, and the lock discipline.              *)
Shape ==
    /\ row \in [Rows -> {"absent", "pending", "published"}]
    /\ attempts \in [Rows -> Nat]
    /\ sent \in [Rows -> Nat]
    /\ life \in [Replicas -> {"up", "stopping", "draining", "down"}]
    /\ tx \in [Replicas -> {"none", "open", "aborted", "expired"}]
    /\ todo \in [Replicas -> Seq(Rows)]
    /\ accepted \in [Replicas -> BOOLEAN]
    /\ held \in [Replicas -> SUBSET Rows]
    /\ marked \in [Replicas -> SUBSET Rows]
    /\ failed \in [Replicas -> SUBSET Rows]
    /\ faults \in Nat

Locks == \A p \in Replicas :
    /\ tx[p] \in {"none", "expired"} => held[p] = {}
    /\ marked[p] \cup failed[p] \subseteq held[p]
    /\ tx[p] \in {"open", "aborted"} =>
          \A i \in DOMAIN todo[p] : todo[p][i] \in held[p]

LEMMA TypeOKSplit == TypeOK <=> Shape /\ Locks
BY DEF TypeOK, Shape, Locks

(* A batch is a sequence of rows, each of the set it was drawn from.       *)
LEMMA BatchType ==
    ASSUME NEW S \in SUBSET Rows, NEW b \in Batches(S)
    PROVE  b \in Seq(Rows) /\ {b[i] : i \in DOMAIN b} \subseteq Rows
<1>1. IsFiniteSet(S)
  BY OutboxAssumption, FS_Subset
<1>2. Cardinality(S) \in Nat
  BY <1>1, FS_CardinalityType
<1>3. PICK n \in Nat : b \in [1 .. n -> S]
  BY <1>2, OutboxAssumption DEF Batches
<1>4. b \in Seq(S) /\ DOMAIN b = 1 .. n
  BY <1>3
<1> QED
  BY <1>3, <1>4

LEMMA HeadTailType ==
    ASSUME NEW s \in Seq(Rows), s # <<>>
    PROVE  /\ Head(s) \in Rows
           /\ Tail(s) \in Seq(Rows)
           /\ \A i \in DOMAIN Tail(s) : \E j \in DOMAIN s : Tail(s)[i] = s[j]
           /\ \E j \in DOMAIN s : Head(s) = s[j]
<1>1. Head(s) = s[1] /\ 1 \in DOMAIN s /\ Head(s) \in Rows
  OBVIOUS
<1>2. Tail(s) \in Seq(Rows) /\ Len(Tail(s)) = Len(s) - 1
  OBVIOUS
<1>3. ASSUME NEW i \in DOMAIN Tail(s) PROVE \E j \in DOMAIN s : Tail(s)[i] = s[j]
  <2>1. Tail(s)[i] = s[i + 1]
    BY <1>2
  <2>2. i + 1 \in DOMAIN s
    BY <1>2
  <2> QED BY <2>1, <2>2
<1> QED
  BY <1>1, <1>2, <1>3

(* Every step keeps the types.                                             *)
LEMMA ShapeStep == Shape /\ [Next]_vars => Shape'
<1> SUFFICES ASSUME Shape, [Next]_vars PROVE Shape'
  OBVIOUS
<1> USE DEF Shape, tableVars, txVars
<1>1. ASSUME NEW r \in Rows, Insert(r) PROVE Shape'
  BY <1>1 DEF Insert
<1>2. ASSUME NEW p \in Replicas, Select(p) PROVE Shape'
  <2>1. Unlocked(p) \in SUBSET Rows
    BY DEF Unlocked
  <2>2. PICK b \in Batches(Unlocked(p)) :
           /\ todo' = [todo EXCEPT ![p] = b]
           /\ held' = [held EXCEPT ![p] = {b[i] : i \in DOMAIN b}]
    BY <1>2 DEF Select
  <2>3. b \in Seq(Rows) /\ {b[i] : i \in DOMAIN b} \subseteq Rows
    BY <2>1, <2>2, BatchType
  <2>4. todo' \in [Replicas -> Seq(Rows)] /\ held' \in [Replicas -> SUBSET Rows]
    BY <2>2, <2>3
  <2> QED
    BY <1>2, <2>4 DEF Select
<1>3. ASSUME NEW p \in Replicas, Working(p), Advance(p)
      PROVE  /\ todo' \in [Replicas -> Seq(Rows)]
             /\ accepted' \in [Replicas -> BOOLEAN]
             /\ Head(todo[p]) \in Rows
  <2>1. Tail(todo[p]) \in Seq(Rows) /\ Head(todo[p]) \in Rows
    BY <1>3, HeadTailType DEF Working
  <2> QED
    BY <1>3, <2>1 DEF Advance
<1>4. ASSUME NEW p \in Replicas, Publish(p) PROVE Shape'
  <2>1. Head(todo[p]) \in Rows
    BY <1>4, HeadTailType DEF Publish, Working
  <2> QED
    BY <1>4, <2>1 DEF Publish
<1>5. ASSUME NEW p \in Replicas, Mark(p) PROVE Shape'
  <2>1. /\ todo' \in [Replicas -> Seq(Rows)]
        /\ accepted' \in [Replicas -> BOOLEAN]
        /\ Head(todo[p]) \in Rows
    BY <1>5, <1>3 DEF Mark
  <2>2. marked[p] \cup {Head(todo[p])} \in SUBSET Rows
    BY <2>1
  <2>3. marked' \in [Replicas -> SUBSET Rows]
    <3>1. CASE marked' = [marked EXCEPT ![p] = marked[p] \cup {Head(todo[p])}]
      BY <3>1, <2>2
    <3>2. CASE UNCHANGED marked
      BY <3>2
    <3> QED
      BY <1>5, <3>1, <3>2 DEF Mark
  <2> QED
    BY <1>5, <2>1, <2>3 DEF Mark
<1>6. ASSUME NEW p \in Replicas, PublishFails(p) PROVE Shape'
  <2>1. Head(todo[p]) \in Rows
    BY <1>6, <1>3 DEF PublishFails
  <2>2. /\ todo' \in [Replicas -> Seq(Rows)]
        /\ accepted' \in [Replicas -> BOOLEAN]
    BY <1>6, <1>3 DEF PublishFails
  <2>3. sent' \in [Rows -> Nat]
    BY <1>6, <2>1 DEF PublishFails
  <2>4. failed[p] \cup {Head(todo[p])} \in SUBSET Rows
    BY <2>1
  <2>5. failed' \in [Replicas -> SUBSET Rows]
    <3>1. CASE failed' = [failed EXCEPT ![p] = failed[p] \cup {Head(todo[p])}]
      BY <3>1, <2>4
    <3>2. CASE UNCHANGED failed
      BY <3>2
    <3> QED
      BY <1>6, <3>1, <3>2 DEF PublishFails
  <2>6. tx' \in [Replicas -> {"none", "open", "aborted", "expired"}]
    <3>1. CASE UNCHANGED tx
      BY <3>1
    <3>2. CASE tx' = [tx EXCEPT ![p] = "aborted"]
      BY <3>2
    <3> QED
      BY <1>6, <3>1, <3>2 DEF PublishFails
  <2> QED
    BY <1>6, <2>2, <2>3, <2>5, <2>6 DEF PublishFails
<1>7. ASSUME NEW p \in Replicas, MarkFails(p) PROVE Shape'
  BY <1>7, <1>3 DEF MarkFails
<1>8. ASSUME NEW p \in Replicas, Expire(p) PROVE Shape'
  BY <1>8 DEF Expire
<1>9. ASSUME NEW p \in Replicas, End(p)
      PROVE  /\ tx' \in [Replicas -> {"none", "open", "aborted", "expired"}]
             /\ todo' \in [Replicas -> Seq(Rows)]
             /\ accepted' \in [Replicas -> BOOLEAN]
             /\ held' \in [Replicas -> SUBSET Rows]
             /\ marked' \in [Replicas -> SUBSET Rows]
             /\ failed' \in [Replicas -> SUBSET Rows]
  BY <1>9 DEF End
<1>10. ASSUME NEW p \in Replicas, Commit(p) PROVE Shape'
  BY <1>10, <1>9 DEF Commit
<1>11. ASSUME NEW p \in Replicas, Rollback(p) PROVE Shape'
  BY <1>11, <1>9 DEF Rollback
<1>12. ASSUME NEW p \in Replicas, Crash(p) PROVE Shape'
  BY <1>12, <1>9 DEF Crash
<1>13. ASSUME NEW p \in Replicas, Stop(p) \/ Exit(p) \/ Restart(p) PROVE Shape'
  <2>1. life' \in [Replicas -> {"up", "stopping", "draining", "down"}]
    BY <1>13 DEF Stop, Exit, Restart
  <2> QED
    BY <1>13, <2>1 DEF Stop, Exit, Restart
<1>14. CASE UNCHANGED vars
  BY <1>14 DEF vars
<1> QED
  BY <1>1, <1>2, <1>4, <1>5, <1>6, <1>7, <1>8, <1>10, <1>11, <1>12, <1>13, <1>14
  DEF Next, Poll

(* What the batch of p has published so far.                               *)
Honest ==
    /\ \A p \in Replicas :
          /\ tx[p] = "none" => todo[p] = <<>>
          /\ \A r \in marked[p] : sent[r] > 0
          /\ accepted[p] => todo[p] # <<>> /\ sent[Head(todo[p])] > 0
    /\ PublishedDelivered

(* Locks and the published copies are kept by every step of the batch.     *)
LEMMA LocksStep == Shape /\ Shape' /\ Locks /\ [Next]_vars => Locks'
<1> SUFFICES ASSUME Shape, Shape', Locks, [Next]_vars PROVE Locks'
  OBVIOUS
<1> USE DEF Shape, Locks, tableVars, txVars
<1>1. ASSUME NEW r \in Rows, Insert(r) PROVE Locks'
  BY <1>1 DEF Insert
<1>2. ASSUME NEW p \in Replicas, Select(p) PROVE Locks'
  <2>1. PICK b \in Batches(Unlocked(p)) :
           /\ todo' = [todo EXCEPT ![p] = b]
           /\ held' = [held EXCEPT ![p] = {b[i] : i \in DOMAIN b}]
    BY <1>2 DEF Select
  <2>2. marked[p] = {} /\ failed[p] = {} /\ UNCHANGED <<marked, failed>>
    BY <1>2 DEF Select
  <2>3. tx' = [tx EXCEPT ![p] = "open"]
    BY <1>2 DEF Select
  <2> QED
    BY <2>1, <2>2, <2>3
<1>3. ASSUME NEW p \in Replicas, Working(p), Advance(p)
      PROVE  /\ \A q \in Replicas \ {p} : todo'[q] = todo[q]
             /\ \A i \in DOMAIN todo'[p] :
                   \E j \in DOMAIN todo[p] : todo'[p][i] = todo[p][j]
             /\ tx[p] = "open" => Head(todo[p]) \in held[p]
  <2>1. /\ \A i \in DOMAIN Tail(todo[p]) :
              \E j \in DOMAIN todo[p] : Tail(todo[p])[i] = todo[p][j]
        /\ \E j \in DOMAIN todo[p] : Head(todo[p]) = todo[p][j]
    BY <1>3, HeadTailType DEF Working
  <2> QED
    BY <1>3, <2>1 DEF Advance
<1>4. ASSUME NEW p \in Replicas, Publish(p) PROVE Locks'
  BY <1>4 DEF Publish
<1>5. ASSUME NEW p \in Replicas, Mark(p) PROVE Locks'
  <2>1. UNCHANGED <<tx, held, failed>>
    BY <1>5 DEF Mark
  <2>2. \A q \in Replicas : marked'[q] \subseteq held[q]
    <3>1. CASE UNCHANGED marked
      BY <3>1
    <3>2. CASE /\ tx[p] = "open"
               /\ marked' = [marked EXCEPT ![p] = marked[p] \cup {Head(todo[p])}]
      BY <1>5, <1>3, <3>2 DEF Mark
    <3> QED
      BY <1>5, <3>1, <3>2 DEF Mark
  <2>3. \A q \in Replicas : tx[q] \in {"open", "aborted"} =>
           \A i \in DOMAIN todo'[q] : todo'[q][i] \in held[q]
    <3>1. /\ \A q \in Replicas \ {p} : todo'[q] = todo[q]
          /\ \A i \in DOMAIN todo'[p] :
                \E j \in DOMAIN todo[p] : todo'[p][i] = todo[p][j]
      BY <1>5, <1>3 DEF Mark
    <3> TAKE q \in Replicas
    <3> HAVE tx[q] \in {"open", "aborted"}
    <3>2. \A j \in DOMAIN todo[q] : todo[q][j] \in held[q]
      OBVIOUS
    <3>3. CASE q = p
      BY <3>1, <3>2, <3>3
    <3>4. CASE q # p
      BY <3>1, <3>2, <3>4
    <3> QED
      BY <3>3, <3>4
  <2> QED
    BY <2>1, <2>2, <2>3
<1>6. ASSUME NEW p \in Replicas, PublishFails(p) PROVE Locks'
  <2>1. /\ UNCHANGED <<held, marked>>
        /\ \A q \in Replicas : tx'[q] = tx[q] \/ (tx[q] = "open" /\ tx'[q] = "aborted")
    BY <1>6 DEF PublishFails
  <2>2. \A q \in Replicas : failed'[q] \subseteq held[q]
    <3>1. CASE UNCHANGED failed
      BY <3>1
    <3>2. CASE /\ tx[p] = "open"
               /\ failed' = [failed EXCEPT ![p] = failed[p] \cup {Head(todo[p])}]
      BY <1>6, <1>3, <3>2 DEF PublishFails
    <3> QED
      BY <1>6, <3>1, <3>2 DEF PublishFails
  <2>3. \A q \in Replicas : tx[q] \in {"open", "aborted"} =>
           \A i \in DOMAIN todo'[q] : todo'[q][i] \in held[q]
    <3>1. /\ \A q \in Replicas \ {p} : todo'[q] = todo[q]
          /\ \A i \in DOMAIN todo'[p] :
                \E j \in DOMAIN todo[p] : todo'[p][i] = todo[p][j]
      BY <1>6, <1>3 DEF PublishFails
    <3> TAKE q \in Replicas
    <3> HAVE tx[q] \in {"open", "aborted"}
    <3>2. \A j \in DOMAIN todo[q] : todo[q][j] \in held[q]
      OBVIOUS
    <3>3. CASE q = p
      BY <3>1, <3>2, <3>3
    <3>4. CASE q # p
      BY <3>1, <3>2, <3>4
    <3> QED
      BY <3>3, <3>4
  <2> QED
    BY <2>1, <2>2, <2>3
<1>7. ASSUME NEW p \in Replicas, MarkFails(p) PROVE Locks'
  BY <1>7, <1>3 DEF MarkFails
<1>8. ASSUME NEW p \in Replicas, Expire(p) PROVE Locks'
  BY <1>8 DEF Expire
<1>9. ASSUME NEW p \in Replicas, End(p) PROVE Locks'
  BY <1>9 DEF End
<1>10. ASSUME NEW p \in Replicas, Commit(p) \/ Rollback(p) \/ Crash(p) PROVE Locks'
  BY <1>10, <1>9 DEF Commit, Rollback, Crash
<1>11. ASSUME NEW p \in Replicas, Stop(p) \/ Exit(p) \/ Restart(p) PROVE Locks'
  BY <1>11 DEF Stop, Exit, Restart
<1>12. CASE UNCHANGED vars
  BY <1>12 DEF vars
<1> QED
  BY <1>1, <1>2, <1>4, <1>5, <1>6, <1>7, <1>8, <1>10, <1>11, <1>12 DEF Next, Poll

(* TypeOK for every number of replicas, rows, attempts and faults: locks   *)
(* last exactly as long as the transaction can commit (outbox.ts:74-94).   *)
THEOREM OutboxTyping == Spec => []TypeOK
<1>1. Init => Shape /\ Locks
  BY DEF Init, Shape, Locks
<1>2. Shape /\ Locks /\ [Next]_vars => (Shape /\ Locks)'
  BY ShapeStep, LocksStep
<1> QED
  BY <1>1, <1>2, TypeOKSplit, PTL DEF Spec

(* Copies are never taken back, and only the head is accepted.             *)
LEMMA HonestStep == Shape /\ Shape' /\ Honest /\ [Next]_vars => Honest'
<1> SUFFICES ASSUME Shape, Shape', Honest, [Next]_vars PROVE Honest'
  OBVIOUS
<1> USE DEF Shape, Honest, PublishedDelivered, tableVars, txVars
<1>1. ASSUME NEW r \in Rows, Insert(r) PROVE Honest'
  BY <1>1 DEF Insert
<1>2. ASSUME NEW p \in Replicas, Select(p) PROVE Honest'
  <2>1. ~accepted[p]
    BY <1>2 DEF Select
  <2>2. \A q \in Replicas \ {p} : todo'[q] = todo[q] /\ tx'[q] = tx[q]
    BY <1>2 DEF Select
  <2>3. tx'[p] = "open"
    BY <1>2 DEF Select
  <2> QED
    BY <1>2, <2>1, <2>2, <2>3 DEF Select
<1>3. ASSUME NEW p \in Replicas, Publish(p) PROVE Honest'
  <2>1. Head(todo[p]) \in Rows
    BY <1>3, HeadTailType DEF Publish, Working
  <2>2. /\ sent'[Head(todo[p])] > 0
        /\ \A r \in Rows : sent[r] > 0 => sent'[r] > 0
    BY <1>3, <2>1 DEF Publish
  <2>3. \A q \in Replicas : accepted[q] => Head(todo[q]) \in Rows
    BY HeadTailType
  <2>4. \A q \in Replicas : accepted'[q] => accepted[q] \/ q = p
    BY <1>3 DEF Publish
  <2>5. \A q \in Replicas :
           accepted'[q] => todo[q] # <<>> /\ sent'[Head(todo[q])] > 0
    BY <1>3, <2>2, <2>3, <2>4 DEF Publish, Working
  <2> QED
    BY <1>3, <2>2, <2>5 DEF Publish
<1>4. ASSUME NEW p \in Replicas, Working(p), Advance(p)
      PROVE  /\ ~accepted'[p]
             /\ Head(todo[p]) \in Rows
             /\ tx[p] # "none"
             /\ \A q \in Replicas \ {p} :
                   todo'[q] = todo[q] /\ accepted'[q] = accepted[q]
  BY <1>4, HeadTailType DEF Working, Advance
<1>5. ASSUME NEW p \in Replicas, Mark(p) PROVE Honest'
  <2>1. /\ ~accepted'[p]
        /\ tx[p] # "none"
        /\ \A q \in Replicas \ {p} :
              todo'[q] = todo[q] /\ accepted'[q] = accepted[q]
    BY <1>5, <1>4 DEF Mark
  <2>2. \A q \in Replicas : \A r \in marked'[q] : sent[r] > 0
    <3>1. CASE UNCHANGED marked
      BY <3>1
    <3>2. CASE marked' = [marked EXCEPT ![p] = marked[p] \cup {Head(todo[p])}]
      BY <1>5, <3>2 DEF Mark
    <3> QED
      BY <1>5, <3>1, <3>2 DEF Mark
  <2> QED
    BY <1>5, <2>1, <2>2 DEF Mark
<1>6. ASSUME NEW p \in Replicas, PublishFails(p) \/ MarkFails(p) PROVE Honest'
  <2>1. /\ ~accepted'[p]
        /\ Head(todo[p]) \in Rows
        /\ tx[p] # "none"
        /\ \A q \in Replicas \ {p} :
              todo'[q] = todo[q] /\ accepted'[q] = accepted[q]
    BY <1>6, <1>4 DEF PublishFails, MarkFails
  <2>2. \A r \in Rows : sent[r] > 0 => sent'[r] > 0
    <3>1. CASE UNCHANGED sent
      BY <3>1
    <3>2. CASE sent' = [sent EXCEPT ![Head(todo[p])] = @ + 1]
      BY <2>1, <3>2
    <3> QED
      BY <1>6, <3>1, <3>2 DEF PublishFails, MarkFails
  <2>3. \A q \in Replicas : accepted[q] => Head(todo[q]) \in Rows
    BY HeadTailType
  <2>4. \A q \in Replicas : tx'[q] = "none" => tx[q] = "none" /\ q # p
    BY <1>6, <2>1 DEF PublishFails, MarkFails
  <2>5. UNCHANGED <<row, marked>>
    BY <1>6 DEF PublishFails, MarkFails
  <2> QED
    BY <2>1, <2>2, <2>3, <2>4, <2>5
<1>7. ASSUME NEW p \in Replicas, Expire(p) PROVE Honest'
  BY <1>7 DEF Expire
<1>8. ASSUME NEW p \in Replicas, End(p), UNCHANGED sent,
             \A r \in Rows : row'[r] = "published" =>
                                row[r] = "published" \/ r \in marked[p]
      PROVE  Honest'
  BY <1>8 DEF End
<1>9. ASSUME NEW p \in Replicas, Commit(p) \/ Rollback(p) \/ Crash(p) PROVE Honest'
  <2>1. End(p) /\ UNCHANGED sent
    BY <1>9 DEF Commit, Rollback, Crash
  <2>2. \A r \in Rows : row'[r] = "published" =>
                            row[r] = "published" \/ r \in marked[p]
    BY <1>9 DEF Commit, Rollback, Crash
  <2> QED
    BY <1>8, <2>1, <2>2
<1>10. ASSUME NEW p \in Replicas, Stop(p) \/ Exit(p) \/ Restart(p) PROVE Honest'
  <2>1. UNCHANGED <<row, sent, tx, todo, accepted, marked>>
    BY <1>10 DEF Stop, Exit, Restart
  <2> QED
    BY <2>1
<1>11. CASE UNCHANGED vars
  BY <1>11 DEF vars
<1> QED
  BY <1>1, <1>2, <1>3, <1>5, <1>6, <1>7, <1>9, <1>10, <1>11 DEF Next, Poll

(* Whatever fails, and however many replicas poll, an event is marked      *)
(* published only after the broker accepted it (outbox.ts:96-118).         *)
THEOREM MarkedWasAccepted == Spec => []PublishedDelivered
<1>1. Init => Shape /\ Honest
  BY DEF Init, Shape, Honest, PublishedDelivered
<1>2. Shape /\ Honest /\ [Next]_vars => (Shape /\ Honest)'
  BY ShapeStep, HonestStep
<1>3. Honest => PublishedDelivered
  BY DEF Honest
<1> QED
  BY <1>1, <1>2, <1>3, PTL DEF Spec

-----------------------------------------------------------------------------
(* Duplicates.  A copy of r is still to come from every replica that has r *)
(* in its batch and not yet published; one more batch can take r while the *)
(* row is neither published nor about to be.  Only a fault can make the    *)
(* sum of these and of the copies already sent grow.                       *)
Elems(s) == {s[i] : i \in DOMAIN s}
Distinct(s) == \A i, j \in DOMAIN s : s[i] = s[j] => i = j
Unsent(p) == IF accepted[p] THEN Elems(todo[p]) \ {Head(todo[p])}
             ELSE Elems(todo[p])
Pending(r) == {p \in Replicas : r \in Unsent(p)}
Again(r) == /\ row[r] # "published"
            /\ ~\E p \in Replicas : tx[p] = "open" /\ r \in held[p] \ failed[p]

(* A batch names a row once, and whatever a live transaction has locked it *)
(* has written or has still to publish.                                    *)
Batched == \A p \in Replicas :
    /\ Distinct(todo[p])
    /\ tx[p] = "open" => held[p] \subseteq marked[p] \cup failed[p] \cup Elems(todo[p])

One(b) == IF b THEN 1 ELSE 0
Paid == \A r \in Rows :
    /\ IsFiniteSet(Pending(r))
    /\ sent[r] + Cardinality(Pending(r)) + One(Again(r)) <= 1 + faults

LEMMA BatchElems ==
    ASSUME NEW S \in SUBSET Rows, NEW b \in Batches(S)
    PROVE  Distinct(b) /\ Elems(b) \subseteq S
<1>1. IsFiniteSet(S)
  BY OutboxAssumption, FS_Subset
<1>2. Cardinality(S) \in Nat
  BY <1>1, FS_CardinalityType
<1>3. PICK n \in Nat : /\ b \in [1 .. n -> S]
                       /\ \A i, j \in 1 .. n : b[i] = b[j] => i = j
  BY <1>2, OutboxAssumption DEF Batches
<1> QED
  BY <1>3 DEF Distinct, Elems

LEMMA TailElems ==
    ASSUME NEW s \in Seq(Rows), s # <<>>, Distinct(s)
    PROVE  /\ Distinct(Tail(s))
           /\ Head(s) \in Elems(s)
           /\ Elems(Tail(s)) = Elems(s) \ {Head(s)}
<1>1. /\ Head(s) = s[1] /\ 1 \in DOMAIN s /\ DOMAIN s = 1 .. Len(s)
      /\ Len(s) \in Nat
  OBVIOUS
<1>2. /\ DOMAIN Tail(s) = 1 .. (Len(s) - 1)
      /\ \A i \in 1 .. (Len(s) - 1) : Tail(s)[i] = s[i + 1] /\ i + 1 \in DOMAIN s
  OBVIOUS
<1>3. Distinct(Tail(s))
  BY <1>1, <1>2 DEF Distinct
<1>4. ASSUME NEW r \in Elems(s), r # Head(s) PROVE r \in Elems(Tail(s))
  <2>1. PICK j \in DOMAIN s : r = s[j]
    BY <1>4 DEF Elems
  <2>2. j - 1 \in 1 .. (Len(s) - 1) /\ (j - 1) + 1 = j
    BY <1>1, <1>4, <2>1
  <2> QED
    BY <1>2, <2>1, <2>2 DEF Elems
<1>5. ASSUME NEW r \in Elems(Tail(s)) PROVE r \in Elems(s) /\ r # Head(s)
  <2>1. PICK i \in 1 .. (Len(s) - 1) : r = s[i + 1]
    BY <1>2 DEF Elems
  <2>2. i + 1 \in DOMAIN s /\ i + 1 # 1
    BY <1>2, <2>1
  <2> QED
    BY <1>1, <2>1, <2>2 DEF Elems, Distinct
<1> QED
  BY <1>1, <1>3, <1>4, <1>5 DEF Elems

(* A set of replicas of which at most the membership of p changes.         *)
LEMMA CountOne ==
    ASSUME NEW P, IsFiniteSet(P), NEW Q, NEW p, P \ {p} = Q \ {p}
    PROVE  /\ IsFiniteSet(Q)
           /\ Cardinality(P) \in Nat /\ Cardinality(Q) \in Nat
           /\ Cardinality(Q) + One(p \in P) = Cardinality(P) + One(p \in Q)
<1> DEFINE R == P \ {p}
<1>0. Cardinality(P) \in Nat
  BY FS_CardinalityType
<1>1. IsFiniteSet(R) /\ Cardinality(R) = Cardinality(P) - One(p \in P)
  <2>1. CASE p \in P
    <3>1. IsFiniteSet(P \ {p}) /\ Cardinality(P \ {p}) = Cardinality(P) - 1
      BY <2>1, FS_RemoveElement, Zenon
    <3> QED BY <2>1, <3>1 DEF One
  <2>2. CASE p \notin P
    <3>1. R = P
      BY <2>2
    <3>2. One(p \in P) = 0
      BY <2>2 DEF One
    <3>3. Cardinality(P) = Cardinality(P) - 0
      BY <1>0
    <3> QED BY <3>1, <3>2, <3>3, Zenon
  <2> QED BY <2>1, <2>2
<1>2. IsFiniteSet(R \cup {p}) /\ Cardinality(R \cup {p}) = Cardinality(R) + 1
  <2>1. p \notin R
    OBVIOUS
  <2> HIDE DEF R
  <2> QED BY <1>1, <2>1, FS_AddElement, Zenon
<1>3. Q = IF p \in Q THEN R \cup {p} ELSE R
  OBVIOUS
<1>4. IsFiniteSet(Q) /\ Cardinality(Q) = Cardinality(R) + One(p \in Q)
  <2>1. Cardinality(R) \in Nat
    BY <1>1, FS_CardinalityType
  <2> HIDE DEF R
  <2>2. CASE p \in Q
    <3>1. Q = R \cup {p}
      BY <1>3, <2>2
    <3> QED BY <1>2, <2>2, <3>1 DEF One
  <2>3. CASE p \notin Q
    <3>1. Q = R
      BY <1>3, <2>3
    <3> QED BY <1>1, <2>1, <2>3, <3>1 DEF One
  <2> QED BY <2>2, <2>3
<1>5. Cardinality(P) \in Nat /\ Cardinality(Q) \in Nat /\ Cardinality(R) \in Nat
  BY <1>0, <1>1, <1>4, FS_CardinalityType
<1> HIDE DEF R
<1> QED
  BY <1>1, <1>4, <1>5 DEF One

(* What one replica's step costs: a row that gains a copy, a copy to come  *)
(* or another batch pays for it with one of the others or with a fault.    *)
LEMMA PaidByOne ==
    ASSUME Shape, Shape', Paid, NEW p \in Replicas,
           \A q \in Replicas \ {p} : UNCHANGED <<todo[q], accepted[q]>>,
           \A r \in Rows :
              sent'[r] + One(r \in Unsent(p)') + One(Again(r)') + faults
                 <= sent[r] + One(r \in Unsent(p)) + One(Again(r)) + faults'
    PROVE  Paid'
<1> SUFFICES ASSUME NEW r \in Rows
             PROVE  /\ IsFiniteSet(Pending(r)')
                    /\ sent'[r] + Cardinality(Pending(r)') + One(Again(r)') <= 1 + faults'
  BY DEF Paid
<1>1. \A q \in Replicas \ {p} : Unsent(q)' = Unsent(q)
  BY DEF Unsent, Elems
<1>2. Pending(r) \ {p} = Pending(r)' \ {p}
  BY <1>1 DEF Pending
<1>3. /\ One(p \in Pending(r)) = One(r \in Unsent(p))
      /\ One(p \in Pending(r)') = One(r \in Unsent(p)')
  BY DEF Pending
<1>4. IsFiniteSet(Pending(r))
  BY DEF Paid
<1>5. /\ IsFiniteSet(Pending(r)')
      /\ Cardinality(Pending(r)) \in Nat /\ Cardinality(Pending(r)') \in Nat
      /\ Cardinality(Pending(r)') + One(p \in Pending(r))
            = Cardinality(Pending(r)) + One(p \in Pending(r)')
  BY <1>2, <1>4, CountOne, Zenon
<1>6. sent[r] + Cardinality(Pending(r)) + One(Again(r)) <= 1 + faults
  BY DEF Paid
<1>7. /\ sent[r] \in Nat /\ sent'[r] \in Nat /\ faults \in Nat /\ faults' \in Nat
      /\ One(Again(r)) \in Nat /\ One(Again(r)') \in Nat
      /\ One(r \in Unsent(p)) \in Nat /\ One(r \in Unsent(p)') \in Nat
  BY DEF Shape, One
<1> QED
  BY <1>3, <1>5, <1>6, <1>7

(* The loop goes on: the batch stays a set, and the head is done with.     *)
LEMMA AdvanceUnsent ==
    ASSUME Shape, Honest, Batched, NEW p \in Replicas, Working(p), Advance(p)
    PROVE  /\ Distinct(todo'[p])
           /\ Elems(todo'[p]) = Elems(todo[p]) \ {Head(todo[p])}
           /\ Head(todo[p]) \in Rows /\ Head(todo[p]) \in Elems(todo[p])
           /\ Unsent(p)' = Elems(todo'[p])
           /\ accepted[p] => Unsent(p)' = Unsent(p)
           /\ ~accepted[p] => /\ Unsent(p)' = Unsent(p) \ {Head(todo[p])}
                              /\ Head(todo[p]) \in Unsent(p)
           /\ \A q \in Replicas \ {p} : UNCHANGED <<todo[q], accepted[q]>>
<1>1. /\ todo[p] \in Seq(Rows) /\ todo[p] # <<>>
      /\ todo'[p] = Tail(todo[p]) /\ ~accepted'[p]
      /\ \A q \in Replicas \ {p} : UNCHANGED <<todo[q], accepted[q]>>
  BY DEF Shape, Working, Advance
<1>2. /\ Distinct(todo'[p])
      /\ Elems(todo'[p]) = Elems(todo[p]) \ {Head(todo[p])}
      /\ Head(todo[p]) \in Elems(todo[p]) /\ Head(todo[p]) \in Rows
  BY <1>1, TailElems, HeadTailType DEF Batched
<1> QED
  BY <1>1, <1>2 DEF Unsent, Elems

LEMMA BatchedStep ==
    Shape /\ Shape' /\ Locks /\ Honest /\ Batched /\ [Next]_vars => Batched'
<1> SUFFICES ASSUME Shape, Shape', Locks, Honest, Batched, [Next]_vars PROVE Batched'
  OBVIOUS
<1> USE DEF tableVars, txVars
<1>1. ASSUME NEW p \in Replicas,
             \A q \in Replicas \ {p} :
                UNCHANGED <<todo[q], tx[q], held[q], marked[q], failed[q]>>,
             Distinct(todo'[p]),
             tx'[p] = "open" =>
                held'[p] \subseteq marked'[p] \cup failed'[p] \cup Elems(todo'[p])
      PROVE  Batched'
  BY <1>1 DEF Batched, Distinct, Elems
<1>2. ASSUME UNCHANGED <<todo, tx, held, marked, failed>> PROVE Batched'
  BY <1>2 DEF Batched, Distinct, Elems
<1>3. ASSUME NEW p \in Replicas, Select(p) PROVE Batched'
  <2>1. PICK b \in Batches(Unlocked(p)) :
           /\ todo' = [todo EXCEPT ![p] = b]
           /\ held' = [held EXCEPT ![p] = {b[i] : i \in DOMAIN b}]
    BY <1>3 DEF Select
  <2>2. Distinct(b) /\ Elems(b) \subseteq Unlocked(p)
    BY BatchElems DEF Unlocked
  <2> QED
    BY <1>1, <1>3, <2>1, <2>2 DEF Select, Shape, Elems
<1>4. ASSUME NEW p \in Replicas, Mark(p) \/ PublishFails(p) \/ MarkFails(p)
      PROVE  Batched'
  <2>1. /\ Distinct(todo'[p])
        /\ Elems(todo'[p]) = Elems(todo[p]) \ {Head(todo[p])}
        /\ \A q \in Replicas \ {p} : UNCHANGED todo[q]
    BY <1>4, AdvanceUnsent DEF Mark, PublishFails, MarkFails
  <2>2. UNCHANGED held
    BY <1>4 DEF Mark, PublishFails, MarkFails
  <2>3. \A q \in Replicas \ {p} : UNCHANGED <<tx[q], marked[q], failed[q]>>
    BY <1>4 DEF Mark, PublishFails, MarkFails, Shape
  <2>4. ASSUME tx'[p] = "open"
        PROVE  /\ tx[p] = "open"
               /\ \/ marked'[p] = marked[p] \cup {Head(todo[p])} /\ UNCHANGED failed
                  \/ failed'[p] = failed[p] \cup {Head(todo[p])} /\ UNCHANGED marked
    BY <1>4, <2>4 DEF Mark, PublishFails, MarkFails, Shape
  <2>5. tx'[p] = "open" =>
           held'[p] \subseteq marked'[p] \cup failed'[p] \cup Elems(todo'[p])
    BY <2>1, <2>2, <2>4 DEF Batched
  <2> QED
    BY <1>1, <2>1, <2>2, <2>3, <2>5
<1>5. ASSUME NEW p \in Replicas, Expire(p) PROVE Batched'
  BY <1>1, <1>5 DEF Expire, Shape, Batched
<1>6. ASSUME NEW p \in Replicas, End(p) PROVE Batched'
  <2>1. Distinct(<<>>)
    BY DEF Distinct
  <2> QED
    BY <1>1, <1>6, <2>1 DEF End, Shape
<1>7. ASSUME NEW p \in Replicas, Commit(p) \/ Rollback(p) \/ Crash(p) PROVE Batched'
  BY <1>6, <1>7 DEF Commit, Rollback, Crash
<1>8. ASSUME NEW p \in Replicas, Publish(p) \/ Stop(p) \/ Exit(p) \/ Restart(p)
      PROVE  Batched'
  BY <1>2, <1>8 DEF Publish, Stop, Exit, Restart
<1>9. CASE (\E r \in Rows : Insert(r)) \/ UNCHANGED vars
  BY <1>2, <1>9 DEF Insert, vars
<1> QED
  BY <1>3, <1>4, <1>5, <1>7, <1>8, <1>9 DEF Next, Poll

LEMMA PaidStep ==
    /\ Shape /\ Shape' /\ Locks /\ Locks' /\ Honest /\ Batched /\ Paid
    /\ [Next]_vars
    => Paid'
<1> SUFFICES ASSUME Shape, Shape', Locks, Locks', Honest, Batched, Paid, [Next]_vars
             PROVE  Paid'
  OBVIOUS
<1> USE DEF tableVars, txVars
<1>1. ASSUME UNCHANGED <<sent, todo, accepted, faults>>, \A r \in Rows : Again(r)' => Again(r)
      PROVE  Paid'
  <2>1. \A r \in Rows : Pending(r)' = Pending(r)
    BY <1>1 DEF Pending, Unsent, Elems
  <2>2. \A r \in Rows : One(Again(r)') <= One(Again(r)) /\ One(Again(r)) \in Nat /\ One(Again(r)') \in Nat
    BY <1>1 DEF One
  <2>3. \A r \in Rows : Cardinality(Pending(r)) \in Nat
    BY FS_CardinalityType DEF Paid
  <2> QED
    BY <1>1, <2>1, <2>2, <2>3 DEF Paid, Shape
<1>2. ASSUME NEW r \in Rows, Insert(r) PROVE Paid'
  BY <1>1, <1>2 DEF Insert, Again, Shape
<1>3. ASSUME NEW p \in Replicas, Select(p) PROVE Paid'
  <2>1. PICK b \in Batches(Unlocked(p)) :
           /\ todo' = [todo EXCEPT ![p] = b]
           /\ held' = [held EXCEPT ![p] = {b[i] : i \in DOMAIN b}]
    BY <1>3 DEF Select
  <2>2. Elems(b) \subseteq Unlocked(p)
    BY BatchElems DEF Unlocked
  <2>3. /\ tx[p] = "none" /\ todo[p] = <<>> /\ ~accepted[p] /\ failed[p] = {}
        /\ UNCHANGED <<row, sent, accepted, failed, faults>>
        /\ tx' = [tx EXCEPT ![p] = "open"]
    BY <1>3 DEF Select, Honest, Locks, Shape
  <2>4. Unsent(p) = {} /\ Unsent(p)' = Elems(b)
    BY <2>1, <2>3 DEF Unsent, Elems, Shape
  <2>5. ASSUME NEW r \in Elems(b) PROVE Again(r) /\ ~Again(r)'
    <3>1. r \in held'[p] \ failed'[p] /\ tx'[p] = "open"
      BY <2>1, <2>3 DEF Elems, Shape
    <3> QED
      BY <2>2, <3>1 DEF Again, Unlocked, Eligible
  <2>6. ASSUME NEW r \in Rows, Again(r)' PROVE Again(r)
    BY <2>1, <2>3, <2>6 DEF Again, Shape
  <2>7. \A r \in Rows : One(r \in Unsent(p)') + One(Again(r)')
                           <= One(r \in Unsent(p)) + One(Again(r))
    BY <2>4, <2>5, <2>6 DEF One
  <2>8. \A r \in Rows :
              sent'[r] + One(r \in Unsent(p)') + One(Again(r)') + faults
                 <= sent[r] + One(r \in Unsent(p)) + One(Again(r)) + faults'
    BY <2>3, <2>7 DEF Shape, One
  <2> QED
    BY <2>1, <2>3, <2>8, PaidByOne DEF Shape
<1>4. ASSUME NEW p \in Replicas, Publish(p) PROVE Paid'
  <2>1. /\ Head(todo[p]) \in Elems(todo[p]) /\ Head(todo[p]) \in Rows
    BY <1>4, TailElems, HeadTailType DEF Publish, Working, Shape, Batched
  <2>2. /\ Unsent(p)' = Unsent(p) \ {Head(todo[p])} /\ Head(todo[p]) \in Unsent(p)
        /\ UNCHANGED <<todo, faults>>
    BY <1>4, <2>1 DEF Publish, Unsent, Elems, Shape
  <2>3. \A r \in Rows : Again(r)' = Again(r)
    BY <1>4 DEF Publish, Again
  <2>4. \A r \in Rows : sent'[r] = sent[r] + One(r = Head(todo[p]))
    BY <1>4, <2>1 DEF Publish, Shape, One
  <2>5. \A r \in Rows :
              sent'[r] + One(r \in Unsent(p)') + One(Again(r)') + faults
                 <= sent[r] + One(r \in Unsent(p)) + One(Again(r)) + faults'
    <3>1. \A r \in Rows :
             One(r = Head(todo[p])) + One(r \in Unsent(p)') <= One(r \in Unsent(p))
      BY <2>2 DEF One
    <3>2. \A r \in Rows :
             /\ One(Again(r)') = One(Again(r)) /\ One(Again(r)) \in Nat
             /\ One(r = Head(todo[p])) \in Nat
             /\ One(r \in Unsent(p)') \in Nat /\ One(r \in Unsent(p)) \in Nat
      BY <2>3 DEF One
    <3>3. faults \in Nat /\ faults' = faults /\ \A r \in Rows : sent[r] \in Nat
      BY <2>2 DEF Shape
    <3> QED
      BY <2>4, <3>1, <3>2, <3>3
  <2>6. \A q \in Replicas \ {p} : UNCHANGED <<todo[q], accepted[q]>>
    BY <1>4 DEF Publish, Shape
  <2> QED
    BY <2>5, <2>6, PaidByOne
<1>5. ASSUME NEW p \in Replicas, Mark(p) PROVE Paid'
  <2>1. /\ Unsent(p)' = Unsent(p)
        /\ \A q \in Replicas \ {p} : UNCHANGED <<todo[q], accepted[q]>>
        /\ UNCHANGED <<sent, faults>>
    BY <1>5, AdvanceUnsent DEF Mark
  <2>2. \A r \in Rows : Again(r)' = Again(r)
    BY <1>5 DEF Mark, Again
  <2>3. \A r \in Rows :
              sent'[r] + One(r \in Unsent(p)') + One(Again(r)') + faults
                 <= sent[r] + One(r \in Unsent(p)) + One(Again(r)) + faults'
    BY <2>1, <2>2 DEF Shape, One
  <2> QED
    BY <2>1, <2>3, PaidByOne
<1>6. ASSUME NEW p \in Replicas, PublishFails(p) PROVE Paid'
  <2>1. /\ Unsent(p)' = Unsent(p) \ {Head(todo[p])} /\ Head(todo[p]) \in Unsent(p)
        /\ Head(todo[p]) \in Rows
        /\ \A q \in Replicas \ {p} : UNCHANGED <<todo[q], accepted[q]>>
        /\ faults' = faults + 1
    BY <1>6, AdvanceUnsent DEF PublishFails
  <2>2. \A r \in Rows : /\ sent'[r] <= sent[r] + One(r = Head(todo[p]))
                        /\ sent'[r] \in Nat /\ sent[r] \in Nat
    BY <1>6, <2>1 DEF PublishFails, Shape, One
  <2>3. \A r \in Rows : One(r = Head(todo[p])) + One(r \in Unsent(p)') <= One(r \in Unsent(p))
    BY <2>1 DEF One
  <2>4. \A r \in Rows : /\ One(Again(r)') <= One(Again(r)) + 1
                        /\ One(Again(r)') \in Nat /\ One(Again(r)) \in Nat
                        /\ One(r = Head(todo[p])) \in Nat
                        /\ One(r \in Unsent(p)') \in Nat /\ One(r \in Unsent(p)) \in Nat
    BY DEF One
  <2>5. faults \in Nat
    BY DEF Shape
  <2>6. \A r \in Rows :
              sent'[r] + One(r \in Unsent(p)') + One(Again(r)') + faults
                 <= sent[r] + One(r \in Unsent(p)) + One(Again(r)) + faults'
    BY <2>1, <2>2, <2>3, <2>4, <2>5
  <2> QED
    BY <2>1, <2>6, PaidByOne
<1>7. ASSUME NEW p \in Replicas, MarkFails(p) \/ Expire(p) PROVE Paid'
  <2>1. /\ Unsent(p)' = Unsent(p)
        /\ \A q \in Replicas \ {p} : UNCHANGED <<todo[q], accepted[q]>>
        /\ UNCHANGED sent /\ faults' = faults + 1
    <3>1. CASE MarkFails(p)
      BY <3>1, AdvanceUnsent DEF MarkFails
    <3>2. CASE Expire(p)
      BY <3>2 DEF Expire, Unsent, Elems
    <3> QED
      BY <1>7, <3>1, <3>2
  <2>2. \A r \in Rows :
              sent'[r] + One(r \in Unsent(p)') + One(Again(r)') + faults
                 <= sent[r] + One(r \in Unsent(p)) + One(Again(r)) + faults'
    BY <2>1 DEF Shape, One
  <2> QED
    BY <2>1, <2>2, PaidByOne
<1>8. ASSUME NEW p \in Replicas, End(p), UNCHANGED sent,
             \/ faults' = faults + 1
             \/ UNCHANGED faults /\ \A r \in Rows : Again(r)' => Again(r)
      PROVE  Paid'
  <2>1. /\ Unsent(p)' = {}
        /\ \A q \in Replicas \ {p} : UNCHANGED <<todo[q], accepted[q]>>
    BY <1>8 DEF End, Unsent, Elems, Shape
  <2>2. \A r \in Rows :
              sent'[r] + One(r \in Unsent(p)') + One(Again(r)') + faults
                 <= sent[r] + One(r \in Unsent(p)) + One(Again(r)) + faults'
    BY <1>8, <2>1 DEF Shape, One
  <2> QED
    BY <2>1, <2>2, PaidByOne
<1>9. ASSUME NEW p \in Replicas, Crash(p) PROVE Paid'
  BY <1>8, <1>9 DEF Crash
<1>10. ASSUME NEW p \in Replicas, Rollback(p) PROVE Paid'
  <2>1. \A r \in Rows : Again(r)' => Again(r)
    BY <1>10 DEF Rollback, End, Again, Shape
  <2> QED
    BY <1>8, <1>10, <2>1 DEF Rollback
<1>11. ASSUME NEW p \in Replicas, Commit(p) PROVE Paid'
  <2>1. held[p] \subseteq marked[p] \cup failed[p]
    BY <1>11 DEF Commit, Finished, Batched, Elems
  <2>2. ASSUME NEW r \in Rows, Again(r)' PROVE Again(r)
    <3>1. r \notin marked[p] /\ row'[r] = row[r]
      BY <1>11, <2>2 DEF Commit, Again
    <3>2. \A q \in Replicas \ {p} : UNCHANGED <<tx[q], held[q], failed[q]>>
      BY <1>11 DEF Commit, End, Shape
    <3> QED
      BY <2>1, <2>2, <3>1, <3>2 DEF Again
  <2> QED
    BY <1>8, <1>11, <2>2 DEF Commit
<1>12. ASSUME NEW p \in Replicas, Stop(p) PROVE Paid'
  <2>1. /\ UNCHANGED <<sent, todo, accepted, row, tx, held, failed>>
        /\ faults' = faults + 1
    BY <1>12 DEF Stop
  <2>2. \A r \in Rows :
              sent'[r] + One(r \in Unsent(p)') + One(Again(r)') + faults
                 <= sent[r] + One(r \in Unsent(p)) + One(Again(r)) + faults'
    BY <2>1 DEF Shape, One, Unsent, Elems
  <2> QED
    BY <2>1, <2>2, PaidByOne
<1>13. ASSUME NEW p \in Replicas, Exit(p) \/ Restart(p) PROVE Paid'
  BY <1>1, <1>13 DEF Exit, Restart, Again
<1>14. CASE UNCHANGED vars
  BY <1>1, <1>14 DEF vars, Again
<1> QED
  BY <1>2, <1>3, <1>4, <1>5, <1>6, <1>7, <1>9, <1>10, <1>11, <1>12, <1>13, <1>14
  DEF Next, Poll

(* For every number of replicas, rows and faults: an event is published    *)
(* once, and every error, lost transaction, crash or shutdown costs at     *)
(* most one more copy of it (outbox.ts:75-79).                             *)
THEOREM CopiesPaidFor == Spec => []DuplicatesBounded
<1> DEFINE Inv == Shape /\ Locks /\ Honest /\ Batched /\ Paid
<1>1. Init => Inv
  <2> SUFFICES ASSUME Init PROVE Inv
    OBVIOUS
  <2>1. Shape /\ Locks /\ Honest
    BY DEF Init, Shape, Locks, Honest, PublishedDelivered
  <2>2. Batched
    BY DEF Init, Batched, Distinct, Elems
  <2>3. \A r \in Rows : Pending(r) = {}
    BY DEF Init, Pending, Unsent, Elems
  <2>4. IsFiniteSet({}) /\ Cardinality({}) = 0
    BY FS_EmptySet
  <2>5. \A r \in Rows : sent[r] = 0 /\ faults = 0 /\ One(Again(r)) \in {0, 1}
    BY DEF Init, One
  <2>6. \A r \in Rows :
           /\ IsFiniteSet(Pending(r)) /\ Cardinality(Pending(r)) = 0
    BY <2>3, <2>4
  <2>7. Paid
    BY <2>5, <2>6 DEF Paid
  <2> QED
    BY <2>1, <2>2, <2>7
<1>2. Inv /\ [Next]_vars => Inv'
  BY ShapeStep, LocksStep, HonestStep, BatchedStep, PaidStep
<1>3. Inv => DuplicatesBounded
  <2> SUFFICES ASSUME Inv, NEW r \in Rows PROVE sent[r] <= 1 + faults
    BY DEF DuplicatesBounded
  <2>1. Cardinality(Pending(r)) \in Nat /\ One(Again(r)) \in Nat
    BY FS_CardinalityType DEF Paid, One
  <2> QED
    BY <2>1 DEF Paid, Shape
<1> QED
  BY <1>1, <1>2, <1>3, PTL DEF Spec
===============================================================================
