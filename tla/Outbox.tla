-------------------------------- MODULE Outbox --------------------------------
(***************************************************************************)
(* The transactional outbox publisher every chat-worker replica runs:      *)
(* apps/chat-worker/src/outbox.ts.                                         *)
(*                                                                         *)
(* One poll is one database transaction: it locks up to BatchSize pending  *)
(* rows (FOR UPDATE SKIP LOCKED), publishes them one after the other with  *)
(* QoS 1, writes publishedAt or attemptCount for each and commits.  What   *)
(* the broker has accepted cannot be taken back when the transaction is    *)
(* lost, and the loop does not notice that it is: both updates of          *)
(* publishOne are caught, so it goes on publishing.                        *)
(*                                                                         *)
(* ORDER BY "createdAt" is left out: the stamps are taken before the       *)
(* writers commit, with a precision of 1 ms, so they order rows no better  *)
(* than the free choice made here.                                         *)
(***************************************************************************)
EXTENDS Naturals, Sequences, FiniteSets

CONSTANTS
    Replicas,
    Rows,           \* the events the handlers and the API will ever commit
    BatchSize,      \* BATCH_SIZE
    MaxAttempts,    \* MAX_ATTEMPTS
    MaxFaults       \* bound: errors, lost transactions, crashes, shutdowns

ASSUME OutboxAssumption == /\ BatchSize \in Nat \ {0}
                           /\ MaxAttempts \in Nat \ {0}
                           /\ MaxFaults \in Nat
                           /\ IsFiniteSet(Rows)

VARIABLES
    row,        \* [Rows -> {"absent", "pending", "published"}], committed
    attempts,   \* [Rows -> Nat]: attemptCount, committed
    sent,       \* [Rows -> Nat]: how often the broker accepted the event
    life,       \* [Replicas -> {"up", "stopping", "draining", "down"}]
    tx,         \* [Replicas -> {"none", "open", "aborted", "expired"}]
    todo,       \* [Replicas -> Seq(Rows)]: events still to be published
    accepted,   \* [Replicas -> BOOLEAN]: the publish of Head(todo) resolved
    held,       \* [Replicas -> SUBSET Rows]: row locks
    marked,     \* [Replicas -> SUBSET Rows]: uncommitted publishedAt
    failed,     \* [Replicas -> SUBSET Rows]: uncommitted attemptCount + 1
    faults

tableVars == <<row, attempts>>
txVars    == <<tx, todo, accepted, held, marked, failed>>
vars      == <<tableVars, sent, life, txVars, faults>>

Init ==
    /\ row = [r \in Rows |-> "absent"]
    /\ attempts = [r \in Rows |-> 0]
    /\ sent = [r \in Rows |-> 0]
    /\ life = [p \in Replicas |-> "up"]
    /\ tx = [p \in Replicas |-> "none"]
    /\ todo = [p \in Replicas |-> <<>>]
    /\ accepted = [p \in Replicas |-> FALSE]
    /\ held = [p \in Replicas |-> {}]
    /\ marked = [p \in Replicas |-> {}]
    /\ failed = [p \in Replicas |-> {}]
    /\ faults = 0

(* A handler's or an endpoint's transaction commits with its row.          *)
Insert(r) ==
    /\ row[r] = "absent"
    /\ row' = [row EXCEPT ![r] = "pending"]
    /\ UNCHANGED <<attempts, sent, life, txVars, faults>>

(* Mutant: the cap is hit one attempt early.                               *)
MutantEarlyCap(r) == row[r] = "pending" /\ attempts[r] + 1 < MaxAttempts

Eligible(r) == row[r] = "pending" /\ attempts[r] < MaxAttempts

(* Mutant: the SELECT stands alone, its locks are gone before the publish. *)
MutantNoLocks(p) == {r \in Rows : Eligible(r)}

Unlocked(p) == {r \in Rows : Eligible(r) /\ \A q \in Replicas : r \notin held[q]}

Batches(S) == LET n == IF Cardinality(S) < BatchSize THEN Cardinality(S)
                       ELSE BatchSize
              IN  {b \in [1 .. n -> S] : \A i, j \in 1 .. n : b[i] = b[j] => i = j}

(* tick, or the one batch of the drain in stop.                            *)
Select(p) ==
    /\ life[p] \in {"up", "stopping"}
    /\ tx[p] = "none"
    /\ Unlocked(p) # {}
    /\ \E b \in Batches(Unlocked(p)) :
          /\ todo' = [todo EXCEPT ![p] = b]
          /\ held' = [held EXCEPT ![p] = {b[i] : i \in DOMAIN b}]
    /\ tx' = [tx EXCEPT ![p] = "open"]
    /\ life' = [life EXCEPT ![p] = IF @ = "stopping" THEN "draining" ELSE @]
    /\ UNCHANGED <<tableVars, sent, accepted, marked, failed, faults>>

Working(p) == tx[p] # "none" /\ todo[p] # <<>>

(* publishJson resolves with the broker's PUBACK.                          *)
Publish(p) ==
    /\ Working(p)
    /\ ~accepted[p]
    /\ sent' = [sent EXCEPT ![Head(todo[p])] = @ + 1]
    /\ accepted' = [accepted EXCEPT ![p] = TRUE]
    /\ UNCHANGED <<tableVars, life, tx, todo, held, marked, failed, faults>>

(* The loop goes on to the next event.                                     *)
Advance(p) == /\ todo' = [todo EXCEPT ![p] = Tail(@)]
              /\ accepted' = [accepted EXCEPT ![p] = FALSE]

(* update publishedAt; in a lost transaction it fails, and so does the     *)
(* update in the catch clause, whose failure is swallowed.                 *)
Mark(p) ==
    /\ Working(p)
    /\ accepted[p]
    /\ Advance(p)
    /\ \/ /\ tx[p] = "open"
          /\ marked' = [marked EXCEPT ![p] = @ \cup {Head(todo[p])}]
       \/ tx[p] # "open" /\ UNCHANGED marked
    /\ UNCHANGED <<tableVars, sent, life, tx, held, failed, faults>>

(* Mutant: the error path marks the event as published.                    *)
MutantMarksFailure(p) ==
    /\ faults < MaxFaults
    /\ Working(p)
    /\ ~accepted[p]
    /\ Advance(p)
    /\ marked' = [marked EXCEPT ![p] = @ \cup {Head(todo[p])}]
    /\ faults' = faults + 1
    /\ UNCHANGED <<tableVars, sent, life, tx, held, failed>>

(* publishJson rejects, before or after the broker took the event; the     *)
(* catch clause counts the attempt, unless its update fails as well.       *)
PublishFails(p) ==
    /\ faults < MaxFaults
    /\ Working(p)
    /\ ~accepted[p]
    /\ Advance(p)
    /\ \/ UNCHANGED sent
       \/ sent' = [sent EXCEPT ![Head(todo[p])] = @ + 1]
    /\ \/ /\ tx[p] = "open"
          /\ failed' = [failed EXCEPT ![p] = @ \cup {Head(todo[p])}]
          /\ UNCHANGED tx
       \/ /\ tx[p] = "open"
          /\ tx' = [tx EXCEPT ![p] = "aborted"]
          /\ UNCHANGED failed
       \/ tx[p] # "open" /\ UNCHANGED <<tx, failed>>
    /\ faults' = faults + 1
    /\ UNCHANGED <<tableVars, life, held, marked>>

(* The update of a published event fails: PostgreSQL aborts the            *)
(* transaction, its locks stay until the end.                              *)
MarkFails(p) ==
    /\ faults < MaxFaults
    /\ Working(p)
    /\ accepted[p]
    /\ tx[p] = "open"
    /\ Advance(p)
    /\ tx' = [tx EXCEPT ![p] = "aborted"]
    /\ faults' = faults + 1
    /\ UNCHANGED <<tableVars, sent, life, held, marked, failed>>

(* The 60 s limit of the transaction passes while the callback still runs  *)
(* (a publish waits for the broker): rolled back, locks released.          *)
Expire(p) ==
    /\ faults < MaxFaults
    /\ tx[p] \in {"open", "aborted"}
    /\ tx' = [tx EXCEPT ![p] = "expired"]
    /\ held' = [held EXCEPT ![p] = {}]
    /\ marked' = [marked EXCEPT ![p] = {}]
    /\ failed' = [failed EXCEPT ![p] = {}]
    /\ faults' = faults + 1
    /\ UNCHANGED <<tableVars, sent, life, todo, accepted>>

(* The transaction of p is over.                                           *)
End(p) == /\ tx' = [tx EXCEPT ![p] = "none"]
          /\ todo' = [todo EXCEPT ![p] = <<>>]
          /\ accepted' = [accepted EXCEPT ![p] = FALSE]
          /\ held' = [held EXCEPT ![p] = {}]
          /\ marked' = [marked EXCEPT ![p] = {}]
          /\ failed' = [failed EXCEPT ![p] = {}]

Finished(p) == tx[p] # "none" /\ todo[p] = <<>>

Commit(p) ==
    /\ Finished(p)
    /\ tx[p] = "open"
    /\ row' = [r \in Rows |-> IF r \in marked[p] THEN "published" ELSE row[r]]
    /\ attempts' = [r \in Rows |-> IF r \in failed[p] THEN attempts[r] + 1
                                   ELSE attempts[r]]
    /\ End(p)
    /\ UNCHANGED <<sent, life, faults>>

(* The commit of an aborted or expired transaction writes nothing; a stop  *)
(* that waits for the batch rejects with it and the process exits.         *)
Rollback(p) ==
    /\ Finished(p)
    /\ tx[p] # "open"
    /\ End(p)
    /\ life' = [life EXCEPT ![p] = IF @ = "up" THEN "up" ELSE "down"]
    /\ UNCHANGED <<tableVars, sent, faults>>

Crash(p) ==
    /\ faults < MaxFaults
    /\ life[p] # "down"
    /\ End(p)
    /\ life' = [life EXCEPT ![p] = "down"]
    /\ faults' = faults + 1
    /\ UNCHANGED <<tableVars, sent>>

(* stop: no new tick, wait for the batch in flight, one more batch.        *)
Stop(p) ==
    /\ faults < MaxFaults
    /\ life[p] = "up"
    /\ life' = [life EXCEPT ![p] = "stopping"]
    /\ faults' = faults + 1
    /\ UNCHANGED <<tableVars, sent, txVars>>

Exit(p) ==
    /\ tx[p] = "none"
    /\ life[p] = "draining" \/ (life[p] = "stopping" /\ Unlocked(p) = {})
    /\ life' = [life EXCEPT ![p] = "down"]
    /\ UNCHANGED <<tableVars, sent, txVars, faults>>

Restart(p) ==
    /\ life[p] = "down"
    /\ life' = [life EXCEPT ![p] = "up"]
    /\ UNCHANGED <<tableVars, sent, txVars, faults>>

Poll(p) == Select(p) \/ Publish(p) \/ Mark(p) \/ Commit(p) \/ Rollback(p)

Next == \/ \E r \in Rows : Insert(r)
        \/ \E p \in Replicas :
              \/ Poll(p)
              \/ PublishFails(p) \/ MarkFails(p) \/ Expire(p)
              \/ Crash(p) \/ Stop(p) \/ Exit(p) \/ Restart(p)

Spec == Init /\ [][Next]_vars

(* The timer keeps firing in a live replica and the broker answers; there  *)
(* is no fairness for faults, shutdowns and restarts.                      *)
LiveSpec == Spec /\ \A p \in Replicas : WF_vars(Poll(p))
-----------------------------------------------------------------------------
(* The state is well typed; a replica holds locks only in a transaction    *)
(* that can still commit, and they cover what it has still to publish and  *)
(* what it has written.                                                    *)
TypeOK ==
    /\ row \in [Rows -> {"absent", "pending", "published"}]
    /\ attempts \in [Rows -> Nat]
    /\ sent \in [Rows -> Nat]
    /\ life \in [Replicas -> {"up", "stopping", "draining", "down"}]
    /\ tx \in [Replicas -> {"none", "open", "aborted", "expired"}]
    /\ todo \in [Replicas -> Seq(Rows)]
    /\ accepted \in [Replicas -> BOOLEAN]
    /\ held \in [Replicas -> SUBSET Rows]
    /\ marked \in [Replicas -> SUBSET Rows]
    /\ failed \in [Replicas -> SUBSET Rows]
    /\ faults \in Nat
    /\ \A p \in Replicas :
          /\ tx[p] \in {"none", "expired"} => held[p] = {}
          /\ marked[p] \cup failed[p] \subseteq held[p]
          /\ tx[p] \in {"open", "aborted"} =>
                \A i \in DOMAIN todo[p] : todo[p][i] \in held[p]

(* A row is marked published only after the broker has accepted it: no     *)
(* event is dropped, whatever fails between the publish, the update and    *)
(* the commit (outbox.ts:96-118).                                          *)
PublishedDelivered == \A r \in Rows : row[r] = "published" => sent[r] > 0

(* Replicas that poll at the same time publish an event once; every error, *)
(* lost transaction or crash costs at most one more copy of it             *)
(* (outbox.ts:75-79).                                                      *)
DuplicatesBounded == \A r \in Rows : sent[r] <= 1 + faults

(* While one replica lives, every committed event is published in the end  *)
(* or has failed MaxAttempts times, whatever a replica that stopped left   *)
(* behind (outbox.ts:45-71, 84).                                           *)
RowsSettle == \A r \in Rows : row[r] = "pending" ~>
                 \/ row[r] = "published" \/ attempts[r] >= MaxAttempts
                 \/ \A p \in Replicas : life[p] # "up"
===============================================================================
