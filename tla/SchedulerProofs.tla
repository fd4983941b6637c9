---------------------------- MODULE SchedulerProofs ----------------------------
(***************************************************************************)
(* Proofs about Scheduler, for any finite set of jobs and one replica: two *)
(* replicas take up the same jobs.  And about Bots, the rule engine of the *)
(* same worker: the state that rules keep.                                 *)
(***************************************************************************)
EXTENDS Scheduler, FiniteSetTheorems, TLAPS

OneReplica == /\ IsFiniteSet(Jobs)
              /\ \A p, q \in Replicas : p = q

Statuses == {"PENDING", "RUNNING", "COMPLETED", "FAILED"}
Steps == {"idle", "claim", "run", "error"}

Shape == /\ status \in [Jobs -> Statuses]
         /\ due \in [Jobs -> BOOLEAN]
         /\ attempts \in [Jobs -> Nat]
         /\ sent \in [Jobs -> Nat]
         /\ batch \in [Replicas -> Seq(Jobs \X Nat)]
         /\ step \in [Replicas -> Steps]
         /\ done \in [Replicas -> 0 .. Actions]

Working(p) == step[p] \in {"run", "error"}

(* What the SELECT returned is what the tables still say: the jobs of the  *)
(* batch are different ones, PENDING but for the one in hand, with the     *)
(* attempts they had.                                                      *)
Current(p) ==
    /\ (batch[p] = <<>>) <=> (step[p] = "idle")
    /\ \A i, k \in 1 .. Len(batch[p]) : batch[p][i][1] = batch[p][k][1] => i = k
    /\ \A i \in 1 .. Len(batch[p]) :
          /\ batch[p][i][2] = attempts[batch[p][i][1]]
          /\ status[batch[p][i][1]] =
                IF i = 1 /\ Working(p) THEN "RUNNING" ELSE "PENDING"

(* Every attempt pays for one round of the actions: those of a PENDING job *)
(* are all counted, a RUNNING one is in a round that is not counted yet.   *)
Paid(j) ==
    /\ status[j] = "PENDING" => /\ attempts[j] < MaxAttempts
                                /\ sent[j] <= Actions * attempts[j]
    /\ status[j] = "RUNNING" => /\ attempts[j] < MaxAttempts
                                /\ sent[j] <= Actions * (attempts[j] + 1)
    /\ sent[j] <= Actions * MaxAttempts
    /\ status[j] = "COMPLETED" => sent[j] >= Actions

(* The job in hand has sent what this round did, on top of the old rounds. *)
InHand(p) == Working(p) => /\ sent[Job(p)] >= done[p]
                           /\ sent[Job(p)] <= Actions * attempts[Job(p)] + done[p]

Good == /\ Shape
        /\ \A p \in Replicas : Current(p) /\ InHand(p)
        /\ \A j \in Jobs : Paid(j)

LEMMA GoodSent == Good => JobsSent
BY DEF Good, Paid, JobsSent

-----------------------------------------------------------------------------
(* Facts the steps share.                                                  *)

LEMMA Rounds == \A n \in Nat : /\ Actions * n \in Nat
                               /\ Actions * (n + 1) = Actions * n + Actions
BY SchedulerAssumption, SMT

LEMMA MoreRounds == ASSUME NEW m \in Nat, NEW n \in Nat, m <= n
                    PROVE  Actions * m <= Actions * n
BY SchedulerAssumption, SMT

(* The job in hand: the head of a batch that is not empty.                 *)
LEMMA Hand ==
    ASSUME Good, NEW p \in Replicas, step[p] # "idle"
    PROVE  /\ batch[p] \in Seq(Jobs \X Nat) /\ Len(batch[p]) \in Nat \ {0}
           /\ Job(p) \in Jobs
           /\ batch[p][1][2] = attempts[Job(p)]
           /\ status[Job(p)] = IF Working(p) THEN "RUNNING" ELSE "PENDING"
<1>1. batch[p] \in Seq(Jobs \X Nat) /\ batch[p] # <<>>
  BY DEF Good, Shape, Current
<1>2. Len(batch[p]) \in Nat \ {0} /\ batch[p][1] \in Jobs \X Nat
  BY <1>1
<1>3. 1 \in 1 .. Len(batch[p])
  BY <1>2
<1> QED
  BY <1>1, <1>2, <1>3 DEF Good, Current, Job

(* One replica: what holds of the one that moved holds of all.             *)
LEMMA Only ==
    ASSUME OneReplica, NEW p \in Replicas, Current(p)', InHand(p)'
    PROVE  \A q \in Replicas : Current(q)' /\ InHand(q)'
<1> SUFFICES ASSUME NEW q \in Replicas PROVE Current(q)' /\ InHand(q)'
  OBVIOUS
<1>1. q = p
  BY DEF OneReplica
<1> QED
  BY <1>1

(* A job that a step left alone is paid for as before.                     *)
LEMMA Untouched ==
    ASSUME NEW j \in Jobs, Paid(j),
           status'[j] = status[j], attempts'[j] = attempts[j], sent'[j] = sent[j]
    PROVE  Paid(j)'
BY DEF Paid

(* The rest of the batch after a step that wrote the job in hand only.     *)
LEMMA Rest ==
    ASSUME Good, NEW p \in Replicas, step[p] # "idle", Advance(p),
           \A j \in Jobs : j # Job(p) => status'[j] = status[j] /\ attempts'[j] = attempts[j]
    PROVE  /\ batch' \in [Replicas -> Seq(Jobs \X Nat)]
           /\ step' \in [Replicas -> Steps]
           /\ done' \in [Replicas -> 0 .. Actions]
           /\ Current(p)' /\ InHand(p)'
<1> DEFINE b == batch[p]
<1>1. /\ b \in Seq(Jobs \X Nat) /\ Len(b) \in Nat \ {0}
      /\ Current(p) /\ Shape
  BY Hand DEF Good
<1>2. /\ Tail(b) \in Seq(Jobs \X Nat) /\ Len(Tail(b)) = Len(b) - 1
      /\ \A i \in 1 .. Len(Tail(b)) :
            /\ Tail(b)[i] = b[i + 1] /\ i + 1 \in 1 .. Len(b) /\ i + 1 # 1
            /\ b[i + 1] \in Jobs \X Nat
  BY <1>1
<1>3. /\ batch'[p] = Tail(b)
      /\ step'[p] = IF Len(b) = 1 THEN "idle" ELSE "claim"
  BY <1>1 DEF Advance, Shape
<1>4. (batch'[p] = <<>>) <=> (step'[p] = "idle")
  <2>1. \A s \in Seq(Jobs \X Nat) : s = <<>> <=> Len(s) = 0
    OBVIOUS
  <2>2. (Tail(b) = <<>>) <=> (Len(Tail(b)) = 0)
    BY <2>1, <1>2, Zenon
  <2>3. (Tail(b) = <<>>) <=> (Len(b) = 1)
    BY <2>2, <1>1, <1>2
  <2> QED
    BY <2>3, <1>3
<1> DEFINE Distinct(m, n) == b[m][1] = b[n][1] => m = n
<1>d. \A m, n \in 1 .. Len(b) : Distinct(m, n)
  BY <1>1 DEF Current
<1>5. \A i, k \in 1 .. Len(batch'[p]) : batch'[p][i][1] = batch'[p][k][1] => i = k
  <2> SUFFICES ASSUME NEW i \in 1 .. Len(Tail(b)), NEW k \in 1 .. Len(Tail(b)),
                      Tail(b)[i][1] = Tail(b)[k][1]
               PROVE  i = k
    BY <1>3
  <2>1. i + 1 \in 1 .. Len(b) /\ k + 1 \in 1 .. Len(b) /\ b[i + 1][1] = b[k + 1][1]
    BY <1>2
  <2>2. Distinct(i + 1, k + 1)
    BY <1>d, <2>1
  <2> QED
    BY <2>1, <2>2
<1>6. ~Working(p)'
  BY <1>3 DEF Working
<1>7. ASSUME NEW i \in 1 .. Len(batch'[p])
      PROVE  /\ batch'[p][i][2] = attempts'[batch'[p][i][1]]
             /\ status'[batch'[p][i][1]] = "PENDING"
  <2>1. /\ i \in 1 .. Len(Tail(b)) /\ batch'[p][i] = b[i + 1]
        /\ i + 1 \in 1 .. Len(b) /\ i + 1 # 1 /\ b[i + 1][1] \in Jobs
    BY <1>2, <1>3
  <2>2. b[i + 1][1] # Job(p)
    <3>1. 1 \in 1 .. Len(b)
      BY <1>1
    <3>2. Distinct(i + 1, 1)
      BY <1>d, <2>1, <3>1
    <3> QED
      BY <2>1, <3>2 DEF Job
  <2>3. /\ b[i + 1][2] = attempts[b[i + 1][1]]
        /\ status[b[i + 1][1]] = "PENDING"
    BY <1>1, <2>1 DEF Current
  <2> QED
    BY <2>1, <2>2, <2>3
<1>8. Current(p)'
  BY <1>4, <1>5, <1>6, <1>7 DEF Current
<1>9. /\ batch' \in [Replicas -> Seq(Jobs \X Nat)]
      /\ step' \in [Replicas -> Steps] /\ done' \in [Replicas -> 0 .. Actions]
  BY <1>1, <1>2, SchedulerAssumption DEF Advance, Shape, Steps
<1> QED
  BY <1>6, <1>8, <1>9 DEF InHand

-----------------------------------------------------------------------------
(* The steps.                                                              *)

LEMMA SelectStep ==
    ASSUME OneReplica, Good, NEW p \in Replicas, Select(p) PROVE Good'
<1>1. Shape /\ Ready \subseteq Jobs
  BY DEF Good, Ready
<1>2. PICK q \in Orders(Ready) :
         batch' = [batch EXCEPT ![p] = [i \in DOMAIN q |-> <<q[i], attempts[q[i]]>>]]
  BY DEF Select
<1> DEFINE n == Cardinality(Ready)
           b == [i \in 1 .. n |-> <<q[i], attempts[q[i]]>>]
<1>3. n \in Nat /\ n # 0
  <2>1. IsFiniteSet(Ready)
    BY <1>1, FS_Subset DEF OneReplica
  <2>2. n \in Nat /\ (n = 0 <=> Ready = {})
    BY <2>1, FS_CardinalityType, FS_EmptySet
  <2> QED
    BY <2>2 DEF Select
<1>4. /\ q \in [1 .. n -> Ready]
      /\ \A i, k \in 1 .. n : q[i] = q[k] => i = k
  BY DEF Orders
<1>5. b \in Seq(Jobs \X Nat) /\ Len(b) = n /\ batch'[p] = b
  <2> HIDE DEF n
  <2>1. \A i \in 1 .. n : <<q[i], attempts[q[i]]>> \in Jobs \X Nat
    BY <1>1, <1>4 DEF Shape
  <2>2. b \in [1 .. n -> Jobs \X Nat]
    BY <2>1
  <2>3. b \in Seq(Jobs \X Nat) /\ Len(b) = n
    BY <2>2, <1>3
  <2>4. batch'[p] = b
    BY <1>1, <1>2, <1>4 DEF Shape
  <2> QED
    BY <2>3, <2>4
<1>6. /\ step'[p] = "claim" /\ UNCHANGED <<jobVars, sent, done, faults>>
      /\ step' \in [Replicas -> Steps]
  BY <1>1 DEF Select, Shape, Steps
<1>7. batch' \in [Replicas -> Seq(Jobs \X Nat)]
  <2> HIDE DEF b, n
  <2>1. batch' = [batch EXCEPT ![p] = b]
    BY <1>2, <1>4 DEF b
  <2> QED
    BY <1>1, <1>5, <2>1 DEF Shape
<1>8. Current(p)'
  <2>1. \A i \in 1 .. n : b[i][1] = q[i] /\ b[i][2] = attempts[q[i]]
    OBVIOUS
  <2>2. \A i \in 1 .. n : status[q[i]] = "PENDING"
    BY <1>4 DEF Ready
  <2> HIDE DEF b, n
  <2>3. batch'[p] # <<>>
    BY <1>3, <1>5
  <2>4. ~Working(p)'
    BY <1>6 DEF Working
  <2>5. \A i, k \in 1 .. n : b[i][1] = b[k][1] => i = k
    BY <1>4, <2>1
  <2>6. \A i \in 1 .. n : /\ b[i][2] = attempts'[b[i][1]]
                          /\ status'[b[i][1]] = "PENDING"
    BY <2>1, <2>2, <1>6 DEF jobVars
  <2> QED
    BY <2>3, <2>4, <2>5, <2>6, <1>5, <1>6 DEF Current
<1>9. InHand(p)'
  BY <1>6 DEF InHand, Working
<1>10. \A j \in Jobs : Paid(j)'
  BY <1>6, Untouched DEF Good, jobVars
<1>11. Shape'
  BY <1>1, <1>6, <1>7 DEF Shape, jobVars
<1> QED
  BY <1>8, <1>9, <1>10, <1>11, Only DEF Good

LEMMA ClaimStep ==
    ASSUME OneReplica, Good, NEW p \in Replicas, Claim(p) PROVE Good'
<1> DEFINE b == batch[p]
<1>1. /\ Shape /\ Current(p) /\ step[p] = "claim" /\ Job(p) \in Jobs
      /\ status[Job(p)] = "PENDING" /\ Paid(Job(p))
      /\ b \in Seq(Jobs \X Nat) /\ Len(b) \in Nat \ {0} /\ Job(p) = b[1][1]
  BY Hand DEF Good, Claim, Working, Job
<1>2. /\ step'[p] = "run" /\ done'[p] = 0 /\ UNCHANGED <<due, attempts, sent, batch>>
      /\ status'[Job(p)] = "RUNNING"
      /\ \A j \in Jobs : j # Job(p) => status'[j] = status[j]
  BY <1>1 DEF Claim, Shape
<1>3. Shape'
  BY <1>1, SchedulerAssumption DEF Claim, Shape, Statuses, Steps
<1>4. Current(p)'
  <2>1. batch[p] # <<>> /\ Working(p)'
    BY <1>1, <1>2 DEF Working, Current
  <2>2. ASSUME NEW i \in 1 .. Len(b)
        PROVE  status'[b[i][1]] = IF i = 1 THEN "RUNNING" ELSE "PENDING"
    <3>1. b[i][1] \in Jobs /\ 1 \in 1 .. Len(b)
      BY <1>1
    <3>2. i # 1 => b[i][1] # Job(p) /\ status[b[i][1]] = "PENDING"
      BY <1>1, <3>1 DEF Current
    <3> QED
      BY <1>1, <1>2, <3>1, <3>2
  <2> QED
    BY <1>1, <1>2, <2>1, <2>2 DEF Current
<1>5. InHand(p)'
  <2>1. Job(p)' = Job(p) /\ sent[Job(p)] \in Nat /\ attempts[Job(p)] \in Nat
    BY <1>1, <1>2 DEF Job, Shape
  <2>2. Actions * attempts[Job(p)] \in Nat
    BY <2>1, Rounds
  <2> QED
    BY <1>1, <1>2, <2>1, <2>2 DEF InHand, Paid
<1>6. ASSUME NEW j \in Jobs PROVE Paid(j)'
  <2>1. CASE j = Job(p)
    <3>1. sent[j] \in Nat /\ attempts[j] \in Nat
      BY <1>1 DEF Shape
    <3>2. sent[j] <= Actions * (attempts[j] + 1)
      BY <1>1, <2>1, <3>1, Rounds, SchedulerAssumption DEF Paid
    <3> QED
      BY <1>1, <1>2, <2>1, <3>2 DEF Paid
  <2>2. CASE j # Job(p)
    BY <1>2, <2>2, Untouched DEF Good
  <2> QED
    BY <2>1, <2>2
<1> QED
  BY <1>3, <1>4, <1>5, <1>6, Only DEF Good

(* A batch and tables nobody touched.                                      *)
LEMMA SameBatch ==
    ASSUME Good, NEW p \in Replicas, UNCHANGED <<batch, status, attempts>>,
           step[p] # "idle", step'[p] # "idle", Working(p)' <=> Working(p)
    PROVE  Current(p)'
BY DEF Good, Current

LEMMA ExecuteStep ==
    ASSUME OneReplica, Good, NEW p \in Replicas, Execute(p) PROVE Good'
<1>1. /\ Shape /\ InHand(p) /\ Job(p) \in Jobs /\ status[Job(p)] = "RUNNING"
      /\ Working(p) /\ Paid(Job(p)) /\ step[p] = "run"
  BY Hand DEF Good, Execute, Working
<1>2. /\ UNCHANGED <<status, due, attempts, batch, step>> /\ Job(p)' = Job(p)
      /\ done'[p] = done[p] + 1 /\ done[p] < Actions
      /\ sent'[Job(p)] = sent[Job(p)] + 1
      /\ \A j \in Jobs : j # Job(p) => sent'[j] = sent[j]
  BY <1>1 DEF Execute, Shape, jobVars, Job
<1>3. Shape'
  <2>1. done' \in [Replicas -> 0 .. Actions] /\ sent' \in [Jobs -> Nat]
    BY <1>1, SchedulerAssumption DEF Execute, Shape
  <2> QED
    BY <1>1, <1>2, <2>1 DEF Shape
<1>4. Current(p)'
  BY <1>1, <1>2, SameBatch DEF Working
<1> DEFINE s == sent[Job(p)]
           a == attempts[Job(p)]
<1>5. /\ s \in Nat /\ a \in Nat /\ done[p] \in Nat /\ Actions * a \in Nat
      /\ s >= done[p] /\ s <= Actions * a + done[p] /\ a < MaxAttempts
      /\ Actions * (a + 1) = Actions * a + Actions
  BY <1>1, Rounds DEF Shape, InHand, Paid
<1>6. InHand(p)'
  BY <1>2, <1>5 DEF InHand
<1>7. ASSUME NEW j \in Jobs PROVE Paid(j)'
  <2>1. CASE j = Job(p)
    <3>1. s + 1 <= Actions * (a + 1)
      BY <1>2, <1>5, SchedulerAssumption
    <3>2. Actions * (a + 1) <= Actions * MaxAttempts
      BY <1>5, MoreRounds, SchedulerAssumption
    <3>3. s + 1 <= Actions * MaxAttempts
      BY <3>1, <3>2, <1>5, Rounds, SchedulerAssumption
    <3> QED
      BY <1>1, <1>2, <1>5, <2>1, <3>1, <3>3 DEF Paid
  <2>2. CASE j # Job(p)
    BY <1>2, <2>2, Untouched DEF Good
  <2> QED
    BY <2>1, <2>2
<1> QED
  BY <1>3, <1>4, <1>6, <1>7, Only DEF Good

LEMMA ErrorStep ==
    ASSUME OneReplica, Good, NEW p \in Replicas, ExecuteFails(p) \/ FinishFails(p)
    PROVE  Good'
<1>1. /\ Shape /\ InHand(p) /\ step[p] = "run" /\ step'[p] = "error"
      /\ UNCHANGED <<status, due, attempts, sent, batch, done>>
      /\ step' = [step EXCEPT ![p] = "error"]
  BY DEF Good, ExecuteFails, FinishFails, Finished, jobVars, Shape
<1>2. Shape'
  BY <1>1 DEF Shape, Steps
<1>3. Current(p)'
  BY <1>1, SameBatch DEF Working
<1>4. InHand(p)'
  BY <1>1 DEF InHand, Working, Job
<1>5. \A j \in Jobs : Paid(j)'
  BY <1>1, Untouched DEF Good
<1> QED
  BY <1>2, <1>3, <1>4, <1>5, Only DEF Good

LEMMA FinishStep ==
    ASSUME OneReplica, Good, NEW p \in Replicas, Finish(p) PROVE Good'
<1>1. /\ Shape /\ InHand(p) /\ Job(p) \in Jobs /\ step[p] = "run" /\ Working(p)
      /\ done[p] = Actions /\ Paid(Job(p)) /\ Advance(p)
  BY Hand DEF Good, Finish, Finished, Working
<1>2. \A j \in Jobs : j # Job(p) => /\ status'[j] = status[j] /\ attempts'[j] = attempts[j]
                                    /\ sent'[j] = sent[j]
  BY <1>1 DEF Finish, Shape
<1>3. /\ status' \in [Jobs -> Statuses] /\ due' \in [Jobs -> BOOLEAN]
      /\ attempts' \in [Jobs -> Nat] /\ sent' \in [Jobs -> Nat]
  <2>1. CASE Job(p) \in Recurring
    <3>1. /\ status' = [status EXCEPT ![Job(p)] = "PENDING"]
          /\ due' = [due EXCEPT ![Job(p)] = FALSE]
          /\ attempts' = [attempts EXCEPT ![Job(p)] = 0]
          /\ sent' = [sent EXCEPT ![Job(p)] = 0]
      BY <2>1 DEF Finish
    <3> QED
      BY <1>1, <3>1 DEF Shape, Statuses
  <2>2. CASE Job(p) \notin Recurring
    BY <1>1, <2>2 DEF Finish, Shape, Statuses
  <2> QED
    BY <2>1, <2>2
<1>4. /\ batch' \in [Replicas -> Seq(Jobs \X Nat)] /\ step' \in [Replicas -> Steps]
      /\ done' \in [Replicas -> 0 .. Actions] /\ Current(p)' /\ InHand(p)'
  BY <1>1, <1>2, Rest
<1>5. ASSUME NEW j \in Jobs PROVE Paid(j)'
  <2>1. CASE j = Job(p) /\ j \in Recurring
    <3>1. status'[j] = "PENDING" /\ attempts'[j] = 0 /\ sent'[j] = 0
      BY <1>1, <2>1 DEF Finish, Shape
    <3>2. 0 < MaxAttempts /\ 0 <= Actions * 0 /\ 0 <= Actions * MaxAttempts
      BY Rounds, SchedulerAssumption
    <3> QED
      BY <3>1, <3>2 DEF Paid
  <2>2. CASE j = Job(p) /\ j \notin Recurring
    <3>1. status'[j] = "COMPLETED" /\ attempts'[j] = attempts[j] /\ sent'[j] = sent[j]
      BY <1>1, <2>2 DEF Finish, Shape
    <3>2. sent[j] >= Actions
      BY <1>1, <2>2 DEF InHand
    <3> QED
      BY <1>1, <2>2, <3>1, <3>2 DEF Paid
  <2>3. CASE j # Job(p)
    BY <1>2, <2>3, Untouched DEF Good
  <2> QED
    BY <2>1, <2>2, <2>3
<1> QED
  BY <1>3, <1>4, <1>5, Only DEF Good, Shape

LEMMA RecordErrorStep ==
    ASSUME OneReplica, Good, NEW p \in Replicas, RecordError(p) PROVE Good'
<1> DEFINE n == attempts[Job(p)] + 1
<1>1. /\ Shape /\ InHand(p) /\ Job(p) \in Jobs /\ step[p] = "error" /\ Working(p)
      /\ Paid(Job(p)) /\ status[Job(p)] = "RUNNING" /\ Advance(p)
      /\ batch[p][1][2] = attempts[Job(p)] /\ n \in Nat
  BY Hand DEF Good, RecordError, Working, Shape
<1>2. /\ attempts' = [attempts EXCEPT ![Job(p)] = n] /\ UNCHANGED sent
      /\ \/ /\ n >= MaxAttempts
            /\ status' = [status EXCEPT ![Job(p)] = "FAILED"] /\ UNCHANGED due
         \/ /\ ~(n >= MaxAttempts)
            /\ status' = [status EXCEPT ![Job(p)] = "PENDING"]
            /\ due' = [due EXCEPT ![Job(p)] = FALSE]
  BY <1>1 DEF RecordError, OutOfAttempts
<1>3. \A j \in Jobs : j # Job(p) => status'[j] = status[j] /\ attempts'[j] = attempts[j]
  BY <1>1, <1>2 DEF Shape
<1>4. /\ status' \in [Jobs -> Statuses] /\ due' \in [Jobs -> BOOLEAN]
      /\ attempts' \in [Jobs -> Nat] /\ sent' \in [Jobs -> Nat]
  BY <1>1, <1>2 DEF Shape, Statuses
<1>5. /\ batch' \in [Replicas -> Seq(Jobs \X Nat)] /\ step' \in [Replicas -> Steps]
      /\ done' \in [Replicas -> 0 .. Actions] /\ Current(p)' /\ InHand(p)'
  BY <1>1, <1>3, Rest
<1>6. ASSUME NEW j \in Jobs PROVE Paid(j)'
  <2>1. CASE j = Job(p)
    <3>1. attempts'[j] = n /\ status'[j] \in {"PENDING", "FAILED"} /\ sent'[j] = sent[j]
      BY <1>1, <1>2, <2>1 DEF Shape
    <3>2. status'[j] = "PENDING" => n < MaxAttempts
      BY <1>1, <1>2, <2>1, SchedulerAssumption DEF Shape
    <3>3. sent[j] <= Actions * n /\ sent[j] <= Actions * MaxAttempts
      BY <1>1, <2>1 DEF Paid
    <3> QED
      BY <3>1, <3>2, <3>3 DEF Paid
  <2>2. CASE j # Job(p)
    BY <1>2, <1>3, <2>2, Untouched DEF Good
  <2> QED
    BY <2>1, <2>2
<1> QED
  BY <1>4, <1>5, <1>6, Only DEF Good, Shape

(* The job in hand stays RUNNING, for good.                                *)
LEMMA RecordErrorFailsStep ==
    ASSUME OneReplica, Good, NEW p \in Replicas, RecordErrorFails(p) PROVE Good'
<1>1. /\ Shape /\ step[p] # "idle" /\ Advance(p)
      /\ UNCHANGED <<status, due, attempts, sent>>
  BY DEF Good, RecordErrorFails, jobVars
<1>2. /\ batch' \in [Replicas -> Seq(Jobs \X Nat)] /\ step' \in [Replicas -> Steps]
      /\ done' \in [Replicas -> 0 .. Actions] /\ Current(p)' /\ InHand(p)'
  BY <1>1, Rest
<1>3. \A j \in Jobs : Paid(j)'
  BY <1>1, Untouched DEF Good
<1> QED
  BY <1>1, <1>2, <1>3, Only DEF Good, Shape

LEMMA AbandonStep ==
    ASSUME OneReplica, Good, NEW p \in Replicas, Abandon(p) PROVE Good'
<1>1. /\ Shape /\ UNCHANGED <<status, due, attempts, sent>>
      /\ batch'[p] = <<>> /\ step'[p] = "idle"
  BY DEF Good, Abandon, jobVars, Shape
<1>2. Shape'
  BY <1>1, SchedulerAssumption DEF Abandon, Shape, Steps
<1>3. Current(p)' /\ InHand(p)'
  BY <1>1 DEF Current, InHand, Working
<1>4. \A j \in Jobs : Paid(j)'
  BY <1>1, Untouched DEF Good
<1> QED
  BY <1>2, <1>3, <1>4, Only DEF Good

LEMMA DueStep ==
    ASSUME Good, NEW j \in Jobs, BecomeDue(j) PROVE Good'
<1>1. /\ UNCHANGED <<status, attempts, sent, batch, step, done, faults>>
      /\ due' \in [Jobs -> BOOLEAN]
  BY DEF Good, Shape, BecomeDue
<1>2. Shape'
  BY <1>1 DEF Good, Shape
<1>3. \A p \in Replicas : Current(p)' /\ InHand(p)'
  BY <1>1 DEF Good, Current, InHand, Working, Job
<1>4. \A k \in Jobs : Paid(k)'
  BY <1>1, Untouched DEF Good
<1> QED
  BY <1>2, <1>3, <1>4 DEF Good

LEMMA StepGood == OneReplica /\ Good /\ [Next]_vars => Good'
<1> SUFFICES ASSUME OneReplica, Good, [Next]_vars PROVE Good'
  OBVIOUS
<1>1. CASE UNCHANGED vars
  <2>1. UNCHANGED <<status, due, attempts, sent, batch, step, done>>
    BY <1>1 DEF vars, jobVars
  <2>2. Shape'
    BY <2>1 DEF Good, Shape
  <2>3. \A p \in Replicas : Current(p)' /\ InHand(p)'
    BY <2>1 DEF Good, Current, InHand, Working, Job
  <2>4. \A j \in Jobs : Paid(j)'
    BY <2>1, Untouched DEF Good
  <2> QED
    BY <2>2, <2>3, <2>4 DEF Good
<1>2. ASSUME NEW j \in Jobs, BecomeDue(j) PROVE Good'
  BY <1>2, DueStep
<1>3. ASSUME NEW p \in Replicas,
             Work(p) \/ FinishFails(p) \/ RecordErrorFails(p) \/ Abandon(p)
      PROVE  Good'
  BY <1>3, SelectStep, ClaimStep, ExecuteStep, ErrorStep, FinishStep, RecordErrorStep,
     RecordErrorFailsStep, AbandonStep DEF Work
<1> QED
  BY <1>1, <1>2, <1>3 DEF Next

LEMMA InitGood == Init => Good
<1> SUFFICES ASSUME Init PROVE Good
  OBVIOUS
<1>1. Shape
  BY SchedulerAssumption DEF Init, Shape, Statuses, Steps
<1>2. \A p \in Replicas : Current(p) /\ InHand(p)
  BY DEF Init, Current, InHand, Working
<1>3. \A j \in Jobs : Paid(j)
  BY Rounds, SchedulerAssumption DEF Init, Paid
<1> QED
  BY <1>1, <1>2, <1>3 DEF Good

-----------------------------------------------------------------------------
(* What a SELECT returned stays true while its batch is worked off, and    *)
(* every attempt pays for one round of a job's actions.                    *)
THEOREM BatchCurrent == OneReplica => (Spec => []Good)
<1> SUFFICES ASSUME OneReplica PROVE Spec => []Good
  OBVIOUS
<1> QED
  BY InitGood, StepGood, PTL DEF Spec

(* One replica completes no job before its actions were sent, and sends    *)
(* none of them more than MAX_ATTEMPTS times, wherever it fails or ends    *)
(* (scheduler.ts:92-142).                                                  *)
THEOREM RoundsBounded == OneReplica => (Spec => []JobsSent)
<1> SUFFICES ASSUME OneReplica PROVE Spec => []JobsSent
  OBVIOUS
<1> QED
  BY BatchCurrent, GoodSent, PTL

(* The jobs a step of one replica writes are PENDING or RUNNING.           *)
LEMMA StepFinal ==
    ASSUME Good, [Next]_vars, NEW j \in Jobs, status[j] \in {"COMPLETED", "FAILED"}
    PROVE  status'[j] = status[j]
<1>1. CASE UNCHANGED vars
  BY <1>1 DEF vars, jobVars
<1>2. CASE \E i \in Jobs : BecomeDue(i)
  BY <1>2 DEF BecomeDue
<1>3. ASSUME NEW p \in Replicas,
             Work(p) \/ FinishFails(p) \/ RecordErrorFails(p) \/ Abandon(p)
      PROVE  status'[j] = status[j]
  <2>1. CASE step[p] = "idle"
    BY <1>3, <2>1 DEF Work, Select, Claim, Execute, ExecuteFails, Finish, Finished,
       RecordError, FinishFails, RecordErrorFails, Abandon, jobVars
  <2>2. CASE step[p] # "idle"
    <3>1. Job(p) # j /\ Job(p) \in Jobs /\ status \in [Jobs -> Statuses]
      BY <2>2, Hand DEF Good, Shape
    <3> QED
      BY <1>3, <3>1 DEF Work, Select, Claim, Execute, ExecuteFails, Finish,
         RecordError, FinishFails, RecordErrorFails, Abandon, jobVars
  <2> QED
    BY <2>1, <2>2
<1> QED
  BY <1>1, <1>2, <1>3 DEF Next

(* One replica never takes up a job that is COMPLETED or FAILED            *)
(* (scheduler.ts:78-84, 121-142).                                          *)
THEOREM OutcomesStay == OneReplica => (Spec => OutcomeFinal)
<1> SUFFICES ASSUME OneReplica PROVE Spec => OutcomeFinal
  OBVIOUS
<1>1. Good /\ [Next]_vars => [\A j \in Jobs : status[j] \in {"COMPLETED", "FAILED"}
                                 => status'[j] = status[j]]_vars
  BY StepFinal
<1> QED
  BY <1>1, BatchCurrent, PTL DEF Spec, OutcomeFinal

-----------------------------------------------------------------------------
(* The state that rules keep: Bots, for any rules, people and number of    *)
(* runs at once.                                                           *)
CONSTANTS Users, BotId, Def, Allow, Commands, Dynamic, Emojis, Slots,
          MaxHuman, MaxMade, MaxDup
VARIABLES msgs, reactions, events, commands, scheduled, run, session, cooldown,
          human, made, dup, written, overlap

B == INSTANCE Bots

Reads(s) == "read" \in DOMAIN run[s]

RunShape ==
    /\ run = [s \in Slots |-> run[s]] /\ DOMAIN run = Slots
    /\ \A s \in Slots : \/ run[s] = B!Idle
                        \/ {"pc", "ev", "todo", "acts"} \subseteq DOMAIN run[s]

SessionShape ==
    /\ session = [c \in B!Scopes |-> session[c]] /\ DOMAIN session = B!Scopes
    /\ written = [c \in B!Scopes |-> written[c]] /\ DOMAIN written = B!Scopes

(* Only set_state and delete_state hold what they have read, and unless    *)
(* two of them overlapped it is no less than what rules have put there.    *)
Holding ==
    \A s \in Slots : Reads(s) =>
        /\ run[s].pc = "acting" /\ Head(run[s].acts).type \in {"set", "unset"}
        /\ B!Scope(s) \in B!Scopes \ overlap => written[B!Scope(s)] \subseteq run[s].read

(* What a rule has written is an object, never a counter.                  *)
Kinds == \A c \in B!Scopes : session[c].kind # "json" => written[c] = {}

StateGood == RunShape /\ SessionShape /\ Holding /\ Kinds /\ B!SerialStateKept

LEMMA IdleShape == DOMAIN B!Idle = {"pc"} /\ B!Idle.pc = "idle"
  BY DEF B!Idle

(* One run goes on, and has nothing read then; the state stays.            *)
LEMMA OnwardKeeps ==
    ASSUME StateGood, NEW s \in Slots, NEW r, B!Becomes(s, r),
           r = B!Idle \/ {"pc", "ev", "todo", "acts"} \subseteq DOMAIN r,
           "read" \notin DOMAIN r
    PROVE  /\ RunShape' /\ run'[s] = r /\ \A t \in Slots \ {s} : run'[t] = run[t]
           /\ UNCHANGED <<session, written, overlap>> => StateGood'
<1>1. /\ run' = [run EXCEPT ![s] = r] /\ DOMAIN run = Slots
      /\ run = [t \in Slots |-> run[t]]
  BY DEF B!Becomes, StateGood, RunShape
<1>2. run'[s] = r /\ \A t \in Slots \ {s} : run'[t] = run[t]
  BY <1>1
<1>3. RunShape'
  BY <1>1, <1>2 DEF StateGood, RunShape
<1>4. ASSUME UNCHANGED <<session, written, overlap>> PROVE StateGood'
  <2>1. SessionShape' /\ Kinds' /\ B!SerialStateKept'
    BY <1>4 DEF StateGood, SessionShape, Kinds, B!SerialStateKept
  <2>2. Holding'
    <3>1. ASSUME NEW t \in Slots, "read" \in DOMAIN run'[t]
          PROVE  /\ run'[t].pc = "acting" /\ Head(run'[t].acts).type \in {"set", "unset"}
                 /\ B!Scope(t)' \in B!Scopes \ overlap => written[B!Scope(t)'] \subseteq run'[t].read
      <4>1. t # s /\ run'[t] = run[t]
        BY <1>2, <3>1
      <4>2. B!Scope(t)' = B!Scope(t)
        BY <4>1 DEF B!Scope, B!Rule
      <4>3. QED
        BY <3>1, <4>1, <4>2 DEF StateGood, Holding, Reads
    <3>2. QED
      BY <1>4, <3>1 DEF Holding, Reads
  <2>3. QED
    BY <1>3, <2>1, <2>2 DEF StateGood
<1>5. QED
  BY <1>2, <1>3, <1>4

(* The records that a run becomes have the fields it had.                  *)
LEMMA OnwardShape ==
    ASSUME NEW s \in Slots
    PROVE  /\ DOMAIN B!Onward(s) = DOMAIN run[s] /\ DOMAIN B!After(s) = DOMAIN run[s]
           /\ DOMAIN B!Without(B!After(s)) = DOMAIN run[s] \ {"read"}
<1>1. DOMAIN B!Onward(s) = DOMAIN run[s]
  BY DEF B!Onward
<1>2. DOMAIN B!After(s) = DOMAIN run[s]
  BY <1>1 DEF B!After
<1>3. QED
  BY <1>1, <1>2 DEF B!Without

(* A run whose pc is another than idle has all its fields.                 *)
LEMMA RunFields ==
    ASSUME StateGood, NEW s \in Slots, run[s].pc # "idle"
    PROVE  {"pc", "ev", "todo", "acts"} \subseteq DOMAIN run[s]
  BY IdleShape DEF StateGood, RunShape

LEMMA TakeState ==
    ASSUME StateGood, NEW s \in Slots, NEW e \in events, B!Take(s, e) PROVE StateGood'
<1> DEFINE r == [pc |-> "rules", ev |-> e, todo |-> B!Matching(e), acts |-> <<>>]
<1>1. B!Becomes(s, r) /\ UNCHANGED <<session, written, overlap>>
  BY DEF B!Take, B!Becomes, B!Redis, B!History
<1>2. DOMAIN r = {"pc", "ev", "todo", "acts"}
  OBVIOUS
<1> HIDE DEF r
<1>3. QED
  BY <1>1, <1>2, OnwardKeeps

(* Evaluate, Acquire, EndRun, SendOrReact, Schedule, ActionEnds.           *)
LEMMA PlainState ==
    ASSUME StateGood, NEW s \in Slots,
           \/ B!Evaluate(s) \/ B!Acquire(s) \/ B!EndRun(s) \/ B!SendOrReact(s)
           \/ B!Schedule(s) \/ B!ActionEnds(s)
    PROVE  StateGood'
<1>1. UNCHANGED <<session, written, overlap>>
  BY DEF B!Evaluate, B!Acquire, B!EndRun, B!SendOrReact, B!Schedule, B!ActionEnds,
     B!Redis, B!History
<1>2. /\ run[s].pc # "idle"
      /\ B!ActionEnds(s) \/ ~Reads(s)
  <2>1. CASE B!Evaluate(s) \/ B!Acquire(s) \/ B!EndRun(s)
    <3>1. run[s].pc \in {"rules", "cooldown"}
      BY <2>1 DEF B!Evaluate, B!Acquire, B!EndRun
    <3>2. QED
      BY <3>1 DEF StateGood, Holding
  <2>2. CASE B!SendOrReact(s) \/ B!Schedule(s)
    <3>1. run[s].pc = "acting" /\ Head(run[s].acts).type \in {"send", "react", "schedule"}
      BY <2>2 DEF B!SendOrReact, B!Schedule, B!Acting
    <3>2. QED
      BY <3>1 DEF StateGood, Holding
  <2>3. CASE B!ActionEnds(s)
    BY <2>3 DEF B!ActionEnds
  <2>4. QED
    BY <2>1, <2>2, <2>3
<1>3. {"pc", "ev", "todo", "acts"} \subseteq DOMAIN run[s]
  BY <1>2, RunFields
<1>4. PICK r : /\ B!Becomes(s, r)
               /\ r = B!Idle \/ DOMAIN r = DOMAIN run[s] \/ DOMAIN r = DOMAIN run[s] \ {"read"}
               /\ B!ActionEnds(s) => DOMAIN r = DOMAIN run[s] \ {"read"}
  <2>1. CASE B!ActionEnds(s)
    BY <2>1, OnwardShape DEF B!ActionEnds
  <2>2. CASE ~B!ActionEnds(s) /\ B!Evaluate(s)
    <3>1. PICK r \in {B!Idle, [run[s] EXCEPT !.pc = "cooldown"], B!Onward(s)} : B!Becomes(s, r)
      BY <2>2 DEF B!Evaluate
    <3>2. DOMAIN [run[s] EXCEPT !.pc = "cooldown"] = DOMAIN run[s]
      OBVIOUS
    <3>3. QED
      BY <2>2, <3>1, <3>2, OnwardShape
  <2>3. CASE ~B!ActionEnds(s) /\ B!Acquire(s)
    <3>1. PICK r \in {B!Onward(s), [run[s] EXCEPT !.pc = "acting", !.acts = B!Rule(s).actions]} :
              B!Becomes(s, r)
      BY <2>3 DEF B!Acquire
    <3>2. DOMAIN [run[s] EXCEPT !.pc = "acting", !.acts = B!Rule(s).actions] = DOMAIN run[s]
      OBVIOUS
    <3>3. QED
      BY <2>3, <3>1, <3>2, OnwardShape
  <2>4. CASE ~B!ActionEnds(s) /\ B!EndRun(s)
    BY <2>4 DEF B!EndRun
  <2>5. CASE ~B!ActionEnds(s) /\ (B!SendOrReact(s) \/ B!Schedule(s))
    BY <2>5, OnwardShape DEF B!SendOrReact, B!Schedule
  <2>6. QED
    BY <2>1, <2>2, <2>3, <2>4, <2>5
<1>5. "read" \notin DOMAIN r /\ (r = B!Idle \/ {"pc", "ev", "todo", "acts"} \subseteq DOMAIN r)
  BY <1>2, <1>3, <1>4, IdleShape DEF Reads
<1>6. QED
  BY <1>1, <1>4, <1>5, OnwardKeeps

(* The read: what rules have put there is in it.                           *)
LEMMA ReadStateKeeps ==
    ASSUME StateGood, NEW s \in Slots, B!ReadState(s) PROVE StateGood'
<1> DEFINE k == session[B!Scope(s)].keys
           r == B!With(run[s], k)
<1>1. /\ run[s].pc = "acting" /\ Head(run[s].acts).type \in {"set", "unset"}
      /\ run' = [run EXCEPT ![s] = r] /\ UNCHANGED <<session, written, overlap>>
  BY DEF B!ReadState, B!Acting, B!Becomes, B!Redis, B!History
<1>2. {"pc", "ev", "todo", "acts"} \subseteq DOMAIN run[s]
  BY <1>1, RunFields
<1>3. /\ DOMAIN r = DOMAIN run[s] \cup {"read"} /\ r.read = k
      /\ r.pc = run[s].pc /\ r.acts = run[s].acts /\ r.todo = run[s].todo /\ r.ev = run[s].ev
  BY <1>2 DEF B!With
<1> HIDE DEF r
<1>4. /\ run'[s] = r /\ \A t \in Slots \ {s} : run'[t] = run[t]
      /\ run' = [t \in Slots |-> run'[t]] /\ DOMAIN run' = Slots
  BY <1>1 DEF StateGood, RunShape
<1>5. RunShape'
  BY <1>2, <1>3, <1>4 DEF StateGood, RunShape
<1>6. SessionShape' /\ Kinds' /\ B!SerialStateKept'
  BY <1>1 DEF StateGood, SessionShape, Kinds, B!SerialStateKept
<1>7. \A t \in Slots : B!Scope(t)' = B!Scope(t)
  BY <1>3, <1>4 DEF B!Scope, B!Rule
<1>8. Holding'
  <2>1. ASSUME NEW t \in Slots, "read" \in DOMAIN run'[t]
        PROVE  /\ run'[t].pc = "acting" /\ Head(run'[t].acts).type \in {"set", "unset"}
               /\ B!Scope(t) \in B!Scopes \ overlap => written[B!Scope(t)] \subseteq run'[t].read
    <3>1. CASE t = s
      BY <1>1, <1>3, <1>4, <3>1 DEF StateGood, B!SerialStateKept
    <3>2. CASE t # s
      BY <1>4, <2>1, <3>2 DEF StateGood, Holding, Reads
    <3>3. QED
      BY <3>1, <3>2
  <2>2. QED
    BY <1>1, <1>7, <2>1 DEF Holding, Reads
<1>9. QED
  BY <1>5, <1>6, <1>8 DEF StateGood

(* The write: another run that has read the same state makes an overlap.   *)
LEMMA WriteKeeps ==
    ASSUME StateGood, NEW s \in Slots, Reads(s), NEW keys, NEW wrote, B!Write(s, keys, wrote),
           B!Scope(s) \in B!Scopes \ overlap => wrote \subseteq keys
    PROVE  StateGood'
<1> DEFINE c == B!Scope(s)
           d == [kind |-> "json", keys |-> keys]
<1>1. /\ session' = [session EXCEPT ![c] = d] /\ written' = [written EXCEPT ![c] = wrote]
      /\ B!Becomes(s, B!Without(B!After(s)))
      /\ overlap \subseteq overlap'
      /\ \A t \in Slots \ {s} : Reads(t) /\ B!Scope(t) = c => c \in overlap'
  BY DEF B!Write, Reads
<1>2. d.kind = "json" /\ d.keys = keys
  OBVIOUS
<1> HIDE DEF c, d
<1>3. /\ SessionShape'
      /\ \A b \in B!Scopes : /\ session'[b] = IF b = c THEN d ELSE session[b]
                             /\ written'[b] = IF b = c THEN wrote ELSE written[b]
  BY <1>1 DEF StateGood, SessionShape
<1>4. run[s].pc # "idle"
  BY DEF StateGood, Holding
<1>5. /\ RunShape' /\ run'[s] = B!Without(B!After(s))
      /\ \A t \in Slots \ {s} : run'[t] = run[t]
  <2>1. DOMAIN B!Without(B!After(s)) = DOMAIN run[s] \ {"read"}
    BY OnwardShape
  <2>2. {"pc", "ev", "todo", "acts"} \subseteq DOMAIN run[s]
    BY <1>4, RunFields
  <2>3. QED
    BY <1>1, <2>1, <2>2, OnwardKeeps
<1>6. "read" \notin DOMAIN run'[s]
  BY <1>5, OnwardShape
<1>7. Kinds'
  BY <1>2, <1>3 DEF StateGood, Kinds
<1>8. B!SerialStateKept'
  <2>1. ASSUME NEW b \in B!Scopes, b \notin overlap' PROVE written'[b] \subseteq session'[b].keys
    <3>1. CASE b = c
      BY <1>1, <1>2, <1>3, <2>1, <3>1 DEF c
    <3>2. CASE b # c
      BY <1>1, <1>3, <2>1, <3>2 DEF StateGood, B!SerialStateKept
    <3>3. QED
      BY <3>1, <3>2
  <2>2. QED
    BY <2>1 DEF B!SerialStateKept
<1>9. Holding'
  <2>1. ASSUME NEW t \in Slots, "read" \in DOMAIN run'[t]
        PROVE  /\ run'[t].pc = "acting" /\ Head(run'[t].acts).type \in {"set", "unset"}
               /\ B!Scope(t)' \in B!Scopes \ overlap' => written'[B!Scope(t)'] \subseteq run'[t].read
    <3>1. t # s /\ run'[t] = run[t] /\ Reads(t)
      BY <1>5, <1>6, <2>1 DEF Reads
    <3>2. B!Scope(t)' = B!Scope(t)
      BY <3>1 DEF B!Scope, B!Rule
    <3>3. B!Scope(t) = c => c \in overlap'
      BY <1>1, <3>1
    <3>4. QED
      BY <1>1, <1>3, <3>1, <3>2, <3>3 DEF StateGood, Holding
  <2>2. QED
    BY <2>1 DEF Holding, Reads
<1>10. QED
  BY <1>3, <1>5, <1>7, <1>8, <1>9 DEF StateGood

LEMMA StateWritten ==
    ASSUME StateGood, NEW s \in Slots, B!WriteState(s) \/ B!DeleteState(s) PROVE StateGood'
<1>1. Reads(s)
  BY DEF B!WriteState, B!DeleteState, Reads
<1>2. B!Scope(s) \in B!Scopes \ overlap => written[B!Scope(s)] \subseteq run[s].read
  BY <1>1 DEF StateGood, Holding
<1> DEFINE key == Head(run[s].acts).key
<1>3. CASE B!WriteState(s)
  <2>1. B!Write(s, run[s].read \cup {key}, written[B!Scope(s)] \cup {key})
    BY <1>3 DEF B!WriteState, B!Stored
  <2>2. B!Scope(s) \in B!Scopes \ overlap =>
            written[B!Scope(s)] \cup {key} \subseteq run[s].read \cup {key}
    BY <1>2
  <2>3. QED
    BY <1>1, <2>1, <2>2, WriteKeeps
<1>4. CASE B!DeleteState(s)
  <2>1. B!Write(s, run[s].read \ {key}, written[B!Scope(s)] \ {key})
    BY <1>4 DEF B!DeleteState
  <2>2. B!Scope(s) \in B!Scopes \ overlap =>
            written[B!Scope(s)] \ {key} \subseteq run[s].read \ {key}
    BY <1>2
  <2>3. QED
    BY <1>1, <2>1, <2>2, WriteKeeps
<1>5. QED
  BY <1>3, <1>4

LEMMA CounterKeeps ==
    ASSUME StateGood, NEW s \in Slots, B!IncrementCounter(s) PROVE StateGood'
<1> DEFINE c == B!Scope(s)
           d == [kind |-> "hash", keys |-> {}]
<1>1. /\ session[c].kind # "json" /\ session' = [session EXCEPT ![c] = d]
      /\ B!Becomes(s, B!After(s)) /\ UNCHANGED <<written, overlap>>
      /\ run[s].pc = "acting" /\ Head(run[s].acts).type = "count"
  BY DEF B!IncrementCounter, B!Acting, B!History
<1>2. "read" \notin DOMAIN run[s]
  BY <1>1 DEF StateGood, Holding, Reads
<1>3. d.kind = "hash" /\ d.keys = {}
  OBVIOUS
<1> HIDE DEF c, d
<1>4. SessionShape' /\ \A b \in B!Scopes : session'[b] = IF b = c THEN d ELSE session[b]
  BY <1>1 DEF StateGood, SessionShape
<1>5. /\ RunShape' /\ run'[s] = B!After(s) /\ "read" \notin DOMAIN run'[s]
      /\ \A t \in Slots \ {s} : run'[t] = run[t]
  <2>1. DOMAIN B!After(s) = DOMAIN run[s]
    BY OnwardShape
  <2>2. {"pc", "ev", "todo", "acts"} \subseteq DOMAIN run[s]
    BY <1>1, RunFields
  <2>3. QED
    BY <1>1, <1>2, <2>1, <2>2, OnwardKeeps
<1>6. c \in B!Scopes => written[c] = {}
  BY <1>1 DEF StateGood, Kinds
<1>7. Kinds' /\ B!SerialStateKept'
  BY <1>1, <1>4, <1>6 DEF StateGood, Kinds, B!SerialStateKept
<1>8. Holding'
  <2>1. ASSUME NEW t \in Slots, "read" \in DOMAIN run'[t]
        PROVE  /\ run'[t].pc = "acting" /\ Head(run'[t].acts).type \in {"set", "unset"}
               /\ B!Scope(t)' \in B!Scopes \ overlap' => written'[B!Scope(t)'] \subseteq run'[t].read
    <3>1. t # s /\ run'[t] = run[t] /\ Reads(t)
      BY <1>5, <2>1 DEF Reads
    <3>2. B!Scope(t)' = B!Scope(t)
      BY <3>1 DEF B!Scope, B!Rule
    <3>3. QED
      BY <1>1, <3>1, <3>2 DEF StateGood, Holding
  <2>2. QED
    BY <2>1 DEF Holding, Reads
<1>9. QED
  BY <1>4, <1>5, <1>7, <1>8 DEF StateGood

LEMMA ExpiryKeeps ==
    ASSUME StateGood, NEW c \in B!Scopes, B!StateExpires(c) PROVE StateGood'
<1>1. /\ session' = [session EXCEPT ![c] = B!Empty] /\ written' = [written EXCEPT ![c] = {}]
      /\ UNCHANGED <<run, overlap>>
  BY DEF B!StateExpires
<1>2. /\ SessionShape'
      /\ \A b \in B!Scopes : /\ session'[b] = IF b = c THEN B!Empty ELSE session[b]
                             /\ written'[b] = IF b = c THEN {} ELSE written[b]
  BY <1>1 DEF StateGood, SessionShape
<1>3. RunShape'
  BY <1>1 DEF StateGood, RunShape
<1>4. Kinds' /\ B!SerialStateKept'
  BY <1>1, <1>2 DEF StateGood, Kinds, B!SerialStateKept
<1>5. \A t \in Slots : B!Scope(t)' = B!Scope(t)
  BY <1>1 DEF B!Scope, B!Rule
<1>6. Holding'
  BY <1>1, <1>2, <1>5 DEF StateGood, Holding, Reads
<1>7. QED
  BY <1>2, <1>3, <1>4, <1>6 DEF StateGood

(* Steps that touch no run and no state, and the death of the process.     *)
LEMMA ElsewhereKeeps ==
    ASSUME StateGood, UNCHANGED <<session, written, overlap>>,
           run' = run \/ run' = [s \in Slots |-> B!Idle]
    PROVE  StateGood'
<1>1. SessionShape' /\ Kinds' /\ B!SerialStateKept'
  BY DEF StateGood, SessionShape, Kinds, B!SerialStateKept
<1>2. CASE run' = run
  <2>1. \A t \in Slots : B!Scope(t)' = B!Scope(t)
    BY <1>2 DEF B!Scope, B!Rule
  <2>2. RunShape' /\ Holding'
    BY <1>2, <2>1 DEF StateGood, RunShape, Holding, Reads
  <2>3. QED
    BY <1>1, <2>2 DEF StateGood
<1>3. CASE run' = [s \in Slots |-> B!Idle]
  <2>1. \A t \in Slots : run'[t] = B!Idle /\ "read" \notin DOMAIN run'[t]
    BY <1>3, IdleShape
  <2>2. RunShape'
    BY <1>3, <2>1 DEF RunShape
  <2>3. Holding'
    BY <2>1 DEF Holding, Reads
  <2>4. QED
    BY <1>1, <2>2, <2>3 DEF StateGood
<1>4. QED
  BY <1>2, <1>3

LEMMA StateStep == StateGood /\ [B!Next]_(B!vars) => StateGood'
<1> SUFFICES ASSUME StateGood, [B!Next]_(B!vars) PROVE StateGood'
  OBVIOUS
<1>1. CASE \/ \E u \in Users, c \in Commands : B!Say(u, c)
           \/ \E u \in Users, m \in 1..msgs, e \in Emojis : B!React(u, m, e)
           \/ \E c \in commands : B!HandleBotSend(c) \/ B!HandleReactionAdd(c)
           \/ \E c \in scheduled : B!RunJob(c)
           \/ \E key \in cooldown : B!CooldownExpires(key)
           \/ B!Crash \/ UNCHANGED B!vars
  <2>1. /\ UNCHANGED <<session, written, overlap>>
        /\ run' = run \/ run' = [s \in Slots |-> B!Idle]
    BY <1>1 DEF B!Say, B!React, B!HandleBotSend, B!HandleReactionAdd, B!RunJob,
       B!CooldownExpires, B!Crash, B!vars, B!Redis, B!History
  <2>2. QED
    BY <2>1, ElsewhereKeeps
<1>2. CASE \E s \in Slots, e \in events : B!Take(s, e)
  BY <1>2, TakeState
<1>3. CASE \E s \in Slots : \/ B!Evaluate(s) \/ B!Acquire(s) \/ B!SendOrReact(s)
                            \/ B!Schedule(s) \/ B!ActionEnds(s) \/ B!EndRun(s)
  BY <1>3, PlainState
<1>4. CASE \E s \in Slots : \/ B!IncrementCounter(s) \/ B!ReadState(s)
                            \/ B!WriteState(s) \/ B!DeleteState(s)
  BY <1>4, CounterKeeps, ReadStateKeeps, StateWritten
<1>5. CASE \E c \in B!Scopes : B!StateExpires(c)
  BY <1>5, ExpiryKeeps
<1>6. QED
  BY <1>1, <1>2, <1>3, <1>4, <1>5 DEF B!Next

(* What rules have put into a person's state stays there until it expires  *)
(* or a rule removes it, unless two runs read it before either wrote it    *)
(* (rule-engine.ts:268-270); for any rules and any number of runs at once, *)
(* through failing actions, counters, expiry and crashes.                  *)
THEOREM StateKept == B!Spec => []B!SerialStateKept
<1>1. B!Init => StateGood
  <2> SUFFICES ASSUME B!Init PROVE StateGood
    OBVIOUS
  <2>1. /\ run = [s \in Slots |-> B!Idle] /\ session = [c \in B!Scopes |-> B!Empty]
        /\ written = [c \in B!Scopes |-> {}] /\ overlap = {}
    BY DEF B!Init
  <2>2. RunShape /\ SessionShape
    BY <2>1 DEF RunShape, SessionShape
  <2>3. Holding
    BY <2>1, IdleShape DEF Holding, Reads
  <2>4. Kinds /\ B!SerialStateKept
    BY <2>1 DEF Kinds, B!SerialStateKept
  <2>5. QED
    BY <2>2, <2>3, <2>4 DEF StateGood
<1>2. StateGood => B!SerialStateKept
  BY DEF StateGood
<1>3. QED
  BY <1>1, <1>2, StateStep, PTL DEF B!Spec
================================================================================
