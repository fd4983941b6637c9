------------------------------- MODULE Scheduler -------------------------------
(***************************************************************************)
(* The scheduled jobs of the bot-worker, apps/bot-worker/src/scheduler.ts. *)
(* A poll selects the due PENDING jobs and works them off one by one: set  *)
(* RUNNING, send one bot.send per action, set the outcome.  Nothing holds  *)
(* a lock from the SELECT to the outcome, every update is unconditional,   *)
(* and what a job looked like is what the SELECT returned.                 *)
(*                                                                         *)
(* LIMIT 10 and ORDER BY "runAt" are left out: a poll takes any sequence   *)
(* of due jobs.                                                            *)
(***************************************************************************)
EXTENDS Naturals, Sequences, FiniteSets

CONSTANTS
    Replicas,
    Jobs,
    Recurring,      \* the jobs with an interval
    Actions,        \* message actions of a job
    MaxAttempts,    \* MAX_ATTEMPTS
    MaxFaults       \* bound: database errors and process ends

ASSUME SchedulerAssumption == /\ Recurring \subseteq Jobs
                              /\ Actions \in Nat
                              /\ MaxAttempts \in Nat \ {0}
                              /\ MaxFaults \in Nat

VARIABLES
    status,     \* [Jobs -> {"PENDING", "RUNNING", "COMPLETED", "FAILED"}]
    due,        \* [Jobs -> BOOLEAN]: runAt has passed
    attempts,   \* [Jobs -> Nat]
    sent,       \* [Jobs -> Nat]: commands sent, since the last round
    batch,      \* [Replicas -> Seq of <<job, attempts when selected>>]
    step,       \* [Replicas -> {"idle", "claim", "run", "error"}]
    done,       \* [Replicas -> Nat]: actions done of the job in hand
    faults

jobVars == <<status, due, attempts>>
vars == <<jobVars, sent, batch, step, done, faults>>

Init ==
    /\ status = [j \in Jobs |-> "PENDING"]
    /\ due = [j \in Jobs |-> FALSE]
    /\ attempts = [j \in Jobs |-> 0]
    /\ sent = [j \in Jobs |-> 0]
    /\ batch = [p \in Replicas |-> <<>>]
    /\ step = [p \in Replicas |-> "idle"]
    /\ done = [p \in Replicas |-> 0]
    /\ faults = 0

Job(p) == batch[p][1][1]

(* The clock passes runAt.                                                 *)
BecomeDue(j) ==
    /\ status[j] = "PENDING"
    /\ ~due[j]
    /\ due' = [due EXCEPT ![j] = TRUE]
    /\ UNCHANGED <<status, attempts, sent, batch, step, done, faults>>

(* Mutant: the status is not looked at.                                    *)
MutantIgnoresStatus == {j \in Jobs : due[j]}

Ready == {j \in Jobs : status[j] = "PENDING" /\ due[j]}

Orders(S) == {q \in [1 .. Cardinality(S) -> S] :
                 \A i, k \in DOMAIN q : q[i] = q[k] => i = k}

(* SELECT ... FOR UPDATE SKIP LOCKED on its own: its locks end with it.    *)
Select(p) ==
    /\ step[p] = "idle"
    /\ Ready # {}
    /\ \E q \in Orders(Ready) :
          batch' = [batch EXCEPT ![p] = [i \in DOMAIN q |-> <<q[i], attempts[q[i]]>>]]
    /\ step' = [step EXCEPT ![p] = "claim"]
    /\ UNCHANGED <<jobVars, sent, done, faults>>

Claim(p) ==
    /\ step[p] = "claim"
    /\ status' = [status EXCEPT ![Job(p)] = "RUNNING"]
    /\ step' = [step EXCEPT ![p] = "run"]
    /\ done' = [done EXCEPT ![p] = 0]
    /\ UNCHANGED <<due, attempts, sent, batch, faults>>

(* sendBotCommand of the next action, with a fresh clientMessageId.        *)
Execute(p) ==
    /\ step[p] = "run"
    /\ done[p] < Actions
    /\ sent' = [sent EXCEPT ![Job(p)] = @ + 1]
    /\ done' = [done EXCEPT ![p] = @ + 1]
    /\ UNCHANGED <<jobVars, batch, step, faults>>

(* The publish rejects: the job's other actions are skipped.               *)
ExecuteFails(p) ==
    /\ step[p] = "run"
    /\ done[p] < Actions
    /\ step' = [step EXCEPT ![p] = "error"]
    /\ UNCHANGED <<jobVars, sent, batch, done, faults>>

Advance(p) ==
    /\ batch' = [batch EXCEPT ![p] = Tail(@)]
    /\ step' = [step EXCEPT ![p] = IF Len(batch[p]) = 1 THEN "idle" ELSE "claim"]
    /\ done' = [done EXCEPT ![p] = 0]

(* Mutant: the outcome is written without waiting for the actions.         *)
MutantFinishesEarly(p) == step[p] = "run"

Finished(p) == step[p] = "run" /\ done[p] = Actions

(* Mutant: the outcome is not written.                                     *)
MutantNoOutcome(p) == Finished(p) /\ Advance(p) /\ UNCHANGED <<jobVars, sent, faults>>

(* A recurring job starts over, another one is COMPLETED.                  *)
Finish(p) ==
    /\ Finished(p)
    /\ \/ /\ Job(p) \in Recurring
          /\ status' = [status EXCEPT ![Job(p)] = "PENDING"]
          /\ due' = [due EXCEPT ![Job(p)] = FALSE]
          /\ attempts' = [attempts EXCEPT ![Job(p)] = 0]
          /\ sent' = [sent EXCEPT ![Job(p)] = 0]
       \/ /\ Job(p) \notin Recurring
          /\ status' = [status EXCEPT ![Job(p)] = "COMPLETED"]
          /\ UNCHANGED <<due, attempts, sent>>
    /\ Advance(p)
    /\ UNCHANGED faults

(* The update of the outcome fails: to the catch clause, actions done.     *)
FinishFails(p) ==
    /\ faults < MaxFaults
    /\ Finished(p)
    /\ step' = [step EXCEPT ![p] = "error"]
    /\ faults' = faults + 1
    /\ UNCHANGED <<jobVars, sent, batch, done>>

OutOfAttempts(n) == n >= MaxAttempts

(* The catch clause counts from the attempts of the SELECT.                *)
RecordError(p) ==
    /\ step[p] = "error"
    /\ LET n == batch[p][1][2] + 1
       IN  /\ attempts' = [attempts EXCEPT ![Job(p)] = n]
           /\ \/ /\ OutOfAttempts(n)
                 /\ status' = [status EXCEPT ![Job(p)] = "FAILED"]
                 /\ UNCHANGED due
              \/ /\ ~OutOfAttempts(n)
                 /\ status' = [status EXCEPT ![Job(p)] = "PENDING"]
                 /\ due' = [due EXCEPT ![Job(p)] = FALSE]
    /\ Advance(p)
    /\ UNCHANGED <<sent, faults>>

(* Its update fails and is swallowed: the job stays RUNNING.               *)
RecordErrorFails(p) ==
    /\ faults < MaxFaults
    /\ step[p] = "error"
    /\ Advance(p)
    /\ faults' = faults + 1
    /\ UNCHANGED <<jobVars, sent>>

(* The claim throws and ends the tick, or the process ends: a crash, or a  *)
(* shutdown, which does not wait for the batch.  It is started again.      *)
Abandon(p) ==
    /\ faults < MaxFaults
    /\ step[p] # "idle"
    /\ batch' = [batch EXCEPT ![p] = <<>>]
    /\ step' = [step EXCEPT ![p] = "idle"]
    /\ done' = [done EXCEPT ![p] = 0]
    /\ faults' = faults + 1
    /\ UNCHANGED <<jobVars, sent>>

Work(p) == \/ Select(p) \/ Claim(p) \/ Execute(p) \/ ExecuteFails(p)
           \/ Finish(p) \/ RecordError(p)

Next == \/ \E j \in Jobs : BecomeDue(j)
        \/ \E p \in Replicas : \/ Work(p) \/ FinishFails(p)
                               \/ RecordErrorFails(p) \/ Abandon(p)

Spec == Init /\ [][Next]_vars

(* Time passes and the timer of a replica keeps firing.                    *)
LiveSpec == /\ Spec
            /\ \A j \in Jobs : WF_vars(BecomeDue(j))
            /\ \A p \in Replicas : WF_vars(Work(p))
-----------------------------------------------------------------------------
(* A job is COMPLETED only after all its actions were sent, and a single   *)
(* replica sends none of them more than MAX_ATTEMPTS times: a process end  *)
(* that leaves a job PENDING sent nothing (scheduler.ts:92-142).           *)
JobsSent == \A j \in Jobs \ Recurring :
               /\ status[j] = "COMPLETED" => sent[j] >= Actions
               /\ sent[j] <= Actions * MaxAttempts

(* With one replica, FAILED and COMPLETED are final: no job in hand and no *)
(* later poll takes it up again (scheduler.ts:78-84, 121-142).             *)
OutcomeFinal == [][\A j \in Jobs : status[j] \in {"COMPLETED", "FAILED"}
                                      => status'[j] = status[j]]_vars

(* Until a fault, every job that is due and not recurring comes to its     *)
(* outcome, however often its publishes are rejected, and a recurring one  *)
(* never stays RUNNING (scheduler.ts:44-65, 116-142).                      *)
JobsEnd ==
    /\ \A j \in Jobs \ Recurring :
          due[j] ~> (status[j] \in {"COMPLETED", "FAILED"} \/ faults > 0)
    /\ \A j \in Recurring :
          status[j] = "RUNNING" ~> (status[j] # "RUNNING" \/ faults > 0)

(* "Jobs live in PostgreSQL (BotScheduledJob) so they survive worker       *)
(* restarts" (scheduler.ts:8): a job in hand when its worker ends runs     *)
(* again.                                                                  *)
JobsSurvive == \A j \in Jobs : status[j] = "RUNNING" ~> status[j] # "RUNNING"
===============================================================================
