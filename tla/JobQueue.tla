------------------------------ MODULE JobQueue ------------------------------
(***************************************************************************)
(* The durable job queue (server/src/jobs/jobQueue.ts) and the polling      *)
(* workers that drain it (server/src/jobs/worker.ts).  Any number of worker *)
(* processes share the job_runs table; each claims a batch of due runs in   *)
(* one transaction and then executes them one after the other.              *)
(*                                                                         *)
(* A run is named by its idempotency key, so a repeated enqueue finds the   *)
(* run it would create and changes nothing.  Finishing a run takes two      *)
(* transactions, one for its status and one for its event, and either can   *)
(* fail.  Payloads, results, errors and checkpoints (which no handler       *)
(* reads) are left out.                                                     *)
(***************************************************************************)
EXTENDS Naturals, FiniteSets

CONSTANTS
  Worker,       \* worker processes
  Run,          \* idempotency keys of the runs that may ever be enqueued
  NoRun,        \* the current run of a worker that has none
  Unhandled,    \* the runs whose job code no handler is registered for
  MaxAttempts,  \* job_runs.max_attempts
  BatchSize,    \* JOB_WORKER_BATCH_SIZE
  MaxFaults     \* bound: crashes and failed writes in a behaviour

ASSUME NoRunAssumption     == NoRun \notin Run
ASSUME UnhandledAssumption == Unhandled \subseteq Run
ASSUME AttemptsAssumption  == MaxAttempts \in Nat \ {0}
ASSUME BatchAssumption     == BatchSize \in Nat \ {0}
ASSUME FaultsAssumption    == MaxFaults \in Nat

VARIABLES
  status,    \* job_runs.status, "Absent" before the run is enqueued
  attempts,  \* job_runs.attempts
  due,       \* whether next_attempt_at has come
  events,    \* the event types recorded in job_run_events
  batch,     \* the runs a worker claimed and has not finished, with the
             \* attempts the claim returned
  pc,        \* where a worker is with its current run
  current,   \* that run
  calls,     \* how often each run's handler was called
  lost,      \* runs whose worker died or gave up its batch
  faults     \* crashes and failed writes so far

runVars == <<status, attempts, due>>
vars == <<status, attempts, due, events, batch, pc, current, calls, lost, faults>>

Status == {"Absent", "Queued", "Running", "Retry", "Succeeded", "DeadLettered"}
Final  == {"Succeeded", "DeadLettered"}

Step == {"polling", "next", "handling", "completing", "completed", "failing", "failed"}

NoBatch == [r \in {} |-> 0]

Without(b, r) == [s \in DOMAIN b \ {r} |-> b[s]]

\* The runs a worker answers for: its batch, but for a current run whose retry or
\* dead-lettering is written already and only its event is not.
InHand(w) == IF pc[w] = "failed" THEN DOMAIN batch[w] \ {current[w]} ELSE DOMAIN batch[w]

-----------------------------------------------------------------------------
\* Mutants: a sweeper's clause without its lease, and an attempt too many.
Claimable_RunningToo ==
  {r \in Run : status[r] \in {"Queued", "Retry", "Running"} /\ due[r] /\ attempts[r] < MaxAttempts}
Claimable_AnyNotRunning ==
  {r \in Run : status[r] \notin {"Absent", "Running"} /\ due[r]}

\* The candidates of claimDueRuns.
Claimable ==
  {r \in Run : status[r] \in {"Queued", "Retry"} /\ due[r] /\ attempts[r] < MaxAttempts}

\* Mutants: the last attempt is counted one late, or one early.
Exhausted_OneLate(n)  == n > MaxAttempts
Exhausted_OneEarly(n) == n + 1 >= MaxAttempts

\* retryOrDeadLetterRun, on the attempts the claim returned.
Exhausted(n) == n >= MaxAttempts

\* executeRun passes a run without a handler as if its attempts were used up.
AttemptsUsed(w) ==
  IF current[w] \in Unhandled THEN MaxAttempts ELSE batch[w][current[w]]

-----------------------------------------------------------------------------
Init ==
  /\ status = [r \in Run |-> "Absent"]
  /\ attempts = [r \in Run |-> 0]
  /\ due = [r \in Run |-> TRUE]
  /\ events = [r \in Run |-> {}]
  /\ batch = [w \in Worker |-> NoBatch]
  /\ pc = [w \in Worker |-> "polling"]
  /\ current = [w \in Worker |-> NoRun]
  /\ calls = [r \in Run |-> 0]
  /\ lost = {}
  /\ faults = 0

Goto(w, step) == pc' = [pc EXCEPT ![w] = step]

\* The worker is done with its current run and takes up the rest of its batch.
FinishRun(w) ==
  LET rest == Without(batch[w], current[w]) IN
  /\ batch' = [batch EXCEPT ![w] = rest]
  /\ current' = [current EXCEPT ![w] = NoRun]
  /\ Goto(w, IF DOMAIN rest = {} THEN "polling" ELSE "next")

\* An error escapes the batch loop, or the process dies: what is left of the
\* batch is forgotten, and its rows stay as they are.
Abandon(w) ==
  /\ faults < MaxFaults
  /\ faults' = faults + 1
  /\ batch' = [batch EXCEPT ![w] = NoBatch]
  /\ current' = [current EXCEPT ![w] = NoRun]
  /\ lost' = lost \cup {r \in InHand(w) : status[r] = "Running"}
  /\ Goto(w, "polling")

\* enqueueJob with a new key; with a known one it returns the run it finds.
Enqueue(r) ==
  /\ status[r] = "Absent"
  /\ status' = [status EXCEPT ![r] = "Queued"]
  /\ UNCHANGED <<attempts, due, events, batch, pc, current, calls, lost, faults>>

\* retryDeadLetteredRun: a new run, under a key of its own, for a dead-lettered
\* one, and an event on the new run in a second transaction.
ManualRetry(r, s) ==
  /\ status[r] = "DeadLettered"
  /\ status[s] = "Absent"
  /\ (r \in Unhandled) <=> (s \in Unhandled)
  /\ status' = [status EXCEPT ![s] = "Queued"]
  /\ UNCHANGED <<attempts, due, batch, pc, current, calls, lost>>
  /\ \/ events' = [events EXCEPT ![s] = @ \cup {"manual_retry_enqueued"}] /\ UNCHANGED faults
     \/ faults < MaxFaults /\ faults' = faults + 1 /\ UNCHANGED events

\* claimDueRuns: one transaction; rows another claim holds are skipped.
Claim(w) ==
  \E S \in SUBSET Claimable :
    /\ pc[w] = "polling"
    /\ S # {}
    /\ Cardinality(S) <= BatchSize
    /\ status' = [r \in Run |-> IF r \in S THEN "Running" ELSE status[r]]
    /\ attempts' = [r \in Run |-> IF r \in S THEN attempts[r] + 1 ELSE attempts[r]]
    /\ batch' = [batch EXCEPT ![w] = [r \in S |-> attempts[r] + 1]]
    /\ Goto(w, "next")
    /\ UNCHANGED <<due, events, current, calls, lost, faults>>

\* executeRun calls the handler, or finds there is none.
Execute(w) ==
  \E r \in DOMAIN batch[w] :
    /\ pc[w] = "next"
    /\ current' = [current EXCEPT ![w] = r]
    /\ Goto(w, IF r \in Unhandled THEN "failing" ELSE "handling")
    /\ calls' = IF r \in Unhandled THEN calls ELSE [calls EXCEPT ![r] = @ + 1]
    /\ UNCHANGED <<runVars, events, batch, lost, faults>>

\* The handler returns or throws (a failed checkpoint write makes it throw).
HandlerEnds(w) ==
  /\ pc[w] = "handling"
  /\ \/ Goto(w, "completing")
     \/ Goto(w, "failing")
  /\ UNCHANGED <<runVars, events, batch, current, calls, lost, faults>>

\* completeRun, first transaction: whatever the status is, it becomes Succeeded.
Complete(w) ==
  /\ pc[w] = "completing"
  /\ status' = [status EXCEPT ![current[w]] = "Succeeded"]
  /\ Goto(w, "completed")
  /\ UNCHANGED <<attempts, due, events, batch, current, calls, lost, faults>>

\* completeRun, second transaction.
RecordCompleted(w) ==
  /\ pc[w] = "completed"
  /\ events' = [events EXCEPT ![current[w]] = @ \cup {"completed"}]
  /\ FinishRun(w)
  /\ UNCHANGED <<runVars, calls, lost, faults>>

\* Either transaction of completeRun fails: executeRun catches the error.
CompleteFails(w) ==
  /\ pc[w] \in {"completing", "completed"}
  /\ faults < MaxFaults
  /\ faults' = faults + 1
  /\ Goto(w, "failing")
  /\ UNCHANGED <<runVars, events, batch, current, calls, lost>>

\* retryOrDeadLetterRun, first transaction: again whatever the status is.
Requeue(w) ==
  LET r == current[w] IN
  /\ pc[w] = "failing"
  /\ IF Exhausted(AttemptsUsed(w))
     THEN status' = [status EXCEPT ![r] = "DeadLettered"] /\ UNCHANGED due
     ELSE status' = [status EXCEPT ![r] = "Retry"] /\ due' = [due EXCEPT ![r] = FALSE]
  /\ Goto(w, "failed")
  /\ UNCHANGED <<attempts, events, batch, current, calls, lost, faults>>

\* retryOrDeadLetterRun, second transaction.
RecordFailed(w) ==
  /\ pc[w] = "failed"
  /\ events' = [events EXCEPT ![current[w]] = @ \cup
                 {IF Exhausted(AttemptsUsed(w)) THEN "dead_lettered" ELSE "retry_scheduled"}]
  /\ FinishRun(w)
  /\ UNCHANGED <<runVars, calls, lost, faults>>

\* Either transaction of retryOrDeadLetterRun fails: nothing catches the error
\* before runLoop does.
RequeueFails(w) ==
  /\ pc[w] \in {"failing", "failed"}
  /\ Abandon(w)
  /\ UNCHANGED <<runVars, events, calls>>

\* The process dies and is started again.
Crash(w) ==
  /\ pc[w] # "polling"
  /\ Abandon(w)
  /\ UNCHANGED <<runVars, events, calls>>

\* next_attempt_at comes.
BackoffEnds(r) ==
  /\ ~due[r]
  /\ due' = [due EXCEPT ![r] = TRUE]
  /\ UNCHANGED <<status, attempts, events, batch, pc, current, calls, lost, faults>>

Next ==
  \/ \E r \in Run : Enqueue(r) \/ BackoffEnds(r)
  \/ \E r, s \in Run : ManualRetry(r, s)
  \/ \E w \in Worker :
       \/ Claim(w) \/ Execute(w) \/ HandlerEnds(w)
       \/ Complete(w) \/ RecordCompleted(w) \/ CompleteFails(w)
       \/ Requeue(w) \/ RecordFailed(w) \/ RequeueFails(w)
       \/ Crash(w)

Spec == Init /\ [][Next]_vars

\* Time passes, workers keep polling and get on with the batch they have, and
\* handlers end.
Fairness ==
  /\ \A r \in Run : WF_vars(BackoffEnds(r))
  /\ \A w \in Worker :
       WF_vars(Claim(w) \/ Execute(w) \/ HandlerEnds(w) \/ Complete(w)
               \/ RecordCompleted(w) \/ Requeue(w) \/ RecordFailed(w))

FairSpec == Spec /\ Fairness
-----------------------------------------------------------------------------
(***************************************************************************)
(* Properties.                                                              *)
(***************************************************************************)

\* Every variable holds values of its column or of a worker's program counter.
TypeOK ==
  /\ status \in [Run -> Status]
  /\ attempts \in [Run -> Nat]
  /\ due \in [Run -> BOOLEAN]
  /\ events \in [Run -> SUBSET {"completed", "retry_scheduled", "dead_lettered",
                                 "manual_retry_enqueued"}]
  /\ DOMAIN batch = Worker
  /\ \A w \in Worker :
       DOMAIN batch[w] \subseteq Run /\ batch[w] \in [DOMAIN batch[w] -> Nat]
  /\ pc \in [Worker -> Step]
  /\ current \in [Worker -> Run \cup {NoRun}]
  /\ calls \in [Run -> Nat]
  /\ lost \subseteq Run
  /\ faults \in 0..MaxFaults

\* Two workers never have the same run in hand, however claims, retries and failures
\* interleave (FOR UPDATE SKIP LOCKED and the status the claim sets); and nobody has
\* touched its attempts since it was claimed, so that the decision to retry or to
\* dead-letter is not a stale one.
OneExecutor ==
  /\ TypeOK
  /\ \A w, v \in Worker : w # v => InHand(w) \cap InHand(v) = {}
  /\ \A w \in Worker : \A r \in InHand(w) : batch[w][r] = attempts[r]

\* No run waits for an attempt it will never be given: Queued and Retry runs have
\* attempts left (or no claim could ever see them), and a run is Running only
\* while a worker has it in hand or after one lost it.
NoLimbo ==
  \A r \in Run :
    /\ status[r] \in {"Queued", "Retry"} => attempts[r] < MaxAttempts
    /\ status[r] = "Running" => r \in lost \/ \E w \in Worker : r \in InHand(w)

\* A run gets the attempts it is due and no more: its handler is called at most
\* max_attempts times, through crashes, failed writes and reversals of Succeeded, and
\* it is dead-lettered only when its attempts are used up.
AttemptsKept ==
  /\ \A r \in Run : calls[r] <= MaxAttempts
  /\ \A r \in Run \ Unhandled : status[r] = "DeadLettered" => attempts[r] >= MaxAttempts

\* The history does not lie: once "completed" is recorded the run stays Succeeded,
\* once "dead_lettered" is recorded it stays DeadLettered.
RecordedIsFinal ==
  \A r \in Run :
    /\ "completed" \in events[r] => status[r] = "Succeeded"
    /\ "dead_lettered" \in events[r] => status[r] = "DeadLettered"

\* Every run that is enqueued ends, unless the worker that had it died or gave it
\* up: such a run is claimed by nobody again.
RunsEnd ==
  \A r \in Run :
    status[r] = "Queued" ~> status[r] \in Final \/ (status[r] = "Running" /\ r \in lost)
=============================================================================
