---------------------------- MODULE JobSchedule ----------------------------
(* The scheduler of the job worker (jobs/scheduler.ts, runSchedulerTick):    *)
(* worker processes turn the due rows of job_schedules into runs of the job  *)
(* queue.  A tick is one transaction: it takes the time of its process,      *)
(* locks the rows that are due then, skipping those another worker holds,    *)
(* and for each of them queues the run of the occurrence and moves the row   *)
(* to its next one.  Everything a tick writes is under its row locks, so its *)
(* writes are one step, its commit.                                          *)
(*                                                                           *)
(* Times and intervals are natural numbers.  A schedule stands for its       *)
(* expression by its interval; the expressions the code does not support     *)
(* have none.  What a name of JobQueue would do for is called Sched... here, *)
(* so that one module can use both.                                          *)
EXTENDS Integers, FiniteSets, Functions

CONSTANTS Process,     \* worker processes
          Schedule,    \* rows of job_schedules
          Interval,    \* the interval of each, 0 when its expression is invalid
          FirstRun,    \* next_run_at of each when it is set up
          Limit,       \* JOB_WORKER_BATCH_SIZE
          MaxDate,     \* the last time a JavaScript Date can hold
          MaxTime,     \* bound: the time at which the clock stops
          MaxAborts    \* bound: crashes and lost connections

ASSUME IntervalAssumption == Interval \in [Schedule -> Nat]
ASSUME FirstRunAssumption == FirstRun \in [Schedule -> Nat]
ASSUME LimitAssumption    == Limit \in Nat \ {0}
ASSUME TimeAssumption     == /\ MaxDate \in Nat
                             /\ MaxTime \in Nat
                             /\ MaxAborts \in Nat

Never == -1            \* last_run_at before the first run

VARIABLES now,
          enabled,     \* job_schedules.enabled
          nextRun,     \* job_schedules.next_run_at
          lastRun,     \* job_schedules.last_run_at
          runs,        \* job_runs of schedules, by their idempotency keys
          tick,        \* the tick of each worker
          aborts       \* crashes and lost connections so far

schedVars == <<now, enabled, nextRun, lastRun, runs, tick, aborts>>
rows == <<enabled, nextRun, lastRun, runs>>

\* The idempotency key of the run of an occurrence: schedule:<id>:<time>.
Key(s, t) == [schedule |-> s, time |-> t]

\* A tick reads next_run_at of the rows it locks.
NothingRead == [s \in {} |-> 0]

SchedTypeOK ==
  /\ now \in 0..MaxTime
  /\ enabled \in [Schedule -> BOOLEAN]
  /\ nextRun \in [Schedule -> Nat]
  /\ lastRun \in [Schedule -> Nat \cup {Never}]
  /\ runs \subseteq [schedule : Schedule, time : Nat]
  /\ DOMAIN tick = Process
  /\ \A w \in Process :
       /\ tick[w].phase \in {"polling", "connecting", "claimed"}
       /\ tick[w].at \in 0..MaxTime
       /\ DOMAIN tick[w].read \subseteq Schedule
       /\ \A s \in DOMAIN tick[w].read : tick[w].read[s] \in Nat
  /\ aborts \in 0..MaxAborts

Polling == [phase |-> "polling", at |-> 0, read |-> NothingRead]

SchedInit ==
  /\ now = 0
  /\ enabled = [s \in Schedule |-> TRUE]
  /\ nextRun = FirstRun
  /\ lastRun = [s \in Schedule |-> Never]
  /\ runs = {}
  /\ tick = [w \in Process |-> Polling]
  /\ aborts = 0

-----------------------------------------------------------------------------
Supported(s) == Interval[s] > 0

AtLeastOne(n) == IF n < 1 THEN 1 ELSE n

\* Mutant: the cadence restarts at the time of the tick.
NextRunAt_FromNow(s, scheduled, at) == at + Interval[s]

\* calculateNextRunAt: the first occurrence after the tick, on the cadence.
NextRunAt(s, scheduled, at) ==
  scheduled + AtLeastOne(((at - scheduled) \div Interval[s]) + 1) * Interval[s]

Due(s, at) == enabled[s] /\ nextRun[s] <= at

\* Mutant: the rows are read without a lock.
Free_Unlocked(s) == TRUE

\* FOR UPDATE ... SKIP LOCKED
Free(s) == \A w \in Process : s \notin DOMAIN tick[w].read

\* The rows of a claim are the first of the due ones nobody holds.
IsClaim(S, at) ==
  LET due == {s \in Schedule : Due(s, at) /\ Free(s)} IN
    /\ S \subseteq due
    /\ Cardinality(S) <= Limit
    /\ S # due => /\ Cardinality(S) = Limit
                  /\ \A s \in S, d \in due \ S : nextRun[s] <= nextRun[d]

\* Mutant: an expression that is not supported fails the tick.
Fails_Unsupported(read, at) == \E s \in DOMAIN read : ~ Supported(s)

\* Beyond the last Date the next run is not a date, and the database refuses it.
Fails(read, at) ==
  \E s \in DOMAIN read : Supported(s) /\ NextRunAt(s, read[s], at) > MaxDate

-----------------------------------------------------------------------------
\* The worker's loop comes round and takes the time.
Start(w) ==
  /\ tick[w].phase = "polling"
  /\ tick' = [tick EXCEPT ![w] = [phase |-> "connecting", at |-> now,
                                  read |-> NothingRead]]
  /\ UNCHANGED <<now, rows, aborts>>

\* The query for the due schedules.
TakeDue(w) ==
  /\ tick[w].phase = "connecting"
  /\ \E S \in SUBSET Schedule :
       /\ IsClaim(S, tick[w].at)
       /\ tick' = [tick EXCEPT ![w].phase = "claimed", ![w].read = Restrict(nextRun, S)]
  /\ UNCHANGED <<now, rows, aborts>>

\* The claimed rows, with everything the tick writes, and COMMIT; or ROLLBACK when
\* a statement fails, and the worker polls again.
Fire(w) ==
  LET read  == tick[w].read
      kept  == IF Fails(read, tick[w].at) THEN {} ELSE DOMAIN read
      fires == {s \in kept : Supported(s)} IN
    /\ tick[w].phase = "claimed"
    /\ enabled' = [s \in Schedule |-> enabled[s] /\ s \notin kept \ fires]
    /\ runs' = runs \cup {Key(s, read[s]) : s \in fires}
    /\ lastRun' = [s \in Schedule |-> IF s \in fires THEN read[s] ELSE lastRun[s]]
    /\ nextRun' = [s \in Schedule |-> IF s \in fires THEN NextRunAt(s, read[s], tick[w].at)
                                                     ELSE nextRun[s]]
    /\ tick' = [tick EXCEPT ![w] = Polling]
    /\ UNCHANGED <<now, aborts>>

\* The process dies, or loses its connection, and polls again.
Abort(w) ==
  /\ aborts < MaxAborts
  /\ tick[w].phase # "polling"
  /\ tick' = [tick EXCEPT ![w] = Polling]
  /\ aborts' = aborts + 1
  /\ UNCHANGED <<now, rows>>

Tick ==
  /\ now < MaxTime
  /\ now' = now + 1
  /\ UNCHANGED <<rows, tick, aborts>>

SchedNext ==
  \/ Tick
  \/ \E w \in Process : Start(w) \/ TakeDue(w) \/ Fire(w) \/ Abort(w)

\* A worker that is up goes on with its loop.
SchedFairness == \A w \in Process : WF_schedVars(Start(w) \/ TakeDue(w) \/ Fire(w))

SchedSpec == SchedInit /\ [][SchedNext]_schedVars /\ SchedFairness

-----------------------------------------------------------------------------
(* A claimed row is held by one worker and is still what it read, however    *)
(* old the time of its tick is.                                              *)
ReadIsCurrent ==
  \A w \in Process : \A s \in DOMAIN tick[w].read :
    /\ \A v \in Process \ {w} : s \notin DOMAIN tick[v].read
    /\ tick[w].read[s] = nextRun[s]
    /\ Due(s, tick[w].at)

(* The last run of a schedule is in the queue, is its latest, and is one of  *)
(* a cadence the next one is on: no occurrence is lost by a crash between    *)
(* the run and the move of the schedule, and none is fired again.            *)
OnCadence ==
  \A s \in Schedule :
    /\ lastRun[s] # Never => Key(s, lastRun[s]) \in runs
    /\ \A r \in runs : r.schedule = s =>
         /\ Supported(s)
         /\ r.time <= lastRun[s]
         /\ r.time < nextRun[s]
         /\ (nextRun[s] - r.time) % Interval[s] = 0

(* The occurrences of a schedule (scheduler.ts:114-139): each of the runs in *)
(* the queue is an occurrence of its own, and what a tick read is so.        *)
OccurrencesKept == SchedTypeOK /\ ReadIsCurrent /\ OnCadence

(* A schedule that moves has queued the run it moves from, and moves to the  *)
(* first occurrence after the time of a tick: ticks of several workers with  *)
(* times of their own never take it back, and an outage is made up for by    *)
(* one run (scheduler.ts:48, JOB_QUEUE_DESIGN.md:331).                       *)
MovesPastTheTick ==
  [][\A s \in Schedule : nextRun'[s] # nextRun[s] =>
       /\ Key(s, nextRun[s]) \in runs' \ runs
       /\ nextRun'[s] > nextRun[s]
       /\ \E w \in Process : /\ nextRun'[s] > tick[w].at
                            /\ nextRun'[s] - Interval[s] <= tick[w].at]_schedVars

\* The next run of a schedule would be beyond the last date, if it ran now.
Dateless(s) == Supported(s) /\ NextRunAt(s, nextRun[s], now) > MaxDate

(* Every due schedule is eventually fired or, when its expression is not     *)
(* supported, disabled: whatever expression another schedule has, it keeps   *)
(* none that has a next run from running (JOB_QUEUE_DESIGN.md:333).          *)
DueIsServed ==
  \A s \in Schedule : Due(s, now) ~> ~ Due(s, now) \/ Dateless(s)

(* What the tick keeps of that: a due schedule is served in the end, by any  *)
(* worker and through crashes, unless a schedule without a next run is due.  *)
ServedUnlessHeld ==
  \A s \in Schedule :
    Due(s, now) ~> ~ Due(s, now) \/ \E o \in Schedule : Due(o, now) /\ Dateless(o)
=============================================================================
