--------------------------- MODULE JobQueueProofs ---------------------------
(***************************************************************************)
(* The safety of JobQueue and of the JobSchedule that fills it, for any     *)
(* workers, runs and schedules, any limits and any number of faults.        *)
(*                                                                         *)
(* The checked invariants speak of what a worker has in hand; the inductive *)
(* one says besides what the rows of those runs hold meanwhile: they are    *)
(* Running, or Succeeded when only their event is missing, so no claim sees *)
(* them and nobody else writes them by their id.                            *)
(***************************************************************************)
EXTENDS JobQueue, JobSchedule, TLAPS

Active == {"handling", "completing", "completed", "failing", "failed"}

\* A worker has a current run while it works on one, and that is of its batch.
StepInv ==
  \A w \in Worker :
    /\ pc[w] \in Active => current[w] \in DOMAIN batch[w]
    /\ pc[w] \notin Active => current[w] = NoRun
    /\ pc[w] = "polling" => DOMAIN batch[w] = {}

\* What the row of a run holds that worker w has in hand.
Held(w, r) ==
  \/ status[r] = "Running" /\ ~(r = current[w] /\ pc[w] = "completed")
  \/ status[r] = "Succeeded" /\ r = current[w] /\ pc[w] \in {"completed", "failing"}

HandInv ==
  /\ \A w, v \in Worker : w # v => InHand(w) \cap InHand(v) = {}
  /\ \A w \in Worker : \A r \in InHand(w) :
       batch[w][r] = attempts[r] /\ Held(w, r) /\ "completed" \notin events[r]

AttemptInv ==
  \A r \in Run :
    /\ attempts[r] <= MaxAttempts
    /\ status[r] = "Absent" => attempts[r] = 0

\* A handler was called once per attempt, and not yet for the attempts of the runs
\* that wait in a batch.
CallInv ==
  /\ \A r \in Run : calls[r] <= attempts[r]
  /\ \A w \in Worker : \A r \in DOMAIN batch[w] \ {current[w]} : calls[r] < attempts[r]

\* A worker that is about to record that a run was dead-lettered is right.
DeadInv ==
  \A w \in Worker :
    pc[w] = "failed" /\ Exhausted(AttemptsUsed(w)) => status[current[w]] = "DeadLettered"

IInv == /\ TypeOK /\ StepInv /\ HandInv /\ AttemptInv /\ CallInv /\ DeadInv
        /\ NoLimbo /\ AttemptsKept /\ RecordedIsFinal

-----------------------------------------------------------------------------
LEMMA InitIInv == Init => IInv
<1>. SUFFICES ASSUME Init PROVE IInv
  OBVIOUS
<1>. USE NoRunAssumption, AttemptsAssumption, FaultsAssumption DEF Init, NoBatch
<1>1. TypeOK
  BY DEF TypeOK, Status, Step
<1>2. StepInv /\ HandInv /\ AttemptInv /\ CallInv /\ DeadInv
  BY DEF StepInv, Active, HandInv, InHand, AttemptInv, CallInv, DeadInv
<1>3. NoLimbo /\ AttemptsKept /\ RecordedIsFinal
  BY DEF NoLimbo, AttemptsKept, RecordedIsFinal
<1>. QED  BY <1>1, <1>2, <1>3 DEF IInv

\* Runs enter the queue as rows nobody has in hand.
LEMMA EnqueuePreserves ==
  ASSUME IInv, NEW r \in Run, Enqueue(r)
  PROVE  IInv'
<1>. USE AttemptsAssumption DEF IInv, TypeOK, Enqueue
<1>1. TypeOK'
  BY DEF Status
<1>2. StepInv'
  BY DEF StepInv
<1>3. HandInv'
  BY DEF HandInv, InHand, Held
<1>4. AttemptInv' /\ CallInv'
  BY DEF AttemptInv, CallInv
<1>5. DeadInv'
  BY DEF DeadInv, StepInv, Active, Exhausted, AttemptsUsed
<1>6. NoLimbo' /\ AttemptsKept' /\ RecordedIsFinal'
  BY DEF NoLimbo, AttemptsKept, RecordedIsFinal, AttemptInv, InHand
<1>. QED  BY <1>1, <1>2, <1>3, <1>4, <1>5, <1>6

\* Nor does a manual retry.
LEMMA ManualRetryPreserves ==
  ASSUME IInv, NEW r \in Run, NEW s \in Run, ManualRetry(r, s)
  PROVE  IInv'
<1>. USE NoRunAssumption, AttemptsAssumption, FaultsAssumption
     DEF IInv, TypeOK, ManualRetry
<1>1. TypeOK'
  BY DEF Status, Step
<1>2. StepInv'
  BY DEF StepInv, Active
<1>3. HandInv'
  BY DEF StepInv, Active, HandInv, InHand, Held
<1>4. AttemptInv' /\ CallInv'
  BY DEF StepInv, Active, HandInv, InHand, Held, AttemptInv, CallInv
<1>5. DeadInv'
  BY DEF DeadInv, StepInv, Active, Exhausted, AttemptsUsed, HandInv, InHand, Held
<1>6. NoLimbo' /\ AttemptsKept' /\ RecordedIsFinal'
  BY DEF NoLimbo, AttemptsKept, RecordedIsFinal, AttemptInv, InHand, CallInv, HandInv, Held,
         StepInv, Active, Exhausted, AttemptsUsed, DeadInv
<1>. QED  BY <1>1, <1>2, <1>3, <1>4, <1>5, <1>6

\* A backoff that ends changes no status.
LEMMA BackoffPreserves ==
  ASSUME IInv, NEW r \in Run, BackoffEnds(r)
  PROVE  IInv'
<1>. USE NoRunAssumption, AttemptsAssumption, FaultsAssumption
     DEF IInv, TypeOK, BackoffEnds
<1>1. TypeOK'
  BY DEF Status, Step
<1>2. StepInv'
  BY DEF StepInv, Active
<1>3. HandInv'
  BY DEF StepInv, Active, HandInv, InHand, Held
<1>4. AttemptInv' /\ CallInv'
  BY DEF StepInv, Active, HandInv, InHand, Held, AttemptInv, CallInv
<1>5. DeadInv'
  BY DEF DeadInv, StepInv, Active, Exhausted, AttemptsUsed, HandInv, InHand, Held
<1>6. NoLimbo' /\ AttemptsKept' /\ RecordedIsFinal'
  BY DEF NoLimbo, AttemptsKept, RecordedIsFinal, AttemptInv, InHand, CallInv, HandInv, Held,
         StepInv, Active, Exhausted, AttemptsUsed, DeadInv
<1>. QED  BY <1>1, <1>2, <1>3, <1>4, <1>5, <1>6

\* What a worker claims nobody has in hand, for it is Queued or in Retry.
LEMMA ClaimPreserves ==
  ASSUME IInv, NEW w \in Worker, Claim(w)
  PROVE  IInv'
<1>. USE NoRunAssumption, AttemptsAssumption, FaultsAssumption
     DEF IInv, TypeOK, Claim, Claimable, Goto
<1>1. TypeOK'
  BY DEF Status, Step
<1>2. StepInv'
  BY DEF StepInv, Active
<1>3. HandInv'
  <2>1. PICK S \in SUBSET Claimable :
          /\ pc[w] = "polling"
          /\ status' = [r \in Run |-> IF r \in S THEN "Running" ELSE status[r]]
          /\ attempts' = [r \in Run |-> IF r \in S THEN attempts[r] + 1 ELSE attempts[r]]
          /\ batch' = [batch EXCEPT ![w] = [r \in S |-> attempts[r] + 1]]
          /\ pc' = [pc EXCEPT ![w] = "next"]
          /\ UNCHANGED <<events, current>>
    OBVIOUS
  <2>2. InHand(w)' = S /\ \A v \in Worker \ {w} : InHand(v)' = InHand(v)
    BY <2>1 DEF InHand
  <2>3. \A v \in Worker : \A r \in InHand(v) : r \notin S
    BY <2>1 DEF HandInv, Held
  <2>4. \A v, u \in Worker : v # u => InHand(v)' \cap InHand(u)' = {}
    BY <2>2, <2>3 DEF HandInv
  <2>5. \A r \in S : batch'[w][r] = attempts'[r] /\ Held(w, r)' /\ "completed" \notin events'[r]
    BY <2>1 DEF Held, RecordedIsFinal
  <2>6. ASSUME NEW v \in Worker \ {w}, NEW r \in InHand(v)
        PROVE  batch'[v][r] = attempts'[r] /\ Held(v, r)' /\ "completed" \notin events'[r]
    BY <2>1, <2>3 DEF HandInv, Held, InHand
  <2>7. ASSUME NEW v \in Worker, NEW r \in InHand(v)'
        PROVE  batch'[v][r] = attempts'[r] /\ Held(v, r)' /\ "completed" \notin events'[r]
    <3>1. CASE v = w
      BY <2>2, <2>5, <3>1
    <3>2. CASE v # w
      <4>1. r \in InHand(v)
        BY <2>2, <3>2
      <4>. QED  BY <2>6, <3>2, <4>1
    <3>. QED  BY <3>1, <3>2
  <2>. QED  BY <2>4, <2>7 DEF HandInv
<1>4. AttemptInv' /\ CallInv'
  BY DEF StepInv, Active, HandInv, InHand, Held, AttemptInv, CallInv
<1>5. DeadInv'
  BY DEF DeadInv, StepInv, Active, Exhausted, AttemptsUsed, HandInv, InHand, Held
<1>6. NoLimbo' /\ AttemptsKept' /\ RecordedIsFinal'
  BY DEF NoLimbo, AttemptsKept, RecordedIsFinal, AttemptInv, InHand, CallInv, HandInv, Held,
         StepInv, Active, Exhausted, AttemptsUsed, DeadInv
<1>. QED  BY <1>1, <1>2, <1>3, <1>4, <1>5, <1>6

\* A handler is called for an attempt that waited.
LEMMA ExecutePreserves ==
  ASSUME IInv, NEW w \in Worker, Execute(w)
  PROVE  IInv'
<1>. USE NoRunAssumption, AttemptsAssumption, FaultsAssumption
     DEF IInv, TypeOK, Execute, Goto, runVars
<1>1. TypeOK'
  BY DEF Status, Step
<1>2. StepInv'
  BY DEF StepInv, Active
<1>3. HandInv'
  BY DEF StepInv, Active, HandInv, InHand, Held
<1>4. AttemptInv' /\ CallInv'
  BY DEF StepInv, Active, HandInv, InHand, Held, AttemptInv, CallInv
<1>5. DeadInv'
  BY DEF DeadInv, StepInv, Active, Exhausted, AttemptsUsed, HandInv, InHand, Held
<1>6. NoLimbo' /\ AttemptsKept' /\ RecordedIsFinal'
  BY DEF NoLimbo, AttemptsKept, RecordedIsFinal, AttemptInv, InHand, CallInv, HandInv, Held,
         StepInv, Active, Exhausted, AttemptsUsed, DeadInv
<1>. QED  BY <1>1, <1>2, <1>3, <1>4, <1>5, <1>6

\* Handlers write nothing.
LEMMA HandlerPreserves ==
  ASSUME IInv, NEW w \in Worker, HandlerEnds(w)
  PROVE  IInv'
<1>. USE NoRunAssumption, AttemptsAssumption, FaultsAssumption
     DEF IInv, TypeOK, HandlerEnds, Goto, runVars
<1>1. TypeOK'
  BY DEF Status, Step
<1>2. StepInv'
  BY DEF StepInv, Active
<1>3. HandInv'
  BY DEF StepInv, Active, HandInv, InHand, Held
<1>4. AttemptInv' /\ CallInv'
  BY DEF StepInv, Active, HandInv, InHand, Held, AttemptInv, CallInv
<1>5. DeadInv'
  BY DEF DeadInv, StepInv, Active, Exhausted, AttemptsUsed, HandInv, InHand, Held
<1>6. NoLimbo' /\ AttemptsKept' /\ RecordedIsFinal'
  BY DEF NoLimbo, AttemptsKept, RecordedIsFinal, AttemptInv, InHand, CallInv, HandInv, Held,
         StepInv, Active, Exhausted, AttemptsUsed, DeadInv
<1>. QED  BY <1>1, <1>2, <1>3, <1>4, <1>5, <1>6

\* The run that becomes Succeeded is in hand of this worker only.
LEMMA CompletePreserves ==
  ASSUME IInv, NEW w \in Worker, Complete(w)
  PROVE  IInv'
<1>. USE NoRunAssumption, AttemptsAssumption, FaultsAssumption
     DEF IInv, TypeOK, Complete, Goto
<1>1. TypeOK'
  BY DEF Status, Step
<1>2. StepInv'
  BY DEF StepInv, Active
<1>3. HandInv'
  BY DEF StepInv, Active, HandInv, InHand, Held
<1>4. AttemptInv' /\ CallInv'
  BY DEF StepInv, Active, HandInv, InHand, Held, AttemptInv, CallInv
<1>5. DeadInv'
  BY DEF DeadInv, StepInv, Active, Exhausted, AttemptsUsed, HandInv, InHand, Held
<1>6. NoLimbo' /\ AttemptsKept' /\ RecordedIsFinal'
  BY DEF NoLimbo, AttemptsKept, RecordedIsFinal, AttemptInv, InHand, CallInv, HandInv, Held,
         StepInv, Active, Exhausted, AttemptsUsed, DeadInv
<1>. QED  BY <1>1, <1>2, <1>3, <1>4, <1>5, <1>6

\* Once completion is recorded the run is in no hand.
LEMMA RecordCompletedPreserves ==
  ASSUME IInv, NEW w \in Worker, RecordCompleted(w)
  PROVE  IInv'
<1>. USE NoRunAssumption, AttemptsAssumption, FaultsAssumption
     DEF IInv, TypeOK, RecordCompleted, FinishRun, Without, Goto, runVars
<1>1. TypeOK'
  BY DEF Status, Step
<1>2. StepInv'
  BY DEF StepInv, Active
<1>3. HandInv'
  BY DEF StepInv, Active, HandInv, InHand, Held
<1>4. AttemptInv' /\ CallInv'
  BY DEF StepInv, Active, HandInv, InHand, Held, AttemptInv, CallInv
<1>5. DeadInv'
  BY DEF DeadInv, StepInv, Active, Exhausted, AttemptsUsed, HandInv, InHand, Held
<1>6. NoLimbo' /\ AttemptsKept' /\ RecordedIsFinal'
  BY DEF NoLimbo, AttemptsKept, RecordedIsFinal, AttemptInv, InHand, CallInv, HandInv, Held,
         StepInv, Active, Exhausted, AttemptsUsed, DeadInv
<1>. QED  BY <1>1, <1>2, <1>3, <1>4, <1>5, <1>6

\* A run whose completion cannot be written stays in hand.
LEMMA CompleteFailsPreserves ==
  ASSUME IInv, NEW w \in Worker, CompleteFails(w)
  PROVE  IInv'
<1>. USE NoRunAssumption, AttemptsAssumption, FaultsAssumption
     DEF IInv, TypeOK, CompleteFails, Goto, runVars
<1>1. TypeOK'
  BY DEF Status, Step
<1>2. StepInv'
  BY DEF StepInv, Active
<1>3. HandInv'
  BY DEF StepInv, Active, HandInv, InHand, Held
<1>4. AttemptInv' /\ CallInv'
  BY DEF StepInv, Active, HandInv, InHand, Held, AttemptInv, CallInv
<1>5. DeadInv'
  BY DEF DeadInv, StepInv, Active, Exhausted, AttemptsUsed, HandInv, InHand, Held
<1>6. NoLimbo' /\ AttemptsKept' /\ RecordedIsFinal'
  BY DEF NoLimbo, AttemptsKept, RecordedIsFinal, AttemptInv, InHand, CallInv, HandInv, Held,
         StepInv, Active, Exhausted, AttemptsUsed, DeadInv
<1>. QED  BY <1>1, <1>2, <1>3, <1>4, <1>5, <1>6

\* The decision between Retry and DeadLettered is taken on the attempts of the row.
LEMMA RequeuePreserves ==
  ASSUME IInv, NEW w \in Worker, Requeue(w)
  PROVE  IInv'
<1>. USE NoRunAssumption, AttemptsAssumption, FaultsAssumption
     DEF IInv, TypeOK, Requeue, Goto
<1>1. TypeOK'
  BY DEF Status, Step
<1>2. StepInv'
  BY DEF StepInv, Active
<1>3. HandInv'
  BY DEF StepInv, Active, HandInv, InHand, Held
<1>4. AttemptInv' /\ CallInv'
  BY DEF StepInv, Active, HandInv, InHand, Held, AttemptInv, CallInv
<1>5. DeadInv'
  BY DEF DeadInv, StepInv, Active, Exhausted, AttemptsUsed, HandInv, InHand, Held
<1>6. NoLimbo' /\ AttemptsKept' /\ RecordedIsFinal'
  BY DEF NoLimbo, AttemptsKept, RecordedIsFinal, AttemptInv, InHand, CallInv, HandInv, Held,
         StepInv, Active, Exhausted, AttemptsUsed, DeadInv
<1>. QED  BY <1>1, <1>2, <1>3, <1>4, <1>5, <1>6

\* A failure is recorded although the run may be in another hand by now.
LEMMA RecordFailedPreserves ==
  ASSUME IInv, NEW w \in Worker, RecordFailed(w)
  PROVE  IInv'
<1>. USE NoRunAssumption, AttemptsAssumption, FaultsAssumption
     DEF IInv, TypeOK, RecordFailed, FinishRun, Without, Goto, runVars
<1>1. TypeOK'
  BY DEF Status, Step
<1>2. StepInv'
  BY DEF StepInv, Active
<1>3. HandInv'
  BY DEF StepInv, Active, HandInv, InHand, Held
<1>4. AttemptInv' /\ CallInv'
  BY DEF StepInv, Active, HandInv, InHand, Held, AttemptInv, CallInv
<1>5. DeadInv'
  BY DEF DeadInv, StepInv, Active, Exhausted, AttemptsUsed, HandInv, InHand, Held
<1>6. NoLimbo' /\ AttemptsKept' /\ RecordedIsFinal'
  BY DEF NoLimbo, AttemptsKept, RecordedIsFinal, AttemptInv, InHand, CallInv, HandInv, Held,
         StepInv, Active, Exhausted, AttemptsUsed, DeadInv
<1>. QED  BY <1>1, <1>2, <1>3, <1>4, <1>5, <1>6

\* A worker that gives up, or dies, leaves its Running runs among the lost.
LEMMA AbandonPreserves ==
  ASSUME IInv, NEW w \in Worker, RequeueFails(w) \/ Crash(w)
  PROVE  IInv'
<1>. USE NoRunAssumption, AttemptsAssumption, FaultsAssumption DEF IInv, TypeOK
<1>1. /\ pc[w] # "polling"
      /\ faults < MaxFaults /\ faults' = faults + 1
      /\ batch' = [batch EXCEPT ![w] = NoBatch]
      /\ current' = [current EXCEPT ![w] = NoRun]
      /\ lost' = lost \cup {r \in InHand(w) : status[r] = "Running"}
      /\ pc' = [pc EXCEPT ![w] = "polling"]
      /\ UNCHANGED <<status, attempts, due, events, calls>>
  BY DEF RequeueFails, Crash, Abandon, Goto, runVars
<1>2. DOMAIN NoBatch = {} /\ NoBatch \in [DOMAIN NoBatch -> Nat]
  BY DEF NoBatch
<1>3. InHand(w) \subseteq Run
  BY DEF InHand
<1>4. InHand(w)' = {} /\ \A v \in Worker \ {w} : InHand(v)' = InHand(v)
  BY <1>1, <1>2 DEF InHand
<1>5. TypeOK'
  BY <1>1, <1>2, <1>3 DEF Step
<1>6. StepInv'
  BY <1>1, <1>2 DEF StepInv, Active
<1>7. HandInv'
  BY <1>1, <1>4 DEF HandInv, Held, InHand
<1>8. AttemptInv' /\ CallInv'
  BY <1>1, <1>2 DEF AttemptInv, CallInv
<1>9. DeadInv'
  BY <1>1 DEF DeadInv, Exhausted, AttemptsUsed
<1>10. NoLimbo'
  BY <1>1, <1>4 DEF NoLimbo
<1>11. AttemptsKept' /\ RecordedIsFinal'
  BY <1>1 DEF AttemptsKept, RecordedIsFinal
<1>. QED  BY <1>5, <1>6, <1>7, <1>8, <1>9, <1>10, <1>11

LEMMA NextIInv == IInv /\ [Next]_vars => IInv'
<1>. SUFFICES ASSUME IInv, [Next]_vars PROVE IInv'
  OBVIOUS
<1>1. CASE UNCHANGED vars
  BY <1>1 DEF IInv, vars, TypeOK, StepInv, HandInv, Held, InHand, AttemptInv, CallInv, DeadInv,
              Exhausted, AttemptsUsed, NoLimbo, AttemptsKept, RecordedIsFinal
<1>2. CASE Next
  BY <1>2, EnqueuePreserves, BackoffPreserves, ManualRetryPreserves, ClaimPreserves,
     ExecutePreserves, HandlerPreserves, CompletePreserves, RecordCompletedPreserves,
     CompleteFailsPreserves, RequeuePreserves, RecordFailedPreserves, AbandonPreserves DEF Next
<1>. QED  BY <1>1, <1>2

LEMMA SpecIInv == Spec => []IInv
  BY InitIInv, NextIInv, PTL DEF Spec

-----------------------------------------------------------------------------
\* A run is in one worker's hand, and the attempts that worker decides on are its own.
THEOREM ExclusiveExecution == Spec => []OneExecutor
<1>1. IInv => OneExecutor
  BY DEF IInv, OneExecutor, HandInv
<1>. QED  BY <1>1, SpecIInv, PTL

\* A run that waits has attempts left, and one that is Running has a worker or lost it.
THEOREM NobodyInLimbo == Spec => []NoLimbo
<1>1. IInv => NoLimbo
  BY DEF IInv
<1>. QED  BY <1>1, SpecIInv, PTL

\* No run is given more than its attempts, or dead-lettered with attempts left.
THEOREM EveryAttemptKept == Spec => []AttemptsKept
<1>1. IInv => AttemptsKept
  BY DEF IInv
<1>. QED  BY <1>1, SpecIInv, PTL

\* What job_run_events says of the end of a run stays true of it.
THEOREM HistoryIsTrue == Spec => []RecordedIsFinal
<1>1. IInv => RecordedIsFinal
  BY DEF IInv
<1>. QED  BY <1>1, SpecIInv, PTL

-----------------------------------------------------------------------------
(***************************************************************************)
(* JobSchedule.  The checked invariant is inductive once it says what a     *)
(* tick consists of; what needs a proof of its own is the cadence.          *)
(***************************************************************************)
\* A tick has its phase, its time and the rows it has read.
TickInv ==
  \A w \in Process :
    tick[w] = [phase |-> tick[w].phase, at |-> tick[w].at, read |-> tick[w].read]

SchedInv == OccurrencesKept /\ TickInv

-----------------------------------------------------------------------------
LEMMA Remainder ==
  ASSUME NEW a \in Int, NEW I \in Nat \ {0}
  PROVE  /\ a \div I \in Int /\ a % I \in Int
         /\ a = I * (a \div I) + (a % I)
         /\ 0 <= a % I /\ a % I < I
  OBVIOUS

LEMMA MultipleHasNone ==
  ASSUME NEW q \in Int, NEW I \in Nat \ {0}
  PROVE  (q * I) % I = 0
<1>. DEFINE k == (q * I) \div I
            m == (q * I) % I
<1>1. q * I = I * k + m /\ 0 <= m /\ m < I /\ k \in Int /\ m \in Int
  <2>1. q * I \in Int
    OBVIOUS
  <2>. QED  BY <2>1, Remainder
<1>. HIDE DEF k, m
<1>2. I * (q - k) = m
  BY <1>1
<1>3. CASE q - k >= 1
  <2>1. I * (q - k) >= I
    BY <1>1, <1>3
  <2>. QED  BY <1>1, <1>2, <2>1
<1>4. CASE q - k <= -1
  <2>1. I * (q - k) <= -I
    BY <1>1, <1>4
  <2>. QED  BY <1>1, <1>2, <2>1
<1>5. CASE q = k
  BY <1>1, <1>2, <1>5
<1>6. m = 0
  BY <1>1, <1>3, <1>4, <1>5
<1>. QED  BY <1>6 DEF m

\* Whole intervals more leave a time on its cadence.
LEMMA OnTheCadence ==
  ASSUME NEW a \in Int, NEW I \in Nat \ {0}, NEW q \in Int, a % I = 0
  PROVE  (a + q * I) % I = 0
<1>. DEFINE d == a \div I
<1>1. d \in Int /\ a = I * d
  BY Remainder
<1>. HIDE DEF d
<1>2. a + q * I = (d + q) * I
  BY <1>1
<1>3. d + q \in Int
  BY <1>1
<1>. QED  BY <1>2, <1>3, MultipleHasNone

\* calculateNextRunAt, for an occurrence that is due: whole intervals later, the first
\* of them after the tick.
LEMMA NextOccurrence ==
  ASSUME NEW s \in Schedule, Supported(s),
         NEW t \in Nat, NEW at \in Nat, t <= at
  PROVE  /\ Interval[s] \in Nat \ {0}
         /\ NextRunAt(s, t, at) \in Nat
         /\ \E q \in Nat \ {0} : NextRunAt(s, t, at) = t + q * Interval[s]
         /\ NextRunAt(s, t, at) > at
         /\ NextRunAt(s, t, at) - Interval[s] <= at
<1>. DEFINE I == Interval[s]
            d == (at - t) \div I
            m == (at - t) % I
<1>1. I \in Nat \ {0}
  BY IntervalAssumption DEF Supported
<1>2. d \in Int /\ m \in Int /\ at - t = I * d + m /\ 0 <= m /\ m < I
  <2>1. at - t \in Int
    OBVIOUS
  <2>. HIDE DEF I
  <2>. QED  BY <1>1, <2>1, Remainder
<1>3. NextRunAt(s, t, at) = t + AtLeastOne(d + 1) * I
  BY DEF NextRunAt
<1>. HIDE DEF I, d, m
<1>4. d >= 0
  <2>. SUFFICES ASSUME d <= -1 PROVE FALSE
    BY <1>2
  <2>1. I * d <= -I
    BY <1>1, <1>2
  <2>. QED  BY <1>1, <1>2, <2>1
<1>5. d + 1 \in Nat \ {0} /\ AtLeastOne(d + 1) = d + 1
  BY <1>2, <1>4 DEF AtLeastOne
<1>6. (d + 1) * I = I * d + I
  BY <1>1, <1>2
<1>7. NextRunAt(s, t, at) = t + (d + 1) * I
  BY <1>3, <1>5
<1>8. t + (d + 1) * I = at - m + I
  BY <1>1, <1>2, <1>6
<1>. QED  BY <1>1, <1>2, <1>5, <1>7, <1>8 DEF I

-----------------------------------------------------------------------------
LEMMA InitSchedInv == ASSUME SchedInit PROVE SchedInv
<1>. USE FirstRunAssumption, TimeAssumption DEF SchedInit, Polling, NothingRead
<1>1. SchedTypeOK
  BY DEF SchedTypeOK, Never
<1>2. ReadIsCurrent /\ OnCadence /\ TickInv
  BY DEF ReadIsCurrent, OnCadence, TickInv
<1>. QED  BY <1>1, <1>2 DEF SchedInv, OccurrencesKept

\* A worker that lets go of its rows, or holds none, says nothing of them.
LEMMA LetGoPreserves ==
  ASSUME SchedInv, NEW w \in Process,
         NEW phase \in {"polling", "connecting"}, NEW at \in 0..MaxTime,
         tick' = [tick EXCEPT ![w] = [phase |-> phase, at |-> at, read |-> NothingRead]],
         aborts' \in 0..MaxAborts, UNCHANGED <<now, enabled, nextRun, lastRun, runs>>
  PROVE  SchedInv'
<1>1. /\ DOMAIN tick' = Process
      /\ tick'[w] = [phase |-> phase, at |-> at, read |-> NothingRead]
      /\ \A v \in Process \ {w} : tick'[v] = tick[v]
  BY DEF SchedInv, OccurrencesKept, SchedTypeOK
<1>2. DOMAIN NothingRead = {}
  BY DEF NothingRead
<1>3. SchedTypeOK'
  BY <1>1, <1>2 DEF SchedInv, OccurrencesKept, SchedTypeOK
<1>4. ReadIsCurrent'
  BY <1>1, <1>2 DEF SchedInv, OccurrencesKept, ReadIsCurrent, Due
<1>5. OnCadence'
  BY DEF SchedInv, OccurrencesKept, OnCadence, Key, Supported
<1>6. TickInv'
  BY <1>1 DEF SchedInv, TickInv
<1>. QED  BY <1>3, <1>4, <1>5, <1>6 DEF SchedInv, OccurrencesKept

LEMMA StartPreserves ==
  ASSUME SchedInv, NEW w \in Process, Start(w)
  PROVE  SchedInv'
<1>1. /\ tick' = [tick EXCEPT ![w] = [phase |-> "connecting", at |-> now,
                                      read |-> NothingRead]]
      /\ UNCHANGED <<now, enabled, nextRun, lastRun, runs, aborts>>
  BY DEF Start, rows
<1>2. now \in 0..MaxTime /\ aborts' \in 0..MaxAborts
  BY <1>1 DEF SchedInv, OccurrencesKept, SchedTypeOK
<1>. QED  BY <1>1, <1>2, LetGoPreserves

LEMMA AbortPreserves ==
  ASSUME SchedInv, NEW w \in Process, Abort(w)
  PROVE  SchedInv'
<1>1. /\ tick' = [tick EXCEPT ![w] = [phase |-> "polling", at |-> 0,
                                      read |-> NothingRead]]
      /\ UNCHANGED <<now, enabled, nextRun, lastRun, runs>>
  BY DEF Abort, rows, Polling
<1>2. 0 \in 0..MaxTime /\ aborts' \in 0..MaxAborts
  BY TimeAssumption DEF Abort, SchedInv, OccurrencesKept, SchedTypeOK
<1>. QED  BY <1>1, <1>2, LetGoPreserves

\* The rows of a claim are due, nobody holds them, and they are read as they are.
LEMMA ScheduleClaimPreserves ==
  ASSUME SchedInv, NEW w \in Process, TakeDue(w)
  PROVE  SchedInv'
<1>. DEFINE R(S) == [s \in S |-> nextRun[s]]
<1>1. PICK S \in SUBSET Schedule :
        /\ \A s \in S : Due(s, tick[w].at) /\ Free(s)
        /\ tick' = [tick EXCEPT ![w].phase = "claimed", ![w].read = R(S)]
  BY DEF TakeDue, IsClaim, Restrict
<1>2. UNCHANGED <<now, enabled, nextRun, lastRun, runs, aborts>>
  BY DEF TakeDue, rows
<1>3. DOMAIN R(S) = S /\ \A s \in S : R(S)[s] = nextRun[s]
  OBVIOUS
<1>. HIDE DEF R
<1>4. /\ DOMAIN tick' = Process
      /\ tick'[w] = [phase |-> "claimed", at |-> tick[w].at, read |-> R(S)]
      /\ \A v \in Process \ {w} : tick'[v] = tick[v]
  <2>1. DOMAIN tick = Process
        /\ tick[w] = [phase |-> tick[w].phase, at |-> tick[w].at, read |-> tick[w].read]
    BY DEF SchedInv, TickInv, OccurrencesKept, SchedTypeOK
  <2>. QED  BY <1>1, <2>1
<1>5. SchedTypeOK'
  BY <1>2, <1>3, <1>4 DEF SchedInv, OccurrencesKept, SchedTypeOK
<1>6. ReadIsCurrent'
  <2>. SUFFICES ASSUME NEW u \in Process, NEW s \in DOMAIN tick'[u].read
                PROVE  /\ \A v \in Process \ {u} : s \notin DOMAIN tick'[v].read
                       /\ tick'[u].read[s] = nextRun[s]
                       /\ Due(s, tick'[u].at)
    BY <1>2 DEF ReadIsCurrent, Due
  <2>1. CASE u = w
    BY <1>1, <1>3, <1>4, <2>1 DEF Free
  <2>2. CASE u # w
    BY <1>1, <1>3, <1>4, <2>2
       DEF Free, SchedInv, OccurrencesKept, ReadIsCurrent
  <2>. QED  BY <2>1, <2>2
<1>7. OnCadence'
  BY <1>2 DEF SchedInv, OccurrencesKept, OnCadence, Key, Supported
<1>8. TickInv'
  BY <1>4 DEF SchedInv, TickInv
<1>. QED  BY <1>5, <1>6, <1>7, <1>8 DEF SchedInv, OccurrencesKept

\* What the commit of a tick does to the rows: those that fire go on to their next
\* occurrence, and no other row but one of the tick's changes.
LEMMA FireEffect ==
  ASSUME SchedInv, NEW w \in Process, Fire(w)
  PROVE  \E fires \in SUBSET DOMAIN tick[w].read :
           /\ \A s \in fires :
                /\ Supported(s) /\ Interval[s] \in Nat \ {0}
                /\ nextRun[s] \in Nat /\ lastRun'[s] = nextRun[s]
                /\ nextRun'[s] \in Nat /\ nextRun'[s] > nextRun[s]
                /\ \E q \in Nat \ {0} : nextRun'[s] = nextRun[s] + q * Interval[s]
                /\ nextRun'[s] > tick[w].at /\ nextRun'[s] - Interval[s] <= tick[w].at
           /\ \A s \in Schedule \ fires : lastRun'[s] = lastRun[s] /\ nextRun'[s] = nextRun[s]
           /\ \A s \in Schedule \ DOMAIN tick[w].read : enabled'[s] = enabled[s]
           /\ runs' = runs \cup {Key(s, nextRun[s]) : s \in fires}
<1>. DEFINE read  == tick[w].read
            kept  == IF Fails(read, tick[w].at) THEN {} ELSE DOMAIN read
            fires == {s \in kept : Supported(s)}
<1>1. /\ enabled' = [s \in Schedule |-> enabled[s] /\ s \notin kept \ fires]
      /\ runs' = runs \cup {Key(s, read[s]) : s \in fires}
      /\ lastRun' = [s \in Schedule |-> IF s \in fires THEN read[s] ELSE lastRun[s]]
      /\ nextRun' = [s \in Schedule |->
                       IF s \in fires THEN NextRunAt(s, read[s], tick[w].at)
                       ELSE nextRun[s]]
  BY DEF Fire
<1>2. /\ fires \subseteq kept /\ kept \subseteq DOMAIN read /\ DOMAIN read \subseteq Schedule
      /\ \A s \in fires : Supported(s)
  BY DEF SchedInv, OccurrencesKept, SchedTypeOK
<1>3. \A s \in DOMAIN read :
        /\ read[s] = nextRun[s] /\ nextRun[s] \in Nat
        /\ tick[w].at \in Nat /\ nextRun[s] <= tick[w].at
  BY <1>2, TimeAssumption DEF SchedInv, OccurrencesKept, SchedTypeOK,
              ReadIsCurrent, Due
<1>4. enabled \in [Schedule -> BOOLEAN]
  BY DEF SchedInv, OccurrencesKept, SchedTypeOK
<1>. HIDE DEF kept, fires
<1>5. \A s \in Schedule \ DOMAIN read : enabled'[s] = enabled[s]
  BY <1>1, <1>2, <1>4
<1>6. \A s \in fires :
        /\ Supported(s) /\ Interval[s] \in Nat \ {0}
        /\ nextRun[s] \in Nat /\ lastRun'[s] = nextRun[s]
        /\ nextRun'[s] \in Nat /\ nextRun'[s] > nextRun[s]
        /\ \E q \in Nat \ {0} : nextRun'[s] = nextRun[s] + q * Interval[s]
        /\ nextRun'[s] > tick[w].at /\ nextRun'[s] - Interval[s] <= tick[w].at
  <2>. SUFFICES ASSUME NEW s \in fires
                PROVE  /\ Supported(s) /\ Interval[s] \in Nat \ {0}
                       /\ nextRun[s] \in Nat /\ lastRun'[s] = nextRun[s]
                       /\ nextRun'[s] \in Nat /\ nextRun'[s] > nextRun[s]
                       /\ \E q \in Nat \ {0} : nextRun'[s] = nextRun[s] + q * Interval[s]
                       /\ nextRun'[s] > tick[w].at
                       /\ nextRun'[s] - Interval[s] <= tick[w].at
    OBVIOUS
  <2>. DEFINE t == nextRun[s]
              at == tick[w].at
  <2>1. /\ s \in Schedule /\ Supported(s) /\ t \in Nat /\ at \in Nat /\ t <= at
        /\ lastRun'[s] = t /\ nextRun'[s] = NextRunAt(s, t, at)
    BY <1>1, <1>2, <1>3
  <2>. HIDE DEF t, at
  <2>2. /\ Interval[s] \in Nat \ {0}
        /\ NextRunAt(s, t, at) \in Nat
        /\ \E q \in Nat \ {0} : NextRunAt(s, t, at) = t + q * Interval[s]
        /\ NextRunAt(s, t, at) > at
        /\ NextRunAt(s, t, at) - Interval[s] <= at
    BY <2>1, NextOccurrence
  <2>3. nextRun'[s] > t
    BY <2>1, <2>2
  <2>. QED  BY <2>1, <2>2, <2>3 DEF t, at
<1>7. \A s \in Schedule \ fires : lastRun'[s] = lastRun[s] /\ nextRun'[s] = nextRun[s]
  BY <1>1
<1>8. runs' = runs \cup {Key(s, nextRun[s]) : s \in fires}
  BY <1>1, <1>2, <1>3
<1>. QED  BY <1>2, <1>3, <1>5, <1>6, <1>7, <1>8

\* An occurrence that is fired is later than all that were, and the next one is later
\* than it and a number of whole intervals from each of them.
LEMMA FirePreserves ==
  ASSUME SchedInv, NEW w \in Process, Fire(w)
  PROVE  SchedInv'
<1>1. PICK fires \in SUBSET DOMAIN tick[w].read :
        /\ \A s \in fires :
             /\ Supported(s) /\ Interval[s] \in Nat \ {0}
             /\ nextRun[s] \in Nat /\ lastRun'[s] = nextRun[s]
             /\ nextRun'[s] \in Nat /\ nextRun'[s] > nextRun[s]
             /\ \E q \in Nat \ {0} : nextRun'[s] = nextRun[s] + q * Interval[s]
        /\ \A s \in Schedule \ fires : lastRun'[s] = lastRun[s] /\ nextRun'[s] = nextRun[s]
        /\ \A s \in Schedule \ DOMAIN tick[w].read : enabled'[s] = enabled[s]
        /\ runs' = runs \cup {Key(s, nextRun[s]) : s \in fires}
  BY FireEffect
<1>2. fires \subseteq Schedule
  BY DEF SchedInv, OccurrencesKept, SchedTypeOK
<1>3. /\ tick' = [tick EXCEPT ![w] = [phase |-> "polling", at |-> 0,
                                      read |-> NothingRead]]
      /\ UNCHANGED <<now, aborts>>
      /\ enabled' \in [Schedule -> BOOLEAN]
      /\ DOMAIN lastRun' = Schedule /\ lastRun' = [s \in Schedule |-> lastRun'[s]]
      /\ DOMAIN nextRun' = Schedule /\ nextRun' = [s \in Schedule |-> nextRun'[s]]
  BY DEF Fire, Polling, SchedInv, OccurrencesKept, SchedTypeOK
<1>4. /\ DOMAIN tick' = Process
      /\ tick'[w] = [phase |-> "polling", at |-> 0, read |-> NothingRead]
      /\ \A v \in Process \ {w} : tick'[v] = tick[v]
      /\ DOMAIN NothingRead = {}
  BY <1>3 DEF SchedInv, OccurrencesKept, SchedTypeOK, NothingRead
<1>5. SchedTypeOK'
  <2>1. nextRun' \in [Schedule -> Nat]
    <3>1. \A s \in Schedule : nextRun'[s] \in Nat
      BY <1>1 DEF SchedInv, OccurrencesKept, SchedTypeOK
    <3>. QED  BY <1>3, <3>1
  <2>2. lastRun' \in [Schedule -> Nat \cup {Never}]
    <3>1. \A s \in Schedule : lastRun'[s] \in Nat \cup {Never}
      BY <1>1 DEF SchedInv, OccurrencesKept, SchedTypeOK
    <3>. QED  BY <1>3, <3>1
  <2>3. runs' \subseteq [schedule : Schedule, time : Nat]
    BY <1>1, <1>2 DEF Key, SchedInv, OccurrencesKept, SchedTypeOK
  <2>4. \A v \in Process :
          /\ tick'[v].phase \in {"polling", "connecting", "claimed"}
          /\ tick'[v].at \in 0..MaxTime
          /\ DOMAIN tick'[v].read \subseteq Schedule
          /\ \A s \in DOMAIN tick'[v].read : tick'[v].read[s] \in Nat
    <3>. SUFFICES ASSUME NEW v \in Process
                  PROVE  /\ tick'[v].phase \in {"polling", "connecting", "claimed"}
                         /\ tick'[v].at \in 0..MaxTime
                         /\ DOMAIN tick'[v].read \subseteq Schedule
                         /\ \A s \in DOMAIN tick'[v].read : tick'[v].read[s] \in Nat
      OBVIOUS
    <3>1. CASE v = w
      BY <1>4, <3>1, TimeAssumption
    <3>2. CASE v # w
      BY <1>4, <3>2 DEF SchedInv, OccurrencesKept, SchedTypeOK
    <3>. QED  BY <3>1, <3>2
  <2>. QED  BY <1>3, <1>4, <2>1, <2>2, <2>3, <2>4
            DEF SchedInv, OccurrencesKept, SchedTypeOK, Never
<1>6. ReadIsCurrent'
  <2>. SUFFICES ASSUME NEW u \in Process, NEW s \in DOMAIN tick'[u].read
                PROVE  /\ \A v \in Process \ {u} : s \notin DOMAIN tick'[v].read
                       /\ tick'[u].read[s] = nextRun'[s]
                       /\ enabled'[s] /\ nextRun'[s] <= tick'[u].at
    BY DEF ReadIsCurrent, Due
  <2>1. u # w /\ tick'[u] = tick[u] /\ s \in Schedule \ DOMAIN tick[w].read
    BY <1>4 DEF SchedInv, OccurrencesKept, SchedTypeOK, ReadIsCurrent
  <2>2. nextRun'[s] = nextRun[s] /\ enabled'[s] = enabled[s]
    BY <1>1, <2>1
  <2>. QED  BY <1>4, <2>1, <2>2
            DEF SchedInv, OccurrencesKept, ReadIsCurrent, Due
<1>7. OnCadence'
  <2>. SUFFICES ASSUME NEW s \in Schedule
                PROVE  /\ lastRun'[s] # Never => Key(s, lastRun'[s]) \in runs'
                       /\ \A r \in runs' : r.schedule = s =>
                            /\ Supported(s)
                            /\ r.time <= lastRun'[s]
                            /\ r.time < nextRun'[s]
                            /\ (nextRun'[s] - r.time) % Interval[s] = 0
    BY DEF OnCadence, Never, Key, Supported
  <2>1. CASE s \notin fires
    <3>1. lastRun'[s] = lastRun[s] /\ nextRun'[s] = nextRun[s]
      BY <1>1, <2>1
    <3>2. \A r \in runs' : r.schedule = s => r \in runs
      BY <1>1, <2>1 DEF Key
    <3>. QED  BY <1>1, <3>1, <3>2 DEF SchedInv, OccurrencesKept, OnCadence
  <2>2. CASE s \in fires
    <3>. DEFINE I == Interval[s]
                n == nextRun[s]
    <3>1. PICK q \in Nat \ {0} : nextRun'[s] = n + q * I
      BY <1>1, <2>2
    <3>2. /\ I \in Nat \ {0} /\ n \in Nat /\ n < nextRun'[s] /\ lastRun'[s] = n
          /\ nextRun'[s] \in Nat /\ Supported(s) /\ Key(s, n) \in runs'
      BY <1>1, <2>2
    <3>3. ASSUME NEW r \in runs', r.schedule = s
          PROVE  r.time \in Nat /\ r.time <= n /\ (n - r.time) % I = 0
      <4>1. CASE r \in runs
        BY <4>1, <3>3, <3>2 DEF SchedInv, OccurrencesKept, SchedTypeOK, OnCadence
      <4>2. CASE r \notin runs
        <5>1. r.time = n
          BY <1>1, <3>3, <4>2 DEF Key
        <5>2. (0 * I) % I = 0 /\ 0 * I = n - r.time
          BY <3>2, <5>1, MultipleHasNone
        <5>. QED  BY <3>2, <5>1, <5>2
      <4>. QED  BY <4>1, <4>2
    <3>. HIDE DEF I, n
    <3>4. ASSUME NEW r \in runs', r.schedule = s
          PROVE  (nextRun'[s] - r.time) % I = 0
      <4>1. r.time \in Nat /\ (n - r.time) % I = 0 /\ n - r.time \in Int /\ q \in Int
        BY <3>2, <3>3, <3>4
      <4>2. ((n - r.time) + q * I) % I = 0
        BY <3>2, <4>1, OnTheCadence
      <4>3. (n - r.time) + q * I = nextRun'[s] - r.time
        BY <3>1, <3>2, <4>1
      <4>. QED  BY <4>2, <4>3
    <3>5. \A r \in runs' : r.schedule = s =>
            r.time <= lastRun'[s] /\ r.time < nextRun'[s]
            /\ (nextRun'[s] - r.time) % I = 0
      BY <3>2, <3>3, <3>4
    <3>. QED  BY <3>2, <3>5 DEF I
  <2>. QED  BY <2>1, <2>2
<1>8. TickInv'
  BY <1>4 DEF SchedInv, TickInv
<1>. QED  BY <1>5, <1>6, <1>7, <1>8 DEF SchedInv, OccurrencesKept

LEMMA NextSchedInv ==
  ASSUME SchedInv, [SchedNext]_schedVars
  PROVE  SchedInv'
<1>1. CASE UNCHANGED schedVars
  BY <1>1 DEF schedVars, SchedInv, TickInv, OccurrencesKept, SchedTypeOK,
              ReadIsCurrent, OnCadence, Due, Key, Supported,
              Never
<1>2. CASE Tick
  BY <1>2, TimeAssumption DEF Tick, rows, SchedInv, TickInv,
              OccurrencesKept, SchedTypeOK, ReadIsCurrent, OnCadence,
              Due, Key, Supported, Never
<1>. QED  BY <1>1, <1>2, StartPreserves, ScheduleClaimPreserves, FirePreserves, AbortPreserves
          DEF SchedNext

LEMMA SpecSchedInv == SchedSpec => []SchedInv
<1>1. SchedInit => SchedInv
  BY InitSchedInv
<1>2. SchedInv /\ [SchedNext]_schedVars => SchedInv'
  BY NextSchedInv
<1>. QED  BY <1>1, <1>2, PTL DEF SchedSpec

\* Every run is an occurrence of its own, on the cadence of its schedule, and a tick
\* moves the rows it read and holds (scheduler.ts, runSchedulerTick).
THEOREM OccurrencesAreKept ==
  SchedSpec => []OccurrencesKept
<1>1. SchedInv => OccurrencesKept
  BY DEF SchedInv
<1>. QED  BY <1>1, SpecSchedInv, PTL

\* A schedule moves with the run it moves from, to the first occurrence after the tick.
THEOREM SchedulesMoveOn ==
  SchedSpec => MovesPastTheTick
<1>. DEFINE Moves ==
       \A s \in Schedule : nextRun'[s] # nextRun[s] =>
         /\ Key(s, nextRun[s]) \in runs' \ runs
         /\ nextRun'[s] > nextRun[s]
         /\ \E w \in Process : /\ nextRun'[s] > tick[w].at
                              /\ nextRun'[s] - Interval[s] <= tick[w].at
<1>1. SchedInv /\ [SchedNext]_schedVars => [Moves]_schedVars
  <2>. SUFFICES ASSUME SchedInv, SchedNext PROVE Moves
    OBVIOUS
  <2>1. ASSUME NEW w \in Process, Fire(w) PROVE Moves
    <3>. SUFFICES ASSUME NEW s \in Schedule, nextRun'[s] # nextRun[s]
                  PROVE  /\ Key(s, nextRun[s]) \in runs' \ runs
                         /\ nextRun'[s] > nextRun[s]
                         /\ nextRun'[s] > tick[w].at
                         /\ nextRun'[s] - Interval[s] <= tick[w].at
      OBVIOUS
    <3>1. /\ nextRun[s] \in Nat /\ nextRun'[s] > nextRun[s]
          /\ nextRun'[s] > tick[w].at /\ nextRun'[s] - Interval[s] <= tick[w].at
          /\ Key(s, nextRun[s]) \in runs'
      BY <2>1, FireEffect
    <3>2. Key(s, nextRun[s]) \notin runs
      <4>1. \A r \in runs : r.schedule = s => r.time < nextRun[s]
        BY DEF SchedInv, OccurrencesKept, OnCadence
      <4>. QED  BY <3>1, <4>1 DEF Key
    <3>. QED  BY <3>1, <3>2
  <2>2. CASE ~ \E w \in Process : Fire(w)
    <3>1. UNCHANGED nextRun
      BY <2>2 DEF SchedNext, Tick, Start, TakeDue, Abort, rows
    <3>. QED  BY <3>1
  <2>. QED  BY <2>1, <2>2
<1>. QED  BY <1>1, SpecSchedInv, PTL DEF SchedSpec, MovesPastTheTick
=============================================================================
