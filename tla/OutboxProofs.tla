---------------------------- MODULE OutboxProofs ----------------------------
(***************************************************************************)
(* No message is lost, and none is repeated without a fault, for any sets   *)
(* of dispatchers and messages, any limits and any number of faults.        *)
(*                                                                         *)
(* A dispatcher writes the outcome of a message by its id, from the attempts *)
(* it read when it claimed it.  What is lost cannot depend on who has the   *)
(* message, since two dispatchers may: CountsInv bounds what anybody may     *)
(* write by what was pushed and received.  For a message whose lease was     *)
(* never outlasted, HandInv says that the one dispatcher who has it read     *)
(* what the row still says, and RepeatInv that every push but the recorded   *)
(* ones and the one under way had a fault.                                  *)
(***************************************************************************)
EXTENDS Outbox, TLAPS

Open == {"Pending", "Retry", "Processing"}

\* A dispatcher has pushed message m, and has yet to record how that went.
Unrecorded(d, m) == pc[d] \in {"pushed", "failing"} /\ current[d] = m

StepInv ==
  \A d \in Dispatcher :
    /\ pc[d] \in {"pushed", "failing"} => current[d] \in DOMAIN batch[d]
    /\ pc[d] = "polling" => DOMAIN batch[d] = {}

\* Only open messages are in line, and one that is not recorded yet has no attempts.
LineInv ==
  /\ \A m \in line : status[m] \in Open
  /\ \A m \in Message : status[m] = "Absent" => attempts[m] = 0

CountsInv ==
  /\ \A m \in Message : attempts[m] <= pushes[m]
  /\ \A d \in Dispatcher : \A m \in DOMAIN batch[d] :
       /\ batch[d][m] < MaxAttempts
       /\ batch[d][m] <= pushes[m]
       /\ Unrecorded(d, m) => batch[d][m] < pushes[m]
  /\ \A d \in Dispatcher : pc[d] = "pushed" => received[current[d]] > 0

\* Who has a message that was never outlasted has it alone, and read what still holds.
HandInv ==
  \A m \in Message \ outlasted : \A d \in Dispatcher :
    m \in DOMAIN batch[d] =>
      /\ status[m] = "Processing" /\ m \notin line
      /\ batch[d][m] = attempts[m]
      /\ \A e \in Dispatcher : m \in DOMAIN batch[e] => e = d

RepeatInv ==
  \A m \in Message \ outlasted :
    /\ pushes[m] <= attempts[m] + faults + 1
    /\ received[m] <= 1 + faults
    /\ (\A d \in Dispatcher : ~Unrecorded(d, m)) => pushes[m] <= attempts[m] + faults
    /\ status[m] # "Sent" /\ (\A d \in Dispatcher : ~(pc[d] = "pushed" /\ current[d] = m))
         => received[m] <= faults

IInv == NeverLost /\ StepInv /\ LineInv /\ CountsInv /\ HandInv /\ RepeatInv

-----------------------------------------------------------------------------
LEMMA InitIInv == Init => IInv
<1>. SUFFICES ASSUME Init PROVE IInv
  OBVIOUS
<1>. USE CountsAssumption DEF Init, NoBatch
<1>1. NeverLost
  BY DEF NeverLost, TypeOK, Status, Step
<1>2. StepInv /\ LineInv /\ CountsInv
  BY DEF StepInv, LineInv, CountsInv, Unrecorded
<1>3. HandInv /\ RepeatInv
  BY DEF HandInv, RepeatInv, Unrecorded
<1>. QED  BY <1>1, <1>2, <1>3 DEF IInv

\* A message is recorded: nobody has it yet.
LEMMA InsertPreserves ==
  ASSUME IInv, NEW m \in Message, Insert(m)
  PROVE  IInv'
<1>. USE CountsAssumption DEF IInv, NeverLost, TypeOK, Insert, Join
<1>1. NeverLost'
  BY DEF Status, LineInv
<1>2. StepInv' /\ CountsInv'
  BY DEF StepInv, CountsInv, Unrecorded
<1>3. LineInv'
  BY DEF LineInv, Open
<1>4. HandInv'
  BY DEF HandInv
<1>5. RepeatInv'
  BY DEF RepeatInv, Unrecorded
<1>. QED  BY <1>1, <1>2, <1>3, <1>4, <1>5

\* A claim reads the attempts of rows in line, which nobody has in hand.
LEMMA ClaimPreserves ==
  ASSUME IInv, NEW d \in Dispatcher, Claim(d)
  PROVE  IInv'
<1>. PICK rows \in SUBSET Visible :
       /\ pc[d] = "polling"
       /\ status' = [m \in Message |-> IF m \in rows THEN "Processing" ELSE status[m]]
       /\ Leave(rows)
       /\ batch' = [batch EXCEPT ![d] = [m \in rows |-> attempts[m]]]
       /\ Goto(d, "next")
       /\ UNCHANGED <<attempts, current, pushes, received, outlasted, faults>>
  BY DEF Claim
<1>. USE CountsAssumption DEF IInv, NeverLost, TypeOK, Goto, Leave
<1>0. rows \subseteq Message /\ rows \subseteq line /\ \A m \in rows : attempts[m] < MaxAttempts
  BY DEF Visible
<1>1. TypeOK'
  BY <1>0 DEF Status, Step
<1>2. NeverLost'
  BY <1>0, <1>1 DEF Status
<1>3. StepInv'
  BY <1>0 DEF StepInv
<1>4. LineInv'
  BY <1>0 DEF LineInv, Open
<1>5. CountsInv'
  BY <1>0 DEF CountsInv, Unrecorded
<1>6. HandInv'
  BY <1>0 DEF HandInv, StepInv
<1>7. RepeatInv'
  BY <1>0 DEF RepeatInv, Unrecorded, LineInv, Open
<1>. QED  BY <1>2, <1>3, <1>4, <1>5, <1>6, <1>7

LEMMA PushPreserves ==
  ASSUME IInv, NEW d \in Dispatcher, Push(d)
  PROVE  IInv'
<1>. PICK m \in DOMAIN batch[d], got \in BOOLEAN, ok \in BOOLEAN :
       /\ pc[d] = "next"
       /\ ok => got
       /\ IF got /\ ~ok THEN Fault ELSE UNCHANGED faults
       /\ current' = [current EXCEPT ![d] = m]
       /\ Goto(d, IF ok THEN "pushed" ELSE "failing")
       /\ pushes' = [pushes EXCEPT ![m] = @ + 1]
       /\ received' = IF got THEN [received EXCEPT ![m] = @ + 1] ELSE received
       /\ UNCHANGED <<rowVars, batch, outlasted>>
  BY DEF Push
<1>. USE CountsAssumption DEF IInv, NeverLost, TypeOK, Goto, Fault, rowVars
<1>0. m \in Message /\ batch[d][m] \in Nat /\ faults' \in 0..MaxFaults /\ faults <= faults'
      /\ (got /\ ~ok => faults' = faults + 1)
  OBVIOUS
<1>1. TypeOK'
  BY <1>0 DEF Status, Step
<1>2. NeverLost'
  BY <1>0, <1>1 DEF Status
<1>3. StepInv' /\ LineInv'
  BY <1>0 DEF StepInv, LineInv
<1>4. CountsInv'
  BY <1>0 DEF CountsInv, Unrecorded, StepInv
<1>5. HandInv'
  BY <1>0 DEF HandInv
<1>6. ASSUME NEW n \in Message \ outlasted', n # m
      PROVE  /\ (\A e \in Dispatcher : ~Unrecorded(e, n)') => \A e \in Dispatcher : ~Unrecorded(e, n)
             /\ (\A e \in Dispatcher : ~(pc[e] = "pushed" /\ current[e] = n)')
                  => \A e \in Dispatcher : ~(pc[e] = "pushed" /\ current[e] = n)
             /\ pushes'[n] = pushes[n] /\ received'[n] = received[n]
  BY <1>0, <1>6 DEF Unrecorded
<1>7. ASSUME m \notin outlasted
      PROVE  \A e \in Dispatcher : ~Unrecorded(e, m)
  BY <1>0, <1>7 DEF Unrecorded, StepInv, HandInv
<1>8. ASSUME m \notin outlasted
      PROVE  /\ Unrecorded(d, m)'
             /\ ok => (pc[d] = "pushed" /\ current[d] = m)'
             /\ pushes'[m] = pushes[m] + 1 /\ pushes[m] <= attempts[m] + faults
             /\ received[m] <= faults /\ received'[m] = IF got THEN received[m] + 1 ELSE received[m]
  BY <1>0, <1>7, <1>8 DEF Unrecorded, RepeatInv, HandInv
<1>9. RepeatInv'
  BY <1>0, <1>6, <1>8 DEF RepeatInv
<1>. QED  BY <1>2, <1>3, <1>4, <1>5, <1>9

\* What a dispatcher does when it is done with its current message.
LEMMA FinishKeepsBatches ==
  ASSUME TypeOK, NEW d \in Dispatcher, current[d] \in DOMAIN batch[d], FinishMessage(d)
  PROVE  /\ pc' \in [Dispatcher -> Step]
         /\ current' \in [Dispatcher -> Message \cup {NoMessage}]
         /\ DOMAIN batch' = Dispatcher
         /\ \A e \in Dispatcher :
              /\ DOMAIN batch'[e] = DOMAIN batch[e] \ (IF e = d THEN {current[d]} ELSE {})
              /\ \A m \in DOMAIN batch'[e] : batch'[e][m] = batch[e][m]
              /\ batch'[e] \in [DOMAIN batch'[e] -> Nat]
              /\ pc'[e] = "polling" => pc[e] = "polling" \/ DOMAIN batch'[e] = {}
              /\ e # d => pc'[e] = pc[e] /\ current'[e] = current[e]
         /\ pc'[d] \in {"polling", "next"}
  BY DEF TypeOK, FinishMessage, Goto, Without, Step

\* The outcome is written by the id of the message; for one that was never outlasted
\* the attempts go up by one, and nobody has it any more.
LEMMA RecordPreserves ==
  ASSUME IInv, NEW d \in Dispatcher, pc[d] \in {"pushed", "failing"},
         NEW new \in {"Sent", "Retry", "Failed"},
         new = "Sent" <=> pc[d] = "pushed",
         new # "Sent" => (new = "Failed" <=> Exhausted(batch[d][current[d]] + 1)),
         Update(current[d], new, batch[d][current[d]] + 1), FinishMessage(d),
         UNCHANGED <<pushes, received, outlasted, faults>>
  PROVE  IInv'
<1>. DEFINE m == current[d]
<1>1. m \in DOMAIN batch[d] /\ m \in Message /\ batch[d][m] \in Nat
      /\ (new = "Sent" => received[m] > 0)
      /\ (new = "Retry" => batch[d][m] + 1 < MaxAttempts)
      /\ (new = "Failed" => batch[d][m] + 1 >= MaxAttempts)
  BY CountsAssumption DEF IInv, NeverLost, TypeOK, StepInv, CountsInv, Exhausted
<1>2. /\ status' = [status EXCEPT ![m] = new]
      /\ attempts' = [attempts EXCEPT ![m] = batch[d][m] + 1]
      /\ Leave({m})
      /\ FinishMessage(d)
      /\ UNCHANGED <<pushes, received, outlasted, faults>>
  BY DEF Update
<1>3. Unrecorded(d, m) /\ batch[d][m] < MaxAttempts /\ batch[d][m] < pushes[m]
  BY <1>1 DEF Unrecorded, IInv, CountsInv
<1>. HIDE DEF m
<1>. USE CountsAssumption DEF IInv, NeverLost, TypeOK, Leave
<1>4. TypeOK'
  BY <1>1, <1>2, <1>3, FinishKeepsBatches DEF Status, m
<1>5. NeverLost'
  BY <1>1, <1>2, <1>3, <1>4
<1>6. StepInv' /\ LineInv'
  BY <1>1, <1>2, FinishKeepsBatches DEF StepInv, LineInv, Open, m
<1>7. CountsInv'
  <2>1. \A n \in Message : attempts'[n] <= pushes[n]
    BY <1>1, <1>2, <1>3 DEF CountsInv
  <2>2. ASSUME NEW e \in Dispatcher, NEW n \in DOMAIN batch'[e]
        PROVE  /\ n \in DOMAIN batch[e] /\ batch'[e][n] = batch[e][n]
               /\ Unrecorded(e, n)' => Unrecorded(e, n)
               /\ pc'[e] = "pushed" => pc[e] = "pushed" /\ current'[e] = current[e]
    BY <1>1, <1>2, FinishKeepsBatches DEF Unrecorded, m
  <2>3. ASSUME NEW e \in Dispatcher, pc'[e] = "pushed"
        PROVE  pc[e] = "pushed" /\ current'[e] = current[e]
    BY <1>1, <1>2, <2>3, FinishKeepsBatches DEF m
  <2>. QED  BY <1>2, <2>1, <2>2, <2>3 DEF CountsInv
<1>8. HandInv'
  BY <1>1, <1>2, FinishKeepsBatches DEF HandInv, m
<1>9. RepeatInv'
  <2>1. ASSUME NEW n \in Message \ outlasted', n # m
        PROVE  /\ (\A e \in Dispatcher : ~Unrecorded(e, n)') => \A e \in Dispatcher : ~Unrecorded(e, n)
               /\ (\A e \in Dispatcher : ~(pc[e] = "pushed" /\ current[e] = n)')
                    => \A e \in Dispatcher : ~(pc[e] = "pushed" /\ current[e] = n)
               /\ attempts'[n] = attempts[n] /\ status'[n] = status[n]
    BY <1>1, <1>2, <2>1, FinishKeepsBatches DEF Unrecorded, m
  <2>2. ASSUME m \notin outlasted
        PROVE  /\ attempts'[m] = attempts[m] + 1
               /\ status[m] # "Sent" /\ \A e \in Dispatcher : e # d => m \notin DOMAIN batch[e]
    BY <1>1, <1>2, <2>2 DEF HandInv
  <2>3. ASSUME m \notin outlasted, new # "Sent", pc[d] = "failing"
        PROVE  \A e \in Dispatcher : ~(pc[e] = "pushed" /\ current[e] = m)
    BY <2>2, <2>3 DEF StepInv
  <2>. QED  BY <1>1, <1>2, <2>1, <2>2, <2>3 DEF RepeatInv
<1>. QED  BY <1>5, <1>6, <1>7, <1>8, <1>9

LEMMA MarkSentPreserves ==
  ASSUME IInv, NEW d \in Dispatcher, MarkSent(d)
  PROVE  IInv'
BY RecordPreserves DEF MarkSent

LEMMA MarkFailurePreserves ==
  ASSUME IInv, NEW d \in Dispatcher, MarkFailure(d)
  PROVE  IInv'
<1>1. CASE Exhausted(batch[d][current[d]] + 1)
  BY <1>1, RecordPreserves DEF MarkFailure
<1>2. CASE ~Exhausted(batch[d][current[d]] + 1)
  BY <1>2, RecordPreserves DEF MarkFailure
<1>. QED  BY <1>1, <1>2

LEMMA MarkSentFailsPreserves ==
  ASSUME IInv, NEW d \in Dispatcher, MarkSentFails(d)
  PROVE  IInv'
<1>. USE CountsAssumption DEF IInv, NeverLost, TypeOK, MarkSentFails, Fault, Goto, rowVars
<1>1. NeverLost'
  BY DEF Step
<1>2. StepInv' /\ LineInv' /\ HandInv'
  BY DEF StepInv, LineInv, HandInv
<1>3. CountsInv'
  BY DEF CountsInv, Unrecorded
<1>4. \A e \in Dispatcher, m \in Message : Unrecorded(e, m)' = Unrecorded(e, m)
  BY DEF Unrecorded
<1>5. RepeatInv'
  BY <1>4 DEF RepeatInv
<1>. QED  BY <1>1, <1>2, <1>3, <1>5

\* The write of the outcome fails, or the dispatcher dies: the batch is forgotten, and
\* the fault stands for the push that is not recorded.
LEMMA AbandonPreserves ==
  ASSUME IInv, NEW d \in Dispatcher, Abandon(d),
         UNCHANGED <<rowVars, pushes, received, outlasted>>
  PROVE  IInv'
<1>. USE CountsAssumption DEF IInv, NeverLost, TypeOK, Abandon, Fault, Goto, NoBatch, rowVars
<1>1. NeverLost'
  BY DEF Step
<1>2. StepInv' /\ LineInv' /\ HandInv'
  BY DEF StepInv, LineInv, HandInv
<1>3. CountsInv'
  BY DEF CountsInv, Unrecorded
<1>4. RepeatInv'
  BY DEF RepeatInv
<1>. QED  BY <1>1, <1>2, <1>3, <1>4

\* Rows that come into sight.
LEMMA BackoffEndsPreserves ==
  ASSUME IInv, NEW m \in Message, BackoffEnds(m)
  PROVE  IInv'
<1>. USE CountsAssumption DEF IInv, NeverLost, TypeOK, BackoffEnds, JoinLast
<1>1. NeverLost'
  OBVIOUS
<1>2. StepInv' /\ LineInv' /\ CountsInv'
  BY DEF StepInv, LineInv, CountsInv, Unrecorded, Open
<1>3. HandInv' /\ RepeatInv'
  BY DEF HandInv, RepeatInv, Unrecorded
<1>. QED  BY <1>1, <1>2, <1>3

LEMMA LeaseEndsPreserves ==
  ASSUME IInv, NEW m \in Message, LeaseEnds(m)
  PROVE  IInv'
<1>. USE CountsAssumption DEF IInv, NeverLost, TypeOK, LeaseEnds, Join
<1>1. NeverLost'
  OBVIOUS
<1>2. StepInv' /\ LineInv' /\ CountsInv'
  BY DEF StepInv, LineInv, CountsInv, Unrecorded, Open
<1>3. HandInv' /\ RepeatInv'
  BY DEF HandInv, RepeatInv, Unrecorded
<1>. QED  BY <1>1, <1>2, <1>3

LEMMA LeaseOutlastedPreserves ==
  ASSUME IInv, NEW m \in Message, LeaseOutlasted(m)
  PROVE  IInv'
<1>. USE CountsAssumption DEF IInv, NeverLost, TypeOK, LeaseOutlasted, Join, Fault
<1>1. NeverLost'
  OBVIOUS
<1>2. StepInv' /\ LineInv' /\ CountsInv'
  BY DEF StepInv, LineInv, CountsInv, Unrecorded, Open
<1>3. HandInv' /\ RepeatInv'
  BY DEF HandInv, RepeatInv, Unrecorded
<1>. QED  BY <1>1, <1>2, <1>3

LEMMA NextPreserves == IInv /\ [Next]_vars => IInv'
<1>. SUFFICES ASSUME IInv, [Next]_vars PROVE IInv'
  OBVIOUS
<1>1. ASSUME NEW m \in Message, Insert(m) \/ BackoffEnds(m) \/ LeaseEnds(m) \/ LeaseOutlasted(m)
      PROVE  IInv'
  BY <1>1, InsertPreserves, BackoffEndsPreserves, LeaseEndsPreserves, LeaseOutlastedPreserves
<1>2. ASSUME NEW d \in Dispatcher, Dispatch(d)
      PROVE  IInv'
  BY <1>2, ClaimPreserves, PushPreserves, MarkSentPreserves, MarkFailurePreserves DEF Dispatch
<1>3. ASSUME NEW d \in Dispatcher, MarkSentFails(d)
      PROVE  IInv'
  BY <1>3, MarkSentFailsPreserves
<1>4. ASSUME NEW d \in Dispatcher, MarkFailureFails(d) \/ Crash(d)
      PROVE  IInv'
  BY <1>4, AbandonPreserves DEF MarkFailureFails, Crash
<1>5. CASE UNCHANGED vars
  BY <1>5 DEF vars, rowVars, IInv, NeverLost, TypeOK, StepInv, LineInv, CountsInv, HandInv,
              RepeatInv, Unrecorded
<1>. QED  BY <1>1, <1>2, <1>3, <1>4, <1>5 DEF Next

LEMMA Invariance == Spec => []IInv
<1>. QED  BY InitIInv, NextPreserves, PTL DEF Spec

-----------------------------------------------------------------------------
\* A message that is recorded is never lost, whatever fails and whoever else has it:
\* claimOutboxRows can still see it, or it was received, or pushed as often as allowed.
THEOREM NoMessageLost == Spec => []NeverLost
<1>1. IInv => NeverLost
  BY DEF IInv
<1>. QED  BY Invariance, <1>1, PTL

\* While batches keep within their lease no two dispatchers have a message, and every
\* push and every receipt too many has a fault of its own behind it.
THEOREM EveryRepeatAccounted == Spec => []RepeatsAccounted
<1>1. ASSUME IInv PROVE RepeatsAccounted
  <2>. USE CountsAssumption DEF IInv, NeverLost, TypeOK
  <2>1. \A d, e \in Dispatcher : d # e => DOMAIN batch[d] \cap DOMAIN batch[e] \subseteq outlasted
    BY <1>1 DEF HandInv
  <2>2. ASSUME NEW m \in Message \ outlasted
        PROVE  pushes[m] <= MaxAttempts + faults
    <3>1. CASE \E d \in Dispatcher : Unrecorded(d, m)
      <4>. PICK d \in Dispatcher : Unrecorded(d, m)
        BY <3>1
      <4>1. m \in DOMAIN batch[d] /\ batch[d][m] < MaxAttempts /\ batch[d][m] = attempts[m]
        BY <1>1 DEF Unrecorded, StepInv, CountsInv, HandInv
      <4>. QED  BY <1>1, <4>1 DEF RepeatInv
    <3>2. CASE \A d \in Dispatcher : ~Unrecorded(d, m)
      BY <1>1, <3>2 DEF RepeatInv
    <3>. QED  BY <3>1, <3>2
  <2>. QED  BY <1>1, <2>1, <2>2 DEF RepeatsAccounted, RepeatInv
<1>. QED  BY Invariance, <1>1, PTL

\* A message that is Sent or Failed is not written again, although dispatchOutboxRow
\* writes by id: unless a lease was outlasted, nobody has it in hand.
THEOREM OutcomesAreFinal == Spec => OutcomeIsFinal
<1>. DEFINE Ended(m) == status[m] \in {"Sent", "Failed"}
            Final == \A m \in Message \ outlasted : Ended(m) => status'[m] = status[m]
<1>1. ASSUME IInv, [Next]_vars PROVE Final
  <2>. SUFFICES ASSUME NEW m \in Message \ outlasted, Ended(m) PROVE status'[m] = status[m]
    OBVIOUS
  <2>. USE <1>1 DEF IInv, NeverLost, TypeOK
  <2>1. m \notin line /\ \A d \in Dispatcher : m \notin DOMAIN batch[d]
    BY DEF LineInv, Open, HandInv
  <2>2. ASSUME NEW d \in Dispatcher, MarkSent(d) \/ MarkFailure(d)
        PROVE  current[d] # m /\ status'[m] = status[m]
    BY <2>1, <2>2 DEF MarkSent, MarkFailure, Update, StepInv
  <2>3. ASSUME NEW d \in Dispatcher, Claim(d)
        PROVE  status'[m] = status[m]
    BY <2>1, <2>3 DEF Claim, Visible
  <2>4. ASSUME NEW n \in Message, Insert(n)
        PROVE  status'[m] = status[m]
    BY <2>4 DEF Insert
  <2>5. ASSUME UNCHANGED status
        PROVE  status'[m] = status[m]
    BY <2>5
  <2>6. ASSUME NEW n \in Message, BackoffEnds(n) \/ LeaseEnds(n) \/ LeaseOutlasted(n)
        PROVE  UNCHANGED status
    BY <2>6 DEF BackoffEnds, LeaseEnds, LeaseOutlasted
  <2>7. ASSUME NEW d \in Dispatcher, Push(d) \/ MarkSentFails(d) \/ MarkFailureFails(d) \/ Crash(d)
        PROVE  UNCHANGED status
    BY <2>7 DEF Push, MarkSentFails, MarkFailureFails, Crash, rowVars
  <2>. QED  BY <2>2, <2>3, <2>4, <2>5, <2>6, <2>7 DEF Next, Dispatch, vars, rowVars
<1>2. IInv /\ [Next]_vars => [Final]_vars
  BY <1>1
<1>. QED  BY Invariance, <1>2, PTL DEF Spec, OutcomeIsFinal
=============================================================================
