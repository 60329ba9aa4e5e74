------------------------------- MODULE Outbox -------------------------------
(***************************************************************************)
(* The transactional outbox (migrations/015_async_message_outbox.sql) and   *)
(* the dispatchers that deliver its messages                                *)
(* (server/src/asyncMessageWorker.ts): the standing worker, and the job     *)
(* handler that runs the same claim and the same dispatch.                  *)
(*                                                                         *)
(* A dispatcher claims a batch in one transaction, which gives it a lease   *)
(* on each message, and then, message by message, pushes and records the    *)
(* outcome.  A push can be received although it looks failed (a timeout), a *)
(* write can fail, a dispatcher can die at every step, and a message whose  *)
(* lease runs out is claimed again.  Each message is independent of what it *)
(* says, so messages are numbered in the order they were recorded.          *)
(***************************************************************************)
EXTENDS Naturals, FiniteSets

CONSTANTS
  Dispatcher,   \* dispatcher processes, workers running the delivery job included
  NoMessage,    \* what an idle dispatcher is working on
  Messages,     \* bound: how many messages are recorded
  MaxAttempts,  \* async_message_outbox.max_attempts
  BatchSize,    \* ASYNC_PUSH_BATCH_SIZE
  MaxFaults     \* bound: crashes, failed writes, lost acknowledgements and batches
                \* that outlast ASYNC_PUSH_CLAIM_LEASE_SECONDS

Message == 1..Messages

ASSUME NoMessageAssumption == NoMessage \notin Message
ASSUME CountsAssumption ==
  /\ Messages \in Nat /\ MaxFaults \in Nat
  /\ MaxAttempts \in Nat \ {0} /\ BatchSize \in Nat \ {0}

VARIABLES
  status,     \* async_message_outbox.status, "Absent" before the row is inserted
  attempts,   \* async_message_outbox.attempts
  line,       \* the rows a claim may see: Pending and Retry ones that have come
              \* due, Processing ones whose lease ran out
  ahead,      \* the order of next_attempt_at of those rows
  batch,      \* the messages a dispatcher has in hand, with the attempts it read
  pc,         \* where a dispatcher is with its current message
  current,    \* that message
  pushes,     \* how often each message was pushed
  received,   \* how often the receiver got it
  outlasted,  \* messages whose lease ran out while a live dispatcher had them
  faults

rowVars == <<status, attempts, line, ahead>>
vars == <<rowVars, batch, pc, current, pushes, received, outlasted, faults>>

Status == {"Absent", "Pending", "Processing", "Retry", "Sent", "Failed"}
Step   == {"polling", "next", "pushed", "failing"}

NoBatch == [m \in {} |-> 0]
Without(b, m) == [n \in DOMAIN b \ {m} |-> b[n]]

-----------------------------------------------------------------------------
\* Mutant: a claim ignores the lease.
Visible_LeaseIgnored ==
  {m \in Message : (m \in line \/ status[m] = "Processing") /\ attempts[m] < MaxAttempts}

\* Mutant: a claim looks for Pending and Retry rows only.
Visible_NoTakeover ==
  {m \in line : status[m] # "Processing" /\ attempts[m] < MaxAttempts}

\* The candidates of claimOutboxRows.
Visible == {m \in line : attempts[m] < MaxAttempts}

\* ORDER BY next_attempt_at LIMIT: as many of them as a batch holds, the first ones.
IsBatch(rows) ==
  /\ rows \subseteq Visible
  /\ Cardinality(rows) <= BatchSize
  /\ rows # Visible => /\ Cardinality(rows) = BatchSize
                      /\ \A m \in rows, n \in Visible \ rows : <<n, m>> \notin ahead

\* Mutants: one attempt too many, or too few.
Exhausted_OneLate(n)  == n > MaxAttempts
Exhausted_OneEarly(n) == n + 1 >= MaxAttempts

\* dispatchOutboxRow, on the attempts its claim read plus this one.
Exhausted(n) == n >= MaxAttempts

Init ==
  /\ status = [m \in Message |-> "Absent"]
  /\ attempts = [m \in Message |-> 0]
  /\ line = {}
  /\ ahead = {}
  /\ batch = [d \in Dispatcher |-> NoBatch]
  /\ pc = [d \in Dispatcher |-> "polling"]
  /\ current = [d \in Dispatcher |-> NoMessage]
  /\ pushes = [m \in Message |-> 0]
  /\ received = [m \in Message |-> 0]
  /\ outlasted = {}
  /\ faults = 0

Goto(d, step) == pc' = [pc EXCEPT ![d] = step]

Fault == faults < MaxFaults /\ faults' = faults + 1

\* The dispatcher is done with its current message and goes on to the next one.
FinishMessage(d) ==
  LET rest == Without(batch[d], current[d]) IN
  /\ batch' = [batch EXCEPT ![d] = rest]
  /\ current' = [current EXCEPT ![d] = NoMessage]
  /\ Goto(d, IF DOMAIN rest = {} THEN "polling" ELSE "next")

\* What is left of the batch is forgotten: the error of a failed write leaves the
\* batch loop, or the process dies.  The rows stay Processing.
Abandon(d) ==
  /\ Fault
  /\ batch' = [batch EXCEPT ![d] = NoBatch]
  /\ current' = [current EXCEPT ![d] = NoMessage]
  /\ Goto(d, "polling")

\* A row comes into sight somewhere in the order, by a next_attempt_at of its own, or
\* behind all others, whose next_attempt_at has passed already; and rows leave it.
Join(m) ==
  \E behind \in SUBSET line :
    /\ \A n \in behind, k \in line \ behind : <<n, k>> \notin ahead
    /\ line' = line \cup {m}
    /\ ahead' = ahead \cup ((line \ behind) \X {m}) \cup ({m} \X behind)
JoinLast(m) == line' = line \cup {m} /\ ahead' = ahead \cup (line \X {m})
Leave(rows) == line' = line \ rows /\ ahead' = {p \in ahead : p[1] \notin rows /\ p[2] \notin rows}

\* The transaction that makes a change commits, with its message, whose
\* next_attempt_at is when that transaction began.
Insert(m) ==
  /\ status[m] = "Absent"
  /\ \A n \in 1..(m - 1) : status[n] # "Absent"
  /\ status' = [status EXCEPT ![m] = "Pending"]
  /\ Join(m)
  /\ UNCHANGED <<attempts, batch, pc, current, pushes, received, outlasted, faults>>

\* claimOutboxRows: one transaction; the batch comes back in any order.
Claim(d) ==
  \E rows \in SUBSET Visible :
    /\ pc[d] = "polling"
    /\ rows # {} /\ IsBatch(rows)
    /\ status' = [m \in Message |-> IF m \in rows THEN "Processing" ELSE status[m]]
    /\ Leave(rows)
    /\ batch' = [batch EXCEPT ![d] = [m \in rows |-> attempts[m]]]
    /\ Goto(d, "next")
    /\ UNCHANGED <<attempts, current, pushes, received, outlasted, faults>>

\* pushMessage resolves, or throws; a push that throws may have been received.
Push(d) ==
  \E m \in DOMAIN batch[d], got \in BOOLEAN, ok \in BOOLEAN :
    /\ pc[d] = "next"
    /\ ok => got
    /\ IF got /\ ~ok THEN Fault ELSE UNCHANGED faults
    /\ current' = [current EXCEPT ![d] = m]
    /\ Goto(d, IF ok THEN "pushed" ELSE "failing")
    /\ pushes' = [pushes EXCEPT ![m] = @ + 1]
    /\ received' = IF got THEN [received EXCEPT ![m] = @ + 1] ELSE received
    /\ UNCHANGED <<rowVars, batch, outlasted>>

\* The row is updated by its id alone, whatever its status is by now.
Update(m, new, n) ==
  /\ status' = [status EXCEPT ![m] = new]
  /\ attempts' = [attempts EXCEPT ![m] = n]
  /\ Leave({m})

MarkSent(d) ==
  /\ pc[d] = "pushed"
  /\ Update(current[d], "Sent", batch[d][current[d]] + 1)
  /\ FinishMessage(d)
  /\ UNCHANGED <<pushes, received, outlasted, faults>>

\* The write of Sent is inside the same try as the push.
MarkSentFails(d) ==
  /\ pc[d] = "pushed"
  /\ Fault
  /\ Goto(d, "failing")
  /\ UNCHANGED <<rowVars, batch, current, pushes, received, outlasted>>

\* The catch of dispatchOutboxRow.
MarkFailure(d) ==
  LET n == batch[d][current[d]] + 1 IN
  /\ pc[d] = "failing"
  /\ Update(current[d], IF Exhausted(n) THEN "Failed" ELSE "Retry", n)
  /\ FinishMessage(d)
  /\ UNCHANGED <<pushes, received, outlasted, faults>>

MarkFailureFails(d) ==
  /\ pc[d] = "failing"
  /\ Abandon(d)
  /\ UNCHANGED <<rowVars, pushes, received, outlasted>>

\* The process dies and is started again.
Crash(d) ==
  /\ pc[d] # "polling"
  /\ Abandon(d)
  /\ UNCHANGED <<rowVars, pushes, received, outlasted>>

\* next_attempt_at comes.
BackoffEnds(m) ==
  /\ status[m] = "Retry"
  /\ m \notin line
  /\ JoinLast(m)
  /\ UNCHANGED <<status, attempts, batch, pc, current, pushes, received, outlasted, faults>>

\* A message has been Processing for the length of the lease.  Its next_attempt_at
\* is what it was when it was claimed.
LeaseEnds(m) ==
  /\ status[m] = "Processing"
  /\ m \notin line
  /\ \A d \in Dispatcher : m \notin DOMAIN batch[d]
  /\ Join(m)
  /\ UNCHANGED <<status, attempts, batch, pc, current, pushes, received, outlasted, faults>>

\* The same while a slow dispatcher still has the message.
LeaseOutlasted(m) ==
  /\ status[m] = "Processing"
  /\ m \notin line
  /\ \E d \in Dispatcher : m \in DOMAIN batch[d]
  /\ Fault
  /\ Join(m)
  /\ outlasted' = outlasted \cup {m}
  /\ UNCHANGED <<status, attempts, batch, pc, current, pushes, received>>

Dispatch(d) == Claim(d) \/ Push(d) \/ MarkSent(d) \/ MarkFailure(d)

Next ==
  \/ \E m \in Message : Insert(m) \/ BackoffEnds(m) \/ LeaseEnds(m) \/ LeaseOutlasted(m)
  \/ \E d \in Dispatcher :
       Dispatch(d) \/ MarkSentFails(d) \/ MarkFailureFails(d) \/ Crash(d)

Spec == Init /\ [][Next]_vars

\* Time passes, and a dispatcher that is alive keeps polling and finishes its batch.
Fairness ==
  /\ \A m \in Message : WF_vars(BackoffEnds(m)) /\ WF_vars(LeaseEnds(m))
  /\ \A d \in Dispatcher : WF_vars(Dispatch(d))

FairSpec == Spec /\ Fairness
-----------------------------------------------------------------------------
(***************************************************************************)
(* Properties.                                                              *)
(***************************************************************************)

\* Every variable holds values of its column or of a dispatcher's position.
TypeOK ==
  /\ status \in [Message -> Status]
  /\ attempts \in [Message -> 0..MaxAttempts]
  /\ line \subseteq Message
  /\ ahead \subseteq line \X line
  /\ DOMAIN batch = Dispatcher
  /\ \A d \in Dispatcher :
       DOMAIN batch[d] \subseteq Message /\ batch[d] \in [DOMAIN batch[d] -> Nat]
  /\ pc \in [Dispatcher -> Step]
  /\ current \in [Dispatcher -> Message \cup {NoMessage}]
  /\ pushes \in [Message -> Nat]
  /\ received \in [Message -> Nat]
  /\ outlasted \subseteq Message
  /\ faults \in 0..MaxFaults

\* A message is never lost: whatever fails, one that is recorded can still be
\* claimed, or will be once its backoff or its lease is over, or it was received, or
\* it was pushed as often as allowed ("At least once", docs/EVENTS.md).
NeverLost ==
  /\ TypeOK
  /\ \A m \in Message :
      /\ status[m] \in {"Pending", "Retry", "Processing"} => attempts[m] < MaxAttempts
      /\ status[m] = "Pending" => m \in line
      /\ status[m] = "Sent" => received[m] > 0
      /\ status[m] = "Failed" => pushes[m] >= MaxAttempts

\* Unless a batch outlasted its lease, two dispatchers never have the same message in
\* hand, and a message is pushed beyond max_attempts, or received twice, only for a
\* crash, a write that failed or an acknowledgement that was lost.
RepeatsAccounted ==
  /\ \A d, e \in Dispatcher : d # e => DOMAIN batch[d] \cap DOMAIN batch[e] \subseteq outlasted
  /\ \A m \in Message \ outlasted :
       pushes[m] <= MaxAttempts + faults /\ received[m] <= 1 + faults

\* A message that is Sent or Failed stays so, although the row is updated by its id
\* alone: while batches keep within their lease no stale dispatcher is left to write.
OutcomeIsFinal ==
  [][\A m \in Message \ outlasted :
       status[m] \in {"Sent", "Failed"} => status'[m] = status[m]]_vars

\* Every message recorded is at last Sent or Failed, through crashes of whoever
\* claimed it (the lease is what guarantees it).
MessagesEnd ==
  \A m \in Message : status[m] = "Pending" ~> status[m] \in {"Sent", "Failed"}
=============================================================================
