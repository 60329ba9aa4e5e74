--------------------------- MODULE PolicyLifecycle ---------------------------
(***************************************************************************)
(* Concurrent servicing of one policy: issue, endorse, cancel, reinstate,   *)
(* rewrite, renew and non-renew (routes/transactions.routes.ts,             *)
(* services/lifecycle.service.ts, services/endorsement.service.ts).         *)
(*                                                                         *)
(* Each request runs in one READ COMMITTED transaction.  The route opens    *)
(* it, runs the validation gate on the policy it reads there, then the      *)
(* service takes the row lock, checks the caller's expectedTimelineVersion, *)
(* loads the policy, computes and writes.  Every other policy is locked by  *)
(* its own row, so one policy is the whole of the shared state.             *)
(*                                                                         *)
(* Payloads, premiums, documents and underwriting answers are left out: an  *)
(* underwriting decline, an open referral, a failed rule or a crash is the  *)
(* Fail step, which rolls the transaction back.                             *)
(***************************************************************************)
EXTENDS Integers, FiniteSets, Sequences, PolicyTransitions

CONSTANTS
  Client,       \* callers, each with at most one request in flight
  NoClient,     \* the value of the row lock when nobody holds it
  MaxRequests   \* bound: how many requests are ever made

ASSUME ClientAssumption  == NoClient \notin Client
ASSUME RequestAssumption == MaxRequests \in Nat

VARIABLES
  status,          \* policies.status
  nonRenewedAt,    \* policies.non_renewed_at: ordinal of the term it names, 0 is NULL
  term,            \* ordinal of the term in policies.term_*_date
  segmentVersion,  \* MAX(timeline_version) of policy_timeline_segments
  nbStatus,        \* policy_transactions.status of the NB transaction
  issuedEvents,    \* POLICY_ISSUED documents, notifications and handoffs produced
  ledger,          \* committed changes, oldest first
  lockHolder,      \* who holds the policy row FOR UPDATE
  pc,              \* where each client's transaction is
  req,             \* what each client asked for and what its transaction has read
  clock            \* transactions begun so far: the time now() returns in each

policyVars == <<status, nonRenewedAt, term, segmentVersion, nbStatus,
                issuedEvents, ledger>>
vars == <<status, nonRenewedAt, term, segmentVersion, nbStatus, issuedEvents,
          ledger, lockHolder, pc, req, clock>>

Null == 0             \* an SQL NULL in a numeric column; MAX ignores it
NoExpectation == -1   \* the request carries no expectedTimelineVersion

\* A policy_transactions row with its policy_versions row (issue writes only a
\* ledger_events row: no sequence, no version).  "from" and "to" are the ledger
\* event's states, "processed" the version's processed_at, "base" the
\* processed_at of the version whose payload the change was computed from.
Change == [action : Servicing, from : LifecycleState, to : LifecycleState,
           term : Nat, seq : Nat, version : Nat, processed : Nat, base : Nat]

Request == [action : Servicing \cup {"none"}, expected : Nat \cup {NoExpectation},
            gateSaw : Nat, began : Nat,
            from : LifecycleState \cup {"none"}, seq : Nat, version : Nat, base : Nat]

NoRequest == [action |-> "none", expected |-> NoExpectation,
              gateSaw |-> 0, began |-> 0, from |-> "none", seq |-> Null,
              version |-> Null, base |-> 0]

-----------------------------------------------------------------------------
(***************************************************************************)
(* Queries.                                                                 *)
(***************************************************************************)
Largest(S) == CHOOSE n \in S : \A m \in S : m <= n

Versions        == {ledger[i].version : i \in DOMAIN ledger}
SequenceNumbers == {ledger[i].seq : i \in DOMAIN ledger}

\* The changes that wrote a policy_versions row, and processed_at of the one
\* loadPolicyContext reads its latestPayload from (0: the version bind wrote).
Versioned       == {i \in DOMAIN ledger : ledger[i].action # "issue"}
LatestProcessed == Largest({0} \cup {ledger[i].processed : i \in Versioned})

\* What lockPolicyForMutation compares the caller's expectation with, from the
\* transactions and versions tables.
CurrentTimelineVersion == Largest({0} \cup Versions)

\* What a numbered operation writes: the version is allocated from the segments
\* table, the sequence from the transactions table.
NextTimelineVersion == segmentVersion + 1
NextSequence == Largest({0} \cup SequenceNumbers) + 1

\* Mutant: the policy is selected without FOR UPDATE.
LockFree_NoLock == TRUE

LockFree == lockHolder = NoClient

\* Mutant: only a version from the future is refused.
ExpectationHolds_NotNewer(e) == e <= CurrentTimelineVersion

ExpectationHolds(e) == e = NoExpectation \/ e = CurrentTimelineVersion

\* loadPolicyContext does not select non_renewed_at, so the value nonRenewPolicy
\* tests is always absent.
LoadedNonRenewedAt == Null

\* Mutants: renewPolicy forgets its state check; a repeated issue is not returned
\* early and goes on to its effects.
Permitted_RenewUnchecked(a) == a \in {"endorse", "renew"} \/ Applies(a, status)
Permitted_RepeatFallsThrough(a) ==
  a = "endorse" \/ Applies(a, status) \/ Repeats(a, status)

\* The service's own checks once it holds the lock.  executeEndorsement makes
\* none on the status.
Permitted(a) ==
  /\ a = "endorse" \/ Applies(a, status)
  /\ a = "nonRenew" => LoadedNonRenewedAt = Null

\* The partial unique indexes on sequence_no and timeline_version.
IndexesAccept(r) ==
  /\ r.version = Null \/ r.version \notin Versions
  /\ r.seq = Null \/ r.seq \notin SequenceNumbers

\* The rows and the ledger event a request writes, from what it has loaded.
ChangeOf(r) == [action |-> r.action, from |-> r.from, to |-> Result(r.action, r.from),
                term |-> term, seq |-> r.seq, version |-> r.version,
                processed |-> r.began, base |-> r.base]

-----------------------------------------------------------------------------
Init ==
  /\ status = "Bound"
  /\ nonRenewedAt = Null
  /\ term = 1
  /\ segmentVersion = 0
  /\ nbStatus = "Bound"
  /\ issuedEvents = 0
  /\ ledger = <<>>
  /\ lockHolder = NoClient
  /\ pc = [c \in Client |-> "idle"]
  /\ req = [c \in Client |-> NoRequest]
  /\ clock = 0

\* Mutant: the client returns to the pool without ROLLBACK, its lock still held.
EndTransaction_LeaksLock(c) ==
  /\ pc' = [pc EXCEPT ![c] = "idle"]
  /\ req' = [req EXCEPT ![c] = NoRequest]
  /\ UNCHANGED lockHolder

\* COMMIT or ROLLBACK: the transaction is over and its row lock is released.
EndTransaction(c) ==
  /\ pc' = [pc EXCEPT ![c] = "idle"]
  /\ req' = [req EXCEPT ![c] = NoRequest]
  /\ lockHolder' = IF lockHolder = c THEN NoClient ELSE lockHolder

\* A request arrives and its transaction begins.  The caller looked at the
\* policy before it asked, and may send the timeline version it saw.
Begin(c, a, e) ==
  /\ pc[c] = "idle"
  /\ clock < MaxRequests
  /\ clock' = clock + 1
  /\ req' = [req EXCEPT ![c] = [NoRequest EXCEPT !.action = a, !.expected = e,
                                  !.began = clock']]
  /\ pc' = [pc EXCEPT ![c] = "gate"]
  /\ UNCHANGED <<policyVars, lockHolder>>

\* runPolicyValidationGate: reads the policy, without the lock, and passes.
Gate(c) ==
  /\ pc[c] = "gate"
  /\ req' = [req EXCEPT ![c].gateSaw = CurrentTimelineVersion]
  /\ pc' = [pc EXCEPT ![c] = "waiting"]
  /\ UNCHANGED <<policyVars, lockHolder, clock>>

\* lockPolicyForMutation: SELECT ... FOR UPDATE, then the version precondition.
Acquire(c) ==
  /\ pc[c] = "waiting"
  /\ LockFree
  /\ ExpectationHolds(req[c].expected)
  /\ lockHolder' = c
  /\ pc' = [pc EXCEPT ![c] = "locked"]
  /\ UNCHANGED <<policyVars, req, clock>>

\* STALE_POLICY_VERSION.
RefuseStale(c) ==
  /\ pc[c] = "waiting"
  /\ LockFree
  /\ ~ExpectationHolds(req[c].expected)
  /\ EndTransaction(c)
  /\ UNCHANGED <<policyVars, clock>>

\* The service loads the policy, passes its checks and allocates its numbers.
Prepare(c) ==
  LET a == req[c].action IN
  /\ pc[c] = "locked"
  /\ Permitted(a)
  /\ req' = [req EXCEPT ![c].from = status,
                        ![c].version = IF a \in Numbered THEN NextTimelineVersion ELSE Null,
                        ![c].seq = IF a \in Numbered THEN NextSequence ELSE Null,
                        ![c].base = LatestProcessed]
  /\ pc' = [pc EXCEPT ![c] = "writing"]
  /\ UNCHANGED <<policyVars, lockHolder, clock>>

\* INVALID_STATE, or the answer to a repeated issue: nothing is written.
Refuse(c) ==
  /\ pc[c] = "locked"
  /\ ~Permitted(req[c].action)
  /\ EndTransaction(c)
  /\ UNCHANGED <<policyVars, clock>>

\* Mutant: cancel and reinstate compute the new segments and do not store them.
PersistSegments_EndorseOnly(r) ==
  segmentVersion' = IF r.action = "endorse" THEN r.version ELSE segmentVersion

\* The timeline segments of the new version are persisted with it.
PersistSegments(r) == segmentVersion' = r.version

\* What each operation writes besides the rows of its change.  Issue also
\* produces the documents, the notification and the commission handoff.
Issue ==
  /\ status' = "Issued"
  /\ nbStatus' = "Issued"
  /\ issuedEvents' = issuedEvents + 1
  /\ UNCHANGED <<nonRenewedAt, term, segmentVersion>>

Endorse(r) ==
  /\ PersistSegments(r)
  /\ UNCHANGED <<status, nonRenewedAt, term, nbStatus, issuedEvents>>

Cancel(r) ==
  /\ status' = "Cancelled"
  /\ PersistSegments(r)
  /\ UNCHANGED <<nonRenewedAt, term, nbStatus, issuedEvents>>

Reinstate(r) ==
  /\ status' = "Issued"
  /\ PersistSegments(r)
  /\ UNCHANGED <<nonRenewedAt, term, nbStatus, issuedEvents>>

\* Renewal moves the policy to its next term and leaves non_renewed_at alone.
Renew ==
  /\ term' = term + 1
  /\ UNCHANGED <<status, nonRenewedAt, segmentVersion, nbStatus, issuedEvents>>

Rewrite ==
  /\ status' = "Issued"
  /\ term' = term + 1
  /\ UNCHANGED <<nonRenewedAt, segmentVersion, nbStatus, issuedEvents>>

NonRenew ==
  /\ nonRenewedAt' = term
  /\ UNCHANGED <<status, term, segmentVersion, nbStatus, issuedEvents>>

\* The writes of the service and its COMMIT.
Commit(c) ==
  LET r == req[c] IN
  /\ pc[c] = "writing"
  /\ IndexesAccept(r)
  /\ ledger' = Append(ledger, ChangeOf(r))
  /\ \/ r.action = "issue" /\ Issue
     \/ r.action = "endorse" /\ Endorse(r)
     \/ r.action = "cancel" /\ Cancel(r)
     \/ r.action = "reinstate" /\ Reinstate(r)
     \/ r.action = "renew" /\ Renew
     \/ r.action = "rewrite" /\ Rewrite
     \/ r.action = "nonRenew" /\ NonRenew
  /\ EndTransaction(c)
  /\ UNCHANGED clock

\* Anything that throws, and a lost connection: the transaction rolls back.
Fail(c) ==
  /\ pc[c] # "idle"
  /\ EndTransaction(c)
  /\ UNCHANGED <<policyVars, clock>>

Next ==
  \E c \in Client :
    \/ \E a \in Servicing, e \in {NoExpectation, CurrentTimelineVersion} : Begin(c, a, e)
    \/ Gate(c)
    \/ Acquire(c)
    \/ RefuseStale(c)
    \/ Prepare(c)
    \/ Refuse(c)
    \/ Commit(c)
    \/ Fail(c)

Spec == Init /\ [][Next]_vars

\* A transaction in progress is driven to its end by the server; nobody has to
\* make a request, and nothing has to fail.
Fairness ==
  \A c \in Client :
    /\ WF_vars(Gate(c))
    /\ WF_vars(Acquire(c) \/ RefuseStale(c))
    /\ WF_vars(Prepare(c) \/ Refuse(c))
    /\ WF_vars(Commit(c))

FairSpec == Spec /\ Fairness
-----------------------------------------------------------------------------
(***************************************************************************)
(* Properties.                                                              *)
(***************************************************************************)

\* Every variable holds values of its column or of its program counter.
TypeOK ==
  /\ status \in {"Bound", "Issued", "Cancelled"}
  /\ nonRenewedAt \in Nat
  /\ term \in Nat
  /\ segmentVersion \in Nat
  /\ nbStatus \in {"Bound", "Issued"}
  /\ issuedEvents \in Nat
  /\ ledger \in Seq(Change)
  /\ lockHolder \in Client \cup {NoClient}
  /\ pc \in [Client -> {"idle", "gate", "waiting", "locked", "writing"}]
  /\ req \in [Client -> Request]
  /\ clock \in Nat

\* The two tables versions are read from agree (lockPolicyForMutation reads the
\* transactions and versions, nextTimelineVersion the segments), timeline versions
\* and sequence numbers grow together, in commit order, with no gap, and so the
\* unique indexes of migration 050 never turn a servicing request away.
TimelineIsDense ==
  /\ segmentVersion = CurrentTimelineVersion
  /\ \A n \in 1..segmentVersion : \E i \in DOMAIN ledger : ledger[i].version = n
  /\ \A i, j \in DOMAIN ledger :
       i < j /\ ledger[i].action \in Numbered /\ ledger[j].action \in Numbered
         => ledger[i].version < ledger[j].version /\ ledger[i].seq < ledger[j].seq
  /\ \A c \in Client : pc[c] = "writing" => IndexesAccept(req[c])

\* The ledger is one line of history: every change started from the status the
\* change before it left, the policy has the status the last one left, and every
\* change but an endorsement was legal where it landed.
HistoryIsLinear ==
  /\ status = IF ledger = <<>> THEN "Bound" ELSE ledger[Len(ledger)].to
  /\ \A i \in DOMAIN ledger :
       /\ ledger[i].from = IF i = 1 THEN "Bound" ELSE ledger[i - 1].to
       /\ ledger[i].action # "endorse" => Applies(ledger[i].action, ledger[i].from)

\* However many times and however concurrently a policy is issued, cancelled and
\* reinstated, its issue documents and POLICY_ISSUED events are produced once.
IssuedOnce == issuedEvents <= 1 /\ (nbStatus = "Issued" => issuedEvents = 1)

\* Client c's transaction commits a change.
Commits(c) == pc[c] = "writing" /\ pc'[c] = "idle" /\ ledger' # ledger

\* A request that names a timeline version commits only while that version is the
\* current one, and the version the validation gate checked is that one too: the
\* gate reads the policy before the lock, and nothing repeats it.
AcceptedVersionIsCurrent ==
  [][\A c \in Client :
       Commits(c) /\ req[c].expected # NoExpectation
         => /\ req[c].expected = CurrentTimelineVersion
            /\ req[c].gateSaw = CurrentTimelineVersion]_vars

\* Every request is answered: no transaction waits for the row lock for ever.
RequestsEnd == \A c \in Client : pc[c] # "idle" ~> pc[c] = "idle"

\* Concurrent servicing implements the one-operation-at-a-time policy ledger.
Ledger == INSTANCE PolicyLedger WITH
  version <- segmentVersion,
  history <- [i \in DOMAIN ledger |->
                [action |-> ledger[i].action, from |-> ledger[i].from, to |-> ledger[i].to]]

ImplementsLedger == Ledger!LedgerSpec
=============================================================================
