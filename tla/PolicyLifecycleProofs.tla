------------------------ MODULE PolicyLifecycleProofs ------------------------
(***************************************************************************)
(* Proofs about PolicyLifecycle, for any set of clients and any number of   *)
(* requests.  The inductive invariant IInv adds to the checked invariants   *)
(* what holds while a transaction has the row lock: it alone may be past    *)
(* "waiting", and what it has loaded is still so when it writes.            *)
(***************************************************************************)
EXTENDS PolicyLifecycle, TLAPS

HasLargest(S) == \E n \in S : \A m \in S : m <= n

\* The row lock is held exactly by the transaction between its lock and its end.
LockInv == \A c \in Client : pc[c] \in {"locked", "writing"} <=> lockHolder = c

\* A request in progress has an action; one that is not was forgotten.
RequestInv == \A c \in Client : pc[c] # "idle" => req[c].action \in Servicing

\* Numbered changes carry the same sequence number and timeline version, none
\* above the segments' version, which some change wrote.
NumbersInv ==
  /\ segmentVersion \in {0} \cup Versions
  /\ \A i \in DOMAIN ledger :
       /\ ledger[i].version <= segmentVersion
       /\ ledger[i].seq = ledger[i].version
       /\ ledger[i].action \in Numbered => ledger[i].version # 0
  /\ HasLargest({0} \cup {ledger[i].processed : i \in Versioned})

\* What a transaction loaded under the lock still holds when it writes.
Loaded(c) ==
  pc[c] = "writing" =>
    /\ req[c].from = status
    /\ Permitted(req[c].action)
    /\ req[c].version = IF req[c].action \in Numbered THEN segmentVersion + 1 ELSE 0
    /\ req[c].seq = req[c].version

LoadedInv == \A c \in Client : Loaded(c)

\* A version that was accepted is current as long as the lock is held.
AcceptedInv ==
  \A c \in Client :
    pc[c] \in {"locked", "writing"} =>
      req[c].expected \in {NoExpectation, segmentVersion}

\* A policy that is still bound was never issued.
BoundInv ==
  /\ status = "Bound" => issuedEvents = 0 /\ nbStatus = "Bound"
  /\ IssuedOnce

\* Versions 1..segmentVersion are all there, in commit order.
DenseInv ==
  /\ \A n \in 1..segmentVersion : \E i \in DOMAIN ledger : ledger[i].version = n
  /\ \A i, j \in DOMAIN ledger :
       i < j /\ ledger[i].action \in Numbered /\ ledger[j].action \in Numbered
         => ledger[i].version < ledger[j].version /\ ledger[i].seq < ledger[j].seq

IInv ==
  /\ TypeOK
  /\ LockInv
  /\ RequestInv
  /\ NumbersInv
  /\ LoadedInv
  /\ AcceptedInv
  /\ BoundInv
  /\ DenseInv
  /\ HistoryIsLinear

\* A version a caller names was current when it asked, and versions only grow: the
\* gate saw that version or a later one.
Gated(c) ==
  req[c].expected # NoExpectation =>
    /\ pc[c] = "gate" => req[c].expected <= segmentVersion
    /\ pc[c] \in {"waiting", "locked", "writing"} =>
         req[c].expected <= req[c].gateSaw /\ req[c].gateSaw <= segmentVersion

GateInv == \A c \in Client : Gated(c)
-----------------------------------------------------------------------------
\* Largest picks the largest element of a set of numbers that has one.
LEMMA LargestIs ==
  ASSUME NEW S, HasLargest(S)
  PROVE  Largest(S) \in S /\ \A m \in S : m <= Largest(S)
BY DEF HasLargest, Largest

\* Adding a number to a set that has a largest one leaves it with one.
LEMMA LargestOfMore ==
  ASSUME NEW S \in SUBSET Nat, HasLargest(S), NEW x \in Nat
  PROVE  HasLargest(S \cup {x})
<1>1. PICK n \in S : \A m \in S : m <= n
  BY DEF HasLargest
<1>2. CASE x <= n
  BY <1>1, <1>2 DEF HasLargest
<1>3. CASE ~(x <= n)
  <2>1. \A m \in S \cup {x} : m <= x
    BY <1>1, <1>3
  <2>. QED  BY <2>1 DEF HasLargest
<1>. QED  BY <1>2, <1>3

\* The changes in the ledger are typed.
LEMMA ChangeType ==
  ASSUME TypeOK, NEW i \in DOMAIN ledger
  PROVE  /\ ledger[i] \in Change
         /\ ledger[i].version \in Nat
         /\ ledger[i].seq \in Nat
         /\ ledger[i].processed \in Nat
         /\ ledger[i].action \in Servicing
<1>1. ledger \in Seq(Change)
  BY DEF TypeOK
<1>2. ledger[i] \in Change
  BY <1>1
<1>. QED  BY <1>2 DEF Change

\* What lockPolicyForMutation compares is the version of the segments.
LEMMA CurrentVersion ==
  ASSUME TypeOK, NumbersInv
  PROVE  CurrentTimelineVersion = segmentVersion
<1>1. \A m \in {0} \cup Versions : m \in Nat /\ m <= segmentVersion
  BY ChangeType DEF NumbersInv, Versions, TypeOK
<1>2. HasLargest({0} \cup Versions)
  BY <1>1 DEF NumbersInv, HasLargest
<1>3. /\ CurrentTimelineVersion \in {0} \cup Versions
      /\ \A m \in {0} \cup Versions : m <= CurrentTimelineVersion
  BY <1>2, LargestIs DEF CurrentTimelineVersion
<1>4. /\ segmentVersion <= CurrentTimelineVersion
      /\ CurrentTimelineVersion <= segmentVersion
  BY <1>1, <1>3 DEF NumbersInv
<1>. QED  BY <1>1, <1>3, <1>4 DEF TypeOK

\* The next sequence number is the next timeline version.
LEMMA NextNumbers ==
  ASSUME TypeOK, NumbersInv
  PROVE  /\ NextSequence = segmentVersion + 1
         /\ NextTimelineVersion = segmentVersion + 1
<1>1. SequenceNumbers = Versions
  BY DEF NumbersInv, SequenceNumbers, Versions
<1>. QED  BY <1>1, CurrentVersion
          DEF NextSequence, CurrentTimelineVersion, NextTimelineVersion

\* The version loaded with the policy has a processed_at.
LEMMA LatestType ==
  ASSUME TypeOK, NumbersInv
  PROVE  LatestProcessed \in Nat
<1>1. LatestProcessed \in {0} \cup {ledger[i].processed : i \in Versioned}
  BY LargestIs DEF NumbersInv, LatestProcessed
<1>. QED  BY <1>1, ChangeType DEF Versioned
-----------------------------------------------------------------------------
\* The ledger invariants speak of the policy's rows only.
LEMMA RowsUnchanged ==
  ASSUME IInv, UNCHANGED policyVars
  PROVE  NumbersInv' /\ BoundInv' /\ DenseInv' /\ HistoryIsLinear'
<1>1. UNCHANGED <<status, nbStatus, issuedEvents, segmentVersion, ledger>>
  BY DEF policyVars
<1>2. NumbersInv'
  BY <1>1 DEF IInv, NumbersInv, Versions, Versioned, HasLargest
<1>3. BoundInv'
  BY <1>1 DEF IInv, BoundInv, IssuedOnce
<1>4. DenseInv'
  BY <1>1 DEF IInv, DenseInv
<1>5. HistoryIsLinear'
  BY <1>1 DEF IInv, HistoryIsLinear
<1>. QED  BY <1>2, <1>3, <1>4, <1>5

\* A policy that was just bound satisfies the invariant.
LEMMA InitInv == Init => IInv
<1>. SUFFICES ASSUME Init PROVE IInv
  OBVIOUS
<1>. USE DEF Init
<1>1. TypeOK
  BY DEF TypeOK, Null, NoRequest, Request, NoExpectation
<1>2. LockInv
  BY ClientAssumption DEF LockInv
<1>3. RequestInv /\ LoadedInv /\ AcceptedInv
  BY DEF RequestInv, LoadedInv, Loaded, AcceptedInv
<1>4. NumbersInv
  <2>1. DOMAIN ledger = {} /\ segmentVersion = 0
    OBVIOUS
  <2>2. {0} \cup {ledger[i].processed : i \in Versioned} = {0}
    BY <2>1 DEF Versioned
  <2>3. HasLargest({0})
    BY DEF HasLargest
  <2>4. HasLargest({0} \cup {ledger[i].processed : i \in Versioned})
    BY ONLY <2>2, <2>3
  <2>. QED  BY ONLY <2>1, <2>4 DEF NumbersInv
<1>5. BoundInv /\ DenseInv /\ HistoryIsLinear
  BY DEF BoundInv, IssuedOnce, DenseInv, HistoryIsLinear
<1>. QED  BY <1>1, <1>2, <1>3, <1>4, <1>5 DEF IInv

\* A rollback, at whatever point, preserves the invariant: the lock goes with it.
LEMMA EndPreserves ==
  ASSUME IInv, NEW c \in Client, EndTransaction(c), UNCHANGED <<policyVars, clock>>
  PROVE  IInv'
<1>. USE DEF EndTransaction
<1>1. TypeOK'
  BY DEF IInv, TypeOK, policyVars, NoRequest, Request, NoExpectation, Null
<1>2. LockInv'
  BY ClientAssumption DEF IInv, TypeOK, LockInv
<1>3. RequestInv'
  BY DEF IInv, TypeOK, RequestInv
<1>4. LoadedInv'
  BY DEF IInv, TypeOK, LoadedInv, Loaded, policyVars, Permitted
<1>5. AcceptedInv'
  BY DEF IInv, TypeOK, AcceptedInv, policyVars
<1>. QED  BY <1>1, <1>2, <1>3, <1>4, <1>5, RowsUnchanged DEF IInv

\* A request that begins, and one that passes the gate, hold no lock and have
\* loaded nothing.
LEMMA BeginPreserves ==
  ASSUME IInv, NEW c \in Client, NEW a \in Servicing,
         NEW e \in {NoExpectation, CurrentTimelineVersion}, Begin(c, a, e)
  PROVE  IInv'
<1>. USE DEF Begin
<1>1. e \in Nat \cup {NoExpectation}
  BY CurrentVersion DEF IInv, TypeOK
<1>2. clock' \in Nat
  BY DEF IInv, TypeOK
<1>3. [NoRequest EXCEPT !.action = a, !.expected = e,
                        !.began = clock'] \in Request
  BY <1>1, <1>2 DEF NoRequest, Request, NoExpectation, Null
<1>4. TypeOK'
  BY <1>2, <1>3 DEF IInv, TypeOK, policyVars
<1>5. LockInv'
  BY DEF IInv, TypeOK, LockInv
<1>6. RequestInv'
  BY DEF IInv, TypeOK, RequestInv, NoRequest
<1>7. LoadedInv' /\ AcceptedInv'
  BY DEF IInv, TypeOK, LoadedInv, Loaded, AcceptedInv, policyVars, Permitted
<1>. QED  BY <1>4, <1>5, <1>6, <1>7, RowsUnchanged DEF IInv

LEMMA GatePreserves ==
  ASSUME IInv, NEW c \in Client, Gate(c)
  PROVE  IInv'
<1>. USE DEF Gate
<1>a. req[c] \in Request /\ CurrentTimelineVersion \in Nat
  BY CurrentVersion DEF IInv, TypeOK
<1>b. [req[c] EXCEPT !.gateSaw = CurrentTimelineVersion] \in Request
  BY <1>a DEF Request
<1>1. TypeOK'
  BY <1>b DEF IInv, TypeOK, policyVars
<1>2. LockInv'
  BY DEF IInv, TypeOK, LockInv
<1>3. RequestInv'
  BY DEF IInv, TypeOK, RequestInv, Request
<1>4. LoadedInv' /\ AcceptedInv'
  BY DEF IInv, TypeOK, LoadedInv, Loaded, AcceptedInv, policyVars, Permitted
<1>. QED  BY <1>1, <1>2, <1>3, <1>4, RowsUnchanged DEF IInv

\* The lock is taken with a current expectation.
LEMMA AcquirePreserves ==
  ASSUME IInv, NEW c \in Client, Acquire(c)
  PROVE  IInv'
<1>. USE DEF Acquire
<1>1. TypeOK'
  BY DEF IInv, TypeOK, policyVars
<1>2. LockInv'
  BY ClientAssumption DEF IInv, TypeOK, LockInv, LockFree
<1>3. RequestInv'
  BY DEF IInv, TypeOK, RequestInv
<1>4. LoadedInv'
  BY DEF IInv, TypeOK, LoadedInv, Loaded, policyVars, Permitted
<1>5. AcceptedInv'
  BY CurrentVersion DEF IInv, TypeOK, AcceptedInv, policyVars, ExpectationHolds
<1>. QED  BY <1>1, <1>2, <1>3, <1>4, <1>5, RowsUnchanged DEF IInv

\* What the service loads and allocates is what the policy holds.
LEMMA PreparePreserves ==
  ASSUME IInv, NEW c \in Client, Prepare(c)
  PROVE  IInv'
<1>. DEFINE a == req[c].action
            v == IF a \in Numbered THEN segmentVersion + 1 ELSE 0
<1>1. /\ pc[c] = "locked" /\ Permitted(a)
      /\ req' = [req EXCEPT ![c] = [req[c] EXCEPT !.from = status, !.version = v,
                                        !.seq = v, !.base = LatestProcessed]]
      /\ pc' = [pc EXCEPT ![c] = "writing"]
      /\ UNCHANGED <<policyVars, lockHolder, clock>>
  BY NextNumbers DEF IInv, TypeOK, Prepare, Null
<1>2. v \in Nat /\ LatestProcessed \in Nat /\ status \in LifecycleState
  BY LatestType DEF IInv, TypeOK, LifecycleState
<1>. DEFINE r == [req[c] EXCEPT !.from = status, !.version = v, !.seq = v,
                                !.base = LatestProcessed]
<1>a. req[c] \in Request
  BY DEF IInv, TypeOK
<1>b. /\ r \in Request
      /\ r.action = a /\ r.from = status /\ r.version = v /\ r.seq = v
      /\ r.expected = req[c].expected
  <2>. HIDE DEF v
  <2>. QED  BY <1>2, <1>a DEF Request
<1>c. req' = [req EXCEPT ![c] = r]
  BY <1>1
<1>. HIDE DEF r
<1>3. TypeOK'
  BY <1>1, <1>b, <1>c DEF IInv, TypeOK, policyVars
<1>4. LockInv'
  BY <1>1 DEF IInv, TypeOK, LockInv
<1>5. RequestInv'
  BY <1>1, <1>b, <1>c DEF IInv, TypeOK, RequestInv
<1>6. LoadedInv'
  <2>. SUFFICES ASSUME NEW d \in Client PROVE Loaded(d)'
    BY DEF LoadedInv
  <2>1. CASE d = c
    BY <1>1, <1>b, <1>c, <2>1 DEF IInv, TypeOK, policyVars, Loaded, Permitted
  <2>2. CASE d # c
    BY <1>1, <2>2 DEF IInv, TypeOK, LoadedInv, Loaded, policyVars, Permitted
  <2>. QED  BY <2>1, <2>2
<1>7. AcceptedInv'
  BY <1>1, <1>b, <1>c DEF IInv, TypeOK, AcceptedInv, policyVars
<1>. QED  BY <1>1, <1>3, <1>4, <1>5, <1>6, <1>7, RowsUnchanged DEF IInv
-----------------------------------------------------------------------------
\* What a commit does, from what its transaction loaded under the lock: it adds
\* one change, from the present status, and advances the version by its number.
LEMMA CommitEffect ==
  ASSUME IInv, NEW c \in Client, Commit(c)
  PROVE  LET a == req[c].action
             ch == ChangeOf(req[c])
         IN  /\ pc[c] = "writing" /\ lockHolder = c
             /\ a \in Servicing /\ Permitted(a)
             /\ status' = Result(a, status)
             /\ status' \in {"Bound", "Issued", "Cancelled"}
             /\ status' = "Bound" => status = "Bound" /\ a # "issue"
             /\ segmentVersion' = IF a \in Numbered THEN segmentVersion + 1
                                  ELSE segmentVersion
             /\ IF a = "issue" THEN issuedEvents' = issuedEvents + 1 /\ nbStatus' = "Issued"
                ELSE UNCHANGED <<issuedEvents, nbStatus>>
             /\ term' \in Nat /\ nonRenewedAt' \in Nat
             /\ ledger' = Append(ledger, ch)
             /\ ch \in Change
             /\ ch.action = a /\ ch.from = status /\ ch.to = status'
             /\ ch.version = (IF a \in Numbered THEN segmentVersion + 1 ELSE 0)
             /\ ch.seq = ch.version
             /\ EndTransaction(c) /\ UNCHANGED clock
<1>. DEFINE a == req[c].action
<1>1. /\ pc[c] = "writing" /\ lockHolder = c /\ a \in Servicing /\ Permitted(a)
      /\ req[c].from = status
      /\ req[c].version = IF a \in Numbered THEN segmentVersion + 1 ELSE 0
      /\ req[c].seq = req[c].version
  BY DEF IInv, Commit, LockInv, RequestInv, LoadedInv, Loaded
<1>2. /\ req[c] \in Request
      /\ status \in {"Bound", "Issued", "Cancelled"}
      /\ term \in Nat /\ nonRenewedAt \in Nat /\ segmentVersion \in Nat
  BY DEF IInv, TypeOK
<1>3. /\ ledger' = Append(ledger, ChangeOf(req[c]))
      /\ EndTransaction(c) /\ UNCHANGED clock
      /\ \/ a = "issue" /\ Issue
         \/ a = "endorse" /\ Endorse(req[c])
         \/ a = "cancel" /\ Cancel(req[c])
         \/ a = "reinstate" /\ Reinstate(req[c])
         \/ a = "renew" /\ Renew
         \/ a = "rewrite" /\ Rewrite
         \/ a = "nonRenew" /\ NonRenew
  BY DEF Commit
<1>. HIDE DEF a
<1>4. /\ status' = Result(a, status)
      /\ status' \in {"Bound", "Issued", "Cancelled"}
      /\ status' = "Bound" => status = "Bound" /\ a # "issue"
  BY <1>2, <1>3 DEF Issue, Endorse, Cancel, Reinstate, Renew, Rewrite, NonRenew,
                    Result, ToState, KeepsStatus
<1>5. /\ segmentVersion' = IF a \in Numbered THEN segmentVersion + 1 ELSE segmentVersion
      /\ IF a = "issue" THEN issuedEvents' = issuedEvents + 1 /\ nbStatus' = "Issued"
         ELSE UNCHANGED <<issuedEvents, nbStatus>>
      /\ term' \in Nat /\ nonRenewedAt' \in Nat
  BY <1>1, <1>2, <1>3 DEF Issue, Endorse, Cancel, Reinstate, Renew, Rewrite, NonRenew,
                          PersistSegments, Numbered
<1>6. /\ ChangeOf(req[c]).action = a
      /\ ChangeOf(req[c]).from = status /\ ChangeOf(req[c]).to = status'
      /\ ChangeOf(req[c]).version = (IF a \in Numbered THEN segmentVersion + 1 ELSE 0)
      /\ ChangeOf(req[c]).seq = ChangeOf(req[c]).version
  BY <1>1, <1>4 DEF ChangeOf, a
<1>7. ChangeOf(req[c]) \in Change
  <2>1. /\ req[c].action \in Servicing /\ req[c].from \in LifecycleState
        /\ Result(req[c].action, req[c].from) \in LifecycleState
    BY <1>1, <1>2, <1>4 DEF a, LifecycleState
  <2>2. /\ term \in Nat /\ req[c].seq \in Nat /\ req[c].version \in Nat
        /\ req[c].began \in Nat /\ req[c].base \in Nat
    BY <1>2 DEF Request
  <2>. QED  BY <2>1, <2>2 DEF ChangeOf, Change
<1>. QED  BY <1>1, <1>3, <1>4, <1>5, <1>6, <1>7 DEF a

\* A commit preserves the invariant.
LEMMA CommitPreserves ==
  ASSUME IInv, NEW c \in Client, Commit(c)
  PROVE  IInv'
<1>. DEFINE a == req[c].action
            ch == ChangeOf(req[c])
            n == Len(ledger)
<1>1. /\ pc[c] = "writing" /\ lockHolder = c
      /\ a \in Servicing /\ Permitted(a)
      /\ status' = Result(a, status)
      /\ status' \in {"Bound", "Issued", "Cancelled"}
      /\ status' = "Bound" => status = "Bound" /\ a # "issue"
      /\ segmentVersion' = IF a \in Numbered THEN segmentVersion + 1 ELSE segmentVersion
      /\ IF a = "issue" THEN issuedEvents' = issuedEvents + 1 /\ nbStatus' = "Issued"
         ELSE UNCHANGED <<issuedEvents, nbStatus>>
      /\ term' \in Nat /\ nonRenewedAt' \in Nat
      /\ ledger' = Append(ledger, ch)
      /\ ch \in Change
      /\ ch.action = a /\ ch.from = status /\ ch.to = status'
      /\ ch.version = (IF a \in Numbered THEN segmentVersion + 1 ELSE 0)
      /\ ch.seq = ch.version
      /\ EndTransaction(c) /\ UNCHANGED clock
  BY CommitEffect
<1>. HIDE DEF a, ch
<1>2. /\ ledger \in Seq(Change) /\ n \in Nat /\ segmentVersion \in Nat
      /\ issuedEvents \in Nat /\ nbStatus \in {"Bound", "Issued"}
      /\ DOMAIN ledger = 1..n
  BY DEF IInv, TypeOK
<1>3. /\ ledger' \in Seq(Change) /\ Len(ledger') = n + 1
      /\ DOMAIN ledger' = 1..(n + 1)
      /\ \A i \in 1..n : ledger'[i] = ledger[i]
      /\ ledger'[n + 1] = ch
  BY <1>1, <1>2
<1>. HIDE DEF n
<1>4. TypeOK'
  <2>1. req' \in [Client -> Request] /\ pc' \in [Client -> {"idle", "gate", "waiting", "locked", "writing"}]
    BY <1>1 DEF IInv, TypeOK, EndTransaction, NoRequest, Request, NoExpectation, Null
  <2>2. lockHolder' \in Client \cup {NoClient} /\ clock' \in Nat
    BY <1>1 DEF IInv, TypeOK, EndTransaction
  <2>. QED  BY <1>1, <1>2, <1>3, <2>1, <2>2 DEF TypeOK
<1>5. LockInv' /\ RequestInv'
  BY <1>1, ClientAssumption DEF IInv, TypeOK, LockInv, RequestInv, EndTransaction
<1>6. LoadedInv' /\ AcceptedInv'
  <2>1. \A d \in Client : pc'[d] \notin {"locked", "writing"}
    BY <1>1 DEF IInv, TypeOK, LockInv, EndTransaction
  <2>. QED  BY <2>1 DEF LoadedInv, Loaded, AcceptedInv
<1>7. NumbersInv'
  <2>1. segmentVersion' \in {0} \cup Versions'
    <3>1. CASE a \in Numbered
      BY <1>1, <1>2, <1>3, <3>1 DEF Versions
    <3>2. CASE a \notin Numbered
      BY <1>1, <1>2, <1>3, <3>2 DEF IInv, NumbersInv, Versions
    <3>. QED  BY <3>1, <3>2
  <2>2. \A i \in DOMAIN ledger' :
          /\ ledger'[i].version <= segmentVersion'
          /\ ledger'[i].seq = ledger'[i].version
          /\ ledger'[i].action \in Numbered => ledger'[i].version # 0
    <3>. SUFFICES ASSUME NEW i \in 1..(n + 1)
                  PROVE  /\ ledger'[i].version <= segmentVersion'
                         /\ ledger'[i].seq = ledger'[i].version
                         /\ ledger'[i].action \in Numbered => ledger'[i].version # 0
      BY <1>3
    <3>1. CASE i = n + 1
      BY <1>1, <1>2, <1>3, <3>1
    <3>2. CASE i # n + 1
      <4>1. i \in DOMAIN ledger /\ ledger'[i] = ledger[i]
        BY <1>2, <1>3, <3>2
      <4>2. /\ ledger[i].version \in Nat
            /\ ledger[i].version <= segmentVersion
            /\ ledger[i].seq = ledger[i].version
            /\ ledger[i].action \in Numbered => ledger[i].version # 0
        BY <4>1, ChangeType DEF IInv, NumbersInv
      <4>. QED  BY <1>1, <1>2, <4>1, <4>2
    <3>. QED  BY <3>1, <3>2
  <2>3. HasLargest({0} \cup {ledger'[i].processed : i \in Versioned'})
    <3>. DEFINE S == {0} \cup {ledger[i].processed : i \in Versioned}
                T == {0} \cup {ledger'[i].processed : i \in Versioned'}
    <3>1. S \in SUBSET Nat /\ HasLargest(S)
      BY ChangeType DEF IInv, NumbersInv, Versioned
    <3>2. ch.processed \in Nat
      BY <1>1 DEF Change
    <3>3. CASE a = "issue"
      <4>1. Versioned' = Versioned
        BY <1>1, <1>2, <1>3, <3>3 DEF Versioned
      <4>2. \A i \in Versioned : ledger'[i] = ledger[i]
        BY <1>2, <1>3 DEF Versioned
      <4>. QED  BY <3>1, <4>1, <4>2
    <3>4. CASE a # "issue"
      <4>1. Versioned' = Versioned \cup {n + 1}
        BY <1>1, <1>2, <1>3, <3>4 DEF Versioned
      <4>2. \A i \in Versioned : ledger'[i] = ledger[i]
        BY <1>2, <1>3 DEF Versioned
      <4>3. T = S \cup {ch.processed}
        BY <1>3, <4>1, <4>2
      <4>. QED  BY <3>1, <3>2, <4>3, LargestOfMore
    <3>. QED  BY <3>3, <3>4
  <2>. QED  BY <2>1, <2>2, <2>3 DEF NumbersInv
<1>8. BoundInv'
  <2>1. a = "issue" => status = "Bound"
    BY <1>1 DEF Permitted, Applies, AllowedFrom
  <2>. QED  BY <1>1, <1>2, <2>1 DEF IInv, BoundInv, IssuedOnce
<1>9. DenseInv'
  <2>1. ASSUME NEW m \in 1..segmentVersion'
        PROVE  \E i \in DOMAIN ledger' : ledger'[i].version = m
    <3>1. CASE m = segmentVersion + 1
      BY <1>1, <1>2, <1>3, <2>1, <3>1
    <3>2. CASE m # segmentVersion + 1
      <4>1. m \in 1..segmentVersion
        BY <1>1, <1>2, <2>1, <3>2
      <4>2. PICK i \in DOMAIN ledger : ledger[i].version = m
        BY <4>1 DEF IInv, DenseInv
      <4>3. i \in DOMAIN ledger' /\ ledger'[i] = ledger[i]
        BY <1>2, <1>3, <4>2
      <4>. QED  BY <4>2, <4>3
    <3>. QED  BY <3>1, <3>2
  <2>2. ASSUME NEW i \in 1..(n + 1), NEW j \in 1..(n + 1), i < j,
               ledger'[i].action \in Numbered, ledger'[j].action \in Numbered
        PROVE  ledger'[i].version < ledger'[j].version /\ ledger'[i].seq < ledger'[j].seq
    <3>1. i \in 1..n /\ i \in DOMAIN ledger /\ ledger'[i] = ledger[i]
      BY <1>2, <1>3, <2>2
    <3>2. CASE j = n + 1
      <4>1. /\ ledger[i].version \in Nat /\ ledger[i].version <= segmentVersion
            /\ ledger[i].seq = ledger[i].version
        BY <3>1, ChangeType DEF IInv, NumbersInv
      <4>. QED  BY <1>1, <1>2, <1>3, <2>2, <3>1, <3>2, <4>1
    <3>3. CASE j # n + 1
      <4>1. j \in 1..n /\ j \in DOMAIN ledger /\ ledger'[j] = ledger[j]
        BY <1>2, <1>3, <3>3
      <4>. QED  BY <2>2, <3>1, <4>1 DEF IInv, DenseInv
    <3>. QED  BY <3>2, <3>3
  <2>. QED  BY <1>3, <2>1, <2>2 DEF DenseInv
<1>10. HistoryIsLinear'
  <2>1. status' = IF ledger' = <<>> THEN "Bound" ELSE ledger'[Len(ledger')].to
    BY <1>1, <1>2, <1>3
  <2>2. ASSUME NEW i \in 1..(n + 1)
        PROVE  /\ ledger'[i].from = IF i = 1 THEN "Bound" ELSE ledger'[i - 1].to
               /\ ledger'[i].action # "endorse" => Applies(ledger'[i].action, ledger'[i].from)
    <3>1. CASE i = n + 1
      <4>1. status = IF n = 0 THEN "Bound" ELSE ledger[n].to
        <5>1. n = 0 <=> ledger = <<>>
          BY <1>2 DEF n
        <5>2. status = IF ledger = <<>> THEN "Bound" ELSE ledger[n].to
          BY DEF IInv, HistoryIsLinear, n
        <5>. QED  BY <5>1, <5>2
      <4>2. n # 0 => n \in 1..n /\ ledger'[n] = ledger[n] /\ (n + 1) - 1 = n
        BY <1>2, <1>3
      <4>3. a # "endorse" => Applies(a, status)
        BY <1>1 DEF Permitted
      <4>. QED  BY <1>1, <1>2, <1>3, <3>1, <4>1, <4>2, <4>3
    <3>2. CASE i # n + 1
      <4>1. i \in 1..n /\ i \in DOMAIN ledger /\ ledger'[i] = ledger[i]
        BY <1>2, <1>3, <3>2
      <4>2. i # 1 => i - 1 \in 1..n /\ ledger'[i - 1] = ledger[i - 1]
        BY <1>2, <1>3, <4>1
      <4>. QED  BY <4>1, <4>2 DEF IInv, HistoryIsLinear
    <3>. QED  BY <3>1, <3>2
  <2>. QED  BY <1>3, <2>1, <2>2 DEF HistoryIsLinear
<1>. QED  BY <1>4, <1>5, <1>6, <1>7, <1>8, <1>9, <1>10 DEF IInv
-----------------------------------------------------------------------------
\* Every step preserves the invariant.
LEMMA NextPreserves == IInv /\ [Next]_vars => IInv'
<1>. SUFFICES ASSUME IInv, [Next]_vars PROVE IInv'
  OBVIOUS
<1>1. ASSUME NEW c \in Client, NEW a \in Servicing,
             NEW e \in {NoExpectation, CurrentTimelineVersion}, Begin(c, a, e)
      PROVE  IInv'
  BY <1>1, BeginPreserves
<1>2. ASSUME NEW c \in Client, Gate(c) PROVE IInv'
  BY <1>2, GatePreserves
<1>3. ASSUME NEW c \in Client, Acquire(c) PROVE IInv'
  BY <1>3, AcquirePreserves
<1>4. ASSUME NEW c \in Client, RefuseStale(c) PROVE IInv'
  BY <1>4, EndPreserves DEF RefuseStale
<1>5. ASSUME NEW c \in Client, Prepare(c) PROVE IInv'
  BY <1>5, PreparePreserves
<1>6. ASSUME NEW c \in Client, Refuse(c) PROVE IInv'
  BY <1>6, EndPreserves DEF Refuse
<1>7. ASSUME NEW c \in Client, Commit(c) PROVE IInv'
  BY <1>7, CommitPreserves
<1>8. ASSUME NEW c \in Client, Fail(c) PROVE IInv'
  BY <1>8, EndPreserves DEF Fail
<1>9. CASE UNCHANGED vars
  <2>1. UNCHANGED policyVars
    BY <1>9 DEF vars, policyVars
  <2>2. TypeOK' /\ LockInv' /\ RequestInv' /\ LoadedInv' /\ AcceptedInv'
    BY <1>9 DEF IInv, vars, TypeOK, LockInv, RequestInv, LoadedInv, Loaded, AcceptedInv,
                Permitted
  <2>. QED  BY <2>1, <2>2, RowsUnchanged DEF IInv
<1>. QED  BY <1>1, <1>2, <1>3, <1>4, <1>5, <1>6, <1>7, <1>8, <1>9 DEF Next

\* No step takes the timeline version back.
LEMMA VersionGrows == IInv /\ [Next]_vars => segmentVersion' >= segmentVersion
<1>. SUFFICES ASSUME IInv, [Next]_vars PROVE segmentVersion' >= segmentVersion
  OBVIOUS
<1>. segmentVersion \in Nat
  BY DEF IInv, TypeOK
<1>1. ASSUME NEW c \in Client, Commit(c) PROVE segmentVersion' >= segmentVersion
  BY <1>1, CommitEffect
<1>2. (\A c \in Client : ~Commit(c)) => segmentVersion' = segmentVersion
  BY DEF Next, vars, policyVars, Begin, Gate, Acquire, RefuseStale, Prepare, Refuse, Fail
<1>. QED  BY <1>1, <1>2

\* Every step preserves what the gate saw of a named version.
LEMMA GatePreserved == IInv /\ GateInv /\ [Next]_vars => GateInv'
<1>. SUFFICES ASSUME IInv, GateInv, [Next]_vars, NEW d \in Client PROVE Gated(d)'
  BY DEF GateInv
<1>1. /\ segmentVersion \in Nat /\ segmentVersion' \in Nat
      /\ segmentVersion' >= segmentVersion
      /\ CurrentTimelineVersion = segmentVersion
  BY VersionGrows, NextPreserves, CurrentVersion DEF IInv, TypeOK
<1>2. /\ req[d] \in Request /\ Gated(d)
      /\ req[d].expected \in Nat \cup {NoExpectation} /\ req[d].gateSaw \in Nat
  BY DEF IInv, TypeOK, GateInv, Request
<1>a. req \in [Client -> Request] /\ pc \in [Client -> {"idle", "gate", "waiting", "locked", "writing"}]
  BY DEF IInv, TypeOK
<1>3. ASSUME UNCHANGED <<req[d], pc[d]>> PROVE Gated(d)'
  BY <1>1, <1>2, <1>3 DEF Gated, NoExpectation
<1>4. ASSUME NEW c \in Client, EndTransaction(c) PROVE Gated(d)'
  BY <1>3, <1>4, <1>a DEF EndTransaction, Gated, NoRequest
<1>5. ASSUME NEW c \in Client, NEW a \in Servicing,
             NEW e \in {NoExpectation, CurrentTimelineVersion}, Begin(c, a, e)
      PROVE  Gated(d)'
  <2>1. CASE d = c
    <3>1. req'[d].expected = e /\ pc'[d] = "gate"
      BY <1>5, <2>1, <1>a DEF Begin, NoRequest
    <3>. QED  BY <1>1, <1>5, <3>1 DEF Gated
  <2>2. CASE d # c
    BY <1>3, <1>5, <2>2, <1>a DEF Begin
  <2>. QED  BY <2>1, <2>2
<1>6. ASSUME NEW c \in Client, Gate(c) PROVE Gated(d)'
  <2>1. CASE d = c
    <3>1. /\ req'[d].expected = req[d].expected /\ req'[d].gateSaw = segmentVersion
          /\ pc[d] = "gate" /\ pc'[d] = "waiting"
      BY <1>1, <1>2, <1>6, <2>1, <1>a DEF Gate, Request
    <3>. QED  BY <1>1, <1>2, <3>1 DEF Gated
  <2>2. CASE d # c
    BY <1>3, <1>6, <2>2, <1>a DEF Gate
  <2>. QED  BY <2>1, <2>2
<1>7. ASSUME NEW c \in Client, Acquire(c) PROVE Gated(d)'
  BY <1>1, <1>2, <1>7, <1>a DEF Acquire, Gated
<1>8. ASSUME NEW c \in Client, Prepare(c) PROVE Gated(d)'
  <2>1. CASE d = c
    <3>1. /\ req'[d].expected = req[d].expected /\ req'[d].gateSaw = req[d].gateSaw
          /\ pc[d] = "locked" /\ pc'[d] = "writing"
      BY <1>2, <1>8, <2>1, <1>a DEF Prepare, Request
    <3>. QED  BY <1>1, <1>2, <3>1 DEF Gated
  <2>2. CASE d # c
    BY <1>3, <1>8, <2>2, <1>a DEF Prepare
  <2>. QED  BY <2>1, <2>2
<1>9. CASE UNCHANGED vars
  BY <1>3, <1>9 DEF vars
<1>. QED  BY <1>4, <1>5, <1>6, <1>7, <1>8, <1>9
          DEF Next, RefuseStale, Refuse, Commit, Fail

THEOREM Invariance == Spec => []IInv
<1>. QED  BY InitInv, NextPreserves, PTL DEF Spec

\* Every variable keeps its type, for any clients and any number of requests.
THEOREM TypeCorrect == Spec => []TypeOK
<1>1. IInv => TypeOK
  BY DEF IInv
<1>. QED  BY <1>1, Invariance, PTL

\* The committed changes are one legal line of history, each applied to what the
\* one before it left (lockPolicyForMutation serializes the transactions).
THEOREM LinearHistory == Spec => []HistoryIsLinear
<1>1. IInv => HistoryIsLinear
  BY DEF IInv
<1>. QED  BY <1>1, Invariance, PTL

\* A policy's issue documents and events are produced at most once.
THEOREM IssueEffectsOnce == Spec => []IssuedOnce
<1>1. IInv => IssuedOnce
  BY DEF IInv, BoundInv
<1>. QED  BY <1>1, Invariance, PTL

\* Versions are dense, in commit order, and the same in both tables, and no servicing
\* request is turned away by a unique index of migration 050.
THEOREM DenseTimeline == Spec => []TimelineIsDense
<1>1. ASSUME IInv, NEW c \in Client, pc[c] = "writing" PROVE IndexesAccept(req[c])
  <2>1. /\ req[c].version = IF req[c].action \in Numbered THEN segmentVersion + 1 ELSE 0
        /\ req[c].seq = req[c].version
    BY <1>1 DEF IInv, LoadedInv, Loaded
  <2>2. SequenceNumbers = Versions
    BY <1>1 DEF IInv, NumbersInv, SequenceNumbers, Versions
  <2>3. \A m \in Versions : m \in Nat /\ m <= segmentVersion
    BY <1>1, ChangeType DEF IInv, NumbersInv, Versions
  <2>4. segmentVersion \in Nat
    BY <1>1 DEF IInv, TypeOK
  <2>. QED  BY <2>1, <2>2, <2>3, <2>4 DEF IndexesAccept, Null
<1>2. IInv => TimelineIsDense
  BY <1>1, CurrentVersion DEF IInv, DenseInv, TimelineIsDense
<1>. QED  BY <1>2, Invariance, PTL

\* A request commits only while the timeline version it names is current, and it is the
\* version the validation gate saw without the lock.
THEOREM AcceptedCurrent == Spec => AcceptedVersionIsCurrent
<1>1. Init => GateInv
  BY DEF Init, GateInv, Gated
<1>2. IInv /\ GateInv => \A c \in Client :
        Commits(c) /\ req[c].expected # NoExpectation
          => /\ req[c].expected = CurrentTimelineVersion
             /\ req[c].gateSaw = CurrentTimelineVersion
  <2>. SUFFICES ASSUME IInv, GateInv, NEW c \in Client, pc[c] = "writing",
                       req[c].expected # NoExpectation
                PROVE  /\ req[c].expected = CurrentTimelineVersion
                       /\ req[c].gateSaw = CurrentTimelineVersion
    BY DEF Commits
  <2>1. req[c].expected = segmentVersion
    BY DEF IInv, AcceptedInv
  <2>2. req[c].expected <= req[c].gateSaw /\ req[c].gateSaw <= segmentVersion
    BY DEF GateInv, Gated
  <2>3. segmentVersion \in Nat /\ req[c].gateSaw \in Nat
    BY DEF IInv, TypeOK, Request
  <2>. QED  BY <2>1, <2>2, <2>3, CurrentVersion DEF IInv
<1>. QED  BY <1>1, <1>2, GatePreserved, Invariance, PTL DEF Spec, AcceptedVersionIsCurrent
-----------------------------------------------------------------------------
\* The operations applied, as the policy ledger records them.
Applied == [i \in DOMAIN ledger |->
              [action |-> ledger[i].action, from |-> ledger[i].from, to |-> ledger[i].to]]

\* Both specifications read the same transition table.
LEMMA SameTable ==
  /\ Ledger!AllowedFrom = AllowedFrom
  /\ Ledger!ToState = ToState
  /\ Ledger!KeepsStatus = KeepsStatus
  /\ Ledger!Numbered = Numbered
  /\ Ledger!Servicing = Servicing
BY DEF Ledger!AllowedFrom, AllowedFrom, Ledger!ToState, ToState, Ledger!KeepsStatus,
       KeepsStatus, Ledger!Numbered, Numbered, Ledger!Servicing, Servicing,
       Ledger!PolicyAction, PolicyAction

\* A step of the detailed specification is one operation of the ledger or none.
LEMMA StepImplements ==
  ASSUME IInv, [Next]_vars
  PROVE  [Ledger!LedgerNext]_<<status, segmentVersion, Applied>>
<1>1. ASSUME NEW c \in Client, Commit(c) PROVE Ledger!LedgerNext
  <2>. DEFINE a == req[c].action
              ch == ChangeOf(req[c])
              n == Len(ledger)
              entry == [action |-> a, from |-> status, to |-> status']
  <2>1. /\ a \in Servicing /\ Permitted(a) /\ status' = Result(a, status)
        /\ segmentVersion' = IF a \in Numbered THEN segmentVersion + 1 ELSE segmentVersion
        /\ ledger' = Append(ledger, ch) /\ ch \in Change
        /\ ch.action = a /\ ch.from = status /\ ch.to = status'
    BY <1>1, CommitEffect
  <2>2. ledger \in Seq(Change) /\ n \in Nat /\ DOMAIN ledger = 1..n
    BY DEF IInv, TypeOK
  <2>. HIDE DEF a, ch
  <2>3. /\ DOMAIN ledger' = 1..(n + 1)
        /\ \A i \in 1..n : ledger'[i] = ledger[i]
        /\ ledger'[n + 1] = ch
    BY <2>1, <2>2
  <2>. HIDE DEF n
  <2>4. Applied' = Append(Applied, entry)
    <3>. DEFINE E == [action : Servicing, from : LifecycleState, to : LifecycleState]
    <3>1. \A i \in 1..n : [action |-> ledger[i].action, from |-> ledger[i].from,
                           to |-> ledger[i].to] \in E
      <4>1. \A i \in 1..n : ledger[i] \in Change
        BY <2>2
      <4>. QED  BY <4>1 DEF Change
    <3>2. Applied \in Seq(E) /\ Len(Applied) = n
      BY <2>2, <3>1 DEF Applied
    <3>3. Applied' = [i \in 1..(n + 1) |-> IF i = n + 1 THEN entry ELSE Applied[i]]
      BY <2>1, <2>2, <2>3 DEF Applied
    <3>4. Append(Applied, entry) = [i \in 1..(n + 1) |-> IF i = n + 1 THEN entry ELSE Applied[i]]
      BY <2>2, <3>2
    <3>. QED  BY <3>3, <3>4
  <2>5. a = "endorse" \/ Applies(a, status)
    BY <2>1 DEF Permitted
  <2>6. PICK b \in Servicing : b = a
    BY <2>1
  <2>7. Ledger!Apply(b)
    BY <2>1, <2>4, <2>5, <2>6, SameTable
       DEF Ledger!Apply, Applied, Result, Applies, Ledger!Result, Ledger!Applies
  <2>. QED  BY <2>7, SameTable DEF Ledger!LedgerNext
<1>2. ASSUME UNCHANGED policyVars PROVE UNCHANGED <<status, segmentVersion, Applied>>
  BY <1>2 DEF policyVars, Applied
<1>3. CASE UNCHANGED vars
  BY <1>2, <1>3 DEF vars, policyVars
<1>4. CASE Next
  BY <1>1, <1>2, <1>4 DEF Next, Begin, Gate, Acquire, RefuseStale, Prepare, Refuse, Fail
<1>. QED  BY <1>3, <1>4

\* Concurrent servicing implements the one-operation-at-a-time policy ledger.
THEOREM RefinesLedger == Spec => ImplementsLedger
<1>1. Init => Ledger!LedgerInit
  <2>. SUFFICES ASSUME Init PROVE Ledger!LedgerInit
    OBVIOUS
  <2>1. Applied = <<>>
    BY DEF Init, Applied
  <2>. QED  BY <2>1 DEF Init, Ledger!LedgerInit, Applied
<1>2. IInv /\ [Next]_vars => [Ledger!LedgerNext]_<<status, segmentVersion, Applied>>
  BY StepImplements
<1>. QED  BY <1>1, <1>2, Invariance, PTL DEF Spec, ImplementsLedger, Ledger!LedgerSpec, Applied
=============================================================================
