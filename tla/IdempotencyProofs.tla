-------------------------- MODULE IdempotencyProofs --------------------------
(***************************************************************************)
(* One owner, one execution and one answer per key, for any attempts and    *)
(* bodies and any number of crashes and failed writes.                      *)
(*                                                                         *)
(* The row is written by key, by whoever has a write under way.  What keeps *)
(* a stale write from another's row is that, while connections hold, one    *)
(* attempt at most has a part in the key: it is at work, or has a write     *)
(* under way, or has carried the operation out and its failure was not      *)
(* recorded.                                                                *)
(***************************************************************************)
EXTENDS Idempotency, FiniteSetTheorems, TLAPS

\* What the row and the flags say of attempts, whatever connections do.
KeyInv ==
  /\ record.status = "none" =>
       committed = {} /\ writes = {} /\ InFlight = {} /\ told = [a \in Attempt |-> NoAttempt]
  /\ record.status = "completed" => record.by \in committed
  /\ \A a \in InFlight \cup committed : body[a] = record.hash
  /\ \A a \in Attempt : pc[a] = "new" =>
       /\ a \notin committed /\ a \notin finalized /\ told[a] = NoAttempt
       /\ \A w \in writes : w.by # a
  /\ \A w \in writes : /\ w.status = "completed" => w.by \in committed /\ w.via = "json"
                       /\ body[w.by] = record.hash
  /\ \A a \in Attempt : pc[a] = "completed" => a \in committed
  /\ \A a \in Attempt : told[a] # NoAttempt => told[a] \in committed /\ body[a] = record.hash

Busy(a) == a \in AtWork \/ \E w \in writes : w.by = a

\* It carried the operation out, and no failure of it was recorded.
Stands(a) == a \in committed /\ a \notin released

HasPart(a) == Busy(a) \/ Stands(a)

PartInv ==
  /\ \A a, b \in Attempt : HasPart(a) /\ HasPart(b) => a = b
  /\ \A a \in Attempt : HasPart(a) => record.status \in {"processing", "completed"}
  /\ \A a \in Attempt : Busy(a) => record.status = "processing"

WriteInv ==
  /\ \A v, w \in writes : v = w
  /\ \A a \in Attempt : pc[a] = "handling" => a \notin finalized
  /\ \A a \in Attempt : pc[a] \in {"completed", "failed"} => a \in finalized
  /\ \A w \in writes :
       /\ w.by \in finalized
       /\ IF w.via = "listener" THEN pc[w.by] = "over" /\ w.by \in plain
                                ELSE pc[w.by] = "recording"

\* What was answered, or is about to be, is what the row says.
ToldInv ==
  \A a \in Attempt :
    /\ told[a] # NoAttempt => record.status = "completed" /\ record.by = told[a]
    /\ pc[a] = "completed" => record.status = "completed" /\ record.by = a

ReleasedInv == \A a \in released : a \in refused \cup plain \/ pc[a] \in {"failed", "dead"}

IInv == TypeOK /\ KeyInv /\ (Connected => PartInv /\ WriteInv /\ ToldInv /\ ReleasedInv)

-----------------------------------------------------------------------------
LEMMA InitIInv == Init => IInv
<1>. SUFFICES ASSUME Init PROVE IInv
  OBVIOUS
<1>1. TypeOK
  BY FaultsAssumption DEF Init, TypeOK, RecordStatus
<1>2. KeyInv
  BY DEF Init, KeyInv, InFlight, AtWork
<1>3. PartInv /\ WriteInv /\ ToldInv /\ ReleasedInv
  BY DEF Init, PartInv, WriteInv, ToldInv, ReleasedInv, HasPart, Busy, Stands, AtWork
<1>. QED  BY <1>1, <1>2, <1>3 DEF IInv

\* The new owner finds nobody with a part in the key.
LEMMA OwnPreserves ==
  ASSUME IInv, NEW a \in Attempt, NEW b \in Body, Own(a, b)
  PROVE  IInv'
<1>1. TypeOK'
  BY DEF IInv, TypeOK, Own, Goto, RecordStatus
<1>2. KeyInv'
  BY DEF IInv, TypeOK, KeyInv, Own, Goto, Free, InFlight, AtWork
<1>3. ASSUME Connected' PROVE PartInv' /\ WriteInv' /\ ToldInv' /\ ReleasedInv'
  <2>1. PartInv /\ WriteInv /\ ToldInv /\ ReleasedInv
    BY <1>3 DEF IInv, Connected, Own
  <2>2. \A x \in Attempt : ~HasPart(x)
    BY <2>1 DEF IInv, KeyInv, PartInv, HasPart, Busy, Stands, Own, Free
  <2>3. \A x \in Attempt : HasPart(x)' => x = a
    BY <2>2 DEF IInv, TypeOK, HasPart, Busy, Stands, AtWork, Own, Goto
  <2>4. PartInv'
    BY <2>3 DEF PartInv, HasPart, Own
  <2>5. WriteInv'
    BY <2>1 DEF IInv, TypeOK, KeyInv, WriteInv, Own, Goto
  <2>6. ToldInv'
    BY <2>1 DEF IInv, TypeOK, KeyInv, ToldInv, Own, Free, Goto
  <2>7. ReleasedInv'
    BY <2>1 DEF IInv, TypeOK, KeyInv, ReleasedInv, Own, Goto
  <2>. QED  BY <2>4, <2>5, <2>6, <2>7
<1>. QED  BY <1>1, <1>2, <1>3 DEF IInv

\* Whoever is turned away is told of the operation that is recorded, or of none.
LEMMA TurnAwayPreserves ==
  ASSUME IInv, NEW a \in Attempt, NEW b \in Body, TurnAway(a, b)
  PROVE  IInv'
<1>1. TypeOK'
  BY DEF IInv, TypeOK, TurnAway, Goto
<1>2. KeyInv'
  BY DEF IInv, TypeOK, KeyInv, TurnAway, Goto, Free, InFlight, AtWork
<1>3. ASSUME Connected' PROVE PartInv' /\ WriteInv' /\ ToldInv' /\ ReleasedInv'
  <2>1. PartInv /\ WriteInv /\ ToldInv /\ ReleasedInv
    BY <1>3 DEF IInv, Connected, TurnAway
  <2>2. \A x \in Attempt : (Busy(x)' => Busy(x)) /\ (HasPart(x)' => HasPart(x))
    BY DEF IInv, TypeOK, KeyInv, HasPart, Busy, Stands, AtWork, AtWork, TurnAway, Goto
  <2>3. PartInv'
    BY <2>1, <2>2 DEF PartInv, TurnAway
  <2>4. WriteInv'
    BY <2>1 DEF IInv, TypeOK, KeyInv, WriteInv, TurnAway, Goto
  <2>5. ToldInv'
    BY <2>1 DEF IInv, TypeOK, KeyInv, ToldInv, TurnAway, Goto
  <2>6. ReleasedInv'
    BY <2>1 DEF IInv, TypeOK, KeyInv, ReleasedInv, TurnAway, Goto
  <2>. QED  BY <2>3, <2>4, <2>5, <2>6
<1>. QED  BY <1>1, <1>2, <1>3 DEF IInv

LEMMA WorkPreserves ==
  ASSUME IInv, NEW a \in Attempt, Work(a)
  PROVE  IInv'
<1>1. TypeOK'
  BY DEF IInv, TypeOK, Work
<1>2. KeyInv'
  BY DEF IInv, TypeOK, KeyInv, Work, InFlight, AtWork
<1>3. ASSUME Connected' PROVE PartInv' /\ WriteInv' /\ ToldInv' /\ ReleasedInv'
  <2>1. PartInv /\ WriteInv /\ ToldInv /\ ReleasedInv
    BY <1>3 DEF IInv, Connected, Work
  <2>2. \A x \in Attempt : (Busy(x)' => Busy(x)) /\ (HasPart(x)' => HasPart(x))
    BY DEF HasPart, Busy, Stands, AtWork, Work
  <2>3. PartInv'
    BY <2>1, <2>2 DEF PartInv, Work
  <2>4. WriteInv' /\ ToldInv'
    BY <2>1 DEF WriteInv, ToldInv, Work
  <2>5. ReleasedInv'
    BY <2>1 DEF IInv, TypeOK, KeyInv, ReleasedInv, Work, Goto
  <2>. QED  BY <2>3, <2>4, <2>5
<1>. QED  BY <1>1, <1>2, <1>3 DEF IInv

\* A handler that responds has no write under way.
LEMMA HandlerHasNoWrite ==
  ASSUME IInv, Connected, NEW a \in Attempt, pc[a] = "handling"
  PROVE  writes = {} /\ a \notin finalized
<1>1. Busy(a) /\ HasPart(a)
  BY DEF Busy, HasPart, AtWork
<1>2. \A w \in writes : w.by \in Attempt /\ HasPart(w.by)
  BY DEF IInv, TypeOK, Write, HasPart, Busy
<1>. QED  BY <1>1, <1>2 DEF IInv, PartInv, WriteInv

LEMMA RespondJsonPreserves ==
  ASSUME IInv, NEW a \in Attempt, NEW s \in {"completed", "failed"}, RespondJson(a, s)
  PROVE  IInv'
<1>. DEFINE w == [by |-> a, status |-> s, via |-> "json"]
<1>1. w \in Write /\ w.by = a /\ w.status = s /\ w.via = "json"
  BY DEF Write
<1>2. writes' = writes \cup {w}
  BY DEF RespondJson
<1>. HIDE DEF w
<1>3. TypeOK'
  BY <1>1, <1>2 DEF IInv, TypeOK, RespondJson, Goto
<1>4. KeyInv'
  BY <1>1, <1>2 DEF IInv, TypeOK, KeyInv, RespondJson, Goto, InFlight, AtWork
<1>5. ASSUME Connected' PROVE PartInv' /\ WriteInv' /\ ToldInv' /\ ReleasedInv'
  <2>1. PartInv /\ WriteInv /\ ToldInv /\ ReleasedInv
    BY <1>5 DEF IInv, Connected, RespondJson
  <2>2. writes = {}
    BY <1>5, HandlerHasNoWrite DEF Connected, RespondJson
  <2>3. \A x \in Attempt : (Busy(x)' => Busy(x)) /\ (HasPart(x)' => HasPart(x))
    BY <1>1, <1>2 DEF IInv, TypeOK, HasPart, Busy, Stands, AtWork, RespondJson, Goto
  <2>4. PartInv'
    BY <2>1, <2>3 DEF PartInv, RespondJson
  <2>5. WriteInv'
    BY <1>1, <1>2, <2>1, <2>2 DEF IInv, TypeOK, WriteInv, RespondJson, Goto
  <2>6. ToldInv'
    BY <2>1 DEF IInv, TypeOK, ToldInv, RespondJson, Goto
  <2>7. ReleasedInv'
    BY <2>1 DEF IInv, TypeOK, KeyInv, ReleasedInv, RespondJson, Goto
  <2>. QED  BY <2>4, <2>5, <2>6, <2>7
<1>. QED  BY <1>3, <1>4, <1>5 DEF IInv

LEMMA RespondPlainPreserves ==
  ASSUME IInv, NEW a \in Attempt, RespondPlain(a)
  PROVE  IInv'
<1>. DEFINE w == [by |-> a, status |-> "failed", via |-> "listener"]
<1>1. w \in Write /\ w.by = a /\ w.status = "failed" /\ w.via = "listener"
  BY DEF Write
<1>2. writes' \subseteq writes \cup {w}
  BY DEF RespondPlain, FailedIfUnfinished
<1>. HIDE DEF w
<1>3. TypeOK'
  BY <1>1, <1>2 DEF IInv, TypeOK, RespondPlain, Goto
<1>4. KeyInv'
  BY <1>1, <1>2 DEF IInv, TypeOK, KeyInv, RespondPlain, Goto, InFlight, AtWork
<1>5. ASSUME Connected' PROVE PartInv' /\ WriteInv' /\ ToldInv' /\ ReleasedInv'
  <2>1. PartInv /\ WriteInv /\ ToldInv /\ ReleasedInv
    BY <1>5 DEF IInv, Connected, RespondPlain
  <2>2. writes = {}
    BY <1>5, HandlerHasNoWrite DEF Connected, RespondPlain
  <2>3. \A x \in Attempt : (Busy(x)' => Busy(x)) /\ (HasPart(x)' => HasPart(x))
    BY <1>1, <1>2 DEF IInv, TypeOK, HasPart, Busy, Stands, AtWork, RespondPlain, Goto
  <2>4. PartInv'
    BY <2>1, <2>3 DEF PartInv, RespondPlain
  <2>5. WriteInv'
    BY <1>1, <1>2, <1>5, <2>1, <2>2
    DEF IInv, TypeOK, WriteInv, RespondPlain, Goto, Connected
  <2>6. ToldInv'
    BY <2>1 DEF IInv, TypeOK, ToldInv, RespondPlain, Goto
  <2>7. ReleasedInv'
    BY <2>1 DEF IInv, TypeOK, KeyInv, ReleasedInv, RespondPlain, Goto
  <2>. QED  BY <2>4, <2>5, <2>6, <2>7
<1>. QED  BY <1>3, <1>4, <1>5 DEF IInv

LEMMA ClosePreserves ==
  ASSUME IInv, NEW a \in Attempt, Close(a)
  PROVE  IInv'
<1>. DEFINE w == [by |-> a, status |-> "failed", via |-> "listener"]
<1>1. w \in Write /\ w.by = a /\ w.status = "failed"
  BY DEF Write
<1>2. writes' \subseteq writes \cup {w}
  BY DEF Close, FailedIfUnfinished
<1>. HIDE DEF w
<1>3. TypeOK'
  BY <1>1, <1>2 DEF IInv, TypeOK, Close
<1>4. KeyInv'
  BY <1>1, <1>2 DEF IInv, TypeOK, KeyInv, Close, InFlight, AtWork
<1>5. ~Connected'
  BY DEF Connected, Close
<1>. QED  BY <1>3, <1>4, <1>5 DEF IInv

\* A write whose attempt has the only part in the key: nothing else is under way.
LEMMA OnlyWrite ==
  ASSUME IInv, Connected, NEW w \in writes
  PROVE  /\ w.by \in Attempt /\ w.by \in finalized
         /\ writes \ {w} = {} /\ record.status = "processing"
         /\ \A a \in Attempt : HasPart(a) => a = w.by
         /\ \A a \in Attempt : told[a] = NoAttempt /\ pc[a] # "completed"
<1>1. w.by \in Attempt /\ Busy(w.by) /\ HasPart(w.by)
  BY DEF IInv, TypeOK, Write, HasPart, Busy
<1>2. record.status = "processing" /\ \A a \in Attempt : HasPart(a) => a = w.by
  BY <1>1 DEF IInv, PartInv
<1>3. w.by \in finalized /\ writes \ {w} = {}
  BY DEF IInv, WriteInv
<1>. QED  BY <1>1, <1>2, <1>3 DEF IInv, ToldInv

\* The outcome of the attempt that has the part is recorded, and its part ends
\* unless it was a success.
LEMMA FinalizePreserves ==
  ASSUME IInv, NEW w \in writes, Finalize(w)
  PROVE  IInv'
<1>0. /\ w \in Write /\ w.by \in Attempt /\ w.status \in {"completed", "failed"}
      /\ w.via \in {"json", "error", "listener"}
      /\ w.status = "completed" => w.by \in committed /\ w.via = "json"
  BY DEF IInv, TypeOK, KeyInv, Write
<1>1. writes' = writes \ {w}
  BY DEF Finalize
<1>2. /\ record' \in [status : RecordStatus, hash : Body \cup {"none"},
                      by : Attempt \cup {NoAttempt}]
      /\ record'.status = w.status /\ record'.hash = record.hash
      /\ record'.by = IF w.status = "completed" THEN w.by ELSE NoAttempt
  BY <1>0 DEF IInv, TypeOK, Finalize, Stored, RecordStatus
<1>3. pc' = IF w.via = "listener" THEN pc ELSE [pc EXCEPT ![w.by] = w.status]
  BY DEF Finalize, Goto
<1>4. released' = IF w.status = "failed" THEN released \cup {w.by} ELSE released
  BY DEF Finalize
<1>5. UNCHANGED <<body, committed, finalized, gone, refused, told, plain, faults>>
  BY DEF Finalize
<1>6. TypeOK'
  BY <1>0, <1>1, <1>2, <1>3, <1>4, <1>5 DEF IInv, TypeOK
<1>7. KeyInv'
  <2>1. record'.status # "none" /\ record.status # "none"
    BY <1>0, <1>2, <1>5 DEF IInv, KeyInv
  <2>2. record'.status = "completed" => record'.by \in committed'
    BY <1>0, <1>2, <1>5 DEF IInv, KeyInv
  <2>3. \A a \in Attempt : a \in InFlight' => a \in InFlight \/ a = w.by
    BY <1>0, <1>2, <1>3, <1>5 DEF IInv, TypeOK, InFlight, AtWork
  <2>4. body[w.by] = record.hash
    BY DEF IInv, KeyInv
  <2>5. \A a \in InFlight' \cup committed' : body'[a] = record'.hash
    BY <1>0, <1>2, <1>3, <1>5, <2>3, <2>4 DEF IInv, KeyInv, InFlight, AtWork
  <2>6. \A a \in Attempt : pc'[a] = "new" => pc[a] = "new" /\ a # w.by
    BY <1>0, <1>2, <1>3, <1>5 DEF IInv, TypeOK, KeyInv
  <2>7. \A v \in writes' : v \in writes \/ (v.by = w.by /\ v.status = "failed")
    BY <1>1
  <2>8. \A a \in Attempt : pc'[a] = "completed" => a \in committed'
    BY <1>0, <1>2, <1>3, <1>5 DEF IInv, TypeOK, KeyInv
  <2>9. \A a \in Attempt : pc'[a] = "new" =>
          /\ a \notin committed' /\ a \notin finalized' /\ told'[a] = NoAttempt
          /\ \A v \in writes' : v.by # a
    BY <1>0, <1>2, <1>3, <1>5, <2>6, <2>7 DEF IInv, KeyInv
  <2>10. \A v \in writes' : /\ v.status = "completed" => v.by \in committed' /\ v.via = "json"
                            /\ body'[v.by] = record'.hash
    BY <1>0, <1>2, <1>3, <1>5, <2>4, <2>7 DEF IInv, KeyInv
  <2>11. \A a \in Attempt :
           told'[a] # NoAttempt => told'[a] \in committed' /\ body'[a] = record'.hash
    BY <1>0, <1>2, <1>3, <1>5 DEF IInv, KeyInv
  <2>. QED  BY <2>1, <2>2, <2>5, <2>8, <2>9, <2>10, <2>11 DEF KeyInv
<1>8. ASSUME Connected' PROVE PartInv' /\ WriteInv' /\ ToldInv' /\ ReleasedInv'
  <2>1. Connected /\ PartInv /\ WriteInv /\ ToldInv /\ ReleasedInv
    BY <1>5, <1>8 DEF IInv, Connected
  <2>2. writes' = {}
    BY <1>1, <2>1, OnlyWrite
  <2>3. \A a \in Attempt : ~Busy(a)'
    <3>. SUFFICES ASSUME NEW a \in Attempt, a \in AtWork' PROVE FALSE
      BY <2>2 DEF Busy
    <3>1. a \in AtWork
      BY <1>0, <1>3 DEF IInv, TypeOK, AtWork
    <3>2. a = w.by
      BY <2>1, <3>1, OnlyWrite DEF HasPart, Busy
    <3>. QED  BY <1>0, <1>3, <2>1, <3>1, <3>2 DEF IInv, TypeOK, WriteInv, AtWork
  <2>4. \A a \in Attempt : HasPart(a)' => a = w.by /\ w.status = "completed"
    <3>. SUFFICES ASSUME NEW a \in Attempt, Stands(a)'
                  PROVE  a = w.by /\ w.status = "completed"
      BY <2>3 DEF HasPart
    <3>1. Stands(a)
      BY <1>4, <1>5 DEF Stands
    <3>2. a = w.by
      BY <2>1, <3>1, OnlyWrite DEF HasPart
    <3>. QED  BY <1>0, <1>4, <3>2 DEF Stands
  <2>5. PartInv'
    BY <1>2, <2>3, <2>4 DEF PartInv
  <2>6. WriteInv'
    BY <1>0, <1>3, <1>5, <2>1, <2>2 DEF IInv, TypeOK, WriteInv
  <2>7. ToldInv'
    BY <1>0, <1>2, <1>3, <1>5, <2>1, OnlyWrite DEF IInv, TypeOK, ToldInv
  <2>8. ReleasedInv'
    BY <1>0, <1>3, <1>4, <1>5, <2>1 DEF IInv, TypeOK, WriteInv, ReleasedInv
  <2>. QED  BY <2>5, <2>6, <2>7, <2>8
<1>. QED  BY <1>6, <1>7, <1>8 DEF IInv

\* The error handler's write takes the place of the one that failed.
LEMMA FinalizeFailsPreserves ==
  ASSUME IInv, NEW w \in writes, FinalizeFails(w)
  PROVE  IInv'
<1>. DEFINE e == [by |-> w.by, status |-> "failed", via |-> "error"]
            more == IF w.via = "json" THEN {e} ELSE {}
<1>0. /\ w \in Write /\ w.by \in Attempt /\ w.status \in {"completed", "failed"}
      /\ w.via \in {"json", "error", "listener"}
  BY DEF IInv, TypeOK, Write
<1>1. /\ more \in SUBSET Write
      /\ \A v \in more : v.by = w.by /\ v.status = "failed" /\ v.via = "error" /\ w.via = "json"
      /\ \A u, v \in more : u = v
  BY <1>0 DEF Write
<1>2. writes' = (writes \ {w}) \cup more
  BY DEF FinalizeFails
<1>. HIDE DEF more, e
<1>3. pc' = IF w.via = "error" THEN [pc EXCEPT ![w.by] = "failed"] ELSE pc
  BY DEF FinalizeFails, Goto
<1>4. UNCHANGED <<record, body, committed, finalized, gone, released, refused, told, plain>>
  BY DEF FinalizeFails
<1>5. TypeOK'
  <2>1. writes' \subseteq Write
    BY <1>1, <1>2 DEF IInv, TypeOK
  <2>2. pc' \in [Attempt -> {"new", "handling", "recording", "completed", "failed", "over", "dead"}]
    BY <1>0, <1>3 DEF IInv, TypeOK
  <2>3. faults' \in 0..MaxFaults
    BY FaultsAssumption DEF IInv, TypeOK, FinalizeFails, Fault
  <2>. QED  BY <1>4, <2>1, <2>2, <2>3 DEF IInv, TypeOK
<1>6. KeyInv'
  <2>1. record'.status # "none" /\ record.status # "none"
    BY <1>0, <1>4 DEF IInv, KeyInv
  <2>2. record'.status = "completed" => record'.by \in committed'
    BY <1>0, <1>4 DEF IInv, KeyInv
  <2>3. \A a \in Attempt : a \in InFlight' => a \in InFlight \/ a = w.by
    BY <1>0, <1>3, <1>4 DEF IInv, TypeOK, InFlight, AtWork
  <2>4. body[w.by] = record.hash
    BY DEF IInv, KeyInv
  <2>5. \A a \in InFlight' \cup committed' : body'[a] = record'.hash
    BY <1>0, <1>3, <1>4, <2>3, <2>4 DEF IInv, KeyInv, InFlight, AtWork
  <2>6. \A a \in Attempt : pc'[a] = "new" => pc[a] = "new" /\ a # w.by
    BY <1>0, <1>3, <1>4 DEF IInv, TypeOK, KeyInv
  <2>7. \A v \in writes' : v \in writes \/ (v.by = w.by /\ v.status = "failed")
    BY <1>1, <1>2
  <2>8. \A a \in Attempt : pc'[a] = "completed" => a \in committed'
    BY <1>0, <1>3, <1>4 DEF IInv, TypeOK, KeyInv
  <2>9. \A a \in Attempt : pc'[a] = "new" =>
          /\ a \notin committed' /\ a \notin finalized' /\ told'[a] = NoAttempt
          /\ \A v \in writes' : v.by # a
    BY <1>0, <1>3, <1>4, <2>6, <2>7 DEF IInv, KeyInv
  <2>10. \A v \in writes' : /\ v.status = "completed" => v.by \in committed' /\ v.via = "json"
                            /\ body'[v.by] = record'.hash
    BY <1>0, <1>3, <1>4, <2>4, <2>7 DEF IInv, KeyInv
  <2>11. \A a \in Attempt :
           told'[a] # NoAttempt => told'[a] \in committed' /\ body'[a] = record'.hash
    BY <1>0, <1>3, <1>4 DEF IInv, KeyInv
  <2>. QED  BY <2>1, <2>2, <2>5, <2>8, <2>9, <2>10, <2>11 DEF KeyInv
<1>7. ASSUME Connected' PROVE PartInv' /\ WriteInv' /\ ToldInv' /\ ReleasedInv'
  <2>1. Connected /\ PartInv /\ WriteInv /\ ToldInv /\ ReleasedInv
    BY <1>4, <1>7 DEF IInv, Connected
  <2>2. writes' = more
    BY <1>2, <2>1, OnlyWrite
  <2>3. \A a \in Attempt : Busy(a)' => Busy(a)
    <3>1. \A a \in Attempt : a \in AtWork' => a \in AtWork
      BY <1>0, <1>3 DEF IInv, TypeOK, AtWork
    <3>. QED  BY <1>1, <2>2, <3>1 DEF Busy
  <2>4. \A a \in Attempt : HasPart(a)' => HasPart(a)
    BY <1>4, <2>3 DEF HasPart, Stands
  <2>5. PartInv'
    BY <1>4, <2>1, <2>3, <2>4 DEF PartInv
  <2>6. WriteInv'
    BY <1>0, <1>1, <1>3, <1>4, <2>1, <2>2 DEF IInv, TypeOK, WriteInv
  <2>7. ToldInv'
    BY <1>0, <1>3, <1>4, <2>1, OnlyWrite DEF IInv, TypeOK, ToldInv
  <2>8. ReleasedInv'
    BY <1>0, <1>3, <1>4, <2>1 DEF IInv, TypeOK, ReleasedInv
  <2>. QED  BY <2>5, <2>6, <2>7, <2>8
<1>. QED  BY <1>5, <1>6, <1>7 DEF IInv

\* An answer changes nobody's part: the listener that follows it finds the outcome
\* settled.
LEMMA SendAnswerPreserves ==
  ASSUME IInv, NEW a \in Attempt, SendAnswer(a)
  PROVE  IInv'
<1>. DEFINE w == [by |-> a, status |-> "failed", via |-> "listener"]
<1>1. w \in Write /\ w.by = a /\ w.status = "failed" /\ w.via = "listener"
  BY DEF Write
<1>2. writes' \subseteq writes \cup {w} /\ writes \subseteq writes' /\ (a \in finalized => writes' = writes)
  BY DEF SendAnswer, FailedIfUnfinished
<1>. HIDE DEF w
<1>3. TypeOK'
  BY <1>1, <1>2 DEF IInv, TypeOK, SendAnswer, Goto
<1>4. KeyInv'
  BY <1>1, <1>2 DEF IInv, TypeOK, KeyInv, SendAnswer, Goto, InFlight, AtWork
<1>5. ASSUME Connected' PROVE PartInv' /\ WriteInv' /\ ToldInv' /\ ReleasedInv'
  <2>1. PartInv /\ WriteInv /\ ToldInv /\ ReleasedInv
    BY <1>5 DEF IInv, Connected, SendAnswer
  <2>2. writes' = writes
    BY <1>2, <2>1 DEF WriteInv, SendAnswer
  <2>3. \A x \in Attempt : (Busy(x)' => Busy(x)) /\ (HasPart(x)' => HasPart(x))
    BY <2>2 DEF IInv, TypeOK, HasPart, Busy, Stands, AtWork, SendAnswer, Goto
  <2>4. PartInv'
    BY <2>1, <2>3 DEF PartInv, SendAnswer
  <2>5. WriteInv'
    BY <2>1, <2>2 DEF IInv, TypeOK, WriteInv, SendAnswer, Goto
  <2>6. ToldInv'
    BY <2>1 DEF IInv, TypeOK, ToldInv, SendAnswer, Goto
  <2>7. ReleasedInv'
    BY <1>5, <2>1 DEF IInv, TypeOK, ReleasedInv, SendAnswer, Goto, Connected
  <2>. QED  BY <2>4, <2>5, <2>6, <2>7
<1>. QED  BY <1>3, <1>4, <1>5 DEF IInv

\* What a crash leaves has no more part in the key than before, and frees nothing.
LEMMA CrashPreserves ==
  ASSUME IInv, NEW a \in Attempt, Crash(a)
  PROVE  IInv'
<1>1. TypeOK'
  BY FaultsAssumption DEF IInv, TypeOK, Crash, Goto, Fault
<1>2. KeyInv'
  BY DEF IInv, TypeOK, KeyInv, Crash, Goto, InFlight, AtWork
<1>3. ASSUME Connected' PROVE PartInv' /\ WriteInv' /\ ToldInv' /\ ReleasedInv'
  <2>1. PartInv /\ WriteInv /\ ToldInv /\ ReleasedInv
    BY <1>3 DEF IInv, Connected, Crash
  <2>2. \A x \in Attempt : (Busy(x)' => Busy(x)) /\ (HasPart(x)' => HasPart(x))
    BY DEF IInv, TypeOK, HasPart, Busy, Stands, AtWork, Crash, Goto
  <2>3. PartInv'
    BY <2>1, <2>2 DEF PartInv, Crash
  <2>4. WriteInv'
    BY <2>1 DEF IInv, TypeOK, WriteInv, Crash, Goto
  <2>5. ToldInv'
    BY <2>1 DEF IInv, TypeOK, ToldInv, Crash, Goto
  <2>6. ReleasedInv'
    BY <2>1 DEF IInv, TypeOK, KeyInv, ReleasedInv, Crash, Goto
  <2>. QED  BY <2>3, <2>4, <2>5, <2>6
<1>. QED  BY <1>1, <1>2, <1>3 DEF IInv

LEMMA NextIInv == IInv /\ [Next]_vars => IInv'
<1>. SUFFICES ASSUME IInv, [Next]_vars PROVE IInv'
  OBVIOUS
<1>1. CASE UNCHANGED vars
  BY <1>1 DEF IInv, vars, TypeOK, KeyInv, Connected, PartInv, WriteInv, ToldInv, ReleasedInv,
              HasPart, Busy, Stands, InFlight, AtWork
<1>2. CASE Next
  BY <1>2, OwnPreserves, TurnAwayPreserves, WorkPreserves, RespondJsonPreserves,
     RespondPlainPreserves, ClosePreserves, CrashPreserves, FinalizePreserves,
     FinalizeFailsPreserves, SendAnswerPreserves DEF Next
<1>. QED  BY <1>1, <1>2

LEMMA SpecIInv == Spec => []IInv
  BY InitIInv, NextIInv, PTL DEF Spec

-----------------------------------------------------------------------------
\* A set in which all are one has at most one member.
LEMMA AtMostOne ==
  ASSUME NEW S, \A x, y \in S : x = y
  PROVE  Cardinality(S) <= 1
<1>1. CASE S = {}
  BY <1>1, FS_EmptySet
<1>2. CASE S # {}
  <2>1. PICK x \in S : S = {x}
    BY <1>2
  <2>. QED  BY <2>1, FS_Singleton
<1>. QED  BY <1>1, <1>2

\* While connections hold, one handler works on a key at a time; the operation is
\* carried out again only after its failure was recorded, and whoever's failure was
\* recorded has been answered, is about to be, or lost its process before that.
THEOREM OneExecution == Spec => []ExecutedOnce
<1>1. IInv => ExecutedOnce
  <2>. SUFFICES ASSUME IInv PROVE ExecutedOnce
    OBVIOUS
  <2>1. ASSUME Connected PROVE Cardinality(AtWork) <= 1
    <3>1. \A x, y \in AtWork : x = y
      BY <2>1 DEF IInv, PartInv, HasPart, Busy, AtWork
    <3>. QED  BY <3>1, AtMostOne
  <2>2. ASSUME Connected PROVE Cardinality(committed \ released) <= 1
    <3>1. \A x, y \in committed \ released : x = y
      BY <2>2 DEF IInv, TypeOK, PartInv, HasPart, Stands
    <3>. QED  BY <3>1, AtMostOne
  <2>. QED  BY <2>1, <2>2 DEF IInv, ExecutedOnce, ReleasedInv
<1>. QED  BY <1>1, SpecIInv, PTL

\* Every JSON success of a key is one response, and one body is executed under it.
THEOREM OneResponse == Spec => []OneAnswer
<1>1. IInv => OneAnswer
  BY DEF IInv, TypeOK, KeyInv, ToldInv, OneAnswer
<1>. QED  BY <1>1, SpecIInv, PTL
=============================================================================
