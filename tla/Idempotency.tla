----------------------------- MODULE Idempotency -----------------------------
(***************************************************************************)
(* The Idempotency-Key middleware (server/src/lib/idempotency.ts) with the  *)
(* idempotency_keys table, for one key of one tenant: keys share nothing.   *)
(*                                                                         *)
(* A caller sends the request, and sends it again when it has no answer or  *)
(* does not like the one it got; every time it is sent is an attempt.  The  *)
(* attempt that reserves the key runs the handler; its outcome is recorded  *)
(* by a write that is awaited before a JSON response is sent, and by one    *)
(* nobody awaits when the connection closes or the response is not JSON.    *)
(* Recording and answering are two steps: a process may die between them.   *)
(* Attempts may be served by different processes.  A write that fails is    *)
(* one that did not commit: a commit whose acknowledgement is lost, which   *)
(* the code takes for a failure, is left out.                               *)
(***************************************************************************)
EXTENDS Naturals, FiniteSets

CONSTANTS
  Attempt,    \* the times a request with this key is sent
  NoAttempt,
  Body,       \* what is sent: method, path and body, as request_hash tells them apart
  MaxFaults   \* bound: crashes and failed writes in a behaviour

ASSUME NoAttemptAssumption == NoAttempt \notin Attempt
ASSUME FaultsAssumption    == MaxFaults \in Nat

VARIABLES
  record,     \* the idempotency_keys row: status ("none" before it is inserted),
              \* the hash, and the attempt whose response is stored
  pc,         \* where an attempt is in the middleware
  body,       \* what it sent
  committed,  \* the attempts whose operation committed
  finalized,  \* the attempts whose "finalized" flag is set
  writes,     \* calls of finalize that are under way
  gone,       \* the attempts whose connection closed before they were answered
  released,   \* the attempts whose failure was written to the row
  refused,    \* the attempts answered with an error or a 409
  told,       \* whose response an attempt was answered with, in a JSON 2xx
  plain,      \* the attempts answered with a 2xx that is not JSON
  faults

vars == <<record, pc, body, committed, finalized, writes, gone, released, refused, told, plain, faults>>

RecordStatus == {"none", "processing", "completed", "failed"}

\* A call of finalize: "via" is the JSON response, the error handler's JSON response
\* after a failed write, or the finish and close listeners, which nobody awaits.
Write == [by : Attempt, status : {"completed", "failed"}, via : {"json", "error", "listener"}]

\* The attempts whose outcome is not settled yet.
AtWork == {a \in Attempt : pc[a] \in {"handling", "recording"}}

\* Those not answered: the answer of "completed" and "failed" is about to go out.
InFlight == AtWork \cup {a \in Attempt : pc[a] \in {"completed", "failed"}}

-----------------------------------------------------------------------------
\* Mutant: a key may be taken over while it is being processed.
Free_Processing(b) == record.status \in {"none", "processing"} \/ (record.hash = b /\ record.status = "failed")

\* reserveDb makes the attempt the owner: the row is new, or a matching attempt failed.
Free(b) == record.status = "none" \/ (record.hash = b /\ record.status = "failed")

Init ==
  /\ record = [status |-> "none", hash |-> "none", by |-> NoAttempt]
  /\ pc = [a \in Attempt |-> "new"]
  /\ body = [a \in Attempt |-> "none"]
  /\ committed = {}
  /\ finalized = {}
  /\ writes = {}
  /\ gone = {}
  /\ released = {}
  /\ refused = {}
  /\ told = [a \in Attempt |-> NoAttempt]
  /\ plain = {}
  /\ faults = 0

Fault == faults < MaxFaults /\ faults' = faults + 1

Goto(a, step) == pc' = [pc EXCEPT ![a] = step]

Own(a, b) ==
  /\ pc[a] = "new"
  /\ Free(b)
  /\ record' = [status |-> "processing", hash |-> b, by |-> NoAttempt]
  /\ body' = [body EXCEPT ![a] = b]
  /\ Goto(a, "handling")
  /\ UNCHANGED <<committed, finalized, writes, gone, released, refused, told, plain, faults>>

\* IDEMPOTENCY_KEY_CONFLICT, IDEMPOTENCY_KEY_PROCESSING, or the stored response.
TurnAway(a, b) ==
  /\ pc[a] = "new"
  /\ ~Free(b)
  /\ body' = [body EXCEPT ![a] = b]
  /\ Goto(a, "over")
  /\ IF record.hash = b /\ record.status = "completed"
     THEN told' = [told EXCEPT ![a] = record.by] /\ UNCHANGED refused
     ELSE refused' = refused \cup {a} /\ UNCHANGED told
  /\ UNCHANGED <<record, committed, finalized, writes, gone, released, plain, faults>>

\* The handler's transaction commits (withTenantTx, which every route's handler uses).
Work(a) ==
  /\ pc[a] = "handling"
  /\ committed' = committed \cup {a}
  /\ UNCHANGED <<record, pc, body, finalized, writes, gone, released, refused, told, plain, faults>>

\* res.json, wrapped: the outcome goes to the table first.  A handler may also fail
\* after its transaction committed.
RespondJson(a, s) ==
  /\ pc[a] = "handling"
  /\ s = "completed" => a \in committed
  /\ Goto(a, "recording")
  /\ finalized' = finalized \cup {a}
  /\ writes' = writes \cup {[by |-> a, status |-> s, via |-> "json"]}
  /\ UNCHANGED <<record, body, committed, gone, released, refused, told, plain, faults>>

\* Mutants: the end of a response is not noticed, or noticed after one that was
\* recorded.
FailedIfUnfinished_Never(a)       == {}
FailedIfUnfinished_FlagIgnored(a) == {[by |-> a, status |-> "failed", via |-> "listener"]}

\* The finish and close listeners, markFailedIfUnfinished.
FailedIfUnfinished(a) ==
  IF a \in finalized THEN {} ELSE {[by |-> a, status |-> "failed", via |-> "listener"]}

\* res.status(204).end(), as routes/customers.routes.ts answers a deletion: nothing is
\* wrapped, and "finish" follows.
RespondPlain(a) ==
  /\ pc[a] = "handling"
  /\ a \in committed
  /\ Goto(a, "over")
  /\ plain' = IF a \in gone THEN plain ELSE plain \cup {a}
  /\ writes' = writes \cup FailedIfUnfinished(a)
  /\ finalized' = finalized \cup {a}
  /\ UNCHANGED <<record, body, committed, gone, released, refused, told, faults>>

\* The connection closes; the handler does not know.
Close(a) ==
  /\ a \in InFlight \ gone
  /\ gone' = gone \cup {a}
  /\ writes' = writes \cup FailedIfUnfinished(a)
  /\ finalized' = finalized \cup {a}
  /\ UNCHANGED <<record, pc, body, committed, released, refused, told, plain, faults>>

\* finalizeDb: the row is updated by its key, whoever owns it by now.
Stored(w) == [record EXCEPT !.status = w.status,
                            !.by = IF w.status = "completed" THEN w.by ELSE NoAttempt]

\* A call of finalize commits.  A JSON response that waited for it goes out next.
Finalize(w) ==
  /\ w \in writes
  /\ record' = Stored(w)
  /\ writes' = writes \ {w}
  /\ released' = IF w.status = "failed" THEN released \cup {w.by} ELSE released
  /\ IF w.via = "listener" THEN UNCHANGED pc ELSE Goto(w.by, w.status)
  /\ UNCHANGED <<body, committed, finalized, gone, refused, told, plain, faults>>

\* It fails.  For a JSON response next(err) leads to the error handler, whose own
\* JSON response is wrapped as well; when that fails too, Express answers.
FinalizeFails(w) ==
  /\ w \in writes
  /\ Fault
  /\ writes' = (writes \ {w}) \cup
       IF w.via = "json" THEN {[by |-> w.by, status |-> "failed", via |-> "error"]} ELSE {}
  /\ IF w.via = "error" THEN Goto(w.by, "failed") ELSE UNCHANGED pc
  /\ UNCHANGED <<record, body, committed, finalized, gone, released, refused, told, plain>>

\* originalJson, or Express's own answer: the caller learns the outcome unless it has
\* gone, and "finish" follows.
SendAnswer(a) ==
  /\ pc[a] \in {"completed", "failed"}
  /\ Goto(a, "over")
  /\ told' = IF pc[a] = "completed" /\ a \notin gone THEN [told EXCEPT ![a] = a] ELSE told
  /\ refused' = IF pc[a] = "failed" /\ a \notin gone THEN refused \cup {a} ELSE refused
  /\ writes' = writes \cup FailedIfUnfinished(a)
  /\ finalized' = finalized \cup {a}
  /\ UNCHANGED <<record, body, committed, gone, released, plain, faults>>

\* The process serving the attempt dies with what it had under way.
Crash(a) ==
  /\ a \in InFlight \/ \E w \in writes : w.by = a
  /\ Fault
  /\ Goto(a, "dead")
  /\ writes' = {w \in writes : w.by # a}
  /\ UNCHANGED <<record, body, committed, finalized, gone, released, refused, told, plain>>

Next ==
  \/ \E a \in Attempt :
       \/ \E b \in Body : Own(a, b) \/ TurnAway(a, b)
       \/ Work(a)
       \/ \E s \in {"completed", "failed"} : RespondJson(a, s)
       \/ RespondPlain(a)
       \/ SendAnswer(a)
       \/ Close(a)
       \/ Crash(a)
  \/ \E w \in writes : Finalize(w) \/ FinalizeFails(w)

Spec == Init /\ [][Next]_vars

\* Handlers respond, and the database answers; nobody has to send, close or crash.
Fairness ==
  /\ \A a \in Attempt :
       WF_vars(RespondPlain(a) \/ \E s \in {"completed", "failed"} : RespondJson(a, s))
  /\ \A a \in Attempt : WF_vars(SendAnswer(a))
  /\ \A w \in Write : WF_vars(Finalize(w))

FairSpec == Spec /\ Fairness
-----------------------------------------------------------------------------
(***************************************************************************)
(* Properties.                                                              *)
(***************************************************************************)

\* Every variable holds values of its column, flag or position.
TypeOK ==
  /\ record \in [status : RecordStatus, hash : Body \cup {"none"}, by : Attempt \cup {NoAttempt}]
  /\ pc \in [Attempt -> {"new", "handling", "recording", "completed", "failed", "over", "dead"}]
  /\ body \in [Attempt -> Body \cup {"none"}]
  /\ committed \subseteq Attempt
  /\ finalized \subseteq Attempt
  /\ writes \subseteq Write
  /\ gone \subseteq Attempt
  /\ released \subseteq Attempt
  /\ refused \subseteq Attempt
  /\ told \in [Attempt -> Attempt \cup {NoAttempt}]
  /\ plain \subseteq Attempt
  /\ faults \in 0..MaxFaults

\* Nobody's connection closed: what the guarantees below need, since a close makes
\* the key free while its handler is still at work.
Connected == gone = {}

\* While connections hold, two handlers never work on one key at once, and the
\* operation is carried out again only after its failure was recorded, by a handler
\* that failed after its commit, by the error handler in the place of a write that
\* failed, or by "finish" after an answer that is not JSON.  The caller of such an
\* attempt was told of the failure or answered without JSON, or is about to be told;
\* or its process died after the write and before the answer, and then it knows
\* nothing of the failure that its retry is run upon.
ExecutedOnce ==
  /\ TypeOK
  /\ Connected =>
       /\ Cardinality(AtWork) <= 1
       /\ Cardinality(committed \ released) <= 1
       /\ \A a \in released : a \in refused \cup plain \/ pc[a] \in {"failed", "dead"}

\* Every JSON success a key is answered with is one and the same response, that of
\* an attempt that committed, and it stays stored; and nothing but the body that
\* first used the key is ever executed under it, disconnections or not.
OneAnswer ==
  /\ \A a \in committed : body[a] = record.hash
  /\ \A a \in Attempt : told[a] # NoAttempt => told[a] \in committed /\ body[a] = body[told[a]]
  /\ Connected =>
       \A a \in Attempt :
         told[a] # NoAttempt => record.status = "completed" /\ record.by = told[a]

\* A key does not stay in processing for ever, unless a process died or a write
\* failed: then nothing frees it.
KeyIsReleased ==
  record.status = "processing" ~> record.status # "processing" \/ faults > 0
=============================================================================
