-------------------------------- MODULE Intake --------------------------------
(***************************************************************************)
(* Submission intake (server/src/services/submission-intake.service.ts):    *)
(* an extractor drafts the values of a submission, people confirm them, and *)
(* an approval turns them into a draft quote.                               *)
(*                                                                         *)
(* Every operation of a person is one transaction under the row lock of the *)
(* submission.  A reading is not: it is requested in one transaction,       *)
(* scheduled outside it, and the run loads the documents and writes its     *)
(* draft in two more, with the extractor's work of minutes in between.  Runs *)
(* are named by the order of their tokens.                                  *)
(*                                                                         *)
(* A submission has the product field and, once a product is known, the     *)
(* fields of its risk and of its coverages, here one of each, only the      *)
(* latter optional.  Documents, evidence and labels are left out, and so    *)
(* are the checks of an approval that read other tables (the company, the   *)
(* customer): failing them changes nothing.                                 *)
(***************************************************************************)
EXTENDS Naturals, Sequences

CONSTANTS
  Product,    \* installed products
  Value,      \* what a risk or coverage field may say
  Blank,      \* no value
  MaxReads,   \* bound: how many readings are requested
  MaxFaults   \* bound: processes that die and scheduling that fails

ASSUME BlankAssumption == Blank \notin Product \cup Value
ASSUME BoundsAssumption == MaxReads \in Nat /\ MaxFaults \in Nat

VARIABLES
  status,   \* submissions.status
  token,    \* the run ai_run names, 0 before the first reading
  stale,    \* whether that run was started more than STALE_READ_MS ago
  fields,   \* submission_fields, by key
  choice,   \* customer_choice.mode
  runs,     \* where each run requested so far is
  failing,  \* the runs whose scheduling threw, which is still to be recorded
  draft,    \* the run that drafted the fields, 0 when none did
  quotes,   \* the draft quotes created, each with the fields it was made from
  lost,     \* runs that died with their process
  faults

subVars == <<status, token, stale, fields, choice, draft, quotes>>
vars == <<status, token, stale, fields, choice, runs, failing, draft, quotes, lost, faults>>

Status     == {"RECEIVED", "READING", "READ_FAILED", "READY_FOR_REVIEW", "IN_REVIEW",
               "COMPLETED", "DECLINED"}
Reviewable == {"READY_FOR_REVIEW", "IN_REVIEW"}
Readable   == {"RECEIVED", "READ_FAILED"} \cup Reviewable
Open       == Readable \cup {"READING"}
RunStep    == {"requested", "queued", "extracting", "over"}

\* Field keys: the product, and for each product its risk and its coverage.
ProductKey == [kind |-> "product", of |-> Blank]
FieldKey   == {ProductKey} \cup [kind : {"risk", "coverage"}, of : Product]

\* "said" is the value a person confirmed and "at" how many readings had been
\* requested when it was: history, which no code reads.
Field == [value : Product \cup Value \cup {Blank}, ai : Product \cup Value \cup {Blank},
          high : BOOLEAN, accepted : BOOLEAN,
          said : Product \cup Value \cup {Blank}, at : Nat]

-----------------------------------------------------------------------------
\* What a key's value may be.
Domain(f) == (IF f = ProductKey THEN Product ELSE Value) \cup {Blank}

\* What a key's value must be for the field to be confirmed.
Acceptable(f, v) == v # Blank \/ f.kind = "coverage"

\* A row as writeFieldRows inserts it: pending, with the drafted value.
Drafted(v, high) == [value |-> v, ai |-> v, high |-> high /\ v # Blank, accepted |-> FALSE,
                     said |-> Blank, at |-> 0]

\* The keys buildTargetFields gives for a product, which may be unknown.
TargetKeys(p) == {k \in FieldKey : k = ProductKey \/ k.of = p}

\* A person confirms the value v.
Confirmed(field, v) ==
  [field EXCEPT !.value = v, !.accepted = TRUE, !.said = v, !.at = Len(runs)]

\* Mutant: editing a confirmed value leaves it confirmed.
Edited_StaysConfirmed(field, v) == [field EXCEPT !.value = v]

\* Editing a value takes its confirmation back.
Edited(field, v) == [field EXCEPT !.value = v, !.accepted = FALSE, !.said = Blank, !.at = 0]

\* Mutant: the fields of the old product stay.
WithProduct_FieldsKept(new, f, v) == new

\* When the product field gets another value, the risk fields are replaced with those
\* of the product, blank and pending (replaceProductFields); coverage fields are not.
WithProduct(new, f, v) ==
  LET Risk == {k \in TargetKeys(v) : k.kind = "risk"}
      Kept == {k \in DOMAIN new : k.kind # "risk"}
  IN  IF f = ProductKey /\ v # fields[ProductKey].value
      THEN [k \in Risk \cup Kept |-> IF k \in Risk THEN Drafted(Blank, FALSE) ELSE new[k]]
      ELSE new

\* buildQuotePayload takes the fields that have a value.
QuotePayload == [f \in {k \in DOMAIN fields : fields[k].value # Blank} |-> fields[f]]

\* Mutants: a run is told from another by the status alone, or by its token alone.
StillReading_AnyRun(t)   == status = "READING"
StillReading_AnyState(t) == token = t

\* Both transactions of runExtraction, and the recording of a scheduling that
\* failed, ask whether the run is still the one the submission waits for.
StillReading(t) == status = "READING" /\ token = t

Fault == faults < MaxFaults /\ faults' = faults + 1

-----------------------------------------------------------------------------
\* createSubmission
Init ==
  /\ status = "RECEIVED"
  /\ token = 0
  /\ stale = FALSE
  /\ fields = [k \in {} |-> Drafted(Blank, FALSE)]
  /\ choice = "new"
  /\ runs = <<>>
  /\ failing = {}
  /\ draft = 0
  /\ quotes = <<>>
  /\ lost = {}
  /\ faults = 0

\* startReading, first transaction.
RequestReading ==
  /\ Len(runs) < MaxReads
  /\ status \in Readable \/ (status = "READING" /\ stale)
  /\ status' = "READING"
  /\ token' = Len(runs) + 1
  /\ stale' = FALSE
  /\ runs' = Append(runs, "requested")
  /\ UNCHANGED <<fields, choice, failing, draft, quotes, lost, faults>>

\* The run is enqueued, under its token, or left to this process.
Schedule(t) ==
  /\ runs[t] = "requested"
  /\ runs' = [runs EXCEPT ![t] = "queued"]
  /\ UNCHANGED <<subVars, failing, lost, faults>>

\* Scheduling throws, and the job may have been enqueued nevertheless.
ScheduleThrows(t) ==
  /\ runs[t] = "requested"
  /\ Fault
  /\ \E step \in {"queued", "over"} : runs' = [runs EXCEPT ![t] = step]
  /\ failing' = failing \cup {t}
  /\ UNCHANGED <<subVars, lost>>

\* Mutant: the error is reported and the submission left as it is.
RecordNotScheduled_OnlyReported(t) ==
  /\ t \in failing
  /\ failing' = failing \ {t}
  /\ UNCHANGED <<subVars, runs, lost, faults>>

\* startReading, the transaction of its catch.
RecordNotScheduled(t) ==
  /\ t \in failing
  /\ failing' = failing \ {t}
  /\ status' = IF StillReading(t) THEN "READ_FAILED" ELSE status
  /\ UNCHANGED <<token, stale, fields, choice, draft, quotes, runs, lost, faults>>

\* runExtraction loads the documents, or finds itself superseded.
LoadDocuments(t) ==
  /\ runs[t] = "queued"
  /\ runs' = [runs EXCEPT ![t] = IF StillReading(t) THEN "extracting" ELSE "over"]
  /\ UNCHANGED <<subVars, failing, lost, faults>>

\* The extractor failed, or read nothing.
WriteFailure(t) ==
  /\ runs[t] = "extracting"
  /\ runs' = [runs EXCEPT ![t] = "over"]
  /\ status' = IF StillReading(t) THEN "READ_FAILED" ELSE status
  /\ UNCHANGED <<token, stale, fields, choice, draft, quotes, failing, lost, faults>>

\* The draft replaces every field, whatever was confirmed before.
WriteDraft(t) ==
  /\ runs[t] = "extracting"
  /\ StillReading(t)
  /\ \E p \in Product \cup {Blank}, v \in Value \cup {Blank}, high \in BOOLEAN :
       fields' = [k \in TargetKeys(p) |-> Drafted(IF k = ProductKey THEN p ELSE v, high)]
  /\ status' = "READY_FOR_REVIEW"
  /\ draft' = t
  /\ runs' = [runs EXCEPT ![t] = "over"]
  /\ UNCHANGED <<token, stale, choice, failing, quotes, lost, faults>>

\* A run that is superseded writes nothing.
Discard(t) ==
  /\ runs[t] = "extracting"
  /\ ~StillReading(t)
  /\ runs' = [runs EXCEPT ![t] = "over"]
  /\ UNCHANGED <<subVars, failing, lost, faults>>

\* The process that was to schedule, to run or to write it dies; the job has one attempt.
Crash(t) ==
  /\ runs[t] # "over" \/ t \in failing
  /\ Fault
  /\ runs' = IF runs[t] = "queued" /\ t \in failing THEN runs ELSE [runs EXCEPT ![t] = "over"]
  /\ failing' = failing \ {t}
  /\ lost' = lost \cup {t}
  /\ UNCHANGED subVars

\* STALE_READ_MS go by.
TimePasses ==
  /\ status = "READING"
  /\ ~stale
  /\ stale' = TRUE
  /\ UNCHANGED <<status, token, fields, choice, draft, quotes, runs, failing, lost, faults>>

-----------------------------------------------------------------------------
\* startManualReview keeps the fields of an earlier draft; without one it lays out
\* those of the product named with the upload or as a hint, if there was any.
ManualReview ==
  /\ status = "READ_FAILED"
  /\ status' = "IN_REVIEW"
  /\ IF DOMAIN fields = {}
     THEN \E p \in Product \cup {Blank} :
            fields' = [k \in TargetKeys(p) |-> Drafted(Blank, FALSE)]
     ELSE UNCHANGED fields
  /\ UNCHANGED <<token, stale, choice, draft, quotes, runs, failing, lost, faults>>

\* What every operation of a reviewer does around its own: loadReviewable, markInReview.
Review ==
  /\ status \in Reviewable
  /\ status' = "IN_REVIEW"
  /\ UNCHANGED <<token, stale, draft, quotes, runs, failing, lost, faults>>

SetField(f, v) ==
  /\ fields' = WithProduct([fields EXCEPT ![f] = Edited(@, v)], f, v)
  /\ Review
  /\ UNCHANGED choice

AcceptField(f, v) ==
  /\ Acceptable(f, v)
  /\ fields' = WithProduct([fields EXCEPT ![f] = Confirmed(@, v)], f, v)
  /\ Review
  /\ UNCHANGED choice

UndoField(f) ==
  /\ fields' = [fields EXCEPT ![f] = Edited(@, @.value)]
  /\ Review
  /\ UNCHANGED choice

\* acceptHighConfidence
AcceptHighConfidence ==
  LET Sure == {f \in DOMAIN fields : LET r == fields[f] IN
                 ~r.accepted /\ r.high /\ r.value # Blank /\ r.value = r.ai}
  IN  /\ Sure # {}
      /\ fields' = [f \in DOMAIN fields |->
                      IF f \in Sure THEN Confirmed(fields[f], fields[f].value) ELSE fields[f]]
      /\ Review
      /\ UNCHANGED choice

\* setCustomerChoice
ChooseCustomer(mode) ==
  /\ choice' = mode
  /\ Review
  /\ UNCHANGED fields

\* approveSubmission: the customer, the quote and the closing in one transaction.
Approve ==
  /\ status \in Reviewable
  /\ DOMAIN fields # {}
  /\ \A f \in DOMAIN fields : fields[f].accepted /\ Acceptable(f, fields[f].value)
  /\ status' = "COMPLETED"
  /\ quotes' = Append(quotes, QuotePayload)
  /\ UNCHANGED <<token, stale, fields, choice, draft, runs, failing, lost, faults>>

\* declineSubmission
Decline ==
  /\ status \in Open
  /\ status' = "DECLINED"
  /\ UNCHANGED <<token, stale, fields, choice, draft, quotes, runs, failing, lost, faults>>

Run(t) == LoadDocuments(t) \/ WriteFailure(t) \/ WriteDraft(t) \/ Discard(t)

Next ==
  \/ RequestReading \/ TimePasses \/ ManualReview \/ Approve \/ Decline
  \/ AcceptHighConfidence
  \/ \E mode \in {"new", "existing"} : ChooseCustomer(mode)
  \/ \E f \in DOMAIN fields :
       \/ UndoField(f)
       \/ \E v \in Domain(f) : SetField(f, v) \/ AcceptField(f, v)
  \/ \E t \in DOMAIN runs :
       \/ Schedule(t) \/ ScheduleThrows(t) \/ RecordNotScheduled(t)
       \/ Run(t) \/ Crash(t)

Spec == Init /\ [][Next]_vars

\* A process that lives goes on with what it has begun, a queued job is run, and the
\* extractor ends (it has a timeout).  People need not do anything.
Fairness ==
  \A t \in 1..MaxReads :
    /\ WF_vars(t \in DOMAIN runs /\ (Schedule(t) \/ Run(t)))
    /\ WF_vars(t \in DOMAIN runs /\ RecordNotScheduled(t))

FairSpec == Spec /\ Fairness
-----------------------------------------------------------------------------
(***************************************************************************)
(* Properties.                                                              *)
(***************************************************************************)

\* Every variable holds values of its column or of a run's position.
TypeOK ==
  /\ status \in Status
  /\ token \in 0..MaxReads
  /\ stale \in BOOLEAN
  /\ DOMAIN fields \subseteq FieldKey /\ fields \in [DOMAIN fields -> Field]
  /\ choice \in {"new", "existing"}
  /\ runs \in Seq(RunStep)
  /\ failing \subseteq DOMAIN runs
  /\ draft \in 0..MaxReads
  /\ Len(quotes) \in Nat
  /\ lost \subseteq DOMAIN runs
  /\ faults \in 0..MaxFaults

\* A quote says what people confirmed and nothing else: every field it was made from
\* is one a person confirmed at that very value, and its risk is that of its own
\* product, through every order of drafts, edits and changes of product.
QuoteAsConfirmed ==
  /\ TypeOK
  /\ \A i \in DOMAIN quotes :
       LET q == quotes[i] IN
       /\ {k \in DOMAIN q : k.kind = "risk"}
            = {k \in FieldKey : k.kind = "risk" /\ k.of = q[ProductKey].value}
       /\ \A f \in DOMAIN q : q[f].accepted /\ q[f].said = q[f].value

\* A reading that was requested before a person confirmed a value never replaces it,
\* however late its run writes, and whatever happened to its scheduling.
NoDecisionLost ==
  [][draft' # draft => \A f \in DOMAIN fields : fields[f].accepted => fields[f].at < draft']_vars

\* A submission is closed once and for good: completed with the one quote it gave, or
\* declined with none, and no late run or second approval changes it.
ClosedForGood ==
  [][/\ status \in {"COMPLETED", "DECLINED"} => UNCHANGED <<status, fields, quotes>>
     /\ status' = "COMPLETED" => Len(quotes') = 1
     /\ status' = "DECLINED" => quotes' = <<>>]_vars

\* A submission does not stay in READING, whether its run is scheduled, superseded or
\* refused by the queue, unless a process died with the run: then it waits for someone
\* to read it again.
ReadingEnds == status = "READING" ~> status # "READING" \/ lost # {}
=============================================================================
