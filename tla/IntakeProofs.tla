----------------------------- MODULE IntakeProofs -----------------------------
(***************************************************************************)
(* Two components with proofs: the submissions of Intake, and after them    *)
(* the audit chains that submissions and releases are recorded in.          *)
(*                                                                         *)
(* What people confirmed is what is quoted, and no reading takes it from    *)
(* them, for any products and values and any number of readings and faults. *)
(*                                                                         *)
(* A quote is checked when the submission is approved, against fields that  *)
(* drafts, edits and changes of product have written in any order.          *)
(* FieldsInv is what all of them keep.  That a late run has no effect is in *)
(* ReadInv: the run a submission waits for is the one requested last, after *)
(* everything that was confirmed.                                           *)
(***************************************************************************)
EXTENDS Intake, AuditChain, SequenceTheorems, TLAPS

RiskOf(p) == {k \in FieldKey : k.kind = "risk" /\ k.of = p}

\* The fields, once there are any, are those of the product they name; they may be
\* those of a product that is yet to be confirmed, and then they name none.
FieldsInv ==
  DOMAIN fields # {} =>
    /\ ProductKey \in DOMAIN fields
    /\ fields[ProductKey].value \in Product \cup {Blank}
    /\ fields[ProductKey].value # Blank =>
         {k \in DOMAIN fields : k.kind = "risk"} = RiskOf(fields[ProductKey].value)
    /\ \A f \in DOMAIN fields : fields[f].accepted => fields[f].said = fields[f].value

ReadInv ==
  /\ token = Len(runs)
  /\ \A f \in DOMAIN fields : fields[f].accepted =>
       /\ fields[f].at <= token
       /\ status = "READING" => fields[f].at < token

AsConfirmed(q) ==
  /\ {k \in DOMAIN q : k.kind = "risk"} = RiskOf(q[ProductKey].value)
  /\ \A f \in DOMAIN q : q[f].accepted /\ q[f].said = q[f].value

QuotesInv ==
  /\ status # "COMPLETED" => quotes = <<>>
  /\ status = "COMPLETED" => Len(quotes) = 1 /\ DOMAIN quotes = {1} /\ AsConfirmed(quotes[1])

IInv == TypeOK /\ FieldsInv /\ ReadInv /\ QuotesInv

-----------------------------------------------------------------------------
\* The keys of a product are its own and the product key; no product is a blank one.
LEMMA Keys ==
  ASSUME NEW p \in Product \cup {Blank}
  PROVE  /\ ProductKey \in FieldKey /\ ProductKey \in TargetKeys(p)
         /\ ProductKey.kind = "product" /\ TargetKeys(p) \subseteq FieldKey
         /\ {k \in TargetKeys(p) : k.kind = "risk"} = RiskOf(p)
BY BlankAssumption DEF ProductKey, FieldKey, TargetKeys, RiskOf

LEMMA InitIInv == Init => IInv
<1>. SUFFICES ASSUME Init PROVE IInv
  OBVIOUS
<1>. USE BoundsAssumption DEF Init
<1>1. DOMAIN fields = {} /\ fields \in [DOMAIN fields -> Field]
  OBVIOUS
<1>2. TypeOK
  <2>1. status \in Status /\ token \in 0..MaxReads /\ draft \in 0..MaxReads /\ faults \in 0..MaxFaults
    BY DEF Status
  <2>2. runs \in Seq(RunStep) /\ Len(quotes) \in Nat
    OBVIOUS
  <2>. QED  BY <1>1, <2>1, <2>2 DEF TypeOK
<1>3. FieldsInv /\ ReadInv /\ QuotesInv
  BY <1>1 DEF FieldsInv, ReadInv, QuotesInv
<1>. QED  BY <1>2, <1>3 DEF IInv

\* A run, or the passing of time, leaves what people see as it is; all it may do to the
\* submission is to give the reading up.
LEMMA RunStepPreserves ==
  ASSUME IInv, runs' \in Seq(RunStep), Len(runs') = Len(runs),
         stale' \in BOOLEAN, faults' \in 0..MaxFaults,
         failing' \subseteq DOMAIN runs', lost' \subseteq DOMAIN runs',
         status' = status \/ (status = "READING" /\ status' = "READ_FAILED"),
         UNCHANGED <<token, fields, choice, draft, quotes>>
  PROVE  IInv'
<1>1. TypeOK'
  BY DEF IInv, TypeOK, Status
<1>2. FieldsInv' /\ ReadInv' /\ QuotesInv'
  BY DEF IInv, FieldsInv, ReadInv, QuotesInv
<1>. QED  BY <1>1, <1>2 DEF IInv

LEMMA RunIsOver ==
  ASSUME TypeOK, NEW t \in DOMAIN runs, NEW step \in RunStep
  PROVE  /\ [runs EXCEPT ![t] = step] \in Seq(RunStep)
         /\ Len([runs EXCEPT ![t] = step]) = Len(runs)
         /\ DOMAIN [runs EXCEPT ![t] = step] = DOMAIN runs
         /\ DOMAIN runs = 1..Len(runs)
BY ExceptSeq, LenProperties DEF TypeOK

LEMMA SchedulingPreserves ==
  ASSUME IInv, NEW t \in DOMAIN runs,
         Schedule(t) \/ ScheduleThrows(t) \/ RecordNotScheduled(t) \/ Crash(t)
  PROVE  IInv'
<1>. USE BoundsAssumption DEF IInv, TypeOK, RunStep, subVars, Fault
<1>1. CASE Schedule(t)
  BY <1>1, RunIsOver, RunStepPreserves DEF Schedule
<1>2. CASE ScheduleThrows(t)
  BY <1>2, RunIsOver, RunStepPreserves DEF ScheduleThrows
<1>3. CASE RecordNotScheduled(t)
  BY <1>3, RunStepPreserves DEF RecordNotScheduled, StillReading
<1>4. CASE Crash(t)
  BY <1>4, RunIsOver, RunStepPreserves DEF Crash
<1>. QED  BY <1>1, <1>2, <1>3, <1>4

LEMMA ReadingPreserves ==
  ASSUME IInv, NEW t \in DOMAIN runs, LoadDocuments(t) \/ WriteFailure(t) \/ Discard(t)
  PROVE  IInv'
<1>. USE BoundsAssumption DEF IInv, TypeOK, RunStep, subVars
<1>1. CASE LoadDocuments(t)
  BY <1>1, RunIsOver, RunStepPreserves DEF LoadDocuments
<1>2. CASE WriteFailure(t)
  BY <1>2, RunIsOver, RunStepPreserves DEF WriteFailure, StillReading
<1>3. CASE Discard(t)
  BY <1>3, RunIsOver, RunStepPreserves DEF Discard
<1>. QED  BY <1>1, <1>2, <1>3

\* A new reading is requested after everything that was confirmed before.
LEMMA RequestReadingPreserves ==
  ASSUME IInv, RequestReading
  PROVE  IInv'
<1>1. /\ runs' \in Seq(RunStep) /\ Len(runs') = Len(runs) + 1 /\ DOMAIN runs \subseteq DOMAIN runs'
      /\ Len(runs) \in Nat
  BY AppendProperties, LenProperties DEF IInv, TypeOK, RequestReading, RunStep
<1>2. TypeOK'
  <2>1. token' \in 0..MaxReads
    BY <1>1, BoundsAssumption DEF RequestReading
  <2>2. failing' \subseteq DOMAIN runs' /\ lost' \subseteq DOMAIN runs'
    BY <1>1 DEF IInv, TypeOK, RequestReading
  <2>3. status' \in Status /\ stale' \in BOOLEAN
    BY DEF RequestReading, Status
  <2>. QED  BY <1>1, <2>1, <2>2, <2>3 DEF IInv, TypeOK, RequestReading
<1>3. FieldsInv' /\ QuotesInv'
  BY DEF IInv, FieldsInv, QuotesInv, RequestReading, Readable, Reviewable
<1>4. ReadInv'
  BY <1>1 DEF IInv, TypeOK, ReadInv, RequestReading, Field
<1>. QED  BY <1>2, <1>3, <1>4 DEF IInv

LEMMA TimePassesPreserves ==
  ASSUME IInv, TimePasses
  PROVE  IInv'
BY RunStepPreserves DEF IInv, TypeOK, TimePasses

\* A draft names its product, and nothing of it is confirmed.
LEMMA DraftPreserves ==
  ASSUME IInv, NEW p \in Product \cup {Blank}, NEW v \in Value \cup {Blank}, NEW named \in {p, Blank},
         NEW high \in BOOLEAN,
         status # "COMPLETED", status' \notin {"READING", "COMPLETED"}, status' \in Status,
         fields' = [k \in TargetKeys(p) |-> Drafted(IF k = ProductKey THEN named ELSE v, high)],
         draft' \in 0..MaxReads, runs' \in Seq(RunStep), Len(runs') = Len(runs),
         failing' \subseteq DOMAIN runs', lost' \subseteq DOMAIN runs',
         UNCHANGED <<token, stale, choice, quotes, faults>>
  PROVE  IInv'
<1>1. \A k \in TargetKeys(p) :
        /\ fields'[k] = Drafted(IF k = ProductKey THEN named ELSE v, high)
        /\ fields'[k] \in Field /\ ~fields'[k].accepted
  BY DEF Drafted, Field
<1>2. fields' \in [TargetKeys(p) -> Field] /\ DOMAIN fields' = TargetKeys(p)
  BY <1>1
<1>3. TypeOK'
  BY <1>2, Keys DEF IInv, TypeOK
<1>4. FieldsInv'
  BY <1>1, <1>2, Keys DEF FieldsInv, Drafted
<1>5. ReadInv' /\ QuotesInv'
  BY <1>1, <1>2 DEF IInv, ReadInv, QuotesInv
<1>. QED  BY <1>3, <1>4, <1>5 DEF IInv

LEMMA WriteDraftPreserves ==
  ASSUME IInv, NEW t \in DOMAIN runs, WriteDraft(t)
  PROVE  IInv'
<1>1. PICK p \in Product \cup {Blank}, v \in Value \cup {Blank}, high \in BOOLEAN :
        fields' = [k \in TargetKeys(p) |-> Drafted(IF k = ProductKey THEN p ELSE v, high)]
  BY DEF WriteDraft
<1>2. /\ status = "READING" /\ status' = "READY_FOR_REVIEW" /\ draft' = token
      /\ runs' = [runs EXCEPT ![t] = "over"]
      /\ UNCHANGED <<token, stale, choice, failing, quotes, lost, faults>>
  BY DEF WriteDraft, StillReading
<1>3. runs' \in Seq(RunStep) /\ Len(runs') = Len(runs) /\ DOMAIN runs' = DOMAIN runs
  BY <1>2, RunIsOver DEF IInv, RunStep
<1>. QED  BY <1>1, <1>2, <1>3, DraftPreserves DEF IInv, TypeOK, Status

LEMMA ManualReviewPreserves ==
  ASSUME IInv, ManualReview
  PROVE  IInv'
<1>1. /\ status = "READ_FAILED" /\ status' = "IN_REVIEW"
      /\ UNCHANGED <<token, stale, choice, draft, quotes, runs, failing, lost, faults>>
  BY DEF ManualReview
<1>2. CASE DOMAIN fields = {}
  <2>1. PICK p \in Product \cup {Blank} : fields' = [k \in TargetKeys(p) |-> Drafted(Blank, FALSE)]
    BY <1>2 DEF ManualReview
  <2>2. fields' = [k \in TargetKeys(p) |-> Drafted(IF k = ProductKey THEN Blank ELSE Blank, FALSE)]
    BY <2>1
  <2>. QED  BY <1>1, <2>2, DraftPreserves DEF IInv, TypeOK, Status
<1>3. CASE UNCHANGED fields
  <2>1. TypeOK'
    BY <1>1, <1>3 DEF IInv, TypeOK, Status
  <2>2. FieldsInv' /\ ReadInv' /\ QuotesInv'
    BY <1>1, <1>3 DEF IInv, FieldsInv, ReadInv, QuotesInv
  <2>. QED  BY <2>1, <2>2 DEF IInv
<1>. QED  BY <1>2, <1>3 DEF ManualReview

\* A person changes fields of a submission under review.
LEMMA ReviewPreserves ==
  ASSUME IInv, Review, choice' \in {"new", "existing"},
         fields' \in [DOMAIN fields' -> Field], DOMAIN fields' \subseteq FieldKey,
         FieldsInv',
         \A f \in DOMAIN fields' : fields'[f].accepted => fields'[f].at <= token
  PROVE  IInv'
<1>1. TypeOK'
  BY DEF IInv, TypeOK, Review, Status
<1>2. ReadInv' /\ QuotesInv'
  BY DEF IInv, ReadInv, QuotesInv, Review, Reviewable
<1>. QED  BY <1>1, <1>2 DEF IInv

\* One field gets a new row; with another product, its risk fields are laid out anew.
LEMMA ChangePreserves ==
  ASSUME IInv, Review, UNCHANGED choice, NEW f \in DOMAIN fields,
         NEW v \in Product \cup Value \cup {Blank}, f = ProductKey => v \in Product \cup {Blank},
         NEW e \in Field, e.value = v, e.accepted => e.said = v /\ e.at <= token,
         fields' = WithProduct([fields EXCEPT ![f] = e], f, v)
  PROVE  IInv'
<1>. DEFINE new == [fields EXCEPT ![f] = e]
<1>1. /\ DOMAIN new = DOMAIN fields /\ new \in [DOMAIN fields -> Field]
      /\ DOMAIN fields \subseteq FieldKey
      /\ \A k \in DOMAIN fields : new[k] = IF k = f THEN e ELSE fields[k]
      /\ \A k \in DOMAIN fields : new[k].accepted => new[k].at <= token
      /\ \A k \in DOMAIN fields : new[k].accepted => new[k].said = new[k].value
  BY DEF IInv, TypeOK, FieldsInv, ReadInv
<1>2. ProductKey \in DOMAIN fields /\ ProductKey \in FieldKey /\ ProductKey.kind = "product"
  BY Keys DEF IInv, FieldsInv
<1>. HIDE DEF new
<1>3. CASE f = ProductKey /\ v # fields[ProductKey].value
  <2>. DEFINE Risk == {k \in TargetKeys(v) : k.kind = "risk"}
              Kept == {k \in DOMAIN new : k.kind # "risk"}
  <2>1. fields' = [k \in Risk \cup Kept |-> IF k \in Risk THEN Drafted(Blank, FALSE) ELSE new[k]]
    BY <1>3 DEF WithProduct, new
  <2>2. Risk = RiskOf(v) /\ v \in Product \cup {Blank}
    BY <1>3, Keys
  <2>3. Risk \subseteq FieldKey /\ Kept \subseteq DOMAIN fields /\ ProductKey \in Kept
        /\ ProductKey \notin Risk
    BY <1>1, <1>2, <2>2 DEF RiskOf
  <2>4. Drafted(Blank, FALSE) \in Field /\ ~Drafted(Blank, FALSE).accepted
    BY DEF Drafted, Field
  <2>5. {k \in Risk \cup Kept : k.kind = "risk"} = Risk
    OBVIOUS
  <2>. HIDE DEF Risk, Kept
  <2>6. DOMAIN fields' = Risk \cup Kept
    BY <2>1
  <2>7. \A k \in DOMAIN fields' :
          fields'[k] \in Field /\ (fields'[k].accepted => fields'[k] = new[k] /\ k \in DOMAIN fields)
    BY <1>1, <2>1, <2>3, <2>4, <2>6
  <2>8. fields'[ProductKey].value = v
    BY <1>1, <1>2, <1>3, <2>1, <2>3
  <2>9. FieldsInv'
    <3>1. ProductKey \in DOMAIN fields'
      BY <2>3, <2>6
    <3>2. {k \in DOMAIN fields' : k.kind = "risk"} = RiskOf(fields'[ProductKey].value)
      BY <2>2, <2>5, <2>6, <2>8
    <3>3. \A k \in DOMAIN fields' : fields'[k].accepted => fields'[k].said = fields'[k].value
      BY <1>1, <2>7
    <3>. QED  BY <2>2, <2>8, <3>1, <3>2, <3>3 DEF FieldsInv
  <2>10. fields' \in [DOMAIN fields' -> Field] /\ DOMAIN fields' \subseteq FieldKey
    BY <1>1, <2>1, <2>3, <2>6, <2>7
  <2>11. choice' \in {"new", "existing"}
    BY DEF IInv, TypeOK
  <2>. QED  BY <1>1, <2>7, <2>9, <2>10, <2>11, ReviewPreserves
<1>4. CASE ~(f = ProductKey /\ v # fields[ProductKey].value)
  <2>1. fields' = new
    BY <1>4 DEF WithProduct, new
  <2>2. new[ProductKey].value = fields[ProductKey].value
    BY <1>1, <1>2, <1>4
  <2>3. FieldsInv'
    BY <1>1, <1>2, <2>1, <2>2 DEF IInv, FieldsInv
  <2>4. choice' \in {"new", "existing"}
    BY DEF IInv, TypeOK
  <2>. QED  BY <1>1, <2>1, <2>3, <2>4, ReviewPreserves
<1>. QED  BY <1>3, <1>4

LEMMA ConfirmedRow ==
  ASSUME IInv, NEW f \in DOMAIN fields, NEW v \in Product \cup Value \cup {Blank}
  PROVE  /\ Confirmed(fields[f], v) \in Field /\ Confirmed(fields[f], v).value = v
         /\ Confirmed(fields[f], v).said = v /\ Confirmed(fields[f], v).at <= token
         /\ Edited(fields[f], v) \in Field /\ Edited(fields[f], v).value = v
         /\ ~Edited(fields[f], v).accepted
<1>1. fields[f] \in Field /\ Len(runs) \in Nat /\ token = Len(runs)
  BY LenProperties DEF IInv, TypeOK, ReadInv
<1>2. /\ Edited(fields[f], v) \in Field /\ Edited(fields[f], v).value = v
      /\ ~Edited(fields[f], v).accepted
  BY <1>1 DEF Edited, Field
<1>3. /\ Confirmed(fields[f], v).value = v /\ Confirmed(fields[f], v).said = v
      /\ Confirmed(fields[f], v).at = Len(runs)
  BY <1>1 DEF Confirmed, Field
<1>4. Confirmed(fields[f], v) \in Field
  BY <1>1 DEF Confirmed, Field
<1>. QED  BY <1>1, <1>2, <1>3, <1>4

LEMMA FieldPreserves ==
  ASSUME IInv, NEW f \in DOMAIN fields,
         UndoField(f) \/ \E v \in Domain(f) : SetField(f, v) \/ AcceptField(f, v)
  PROVE  IInv'
<1>1. ASSUME NEW v \in Domain(f), SetField(f, v) \/ AcceptField(f, v)
      PROVE  IInv'
  <2>1. v \in Product \cup Value \cup {Blank} /\ (f = ProductKey => v \in Product \cup {Blank})
    BY DEF Domain
  <2>2. CASE SetField(f, v)
    BY <2>1, <2>2, ConfirmedRow, ChangePreserves DEF SetField
  <2>3. CASE AcceptField(f, v)
    BY <2>1, <2>3, ConfirmedRow, ChangePreserves DEF AcceptField
  <2>. QED  BY <1>1, <2>2, <2>3
<1>2. CASE UndoField(f)
  <2>. DEFINE v == fields[f].value
  <2>1. v \in Product \cup Value \cup {Blank} /\ (f = ProductKey => v \in Product \cup {Blank})
    BY DEF IInv, TypeOK, FieldsInv, Field
  <2>2. fields' = WithProduct([fields EXCEPT ![f] = Edited(fields[f], v)], f, v)
    BY <1>2 DEF UndoField, WithProduct
  <2>3. Review /\ UNCHANGED choice
    BY <1>2 DEF UndoField
  <2>. HIDE DEF v
  <2>. QED  BY <2>1, <2>2, <2>3, ConfirmedRow, ChangePreserves
<1>. QED  BY <1>1, <1>2

LEMMA AcceptHighConfidencePreserves ==
  ASSUME IInv, AcceptHighConfidence
  PROVE  IInv'
<1>1. /\ Review /\ UNCHANGED choice
      /\ DOMAIN fields' = DOMAIN fields
      /\ \A f \in DOMAIN fields :
           fields'[f] = fields[f] \/ fields'[f] = Confirmed(fields[f], fields[f].value)
      /\ fields' \in [DOMAIN fields -> {fields'[f] : f \in DOMAIN fields}]
  BY DEF AcceptHighConfidence
<1>2. \A f \in DOMAIN fields :
        /\ fields'[f] \in Field
        /\ fields'[f].value = fields[f].value
        /\ fields'[f].accepted => fields'[f].said = fields'[f].value /\ fields'[f].at <= token
  <2>. TAKE f \in DOMAIN fields
  <2>1. fields[f] \in Field /\ fields[f].value \in Product \cup Value \cup {Blank}
        /\ (fields[f].accepted => fields[f].said = fields[f].value /\ fields[f].at <= token)
    BY DEF IInv, TypeOK, FieldsInv, ReadInv, Field
  <2>. QED  BY <1>1, <2>1, ConfirmedRow
<1>3. FieldsInv'
  BY <1>1, <1>2 DEF IInv, FieldsInv
<1>4. fields' \in [DOMAIN fields' -> Field] /\ DOMAIN fields' \subseteq FieldKey
      /\ choice' \in {"new", "existing"}
  BY <1>1, <1>2 DEF IInv, TypeOK
<1>. QED  BY <1>1, <1>2, <1>3, <1>4, ReviewPreserves

LEMMA ChooseCustomerPreserves ==
  ASSUME IInv, NEW mode \in {"new", "existing"}, ChooseCustomer(mode)
  PROVE  IInv'
<1>1. FieldsInv'
  BY DEF IInv, FieldsInv, ChooseCustomer
<1>. QED  BY <1>1, ReviewPreserves DEF IInv, TypeOK, ReadInv, ChooseCustomer

\* All fields are confirmed, and those without a value are coverages.
LEMMA ApprovePreserves ==
  ASSUME IInv, Approve
  PROVE  IInv'
<1>. DEFINE Filled == {k \in DOMAIN fields : fields[k].value # Blank}
<1>1. /\ status \in Reviewable /\ DOMAIN fields # {}
      /\ \A f \in DOMAIN fields : fields[f].accepted /\ Acceptable(f, fields[f].value)
      /\ status' = "COMPLETED" /\ quotes' = Append(quotes, QuotePayload)
      /\ UNCHANGED <<token, stale, fields, choice, draft, runs, failing, lost, faults>>
  BY DEF Approve
<1>2. quotes' = Append(<<>>, QuotePayload)
  BY <1>1 DEF IInv, QuotesInv, Reviewable
<1>3. DOMAIN QuotePayload = Filled /\ \A f \in Filled : QuotePayload[f] = fields[f]
  BY DEF QuotePayload
<1>4. ProductKey \in Filled /\ {k \in DOMAIN fields : k.kind = "risk"} \subseteq Filled
  BY <1>1, Keys DEF IInv, FieldsInv, Acceptable
<1>5. {k \in Filled : k.kind = "risk"} = RiskOf(fields[ProductKey].value)
  BY <1>4 DEF IInv, FieldsInv
<1>6. \A f \in Filled : fields[f].accepted /\ fields[f].said = fields[f].value
  BY <1>1 DEF IInv, FieldsInv
<1>7. AsConfirmed(QuotePayload)
  BY <1>3, <1>4, <1>5, <1>6 DEF AsConfirmed
<1>8. Len(quotes') = 1 /\ DOMAIN quotes' = {1} /\ quotes'[1] = QuotePayload
  BY <1>2, AppendProperties, LenProperties, EmptySeq
<1>9. TypeOK'
  BY <1>1, <1>8 DEF IInv, TypeOK, Status
<1>10. FieldsInv' /\ ReadInv'
  BY <1>1 DEF IInv, FieldsInv, ReadInv
<1>11. QuotesInv'
  BY <1>1, <1>7, <1>8 DEF QuotesInv, AsConfirmed
<1>. QED  BY <1>9, <1>10, <1>11 DEF IInv

LEMMA DeclinePreserves ==
  ASSUME IInv, Decline
  PROVE  IInv'
<1>1. TypeOK'
  BY DEF IInv, TypeOK, Decline, Status
<1>2. FieldsInv' /\ ReadInv' /\ QuotesInv'
  BY DEF IInv, FieldsInv, ReadInv, QuotesInv, Decline, Open, Readable, Reviewable
<1>. QED  BY <1>1, <1>2 DEF IInv

LEMMA NextPreserves == IInv /\ [Next]_vars => IInv'
<1>. SUFFICES ASSUME IInv, [Next]_vars PROVE IInv'
  OBVIOUS
<1>1. ASSUME RequestReading \/ TimePasses \/ ManualReview \/ Approve \/ Decline \/ AcceptHighConfidence
      PROVE  IInv'
  BY <1>1, RequestReadingPreserves, TimePassesPreserves, ManualReviewPreserves, ApprovePreserves,
     DeclinePreserves, AcceptHighConfidencePreserves
<1>2. ASSUME NEW t \in DOMAIN runs,
             \/ Schedule(t) \/ ScheduleThrows(t) \/ RecordNotScheduled(t)
             \/ Run(t) \/ Crash(t)
      PROVE  IInv'
  BY <1>2, SchedulingPreserves, ReadingPreserves, WriteDraftPreserves DEF Run
<1>3. CASE UNCHANGED vars
  BY <1>3 DEF vars, IInv, TypeOK, FieldsInv, ReadInv, QuotesInv, AsConfirmed
<1>. QED  BY <1>1, <1>2, <1>3, ChooseCustomerPreserves, FieldPreserves DEF Next

LEMMA Invariance == Spec => []IInv
<1>. QED  BY InitIInv, NextPreserves, PTL DEF Spec

-----------------------------------------------------------------------------
\* A quote is made of values that people confirmed, and of the risk of its own product.
THEOREM QuotesAsConfirmed == Spec => []QuoteAsConfirmed
<1>1. ASSUME IInv PROVE QuoteAsConfirmed
  <2>1. ASSUME NEW i \in DOMAIN quotes PROVE AsConfirmed(quotes[i])
    BY <1>1, <2>1 DEF IInv, QuotesInv
  <2>. QED  BY <1>1, <2>1 DEF IInv, QuoteAsConfirmed, AsConfirmed, RiskOf
<1>. QED  BY Invariance, <1>1, PTL

\* A run that writes is the one requested last, so a reading never replaces a value that
\* was confirmed after it had been requested.
THEOREM DecisionsKept == Spec => NoDecisionLost
<1>. DEFINE Kept == draft' # draft => \A f \in DOMAIN fields : fields[f].accepted => fields[f].at < draft'
<1>1. ASSUME IInv, [Next]_vars PROVE Kept
  <2>1. ASSUME NEW t \in DOMAIN runs, WriteDraft(t)
        PROVE  Kept
    BY <1>1, <2>1 DEF IInv, ReadInv, WriteDraft, StillReading
  <2>2. (\E t \in DOMAIN runs : WriteDraft(t)) \/ UNCHANGED draft
    BY <1>1 DEF Next, vars, subVars, RequestReading, TimePasses, ManualReview, Approve, Decline,
         AcceptHighConfidence, ChooseCustomer, UndoField, SetField, AcceptField, Review, Schedule,
         ScheduleThrows, RecordNotScheduled, Run, LoadDocuments, WriteFailure, Discard, Crash
  <2>. QED  BY <2>1, <2>2
<1>2. IInv /\ [Next]_vars => [Kept]_vars
  BY <1>1
<1>. QED  BY Invariance, <1>2, PTL DEF Spec, NoDecisionLost

\* A submission that is completed or declined is so for good, with its one quote or none.
THEOREM ClosedIsFinal == Spec => ClosedForGood
<1>. DEFINE Closed ==
       /\ status \in {"COMPLETED", "DECLINED"} => UNCHANGED <<status, fields, quotes>>
       /\ status' = "COMPLETED" => Len(quotes') = 1
       /\ status' = "DECLINED" => quotes' = <<>>
<1>1. ASSUME IInv, [Next]_vars PROVE Closed
  <2>1. IInv'
    BY <1>1, NextPreserves
  <2>2. ASSUME status \in {"COMPLETED", "DECLINED"} PROVE UNCHANGED <<status, fields, quotes>>
    BY <1>1, <2>2 DEF Next, vars, subVars, RequestReading, TimePasses, ManualReview, Approve,
         Decline, Open, Readable, Reviewable, StillReading,
         AcceptHighConfidence, ChooseCustomer, UndoField, SetField, AcceptField, Review, Schedule,
         ScheduleThrows, RecordNotScheduled, Run, LoadDocuments, WriteFailure, WriteDraft, Discard,
         Crash
  <2>. QED  BY <2>1, <2>2 DEF IInv, QuotesInv
<1>2. IInv /\ [Next]_vars => [Closed]_vars
  BY <1>1
<1>. QED  BY Invariance, <1>2, PTL DEF Spec, ClosedForGood

-----------------------------------------------------------------------------
(***************************************************************************)
(* The audit chains (module AuditChain): every chain stays intact and in    *)
(* the order of its times, for any writers and carriers and any number of   *)
(* inserts and ticks.                                                       *)
(*                                                                         *)
(* What is intact in the committed rows is not inductive by itself: a       *)
(* commit adds rows that were linked earlier.  ChainInv therefore says of   *)
(* every transaction that the committed rows with its own drafts are        *)
(* chains, and that only the holder of a chain's lock has drafts of it, so  *)
(* that a commit extends what the others see of no chain they append to.    *)
(***************************************************************************)
\* Rows of one chain, numbered up to s and dated up to t: each names the row
\* before it, dates follow the numbers, and one row is the last.
WellChained(rows, s, t) ==
  /\ rows # {} => \E p \in rows : \A r \in rows : r.seq <= p.seq
  /\ \A r \in rows : r.seq <= s /\ r.at <= t
  /\ \A r \in rows : r.prev = Tip({q \in rows : q.seq < r.seq})
  /\ \A r, q \in rows : r.seq < q.seq => r.at <= q.at

Separate ==
  \A w \in Writer : \A r \in drafts[w] :
    /\ tx[w] # Idle
    /\ r.carrier = tx[w].carrier
    /\ lock[r.carrier] = w

Chained ==
  \A c \in Carrier :
    /\ WellChained(Chain(entries, c), sequence, clock)
    /\ \A w \in Writer : WellChained(Chain(Visible(w), c), sequence, clock)

ChainInv == ChainTypeOK /\ Separate /\ Chained

---------------------------------------------------------------------------
\* The last position of well-chained rows is a position, or Genesis if there is none.
LEMMA TipType ==
  ASSUME NEW rows \in SUBSET Row, NEW s, NEW t, WellChained(rows, s, t)
  PROVE  Tip(rows) \in Position \cup {Genesis}
<1>1. CASE rows = {}
  BY <1>1 DEF Tip
<1>2. CASE rows # {}
  <2>1. PICK p \in rows : \A r \in rows : r.seq <= p.seq
    BY <1>2 DEF WellChained
  <2>2. p.seq \in {r.seq : r \in rows} /\ \A r \in rows : r.seq <= p.seq
    BY <2>1
  <2>3. Tip(rows) \in {r.seq : r \in rows}
    BY <1>2, <2>2 DEF Tip
  <2>4. \A r \in rows : r.seq \in Position
    BY DEF Row
  <2>. QED  BY <2>3, <2>4
<1>. QED  BY <1>1, <1>2

\* A row that names the last one, with the next number of the sequence and the
\* current time, extends well-chained rows.
LEMMA AppendExtends ==
  ASSUME NEW rows \in SUBSET Row, NEW s \in Nat, NEW t \in Nat,
         WellChained(rows, s, t),
         NEW n \in Row, n.seq = s + 1, n.at = t, n.prev = Tip(rows)
  PROVE  WellChained(rows \cup {n}, s + 1, t)
<1>. DEFINE more == rows \cup {n}
<1>1. \A r \in rows : r.seq \in Nat /\ r.seq <= s /\ r.at \in Nat /\ r.at <= t
  BY DEF WellChained, Row, Position
<1>2. \A r \in more : r.seq <= n.seq
  BY <1>1
<1>3. \A r \in more : r.seq <= s + 1 /\ r.at <= t
  BY <1>1
<1>4. {q \in more : q.seq < n.seq} = rows
  BY <1>1
<1>5. ASSUME NEW r \in rows
      PROVE  {q \in more : q.seq < r.seq} = {q \in rows : q.seq < r.seq}
  BY <1>1
<1>6. \A r \in more : r.prev = Tip({q \in more : q.seq < r.seq})
  BY <1>4, <1>5 DEF WellChained
<1>7. \A r, q \in more : r.seq < q.seq => r.at <= q.at
  BY <1>1 DEF WellChained
<1>. QED  BY <1>2, <1>3, <1>6, <1>7 DEF WellChained

\* Well-chained rows stay so when numbers are taken and time passes.
LEMMA LaterIsWellChained ==
  ASSUME NEW rows \in SUBSET Row, NEW s \in Nat, NEW t \in Nat,
         NEW u \in Nat, NEW v \in Nat, s <= u, t <= v, WellChained(rows, s, t)
  PROVE  WellChained(rows, u, v)
<1>1. \A r \in rows : r.seq \in Nat /\ r.at \in Nat
  BY DEF Row, Position
<1>. QED  BY <1>1 DEF WellChained

---------------------------------------------------------------------------
LEMMA ChainInitInv == ChainInit => ChainInv
<1>. SUFFICES ASSUME ChainInit PROVE ChainInv
  OBVIOUS
<1>1. ChainTypeOK
  BY ChainConstants DEF ChainInit, ChainTypeOK, Transaction
<1>2. Separate
  BY DEF ChainInit, Separate
<1>3. Chained
  BY DEF ChainInit, Chained, Chain, Visible, WellChained
<1>. QED  BY <1>1, <1>2, <1>3 DEF ChainInv

\* A transaction that begins, or asks for the lock, has appended nothing new.
LEMMA BeginPreserves ==
  ASSUME ChainInv, NEW w \in Writer, NEW c \in Carrier, Begin(w, c)
  PROVE  ChainInv'
<1>. USE DEF Begin, ChainInv
<1>1. ChainTypeOK'
  BY DEF ChainTypeOK, Transaction, Begun
<1>2. drafts[w] = {}
  BY DEF Separate
<1>3. Separate'
  BY <1>2 DEF Separate, ChainTypeOK
<1>4. Chained'
  BY DEF Chained, Chain, Visible
<1>. QED  BY <1>1, <1>3, <1>4

LEMMA InsertPreserves ==
  ASSUME ChainInv, NEW w \in Writer, Insert(w)
  PROVE  ChainInv'
<1>. USE DEF ChainInv
<1>. DEFINE m == inserts + 1
            r == [tx[w] EXCEPT !.phase = "inserting", !.arrived = m]
<1>1. tx[w].phase = "open" /\ inserts' = inserts + 1 /\ tx' = [tx EXCEPT ![w] = r]
  BY DEF Insert
<1>2. UNCHANGED <<entries, drafts, lock, sequence, clock>>
  BY DEF Insert
<1>3. tx[w] \in Begun /\ inserts \in Nat
  BY <1>1 DEF ChainTypeOK, Transaction, Idle
<1>4. r \in Begun /\ r.carrier = tx[w].carrier
  <2>1. m \in Nat
    BY <1>3
  <2>. HIDE DEF m
  <2>. QED  BY <1>3, <2>1 DEF Begun
<1>. HIDE DEF r
<1>5. r # Idle
  BY <1>4 DEF Begun, Idle
<1>6. ChainTypeOK'
  BY <1>1, <1>2, <1>3, <1>4 DEF ChainTypeOK, Transaction
<1>7. Separate'
  BY <1>1, <1>2, <1>4, <1>5 DEF Separate, ChainTypeOK
<1>8. Chained'
  BY <1>2 DEF Chained, Chain, Visible
<1>. QED  BY <1>6, <1>7, <1>8

\* The row a transaction appends under the lock is the last of its chain; what
\* the others see of it does not change, for they have no row of that chain.
LEMMA AppendPreserves ==
  ASSUME ChainInv, NEW w \in Writer, AppendEntry(w)
  PROVE  ChainInv'
<1>. USE DEF ChainInv
<1>. DEFINE k == tx[w].carrier
            n == Linked(w)
            r == [tx[w] EXCEPT !.phase = "open"]
<1>1. tx[w] \in Begun /\ k \in Carrier
  BY DEF AppendEntry, ChainTypeOK, Transaction, Begun, Idle
<1>2. r \in Begun /\ r.carrier = k
  BY <1>1 DEF Begun
<1>3. r # Idle
  BY <1>2 DEF Begun, Idle
<1>4. sequence \in Nat /\ clock \in Nat /\ clock \in 0..MaxClock
  BY ChainConstants DEF ChainTypeOK
<1>5. Chain(Visible(w), k) \in SUBSET Row /\ WellChained(Chain(Visible(w), k), sequence, clock)
  BY <1>1 DEF ChainTypeOK, Chained, Chain, Visible
<1>6. Tip(Chain(Visible(w), k)) \in Position \cup {Genesis}
  BY <1>5, TipType
<1>7. /\ n \in Row /\ n.carrier = k /\ n.seq = sequence + 1 /\ n.at = clock
      /\ n.prev = Tip(Chain(Visible(w), k))
  BY <1>1, <1>4, <1>6 DEF Linked, NextPosition, Stamp, Row, Position
<1>8. /\ tx' = [tx EXCEPT ![w] = r]
      /\ drafts' = [drafts EXCEPT ![w] = @ \cup {n}]
      /\ lock' = [lock EXCEPT ![k] = w]
      /\ lock[k] \in {w, Nobody}
      /\ sequence' = sequence + 1
      /\ UNCHANGED <<entries, inserts, clock>>
  BY DEF AppendEntry, MayAppend
<1>. HIDE DEF n, r
<1>9. ChainTypeOK'
  BY <1>1, <1>2, <1>4, <1>7, <1>8 DEF ChainTypeOK, Transaction
<1>10. \A v \in Writer \ {w} : \A d \in drafts[v] : d.carrier # k
  BY <1>8, ChainConstants DEF Separate
<1>11. Separate'
  BY <1>1, <1>2, <1>3, <1>7, <1>8, <1>10 DEF Separate, ChainTypeOK
<1>12. ASSUME NEW c \in Carrier
       PROVE  /\ WellChained(Chain(entries, c), sequence, clock)'
              /\ \A v \in Writer : WellChained(Chain(Visible(v), c), sequence, clock)'
  <2>1. Chain(entries, c)' = Chain(entries, c)
    BY <1>8 DEF Chain
  <2>2. Chain(entries, c) \in SUBSET Row /\ WellChained(Chain(entries, c), sequence, clock)
    BY DEF ChainTypeOK, Chained, Chain
  <2>3. WellChained(Chain(entries, c)', sequence', clock')
    BY <1>4, <1>8, <2>1, <2>2, LaterIsWellChained
  <2>4. ASSUME NEW v \in Writer
        PROVE  WellChained(Chain(Visible(v), c)', sequence', clock')
    <3>1. CASE v = w /\ c = k
      <4>1. Chain(Visible(v), c)' = Chain(Visible(w), k) \cup {n}
        BY <1>7, <1>8, <3>1 DEF Chain, Visible, ChainTypeOK
      <4>. QED  BY <1>4, <1>5, <1>7, <1>8, <4>1, AppendExtends
    <3>2. CASE ~(v = w /\ c = k)
      <4>1. Chain(Visible(v), c)' = Chain(Visible(v), c)
        BY <1>7, <1>8, <3>2 DEF Chain, Visible, ChainTypeOK
      <4>2. /\ Chain(Visible(v), c) \in SUBSET Row
            /\ WellChained(Chain(Visible(v), c), sequence, clock)
        BY DEF ChainTypeOK, Chained, Chain, Visible
      <4>. QED  BY <1>4, <1>8, <4>1, <4>2, LaterIsWellChained
    <3>. QED  BY <3>1, <3>2
  <2>. QED  BY <2>3, <2>4 DEF WellChained
<1>13. Chained'
  BY <1>12 DEF Chained
<1>. QED  BY <1>9, <1>11, <1>13

\* The rows a transaction commits were visible to it as chains, and nobody else
\* has rows of those chains.
LEMMA EndPreserves ==
  ASSUME ChainInv, NEW w \in Writer, Commit(w) \/ Rollback(w)
  PROVE  ChainInv'
<1>. USE DEF ChainInv
<1>1. /\ tx' = [tx EXCEPT ![w] = Idle]
      /\ drafts' = [drafts EXCEPT ![w] = {}]
      /\ lock' = [c \in Carrier |-> IF lock[c] = w THEN Nobody ELSE lock[c]]
      /\ UNCHANGED <<sequence, inserts, clock>>
      /\ entries' \in {entries, entries \cup drafts[w]}
  BY DEF Commit, Rollback, End
<1>2. ChainTypeOK'
  BY <1>1 DEF ChainTypeOK, Transaction
<1>3. Separate'
  BY <1>1 DEF Separate, ChainTypeOK, Row
<1>4. ASSUME NEW c \in Carrier
      PROVE  /\ WellChained(Chain(entries, c)', sequence, clock)
             /\ \A v \in Writer : WellChained(Chain(Visible(v), c)', sequence, clock)
  <2>1. Chain(entries, c)' \in {Chain(entries, c), Chain(Visible(w), c)}
    BY <1>1 DEF Chain, Visible
  <2>2. ASSUME NEW v \in Writer
        PROVE  Chain(Visible(v), c)' \in {Chain(entries, c), Chain(Visible(v), c),
                                          Chain(Visible(w), c)}
    <3>1. CASE v = w
      BY <1>1, <3>1 DEF Chain, Visible, ChainTypeOK
    <3>2. CASE v # w
      <4>1. drafts'[v] = drafts[v]
        BY <1>1, <3>2 DEF ChainTypeOK
      <4>2. Chain(drafts[v], c) = {} \/ Chain(drafts[w], c) = {}
        BY <3>2 DEF Separate, Chain
      <4>3. Chain(Visible(v), c)' \in {Chain(entries \cup drafts[v], c),
                                       Chain(entries \cup drafts[w] \cup drafts[v], c)}
        BY <1>1, <4>1 DEF Visible, Chain
      <4>. QED  BY <4>2, <4>3 DEF Chain, Visible
    <3>. QED  BY <3>1, <3>2
  <2>. QED  BY <2>1, <2>2 DEF Chained
<1>5. Chained'
  BY <1>1, <1>4 DEF Chained, WellChained
<1>. QED  BY <1>2, <1>3, <1>5

LEMMA TickPreserves ==
  ASSUME ChainInv, Tick
  PROVE  ChainInv'
<1>. USE DEF ChainInv
<1>1. ChainTypeOK'
  BY ChainConstants DEF Tick, ChainTypeOK
<1>2. Separate'
  BY DEF Tick, Separate
<1>3. sequence \in Nat /\ clock \in Nat /\ clock' \in Nat /\ clock <= clock'
  BY ChainConstants DEF Tick, ChainTypeOK
<1>4. ASSUME NEW c \in Carrier
      PROVE  /\ WellChained(Chain(entries, c)', sequence', clock')
             /\ \A v \in Writer : WellChained(Chain(Visible(v), c)', sequence', clock')
  <2>1. /\ Chain(entries, c) \in SUBSET Row
        /\ \A v \in Writer : Chain(Visible(v), c) \in SUBSET Row
    BY DEF ChainTypeOK, Chain, Visible
  <2>2. /\ WellChained(Chain(entries, c), sequence, clock')
        /\ \A v \in Writer : WellChained(Chain(Visible(v), c), sequence, clock')
    BY <1>3, <2>1, LaterIsWellChained DEF Chained
  <2>. QED  BY <2>2 DEF Tick, Chain, Visible
<1>5. Chained'
  BY <1>4 DEF Chained, WellChained
<1>. QED  BY <1>1, <1>2, <1>5

LEMMA ChainNextInv == ChainInv /\ [ChainNext]_chainVars => ChainInv'
<1>. SUFFICES ASSUME ChainInv, [ChainNext]_chainVars PROVE ChainInv'
  OBVIOUS
<1>1. CASE UNCHANGED chainVars
  <2>1. ChainTypeOK' /\ Separate'
    BY <1>1 DEF ChainInv, chainVars, ChainTypeOK, Separate
  <2>2. Chained'
    BY <1>1 DEF ChainInv, chainVars, Chained, Chain, Visible
  <2>. QED  BY <2>1, <2>2 DEF ChainInv
<1>2. CASE ChainNext
  BY <1>2, BeginPreserves, InsertPreserves, AppendPreserves, EndPreserves,
     TickPreserves DEF ChainNext
<1>. QED  BY <1>1, <1>2

\* The invariant of the whole behaviour.
LEMMA ChainSpecInv == ChainSpec => []ChainInv
  BY ChainInitInv, ChainNextInv, PTL DEF ChainSpec

---------------------------------------------------------------------------
\* audit_chain_first_break finds no break in the chain of any carrier, whatever
\* transactions appended to it at once, committed or rolled back.
THEOREM ChainIsIntact == ChainSpec => []ChainIntact
<1>1. ChainInv => ChainIntact
  <2>. SUFFICES ASSUME ChainInv, NEW c \in Carrier PROVE FirstBreak(c) = Genesis
    BY DEF ChainInv, ChainIntact
  <2>1. \A r \in Chain(entries, c) :
          r.prev = Tip({q \in Chain(entries, c) : q.seq < r.seq})
    BY DEF ChainInv, Chained, WellChained
  <2>. QED  BY <2>1 DEF FirstBreak
<1>. QED  BY <1>1, ChainSpecInv, PTL

\* The entries of a carrier, taken by their numbers, are in the order of their times.
THEOREM TrailFollowsTime == ChainSpec => []TrailIsChronological
<1>1. ChainInv => TrailIsChronological
  <2>. SUFFICES ASSUME ChainInv, NEW r \in entries, NEW q \in entries,
                       r.carrier = q.carrier, r.seq < q.seq
                PROVE  r.at <= q.at
    BY DEF TrailIsChronological
  <2>1. r.carrier \in Carrier
    BY DEF ChainInv, ChainTypeOK, Row
  <2>2. r \in Chain(entries, r.carrier) /\ q \in Chain(entries, r.carrier)
    BY DEF Chain
  <2>. QED  BY <2>1, <2>2 DEF ChainInv, Chained, WellChained
<1>. QED  BY <1>1, ChainSpecInv, PTL
=============================================================================
