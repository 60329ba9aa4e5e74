--------------------------- MODULE PolicyTimeline ---------------------------
(* The timeline of a policy term (lib/policy-timeline.ts) under the          *)
(* transactions that rebuild it: endorsements, with an effective date that   *)
(* may be before that of earlier ones, cancellations and reinstatements.     *)
(* Every transaction derives the segments of the term from the versions      *)
(* before it and again with its own, stores the second and computes the      *)
(* premium that moved between the two.  An endorsement books it as its       *)
(* adjustment; a cancellation or reinstatement notes it in the metadata of   *)
(* its transaction and books a refund or a charge figured otherwise, which   *)
(* is not modelled.                                                          *)
(*                                                                           *)
(* Dates are days of the term, 0 its first and Term its expiration.  A       *)
(* payload gives each field a value; a change set is the fields it changes   *)
(* with their values.  The row lock makes transactions take turns, so        *)
(* versions are in the order of processed_at; what happens to that order     *)
(* when they wait for each other is in PolicyLifecycle.  Amounts are per day *)
(* of the term and unrounded.                                                *)
EXTENDS Integers, Sequences, FiniteSets, SequencesExt, FiniteSetsExt

CONSTANTS Field, Value,
          Premium,      \* what rating makes of a payload
          FirstPayload, \* the payload of the new business version
          Term,         \* days of the term
          Earliest,     \* bound: the first effective date requests name
          MaxVersions   \* bound: versions of the policy

Payload == [Field -> Value]
ChangeSet == UNION {[F -> Value] : F \in SUBSET Field}

ASSUME TermAssumption     == Term \in Nat \ {0}
ASSUME EarliestAssumption == Earliest \in Int /\ Earliest <= Term
ASSUME PremiumAssumption  == Premium \in [Payload -> Int]
ASSUME FirstAssumption    == FirstPayload \in Payload
ASSUME BoundAssumption    == MaxVersions \in Nat \ {0}

VARIABLES versions,   \* policy_versions with their change sets, as processed
          segments,   \* policy_timeline_segments of the last timeline version
          status,     \* policies.status
          adjusted,   \* the sum of policy_retro_adjustments: what endorsements booked
          noted       \* the sum of retroAdjustment in the metadata of cancellations
                      \* and reinstatements, which nothing books

vars == <<versions, segments, status, adjusted, noted>>

Date == Earliest..Term
Day  == 0..Term - 1

NoChanges == [f \in {} |-> FirstPayload[f]]

\* A version of a transaction; given says that its request had a payload.
Version == [type : {"New", "Endorse", "Cancel", "Reinstate"}, eff : Date \cup {0},
            changes : ChangeSet, payload : Payload, given : BOOLEAN]
Segment == [start : Day, end : 1..Term, source : 1..MaxVersions, payload : Payload]

-----------------------------------------------------------------------------
\* sortTimelineVersions: the order in which versions are replayed.
Precedes(vs, i, j) ==
  vs[i].eff < vs[j].eff \/ (vs[i].eff = vs[j].eff /\ i < j)

\* The versions that are replayed, those before one, and the last of some of them.
InTerm(vs) == {i \in DOMAIN vs : vs[i].eff < Term}
Before(vs, i) == {j \in InTerm(vs) : Precedes(vs, j, i)}
Latest(vs, some) == CHOOSE i \in some : \A j \in some \ {i} : Precedes(vs, j, i)

HasChangeSet(v) == v.type = "Endorse" /\ DOMAIN v.changes # {}

\* applyChanges
Patch(changes, payload) ==
  [f \in Field |-> IF f \in DOMAIN changes THEN changes[f] ELSE payload[f]]

\* Mutant: an endorsement replaces the whole payload, like any other version.
Replayed_Snapshots(vs) == [i \in InTerm(vs) |-> vs[i].payload]

\* The running payload after each version.
Replayed(vs) ==
  LET running[i \in InTerm(vs)] ==
        IF Before(vs, i) # {} /\ HasChangeSet(vs[i])
        THEN Patch(vs[i].changes, running[Latest(vs, Before(vs, i))])
        ELSE vs[i].payload
  IN running

\* Mutant: a segment for every version, also of those with one date.
LastOfItsDate_Every(vs, i) == TRUE

LastOfItsDate(vs, i) == \A j \in InTerm(vs) : vs[j].eff = vs[i].eff => j <= i

\* nextDistinctEffectiveDate
NextDate(vs, i) == Min({d \in {vs[j].eff : j \in InTerm(vs)} : d > vs[i].eff} \cup {Term})

\* deriveTimelineSegments
Derived(vs) ==
  LET running == Replayed(vs)
      start(i) == Max({vs[i].eff, 0})
      shown == {i \in InTerm(vs) : LastOfItsDate(vs, i) /\ start(i) < NextDate(vs, i)}
  IN {[start |-> start(i), end |-> NextDate(vs, i), source |-> i, payload |-> running[i]]
        : i \in shown}

\* Mutant: a segment begins after its first day.
StateAt_AfterStart(segs, d) ==
  IF \E s \in segs : s.start < d /\ d <= s.end
  THEN CHOOSE s \in segs : s.start < d /\ d <= s.end
  ELSE CHOOSE s \in segs : \A t \in segs : s.start >= t.start

\* findTimelineStateAtDate
StateAt(segs, d) ==
  IF \E s \in segs : s.start <= d /\ d < s.end
  THEN CHOOSE s \in segs : s.start <= d /\ d < s.end
  ELSE IF \A s \in segs : d < s.start
       THEN CHOOSE s \in segs : \A t \in segs : s.start <= t.start
       ELSE CHOOSE s \in segs : \A t \in segs : s.start >= t.start

PremiumAt(segs, d) == Premium[StateAt(segs, d).payload]

\* Mutant: the difference at the effective date, for the rest of the term.
Boundaries_Remainder(old, new, from) == {from, Term}

\* Where either timeline may change, from the date on.
Boundaries(old, new, from) ==
  LET clipped == {[start |-> Max({s.start, from}), end |-> s.end] : s \in old \cup new}
      shown == {c \in clipped : c.start < c.end}
  IN {from, Term} \cup {c.start : c \in shown} \cup {c.end : c \in shown}

\* computeRetroResult, times the days of the term
Retro(old, new, eff) ==
  LET from == Max({eff, 0})
      bounds == Boundaries(old, new, from)
      end(b) == Min({c \in bounds : c > b})
      delta == [b \in bounds \ {Term} |->
                  (PremiumAt(new, b) - PremiumAt(old, b)) * (end(b) - b)]
  IN IF from >= Term THEN 0 ELSE SumFunction(delta)

-----------------------------------------------------------------------------
NewBusiness == [type |-> "New", eff |-> 0, changes |-> NoChanges,
                payload |-> FirstPayload, given |-> TRUE]

Init ==
  /\ versions = <<NewBusiness>>
  /\ segments = Derived(versions)
  /\ status = "Issued"
  /\ adjusted = 0
  /\ noted = 0

\* The premium that a version moves.
Moved(v) == Retro(Derived(versions), Derived(Append(versions, v)), v.eff)

\* What every transaction does with its version.
Rebuild(v) ==
  /\ Len(versions) < MaxVersions
  /\ versions' = Append(versions, v)
  /\ segments' = Derived(versions')

\* executeEndorsement, which does not look at the status
Endorse(eff, changes) ==
  LET previous == StateAt(Derived(versions), eff).payload
      v == [type |-> "Endorse", eff |-> eff, changes |-> changes,
            payload |-> Patch(changes, previous), given |-> FALSE] IN
    /\ Rebuild(v)
    /\ adjusted' = adjusted + Moved(v)
    /\ UNCHANGED <<status, noted>>

\* The payload of the request or else of the version processed last.
Stands(type, eff, payload, given) ==
  LET v == [type |-> type, eff |-> eff, changes |-> NoChanges,
            payload |-> payload, given |-> given] IN
    /\ given \/ payload = Last(versions).payload
    /\ Rebuild(v)
    /\ noted' = noted + Moved(v)
    /\ UNCHANGED adjusted

Cancel(eff, payload, given) ==
  /\ status = "Issued"
  /\ Stands("Cancel", eff, payload, given)
  /\ status' = "Cancelled"

Reinstate(eff, payload, given) ==
  /\ status = "Cancelled"
  /\ Stands("Reinstate", eff, payload, given)
  /\ status' = "Issued"

Next ==
  \E eff \in Date :
    \/ \E changes \in ChangeSet : Endorse(eff, changes)
    \/ \E payload \in Payload, given \in BOOLEAN :
         Cancel(eff, payload, given) \/ Reinstate(eff, payload, given)

Spec == Init /\ [][Next]_vars

-----------------------------------------------------------------------------
TypeOK ==
  /\ versions \in Seq(Version)
  /\ Len(versions) \in 1..MaxVersions
  /\ segments \subseteq Segment
  /\ status \in {"Issued", "Cancelled"}
  /\ adjusted \in Int
  /\ noted \in Int

(* The segments of a term are its days, each in one of them, whatever the    *)
(* order, the dates in and out of the term and the dates shared by           *)
(* transactions (policy-timeline.ts:84-126).                                 *)
SegmentsCoverTheTerm ==
  /\ TypeOK
  /\ \A s \in segments : s.start < s.end
  /\ \A d \in Day : Cardinality({s \in segments : s.start <= d /\ d < s.end}) = 1

\* The fields a version sets, wherever it is replayed.
Sets(v) == IF HasChangeSet(v) THEN DOMAIN v.changes ELSE Field

\* The version that has the last word on a field at a day, among those of which
\* sets says that they have one: the last by effective date, then as processed.
LastWord(f, d, sets(_)) ==
  LET has == {i \in DOMAIN versions : f \in sets(versions[i]) /\ versions[i].eff <= d} IN
    CHOOSE i \in has : \A j \in has :
      \/ versions[j].eff < versions[i].eff
      \/ versions[j].eff = versions[i].eff /\ j <= i

(* Each field has the value of the last version by effective date that set   *)
(* it, then of the last processed of those (ARCHITECTURE.md:128-131), however*)
(* the transactions came in.                                                 *)
LaterDateGoverns ==
  \A d \in Day, f \in Field :
    StateAt(segments, d).payload[f] = versions[LastWord(f, d, Sets)].payload[f]

\* The premium of the days of a timeline.
Earned(segs) == SumFunction([d \in Day |-> PremiumAt(segs, d)])

(* What endorsements booked and what cancellations and reinstatements noted  *)
(* together are the premium of the term as it now stands against the premium *)
(* it was written for, so that no day is counted twice or left out by        *)
(* whichever transaction moved it; and what was booked falls short of that   *)
(* by what was only noted (policy-timeline.ts:142-214, lifecycle.service.ts: *)
(* 488).                                                                     *)
AdjustmentsAddUp ==
  adjusted + noted = Earned(segments) - Earned(Derived(<<NewBusiness>>))

(* A transaction changes nothing before its effective date                   *)
(* (ARCHITECTURE.md:140: the timeline is rebuilt from the earliest impacted  *)
(* date).                                                                    *)
PastIsUntouched ==
  [][\A d \in Day : d < Last(versions').eff =>
       StateAt(segments', d).payload = StateAt(segments, d).payload]_vars

\* The fields a request changes: none for a cancellation or a reinstatement of the
\* policy as it is.
Asks(v) == IF v.given THEN Field ELSE DOMAIN v.changes

(* "Later valid-time change on same field wins for dates >= its effective    *)
(* date" (ARCHITECTURE.md:131): where every endorsement changes something,   *)
(* each field has the value of the last request that changed it.             *)
ChangesGovern ==
  (\A i \in DOMAIN versions : versions[i].type = "Endorse" => HasChangeSet(versions[i]))
    => \A d \in Day, f \in Field :
         StateAt(segments, d).payload[f] = versions[LastWord(f, d, Asks)].payload[f]
=============================================================================
