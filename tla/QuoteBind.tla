------------------------------ MODULE QuoteBind ------------------------------
(***************************************************************************)
(* Binding one quote into a policy (server/src/services/                    *)
(* quote-bind.service.ts) while the quote is edited and rated               *)
(* (quote.service.ts), expired (jobs/handlers/staleQuoteCleanup.ts) and its *)
(* underwriting referrals are decided (uw-referral.service.ts).             *)
(*                                                                         *)
(* A bind is a string of transactions: it reads the quote, reads the book   *)
(* of business, passes the referral gate, and only then writes the policy,  *)
(* in a transaction that locks the quote and the referral it spends.  Every *)
(* other operation may commit between two of them.  The last transaction is *)
(* one step: all that it reads it holds locked until it commits.            *)
(*                                                                         *)
(* A declined, expired or screened-out quote, and a crash, is the Fail      *)
(* step.  Ratings without a fingerprint (older than the check) are left     *)
(* out.  Quotes share no row and no lock, so one quote is modelled.         *)
(***************************************************************************)
EXTENDS Naturals, Sequences

CONSTANTS
  Binder,           \* callers of POST /quotes/:id/bind
  NoBinder,         \* the advisory lock when nobody holds it
  Risk,             \* what a rating fingerprint tells apart
  Billing,          \* billing fields, which it does not
  Edition,          \* states of the carrier's tables a quote can be rated with
  Unrated,          \* underwriting and premium are NULL
  NoProposal,       \* what a bind that is not under way has evaluated
  Referred,         \* the ratings whose underwriting decision is Refer
  BookLimit,        \* aggregation_appetite_limits.max_policy_count
  MaxBook,          \* bound: issued policies of the quote's product and state
  MaxTransactions   \* bound: no bind starts after so many transactions of binds

Payload == [risk : Risk, billing : Billing]
Rating  == [risk : Risk, edition : Edition]

ASSUME BinderAssumption  == NoBinder \notin Binder
ASSUME RatingAssumption  == Unrated \notin Rating /\ Referred \subseteq Rating
ASSUME NumbersAssumption ==
  BookLimit \in Nat /\ MaxBook \in Nat /\ MaxTransactions \in Nat

VARIABLES
  quote,      \* the quotes row: status, payload, rating (underwriting and premium),
              \* policy (converted_policy_id, 0 is NULL)
  policies,   \* policies bound from the quote, oldest first
  referrals,  \* underwriting_referrals rows of the quote, in insertion order
  book,       \* issued policies of the quote's product and state
  gateLock,   \* who holds the advisory lock of the quote's referral gate
  pc,         \* where each bind is
  bid,        \* what each bind has read, and the referral it relies on
  clock       \* transactions of binds begun so far: now() in the latest

bindVars == <<gateLock, pc, bid, clock>>
vars == <<quote, policies, referrals, book, gateLock, pc, bid, clock>>

QuoteStatus    == {"Draft", "Rated", "Expired", "Converted", "Issued"}
FinalStatus    == {"Converted", "Issued"}
ReferralStatus == {"Open", "Approved", "Declined", "InfoRequested"}
Undecided      == {"Open", "InfoRequested"}

\* The evidence of a referral: what the decision to refer was computed from.
Proposal == [payload : Payload, rating : Rating, book : Nat]

None  == 0
NoBid == [proposal |-> NoProposal, referral |-> None, began |-> 0]

-----------------------------------------------------------------------------
\* The reasons of bindQuote: the underwriting decision and the aggregation limit.
NeedsReferral(p) == p.rating \in Referred \/ p.book + 1 > BookLimit

\* assertBindableRating
Bindable(row) == row.rating # Unrated /\ row.rating.risk = row.payload.risk

\* Mutant: the status alone says whether the quote is bound.
AlreadyBound_StatusOnly == quote.status \in FinalStatus

\* What the last transaction of bindQuote refuses as QUOTE_ALREADY_BOUND.
AlreadyBound == quote.policy # None \/ quote.status \in FinalStatus

\* The locked quote is bindable and is the one the bind evaluated.
StillStands(p) ==
  Bindable(quote) /\ quote.payload = p.payload /\ quote.rating = p.rating

\* Mutants: any referral of the quote will do; a referral does not count while the
\* quote is rated otherwise.
SameProposal_AnyOfQuote(r, p) == TRUE
SameProposal_AsRatedNow(r, p) == r.proposal = p /\ quote.rating = p.rating

\* proposal_hash
SameProposal(r, p) == r.proposal = p

\* findExistingReferral: the most recent by created_at, None if there is none.
LatestReferral(p) ==
  LET Matching == {i \in DOMAIN referrals : SameProposal(referrals[i], p)}
  IN  IF Matching = {} THEN None
      ELSE CHOOSE i \in Matching :
             \A j \in Matching : referrals[j].created <= referrals[i].created

Usable(i, statuses) ==
  i # None /\ referrals[i].status \in statuses /\ ~referrals[i].spent

\* Mutant: the gate takes no advisory lock.
GateFree_NoLock == TRUE

GateFree == gateLock = NoBinder

\* A draft save changes the risk a quote was rated for, and it is not bound yet.
RatingReset(p) ==
  /\ quote.status \notin FinalStatus
  /\ quote.rating # Unrated
  /\ p.risk # quote.rating.risk

-----------------------------------------------------------------------------
Init ==
  /\ \E p \in Payload :
       quote = [status |-> "Draft", payload |-> p, rating |-> Unrated, policy |-> None]
  /\ policies = <<>>
  /\ referrals = <<>>
  /\ book = 0
  /\ gateLock = NoBinder
  /\ pc = [b \in Binder |-> "idle"]
  /\ bid = [b \in Binder |-> NoBid]
  /\ clock = 0

\* createOrRateQuote on a known quote: by its id alone, whatever its status is.
Rate(p, e) ==
  /\ quote' = [quote EXCEPT !.status = "Rated", !.payload = p,
                            !.rating = [risk |-> p.risk, edition |-> e]]
  /\ UNCHANGED <<policies, referrals, book, bindVars>>

\* updateDraftQuote: the client sends a payload (no payload saves the one stored)
\* and may ask for Issued; a rating reset comes before what it asks for.
SaveDraft(p, asked) ==
  LET reset == RatingReset(p) IN
  /\ quote' = [quote EXCEPT !.status = IF reset THEN "Draft"
                                       ELSE IF asked = "Issued" THEN "Issued" ELSE @,
                            !.payload = p,
                            !.rating = IF reset THEN Unrated ELSE @]
  /\ UNCHANGED <<policies, referrals, book, bindVars>>

\* The cleanup job finds the quote untouched for longer than its cutoff.
Expire ==
  /\ quote.status \in {"Draft", "Rated"}
  /\ quote' = [quote EXCEPT !.status = "Expired"]
  /\ UNCHANGED <<policies, referrals, book, bindVars>>

\* Another policy of the product and state is issued.
BookGrows ==
  /\ book < MaxBook
  /\ book' = book + 1
  /\ UNCHANGED <<quote, policies, referrals, bindVars>>

\* decideReferral, under the row lock of the referral.
Decide(i, decision) ==
  /\ referrals[i].status \in Undecided
  /\ referrals' = [referrals EXCEPT ![i].status = decision]
  /\ UNCHANGED <<quote, policies, book, bindVars>>

\* A bind ends: with its answer, or with an error that rolls its transaction back.
EndBind(b) ==
  /\ pc' = [pc EXCEPT ![b] = "idle"]
  /\ bid' = [bid EXCEPT ![b] = NoBid]
  /\ gateLock' = IF gateLock = b THEN NoBinder ELSE gateLock

\* bindQuote reads the quote; it refuses a final status and a stale rating.
ReadQuote(b) ==
  /\ pc[b] = "idle"
  /\ clock < MaxTransactions
  /\ quote.status \notin FinalStatus
  /\ Bindable(quote)
  /\ clock' = clock + 1
  /\ bid' = [bid EXCEPT ![b].proposal =
               [payload |-> quote.payload, rating |-> quote.rating, book |-> 0]]
  /\ pc' = [pc EXCEPT ![b] = "evaluating"]
  /\ UNCHANGED <<quote, policies, referrals, book, gateLock>>

\* It reads the exposure of the book; a proposal that must be referred begins the
\* gate's transaction, whose now() will be created_at.
Evaluate(b) ==
  LET p == [bid[b].proposal EXCEPT !.book = book] IN
  /\ pc[b] = "evaluating"
  /\ \/ /\ NeedsReferral(p)
        /\ clock' = clock + 1
        /\ bid' = [bid EXCEPT ![b].proposal = p, ![b].began = clock']
        /\ pc' = [pc EXCEPT ![b] = "gate"]
     \/ /\ ~NeedsReferral(p)
        /\ bid' = [bid EXCEPT ![b].proposal = p]
        /\ pc' = [pc EXCEPT ![b] = "committing"]
        /\ UNCHANGED clock
  /\ UNCHANGED <<quote, policies, referrals, book, gateLock>>

\* resolveReferralGate: under the advisory lock, the latest referral of this very
\* proposal lets the bind go on, blocks it, or is of no use.
FindReferral(b) ==
  LET i == LatestReferral(bid[b].proposal) IN
  /\ pc[b] = "gate"
  /\ GateFree
  /\ \/ /\ Usable(i, {"Approved"})
        /\ bid' = [bid EXCEPT ![b].referral = i]
        /\ pc' = [pc EXCEPT ![b] = "committing"]
        /\ UNCHANGED gateLock
     \/ /\ Usable(i, Undecided)
        /\ EndBind(b)
     \/ /\ ~Usable(i, {"Approved"} \cup Undecided)
        /\ gateLock' = b
        /\ pc' = [pc EXCEPT ![b] = "opening"]
        /\ UNCHANGED bid
  /\ UNCHANGED <<quote, policies, referrals, book, clock>>

\* The gate opens a fresh referral and blocks the bind.
OpenReferral(b) ==
  /\ pc[b] = "opening"
  /\ referrals' = Append(referrals, [proposal |-> bid[b].proposal, created |-> bid[b].began,
                                     status |-> "Open", spent |-> FALSE])
  /\ EndBind(b)
  /\ UNCHANGED <<quote, policies, book, clock>>

MayCommit(b) ==
  /\ ~AlreadyBound
  /\ StillStands(bid[b].proposal)
  /\ bid[b].referral # None => Usable(bid[b].referral, {"Approved"})

\* The transaction that writes the policy, spends the approval and converts the
\* quote.
Commit(b) ==
  LET r == bid[b].referral IN
  /\ pc[b] = "committing"
  /\ MayCommit(b)
  /\ policies' = Append(policies, [proposal |-> bid[b].proposal, referral |-> r])
  /\ referrals' = [i \in DOMAIN referrals |->
                     IF i = r THEN [referrals[i] EXCEPT !.spent = TRUE] ELSE referrals[i]]
  /\ quote' = [quote EXCEPT !.status = "Converted", !.policy = Len(policies')]
  /\ EndBind(b)
  /\ UNCHANGED <<book, clock>>

\* QUOTE_ALREADY_BOUND, QUOTE_RERATE_REQUIRED, QUOTE_CHANGED, or an approval that is
\* no longer available.
Refuse(b) ==
  /\ pc[b] = "committing"
  /\ ~MayCommit(b)
  /\ EndBind(b)
  /\ UNCHANGED <<quote, policies, referrals, book, clock>>

Fail(b) ==
  /\ pc[b] # "idle"
  /\ EndBind(b)
  /\ UNCHANGED <<quote, policies, referrals, book, clock>>

Next ==
  \/ \E p \in Payload : (\E e \in Edition : Rate(p, e)) \/ SaveDraft(p, "Draft")
                        \/ SaveDraft(p, "Issued")
  \/ Expire
  \/ BookGrows
  \/ \E i \in DOMAIN referrals, d \in {"Approved", "Declined", "InfoRequested"} : Decide(i, d)
  \/ \E b \in Binder :
       \/ ReadQuote(b) \/ Evaluate(b) \/ FindReferral(b) \/ OpenReferral(b)
       \/ Commit(b) \/ Refuse(b) \/ Fail(b)

Spec == Init /\ [][Next]_vars
-----------------------------------------------------------------------------
(***************************************************************************)
(* Properties.                                                              *)
(***************************************************************************)

\* Every variable holds values of its column or of a bind's program counter.
TypeOK ==
  /\ quote \in [status : QuoteStatus, payload : Payload, rating : Rating \cup {Unrated},
                policy : Nat]
  /\ policies \in Seq([proposal : Proposal, referral : Nat])
  /\ referrals \in Seq([proposal : Proposal, created : Nat, status : ReferralStatus,
                        spent : BOOLEAN])
  /\ book \in Nat
  /\ gateLock \in Binder \cup {NoBinder}
  /\ pc \in [Binder -> {"idle", "evaluating", "gate", "opening", "committing"}]
  /\ bid \in [Binder -> [proposal : Proposal \cup {NoProposal}, referral : Nat, began : Nat]]
  /\ clock \in Nat

\* A quote becomes at most one policy, whoever binds it at the same time and although
\* rating it again gives a converted quote the status Rated.
BoundOnce ==
  /\ TypeOK
  /\ Len(policies) <= 1
  /\ quote.policy = Len(policies)

\* A policy that had to be referred rests on an approval of the very proposal that
\* was bound, given before it was bound, and spent on nothing else.
ReferredOnApproval ==
  \A i \in DOMAIN policies :
    LET p == policies[i] IN
    NeedsReferral(p.proposal) =>
      /\ p.referral \in DOMAIN referrals
      /\ referrals[p.referral].status = "Approved"
      /\ referrals[p.referral].proposal = p.proposal
      /\ referrals[p.referral].spent

\* Repeated and concurrent attempts do not fill the underwriters' queue: a proposal
\* is before them twice only when the later request followed a refusal (or the
\* binding) of one they were asked about after the earlier.
NoDuplicateReferral ==
  \A i, j \in DOMAIN referrals :
    LET r == referrals[i]
        s == referrals[j]
    IN  (/\ r.proposal = s.proposal
         /\ r.status \in Undecided /\ s.status \in Undecided
         /\ r.created < s.created)
        => \E k \in DOMAIN referrals :
             LET t == referrals[k] IN
             /\ t.proposal = r.proposal /\ r.created < t.created
             /\ t.status = "Declined" \/ t.spent

\* A policy rests on what was said last of its proposal: when it is written, no
\* later request for the same proposal is before the underwriters or was declined,
\* although the approval was found in an earlier transaction and other binds went
\* through the gate since (findExistingReferral, and the check in the last
\* transaction that looks at the one referral it spends).
BoundOnTheLastWord ==
  [][\A i \in DOMAIN policies' \ DOMAIN policies :
       LET p == policies'[i] IN
       p.referral # None =>
         \A s \in DOMAIN referrals :
           referrals[s].proposal = p.proposal
             => referrals[s].created <= referrals[p.referral].created]_vars
=============================================================================
