--------------------------- MODULE QuoteBindProofs ---------------------------
(***************************************************************************)
(* What QuoteBind binds, for any binders, risks, tables and limits: a quote *)
(* becomes one policy, and on an approval of its own that is the latest.    *)
(*                                                                         *)
(* A bind trusts in its last transaction what it found in earlier ones.     *)
(* The inductive invariant says what of that cannot change meanwhile: a     *)
(* referral it relies on exists, is one of the proposal it evaluated, and   *)
(* while it is neither spent nor declined no later one of it is opened.     *)
(***************************************************************************)
EXTENDS QuoteBind, SequenceTheorems, TLAPS

Bid == [proposal : Proposal \cup {NoProposal}, referral : Nat, began : Nat]
Referral == [proposal : Proposal, created : Nat, status : ReferralStatus, spent : BOOLEAN]

\* What a bind under way has evaluated, and the referral it relies on.
BidInv ==
  \A b \in Binder :
    /\ pc[b] # "idle" => bid[b].proposal \in Proposal
    /\ pc[b] # "committing" => bid[b].referral = None
    /\ pc[b] = "committing" =>
         /\ NeedsReferral(bid[b].proposal) => bid[b].referral # None
         /\ bid[b].referral # None =>
              /\ bid[b].referral \in DOMAIN referrals
              /\ referrals[bid[b].referral].proposal = bid[b].proposal

\* Among the referrals of a proposal one is the most recent.
LatestInv ==
  \A i \in DOMAIN referrals :
    \E k \in DOMAIN referrals :
      /\ referrals[k].proposal = referrals[i].proposal
      /\ \A j \in DOMAIN referrals :
           referrals[j].proposal = referrals[i].proposal
             => referrals[j].created <= referrals[k].created

Once == Len(policies) <= 1 /\ quote.policy = Len(policies)

IInv == TypeOK /\ BidInv /\ LatestInv /\ Once /\ ReferredOnApproval

-----------------------------------------------------------------------------
LEMMA InitIInv == Init => IInv
<1>. SUFFICES ASSUME Init PROVE IInv
  OBVIOUS
<1>1. TypeOK
  <2>1. PICK p \in Payload :
          quote = [status |-> "Draft", payload |-> p, rating |-> Unrated, policy |-> 0]
    BY DEF Init, None
  <2>. QED  BY <2>1 DEF Init, TypeOK, NoBid, None, QuoteStatus
<1>2. BidInv
  BY DEF Init, BidInv, NoBid
<1>3. LatestInv /\ Once /\ ReferredOnApproval
  BY DEF Init, LatestInv, Once, ReferredOnApproval, None
<1>. QED  BY <1>1, <1>2, <1>3 DEF IInv

\* The referral the gate finds is one of the proposal, and none of it is later.
LEMMA LatestIsLatest ==
  ASSUME IInv, NEW p, NEW h \in DOMAIN referrals, referrals[h].proposal = p
  PROVE  /\ LatestReferral(p) \in DOMAIN referrals
         /\ referrals[LatestReferral(p)].proposal = p
         /\ referrals[h].created <= referrals[LatestReferral(p)].created
<1>. DEFINE Matching == {i \in DOMAIN referrals : SameProposal(referrals[i], p)}
<1>1. h \in Matching
  BY DEF SameProposal
<1>2. \E k \in Matching : \A j \in Matching : referrals[j].created <= referrals[k].created
  BY DEF IInv, LatestInv, SameProposal
<1>3. /\ LatestReferral(p) \in Matching
      /\ \A j \in Matching : referrals[j].created <= referrals[LatestReferral(p)].created
  BY <1>1, <1>2 DEF LatestReferral
<1>. QED  BY <1>1, <1>3 DEF SameProposal

LEMMA LatestIsOfProposal ==
  ASSUME IInv, NEW p, LatestReferral(p) # None
  PROVE  /\ LatestReferral(p) \in DOMAIN referrals
         /\ referrals[LatestReferral(p)].proposal = p
<1>1. PICK h \in DOMAIN referrals : referrals[h].proposal = p
  BY DEF LatestReferral, SameProposal
<1>. QED  BY <1>1, LatestIsLatest

\* A quote that is rated, saved or expired keeps the policy it has.
LEMMA EditPreserves ==
  ASSUME IInv,
         \/ \E p \in Payload : \/ \E e \in Edition : Rate(p, e)
                               \/ SaveDraft(p, "Draft") \/ SaveDraft(p, "Issued")
         \/ Expire
  PROVE  IInv'
<1>. DEFINE Row == [status : QuoteStatus, payload : Payload, rating : Rating \cup {Unrated},
                    policy : Nat]
<1>1. quote \in Row
  BY DEF IInv, TypeOK
<1>2. quote' \in Row /\ quote'.policy = quote.policy
  <2>1. ASSUME NEW p \in Payload, NEW e \in Edition, Rate(p, e)
        PROVE  quote' \in Row /\ quote'.policy = quote.policy
    <3>. DEFINE r == [risk |-> p.risk, edition |-> e]
    <3>1. quote' = [quote EXCEPT !.status = "Rated", !.payload = p, !.rating = r]
      BY <2>1 DEF Rate
    <3>2. r \in Rating
      BY DEF Rating, Payload
    <3>. HIDE DEF r
    <3>. QED  BY <1>1, <3>1, <3>2 DEF QuoteStatus
  <2>2. ASSUME NEW p \in Payload, NEW asked \in {"Draft", "Issued"}, SaveDraft(p, asked)
        PROVE  quote' \in Row /\ quote'.policy = quote.policy
    <3>. DEFINE s == IF RatingReset(p) THEN "Draft"
                     ELSE IF asked = "Issued" THEN "Issued" ELSE quote.status
                t == IF RatingReset(p) THEN Unrated ELSE quote.rating
    <3>1. quote' = [quote EXCEPT !.status = s, !.payload = p, !.rating = t]
      BY <2>2 DEF SaveDraft
    <3>2. s \in QuoteStatus /\ t \in Rating \cup {Unrated}
      BY <1>1 DEF QuoteStatus
    <3>. HIDE DEF s, t
    <3>. QED  BY <1>1, <3>1, <3>2
  <2>3. ASSUME Expire
        PROVE  quote' \in Row /\ quote'.policy = quote.policy
    BY <1>1, <2>3 DEF Expire, QuoteStatus
  <2>. QED  BY <2>1, <2>2, <2>3
<1>3. UNCHANGED <<policies, referrals, book, gateLock, pc, bid, clock>>
  BY DEF Rate, SaveDraft, Expire, bindVars
<1>4. TypeOK'
  BY <1>2, <1>3 DEF IInv, TypeOK
<1>5. BidInv' /\ LatestInv'
  BY <1>3 DEF IInv, BidInv, LatestInv, NeedsReferral
<1>6. Once' /\ ReferredOnApproval'
  BY <1>2, <1>3 DEF IInv, Once, ReferredOnApproval, NeedsReferral
<1>. QED  BY <1>4, <1>5, <1>6 DEF IInv

LEMMA BookPreserves ==
  ASSUME IInv, BookGrows
  PROVE  IInv'
  BY DEF BookGrows, bindVars, IInv, TypeOK, BidInv, LatestInv, Once, ReferredOnApproval,
         NeedsReferral

\* A referral that is decided was neither approved nor spent, and stays of its proposal.
LEMMA DecidePreserves ==
  ASSUME IInv, NEW i \in DOMAIN referrals,
         NEW d \in {"Approved", "Declined", "InfoRequested"}, Decide(i, d)
  PROVE  IInv'
<1>. DEFINE r == [referrals[i] EXCEPT !.status = d]
<1>1. /\ referrals[i].status \in Undecided
      /\ referrals' = [referrals EXCEPT ![i] = r]
      /\ UNCHANGED <<quote, policies, book, gateLock, pc, bid, clock>>
  BY DEF Decide, bindVars
<1>a. referrals \in Seq(Referral)
  BY DEF IInv, TypeOK, Referral
<1>2. referrals[i] \in Referral
  BY <1>a
<1>3. /\ r \in Referral
      /\ r.proposal = referrals[i].proposal /\ r.created = referrals[i].created
      /\ r.spent = referrals[i].spent /\ r.status = d
  BY <1>2 DEF Referral, ReferralStatus
<1>. HIDE DEF r
<1>4. TypeOK'
  <2>1. referrals' \in Seq(Referral)
    BY <1>1, <1>3, <1>a, ExceptSeq
  <2>. QED  BY <1>1, <2>1 DEF IInv, TypeOK, Referral
<1>5. DOMAIN referrals' = DOMAIN referrals
  BY <1>1 DEF IInv, TypeOK
<1>6. \A k \in DOMAIN referrals : /\ referrals'[k].proposal = referrals[k].proposal
                                  /\ referrals'[k].created = referrals[k].created
                                  /\ k # i => referrals'[k] = referrals[k]
  BY <1>1, <1>3 DEF IInv, TypeOK
<1>7. BidInv'
  BY <1>1, <1>5, <1>6 DEF IInv, BidInv, NeedsReferral
<1>8. LatestInv'
  BY <1>5, <1>6 DEF IInv, LatestInv
<1>9. Once' /\ ReferredOnApproval'
  BY <1>1, <1>5, <1>6 DEF IInv, Once, ReferredOnApproval, NeedsReferral, Undecided
<1>. QED  BY <1>4, <1>7, <1>8, <1>9 DEF IInv

\* A bind moves to a step for which it has found what BidInv asks.
Ready(step, n) ==
  /\ n \in Bid
  /\ step \in {"idle", "evaluating", "gate", "opening", "committing"}
  /\ step # "idle" => n.proposal \in Proposal
  /\ step # "committing" => n.referral = None
  /\ step = "committing" =>
       /\ NeedsReferral(n.proposal) => n.referral # None
       /\ n.referral # None =>
            /\ n.referral \in DOMAIN referrals
            /\ referrals[n.referral].proposal = n.proposal

\* Referrals are never removed and stay of their proposals, so other binds keep theirs.
LEMMA BidStep ==
  ASSUME IInv, NEW b \in Binder, NEW step, NEW n, Ready(step, n),
         bid' = [bid EXCEPT ![b] = n], pc' = [pc EXCEPT ![b] = step],
         gateLock' \in {gateLock, b, NoBinder}, clock' \in {clock, clock + 1},
         \A i \in DOMAIN referrals :
           i \in DOMAIN referrals' /\ referrals'[i].proposal = referrals[i].proposal
  PROVE  /\ BidInv'
         /\ gateLock' \in Binder \cup {NoBinder} /\ clock' \in Nat
         /\ pc' \in [Binder -> {"idle", "evaluating", "gate", "opening", "committing"}]
         /\ bid' \in [Binder -> Bid]
<1>1. bid \in [Binder -> Bid]
  BY DEF IInv, TypeOK, Bid
<1>2. BidInv'
  BY <1>1 DEF Ready, IInv, TypeOK, BidInv, NeedsReferral
<1>. QED  BY <1>1, <1>2 DEF Ready, IInv, TypeOK

\* The same for a step that touches nothing but the bind.
LEMMA OwnStep ==
  ASSUME IInv, NEW b \in Binder, NEW step, NEW n, Ready(step, n),
         bid' = [bid EXCEPT ![b] = n], pc' = [pc EXCEPT ![b] = step],
         gateLock' \in {gateLock, b, NoBinder}, clock' \in {clock, clock + 1},
         UNCHANGED <<quote, policies, referrals, book>>
  PROVE  IInv'
<1>1. /\ BidInv'
      /\ gateLock' \in Binder \cup {NoBinder} /\ clock' \in Nat
      /\ pc' \in [Binder -> {"idle", "evaluating", "gate", "opening", "committing"}]
      /\ bid' \in [Binder -> Bid]
  BY BidStep
<1>2. TypeOK'
  BY <1>1 DEF IInv, TypeOK, Bid
<1>3. LatestInv' /\ Once' /\ ReferredOnApproval'
  BY DEF IInv, LatestInv, Once, ReferredOnApproval, NeedsReferral
<1>. QED  BY <1>1, <1>2, <1>3 DEF IInv

LEMMA NoBidReady == Ready("idle", NoBid)
  BY DEF Ready, NoBid, Bid, None

LEMMA EndPreserves ==
  ASSUME IInv, NEW b \in Binder, EndBind(b), clock' = clock,
         UNCHANGED <<quote, policies, referrals, book>>
  PROVE  IInv'
  BY OwnStep, NoBidReady DEF EndBind

LEMMA ReadQuotePreserves ==
  ASSUME IInv, NEW b \in Binder, ReadQuote(b)
  PROVE  IInv'
<1>. DEFINE p == [payload |-> quote.payload, rating |-> quote.rating, book |-> 0]
            n == [bid[b] EXCEPT !.proposal = p]
<1>1. /\ quote.rating # Unrated /\ pc[b] = "idle"
      /\ bid' = [bid EXCEPT ![b] = n] /\ pc' = [pc EXCEPT ![b] = "evaluating"]
      /\ UNCHANGED <<quote, policies, referrals, book, gateLock>>
      /\ clock' = clock + 1
  BY DEF ReadQuote, Bindable
<1>2. p \in Proposal
  BY <1>1 DEF IInv, TypeOK, Proposal
<1>3. bid[b] \in Bid /\ bid[b].referral = None
  BY <1>1 DEF IInv, TypeOK, BidInv, Bid
<1>. HIDE DEF p
<1>4. Ready("evaluating", n)
  BY <1>2, <1>3 DEF Ready, Bid
<1>. HIDE DEF n
<1>. QED  BY <1>1, <1>4, OwnStep

LEMMA EvaluatePreserves ==
  ASSUME IInv, NEW b \in Binder, Evaluate(b)
  PROVE  IInv'
<1>. DEFINE p == [bid[b].proposal EXCEPT !.book = book]
            m == clock + 1
            n == [bid[b] EXCEPT !.proposal = p, !.began = m]
            o == [bid[b] EXCEPT !.proposal = p]
<1>1. /\ pc[b] = "evaluating" /\ UNCHANGED <<quote, policies, referrals, book, gateLock>>
      /\ \/ clock' = m /\ bid' = [bid EXCEPT ![b] = n] /\ pc' = [pc EXCEPT ![b] = "gate"]
         \/ /\ ~NeedsReferral(p)
            /\ clock' = clock /\ bid' = [bid EXCEPT ![b] = o]
            /\ pc' = [pc EXCEPT ![b] = "committing"]
  BY DEF Evaluate
<1>2. bid[b] \in Bid /\ bid[b].referral = None /\ bid[b].proposal \in Proposal
  BY <1>1 DEF IInv, TypeOK, BidInv, Bid
<1>3. p \in Proposal
  BY <1>2 DEF IInv, TypeOK, Proposal
<1>4. m \in Nat
  BY DEF IInv, TypeOK
<1>. HIDE DEF p, m
<1>5. Ready("gate", n)
  BY <1>2, <1>3, <1>4 DEF Ready, Bid
<1>6. ~NeedsReferral(p) => Ready("committing", o)
  BY <1>2, <1>3 DEF Ready, Bid
<1>. HIDE DEF n, o
<1>7. clock' \in {clock, clock + 1}
  BY <1>1 DEF m
<1>. QED  BY <1>1, <1>5, <1>6, <1>7, OwnStep

LEMMA FindReferralPreserves ==
  ASSUME IInv, NEW b \in Binder, FindReferral(b)
  PROVE  IInv'
<1>. DEFINE p == bid[b].proposal
            i == LatestReferral(p)
            n == [bid[b] EXCEPT !.referral = i]
<1>1. pc[b] = "gate" /\ UNCHANGED <<quote, policies, referrals, book, clock>>
  BY DEF FindReferral
<1>2. bid[b] \in Bid /\ bid[b].referral = None /\ p \in Proposal
  BY <1>1 DEF IInv, TypeOK, BidInv, Bid
<1>3. CASE /\ Usable(i, {"Approved"}) /\ UNCHANGED gateLock
           /\ bid' = [bid EXCEPT ![b] = n] /\ pc' = [pc EXCEPT ![b] = "committing"]
  <2>1. i # None /\ i \in DOMAIN referrals /\ referrals[i].proposal = p
    BY <1>3, LatestIsOfProposal DEF Usable
  <2>2. i \in Nat
    BY <2>1 DEF IInv, TypeOK
  <2>. HIDE DEF i, p
  <2>3. n \in Bid /\ n.referral = i /\ n.proposal = bid[b].proposal
    BY <1>2, <2>2 DEF Bid
  <2>4. Ready("committing", n)
    BY <1>2, <2>1, <2>3 DEF Ready, p
  <2>. HIDE DEF n
  <2>. QED  BY <1>1, <1>3, <2>4, OwnStep
<1>4. CASE EndBind(b)
  BY <1>1, <1>4, EndPreserves
<1>5. CASE gateLock' = b /\ pc' = [pc EXCEPT ![b] = "opening"] /\ UNCHANGED bid
  <2>1. bid' = [bid EXCEPT ![b] = bid[b]]
    BY <1>5 DEF IInv, TypeOK
  <2>2. Ready("opening", bid[b])
    BY <1>2 DEF Ready
  <2>. QED  BY <1>1, <1>5, <2>1, <2>2, OwnStep
<1>. QED  BY <1>3, <1>4, <1>5 DEF FindReferral

\* A referral that is opened is of the proposal the bind evaluated; it or the most
\* recent one before it is now the most recent.
LEMMA OpenPreserves ==
  ASSUME IInv, NEW b \in Binder, OpenReferral(b)
  PROVE  IInv'
<1>. DEFINE r == [proposal |-> bid[b].proposal, created |-> bid[b].began,
                  status |-> "Open", spent |-> FALSE]
            N == Len(referrals) + 1
<1>1. /\ pc[b] = "opening" /\ EndBind(b)
      /\ referrals' = Append(referrals, r)
      /\ UNCHANGED <<quote, policies, book, clock>>
  BY DEF OpenReferral
<1>2. referrals \in Seq(Referral)
  BY DEF IInv, TypeOK, Referral
<1>3. r \in Referral
  BY <1>1 DEF IInv, TypeOK, BidInv, Referral, ReferralStatus
<1>. HIDE DEF r
<1>4. /\ referrals' \in Seq(Referral) /\ Len(referrals') = N /\ referrals'[N] = r
      /\ \A i \in DOMAIN referrals : i \in DOMAIN referrals' /\ referrals'[i] = referrals[i]
      /\ DOMAIN referrals' = DOMAIN referrals \cup {N}
  BY <1>1, <1>2, <1>3, AppendProperties
<1>5. /\ BidInv'
      /\ gateLock' \in Binder \cup {NoBinder} /\ clock' \in Nat
      /\ pc' \in [Binder -> {"idle", "evaluating", "gate", "opening", "committing"}]
      /\ bid' \in [Binder -> Bid]
  BY <1>1, <1>4, BidStep, NoBidReady DEF EndBind
<1>6. TypeOK'
  BY <1>1, <1>4, <1>5 DEF IInv, TypeOK, Bid, Referral
<1>7. \A i \in DOMAIN referrals : referrals[i].created \in Nat
  <2>1. \A i \in DOMAIN referrals : referrals[i] \in Referral
    BY <1>2
  <2>. QED  BY <2>1 DEF Referral
<1>8. r.created \in Nat
  BY <1>3 DEF Referral
<1>9. LatestInv'
  <2>. SUFFICES ASSUME NEW i \in DOMAIN referrals'
                PROVE  \E k \in DOMAIN referrals' :
                         /\ referrals'[k].proposal = referrals'[i].proposal
                         /\ \A j \in DOMAIN referrals' :
                              referrals'[j].proposal = referrals'[i].proposal
                                => referrals'[j].created <= referrals'[k].created
    BY DEF LatestInv
  <2>. DEFINE p == referrals'[i].proposal
  <2>1. CASE \E h \in DOMAIN referrals : referrals[h].proposal = p
    <3>1. PICK k \in DOMAIN referrals :
            /\ referrals[k].proposal = p
            /\ \A j \in DOMAIN referrals :
                 referrals[j].proposal = p => referrals[j].created <= referrals[k].created
      BY <2>1 DEF IInv, LatestInv
    <3>2. CASE r.proposal = p /\ referrals[k].created <= r.created
      BY <1>4, <1>7, <1>8, <3>1, <3>2
    <3>3. CASE ~(r.proposal = p /\ referrals[k].created <= r.created)
      BY <1>4, <1>7, <1>8, <3>1, <3>3
    <3>. QED  BY <3>2, <3>3
  <2>2. CASE ~ \E h \in DOMAIN referrals : referrals[h].proposal = p
    BY <1>4, <1>8, <2>2
  <2>. QED  BY <2>1, <2>2
<1>10. Once'
  BY <1>1 DEF IInv, Once
<1>11. ReferredOnApproval'
  BY <1>1, <1>4 DEF IInv, ReferredOnApproval, NeedsReferral
<1>. QED  BY <1>5, <1>6, <1>9, <1>10, <1>11 DEF IInv

\* The policy a bind writes is the first of its quote; the referral it spends, if one
\* is needed, is approved and of its proposal.
LEMMA CommitPreserves ==
  ASSUME IInv, NEW b \in Binder, Commit(b)
  PROVE  IInv'
<1>. DEFINE r == bid[b].referral
            p == [proposal |-> bid[b].proposal, referral |-> r]
            Spent(i) == [referrals[i] EXCEPT !.spent = TRUE]
            Policy == [proposal : Proposal, referral : Nat]
<1>1. /\ pc[b] = "committing" /\ MayCommit(b) /\ EndBind(b)
      /\ policies' = Append(policies, p)
      /\ referrals' = [i \in DOMAIN referrals |-> IF i = r THEN Spent(i) ELSE referrals[i]]
      /\ quote' = [quote EXCEPT !.status = "Converted", !.policy = Len(policies')]
      /\ UNCHANGED <<book, clock>>
  BY DEF Commit
<1>2. /\ referrals \in Seq(Referral) /\ policies \in Seq(Policy) /\ p \in Policy
      /\ r \in Nat
  BY <1>1 DEF IInv, TypeOK, BidInv, Referral
<1>3. \A i \in DOMAIN referrals :
        /\ Spent(i) \in Referral /\ Spent(i).spent
        /\ Spent(i).proposal = referrals[i].proposal
        /\ Spent(i).created = referrals[i].created
        /\ Spent(i).status = referrals[i].status
  <2>. SUFFICES ASSUME NEW i \in DOMAIN referrals
                PROVE  /\ Spent(i) \in Referral /\ Spent(i).spent
                       /\ Spent(i).proposal = referrals[i].proposal
                       /\ Spent(i).created = referrals[i].created
                       /\ Spent(i).status = referrals[i].status
    OBVIOUS
  <2>1. referrals[i] \in Referral
    BY <1>2
  <2>. QED  BY <2>1 DEF Referral
<1>. HIDE DEF Spent
<1>4. referrals' \in Seq(Referral) /\ DOMAIN referrals' = DOMAIN referrals
  <2>1. \A i \in 1..Len(referrals) : referrals'[i] \in Referral
    BY <1>1, <1>2, <1>3
  <2>2. referrals' = [i \in 1..Len(referrals) |-> referrals'[i]]
    BY <1>1, <1>2
  <2>. HIDE <1>1
  <2>. QED  BY <1>2, <2>1, <2>2, IsASeq
<1>5. \A i \in DOMAIN referrals :
        /\ referrals'[i].proposal = referrals[i].proposal
        /\ referrals'[i].created = referrals[i].created
        /\ referrals'[i].status = referrals[i].status
        /\ referrals[i].spent \/ i = r => referrals'[i].spent
  BY <1>1, <1>3
<1>6. /\ BidInv'
      /\ gateLock' \in Binder \cup {NoBinder} /\ clock' \in Nat
      /\ pc' \in [Binder -> {"idle", "evaluating", "gate", "opening", "committing"}]
      /\ bid' \in [Binder -> Bid]
  BY <1>1, <1>4, <1>5, BidStep, NoBidReady DEF EndBind
<1>7. policies' \in Seq(Policy) /\ Len(policies') = 1 /\ policies'[1] = p
  BY <1>1, <1>2, AppendProperties DEF IInv, Once, MayCommit, AlreadyBound, None
<1>8. quote'.policy = 1 /\ quote' \in [status : QuoteStatus, payload : Payload,
                                       rating : Rating \cup {Unrated}, policy : Nat]
  <2>1. quote' = [quote EXCEPT !.status = "Converted", !.policy = 1]
    BY <1>1, <1>7
  <2>2. quote \in [status : QuoteStatus, payload : Payload,
                   rating : Rating \cup {Unrated}, policy : Nat]
    BY DEF IInv, TypeOK
  <2>. QED  BY <2>1, <2>2 DEF QuoteStatus
<1>9. TypeOK'
  BY <1>1, <1>4, <1>6, <1>7, <1>8 DEF IInv, TypeOK, Bid, Referral
<1>10. LatestInv'
  BY <1>4, <1>5 DEF IInv, LatestInv
<1>11. Once'
  BY <1>7, <1>8 DEF Once
<1>12. ReferredOnApproval'
  <2>1. NeedsReferral(bid[b].proposal) =>
          /\ r \in DOMAIN referrals /\ referrals[r].proposal = bid[b].proposal
          /\ referrals[r].status = "Approved"
    BY <1>1 DEF IInv, BidInv, MayCommit, Usable
  <2>2. DOMAIN policies' = {1}
    BY <1>7
  <2>. QED  BY <1>4, <1>5, <1>7, <2>1, <2>2 DEF ReferredOnApproval, NeedsReferral
<1>. QED  BY <1>6, <1>9, <1>10, <1>11, <1>12 DEF IInv

LEMMA NextIInv == IInv /\ [Next]_vars => IInv'
<1>. SUFFICES ASSUME IInv, [Next]_vars PROVE IInv'
  OBVIOUS
<1>1. CASE UNCHANGED vars
  BY <1>1 DEF IInv, vars, TypeOK, BidInv, LatestInv, Once, ReferredOnApproval, NeedsReferral
<1>2. CASE Next
  <2>1. ASSUME NEW b \in Binder, Refuse(b) \/ Fail(b) PROVE IInv'
    BY <2>1, EndPreserves DEF Refuse, Fail
  <2>. QED  BY <1>2, <2>1, EditPreserves, BookPreserves, DecidePreserves, ReadQuotePreserves,
               EvaluatePreserves, FindReferralPreserves, OpenPreserves, CommitPreserves DEF Next
<1>. QED  BY <1>1, <1>2

LEMMA SpecIInv == Spec => []IInv
  BY InitIInv, NextIInv, PTL DEF Spec

-----------------------------------------------------------------------------
\* One policy comes of a quote, and it is the one the quote names.
THEOREM QuoteBoundOnce == Spec => []BoundOnce
<1>1. IInv => BoundOnce
  BY DEF IInv, BoundOnce, Once
<1>. QED  BY <1>1, SpecIInv, PTL

\* A policy that had to be referred was bound on an approval of what was bound.
THEOREM ReferredIsApproved == Spec => []ReferredOnApproval
<1>1. IInv => ReferredOnApproval
  BY DEF IInv
<1>. QED  BY <1>1, SpecIInv, PTL

-----------------------------------------------------------------------------
(***************************************************************************)
(* The underwriters' queue.  Over IInv: created_at tells the referrals      *)
(* apart, and the lock of the gate keeps what its holder has found true     *)
(* until it inserts, whatever is decided, bound or begun meanwhile; so what  *)
(* a bind has found approved is still the latest of its proposal when it     *)
(* spends it, or else is refused or spent already.                           *)
(***************************************************************************)

\* A referral that lets no bind go on: refused, or spent on a policy.
Closed(r) == r.status = "Declined" \/ r.spent

AtGate(b) == pc[b] \in {"gate", "opening"}

\* A created_at belongs to one referral, or to one bind that may still insert it.
StampInv ==
  /\ \A i \in DOMAIN referrals : referrals[i].created <= clock
  /\ \A i, j \in DOMAIN referrals : referrals[i].created = referrals[j].created => i = j
  /\ \A b \in Binder : AtGate(b) =>
       /\ bid[b].began <= clock
       /\ \A i \in DOMAIN referrals : referrals[i].created # bid[b].began
  /\ \A b, c \in Binder : AtGate(b) /\ AtGate(c) /\ bid[b].began = bid[c].began => b = c

SpentInv == \A i \in DOMAIN referrals : referrals[i].spent => referrals[i].status = "Approved"

\* Whoever is about to insert holds the lock, and no referral of its proposal is
\* later than all that are closed.
GateInv ==
  \A b \in Binder : pc[b] = "opening" =>
    /\ gateLock = b
    /\ \A i \in DOMAIN referrals : referrals[i].proposal = bid[b].proposal =>
         \E k \in DOMAIN referrals :
           /\ referrals[k].proposal = bid[b].proposal /\ Closed(referrals[k])
           /\ referrals[i].created <= referrals[k].created

\* The referral a bid relies on is the most recent of its proposal.
IsLatest(n) ==
  \A s \in DOMAIN referrals :
    referrals[s].proposal = n.proposal => referrals[s].created <= referrals[n.referral].created

LastInv ==
  \A b \in Binder :
    pc[b] = "committing" /\ bid[b].referral # None /\ ~Closed(referrals[bid[b].referral])
      => IsLatest(bid[b])

QueueInv == StampInv /\ SpentInv /\ GateInv /\ LastInv /\ NoDuplicateReferral

\* A step leaves a bind where it was, or takes it from the gate, or makes it rely on
\* the latest referral of its proposal or on none.
Keeps(b) ==
  /\ AtGate(b)' => AtGate(b) /\ bid'[b] = bid[b]
  /\ pc'[b] = "opening" => pc[b] = "opening" /\ gateLock' = gateLock
  /\ pc'[b] = "committing" => \/ bid'[b].referral = None
                              \/ pc[b] = "committing" /\ bid'[b] = bid[b]
                              \/ bid'[b].referral \in DOMAIN referrals /\ IsLatest(bid'[b])

LEMMA InitQueueInv == Init => QueueInv
  BY DEF Init, QueueInv, StampInv, SpentInv, GateInv, LastInv, AtGate, NoDuplicateReferral

LEMMA Numbers ==
  ASSUME TypeOK
  PROVE  /\ clock \in Nat
         /\ \A i \in DOMAIN referrals : referrals[i].created \in Nat
         /\ \A b \in Binder : bid[b].began \in Nat
<1>. referrals \in Seq(Referral)
  BY DEF TypeOK, Referral
<1>1. \A i \in DOMAIN referrals : referrals[i] \in Referral
  OBVIOUS
<1>2. \A b \in Binder : bid[b] \in Bid
  BY DEF TypeOK, Bid
<1>. QED  BY <1>1, <1>2 DEF TypeOK, Referral, Bid

\* A step that inserts no referral and brings no bind nearer to inserting one: a
\* referral only leaves the undecided, and what is closed stays closed.
LEMMA QuietStep ==
  ASSUME IInv, QueueInv,
         DOMAIN referrals' = DOMAIN referrals,
         \A i \in DOMAIN referrals :
           /\ referrals'[i].proposal = referrals[i].proposal
           /\ referrals'[i].created = referrals[i].created
           /\ referrals'[i].status \in Undecided => referrals[i].status \in Undecided
           /\ Closed(referrals[i]) => Closed(referrals'[i])
           /\ referrals'[i].spent => referrals'[i].status = "Approved",
         clock' \in {clock, clock + 1},
         \A b \in Binder : Keeps(b)
  PROVE  QueueInv'
<1>1. /\ clock \in Nat
      /\ \A i \in DOMAIN referrals : referrals[i].created \in Nat
      /\ \A b \in Binder : bid[b].began \in Nat
  BY Numbers DEF IInv
<1>2. StampInv'
  <2>1. \A i \in DOMAIN referrals' : referrals'[i].created <= clock'
    BY <1>1 DEF QueueInv, StampInv
  <2>2. \A i, j \in DOMAIN referrals' : referrals'[i].created = referrals'[j].created => i = j
    BY DEF QueueInv, StampInv
  <2>3. \A b \in Binder : AtGate(b)' =>
          /\ bid'[b].began <= clock'
          /\ \A i \in DOMAIN referrals' : referrals'[i].created # bid'[b].began
    BY <1>1 DEF QueueInv, StampInv, Keeps
  <2>4. \A b, c \in Binder : AtGate(b)' /\ AtGate(c)' /\ bid'[b].began = bid'[c].began => b = c
    BY DEF QueueInv, StampInv, Keeps
  <2>. QED  BY <2>1, <2>2, <2>3, <2>4 DEF StampInv
<1>3. SpentInv'
  BY DEF SpentInv
<1>4. GateInv'
  <2>. SUFFICES ASSUME NEW b \in Binder, pc'[b] = "opening"
                PROVE  /\ gateLock' = b
                       /\ \A i \in DOMAIN referrals' : referrals'[i].proposal = bid'[b].proposal =>
                            \E k \in DOMAIN referrals' :
                              /\ referrals'[k].proposal = bid'[b].proposal
                              /\ Closed(referrals'[k])
                              /\ referrals'[i].created <= referrals'[k].created
    BY DEF GateInv, Closed
  <2>1. pc[b] = "opening" /\ gateLock' = gateLock /\ bid'[b] = bid[b]
    BY DEF AtGate, Keeps
  <2>. QED  BY <2>1 DEF QueueInv, GateInv
<1>5. NoDuplicateReferral'
  BY DEF QueueInv, NoDuplicateReferral, Closed
<1>6. LastInv'
  <2>. SUFFICES ASSUME NEW b \in Binder, pc'[b] = "committing", bid'[b].referral # None,
                       ~Closed(referrals'[bid'[b].referral]), NEW s \in DOMAIN referrals',
                       referrals'[s].proposal = bid'[b].proposal
                PROVE  referrals'[s].created <= referrals'[bid'[b].referral].created
    BY DEF LastInv, IsLatest, Closed
  <2>. DEFINE i == bid'[b].referral
  <2>1. /\ i \in DOMAIN referrals /\ ~Closed(referrals[i])
        /\ referrals[s].proposal = bid'[b].proposal
        /\ \A k \in DOMAIN referrals :
             referrals[k].proposal = bid'[b].proposal =>
               referrals[k].created <= referrals[i].created
    BY DEF QueueInv, LastInv, IsLatest, IInv, BidInv, Keeps
  <2>. QED  BY <2>1
<1>. QED  BY <1>2, <1>3, <1>4, <1>5, <1>6 DEF QueueInv

\* The referrals are as they were, and so is every bind that is at the gate.
LEMMA AloofStep ==
  ASSUME IInv, QueueInv, UNCHANGED referrals, clock' \in {clock, clock + 1},
         \A b \in Binder : Keeps(b)
  PROVE  QueueInv'
  BY QuietStep DEF QueueInv, SpentInv

\* A bind that leaves the gate keeps the lock of no other.
LEMMA EndLeaves ==
  ASSUME IInv, QueueInv, NEW b \in Binder, EndBind(b)
  PROVE  \A c \in Binder : Keeps(c)
<1>1. /\ pc' = [pc EXCEPT ![b] = "idle"] /\ bid' = [bid EXCEPT ![b] = NoBid]
      /\ pc \in [Binder -> {"idle", "evaluating", "gate", "opening", "committing"}]
      /\ bid \in [Binder -> Bid]
  BY DEF EndBind, IInv, TypeOK, Bid
<1>2. \A c \in Binder : pc[c] = "opening" => gateLock = c
  BY DEF QueueInv, GateInv
<1>. QED  BY <1>1, <1>2 DEF EndBind, AtGate, Keeps

\* A decision takes a referral that is undecided, so not one that is closed.
LEMMA DecideQueue ==
  ASSUME IInv, QueueInv, NEW i \in DOMAIN referrals,
         NEW d \in {"Approved", "Declined", "InfoRequested"}, Decide(i, d)
  PROVE  QueueInv'
<1>. DEFINE r == [referrals[i] EXCEPT !.status = d]
<1>1. /\ referrals[i].status \in Undecided
      /\ referrals' = [referrals EXCEPT ![i] = r]
      /\ UNCHANGED <<gateLock, pc, bid, clock>>
  BY DEF Decide, bindVars
<1>2. referrals \in Seq(Referral)
  BY DEF IInv, TypeOK, Referral
<1>3. referrals[i] \in Referral
  BY <1>2
<1>4. /\ r.proposal = referrals[i].proposal /\ r.created = referrals[i].created
      /\ r.spent = referrals[i].spent /\ r.status = d
  BY <1>3 DEF Referral
<1>5. ~referrals[i].spent /\ referrals[i].status # "Declined"
  BY <1>1 DEF QueueInv, SpentInv, Undecided
<1>. HIDE DEF r
<1>6. /\ DOMAIN referrals' = DOMAIN referrals /\ referrals'[i] = r
      /\ \A k \in DOMAIN referrals : k # i => referrals'[k] = referrals[k]
  BY <1>1, <1>2
<1>7. \A k \in DOMAIN referrals :
        /\ referrals'[k].proposal = referrals[k].proposal
        /\ referrals'[k].created = referrals[k].created
        /\ referrals'[k].status \in Undecided => referrals[k].status \in Undecided
        /\ Closed(referrals[k]) => Closed(referrals'[k])
        /\ referrals'[k].spent => referrals'[k].status = "Approved"
  BY <1>1, <1>4, <1>5, <1>6 DEF Closed, QueueInv, SpentInv
<1>8. \A b \in Binder : Keeps(b)
  BY <1>1 DEF AtGate, Keeps
<1>. QED  BY <1>1, <1>6, <1>7, <1>8, QuietStep

\* A policy spends the approval it rests on.
LEMMA CommitQueue ==
  ASSUME IInv, QueueInv, NEW b \in Binder, Commit(b)
  PROVE  QueueInv'
<1>. DEFINE r == bid[b].referral
            Spent(i) == [referrals[i] EXCEPT !.spent = TRUE]
<1>1. /\ MayCommit(b) /\ EndBind(b) /\ clock' = clock /\ pc[b] = "committing"
      /\ referrals' = [i \in DOMAIN referrals |-> IF i = r THEN Spent(i) ELSE referrals[i]]
  BY DEF Commit
<1>2. \A i \in DOMAIN referrals :
        /\ Spent(i).proposal = referrals[i].proposal
        /\ Spent(i).created = referrals[i].created
        /\ Spent(i).status = referrals[i].status
        /\ Spent(i).spent
  <2>. referrals \in Seq(Referral)
    BY DEF IInv, TypeOK, Referral
  <2>1. \A i \in DOMAIN referrals : referrals[i] \in Referral
    OBVIOUS
  <2>. QED  BY <2>1 DEF Referral
<1>. HIDE DEF Spent
<1>3. r \in DOMAIN referrals => referrals[r].status = "Approved"
  <2>1. CASE r = None
    <3>1. None \notin DOMAIN referrals
      BY DEF None, IInv, TypeOK
    <3>. QED  BY <2>1, <3>1
  <2>2. CASE r # None
    BY <1>1, <2>2 DEF MayCommit, Usable
  <2>. QED  BY <2>1, <2>2
<1>4. \A k \in DOMAIN referrals :
        /\ referrals'[k].proposal = referrals[k].proposal
        /\ referrals'[k].created = referrals[k].created
        /\ referrals'[k].status \in Undecided => referrals[k].status \in Undecided
        /\ Closed(referrals[k]) => Closed(referrals'[k])
        /\ referrals'[k].spent => referrals'[k].status = "Approved"
  BY <1>1, <1>2, <1>3 DEF Closed, QueueInv, SpentInv
<1>5. DOMAIN referrals' = DOMAIN referrals
  BY <1>1
<1>. HIDE DEF r
<1>. QED  BY <1>1, <1>4, <1>5, EndLeaves, QuietStep

\* The bind whose transaction begins gets a created_at of its own.
LEMMA EvaluateQueue ==
  ASSUME IInv, QueueInv, NEW b \in Binder, Evaluate(b)
  PROVE  QueueInv'
<1>. DEFINE p == [bid[b].proposal EXCEPT !.book = book]
            m == clock + 1
            n == [bid[b] EXCEPT !.proposal = p, !.began = m]
            o == [bid[b] EXCEPT !.proposal = p]
<1>1. /\ pc[b] = "evaluating" /\ UNCHANGED <<referrals, gateLock>>
      /\ \/ clock' = m /\ bid' = [bid EXCEPT ![b] = n] /\ pc' = [pc EXCEPT ![b] = "gate"]
         \/ /\ clock' = clock /\ bid' = [bid EXCEPT ![b] = o]
            /\ pc' = [pc EXCEPT ![b] = "committing"]
  BY DEF Evaluate
<1>2. /\ bid \in [Binder -> Bid]
      /\ pc \in [Binder -> {"idle", "evaluating", "gate", "opening", "committing"}]
  BY DEF IInv, TypeOK, Bid
<1>3. n.began = m
  BY <1>2 DEF Bid
<1>. HIDE DEF p, n, o
<1>4. CASE clock' = clock /\ bid' = [bid EXCEPT ![b] = o] /\ pc' = [pc EXCEPT ![b] = "committing"]
  <2>1. \A c \in Binder : Keeps(c)
    <3>1. bid'[b].referral = None
      BY <1>1, <1>2, <1>4 DEF IInv, BidInv, Bid, o
    <3>. QED  BY <1>1, <1>2, <1>4, <3>1 DEF AtGate, Keeps
  <2>. QED  BY <1>1, <1>4, <2>1, AloofStep
<1>5. CASE clock' = m /\ bid' = [bid EXCEPT ![b] = n] /\ pc' = [pc EXCEPT ![b] = "gate"]
  <2>1. /\ clock \in Nat
        /\ \A i \in DOMAIN referrals : referrals[i].created \in Nat
        /\ \A c \in Binder : bid[c].began \in Nat
    BY Numbers DEF IInv
  <2>2. \A c \in Binder : c # b => bid'[c] = bid[c] /\ pc'[c] = pc[c]
    BY <1>2, <1>5
  <2>3. bid'[b].began = clock + 1 /\ pc'[b] = "gate"
    BY <1>2, <1>3, <1>5
  <2>4. \A c \in Binder : c # b /\ AtGate(c)' => AtGate(c) /\ bid[c].began <= clock
    BY <2>2 DEF AtGate, QueueInv, StampInv
  <2>5. StampInv'
    <3>1. \A i \in DOMAIN referrals' : referrals'[i].created <= clock'
      BY <1>1, <1>5, <2>1 DEF QueueInv, StampInv
    <3>2. \A i, j \in DOMAIN referrals' : referrals'[i].created = referrals'[j].created => i = j
      BY <1>1 DEF QueueInv, StampInv
    <3>3. \A c \in Binder : AtGate(c)' =>
            /\ bid'[c].began <= clock'
            /\ \A i \in DOMAIN referrals' : referrals'[i].created # bid'[c].began
      BY <1>1, <1>5, <2>1, <2>2, <2>3, <2>4 DEF QueueInv, StampInv
    <3>4. \A c, d \in Binder : AtGate(c)' /\ AtGate(d)' /\ bid'[c].began = bid'[d].began => c = d
      BY <1>5, <2>1, <2>2, <2>3, <2>4 DEF QueueInv, StampInv
    <3>. QED  BY <3>1, <3>2, <3>3, <3>4 DEF StampInv
  <2>6. GateInv'
    BY <1>1, <2>2, <2>3 DEF QueueInv, GateInv, Closed
  <2>7. SpentInv' /\ NoDuplicateReferral'
    BY <1>1 DEF QueueInv, SpentInv, NoDuplicateReferral
  <2>8. LastInv'
    BY <1>1, <2>2, <2>3 DEF QueueInv, LastInv, IsLatest, Closed
  <2>. QED  BY <2>5, <2>6, <2>7, <2>8 DEF QueueInv
<1>. QED  BY <1>1, <1>4, <1>5

\* The lock is free, so nobody else is about to insert, and the most recent referral
\* of the proposal, if there is one, is closed.
LEMMA FindQueue ==
  ASSUME IInv, QueueInv, NEW b \in Binder, FindReferral(b)
  PROVE  QueueInv'
<1>. DEFINE p == bid[b].proposal
            i == LatestReferral(p)
<1>1. /\ pc[b] = "gate" /\ gateLock = NoBinder /\ UNCHANGED <<referrals, clock>>
  BY DEF FindReferral, GateFree
<1>2. /\ bid \in [Binder -> Bid]
      /\ pc \in [Binder -> {"idle", "evaluating", "gate", "opening", "committing"}]
  BY DEF IInv, TypeOK, Bid
<1>3. CASE /\ Usable(i, {"Approved"}) /\ UNCHANGED gateLock
           /\ pc' = [pc EXCEPT ![b] = "committing"] /\ bid' = [bid EXCEPT ![b].referral = i]
  <2>1. i # None
    BY <1>3 DEF Usable
  <2>2. /\ i \in DOMAIN referrals
        /\ \A s \in DOMAIN referrals :
             referrals[s].proposal = p => referrals[s].created <= referrals[i].created
    BY <2>1, LatestIsOfProposal, LatestIsLatest
  <2>3. bid'[b].referral = i /\ bid'[b].proposal = p
    BY <1>2, <1>3 DEF Bid
  <2>4. bid'[b].referral \in DOMAIN referrals /\ IsLatest(bid'[b])
    BY <2>2, <2>3 DEF IsLatest
  <2>5. \A c \in Binder : Keeps(c)
    BY <1>2, <1>3, <2>4 DEF AtGate, Keeps
  <2>. QED  BY <1>1, <2>5, AloofStep
<1>4. CASE EndBind(b)
  BY <1>1, <1>4, EndLeaves, AloofStep
<1>5. CASE /\ ~Usable(i, {"Approved"} \cup Undecided)
           /\ gateLock' = b /\ pc' = [pc EXCEPT ![b] = "opening"] /\ UNCHANGED bid
  <2>1. \A c \in Binder : pc[c] # "opening"
    BY <1>1, BinderAssumption DEF QueueInv, GateInv
  <2>2. \A j \in DOMAIN referrals : referrals[j].proposal = p =>
          \E k \in DOMAIN referrals :
            /\ referrals[k].proposal = p /\ Closed(referrals[k])
            /\ referrals[j].created <= referrals[k].created
    <3>. SUFFICES ASSUME NEW j \in DOMAIN referrals, referrals[j].proposal = p
                  PROVE  \E k \in DOMAIN referrals :
                           /\ referrals[k].proposal = p /\ Closed(referrals[k])
                           /\ referrals[j].created <= referrals[k].created
      OBVIOUS
    <3>1. i \in DOMAIN referrals /\ referrals[i].proposal = p
          /\ referrals[j].created <= referrals[i].created
      BY LatestIsLatest
    <3>2. i # None
      BY <3>1 DEF None, IInv, TypeOK
    <3>3. referrals[i].status \in ReferralStatus
      <4>. referrals \in Seq(Referral)
        BY DEF IInv, TypeOK, Referral
      <4>1. referrals[i] \in Referral
        BY <3>1
      <4>. QED  BY <4>1 DEF Referral
    <3>4. Closed(referrals[i])
      BY <1>5, <3>2, <3>3 DEF Usable, Undecided, ReferralStatus, Closed
    <3>. QED  BY <3>1, <3>4
  <2>3. GateInv'
    <3>1. \A c \in Binder : pc'[c] = "opening" => c = b
      BY <1>2, <1>5, <2>1
    <3>. HIDE DEF i
    <3>. QED  BY <1>1, <1>5, <2>2, <3>1 DEF GateInv, Closed
  <2>4. StampInv'
    <3>1. \A c \in Binder : AtGate(c)' => AtGate(c)
      BY <1>1, <1>2, <1>5 DEF AtGate
    <3>. HIDE DEF i
    <3>. QED  BY <1>1, <1>5, <3>1 DEF QueueInv, StampInv
  <2>5. SpentInv' /\ NoDuplicateReferral'
    BY <1>1 DEF QueueInv, SpentInv, NoDuplicateReferral
  <2>6. LastInv'
    <3>1. \A c \in Binder : pc'[c] = "committing" => pc[c] = "committing"
      BY <1>2, <1>5
    <3>. HIDE DEF i
    <3>. QED  BY <1>1, <1>5, <3>1 DEF QueueInv, LastInv, IsLatest, Closed
  <2>. QED  BY <2>3, <2>4, <2>5, <2>6 DEF QueueInv
<1>. QED  BY <1>3, <1>4, <1>5 DEF FindReferral

\* The referral that is inserted: whatever is still undecided of its proposal, earlier
\* or later, has a closed one between the two.
LEMMA OpenQueue ==
  ASSUME IInv, QueueInv, NEW b \in Binder, OpenReferral(b)
  PROVE  QueueInv'
<1>. DEFINE r == [proposal |-> bid[b].proposal, created |-> bid[b].began,
                  status |-> "Open", spent |-> FALSE]
            N == Len(referrals) + 1
<1>1. /\ pc[b] = "opening" /\ EndBind(b) /\ clock' = clock
      /\ referrals' = Append(referrals, r)
  BY DEF OpenReferral
<1>2. referrals \in Seq(Referral) /\ bid \in [Binder -> Bid]
  BY DEF IInv, TypeOK, Referral, Bid
<1>3. r \in Referral
  BY <1>1 DEF IInv, TypeOK, BidInv, Referral, ReferralStatus
<1>4. /\ r.proposal = bid[b].proposal /\ r.created = bid[b].began
      /\ r.status = "Open" /\ ~r.spent
  OBVIOUS
<1>. HIDE DEF r
<1>5. /\ referrals'[N] = r /\ DOMAIN referrals' = DOMAIN referrals \cup {N}
      /\ N \notin DOMAIN referrals
      /\ \A i \in DOMAIN referrals : referrals'[i] = referrals[i]
  BY <1>1, <1>2, <1>3, AppendProperties
<1>6. /\ clock \in Nat
      /\ \A i \in DOMAIN referrals : referrals[i].created \in Nat
      /\ \A c \in Binder : bid[c].began \in Nat
  BY Numbers DEF IInv
<1>7. \A c \in Binder : AtGate(c)' => AtGate(c) /\ bid'[c] = bid[c] /\ c # b
  <2>1. pc' = [pc EXCEPT ![b] = "idle"] /\ bid' = [bid EXCEPT ![b] = NoBid]
    BY <1>1 DEF EndBind
  <2>2. pc'[b] = "idle"
    BY <2>1 DEF IInv, TypeOK
  <2>. QED  BY <1>1, <2>2, EndLeaves DEF AtGate, Keeps
<1>8. StampInv'
  <2>1. /\ r.created <= clock
        /\ \A i \in DOMAIN referrals : referrals[i].created # r.created
        /\ \A c \in Binder : AtGate(c) /\ c # b => bid[c].began # r.created
    BY <1>1, <1>4 DEF AtGate, QueueInv, StampInv
  <2>2. \A i \in DOMAIN referrals' : referrals'[i].created <= clock'
    BY <1>1, <1>5, <2>1 DEF QueueInv, StampInv
  <2>3. \A i, j \in DOMAIN referrals' : referrals'[i].created = referrals'[j].created => i = j
    BY <1>5, <2>1 DEF QueueInv, StampInv
  <2>4. \A c \in Binder : AtGate(c)' =>
          /\ bid'[c].began <= clock'
          /\ \A i \in DOMAIN referrals' : referrals'[i].created # bid'[c].began
    BY <1>1, <1>5, <1>7, <2>1 DEF QueueInv, StampInv
  <2>5. \A c, d \in Binder : AtGate(c)' /\ AtGate(d)' /\ bid'[c].began = bid'[d].began => c = d
    BY <1>7 DEF QueueInv, StampInv
  <2>. QED  BY <2>2, <2>3, <2>4, <2>5 DEF StampInv
<1>9. SpentInv'
  BY <1>4, <1>5 DEF QueueInv, SpentInv
<1>10. GateInv'
  <2>1. \A c \in Binder : pc'[c] # "opening"
    <3>1. \A c \in Binder : pc[c] = "opening" => c = b
      BY <1>1 DEF QueueInv, GateInv
    <3>. QED  BY <1>1, <1>7, <3>1, EndLeaves DEF AtGate, Keeps
  <2>. QED  BY <2>1 DEF GateInv
<1>11. NoDuplicateReferral'
  <2>1. \A i \in DOMAIN referrals : referrals[i].proposal = r.proposal =>
          \E k \in DOMAIN referrals :
            /\ referrals[k].proposal = r.proposal /\ Closed(referrals[k])
            /\ referrals[i].created <= referrals[k].created
    BY <1>1, <1>4 DEF QueueInv, GateInv
  <2>. SUFFICES ASSUME NEW i \in DOMAIN referrals', NEW j \in DOMAIN referrals',
                       referrals'[i].proposal = referrals'[j].proposal,
                       referrals'[i].status \in Undecided, referrals'[j].status \in Undecided,
                       referrals'[i].created < referrals'[j].created
                PROVE  \E k \in DOMAIN referrals' :
                         /\ referrals'[k].proposal = referrals'[i].proposal
                         /\ referrals'[i].created < referrals'[k].created
                         /\ Closed(referrals'[k])
    BY DEF NoDuplicateReferral, Closed
  <2>2. CASE i \in DOMAIN referrals /\ j \in DOMAIN referrals
    <3>1. \E k \in DOMAIN referrals :
            /\ referrals[k].proposal = referrals[i].proposal
            /\ referrals[i].created < referrals[k].created
            /\ Closed(referrals[k])
      BY <1>5, <2>2 DEF QueueInv, NoDuplicateReferral, Closed
    <3>. QED  BY <1>5, <2>2, <3>1
  <2>3. CASE i \in DOMAIN referrals /\ j = N
    <3>1. PICK k \in DOMAIN referrals :
            /\ referrals[k].proposal = r.proposal /\ Closed(referrals[k])
            /\ referrals[i].created <= referrals[k].created
      BY <1>5, <2>1, <2>3
    <3>2. k # i
      BY <1>5, <2>3, <3>1 DEF Closed, Undecided, QueueInv, SpentInv
    <3>3. referrals[i].created < referrals[k].created
      BY <1>6, <2>3, <3>1, <3>2 DEF QueueInv, StampInv
    <3>. QED  BY <1>5, <2>3, <3>1, <3>3
  <2>4. CASE i = N /\ j \in DOMAIN referrals
    <3>1. PICK k \in DOMAIN referrals :
            /\ referrals[k].proposal = r.proposal /\ Closed(referrals[k])
            /\ referrals[j].created <= referrals[k].created
      BY <1>5, <2>1, <2>4
    <3>2. r.created < referrals[k].created
      BY <1>4, <1>5, <1>6, <2>4, <3>1
    <3>. QED  BY <1>5, <2>4, <3>1, <3>2
  <2>5. CASE i = N /\ j = N
    BY <1>4, <1>5, <1>6, <2>5
  <2>. QED  BY <1>5, <2>2, <2>3, <2>4, <2>5
<1>12. LastInv'
  <2>. SUFFICES ASSUME NEW c \in Binder, pc'[c] = "committing", bid'[c].referral # None,
                       ~Closed(referrals'[bid'[c].referral]), NEW s \in DOMAIN referrals',
                       referrals'[s].proposal = bid'[c].proposal
                PROVE  referrals'[s].created <= referrals'[bid'[c].referral].created
    BY DEF LastInv, IsLatest, Closed
  <2>. DEFINE i == bid[c].referral
  <2>1. pc[c] = "committing" /\ bid'[c] = bid[c]
    <3>1. /\ pc' = [pc EXCEPT ![b] = "idle"] /\ bid' = [bid EXCEPT ![b] = NoBid]
          /\ pc \in [Binder -> {"idle", "evaluating", "gate", "opening", "committing"}]
      BY <1>1 DEF EndBind, IInv, TypeOK
    <3>. QED  BY <1>2, <3>1
  <2>2. i \in DOMAIN referrals /\ referrals[i].proposal = bid[c].proposal
    BY <2>1 DEF IInv, BidInv
  <2>3. ~Closed(referrals[i]) /\ IsLatest(bid[c])
    BY <1>5, <2>1, <2>2 DEF QueueInv, LastInv
  <2>4. CASE s \in DOMAIN referrals
    BY <1>5, <2>1, <2>2, <2>3, <2>4 DEF IsLatest
  <2>5. CASE s = N
    <3>1. PICK k \in DOMAIN referrals :
            /\ referrals[k].proposal = bid[c].proposal /\ Closed(referrals[k])
            /\ referrals[i].created <= referrals[k].created
      BY <1>1, <1>4, <1>5, <2>1, <2>2, <2>5 DEF QueueInv, GateInv
    <3>2. referrals[k].created <= referrals[i].created
      BY <2>3, <3>1 DEF IsLatest
    <3>3. k = i
      BY <1>6, <2>2, <3>1, <3>2 DEF QueueInv, StampInv
    <3>. QED  BY <2>3, <3>1, <3>3
  <2>. QED  BY <1>5, <2>4, <2>5
<1>. QED  BY <1>8, <1>9, <1>10, <1>11, <1>12 DEF QueueInv

LEMMA NextQueueInv == IInv /\ QueueInv /\ [Next]_vars => QueueInv'
<1>. SUFFICES ASSUME IInv, QueueInv, [Next]_vars PROVE QueueInv'
  OBVIOUS
<1>1. clock \in Nat
  BY DEF IInv, TypeOK
<1>2. CASE UNCHANGED vars
  BY <1>2, AloofStep DEF vars, AtGate, Keeps
<1>3. ASSUME NEW p \in Payload,
             (\E e \in Edition : Rate(p, e)) \/ SaveDraft(p, "Draft") \/ SaveDraft(p, "Issued")
      PROVE  QueueInv'
  <2>1. UNCHANGED <<referrals, bindVars>>
    BY <1>3 DEF Rate, SaveDraft
  <2>. QED  BY <2>1, AloofStep DEF bindVars, AtGate, Keeps
<1>4. CASE Expire \/ BookGrows
  BY <1>4, AloofStep DEF Expire, BookGrows, bindVars, AtGate, Keeps
<1>5. ASSUME NEW b \in Binder, ReadQuote(b) PROVE QueueInv'
  <2>1. /\ UNCHANGED <<referrals, gateLock>> /\ clock' = clock + 1
        /\ pc' = [pc EXCEPT ![b] = "evaluating"]
        /\ \A c \in Binder : c # b => bid'[c] = bid[c]
    BY <1>5 DEF ReadQuote, IInv, TypeOK
  <2>2. \A c \in Binder : Keeps(c)
    BY <2>1 DEF AtGate, Keeps, IInv, TypeOK
  <2>. QED  BY <2>1, <2>2, AloofStep
<1>6. ASSUME NEW b \in Binder, Refuse(b) \/ Fail(b) PROVE QueueInv'
  BY <1>6, EndLeaves, AloofStep DEF Refuse, Fail
<1>. QED
  BY <1>2, <1>3, <1>4, <1>5, <1>6, DecideQueue, EvaluateQueue, FindQueue, OpenQueue, CommitQueue
     DEF Next

LEMMA SpecQueueInv == Spec => []QueueInv
  BY SpecIInv, InitQueueInv, NextQueueInv, PTL DEF Spec

\* The underwriters are asked again about what is before them only after a refusal, or
\* a binding, of what they were asked about since (the gate's lock and its look-up of
\* the latest referral).
THEOREM AskedOnce == Spec => []NoDuplicateReferral
<1>1. QueueInv => NoDuplicateReferral
  BY DEF QueueInv
<1>. QED  BY <1>1, SpecIInv, SpecQueueInv, PTL

\* When a policy is written no later request for its proposal stands, whatever passed
\* the gate after the bind found its approval.
THEOREM BoundOnTheLatest == Spec => BoundOnTheLastWord
<1>. DEFINE Rests == \A i \in DOMAIN policies' \ DOMAIN policies :
              LET p == policies'[i] IN
              p.referral # None =>
                \A s \in DOMAIN referrals :
                  referrals[s].proposal = p.proposal
                    => referrals[s].created <= referrals[p.referral].created
<1>1. IInv /\ QueueInv /\ [Next]_vars => [Rests]_vars
  <2>. SUFFICES ASSUME IInv, QueueInv, Next PROVE Rests
    OBVIOUS
  <2>1. ASSUME NEW b \in Binder, Commit(b) PROVE Rests
    <3>. DEFINE p == [proposal |-> bid[b].proposal, referral |-> bid[b].referral]
                Policy == [proposal : Proposal, referral : Nat]
    <3>1. /\ policies' = Append(policies, p) /\ pc[b] = "committing"
          /\ p.referral # None => Usable(p.referral, {"Approved"})
      BY <2>1 DEF Commit, MayCommit
    <3>2. p \in Policy /\ policies \in Seq(Policy)
      BY <2>1 DEF Commit, IInv, TypeOK, BidInv
    <3>3. p.referral # None =>
            \A s \in DOMAIN referrals :
              referrals[s].proposal = p.proposal
                => referrals[s].created <= referrals[p.referral].created
      BY <3>1 DEF QueueInv, LastInv, IsLatest, Usable, Closed
    <3>. HIDE DEF p, Policy
    <3>4. \A i \in DOMAIN policies' \ DOMAIN policies : policies'[i] = p
      <4>1. /\ policies' \in Seq(Policy) /\ Len(policies') = Len(policies) + 1
            /\ policies'[Len(policies) + 1] = p
        BY <3>1, <3>2, AppendProperties
      <4>. QED  BY <3>2, <4>1
    <3>. QED  BY <3>3, <3>4
  <2>2. CASE ~ \E b \in Binder : Commit(b)
    <3>1. UNCHANGED policies
      BY <2>2 DEF Next, Rate, SaveDraft, Expire, BookGrows, Decide, ReadQuote, Evaluate,
                  FindReferral, OpenReferral, Refuse, Fail, vars
    <3>. QED  BY <3>1
  <2>. QED  BY <2>1, <2>2
<1>. QED  BY <1>1, SpecIInv, SpecQueueInv, PTL DEF Spec, BoundOnTheLastWord
=============================================================================
