--------------------------- MODULE LlmReleaseProofs ---------------------------
(***************************************************************************)
(* Separation of duties and the end of stopped releases, for any users,     *)
(* releases and sessions, whatever the clock and the changes of roles.      *)
(*                                                                         *)
(* A decision is made on the row as it was read.  HeldInv: it is still that  *)
(* row when it is written, since whoever decides holds its lock.  So the    *)
(* roles of the moment do not matter to a receipt; what its row says of the *)
(* persons before does, and RowInv says what each status tells of them.     *)
(***************************************************************************)
EXTENDS LlmRelease, TLAPS

\* What a row says of its past.
RowInv ==
  \A r \in Release : LET row == release[r] IN
    /\ row.status = "none" => row.validatedBy = Nobody
    /\ row.status \in {"VALIDATED", "PRODUCTION_AUTHORIZED"} => row.validatedBy # Nobody
    /\ row.validatedBy # Nobody => row.validatedBy # row.createdBy
    /\ row.status \in {"IN_VALIDATION", "VALIDATED", "PRODUCTION_AUTHORIZED"} => row.onValidation

\* A session that decides holds the lock of the row it read, which is as it was.
HeldInv ==
  \A s \in Session : session[s].phase = "deciding" =>
    LET req == session[s] IN
      /\ holder[req.release] = s
      /\ release[req.release] = req.row
      /\ req.row.status # "none"
      /\ req.user # req.row.createdBy
      /\ Permitted(req.user, req.action, req.row)

\* Every receipt is for a release that went on validation, and a production receipt
\* has the persons of FourEyes.
ReceiptInv ==
  \A receipt \in receipts : LET row == release[receipt.release] IN
    /\ row.onValidation
    /\ receipt.env = "production" =>
         /\ row.status \in {"PRODUCTION_AUTHORIZED", "REVOKED"}
         /\ row.validatedBy # Nobody
         /\ receipt.by \notin {row.createdBy, row.validatedBy}
         /\ row.createdBy # row.validatedBy

\* A list names what was stopped when it was asked for, but for releases that were
\* rejected without ever going on validation.
ListInv ==
  /\ \A s \in Session : session[s].phase = "listing" => session[s].covers \subseteq Stopped
  /\ \A list \in lists : \A r \in list.covers :
       /\ r \in Stopped
       /\ r \in list.ids \/ ~release[r].onValidation

IInv == TypeOK /\ RowInv /\ HeldInv /\ ReceiptInv /\ ListInv

-----------------------------------------------------------------------------
\* The fields of a request by its phase.
LEMMA RequestFields ==
  ASSUME NEW q \in Request
  PROVE  /\ q.phase = "registering" => q \in [phase : {"registering"}, user : User, release : Release]
         /\ q.phase = "asked" =>
              q \in [phase : {"asked"}, user : User, release : Release, action : Action]
         /\ q.phase = "deciding" =>
              q \in [phase : {"deciding"}, user : User, release : Release, action : Action,
                     row : Row, at : 0..MaxClock]
         /\ q.phase = "listing" => q \in [phase : {"listing"}, covers : SUBSET Release]
         /\ q.phase \in {"checked", "removed", "saved"} =>
              q \in [phase : {"checked", "removed", "saved"}, target : User,
                     next : GovernanceRoles, grants : BOOLEAN, gains : BOOLEAN]
BY DEF Request, Idle

\* What an action makes of a row that permits it.
LEMMA WrittenRow ==
  ASSUME NEW row \in Row, NEW u \in User, NEW action \in Action, Permitted(u, action, row),
         NEW new, new = Written(u, action, row)
  PROVE  /\ new \in Row
         /\ new.createdBy = row.createdBy
         /\ new.validatedBy \in {u, row.validatedBy}
         /\ row.onValidation => new.onValidation
         /\ row.status = "PRODUCTION_AUTHORIZED" =>
              new.validatedBy = row.validatedBy /\ new.status \in {"PRODUCTION_AUTHORIZED", "REVOKED"}
         /\ row.status \notin {"none", "REVOKED", "REJECTED"} /\ new.status # "none"
         /\ new.status \in {"IN_VALIDATION", "VALIDATED", "PRODUCTION_AUTHORIZED"} =>
              row.status \in {"IN_VALIDATION", "VALIDATED", "PRODUCTION_AUTHORIZED"} \/ new.onValidation
         /\ new.status \in {"VALIDATED", "PRODUCTION_AUTHORIZED"} =>
              row.status \in {"VALIDATED", "PRODUCTION_AUTHORIZED"} \/ new.validatedBy = u
<1>. USE DEF Row, Status, Person, Permitted
<1>1. CASE action = "start-validation"
  BY <1>1 DEF Written
<1>2. CASE action = "pass-validation"
  BY <1>2 DEF Written
<1>3. CASE action = "fail-validation"
  BY <1>3 DEF Written
<1>4. CASE action = "authorize-production"
  BY <1>4 DEF Written
<1>5. CASE action = "renew-authorization"
  BY <1>5 DEF Written
<1>6. CASE action = "reject"
  BY <1>6 DEF Written
<1>7. CASE action = "revoke"
  BY <1>7 DEF Written
<1>. QED  BY <1>1, <1>2, <1>3, <1>4, <1>5, <1>6, <1>7 DEF Action

LEMMA InitIInv == Init => IInv
<1>. SUFFICES ASSUME Init PROVE IInv
  OBVIOUS
<1>. USE ReleaseConstants DEF Init, Idle
<1>1. TypeOK
  <2>1. release \in [Release -> Row]
    BY DEF Row, Status, Person
  <2>2. -Cooldown \in Time /\ 0 \in 0..MaxClock /\ 0 \in 0..MaxSaves
    BY DEF Time
  <2>3. session \in [Session -> Request]
    BY DEF Request
  <2>. QED  BY <2>1, <2>2, <2>3 DEF TypeOK, GovernanceRoles
<1>2. RowInv /\ HeldInv /\ ReceiptInv /\ ListInv
  BY DEF RowInv, HeldInv, ReceiptInv, ListInv
<1>. QED  BY <1>1, <1>2 DEF IInv

\* A session takes up or ends what is neither a decision nor a list.
LEMMA OtherRequestPreserves ==
  ASSUME IInv, NEW s \in Session, NEW q, q.phase \notin {"deciding", "listing"},
         session' = [session EXCEPT ![s] = q],
         \A r \in Release : holder'[r] = holder[r] \/ holder[r] = s,
         UNCHANGED <<release, receipts, lists>>
  PROVE  RowInv' /\ HeldInv' /\ ReceiptInv' /\ ListInv'
<1>1. RowInv'
  BY DEF IInv, RowInv
<1>2. HeldInv'
  <2>. SUFFICES ASSUME NEW t \in Session, session'[t].phase = "deciding"
                PROVE  /\ holder'[session'[t].release] = t
                       /\ session'[t] = session[t]
    BY DEF IInv, HeldInv
  <2>1. t # s /\ session'[t] = session[t]
    BY DEF IInv, TypeOK
  <2>2. session[t].release \in Release /\ holder[session[t].release] = t
    BY <2>1, RequestFields DEF IInv, TypeOK, HeldInv
  <2>. QED  BY <2>1, <2>2
<1>3. ReceiptInv'
  BY DEF IInv, ReceiptInv
<1>4. ListInv'
  BY DEF IInv, TypeOK, ListInv, Stopped
<1>. QED  BY <1>1, <1>2, <1>3, <1>4

\* Requests of people that are not decided yet, and everything that is rolled back.
LEMMA AskPreserves ==
  ASSUME IInv, NEW s \in Session, NEW u \in User, NEW action \in Action, NEW r \in Release,
         AskToRegister(s, u, r) \/ Ask(s, u, action, r)
  PROVE  IInv'
<1>1. PICK q \in Request : Become(s, q) /\ q.phase \in {"registering", "asked"}
  BY DEF AskToRegister, Ask, Request
<1>2. TypeOK'
  BY <1>1 DEF IInv, TypeOK, Become, AskToRegister, Ask, governance, accounts
<1>. QED  BY <1>1, <1>2, OtherRequestPreserves
          DEF IInv, Become, AskToRegister, Ask, governance, accounts

LEMMA AbandonPreserves ==
  ASSUME IInv, NEW s \in Session, Abandon(s)
  PROVE  IInv'
<1>1. Idle \in Request /\ Idle.phase = "idle"
  BY DEF Request, Idle
<1>2. /\ session' = [session EXCEPT ![s] = Idle]
      /\ holder' = [r \in Release |-> IF holder[r] = s THEN Nobody ELSE holder[r]]
      /\ UNCHANGED <<release, receipts, lists, hasty, accounts, clock>>
  BY DEF Abandon, Become
<1>3. TypeOK'
  BY <1>1, <1>2 DEF IInv, TypeOK, accounts
<1>4. \A r \in Release : holder'[r] = holder[r] \/ holder[r] = s
  BY <1>2
<1>. QED  BY <1>1, <1>2, <1>3, <1>4, OtherRequestPreserves DEF IInv

\* Registering touches no release that exists.
LEMMA RegisterPreserves ==
  ASSUME IInv, NEW s \in Session, Register(s)
  PROVE  IInv'
<1>. DEFINE r == session[s].release
            u == session[s].user
<1>1. Idle \in Request /\ Idle.phase = "idle" /\ r \in Release /\ u \in User
  BY RequestFields DEF Request, Idle, IInv, TypeOK, Register
<1>2. release' = IF release[r].status # "none" THEN release
                 ELSE [release EXCEPT ![r].status = "READY_FOR_VALIDATION", ![r].createdBy = u]
  BY DEF Register
<1>3. /\ session' = [session EXCEPT ![s] = Idle]
      /\ UNCHANGED <<holder, receipts, lists, hasty, accounts, clock>>
  BY DEF Register, Become
<1>. HIDE DEF r, u
<1>. DEFINE new == [release[r] EXCEPT !.status = "READY_FOR_VALIDATION", !.createdBy = u]
<1>4. /\ new \in Row /\ new.status = "READY_FOR_VALIDATION" /\ new.createdBy = u
      /\ new.validatedBy = release[r].validatedBy /\ new.onValidation = release[r].onValidation
  BY <1>1 DEF IInv, TypeOK, Row, Status, Person
<1>5. \/ release' = release
      \/ release[r].status = "none" /\ release' = [release EXCEPT ![r] = new]
  BY <1>1, <1>2 DEF IInv, TypeOK, Row
<1>. HIDE DEF new
<1>11. release' \in [Release -> Row]
  BY <1>1, <1>4, <1>5 DEF IInv, TypeOK
<1>6. TypeOK'
  BY <1>1, <1>3, <1>11 DEF IInv, TypeOK, accounts
<1>7. RowInv'
  BY <1>1, <1>4, <1>5, ReleaseConstants DEF IInv, TypeOK, RowInv
<1>8. HeldInv'
  <2>. SUFFICES ASSUME NEW t \in Session, session'[t].phase = "deciding"
                PROVE  session'[t] = session[t] /\ release'[session[t].release] = release[session[t].release]
    BY <1>3 DEF IInv, HeldInv
  <2>1. session'[t] = session[t]
    BY <1>1, <1>3 DEF IInv, TypeOK
  <2>2. release[session[t].release].status # "none" /\ session[t].release \in Release
    BY <2>1, RequestFields DEF IInv, TypeOK, HeldInv
  <2>. QED  BY <1>5, <2>1, <2>2 DEF IInv, TypeOK
<1>9. ReceiptInv'
  BY <1>1, <1>3, <1>4, <1>5 DEF IInv, TypeOK, ReceiptInv, Receipt
<1>10. ListInv'
  <2>1. \A x \in Stopped : x \in Stopped' /\ release'[x] = release[x]
    BY <1>1, <1>5 DEF IInv, TypeOK, Stopped
  <2>2. \A t \in Session : session'[t].phase = "listing" => session'[t] = session[t]
    BY <1>1, <1>3 DEF IInv, TypeOK
  <2>. QED  BY <1>3, <2>1, <2>2 DEF IInv, ListInv
<1>. QED  BY <1>6, <1>7, <1>8, <1>9, <1>10 DEF IInv

\* A decision takes the lock of a row that nobody has.
LEMMA DecidePreserves ==
  ASSUME IInv, NEW s \in Session, Decide(s)
  PROVE  IInv'
<1>. DEFINE u == session[s].user
            r == session[s].release
            action == session[s].action
            q == [phase |-> "deciding", user |-> u, release |-> r, action |-> action,
                  row |-> release[r], at |-> clock]
<1>1. u \in User /\ r \in Release /\ action \in Action
  BY RequestFields DEF IInv, TypeOK, Decide
<1>2. /\ release[r].status # "none" /\ holder[r] = Nobody /\ u # release[r].createdBy
      /\ Permitted(u, action, release[r])
      /\ holder' = [holder EXCEPT ![r] = s]
      /\ session' = [session EXCEPT ![s] = q]
      /\ hasty' \in BOOLEAN
      /\ UNCHANGED <<release, receipts, lists, accounts, clock>>
  BY DEF Decide, Become, MayLock, IInv, TypeOK
<1>3. q \in Request
  BY <1>1 DEF IInv, TypeOK, Request
<1>4. TypeOK'
  BY <1>1, <1>2, <1>3 DEF IInv, TypeOK, accounts
<1>5. HeldInv'
  <2>. SUFFICES ASSUME NEW t \in Session, session'[t].phase = "deciding"
                PROVE  LET req == session'[t] IN
                       /\ holder'[req.release] = t
                       /\ release[req.release] = req.row
                       /\ req.row.status # "none"
                       /\ req.user # req.row.createdBy
                       /\ Permitted(req.user, req.action, req.row)
    BY <1>2 DEF HeldInv
  <2>1. CASE t = s
    BY <1>1, <1>2, <2>1 DEF IInv, TypeOK
  <2>2. CASE t # s
    <3>1. session'[t] = session[t] /\ session[t].release \in Release
      BY <1>2, <2>2, RequestFields DEF IInv, TypeOK
    <3>2. holder[session[t].release] = t
      BY <3>1 DEF IInv, HeldInv
    <3>3. session[t].release # r
      BY <1>2, <3>2, ReleaseConstants
    <3>. QED  BY <1>1, <1>2, <3>1, <3>2, <3>3 DEF IInv, TypeOK, HeldInv
  <2>. QED  BY <2>1, <2>2
<1>6. RowInv' /\ ReceiptInv'
  BY <1>2 DEF IInv, RowInv, ReceiptInv
<1>7. ListInv'
  BY <1>2 DEF IInv, TypeOK, ListInv, Stopped
<1>. QED  BY <1>4, <1>5, <1>6, <1>7 DEF IInv

\* What a decision writes, in terms of the row as it now is.
LEMMA WriteFacts ==
  ASSUME IInv, NEW s \in Session, Write(s)
  PROVE  LET req == session[s]
             r   == req.release
             new == Written(req.user, req.action, release[r])
         IN  /\ req \in [phase : {"deciding"}, user : User, release : Release, action : Action,
                         row : Row, at : 0..MaxClock]
             /\ release[r] = req.row /\ holder[r] = s
             /\ req.user # release[r].createdBy
             /\ Permitted(req.user, req.action, release[r])
             /\ release' = [release EXCEPT ![r] = new]
             /\ holder' = [holder EXCEPT ![r] = Nobody]
             /\ receipts \subseteq receipts'
             /\ \A receipt \in receipts' \ receipts :
                  /\ receipt \in Receipt
                  /\ receipt.release = r /\ receipt.by = req.user
                  /\ receipt.env \in Signs(req.action, release[r])
             /\ session' = [session EXCEPT ![s] = Idle]
             /\ UNCHANGED <<lists, hasty, accounts, clock>>
<1>1. session[s] \in [phase : {"deciding"}, user : User, release : Release, action : Action,
                      row : Row, at : 0..MaxClock]
  BY RequestFields DEF IInv, TypeOK, Write
<1>2. /\ release[session[s].release] = session[s].row
      /\ holder[session[s].release] = s
      /\ session[s].user # release[session[s].release].createdBy
      /\ Permitted(session[s].user, session[s].action, release[session[s].release])
  BY <1>1 DEF IInv, HeldInv
<1>3. Signs(session[s].action, session[s].row) \subseteq Environment
  BY DEF Signs, Environment
<1>4. receipts' = receipts \cup
        {[release |-> session[s].release, env |-> e, by |-> session[s].user, at |-> session[s].at] :
           e \in Signs(session[s].action, session[s].row)}
  BY DEF Write
<1>5. \A receipt \in receipts' \ receipts :
         /\ receipt \in Receipt
         /\ receipt.release = session[s].release /\ receipt.by = session[s].user
         /\ receipt.env \in Signs(session[s].action, session[s].row)
  BY <1>1, <1>3, <1>4 DEF Receipt
<1>. QED  BY <1>1, <1>2, <1>4, <1>5 DEF Write, Become

\* A production receipt is signed by a second pair of eyes.
LEMMA SignedRow ==
  ASSUME NEW row \in Row, NEW u \in User, NEW action \in Action, Permitted(u, action, row),
         NEW new, new = Written(u, action, row), NEW e \in Signs(action, row)
  PROVE  /\ new.onValidation \/ row.status \in {"IN_VALIDATION", "VALIDATED", "PRODUCTION_AUTHORIZED"}
         /\ e = "production" =>
              /\ new.status = "PRODUCTION_AUTHORIZED"
              /\ row.status \in {"VALIDATED", "PRODUCTION_AUTHORIZED"}
              /\ u # row.validatedBy /\ new.validatedBy = row.validatedBy
<1>. USE DEF Row, Status, Person, Permitted, Signs, IsSecondPair
<1>1. CASE action = "start-validation"
  BY <1>1 DEF Written
<1>2. CASE action = "authorize-production"
  BY <1>2 DEF Written
<1>3. CASE action = "renew-authorization"
  BY <1>3 DEF Written
<1>4. CASE action \notin {"start-validation", "authorize-production", "renew-authorization"}
  BY <1>4
<1>. QED  BY <1>1, <1>2, <1>3, <1>4

LEMMA WritePreserves ==
  ASSUME IInv, NEW s \in Session, Write(s)
  PROVE  IInv'
<1>. DEFINE req == session[s]
            r   == req.release
            row == release[r]
            new == Written(req.user, req.action, row)
<1>1. /\ r \in Release /\ row \in Row /\ req.user \in User /\ req.action \in Action
      /\ holder[r] = s /\ req.user # row.createdBy /\ Permitted(req.user, req.action, row)
  BY WriteFacts DEF IInv, TypeOK
<1>2. /\ release' = [release EXCEPT ![r] = new]
      /\ holder' = [holder EXCEPT ![r] = Nobody]
      /\ receipts \subseteq receipts'
      /\ \A receipt \in receipts' \ receipts :
           /\ receipt \in Receipt
           /\ receipt.release = r /\ receipt.by = req.user
           /\ receipt.env \in Signs(req.action, row)
      /\ session' = [session EXCEPT ![s] = Idle]
      /\ UNCHANGED <<lists, hasty, accounts, clock>>
  BY WriteFacts
<1>3. /\ new \in Row
      /\ new.createdBy = row.createdBy
      /\ new.validatedBy \in {req.user, row.validatedBy}
      /\ row.onValidation => new.onValidation
      /\ row.status = "PRODUCTION_AUTHORIZED" =>
           new.validatedBy = row.validatedBy /\ new.status \in {"PRODUCTION_AUTHORIZED", "REVOKED"}
      /\ row.status \notin {"none", "REVOKED", "REJECTED"} /\ new.status # "none"
      /\ new.status \in {"IN_VALIDATION", "VALIDATED", "PRODUCTION_AUTHORIZED"} =>
           row.status \in {"IN_VALIDATION", "VALIDATED", "PRODUCTION_AUTHORIZED"} \/ new.onValidation
      /\ new.status \in {"VALIDATED", "PRODUCTION_AUTHORIZED"} =>
           row.status \in {"VALIDATED", "PRODUCTION_AUTHORIZED"} \/ new.validatedBy = req.user
  <2>. HIDE DEF req, r, row
  <2>. QED  BY <1>1, WrittenRow
<1>4. \A e \in Signs(req.action, row) :
         /\ new.onValidation \/ row.status \in {"IN_VALIDATION", "VALIDATED", "PRODUCTION_AUTHORIZED"}
         /\ e = "production" =>
              /\ new.status = "PRODUCTION_AUTHORIZED"
              /\ row.status \in {"VALIDATED", "PRODUCTION_AUTHORIZED"}
              /\ req.user # row.validatedBy /\ new.validatedBy = row.validatedBy
  <2>. HIDE DEF req, r, row
  <2>. QED  BY <1>1, SignedRow
<1>5. /\ row.validatedBy # Nobody => row.validatedBy # row.createdBy
      /\ row.status \in {"VALIDATED", "PRODUCTION_AUTHORIZED"} => row.validatedBy # Nobody
      /\ row.status \in {"IN_VALIDATION", "VALIDATED", "PRODUCTION_AUTHORIZED"} => row.onValidation
  BY <1>1 DEF IInv, RowInv
<1>6. Idle \in Request /\ Idle.phase = "idle"
  BY DEF Request, Idle
<1>7. req.user # Nobody
  BY <1>1, ReleaseConstants
<1>. HIDE DEF req, r, new
<1>8. release'[r] = new /\ \A x \in Release \ {r} : release'[x] = release[x]
  BY <1>1, <1>2 DEF IInv, TypeOK
<1>9. TypeOK'
  BY <1>1, <1>2, <1>3, <1>6 DEF IInv, TypeOK, accounts
<1>10. RowInv'
  BY <1>1, <1>3, <1>5, <1>7, <1>8 DEF IInv, RowInv
<1>11. HeldInv'
  <2>. SUFFICES ASSUME NEW t \in Session, session'[t].phase = "deciding"
                PROVE  /\ session'[t] = session[t]
                       /\ holder'[session[t].release] = holder[session[t].release]
                       /\ release'[session[t].release] = release[session[t].release]
    BY DEF IInv, HeldInv
  <2>1. t # s /\ session'[t] = session[t]
    BY <1>2, <1>6 DEF IInv, TypeOK
  <2>2. session[t].release \in Release /\ session[t].release # r
    BY <1>1, <2>1, RequestFields DEF IInv, TypeOK, HeldInv
  <2>. QED  BY <1>1, <1>2, <1>8, <2>1, <2>2 DEF IInv, TypeOK
<1>12. ReceiptInv'
  <2>1. ASSUME NEW receipt \in receipts' \ receipts
        PROVE  LET x == release'[receipt.release] IN
               /\ x.onValidation
               /\ receipt.env = "production" =>
                    /\ x.status \in {"PRODUCTION_AUTHORIZED", "REVOKED"}
                    /\ x.validatedBy # Nobody
                    /\ receipt.by \notin {x.createdBy, x.validatedBy}
                    /\ x.createdBy # x.validatedBy
    BY <1>1, <1>2, <1>3, <1>4, <1>5, <1>8, <2>1
  <2>2. ASSUME NEW receipt \in receipts, receipt.release = r
        PROVE  LET x == release'[receipt.release] IN
               /\ x.onValidation
               /\ receipt.env = "production" =>
                    /\ x.status \in {"PRODUCTION_AUTHORIZED", "REVOKED"}
                    /\ x.validatedBy # Nobody
                    /\ receipt.by \notin {x.createdBy, x.validatedBy}
                    /\ x.createdBy # x.validatedBy
    BY <1>3, <1>8, <2>2 DEF IInv, ReceiptInv
  <2>3. ASSUME NEW receipt \in receipts, receipt.release # r
        PROVE  release'[receipt.release] = release[receipt.release]
    BY <1>8, <2>3 DEF IInv, TypeOK, Receipt
  <2>. QED  BY <2>1, <2>2, <2>3 DEF IInv, ReceiptInv
<1>13. ListInv'
  <2>1. \A x \in Stopped : x \in Stopped' /\ release'[x] = release[x]
    BY <1>3, <1>8 DEF Stopped
  <2>2. \A t \in Session : session'[t].phase = "listing" => session'[t] = session[t]
    BY <1>2, <1>6 DEF IInv, TypeOK
  <2>. QED  BY <1>2, <2>1, <2>2 DEF IInv, ListInv
<1>. QED  BY <1>9, <1>10, <1>11, <1>12, <1>13 DEF IInv

\* Lists are asked for, and then issued: what was stopped meanwhile stays so.
LEMMA AskForListPreserves ==
  ASSUME IInv, NEW s \in Session, NEW u \in User, AskForList(s, u)
  PROVE  IInv'
<1>. DEFINE q == [phase |-> "listing", covers |-> Stopped]
<1>1. q \in Request /\ q.phase = "listing" /\ q.covers = Stopped
  BY DEF Request, Stopped
<1>2. session' = [session EXCEPT ![s] = q] /\ UNCHANGED <<governance, accounts, clock>>
  BY DEF AskForList, Become
<1>. HIDE DEF q
<1>3. \A t \in Session : session'[t] = IF t = s THEN q ELSE session[t]
  BY <1>2 DEF IInv, TypeOK
<1>4. TypeOK' /\ RowInv' /\ ReceiptInv'
  BY <1>1, <1>2 DEF IInv, TypeOK, RowInv, ReceiptInv, governance, accounts
<1>5. HeldInv'
  BY <1>1, <1>2, <1>3 DEF IInv, HeldInv, governance
<1>6. ListInv'
  BY <1>1, <1>2, <1>3 DEF IInv, ListInv, Stopped, governance
<1>. QED  BY <1>4, <1>5, <1>6 DEF IInv

LEMMA IssueListPreserves ==
  ASSUME IInv, NEW s \in Session, IssueList(s)
  PROVE  IInv'
<1>. DEFINE new == [ids |-> Listed, covers |-> session[s].covers]
<1>1. Idle \in Request /\ Idle.phase = "idle"
  BY DEF Request, Idle
<1>2. /\ session' = [session EXCEPT ![s] = Idle]
      /\ lists' = lists \cup {new}
      /\ UNCHANGED <<release, holder, receipts, hasty, accounts, clock>>
  BY DEF IssueList, Become
<1>3. session[s].covers \subseteq Stopped
  BY DEF IInv, ListInv, IssueList
<1>4. new \in List /\ new.ids = Listed /\ new.covers = session[s].covers
  BY <1>3 DEF List, Listed, Stopped
<1>. HIDE DEF new
<1>5. \A t \in Session : session'[t] = IF t = s THEN Idle ELSE session[t]
  BY <1>2 DEF IInv, TypeOK
<1>6. TypeOK' /\ RowInv' /\ ReceiptInv'
  BY <1>1, <1>2, <1>4 DEF IInv, TypeOK, RowInv, ReceiptInv, accounts
<1>7. HeldInv'
  BY <1>1, <1>2, <1>5 DEF IInv, HeldInv
<1>8. \A r \in new.covers : r \in Stopped /\ (r \in new.ids \/ ~release[r].onValidation)
  BY <1>3, <1>4 DEF Stopped, Listed
<1>9. ListInv'
  BY <1>1, <1>2, <1>5, <1>8 DEF IInv, ListInv, Stopped
<1>. QED  BY <1>6, <1>7, <1>9 DEF IInv

\* Changes of roles: who has a role says nothing of what was decided.
LEMMA RolesPreserve ==
  ASSUME IInv, NEW s \in Session,
         \/ \E u \in User, next \in GovernanceRoles : CheckRoles(s, u, next)
         \/ RemoveRoles(s) \/ GiveRoles(s) \/ RecordRoles(s)
  PROVE  IInv'
<1>1. ASSUME NEW u \in User, NEW next \in GovernanceRoles, CheckRoles(s, u, next)
      PROVE  TypeOK' /\ \E q \in Request : Become(s, q) /\ q.phase \notin {"deciding", "listing"}
  <2>. DEFINE q == [phase |-> "checked", target |-> u, next |-> next,
                    grants |-> Tech \in next \ roles[u], gains |-> FALSE]
  <2>1. q \in Request /\ q.phase = "checked"
    BY DEF Request
  <2>2. Become(s, q) /\ saves < MaxSaves /\ saves' = saves + 1
        /\ UNCHANGED <<governance, clock, roles, granted, since>>
    BY <1>1 DEF CheckRoles
  <2>. HIDE DEF q
  <2>3. TypeOK'
    BY <2>1, <2>2, ReleaseConstants DEF IInv, TypeOK, Become, governance
  <2>. QED  BY <2>1, <2>2, <2>3
<1>2. ASSUME RemoveRoles(s)
      PROVE  TypeOK' /\ \E q \in Request : Become(s, q) /\ q.phase \notin {"deciding", "listing"}
  <2>. DEFINE gains == Tech \in session[s].next \ roles[session[s].target]
              q == [session[s] EXCEPT !.phase = "removed", !.gains = gains]
  <2>1. /\ session[s].target \in User
        /\ session[s] \in [phase : {"checked", "removed", "saved"}, target : User,
                           next : GovernanceRoles, grants : BOOLEAN, gains : BOOLEAN]
    BY <1>2, RequestFields DEF IInv, TypeOK, RemoveRoles
  <2>2. q \in Request /\ q.phase = "removed"
    <3>1. gains \in BOOLEAN
      OBVIOUS
    <3>. HIDE DEF gains
    <3>2. q \in [phase : {"checked", "removed", "saved"}, target : User,
                 next : GovernanceRoles, grants : BOOLEAN, gains : BOOLEAN]
      BY <2>1, <3>1
    <3>. QED  BY <2>1, <3>2 DEF Request
  <2>3. Become(s, q) /\ roles' = [roles EXCEPT ![session[s].target] = {}]
        /\ UNCHANGED <<governance, clock, granted, since, saves>>
    BY <1>2 DEF RemoveRoles
  <2>. QED  BY <2>1, <2>2, <2>3 DEF IInv, TypeOK, Become, governance, GovernanceRoles
<1>3. ASSUME GiveRoles(s)
      PROVE  TypeOK' /\ \E q \in Request : Become(s, q) /\ q.phase \notin {"deciding", "listing"}
  <2>. DEFINE q == [session[s] EXCEPT !.phase = "saved"]
              u == session[s].target
  <2>1. u \in User /\ session[s].next \in GovernanceRoles /\ q \in Request /\ q.phase = "saved"
    BY <1>3, RequestFields DEF IInv, TypeOK, GiveRoles, Request
  <2>2. /\ Become(s, q) /\ roles' = [roles EXCEPT ![u] = @ \cup session[s].next]
        /\ since' = IF session[s].gains THEN [since EXCEPT ![u] = clock] ELSE since
        /\ UNCHANGED <<governance, clock, granted, saves>>
    BY <1>3 DEF GiveRoles
  <2>3. clock \in Time
    BY ReleaseConstants DEF IInv, TypeOK, Time
  <2>. QED  BY <2>1, <2>2, <2>3 DEF IInv, TypeOK, Become, governance, GovernanceRoles
<1>4. ASSUME RecordRoles(s)
      PROVE  TypeOK' /\ \E q \in Request : Become(s, q) /\ q.phase \notin {"deciding", "listing"}
  <2>1. session[s].target \in User /\ Idle \in Request /\ Idle.phase = "idle"
    BY <1>4, RequestFields DEF IInv, TypeOK, RecordRoles, Request, Idle
  <2>2. clock \in Time
    BY ReleaseConstants DEF IInv, TypeOK, Time
  <2>. QED  BY <1>4, <2>1, <2>2 DEF IInv, TypeOK, RecordRoles, Become, governance
<1>5. TypeOK' /\ \E q \in Request : Become(s, q) /\ q.phase \notin {"deciding", "listing"}
  BY <1>1, <1>2, <1>3, <1>4
<1>6. UNCHANGED governance
  BY DEF CheckRoles, RemoveRoles, GiveRoles, RecordRoles
<1>. QED  BY <1>5, <1>6, OtherRequestPreserves DEF IInv, Become, governance

LEMMA NextPreserves == IInv /\ [Next]_vars => IInv'
<1>. SUFFICES ASSUME IInv, [Next]_vars PROVE IInv'
  OBVIOUS
<1>1. ASSUME NEW s \in Session, Handle(s)
      PROVE  IInv'
  <2>1. ASSUME NEW u \in User, NEW r \in Release,
               AskToRegister(s, u, r) \/ \E action \in Action : Ask(s, u, action, r)
        PROVE  IInv'
    BY <2>1, AskPreserves DEF Action
  <2>2. ASSUME Register(s) \/ Decide(s) \/ Write(s) \/ Abandon(s)
        PROVE  IInv'
    BY <2>2, RegisterPreserves, DecidePreserves, WritePreserves, AbandonPreserves
  <2>3. ASSUME (\E u \in User : AskForList(s, u)) \/ IssueList(s)
        PROVE  IInv'
    BY <2>3, AskForListPreserves, IssueListPreserves
  <2>. QED  BY <1>1, <2>1, <2>2, <2>3, RolesPreserve DEF Handle
<1>2. ASSUME Tick \/ UNCHANGED vars
      PROVE  IInv'
  <2>1. clock' \in 0..MaxClock /\ UNCHANGED <<governance, accounts, session>>
    BY <1>2, ReleaseConstants DEF IInv, TypeOK, Tick, vars
  <2>2. TypeOK' /\ RowInv' /\ ReceiptInv'
    BY <2>1 DEF IInv, TypeOK, RowInv, ReceiptInv, governance, accounts
  <2>3. HeldInv' /\ ListInv'
    BY <2>1 DEF IInv, HeldInv, ListInv, Stopped, governance
  <2>. QED  BY <2>2, <2>3 DEF IInv
<1>. QED  BY <1>1, <1>2 DEF Next

LEMMA Invariance == Spec => []IInv
<1>. QED  BY InitIInv, NextPreserves, PTL DEF Spec

-----------------------------------------------------------------------------
\* Whoever signed a production receipt, first or renewed, neither registered nor
\* validated its release, whatever roles changed while the decision was under way.
THEOREM SecondPairOfEyes == Spec => []FourEyes
<1>1. IInv => FourEyes
  BY DEF IInv, FourEyes, ReceiptInv
<1>. QED  BY Invariance, <1>1, PTL

\* A decision under way when its release is stopped cannot write: it has the lock,
\* so the release is stopped before it or after it.
THEOREM StoppedIsFinal == Spec => StoppedForGood
<1>. DEFINE Kept == \A r \in Stopped :
              /\ release'[r].status = release[r].status
              /\ \A receipt \in receipts' \ receipts : receipt.release # r
<1>1. ASSUME IInv, [Next]_vars PROVE Kept
  <2>1. ASSUME NEW s \in Session, Write(s)
        PROVE  Kept
    <3>. DEFINE req == session[s]
    <3>1. /\ req.release \in Release /\ req.user \in User /\ req.action \in Action
          /\ release[req.release] \in Row
          /\ Permitted(req.user, req.action, release[req.release])
          /\ release' = [release EXCEPT ![req.release] =
                           Written(req.user, req.action, release[req.release])]
          /\ \A receipt \in receipts' \ receipts : receipt.release = req.release
      BY <1>1, <2>1, WriteFacts DEF IInv, TypeOK
    <3>. HIDE DEF req
    <3>2. req.release \notin Stopped
      BY <3>1, WrittenRow DEF Stopped
    <3>. QED  BY <1>1, <3>1, <3>2 DEF IInv, TypeOK, Stopped
  <2>2. ASSUME NEW s \in Session, Register(s)
        PROVE  Kept
    BY <1>1, <2>2, RequestFields DEF IInv, TypeOK, Register, Stopped
  <2>3. CASE UNCHANGED <<release, receipts>>
    BY <2>3
  <2>4. (\E s \in Session : Write(s) \/ Register(s)) \/ UNCHANGED <<release, receipts>>
    BY <1>1 DEF Next, Handle, Tick, vars, governance, AskToRegister, Ask, Decide, Abandon,
                AskForList, IssueList, CheckRoles, RemoveRoles, GiveRoles, RecordRoles
  <2>. QED  BY <2>1, <2>2, <2>3, <2>4
<1>2. IInv /\ [Next]_vars => [Kept]_vars
  BY <1>1
<1>. QED  BY Invariance, <1>2, PTL DEF Spec, StoppedForGood

\* No receipt and no list in place lets a processor run a release that was stopped when
\* the list was asked for: a release the list leaves out never had a receipt.
THEOREM StoppedReleasesDoNotRun == Spec => []StoppedDoesNotRun
<1>1. IInv => StoppedDoesNotRun
  BY DEF IInv, TypeOK, StoppedDoesNotRun, Runs, ReceiptInv, ListInv
<1>. QED  BY Invariance, <1>1, PTL
=============================================================================
