---------------------------- MODULE LlmRelease ----------------------------
(* Governance of document-processing model releases                          *)
(* (services/llm-release.service.ts, llm-governance-roles.service.ts) and    *)
(* the document processor that obeys its signed receipts and revocation      *)
(* lists (services/document-processor).                                      *)
(*                                                                           *)
(* A request is a transaction of a session: it reads the roles of its user   *)
(* without a lock, then locks the row of the release and works on what it    *)
(* read.  An administrator's change of roles is three transactions: a check, *)
(* the new roles, and their record in the audit log, which is what the       *)
(* cooldown looks at.                                                        *)
(*                                                                           *)
(* Left out: the evaluation and validation reports (a registration or a      *)
(* validation that is accepted had a report that verified), the artifacts    *)
(* (a version label names one release and its artifacts for good), e-mail,   *)
(* and changes of the carrier's gates.                                       *)
EXTENDS Integers, FiniteSets

CONSTANTS User, Release, Session, Nobody,
          Tech, Automation,      \* carrier_technical_admin, llm_release_automation
          InitialRoles,          \* roles of each user, held since long ago
          Lifetime,              \* authorizationDays, in ticks
          Cooldown,              \* roleCooldownHours, in ticks
          MaxClock,              \* bound: ticks
          MaxSaves,              \* bound: changes of roles
          MaxReceipts,           \* bound: receipts signed
          MaxLists               \* bound: different revocation lists issued

ASSUME ReleaseConstants ==
  /\ Nobody \notin User \cup Session
  /\ InitialRoles \in [User -> SUBSET {Tech, Automation}]
  /\ {Lifetime, Cooldown, MaxClock, MaxSaves, MaxReceipts, MaxLists} \subseteq Nat

VARIABLES release,      \* rows of llm_releases
          holder,       \* session holding the lock of each row
          roles,        \* governance roles of each user
          granted,      \* created_at of the latest ROLE_GRANTED entry
          session,      \* the request each session works on
          receipts,     \* signed authorizations that were committed
          lists,        \* signed revocation lists that were issued
          clock,
          since,        \* history: when each user, not having it, got the technical role
          hasty,        \* history: somebody approved within the cooldown
          saves

governance == <<release, holder, receipts, lists, hasty>>
accounts == <<roles, granted, since, saves>>
vars == <<governance, accounts, session, clock>>

Status == {"none", "READY_FOR_VALIDATION", "IN_VALIDATION", "VALIDATED",
           "REJECTED", "PRODUCTION_AUTHORIZED", "REVOKED"}
Environment == {"validation", "production"}
Action == {"start-validation", "pass-validation", "fail-validation",
           "authorize-production", "renew-authorization", "reject", "revoke"}
Person == User \cup {Nobody}
Time == -Cooldown..MaxClock
GovernanceRoles == SUBSET {Tech, Automation}

Row == [status : Status, createdBy : Person, validatedBy : Person,
        approvedBy : Person, onValidation : BOOLEAN]
Receipt == [release : Release, env : Environment, by : User, at : 0..MaxClock]
\* ids: the releases it names; covers: those stopped when it was asked for.
List == [ids : SUBSET Release, covers : SUBSET Release]
Idle == [phase |-> "idle"]
Request == {Idle} \cup
  [phase : {"registering"}, user : User, release : Release] \cup
  [phase : {"asked"}, user : User, release : Release, action : Action] \cup
  [phase : {"deciding"}, user : User, release : Release, action : Action,
   row : Row, at : 0..MaxClock] \cup
  [phase : {"listing"}, covers : SUBSET Release] \cup
  [phase : {"checked", "removed", "saved"}, target : User,
   next : GovernanceRoles, grants : BOOLEAN, gains : BOOLEAN]

TypeOK ==
  /\ release \in [Release -> Row]
  /\ holder \in [Release -> Session \cup {Nobody}]
  /\ roles \in [User -> GovernanceRoles]
  /\ granted \in [User -> Time] /\ since \in [User -> Time]
  /\ session \in [Session -> Request]
  /\ receipts \subseteq Receipt /\ lists \subseteq List
  /\ clock \in 0..MaxClock /\ saves \in 0..MaxSaves
  /\ hasty \in BOOLEAN

Init ==
  /\ release = [r \in Release |->
       [status |-> "none", createdBy |-> Nobody, validatedBy |-> Nobody,
        approvedBy |-> Nobody, onValidation |-> FALSE]]
  /\ holder = [r \in Release |-> Nobody]
  /\ roles = InitialRoles
  /\ granted = [u \in User |-> -Cooldown] /\ since = granted
  /\ session = [s \in Session |-> Idle]
  /\ receipts = {} /\ lists = {} /\ hasty = FALSE
  /\ clock = 0 /\ saves = 0

---------------------------------------------------------------------------
\* assertLlmRole and the refusal of an account that holds both roles.
MayRegister(u) == roles[u] = {Automation}
MayReview(u) == roles[u] = {Tech}

Stops == {"reject", "revoke"}

\* Mutant: the row is read without FOR UPDATE.
MayLock_Unlocked(r) == TRUE
MayLock(r) == holder[r] = Nobody

\* assertRoleCooldown: no grant of the role recorded within the cooldown.
CooldownPassed(u) == clock - granted[u] >= Cooldown

\* Mutant: the validator may sign for production.
IsSecondPair_AnyReviewer(u, row) == TRUE
IsSecondPair(u, row) == u # row.validatedBy

\* requireStatus and the refusals that go with each action.
Permitted(u, action, row) ==
  \/ action = "start-validation" /\ row.status = "READY_FOR_VALIDATION"
  \/ action \in {"pass-validation", "fail-validation"} /\ row.status = "IN_VALIDATION"
  \/ action = "authorize-production" /\ row.status = "VALIDATED" /\ IsSecondPair(u, row)
  \/ action = "renew-authorization" /\ row.status = "IN_VALIDATION"
  \/ /\ action = "renew-authorization" /\ row.status = "PRODUCTION_AUTHORIZED"
     /\ IsSecondPair(u, row)
  \/ /\ action = "reject"
     /\ row.status \in {"READY_FOR_VALIDATION", "IN_VALIDATION", "VALIDATED"}
  \/ /\ action = "revoke"
     /\ row.status \in {"IN_VALIDATION", "VALIDATED", "PRODUCTION_AUTHORIZED"}

\* The environment of the receipt an action signs, if it signs one.
Signs(action, row) ==
  CASE action = "start-validation" -> {"validation"}
    [] action = "authorize-production" -> {"production"}
    [] action = "renew-authorization" ->
         {IF row.status = "IN_VALIDATION" THEN "validation" ELSE "production"}
    [] OTHER -> {}

\* The row an action writes over the row it read; like the UPDATEs it sets the
\* columns of its action and leaves the others as they stand in the table.
Written(u, action, now) ==
  CASE action = "start-validation" ->
         [now EXCEPT !.status = "IN_VALIDATION", !.onValidation = TRUE]
    [] action = "pass-validation" ->
         [now EXCEPT !.status = "VALIDATED", !.validatedBy = u]
    [] action = "fail-validation" ->
         [now EXCEPT !.status = "REJECTED", !.validatedBy = u]
    [] action = "authorize-production" ->
         [now EXCEPT !.status = "PRODUCTION_AUTHORIZED", !.approvedBy = u]
    [] action = "renew-authorization" -> now
    [] action = "reject" -> [now EXCEPT !.status = "REJECTED"]
    [] action = "revoke" -> [now EXCEPT !.status = "REVOKED"]

\* CONSTRAINT llm_releases_four_eyes.
FourEyesConstraint(row) ==
  /\ row.validatedBy # Nobody => row.validatedBy # row.createdBy
  /\ row.approvedBy # Nobody => row.approvedBy \notin {row.createdBy, row.validatedBy}

Stopped == {r \in Release : release[r].status \in {"REVOKED", "REJECTED"}}

\* Mutant: only what was revoked is listed.
Listed_RevokedOnly == {r \in Release : release[r].status = "REVOKED"}
\* The releases issueRevocationList names.
Listed == {r \in Release : \/ release[r].status = "REVOKED"
                           \/ release[r].status = "REJECTED" /\ release[r].onValidation}

\* verifyAuthorization, at activation and at every extraction: would a
\* processor of environment e with this list in place run on this receipt?
Runs(e, receipt, list) ==
  /\ receipt.env = e
  /\ clock < receipt.at + Lifetime
  /\ receipt.release \notin list.ids

---------------------------------------------------------------------------
Become(s, request) == session' = [session EXCEPT ![s] = request]

AskToRegister(s, u, r) ==
  /\ session[s] = Idle /\ MayRegister(u)
  /\ Become(s, [phase |-> "registering", user |-> u, release |-> r])
  /\ UNCHANGED <<governance, accounts, clock>>

\* Under the advisory lock of the version label: a label that is taken keeps
\* its release.
Register(s) ==
  /\ session[s].phase = "registering"
  /\ LET r == session[s].release IN
       release' = IF release[r].status # "none" THEN release
                  ELSE [release EXCEPT ![r].status = "READY_FOR_VALIDATION",
                                       ![r].createdBy = session[s].user]
  /\ Become(s, Idle)
  /\ UNCHANGED <<holder, receipts, lists, hasty, accounts, clock>>

Ask(s, u, action, r) ==
  /\ session[s] = Idle /\ MayReview(u)
  /\ Become(s, [phase |-> "asked", user |-> u, release |-> r, action |-> action])
  /\ UNCHANGED <<governance, accounts, clock>>

\* load ... FOR UPDATE, and every refusal; the receipt is dated here.
Decide(s) ==
  /\ session[s].phase = "asked"
  /\ LET u == session[s].user
         r == session[s].release
         action == session[s].action
     IN  /\ release[r].status # "none" /\ MayLock(r)
         /\ u # release[r].createdBy
         /\ action \in Stops \/ CooldownPassed(u)
         /\ Permitted(u, action, release[r])
         /\ holder' = [holder EXCEPT ![r] = s]
         /\ Become(s, [phase |-> "deciding", user |-> u, release |-> r,
                       action |-> action, row |-> release[r], at |-> clock])
         /\ hasty' = (hasty \/ (action = "authorize-production" /\ clock - since[u] < Cooldown))
  /\ UNCHANGED <<release, receipts, lists, accounts, clock>>

\* The receipt is signed, the row written, the transaction committed.
Write(s) ==
  /\ session[s].phase = "deciding"
  /\ LET req == session[s]
         r == req.release
     IN  /\ FourEyesConstraint(Written(req.user, req.action, release[r]))
         /\ release' = [release EXCEPT ![r] = Written(req.user, req.action, release[r])]
         /\ holder' = [holder EXCEPT ![r] = Nobody]
         /\ receipts' = receipts \cup
              {[release |-> r, env |-> e, by |-> req.user, at |-> req.at] :
                 e \in Signs(req.action, req.row)}
         /\ Cardinality(receipts') <= MaxReceipts
  /\ Become(s, Idle)
  /\ UNCHANGED <<lists, hasty, accounts, clock>>

AskForList(s, u) ==
  /\ session[s] = Idle /\ Tech \in roles[u]
  /\ Become(s, [phase |-> "listing", covers |-> Stopped])
  /\ UNCHANGED <<governance, accounts, clock>>

IssueList(s) ==
  /\ session[s].phase = "listing"
  /\ lists' = lists \cup {[ids |-> Listed, covers |-> session[s].covers]}
  /\ Cardinality(lists') <= MaxLists
  /\ Become(s, Idle)
  /\ UNCHANGED <<release, holder, receipts, hasty, accounts, clock>>

\* A refusal, a signer that does not answer, a process that dies: the
\* transaction at hand is rolled back and the rest of the request never runs.
Abandon(s) ==
  /\ session[s] # Idle
  /\ Become(s, Idle)
  /\ holder' = [r \in Release |-> IF holder[r] = s THEN Nobody ELSE holder[r]]
  /\ UNCHANGED <<release, receipts, lists, hasty, accounts, clock>>

---------------------------------------------------------------------------
\* PATCH /admin/users: checkGovernanceRoleChange by another administrator.
CheckRoles(s, target, next) ==
  /\ session[s] = Idle /\ saves < MaxSaves
  /\ next # {Tech, Automation}
  /\ saves' = saves + 1
  /\ Become(s, [phase |-> "checked", target |-> target, next |-> next,
                grants |-> Tech \in next \ roles[target], gains |-> FALSE])
  /\ UNCHANGED <<governance, clock, roles, granted, since>>

\* updateUser deletes the roles and inserts the new ones, each on its own.
RemoveRoles(s) ==
  /\ session[s].phase = "checked"
  /\ roles' = [roles EXCEPT ![session[s].target] = {}]
  /\ Become(s, [session[s] EXCEPT !.phase = "removed",
                  !.gains = Tech \in session[s].next \ roles[session[s].target]])
  /\ UNCHANGED <<governance, clock, granted, since, saves>>

GiveRoles(s) ==
  /\ session[s].phase = "removed"
  /\ LET u == session[s].target IN
       /\ roles[u] \cap session[s].next = {}
       /\ roles' = [roles EXCEPT ![u] = @ \cup session[s].next]
       /\ since' = IF session[s].gains THEN [since EXCEPT ![u] = clock] ELSE since
  /\ Become(s, [session[s] EXCEPT !.phase = "saved"])
  /\ UNCHANGED <<governance, clock, granted, saves>>

RecordRoles(s) ==
  /\ session[s].phase = "saved"
  /\ granted' = IF session[s].grants
                THEN [granted EXCEPT ![session[s].target] = clock] ELSE granted
  /\ Become(s, Idle)
  /\ UNCHANGED <<governance, clock, roles, since, saves>>

---------------------------------------------------------------------------
Tick ==
  /\ clock < MaxClock
  /\ clock' = clock + 1
  /\ UNCHANGED <<governance, accounts, session>>

Handle(s) ==
  \/ \E u \in User, r \in Release :
       \/ AskToRegister(s, u, r)
       \/ \E action \in Action : Ask(s, u, action, r)
  \/ Register(s) \/ Decide(s) \/ Write(s) \/ Abandon(s)
  \/ (\E u \in User : AskForList(s, u)) \/ IssueList(s)
  \/ \E u \in User, next \in GovernanceRoles : CheckRoles(s, u, next)
  \/ RemoveRoles(s) \/ GiveRoles(s) \/ RecordRoles(s)

Next == (\E s \in Session : Handle(s)) \/ Tick

Spec == Init /\ [][Next]_vars

---------------------------------------------------------------------------
\* Every production receipt ever signed, the renewed ones included, is for a
\* release that passed validation, and was signed by somebody who neither
\* registered nor validated it, whatever roles people gained or lost meanwhile
\* (docs/LLM_RELEASE_GOVERNANCE.md: validator, approver and registering
\* identity differ).
FourEyes ==
  /\ TypeOK
  /\ \A receipt \in receipts : receipt.env = "production" =>
       LET row == release[receipt.release] IN
         /\ row.status \in {"PRODUCTION_AUTHORIZED", "REVOKED"}
         /\ row.validatedBy # Nobody
         /\ receipt.by \notin {row.createdBy, row.validatedBy}
         /\ row.createdBy # row.validatedBy

\* A rejected or revoked release stays so and gets no further receipt, also
\* from a decision that was under way when it was stopped.
StoppedForGood ==
  [][\A r \in Stopped :
       /\ release'[r].status = release[r].status
       /\ \A receipt \in receipts' \ receipts : receipt.release # r]_vars

\* Operators put in place any receipt and any list that was ever issued: a
\* processor whose list was asked for after a release had been stopped does
\* not run that release, in either environment, on any receipt of it.
StoppedDoesNotRun ==
  \A list \in lists, e \in Environment, receipt \in receipts :
    Runs(e, receipt, list) => receipt.release \notin list.covers

\* A newly granted technical administrator waits out the cooldown before
\* approving (llm-governance-roles.service.ts:10-12).
NewAdminWaits == ~hasty
===========================================================================
