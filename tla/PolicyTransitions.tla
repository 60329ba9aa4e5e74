-------------------------- MODULE PolicyTransitions --------------------------
(***************************************************************************)
(* The policy state machine every servicing operation is meant to consult:  *)
(* POLICY_TRANSITIONS of server/src/lib/transaction-state.ts.               *)
(***************************************************************************)

\* The one vocabulary of persisted policy states.
LifecycleState == {"Quote", "Draft", "Bound", "Issued", "Cancelled", "Expired"}

PolicyAction == {"bind", "issue", "endorse", "cancel", "reinstate", "rewrite",
                 "renew", "nonRenew", "expire"}

AllowedFrom == [bind      |-> {"Quote", "Draft"},
                issue     |-> {"Bound"},
                endorse   |-> {"Issued"},
                cancel    |-> {"Bound", "Issued"},
                reinstate |-> {"Cancelled"},
                rewrite   |-> {"Cancelled"},
                renew     |-> {"Issued"},
                nonRenew  |-> {"Issued"},
                expire    |-> {"Issued"}]

\* Mutant: one spelling of the word in the table, another in the column.
ToState_Misspelt == [bind |-> "Bound", issue |-> "Issued", endorse |-> "Issued",
                     cancel |-> "Canceled", reinstate |-> "Issued",
                     rewrite |-> "Issued", renew |-> "Issued",
                     nonRenew |-> "Issued", expire |-> "Expired"]

ToState == [bind      |-> "Bound",
            issue     |-> "Issued",
            endorse   |-> "Issued",
            cancel    |-> "Cancelled",
            reinstate |-> "Issued",
            rewrite   |-> "Issued",
            renew     |-> "Issued",
            nonRenew  |-> "Issued",
            expire    |-> "Expired"]

\* States from which repeating the action is accepted and changes nothing.
IdempotentFrom == [a \in PolicyAction |->
                     IF a \in {"bind", "issue", "expire"} THEN {ToState[a]} ELSE {}]

\* resolvePolicyTransition: the action applies, or repeats what already holds.
Applies(a, s) == s \in AllowedFrom[a]
Repeats(a, s) == ~Applies(a, s) /\ s \in IdempotentFrom[a]
(***************************************************************************)
(* What each servicing operation does with the table: the operations that   *)
(* some service implements on a bound policy, those that write the next     *)
(* timeline version, and those that leave the status column alone.          *)
(***************************************************************************)
Servicing   == PolicyAction \ {"bind", "expire"}
Numbered    == {"endorse", "cancel", "reinstate"}
KeepsStatus == {"endorse", "renew", "nonRenew"}

\* The status a servicing operation leaves behind.
Result(a, s) == IF a \in KeepsStatus THEN s ELSE ToState[a]
=============================================================================
