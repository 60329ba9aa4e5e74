----------------------------- MODULE PolicyLedger -----------------------------
(***************************************************************************)
(* What policy servicing promises its callers, with no requests, locks or   *)
(* transactions in sight: a policy is changed by one operation at a time,   *)
(* each applied to the state the previous one left, and the operations that *)
(* revise the timeline number it 1, 2, 3, ... with no gap and no repeat.    *)
(*                                                                         *)
(* An endorsement is the one operation the code applies whatever the status *)
(* is (executeEndorsement consults no state machine), so the abstraction    *)
(* promises nothing about its source state.                                *)
(***************************************************************************)
EXTENDS Integers, Sequences, PolicyTransitions

VARIABLES
  status,   \* the policy's lifecycle state
  version,  \* its timeline version
  history   \* the operations applied, oldest first

LedgerInit == status = "Bound" /\ version = 0 /\ history = <<>>

Apply(a) ==
  /\ a = "endorse" \/ Applies(a, status)
  /\ status' = Result(a, status)
  /\ version' = IF a \in Numbered THEN version + 1 ELSE version
  /\ history' = Append(history, [action |-> a, from |-> status, to |-> status'])

LedgerNext == \E a \in Servicing : Apply(a)

LedgerSpec == LedgerInit /\ [][LedgerNext]_<<status, version, history>>
=============================================================================
