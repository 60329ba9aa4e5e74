----------------------------- MODULE MCQuoteBind -----------------------------
(***************************************************************************)
(* Small instances of QuoteBind for TLC: two risks, one of which is         *)
(* referred, the other only once the book is full.                          *)
(***************************************************************************)
EXTENDS QuoteBind, TLC

CONSTANTS r1, r2, e1

TheReferred == {[risk |-> r2, edition |-> e1]}
Symmetries  == Permutations(Binder) \cup Permutations(Billing)
=============================================================================
