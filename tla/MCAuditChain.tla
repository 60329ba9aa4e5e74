--------------------------- MODULE MCAuditChain ---------------------------
(* Instance of AuditChain for TLC. *)
EXTENDS AuditChain, TLC
Interchangeable == Permutations(Writer) \cup Permutations(Carrier)
===========================================================================
