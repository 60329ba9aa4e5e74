-------------------------- MODULE MCPolicyLifecycle --------------------------
(***************************************************************************)
(* Small instances of PolicyLifecycle for TLC.                              *)
(***************************************************************************)
EXTENDS PolicyLifecycle, TLC

Clients == Permutations(Client)
=============================================================================
