------------------------------ MODULE MCIntake -------------------------------
(***************************************************************************)
(* Small instances of Intake for TLC.                                       *)
(***************************************************************************)
EXTENDS Intake, TLC
=============================================================================
