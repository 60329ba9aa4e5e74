--------------------------- MODULE MCLlmRelease ---------------------------
(* Instance of LlmRelease for TLC: a pipeline identity m that may become a   *)
(* technical admin, and technical admins x and y.                            *)
EXTENDS LlmRelease, TLC
CONSTANTS m, x, y
RolesAtFirst == (m :> {Automation}) @@ (x :> {Tech}) @@ (y :> {Tech})
\* y is about to be made a technical admin.
RolesWithNewcomer == (m :> {Automation}) @@ (x :> {Tech}) @@ (y :> {})
Reviewers == Permutations({x, y}) \cup Permutations(Session)
===========================================================================
