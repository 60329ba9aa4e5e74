--------------------------- MODULE MCJobSchedule ---------------------------
(* Small instances of JobSchedule for TLC.                                   *)
EXTENDS JobSchedule, TLC

CONSTANTS a, b, c, d

\* Two cadences, an expression that is not supported, and an interval so long that
\* the next run of the schedule is beyond every date.
Intervals == (a :> 2) @@ (b :> 3) @@ (c :> 0) @@ (d :> 1000)
FirstRuns == (a :> 1) @@ (b :> 1) @@ (c :> 2) @@ (d :> 4)
=============================================================================
