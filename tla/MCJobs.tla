------------------------------- MODULE MCJobs -------------------------------
(***************************************************************************)
(* A small instance of the job worker for TLC: of its queue and of its       *)
(* scheduler.  They share no row but the run a tick inserts, and that insert *)
(* is the queue's Enqueue; their product is too large to explore, and a      *)
(* behaviour is one of the queue or one of the scheduler, the other staying  *)
(* in its initial state.                                                     *)
(***************************************************************************)
EXTENDS JobQueue, MCJobSchedule

JobsInit == Init /\ SchedInit

QueueStep     == SchedInit /\ Next /\ UNCHANGED schedVars
SchedulerStep == Init /\ SchedNext /\ UNCHANGED vars

\* Fairness asks for the steps of the scheduler only in the behaviours that are its.
SchedulerFairness ==
  \A w \in Process : WF_schedVars(Init /\ (Start(w) \/ TakeDue(w) \/ Fire(w)))

JobsSpec ==
  /\ JobsInit /\ [][QueueStep \/ SchedulerStep]_<<vars, schedVars>>
  /\ Fairness /\ SchedulerFairness
=============================================================================
