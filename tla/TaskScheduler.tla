--------------------------- MODULE TaskScheduler ---------------------------
(***************************************************************************)
(* What thread::TaskScheduler promises to those who schedule tasks on it:  *)
(* tasks start in the order in which they were accepted, each at most      *)
(* once, all of them as long as the scheduler is in service; shutting it   *)
(* down drops the tasks that have not started.                             *)
(***************************************************************************)
EXTENDS Sequences

CONSTANT Tasks

VARIABLES
    pending,  \* the accepted tasks that have not started, oldest first
    started,  \* the tasks that have started, in order
    open      \* whether the scheduler is in service

schedulerVars == <<pending, started, open>>

SchedulerInit ==
    /\ pending = <<>>
    /\ started = <<>>
    /\ open = TRUE

ScheduleTask(t) ==
    /\ open
    /\ pending' = Append(pending, t)
    /\ UNCHANGED <<started, open>>

Start ==
    /\ open
    /\ pending # <<>>
    /\ started' = Append(started, Head(pending))
    /\ pending' = Tail(pending)
    /\ UNCHANGED open

Shutdown ==
    /\ open
    /\ open' = FALSE
    /\ pending' = <<>>
    /\ UNCHANGED started

SchedulerNext == (\E t \in Tasks : ScheduleTask(t)) \/ Start \/ Shutdown

SchedulerSafety == SchedulerInit /\ [][SchedulerNext]_schedulerVars

\* Weak fairness of Start: an accepted task starts unless the scheduler goes
\* out of service first.
SchedulerSpec == SchedulerSafety /\ WF_schedulerVars(Start)
=============================================================================
