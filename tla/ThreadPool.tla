----------------------------- MODULE ThreadPool -----------------------------
(***************************************************************************)
(* The task scheduler of the SDK core: thread::SyncQueue and               *)
(* thread::ThreadPoolTaskScheduler.                                        *)
(*                                                                         *)
(* Worker threads loop on SyncQueue::Pull and run what they get.  Callers  *)
(* Push tasks.  The destructor closes the queue and joins the workers.     *)
(* Every critical section of mutex_ is one action; everything done outside *)
(* it (notify_one, notify_all, running a task, join) is an action of its   *)
(* own.  The condition variable ready_ is the set of threads asleep in it; *)
(* threads may also wake up without having been notified.                  *)
(***************************************************************************)
EXTENDS Naturals, Sequences, FiniteSets

CONSTANTS
    Workers,    \* the threads of thread_pool_
    Producers,  \* the threads outside the pool that schedule tasks
    Tasks       \* the tasks; each is scheduled at most once

ASSUME ThreadPoolConstants ==
    /\ IsFiniteSet(Workers)
    /\ IsFiniteSet(Producers)
    /\ Workers \cap Producers = {}

(***************************************************************************)
(* Who may be inside Push: the producers, and the workers, whose tasks     *)
(* schedule further tasks.                                                 *)
(***************************************************************************)
Callers == Producers \cup Workers

VARIABLES
    queue_,     \* SyncQueue::queue_
    closed_,    \* SyncQueue::closed_
    ready_,     \* the workers asleep on SyncQueue::ready_
    worker,     \* where each worker is in its loop
    task,       \* the task each worker holds (a set with at most one element)
    notifying,  \* the callers between the unlock and the notify_one of Push
    owner,      \* the thread that runs the destructor
    accepted,   \* history: the tasks pushed on the open queue, in order
    pulled      \* history: the tasks pulled, in order

vars == <<queue_, closed_, ready_, worker, task, notifying, owner,
          accepted, pulled>>

Init ==
    /\ queue_ = <<>>
    /\ closed_ = FALSE
    /\ ready_ = {}
    /\ worker = [w \in Workers |-> "pull"]
    /\ task = [w \in Workers |-> {}]
    /\ notifying = {}
    /\ owner = "alive"
    /\ accepted = <<>>
    /\ pulled = <<>>

-----------------------------------------------------------------------------
(***************************************************************************)
(* SyncQueue::Push and ScheduleTask/EnqueueTask above it.  A producer uses *)
(* the scheduler through a shared_ptr, so it calls only while the          *)
(* destructor has not started; the task a worker is running may still call *)
(* afterwards.                                                             *)
(***************************************************************************)
Scheduled == {accepted[i] : i \in DOMAIN accepted}

MayEnqueue(c) ==
    /\ c \notin notifying
    /\ \/ c \in Producers /\ owner = "alive"
       \/ c \in Workers /\ worker[c] = "run"

Push(c, t) ==
    /\ MayEnqueue(c)
    /\ t \notin Scheduled
    /\ ~closed_
    /\ queue_' = Append(queue_, t)
    /\ accepted' = Append(accepted, t)
    /\ notifying' = notifying \cup {c}
    /\ UNCHANGED <<closed_, ready_, worker, task, owner, pulled>>

PushClosed(c) ==
    /\ MayEnqueue(c)
    /\ closed_
    /\ UNCHANGED vars

\* Mutant of NotifyOne: the notification is forgotten.
NotifyNobody(c) ==
    /\ c \in notifying
    /\ notifying' = notifying \ {c}
    /\ UNCHANGED <<queue_, closed_, ready_, worker, task, owner,
                   accepted, pulled>>

\* ready_.notify_one(): one sleeper wakes up, if there is one.
NotifyOne(c) ==
    /\ c \in notifying
    /\ notifying' = notifying \ {c}
    /\ IF ready_ = {} THEN UNCHANGED ready_
       ELSE \E w \in ready_ : ready_' = ready_ \ {w}
    /\ UNCHANGED <<queue_, closed_, worker, task, owner, accepted, pulled>>

(***************************************************************************)
(* SyncQueue::Pull, called from the loop of a worker.                      *)
(***************************************************************************)
Awake(w) == worker[w] = "pull" /\ w \notin ready_

\* The predicate of ready_.wait is false: release the mutex and sleep.
PullWait(w) ==
    /\ Awake(w)
    /\ queue_ = <<>> /\ ~closed_
    /\ ready_' = ready_ \cup {w}
    /\ UNCHANGED <<queue_, closed_, worker, task, notifying, owner,
                   accepted, pulled>>

\* Pull returns false and the thread function returns.
PullClosed(w) ==
    /\ Awake(w)
    /\ closed_
    /\ worker' = [worker EXCEPT ![w] = "returned"]
    /\ UNCHANGED <<queue_, closed_, ready_, task, notifying, owner,
                   accepted, pulled>>

\* Mutant of PullTask: front() without pop().
PullTaskNoPop(w) ==
    /\ Awake(w)
    /\ queue_ # <<>> /\ ~closed_
    /\ task' = [task EXCEPT ![w] = {Head(queue_)}]
    /\ pulled' = Append(pulled, Head(queue_))
    /\ worker' = [worker EXCEPT ![w] = "run"]
    /\ UNCHANGED <<queue_, closed_, ready_, notifying, owner, accepted>>

\* Pull takes the front element and returns true.
PullTask(w) ==
    /\ Awake(w)
    /\ queue_ # <<>> /\ ~closed_
    /\ task' = [task EXCEPT ![w] = {Head(queue_)}]
    /\ queue_' = Tail(queue_)
    /\ pulled' = Append(pulled, Head(queue_))
    /\ worker' = [worker EXCEPT ![w] = "run"]
    /\ UNCHANGED <<closed_, ready_, notifying, owner, accepted>>

\* task() returns; `task' goes out of scope and the worker loops.
Finish(w) ==
    /\ worker[w] = "run"
    /\ w \notin notifying
    /\ task' = [task EXCEPT ![w] = {}]
    /\ worker' = [worker EXCEPT ![w] = "pull"]
    /\ UNCHANGED <<queue_, closed_, ready_, notifying, owner, accepted,
                   pulled>>

\* A condition variable may return from wait with no notification.
SpuriousWakeup(w) ==
    /\ w \in ready_
    /\ ready_' = ready_ \ {w}
    /\ UNCHANGED <<queue_, closed_, worker, task, notifying, owner,
                   accepted, pulled>>

-----------------------------------------------------------------------------
(***************************************************************************)
(* ~ThreadPoolTaskScheduler: Close (a critical section, then notify_all),  *)
(* then join every thread.                                                 *)
(***************************************************************************)
Close ==
    /\ owner = "alive"
    /\ notifying \cap Producers = {}
    /\ owner' = "closing"
    /\ closed_' = TRUE
    /\ queue_' = <<>>
    /\ UNCHANGED <<ready_, worker, task, notifying, accepted, pulled>>

\* Mutant of NotifyAll: Close wakes a single thread.
NotifyAllIsNotifyOne ==
    /\ owner = "closing"
    /\ owner' = "joining"
    /\ IF ready_ = {} THEN UNCHANGED ready_
       ELSE \E w \in ready_ : ready_' = ready_ \ {w}
    /\ UNCHANGED <<queue_, closed_, worker, task, notifying, accepted, pulled>>

NotifyAll ==
    /\ owner = "closing"
    /\ owner' = "joining"
    /\ ready_' = {}
    /\ UNCHANGED <<queue_, closed_, worker, task, notifying, accepted, pulled>>

Join ==
    /\ owner = "joining"
    /\ \A w \in Workers : worker[w] = "returned"
    /\ owner' = "destroyed"
    /\ UNCHANGED <<queue_, closed_, ready_, worker, task, notifying,
                   accepted, pulled>>

\* The scheduler is gone and nothing happens any more.
Destroyed ==
    /\ owner = "destroyed"
    /\ UNCHANGED vars

WorkerStep(w) ==
    \/ PullWait(w) \/ PullClosed(w) \/ PullTask(w) \/ Finish(w)

Next ==
    \/ \E c \in Callers : \/ \E t \in Tasks : Push(c, t)
                          \/ PushClosed(c)
                          \/ NotifyOne(c)
    \/ \E w \in Workers : WorkerStep(w) \/ SpuriousWakeup(w)
    \/ Close \/ NotifyAll \/ Join \/ Destroyed

(***************************************************************************)
(* Fairness: the scheduler of the operating system runs every thread that  *)
(* is not blocked, the tasks terminate, and a destructor that has started  *)
(* goes on.  Nobody is obliged to push or to destroy the scheduler, and no *)
(* spurious wakeup has to happen.                                          *)
(***************************************************************************)
Fairness ==
    /\ \A w \in Workers : WF_vars(WorkerStep(w))
    /\ \A c \in Callers : WF_vars(NotifyOne(c))
    /\ WF_vars(NotifyAll)
    /\ WF_vars(Join)

Spec == Init /\ [][Next]_vars /\ Fairness

-----------------------------------------------------------------------------
(***************************************************************************)
(* The type invariant.  A worker holds a task exactly while it runs one,   *)
(* sleeps only inside Pull, and notifies only from a task.                 *)
(***************************************************************************)
TypeOK ==
    /\ queue_ \in Seq(Tasks)
    /\ closed_ \in BOOLEAN
    /\ worker \in [Workers -> {"pull", "run", "returned"}]
    /\ task \in [Workers -> SUBSET Tasks]
    /\ \A w \in Workers : worker[w] = "run" <=> task[w] # {}
    /\ ready_ \subseteq {w \in Workers : worker[w] = "pull"}
    /\ notifying \subseteq Producers \cup {w \in Workers : worker[w] = "run"}
    /\ owner \in {"alive", "closing", "joining", "destroyed"}
    /\ accepted \in Seq(Tasks)
    /\ pulled \in Seq(Tasks)

(***************************************************************************)
(* FIFO hand-over, whatever the interleaving of Push, Pull and Close: the  *)
(* tasks pulled so far followed by the tasks still queued are the accepted *)
(* tasks, in order; after Close the pulled tasks are a prefix of them.     *)
(***************************************************************************)
HandOver ==
    /\ ~closed_ => accepted = pulled \o queue_
    /\ Len(pulled) <= Len(accepted)
    /\ \A i \in 1 .. Len(pulled) : pulled[i] = accepted[i]

\* No task is ever run by two workers at the same time.
OneRunnerPerTask ==
    \A v, w \in Workers : v # w => task[v] \cap task[w] = {}

(***************************************************************************)
(* No lost wakeup, although notify_one is called after the mutex has been  *)
(* released: while some worker sleeps, every queued task is matched by a   *)
(* worker on its way into Pull or by a notification still to come.         *)
(***************************************************************************)
NoTaskStranded ==
    ready_ # {} =>
        Len(queue_) <= Cardinality({w \in Workers : Awake(w)})
                       + Cardinality(notifying)

(***************************************************************************)
(* When the destructor has returned, no thread is inside the scheduler any *)
(* more: all have returned, none sleeps on ready_, none has still to call  *)
(* notify_one on it.                                                       *)
(***************************************************************************)
DestroyedIsQuiet ==
    owner = "destroyed" =>
        /\ \A w \in Workers : worker[w] = "returned"
        /\ ready_ = {}
        /\ notifying = {}

(***************************************************************************)
(* SyncQueue.h: "Once closed the SyncQueue will not open again".  After    *)
(* Close nothing is accepted and no task starts.                           *)
(***************************************************************************)
ClosedIsFinal ==
    [][closed_ => /\ closed_'
                  /\ accepted' = accepted
                  /\ pulled' = pulled]_vars

(***************************************************************************)
(* The destructor returns: Close wakes every sleeper, each worker comes    *)
(* back from the task it runs, sees closed_ and returns, and join does not *)
(* hang.                                                                   *)
(***************************************************************************)
DestructorReturns == closed_ ~> owner = "destroyed"

(***************************************************************************)
(* The thread pool implements TaskScheduler: the workers, the mutex and    *)
(* the condition variable are hidden.  The fairness of Start in the        *)
(* abstract specification makes every accepted task start, unless the      *)
(* scheduler is destroyed first.                                           *)
(***************************************************************************)
Abstract ==
    INSTANCE TaskScheduler WITH pending <- queue_, started <- pulled,
                                open <- ~closed_

ImplementsTaskScheduler == Abstract!SchedulerSpec
=============================================================================
