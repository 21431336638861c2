------------------------------ MODULE AutoFlush ------------------------------
(***************************************************************************)
(* write::AutoFlushController: the flushes that the stream client makes by *)
(* itself, when its queue is long enough, at intervals, and when its       *)
(* oldest request is too old.  Enable makes a new implementation, called a *)
(* generation here, and Disable replaces it by one that does nothing; what *)
(* a generation left behind, sleeping threads and running flushes, goes on *)
(* by itself.  The queue is its length, and a thread sleeps for any time.  *)
(* Calls of Enable do not overlap one another, a flush has no limit on its *)
(* events, and the client outlives the controller.                         *)
(***************************************************************************)
EXTENDS Integers, Sequences, FiniteSets

CONSTANTS
  Queuers,        \* threads that call Queue once each
  Generations,    \* bound: 1 .. the number of calls of Enable that have an effect
  MaxTasks,       \* bound: the number of background flushes
  Settings,       \* the flush_settings_: which of "interval", "period", "old" are set
  num_events      \* auto_flush_num_events

VARIABLES
  Timers,     \* flush_settings_; constant
  impl_,      \* the generation, or 0: the disabled implementation
  gen,        \* by generation, the members of EnabledAutoFlushControllerImpl
  enabling,   \* the call of Enable: its step, generation and QueueSize
  task,       \* the background flushes: their threads and those of Flush
  queuer,     \* by queuer, what it does next
  queue,      \* QueueSize()
  straddled   \* an Enable overlapped a Queue or a Flush

vars == <<Timers, impl_, gen, enabling, task, queuer, queue, straddled>>

Fresh == [is_cancelled_ |-> FALSE, cancel_token_map_ |-> {},
          background_tasks_ids_ |-> {}, timestamps |-> 0,
          sleeping |-> {}, awake |-> {}, future |-> "none"]

Init ==
  /\ Timers \in Settings
  /\ impl_ = 0
  /\ gen = [g \in Generations |-> Fresh]
  /\ enabling = [pc |-> "no", g |-> 0, size |-> 0]
  /\ task = <<>>
  /\ queuer = [q \in Queuers |-> "idle"]
  /\ queue = 0
  /\ straddled = FALSE

\* Somebody is between the two steps of Queue or of a pop.
Busy == \/ \E q \in Queuers : queuer[q] = "put"
        \/ \E t \in DOMAIN task : task[t].flush \in {"popped", "put"}
Straddles == straddled' = (straddled \/ enabling.pc # "no")

\* AddBackgroundFlushTask: the listener hears of it, and a thread is detached.
AddBackgroundFlushTask(g) ==
  /\ Len(task) < MaxTasks
  /\ task' = Append(task, [g |-> g, thread |-> "spawned", flush |-> "none",
                           cancelled |-> FALSE])

AutoFlushNumEvents ==
  IF impl_ # 0 /\ queue >= num_events THEN AddBackgroundFlushTask(impl_)
  ELSE UNCHANGED task

NotifyQueueEventStart ==
  gen' = IF impl_ # 0 /\ "old" \in Timers
         THEN [gen EXCEPT ![impl_].timestamps = @ + 1] ELSE gen

\* Mutant of NotifyFlushEvent: the oldest timestamp stays.
NotifyFlushEventForgets == UNCHANGED gen

NotifyFlushEvent ==
  gen' = IF impl_ # 0 /\ "old" \in Timers /\ gen[impl_].timestamps > 0
         THEN [gen EXCEPT ![impl_].timestamps = @ - 1] ELSE gen

-----------------------------------------------------------------------------
(* Enable and Disable. *)

Enable ==
  /\ impl_ = 0 /\ enabling.pc = "no"
  /\ \E g \in Generations :
       /\ gen[g] = Fresh /\ \A h \in Generations : h < g => gen[h] # Fresh
       /\ impl_' = g
       /\ enabling' = [pc |-> "stored", g |-> g, size |-> 0]
       /\ gen' = [gen EXCEPT ![g].future = "enabled"]
  /\ straddled' = (straddled \/ Busy)
  /\ UNCHANGED <<Timers, task, queuer, queue>>

\* impl_->Enable(): of whatever impl_ is by then.
InitialiseAutoFlushPeriodic ==
  /\ enabling.pc = "stored"
  /\ IF impl_ = 0 THEN enabling' = [enabling EXCEPT !.pc = "no"] /\ UNCHANGED gen
     ELSE /\ gen' = [gen EXCEPT ![impl_].sleeping = @ \cup (Timers \ {"old"})]
          /\ enabling' = [pc |-> "counted", g |-> impl_, size |-> queue]
  /\ UNCHANGED <<Timers, impl_, task, queuer, queue, straddled>>

InitialiseAutoFlushOldPartitionInterval ==
  /\ enabling.pc = "counted"
  /\ gen' = IF "old" \notin Timers THEN gen
            ELSE [gen EXCEPT ![enabling.g].timestamps = @ + enabling.size,
                             ![enabling.g].sleeping = @ \cup {"old"}]
  /\ enabling' = [enabling EXCEPT !.pc = "no"]
  /\ IF queue >= num_events THEN AddBackgroundFlushTask(enabling.g) ELSE UNCHANGED task
  /\ UNCHANGED <<Timers, impl_, queuer, queue, straddled>>

Disable ==
  /\ impl_ # 0
  /\ gen' = [gen EXCEPT ![impl_].future = "cancelling"]
  /\ impl_' = 0
  /\ UNCHANGED <<Timers, enabling, task, queuer, queue, straddled>>

\* The tokens that are in the map; then a thread waits for the tasks.
Cancel(g) ==
  /\ gen[g].future = "cancelling"
  /\ task' = [t \in DOMAIN task |->
                [task[t] EXCEPT !.cancelled =
                   @ \/ (task[t].g = g /\ t \in gen[g].cancel_token_map_)]]
  /\ gen' = [gen EXCEPT ![g].is_cancelled_ = TRUE, ![g].future = "waiting"]
  /\ UNCHANGED <<Timers, impl_, enabling, queuer, queue, straddled>>

WaitForBackgroundTaskCompletion(g) ==
  /\ gen[g].future = "waiting" /\ gen[g].background_tasks_ids_ = {}
  /\ gen' = [gen EXCEPT ![g].future = "set"]
  /\ UNCHANGED <<Timers, impl_, enabling, task, queuer, queue, straddled>>

-----------------------------------------------------------------------------
(* The threads that sleep. *)

Awake(g, k) ==
  /\ k \in gen[g].sleeping
  /\ gen' = [gen EXCEPT ![g].sleeping = @ \ {k},
                        ![g].awake = IF gen[g].is_cancelled_ THEN @ ELSE @ \cup {k}]
  /\ UNCHANGED <<Timers, impl_, enabling, task, queuer, queue, straddled>>

Rearm(g, k) ==
  /\ k \in gen[g].awake
  /\ gen' = [gen EXCEPT ![g].awake = @ \ {k}, ![g].sleeping = @ \cup {k}]
  /\ UNCHANGED <<Timers, impl_, enabling, queuer, queue, straddled>>

TriggerAutoFlushPeriod(g) == Rearm(g, "period") /\ AddBackgroundFlushTask(g)
TriggerAutoFlushInterval(g) == Rearm(g, "interval") /\ AddBackgroundFlushTask(g)

\* A queue without timestamps has nothing old in it.
TriggerAutoFlushOldPartitionInterval(g) ==
  /\ Rearm(g, "old")
  /\ \/ gen[g].timestamps > 0 /\ AddBackgroundFlushTask(g)
     \/ UNCHANGED task

-----------------------------------------------------------------------------
(* A background flush: its thread, and the thread of the Flush it calls. *)

Flushing(t, from, to) == task[t].flush = from /\ task' = [task EXCEPT ![t].flush = to]

\* The task is added and Flush is called, which starts the other thread.
AddTask(t) ==
  /\ task[t].thread = "spawned"
  /\ task' = [task EXCEPT ![t].thread = "called", ![t].flush = "running"]
  /\ gen' = [gen EXCEPT ![task[t].g].background_tasks_ids_ = @ \cup {t}]
  /\ UNCHANGED <<Timers, impl_, enabling, queuer, queue, straddled>>

\* Possibly after the flush has ended and removed it.
AddCancelToken(t) ==
  /\ task[t].thread = "called"
  /\ task' = [task EXCEPT ![t].thread = "ended"]
  /\ gen' = [gen EXCEPT ![task[t].g].cancel_token_map_ = @ \cup {t}]
  /\ UNCHANGED <<Timers, impl_, enabling, queuer, queue, straddled>>

PopFromQueue(t) ==
  /\ queue > 0 /\ Flushing(t, "running", "popped")
  /\ queue' = queue - 1
  /\ Straddles
  /\ UNCHANGED <<Timers, impl_, gen, enabling, queuer>>

FlushNotifies(t) ==
  /\ Flushing(t, "popped", "publishing")
  /\ NotifyFlushEvent
  /\ UNCHANGED <<Timers, impl_, enabling, queuer, queue, straddled>>

\* The request is published, or queued again when the flush was cancelled.
Published(t) ==
  /\ \/ ~task[t].cancelled /\ Flushing(t, "publishing", "running")
     \/ task[t].cancelled /\ Flushing(t, "publishing", "requeue")
  /\ UNCHANGED <<Timers, impl_, gen, enabling, queuer, queue, straddled>>

FlushQueuesStart(t) ==
  /\ Flushing(t, "requeue", "put")
  /\ NotifyQueueEventStart
  /\ Straddles
  /\ UNCHANGED <<Timers, impl_, enabling, queuer, queue>>

FlushQueues(t) ==
  /\ Flushing(t, "put", "complete")
  /\ queue' = queue + 1
  /\ UNCHANGED <<Timers, impl_, gen, enabling, queuer, straddled>>

FlushQueuesComplete(t) ==
  /\ task[t].flush = "complete"
  /\ LET ended == [task EXCEPT ![t].flush = "empty"] IN
     IF impl_ # 0 /\ queue >= num_events
     THEN /\ Len(task) < MaxTasks
          /\ task' = Append(ended, [g |-> impl_, thread |-> "spawned",
                                    flush |-> "none", cancelled |-> FALSE])
     ELSE task' = ended
  /\ UNCHANGED <<Timers, impl_, gen, enabling, queuer, queue, straddled>>

FlushEnds(t) ==
  /\ queue = 0 /\ Flushing(t, "running", "empty")
  /\ UNCHANGED <<Timers, impl_, gen, enabling, queuer, queue, straddled>>

\* Mutant of ReleaseTask: the id stays in the collection.
ReleaseTaskForgets(t) ==
  /\ Flushing(t, "empty", "released")
  /\ UNCHANGED gen
  /\ UNCHANGED <<Timers, impl_, enabling, queuer, queue, straddled>>

\* The callback of the flush.
ReleaseTask(t) ==
  /\ Flushing(t, "empty", "released")
  /\ gen' = [gen EXCEPT ![task[t].g].background_tasks_ids_ = @ \ {t}]
  /\ UNCHANGED <<Timers, impl_, enabling, queuer, queue, straddled>>

\* RemoveCancelToken, and the listener is told.
NotifyFlushEventResults(t) ==
  /\ Flushing(t, "released", "reported")
  /\ gen' = [gen EXCEPT ![task[t].g].cancel_token_map_ = @ \ {t}]
  /\ UNCHANGED <<Timers, impl_, enabling, queuer, queue, straddled>>

-----------------------------------------------------------------------------
(* Queue, as the controller sees it. *)

QueueStart(q) ==
  /\ queuer[q] = "idle"
  /\ queuer' = [queuer EXCEPT ![q] = "put"]
  /\ NotifyQueueEventStart
  /\ Straddles
  /\ UNCHANGED <<Timers, impl_, enabling, task, queue>>

QueuePut(q) ==
  /\ queuer[q] = "put"
  /\ queuer' = [queuer EXCEPT ![q] = "complete"]
  /\ queue' = queue + 1
  /\ UNCHANGED <<Timers, impl_, gen, enabling, task, straddled>>

QueueComplete(q) ==
  /\ queuer[q] = "complete"
  /\ queuer' = [queuer EXCEPT ![q] = "done"]
  /\ AutoFlushNumEvents
  /\ UNCHANGED <<Timers, impl_, gen, enabling, queue, straddled>>

-----------------------------------------------------------------------------
TaskStep(t) ==
  AddTask(t) \/ AddCancelToken(t) \/ PopFromQueue(t)
  \/ FlushNotifies(t) \/ Published(t) \/ FlushQueuesStart(t) \/ FlushQueues(t)
  \/ FlushQueuesComplete(t) \/ FlushEnds(t) \/ ReleaseTask(t)
  \/ NotifyFlushEventResults(t)

TimerStep(g) ==
  \/ \E k \in Timers : Awake(g, k)
  \/ TriggerAutoFlushPeriod(g) \/ TriggerAutoFlushInterval(g)
  \/ TriggerAutoFlushOldPartitionInterval(g)

QueuerStep(q) == QueueStart(q) \/ QueuePut(q) \/ QueueComplete(q)

ControllerStep ==
  \/ InitialiseAutoFlushPeriodic \/ InitialiseAutoFlushOldPartitionInterval
  \/ \E g \in Generations : Cancel(g) \/ WaitForBackgroundTaskCompletion(g)

Next ==
  \/ Enable \/ Disable \/ ControllerStep
  \/ \E g \in Generations : TimerStep(g)
  \/ \E t \in DOMAIN task : TaskStep(t)
  \/ \E q \in Queuers : QueuerStep(q)

\* Every thread runs, and every publication of a flush is answered.
Fairness ==
  /\ WF_vars(ControllerStep)
  /\ \A t \in 1 .. MaxTasks : WF_vars(t \in DOMAIN task /\ TaskStep(t))

Spec == Init /\ [][Next]_vars /\ Fairness

-----------------------------------------------------------------------------
\* While auto flush is enabled and no call is under way, there is exactly one
\* timestamp for each request in the queue, whatever was queued, flushed,
\* cancelled and queued again: otherwise old requests are not flushed, or
\* flushes are forced for ever.  Except that an Enable overlapped one of the
\* others (AutoFlushController.cpp:147, 167-177).
TimestampsMatchQueue ==
  impl_ # 0 /\ "old" \in Timers /\ enabling.pc = "no" /\ ~Busy /\ ~straddled
    => gen[impl_].timestamps = queue

\* The future that Disable returns is set at last: each flush releases its
\* task, cancelled or not, and whether its token was there in time or not
\* (AutoFlushController.cpp:197-217, BackgroundTaskCollection.cpp:41-62).
FutureIsSet ==
  \A g \in Generations :
    gen[g].future = "waiting" ~> gen[g].future = "set"

\* StreamLayerClient.h:154: the future "will be set when all pending background
\* flush events have completed or have been cancelled".
FutureMeansQuiet ==
  \A g \in Generations : gen[g].future = "set" =>
    \A t \in DOMAIN task : task[t].g = g =>
      task[t].cancelled \/ task[t].flush \in {"released", "reported"}
=============================================================================
