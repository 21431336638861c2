--------------------------- MODULE MCStreamQueue ----------------------------
(***************************************************************************)
(* The queue of StreamLayerClient with its flushes, on top of the cache,   *)
(* and its automatic flushes.  A behaviour is one of either, that of its   *)
(* first state: AutoFlush counts the requests that StreamQueue stores.     *)
(***************************************************************************)
EXTENDS StreamQueue

VARIABLES part, Timers, impl_, gen, enabling, task, queuer, queue, straddled

AutoSettings == {{"old"}, {"interval"}, {"period"}}

\* One thread queues, auto flush is enabled once, two flushes run.
Auto == INSTANCE AutoFlush
  WITH Queuers <- {"q1"}, Generations <- {1}, MaxTasks <- 2, Settings <- AutoSettings,
       num_events <- 1

autoVars == <<Timers, impl_, gen, enabling, task, queuer, queue, straddled>>

\* At most one of the two limits is set: they meet nowhere in the code.
OneLimit == None \in {maximum_requests, events_per_single_flush}

MCInit ==
  /\ part \in {"queue", "auto flush"}
  /\ Init /\ Auto!Init
  /\ part # "queue" => flush_settings_ = [maximum_requests |-> None,
                                          events_per_single_flush |-> None]
  /\ part # "auto flush" => Timers = {"old"}
  /\ OneLimit

MCNext ==
  /\ UNCHANGED part
  /\ \/ part = "queue" /\ Next /\ UNCHANGED autoVars
     \/ part = "auto flush" /\ Auto!Next /\ UNCHANGED vars

\* The fairness of either part.
MCFairness ==
  /\ \A r \in Requests : WF_vars(part = "queue" /\ QueueStep(r))
  /\ \A f \in Flushes : WF_vars(part = "queue" /\ FlushStep(f))
  /\ WF_autoVars(part = "auto flush" /\ Auto!ControllerStep)
  /\ \A t \in 1 .. 2 :
        WF_autoVars(part = "auto flush" /\ t \in DOMAIN task /\ Auto!TaskStep(t))

MCSpec == MCInit /\ [][MCNext]_<<part, vars, autoVars>> /\ MCFairness

-----------------------------------------------------------------------------
\* The properties of AutoFlush: as many timestamps as queued requests, and
\* the future of Disable is set.
TimestampsMatchQueue == Auto!TimestampsMatchQueue
FutureIsSet == Auto!FutureIsSet
=============================================================================
