----------------------------- MODULE StreamQueue -----------------------------
(***************************************************************************)
(* The publish queue of write::StreamLayerClientImpl: Queue, QueueSize,    *)
(* PopFromQueue and Flush, on top of a DefaultCache.  The queue is a list  *)
(* of UUIDs that the cache holds under one key, and one request under each *)
(* UUID.  cache_mutex_ makes one QueueSize, one enqueueing and one pop     *)
(* exclusive; every call of the cache in between is a step of its own, an  *)
(* action of DefaultCache, so that the cache's evictions and a crash of    *)
(* the process come in wherever they can.                                  *)
(*                                                                         *)
(* A thread is a call of Queue, one for each request, or the thread that a *)
(* call of Flush detaches.  A flush that is cancelled queues the request   *)
(* in its hands again, and for that goes through the steps of Queue.       *)
(***************************************************************************)
EXTENDS Integers, Sequences

CONSTANTS
  Requests,                 \* the requests that are queued
  Flushes,                  \* the calls of Flush
  MaximumRequests,          \* the settings maximum_requests of a client
  EventsPerFlush,           \* its settings events_per_single_flush
  Crashes,                  \* bound: the number of times the process dies
  ListKey,                  \* GetUuidListKey()
  MaxMemory, HasDiskPath,   \* the settings of the cache
  Never, None

Threads == Requests \cup Flushes

\* What GenerateUuid returns: no thread stores more than one request, so the
\* request and the thread that stores it are a name that is never used again.
Uuids == Requests \X Threads

ASSUME StreamQueueConstants ==
  /\ Requests \cap Flushes = {} /\ None \notin Threads
  /\ MaximumRequests \subseteq Nat \cup {None}
  /\ EventsPerFlush \subseteq Int \cup {None}
  /\ ListKey \notin Uuids
  /\ Crashes \in Nat /\ Never \in Nat \ {0}
  /\ None \notin BOOLEAN
  /\ None \notin [content : Requests \cup Seq(Uuids), due : {Never}]

VARIABLES
  is_open_, memory_cache_, disk_cache_, disk_path, db, now,
  putSince, committed, torn,  \* DefaultCache
  flush_settings_,          \* maximum_requests and events_per_single_flush
  pc,                       \* by thread, what it does next
  mutex,                    \* the thread that holds cache_mutex_, or None
  uuid_list,                \* by thread, its local uuid_list
  request,                  \* by thread, publish_data_request
  counter,                  \* by flush, its local counter
  cancelled,                \* the flushes whose token was cancelled
  accepted,                 \* the requests whose Queue returned boost::none
  answered,                 \* the requests that a FlushResponse reports on
  dropped,                  \* the requests that died in the hands of a flush,
                            \* or were refused when it queued them again
  crashes

cacheVars == <<is_open_, memory_cache_, disk_cache_, disk_path, db, now,
               putSince, committed, torn>>
processVars == <<flush_settings_, dropped, crashes>>
queueVars == <<processVars, pc, mutex, uuid_list, request, counter, cancelled,
               accepted, answered>>
vars == <<cacheVars, queueVars>>

\* The bound on the memory is a number of items.
Bytes(item) == 1

Cache == INSTANCE DefaultCache WITH
  Keys <- Uuids \cup {ListKey}, Contents <- {}, Lifetimes <- {Never},
  KeyPrefixes <- {}, DiskFails <- FALSE, MaxTime <- 0, SizeOf <- Bytes

Init ==
  /\ Cache!Init
  /\ flush_settings_ \in [maximum_requests : MaximumRequests,
                          events_per_single_flush : EventsPerFlush]
  /\ pc = [t \in Threads |-> "idle"]
  /\ mutex = None
  /\ uuid_list = [t \in Threads |-> <<>>]
  /\ request = [t \in Threads |-> IF t \in Requests THEN t ELSE None]
  /\ counter = [f \in Flushes |-> 0]
  /\ cancelled = {}
  /\ accepted = {} /\ answered = {} /\ dropped = {}
  /\ crashes = 0

maximum_requests == flush_settings_.maximum_requests
events_per_single_flush == flush_settings_.events_per_single_flush

\* The list that the cache returns now; an empty boost::any is an empty list.
List == IF Cache!Returned(ListKey) = None THEN <<>>
        ELSE Cache!Returned(ListKey).content

Goto(t, label) == pc' = [pc EXCEPT ![t] = label]

MutexFree == mutex = None

NoCacheCall == UNCHANGED cacheVars

\* CreateDefaultCache, with a disk path that can be opened.
OpenCache ==
  /\ ~is_open_
  /\ Cache!Open
  /\ disk_path' = disk_path
  /\ UNCHANGED queueVars

-----------------------------------------------------------------------------
\* Queue.  A thread is at "queue" before the check of the maximum.

CallQueue(r) ==
  /\ is_open_ /\ pc[r] = "idle"
  /\ Goto(r, "queue")
  /\ NoCacheCall
  /\ UNCHANGED <<processVars, mutex, uuid_list, request, counter, cancelled,
                 accepted, answered>>

\* What Queue does when it returns an error: its caller is told, a flush
\* ignores it and ends.
CheckMaximum(t) ==
  /\ pc[t] = "queue"
  /\ \/ /\ maximum_requests = None
        /\ Goto(t, "put")
        /\ NoCacheCall
     \/ /\ maximum_requests # None /\ MutexFree
        /\ Cache!Get(ListKey)
        /\ Goto(t, IF Len(List) < maximum_requests THEN "put"
                   ELSE IF t \in Requests THEN "refused" ELSE "callback")
  /\ UNCHANGED <<processVars, mutex, uuid_list, request, counter, cancelled,
                 accepted, answered>>

Uuid(t) == <<request[t], t>>

\* The lock is taken and the request stored; the result of Put is ignored.
PutRequest(t) ==
  /\ pc[t] = "put" /\ MutexFree
  /\ mutex' = t
  /\ Cache!Put(Uuid(t), request[t], Never)
  /\ Goto(t, "list")
  /\ UNCHANGED <<processVars, uuid_list, request, counter, cancelled,
                 accepted, answered>>

ReadList(t) ==
  /\ pc[t] = "list"
  /\ Cache!Get(ListKey)
  /\ uuid_list' = [uuid_list EXCEPT ![t] = List]
  /\ Goto(t, "append")
  /\ UNCHANGED <<processVars, mutex, request, counter, cancelled,
                 accepted, answered>>

\* The list is stored with the new UUID at its end, and the lock released.
AppendToList(t) ==
  /\ pc[t] = "append"
  /\ Cache!Put(ListKey, Append(uuid_list[t], Uuid(t)), Never)
  /\ mutex' = None
  /\ uuid_list' = [uuid_list EXCEPT ![t] = <<>>]
  /\ IF t \in Requests
       THEN /\ Goto(t, "done")
            /\ accepted' = accepted \cup {t}
            /\ UNCHANGED request
       ELSE /\ Goto(t, "callback")
            /\ request' = [request EXCEPT ![t] = None]
            /\ UNCHANGED accepted
  /\ UNCHANGED <<processVars, counter, cancelled, answered>>

-----------------------------------------------------------------------------
\* Flush and PopFromQueue.

CallFlush(f) ==
  /\ is_open_ /\ pc[f] = "idle"
  /\ Goto(f, IF events_per_single_flush \in Int /\ events_per_single_flush <= 0
             THEN "callback" ELSE "loop")
  /\ NoCacheCall
  /\ UNCHANGED <<processVars, mutex, uuid_list, request, counter, cancelled,
                 accepted, answered>>

\* Mutant of CheckQueue: events_per_single_flush is not looked at.
CheckQueueIgnoresLimit(f) ==
  /\ pc[f] = "loop" /\ MutexFree
  /\ Cache!Get(ListKey)
  /\ Goto(f, IF List # <<>> THEN "pop" ELSE "callback")
  /\ UNCHANGED <<processVars, mutex, uuid_list, request, counter, cancelled,
                 accepted, answered>>

\* The condition of the loop.
CheckQueue(f) ==
  /\ pc[f] = "loop"
  /\ \/ /\ counter[f] = events_per_single_flush
        /\ Goto(f, "callback")
        /\ NoCacheCall
     \/ /\ counter[f] # events_per_single_flush /\ MutexFree
        /\ Cache!Get(ListKey)
        /\ Goto(f, IF List # <<>> THEN "pop" ELSE "callback")
  /\ UNCHANGED <<processVars, mutex, uuid_list, request, counter, cancelled,
                 accepted, answered>>

\* PopFromQueue takes the lock and reads the list; another flush may have
\* emptied it since CheckQueue.
PopList(f) ==
  /\ pc[f] = "pop" /\ MutexFree
  /\ Cache!Get(ListKey)
  /\ IF List = <<>>
       THEN Goto(f, "loop") /\ UNCHANGED <<mutex, uuid_list>>
       ELSE /\ Goto(f, "read")
            /\ mutex' = f
            /\ uuid_list' = [uuid_list EXCEPT ![f] = List]
  /\ UNCHANGED <<processVars, request, counter, cancelled, accepted,
                 answered>>

PopData(f) ==
  LET uuid == Head(uuid_list[f]) IN
  /\ pc[f] = "read"
  /\ Cache!Get(uuid)
  /\ request' = [request EXCEPT ![f] =
                   IF Cache!Returned(uuid) = None THEN None
                   ELSE Cache!Returned(uuid).content]
  /\ Goto(f, "remove")
  /\ UNCHANGED <<processVars, mutex, uuid_list, counter, cancelled,
                 accepted, answered>>

PopRemove(f) ==
  /\ pc[f] = "remove"
  /\ Cache!Remove(Head(uuid_list[f]))
  /\ Goto(f, "store")
  /\ UNCHANGED <<processVars, mutex, uuid_list, request, counter, cancelled,
                 accepted, answered>>

\* Mutant of PopStore: the head stays in the list.
PopStoreKeepsHead(f) ==
  /\ pc[f] = "store"
  /\ Cache!Put(ListKey, uuid_list[f], Never)
  /\ mutex' = None
  /\ uuid_list' = [uuid_list EXCEPT ![f] = <<>>]
  /\ Goto(f, IF request[f] = None THEN "loop" ELSE "publish")
  /\ UNCHANGED <<processVars, request, counter, cancelled, accepted,
                 answered>>

\* The list is stored without its head and the lock released; without a
\* request the loop continues.
PopStore(f) ==
  /\ pc[f] = "store"
  /\ Cache!Put(ListKey, Tail(uuid_list[f]), Never)
  /\ mutex' = None
  /\ uuid_list' = [uuid_list EXCEPT ![f] = <<>>]
  /\ Goto(f, IF request[f] = None THEN "loop" ELSE "publish")
  /\ UNCHANGED <<processVars, request, counter, cancelled, accepted,
                 answered>>

\* ExecuteOrCancelled: PublishData is called and, some time, calls back with a
\* response, whether it published or failed or was cancelled; a context that
\* is cancelled already skips it.
Publish(f) ==
  /\ pc[f] = "publish"
  /\ Goto(f, IF f \in cancelled THEN "check" ELSE "publishing")
  /\ NoCacheCall
  /\ UNCHANGED <<processVars, mutex, uuid_list, request, counter, cancelled,
                 accepted, answered>>

PublishAnswers(f) ==
  /\ pc[f] = "publishing"
  /\ answered' = answered \cup {request[f]}
  /\ Goto(f, "check")
  /\ NoCacheCall
  /\ UNCHANGED <<processVars, mutex, uuid_list, request, counter, cancelled,
                 accepted>>

\* Mutant of CheckCancelled: the request is not queued again.
CheckCancelledDrops(f) ==
  /\ pc[f] = "check"
  /\ Goto(f, IF f \in cancelled THEN "callback" ELSE "loop")
  /\ counter' = [counter EXCEPT ![f] = @ + 1]
  /\ request' = [request EXCEPT ![f] = None]
  /\ NoCacheCall
  /\ UNCHANGED <<processVars, mutex, uuid_list, cancelled, accepted,
                 answered>>

\* IsCancelled after the barrier: the request is queued again, whatever became
\* of it, or the loop goes on.
CheckCancelled(f) ==
  /\ pc[f] = "check"
  /\ IF f \in cancelled
       THEN /\ Goto(f, "queue")
            /\ UNCHANGED <<counter, request>>
       ELSE /\ Goto(f, "loop")
            /\ counter' = [counter EXCEPT ![f] = @ + 1]
            /\ request' = [request EXCEPT ![f] = None]
  /\ NoCacheCall
  /\ UNCHANGED <<processVars, mutex, uuid_list, cancelled, accepted,
                 answered>>

\* The end of a flush; a request that Queue has refused goes with it.
Callback(f) ==
  /\ pc[f] = "callback"
  /\ Goto(f, "done")
  /\ request' = [request EXCEPT ![f] = None]
  /\ dropped' = dropped \cup ({request[f]} \ {None})
  /\ NoCacheCall
  /\ UNCHANGED <<flush_settings_, crashes, mutex, uuid_list, counter, cancelled,
                 accepted, answered>>

-----------------------------------------------------------------------------
\* The token that Flush returned.
CancelFlush(f) ==
  /\ pc[f] \notin {"idle", "done"} /\ f \notin cancelled
  /\ cancelled' = cancelled \cup {f}
  /\ NoCacheCall
  /\ UNCHANGED <<processVars, pc, mutex, uuid_list, request, counter,
                 accepted, answered>>

\* The process dies with its threads; calls that were not made yet are made
\* by the next one.
Crash ==
  /\ crashes < Crashes
  /\ crashes' = crashes + 1
  /\ Cache!Crash
  /\ pc' = [t \in Threads |-> IF pc[t] = "idle" THEN "idle" ELSE "done"]
  /\ mutex' = None
  /\ uuid_list' = [t \in Threads |-> <<>>]
  /\ request' = [t \in Threads |-> IF t \in Requests THEN t ELSE None]
  /\ cancelled' = {}
  /\ dropped' = dropped \cup ({request[f] : f \in Flushes} \ {None})
  /\ UNCHANGED <<flush_settings_, counter, accepted, answered>>

QueueStep(t) ==
  CheckMaximum(t) \/ PutRequest(t) \/ ReadList(t) \/ AppendToList(t)

FlushStep(f) ==
  \/ QueueStep(f)
  \/ CheckQueue(f) \/ PopList(f) \/ PopData(f) \/ PopRemove(f) \/ PopStore(f)
  \/ Publish(f) \/ PublishAnswers(f) \/ CheckCancelled(f) \/ Callback(f)

\* Every call was made and has returned.
Finished ==
  /\ \A t \in Threads : pc[t] \in {"done", "refused"}
  /\ UNCHANGED vars

Next ==
  \/ OpenCache \/ Crash \/ Finished
  \/ \E r \in Requests : CallQueue(r) \/ QueueStep(r)
  \/ \E f \in Flushes : CallFlush(f) \/ FlushStep(f) \/ CancelFlush(f)

\* A thread that can go on does so, PublishData calls back.
Spec ==
  /\ Init /\ [][Next]_vars
  /\ \A r \in Requests : WF_vars(QueueStep(r))
  /\ \A f \in Flushes : WF_vars(FlushStep(f))

-----------------------------------------------------------------------------
Labels == {"idle", "queue", "put", "list", "append", "done", "refused",
           "loop", "pop", "read", "remove", "store", "publish", "publishing",
           "check", "callback"}

\* The locals of the threads; the lock is held exactly between the first and
\* the last call of the cache in an enqueueing or a pop.
TypeOK ==
  /\ pc \in [Threads -> Labels]
  /\ request \in [Threads -> Requests \cup {None}]
  /\ counter \in [Flushes -> Nat]
  /\ uuid_list \in [Threads -> Seq(Uuids)]
  /\ \A t \in Threads :
       mutex = t <=> pc[t] \in {"list", "append", "read", "remove", "store"}

Listed(r) == \E i \in 1 .. Len(List) :
               List[i][1] = r /\ Cache!Returned(List[i]) # None

InHand(r) == \E t \in Threads :
               /\ request[t] = r
               /\ \/ t \in Flushes
                  \/ pc[t] \in {"list", "append"}

\* A request that Queue has accepted is in the queue, or a flush has it in its
\* hands (or had, when the process died or when the queue was full as it queued
\* the request again), or a FlushResponse reports on it: no interleaving of
\* callers and flushes, no cancelled flush, no crash and no eviction loses one.
AcceptedIsKept ==
  is_open_ => \A r \in accepted :
                Listed(r) \/ InHand(r) \/ r \in answered \cup dropped

\* While nobody holds the lock, every UUID of the list is there once, and
\* without a crash in the middle of a pop it has its request in the cache, so
\* a pop never comes back empty-handed.
ListIsSound ==
  is_open_ /\ MutexFree =>
    /\ \A i, j \in 1 .. Len(List) : List[i] = List[j] => i = j
    /\ crashes = 0 => \A i \in 1 .. Len(List) : Cache!Returned(List[i]) # None

\* A flush publishes no more than events_per_single_flush requests.
FlushIsLimited ==
  events_per_single_flush # None =>
    \A f \in Flushes : counter[f] = 0 \/ counter[f] <= events_per_single_flush

\* The queue is sound: its lock and its list are, and no flush goes past its
\* limit.
QueueIsSound == TypeOK /\ ListIsSound /\ FlushIsLimited

\* Every flush calls back, cancelled or not: the loop over the queue ends
\* although others keep queueing, and so does the one that finds the queue
\* emptied under its hands.
EveryFlushReturns ==
  \A f \in Flushes : (pc[f] = "loop") ~> (pc[f] = "done")

=============================================================================
