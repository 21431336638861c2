------------------------- MODULE NetworkProtocolIos -------------------------
(***************************************************************************)
(* network::NetworkProtocolIosImpl with HttpClient and HttpTask: a request *)
(* is an HttpTask around a data task of an NSURLSession.  The delegate of  *)
(* the sessions finds the HttpTask by the data task's identifier.          *)
(*                                                                         *)
(* NSURLSession is external: it numbers its data tasks from one, so that   *)
(* an identifier is unique within a session only; it reports the response, *)
(* the data and the end of a task that was resumed, and the end of one     *)
(* that was cancelled; it throws when a task is made after it was          *)
(* invalidated.  A request with a proxy has a session of its own.  A step  *)
(* is a section under a lock or what a thread does between two of them.    *)
(***************************************************************************)
EXTENDS Naturals, Sequences, FiniteSets, TLC
LOCAL INSTANCE SequencesExt
LOCAL INSTANCE Functions

CONSTANTS
    Requests,
    MaxRequestCount,
    Proxied,     \* the requests with a proxy of their own
    Cancellable  \* bounds the requests that are cancelled

VARIABLES
    m_httpClient, \* whether there is one; its cleanup ends it
    tasks,        \* the requests that have an HttpTask in _tasks
    task,         \* the HttpTask of each request
    idTaskMap,    \* identifiers of data tasks to requests
    session,      \* the data task of each request, external
    created,      \* how many data tasks the shared session has made, external
    deinit,       \* the thread in Deinitialize
    sending,      \* where the thread of each request is in Send
    asked,        \* history: the requests that Cancel was called for
    answers,      \* history: what the callback of each request was given
    mixed,        \* history: the requests that shared an identifier
    terminated    \* the process has ended

NewTask == [context |-> FALSE, callback |-> TRUE, completion |-> FALSE, handlers |-> FALSE,
            dataTask |-> 0, status |-> "none"]

Init ==
    /\ m_httpClient = TRUE
    /\ tasks = {}
    /\ task = [r \in Requests |-> NewTask]
    /\ idTaskMap = <<>>
    /\ session = [r \in Requests |-> [state |-> "none", id |-> 0, trusted |-> TRUE]]
    /\ created = 0
    /\ deinit = [pc |-> "no", messages |-> <<>>]
    /\ sending = [r \in Requests |-> "new"]
    /\ asked = {}
    /\ answers = [r \in Requests |-> <<>>]
    /\ mixed = {}
    /\ terminated = FALSE

-----------------------------------------------------------------------------
(***************************************************************************)
(* Send.                                                                   *)
(***************************************************************************)
sendUnchanged == UNCHANGED <<m_httpClient, deinit, asked, answers>>

InSend(r) == sending[r] \in {"created", "filled", "run"}

\* The decorator's thread is the only one to send.
MaySend(r) ==
    /\ sending[r] = "new"
    /\ \A q \in Requests : ~InSend(q)

\* Mutant of Ready: the client is not looked at.
ReadyRegardless == Cardinality(tasks) < MaxRequestCount

Ready == m_httpClient /\ Cardinality(tasks) < MaxRequestCount

SendNotReady(r) ==
    /\ MaySend(r)
    /\ ~Ready
    /\ sending' = [sending EXCEPT ![r] = "refused"]
    /\ UNCHANGED <<tasks, task, idTaskMap, session, created, mixed, terminated>> /\ sendUnchanged

createTaskWithId(r) ==
    /\ MaySend(r)
    /\ Ready
    /\ tasks' = tasks \cup {r}
    /\ sending' = [sending EXCEPT ![r] = "created"]
    /\ UNCHANGED <<task, idTaskMap, session, created, mixed, terminated>> /\ sendUnchanged

\* An interface or a CA certificate is asked for.  The task stays.
SendOptionFails(r) ==
    /\ sending[r] = "created"
    /\ sending' = [sending EXCEPT ![r] = "refused"]
    /\ UNCHANGED <<tasks, task, idTaskMap, session, created, mixed, terminated>> /\ sendUnchanged

SendFills(r) ==
    /\ sending[r] = "created"
    /\ task' = [task EXCEPT ![r].context = TRUE]
    /\ sending' = [sending EXCEPT ![r] = "filled"]
    /\ UNCHANGED <<tasks, idTaskMap, session, created, mixed, terminated>> /\ sendUnchanged

\* The URL is empty.  The task stays, and has the callback.
SendUrlFails(r) ==
    /\ sending[r] = "filled"
    /\ sending' = [sending EXCEPT ![r] = "refused"]
    /\ UNCHANGED <<tasks, task, idTaskMap, session, created, mixed, terminated>> /\ sendUnchanged

taskWithTaskIdentifier(id) == {idTaskMap[i] : i \in DOMAIN idTaskMap \cap {id}}

SendRuns(r) ==
    LET id == IF r \in Proxied THEN 1 ELSE created + 1
        others == {q \in Requests : task[q].dataTask = id} IN
    /\ sending[r] = "filled"
    /\ m_httpClient
    /\ task' = [task EXCEPT ![r].completion = TRUE, ![r].handlers = TRUE, ![r].dataTask = id]
    /\ created' = IF r \in Proxied THEN created ELSE created + 1
    /\ session' = [session EXCEPT ![r] = [state |-> "suspended", id |-> id, trusted |-> TRUE]]
    /\ mixed' = IF others = {} THEN mixed ELSE mixed \cup others \cup {r}
    /\ sending' = [sending EXCEPT ![r] = "run"]
    /\ UNCHANGED <<tasks, idTaskMap, terminated>> /\ sendUnchanged

\* The session was invalidated in between.
SendRunThrows(r) ==
    /\ sending[r] = "filled"
    /\ ~m_httpClient
    /\ terminated' = TRUE
    /\ UNCHANGED <<tasks, task, idTaskMap, session, created, mixed, sending>> /\ sendUnchanged

SendResumes(r) ==
    /\ sending[r] = "run"
    /\ idTaskMap' = (task[r].dataTask :> r) @@ idTaskMap
    /\ session' = [session EXCEPT ![r].state = IF @ = "suspended" THEN "running" ELSE @]
    /\ sending' = [sending EXCEPT ![r] = "sent"]
    /\ UNCHANGED <<tasks, task, created, mixed, terminated>> /\ sendUnchanged

-----------------------------------------------------------------------------
Live == {"suspended", "running", "responded"}

\* [dataTask cancel], for those of the requests that have one.
Cancelled(rs) ==
    [r \in Requests |-> IF r \in rs /\ task[r].dataTask # 0 /\ session[r].state \in Live
                        THEN [session[r] EXCEPT !.state = "cancelling"] ELSE session[r]]

\* Nothing is cancelled before there is a data task; Cancel returns true.
Cancel(r) ==
    /\ r \in Cancellable \ asked
    /\ sending[r] \notin {"new", "refused"}
    /\ m_httpClient
    /\ asked' = asked \cup {r}
    /\ task' = IF r \in tasks THEN [task EXCEPT ![r].handlers = FALSE] ELSE task
    /\ session' = Cancelled({r} \cap tasks)
    /\ UNCHANGED <<m_httpClient, tasks, idTaskMap, created, deinit, sending, answers, mixed,
                   terminated>>

-----------------------------------------------------------------------------
(***************************************************************************)
(* The delegate of the sessions.                                           *)
(***************************************************************************)
delegateUnchanged == UNCHANGED <<m_httpClient, created, deinit, sending, asked, mixed, terminated>>

\* The server is not trusted: NSURLSession ends the task as a cancelled one.
didReceiveChallenge(r) ==
    /\ session[r].state = "running"
    /\ m_httpClient
    /\ taskWithTaskIdentifier(session[r].id) # {}
    /\ session' = [session EXCEPT ![r].state = "cancelling", ![r].trusted = FALSE]
    /\ UNCHANGED <<tasks, task, idTaskMap, answers>> /\ delegateUnchanged

\* processResponseHeaders sets the status of the task that was found.
didReceiveResponse(r) ==
    /\ session[r].state = "running"
    /\ session' = [session EXCEPT ![r].state = "responded"]
    /\ task' = [q \in Requests |->
                   IF m_httpClient /\ q \in taskWithTaskIdentifier(session[r].id)
                      /\ task[q].handlers
                   THEN [task[q] EXCEPT !.status = "ok"] ELSE task[q]]
    /\ UNCHANGED <<tasks, idTaskMap, answers>> /\ delegateUnchanged

\* removeTaskWithId and resetTask, for those of the requests found.
removed(rs) ==
    /\ idTaskMap' = Restrict(idTaskMap, DOMAIN idTaskMap \ {task[q].dataTask : q \in rs \cap tasks})
    /\ tasks' = tasks \ rs

\* The HttpTask q is told the end of the data task of r.
completionHandler(q, r, error) ==
    /\ answers' = IF task[q].completion /\ task[q].callback
                  THEN [answers EXCEPT ![q] = Append(@,
                           [status |-> IF error = "none" THEN task[q].status ELSE error, of |-> r])]
                  ELSE answers
    /\ task' = [task EXCEPT ![q].callback = @ /\ ~task[q].completion,
                            ![q].completion = FALSE, ![q].dataTask = 0]

\* The end is reported, but nobody is told: cleanup was called, or the
\* identifier is not in the map.
didCompleteUnheard(r, error) ==
    /\ \/ ~m_httpClient /\ error # "cancelled"
       \/ taskWithTaskIdentifier(session[r].id) = {}
    /\ session' = [session EXCEPT ![r].state = "over"]
    /\ UNCHANGED <<tasks, task, idTaskMap, answers>> /\ delegateUnchanged

didCompleteHeard(r, error) ==
    /\ m_httpClient \/ error = "cancelled"
    /\ \E q \in taskWithTaskIdentifier(session[r].id) :
          /\ completionHandler(q, r, error)
          /\ removed({q})
          /\ session' = [Cancelled({q}) EXCEPT ![r].state = "over"]
    /\ delegateUnchanged

didCompleteWithError(r, error) ==
    /\ \/ session[r].state = "running" /\ error = "error"
       \/ session[r].state = "responded" /\ error \in {"none", "error"}
       \/ session[r].state = "cancelling" /\ error = "cancelled"
    /\ didCompleteUnheard(r, error) \/ didCompleteHeard(r, error)

-----------------------------------------------------------------------------
(***************************************************************************)
(* Deinitialize: it takes the callbacks of the tasks that are left.        *)
(***************************************************************************)
deinitUnchanged == UNCHANGED <<tasks, idTaskMap, session, created, sending, asked, mixed>>

\* Each task has its callback taken under the mutex of its context.
Deinitialize ==
    LET left == {r \in tasks : task[r].callback} IN
    /\ m_httpClient
    /\ \A r \in tasks : task[r].context
    /\ task' = [r \in Requests |-> [task[r] EXCEPT !.callback = @ /\ r \notin left]]
    /\ m_httpClient' = FALSE
    /\ deinit' = [pc |-> "answer", messages |-> SetToSeq(left)]
    /\ UNCHANGED <<answers, terminated>> /\ deinitUnchanged

\* A task that was refused before it had a context has no mutex.
DeinitializeCrashes ==
    /\ m_httpClient
    /\ \E r \in tasks : ~task[r].context
    /\ terminated' = TRUE
    /\ UNCHANGED <<m_httpClient, task, deinit, answers>> /\ deinitUnchanged

DeinitializeAnswers ==
    LET r == Head(deinit.messages) IN
    /\ deinit.messages # <<>>
    /\ answers' = [answers EXCEPT ![r] = Append(@, [status |-> "offline", of |-> r])]
    /\ deinit' = [deinit EXCEPT !.messages = Tail(@)]
    /\ UNCHANGED <<m_httpClient, task, terminated>> /\ deinitUnchanged

-----------------------------------------------------------------------------
SendStep(r) ==
    \/ SendNotReady(r) \/ createTaskWithId(r) \/ SendOptionFails(r) \/ SendFills(r)
    \/ SendUrlFails(r) \/ SendRuns(r) \/ SendRunThrows(r) \/ SendResumes(r)

DelegateStep(r) ==
    \/ didReceiveResponse(r)
    \/ didReceiveChallenge(r)
    \/ \E error \in {"none", "error", "cancelled"} : didCompleteWithError(r, error)

Next ==
    /\ ~terminated
    /\ \/ \E r \in Requests : SendStep(r) \/ Cancel(r) \/ DelegateStep(r)
       \/ Deinitialize \/ DeinitializeCrashes \/ DeinitializeAnswers

-----------------------------------------------------------------------------
InFlight ==
    {r \in Requests : InSend(r) \/ sending[r] = "sent"}
       \cap {r \in Requests : task[r].callback \/ r \in ToSet(deinit.messages)}

\* Nobody answers one of two requests whose data tasks have the same identifier,
\* nor one that was cancelled before its data task was in the map.
Unanswered(r) ==
    \/ r \in mixed
    \/ r \in asked /\ session[r].state = "over"

\* Answered as cancelled although nobody asked for it.
LooksCancelled(r) == r \in mixed \/ ~session[r].trusted
=============================================================================
