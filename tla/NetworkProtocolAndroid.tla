----------------------- MODULE NetworkProtocolAndroid -----------------------
(***************************************************************************)
(* network::NetworkProtocolAndroid with its Java half, NetworkProtocol: a  *)
(* request is an AsyncTask on Java's executor, which calls back into       *)
(* m_requests; completeRequest hands the result to the thread of selfRun,  *)
(* which calls the user.                                                   *)
(*                                                                         *)
(* A step is a section under m_requestMutex or m_resultMutex, or what a    *)
(* thread does between two of them.  HttpURLConnection is external: it     *)
(* answers, or throws, as it likes.  Of the data of a response only how    *)
(* many chunks of it came is kept.  The executor has more threads than the *)
(* instances have requests, so it never keeps a task waiting.              *)
(***************************************************************************)
EXTENDS Naturals, Sequences, FiniteSets
LOCAL INSTANCE SequencesExt

CONSTANTS
    Requests,
    Quota,       \* the 32 of Send and Ready
    MaxRetries,  \* config->GetRetries() of each request
    Chunks,      \* bounds the chunks of the response to each request
    Cancellable  \* bounds the requests that are cancelled

VARIABLES
    vm,          \* what setJavaVm has set: "none", "partly", "all"
    client,      \* m_id among getProtocols(): "none", "failed", "starting", ...
    m_started,
    m_requests,  \* a function on the requests the map holds
    m_cancelledRequests,
    m_results,
    looper,      \* the thread of selfRun
    task,        \* the GetTask of each request
    deinit,      \* the thread in Deinitialize
    sending,     \* where the thread of each request is in Send
    asked,       \* history: the requests that Cancel returned true for
    answers      \* history: what the callback of each request was given

native == <<vm, client>>
queues == <<m_cancelledRequests, m_results, looper>>
vars == <<vm, client, m_started, m_requests, m_cancelledRequests, m_results,
          looper, task, deinit, sending, asked, answers>>

RequestData == [m_obj |-> FALSE, m_count |-> 0, m_offset |-> 0, m_completion |-> FALSE]

\* Of the count a result reports: whether it is that of the last attempt.
Result(r, status, exact) == [id |-> r, status |-> status, exact |-> exact]

NoResult == Result({}, "none", TRUE)

NoTask == [pc |-> "none", cancel |-> FALSE, retryCount |-> 0, status |-> "none",
           read |-> 0, result |-> NoResult]

Init ==
    /\ vm = "none"
    /\ client = "none"
    /\ m_started = FALSE
    /\ m_requests = <<>>
    /\ m_cancelledRequests = <<>>
    /\ m_results = <<>>
    /\ looper = [pc |-> "none", result |-> NoResult]
    /\ task = [r \in Requests |-> NoTask]
    /\ deinit = [pc |-> "no", own |-> FALSE, messages |-> <<>>]
    /\ sending = [r \in Requests |-> "new"]
    /\ asked = {}
    /\ answers = [r \in Requests |-> <<>>]

Held == DOMAIN m_requests
Without(f, r) == [q \in DOMAIN f \ {r} |-> f[q]]
With(f, r, data) == [q \in DOMAIN f \cup {r} |-> IF q = r THEN data ELSE f[q]]

-----------------------------------------------------------------------------
(***************************************************************************)
(* setJavaVm runs once: where it fails, it leaves what it had got so far,  *)
(* and a later call returns at once.  Initialize then fails.               *)
(***************************************************************************)
setJavaVm ==
    /\ vm = "none"
    /\ vm' \in {"partly", "all"}
    /\ UNCHANGED <<client, m_started, m_requests, queues, task, deinit, sending,
                   asked, answers>>

InitializeFails ==
    /\ client = "none"
    /\ client' = "failed"
    /\ UNCHANGED <<vm, m_started, m_requests, queues, task, deinit, sending, asked, answers>>

Initialize ==
    /\ client = "none"
    /\ vm = "all"
    /\ client' = "starting"
    /\ looper' = [looper EXCEPT !.pc = "start"]
    /\ UNCHANGED <<vm, m_started, m_requests, m_cancelledRequests, m_results, task, deinit,
                   sending, asked, answers>>

\* The thread has begun, and Initialize, which waits for that, returns.
Run ==
    /\ looper.pc = "start"
    /\ m_started' = TRUE
    /\ client' = "ready"
    /\ looper' = [looper EXCEPT !.pc = "idle"]
    /\ UNCHANGED <<vm, m_requests, m_cancelledRequests, m_results, task, deinit, sending,
                   asked, answers>>

-----------------------------------------------------------------------------
(***************************************************************************)
(* Send.  The size of the map is read without the lock; every error on the *)
(* way to Java is returned, and the request forgotten.                     *)
(***************************************************************************)
sendUnchanged ==
    UNCHANGED <<native, m_started, queues, deinit, asked, answers>>

InSend(r) == sending[r] \in {"inserted", "called"}

\* The thread of NetworkRequestPriorityQueueDecorator is the only one to send.
MaySend(r) ==
    /\ sending[r] = "new"
    /\ client = "ready"
    /\ \A q \in Requests : ~InSend(q)

Ready == Cardinality(Held) < Quota

SendNotReady(r) ==
    /\ MaySend(r)
    /\ ~Ready
    /\ sending' = [sending EXCEPT ![r] = "refused"]
    /\ UNCHANGED <<m_requests, task>> /\ sendUnchanged

\* An interface or a CA certificate is asked for, or Java has no memory left
\* for the URL, the body, the proxy or the path of the certificates.
SendArgumentFails(r) ==
    /\ MaySend(r)
    /\ Ready
    /\ sending' = [sending EXCEPT ![r] = "refused"]
    /\ UNCHANGED <<m_requests, task>> /\ sendUnchanged

\* ... or for the headers.
createExtraHeadersFails(r) == SendArgumentFails(r)

SendInserts(r) ==
    /\ MaySend(r)
    /\ Ready
    /\ m_requests' = With(m_requests, r, RequestData)
    /\ sending' = [sending EXCEPT ![r] = "inserted"]
    /\ UNCHANGED task /\ sendUnchanged

\* Deinitialize deletes the Java object without a look at who is in Send.
Shutdown == deinit.pc \in {"answer", "done"}

SendCalls(r) ==
    /\ sending[r] = "inserted"
    /\ ~Shutdown
    /\ task' = [task EXCEPT ![r].pc = "connect"]
    /\ sending' = [sending EXCEPT ![r] = "called"]
    /\ UNCHANGED m_requests /\ sendUnchanged

\* The executor does not take the task.
SendCallFails(r) ==
    /\ sending[r] = "inserted"
    /\ ~Shutdown
    /\ m_requests' = Without(m_requests, r)
    /\ sending' = [sending EXCEPT ![r] = "refused"]
    /\ UNCHANGED task /\ sendUnchanged

\* A call through the deleted object ends the process.
SendCallsNothing(r) ==
    /\ sending[r] = "inserted"
    /\ Shutdown
    /\ sending' = [sending EXCEPT ![r] = "crashed"]
    /\ UNCHANGED <<m_requests, task>> /\ sendUnchanged

\* m_obj is stored without the lock, when the task may be anywhere.
SendStores(r) ==
    /\ sending[r] = "called"
    /\ m_requests' = IF r \in Held THEN [m_requests EXCEPT ![r].m_obj = TRUE] ELSE m_requests
    /\ sending' = [sending EXCEPT ![r] = "sent"]
    /\ UNCHANGED task /\ sendUnchanged

\* cancelTask, in those of the tasks whose object is known.
doCancel(rs) ==
    [r \in Requests |->
        IF r \in rs /\ m_requests[r].m_obj THEN [task[r] EXCEPT !.cancel = TRUE] ELSE task[r]]

Cancel(r) ==
    /\ r \in (Held \cap Cancellable) \ asked
    /\ task' = doCancel({r})
    /\ m_requests' = [m_requests EXCEPT ![r].m_obj = FALSE]
    /\ m_cancelledRequests' = Append(m_cancelledRequests, r)
    /\ asked' = asked \cup {r}
    /\ UNCHANGED <<native, m_started, m_results, looper, deinit, sending, answers>>

-----------------------------------------------------------------------------
(***************************************************************************)
(* GetTask.doInBackground, and the native callbacks it calls.              *)
(***************************************************************************)
getProtocolForClient == client = "ready"

Found(r) == getProtocolForClient /\ m_started /\ r \in Held

taskUnchanged == UNCHANGED <<native, m_started, deinit, sending, asked, answers>>

\* Mutant of resetRequest: the count of the attempt before is kept.
resetRequestKeepsCount(r) ==
    m_requests' = IF Found(r) THEN [m_requests EXCEPT ![r].m_obj = FALSE] ELSE m_requests

resetRequest(r) ==
    m_requests' = IF Found(r) THEN [m_requests EXCEPT ![r] =
                                        [RequestData EXCEPT !.m_completion = m_requests[r].m_completion]]
                  ELSE m_requests

MayRetry(r) == task[r].retryCount < MaxRetries[r]

\* A status below 200 or from 500 on: once more, though nobody is told.
TaskRetries(r) ==
    /\ task[r].pc = "connect"
    /\ MayRetry(r)
    /\ task' = [task EXCEPT ![r].retryCount = @ + 1, ![r].read = 0]
    /\ UNCHANGED <<m_requests, queues>> /\ taskUnchanged

\* A timeout or an unknown host, while it connects or while it reads.
TaskStartsAnew(r) ==
    /\ task[r].pc \in {"connect", "input"}
    /\ MayRetry(r)
    /\ resetRequest(r)
    /\ task' = [task EXCEPT ![r].pc = "connect", ![r].retryCount = @ + 1, ![r].read = 0]
    /\ UNCHANGED queues /\ taskUnchanged

\* Any other exception, or the same with no retry left.
TaskThrows(r) ==
    /\ task[r].pc \in {"connect", "input"}
    /\ task' = [task EXCEPT ![r].pc = "complete", ![r].status = "error"]
    /\ UNCHANGED <<m_requests, queues>> /\ taskUnchanged

\* 206 is "partial"; "ok" is any other, one with no retry left included.
TaskStatus(r, status) ==
    /\ task[r].pc = "connect"
    /\ task' = [task EXCEPT ![r].pc = "headers", ![r].status = status]
    /\ UNCHANGED <<m_requests, queues>> /\ taskUnchanged

checkCancelled(r) ==
    /\ task[r].pc \in {"headers", "input"}
    /\ task[r].cancel
    /\ task' = [task EXCEPT ![r].pc = "complete", ![r].status = "cancelled"]
    /\ UNCHANGED <<m_requests, queues>> /\ taskUnchanged

\* m_resume is never true.
dateAndOffsetCallback(r, offset) ==
    m_requests' = IF Found(r) THEN [m_requests EXCEPT ![r].m_offset = offset] ELSE m_requests

\* The Content-Range says where the data begins; headersCallback only calls the user.
TaskHeaders(r, offset) ==
    /\ task[r].pc = "headers"
    /\ offset > 0 => task[r].status = "partial"
    /\ ~task[r].cancel
    /\ dateAndOffsetCallback(r, offset)
    /\ task' = [task EXCEPT ![r].pc = "input"]
    /\ UNCHANGED queues /\ taskUnchanged

dataReceived(r) ==
    m_requests' = IF Found(r) THEN [m_requests EXCEPT ![r].m_count = @ + 1] ELSE m_requests

TaskReads(r) ==
    /\ task[r].pc = "input"
    /\ ~task[r].cancel
    /\ task[r].read < Chunks[r]
    /\ dataReceived(r)
    /\ task' = [task EXCEPT ![r].read = @ + 1]
    /\ UNCHANGED queues /\ taskUnchanged

TaskEnds(r) ==
    /\ task[r].pc = "input"
    /\ ~task[r].cancel
    /\ task' = [task EXCEPT ![r].pc = "complete"]
    /\ UNCHANGED <<m_requests, queues>> /\ taskUnchanged

\* A request that Deinitialize has answered is only counted down.
completeRequestUnanswered(r) ==
    /\ task[r].pc = "complete"
    /\ ~getProtocolForClient \/ r \notin Held \/ m_requests[r].m_completion
    /\ m_requests' = IF getProtocolForClient THEN Without(m_requests, r) ELSE m_requests
    /\ task' = [task EXCEPT ![r] = [NoTask EXCEPT !.pc = "done"]]
    /\ UNCHANGED queues /\ taskUnchanged

\* The request leaves the map, and m_requestMutex is let go ...
completeRequest(r) ==
    /\ task[r].pc = "complete"
    /\ getProtocolForClient
    /\ r \in Held
    /\ ~m_requests[r].m_completion
    /\ m_requests' = Without(m_requests, r)
    /\ LET data == m_requests[r]
           status == task[r].status
       IN  task' = [task EXCEPT ![r] = [NoTask EXCEPT !.pc = "push", !.result =
               Result(r, IF status = "partial" /\ data.m_offset = 0 THEN "ok" ELSE status,
                      data.m_count = task[r].read)]]
    /\ UNCHANGED queues /\ taskUnchanged

\* ... before its result is among the results.
pushResult(r) ==
    /\ task[r].pc = "push"
    /\ m_results' = Append(m_results, task[r].result)
    /\ task' = [task EXCEPT ![r] = [NoTask EXCEPT !.pc = "done"]]
    /\ UNCHANGED <<m_requests, m_cancelledRequests, looper>> /\ taskUnchanged

-----------------------------------------------------------------------------
(***************************************************************************)
(* selfRun.                                                                *)
(***************************************************************************)
runUnchanged == UNCHANGED <<native, m_started, m_requests, task, deinit, sending, asked>>

LooperTakes ==
    /\ looper.pc = "idle"
    /\ m_started
    /\ m_results # <<>>
    /\ looper' = [pc |-> "answer", result |-> Head(m_results)]
    /\ m_results' = Tail(m_results)
    /\ UNCHANGED <<m_cancelledRequests, answers>> /\ runUnchanged

LooperAnswers ==
    LET r == looper.result.id
        cancelled == r \in ToSet(m_cancelledRequests)
    IN
    /\ looper.pc = "answer"
    /\ m_cancelledRequests' = IF cancelled THEN RemoveFirst(m_cancelledRequests, r)
                              ELSE m_cancelledRequests
    /\ answers' = [answers EXCEPT ![r] =
           Append(@, [status |-> IF cancelled THEN "cancelled" ELSE looper.result.status,
                      exact |-> looper.result.exact])]
    /\ looper' = [pc |-> "callback", result |-> NoResult]
    /\ UNCHANGED m_results /\ runUnchanged

\* The callback returns: not before the Deinitialize it has called.
LooperReturns ==
    /\ looper.pc = "callback"
    /\ deinit.own => deinit.pc = "done"
    /\ looper' = [looper EXCEPT !.pc = "idle"]
    /\ UNCHANGED <<m_cancelledRequests, m_results, answers>> /\ runUnchanged

LooperEnds ==
    /\ looper.pc = "idle"
    /\ ~m_started
    /\ looper' = [looper EXCEPT !.pc = "ended"]
    /\ UNCHANGED <<m_cancelledRequests, m_results, answers>> /\ runUnchanged

-----------------------------------------------------------------------------
(***************************************************************************)
(* Deinitialize joins the thread, unless it runs on it.                    *)
(***************************************************************************)
Deinitialize(own) ==
    /\ client = "ready"
    /\ m_started
    /\ own => looper.pc = "callback"
    /\ m_started' = FALSE
    /\ deinit' = [deinit EXCEPT !.pc = "join", !.own = own]
    /\ UNCHANGED <<native, m_requests, queues, task, sending, asked, answers>>

DeinitializeCollects ==
    /\ deinit.pc = "join"
    /\ deinit.own \/ looper.pc = "ended"
    /\ deinit' = [deinit EXCEPT !.pc = "answer",
           !.messages = SetToSeq(Held) \o [i \in DOMAIN m_results |-> m_results[i].id]]
    /\ m_requests' = [r \in Held |-> [m_requests[r] EXCEPT !.m_completion = TRUE]]
    /\ task' = doCancel(Held)
    /\ m_results' = <<>>
    /\ UNCHANGED <<native, m_started, m_cancelledRequests, looper, sending, asked, answers>>

DeinitializeAnswers ==
    /\ deinit.pc = "answer"
    /\ deinit.messages # <<>>
    /\ answers' = [answers EXCEPT ![Head(deinit.messages)] =
                      Append(@, [status |-> "offline", exact |-> TRUE])]
    /\ deinit' = [deinit EXCEPT !.messages = Tail(@)]
    /\ UNCHANGED <<native, m_started, m_requests, queues, task, sending, asked>>

\* The requests have ended, or two seconds are over.
DeinitializeEnds ==
    /\ deinit.pc = "answer"
    /\ deinit.messages = <<>>
    /\ deinit' = [deinit EXCEPT !.pc = "done"]
    /\ client' = "gone"
    /\ UNCHANGED <<vm, m_started, m_requests, queues, task, sending, asked, answers>>

-----------------------------------------------------------------------------
StartStep == setJavaVm \/ InitializeFails \/ Initialize \/ Run

SendStep(r) ==
    \/ SendNotReady(r) \/ SendArgumentFails(r) \/ createExtraHeadersFails(r)
    \/ SendInserts(r) \/ SendCalls(r) \/ SendCallFails(r) \/ SendCallsNothing(r)
    \/ SendStores(r)

TaskStep(r) ==
    \/ TaskRetries(r) \/ TaskStartsAnew(r)
    \/ TaskThrows(r)
    \/ \E status \in {"ok", "partial"} : TaskStatus(r, status)
    \/ checkCancelled(r)
    \/ \E offset \in {0, 1} : TaskHeaders(r, offset)
    \/ TaskReads(r) \/ TaskEnds(r)
    \/ completeRequestUnanswered(r) \/ completeRequest(r) \/ pushResult(r)

LooperStep == LooperTakes \/ LooperAnswers \/ LooperReturns \/ LooperEnds

DeinitializeStep == DeinitializeCollects \/ DeinitializeAnswers \/ DeinitializeEnds

Next ==
    \/ StartStep
    \/ \E r \in Requests : SendStep(r) \/ Cancel(r) \/ TaskStep(r)
    \/ LooperStep
    \/ \E own \in BOOLEAN : Deinitialize(own)
    \/ DeinitializeStep

-----------------------------------------------------------------------------
Pushing == {r \in Requests : task[r].pc = "push"}
Results == {m_results[i].id : i \in DOMAIN m_results}

InFlight ==
    IF Shutdown
    THEN ToSet(deinit.messages) \cup Pushing \cup Results
    ELSE Held \cup Pushing \cup Results
             \cup (IF looper.pc = "answer" THEN {looper.result.id} ELSE {})

\* A result handed over when Deinitialize had emptied the queue is never read.
Stranded(r) == Shutdown /\ r \in Results

(***************************************************************************)
(* The count an answer reports is that of the last attempt, however many   *)
(* the task has made and wherever they broke off (resetRequest).           *)
(***************************************************************************)
CountIsLastAttempt ==
    \A r \in Requests : \A i \in DOMAIN answers[r] : answers[r][i].exact
=============================================================================
