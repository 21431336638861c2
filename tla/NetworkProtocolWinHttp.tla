----------------------- MODULE NetworkProtocolWinHttp -----------------------
(***************************************************************************)
(* network::NetworkProtocolWinHttp: a request is an asynchronous WinHTTP   *)
(* request; requestCallback takes it from operation to operation and       *)
(* pushes its result, which completionThread hands to the user.            *)
(*                                                                         *)
(* WinHTTP is external: it has one operation of a request under way at a   *)
(* time and calls back when that is over.  A handle that is closed ends    *)
(* the operation under way, if there is one, with an error, and then       *)
(* reports HANDLE_CLOSING.  A call with a handle that is NULL does         *)
(* nothing, and nothing calls back.  A step is a section under m_mutex or  *)
(* what a thread does between two of them; the requests are for one        *)
(* server.                                                                 *)
(***************************************************************************)
EXTENDS Naturals, Sequences, FiniteSets
LOCAL INSTANCE SequencesExt

CONSTANTS
    Requests,
    NoRequest,
    Chunks,      \* bounds the data of each response
    Cancellable  \* bounds the requests that are cancelled

VARIABLES
    m_session,     \* whether the session is open
    m_connections, \* that of the server: "none", "null", "open"
    m_requests,
    m_request,     \* the requests whose handle is stored
    m_results,
    result,        \* the ResultData of each request
    http,          \* WinHTTP's side of each request
    thread,        \* completionThread
    deinit,        \* the thread in Deinitialize
    sending,       \* where the thread of each request is in Send
    asked,         \* history: the requests that Cancel returned true for
    answers,       \* history: what the callback of each request was given
    terminated     \* the process has ended

Operations == {"send", "receive", "query", "read"}

NoHttp == [op |-> "none", closed |-> FALSE, callback |-> "none", read |-> 0, early |-> FALSE]

\* Nobody reads the status when the callback was taken.
Answered == [m_callback |-> FALSE, m_status |-> "none"]

Init ==
    /\ m_session = TRUE
    /\ m_connections = "none"
    /\ m_requests = {}
    /\ m_request = {}
    /\ m_results = <<>>
    /\ result = [r \in Requests |-> [m_callback |-> TRUE, m_status |-> "none"]]
    /\ http = [r \in Requests |-> NoHttp]
    /\ thread = [pc |-> "loop", result |-> NoRequest]
    /\ deinit = [pc |-> "no", own |-> FALSE, pending |-> <<>>, overtaken |-> {}]
    /\ sending = [r \in Requests |-> "new"]
    /\ asked = {}
    /\ answers = [r \in Requests |-> <<>>]
    /\ terminated = FALSE

-----------------------------------------------------------------------------
(***************************************************************************)
(* Send.                                                                   *)
(***************************************************************************)
sendUnchanged ==
    UNCHANGED <<m_session, m_results, result, thread, deinit, asked, answers, terminated>>

InSend(r) == sending[r] \in {"registered", "requested"}

\* The decorator's thread is the only one to send, and not after Deinitialize.
MaySend(r) ==
    /\ sending[r] = "new"
    /\ deinit.pc = "no"
    /\ \A q \in Requests : ~InSend(q)

\* An interface or a CA certificate is asked for, or the URL cannot be read.
SendRefused(r) ==
    /\ MaySend(r)
    /\ sending' = [sending EXCEPT ![r] = "refused"]
    /\ UNCHANGED <<m_connections, m_requests, m_request, http>> /\ sendUnchanged

\* m_connections[server] has made an entry, and it stays without a connection.
SendConnectFails(r) ==
    /\ MaySend(r)
    /\ m_connections # "open"
    /\ m_connections' = "null"
    /\ sending' = [sending EXCEPT ![r] = "refused"]
    /\ UNCHANGED <<m_requests, m_request, http>> /\ sendUnchanged

SendRegisters(r) ==
    /\ MaySend(r)
    /\ m_connections' = "open"
    /\ m_requests' = m_requests \cup {r}
    /\ sending' = [sending EXCEPT ![r] = "registered"]
    /\ UNCHANGED <<m_request, http>> /\ sendUnchanged

\* The scheme is neither of the two, or WinHTTP does not open or send.
SendFails(r) ==
    /\ sending[r] = "registered"
    /\ m_requests' = m_requests \ {r}
    /\ sending' = [sending EXCEPT ![r] = "refused"]
    /\ UNCHANGED <<m_connections, m_request, http>> /\ sendUnchanged

SendRequests(r) ==
    /\ sending[r] = "registered"
    /\ m_session
    /\ http' = [http EXCEPT ![r].op = "send"]
    /\ sending' = [sending EXCEPT ![r] = "requested"]
    /\ UNCHANGED <<m_connections, m_requests, m_request>> /\ sendUnchanged

\* The handle is stored when WinHTTP may have called back already.
SendStores(r) ==
    /\ sending[r] = "requested"
    /\ m_request' = m_request \cup {r}
    /\ sending' = [sending EXCEPT ![r] = "sent"]
    /\ UNCHANGED <<m_connections, m_requests, http>> /\ sendUnchanged

\* WinHttpCloseHandle, for those of the requests whose handle is stored.
Close(rs) ==
    /\ http' = [r \in Requests |->
                   IF r \in rs \cap m_request THEN [http[r] EXCEPT !.closed = TRUE] ELSE http[r]]
    /\ m_request' = m_request \ rs

Cancel(r) ==
    /\ r \in (m_requests \cap Cancellable) \ asked
    /\ Close({r})
    /\ asked' = asked \cup {r}
    /\ UNCHANGED <<m_session, m_connections, m_requests, m_results, result, thread, deinit,
                   sending, answers, terminated>>

-----------------------------------------------------------------------------
(***************************************************************************)
(* WinHTTP.                                                                *)
(***************************************************************************)
httpUnchanged ==
    UNCHANGED <<m_session, m_connections, m_request, thread, deinit, sending, asked, answers,
                terminated>>

Outcomes(op, more) ==
    CASE op = "send" -> {"sendcomplete"}
      [] op = "receive" -> {"headers"}
      [] op = "query" -> {"end"} \cup (IF more THEN {"data"} ELSE {})
      [] op = "read" -> {"readcomplete"}

Calls(r, status) ==
    http' = [http EXCEPT ![r].op = "none", ![r].callback = status]

OperationEnds(r, status) ==
    /\ http[r].op \in Operations
    /\ http[r].callback = "none"
    /\ ~http[r].closed
    /\ status \in {"error"} \cup Outcomes(http[r].op, http[r].read < Chunks[r])
    /\ Calls(r, status)
    /\ UNCHANGED <<m_requests, m_results, result>> /\ httpUnchanged

OperationCancelled(r) ==
    /\ http[r].op \in Operations
    /\ http[r].callback = "none"
    /\ http[r].closed
    /\ Calls(r, "cancelled")
    /\ UNCHANGED <<m_requests, m_results, result>> /\ httpUnchanged

-----------------------------------------------------------------------------
(***************************************************************************)
(* requestCallback.                                                        *)
(***************************************************************************)
\* After complete there is no operation any more.
Returns(r) == http' = [http EXCEPT ![r].callback = "none", ![r].read = 0]

complete(r, status) ==
    /\ result' = [result EXCEPT ![r].m_status = IF result[r].m_callback THEN status ELSE @]
    /\ m_results' = Append(m_results, r)

\* The next operation, unless the handle is NULL.
Asks(r, op) ==
    http' = [http EXCEPT ![r] =
        IF r \in m_request THEN [@ EXCEPT !.callback = "none", !.op = op]
        ELSE [@ EXCEPT !.callback = "none", !.early = r \notin asked]]

\* Mutant of RequestError: the request is not completed.
RequestErrorForgets(r) ==
    /\ http[r].callback \in {"error", "cancelled"}
    /\ Returns(r)
    /\ UNCHANGED <<m_requests, m_results, result>> /\ httpUnchanged

\* REQUEST_ERROR
RequestError(r) ==
    /\ http[r].callback \in {"error", "cancelled"}
    /\ complete(r, http[r].callback)
    /\ Returns(r)
    /\ UNCHANGED m_requests /\ httpUnchanged

\* SENDREQUEST_COMPLETE: WinHttpReceiveResponse
SendRequestComplete(r) ==
    /\ http[r].callback = "sendcomplete"
    /\ Asks(r, "receive")
    /\ UNCHANGED <<m_requests, m_results, result>> /\ httpUnchanged

\* HEADERS_AVAILABLE: the headers are read if the handle is still there.
HeadersAvailable(r) ==
    /\ http[r].callback = "headers"
    /\ r \in m_request
    /\ result' = [result EXCEPT ![r].m_status = "status"]
    /\ http' = [http EXCEPT ![r].callback = "querydata"]
    /\ UNCHANGED <<m_requests, m_results>> /\ httpUnchanged

HeadersOfClosed(r) ==
    /\ http[r].callback = "headers"
    /\ r \notin m_request
    /\ complete(r, result[r].m_status)
    /\ Returns(r)
    /\ UNCHANGED m_requests /\ httpUnchanged

\* WinHttpQueryDataAvailable, after the lock was let go.
QueryDataAvailable(r) ==
    /\ http[r].callback = "querydata"
    /\ Asks(r, "query")
    /\ UNCHANGED <<m_requests, m_results, result>> /\ httpUnchanged

\* DATA_AVAILABLE: there is some, and memory for it: WinHttpReadData
DataAvailable(r) ==
    /\ http[r].callback = "data"
    /\ Asks(r, "read")
    /\ UNCHANGED <<m_requests, m_results, result>> /\ httpUnchanged

DataHasNoMemory(r) ==
    /\ http[r].callback = "data"
    /\ complete(r, "error")
    /\ Returns(r)
    /\ UNCHANGED m_requests /\ httpUnchanged

\* There is none left.
DataEnds(r) ==
    /\ http[r].callback = "end"
    /\ complete(r, "ok")
    /\ Returns(r)
    /\ UNCHANGED m_requests /\ httpUnchanged

\* READ_COMPLETE: the data is written, and more asked for.
ReadComplete(r) ==
    /\ http[r].callback = "readcomplete"
    /\ http' = [http EXCEPT ![r].callback = "querydata", ![r].read = @ + 1]
    /\ UNCHANGED <<m_requests, m_results, result>> /\ httpUnchanged

UncompressionFails(r) ==
    /\ http[r].callback = "readcomplete"
    /\ complete(r, "error")
    /\ Returns(r)
    /\ UNCHANGED m_requests /\ httpUnchanged

\* HANDLE_CLOSING: only now the request leaves the map.
freeHandle(r) ==
    /\ http[r].closed
    /\ http[r].op = "none"
    /\ http[r].callback = "none"
    /\ r \in m_requests
    /\ m_requests' = m_requests \ {r}
    /\ UNCHANGED <<http, m_results, result>> /\ httpUnchanged

-----------------------------------------------------------------------------
(***************************************************************************)
(* completionThread.                                                       *)
(***************************************************************************)
threadUnchanged ==
    UNCHANGED <<m_session, m_requests, m_request, http, deinit, sending, asked>>

ThreadTakes ==
    /\ thread.pc = "loop"
    /\ m_session
    /\ m_results # <<>>
    /\ thread' = [pc |-> "have", result |-> Head(m_results)]
    /\ m_results' = Tail(m_results)
    /\ UNCHANGED <<m_connections, result, answers, terminated>> /\ threadUnchanged

ThreadAnswers ==
    LET r == thread.result IN
    /\ thread.pc = "have"
    /\ m_session
    /\ result[r].m_callback
    /\ answers' = [answers EXCEPT ![r] = Append(@, [status |-> result[r].m_status])]
    /\ result' = [result EXCEPT ![r] = Answered]
    /\ thread' = [thread EXCEPT !.pc = "callback"]
    /\ UNCHANGED <<m_connections, m_results, terminated>> /\ threadUnchanged

\* The session was closed in between, or the request is answered already.
ThreadDrops ==
    /\ thread.pc = "have"
    /\ ~m_session \/ ~result[thread.result].m_callback
    /\ thread' = [pc |-> "loop", result |-> NoRequest]
    /\ UNCHANGED <<m_connections, m_results, result, answers, terminated>> /\ threadUnchanged

\* The callback returns: not before the Deinitialize it has called.
ThreadReturns ==
    /\ thread.pc = "callback"
    /\ deinit.own => deinit.pc = "done"
    /\ thread' = [pc |-> "loop", result |-> NoRequest]
    /\ UNCHANGED <<m_connections, m_results, result, answers, terminated>> /\ threadUnchanged

\* Connections of the last five minutes are kept; an entry without one is a
\* null pointer that is followed.
\* An open one matters to the requests to come only.
ThreadSweeps ==
    /\ thread.pc = "loop"
    /\ m_session
    /\ m_connections # "none"
    /\ m_connections = "null" \/ \E r \in Requests : sending[r] = "new"
    /\ m_connections' = "none"
    /\ terminated' = (m_connections = "null")
    /\ UNCHANGED <<m_results, result, thread, answers>> /\ threadUnchanged

ThreadEnds ==
    /\ thread.pc = "loop"
    /\ ~m_session
    /\ thread' = [thread EXCEPT !.pc = "ended"]
    /\ UNCHANGED <<m_connections, m_results, result, answers, terminated>> /\ threadUnchanged

-----------------------------------------------------------------------------
(***************************************************************************)
(* Deinitialize: the handles are closed, the session after them.           *)
(***************************************************************************)
Deinitialize(own) ==
    /\ deinit.pc = "no"
    /\ own => thread.pc = "callback"
    /\ Close(m_requests)
    /\ deinit' = [pc |-> "session", own |-> own, pending |-> SetToSeq(m_requests),
                  overtaken |-> {r \in Requests : InSend(r)}]
    /\ UNCHANGED <<m_session, m_connections, m_requests, m_results, result, thread, sending,
                   asked, answers, terminated>>

DeinitializeSession ==
    /\ deinit.pc = "session"
    /\ m_session' = FALSE
    /\ deinit' = [deinit EXCEPT !.pc = "join"]
    /\ UNCHANGED <<m_connections, m_requests, m_request, m_results, result, http, thread,
                   sending, asked, answers, terminated>>

DeinitializeCollects ==
    /\ deinit.pc = "join"
    /\ deinit.own \/ thread.pc = "ended"
    /\ m_connections' = "none"
    /\ deinit' = [deinit EXCEPT !.pc = "answer", !.pending = @ \o m_results]
    /\ m_results' = <<>>
    /\ UNCHANGED <<m_session, m_requests, m_request, result, http, thread, sending, asked,
                   answers, terminated>>

DeinitializeAnswers ==
    LET r == Head(deinit.pending) IN
    /\ deinit.pc = "answer"
    /\ deinit.pending # <<>>
    /\ answers' = IF result[r].m_callback
                  THEN [answers EXCEPT ![r] = Append(@, [status |-> "offline"])]
                  ELSE answers
    /\ result' = [result EXCEPT ![r] = Answered]
    /\ deinit' = [deinit EXCEPT !.pending = Tail(@)]
    /\ UNCHANGED <<m_session, m_connections, m_requests, m_request, m_results, http, thread,
                   sending, asked, terminated>>

DeinitializeEnds ==
    /\ deinit.pc = "answer"
    /\ deinit.pending = <<>>
    /\ deinit' = [deinit EXCEPT !.pc = "done"]
    /\ UNCHANGED <<m_session, m_connections, m_requests, m_request, m_results, result, http,
                   thread, sending, asked, answers, terminated>>

-----------------------------------------------------------------------------
SendStep(r) ==
    \/ SendRefused(r) \/ SendConnectFails(r) \/ SendRegisters(r) \/ SendFails(r)
    \/ SendRequests(r) \/ SendStores(r)

Statuses == {"error", "sendcomplete", "headers", "data", "end", "readcomplete"}

HttpStep(r) ==
    \/ \E status \in Statuses : OperationEnds(r, status)
    \/ OperationCancelled(r)
    \/ RequestError(r) \/ SendRequestComplete(r) \/ HeadersAvailable(r) \/ HeadersOfClosed(r)
    \/ QueryDataAvailable(r) \/ DataAvailable(r) \/ DataHasNoMemory(r) \/ DataEnds(r)
    \/ ReadComplete(r) \/ UncompressionFails(r) \/ freeHandle(r)

ThreadStep ==
    ThreadTakes \/ ThreadAnswers \/ ThreadDrops \/ ThreadReturns \/ ThreadEnds

DeinitializeStep ==
    \/ DeinitializeSession \/ DeinitializeCollects \/ DeinitializeAnswers
    \/ DeinitializeEnds

Next ==
    /\ ~terminated
    /\ \/ \E r \in Requests : SendStep(r) \/ Cancel(r) \/ HttpStep(r)
       \/ ThreadStep \/ ThreadSweeps
       \/ \E own \in BOOLEAN : Deinitialize(own)
       \/ DeinitializeStep

-----------------------------------------------------------------------------
InFlight ==
    {r \in Requests : InSend(r) \/ sending[r] = "sent"} \cap {r \in Requests : result[r].m_callback}

\* Nobody answers a request that was cancelled between two operations, nor one
\* whose first callback came before its handle was stored, nor one that was in
\* Send when Deinitialize took the others.
Unanswered(r) == r \in asked \/ http[r].early \/ r \in deinit.overtaken
=============================================================================
