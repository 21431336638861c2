--------------------------- MODULE NetworkWinHttp ---------------------------
(***************************************************************************)
(* http::NetworkWinHttp: the second generation of NetworkProtocolWinHttp.  *)
(* What is the same is taken from there.  The differences are that the     *)
(* constructor starts the thread, which takes a reference to the network,  *)
(* and that a connection which fails leaves an entry that is not null.     *)
(*                                                                         *)
(* The thread keeps its reference while the session is open, and only the  *)
(* destructor closes the session.  So the destructor never runs: there is  *)
(* no action for it, and m_session and deinit stay as they are.            *)
(***************************************************************************)
EXTENDS Naturals, Sequences, FiniteSets

CONSTANTS Requests, NoRequest, Chunks, Cancellable

VARIABLES
    client,     \* "unique", then "shared": who owns the network
    m_session, m_connections, m_requests, m_request, m_results, result, http, thread, deinit,
    sending, asked, answers, terminated

P == INSTANCE NetworkProtocolWinHttp

Init ==
    /\ client = "unique"
    /\ P!Init

\* The owner of what CreateDefaultNetwork returned makes it a shared pointer.
Share ==
    /\ client = "unique"
    /\ client' = "shared"
    /\ UNCHANGED <<m_session, m_connections, m_requests, m_request, m_results, result, http,
                   thread, deinit, sending, asked, answers, terminated>>

\* shared_from_this throws in a thread that runs before that.
RunTooEarly ==
    /\ client = "unique"
    /\ terminated' = TRUE
    /\ UNCHANGED <<client, m_session, m_connections, m_requests, m_request, m_results, result,
                   http, thread, deinit, sending, asked, answers>>

-----------------------------------------------------------------------------
Same == UNCHANGED client

\* The URL cannot be read, or its scheme is neither of the two.
SendRefused(r) == P!SendRefused(r) /\ Same

SendConnectFails(r) ==
    /\ m_connections = "none"
    /\ P!SendConnectFails(r)
    /\ Same

\* An entry counts as a connection, even one that failed.
SendRegisters(r) ==
    /\ P!MaySend(r)
    /\ m_connections' \in IF m_connections = "none" THEN {"open"} ELSE {m_connections}
    /\ m_requests' = m_requests \cup {r}
    /\ sending' = [sending EXCEPT ![r] = "registered"]
    /\ UNCHANGED <<m_request, http>> /\ P!sendUnchanged /\ Same

\* WinHTTP does not open the request, as on a connection that failed, or send it.
SendFails(r) == P!SendFails(r) /\ Same

SendRequests(r) ==
    /\ m_connections # "null"
    /\ P!SendRequests(r)
    /\ Same

SendStores(r) == P!SendStores(r) /\ Same

\* The caller knows the identifier from what Send has returned.
Cancel(r) ==
    /\ sending[r] = "sent"
    /\ P!Cancel(r)
    /\ Same

-----------------------------------------------------------------------------
RequestError(r) == P!RequestError(r)

SendRequestComplete(r) == P!SendRequestComplete(r)

HeadersAvailable(r) == P!HeadersAvailable(r)

HeadersOfClosed(r) == P!HeadersOfClosed(r)

QueryDataAvailable(r) == P!QueryDataAvailable(r)

DataAvailable(r) == P!DataAvailable(r)

DataHasNoMemory(r) == P!DataHasNoMemory(r)

DataEnds(r) == P!DataEnds(r)

ReadComplete(r) == P!ReadComplete(r)

UncompressionFails(r) == P!UncompressionFails(r)

FreeHandle(r) == P!freeHandle(r)

-----------------------------------------------------------------------------
CompletionTakes == P!ThreadTakes

CompletionAnswers == P!ThreadAnswers

CompletionDrops == P!ThreadDrops

CompletionReturns == P!ThreadReturns

\* A connection that failed has no time of its last use, and may go or stay.
CompletionSweeps ==
    /\ thread.pc = "loop"
    /\ m_connections # "none"
    /\ m_connections' = "none"
    /\ UNCHANGED <<m_results, result, thread, answers, terminated>> /\ P!threadUnchanged

-----------------------------------------------------------------------------
SendStep(r) ==
    /\ client = "shared"
    /\ \/ SendRefused(r) \/ SendConnectFails(r) \/ SendRegisters(r) \/ SendFails(r)
       \/ SendRequests(r) \/ SendStores(r)

HttpStep(r) ==
    /\ \/ \E status \in P!Statuses : P!OperationEnds(r, status)
       \/ P!OperationCancelled(r)
       \/ RequestError(r) \/ SendRequestComplete(r) \/ HeadersAvailable(r)
       \/ HeadersOfClosed(r) \/ QueryDataAvailable(r) \/ DataAvailable(r)
       \/ DataHasNoMemory(r) \/ DataEnds(r) \/ ReadComplete(r) \/ UncompressionFails(r)
       \/ FreeHandle(r)
    /\ Same

CompletionStep ==
    /\ client = "shared"
    /\ CompletionTakes \/ CompletionAnswers \/ CompletionDrops \/ CompletionReturns
    /\ Same

Next ==
    /\ ~terminated
    /\ \/ Share \/ RunTooEarly
       \/ \E r \in Requests : SendStep(r) \/ Cancel(r) \/ HttpStep(r)
       \/ CompletionStep
       \/ client = "shared" /\ CompletionSweeps /\ Same

-----------------------------------------------------------------------------
InFlight == P!InFlight

Unanswered(r) == P!Unanswered(r)
=============================================================================
