---------------------------- MODULE OLPNetworkIOS ----------------------------
(***************************************************************************)
(* http::OLPNetworkIOS with OLPHttpClient and OLPHttpTask: the second      *)
(* generation of NetworkProtocolIos.  What is the same is taken from       *)
(* there.  The differences are that the URL is looked at before a task is  *)
(* made, that any number of threads sends, that the caller learns the      *)
(* identifier it may cancel from Send's result, and that only the          *)
(* destructor cleans up, when nobody uses the network any more.            *)
(***************************************************************************)
EXTENDS Naturals, Sequences, FiniteSets

CONSTANTS Requests, MaxRequestCount, Proxied, Cancellable

VARIABLES m_httpClient, tasks, task, idTaskMap, session, created, deinit, sending, asked,
          answers, mixed, terminated

P == INSTANCE NetworkProtocolIos

Init == P!Init

InSend(r) == sending[r] \in {"created", "filled", "run"}

\* The URL is empty.
SendUrlFails(r) ==
    /\ sending[r] = "new"
    /\ sending' = [sending EXCEPT ![r] = "refused"]
    /\ UNCHANGED <<tasks, task, idTaskMap, session, created, mixed, terminated>>
    /\ P!sendUnchanged

SendOverload(r) ==
    /\ sending[r] = "new"
    /\ ~P!Ready
    /\ sending' = [sending EXCEPT ![r] = "refused"]
    /\ UNCHANGED <<tasks, task, idTaskMap, session, created, mixed, terminated>>
    /\ P!sendUnchanged

createTaskWithProxy(r) ==
    /\ sending[r] = "new"
    /\ P!Ready
    /\ tasks' = tasks \cup {r}
    /\ sending' = [sending EXCEPT ![r] = "created"]
    /\ UNCHANGED <<task, idTaskMap, session, created, mixed, terminated>> /\ P!sendUnchanged

SendFills(r) == P!SendFills(r)

run(r) == P!SendRuns(r)

registerDataTask(r) == P!SendResumes(r)

Cancel(r) ==
    /\ sending[r] = "sent"
    /\ P!Cancel(r)

didReceiveChallenge(r) == P!didReceiveChallenge(r)

didReceiveResponse(r) == P!didReceiveResponse(r)

completionHandler(q, r, error) == P!completionHandler(q, r, error)

removeTaskWithId(r) == P!removed({r})

\* A task whose session is gone with cleanup is not told.
didCompleteWithError(r, error) ==
    /\ \/ session[r].state = "running" /\ error = "error"
       \/ session[r].state = "responded" /\ error \in {"none", "error"}
       \/ session[r].state = "cancelling" /\ error = "cancelled"
    /\ \/ P!didCompleteUnheard(r, error)
       \/ /\ m_httpClient \/ error = "cancelled"
          /\ \E q \in P!taskWithTaskIdentifier(session[r].id) :
                /\ completionHandler(q, r, error)
                /\ removeTaskWithId(q)
                /\ session' = [P!Cancelled({q}) EXCEPT ![r].state = "over"]
          /\ P!delegateUnchanged

Cleanup ==
    /\ \A r \in Requests : ~InSend(r)
    /\ P!Deinitialize

CleanupAnswers == P!DeinitializeAnswers

-----------------------------------------------------------------------------
SendStep(r) ==
    /\ m_httpClient
    /\ \/ SendUrlFails(r) \/ SendOverload(r) \/ createTaskWithProxy(r) \/ SendFills(r)
       \/ run(r) \/ registerDataTask(r)

DelegateStep(r) ==
    \/ didReceiveResponse(r)
    \/ didReceiveChallenge(r)
    \/ \E error \in {"none", "error", "cancelled"} : didCompleteWithError(r, error)

Next ==
    \/ \E r \in Requests : SendStep(r) \/ Cancel(r) \/ DelegateStep(r)
    \/ Cleanup \/ CleanupAnswers

-----------------------------------------------------------------------------
InFlight == P!InFlight

Unanswered(r) == P!Unanswered(r)

LooksCancelled(r) == P!LooksCancelled(r)
=============================================================================
