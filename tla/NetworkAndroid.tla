--------------------------- MODULE NetworkAndroid ---------------------------
(***************************************************************************)
(* http::NetworkAndroid and HttpClient, the second generation of           *)
(* NetworkProtocolAndroid: the same maps, threads and native callbacks     *)
(* under other names, and so the same steps, with these differences.       *)
(*                                                                         *)
(* There is no decorator: any thread may send, and two threads may both    *)
(* find room for the last request.  RequestData leaves its count unset.    *)
(* Cancel returns nothing.  Initialize is private and nothing in the       *)
(* source calls it; the module takes it as called.  From then on           *)
(* GetAllNetworks() holds the network, so its destructor, and with it      *)
(* Deinitialize, never runs.                                               *)
(***************************************************************************)
EXTENDS Naturals, Sequences, FiniteSets

CONSTANTS Requests, Quota, MaxRetries, Chunks, Cancellable

VARIABLES vm, client, m_started, m_requests, m_cancelledRequests, m_results,
          looper, task, deinit, sending, asked, answers

P == INSTANCE NetworkProtocolAndroid

Init == P!Init

SetJavaVM == P!setJavaVm
InitializeFails == P!InitializeFails
Initialize == P!Initialize
Run == P!Run

-----------------------------------------------------------------------------
SendOverload(r) ==
    /\ sending[r] = "new"
    /\ client = "ready"
    /\ ~P!Ready
    /\ sending' = [sending EXCEPT ![r] = "refused"]
    /\ UNCHANGED <<m_requests, task>> /\ P!sendUnchanged

SendChecked(r) ==
    /\ sending[r] = "new"
    /\ client = "ready"
    /\ P!Ready
    /\ sending' = [sending EXCEPT ![r] = "checked"]
    /\ UNCHANGED <<m_requests, task>> /\ P!sendUnchanged

SendArgumentFails(r) ==
    /\ sending[r] = "checked"
    /\ sending' = [sending EXCEPT ![r] = "refused"]
    /\ UNCHANGED <<m_requests, task>> /\ P!sendUnchanged

CreateExtraHeadersFails(r) == SendArgumentFails(r)

\* What an unset count may hold, 0 included.
Unset == {0, 9}

\* GenerateNextRequestId gives the request an id that no other has.
SendInserts(r) ==
    /\ sending[r] = "checked"
    /\ \E count \in Unset :
           m_requests' = P!With(m_requests, r, [P!RequestData EXCEPT !.m_count = count])
    /\ sending' = [sending EXCEPT ![r] = "inserted"]
    /\ UNCHANGED task /\ P!sendUnchanged

SendCalls(r) == P!SendCalls(r)
SendCallFails(r) == P!SendCallFails(r)
SendStores(r) == P!SendStores(r)

DoCancel(rs) == P!doCancel(rs)
\* The caller knows the identifier from what Send has returned.
Cancel(r) ==
    /\ sending[r] = "sent"
    /\ P!Cancel(r)

-----------------------------------------------------------------------------
\* HttpTask.doInBackground, and the native callbacks.
GetNetworkById == P!getProtocolForClient
ResetRequest(r) == P!resetRequest(r)
DateAndOffsetCallback(r, offset) == P!dateAndOffsetCallback(r, offset)
DataReceived(r) == P!dataReceived(r)

TaskRetries(r) == P!TaskRetries(r)
TaskStartsAnew(r) == P!TaskStartsAnew(r)
TaskThrows(r) == P!TaskThrows(r)
TaskStatus(r, status) == P!TaskStatus(r, status)
CheckCancelled(r) == P!checkCancelled(r)
TaskHeaders(r, offset) == P!TaskHeaders(r, offset)
TaskReads(r) == P!TaskReads(r)
TaskEnds(r) == P!TaskEnds(r)

CompleteRequest(r) == P!completeRequest(r)
PushResponse(r) == P!pushResult(r)

SelfRunTakes == P!LooperTakes
SelfRunAnswers == P!LooperAnswers
SelfRunReturns == P!LooperReturns

-----------------------------------------------------------------------------
StartStep == SetJavaVM \/ InitializeFails \/ Initialize \/ Run

SendStep(r) ==
    \/ SendOverload(r) \/ SendChecked(r) \/ SendArgumentFails(r) \/ CreateExtraHeadersFails(r)
    \/ SendInserts(r) \/ SendCalls(r) \/ SendCallFails(r) \/ SendStores(r)

TaskStep(r) ==
    \/ TaskRetries(r) \/ TaskStartsAnew(r) \/ TaskThrows(r)
    \/ \E status \in {"ok", "partial"} : TaskStatus(r, status)
    \/ CheckCancelled(r)
    \/ \E offset \in {0, 1} : TaskHeaders(r, offset)
    \/ TaskReads(r) \/ TaskEnds(r) \/ CompleteRequest(r) \/ PushResponse(r)

SelfRunStep == SelfRunTakes \/ SelfRunAnswers \/ SelfRunReturns

Next ==
    \/ StartStep
    \/ \E r \in Requests : SendStep(r) \/ Cancel(r) \/ TaskStep(r)
    \/ SelfRunStep

InFlight == P!InFlight
=============================================================================
