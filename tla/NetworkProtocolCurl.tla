------------------------ MODULE NetworkProtocolCurl ------------------------
(***************************************************************************)
(* network::NetworkProtocolCurl: a NetworkProtocol with a fixed array of   *)
(* handles, a queue of events, and a worker thread that drives libcurl.    *)
(*                                                                         *)
(* mutex_ guards the handles and the events.  The worker holds it while it *)
(* is at "events" and at "read", and lets go of it around CompleteMessage; *)
(* everything else it does with it is one step.  libcurl is external: a    *)
(* handle that was added is a running transfer until curl_multi_perform    *)
(* ends it or it is removed.  The headers and the data of a response are   *)
(* left out.                                                               *)
(***************************************************************************)
EXTENDS Naturals, Sequences, FiniteSets
LOCAL INSTANCE SequencesExt

CONSTANTS
    Requests,
    NoRequest,
    Handles,      \* kTotalHandleCount
    MaxRetries,   \* the retries of the configuration
    OptionFails,  \* the requests with an option that libcurl may refuse
    Cancels       \* bounds how many requests are cancelled

ASSUME NetworkProtocolCurlConstants ==
    /\ NoRequest \notin Requests
    /\ Handles \in Nat
    /\ MaxRetries \in Nat
    /\ OptionFails \subseteq Requests
    /\ Cancels \in Nat

VARIABLES
    state_,
    handles_,
    events_,
    curl_,      \* the transfer of each handle
    worker,     \* where the worker is
    msgs,       \* the handles that could not be added, then those torn down
    message,    \* what CompleteMessage works on
    sending,    \* where the thread of each request is in Send
    asked,      \* history: the requests that Cancel returned true for
    answers     \* history: what the callback of each request was given

workerVars == <<worker, msgs, message>>
vars == <<state_, handles_, events_, curl_, worker, msgs, message, sending,
          asked, answers>>

HandleIds == 1 .. Handles

Absent == [of |-> NoRequest, result |-> "absent"]
Transfer(r, result) == [of |-> r, result |-> result]

\* "retryable": a status below 200 or from 500 on; "ok": any other.
Results == {"ok", "retryable", "error"}

Init ==
    /\ state_ = "Started"
    /\ handles_ = [h \in HandleIds |-> [in_use |-> FALSE, id |-> NoRequest,
                                        cancelled |-> FALSE, retry_count |-> 0]]
    /\ events_ = <<>>
    /\ curl_ = [h \in HandleIds |-> Absent]
    /\ worker = "events"
    /\ msgs = <<>>
    /\ message = [handle |-> 0, id |-> NoRequest, transfer |-> Absent,
                  back |-> "events"]
    /\ sending = [r \in Requests |-> [pc |-> "new", handle |-> 0]]
    /\ asked = {}
    /\ answers = [r \in Requests |-> <<>>]

IsStarted == state_ = "Started"
Unlocked == worker \notin {"events", "read"}

InUse(h) == handles_[h].in_use
\* Mutant of FreeHandles: a handle in use is taken.
FreeHandlesUnchecked == HandleIds

FreeHandles == {h \in HandleIds : ~InUse(h)}
Ready == IsStarted /\ FreeHandles # {}

AddEvent(type, h) == events_' = Append(events_, [type |-> type, handle |-> h])

Released(h) == [handles_ EXCEPT ![h].in_use = FALSE]

-----------------------------------------------------------------------------
(***************************************************************************)
(* Send: GetHandle takes the first free handle; the options are set        *)
(* without the lock; the state is checked once more, and the event added.  *)
(* In GetHandle and in Cancel the check of the state and the section that  *)
(* follows it are one step.                                                *)
(***************************************************************************)
InSend(r) == sending[r].pc \in {"taken", "checked"}

sendUnchanged == UNCHANGED <<state_, curl_, workerVars, asked>>

SendRefused(r) ==
    /\ sending[r].pc = "new"
    /\ ~Ready
    /\ IsStarted => Unlocked
    /\ sending' = [sending EXCEPT ![r].pc = "refused"]
    /\ UNCHANGED <<handles_, events_, answers>> /\ sendUnchanged

GetHandle(r) ==
    /\ sending[r].pc = "new"
    /\ Ready
    /\ Unlocked
    /\ LET h == CHOOSE h \in FreeHandles : \A g \in FreeHandles : h <= g IN
       /\ handles_' = [handles_ EXCEPT ![h] =
              [in_use |-> TRUE, id |-> r, cancelled |-> FALSE, retry_count |-> 0]]
       /\ sending' = [sending EXCEPT ![r] = [pc |-> "taken", handle |-> h]]
    /\ UNCHANGED <<events_, answers>> /\ sendUnchanged

\* The interface or the certificates are refused: an error without an event.
\* The decorator answers such a request itself.
SendOptionFails(r) ==
    /\ r \in OptionFails
    /\ sending[r].pc = "taken"
    /\ sending' = [sending EXCEPT ![r].pc = "failed"]
    /\ answers' = [answers EXCEPT ![r] = Append(@, Transfer(r, "error"))]
    /\ UNCHANGED <<handles_, events_>> /\ sendUnchanged

SendNotReady(r) ==
    /\ sending[r].pc = "taken"
    /\ ~IsStarted
    /\ sending' = [sending EXCEPT ![r].pc = "refused"]
    /\ UNCHANGED <<handles_, events_, answers>> /\ sendUnchanged

SendStillStarted(r) ==
    /\ sending[r].pc = "taken"
    /\ IsStarted
    /\ sending' = [sending EXCEPT ![r].pc = "checked"]
    /\ UNCHANGED <<handles_, events_, answers>> /\ sendUnchanged

Send(r) ==
    /\ sending[r].pc = "checked"
    /\ Unlocked
    /\ AddEvent("SendEvent", sending[r].handle)
    /\ sending' = [sending EXCEPT ![r].pc = "sent"]
    /\ UNCHANGED <<handles_, answers>> /\ sendUnchanged

(***************************************************************************)
(* Cancel, for a request whose Send has returned; once for each request.   *)
(***************************************************************************)
Cancel(r) ==
    /\ sending[r].pc = "sent"
    /\ r \notin asked
    /\ Cardinality(asked) < Cancels
    /\ IsStarted
    /\ Unlocked
    /\ \E h \in HandleIds :
           /\ InUse(h) /\ handles_[h].id = r
           /\ handles_' = [handles_ EXCEPT ![h].cancelled = TRUE]
           /\ AddEvent("CancelEvent", h)
    /\ asked' = asked \cup {r}
    /\ UNCHANGED <<state_, curl_, workerVars, sending, answers>>

Deinitialize ==
    /\ IsStarted
    /\ Unlocked
    /\ state_' = "Stopping"
    /\ UNCHANGED <<handles_, events_, curl_, workerVars, sending, asked, answers>>

-----------------------------------------------------------------------------
(***************************************************************************)
(* CompleteMessage, called from `back'.  A handle with a cancelled request *)
(* is released at once.  Otherwise the lock is let go, the result looked   *)
(* at, and the request sent again or answered.                             *)
(***************************************************************************)
Complete(h, transfer, back) ==
    /\ worker' = "complete"
    /\ message' = [handle |-> h, id |-> NoRequest, transfer |-> transfer,
                   back |-> back]

completeUnchanged == UNCHANGED <<state_, curl_, msgs, sending, asked>>

CompleteUnknown ==
    /\ worker = "complete"
    /\ ~InUse(message.handle)
    /\ worker' = message.back
    /\ UNCHANGED <<handles_, events_, message, answers>> /\ completeUnchanged

CompleteCancelled ==
    LET h == message.handle IN
    /\ worker = "complete"
    /\ InUse(h)
    /\ handles_[h].cancelled
    /\ handles_' = Released(h)
    /\ message' = [message EXCEPT !.id = handles_[h].id,
                                  !.transfer.result = "cancelled"]
    /\ worker' = "callback"
    /\ UNCHANGED <<events_, answers>> /\ completeUnchanged

CompleteResult ==
    LET h == message.handle IN
    /\ worker = "complete"
    /\ InUse(h)
    /\ ~handles_[h].cancelled
    /\ message' = [message EXCEPT !.id = handles_[h].id]
    /\ worker' = "decide"
    /\ UNCHANGED <<handles_, events_, answers>> /\ completeUnchanged

MayRetry ==
    LET handle == handles_[message.handle] IN
    /\ message.transfer.result = "retryable"
    /\ ~handle.cancelled
    /\ handle.retry_count < MaxRetries

DecideToRetry ==
    /\ worker = "decide"
    /\ MayRetry
    /\ handles_' = [handles_ EXCEPT ![message.handle].retry_count = @ + 1]
    /\ worker' = "retry"
    /\ UNCHANGED <<events_, message, answers>> /\ completeUnchanged

\* Mutant of Retry: the request is dropped.
RetryForgets ==
    /\ worker = "retry"
    /\ worker' = message.back
    /\ UNCHANGED <<handles_, events_, message, answers>> /\ completeUnchanged

Retry ==
    /\ worker = "retry"
    /\ AddEvent("SendEvent", message.handle)
    /\ worker' = message.back
    /\ UNCHANGED <<handles_, message, answers>> /\ completeUnchanged

DecideToAnswer ==
    /\ worker = "decide"
    /\ ~MayRetry
    /\ handles_' = Released(message.handle)
    /\ worker' = "callback"
    /\ UNCHANGED <<events_, message, answers>> /\ completeUnchanged

Callback ==
    /\ worker = "callback"
    /\ answers' = [answers EXCEPT ![message.id] = Append(@, message.transfer)]
    /\ worker' = message.back
    /\ UNCHANGED <<handles_, events_, message>> /\ completeUnchanged

-----------------------------------------------------------------------------
(***************************************************************************)
(* Run: the loop of the worker.  First the events.                         *)
(***************************************************************************)
runUnchanged == UNCHANGED <<state_, handles_, sending, asked, answers>>

Event(type) ==
    /\ worker = "events"
    /\ IsStarted
    /\ events_ # <<>>
    /\ Head(events_).type = type
    /\ events_' = Tail(events_)

EventHandle == Head(events_).handle

EventIgnored(type) ==
    /\ Event(type)
    /\ ~InUse(EventHandle)
    /\ UNCHANGED <<curl_, workerVars>> /\ runUnchanged

SendEvent ==
    /\ Event("SendEvent")
    /\ InUse(EventHandle)
    /\ curl_[EventHandle] = Absent
    /\ curl_' = [curl_ EXCEPT ![EventHandle] =
                     Transfer(handles_[EventHandle].id, "running")]
    /\ UNCHANGED workerVars /\ runUnchanged

\* curl_multi_add_handle fails: out of memory, or the handle is added already.
SendEventFails ==
    /\ Event("SendEvent")
    /\ InUse(EventHandle)
    /\ msgs' = Append(msgs, EventHandle)
    /\ UNCHANGED <<curl_, worker, message>> /\ runUnchanged

CancelEvent ==
    /\ Event("CancelEvent")
    /\ InUse(EventHandle)
    /\ curl_' = [curl_ EXCEPT ![EventHandle] = Absent]
    /\ Complete(EventHandle, Transfer(handles_[EventHandle].id, "timed out"),
                "events")
    /\ UNCHANGED msgs /\ runUnchanged

EventsDone ==
    /\ worker = "events"
    /\ IsStarted
    /\ events_ = <<>>
    /\ worker' = IF msgs = <<>> THEN "perform" ELSE "msgs"
    /\ UNCHANGED <<events_, curl_, msgs, message>> /\ runUnchanged

\* CompleteMessage with CURLE_COULDNT_CONNECT.
CompleteFailed ==
    /\ worker = "msgs"
    /\ msgs' = Tail(msgs)
    /\ Complete(Head(msgs), Transfer(handles_[Head(msgs)].id, "error"),
                IF Len(msgs) = 1 THEN "perform" ELSE "msgs")
    /\ UNCHANGED <<events_, curl_>> /\ runUnchanged

\* curl_multi_perform ends a transfer; CURLOPT_TIMEOUT bounds each.
Perform(h) ==
    /\ worker = "perform"
    /\ IsStarted
    /\ curl_[h].result = "running"
    /\ \E result \in Results : curl_' = [curl_ EXCEPT ![h].result = result]
    /\ UNCHANGED <<events_, workerVars>> /\ runUnchanged

PerformDone ==
    /\ worker = "perform"
    /\ worker' = "read"
    /\ UNCHANGED <<events_, curl_, msgs, message>> /\ runUnchanged

\* curl_multi_info_read
ReadMessage(h) ==
    /\ worker = "read"
    /\ IsStarted
    /\ curl_[h].result \in Results
    /\ curl_' = [curl_ EXCEPT ![h] = Absent]
    /\ Complete(h, curl_[h], "read")
    /\ UNCHANGED <<events_, msgs>> /\ runUnchanged

\* Back to the events, after a completed message, or to the lost handles.
ReadDone ==
    /\ worker = "read"
    /\ IsStarted => \A h \in HandleIds : curl_[h].result \notin Results
    /\ worker' \in {"events", "wait"}
    /\ UNCHANGED <<events_, curl_, msgs, message>> /\ runUnchanged

(***************************************************************************)
(* The lost handles: in use for kHandleLostTimeout, 30 seconds, and not    *)
(* connected.  A call of Send, and the wait of its event, is shorter.      *)
(***************************************************************************)
Lost(h) ==
    /\ worker = "wait"
    /\ IsStarted
    /\ InUse(h)
    /\ curl_[h].result \in {"absent", "running"}
    /\ \A r \in Requests : ~(InSend(r) /\ sending[r].handle = h)
    /\ \A i \in DOMAIN events_ : events_[i] # [type |-> "SendEvent", handle |-> h]

LostHandle(h) ==
    /\ Lost(h)
    /\ curl_' = [curl_ EXCEPT ![h] = Absent]
    /\ Complete(h, Transfer(handles_[h].id, "lost"), "wait")
    /\ UNCHANGED <<events_, msgs>> /\ runUnchanged

\* Some versions of libcurl do not remove a handle that was not added.  The
\* callback is called before the handle is released.
LostHandleError(h) ==
    /\ Lost(h)
    /\ curl_[h] = Absent
    /\ answers' = [answers EXCEPT ![handles_[h].id] =
                       Append(@, Transfer(handles_[h].id, "lost"))]
    /\ message' = [message EXCEPT !.handle = h]
    /\ worker' = "release"
    /\ UNCHANGED <<state_, handles_, events_, curl_, msgs, sending, asked>>

ReleaseLost ==
    /\ worker = "release"
    /\ handles_' = Released(message.handle)
    /\ worker' = "wait"
    /\ UNCHANGED <<state_, events_, curl_, msgs, message, sending, asked, answers>>

Waited ==
    /\ worker = "wait"
    /\ worker' = "events"
    /\ UNCHANGED <<events_, curl_, msgs, message>> /\ runUnchanged

(***************************************************************************)
(* Teardown: the requests in use are collected, then answered "Offline".   *)
(***************************************************************************)
\* Mutant of Teardown: the requests in use are not collected.
TeardownForgets ==
    /\ worker = "events"
    /\ ~IsStarted
    /\ events_' = <<>>
    /\ curl_' = [h \in HandleIds |-> Absent]
    /\ msgs' = <<>>
    /\ worker' = "teardown"
    /\ UNCHANGED message /\ runUnchanged

Teardown ==
    /\ worker = "events"
    /\ ~IsStarted
    /\ events_' = <<>>
    /\ curl_' = [h \in HandleIds |-> Absent]
    /\ msgs' = SelectSeq([h \in HandleIds |-> h], InUse)
    /\ worker' = "teardown"
    /\ UNCHANGED message /\ runUnchanged

TeardownAnswers ==
    LET r == handles_[Head(msgs)].id IN
    /\ worker = "teardown"
    /\ msgs # <<>>
    /\ answers' = [answers EXCEPT ![r] = Append(@, Transfer(r, "offline"))]
    /\ msgs' = Tail(msgs)
    /\ UNCHANGED <<state_, handles_, events_, curl_, worker, message, sending, asked>>

ThreadExit ==
    /\ worker = "teardown"
    /\ msgs = <<>>
    /\ state_' = "Stopped"
    /\ worker' = "stopped"
    /\ UNCHANGED <<handles_, events_, curl_, msgs, message, sending, asked, answers>>

Stopped ==
    /\ worker = "stopped"
    /\ \A r \in Requests : sending[r].pc # "new" /\ ~InSend(r)
    /\ UNCHANGED vars

-----------------------------------------------------------------------------
SendStep(r) ==
    \/ SendRefused(r) \/ GetHandle(r) \/ SendOptionFails(r) \/ SendNotReady(r)
    \/ SendStillStarted(r) \/ Send(r)

CompleteStep ==
    \/ CompleteUnknown \/ CompleteCancelled \/ CompleteResult
    \/ DecideToRetry \/ Retry \/ DecideToAnswer \/ Callback

RunStep ==
    \/ \E type \in {"SendEvent", "CancelEvent"} : EventIgnored(type)
    \/ SendEvent \/ SendEventFails \/ CancelEvent \/ EventsDone
    \/ CompleteFailed \/ PerformDone
    \/ \E h \in HandleIds : ReadMessage(h)
    \/ ReadDone \/ ReleaseLost \/ Waited

LostStep(h) == LostHandle(h) \/ LostHandleError(h)

TeardownStep == Teardown \/ TeardownAnswers \/ ThreadExit

Next ==
    \/ \E r \in Requests : SendStep(r) \/ Cancel(r)
    \/ \E h \in HandleIds : Perform(h) \/ LostStep(h)
    \/ CompleteStep \/ RunStep \/ Deinitialize \/ TeardownStep \/ Stopped

\* The worker runs, a Send that has a handle goes on, and libcurl ends every
\* transfer, by its timeouts at the latest.  Nothing makes the worker look for
\* lost handles: it does so only while libcurl has no timer.
Fairness ==
    /\ WF_vars(CompleteStep \/ RunStep \/ TeardownStep)
    /\ \A r \in Requests : SF_vars(InSend(r) /\ SendStep(r))
    /\ \A h \in HandleIds : SF_vars(Perform(h))

Spec == Init /\ [][Next]_vars /\ Fairness

-----------------------------------------------------------------------------
(***************************************************************************)
(* The type invariant.                                                     *)
(***************************************************************************)
Transfers ==
    {Absent} \cup
        {Transfer(r, result) : r \in Requests,
            result \in Results \cup {"running", "timed out", "lost", "offline",
                                    "cancelled"}}

Workers ==
    {"events", "msgs", "perform", "read", "wait", "release", "complete",
     "decide", "retry", "callback", "teardown", "stopped"}

TypeOK ==
    /\ state_ \in {"Started", "Stopping", "Stopped"}
    /\ handles_ \in [HandleIds -> [in_use : BOOLEAN, cancelled : BOOLEAN,
                                   id : Requests \cup {NoRequest},
                                   retry_count : 0 .. MaxRetries]]
    /\ events_ \in Seq([type : {"SendEvent", "CancelEvent"}, handle : HandleIds])
    /\ curl_ \in [HandleIds -> Transfers]
    /\ worker \in Workers
    /\ msgs \in Seq(HandleIds)
    /\ message \in [handle : {0} \cup HandleIds, id : Requests \cup {NoRequest},
                    transfer : Transfers,
                    back : {"events", "msgs", "perform", "read", "wait"}]
    /\ sending \in [Requests ->
                       [pc : {"new", "taken", "checked", "sent", "refused",
                              "failed"},
                        handle : {0} \cup HandleIds]]
    /\ asked \subseteq Requests
    /\ answers \in [Requests -> Seq(Transfers)]

(***************************************************************************)
(* One callback for a request, however retries, cancellations, lost        *)
(* handles and Deinitialize overlap; a request whose option is refused is  *)
(* left out, as its handle stays in use and is answered once more.         *)
(***************************************************************************)
AtMostOneAnswer ==
    \A r \in Requests \ OptionFails : Len(answers[r]) <= 1

(***************************************************************************)
(* No handle is forgotten: while the worker runs, whoever has to finish a  *)
(* handle that is in use can be named: a Send, an event, libcurl or        *)
(* CompleteMessage.                                                        *)
(***************************************************************************)
HasWork(h) ==
    \/ \E r \in Requests : InSend(r) /\ sending[r].handle = h
    \/ \E i \in DOMAIN events_ : events_[i] = [type |-> "SendEvent", handle |-> h]
    \/ curl_[h] # Absent
    \/ h \in ToSet(msgs)
    \/ message.handle = h /\ worker \in {"complete", "decide", "retry", "release"}

NoHandleForgotten ==
    \A h \in HandleIds :
        IsStarted /\ InUse(h) => HasWork(h) \/ handles_[h].id \in OptionFails

(***************************************************************************)
(* As long as nobody cancels, every response is the request's own, though  *)
(* handles are reused; and no request is timed out by a CancelEvent.       *)
(***************************************************************************)
OwnAnswer(r) ==
    \A i \in DOMAIN answers[r] :
        answers[r][i].of = r /\ answers[r][i].result # "timed out"

OwnAnswersWithoutCancel == asked = {} => \A r \in Requests : OwnAnswer(r)

(***************************************************************************)
(* A handle in use is finished once, for the request it was taken for.     *)
(***************************************************************************)
HandlesAreKept == AtMostOneAnswer /\ NoHandleForgotten /\ OwnAnswersWithoutCancel

(***************************************************************************)
(* NetworkProtocol.h, Cancel: "cancel the request if possible / @param id  *)
(* - unique request id".  A request nobody cancelled is not stopped by the *)
(* CancelEvent of another one.                                             *)
(***************************************************************************)
CancelsOnlyItsRequest ==
    \A r \in Requests \ asked :
        \A i \in DOMAIN answers[r] : answers[r][i].result # "timed out"

(***************************************************************************)
(* It is a NetworkProtocol: what is in flight are the handles in use whose *)
(* callback has not been called, and after Teardown those it collected.    *)
(***************************************************************************)
InFlightHandles ==
    IF worker \in {"teardown", "stopped"}
    THEN ToSet(msgs)
    ELSE {h \in HandleIds : InUse(h) /\ ~(worker = "release" /\ message.handle = h)}

Abstract ==
    INSTANCE NetworkProtocol WITH
        started <- IsStarted,
        inFlight <- {handles_[h].id : h \in InFlightHandles},
        cancelling <- {handles_[h].id :
                          h \in {g \in InFlightHandles : handles_[g].cancelled}}

ImplementsProtocol == Abstract!ProtocolSafety

\* A request whose Send returned ErrorNone is answered.
SentIsAnswered ==
    \A r \in Requests \ OptionFails : sending[r].pc = "sent" ~> answers[r] # <<>>
=============================================================================
