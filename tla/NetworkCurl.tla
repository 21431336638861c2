---------------------------- MODULE NetworkCurl ----------------------------
(***************************************************************************)
(* http::NetworkCurl, the second generation of NetworkProtocolCurl: the    *)
(* same handles, events and worker, and so the same steps, with these      *)
(* differences.                                                            *)
(*                                                                         *)
(* The first Send initialises the network.  Initialize looks at state_     *)
(* before it takes init_mutex_, and not again: of two first calls the      *)
(* second takes the handles away from the first, and gives thread_, which  *)
(* is joinable, another thread; that ends the process.  An option that is  *)
(* refused is returned as an error, and nobody answers the request.        *)
(* Deinitialize is called by the destructor only, and the worker holds a   *)
(* reference to the network: neither ever runs once a request was sent.    *)
(***************************************************************************)
EXTENDS Naturals, Sequences, FiniteSets

CONSTANTS Requests, NoRequest, Handles, MaxRetries, OptionFails, Cancels

VARIABLES state_, handles_, events_, curl_, worker, msgs, message, sending, asked,
          answers,
          init_mutex_,  \* the request whose Send holds it
          terminated    \* the process has ended

P == INSTANCE NetworkProtocolCurl

vars == <<state_, handles_, events_, curl_, worker, msgs, message, sending, asked,
          answers, init_mutex_, terminated>>
initUnchanged == UNCHANGED <<init_mutex_, terminated>>

Init ==
    /\ state_ = "Stopped"
    /\ handles_ = [h \in P!HandleIds |-> [in_use |-> FALSE, id |-> NoRequest,
                                          cancelled |-> FALSE, retry_count |-> 0]]
    /\ events_ = <<>>
    /\ curl_ = [h \in P!HandleIds |-> P!Absent]
    /\ worker = "none"
    /\ msgs = <<>>
    /\ message = [handle |-> 0, id |-> NoRequest, transfer |-> P!Absent, back |-> "events"]
    /\ sending = [r \in Requests |-> [pc |-> "call", handle |-> 0]]
    /\ asked = {}
    /\ answers = [r \in Requests |-> <<>>]
    /\ init_mutex_ = NoRequest
    /\ terminated = FALSE

-----------------------------------------------------------------------------
(***************************************************************************)
(* Send: Initialize where it is needed, then SendImplementation.           *)
(***************************************************************************)
At(r, pc) == sending[r].pc = pc
Goes(r, pc) == sending' = [sending EXCEPT ![r].pc = pc]

Initialized(r) ==
    /\ At(r, "call")
    /\ state_ # "Stopped"
    /\ Goes(r, "new")
    /\ UNCHANGED <<state_, handles_, events_, curl_, worker, msgs, message, asked, answers>>
    /\ initUnchanged

MustInitialize(r) ==
    /\ At(r, "call")
    /\ state_ = "Stopped"
    /\ Goes(r, "initialize")
    /\ UNCHANGED <<state_, handles_, events_, curl_, worker, msgs, message, asked, answers>>
    /\ initUnchanged

\* A pipe or the multi handle cannot be made.
InitializeFails(r) ==
    /\ At(r, "initialize")
    /\ init_mutex_ = NoRequest
    /\ Goes(r, "refused")
    /\ UNCHANGED <<state_, handles_, events_, curl_, worker, msgs, message, asked, answers>>
    /\ initUnchanged

Initialize(r) ==
    /\ At(r, "initialize")
    /\ init_mutex_ = NoRequest
    /\ worker = "none"
    /\ init_mutex_' = r
    /\ worker' = "start"
    /\ Goes(r, "starting")
    /\ UNCHANGED <<state_, handles_, events_, curl_, msgs, message, asked, answers, terminated>>

\* The thread that is there already is overwritten: std::terminate.
InitializeTwice(r) ==
    /\ At(r, "initialize")
    /\ init_mutex_ = NoRequest
    /\ worker # "none"
    /\ terminated' = TRUE
    /\ UNCHANGED <<state_, handles_, events_, curl_, worker, msgs, message, sending, asked,
                   answers, init_mutex_>>

RunStarts ==
    /\ worker = "start"
    /\ state_' = "Started"
    /\ worker' = "events"
    /\ UNCHANGED <<handles_, events_, curl_, msgs, message, sending, asked, answers>>
    /\ initUnchanged

InitializeReturns(r) ==
    /\ At(r, "starting")
    /\ state_ = "Started"
    /\ init_mutex_' = NoRequest
    /\ Goes(r, "new")
    /\ UNCHANGED <<state_, handles_, events_, curl_, worker, msgs, message, asked, answers, terminated>>

SendRefused(r) == P!SendRefused(r) /\ initUnchanged
GetHandle(r) == P!GetHandle(r) /\ initUnchanged

\* The handle stays in use.
SendOptionFails(r) ==
    /\ r \in OptionFails
    /\ At(r, "taken")
    /\ Goes(r, "failed")
    /\ UNCHANGED <<handles_, events_, answers>> /\ P!sendUnchanged
    /\ initUnchanged

SendStillStarted(r) == P!SendStillStarted(r) /\ initUnchanged
AddEvent(r) == P!Send(r) /\ initUnchanged
Cancel(r) == P!Cancel(r) /\ initUnchanged

-----------------------------------------------------------------------------
\* CompleteMessage and Run.
CompleteUnknown == P!CompleteUnknown /\ initUnchanged
CompleteCancelled == P!CompleteCancelled /\ initUnchanged
CompleteResult == P!CompleteResult /\ initUnchanged
CompleteRetries == (P!DecideToRetry \/ P!Retry) /\ initUnchanged

CompleteAnswers == (P!DecideToAnswer \/ P!Callback) /\ initUnchanged

RunEvents ==
    /\ \/ \E type \in {"SendEvent", "CancelEvent"} : P!EventIgnored(type)
       \/ P!SendEvent \/ P!SendEventFails \/ P!CancelEvent \/ P!EventsDone
    /\ initUnchanged

RunFailed == P!CompleteFailed /\ initUnchanged
RunPerform == P!PerformDone /\ initUnchanged
RunReads == (P!ReadDone \/ \E h \in P!HandleIds : P!ReadMessage(h)) /\ initUnchanged
RunLost(h) == (P!LostHandle(h) \/ P!LostHandleError(h)) /\ initUnchanged
ReleaseHandle == P!ReleaseLost /\ initUnchanged
RunWaits == P!Waited /\ initUnchanged
Perform(h) == P!Perform(h) /\ initUnchanged

-----------------------------------------------------------------------------
SendStep(r) ==
    /\ ~terminated
    /\ \/ Initialized(r) \/ MustInitialize(r) \/ InitializeFails(r) \/ Initialize(r)
       \/ InitializeTwice(r) \/ InitializeReturns(r)
       \/ SendRefused(r) \/ GetHandle(r) \/ SendOptionFails(r)
       \/ SendStillStarted(r) \/ AddEvent(r)

WorkerStep ==
    /\ ~terminated
    /\ \/ RunStarts \/ RunEvents \/ RunFailed \/ RunPerform \/ RunReads \/ ReleaseHandle
       \/ RunWaits
       \/ CompleteUnknown \/ CompleteCancelled \/ CompleteResult \/ CompleteRetries
       \/ CompleteAnswers

Next ==
    \/ \E r \in Requests : SendStep(r) \/ (~terminated /\ Cancel(r))
    \/ WorkerStep
    \/ \E h \in P!HandleIds : ~terminated /\ (Perform(h) \/ RunLost(h))

InFlightHandles == P!InFlightHandles
=============================================================================
