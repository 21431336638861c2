---------------------------- MODULE NetworkQueue ----------------------------
(***************************************************************************)
(* Sending through network::Network: the ids of its pending requests, and  *)
(* the NetworkRequestPriorityQueueDecorator that queues the requests of    *)
(* all clients in front of a NetworkProtocol.                              *)
(*                                                                         *)
(* The threads are the users (one per request, one that cancels, one that  *)
(* stops the network), the thread of the decorator, and the thread on      *)
(* which the protocol calls back.  A critical section of request_ids_, of  *)
(* a queue, of the Signal or of cancel_mutex_ is one step.  The protocol   *)
(* is external: the module NetworkProtocol, with a Send that may also      *)
(* answer ErrorNotReady or another error.                                  *)
(***************************************************************************)
EXTENDS Naturals, Sequences, FiniteSets, Functions

CONSTANTS
    Requests,
    Handles,    \* how many requests the protocol works on at a time
    Groups,     \* the quota groups are 1 .. Groups; 1 accepts every request
    Quota,      \* the quota of each group
    Filters,    \* the possible group_of
    PriorityOf,
    Refusals    \* bounds how often Send answers ErrorNotReady

ASSUME NetworkQueueConstants ==
    /\ IsFiniteSet(Requests)
    /\ Handles \in Nat
    /\ Groups \in Nat \ {0}
    /\ Quota \in [1 .. Groups -> Nat]
    /\ Filters \subseteq [Requests -> 1 .. Groups]
    /\ PriorityOf \in [Requests -> Nat]
    /\ Refusals \in Nat

VARIABLES
    started, inFlight, cancelling,  \* the protocol
    group_of,      \* the last group whose filter selects a request; constant
    singleton_,    \* held by Network, or how far its end has come
    request_ids_,
    queues_,       \* the queue of each group, in the order of the pushes
    counter,       \* the counter of each group
    is_satisfied_, \* the Signal
    stop_thread_,
    thread,        \* the decorator's thread: where it is, group and request
    sending,       \* where the user of each request is in Send
    canceller,     \* the user that cancels and the one that stops
    to_cancel,     \* what Stop has still to cancel
    completing,    \* where the callback of SendRequest is, for each request
    answers,       \* history: how often the user of a request was called back
    refused,       \* history: how often Send answered ErrorNotReady, by group
    overtaken      \* history: requests inside Send while Stop took the ids

protocolVars == <<started, inFlight, cancelling>>
historyVars == <<group_of, refused, overtaken>>
vars == <<started, inFlight, cancelling, group_of, singleton_, request_ids_,
          queues_, counter, is_satisfied_, stop_thread_, thread, sending,
          canceller, to_cancel, completing, answers, refused, overtaken>>

Protocol == INSTANCE NetworkProtocol

Idle == [pc |-> "idle"]
Visiting(g) == [pc |-> "visit", group |-> g]
Holding(r) == [pc |-> "send", request |-> r]
Waiting == [pc |-> "wait"]
Stopped == [pc |-> "stopped"]

Init ==
    /\ Protocol!ProtocolInit
    /\ group_of \in Filters
    /\ singleton_ = "held"
    /\ request_ids_ = {}
    /\ queues_ = [g \in 1 .. Groups |-> <<>>]
    /\ counter = [g \in 1 .. Groups |-> 0]
    /\ is_satisfied_ = FALSE
    /\ stop_thread_ = FALSE
    /\ thread = Visiting(1)
    /\ sending = [r \in Requests |-> "new"]
    /\ canceller = [c \in {"user", "stop"} |-> Idle]
    /\ to_cancel = {}
    /\ completing = [r \in Requests |-> "no"]
    /\ answers = [r \in Requests |-> 0]
    /\ refused = [g \in 1 .. Groups |-> 0]
    /\ overtaken = {}

\* The callback of Network::Send: the id is removed, the user called back.
CallBack(r) ==
    /\ answers' = [answers EXCEPT ![r] = @ + 1]
    /\ request_ids_' = request_ids_ \ {r}

-----------------------------------------------------------------------------
(***************************************************************************)
(* Network::Send: it takes a reference to the singleton and notes the id,  *)
(* then the decorator pushes the request on its queue and sets the signal. *)
(***************************************************************************)
SendOffline(r) ==
    /\ sending[r] = "new"
    /\ singleton_ # "held"
    /\ answers' = [answers EXCEPT ![r] = @ + 1]
    /\ sending' = [sending EXCEPT ![r] = "sent"]
    /\ UNCHANGED <<protocolVars, singleton_, request_ids_, queues_, counter,
                   is_satisfied_, stop_thread_, thread, canceller, to_cancel,
                   completing, historyVars>>

GetSingleton(r) ==
    /\ sending[r] = "new"
    /\ singleton_ = "held"
    /\ sending' = [sending EXCEPT ![r] = "entered"]
    /\ UNCHANGED <<protocolVars, singleton_, request_ids_, queues_, counter,
                   is_satisfied_, stop_thread_, thread, canceller, to_cancel,
                   completing, answers, historyVars>>

Send(r) ==
    /\ sending[r] = "entered"
    /\ request_ids_' = request_ids_ \cup {r}
    /\ sending' = [sending EXCEPT ![r] = "inserted"]
    /\ UNCHANGED <<protocolVars, singleton_, queues_, counter, is_satisfied_,
                   stop_thread_, thread, canceller, to_cancel, completing,
                   answers, historyVars>>

Push(r) ==
    /\ sending[r] = "inserted"
    /\ queues_' = [queues_ EXCEPT ![group_of[r]] = Append(@, r)]
    /\ sending' = [sending EXCEPT ![r] = "pushed"]
    /\ UNCHANGED <<protocolVars, singleton_, request_ids_, counter,
                   is_satisfied_, stop_thread_, thread, canceller, to_cancel,
                   completing, answers, historyVars>>

\* Mutant of SignalPushed: Send does not wake the thread.
PushedUnsignalled(r) ==
    /\ sending[r] = "pushed"
    /\ sending' = [sending EXCEPT ![r] = "sent"]
    /\ UNCHANGED <<protocolVars, singleton_, request_ids_, queues_, counter,
                   is_satisfied_, stop_thread_, thread, canceller, to_cancel,
                   completing, answers, historyVars>>

SignalPushed(r) ==
    /\ sending[r] = "pushed"
    /\ is_satisfied_' = TRUE
    /\ sending' = [sending EXCEPT ![r] = "sent"]
    /\ UNCHANGED <<protocolVars, singleton_, request_ids_, queues_, counter,
                   stop_thread_, thread, canceller, to_cancel, completing,
                   answers, historyVars>>

-----------------------------------------------------------------------------
(***************************************************************************)
(* The decorator's thread visits the queues in order, from the first again *)
(* after each request it has sent.  When a round finds nothing to send, or *)
(* the protocol is not ready, it waits for the signal.                     *)
(***************************************************************************)
Queued(r) == r \in Range(queues_[group_of[r]])

\* A queue without its element at i.
erase(queue, i) == SubSeq(queue, 1, i - 1) \o SubSeq(queue, i + 1, Len(queue))

\* What Pop takes: the oldest of the requests with the highest priority.
Popped(queue, i) ==
    \A j \in DOMAIN queue :
        \/ PriorityOf[queue[i]] > PriorityOf[queue[j]]
        \/ PriorityOf[queue[i]] = PriorityOf[queue[j]] /\ i <= j

At(g) == thread = Visiting(g)

threadUnchanged ==
    UNCHANGED <<protocolVars, singleton_, request_ids_, counter, stop_thread_,
                sending, canceller, to_cancel, completing, answers,
                historyVars>>

\* Mutant of ThreadStops: the loop goes on instead of ending.
ThreadGoesOn ==
    /\ At(1)
    /\ stop_thread_
    /\ UNCHANGED <<thread, queues_, is_satisfied_>> /\ threadUnchanged

ThreadStops ==
    /\ At(1)
    /\ stop_thread_
    /\ thread' = Stopped
    /\ UNCHANGED <<queues_, is_satisfied_>> /\ threadUnchanged

MayVisit(g) == At(g) /\ (g = 1 => ~stop_thread_)

VisitNotReady(g) ==
    /\ MayVisit(g)
    /\ ~Protocol!Ready
    /\ thread' = Waiting
    /\ UNCHANGED <<queues_, is_satisfied_>> /\ threadUnchanged

VisitNothing(g) ==
    /\ MayVisit(g)
    /\ Protocol!Ready
    /\ counter[g] >= Quota[g] \/ queues_[g] = <<>>
    /\ thread' = IF g < Groups THEN Visiting(g + 1) ELSE Waiting
    /\ UNCHANGED <<queues_, is_satisfied_>> /\ threadUnchanged

VisitPops(g) ==
    /\ MayVisit(g)
    /\ Protocol!Ready
    /\ counter[g] < Quota[g]
    /\ \E i \in DOMAIN queues_[g] :
           /\ Popped(queues_[g], i)
           /\ queues_' = [queues_ EXCEPT ![g] = erase(@, i)]
           /\ thread' = Holding(queues_[g][i])
    /\ UNCHANGED is_satisfied_ /\ threadUnchanged

Wait ==
    /\ thread = Waiting
    /\ is_satisfied_
    /\ is_satisfied_' = FALSE
    /\ thread' = Visiting(1)
    /\ UNCHANGED queues_ /\ threadUnchanged

(***************************************************************************)
(* SendRequest, under cancel_mutex_.  A request that finds the protocol    *)
(* not ready goes back to its queue, and the counter stays incremented.    *)
(***************************************************************************)
Holds(r) == thread = Holding(r)

SendAccepted(r) ==
    /\ Holds(r)
    /\ Protocol!Accept(r)
    /\ counter' = [counter EXCEPT ![group_of[r]] = @ + 1]
    /\ thread' = Visiting(1)
    /\ UNCHANGED <<singleton_, request_ids_, queues_, is_satisfied_,
                   stop_thread_, sending, canceller, to_cancel, completing,
                   answers, historyVars>>

SendNotReady(r) ==
    /\ Holds(r)
    /\ refused[group_of[r]] < Refusals
    /\ counter' = [counter EXCEPT ![group_of[r]] = @ + 1]
    /\ queues_' = [queues_ EXCEPT ![group_of[r]] = Append(@, r)]
    /\ refused' = [refused EXCEPT ![group_of[r]] = @ + 1]
    /\ thread' = Visiting(1)
    /\ UNCHANGED <<protocolVars, singleton_, request_ids_, is_satisfied_,
                   stop_thread_, sending, canceller, to_cancel, completing,
                   answers, group_of, overtaken>>

\* Any other error; a protocol that has been stopped gives one.
SendFails(r) ==
    /\ Holds(r)
    /\ CallBack(r)
    /\ is_satisfied_' = TRUE
    /\ thread' = Visiting(1)
    /\ UNCHANGED <<protocolVars, singleton_, queues_, counter, stop_thread_,
                   sending, canceller, to_cancel, completing, historyVars>>

(***************************************************************************)
(* The protocol has answered, and released what the request used: its      *)
(* thread runs the callback of SendRequest.                                *)
(***************************************************************************)
ProtocolAnswers(r) ==
    /\ Protocol!Answers(r)
    /\ completing' = [completing EXCEPT ![r] = "callback"]
    /\ UNCHANGED <<singleton_, request_ids_, queues_, counter, is_satisfied_,
                   stop_thread_, thread, sending, canceller, to_cancel,
                   answers, historyVars>>

CallbackCalls(r) ==
    /\ completing[r] = "callback"
    /\ CallBack(r)
    /\ completing' = [completing EXCEPT ![r] = "called"]
    /\ UNCHANGED <<protocolVars, singleton_, queues_, counter, is_satisfied_,
                   stop_thread_, thread, sending, canceller, to_cancel,
                   historyVars>>

CallbackDecrements(r) ==
    /\ completing[r] = "called"
    /\ counter' = [counter EXCEPT ![group_of[r]] = @ - 1]
    /\ completing' = [completing EXCEPT ![r] = "decremented"]
    /\ UNCHANGED <<protocolVars, singleton_, request_ids_, queues_,
                   is_satisfied_, stop_thread_, thread, sending, canceller,
                   to_cancel, answers, historyVars>>

CallbackSignals(r) ==
    /\ completing[r] = "decremented"
    /\ is_satisfied_' = TRUE
    /\ completing' = [completing EXCEPT ![r] = "no"]
    /\ UNCHANGED <<protocolVars, singleton_, request_ids_, queues_, counter,
                   stop_thread_, thread, sending, canceller, to_cancel,
                   answers, historyVars>>

-----------------------------------------------------------------------------
(***************************************************************************)
(* Cancel: a queued request is removed and called back; for any other the  *)
(* protocol is asked, under cancel_mutex_, after the queues were searched. *)
(***************************************************************************)
cancelUnchanged ==
    UNCHANGED <<started, inFlight, singleton_, counter, stop_thread_, thread,
                sending, completing, historyVars>>

\* The request is in its queue, once, and is taken out.
RemoveIf(r) ==
    \E i \in DOMAIN queues_[group_of[r]] :
        /\ queues_[group_of[r]][i] = r
        /\ queues_' = [queues_ EXCEPT ![group_of[r]] = erase(@, i)]

\* Mutant of CancelPending: the removed request is not called back.
CancelPendingSilently(c, r) ==
    /\ RemoveIf(r)
    /\ request_ids_' = request_ids_ \ {r}
    /\ UNCHANGED <<cancelling, is_satisfied_, canceller, answers>>

CancelPending(c, r) ==
    /\ RemoveIf(r)
    /\ CallBack(r)
    /\ UNCHANGED <<cancelling, is_satisfied_, canceller>>

CancelNotPending(c, r) ==
    /\ ~Queued(r)
    /\ request_ids_' = request_ids_ \ {r}
    /\ canceller' = [canceller EXCEPT ![c] = Holding(r)]
    /\ UNCHANGED <<cancelling, queues_, is_satisfied_, answers>>

\* Network::Cancel by a user whose Send has returned the id.
Cancel(r) ==
    /\ singleton_ = "held"
    /\ sending[r] = "sent"
    /\ canceller["user"] = Idle
    /\ CancelPending("user", r) \/ CancelNotPending("user", r)
    /\ UNCHANGED to_cancel /\ cancelUnchanged

CancelInProtocol(c, r) ==
    /\ canceller[c] = Holding(r)
    /\ Protocol!CancelRequest(r)
    /\ is_satisfied_' = (is_satisfied_ \/ r \in inFlight)
    /\ canceller' = [canceller EXCEPT ![c] = Idle]
    /\ UNCHANGED <<request_ids_, queues_, answers, to_cancel>>
    /\ cancelUnchanged

(***************************************************************************)
(* Network::Stop, and the end of the singleton when the last call that     *)
(* uses it has returned: the protocol is deinitialized, which answers what *)
(* it works on, and the decorator is destroyed.                            *)
(***************************************************************************)
InSend == {r \in Requests : sending[r] \in {"entered", "inserted", "pushed"}}

Stop ==
    /\ singleton_ = "held"
    /\ singleton_' = "stopping"
    /\ to_cancel' = request_ids_
    /\ request_ids_' = {}
    /\ overtaken' = InSend
    /\ UNCHANGED <<protocolVars, queues_, counter, is_satisfied_, stop_thread_,
                   thread, sending, canceller, completing, answers, group_of,
                   refused>>

StopCancels(r) ==
    /\ r \in to_cancel
    /\ canceller["stop"] = Idle
    /\ CancelPending("stop", r) \/ CancelNotPending("stop", r)
    /\ to_cancel' = to_cancel \ {r}
    /\ cancelUnchanged

teardownUnchanged ==
    UNCHANGED <<inFlight, cancelling, request_ids_, queues_, counter, thread,
                sending, canceller, to_cancel, completing, answers,
                historyVars>>

Deinitialize ==
    /\ singleton_ = "stopping"
    /\ to_cancel = {}
    /\ InSend = {}
    /\ \A c \in {"user", "stop"} : canceller[c] = Idle
    /\ started' = FALSE
    /\ singleton_' = "deinitialized"
    /\ UNCHANGED <<is_satisfied_, stop_thread_>> /\ teardownUnchanged

\* Deinitialize has joined the protocol's thread; the destructor of the
\* decorator stops its own.
StopThread ==
    /\ singleton_ = "deinitialized"
    /\ inFlight = {}
    /\ \A r \in Requests : completing[r] = "no"
    /\ stop_thread_' = TRUE
    /\ is_satisfied_' = TRUE
    /\ singleton_' = "joining"
    /\ UNCHANGED started /\ teardownUnchanged

Join ==
    /\ singleton_ = "joining"
    /\ thread = Stopped
    /\ singleton_' = "destroyed"
    /\ UNCHANGED <<started, is_satisfied_, stop_thread_>> /\ teardownUnchanged

Destroyed ==
    /\ singleton_ = "destroyed"
    /\ \A r \in Requests : sending[r] = "sent"
    /\ UNCHANGED vars

-----------------------------------------------------------------------------
ThreadStep ==
    \/ ThreadStops \/ Wait
    \/ \E g \in 1 .. Groups : VisitNotReady(g) \/ VisitNothing(g) \/ VisitPops(g)
    \/ \E r \in Requests : SendAccepted(r) \/ SendNotReady(r) \/ SendFails(r)

UserStep(r) == Send(r) \/ Push(r) \/ SignalPushed(r)

CallbackStep(r) ==
    \/ ProtocolAnswers(r)
    \/ CallbackCalls(r) \/ CallbackDecrements(r) \/ CallbackSignals(r)

CancelStep == \E r \in Requests, c \in {"user", "stop"} : CancelInProtocol(c, r)

TeardownStep ==
    \/ \E r \in Requests : StopCancels(r)
    \/ Deinitialize \/ StopThread \/ Join

Next ==
    \/ \E r \in Requests : SendOffline(r) \/ GetSingleton(r) \/ Cancel(r)
    \/ \E r \in Requests : UserStep(r) \/ CallbackStep(r)
    \/ ThreadStep \/ CancelStep \/ Stop \/ TeardownStep \/ Destroyed

\* Threads that can run do; the protocol answers and its errors end, as
\* Refusals bounds them.  Nobody has to send, to cancel or to stop.
Fairness ==
    /\ WF_vars(ThreadStep) /\ WF_vars(CancelStep) /\ WF_vars(TeardownStep)
    /\ \A r \in Requests : WF_vars(UserStep(r)) /\ WF_vars(CallbackStep(r))

Spec == Init /\ [][Next]_vars /\ Fairness

-----------------------------------------------------------------------------
(***************************************************************************)
(* The type invariant.                                                     *)
(***************************************************************************)
Threads ==
    {Idle, Waiting, Stopped} \cup {Visiting(g) : g \in 1 .. Groups}
      \cup {Holding(r) : r \in Requests}

TypeOK ==
    /\ started \in BOOLEAN
    /\ inFlight \subseteq Requests
    /\ cancelling \subseteq inFlight
    /\ group_of \in Filters
    /\ singleton_ \in {"held", "stopping", "deinitialized", "joining",
                       "destroyed"}
    /\ request_ids_ \subseteq Requests
    /\ queues_ \in [1 .. Groups -> Seq(Requests)]
    /\ counter \in [1 .. Groups -> Nat]
    /\ is_satisfied_ \in BOOLEAN
    /\ stop_thread_ \in BOOLEAN
    /\ thread \in Threads
    /\ sending \in [Requests -> {"new", "entered", "inserted", "pushed",
                              "sent"}]
    /\ canceller \in [{"user", "stop"} -> Threads]
    /\ to_cancel \subseteq Requests
    /\ completing \in [Requests -> {"no", "callback", "called", "decremented"}]
    /\ answers \in [Requests -> Nat]
    /\ refused \in [1 .. Groups -> Nat]
    /\ overtaken \subseteq Requests

(***************************************************************************)
(* One callback for a request, however its cancellation, its answer, a     *)
(* refusal by the protocol and the end of the network overlap.             *)
(***************************************************************************)
AtMostOneAnswer == \A r \in Requests : answers[r] <= 1

(***************************************************************************)
(* The counter of a group counts what the protocol works on for it, up to  *)
(* the callbacks that have not decremented it, and every ErrorNotReady;    *)
(* the quota bounds it.                                                    *)
(***************************************************************************)
Counted(g) ==
    {r \in Requests : /\ group_of[r] = g
                      /\ r \in inFlight \/ completing[r] \in {"callback", "called"}}

QuotaIsKept ==
    \A g \in 1 .. Groups :
        /\ counter[g] = Cardinality(Counted(g)) + refused[g]
        /\ counter[g] <= Quota[g]

(***************************************************************************)
(* No lost signal: while the decorator's thread waits and the signal is    *)
(* not set, a group with queued requests has used up its quota, or the     *)
(* protocol is not ready, or somebody is about to set the signal.          *)
(***************************************************************************)
SignalComes ==
    \/ \E r \in Requests : sending[r] = "pushed"
    \/ \E r \in Requests : completing[r] # "no"

NoRequestStranded ==
    thread = Waiting /\ ~is_satisfied_ /\ ~SignalComes =>
        \A g \in 1 .. Groups :
            queues_[g] = <<>> \/ counter[g] >= Quota[g] \/ ~Protocol!Ready

(***************************************************************************)
(* The queue keeps its books: no request is answered twice, counted wrong  *)
(* or left without a signal.                                               *)
(***************************************************************************)
QueueIsKept == AtMostOneAnswer /\ QuotaIsKept /\ NoRequestStranded

(***************************************************************************)
(* Every request is answered: through the queue and the protocol, by a     *)
(* cancellation, or by the end of the network; but for requests that Stop  *)
(* overtook in Send, and those of a group whose counter an ErrorNotReady   *)
(* left incremented.                                                       *)
(***************************************************************************)
SentIsAnswered ==
    \A r \in Requests :
        sending[r] = "pushed" ~> \/ answers[r] = 1
                                 \/ r \in overtaken
                                 \/ refused[group_of[r]] > 0

\* Stop brings the network down: the thread of the decorator always ends.
StopEnds == singleton_ = "stopping" ~> singleton_ = "destroyed"
=============================================================================
