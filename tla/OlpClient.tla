----------------------------- MODULE OlpClient -----------------------------
(***************************************************************************)
(* One call of client::OlpClient::CallApi with its retries, and the        *)
(* client::CancellationContext it is cancelled through.                    *)
(*                                                                         *)
(* CallApi sends attempt 1 and returns a CancellationToken.  The callback  *)
(* of an attempt hands the response to the caller or sleeps and sends the  *)
(* next attempt.  Attempts are started inside ExecuteOrCancelled and       *)
(* cancelled inside CancelOperation, both under the recursive mutex_ of    *)
(* the context.                                                            *)
(*                                                                         *)
(* The network handler, a user setting or NetworkAsyncHandlerImpl, is      *)
(* external.  It answers every attempt once, on a thread of the network,   *)
(* or inside Send (as Network does when it is offline or its queue is      *)
(* full), or inside Cancel (as Network does with a request it still        *)
(* queues).  Each thread has a stack of the calls it is in.                *)
(***************************************************************************)
EXTENDS Naturals, Sequences, FiniteSets

CONSTANTS
    Caller,       \* the thread that calls CallApi
    Cancellers,   \* the threads that may call cancel() on the token
    MaxAttempts,  \* bounds max_attempts
    Settings      \* the settings of the client and the kinds of its handler

ASSUME OlpClientConstants ==
    /\ MaxAttempts \in Nat \ {0}
    /\ Caller \notin Cancellers \cup (1 .. MaxAttempts)
    /\ Cancellers \cap (1 .. MaxAttempts) = {}
    /\ Settings \subseteq
           [max_attempts : 0 .. MaxAttempts,
            retry_condition : SUBSET {"ok", "error", "cancelled"},
            synchronous : SUBSET {"Send", "Cancel"}]

VARIABLES
    settings,                     \* chosen when the client was made
    stack,                        \* the calls each thread is in
    attempts,                     \* what became of each attempt
    sub_operation_cancel_token_,  \* the attempt it cancels, 0 for none
    is_cancelled_,
    token,                        \* what the user does with CallApi's result
    answers                       \* what the user's callback was given

contextVars == <<sub_operation_cancel_token_, is_cancelled_>>
vars == <<settings, stack, attempts, sub_operation_cancel_token_,
          is_cancelled_, token, answers>>

Max(a, b) == IF a >= b THEN a ELSE b

\* A network thread runs the callback of one attempt.
AttemptIds == 1 .. MaxAttempts
Threads == {Caller} \cup Cancellers \cup AttemptIds

Responses == {"ok", "error", "cancelled", "unknown"}

Frames ==
    [op : {"Execute", "Cancel"}, attempt : Nat]
      \cup [op : {"Callback"}, attempt : Nat, response : Responses,
            stage : {"called", "slept", "retries"}]

Execute(i) == [op |-> "Execute", attempt |-> i]
Cancel(i) == [op |-> "Cancel", attempt |-> i]
Callback(i, r) ==
    [op |-> "Callback", attempt |-> i, response |-> r, stage |-> "called"]

Top(t) == stack[t][1]
In(t, op) == stack[t] # <<>> /\ Top(t).op = op
InCallback(t, stage) == In(t, "Callback") /\ Top(t).stage = stage
Enter(t, frame) == stack' = [stack EXCEPT ![t] = <<frame>> \o @]
Become(t, frame) == stack' = [stack EXCEPT ![t] = <<frame>> \o Tail(@)]
Leave(t) == stack' = [stack EXCEPT ![t] = Tail(@)]

\* mutex_ is held by whoever is in ExecuteOrCancelled or CancelOperation, and
\* is recursive.
Locks(t) == \E i \in DOMAIN stack[t] : stack[t][i].op # "Callback"
CanLock(t) == \A u \in Threads \ {t} : ~Locks(u)

Init ==
    /\ settings \in Settings
    /\ stack = [t \in Threads |-> <<>>]
    /\ attempts = <<>>
    /\ sub_operation_cancel_token_ = 0
    /\ is_cancelled_ = FALSE
    /\ token = "none"
    /\ answers = <<>>

-----------------------------------------------------------------------------
(***************************************************************************)
(* CallApi up to the call of the handler: the first attempt is sent inside *)
(* ExecuteOrCancelled.  Nobody has the token yet.                          *)
(***************************************************************************)
CallApi ==
    /\ attempts = <<>>
    /\ attempts' = <<"sent">>
    /\ Enter(Caller, Execute(1))
    /\ UNCHANGED <<settings, contextVars, token, answers>>

(***************************************************************************)
(* execute_fn returns and ExecuteOrCancelled stores the token of the       *)
(* attempt it started.  CallApi returns its own token after that.          *)
(***************************************************************************)
\* Mutant of ExecuteReturns: the token of the first attempt is kept.
ExecuteKeepsToken(t) ==
    /\ In(t, "Execute")
    /\ sub_operation_cancel_token_' =
           IF sub_operation_cancel_token_ = 0 THEN Top(t).attempt
                                              ELSE sub_operation_cancel_token_
    /\ Leave(t)
    /\ token' = IF t = Caller /\ Len(stack[t]) = 1 THEN "held" ELSE token
    /\ UNCHANGED <<settings, attempts, is_cancelled_, answers>>

ExecuteReturns(t) ==
    /\ In(t, "Execute")
    /\ sub_operation_cancel_token_' = Top(t).attempt
    /\ Leave(t)
    /\ token' = IF t = Caller /\ Len(stack[t]) = 1 THEN "held" ELSE token
    /\ UNCHANGED <<settings, attempts, is_cancelled_, answers>>

(***************************************************************************)
(* The lambda of GetRetryCallback.  currentTry is the number of the        *)
(* attempt it belongs to.                                                  *)
(***************************************************************************)
Final(frame) ==
    \/ frame.attempt >= settings.max_attempts
    \/ frame.response \notin settings.retry_condition

GiveAnswer(t, r) ==
    /\ answers' = Append(answers, r)
    /\ Leave(t)
    /\ UNCHANGED <<settings, attempts, contextVars, token>>

CallbackAnswers(t) ==
    /\ InCallback(t, "called")
    /\ Final(Top(t))
    /\ GiveAnswer(t, Top(t).response)

CallbackSleeps(t) ==
    /\ InCallback(t, "called")
    /\ ~Final(Top(t))
    /\ Become(t, [Top(t) EXCEPT !.stage = "slept"])
    /\ UNCHANGED <<settings, attempts, contextVars, token, answers>>

\* The context lives as long as the user keeps the token, and as long as
\* CallApi or a retry uses it.
ContextAlive ==
    \/ token = "held"
    \/ \E t \in Threads : \E i \in DOMAIN stack[t] :
           \/ stack[t][i].op = "Execute"
           \/ stack[t][i].op = "Callback" /\ stack[t][i].stage = "retries"

\* Mutant of RetryWithoutContext: it reports a cancellation.
RetryWithoutContextCancels(t) ==
    /\ InCallback(t, "slept")
    /\ ~ContextAlive
    /\ GiveAnswer(t, "cancelled")

RetryWithoutContext(t) ==
    /\ InCallback(t, "slept")
    /\ ~ContextAlive
    /\ GiveAnswer(t, "unknown")

\* weak_cancel_context.lock()
RetryWithContext(t) ==
    /\ InCallback(t, "slept")
    /\ ContextAlive
    /\ Become(t, [Top(t) EXCEPT !.stage = "retries"])
    /\ UNCHANGED <<settings, attempts, contextVars, token, answers>>

\* ExecuteOrCancelled calls cancel_fn.
RetryCancelled(t) ==
    /\ InCallback(t, "retries")
    /\ CanLock(t)
    /\ is_cancelled_
    /\ GiveAnswer(t, "cancelled")

\* ExecuteOrCancelled calls execute_fn, which sends the next attempt.
Retry(t) ==
    /\ InCallback(t, "retries")
    /\ CanLock(t)
    /\ ~is_cancelled_
    /\ attempts' = Append(attempts, "sent")
    /\ Become(t, Execute(Len(attempts) + 1))
    /\ UNCHANGED <<settings, contextVars, token, answers>>

-----------------------------------------------------------------------------
(***************************************************************************)
(* CancelOperation, through the token: it cancels the attempt whose token  *)
(* it holds, then forgets the token and sets is_cancelled_.  Cancelling an *)
(* attempt that has been answered does nothing.                            *)
(***************************************************************************)
InFlight(i) == i \in DOMAIN attempts /\ attempts[i] = "sent"

MayCancel(c) ==
    /\ token = "held"
    /\ stack[c] = <<>>
    /\ CanLock(c)
    /\ ~is_cancelled_

CancelOperation(c) ==
    LET i == sub_operation_cancel_token_ IN
    /\ MayCancel(c)
    /\ Enter(c, Cancel(i))
    /\ attempts' = IF InFlight(i) THEN [attempts EXCEPT ![i] = "cancelling"]
                                  ELSE attempts
    /\ UNCHANGED <<settings, contextVars, token, answers>>

\* The handler answers inside cancel(), with mutex_ held by this thread.
CancelOperationAnswered(c) ==
    LET i == sub_operation_cancel_token_ IN
    /\ MayCancel(c)
    /\ "Cancel" \in settings.synchronous
    /\ InFlight(i)
    /\ stack' = [stack EXCEPT ![c] = <<Callback(i, "cancelled"), Cancel(i)>>]
    /\ attempts' = [attempts EXCEPT ![i] = "answered"]
    /\ UNCHANGED <<settings, contextVars, token, answers>>

CancelReturns(c) ==
    /\ In(c, "Cancel")
    /\ sub_operation_cancel_token_' = 0
    /\ is_cancelled_' = TRUE
    /\ Leave(c)
    /\ UNCHANGED <<settings, attempts, token, answers>>

\* The user lets go of the token.
DropToken ==
    /\ token = "held"
    /\ \A c \in Cancellers : stack[c] = <<>>
    /\ token' = "dropped"
    /\ UNCHANGED <<settings, stack, attempts, contextVars, answers>>

-----------------------------------------------------------------------------
(***************************************************************************)
(* The handler: it answers inside Send with an error of its own, or later  *)
(* on a thread of the network.  An attempt that is being cancelled may     *)
(* have been answered by the service at the same time.                     *)
(***************************************************************************)
SendAnswers(t) ==
    /\ "Send" \in settings.synchronous
    /\ In(t, "Execute")
    /\ InFlight(Top(t).attempt)
    /\ attempts' = [attempts EXCEPT ![Top(t).attempt] = "answered"]
    /\ Enter(t, Callback(Top(t).attempt, "error"))
    /\ UNCHANGED <<settings, contextVars, token, answers>>

NetworkAnswers(i, r) ==
    /\ i \in DOMAIN attempts
    /\ \/ attempts[i] = "sent" /\ r \in {"ok", "error"}
       \/ attempts[i] = "cancelling" /\ r \in {"ok", "error", "cancelled"}
    /\ attempts' = [attempts EXCEPT ![i] = "answered"]
    /\ Enter(i, Callback(i, r))
    /\ UNCHANGED <<settings, contextVars, token, answers>>

\* The call is over and nobody will use its token any more.
Finished ==
    /\ answers # <<>>
    /\ token = "dropped"
    /\ \A t \in Threads : stack[t] = <<>>
    /\ UNCHANGED vars

CallbackStep(t) ==
    \/ CallbackAnswers(t) \/ CallbackSleeps(t)
    \/ RetryWithoutContext(t) \/ RetryWithContext(t)
    \/ RetryCancelled(t) \/ Retry(t)

ThreadStep(t) == ExecuteReturns(t) \/ CallbackStep(t) \/ CancelReturns(t)

Next ==
    \/ CallApi
    \/ \E t \in Threads : ThreadStep(t) \/ SendAnswers(t)
    \/ \E c \in Cancellers : CancelOperation(c) \/ CancelOperationAnswered(c)
    \/ DropToken
    \/ \E i \in AttemptIds, r \in Responses : NetworkAnswers(i, r)
    \/ Finished

\* Every thread that can run runs, and the handler answers every attempt.
Fairness ==
    /\ \A t \in Threads : WF_vars(ThreadStep(t))
    /\ \A i \in AttemptIds : WF_vars(\E r \in Responses : NetworkAnswers(i, r))

Spec == Init /\ [][Next]_vars /\ Fairness

-----------------------------------------------------------------------------
(***************************************************************************)
(* The type invariant.  At most one thread holds mutex_.                   *)
(***************************************************************************)
TypeOK ==
    /\ settings \in Settings
    /\ DOMAIN stack = Threads
    /\ \A t \in Threads : \A i \in DOMAIN stack[t] : stack[t][i] \in Frames
    /\ \A t, u \in Threads : Locks(t) /\ Locks(u) => t = u
    /\ DOMAIN attempts \subseteq AttemptIds
    /\ \A i \in DOMAIN attempts :
           attempts[i] \in {"sent", "cancelling", "answered"}
    /\ sub_operation_cancel_token_ \in {0} \cup DOMAIN attempts
    /\ is_cancelled_ \in BOOLEAN
    /\ token \in {"none", "held", "dropped"}
    /\ answers \in Seq(Responses)

(***************************************************************************)
(* One attempt after the other: an attempt is sent only when the one       *)
(* before it has been answered, at most max(1, max_attempts) of them, and  *)
(* none once the caller has its answer.                                    *)
(***************************************************************************)
OneAttemptAtATime ==
    /\ Len(attempts) <= Max(1, settings.max_attempts)
    /\ \A i \in DOMAIN attempts :
           i < Len(attempts) \/ answers # <<>> => attempts[i] = "answered"

(***************************************************************************)
(* CancellationContext.h: execute_fn "should return a CancellationToken    *)
(* which CancellationContext will propogate a cancel request to".  When a  *)
(* cancellation has gone through, no attempt is left in flight that nobody *)
(* has cancelled.                                                          *)
(***************************************************************************)
CancelReachesAttempt ==
    is_cancelled_ /\ (\A t \in Threads : ~Locks(t)) =>
        \A i \in DOMAIN attempts : attempts[i] # "sent"

(***************************************************************************)
(* The same as long as no retry starts inside another ExecuteOrCancelled   *)
(* or inside CancelOperation: the handler does not answer inside Send, and *)
(* not inside Cancel with a response that is retried.                      *)
(***************************************************************************)
NeverNested ==
    /\ "Send" \notin settings.synchronous
    /\ \/ "Cancel" \notin settings.synchronous
       \/ "cancelled" \notin settings.retry_condition

CancelReachesAttemptUnlessNested == NeverNested => CancelReachesAttempt

\* Attempts follow one another and a cancellation finds the one in flight.
AttemptsAreCancelled == OneAttemptAtATime /\ CancelReachesAttemptUnlessNested

(***************************************************************************)
(* A call with retries is a cancellable request: whatever the handler, the *)
(* retries and the cancellers do, the callback is called exactly once, and *)
(* with "cancelled" only if the token was used.                            *)
(***************************************************************************)
CancelRequested ==
    is_cancelled_ \/ \E t \in Threads : \E i \in DOMAIN stack[t] :
                         stack[t][i].op = "Cancel"

Abstract == INSTANCE CancellableRequest WITH issued <- attempts # <<>>,
                                             cancel_requested <- CancelRequested

ImplementsRequest == Abstract!RequestSpec
=============================================================================
