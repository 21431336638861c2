------------------------ MODULE MultiRequestContext ------------------------
(***************************************************************************)
(* read::MultiRequestContext: requests with the same key share one         *)
(* operation of the provider (execute_fn) and all get its response.        *)
(*                                                                         *)
(* A RequestContext is named by the request that created it, and so is the *)
(* provider's operation that serves it.  The critical sections of mutex_   *)
(* are single actions; the user's callbacks, execute_fn and cancel() run   *)
(* outside it, except in the destructor, which holds mutex_ throughout.    *)
(***************************************************************************)
EXTENDS Naturals, Sequences, FiniteSets

CONSTANTS
    Requests,   \* the calls of ExecuteOrAssociate (their request_id)
    Keys,       \* the request keys, numbered in the order of the map
    KeyOf,      \* the key of each request
    None        \* no context

ASSUME KeysOrdered == Keys \subseteq Nat

ASSUME MultiRequestConstants ==
    /\ KeyOf \in [Requests -> Keys]
    /\ None \notin Requests

\* The response that onRequestCancelled hands out; the provider's responses
\* are named by the operation they come from.
cancelled_ == "cancelled"

VARIABLES
    active_reqs_,  \* the context of each key, or None
    callbacks_,    \* context -> the requests whose callback it holds
    call,          \* request -> where its ExecuteOrAssociate is
    token_,        \* the contexts whose cancellation_token_ is assigned
    operation,     \* context -> where the provider's operation is
    toInvoke,      \* operation -> the callbacks it has still to invoke
    canceller,     \* request -> where its cancel() is
    taken,         \* request -> the context its cancel() has removed
    destructor,    \* where ~MultiRequestContext is
    responses,     \* history: request -> the responses its callback was given
    joined,        \* history: request -> the context that took its callback
    cancelledKeys  \* history: the keys on which a token was cancelled

vars == <<active_reqs_, callbacks_, call, token_, operation, toInvoke,
          canceller, taken, destructor, responses, joined, cancelledKeys>>

Init ==
    /\ active_reqs_ = [k \in Keys |-> None]
    /\ callbacks_ = [c \in Requests |-> {}]
    /\ call = [r \in Requests |-> "idle"]
    /\ token_ = {}
    /\ operation = [c \in Requests |-> "none"]
    /\ toInvoke = [c \in Requests |-> {}]
    /\ canceller = [r \in Requests |-> "idle"]
    /\ taken = [r \in Requests |-> None]
    /\ destructor = "alive"
    /\ responses = [r \in Requests |-> <<>>]
    /\ joined = [r \in Requests |-> None]
    /\ cancelledKeys = {}

\* mutex_ can be locked: every other critical section is a single action.
MutexFree == destructor # "draining"

\* callback(response), the user's callback of request r.
Invoke(r, response) ==
    responses' = [responses EXCEPT ![r] = Append(@, response)]

-----------------------------------------------------------------------------
(***************************************************************************)
(* ExecuteOrAssociate.                                                     *)
(***************************************************************************)

\* Mutant of Associate: the callback replaces those of the context.
AssociateReplaces(r) ==
    /\ call[r] = "idle" /\ destructor = "alive"
    /\ active_reqs_[KeyOf[r]] # None
    /\ LET c == active_reqs_[KeyOf[r]] IN
        /\ callbacks_' = [callbacks_ EXCEPT ![c] = {r}]
        /\ joined' = [joined EXCEPT ![r] = c]
    /\ call' = [call EXCEPT ![r] = "returned"]
    /\ UNCHANGED <<active_reqs_, token_, operation, toInvoke, canceller,
                   taken, destructor, responses, cancelledKeys>>

\* The key has a context: the callback joins it.
Associate(r) ==
    /\ call[r] = "idle" /\ destructor = "alive"
    /\ active_reqs_[KeyOf[r]] # None
    /\ LET c == active_reqs_[KeyOf[r]] IN
        /\ callbacks_' = [callbacks_ EXCEPT ![c] = @ \cup {r}]
        /\ joined' = [joined EXCEPT ![r] = c]
    /\ call' = [call EXCEPT ![r] = "returned"]
    /\ UNCHANGED <<active_reqs_, token_, operation, toInvoke, canceller,
                   taken, destructor, responses, cancelledKeys>>

\* Mutant of NewContext: the key is not looked up.
NewContextAlways(r) ==
    /\ call[r] = "idle" /\ destructor = "alive"
    /\ active_reqs_' = [active_reqs_ EXCEPT ![KeyOf[r]] = r]
    /\ callbacks_' = [callbacks_ EXCEPT ![r] = {r}]
    /\ joined' = [joined EXCEPT ![r] = r]
    /\ call' = [call EXCEPT ![r] = "execute"]
    /\ UNCHANGED <<token_, operation, toInvoke, canceller, taken, destructor,
                   responses, cancelledKeys>>

\* The key has no context: a new one is registered.
NewContext(r) ==
    /\ call[r] = "idle" /\ destructor = "alive"
    /\ active_reqs_[KeyOf[r]] = None
    /\ active_reqs_' = [active_reqs_ EXCEPT ![KeyOf[r]] = r]
    /\ callbacks_' = [callbacks_ EXCEPT ![r] = {r}]
    /\ joined' = [joined EXCEPT ![r] = r]
    /\ call' = [call EXCEPT ![r] = "execute"]
    /\ UNCHANGED <<token_, operation, toInvoke, canceller, taken, destructor,
                   responses, cancelledKeys>>

\* execute_fn(callback) starts the operation, which may call back before
\* execute_fn has returned.
Execute(r) ==
    /\ call[r] = "execute"
    /\ operation' = [operation EXCEPT ![r] = "running"]
    /\ call' = [call EXCEPT ![r] = "executing"]
    /\ UNCHANGED <<active_reqs_, callbacks_, token_, toInvoke, canceller,
                   taken, destructor, responses, joined, cancelledKeys>>

\* execute_fn returns the token, which is stored without holding mutex_.
StoreToken(r) ==
    /\ call[r] = "executing"
    /\ token_' = token_ \cup {r}
    /\ call' = [call EXCEPT ![r] = "returned"]
    /\ UNCHANGED <<active_reqs_, callbacks_, operation, toInvoke, canceller,
                   taken, destructor, responses, joined, cancelledKeys>>

-----------------------------------------------------------------------------
(***************************************************************************)
(* The provider calls the callback of its operation c once, with its       *)
(* result, or with an error, which is also what cancelling it leads to.    *)
(***************************************************************************)
ProviderCallsBack(c) ==
    /\ operation[c] = "running"
    /\ operation' = [operation EXCEPT ![c] = "calling"]
    /\ UNCHANGED <<active_reqs_, callbacks_, call, token_, toInvoke,
                   canceller, taken, destructor, responses, joined,
                   cancelledKeys>>

\* Mutant of OnRequestCompleted: the context stays in active_reqs_.
OnRequestCompletedKeeps(c) ==
    /\ operation[c] = "calling" /\ MutexFree
    /\ LET context == active_reqs_[KeyOf[c]] IN
        toInvoke' = [toInvoke EXCEPT ![c] =
                        IF context = None THEN {} ELSE callbacks_[context]]
    /\ operation' = [operation EXCEPT ![c] = "invoking"]
    /\ UNCHANGED <<active_reqs_, callbacks_, call, token_, canceller, taken,
                   destructor, responses, joined, cancelledKeys>>

\* onRequestCompleted: take the context that the key has now.
OnRequestCompleted(c) ==
    /\ operation[c] = "calling" /\ MutexFree
    /\ LET context == active_reqs_[KeyOf[c]] IN
        toInvoke' = [toInvoke EXCEPT ![c] =
                        IF context = None THEN {} ELSE callbacks_[context]]
    /\ active_reqs_' = [active_reqs_ EXCEPT ![KeyOf[c]] = None]
    /\ operation' = [operation EXCEPT ![c] = "invoking"]
    /\ UNCHANGED <<callbacks_, call, token_, canceller, taken, destructor,
                   responses, joined, cancelledKeys>>

\* ... and then, without the lock, invoke its callbacks.
InvokeCallback(c) ==
    /\ operation[c] = "invoking"
    /\ \E r \in toInvoke[c] :
        /\ Invoke(r, c)
        /\ toInvoke' = [toInvoke EXCEPT ![c] = @ \ {r}]
    /\ UNCHANGED <<active_reqs_, callbacks_, call, token_, operation,
                   canceller, taken, destructor, joined, cancelledKeys>>

CompletionReturns(c) ==
    /\ operation[c] = "invoking" /\ toInvoke[c] = {}
    /\ operation' = [operation EXCEPT ![c] = "finished"]
    /\ UNCHANGED <<active_reqs_, callbacks_, call, token_, toInvoke,
                   canceller, taken, destructor, responses, joined,
                   cancelledKeys>>

-----------------------------------------------------------------------------
(***************************************************************************)
(* onRequestCancelled, called through the token that ExecuteOrAssociate    *)
(* returned.  The token may be used at any time, also more than once.      *)
(***************************************************************************)
MayCancel(r) == call[r] = "returned" /\ canceller[r] = "idle" /\ MutexFree

CancelFindsNothing(r) ==
    /\ MayCancel(r)
    /\ active_reqs_[KeyOf[r]] = None
    /\ UNCHANGED vars

CancelTakesContext(r) ==
    /\ MayCancel(r)
    /\ active_reqs_[KeyOf[r]] # None
    /\ cancelledKeys' = cancelledKeys \cup {KeyOf[r]}
    /\ taken' = [taken EXCEPT ![r] = active_reqs_[KeyOf[r]]]
    /\ active_reqs_' = [active_reqs_ EXCEPT ![KeyOf[r]] = None]
    /\ canceller' = [canceller EXCEPT ![r] = "took"]
    /\ UNCHANGED <<callbacks_, call, token_, operation, toInvoke, destructor,
                   responses, joined>>

\* The context taken does not hold this request: nothing more is done.
CancelNotFound(r) ==
    /\ canceller[r] = "took"
    /\ r \notin callbacks_[taken[r]]
    /\ canceller' = [canceller EXCEPT ![r] = "idle"]
    /\ taken' = [taken EXCEPT ![r] = None]
    /\ UNCHANGED <<active_reqs_, callbacks_, call, token_, operation,
                   toInvoke, destructor, responses, joined, cancelledKeys>>

(***************************************************************************)
(* The last callback of the context cancels the operation.  The provider   *)
(* may call back at once, inside cancel(); a token that is not assigned    *)
(* yet does nothing.                                                       *)
(***************************************************************************)
CancelOperation(r) ==
    /\ canceller[r] = "took"
    /\ r \in callbacks_[taken[r]]
    /\ \/ UNCHANGED operation
       \/ /\ Cardinality(callbacks_[taken[r]]) <= 1
          /\ taken[r] \in token_
          /\ operation[taken[r]] = "running"
          /\ operation' = [operation EXCEPT ![taken[r]] = "calling"]
    /\ canceller' = [canceller EXCEPT ![r] = "invoke"]
    /\ UNCHANGED <<active_reqs_, callbacks_, call, token_, toInvoke, taken,
                   destructor, responses, joined, cancelledKeys>>

\* Remove the callback and invoke it.
CancelInvokes(r) ==
    /\ canceller[r] = "invoke"
    /\ callbacks_' = [callbacks_ EXCEPT ![taken[r]] = @ \ {r}]
    /\ Invoke(r, cancelled_)
    /\ canceller' = [canceller EXCEPT ![r] = "idle"]
    /\ taken' = [taken EXCEPT ![r] = None]
    /\ UNCHANGED <<active_reqs_, call, token_, operation, toInvoke,
                   destructor, joined, cancelledKeys>>

-----------------------------------------------------------------------------
(***************************************************************************)
(* ~MultiRequestContext.  It locks mutex_ and cancels until active_reqs_   *)
(* is empty.  An operation that calls back inside cancel() does so on this *)
(* thread, which may lock the recursive mutex again; an operation that     *)
(* calls back on another thread leaves the loop as it was.                 *)
(***************************************************************************)
DestructorLocks ==
    /\ destructor = "alive"
    /\ \A r \in Requests : call[r] \in {"idle", "returned"}
    /\ destructor' = "draining"
    /\ UNCHANGED <<active_reqs_, callbacks_, call, token_, operation,
                   toInvoke, canceller, taken, responses, joined,
                   cancelledKeys>>

FirstActive(k) ==
    /\ active_reqs_[k] # None
    /\ \A j \in Keys : j < k => active_reqs_[j] = None

\* cancel() returns and the context is still there: the loop goes round.
DestructorSpins(k) ==
    /\ destructor = "draining"
    /\ FirstActive(k)
    /\ UNCHANGED vars

\* cancel() calls back: the context is removed and its callbacks invoked.
DestructorCancels(k) ==
    /\ destructor = "draining"
    /\ FirstActive(k)
    /\ LET c == active_reqs_[k] IN
        /\ c \in token_ /\ operation[c] = "running"
        /\ operation' = [operation EXCEPT ![c] = "finished"]
        /\ responses' = [r \in Requests |->
                            IF r \in callbacks_[c] THEN Append(responses[r], c)
                            ELSE responses[r]]
    /\ active_reqs_' = [active_reqs_ EXCEPT ![k] = None]
    /\ cancelledKeys' = cancelledKeys \cup {k}
    /\ UNCHANGED <<callbacks_, call, token_, toInvoke, canceller, taken,
                   destructor, joined>>

DestructorReturns ==
    /\ destructor = "draining"
    /\ \A k \in Keys : active_reqs_[k] = None
    /\ destructor' = "destroyed"
    /\ UNCHANGED <<active_reqs_, callbacks_, call, token_, operation,
                   toInvoke, canceller, taken, responses, joined,
                   cancelledKeys>>

\* The object is gone; nothing has to happen any more.
Destroyed ==
    /\ destructor = "destroyed"
    /\ UNCHANGED vars

CallStep(r) == Execute(r) \/ StoreToken(r)

CancelStep(r) == CancelNotFound(r) \/ CancelOperation(r) \/ CancelInvokes(r)

OperationStep(c) ==
    \/ ProviderCallsBack(c)
    \/ OnRequestCompleted(c)
    \/ InvokeCallback(c)
    \/ CompletionReturns(c)

Next ==
    \/ \E r \in Requests :
        \/ Associate(r) \/ NewContext(r) \/ CallStep(r)
        \/ CancelFindsNothing(r) \/ CancelTakesContext(r) \/ CancelStep(r)
        \/ OperationStep(r)
    \/ \E k \in Keys : DestructorCancels(k) \/ DestructorSpins(k)
    \/ DestructorLocks \/ DestructorReturns \/ Destroyed

(***************************************************************************)
(* Fairness: a call of ExecuteOrAssociate or of cancel() that has begun    *)
(* goes on, and the provider reports every operation.  Nobody has to       *)
(* request, to cancel or to destroy anything.                              *)
(***************************************************************************)
Fairness ==
    /\ \A r \in Requests : /\ WF_vars(CallStep(r))
                           /\ WF_vars(CancelStep(r))
                           /\ WF_vars(OperationStep(r))
    /\ WF_vars(DestructorReturns)

Spec == Init /\ [][Next]_vars /\ Fairness

-----------------------------------------------------------------------------
TypeOK ==
    /\ active_reqs_ \in [Keys -> Requests \cup {None}]
    /\ callbacks_ \in [Requests -> SUBSET Requests]
    /\ call \in [Requests -> {"idle", "execute", "executing", "returned"}]
    /\ token_ \subseteq Requests
    /\ operation \in [Requests -> {"none", "running", "calling", "invoking",
                                   "finished"}]
    /\ toInvoke \in [Requests -> SUBSET Requests]
    /\ canceller \in [Requests -> {"idle", "took", "invoke"}]
    /\ taken \in [Requests -> Requests \cup {None}]
    /\ destructor \in {"alive", "draining", "destroyed"}
    /\ responses \in [Requests -> Seq(Requests \cup {cancelled_})]
    /\ joined \in [Requests -> Requests \cup {None}]
    /\ cancelledKeys \subseteq Keys
    /\ \A r \in Requests : taken[r] = None <=> canceller[r] = "idle"

(***************************************************************************)
(* No callback is ever invoked twice, whatever the order of completion,    *)
(* cancel() and destruction: whoever removes a context from active_reqs_   *)
(* is the only one to invoke its callbacks.                                *)
(***************************************************************************)
AtMostOneResponse == \A r \in Requests : Len(responses[r]) <= 1

(***************************************************************************)
(* Requests are coalesced: as long as no token of a key is cancelled, at   *)
(* most one operation of that key is on its way.                           *)
(***************************************************************************)
OneOperationPerKey ==
    \A c, d \in Requests :
        /\ operation[c] \in {"running", "calling"}
        /\ operation[d] \in {"running", "calling"}
        /\ KeyOf[c] = KeyOf[d]
        /\ KeyOf[c] \notin cancelledKeys
        => c = d

(***************************************************************************)
(* A response comes from an operation of the request's own key, and, as    *)
(* long as no token of that key is cancelled, from the very operation the  *)
(* request joined.                                                         *)
(***************************************************************************)
ResponseFromOwnOperation ==
    \A r \in Requests : \A i \in DOMAIN responses[r] :
        LET c == responses[r][i] IN
            \/ c = cancelled_ /\ KeyOf[r] \in cancelledKeys
            \/ c = joined[r]
            \/ KeyOf[c] = KeyOf[r] /\ KeyOf[r] \in cancelledKeys

(***************************************************************************)
(* A context in active_reqs_ is never left behind by its operation: the    *)
(* operation has still to run onRequestCompleted.                          *)
(***************************************************************************)
ActiveIsServed ==
    \A k \in Keys : active_reqs_[k] # None =>
        operation[active_reqs_[k]] \in {"none", "running", "calling"}

(***************************************************************************)
(* cancellation_token_ is stored without the lock, yet whoever uses it     *)
(* finds it assigned: the canceller that is the last of its context, and   *)
(* the destructor.                                                         *)
(***************************************************************************)
TokenAssignedWhenUsed ==
    /\ \A r \in Requests :
         canceller[r] = "took" /\ callbacks_[taken[r]] = {r}
            => taken[r] \in token_
    /\ destructor = "draining" =>
         \A k \in Keys : active_reqs_[k] # None => active_reqs_[k] \in token_

(***************************************************************************)
(* The requests of a key share its operation: there is one, it answers     *)
(* those who joined it, a context whose callbacks wait has it still to     *)
(* come, and whoever cancels it finds its token.                           *)
(***************************************************************************)
RequestsShareOperation ==
    /\ OneOperationPerKey
    /\ ResponseFromOwnOperation
    /\ ActiveIsServed
    /\ TokenAssignedWhenUsed

Requested(r) == call[r] # "idle"

Answered(r) == responses[r] # <<>>

(***************************************************************************)
(* Every request is answered, unless a token of its key is cancelled or    *)
(* the MultiRequestContext is destroyed.                                   *)
(***************************************************************************)
AnsweredUnlessCancelled ==
    \A r \in Requests :
        Requested(r) ~> \/ Answered(r)
                        \/ KeyOf[r] \in cancelledKeys
                        \/ destructor # "alive"

(***************************************************************************)
(* The destructor cancels all requests, "replying on the underlying        *)
(* provider to invoke onRequestCompleted which in turn invokes all the     *)
(* callbacks", and returns.  An operation that calls back on another       *)
(* thread waits for the mutex the destructor holds.                        *)
(***************************************************************************)
DestructorFinishes == destructor = "draining" ~> destructor = "destroyed"
=============================================================================
