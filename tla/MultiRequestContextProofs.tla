--------------------- MODULE MultiRequestContextProofs ---------------------
(***************************************************************************)
(* No callback of a MultiRequestContext is invoked twice, and requests of  *)
(* a key share its operation: proofs for every set of requests and keys.   *)
(***************************************************************************)
EXTENDS MultiRequestContext, SequenceTheorems, TLAPS

(***************************************************************************)
(* The callback of a request that has not been answered is in one place    *)
(* only: in the one context it joined, which is registered in active_reqs_ *)
(* or in the hands of the one canceller that removed it, or among those an *)
(* operation is about to invoke.                                           *)
(***************************************************************************)
Live(c) == active_reqs_[KeyOf[c]] = c \/ \E q \in Requests : taken[q] = c

ActiveOwned ==
    \A k \in Keys : active_reqs_[k] # None =>
        KeyOf[active_reqs_[k]] = k /\ call[active_reqs_[k]] # "idle"

TakenOwned ==
    \A q \in Requests : taken[q] # None =>
        /\ active_reqs_[KeyOf[taken[q]]] # taken[q]
        /\ call[taken[q]] # "idle"
        /\ \A p \in Requests : taken[p] = taken[q] => p = q

CallbackOwned ==
    \A c, r \in Requests : r \in callbacks_[c] =>
        /\ joined[r] = c
        /\ Live(c) => /\ responses[r] = <<>>
                      /\ \A d \in Requests : r \notin toInvoke[d]

InvokeOwned ==
    \A c, r \in Requests : r \in toInvoke[c] =>
        /\ responses[r] = <<>>
        /\ operation[c] = "invoking"
        /\ \A d \in Requests : r \in toInvoke[d] => d = c

IdleUntouched ==
    \A r \in Requests : call[r] = "idle" =>
        /\ joined[r] = None
        /\ responses[r] = <<>>
        /\ \A d \in Requests : r \notin toInvoke[d]

CancellerHolds ==
    \A r \in Requests : canceller[r] = "invoke" => r \in callbacks_[taken[r]]

OperationStartsOnce ==
    \A r \in Requests :
        call[r] \in {"idle", "execute"} => operation[r] = "none"

Ownership ==
    /\ ActiveOwned
    /\ TakenOwned
    /\ CallbackOwned
    /\ InvokeOwned
    /\ IdleUntouched
    /\ CancellerHolds
    /\ OperationStartsOnce
    /\ AtMostOneResponse

(***************************************************************************)
(* A context is served by the operation of its creator, whose callback it  *)
(* holds and whose token it has by the time that call returns.  Without a  *)
(* cancel() nobody but the operation takes it away.                        *)
(***************************************************************************)
JoinedKey == \A r \in Requests : joined[r] # None => KeyOf[joined[r]] = KeyOf[r]

ContextJoined ==
    /\ \A k \in Keys : active_reqs_[k] # None => joined[active_reqs_[k]] = active_reqs_[k]
    /\ \A q \in Requests : taken[q] # None => joined[taken[q]] = taken[q]

CreatorHeld == \A c \in Requests : call[c] \in {"execute", "executing"} => c \in callbacks_[c]

TokenStored == \A c \in Requests : joined[c] = c /\ call[c] = "returned" => c \in token_

CancellerReturned ==
    \A r \in Requests : canceller[r] # "idle" => call[r] = "returned" /\ KeyOf[r] \in cancelledKeys

DrainingSettled ==
    destructor = "draining" => \A r \in Requests : call[r] \in {"idle", "returned"}

OperationActive ==
    \A c \in Requests :
        /\ KeyOf[c] \notin cancelledKeys
        /\ operation[c] \in {"running", "calling"} \/ call[c] = "execute"
        => active_reqs_[KeyOf[c]] = c

InvokesOwn ==
    \A c, r \in Requests : r \in toInvoke[c] =>
        \/ c = joined[r]
        \/ KeyOf[c] = KeyOf[r] /\ KeyOf[r] \in cancelledKeys

Sharing ==
    /\ JoinedKey
    /\ ContextJoined
    /\ CreatorHeld
    /\ TokenStored
    /\ CancellerReturned
    /\ DrainingSettled
    /\ OperationActive
    /\ InvokesOwn
    /\ ActiveIsServed
    /\ ResponseFromOwnOperation

-----------------------------------------------------------------------------
\* The constructor's state is well typed.
LEMMA TypeInit == Init => TypeOK
<1> SUFFICES ASSUME Init PROVE TypeOK
  OBVIOUS
<1>1. \A r \in Requests : taken[r] = None <=> canceller[r] = "idle"
  BY DEF Init
<1>2. responses \in [Requests -> Seq(Requests \cup {cancelled_})]
  BY EmptySeq DEF Init
<1> QED
  BY <1>1, <1>2, SMTT(30) DEF Init, TypeOK

\* Every step of ExecuteOrAssociate, onRequestCompleted, onRequestCancelled
\* and the destructor keeps the types.
LEMMA TypeNext == TypeOK /\ [Next]_vars => TypeOK'
<1> SUFFICES ASSUME TypeOK, [Next]_vars PROVE TypeOK'
  OBVIOUS
<1> USE MultiRequestConstants DEF TypeOK
<1>1. ASSUME NEW r \in Requests, Associate(r) PROVE TypeOK'
  BY <1>1 DEF Associate
<1>2. ASSUME NEW r \in Requests, NewContext(r) PROVE TypeOK'
  BY <1>2 DEF NewContext
<1>3. ASSUME NEW r \in Requests, Execute(r) PROVE TypeOK'
  BY <1>3 DEF Execute
<1>4. ASSUME NEW r \in Requests, StoreToken(r) PROVE TypeOK'
  BY <1>4 DEF StoreToken
<1>5. ASSUME NEW r \in Requests, ProviderCallsBack(r) PROVE TypeOK'
  BY <1>5 DEF ProviderCallsBack
<1>6. ASSUME NEW r \in Requests, OnRequestCompleted(r) PROVE TypeOK'
  BY <1>6 DEF OnRequestCompleted
<1>7. ASSUME NEW r \in Requests, InvokeCallback(r) PROVE TypeOK'
  BY <1>7 DEF InvokeCallback, Invoke, cancelled_
<1>8. ASSUME NEW r \in Requests, CompletionReturns(r) PROVE TypeOK'
  BY <1>8 DEF CompletionReturns
<1>9. ASSUME NEW r \in Requests, CancelFindsNothing(r) PROVE TypeOK'
  BY <1>9 DEF CancelFindsNothing, MayCancel, vars
<1>10. ASSUME NEW r \in Requests, CancelTakesContext(r) PROVE TypeOK'
  <2>1. active_reqs_[KeyOf[r]] \in Requests
    BY <1>10 DEF CancelTakesContext
  <2>2. \A q \in Requests : taken'[q] = None <=> canceller'[q] = "idle"
    BY <1>10, <2>1 DEF CancelTakesContext, MayCancel
  <2> QED
    BY <1>10, <2>1, <2>2 DEF CancelTakesContext, MayCancel
<1>11. ASSUME NEW r \in Requests, CancelNotFound(r) PROVE TypeOK'
  BY <1>11 DEF CancelNotFound
<1>12. ASSUME NEW r \in Requests, CancelOperation(r) PROVE TypeOK'
  BY <1>12 DEF CancelOperation
<1>13. ASSUME NEW r \in Requests, CancelInvokes(r) PROVE TypeOK'
  BY <1>13 DEF CancelInvokes, Invoke, cancelled_
<1>14. ASSUME NEW k \in Keys, DestructorCancels(k) PROVE TypeOK'
  BY <1>14 DEF DestructorCancels, FirstActive
<1>15. ASSUME NEW k \in Keys, DestructorSpins(k) PROVE TypeOK'
  BY <1>15 DEF DestructorSpins, FirstActive, vars
<1>16. CASE DestructorLocks
  BY <1>16 DEF DestructorLocks
<1>17. CASE DestructorReturns
  BY <1>17 DEF DestructorReturns
<1>18. CASE Destroyed
  BY <1>18 DEF Destroyed, vars
<1>19. CASE UNCHANGED vars
  BY <1>19 DEF vars
<1> QED
  BY <1>1, <1>2, <1>3, <1>4, <1>5, <1>6, <1>7, <1>8, <1>9, <1>10,
     <1>11, <1>12, <1>13, <1>14, <1>15, <1>16, <1>17, <1>18, <1>19, Zenon
  DEF Next, CallStep, CancelStep, OperationStep

\* Before the first call nobody holds a callback.
LEMMA OwnershipInit == Init => Ownership
<1> SUFFICES ASSUME Init PROVE Ownership
  OBVIOUS
<1>1. \A r \in Requests : Len(responses[r]) <= 1
  BY EmptySeq DEF Init
<1> QED
  BY <1>1, MultiRequestConstants
  DEF Init, Ownership, ActiveOwned, TakenOwned, CallbackOwned, InvokeOwned,
      IdleUntouched, CancellerHolds, OperationStartsOnce, AtMostOneResponse

\* A request that has not called yet is in no context.
LEMMA IdleNotHeld ==
  ASSUME TypeOK, Ownership, NEW r \in Requests, call[r] = "idle"
  PROVE  /\ \A c \in Requests : r \notin callbacks_[c]
         /\ \A q \in Requests : taken[q] # r
         /\ \A k \in Keys : active_reqs_[k] # r
  BY MultiRequestConstants
  DEF TypeOK, Ownership, ActiveOwned, TakenOwned, CallbackOwned, IdleUntouched

\* Answering a request that was not answered leaves it with one response.
LEMMA OneMoreResponse ==
  ASSUME TypeOK, NEW r \in Requests, responses[r] = <<>>,
         NEW x \in Requests \cup {cancelled_}
  PROVE  Len(Append(responses[r], x)) = 1
  BY EmptySeq, AppendProperties DEF TypeOK

\* Every step hands a callback from one holder to another, or invokes it and
\* lets go of it: completion, cancel() and the destructor never share one.
LEMMA OwnershipNext == TypeOK /\ Ownership /\ [Next]_vars => Ownership'
<1> SUFFICES ASSUME TypeOK, Ownership, [Next]_vars PROVE Ownership'
  OBVIOUS
<1> USE MultiRequestConstants DEF TypeOK
<1>1. ASSUME NEW r \in Requests, Associate(r) PROVE Ownership'
  <2>1. ActiveOwned'
    BY <1>1 DEF Associate, Ownership, ActiveOwned
  <2>2. TakenOwned'
    BY <1>1 DEF Associate, Ownership, TakenOwned
  <2>3. CallbackOwned'
    BY <1>1, IdleNotHeld
    DEF Associate, Ownership, CallbackOwned, Live, IdleUntouched
  <2>4. IdleUntouched'
    BY <1>1 DEF Associate, Ownership, IdleUntouched
  <2>5. CancellerHolds'
    BY <1>1 DEF Associate, Ownership, CancellerHolds
  <2>6. OperationStartsOnce'
    BY <1>1 DEF Associate, Ownership, OperationStartsOnce
  <2>7. InvokeOwned' /\ AtMostOneResponse'
    BY <1>1 DEF Associate, Ownership, InvokeOwned, AtMostOneResponse
  <2> QED
    BY <2>1, <2>2, <2>3, <2>4, <2>5, <2>6, <2>7 DEF Ownership
<1>2. ASSUME NEW r \in Requests, NewContext(r) PROVE Ownership'
  <2>1. ActiveOwned'
    BY <1>2 DEF NewContext, Ownership, ActiveOwned
  <2>2. TakenOwned'
    BY <1>2 DEF NewContext, Ownership, TakenOwned
  <2>3. CallbackOwned'
    BY <1>2, IdleNotHeld
    DEF NewContext, Ownership, CallbackOwned, Live, IdleUntouched
  <2>4. IdleUntouched'
    BY <1>2 DEF NewContext, Ownership, IdleUntouched
  <2>5. CancellerHolds'
    BY <1>2, IdleNotHeld DEF NewContext, Ownership, CancellerHolds
  <2>6. OperationStartsOnce'
    BY <1>2 DEF NewContext, Ownership, OperationStartsOnce
  <2>7. InvokeOwned' /\ AtMostOneResponse'
    BY <1>2 DEF NewContext, Ownership, InvokeOwned, AtMostOneResponse
  <2> QED
    BY <2>1, <2>2, <2>3, <2>4, <2>5, <2>6, <2>7 DEF Ownership
<1>3. ASSUME NEW r \in Requests, Execute(r) PROVE Ownership'
  <2>1. ActiveOwned'
    BY <1>3 DEF Execute, Ownership, ActiveOwned
  <2>2. TakenOwned'
    BY <1>3 DEF Execute, Ownership, TakenOwned
  <2>3. InvokeOwned'
    BY <1>3 DEF Execute, Ownership, InvokeOwned, OperationStartsOnce
  <2>4. IdleUntouched'
    BY <1>3 DEF Execute, Ownership, IdleUntouched
  <2>5. OperationStartsOnce'
    BY <1>3 DEF Execute, Ownership, OperationStartsOnce
  <2>6. CallbackOwned' /\ CancellerHolds' /\ AtMostOneResponse'
    BY <1>3
    DEF Execute, Ownership, CallbackOwned, CancellerHolds,
        AtMostOneResponse, Live
  <2> QED
    BY <2>1, <2>2, <2>3, <2>4, <2>5, <2>6 DEF Ownership
<1>4. ASSUME NEW r \in Requests, StoreToken(r) PROVE Ownership'
  <2>1. ActiveOwned'
    BY <1>4 DEF StoreToken, Ownership, ActiveOwned
  <2>2. TakenOwned'
    BY <1>4 DEF StoreToken, Ownership, TakenOwned
  <2>3. IdleUntouched'
    BY <1>4 DEF StoreToken, Ownership, IdleUntouched
  <2>4. OperationStartsOnce'
    BY <1>4 DEF StoreToken, Ownership, OperationStartsOnce
  <2>5. CallbackOwned'
    BY <1>4 DEF StoreToken, Ownership, CallbackOwned, Live
  <2>6. InvokeOwned' /\ CancellerHolds' /\ AtMostOneResponse'
    BY <1>4
    DEF StoreToken, Ownership, InvokeOwned, CancellerHolds, AtMostOneResponse
  <2> QED
    BY <2>1, <2>2, <2>3, <2>4, <2>5, <2>6 DEF Ownership
<1>5. ASSUME NEW r \in Requests, ProviderCallsBack(r) PROVE Ownership'
  <2>1. InvokeOwned'
    BY <1>5 DEF ProviderCallsBack, Ownership, InvokeOwned
  <2>2. OperationStartsOnce'
    BY <1>5 DEF ProviderCallsBack, Ownership, OperationStartsOnce
  <2>3. ActiveOwned' /\ TakenOwned' /\ CallbackOwned' /\ IdleUntouched' /\
        CancellerHolds' /\ AtMostOneResponse'
    BY <1>5
    DEF ProviderCallsBack, Ownership, ActiveOwned, TakenOwned,
        CallbackOwned, IdleUntouched, CancellerHolds, AtMostOneResponse,
        Live
  <2> QED
    BY <2>1, <2>2, <2>3 DEF Ownership
<1>6. ASSUME NEW r \in Requests, OnRequestCompleted(r) PROVE Ownership'
  <2>1. ActiveOwned'
    BY <1>6 DEF OnRequestCompleted, Ownership, ActiveOwned
  <2>2. TakenOwned'
    BY <1>6 DEF OnRequestCompleted, Ownership, TakenOwned
  <2>3. CallbackOwned'
    BY <1>6
    DEF OnRequestCompleted, Ownership, CallbackOwned, Live, ActiveOwned,
        TakenOwned
  <2>4. InvokeOwned'
    BY <1>6
    DEF OnRequestCompleted, Ownership, InvokeOwned, CallbackOwned, Live,
        ActiveOwned
  <2>5. IdleUntouched'
    BY <1>6, IdleNotHeld DEF OnRequestCompleted, Ownership, IdleUntouched
  <2>6. OperationStartsOnce'
    BY <1>6 DEF OnRequestCompleted, Ownership, OperationStartsOnce
  <2>7. CancellerHolds' /\ AtMostOneResponse'
    BY <1>6
    DEF OnRequestCompleted, Ownership, CancellerHolds, AtMostOneResponse
  <2> QED
    BY <2>1, <2>2, <2>3, <2>4, <2>5, <2>6, <2>7 DEF Ownership
<1>7. ASSUME NEW r \in Requests, InvokeCallback(r) PROVE Ownership'
  <2>1. CallbackOwned'
    BY <1>7
    DEF InvokeCallback, Invoke, cancelled_, Ownership, CallbackOwned, Live
  <2>2. InvokeOwned'
    BY <1>7 DEF InvokeCallback, Invoke, cancelled_, Ownership, InvokeOwned
  <2>3. IdleUntouched'
    BY <1>7 DEF InvokeCallback, Invoke, cancelled_, Ownership, IdleUntouched
  <2>4. AtMostOneResponse'
    BY <1>7, OneMoreResponse
    DEF InvokeCallback, Invoke, Ownership, InvokeOwned, AtMostOneResponse
  <2>5. ActiveOwned' /\ TakenOwned' /\ CancellerHolds' /\ OperationStartsOnce'
    BY <1>7
    DEF InvokeCallback, Ownership, ActiveOwned, TakenOwned,
        CancellerHolds, OperationStartsOnce
  <2> QED
    BY <2>1, <2>2, <2>3, <2>4, <2>5 DEF Ownership
<1>8. ASSUME NEW r \in Requests, CompletionReturns(r) PROVE Ownership'
  <2>1. InvokeOwned'
    BY <1>8 DEF CompletionReturns, Ownership, InvokeOwned
  <2>2. OperationStartsOnce'
    BY <1>8 DEF CompletionReturns, Ownership, OperationStartsOnce
  <2>3. ActiveOwned' /\ TakenOwned' /\ CallbackOwned' /\ IdleUntouched' /\
        CancellerHolds' /\ AtMostOneResponse'
    BY <1>8
    DEF CompletionReturns, Ownership, ActiveOwned, TakenOwned,
        CallbackOwned, IdleUntouched, CancellerHolds, AtMostOneResponse,
        Live
  <2> QED
    BY <2>1, <2>2, <2>3 DEF Ownership
<1>9. ASSUME NEW r \in Requests, CancelTakesContext(r) PROVE Ownership'
  <2>1. ActiveOwned'
    BY <1>9 DEF CancelTakesContext, MayCancel, Ownership, ActiveOwned
  <2>2. TakenOwned'
    BY <1>9
    DEF CancelTakesContext, MayCancel, Ownership, TakenOwned, ActiveOwned
  <2>3. CallbackOwned'
    BY <1>9
    DEF CancelTakesContext, MayCancel, Ownership, CallbackOwned, Live,
        ActiveOwned
  <2>4. CancellerHolds'
    BY <1>9 DEF CancelTakesContext, MayCancel, Ownership, CancellerHolds
  <2>5. InvokeOwned' /\ IdleUntouched' /\ OperationStartsOnce' /\
        AtMostOneResponse'
    BY <1>9
    DEF CancelTakesContext, Ownership, InvokeOwned, IdleUntouched,
        OperationStartsOnce, AtMostOneResponse
  <2> QED
    BY <2>1, <2>2, <2>3, <2>4, <2>5 DEF Ownership
<1>10. ASSUME NEW r \in Requests, CancelNotFound(r) PROVE Ownership'
  <2>1. TakenOwned'
    BY <1>10 DEF CancelNotFound, Ownership, TakenOwned
  <2>2. CallbackOwned'
    BY <1>10 DEF CancelNotFound, Ownership, CallbackOwned, Live
  <2>3. CancellerHolds'
    BY <1>10 DEF CancelNotFound, Ownership, CancellerHolds
  <2>4. ActiveOwned' /\ InvokeOwned' /\ IdleUntouched' /\
        OperationStartsOnce' /\ AtMostOneResponse'
    BY <1>10
    DEF CancelNotFound, Ownership, ActiveOwned, InvokeOwned,
        IdleUntouched, OperationStartsOnce, AtMostOneResponse
  <2> QED
    BY <2>1, <2>2, <2>3, <2>4 DEF Ownership
<1>11. ASSUME NEW r \in Requests, CancelOperation(r) PROVE Ownership'
  <2>1. InvokeOwned'
    BY <1>11 DEF CancelOperation, Ownership, InvokeOwned
  <2>2. CancellerHolds'
    BY <1>11 DEF CancelOperation, Ownership, CancellerHolds
  <2>3. OperationStartsOnce'
    BY <1>11 DEF CancelOperation, Ownership, OperationStartsOnce
  <2>4. ActiveOwned' /\ TakenOwned' /\ CallbackOwned' /\ IdleUntouched' /\
        AtMostOneResponse'
    BY <1>11
    DEF CancelOperation, Ownership, ActiveOwned, TakenOwned,
        CallbackOwned, IdleUntouched, AtMostOneResponse, Live
  <2> QED
    BY <2>1, <2>2, <2>3, <2>4 DEF Ownership
<1>12. ASSUME NEW r \in Requests, CancelInvokes(r) PROVE Ownership'
  <2>1. TakenOwned'
    BY <1>12 DEF CancelInvokes, Invoke, cancelled_, Ownership, TakenOwned
  <2>2. CallbackOwned'
    BY <1>12
    DEF CancelInvokes, Invoke, Ownership, CallbackOwned, Live,
        CancellerHolds
  <2>3. InvokeOwned'
    <3>1. taken[r] \in Requests /\ r \in callbacks_[taken[r]] /\ Live(taken[r])
      BY <1>12 DEF CancelInvokes, Ownership, CancellerHolds, Live
    <3>2. \A d \in Requests : r \notin toInvoke[d]
      BY <3>1 DEF Ownership, CallbackOwned
    <3> QED
      BY <1>12, <3>2, SMTT(30) DEF CancelInvokes, Invoke, Ownership, InvokeOwned
  <2>4. IdleUntouched'
    BY <1>12, IdleNotHeld
    DEF CancelInvokes, Invoke, Ownership, IdleUntouched, CancellerHolds
  <2>5. CancellerHolds'
    BY <1>12 DEF CancelInvokes, Invoke, cancelled_, Ownership, CancellerHolds
  <2>6. AtMostOneResponse'
    BY <1>12, OneMoreResponse
    DEF CancelInvokes, Invoke, Ownership, AtMostOneResponse,
        CallbackOwned, Live, CancellerHolds
  <2>7. ActiveOwned' /\ OperationStartsOnce'
    BY <1>12 DEF CancelInvokes, Ownership, ActiveOwned, OperationStartsOnce
  <2> QED
    BY <2>1, <2>2, <2>3, <2>4, <2>5, <2>6, <2>7 DEF Ownership
<1>13. ASSUME NEW k \in Keys, DestructorCancels(k) PROVE Ownership'
  <2>1. ActiveOwned'
    BY <1>13 DEF DestructorCancels, FirstActive, Ownership, ActiveOwned
  <2>2. TakenOwned'
    BY <1>13 DEF DestructorCancels, FirstActive, Ownership, TakenOwned
  <2>3. CallbackOwned'
    BY <1>13
    DEF DestructorCancels, FirstActive, Ownership, CallbackOwned, Live,
        ActiveOwned, TakenOwned
  <2>4. InvokeOwned'
    BY <1>13
    DEF DestructorCancels, FirstActive, Ownership, InvokeOwned,
        CallbackOwned, Live, ActiveOwned
  <2>5. IdleUntouched'
    BY <1>13, IdleNotHeld
    DEF DestructorCancels, FirstActive, Ownership, IdleUntouched
  <2>6. OperationStartsOnce'
    BY <1>13
    DEF DestructorCancels, FirstActive, Ownership, OperationStartsOnce
  <2>7. AtMostOneResponse'
    BY <1>13, OneMoreResponse
    DEF DestructorCancels, FirstActive, Ownership, AtMostOneResponse,
        CallbackOwned, Live, ActiveOwned
  <2>8. CancellerHolds'
    BY <1>13 DEF DestructorCancels, Ownership, CancellerHolds
  <2> QED
    BY <2>1, <2>2, <2>3, <2>4, <2>5, <2>6, <2>7, <2>8 DEF Ownership
<1>14. CASE UNCHANGED <<active_reqs_, callbacks_, call, operation, toInvoke,
                      canceller, taken, responses, joined>>
  BY <1>14 DEF Ownership, ActiveOwned, TakenOwned, CallbackOwned, Live,
             InvokeOwned, IdleUntouched, CancellerHolds, OperationStartsOnce,
             AtMostOneResponse
<1> QED
  BY <1>1, <1>2, <1>3, <1>4, <1>5, <1>6, <1>7, <1>8, <1>9, <1>10,
     <1>11, <1>12, <1>13, <1>14
  DEF Next, CallStep, CancelStep, OperationStep, CancelFindsNothing,
      DestructorSpins, DestructorLocks, DestructorReturns, Destroyed, vars

(***************************************************************************)
(* Every callback is invoked at most once, for any number of requests and  *)
(* keys and any interleaving of ExecuteOrAssociate, completion, cancel()   *)
(* and destruction.                                                        *)
(***************************************************************************)
THEOREM ResponseCorrect == Spec => []AtMostOneResponse
<1>1. Ownership => AtMostOneResponse
  BY DEF Ownership
<1> QED
  BY <1>1, TypeInit, TypeNext, OwnershipInit, OwnershipNext, PTL DEF Spec

\* Nobody shares anything before the first call.
LEMMA SharingInit == Init => Sharing
<1> SUFFICES ASSUME Init PROVE Sharing
  OBVIOUS
<1>1. ResponseFromOwnOperation
  BY EmptySeq DEF Init, ResponseFromOwnOperation
<1> QED
  BY <1>1, MultiRequestConstants
  DEF Init, Sharing, JoinedKey, ContextJoined, CreatorHeld, TokenStored, CancellerReturned,
      DrainingSettled, OperationActive, InvokesOwn, ActiveIsServed

\* Every step leaves the contexts with the operations of their creators, and
\* answers with those.
LEMMA SharingNext == TypeOK /\ Ownership /\ Sharing /\ [Next]_vars => Sharing'
<1> SUFFICES ASSUME TypeOK, Ownership, Sharing, [Next]_vars PROVE Sharing'
  OBVIOUS
<1> USE MultiRequestConstants DEF TypeOK
<1>1. ASSUME NEW r \in Requests, Associate(r) PROVE Sharing'
  <2>1. JoinedKey'
    BY <1>1 DEF Associate, Sharing, JoinedKey, Ownership, ActiveOwned
  <2>2. ContextJoined'
    BY <1>1, IdleNotHeld DEF Associate, Sharing, ContextJoined
  <2>3. CreatorHeld'
    BY <1>1 DEF Associate, Sharing, CreatorHeld
  <2>4. TokenStored'
    BY <1>1, IdleNotHeld DEF Associate, Sharing, TokenStored
  <2>5. CancellerReturned'
    BY <1>1 DEF Associate, Sharing, CancellerReturned
  <2>6. DrainingSettled'
    BY <1>1 DEF Associate, Sharing, DrainingSettled
  <2>7. OperationActive'
    BY <1>1 DEF Associate, Sharing, OperationActive
  <2>8. InvokesOwn'
    BY <1>1 DEF Associate, Sharing, InvokesOwn, Ownership, IdleUntouched
  <2>9. ResponseFromOwnOperation'
    BY <1>1 DEF Associate, Sharing, ResponseFromOwnOperation, Ownership, IdleUntouched
  <2>10. ActiveIsServed'
    BY <1>1
    DEF Associate, Sharing, ActiveIsServed
  <2> QED
    BY <2>1, <2>2, <2>3, <2>4, <2>5, <2>6, <2>7, <2>8, <2>9, <2>10 DEF Sharing
<1>2. ASSUME NEW r \in Requests, NewContext(r) PROVE Sharing'
  <2>1. JoinedKey'
    BY <1>2 DEF NewContext, Sharing, JoinedKey
  <2>2. ContextJoined'
    BY <1>2, IdleNotHeld DEF NewContext, Sharing, ContextJoined
  <2>3. CreatorHeld'
    BY <1>2 DEF NewContext, Sharing, CreatorHeld
  <2>4. TokenStored'
    BY <1>2 DEF NewContext, Sharing, TokenStored
  <2>5. CancellerReturned'
    BY <1>2 DEF NewContext, Sharing, CancellerReturned
  <2>6. DrainingSettled'
    BY <1>2 DEF NewContext, Sharing, DrainingSettled
  <2>7. OperationActive'
    BY <1>2 DEF NewContext, Sharing, OperationActive
  <2>8. InvokesOwn'
    BY <1>2 DEF NewContext, Sharing, InvokesOwn, Ownership, IdleUntouched
  <2>9. ActiveIsServed'
    BY <1>2 DEF NewContext, Sharing, ActiveIsServed, Ownership, OperationStartsOnce
  <2>10. ResponseFromOwnOperation'
    BY <1>2 DEF NewContext, Sharing, ResponseFromOwnOperation, Ownership, IdleUntouched
  <2> QED
    BY <2>1, <2>2, <2>3, <2>4, <2>5, <2>6, <2>7, <2>8, <2>9, <2>10 DEF Sharing
<1>3. ASSUME NEW r \in Requests, Execute(r) PROVE Sharing'
  <2>1. CreatorHeld'
    BY <1>3 DEF Execute, Sharing, CreatorHeld
  <2>2. TokenStored'
    BY <1>3 DEF Execute, Sharing, TokenStored
  <2>3. CancellerReturned'
    BY <1>3 DEF Execute, Sharing, CancellerReturned
  <2>4. DrainingSettled'
    BY <1>3 DEF Execute, Sharing, DrainingSettled
  <2>5. OperationActive'
    BY <1>3 DEF Execute, Sharing, OperationActive
  <2>6. ActiveIsServed'
    BY <1>3 DEF Execute, Sharing, ActiveIsServed
  <2>7. JoinedKey' /\ ContextJoined' /\ InvokesOwn' /\ ResponseFromOwnOperation'
    BY <1>3
    DEF Execute, Sharing, JoinedKey, ContextJoined, InvokesOwn, ResponseFromOwnOperation
  <2> QED
    BY <2>1, <2>2, <2>3, <2>4, <2>5, <2>6, <2>7 DEF Sharing
<1>4. ASSUME NEW r \in Requests, StoreToken(r) PROVE Sharing'
  <2>1. CreatorHeld'
    BY <1>4 DEF StoreToken, Sharing, CreatorHeld
  <2>2. TokenStored'
    BY <1>4 DEF StoreToken, Sharing, TokenStored
  <2>3. CancellerReturned'
    BY <1>4 DEF StoreToken, Sharing, CancellerReturned
  <2>4. DrainingSettled'
    BY <1>4 DEF StoreToken, Sharing, DrainingSettled
  <2>5. OperationActive'
    BY <1>4, SMTT(30) DEF StoreToken, Sharing, OperationActive
  <2>6. JoinedKey' /\ ContextJoined' /\ InvokesOwn' /\ ActiveIsServed' /\
        ResponseFromOwnOperation'
    BY <1>4
    DEF StoreToken, Sharing, JoinedKey, ContextJoined, InvokesOwn, ActiveIsServed,
        ResponseFromOwnOperation
  <2> QED
    BY <2>1, <2>2, <2>3, <2>4, <2>5, <2>6 DEF Sharing
<1>5. ASSUME NEW r \in Requests, ProviderCallsBack(r) PROVE Sharing'
  <2>1. OperationActive'
    BY <1>5 DEF ProviderCallsBack, Sharing, OperationActive
  <2>2. ActiveIsServed'
    BY <1>5, SMTT(30) DEF ProviderCallsBack, Sharing, ActiveIsServed
  <2>3. JoinedKey' /\ ContextJoined' /\ CreatorHeld' /\ TokenStored' /\
        CancellerReturned' /\ DrainingSettled' /\ InvokesOwn' /\
        ResponseFromOwnOperation'
    BY <1>5
    DEF ProviderCallsBack, Sharing, JoinedKey, ContextJoined, CreatorHeld, TokenStored,
        CancellerReturned, DrainingSettled, InvokesOwn, ResponseFromOwnOperation
  <2> QED
    BY <2>1, <2>2, <2>3 DEF Sharing
<1>6. ASSUME NEW r \in Requests, OnRequestCompleted(r) PROVE Sharing'
  <2>1. ContextJoined'
    BY <1>6 DEF OnRequestCompleted, Sharing, ContextJoined
  <2>2. OperationActive'
    BY <1>6 DEF OnRequestCompleted, Sharing, OperationActive, Ownership, OperationStartsOnce
  <2>3. InvokesOwn'
    BY <1>6 DEF OnRequestCompleted, Sharing, InvokesOwn, Ownership, CallbackOwned, ActiveOwned, OperationActive, JoinedKey
  <2>4. ActiveIsServed'
    BY <1>6 DEF OnRequestCompleted, Sharing, ActiveIsServed, Ownership, ActiveOwned
  <2>5. JoinedKey' /\ CreatorHeld' /\ TokenStored' /\ CancellerReturned' /\
        DrainingSettled' /\ ResponseFromOwnOperation'
    BY <1>6
    DEF OnRequestCompleted, Sharing, JoinedKey, CreatorHeld, TokenStored, CancellerReturned,
        DrainingSettled, ResponseFromOwnOperation
  <2> QED
    BY <2>1, <2>2, <2>3, <2>4, <2>5 DEF Sharing
<1>7. ASSUME NEW r \in Requests, InvokeCallback(r) PROVE Sharing'
  <2>1. InvokesOwn'
    BY <1>7 DEF InvokeCallback, Invoke, Sharing, InvokesOwn
  <2>2. ResponseFromOwnOperation'
    BY <1>7 DEF InvokeCallback, Invoke, Sharing, ResponseFromOwnOperation, InvokesOwn
  <2>3. JoinedKey' /\ ContextJoined' /\ CreatorHeld' /\ TokenStored' /\
        CancellerReturned' /\ DrainingSettled' /\ OperationActive' /\ ActiveIsServed'
    BY <1>7
    DEF InvokeCallback, Invoke, Sharing, JoinedKey, ContextJoined, CreatorHeld, TokenStored,
        CancellerReturned, DrainingSettled, OperationActive, ActiveIsServed
  <2> QED
    BY <2>1, <2>2, <2>3 DEF Sharing
<1>8. ASSUME NEW r \in Requests, CompletionReturns(r) PROVE Sharing'
  <2>1. OperationActive'
    BY <1>8 DEF CompletionReturns, Sharing, OperationActive
  <2>2. ActiveIsServed'
    BY <1>8, SMTT(30) DEF CompletionReturns, Sharing, ActiveIsServed, Ownership, ActiveOwned
  <2>3. JoinedKey' /\ ContextJoined' /\ CreatorHeld' /\ TokenStored' /\
        CancellerReturned' /\ DrainingSettled' /\ InvokesOwn' /\
        ResponseFromOwnOperation'
    BY <1>8
    DEF CompletionReturns, Sharing, JoinedKey, ContextJoined, CreatorHeld, TokenStored,
        CancellerReturned, DrainingSettled, InvokesOwn, ResponseFromOwnOperation
  <2> QED
    BY <2>1, <2>2, <2>3 DEF Sharing
<1>9. ASSUME NEW r \in Requests, CancelTakesContext(r) PROVE Sharing'
  <2>1. ContextJoined'
    BY <1>9 DEF CancelTakesContext, MayCancel, Sharing, ContextJoined
  <2>2. CancellerReturned'
    BY <1>9 DEF CancelTakesContext, MayCancel, Sharing, CancellerReturned
  <2>3. OperationActive'
    BY <1>9 DEF CancelTakesContext, MayCancel, Sharing, OperationActive
  <2>4. InvokesOwn'
    BY <1>9 DEF CancelTakesContext, MayCancel, Sharing, InvokesOwn
  <2>5. ActiveIsServed'
    BY <1>9 DEF CancelTakesContext, MayCancel, Sharing, ActiveIsServed
  <2>6. ResponseFromOwnOperation'
    BY <1>9 DEF CancelTakesContext, MayCancel, Sharing, ResponseFromOwnOperation
  <2>7. JoinedKey' /\ CreatorHeld' /\ TokenStored' /\ DrainingSettled'
    BY <1>9
    DEF CancelTakesContext, MayCancel, Sharing, JoinedKey, CreatorHeld, TokenStored,
        DrainingSettled
  <2> QED
    BY <2>1, <2>2, <2>3, <2>4, <2>5, <2>6, <2>7 DEF Sharing
<1>10. ASSUME NEW r \in Requests, CancelNotFound(r) PROVE Sharing'
  <2>1. ContextJoined'
    BY <1>10 DEF CancelNotFound, Sharing, ContextJoined
  <2>2. CancellerReturned'
    BY <1>10, ZenonT(30) DEF CancelNotFound, Sharing, CancellerReturned
  <2>3. JoinedKey' /\ CreatorHeld' /\ TokenStored' /\ DrainingSettled' /\
        OperationActive' /\ InvokesOwn' /\ ActiveIsServed' /\ ResponseFromOwnOperation'
    BY <1>10
    DEF CancelNotFound, Sharing, JoinedKey, CreatorHeld, TokenStored, DrainingSettled,
        OperationActive, InvokesOwn, ActiveIsServed, ResponseFromOwnOperation
  <2> QED
    BY <2>1, <2>2, <2>3 DEF Sharing
<1>11. ASSUME NEW r \in Requests, CancelOperation(r) PROVE Sharing'
  <2>1. CancellerReturned'
    BY <1>11 DEF CancelOperation, Sharing, CancellerReturned
  <2>2. OperationActive'
    BY <1>11 DEF CancelOperation, Sharing, OperationActive
  <2>3. ActiveIsServed'
    BY <1>11 DEF CancelOperation, Sharing, ActiveIsServed
  <2>4. JoinedKey' /\ ContextJoined' /\ CreatorHeld' /\ TokenStored' /\ DrainingSettled'
        /\ InvokesOwn' /\ ResponseFromOwnOperation'
    BY <1>11
    DEF CancelOperation, Sharing, JoinedKey, ContextJoined, CreatorHeld, TokenStored,
        DrainingSettled, InvokesOwn, ResponseFromOwnOperation
  <2> QED
    BY <2>1, <2>2, <2>3, <2>4 DEF Sharing
<1>12. ASSUME NEW r \in Requests, CancelInvokes(r) PROVE Sharing'
  <2>1. ContextJoined'
    BY <1>12 DEF CancelInvokes, Invoke, Sharing, ContextJoined
  <2>2. CreatorHeld'
    BY <1>12, Zenon DEF CancelInvokes, Invoke, Sharing, CreatorHeld, CancellerReturned
  <2>3. CancellerReturned'
    BY <1>12 DEF CancelInvokes, Invoke, Sharing, CancellerReturned
  <2>4. ResponseFromOwnOperation'
    BY <1>12 DEF CancelInvokes, Invoke, Sharing, ResponseFromOwnOperation, CancellerReturned
  <2>5. JoinedKey' /\ TokenStored' /\ DrainingSettled' /\ OperationActive' /\
        InvokesOwn' /\ ActiveIsServed'
    BY <1>12
    DEF CancelInvokes, Invoke, Sharing, JoinedKey, TokenStored, DrainingSettled,
        OperationActive, InvokesOwn, ActiveIsServed
  <2> QED
    BY <2>1, <2>2, <2>3, <2>4, <2>5 DEF Sharing
<1>13. ASSUME NEW k \in Keys, DestructorCancels(k) PROVE Sharing'
  <2>1. ContextJoined'
    BY <1>13 DEF DestructorCancels, FirstActive, Sharing, ContextJoined
  <2>2. CancellerReturned'
    BY <1>13 DEF DestructorCancels, FirstActive, Sharing, CancellerReturned
  <2>3. OperationActive'
    BY <1>13 DEF DestructorCancels, FirstActive, Sharing, OperationActive, Ownership, ActiveOwned
  <2>4. InvokesOwn'
    BY <1>13 DEF DestructorCancels, FirstActive, Sharing, InvokesOwn
  <2>5. ActiveIsServed'
    BY <1>13 DEF DestructorCancels, FirstActive, Sharing, ActiveIsServed, Ownership, ActiveOwned
  <2>6. ResponseFromOwnOperation'
    BY <1>13 DEF DestructorCancels, FirstActive, Sharing, ResponseFromOwnOperation, Ownership, CallbackOwned, ActiveOwned, Live
  <2>7. JoinedKey' /\ CreatorHeld' /\ TokenStored' /\ DrainingSettled'
    BY <1>13
    DEF DestructorCancels, FirstActive, Sharing, JoinedKey, CreatorHeld, TokenStored,
        DrainingSettled
  <2> QED
    BY <2>1, <2>2, <2>3, <2>4, <2>5, <2>6, <2>7 DEF Sharing
<1>14. CASE DestructorLocks
  <2>1. DrainingSettled'
    BY <1>14, SMTT(30) DEF DestructorLocks, Sharing, DrainingSettled
  <2>2. JoinedKey' /\ ContextJoined' /\ CreatorHeld' /\ TokenStored' /\
        CancellerReturned' /\ OperationActive' /\ InvokesOwn' /\ ActiveIsServed' /\
        ResponseFromOwnOperation'
    BY <1>14, ZenonT(30)
    DEF DestructorLocks, Sharing, JoinedKey, ContextJoined, CreatorHeld, TokenStored,
        CancellerReturned, OperationActive, InvokesOwn, ActiveIsServed, ResponseFromOwnOperation
  <2> QED
    BY <2>1, <2>2 DEF Sharing
<1>15. CASE UNCHANGED <<active_reqs_, callbacks_, call, token_, operation, toInvoke, canceller,
                      taken, responses, joined, cancelledKeys>> /\ destructor' # "draining"
  BY <1>15 DEF Sharing, JoinedKey, ContextJoined, CreatorHeld, TokenStored, CancellerReturned,
             DrainingSettled, OperationActive, InvokesOwn, ActiveIsServed,
             ResponseFromOwnOperation
<1>16. CASE UNCHANGED vars
  BY <1>16, ZenonT(30)
  DEF Sharing, JoinedKey, ContextJoined, CreatorHeld, TokenStored, CancellerReturned,
             DrainingSettled, OperationActive, InvokesOwn, ActiveIsServed,
             ResponseFromOwnOperation, vars
<1> QED
  BY <1>1, <1>2, <1>3, <1>4, <1>5, <1>6, <1>7, <1>8, <1>9, <1>10,
     <1>11, <1>12, <1>13, <1>14, <1>15, <1>16
  DEF Next, CallStep, CancelStep, OperationStep, CancelFindsNothing,
      DestructorSpins, DestructorReturns, Destroyed

(***************************************************************************)
(* Requests of a key share one operation, which answers those who joined   *)
(* it, and its token is there for whoever cancels it, for any number of    *)
(* requests and keys.                                                      *)
(***************************************************************************)
THEOREM SharingCorrect == Spec => []RequestsShareOperation
<1>1. ASSUME TypeOK, Ownership, Sharing PROVE RequestsShareOperation
  <2>1. OneOperationPerKey
    BY <1>1 DEF Sharing, OperationActive, OneOperationPerKey
  <2>2. ASSUME NEW r \in Requests, canceller[r] = "took", callbacks_[taken[r]] = {r}
        PROVE  taken[r] \in token_
    <3>1. /\ taken[r] \in Requests /\ call[taken[r]] # "idle" /\ joined[taken[r]] = taken[r]
          /\ call[r] = "returned"
      BY <1>1, <2>2 DEF TypeOK, Ownership, TakenOwned, Sharing, ContextJoined, CancellerReturned
    <3>2. call[taken[r]] = "returned"
      BY <1>1, <2>2, <3>1, Zenon DEF TypeOK, Sharing, CreatorHeld
    <3> QED
      BY <1>1, <3>1, <3>2 DEF Sharing, TokenStored
  <2>3. ASSUME destructor = "draining", NEW k \in Keys, active_reqs_[k] # None
        PROVE  active_reqs_[k] \in token_
    BY <1>1, <2>3 DEF TypeOK, Ownership, ActiveOwned, Sharing, ContextJoined, DrainingSettled,
                      TokenStored
  <2> QED
    BY <1>1, <2>1, <2>2, <2>3 DEF RequestsShareOperation, TokenAssignedWhenUsed, Sharing
<1> QED
  BY <1>1, TypeInit, TypeNext, OwnershipInit, OwnershipNext, SharingInit, SharingNext, PTL
  DEF Spec

=============================================================================
