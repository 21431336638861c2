-------------------------- MODULE OlpClientProofs --------------------------
(***************************************************************************)
(* The attempts of OlpClient::CallApi follow one another, a cancellation   *)
(* finds the one in flight, and the callback is called at most once: a     *)
(* call with retries is a cancellable request, for any number of attempts  *)
(* and cancellers and any settings.                                        *)
(***************************************************************************)
EXTENDS OlpClient, SequenceTheorems, TLAPS

Typed ==
    /\ settings \in Settings
    /\ stack \in [Threads -> Seq(Frames)]
    /\ attempts \in Seq({"sent", "cancelling", "answered"})
    /\ Len(attempts) <= MaxAttempts
    /\ sub_operation_cancel_token_ \in Nat
    /\ is_cancelled_ \in BOOLEAN
    /\ token \in {"none", "held", "dropped"}
    /\ answers \in Seq(Responses)

\* What a thread with the stack s is in.
Answers(s) == s # <<>> /\ s[1].op = "Callback"
Executes(s) == s # <<>> /\ s[1].op = "Execute"
Within(s, ops) == \E j \in DOMAIN s : s[j].op \in ops
HoldsLock(s) == Within(s, {"Execute", "Cancel"})
InCancel(s) == Within(s, {"Cancel"})
CallbackOnTop(s) == \A j \in DOMAIN s : s[j].op = "Callback" => j = 1

(***************************************************************************)
(* The duty to answer the caller is in one place: with the handler, while  *)
(* the last attempt is in flight, or with the one callback that runs, or   *)
(* it is done.                                                             *)
(***************************************************************************)
MutexIsHeld == \A t, u \in Threads : HoldsLock(stack[t]) /\ HoldsLock(stack[u]) => t = u

OneCallback ==
    /\ \A t \in Threads : CallbackOnTop(stack[t])
    /\ \A t, u \in Threads : Answers(stack[t]) /\ Answers(stack[u]) => t = u

CallbackIsLast ==
    \A t \in Threads : Answers(stack[t]) =>
        /\ answers = <<>>
        /\ Top(t).attempt = Len(attempts)
        /\ Len(attempts) > 0
        /\ attempts[Len(attempts)] = "answered"
        /\ Top(t).stage # "called" => Len(attempts) < settings.max_attempts

InFlightIsLast ==
    \A i \in 1 .. Len(attempts) : attempts[i] # "answered" =>
        i = Len(attempts) /\ answers = <<>>

AttemptsAreBounded == Len(attempts) <= 1 \/ Len(attempts) <= settings.max_attempts

NotCalledYet ==
    Len(attempts) = 0 =>
        /\ answers = <<>> /\ token = "none" /\ is_cancelled_ # TRUE
        /\ \A t \in Threads : stack[t] = <<>>

NetworkThreads ==
    \A i \in AttemptIds :
        stack[i] # <<>> => i \in 1 .. Len(attempts) /\ attempts[i] = "answered"

Asked == is_cancelled_ = TRUE \/ \E t \in Threads : InCancel(stack[t])

CancelledIsAsked ==
    /\ \A i \in 1 .. Len(attempts) : attempts[i] = "cancelling" => Asked
    /\ \A t \in Threads : Answers(stack[t]) /\ Top(t).response = "cancelled" => Asked

(***************************************************************************)
(* Without nesting, whoever is in ExecuteOrCancelled is in nothing else,   *)
(* and so the token in the context is that of the attempt in flight.       *)
(***************************************************************************)
NestedInCancel(s) ==
    /\ Len(s) = 2
    /\ "Cancel" \in settings.synchronous
    /\ s[1].op = "Callback" /\ s[1].response = "cancelled" /\ s[1].stage = "called"
    /\ s[2].op = "Cancel"

OnlyNestedInCancel == \A t \in Threads : Len(stack[t]) <= 1 \/ NestedInCancel(stack[t])

ExecutesLast ==
    \A t \in Threads : Executes(stack[t]) => Top(t).attempt = Len(attempts)

CancelFound == Asked => \A i \in 1 .. Len(attempts) : attempts[i] # "sent"

TokenIsCurrent ==
    \A i \in 1 .. Len(attempts) : attempts[i] = "sent" =>
        sub_operation_cancel_token_ = i \/ \E t \in Threads : Executes(stack[t])

Unnested == OnlyNestedInCancel /\ ExecutesLast /\ CancelFound /\ TokenIsCurrent

Inv ==
    /\ Typed
    /\ MutexIsHeld
    /\ OneCallback
    /\ CallbackIsLast
    /\ InFlightIsLast
    /\ AttemptsAreBounded
    /\ NotCalledYet
    /\ NetworkThreads
    /\ CancelledIsAsked
    /\ NeverNested => Unnested

-----------------------------------------------------------------------------
\* What the calls on a thread's stack look like.
LEMMA FrameKinds ==
    ASSUME NEW f \in Frames
    PROVE  /\ f.op \in {"Execute", "Cancel", "Callback"}
           /\ f.attempt \in Nat
           /\ f.op = "Callback" => f.response \in Responses
<1>1. CASE f \in [op : {"Execute", "Cancel"}, attempt : Nat]
  BY <1>1
<1>2. CASE f \in [op : {"Callback"}, attempt : Nat, response : Responses,
                  stage : {"called", "slept", "retries"}]
  BY <1>2
<1> QED
  BY <1>1, <1>2 DEF Frames

\* The frame of a callback that has slept, or goes on to retry.
LEMMA FrameStages ==
    ASSUME NEW f \in Frames, f.op = "Callback", NEW s \in {"slept", "retries"}
    PROVE  LET g == [f EXCEPT !.stage = s]
           IN  /\ g \in Frames
               /\ g.op = "Callback" /\ g.stage = s
               /\ g.attempt = f.attempt /\ g.response = f.response
<1>1. f \in [op : {"Callback"}, attempt : Nat, response : Responses,
             stage : {"called", "slept", "retries"}]
  BY DEF Frames
<1> QED
  BY <1>1 DEF Frames

\* The frames that CallApi, CancelOperation and the handler push.
LEMMA NewFrames ==
    ASSUME NEW i \in Nat
    PROVE  /\ Execute(i) \in Frames /\ Execute(i).op = "Execute" /\ Execute(i).attempt = i
           /\ Cancel(i) \in Frames /\ Cancel(i).op = "Cancel"
           /\ \A r \in Responses :
                /\ Callback(i, r) \in Frames
                /\ Callback(i, r).op = "Callback" /\ Callback(i, r).stage = "called"
                /\ Callback(i, r).attempt = i /\ Callback(i, r).response = r
BY DEF Execute, Cancel, Callback, Frames

\* A frame in front of a stack.
LEMMA Pushed ==
    ASSUME NEW s \in Seq(Frames), NEW f \in Frames
    PROVE  /\ <<f>> \o s \in Seq(Frames)
           /\ Len(<<f>> \o s) = Len(s) + 1
           /\ (<<f>> \o s)[1] = f
           /\ \A j \in 2 .. Len(s) + 1 : (<<f>> \o s)[j] = s[j - 1]
<1>1. <<f>> \in Seq(Frames) /\ Len(<<f>>) = 1 /\ <<f>>[1] = f
  OBVIOUS
<1> QED
  BY <1>1, ConcatProperties

\* Without its first frame.
LEMMA Popped ==
    ASSUME NEW s \in Seq(Frames), s # <<>>
    PROVE  /\ Tail(s) \in Seq(Frames)
           /\ Len(s) \in Nat \ {0} /\ Len(Tail(s)) = Len(s) - 1
           /\ \A j \in 1 .. Len(s) - 1 : Tail(s)[j] = s[j + 1]
BY HeadTailProperties, LenProperties

\* A thread outside of all calls.
LEMMA InNothing ==
    /\ \A ops : ~Within(<<>>, ops)
    /\ ~Answers(<<>>) /\ ~Executes(<<>>) /\ CallbackOnTop(<<>>)
BY DEF Within, Answers, Executes, CallbackOnTop

\* What entering a call says of a thread.
Pushes(s, f, new) ==
    /\ new \in Seq(Frames) /\ new # <<>> /\ new[1] = f
    /\ Len(new) = Len(s) + 1
    /\ Len(s) > 0 => new[2] = s[1]
    /\ Answers(new) <=> f.op = "Callback"
    /\ Executes(new) <=> f.op = "Execute"
    /\ \A ops : Within(new, ops) <=> f.op \in ops \/ Within(s, ops)
    /\ CallbackOnTop(s) /\ ~Answers(s) => CallbackOnTop(new)

\* A frame in front of a stack is entered.
LEMMA Entered ==
    ASSUME NEW s \in Seq(Frames), NEW f \in Frames, NEW new, new = <<f>> \o s
    PROVE  Pushes(s, f, new)
<1>1. /\ new \in Seq(Frames) /\ Len(new) = Len(s) + 1 /\ new[1] = f
      /\ \A j \in 2 .. Len(s) + 1 : new[j] = s[j - 1]
  BY Pushed
<1>2. /\ DOMAIN new = 1 .. Len(s) + 1 /\ DOMAIN s = 1 .. Len(s) /\ Len(s) \in Nat
      /\ \A j \in 1 .. Len(s) : new[j + 1] = s[j] /\ j + 1 \in DOMAIN new
  BY <1>1, LenProperties
<1>3. new # <<>> /\ (Len(s) > 0 => new[2] = s[1])
  BY <1>1, <1>2
<1>4. ASSUME NEW ops, Within(s, ops) PROVE Within(new, ops)
  <2>1. PICK j \in DOMAIN s : s[j].op \in ops
    BY <1>4 DEF Within
  <2>2. j + 1 \in DOMAIN new /\ new[j + 1].op \in ops
    BY <1>2, <2>1
  <2> QED
    BY <2>2 DEF Within
<1>5. ASSUME NEW ops, Within(new, ops), f.op \notin ops PROVE Within(s, ops)
  <2>1. PICK j \in DOMAIN new : new[j].op \in ops
    BY <1>5 DEF Within
  <2>2. j - 1 \in DOMAIN s /\ s[j - 1].op \in ops
    BY <1>1, <1>2, <1>5, <2>1
  <2> QED
    BY <2>2 DEF Within
<1>6. \A ops : f.op \in ops => Within(new, ops)
  BY <1>1, <1>2 DEF Within
<1>7. \A ops : Within(new, ops) <=> f.op \in ops \/ Within(s, ops)
  BY <1>4, <1>5, <1>6
<1>8. CallbackOnTop(s) /\ ~Answers(s) => CallbackOnTop(new)
  BY <1>1, <1>2 DEF CallbackOnTop, Answers
<1> QED
  BY <1>1, <1>3, <1>7, <1>8 DEF Answers, Executes, Pushes

\* What leaving it says.
Pops(s, new) ==
    /\ new \in Seq(Frames)
    /\ Len(s) \in Nat \ {0} /\ Len(new) = Len(s) - 1
    /\ ~Answers(new) /\ CallbackOnTop(new)
    /\ Len(s) > 1 => new[1] = s[2]
    /\ \A ops : Within(s, ops) <=> s[1].op \in ops \/ Within(new, ops)

\* The tail of a stack is what is left.
LEMMA Left ==
    ASSUME NEW s \in Seq(Frames), s # <<>>, CallbackOnTop(s), NEW new, new = Tail(s)
    PROVE  Pops(s, new)
<1>1. /\ new \in Seq(Frames) /\ Len(s) \in Nat \ {0} /\ Len(new) = Len(s) - 1
      /\ \A j \in 1 .. Len(s) - 1 : new[j] = s[j + 1]
  BY Popped
<1>2. /\ DOMAIN new = 1 .. Len(s) - 1 /\ DOMAIN s = 1 .. Len(s)
      /\ \A j \in 2 .. Len(s) : s[j] = new[j - 1] /\ j - 1 \in DOMAIN new
  BY <1>1, LenProperties
<1>3. \A j \in DOMAIN new : new[j].op # "Callback"
  BY <1>1, <1>2 DEF CallbackOnTop
<1>4. ~Answers(new) /\ CallbackOnTop(new)
  BY <1>1, <1>2, <1>3 DEF CallbackOnTop, Answers
<1>5. <<s[1]>> \o new = s /\ s[1] \in Frames
  BY HeadTailProperties, LenProperties, ConcatProperties
<1>6. \A ops : Within(s, ops) <=> s[1].op \in ops \/ Within(new, ops)
  BY <1>1, <1>5, Entered, ZenonT(30) DEF Pushes
<1> QED
  BY <1>1, <1>4, <1>6 DEF Pops

\* What going from a callback on to the next call says.
Replaces(s, f, new) ==
    /\ new \in Seq(Frames) /\ new # <<>> /\ new[1] = f
    /\ Len(new) = Len(s)
    /\ Len(s) > 1 => new[2] = s[2]
    /\ Answers(new) <=> f.op = "Callback"
    /\ Executes(new) <=> f.op = "Execute"
    /\ \A ops : Within(new, ops) => f.op \in ops \/ Within(s, ops)
    /\ \A ops : "Callback" \notin ops /\ Within(s, ops) => Within(new, ops)
    /\ CallbackOnTop(new)

\* Another frame in the place of the topmost one.
LEMMA Became ==
    ASSUME NEW s \in Seq(Frames), Answers(s), CallbackOnTop(s), NEW f \in Frames,
           NEW new, new = <<f>> \o Tail(s)
    PROVE  Replaces(s, f, new)
<1>1. s # <<>> /\ s[1].op = "Callback"
  BY DEF Answers
<1>2. Pops(s, Tail(s))
  BY <1>1, Left, Zenon
<1>3. Tail(s) \in Seq(Frames)
  BY <1>2 DEF Pops
<1>4. Pushes(Tail(s), f, new)
  BY <1>3, Entered, Zenon
<1>5. new \in Seq(Frames) /\ new # <<>> /\ new[1] = f
  BY <1>4 DEF Pushes
<1>6. Len(new) = Len(s) /\ (Len(s) > 1 => new[2] = s[2])
  BY <1>2, <1>4 DEF Pushes, Pops
<1>7. \A ops : Within(new, ops) => f.op \in ops \/ Within(s, ops)
  BY <1>2, <1>4, Zenon DEF Pushes, Pops
<1>8. \A ops : "Callback" \notin ops /\ Within(s, ops) => Within(new, ops)
  BY <1>1, <1>2, <1>4, Zenon DEF Pushes, Pops
<1>9. /\ CallbackOnTop(new)
      /\ Answers(new) <=> f.op = "Callback"
      /\ Executes(new) <=> f.op = "Execute"
  BY <1>2, <1>4, Zenon DEF Pushes, Pops
<1> QED
  BY <1>5, <1>6, <1>7, <1>8, <1>9, Zenon DEF Replaces

\* The stacks after a thread has entered a call,
LEMMA Entering ==
    ASSUME Typed, NEW t \in Threads, NEW f \in Frames, Enter(t, f)
    PROVE  /\ stack' \in [Threads -> Seq(Frames)]
           /\ \A u \in Threads \ {t} : stack'[u] = stack[u]
           /\ Pushes(stack[t], f, stack'[t])
<1>1. stack[t] \in Seq(Frames) /\ stack'[t] = <<f>> \o stack[t]
  BY DEF Typed, Enter
<1>2. Pushes(stack[t], f, stack'[t])
  BY <1>1, Entered, Zenon
<1>3. stack'[t] \in Seq(Frames)
  BY <1>2 DEF Pushes
<1> QED
  BY <1>2, <1>3 DEF Typed, Enter

\* has left one,
LEMMA Leaving ==
    ASSUME Typed, OneCallback, NEW t \in Threads, stack[t] # <<>>, Leave(t)
    PROVE  /\ stack' \in [Threads -> Seq(Frames)]
           /\ \A u \in Threads \ {t} : stack'[u] = stack[u]
           /\ Pops(stack[t], stack'[t])
<1>1. stack[t] \in Seq(Frames) /\ stack'[t] = Tail(stack[t]) /\ CallbackOnTop(stack[t])
  BY DEF Typed, Leave, OneCallback
<1>2. Pops(stack[t], stack'[t])
  BY <1>1, Left, Zenon
<1>3. stack'[t] \in Seq(Frames)
  BY <1>2 DEF Pops
<1> QED
  BY <1>2, <1>3 DEF Typed, Leave

\* and goes from its callback on to the next call.
LEMMA Becoming ==
    ASSUME Typed, OneCallback, NEW t \in Threads, Answers(stack[t]),
           NEW f \in Frames, Become(t, f)
    PROVE  /\ stack' \in [Threads -> Seq(Frames)]
           /\ \A u \in Threads \ {t} : stack'[u] = stack[u]
           /\ Replaces(stack[t], f, stack'[t])
<1>1. /\ stack[t] \in Seq(Frames) /\ stack'[t] = <<f>> \o Tail(stack[t])
      /\ CallbackOnTop(stack[t])
  BY DEF Typed, Become, OneCallback
<1>2. Replaces(stack[t], f, stack'[t])
  BY <1>1, Became, Zenon
<1>3. stack'[t] \in Seq(Frames)
  BY <1>2 DEF Replaces
<1> QED
  BY <1>2, <1>3 DEF Typed, Become

\* The mutex_ of the context, and whether its token was used, in these terms.
LEMMA Locking ==
    ASSUME Typed
    PROVE  /\ \A t \in Threads : Locks(t) <=> HoldsLock(stack[t])
           /\ \A t \in Threads : CanLock(t) => \A u \in Threads \ {t} : ~HoldsLock(stack[u])
           /\ \A t \in Threads : InCancel(stack[t]) => HoldsLock(stack[t])
           /\ CancelRequested <=> Asked
<1>1. \A t \in Threads : \A j \in DOMAIN stack[t] :
          stack[t][j].op \in {"Execute", "Cancel", "Callback"}
  BY FrameKinds, ElementOfSeq, LenProperties DEF Typed
<1>2. \A t \in Threads : Locks(t) <=> HoldsLock(stack[t])
  BY <1>1 DEF Locks, HoldsLock, Within
<1>3. \A t \in Threads : InCancel(stack[t]) => HoldsLock(stack[t])
  BY DEF InCancel, HoldsLock, Within
<1>4. \A t \in Threads :
          InCancel(stack[t]) <=> \E j \in DOMAIN stack[t] : stack[t][j].op = "Cancel"
  BY DEF InCancel, Within
<1>5. is_cancelled_ <=> is_cancelled_ = TRUE
  BY DEF Typed
<1>6. CancelRequested <=> Asked
  BY <1>4, <1>5, Zenon DEF CancelRequested, Asked
<1> QED
  BY <1>2, <1>3, <1>6 DEF CanLock

\* A stack that is not nested otherwise has one call left, and not one of
\* ExecuteOrCancelled.
LEMMA LeftUnnested ==
    ASSUME NEW s \in Seq(Frames), Len(s) <= 1 \/ NestedInCancel(s), NEW new, Pops(s, new)
    PROVE  Len(new) <= 1 /\ ~Executes(new)
<1>1. new \in Seq(Frames) /\ Len(s) \in Nat \ {0} /\ Len(new) = Len(s) - 1
  BY DEF Pops
<1>2. CASE Len(s) <= 1
  BY <1>1, <1>2 DEF Executes
<1>3. CASE NestedInCancel(s)
  <2>1. Len(new) = 1 /\ new[1].op = "Cancel"
    BY <1>1, <1>3 DEF NestedInCancel, Pops
  <2> QED
    BY <2>1 DEF Executes
<1> QED
  BY <1>2, <1>3

\* A thread that is in a call, and not in a callback inside CancelOperation.
LEMMA OneCall ==
    ASSUME Typed, OnlyNestedInCancel, NEW t \in Threads, stack[t] # <<>>,
           ~NestedInCancel(stack[t])
    PROVE  Len(stack[t]) = 1
<1>1. Len(stack[t]) <= 1 /\ stack[t] \in Seq(Frames)
  BY DEF Typed, OnlyNestedInCancel
<1>2. Len(stack[t]) \in Nat \ {0}
  BY <1>1, EmptySeq, Zenon
<1>3. \A n \in Nat \ {0} : n <= 1 => n = 1
  OBVIOUS
<1> QED
  BY <1>1, <1>2, <1>3, Zenon

\* Nothing has happened before the call.
LEMMA InvInit == Init => Inv
<1> SUFFICES ASSUME Init PROVE Inv
  OBVIOUS
<1>1. /\ \A t \in Threads : stack[t] = <<>>
      /\ attempts = <<>> /\ answers = <<>> /\ token = "none"
      /\ is_cancelled_ \in BOOLEAN /\ is_cancelled_ # TRUE
  BY Zenon DEF Init
<1>2. Len(<<>>) = 0 /\ <<>> \in Seq(Frames)
  OBVIOUS
<1>3. /\ \A ops : ~Within(<<>>, ops)
      /\ ~Answers(<<>>) /\ CallbackOnTop(<<>>) /\ ~Executes(<<>>)
  BY InNothing
<1>4. Typed
  BY <1>1, <1>2, OlpClientConstants DEF Init, Typed
<1>5. MutexIsHeld /\ OneCallback /\ CallbackIsLast /\ ~Asked
  BY <1>1, <1>2, <1>3, Zenon
  DEF MutexIsHeld, HoldsLock, OneCallback, CallbackIsLast, Asked, InCancel
<1>6. InFlightIsLast /\ AttemptsAreBounded
  BY <1>1, <1>2 DEF InFlightIsLast, AttemptsAreBounded
<1>7. NotCalledYet /\ NetworkThreads
  BY <1>1, Zenon DEF NotCalledYet, NetworkThreads, AttemptIds, Threads
<1>8. CancelledIsAsked /\ Unnested
  BY <1>1, <1>2, <1>3, <1>5
  DEF CancelledIsAsked, Unnested, OnlyNestedInCancel, ExecutesLast, CancelFound,
      TokenIsCurrent
<1> QED
  BY <1>4, <1>5, <1>6, <1>7, <1>8 DEF Inv

\* The return of ExecuteOrCancelled: only the token in the context changes.
LEMMA ExecuteReturnsKeeps ==
    ASSUME Inv, NEW t \in Threads, ExecuteReturns(t)
    PROVE  Inv'
<1>0. /\ Typed /\ MutexIsHeld /\ OneCallback /\ CallbackIsLast /\ InFlightIsLast
      /\ AttemptsAreBounded /\ NotCalledYet /\ NetworkThreads /\ CancelledIsAsked
      /\ (NeverNested => Unnested)
  BY DEF Inv
<1>1. /\ settings' = settings /\ attempts' = attempts /\ answers' = answers
      /\ is_cancelled_' = is_cancelled_ /\ sub_operation_cancel_token_' = Top(t).attempt
      /\ token' = token \/ token' = "held"
  BY DEF ExecuteReturns
<1>2. /\ stack[t] # <<>> /\ Top(t) = stack[t][1] /\ Top(t) \in Frames
      /\ Top(t).op = "Execute" /\ Top(t).attempt \in Nat /\ Executes(stack[t])
  BY <1>0, FrameKinds DEF ExecuteReturns, In, Typed, Top, Executes
<1>3. /\ stack' \in [Threads -> Seq(Frames)]
      /\ \A u \in Threads \ {t} : stack'[u] = stack[u]
      /\ Pops(stack[t], stack'[t])
  BY <1>0, <1>2, Leaving DEF ExecuteReturns
<1>4. Typed'
  BY <1>0, <1>1, <1>2, <1>3, OlpClientConstants DEF Typed
<1>5. MutexIsHeld'
  BY <1>0, <1>1, <1>2, <1>3 DEF MutexIsHeld, HoldsLock, Pops
<1>6. OneCallback'
  BY <1>0, <1>1, <1>2, <1>3, Zenon DEF OneCallback, Pops
<1>7. CallbackIsLast'
  BY <1>0, <1>1, <1>2, <1>3, SMTT(30) DEF CallbackIsLast, Top, Pops
<1>8. InFlightIsLast'
  BY <1>0, <1>1, <1>2, <1>3 DEF InFlightIsLast
<1>9. AttemptsAreBounded'
  BY <1>0, <1>1, <1>2, <1>3 DEF AttemptsAreBounded
<1>10. NotCalledYet'
  BY <1>0, <1>1, <1>2, <1>3 DEF NotCalledYet, Pops
<1>11. NetworkThreads'
  BY <1>0, <1>1, <1>2, <1>3, OlpClientConstants DEF NetworkThreads, AttemptIds, Threads
<1>12. CancelledIsAsked'
  BY <1>0, <1>1, <1>2, <1>3, Zenon DEF CancelledIsAsked, Asked, InCancel, Top, Pops
<1>13. ASSUME NeverNested' PROVE Unnested'
  <2>0. NeverNested /\ OnlyNestedInCancel /\ ExecutesLast /\ CancelFound /\ TokenIsCurrent
    BY <1>0, <1>13, <1>1 DEF NeverNested, Unnested
  <2>1. Len(stack'[t]) <= 1 /\ ~Executes(stack'[t])
    BY <1>0, <1>3, <2>0, LeftUnnested, Zenon DEF Typed, OnlyNestedInCancel
  <2>2. OnlyNestedInCancel'
    BY <1>0, <1>1, <1>2, <1>3, <2>1, <2>0 DEF OnlyNestedInCancel, NestedInCancel
  <2>3. ExecutesLast'
    BY <1>0, <1>1, <1>2, <1>3, <2>1, <2>0 DEF ExecutesLast, Top
  <2>4. CancelFound'
    BY <1>0, <1>1, <1>2, <1>3, <2>1, <2>0, ZenonT(30) DEF CancelFound, Asked, InCancel, Pops
  <2>5. TokenIsCurrent'
    BY <1>0, <1>1, <1>2, <1>3, <2>1, <2>0
    DEF TokenIsCurrent, ExecutesLast, InFlightIsLast, Top
  <2> QED
    BY <2>2, <2>3, <2>4, <2>5 DEF Unnested
<1> QED
  BY <1>4, <1>5, <1>6, <1>7, <1>8, <1>9, <1>10, <1>11, <1>12, <1>13 DEF Inv

\* The return of CancelOperation, which sets is_cancelled_ and forgets the token.
LEMMA CancelReturnsKeeps ==
    ASSUME Inv, NEW t \in Threads, CancelReturns(t)
    PROVE  Inv'
<1>0. /\ Typed /\ MutexIsHeld /\ OneCallback /\ CallbackIsLast /\ InFlightIsLast
      /\ AttemptsAreBounded /\ NotCalledYet /\ NetworkThreads /\ CancelledIsAsked
      /\ (NeverNested => Unnested)
  BY DEF Inv
<1>1. /\ settings' = settings /\ attempts' = attempts /\ answers' = answers
      /\ is_cancelled_' = TRUE /\ sub_operation_cancel_token_' = 0 /\ token' = token
  BY DEF CancelReturns
<1>2. /\ stack[t] # <<>> /\ Top(t) = stack[t][1] /\ Top(t) \in Frames
      /\ Top(t).op = "Cancel" /\ Within(stack[t], {"Cancel"})
  BY <1>0, LenProperties DEF CancelReturns, In, Typed, Top, Within
<1>3. /\ stack' \in [Threads -> Seq(Frames)]
      /\ \A u \in Threads \ {t} : stack'[u] = stack[u]
      /\ Pops(stack[t], stack'[t])
  BY <1>0, <1>2, Leaving DEF CancelReturns
<1>4. Typed'
  BY <1>0, <1>1, <1>3, OlpClientConstants DEF Typed
<1>5. MutexIsHeld'
  BY <1>0, <1>3 DEF MutexIsHeld, HoldsLock, Pops
<1>6. OneCallback'
  BY <1>0, <1>3, Zenon DEF OneCallback, Pops
<1>7. CallbackIsLast'
  BY <1>0, <1>1, <1>2, <1>3 DEF CallbackIsLast, Top, Pops
<1>8. InFlightIsLast'
  BY <1>0, <1>1 DEF InFlightIsLast
<1>9. AttemptsAreBounded'
  BY <1>0, <1>1 DEF AttemptsAreBounded
<1>10. NotCalledYet'
  BY <1>0, <1>1, <1>3 DEF NotCalledYet, Pops
<1>11. NetworkThreads'
  BY <1>0, <1>1, <1>2, <1>3 DEF NetworkThreads, Threads
<1>12. CancelledIsAsked'
  BY <1>1 DEF CancelledIsAsked, Asked, Top
<1>13. ASSUME NeverNested' PROVE Unnested'
  <2>0. NeverNested /\ OnlyNestedInCancel /\ ExecutesLast /\ CancelFound /\ TokenIsCurrent
    BY <1>0, <1>13, <1>1 DEF NeverNested, Unnested
  <2>1. Len(stack'[t]) <= 1 /\ ~Executes(stack'[t])
    BY <1>0, <1>3, <2>0, LeftUnnested, Zenon DEF Typed, OnlyNestedInCancel
  <2>2. OnlyNestedInCancel'
    BY <1>1, <1>3, <2>1, <2>0 DEF OnlyNestedInCancel, NestedInCancel
  <2>3. ExecutesLast'
    BY <1>1, <1>3, <2>1, <2>0 DEF ExecutesLast, Top
  <2>4. CancelFound'
    BY <1>1, <1>2, <2>0 DEF CancelFound, Asked, InCancel
  <2>5. TokenIsCurrent'
    BY <1>1, <1>2, <1>3, <2>1, <2>0 DEF TokenIsCurrent, CancelFound, Asked, InCancel
  <2> QED
    BY <2>2, <2>3, <2>4, <2>5 DEF Unnested
<1> QED
  BY <1>4, <1>5, <1>6, <1>7, <1>8, <1>9, <1>10, <1>11, <1>12, <1>13 DEF Inv

\* The callback answers the caller: with the response of the last attempt, or
\* because the context is gone or cancelled.
LEMMA AnswerKeeps ==
    ASSUME Inv, NEW t \in Threads, In(t, "Callback"),
           NEW r \in Responses, GiveAnswer(t, r)
    PROVE  Inv'
<1>0. /\ Typed /\ MutexIsHeld /\ OneCallback /\ CallbackIsLast /\ InFlightIsLast
      /\ AttemptsAreBounded /\ NotCalledYet /\ NetworkThreads /\ CancelledIsAsked
      /\ (NeverNested => Unnested)
  BY DEF Inv
<1>1. /\ settings' = settings /\ attempts' = attempts /\ token' = token
      /\ is_cancelled_' = is_cancelled_
      /\ sub_operation_cancel_token_' = sub_operation_cancel_token_
  BY DEF GiveAnswer, contextVars
<1>2. /\ stack[t] # <<>> /\ Top(t) = stack[t][1] /\ Top(t) \in Frames
      /\ Top(t).op = "Callback" /\ Answers(stack[t])
  BY <1>0 DEF In, Typed, Top, Answers
<1>3. answers' \in Seq(Responses) /\ answers = <<>>
  BY <1>0, <1>2 DEF GiveAnswer, Typed, CallbackIsLast
<1>4. /\ stack' \in [Threads -> Seq(Frames)]
      /\ \A u \in Threads \ {t} : stack'[u] = stack[u]
      /\ Pops(stack[t], stack'[t])
  BY <1>0, <1>2, Leaving DEF GiveAnswer
<1>5. \A u \in Threads : ~Answers(stack'[u])
  BY <1>0, <1>2, <1>4 DEF OneCallback, Pops
<1>6. Typed'
  BY <1>0, <1>1, <1>3, <1>4, <1>5, OlpClientConstants DEF Typed
<1>7. MutexIsHeld'
  BY <1>0, <1>1, <1>2, <1>3, <1>4, <1>5 DEF MutexIsHeld, HoldsLock, Pops
<1>8. OneCallback'
  BY <1>0, <1>4, <1>5 DEF OneCallback, Pops
<1>9. CallbackIsLast'
  BY <1>5 DEF CallbackIsLast, Top
<1>10. InFlightIsLast'
  BY <1>0, <1>1, <1>2 DEF InFlightIsLast, CallbackIsLast
<1>11. AttemptsAreBounded'
  BY <1>0, <1>1 DEF AttemptsAreBounded
<1>12. NotCalledYet'
  BY <1>0, <1>1, <1>2, <1>3, <1>4 DEF NotCalledYet, Typed
<1>13. NetworkThreads'
  BY <1>0, <1>1, <1>2, <1>4, Zenon DEF NetworkThreads, Threads
<1>14. CancelledIsAsked'
  BY <1>0, <1>1, <1>2, <1>4, Zenon DEF CancelledIsAsked, Asked, InCancel, Top, Pops
<1>15. ASSUME NeverNested' PROVE Unnested'
  <2>0. NeverNested /\ OnlyNestedInCancel /\ ExecutesLast /\ CancelFound /\ TokenIsCurrent
    BY <1>0, <1>15, <1>1 DEF NeverNested, Unnested
  <2>1. Len(stack'[t]) <= 1 /\ ~Executes(stack'[t])
    BY <1>0, <1>4, <2>0, LeftUnnested, Zenon DEF Typed, OnlyNestedInCancel
  <2>2. OnlyNestedInCancel'
    BY <1>1, <1>4, <2>1, <2>0 DEF OnlyNestedInCancel, NestedInCancel
  <2>3. ExecutesLast'
    BY <1>1, <1>4, <2>1, <2>0 DEF ExecutesLast, Top
  <2>4. CancelFound'
    BY <1>1, <1>2, <1>4, <1>5, <2>0, SMTT(30) DEF CancelFound, Asked, InCancel, Pops
  <2>5. TokenIsCurrent'
    BY <1>0, <1>1, <1>2 DEF TokenIsCurrent, CallbackIsLast, InFlightIsLast
  <2> QED
    BY <2>2, <2>3, <2>4, <2>5 DEF Unnested
<1> QED
  BY <1>6, <1>7, <1>8, <1>9, <1>10, <1>11, <1>12, <1>13, <1>14, <1>15 DEF Inv

\* The callback sleeps, and then locks the context: below max_attempts.
LEMMA StageKeeps ==
    ASSUME Inv, NEW t \in Threads, In(t, "Callback"),
           NEW s \in {"slept", "retries"}, Become(t, [Top(t) EXCEPT !.stage = s]),
           UNCHANGED <<settings, attempts, contextVars, token, answers>>,
           Len(attempts) < settings.max_attempts,
           NeverNested => Len(stack[t]) = 1
    PROVE  Inv'
<1>0. /\ Typed /\ MutexIsHeld /\ OneCallback /\ CallbackIsLast /\ InFlightIsLast
      /\ AttemptsAreBounded /\ NotCalledYet /\ NetworkThreads /\ CancelledIsAsked
      /\ (NeverNested => Unnested)
  BY DEF Inv
<1>1. /\ settings' = settings /\ attempts' = attempts /\ answers' = answers
      /\ is_cancelled_' = is_cancelled_ /\ token' = token
      /\ sub_operation_cancel_token_' = sub_operation_cancel_token_
  BY DEF contextVars
<1>2. /\ stack[t] # <<>> /\ Top(t) = stack[t][1] /\ Top(t) \in Frames
      /\ Top(t).op = "Callback" /\ Answers(stack[t])
  BY <1>0 DEF In, Typed, Top, Answers
<1>3. PICK f \in Frames : /\ f.op = "Callback" /\ f.stage = s /\ Become(t, f)
      /\ f.attempt = Top(t).attempt /\ f.response = Top(t).response
  BY <1>2, FrameStages, ZenonT(30)
<1>4. /\ stack' \in [Threads -> Seq(Frames)]
      /\ \A u \in Threads \ {t} : stack'[u] = stack[u]
      /\ Replaces(stack[t], f, stack'[t])
  BY <1>0, <1>2, <1>3, Becoming
<1>5. Typed'
  BY <1>0, <1>1, <1>4 DEF Typed
<1>6. MutexIsHeld'
  BY <1>0, <1>3, <1>4, Zenon DEF MutexIsHeld, HoldsLock, Replaces
<1>7. OneCallback'
  BY <1>0, <1>1, <1>2, <1>3, <1>4, SMTT(30) DEF OneCallback, Replaces
<1>8. CallbackIsLast'
  BY <1>0, <1>1, <1>2, <1>3, <1>4 DEF CallbackIsLast, Top, Replaces
<1>9. InFlightIsLast'
  BY <1>0 DEF InFlightIsLast
<1>10. AttemptsAreBounded'
  BY <1>0 DEF AttemptsAreBounded
<1>11. NotCalledYet'
  BY <1>0, <1>4 DEF NotCalledYet, Replaces
<1>12. NetworkThreads'
  BY <1>0, <1>1, <1>3, <1>4 DEF NetworkThreads, Threads, Replaces
<1>13. CancelledIsAsked'
  BY <1>0, <1>1, <1>2, <1>3, <1>4, Zenon
  DEF CancelledIsAsked, Asked, InCancel, Top, Replaces
<1>14. ASSUME NeverNested' PROVE Unnested'
  <2>0. NeverNested /\ OnlyNestedInCancel /\ ExecutesLast /\ CancelFound /\ TokenIsCurrent
    BY <1>0, <1>14 DEF NeverNested, Unnested
  <2>1. OnlyNestedInCancel'
    BY <1>4, <2>0 DEF OnlyNestedInCancel, NestedInCancel, Replaces
  <2>2. ExecutesLast'
    BY <1>3, <1>4, <2>0 DEF ExecutesLast, Top, Replaces
  <2>3. CancelFound'
    BY <1>1, <1>3, <1>4, <2>0 DEF CancelFound, Asked, InCancel, Replaces
  <2>4. TokenIsCurrent'
    BY <1>0, <1>2 DEF TokenIsCurrent, CallbackIsLast, InFlightIsLast
  <2> QED
    BY <2>1, <2>2, <2>3, <2>4 DEF Unnested
<1> QED
  BY <1>5, <1>6, <1>7, <1>8, <1>9, <1>10, <1>11, <1>12, <1>13, <1>14 DEF Inv

\* The handler answers the attempt i: a callback starts.
LEMMA CallbackKeeps ==
    ASSUME Inv, NEW t \in Threads, NEW i \in 1 .. Len(attempts), NEW r \in Responses,
           attempts[i] # "answered", attempts' = [attempts EXCEPT ![i] = "answered"],
           UNCHANGED <<settings, contextVars, token, answers>>,
           stack' \in [Threads -> Seq(Frames)],
           \A u \in Threads \ {t} : stack'[u] = stack[u],
           Answers(stack'[t]), CallbackOnTop(stack'[t]),
           stack'[t][1] = Callback(i, r),
           HoldsLock(stack'[t]) => \A u \in Threads \ {t} : ~HoldsLock(stack[u]),
           InCancel(stack[t]) => InCancel(stack'[t]),
           r = "cancelled" => Asked',
           t \in AttemptIds => t = i \/ stack[t] # <<>>,
           NeverNested => Len(stack'[t]) <= 1 \/ NestedInCancel(stack'[t])
    PROVE  Inv'
<1>0. /\ Typed /\ MutexIsHeld /\ OneCallback /\ CallbackIsLast /\ InFlightIsLast
      /\ AttemptsAreBounded /\ NotCalledYet /\ NetworkThreads /\ CancelledIsAsked
      /\ (NeverNested => Unnested)
  BY DEF Inv
<1>1. /\ settings' = settings /\ answers' = answers /\ is_cancelled_' = is_cancelled_
      /\ token' = token /\ sub_operation_cancel_token_' = sub_operation_cancel_token_
  BY DEF contextVars
<1>2. /\ stack'[t][1].op = "Callback" /\ stack'[t][1].attempt = i
      /\ stack'[t][1].stage = "called" /\ stack'[t][1].response = r
  BY NewFrames
<1>3. /\ i = Len(attempts) /\ answers = <<>> /\ Len(attempts) \in Nat \ {0}
      /\ attempts' \in Seq({"sent", "cancelling", "answered"})
      /\ Len(attempts') = Len(attempts)
      /\ \A j \in 1 .. Len(attempts) : attempts'[j] = "answered"
  BY <1>0 DEF Typed, InFlightIsLast
<1>4. \A u \in Threads \ {t} : ~Answers(stack'[u])
  BY <1>0, <1>3, Zenon DEF CallbackIsLast
<1>5. Asked => Asked'
  BY <1>1, ZenonT(30) DEF Asked
<1>6. Typed'
  BY <1>0, <1>1, <1>4 DEF Typed
<1>7. MutexIsHeld'
  BY <1>0, <1>1, <1>3, <1>4, <1>5, ZenonT(30) DEF MutexIsHeld, HoldsLock
<1>8. OneCallback'
  BY <1>0, <1>4 DEF OneCallback
<1>9. CallbackIsLast'
  BY <1>2, <1>3, <1>4 DEF CallbackIsLast, Top
<1>10. InFlightIsLast'
  BY <1>3 DEF InFlightIsLast
<1>11. AttemptsAreBounded'
  BY <1>0, <1>1, <1>2, <1>3, <1>4, <1>5 DEF AttemptsAreBounded
<1>12. NotCalledYet'
  BY <1>0, <1>1, <1>2, <1>4, <1>5 DEF NotCalledYet
<1>13. NetworkThreads'
  <2>1. \A j \in AttemptIds : stack[j] # <<>> => j \in 1 .. Len(attempts)
    BY <1>0, Zenon DEF NetworkThreads
  <2>2. \A j \in AttemptIds : stack'[j] # <<>> => j = i \/ stack[j] # <<>>
    BY Zenon DEF Threads
  <2> QED
    BY <1>3, <2>1, <2>2 DEF NetworkThreads
<1>14. CancelledIsAsked'
  BY <1>2, <1>3, <1>4 DEF CancelledIsAsked, Asked, InCancel, Top
<1>15. ASSUME NeverNested' PROVE Unnested'
  <2>0. NeverNested /\ OnlyNestedInCancel /\ ExecutesLast /\ CancelFound /\ TokenIsCurrent
    BY <1>0, <1>15, ZenonT(30) DEF NeverNested, Unnested
  <2>1. OnlyNestedInCancel'
    BY <1>1, <1>2, <2>0, ZenonT(30) DEF OnlyNestedInCancel, NestedInCancel
  <2>2. ExecutesLast'
    BY <1>2, <1>3, <1>4, <1>5, <2>0, ZenonT(30) DEF ExecutesLast, Top
  <2>3. CancelFound'
    BY <1>3, <1>5 DEF CancelFound, Asked, InCancel
  <2>4. TokenIsCurrent'
    BY <1>2, <1>3, <1>4, <1>5, <2>0 DEF TokenIsCurrent
  <2> QED
    BY <2>1, <2>2, <2>3, <2>4 DEF Unnested
<1> QED
  BY <1>6, <1>7, <1>8, <1>9, <1>10, <1>11, <1>12, <1>13, <1>14, <1>15 DEF Inv

\* The retry: the next attempt is sent.
LEMMA RetryKeeps ==
    ASSUME Inv, NEW t \in Threads, Retry(t)
    PROVE  Inv'
<1>0. /\ Typed /\ MutexIsHeld /\ OneCallback /\ CallbackIsLast /\ InFlightIsLast
      /\ AttemptsAreBounded /\ NotCalledYet /\ NetworkThreads /\ CancelledIsAsked
      /\ (NeverNested => Unnested)
  BY DEF Inv
<1>1. /\ settings' = settings /\ answers' = answers /\ is_cancelled_' = is_cancelled_
      /\ token' = token /\ sub_operation_cancel_token_' = sub_operation_cancel_token_
      /\ is_cancelled_ # TRUE
  BY Zenon DEF Retry, contextVars
<1>2. /\ stack[t] # <<>> /\ Top(t) = stack[t][1] /\ Top(t) \in Frames
      /\ Top(t).op = "Callback" /\ Answers(stack[t]) /\ Top(t).stage = "retries"
  BY <1>0 DEF Retry, InCallback, In, Typed, Top, Answers
<1>3. /\ answers = <<>> /\ Len(attempts) \in Nat
      /\ settings.max_attempts \in 0 .. MaxAttempts
      /\ Len(attempts) < settings.max_attempts
      /\ \A j \in 1 .. Len(attempts) : attempts[j] = "answered"
  BY <1>0, <1>2, OlpClientConstants DEF CallbackIsLast, InFlightIsLast, Typed
<1>4. /\ attempts' \in Seq({"sent", "cancelling", "answered"})
      /\ Len(attempts') = Len(attempts) + 1
      /\ attempts'[Len(attempts) + 1] = "sent"
      /\ \A j \in 1 .. Len(attempts) : attempts'[j] = "answered"
  BY <1>0, <1>3 DEF Retry, Typed
<1>5. PICK f \in Frames : f.op = "Execute" /\ f.attempt = Len(attempts) + 1 /\ Become(t, f)
  BY <1>3, NewFrames DEF Retry
<1>6. /\ stack' \in [Threads -> Seq(Frames)]
      /\ \A u \in Threads \ {t} : stack'[u] = stack[u]
      /\ Replaces(stack[t], f, stack'[t])
  BY <1>0, <1>2, <1>5, Becoming
<1>7. \A u \in Threads \ {t} : ~HoldsLock(stack[u]) /\ ~InCancel(stack[u])
  BY <1>0, Locking DEF Retry
<1>8. \A u \in Threads : ~Answers(stack'[u])
  BY <1>0, <1>2, <1>5, <1>6 DEF OneCallback, Replaces
<1>9. Typed'
  BY <1>0, <1>1, <1>3, <1>4, <1>5, <1>6, <1>7, <1>8, OlpClientConstants DEF Typed
<1>10. MutexIsHeld'
  BY <1>1, <1>4, <1>5, <1>6, <1>7 DEF MutexIsHeld
<1>11. OneCallback'
  BY <1>0, <1>6, <1>8 DEF OneCallback, Replaces
<1>12. CallbackIsLast'
  BY <1>4, <1>8 DEF CallbackIsLast
<1>13. InFlightIsLast'
  BY <1>1, <1>3, <1>4, <1>5, <1>6, <1>7, <1>8 DEF InFlightIsLast
<1>14. AttemptsAreBounded'
  BY <1>1, <1>3, <1>4, <1>6, <1>7 DEF AttemptsAreBounded
<1>15. NotCalledYet'
  BY <1>3, <1>4 DEF NotCalledYet
<1>16. NetworkThreads'
  <2>1. \A j \in AttemptIds : stack[j] # <<>> => j \in 1 .. Len(attempts)
    BY <1>0, Zenon DEF NetworkThreads
  <2>2. \A j \in AttemptIds : stack'[j] # <<>> => stack[j] # <<>>
    BY <1>2, <1>6, Zenon DEF Threads
  <2> QED
    BY <1>3, <1>4, <2>1, <2>2 DEF NetworkThreads
<1>17. CancelledIsAsked'
  BY <1>3, <1>4, <1>8 DEF CancelledIsAsked
<1>18. ASSUME NeverNested' PROVE Unnested'
  <2>0. NeverNested /\ OnlyNestedInCancel /\ ExecutesLast /\ CancelFound /\ TokenIsCurrent
    BY <1>0, <1>18, <1>1 DEF NeverNested, Unnested
  <2>1. Len(stack[t]) = 1
    BY <1>0, <1>2, <2>0, OneCall DEF NestedInCancel
  <2>2. ~Within(stack[t], {"Cancel"})
    BY <1>0, <1>2, <2>1, LenProperties DEF Typed, Within
  <2>3. ~Asked'
    BY <1>1, <1>5, <1>6, <1>7, <2>2, Zenon DEF Asked, InCancel, Replaces
  <2>4. \A u \in Threads \ {t} : ~Executes(stack[u])
    BY <1>0, <1>7 DEF Executes, HoldsLock, Within, Typed
  <2>5. OnlyNestedInCancel'
    BY <1>0, <1>1, <1>6, <1>7, <1>8, <2>1, <2>2, <2>0
    DEF OnlyNestedInCancel, NestedInCancel, Replaces
  <2>6. ExecutesLast'
    BY <1>4, <1>5, <1>6, <1>7, <1>8, <2>4, Zenon DEF ExecutesLast, Top, Replaces
  <2>7. CancelFound'
    BY <1>1, <1>3, <1>4, <1>8, <2>3, <2>4, <2>0 DEF CancelFound
  <2>8. TokenIsCurrent'
    BY <1>3, <1>5, <1>6, <1>8, <2>1, <2>3 DEF TokenIsCurrent, Replaces
  <2> QED
    BY <2>5, <2>6, <2>7, <2>8 DEF Unnested
<1> QED
  BY <1>9, <1>10, <1>11, <1>12, <1>13, <1>14, <1>15, <1>16, <1>17, <1>18 DEF Inv

\* CallApi sends the first attempt.
LEMMA CallApiKeeps ==
    ASSUME Inv, CallApi
    PROVE  Inv'
<1>0. /\ Typed /\ MutexIsHeld /\ OneCallback /\ CallbackIsLast /\ InFlightIsLast
      /\ AttemptsAreBounded /\ NotCalledYet /\ NetworkThreads /\ CancelledIsAsked
      /\ (NeverNested => Unnested)
  BY DEF Inv
<1>1. /\ settings' = settings /\ answers' = answers /\ is_cancelled_' = is_cancelled_
      /\ token' = token /\ sub_operation_cancel_token_' = sub_operation_cancel_token_
      /\ Len(attempts) = 0
  BY DEF CallApi, contextVars
<1>2. /\ Caller \in Threads /\ answers = <<>> /\ is_cancelled_ # TRUE
     
      /\ \A u \in Threads : stack[u] = <<>> /\ ~Answers(stack[u]) /\ \A ops : ~Within(stack[u], ops)
  BY <1>0, <1>1, InNothing, Zenon DEF NotCalledYet, Threads
<1>3. /\ attempts' \in Seq({"sent", "cancelling", "answered"})
      /\ Len(attempts') = 1 /\ attempts'[1] = "sent"
  BY DEF CallApi
<1>4. PICK f \in Frames : f.op = "Execute" /\ f.attempt = 1 /\ Enter(Caller, f)
  BY NewFrames DEF CallApi
<1>5. /\ stack' \in [Threads -> Seq(Frames)]
      /\ \A u \in Threads \ {Caller} : stack'[u] = stack[u]
      /\ Pushes(stack[Caller], f, stack'[Caller])
  BY <1>0, <1>2, <1>4, Entering
<1>6. \A u \in Threads : ~Answers(stack'[u]) /\ ~InCancel(stack'[u])
  <2>1. ~Answers(stack'[Caller]) /\ ~Within(stack'[Caller], {"Cancel"})
    BY <1>2, <1>4, <1>5, Zenon DEF Pushes
  <2> QED
    BY <1>2, <1>5, <2>1, Zenon DEF InCancel
<1>7. Typed'
  BY <1>0, <1>1, <1>3, <1>5, OlpClientConstants DEF Typed
<1>8. MutexIsHeld'
  BY <1>0, <1>2, <1>4, <1>5, ZenonT(30) DEF MutexIsHeld, HoldsLock, Pushes
<1>9. OneCallback'
  BY <1>0, <1>2, <1>5, <1>6 DEF OneCallback, Pushes
<1>10. CallbackIsLast'
  BY <1>6 DEF CallbackIsLast
<1>11. InFlightIsLast'
  BY <1>1, <1>2, <1>3 DEF InFlightIsLast
<1>12. AttemptsAreBounded'
  BY <1>3 DEF AttemptsAreBounded
<1>13. NotCalledYet'
  BY <1>3 DEF NotCalledYet
<1>14. NetworkThreads'
  BY <1>2, <1>5, <1>6, OlpClientConstants DEF NetworkThreads, AttemptIds, Threads
<1>15. CancelledIsAsked'
  BY <1>1, <1>3, <1>6 DEF CancelledIsAsked, Asked, InCancel, Top
<1>16. ASSUME NeverNested' PROVE Unnested'
  <2>0. NeverNested /\ OnlyNestedInCancel /\ ExecutesLast /\ CancelFound /\ TokenIsCurrent
    BY <1>0, <1>16, <1>1, ZenonT(30) DEF NeverNested, Unnested
  <2>1. OnlyNestedInCancel'
    BY <1>2, <1>3, <1>4, <1>5, <1>6, <2>0 DEF OnlyNestedInCancel, NestedInCancel, Pushes
  <2>2. ExecutesLast'
    BY <1>2, <1>3, <1>4, <1>5, <2>0 DEF ExecutesLast, Top, Pushes, Executes
  <2>3. CancelFound'
    BY <1>1, <1>2, <1>3, <1>4, <1>5, <1>6, <2>0, Zenon DEF CancelFound, Asked, InCancel
  <2>4. TokenIsCurrent'
    BY <1>2, <1>3, <1>4, <1>5 DEF TokenIsCurrent, Pushes
  <2> QED
    BY <2>1, <2>2, <2>3, <2>4 DEF Unnested
<1> QED
  BY <1>7, <1>8, <1>9, <1>10, <1>11, <1>12, <1>13, <1>14, <1>15, <1>16 DEF Inv

\* CancelOperation cancels the attempt whose token the context holds.
LEMMA CancelOperationKeeps ==
    ASSUME Inv, NEW c \in Cancellers, CancelOperation(c)
    PROVE  Inv'
<1>0. /\ Typed /\ MutexIsHeld /\ OneCallback /\ CallbackIsLast /\ InFlightIsLast
      /\ AttemptsAreBounded /\ NotCalledYet /\ NetworkThreads /\ CancelledIsAsked
      /\ (NeverNested => Unnested)
  BY DEF Inv
<1>1. /\ settings' = settings /\ answers' = answers /\ is_cancelled_' = is_cancelled_
      /\ token' = token /\ sub_operation_cancel_token_' = sub_operation_cancel_token_
      /\ token = "held" /\ stack[c] = <<>> /\ c \in Threads
  BY DEF CancelOperation, MayCancel, contextVars, Threads
<1>2. /\ attempts' \in Seq({"sent", "cancelling", "answered"})
      /\ Len(attempts') = Len(attempts) /\ Len(attempts) \in Nat
      /\ \A j \in 1 .. Len(attempts) :
             \/ /\ attempts'[j] = attempts[j]
                /\ j = sub_operation_cancel_token_ => attempts[j] # "sent"
             \/ attempts[j] = "sent" /\ attempts'[j] = "cancelling"
  <2> DEFINE i == sub_operation_cancel_token_
  <2>1. CASE InFlight(i)
    <3>1. attempts' = [attempts EXCEPT ![i] = "cancelling"]
      BY <2>1 DEF CancelOperation
    <3> QED
      BY <1>0, <2>1, <3>1 DEF InFlight, Typed
  <2>2. CASE ~InFlight(i)
    <3>1. attempts' = attempts /\ DOMAIN attempts = 1 .. Len(attempts)
      BY <1>0, <2>2, LenProperties DEF CancelOperation, Typed
    <3> QED
      BY <1>0, <2>2, <3>1 DEF InFlight, Typed
  <2> QED
    BY <2>1, <2>2
<1>3. PICK f \in Frames : f.op = "Cancel" /\ Enter(c, f)
  BY <1>0, NewFrames DEF CancelOperation, Typed
<1>4. /\ stack' \in [Threads -> Seq(Frames)]
      /\ \A u \in Threads \ {c} : stack'[u] = stack[u]
      /\ Pushes(stack[c], f, stack'[c])
  BY <1>0, <1>1, <1>3, Entering
<1>5. /\ ~Answers(stack'[c]) /\ CallbackOnTop(stack'[c]) /\ Len(stack'[c]) = 1
      /\ ~Executes(stack'[c]) /\ InCancel(stack'[c])
  BY <1>0, <1>1, <1>3, <1>4 DEF Pushes, InCancel, OneCallback, Answers
<1>6. \A u \in Threads \ {c} : ~HoldsLock(stack[u])
  BY <1>0, <1>1, Locking DEF CancelOperation, MayCancel
<1>7. Asked' /\ c \notin AttemptIds
  BY <1>1, <1>5, OlpClientConstants DEF Asked, AttemptIds
<1>8. Typed'
  BY <1>0, <1>1, <1>2, <1>3, <1>4, OlpClientConstants DEF Typed
<1>9. MutexIsHeld'
  BY <1>1, <1>4, <1>6 DEF MutexIsHeld, HoldsLock
<1>10. OneCallback'
  BY <1>0, <1>4, <1>5, <1>6, Zenon DEF OneCallback
<1>11. CallbackIsLast'
  <2>1. Len(attempts) > 0 /\ attempts[Len(attempts)] = "answered"
           => attempts'[Len(attempts)] = "answered"
    BY <1>2
  <2>2. \A u \in Threads : Answers(stack'[u]) => Answers(stack[u]) /\ stack'[u] = stack[u]
    BY <1>4, <1>5, Zenon
  <2> QED
    BY <1>0, <1>1, <1>2, <2>1, <2>2 DEF CallbackIsLast, Top
<1>12. InFlightIsLast'
  BY <1>0, <1>1, <1>2 DEF InFlightIsLast
<1>13. AttemptsAreBounded'
  BY <1>0, <1>1, <1>2, <1>3 DEF AttemptsAreBounded
<1>14. NotCalledYet'
  BY <1>0, <1>1, <1>2, <1>4 DEF NotCalledYet
<1>15. NetworkThreads'
  BY <1>0, <1>2, <1>4, <1>7, OlpClientConstants, ZenonT(30) DEF NetworkThreads, Threads
<1>16. CancelledIsAsked'
  BY <1>2, <1>3, <1>4, <1>5, <1>6, <1>7 DEF CancelledIsAsked, Asked, InCancel, Top
<1>17. ASSUME NeverNested' PROVE Unnested'
  <2>0. NeverNested /\ OnlyNestedInCancel /\ ExecutesLast /\ CancelFound /\ TokenIsCurrent
    BY <1>0, <1>17, <1>1 DEF NeverNested, Unnested
  <2>1. \A u \in Threads : ~Executes(stack[u])
    BY <1>0, <1>1, <1>6 DEF Executes, HoldsLock, Within, Typed
  <2>2. OnlyNestedInCancel'
    <3>1. \A u \in Threads : Len(stack[u]) <= 1 \/ NestedInCancel(stack[u])
      BY <2>0 DEF OnlyNestedInCancel
    <3>2. Len(stack'[c]) <= 1
      BY <1>5
    <3>3. \A u \in Threads : Len(stack'[u]) <= 1 \/ NestedInCancel(stack'[u])
      BY <1>4, <3>1, <3>2, Zenon
    <3> QED
      BY <1>1, <3>3 DEF OnlyNestedInCancel, NestedInCancel
  <2>3. ExecutesLast'
    BY <1>4, <1>5, <2>1, <2>0 DEF ExecutesLast
  <2>4. CancelFound'
    BY <1>1, <1>2, <2>1, <2>0 DEF CancelFound, TokenIsCurrent
  <2>5. TokenIsCurrent'
    BY <1>2, <1>7, <2>1, <2>0 DEF TokenIsCurrent
  <2> QED
    BY <2>2, <2>3, <2>4, <2>5 DEF Unnested
<1> QED
  BY <1>8, <1>9, <1>10, <1>11, <1>12, <1>13, <1>14, <1>15, <1>16, <1>17 DEF Inv

\* Every step of CallApi, its callbacks, its cancellers and the handler.
LEMMA InvNext == Inv /\ [Next]_vars => Inv'
<1> SUFFICES ASSUME Inv, [Next]_vars PROVE Inv'
  OBVIOUS
<1>0. /\ Typed /\ OneCallback /\ CallbackIsLast /\ InFlightIsLast /\ NetworkThreads
      /\ (NeverNested => OnlyNestedInCancel)
  BY DEF Inv, Unnested
<1>1. CASE CallApi
  BY <1>1, CallApiKeeps
<1>2. ASSUME NEW t \in Threads, ExecuteReturns(t) PROVE Inv'
  BY <1>2, ExecuteReturnsKeeps
<1>3. ASSUME NEW t \in Threads, CallbackAnswers(t) PROVE Inv'
  <2>1. In(t, "Callback") /\ GiveAnswer(t, Top(t).response) /\ Top(t).response \in Responses
    BY <1>0, <1>3, FrameKinds DEF CallbackAnswers, InCallback, In, Top, Typed
  <2> QED
    BY <2>1, AnswerKeeps
<1>4. ASSUME NEW t \in Threads, RetryWithoutContext(t) PROVE Inv'
  BY <1>4, AnswerKeeps DEF RetryWithoutContext, InCallback, Responses
<1>5. ASSUME NEW t \in Threads, RetryCancelled(t) PROVE Inv'
  BY <1>5, AnswerKeeps DEF RetryCancelled, InCallback, Responses
<1>6. ASSUME NEW t \in Threads, CallbackSleeps(t) PROVE Inv'
  <2>1. /\ In(t, "Callback") /\ Answers(stack[t]) /\ Top(t).attempt = Len(attempts)
        /\ Become(t, [Top(t) EXCEPT !.stage = "slept"])
        /\ UNCHANGED <<settings, attempts, contextVars, token, answers>>
    BY <1>0, <1>6 DEF CallbackSleeps, InCallback, In, Answers, Top, CallbackIsLast
  <2>2. Len(attempts) \in Nat /\ settings.max_attempts \in Nat
    BY <1>0, OlpClientConstants DEF Typed
  <2>3. Len(attempts) < settings.max_attempts /\ Top(t).response \in settings.retry_condition
    BY <1>6, <2>1, <2>2 DEF CallbackSleeps, Final
  <2>4. NeverNested => ~NestedInCancel(stack[t])
    BY <2>3 DEF NeverNested, NestedInCancel, Top
  <2>5. NeverNested => Len(stack[t]) = 1
    BY <1>0, <2>1, <2>4, OneCall DEF Answers
  <2> QED
    BY <2>1, <2>3, <2>5, StageKeeps, Zenon
<1>7. ASSUME NEW t \in Threads, RetryWithContext(t) PROVE Inv'
  <2>1. /\ In(t, "Callback") /\ Answers(stack[t]) /\ Top(t).stage = "slept"
        /\ Become(t, [Top(t) EXCEPT !.stage = "retries"])
        /\ UNCHANGED <<settings, attempts, contextVars, token, answers>>
    BY <1>7 DEF RetryWithContext, InCallback, In, Answers, Top
  <2>2. Len(attempts) < settings.max_attempts
    BY <1>0, <2>1 DEF CallbackIsLast
  <2>3. ~NestedInCancel(stack[t])
    BY <2>1 DEF NestedInCancel, Top
  <2>4. NeverNested => Len(stack[t]) = 1
    BY <1>0, <2>1, <2>3, OneCall DEF Answers
  <2> QED
    BY <2>1, <2>2, <2>4, StageKeeps, Zenon
<1>8. ASSUME NEW t \in Threads, Retry(t) PROVE Inv'
  BY <1>8, RetryKeeps
<1>9. ASSUME NEW t \in Threads, CancelReturns(t) PROVE Inv'
  BY <1>9, CancelReturnsKeeps
<1>10. ASSUME NEW t \in Threads, SendAnswers(t) PROVE Inv'
  <2> DEFINE i == Top(t).attempt
  <2>1. /\ stack[t] # <<>> /\ Top(t).op = "Execute" /\ i \in 1 .. Len(attempts)
        /\ attempts[i] # "answered" /\ attempts' = [attempts EXCEPT ![i] = "answered"]
        /\ UNCHANGED <<settings, contextVars, token, answers>>
        /\ ~NeverNested /\ Executes(stack[t]) /\ ~Answers(stack[t]) /\ i \in Nat
    BY <1>0, <1>10, LenProperties
    DEF SendAnswers, In, InFlight, NeverNested, Typed, Top, Executes, Answers
  <2>2. Callback(i, "error") \in Frames /\ Callback(i, "error").op = "Callback"
    BY <2>1, NewFrames, Zenon DEF Responses
  <2>3. /\ stack' \in [Threads -> Seq(Frames)]
        /\ \A u \in Threads \ {t} : stack'[u] = stack[u]
        /\ Pushes(stack[t], Callback(i, "error"), stack'[t])
    BY <1>0, <1>10, <2>2, Entering, ZenonT(30) DEF SendAnswers
  <2>4. /\ Answers(stack'[t]) /\ CallbackOnTop(stack'[t])
        /\ stack'[t][1] = Callback(i, "error")
        /\ Within(stack'[t], {"Execute", "Cancel"}) => Within(stack[t], {"Execute", "Cancel"})
        /\ Within(stack[t], {"Cancel"}) => Within(stack'[t], {"Cancel"})
    BY <1>0, <2>1, <2>2, <2>3 DEF Pushes, OneCallback
  <2>5. /\ HoldsLock(stack'[t]) => \A u \in Threads \ {t} : ~HoldsLock(stack[u])
        /\ InCancel(stack[t]) => InCancel(stack'[t])
    BY <2>4 DEF Inv, MutexIsHeld, HoldsLock, InCancel
  <2> QED
    BY <2>1, <2>3, <2>4, <2>5, CallbackKeeps, Zenon DEF Responses
<1>11. ASSUME NEW i \in AttemptIds, NEW r \in Responses, NetworkAnswers(i, r) PROVE Inv'
  <2>1. /\ i \in 1 .. Len(attempts) /\ i \in Nat /\ i \in Threads
        /\ attempts[i] # "answered" /\ attempts' = [attempts EXCEPT ![i] = "answered"]
        /\ UNCHANGED <<settings, contextVars, token, answers>>
        /\ r = "cancelled" => attempts[i] = "cancelling"
    BY <1>0, <1>11, LenProperties DEF NetworkAnswers, Typed, Threads
  <2>2. Callback(i, r) \in Frames /\ Callback(i, r).op = "Callback"
    BY <2>1, NewFrames
  <2>3. /\ stack' \in [Threads -> Seq(Frames)]
        /\ \A u \in Threads \ {i} : stack'[u] = stack[u]
        /\ Pushes(stack[i], Callback(i, r), stack'[i])
    BY <1>0, <1>11, <2>1, <2>2, Entering DEF NetworkAnswers
  <2>4. stack[i] = <<>>
    BY <1>0, <2>1 DEF NetworkThreads
  <2>5. /\ Answers(stack'[i]) /\ CallbackOnTop(stack'[i]) /\ Len(stack'[i]) = 1
        /\ stack'[i][1] = Callback(i, r)
        /\ ~HoldsLock(stack'[i]) /\ ~InCancel(stack[i])
    BY <2>2, <2>3, <2>4, InNothing DEF Pushes, HoldsLock, InCancel
  <2>6. Len(stack'[i]) <= 1
    BY <2>5
  <2>7. r = "cancelled" => Asked'
    BY <2>1, <2>3, <2>5 DEF Inv, CancelledIsAsked, Asked, contextVars
  <2> QED
    BY <2>1, <2>3, <2>5, <2>6, <2>7, CallbackKeeps, Zenon
<1>12. ASSUME NEW c \in Cancellers, CancelOperation(c) PROVE Inv'
  BY <1>12, CancelOperationKeeps
<1>13. ASSUME NEW c \in Cancellers, CancelOperationAnswered(c) PROVE Inv'
  <2> DEFINE i == sub_operation_cancel_token_
             s == <<Cancel(i)>>
             r == "cancelled"
  <2>0. r \in Responses
    BY DEF Responses
  <2>1. /\ i \in 1 .. Len(attempts) /\ i \in Nat /\ c \in Threads /\ c \notin AttemptIds
        /\ attempts[i] # "answered" /\ attempts' = [attempts EXCEPT ![i] = "answered"]
        /\ UNCHANGED <<settings, contextVars, token, answers>>
        /\ stack[c] = <<>> /\ CanLock(c) /\ "Cancel" \in settings.synchronous
        /\ stack' = [stack EXCEPT ![c] = <<Callback(i, r), Cancel(i)>>]
    BY <1>0, <1>13, LenProperties, OlpClientConstants
    DEF CancelOperationAnswered, MayCancel, InFlight, Typed, Threads, AttemptIds
  <2>2. /\ Callback(i, r) \in Frames /\ Callback(i, r).op = "Callback"
        /\ Callback(i, r).stage = "called" /\ Callback(i, r).response = r
        /\ Cancel(i) \in Frames /\ Cancel(i).op = "Cancel"
    BY <2>0, <2>1, NewFrames
  <2>3. /\ s \in Seq(Frames) /\ Len(s) = 1 /\ s[1].op = "Cancel"
        /\ stack'[c] = <<Callback(i, r)>> \o s
    BY <1>0, <2>1, <2>2 DEF Typed
  <2>4. Pushes(s, Callback(i, r), stack'[c])
    BY <2>2, <2>3, Entered, Zenon
  <2>5. ~Answers(s) /\ CallbackOnTop(s) /\ Within(s, {"Cancel"})
    BY <2>3 DEF Answers, CallbackOnTop, Within
  <2>6. /\ stack' \in [Threads -> Seq(Frames)]
        /\ \A u \in Threads \ {c} : stack'[u] = stack[u]
    BY <1>0, <2>1, <2>4, ZenonT(30) DEF Typed, Pushes
  <2>7. /\ Answers(stack'[c]) /\ CallbackOnTop(stack'[c])
        /\ stack'[c][1] = Callback(i, r) /\ Within(stack'[c], {"Cancel"})
        /\ Len(stack'[c]) = 2 /\ stack'[c][2] = s[1]
    BY <2>2, <2>3, <2>4, <2>5 DEF Pushes
  <2>8. NestedInCancel(stack'[c])
    BY <2>1, <2>2, <2>3, <2>7, ZenonT(30) DEF NestedInCancel
  <2>9. InCancel(stack'[c]) /\ Asked'
    BY <2>1, <2>7, ZenonT(30) DEF InCancel, Asked
  <2>10. \A u \in Threads \ {c} : ~HoldsLock(stack[u])
    BY <1>0, <2>1, Locking, Zenon
  <2> QED
    BY <2>0, <2>1, <2>6, <2>7, <2>8, <2>9, <2>10, CallbackKeeps, Zenon
<1>14. CASE DropToken \/ UNCHANGED vars
  <2>1. /\ UNCHANGED <<settings, stack, attempts, sub_operation_cancel_token_, is_cancelled_,
                       answers>>
        /\ token' = token \/ (token = "held" /\ token' = "dropped")
    BY <1>14 DEF DropToken, vars, contextVars
  <2>2. Typed' /\ NotCalledYet'
    BY <2>1, Zenon DEF Inv, Typed, NotCalledYet
  <2> QED
    BY <2>1, <2>2, Zenon
    DEF Inv, MutexIsHeld, OneCallback, CallbackIsLast, InFlightIsLast, AttemptsAreBounded,
        NetworkThreads, CancelledIsAsked, Asked, Top, NeverNested, Unnested,
        OnlyNestedInCancel, NestedInCancel, ExecutesLast, CancelFound, TokenIsCurrent
<1> QED
  BY <1>1, <1>2, <1>3, <1>4, <1>5, <1>6, <1>7, <1>8, <1>9, <1>10, <1>11, <1>12, <1>13, <1>14,
     Zenon
  DEF Next, ThreadStep, CallbackStep, Finished

(***************************************************************************)
(* The retries and the cancellers never have the callback called twice,    *)
(* nor two attempts in flight (the lambda of GetRetryCallback, and         *)
(* ExecuteOrCancelled and CancelOperation of the context).                 *)
(***************************************************************************)
THEOREM Invariance == Spec => []Inv
BY InvInit, InvNext, PTL DEF Spec

(***************************************************************************)
(* CallApi sends one attempt at a time, at most max(1, max_attempts) of    *)
(* them and none after the answer; and when CancelOperation has returned   *)
(* no attempt is in flight that nobody has cancelled, as long as no retry  *)
(* starts inside ExecuteOrCancelled or CancelOperation.                    *)
(***************************************************************************)
THEOREM AttemptsCorrect == Spec => []AttemptsAreCancelled
<1>1. ASSUME Inv PROVE OneAttemptAtATime
  <2>1. /\ Len(attempts) \in Nat /\ DOMAIN attempts = 1 .. Len(attempts)
        /\ settings.max_attempts \in Nat
    BY <1>1, LenProperties, OlpClientConstants DEF Inv, Typed
  <2>2. Len(attempts) <= Max(1, settings.max_attempts)
    BY <1>1, <2>1 DEF Inv, AttemptsAreBounded, Max
  <2>3. ASSUME NEW i \in DOMAIN attempts, i < Len(attempts) \/ answers # <<>>
        PROVE  attempts[i] = "answered"
    <3>1. i \in 1 .. Len(attempts) /\ (i < Len(attempts) => i # Len(attempts))
      BY <2>1
    <3> QED
      BY <1>1, <2>3, <3>1, Zenon DEF Inv, InFlightIsLast
  <2> QED
    BY <2>2, <2>3 DEF OneAttemptAtATime
<1>2. ASSUME Inv, NeverNested, is_cancelled_
      PROVE  \A i \in DOMAIN attempts : attempts[i] # "sent"
  <2>1. Asked /\ DOMAIN attempts = 1 .. Len(attempts)
    BY <1>2, LenProperties DEF Inv, Typed, Asked
  <2> QED
    BY <1>2, <2>1 DEF Inv, Unnested, CancelFound
<1>3. Inv => AttemptsAreCancelled
  BY <1>1, <1>2
  DEF AttemptsAreCancelled, CancelReachesAttemptUnlessNested, CancelReachesAttempt
<1> QED
  BY <1>3, Invariance, PTL

-----------------------------------------------------------------------------
\* A call a thread enters leaves a cancellation that has begun as it was,
LEMMA AskedEntering ==
    ASSUME Typed, NEW t \in Threads, NEW f \in Frames, Enter(t, f), UNCHANGED is_cancelled_,
           Asked
    PROVE  Asked'
<1>1. /\ \A u \in Threads \ {t} : stack'[u] = stack[u]
      /\ Pushes(stack[t], f, stack'[t])
  BY Entering
<1>2. \A u \in Threads : InCancel(stack[u]) => InCancel(stack'[u])
  BY <1>1 DEF Pushes, InCancel
<1> QED
  BY <1>2, Zenon DEF Asked

\* so does one it leaves, other than CancelOperation,
LEMMA AskedLeaving ==
    ASSUME Typed, OneCallback, NEW t \in Threads, stack[t] # <<>>, Top(t).op # "Cancel",
           Leave(t), UNCHANGED is_cancelled_
    PROVE  Asked <=> Asked'
<1>1. /\ \A u \in Threads \ {t} : stack'[u] = stack[u]
      /\ Pops(stack[t], stack'[t])
  BY Leaving
<1>2. \A u \in Threads : InCancel(stack[u]) <=> InCancel(stack'[u])
  BY <1>1 DEF Pops, InCancel, Top
<1> QED
  BY <1>2, Zenon DEF Asked

\* and so does a callback that goes on to retry.
LEMMA AskedBecoming ==
    ASSUME Typed, OneCallback, NEW t \in Threads, Answers(stack[t]),
           NEW f \in Frames, Become(t, f), UNCHANGED is_cancelled_, Asked
    PROVE  Asked'
<1>1. /\ \A u \in Threads \ {t} : stack'[u] = stack[u]
      /\ Replaces(stack[t], f, stack'[t])
  BY Becoming
<1>2. \A u \in Threads : InCancel(stack[u]) => InCancel(stack'[u])
  BY <1>1 DEF Replaces, InCancel
<1> QED
  BY <1>2, Zenon DEF Asked

\* Whether the token was used, in the next state.
LEMMA AskedNext == Typed' => (CancelRequested' <=> Asked')
<1> SUFFICES ASSUME Typed' PROVE CancelRequested' <=> Asked'
  OBVIOUS
<1>1. \A t \in Threads :
          InCancel(stack'[t]) <=> \E j \in DOMAIN stack'[t] : stack'[t][j].op = "Cancel"
  BY DEF InCancel, Within
<1>2. is_cancelled_' <=> is_cancelled_' = TRUE
  BY DEF Typed
<1> QED
  BY <1>1, <1>2, Zenon DEF CancelRequested, Asked

\* A step in which nobody is answered is a use of the token, or nothing.
LEMMA StepWithoutAnswer ==
    ASSUME Typed, Typed', UNCHANGED answers, (attempts' = <<>>) <=> (attempts = <<>>),
           Asked => Asked'
    PROVE  [Abstract!RequestNext]_(Abstract!requestVars)
<1>1. (CancelRequested <=> Asked) /\ (CancelRequested' <=> Asked')
  BY Locking, AskedNext
<1>2. CancelRequested \in BOOLEAN /\ CancelRequested' \in BOOLEAN
  BY DEF CancelRequested
<1>3. (attempts # <<>>)' = (attempts # <<>>)
  OBVIOUS
<1>4. CASE Asked'
  <2>1. CancelRequested' = TRUE
    BY <1>1, <1>2, <1>4
  <2> QED
    BY <1>3, <2>1 DEF Abstract!RequestNext, Abstract!RequestCancel
<1>5. CASE ~Asked'
  <2>1. CancelRequested' = CancelRequested
    BY <1>1, <1>2, <1>5
  <2> QED
    BY <1>3, <2>1 DEF Abstract!requestVars
<1> QED
  BY <1>4, <1>5

\* The answer of a callback is the answer to the request.
LEMMA StepWithAnswer ==
    ASSUME Inv, Typed', NEW t \in Threads, Answers(stack[t]), NEW r \in Responses,
           GiveAnswer(t, r), r = "cancelled" => Asked
    PROVE  Abstract!RequestNext
<1>0. Typed /\ OneCallback /\ CallbackIsLast
  BY DEF Inv
<1>1. (CancelRequested <=> Asked) /\ (CancelRequested' <=> Asked')
  BY <1>0, Locking, AskedNext
<1>2. Asked <=> Asked'
  BY <1>0, AskedLeaving DEF GiveAnswer, contextVars, Answers, Top
<1>3. CancelRequested \in BOOLEAN /\ CancelRequested' \in BOOLEAN
  BY DEF CancelRequested
<1>4. CancelRequested' = CancelRequested
  BY <1>1, <1>2, <1>3
<1>5. answers = <<>> /\ Len(attempts) > 0 /\ attempts' = attempts
  BY <1>0 DEF CallbackIsLast, GiveAnswer
<1>6. attempts # <<>>
  BY <1>5, EmptySeq
<1>7. answers' = <<r>>
  BY <1>5 DEF GiveAnswer
<1>8. r = "cancelled" => CancelRequested
  BY <1>1
<1>9. Abstract!Answer(r)
  BY <1>4, <1>5, <1>6, <1>7, <1>8 DEF Abstract!Answer
<1> QED
  BY <1>9 DEF Abstract!RequestNext

\* Every step of the call is a step of a cancellable request, or none.
LEMMA StepSimulation ==
    ASSUME Inv, Inv', [Next]_vars
    PROVE  [Abstract!RequestNext]_(Abstract!requestVars)
<1>0. /\ Typed /\ Typed' /\ OneCallback /\ CallbackIsLast /\ NotCalledYet
      /\ CancelledIsAsked /\ Len(attempts) \in Nat
  BY DEF Inv, Typed
<1>1. (attempts = <<>>) <=> Len(attempts) = 0
  BY <1>0, EmptySeq DEF Typed
<1>2. (attempts' = <<>>) <=> Len(attempts') = 0
  BY <1>0, EmptySeq DEF Typed
<1>3. CASE CallApi
  <2>1. /\ attempts = <<>> /\ attempts' # <<>> /\ answers' = answers
        /\ is_cancelled_' = is_cancelled_ /\ Enter(Caller, Execute(1)) /\ Caller \in Threads
    BY <1>3 DEF CallApi, contextVars, Threads
  <2>2. is_cancelled_ # TRUE /\ \A t \in Threads : stack[t] = <<>>
    BY <1>0, <1>1, <2>1, Zenon DEF NotCalledYet
  <2>3. /\ \A u \in Threads \ {Caller} : stack'[u] = stack[u]
        /\ Pushes(stack[Caller], Execute(1), stack'[Caller])
        /\ Execute(1).op = "Execute"
    BY <1>0, <2>1, NewFrames, Entering
  <2>4. ~InCancel(<<>>)
    BY InNothing, ZenonT(30) DEF InCancel
  <2>5. \A u \in Threads : ~InCancel(stack[u]) /\ ~InCancel(stack'[u])
    BY <2>2, <2>3, <2>4 DEF Pushes, InCancel
  <2>6. ~Asked /\ ~Asked'
    BY <2>1, <2>2, <2>5, Zenon DEF Asked
  <2>7. CancelRequested' = CancelRequested
    BY <1>0, <2>6, Locking, AskedNext DEF CancelRequested
  <2> QED
    BY <2>1, <2>7 DEF Abstract!RequestNext, Abstract!Issue
<1>4. ASSUME NEW t \in Threads, ExecuteReturns(t) PROVE Asked => Asked'
  BY <1>0, <1>4, AskedLeaving DEF ExecuteReturns, In
<1>5. ASSUME NEW t \in Threads, CallbackAnswers(t) PROVE Abstract!RequestNext
  <2>1. Answers(stack[t]) /\ Top(t).response \in Responses
    BY <1>0, <1>5, FrameKinds DEF CallbackAnswers, InCallback, In, Top, Answers, Typed
  <2> QED
    BY <1>0, <1>5, <2>1, StepWithAnswer DEF CallbackAnswers, CancelledIsAsked
<1>6. ASSUME NEW t \in Threads, RetryWithoutContext(t) PROVE Abstract!RequestNext
  BY <1>0, <1>6, StepWithAnswer
  DEF RetryWithoutContext, InCallback, In, Top, Answers, Responses
<1>7. ASSUME NEW t \in Threads, RetryCancelled(t) PROVE Abstract!RequestNext
  <2>1. Asked
    BY <1>0, <1>7 DEF RetryCancelled, Asked, Typed
  <2> QED
    BY <1>0, <1>7, <2>1, StepWithAnswer
    DEF RetryCancelled, InCallback, In, Top, Answers, Responses
<1>8. ASSUME NEW t \in Threads, CallbackSleeps(t) \/ RetryWithContext(t)
      PROVE  (Asked => Asked') /\ UNCHANGED <<attempts, answers>>
  <2>1. PICK s \in {"slept", "retries"} : Become(t, [Top(t) EXCEPT !.stage = s])
    BY <1>8 DEF CallbackSleeps, RetryWithContext
  <2>2. Answers(stack[t]) /\ Top(t) \in Frames /\ Top(t).op = "Callback"
    BY <1>0, <1>8 DEF CallbackSleeps, RetryWithContext, InCallback, In, Top, Answers, Typed
  <2>3. [Top(t) EXCEPT !.stage = s] \in Frames
    BY <2>2, FrameStages, Zenon
  <2> QED
    BY <1>0, <1>8, <2>1, <2>2, <2>3, AskedBecoming
    DEF CallbackSleeps, RetryWithContext, contextVars
<1>9. ASSUME NEW t \in Threads, Retry(t)
      PROVE  (Asked => Asked') /\ answers' = answers /\ attempts # <<>> /\ attempts' # <<>>
  <2>1. /\ Answers(stack[t]) /\ Become(t, Execute(Len(attempts) + 1)) /\ answers' = answers
        /\ is_cancelled_' = is_cancelled_ /\ attempts' = Append(attempts, "sent")
    BY <1>9 DEF Retry, InCallback, In, Top, Answers, contextVars
  <2>2. Execute(Len(attempts) + 1) \in Frames
    BY <1>0, NewFrames
  <2>3. Asked => Asked'
    BY <1>0, <2>1, <2>2, AskedBecoming
  <2>4. Len(attempts) > 0 /\ Len(attempts') = Len(attempts) + 1
    BY <1>0, <2>1 DEF CallbackIsLast, Typed
  <2> QED
    BY <1>0, <1>1, <1>2, <2>1, <2>3, <2>4
<1>10. ASSUME NEW t \in Threads, CancelReturns(t)
       PROVE  Asked' /\ UNCHANGED <<attempts, answers>>
  BY <1>10 DEF CancelReturns, Asked
<1>11. ASSUME NEW i \in DOMAIN attempts, NEW s, attempts' = [attempts EXCEPT ![i] = s]
       PROVE  attempts # <<>> /\ attempts' # <<>>
  BY <1>0, <1>1, <1>2, <1>11, LenProperties, ExceptSeq DEF Typed
<1>12. ASSUME NEW t \in Threads, SendAnswers(t)
       PROVE  (Asked => Asked') /\ answers' = answers /\ attempts # <<>> /\ attempts' # <<>>
  <2>1. Callback(Top(t).attempt, "error") \in Frames
    BY <1>0, <1>12, NewFrames, FrameKinds DEF SendAnswers, In, Top, Typed, Responses
  <2> QED
    BY <1>0, <1>11, <1>12, <2>1, AskedEntering, ZenonT(30) DEF SendAnswers, InFlight, contextVars
<1>13. ASSUME NEW i \in AttemptIds, NEW r \in Responses, NetworkAnswers(i, r)
       PROVE  (Asked => Asked') /\ answers' = answers /\ attempts # <<>> /\ attempts' # <<>>
  <2>1. Callback(i, r) \in Frames /\ i \in Threads
    BY NewFrames, OlpClientConstants DEF AttemptIds, Threads
  <2> QED
    BY <1>0, <1>11, <1>13, <2>1, AskedEntering DEF NetworkAnswers, contextVars
<1>14. ASSUME NEW c \in Cancellers, CancelOperation(c)
       PROVE  (Asked => Asked') /\ answers' = answers /\ ((attempts' = <<>>) <=> (attempts = <<>>))
  <2>1. Cancel(sub_operation_cancel_token_) \in Frames /\ c \in Threads
    BY <1>0, NewFrames DEF Typed, Threads
  <2>2. Asked => Asked'
    BY <1>0, <1>14, <2>1, AskedEntering DEF CancelOperation, contextVars
  <2> QED
    BY <1>11, <1>14, <2>2 DEF CancelOperation, InFlight
<1>15. ASSUME NEW c \in Cancellers, CancelOperationAnswered(c)
       PROVE  (Asked => Asked') /\ answers' = answers /\ attempts # <<>> /\ attempts' # <<>>
  <2>1. /\ stack[c] = <<>> /\ is_cancelled_' = is_cancelled_
        /\ \A u \in Threads \ {c} : stack'[u] = stack[u]
    BY <1>0, <1>15 DEF CancelOperationAnswered, MayCancel, contextVars, Typed
  <2>2. ~InCancel(<<>>)
    BY InNothing DEF InCancel
  <2>3. Asked => Asked'
    BY <2>1, <2>2 DEF Asked
  <2> QED
    BY <1>11, <1>15, <2>3 DEF CancelOperationAnswered, InFlight
<1>16. CASE DropToken \/ UNCHANGED vars
  <2>1. (Asked => Asked') /\ UNCHANGED <<attempts, answers>>
    BY <1>16 DEF DropToken, vars, contextVars, Asked
  <2> QED
    BY <1>0, <2>1, StepWithoutAnswer
<1>17. ASSUME NEW t \in Threads, ThreadStep(t) \/ SendAnswers(t)
       PROVE  [Abstract!RequestNext]_(Abstract!requestVars)
  <2>1. CASE ExecuteReturns(t)
    BY <1>0, <1>4, <2>1, StepWithoutAnswer DEF ExecuteReturns
  <2>2. CASE CallbackAnswers(t) \/ RetryWithoutContext(t) \/ RetryCancelled(t)
    BY <1>5, <1>6, <1>7, <2>2
  <2>3. CASE CallbackSleeps(t) \/ RetryWithContext(t)
    BY <1>0, <1>8, <2>3, StepWithoutAnswer
  <2>4. CASE Retry(t)
    BY <1>0, <1>9, <2>4, StepWithoutAnswer
  <2>5. CASE CancelReturns(t)
    BY <1>0, <1>10, <2>5, StepWithoutAnswer
  <2>6. CASE SendAnswers(t)
    BY <1>0, <1>12, <2>6, StepWithoutAnswer
  <2> QED
    BY <1>17, <2>1, <2>2, <2>3, <2>4, <2>5, <2>6 DEF ThreadStep, CallbackStep
<1>18. ASSUME NEW c \in Cancellers, CancelOperation(c) \/ CancelOperationAnswered(c)
       PROVE  [Abstract!RequestNext]_(Abstract!requestVars)
  BY <1>0, <1>14, <1>15, <1>18, StepWithoutAnswer
<1>19. ASSUME NEW i \in AttemptIds, NEW r \in Responses, NetworkAnswers(i, r)
       PROVE  [Abstract!RequestNext]_(Abstract!requestVars)
  BY <1>0, <1>13, <1>19, StepWithoutAnswer
<1> QED
  BY <1>3, <1>16, <1>17, <1>18, <1>19 DEF Next, Finished

(***************************************************************************)
(* CallApi with its retries is a cancellable request: once it is issued    *)
(* its callback is called at most once, and with "cancelled" only if the   *)
(* token that CallApi returned was used.  That the callback is called at   *)
(* all depends on fairness and is left to the model checker.               *)
(***************************************************************************)
THEOREM CallIsCancellableRequest == Spec => Abstract!RequestSafety
<1>1. Init => Abstract!RequestInit
  <2> SUFFICES ASSUME Init PROVE Abstract!RequestInit
    OBVIOUS
  <2>1. Inv /\ Typed /\ NotCalledYet /\ Len(attempts) = 0
    BY InvInit DEF Init, Inv
  <2>2. ~InCancel(<<>>)
    BY InNothing DEF InCancel
  <2>3. ~Asked
    BY <2>1, <2>2, Zenon DEF NotCalledYet, Asked
  <2>4. CancelRequested = FALSE
    BY <2>1, <2>3, Locking DEF CancelRequested
  <2> QED
    BY <2>4 DEF Init, Abstract!RequestInit
<1>2. Inv /\ Inv' /\ [Next]_vars => [Abstract!RequestNext]_(Abstract!requestVars)
  BY StepSimulation
<1> QED
  BY <1>1, <1>2, Invariance, PTL DEF Spec, Abstract!RequestSafety
=============================================================================
