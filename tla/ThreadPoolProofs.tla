-------------------------- MODULE ThreadPoolProofs --------------------------
(***************************************************************************)
(* Proofs about ThreadPool, for every finite set of workers and producers  *)
(* and every set of tasks.                                                 *)
(***************************************************************************)
EXTENDS ThreadPool, SequenceTheorems, FiniteSetTheorems, TLAPS

(***************************************************************************)
(* The type invariant of ThreadPool holds in every reachable state.        *)
(***************************************************************************)
LEMMA TypeInit == Init => TypeOK
<1> SUFFICES ASSUME Init PROVE TypeOK
  OBVIOUS
<1>1. /\ queue_ \in Seq(Tasks)
      /\ accepted \in Seq(Tasks)
      /\ pulled \in Seq(Tasks)
  BY EmptySeq DEF Init
<1>2. \A w \in Workers : worker[w] = "run" <=> task[w] # {}
  BY DEF Init
<1> QED
  BY <1>1, <1>2 DEF Init, TypeOK

\* Every step of Push, Pull, the worker loop and the destructor keeps the
\* types, and the tie between what a worker does and the task it holds.
LEMMA TypeNext == TypeOK /\ [Next]_vars => TypeOK'
<1> SUFFICES ASSUME TypeOK, [Next]_vars PROVE TypeOK'
  OBVIOUS
<1> USE DEF TypeOK
<1>1. ASSUME NEW c \in Callers, NEW t \in Tasks, Push(c, t) PROVE TypeOK'
  BY <1>1 DEF Push, MayEnqueue, Callers
<1>2. ASSUME NEW c \in Callers, PushClosed(c) PROVE TypeOK'
  BY <1>2 DEF PushClosed, vars
<1>3. ASSUME NEW c \in Callers, NotifyOne(c) PROVE TypeOK'
  BY <1>3 DEF NotifyOne
<1>4. ASSUME NEW w \in Workers, PullWait(w) PROVE TypeOK'
  BY <1>4 DEF PullWait, Awake
<1>5. ASSUME NEW w \in Workers, PullClosed(w) PROVE TypeOK'
  BY <1>5 DEF PullClosed, Awake
<1>6. ASSUME NEW w \in Workers, PullTask(w) PROVE TypeOK'
  <2>1. Head(queue_) \in Tasks /\ Tail(queue_) \in Seq(Tasks)
    BY <1>6, HeadTailProperties DEF PullTask
  <2> QED
    BY <1>6, <2>1 DEF PullTask, Awake
<1>7. ASSUME NEW w \in Workers, Finish(w) PROVE TypeOK'
  BY <1>7 DEF Finish
<1>8. ASSUME NEW w \in Workers, SpuriousWakeup(w) PROVE TypeOK'
  BY <1>8 DEF SpuriousWakeup
<1>9. CASE Close
  BY <1>9 DEF Close
<1>10. CASE NotifyAll
  BY <1>10 DEF NotifyAll
<1>11. CASE Join
  BY <1>11 DEF Join
<1>12. CASE Destroyed
  BY <1>12 DEF Destroyed, vars
<1>13. CASE UNCHANGED vars
  BY <1>13 DEF vars
<1> QED
  BY <1>1, <1>2, <1>3, <1>4, <1>5, <1>6, <1>7, <1>8, <1>9, <1>10, <1>11,
     <1>12, <1>13 DEF Next, WorkerStep

(***************************************************************************)
(* Every reachable state of the thread pool has the types of TypeOK.       *)
(***************************************************************************)
THEOREM TypeCorrect == Spec => []TypeOK
<1>1. QED
  BY TypeInit, TypeNext, PTL DEF Spec

-----------------------------------------------------------------------------
(***************************************************************************)
(* The delivery of tasks.  HandOver is inductive once it is known that the *)
(* queue stays empty after Close.  That two workers never hold the same    *)
(* task needs in addition that no task was accepted twice and that a held  *)
(* task is one of those pulled.                                            *)
(***************************************************************************)
Delivery ==
    /\ HandOver
    /\ closed_ => queue_ = <<>>
    /\ \A i, j \in 1 .. Len(accepted) : accepted[i] = accepted[j] => i = j
    /\ \A w \in Workers : \A t \in task[w] :
          \E i \in 1 .. Len(pulled) : pulled[i] = t
    /\ OneRunnerPerTask

\* Moving the head of q to the end of p leaves p followed by q the same.
LEMMA MoveHead ==
  ASSUME NEW S, NEW p \in Seq(S), NEW q \in Seq(S), q # <<>>
  PROVE  Append(p, Head(q)) \o Tail(q) = p \o q
<1> DEFINE l == Append(p, Head(q)) \o Tail(q)
           r == p \o q
<1>1. /\ Head(q) \in S /\ Head(q) = q[1]
      /\ Tail(q) \in Seq(S) /\ Len(Tail(q)) = Len(q) - 1
      /\ Len(q) \in Nat /\ Len(q) > 0 /\ Len(p) \in Nat
      /\ \A i \in 1 .. Len(Tail(q)) : Tail(q)[i] = q[i + 1]
  BY HeadTailProperties, LenProperties, EmptySeq
<1>2. /\ Append(p, Head(q)) \in Seq(S)
      /\ Len(Append(p, Head(q))) = Len(p) + 1
      /\ \A i \in 1 .. Len(p) : Append(p, Head(q))[i] = p[i]
      /\ Append(p, Head(q))[Len(p) + 1] = Head(q)
  BY <1>1, AppendProperties
<1>3. /\ l \in Seq(S)
      /\ Len(l) = Len(p) + 1 + Len(q) - 1
      /\ \A i \in 1 .. Len(p) + Len(q) :
            l[i] = IF i <= Len(p) + 1 THEN Append(p, Head(q))[i]
                   ELSE Tail(q)[i - (Len(p) + 1)]
  BY <1>1, <1>2, ConcatProperties
<1>4. /\ r \in Seq(S)
      /\ Len(r) = Len(p) + Len(q)
      /\ \A i \in 1 .. Len(p) + Len(q) :
            r[i] = IF i <= Len(p) THEN p[i] ELSE q[i - Len(p)]
  BY ConcatProperties
<1> HIDE DEF l, r
<1>5. ASSUME NEW i \in 1 .. Len(l) PROVE l[i] = r[i]
  <2>1. CASE i <= Len(p)
    BY <1>1, <1>2, <1>3, <1>4, <2>1
  <2>2. CASE i = Len(p) + 1
    BY <1>1, <1>2, <1>3, <1>4, <2>2
  <2>3. CASE i > Len(p) + 1
    BY <1>1, <1>2, <1>3, <1>4, <2>3, SMTT(30)
  <2> QED
    BY <1>1, <1>3, <2>1, <2>2, <2>3
<1>6. l = r
  <2>1. Len(l) = Len(r)
    BY <1>1, <1>3, <1>4
  <2>2. l \in Seq(S) /\ r \in Seq(S)
    BY <1>3, <1>4
  <2> QED
    BY <1>5, <2>1, <2>2, SeqEqual, Zenon
<1> QED
  BY <1>6 DEF l, r

\* a is p followed by q (left unexpanded where the provers need not look
\* into sequences).
Joined(a, p, q) == a = p \o q

\* Appending to q appends to p followed by q.
LEMMA AppendToConcat ==
  ASSUME NEW S, NEW p \in Seq(S), NEW q \in Seq(S), NEW e \in S,
         NEW a, Joined(a, p, q)
  PROVE  Joined(Append(a, e), p, Append(q, e))
<1>1. p \o q \in Seq(S) /\ <<e>> \in Seq(S)
  BY ConcatProperties
<1>2. Append(p \o q, e) = (p \o q) \o <<e>> /\ Append(q, e) = q \o <<e>>
  BY <1>1, AppendIsConcat
<1>3. Append(p \o q, e) = p \o Append(q, e)
  BY <1>1, <1>2, ConcatAssociative, SMTT(30)
<1> QED
  BY <1>3 DEF Joined

\* An empty queue has nothing accepted and nothing pulled.
LEMMA DeliveryInit == Init => Delivery
<1> SUFFICES ASSUME Init PROVE Delivery
  OBVIOUS
<1>1. <<>> \o <<>> = <<>>
  BY ConcatEmptySeq, EmptySeq
<1> QED
  BY <1>1, EmptySeq DEF Init, Delivery, HandOver, OneRunnerPerTask

\* Push appends to the queue and to what was accepted, Pull moves the front
\* element to what was pulled, and Close empties the queue for good.
LEMMA DeliveryNext == TypeOK /\ Delivery /\ [Next]_vars => Delivery'
<1> SUFFICES ASSUME TypeOK, Delivery, [Next]_vars PROVE Delivery'
  OBVIOUS
<1>0. /\ accepted \in Seq(Tasks) /\ pulled \in Seq(Tasks)
      /\ queue_ \in Seq(Tasks) /\ closed_ \in BOOLEAN
      /\ Len(accepted) \in Nat /\ Len(pulled) \in Nat /\ Len(queue_) \in Nat
  BY LenProperties DEF TypeOK
<1>1. ASSUME NEW c \in Callers, NEW t \in Tasks, Push(c, t) PROVE Delivery'
  <2>1. accepted' = pulled \o Append(queue_, t)
    <3>1. Joined(accepted, pulled, queue_) /\ accepted' = Append(accepted, t)
      BY <1>1 DEF Push, Delivery, HandOver, Joined
    <3>2. Joined(accepted', pulled, Append(queue_, t))
      BY <1>0, <3>1, AppendToConcat
    <3> QED
      BY <3>2 DEF Joined
  <2>2. /\ Len(accepted') = Len(accepted) + 1
        /\ \A i \in 1 .. Len(accepted) : accepted'[i] = accepted[i]
        /\ accepted'[Len(accepted) + 1] = t
    BY <1>0, <1>1, AppendProperties DEF Push
  <2>3. \A i \in 1 .. Len(accepted) : accepted[i] # t
    BY <1>0, <1>1, LenProperties DEF Push, Scheduled
  <2>4. HandOver'
    BY <1>0, <1>1, <2>1, <2>2 DEF Push, Delivery, HandOver
  <2>5. ASSUME NEW i \in 1 .. Len(accepted'), NEW j \in 1 .. Len(accepted'),
               accepted'[i] = accepted'[j]
        PROVE  i = j
    <3>1. /\ i \in 1 .. Len(accepted) \/ i = Len(accepted) + 1
          /\ j \in 1 .. Len(accepted) \/ j = Len(accepted) + 1
      BY <1>0, <2>2
    <3>2. CASE i \in 1 .. Len(accepted) /\ j \in 1 .. Len(accepted)
      BY <2>2, <2>5, <3>2 DEF Delivery
    <3>3. CASE i = Len(accepted) + 1 /\ j \in 1 .. Len(accepted)
      BY <2>2, <2>3, <2>5, <3>3
    <3>4. CASE i \in 1 .. Len(accepted) /\ j = Len(accepted) + 1
      BY <2>2, <2>3, <2>5, <3>4
    <3> QED
      BY <3>1, <3>2, <3>3, <3>4
  <2> QED
    BY <1>1, <2>4, <2>5 DEF Push, Delivery, OneRunnerPerTask
<1>2. ASSUME NEW w \in Workers, PullTask(w) PROVE Delivery'
  <2>1. /\ Head(queue_) \in Tasks /\ Head(queue_) = queue_[1]
        /\ Len(queue_) > 0
    BY <1>0, <1>2, HeadTailProperties, EmptySeq DEF PullTask
  <2>2. /\ Len(pulled') = Len(pulled) + 1
        /\ \A i \in 1 .. Len(pulled) : pulled'[i] = pulled[i]
        /\ pulled'[Len(pulled) + 1] = Head(queue_)
    BY <1>0, <1>2, <2>1, AppendProperties DEF PullTask
  <2>3. accepted = pulled \o queue_
    BY <1>2 DEF PullTask, Delivery, HandOver
  <2>4. /\ Len(accepted) = Len(pulled) + Len(queue_)
        /\ accepted[Len(pulled) + 1] = Head(queue_)
    BY <1>0, <2>1, <2>3, ConcatProperties
  <2>5. accepted' = pulled' \o queue_'
    BY <1>0, <1>2, <2>3, MoveHead, SMTT(30) DEF PullTask
  <2>6. HandOver'
    BY <1>0, <1>2, <2>1, <2>2, <2>4, <2>5 DEF PullTask, Delivery, HandOver
  <2>7. \A v \in Workers : Head(queue_) \notin task[v]
    <3> SUFFICES ASSUME NEW v \in Workers, Head(queue_) \in task[v]
                 PROVE  FALSE
      OBVIOUS
    <3>1. PICK i \in 1 .. Len(pulled) : pulled[i] = Head(queue_)
      BY DEF Delivery
    <3>2. accepted[i] = accepted[Len(pulled) + 1]
      BY <2>4, <3>1 DEF Delivery, HandOver
    <3>3. i \in 1 .. Len(accepted) /\ Len(pulled) + 1 \in 1 .. Len(accepted)
      BY <1>0, <2>1, <2>4
    <3>4. i = Len(pulled) + 1
      BY <3>2, <3>3 DEF Delivery
    <3> QED
      BY <1>0, <3>4
  <2>8. OneRunnerPerTask'
    BY <1>2, <2>7 DEF PullTask, Delivery, OneRunnerPerTask, TypeOK
  <2>9. \A v \in Workers : \A t \in task'[v] :
          \E i \in 1 .. Len(pulled') : pulled'[i] = t
    BY <1>0, <1>2, <2>2 DEF PullTask, Delivery, TypeOK
  <2> QED
    BY <1>2, <2>6, <2>8, <2>9 DEF PullTask, Delivery
<1>3. ASSUME NEW w \in Workers, Finish(w) PROVE Delivery'
  BY <1>3 DEF Finish, Delivery, HandOver, OneRunnerPerTask, TypeOK
<1>4. CASE Close
  BY <1>4 DEF Close, Delivery, HandOver, OneRunnerPerTask
<1>5. CASE UNCHANGED <<queue_, closed_, task, accepted, pulled>>
  BY <1>5 DEF Delivery, HandOver, OneRunnerPerTask
<1> QED
  BY <1>1, <1>2, <1>3, <1>4, <1>5
  DEF Next, WorkerStep, PushClosed, NotifyOne, PullWait, PullClosed,
      SpuriousWakeup, NotifyAll, Join, Destroyed, vars

(***************************************************************************)
(* Tasks are handed to the workers first in, first out, and no task is run *)
(* by two workers at once, for any number of workers and tasks.            *)
(***************************************************************************)
THEOREM DeliveryCorrect == Spec => [](HandOver /\ OneRunnerPerTask)
<1>1. Delivery => HandOver /\ OneRunnerPerTask
  BY DEF Delivery
<1> QED
  BY <1>1, TypeInit, TypeNext, DeliveryInit, DeliveryNext, PTL DEF Spec

-----------------------------------------------------------------------------
(***************************************************************************)
(* The shutdown.  closed_ is set exactly when the destructor has started;  *)
(* after notify_all nobody sleeps; no producer is inside Push any more.    *)
(***************************************************************************)
Teardown ==
    /\ closed_ <=> owner # "alive"
    /\ owner # "alive" => notifying \cap Producers = {}
    /\ owner \in {"joining", "destroyed"} => ready_ = {}
    /\ DestroyedIsQuiet

\* No thread has left its loop before the destructor starts.
LEMMA TeardownInit == Init => Teardown
  BY DEF Init, Teardown, DestroyedIsQuiet

\* Threads leave their loop only once Close has run, and the destructor
\* passes join only when all of them have.
LEMMA TeardownNext == TypeOK /\ Teardown /\ [Next]_vars => Teardown'
<1> SUFFICES ASSUME TypeOK, Teardown, [Next]_vars PROVE Teardown'
  OBVIOUS
<1> USE DEF TypeOK, Teardown, DestroyedIsQuiet
<1>1. ASSUME NEW c \in Callers, NEW t \in Tasks, Push(c, t) PROVE Teardown'
  BY <1>1, ThreadPoolConstants DEF Push, MayEnqueue
<1>2. ASSUME NEW c \in Callers, PushClosed(c) PROVE Teardown'
  BY <1>2 DEF PushClosed, vars
<1>3. ASSUME NEW c \in Callers, NotifyOne(c) PROVE Teardown'
  BY <1>3 DEF NotifyOne
<1>4. ASSUME NEW w \in Workers, PullWait(w) PROVE Teardown'
  BY <1>4 DEF PullWait
<1>5. ASSUME NEW w \in Workers, PullClosed(w) PROVE Teardown'
  BY <1>5 DEF PullClosed, Awake
<1>6. ASSUME NEW w \in Workers, PullTask(w) PROVE Teardown'
  BY <1>6 DEF PullTask
<1>7. ASSUME NEW w \in Workers, Finish(w) PROVE Teardown'
  BY <1>7 DEF Finish
<1>8. ASSUME NEW w \in Workers, SpuriousWakeup(w) PROVE Teardown'
  BY <1>8 DEF SpuriousWakeup
<1>9. CASE Close
  BY <1>9 DEF Close
<1>10. CASE NotifyAll
  BY <1>10 DEF NotifyAll
<1>11. CASE Join
  BY <1>11, ThreadPoolConstants DEF Join
<1>12. CASE Destroyed
  BY <1>12 DEF Destroyed, vars
<1>13. CASE UNCHANGED vars
  BY <1>13 DEF vars
<1> QED
  BY <1>1, <1>2, <1>3, <1>4, <1>5, <1>6, <1>7, <1>8, <1>9, <1>10, <1>11,
     <1>12, <1>13, SMTT(30) DEF Next, WorkerStep

(***************************************************************************)
(* No thread is inside the scheduler once its destructor has returned.     *)
(***************************************************************************)
THEOREM TeardownCorrect == Spec => []DestroyedIsQuiet
<1>1. Teardown => DestroyedIsQuiet
  BY DEF Teardown
<1> QED
  BY <1>1, TypeInit, TypeNext, TeardownInit, TeardownNext, PTL DEF Spec

(***************************************************************************)
(* After Close the queue accepts nothing, no task starts, and the queue    *)
(* does not open again.                                                    *)
(***************************************************************************)
THEOREM ClosedCorrect == Spec => ClosedIsFinal
<1>1. Next => (closed_ => closed_' /\ accepted' = accepted /\ pulled' = pulled)
  BY DEF Next, WorkerStep, Push, PushClosed, NotifyOne, PullWait, PullClosed,
         PullTask, Finish, SpuriousWakeup, Close, NotifyAll, Join, Destroyed,
         vars
<1> QED
  BY <1>1, PTL DEF Spec, ClosedIsFinal

-----------------------------------------------------------------------------
(***************************************************************************)
(* No lost wakeup.  NoTaskStranded is inductive relative to TypeOK and to  *)
(* the fact that the queue of a closed SyncQueue is empty; the argument    *)
(* counts the workers awake in Pull and the notifications still to come.   *)
(***************************************************************************)
AwakeWorkers == {w \in Workers : Awake(w)}

\* The threads that may be inside Push are finitely many, so those that have
\* still to call notify_one can be counted.
LEMMA FiniteCallers ==
  ASSUME NEW S \in SUBSET (Producers \cup Workers)
  PROVE  IsFiniteSet(S) /\ Cardinality(S) \in Nat
<1>1. IsFiniteSet(Producers \cup Workers)
  BY ThreadPoolConstants, FS_Union
<1>2. IsFiniteSet(S)
  BY <1>1, FS_Subset
<1> QED
  BY <1>2, FS_CardinalityType

\* A step that adds a task to the queue owes a notify_one; a notify_one wakes
\* a sleeper; a worker falls asleep only when the queue is empty.
LEMMA StrandedNext ==
  TypeOK /\ TypeOK' /\ Delivery /\ NoTaskStranded /\ [Next]_vars
    => NoTaskStranded'
<1> SUFFICES ASSUME TypeOK, TypeOK', Delivery, NoTaskStranded, [Next]_vars,
                    ready_' # {}
             PROVE  Len(queue_') <= Cardinality(AwakeWorkers')
                                    + Cardinality(notifying')
  BY DEF NoTaskStranded, AwakeWorkers
<1>0. /\ IsFiniteSet(AwakeWorkers) /\ Cardinality(AwakeWorkers) \in Nat
      /\ IsFiniteSet(notifying) /\ Cardinality(notifying) \in Nat
      /\ Len(queue_) \in Nat
      /\ ready_ # {} => Len(queue_) <= Cardinality(AwakeWorkers)
                                       + Cardinality(notifying)
  <2>1. /\ AwakeWorkers \in SUBSET (Producers \cup Workers)
        /\ notifying \in SUBSET (Producers \cup Workers)
    BY DEF AwakeWorkers, TypeOK
  <2> QED
    BY <2>1, FiniteCallers, LenProperties
    DEF NoTaskStranded, AwakeWorkers, TypeOK
<1>00. /\ IsFiniteSet(AwakeWorkers') /\ Cardinality(AwakeWorkers') \in Nat
       /\ Cardinality(notifying') \in Nat
  <2>1. /\ AwakeWorkers' \in SUBSET (Producers \cup Workers)
        /\ notifying' \in SUBSET (Producers \cup Workers)
    BY DEF AwakeWorkers, TypeOK
  <2> QED
    BY <2>1, FiniteCallers
<1>1. ASSUME NEW c \in Callers, NEW t \in Tasks, Push(c, t)
      PROVE  Len(queue_') <= Cardinality(AwakeWorkers') + Cardinality(notifying')
  <2>1. AwakeWorkers' = AwakeWorkers /\ ready_ # {}
    BY <1>1 DEF Push, AwakeWorkers, Awake
  <2>2. Len(queue_') = Len(queue_) + 1
    BY <1>1, AppendProperties DEF Push, TypeOK
  <2>3. Cardinality(notifying') = Cardinality(notifying) + 1
    BY <1>0, <1>1, FS_AddElement DEF Push, MayEnqueue
  <2> QED
    BY <1>0, <2>1, <2>2, <2>3
<1>2. ASSUME NEW c \in Callers, NotifyOne(c)
      PROVE  Len(queue_') <= Cardinality(AwakeWorkers') + Cardinality(notifying')
  <2>1. PICK w \in ready_ : ready_' = ready_ \ {w}
    BY <1>2 DEF NotifyOne
  <2>2. AwakeWorkers' = AwakeWorkers \cup {w} /\ w \notin AwakeWorkers
    BY <1>2, <2>1 DEF NotifyOne, AwakeWorkers, Awake, TypeOK
  <2>3. Cardinality(AwakeWorkers') = Cardinality(AwakeWorkers) + 1
    BY <1>0, <2>2, FS_AddElement
  <2>4. Cardinality(notifying') = Cardinality(notifying) - 1
    BY <1>0, <1>2, FS_RemoveElement DEF NotifyOne
  <2> QED
    BY <1>0, <1>2, <2>1, <2>3, <2>4 DEF NotifyOne
<1>3. ASSUME queue_' = <<>>
      PROVE  Len(queue_') <= Cardinality(AwakeWorkers') + Cardinality(notifying')
  BY <1>00, <1>3, EmptySeq
<1>4. ASSUME NEW w \in Workers, PullTask(w)
      PROVE  Len(queue_') <= Cardinality(AwakeWorkers') + Cardinality(notifying')
  <2>1. AwakeWorkers' = AwakeWorkers \ {w} /\ w \in AwakeWorkers /\ ready_ # {}
    BY <1>4 DEF PullTask, AwakeWorkers, Awake, TypeOK
  <2>2. Cardinality(AwakeWorkers') = Cardinality(AwakeWorkers) - 1
    BY <1>0, <2>1, FS_RemoveElement
  <2>3. Len(queue_') = Len(queue_) - 1
    BY <1>4, HeadTailProperties DEF PullTask, TypeOK
  <2> QED
    BY <1>0, <1>4, <2>1, <2>2, <2>3 DEF PullTask
<1>5. ASSUME NEW w \in Workers, Finish(w) \/ SpuriousWakeup(w)
      PROVE  Len(queue_') <= Cardinality(AwakeWorkers') + Cardinality(notifying')
  <2>1. AwakeWorkers \subseteq AwakeWorkers' /\ ready_ # {}
    BY <1>5 DEF Finish, SpuriousWakeup, AwakeWorkers, Awake, TypeOK
  <2>2. Cardinality(AwakeWorkers) <= Cardinality(AwakeWorkers')
    BY <1>00, <2>1, FS_Subset
  <2>3. queue_' = queue_ /\ notifying' = notifying
    BY <1>5 DEF Finish, SpuriousWakeup
  <2> QED
    BY <1>0, <1>00, <2>1, <2>2, <2>3
<1>6. CASE UNCHANGED <<queue_, ready_, worker, notifying>>
  BY <1>0, <1>6 DEF AwakeWorkers, Awake
<1>7. CASE Close \/ \E w \in Workers : PullWait(w) \/ PullClosed(w)
  BY <1>3, <1>7 DEF Close, PullWait, PullClosed, Delivery
<1> QED
  BY <1>1, <1>2, <1>4, <1>5, <1>6, <1>7
  DEF Next, WorkerStep, PushClosed, NotifyAll, Join, Destroyed, vars

(***************************************************************************)
(* For any number of threads and tasks, no queued task is left to sleepers *)
(* only: notifying after the unlock loses no wakeup.                       *)
(***************************************************************************)
THEOREM NoLostWakeup == Spec => []NoTaskStranded
<1>1. Init => NoTaskStranded
  BY DEF Init, NoTaskStranded
<1> QED
  BY <1>1, TypeInit, TypeNext, DeliveryInit, DeliveryNext, StrandedNext, PTL
  DEF Spec

-----------------------------------------------------------------------------
(***************************************************************************)
(* The safety part of the refinement: every step of the thread pool is a   *)
(* step of the abstract TaskScheduler or leaves its variables alone.       *)
(***************************************************************************)
THEOREM SafeScheduler == Spec => Abstract!SchedulerSafety
<1> USE DEF Abstract!ScheduleTask, Abstract!Start, Abstract!Shutdown,
            Abstract!SchedulerNext, Abstract!schedulerVars
<1>1. Init => Abstract!SchedulerInit
  BY DEF Init, Abstract!SchedulerInit
<1>2. TypeOK /\ Teardown /\ [Next]_vars
        => [Abstract!SchedulerNext]_(Abstract!schedulerVars)
  <2> SUFFICES ASSUME TypeOK, Teardown, [Next]_vars
               PROVE  [Abstract!SchedulerNext]_(Abstract!schedulerVars)
    OBVIOUS
  <2>1. ASSUME NEW c \in Callers, NEW t \in Tasks, Push(c, t)
        PROVE  Abstract!ScheduleTask(t)
    BY <2>1 DEF Push
  <2>2. ASSUME NEW w \in Workers, PullTask(w) PROVE Abstract!Start
    BY <2>2 DEF PullTask
  <2>3. ASSUME Close PROVE Abstract!Shutdown
    BY <2>3 DEF Close, Teardown, TypeOK
  <2>4. CASE UNCHANGED <<queue_, closed_, pulled>>
    BY <2>4
  <2> QED
    BY <2>1, <2>2, <2>3, <2>4
    DEF Next, WorkerStep, PushClosed, NotifyOne, PullWait, PullClosed, Finish,
        SpuriousWakeup, NotifyAll, Join, Destroyed, vars
<1> QED
  BY <1>1, <1>2, TypeInit, TypeNext, TeardownInit, TeardownNext, PTL
  DEF Spec, Abstract!SchedulerSafety

=============================================================================
