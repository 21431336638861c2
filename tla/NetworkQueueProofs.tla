------------------------- MODULE NetworkQueueProofs -------------------------
(***************************************************************************)
(* The NetworkRequestPriorityQueueDecorator keeps its books, for any       *)
(* requests, groups, quotas and priorities: a request is answered at most  *)
(* once, the counter of a group counts its requests and is bounded by its  *)
(* quota, and the thread never sleeps on a request that it could send.     *)
(***************************************************************************)
EXTENDS NetworkQueue, FiniteSetTheorems, SequenceTheorems, TLAPS

Distinct(q) == \A i, j \in DOMAIN q : q[i] = q[j] => i = j

Typed ==
    /\ group_of \in [Requests -> 1 .. Groups]
    /\ inFlight \subseteq Requests
    /\ queues_ \in [1 .. Groups -> Seq(Requests)]
    /\ counter \in [1 .. Groups -> Nat]
    /\ is_satisfied_ \in BOOLEAN
    /\ sending \in [Requests -> {"new", "entered", "inserted", "pushed", "sent"}]
    /\ completing \in [Requests -> {"no", "callback", "called", "decremented"}]
    /\ answers \in [Requests -> Nat]
    /\ refused \in [1 .. Groups -> Nat]

\* A queue has each request once, and only requests of its group.
QueuesAreSound ==
    \A g \in 1 .. Groups :
        Distinct(queues_[g]) /\ \A r \in Range(queues_[g]) : group_of[r] = g

(***************************************************************************)
(* A request that has not been answered is in one place: still in Send, in *)
(* its queue, with the thread, with the protocol or in its callback.       *)
(***************************************************************************)
Unsent(r) == sending[r] \in {"new", "entered", "inserted"}

OnePlace ==
    \A r \in Requests :
        /\ Unsent(r) \/ Queued(r) \/ Holds(r) \/ r \in inFlight \/ completing[r] = "callback"
               => answers[r] = 0
        /\ answers[r] <= 1
        /\ Unsent(r) => ~Queued(r)
        /\ Unsent(r) \/ Queued(r) => ~Holds(r)
        /\ Unsent(r) \/ Queued(r) \/ Holds(r) => r \notin inFlight
        /\ Unsent(r) \/ Queued(r) \/ Holds(r) \/ r \in inFlight => completing[r] = "no"

\* What the thread has popped fits into the quota of its group.
HeldFits ==
    \A r \in Requests : Holds(r) => counter[group_of[r]] < Quota[group_of[r]]

(***************************************************************************)
(* The groups that the thread has passed in its round have nothing to send *)
(* or the signal is set, or about to be.                                   *)
(***************************************************************************)
Blocked(g) == queues_[g] = <<>> \/ counter[g] >= Quota[g] \/ ~Protocol!Ready
Signalled == is_satisfied_ = TRUE \/ SignalComes

NothingPassed ==
    /\ \A g, h \in 1 .. Groups : At(g) /\ h < g => Blocked(h) \/ Signalled
    /\ thread = Waiting => \A h \in 1 .. Groups : Blocked(h) \/ Signalled

Inv == Typed /\ QueuesAreSound /\ OnePlace /\ QuotaIsKept /\ HeldFits /\ NothingPassed

-----------------------------------------------------------------------------
\* A request that is pushed to a queue.
LEMMA Appended ==
    ASSUME NEW q \in Seq(Requests), NEW r \in Requests
    PROVE  /\ Append(q, r) \in Seq(Requests)
           /\ Range(Append(q, r)) = Range(q) \cup {r}
           /\ Distinct(q) /\ r \notin Range(q) => Distinct(Append(q, r))
<1> DEFINE new == Append(q, r)
<1>1. /\ new \in Seq(Requests) /\ Len(new) = Len(q) + 1 /\ Len(q) \in Nat
      /\ \A i \in 1 .. Len(q) : new[i] = q[i]
      /\ new[Len(q) + 1] = r
  BY AppendProperties, LenProperties
<1>2. DOMAIN new = 1 .. Len(q) + 1 /\ DOMAIN q = 1 .. Len(q)
  BY <1>1, LenProperties
<1> HIDE DEF new
<1>3. Range(new) = Range(q) \cup {r}
  <2>1. ASSUME NEW x \in Range(new) PROVE x \in Range(q) \cup {r}
    BY <1>1, <1>2 DEF Range
  <2>2. ASSUME NEW x \in Range(q) PROVE x \in Range(new)
    <3>1. PICK i \in 1 .. Len(q) : x = q[i]
      BY <1>2 DEF Range
    <3>2. i \in DOMAIN new /\ new[i] = x
      BY <1>1, <1>2, <3>1
    <3> QED
      BY <3>2 DEF Range
  <2>3. r \in Range(new)
    BY <1>1, <1>2 DEF Range
  <2> QED
    BY <2>1, <2>2, <2>3
<1>4. Distinct(q) /\ r \notin Range(q) => Distinct(new)
  BY <1>1, <1>2 DEF Distinct, Range
<1> QED
  BY <1>1, <1>3, <1>4 DEF new

\* One that is taken out of it.
LEMMA Removed ==
    ASSUME NEW q \in Seq(Requests), NEW i \in DOMAIN q, Distinct(q)
    PROVE  /\ erase(q, i) \in Seq(Requests)
           /\ Range(erase(q, i)) = Range(q) \ {q[i]}
           /\ Distinct(erase(q, i))
<1> DEFINE new == erase(q, i)
<1>1. i \in 1 .. Len(q) /\ Len(q) \in Nat /\ DOMAIN q = 1 .. Len(q)
  BY LenProperties
<1>2. /\ SubSeq(q, 1, i - 1) \in Seq(Requests) /\ Len(SubSeq(q, 1, i - 1)) = i - 1
      /\ \A j \in 1 .. i - 1 : SubSeq(q, 1, i - 1)[j] = q[j]
  BY <1>1, SubSeqProperties
<1>3. /\ SubSeq(q, i + 1, Len(q)) \in Seq(Requests)
      /\ Len(SubSeq(q, i + 1, Len(q))) = Len(q) - i
      /\ \A j \in 1 .. Len(q) - i : SubSeq(q, i + 1, Len(q))[j] = q[i + j]
  BY <1>1, SubSeqProperties, SMTT(30)
<1>4. /\ new \in Seq(Requests) /\ Len(new) = Len(q) - 1
      /\ \A j \in 1 .. Len(q) - 1 : new[j] = IF j < i THEN q[j] ELSE q[j + 1]
  <2> DEFINE left == SubSeq(q, 1, i - 1)
             right == SubSeq(q, i + 1, Len(q))
  <2>1. /\ left \in Seq(Requests) /\ right \in Seq(Requests)
        /\ Len(left) = i - 1 /\ Len(right) = Len(q) - i
        /\ \A j \in 1 .. i - 1 : left[j] = q[j]
        /\ \A j \in 1 .. Len(q) - i : right[j] = q[i + j]
    BY <1>2, <1>3
  <2>2. new = left \o right
    BY DEF erase
  <2> HIDE DEF left, right, new
  <2>3. /\ new \in Seq(Requests) /\ Len(new) = Len(left) + Len(right)
        /\ \A j \in 1 .. Len(left) + Len(right) :
               new[j] = IF j <= Len(left) THEN left[j] ELSE right[j - Len(left)]
    BY <2>1, <2>2, ConcatProperties, SMTT(30)
  <2>4. ASSUME NEW j \in 1 .. Len(q) - 1
        PROVE  new[j] = IF j < i THEN q[j] ELSE q[j + 1]
    <3>1. CASE j < i
      BY <1>1, <2>1, <2>3, <3>1, SMTT(30)
    <3>2. CASE ~(j < i)
      <4> DEFINE k == j - (i - 1)
      <4>1. k \in 1 .. Len(q) - i /\ i + k = j + 1
        BY <1>1, <3>2
      <4>2. new[j] = right[k]
        BY <1>1, <2>1, <2>3, <3>2, SMTT(30)
      <4> HIDE DEF k
      <4>3. right[k] = q[i + k]
        BY <2>1, <4>1
      <4> QED
        BY <3>2, <4>1, <4>2, <4>3
    <3> QED
      BY <3>1, <3>2
  <2> QED
    BY <1>1, <2>1, <2>3, <2>4
<1>5. DOMAIN new = 1 .. Len(q) - 1
  BY <1>1, <1>4, LenProperties
<1> HIDE DEF new
<1>6. ASSUME NEW x \in Range(new) PROVE x \in Range(q) \ {q[i]}
  <2>1. PICK j \in 1 .. Len(q) - 1 : x = new[j]
    BY <1>5 DEF Range
  <2>2. PICK k \in 1 .. Len(q) : k # i /\ x = q[k]
    BY <1>1, <1>4, <2>1
  <2> QED
    BY <1>1, <2>2 DEF Range, Distinct
<1>7. ASSUME NEW x \in Range(q) \ {q[i]} PROVE x \in Range(new)
  <2>1. PICK k \in 1 .. Len(q) : k # i /\ x = q[k]
    BY <1>1 DEF Range
  <2>2. CASE k < i
    <3>1. k \in 1 .. Len(q) - 1 /\ new[k] = x
      BY <1>1, <1>4, <2>1, <2>2
    <3> QED
      BY <1>5, <3>1 DEF Range
  <2>3. CASE k > i
    <3>1. k - 1 \in 1 .. Len(q) - 1 /\ new[k - 1] = x
      BY <1>1, <1>4, <2>1, <2>3
    <3> QED
      BY <1>5, <3>1 DEF Range
  <2> QED
    BY <1>1, <2>1, <2>2, <2>3
<1> DEFINE old(j) == IF j < i THEN j ELSE j + 1
<1>old. ASSUME NEW j \in 1 .. Len(q) - 1 PROVE old(j) \in 1 .. Len(q) /\ new[j] = q[old(j)]
  <2>1. CASE j < i
    BY <1>1, <1>4, <2>1
  <2>2. CASE ~(j < i)
    BY <1>1, <1>4, <2>2
  <2> QED
    BY <2>1, <2>2
<1>8. ASSUME NEW j \in 1 .. Len(q) - 1, NEW k \in 1 .. Len(q) - 1, new[j] = new[k]
      PROVE  j = k
  <2>1. PICK a : a = old(j)
    OBVIOUS
  <2>2. PICK b : b = old(k)
    OBVIOUS
  <2>3. a = b
    <3>1. a \in 1 .. Len(q) /\ b \in 1 .. Len(q) /\ q[a] = q[b]
      BY <1>old, <1>8, <2>1, <2>2
    <3> QED
      BY <1>1, <3>1, Zenon DEF Distinct
  <2> QED
    BY <1>1, <2>1, <2>2, <2>3
<1>9. Distinct(new)
  BY <1>5, <1>8, Zenon DEF Distinct
<1>10. Range(new) = Range(q) \ {q[i]}
  BY <1>6, <1>7
<1> QED
  BY <1>4, <1>9, <1>10 DEF new

\* Where the thread is.
LEMMA Places ==
    /\ \A r, s : Holding(r) = Holding(s) => r = s
    /\ \A g, h : Visiting(g) = Visiting(h) => g = h
    /\ \A r, g : Holding(r) # Visiting(g)
    /\ \A r : Holding(r) # Waiting /\ Holding(r) # Stopped
    /\ \A g : Visiting(g) # Waiting /\ Visiting(g) # Stopped
    /\ Waiting # Stopped
<1>1. \A r : Holding(r).pc = "send" /\ Holding(r).request = r
  BY DEF Holding
<1>2. \A g : Visiting(g).pc = "visit" /\ Visiting(g).group = g
  BY DEF Visiting
<1>3. Waiting.pc = "wait" /\ Stopped.pc = "stopped"
  BY DEF Waiting, Stopped
<1> QED
  BY <1>1, <1>2, <1>3

\* The thread begins a new round with nothing in its hands.
LEMMA NewRound ==
    ASSUME thread' = Visiting(1), \A s \in Requests : ~Holds(s)'
    PROVE  HeldFits' /\ NothingPassed'
<1>1. HeldFits'
  BY Zenon DEF HeldFits
<1>2. \A g : At(g)' => g = 1
  BY Places, Zenon DEF At
<1>3. thread' # Waiting
  BY Places, Zenon
<1>4. \A g, h \in 1 .. Groups : ~(At(g)' /\ h < g)
  BY <1>2, NetworkQueueConstants
<1> QED
  BY <1>1, <1>3, <1>4, Zenon DEF NothingPassed

\* Nothing is queued, sent or counted when the network starts.
LEMMA InvInit == Init => Inv
<1> SUFFICES ASSUME Init PROVE Inv
  OBVIOUS
<1>1. \A g \in 1 .. Groups : queues_[g] = <<>> /\ counter[g] = 0 /\ refused[g] = 0
  BY DEF Init
<1>2. \A r \in Requests : sending[r] = "new" /\ completing[r] = "no" /\ answers[r] = 0
  BY DEF Init
<1>3. inFlight = {} /\ thread = Visiting(1) /\ group_of \in [Requests -> 1 .. Groups]
  BY NetworkQueueConstants DEF Init, Protocol!ProtocolInit
<1>4. Typed
  <2>1. <<>> \in Seq(Requests)
    OBVIOUS
  <2> QED
    BY <1>3, <2>1, Zenon DEF Init, Typed
<1>5. Range(<<>>) = {} /\ Distinct(<<>>)
  BY DEF Range, Distinct
<1>6. QueuesAreSound
  BY <1>1, <1>5 DEF QueuesAreSound
<1>7. OnePlace /\ HeldFits
  BY <1>1, <1>2, <1>3, <1>5, Places DEF OnePlace, HeldFits, Queued, Holds, Unsent
<1>8. \A g \in 1 .. Groups : Counted(g) = {}
  BY <1>2, <1>3 DEF Counted
<1>9. QuotaIsKept
  <2>1. Cardinality({}) = 0 /\ \A g \in 1 .. Groups : Quota[g] \in Nat
    BY FS_EmptySet, NetworkQueueConstants
  <2>2. ASSUME NEW g \in 1 .. Groups
        PROVE  counter[g] = Cardinality(Counted(g)) + refused[g] /\ counter[g] <= Quota[g]
    <3>1. Cardinality(Counted(g)) = 0
      BY <1>8, <2>1, Zenon
    <3> QED
      BY <1>1, <2>1, <3>1
  <2> QED
    BY <2>2, Zenon DEF QuotaIsKept
<1>10. NothingPassed
  BY <1>3, Places DEF NothingPassed, At
<1> QED
  BY <1>4, <1>6, <1>7, <1>9, <1>10 DEF Inv

-----------------------------------------------------------------------------
(***************************************************************************)
(* What a step does to the queues: a request enters that of its group, one *)
(* leaves it, or they stay.                                                *)
(***************************************************************************)
Enqueues(r) ==
    /\ queues_' \in [1 .. Groups -> Seq(Requests)]
    /\ \A g \in 1 .. Groups \ {group_of[r]} : queues_'[g] = queues_[g]
    /\ Range(queues_'[group_of[r]]) = Range(queues_[group_of[r]]) \cup {r}
    /\ Distinct(queues_'[group_of[r]])

Dequeues(r) ==
    /\ Queued(r)
    /\ queues_' \in [1 .. Groups -> Seq(Requests)]
    /\ \A g \in 1 .. Groups \ {group_of[r]} : queues_'[g] = queues_[g]
    /\ Range(queues_'[group_of[r]]) = Range(queues_[group_of[r]]) \ {r}
    /\ Distinct(queues_'[group_of[r]])

\* A request that is appended to the queue of its group has entered it.
LEMMA Enqueued ==
    ASSUME Typed, QueuesAreSound, NEW r \in Requests, ~Queued(r),
           queues_' = [queues_ EXCEPT ![group_of[r]] = Append(@, r)]
    PROVE  Enqueues(r)
<1> DEFINE g == group_of[r]
           q == queues_[g]
<1>1. g \in 1 .. Groups /\ q \in Seq(Requests) /\ Distinct(q) /\ r \notin Range(q)
  BY DEF Typed, QueuesAreSound, Queued
<1>2. queues_'[g] = Append(q, r) /\ \A h \in 1 .. Groups \ {g} : queues_'[h] = queues_[h]
  BY <1>1 DEF Typed
<1>3. /\ Append(q, r) \in Seq(Requests) /\ Range(Append(q, r)) = Range(q) \cup {r}
      /\ Distinct(Append(q, r))
  BY <1>1, Appended
<1>4. queues_' \in [1 .. Groups -> Seq(Requests)]
  BY <1>1, <1>3 DEF Typed
<1> QED
  BY <1>2, <1>3, <1>4 DEF Enqueues

\* A request that is taken out of a queue is of its group, and has left it.
LEMMA Dequeued ==
    ASSUME Typed, QueuesAreSound, NEW g \in 1 .. Groups, NEW i \in DOMAIN queues_[g],
           queues_' = [queues_ EXCEPT ![g] = erase(@, i)]
    PROVE  LET r == queues_[g][i]
           IN  r \in Requests /\ group_of[r] = g /\ Dequeues(r)
<1> DEFINE q == queues_[g]
           r == q[i]
<1>1. q \in Seq(Requests) /\ Distinct(q) /\ i \in DOMAIN q /\ r \in Range(q)
  BY DEF Typed, QueuesAreSound, Range
<1>2. r \in Requests /\ group_of[r] = g
  BY <1>1, ElementOfSeq, LenProperties DEF QueuesAreSound
<1>3. queues_'[g] = erase(q, i) /\ \A h \in 1 .. Groups \ {g} : queues_'[h] = queues_[h]
  BY DEF Typed
<1>4. /\ erase(q, i) \in Seq(Requests) /\ Range(erase(q, i)) = Range(q) \ {r}
      /\ Distinct(erase(q, i))
  BY <1>1, Removed
<1>5. queues_' \in [1 .. Groups -> Seq(Requests)]
  BY <1>4 DEF Typed
<1> QED
  BY <1>1, <1>2, <1>3, <1>4, <1>5 DEF Dequeues, Queued

\* The requests in the queues after such a step.
LEMMA QueuesStaySound ==
    ASSUME Typed, QueuesAreSound, UNCHANGED group_of, NEW r \in Requests,
           Enqueues(r) \/ Dequeues(r)
    PROVE  /\ QueuesAreSound'
           /\ \A s \in Requests \ {r} : Queued(s)' <=> Queued(s)
           /\ Queued(r)' <=> Enqueues(r)
<1>1. group_of[r] \in 1 .. Groups /\ group_of' = group_of
  BY DEF Typed
<1>2. CASE Enqueues(r)
  <2>1. QueuesAreSound'
    BY <1>1, <1>2 DEF QueuesAreSound, Enqueues
  <2>2. \A s \in Requests \ {r} : Queued(s)' <=> Queued(s)
    BY <1>1, <1>2, Zenon DEF Queued, Enqueues, Typed
  <2> QED
    BY <1>1, <1>2, <2>1, <2>2 DEF Queued, Enqueues
<1>3. CASE Dequeues(r)
  <2>1. QueuesAreSound'
    BY <1>1, <1>3 DEF QueuesAreSound, Dequeues
  <2>2. \A s \in Requests \ {r} : Queued(s)' <=> Queued(s)
    BY <1>1, <1>3, Zenon DEF Queued, Dequeues, Typed
  <2>3. ~Queued(r)' /\ ~Enqueues(r)
    BY <1>1, <1>3 DEF Queued, Dequeues, Enqueues
  <2> QED
    BY <2>1, <2>2, <2>3
<1> QED
  BY <1>2, <1>3

\* A step that changes neither what is counted nor the counters.
LEMMA CountersStay ==
    ASSUME QuotaIsKept, UNCHANGED <<counter, refused>>,
           \A g \in 1 .. Groups : Counted(g)' = Counted(g)
    PROVE  QuotaIsKept'
BY DEF QuotaIsKept

\* A step in which nothing is sent and nothing answered.
LEMMA QuietStep ==
    ASSUME Inv,
           UNCHANGED <<group_of, inFlight, completing, counter, refused, queues_, answers,
                       thread>>,
           is_satisfied_' \in BOOLEAN,
           sending' \in [Requests -> {"new", "entered", "inserted", "pushed", "sent"}],
           \A r \in Requests : Unsent(r)' => Unsent(r),
           Signalled => Signalled',
           Protocol!Ready' => Protocol!Ready
    PROVE  Inv'
<1>0. Typed /\ QueuesAreSound /\ OnePlace /\ QuotaIsKept /\ HeldFits /\ NothingPassed
  BY DEF Inv
<1>1. Typed'
  BY <1>0 DEF Typed
<1>2. QueuesAreSound'
  BY <1>0 DEF QueuesAreSound
<1>3. \A r \in Requests : (Queued(r)' <=> Queued(r)) /\ (Holds(r)' <=> Holds(r))
  BY DEF Queued, Holds
<1>4. OnePlace'
  BY <1>0, <1>3 DEF OnePlace
<1>5. \A g \in 1 .. Groups : Counted(g)' = Counted(g)
  BY DEF Counted
<1>6. QuotaIsKept'
  BY <1>0, <1>5, CountersStay
<1>7. HeldFits'
  BY <1>0, <1>3 DEF HeldFits
<1>8. \A g \in 1 .. Groups : Blocked(g) => Blocked(g)'
  BY DEF Blocked
<1>9. NothingPassed'
  BY <1>0, <1>8 DEF NothingPassed, At
<1> QED
  BY <1>1, <1>2, <1>4, <1>6, <1>7, <1>9 DEF Inv

\* A step of the thread on its round.
LEMMA RoundStep ==
    ASSUME Inv,
           UNCHANGED <<group_of, inFlight, completing, counter, refused, queues_, answers,
                       sending>>,
           is_satisfied_' \in BOOLEAN,
           \A r \in Requests : ~Holds(r)',
           NothingPassed'
    PROVE  Inv'
<1>0. Typed /\ QueuesAreSound /\ OnePlace /\ QuotaIsKept
  BY DEF Inv
<1>1. Typed' /\ QueuesAreSound'
  BY <1>0 DEF Typed, QueuesAreSound
<1>2. \A r \in Requests : (Queued(r)' <=> Queued(r)) /\ (Unsent(r)' <=> Unsent(r))
  BY DEF Queued, Unsent
<1>3. OnePlace'
  BY <1>0, <1>2 DEF OnePlace
<1>4. \A g \in 1 .. Groups : Counted(g)' = Counted(g)
  BY DEF Counted
<1>5. QuotaIsKept'
  BY <1>0, <1>4, CountersStay
<1> QED
  BY <1>1, <1>3, <1>5 DEF Inv, HeldFits

-----------------------------------------------------------------------------
\* Network::Send without a network: the request is answered at once.
LEMMA SendOfflineKeeps ==
    ASSUME Inv, NEW r \in Requests, SendOffline(r)
    PROVE  Inv'
<1>0. Typed /\ QueuesAreSound /\ OnePlace /\ QuotaIsKept /\ HeldFits /\ NothingPassed
  BY DEF Inv
<1>1. /\ sending[r] = "new" /\ sending' = [sending EXCEPT ![r] = "sent"]
      /\ answers' = [answers EXCEPT ![r] = @ + 1]
      /\ UNCHANGED <<started, group_of, inFlight, completing, counter, refused, queues_,
                     thread, is_satisfied_>>
  BY DEF SendOffline, protocolVars, historyVars
<1>2. Typed'
  BY <1>0, <1>1 DEF Typed
<1>3. QueuesAreSound'
  BY <1>0, <1>1 DEF QueuesAreSound
<1>4. \A s \in Requests : (Queued(s)' <=> Queued(s)) /\ (Holds(s)' <=> Holds(s))
  BY <1>1 DEF Queued, Holds
<1>5. Unsent(r) /\ ~Unsent(r)' /\ answers'[r] = answers[r] + 1
  BY <1>0, <1>1 DEF Unsent, Typed
<1>6. \A s \in Requests \ {r} : (Unsent(s)' <=> Unsent(s)) /\ answers'[s] = answers[s]
  BY <1>0, <1>1 DEF Unsent, Typed
<1>7. OnePlace'
  BY <1>0, <1>1, <1>4, <1>5, <1>6 DEF OnePlace
<1>8. \A g \in 1 .. Groups : Counted(g)' = Counted(g)
  BY <1>1 DEF Counted
<1>9. QuotaIsKept'
  BY <1>0, <1>1, <1>8, CountersStay
<1>10. HeldFits'
  BY <1>0, <1>1, <1>4 DEF HeldFits
<1>11. Signalled => Signalled'
  BY <1>0, <1>1 DEF Signalled, SignalComes, Typed
<1>12. \A g \in 1 .. Groups : Blocked(g) => Blocked(g)'
  BY <1>1 DEF Blocked, Protocol!Ready
<1>13. NothingPassed'
  BY <1>0, <1>1, <1>11, <1>12 DEF NothingPassed, At
<1> QED
  BY <1>2, <1>3, <1>7, <1>9, <1>10, <1>13 DEF Inv

\* The decorator's Send: the request is queued, and the signal will be set.
LEMMA PushKeeps ==
    ASSUME Inv, NEW r \in Requests, Push(r)
    PROVE  Inv'
<1>0. Typed /\ QueuesAreSound /\ OnePlace /\ QuotaIsKept /\ HeldFits
  BY DEF Inv
<1>1. /\ sending[r] = "inserted" /\ sending' = [sending EXCEPT ![r] = "pushed"]
      /\ queues_' = [queues_ EXCEPT ![group_of[r]] = Append(@, r)]
      /\ UNCHANGED <<group_of, inFlight, completing, counter, refused, answers, thread,
                     is_satisfied_>>
  BY DEF Push, protocolVars, historyVars
<1>2. Unsent(r) /\ ~Unsent(r)' /\ ~Queued(r) /\ ~Holds(r)
  BY <1>0, <1>1 DEF Unsent, OnePlace, Typed
<1>3. Enqueues(r)
  BY <1>0, <1>1, <1>2, Enqueued, Zenon
<1>4. Typed'
  BY <1>0, <1>1, <1>3 DEF Typed, Enqueues
<1>5. /\ QueuesAreSound' /\ Queued(r)'
      /\ \A s \in Requests \ {r} : Queued(s)' <=> Queued(s)
  BY <1>0, <1>1, <1>3, QueuesStaySound
<1>6. \A s \in Requests \ {r} : Unsent(s)' <=> Unsent(s)
  BY <1>0, <1>1 DEF Unsent, Typed
<1>7. \A s \in Requests : Holds(s)' <=> Holds(s)
  BY <1>1 DEF Holds
<1>8. OnePlace'
  BY <1>0, <1>1, <1>2, <1>5, <1>6, <1>7, ZenonT(30) DEF OnePlace
<1>9. \A g \in 1 .. Groups : Counted(g)' = Counted(g)
  BY <1>1 DEF Counted
<1>10. QuotaIsKept'
  BY <1>0, <1>1, <1>9, CountersStay
<1>11. HeldFits'
  BY <1>0, <1>1, <1>7 DEF HeldFits
<1>12. Signalled'
  BY <1>0, <1>1 DEF Signalled, SignalComes, Typed
<1>13. NothingPassed'
  BY <1>12 DEF NothingPassed
<1> QED
  BY <1>4, <1>5, <1>8, <1>10, <1>11, <1>13 DEF Inv

-----------------------------------------------------------------------------
\* The thread pops a request of a group that has not used up its quota.
LEMMA VisitPopsKeeps ==
    ASSUME Inv, NEW g \in 1 .. Groups, VisitPops(g)
    PROVE  Inv'
<1>0. Typed /\ QueuesAreSound /\ OnePlace /\ QuotaIsKept
  BY DEF Inv
<1>1. PICK i \in DOMAIN queues_[g] :
          /\ queues_' = [queues_ EXCEPT ![g] = erase(@, i)]
          /\ thread' = Holding(queues_[g][i])
  BY Zenon DEF VisitPops
<1>2. /\ counter[g] < Quota[g] /\ thread = Visiting(g)
      /\ UNCHANGED <<group_of, inFlight, completing, counter, refused, answers, sending,
                     is_satisfied_>>
  BY DEF VisitPops, MayVisit, At, threadUnchanged, protocolVars, historyVars
<1>3. PICK r \in Requests : group_of[r] = g /\ Dequeues(r) /\ r = queues_[g][i]
  BY <1>0, <1>1, Dequeued, Zenon
<1>4. thread' = Holding(r)
  BY <1>1, <1>3
<1>5. Typed'
  BY <1>0, <1>2, <1>3, Zenon DEF Typed, Dequeues
<1>6. ~Enqueues(r) /\ Queued(r)
  BY <1>0, <1>3, Zenon DEF Dequeues, Enqueues, Typed
<1>7. /\ QueuesAreSound' /\ ~Queued(r)'
      /\ \A s \in Requests \ {r} : Queued(s)' <=> Queued(s)
  BY <1>0, <1>2, <1>3, <1>6, QueuesStaySound
<1>8. Holds(r)' /\ \A s \in Requests \ {r} : ~Holds(s)'
  BY <1>4, Places DEF Holds
<1>9. \A s \in Requests : Unsent(s)' <=> Unsent(s)
  BY <1>2, ZenonT(30) DEF Unsent
<1>10. OnePlace'
  BY <1>0, <1>2, <1>3, <1>6, <1>7, <1>8, <1>9, ZenonT(30) DEF OnePlace
<1>11. \A h \in 1 .. Groups : Counted(h)' = Counted(h)
  BY <1>2 DEF Counted
<1>12. QuotaIsKept'
  BY <1>0, <1>2, <1>11, CountersStay, ZenonT(30)
<1>13. HeldFits'
  BY <1>2, <1>3, <1>8 DEF HeldFits
<1>14. NothingPassed'
  BY <1>4, Places DEF NothingPassed, At
<1> QED
  BY <1>5, <1>7, <1>10, <1>12, <1>13, <1>14 DEF Inv

\* What is counted is a finite set of requests.
LEMMA CountedIsFinite == \A g : IsFiniteSet(Counted(g)) /\ Cardinality(Counted(g)) \in Nat
<1>1. \A g : Counted(g) \subseteq Requests
  BY DEF Counted
<1> QED
  BY <1>1, NetworkQueueConstants, FS_Subset, FS_CardinalityType

\* The protocol takes a request, which is counted from now on.
LEMMA SendAcceptedKeeps ==
    ASSUME Inv, NEW r \in Requests, SendAccepted(r)
    PROVE  Inv'
<1>0. Typed /\ QueuesAreSound /\ OnePlace /\ QuotaIsKept /\ HeldFits
  BY DEF Inv
<1> DEFINE g == group_of[r]
<1>1. /\ Holds(r) /\ r \notin inFlight /\ inFlight' = inFlight \cup {r}
      /\ counter' = [counter EXCEPT ![g] = @ + 1] /\ thread' = Visiting(1)
      /\ UNCHANGED <<group_of, completing, refused, answers, sending, queues_, is_satisfied_>>
  BY DEF SendAccepted, Protocol!Accept, historyVars
<1>2. g \in 1 .. Groups /\ counter[g] < Quota[g] /\ counter'[g] = counter[g] + 1
  BY <1>0, <1>1 DEF Typed, HeldFits
<1>3. Typed'
  BY <1>0, <1>1 DEF Typed
<1>4. QueuesAreSound'
  BY <1>0, <1>1 DEF QueuesAreSound
<1>5. \A s \in Requests : (Queued(s)' <=> Queued(s)) /\ (Unsent(s)' <=> Unsent(s)) /\ ~Holds(s)'
  BY <1>1, Places DEF Queued, Unsent, Holds
<1>6. OnePlace'
  BY <1>0, <1>1, <1>5 DEF OnePlace
<1>7. completing[r] = "no"
  BY <1>0, <1>1 DEF OnePlace
<1>8. r \notin Counted(g) /\ Counted(g)' = Counted(g) \cup {r}
  BY <1>1, <1>7 DEF Counted
<1>9. \A h \in 1 .. Groups \ {g} : Counted(h)' = Counted(h) /\ counter'[h] = counter[h]
  BY <1>0, <1>1 DEF Counted, Typed
<1>10. Cardinality(Counted(g)') = Cardinality(Counted(g)) + 1
  BY <1>8, CountedIsFinite, FS_AddElement, Zenon
<1>11. QuotaIsKept'
  <2>1. /\ counter[g] \in Nat /\ refused[g] \in Nat /\ Quota[g] \in Nat
        /\ Cardinality(Counted(g)) \in Nat
    BY <1>0, <1>2, CountedIsFinite, NetworkQueueConstants, ZenonT(30) DEF Typed
  <2>2. counter'[g] = Cardinality(Counted(g)') + refused[g] /\ counter'[g] <= Quota[g]
    BY <1>0, <1>2, <1>10, <2>1 DEF QuotaIsKept
  <2>3. ASSUME NEW h \in 1 .. Groups \ {g}
        PROVE  counter'[h] = Cardinality(Counted(h)') + refused[h] /\ counter'[h] <= Quota[h]
    BY <1>0, <1>9 DEF QuotaIsKept
  <2> QED
    BY <1>1, <2>2, <2>3 DEF QuotaIsKept
<1>12. HeldFits' /\ NothingPassed'
  BY <1>1, <1>5, NewRound, Zenon
<1> QED
  BY <1>3, <1>4, <1>6, <1>11, <1>12 DEF Inv

\* The protocol is not ready: the request goes back to its queue.
LEMMA SendNotReadyKeeps ==
    ASSUME Inv, NEW r \in Requests, SendNotReady(r)
    PROVE  Inv'
<1>0. Typed /\ QueuesAreSound /\ OnePlace /\ QuotaIsKept /\ HeldFits
  BY DEF Inv
<1> DEFINE g == group_of[r]
<1>1. /\ Holds(r) /\ queues_' = [queues_ EXCEPT ![g] = Append(@, r)]
      /\ counter' = [counter EXCEPT ![g] = @ + 1] /\ refused' = [refused EXCEPT ![g] = @ + 1]
      /\ thread' = Visiting(1)
      /\ UNCHANGED <<group_of, inFlight, completing, answers, sending, is_satisfied_>>
  BY DEF SendNotReady, protocolVars
<1>2. g \in 1 .. Groups /\ counter[g] < Quota[g] /\ ~Queued(r)
  BY <1>0, <1>1 DEF Typed, HeldFits, OnePlace
<1>3. Enqueues(r)
  BY <1>0, <1>1, <1>2, Enqueued, Zenon
<1>4. Typed'
  BY <1>0, <1>1, <1>3 DEF Typed, Enqueues
<1>5. /\ QueuesAreSound' /\ Queued(r)'
      /\ \A s \in Requests \ {r} : Queued(s)' <=> Queued(s)
  BY <1>0, <1>1, <1>3, QueuesStaySound
<1>6. \A s \in Requests : (Unsent(s)' <=> Unsent(s)) /\ ~Holds(s)'
  BY <1>1, Places, ZenonT(30) DEF Unsent, Holds
<1>7. OnePlace'
  BY <1>0, <1>1, <1>5, <1>6, ZenonT(30) DEF OnePlace
<1>8. \A h \in 1 .. Groups : Counted(h)' = Counted(h)
  BY <1>1 DEF Counted
<1>9. QuotaIsKept'
  <2>1. /\ counter[g] \in Nat /\ refused[g] \in Nat /\ Quota[g] \in Nat
        /\ Cardinality(Counted(g)) \in Nat
    BY <1>0, <1>2, CountedIsFinite, NetworkQueueConstants, ZenonT(30) DEF Typed
  <2>2. counter'[g] = counter[g] + 1 /\ refused'[g] = refused[g] + 1
    BY <1>0, <1>1, <1>2 DEF Typed
  <2>3. counter'[g] = Cardinality(Counted(g)) + refused'[g] /\ counter'[g] <= Quota[g]
    BY <1>0, <1>2, <2>1, <2>2 DEF QuotaIsKept
  <2>4. ASSUME NEW h \in 1 .. Groups \ {g}
        PROVE  counter'[h] = Cardinality(Counted(h)) + refused'[h] /\ counter'[h] <= Quota[h]
    BY <1>0, <1>1 DEF QuotaIsKept, Typed
  <2> QED
    BY <1>8, <2>3, <2>4 DEF QuotaIsKept
<1>10. HeldFits' /\ NothingPassed'
  BY <1>1, <1>6, NewRound, Zenon
<1> QED
  BY <1>4, <1>5, <1>7, <1>9, <1>10 DEF Inv

\* Any other error is the answer.
LEMMA SendFailsKeeps ==
    ASSUME Inv, NEW r \in Requests, SendFails(r)
    PROVE  Inv'
<1>0. Typed /\ QueuesAreSound /\ OnePlace /\ QuotaIsKept
  BY DEF Inv
<1>1. /\ Holds(r) /\ answers' = [answers EXCEPT ![r] = @ + 1] /\ is_satisfied_' = TRUE
      /\ thread' = Visiting(1)
      /\ UNCHANGED <<group_of, inFlight, completing, counter, refused, queues_, sending>>
  BY DEF SendFails, CallBack, protocolVars, historyVars
<1>2. Typed'
  BY <1>0, <1>1 DEF Typed
<1>3. QueuesAreSound'
  BY <1>0, <1>1 DEF QueuesAreSound
<1>4. \A s \in Requests : (Queued(s)' <=> Queued(s)) /\ (Unsent(s)' <=> Unsent(s)) /\ ~Holds(s)'
  BY <1>1, Places DEF Queued, Unsent, Holds
<1>5. answers'[r] = answers[r] + 1 /\ \A s \in Requests \ {r} : answers'[s] = answers[s]
  BY <1>0, <1>1 DEF Typed
<1>6. OnePlace'
  BY <1>0, <1>1, <1>4, <1>5 DEF OnePlace
<1>7. \A g \in 1 .. Groups : Counted(g)' = Counted(g)
  BY <1>1 DEF Counted
<1>8. QuotaIsKept'
  BY <1>0, <1>1, <1>7, CountersStay
<1>9. HeldFits' /\ NothingPassed'
  BY <1>1, <1>4, NewRound, Zenon
<1> QED
  BY <1>2, <1>3, <1>6, <1>8, <1>9 DEF Inv

-----------------------------------------------------------------------------
\* The protocol answers: the request is counted until its callback is done.
LEMMA ProtocolAnswersKeeps ==
    ASSUME Inv, NEW r \in Requests, ProtocolAnswers(r)
    PROVE  Inv'
<1>0. Typed /\ QueuesAreSound /\ OnePlace /\ QuotaIsKept /\ HeldFits
  BY DEF Inv
<1>1. /\ r \in inFlight /\ inFlight' = inFlight \ {r}
      /\ completing' = [completing EXCEPT ![r] = "callback"]
      /\ UNCHANGED <<group_of, counter, refused, queues_, answers, sending, thread,
                     is_satisfied_>>
  BY DEF ProtocolAnswers, Protocol!Answers, Protocol!AnswerRequest, historyVars
<1>2. completing'[r] = "callback" /\ \A s \in Requests \ {r} : completing'[s] = completing[s]
  BY <1>0, <1>1 DEF Typed
<1>3. Typed'
  BY <1>0, <1>1 DEF Typed
<1>4. QueuesAreSound'
  BY <1>0, <1>1 DEF QueuesAreSound
<1>5. \A s \in Requests : /\ Queued(s)' <=> Queued(s)
                          /\ Unsent(s)' <=> Unsent(s)
                          /\ Holds(s)' <=> Holds(s)
  BY <1>1 DEF Queued, Unsent, Holds
<1>6. OnePlace'
  BY <1>0, <1>1, <1>2, <1>5 DEF OnePlace
<1>7. \A g \in 1 .. Groups : Counted(g)' = Counted(g)
  BY <1>1, <1>2 DEF Counted
<1>8. QuotaIsKept'
  BY <1>0, <1>1, <1>7, CountersStay
<1>9. HeldFits'
  BY <1>0, <1>1, <1>5 DEF HeldFits
<1>10. Signalled'
  BY <1>2 DEF Signalled, SignalComes
<1>11. NothingPassed'
  BY <1>10 DEF NothingPassed
<1> QED
  BY <1>3, <1>4, <1>6, <1>8, <1>9, <1>11 DEF Inv

\* The callback of SendRequest calls the user back,
LEMMA CallbackCallsKeeps ==
    ASSUME Inv, NEW r \in Requests, CallbackCalls(r)
    PROVE  Inv'
<1>0. Typed /\ QueuesAreSound /\ OnePlace /\ QuotaIsKept /\ HeldFits
  BY DEF Inv
<1>1. /\ completing[r] = "callback" /\ completing' = [completing EXCEPT ![r] = "called"]
      /\ answers' = [answers EXCEPT ![r] = @ + 1]
      /\ UNCHANGED <<group_of, inFlight, counter, refused, queues_, sending, thread,
                     is_satisfied_>>
  BY DEF CallbackCalls, CallBack, protocolVars, historyVars
<1>2. /\ completing'[r] = "called" /\ answers'[r] = answers[r] + 1
      /\ \A s \in Requests \ {r} : completing'[s] = completing[s] /\ answers'[s] = answers[s]
  BY <1>0, <1>1 DEF Typed
<1>3. Typed'
  BY <1>0, <1>1 DEF Typed
<1>4. QueuesAreSound'
  BY <1>0, <1>1 DEF QueuesAreSound
<1>5. \A s \in Requests : /\ Queued(s)' <=> Queued(s)
                          /\ Unsent(s)' <=> Unsent(s)
                          /\ Holds(s)' <=> Holds(s)
  BY <1>1 DEF Queued, Unsent, Holds
<1>6. OnePlace'
  BY <1>0, <1>1, <1>2, <1>5 DEF OnePlace
<1>7. \A g \in 1 .. Groups : Counted(g)' = Counted(g)
  BY <1>1, <1>2 DEF Counted
<1>8. QuotaIsKept'
  BY <1>0, <1>1, <1>7, CountersStay, ZenonT(30)
<1>9. HeldFits'
  BY <1>0, <1>1, <1>5 DEF HeldFits
<1>10. Signalled'
  BY <1>2 DEF Signalled, SignalComes
<1>11. NothingPassed'
  BY <1>10 DEF NothingPassed
<1> QED
  BY <1>3, <1>4, <1>6, <1>8, <1>9, <1>11 DEF Inv

\* decrements the counter of its group,
LEMMA CallbackDecrementsKeeps ==
    ASSUME Inv, NEW r \in Requests, CallbackDecrements(r)
    PROVE  Inv'
<1>0. Typed /\ QueuesAreSound /\ OnePlace /\ QuotaIsKept /\ HeldFits
  BY DEF Inv
<1> DEFINE g == group_of[r]
<1>1. /\ completing[r] = "called" /\ completing' = [completing EXCEPT ![r] = "decremented"]
      /\ counter' = [counter EXCEPT ![g] = @ - 1]
      /\ UNCHANGED <<group_of, inFlight, refused, queues_, answers, sending, thread,
                     is_satisfied_>>
  BY DEF CallbackDecrements, protocolVars, historyVars
<1>2. /\ completing'[r] = "decremented" /\ g \in 1 .. Groups
      /\ \A s \in Requests \ {r} : completing'[s] = completing[s]
  BY <1>0, <1>1 DEF Typed
<1>3. r \notin inFlight
  BY <1>0, <1>1 DEF OnePlace
<1>4. r \in Counted(g) /\ Counted(g)' = Counted(g) \ {r}
  BY <1>1, <1>2, <1>3 DEF Counted
<1>5. \A h \in 1 .. Groups \ {g} : Counted(h)' = Counted(h) /\ counter'[h] = counter[h]
  BY <1>0, <1>1, <1>2 DEF Counted, Typed
<1>6. /\ Cardinality(Counted(g)') = Cardinality(Counted(g)) - 1
      /\ Cardinality(Counted(g)') \in Nat
  <2>1. Cardinality(Counted(g) \ {r}) = Cardinality(Counted(g)) - 1
    BY <1>4, CountedIsFinite, FS_RemoveElement, Zenon
  <2>2. IsFiniteSet(Counted(g) \ {r})
    BY CountedIsFinite, FS_RemoveElement
  <2> QED
    BY <1>4, <2>1, <2>2, FS_CardinalityType
<1>7. /\ counter[g] \in Nat /\ refused[g] \in Nat /\ Quota[g] \in Nat
      /\ Cardinality(Counted(g)) \in Nat
  BY <1>0, <1>2, CountedIsFinite, NetworkQueueConstants, ZenonT(30) DEF Typed
<1>8. counter'[g] = counter[g] - 1 /\ counter'[g] \in Nat
  <2>1. counter[g] = Cardinality(Counted(g)) + refused[g]
    BY <1>0, <1>2 DEF QuotaIsKept
  <2> QED
    BY <1>0, <1>1, <1>2, <1>6, <1>7, <2>1 DEF Typed
<1>9. Typed'
  <2>1. counter' \in [1 .. Groups -> Nat]
    BY <1>0, <1>1, <1>8 DEF Typed
  <2>2. completing' \in [Requests -> {"no", "callback", "called", "decremented"}]
    BY <1>0, <1>1 DEF Typed
  <2> QED
    BY <1>0, <1>1, <2>1, <2>2, Zenon DEF Typed
<1>10. QueuesAreSound'
  BY <1>0, <1>1 DEF QueuesAreSound
<1>11. \A s \in Requests : /\ Queued(s)' <=> Queued(s)
                           /\ Unsent(s)' <=> Unsent(s)
                           /\ Holds(s)' <=> Holds(s)
  BY <1>1 DEF Queued, Unsent, Holds
<1>12. OnePlace'
  BY <1>0, <1>1, <1>2, <1>11, Zenon DEF OnePlace
<1>13. QuotaIsKept'
  <2>1. counter'[g] = Cardinality(Counted(g)') + refused[g] /\ counter'[g] <= Quota[g]
    BY <1>0, <1>2, <1>6, <1>7, <1>8 DEF QuotaIsKept
  <2>2. ASSUME NEW h \in 1 .. Groups \ {g}
        PROVE  counter'[h] = Cardinality(Counted(h)') + refused[h] /\ counter'[h] <= Quota[h]
    BY <1>0, <1>5 DEF QuotaIsKept
  <2> QED
    BY <1>1, <2>1, <2>2, ZenonT(30) DEF QuotaIsKept
<1>14. HeldFits'
  <2>1. \A h \in 1 .. Groups : counter[h] < Quota[h] => counter'[h] < Quota[h]
    BY <1>5, <1>7, <1>8
  <2> QED
    BY <1>0, <1>1, <1>11, <2>1 DEF HeldFits, Typed
<1>15. Signalled'
  BY <1>2 DEF Signalled, SignalComes
<1>16. NothingPassed'
  BY <1>15 DEF NothingPassed
<1> QED
  BY <1>9, <1>10, <1>12, <1>13, <1>14, <1>16 DEF Inv

\* and sets the signal.
LEMMA CallbackSignalsKeeps ==
    ASSUME Inv, NEW r \in Requests, CallbackSignals(r)
    PROVE  Inv'
<1>0. Typed /\ QueuesAreSound /\ OnePlace /\ QuotaIsKept /\ HeldFits
  BY DEF Inv
<1>1. /\ completing[r] = "decremented" /\ completing' = [completing EXCEPT ![r] = "no"]
      /\ is_satisfied_' = TRUE
      /\ UNCHANGED <<group_of, inFlight, counter, refused, queues_, answers, sending, thread>>
  BY DEF CallbackSignals, protocolVars, historyVars
<1>2. completing'[r] = "no" /\ \A s \in Requests \ {r} : completing'[s] = completing[s]
  BY <1>0, <1>1 DEF Typed
<1>3. Typed'
  BY <1>0, <1>1 DEF Typed
<1>4. QueuesAreSound'
  BY <1>0, <1>1, ZenonT(30) DEF QueuesAreSound
<1>5. \A s \in Requests : /\ Queued(s)' <=> Queued(s)
                          /\ Unsent(s)' <=> Unsent(s)
                          /\ Holds(s)' <=> Holds(s)
  BY <1>1 DEF Queued, Unsent, Holds
<1>6. OnePlace'
  BY <1>0, <1>1, <1>2, <1>5 DEF OnePlace
<1>7. \A g \in 1 .. Groups : Counted(g)' = Counted(g)
  BY <1>1, <1>2 DEF Counted
<1>8. QuotaIsKept'
  BY <1>0, <1>1, <1>7, CountersStay
<1>9. HeldFits'
  BY <1>0, <1>1, <1>5 DEF HeldFits
<1>10. NothingPassed'
  BY <1>1 DEF NothingPassed, Signalled
<1> QED
  BY <1>3, <1>4, <1>6, <1>8, <1>9, <1>10, ZenonT(30) DEF Inv

\* A queued request that is cancelled is taken out of its queue and answered.
LEMMA CancelPendingKeeps ==
    ASSUME Inv, NEW r \in Requests, RemoveIf(r), answers' = [answers EXCEPT ![r] = @ + 1],
           UNCHANGED <<started, group_of, inFlight, completing, counter, refused, sending,
                       thread, is_satisfied_>>
    PROVE  Inv'
<1>0. Typed /\ QueuesAreSound /\ OnePlace /\ QuotaIsKept /\ HeldFits /\ NothingPassed
  BY DEF Inv
<1>1. Dequeues(r)
  <2>1. group_of[r] \in 1 .. Groups
    BY <1>0 DEF Typed
  <2>2. PICK i \in DOMAIN queues_[group_of[r]] :
            /\ queues_[group_of[r]][i] = r
            /\ queues_' = [queues_ EXCEPT ![group_of[r]] = erase(@, i)]
    BY Zenon DEF RemoveIf
  <2> QED
    BY <1>0, <2>1, <2>2, Dequeued, Zenon
<1>2. Typed'
  BY <1>0, <1>1 DEF Typed, Dequeues
<1>3. ~Enqueues(r) /\ Queued(r)
  BY <1>0, <1>1, Zenon DEF Dequeues, Enqueues, Typed
<1>4. /\ QueuesAreSound' /\ ~Queued(r)'
      /\ \A s \in Requests \ {r} : Queued(s)' <=> Queued(s)
  BY <1>0, <1>1, <1>3, QueuesStaySound
<1>5. answers'[r] = answers[r] + 1 /\ \A s \in Requests \ {r} : answers'[s] = answers[s]
  BY <1>0 DEF Typed
<1>6. \A s \in Requests : (Unsent(s)' <=> Unsent(s)) /\ (Holds(s)' <=> Holds(s))
  BY DEF Unsent, Holds
<1>7. OnePlace'
  BY <1>0, <1>3, <1>4, <1>5, <1>6 DEF OnePlace
<1>8. \A g \in 1 .. Groups : Counted(g)' = Counted(g)
  BY DEF Counted
<1>9. QuotaIsKept'
  BY <1>0, <1>8, CountersStay
<1>10. HeldFits'
  BY <1>0, <1>6 DEF HeldFits
<1>11. Signalled => Signalled'
  BY DEF Signalled, SignalComes
<1>12. \A g \in 1 .. Groups : Blocked(g) => Blocked(g)'
  <2>1. queues_[group_of[r]] # <<>>
    BY <1>3 DEF Queued, Range
  <2> QED
    BY <1>0, <1>1, <2>1 DEF Blocked, Protocol!Ready, Dequeues, Typed
<1>13. NothingPassed'
  BY <1>0, <1>11, <1>12 DEF NothingPassed, At
<1> QED
  BY <1>2, <1>4, <1>7, <1>9, <1>10, <1>13 DEF Inv

-----------------------------------------------------------------------------
\* The steps of the thread that send nothing.
LEMMA RoundKeeps ==
    ASSUME Inv,
           \/ ThreadStops
           \/ Wait
           \/ \E g \in 1 .. Groups : VisitNotReady(g) \/ VisitNothing(g)
    PROVE  Inv'
<1>0. Typed /\ NothingPassed /\ Groups \in Nat
  BY NetworkQueueConstants DEF Inv
<1>1. /\ UNCHANGED <<started, group_of, inFlight, completing, counter, refused, queues_,
                     answers, sending>>
      /\ is_satisfied_' \in BOOLEAN
  BY <1>0, Zenon DEF ThreadStops, Wait, VisitNotReady, VisitNothing, threadUnchanged, protocolVars,
          historyVars, Typed
<1>2. CASE ThreadStops \/ Wait
  <2>1. thread' = Stopped \/ thread' = Visiting(1)
    BY <1>2 DEF ThreadStops, Wait
  <2>2. (\A r \in Requests : ~Holds(r)') /\ NothingPassed'
    BY <2>1, Places DEF Holds, NothingPassed, At
  <2> QED
    BY <1>1, <2>2, RoundStep
<1>3. ASSUME NEW g \in 1 .. Groups, VisitNotReady(g) PROVE Inv'
  <2>1. thread' = Waiting /\ ~Protocol!Ready'
    BY <1>1, <1>3 DEF VisitNotReady, Protocol!Ready
  <2>2. (\A r \in Requests : ~Holds(r)') /\ NothingPassed'
    BY <2>1, Places DEF Holds, NothingPassed, At, Blocked
  <2> QED
    BY <1>1, <2>2, RoundStep
<1>4. ASSUME NEW g \in 1 .. Groups, VisitNothing(g) PROVE Inv'
  <2>1. /\ thread = Visiting(g) /\ Blocked(g) /\ is_satisfied_' = is_satisfied_
        /\ thread' = IF g < Groups THEN Visiting(g + 1) ELSE Waiting
    BY <1>4 DEF VisitNothing, MayVisit, At, Blocked
  <2>2. \A h \in 1 .. Groups : Blocked(h)' <=> Blocked(h)
    BY <1>1 DEF Blocked, Protocol!Ready
  <2>3. Signalled' <=> Signalled
    BY <1>1, <2>1 DEF Signalled, SignalComes
  <2>4. \A h \in 1 .. g : Blocked(h)' \/ Signalled'
    <3>1. \A h \in 1 .. Groups : h < g => Blocked(h) \/ Signalled
      BY <1>0, <2>1 DEF NothingPassed, At
    <3> QED
      BY <1>0, <2>1, <2>2, <2>3, <3>1
  <2>5. CASE g < Groups
    <3>1. thread' = Visiting(g + 1)
      BY <2>1, <2>5
    <3>2. (\A r \in Requests : ~Holds(r)') /\ thread' # Waiting
      BY <3>1, Places DEF Holds
    <3>3. \A k \in 1 .. Groups : At(k)' => k = g + 1
      BY <3>1, Places DEF At
    <3>4. NothingPassed'
      BY <1>0, <2>4, <3>2, <3>3 DEF NothingPassed
    <3> QED
      BY <1>1, <3>2, <3>4, RoundStep
  <2>6. CASE ~(g < Groups)
    <3>1. thread' = Waiting /\ g = Groups
      BY <1>0, <2>1, <2>6
    <3>2. (\A r \in Requests : ~Holds(r)') /\ \A k \in 1 .. Groups : ~At(k)'
      BY <3>1, Places DEF Holds, At
    <3>3. NothingPassed'
      BY <1>0, <2>4, <3>1, <3>2 DEF NothingPassed
    <3> QED
      BY <1>1, <3>2, <3>3, RoundStep
  <2> QED
    BY <2>5, <2>6
<1> QED
  BY <1>2, <1>3, <1>4

\* Every step keeps the books.
LEMMA InvNext == Inv /\ [Next]_vars => Inv'
<1> SUFFICES ASSUME Inv, [Next]_vars PROVE Inv'
  OBVIOUS
<1>0. Typed
  BY DEF Inv
<1>1. ASSUME NEW r \in Requests, GetSingleton(r) \/ Send(r) \/ SignalPushed(r) PROVE Inv'
  <2>1. UNCHANGED <<started, group_of, inFlight, completing, counter, refused, queues_,
                    answers, thread>>
    BY <1>1 DEF GetSingleton, Send, SignalPushed, protocolVars, historyVars
  <2>2. PICK x \in {"entered", "inserted", "sent"} : sending' = [sending EXCEPT ![r] = x]
    BY <1>1 DEF GetSingleton, Send, SignalPushed
  <2>3. is_satisfied_' \in BOOLEAN
    BY <1>0, <1>1, Zenon DEF GetSingleton, Send, SignalPushed, Typed
  <2>4. /\ sending' \in [Requests -> {"new", "entered", "inserted", "pushed", "sent"}]
        /\ \A s \in Requests \ {r} : sending'[s] = sending[s]
        /\ sending'[r] = x
    BY <1>0, <2>2 DEF Typed
  <2>5. \A s \in Requests : Unsent(s)' => Unsent(s)
    BY <1>1, <2>4 DEF Unsent, GetSingleton, Send, SignalPushed
  <2>6. Signalled => Signalled'
    <3>1. CASE SignalPushed(r)
      BY <3>1, ZenonT(30) DEF SignalPushed, Signalled
    <3>2. CASE GetSingleton(r) \/ Send(r)
      <4>1. sending[r] # "pushed" /\ is_satisfied_' = is_satisfied_
        BY <3>2 DEF GetSingleton, Send
      <4> QED
        BY <2>1, <2>4, <4>1 DEF Signalled, SignalComes
    <3> QED
      BY <1>1, <3>1, <3>2
  <2>7. Protocol!Ready' => Protocol!Ready
    BY <2>1 DEF Protocol!Ready
  <2> QED
    BY <2>1, <2>3, <2>4, <2>5, <2>6, <2>7, QuietStep, ZenonT(30)
<1>2. ASSUME UNCHANGED <<group_of, inFlight, completing, counter, refused, queues_, answers,
                         sending, thread>>,
             is_satisfied_' \in BOOLEAN, is_satisfied_ = TRUE => is_satisfied_' = TRUE,
             started' = started \/ started' = FALSE
      PROVE  Inv'
  <2>1. \A s \in Requests : Unsent(s)' => Unsent(s)
    BY <1>2 DEF Unsent
  <2>2. Signalled => Signalled'
    BY <1>2 DEF Signalled, SignalComes
  <2>3. Protocol!Ready' => Protocol!Ready
    BY <1>2, Zenon DEF Protocol!Ready
  <2>4. sending' \in [Requests -> {"new", "entered", "inserted", "pushed", "sent"}]
    BY <1>0, <1>2 DEF Typed
  <2> QED
    BY <1>2, <2>1, <2>2, <2>3, <2>4, QuietStep
<1>3. ASSUME NEW r \in Requests, Cancel(r) \/ StopCancels(r) PROVE Inv'
  <2>1. UNCHANGED <<started, group_of, inFlight, completing, counter, refused, sending,
                    thread, is_satisfied_>>
    BY <1>3 DEF Cancel, StopCancels, CancelPending, CancelNotPending, cancelUnchanged,
                historyVars
  <2>2. CASE RemoveIf(r) /\ CallBack(r)
    BY <2>1, <2>2, CancelPendingKeeps, Zenon DEF CallBack
  <2>3. CASE UNCHANGED <<queues_, answers>>
    BY <1>0, <1>2, <2>1, <2>3, Zenon DEF Typed
  <2> QED
    BY <1>3, <2>2, <2>3, ZenonT(30) DEF Cancel, StopCancels, CancelPending, CancelNotPending
<1>4. ASSUME NEW r \in Requests, NEW c \in {"user", "stop"}, CancelInProtocol(c, r) PROVE Inv'
  <2>1. /\ UNCHANGED <<started, group_of, inFlight, completing, counter, refused, queues_,
                       answers, sending, thread>>
        /\ is_satisfied_' = (is_satisfied_ \/ r \in inFlight)
    BY <1>4 DEF CancelInProtocol, cancelUnchanged, historyVars
  <2>2. is_satisfied_' \in BOOLEAN /\ (is_satisfied_ = TRUE => is_satisfied_' = TRUE)
    BY <1>0, <2>1 DEF Typed
  <2> QED
    BY <1>2, <2>1, <2>2, Zenon
<1>5. CASE Stop \/ Deinitialize \/ StopThread \/ Join \/ UNCHANGED vars
  <2>1. UNCHANGED <<group_of, inFlight, completing, counter, refused, queues_, answers,
                    sending, thread>>
    BY <1>5 DEF Stop, Deinitialize, StopThread, Join, teardownUnchanged, protocolVars,
                historyVars, vars
  <2>2. started' = started \/ started' = FALSE
    BY <1>5 DEF Stop, Deinitialize, StopThread, Join, protocolVars, vars
  <2>3. is_satisfied_' = is_satisfied_ \/ is_satisfied_' = TRUE
    BY <1>5 DEF Stop, Deinitialize, StopThread, Join, vars
  <2> QED
    BY <1>0, <1>2, <2>1, <2>2, <2>3, Zenon DEF Typed
<1>6. CASE ThreadStep
  <2>1. ASSUME NEW g \in 1 .. Groups, VisitPops(g) PROVE Inv'
    BY <2>1, VisitPopsKeeps
  <2>2. ASSUME NEW r \in Requests, SendAccepted(r) \/ SendNotReady(r) \/ SendFails(r)
        PROVE  Inv'
    BY <2>2, SendAcceptedKeeps, SendNotReadyKeeps, SendFailsKeeps
  <2> QED
    BY <1>6, <2>1, <2>2, RoundKeeps DEF ThreadStep
<1>7. ASSUME NEW r \in Requests, UserStep(r) \/ CallbackStep(r) PROVE Inv'
  BY <1>1, <1>7, PushKeeps, ProtocolAnswersKeeps, CallbackCallsKeeps, CallbackDecrementsKeeps,
     CallbackSignalsKeeps DEF UserStep, CallbackStep
<1> QED
  BY <1>1, <1>3, <1>4, <1>5, <1>6, <1>7, SendOfflineKeeps
  DEF Next, CancelStep, TeardownStep, Destroyed

(***************************************************************************)
(* The decorator keeps its books: no request is called back twice, however *)
(* its cancellation, its answer, a refusal and the end of the network      *)
(* overlap; the counter of a group is that of the requests the protocol    *)
(* works on for it, and of every ErrorNotReady, and stays within the       *)
(* quota; and when the thread waits without a signal set or coming, no     *)
(* group has a request that it could send.                                 *)
(***************************************************************************)
THEOREM QueueCorrect == Spec => []QueueIsKept
<1>1. Inv => QueueIsKept
  <2> SUFFICES ASSUME Inv PROVE QueueIsKept
    OBVIOUS
  <2>1. AtMostOneAnswer /\ QuotaIsKept
    BY DEF Inv, OnePlace, AtMostOneAnswer
  <2>2. is_satisfied_ <=> is_satisfied_ = TRUE
    BY DEF Inv, Typed
  <2>3. NoRequestStranded
    BY <2>2 DEF Inv, NothingPassed, Blocked, Signalled, NoRequestStranded
  <2> QED
    BY <2>1, <2>3 DEF QueueIsKept
<1>2. Spec => []Inv
  BY InvInit, InvNext, PTL DEF Spec
<1> QED
  BY <1>1, <1>2, PTL
=============================================================================
