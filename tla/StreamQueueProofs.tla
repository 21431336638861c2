-------------------------- MODULE StreamQueueProofs --------------------------
(***************************************************************************)
(* The two safety properties of StreamQueue, for every set of requests and *)
(* every set of flushes, every setting and any number of crashes,          *)
(* when the cache is a disk without a memory in front of it.  (With a      *)
(* memory a crash does lose requests.)                                     *)
(***************************************************************************)
EXTENDS StreamQueue, TLAPS

\* The steps are Zenon's, but for those that name the SMT solver.
USE ZenonT(30)

-----------------------------------------------------------------------------
(* The cache. *)

\* The settings of the cache: a disk path and no memory.
DiskOnly == HasDiskPath = TRUE /\ MaxMemory = 0

\* What is stored under a key, without an expiry.
Stored(content) == [content |-> content, due |-> Never]
Items == [content : Requests \cup Seq(Uuids), due : {Never}]

\* An open cache has its database, and no key has an expiry.
CacheFits ==
  /\ DiskOnly
  /\ is_open_ \in BOOLEAN /\ memory_cache_ = None /\ disk_path = TRUE
  /\ is_open_ => disk_cache_ = TRUE
  /\ db = [item |-> db.item, expiry |-> db.expiry]
  /\ DOMAIN db.expiry = {}
  /\ db.item = [k \in DOMAIN db.item |-> db.item[k]]
  /\ \A k \in DOMAIN db.item : db.item[k] \in Items

\* The keys under which something is stored, and the list.
Present == DOMAIN db.item
Kept == IF ListKey \in Present THEN db.item[ListKey].content ELSE <<>>

\* DefaultCache::Get on a disk without expiries returns what is stored, and
\* changes nothing.
LEMMA GetOnDisk ==
  ASSUME CacheFits
  PROVE  /\ is_open_ => \A k : Cache!Returned(k) = IF k \in Present THEN db.item[k]
                                                   ELSE None
         /\ \A k : Cache!Get(k) => is_open_ /\ UNCHANGED cacheVars
<1>1. \A k : Cache!RemainingExpiry(k) = Never /\ Never > 0 /\ ~(Never <= 0)
  BY StreamQueueConstants, SMT DEF CacheFits, Cache!RemainingExpiry
<1>2. \A k : ~Cache!InMemory(k)
  BY DEF CacheFits, Cache!InMemory
<1>3. is_open_ => \A k : Cache!OnDisk(k) <=> k \in Present
  BY <1>1 DEF CacheFits, Cache!OnDisk, Cache!Writable, Present
<1>4. ASSUME is_open_, NEW k
      PROVE  Cache!Returned(k) = IF k \in Present THEN db.item[k] ELSE None
  BY <1>2, <1>3, <1>4 DEF Cache!Returned
<1>5. ASSUME NEW k, Cache!Get(k)
      PROVE  is_open_ /\ UNCHANGED cacheVars
  BY <1>1, <1>2, <1>5 DEF CacheFits, Cache!Get, Cache!GetFromDisk, cacheVars
<1> QED  BY <1>4, <1>5

\* QueueSize and PopFromQueue find the list that is stored.
LEMMA ListOnDisk ==
  ASSUME CacheFits, is_open_
  PROVE  List = Kept
<1>1. Cache!Returned(ListKey) = IF ListKey \in Present THEN db.item[ListKey]
                                ELSE None
  BY GetOnDisk
<1>2. ListKey \in Present => db.item[ListKey] # None
  BY StreamQueueConstants DEF CacheFits, Present, Items
<1> QED  BY <1>1, <1>2, SMT DEF List, Kept

\* DefaultCache::Put on the disk stores the item.
LEMMA PutOnDisk ==
  ASSUME CacheFits, NEW k, NEW content \in Requests \cup Seq(Uuids),
         Cache!Put(k, content, Never)
  PROVE  /\ CacheFits' /\ is_open_ /\ is_open_'
         /\ Present' = Present \cup {k}
         /\ db'.item[k] = Stored(content)
         /\ \A j \in Present : j # k => db'.item[j] = db.item[j]
<1> DEFINE item == Cache!Item(content, Never)
<1>1. /\ is_open_ /\ Cache!PutOnDisk(k, item, Never)
      /\ UNCHANGED <<is_open_, disk_cache_, disk_path, memory_cache_>>
  BY DEF CacheFits, Cache!Put
<1>2. disk_cache_ = TRUE /\ disk_cache_ # None
  BY <1>1, StreamQueueConstants DEF CacheFits
<1>3. item = Stored(content) /\ Stored(content) \in Items
  BY DEF Cache!Item, Stored, Items
<1> HIDE DEF item
<1>4. db' = Cache!StoreItem(db, k, item)
  BY <1>1, <1>2 DEF Cache!PutOnDisk, Cache!Writable
<1>5. /\ db' = [item |-> db'.item, expiry |-> db'.expiry]
      /\ db'.expiry = db.expiry
      /\ db'.item = [j \in Present \cup {k} |-> IF j = k THEN item ELSE db.item[j]]
  BY <1>4 DEF Cache!StoreItem, CacheFits, Present
<1>6. /\ Present' = Present \cup {k}
      /\ db'.item[k] = item
      /\ \A j \in Present : j # k => db'.item[j] = db.item[j]
      /\ db'.item = [j \in Present' |-> db'.item[j]]
  BY <1>5 DEF Present
<1>7. \A j \in Present' : db'.item[j] \in Items
  BY <1>3, <1>6 DEF CacheFits, Present
<1> QED  BY <1>1, <1>2, <1>3, <1>5, <1>6, <1>7 DEF CacheFits, DiskOnly, Items, Present

\* DefaultCache::Remove on the disk removes the item.
LEMMA RemoveOnDisk ==
  ASSUME CacheFits, NEW k, Cache!Remove(k)
  PROVE  /\ CacheFits' /\ is_open_ /\ is_open_'
         /\ Present' = Present \ {k}
         /\ \A j \in Present : j # k => db'.item[j] = db.item[j]
<1>1. /\ is_open_ /\ disk_cache_ = TRUE
      /\ UNCHANGED <<is_open_, disk_cache_, disk_path, memory_cache_>>
      /\ db' = Cache!RemoveItems(db, {k})
  BY DEF CacheFits, Cache!Remove, Cache!Writable
<1>2. /\ db' = [item |-> db'.item, expiry |-> db'.expiry]
      /\ db'.expiry = db.expiry
      /\ db'.item = [j \in Present \cap (Present \ {k}) |-> db.item[j]]
  BY <1>1 DEF Cache!RemoveItems, Cache!Restrict, CacheFits, Present
<1>3. /\ Present' = Present \ {k}
      /\ \A j \in Present : j # k => db'.item[j] = db.item[j]
      /\ db'.item = [j \in Present' |-> db'.item[j]]
  BY <1>2 DEF Present
<1> QED  BY <1>1, <1>2, <1>3 DEF CacheFits, DiskOnly, Items, Present

\* Opening the cache and the death of the process leave the files alone.
LEMMA OpenAndCrash ==
  ASSUME CacheFits, OpenCache \/ Cache!Crash
  PROVE  CacheFits' /\ UNCHANGED db
<1>1. CASE OpenCache
  <2>1. PICK opened \in BOOLEAN : Cache!SetupStorage(opened)
    BY <1>1 DEF OpenCache, Cache!Open
  <2>2. is_open_' = TRUE /\ disk_path' = TRUE /\ UNCHANGED db
    BY <1>1 DEF OpenCache, Cache!Open, CacheFits
  <2>3. memory_cache_' = None
    BY <2>1, SMT DEF Cache!SetupStorage, CacheFits, DiskOnly
  <2>4. disk_cache_' = TRUE
    BY <2>1, <2>2 DEF Cache!SetupStorage, CacheFits
  <2> QED  BY <2>2, <2>3, <2>4 DEF CacheFits, DiskOnly, Items
<1>2. CASE Cache!Crash
  BY <1>2 DEF CacheFits, DiskOnly, Cache!Crash, Cache!Die
<1> QED  BY <1>1, <1>2

-----------------------------------------------------------------------------
(* The inductive invariant. *)

\* Where a call of Queue may be.
QueueLabels == {"idle", "queue", "put", "list", "append", "done", "refused"}

ThreadsFit ==
  /\ pc \in [Threads -> Labels]
  /\ request \in [Threads -> Requests \cup {None}]
  /\ uuid_list \in [Threads -> Seq(Uuids)]
  /\ counter \in [Flushes -> Nat]
  /\ flush_settings_ \in [maximum_requests : MaximumRequests,
                          events_per_single_flush : EventsPerFlush]
  /\ crashes \in Nat
  /\ \A r \in Requests :
       /\ request[r] = r
       /\ pc[r] \in QueueLabels

Locked == {"list", "append", "read", "remove", "store"}

LockFits ==
  /\ mutex \in Threads \cup {None}
  /\ \A t \in Threads : mutex = t <=> pc[t] \in Locked

\* A thread stores at most one request: where it cannot do so any more.
PutBehind == {"list", "append", "callback", "done", "refused"}

\* The list has every UUID once, and a request is stored under its UUID.
ListFits ==
  /\ Kept \in Seq(Uuids)
  /\ \A i, j \in 1 .. Len(Kept) : Kept[i] = Kept[j] => i = j
  /\ \A u \in Uuids \cap Present : db.item[u].content = u[1]

\* The list has no UUID that is still to come.
NamesFit == \A i \in 1 .. Len(Kept) : pc[Kept[i][2]] \in PutBehind

\* Without a crash only the head of the list may be without its request, while
\* a pop is about to remove it from the list.
ListIsBacked ==
  crashes = 0 =>
    \A i \in 1 .. Len(Kept) :
      Kept[i] \in Present \/ (i = 1 /\ \E f \in Flushes : pc[f] = "store")

\* The locals of whoever holds the lock agree with the cache.
LocalsFit(t) ==
  /\ pc[t] \in {"list", "append"} =>
       /\ Uuid(t) \in Uuids \cap Present
       /\ \A i \in 1 .. Len(Kept) : Kept[i] # Uuid(t)
  /\ pc[t] \in {"append", "read", "remove", "store"} => uuid_list[t] = Kept
  /\ pc[t] \in {"read", "remove", "store"} => Kept # <<>>
  /\ pc[t] = "remove" =>
       request[t] = IF Kept[1] \in Present THEN Kept[1][1] ELSE None
  /\ pc[t] = "store" => Kept[1] \notin Present

\* What a flush has in its hands, and that nothing is put aside unanswered.
HandsFit(f) ==
  /\ pc[f] \in {"queue", "put", "list", "append", "publish", "publishing", "check"}
       => request[f] # None
  /\ pc[f] \in {"idle", "loop", "pop", "read", "done"} => request[f] = None
  /\ pc[f] = "check" => f \in cancelled \/ request[f] \in answered

\* The counter of a flush is below the limit until the loop has looked at it.
LimitFits(f) ==
  /\ pc[f] = "idle" => counter[f] = 0
  /\ events_per_single_flush # None =>
       /\ counter[f] = 0 \/ counter[f] <= events_per_single_flush
       /\ pc[f] = "loop" => counter[f] <= events_per_single_flush
       /\ pc[f] \in {"pop", "read", "remove", "store", "publish", "publishing",
                     "check"} => counter[f] < events_per_single_flush

\* An accepted request is listed, or a flush has or had it.
InQueue(r) == \E i \in 1 .. Len(Kept) : Kept[i][1] = r /\ Kept[i] \in Present

AcceptedFits ==
  \A r \in accepted :
    /\ r \in Requests /\ pc[r] = "done"
    /\ \/ InQueue(r)
       \/ \E f \in Flushes : request[f] = r
       \/ r \in answered \cup dropped

Inv ==
  /\ CacheFits /\ ThreadsFit /\ LockFits
  /\ ListFits /\ NamesFit /\ ListIsBacked /\ AcceptedFits
  /\ \A t \in Threads : LocalsFit(t)
  /\ \A f \in Flushes : HandsFit(f) /\ LimitFits(f)

-----------------------------------------------------------------------------
(* One thread moves. *)

\* What every step of a thread leaves alone, and what it may not do to the lock
\* and to the history.
Moves(t) ==
  /\ pc' \in [Threads -> Labels]
  /\ request' \in [Threads -> Requests \cup {None}]
  /\ uuid_list' \in [Threads -> Seq(Uuids)]
  /\ counter' \in [Flushes -> Nat]
  /\ \A x \in Threads \ {t} :
       pc'[x] = pc[x] /\ request'[x] = request[x] /\ uuid_list'[x] = uuid_list[x]
  /\ \A f \in Flushes \ {t} : counter'[f] = counter[f]
  /\ cancelled \subseteq cancelled' /\ answered \subseteq answered'
  /\ dropped \subseteq dropped'
  /\ UNCHANGED <<flush_settings_, crashes>>
  /\ t \in Requests => request'[t] = request[t] /\ pc'[t] \in QueueLabels
  /\ \/ mutex' = mutex /\ (pc[t] \in Locked <=> pc'[t] \in Locked)
     \/ mutex = None /\ mutex' = t /\ pc'[t] \in Locked
     \/ mutex = t /\ mutex' = None /\ pc'[t] \notin Locked
  /\ pc[t] \in PutBehind => pc'[t] \in PutBehind

\* The UUIDs of the list are of a request and a thread that has stored it.
LEMMA ListEntries ==
  ASSUME Inv
  PROVE  /\ Kept \in Seq(Uuids) /\ Len(Kept) \in Nat
         /\ \A i \in 1 .. Len(Kept) :
              /\ Kept[i] \in Uuids /\ Kept[i][1] \in Requests /\ Kept[i][2] \in Threads
              /\ pc[Kept[i][2]] \in PutBehind
<1>1. Kept \in Seq(Uuids) /\ \A i \in 1 .. Len(Kept) : pc[Kept[i][2]] \in PutBehind
  BY DEF Inv, ListFits, NamesFit
<1>2. Len(Kept) \in Nat /\ \A i \in 1 .. Len(Kept) : Kept[i] \in Uuids
  BY <1>1, SMT
<1>3. \A u \in Uuids : u[1] \in Requests /\ u[2] \in Threads
  BY DEF Uuids
<1> QED  BY <1>1, <1>2, <1>3

\* A thread that has stored its request does not store another, so the UUIDs of
\* a list that stays are still not to come.
LEMMA NamesKept ==
  ASSUME Inv, Kept' = Kept,
         \A t \in Threads : pc[t] \in PutBehind => pc'[t] \in PutBehind
  PROVE  NamesFit'
BY ListEntries DEF NamesFit

\* What holds of the other threads still does: only the holder of the lock
\* depends on what a step stores, and there is no other holder then.
LEMMA MoveKeeps ==
  ASSUME Inv, NEW t \in Threads, Moves(t),
         UNCHANGED db \/ mutex \in {None, t},
         LocalsFit(t)',
         t \in Flushes => HandsFit(t)' /\ LimitFits(t)'
  PROVE  /\ ThreadsFit' /\ LockFits'
         /\ \A x \in Threads : LocalsFit(x)'
         /\ \A f \in Flushes : HandsFit(f)' /\ LimitFits(f)'
<1>1. None \notin Threads /\ Flushes \subseteq Threads /\ Requests \subseteq Threads
  BY StreamQueueConstants DEF Threads
<1>2. ThreadsFit'
  BY <1>1 DEF Inv, ThreadsFit, Moves
<1>3. LockFits'
  BY <1>1 DEF Inv, LockFits, Moves
<1>4. ASSUME NEW x \in Threads, x # t
      PROVE  LocalsFit(x)'
  <2>1. pc'[x] = pc[x] /\ request'[x] = request[x] /\ uuid_list'[x] = uuid_list[x]
    BY <1>4 DEF Moves
  <2>2. CASE pc[x] \notin Locked
    BY <2>1, <2>2 DEF LocalsFit, Locked
  <2>3. CASE pc[x] \in Locked
    <3>1. UNCHANGED db
      BY <1>1, <1>4, <2>3 DEF Inv, LockFits
    <3>2. Kept' = Kept /\ Present' = Present /\ Uuid(x)' = Uuid(x)
      BY <2>1, <3>1 DEF Kept, Present, Uuid
    <3> QED  BY <2>1, <3>2 DEF Inv, LocalsFit
  <2> QED  BY <2>2, <2>3
<1>5. ASSUME NEW f \in Flushes, f # t
      PROVE  HandsFit(f)' /\ LimitFits(f)'
  BY <1>1, <1>5 DEF Inv, HandsFit, LimitFits, Moves, events_per_single_flush
<1> QED  BY <1>2, <1>3, <1>4, <1>5

\* A step that stores nothing keeps the invariant when it keeps what belongs to
\* its thread, and a flush lets go of a request only when that is answered or
\* dropped.
LEMMA QuietKeeps ==
  ASSUME Inv, NEW t \in Threads, Moves(t),
         UNCHANGED <<cacheVars, accepted>>,
         pc[t] # "done", pc[t] = "store" => pc'[t] = "store",
         LocalsFit(t)',
         t \in Flushes => /\ HandsFit(t)' /\ LimitFits(t)'
                          /\ \/ request[t] \in {None, request'[t]}
                             \/ request[t] \in answered' \cup dropped'
  PROVE  Inv'
<1>1. UNCHANGED <<is_open_, memory_cache_, disk_cache_, disk_path, db, accepted>>
  BY DEF cacheVars
<1>2. Kept' = Kept /\ Present' = Present /\ CacheFits'
  BY <1>1 DEF Kept, Present, Inv, CacheFits, DiskOnly, Items
<1>4. /\ ThreadsFit' /\ LockFits'
      /\ \A x \in Threads : LocalsFit(x)'
      /\ \A f \in Flushes : HandsFit(f)' /\ LimitFits(f)'
  BY <1>1, MoveKeeps
<1>5. NamesFit'
  BY <1>2, NamesKept DEF Moves
<1>6. ListFits'
  BY <1>1, <1>2 DEF Inv, ListFits
<1>7. ListIsBacked'
  BY <1>1, <1>2 DEF Inv, ListIsBacked, Moves, Threads
<1>8. AcceptedFits'
  <2> SUFFICES ASSUME NEW r \in accepted
               PROVE  /\ r \in Requests /\ pc'[r] = "done"
                      /\ \/ InQueue(r)'
                         \/ \E f \in Flushes : request'[f] = r
                         \/ r \in answered' \cup dropped'
    BY <1>1 DEF AcceptedFits
  <2>1. r \in Requests /\ pc[r] = "done" /\ r # None /\ r # t
    BY StreamQueueConstants DEF Inv, AcceptedFits, Threads
  <2>2. pc'[r] = "done"
    BY <2>1 DEF Moves, Threads
  <2>3. CASE InQueue(r)
    BY <1>2, <2>1, <2>2, <2>3 DEF InQueue
  <2>4. CASE \E f \in Flushes : request[f] = r
    BY <2>1, <2>2, <2>4 DEF Moves, Threads
  <2>5. CASE r \in answered \cup dropped
    BY <2>1, <2>2, <2>5 DEF Moves
  <2> QED  BY <2>3, <2>4, <2>5 DEF Inv, AcceptedFits
<1> QED  BY <1>2, <1>4, <1>5, <1>6, <1>7, <1>8 DEF Inv

\* The limit of a flush, when there is one, is a number.
LEMMA LimitType ==
  ASSUME Inv, NEW f \in Flushes
  PROVE  /\ counter[f] \in Nat
         /\ events_per_single_flush # None => events_per_single_flush \in Int
  BY StreamQueueConstants DEF Inv, ThreadsFit, events_per_single_flush

\* A thread calls Queue; it holds nothing yet.
LEMMA CallQueueKeeps ==
  ASSUME Inv, NEW r \in Requests, CallQueue(r)
  PROVE  Inv'
<1>1. r \in Threads /\ r \notin Flushes
  BY StreamQueueConstants DEF Threads
<1>2. Moves(r)
  BY <1>1 DEF Inv, ThreadsFit, CallQueue, Goto, Moves, processVars, Labels, QueueLabels,
           Locked, PutBehind, Threads
<1>3. LocalsFit(r)'
  BY <1>1 DEF Inv, ThreadsFit, CallQueue, Goto, LocalsFit
<1> QED  BY <1>1, <1>2, <1>3, QuietKeeps DEF CallQueue, NoCacheCall

\* Queue's check of maximum_requests reads the list and decides where its thread
\* goes next; nothing of the queue changes.
LEMMA CheckMaximumKeeps ==
  ASSUME Inv, NEW t \in Threads, CheckMaximum(t)
  PROVE  Inv'
<1>1. UNCHANGED cacheVars
  BY GetOnDisk DEF Inv, CheckMaximum, NoCacheCall
<1>2. \E label \in {"put", "refused", "callback"} :
        Goto(t, label) /\ (t \in Requests => label # "callback")
  BY DEF CheckMaximum
<1>3. Moves(t)
  BY <1>2 DEF Inv, ThreadsFit, CheckMaximum, Goto, Moves, processVars, Labels,
           QueueLabels, Locked, PutBehind, Threads
<1>4. LocalsFit(t)'
  BY <1>2 DEF Inv, ThreadsFit, Goto, LocalsFit
<1>5. t \in Flushes => HandsFit(t)' /\ LimitFits(t)'
  BY <1>2 DEF Inv, ThreadsFit, CheckMaximum, Goto, HandsFit, LimitFits, processVars,
           events_per_single_flush
<1> QED  BY <1>1, <1>3, <1>4, <1>5, QuietKeeps DEF CheckMaximum

\* Queue reads the list of keys: what its thread holds until it stores the list
\* again is the list that is stored, because it has the lock.
LEMMA ReadListKeeps ==
  ASSUME Inv, NEW t \in Threads, ReadList(t)
  PROVE  Inv'
<1>1. UNCHANGED cacheVars /\ List = Kept
  BY GetOnDisk, ListOnDisk DEF Inv, ReadList
<1>2. Kept' = Kept /\ Present' = Present /\ Kept \in Seq(Uuids)
  BY <1>1 DEF cacheVars, Kept, Present, Inv, ListFits
<1>3. Moves(t)
  BY <1>1, <1>2 DEF Inv, ThreadsFit, ReadList, Goto, Moves, processVars, Labels,
           QueueLabels, Locked, PutBehind, Threads
<1>4. LocalsFit(t)'
  BY <1>1, <1>2 DEF Inv, ThreadsFit, ReadList, Goto, LocalsFit, Uuid
<1>5. t \in Flushes => HandsFit(t)' /\ LimitFits(t)'
  BY DEF Inv, ThreadsFit, ReadList, Goto, HandsFit, LimitFits, processVars,
           events_per_single_flush
<1> QED  BY <1>1, <1>3, <1>4, <1>5, QuietKeeps DEF ReadList

\* A flush starts with an empty hand and a count of zero.
LEMMA CallFlushKeeps ==
  ASSUME Inv, NEW f \in Flushes, CallFlush(f)
  PROVE  Inv'
<1>1. f \in Threads /\ f \notin Requests
  BY StreamQueueConstants DEF Threads
<1>2. \E label \in {"callback", "loop"} : Goto(f, label)
  BY DEF CallFlush
<1>3. Moves(f)
  BY <1>1, <1>2 DEF Inv, ThreadsFit, CallFlush, Goto, Moves, processVars, Labels,
           Locked, PutBehind, Threads
<1>4. LocalsFit(f)'
  BY <1>1, <1>2 DEF Inv, ThreadsFit, Goto, LocalsFit
<1>5. HandsFit(f)'
  BY <1>1, <1>2 DEF Inv, ThreadsFit, CallFlush, Goto, HandsFit
<1>6. UNCHANGED events_per_single_flush /\ counter' = counter /\ counter[f] = 0
  BY DEF CallFlush, processVars, events_per_single_flush, Inv, LimitFits
<1>7. \/ pc'[f] = "callback"
      \/ pc'[f] = "loop" /\ ~(events_per_single_flush \in Int /\ events_per_single_flush <= 0)
  BY <1>1 DEF CallFlush, Goto, Inv, ThreadsFit
<1>8. LimitFits(f)'
  BY <1>6, <1>7, LimitType, SMT DEF LimitFits
<1> QED  BY <1>1, <1>3, <1>4, <1>5, <1>8, QuietKeeps DEF CallFlush, NoCacheCall

\* The condition of Flush's loop: a flush goes on only below the limit of its
\* settings.
LEMMA CheckQueueKeeps ==
  ASSUME Inv, NEW f \in Flushes, CheckQueue(f)
  PROVE  Inv'
<1>1. f \in Threads /\ f \notin Requests
  BY StreamQueueConstants DEF Threads
<1>2. UNCHANGED cacheVars
  BY GetOnDisk DEF Inv, CheckQueue, NoCacheCall
<1>3. \/ Goto(f, "callback")
      \/ Goto(f, "pop") /\ counter[f] # events_per_single_flush
  BY DEF CheckQueue
<1>4. Moves(f)
  <2>1. pc' \in [Threads -> Labels] /\ pc[f] = "loop" /\ pc'[f] \in {"callback", "pop"}
        /\ \A x \in Threads \ {f} : pc'[x] = pc[x]
    BY <1>1, <1>3 DEF Inv, ThreadsFit, CheckQueue, Goto, Labels
  <2> QED  BY <1>1, <2>1 DEF Inv, ThreadsFit, CheckQueue, Moves, processVars, Locked,
                  PutBehind
<1>5. LocalsFit(f)'
  BY <1>1, <1>3 DEF Inv, ThreadsFit, Goto, LocalsFit
<1>6. HandsFit(f)'
  BY <1>1, <1>3 DEF Inv, ThreadsFit, CheckQueue, Goto, HandsFit
<1>7. /\ UNCHANGED events_per_single_flush /\ counter' = counter
      /\ \/ pc'[f] = "callback"
         \/ pc'[f] = "pop" /\ counter[f] # events_per_single_flush
  BY <1>1, <1>3 DEF CheckQueue, Goto, Inv, ThreadsFit, processVars, events_per_single_flush
<1>8. LimitFits(f)'
  BY <1>7, LimitType, SMT DEF Inv, LimitFits, CheckQueue
<1> QED  BY <1>1, <1>2, <1>4, <1>5, <1>6, <1>8, QuietKeeps DEF CheckQueue

\* PopFromQueue reads the list and takes the lock, unless the list is empty.
LEMMA PopListKeeps ==
  ASSUME Inv, NEW f \in Flushes, PopList(f)
  PROVE  Inv'
<1>1. f \in Threads /\ f \notin Requests
  BY StreamQueueConstants DEF Threads
<1>2. UNCHANGED cacheVars /\ List = Kept
  BY GetOnDisk, ListOnDisk DEF Inv, PopList
<1>3. Kept' = Kept /\ Kept \in Seq(Uuids)
  BY <1>2 DEF cacheVars, Kept, Present, Inv, ListFits
<1>4. Moves(f)
  <2>1. /\ pc' \in [Threads -> Labels] /\ pc[f] = "pop"
        /\ \A x \in Threads \ {f} : pc'[x] = pc[x]
        /\ \/ pc'[f] = "loop" /\ UNCHANGED <<mutex, uuid_list>>
           \/ pc'[f] = "read" /\ mutex' = f /\ uuid_list' = [uuid_list EXCEPT ![f] = Kept]
    BY <1>1, <1>2 DEF Inv, ThreadsFit, PopList, Goto, Labels
  <2> QED  BY <1>1, <1>3, <2>1 DEF Inv, ThreadsFit, PopList, Moves, processVars, Locked,
                  PutBehind, MutexFree
<1>5. LocalsFit(f)'
  BY <1>1, <1>2, <1>3 DEF Inv, ThreadsFit, PopList, Goto, LocalsFit
<1>6. HandsFit(f)' /\ LimitFits(f)'
  <2>1. /\ UNCHANGED <<request, counter, events_per_single_flush>>
        /\ pc[f] = "pop" /\ pc'[f] \in {"loop", "read"}
    BY <1>1 DEF Inv, ThreadsFit, PopList, Goto, processVars, events_per_single_flush
  <2> QED  BY <2>1, LimitType, SMT DEF Inv, HandsFit, LimitFits
<1> QED  BY <1>1, <1>2, <1>4, <1>5, <1>6, QuietKeeps DEF PopList

\* PopFromQueue reads the request behind the first key into the hands of its
\* flush, if there is one: a crash may have left a key without its request.
LEMMA PopDataKeeps ==
  ASSUME Inv, NEW f \in Flushes, PopData(f)
  PROVE  Inv'
<1>1. f \in Threads /\ f \notin Requests
  BY StreamQueueConstants DEF Threads
<1>2. UNCHANGED cacheVars /\ is_open_
  BY GetOnDisk DEF Inv, PopData
<1>3. Kept' = Kept /\ Present' = Present
  BY <1>2 DEF cacheVars, Kept, Present
<1>4. /\ Kept \in Seq(Uuids) /\ Kept # <<>> /\ uuid_list[f] = Kept
      /\ Head(uuid_list[f]) = Kept[1] /\ Kept[1] \in Uuids
  BY <1>1, SMT DEF Inv, ListFits, LocalsFit, PopData
<1>5. Kept[1] \in Present => db.item[Kept[1]].content = Kept[1][1]
                             /\ db.item[Kept[1]] # None /\ Kept[1][1] \in Requests
  BY <1>4, StreamQueueConstants DEF Inv, ListFits, CacheFits, Items, Present, Uuids
<1>6. request' = [request EXCEPT ![f] = IF Kept[1] \in Present THEN Kept[1][1]
                                        ELSE None]
  BY <1>2, <1>4, <1>5, GetOnDisk DEF PopData, Inv
<1>7. Moves(f)
  BY <1>1, <1>5, <1>6 DEF Inv, ThreadsFit, PopData, Goto, Moves, processVars,
           Labels, Locked, PutBehind, Threads
<1>8. LocalsFit(f)'
  BY <1>1, <1>3, <1>4, <1>6 DEF Inv, ThreadsFit, PopData, Goto, LocalsFit
<1>9. HandsFit(f)' /\ LimitFits(f)' /\ request[f] = None
  BY <1>1 DEF Inv, ThreadsFit, PopData, Goto, HandsFit, LimitFits, processVars,
           events_per_single_flush
<1> QED  BY <1>1, <1>2, <1>7, <1>8, <1>9, QuietKeeps DEF PopData

\* The answer to PublishData arrives while its request is in the hands of the
\* flush.
LEMMA PublishKeeps ==
  ASSUME Inv, NEW f \in Flushes, Publish(f) \/ PublishAnswers(f)
  PROVE  Inv'
<1>1. f \in Threads /\ f \notin Requests
  BY StreamQueueConstants DEF Threads
<1>2. /\ UNCHANGED <<cacheVars, accepted, request, counter, flush_settings_,
                     crashes, mutex, uuid_list, cancelled, dropped>>
      /\ pc[f] \in {"publish", "publishing"}
      /\ answered \subseteq answered'
      /\ \/ Goto(f, "publishing")
         \/ Goto(f, "check") /\ (f \in cancelled \/ request[f] \in answered')
  BY DEF Publish, PublishAnswers, NoCacheCall, processVars
<1>3. Moves(f)
  BY <1>1, <1>2 DEF Inv, ThreadsFit, Goto, Moves, Labels, Locked, PutBehind
<1>4. LocalsFit(f)'
  BY <1>1, <1>2 DEF Inv, ThreadsFit, Goto, LocalsFit
<1>5. HandsFit(f)' /\ LimitFits(f)'
  BY <1>1, <1>2 DEF Inv, ThreadsFit, Goto, HandsFit, LimitFits, events_per_single_flush
<1> QED  BY <1>1, <1>2, <1>3, <1>4, <1>5, QuietKeeps

\* A flush that was cancelled keeps its request in its hands and queues it again;
\* one that was not has an answer for it and counts it.
LEMMA CheckCancelledKeeps ==
  ASSUME Inv, NEW f \in Flushes, CheckCancelled(f)
  PROVE  Inv'
<1>1. f \in Threads /\ f \notin Requests
  BY StreamQueueConstants DEF Threads
<1>2. /\ UNCHANGED <<cacheVars, accepted, flush_settings_, crashes, mutex,
                     uuid_list, cancelled, answered, dropped>>
      /\ pc[f] = "check"
      /\ \/ /\ Goto(f, "queue")
            /\ UNCHANGED <<counter, request>>
         \/ /\ Goto(f, "loop") /\ f \notin cancelled
            /\ counter' = [counter EXCEPT ![f] = counter[f] + 1]
            /\ request' = [request EXCEPT ![f] = None]
  BY DEF CheckCancelled, NoCacheCall, processVars
<1>3. Moves(f)
  <2>1. /\ pc' \in [Threads -> Labels] /\ pc'[f] \in {"queue", "loop"}
        /\ \A x \in Threads \ {f} : pc'[x] = pc[x]
    BY <1>1, <1>2 DEF Inv, ThreadsFit, Goto, Labels
  <2>2. /\ request' \in [Threads -> Requests \cup {None}]
        /\ \A x \in Threads \ {f} : request'[x] = request[x]
    BY <1>1, <1>2 DEF Inv, ThreadsFit
  <2>3. /\ counter' \in [Flushes -> Nat]
        /\ \A x \in Flushes \ {f} : counter'[x] = counter[x]
    <3>1. counter \in [Flushes -> Nat]
      BY DEF Inv, ThreadsFit
    <3>2. counter[f] + 1 \in Nat
      BY <3>1, SMT
    <3>3. \/ counter' = counter
          \/ counter' = [counter EXCEPT ![f] = counter[f] + 1]
      BY <1>2
    <3> QED  BY <3>1, <3>2, <3>3
  <2> QED  BY <1>1, <1>2, <2>1, <2>2, <2>3 DEF Inv, ThreadsFit, Moves, Locked, PutBehind
<1>4. LocalsFit(f)'
  BY <1>1, <1>2 DEF Inv, ThreadsFit, Goto, LocalsFit
<1>5. HandsFit(f)' /\ (request[f] = request'[f] \/ request[f] \in answered)
  BY <1>1, <1>2 DEF Inv, ThreadsFit, Goto, HandsFit
<1>6. LimitFits(f)'
  <2>1. /\ UNCHANGED events_per_single_flush
        /\ \/ pc'[f] = "queue" /\ counter'[f] = counter[f]
           \/ pc'[f] = "loop" /\ counter'[f] = counter[f] + 1
    BY <1>1, <1>2 DEF Inv, ThreadsFit, Goto, events_per_single_flush
  <2> QED  BY <1>2, <2>1, LimitType, SMT DEF Inv, LimitFits
<1> QED  BY <1>1, <1>2, <1>3, <1>4, <1>5, <1>6, QuietKeeps

\* A flush ends with nothing in its hands: a request that Queue refused to take
\* back counts as dropped.
LEMMA CallbackKeeps ==
  ASSUME Inv, NEW f \in Flushes, Callback(f)
  PROVE  Inv'
<1>1. f \in Threads /\ f \notin Requests
  BY StreamQueueConstants DEF Threads
<1>2. /\ UNCHANGED <<cacheVars, accepted, flush_settings_, crashes, mutex,
                     uuid_list, cancelled, answered, counter>>
      /\ pc[f] = "callback" /\ Goto(f, "done")
      /\ request' = [request EXCEPT ![f] = None]
      /\ dropped' = dropped \cup ({request[f]} \ {None})
  BY DEF Callback, NoCacheCall
<1>3. Moves(f)
  BY <1>1, <1>2 DEF Inv, ThreadsFit, Goto, Moves, Labels, Locked, PutBehind
<1>4. LocalsFit(f)'
  <2>1. pc'[f] = "done"
    BY <1>1, <1>2 DEF Inv, ThreadsFit, Goto
  <2> QED  BY <2>1 DEF LocalsFit
<1>5. HandsFit(f)' /\ LimitFits(f)' /\ request[f] \in {None} \cup dropped'
  BY <1>1, <1>2 DEF Inv, ThreadsFit, Goto, HandsFit, LimitFits, events_per_single_flush
<1> QED  BY <1>1, <1>2, <1>3, <1>4, <1>5, QuietKeeps

\* Cancelling a flush leaves the queue, and every thread, where they are.
LEMMA CancelFlushKeeps ==
  ASSUME Inv, NEW f \in Flushes, CancelFlush(f)
  PROVE  Inv'
<1>1. f \in Threads /\ f \notin Requests
  BY StreamQueueConstants DEF Threads
<1>2. /\ UNCHANGED <<cacheVars, accepted, flush_settings_, crashes, mutex, pc,
                     uuid_list, answered, dropped, counter, request>>
      /\ pc[f] # "done"
      /\ cancelled \subseteq cancelled'
  BY DEF CancelFlush, NoCacheCall, processVars
<1>3. Moves(f)
  BY <1>1, <1>2 DEF Inv, ThreadsFit, Moves
<1>4. LocalsFit(f)'
  BY <1>1, <1>2 DEF Inv, LocalsFit, Uuid, Kept, Present, cacheVars
<1>5. HandsFit(f)' /\ LimitFits(f)'
  BY <1>1, <1>2 DEF Inv, HandsFit, LimitFits, events_per_single_flush
<1> QED  BY <1>1, <1>2, <1>3, <1>4, <1>5, QuietKeeps

-----------------------------------------------------------------------------
(* The steps that store or remove something. *)

\* Queue stores the request under a UUID that is not in the list.
LEMMA PutRequestKeeps ==
  ASSUME Inv, NEW t \in Threads, PutRequest(t)
  PROVE  Inv'
<1> DEFINE r == request[t]
           u == Uuid(t)
<1>1. r \in Requests /\ mutex = None
  BY DEF Inv, ThreadsFit, HandsFit, PutRequest, Threads, MutexFree
<1>2. /\ pc[t] = "put" /\ pc' = [pc EXCEPT ![t] = "list"] /\ mutex' = t
      /\ Cache!Put(u, r, Never)
      /\ UNCHANGED <<flush_settings_, dropped, crashes, uuid_list, request, counter,
                     cancelled, accepted, answered>>
  BY DEF PutRequest, Goto, processVars
<1>3. /\ CacheFits' /\ Present' = Present \cup {u} /\ db'.item[u] = Stored(r)
      /\ \A j \in Present : j # u => db'.item[j] = db.item[j]
  BY <1>1, <1>2, PutOnDisk DEF Inv
<1>4. Uuid(t)' = u
  BY <1>2 DEF Uuid
<1>5. u \in Uuids /\ u # ListKey /\ u[1] = r /\ u[2] = t
  BY <1>1, StreamQueueConstants, SMT DEF Uuids, Uuid
<1> HIDE DEF u, r
<1>6. pc[t] \notin PutBehind
  BY <1>2 DEF PutBehind
<1>7. Kept' = Kept
  BY <1>3, <1>5 DEF Kept, Present
<1>8. ListFits'
  <2>3. \A v \in Uuids \cap Present' : db'.item[v].content = v[1]
    <3>1. \A v \in Uuids \cap Present : db.item[v].content = v[1]
      BY DEF Inv, ListFits
    <3> QED  BY <1>3, <1>5, <3>1, SMT DEF Stored
  <2>4. Kept \in Seq(Uuids) /\ \A i, j \in 1 .. Len(Kept) : Kept[i] = Kept[j] => i = j
    BY DEF Inv, ListFits
  <2> QED  BY <1>7, <2>3, <2>4 DEF ListFits
<1>9. \A i \in 1 .. Len(Kept) : Kept[i] # u
  BY <1>5, <1>6, ListEntries
<1>10. ListIsBacked'
  BY <1>2, <1>3, <1>7 DEF Inv, ListIsBacked, ThreadsFit, Threads
<1>11. pc'[t] = "list" /\ LocalsFit(t)'
  BY <1>2, <1>3, <1>4, <1>5, <1>7, <1>9 DEF LocalsFit, Inv, ThreadsFit
<1>12. Moves(t)
  BY <1>1, <1>2 DEF Inv, ThreadsFit, Moves, Labels, QueueLabels, Locked, PutBehind
<1>13. t \in Flushes => HandsFit(t)' /\ LimitFits(t)'
  BY <1>2, <1>11 DEF Inv, HandsFit, LimitFits, events_per_single_flush
<1>14. /\ ThreadsFit' /\ LockFits'
       /\ \A x \in Threads : LocalsFit(x)'
       /\ \A f \in Flushes : HandsFit(f)' /\ LimitFits(f)'
  BY <1>1, <1>11, <1>12, <1>13, MoveKeeps
<1>15. AcceptedFits'
  BY <1>2, <1>3, <1>7 DEF Inv, AcceptedFits, InQueue, ThreadsFit, Threads
<1>16. NamesFit'
  BY <1>7, <1>12, NamesKept DEF Moves
<1> QED  BY <1>3, <1>8, <1>10, <1>14, <1>15, <1>16 DEF Inv

\* Storing a list changes the list, and no request.
LEMMA ListStored ==
  ASSUME Inv, NEW list \in Seq(Uuids), Cache!Put(ListKey, list, Never)
  PROVE  /\ CacheFits' /\ Kept' = list
         /\ \A u \in Uuids : /\ u \in Present' <=> u \in Present
                             /\ u \in Present => db'.item[u] = db.item[u]
<1>1. /\ CacheFits' /\ Present' = Present \cup {ListKey}
      /\ db'.item[ListKey] = Stored(list)
      /\ \A j \in Present : j # ListKey => db'.item[j] = db.item[j]
  BY PutOnDisk DEF Inv
<1>2. Kept' = list
  BY <1>1, SMT DEF Kept, Present, Stored
<1> QED  BY <1>1, <1>2, StreamQueueConstants

\* Queue stores the list with the new UUID at its end.
LEMMA AppendToListKeeps ==
  ASSUME Inv, NEW t \in Threads, AppendToList(t)
  PROVE  Inv'
<1>1. None \notin Threads /\ Flushes \subseteq Threads /\ Requests \subseteq Threads
      /\ Requests \cap Flushes = {}
  BY StreamQueueConstants DEF Threads
<1>2. PICK r \in Requests, u \in Uuids :
        /\ r = request[t] /\ u = Uuid(t)
        /\ pc[t] = "append" /\ mutex = t
        /\ u \in Present /\ u[1] = r /\ u[2] = t
        /\ \A i \in 1 .. Len(Kept) : Kept[i] # u
        /\ uuid_list[t] = Kept /\ Kept \in Seq(Uuids)
  <2>1. pc[t] = "append" /\ mutex = t /\ request[t] \in Requests
    BY DEF Inv, ThreadsFit, HandsFit, LockFits, Locked, AppendToList, Threads
  <2>2. /\ Uuid(t) \in Uuids /\ Uuid(t) \in Present /\ uuid_list[t] = Kept
        /\ \A i \in 1 .. Len(Kept) : Kept[i] # Uuid(t)
    BY <2>1 DEF Inv, LocalsFit
  <2>3. Uuid(t)[1] = request[t] /\ Uuid(t)[2] = t
    BY DEF Uuid
  <2>4. Kept \in Seq(Uuids)
    BY DEF Inv, ListFits
  <2> QED  BY <2>1, <2>2, <2>3, <2>4
<1>3. /\ Cache!Put(ListKey, Append(Kept, u), Never) /\ mutex' = None
      /\ uuid_list' = [uuid_list EXCEPT ![t] = <<>>]
      /\ \/ /\ t \in Requests /\ pc' = [pc EXCEPT ![t] = "done"]
            /\ accepted' = accepted \cup {t} /\ request' = request
         \/ /\ t \in Flushes /\ pc' = [pc EXCEPT ![t] = "callback"]
            /\ accepted' = accepted /\ request' = [request EXCEPT ![t] = None]
      /\ UNCHANGED <<flush_settings_, dropped, crashes, counter, cancelled,
                     answered>>
  BY <1>2 DEF AppendToList, Goto, processVars, Uuid, Threads
<1>4. Append(Kept, u) \in Seq(Uuids)
  BY <1>2, SMT
<1>5. /\ CacheFits' /\ Kept' = Append(Kept, u)
      /\ \A v \in Uuids : /\ v \in Present' <=> v \in Present
                          /\ v \in Present => db'.item[v] = db.item[v]
  BY <1>3, <1>4, ListStored
<1>6. /\ Kept' \in Seq(Uuids) /\ Len(Kept') = Len(Kept) + 1 /\ Len(Kept) \in Nat
      /\ Kept'[Len(Kept) + 1] = u
      /\ \A i \in 1 .. Len(Kept) :
           i \in 1 .. Len(Kept') /\ Kept'[i] = Kept[i] /\ Kept[i] \in Uuids
  BY <1>2, <1>5, SMT
<1>7. ListFits'
  <2>1. \A i, j \in 1 .. Len(Kept') : Kept'[i] = Kept'[j] => i = j
    BY <1>2, <1>6, SMT DEF Inv, ListFits
  <2>4. \A v \in Uuids \cap Present' : db'.item[v].content = v[1]
    BY <1>5 DEF Inv, ListFits
  <2> QED  BY <1>6, <2>1, <2>4 DEF ListFits
<1>8. pc \in [Threads -> Labels] /\ pc'[t] \in {"done", "callback"}
      /\ \A x \in Threads \ {t} : pc'[x] = pc[x]
  BY <1>3 DEF Inv, ThreadsFit
<1>9. ListIsBacked'
  BY <1>1, <1>2, <1>3, <1>5, <1>6, <1>8, SMT DEF Inv, ListIsBacked
<1>10. LocalsFit(t)'
  BY <1>8 DEF LocalsFit
<1>11. Moves(t)
  <2>1. /\ pc' \in [Threads -> Labels]
        /\ request' \in [Threads -> Requests \cup {None}]
        /\ uuid_list' \in [Threads -> Seq(Uuids)]
    <3>1. pc' \in [Threads -> Labels]
      BY <1>3 DEF Inv, ThreadsFit, Labels
    <3>2. request' \in [Threads -> Requests \cup {None}]
      BY <1>3 DEF Inv, ThreadsFit
    <3>3. uuid_list' \in [Threads -> Seq(Uuids)]
      BY <1>3, SMT DEF Inv, ThreadsFit
    <3> QED  BY <3>1, <3>2, <3>3
  <2>2. \A x \in Threads \ {t} : request'[x] = request[x] /\ uuid_list'[x] = uuid_list[x]
    BY <1>3 DEF Inv, ThreadsFit
  <2>3. t \in Requests => request'[t] = request[t] /\ pc'[t] = "done"
    BY <1>1, <1>3 DEF Inv, ThreadsFit
  <2> QED  BY <1>2, <1>3, <1>8, <2>1, <2>2, <2>3
           DEF Inv, ThreadsFit, Moves, QueueLabels, Locked, PutBehind
<1>12. t \in Flushes => HandsFit(t)' /\ LimitFits(t)'
  BY <1>1, <1>2, <1>3, <1>8
     DEF Inv, ThreadsFit, HandsFit, LimitFits, events_per_single_flush
<1>13. /\ ThreadsFit' /\ LockFits'
       /\ \A x \in Threads : LocalsFit(x)'
       /\ \A f \in Flushes : HandsFit(f)' /\ LimitFits(f)'
  BY <1>2, <1>10, <1>11, <1>12, MoveKeeps
<1>14. NamesFit'
  <2> SUFFICES ASSUME NEW i \in 1 .. Len(Kept')
               PROVE  pc'[Kept'[i][2]] \in PutBehind
    BY DEF NamesFit
  <2>1. CASE i \in 1 .. Len(Kept)
    BY <1>6, <1>8, <2>1, ListEntries DEF PutBehind
  <2>2. CASE i = Len(Kept) + 1
    BY <1>2, <1>6, <1>8, <2>2 DEF PutBehind
  <2> QED  BY <1>6, <2>1, <2>2, SMT
<1>15. InQueue(r)'
  <2>1. Len(Kept) + 1 \in 1 .. Len(Kept')
    BY <1>6, SMT
  <2> QED  BY <1>2, <1>5, <1>6, <2>1, SMT DEF InQueue
<1>16. AcceptedFits'
  <2> SUFFICES ASSUME NEW q \in accepted'
               PROVE  /\ q \in Requests /\ pc'[q] = "done"
                      /\ \/ InQueue(q)'
                         \/ \E f \in Flushes : request'[f] = q
                         \/ q \in answered' \cup dropped'
    BY DEF AcceptedFits
  <2>1. q = r => InQueue(q)'
    BY <1>15
  <2>2. CASE q \notin accepted
    <3>1. t \in Requests /\ q = t /\ request[t] = t /\ pc'[t] = "done"
      BY <1>1, <1>3, <2>2, SMT DEF Inv, ThreadsFit
    <3> QED  BY <1>2, <2>1, <3>1
  <2>3. CASE q \in accepted
    <3>1. /\ q \in Requests /\ pc[q] = "done" /\ q # t /\ pc'[q] = "done"
      <4>1. q \in Requests /\ pc[q] = "done"
        BY <2>3 DEF Inv, AcceptedFits
      <4>2. q # t
        BY <1>2, <4>1
      <4> QED  BY <1>1, <1>8, <4>1, <4>2
    <3>2. CASE InQueue(q)
      <4>1. PICK i \in 1 .. Len(Kept) : Kept[i][1] = q /\ Kept[i] \in Present
        BY <3>2 DEF InQueue
      <4>2. i \in 1 .. Len(Kept') /\ Kept'[i] = Kept[i] /\ Kept[i] \in Uuids
        BY <1>6, <4>1
      <4>3. Kept'[i][1] = q /\ Kept'[i] \in Present'
        BY <1>5, <4>1, <4>2
      <4> QED  BY <3>1, <4>2, <4>3 DEF InQueue
    <3>3. CASE \E f \in Flushes : request[f] = q
      <4>1. PICK f \in Flushes : request[f] = q
        BY <3>3
      <4>2. CASE f = t
        BY <1>2, <2>1, <3>1, <4>1, <4>2
      <4>3. CASE f # t
        BY <1>1, <1>11, <3>1, <4>1, <4>3 DEF Moves
      <4> QED  BY <4>2, <4>3
    <3>4. CASE q \in answered \cup dropped
      BY <1>3, <3>1, <3>4
    <3>5. \/ InQueue(q)
          \/ \E f \in Flushes : request[f] = q
          \/ q \in answered \cup dropped
      BY <2>3 DEF Inv, AcceptedFits
    <3> QED  BY <3>2, <3>3, <3>4, <3>5
  <2> QED  BY <2>2, <2>3
<1> QED  BY <1>5, <1>7, <1>9, <1>13, <1>14, <1>16 DEF Inv

\* PopFromQueue removes the request that it has read, if there was one.
LEMMA PopRemoveKeeps ==
  ASSUME Inv, NEW f \in Flushes, PopRemove(f)
  PROVE  Inv'
<1>1. f \in Threads /\ f \notin Requests /\ Flushes \subseteq Threads
      /\ Requests \subseteq Threads
  BY StreamQueueConstants DEF Threads
<1>2. PICK u \in Uuids :
        /\ Kept \in Seq(Uuids) /\ Kept # <<>> /\ u = Kept[1]
        /\ uuid_list[f] = Kept /\ Head(uuid_list[f]) = u
        /\ request[f] = IF u \in Present THEN u[1] ELSE None
        /\ pc[f] = "remove" /\ mutex = f
  BY <1>1, SMT DEF Inv, ListFits, LocalsFit, LockFits, Locked, PopRemove
<1>3. /\ Cache!Remove(u) /\ pc' = [pc EXCEPT ![f] = "store"]
      /\ UNCHANGED <<flush_settings_, dropped, crashes, mutex, uuid_list, request,
                     counter, cancelled, accepted, answered>>
  BY <1>2 DEF PopRemove, Goto, processVars
<1>4. /\ CacheFits' /\ Present' = Present \ {u}
      /\ \A j \in Present : j # u => db'.item[j] = db.item[j]
  BY <1>3, RemoveOnDisk DEF Inv
<1>5. Kept' = Kept
  BY <1>4, StreamQueueConstants DEF Kept, Present
<1>6. pc'[f] = "store" /\ \A x \in Threads \ {f} : pc'[x] = pc[x]
  BY <1>1, <1>3 DEF Inv, ThreadsFit
<1>7. ListFits'
  BY <1>3, <1>4, <1>5 DEF Inv, ListFits
<1>8. ListIsBacked'
  <2>1. \A i \in 1 .. Len(Kept) : i # 1 => Kept[i] # u
    <3>1. \A i, j \in 1 .. Len(Kept) : Kept[i] = Kept[j] => i = j
      BY DEF Inv, ListFits
    <3>2. 1 \in 1 .. Len(Kept) /\ u = Kept[1]
      BY <1>2, SMT
    <3> QED  BY <3>1, <3>2
  <2> QED  BY <1>3, <1>4, <1>5, <1>6, <2>1 DEF Inv, ListIsBacked
<1>9. LocalsFit(f)'
  BY <1>2, <1>3, <1>4, <1>5, <1>6 DEF LocalsFit
<1>10. Moves(f)
  <2>1. pc' \in [Threads -> Labels]
    BY <1>3 DEF Inv, ThreadsFit, Labels
  <2> QED  BY <1>1, <1>2, <1>3, <1>6, <2>1 DEF Inv, ThreadsFit, Moves, Locked, PutBehind
<1>11. HandsFit(f)' /\ LimitFits(f)'
  BY <1>2, <1>3, <1>6 DEF Inv, HandsFit, LimitFits, events_per_single_flush
<1>12. /\ ThreadsFit' /\ LockFits'
       /\ \A x \in Threads : LocalsFit(x)'
       /\ \A g \in Flushes : HandsFit(g)' /\ LimitFits(g)'
  BY <1>1, <1>2, <1>9, <1>10, <1>11, MoveKeeps
<1>13. NamesFit'
  BY <1>5, <1>10, NamesKept DEF Moves
<1>14. AcceptedFits'
  <2> SUFFICES ASSUME NEW r \in accepted
               PROVE  /\ r \in Requests /\ pc'[r] = "done"
                      /\ \/ InQueue(r)'
                         \/ \E g \in Flushes : request'[g] = r
                         \/ r \in answered' \cup dropped'
    BY <1>3 DEF AcceptedFits
  <2>1. r \in Requests /\ pc[r] = "done" /\ pc'[r] = "done"
    BY <1>1, <1>6 DEF Inv, AcceptedFits
  <2>2. CASE InQueue(r)
    <3>1. PICK i \in 1 .. Len(Kept) : Kept[i][1] = r /\ Kept[i] \in Present
      BY <2>2 DEF InQueue
    <3>2. CASE Kept[i] = u
      BY <1>2, <1>3, <2>1, <3>1, <3>2
    <3>3. CASE Kept[i] # u
      BY <1>4, <1>5, <2>1, <3>1, <3>3 DEF InQueue
    <3> QED  BY <3>2, <3>3
  <2>3. CASE (\E g \in Flushes : request[g] = r) \/ r \in answered \cup dropped
    BY <1>3, <2>1, <2>3
  <2> QED  BY <2>2, <2>3 DEF Inv, AcceptedFits
<1> QED  BY <1>4, <1>7, <1>8, <1>12, <1>13, <1>14 DEF Inv

\* PopFromQueue stores the list without its head, whose request is in the
\* hands of the flush by now.
LEMMA PopStoreKeeps ==
  ASSUME Inv, NEW f \in Flushes, PopStore(f)
  PROVE  Inv'
<1>1. f \in Threads /\ f \notin Requests /\ Flushes \subseteq Threads
      /\ Requests \subseteq Threads
  BY StreamQueueConstants DEF Threads
<1>2. /\ Kept \in Seq(Uuids) /\ Kept # <<>> /\ Kept[1] \notin Present
      /\ uuid_list[f] = Kept /\ pc[f] = "store" /\ mutex = f
  BY <1>1 DEF Inv, ListFits, LocalsFit, LockFits, Locked, PopStore
<1>3. /\ Cache!Put(ListKey, Tail(Kept), Never) /\ mutex' = None
      /\ uuid_list' = [uuid_list EXCEPT ![f] = <<>>]
      /\ \/ pc' = [pc EXCEPT ![f] = "loop"] /\ request[f] = None
         \/ pc' = [pc EXCEPT ![f] = "publish"] /\ request[f] # None
      /\ UNCHANGED <<flush_settings_, dropped, crashes, request, counter, cancelled,
                     accepted, answered>>
  BY <1>2 DEF PopStore, Goto, processVars
<1>4. Tail(Kept) \in Seq(Uuids)
  BY <1>2, SMT
<1>5. /\ CacheFits' /\ Kept' = Tail(Kept)
      /\ \A v \in Uuids : /\ v \in Present' <=> v \in Present
                          /\ v \in Present => db'.item[v] = db.item[v]
  BY <1>3, <1>4, ListStored
<1>6. /\ Kept' \in Seq(Uuids) /\ Len(Kept') = Len(Kept) - 1 /\ Len(Kept) \in Nat \ {0}
      /\ \A i \in 1 .. Len(Kept') :
           i + 1 \in 1 .. Len(Kept) /\ Kept'[i] = Kept[i + 1] /\ Kept[i + 1] \in Uuids
  BY <1>2, <1>5, SMT
<1>7. /\ pc' \in [Threads -> Labels] /\ pc'[f] \in {"loop", "publish"}
      /\ \A x \in Threads \ {f} : pc'[x] = pc[x]
  BY <1>1, <1>3 DEF Inv, ThreadsFit, Labels
<1>8. ListFits'
  <2>1. \A i, j \in 1 .. Len(Kept') : Kept'[i] = Kept'[j] => i = j
    <3> SUFFICES ASSUME NEW i \in 1 .. Len(Kept'), NEW j \in 1 .. Len(Kept'),
                        Kept'[i] = Kept'[j]
                 PROVE  i = j
      OBVIOUS
    <3>1. i + 1 = j + 1
      <4>1. \A a, b \in 1 .. Len(Kept) : Kept[a] = Kept[b] => a = b
        BY DEF Inv, ListFits
      <4>2. /\ i + 1 \in 1 .. Len(Kept) /\ j + 1 \in 1 .. Len(Kept)
            /\ Kept[i + 1] = Kept[j + 1]
        BY <1>6
      <4> QED  BY <4>1, <4>2
    <3> QED  BY <3>1, SMT
  <2>3. \A v \in Uuids \cap Present' : db'.item[v].content = v[1]
    BY <1>5 DEF Inv, ListFits
  <2> QED  BY <1>6, <2>1, <2>3 DEF ListFits
<1>9. ListIsBacked'
  <2>1. ASSUME crashes = 0, NEW i \in 1 .. Len(Kept')
        PROVE  Kept'[i] \in Present'
    <3>1. i + 1 # 1
      BY SMT
    <3> QED  BY <1>5, <1>6, <2>1, <3>1 DEF Inv, ListIsBacked
  <2> QED  BY <1>3, <2>1 DEF ListIsBacked
<1>10. LocalsFit(f)'
  BY <1>7 DEF LocalsFit
<1>11. Moves(f)
  <2>1. /\ uuid_list' \in [Threads -> Seq(Uuids)]
        /\ \A x \in Threads \ {f} : uuid_list'[x] = uuid_list[x]
    <3>1. uuid_list \in [Threads -> Seq(Uuids)] /\ <<>> \in Seq(Uuids)
      BY SMT DEF Inv, ThreadsFit
    <3>2. uuid_list' = [uuid_list EXCEPT ![f] = <<>>]
      BY <1>3
    <3> QED  BY <3>1, <3>2
  <2> QED  BY <1>1, <1>2, <1>3, <1>7, <2>1 DEF Inv, ThreadsFit, Moves, Locked, PutBehind
<1>12. HandsFit(f)' /\ LimitFits(f)'
  <2>1. HandsFit(f)'
    BY <1>1, <1>3, <1>7 DEF HandsFit, Inv, ThreadsFit
  <2>2. LimitFits(f)'
    <3>1. /\ UNCHANGED <<counter, events_per_single_flush>>
          /\ pc[f] = "store" /\ pc'[f] \in {"loop", "publish"}
      BY <1>2, <1>3, <1>7 DEF events_per_single_flush
    <3>2. LimitFits(f)
      BY DEF Inv
    <3>3. events_per_single_flush # None =>
            counter[f] < events_per_single_flush /\ counter[f] <= events_per_single_flush
      BY <3>1, <3>2, LimitType, SMT DEF LimitFits
    <3> QED  BY <3>1, <3>3 DEF LimitFits
  <2> QED  BY <2>1, <2>2
<1>13. /\ ThreadsFit' /\ LockFits'
       /\ \A x \in Threads : LocalsFit(x)'
       /\ \A g \in Flushes : HandsFit(g)' /\ LimitFits(g)'
  BY <1>1, <1>2, <1>10, <1>11, <1>12, MoveKeeps
<1>14. NamesFit'
  <2>1. \A x \in Threads : pc[x] \in PutBehind => pc'[x] \in PutBehind
    BY <1>2, <1>7 DEF PutBehind
  <2> QED  BY <1>6, <2>1, ListEntries DEF NamesFit
<1>15. AcceptedFits'
  <2> SUFFICES ASSUME NEW r \in accepted
               PROVE  /\ r \in Requests /\ pc'[r] = "done"
                      /\ \/ InQueue(r)'
                         \/ \E g \in Flushes : request'[g] = r
                         \/ r \in answered' \cup dropped'
    BY <1>3 DEF AcceptedFits
  <2>0. /\ r \in Requests /\ pc[r] = "done"
        /\ InQueue(r) \/ (\E g \in Flushes : request[g] = r) \/ r \in answered \cup dropped
    BY DEF Inv, AcceptedFits
  <2>1. r \in Requests /\ pc'[r] = "done"
    BY <1>1, <1>7, <2>0
  <2>2. CASE InQueue(r)
    <3>1. PICK i \in 1 .. Len(Kept) : Kept[i][1] = r /\ Kept[i] \in Present
      BY <2>2 DEF InQueue
    <3>2. i - 1 \in 1 .. Len(Kept') /\ (i - 1) + 1 = i
      BY <1>2, <1>6, <3>1, SMT
    <3>3. Kept'[i - 1] = Kept[i] /\ Kept[i] \in Present'
      BY <1>5, <1>6, <3>1, <3>2
    <3> QED  BY <2>1, <3>1, <3>2, <3>3 DEF InQueue
  <2>3. CASE (\E g \in Flushes : request[g] = r) \/ r \in answered \cup dropped
    BY <1>3, <2>1, <2>3
  <2> QED  BY <2>0, <2>2, <2>3
<1> QED  BY <1>5, <1>8, <1>9, <1>13, <1>14, <1>15 DEF Inv

-----------------------------------------------------------------------------
(* The process, and the theorems. *)

\* Opening the cache changes nothing of the queue.
LEMMA OpenCacheKeeps ==
  ASSUME Inv, OpenCache
  PROVE  Inv'
<1>1. CacheFits' /\ db' = db /\ UNCHANGED queueVars
  BY OpenAndCrash DEF Inv, OpenCache
<1>2. Kept' = Kept /\ Present' = Present
  BY <1>1 DEF Kept, Present
<1>3. UNCHANGED <<flush_settings_, dropped, crashes, pc, mutex, uuid_list, request,
                  counter, cancelled, accepted, answered>>
  BY <1>1 DEF queueVars, processVars
<1>4. ThreadsFit' /\ LockFits'
  BY <1>3 DEF Inv, ThreadsFit, LockFits
<1>5. NamesFit'
  BY <1>2, <1>3, NamesKept
<1>6. ListFits' /\ ListIsBacked'
  BY <1>1, <1>2, <1>3 DEF Inv, ListFits, ListIsBacked
<1>7. AcceptedFits'
  BY <1>2, <1>3 DEF Inv, AcceptedFits, InQueue
<1>8. \A t \in Threads : LocalsFit(t)'
  <2> SUFFICES ASSUME NEW t \in Threads
               PROVE  LocalsFit(t)'
    OBVIOUS
  <2>1. Uuid(t)' = Uuid(t)
    BY <1>3 DEF Uuid
  <2> QED  BY <1>2, <1>3, <2>1 DEF Inv, LocalsFit
<1>9. \A f \in Flushes : HandsFit(f)' /\ LimitFits(f)'
  BY <1>3 DEF Inv, HandsFit, LimitFits, events_per_single_flush
<1> QED  BY <1>1, <1>4, <1>5, <1>6, <1>7, <1>8, <1>9 DEF Inv

\* A crash lets go of the lock and drops what flushes have in their hands; the
\* files stay.
LEMMA CrashKeeps ==
  ASSUME Inv, Crash
  PROVE  Inv'
<1>1. CacheFits' /\ db' = db
  BY OpenAndCrash DEF Inv, Crash
<1>2. Kept' = Kept /\ Present' = Present
  BY <1>1 DEF Kept, Present
<1>3. /\ crashes' = crashes + 1 /\ mutex' = None
      /\ pc' = [t \in Threads |-> IF pc[t] = "idle" THEN "idle" ELSE "done"]
      /\ uuid_list' = [t \in Threads |-> <<>>]
      /\ request' = [t \in Threads |-> IF t \in Requests THEN t ELSE None]
      /\ dropped' = dropped \cup ({request[f] : f \in Flushes} \ {None})
      /\ UNCHANGED <<flush_settings_, counter, accepted, answered>>
  BY DEF Crash
<1>4. /\ None \notin Threads /\ Flushes \subseteq Threads /\ Requests \subseteq Threads
      /\ Requests \cap Flushes = {}
  BY StreamQueueConstants DEF Threads
<1>5. \A t \in Threads : pc'[t] = IF pc[t] = "idle" THEN "idle" ELSE "done"
  BY <1>3
<1>6. ThreadsFit'
  <2>1. pc' \in [Threads -> Labels]
    BY <1>3 DEF Labels
  <2>2. request' \in [Threads -> Requests \cup {None}]
    BY <1>3
  <2>3. uuid_list' \in [Threads -> Seq(Uuids)]
    BY <1>3, SMT
  <2>4. \A r \in Requests : request'[r] = r /\ pc'[r] \in QueueLabels
    BY <1>3, <1>4 DEF QueueLabels
  <2>5. crashes' \in Nat
    BY <1>3, SMT DEF Inv, ThreadsFit
  <2>6. /\ counter' \in [Flushes -> Nat]
        /\ flush_settings_' \in [maximum_requests : MaximumRequests,
                                 events_per_single_flush : EventsPerFlush]
    BY <1>3 DEF Inv, ThreadsFit
  <2> QED  BY <2>1, <2>2, <2>3, <2>4, <2>5, <2>6 DEF ThreadsFit
<1>7. LockFits'
  BY <1>3, <1>4, <1>5 DEF LockFits, Locked
<1>8. NamesFit'
  BY <1>2, <1>5, NamesKept DEF PutBehind
<1>9. ListFits'
  BY <1>1, <1>2, <1>3 DEF Inv, ListFits
<1>10. ListIsBacked'
  <2>1. crashes \in Nat
    BY DEF Inv, ThreadsFit
  <2>2. crashes' # 0
    BY <1>3, <2>1, SMT
  <2> QED  BY <2>2 DEF ListIsBacked
<1>11. \A t \in Threads : LocalsFit(t)'
  BY <1>5 DEF LocalsFit
<1>12. \A f \in Flushes : HandsFit(f)' /\ LimitFits(f)'
  BY <1>3, <1>4, <1>5 DEF Inv, HandsFit, LimitFits, events_per_single_flush
<1>13. AcceptedFits'
  <2> SUFFICES ASSUME NEW r \in accepted
               PROVE  /\ r \in Requests /\ pc'[r] = "done"
                      /\ InQueue(r)' \/ r \in answered' \cup dropped'
    BY <1>3 DEF AcceptedFits
  <2>1. r \in Requests /\ pc'[r] = "done" /\ r # None
    BY <1>4, <1>5 DEF Inv, AcceptedFits
  <2>2. CASE InQueue(r)
    BY <1>2, <2>1, <2>2 DEF InQueue
  <2>3. CASE (\E f \in Flushes : request[f] = r) \/ r \in answered \cup dropped
    BY <1>3, <2>1, <2>3
  <2> QED  BY <2>2, <2>3 DEF Inv, AcceptedFits
<1> QED  BY <1>1, <1>6, <1>7, <1>8, <1>9, <1>10, <1>11, <1>12, <1>13 DEF Inv

\* A process that starts on an empty disk satisfies the invariant.
LEMMA InvInitially ==
  ASSUME DiskOnly, Init
  PROVE  Inv
<1>1. /\ is_open_ = FALSE /\ memory_cache_ = None /\ disk_path = TRUE
      /\ db = [item |-> <<>>, expiry |-> <<>>]
  BY DEF Init, Cache!Init, Cache!EmptyDb, DiskOnly
<1>2. DOMAIN db.item = {} /\ DOMAIN db.expiry = {}
  BY <1>1, SMT
<1>3. CacheFits
  <2>1. db.item = [k \in DOMAIN db.item |-> db.item[k]]
    <3>1. db.item = <<>>
      BY <1>1
    <3>2. <<>> = [k \in {} |-> <<>>[k]]
      BY SMT
    <3> QED  BY <1>2, <3>1, <3>2
  <2> QED  BY <1>1, <1>2, <2>1 DEF CacheFits
<1>4. Present = {} /\ Kept = <<>> /\ Kept \in Seq(Uuids) /\ Len(Kept) = 0
  BY <1>2, SMT DEF Present, Kept
<1>5. /\ None \notin Threads /\ Flushes \subseteq Threads /\ Requests \subseteq Threads
      /\ Requests \cap Flushes = {}
  BY StreamQueueConstants DEF Threads
<1>6. ThreadsFit
  <2>1. uuid_list \in [Threads -> Seq(Uuids)]
    BY SMT DEF Init
  <2> QED  BY <1>5, <2>1 DEF Init, ThreadsFit, Labels, QueueLabels
<1>7. LockFits
  BY <1>5 DEF Init, LockFits, Locked
<1>8. NamesFit
  BY <1>4, SMT DEF NamesFit
<1>9. ListFits /\ ListIsBacked
  BY <1>4, SMT DEF ListFits, ListIsBacked
<1>10. AcceptedFits
  BY DEF Init, AcceptedFits
<1>11. \A t \in Threads : LocalsFit(t)
  BY DEF Init, LocalsFit
<1>12. \A f \in Flushes : HandsFit(f) /\ LimitFits(f)
  BY <1>5 DEF Init, HandsFit, LimitFits
<1> QED  BY <1>3, <1>6, <1>7, <1>8, <1>9, <1>10, <1>11, <1>12 DEF Inv

\* A step that changes nothing keeps the invariant.
LEMMA StutterKeeps ==
  ASSUME Inv, UNCHANGED vars
  PROVE  Inv'
<1>1. UNCHANGED <<is_open_, memory_cache_, disk_cache_, disk_path, db, flush_settings_,
                  dropped, crashes, pc, mutex, uuid_list, request, counter, cancelled,
                  accepted, answered>>
  BY DEF vars, cacheVars, queueVars, processVars
<1>2. Kept' = Kept /\ Present' = Present
  BY <1>1 DEF Kept, Present
<1>3. CacheFits' /\ ThreadsFit' /\ LockFits'
  BY <1>1 DEF Inv, CacheFits, ThreadsFit, LockFits, DiskOnly
<1>4. NamesFit'
  BY <1>1, <1>2, NamesKept
<1>5. ListFits' /\ ListIsBacked'
  BY <1>1, <1>2 DEF Inv, ListFits, ListIsBacked
<1>6. AcceptedFits'
  BY <1>1, <1>2 DEF Inv, AcceptedFits, InQueue
<1>7. \A t \in Threads : LocalsFit(t)'
  <2> TAKE t \in Threads
  <2>1. LocalsFit(t)
    BY DEF Inv
  <2>2. Uuid(t)' = Uuid(t)
    BY <1>1 DEF Uuid
  <2> QED  BY <1>1, <1>2, <2>1, <2>2 DEF LocalsFit
<1>8. \A f \in Flushes : HandsFit(f)' /\ LimitFits(f)'
  BY <1>1 DEF Inv, HandsFit, LimitFits, events_per_single_flush
<1> QED  BY <1>3, <1>4, <1>5, <1>6, <1>7, <1>8 DEF Inv

\* Every step of a Queue or a Flush, of OpenCache and of a crash keeps the
\* invariant.
LEMMA InvPreserved ==
  ASSUME Inv, [Next]_vars
  PROVE  Inv'
<1>1. Flushes \subseteq Threads /\ Requests \subseteq Threads
  BY DEF Threads
<1>2. ASSUME NEW t \in Threads, QueueStep(t)
      PROVE  Inv'
  BY <1>2, CheckMaximumKeeps, PutRequestKeeps, ReadListKeeps, AppendToListKeeps
     DEF QueueStep
<1>3. ASSUME NEW f \in Flushes, FlushStep(f)
      PROVE  Inv'
  BY <1>1, <1>2, <1>3, CheckQueueKeeps, PopListKeeps, PopDataKeeps, PopRemoveKeeps,
     PopStoreKeeps, PublishKeeps, CheckCancelledKeeps, CallbackKeeps
     DEF FlushStep
<1>4. CASE \E r \in Requests : CallQueue(r) \/ QueueStep(r)
  BY <1>1, <1>2, <1>4, CallQueueKeeps
<1>5. CASE \E f \in Flushes : CallFlush(f) \/ FlushStep(f) \/ CancelFlush(f)
  BY <1>3, <1>5, CallFlushKeeps, CancelFlushKeeps
<1>6. CASE OpenCache \/ Crash
  BY <1>6, OpenCacheKeeps, CrashKeeps
<1>7. CASE Finished \/ UNCHANGED vars
  BY <1>7, StutterKeeps DEF Finished
<1> QED  BY <1>4, <1>5, <1>6, <1>7 DEF Next

\* The invariant holds in every state of a StreamLayerClient whose cache is a
\* disk without a memory.
LEMMA InvAlways == DiskOnly /\ Spec => []Inv
<1>1. DiskOnly /\ Init => Inv
  BY InvInitially
<1>2. Inv /\ [Next]_vars => Inv'
  BY InvPreserved
<1> QED  BY <1>1, <1>2, PTL DEF Spec

\* On a disk without a memory in front of it, no request that Queue has accepted
\* is lost: it is in the queue, or a flush has it in its hands, or a
\* FlushResponse reports on it, or it died with a process or was refused when a
\* cancelled flush queued it again, for any number of callers, flushes and
\* crashes.
THEOREM AcceptedCorrect == DiskOnly /\ Spec => []AcceptedIsKept
<1>1. ASSUME Inv
      PROVE  AcceptedIsKept
  <2> SUFFICES ASSUME is_open_, NEW r \in accepted
               PROVE  Listed(r) \/ InHand(r) \/ r \in answered \cup dropped
    BY DEF AcceptedIsKept
  <2>1. List = Kept
    BY <1>1, ListOnDisk DEF Inv
  <2>2. \A k \in Present : Cache!Returned(k) # None
    BY <1>1, GetOnDisk, StreamQueueConstants DEF Inv, CacheFits, Present, Items
  <2>3. InQueue(r) => Listed(r)
    BY <2>1, <2>2 DEF InQueue, Listed
  <2>4. (\E f \in Flushes : request[f] = r) => InHand(r)
    BY DEF InHand, Threads
  <2> QED  BY <1>1, <2>3, <2>4 DEF Inv, AcceptedFits
<1> QED  BY <1>1, InvAlways, PTL

\* On such a disk the lock is held exactly where the code holds it, the list has
\* every UUID once and, without a crash, its request, and no flush goes past its
\* limit.
THEOREM QueueCorrect == DiskOnly /\ Spec => []QueueIsSound
<1>1. ASSUME Inv
      PROVE  QueueIsSound
  <2>1. TypeOK
    BY <1>1 DEF TypeOK, Inv, ThreadsFit, LockFits, Locked
  <2>2. ListIsSound
    <3> SUFFICES ASSUME is_open_, MutexFree
                 PROVE  /\ \A i, j \in 1 .. Len(List) : List[i] = List[j] => i = j
                        /\ crashes = 0 => \A i \in 1 .. Len(List) :
                                            Cache!Returned(List[i]) # None
      BY DEF ListIsSound
    <3>1. List = Kept /\ Kept \in Seq(Uuids)
      BY <1>1, ListOnDisk DEF Inv, ListFits
    <3>2. \A k \in Present : Cache!Returned(k) # None
      BY <1>1, GetOnDisk, StreamQueueConstants DEF Inv, CacheFits, Present, Items
    <3>3. \A f \in Flushes : pc[f] # "store"
      BY <1>1, StreamQueueConstants, SMT DEF Inv, LockFits, Locked, MutexFree, Threads
    <3>4. \A i, j \in 1 .. Len(List) : List[i] = List[j] => i = j
      BY <1>1, <3>1 DEF Inv, ListFits
    <3> QED  BY <1>1, <3>1, <3>2, <3>3, <3>4 DEF Inv, ListIsBacked
  <2>3. FlushIsLimited
    BY <1>1 DEF FlushIsLimited, Inv, LimitFits
  <2> QED  BY <2>1, <2>2, <2>3 DEF QueueIsSound
<1> QED  BY <1>1, InvAlways, PTL
=============================================================================
