---------------------------- MODULE DefaultCache ----------------------------
(***************************************************************************)
(* cache::DefaultCache (src/cache/DefaultCache.cpp): an InMemoryCache in   *)
(* front of a DiskCache.  Every method runs under cache_lock_, so it is    *)
(* one step; a crash of the process is a step of its own and may also come *)
(* between the two writes of a Put and the two deletes of a purge.  A      *)
(* closed cache returns from every method but Open without a change.       *)
(*                                                                         *)
(* db is what the LevelDB files hold: the items, and the numbers stored    *)
(* under the keys "<key>::expiry".  An item is its content and the time it *)
(* was put to expire at; the code does not read the latter, the properties *)
(* do.                                                                     *)
(***************************************************************************)
EXTENDS InMemoryCache

CONSTANTS
  Keys,           \* the keys the clients use
  Contents,       \* the values the clients store
  Lifetimes,      \* the expiries the clients pass to Put, in seconds
  KeyPrefixes,    \* for each prefix a client removes, the keys that have it
  MaxMemory,      \* max_memory_cache_size; 0 means no memory cache
  HasDiskPath,    \* disk_path is set
  DiskFails,      \* a write may be refused, a process may die in a method
  MaxTime,        \* bound: the last second of the clock
  None            \* nullptr, boost::none, an empty boost::any

ASSUME DefaultCacheConstants ==
  /\ MaxMemory \in Nat /\ MaxTime \in Nat /\ Never \in Nat
  /\ MaxTime < Never
  /\ \A l \in Lifetimes : l \in Int /\ (l = Never \/ l + MaxTime < Never)
  /\ HasDiskPath \in BOOLEAN /\ DiskFails \in BOOLEAN /\ None \notin BOOLEAN
  /\ \A p \in KeyPrefixes : p \subseteq Keys

VARIABLES
  is_open_, memory_cache_,
  disk_cache_,    \* None, or whether its database_ is there
  disk_path,      \* settings_.disk_path is set
  db,             \* external: the files of the database
  now,            \* std::time
  putSince,       \* the keys put since they were last removed
  committed,      \* by key, the item with an expiry that the last Put with a
                  \* disk stored as "true", until it expires
  torn            \* the keys whose last Put wrote their expiry and no item

vars == <<is_open_, memory_cache_, disk_cache_, disk_path, db, now,
          putSince, committed, torn>>

EmptyDb == [item |-> <<>>, expiry |-> <<>>]

Init ==
  /\ is_open_ = FALSE /\ memory_cache_ = None /\ disk_cache_ = None
  /\ disk_path = HasDiskPath
  /\ db = EmptyDb
  /\ now = 0
  /\ putSince = {}
  /\ committed = [k \in Keys |-> None]
  /\ torn = {}

-----------------------------------------------------------------------------
\* DiskCache.

Writable == disk_cache_ = TRUE

StoreExpiry(d, k, expiry) ==
  [d EXCEPT !.expiry = [j \in DOMAIN @ \cup {k} |->
                          IF j = k THEN expiry + now ELSE @[j]]]

StoreItem(d, k, item) ==
  [d EXCEPT !.item = [j \in DOMAIN @ \cup {k} |->
                        IF j = k THEN item ELSE @[j]]]

RemoveItems(d, keys) == [d EXCEPT !.item = Restrict(@, DOMAIN @ \ keys)]

RemoveExpiries(d, keys) == [d EXCEPT !.expiry = Restrict(@, DOMAIN @ \ keys)]

\* Mutant of RemainingExpiry: the time is not subtracted.
RemainingExpiryAbsolute(k) ==
  IF Writable /\ k \in DOMAIN db.expiry THEN db.expiry[k] ELSE Never

\* GetRemainingExpiryTime: without database_, or without the key, no expiry.
RemainingExpiry(k) ==
  IF Writable /\ k \in DOMAIN db.expiry THEN db.expiry[k] - now ELSE Never

\* SetupStorage: both caches are made anew; a disk path that cannot be opened
\* is forgotten.
SetupStorage(opened) ==
  /\ opened \/ disk_path
  /\ memory_cache_' = IF MaxMemory > 0 THEN EmptyMemory ELSE None
  /\ disk_cache_' = IF disk_path /\ opened THEN TRUE ELSE None
  /\ disk_path' = (disk_path /\ opened)

Open ==
  \E opened \in BOOLEAN :
    /\ is_open_' = TRUE
    /\ SetupStorage(opened)
    /\ UNCHANGED <<db, now, putSince, committed, torn>>

Close ==
  /\ is_open_
  /\ is_open_' = FALSE /\ memory_cache_' = None /\ disk_cache_' = None
  /\ UNCHANGED <<disk_path, db, now, putSince, committed, torn>>

\* A key is forgotten when no file can hold it any more.
Forget(keys, reached) ==
  /\ putSince' = IF reached THEN putSince \ keys ELSE putSince
  /\ committed' = IF reached THEN [k \in Keys |-> IF k \in keys THEN None
                                                  ELSE committed[k]]
                  ELSE committed
  /\ torn' = IF reached THEN torn \ keys ELSE torn

\* The directory is removed and both caches are set up again.
Clear ==
  \E opened \in BOOLEAN :
    /\ is_open_
    /\ SetupStorage(opened)
    /\ db' = IF disk_cache_ # None THEN EmptyDb ELSE db
    /\ Forget(Keys, disk_cache_ # None \/ ~HasDiskPath)
    /\ UNCHANGED <<is_open_, now>>

\* The directory cannot be removed, or not all of it: Clear returns with the
\* memory cleared and the database closed.
ClearFails ==
  /\ is_open_ /\ disk_cache_ # None
  /\ memory_cache_' = IF memory_cache_ = None THEN None ELSE EmptyMemory
  /\ disk_cache_' = FALSE
  /\ \/ db' = EmptyDb /\ Forget(Keys, TRUE)
     \/ UNCHANGED <<db, putSince, committed, torn>>
  /\ UNCHANGED <<is_open_, disk_path, now>>

-----------------------------------------------------------------------------
Item(content, expiry) ==
  [content |-> content, due |-> IF expiry = Never THEN Never
                                ELSE expiry + now]

\* An item of committed: one with an expiry, and that not in the past.
Unexpired(item) == IF item.due \in now' + 1 .. Never - 1 THEN item ELSE None

\* Mutant of PutOnDisk: an expiry that is there already is kept.
PutOnDiskKeepsExpiry(k, item, expiry) ==
  \/ /\ ~Writable
     /\ UNCHANGED <<db, committed, torn>>
  \/ /\ Writable
     /\ db' = StoreItem(IF expiry # Never /\ k \notin DOMAIN db.expiry
                          THEN StoreExpiry(db, k, expiry) ELSE db, k, item)
     /\ committed' = [committed EXCEPT ![k] = Unexpired(item)]
     /\ torn' = torn \ {k}

\* The writes of a Put that memory_cache_ has accepted: the expiry, if there
\* is one, then the item.  A write is refused when the database is closed, and
\* may be refused when the size limit is reached.
PutOnDisk(k, item, expiry) ==
  \/ /\ disk_cache_ = None
     /\ UNCHANGED <<db, committed, torn>>
  \/ /\ disk_cache_ # None /\ (DiskFails \/ ~Writable)
     /\ UNCHANGED <<db, committed, torn>>
  \/ /\ Writable /\ DiskFails /\ expiry # Never
     /\ db' = StoreExpiry(db, k, expiry)
     /\ torn' = torn \cup {k}
     /\ UNCHANGED committed
  \/ /\ Writable
     /\ db' = StoreItem(IF expiry # Never THEN StoreExpiry(db, k, expiry)
                                          ELSE db, k, item)
     /\ committed' = [committed EXCEPT ![k] = Unexpired(item)]
     /\ torn' = torn \ {k}

Put(k, content, expiry) ==
  LET item == Item(content, expiry)
      stored == MemoryPut(memory_cache_, k, item, expiry, now, MaxMemory)
  IN  /\ is_open_
      /\ putSince' = putSince \cup {k}
      /\ UNCHANGED <<is_open_, disk_cache_, disk_path, now>>
      /\ \/ /\ memory_cache_ = None
            /\ PutOnDisk(k, item, expiry)
            /\ UNCHANGED memory_cache_
         \/ /\ memory_cache_ # None
            /\ memory_cache_' = stored.m
            /\ IF stored.ok
                 THEN PutOnDisk(k, item, expiry)
                 ELSE UNCHANGED <<db, committed, torn>>

InMemory(k) == memory_cache_ # None /\ Finds(memory_cache_, k, now)

OnDisk(k) == Writable /\ k \in DOMAIN db.item /\ RemainingExpiry(k) > 0

\* What Get returns.
Returned(k) ==
  CASE InMemory(k) -> memory_cache_.items.value[k].item
    [] ~InMemory(k) /\ OnDisk(k) -> db.item[k]
    [] OTHER -> None

\* The part of Get after a miss in memory, which has left m: an expired item
\* is purged from the disk, another one is stored in memory for the time it
\* has left.
GetFromDisk(k, m) ==
  \/ /\ RemainingExpiry(k) <= 0
     /\ db' = RemoveExpiries(RemoveItems(db, {k}), {k})
     /\ memory_cache_' = m
  \/ /\ RemainingExpiry(k) > 0 /\ ~OnDisk(k)
     /\ memory_cache_' = m
     /\ UNCHANGED db
  \/ /\ OnDisk(k)
     /\ memory_cache_' = IF m = None THEN None
                         ELSE MemoryPut(m, k, db.item[k], RemainingExpiry(k),
                                        now, MaxMemory).m
     /\ UNCHANGED db

Get(k) ==
  /\ is_open_
  /\ UNCHANGED <<is_open_, disk_cache_, disk_path, now, putSince, committed,
                 torn>>
  /\ \/ /\ InMemory(k)
        /\ memory_cache_' = AfterGet(memory_cache_, k, now)
        /\ UNCHANGED db
     \/ /\ ~InMemory(k)
        /\ GetFromDisk(k, IF memory_cache_ = None THEN None
                          ELSE AfterGet(memory_cache_, k, now))

\* Mutant of Remove: the disk is left alone.
RemoveFromMemory(k) ==
  /\ is_open_
  /\ memory_cache_' = IF memory_cache_ = None THEN None
                      ELSE MemoryRemove(memory_cache_, {k})
  /\ Forget({k}, TRUE)
  /\ UNCHANGED <<is_open_, disk_cache_, disk_path, now, db>>

\* Remove: the key goes, "<key>::expiry" stays.
Remove(k) ==
  /\ is_open_
  /\ memory_cache_' = IF memory_cache_ = None THEN None
                      ELSE MemoryRemove(memory_cache_, {k})
  /\ db' = IF Writable THEN RemoveItems(db, {k}) ELSE db
  /\ Forget({k}, Writable \/ ~HasDiskPath)
  /\ UNCHANGED <<is_open_, disk_cache_, disk_path, now>>

\* A prefix of a key is a prefix of its "<key>::expiry" too.
RemoveKeysWithPrefix(keys) ==
  /\ is_open_
  /\ memory_cache_' = IF memory_cache_ = None THEN None
                      ELSE MemoryRemove(memory_cache_, keys)
  /\ db' = IF Writable THEN RemoveExpiries(RemoveItems(db, keys), keys)
           ELSE db
  /\ Forget(keys, Writable \/ ~HasDiskPath)
  /\ UNCHANGED <<is_open_, disk_cache_, disk_path, now>>

-----------------------------------------------------------------------------
\* The environment: the clock, and the death of the process, after which a
\* new one constructs the cache with the same settings.

Tick ==
  /\ now < MaxTime
  /\ now' = now + 1
  /\ committed' = [k \in Keys |-> IF committed[k] = None THEN None
                                  ELSE Unexpired(committed[k])]
  /\ UNCHANGED <<is_open_, memory_cache_, disk_cache_, disk_path, db,
                 putSince, torn>>

Die ==
  /\ is_open_' = FALSE /\ memory_cache_' = None /\ disk_cache_' = None
  /\ disk_path' = HasDiskPath
  /\ UNCHANGED now

Crash == Die /\ UNCHANGED <<db, putSince, committed, torn>>

CrashInPut(k, content, expiry) ==
  /\ DiskFails /\ is_open_ /\ Writable /\ expiry # Never
  /\ memory_cache_ # None =>
       MemoryPut(memory_cache_, k, Item(content, expiry), expiry, now,
                 MaxMemory).ok
  /\ db' = StoreExpiry(db, k, expiry)
  /\ torn' = torn \cup {k}
  /\ Die
  /\ UNCHANGED <<putSince, committed>>

CrashInPurge(k) ==
  /\ DiskFails /\ is_open_ /\ RemainingExpiry(k) <= 0
  /\ ~InMemory(k)
  /\ db' = RemoveItems(db, {k})
  /\ Die
  /\ UNCHANGED <<putSince, committed, torn>>

Next ==
  \/ \E k \in Keys :
       \/ Get(k) \/ Remove(k) \/ CrashInPurge(k)
       \/ \E content \in Contents, expiry \in Lifetimes :
            Put(k, content, expiry) \/ CrashInPut(k, content, expiry)
  \/ Open \/ Close \/ Clear \/ ClearFails \/ Tick \/ Crash
  \/ \E keys \in KeyPrefixes : RemoveKeysWithPrefix(keys)

Spec == Init /\ [][Next]_vars

-----------------------------------------------------------------------------
Items == [content : Contents, due : Int]

\* The two caches exist when the cache is open and as its settings say, and
\* every key that m_itemTuples or the database holds has an item.
TypeOK ==
  /\ is_open_ \in BOOLEAN /\ disk_path \in BOOLEAN
  /\ disk_cache_ \in {None, TRUE, FALSE}
  /\ ~is_open_ => memory_cache_ = None /\ disk_cache_ = None
  /\ is_open_ => (memory_cache_ # None <=> MaxMemory > 0)
  /\ is_open_ => (disk_cache_ # None <=> disk_path)
  /\ DOMAIN db.item \subseteq Keys /\ DOMAIN db.expiry \subseteq Keys
  /\ \A k \in DOMAIN db.item : db.item[k] \in Items
  /\ memory_cache_ # None =>
       /\ \A k \in KeysOf(memory_cache_.items) :
            memory_cache_.items.value[k].item \in Items
       /\ \A t \in DOMAIN memory_cache_.expiries :
            t \in Int /\ memory_cache_.expiries[t] \subseteq Keys
  /\ now \in 0 .. MaxTime
  /\ putSince \subseteq Keys /\ torn \subseteq Keys
  /\ \A k \in Keys : committed[k] \in Items \cup {None}

\* Get does not return an item after the time its Put gave it, wherever Get
\* finds the item: in memory, or on the disk after an eviction, a Close, a
\* failed Open or a crash, with the expiry that the disk keeps apart from it.
\* (A Put that was cut between its two writes leaves the old item with the new
\* expiry, until the key is put or removed again.)
NothingExpiredIsReturned ==
  \A k \in Keys \ torn : Returned(k) # None => Returned(k).due >= now

\* Get returns nothing for a key that Remove, RemoveKeysWithPrefix or Clear
\* has removed and nobody has put since: neither an eviction nor a crash nor
\* reopening brings a removed item back.
RemovedStaysRemoved ==
  \A k \in Keys : Returned(k) # None => k \in putSince

\* An item that was put with an expiry, and reported as stored, is on the disk
\* with that expiry until it expires or is removed, so it outlives evictions,
\* Close, a crash, and the torn writes of other keys.
StoredPairSurvives ==
  \A k \in Keys \ torn :
    committed[k] # None =>
      /\ k \in DOMAIN db.item /\ db.item[k] = committed[k]
      /\ k \in DOMAIN db.expiry /\ db.expiry[k] = committed[k].due

\* What the tests of InMemoryCache say of purging: looking a key up drops no
\* item that has not expired (without a disk, a lookup evicts nothing).
LookupKeepsUnexpired ==
  [][\A k, j \in Keys :
       Get(k) /\ disk_cache_ = None /\ InMemory(j)
         => j \in KeysOf(memory_cache_'.items)]_vars
=============================================================================
