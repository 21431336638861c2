------------------------- MODULE DefaultCacheProofs -------------------------
(***************************************************************************)
(* The three safety properties of DefaultCache, for every set of keys,     *)
(* contents and lifetimes, every size of the memory, with and without a    *)
(* disk, with and without failing writes.                                  *)
(***************************************************************************)
EXTENDS DefaultCache, TLAPS

-----------------------------------------------------------------------------
(* What the operations of InMemoryCache may leave in memory. *)

\* A state of InMemoryCache and of its LruCache have their members.
IsContents(c) == c = [order |-> c.order, value |-> c.value]
IsMemory(m) ==
  /\ m = [items |-> m.items, expiries |-> m.expiries]
  /\ IsContents(m.items)

\* The contents d are some of those of c, unchanged.
Part(d, c) ==
  /\ IsContents(d)
  /\ KeysOf(d) \subseteq KeysOf(c)
  /\ \A j \in KeysOf(d) : d.value[j] = c.value[j]

\* LruCache: erasing and evicting leave a part of the contents, promoting
\* leaves them all.
LEMMA ContentsParts ==
  ASSUME NEW c, IsContents(c)
  PROVE  /\ \A keys : /\ Part(Without(c, keys), c)
                      /\ keys \cap KeysOf(Without(c, keys)) = {}
         /\ \A max : Part(Evict(c, max), c)
         /\ \A k : Part(Promoted(c, k), c)
<1>1. ASSUME NEW keys
      PROVE  Part(Without(c, keys), c) /\ keys \cap KeysOf(Without(c, keys)) = {}
  BY DEF Part, Without, IsContents, KeysOf
<1>2. ASSUME NEW max
      PROVE  Part(Evict(c, max), c)
  BY DEF Part, Evict, WithOrder, IsContents, KeysOf
<1>3. ASSUME NEW k
      PROVE  Part(Promoted(c, k), c)
  BY DEF Part, Promoted, IsContents, KeysOf
<1> QED  BY <1>1, <1>2, <1>3

\* What InMemoryCache::Put stores under a key.
Tuple(item, expireSeconds, time) ==
  [expiry |-> IF expireSeconds = Never THEN Never ELSE expireSeconds + time,
   item |-> item]

\* InMemoryCache: purging, looking up and removing leave a part of the items.
LEMMA MemoryParts ==
  ASSUME NEW m, IsMemory(m)
  PROVE  /\ \A times : /\ IsMemory(PurgeTimes(m, times))
                       /\ Part(PurgeTimes(m, times).items, m.items)
         /\ \A k, time : /\ IsMemory(AfterGet(m, k, time))
                         /\ Part(AfterGet(m, k, time).items, m.items)
         /\ \A keys : /\ IsMemory(MemoryRemove(m, keys))
                      /\ Part(MemoryRemove(m, keys).items, m.items)
                      /\ keys \cap KeysOf(MemoryRemove(m, keys).items) = {}
<1>1. ASSUME NEW n, IsMemory(n), NEW times
      PROVE  /\ IsMemory(PurgeTimes(n, times))
             /\ Part(PurgeTimes(n, times).items, n.items)
  <2> DEFINE listed == UNION {n.expiries[t] : t \in times \cap DOMAIN n.expiries}
  <2>1. Part(Without(n.items, listed), n.items)
    BY <1>1, ContentsParts DEF IsMemory
  <2>2. IsContents(Without(n.items, listed))
    BY <2>1 DEF Part
  <2>3. /\ PurgeTimes(n, times).items = Without(n.items, listed)
        /\ PurgeTimes(n, times) = [items |-> PurgeTimes(n, times).items,
                                   expiries |-> PurgeTimes(n, times).expiries]
    BY DEF PurgeTimes
  <2> QED  BY <2>1, <2>2, <2>3, Zenon DEF IsMemory
<1>2. ASSUME NEW k, NEW time
      PROVE  /\ IsMemory(AfterGet(m, k, time))
             /\ Part(AfterGet(m, k, time).items, m.items)
  <2> DEFINE promoted == [m EXCEPT !.items = Promoted(m.items, k)]
  <2>1. Part(Promoted(m.items, k), m.items)
    BY ContentsParts DEF IsMemory
  <2>2. IsMemory(promoted) /\ Part(promoted.items, m.items)
    BY <2>1 DEF IsMemory, Part
  <2>3. \A times : /\ IsMemory(PurgeTimes(promoted, times))
                   /\ Part(PurgeTimes(promoted, times).items, promoted.items)
    BY <1>1, <2>2, Zenon
  <2>4. \A times : Part(PurgeTimes(promoted, times).items, m.items)
    BY <2>2, <2>3 DEF Part
  <2>5. Part(m.items, m.items)
    BY DEF IsMemory, Part
  <2> HIDE DEF promoted
  <2>6. AfterGet(m, k, time) \in
          {m, promoted, PurgeTimes(promoted, {m.items.value[k].expiry})}
    BY DEF AfterGet, promoted
  <2> QED  BY <2>2, <2>3, <2>4, <2>5, <2>6
<1>3. ASSUME NEW keys
      PROVE  /\ IsMemory(MemoryRemove(m, keys))
             /\ Part(MemoryRemove(m, keys).items, m.items)
             /\ keys \cap KeysOf(MemoryRemove(m, keys).items) = {}
  <2>1. /\ Part(Without(m.items, keys), m.items)
        /\ keys \cap KeysOf(Without(m.items, keys)) = {}
    BY ContentsParts DEF IsMemory
  <2> QED  BY <2>1 DEF IsMemory, Part, MemoryRemove
<1> QED  BY <1>1, <1>2, <1>3, Zenon

\* InMemoryCache::Put: what is in memory afterwards was there before, or is the
\* new tuple; when Put returns true, the old tuple of the key is not there.
LEMMA MemoryPutParts ==
  ASSUME NEW m, IsMemory(m),
         NEW k, NEW item, NEW expireSeconds, NEW time, NEW maxSize
  PROVE  LET put == MemoryPut(m, k, item, expireSeconds, time, maxSize)
         IN  /\ IsMemory(put.m)
             /\ \A j \in KeysOf(put.m.items) :
                  \/ /\ j \in KeysOf(m.items)
                     /\ put.m.items.value[j] = m.items.value[j]
                     /\ put.ok => j # k
                  \/ /\ j = k
                     /\ put.m.items.value[j] = Tuple(item, expireSeconds, time)
<1> DEFINE put == MemoryPut(m, k, item, expireSeconds, time, maxSize)
           purged == PurgeExpired(m, time)
           tuple == Tuple(item, expireSeconds, time)
           whole == Stored(purged.items, k, tuple)
           stored == Evict(whole, maxSize)
<1>1. IsMemory(purged) /\ Part(purged.items, m.items)
  BY MemoryParts DEF PurgeExpired
<1>2. /\ IsContents(whole)
      /\ KeysOf(whole) = {k} \cup KeysOf(purged.items)
      /\ whole.value[k] = tuple
      /\ \A j \in KeysOf(purged.items) : j # k => whole.value[j] = purged.items.value[j]
  BY DEF Stored, KeysOf, IsContents
<1>3. Part(stored, whole)
  BY <1>2, ContentsParts
<1>4. /\ IsContents(stored)
      /\ \A j \in KeysOf(stored) :
           \/ j # k /\ j \in KeysOf(m.items) /\ stored.value[j] = m.items.value[j]
           \/ j = k /\ stored.value[j] = tuple
  BY <1>1, <1>2, <1>3 DEF Part
<1>5. \/ put = [ok |-> FALSE, m |-> purged]
      \/ put = [ok |-> FALSE, m |-> [purged EXCEPT !.items = stored]]
      \/ \E e : put = [ok |-> TRUE, m |-> [items |-> stored, expiries |-> e]]
  <2> DEFINE a == expireSeconds <= 0
             b == expireSeconds > 0 /\ k \in KeysOf(purged.items)
             c == expireSeconds > 0 /\ k \notin KeysOf(purged.items)
                    /\ PresetModelSizeCacheCost(tuple) > maxSize
             e == IF tuple.expiry = Never THEN purged.expiries
                  ELSE Listed(purged.expiries, tuple.expiry, k)
             left == [ok |-> FALSE, m |-> purged]
             assigned == [ok |-> FALSE, m |-> [purged EXCEPT !.items = stored]]
             added == [ok |-> TRUE, m |-> [items |-> stored, expiries |-> e]]
  <2>1. put = CASE a -> left [] b -> assigned [] c -> left [] OTHER -> added
    BY DEF MemoryPut, Tuple
  <2>2. put \in {left, assigned, added}
    <3> HIDE DEF a, b, c, put, left, assigned, added
    <3> QED  BY <2>1
  <2> QED  BY <2>2, Zenon
<1> HIDE DEF put, purged, tuple, whole, stored
<1>6. CASE put = [ok |-> FALSE, m |-> purged]
  BY <1>1, <1>6 DEF Part, put
<1>7. CASE put = [ok |-> FALSE, m |-> [purged EXCEPT !.items = stored]]
  BY <1>1, <1>4, <1>7 DEF IsMemory, put, tuple
<1>8. CASE \E e : put = [ok |-> TRUE, m |-> [items |-> stored, expiries |-> e]]
  BY <1>4, <1>8 DEF IsMemory, put, tuple
<1> QED  BY <1>5, <1>6, <1>7, <1>8

-----------------------------------------------------------------------------
(* The inductive invariant. *)

\* A cache that was constructed without a disk path never has a disk.
SettingsFit ==
  /\ now \in 0 .. MaxTime
  /\ disk_path \in BOOLEAN
  /\ ~HasDiskPath => ~disk_path /\ ~Writable /\ DOMAIN db.item = {}

\* The time that an item was put to expire at is not before the time that
\* InMemoryCache will purge it at, unless the key's last Put was torn.
TupleFits(k, tuple) ==
  /\ tuple.expiry \in Int /\ tuple.item.due \in Int
  /\ k \notin torn => tuple.expiry <= tuple.item.due

MemoryFits ==
  memory_cache_ # None =>
    /\ IsMemory(memory_cache_)
    /\ \A k \in KeysOf(memory_cache_.items) :
         k \in putSince /\ TupleFits(k, memory_cache_.items.value[k])

\* The expiry that the database holds, Never without one.
Expiry(d, k) == IF k \in DOMAIN d.expiry THEN d.expiry[k] ELSE Never

\* Nor is it before the expiry in the database, which is no time when there is
\* none: a Put without an expiry may find one there.
DiskFits ==
  /\ db = [item |-> db.item, expiry |-> db.expiry]
  /\ \A k \in DOMAIN db.expiry : db.expiry[k] \in Int /\ db.expiry[k] < Never
  /\ \A k \in DOMAIN db.item :
       /\ k \in putSince
       /\ db.item[k].due \in Int
       /\ k \notin torn => Expiry(db, k) <= db.item[k].due

CommittedFits ==
  /\ committed = [k \in Keys |-> committed[k]]
  /\ \A k \in Keys : committed[k] # None => committed[k].due \in now + 1 .. Never - 1
  /\ StoredPairSurvives

Inv == SettingsFit /\ MemoryFits /\ DiskFits /\ CommittedFits

-----------------------------------------------------------------------------
(* Facts about the parts of a step. *)

\* What a write of an expiry leaves in the database.
LEMMA ExpiryWritten ==
  ASSUME NEW d, d = [item |-> d.item, expiry |-> d.expiry], NEW k, NEW e
  PROVE  LET r == StoreExpiry(d, k, e)
         IN  /\ r = [item |-> r.item, expiry |-> r.expiry]
             /\ r.item = d.item
             /\ DOMAIN r.expiry = DOMAIN d.expiry \cup {k}
             /\ r.expiry[k] = e + now
             /\ \A j \in DOMAIN d.expiry : j # k => r.expiry[j] = d.expiry[j]
<1>1. StoreExpiry(d, k, e) =
        [item |-> d.item,
         expiry |-> [j \in DOMAIN d.expiry \cup {k} |->
                       IF j = k THEN e + now ELSE d.expiry[j]]]
  BY DEF StoreExpiry
<1> QED  BY <1>1

\* What a write of an item leaves in it.
LEMMA ItemWritten ==
  ASSUME NEW d, d = [item |-> d.item, expiry |-> d.expiry], NEW k, NEW item
  PROVE  LET r == StoreItem(d, k, item)
         IN  /\ r = [item |-> r.item, expiry |-> r.expiry]
             /\ r.expiry = d.expiry
             /\ DOMAIN r.item = DOMAIN d.item \cup {k}
             /\ r.item[k] = item
             /\ \A j \in DOMAIN d.item : j # k => r.item[j] = d.item[j]
<1>1. StoreItem(d, k, item) =
        [item |-> [j \in DOMAIN d.item \cup {k} |->
                     IF j = k THEN item ELSE d.item[j]],
         expiry |-> d.expiry]
  BY DEF StoreItem
<1> QED  BY <1>1

\* What the deletes of items and of expiries leave in it.
LEMMA DeletesLeave ==
  ASSUME NEW d, d = [item |-> d.item, expiry |-> d.expiry], NEW keys
  PROVE  /\ RemoveItems(d, keys) =
              [item |-> [j \in DOMAIN d.item \ keys |-> d.item[j]],
               expiry |-> d.expiry]
         /\ RemoveExpiries(d, keys) =
              [item |-> d.item,
               expiry |-> [j \in DOMAIN d.expiry \ keys |-> d.expiry[j]]]
BY DEF RemoveItems, RemoveExpiries, Restrict

\* A step that leaves a part of the memory, and forgets no key of it.
LEMMA MemoryShrinks ==
  ASSUME MemoryFits,
         memory_cache_' # None =>
           /\ memory_cache_ # None
           /\ IsMemory(memory_cache_')
           /\ Part(memory_cache_'.items, memory_cache_.items)
           /\ \A k \in KeysOf(memory_cache_'.items) :
                (k \in putSince => k \in putSince') /\ (k \in torn => k \in torn')
  PROVE  MemoryFits'
BY DEF MemoryFits, TupleFits, Part

\* A step that empties or drops the memory.
LEMMA MemoryEmptied ==
  ASSUME memory_cache_' \in {None, EmptyMemory}
  PROVE  MemoryFits'
BY DEF MemoryFits, EmptyMemory, Empty, IsMemory, IsContents, KeysOf

\* A step that leaves a part of the database: no item without the expiry it
\* had, and no key forgotten whose item stays.
LEMMA DiskShrinks ==
  ASSUME DiskFits,
         db' = [item |-> db'.item, expiry |-> db'.expiry],
         DOMAIN db'.item \subseteq DOMAIN db.item,
         DOMAIN db'.expiry \subseteq DOMAIN db.expiry,
         \A k \in DOMAIN db'.expiry : db'.expiry[k] = db.expiry[k],
         \A k \in DOMAIN db'.item :
           /\ db'.item[k] = db.item[k]
           /\ k \in DOMAIN db.expiry => k \in DOMAIN db'.expiry
           /\ k \in putSince => k \in putSince'
           /\ k \in torn => k \in torn'
  PROVE  DiskFits'
BY DEF DiskFits, Expiry

\* A step after which the directory is empty.
LEMMA DiskEmptied ==
  ASSUME db' = EmptyDb
  PROVE  DiskFits' /\ DOMAIN db'.item = {}
BY DEF DiskFits, EmptyDb

\* A step that commits nothing new, and keeps what was committed on the disk.
LEMMA CommittedKept ==
  ASSUME CommittedFits, now \in Int, now' \in Int,
         committed' = [k \in Keys |-> committed'[k]],
         \A k \in Keys : committed'[k] # None =>
           /\ committed'[k] = committed[k]
           /\ committed[k].due > now'
           /\ k \notin torn' =>
                /\ k \notin torn
                /\ k \in DOMAIN db.item =>
                     k \in DOMAIN db'.item /\ db'.item[k] = db.item[k]
                /\ k \in DOMAIN db.expiry =>
                     k \in DOMAIN db'.expiry /\ db'.expiry[k] = db.expiry[k]
  PROVE  CommittedFits'
<1> USE DefaultCacheConstants
<1>1. ASSUME NEW k \in Keys, committed'[k] # None
      PROVE  committed'[k].due \in now' + 1 .. Never - 1
  BY <1>1 DEF CommittedFits
<1>2. StoredPairSurvives'
  BY DEF CommittedFits, StoredPairSurvives
<1> QED  BY <1>1, <1>2 DEF CommittedFits

\* A step that leaves the disk and the history alone.
LEMMA NothingWritten ==
  ASSUME Inv, UNCHANGED <<db, now, putSince, committed, torn>>
  PROVE  DiskFits' /\ CommittedFits'
BY DEF Inv, DiskFits, CommittedFits, StoredPairSurvives, Expiry

-----------------------------------------------------------------------------
(* The invariant holds at first, and every action preserves it. *)

\* The constructor: closed, and nothing anywhere.
LEMMA InvInitially == Init => Inv
<1> SUFFICES ASSUME Init PROVE Inv
  OBVIOUS
<1> USE DefaultCacheConstants DEF Init
<1>1. SettingsFit
  <2>1. now \in 0 .. MaxTime /\ DOMAIN db.item = {}
    BY DEF EmptyDb
  <2>2. disk_path \in BOOLEAN /\ ~Writable
    BY Zenon DEF Writable
  <2> QED  BY <2>1, <2>2, Zenon DEF SettingsFit
<1>2. MemoryFits
  BY DEF MemoryFits
<1>3. DiskFits
  BY DEF DiskFits, EmptyDb
<1>4. CommittedFits
  BY DEF CommittedFits, StoredPairSurvives
<1> QED  BY <1>1, <1>2, <1>3, <1>4 DEF Inv

\* SetupStorage opens no disk without a path.
LEMMA SetupFits ==
  ASSUME disk_path \in BOOLEAN, NEW opened \in BOOLEAN, SetupStorage(opened)
  PROVE  disk_path' \in BOOLEAN /\ (~disk_path => ~disk_path' /\ ~Writable')
<1>1. disk_path' = (disk_path /\ opened)
  BY Zenon DEF SetupStorage
<1>2. disk_cache_' = IF disk_path /\ opened THEN TRUE ELSE None
  BY Zenon DEF SetupStorage
<1>3. ~disk_path => disk_cache_' = None
  BY <1>2, Zenon
<1>4. None # TRUE
  BY DefaultCacheConstants, Zenon
<1>5. ~disk_path => ~Writable'
  BY <1>3, <1>4, Zenon DEF Writable
<1> QED  BY <1>1, <1>5, Zenon

\* Open and Close change the caches, not the files.
LEMMA OpenCloseKeep ==
  ASSUME Inv, Open \/ Close
  PROVE  Inv'
<1> USE DefaultCacheConstants
<1>1. /\ UNCHANGED <<db, now, putSince, committed, torn>>
      /\ memory_cache_' \in {None, EmptyMemory}
  BY ZenonT(30) DEF Open, Close, SetupStorage
<1>2. disk_path' \in BOOLEAN /\ (~disk_path => ~disk_path' /\ ~Writable')
  <2>1. CASE Open
    BY <2>1, SetupFits, Zenon DEF Inv, SettingsFit, Open
  <2>2. CASE Close
    <3>1. disk_cache_' = None /\ disk_path' = disk_path /\ None # TRUE
      BY <2>2, Zenon DEF Close
    <3> QED  BY <3>1, Zenon DEF Inv, SettingsFit, Writable
  <2> QED  BY <2>1, <2>2
<1>3. SettingsFit'
  BY <1>1, <1>2 DEF Inv, SettingsFit
<1>4. MemoryFits' /\ DiskFits' /\ CommittedFits'
  BY <1>1, MemoryEmptied, NothingWritten
<1> QED  BY <1>3, <1>4 DEF Inv

\* Clear, when the directory is removed and when it is not.
LEMMA ClearKeeps ==
  ASSUME Inv, Clear \/ ClearFails
  PROVE  Inv'
<1> USE DefaultCacheConstants
<1>1. memory_cache_' \in {None, EmptyMemory} /\ UNCHANGED now
  BY ZenonT(30) DEF Clear, ClearFails, SetupStorage
<1>2. disk_path' \in BOOLEAN /\ (~disk_path => ~disk_path' /\ ~Writable')
  <2>1. CASE Clear
    BY <2>1, SetupFits, Zenon DEF Inv, SettingsFit, Clear
  <2>2. CASE ClearFails
    <3>1. disk_cache_' = FALSE /\ disk_path' = disk_path
      BY <2>2, Zenon DEF ClearFails
    <3> QED  BY <3>1, Zenon DEF Inv, SettingsFit, Writable
  <2> QED  BY <2>1, <2>2
<1>3. MemoryFits'
  BY <1>1, MemoryEmptied
<1>4. \/ UNCHANGED <<db, putSince, committed, torn>>
      \/ /\ committed' = [k \in Keys |-> None]
         /\ db' = EmptyDb
      \/ /\ committed' = [k \in Keys |-> None]
         /\ ~HasDiskPath
         /\ UNCHANGED db
  BY DEF Clear, ClearFails, Forget
<1>5. CASE UNCHANGED <<db, putSince, committed, torn>>
  <2>1. SettingsFit'
    BY <1>1, <1>2, <1>5 DEF Inv, SettingsFit
  <2>2. DiskFits' /\ CommittedFits'
    BY <1>1, <1>5, NothingWritten
  <2> QED  BY <1>3, <2>1, <2>2 DEF Inv
<1>6. ASSUME committed' = [k \in Keys |-> None],
             db' = EmptyDb \/ (~HasDiskPath /\ UNCHANGED db)
      PROVE  Inv'
  <2>1. SettingsFit'
    BY <1>1, <1>2, <1>6, DiskEmptied DEF Inv, SettingsFit
  <2>2. DiskFits'
    BY <1>6, DiskEmptied DEF Inv, SettingsFit, DiskFits
  <2>3. CommittedFits'
    BY <1>6 DEF CommittedFits, StoredPairSurvives
  <2> QED  BY <1>3, <2>1, <2>2, <2>3 DEF Inv
<1> QED  BY <1>4, <1>5, <1>6

\* Remove leaves "<key>::expiry" on the disk, RemoveKeysWithPrefix does not; a
\* key that the disk may still hold is not forgotten.
LEMMA RemovalKeeps ==
  ASSUME Inv, NEW keys,
         memory_cache_' = IF memory_cache_ = None THEN None
                          ELSE MemoryRemove(memory_cache_, keys),
         \/ db' = (IF Writable THEN RemoveItems(db, keys) ELSE db)
         \/ db' = (IF Writable THEN RemoveExpiries(RemoveItems(db, keys), keys)
                   ELSE db),
         Forget(keys, Writable \/ ~HasDiskPath),
         UNCHANGED <<disk_cache_, disk_path, now>>
  PROVE  Inv'
<1> USE DefaultCacheConstants
<1> DEFINE reached == Writable \/ ~HasDiskPath
<1>1. /\ \A k : k \notin keys =>
           /\ k \in putSince => k \in putSince'
           /\ k \in torn => k \in torn'
      /\ ~reached => UNCHANGED <<putSince, torn, committed>>
      /\ reached => committed' = [k \in Keys |-> IF k \in keys THEN None
                                                 ELSE committed[k]]
  BY DEF Forget
<1>2. /\ db' = [item |-> db'.item, expiry |-> db'.expiry]
      /\ DOMAIN db'.item \subseteq DOMAIN db.item
      /\ DOMAIN db'.expiry \subseteq DOMAIN db.expiry
      /\ \A k \in DOMAIN db'.item : db'.item[k] = db.item[k]
      /\ \A k \in DOMAIN db'.expiry : db'.expiry[k] = db.expiry[k]
      /\ reached => keys \cap DOMAIN db'.item = {}
      /\ ~reached => db' = db
      /\ \A k : k \notin keys =>
           /\ k \in DOMAIN db.item => k \in DOMAIN db'.item
           /\ k \in DOMAIN db.expiry => k \in DOMAIN db'.expiry
  <2>1. /\ db = [item |-> db.item, expiry |-> db.expiry]
        /\ ~HasDiskPath => DOMAIN db.item = {}
    BY DEF Inv, DiskFits, SettingsFit
  <2> DEFINE d == RemoveItems(db, keys)
             e == RemoveExpiries(d, keys)
  <2>2. d = [item |-> [j \in DOMAIN db.item \ keys |-> db.item[j]],
             expiry |-> db.expiry]
    BY <2>1, DeletesLeave, Zenon
  <2>3. d = [item |-> d.item, expiry |-> d.expiry]
    BY <2>2
  <2>4. e = [item |-> d.item,
             expiry |-> [j \in DOMAIN d.expiry \ keys |-> d.expiry[j]]]
    BY <2>3, DeletesLeave, ZenonT(30)
  <2> HIDE DEF d, e
  <2>5. CASE ~Writable
    BY <2>1, <2>5
  <2>6. CASE Writable /\ db' = d
    BY <2>2, <2>6
  <2>7. CASE Writable /\ db' = e
    BY <2>2, <2>4, <2>7
  <2> QED  BY <2>5, <2>6, <2>7 DEF d, e
<1> HIDE DEF reached
<1>3. SettingsFit'
  BY <1>2 DEF Inv, SettingsFit, Writable
<1>4. MemoryFits'
  <2>1. CASE memory_cache_ = None
    BY <2>1, MemoryEmptied
  <2>2. CASE memory_cache_ # None
    <3>1. /\ IsMemory(memory_cache_')
          /\ Part(memory_cache_'.items, memory_cache_.items)
          /\ keys \cap KeysOf(memory_cache_'.items) = {}
      BY <2>2, MemoryParts DEF Inv, MemoryFits
    <3> QED  BY <1>1, <2>2, <3>1, MemoryShrinks DEF Inv
  <2> QED  BY <2>1, <2>2
<1>5. DiskFits'
  <2>1. \A k \in DOMAIN db'.item :
          /\ k \in DOMAIN db.expiry => k \in DOMAIN db'.expiry
          /\ k \in putSince => k \in putSince'
          /\ k \in torn => k \in torn'
    BY <1>1, <1>2
  <2> QED  BY <1>2, <2>1, DiskShrinks DEF Inv
<1>6. CommittedFits'
  <2>1. CASE ~reached
    BY <1>1, <1>2, <2>1, NothingWritten
  <2>2. CASE reached
    <3>1. \A k \in Keys : committed'[k] # None => k \notin keys /\ committed'[k] = committed[k]
      BY <1>1, <2>2
    <3>2. \A k \in Keys : committed[k] # None => committed[k].due > now'
      BY DEF Inv, CommittedFits, SettingsFit
    <3>3. committed' = [k \in Keys |-> committed'[k]]
      BY <1>1, <2>2
    <3>4. \A k \in Keys : committed'[k] # None =>
            /\ committed'[k] = committed[k]
            /\ committed[k].due > now'
            /\ k \notin torn' =>
                 /\ k \notin torn
                 /\ k \in DOMAIN db.item =>
                      k \in DOMAIN db'.item /\ db'.item[k] = db.item[k]
                 /\ k \in DOMAIN db.expiry =>
                      k \in DOMAIN db'.expiry /\ db'.expiry[k] = db.expiry[k]
      <4> SUFFICES ASSUME NEW k \in Keys, committed'[k] # None
                   PROVE  /\ committed'[k] = committed[k]
                          /\ committed[k].due > now'
                          /\ k \in torn => k \in torn'
                          /\ k \in DOMAIN db.item =>
                               k \in DOMAIN db'.item /\ db'.item[k] = db.item[k]
                          /\ k \in DOMAIN db.expiry =>
                               k \in DOMAIN db'.expiry /\ db'.expiry[k] = db.expiry[k]
        BY Zenon
      <4>1. k \notin keys /\ committed'[k] = committed[k] /\ committed[k].due > now'
        BY <3>1, <3>2, Zenon
      <4> QED  BY <1>1, <1>2, <4>1
    <3>5. CommittedFits /\ now \in Int /\ now' \in Int
      BY DEF Inv, SettingsFit
    <3> QED  BY <3>3, <3>4, <3>5, CommittedKept
  <2> QED  BY <2>1, <2>2
<1> QED  BY <1>3, <1>4, <1>5, <1>6 DEF Inv

\* The clock, and the death of the process outside the methods.
LEMMA TickCrashKeep ==
  ASSUME Inv, Tick \/ Crash
  PROVE  Inv'
<1> USE DefaultCacheConstants
<1>1. CASE Tick
  <2>1. now' = now + 1 /\ now' \in 0 .. MaxTime /\ now \in Int
    BY <1>1 DEF Inv, SettingsFit, Tick
  <2>2. SettingsFit'
    BY <1>1, <2>1 DEF Inv, SettingsFit, Tick, Writable
  <2>3. MemoryFits'
    BY <1>1 DEF Inv, MemoryFits, Tick, TupleFits
  <2>4. DiskFits'
    BY <1>1 DEF Inv, DiskFits, Tick, Expiry
  <2>5. \A k \in Keys : committed'[k] # None =>
          committed'[k] = committed[k] /\ committed[k].due > now'
    BY <1>1, <2>1 DEF Inv, CommittedFits, Tick, Unexpired
  <2>6. committed' = [k \in Keys |-> committed'[k]]
    BY <1>1 DEF Tick
  <2>7. CommittedFits'
    BY <1>1, <2>1, <2>5, <2>6, CommittedKept DEF Inv, Tick
  <2> QED  BY <2>2, <2>3, <2>4, <2>7 DEF Inv
<1>2. CASE Crash
  <2>1. /\ UNCHANGED <<db, now, putSince, committed, torn>>
        /\ memory_cache_' = None /\ disk_cache_' = None /\ disk_path' = HasDiskPath
    BY <1>2 DEF Crash, Die
  <2>2. disk_path' \in BOOLEAN /\ (~HasDiskPath => ~disk_path') /\ ~Writable'
    BY <2>1, Zenon DEF Writable
  <2>3. SettingsFit'
    BY <2>1, <2>2 DEF Inv, SettingsFit
  <2> QED  BY <2>1, <2>3, MemoryEmptied, NothingWritten DEF Inv
<1> QED  BY <1>1, <1>2

-----------------------------------------------------------------------------
(* Put. *)

\* The expiry that Put writes is a time before Never.
LEMMA WrittenExpiry ==
  ASSUME SettingsFit, NEW expiry \in Lifetimes, expiry # Never
  PROVE  expiry + now \in Int /\ expiry + now < Never
BY DefaultCacheConstants DEF SettingsFit

\* The item that Put stores expires with the tuple that InMemoryCache makes.
LEMMA NewTuple ==
  ASSUME SettingsFit, NEW content, NEW expiry \in Lifetimes
  PROVE  LET item == Item(content, expiry)
             tuple == Tuple(item, expiry, now)
         IN  /\ item.due \in Int
             /\ tuple.expiry = item.due /\ tuple.item = item
             /\ item.due = IF expiry = Never THEN Never ELSE expiry + now
BY DefaultCacheConstants DEF SettingsFit, Item, Tuple

\* The memory after a Put: the tuple of another Put is gone when the item goes
\* on to the disk.
LEMMA PutMemoryFits ==
  ASSUME Inv, NEW k \in Keys, NEW content, NEW expiry \in Lifetimes,
         memory_cache_ # None,
         memory_cache_' = MemoryPut(memory_cache_, k, Item(content, expiry),
                                    expiry, now, MaxMemory).m,
         putSince' = putSince \cup {k},
         torn \ {k} \subseteq torn',
         MemoryPut(memory_cache_, k, Item(content, expiry), expiry, now,
                   MaxMemory).ok
           \/ torn' = torn
  PROVE  MemoryFits'
<1> DEFINE put == MemoryPut(memory_cache_, k, Item(content, expiry), expiry, now,
                            MaxMemory)
           tuple == Tuple(Item(content, expiry), expiry, now)
<1>1. /\ IsMemory(put.m)
      /\ \A j \in KeysOf(put.m.items) :
           \/ /\ j \in KeysOf(memory_cache_.items)
              /\ put.m.items.value[j] = memory_cache_.items.value[j]
              /\ put.ok => j # k
           \/ /\ j = k
              /\ put.m.items.value[j] = tuple
  BY MemoryPutParts DEF Inv, MemoryFits
<1>2. tuple.expiry \in Int /\ tuple.item.due \in Int /\ tuple.expiry <= tuple.item.due
  BY NewTuple DEF Inv
<1>3. put.ok \/ torn' = torn
  OBVIOUS
<1>4. memory_cache_' = put.m
  OBVIOUS
<1> HIDE DEF put, tuple
<1> SUFFICES ASSUME NEW j \in KeysOf(memory_cache_'.items)
             PROVE  j \in putSince' /\ TupleFits(j, memory_cache_.items.value[j])'
  BY <1>1, <1>4 DEF MemoryFits
<1>5. CASE j = k /\ put.m.items.value[j] = tuple
  <2>1. j \in putSince'
    BY <1>5
  <2>2. memory_cache_'.items.value[j] = tuple
    BY <1>4, <1>5
  <2> QED  BY <1>2, <2>1, <2>2 DEF TupleFits
<1>6. CASE /\ j \in KeysOf(memory_cache_.items)
           /\ put.m.items.value[j] = memory_cache_.items.value[j]
           /\ put.ok => j # k
  <2>1. j \in putSince /\ TupleFits(j, memory_cache_.items.value[j])
    BY <1>6 DEF Inv, MemoryFits
  <2>2. j \notin torn' => j \notin torn
    BY <1>3, <1>6
  <2> QED  BY <1>4, <1>6, <2>1, <2>2 DEF TupleFits
<1> QED  BY <1>1, <1>4, <1>5, <1>6

\* A Put that is cut after its first write: the key is torn.
LEMMA TornPutFits ==
  ASSUME Inv, NEW k \in Keys, NEW expiry \in Lifetimes, expiry # Never,
         db' = StoreExpiry(db, k, expiry),
         torn' = torn \cup {k},
         putSince \subseteq putSince',
         UNCHANGED <<committed, now>>
  PROVE  DiskFits' /\ CommittedFits' /\ DOMAIN db'.item = DOMAIN db.item
<1>1. db = [item |-> db.item, expiry |-> db.expiry]
  BY DEF Inv, DiskFits
<1>2. expiry + now \in Int /\ expiry + now < Never
  BY WrittenExpiry DEF Inv
<1>3. /\ db' = [item |-> db'.item, expiry |-> db'.expiry]
      /\ db'.item = db.item
      /\ DOMAIN db'.expiry = DOMAIN db.expiry \cup {k}
      /\ db'.expiry[k] = expiry + now
      /\ \A j \in DOMAIN db.expiry : j # k => db'.expiry[j] = db.expiry[j]
  BY <1>1, ExpiryWritten
<1>4. DiskFits'
  BY <1>2, <1>3 DEF Inv, DiskFits, Expiry
<1>5. CommittedFits'
  <2>1. CommittedFits /\ now \in Int /\ now' \in Int
    BY DEF Inv, SettingsFit
  <2>2. committed' = [j \in Keys |-> committed'[j]]
    BY DEF Inv, CommittedFits
  <2>3. \A j \in Keys : committed[j] # None => committed[j].due > now'
    BY <2>1 DEF CommittedFits
  <2> QED  BY <1>3, <2>1, <2>2, <2>3, CommittedKept
<1> QED  BY <1>3, <1>4, <1>5

\* A Put that has written its expiry, if it has one, and its item.
LEMMA WholePutFits ==
  ASSUME Inv, NEW k \in Keys, NEW content, NEW expiry \in Lifetimes,
         db' = StoreItem(IF expiry # Never THEN StoreExpiry(db, k, expiry)
                                           ELSE db, k, Item(content, expiry)),
         committed' = [committed EXCEPT ![k] = Unexpired(Item(content, expiry))],
         torn' = torn \ {k},
         putSince' = putSince \cup {k},
         UNCHANGED now
  PROVE  DiskFits' /\ CommittedFits'
<1> DEFINE d == IF expiry # Never THEN StoreExpiry(db, k, expiry) ELSE db
           item == Item(content, expiry)
<1>1. /\ d = [item |-> d.item, expiry |-> d.expiry]
      /\ d.item = db.item
      /\ expiry # Never => k \in DOMAIN d.expiry /\ d.expiry[k] = expiry + now
      /\ expiry = Never => d = db
      /\ \A j : j # k => (j \in DOMAIN d.expiry <=> j \in DOMAIN db.expiry)
      /\ \A j \in DOMAIN db.expiry : j # k => d.expiry[j] = db.expiry[j]
  <2>1. CASE expiry = Never
    BY <2>1 DEF Inv, DiskFits
  <2>2. CASE expiry # Never
    <3>1. d = StoreExpiry(db, k, expiry) /\ db = [item |-> db.item, expiry |-> db.expiry]
      BY <2>2 DEF Inv, DiskFits
    <3> HIDE DEF d
    <3> QED  BY <2>2, <3>1, ExpiryWritten
  <2> QED  BY <2>1, <2>2
<1>2. db' = StoreItem(d, k, item)
  OBVIOUS
<1>3. /\ item.due \in Int
      /\ expiry = Never => item.due = Never
      /\ expiry # Never => item.due = expiry + now /\ expiry + now < Never
  BY NewTuple, WrittenExpiry DEF Inv
<1> HIDE DEF d, item
<1>4. /\ db' = [item |-> db'.item, expiry |-> db'.expiry]
      /\ DOMAIN db'.item = DOMAIN db.item \cup {k}
      /\ db'.item[k] = item
      /\ \A j \in DOMAIN db.item : j # k => db'.item[j] = db.item[j]
      /\ db'.expiry = d.expiry
  BY <1>1, <1>2, ItemWritten
<1>5. \A j \in DOMAIN db'.expiry : db'.expiry[j] \in Int /\ db'.expiry[j] < Never
  BY <1>1, <1>3, <1>4 DEF Inv, DiskFits
<1>6. Expiry(db, k)' <= item.due
  <2>1. CASE expiry = Never
    BY <1>3, <1>4, <1>5, <2>1, DefaultCacheConstants DEF Expiry
  <2>2. CASE expiry # Never
    BY <1>1, <1>3, <1>4, <2>2 DEF Expiry
  <2> QED  BY <2>1, <2>2
<1>7. DiskFits'
  <2>1. ASSUME NEW j \in DOMAIN db'.item
        PROVE  /\ j \in putSince' /\ db'.item[j].due \in Int
               /\ j \notin torn' => Expiry(db, j)' <= db'.item[j].due
    <3>1. CASE j = k
      BY <1>3, <1>4, <1>6, <3>1
    <3>2. CASE j # k
      <4>1. Expiry(db, j)' = Expiry(db, j)
        BY <1>1, <1>4, <3>2 DEF Expiry
      <4>2. j \in DOMAIN db.item /\ db'.item[j] = db.item[j]
        BY <1>4, <3>2
      <4> QED  BY <3>2, <4>1, <4>2 DEF Inv, DiskFits
    <3> QED  BY <3>1, <3>2
  <2> QED  BY <1>4, <1>5, <2>1 DEF DiskFits
<1>8. CommittedFits'
  <2>1. committed' = [j \in Keys |-> IF j = k THEN Unexpired(item) ELSE committed[j]]
    BY DEF Inv, CommittedFits, item
  <2>2. ASSUME NEW j \in Keys, committed'[j] # None
        PROVE  /\ committed'[j].due \in now' + 1 .. Never - 1
               /\ j \notin torn' =>
                    /\ j \in DOMAIN db'.item /\ db'.item[j] = committed'[j]
                    /\ j \in DOMAIN db'.expiry
                    /\ db'.expiry[j] = committed'[j].due
    <3>1. CASE j = k
      <4>1. committed'[k] = item /\ item.due \in now' + 1 .. Never - 1
        BY <2>1, <2>2, <3>1 DEF Unexpired
      <4>2. expiry # Never
        BY <1>3, <4>1, DefaultCacheConstants
      <4> QED  BY <1>1, <1>3, <1>4, <3>1, <4>1, <4>2
    <3>2. CASE j # k
      <4>1. committed'[j] = committed[j]
        BY <2>1, <3>2
      <4> QED
        BY <1>1, <1>4, <2>2, <3>2, <4>1 DEF Inv, CommittedFits, StoredPairSurvives
    <3> QED  BY <3>1, <3>2
  <2>3. committed' = [j \in Keys |-> committed'[j]]
    BY <2>1, ZenonT(30)
  <2> QED  BY <2>2, <2>3 DEF CommittedFits, StoredPairSurvives
<1> QED  BY <1>7, <1>8

\* Put, whatever becomes of its writes.
LEMMA PutKeeps ==
  ASSUME Inv, NEW k \in Keys, NEW content, NEW expiry \in Lifetimes,
         Put(k, content, expiry)
  PROVE  Inv'
<1> DEFINE item == Item(content, expiry)
           stored == MemoryPut(memory_cache_, k, item, expiry, now, MaxMemory)
           Left == UNCHANGED <<db, committed, torn>>
           Torn == /\ Writable /\ expiry # Never
                   /\ db' = StoreExpiry(db, k, expiry)
                   /\ torn' = torn \cup {k}
                   /\ UNCHANGED committed
           Whole == /\ Writable
                    /\ db' = StoreItem(IF expiry # Never
                                         THEN StoreExpiry(db, k, expiry)
                                         ELSE db, k, item)
                    /\ committed' = [committed EXCEPT ![k] = Unexpired(item)]
                    /\ torn' = torn \ {k}
<1>1. /\ putSince' = putSince \cup {k}
      /\ UNCHANGED <<disk_cache_, disk_path, now>>
      /\ \/ memory_cache_ = None /\ memory_cache_' = None
         \/ memory_cache_ # None /\ memory_cache_' = stored.m
  BY DEF Put
<1>2. /\ Left \/ Torn \/ Whole
      /\ memory_cache_ # None => Left \/ stored.ok
  BY DEF Put, PutOnDisk
<1>3. MemoryFits'
  <2>1. CASE memory_cache_ = None
    BY <1>1, <2>1, MemoryEmptied
  <2>2. CASE memory_cache_ # None
    <3>1. torn \ {k} \subseteq torn' /\ (stored.ok \/ torn' = torn)
      BY <1>2, <2>2
    <3> QED  BY <1>1, <2>2, <3>1, PutMemoryFits
  <2> QED  BY <2>1, <2>2
<1>4. DiskFits' /\ CommittedFits'
  <2>1. CASE Left
    <3>1. DiskFits'
      BY <1>1, <2>1 DEF Inv, DiskFits, Expiry
    <3>2. CommittedFits'
      BY <1>1, <2>1 DEF Inv, CommittedFits, StoredPairSurvives
    <3> QED  BY <3>1, <3>2
  <2>2. CASE Torn
    BY <1>1, <2>2, TornPutFits
  <2>3. CASE Whole
    BY <1>1, <2>3, WholePutFits, ZenonT(30)
  <2> QED  BY <1>2, <2>1, <2>2, <2>3
<1>5. SettingsFit'
  <2>1. ~Writable => db' = db
    BY <1>2
  <2> QED  BY <1>1, <2>1 DEF Inv, SettingsFit, Writable
<1> QED  BY <1>3, <1>4, <1>5 DEF Inv

\* The process dies between the two writes of a Put.
LEMMA CrashInPutKeeps ==
  ASSUME Inv, NEW k \in Keys, NEW content, NEW expiry \in Lifetimes,
         CrashInPut(k, content, expiry)
  PROVE  Inv'
<1>1. /\ expiry # Never /\ Writable
      /\ db' = StoreExpiry(db, k, expiry)
      /\ torn' = torn \cup {k}
      /\ UNCHANGED <<putSince, committed, now>>
      /\ memory_cache_' = None /\ disk_cache_' = None /\ disk_path' = HasDiskPath
  BY DEF CrashInPut, Die
<1>2. DiskFits' /\ CommittedFits' /\ DOMAIN db'.item = DOMAIN db.item
  BY <1>1, TornPutFits
<1>3. disk_path' \in BOOLEAN /\ (~HasDiskPath => ~disk_path') /\ ~Writable'
  BY <1>1, DefaultCacheConstants, Zenon DEF Writable
<1>4. SettingsFit'
  BY <1>1, <1>2, <1>3 DEF Inv, SettingsFit
<1> QED  BY <1>1, <1>2, <1>4, MemoryEmptied DEF Inv

-----------------------------------------------------------------------------
(* Get. *)

\* A purge of an expired item, with or without its expiry, deletes nothing that
\* was committed.
LEMMA PurgeFits ==
  ASSUME Inv, NEW k \in Keys, RemainingExpiry(k) <= 0,
         \/ db' = RemoveItems(db, {k})
         \/ db' = RemoveExpiries(RemoveItems(db, {k}), {k}),
         UNCHANGED <<now, putSince, committed, torn>>
  PROVE  DiskFits' /\ CommittedFits' /\ DOMAIN db'.item \subseteq DOMAIN db.item
<1> USE DefaultCacheConstants
<1> DEFINE d == RemoveItems(db, {k})
           e == RemoveExpiries(d, {k})
<1>1. /\ db = [item |-> db.item, expiry |-> db.expiry]
      /\ now \in Int /\ now' \in Int
  BY DEF Inv, DiskFits, SettingsFit
<1>2. d = [item |-> [j \in DOMAIN db.item \ {k} |-> db.item[j]],
           expiry |-> db.expiry]
  BY <1>1, DeletesLeave, Zenon
<1>3. d = [item |-> d.item, expiry |-> d.expiry]
  BY <1>2, Zenon
<1>4. e = [item |-> d.item,
           expiry |-> [j \in DOMAIN d.expiry \ {k} |-> d.expiry[j]]]
  BY <1>3, DeletesLeave, ZenonT(30)
<1>5. db' \in {d, e}
  OBVIOUS
<1> HIDE DEF d, e
<1>6. /\ db' = [item |-> db'.item, expiry |-> db'.expiry]
      /\ DOMAIN db'.item = DOMAIN db.item \ {k}
      /\ DOMAIN db'.expiry \subseteq DOMAIN db.expiry
      /\ \A j \in DOMAIN db'.item : db'.item[j] = db.item[j]
      /\ \A j \in DOMAIN db'.expiry : db'.expiry[j] = db.expiry[j]
      /\ \A j \in DOMAIN db.expiry : j # k => j \in DOMAIN db'.expiry
  BY <1>2, <1>4, <1>5
<1>7. DiskFits'
  BY <1>6, DiskShrinks DEF Inv
<1>8. committed[k] # None => k \in torn
  <2> SUFFICES ASSUME committed[k] # None, k \notin torn
               PROVE  FALSE
    OBVIOUS
  <2>1. k \in DOMAIN db.expiry /\ db.expiry[k] > now
    BY <1>1 DEF Inv, CommittedFits, StoredPairSurvives
  <2>2. RemainingExpiry(k) > 0
    BY <1>1, <2>1 DEF RemainingExpiry, Inv, DiskFits
  <2> QED  BY <2>1, <2>2, <1>1 DEF RemainingExpiry, Inv, DiskFits
<1>9. CommittedFits'
  <2>1. committed' = [j \in Keys |-> committed'[j]] /\ CommittedFits
    BY DEF Inv, CommittedFits
  <2>2. \A j \in Keys : committed[j] # None => committed[j].due > now'
    BY <1>1 DEF Inv, CommittedFits
  <2> QED  BY <1>1, <1>6, <1>8, <2>1, <2>2, CommittedKept
<1> QED  BY <1>6, <1>7, <1>9

\* The tuple that Get makes of an item of the disk: its expiry is the disk's.
LEMMA FetchedTuple ==
  ASSUME Inv, NEW k \in Keys, OnDisk(k)
  PROVE  LET tuple == Tuple(db.item[k], RemainingExpiry(k), now)
         IN  /\ k \in putSince
             /\ tuple.item = db.item[k]
             /\ TupleFits(k, tuple)
<1> USE DefaultCacheConstants
<1>1. /\ k \in putSince /\ db.item[k].due \in Int
      /\ k \notin torn => Expiry(db, k) <= db.item[k].due
      /\ k \in DOMAIN db.expiry => db.expiry[k] \in Int /\ db.expiry[k] < Never
      /\ now \in Nat /\ Writable
  BY DEF Inv, DiskFits, OnDisk, SettingsFit
<1>2. Tuple(db.item[k], RemainingExpiry(k), now) = [expiry |-> Expiry(db, k), item |-> db.item[k]]
  BY <1>1 DEF Tuple, RemainingExpiry, Expiry
<1>3. Expiry(db, k) \in Int
  BY <1>1 DEF Expiry
<1> QED  BY <1>1, <1>2, <1>3 DEF TupleFits

\* Get: what it leaves in memory is what was there, or what the disk has.
LEMMA GetKeeps ==
  ASSUME Inv, NEW k \in Keys, Get(k)
  PROVE  Inv'
<1> DEFINE m == IF memory_cache_ = None THEN None
                ELSE AfterGet(memory_cache_, k, now)
<1>1. UNCHANGED <<disk_cache_, disk_path, now, putSince, committed, torn>>
  BY DEF Get
<1>2. \/ memory_cache_' = m /\ UNCHANGED db
      \/ /\ RemainingExpiry(k) <= 0 /\ memory_cache_' = m
         /\ db' = RemoveExpiries(RemoveItems(db, {k}), {k})
      \/ /\ OnDisk(k) /\ UNCHANGED db
         /\ memory_cache_' = IF m = None THEN None
                             ELSE MemoryPut(m, k, db.item[k], RemainingExpiry(k),
                                            now, MaxMemory).m
  BY DEF Get, GetFromDisk, InMemory
<1>3. m # None => /\ memory_cache_ # None
                  /\ IsMemory(m)
                  /\ Part(m.items, memory_cache_.items)
  BY MemoryParts DEF Inv, MemoryFits
<1> HIDE DEF m
<1>4. MemoryFits'
  <2>1. CASE memory_cache_' = m
    BY <1>1, <1>3, <2>1, MemoryShrinks DEF Inv
  <2>2. CASE m = None /\ memory_cache_' = None
    BY <2>2, MemoryEmptied
  <2>3. CASE /\ OnDisk(k) /\ m # None
             /\ memory_cache_' = MemoryPut(m, k, db.item[k], RemainingExpiry(k),
                                           now, MaxMemory).m
    <3> DEFINE tuple == Tuple(db.item[k], RemainingExpiry(k), now)
    <3>1. IsMemory(m)
      BY <1>3, <2>3, ZenonT(30)
    <3>2. /\ IsMemory(memory_cache_')
          /\ \A j \in KeysOf(memory_cache_'.items) :
               \/ /\ j \in KeysOf(m.items)
                  /\ memory_cache_'.items.value[j] = m.items.value[j]
               \/ j = k /\ memory_cache_'.items.value[j] = tuple
      BY <2>3, <3>1, MemoryPutParts
    <3>3. k \in putSince /\ TupleFits(k, tuple)
      BY <2>3, FetchedTuple, ZenonT(30)
    <3> HIDE DEF tuple
    <3>4. \A j \in KeysOf(memory_cache_'.items) :
            j \in putSince /\ TupleFits(j, memory_cache_'.items.value[j])
      BY <1>3, <2>3, <3>2, <3>3 DEF Inv, MemoryFits, Part
    <3> QED  BY <1>1, <3>2, <3>4 DEF MemoryFits, TupleFits
  <2> QED  BY <1>2, <2>1, <2>2, <2>3
<1>5. DiskFits' /\ CommittedFits' /\ DOMAIN db'.item \subseteq DOMAIN db.item
  <2>1. CASE UNCHANGED db
    BY <1>1, <2>1, NothingWritten
  <2>2. CASE /\ RemainingExpiry(k) <= 0
             /\ db' = RemoveExpiries(RemoveItems(db, {k}), {k})
    BY <1>1, <2>2, PurgeFits
  <2> QED  BY <1>2, <2>1, <2>2
<1>6. SettingsFit'
  BY <1>1, <1>5 DEF Inv, SettingsFit, Writable
<1> QED  BY <1>4, <1>5, <1>6 DEF Inv

\* The process dies between the two deletes of a purge.
LEMMA CrashInPurgeKeeps ==
  ASSUME Inv, NEW k \in Keys, CrashInPurge(k)
  PROVE  Inv'
<1>1. /\ RemainingExpiry(k) <= 0 /\ db' = RemoveItems(db, {k})
      /\ UNCHANGED <<putSince, committed, torn, now>>
      /\ memory_cache_' = None /\ disk_cache_' = None /\ disk_path' = HasDiskPath
  BY DEF CrashInPurge, Die
<1>2. DiskFits' /\ CommittedFits' /\ DOMAIN db'.item \subseteq DOMAIN db.item
  BY <1>1, PurgeFits
<1>3. disk_path' \in BOOLEAN /\ (~HasDiskPath => ~disk_path') /\ ~Writable'
  BY <1>1, DefaultCacheConstants, Zenon DEF Writable
<1>4. SettingsFit'
  BY <1>1, <1>2, <1>3 DEF Inv, SettingsFit
<1> QED  BY <1>1, <1>2, <1>4, MemoryEmptied DEF Inv

-----------------------------------------------------------------------------
\* Every step of the cache and of its environment preserves the invariant.
LEMMA InvPreserved == Inv /\ [Next]_vars => Inv'
<1> SUFFICES ASSUME Inv, [Next]_vars PROVE Inv'
  OBVIOUS
<1>1. ASSUME NEW k \in Keys, Get(k) PROVE Inv'
  BY <1>1, GetKeeps
<1>2. ASSUME NEW k \in Keys, Remove(k) PROVE Inv'
  BY <1>2, RemovalKeeps DEF Remove
<1>3. ASSUME NEW k \in Keys, CrashInPurge(k) PROVE Inv'
  BY <1>3, CrashInPurgeKeeps
<1>4. ASSUME NEW k \in Keys, NEW content \in Contents, NEW expiry \in Lifetimes,
             Put(k, content, expiry)
      PROVE  Inv'
  BY <1>4, PutKeeps
<1>5. ASSUME NEW k \in Keys, NEW content \in Contents, NEW expiry \in Lifetimes,
             CrashInPut(k, content, expiry)
      PROVE  Inv'
  BY <1>5, CrashInPutKeeps
<1>6. CASE Open \/ Close
  BY <1>6, OpenCloseKeep
<1>7. CASE Clear \/ ClearFails
  BY <1>7, ClearKeeps
<1>8. CASE Tick \/ Crash
  BY <1>8, TickCrashKeep
<1>9. ASSUME NEW keys \in KeyPrefixes, RemoveKeysWithPrefix(keys) PROVE Inv'
  BY <1>9, RemovalKeeps DEF RemoveKeysWithPrefix
<1>10. CASE UNCHANGED vars
  <2>1. UNCHANGED <<disk_cache_, disk_path, db, now, putSince, committed, torn>>
        /\ UNCHANGED memory_cache_
    BY <1>10 DEF vars
  <2>2. SettingsFit' /\ MemoryFits'
    BY <2>1 DEF Inv, SettingsFit, Writable, MemoryFits, TupleFits
  <2> QED  BY <2>1, <2>2, NothingWritten DEF Inv
<1> QED
  BY <1>1, <1>2, <1>3, <1>4, <1>5, <1>6, <1>7, <1>8, <1>9, <1>10 DEF Next

\* The invariant holds in every state.
LEMMA InvAlways == Spec => []Inv
<1>1. Init => Inv
  BY InvInitially
<1>2. Inv /\ [Next]_vars => Inv'
  BY InvPreserved
<1> QED  BY <1>1, <1>2, PTL DEF Spec

\* Get returns no item after the time that its Put gave it, wherever it finds
\* the item.
THEOREM ReturnedIsFresh == Spec => []NothingExpiredIsReturned
<1>1. Inv => NothingExpiredIsReturned
  <2> SUFFICES ASSUME Inv, NEW k \in Keys \ torn, Returned(k) # None
               PROVE  Returned(k).due >= now
    BY DEF NothingExpiredIsReturned
  <2> USE DefaultCacheConstants
  <2>1. now \in Int /\ now < Never
    BY DEF Inv, SettingsFit
  <2>2. CASE InMemory(k)
    <3>1. /\ memory_cache_ # None
          /\ k \in KeysOf(memory_cache_.items)
          /\ memory_cache_.items.value[k].expiry >= now
      BY <2>2 DEF InMemory, Finds
    <3>2. TupleFits(k, memory_cache_.items.value[k])
      BY <3>1 DEF Inv, MemoryFits
    <3>3. Returned(k) = memory_cache_.items.value[k].item
      BY <2>2 DEF Returned
    <3> QED  BY <2>1, <3>1, <3>2, <3>3 DEF TupleFits
  <2>3. CASE ~InMemory(k) /\ OnDisk(k)
    <3>1. Returned(k) = db.item[k]
      BY <2>3 DEF Returned
    <3>2. /\ db.item[k].due \in Int /\ Expiry(db, k) <= db.item[k].due
          /\ k \in DOMAIN db.expiry => db.expiry[k] \in Int
          /\ Writable /\ RemainingExpiry(k) > 0
      BY <2>3 DEF Inv, DiskFits, OnDisk
    <3>3. Expiry(db, k) > now
      BY <2>1, <3>2 DEF Expiry, RemainingExpiry
    <3> QED  BY <2>1, <3>1, <3>2, <3>3 DEF Expiry
  <2>4. InMemory(k) \/ OnDisk(k)
    BY DEF Returned
  <2> QED  BY <2>2, <2>3, <2>4
<1> QED  BY <1>1, InvAlways, PTL

\* Get returns nothing for a key that was removed and not put since, whatever
\* was evicted, closed, reopened or lost in a crash.
THEOREM RemovedCorrect == Spec => []RemovedStaysRemoved
<1>1. Inv => RemovedStaysRemoved
  <2> SUFFICES ASSUME Inv, NEW k \in Keys, Returned(k) # None
               PROVE  k \in putSince
    BY DEF RemovedStaysRemoved
  <2>1. InMemory(k) \/ OnDisk(k)
    BY DEF Returned
  <2>2. CASE InMemory(k)
    BY <2>2 DEF Inv, MemoryFits, InMemory, Finds
  <2>3. CASE OnDisk(k)
    BY <2>3 DEF Inv, DiskFits, OnDisk
  <2> QED  BY <2>1, <2>2, <2>3
<1> QED  BY <1>1, InvAlways, PTL

\* An item that Put has stored on the disk with an expiry stays there with it
\* until it expires or is removed.
THEOREM StoredCorrect == Spec => []StoredPairSurvives
<1>1. Inv => StoredPairSurvives
  BY DEF Inv, CommittedFits
<1> QED  BY <1>1, InvAlways, PTL
=============================================================================
