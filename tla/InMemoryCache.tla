---------------------------- MODULE InMemoryCache ----------------------------
(***************************************************************************)
(* cache::InMemoryCache (src/cache/InMemoryCache.cpp) as functions of its  *)
(* state: every method holds m_mutex from its first to its last line, and  *)
(* its owner, DefaultCache, calls it under cache_lock_.                     *)
(*                                                                         *)
(* The state is a record m: m.items is m_itemTuples, an LruCache of        *)
(* tuples (the expiry time and the item; the key is the map's, the size is *)
(* the item's), m.expiries is m_itemExpiries, from an expiry time to the   *)
(* keys listed under it.  Never is the largest time_t, "no expiry".        *)
(***************************************************************************)
EXTENDS Integers, Functions

CONSTANTS
  Never,        \* std::numeric_limits<time_t>::max()
  SizeOf(_)     \* the number of bytes of an item

PresetModelSizeCacheCost(tuple) ==
  IF SizeOf(tuple.item) = 0 THEN 1 ELSE SizeOf(tuple.item)

INSTANCE Recency WITH Cost <- PresetModelSizeCacheCost

EmptyMemory == [items |-> Empty, expiries |-> <<>>]

\* PurgeExpired(expireTime) for every time of a set: the keys listed under
\* these times are erased, with whatever is stored under them now.
PurgeTimes(m, times) ==
  LET listed == UNION {m.expiries[t] : t \in times \cap DOMAIN m.expiries}
  IN  [items    |-> Without(m.items, listed),
       expiries |-> Restrict(m.expiries, DOMAIN m.expiries \ times)]

PurgeExpired(m, now) == PurgeTimes(m, {t \in DOMAIN m.expiries : t < now})

Listed(expiries, t, k) ==
  [u \in DOMAIN expiries \cup {t} |->
     (IF u \in DOMAIN expiries THEN expiries[u] ELSE {})
       \cup (IF u = t THEN {k} ELSE {})]

\* Put: what it returns and the state it leaves.  An existing key is assigned
\* and reported as false; its new expiry is not listed.  OnEviction looks for
\* the evicted key in a copy of the vector, so m_itemExpiries keeps it.
MemoryPut(m, k, item, expireSeconds, now, maxSize) ==
  LET purged == PurgeExpired(m, now)
      due == IF expireSeconds = Never THEN Never ELSE expireSeconds + now
      tuple == [expiry |-> due, item |-> item]
      stored == Evict(Stored(purged.items, k, tuple), maxSize)
  IN  CASE expireSeconds <= 0 -> [ok |-> FALSE, m |-> purged]
        [] expireSeconds > 0 /\ k \in KeysOf(purged.items) ->
             [ok |-> FALSE, m |-> [purged EXCEPT !.items = stored]]
        [] expireSeconds > 0 /\ k \notin KeysOf(purged.items)
             /\ PresetModelSizeCacheCost(tuple) > maxSize ->
             [ok |-> FALSE, m |-> purged]
        [] OTHER ->
             [ok |-> TRUE,
              m |-> [items    |-> stored,
                     expiries |-> IF due = Never THEN purged.expiries
                                  ELSE Listed(purged.expiries, due, k)]]

\* Get finds an item: it is there and its expiry is not before now.
Finds(m, k, now) ==
  k \in KeysOf(m.items) /\ m.items.value[k].expiry >= now

\* What Get leaves: the key is promoted, and when it has expired, everything
\* listed under its expiry time is purged.
AfterGet(m, k, now) ==
  IF k \notin KeysOf(m.items) THEN m
  ELSE LET promoted == [m EXCEPT !.items = Promoted(m.items, k)]
       IN  IF Finds(m, k, now) THEN promoted
           ELSE PurgeTimes(promoted, {m.items.value[k].expiry})

\* Remove and RemoveKeysWithPrefix: m_itemExpiries still lists the keys.
MemoryRemove(m, keys) == [m EXCEPT !.items = Without(m.items, keys)]
=============================================================================
