------------------------------ MODULE LruCache ------------------------------
(***************************************************************************)
(* utils::LruCache (olp/core/utils/LruCache.h): a std::map from keys to    *)
(* buckets that are also linked, through iterators, from the most to the   *)
(* least recently used one.  lru holds the members that change together:   *)
(* map_ (a bucket is its next_, previous_ and value_), first_, last_ and   *)
(* size_, a size_t computed modulo SizeT.  End is map_.end().              *)
(*                                                                         *)
(* The cache has no lock of its own: its owner calls one operation at a    *)
(* time, so every operation is one step.  result is what the operation     *)
(* returned and the keys it passed to the eviction callback.               *)
(***************************************************************************)
EXTENDS Naturals, SequencesExt

CONSTANTS
  Keys,         \* the keys a client uses
  Values,       \* the values a client stores, of a cost below SizeT
  MaxSizes,     \* the maximum sizes a client sets
  End,          \* map_.end(), which is no key
  SizeT,        \* the number of values of size_t
  Cost(_)       \* CacheCostFunc

VARIABLES lru, max_size_, result

vars == <<lru, max_size_, result>>

Answer(it, ok, evicted) == [it |-> it, ok |-> ok, evicted |-> evicted]

Init ==
  /\ lru = [map_ |-> <<>>, first_ |-> End, last_ |-> End, size_ |-> 0]
  /\ max_size_ \in MaxSizes
  /\ result = Answer(End, FALSE, <<>>)

-----------------------------------------------------------------------------
\* Moving a bucket that is not the first one to the front.

Promote(s, it) ==
  IF it = s.first_ THEN s
  ELSE LET b == s.map_[it]
           unlinked == [s.map_ EXCEPT ![b.previous_].next_ = b.next_]
           closed == IF b.next_ = End THEN unlinked
                     ELSE [unlinked EXCEPT ![b.next_].previous_ = b.previous_]
           front == [closed EXCEPT ![it].previous_ = End,
                                   ![it].next_ = s.first_]
       IN  [s EXCEPT !.map_ = [front EXCEPT ![s.first_].previous_ = it],
                     !.first_ = it,
                     !.last_ = IF b.next_ = End THEN b.previous_ ELSE @]

\* Erase(iterator, bool) without the callback, which result records.
EraseAt(s, it) ==
  LET b == s.map_[it]
      after == IF b.next_ = End THEN s.map_
               ELSE [s.map_ EXCEPT ![b.next_].previous_ = b.previous_]
      before == IF b.previous_ = End THEN after
                ELSE [after EXCEPT ![b.previous_].next_ = b.next_]
  IN  [map_   |-> [k \in DOMAIN s.map_ \ {it} |-> before[k]],
       first_ |-> IF b.previous_ = End THEN b.next_ ELSE s.first_,
       last_  |-> IF b.next_ = End THEN b.previous_ ELSE s.last_,
       size_  |-> (s.size_ + SizeT - Cost(b.value_)) % SizeT]

PopLast(s) == EraseAt(s, s.last_)

\* The states of evict()'s loop: popped[n] is s after n calls of PopLast.
Popped(s) ==
  LET popped[n \in 0 .. Cardinality(DOMAIN s.map_)] ==
        IF n = 0 THEN s ELSE PopLast(popped[n - 1])
  IN  popped

\* evict() leaves the loop the first time that size_ <= max_size_; the
\* operation that called it returns it and ok.
EvictAndReturn(s, max, it, ok) ==
  LET popped == Popped(s)
      n == Min({i \in DOMAIN popped : popped[i].size_ <= max})
  IN  /\ lru' = popped[n]
      /\ result' = Answer(it, ok, [i \in 1 .. n |-> popped[i - 1].last_])

\* AddInternal(it, cost) for the bucket a new key k has been emplaced with.
AddNew(s, k, v) ==
  LET map == [j \in DOMAIN s.map_ \cup {k} |->
                IF j = k THEN [next_ |-> s.first_, previous_ |-> End,
                               value_ |-> v]
                         ELSE s.map_[j]]
  IN  [map_   |-> IF s.first_ = End THEN map
                  ELSE [map EXCEPT ![s.first_].previous_ = k],
       first_ |-> k,
       last_  |-> IF s.map_ = <<>> THEN k ELSE s.last_,
       size_  |-> (s.size_ + Cost(v)) % SizeT]

\* Mutant of Assign: the old cost is not subtracted.
AssignAddsCost(s, k, v) ==
  Promote([s EXCEPT !.map_[k].value_ = v,
                    !.size_ = (@ + Cost(v)) % SizeT], k)

\* AddInternal(it, cost, &oldCost) for a key that is already in the map.
Assign(s, k, v) ==
  Promote([s EXCEPT
             !.map_[k].value_ = v,
             !.size_ = (@ + Cost(v) + SizeT - Cost(s.map_[k].value_)) % SizeT],
          k)

-----------------------------------------------------------------------------
Has(k) == k \in DOMAIN lru.map_

Return(s, it, ok) == lru' = s /\ result' = Answer(it, ok, <<>>)

InsertTooLarge(k, v) ==
  /\ Cost(v) > max_size_
  /\ Return(lru, End, FALSE)
  /\ UNCHANGED max_size_

InsertNew(k, v) ==
  /\ Cost(v) <= max_size_ /\ ~Has(k)
  /\ EvictAndReturn(AddNew(lru, k, v), max_size_, k, TRUE)
  /\ UNCHANGED max_size_

InsertExisting(k, v) ==
  /\ Cost(v) <= max_size_ /\ Has(k)
  /\ Return(Promote(lru, k), k, FALSE)
  /\ UNCHANGED max_size_

\* InsertOrAssign of a key that is there: its value is replaced, whatever
\* the new value costs.
AssignExisting(k, v) ==
  /\ Has(k)
  /\ EvictAndReturn(Assign(lru, k, v), max_size_, k, FALSE)
  /\ UNCHANGED max_size_

InsertOrAssignNew(k, v) ==
  /\ ~Has(k)
  /\ IF Cost(v) > max_size_
       THEN Return(lru, End, FALSE)
       ELSE EvictAndReturn(AddNew(lru, k, v), max_size_, k, TRUE)
  /\ UNCHANGED max_size_

\* Mutant of Find: the key keeps its place in the order of use.
FindWithoutPromote(k) ==
  /\ IF Has(k) THEN Return(lru, k, TRUE) ELSE Return(lru, End, FALSE)
  /\ UNCHANGED max_size_

Find(k) ==
  /\ IF Has(k) THEN Return(Promote(lru, k), k, TRUE)
               ELSE Return(lru, End, FALSE)
  /\ UNCHANGED max_size_

Erase(k) ==
  /\ IF Has(k) THEN Return(EraseAt(lru, k), End, TRUE)
               ELSE Return(lru, End, FALSE)
  /\ UNCHANGED max_size_

\* The loop of InMemoryCache::RemoveKeysWithPrefix over begin() .. end() with
\* Erase(const_iterator&), which advances the iterator before it erases: after
\* n rounds the iterator is at walk[n].it.
EraseMatching(keys) ==
  LET walk[n \in 0 .. Cardinality(DOMAIN lru.map_)] ==
        IF n = 0 THEN [s |-> lru, it |-> lru.first_]
        ELSE LET w == walk[n - 1]
             IN  [s  |-> IF w.it \in keys THEN EraseAt(w.s, w.it) ELSE w.s,
                  it |-> w.s.map_[w.it].next_]
  IN  /\ Return(walk[Cardinality(DOMAIN lru.map_)].s, End,
                keys \cap DOMAIN lru.map_ # {})
      /\ UNCHANGED max_size_

Clear ==
  /\ Return([map_ |-> <<>>, first_ |-> End, last_ |-> End, size_ |-> 0],
            End, lru.map_ # <<>>)
  /\ UNCHANGED max_size_

Resize(size) ==
  /\ max_size_' = size
  /\ EvictAndReturn(lru, size, End, TRUE)

Next ==
  \/ \E k \in Keys, v \in Values :
       \/ InsertTooLarge(k, v) \/ InsertNew(k, v) \/ InsertExisting(k, v)
       \/ AssignExisting(k, v) \/ InsertOrAssignNew(k, v)
  \/ \E k \in Keys : Find(k) \/ Erase(k)
  \/ \E keys \in SUBSET Keys : EraseMatching(keys)
  \/ Clear
  \/ \E size \in MaxSizes : Resize(size)

Spec == Init /\ [][Next]_vars

-----------------------------------------------------------------------------
Buckets == DOMAIN lru.map_

\* Every iterator that the cache keeps (first_, last_, next_, previous_)
\* points to a bucket of the map or to its end: Erase leaves no dangling one.
TypeOK ==
  /\ lru.map_ \in [Buckets -> [next_ : Buckets \cup {End},
                               previous_ : Buckets \cup {End},
                               value_ : Values]]
  /\ Buckets \subseteq Keys
  /\ lru.first_ \in Buckets \cup {End} /\ lru.last_ \in Buckets \cup {End}
  /\ lru.size_ \in 0 .. SizeT - 1
  /\ max_size_ \in MaxSizes
  /\ result.it \in Keys \cup {End} /\ result.ok \in BOOLEAN

\* The keys met from first_ along next_, and from last_ along previous_.
Forward ==
  LET met[n \in 0 .. Cardinality(Buckets)] ==
        IF n = 0 THEN <<lru.first_>>
        ELSE IF Last(met[n - 1]) = End THEN met[n - 1]
        ELSE Append(met[n - 1], lru.map_[Last(met[n - 1])].next_)
  IN  met[Cardinality(Buckets)]

Backward ==
  LET met[n \in 0 .. Cardinality(Buckets)] ==
        IF n = 0 THEN <<lru.last_>>
        ELSE IF Last(met[n - 1]) = End THEN met[n - 1]
        ELSE Append(met[n - 1], lru.map_[Last(met[n - 1])].previous_)
  IN  met[Cardinality(Buckets)]

\* The links form one list: it holds every bucket of the map once, ends at
\* map_.end(), and reads the same from both ends.  PopLast and AddInternal
\* assert parts of this, Promote and Erase dereference on the strength of it.
OneList ==
  /\ Last(Forward) = End /\ Last(Backward) = End
  /\ ToSet(Front(Forward)) = Buckets
  /\ Len(Forward) = Cardinality(Buckets) + 1
  /\ Front(Backward) = Reverse(Front(Forward))

\* size_ is the sum of the costs of what the cache holds, and no operation
\* returns with more than the maximum: after Insert, an assignment with
\* another cost, Erase, Resize and the evictions they cause.
SizeIsCostAndBounded ==
  /\ lru.size_ = MapThenSumSet(LAMBDA k : Cost(lru.map_[k].value_), Buckets)
  /\ lru.size_ <= max_size_

\* The buckets, their links and their total cost belong together.
BucketsAreSound == OneList /\ SizeIsCostAndBounded

Abstract == INSTANCE LruOrder WITH
  contents <- [order |-> Front(Forward),
               value |-> [k \in Buckets |-> lru.map_[k].value_]],
  max <- max_size_

\* The linked buckets implement the order of use: every operation leaves the
\* keys in the order, evicts the keys and answers what LruOrder says.
ImplementsLruOrder == Abstract!OrderSpec
=============================================================================
