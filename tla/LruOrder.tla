------------------------------ MODULE LruOrder ------------------------------
(***************************************************************************)
(* What utils::LruCache promises, without its pointers: every operation    *)
(* makes the key it touches the most recently used one, and the bound on   *)
(* the sum of the costs is restored by dropping keys from the other end.   *)
(* LruCache implements this specification.                                 *)
(***************************************************************************)
EXTENDS Recency

LOCAL INSTANCE SequencesExt

CONSTANTS Keys, Values, MaxSizes, End

VARIABLES contents, max, result

lruOrderVars == <<contents, max, result>>

\* What an operation answers: the key its iterator points to (or End), its
\* bool, and the keys it evicted.
Answer(it, ok, evicted) == [it |-> it, ok |-> ok, evicted |-> evicted]

OrderInit ==
  /\ contents = Empty
  /\ max \in MaxSizes
  /\ result = Answer(End, FALSE, <<>>)

\* The keys the eviction callback is called with, in the order of the calls.
Evicted(c, size) ==
  Reverse(SubSeq(c.order, Kept(c, size) + 1, Len(c.order)))

Replace(c, it, ok) ==
  /\ contents' = Evict(c, max)
  /\ result' = Answer(it, ok, Evicted(c, max))
  /\ UNCHANGED max

Insert(k, v) ==
  \/ Cost(v) > max /\ Replace(contents, End, FALSE)
  \/ Cost(v) <= max /\ k \notin KeysOf(contents)
     /\ Replace(Stored(contents, k, v), k, TRUE)
  \/ Cost(v) <= max /\ k \in KeysOf(contents)
     /\ Replace(Promoted(contents, k), k, FALSE)

InsertOrAssign(k, v) ==
  \/ k \in KeysOf(contents) /\ Replace(Stored(contents, k, v), k, FALSE)
  \/ k \notin KeysOf(contents) /\ Cost(v) <= max
     /\ Replace(Stored(contents, k, v), k, TRUE)
  \/ k \notin KeysOf(contents) /\ Cost(v) > max
     /\ Replace(contents, End, FALSE)

Find(k) ==
  IF k \in KeysOf(contents) THEN Replace(Promoted(contents, k), k, TRUE)
                            ELSE Replace(contents, End, FALSE)

EraseAll(keys) ==
  Replace(Without(contents, keys), End, keys \cap KeysOf(contents) # {})

Resize(size) ==
  /\ max' = size
  /\ contents' = Evict(contents, size)
  /\ result' = Answer(End, TRUE, Evicted(contents, size))

OrderNext ==
  \/ \E k \in Keys, v \in Values : Insert(k, v) \/ InsertOrAssign(k, v)
  \/ \E k \in Keys : Find(k)
  \/ \E keys \in SUBSET Keys : EraseAll(keys)
  \/ \E size \in MaxSizes : Resize(size)

OrderSpec == OrderInit /\ [][OrderNext]_lruOrderVars
=============================================================================
