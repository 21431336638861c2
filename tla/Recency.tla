------------------------------ MODULE Recency -------------------------------
(***************************************************************************)
(* The contents of a cost-bounded cache in order of use, the data that     *)
(* utils::LruCache keeps as a map whose buckets are linked with each       *)
(* other.  The contents are a record c: c.order is the sequence of the     *)
(* keys, the most recently used one first, c.value the value of each.      *)
(* Cost is the cost function the cache is constructed with.                *)
(***************************************************************************)
EXTENDS Naturals, Sequences

LOCAL INSTANCE FiniteSetsExt

CONSTANT Cost(_)

Empty == [order |-> <<>>, value |-> <<>>]

KeysOf(c) == DOMAIN c.value

Size(c) == MapThenSumSet(LAMBDA k : Cost(c.value[k]), KeysOf(c))

WithOrder(c, order) ==
  [order |-> order,
   value |-> [k \in KeysOf(c) \cap Range(order) |-> c.value[k]]]

Without(c, keys) ==
  [order |-> SelectSeq(c.order, LAMBDA k : k \notin keys),
   value |-> [k \in KeysOf(c) \ keys |-> c.value[k]]]

Promoted(c, k) ==
  [order |-> <<k>> \o SelectSeq(c.order, LAMBDA j : j # k), value |-> c.value]

Stored(c, k, v) ==
  LET others == Without(c, {k})
  IN  [order |-> <<k>> \o others.order,
       value |-> [j \in {k} \cup KeysOf(c) |->
                    IF j = k THEN v ELSE c.value[j]]]

\* The number of keys, from the front, whose costs fit into max.
Kept(c, max) ==
  Max({n \in 0 .. Len(c.order) :
         Size(WithOrder(c, SubSeq(c.order, 1, n))) <= max})

Evict(c, max) == WithOrder(c, SubSeq(c.order, 1, Kept(c, max)))
=============================================================================
