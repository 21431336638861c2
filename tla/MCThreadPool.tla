---------------------------- MODULE MCThreadPool ----------------------------
(***************************************************************************)
(* The two building blocks that the clients share, in one instance: the    *)
(* ThreadPool with two workers, two producers and three tasks, and the     *)
(* LruCache with three keys.  A behaviour is one of either, that of its    *)
(* first state.                                                            *)
(***************************************************************************)
EXTENDS ThreadPool, TLC

CONSTANTS w1, w2, p1, p2, t1, t2, t3

VARIABLES part, lru, max_size_, result

MCWorkers == {w1, w2}
MCProducers == {p1, p2}
MCTasks == {t1, t2, t3}

\* A value is its own cost.
MCCost(v) == v
Lru == INSTANCE LruCache
    WITH Keys <- {"a", "b", "c"}, Values <- {1, 2, 4}, MaxSizes <- {0, 3, 5}, End <- "end",
         SizeT <- 16, Cost <- MCCost

lruVars == <<lru, max_size_, result>>

MCInit ==
    /\ part \in {"ThreadPool", "LruCache"}
    /\ Init /\ Lru!Init
    /\ part # "LruCache" => max_size_ = 0

MCNext ==
    /\ UNCHANGED part
    /\ \/ part = "ThreadPool" /\ Next /\ UNCHANGED lruVars
       \/ part = "LruCache" /\ Lru!Next /\ UNCHANGED vars

\* In the LruCache no thread has anything to do.
MCSpec == MCInit /\ [][MCNext]_<<part, vars, lruVars>> /\ Fairness

-----------------------------------------------------------------------------
\* The properties of LruCache: its links form one list, its size is the cost
\* of what it holds, and it implements the order of use.
BucketsAreSound == Lru!BucketsAreSound
ImplementsLruOrder == Lru!ImplementsLruOrder
=============================================================================
