------------------------ MODULE WriteClientsProofs ------------------------
(***************************************************************************)
(* The clients of the write service, for any number of operations that run *)
(* at the same time: an operation answers at most once, it lists nothing   *)
(* before it has stored the blob, and the flag of the initialisation is    *)
(* owned.  The stages that are left of an operation have a shape, which    *)
(* every step keeps: they end in a call, the lookups come first and end    *)
(* with the service that tells whether the clients are initialised, and    *)
(* what is listed comes after the blob.                                    *)
(***************************************************************************)
EXTENDS WriteClients, SequenceTheorems, TLAPS

Calls == [service : Services, verb : {"GET", "HEAD", "PUT", "POST", "DELETE"},
          ok : SUBSET Statuses]

Stages ==
  [do : {"init", "init_greater", "catalog", "layer", "unlock"}]
    \cup [do : {"lock"}, unless : {"catalog", "catalog_and_blob", "config"}]
    \cup [do : {"lookup"}, call : {c \in Calls : c.verb = "GET"}, unclear : SUBSET Statuses]
    \cup [do : {"call"}, call : Calls, unclear : SUBSET Statuses]

IsLookup(stage) == stage.do = "lookup"
Stores(stage) == stage.do = "call" /\ stage.call = PutBlob
Lists(stage) == stage.do = "call" /\ stage.call \in {UploadPartitions, insertIndexes}

EndsInCall(todo) == todo # <<>> /\ todo[Len(todo)].do = "call"

\* What is listed comes after the blob, or the blob has been stored.
BlobFirst(todo, stored) ==
  \A j \in 1 .. Len(todo) :
    Lists(todo[j]) => stored = TRUE \/ \E i \in 1 .. j - 1 : Stores(todo[i])

\* The lookups come first, and the last of them is that of the service.
LookupsLead(todo, service) ==
  \A j \in 1 .. Len(todo) :
    IsLookup(todo[j]) =>
      /\ \A i \in 1 .. j : IsLookup(todo[i])
      /\ \E k \in j .. Len(todo) : IsLookup(todo[k]) /\ todo[k].call.service = service

NoLock(todo) == \A i \in 1 .. Len(todo) : todo[i].do # "lock"

HasLookup(todo) == \E i \in DOMAIN todo : todo[i].do = "lookup"

\* The function that a record of op is.
Fields == {"pc", "chain", "todo", "nested", "token", "asked", "cancelled", "returned",
           "answers", "base", "stored", "genuine"}
IsRecord(r) == r = [f \in Fields |-> r[f]]

Ended(pc) == pc \in {"idle", "done"}

Sound(r, class) ==
  /\ IsRecord(r)
  /\ r.todo \in Seq(Stages)
  /\ Ended(r.pc) => r.todo = <<>>
  /\ ~Ended(r.pc) => EndsInCall(r.todo)
  /\ r.pc # "done" => r.answers = <<>>
  /\ r.answers = <<>> \/ \E x : r.answers = <<x>>
  /\ r.pc = "await" => r.todo[1].do \in {"lookup", "call", "catalog"}
  /\ r.pc = "begin" => r.todo[1].do = "init"
  /\ r.pc = "locking" => r.todo[1].do = "lock"
  /\ r.chain = VolatilePublishToBatch \/ BlobFirst(r.todo, r.stored)
  /\ class # "stream" => LookupsLead(r.todo, LastOf(Lookups[class])) /\ NoLock(r.todo)

\* The inductive invariant.
Inv ==
  /\ client \in DOMAIN Operations
  /\ op = [o \in Ops |-> op[o]]
  /\ \A o \in Ops : Sound(op[o], client)
  /\ FlagIsOwned

\* What is asked of the stages that an operation starts with.
IsChain(chain) ==
  /\ chain \in Seq(Stages) /\ EndsInCall(chain)
  /\ \A i \in 1 .. Len(chain) : ~IsLookup(chain[i])
  /\ chain = VolatilePublishToBatch \/ BlobFirst(chain, FALSE)

-----------------------------------------------------------------------------
(* Stages. *)

\* The stages that the operations are made of are stages, and those that the
\* arguments look at are told apart by what they do.
LEMMA StagesAreTyped ==
    /\ {InitApiClients, InitGreaterThanTwentyMib, InitCatalogModel,
        FindContentTypeForLayerId, NotifyInitCompleted} \subseteq Stages
    /\ \A u \in {"catalog", "catalog_and_blob", "config"} : AquireInitLock(u) \in Stages
    /\ \A s \in Services : Lookup(s) \in Stages
    /\ \A c \in Calls, u \in SUBSET Statuses : InvokeUnclear(c, u) \in Stages
    /\ \A c \in Calls : Invoke(c) \in Stages
<1>1. \A s \in Services : LookupApi(s) \in Calls /\ LookupApi(s).verb = "GET"
  BY DEF LookupApi, PlatformGetApis, ResourcesGetApis, Call, Calls, Statuses
<1>2. {InitApiClients, InitGreaterThanTwentyMib, InitCatalogModel,
       FindContentTypeForLayerId, NotifyInitCompleted} \subseteq Stages
  BY DEF InitApiClients, InitGreaterThanTwentyMib, InitCatalogModel,
         FindContentTypeForLayerId, NotifyInitCompleted, Stages
<1>3. \A u \in {"catalog", "catalog_and_blob", "config"} : AquireInitLock(u) \in Stages
  BY DEF AquireInitLock, Stages
<1>4. \A s \in Services : Lookup(s) \in Stages
  BY <1>1 DEF Lookup, Stages
<1>5. \A c \in Calls, u \in SUBSET Statuses : InvokeUnclear(c, u) \in Stages
  BY DEF InvokeUnclear, Stages
<1>6. \A c \in Calls : Invoke(c) \in Stages
  BY DEF Invoke, Stages
<1> QED
  BY <1>2, <1>3, <1>4, <1>5, <1>6

\* The calls of the Api classes are calls.
LEMMA CallsAreTyped ==
    {PutBlob, deleteBlob, checkBlobExists, insertIndexes, performUpdate, IngestData,
     IngestSDII, GetLatestCatalogVersion, InitPublication, UploadPartitions,
     SubmitPublication, GetPublication, CancelPublication, GetPartitionsById}
       \subseteq Calls
BY DEF PutBlob, deleteBlob, checkBlobExists, insertIndexes, performUpdate, IngestData,
       IngestSDII, GetLatestCatalogVersion, InitPublication, UploadPartitions,
       SubmitPublication, GetPublication, CancelPublication, GetPartitionsById,
       Call, Calls, Services, Statuses, Cancelled, TimedOut

\* The stages that are left when the first one is done.
LEMMA Rest ==
    ASSUME NEW todo \in Seq(Stages), todo # <<>>
    PROVE  /\ Tail(todo) \in Seq(Stages) /\ Len(todo) \in Nat \ {0}
           /\ Len(Tail(todo)) = Len(todo) - 1
           /\ \A j \in 1 .. Len(todo) - 1 : Tail(todo)[j] = todo[j + 1]
BY HeadTailProperties, LenProperties, EmptySeq

\* What is left after the first stage still ends in a call.
LEMMA RestEndsInCall ==
    ASSUME NEW todo \in Seq(Stages), EndsInCall(todo),
           todo[1].do # "call" \/ Len(todo) # 1
    PROVE  EndsInCall(Tail(todo))
<1>1. todo # <<>> /\ todo[Len(todo)].do = "call"
  BY DEF EndsInCall
<1>2. Len(todo) # 1
  BY <1>1, Zenon
<1>3. /\ Len(todo) \in Nat \ {0} /\ Len(Tail(todo)) = Len(todo) - 1
      /\ Tail(todo) \in Seq(Stages)
      /\ \A j \in 1 .. Len(todo) - 1 : Tail(todo)[j] = todo[j + 1]
  BY <1>1, Rest
<1>4. \A n \in Nat \ {0} :
         n # 1 => n - 1 \in 1 .. n - 1 /\ (n - 1) + 1 = n /\ n - 1 # 0
  OBVIOUS
<1>5. Tail(todo)[Len(Tail(todo))] = todo[Len(todo)] /\ Len(Tail(todo)) # 0
  BY <1>2, <1>3, <1>4, Zenon
<1>6. Tail(todo) # <<>>
  BY <1>5, EmptySeq, Zenon
<1> QED
  BY <1>1, <1>5, <1>6 DEF EndsInCall

\* What is listed still comes after the blob: in the stages that are left, or
\* stored by the one that is done.
LEMMA RestIsBlobFirst ==
    ASSUME NEW todo \in Seq(Stages), todo # <<>>, NEW old, NEW new,
           BlobFirst(todo, old), old = TRUE => new = TRUE,
           Stores(todo[1]) => new = TRUE
    PROVE  BlobFirst(Tail(todo), new)
<1> SUFFICES ASSUME NEW j \in 1 .. Len(Tail(todo)), Lists(Tail(todo)[j]), new # TRUE
             PROVE  \E i \in 1 .. j - 1 : Stores(Tail(todo)[i])
  BY Zenon DEF BlobFirst
<1>1. /\ Len(todo) \in Nat \ {0} /\ Len(Tail(todo)) = Len(todo) - 1
      /\ \A i \in 1 .. Len(todo) - 1 : Tail(todo)[i] = todo[i + 1]
  BY Rest
<1>2. j + 1 \in 1 .. Len(todo) /\ Lists(todo[j + 1])
  BY <1>1
<1>3. PICK i \in 1 .. (j + 1) - 1 : Stores(todo[i])
  BY <1>2, Zenon DEF BlobFirst
<1>4. i # 1
  BY <1>3, Zenon
<1>5. i - 1 \in 1 .. j - 1 /\ Tail(todo)[i - 1] = todo[i]
  BY <1>1, <1>4
<1> QED
  BY <1>3, <1>5

\* No stage that takes init_mutex_ appears.
LEMMA RestHasNoLock ==
    ASSUME NEW todo \in Seq(Stages), todo # <<>>, NoLock(todo)
    PROVE  NoLock(Tail(todo))
<1>1. /\ Len(todo) \in Nat \ {0} /\ Len(Tail(todo)) = Len(todo) - 1
      /\ \A i \in 1 .. Len(todo) - 1 : Tail(todo)[i] = todo[i + 1]
  BY Rest
<1> QED
  BY <1>1 DEF NoLock

\* The lookups that are left still come first, and end as before.
LEMMA RestLeads ==
    ASSUME NEW todo \in Seq(Stages), todo # <<>>, NEW service, LookupsLead(todo, service)
    PROVE  LookupsLead(Tail(todo), service)
<1> SUFFICES ASSUME NEW j \in 1 .. Len(Tail(todo)), IsLookup(Tail(todo)[j])
             PROVE  /\ \A i \in 1 .. j : IsLookup(Tail(todo)[i])
                    /\ \E k \in j .. Len(Tail(todo)) :
                          IsLookup(Tail(todo)[k]) /\ Tail(todo)[k].call.service = service
  BY Zenon DEF LookupsLead
<1>1. /\ Len(todo) \in Nat \ {0} /\ Len(Tail(todo)) = Len(todo) - 1
      /\ \A i \in 1 .. Len(todo) - 1 : Tail(todo)[i] = todo[i + 1]
  BY Rest
<1>2. j + 1 \in 1 .. Len(todo) /\ IsLookup(todo[j + 1])
  BY <1>1
<1>3. \A i \in 1 .. j + 1 : IsLookup(todo[i])
  BY <1>2 DEF LookupsLead
<1>4. PICK k \in j + 1 .. Len(todo) : IsLookup(todo[k]) /\ todo[k].call.service = service
  BY <1>2, Zenon DEF LookupsLead
<1>5. k - 1 \in j .. Len(Tail(todo)) /\ Tail(todo)[k - 1] = todo[k]
  BY <1>1, <1>4
<1>6. \A i \in 1 .. j : IsLookup(Tail(todo)[i])
  BY <1>1, <1>3
<1> QED
  BY <1>4, <1>5, <1>6

\* The lookups of an initialisation take the place of the first stage.
LEMMA Prepended ==
    ASSUME NEW todo \in Seq(Stages), EndsInCall(todo), todo[1].do \notin {"call", "lookup"},
           NEW services \in Seq(Services), services # <<>>
    PROVE  LET new == ToLookups(services) \o Tail(todo)
           IN  /\ new \in Seq(Stages) /\ EndsInCall(new) /\ HasLookup(new)
               /\ NoLock(todo) => NoLock(new)
               /\ \A stored : BlobFirst(todo, stored) => BlobFirst(new, stored)
               /\ \A service : LookupsLead(todo, service) =>
                                 LookupsLead(new, LastOf(services))
<1> DEFINE front == ToLookups(services)
           rest == Tail(todo)
           new == front \o rest
<1>1. /\ todo # <<>> /\ rest \in Seq(Stages) /\ Len(rest) \in Nat
      /\ EndsInCall(rest)
  BY RestEndsInCall, HeadTailProperties, LenProperties DEF EndsInCall
<1>2. Len(services) \in Nat \ {0} /\ services \in [1 .. Len(services) -> Services]
  BY EmptySeq, LenProperties
<1>3. /\ front \in Seq(Stages) /\ Len(front) = Len(services)
      /\ \A i \in 1 .. Len(services) : front[i] = Lookup(services[i])
  BY <1>2, StagesAreTyped DEF ToLookups
<1>4. PICK n \in Nat \ {0}, m \in Nat : n = Len(services) /\ m = Len(rest)
  BY <1>1, <1>2, Zenon
<1> HIDE DEF front, rest
<1>5. /\ new \in Seq(Stages) /\ Len(new) = Len(front) + Len(rest)
      /\ \A i \in 1 .. Len(front) + Len(rest) :
            new[i] = IF i <= Len(front) THEN front[i] ELSE rest[i - Len(front)]
  BY <1>1, <1>3, ConcatProperties, ZenonT(30)
<1>6. /\ new \in Seq(Stages) /\ Len(new) = n + m
      /\ \A i \in 1 .. n : new[i] = Lookup(services[i])
  BY <1>3, <1>4, <1>5
<1>7. \A i \in 1 .. m : new[n + i] = rest[i]
  BY <1>3, <1>4, <1>5
<1> HIDE DEF new
<1>8. ASSUME NEW i \in 1 .. n
      PROVE  new[i].do = "lookup" /\ new[i].call.service = services[i]
  <2>1. new[i] = Lookup(services[i])
    BY <1>6
  <2> QED
    BY <2>1 DEF Lookup, LookupApi, PlatformGetApis, ResourcesGetApis, Call
<1>9. m # 0 /\ rest[m].do = "call"
  BY <1>1, <1>4, EmptySeq DEF EndsInCall
<1>10. EndsInCall(new)
  <2>1. m \in 1 .. m /\ Len(new) # 0
    BY <1>6, <1>9
  <2> QED
    BY <1>6, <1>7, <1>9, <2>1, EmptySeq, Zenon DEF EndsInCall
<1>11. HasLookup(new)
  BY <1>6, <1>8, LenProperties DEF HasLookup
<1>12. ASSUME NEW stored, BlobFirst(todo, stored)
       PROVE  BlobFirst(new, stored)
  <2>1. BlobFirst(rest, stored)
    BY <1>1, <1>12, RestIsBlobFirst, Zenon DEF rest, Stores
  <2> SUFFICES ASSUME NEW j \in 1 .. n + m, Lists(new[j]), stored # TRUE
               PROVE  \E i \in 1 .. j - 1 : Stores(new[i])
    BY <1>6, Zenon DEF BlobFirst
  <2>2. j > n
    BY <1>8 DEF Lists
  <2>3. j - n \in 1 .. m /\ n + (j - n) = j
    BY <2>2
  <2>4. Lists(rest[j - n])
    BY <1>7, <2>3
  <2>5. PICK i \in 1 .. (j - n) - 1 : Stores(rest[i])
    BY <1>4, <2>1, <2>3, <2>4, Zenon DEF BlobFirst
  <2>6. n + i \in 1 .. j - 1 /\ i \in 1 .. m
    BY <2>3, <2>5
  <2> QED
    BY <1>7, <2>5, <2>6
<1>13. ASSUME NEW service, LookupsLead(todo, service)
       PROVE  LookupsLead(new, LastOf(services))
  <2>1. \A i \in 1 .. Len(todo) : ~IsLookup(todo[i])
    <3>1. Len(todo) \in Nat /\ \A i \in 1 .. Len(todo) : 1 \in 1 .. i
      BY LenProperties
    <3> QED
      BY <1>13, <3>1, Zenon DEF LookupsLead, IsLookup
  <2>2. \A i \in 1 .. m : ~IsLookup(rest[i])
    BY <1>1, <1>4, <2>1, Rest DEF rest
  <2> SUFFICES ASSUME NEW j \in 1 .. n + m, IsLookup(new[j])
               PROVE  /\ \A i \in 1 .. j : IsLookup(new[i])
                      /\ \E k \in j .. n + m :
                            IsLookup(new[k]) /\ new[k].call.service = LastOf(services)
    BY <1>6, Zenon DEF LookupsLead
  <2>3. j <= n
    <3> SUFFICES ASSUME j > n
                 PROVE  FALSE
      OBVIOUS
    <3>1. j - n \in 1 .. m /\ n + (j - n) = j
      OBVIOUS
    <3> QED
      BY <1>7, <2>2, <3>1
  <2>4. \A i \in 1 .. j : IsLookup(new[i])
    BY <1>8, <2>3 DEF IsLookup
  <2>5. n \in j .. n + m /\ n \in 1 .. n
    BY <2>3
  <2>6. IsLookup(new[n]) /\ new[n].call.service = LastOf(services)
    BY <1>4, <1>8, <2>5 DEF IsLookup, LastOf
  <2> QED
    BY <2>4, <2>5, <2>6
<1>14. ASSUME NoLock(todo)
       PROVE  NoLock(new)
  <2>1. NoLock(rest)
    BY <1>1, <1>14, RestHasNoLock DEF rest
  <2> SUFFICES ASSUME NEW j \in 1 .. n + m
               PROVE  new[j].do # "lock"
    BY <1>6 DEF NoLock
  <2>2. CASE j <= n
    BY <1>8, <2>2
  <2>3. CASE j > n
    <3>1. j - n \in 1 .. m /\ n + (j - n) = j
      BY <2>3
    <3> QED
      BY <1>4, <1>7, <2>1, <3>1, Zenon DEF NoLock
  <2> QED
    BY <2>2, <2>3
<1> QED
  BY <1>6, <1>10, <1>11, <1>12, <1>13, <1>14, Zenon DEF new, front, rest

-----------------------------------------------------------------------------
(* The operations. *)

\* What the stages of the operations do and call.
LEMMA StageKinds ==
    /\ InitApiClients.do = "init" /\ InitGreaterThanTwentyMib.do = "init_greater"
    /\ InitCatalogModel.do = "catalog" /\ FindContentTypeForLayerId.do = "layer"
    /\ NotifyInitCompleted.do = "unlock"
    /\ \A u : AquireInitLock(u).do = "lock"
    /\ \A c : Invoke(c).do = "call" /\ Invoke(c).call = c
    /\ \A c, u : InvokeUnclear(c, u).do = "call" /\ InvokeUnclear(c, u).call = c
BY DEF InitApiClients, InitGreaterThanTwentyMib, InitCatalogModel,
       FindContentTypeForLayerId, NotifyInitCompleted, AquireInitLock, Invoke,
       InvokeUnclear

\* Two calls list: the others differ from them in the service, the verb or the
\* status they expect.
LEMMA OthersDoNotList ==
    \A c \in {deleteBlob, checkBlobExists, PutBlob, performUpdate, IngestData, IngestSDII,
              GetLatestCatalogVersion, InitPublication, SubmitPublication,
              GetPublication, CancelPublication, GetPartitionsById} :
      c \notin {UploadPartitions, insertIndexes}
<1>1. UploadPartitions.service = "publish" /\ UploadPartitions.verb = "POST"
      /\ 200 \notin UploadPartitions.ok /\ insertIndexes.service = "index"
      /\ insertIndexes.verb = "POST"
  BY DEF UploadPartitions, insertIndexes, Call
<1>2. \A c \in {deleteBlob, checkBlobExists, PutBlob, performUpdate, IngestData, IngestSDII,
                GetLatestCatalogVersion, SubmitPublication, GetPublication,
                CancelPublication, GetPartitionsById} :
        c.verb # "POST" \/ c.service = "ingest"
  BY DEF deleteBlob, checkBlobExists, PutBlob, performUpdate, IngestData, IngestSDII,
         GetLatestCatalogVersion, SubmitPublication, GetPublication,
         CancelPublication, GetPartitionsById, Call
<1>3. InitPublication.service = "publish" /\ 200 \in InitPublication.ok
  BY DEF InitPublication, Call
<1> QED
  BY <1>1, <1>2, <1>3

\* A chain that lists nothing needs no blob.
LEMMA NothingListed ==
    ASSUME NEW chain, \A i \in 1 .. Len(chain) : ~Lists(chain[i])
    PROVE  BlobFirst(chain, FALSE)
BY DEF BlobFirst

\* The operations that are an initialisation and one call.
LEMMA ShortChains ==
    ASSUME NEW chain \in {StartBatch, GetBaseVersion, GetBatch, CompleteBatch, CancelBatch,
                          CheckDataExists, DeleteIndexData, UpdateIndex}
    PROVE  IsChain(chain) /\ NoLock(chain)
<1>1. PICK c \in {InitPublication, GetLatestCatalogVersion, GetPublication, SubmitPublication,
                  CancelPublication, checkBlobExists, deleteBlob, performUpdate},
           u \in SUBSET Statuses :
         chain = <<InitApiClients, InvokeUnclear(c, u)>>
  BY DEF StartBatch, GetBaseVersion, GetBatch, CompleteBatch, CancelBatch, CheckDataExists,
         DeleteIndexData, UpdateIndex, Invoke, InvokeUnclear, Statuses
<1>2. c \in Calls /\ c \notin {UploadPartitions, insertIndexes}
  BY CallsAreTyped, OthersDoNotList
<1>3. /\ chain \in Seq(Stages) /\ Len(chain) = 2 /\ chain # <<>>
      /\ chain[1].do = "init" /\ chain[2].do = "call" /\ chain[2].call = c
  BY <1>1, <1>2, StagesAreTyped, StageKinds
<1>4. \A i \in 1 .. Len(chain) : i = 1 \/ i = 2
  BY <1>3
<1>5. \A i \in 1 .. Len(chain) : ~IsLookup(chain[i]) /\ ~Lists(chain[i])
  BY <1>2, <1>3, <1>4 DEF IsLookup, Lists
<1>6. NoLock(chain)
  BY <1>3, <1>4 DEF NoLock
<1> QED
  BY <1>3, <1>5, <1>6, NothingListed, Zenon DEF IsChain, EndsInCall

(* The longer chains, stage by stage. *)

\* VersionedLayerClientImpl::PublishToBatch stores the blob, then lists it.
LEMMA PublishToBatchIsChain == IsChain(PublishToBatch) /\ NoLock(PublishToBatch)
<1> DEFINE chain == PublishToBatch
<1>1. /\ chain \in Seq(Stages) /\ Len(chain) = 7 /\ chain # <<>>
      /\ chain[1].do = "init" /\ chain[2].do = "catalog" /\ chain[3].do = "layer"
      /\ chain[4].do = "init" /\ chain[5].do = "call" /\ chain[5].call = PutBlob
      /\ chain[6].do = "init" /\ chain[7].do = "call" /\ chain[7].call = UploadPartitions
  <2>1. /\ <<InitApiClients, InitCatalogModel>> \in Seq(Stages)
        /\ UploadBlob \in Seq(Stages)
        /\ UploadPartition \in Seq(Stages)
    BY StagesAreTyped, CallsAreTyped DEF Statuses, UploadBlob, UploadPartition
  <2>2. chain \in Seq(Stages)
    BY <2>1, ConcatProperties, Zenon DEF PublishToBatch
  <2>3. /\ Len(chain) = 7 /\ chain # <<>>
        /\ chain[1].do = "init" /\ chain[2].do = "catalog" /\ chain[3].do = "layer"
        /\ chain[4].do = "init" /\ chain[5].do = "call" /\ chain[5].call = PutBlob
        /\ chain[6].do = "init" /\ chain[7].do = "call" /\ chain[7].call = UploadPartitions
    BY StageKinds DEF PublishToBatch, UploadBlob, UploadPartition
  <2> QED
    BY <2>2, <2>3
<1> HIDE DEF chain
<1>2. \A i \in 1 .. Len(chain) : i \in {1, 2, 3, 4, 5, 6, 7}
  BY <1>1
<1>3. \A i \in 1 .. Len(chain) : ~IsLookup(chain[i])
  BY <1>1, <1>2 DEF IsLookup
<1>4. \A i \in 1 .. Len(chain) : Lists(chain[i]) => i = 7
  BY <1>1, <1>2, OthersDoNotList DEF Lists
<1>5. 5 \in 1 .. 7 - 1 /\ Stores(chain[5])
  BY <1>1 DEF Stores
<1>6. BlobFirst(chain, FALSE)
  BY <1>4, <1>5 DEF BlobFirst
<1>7. NoLock(chain)
  BY <1>1, <1>2 DEF NoLock
<1> QED
  BY <1>1, <1>3, <1>6, <1>7, Zenon DEF IsChain, EndsInCall, chain

\* VolatileLayerClientImpl::PublishPartitionData lists nothing.
LEMMA PublishPartitionDataIsChain == IsChain(PublishPartitionData) /\ NoLock(PublishPartitionData)
<1> DEFINE chain == PublishPartitionData
<1>1. /\ chain \in Seq(Stages) /\ Len(chain) = 6 /\ chain # <<>>
      /\ chain[1].do = "init" /\ chain[2].do = "catalog" /\ chain[3].do = "init"
      /\ chain[4].do = "call" /\ chain[4].call = GetPartitionsById /\ chain[5].do = "layer"
      /\ chain[6].do = "call" /\ chain[6].call = PutBlob
  <2>1. /\ <<InitApiClients, InitCatalogModel>> \in Seq(Stages)
        /\ GetDataHandleMap \in Seq(Stages)
        /\ <<FindContentTypeForLayerId, Invoke(PutBlob)>> \in Seq(Stages)
    BY StagesAreTyped, CallsAreTyped DEF Statuses, GetDataHandleMap
  <2>2. chain \in Seq(Stages)
    BY <2>1, ConcatProperties, Zenon DEF PublishPartitionData
  <2>3. /\ Len(chain) = 6 /\ chain # <<>>
        /\ chain[1].do = "init" /\ chain[2].do = "catalog" /\ chain[3].do = "init"
        /\ chain[4].do = "call" /\ chain[4].call = GetPartitionsById /\ chain[5].do = "layer"
        /\ chain[6].do = "call" /\ chain[6].call = PutBlob
    BY StageKinds DEF PublishPartitionData, GetDataHandleMap
  <2> QED
    BY <2>2, <2>3
<1> HIDE DEF chain
<1>2. \A i \in 1 .. Len(chain) : i \in {1, 2, 3, 4, 5, 6}
  BY <1>1
<1>3. \A i \in 1 .. Len(chain) : ~IsLookup(chain[i])
  BY <1>1, <1>2 DEF IsLookup
<1>4. \A i \in 1 .. Len(chain) : ~Lists(chain[i])
  BY <1>1, <1>2, OthersDoNotList DEF Lists
<1>7. NoLock(chain)
  BY <1>1, <1>2 DEF NoLock
<1> QED
  BY <1>1, <1>3, <1>4, <1>7, NothingListed, Zenon DEF IsChain, EndsInCall, chain

\* VolatileLayerClientImpl::PublishToBatch has no blob.
LEMMA VolatilePublishToBatchIsChain == IsChain(VolatilePublishToBatch) /\ NoLock(VolatilePublishToBatch)
<1> DEFINE chain == VolatilePublishToBatch
<1>1. /\ chain \in Seq(Stages) /\ Len(chain) = 2 /\ chain # <<>>
      /\ chain[1].do = "init" /\ chain[2].do = "call" /\ chain[2].call = UploadPartitions
  BY StagesAreTyped, StageKinds, CallsAreTyped DEF Statuses, VolatilePublishToBatch,
         UploadPartition
<1> HIDE DEF chain
<1>2. \A i \in 1 .. Len(chain) : i \in {1, 2}
  BY <1>1
<1>3. \A i \in 1 .. Len(chain) : ~IsLookup(chain[i])
  BY <1>1, <1>2 DEF IsLookup
<1>7. NoLock(chain)
  BY <1>1, <1>2 DEF NoLock
<1> QED
  BY <1>1, <1>3, <1>7 DEF IsChain, EndsInCall, chain

\* IndexLayerClientImpl::PublishIndex stores the blob, then inserts the index.
LEMMA PublishIndexIsChain == IsChain(PublishIndex) /\ NoLock(PublishIndex)
<1> DEFINE chain == PublishIndex
<1>1. /\ chain \in Seq(Stages) /\ Len(chain) = 5 /\ chain # <<>>
      /\ chain[1].do = "init" /\ chain[2].do = "catalog" /\ chain[3].do = "layer"
      /\ chain[4].do = "call" /\ chain[4].call = PutBlob /\ chain[5].do = "call"
      /\ chain[5].call = insertIndexes
  BY StagesAreTyped, StageKinds, CallsAreTyped DEF Statuses, PublishIndex
<1> HIDE DEF chain
<1>2. \A i \in 1 .. Len(chain) : i \in {1, 2, 3, 4, 5}
  BY <1>1
<1>3. \A i \in 1 .. Len(chain) : ~IsLookup(chain[i])
  BY <1>1, <1>2 DEF IsLookup
<1>4. \A i \in 1 .. Len(chain) : Lists(chain[i]) => i = 5
  BY <1>1, <1>2, OthersDoNotList DEF Lists
<1>5. 4 \in 1 .. 5 - 1 /\ Stores(chain[4])
  BY <1>1 DEF Stores
<1>6. BlobFirst(chain, FALSE)
  BY <1>4, <1>5 DEF BlobFirst
<1>7. NoLock(chain)
  BY <1>1, <1>2 DEF NoLock
<1> QED
  BY <1>1, <1>3, <1>6, <1>7, Zenon DEF IsChain, EndsInCall, chain

\* StreamLayerClientImpl ingests small data, and lists nothing.
LEMMA PublishDataLessThanTwentyMibIsChain == IsChain(PublishDataLessThanTwentyMib)
<1> DEFINE chain == PublishDataLessThanTwentyMib
<1>1. /\ chain \in Seq(Stages) /\ Len(chain) = 6 /\ chain # <<>>
      /\ chain[1].do = "lock" /\ chain[2].do = "init" /\ chain[3].do = "catalog"
      /\ chain[4].do = "unlock" /\ chain[5].do = "layer" /\ chain[6].do = "call"
      /\ chain[6].call = IngestData
  BY StagesAreTyped, StageKinds, CallsAreTyped DEF Statuses, PublishDataLessThanTwentyMib
<1> HIDE DEF chain
<1>2. \A i \in 1 .. Len(chain) : i \in {1, 2, 3, 4, 5, 6}
  BY <1>1
<1>3. \A i \in 1 .. Len(chain) : ~IsLookup(chain[i])
  BY <1>1, <1>2 DEF IsLookup
<1>4. \A i \in 1 .. Len(chain) : ~Lists(chain[i])
  BY <1>1, <1>2, OthersDoNotList DEF Lists
<1> QED
  BY <1>1, <1>3, <1>4, NothingListed, Zenon DEF IsChain, EndsInCall, chain

\* StreamLayerClientImpl::PublishSdii ingests, and lists nothing.
LEMMA PublishSdiiIsChain == IsChain(PublishSdii)
<1> DEFINE chain == PublishSdii
<1>1. /\ chain \in Seq(Stages) /\ Len(chain) = 4 /\ chain # <<>>
      /\ chain[1].do = "lock" /\ chain[2].do = "init" /\ chain[3].do = "unlock"
      /\ chain[4].do = "call" /\ chain[4].call = IngestSDII
  BY StagesAreTyped, StageKinds, CallsAreTyped DEF Statuses, PublishSdii
<1> HIDE DEF chain
<1>2. \A i \in 1 .. Len(chain) : i \in {1, 2, 3, 4}
  BY <1>1
<1>3. \A i \in 1 .. Len(chain) : ~IsLookup(chain[i])
  BY <1>1, <1>2 DEF IsLookup
<1>4. \A i \in 1 .. Len(chain) : ~Lists(chain[i])
  BY <1>1, <1>2, OthersDoNotList DEF Lists
<1> QED
  BY <1>1, <1>3, <1>4, NothingListed, Zenon DEF IsChain, EndsInCall, chain

\* StreamLayerClientImpl stores large data as a blob, then lists it.
LEMMA PublishDataGreaterThanTwentyMibIsChain == IsChain(PublishDataGreaterThanTwentyMib)
<1> DEFINE chain == PublishDataGreaterThanTwentyMib
<1>1. /\ chain \in Seq(Stages) /\ Len(chain) = 10 /\ chain # <<>>
      /\ chain[1].do = "lock" /\ chain[2].do = "init" /\ chain[3].do = "init_greater"
      /\ chain[4].do = "catalog" /\ chain[5].do = "unlock" /\ chain[6].do = "call"
      /\ chain[6].call = InitPublication /\ chain[7].do = "layer" /\ chain[8].do = "call"
      /\ chain[8].call = PutBlob /\ chain[9].do = "call" /\ chain[9].call = UploadPartitions
      /\ chain[10].do = "call" /\ chain[10].call = SubmitPublication
  <2>1. /\ InitPublishDataGreaterThanTwentyMib \in Seq(Stages)
        /\ <<InvokeUnclear(InitPublication, {200}), FindContentTypeForLayerId,
              Invoke(PutBlob), Invoke(UploadPartitions), Invoke(SubmitPublication)>> \in Seq(Stages)
    BY StagesAreTyped, CallsAreTyped DEF Statuses, InitPublishDataGreaterThanTwentyMib
  <2>2. chain \in Seq(Stages)
    BY <2>1, ConcatProperties, ZenonT(30) DEF PublishDataGreaterThanTwentyMib
  <2>3. /\ Len(chain) = 10 /\ chain # <<>>
        /\ chain[1].do = "lock" /\ chain[2].do = "init" /\ chain[3].do = "init_greater"
        /\ chain[4].do = "catalog" /\ chain[5].do = "unlock" /\ chain[6].do = "call"
        /\ chain[6].call = InitPublication /\ chain[7].do = "layer" /\ chain[8].do = "call"
        /\ chain[8].call = PutBlob /\ chain[9].do = "call" /\ chain[9].call = UploadPartitions
        /\ chain[10].do = "call" /\ chain[10].call = SubmitPublication
    BY StageKinds DEF PublishDataGreaterThanTwentyMib,
          InitPublishDataGreaterThanTwentyMib
  <2> QED
    BY <2>2, <2>3
<1> HIDE DEF chain
<1>2. \A i \in 1 .. Len(chain) : i \in {1, 2, 3, 4, 5, 6, 7, 8, 9, 10}
  BY <1>1
<1>3. \A i \in 1 .. Len(chain) : ~IsLookup(chain[i])
  BY <1>1, <1>2 DEF IsLookup
<1>4. \A i \in 1 .. Len(chain) : Lists(chain[i]) => i = 9
  BY <1>1, <1>2, OthersDoNotList DEF Lists
<1>5. 8 \in 1 .. 9 - 1 /\ Stores(chain[8])
  BY <1>1 DEF Stores
<1>6. BlobFirst(chain, FALSE)
  BY <1>4, <1>5 DEF BlobFirst
<1> QED
  BY <1>1, <1>3, <1>6, Zenon DEF IsChain, EndsInCall, chain

\* Every operation of every client is such a chain.
LEMMA ChainsAreSound ==
    ASSUME NEW class \in DOMAIN Operations, NEW chain \in Operations[class]
    PROVE  IsChain(chain) /\ (class # "stream" => NoLock(chain))
<1>1. class \in {"versioned", "volatile", "index", "stream"}
  BY DEF Operations
<1>2. IF class = "stream"
      THEN chain \in {PublishDataLessThanTwentyMib, PublishDataGreaterThanTwentyMib,
                      PublishSdii}
      ELSE chain \in {StartBatch, GetBaseVersion, GetBatch, CompleteBatch, CancelBatch,
                      CheckDataExists, DeleteIndexData, UpdateIndex, PublishToBatch,
                      PublishPartitionData, VolatilePublishToBatch, PublishIndex}
  BY <1>1 DEF Operations, VersionedLayerClient, VolatileLayerClient, IndexLayerClient,
     StreamLayerClient, VolatileStartBatch, VolatileGetBaseVersion, VolatileGetBatch,
     VolatileCompleteBatch
<1> QED
  BY <1>2, ShortChains, PublishToBatchIsChain, PublishPartitionDataIsChain,
     VolatilePublishToBatchIsChain, PublishIndexIsChain,
     PublishDataLessThanTwentyMibIsChain, PublishDataGreaterThanTwentyMibIsChain,
     PublishSdiiIsChain, Zenon

\* The services that the clients look up.
LEMMA LookupsAreTyped ==
    /\ \A class \in DOMAIN Operations :
          Lookups[class] \in Seq(Services) /\ Lookups[class] # <<>>
    /\ \A services \in {StreamLookups, GreaterThanTwentyMibLookups} :
          services \in Seq(Services) /\ services # <<>>
<1>1. {VersionedLookups, VolatileLookups, IndexLookups, StreamLookups,
       GreaterThanTwentyMibLookups} \subseteq Seq(Services) \ {<<>>}
  BY DEF VersionedLookups, VolatileLookups, IndexLookups, StreamLookups,
         GreaterThanTwentyMibLookups, Services
<1> QED
  BY <1>1, SMTT(30) DEF Lookups, Operations

-----------------------------------------------------------------------------
(* What becomes of a record of op. *)

\* Nothing is left of the operation, or what was left is unchanged.
LEMMA Same ==
    ASSUME NEW r, NEW n, NEW class, Sound(r, class), ~Ended(r.pc), ~Ended(n.pc), IsRecord(n),
           n.todo = r.todo, n.answers = r.answers, n.chain = r.chain, n.stored = r.stored,
           n.pc = "await" => r.todo[1].do \in {"lookup", "call", "catalog"},
           n.pc = "begin" => r.todo[1].do = "init",
           n.pc = "locking" => r.todo[1].do = "lock"
    PROVE  Sound(n, class)
<1>1. r.pc # "done"
  BY DEF Ended
<1> QED
  BY <1>1, Zenon DEF Sound

\* An operation that answers has answered once, and has no stage left.
LEMMA Ends ==
    ASSUME NEW r, NEW n, NEW class, Sound(r, class), r.pc # "done", IsRecord(n),
           n.pc = "done", n.todo = <<>>, \E x : n.answers = Append(r.answers, x)
    PROVE  Sound(n, class)
<1>0. PICK x : n.answers = Append(r.answers, x)
  OBVIOUS
<1>1. r.answers = <<>>
  BY Zenon DEF Sound
<1>2. Append(<<>>, x) = <<x>>
  OBVIOUS
<1>3. n.answers = <<x>>
  BY <1>0, <1>1, <1>2, Zenon
<1>4. /\ <<>> \in Seq(Stages) /\ 1 .. Len(<<>>) = {}
  OBVIOUS
<1>5. /\ n.todo \in Seq(Stages) /\ BlobFirst(n.todo, n.stored)
      /\ NoLock(n.todo) /\ \A service : LookupsLead(n.todo, service)
  BY <1>4, Zenon DEF BlobFirst, LookupsLead, NoLock
<1>6. Ended(n.pc)
  BY DEF Ended
<1> QED
  BY <1>3, <1>5, <1>6 DEF Sound

\* An operation whose first stage is done stays sound.
LEMMA Pops ==
    ASSUME NEW r, NEW n, NEW class, Sound(r, class), ~Ended(r.pc), IsRecord(n),
           n.pc \in {"running", "resume"}, n.todo = Tail(r.todo), n.answers = r.answers,
           n.chain = r.chain, r.todo[1].do # "call" \/ Len(r.todo) # 1,
           r.stored = TRUE => n.stored = TRUE, Stores(r.todo[1]) => n.stored = TRUE
    PROVE  Sound(n, class)
<1>1. /\ r.todo \in Seq(Stages) /\ EndsInCall(r.todo) /\ r.todo # <<>> /\ r.answers = <<>>
      /\ r.chain = VolatilePublishToBatch \/ BlobFirst(r.todo, r.stored)
      /\ class # "stream" => LookupsLead(r.todo, LastOf(Lookups[class])) /\ NoLock(r.todo)
  BY DEF Sound, EndsInCall, Ended
<1>2. n.todo \in Seq(Stages) /\ EndsInCall(n.todo)
  BY <1>1, RestEndsInCall, Rest
<1>3. n.chain = VolatilePublishToBatch \/ BlobFirst(n.todo, n.stored)
  BY <1>1, RestIsBlobFirst, ZenonT(30)
<1>4. class # "stream" => LookupsLead(n.todo, LastOf(Lookups[class])) /\ NoLock(n.todo)
  BY <1>1, RestLeads, RestHasNoLock, Zenon
<1>5. ~Ended(n.pc) /\ n.pc # "await" /\ n.pc # "begin" /\ n.pc # "locking"
  BY DEF Ended
<1> QED
  BY <1>1, <1>2, <1>3, <1>4, <1>5 DEF Sound

\* An operation that begins an initialisation has lookups to make.
LEMMA Initialises ==
    ASSUME NEW r, NEW n, NEW class, Sound(r, class), ~Ended(r.pc), IsRecord(n),
           n.pc = "running", r.todo[1].do \notin {"call", "lookup"},
           NEW services \in Seq(Services), services # <<>>,
           n.todo = ToLookups(services) \o Tail(r.todo),
           n.answers = r.answers, n.chain = r.chain, n.stored = r.stored,
           class # "stream" => services = Lookups[class]
    PROVE  Sound(n, class) /\ HasLookup(n.todo)
<1>1. /\ r.todo \in Seq(Stages) /\ EndsInCall(r.todo) /\ r.answers = <<>>
      /\ r.chain = VolatilePublishToBatch \/ BlobFirst(r.todo, r.stored)
      /\ class # "stream" => LookupsLead(r.todo, LastOf(Lookups[class])) /\ NoLock(r.todo)
  BY DEF Sound, Ended
<1>2. /\ n.todo \in Seq(Stages) /\ EndsInCall(n.todo) /\ HasLookup(n.todo)
      /\ NoLock(r.todo) => NoLock(n.todo)
      /\ \A stored : BlobFirst(r.todo, stored) => BlobFirst(n.todo, stored)
      /\ \A service : LookupsLead(r.todo, service) => LookupsLead(n.todo, LastOf(services))
  BY <1>1, Prepended
<1>3. ~Ended(n.pc) /\ n.pc \notin {"await", "begin", "locking", "done"}
  BY DEF Ended
<1> QED
  BY <1>1, <1>2, <1>3, Zenon DEF Sound

\* A change of the other fields does not matter.
LEMMA Touched ==
    ASSUME NEW r, NEW n, NEW class, Sound(r, class), IsRecord(n), n.pc = r.pc,
           n.todo = r.todo, n.answers = r.answers, n.chain = r.chain, n.stored = r.stored
    PROVE  Sound(n, class)
BY Zenon DEF Sound

\* The fields of the records that the steps build.
IsAnswer(o, n) ==
  /\ IsRecord(n) /\ n.pc = "done" /\ n.todo = <<>> /\ n.cancelled = op[o].cancelled
  /\ \E response : n.answers = Append(op[o].answers, response)

\* The record of an operation that has called back, however it did.
LEMMA AnsweredIs ==
    ASSUME NEW o, NEW response, NEW x
    PROVE  /\ IsAnswer(o, Answered(o, response))
           /\ IsAnswer(o, [Answered(o, response) EXCEPT !.returned = x])
           /\ IsAnswer(o, [Answered(o, response) EXCEPT !.genuine = x])
BY ZenonT(30) DEF IsAnswer, Answered, Idle, IsRecord, Fields

\* The record of an operation whose first stage is done.
LEMMA PopIs ==
    ASSUME NEW o, IsRecord(op[o]), NEW label, NEW n,
           n = Pop(o, label) \/ (label = "running" /\ n = PopNested(o))
    PROVE  /\ IsRecord(n) /\ n.pc = label /\ n.todo = Tail(op[o].todo)
           /\ n.answers = op[o].answers /\ n.cancelled = op[o].cancelled
           /\ n.chain = op[o].chain /\ n.stored = op[o].stored
BY ZenonT(30) DEF Pop, PopNested, IsRecord, Fields

\* The record of an operation that is elsewhere in the code.
LEMMA PcIs ==
    ASSUME NEW o, IsRecord(op[o]), NEW label
    PROVE  LET n == [op[o] EXCEPT !.pc = label]
           IN  /\ IsRecord(n) /\ n.pc = label /\ n.todo = op[o].todo
               /\ n.answers = op[o].answers /\ n.cancelled = op[o].cancelled
               /\ n.chain = op[o].chain /\ n.stored = op[o].stored
BY Zenon DEF IsRecord, Fields

-----------------------------------------------------------------------------
(* The steps. *)

\* The flag still has an owner when o becomes n.
Owned(o, n) ==
  Sequential /\ init_in_progress_' =>
    \/ HasLookup(n.todo) \/ n.cancelled # "no" \/ wedged'
    \/ /\ init_in_progress_ /\ ~wedged
       /\ ~HasLookup(op[o].todo) /\ op[o].cancelled = "no"

\* A step of one operation keeps the invariant when it leaves the operation
\* sound and the flag owned.
LEMMA StepKeeps ==
    ASSUME Inv, NEW o \in Ops, NEW n, Set(o, n), client' = client,
           Sound(n, client), Owned(o, n)
    PROVE  Inv'
<1>1. /\ op' = [p \in Ops |-> op'[p]] /\ op'[o] = n
      /\ \A p \in Ops : p # o => op'[p] = op[p]
  BY DEF Inv, Set
<1>2. client' \in DOMAIN Operations /\ \A p \in Ops : Sound(op'[p], client')
  BY <1>1 DEF Inv
<1>3. ASSUME Sequential, init_in_progress_'
      PROVE  \/ \E p \in Ops : HasLookup(op'[p].todo)
             \/ \E p \in Ops : op'[p].cancelled # "no"
             \/ wedged'
  <2>1. CASE HasLookup(n.todo) \/ n.cancelled # "no" \/ wedged'
    BY <1>1, <2>1, Zenon
  <2>2. CASE /\ init_in_progress_ /\ ~wedged
             /\ ~HasLookup(op[o].todo) /\ op[o].cancelled = "no"
    <3>1. \/ \E p \in Ops : HasLookup(op[p].todo)
          \/ \E p \in Ops : op[p].cancelled # "no"
      BY <1>3, <2>2, Zenon DEF Inv, FlagIsOwned, HasLookup
    <3> QED
      BY <1>1, <2>2, <3>1, Zenon
  <2> QED
    BY <1>3, <2>1, <2>2, Zenon DEF Owned
<1>4. FlagIsOwned'
  BY <1>3, Zenon DEF FlagIsOwned, HasLookup, Sequential
<1> QED
  BY <1>1, <1>2, <1>4 DEF Inv

\* What a step of the operation o may rely on.
LEMMA OfInv ==
    ASSUME Inv, NEW o \in Ops
    PROVE  /\ Sound(op[o], client) /\ IsRecord(op[o]) /\ op[o].todo \in Seq(Stages)
           /\ ~Ended(op[o].pc) => EndsInCall(op[o].todo) /\ op[o].todo # <<>>
BY Zenon DEF Inv, Sound, EndsInCall

\* Where the first stage is no lookup, there is none.
LEMMA NoLookup ==
    ASSUME Inv, NEW o \in Ops, Sequential, Stage(o).do # "lookup"
    PROVE  ~HasLookup(op[o].todo)
<1>1. op[o].todo \in Seq(Stages) /\ LookupsLead(op[o].todo, LastOf(Lookups[client]))
  BY Zenon DEF Inv, Sound, Sequential
<1>2. DOMAIN op[o].todo = 1 .. Len(op[o].todo) /\ Len(op[o].todo) \in Nat
  BY <1>1, LenProperties
<1>3. \A i \in 1 .. Len(op[o].todo) : 1 \in 1 .. i
  BY <1>2
<1> QED
  BY <1>1, <1>2, <1>3, Zenon DEF LookupsLead, HasLookup, IsLookup, Stage

\* A step that leaves the flag, the stages and the cancellation alone.
LEMMA QuietlyOwned ==
    ASSUME Inv, NEW o \in Ops, NEW n, init_in_progress_' => init_in_progress_,
           wedged => wedged', n.cancelled = "no" => op[o].cancelled = "no",
           Sequential => (HasLookup(op[o].todo) => HasLookup(n.todo))
    PROVE  Owned(o, n)
BY Zenon DEF Owned

\* A stage that is neither a lookup nor a call is done.
LEMMA PopKeeps ==
    ASSUME Inv, NEW o \in Ops, ~Ended(op[o].pc), Stage(o).do \notin {"lookup", "call"},
           NEW label \in {"running", "resume"}, client' = client,
           Set(o, Pop(o, label)) \/ (label = "running" /\ Set(o, PopNested(o))),
           Sequential => (init_in_progress_' => init_in_progress_), wedged' = wedged
    PROVE  Inv'
<1>0. PICK n : /\ Set(o, n)
               /\ n = Pop(o, label) \/ (label = "running" /\ n = PopNested(o))
  OBVIOUS
<1>1. /\ Set(o, n) /\ IsRecord(n) /\ n.pc = label /\ n.todo = Tail(op[o].todo)
      /\ n.answers = op[o].answers /\ n.cancelled = op[o].cancelled
      /\ n.chain = op[o].chain /\ n.stored = op[o].stored
  <2>1. IsRecord(op[o])
    BY OfInv
  <2> QED
    BY <1>0, <2>1, PopIs
<1>2. Sound(n, client)
  BY <1>1, OfInv, Pops, Zenon DEF Stores, Stage
<1>3. Owned(o, n)
  BY <1>1, NoLookup, Zenon DEF Owned
<1> QED
  BY <1>1, <1>2, <1>3, StepKeeps, Zenon

\* The operation ends with an answer; its lookups, if there are any, lower the
\* flag or the operation has been cancelled.
LEMMA AnswerKeeps ==
    ASSUME Inv, NEW o \in Ops, op[o].pc # "done", client' = client, wedged' = wedged,
           NEW n, IsAnswer(o, n), Set(o, n),
           Sequential =>
             \/ ~init_in_progress_' \/ op[o].cancelled # "no" \/ wedged
             \/ init_in_progress_ /\ ~HasLookup(op[o].todo)
    PROVE  Inv'
<1>1. Sound(op[o], client)
  BY OfInv
<1>2. Sound(n, client)
  BY <1>1, Ends, Zenon DEF IsAnswer
<1>3. Owned(o, n)
  BY Zenon DEF Owned, IsAnswer
<1> QED
  BY <1>2, <1>3, StepKeeps, Zenon

\* The operation only gets another label.
LEMMA LabelKeeps ==
    ASSUME Inv, NEW o \in Ops, ~Ended(op[o].pc), client' = client, NEW label,
           ~Ended(label), label # "await", label = "begin" => Stage(o).do = "init",
           label = "locking" => Stage(o).do = "lock",
           Set(o, [op[o] EXCEPT !.pc = label]),
           init_in_progress_' => init_in_progress_, wedged => wedged'
    PROVE  Inv'
<1>0. PICK n : n = [op[o] EXCEPT !.pc = label]
  OBVIOUS
<1>1. /\ Set(o, n) /\ IsRecord(n) /\ n.pc = label /\ n.todo = op[o].todo
      /\ n.answers = op[o].answers /\ n.cancelled = op[o].cancelled
      /\ n.chain = op[o].chain /\ n.stored = op[o].stored
  <2>1. IsRecord(op[o])
    BY OfInv
  <2> QED
    BY <1>0, <2>1, PcIs
<1>2. Sound(n, client)
  BY <1>1, OfInv, Same, Zenon DEF Stage
<1>3. Owned(o, n)
  BY <1>1, QuietlyOwned, Zenon
<1> QED
  BY <1>1, <1>2, <1>3, StepKeeps, Zenon

\* A call of the application keeps the invariant: it is refused at once or
\* starts its chain.
LEMMA StartKeeps ==
    ASSUME Inv, NEW o \in Ops, Start(o)
    PROVE  Inv'
<1>1. op[o].pc = "idle" /\ UNCHANGED <<client, init_in_progress_, wedged>>
  BY DEF Start, Done
<1>2. client \in DOMAIN Operations /\ Sound(op[o], client)
  BY DEF Inv
<1>3. op[o].todo = <<>> /\ op[o].answers = <<>> /\ IsRecord(op[o]) /\ op[o].pc # "done"
  BY <1>1, <1>2 DEF Sound, Ended
<1>4. ~HasLookup(op[o].todo)
  BY <1>3 DEF HasLookup
<1>5. CASE Set(o, [Answered(o, "error") EXCEPT !.returned = TRUE])
  BY <1>1, <1>3, <1>4, <1>5, AnsweredIs, AnswerKeeps, Zenon
<1>6. ASSUME NEW chain \in Operations[client],
             Set(o, [op[o] EXCEPT !.pc = "running", !.chain = chain, !.todo = chain])
      PROVE  Inv'
  <2>0. PICK n : n = [op[o] EXCEPT !.pc = "running", !.chain = chain, !.todo = chain]
    OBVIOUS
  <2>1. /\ Set(o, n) /\ IsRecord(n) /\ n.pc = "running" /\ n.todo = chain
        /\ n.chain = chain /\ n.answers = op[o].answers
        /\ n.cancelled = op[o].cancelled
    BY <1>3, <1>6, <2>0, Zenon DEF IsRecord, Fields
  <2>2. IsChain(chain) /\ (client # "stream" => NoLock(chain))
    BY <1>2, <1>6, ChainsAreSound
  <2>3. /\ chain \in Seq(Stages) /\ EndsInCall(chain)
        /\ \A service : LookupsLead(chain, service)
        /\ chain = VolatilePublishToBatch \/ BlobFirst(chain, n.stored)
    BY <2>2, Zenon DEF IsChain, LookupsLead, BlobFirst
  <2>4. ~Ended(n.pc) /\ n.pc \notin {"await", "begin", "locking", "done"}
    BY <2>1 DEF Ended
  <2>5. Sound(n, client)
    BY <1>3, <2>1, <2>2, <2>3, <2>4, Zenon DEF Sound
  <2>6. Owned(o, n)
    BY <1>1, <1>4, <2>1, QuietlyOwned, Zenon
  <2> QED
    BY <1>1, <2>1, <2>5, <2>6, StepKeeps, Zenon
<1> QED
  BY <1>5, <1>6, Zenon DEF Start

\* The records that cancelling and returning leave.
LEMMA TouchedIs ==
    ASSUME NEW o, IsRecord(op[o]), NEW n,
           \/ n = [op[o] EXCEPT !.returned = TRUE]
           \/ n = [op[o] EXCEPT !.cancelled = "yes"]
           \/ n = CancelOf(o)
    PROVE  /\ IsRecord(n) /\ n.pc = op[o].pc /\ n.todo = op[o].todo
           /\ n.answers = op[o].answers /\ n.chain = op[o].chain
           /\ n.stored = op[o].stored /\ (n.cancelled = "no" => op[o].cancelled = "no")
<1>1. CASE n = [op[o] EXCEPT !.returned = TRUE]
  BY <1>1, Zenon DEF IsRecord, Fields
<1>2. CASE n = [op[o] EXCEPT !.cancelled = "yes"]
  <2>1. "yes" # "no"
    OBVIOUS
  <2> QED
    BY <1>2, <2>1, Zenon DEF IsRecord, Fields
<1>3. CASE n = CancelOf(o)
  <2>1. CASE n = op[o]
    BY <2>1
  <2>2. ASSUME op[o].cancelled = "no", NEW x, NEW y,
               n = [op[o] EXCEPT !.cancelled = x, !.asked = y, !.token = FALSE]
        PROVE  /\ IsRecord(n) /\ n.pc = op[o].pc /\ n.todo = op[o].todo
               /\ n.answers = op[o].answers /\ n.chain = op[o].chain
               /\ n.stored = op[o].stored
    BY <2>2, Zenon DEF IsRecord, Fields
  <2> QED
    BY <1>3, <2>1, <2>2, Zenon DEF CancelOf
<1> QED
  BY <1>1, <1>2, <1>3

\* Returning the token and cancelling keep the invariant.
LEMMA AddTaskKeeps ==
    ASSUME Inv, NEW o \in Ops, AddTask(o) \/ CancelOperation(o) \/ NotifyAfterCancel(o)
    PROVE  Inv'
<1>1. PICK n : /\ Set(o, n)
               /\ \/ n = [op[o] EXCEPT !.returned = TRUE]
                  \/ n = [op[o] EXCEPT !.cancelled = "yes"]
                  \/ n = CancelOf(o)
  BY Zenon DEF AddTask, CancelOperation, NotifyAfterCancel
<1>2. /\ IsRecord(n) /\ n.pc = op[o].pc /\ n.todo = op[o].todo
      /\ n.answers = op[o].answers /\ n.chain = op[o].chain
      /\ n.stored = op[o].stored /\ (n.cancelled = "no" => op[o].cancelled = "no")
  BY <1>1, OfInv, TouchedIs, Zenon
<1>3. client' = client /\ wedged' = wedged
  BY Zenon DEF AddTask, CancelOperation, NotifyAfterCancel
<1>4. init_in_progress_' => init_in_progress_
  BY Zenon DEF AddTask, CancelOperation, NotifyAfterCancel
<1>5. Sound(n, client)
  BY <1>2, OfInv, Touched, Zenon
<1>6. Owned(o, n)
  BY <1>2, <1>3, <1>4, QuietlyOwned, Zenon
<1> QED
  BY <1>1, <1>3, <1>5, <1>6, StepKeeps, Zenon

\* The look at the flag and the URL keeps it.
LEMMA CheckInitKeeps ==
    ASSUME Inv, NEW o \in Ops, CheckInit(o)
    PROVE  Inv'
<1>1. /\ op[o].pc = "running" /\ Stage(o).do = "init"
      /\ UNCHANGED <<client, init_in_progress_, wedged>>
  BY DEF CheckInit, Done
<1>2. /\ ~Ended(op[o].pc) /\ ~Ended("waiting") /\ ~Ended("begin")
      /\ "waiting" \notin {"begin", "locking"} /\ "begin" # "locking"
  BY <1>1 DEF Ended
<1>3. CASE Set(o, [op[o] EXCEPT !.pc = "waiting"])
  BY <1>1, <1>2, <1>3, LabelKeeps
<1>4. CASE Set(o, PopNested(o))
  BY <1>1, <1>2, <1>4, PopKeeps
<1>5. CASE Set(o, [op[o] EXCEPT !.pc = "begin"])
  BY <1>1, <1>2, <1>5, LabelKeeps
<1> QED
  BY <1>3, <1>4, <1>5, Zenon DEF CheckInit

\* The first initialiser raises the flag and has the lookups to make.
LEMMA BeginInitKeeps ==
    ASSUME Inv, NEW o \in Ops, BeginInit(o)
    PROVE  Inv'
<1>1. /\ op[o].pc = "begin" /\ client' = client
      /\ Set(o, [op[o] EXCEPT !.pc = "running",
                              !.todo = ToLookups(Lookups[client]) \o Tail(@)])
  BY DEF BeginInit, Done
<1>2. ~Ended(op[o].pc) /\ Stage(o).do = "init"
  BY <1>1, OfInv DEF Ended, Sound, Stage
<1>3. PICK n : n = [op[o] EXCEPT !.pc = "running",
                                 !.todo = ToLookups(Lookups[client]) \o Tail(@)]
  OBVIOUS
<1>4. /\ IsRecord(n) /\ n.pc = "running" /\ n.answers = op[o].answers
      /\ n.chain = op[o].chain /\ n.stored = op[o].stored
      /\ n.todo = ToLookups(Lookups[client]) \o Tail(op[o].todo)
  BY <1>3, OfInv, Zenon DEF IsRecord, Fields
<1>5. Lookups[client] \in Seq(Services) /\ Lookups[client] # <<>>
  BY LookupsAreTyped DEF Inv
<1>6. Sound(n, client) /\ HasLookup(n.todo)
  BY <1>2, <1>4, <1>5, OfInv, Initialises, Zenon DEF Stage
<1>7. Owned(o, n)
  BY <1>6, Zenon DEF Owned
<1> QED
  BY <1>1, <1>3, <1>6, <1>7, StepKeeps, Zenon

\* Waiting for another initialiser keeps it, also when it throws or hangs.
LEMMA WaitForInitKeeps ==
    ASSUME Inv, NEW o \in Ops, WaitForInit(o)
    PROVE  Inv'
<1>1. /\ op[o].pc = "waiting" /\ client' = client
      /\ init_in_progress_' => init_in_progress_
  BY Zenon DEF WaitForInit, Done
<1>2. wedged => wedged'
  BY Zenon DEF WaitForInit
<1>3. /\ ~Ended(op[o].pc) /\ ~Ended("threw") /\ ~Ended("running") /\ ~Ended("hung")
      /\ \A label \in {"threw", "running", "hung"} : label \notin {"await", "begin", "locking"}
  BY <1>1 DEF Ended
<1>4. PICK label \in {"threw", "running", "hung"} : Set(o, [op[o] EXCEPT !.pc = label])
  BY Zenon DEF WaitForInit
<1> QED
  BY <1>1, <1>2, <1>3, <1>4, LabelKeeps, Zenon

\* The initialisations of the stream client keep it.
LEMMA StreamInitKeeps ==
    ASSUME Inv, NEW o \in Ops, StreamInit(o)
    PROVE  Inv'
<1>1. /\ op[o].pc = "running" /\ ~Sequential /\ client' = client /\ wedged' = wedged
      /\ client = "stream"
  BY DEF StreamInit, Done, Sequential
<1>2. PICK services \in {StreamLookups, GreaterThanTwentyMibLookups} :
        /\ Stage(o).do \in {"init", "init_greater"}
        /\ \/ Set(o, PopNested(o))
           \/ Set(o, [op[o] EXCEPT !.todo = ToLookups(services) \o Tail(@)])
  BY Zenon DEF StreamInit
<1>3. ~Ended(op[o].pc)
  BY <1>1 DEF Ended
<1>4. CASE Set(o, PopNested(o))
  BY <1>1, <1>2, <1>3, <1>4, PopKeeps
<1>5. CASE Set(o, [op[o] EXCEPT !.todo = ToLookups(services) \o Tail(@)])
  <2>1. PICK n : n = [op[o] EXCEPT !.todo = ToLookups(services) \o Tail(@)]
    BY Zenon
  <2>2. /\ IsRecord(n) /\ n.pc = op[o].pc /\ n.answers = op[o].answers
        /\ n.chain = op[o].chain /\ n.stored = op[o].stored
        /\ n.todo = ToLookups(services) \o Tail(op[o].todo)
    BY <2>1, OfInv, Zenon DEF IsRecord, Fields
  <2>3. services \in Seq(Services) /\ services # <<>>
    BY LookupsAreTyped
  <2>4. Stage(o).do \notin {"call", "lookup"}
    BY <1>2
  <2>5. Sound(n, client)
    BY <1>1, <1>3, <2>2, <2>3, <2>4, OfInv, Initialises, Zenon DEF Stage
  <2>6. Owned(o, n)
    BY <1>1, Zenon DEF Owned
  <2> QED
    BY <1>1, <1>5, <2>1, <2>5, <2>6, StepKeeps, Zenon
<1> QED
  BY <1>2, <1>4, <1>5, Zenon

\* AquireInitLock keeps it.
LEMMA LockKeeps ==
    ASSUME Inv, NEW o \in Ops, Lock(o)
    PROVE  Inv'
<1>1. /\ op[o].pc = "running" /\ Stage(o).do = "lock"
      /\ UNCHANGED <<client, init_in_progress_, wedged>>
  BY DEF Lock, Done
<1>2. /\ ~Ended(op[o].pc) /\ ~Ended("locking")
      /\ Stage(o).do \notin {"lookup", "call"} /\ "locking" \notin {"await", "begin"}
  BY <1>1 DEF Ended
<1>3. CASE Set(o, [op[o] EXCEPT !.pc = "locking"])
  BY <1>1, <1>2, <1>3, LabelKeeps
<1>4. CASE Set(o, Pop(o, "running"))
  BY <1>1, <1>2, <1>4, PopKeeps
<1> QED
  BY <1>3, <1>4, Zenon DEF Lock

\* Only the stream client waits for its lock.
LEMMA LockedKeeps ==
    ASSUME Inv, NEW o \in Ops, Locked(o)
    PROVE  Inv'
<1>1. /\ op[o].pc = "locking" /\ client' = client /\ wedged' = wedged
      /\ Set(o, Pop(o, "running"))
  BY DEF Locked, Done
<1>2. ~Ended(op[o].pc) /\ Stage(o).do = "lock"
  BY <1>1, OfInv DEF Ended, Sound, Stage
<1>3. ~Sequential
  <2>1. Len(op[o].todo) \in Nat \ {0}
    BY <1>2, OfInv, EmptySeq
  <2>2. 1 \in 1 .. Len(op[o].todo)
    BY <2>1
  <2> QED
    BY <1>2, <2>2, OfInv, Zenon DEF Sound, NoLock, Stage, Sequential
<1> QED
  BY <1>1, <1>2, <1>3, PopKeeps

\* NotifyInitCompleted keeps it.
LEMMA UnlockKeeps ==
    ASSUME Inv, NEW o \in Ops, Unlock(o)
    PROVE  Inv'
<1>1. /\ op[o].pc \in {"running", "resume"} /\ Stage(o).do = "unlock"
      /\ client' = client /\ wedged' = wedged /\ Set(o, Pop(o, op[o].pc))
  BY DEF Unlock
<1>2. ~init_in_progress_'
  BY Zenon DEF Unlock
<1>3. ~Ended(op[o].pc) /\ Stage(o).do \notin {"lookup", "call"}
  BY <1>1 DEF Ended
<1> QED
  BY <1>1, <1>2, <1>3, PopKeeps, Zenon

\* A known catalog keeps it.
LEMMA KnownCatalogKeeps ==
    ASSUME Inv, NEW o \in Ops, KnownCatalog(o)
    PROVE  Inv'
<1>1. /\ op[o].pc = "running" /\ Stage(o).do = "catalog" /\ Set(o, PopNested(o))
      /\ UNCHANGED <<client, init_in_progress_, wedged>>
  BY DEF KnownCatalog, Done
<1>2. ~Ended(op[o].pc) /\ Stage(o).do \notin {"lookup", "call"}
  BY <1>1 DEF Ended
<1> QED
  BY <1>1, <1>2, PopKeeps

\* The search for the layer keeps it, with or without an answer.
LEMMA FindContentTypeKeeps ==
    ASSUME Inv, NEW o \in Ops, FindContentType(o)
    PROVE  Inv'
<1>1. /\ op[o].pc \in {"running", "resume"} /\ Stage(o).do = "layer"
      /\ UNCHANGED <<client, init_in_progress_, wedged>>
      /\ Set(o, Pop(o, op[o].pc)) \/ Set(o, Answered(o, "error"))
  BY DEF FindContentType, Answer
<1>2. /\ ~Ended(op[o].pc) /\ op[o].pc # "done" /\ Stage(o).do \notin {"lookup", "call"}
      /\ Stage(o).do # "lookup"
  BY <1>1 DEF Ended
<1>3. CASE Set(o, Pop(o, op[o].pc))
  BY <1>1, <1>2, <1>3, PopKeeps, Zenon
<1>4. CASE Set(o, Answered(o, "error"))
  <2>1. Sequential => ~init_in_progress_' \/ (init_in_progress_ /\ ~HasLookup(op[o].todo))
    BY <1>1, <1>2, NoLookup, Zenon
  <2> QED
    BY <1>1, <1>2, <1>4, <2>1, AnsweredIs, AnswerKeeps, Zenon
<1> QED
  BY <1>1, <1>3, <1>4

\* Sending keeps it.
LEMMA SendKeeps ==
    ASSUME Inv, NEW o \in Ops, Send(o)
    PROVE  Inv'
<1>1. /\ op[o].pc = "running" /\ Stage(o).do \in {"lookup", "call", "catalog"}
      /\ UNCHANGED <<client, init_in_progress_, wedged>>
      /\ \E x, y : Set(o, [op[o] EXCEPT !.pc = "await", !.token = x, !.base = y])
  BY Zenon DEF Send, Done
<1>2. PICK x, y : Set(o, [op[o] EXCEPT !.pc = "await", !.token = x, !.base = y])
  BY <1>1, Zenon
<1>3. PICK n : n = [op[o] EXCEPT !.pc = "await", !.token = x, !.base = y]
  OBVIOUS
<1>4. /\ IsRecord(n) /\ n.pc = "await" /\ n.todo = op[o].todo
      /\ n.answers = op[o].answers /\ n.cancelled = op[o].cancelled
      /\ n.chain = op[o].chain /\ n.stored = op[o].stored
  BY <1>3, OfInv, Zenon DEF IsRecord, Fields
<1>5. ~Ended(op[o].pc) /\ ~Ended(n.pc) /\ n.pc # "begin" /\ n.pc # "locking"
  BY <1>1, <1>4 DEF Ended
<1>6. Sound(n, client)
  BY <1>1, <1>4, <1>5, OfInv, Same DEF Stage
<1>7. Owned(o, n)
  BY <1>1, <1>4, QuietlyOwned, Zenon
<1> QED
  BY <1>1, <1>2, <1>3, <1>6, <1>7, StepKeeps, Zenon

\* When a lookup that is not the last one succeeds, another one is left.
LEMMA NextLookup ==
    ASSUME Inv, NEW o \in Ops, Sequential, HasLookup(op[o].todo), ~IsLastLookup(o),
           ~Ended(op[o].pc)
    PROVE  HasLookup(Tail(op[o].todo))
<1>1. PICK todo : todo = op[o].todo
  OBVIOUS
<1>2. /\ todo \in Seq(Stages) /\ todo # <<>>
      /\ LookupsLead(todo, LastOf(Lookups[client]))
  BY <1>1, OfInv, Zenon DEF Sound, Sequential
<1>3. /\ Len(todo) \in Nat \ {0} /\ Len(Tail(todo)) = Len(todo) - 1
      /\ Tail(todo) \in Seq(Stages)
      /\ \A i \in 1 .. Len(todo) - 1 : Tail(todo)[i] = todo[i + 1]
  BY <1>2, Rest
<1>4. todo[1].do = "lookup"
  BY <1>1, NoLookup, Zenon DEF Stage
<1>5. 1 \in 1 .. Len(todo)
  BY <1>3
<1>6. PICK k \in 1 .. Len(todo) :
         todo[k].do = "lookup" /\ todo[k].call.service = LastOf(Lookups[client])
  BY <1>2, <1>4, <1>5, Zenon DEF LookupsLead, IsLookup
<1>7. k # 1
  BY <1>1, <1>4, <1>6, Zenon DEF IsLastLookup, Stage
<1>8. k - 1 \in 1 .. Len(Tail(todo)) /\ Tail(todo)[k - 1] = todo[k]
  BY <1>3, <1>6, <1>7
<1>9. DOMAIN Tail(todo) = 1 .. Len(Tail(todo))
  BY <1>3, LenProperties
<1> QED
  BY <1>1, <1>6, <1>8, <1>9, Zenon DEF HasLookup

\* A response that lets the operation go on keeps it: the last lookup lowers
\* the flag, the others leave a lookup behind.
LEMMA ProceedKeeps ==
    ASSUME Inv, NEW o \in Ops, Proceed(o)
    PROVE  Inv'
<1>1. op[o].pc = "await" /\ client' = client /\ wedged' = wedged
  BY DEF Proceed, Done
<1>2. init_in_progress_' => init_in_progress_ /\ ~IsLastLookup(o)
  BY Zenon DEF Proceed
<1>3. ~Ended(op[o].pc) /\ op[o].pc # "done"
  BY <1>1 DEF Ended
<1>4. /\ op[o].todo \in Seq(Stages) /\ EndsInCall(op[o].todo)
      /\ Stage(o).do \in {"lookup", "call", "catalog"}
  BY <1>1, <1>3, OfInv DEF Sound, Stage
<1>5. PICK g : IF Len(op[o].todo) = 1
               THEN Set(o, [Answered(o, "ok") EXCEPT !.genuine = g])
               ELSE Set(o, [Pop(o, "resume") EXCEPT
                        !.genuine = g, !.stored = @ \/ CallOf(Stage(o)) = PutBlob,
                        !.nested = FALSE, !.token = FALSE, !.asked = FALSE, !.base = "none"])
  BY ZenonT(30) DEF Proceed
<1>6. CASE Len(op[o].todo) = 1
  <2>1. Stage(o).do = "call"
    BY <1>4, <1>6, Zenon DEF EndsInCall, Stage
  <2>2. Sequential => ~HasLookup(op[o].todo)
    BY <2>1, NoLookup
  <2>3. Set(o, [Answered(o, "ok") EXCEPT !.genuine = g])
    BY <1>5, <1>6, Zenon
  <2> QED
    BY <1>1, <1>2, <1>3, <2>2, <2>3, AnsweredIs, AnswerKeeps, Zenon
<1>7. CASE Len(op[o].todo) # 1
  <2>1. PICK n : n = [Pop(o, "resume") EXCEPT
                        !.genuine = g, !.stored = @ \/ CallOf(Stage(o)) = PutBlob,
                        !.nested = FALSE, !.token = FALSE, !.asked = FALSE, !.base = "none"]
    BY Zenon
  <2>2. Set(o, n)
    BY <1>5, <1>7, <2>1, Zenon
  <2>3. /\ IsRecord(n) /\ n.pc = "resume" /\ n.todo = Tail(op[o].todo)
        /\ n.answers = op[o].answers /\ n.cancelled = op[o].cancelled
        /\ n.chain = op[o].chain
        /\ n.stored = (op[o].stored \/ CallOf(Stage(o)) = PutBlob)
    BY <2>1, OfInv, ZenonT(30) DEF Pop, IsRecord, Fields
  <2>4. op[o].stored = TRUE => n.stored = TRUE
    BY <2>3, Zenon
  <2>5. Stores(Stage(o)) => n.stored = TRUE
    <3>1. Stores(Stage(o)) => CallOf(Stage(o)) = PutBlob
      BY DEF Stores, CallOf
    <3> QED
      BY <2>3, <3>1, Zenon
  <2>6. Sound(n, client)
    BY <1>3, <1>7, <2>3, <2>4, <2>5, OfInv, Pops, Zenon DEF Stage
  <2>7. Owned(o, n)
    BY <1>1, <1>2, <1>3, <2>3, NextLookup, Zenon DEF Owned
  <2> QED
    BY <1>1, <2>2, <2>6, <2>7, StepKeeps, Zenon
<1> QED
  BY <1>6, <1>7

\* A failure keeps it: a failed lookup lowers the flag.
LEMMA FailKeeps ==
    ASSUME Inv, NEW o \in Ops, Fail(o)
    PROVE  Inv'
<1>1. /\ op[o].pc # "done" /\ client' = client /\ wedged' = wedged
      /\ Set(o, Answered(o, "error"))
  BY DEF Fail, Done, Answer
<1>2. Sequential /\ init_in_progress_' =>
        init_in_progress_ /\ (Stage(o).do = "lookup" => wedged)
  BY Zenon DEF Fail
<1>3. Sequential => \/ ~init_in_progress_' \/ wedged
                    \/ init_in_progress_ /\ ~HasLookup(op[o].todo)
  BY <1>2, NoLookup, Zenon
<1> QED
  BY <1>1, <1>3, AnsweredIs, AnswerKeeps, Zenon

\* The next ExecuteOrCancelled keeps it.
LEMMA ResumeKeeps ==
    ASSUME Inv, NEW o \in Ops, Resume(o)
    PROVE  Inv'
<1>1. op[o].pc = "resume" /\ client' = client /\ wedged' = wedged
  BY DEF Resume, Done
<1>2. /\ ~Ended(op[o].pc) /\ op[o].pc # "done" /\ ~Ended("running")
      /\ "running" \notin {"await", "begin", "locking"}
  BY <1>1 DEF Ended
<1>3. CASE /\ Set(o, [op[o] EXCEPT !.pc = "running"])
           /\ UNCHANGED init_in_progress_
  BY <1>1, <1>2, <1>3, LabelKeeps, Zenon
<1>4. CASE op[o].cancelled # "no" /\ Set(o, Answered(o, "error"))
  BY <1>1, <1>2, <1>4, AnsweredIs, AnswerKeeps, Zenon
<1> QED
  BY <1>3, <1>4, Zenon DEF Resume, Answer

\* Cancelling every operation keeps it.
LEMMA CancelAllKeeps ==
    ASSUME Inv, CancelAll
    PROVE  Inv'
<1>1. /\ op' = [o \in Ops |-> IF o \in tokenList_ THEN CancelOf(o) ELSE op[o]]
      /\ UNCHANGED <<client, init_in_progress_, wedged>>
  BY DEF CancelAll
<1>2. ASSUME NEW o \in Ops
      PROVE  /\ Sound(op'[o], client) /\ op'[o].todo = op[o].todo
             /\ op'[o].cancelled = "no" => op[o].cancelled = "no"
  <2>1. op'[o] = CancelOf(o) \/ op'[o] = op[o]
    BY <1>1
  <2>2. CASE op'[o] = op[o]
    BY <2>2, OfInv, Zenon
  <2>3. CASE op'[o] = CancelOf(o)
    BY <2>3, OfInv, TouchedIs, Touched
  <2> QED
    BY <2>1, <2>2, <2>3
<1>3. op' = [o \in Ops |-> op'[o]]
  BY <1>1
<1>4. ASSUME Sequential, init_in_progress_'
      PROVE  \/ \E o \in Ops : HasLookup(op'[o].todo)
             \/ \E o \in Ops : op'[o].cancelled # "no"
             \/ wedged'
  <2>1. \/ \E o \in Ops : HasLookup(op[o].todo)
        \/ \E o \in Ops : op[o].cancelled # "no"
        \/ wedged
    BY <1>1, <1>4, Zenon DEF Inv, FlagIsOwned, HasLookup
  <2> QED
    BY <1>1, <1>2, <2>1, Zenon
<1>5. FlagIsOwned'
  BY <1>1, <1>4, Zenon DEF FlagIsOwned, HasLookup, Sequential
<1> QED
  BY <1>1, <1>2, <1>3, <1>5, Zenon DEF Inv

\* The invariant holds when the clients have just been constructed.
LEMMA InvInit ==
    Init => Inv
<1> SUFFICES ASSUME Init
             PROVE  Inv
  OBVIOUS
<1>1. /\ client \in DOMAIN Operations /\ op = [o \in Ops |-> Idle]
  BY DEF Init
<1>2. ~init_in_progress_
  BY Zenon DEF Init
<1>3. /\ IsRecord(Idle) /\ Idle.pc = "idle" /\ Idle.todo = <<>> /\ Idle.answers = <<>>
  BY Zenon DEF IsRecord, Idle, Fields
<1>4. <<>> \in Seq(Stages) /\ 1 .. Len(<<>>) = {} /\ Ended("idle")
  BY DEF Ended
<1>5. /\ BlobFirst(<<>>, Idle.stored) /\ NoLock(<<>>)
      /\ \A service : LookupsLead(<<>>, service)
  BY <1>4, Zenon DEF BlobFirst, NoLock, LookupsLead
<1>6. Idle.pc \notin {"done", "await", "begin", "locking"}
  BY <1>3
<1>7. Sound(Idle, client)
  BY <1>3, <1>4, <1>5, <1>6, Zenon DEF Sound
<1>8. op = [o \in Ops |-> op[o]] /\ \A o \in Ops : op[o] = Idle
  BY <1>1
<1> QED
  BY <1>1, <1>2, <1>7, <1>8, Zenon DEF Inv, FlagIsOwned

\* Every step of the clients, of the network and of those who cancel keeps it.
LEMMA InvNext ==
    Inv /\ [Next]_vars => Inv'
<1> SUFFICES ASSUME Inv, [Next]_vars
             PROVE  Inv'
  OBVIOUS
<1>1. ASSUME NEW o \in Ops, Execute(o)
      PROVE  Inv'
  BY <1>1, CheckInitKeeps, BeginInitKeeps, WaitForInitKeeps, StreamInitKeeps, LockKeeps,
     LockedKeeps, UnlockKeeps, KnownCatalogKeeps, FindContentTypeKeeps, SendKeeps,
     Zenon DEF Execute
<1>2. ASSUME NEW o \in Ops, Progress(o)
      PROVE  Inv'
  BY <1>1, <1>2, AddTaskKeeps, ProceedKeeps, FailKeeps, ResumeKeeps,
     Zenon DEF Progress, Respond
<1>3. CASE op' = op /\ UNCHANGED <<client, init_in_progress_, wedged>>
  BY <1>3, Zenon DEF Inv, FlagIsOwned, Sequential
<1>4. ASSUME NEW o \in Ops, EmptyLookup(o)
      PROVE  Inv'
  BY <1>3, <1>4 DEF EmptyLookup
<1>5. CASE UNCHANGED vars
  BY <1>3, <1>5 DEF vars
<1> QED
  BY <1>2, <1>4, <1>5, StartKeeps, AddTaskKeeps, CancelAllKeeps, Zenon DEF Next

-----------------------------------------------------------------------------
\* The invariant holds in every state that the clients reach.
THEOREM Invariance == Spec => []Inv
<1>1. Init => Inv
  BY InvInit
<1>2. Inv /\ [Next]_vars => Inv'
  BY InvNext
<1> QED
  BY <1>1, <1>2, PTL DEF Spec

\* Every operation of the write clients calls its callback at most once.
THEOREM AnswersCorrect == Spec => []AtMostOneAnswer
<1>1. Inv => AtMostOneAnswer
  <2> SUFFICES ASSUME Inv, NEW o \in Ops
               PROVE  Len(op[o].answers) <= 1
    BY DEF AtMostOneAnswer
  <2>1. op[o].answers = <<>> \/ \E x : op[o].answers = <<x>>
    BY Zenon DEF Inv, Sound
  <2>2. Len(<<>>) <= 1 /\ \A x : Len(<<x>>) <= 1
    OBVIOUS
  <2> QED
    BY <2>1, <2>2, Zenon
<1> QED
  BY <1>1, Invariance, PTL

\* No write client lists a partition or an index before its blob is stored.
THEOREM BlobsCorrect == Spec => []StoredBeforeListed
<1>1. Inv => StoredBeforeListed
  <2> SUFFICES ASSUME Inv, NEW o \in Ops, op[o].pc = "await",
                      CallOf(Stage(o)) \in {UploadPartitions, insertIndexes},
                      op[o].chain # VolatilePublishToBatch
               PROVE  op[o].stored = TRUE
    BY Zenon DEF StoredBeforeListed
  <2>1. ~Ended(op[o].pc)
    BY DEF Ended
  <2>2. /\ op[o].todo \in Seq(Stages) /\ op[o].todo # <<>>
        /\ Stage(o).do \in {"lookup", "call", "catalog"}
        /\ BlobFirst(op[o].todo, op[o].stored)
    BY <2>1, OfInv DEF Sound, Stage
  <2>3. Len(op[o].todo) \in Nat \ {0} /\ Stage(o) \in Stages
    BY <2>2, EmptySeq, LenProperties DEF Stage
  <2>4. UploadPartitions.verb = "POST" /\ insertIndexes.verb = "POST"
        /\ GetCatalog.verb = "GET"
    BY DEF UploadPartitions, insertIndexes, GetCatalog, Call
  <2>5. Stage(o).do = "lookup" => Stage(o).call.verb = "GET"
    BY <2>3 DEF Stages
  <2>6. Stage(o).do = "call"
    BY <2>2, <2>4, <2>5 DEF CallOf
  <2>7. Lists(op[o].todo[1])
    BY <2>6 DEF Lists, CallOf, Stage
  <2>8. 1 \in 1 .. Len(op[o].todo) /\ 1 .. 1 - 1 = {}
    BY <2>3
  <2> QED
    BY <2>2, <2>7, <2>8, Zenon DEF BlobFirst
<1> QED
  BY <1>1, Invariance, PTL

\* The flag of the initialisation is up only while an operation looks up, has
\* been cancelled, or a thread hangs.
THEOREM FlagCorrect == Spec => []FlagIsOwned
<1>1. Inv => FlagIsOwned
  BY DEF Inv
<1> QED
  BY <1>1, Invariance, PTL
=============================================================================
