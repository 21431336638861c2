---------------------------- MODULE WriteClients ----------------------------
(***************************************************************************)
(* The clients of the write service: VersionedLayerClientImpl,             *)
(* VolatileLayerClientImpl, IndexLayerClientImpl and StreamLayerClientImpl *)
(* (but for its queue, which is StreamQueue).  Every operation of theirs   *)
(* is a chain of asynchronous calls, started and continued through the     *)
(* ExecuteOrCancelled of one CancellationContext: first the lookup of the  *)
(* base URLs, unless another operation made it, then the catalog, unless   *)
(* it is known, then the calls of its own.  An operation is given here by  *)
(* the list of its stages; the rest of the module executes stages.         *)
(*                                                                         *)
(* The threads are the callers of the operations, the thread on which the  *)
(* network calls back, and those who cancel.  What a thread does while it  *)
(* holds the lock of the context is "running": a cancel waits for it.      *)
(***************************************************************************)
EXTENDS Sequences, WriteApis

CONSTANTS
  Ops,    \* the calls of operations that the application makes
  Brief   \* bound: those of them that are of one of the Short operations

VARIABLES
  client,             \* the class of the client; constant
  url,                \* by service: the base URL of its apiclient
  init_in_progress_,  \* init_in_progress_, init_inprogress_
  wedged,             \* mutex_ is held by a thread that waits for ever
  catalog_model_,     \* the catalog is known
  tokenList_,
  op,                 \* by operation: its context and how far its chain is
  terminated          \* an exception left a callback of the network

vars == <<client, url, init_in_progress_, wedged, catalog_model_,
          tokenList_, op, terminated>>

-----------------------------------------------------------------------------
(* The stages. *)

InitApiClients == [do |-> "init"]
InitGreaterThanTwentyMib == [do |-> "init_greater"]
InitCatalogModel == [do |-> "catalog"]
FindContentTypeForLayerId == [do |-> "layer"]
AquireInitLock(unless) == [do |-> "lock", unless |-> unless]
NotifyInitCompleted == [do |-> "unlock"]
Lookup(service) == [do |-> "lookup", call |-> LookupApi(service), unclear |-> {}]
Invoke(call) == [do |-> "call", call |-> call, unclear |-> {}]

\* A call whose response decides, for the statuses in unclear, whether the
\* operation goes on: a publication without an id, a catalog "has no versions".
InvokeUnclear(call, statuses) == [do |-> "call", call |-> call, unclear |-> statuses]

StartBatch == <<InitApiClients, InvokeUnclear(InitPublication, {200})>>
GetBaseVersion == <<InitApiClients, InvokeUnclear(GetLatestCatalogVersion, {404})>>
GetBatch == <<InitApiClients, Invoke(GetPublication)>>
CompleteBatch == <<InitApiClients, Invoke(SubmitPublication)>>
CancelBatch == <<InitApiClients, Invoke(CancelPublication)>>
CheckDataExists == <<InitApiClients, Invoke(checkBlobExists)>>

\* Mutant of UploadBlob: the blob is not stored.
UploadBlobSkips == <<FindContentTypeForLayerId, InitApiClients>>
UploadBlob == <<FindContentTypeForLayerId, InitApiClients, Invoke(PutBlob)>>
UploadPartition == <<InitApiClients, Invoke(UploadPartitions)>>
PublishToBatch == <<InitApiClients, InitCatalogModel>> \o UploadBlob \o UploadPartition

\* The volatile client's own; GetDataHandleMap has a context of its own, and
\* an empty map ends the operation.
VolatileStartBatch == StartBatch
VolatileGetBaseVersion == GetBaseVersion
VolatileGetBatch == GetBatch
VolatileCompleteBatch == CompleteBatch
VolatilePublishToBatch == UploadPartition
GetDataHandleMap == <<InitApiClients, InvokeUnclear(GetPartitionsById, {200})>>
PublishPartitionData ==
  <<InitApiClients, InitCatalogModel>> \o GetDataHandleMap
     \o <<FindContentTypeForLayerId, Invoke(PutBlob)>>

PublishIndex == <<InitApiClients, InitCatalogModel, FindContentTypeForLayerId,
                  Invoke(PutBlob), Invoke(insertIndexes)>>
DeleteIndexData == <<InitApiClients, Invoke(deleteBlob)>>
UpdateIndex == <<InitApiClients, Invoke(performUpdate)>>

PublishDataLessThanTwentyMib ==
  <<AquireInitLock("catalog"), InitApiClients, InitCatalogModel,
    NotifyInitCompleted, FindContentTypeForLayerId, Invoke(IngestData)>>
InitPublishDataGreaterThanTwentyMib ==
  <<AquireInitLock("catalog_and_blob"), InitApiClients, InitGreaterThanTwentyMib,
    InitCatalogModel, NotifyInitCompleted>>
PublishDataGreaterThanTwentyMib ==
  InitPublishDataGreaterThanTwentyMib \o
  <<InvokeUnclear(InitPublication, {200}), FindContentTypeForLayerId, Invoke(PutBlob),
    Invoke(UploadPartitions), Invoke(SubmitPublication)>>
PublishSdii == <<AquireInitLock("config"), InitApiClients, NotifyInitCompleted,
                 Invoke(IngestSDII)>>

\* What the public classes forward to their implementations.
VersionedLayerClient ==
  {StartBatch, GetBaseVersion, GetBatch, CompleteBatch, CancelBatch,
   PublishToBatch, CheckDataExists}
VolatileLayerClient ==
  {PublishPartitionData, VolatileGetBaseVersion, VolatileStartBatch,
   VolatileGetBatch, VolatilePublishToBatch, VolatileCompleteBatch}
IndexLayerClient == {PublishIndex, DeleteIndexData, UpdateIndex}
StreamLayerClient ==
  {PublishDataLessThanTwentyMib, PublishDataGreaterThanTwentyMib, PublishSdii}

Operations ==
  [versioned |-> VersionedLayerClient, volatile |-> VolatileLayerClient,
   index |-> IndexLayerClient, stream |-> StreamLayerClient]

Short == {GetBaseVersion, UpdateIndex, PublishSdii, PublishDataLessThanTwentyMib}

\* The requests: the members that the application may set.
Publication == {"id_"}
StartBatchRequest == {"layers_", "versionDependencies_", "billing_tag_"}
PublishPartitionDataRequest ==
  {"data_", "layer_id_", "partition_id_", "billing_tag_", "checksum_"}
CheckDataExistsRequest == {"layer_id_", "data_handle_"}
PublishIndexRequest == {"data_", "layer_id_", "billing_tag_", "checksum_", "index_"}
DeleteIndexDataRequest == {"layer_id_", "index_id_"}
UpdateIndexRequest ==
  {"layer_id_", "billing_tag_", "checksum_", "indexAdditions_", "indexRemovals_"}
PublishDataRequest == {"data_", "layer_id_", "trace_id_", "billing_tag_", "checksum_"}
PublishSdiiRequest ==
  {"sdii_message_list_", "layer_id_", "trace_id_", "billing_tag_", "checksum_"}

RequestOf(chain) ==
  CASE chain = GetBaseVersion -> {}
    [] chain = StartBatch -> StartBatchRequest
    [] chain \in {GetBatch, CompleteBatch, CancelBatch} -> Publication
    [] chain \in {PublishToBatch, VolatilePublishToBatch} ->
         Publication \cup PublishPartitionDataRequest
    [] chain = PublishPartitionData -> PublishPartitionDataRequest
    [] chain = CheckDataExists -> CheckDataExistsRequest
    [] chain = PublishIndex -> PublishIndexRequest
    [] chain = DeleteIndexData -> DeleteIndexDataRequest
    [] chain = UpdateIndex -> UpdateIndexRequest
    [] chain = PublishSdii -> PublishSdiiRequest
    [] OTHER -> PublishDataRequest

\* The members without which an operation refuses the request at once.
Required(chain) ==
  CASE chain = StartBatch -> IF client = "versioned" THEN {"layers_"} ELSE {}
    [] chain \in {GetBatch, CompleteBatch, CancelBatch} -> {"id_"}
    [] chain = PublishToBatch -> {"id_", "layer_id_"}
    [] chain = VolatilePublishToBatch -> {"id_", "layer_id_", "partition_id_"}
    [] chain = PublishPartitionData -> {"data_", "partition_id_"}
    [] chain = CheckDataExists -> {"layer_id_"}
    [] chain = PublishIndex -> {"data_", "layer_id_"}
    [] chain = DeleteIndexData -> {"layer_id_", "index_id_"}
    [] chain = PublishSdii -> {"sdii_message_list_", "layer_id_"}
    [] chain \in {PublishDataLessThanTwentyMib, PublishDataGreaterThanTwentyMib} -> {"data_"}
    [] OTHER -> {}

\* The volatile client's batches take metadata only.
Accepted(chain, request) ==
  /\ Required(chain) \subseteq request
  /\ chain = VolatilePublishToBatch => "data_" \notin request

\* The lookups of InitApiClients, in their order.  The last service looked up
\* is also the one that tells whether the clients are initialised.
VersionedLookups == <<"metadata", "config", "blob", "publish">>
VolatileLookups == <<"config", "metadata", "blob", "query", "publish">>
IndexLookups == <<"config", "blob", "index">>
StreamLookups == <<"ingest", "config">>
GreaterThanTwentyMibLookups == <<"publish", "blob">>

Lookups == [versioned |-> VersionedLookups, volatile |-> VolatileLookups,
            index |-> IndexLookups, stream |-> StreamLookups]
Services == {"metadata", "config", "blob", "publish", "query", "index", "ingest"}
LastOf(s) == s[Len(s)]
ToLookups(s) == [i \in DOMAIN s |-> Lookup(s[i])]

-----------------------------------------------------------------------------
Idle == [pc |-> "idle", chain |-> <<>>, todo |-> <<>>, nested |-> FALSE,
         token |-> FALSE, asked |-> FALSE, cancelled |-> "no", returned |-> FALSE,
         answers |-> <<>>, base |-> "none", stored |-> FALSE, genuine |-> TRUE]

Init ==
  /\ client \in DOMAIN Operations
  /\ url = [s \in Services |-> "none"]
  /\ init_in_progress_ = FALSE /\ wedged = FALSE
  /\ catalog_model_ = FALSE
  /\ tokenList_ = {}
  /\ op = [o \in Ops |-> Idle]
  /\ terminated = FALSE

Stage(o) == op[o].todo[1]
Initialised == url[LastOf(Lookups[client])] # "none"
Sequential == client # "stream"

Done(o, s) == op[o].pc = s /\ ~terminated

Pop(o, label) == [op[o] EXCEPT !.pc = label, !.todo = Tail(@)]
PopNested(o) == [Pop(o, "running") EXCEPT !.nested = TRUE]
Set(o, new) == op' = [op EXCEPT ![o] = new]

\* The callback of the application, with a result or the reason of a failure.
\* RemoveTask comes with it but on two paths that forget it.
Forgets(o) ==
  \/ op[o].chain = CheckDataExists /\ ~(op[o].pc = "await" /\ Stage(o).do = "call")
  \/ op[o].chain = PublishIndex /\ Stage(o).do = "layer"
Answered(o, response) ==
  [Idle EXCEPT !.pc = "done", !.answers = Append(op[o].answers, response),
               !.returned = op[o].returned, !.cancelled = op[o].cancelled]
Answer(o, response) ==
  /\ Set(o, Answered(o, response))
  /\ tokenList_' = IF Forgets(o) THEN tokenList_ ELSE tokenList_ \ {o}

\* A failure before the end of the stream client's initialisation calls
\* NotifyInitAborted.
NotifyInitAborted(o) ==
  init_in_progress_' = (init_in_progress_ /\
     ~(client = "stream" /\ \E i \in DOMAIN op[o].todo : op[o].todo[i].do = "unlock"))

-----------------------------------------------------------------------------
(* The caller's thread. *)

Start(o) ==
  /\ Done(o, "idle")
  /\ \E chain \in Operations[client] \cap (IF o \in Brief THEN Short ELSE Operations[client]) :
       \E request \in SUBSET RequestOf(chain) :
         IF Accepted(chain, request)
         THEN Set(o, [op[o] EXCEPT !.pc = "running", !.chain = chain, !.todo = chain])
         ELSE Set(o, [Answered(o, "error") EXCEPT !.returned = TRUE])
  /\ UNCHANGED <<client, url, init_in_progress_, wedged, catalog_model_,
                 tokenList_, terminated>>

\* The call returns its token, which is in the list by then: also when the
\* operation has been answered already.
AddTask(o) ==
  /\ op[o].pc \in {"await", "resume", "done"} /\ ~op[o].returned /\ ~terminated
  /\ Set(o, [op[o] EXCEPT !.returned = TRUE])
  /\ tokenList_' = IF client = "stream" THEN tokenList_ ELSE tokenList_ \cup {o}
  /\ UNCHANGED <<client, url, init_in_progress_, wedged, catalog_model_,
                 terminated>>

-----------------------------------------------------------------------------
(* Executing a stage under the lock of the context. *)

\* InitApiClients of the clients with a mutex_ that it tries to lock: the
\* flag, then the URL.
CheckInit(o) ==
  /\ Done(o, "running") /\ Stage(o).do = "init" /\ Sequential
  /\ IF init_in_progress_ THEN Set(o, [op[o] EXCEPT !.pc = "waiting"])
     ELSE IF Initialised THEN Set(o, PopNested(o))
     ELSE Set(o, [op[o] EXCEPT !.pc = "begin"])
  /\ UNCHANGED <<client, url, init_in_progress_, wedged, catalog_model_,
                 tokenList_, terminated>>

\* New clients for every service, and the first lookup.
BeginInit(o) ==
  /\ Done(o, "begin")
  /\ init_in_progress_' = TRUE
  /\ url' = [s \in Services |-> "none"]
  /\ Set(o, [op[o] EXCEPT !.pc = "running",
                          !.todo = ToLookups(Lookups[client]) \o Tail(@)])
  /\ UNCHANGED <<client, wedged, catalog_model_, tokenList_, terminated>>

\* Somebody else initialises.  The lock is given up, or was never had, and
\* then unlock() throws; waiting on a lock that is not held is undefined: it
\* throws, or it returns at once when the flag is down by then, or it returns
\* with the mutex locked and the thread waits for the mutex it holds.
WaitForInit(o) ==
  /\ Done(o, "waiting")
  /\ \/ /\ Set(o, [op[o] EXCEPT !.pc = "threw"])
        /\ UNCHANGED wedged
     \/ /\ ~init_in_progress_ /\ ~wedged
        /\ \/ Set(o, [op[o] EXCEPT !.pc = "running"]) /\ UNCHANGED wedged
           \/ Set(o, [op[o] EXCEPT !.pc = "hung"]) /\ wedged' = TRUE
  /\ UNCHANGED <<client, url, init_in_progress_, catalog_model_,
                 tokenList_, terminated>>

\* The two initialisations of the stream client.
StreamInit(o) ==
  /\ Done(o, "running") /\ ~Sequential
  /\ \E services \in {StreamLookups, GreaterThanTwentyMibLookups} :
       /\ Stage(o).do = IF services = StreamLookups THEN "init" ELSE "init_greater"
       /\ IF url[LastOf(services)] # "none"
          THEN Set(o, PopNested(o)) /\ UNCHANGED url
          ELSE /\ Set(o, [op[o] EXCEPT !.todo = ToLookups(services) \o Tail(@)])
               /\ url' = [url EXCEPT ![services[1]] = "none"]
  /\ UNCHANGED <<client, init_in_progress_, wedged, catalog_model_,
                 tokenList_, terminated>>

LockNeeded(unless) ==
  CASE unless = "catalog" -> ~catalog_model_
    [] unless = "catalog_and_blob" -> ~catalog_model_ \/ url["blob"] = "none"
    [] unless = "config" -> url["config"] = "none"

\* The caller's thread waits, before it has a context.
Lock(o) ==
  /\ Done(o, "running") /\ Stage(o).do = "lock"
  /\ IF LockNeeded(Stage(o).unless)
     THEN Set(o, [op[o] EXCEPT !.pc = "locking"])
     ELSE Set(o, Pop(o, "running"))
  /\ UNCHANGED <<client, url, init_in_progress_, wedged, catalog_model_,
                 tokenList_, terminated>>

Locked(o) ==
  /\ Done(o, "locking") /\ ~init_in_progress_
  /\ init_in_progress_' = TRUE
  /\ Set(o, Pop(o, "running"))
  /\ UNCHANGED <<client, url, wedged, catalog_model_, tokenList_, terminated>>

Unlock(o) ==
  /\ op[o].pc \in {"running", "resume"} /\ ~terminated /\ Stage(o).do = "unlock"
  /\ init_in_progress_' = FALSE
  /\ Set(o, Pop(o, op[o].pc))
  /\ UNCHANGED <<client, url, wedged, catalog_model_, tokenList_, terminated>>

KnownCatalog(o) ==
  /\ Done(o, "running") /\ Stage(o).do = "catalog" /\ catalog_model_
  /\ Set(o, PopNested(o))
  /\ UNCHANGED <<client, url, init_in_progress_, wedged, catalog_model_,
                 tokenList_, terminated>>

\* Mutant of FindContentType: the return after the callback is missing.
FindContentTypeGoesOn(o) ==
  /\ op[o].pc \in {"running", "resume"} /\ ~terminated /\ Stage(o).do = "layer"
  /\ client = "volatile" => op[o].cancelled = "no"
  /\ \E answers \in {op[o].answers, Append(op[o].answers, "error")} :
       Set(o, [Pop(o, op[o].pc) EXCEPT !.answers = answers])
  /\ UNCHANGED <<client, url, init_in_progress_, wedged, catalog_model_,
                 tokenList_, terminated>>

\* The catalog has the request's layer, or not.  The volatile client looks inside ExecuteOrCancelled, the others before it.
FindContentType(o) ==
  /\ op[o].pc \in {"running", "resume"} /\ ~terminated /\ Stage(o).do = "layer"
  /\ client = "volatile" => op[o].cancelled = "no"
  /\ \/ Set(o, Pop(o, op[o].pc)) /\ UNCHANGED tokenList_
     \/ Answer(o, "error")
  /\ UNCHANGED <<client, url, init_in_progress_, wedged, catalog_model_,
                 terminated>>

\* The network call of the stage is sent.  The context keeps its token, unless
\* this ran inside another execution, whose empty token is stored on return.
Send(o) ==
  /\ Done(o, "running") /\ Stage(o).do \in {"lookup", "call", "catalog"}
  /\ Stage(o).do = "catalog" => ~catalog_model_
  /\ LET service == IF Stage(o).do = "catalog" THEN "config" ELSE Stage(o).call.service
     IN  /\ url' = IF Stage(o).do = "lookup" THEN [url EXCEPT ![service] = "lookup"]
                   ELSE url
         /\ Set(o, [op[o] EXCEPT !.pc = "await", !.token = ~op[o].nested,
                                 !.base = url'[service]])
  /\ UNCHANGED <<client, init_in_progress_, wedged, catalog_model_,
                 tokenList_, terminated>>

-----------------------------------------------------------------------------
(* The network's thread. *)

CallOf(stage) == IF stage.do = "catalog" THEN GetCatalog ELSE stage.call
Unclear(stage) == IF stage.do = "catalog" THEN {} ELSE stage.unclear
IsLastLookup(o) ==
  Sequential /\ Stage(o).do = "lookup" /\ Stage(o).call.service = LastOf(Lookups[client])

\* What the network may report: Cancelled only to who asked for it.
Reports(o) == Statuses \ (IF op[o].asked THEN {} ELSE {Cancelled})

\* The call succeeded: the URL, the catalog or the operation's result.
Proceed(o) ==
  /\ Done(o, "await")
  /\ \E status \in Reports(o) :
       /\ status \in CallOf(Stage(o)).ok \cup Unclear(Stage(o))
       /\ IsLastLookup(o) => ~wedged
       /\ LET genuine == op[o].genuine /\ (Succeeded(status) \/ status = 404)
          IN  IF Len(op[o].todo) = 1
              THEN /\ Set(o, [Answered(o, "ok") EXCEPT !.genuine = genuine])
                   /\ tokenList_' = tokenList_ \ {o}
              ELSE /\ Set(o, [Pop(o, "resume") EXCEPT
                        !.genuine = genuine, !.stored = @ \/ CallOf(Stage(o)) = PutBlob,
                        !.nested = FALSE, !.token = FALSE, !.asked = FALSE, !.base = "none"])
                   /\ UNCHANGED tokenList_
  /\ url' = IF Stage(o).do = "lookup"
            THEN [url EXCEPT ![Stage(o).call.service] = "service"] ELSE url
  /\ catalog_model_' = (catalog_model_ \/ Stage(o).do = "catalog")
  /\ init_in_progress_' = (init_in_progress_ /\ ~IsLastLookup(o))
  /\ UNCHANGED <<client, wedged, terminated>>

\* A lookup that lists no api: at(0) throws, and nobody catches it.
EmptyLookup(o) ==
  /\ Done(o, "await") /\ Stage(o).do = "lookup"
  /\ terminated' = TRUE
  /\ UNCHANGED <<client, url, init_in_progress_, wedged, catalog_model_,
                 tokenList_, op>>

\* Mutant of Fail: a failed lookup leaves the flag up.
FailKeepsFlag(o) ==
  /\ Done(o, "await")
  /\ Reports(o) \ (CallOf(Stage(o)).ok \ Unclear(Stage(o))) # {}
  /\ Answer(o, "error")
  /\ IF Sequential THEN UNCHANGED init_in_progress_ ELSE NotifyInitAborted(o)
  /\ UNCHANGED <<client, url, wedged, catalog_model_, terminated>>

\* The call failed, and the operation with it.  A lookup that fails lowers the
\* flag, under the lock: the last one before it calls back, the others after.
Fail(o) ==
  /\ Done(o, "await")
  /\ Reports(o) \ (CallOf(Stage(o)).ok \ Unclear(Stage(o))) # {}
  /\ IsLastLookup(o) => ~wedged
  /\ Answer(o, "error")
  /\ IF Sequential
     THEN init_in_progress_' = (init_in_progress_ /\ (Stage(o).do = "lookup" => wedged))
     ELSE NotifyInitAborted(o)
  /\ UNCHANGED <<client, url, wedged, catalog_model_, terminated>>

\* The next ExecuteOrCancelled.  A cancelled lookup is an error to the stream
\* client's initialisation; init_in_progress_ of the others stays up.
Resume(o) ==
  /\ Done(o, "resume")
  /\ \/ /\ op[o].cancelled = "no" /\ Stage(o).do \notin {"unlock", "layer"}
        /\ Set(o, [op[o] EXCEPT !.pc = "running"])
        /\ UNCHANGED <<tokenList_, init_in_progress_>>
     \/ /\ op[o].cancelled # "no"
        /\ Stage(o).do \notin {"unlock"} \cup (IF client = "volatile" THEN {} ELSE {"layer"})
        /\ Answer(o, "error")
        /\ IF Stage(o).do = "lookup" THEN NotifyInitAborted(o)
           ELSE UNCHANGED init_in_progress_
  /\ UNCHANGED <<client, url, wedged, catalog_model_, terminated>>

-----------------------------------------------------------------------------
(* Cancelling. *)

\* CancelOperation, when no thread holds the lock of the context.
CancelOf(o) ==
  IF op[o].cancelled = "no" /\ op[o].pc \in {"await", "resume"}
  THEN [op[o] EXCEPT !.cancelled = IF client = "stream" THEN "notifying" ELSE "yes",
                     !.asked = op[o].token /\ op[o].pc = "await", !.token = FALSE]
  ELSE op[o]

\* The token that the call returned.
CancelOperation(o) ==
  /\ op[o].returned /\ CancelOf(o) # op[o] /\ ~terminated
  /\ Set(o, CancelOf(o))
  /\ UNCHANGED <<client, url, init_in_progress_, wedged, catalog_model_,
                 tokenList_, terminated>>

\* Mutant of NotifyAfterCancel: nobody is notified.
NotifyAfterCancelForgets(o) ==
  /\ op[o].cancelled = "notifying" /\ ~terminated
  /\ Set(o, [op[o] EXCEPT !.cancelled = "yes"])
  /\ UNCHANGED <<client, url, init_in_progress_, wedged, catalog_model_,
                 tokenList_, terminated>>

\* The stream client's token goes on with NotifyInitAborted, whoever has the
\* lock by then.
NotifyAfterCancel(o) ==
  /\ op[o].cancelled = "notifying" /\ ~terminated
  /\ init_in_progress_' = FALSE
  /\ Set(o, [op[o] EXCEPT !.cancelled = "yes"])
  /\ UNCHANGED <<client, url, wedged, catalog_model_, tokenList_, terminated>>

CancelAll ==
  /\ tokenList_ # {} /\ ~terminated
  /\ \A o \in tokenList_ : op[o].pc \notin {"running", "begin", "waiting"}
  /\ op' = [o \in Ops |-> IF o \in tokenList_ THEN CancelOf(o) ELSE op[o]]
  /\ tokenList_' = {}
  /\ UNCHANGED <<client, url, init_in_progress_, wedged, catalog_model_,
                 terminated>>

-----------------------------------------------------------------------------
Execute(o) ==
  CheckInit(o) \/ BeginInit(o) \/ WaitForInit(o) \/ StreamInit(o) \/ Lock(o)
  \/ Locked(o) \/ Unlock(o) \/ KnownCatalog(o) \/ FindContentType(o) \/ Send(o)

Respond(o) == Proceed(o) \/ Fail(o)

Progress(o) == AddTask(o) \/ Execute(o) \/ Respond(o) \/ Resume(o) \/ NotifyAfterCancel(o)

Next ==
  \/ \E o \in Ops : Start(o) \/ Progress(o) \/ EmptyLookup(o) \/ CancelOperation(o)
  \/ CancelAll

\* The threads run, and the network answers every call.
Spec == Init /\ [][Next]_vars /\ \A o \in Ops : WF_vars(Progress(o))

-----------------------------------------------------------------------------
\* An operation calls its callback at most once: whatever fails, throws or is
\* cancelled on the way, and whoever initialises at the same time (a future
\* that is set twice throws, VersionedLayerClientImpl.cpp:163).
AtMostOneAnswer == \A o \in Ops : Len(op[o].answers) <= 1

\* Metadata is sent after the data it points to: a partition that was given
\* data, or an index, is listed only when the blob has been stored
\* (VersionedLayerClientImpl.cpp:553, StreamLayerClientImpl.cpp:664,
\* IndexLayerClientImpl.cpp:240).
StoredBeforeListed ==
  \A o \in Ops :
    op[o].pc = "await" /\ CallOf(Stage(o)) \in {UploadPartitions, insertIndexes}
      => op[o].stored \/ op[o].chain = VolatilePublishToBatch

\* Every publication of the stream client is answered: a failed, cancelled or
\* completed initialisation always lets in those who wait for it, although
\* cancelled ones may notify for others (StreamLayerClientImpl.cpp:197-213).
StreamIsAnswered ==
  \A o \in Ops :
    client = "stream" /\ op[o].pc # "idle" ~> op[o].answers # <<>> \/ terminated

\* The flag of the initialisation is up only while somebody initialises: a
\* failed lookup never keeps later operations out.  The exceptions are those
\* of the code: a cancel between two lookups, and a thread that waits for the
\* mutex it holds (VersionedLayerClientImpl.cpp:58-152).
FlagIsOwned ==
  Sequential /\ init_in_progress_ =>
    \/ \E o \in Ops : \E i \in DOMAIN op[o].todo : op[o].todo[i].do = "lookup"
    \/ \E o \in Ops : op[o].cancelled # "no"
    \/ wedged

\* An operation is reported as successful only when the service did what each
\* of its calls asked.  (TestIndexLayerClient.cpp:66 expects the error code
\* Cancelled of a cancelled PublishIndex.)
SuccessIsReal == \A o \in Ops : op[o].answers = <<"ok">> => op[o].genuine

\* "Publish < 20MB init is complete when catalog model is valid" and its
\* siblings: once the clients count as initialised, a call goes to the URL
\* that the lookup returned for its service.
CallsGoToTheirService ==
  \A o \in Ops : op[o].pc = "await" /\ Stage(o).do # "lookup" => op[o].base = "service"
=============================================================================
