--------------------------- MODULE CatalogClient ---------------------------
(***************************************************************************)
(* CatalogClientImpl, the read service's client, with its PendingRequests, *)
(* the MultiRequestContext of each repository and PrefetchTilesProvider.   *)
(* The operations of the repositories are the chains of ReadRepositories.  *)
(*                                                                         *)
(* An operation is named by the path of the calls that led to it.  What is *)
(* found in the cache is delivered by a worker of the task scheduler, the  *)
(* answers of services by the network's thread.  What a thread does        *)
(* between two such points runs without interruption (pc "run"): how the   *)
(* threads interleave inside MultiRequestContext is the subject of the     *)
(* module MultiRequestContext.                                             *)
(***************************************************************************)
EXTENDS ReadRepositories, FiniteSets, FiniteSetsExt

CONSTANTS
  Requests,    \* the calls that the application makes
  Brief,       \* bound: those of them that are of the Short kinds
  Workers,     \* threads of the task scheduler
  MaxMishaps   \* bound on failed calls, cancellations and new versions

VARIABLES
  layer,       \* the layer's type, or what is wrong with it; constant
  latest,      \* the version of the catalog at the service
  cache,       \* the key-value cache
  ops,         \* by path: the operations that are running
  active_reqs, \* by key: who is called back, and the operation
  pending,     \* requests_map_: its keys
  tokens,      \* those of them whose token has been inserted
  prefetchProviderBusy,
  call,        \* by request: how far its Get... call is, and its arguments
  answers,     \* by request: the responses its callback got
  canceller,   \* CancelPendingRequests
  dropped,     \* somebody's callback was erased without being called
  mishaps      \* how many there have been

vars == <<layer, latest, cache, ops, active_reqs, pending, tokens,
          prefetchProviderBusy, call, answers, canceller, dropped, mishaps>>

Mishap == mishaps < MaxMishaps /\ mishaps' = mishaps + 1

NoToken == [do |-> "none", key |-> <<>>, path |-> <<>>]
Response(code, version) == [code |-> code, version |-> version, since |-> 0]
AnyTile == CHOOSE t \in Tiles : TRUE
Idle == [pc |-> "idle", kind |-> "", option |-> "", version |-> 0, asked |-> FALSE]

NewOp(kind, option, version, tile, caller, context) ==
  [kind |-> kind, option |-> option, version |-> version, given |-> version,
   tile |-> tile, caller |-> caller, context |-> context, since |-> latest,
   key |-> KeyOf(kind, option, version), todo |-> Chain(kind, layer), pc |-> "run",
   mail |-> Response("", 0), is_cancelled |-> FALSE, token |-> NoToken,
   asked |-> FALSE, left |-> {}, got |-> {}]

\* What one step works on.
State == [ops |-> ops, reqs |-> active_reqs, pending |-> pending, tokens |-> tokens,
          busy |-> prefetchProviderBusy, answers |-> answers, dropped |-> dropped]
Become(s) ==
  /\ ops' = s.ops /\ active_reqs' = s.reqs /\ pending' = s.pending
  /\ tokens' = s.tokens /\ prefetchProviderBusy' = s.busy
  /\ answers' = s.answers /\ dropped' = s.dropped

Without(f, x) == [y \in DOMAIN f \ {x} |-> f[y]]
With(f, x, v) == [y \in DOMAIN f \cup {x} |-> IF y = x THEN v ELSE f[y]]
Update(s, p, o) == [s EXCEPT !.ops[p] = o]
\* The token that ExecuteOrCancelled stores in the operation's context.
Hold(s, p, token) == [s EXCEPT !.ops[s.ops[p].context].token = token]

-----------------------------------------------------------------------------
(* PendingRequests. *)

GenerateRequestPlaceholder(s, k) == [s EXCEPT !.pending = @ \cup {k}]

\* Mutant of Insert: a key that is no longer in the map is put there again.
InsertAlways(s, k) == [s EXCEPT !.pending = @ \cup {k}, !.tokens = @ \cup {k}]
Insert(s, k) == IF k \in s.pending THEN [s EXCEPT !.tokens = @ \cup {k}] ELSE s
Remove(s, k) == [s EXCEPT !.pending = @ \ {k}, !.tokens = @ \ {k}]

-----------------------------------------------------------------------------
(* Calling back. *)

\* The callback of a Get... call; PrefetchTiles does not remove its key.
RequestCallback(s, k, response) ==
  IF k[2] = "update" THEN Remove(s, k)
  ELSE IF call[k[1]].kind = "prefetch"
  THEN [s EXCEPT !.answers[k[1]] = Append(@, response)]
  ELSE IF k \in s.pending
  THEN [Remove(s, k) EXCEPT !.answers[k[1]] = Append(@, response)]
  ELSE s

Deliver(s, c, response) ==
  IF Len(c) = 2 THEN RequestCallback(s, c, response)
  ELSE IF c \in DOMAIN s.ops
  THEN [s EXCEPT !.ops[c].mail = response, !.ops[c].pc = "mail"]
  ELSE s

\* onRequestCompleted: whoever waits for the key now is called back.
onRequestCompleted(s, key, response) ==
  IF key \notin DOMAIN s.reqs THEN s
  ELSE LET Next1(c, acc) == Deliver(acc, c, response)
       IN  FoldSet(Next1, [s EXCEPT !.reqs = Without(@, key)], s.reqs[key].callbacks)

completionCallback(s, p, response) ==
  Deliver([s EXCEPT !.busy = FALSE], s.ops[p].caller, response)

\* The operation ends and gives its response to who waits for it.
Complete(s, p, answer) ==
  LET o == s.ops[p]
      response == [answer EXCEPT !.since = o.since]
      rest == [s EXCEPT !.ops = Without(@, p)]
  IN  IF o.key # <<>> THEN onRequestCompleted(rest, o.key, response)
      ELSE IF o.kind = "prefetch"
      THEN [completionCallback(s, p, response) EXCEPT !.ops = Without(@, p)]
      ELSE IF o.context # p
      THEN [rest EXCEPT !.ops[o.context].left = @ \ {o.tile},
                        !.ops[o.context].got = @ \cup IF answer.code = "ok" THEN {o.tile} ELSE {}]
      ELSE Deliver(rest, o.caller, response)

-----------------------------------------------------------------------------
(* Cancelling. *)

RECURSIVE CancelOperation(_, _), onRequestCancelled(_, _, _)

\* CancellationContext: the token of what runs now is cancelled, then the flag
\* is set.
CancelOperation(s, p) ==
  IF p \notin DOMAIN s.ops \/ s.ops[p].is_cancelled THEN s
  ELSE LET t == s.ops[p].token
           stopped == CASE t.do = "none" -> s
                        [] t.do = "sub" -> CancelOperation(s, t.path)
                        [] t.do = "shared" -> onRequestCancelled(s, t.key, t.path)
                        [] t.do = "network" ->
                             IF t.path \in DOMAIN s.ops /\ s.ops[t.path].pc = "network"
                             THEN [s EXCEPT !.ops[t.path].asked = TRUE] ELSE s
       IN  [stopped EXCEPT !.ops[p].token = NoToken, !.ops[p].is_cancelled = TRUE]

\* The context of the key is erased, whoever is in it.
onRequestCancelled(s, key, c) ==
  IF key \notin DOMAIN s.reqs THEN s
  ELSE LET context == s.reqs[key]
           erased == [s EXCEPT !.reqs = Without(@, key),
                               !.dropped = @ \/ context.callbacks \ {c} # {}]
           last == Cardinality(context.callbacks) <= 1
       IN  IF c \notin context.callbacks THEN erased
           ELSE Deliver(IF last THEN CancelOperation(erased, context.operation) ELSE erased,
                        c, Response("cancelled", 0))

-----------------------------------------------------------------------------
(* Starting an operation. *)

\* ExecuteOrAssociate for the shared ones.
Begin(s, path, o) ==
  IF o.key # <<>> /\ o.key \in DOMAIN s.reqs
  THEN [s EXCEPT !.reqs[o.key].callbacks = @ \cup {o.caller}]
  ELSE [s EXCEPT !.ops = With(@, path, o),
                 !.reqs = IF o.key = <<>> THEN @
                          ELSE With(@, o.key, [callbacks |-> {o.caller}, operation |-> path])]

\* The operation p waits for one of another repository.
BeginSub(s, p, kind, option) ==
  LET o == s.ops[p]
      path == Append(p, kind)
      new == NewOp(kind, option, IF kind = "byId" THEN o.version ELSE 0, o.tile, p, path)
      token == IF new.key = <<>> THEN [do |-> "sub", key |-> <<>>, path |-> path]
               ELSE [do |-> "shared", key |-> new.key, path |-> p]
  IN  Hold(Begin(Update(s, p, [o EXCEPT !.pc = "wait"]), path, new), p, token)

\* ExecuteOrSchedule(callback): o.todo says what is left to do then.
Schedule(s, p, o, response) ==
  Hold(Update(s, p, [o EXCEPT !.pc = "task", !.mail = response]), p, NoToken)

Quiet == \A p \in DOMAIN ops : ops[p].pc # "run"

\* The versions of what the stage looks up in the cache, if it is there.
Found(o, what) ==
  CASE what = "catalog" -> IF CatalogCacheGet(cache) THEN {0} ELSE {}
    [] what = "latestVersion" -> {CatalogCacheGetVersion(cache)} \ {0}
    [] what = "layerVersions" -> IF LayerVersionsGet(cache, o.version) # {} THEN {0} ELSE {}
    [] what = "partitions" -> IF PartitionsCacheGetAll(cache, o.version) THEN {o.version} ELSE {}
    [] what = "partition" -> PartitionsCacheGet(cache, o.tile, o.version)
    [] what = "data" -> IF DataCacheGet(cache, o.tile, o.version) THEN {o.version} ELSE {}

\* The layer may be missing in the list of the layers' versions.
CodeFound(o, what) ==
  IF what = "layerVersions" /\ TRUE \notin LayerVersionsGet(cache, o.version) THEN "absent" ELSE "ok"

Skips(o) ==
  LET stage == Head(o.todo)
  IN  \/ stage.do = "check" /\ o.option = "OnlineOnly"
      \/ stage.do = "check only" /\ o.option # "CacheOnly"
      \/ stage.do = "check always" /\ o.version = 0
OnlyCache(o) == o.option = "CacheOnly" /\ Head(o.todo).do # "check always"

OptionFor(o, kind) == o.option

-----------------------------------------------------------------------------
(* The stages of a running operation. *)

Stage(p) == Head(ops[p].todo)
IsCancelled(p) == ops[ops[p].context].is_cancelled
Rest(o) == [o EXCEPT !.todo = Tail(@)]
Running(p) == ops[p].pc = "run"

Fail(p, code) == Become(Complete(State, p, Response(code, 0)))

\* The cancel_callback of GetPartitions, GetPartitionsById and GetData calls the
\* callback they were called with, past the MultiRequestContext; those of the
\* other repositories, of GetLayerVersion and of GetDataInternal do not.
cancel_callback(p) ==
  LET o == ops[p]
      bypass == \/ o.kind \in {"partitions", "byId"}
                     /\ Stage(p).of \notin {"layerVersions", "GetLayerVersions"}
                \/ o.kind \in {"data", "handle"} /\ Stage(p).do = "sub"
      rest == [State EXCEPT !.ops = Without(@, p)]
  IN  IF bypass THEN Deliver(rest, o.caller, Response("cancelled", 0))
      ELSE Complete(State, p, Response("cancelled", 0))
\* Mutant of OrCancelled: nobody is told of the cancellation.
OrCancelledSilently(p, s) ==
  Become(IF IsCancelled(p) THEN Update(State, p, [ops[p] EXCEPT !.pc = "gone"]) ELSE s)
OrCancelled(p, s) == Become(IF IsCancelled(p) THEN cancel_callback(p) ELSE s)

\* The layer is searched for in the catalog.  The partitions of a layer that is
\* not versioned have no version; a version that is given is not asked for.
Layer(p) ==
  /\ Running(p) /\ Stage(p).do = "layer"
  /\ IF layer = "no layer" THEN Fail(p, "error")
     ELSE LET o == Rest(ops[p])
              unversioned == layer # "versioned"
          IN  Become(Update(State, p,
                IF o.kind \in {"partitions", "byId"} /\ (unversioned \/ o.version # 0)
                THEN [Rest(o) EXCEPT !.version = IF unversioned THEN 0 ELSE @]
                ELSE o))
  /\ UNCHANGED <<mishaps, layer, latest, cache, call, canceller>>

\* What is found is delivered by a task: the end of the operation, unless it
\* replaces a call.  CacheOnly ends here in any case.
Look(p) ==
  /\ Running(p) /\ Stage(p).do \in {"check", "check only", "check always"}
  /\ LET o == ops[p]
         found == Found(o, Stage(p).of)
         last == [o EXCEPT !.todo = <<Head(@)>>]
     IN  IF Skips(o)
         THEN Become(Update(State, p, IF Stage(p).do = "check always" THEN Rest(Rest(o)) ELSE Rest(o)))
         ELSE IF found = {} /\ ~OnlyCache(o)
         THEN OrCancelled(p, Update(State, p, Rest(o)))
         ELSE IF found = {}
         THEN OrCancelled(p, Schedule(State, p, last, Response("error", 0)))
         ELSE \E v \in found :
                OrCancelled(p, Schedule(State, p,
                  IF Stage(p).do = "check always" THEN Rest(o) ELSE last,
                  Response(CodeFound(o, Stage(p).of), v)))
  /\ UNCHANGED <<mishaps, layer, latest, cache, call, canceller>>

\* ApiRepository::getApiClient.
ApiClient(p) ==
  /\ Running(p) /\ Stage(p).do = "api"
  /\ OrCancelled(p, IF ApiCacheGet(cache, Stage(p).of)
                    THEN Schedule(State, p, ops[p], Response("ok", 0))
                    ELSE BeginSub(State, p, "api", Stage(p).of))
  /\ UNCHANGED <<mishaps, layer, latest, cache, call, canceller>>

\* An operation of another repository.
Operation(p) ==
  /\ Running(p) /\ Stage(p).do = "sub"
  /\ OrCancelled(p, BeginSub(State, p, Stage(p).of, OptionFor(ops[p], Stage(p).of)))
  /\ UNCHANGED <<mishaps, layer, latest, cache, call, canceller>>

\* The call is sent; LookupApi has no URL for a partition it does not know.
Send(p) ==
  /\ Running(p) /\ Stage(p).do = "call"
  /\ IF ops[p].kind = "api" /\ layer = "no server" THEN Fail(p, "error")
     ELSE OrCancelled(p, Hold(Update(State, p, [ops[p] EXCEPT !.pc = "network"]), p,
                              [do |-> "network", key |-> <<>>, path |-> p]))
  /\ UNCHANGED <<mishaps, layer, latest, cache, call, canceller>>

\* Stream layers are not supported.
Unavailable(p) ==
  /\ Running(p) /\ Stage(p).do = "unavailable"
  /\ Fail(p, "error")
  /\ UNCHANGED <<mishaps, layer, latest, cache, call, canceller>>

\* EffectiveTileKeys finds no tile for the levels, or the work is scheduled.
\* Bound: more tiles than one only if no Brief request is made.
EffectiveTiles(p) ==
  /\ Running(p) /\ Stage(p).do = "tiles"
  /\ \E tiles \in SUBSET Tiles :
       /\ tiles \subseteq {AnyTile} \/ \A r \in Brief : call[r].pc = "idle"
       /\ IF tiles = {} THEN Fail(p, "error")
          ELSE Become(Update(State, p, [Rest(ops[p]) EXCEPT !.pc = "scheduled", !.left = tiles]))
  /\ UNCHANGED <<mishaps, layer, latest, cache, call, canceller>>

-----------------------------------------------------------------------------
(* The threads. *)

\* A worker that prefetches waits for the answers of all the tiles.
Blocked == {p \in DOMAIN ops : ops[p].pc = "joining"}
WorkerIsFree == Cardinality(Blocked) < Workers

ResultOf(api, o) ==
  IF api = "GetLatestCatalogVersion" THEN latest
  ELSE IF api \in {"lookup", "GetCatalog", "GetLayerVersions"} THEN 0 ELSE o.version

\* The callback of a call that was sent, on the network's thread; "no blob": no
\* such partition, or its data is in the handle; "absent": no such layer.
Answer(p) ==
  /\ Quiet /\ ops[p].pc = "network"
  /\ LET o == ops[p]
         api == Stage(p).of
     IN  \E code \in {"ok", "forbidden", "error"}
                     \cup (IF o.asked THEN {"cancelled"} ELSE {})
                     \cup (IF api = "GetPartitionsbyId" THEN {"no blob"} ELSE {})
                     \cup (IF api = "GetLayerVersions" THEN {"absent"} ELSE {}) :
           /\ IF code = "ok" THEN UNCHANGED mishaps ELSE Mishap
           /\ cache' = Remember(cache, o, code, latest)
           /\ Become(Update(State, p, [o EXCEPT !.pc = "mail",
                       !.mail = Response(code, IF code = "ok" THEN ResultOf(api, o) ELSE 0)]))
  /\ UNCHANGED <<layer, latest, call, canceller>>

\* The operation goes on with the answer it got.
Resume(p) ==
  /\ Quiet
  /\ ops[p].pc = "mail" \/ (ops[p].pc = "task" /\ WorkerIsFree)
  /\ LET o == ops[p]
         resolved == Stage(p).do = "sub" /\ Stage(p).of \in {"version", "byId"}
     IN  Become(IF o.mail.code = "no blob" /\ o.kind = "data"
                THEN Complete(State, p, Response("ok", 0))
                ELSE IF o.mail.code # "ok" \/ Len(o.todo) = 1
                THEN Complete(State, p, o.mail)
                ELSE Update(State, p, [Rest(o) EXCEPT !.pc = "run", !.mail = Response("", 0),
                              !.version = IF resolved THEN o.mail.version ELSE @]))
  /\ UNCHANGED <<mishaps, layer, latest, cache, call, canceller>>

\* An operation for each tile, in a thread of its own; all share the context.
Fork(s, p, tiles) ==
  LET o == [s.ops[p] EXCEPT !.pc = "joining", !.left = tiles, !.got = {}]
      kind == Head(o.todo).of
      New(t, acc) == [acc EXCEPT !.ops = With(@, p \o <<kind, t>>,
                       [NewOp(kind, "OnlineIfNotFound", o.version, t, p, p) EXCEPT !.pc = "start"])]
  IN  FoldSet(New, Update(s, p, [o EXCEPT !.todo = Tail(@)]), tiles)

GetSubTiles(p) ==
  /\ Quiet /\ ops[p].pc = "scheduled" /\ WorkerIsFree
  /\ Become(Fork(State, p, ops[p].left))
  /\ UNCHANGED <<mishaps, layer, latest, cache, call, canceller>>

StartTile(p) ==
  /\ Quiet /\ ops[p].pc = "start"
  /\ Become(Update(State, p, [ops[p] EXCEPT !.pc = "run"]))
  /\ UNCHANGED <<mishaps, layer, latest, cache, call, canceller>>

\* QueryDataForEachSubTile for the tiles that were found and have no embedded
\* data; after it the prefetch has its result.
Join(p) ==
  /\ Quiet /\ ops[p].pc = "joining" /\ ops[p].left = {}
  /\ IF ops[p].todo = <<>> THEN Become(Complete(State, p, Response("ok", 0)))
     ELSE \E tiles \in SUBSET ops[p].got : Become(Fork(State, p, tiles))
  /\ UNCHANGED <<mishaps, layer, latest, cache, call, canceller>>

-----------------------------------------------------------------------------
(* The application. *)

Kinds == {"catalog", "version", "partitions", "handle", "data", "no data", "prefetch"}
Short == {"handle", "prefetch"}
ShortOptions == {"OnlineIfNotFound"}
\* Bound: the kinds of a Brief request, and what it runs together with; the
\* options of requests to layers that are not versioned.
May(r) ==
  r \in Brief => /\ layer = "versioned"
                 /\ \A p \in DOMAIN ops : ops[p].pc # "joining" /\ ops[p].left \subseteq {AnyTile}
                 /\ \A q \in Requests \ Brief :
                      call[q].kind \in Short /\ call[q].option \in ShortOptions
Key(r) == <<r, "main">>
UpdateKey(r) == <<r, "update">>

\* CacheWithUpdate is a request for each of the other two options.
BeginRequest(s, r, k, kind, option, version) ==
  LET path == Append(k, kind)
  IN  Begin(s, path, NewOp(kind, option, version, AnyTile, k, path))

\* GetCatalog, GetCatalogMetadataVersion, GetPartitions and GetData, up to the
\* return of the repository.  GetData refuses a request with neither a data
\* handle nor a partition.
Get(r) ==
  /\ Quiet /\ call[r].pc = "idle" /\ May(r)
  /\ \E kind \in (IF r \in Brief THEN Short ELSE Kinds) \ {"prefetch"},
        option \in (IF r \in Brief \/ layer # "versioned" THEN ShortOptions ELSE FetchOptions) :
      \E version \in CASE kind = "handle" -> {1}
                       [] kind \in {"partitions", "data"} /\ option # "CacheWithUpdate" -> {0, 1}
                       [] OTHER -> {0} :
       LET placed == GenerateRequestPlaceholder(State, Key(r))
       IN  /\ call' = [call EXCEPT ![r] = [pc |-> IF option = "CacheWithUpdate" THEN "update" ELSE "insert",
                          kind |-> kind, option |-> option, version |-> version, asked |-> FALSE]]
           /\ Become(IF kind = "no data"
                     THEN RequestCallback(placed, Key(r), Response("error", 0))
                     ELSE BeginRequest(placed, r, Key(r), kind,
                            IF option = "CacheWithUpdate" THEN "CacheOnly" ELSE option, version))
  /\ UNCHANGED <<mishaps, layer, latest, cache, canceller>>

\* The update in the background, which has a key of its own.
GetUpdate(r) ==
  /\ Quiet /\ call[r].pc = "update"
  /\ LET placed == GenerateRequestPlaceholder(State, UpdateKey(r))
     IN  Become(IF call[r].kind = "no data" THEN RequestCallback(placed, UpdateKey(r), Response("error", 0))
                ELSE BeginRequest(placed, r, UpdateKey(r), call[r].kind, "OnlineIfNotFound", call[r].version))
  /\ call' = [call EXCEPT ![r].pc = "insert update"]
  /\ UNCHANGED <<mishaps, layer, latest, cache, canceller>>

InsertUpdate(r) ==
  /\ Quiet /\ call[r].pc = "insert update"
  /\ Become(Insert(State, UpdateKey(r)))
  /\ call' = [call EXCEPT ![r].pc = "insert"]
  /\ UNCHANGED <<mishaps, layer, latest, cache, canceller>>

\* The token is inserted, if the request is still pending, and returned.
Return(r) ==
  /\ Quiet /\ call[r].pc = "insert"
  /\ Become(Insert(State, Key(r)))
  /\ call' = [call EXCEPT ![r].pc = "returned"]
  /\ UNCHANGED <<mishaps, layer, latest, cache, canceller>>

\* PrefetchTilesProvider::PrefetchTiles: one at a time.
Prefetch(r) ==
  /\ Quiet /\ call[r].pc = "idle" /\ May(r)
  /\ LET placed == [GenerateRequestPlaceholder(State, Key(r)) EXCEPT !.busy = TRUE]
     IN  Become(IF prefetchProviderBusy THEN placed
                ELSE BeginRequest(placed, r, Key(r), "prefetch", "OnlineIfNotFound", 0))
  /\ call' = [call EXCEPT ![r] = [Idle EXCEPT !.kind = "prefetch", !.option = "OnlineIfNotFound",
                                   !.pc = IF prefetchProviderBusy THEN "slow down" ELSE "insert"]]
  /\ UNCHANGED <<mishaps, layer, latest, cache, canceller>>

\* The task that says so, and the token that cancels nothing.
SlowDown(r) ==
  /\ Quiet /\ call[r].pc = "slow down" /\ WorkerIsFree
  /\ Become(RequestCallback(State, Key(r), Response("error", 0)))
  /\ call' = [call EXCEPT ![r].pc = "insert"]
  /\ UNCHANGED <<mishaps, layer, latest, cache, canceller>>

\* The token of a request.
CancelToken(s, k) ==
  LET r == k[1]
      option == CASE call[r].option # "CacheWithUpdate" -> call[r].option
                  [] k[2] = "update" -> "OnlineIfNotFound"
                  [] OTHER -> "CacheOnly"
  IN  IF call[r].kind \in Shared
      THEN onRequestCancelled(s, KeyOf(call[r].kind, option, call[r].version), k)
      ELSE CancelOperation(s, Append(k, call[r].kind))

Cancel(r) ==
  /\ Quiet /\ call[r].pc = "returned" /\ ~call[r].asked /\ Mishap
  /\ Become(CancelToken(State, Key(r)))
  /\ call' = [call EXCEPT ![r].asked = TRUE]
  /\ UNCHANGED <<layer, latest, cache, canceller>>

\* CancelPendingRequests copies the map under its lock and cancels from the copy.
CopyRequests ==
  /\ Quiet /\ canceller = [pc |-> "idle", copy |-> {}] /\ Mishap
  /\ canceller' = [pc |-> "cancelling", copy |-> tokens]
  /\ UNCHANGED <<layer, latest, cache, ops, active_reqs, pending, tokens,
                 prefetchProviderBusy, call, answers, dropped>>

CancelNext ==
  /\ Quiet /\ canceller.pc = "cancelling" /\ canceller.copy # {}
  /\ \E k \in canceller.copy :
       /\ Become(CancelToken(State, k))
       /\ canceller' = [canceller EXCEPT !.copy = @ \ {k}]
  /\ UNCHANGED <<mishaps, layer, latest, cache, call>>

\* Somebody publishes a version of the catalog.
Publish ==
  /\ Quiet /\ latest < 2 /\ Mishap
  /\ latest' = latest + 1
  /\ UNCHANGED <<layer, cache, ops, active_reqs, pending, tokens,
                 prefetchProviderBusy, call, answers, canceller, dropped>>

-----------------------------------------------------------------------------
\* What an earlier session may have left in the cache: nothing, or all of the
\* first version with the URLs of some services.
Init ==
  /\ layer \in {"versioned", "volatile", "stream", "no layer", "no server"}
  /\ latest = 1
  /\ cache \in {NoCache,
               [api |-> {"query", "blob"}, catalog |-> TRUE, latestVersion |-> 1,
                layerVersions |-> {<<1, TRUE>>}, partitions |-> {1}, partition |-> {AnyTile} \X {1},
                data |-> {<<AnyTile, 1>>}]}
  /\ ops = [p \in {} |-> 0] /\ active_reqs = [k \in {} |-> 0]
  /\ pending = {} /\ tokens = {} /\ prefetchProviderBusy = FALSE
  /\ call = [r \in Requests |-> Idle]
  /\ answers = [r \in Requests |-> <<>>]
  /\ canceller = [pc |-> "idle", copy |-> {}]
  /\ dropped = FALSE
  /\ mishaps = 0

Work(p) ==
  \/ Layer(p) \/ Look(p) \/ ApiClient(p) \/ Operation(p) \/ Send(p)
  \/ Unavailable(p) \/ EffectiveTiles(p)
  \/ Answer(p) \/ Resume(p) \/ GetSubTiles(p) \/ StartTile(p) \/ Join(p)

Returns(r) == GetUpdate(r) \/ InsertUpdate(r) \/ Return(r) \/ SlowDown(r)

Next ==
  \/ \E p \in DOMAIN ops : Work(p)
  \/ \E r \in Requests : Get(r) \/ Prefetch(r) \/ Returns(r) \/ Cancel(r)
  \/ CopyRequests \/ CancelNext \/ Publish

\* As long as some thread can go on, one does: the network calls back (the
\* modules of its back-ends), the scheduler runs its tasks (ThreadPool).
Progress ==
  (\E p \in DOMAIN ops : Work(p)) \/ (\E r \in Requests : Returns(r))
Spec ==
  /\ Init /\ [][Next]_vars
  /\ WF_vars(Progress)

-----------------------------------------------------------------------------
\* A request with the option CacheOnly sends nothing: none of the operations
\* that work for it calls a service.
CacheOnlyIsOffline ==
  \A p \in DOMAIN ops : ops[p].pc = "network" =>
    LET root == SubSeq(p, 1, 3)
    IN  root \in DOMAIN ops => ops[root].option # "CacheOnly"

\* What is read of a versioned layer without naming a version is not older
\* than the catalog was when the operation began, whatever is in the cache.
FreshAnswer ==
  \A r \in Requests : \A i \in DOMAIN answers[r] :
    LET a == answers[r][i]
    IN  (call[r].kind \in {"partitions", "data"} /\ call[r].version = 0 /\ a.version # 0
           /\ call[r].option \in {"OnlineOnly", "OnlineIfNotFound"})
          => a.version >= a.since

\* The map of pending requests keeps no request that has been answered, in
\* whatever order the answer and the return of the call come.
AnsweredIsForgotten ==
  \A r \in Requests :
    (answers[r] # <<>> /\ call[r].kind # "prefetch") => Key(r) \notin pending

\* The provider is busy only while a prefetch runs.
BusyIsOwned ==
  prefetchProviderBusy => \E p \in DOMAIN ops : ops[p].kind = "prefetch"

\* An answer is what the fetch option and the missing version ask for.
AnswerIsAsAsked == CacheOnlyIsOffline /\ FreshAnswer

\* An operation that has ended leaves nothing behind that keeps others out or
\* answers for them: no pending request, no busy provider.
NothingIsLeftBehind == AnsweredIsForgotten /\ BusyIsOwned

\* Every call is answered in the end, unless a request that was shared has been
\* cancelled, with the callbacks of the others.
AnsweredUnlessDropped ==
  \A r \in Requests : (call[r].pc # "idle") ~> (answers[r] # <<>> \/ dropped)
============================================================================
