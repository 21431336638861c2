-------------------------- MODULE ReadRepositories --------------------------
(***************************************************************************)
(* The repositories of the read service.  A repository's operation is a    *)
(* chain of asynchronous stages, given here as a sequence: a look into the *)
(* cache, the client of a service, a call of a service, an operation of    *)
(* another repository.  CatalogClient executes the chains.                 *)
(*                                                                         *)
(* One catalog with one layer is modelled; the partitions of the layer are *)
(* the Tiles.  The version 0 stands for boost::none.  The data handle of a *)
(* partition changes with every version of the catalog.                    *)
(***************************************************************************)
EXTENDS Naturals, Sequences

CONSTANTS Tiles

FetchOptions == {"OnlineIfNotFound", "OnlineOnly", "CacheOnly", "CacheWithUpdate"}

\* What is in the key-value cache for the catalog, by kind of key.
NoCache == [api |-> {}, catalog |-> FALSE, latestVersion |-> 0, layerVersions |-> {},
            partitions |-> {}, partition |-> {}, data |-> {}]

-----------------------------------------------------------------------------
(* The cache repositories.  Clear removes by prefix. *)

ApiCachePut(c, service) == [c EXCEPT !.api = @ \cup {service}]
ApiCacheGet(c, service) == service \in c.api

CatalogCachePut(c) == [c EXCEPT !.catalog = TRUE]
CatalogCacheGet(c) == c.catalog
CatalogCachePutVersion(c, version) == [c EXCEPT !.latestVersion = version]
CatalogCacheGetVersion(c) == c.latestVersion
CatalogCacheClear(c) == NoCache

\* allLayer: also the list of the layer's partitions.
PartitionsCachePut(c, tiles, version, allLayer) ==
  [c EXCEPT !.partition = @ \cup (tiles \X {version}),
            !.partitions = @ \cup IF allLayer THEN {version} ELSE {}]

\* Mutant of PartitionsCacheGet: the key is made without the version.
PartitionsCacheGetAny(c, tile, version) == {v \in 0 .. 2 : <<tile, v>> \in c.partition}
PartitionsCacheGet(c, tile, version) == {version} \cap {v \in 0 .. 2 : <<tile, v>> \in c.partition}
PartitionsCacheGetAll(c, version) == version \in c.partitions
\* listed: whether the layer is among those that have a version.
LayerVersionsPut(c, version, listed) ==
  [c EXCEPT !.layerVersions = {q \in @ : q[1] # version} \cup {<<version, listed>>}]
LayerVersionsGet(c, version) == {q[2] : q \in {q \in c.layerVersions : q[1] = version}}
PartitionsCacheClear(c) == [c EXCEPT !.partitions = {}, !.partition = {}, !.data = {}]

\* Only partitions that Get finds are removed: their data, and they themselves
\* in every version, for the key ends with the version.
ClearPartitions(c, tile, version) ==
  IF <<tile, version>> \in c.partition
  THEN [c EXCEPT !.data = @ \ {<<tile, version>>},
                 !.partition = {q \in @ : q[1] # tile}]
  ELSE c

DataCachePut(c, tile, version) == [c EXCEPT !.data = @ \cup {<<tile, version>>}]
DataCacheGet(c, tile, version) == <<tile, version>> \in c.data
DataCacheClear(c, tile, version) == [c EXCEPT !.data = @ \ {<<tile, version>>}]

-----------------------------------------------------------------------------
(* The stages. *)

\* Look into the cache, unless the option is OnlineOnly.
Check(what) == [do |-> "check", of |-> what]
\* Look into the cache only if the option is CacheOnly.
CheckOnly(what) == [do |-> "check only", of |-> what]
\* Look into the cache whatever the option; what is found replaces the next call.
CheckAlways(what) == [do |-> "check always", of |-> what]
getApiClient(service) == [do |-> "api", of |-> service]
Call(api) == [do |-> "call", of |-> api]
Sub(kind) == [do |-> "sub", of |-> kind]
FindLayer == [do |-> "layer", of |-> ""]
Async(kind) == [do |-> "async", of |-> kind]

\* The calls: a result for 200, an ApiError with the status for the rest.
LookupApi(service) == Call("lookup")
GetCatalog == Call("GetCatalog")
GetLatestCatalogVersion == Call("GetLatestCatalogVersion")
GetLayerVersions == Call("GetLayerVersions")
GetPartitionsCall == Call("GetPartitions")
GetPartitionsbyId == Call("GetPartitionsbyId")
QuadTreeIndex == Call("QuadTreeIndex")
GetBlob == Call("GetBlob")
GetVolatileBlob == Call("GetVolatileBlob")

getApiClientChain == <<LookupApi("")>>
getCatalog == <<Check("catalog"), getApiClient("config"), GetCatalog>>
getLatestCatalogVersion ==
  <<CheckOnly("latestVersion"), getApiClient("metadata"), GetLatestCatalogVersion>>
appendPartitionsRequest == <<Sub("catalog"), FindLayer, Sub("version")>>
GetLayerVersion == <<CheckAlways("layerVersions"), GetLayerVersions>>
GetPartitions ==
  appendPartitionsRequest \o <<Check("partitions"), getApiClient("metadata")>>
     \o GetLayerVersion \o <<GetPartitionsCall>>
GetPartitionsById ==
  appendPartitionsRequest
     \o <<Check("partition"), getApiClient("query"), GetPartitionsbyId>>
GetDataInternal(layer) ==
  CASE layer = "versioned" -> <<Check("data"), getApiClient("blob"), GetBlob>>
    [] layer = "volatile" -> <<Check("data"), getApiClient("volatile-blob"), GetVolatileBlob>>
    [] OTHER -> <<[do |-> "unavailable", of |-> "stream"]>>
GetDataByHandle(layer) == <<Sub("catalog"), FindLayer>> \o GetDataInternal(layer)
GetData(layer) == <<Sub("catalog"), FindLayer, Sub("byId")>> \o GetDataInternal(layer)
GetSubQuads == <<getApiClient("query"), QuadTreeIndex>>
PrefetchTiles ==
  <<Sub("catalog"), FindLayer, Sub("version"),
    [do |-> "tiles", of |-> ""], Async("subquads"), Async("tile")>>

Chain(kind, layer) ==
  CASE kind = "api" -> getApiClientChain
    [] kind = "catalog" -> getCatalog
    [] kind = "version" -> getLatestCatalogVersion
    [] kind = "partitions" -> GetPartitions
    [] kind = "byId" -> GetPartitionsById
    [] kind = "handle" -> GetDataByHandle(layer)
    [] kind = "data" -> GetData(layer)
    [] kind = "subquads" -> GetSubQuads
    [] kind = "tile" -> GetDataInternal(layer)
    [] kind = "prefetch" -> PrefetchTiles

\* The operations that go through a MultiRequestContext, and their keys: the
\* CreateKey of the request, or the name of the service.
Shared == {"api", "catalog", "partitions", "byId", "handle", "data"}
CatalogRequestKey(option) == <<"catalog", option, 0>>
PartitionsRequestKey(option, version) == <<"partitions", option, version>>
GetKey(option, version) == <<"byId", option, version>>
DataRequestKey(kind, option, version) == <<kind, option, version>>
ApiKey(service) == <<"api", service, 0>>
KeyOf(kind, option, version) ==
  CASE kind = "catalog" -> CatalogRequestKey(option)
    [] kind = "partitions" -> PartitionsRequestKey(option, version)
    [] kind = "byId" -> GetKey(option, version)
    [] kind \in {"data", "handle"} -> DataRequestKey(kind, option, version)
    [] kind = "api" -> ApiKey(option)
    [] OTHER -> <<>>

-----------------------------------------------------------------------------
(* What the callback of a call does to the cache, by the code of the       *)
(* response.  "given" is the version that the caller of GetData asked for. *)

Remember(c, o, code, latest) ==
  LET api == Head(o.todo).of
      ok == code = "ok"
      forbidden == code = "forbidden"
  IN  CASE api = "lookup" /\ ok -> ApiCachePut(c, o.option)
        [] api = "GetCatalog" /\ ok -> CatalogCachePut(c)
        [] api = "GetLatestCatalogVersion" /\ ok -> CatalogCachePutVersion(c, latest)
        [] api \in {"GetCatalog", "GetLatestCatalogVersion"} /\ forbidden -> CatalogCacheClear(c)
        [] api = "GetLayerVersions" /\ code \in {"ok", "absent"} -> LayerVersionsPut(c, o.version, ok)
        [] api = "GetPartitions" /\ ok -> PartitionsCachePut(c, Tiles, o.version, TRUE)
        [] api \in {"GetLayerVersions", "GetPartitions"} /\ forbidden -> PartitionsCacheClear(c)
        [] api = "GetPartitionsbyId" /\ ok -> PartitionsCachePut(c, {o.tile}, o.version, FALSE)
        [] api = "GetPartitionsbyId" /\ forbidden -> ClearPartitions(c, o.tile, o.version)
        [] api = "QuadTreeIndex" /\ ok -> PartitionsCachePut(c, {o.tile}, o.version, FALSE)
        [] api \in {"GetBlob", "GetVolatileBlob"} /\ ok -> DataCachePut(c, o.tile, o.version)
        [] api \in {"GetBlob", "GetVolatileBlob"} /\ forbidden ->
             LET cleared == DataCacheClear(c, o.tile, o.version)
             IN  IF o.kind = "data" THEN ClearPartitions(cleared, o.tile, o.given) ELSE cleared
        [] OTHER -> c
=============================================================================
