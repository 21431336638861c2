----------------------------- MODULE WriteApis -----------------------------
(***************************************************************************)
(* The calls that the write service makes: the functions of the generated  *)
(* Api classes.  A call goes through one OlpClient, named by its service,  *)
(* with an HTTP verb, and its callback gets a result for the statuses in   *)
(* ok and an ApiError for the others.  URIs, parameters and bodies are     *)
(* left out (the bodies are in WriteModels).                               *)
(***************************************************************************)
EXTENDS Integers

Call(service, verb, ok) == [service |-> service, verb |-> verb, ok |-> ok]

\* What a network call may end with: a status of HTTP or, for Cancelled and
\* TimedOut, an error code of the network, which are all negative.
Cancelled == -5
TimedOut == -7
Statuses == {Cancelled, TimedOut, 200, 201, 202, 204, 404, 500}

\* The service did what it was asked.
Succeeded(status) == status \in 200 .. 299

\* The lookup of the base URL of a service; config is looked up at the
\* platform, the others among the resources of the catalog.
PlatformGetApis(service) == Call(service, "GET", {200})
ResourcesGetApis(service) == Call(service, "GET", {200})
LookupApi(service) ==
  IF service = "config" THEN PlatformGetApis(service) ELSE ResourcesGetApis(service)

PutBlob == Call("blob", "PUT", {200})
deleteBlob == Call("blob", "DELETE", {200, 202})
checkBlobExists == Call("blob", "HEAD", {200, 404})
GetCatalog == Call("config", "GET", {200})
insertIndexes == Call("index", "POST", {s \in Statuses : ~(s > 201)})
performUpdate == Call("index", "PUT", {s \in Statuses : ~(s > 201)})
IngestData == Call("ingest", "POST", {200})
IngestSDII == Call("ingest", "POST", {200})
GetLatestCatalogVersion == Call("metadata", "GET", {200})
InitPublication == Call("publish", "POST", {200})
UploadPartitions == Call("publish", "POST", {204})
SubmitPublication == Call("publish", "PUT", {204})
GetPublication == Call("publish", "GET", {200})
CancelPublication == Call("publish", "DELETE", {204})
GetPartitionsById == Call("query", "GET", {200})
============================================================================
