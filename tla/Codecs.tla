------------------------------- MODULE Codecs -------------------------------
(***************************************************************************)
(* What becomes of an object that is turned into JSON and read again.  The *)
(* read service caches catalogs, versions and partitions as JSON and reads *)
(* them back later; the write service keeps a queued PublishDataRequest as *)
(* JSON until it is flushed, and sends publications and partitions to a    *)
(* service that answers with the same classes; both services parse the     *)
(* same catalog documents with parsers of their own.                       *)
(***************************************************************************)
EXTENDS Json

CONSTANTS
  MaxChanges     \* bound: members set before the object is written

R == INSTANCE ReadModels
W == INSTANCE WriteModels

VARIABLES
  kind,          \* the class
  object,        \* the object of that class
  changes,       \* how many members were set
  doc,           \* the JSON it was written to
  loaded,        \* the object read back from it
  copied,        \* ... by the write service's parser, for a class of both
  pc             \* "built", "written" or "loaded"
vars == <<kind, object, changes, doc, loaded, copied, pc>>

ReadClasses ==
  [Catalog |-> R!Catalog, LayerVersions |-> R!LayerVersions,
   Partition |-> R!Partition, Partitions |-> R!Partitions,
   VersionResponse |-> R!VersionResponse, Api |-> R!Api]
WriteCopies ==
  [Catalog |-> W!Catalog, LayerVersions |-> W!LayerVersions,
   Partition |-> W!Partition, Partitions |-> W!Partitions,
   VersionResponse |-> W!VersionResponse, Api |-> W!Api]
WriteClasses ==
  [PublishDataRequest |-> W!PublishDataRequest, Publication |-> W!Publication,
   PublishPartitions |-> W!PublishPartitions]
\* Classes of responses that the SDK only parses.
ResponseClasses ==
  [Index |-> R!Index, ResponseOk |-> W!ResponseOk,
   ResponseOkSingle |-> W!ResponseOkSingle]
ClassOf(k) ==
  CASE k \in DOMAIN ReadClasses -> ReadClasses[k]
    [] k \in DOMAIN WriteClasses -> WriteClasses[k]
    [] k \in DOMAIN ResponseClasses -> ResponseClasses[k]

RECURSIVE ServiceClass(_)
\* The class as the service writes it: every member of it.
ServiceClass(t) ==
  CASE t[1] = "vector" -> Vec(ServiceClass(t[2]))
    [] t[1] = "class" ->
         Class([m \in DOMAIN MembersOf(t) |-> ServiceClass(MembersOf(t)[m])],
               ReadKeys(t), DOMAIN MembersOf(t))
    [] OTHER -> t
WriterOf(k) ==
  IF k \in DOMAIN ResponseClasses THEN ServiceClass(ClassOf(k)) ELSE ClassOf(k)

\* Documents of the service an object may come from: none that is JSON (which
\* gives the object its default constructor makes), one without any member,
\* and a catalog whose throughput is a fraction.
ServiceDocs(k) ==
  {Malformed} \cup
  (IF k \in {"PublishDataRequest", "PublishPartitions"} THEN {} ELSE {<<>>}) \cup
  IF k # "Catalog" THEN {}
  ELSE {[layers |-> <<[streamProperties |-> [dataInThroughputMbps |-> h]]>>] :
          h \in 0..3}

RECURSIVE Values(_)
\* The default value of a type and its simplest variations.
Values(t) ==
  {Default(t)} \cup
  CASE t[1] = "string" -> {"a"}
    [] t[1] \in {"int64", "double"} -> {3}
    [] t[1] = "bool" -> {TRUE}
    [] t[1] = "bytes" -> {<<b>> : b \in {<<>>, <<1>>, <<1, 0, 1>>, <<0>>}}
    [] t[1] \in {"optional", "set optional"} -> {<<v>> : v \in Values(t[2])}
    [] t[1] = "vector" -> {<<v>> : v \in Values(t[2])}
                            \cup {<<Default(t[2]), v>> : v \in Values(t[2])}
    [] t[1] = "map" -> {[key |-> v] : v \in Values(t[2])}
    [] t[1] = "class" ->
         LET made == Default(t)
         IN  UNION {{[made EXCEPT ![m] = v] : v \in Values(MembersOf(t)[m])} :
                      m \in DOMAIN MembersOf(t)}

Init ==
  /\ kind \in DOMAIN ReadClasses \cup DOMAIN WriteClasses \cup DOMAIN ResponseClasses
  /\ \E d \in ServiceDocs(kind) : object = Parse(ClassOf(kind), d)
  /\ changes = 0
  /\ doc = <<>> /\ loaded = <<>> /\ copied = <<>>
  /\ pc = "built"

\* A setter of the class.
Set(m) ==
  /\ pc = "built"
  /\ changes < MaxChanges
  /\ \E v \in Values(MembersOf(ClassOf(kind))[m]) :
       object' = [object EXCEPT ![m] = v]
  /\ changes' = changes + 1
  /\ UNCHANGED <<kind, doc, loaded, copied, pc>>

\* serializer::serialize of a cache Put, of Queue or of a request's body, or
\* the service writing its response.
Write ==
  /\ pc = "built"
  /\ doc' = ToJson(WriterOf(kind), object)
  /\ pc' = "written"
  /\ UNCHANGED <<kind, object, changes, loaded, copied>>

\* parser::parse of a cache Get, of Flush or of a response.
Load ==
  /\ pc = "written"
  /\ loaded' = Parse(ClassOf(kind), doc)
  /\ copied' = IF kind \in DOMAIN WriteCopies
               THEN Parse(WriteCopies[kind], doc) ELSE copied
  /\ pc' = "loaded"
  /\ UNCHANGED <<kind, object, changes, doc>>

Next ==
  \/ \E m \in DOMAIN object : Set(m)
  \/ Write
  \/ Load

Spec == Init /\ [][Next]_vars

\* An object of the read service that is put into the cache is the object
\* that is read from the cache later: no member of any class, at any depth,
\* is written under a key its parser does not read, and an optional that is
\* not set stays unset (CatalogSerializer.cpp against CatalogParser.cpp and
\* their siblings).  A response that is only parsed is read completely.
CachedIsReadBack == pc = "loaded" /\ kind \notin DOMAIN WriteClasses => loaded = object

\* The value of an optional int64 in a class whose copy is not optional.
OrZero(o) == IF o = <<>> THEN 0 ELSE o[1]

\* The two services agree on what a document says: the write service's own
\* parsers read the same catalog, versions, partitions and lookup result as
\* the read service's, but for a missing ttl, which the write service takes
\* for 0.
ServicesAgree ==
  pc = "loaded" /\ kind \in DOMAIN WriteCopies =>
    IF kind = "Catalog"
    THEN copied = [loaded EXCEPT !.layers =
                     [i \in DOMAIN @ |-> [@[i] EXCEPT !.ttl = OrZero(@)]]]
    ELSE copied = loaded

RECURSIVE ReadBack(_, _)
\* What a written value is by intent when it is read: itself, with an unset
\* member that the parser always sets replaced by its default, and bytes up
\* to the first zero.
ReadBack(t, v) ==
  CASE t[1] = "set optional" ->
         <<IF v = <<>> THEN Default(t[2]) ELSE ReadBack(t[2], v[1])>>
    [] t[1] = "bytes" -> IF v = <<>> THEN v ELSE <<CString(v[1])>>
    [] t[1] = "vector" -> [i \in DOMAIN v |-> ReadBack(t[2], v[i])]
    [] t[1] = "class" -> [k \in DOMAIN v |-> ReadBack(MembersOf(t)[k], v[k])]
    [] OTHER -> v

\* What was set in a request of the write service is what a later reader of
\* its JSON finds: the request taken from the queue has the layer, trace id,
\* billing tag, checksum and, up to its first zero byte, the data of the one
\* that was queued, and a publication or a list of partitions keeps every
\* member that was set.
WrittenIsRead ==
  pc = "loaded" /\ kind \in DOMAIN WriteClasses =>
    loaded = ReadBack(ClassOf(kind), object)

\* Whoever reads a document, the cache, the other service or the queue, finds
\* what its writer put there.
DocumentsAreRead == CachedIsReadBack /\ ServicesAgree /\ WrittenIsRead

\* StreamLayerClient.h says of Queue that the request is queued "to be sent
\* over the wire at a later time": the data taken from the queue is the data
\* that was queued.
QueuedDataIsKept ==
  pc = "loaded" /\ kind = "PublishDataRequest" => loaded.data = object.data
=============================================================================
