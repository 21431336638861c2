---------------------------- MODULE WriteModels ----------------------------
(***************************************************************************)
(* The data model of the write service.  The classes of the catalog, of    *)
(* the partitions and of the API lookup are a second copy of those of the  *)
(* read service: R names the first copy, each definition here stands for   *)
(* the copy's own class or from_json, and what differs is written out (a   *)
(* layer's ttl is not optional here).  No copy is serialized.              *)
(***************************************************************************)
EXTENDS Json
R == INSTANCE ReadModels

\* A class of the first copy with the copy's own parser and no serializer.
Copy(c, from) == Class(MembersOf(c), from, {})

CoverageParser == R!CoverageParser
Coverage == Copy(R!Coverage, CoverageParser)
IndexDefinitionParser == R!IndexDefinitionParser
IndexDefinition == Copy(R!IndexDefinition, IndexDefinitionParser)
IndexPropertiesParser == R!IndexPropertiesParser
IndexProperties ==
  Class([MembersOf(R!IndexProperties) EXCEPT !.indexDefinitions = Vec(IndexDefinition)],
        IndexPropertiesParser, {})
CreatorParser == R!CreatorParser
Creator == Copy(R!Creator, CreatorParser)
OwnerParser == R!OwnerParser
Owner == Class([creator |-> Creator, organisation |-> Creator], OwnerParser, {})
PartitioningParser == R!PartitioningParser
Partitioning == Copy(R!Partitioning, PartitioningParser)
SchemaParser == R!SchemaParser
Schema == Copy(R!Schema, SchemaParser)
StreamPropertiesParser == R!StreamPropertiesParser
StreamProperties == Copy(R!StreamProperties, StreamPropertiesParser)
EncryptionParser == R!EncryptionParser
Encryption == Copy(R!Encryption, EncryptionParser)
VolumeParser == R!VolumeParser
Volume == Class([MembersOf(R!Volume) EXCEPT !.encryption = Encryption],
                VolumeParser, {})

LayerParser == R!LayerParser
Layer ==
  Class([R!LayerWith(Int64) EXCEPT
            !.owner = Owner, !.coverage = Coverage, !.schema = Schema,
            !.partitioning = Partitioning, !.indexProperties = IndexProperties,
            !.streamProperties = StreamProperties, !.volume = Volume],
        LayerParser, {})
NotificationsParser == R!NotificationsParser
Notifications == Copy(R!Notifications, NotificationsParser)
CatalogParser == R!CatalogParser
Catalog ==
  Class([R!CatalogOf(Layer) EXCEPT !.coverage = Coverage, !.owner = Owner,
                                   !.notifications = Notifications],
        CatalogParser, {})

ApiParser == R!ApiParser
Api == Copy(R!Api, ApiParser)
LayerVersionParser == R!LayerVersionParser
LayerVersion == Copy(R!LayerVersion, LayerVersionParser)
LayerVersionsParser == R!LayerVersionsParser
LayerVersions == Class([layerVersions |-> Vec(LayerVersion), version |-> Int64],
                       LayerVersionsParser, {})
PartitionParser == R!PartitionParser
Partition == Copy(R!Partition, PartitionParser)
PartitionsParser == R!PartitionsParser
Partitions == Class([partitions |-> Vec(Partition)], PartitionsParser, {})
VersionResponseParser == R!VersionResponseParser
VersionResponse == Copy(R!VersionResponse, VersionResponseParser)

(* What only the write service has. *)

DetailsParser == {"state", "message", "started", "modified", "expires"}
Details == Class([state |-> Str, message |-> Str, started |-> Int64,
                  modified |-> Int64, expires |-> Int64],
                 DetailsParser, DetailsParser)

VersionDependencyParser == {"direct", "hrn", "version"}
VersionDependency == Class([direct |-> Bool, hrn |-> Str, version |-> Int64],
                           VersionDependencyParser, {"direct", "hrn", "version"})

PublicationParser ==
  {"id", "details", "layerIds", "catalogVersion", "versionDependencies"}
PublicationSerializer ==
  {"id", "details", "layerIds", "catalogVersion", "versionDependencies"}
Publication ==
  Class([id |-> OptSet(Str), details |-> OptSet(Details),
         layerIds |-> OptSet(Vec(Str)), catalogVersion |-> OptSet(Int64),
         versionDependencies |-> OptSet(Vec(VersionDependency))],
        PublicationParser, PublicationSerializer)

PublishPartitionParser ==
  {"partition", "checksum", "compressedDataSize", "dataSize", "data", "dataHandle",
   "timestamp"}
PublishPartitionSerializer ==
  {"partition", "checksum", "compressedDataSize", "dataSize", "data", "dataHandle",
   "timestamp"}
PublishPartition ==
  Class([partition |-> OptSet(Str), checksum |-> OptSet(Str),
         compressedDataSize |-> OptSet(Int64), dataSize |-> OptSet(Int64),
         data |-> Bytes, dataHandle |-> OptSet(Str), timestamp |-> OptSet(Int64)],
        PublishPartitionParser, PublishPartitionSerializer)
PublishPartitionsParser == {"partitions"}
PublishPartitionsSerializer == {"partitions"}
PublishPartitions == Class([partitions |-> OptSet(Vec(PublishPartition))],
                           PublishPartitionsParser, PublishPartitionsSerializer)

PublishDataRequestParser == {"data", "layerId", "traceId", "billingTag", "checksum"}
\* Mutant of PublishDataRequestSerializer: the billing tag is not written.
PublishDataRequestSerializerForgets == {"data", "layerId", "traceId", "checksum"}
PublishDataRequestSerializer ==
  {"data", "layerId", "traceId", "billingTag", "checksum"}
PublishDataRequest ==
  Class([data |-> Bytes, layerId |-> Str, traceId |-> OptSet(Str),
         billingTag |-> OptSet(Str), checksum |-> OptSet(Str)],
        PublishDataRequestParser, PublishDataRequestSerializer)

TraceIDParser == {"ParentID", "GeneratedIDs"}
TraceID == Class([ParentID |-> Str, GeneratedIDs |-> Vec(Str)], TraceIDParser, {})
ResponseOkParser == {"TraceID"}
ResponseOk == Class([TraceID |-> TraceID], ResponseOkParser, {})
ResponseOkSingleParser == {"TraceID"}
ResponseOkSingle == Class([TraceID |-> Str], ResponseOkSingleParser, {})
===========================================================================
