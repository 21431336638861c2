---------------------------- MODULE ReadModels ----------------------------
(***************************************************************************)
(* The data model of the read service: every class with the keys its       *)
(* from_json reads and, where it is also written to the cache, the keys    *)
(* its to_json writes.                                                     *)
(***************************************************************************)
EXTENDS Json

CoverageParser == {"adminAreas"}
CoverageSerializer == {"adminAreas"}
Coverage == Class([adminAreas |-> Vec(Str)], CoverageParser, CoverageSerializer)

IndexDefinitionParser == {"name", "type", "duration", "zoomLevel"}
IndexDefinitionSerializer == {"name", "type", "duration", "zoomLevel"}
IndexDefinition ==
  Class([name |-> Str, type |-> Str, duration |-> Int64, zoomLevel |-> Int64],
        IndexDefinitionParser, IndexDefinitionSerializer)

IndexPropertiesParser == {"ttl", "indexDefinitions"}
IndexPropertiesSerializer == {"ttl", "indexDefinitions"}
IndexProperties == Class([ttl |-> Str, indexDefinitions |-> Vec(IndexDefinition)],
                         IndexPropertiesParser, IndexPropertiesSerializer)

CreatorParser == {"id"}
CreatorSerializer == {"id"}
Creator == Class([id |-> Str], CreatorParser, CreatorSerializer)

OwnerParser == {"creator", "organisation"}
OwnerSerializer == {"creator", "organisation"}
Owner == Class([creator |-> Creator, organisation |-> Creator],
               OwnerParser, OwnerSerializer)

PartitioningParser == {"scheme", "tileLevels"}
PartitioningSerializer == {"scheme", "tileLevels"}
Partitioning == Class([scheme |-> Str, tileLevels |-> Vec(Int64)],
                      PartitioningParser, PartitioningSerializer)

SchemaParser == {"hrn"}
SchemaSerializer == {"hrn"}
Schema == Class([hrn |-> Str], SchemaParser, SchemaSerializer)

StreamPropertiesParser == {"dataInThroughputMbps", "dataOutThroughputMbps"}
StreamPropertiesSerializer == {"dataInThroughputMbps", "dataOutThroughputMbps"}
StreamProperties ==
  Class([dataInThroughputMbps |-> IntOfDouble, dataOutThroughputMbps |-> IntOfDouble],
        StreamPropertiesParser, StreamPropertiesSerializer)

EncryptionParser == {"algorithm"}
EncryptionSerializer == {"algorithm"}
Encryption == Class([algorithm |-> Str], EncryptionParser, EncryptionSerializer)

VolumeParser == {"volumeType", "maxMemoryPolicy", "packageType", "encryption"}
VolumeSerializer == {"volumeType", "maxMemoryPolicy", "packageType", "encryption"}
Volume == Class([volumeType |-> Str, maxMemoryPolicy |-> Str, packageType |-> Str,
                 encryption |-> Encryption], VolumeParser, VolumeSerializer)

LayerParser ==
  {"id", "name", "summary", "description", "owner", "coverage", "schema",
   "contentType", "contentEncoding", "partitioning", "layerType", "digest", "tags",
   "billingTags", "ttl", "indexProperties", "streamProperties", "volume"}
LayerSerializer ==
  {"id", "name", "summary", "description", "owner", "coverage", "schema",
   "contentType", "contentEncoding", "partitioning", "layerType", "digest", "tags",
   "billingTags", "ttl", "indexProperties", "streamProperties", "volume"}
LayerWith(ttl) ==
  [id |-> Str, name |-> Str, summary |-> Str, description |-> Str, owner |-> Owner,
   coverage |-> Coverage, schema |-> Schema, contentType |-> Str,
   contentEncoding |-> Str, partitioning |-> Partitioning, layerType |-> Str,
   digest |-> Str, tags |-> Vec(Str), billingTags |-> Vec(Str), ttl |-> ttl,
   indexProperties |-> IndexProperties, streamProperties |-> StreamProperties,
   volume |-> Volume]
Layer == Class(LayerWith(Opt(Int64)), LayerParser, LayerSerializer)

NotificationsParser == {"enabled"}
NotificationsSerializer == {"enabled"}
Notifications ==
  Class([enabled |-> Bool], NotificationsParser, NotificationsSerializer)

CatalogParser ==
  {"id", "hrn", "name", "summary", "description", "coverage", "owner", "tags",
   "billingTags", "created", "layers", "version", "notifications"}
CatalogSerializer ==
  {"id", "hrn", "name", "summary", "description", "coverage", "owner", "tags",
   "billingTags", "created", "layers", "version", "notifications"}
CatalogOf(layer) ==
  [id |-> Str, hrn |-> Str, name |-> Str, summary |-> Str, description |-> Str,
   coverage |-> Coverage, owner |-> Owner, tags |-> Vec(Str),
   billingTags |-> Vec(Str), created |-> Str, layers |-> Vec(layer),
   version |-> Int64, notifications |-> Notifications]
Catalog == Class(CatalogOf(Layer), CatalogParser, CatalogSerializer)

ApiParser == {"api", "version", "baseURL", "parameters"}
ApiSerializer == {"api", "version", "baseURL", "parameters"}
Api == Class([api |-> Str, version |-> Str, baseURL |-> Str, parameters |-> Map(Str)],
             ApiParser, ApiSerializer)

LayerVersionParser == {"layer", "version", "timestamp"}
LayerVersionSerializer == {"layer", "version", "timestamp"}
LayerVersion == Class([layer |-> Str, version |-> Int64, timestamp |-> Int64],
                      LayerVersionParser, LayerVersionSerializer)
LayerVersionsParser == {"layerVersions", "version"}
LayerVersionsSerializer == {"layerVersions", "version"}
LayerVersions == Class([layerVersions |-> Vec(LayerVersion), version |-> Int64],
                       LayerVersionsParser, LayerVersionsSerializer)

PartitionParser ==
  {"checksum", "compressedDataSize", "dataHandle", "dataSize", "partition", "version"}
PartitionSerializer ==
  {"checksum", "compressedDataSize", "dataHandle", "dataSize", "partition", "version"}
Partition ==
  Class([checksum |-> Opt(Str), compressedDataSize |-> Opt(Int64), dataHandle |-> Str,
         dataSize |-> Opt(Int64), partition |-> Str, version |-> Opt(Int64)],
        PartitionParser, PartitionSerializer)
PartitionsParser == {"partitions"}
PartitionsSerializer == {"partitions"}
Partitions == Class([partitions |-> Vec(Partition)],
                    PartitionsParser, PartitionsSerializer)

VersionResponseParser == {"version"}
VersionResponseSerializer == {"version"}
VersionResponse == Class([version |-> Int64],
                         VersionResponseParser, VersionResponseSerializer)

\* The quad tree index is only read: its quads become Partition objects.
QuadMembers ==
  [additionalMetadata |-> Opt(Str), checksum |-> Opt(Str),
   compressedDataSize |-> Opt(Int64), dataHandle |-> Str, dataSize |-> Opt(Int64),
   partition |-> Str, subQuadKey |-> Str, version |-> Int64]
SubQuadParser == {"additionalMetadata", "checksum", "compressedDataSize", "dataHandle",
                  "dataSize", "subQuadKey", "version"}
SubQuad == Class([k \in SubQuadParser |-> QuadMembers[k]], SubQuadParser, {})
ParentQuadParser == {"additionalMetadata", "checksum", "compressedDataSize",
                     "dataHandle", "dataSize", "partition", "version"}
ParentQuad == Class([k \in ParentQuadParser |-> QuadMembers[k]], ParentQuadParser, {})
IndexParser == {"parentQuads", "subQuads"}
Index == Class([parentQuads |-> Vec(ParentQuad), subQuads |-> Vec(SubQuad)],
               IndexParser, {})
===========================================================================
