------------------------------ MODULE Messages ------------------------------
(***************************************************************************)
(* The layouts of the messages, version by version, as the client writes   *)
(* requests (protocol/requests/*/v*/request.js) and reads responses        *)
(* (response.js). Names are those of the code, and the same in every       *)
(* version: a field is only told from another of its type by its name.     *)
(* Where a version delegates to another, so does its layout here.          *)
(***************************************************************************)
EXTENDS Records

I8(name) == Field(name, "int8")
I16(name) == Field(name, "int16")
I32(name) == Field(name, "int32")
I64(name) == Field(name, "int64")
Bool(name) == Field(name, "boolean")
Str(name) == Field(name, "string")
CStr(name) == Field(name, "compactString")
Byt(name) == Field(name, "bytes")
CByt(name) == Field(name, "compactBytes")
Arr(name, of) == Items(name, "array", of)
CArr(name, of) == Items(name, "compactArray", of)
Tags == Field("tags", "tags")

\* A message of a flexible version: tagged fields behind the header and at the end.
Flexible(fields) == <<Tags>> \o fields \o <<Tags>>

\* The items most messages consist of.
Topics(partition) == Arr("topics", <<Str("topic"), Arr("partitions", partition)>>)
CTopics(partition) ==
  CArr("topics", <<CStr("topic"), CArr("partitions", Append(partition, Tags)), Tags>>)

-----------------------------------------------------------------------------
\* ApiVersions

ApiVersionsRequestV0 == <<>>
ApiVersionsRequestV1 == ApiVersionsRequestV0
ApiVersionsRequestV2 == ApiVersionsRequestV0
ApiVersionsRequestV3 == Flexible(<<CStr("clientSoftwareName"), CStr("clientSoftwareVersion")>>)

ApiVersion == <<I16("apiKey"), I16("minVersion"), I16("maxVersion")>>
ApiVersionsResponseV0 == <<I16("errorCode"), Arr("apiVersions", ApiVersion)>>
ApiVersionsResponseV1 == <<I16("errorCode"), Arr("apiVersions", ApiVersion), I32("throttleTime")>>
ApiVersionsResponseV2 == ApiVersionsResponseV1
ApiVersionsResponseV3 ==
  Flexible(<<I16("errorCode"), CArr("apiVersions", Append(ApiVersion, Tags)), I32("throttleTime")>>)

\* SaslHandshake

SaslHandshakeRequestV0 == <<Str("mechanism")>>
SaslHandshakeRequestV1 == SaslHandshakeRequestV0
SaslHandshakeResponseV0 == <<I16("errorCode"), Arr("enabledMechanisms", <<Str("name")>>)>>
SaslHandshakeResponseV1 == SaslHandshakeResponseV0

\* SaslAuthenticate: what the mechanism wrote is taken as it is, its size included, but for the
\* last version, which writes a size of its own.

SaslAuthenticateRequestV0 == <<Field("authBytes", "raw")>>
SaslAuthenticateRequestV1 == SaslAuthenticateRequestV0
SaslAuthenticateRequestV2 == Flexible(<<CByt("authBytes")>>)
SaslAuthenticateResponseV0 == <<I16("errorCode"), Str("errorMessage"), Byt("authBytes")>>
SaslAuthenticateResponseV1 ==
  <<I16("errorCode"), Str("errorMessage"), Byt("authBytes"), I64("sessionLifetimeMs")>>
SaslAuthenticateResponseV2 ==
  Flexible(<<I16("errorCode"), CStr("errorMessage"), CByt("authBytes"), I64("sessionLifetimeMs")>>)

-----------------------------------------------------------------------------
\* Produce

ProducePartition == <<I32("partition"), Field("records", "records")>>
ProduceRequestV0 == <<I16("acks"), I32("timeout"), Topics(ProducePartition)>>
ProduceRequestV1 == ProduceRequestV0
ProduceRequestV2 == <<I16("acks"), I32("timeout"), Topics(ProducePartition)>>
ProduceRequestV3 ==
  <<Str("transactionalId"), I16("acks"), I32("timeout"), Topics(ProducePartition)>>
ProduceRequestV4 == ProduceRequestV3
ProduceRequestV5 == ProduceRequestV3
ProduceRequestV6 == ProduceRequestV5
ProduceRequestV7 == ProduceRequestV6
ProduceRequestV8 == ProduceRequestV7
\* The size of the records is still that of the versions before.
ProduceRequestV9 ==
  Flexible(<<CStr("transactionalId"), I16("acks"), I32("timeout"), CTopics(ProducePartition)>>)

ProducedPartition == <<I32("partition"), I16("errorCode"), I64("baseOffset")>>
ProduceResponseV0 == <<Topics(ProducedPartition)>>
ProduceResponseV1 == <<Topics(ProducedPartition), I32("throttleTime")>>
ProduceResponseV2 ==
  <<Topics(Append(ProducedPartition, I64("logAppendTime"))), I32("throttleTime")>>
ProduceResponseV3 ==
  <<Topics(Append(ProducedPartition, I64("logAppendTime"))), I32("throttleTime")>>
ProduceResponseV4 == ProduceResponseV3
ProduceResponseV5 ==
  <<Topics(ProducedPartition \o <<I64("logAppendTime"), I64("logStartOffset")>>),
    I32("throttleTime")>>
ProduceResponseV6 == ProduceResponseV5
ProduceResponseV7 == ProduceResponseV6
ProduceResponseV8 ==
  <<Topics(ProducedPartition \o <<I64("logAppendTime"), I64("logStartOffset"),
      Arr("recordErrors", <<I32("batchIndex"), Str("batchIndexErrorMessage")>>),
      Str("errorMessage")>>),
    I32("throttleTime")>>
ProduceResponseV9 ==
  Flexible(<<CTopics(ProducedPartition \o <<I64("logAppendTime"), I64("logStartOffset"),
      CArr("recordErrors", <<I32("batchIndex"), CStr("batchIndexErrorMessage"), Tags>>),
      CStr("errorMessage")>>),
    I32("throttleTime")>>)

-----------------------------------------------------------------------------
\* Fetch

FetchWait == <<I32("replicaId"), I32("maxWaitTime"), I32("minBytes")>>
FetchPartitionV0 == <<I32("partition"), I64("fetchOffset"), I32("maxBytes")>>
FetchPartitionV5 == <<I32("partition"), I64("fetchOffset"), I64("logStartOffset"), I32("maxBytes")>>
FetchPartitionV9 ==
  <<I32("partition"), I32("currentLeaderEpoch"), I64("fetchOffset"), I64("logStartOffset"),
    I32("maxBytes")>>
Forgotten == Arr("forgottenTopics", <<Str("topic"), Arr("partitions", <<I32("partition")>>)>>)

FetchRequestV0 == FetchWait \o <<Topics(FetchPartitionV0)>>
FetchRequestV1 == FetchRequestV0
FetchRequestV2 == FetchRequestV0
FetchRequestV3 == FetchWait \o <<I32("maxBytes"), Topics(FetchPartitionV0)>>
FetchRequestV4 == FetchWait \o <<I32("maxBytes"), I8("isolationLevel"), Topics(FetchPartitionV0)>>
FetchRequestV5 == FetchWait \o <<I32("maxBytes"), I8("isolationLevel"), Topics(FetchPartitionV5)>>
FetchRequestV6 == FetchRequestV5
FetchRequestV7 ==
  FetchWait \o <<I32("maxBytes"), I8("isolationLevel"), I32("sessionId"), I32("sessionEpoch"),
                 Topics(FetchPartitionV5), Forgotten>>
FetchRequestV8 == FetchRequestV7
FetchRequestV9 ==
  FetchWait \o <<I32("maxBytes"), I8("isolationLevel"), I32("sessionId"), I32("sessionEpoch"),
                 Topics(FetchPartitionV9), Forgotten>>
FetchRequestV10 == FetchRequestV9
FetchRequestV11 ==
  FetchWait \o <<I32("maxBytes"), I8("isolationLevel"), I32("sessionId"), I32("sessionEpoch"),
                 Topics(FetchPartitionV9), Forgotten, Str("rackId")>>
FetchRequestV12 ==
  Flexible(FetchWait \o <<I32("maxBytes"), I8("isolationLevel"), I32("sessionId"),
    I32("sessionEpoch"),
    CTopics(<<I32("partition"), I32("currentLeaderEpoch"), I64("fetchOffset"),
              I32("lastFetchedEpoch"), I64("logStartOffset"), I32("maxBytes")>>),
    CArr("forgottenTopics", <<CStr("topic"), CArr("partitions", <<I32("partition")>>), Tags>>),
    CStr("rackId")>>)

FetchedHeader == <<I32("partition"), I16("errorCode"), I64("highWatermark")>>
Recs == Field("records", "records")
Aborted == Arr("abortedTransactions", <<I64("producerId"), I64("firstOffset")>>)
FetchedV5 == FetchedHeader \o <<I64("lastStableOffset"), I64("lastStartOffset"), Aborted>>

FetchResponseV0 == <<Topics(Append(FetchedHeader, Recs))>>
FetchResponseV1 == <<I32("throttleTime"), Topics(Append(FetchedHeader, Recs))>>
FetchResponseV2 == FetchResponseV1
FetchResponseV3 == FetchResponseV1
FetchResponseV4 ==
  <<I32("throttleTime"), Topics(FetchedHeader \o <<I64("lastStableOffset"), Aborted, Recs>>)>>
FetchResponseV5 == <<I32("throttleTime"), Topics(Append(FetchedV5, Recs))>>
FetchResponseV6 == FetchResponseV5
FetchResponseV7 ==
  <<I32("throttleTime"), I16("errorCode"), I32("sessionId"), Topics(Append(FetchedV5, Recs))>>
FetchResponseV8 ==
  <<I32("throttleTime"), I16("errorCode"), I32("sessionId"), Topics(Append(FetchedV5, Recs))>>
FetchResponseV9 == FetchResponseV8
FetchResponseV10 == FetchResponseV9
FetchResponseV11 ==
  <<I32("throttleTime"), I16("errorCode"), I32("sessionId"),
    Topics(FetchedV5 \o <<I32("preferredReadReplica"), Recs>>)>>
FetchResponseV12 ==
  Flexible(<<I32("throttleTime"), I16("errorCode"), I32("sessionId"),
    CTopics(FetchedHeader \o <<I64("lastStableOffset"), I64("lastStartOffset"),
      CArr("abortedTransactions", <<I64("producerId"), I64("firstOffset"), Tags>>),
      I32("preferredReadReplica"), Field("records", "compactRecords")>>)>>)

-----------------------------------------------------------------------------
\* Metadata and ListOffsets

Named == <<Str("name")>>
Replica(name) == Arr(name, <<I32("nodeId")>>)
MetadataRequestV0 == <<Arr("topics", Named)>>
MetadataRequestV1 == <<Items("topics", "nullableArray", Named)>>
MetadataRequestV2 == MetadataRequestV1
MetadataRequestV3 == MetadataRequestV1
MetadataRequestV4 == <<Items("topics", "nullableArray", Named), Bool("allowAutoTopicCreation")>>
MetadataRequestV5 == MetadataRequestV4
MetadataRequestV6 == MetadataRequestV5
MetadataRequestV7 == MetadataRequestV6

BrokerV0 == <<I32("nodeId"), Str("host"), I32("port")>>
BrokerV1 == Append(BrokerV0, Str("rack"))
PartitionV0 ==
  <<I16("partitionErrorCode"), I32("partitionId"), I32("leader"), Replica("replicas"),
    Replica("isr")>>
PartitionV5 == Append(PartitionV0, Replica("offlineReplicas"))
PartitionV7 ==
  <<I16("partitionErrorCode"), I32("partitionId"), I32("leader"), I32("leaderEpoch"),
    Replica("replicas"), Replica("isr"), Replica("offlineReplicas")>>
TopicMetadata(partition) ==
  Arr("topicMetadata", <<I16("topicErrorCode"), Str("topic"), Bool("isInternal"),
                         Arr("partitionMetadata", partition)>>)
MetadataResponseV0 ==
  <<Arr("brokers", BrokerV0),
    Arr("topicMetadata", <<I16("topicErrorCode"), Str("topic"),
                           Arr("partitionMetadata", PartitionV0)>>)>>
MetadataResponseV1 == <<Arr("brokers", BrokerV1), I32("controllerId"), TopicMetadata(PartitionV0)>>
MetadataResponseV2 ==
  <<Arr("brokers", BrokerV1), Str("clusterId"), I32("controllerId"), TopicMetadata(PartitionV0)>>
MetadataResponseV3 ==
  <<I32("throttleTime"), Arr("brokers", BrokerV1), Str("clusterId"), I32("controllerId"),
    TopicMetadata(PartitionV0)>>
MetadataResponseV4 == MetadataResponseV3
MetadataResponseV5 ==
  <<I32("throttleTime"), Arr("brokers", BrokerV1), Str("clusterId"), I32("controllerId"),
    TopicMetadata(PartitionV5)>>
MetadataResponseV6 == MetadataResponseV5
MetadataResponseV7 ==
  <<I32("throttleTime"), Arr("brokers", BrokerV1), Str("clusterId"), I32("controllerId"),
    TopicMetadata(PartitionV7)>>

ListOffsetsRequestV0 ==
  <<I32("replicaId"), Topics(<<I32("partition"), I64("timestamp"), I32("maxNumOffsets")>>)>>
ListOffsetsRequestV1 == <<I32("replicaId"), Topics(<<I32("partition"), I64("timestamp")>>)>>
ListOffsetsRequestV2 ==
  <<I32("replicaId"), I8("isolationLevel"), Topics(<<I32("partition"), I64("timestamp")>>)>>
ListOffsetsRequestV3 == ListOffsetsRequestV2
ListOffsetsRequestV4 ==
  <<I32("replicaId"), I8("isolationLevel"),
    Topics(<<I32("partition"), I32("currentLeaderEpoch"), I64("timestamp")>>)>>

Listed == <<I32("partition"), I16("errorCode"), I64("timestamp"), I64("offset")>>
ListOffsetsResponseV0 ==
  <<Topics(<<I32("partition"), I16("errorCode"), Arr("offsets", <<I64("offset")>>)>>)>>
ListOffsetsResponseV1 == <<Topics(Listed)>>
ListOffsetsResponseV2 == <<I32("throttleTime"), Topics(Listed)>>
ListOffsetsResponseV3 == ListOffsetsResponseV2
ListOffsetsResponseV4 == <<I32("throttleTime"), Topics(Append(Listed, I32("leaderEpoch")))>>

-----------------------------------------------------------------------------
\* JoinGroup, SyncGroup, Heartbeat and LeaveGroup

GroupProtocols == Arr("groupProtocols", <<Str("name"), Byt("metadata")>>)
JoinGroupRequestV0 ==
  <<Str("groupId"), I32("sessionTimeout"), Str("memberId"), Str("protocolType"), GroupProtocols>>
JoinGroupRequestV1 ==
  <<Str("groupId"), I32("sessionTimeout"), I32("rebalanceTimeout"), Str("memberId"),
    Str("protocolType"), GroupProtocols>>
JoinGroupRequestV2 == JoinGroupRequestV1
JoinGroupRequestV3 == JoinGroupRequestV2
JoinGroupRequestV4 == JoinGroupRequestV3
JoinGroupRequestV5 ==
  <<Str("groupId"), I32("sessionTimeout"), I32("rebalanceTimeout"), Str("memberId"),
    Str("groupInstanceId"), Str("protocolType"), GroupProtocols>>
JoinGroupRequestV6 ==
  Flexible(<<CStr("groupId"), I32("sessionTimeout"), I32("rebalanceTimeout"), CStr("memberId"),
    CStr("groupInstanceId"), CStr("protocolType"),
    CArr("groupProtocols", <<CStr("name"), CByt("metadata"), Tags>>)>>)

Joined == <<I16("errorCode"), I32("generationId"), Str("groupProtocol"), Str("leaderId"),
            Str("memberId")>>
Members == Arr("members", <<Str("memberId"), Byt("memberMetadata")>>)
JoinGroupResponseV0 == Append(Joined, Members)
JoinGroupResponseV1 == JoinGroupResponseV0
JoinGroupResponseV2 == <<I32("throttleTime")>> \o Append(Joined, Members)
JoinGroupResponseV3 == JoinGroupResponseV2
JoinGroupResponseV4 == JoinGroupResponseV3
JoinGroupResponseV5 ==
  <<I32("throttleTime")>> \o Joined
    \o <<Arr("members", <<Str("memberId"), Str("groupInstanceId"), Byt("memberMetadata")>>)>>
JoinGroupResponseV6 ==
  <<Tags, I32("throttleTime"), I16("errorCode"), I32("generationId"), CStr("groupProtocol"),
    CStr("leaderId"), CStr("memberId"),
    CArr("members", <<CStr("memberId"), CStr("groupInstanceId"), CByt("memberMetadata"), Tags>>)>>

GroupAssignment == Arr("groupAssignment", <<Str("memberId"), Byt("memberAssignment")>>)
SyncGroupRequestV0 == <<Str("groupId"), I32("generationId"), Str("memberId"), GroupAssignment>>
SyncGroupRequestV1 == SyncGroupRequestV0
SyncGroupRequestV2 == SyncGroupRequestV1
\* Mutant: version 3 delegates too, without its new field.
SyncGroupRequestStale == SyncGroupRequestV2

SyncGroupRequestV3 ==
  <<Str("groupId"), I32("generationId"), Str("memberId"), Str("groupInstanceId"), GroupAssignment>>
SyncGroupRequestV4 ==
  Flexible(<<CStr("groupId"), I32("generationId"), CStr("memberId"), CStr("groupInstanceId"),
    CArr("groupAssignment", <<CStr("memberId"), CByt("memberAssignment"), Tags>>)>>)
SyncGroupResponseV0 == <<I16("errorCode"), Byt("memberAssignment")>>
SyncGroupResponseV1 == <<I32("throttleTime"), I16("errorCode"), Byt("memberAssignment")>>
SyncGroupResponseV2 == SyncGroupResponseV1
SyncGroupResponseV3 == SyncGroupResponseV2
SyncGroupResponseV4 ==
  Flexible(<<I32("throttleTime"), I16("errorCode"), CByt("memberAssignment")>>)

HeartbeatRequestV0 == <<Str("groupId"), I32("groupGenerationId"), Str("memberId")>>
HeartbeatRequestV1 == HeartbeatRequestV0
HeartbeatRequestV2 == HeartbeatRequestV1
HeartbeatRequestV3 == Append(HeartbeatRequestV0, Str("groupInstanceId"))
HeartbeatRequestV4 ==
  Flexible(<<CStr("groupId"), I32("groupGenerationId"), CStr("memberId"), CStr("groupInstanceId")>>)
HeartbeatResponseV0 == <<I16("errorCode")>>
HeartbeatResponseV1 == <<I32("throttleTime"), I16("errorCode")>>
HeartbeatResponseV2 == HeartbeatResponseV1
HeartbeatResponseV3 == HeartbeatResponseV2
HeartbeatResponseV4 == Flexible(<<I32("throttleTime"), I16("errorCode")>>)

LeaveGroupRequestV0 == <<Str("groupId"), Str("memberId")>>
LeaveGroupRequestV1 == LeaveGroupRequestV0
LeaveGroupRequestV2 == LeaveGroupRequestV1
LeaveGroupRequestV3 ==
  <<Str("groupId"), Arr("members", <<Str("memberId"), Str("groupInstanceId")>>)>>
LeaveGroupRequestV4 ==
  Flexible(<<CStr("groupId"),
             CArr("members", <<CStr("memberId"), CStr("groupInstanceId"), Tags>>)>>)
LeaveGroupResponseV0 == <<I16("errorCode")>>
LeaveGroupResponseV1 == <<I32("throttleTime"), I16("errorCode")>>
LeaveGroupResponseV2 == LeaveGroupResponseV1
LeaveGroupResponseV3 ==
  <<I32("throttleTime"), I16("errorCode"),
    Arr("members", <<Str("memberId"), Str("groupInstanceId"), I16("memberErrorCode")>>)>>
LeaveGroupResponseV4 ==
  Flexible(<<I32("throttleTime"), I16("errorCode"),
    CArr("members", <<CStr("memberId"), CStr("groupInstanceId"), I16("memberErrorCode"), Tags>>)>>)

-----------------------------------------------------------------------------
\* InitProducerId, AddPartitionsToTxn, AddOffsetsToTxn and EndTxn

Producer == <<I64("producerId"), I16("producerEpoch")>>
InitProducerIdRequestV0 == <<Str("transactionalId"), I32("transactionTimeout")>>
InitProducerIdRequestV1 == InitProducerIdRequestV0
InitProducerIdRequestV2 == Flexible(<<CStr("transactionalId"), I32("transactionTimeout")>>)
InitProducerIdRequestV3 ==
  Flexible(<<CStr("transactionalId"), I32("transactionTimeout")>> \o Producer)
InitProducerIdResponseV0 == <<I32("throttleTime"), I16("errorCode")>> \o Producer
InitProducerIdResponseV1 == InitProducerIdResponseV0
InitProducerIdResponseV2 == Flexible(<<I32("throttleTime"), I16("errorCode")>> \o Producer)
InitProducerIdResponseV3 == InitProducerIdResponseV2

AddPartitionsToTxnRequestV0 ==
  <<Str("transactionalId")>> \o Producer \o <<Topics(<<I32("partition")>>)>>
AddPartitionsToTxnRequestV1 == AddPartitionsToTxnRequestV0
AddPartitionsToTxnResponseV0 ==
  <<I32("throttleTime"), Topics(<<I32("partition"), I16("errorCode")>>)>>
AddPartitionsToTxnResponseV1 == AddPartitionsToTxnResponseV0

AddOffsetsToTxnRequestV0 == <<Str("transactionalId")>> \o Producer \o <<Str("groupId")>>
AddOffsetsToTxnRequestV1 == AddOffsetsToTxnRequestV0
AddOffsetsToTxnResponseV0 == <<I32("throttleTime"), I16("errorCode")>>
AddOffsetsToTxnResponseV1 == AddOffsetsToTxnResponseV0

EndTxnRequestV0 == <<Str("transactionalId")>> \o Producer \o <<Bool("transactionResult")>>
EndTxnRequestV1 == EndTxnRequestV0
EndTxnResponseV0 == <<I32("throttleTime"), I16("errorCode")>>
EndTxnResponseV1 == EndTxnResponseV0
-----------------------------------------------------------------------------
\* The versions of each request, from version 0 on.

Table(request, response) == [request |-> request, response |-> response]

ProduceApi ==
  Table(
    <<ProduceRequestV0, ProduceRequestV1, ProduceRequestV2, ProduceRequestV3,
      ProduceRequestV4, ProduceRequestV5, ProduceRequestV6, ProduceRequestV7,
      ProduceRequestV8, ProduceRequestV9>>,
    <<ProduceResponseV0, ProduceResponseV1, ProduceResponseV2, ProduceResponseV3,
      ProduceResponseV4, ProduceResponseV5, ProduceResponseV6, ProduceResponseV7,
      ProduceResponseV8, ProduceResponseV9>>)
FetchApi ==
  Table(
    <<FetchRequestV0, FetchRequestV1, FetchRequestV2, FetchRequestV3, FetchRequestV4,
      FetchRequestV5, FetchRequestV6, FetchRequestV7, FetchRequestV8, FetchRequestV9,
      FetchRequestV10, FetchRequestV11, FetchRequestV12>>,
    <<FetchResponseV0, FetchResponseV1, FetchResponseV2, FetchResponseV3, FetchResponseV4,
      FetchResponseV5, FetchResponseV6, FetchResponseV7, FetchResponseV8, FetchResponseV9,
      FetchResponseV10, FetchResponseV11, FetchResponseV12>>)
ListOffsetsApi ==
  Table(
    <<ListOffsetsRequestV0, ListOffsetsRequestV1, ListOffsetsRequestV2,
      ListOffsetsRequestV3, ListOffsetsRequestV4>>,
    <<ListOffsetsResponseV0, ListOffsetsResponseV1, ListOffsetsResponseV2,
      ListOffsetsResponseV3, ListOffsetsResponseV4>>)
MetadataApi ==
  Table(
    <<MetadataRequestV0, MetadataRequestV1, MetadataRequestV2, MetadataRequestV3,
      MetadataRequestV4, MetadataRequestV5, MetadataRequestV6, MetadataRequestV7>>,
    <<MetadataResponseV0, MetadataResponseV1, MetadataResponseV2, MetadataResponseV3,
      MetadataResponseV4, MetadataResponseV5, MetadataResponseV6, MetadataResponseV7>>)
JoinGroupApi ==
  Table(
    <<JoinGroupRequestV0, JoinGroupRequestV1, JoinGroupRequestV2, JoinGroupRequestV3,
      JoinGroupRequestV4, JoinGroupRequestV5, JoinGroupRequestV6>>,
    <<JoinGroupResponseV0, JoinGroupResponseV1, JoinGroupResponseV2, JoinGroupResponseV3,
      JoinGroupResponseV4, JoinGroupResponseV5, JoinGroupResponseV6>>)
HeartbeatApi ==
  Table(
    <<HeartbeatRequestV0, HeartbeatRequestV1, HeartbeatRequestV2, HeartbeatRequestV3,
      HeartbeatRequestV4>>,
    <<HeartbeatResponseV0, HeartbeatResponseV1, HeartbeatResponseV2, HeartbeatResponseV3,
      HeartbeatResponseV4>>)
LeaveGroupApi ==
  Table(
    <<LeaveGroupRequestV0, LeaveGroupRequestV1, LeaveGroupRequestV2, LeaveGroupRequestV3,
      LeaveGroupRequestV4>>,
    <<LeaveGroupResponseV0, LeaveGroupResponseV1, LeaveGroupResponseV2,
      LeaveGroupResponseV3, LeaveGroupResponseV4>>)
SyncGroupApi ==
  Table(
    <<SyncGroupRequestV0, SyncGroupRequestV1, SyncGroupRequestV2, SyncGroupRequestV3,
      SyncGroupRequestV4>>,
    <<SyncGroupResponseV0, SyncGroupResponseV1, SyncGroupResponseV2, SyncGroupResponseV3,
      SyncGroupResponseV4>>)
SaslHandshakeApi ==
  Table(
    <<SaslHandshakeRequestV0, SaslHandshakeRequestV1>>,
    <<SaslHandshakeResponseV0, SaslHandshakeResponseV1>>)
ApiVersionsApi ==
  Table(
    <<ApiVersionsRequestV0, ApiVersionsRequestV1, ApiVersionsRequestV2,
      ApiVersionsRequestV3>>,
    <<ApiVersionsResponseV0, ApiVersionsResponseV1, ApiVersionsResponseV2,
      ApiVersionsResponseV3>>)
InitProducerIdApi ==
  Table(
    <<InitProducerIdRequestV0, InitProducerIdRequestV1, InitProducerIdRequestV2,
      InitProducerIdRequestV3>>,
    <<InitProducerIdResponseV0, InitProducerIdResponseV1, InitProducerIdResponseV2,
      InitProducerIdResponseV3>>)
AddPartitionsToTxnApi ==
  Table(
    <<AddPartitionsToTxnRequestV0, AddPartitionsToTxnRequestV1>>,
    <<AddPartitionsToTxnResponseV0, AddPartitionsToTxnResponseV1>>)
AddOffsetsToTxnApi ==
  Table(
    <<AddOffsetsToTxnRequestV0, AddOffsetsToTxnRequestV1>>,
    <<AddOffsetsToTxnResponseV0, AddOffsetsToTxnResponseV1>>)
EndTxnApi == Table(<<EndTxnRequestV0, EndTxnRequestV1>>, <<EndTxnResponseV0, EndTxnResponseV1>>)
SaslAuthenticateApi ==
  Table(
    <<SaslAuthenticateRequestV0, SaslAuthenticateRequestV1, SaslAuthenticateRequestV2>>,
    <<SaslAuthenticateResponseV0, SaslAuthenticateResponseV1, SaslAuthenticateResponseV2>>)

\* The keys of the requests on the wire.
ApiKeys ==
  [Produce |-> 0, Fetch |-> 1, ListOffsets |-> 2, Metadata |-> 3, JoinGroup |-> 11,
   Heartbeat |-> 12, LeaveGroup |-> 13, SyncGroup |-> 14, SaslHandshake |-> 17,
   ApiVersions |-> 18, InitProducerId |-> 22, AddPartitionsToTxn |-> 24, AddOffsetsToTxn |-> 25,
   EndTxn |-> 26, SaslAuthenticate |-> 36]

requests ==
  [Produce |-> ProduceApi, Fetch |-> FetchApi, ListOffsets |-> ListOffsetsApi,
   Metadata |-> MetadataApi, JoinGroup |-> JoinGroupApi, Heartbeat |-> HeartbeatApi,
   LeaveGroup |-> LeaveGroupApi, SyncGroup |-> SyncGroupApi, SaslHandshake |-> SaslHandshakeApi,
   ApiVersions |-> ApiVersionsApi, InitProducerId |-> InitProducerIdApi,
   AddPartitionsToTxn |-> AddPartitionsToTxnApi, AddOffsetsToTxn |-> AddOffsetsToTxnApi,
   EndTxn |-> EndTxnApi, SaslAuthenticate |-> SaslAuthenticateApi]
=============================================================================
