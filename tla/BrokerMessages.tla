--------------------------- MODULE BrokerMessages ---------------------------
(***************************************************************************)
(* The same messages as a broker has them: each written once, with the     *)
(* version every field came in, and one rule for what a flexible version   *)
(* changes. This is the schema that the comment above every request and    *)
(* response of the client quotes; the broker itself is external.           *)
(***************************************************************************)
EXTENDS Messages

\* Fields that a version brought, or that were there up to one.
Since(v, first, fields) == IF v >= first THEN fields ELSE <<>>
Until(v, last, fields) == IF v <= last THEN fields ELSE <<>>

\* A flexible version has compact strings, bytes, records and arrays, and tagged fields after
\* every structure; an array of one field is one of plain values.
RECURSIVE Compact(_)
Compact(fields) ==
  [i \in DOMAIN fields |->
    LET f == fields[i]
    IN  CASE f.type = "string" -> CStr(f.name)
          [] f.type = "bytes" -> Field(f.name, "brokerBytes")
          [] f.type = "records" -> Field(f.name, "compactRecords")
          [] f.type = "array" ->
               CArr(f.name, IF Len(f.of) = 1 THEN Compact(f.of) ELSE Append(Compact(f.of), Tags))
          [] OTHER -> f]

AsOf(v, flexible, fields) == IF v >= flexible THEN Flexible(Compact(fields)) ELSE fields

Throttle(v, first) == Since(v, first, <<I32("throttleTime")>>)
GroupInstance(v, first) == Since(v, first, <<Str("groupInstanceId")>>)

BrokerProduce == [v \in 0..9 |-> Table(
  AsOf(v, 9, Since(v, 3, <<Str("transactionalId")>>)
    \o <<I16("acks"), I32("timeout"), Topics(<<I32("partition"), Recs>>)>>),
  AsOf(v, 9, <<Topics(ProducedPartition \o Since(v, 2, <<I64("logAppendTime")>>)
    \o Since(v, 5, <<I64("logStartOffset")>>)
    \o Since(v, 8, <<Arr("recordErrors", <<I32("batchIndex"), Str("batchIndexErrorMessage")>>),
                     Str("errorMessage")>>))>> \o Throttle(v, 1)))]

BrokerFetch == [v \in 0..12 |-> Table(
  AsOf(v, 12, FetchWait \o Since(v, 3, <<I32("maxBytes")>>) \o Since(v, 4, <<I8("isolationLevel")>>)
    \o Since(v, 7, <<I32("sessionId"), I32("sessionEpoch")>>)
    \o <<Topics(<<I32("partition")>> \o Since(v, 9, <<I32("currentLeaderEpoch")>>)
           \o <<I64("fetchOffset")>> \o Since(v, 12, <<I32("lastFetchedEpoch")>>)
           \o Since(v, 5, <<I64("logStartOffset")>>) \o <<I32("maxBytes")>>)>>
    \o Since(v, 7, <<Forgotten>>) \o Since(v, 11, <<Str("rackId")>>)),
  AsOf(v, 12, Throttle(v, 1) \o Since(v, 7, <<I16("errorCode"), I32("sessionId")>>)
    \o <<Topics(FetchedHeader \o Since(v, 4, <<I64("lastStableOffset")>>)
           \o Since(v, 5, <<I64("lastStartOffset")>>) \o Since(v, 4, <<Aborted>>)
           \o Since(v, 11, <<I32("preferredReadReplica")>>) \o <<Recs>>)>>))]

BrokerListOffsets == [v \in 0..4 |-> Table(
  <<I32("replicaId")>> \o Since(v, 2, <<I8("isolationLevel")>>)
    \o <<Topics(<<I32("partition")>> \o Since(v, 4, <<I32("currentLeaderEpoch")>>)
           \o <<I64("timestamp")>> \o Until(v, 0, <<I32("maxNumOffsets")>>))>>,
  Throttle(v, 2)
    \o <<Topics(<<I32("partition"), I16("errorCode")>>
           \o Until(v, 0, <<Arr("offsets", <<I64("offset")>>)>>)
           \o Since(v, 1, <<I64("timestamp"), I64("offset")>>)
           \o Since(v, 4, <<I32("leaderEpoch")>>))>>)]

BrokerMetadata == [v \in 0..7 |-> Table(
  <<Arr("topics", Named)>> \o Since(v, 4, <<Bool("allowAutoTopicCreation")>>),
  Throttle(v, 3) \o <<Arr("brokers", BrokerV0 \o Since(v, 1, <<Str("rack")>>))>>
    \o Since(v, 2, <<Str("clusterId")>>) \o Since(v, 1, <<I32("controllerId")>>)
    \o <<Arr("topicMetadata", <<I16("topicErrorCode"), Str("topic")>>
           \o Since(v, 1, <<Bool("isInternal")>>)
           \o <<Arr("partitionMetadata",
                  <<I16("partitionErrorCode"), I32("partitionId"), I32("leader")>>
                    \o Since(v, 7, <<I32("leaderEpoch")>>) \o <<Replica("replicas"), Replica("isr")>>
                    \o Since(v, 5, <<Replica("offlineReplicas")>>))>>)>>)]

BrokerJoinGroup == [v \in 0..6 |-> Table(
  AsOf(v, 6, <<Str("groupId"), I32("sessionTimeout")>> \o Since(v, 1, <<I32("rebalanceTimeout")>>)
    \o <<Str("memberId")>> \o GroupInstance(v, 5) \o <<Str("protocolType"), GroupProtocols>>),
  AsOf(v, 6, Throttle(v, 2) \o Joined
    \o <<Arr("members", <<Str("memberId")>> \o GroupInstance(v, 5) \o <<Byt("memberMetadata")>>)>>))]

BrokerSyncGroup == [v \in 0..4 |-> Table(
  AsOf(v, 4, <<Str("groupId"), I32("generationId"), Str("memberId")>> \o GroupInstance(v, 3)
    \o <<GroupAssignment>>),
  AsOf(v, 4, Throttle(v, 1) \o <<I16("errorCode"), Byt("memberAssignment")>>))]

BrokerHeartbeat == [v \in 0..4 |-> Table(
  AsOf(v, 4, <<Str("groupId"), I32("groupGenerationId"), Str("memberId")>> \o GroupInstance(v, 3)),
  AsOf(v, 4, Throttle(v, 1) \o <<I16("errorCode")>>))]

BrokerLeaveGroup == [v \in 0..4 |-> Table(
  AsOf(v, 4, <<Str("groupId")>> \o Until(v, 2, <<Str("memberId")>>)
    \o Since(v, 3, <<Arr("members", <<Str("memberId"), Str("groupInstanceId")>>)>>)),
  AsOf(v, 4, Throttle(v, 1) \o <<I16("errorCode")>>
    \o Since(v, 3, <<Arr("members", <<Str("memberId"), Str("groupInstanceId"),
                                      I16("memberErrorCode")>>)>>)))]

BrokerSaslHandshake == [v \in 0..1 |-> Table(
  <<Str("mechanism")>>, <<I16("errorCode"), Arr("enabledMechanisms", Named)>>)]

BrokerSaslAuthenticate == [v \in 0..2 |-> Table(
  AsOf(v, 2, <<Byt("authBytes")>>),
  AsOf(v, 2, <<I16("errorCode"), Str("errorMessage"), Byt("authBytes")>>
    \o Since(v, 1, <<I64("sessionLifetimeMs")>>)))]

BrokerApiVersions == [v \in 0..3 |-> Table(
  AsOf(v, 3, Since(v, 3, <<Str("clientSoftwareName"), Str("clientSoftwareVersion")>>)),
  AsOf(v, 3, <<I16("errorCode"), Arr("apiVersions", ApiVersion)>> \o Throttle(v, 1)))]

BrokerInitProducerId == [v \in 0..3 |-> Table(
  AsOf(v, 2, <<Str("transactionalId"), I32("transactionTimeout")>> \o Since(v, 3, Producer)),
  AsOf(v, 2, <<I32("throttleTime"), I16("errorCode")>> \o Producer))]

\* Versions 0 and 1 of the requests of transactions are the same.
Transactional(last) == <<Str("transactionalId")>> \o Producer \o last
BrokerAddPartitionsToTxn == [v \in 0..1 |-> Table(
  Transactional(<<Topics(<<I32("partition")>>)>>),
  <<I32("throttleTime"), Topics(<<I32("partition"), I16("errorCode")>>)>>)]
BrokerAddOffsetsToTxn == [v \in 0..1 |-> Table(
  Transactional(<<Str("groupId")>>), <<I32("throttleTime"), I16("errorCode")>>)]
BrokerEndTxn == [v \in 0..1 |-> Table(
  Transactional(<<Bool("transactionResult")>>), <<I32("throttleTime"), I16("errorCode")>>)]

BrokerRequests ==
  [Produce |-> BrokerProduce, Fetch |-> BrokerFetch, ListOffsets |-> BrokerListOffsets,
   Metadata |-> BrokerMetadata, JoinGroup |-> BrokerJoinGroup, Heartbeat |-> BrokerHeartbeat,
   LeaveGroup |-> BrokerLeaveGroup, SyncGroup |-> BrokerSyncGroup,
   SaslHandshake |-> BrokerSaslHandshake, ApiVersions |-> BrokerApiVersions,
   InitProducerId |-> BrokerInitProducerId, AddPartitionsToTxn |-> BrokerAddPartitionsToTxn,
   AddOffsetsToTxn |-> BrokerAddOffsetsToTxn, EndTxn |-> BrokerEndTxn,
   SaslAuthenticate |-> BrokerSaslAuthenticate]
=============================================================================
