------------------------------ MODULE Protocol ------------------------------
(***************************************************************************)
(* What the client knows of the Kafka protocol, as far as control depends  *)
(* on it: which error codes and which error classes may be retried         *)
(* (protocol/error.js, errors.js, retry/index.js), which versions of each  *)
(* request the client implements (protocol/requests/*/index.js), how the   *)
(* version of a request is chosen (lookup), and for every method of Broker *)
(* how the response reports errors (broker/index.js with the parse         *)
(* functions of the responses).                                            *)
(*                                                                         *)
(* An error is a record: its class name, its protocol type ("" when it has *)
(* none), whether it may be retried, and the types of the errors it        *)
(* collects (deleteRecords, createTopics).                                 *)
(***************************************************************************)
EXTENDS Integers, FiniteSets, FiniteSetsExt, Sequences, TLC

\* The protocol errors that may be retried, in the order of the table of error codes: every
\* other code of the table, and every code the table lacks, is not.
Retriable1To24 ==
  {"CORRUPT_MESSAGE", "UNKNOWN_TOPIC_OR_PARTITION", "LEADER_NOT_AVAILABLE",
   "NOT_LEADER_FOR_PARTITION", "REQUEST_TIMED_OUT", "REPLICA_NOT_AVAILABLE", "NETWORK_EXCEPTION",
   "GROUP_LOAD_IN_PROGRESS", "GROUP_COORDINATOR_NOT_AVAILABLE", "NOT_COORDINATOR_FOR_GROUP",
   "NOT_ENOUGH_REPLICAS", "NOT_ENOUGH_REPLICAS_AFTER_APPEND"}

Retriable25To48 == {"NOT_CONTROLLER"}

Retriable49To70 == {"CONCURRENT_TRANSACTIONS", "KAFKA_STORAGE_ERROR", "FETCH_SESSION_ID_NOT_FOUND"}

Retriable71To93 ==
  {"INVALID_FETCH_SESSION_EPOCH", "LISTENER_NOT_FOUND", "FENCED_LEADER_EPOCH",
   "UNKNOWN_LEADER_EPOCH", "OFFSET_NOT_AVAILABLE", "PREFERRED_LEADER_NOT_AVAILABLE",
   "ELIGIBLE_LEADERS_NOT_AVAILABLE", "ELECTION_NOT_NEEDED", "UNSTABLE_OFFSET_COMMIT",
   "THROTTLING_QUOTA_EXCEEDED"}

Retriable94To116 == {"UNKNOWN_TOPIC_ID", "INCONSISTENT_TOPIC_ID", "FETCH_SESSION_TOPIC_ID_ERROR"}

Retriable117To127 == {"SHARE_SESSION_NOT_FOUND", "INVALID_SHARE_SESSION_EPOCH", "FENCED_STATE_EPOCH"}

RetriableTypes ==
  UNION {Retriable1To24, Retriable25To48, Retriable49To70, Retriable71To93, Retriable94To116,
         Retriable117To127}

\* createErrorFromCode: the error of a code of the table.
createErrorFromCode(type) ==
  [name |-> "KafkaJSProtocolError", type |-> type, retriable |-> type \in RetriableTypes,
   types |-> {type}]

\* staleMetadata: the errors that say the client's picture of the cluster is old.
staleMetadata(type) ==
  type \in {"UNKNOWN_TOPIC_OR_PARTITION", "LEADER_NOT_AVAILABLE", "NOT_LEADER_FOR_PARTITION",
            "UNKNOWN_TOPIC_ID"}

\* The error classes without a protocol type that may be retried (KafkaJSError's default)...
RetriableClasses ==
  {"KafkaJSError", "KafkaJSConnectionError", "KafkaJSConnectionClosedError",
   "KafkaJSRequestTimeoutError", "KafkaJSMetadataNotLoaded", "KafkaJSTopicMetadataNotLoaded",
   "KafkaJSStaleTopicMetadataAssignment", "KafkaJSDeleteGroupsError"}

\* ...with those at the end of the file: an aggregate is a plain Error, which has no "retriable"
\* and so may be retried too.
RetriableClassesToo ==
  {"KafkaJSBrokerNotFound", "KafkaJSAggregateError", "KafkaJSFetcherRebalanceError",
   "KafkaJSNoBrokerAvailableError"}

ClientError(name) ==
  [name |-> name, type |-> "", retriable |-> name \in RetriableClasses \cup RetriableClassesToo,
   types |-> {}]

Aggregate(types) ==
  [name |-> "KafkaJSAggregateError", type |-> "", retriable |-> TRUE, types |-> types]

\* KafkaJSDeleteTopicRecordsError: retriable when every error it collects is.
DeleteTopicRecordsError(types) ==
  [name |-> "KafkaJSDeleteTopicRecordsError", type |-> "",
   retriable |-> types \subseteq RetriableTypes, types |-> types]

\* isErrorRetriable of the retrier: errors of the language itself never are.
isErrorRetriable(e) ==
  e.retriable /\ e.name \notin {"RangeError", "ReferenceError", "SyntaxError", "TypeError"}

-----------------------------------------------------------------------------
\* Choosing the version of a request (lookup): the best the client implements, or the best the
\* server supports if that is less. Nothing looks at whether the client implements the result,
\* nor at the least version the server supports.
BestImplemented(versions) == Max(versions)

lookup(max, versions) == Min({BestImplemented(versions), max})

\* versions[version] of a version that is not implemented is undefined, and calling it throws.
Implemented(max, versions) == lookup(max, versions) \in versions

\* A method of Broker: the versions of its request, and how the response's parse reports the
\* errors of the items of the request.
Method(versions, parse) == [versions |-> versions, parse |-> parse]

\* The versions implemented, one table for each request.
metadataVersions == 0..7
listOffsetsVersions == 0..4
offsetFetchVersions == 1..5
createTopicsVersions == {0, 1, 2, 3, 5}
createPartitionsVersions == 0..1
deleteTopicsVersions == {0, 1, 4}
describeConfigsVersions == {0, 1, 2, 4}
alterConfigsVersions == 0..2
incrementalAlterConfigsVersions == 0..1
describeGroupsVersions == {0, 1, 2, 5}
deleteGroupsVersions == 0..2
listGroupsVersions == {0, 1, 2, 4}
deleteRecordsVersions == 0..1
createAclsVersions == 0..1
describeAclsVersions == 0..1
deleteAclsVersions == 0..1
alterPartitionReassignmentsVersions == {0}
listPartitionReassignmentsVersions == {0}
electLeadersVersions == 0..2
offsetDeleteVersions == {0}
describeLogDirsVersions == {0, 2}
describeProducersVersions == {0}
describeTransactionsVersions == {0}
listTransactionsVersions == {0}

\* The methods of Broker. "first": parse throws the error of the first item that failed;
\* "aggregate": one error without a type for all of them; "top": a failure of the whole request
\* keeps its type, those of the items are aggregated; "partitions": a DeleteTopicRecordsError;
\* "none": the errors are data for the caller.
metadata == Method(metadataVersions, "first")
listOffsets == Method(listOffsetsVersions, "first")
offsetFetch == Method(offsetFetchVersions, "first")
createTopics == Method(createTopicsVersions, "aggregate")
createPartitions == Method(createPartitionsVersions, "first")
deleteTopics == Method(deleteTopicsVersions, "first")
describeConfigs == Method(describeConfigsVersions, "first")
alterConfigs == Method(alterConfigsVersions, "first")
incrementalAlterConfigs == Method(incrementalAlterConfigsVersions, "first")
describeGroups == Method(describeGroupsVersions, "first")
deleteGroups == Method(deleteGroupsVersions, "none")
listGroups == Method(listGroupsVersions, "first")
deleteRecords == Method(deleteRecordsVersions, "partitions")
createAcls == Method(createAclsVersions, "first")
describeAcls == Method(describeAclsVersions, "first")
deleteAcls == Method(deleteAclsVersions, "first")
alterPartitionReassignments == Method(alterPartitionReassignmentsVersions, "top")
listPartitionReassignments == Method(listPartitionReassignmentsVersions, "first")
electLeaders == Method(electLeadersVersions, "first")
offsetDelete == Method(offsetDeleteVersions, "first")
describeLogDirs == Method(describeLogDirsVersions, "first")
describeProducers == Method(describeProducersVersions, "none")
describeTransactions == Method(describeTransactionsVersions, "none")
listTransactions == Method(listTransactionsVersions, "none")

\* What parse makes of the errors of the items: the errors it may throw, none when it succeeds.
Thrown(method, errors, wholeRequest) ==
  IF errors = {} \/ method.parse = "none" THEN {}
  ELSE CASE method.parse = "first" \/ (method.parse = "top" /\ wholeRequest) ->
              {createErrorFromCode(type) : type \in errors}
         [] method.parse = "aggregate" \/ (method.parse = "top" /\ ~wholeRequest) ->
              {Aggregate(errors)}
         [] method.parse = "partitions" -> {DeleteTopicRecordsError(errors)}
=============================================================================
