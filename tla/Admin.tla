------------------------------- MODULE Admin -------------------------------
(***************************************************************************)
(* One call of the admin client (admin/index.js) against a cluster whose   *)
(* controller, partition leaders and group coordinators move while the     *)
(* call is under way, whose other clients create and delete what the call  *)
(* is about, and whose connections drop before or after a request took     *)
(* effect.                                                                 *)
(*                                                                         *)
(* An operation is a record that says what differs between the functions   *)
(* of admin/index.js: the checks of its arguments, the method of Broker it *)
(* calls, the broker it calls it on, and the errors its catch hands back   *)
(* to the retrier (every other one is given to bail). The items of a call  *)
(* are its topics, resources, partitions or groups. "done" says which      *)
(* items are in the state the call asks for; what a broker answers for an  *)
(* item that already was is the operation's "again".                       *)
(***************************************************************************)
EXTENDS Protocol

CONSTANTS
  Nodes,           \* brokers of the cluster
  Items,           \* what a call asks for
  BrokerItems,     \* config resources that name a broker instead of a topic
  Operations,      \* names of the operations called
  ServerVersions,  \* greatest versions a server may advertise for the request of the call
  Retries,         \* retries of the retrier
  MaxMoves,        \* bound: changes of controller, leader or coordinator
  MaxFaults,       \* bound: failed requests, failed items, lost connections
  MaxLog           \* bound: messages of the partition whose offsets are asked for

ASSUME AdminAssumption ==
  /\ Nodes # {} /\ Items # {} /\ BrokerItems \subseteq Items
  /\ ServerVersions \subseteq Nat /\ Retries \in Nat

VARIABLES
  controller,  \* the controller of the cluster
  owner,       \* leader of each partition, coordinator of each group
  done,        \* items in the state the call asks for
  log,         \* timestamps of the messages of the partition
  members,     \* other members of the consumer group
  committed,   \* items whose offset the group has as the call asked
  known,       \* the client's metadata: controller and leaders
  call,        \* the call
  requests,    \* requests sent and not answered
  moves, faults

vars == <<controller, owner, done, log, members, committed, known, call, requests, moves, faults>>

NotControllerRetried == {"NOT_CONTROLLER"}

\* An operation that refreshes the metadata and calls one method.
Operation(method, target, checks, retries, again) ==
  [method |-> method, target |-> target, checks |-> checks, retries |-> retries, again |-> again,
   first |-> "refresh", then |-> "resolved", anyRetried |-> FALSE]

\* The operations of admin/index.js.
createTopicsOp ==
  [Operation(createTopics, "controller", {"topics", "names", "duplicates", "configEntries"},
             NotControllerRetried, "TOPIC_ALREADY_EXISTS") EXCEPT !.then = "leaders"]

createPartitionsOp ==
  Operation(createPartitions, "controller", {"topicPartitions", "empty", "names", "duplicates"},
            NotControllerRetried, "INVALID_PARTITIONS")

deleteTopicsOp ==
  [Operation(deleteTopics, "controller", {"topics", "names"},
             {"NOT_CONTROLLER", "UNKNOWN_TOPIC_OR_PARTITION"}, "UNKNOWN_TOPIC_OR_PARTITION")
   EXCEPT !.then = "afterRefresh"]

fetchTopicOffsetsOp ==
  [Operation(listOffsets, "knownLeader", {"topic"}, {"UNKNOWN_TOPIC_OR_PARTITION"}, "")
   EXCEPT !.first = "refreshIfNecessary", !.then = "low"]

fetchTopicOffsetsByTimestampOp ==
  [Operation(listOffsets, "knownLeader", {"topic"}, {"UNKNOWN_TOPIC_OR_PARTITION"}, "")
   EXCEPT !.first = "refreshIfNecessary", !.then = "stamp"]

fetchOffsetsOp ==
  [Operation(offsetFetch, "coordinator", {"groupId", "topics"}, {}, "") EXCEPT !.first = "locate"]

\* fetchOffsets with resolveOffsets: the offsets found are set with setOffsets.
resolveOffsetsOp == [fetchOffsetsOp EXCEPT !.then = "describe"]

resetOffsetsOp ==
  [Operation(metadata, "group", {"groupId", "topic"}, {}, "") EXCEPT !.first = "refreshIfNecessary"]

setOffsetsOp ==
  [Operation(metadata, "group", {"groupId", "topic", "partitions"}, {}, "")
   EXCEPT !.first = "describe"]

describeConfigsOp ==
  Operation(describeConfigs, "resources", {"resources", "empty", "type", "name", "configNames"},
            NotControllerRetried, "")

alterConfigsOp ==
  Operation(alterConfigs, "resources",
            {"resources", "empty", "type", "name", "configEntries", "configValue"},
            NotControllerRetried, "")

incrementalAlterConfigsOp ==
  Operation(incrementalAlterConfigs, "resources",
            {"resources", "empty", "type", "name", "configEntries"}, NotControllerRetried, "")

fetchTopicMetadataOp == Operation(metadata, "metadata", {"topic"}, {}, "")

describeClusterOp == Operation(metadata, "metadata", {}, {}, "")

listTopicsOp == Operation(metadata, "metadata", {}, {}, "")

listGroupsOp == Operation(listGroups, "each", {}, {}, "")

describeGroupsOp ==
  [Operation(describeGroups, "coordinator", {}, {}, "")
   EXCEPT !.first = "locate", !.anyRetried = TRUE]

deleteGroupsOp ==
  Operation(deleteGroups, "coordinator", {"groupIds", "names"},
            {"NOT_CONTROLLER", "COORDINATOR_NOT_AVAILABLE"}, "GROUP_ID_NOT_FOUND")

deleteTopicRecordsOp ==
  [Operation(deleteRecords, "frozenLeader", {"topic", "partitions", "leader"}, {}, "")
   EXCEPT !.first = "locate", !.anyRetried = TRUE]

createAclsOp ==
  Operation(createAcls, "controller",
            {"acl", "empty", "principal", "host", "resourceName", "operation", "patternType",
             "permissionType", "resourceType"}, NotControllerRetried, "")

describeAclsOp ==
  Operation(describeAcls, "controller",
            {"principal", "host", "resourceName", "operation", "patternType", "permissionType",
             "resourceType"}, NotControllerRetried, "")

deleteAclsOp ==
  Operation(deleteAcls, "controller",
            {"filters", "empty", "principal", "host", "resourceName", "operation", "patternType",
             "permissionType", "resourceType"}, NotControllerRetried, "")

alterPartitionReassignmentsOp ==
  Operation(alterPartitionReassignments, "controller",
            {"topics", "names", "duplicates", "partitionAssignment", "partition", "replicas"},
            NotControllerRetried, "")

listPartitionReassignmentsOp ==
  Operation(listPartitionReassignments, "controller",
            {"topics", "names", "duplicates", "partitions"}, NotControllerRetried, "")

\* electLeaders and deleteOffsets call a retrier that is not defined.
electLeadersOp ==
  [Operation(electLeaders, "controller", {}, NotControllerRetried, "")
   EXCEPT !.first = "ReferenceError"]

deleteOffsetsOp ==
  [Operation(offsetDelete, "coordinator", {"groupId", "topic"}, {"NOT_COORDINATOR"}, "")
   EXCEPT !.first = "ReferenceError"]

describeLogDirsOp == Operation(describeLogDirs, "every", {}, {}, "")

describeProducersOp == Operation(describeProducers, "knownLeader", {"topics"}, {}, "")

describeTransactionsOp ==
  [Operation(describeTransactions, "coordinator", {"transactionalIds"}, {}, "")
   EXCEPT !.first = "locate"]

listTransactionsOp == Operation(listTransactions, "every", {}, {}, "")

Admin ==
  [createTopics |-> createTopicsOp, createPartitions |-> createPartitionsOp,
   deleteTopics |-> deleteTopicsOp, fetchTopicOffsets |-> fetchTopicOffsetsOp,
   fetchTopicOffsetsByTimestamp |-> fetchTopicOffsetsByTimestampOp,
   fetchOffsets |-> fetchOffsetsOp, resolveOffsets |-> resolveOffsetsOp,
   resetOffsets |-> resetOffsetsOp, setOffsets |-> setOffsetsOp,
   describeConfigs |-> describeConfigsOp, alterConfigs |-> alterConfigsOp,
   incrementalAlterConfigs |-> incrementalAlterConfigsOp,
   fetchTopicMetadata |-> fetchTopicMetadataOp, describeCluster |-> describeClusterOp,
   listTopics |-> listTopicsOp, listGroups |-> listGroupsOp,
   describeGroups |-> describeGroupsOp, deleteGroups |-> deleteGroupsOp,
   deleteTopicRecords |-> deleteTopicRecordsOp, createAcls |-> createAclsOp,
   describeAcls |-> describeAclsOp, deleteAcls |-> deleteAclsOp,
   alterPartitionReassignments |-> alterPartitionReassignmentsOp,
   listPartitionReassignments |-> listPartitionReassignmentsOp,
   electLeaders |-> electLeadersOp, deleteOffsets |-> deleteOffsetsOp,
   describeLogDirs |-> describeLogDirsOp, describeProducers |-> describeProducersOp,
   describeTransactions |-> describeTransactionsOp, listTransactions |-> listTransactionsOp]

ASSUME OperationsAssumption == Operations \subseteq DOMAIN Admin

\* The operations that change something of the cluster by the request they send.
Writes ==
  {"createTopics", "createPartitions", "deleteTopics", "alterConfigs", "incrementalAlterConfigs",
   "deleteGroups", "deleteTopicRecords", "createAcls", "deleteAcls",
   "alterPartitionReassignments"}

-----------------------------------------------------------------------------
\* The call: "plan" says which items each broker is asked for, "unsent" and "waiting" are the
\* brokers not asked yet and not heard of, "pending" the offsets setOffsets has still to commit.
Op == Admin[call.name]

Idle ==
  [name |-> "", pc |-> "idle", bad |-> FALSE, max |-> 0, attempt |-> 0, tries |-> [n \in Nodes |-> 0],
   todo |-> {}, plan |-> [n \in Nodes |-> {}], unsent |-> {}, waiting |-> {}, failed |-> {},
   phase |-> 1, high |-> 0, offset |-> 0, pending |-> {}, assigned |-> {}, hadMembers |-> FALSE,
   error |-> ClientError("")]

Ended == call.pc \in {"resolved", "rejected"}

NoError == ClientError("")

Asked(name) ==
  IF Admin[name].method = listOffsets THEN {CHOOSE i \in Items : TRUE} ELSE Items

Reject(c, e) == [c EXCEPT !.pc = "rejected", !.error = e]

\* Mutant: retries are not counted.
RetryForever(c, e) ==
  IF isErrorRetriable(e)
  THEN [c EXCEPT !.pc = Admin[c.name].first, !.waiting = {}, !.unsent = {}]
  ELSE Reject(c, e)

\* The retrier: another attempt, or a rejection.
Retry(c, e) ==
  IF isErrorRetriable(e) /\ c.attempt < Retries
  THEN [c EXCEPT !.attempt = @ + 1, !.phase = 1, !.failed = {}, !.waiting = {}, !.todo = Asked(c.name),
                 !.pc = IF c.name = "deleteTopicRecords" THEN "waiting" ELSE Admin[c.name].first,
                 !.unsent = IF c.name = "deleteTopicRecords"
                            THEN {n \in Nodes : c.plan[n] # {}} ELSE {}]
  ELSE Reject(c, e)

\* The catch of each operation. Mind deleteTopicRecords: it looks for e.partitions, which an
\* error of the connection does not have.
Catch(c, e) ==
  LET o == Admin[c.name]
      stale == \E type \in e.types : staleMetadata(type)
  IN CASE c.name = "deleteTopicRecords" /\ isErrorRetriable(e) /\ e.types = {} ->
            Reject(c, ClientError("TypeError"))
       [] c.name = "deleteTopicRecords" /\ isErrorRetriable(e) /\ stale ->
            [c EXCEPT !.pc = "staleRefresh", !.error = e]
       [] c.name = "deleteTopicRecords" /\ (isErrorRetriable(e) => e.types # {} /\ ~stale) ->
            Retry(c, e)
       [] o.method = listOffsets /\ e.type \in o.retries ->
            [c EXCEPT !.pc = "staleRefresh", !.error = e]
       [] o.method # listOffsets /\ e.type \in o.retries -> Retry(c, e)
       [] c.name = "createTopics" /\ e.name = "KafkaJSAggregateError"
            /\ e.types = {"TOPIC_ALREADY_EXISTS"} -> [c EXCEPT !.pc = "resolved"]
       [] OTHER -> Reject(c, e)

\* Mutant: the errors collected from the answers are not thrown.
AnsweredWithErrors(c) ==
  IF c.waiting \cup c.unsent # {} THEN c ELSE [c EXCEPT !.pc = "resolved"]

\* Every broker asked has answered.
AllAnswered(c) ==
  IF c.waiting \cup c.unsent # {} THEN c
  ELSE CASE c.failed # {} /\ c.name = "deleteGroups" ->
              Catch(c, ClientError("KafkaJSDeleteGroupsError"))
         [] c.failed # {} /\ c.name = "deleteTopicRecords" ->
              Catch(c, DeleteTopicRecordsError(c.failed))
         [] Admin[c.name].then \in {"low", "stamp"} /\ c.phase = 1 ->
              [c EXCEPT !.phase = 2, !.unsent = {n \in Nodes : c.plan[n] # {}}]
         [] Admin[c.name].then \in {"low", "stamp"} /\ c.phase = 2 ->
              [c EXCEPT !.pc = "resolved"]
         [] OTHER -> [c EXCEPT !.pc = Admin[c.name].then]

\* Mutant: offset 0 is taken for "no such message".
PositiveOffset(found, high) == IF found > 0 THEN found ELSE high

\* The offset of a time: that of the first message since, else the end of the log.
OffsetByTimestamp(found, high) == IF found >= 0 THEN found ELSE high

\* The answer of a broker, or the error of its request.
Received(c, r, e) ==
  LET heard == [c EXCEPT !.waiting = @ \ {r.node}]
  IN CASE e = NoError /\ c.name = "deleteTopicRecords" ->
            AllAnswered([heard EXCEPT !.plan[r.node] = {}])
       [] e = NoError /\ c.name = "deleteGroups" ->
            AllAnswered([heard EXCEPT !.failed = @ \cup r.errors])
       [] e = NoError /\ Admin[c.name].method = listOffsets /\ c.phase = 1 ->
            AllAnswered([heard EXCEPT !.high = r.offset])
       [] e = NoError /\ Admin[c.name].method = listOffsets /\ c.phase = 2 ->
            AllAnswered([heard EXCEPT !.offset = OffsetByTimestamp(r.offset, c.high)])
       [] e = NoError /\ c.name \notin {"deleteTopicRecords", "deleteGroups"}
            /\ Admin[c.name].method # listOffsets -> AllAnswered(heard)
       [] e.name = "KafkaJSDeleteTopicRecordsError" ->
            AllAnswered([heard EXCEPT !.failed = @ \cup e.types])
       [] c.name = "describeGroups" /\ isErrorRetriable(e) /\ c.tries[r.node] < Retries ->
            [heard EXCEPT !.tries[r.node] = @ + 1, !.unsent = @ \cup {r.node}]
       [] OTHER -> Catch(c, e)

-----------------------------------------------------------------------------
Init ==
  /\ controller = (CHOOSE n \in Nodes : TRUE)   \* brokers are alike
  /\ owner \in [Items -> Nodes]
  /\ done \in SUBSET Items
  /\ log = <<>> /\ members \in BOOLEAN /\ committed = {}
  /\ known = [controller |-> controller, owner |-> owner]
  /\ call = Idle /\ requests = {} /\ moves = 0 /\ faults = 0

ClusterVars == <<controller, owner, done, log, members, committed>>

\* The arguments are checked before anything else happens.
Begin(name) ==
  /\ call.pc = "idle"
  /\ \E max \in ServerVersions, bad \in {"none"} \cup Admin[name].checks :
       LET c == [Idle EXCEPT !.name = name, !.max = max, !.bad = bad # "none", !.todo = Asked(name),
                             !.pending = Items, !.hadMembers = members]
       IN call' = CASE bad # "none" -> Reject(c, ClientError("KafkaJSNonRetriableError"))
                    [] bad = "none" /\ Admin[name].first = "ReferenceError" ->
                         Reject(c, ClientError("ReferenceError"))
                    [] OTHER -> [c EXCEPT !.pc = Admin[name].first]
  /\ UNCHANGED <<ClusterVars, known, requests, moves, faults>>

\* cluster.refreshMetadata, or cluster.metadata for the operations that only read.
Refresh ==
  /\ call.pc \in {"refresh", "afterRefresh", "staleRefresh"}
  /\ known' = [controller |-> controller, owner |-> owner]
  /\ call' = CASE call.pc = "staleRefresh" -> Retry(call, call.error)
               [] call.pc = "afterRefresh" \/ (call.pc = "refresh" /\ Op.target = "metadata") ->
                    [call EXCEPT !.pc = "resolved"]
               [] call.pc = "refresh" /\ Op.target # "metadata" -> [call EXCEPT !.pc = "locate"]
  /\ UNCHANGED <<ClusterVars, requests, moves, faults>>

RefreshFails ==
  /\ call.pc \in {"refresh", "afterRefresh", "staleRefresh"} /\ faults < MaxFaults
  /\ LET e == ClientError("KafkaJSNumberOfRetriesExceeded")
     IN call' = IF call.pc = "staleRefresh" THEN Retry(call, e) ELSE Catch(call, e)
  /\ faults' = faults + 1
  /\ UNCHANGED <<ClusterVars, known, requests, moves>>

\* addTargetTopic and refreshMetadataIfNecessary: the metadata may be recent enough.
RefreshIfNecessary ==
  /\ call.pc = "refreshIfNecessary"
  /\ known' \in {known, [controller |-> controller, owner |-> owner]}
  /\ call' = [call EXCEPT !.pc = IF Op.target = "group" THEN "describe" ELSE "locate"]
  /\ UNCHANGED <<ClusterVars, requests, moves, faults>>

\* groupResourcesByBroker: a broker's configs are asked of that broker, others of the controller.
groupResourcesByBroker(n) ==
  {i \in Items : n = (IF i \in BrokerItems THEN known.owner[i] ELSE known.controller)}

\* findLeaderForPartitions: the partitions a broker leads, in the client's metadata.
findLeaderForPartitions(n) == {i \in Asked(call.name) : known.owner[i] = n}

Plan ==
  CASE Op.target = "controller" ->
         [n \in Nodes |-> IF n = known.controller THEN Items ELSE {}]
    [] Op.target = "resources" -> [n \in Nodes |-> groupResourcesByBroker(n)]
    [] Op.target \in {"knownLeader", "frozenLeader"} ->
         [n \in Nodes |-> findLeaderForPartitions(n)]
    [] Op.target \in {"each", "every"} -> [n \in Nodes |-> Items]

Planned(c, plan) ==
  [c EXCEPT !.pc = "waiting", !.plan = plan, !.unsent = {n \in Nodes : plan[n] # {}}]

Locate ==
  /\ call.pc = "locate" /\ Op.target # "coordinator"
  /\ call' = Planned(call, Plan)
  /\ UNCHANGED <<ClusterVars, known, requests, moves, faults>>

\* findGroupCoordinator asks the cluster, for one group after another.
LocateCoordinator(i) ==
  /\ call.pc = "locate" /\ Op.target = "coordinator" /\ i \in call.todo
  /\ LET plan == IF call.todo = Items THEN [n \in Nodes |-> IF n = owner[i] THEN {i} ELSE {}]
                 ELSE [call.plan EXCEPT ![owner[i]] = @ \cup {i}]
     IN call' = IF call.todo = {i} THEN [Planned(call, plan) EXCEPT !.todo = {}]
                ELSE [call EXCEPT !.plan = plan, !.todo = @ \ {i}]
  /\ UNCHANGED <<ClusterVars, known, requests, moves, faults>>

\* The broker's method: the version of the request is looked up, and the request sent. listGroups
\* asks one broker after another.
Send ==
  /\ call.pc = "waiting" /\ call.unsent # {}
  /\ Op.target = "each" => call.waiting = {}
  /\ IF Implemented(call.max, Op.method.versions)
     THEN \E to \in IF Op.target = "each" THEN {{n} : n \in call.unsent} ELSE {call.unsent} :
            /\ requests' = requests \cup
                 {[node |-> n, items |-> call.plan[n], attempt |-> <<call.attempt, call.tries[n]>>,
                   phase |-> call.phase, served |-> FALSE, errors |-> {}, moved |-> FALSE,
                   offset |-> 0] : n \in to}
            /\ call' = [call EXCEPT !.unsent = @ \ to, !.waiting = @ \cup to]
     ELSE requests' = requests /\ call' = Catch(call, ClientError("TypeError"))
  /\ UNCHANGED <<ClusterVars, known, moves, faults>>

-----------------------------------------------------------------------------
\* The cluster (external). A request reaches a broker that may not be in charge any more.
InCharge(n, i) ==
  CASE Op.target = "controller" -> n = controller
    [] Op.target = "resources" -> i \in BrokerItems \/ n = controller
    [] Op.target \in {"coordinator", "knownLeader", "frozenLeader"} -> n = owner[i]
    [] OTHER -> TRUE

MovedType ==
  CASE Op.target \in {"controller", "resources"} -> "NOT_CONTROLLER"
    [] Op.target = "coordinator" -> "NOT_COORDINATOR_FOR_GROUP"
    [] OTHER -> "NOT_LEADER_FOR_PARTITION"

\* The offset a broker answers with: the end of the log, its beginning, or the first message that
\* is not older than the time asked for.
OffsetAnswered(phase) ==
  LET recent == {k \in 1..Len(log) : log[k] >= 1}
  IN CASE phase = 1 -> Len(log)
       [] phase = 2 /\ Op.then = "stamp" -> IF recent = {} THEN -1 ELSE Min(recent) - 1
       [] OTHER -> 0

Serve(r) ==
  /\ ~r.served
  /\ LET mine == {i \in r.items : InCharge(r.node, i)}
         repeated == IF Op.again = "" THEN {} ELSE mine \cap done
     IN \E failing \in SUBSET (mine \ repeated) :
          /\ failing # {} => faults < MaxFaults
          /\ faults' = IF failing = {} THEN faults ELSE faults + 1
          /\ done' = IF call.name \in Writes THEN done \cup (mine \ failing) ELSE done
          /\ requests' = (requests \ {r}) \cup
               {[r EXCEPT !.served = TRUE, !.offset = OffsetAnswered(r.phase), !.moved = mine = {},
                          !.errors = {type \in {MovedType} : mine # r.items}
                                     \cup {type \in {Op.again} : repeated # {}}
                                     \cup {type \in {"INVALID_REQUEST"} : failing # {}}]}
  /\ UNCHANGED <<controller, owner, log, members, committed, known, call, moves>>

\* The client's promise still waits for this answer.
Awaited(r) ==
  /\ call.pc = "waiting" /\ r.node \in call.waiting
  /\ r.attempt = <<call.attempt, call.tries[r.node]>> /\ r.phase = call.phase

Answer(r) ==
  /\ r.served /\ Awaited(r)
  /\ LET thrown == Thrown(Op.method, r.errors, r.moved)
     IN \E e \in IF thrown = {} THEN {NoError} ELSE thrown : call' = Received(call, r, e)
  /\ requests' = requests \ {r}
  /\ UNCHANGED <<ClusterVars, known, moves, faults>>

\* The connection ends before or after the broker did its work.
Lose(r) ==
  /\ Awaited(r) /\ faults < MaxFaults
  /\ call' = Received(call, r, ClientError("KafkaJSConnectionClosedError"))
  /\ requests' = requests \ {r}
  /\ faults' = faults + 1
  /\ UNCHANGED <<ClusterVars, known, moves>>

\* An answer nothing waits for: another broker's answer settled the promise before.
Ignore(r) ==
  /\ r.served /\ ~Awaited(r)
  /\ requests' = requests \ {r}
  /\ UNCHANGED <<ClusterVars, known, call, moves, faults>>

-----------------------------------------------------------------------------
\* createTopics polls the metadata until every topic has a leader, or for too long.
retryOnLeaderNotAvailable ==
  /\ call.pc = "leaders"
  /\ call' \in {[call EXCEPT !.pc = "resolved"], Catch(call, ClientError("KafkaJSTimeout"))}
  /\ UNCHANGED <<ClusterVars, known, requests, moves, faults>>

\* setOffsets: the group must have no member when it is described.
describeGroup ==
  /\ call.pc = "describe"
  /\ call' = IF members THEN Reject(call, ClientError("KafkaJSNonRetriableError"))
             ELSE [call EXCEPT !.pc = "join"]
  /\ UNCHANGED <<ClusterVars, known, requests, moves, faults>>

\* ...then a consumer joins it, with its seeks pending, and shares it with whoever joined since.
JoinGroup ==
  /\ call.pc = "join"
  /\ \E assigned \in IF members THEN SUBSET Items ELSE {Items} :
       call' = [call EXCEPT !.pc = "seek", !.assigned = assigned, !.hadMembers = members]
  /\ UNCHANGED <<ClusterVars, known, requests, moves, faults>>

\* Before its first fetch each fetcher takes the pending seeks of its partitions and commits them.
SeekOffset(i) ==
  /\ call.pc = "seek" /\ i \in call.pending \cap call.assigned
  /\ IF members = call.hadMembers
     THEN /\ committed' = committed \cup {i}
          /\ call' = [call EXCEPT !.pending = @ \ {i}]
     ELSE /\ committed' = committed
          /\ call' = [call EXCEPT !.pending = @ \ {i}, !.pc = "join"]
  /\ UNCHANGED <<controller, owner, done, log, members, known, requests, moves, faults>>

\* A commit that fails: the seek was taken already, and the fetch recovers as if it had been empty.
SeekFails(i) ==
  /\ call.pc = "seek" /\ i \in call.pending \cap call.assigned /\ faults < MaxFaults
  /\ call' = [call EXCEPT !.pending = {j \in @ : owner[j] # owner[i]}]
  /\ faults' = faults + 1
  /\ UNCHANGED <<ClusterVars, known, requests, moves>>

\* Mutant: the consumer does not wait for the fetches under way.
StopAtFirstFetch ==
  /\ call.pc = "seek"
  /\ call' = [call EXCEPT !.pc = "resolved"]
  /\ UNCHANGED <<ClusterVars, known, requests, moves, faults>>

\* The FETCH event stops the consumer, which waits for the fetches under way.
StopConsumer ==
  /\ call.pc = "seek" /\ call.pending \cap call.assigned = {}
  /\ call' = [call EXCEPT !.pc = "resolved"]
  /\ UNCHANGED <<ClusterVars, known, requests, moves, faults>>

-----------------------------------------------------------------------------
\* The rest of the world (external). Only what the call depends on is made to change.
MoveController ==
  /\ moves < MaxMoves /\ call.name # "" /\ ~Ended /\ Op.target \in {"controller", "resources"}
  /\ controller' \in Nodes \ {controller}
  /\ moves' = moves + 1
  /\ UNCHANGED <<owner, done, log, members, committed, known, call, requests, faults>>

MoveOwner(i) ==
  /\ moves < MaxMoves /\ call.name # "" /\ ~Ended
  /\ Op.target \in {"coordinator", "knownLeader", "frozenLeader"}
  /\ \E n \in Nodes \ {owner[i]} : owner' = [owner EXCEPT ![i] = n]
  /\ moves' = moves + 1
  /\ UNCHANGED <<controller, done, log, members, committed, known, call, requests, faults>>

AppendMessage ==
  /\ call.name # "" /\ Op.method = listOffsets /\ ~Ended /\ Len(log) < MaxLog
  /\ \E t \in 0..1 : (log # <<>> => t >= log[Len(log)]) /\ log' = Append(log, t)
  /\ UNCHANGED <<controller, owner, done, members, committed, known, call, requests, moves, faults>>

MemberJoins ==
  /\ ~members /\ call.pc \in {"describe", "join", "seek"} /\ members' = TRUE
  /\ UNCHANGED <<controller, owner, done, log, committed, known, call, requests, moves, faults>>

ClientStep ==
  \/ Refresh \/ RefreshIfNecessary \/ Locate \/ Send \/ retryOnLeaderNotAvailable
  \/ describeGroup \/ JoinGroup \/ StopConsumer
  \/ \E i \in Items : LocateCoordinator(i) \/ SeekOffset(i)

ServerStep == \E r \in requests : Serve(r) \/ Answer(r) \/ Ignore(r)

Disturbance ==
  \/ RefreshFails \/ MoveController \/ AppendMessage \/ MemberJoins
  \/ \E r \in requests : Lose(r)
  \/ \E i \in Items : MoveOwner(i) \/ SeekFails(i)

Done == Ended /\ requests = {} /\ UNCHANGED vars

Next == (\E name \in Operations : Begin(name)) \/ ClientStep \/ ServerStep \/ Disturbance \/ Done

Spec == Init /\ [][Next]_vars

\* Requests are answered or fail (request timeouts), promises continue: nobody may stop for ever.
FairSpec == Spec /\ WF_vars(ClientStep) /\ WF_vars(ServerStep)

-----------------------------------------------------------------------------
(* Properties. *)

\* A call that resolves has done everything it was asked to, whatever moved, failed, was answered
\* by the wrong broker, took effect without an answer or was sent again on the way
\* (admin/index.js: the retried bodies, and deleteTopicRecords' map of what is left).
ResolvedIsDone ==
  call.pc = "resolved" /\ call.name \in Writes => done = Items

\* fetchTopicOffsetsByTimestamp never skips a message: the offset it resolves with is at most
\* that of the first message not older than the time asked for, although the end of the log it
\* falls back on was read before, while messages were being appended.
ByTimestampSkipsNothing ==
  call.pc = "resolved" /\ call.name = "fetchTopicOffsetsByTimestamp"
    => \A k \in 1..Len(log) : log[k] >= 1 => call.offset <= k - 1

\* setOffsets resolves only when every offset is committed, unless a commit failed or another
\* member joined the group after it had been found empty.
OffsetsSet ==
  call.pc = "resolved" /\ Op.target = "group" /\ faults = 0 /\ ~members => committed = Items

\* Every call ends.
AdminCallsSettle == (call.pc # "idle") ~> Ended
=============================================================================
