----------------------------- MODULE AdminProofs -----------------------------
(***************************************************************************)
(* Proofs about the admin client, for any brokers, items and operations    *)
(* and any number of retries, moves and faults: a call that resolves has   *)
(* done what it was asked to, an offset found by time skips no message, and*)
(* setOffsets commits every offset unless it was disturbed.                *)
(***************************************************************************)
EXTENDS Admin, WellFoundedInduction, TLAPS

-----------------------------------------------------------------------------
(***************************************************************************)
(* The inductive invariant                                                 *)
(***************************************************************************)

\* What makes a value a call or a request: it has these fields.
CallFields ==
    {"name", "pc", "bad", "max", "attempt", "tries", "todo", "plan", "unsent", "waiting",
     "failed", "phase", "high", "offset", "pending", "assigned", "hadMembers", "error"}
RequestFields ==
    {"node", "items", "attempt", "phase", "served", "errors", "moved", "offset"}

IsCall(c) == c = [f \in CallFields |-> c[f]]
IsRequest(r) == r = [f \in RequestFields |-> r[f]]

\* The operations the properties are about.
Stamp == "fetchTopicOffsetsByTimestamp"
Followed == Writes \cup {Stamp}
Grouped == {"resetOffsets", "setOffsets"}

\* The world around the call.
WorldOK ==
    /\ controller \in Nodes /\ owner \in [Items -> Nodes]
    /\ known.controller \in Nodes /\ known.owner \in [Items -> Nodes]
    /\ done \subseteq Items /\ committed \subseteq Items /\ members \in BOOLEAN
    /\ log \in Seq(0..1) /\ faults \in Nat
    /\ \A r \in requests : IsRequest(r) /\ r.served \in BOOLEAN

CallOK(c) ==
    /\ IsCall(c)
    /\ c.name \in Operations \cup {""}
    /\ c.pc = "idle" <=> c.name = ""
    /\ c.pc = "idle" => requests = {}
    /\ c.name \in Followed =>
          /\ c.attempt \in Nat /\ c.phase \in {1, 2}
          /\ c.plan \in [Nodes -> SUBSET Items]
          /\ c.unsent \subseteq Nodes /\ c.waiting \subseteq Nodes

\* An operation that writes: every item is done, or a broker is still asked for
\* it, or an error has been collected; a plan that is kept for the next attempt
\* has every item that is not done.
WriteOK(c) ==
    c.name \in Writes =>
        /\ c.phase = 1
        /\ c.pc \in {"refresh", "locate", "waiting", "staleRefresh", "afterRefresh", "leaders",
                     "resolved", "rejected"}
        /\ c.failed # {} => c.name \in {"deleteGroups", "deleteTopicRecords"}
        /\ c.name = "deleteTopicRecords" =>
              /\ c.pc \in {"locate", "waiting", "staleRefresh", "resolved", "rejected"}
              /\ c.pc \in {"waiting", "staleRefresh"} =>
                    \A i \in Items \ done : \E n \in Nodes : i \in c.plan[n]
        /\ c.pc = "staleRefresh" => c.name = "deleteTopicRecords"
        /\ c.pc \in {"refresh", "locate"} => c.waiting = {}
        /\ c.pc = "refresh" => c.todo = Items
        /\ c.pc = "locate" /\ c.name = "deleteGroups" =>
              /\ c.todo \subseteq Items
              /\ c.todo # Items => \A i \in Items \ c.todo : \E n \in Nodes : i \in c.plan[n]
        /\ c.pc = "waiting" /\ c.failed = {} =>
              \A i \in Items \ done : \E n \in c.unsent \cup c.waiting : i \in c.plan[n]
        /\ c.pc = "waiting" /\ c.name = "createTopics" =>
              \A n \in c.unsent \cup c.waiting : c.plan[n] = Items
        /\ c.pc \in {"afterRefresh", "leaders", "resolved"} => done = Items

\* An offset from which no message that is recent enough is skipped.
Safe(o) ==
    /\ o \in Int /\ o <= Len(log)
    /\ \A k \in 1..Len(log) : log[k] >= 1 => o <= k - 1

StampOK(c) ==
    c.name = Stamp =>
        /\ c.pc \in {"refreshIfNecessary", "locate", "waiting", "staleRefresh", "resolved",
                     "rejected"}
        /\ c.high \in Nat /\ c.high <= Len(log)
        /\ Safe(c.offset)

\* Requests of the current attempt, and what the answer to one says.
RequestOK(c, r) ==
    c.name \in Followed =>
        /\ r.node \in Nodes /\ r.items \subseteq Items
        /\ r.attempt[1] \in Nat /\ r.attempt[1] <= c.attempt /\ r.phase \in {1, 2}
        /\ r.attempt[1] = c.attempt =>
              /\ c.pc \notin {"refresh", "refreshIfNecessary", "locate"}
              /\ r.phase <= c.phase
              /\ r.phase = c.phase => r.node \notin c.unsent
              /\ r.phase = c.phase /\ r.node \in c.waiting => r.items = c.plan[r.node]
              /\ c.name = Stamp /\ r.served /\ r.phase = 2 =>
                    Safe(OffsetByTimestamp(r.offset, c.high))
        /\ c.name = Stamp /\ r.served /\ r.phase = 1 => r.offset \in 0..Len(log)
        /\ c.name \in Writes /\ r.served =>
              /\ r.errors = {} => r.items \subseteq done
              /\ c.name = "createTopics" /\ r.errors = {"TOPIC_ALREADY_EXISTS"} =>
                    r.items \subseteq done

\* setOffsets, as long as nothing has failed and nobody has joined the group.
GroupOK(c) ==
    c.name \in Grouped =>
        /\ c.pc \in {"refreshIfNecessary", "describe", "join", "seek", "resolved", "rejected"}
        /\ faults = 0 /\ ~members =>
              /\ c.hadMembers = FALSE
              /\ c.pending \subseteq Items /\ Items \subseteq c.pending \cup committed
              /\ c.pc = "seek" => c.assigned = Items
              /\ c.pc = "resolved" => committed = Items

Good(c) ==
    /\ CallOK(c) /\ WriteOK(c) /\ StampOK(c) /\ GroupOK(c)
    /\ \A r \in requests : RequestOK(c, r)

AdminInv == WorldOK /\ Good(call)

-----------------------------------------------------------------------------
(***************************************************************************)
(* The table of the operations                                             *)
(***************************************************************************)

\* Where each operation is in the table.
LEMMA Table ==
    /\ \A x \in DOMAIN Admin :
          \/ x \in Writes \/ x \in Grouped \/ x = Stamp
          \/ x \in {"fetchTopicOffsets", "fetchOffsets", "resolveOffsets", "describeConfigs",
                    "fetchTopicMetadata", "describeCluster", "listTopics", "listGroups",
                    "describeGroups", "describeAcls", "listPartitionReassignments",
                    "electLeaders", "deleteOffsets", "describeLogDirs", "describeProducers",
                    "describeTransactions", "listTransactions"}
    /\ "" \notin DOMAIN Admin
  BY DEF Admin, Writes, Grouped, Stamp

\* The first and the last step of an operation that is not followed.
LEMMA OtherTable ==
    \A x \in {"fetchTopicOffsets", "fetchOffsets", "resolveOffsets", "describeConfigs",
              "fetchTopicMetadata", "describeCluster", "listTopics", "listGroups",
              "describeGroups", "describeAcls", "listPartitionReassignments",
              "electLeaders", "deleteOffsets", "describeLogDirs", "describeProducers",
              "describeTransactions", "listTransactions"} :
        /\ Admin[x].first # "idle" /\ Admin[x].then # "idle" /\ Admin[x].target # "group"
<1>1. /\ Admin["fetchTopicOffsets"] = fetchTopicOffsetsOp
      /\ Admin["fetchOffsets"] = fetchOffsetsOp
      /\ Admin["resolveOffsets"] = resolveOffsetsOp
      /\ Admin["describeConfigs"] = describeConfigsOp
      /\ Admin["fetchTopicMetadata"] = fetchTopicMetadataOp
      /\ Admin["describeCluster"] = describeClusterOp
  BY DEF Admin
<1>2. /\ Admin["listTopics"] = listTopicsOp
      /\ Admin["listGroups"] = listGroupsOp
      /\ Admin["describeGroups"] = describeGroupsOp
      /\ Admin["describeAcls"] = describeAclsOp
      /\ Admin["listPartitionReassignments"] = listPartitionReassignmentsOp
      /\ Admin["electLeaders"] = electLeadersOp
  BY DEF Admin
<1>3. /\ Admin["deleteOffsets"] = deleteOffsetsOp
      /\ Admin["describeLogDirs"] = describeLogDirsOp
      /\ Admin["describeProducers"] = describeProducersOp
      /\ Admin["describeTransactions"] = describeTransactionsOp
      /\ Admin["listTransactions"] = listTransactionsOp
  BY DEF Admin
<1> DEFINE Fine(o) == o.first # "idle" /\ o.then # "idle" /\ o.target # "group"
<1>4. /\ Fine(fetchTopicOffsetsOp) /\ Fine(fetchOffsetsOp) /\ Fine(resolveOffsetsOp)
      /\ Fine(describeConfigsOp) /\ Fine(fetchTopicMetadataOp) /\ Fine(describeClusterOp)
  BY DEF fetchTopicOffsetsOp, fetchOffsetsOp, resolveOffsetsOp, describeConfigsOp,
         fetchTopicMetadataOp, describeClusterOp, Operation
<1>5. /\ Fine(listTopicsOp) /\ Fine(listGroupsOp) /\ Fine(describeGroupsOp)
      /\ Fine(describeAclsOp) /\ Fine(listPartitionReassignmentsOp) /\ Fine(electLeadersOp)
  BY DEF listTopicsOp, listGroupsOp, describeGroupsOp, describeAclsOp,
         listPartitionReassignmentsOp, electLeadersOp, Operation
<1>6. /\ Fine(deleteOffsetsOp) /\ Fine(describeLogDirsOp) /\ Fine(describeProducersOp)
      /\ Fine(describeTransactionsOp) /\ Fine(listTransactionsOp)
  BY DEF deleteOffsetsOp, describeLogDirsOp, describeProducersOp, describeTransactionsOp,
         listTransactionsOp, Operation
<1> HIDE DEF Fine
<1>7. \A x \in {"fetchTopicOffsets", "fetchOffsets", "resolveOffsets", "describeConfigs",
              "fetchTopicMetadata", "describeCluster", "listTopics", "listGroups",
              "describeGroups", "describeAcls", "listPartitionReassignments",
              "electLeaders", "deleteOffsets", "describeLogDirs", "describeProducers",
              "describeTransactions", "listTransactions"} : Fine(Admin[x])
  BY <1>1, <1>2, <1>3, <1>4, <1>5, <1>6
<1> QED
  BY <1>7 DEF Fine

\* The operations of setOffsets.
LEMMA GroupTable ==
    \A x \in Grouped :
        /\ Admin[x].first \in {"refreshIfNecessary", "describe"}
        /\ Admin[x].then = "resolved" /\ Admin[x].target = "group"
<1>1. Admin["resetOffsets"] = resetOffsetsOp /\ Admin["setOffsets"] = setOffsetsOp
  BY DEF Admin
<1>2. /\ resetOffsetsOp.first = "refreshIfNecessary" /\ setOffsetsOp.first = "describe"
      /\ resetOffsetsOp.then = "resolved" /\ resetOffsetsOp.target = "group"
      /\ setOffsetsOp.then = "resolved" /\ setOffsetsOp.target = "group"
  BY DEF resetOffsetsOp, setOffsetsOp, Operation
<1> QED
  BY <1>1, <1>2 DEF Grouped

\* fetchTopicOffsetsByTimestamp.
LEMMA StampTable ==
    /\ Admin[Stamp].first = "refreshIfNecessary" /\ Admin[Stamp].then = "stamp"
    /\ Admin[Stamp].target = "knownLeader" /\ Admin[Stamp].method = listOffsets
<1>1. Admin[Stamp] = fetchTopicOffsetsByTimestampOp
  BY DEF Admin, Stamp
<1> QED
  BY <1>1 DEF fetchTopicOffsetsByTimestampOp, Operation

\* The operations that write.
LEMMA WriteTable ==
    \A x \in Writes :
        LET o == Admin[x]
        IN /\ o.first = IF x = "deleteTopicRecords" THEN "locate" ELSE "refresh"
           /\ o.then \in {"resolved", "leaders", "afterRefresh"}
           /\ x = "deleteTopicRecords" \/ x = "deleteGroups" => o.then = "resolved"
           /\ o.method # listOffsets
           /\ o.target = CASE x \in {"alterConfigs", "incrementalAlterConfigs"} -> "resources"
                           [] x = "deleteGroups" -> "coordinator"
                           [] x = "deleteTopicRecords" -> "frozenLeader"
                           [] OTHER -> "controller"
           /\ o.method.parse = CASE x = "deleteGroups" -> "none"
                                 [] x = "deleteTopicRecords" -> "partitions"
                                 [] x = "createTopics" -> "aggregate"
                                 [] x = "alterPartitionReassignments" -> "top"
                                 [] OTHER -> "first"
           /\ x = "createTopics" => o.again = "TOPIC_ALREADY_EXISTS"
<1>1. /\ Admin["createTopics"] = createTopicsOp /\ Admin["createPartitions"] = createPartitionsOp
      /\ Admin["deleteTopics"] = deleteTopicsOp /\ Admin["alterConfigs"] = alterConfigsOp
      /\ Admin["incrementalAlterConfigs"] = incrementalAlterConfigsOp
  BY DEF Admin
<1>2. /\ Admin["deleteGroups"] = deleteGroupsOp
      /\ Admin["deleteTopicRecords"] = deleteTopicRecordsOp
      /\ Admin["createAcls"] = createAclsOp /\ Admin["deleteAcls"] = deleteAclsOp
      /\ Admin["alterPartitionReassignments"] = alterPartitionReassignmentsOp
  BY DEF Admin
<1>3. /\ createTopics # listOffsets /\ createPartitions # listOffsets
      /\ deleteTopics # listOffsets /\ alterConfigs # listOffsets
      /\ incrementalAlterConfigs # listOffsets
  <2>1. /\ 3 \in listOffsetsVersions /\ 3 \notin createPartitionsVersions
        /\ 3 \notin deleteTopicsVersions /\ 3 \notin alterConfigsVersions
        /\ 3 \notin incrementalAlterConfigsVersions
    BY DEF listOffsetsVersions, createPartitionsVersions, deleteTopicsVersions,
           alterConfigsVersions, incrementalAlterConfigsVersions
  <2> QED
    BY <2>1 DEF createTopics, createPartitions, deleteTopics, alterConfigs,
                incrementalAlterConfigs, listOffsets, Method
<1>4. /\ deleteGroups # listOffsets /\ deleteRecords # listOffsets
      /\ createAcls # listOffsets /\ deleteAcls # listOffsets
      /\ alterPartitionReassignments # listOffsets
  <2>1. /\ 3 \in listOffsetsVersions /\ 3 \notin createAclsVersions /\ 3 \notin deleteAclsVersions
    BY DEF listOffsetsVersions, createAclsVersions, deleteAclsVersions
  <2> QED
    BY <2>1 DEF deleteGroups, deleteRecords, createAcls, deleteAcls,
                alterPartitionReassignments, listOffsets, Method
<1>5. /\ createTopicsOp.first = "refresh" /\ createTopicsOp.then = "leaders"
      /\ createTopicsOp.method = createTopics /\ createTopicsOp.target = "controller"
      /\ createTopicsOp.again = "TOPIC_ALREADY_EXISTS"
      /\ createPartitionsOp.first = "refresh" /\ createPartitionsOp.then = "resolved"
      /\ createPartitionsOp.method = createPartitions
      /\ createPartitionsOp.target = "controller"
      /\ deleteTopicsOp.first = "refresh" /\ deleteTopicsOp.then = "afterRefresh"
      /\ deleteTopicsOp.method = deleteTopics /\ deleteTopicsOp.target = "controller"
  BY DEF createTopicsOp, createPartitionsOp, deleteTopicsOp, Operation
<1>6. /\ alterConfigsOp.first = "refresh" /\ alterConfigsOp.then = "resolved"
      /\ alterConfigsOp.method = alterConfigs /\ alterConfigsOp.target = "resources"
      /\ incrementalAlterConfigsOp.first = "refresh"
      /\ incrementalAlterConfigsOp.then = "resolved"
      /\ incrementalAlterConfigsOp.method = incrementalAlterConfigs
      /\ incrementalAlterConfigsOp.target = "resources"
      /\ deleteGroupsOp.first = "refresh" /\ deleteGroupsOp.then = "resolved"
      /\ deleteGroupsOp.method = deleteGroups /\ deleteGroupsOp.target = "coordinator"
      /\ deleteTopicRecordsOp.first = "locate" /\ deleteTopicRecordsOp.then = "resolved"
      /\ deleteTopicRecordsOp.method = deleteRecords
      /\ deleteTopicRecordsOp.target = "frozenLeader"
  BY DEF alterConfigsOp, incrementalAlterConfigsOp, deleteGroupsOp, deleteTopicRecordsOp,
         Operation
<1>7. /\ createAclsOp.first = "refresh" /\ createAclsOp.then = "resolved"
      /\ createAclsOp.method = createAcls /\ createAclsOp.target = "controller"
      /\ deleteAclsOp.first = "refresh" /\ deleteAclsOp.then = "resolved"
      /\ deleteAclsOp.method = deleteAcls /\ deleteAclsOp.target = "controller"
      /\ alterPartitionReassignmentsOp.first = "refresh"
      /\ alterPartitionReassignmentsOp.then = "resolved"
      /\ alterPartitionReassignmentsOp.method = alterPartitionReassignments
      /\ alterPartitionReassignmentsOp.target = "controller"
  BY DEF createAclsOp, deleteAclsOp, alterPartitionReassignmentsOp, Operation
<1>8. /\ createTopics.parse = "aggregate" /\ createPartitions.parse = "first"
      /\ deleteTopics.parse = "first" /\ alterConfigs.parse = "first"
      /\ incrementalAlterConfigs.parse = "first" /\ deleteGroups.parse = "none"
      /\ deleteRecords.parse = "partitions" /\ createAcls.parse = "first"
      /\ deleteAcls.parse = "first" /\ alterPartitionReassignments.parse = "top"
  BY DEF createTopics, createPartitions, deleteTopics, alterConfigs, incrementalAlterConfigs,
         deleteGroups, deleteRecords, createAcls, deleteAcls, alterPartitionReassignments, Method
<1> QED
  BY <1>1, <1>2, <1>3, <1>4, <1>5, <1>6, <1>7, <1>8 DEF Writes

\* No operation begins or goes on at "idle".
LEMMA NotIdle ==
    \A x \in DOMAIN Admin : Admin[x].first # "idle" /\ Admin[x].then # "idle"
<1>1. \A x \in Writes : Admin[x].first # "idle" /\ Admin[x].then # "idle"
  BY WriteTable
<1> QED
  BY <1>1, Table, OtherTable, GroupTable, StampTable

\* The target tells the operations of setOffsets from the others.
LEMMA GroupTarget ==
    \A x \in DOMAIN Admin : Admin[x].target = "group" => x \in Grouped
<1>1. \A x \in Writes : Admin[x].target # "group"
  BY WriteTable
<1> QED
  BY <1>1, Table, OtherTable, StampTable

\* The three kinds of operations that are followed do not overlap.
LEMMA Kinds ==
    /\ Stamp \notin Writes /\ Stamp \notin Grouped /\ Writes \cap Grouped = {}
    /\ Followed \subseteq DOMAIN Admin /\ Grouped \subseteq DOMAIN Admin
    /\ "" \notin Followed /\ "" \notin Grouped
  BY DEF Stamp, Writes, Grouped, Followed, Admin

-----------------------------------------------------------------------------
(***************************************************************************)
(* What the retrier and the catch of an operation make of a call           *)
(***************************************************************************)

\* Where a call is when an error may reach the retrier.
Catching == {"waiting", "refresh", "afterRefresh", "staleRefresh", "leaders"}

\* A call that may catch an error is not one of setOffsets.
LEMMA CatchingNotGrouped ==
    ASSUME NEW c, Good(c), c.pc \in Catching
    PROVE  c.name \notin Grouped /\ c.name \in Operations /\ c.name \in DOMAIN Admin
<1>1. c.name \in Operations
  BY DEF Good, CallOK, Catching
<1> QED
  BY <1>1, OperationsAssumption DEF Good, GroupOK, Catching

\* A call that rejects promises nothing.
LEMMA RejectGood ==
    ASSUME NEW c, Good(c), NEW e, c.name # ""
    PROVE  Good(Reject(c, e))
<1> DEFINE d == Reject(c, e)
<1>1. /\ IsCall(d) /\ d.pc = "rejected" /\ d.name = c.name /\ d.attempt = c.attempt
      /\ d.phase = c.phase /\ d.plan = c.plan /\ d.unsent = c.unsent /\ d.waiting = c.waiting
      /\ d.failed = c.failed /\ d.todo = c.todo /\ d.high = c.high /\ d.offset = c.offset
      /\ d.hadMembers = c.hadMembers /\ d.pending = c.pending /\ d.assigned = c.assigned
  BY DEF Reject, Good, CallOK, IsCall, CallFields
<1> HIDE DEF d
<1>2. CallOK(d)
  BY <1>1 DEF Good, CallOK
<1>3. WriteOK(d)
  BY <1>1 DEF Good, WriteOK
<1>4. StampOK(d) /\ GroupOK(d)
  BY <1>1 DEF Good, StampOK, GroupOK
<1>5. \A r \in requests : RequestOK(d, r)
  BY <1>1 DEF Good, RequestOK
<1>6. Good(d)
  BY <1>2, <1>3, <1>4, <1>5 DEF Good
<1> QED
  BY <1>6 DEF d

\* Another attempt: none of the requests that are under way belongs to it.
LEMMA RetryGood ==
    ASSUME NEW c, Good(c), NEW e, c.pc \in Catching
    PROVE  Good(Retry(c, e))
<1> DEFINE d == Retry(c, e)
<1>1. CASE ~(isErrorRetriable(e) /\ c.attempt < Retries)
  <2>1. c.name # ""
    BY DEF Good, CallOK, Catching
  <2> QED
    BY <1>1, <2>1, RejectGood DEF Retry
<1>2. CASE isErrorRetriable(e) /\ c.attempt < Retries
  <2>1. /\ IsCall(d) /\ d.name = c.name /\ d.attempt = c.attempt + 1
        /\ d.phase = 1 /\ d.plan = c.plan /\ d.failed = {} /\ d.waiting = {}
        /\ d.todo = Asked(c.name) /\ d.high = c.high /\ d.offset = c.offset
        /\ d.pc = IF c.name = "deleteTopicRecords" THEN "waiting" ELSE Admin[c.name].first
        /\ d.unsent = IF c.name = "deleteTopicRecords"
                      THEN {n \in Nodes : c.plan[n] # {}} ELSE {}
    BY <1>2 DEF Retry, Good, CallOK, IsCall, CallFields
  <2> HIDE DEF d
  <2>2. c.name \notin Grouped /\ c.name \in DOMAIN Admin /\ c.name \in Operations
    BY CatchingNotGrouped
  <2>3. d.pc # "idle" /\ d.name # "" /\ c.pc # "idle"
    BY <2>1, <2>2, NotIdle, Table DEF Catching
  <2>4. d.unsent \subseteq Nodes /\ d.waiting \subseteq Nodes
    BY <2>1
  <2>5. CallOK(d)
    <3>1. c.name \in Followed => /\ d.attempt \in Nat /\ d.phase \in {1, 2}
                                /\ d.plan \in [Nodes -> SUBSET Items]
      <4>1. c.name \in Followed => c.attempt \in Nat /\ c.plan \in [Nodes -> SUBSET Items]
        BY DEF Good, CallOK
      <4> QED
        BY <2>1, <4>1
    <3> QED
      BY <2>1, <2>2, <2>3, <2>4, <3>1 DEF CallOK
  <2>6. WriteOK(d)
    <3>1. CASE c.name \in Writes
      <4>1. Asked(c.name) = Items
        BY <3>1, WriteTable DEF Asked
      <4>2. Admin[c.name].first = IF c.name = "deleteTopicRecords" THEN "locate" ELSE "refresh"
        BY <3>1, WriteTable
      <4>3. c.name = "deleteTopicRecords" =>
               \A i \in Items \ done : \E n \in Nodes : i \in c.plan[n]
        BY <3>1 DEF Good, WriteOK, Catching
      <4>4. c.name = "deleteTopicRecords" =>
               \A i \in Items \ done : \E n \in d.unsent : i \in c.plan[n]
        BY <2>1, <4>3
      <4> QED
        BY <2>1, <3>1, <4>1, <4>2, <4>3, <4>4 DEF WriteOK
    <3> QED
      BY <2>1, <3>1 DEF WriteOK
  <2>7. StampOK(d) /\ GroupOK(d)
    <3>1. c.name = Stamp => d.pc = "refreshIfNecessary"
      BY <2>1, StampTable DEF Stamp
    <3> QED
      BY <2>1, <2>2, <3>1 DEF Good, StampOK, GroupOK
  <2>8. \A r \in requests : RequestOK(d, r)
    <3>1. c.name \in Followed => c.attempt \in Nat
      BY DEF Good, CallOK
    <3> QED
      BY <2>1, <3>1 DEF Good, RequestOK
  <2>9. Good(d)
    BY <2>5, <2>6, <2>7, <2>8 DEF Good
  <2> QED
    BY <2>9 DEF d
<1> QED
  BY <1>1, <1>2

\* The catch of an operation.  createTopics resolves if all topics exist.
LEMMA CatchGood ==
    ASSUME NEW c, Good(c), NEW e, c.pc \in Catching,
           c.name = "createTopics" /\ e.types = {"TOPIC_ALREADY_EXISTS"} => done = Items
    PROVE  Good(Catch(c, e))
<1> DEFINE s == [c EXCEPT !.pc = "staleRefresh", !.error = e]
           o == [c EXCEPT !.pc = "resolved"]
<1>1. \/ Catch(c, e) = Retry(c, e)
      \/ \E x : Catch(c, e) = Reject(c, x)
      \/ Catch(c, e) = s /\ (c.name = "deleteTopicRecords" \/ Admin[c.name].method = listOffsets)
      \/ /\ Catch(c, e) = o /\ c.name = "createTopics"
         /\ e.types = {"TOPIC_ALREADY_EXISTS"}
  BY DEF Catch
<1>2. c.name \notin Grouped /\ c.name # "" /\ c.pc # "idle"
  BY CatchingNotGrouped, Table DEF Catching
<1>3. CASE Catch(c, e) = s /\ (c.name = "deleteTopicRecords" \/ Admin[c.name].method = listOffsets)
  <2>1. /\ IsCall(s) /\ s.pc = "staleRefresh" /\ s.name = c.name /\ s.attempt = c.attempt
        /\ s.phase = c.phase /\ s.plan = c.plan /\ s.unsent = c.unsent /\ s.waiting = c.waiting
        /\ s.failed = c.failed /\ s.todo = c.todo /\ s.high = c.high /\ s.offset = c.offset
    BY DEF Good, CallOK, IsCall, CallFields
  <2> HIDE DEF s
  <2>2. CallOK(s)
    BY <1>2, <2>1 DEF Good, CallOK
  <2>3. WriteOK(s)
    <3>1. c.name \in Writes => c.name = "deleteTopicRecords"
      BY <1>3, WriteTable
    <3> QED
      BY <2>1, <3>1 DEF Good, WriteOK, Catching
  <2>4. StampOK(s) /\ GroupOK(s)
    BY <1>2, <2>1 DEF Good, StampOK, GroupOK
  <2>5. \A r \in requests : RequestOK(s, r)
    BY <2>1 DEF Good, RequestOK
  <2> QED
    BY <1>3, <2>2, <2>3, <2>4, <2>5 DEF Good
<1>4. CASE /\ Catch(c, e) = o /\ c.name = "createTopics"
           /\ e.types = {"TOPIC_ALREADY_EXISTS"}
  <2>1. /\ IsCall(o) /\ o.pc = "resolved" /\ o.name = c.name /\ o.attempt = c.attempt
        /\ o.phase = c.phase /\ o.plan = c.plan /\ o.unsent = c.unsent /\ o.waiting = c.waiting
        /\ o.failed = c.failed /\ o.todo = c.todo
    BY DEF Good, CallOK, IsCall, CallFields
  <2> HIDE DEF o
  <2>2. c.name # Stamp
    BY <1>4 DEF Stamp
  <2>3. CallOK(o)
    BY <1>2, <2>1 DEF Good, CallOK
  <2>4. WriteOK(o)
    BY <1>4, <2>1 DEF Good, WriteOK
  <2>5. StampOK(o) /\ GroupOK(o)
    BY <1>2, <2>1, <2>2 DEF StampOK, GroupOK
  <2>6. \A r \in requests : RequestOK(o, r)
    BY <2>1, <2>2 DEF Good, RequestOK
  <2> QED
    BY <1>4, <2>3, <2>4, <2>5, <2>6 DEF Good
<1> HIDE DEF s, o
<1>5. ASSUME NEW x, Catch(c, e) = Reject(c, x) PROVE Good(Catch(c, e))
  BY <1>2, <1>5, RejectGood
<1> QED
  BY <1>1, <1>3, <1>4, <1>5, RetryGood

-----------------------------------------------------------------------------
(***************************************************************************)
(* What an answer makes of a call                                          *)
(***************************************************************************)

\* Of an operation that is not followed nothing more is asked.
LEMMA OtherGood ==
    ASSUME NEW c, IsCall(c), c.name \in Operations, c.name \notin Followed,
           c.name \notin Grouped, c.pc # "idle"
    PROVE  Good(c)
<1>1. c.name # ""
  BY OperationsAssumption, Table
<1>2. CallOK(c)
  BY <1>1 DEF CallOK
<1>3. WriteOK(c) /\ StampOK(c) /\ GroupOK(c)
  BY DEF WriteOK, StampOK, GroupOK, Followed
<1> QED
  BY <1>2, <1>3 DEF Good, RequestOK

\* Two calls that differ at most in where they are.
Moved(c, d) ==
    /\ IsCall(d) /\ d.name = c.name /\ d.attempt = c.attempt
    /\ d.phase = c.phase /\ d.plan = c.plan /\ d.unsent = c.unsent
    /\ d.waiting = c.waiting /\ d.failed = c.failed /\ d.todo = c.todo
    /\ d.high = c.high /\ d.offset = c.offset /\ d.pending = c.pending
    /\ d.assigned = c.assigned /\ d.hadMembers = c.hadMembers

\* A step that only moves the call on keeps what the requests say, provided that it
\* does not move it back to before they were sent.
LEMMA MovedOn ==
    ASSUME NEW c, Good(c), NEW d, Moved(c, d), c.name # "",
           d.pc \notin {"idle", "refresh", "refreshIfNecessary", "locate"}
    PROVE  CallOK(d) /\ \A r \in requests : RequestOK(d, r)
<1>1. CallOK(d)
  BY DEF Good, CallOK, Moved
<1>2. ASSUME NEW r \in requests PROVE RequestOK(d, r)
  <2>1. RequestOK(c, r)
    BY DEF Good
  <2> QED
    BY <2>1 DEF RequestOK, Moved
<1> QED
  BY <1>1, <1>2

\* The answers are complete: the next phase, the end, or the errors collected.
LEMMA AllAnsweredGood ==
    ASSUME NEW c, Good(c), c.pc = "waiting", done \subseteq Items
    PROVE  Good(AllAnswered(c))
<1>0. c.name \notin Grouped /\ c.name \in Operations /\ c.name \in DOMAIN Admin /\ c.name # ""
  BY CatchingNotGrouped, Table DEF Catching
<1>1. CASE c.waiting \cup c.unsent # {}
  BY <1>1 DEF AllAnswered
<1>2. CASE c.waiting \cup c.unsent = {} /\ c.name \in Writes
  <2>1. Admin[c.name].then \in {"resolved", "leaders", "afterRefresh"}
    BY <1>2, WriteTable
  <2>2. CASE c.failed # {}
    <3>1. c.name \in {"deleteGroups", "deleteTopicRecords"}
      BY <1>2, <2>2 DEF Good, WriteOK
    <3>2. \/ AllAnswered(c) = Catch(c, ClientError("KafkaJSDeleteGroupsError"))
          \/ AllAnswered(c) = Catch(c, DeleteTopicRecordsError(c.failed))
      <4>1. CASE c.name = "deleteGroups"
        BY <1>2, <2>1, <2>2, <4>1 DEF AllAnswered
      <4>2. CASE c.name = "deleteTopicRecords"
        BY <1>2, <2>1, <2>2, <4>2 DEF AllAnswered
      <4> QED
        BY <3>1, <4>1, <4>2
    <3>3. \E e : AllAnswered(c) = Catch(c, e)
      BY <3>2
    <3> QED
      BY <3>1, <3>3, CatchGood DEF Catching
  <2>3. CASE c.failed = {}
    <3> DEFINE p == Admin[c.name].then
               d == [c EXCEPT !.pc = p]
    <3>1. AllAnswered(c) = d
      BY <1>2, <2>1, <2>3 DEF AllAnswered
    <3>2. done = Items
      BY <1>2, <2>3 DEF Good, WriteOK
    <3>3. c.name = "deleteTopicRecords" => p = "resolved"
      BY <1>2, WriteTable
    <3> HIDE DEF p
    <3>4. Moved(c, d) /\ d.pc = p
      BY DEF Moved, Good, CallOK, IsCall, CallFields
    <3> HIDE DEF d
    <3>4a. CallOK(d) /\ \A r \in requests : RequestOK(d, r)
      BY <1>0, <2>1, <3>4, MovedOn DEF p
    <3>5. WriteOK(d)
      BY <1>2, <2>1, <2>3, <3>2, <3>3, <3>4 DEF Good, WriteOK, Moved, p
    <3>6. StampOK(d) /\ GroupOK(d)
      BY <1>0, <1>2, <3>4, Kinds DEF StampOK, GroupOK, Moved
    <3> QED
      BY <3>1, <3>5, <3>6, <3>4a DEF Good
  <2> QED
    BY <2>2, <2>3
<1>3. CASE c.waiting \cup c.unsent = {} /\ c.name = Stamp
  <2>1. c.name \notin {"deleteGroups", "deleteTopicRecords"} /\ Admin[c.name].then = "stamp"
    BY <1>3, StampTable DEF Stamp
  <2>2. c.phase \in {1, 2}
    BY <1>3 DEF Good, CallOK, Followed
  <2>3. CASE c.phase = 1
    <3> DEFINE d == [c EXCEPT !.phase = 2, !.unsent = {n \in Nodes : c.plan[n] # {}}]
    <3>1. AllAnswered(c) = d
      BY <1>3, <2>1, <2>3 DEF AllAnswered
    <3>2. /\ IsCall(d) /\ d.pc = c.pc /\ d.name = c.name /\ d.attempt = c.attempt
          /\ d.phase = 2 /\ d.plan = c.plan /\ d.unsent = {n \in Nodes : c.plan[n] # {}}
          /\ d.waiting = c.waiting /\ d.high = c.high /\ d.offset = c.offset
      BY DEF Good, CallOK, IsCall, CallFields
    <3> HIDE DEF d
    <3>3. d.unsent \subseteq Nodes
      BY <3>2
    <3>4. CallOK(d)
      BY <3>2, <3>3 DEF Good, CallOK
    <3>5. WriteOK(d) /\ StampOK(d) /\ GroupOK(d)
      BY <1>3, <3>2, Kinds DEF Good, WriteOK, StampOK, GroupOK
    <3>6. \A r \in requests : RequestOK(d, r)
      <4> SUFFICES ASSUME NEW r \in requests PROVE RequestOK(d, r)
        OBVIOUS
      <4>1. c.name \in Followed /\ c.name \notin Writes
        BY <1>3, Kinds DEF Followed
      <4>2. RequestOK(c, r)
        BY DEF Good
      <4>3. r.attempt[1] = c.attempt => r.phase = 1
        BY <2>3, <4>1, <4>2 DEF RequestOK
      <4> QED
        BY <1>3, <2>3, <3>2, <4>1, <4>2, <4>3 DEF RequestOK
    <3> QED
      BY <3>1, <3>4, <3>5, <3>6 DEF Good
  <2>4. CASE c.phase = 2
    <3> DEFINE d == [c EXCEPT !.pc = "resolved"]
    <3>1. AllAnswered(c) = d
      BY <1>3, <2>1, <2>4 DEF AllAnswered
    <3>2. Moved(c, d) /\ d.pc = "resolved"
      BY DEF Moved, Good, CallOK, IsCall, CallFields
    <3> HIDE DEF d
    <3>3. WriteOK(d) /\ StampOK(d) /\ GroupOK(d)
      BY <1>3, <3>2, Kinds DEF Good, WriteOK, StampOK, GroupOK, Moved
    <3>4. CallOK(d) /\ \A r \in requests : RequestOK(d, r)
      BY <1>0, <3>2, MovedOn
    <3> QED
      BY <3>1, <3>3, <3>4 DEF Good
  <2> QED
    BY <2>2, <2>3, <2>4
<1>4. CASE c.waiting \cup c.unsent = {} /\ c.name \notin Followed
  <2>1. c.name \notin {"deleteGroups", "deleteTopicRecords"}
    BY <1>4 DEF Followed, Writes
  <2>2. Admin[c.name].then # "idle"
    BY <1>0, NotIdle
  <2>3. IsCall(c)
    BY DEF Good, CallOK
  <2> DEFINE d == AllAnswered(c)
             a == [c EXCEPT !.phase = 2, !.unsent = {n \in Nodes : c.plan[n] # {}}]
             b == [c EXCEPT !.pc = "resolved"]
             f == [c EXCEPT !.pc = Admin[c.name].then]
  <2>4. d = a \/ d = b \/ d = f
    BY <1>4, <2>1 DEF AllAnswered
  <2>5. /\ IsCall(a) /\ a.name = c.name /\ a.pc # "idle"
        /\ IsCall(b) /\ b.name = c.name /\ b.pc # "idle"
        /\ IsCall(f) /\ f.name = c.name /\ f.pc # "idle"
    BY <2>2, <2>3 DEF IsCall, CallFields
  <2>6. IsCall(d) /\ d.name = c.name /\ d.pc # "idle"
    <3> HIDE DEF a, b, f, d
    <3> QED
      BY <2>4, <2>5
  <2> HIDE DEF d
  <2>7. Good(d)
    BY <1>0, <1>4, <2>6, OtherGood
  <2> QED
    BY <2>7 DEF d
<1> QED
  BY <1>1, <1>2, <1>3, <1>4 DEF Followed

\* What parse makes of the errors of the items of an operation that is followed.
LEMMA ThrownFacts ==
    ASSUME NEW x \in Followed, NEW errors, NEW w
    PROVE  LET thrown == Thrown(Admin[x].method, errors, w)
           IN /\ x \in Writes /\ x # "deleteGroups" /\ thrown = {} => errors = {}
              /\ \A e \in thrown :
                    /\ e # NoError
                    /\ e.name = "KafkaJSDeleteTopicRecordsError" =>
                          x = "deleteTopicRecords" /\ e.types # {}
                    /\ x = "createTopics" /\ e.types = {"TOPIC_ALREADY_EXISTS"} =>
                          errors = {"TOPIC_ALREADY_EXISTS"}
<1> DEFINE m == Admin[x].method
           thrown == Thrown(m, errors, w)
           codes == {createErrorFromCode(type) : type \in errors}
<1>1. /\ x \in Writes /\ x # "deleteGroups" => m.parse # "none"
      /\ m.parse = "partitions" => x = "deleteTopicRecords"
      /\ m.parse \in {"none", "first", "aggregate", "top", "partitions"}
      /\ x = "createTopics" => m.parse = "aggregate"
  <2>1. CASE x \in Writes
    BY <2>1, WriteTable
  <2>2. CASE x = Stamp
    BY <2>2, StampTable DEF Stamp, listOffsets, Method, Writes
  <2> QED
    BY <2>1, <2>2 DEF Followed
<1> HIDE DEF m
<1>2. \/ thrown = {} /\ (errors = {} \/ m.parse = "none")
      \/ thrown = codes /\ errors # {} /\ m.parse \in {"first", "top"}
      \/ thrown = {Aggregate(errors)} /\ errors # {} /\ m.parse \in {"aggregate", "top"}
      \/ thrown = {DeleteTopicRecordsError(errors)} /\ errors # {} /\ m.parse = "partitions"
  BY <1>1 DEF Thrown
<1>3. \A e \in codes : e.name = "KafkaJSProtocolError"
  BY DEF createErrorFromCode
<1>4. errors # {} => codes # {}
  OBVIOUS
<1>5. /\ Aggregate(errors).name = "KafkaJSAggregateError" /\ Aggregate(errors).types = errors
      /\ DeleteTopicRecordsError(errors).name = "KafkaJSDeleteTopicRecordsError"
      /\ DeleteTopicRecordsError(errors).types = errors /\ NoError.name = ""
  BY DEF Aggregate, DeleteTopicRecordsError, NoError, ClientError
<1> HIDE DEF codes, thrown
<1>6. x \in Writes /\ x # "deleteGroups" /\ thrown = {} => errors = {}
  BY <1>1, <1>2, <1>4
<1>7. ASSUME NEW e \in thrown
      PROVE  /\ e # NoError
             /\ e.name = "KafkaJSDeleteTopicRecordsError" =>
                          x = "deleteTopicRecords" /\ e.types # {}
             /\ x = "createTopics" /\ e.types = {"TOPIC_ALREADY_EXISTS"} =>
                          errors = {"TOPIC_ALREADY_EXISTS"}
  BY <1>1, <1>2, <1>3, <1>5
<1> QED
  BY <1>6, <1>7 DEF thrown, m

\* A broker asked by an operation that writes has been heard.
LEMMA HeardWrite ==
    ASSUME WorldOK, NEW c, Good(c), c.pc = "waiting", c.name \in Writes,
           NEW n \in c.waiting, NEW new, NEW h,
           IsCall(h), h.pc = c.pc, h.name = c.name, h.attempt = c.attempt, h.phase = c.phase,
           h.unsent = c.unsent, h.waiting = c.waiting \ {n}, h.failed = c.failed \cup new,
           \/ h.plan = c.plan
           \/ /\ c.name = "deleteTopicRecords" /\ h.plan = [c.plan EXCEPT ![n] = {}]
              /\ c.plan[n] \subseteq done,
           new # {} => c.name \in {"deleteGroups", "deleteTopicRecords"},
           new = {} => c.plan[n] \subseteq done
    PROVE  Good(h)
<1>1. /\ c.name \in Followed /\ c.plan \in [Nodes -> SUBSET Items] /\ n \in Nodes
      /\ c.unsent \subseteq Nodes /\ c.waiting \subseteq Nodes
  BY DEF Good, CallOK, Followed
<1>2. /\ h.plan \in [Nodes -> SUBSET Items]
      /\ \A o \in Nodes \ {n} : h.plan[o] = c.plan[o]
      /\ \A o \in Nodes : \A i \in Items : i \notin done /\ i \in c.plan[o] => i \in h.plan[o]
  BY <1>1
<1>3. CallOK(h)
  BY <1>1, <1>2 DEF Good, CallOK
<1>4. WriteOK(h)
  <2>1. WriteOK(c)
    BY DEF Good
  <2>2. ASSUME h.failed = {}, NEW i \in Items \ done
        PROVE  \E o \in h.unsent \cup h.waiting : i \in h.plan[o]
    <3>1. c.failed = {} /\ new = {}
      BY <2>2
    <3>2. PICK o \in c.unsent \cup c.waiting : i \in c.plan[o]
      BY <2>1, <3>1 DEF WriteOK
    <3>3. o # n
      BY <3>1, <3>2
    <3> QED
      BY <1>1, <1>2, <3>2, <3>3
  <2>3. c.name = "deleteTopicRecords" => \A i \in Items \ done : \E o \in Nodes : i \in h.plan[o]
    BY <1>2, <2>1 DEF WriteOK
  <2>4. c.name = "createTopics" => \A o \in h.unsent \cup h.waiting : h.plan[o] = Items
    BY <2>1 DEF WriteOK
  <2>5. h.failed # {} => h.name \in {"deleteGroups", "deleteTopicRecords"}
    BY <2>1 DEF WriteOK
  <2> QED
    BY <2>1, <2>2, <2>3, <2>4, <2>5 DEF WriteOK
<1>5. StampOK(h) /\ GroupOK(h)
  BY Kinds DEF StampOK, GroupOK
<1>6. ASSUME NEW r \in requests PROVE RequestOK(h, r)
  <2>1. RequestOK(c, r)
    BY DEF Good
  <2> QED
    BY <1>1, <1>2, <2>1, Kinds DEF RequestOK
<1> QED
  BY <1>3, <1>4, <1>5, <1>6 DEF Good

\* A broker asked for offsets has been heard.
LEMMA HeardStamp ==
    ASSUME NEW c, Good(c), c.pc = "waiting", c.name = Stamp, NEW h,
           IsCall(h), h.pc = c.pc, h.name = c.name, h.attempt = c.attempt, h.phase = c.phase,
           h.plan = c.plan, h.unsent = c.unsent, h.waiting \subseteq c.waiting,
           h.high = c.high \/ (c.phase = 1 /\ h.high \in Nat /\ h.high <= Len(log)),
           Safe(h.offset)
    PROVE  Good(h)
<1>1. c.name \in Followed /\ c.name \notin Writes /\ c.name \notin Grouped
  BY Kinds DEF Followed
<1>2. CallOK(h)
  BY <1>1 DEF Good, CallOK
<1>3. WriteOK(h) /\ GroupOK(h)
  BY <1>1 DEF WriteOK, GroupOK
<1>4. StampOK(h)
  BY DEF Good, StampOK
<1>5. ASSUME NEW r \in requests PROVE RequestOK(h, r)
  <2>1. RequestOK(c, r)
    BY DEF Good
  <2>2. c.phase = 1 /\ r.attempt[1] = c.attempt => r.phase # 2
    BY <1>1, <2>1 DEF RequestOK
  <2> QED
    BY <1>1, <2>1, <2>2 DEF RequestOK
<1> QED
  BY <1>2, <1>3, <1>4, <1>5 DEF Good

\* The answer of a broker, or the error of a request, leaves the call as it may be.
LEMMA ReceivedGood ==
    ASSUME WorldOK, Good(call), NEW r \in requests, Awaited(r), NEW e,
           e = NoError =>
              r.served /\ (call.name \in Writes /\ call.name # "deleteGroups" => r.errors = {}),
           e.name = "KafkaJSDeleteTopicRecordsError" /\ call.name \in Followed =>
              call.name = "deleteTopicRecords" /\ e.types # {},
           call.name = "createTopics" /\ e.types = {"TOPIC_ALREADY_EXISTS"} =>
              r.served /\ r.errors = {"TOPIC_ALREADY_EXISTS"}
    PROVE  Good(Received(call, r, e))
<1> DEFINE heard == [call EXCEPT !.waiting = @ \ {r.node}]
<1>1. /\ call.pc = "waiting" /\ r.node \in call.waiting /\ r.attempt[1] = call.attempt
      /\ r.phase = call.phase /\ RequestOK(call, r)
  BY DEF Awaited, Good
<1>2. /\ call.name \notin Grouped /\ call.name \in Operations /\ call.name \in DOMAIN Admin
      /\ call.name # "" /\ IsCall(call) /\ done \subseteq Items
  BY <1>1, CatchingNotGrouped, Table DEF Catching, Good, CallOK, WorldOK
<1>3. NoError.name = "" /\ NoError.types = {} /\ ~isErrorRetriable(NoError)
  BY DEF NoError, ClientError, isErrorRetriable, RetriableClasses, RetriableClassesToo
<1>3a. e = NoError => e.name # "KafkaJSDeleteTopicRecordsError" /\ ~isErrorRetriable(e)
  BY <1>3
<1>4. call.name = "createTopics" /\ e.types = {"TOPIC_ALREADY_EXISTS"} => done = Items
  <2> HAVE call.name = "createTopics" /\ e.types = {"TOPIC_ALREADY_EXISTS"}
  <2>1. call.name \in Writes /\ call.name \in Followed
    BY DEF Writes, Followed
  <2>2. r.items = call.plan[r.node] /\ r.items \subseteq done
    BY <1>1, <2>1 DEF RequestOK
  <2>3. call.plan[r.node] = Items
    BY <1>1, <2>1 DEF Good, WriteOK
  <2> QED
    BY <1>2, <2>2, <2>3
<1>5. Good(Catch(call, e))
  BY <1>1, <1>4, CatchGood DEF Catching
<1>6. CASE call.name \in Writes
  <2> DEFINE a == [heard EXCEPT !.plan[r.node] = {}]
             b == [heard EXCEPT !.failed = @ \cup r.errors]
             f == [heard EXCEPT !.failed = @ \cup e.types]
  <2>0. call.name \in Followed /\ call.name # "describeGroups"
    BY <1>6 DEF Followed, Writes
  <2>1. r.items = call.plan[r.node] /\ (r.served /\ r.errors = {} => r.items \subseteq done)
    BY <1>1, <1>6, <2>0 DEF RequestOK
  <2>2. Admin[call.name].method # listOffsets
    BY <1>6, WriteTable
  <2>3. call.plan \in [Nodes -> SUBSET Items]
    BY <2>0 DEF Good, CallOK
  <2>4. CASE e = NoError /\ call.name = "deleteTopicRecords"
    <3>1. /\ IsCall(a) /\ a.pc = call.pc /\ a.name = call.name /\ a.attempt = call.attempt
          /\ a.phase = call.phase /\ a.unsent = call.unsent
          /\ a.waiting = call.waiting \ {r.node} /\ a.failed = call.failed
          /\ a.plan = [call.plan EXCEPT ![r.node] = {}]
      BY <1>2 DEF IsCall, CallFields
    <3>2. Received(call, r, e) = AllAnswered(a)
      BY <1>3, <2>2, <2>4 DEF Received
    <3> HIDE DEF a
    <3>3. call.plan[r.node] \subseteq done
      BY <1>6, <2>1, <2>4
    <3>4. PICK new : new = {}
      OBVIOUS
    <3>5. a.failed = call.failed \cup new
      BY <3>1, <3>4
    <3>6. Good(a)
      BY <1>1, <1>6, <2>4, <3>1, <3>3, <3>4, <3>5, HeardWrite
    <3>7. a.pc = "waiting"
      BY <1>1, <3>1
    <3>8. Good(AllAnswered(a))
      BY <1>2, <3>6, <3>7, AllAnsweredGood
    <3> QED
      BY <3>2, <3>8
  <2>5. CASE e = NoError /\ call.name = "deleteGroups"
    <3>1. /\ IsCall(b) /\ b.pc = call.pc /\ b.name = call.name /\ b.attempt = call.attempt
          /\ b.phase = call.phase /\ b.unsent = call.unsent
          /\ b.waiting = call.waiting \ {r.node} /\ b.failed = call.failed \cup r.errors
          /\ b.plan = call.plan
      BY <1>2 DEF IsCall, CallFields
    <3>2. Received(call, r, e) = AllAnswered(b)
      BY <1>3, <2>2, <2>5 DEF Received
    <3> HIDE DEF b
    <3>3. r.errors = {} => call.plan[r.node] \subseteq done
      BY <2>1, <2>5
    <3>4. Good(b)
      BY <1>1, <1>6, <2>5, <3>1, <3>3, HeardWrite
    <3> QED
      BY <1>1, <1>2, <3>1, <3>2, <3>4, AllAnsweredGood
  <2>6. CASE e = NoError /\ call.name \notin {"deleteTopicRecords", "deleteGroups"}
    <3>1. /\ IsCall(heard) /\ heard.pc = call.pc /\ heard.name = call.name
          /\ heard.attempt = call.attempt
          /\ heard.phase = call.phase /\ heard.unsent = call.unsent
          /\ heard.waiting = call.waiting \ {r.node} /\ heard.failed = call.failed
          /\ heard.plan = call.plan
      BY <1>2 DEF IsCall, CallFields
    <3>2. Received(call, r, e) = AllAnswered(heard)
      BY <1>3a, <2>2, <2>6 DEF Received
    <3> HIDE DEF heard
    <3>3. call.plan[r.node] \subseteq done
      BY <1>6, <2>1, <2>6
    <3>4. PICK new : new = {}
      OBVIOUS
    <3>5. heard.failed = call.failed \cup new
      BY <3>1, <3>4
    <3>6. Good(heard)
      BY <1>1, <1>6, <3>1, <3>3, <3>4, <3>5, HeardWrite
    <3> QED
      BY <1>1, <1>2, <3>1, <3>2, <3>6, AllAnsweredGood
  <2>7. CASE e # NoError /\ e.name = "KafkaJSDeleteTopicRecordsError"
    <3>1. /\ IsCall(f) /\ f.pc = call.pc /\ f.name = call.name /\ f.attempt = call.attempt
          /\ f.phase = call.phase /\ f.unsent = call.unsent
          /\ f.waiting = call.waiting \ {r.node} /\ f.failed = call.failed \cup e.types
          /\ f.plan = call.plan
      BY <1>2 DEF IsCall, CallFields
    <3>2. Received(call, r, e) = AllAnswered(f)
      BY <2>0, <2>7 DEF Received
    <3> HIDE DEF f
    <3>3. call.name = "deleteTopicRecords" /\ e.types # {}
      BY <2>0, <2>7
    <3>4. Good(f)
      BY <1>1, <1>6, <3>1, <3>3, HeardWrite
    <3> QED
      BY <1>1, <1>2, <3>1, <3>2, <3>4, AllAnsweredGood
  <2>8. CASE e # NoError /\ e.name # "KafkaJSDeleteTopicRecordsError"
    <3>1. Received(call, r, e) = Catch(call, e)
      BY <2>0, <2>8 DEF Received
    <3> QED
      BY <1>5, <3>1
  <2> QED
    BY <2>4, <2>5, <2>6, <2>7, <2>8
<1>7. CASE call.name = Stamp
  <2> DEFINE a == [heard EXCEPT !.high = r.offset]
             b == [heard EXCEPT !.offset = OffsetByTimestamp(r.offset, call.high)]
  <2>0. /\ call.name \in Followed
        /\ call.name \notin {"deleteTopicRecords", "deleteGroups", "describeGroups"}
    BY <1>7 DEF Followed, Stamp
  <2>1. call.phase \in {1, 2} /\ Admin[call.name].method = listOffsets
    BY <1>7, <2>0, StampTable DEF Good, CallOK
  <2>2. StampOK(call)
    BY DEF Good
  <2>3. CASE e = NoError /\ call.phase = 1
    <3>1. /\ IsCall(a) /\ a.pc = call.pc /\ a.name = call.name /\ a.attempt = call.attempt
          /\ a.phase = call.phase /\ a.unsent = call.unsent
          /\ a.waiting = call.waiting \ {r.node} /\ a.plan = call.plan
          /\ a.high = r.offset /\ a.offset = call.offset
      BY <1>2 DEF IsCall, CallFields
    <3>2. Received(call, r, e) = AllAnswered(a)
      BY <1>3a, <2>0, <2>1, <2>3 DEF Received
    <3> HIDE DEF a
    <3>3. r.offset \in 0..Len(log)
      BY <1>1, <1>7, <2>0, <2>3 DEF RequestOK
    <3>4. Len(log) \in Nat
      BY DEF WorldOK
    <3>5. r.offset \in Nat /\ r.offset <= Len(log)
      BY <3>3, <3>4
    <3>6. Safe(a.offset)
      BY <1>7, <2>2, <3>1 DEF StampOK
    <3>7. Good(a)
      BY <1>1, <1>7, <2>3, <3>1, <3>5, <3>6, HeardStamp
    <3> QED
      BY <1>1, <1>2, <3>1, <3>2, <3>7, AllAnsweredGood
  <2>4. CASE e = NoError /\ call.phase = 2
    <3>1. /\ IsCall(b) /\ b.pc = call.pc /\ b.name = call.name /\ b.attempt = call.attempt
          /\ b.phase = call.phase /\ b.unsent = call.unsent
          /\ b.waiting = call.waiting \ {r.node} /\ b.plan = call.plan
          /\ b.high = call.high /\ b.offset = OffsetByTimestamp(r.offset, call.high)
      BY <1>2 DEF IsCall, CallFields
    <3>2. Received(call, r, e) = AllAnswered(b)
      BY <1>3a, <2>0, <2>1, <2>4 DEF Received
    <3> HIDE DEF b
    <3>3. Safe(b.offset)
      BY <1>1, <1>7, <2>0, <2>4, <3>1 DEF RequestOK
    <3>4. Good(b)
      BY <1>1, <1>7, <3>1, <3>3, HeardStamp
    <3> QED
      BY <1>1, <1>2, <3>1, <3>2, <3>4, AllAnsweredGood
  <2>5. CASE e # NoError
    <3>1. e.name # "KafkaJSDeleteTopicRecordsError"
      BY <2>0
    <3>2. Received(call, r, e) = Catch(call, e)
      BY <2>0, <2>5, <3>1 DEF Received
    <3> QED
      BY <1>5, <3>2
  <2> QED
    BY <2>1, <2>3, <2>4, <2>5
<1>8. CASE call.name \notin Followed
  <2>1. call.name \notin {"deleteTopicRecords", "deleteGroups"}
    BY <1>8 DEF Followed, Writes
  <2> DEFINE a == [heard EXCEPT !.high = r.offset]
             b == [heard EXCEPT !.offset = OffsetByTimestamp(r.offset, call.high)]
             f == [heard EXCEPT !.failed = @ \cup e.types]
             g == [heard EXCEPT !.tries[r.node] = @ + 1, !.unsent = @ \cup {r.node}]
  <2>2. /\ IsCall(heard) /\ heard.name = call.name /\ heard.pc = "waiting"
        /\ IsCall(a) /\ a.name = call.name /\ a.pc = "waiting"
        /\ IsCall(b) /\ b.name = call.name /\ b.pc = "waiting"
        /\ IsCall(f) /\ f.name = call.name /\ f.pc = "waiting"
        /\ IsCall(g) /\ g.name = call.name /\ g.pc = "waiting"
    BY <1>1, <1>2 DEF IsCall, CallFields
  <2>3. \/ Received(call, r, e) \in {AllAnswered(heard), AllAnswered(a), AllAnswered(b)}
        \/ Received(call, r, e) \in {AllAnswered(f), g, Catch(call, e)}
    <3>1. CASE e = NoError /\ Admin[call.name].method # listOffsets
      BY <1>3a, <2>1, <3>1 DEF Received
    <3>2. CASE e = NoError /\ Admin[call.name].method = listOffsets /\ call.phase = 1
      BY <1>3a, <2>1, <3>2 DEF Received
    <3>3. CASE e = NoError /\ Admin[call.name].method = listOffsets /\ call.phase = 2
      BY <1>3a, <2>1, <3>3 DEF Received
    <3>4. CASE e = NoError /\ Admin[call.name].method = listOffsets /\ call.phase \notin {1, 2}
      BY <1>3a, <2>1, <3>4 DEF Received
    <3>5. CASE e # NoError
      BY <2>1, <3>5 DEF Received
    <3> QED
      BY <3>1, <3>2, <3>3, <3>4, <3>5
  <2> HIDE DEF heard, a, b, f, g
  <2>4. Good(heard) /\ Good(a) /\ Good(b) /\ Good(f) /\ Good(g)
    BY <1>2, <1>8, <2>2, OtherGood
  <2> QED
    BY <1>2, <1>5, <2>2, <2>3, <2>4, AllAnsweredGood
<1> QED
  BY <1>6, <1>7, <1>8 DEF Followed

-----------------------------------------------------------------------------
(***************************************************************************)
(* The steps of the client                                                 *)
(***************************************************************************)

\* A step of the client that leaves the cluster alone and sends nothing.
LEMMA ClientMoves ==
    ASSUME AdminInv, NEW c, Good(c), call' = c, UNCHANGED ClusterVars,
           requests' \subseteq requests,
           known' = known \/ known' = [controller |-> controller, owner |-> owner],
           faults' = faults \/ faults' = faults + 1
    PROVE  AdminInv'
<1>1. /\ controller' = controller /\ owner' = owner /\ done' = done /\ log' = log
      /\ members' = members /\ committed' = committed
  BY DEF ClusterVars
<1>2. faults' \in Nat /\ (faults' = 0 => faults = 0)
  BY DEF AdminInv, WorldOK
<1>3. WorldOK'
  BY <1>1, <1>2 DEF AdminInv, WorldOK
<1>4. CallOK(call)'
  BY <1>1 DEF Good, CallOK
<1>5. WriteOK(call)'
  BY <1>1 DEF Good, WriteOK
<1>6. StampOK(call)'
  BY <1>1 DEF Good, StampOK, Safe
<1>7. GroupOK(call)'
  BY <1>1, <1>2 DEF Good, GroupOK
<1>8. ASSUME NEW r \in requests' PROVE RequestOK(call, r)'
  <2>1. RequestOK(c, r)
    BY DEF Good
  <2> QED
    BY <1>1, <2>1 DEF RequestOK, Safe
<1> QED
  BY <1>3, <1>4, <1>5, <1>6, <1>7, <1>8 DEF AdminInv, Good

\* A call that has not sent anything and is where a new one may be.
LEMMA BeginGood ==
    ASSUME AdminInv, NEW name \in Operations, call.pc = "idle", NEW c,
           IsCall(c), c.name = name, c.attempt = 0, c.phase = 1, c.todo = Asked(name),
           c.plan = [n \in Nodes |-> {}], c.unsent = {}, c.waiting = {}, c.failed = {},
           c.high = 0, c.offset = 0, c.pending = Items, c.hadMembers = members,
           c.pc = Admin[name].first \/ c.pc = "rejected"
    PROVE  Good(c)
<1>1. requests = {}
  BY DEF AdminInv, Good, CallOK
<1>2. name \in DOMAIN Admin /\ name # "" /\ c.pc # "idle"
  BY OperationsAssumption, NotIdle, Table
<1>3. CallOK(c)
  <2>1. /\ c.attempt \in Nat /\ c.phase \in {1, 2} /\ c.plan \in [Nodes -> SUBSET Items]
        /\ c.unsent \subseteq Nodes /\ c.waiting \subseteq Nodes
    OBVIOUS
  <2> QED
    BY <1>2, <2>1 DEF CallOK
<1>4. WriteOK(c)
  <2>1. CASE name \in Writes
    <3>1. Asked(name) = Items
      BY <2>1, WriteTable DEF Asked
    <3>2. c.pc \in {"refresh", "locate", "rejected"}
      BY <2>1, WriteTable
    <3>3. c.pc \in {"refresh", "rejected"} \/ c.name = "deleteTopicRecords"
      BY <2>1, WriteTable
    <3>4. name = "deleteTopicRecords" => c.pc \in {"locate", "rejected"}
      BY <2>1, WriteTable
    <3> QED
      BY <3>1, <3>2, <3>3, <3>4 DEF WriteOK
  <2> QED
    BY <2>1 DEF WriteOK
<1>5. StampOK(c)
  <2>1. Len(log) \in Nat
    BY DEF AdminInv, WorldOK
  <2>2. Safe(0)
    BY <2>1 DEF Safe
  <2> QED
    BY <2>1, <2>2, StampTable DEF StampOK
<1>6. GroupOK(c)
  BY GroupTable DEF GroupOK, AdminInv, WorldOK
<1> QED
  BY <1>1, <1>3, <1>4, <1>5, <1>6 DEF Good

\* A call begins: its arguments are refused, or it goes to its first step.
LEMMA BeginStep ==
    ASSUME AdminInv, NEW name \in Operations, Begin(name)
    PROVE  AdminInv'
<1>1. PICK max \in ServerVersions, bad \in {"none"} \cup Admin[name].checks :
         LET c == [Idle EXCEPT !.name = name, !.max = max, !.bad = bad # "none",
                               !.todo = Asked(name), !.pending = Items, !.hadMembers = members]
         IN call' = CASE bad # "none" -> Reject(c, ClientError("KafkaJSNonRetriableError"))
                      [] bad = "none" /\ Admin[name].first = "ReferenceError" ->
                           Reject(c, ClientError("ReferenceError"))
                      [] OTHER -> [c EXCEPT !.pc = Admin[name].first]
  BY DEF Begin
<1> DEFINE c == [Idle EXCEPT !.name = name, !.max = max, !.bad = bad # "none",
                             !.todo = Asked(name), !.pending = Items, !.hadMembers = members]
<1>2. \/ \E e : call' = Reject(c, e)
      \/ call' = [c EXCEPT !.pc = Admin[name].first]
  BY <1>1
<1>3. /\ IsCall(c) /\ c.name = name /\ c.attempt = 0 /\ c.phase = 1 /\ c.todo = Asked(name)
      /\ c.plan = [n \in Nodes |-> {}] /\ c.unsent = {} /\ c.waiting = {} /\ c.failed = {}
      /\ c.high = 0 /\ c.offset = 0 /\ c.pending = Items /\ c.hadMembers = members
  <2>1. /\ IsCall(Idle) /\ Idle.attempt = 0 /\ Idle.phase = 1
        /\ Idle.plan = [n \in Nodes |-> {}] /\ Idle.unsent = {} /\ Idle.waiting = {}
        /\ Idle.failed = {} /\ Idle.high = 0 /\ Idle.offset = 0
    BY DEF Idle, IsCall, CallFields
  <2> QED
    BY <2>1 DEF IsCall, CallFields
<1> HIDE DEF c
<1>4. PICK d : d = call'
  OBVIOUS
<1>5. /\ IsCall(d) /\ d.name = name /\ d.attempt = 0 /\ d.phase = 1 /\ d.todo = Asked(name)
      /\ d.plan = [n \in Nodes |-> {}] /\ d.unsent = {} /\ d.waiting = {} /\ d.failed = {}
      /\ d.high = 0 /\ d.offset = 0 /\ d.pending = Items /\ d.hadMembers = members
      /\ d.pc = Admin[name].first \/ d.pc = "rejected"
  BY <1>2, <1>3, <1>4 DEF Reject, IsCall, CallFields
<1>6. Good(d)
  BY <1>5, BeginGood DEF Begin
<1> QED
  BY <1>4, <1>6, ClientMoves DEF Begin

\* Of an operation that is not followed nothing is asked of where it goes.
LEMMA OtherMoves ==
    ASSUME NEW c, Good(c), NEW d, Moved(c, d), c.name \in Operations, c.name \notin Followed,
           c.name \notin Grouped, d.pc # "idle"
    PROVE  Good(d)
  BY OtherGood DEF Moved

\* A call that resolves.
LEMMA ResolveGood ==
    ASSUME NEW c, Good(c), c.name # "", NEW d, d = [c EXCEPT !.pc = "resolved"],
           c.name \in Writes => done = Items,
           c.name \in Grouped /\ faults = 0 /\ ~members => committed = Items
    PROVE  Good(d)
<1>1. Moved(c, d) /\ d.pc = "resolved"
  BY DEF Moved, Good, CallOK, IsCall, CallFields
<1>2. CallOK(d) /\ \A r \in requests : RequestOK(d, r)
  BY <1>1, MovedOn
<1>3. WriteOK(d)
  BY <1>1 DEF Moved, Good, WriteOK
<1>4. StampOK(d) /\ GroupOK(d)
  BY <1>1 DEF Moved, Good, StampOK, GroupOK
<1> QED
  BY <1>2, <1>3, <1>4 DEF Good

\* A call that goes from the metadata to the brokers.
LEMMA LocateGood ==
    ASSUME NEW c, Good(c), c.name # "", NEW d, d = [c EXCEPT !.pc = "locate"],
           c.pc \in {"refresh", "refreshIfNecessary"}, c.name \notin Grouped
    PROVE  Good(d)
<1>1. Moved(c, d) /\ d.pc = "locate"
  BY DEF Moved, Good, CallOK, IsCall, CallFields
<1>2. CallOK(d)
  BY <1>1 DEF Moved, Good, CallOK
<1>3. WriteOK(d)
  BY <1>1 DEF Moved, Good, WriteOK
<1>4. StampOK(d) /\ GroupOK(d)
  BY <1>1 DEF Moved, Good, StampOK, GroupOK
<1>5. ASSUME NEW r \in requests PROVE RequestOK(d, r)
  <2>1. RequestOK(c, r)
    BY DEF Good
  <2> QED
    BY <1>1, <2>1 DEF RequestOK, Moved
<1> QED
  BY <1>2, <1>3, <1>4, <1>5 DEF Good

\* The metadata is refreshed, before, after or between two attempts.
LEMMA RefreshStep ==
    ASSUME AdminInv, Refresh
    PROVE  AdminInv'
<1>1. call.pc \in {"refresh", "afterRefresh", "staleRefresh"} /\ call.pc \in Catching
  BY DEF Refresh, Catching
<1>2. /\ call.name \notin Grouped /\ call.name \in Operations /\ call.name \in DOMAIN Admin
      /\ call.name # "" /\ Good(call)
  BY <1>1, CatchingNotGrouped, Table DEF AdminInv
<1>3. PICK d : d = call'
  OBVIOUS
<1>4. CASE call.pc = "staleRefresh"
  <2>1. d = Retry(call, call.error)
    BY <1>3, <1>4 DEF Refresh
  <2> QED
    BY <1>1, <1>2, <2>1, RetryGood, <1>3, ClientMoves DEF Refresh
<1>5. CASE call.pc = "afterRefresh" \/ (call.pc = "refresh" /\ Op.target = "metadata")
  <2>1. d = [call EXCEPT !.pc = "resolved"]
    BY <1>3, <1>5 DEF Refresh
  <2>2. call.name \in Writes => call.pc = "afterRefresh"
    BY <1>5, WriteTable DEF Op
  <2>3. call.name \in Writes => done = Items
    BY <1>2, <2>2 DEF Good, WriteOK
  <2>4. Good(d)
    BY <1>2, <2>1, <2>3, ResolveGood
  <2> QED
    BY <1>3, <2>4, ClientMoves DEF Refresh
<1>6. CASE call.pc = "refresh" /\ Op.target # "metadata"
  <2>1. d = [call EXCEPT !.pc = "locate"]
    BY <1>3, <1>6 DEF Refresh
  <2>2. Good(d)
    BY <1>2, <1>6, <2>1, LocateGood
  <2> QED
    BY <1>3, <2>2, ClientMoves DEF Refresh
<1> QED
  BY <1>1, <1>4, <1>5, <1>6

\* The refresh fails: another attempt, or a rejection.
LEMMA RefreshFailsStep ==
    ASSUME AdminInv, RefreshFails
    PROVE  AdminInv'
<1>1. call.pc \in Catching /\ Good(call)
  BY DEF RefreshFails, Catching, AdminInv
<1>2. PICK d, e : /\ d = call' /\ e = ClientError("KafkaJSNumberOfRetriesExceeded")
                  /\ d = Retry(call, e) \/ d = Catch(call, e)
  BY DEF RefreshFails
<1>3. e.types = {}
  BY <1>2 DEF ClientError
<1>4. Good(d)
  BY <1>1, <1>2, <1>3, RetryGood, CatchGood
<1> QED
  BY <1>2, <1>4, ClientMoves DEF RefreshFails

\* The metadata is refreshed unless it is recent.
LEMMA RefreshIfNecessaryStep ==
    ASSUME AdminInv, RefreshIfNecessary
    PROVE  AdminInv'
<1>1. call.pc = "refreshIfNecessary" /\ Good(call) /\ call.name # "" /\ call.name \in Operations
  BY DEF RefreshIfNecessary, AdminInv, Good, CallOK
<1>2. call.name \in DOMAIN Admin /\ call.name \notin Writes
  BY <1>1, OperationsAssumption DEF Good, WriteOK
<1>3. PICK d : d = call'
  OBVIOUS
<1>4. CASE Op.target = "group"
  <2>1. d = [call EXCEPT !.pc = "describe"]
    BY <1>3, <1>4 DEF RefreshIfNecessary
  <2>2. Moved(call, d) /\ d.pc = "describe"
    BY <1>1, <2>1 DEF Moved, Good, CallOK, IsCall, CallFields
  <2>3. call.name \in Grouped
    BY <1>2, <1>4, GroupTarget DEF Op
  <2>4. WriteOK(d) /\ StampOK(d) /\ GroupOK(d)
    BY <1>1, <2>2, <2>3, Kinds DEF Good, WriteOK, StampOK, GroupOK, Moved
  <2>5. CallOK(d) /\ \A r \in requests : RequestOK(d, r)
    BY <1>1, <2>2, MovedOn
  <2>6. Good(d)
    BY <2>4, <2>5 DEF Good
  <2> QED
    BY <1>3, <2>6, ClientMoves DEF RefreshIfNecessary
<1>5. CASE Op.target # "group"
  <2>1. d = [call EXCEPT !.pc = "locate"]
    BY <1>3, <1>5 DEF RefreshIfNecessary
  <2>2. call.name \notin Grouped
    BY <1>5, GroupTable DEF Op
  <2>3. Good(d)
    BY <1>1, <2>1, <2>2, LocateGood
  <2> QED
    BY <1>3, <2>3, ClientMoves DEF RefreshIfNecessary
<1> QED
  BY <1>4, <1>5

\* A plan that asks a broker for every item.
LEMMA PlannedGood ==
    ASSUME AdminInv, call.pc = "locate", NEW plan, NEW d,
           d = Planned(call, plan) \/ d = [Planned(call, plan) EXCEPT !.todo = {}],
           call.name \in Followed => plan \in [Nodes -> SUBSET Items],
           call.name \in Writes => \A i \in Items : \E n \in Nodes : i \in plan[n],
           call.name = "createTopics" => \A n \in Nodes : plan[n] # {} => plan[n] = Items
    PROVE  Good(d)
<1> DEFINE u == {n \in Nodes : plan[n] # {}}
<1>1. /\ IsCall(d) /\ d.name = call.name /\ d.pc = "waiting" /\ d.plan = plan /\ d.unsent = u
      /\ d.attempt = call.attempt /\ d.phase = call.phase /\ d.waiting = call.waiting
      /\ d.failed = call.failed /\ d.high = call.high /\ d.offset = call.offset
  <2>1. IsCall(call)
    BY DEF AdminInv, Good, CallOK
  <2>2. CASE d = Planned(call, plan)
    BY <2>1, <2>2, ZenonT(60) DEF Planned, IsCall, CallFields
  <2>3. CASE d = [Planned(call, plan) EXCEPT !.todo = {}]
    BY <2>1, <2>3, ZenonT(60) DEF Planned, IsCall, CallFields
  <2> QED
    BY <2>2, <2>3
<1>2. Good(call) /\ call.name # "" /\ call.name \notin Grouped
  BY DEF AdminInv, Good, CallOK, GroupOK
<1>3. u \subseteq Nodes /\ \A n \in Nodes : \A i \in plan[n] : n \in u
  OBVIOUS
<1> HIDE DEF u
<1>4. CallOK(d)
  BY <1>1, <1>2, <1>3 DEF Good, CallOK
<1>5. WriteOK(d)
  <2>1. CASE call.name \in Writes
    <3>1. WriteOK(call) /\ call.waiting = {}
      BY <1>2, <2>1 DEF Good, WriteOK
    <3>2. \A i \in Items \ done : \E n \in d.unsent \cup d.waiting : i \in d.plan[n]
      BY <1>1, <1>3, <2>1
    <3>3. call.name = "createTopics" => \A n \in d.unsent \cup d.waiting : d.plan[n] = Items
      BY <1>1, <3>1 DEF u
    <3>4. call.name = "deleteTopicRecords" =>
             \A i \in Items \ done : \E n \in Nodes : i \in d.plan[n]
      BY <1>1, <2>1
    <3> QED
      BY <1>1, <3>1, <3>2, <3>3, <3>4 DEF WriteOK
  <2> QED
    BY <1>1, <2>1 DEF WriteOK
<1>6. StampOK(d) /\ GroupOK(d)
  BY <1>1, <1>2 DEF Good, StampOK, GroupOK
<1>7. ASSUME NEW r \in requests PROVE RequestOK(d, r)
  <2>1. RequestOK(call, r)
    BY <1>2 DEF Good
  <2> QED
    BY <1>1, <2>1 DEF RequestOK
<1> QED
  BY <1>4, <1>5, <1>6, <1>7 DEF Good

\* The brokers are found in the client's metadata, however old it is.
LEMMA LocateStep ==
    ASSUME AdminInv, Locate
    PROVE  AdminInv'
<1>1. /\ call.pc = "locate" /\ Op.target # "coordinator" /\ call' = Planned(call, Plan)
      /\ known.controller \in Nodes /\ known.owner \in [Items -> Nodes]
  BY DEF Locate, AdminInv, WorldOK
<1>3. ASSUME call.name \in Followed PROVE Plan \in [Nodes -> SUBSET Items]
  <2>1. Op.target \in {"controller", "resources", "knownLeader", "frozenLeader"}
    <3>1. CASE call.name \in Writes
      BY <1>1, <3>1, WriteTable DEF Op
    <3>2. CASE call.name = Stamp
      BY <3>2, StampTable DEF Op
    <3> QED
      BY <1>3, <3>1, <3>2 DEF Followed
  <2>2. Asked(call.name) \subseteq Items
    BY AdminAssumption DEF Asked
  <2> QED
    BY <2>1, <2>2 DEF Plan, groupResourcesByBroker, findLeaderForPartitions
<1>4. ASSUME call.name \in Writes PROVE \A i \in Items : \E n \in Nodes : i \in Plan[n]
  <2>1. Op.target \in {"controller", "resources", "frozenLeader"}
    BY <1>1, <1>4, WriteTable DEF Op
  <2>2. Asked(call.name) = Items
    BY <1>4, WriteTable DEF Asked
  <2>3. CASE Op.target = "controller"
    <3>1. Plan = [n \in Nodes |-> IF n = known.controller THEN Items ELSE {}]
      BY <2>3 DEF Plan
    <3> QED
      BY <1>1, <3>1
  <2>4. CASE Op.target = "resources"
    <3>1. Plan = [n \in Nodes |-> groupResourcesByBroker(n)]
      BY <2>4 DEF Plan
    <3> SUFFICES ASSUME NEW i \in Items PROVE \E n \in Nodes : i \in Plan[n]
      OBVIOUS
    <3>2. PICK n \in Nodes : n = (IF i \in BrokerItems THEN known.owner[i] ELSE known.controller)
      BY <1>1
    <3>3. i \in groupResourcesByBroker(n)
      BY <3>2 DEF groupResourcesByBroker
    <3> QED
      BY <3>1, <3>3
  <2>5. CASE Op.target = "frozenLeader"
    <3>1. Plan = [n \in Nodes |-> findLeaderForPartitions(n)]
      BY <2>5 DEF Plan
    <3> SUFFICES ASSUME NEW i \in Items PROVE \E n \in Nodes : i \in Plan[n]
      OBVIOUS
    <3>2. known.owner[i] \in Nodes /\ i \in findLeaderForPartitions(known.owner[i])
      BY <1>1, <2>2 DEF findLeaderForPartitions
    <3> QED
      BY <3>1, <3>2
  <2> QED
    BY <2>1, <2>3, <2>4, <2>5
<1>5. ASSUME call.name = "createTopics" PROVE \A n \in Nodes : Plan[n] # {} => Plan[n] = Items
  <2>1. Op.target = "controller"
    BY <1>5, WriteTable DEF Op, Writes
  <2>2. Plan = [n \in Nodes |-> IF n = known.controller THEN Items ELSE {}]
    BY <2>1 DEF Plan
  <2> QED
    BY <2>2
<1>6. PICK plan, d : plan = Plan /\ d = call' /\ d = Planned(call, plan)
  BY <1>1
<1>7. Good(d)
  BY <1>1, <1>3, <1>4, <1>5, <1>6, PlannedGood
<1> QED
  BY <1>6, <1>7, ClientMoves DEF Locate, AdminInv

\* The coordinators are found, one group after another.
LEMMA LocateCoordinatorStep ==
    ASSUME AdminInv, NEW i \in Items, LocateCoordinator(i)
    PROVE  AdminInv'
<1> DEFINE plan == IF call.todo = Items THEN [n \in Nodes |-> IF n = owner[i] THEN {i} ELSE {}]
                   ELSE [call.plan EXCEPT ![owner[i]] = @ \cup {i}]
           last == [Planned(call, plan) EXCEPT !.todo = {}]
           more == [call EXCEPT !.plan = plan, !.todo = @ \ {i}]
<1>1. /\ call.pc = "locate" /\ Op.target = "coordinator" /\ i \in call.todo
      /\ call' = IF call.todo = {i} THEN last ELSE more
      /\ owner[i] \in Nodes /\ Good(call)
  BY DEF LocateCoordinator, AdminInv, WorldOK
<1>2. /\ call.name # "" /\ call.name \in Operations /\ IsCall(call) /\ call.name \notin Grouped
  BY <1>1 DEF Good, CallOK, GroupOK
<1>3. call.name \in Followed => call.name = "deleteGroups"
  <2>1. CASE call.name \in Writes
    BY <1>1, <2>1, WriteTable DEF Op
  <2>2. CASE call.name = Stamp
    BY <1>1, <2>2, StampTable DEF Op
  <2> QED
    BY <2>1, <2>2 DEF Followed
<1>4. ASSUME call.name \in Followed
      PROVE  /\ plan \in [Nodes -> SUBSET Items] /\ call.todo \subseteq Items
             /\ \A j \in Items \ (call.todo \ {i}) : \E n \in Nodes : j \in plan[n]
  <2>1. /\ call.plan \in [Nodes -> SUBSET Items] /\ call.todo \subseteq Items
        /\ call.todo # Items => \A j \in Items \ call.todo : \E n \in Nodes : j \in call.plan[n]
    BY <1>1, <1>3, <1>4 DEF Good, CallOK, WriteOK, Writes
  <2>2. CASE call.todo = Items
    BY <1>1, <2>1, <2>2
  <2>3. CASE call.todo # Items
    <3>1. plan = [call.plan EXCEPT ![owner[i]] = @ \cup {i}]
      BY <2>3
    <3>2. plan \in [Nodes -> SUBSET Items] /\ i \in plan[owner[i]]
      BY <1>1, <2>1, <3>1
    <3>3. \A n \in Nodes : call.plan[n] \subseteq plan[n]
      BY <1>1, <2>1, <3>1
    <3> HIDE DEF plan
    <3> QED
      BY <1>1, <2>1, <2>3, <3>2, <3>3
  <2> QED
    BY <2>2, <2>3
<1> HIDE DEF plan
<1>5. CASE call.todo = {i}
  <2>1. PICK d : d = call' /\ d = last
    BY <1>1, <1>5
  <2>2. call.name \in Writes => \A j \in Items : \E n \in Nodes : j \in plan[n]
    BY <1>4, <1>5 DEF Followed
  <2>3. call.name # "createTopics"
    BY <1>3 DEF Followed, Writes
  <2> HIDE DEF more
  <2>4. Good(d)
    BY <1>1, <1>4, <2>1, <2>2, <2>3, PlannedGood
  <2> QED
    BY <2>1, <2>4, ClientMoves DEF LocateCoordinator
<1>6. CASE call.todo # {i}
  <2>1. PICK d : d = call' /\ d = more
    BY <1>1, <1>6
  <2>2. /\ IsCall(d) /\ d.pc = call.pc /\ d.name = call.name /\ d.attempt = call.attempt
        /\ d.phase = call.phase /\ d.plan = plan /\ d.unsent = call.unsent
        /\ d.waiting = call.waiting /\ d.failed = call.failed /\ d.todo = call.todo \ {i}
    BY <1>2, <2>1 DEF IsCall, CallFields
  <2> HIDE DEF last, more
  <2>3. CASE call.name \in Followed
    <3>1. call.name = "deleteGroups" /\ call.name \in Writes
      BY <1>3, <2>3 DEF Writes
    <3>2. CallOK(d)
      BY <1>1, <1>4, <2>2, <2>3 DEF Good, CallOK
    <3>3. WriteOK(d)
      BY <1>1, <1>4, <2>2, <2>3, <3>1 DEF Good, WriteOK
    <3>4. StampOK(d) /\ GroupOK(d)
      BY <1>2, <2>2, <3>1, Kinds DEF StampOK, GroupOK
    <3>5. ASSUME NEW r \in requests PROVE RequestOK(d, r)
      <4>1. RequestOK(call, r)
        BY <1>1 DEF Good
      <4> QED
        BY <1>1, <2>2, <2>3, <3>1, <4>1, Kinds DEF RequestOK
    <3> QED
      BY <2>1, <3>2, <3>3, <3>4, <3>5, ClientMoves DEF LocateCoordinator, Good
  <2>4. CASE call.name \notin Followed
    <3>1. Good(d)
      BY <1>1, <1>2, <2>2, <2>4, OtherGood
    <3> QED
      BY <2>1, <3>1, ClientMoves DEF LocateCoordinator
  <2> QED
    BY <2>3, <2>4
<1> QED
  BY <1>5, <1>6

\* The requests of an attempt are sent: no other one of the attempt is under way to
\* the same broker.
LEMMA SendStep ==
    ASSUME AdminInv, Send
    PROVE  AdminInv'
<1>1. /\ call.pc = "waiting" /\ Good(call) /\ WorldOK
  BY DEF Send, AdminInv
<1>2. /\ call.name # "" /\ call.name \in Operations /\ IsCall(call) /\ call.name \notin Grouped
  BY <1>1 DEF Good, CallOK, GroupOK
<1>3. CASE ~Implemented(call.max, Op.method.versions)
  <2>1. PICK d, e : /\ d = call' /\ d = Catch(call, e) /\ e = ClientError("TypeError")
    BY <1>3 DEF Send
  <2>2. e.types = {}
    BY <2>1 DEF ClientError
  <2>3. Good(d)
    BY <1>1, <2>1, <2>2, CatchGood DEF Catching
  <2>4. requests' = requests
    BY <1>3 DEF Send
  <2> QED
    BY <2>1, <2>3, <2>4, ClientMoves DEF Send
<1>4. CASE Implemented(call.max, Op.method.versions)
  <2> DEFINE Req(n) == [node |-> n, items |-> call.plan[n],
                        attempt |-> <<call.attempt, call.tries[n]>>, phase |-> call.phase,
                        served |-> FALSE, errors |-> {}, moved |-> FALSE, offset |-> 0]
  <2>1. PICK to \in IF Op.target = "each" THEN {{n} : n \in call.unsent} ELSE {call.unsent} :
           /\ requests' = requests \cup {Req(n) : n \in to}
           /\ call' = [call EXCEPT !.unsent = @ \ to, !.waiting = @ \cup to]
    BY <1>4 DEF Send
  <2>2. to \subseteq call.unsent
    BY <2>1
  <2>3. \A n : /\ IsRequest(Req(n)) /\ Req(n).node = n /\ Req(n).items = call.plan[n]
               /\ Req(n).attempt[1] = call.attempt /\ Req(n).phase = call.phase
               /\ Req(n).served = FALSE
    BY DEF IsRequest, RequestFields
  <2> HIDE DEF Req
  <2>4. PICK d : d = call'
    OBVIOUS
  <2>5. /\ IsCall(d) /\ d.pc = call.pc /\ d.name = call.name /\ d.attempt = call.attempt
        /\ d.phase = call.phase /\ d.plan = call.plan /\ d.unsent = call.unsent \ to
        /\ d.waiting = call.waiting \cup to /\ d.failed = call.failed
        /\ d.high = call.high /\ d.offset = call.offset
    BY <1>2, <2>1, <2>4 DEF IsCall, CallFields
  <2>6. /\ controller' = controller /\ owner' = owner /\ done' = done /\ log' = log
        /\ members' = members /\ committed' = committed /\ known' = known /\ faults' = faults
    BY DEF Send, ClusterVars
  <2>7. \A r \in requests' : r \in requests \/ \E n \in to : r = Req(n)
    BY <2>1
  <2>8. WorldOK'
    <3>1. \A r \in requests : IsRequest(r) /\ r.served \in BOOLEAN
      BY <1>1 DEF WorldOK
    <3>2. \A r \in requests' : IsRequest(r) /\ r.served \in BOOLEAN
      BY <2>3, <2>7, <3>1
    <3> QED
      BY <1>1, <2>6, <3>2 DEF WorldOK
  <2>9. CallOK(d)'
    BY <1>1, <2>2, <2>5 DEF Good, CallOK
  <2>10. WriteOK(d)'
    <3>1. CASE call.name \in Writes
      <4>1. d.unsent \cup d.waiting = call.unsent \cup call.waiting
        BY <2>2, <2>5
      <4> QED
        BY <1>1, <2>5, <2>6, <3>1, <4>1 DEF Good, WriteOK
    <3> QED
      BY <2>5, <3>1 DEF WriteOK
  <2>11. StampOK(d)' /\ GroupOK(d)'
    BY <1>1, <1>2, <2>5, <2>6 DEF Good, StampOK, GroupOK, Safe
  <2>12. ASSUME NEW r \in requests' PROVE RequestOK(d, r)'
    <3>1. CASE r \in requests
      <4>1. RequestOK(call, r)
        BY <1>1, <3>1 DEF Good
      <4> QED
        BY <1>1, <2>2, <2>5, <2>6, <4>1 DEF RequestOK, Safe
    <3>2. CASE call.name \in Followed /\ \E n \in to : r = Req(n)
      <4>1. PICK n \in to : r = Req(n)
        BY <3>2
      <4>2. /\ n \in Nodes /\ call.plan[n] \subseteq Items /\ call.attempt \in Nat
            /\ call.phase \in {1, 2}
        BY <1>1, <2>2, <3>2 DEF Good, CallOK
      <4>3. /\ r.node = n /\ r.items = call.plan[n] /\ r.attempt[1] = call.attempt
            /\ r.phase = call.phase /\ r.served = FALSE
        BY <2>3, <4>1
      <4> QED
        BY <1>1, <2>5, <4>2, <4>3 DEF RequestOK
    <3> QED
      BY <2>5, <2>7, <3>1, <3>2 DEF RequestOK
  <2> QED
    BY <2>4, <2>8, <2>9, <2>10, <2>11, <2>12 DEF AdminInv, Good
<1> QED
  BY <1>3, <1>4

\* An answer that is awaited.
LEMMA AnswerStep ==
    ASSUME AdminInv, NEW r \in requests, Answer(r)
    PROVE  AdminInv'
<1>1. Good(call) /\ WorldOK /\ Awaited(r) /\ r.served
  BY DEF Answer, AdminInv
<1> DEFINE thrown == Thrown(Op.method, r.errors, r.moved)
<1>2. PICK e \in IF thrown = {} THEN {NoError} ELSE thrown : call' = Received(call, r, e)
  BY DEF Answer
<1>3. NoError.name = "" /\ NoError.types = {}
  BY DEF NoError, ClientError
<1>4. ASSUME call.name \in Followed
      PROVE  /\ e = NoError => (call.name \in Writes /\ call.name # "deleteGroups" => r.errors = {})
             /\ e.name = "KafkaJSDeleteTopicRecordsError" =>
                   call.name = "deleteTopicRecords" /\ e.types # {}
             /\ call.name = "createTopics" /\ e.types = {"TOPIC_ALREADY_EXISTS"} =>
                   r.errors = {"TOPIC_ALREADY_EXISTS"}
  <2>1. /\ call.name \in Writes /\ call.name # "deleteGroups" /\ thrown = {} => r.errors = {}
        /\ \A x \in thrown :
              /\ x # NoError
              /\ x.name = "KafkaJSDeleteTopicRecordsError" =>
                    call.name = "deleteTopicRecords" /\ x.types # {}
              /\ call.name = "createTopics" /\ x.types = {"TOPIC_ALREADY_EXISTS"} =>
                    r.errors = {"TOPIC_ALREADY_EXISTS"}
    <3>1. PICK x \in Followed : x = call.name
      BY <1>4
    <3>2. PICK errors, w : errors = r.errors /\ w = r.moved
      OBVIOUS
    <3>3. thrown = Thrown(Admin[x].method, errors, w)
      BY <3>1, <3>2 DEF Op
    <3> HIDE DEF thrown
    <3>4. /\ x \in Writes /\ x # "deleteGroups" /\ thrown = {} => errors = {}
          /\ \A y \in thrown :
                /\ y # NoError
                /\ y.name = "KafkaJSDeleteTopicRecordsError" =>
                      x = "deleteTopicRecords" /\ y.types # {}
                /\ x = "createTopics" /\ y.types = {"TOPIC_ALREADY_EXISTS"} =>
                      errors = {"TOPIC_ALREADY_EXISTS"}
      BY <3>3, ThrownFacts
    <3> QED
      BY <3>1, <3>2, <3>4
  <2> HIDE DEF thrown
  <2>2. CASE thrown = {}
    BY <1>2, <1>3, <2>1, <2>2
  <2>3. CASE thrown # {}
    BY <1>2, <2>1, <2>3
  <2> QED
    BY <2>2, <2>3
<1> HIDE DEF thrown
<1>5. "createTopics" \in Followed /\ Writes \subseteq Followed
  BY DEF Followed, Writes
<1>6. PICK d : d = call' /\ d = Received(call, r, e)
  BY <1>2
<1>7. Good(d)
  BY <1>1, <1>4, <1>5, <1>6, ReceivedGood
<1> QED
  BY <1>6, <1>7, ClientMoves DEF Answer

\* A connection that ends under a request.
LEMMA LoseStep ==
    ASSUME AdminInv, NEW r \in requests, Lose(r)
    PROVE  AdminInv'
<1>1. Good(call) /\ WorldOK /\ Awaited(r)
  BY DEF Lose, AdminInv
<1>2. PICK d, e : /\ d = call' /\ d = Received(call, r, e)
                  /\ e = ClientError("KafkaJSConnectionClosedError")
  BY DEF Lose
<1>3. e.name = "KafkaJSConnectionClosedError" /\ e.types = {} /\ NoError.name = ""
  BY <1>2 DEF ClientError, NoError
<1>4. e # NoError
  BY <1>3
<1>5. Good(d)
  BY <1>1, <1>2, <1>3, <1>4, ReceivedGood
<1> QED
  BY <1>2, <1>5, ClientMoves DEF Lose

\* An answer nothing waits for.
LEMMA IgnoreStep ==
    ASSUME AdminInv, NEW r \in requests, Ignore(r)
    PROVE  AdminInv'
<1>1. PICK d : d = call' /\ d = call
  BY DEF Ignore
<1>2. Good(d)
  BY <1>1 DEF AdminInv
<1> QED
  BY <1>1, <1>2, ClientMoves DEF Ignore

\* createTopics has its leaders, or waited too long.
LEMMA LeadersStep ==
    ASSUME AdminInv, retryOnLeaderNotAvailable
    PROVE  AdminInv'
<1>1. call.pc = "leaders" /\ Good(call)
  BY DEF retryOnLeaderNotAvailable, AdminInv
<1>2. call.name \notin Grouped /\ call.name # ""
  BY <1>1 DEF Good, CallOK, GroupOK
<1>3. PICK d : d = call' /\ (\/ d = [call EXCEPT !.pc = "resolved"]
                             \/ d = Catch(call, ClientError("KafkaJSTimeout")))
  BY DEF retryOnLeaderNotAvailable
<1>4. CASE d = [call EXCEPT !.pc = "resolved"]
  <2>1. call.name \in Writes => done = Items
    BY <1>1 DEF Good, WriteOK
  <2>2. Good(d)
    BY <1>1, <1>2, <1>4, <2>1, ResolveGood
  <2> QED
    BY <1>3, <2>2, ClientMoves DEF retryOnLeaderNotAvailable
<1>5. CASE d = Catch(call, ClientError("KafkaJSTimeout"))
  <2>1. PICK e : e = ClientError("KafkaJSTimeout") /\ d = Catch(call, e)
    BY <1>5
  <2>2. e.types = {}
    BY <2>1 DEF ClientError
  <2>3. Good(d)
    BY <1>1, <2>1, <2>2, CatchGood DEF Catching
  <2> QED
    BY <1>3, <2>3, ClientMoves DEF retryOnLeaderNotAvailable
<1> QED
  BY <1>3, <1>4, <1>5

\* setOffsets looks at the members of the group.
LEMMA DescribeGroupStep ==
    ASSUME AdminInv, describeGroup
    PROVE  AdminInv'
<1>1. call.pc = "describe" /\ Good(call) /\ call.name # "" /\ call.name \in Operations
  BY DEF describeGroup, AdminInv, Good, CallOK
<1>2. call.name \notin Followed
  BY <1>1 DEF Good, WriteOK, StampOK, Followed
<1>3. PICK d : d = call'
  OBVIOUS
<1>4. CASE members
  <2>1. d = Reject(call, ClientError("KafkaJSNonRetriableError"))
    BY <1>3, <1>4 DEF describeGroup
  <2>2. Good(d)
    BY <1>1, <2>1, RejectGood
  <2> QED
    BY <1>3, <2>2, ClientMoves DEF describeGroup
<1>5. CASE ~members
  <2>1. d = [call EXCEPT !.pc = "join"]
    BY <1>3, <1>5 DEF describeGroup
  <2>2. Moved(call, d) /\ d.pc = "join"
    BY <1>1, <2>1 DEF Moved, Good, CallOK, IsCall, CallFields
  <2>3. CallOK(d) /\ \A r \in requests : RequestOK(d, r)
    BY <1>1, <2>2, MovedOn
  <2>4. WriteOK(d) /\ StampOK(d)
    BY <1>2, <2>2 DEF WriteOK, StampOK, Moved, Followed
  <2>5. GroupOK(d)
    BY <1>1, <2>2 DEF Good, GroupOK, Moved
  <2>6. Good(d)
    BY <2>3, <2>4, <2>5 DEF Good
  <2> QED
    BY <1>3, <2>6, ClientMoves DEF describeGroup
<1> QED
  BY <1>4, <1>5

\* The consumer of setOffsets joins, alone if nobody else has joined.
LEMMA JoinGroupStep ==
    ASSUME AdminInv, JoinGroup
    PROVE  AdminInv'
<1>1. /\ call.pc = "join" /\ Good(call) /\ call.name # "" /\ call.name \in Operations
      /\ members \in BOOLEAN
  BY DEF JoinGroup, AdminInv, Good, CallOK, WorldOK
<1>2. call.name \notin Followed
  BY <1>1 DEF Good, WriteOK, StampOK, Followed
<1>3. PICK assigned \in IF members THEN SUBSET Items ELSE {Items} :
         call' = [call EXCEPT !.pc = "seek", !.assigned = assigned, !.hadMembers = members]
  BY DEF JoinGroup
<1>4. PICK d : d = call'
  OBVIOUS
<1>5. /\ IsCall(d) /\ d.pc = "seek" /\ d.name = call.name /\ d.assigned = assigned
      /\ d.hadMembers = members /\ d.pending = call.pending
  BY <1>1, <1>3, <1>4 DEF Good, CallOK, IsCall, CallFields
<1>6. CallOK(d) /\ WriteOK(d) /\ StampOK(d)
  BY <1>1, <1>2, <1>5 DEF CallOK, WriteOK, StampOK, Followed
<1>7. GroupOK(d)
  <2>1. ~members => assigned = Items
    BY <1>3
  <2>2. ~members => members = FALSE
    BY <1>1
  <2> QED
    BY <1>1, <1>5, <2>1, <2>2 DEF Good, GroupOK
<1>8. Good(d)
  BY <1>2, <1>5, <1>6, <1>7 DEF Good, RequestOK
<1> QED
  BY <1>4, <1>8, ClientMoves DEF JoinGroup

\* The consumer of setOffsets stops: nothing it was given is still to be committed.
LEMMA StopConsumerStep ==
    ASSUME AdminInv, StopConsumer
    PROVE  AdminInv'
<1>1. call.pc = "seek" /\ Good(call) /\ call.name # "" /\ call.pending \cap call.assigned = {}
  BY DEF StopConsumer, AdminInv, Good, CallOK
<1>2. call.name \notin Writes
  BY <1>1 DEF Good, WriteOK
<1>3. call.name \in Grouped /\ faults = 0 /\ ~members => committed = Items
  BY <1>1 DEF Good, GroupOK, AdminInv, WorldOK
<1>4. PICK d : d = call' /\ d = [call EXCEPT !.pc = "resolved"]
  BY DEF StopConsumer
<1>5. Good(d)
  BY <1>1, <1>2, <1>3, <1>4, ResolveGood
<1> QED
  BY <1>4, <1>5, ClientMoves DEF StopConsumer

\* An offset is committed, or refused because the group has changed.
LEMMA SeekOffsetStep ==
    ASSUME AdminInv, NEW i \in Items, SeekOffset(i)
    PROVE  AdminInv'
<1>1. /\ call.pc = "seek" /\ Good(call) /\ call.name # "" /\ call.name \in Operations
      /\ IsCall(call) /\ WorldOK
  BY DEF SeekOffset, AdminInv, Good, CallOK
<1>2. call.name \notin Followed
  BY <1>1 DEF Good, WriteOK, StampOK, Followed
<1>3. /\ controller' = controller /\ owner' = owner /\ done' = done /\ log' = log
      /\ members' = members /\ known' = known /\ requests' = requests /\ faults' = faults
  BY DEF SeekOffset
<1>4. PICK d : d = call'
  OBVIOUS
<1>5. /\ IsCall(d) /\ d.name = call.name /\ d.pending = call.pending \ {i}
      /\ d.assigned = call.assigned /\ d.hadMembers = call.hadMembers
      /\ \/ members = call.hadMembers /\ committed' = committed \cup {i} /\ d.pc = "seek"
         \/ members # call.hadMembers /\ committed' = committed /\ d.pc = "join"
  <2>1. CASE members = call.hadMembers
    <3>1. d = [call EXCEPT !.pending = @ \ {i}] /\ committed' = committed \cup {i}
      BY <1>4, <2>1 DEF SeekOffset
    <3> QED
      BY <1>1, <2>1, <3>1 DEF IsCall, CallFields
  <2>2. CASE members # call.hadMembers
    <3>1. d = [call EXCEPT !.pending = @ \ {i}, !.pc = "join"] /\ committed' = committed
      BY <1>4, <2>2 DEF SeekOffset
    <3> QED
      BY <1>1, <2>2, <3>1 DEF IsCall, CallFields
  <2> QED
    BY <2>1, <2>2
<1>6. WorldOK'
  BY <1>1, <1>3, <1>5 DEF WorldOK
<1>7. CallOK(d)' /\ WriteOK(d)' /\ StampOK(d)'
  BY <1>1, <1>2, <1>5 DEF CallOK, WriteOK, StampOK, Followed
<1>8. GroupOK(d)'
  <2>1. ~members => members = FALSE
    BY <1>1 DEF WorldOK
  <2> QED
    BY <1>1, <1>3, <1>5, <2>1 DEF Good, GroupOK
<1>9. \A r \in requests' : RequestOK(d, r)'
  BY <1>2, <1>5 DEF RequestOK
<1> QED
  BY <1>4, <1>6, <1>7, <1>8, <1>9 DEF AdminInv, Good

\* A commit fails.
LEMMA SeekFailsStep ==
    ASSUME AdminInv, NEW i \in Items, SeekFails(i)
    PROVE  AdminInv'
<1>1. /\ call.pc = "seek" /\ Good(call) /\ call.name # "" /\ call.name \in Operations
      /\ IsCall(call) /\ WorldOK
  BY DEF SeekFails, AdminInv, Good, CallOK
<1>2. call.name \notin Followed
  BY <1>1 DEF Good, WriteOK, StampOK, Followed
<1>3. /\ controller' = controller /\ owner' = owner /\ done' = done /\ log' = log
      /\ members' = members /\ known' = known /\ requests' = requests /\ faults' = faults + 1
      /\ committed' = committed
  BY DEF SeekFails, ClusterVars
<1>4. PICK d : d = call' /\ d = [call EXCEPT !.pending = {j \in @ : owner[j] # owner[i]}]
  BY DEF SeekFails
<1>5. IsCall(d) /\ d.name = call.name /\ d.pc = "seek"
  BY <1>1, <1>4 DEF IsCall, CallFields
<1>5a. faults' \in Nat /\ faults' # 0
  <2>1. faults \in Nat
    BY <1>1 DEF WorldOK
  <2> QED
    BY <1>3, <2>1
<1>6. WorldOK'
  BY <1>1, <1>3, <1>5a DEF WorldOK
<1>7. CallOK(d)' /\ WriteOK(d)' /\ StampOK(d)'
  BY <1>1, <1>2, <1>5 DEF CallOK, WriteOK, StampOK, Followed
<1>8. GroupOK(d)'
  BY <1>5, <1>5a DEF GroupOK
<1>9. \A r \in requests' : RequestOK(d, r)'
  BY <1>2, <1>5 DEF RequestOK
<1> QED
  BY <1>4, <1>6, <1>7, <1>8, <1>9 DEF AdminInv, Good

-----------------------------------------------------------------------------
(***************************************************************************)
(* The steps of the cluster and of the other clients                       *)
(***************************************************************************)

\* What the call depends on moves, or another member joins the group.
LEMMA WorldMoves ==
    ASSUME AdminInv, UNCHANGED <<done, log, committed, known, call, requests, faults>>,
           controller' \in Nodes, owner' \in [Items -> Nodes],
           members' = members \/ members' = TRUE
    PROVE  AdminInv'
<1>1. Good(call) /\ WorldOK
  BY DEF AdminInv
<1>2. WorldOK'
  BY <1>1 DEF WorldOK
<1>3. CallOK(call)'
  BY <1>1 DEF Good, CallOK
<1>4. WriteOK(call)'
  BY <1>1 DEF Good, WriteOK
<1>5. StampOK(call)'
  BY <1>1 DEF Good, StampOK, Safe
<1>6. GroupOK(call)'
  BY <1>1 DEF Good, GroupOK
<1>7. ASSUME NEW r \in requests' PROVE RequestOK(call, r)'
  <2>1. RequestOK(call, r)
    BY <1>1 DEF Good
  <2> QED
    BY <2>1 DEF RequestOK, Safe
<1> QED
  BY <1>2, <1>3, <1>4, <1>5, <1>6, <1>7 DEF AdminInv, Good

\* The controller, a leader or a coordinator moves, or a member joins.
LEMMA MoveStep ==
    ASSUME AdminInv, MoveController \/ MemberJoins \/ \E i \in Items : MoveOwner(i)
    PROVE  AdminInv'
<1>1. controller \in Nodes /\ owner \in [Items -> Nodes]
  BY DEF AdminInv, WorldOK
<1>2. CASE MoveController
  BY <1>1, <1>2, WorldMoves DEF MoveController
<1>3. CASE MemberJoins
  BY <1>1, <1>3, WorldMoves DEF MemberJoins
<1>4. CASE \E i \in Items : MoveOwner(i)
  <2>1. PICK i \in Items : MoveOwner(i)
    BY <1>4
  <2>2. PICK n \in Nodes \ {owner[i]} : owner' = [owner EXCEPT ![i] = n]
    BY <2>1 DEF MoveOwner
  <2>3. owner' \in [Items -> Nodes]
    BY <1>1, <2>2
  <2> QED
    BY <1>1, <2>1, <2>3, WorldMoves DEF MoveOwner
<1> QED
  BY <1>2, <1>3, <1>4

\* Whatever is appended, an offset that skips nothing goes on skipping nothing.
LEMMA AppendStep ==
    ASSUME AdminInv, AppendMessage
    PROVE  AdminInv'
<1>1. Good(call) /\ WorldOK
  BY DEF AdminInv
<1>2. PICK t \in 0..1 : log' = Append(log, t)
  BY DEF AppendMessage
<1>3. /\ controller' = controller /\ owner' = owner /\ done' = done /\ members' = members
      /\ committed' = committed /\ known' = known /\ call' = call /\ requests' = requests
      /\ faults' = faults
  BY DEF AppendMessage
<1>4. /\ log' \in Seq(0..1) /\ Len(log) \in Nat /\ Len(log') = Len(log) + 1
      /\ \A k \in 1..Len(log) : log'[k] = log[k]
  BY <1>1, <1>2 DEF WorldOK
<1>5. ASSUME NEW o, Safe(o)
      PROVE  Safe(o)'
  <2>1. o \in Int /\ o <= Len(log) + 1
    BY <1>4, <1>5 DEF Safe
  <2>2. ASSUME NEW k \in 1..Len(log'), log'[k] >= 1 PROVE o <= k - 1
    <3>1. CASE k = Len(log) + 1
      BY <1>4, <1>5, <3>1 DEF Safe
    <3>2. CASE k # Len(log) + 1
      <4>1. k \in 1..Len(log)
        BY <1>4, <3>2
      <4> QED
        BY <1>4, <1>5, <2>2, <4>1 DEF Safe
    <3> QED
      BY <3>1, <3>2
  <2> QED
    BY <1>4, <2>1, <2>2 DEF Safe
<1>6. WorldOK'
  BY <1>1, <1>3, <1>4 DEF WorldOK
<1>7. CallOK(call)' /\ WriteOK(call)' /\ GroupOK(call)'
  <2>1. CallOK(call)'
    BY <1>1, <1>3 DEF Good, CallOK
  <2>2. WriteOK(call)'
    BY <1>1, <1>3 DEF Good, WriteOK
  <2>3. GroupOK(call)'
    BY <1>1, <1>3 DEF Good, GroupOK
  <2> QED
    BY <2>1, <2>2, <2>3
<1>8. StampOK(call)'
  <2>1. PICK c : c = call /\ c = call'
    BY <1>3
  <2>2. c.name = Stamp => Safe(c.offset)'
    BY <1>1, <1>5, <2>1 DEF Good, StampOK
  <2>3. c.name = Stamp => c.high \in Nat /\ c.high <= Len(log')
    BY <1>1, <1>4, <2>1 DEF Good, StampOK
  <2>4. StampOK(c)'
    BY <1>1, <2>1, <2>2, <2>3 DEF Good, StampOK
  <2> QED
    BY <2>1, <2>4
<1>9. ASSUME NEW r \in requests' PROVE RequestOK(call, r)'
  <2>1. PICK c : c = call /\ c = call' /\ RequestOK(c, r)
    BY <1>1, <1>3 DEF Good
  <2> DEFINE o == OffsetByTimestamp(r.offset, c.high)
  <2>2. Safe(o) => Safe(o)'
    BY <1>5
  <2>3. r.offset \in 0..Len(log) => r.offset \in 0..Len(log')
    BY <1>4
  <2>4. RequestOK(c, r)'
    BY <1>3, <2>1, <2>2, <2>3 DEF RequestOK
  <2> QED
    BY <2>1, <2>4
<1> QED
  BY <1>6, <1>7, <1>8, <1>9 DEF AdminInv, Good

\* The first of some messages.
LEMMA FirstOf ==
    ASSUME NEW S, S \subseteq Nat, S # {}
    PROVE  Min(S) \in S /\ \A k \in S : Min(S) <= k
<1>1. S \in SUBSET Nat
  OBVIOUS
<1>2. PICK m \in S : \A k \in S : <<k, m>> \notin OpToRel(<, Nat)
  BY <1>1, WFMin, NatLessThanWellFounded, Zenon
<1>3. \A k \in S : ~(k < m)
  BY <1>1, <1>2, Zenon DEF OpToRel
<1>4. \E j \in S : \A k \in S : j <= k
  BY <1>1, <1>3
<1> QED
  BY <1>4 DEF Min

\* The offset a leader answers with skips nothing, nor does the end of the log as it was
\* before if the leader knows of no message.
LEMMA AnsweredSafe ==
    ASSUME WorldOK, call.name = Stamp, NEW high \in Nat, high <= Len(log)
    PROVE  /\ OffsetAnswered(1) \in 0..Len(log)
           /\ Safe(OffsetByTimestamp(OffsetAnswered(2), high))
<1> DEFINE recent == {k \in 1..Len(log) : log[k] >= 1}
<1>1. Len(log) \in Nat /\ \A k \in 1..Len(log) : log[k] \in Int
  BY DEF WorldOK
<1>2. Op.then = "stamp"
  BY StampTable DEF Op
<1>3. OffsetAnswered(1) = Len(log)
  BY DEF OffsetAnswered
<1>4. OffsetAnswered(2) = IF recent = {} THEN -1 ELSE Min(recent) - 1
  BY <1>2 DEF OffsetAnswered
<1>5. CASE recent = {}
  <2>1. OffsetByTimestamp(OffsetAnswered(2), high) = high
    BY <1>4, <1>5 DEF OffsetByTimestamp
  <2>2. \A k \in 1..Len(log) : ~(log[k] >= 1)
    BY <1>5
  <2>3. Safe(high)
    BY <2>2 DEF Safe
  <2> QED
    BY <1>1, <1>3, <2>1, <2>3
<1>6. CASE recent # {}
  <2>1. recent \subseteq Nat /\ recent \subseteq 1..Len(log)
    BY <1>1
  <2>2. \A k \in 1..Len(log) : log[k] >= 1 => k \in recent
    OBVIOUS
  <2> HIDE DEF recent
  <2>3. Min(recent) \in recent /\ \A k \in recent : Min(recent) <= k
    BY <1>6, <2>1, FirstOf
  <2>4. PICK m : m = Min(recent)
    OBVIOUS
  <2>5. m \in 1..Len(log) /\ m \in Nat
    BY <2>1, <2>3, <2>4
  <2>6. OffsetByTimestamp(OffsetAnswered(2), high) = m - 1
    BY <1>4, <1>6, <2>4, <2>5 DEF OffsetByTimestamp
  <2>7. Safe(m - 1)
    BY <1>1, <2>2, <2>3, <2>4, <2>5 DEF Safe
  <2> QED
    BY <1>1, <1>3, <2>6, <2>7
<1> QED
  BY <1>5, <1>6

\* A broker does what it is asked, as far as it is in charge and nothing fails.
LEMMA ServeStep ==
    ASSUME AdminInv, NEW r \in requests, Serve(r)
    PROVE  AdminInv'
<1> DEFINE mine == {i \in r.items : InCharge(r.node, i)}
           repeated == IF Op.again = "" THEN {} ELSE mine \cap done
<1>1. /\ Good(call) /\ WorldOK /\ ~r.served /\ IsRequest(r) /\ RequestOK(call, r)
      /\ call.pc # "idle" /\ call.name # "" /\ call.name \in Operations
  BY DEF Serve, AdminInv, Good, CallOK, WorldOK
<1>2. PICK failing \in SUBSET (mine \ repeated) :
        /\ faults' = IF failing = {} THEN faults ELSE faults + 1
        /\ done' = IF call.name \in Writes THEN done \cup (mine \ failing) ELSE done
        /\ requests' = (requests \ {r}) \cup
             {[r EXCEPT !.served = TRUE, !.offset = OffsetAnswered(r.phase), !.moved = mine = {},
                        !.errors = {type \in {MovedType} : mine # r.items}
                                   \cup {type \in {Op.again} : repeated # {}}
                                   \cup {type \in {"INVALID_REQUEST"} : failing # {}}]}
  BY DEF Serve
<1> DEFINE errors == {type \in {MovedType} : mine # r.items}
                     \cup {type \in {Op.again} : repeated # {}}
                     \cup {type \in {"INVALID_REQUEST"} : failing # {}}
<1>3. PICK s : s = [r EXCEPT !.served = TRUE, !.offset = OffsetAnswered(r.phase),
                             !.moved = mine = {}, !.errors = errors]
  OBVIOUS
<1>4. requests' = (requests \ {r}) \cup {s}
  BY <1>2, <1>3
<1>5. /\ IsRequest(s) /\ s.served = TRUE /\ s.offset = OffsetAnswered(r.phase)
      /\ s.errors = errors /\ s.node = r.node /\ s.items = r.items /\ s.attempt = r.attempt
      /\ s.phase = r.phase
  BY <1>1, <1>3 DEF IsRequest, RequestFields
<1>6. /\ controller' = controller /\ owner' = owner /\ log' = log /\ members' = members
      /\ committed' = committed /\ known' = known /\ call' = call
  BY DEF Serve
<1>7. /\ errors = {} => mine = r.items /\ failing = {}
      /\ errors = {"TOPIC_ALREADY_EXISTS"} /\ MovedType # "TOPIC_ALREADY_EXISTS" =>
            mine = r.items /\ failing = {}
  <2>1. mine # r.items => MovedType \in errors
    OBVIOUS
  <2>2. failing # {} => "INVALID_REQUEST" \in errors
    OBVIOUS
  <2> HIDE DEF errors, mine
  <2>3. errors = {} => mine = r.items /\ failing = {}
    BY <2>1, <2>2
  <2>4. ASSUME errors = {"TOPIC_ALREADY_EXISTS"}, MovedType # "TOPIC_ALREADY_EXISTS"
        PROVE  mine = r.items /\ failing = {}
    <3>1. MovedType \notin errors /\ "INVALID_REQUEST" \notin errors
      BY <2>4
    <3> QED
      BY <2>1, <2>2, <3>1
  <2> QED
    BY <2>3, <2>4
<1>8. mine \subseteq r.items
  OBVIOUS
<1> HIDE DEF mine, repeated, errors
<1>9. faults' \in Nat /\ (faults' = 0 => faults = 0)
  <2>1. faults \in Nat
    BY <1>1 DEF WorldOK
  <2>2. faults' = faults \/ faults' = faults + 1
    BY <1>2
  <2> QED
    BY <2>1, <2>2
<1>10. done \subseteq done' /\ done' \subseteq Items
  BY <1>1, <1>2, <1>8 DEF WorldOK, RequestOK, Followed
<1>11. WorldOK'
  BY <1>1, <1>4, <1>5, <1>6, <1>9, <1>10 DEF WorldOK
<1>12. CallOK(call)'
  BY <1>1, <1>6 DEF Good, CallOK
<1>13. WriteOK(call)'
  BY <1>1, <1>6, <1>10 DEF Good, WriteOK
<1>14. StampOK(call)'
  BY <1>1, <1>6 DEF Good, StampOK, Safe
<1>15. GroupOK(call)'
  BY <1>1, <1>6, <1>9 DEF Good, GroupOK
<1>16. ASSUME NEW q \in requests' PROVE RequestOK(call, q)'
  <2>1. CASE q \in requests
    <3>1. RequestOK(call, q)
      BY <1>1, <2>1 DEF Good
    <3> QED
      BY <1>6, <1>10, <3>1 DEF RequestOK, Safe
  <2>2. CASE q = s /\ call.name \in Writes
    <3>1. call.name \in Followed /\ call.name # Stamp
      BY <2>2, Kinds DEF Followed
    <3>2. call.name = "createTopics" => MovedType # "TOPIC_ALREADY_EXISTS"
      <4> HAVE call.name = "createTopics"
      <4>1. Op.target = "controller"
        BY <2>2, WriteTable DEF Op
      <4> QED
        BY <4>1 DEF MovedType
    <3>3. /\ errors = {} => r.items \subseteq done'
          /\ call.name = "createTopics" /\ errors = {"TOPIC_ALREADY_EXISTS"} =>
                r.items \subseteq done'
      BY <1>2, <1>7, <2>2, <3>2
    <3> QED
      BY <1>1, <1>5, <1>6, <2>2, <3>1, <3>3 DEF RequestOK
  <2>3. CASE q = s /\ call.name = Stamp
    <3>1. call.name \in Followed /\ call.name \notin Writes
      BY <2>3, Kinds DEF Followed
    <3>2. call.high \in Nat /\ call.high <= Len(log)
      BY <1>1, <2>3 DEF Good, StampOK
    <3>3. /\ OffsetAnswered(1) \in 0..Len(log)
          /\ Safe(OffsetByTimestamp(OffsetAnswered(2), call.high))
      BY <1>1, <2>3, <3>2, AnsweredSafe
    <3>4. r.phase = 1 => s.offset \in 0..Len(log)
      BY <1>5, <3>3
    <3>5. r.phase = 2 => Safe(OffsetByTimestamp(s.offset, call.high))
      BY <1>5, <3>3
    <3>6. r.phase = 2 => Safe(OffsetByTimestamp(s.offset, call.high))'
      BY <1>6, <3>5 DEF Safe, OffsetByTimestamp
    <3> QED
      BY <1>1, <1>5, <1>6, <2>3, <3>1, <3>4, <3>6 DEF RequestOK
  <2>4. CASE call.name \notin Followed
    BY <1>6, <2>4 DEF RequestOK
  <2> QED
    BY <1>4, <2>1, <2>2, <2>3, <2>4 DEF Followed
<1> QED
  BY <1>11, <1>12, <1>13, <1>14, <1>15, <1>16 DEF AdminInv, Good

-----------------------------------------------------------------------------
(***************************************************************************)
(* The theorems                                                            *)
(***************************************************************************)

\* The invariant holds at first.
LEMMA AdminInit ==
    ASSUME Init
    PROVE  AdminInv
<1>1. controller \in Nodes
  BY AdminAssumption DEF Init
<1>2. known.controller = controller /\ known.owner = owner
  BY DEF Init
<1>3. WorldOK
  BY <1>1, <1>2 DEF Init, WorldOK
<1>4. IsCall(call) /\ call.name = "" /\ call.pc = "idle"
  BY DEF Init, Idle, IsCall, CallFields
<1>5. CallOK(call) /\ WriteOK(call) /\ StampOK(call) /\ GroupOK(call)
  BY <1>4, Kinds DEF Init, CallOK, WriteOK, StampOK, GroupOK, Followed
<1> QED
  BY <1>3, <1>5 DEF Init, AdminInv, Good

\* Every step keeps the invariant.
LEMMA AdminStep ==
    ASSUME AdminInv, [Next]_vars
    PROVE  AdminInv'
<1>1. ASSUME NEW name \in Operations, Begin(name) PROVE AdminInv'
  BY <1>1, BeginStep
<1>2. CASE ClientStep
  BY <1>2, RefreshStep, RefreshIfNecessaryStep, LocateStep, SendStep, LeadersStep,
     DescribeGroupStep, JoinGroupStep, StopConsumerStep, LocateCoordinatorStep,
     SeekOffsetStep DEF ClientStep
<1>3. CASE ServerStep
  BY <1>3, ServeStep, AnswerStep, IgnoreStep DEF ServerStep
<1>4. CASE Disturbance
  BY <1>4, RefreshFailsStep, MoveStep, AppendStep, LoseStep, SeekFailsStep DEF Disturbance
<1>5. CASE UNCHANGED vars
  BY <1>5, WorldMoves DEF vars, AdminInv, WorldOK
<1> QED
  BY <1>1, <1>2, <1>3, <1>4, <1>5 DEF Next, Done

\* What the client has asked and heard, and what the brokers have done, fit
\* together (admin/index.js with the retrier and the parse functions): every
\* item of a call that writes is done, asked of a broker that is still to answer
\* for it, or has an error collected, across retries and moved brokers.
THEOREM AdminInvariant == Spec => []AdminInv
  BY AdminInit, AdminStep, PTL DEF Spec

\* A call that resolves has done everything it was asked to, for any number of
\* brokers, items, retries, moves and faults.
THEOREM ResolvedCallsAreDone == Spec => []ResolvedIsDone
<1>1. AdminInv => ResolvedIsDone
  BY DEF AdminInv, Good, WriteOK, ResolvedIsDone
<1> QED
  BY <1>1, AdminInvariant, PTL

\* fetchTopicOffsetsByTimestamp resolves with an offset that skips no message
\* since the time asked for, whatever is appended during and after the call.
THEOREM TimestampSkipsNothing == Spec => []ByTimestampSkipsNothing
<1>1. AdminInv => ByTimestampSkipsNothing
  BY DEF AdminInv, Good, StampOK, Safe, Stamp, ByTimestampSkipsNothing
<1> QED
  BY <1>1, AdminInvariant, PTL

\* setOffsets and resetOffsets resolve with every offset committed, unless a
\* commit failed or another member joined the group.
THEOREM ResolvedOffsetsAreSet == Spec => []OffsetsSet
<1>1. ASSUME AdminInv PROVE OffsetsSet
  <2> SUFFICES ASSUME call.pc = "resolved", Op.target = "group", faults = 0, ~members
               PROVE  committed = Items
    BY DEF OffsetsSet
  <2>1. call.name \in Operations
    BY <1>1 DEF AdminInv, Good, CallOK
  <2>2. call.name \in Grouped
    BY <2>1, OperationsAssumption, GroupTarget DEF Op
  <2> QED
    BY <1>1, <2>2 DEF AdminInv, Good, GroupOK
<1> QED
  BY <1>1, AdminInvariant, PTL
=============================================================================
