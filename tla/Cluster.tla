------------------------------ MODULE Cluster ------------------------------
(***************************************************************************)
(* The cluster layer of kafkajs: src/src/cluster/index.js over             *)
(* brokerPool.js and connectionPoolBuilder.js, with the Broker's connect() *)
(* and its lock.                                                           *)
(*                                                                         *)
(* A process is a call of the application or one of the two promises that  *)
(* sharedPromiseTo keeps for metadata.  An action is the code from one     *)
(* answer of the network (or timer) to the next await: the promise         *)
(* continuations in between cannot be interleaved with another answer.     *)
(* Broker objects are numbered in the order they are made, because two     *)
(* objects for one node, and one object for two nodes, are what can go     *)
(* wrong here.                                                             *)
(***************************************************************************)
EXTENDS Integers, FiniteSets, SequencesExt

CONSTANTS
    Callers,        \* calls of the application that overlap
    Calls,          \* [Callers -> sets of operations]: what each may call
    Nodes,          \* node ids
    Start,          \* [Nodes -> Addrs \cup {None}]: the cluster at the start
    Moves,          \* what it may have become later
    Seeds,          \* brokers of the client's configuration, a sequence
    Topics,         \* topics the application may add
    Bad,            \* those of them every broker refuses
    None,
    MaxRetries,     \* bound: retry.retries
    MaxFaults       \* bound: connections lost, logins refused, leaders missing

Jobs == {"refreshMetadata", "refreshMetadataIfNecessary"}
Procs == Callers \cup Jobs

ASSUME ClusterAssumption ==
    /\ Callers \cap Jobs = {} /\ None # "add"
    /\ IsFiniteSet(Nodes)
    /\ Bad \subseteq Topics
    /\ Seeds \in Seq(ToSet(Seeds)) /\ Len(Seeds) > 0
    /\ MaxRetries \in Nat /\ MaxFaults \in Nat

VARIABLES
    where,      \* the cluster: address of every node that is up
    objs,       \* the Broker objects: address, nodeId, connected, once connected
    brokers,    \* brokerPool.brokers: object of every known node
    seedBroker, \* the seed Broker, None = undefined
    index,      \* connectionPoolBuilder: next of Seeds
    metadata,   \* brokerPool.metadata: nodes and topics, or None
    expired,    \* metadataExpireAt is null or in the past
    targetTopics,
    topicsLock, \* mutatingTargetTopics: the holder, then those waiting
    proc,       \* every process: where it is and its local variables
    calls,      \* callers that have made their call
    faults,
    strayed,    \* history: objects put out of the pool while in use
    seedMoved,  \* history: the seed changed under a refresh in flight
    tainted     \* history: topics added by a refresh that did not ask for them,
                \* or that failed for another reason

poolVars == <<objs, brokers, seedBroker, index, metadata, expired>>
topicVars == <<targetTopics, topicsLock, tainted>>
histVars == <<faults, strayed, seedMoved>>
vars == <<where, poolVars, topicVars, histVars, proc, calls>>

-----------------------------------------------------------------------------
(* Processes                                                               *)

\* Local variables: pc; where the caller goes on when its await is over (then),
\* and what for it connects a Broker (goal); node or topic (arg); the Broker in
\* hand (o); node ids still to try (left); topics asked for; targetTopics
\* before; address of the seed when the request went out (seedAt); retries, of
\* findGroupCoordinator (rounds) and of what it calls (tries); the outcome of
\* the await (got) and the error it was for (err); Brokers being closed, each
\* with the node it is deleted from.
Idle == [pc |-> "idle", op |-> None, then |-> "end", goal |-> "use", arg |-> None,
         o |-> 0, left |-> {}, topics |-> {}, before |-> {}, seedAt |-> None,
         tries |-> 0, rounds |-> 0, got |-> "ok", err |-> "ok", closing |-> {}]

Known == {n \in Nodes : brokers[n] # None}
Pooled == {brokers[n] : n \in Known}
NewBroker(a, n) == [addr |-> a, node |-> n, connected |-> FALSE, ready |-> FALSE]
Serves(a) == \E n \in Nodes : where[n] = a
IsConnected(o) == objs[o].connected
HasConnectedBrokers ==
    \/ \E o \in Pooled : IsConnected(o)
    \/ seedBroker # None /\ IsConnected(seedBroker)
Holds(p, o) == proc[p].pc # "idle" /\ proc[p].o = o
\* Requests that wait for an answer: disconnect() waits for them.
Pending(o) == \E p \in Procs : proc[p].o = o /\ proc[p].pc \in {"request", "ask", "use"}
RefreshInFlight == \E p \in Procs : proc[p].pc = "request"
\* A promise continuation is about to run.
Continuations ==
    \E p \in Procs : \/ proc[p].pc \in {"resumed", "find", "seed"}
                     \/ proc[p].pc = "lock" /\ Head(topicsLock) = p

\* Objects that leave the pool while another process has them in hand.
Stray(S, p) == strayed \cup {o \in S : \E q \in Procs \ {p} : Holds(q, o)}
Close(S) == [o \in DOMAIN objs |->
                IF o \in S THEN [objs[o] EXCEPT !.connected = FALSE] ELSE objs[o]]

ClusterInit ==
    /\ where = Start
    /\ objs = <<>>
    /\ brokers = [n \in Nodes |-> None]
    /\ seedBroker = None
    /\ index = 0
    /\ metadata = None
    /\ expired = TRUE
    /\ targetTopics = {}
    /\ topicsLock = <<>>
    /\ proc = [p \in Procs |-> Idle]
    /\ calls = {}
    /\ faults = 0
    /\ strayed = {}
    /\ seedMoved = FALSE
    /\ tainted = {}

-----------------------------------------------------------------------------
(* Shared promises                                                         *)

ShouldRefresh(topics) ==
    metadata = None \/ expired \/ ~(topics \subseteq metadata.topics)

Resume(pr, c, e) == [pr EXCEPT ![c].pc = "resumed", ![c].got = e, ![c].tries = 0]

\* A caller awaits refreshMetadata() or refreshMetadataIfNecessary(): it
\* starts the job, or joins the one under way, which read the topics before.
Await(pr, c, j, topics, then) ==
    LET joined == [pr EXCEPT ![c].pc = j, ![c].then = then]
    IN IF pr[j].pc # "idle" THEN joined
       ELSE IF j = "refreshMetadata" \/ ShouldRefresh(topics)
       THEN [joined EXCEPT ![j] = [Idle EXCEPT !.pc = "find", !.left = Known,
                                               !.topics = topics]]
       ELSE Resume(joined, c, "ok")

\* A promise settles: the caller itself goes on, or everyone who shares a job.
Settle(p, e) ==
    IF p \in Callers THEN Resume(proc, p, e)
    ELSE [q \in Procs |-> IF q = p THEN Idle
                          ELSE IF proc[q].pc = p THEN Resume(proc, q, e)[q]
                          ELSE proc[q]]

-----------------------------------------------------------------------------
(* BrokerPool.connect and findConnectedBroker                              *)

\* Mutant: the old seed is not closed.
CreateSeedBrokerKeepsOld(p) ==
    /\ objs' = Append(objs, NewBroker(Seeds[index + 1], None))
    /\ seedBroker' = Len(objs) + 1
    /\ index' = (index + 1) % Len(Seeds)
    /\ seedMoved' = (seedMoved \/ RefreshInFlight)
    /\ strayed' = Stray({seedBroker} \ (Pooled \cup {None}), p)

\* createSeedBroker: closes the seed and takes the next of the configuration.
CreateSeedBroker(p) ==
    /\ objs' = Append(Close({seedBroker}), NewBroker(Seeds[index + 1], None))
    /\ seedBroker' = Len(objs) + 1
    /\ index' = (index + 1) % Len(Seeds)
    /\ seedMoved' = (seedMoved \/ RefreshInFlight)
    /\ strayed' = Stray({seedBroker} \ (Pooled \cup {None}), p)

KeepSeed == UNCHANGED <<objs, seedBroker, index, seedMoved, strayed>>

\* BrokerPool.connect() makes a seed when there is none, and connects it.
ConnectSeed(p) ==
    /\ proc[p].pc = "seed"
    /\ IF HasConnectedBrokers
       THEN proc' = Settle(p, "ok") /\ KeepSeed
       ELSE IF seedBroker = None
       THEN CreateSeedBroker(p) /\ proc' = [proc EXCEPT ![p].pc = "seeding", ![p].o = Len(objs) + 1]
       ELSE KeepSeed /\ proc' = [proc EXCEPT ![p].pc = "seeding", ![p].o = seedBroker]
    /\ UNCHANGED <<where, brokers, metadata, expired, topicVars, faults, calls>>

\* The metadata request of a refresh goes out on Broker o of the objects os. A
\* Broker that was never connected has no lookupRequest, an undefined seed no
\* connectionPool: both reject the refresh.
Request(j, o, os) ==
    IF seedBroker = None \/ o = None THEN Settle(j, "TypeError")
    ELSE IF ~os[o].ready THEN Settle(j, "NotConnected")
    ELSE [proc EXCEPT ![j].pc = "request", ![j].o = o, ![j].tries = 0, ![j].left = {},
                      ![j].seedAt = os[seedBroker].addr]

\* A connected Broker at once; otherwise one known node after the other (those
\* deleted meanwhile are skipped), and the seed when none connects.
FindConnectedBroker(j) ==
    /\ proc[j].pc = "find"
    /\ LET first == proc[j].o = 0
           connected == {n \in proc[j].left \cap Known : IsConnected(brokers[n])}
       IN IF first /\ connected # {}
          THEN \E n \in connected : proc' = Request(j, brokers[n], objs)
          ELSE IF proc[j].left # {}
          THEN \E n \in proc[j].left :
                  proc' = IF n \notin Known THEN [proc EXCEPT ![j].left = @ \ {n}]
                          ELSE IF n \in connected THEN Request(j, brokers[n], objs)
                          ELSE [proc EXCEPT ![j].pc = "connecting", ![j].left = @ \ {n},
                                            ![j].o = brokers[n]]
          ELSE proc' = IF HasConnectedBrokers THEN Request(j, seedBroker, objs)
                       ELSE [proc EXCEPT ![j].pc = "seed"]
    /\ UNCHANGED <<where, poolVars, topicVars, histVars, calls>>

\* Broker.connect() succeeds, or finds that another call has connected it. The
\* seed is read again, for its versions and when a refresh goes on from it: a
\* TypeError when it is undefined by then.
Connected(p) ==
    /\ proc[p].pc \in {"connecting", "seeding"} /\ ~Continuations
    /\ LET o == proc[p].o
           seeding == proc[p].pc = "seeding"
       IN /\ IsConnected(o) \/ Serves(objs[o].addr)
          /\ objs' = [objs EXCEPT ![o].connected = TRUE, ![o].ready = TRUE]
          /\ proc' = IF p \in Jobs
                     THEN Request(p, IF seeding THEN seedBroker ELSE o, objs')
                     ELSE IF seeding
                     THEN Settle(p, IF seedBroker = None THEN "TypeError" ELSE "ok")
                     ELSE [proc EXCEPT ![p].pc = proc[p].goal, ![p].tries = 0]
    /\ UNCHANGED <<where, brokers, seedBroker, index, metadata, expired, topicVars,
                   histVars, calls>>

ConnectErrors == {"ConnectionError", "ConnectionClosed", "IllegalSaslState",
                  "AuthenticationFailed"}
Fault == faults < MaxFaults /\ faults' = faults + 1

Fails(o, e) ==
    /\ ~IsConnected(o)
    /\ e = "ConnectionError" <=> ~Serves(objs[o].addr)
    /\ IF e = "ConnectionError" THEN UNCHANGED faults ELSE Fault

\* The seed does not connect: another one for a connection error and an illegal
\* SASL state, and another try of whatever is the seed then (a TypeError when it
\* is undefined); an authentication error bails.
SeedFails(p, e) ==
    /\ proc[p].pc = "seeding" /\ ~Continuations
    /\ Fails(proc[p].o, e)
    /\ IF e \in {"ConnectionError", "IllegalSaslState"} THEN CreateSeedBroker(p) ELSE KeepSeed
    /\ proc' = IF e # "AuthenticationFailed" /\ proc[p].tries < MaxRetries
               THEN IF seedBroker' = None THEN Settle(p, "TypeError")
                    ELSE [proc EXCEPT ![p].tries = @ + 1, ![p].o = seedBroker']
               ELSE Settle(p, e)
    /\ UNCHANGED <<where, brokers, metadata, expired, topicVars, calls>>

\* findBroker throws: Cluster.findBroker refreshes the metadata first, unless
\* the error says nothing of it; withBroker, inside the pool, does not.
Thrown(p, e) ==
    IF proc[p].goal = "use" /\ e \in {"BrokerNotFound", "ConnectionError"}
    THEN Await([proc EXCEPT ![p].err = e], p, "refreshMetadata", targetTopics, "throw")
    ELSE Settle(p, e)

\* BrokerPool.connectBroker fails. An illegal SASL state gets a new connection
\* pool and another try; findConnectedBroker goes to the next node;
\* Cluster.findBroker refreshes the metadata after a connection error and
\* throws; withBroker gives up.
ConnectFails(p, e) ==
    /\ proc[p].pc = "connecting" /\ ~Continuations
    /\ Fails(proc[p].o, e)
    /\ proc' = IF e \in {"IllegalSaslState", "ConnectionClosed"} /\ proc[p].tries < MaxRetries
               THEN [proc EXCEPT ![p].tries = @ + 1]
               ELSE IF p \in Jobs THEN [proc EXCEPT ![p].pc = "find", ![p].tries = 0]
               ELSE Thrown(p, e)
    /\ UNCHANGED <<where, poolVars, topicVars, strayed, seedMoved, calls>>

-----------------------------------------------------------------------------
(* BrokerPool.refreshMetadata                                              *)

\* The request fails: the connection is lost, a topic is refused, or a leader
\* is being elected, which is retried; the retry reconnects the same Broker.
MetadataFails(j, e) ==
    /\ proc[j].pc = "request" /\ ~Continuations
    /\ e = "ConnectionClosed" => ~Serves(objs[proc[j].o].addr) \/ ~IsConnected(proc[j].o)
    /\ e = "TopicError" => proc[j].topics \cap Bad # {}
    /\ IF e = "LeaderNotAvailable" THEN Fault ELSE UNCHANGED faults
    /\ objs' = IF e = "ConnectionClosed" THEN Close({proc[j].o}) ELSE objs
    /\ proc' = IF e = "LeaderNotAvailable" /\ proc[j].tries < MaxRetries
               THEN [proc EXCEPT ![j].tries = @ + 1]
               ELSE Settle(j, e)
    /\ UNCHANGED <<where, brokers, seedBroker, index, metadata, expired, topicVars,
                   strayed, seedMoved, calls>>

Live == {n \in Nodes : where[n] # None}
\* Mutant: a node that came back at another address keeps its Broker.
NeverReplaced(n) == n \in Known /\ brokers[n] = None

HasBeenReplaced(n) == n \in Known /\ objs[brokers[n]].addr # where[n]

\* Nodes that get a Broker: those unknown, and those at another address.
Fresh == {n \in Live : n \notin Known \/ HasBeenReplaced(n)}

\* The answer. A fresh node at the address the seed had when the request went
\* out gets this.seedBroker, every other fresh node a new Broker; an undefined
\* seed ends the reduce where it is. Brokers replaced or of nodes that are gone
\* are closed, then deleted.
MetadataArrives(j) ==
    /\ proc[j].pc = "request" /\ ~Continuations
    /\ Serves(objs[proc[j].o].addr)
    /\ proc[j].topics \cap Bad = {}
    /\ metadata' = [nodes |-> where, topics |-> proc[j].topics]
    /\ expired' = FALSE
    /\ LET viaSeed == {n \in Fresh : where[n] = proc[j].seedAt}
           broken == viaSeed # {} /\ seedBroker = None
           replaced == {brokers[n] : n \in Fresh \cap Known}
           gone == {n \in Known : where[n] = None}
       IN \E made \in IF broken THEN SUBSET (Fresh \ viaSeed) ELSE {Fresh \ viaSeed} :
             LET ns == SetToSeq(made)
                 use(n) == IF n \in made THEN Len(objs) + (CHOOSE i \in 1..Len(ns) : ns[i] = n)
                           ELSE IF n \in viaSeed /\ ~broken THEN seedBroker
                           ELSE brokers[n]
             IN /\ brokers' = [n \in Nodes |-> use(n)]
                /\ objs' = [o \in DOMAIN objs |->
                              [objs[o] EXCEPT
                                 !.connected = @ \/ o = proc[j].o,
                                 !.node = IF o = seedBroker /\ viaSeed # {}
                                          THEN CHOOSE n \in viaSeed : TRUE ELSE @]]
                           \o [i \in 1..Len(ns) |-> NewBroker(where[ns[i]], ns[i])]
                /\ strayed' = Stray(replaced \ {seedBroker}, j)
                /\ LET closing == {<<o, None>> : o \in replaced}
                                  \cup {<<brokers[n], n>> : n \in gone}
                   IN proc' = IF broken THEN Settle(j, "TypeError")
                              ELSE IF closing = {} THEN Settle(j, "ok")
                              ELSE [proc EXCEPT ![j].pc = "closing", ![j].o = 0,
                                                ![j].closing = closing]
    /\ UNCHANGED <<where, seedBroker, index, topicVars, faults, seedMoved, calls>>

\* One of the Brokers is closed, once nothing waits for an answer of it; a node
\* that is gone is deleted, whatever its entry is by now.
BrokerClosed(j) ==
    /\ proc[j].pc = "closing" /\ ~Continuations
    /\ \E c \in proc[j].closing :
          /\ ~Pending(c[1])
          /\ objs' = Close({c[1]})
          /\ brokers' = IF c[2] = None THEN brokers ELSE [brokers EXCEPT ![c[2]] = None]
          /\ strayed' = IF c[2] = None THEN strayed ELSE Stray({brokers[c[2]]} \ {None}, j)
          /\ proc' = IF proc[j].closing = {c} THEN Settle(j, "ok")
                     ELSE [proc EXCEPT ![j].closing = @ \ {c}]
    /\ UNCHANGED <<where, seedBroker, index, metadata, expired, topicVars, faults,
                   seedMoved, calls>>

-----------------------------------------------------------------------------
(* Calls: target topics                                                    *)

Begins(c) == c \notin calls /\ ~Continuations /\ calls' = calls \cup {c}

AddTargetTopic(c, t) ==
    /\ Begins(c)
    /\ topicsLock' = Append(topicsLock, c)
    /\ proc' = [proc EXCEPT ![c] = [Idle EXCEPT !.op = "add", !.pc = "lock", !.arg = t]]
    /\ UNCHANGED <<where, poolVars, targetTopics, tainted, histVars>>

\* The lock is free: refresh when the topic is new or nothing was loaded.
TargetTopicsLocked(c) ==
    /\ proc[c].pc = "lock" /\ Head(topicsLock) = c
    /\ LET t == proc[c].arg
           mine == [proc EXCEPT ![c].before = targetTopics, ![c].then = "added"]
       IN /\ targetTopics' = targetTopics \cup {t}
          /\ proc' = IF t \notin targetTopics \/ metadata = None
                     THEN Await(mine, c, "refreshMetadata", targetTopics', "added")
                     ELSE Resume(mine, c, "ok")
          /\ tainted' = IF proc["refreshMetadata"].pc # "idle" THEN tainted \cup {t} ELSE tainted
    /\ UNCHANGED <<where, poolVars, topicsLock, histVars, calls>>

\* The timeout of the lock, requestTimeout, ends while it is waited for.
LockTimeout(c) ==
    /\ proc[c].pc = "lock" /\ Head(topicsLock) # c /\ ~Continuations
    /\ \E i \in DOMAIN topicsLock :
          topicsLock[i] = c /\ topicsLock' = RemoveAt(topicsLock, i)
    /\ proc' = [proc EXCEPT ![c] = Idle]
    /\ UNCHANGED <<where, poolVars, targetTopics, tainted, histVars, calls>>

\* Mutant: the topics saved before the refresh are not put back.
AddedKeepsRefused(c) ==
    /\ proc[c].pc = "resumed" /\ proc[c].then = "added"
    /\ topicsLock' = Tail(topicsLock)
    /\ proc' = [proc EXCEPT ![c] = Idle]
    /\ UNCHANGED <<where, poolVars, targetTopics, tainted, histVars, calls>>

\* Mutant: no finally around the release of the lock.
AddedNoFinally(c) ==
    /\ proc[c].pc = "resumed" /\ proc[c].then = "added"
    /\ topicsLock' = IF proc[c].got = "ok" THEN Tail(topicsLock) ELSE topicsLock
    /\ proc' = [proc EXCEPT ![c] = Idle]
    /\ UNCHANGED <<where, poolVars, targetTopics, tainted, histVars, calls>>

\* A topic that cannot be used is taken out again; the lock is released.
Added(c) ==
    /\ proc[c].pc = "resumed" /\ proc[c].then = "added"
    /\ targetTopics' = IF proc[c].got = "TopicError" THEN proc[c].before ELSE targetTopics
    /\ tainted' = IF proc[c].got \in {"ok", "TopicError"} THEN tainted
                  ELSE tainted \cup {proc[c].arg}
    /\ topicsLock' = Tail(topicsLock)
    /\ proc' = [proc EXCEPT ![c] = Idle]
    /\ UNCHANGED <<where, poolVars, histVars, calls>>

-----------------------------------------------------------------------------
(* Calls: a request to the leader of a partition                           *)

\* Cluster.findBroker: the Broker of node n, connected.
Locate(p, n) ==
    LET mine == [proc EXCEPT ![p].goal = "use", ![p].arg = n, ![p].left = {},
                             ![p].o = brokers[n]]
    IN IF n \notin Known THEN Thrown(p, "BrokerNotFound")
       ELSE IF IsConnected(brokers[n]) THEN [mine EXCEPT ![p].pc = "use"]
       ELSE [mine EXCEPT ![p].pc = "connecting"]

\* sendMessages: refresh if necessary, find the leader, send.
Produce(c, n) ==
    /\ Begins(c)
    /\ proc' = Await([proc EXCEPT ![c] = [Idle EXCEPT !.op = "produce", !.arg = n]],
                     c, "refreshMetadataIfNecessary", targetTopics, "locate")
    /\ UNCHANGED <<where, poolVars, topicVars, histVars>>

Refreshed(c) ==
    /\ proc[c].pc = "resumed" /\ proc[c].then = "locate"
    /\ proc' = IF proc[c].got = "ok" THEN Locate(c, proc[c].arg)
               ELSE [proc EXCEPT ![c].then = "end"]
    /\ UNCHANGED <<where, poolVars, topicVars, histVars, calls>>

\* The answer; a connection lost since findBroker is made again by send().
Answered(c) ==
    /\ proc[c].pc = "use" /\ ~Continuations
    /\ Serves(objs[proc[c].o].addr)
    /\ objs' = [objs EXCEPT ![proc[c].o].connected = TRUE]
    /\ proc' = [proc EXCEPT ![c] = Idle]
    /\ UNCHANGED <<where, brokers, seedBroker, index, metadata, expired, topicVars,
                   histVars, calls>>

\* Entries of the pool whose Broker is at address a.
At(a) == {n \in Known : objs[brokers[n]].addr = a}

\* BrokerPool.removeBroker: the entry goes, its Broker is not closed, and a seed
\* with its nodeId is replaced by any other Broker, or by undefined. With an
\* undefined seed it throws after that.
RemoveBroker(a) ==
    IF At(a) = {} THEN UNCHANGED <<brokers, seedBroker, expired, strayed, seedMoved>>
    ELSE \E n \in At(a) :
       LET id == objs[brokers[n]].node
           left == {brokers[m] : m \in Known \ {id}}
       IN /\ brokers' = [brokers EXCEPT ![id] = None]
          /\ expired' = TRUE
          /\ strayed' = strayed \cup ({brokers[id], seedBroker} \ {None})
          /\ IF seedBroker # None /\ objs[seedBroker].node = id
             THEN /\ IF left = {} THEN seedBroker' = None ELSE seedBroker' \in left
                  /\ seedMoved' = (seedMoved \/ RefreshInFlight)
             ELSE UNCHANGED <<seedBroker, seedMoved>>

\* The connection closes under the request: sendMessages removes the Broker,
\* reconnects when nothing is connected any more, and refreshes. A TypeError of
\* removeBroker ends the call.
RequestFails(c) ==
    /\ proc[c].pc = "use" /\ ~Continuations
    /\ ~Serves(objs[proc[c].o].addr) \/ ~IsConnected(proc[c].o)
    /\ objs' = Close({proc[c].o})
    /\ IF proc[c].op = "produce"
       THEN /\ RemoveBroker(objs[proc[c].o].addr)
            /\ proc' = IF seedBroker = None /\ At(objs[proc[c].o].addr) # {}
                       THEN [proc EXCEPT ![c].pc = "resumed", ![c].then = "end"]
                       ELSE IF HasConnectedBrokers'
                       THEN Await(proc, c, "refreshMetadata", targetTopics, "end")
                       ELSE [proc EXCEPT ![c].pc = "seed", ![c].then = "reconnected"]
       ELSE /\ proc' = Settle(c, "ConnectionClosed")
            /\ UNCHANGED <<brokers, seedBroker, expired, strayed, seedMoved>>
    /\ UNCHANGED <<where, index, metadata, topicVars, faults, calls>>

\* cluster.connect() of sendMessages is over.
Reconnected(c) ==
    /\ proc[c].pc = "resumed" /\ proc[c].then = "reconnected"
    /\ proc' = IF proc[c].got = "ok"
               THEN Await(proc, c, "refreshMetadata", targetTopics, "end")
               ELSE [proc EXCEPT ![c].then = "end"]
    /\ UNCHANGED <<where, poolVars, topicVars, histVars, calls>>

-----------------------------------------------------------------------------
(* Calls: findGroupCoordinator, connect, disconnect                        *)

FindGroupCoordinator(c) ==
    /\ Begins(c)
    /\ proc' = [proc EXCEPT ![c] = [Idle EXCEPT !.op = "coordinator", !.pc = "with",
                                                !.left = Known, !.then = "throw"]]
    /\ UNCHANGED <<where, poolVars, topicVars, histVars>>

\* withBroker: any node, then the others when the callback fails.
WithBroker(c) ==
    /\ proc[c].pc = "with" /\ ~Continuations
    /\ IF proc[c].left = {}
       THEN proc' = Settle(c, IF Known = {} THEN "BrokerNotFound" ELSE "CoordinatorNotFound")
       ELSE \E n \in proc[c].left :
              LET mine == [proc EXCEPT ![c].goal = "ask", ![c].left = @ \ {n},
                                       ![c].o = brokers[n]]
              IN proc' = IF n \notin Known THEN Settle(c, "BrokerNotFound")
                         ELSE [mine EXCEPT ![c].pc = IF IsConnected(brokers[n])
                                                     THEN "ask" ELSE "connecting"]
    /\ UNCHANGED <<where, poolVars, topicVars, histVars, calls>>

\* The coordinator is node n, which may be unknown to the client.
CoordinatorFound(c, n) ==
    /\ proc[c].pc = "ask" /\ ~Continuations
    /\ Serves(objs[proc[c].o].addr) /\ n \in Live
    /\ objs' = [objs EXCEPT ![proc[c].o].connected = TRUE]
    /\ proc' = Locate(c, n)
    /\ UNCHANGED <<where, brokers, seedBroker, index, metadata, expired, topicVars,
                   histVars, calls>>

\* GROUP_COORDINATOR_NOT_AVAILABLE until the retries are over, or a lost
\* connection: withBroker takes the next node.
CoordinatorUnknown(c) ==
    /\ proc[c].pc = "ask" /\ ~Continuations
    /\ proc' = [proc EXCEPT ![c].pc = "with"]
    /\ UNCHANGED <<where, poolVars, topicVars, histVars, calls>>

\* The catch of findGroupCoordinator: an unknown broker is looked for in new
\* metadata, a refused connection is tried again; the rest bails.
Caught(c) ==
    /\ proc[c].pc = "resumed" /\ proc[c].then = "throw"
    /\ LET e == IF proc[c].got = "ok" THEN proc[c].err ELSE proc[c].got
           again == proc[c].op = "coordinator" /\ proc[c].rounds < MaxRetries
           retry == [proc EXCEPT ![c].rounds = @ + 1, ![c].err = "ok"]
       IN proc' = IF again /\ e = "BrokerNotFound"
                  THEN Await(retry, c, "refreshMetadata", targetTopics, "again")
                  ELSE IF again /\ e = "ConnectionError"
                  THEN [retry EXCEPT ![c].then = "again"]
                  ELSE [proc EXCEPT ![c].then = "end"]
    /\ UNCHANGED <<where, poolVars, topicVars, histVars, calls>>

Again(c) ==
    /\ proc[c].pc = "resumed" /\ proc[c].then = "again"
    /\ proc' = IF proc[c].got = "TypeError" THEN [proc EXCEPT ![c].then = "end"]
               ELSE [proc EXCEPT ![c].pc = "with", ![c].left = Known, ![c].then = "throw"]
    /\ UNCHANGED <<where, poolVars, topicVars, histVars, calls>>

Connect(c) ==
    /\ Begins(c)
    /\ proc' = [proc EXCEPT ![c] = [Idle EXCEPT !.op = "connect", !.pc = "seed"]]
    /\ UNCHANGED <<where, poolVars, topicVars, histVars>>

\* disconnect() closes the seed, then the Brokers of the pool as it is then, and
\* forgets them and the metadata. The seed stays.
Disconnect(c) ==
    /\ Begins(c)
    /\ proc' = [proc EXCEPT ![c] = [Idle EXCEPT !.op = "disconnect", !.pc = "closeSeed"]]
    /\ UNCHANGED <<where, poolVars, topicVars, histVars>>

SeedClosed(c) ==
    /\ proc[c].pc = "closeSeed" /\ ~Continuations
    /\ seedBroker # None => ~Pending(seedBroker)
    /\ objs' = Close({seedBroker})
    /\ proc' = [proc EXCEPT ![c].pc = "closeAll", ![c].closing = Pooled]
    /\ UNCHANGED <<where, brokers, seedBroker, index, metadata, expired, topicVars,
                   histVars, calls>>

Disconnected(c) ==
    /\ proc[c].pc = "closeAll" /\ ~Continuations
    /\ \A o \in proc[c].closing : ~Pending(o)
    /\ objs' = Close(proc[c].closing)
    /\ brokers' = [n \in Nodes |-> None]
    /\ metadata' = None
    /\ strayed' = strayed \cup {o \in Pooled : o \notin proc[c].closing \/ \E q \in Procs : Holds(q, o)}
    /\ proc' = [proc EXCEPT ![c] = Idle]
    /\ UNCHANGED <<where, seedBroker, index, expired, topicVars, faults, seedMoved, calls>>

\* The caller's promise settles.
End(c) ==
    /\ proc[c].pc = "resumed" /\ proc[c].then = "end"
    /\ proc' = [proc EXCEPT ![c] = Idle]
    /\ UNCHANGED <<where, poolVars, topicVars, histVars, calls>>

-----------------------------------------------------------------------------
(* The cluster itself, and time                                            *)

\* Brokers fail, come back at another address, or join.
Move ==
    /\ where = Start
    /\ where' \in Moves
    /\ objs' = Close({o \in DOMAIN objs : ~\E n \in Nodes : where'[n] = objs[o].addr})
    /\ UNCHANGED <<brokers, seedBroker, index, metadata, expired, topicVars, histVars,
                   proc, calls>>

Drop(o) ==
    /\ Fault /\ IsConnected(o)
    /\ objs' = Close({o})
    /\ UNCHANGED <<where, brokers, seedBroker, index, metadata, expired, topicVars,
                   strayed, seedMoved, proc, calls>>

\* metadataMaxAge has passed.
Expire ==
    /\ ~expired /\ expired' = TRUE
    /\ calls # Callers      \* otherwise nobody will look
    /\ UNCHANGED <<where, objs, brokers, seedBroker, index, metadata, topicVars,
                   histVars, proc, calls>>

JobStep(j) ==
    \/ FindConnectedBroker(j)
    \/ \E e \in {"ConnectionClosed", "TopicError", "LeaderNotAvailable"} : MetadataFails(j, e)
    \/ MetadataArrives(j)
    \/ BrokerClosed(j)

ConnectStep(p) ==
    \/ ConnectSeed(p)
    \/ Connected(p)
    \/ \E e \in ConnectErrors : SeedFails(p, e) \/ ConnectFails(p, e)

CallStep(c) ==
    \/ TargetTopicsLocked(c) \/ Added(c)
    \/ Refreshed(c) \/ Answered(c) \/ RequestFails(c) \/ Reconnected(c)
    \/ WithBroker(c) \/ CoordinatorUnknown(c) \/ Caught(c) \/ Again(c)
    \/ \E n \in Nodes : CoordinatorFound(c, n)
    \/ SeedClosed(c) \/ Disconnected(c) \/ End(c)

CallBegins(c) ==
    \/ "add" \in Calls[c] /\ \E t \in Topics : AddTargetTopic(c, t)
    \/ "produce" \in Calls[c] /\ \E n \in Nodes : Produce(c, n)
    \/ "coordinator" \in Calls[c] /\ FindGroupCoordinator(c)
    \/ "connect" \in Calls[c] /\ Connect(c)
    \/ "disconnect" \in Calls[c] /\ Disconnect(c)

ClusterNext ==
    \/ \E j \in Jobs : JobStep(j)
    \/ \E p \in Procs : ConnectStep(p)
    \/ \E c \in Callers : CallBegins(c) \/ CallStep(c) \/ LockTimeout(c)
    \/ Move \/ Expire \/ \E o \in DOMAIN objs : Drop(o)

ClusterSpec == ClusterInit /\ [][ClusterNext]_vars

\* The network answers or fails every request, and closes what is closed.
FairClusterSpec ==
    /\ ClusterSpec
    /\ \A j \in Jobs : WF_vars(JobStep(j))
    /\ \A p \in Procs : WF_vars(ConnectStep(p))
    /\ \A c \in Callers : WF_vars(CallStep(c))

-----------------------------------------------------------------------------
(* Properties                                                              *)

\* Type invariant: the pool and the calls refer to Broker objects that exist, and
\* the queue of the lock of the target topics is the calls that are adding one.
ClusterTypeOK ==
    /\ brokers \in [Nodes -> DOMAIN objs \cup {None}]
    /\ seedBroker \in DOMAIN objs \cup {None}
    /\ targetTopics \subseteq Topics
    /\ ToSet(topicsLock) = {c \in Callers : proc[c].op = "add"}
    /\ \A p \in Procs : proc[p].o \in DOMAIN objs \cup {0}

\* A node id leads to a Broker of that node: the object found under it carries
\* its nodeId and was made for the address the metadata gave (brokerPool.js
\* refreshMetadata). It holds as long as no removeBroker and no change of the
\* seed comes between the request and the answer of a refresh.
RoutedToNode ==
    ~seedMoved =>
       \A n \in Known :
          /\ objs[brokers[n]].node = n
          /\ metadata # None /\ metadata.nodes[n] # None =>
                objs[brokers[n]].addr = metadata.nodes[n]

\* No connection is lost sight of: a connected Broker is in the pool, the seed,
\* being closed, in the hand of a process, or went out of the pool while one
\* had it (createSeedBroker, refreshMetadata and disconnect close the others).
NoLeakedBroker ==
    \A o \in DOMAIN objs : IsConnected(o) =>
       \/ o \in Pooled \cup {seedBroker} \cup strayed
       \/ \E p \in Procs : Holds(p, o) \/ <<o, None>> \in proc[p].closing
                           \/ \E n \in Nodes : <<o, n>> \in proc[p].closing

\* A topic the brokers refuse does not stay among the target topics, where it
\* would fail every later refresh: addMultipleTargetTopics takes it out, except
\* when it joined a refresh under way or its refresh ended in another error.
RefusedTopicsRemoved ==
    targetTopics \cap Bad \subseteq
       tainted \cup {proc[c].arg : c \in {d \in Callers : proc[d].op = "add"}}

\* Every call of the cluster settles: no promise is shared for ever, no lock
\* is kept.
ClusterCallsSettle == \A c \in Callers : c \in calls ~> proc[c].pc = "idle"

=============================================================================
