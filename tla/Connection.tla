----------------------------- MODULE Connection -----------------------------
(***************************************************************************)
(* One connection of kafkajs: src/src/network/connection.js over its       *)
(* request queue, with socket.js, connectionPool.js (getConnection, send)  *)
(* and saslAuthenticator/index.js.                                         *)
(*                                                                         *)
(* A Connection object outlives its sockets: the pool reconnects the same  *)
(* object, so what one socket leaves behind is found by the next.  Each    *)
(* action is one callback or the code between two awaits; a call of        *)
(* disconnect() is a waiter of the queue.                                  *)
(***************************************************************************)
EXTENDS RequestQueue

CONSTANTS
    Calls,          \* requests of the application: calls of send()
    MaxSockets,     \* bound: sockets created
    MaxRounds,      \* bound: authentications started
    MaxDisconnects, \* bound: calls of disconnect() by the application
    Sasl            \* this.sasl is set

Sockets == 1..MaxSockets
Rounds == 1..MaxRounds

\* The requests of an authentication, sent through send() like any other.
Handshake(k) == <<"SaslHandshake", k>>
SaslAuthenticate(k) == <<"SaslAuthenticate", k>>

\* The server's answer to a raw SASL message, which has no correlation id.
RawAnswer == <<"raw", 0>>

ASSUME ConnectionAssumption ==
    /\ Requests = Calls \cup {Handshake(k) : k \in Rounds}
                        \cup {SaslAuthenticate(k) : k \in Rounds}
    /\ OneWay \subseteq Calls
    /\ Sasl \in BOOLEAN
    /\ MaxSockets \in Nat /\ MaxRounds \in Nat /\ MaxDisconnects \in Nat
    /\ \* a call of the application is none of the authentication's messages
       Calls \cap ({RawAnswer} \cup {Handshake(k) : k \in Rounds}
                             \cup {SaslAuthenticate(k) : k \in Rounds}) = {}

VARIABLES
    connectionStatus,
    socket,         \* this.socket, 0 before the first
    phase,          \* of every socket, as the network has it
    ended,          \* sockets end() was called on
    pc,             \* how far the send() of each call has come
    awaits,         \* the socket whose connect() a call awaits
    resuming,       \* disconnect() calls that waited for the queue and go on
    on,             \* socket every request was written to, 0 before
    broken,         \* sockets written to after their end: 'error' follows
    authenticatedAt,\* "null", "set", or "expiring": SHOULD_REAUTHENTICATE
    supportAuthenticationProtocol,  \* the server knows SaslAuthenticate
    authPc,         \* progress of the shared AUTHENTICATE promise
    round,          \* authentications started
    authHandlers,   \* round whose handlers are set, 0 = null
    rawAuth,        \* socket with a raw SASL message not answered yet, 0 = none
    proven,         \* history: sockets the server has authenticated
    rx,             \* bytes of an incomplete response: whose they are, 0 = none
    late,           \* history: requests pushed while disconnect() is under way
    disconnects,    \* calls of disconnect() by the application
    crossed         \* history: a socket was replaced in the middle of something

connVars == <<connectionStatus, socket, phase, ended, pc, awaits, resuming, on,
              broken, authenticatedAt, supportAuthenticationProtocol, authPc, round,
              authHandlers, rawAuth, proven, rx, late,
              disconnects, crossed>>
vars == <<queueVars, connVars>>
netVars == <<socket, phase, ended>>
callVars == <<pc, awaits>>
writeVars == <<on, broken>>
raw == <<authHandlers, rawAuth, proven>>
authVars == <<supportAuthenticationProtocol, authPc, round, raw>>
history == <<late, disconnects, crossed>>

\* CONNECTED_STATUS: a connection that is disconnecting counts as connected.
IsConnected == connectionStatus \in {"connected", "disconnecting"}

IsAuthenticated == authenticatedAt = "set"

ConnectionInit ==
    /\ RequestQueueInit
    /\ connectionStatus = "disconnected"
    /\ socket = 0
    /\ phase = [s \in Sockets |-> "unused"]
    /\ ended = {}
    /\ pc = [r \in Calls |-> "idle"]
    /\ awaits = [r \in Calls |-> 0]
    /\ resuming = {}
    /\ on = [r \in Requests |-> 0]
    /\ broken = {}
    /\ authenticatedAt = "null"
    /\ supportAuthenticationProtocol \in BOOLEAN
    /\ authPc = "idle"
    /\ round = 0
    /\ authHandlers = 0
    /\ rawAuth = 0
    /\ proven = {}
    /\ rx = 0
    /\ late = {}
    /\ disconnects = 0
    /\ crossed = FALSE

-----------------------------------------------------------------------------
(***************************************************************************)
(* What every callback does to requests and to waiting disconnect() calls  *)
(***************************************************************************)

\* sendRequest() writes to whatever this.socket is when the queue sends.
Written ==
    {r \in Requests : state[r] \in {"new", "PENDING"}
                      /\ state'[r] \in {"SENT", "COMPLETED"}}

NoteWrites ==
    /\ on' = [r \in Requests |-> IF r \in Written THEN socket ELSE on[r]]
    /\ broken' = IF Written # {} /\ (socket \in ended \/ phase[socket] = "closed")
                 THEN broken \cup {socket} ELSE broken

NoteLate(q) ==
    late' = IF waiters \cup resuming # {} THEN late \cup {q} ELSE late

\* The listeners that REQUEST_QUEUE_EMPTY woke go on, with those in S.
Wake(S) == resuming' = resuming \cup (waiters \ waiters') \cup S

\* The request an authentication awaits.
AuthAwaited == IF authPc = "handshaking" THEN Handshake(round) ELSE SaslAuthenticate(round)

AuthAnswered ==
    /\ authPc \in {"handshaking"} \cup
                 (IF supportAuthenticationProtocol THEN {"exchange"} ELSE {})
    /\ state[AuthAwaited] \in Settled

\* Promise continuations run before the next event of a socket or a timer.  Not
\* so the code that waits for the thread pool or for the application: encoding
\* (compression), obtaining credentials, verifying the server's signature.
MicrotasksDone ==
    /\ resuming = {}
    /\ \A r \in Calls : pc[r] # "ready"
    /\ authPc \notin {"handshake", "failing"} /\ ~AuthAnswered

IdleWaiter(w) == w \in Waiters \ (waiters \cup resuming)

\* disconnect() that does not wait for the requests of the queue.
StartDisconnectNoWait(w) ==
    /\ IdleWaiter(w)
    /\ authenticatedAt' = "null"
    /\ connectionStatus' = "disconnecting"
    /\ UNCHANGED queueVars /\ Wake({w})

\* The code of disconnect() up to its await, when the caller leaves the queue
\* to this call: w waits, or finds the queue empty.
StartDisconnect(w) ==
    /\ IdleWaiter(w)
    /\ authenticatedAt' = "null"
    /\ connectionStatus' = "disconnecting"
    /\ IF QueueEmpty THEN UNCHANGED queueVars /\ Wake({w})
                     ELSE WaitForPendingRequests(w) /\ Wake({})

\* rejectRequests(), then disconnect(), which finds the queue empty.
RejectAndDisconnect(w) ==
    /\ IdleWaiter(w)
    /\ RejectAll
    /\ authenticatedAt' = "null"
    /\ connectionStatus' = "disconnecting"
    /\ Wake({w})

-----------------------------------------------------------------------------
(***************************************************************************)
(* connect() and the events of the sockets it created                      *)
(***************************************************************************)

\* connectionPool.send(): getConnection() finds the connection connected, or
\* calls connect(), which creates a socket; nothing keeps two calls from both
\* doing so.
SendConnected(r) ==
    /\ pc[r] = "idle" /\ IsConnected
    /\ pc' = [pc EXCEPT ![r] = "ready"]
    /\ UNCHANGED <<queueVars, connectionStatus, netVars, awaits, resuming,
                   writeVars, authenticatedAt, authVars, rx, history>>

\* Nothing of an earlier socket is under way.
Quiet ==
    /\ \A s \in Sockets : phase[s] \in {"unused", "closed"}
    /\ authPc = "idle" /\ rawAuth = 0 /\ QueueEmpty
    /\ waiters \cup resuming = {}
    /\ \A r \in Calls : pc[r] \notin {"ready", "encoding"}

Connect(r) ==
    /\ pc[r] = "idle" /\ ~IsConnected
    /\ authenticatedAt' = "null"
    /\ crossed' = (crossed \/ ~Quiet)
    /\ UNCHANGED <<queueVars, connectionStatus, ended, resuming, writeVars,
                   authVars, rx, late, disconnects>>
    /\ \/ \E s \in Sockets :
            /\ phase[s] = "unused" /\ \A t \in 1..(s - 1) : phase[t] # "unused"
            /\ socket' = s
            /\ phase' = [phase EXCEPT ![s] = "connecting"]
            /\ pc' = [pc EXCEPT ![r] = "connecting"]
            /\ awaits' = [awaits EXCEPT ![r] = s]
       \/ \* createSocket() throws
          /\ pc' = [pc EXCEPT ![r] = "failed"]
          /\ UNCHANGED <<socket, phase, awaits>>

\* The calls that await connect() of socket s go on, or fail.
SettleConnect(s, next) ==
    pc' = [r \in Calls |-> IF pc[r] = "connecting" /\ awaits[r] = s
                           THEN next ELSE pc[r]]

\* onConnect() without scheduleRequestTimeoutCheck().
OnConnectNoTimeoutCheck(s) ==
    /\ MicrotasksDone
    /\ phase[s] = "connecting"
    /\ phase' = [phase EXCEPT ![s] = "open"]
    /\ connectionStatus' = "connected"
    /\ SettleConnect(s, "ready")
    /\ UNCHANGED <<queueVars, socket, ended, awaits, resuming, writeVars,
                   authenticatedAt, authVars, rx, history>>

OnConnect(s) ==
    /\ MicrotasksDone
    /\ phase[s] = "connecting"
    /\ phase' = [phase EXCEPT ![s] = "open"]
    /\ connectionStatus' = "connected"
    /\ IF EnforceTimeout THEN ScheduleRequestTimeoutCheck ELSE UNCHANGED queueVars
    /\ SettleConnect(s, "ready")
    /\ UNCHANGED <<socket, ended, awaits, resuming, writeVars, authenticatedAt,
                   authVars, rx, history>>

\* The server closed socket s.  During an authentication outside the queue its
\* handlers take the error and the queue is not rejected.
OnEnd(s, w) ==
    /\ MicrotasksDone
    /\ phase[s] = "open"
    /\ phase' = [phase EXCEPT ![s] = "closed"]
    /\ IF authHandlers # 0
       THEN /\ authHandlers' = 0
            /\ authPc' = IF authHandlers = round /\ authPc = "exchange"
                         THEN "failing" ELSE authPc
            /\ StartDisconnect(w)
       ELSE /\ UNCHANGED <<authHandlers, authPc>>
            /\ IF IsConnected THEN RejectAndDisconnect(w) ELSE StartDisconnect(w)
    /\ UNCHANGED <<socket, ended, callVars, writeVars, round, rawAuth, proven,
                   rx, supportAuthenticationProtocol, history>>

\* 'error' on socket s, also for a write after its end.  connect() is rejected
\* after disconnect(); a call that waits for it can do nothing else, so it fails
\* at once.
OnError(s, w) ==
    /\ MicrotasksDone
    /\ phase[s] \in {"connecting", "open"} \/ s \in broken
    /\ phase' = [phase EXCEPT ![s] = "closed"]
    /\ broken' = broken \ {s}
    /\ RejectAndDisconnect(w)
    /\ SettleConnect(s, "failed")
    /\ UNCHANGED <<socket, ended, awaits, on, authVars, rx, history>>

\* onTimeout(): the connectionTimeout passes; the socket goes on connecting.
OnTimeout(s, w) ==
    /\ MicrotasksDone
    /\ phase[s] = "connecting"
    /\ \E r \in Calls : pc[r] = "connecting" /\ awaits[r] = s
    /\ RejectAndDisconnect(w)
    /\ SettleConnect(s, "failed")
    /\ UNCHANGED <<netVars, awaits, writeVars, authVars, rx, history>>

-----------------------------------------------------------------------------
(***************************************************************************)
(* disconnect()                                                            *)
(***************************************************************************)

\* Called by the application or by the broker pool.  (Before the first socket
\* it only changes the status for one microtask; left out.)
Disconnect(w) ==
    /\ socket # 0
    /\ disconnects < MaxDisconnects
    /\ disconnects' = disconnects + 1
    /\ StartDisconnect(w)
    /\ UNCHANGED <<netVars, callVars, writeVars, authVars, rx, late, crossed>>

\* disconnect() that throws away what the queue still holds.
DisconnectResumesDrops(w) ==
    /\ w \in resuming
    /\ resuming' = resuming \ {w}
    /\ inflight' = {} /\ pending' = <<>>
    /\ timeoutTimer' = FALSE /\ checkTimer' = FALSE
    /\ UNCHANGED <<state, throttled, wire, waiters>>
    /\ ended' = ended \cup ({socket} \ {0})
    /\ connectionStatus' = "disconnected"
    /\ UNCHANGED <<socket, phase, callVars, writeVars, authenticatedAt,
                   authVars, rx, history>>

\* disconnect() after its await: it ends the socket that is current now.
DisconnectResumes(w) ==
    /\ w \in resuming
    /\ resuming' = resuming \ {w}
    /\ Destroy
    /\ ended' = ended \cup ({socket} \ {0})
    /\ connectionStatus' = "disconnected"
    /\ UNCHANGED <<socket, phase, callVars, writeVars, authenticatedAt,
                   authVars, rx, history>>

-----------------------------------------------------------------------------
(***************************************************************************)
(* Authentication: the shared promise and saslAuthenticator/index.js       *)
(***************************************************************************)

\* A stage of the authentication sends request q through send().
AuthSend(q, next) ==
    /\ IF IsConnected
       THEN /\ PushSend(q) \/ PushEnqueue(q)
            /\ authPc' = next
       ELSE /\ authPc' = "failing"
            /\ UNCHANGED queueVars
    /\ NoteLate(q) /\ NoteWrites
    /\ UNCHANGED <<connectionStatus, netVars, callVars, resuming,
                   authenticatedAt, round, raw, rx,
                   supportAuthenticationProtocol, disconnects, crossed>>

SendHandshake == authPc = "handshake" /\ AuthSend(Handshake(round), "handshaking")

\* saslAuthenticate() with the SaslAuthenticate request.
SendSaslAuthenticate ==
    /\ authPc = "authenticate" /\ supportAuthenticationProtocol
    /\ AuthSend(SaslAuthenticate(round), "exchange")

\* sendAuthRequest(): the handlers are set before the connection is looked at,
\* and stay set when it turns out to be closed.
SendAuthRequest ==
    /\ authPc = "authenticate" /\ ~supportAuthenticationProtocol
    /\ authHandlers' = round
    /\ IF IsConnected
       THEN rawAuth' = socket /\ authPc' = "exchange"
       ELSE rawAuth' = rawAuth /\ authPc' = "failing"
    /\ UNCHANGED <<queueVars, connectionStatus, netVars, callVars, resuming,
                   writeVars, authenticatedAt, round, proven, rx,
                   supportAuthenticationProtocol, history>>

\* The promise of the stage's request settles.
AuthContinues ==
    /\ AuthAnswered
    /\ authPc' = IF state[AuthAwaited] = "REJECTED" THEN "failing"
                 ELSE IF authPc = "handshaking" THEN "authenticate" ELSE "verify"
    /\ proven' = IF authPc' = "verify" THEN proven \cup {on[AuthAwaited]} ELSE proven
    /\ UNCHANGED <<queueVars, connectionStatus, netVars, callVars, resuming,
                   writeVars, authenticatedAt, round, authHandlers, rawAuth,
                   rx, supportAuthenticationProtocol, history>>

\* send() that goes on whatever became of the authentication.
AfterAuthenticationIgnoresFailure(next) ==
    pc' = [r \in Calls |-> IF pc[r] # "authenticating" THEN pc[r]
                           ELSE IF IsConnected THEN "encoding" ELSE "failed"]

\* send() after `await AUTHENTICATE()`.
AfterAuthentication(next) ==
    pc' = [r \in Calls |-> IF pc[r] # "authenticating" THEN pc[r]
                           ELSE IF IsConnected THEN next ELSE "failed"]

\* The authenticator has verified what the server sent (SCRAM derives the
\* server key first, off the main thread) and authenticatedAt is set.
Authenticated ==
    /\ MicrotasksDone
    /\ authPc = "verify"
    /\ authPc' = "idle"
    /\ authenticatedAt' = "set"
    /\ AfterAuthentication("encoding")
    /\ UNCHANGED <<queueVars, connectionStatus, netVars, awaits, resuming,
                   writeVars, round, raw, rx, supportAuthenticationProtocol,
                   history>>

\* A stage failed, or the mechanism or the credentials were refused.
AuthenticationFails ==
    /\ authPc \in {"failing", "authenticate", "verify"}
    /\ authPc' = "idle"
    /\ AfterAuthentication("failed")
    /\ UNCHANGED <<queueVars, connectionStatus, netVars, awaits, resuming,
                   writeVars, authenticatedAt, round, raw, rx,
                   supportAuthenticationProtocol, history>>

\* The session's lifetime, known from SaslAuthenticate only, nears its end.
SessionExpires ==
    /\ supportAuthenticationProtocol /\ authenticatedAt = "set"
    /\ authenticatedAt' = "expiring"
    /\ UNCHANGED <<queueVars, connectionStatus, netVars, callVars, resuming,
                   writeVars, authVars, rx, history>>

-----------------------------------------------------------------------------
(***************************************************************************)
(* send()                                                                  *)
(***************************************************************************)

\* A request sent without looking at the authentication.
SendUnauthenticated(r) ==
    /\ pc[r] = "ready"
    /\ pc' = [pc EXCEPT ![r] = IF IsConnected THEN "encoding" ELSE "failed"]
    /\ UNCHANGED <<authPc, round>>
    /\ UNCHANGED <<queueVars, connectionStatus, netVars, awaits, resuming,
                   writeVars, authenticatedAt, raw, rx,
                   supportAuthenticationProtocol, history>>

\* The start of send(): an unauthenticated call joins the shared promise or
\* starts it.
Send(r) ==
    /\ pc[r] = "ready"
    /\ IF Sasl /\ ~IsAuthenticated
       THEN /\ pc' = [pc EXCEPT ![r] = "authenticating"]
            /\ IF authPc = "idle"
               THEN /\ round < MaxRounds
                    /\ round' = round + 1
                    /\ authPc' = "handshake"
               ELSE UNCHANGED <<authPc, round>>
       ELSE /\ pc' = [pc EXCEPT ![r] = IF IsConnected THEN "encoding" ELSE "failed"]
            /\ UNCHANGED <<authPc, round>>
    /\ UNCHANGED <<queueVars, connectionStatus, netVars, awaits, resuming,
                   writeVars, authenticatedAt, raw, rx,
                   supportAuthenticationProtocol, history>>

\* send() once createRequest() has encoded the request.
Push(r) ==
    /\ pc[r] = "encoding"
    /\ IF IsConnected
       THEN /\ PushSend(r) \/ PushEnqueue(r)
            /\ pc' = [pc EXCEPT ![r] = "queued"]
       ELSE /\ pc' = [pc EXCEPT ![r] = "failed"]
            /\ UNCHANGED queueVars
    /\ NoteLate(r) /\ NoteWrites
    /\ UNCHANGED <<connectionStatus, netVars, awaits, resuming,
                   authenticatedAt, authVars, rx, disconnects, crossed>>

\* send() decodes the response and throttles the queue if it says so.
Decode(r) ==
    /\ pc[r] = "queued" /\ state[r] \in Settled
    /\ pc' = [pc EXCEPT ![r] = IF state[r] = "COMPLETED" THEN "done" ELSE "failed"]
    /\ \/ UNCHANGED queueVars
       \/ state[r] = "COMPLETED" /\ r \notin OneWay /\ MaybeThrottle
    /\ UNCHANGED <<connectionStatus, netVars, awaits, resuming, writeVars,
                   authenticatedAt, authVars, rx, history>>

-----------------------------------------------------------------------------
(***************************************************************************)
(* processData()                                                           *)
(***************************************************************************)

Misread == MaxSockets + 1

\* The server's answer on socket s to a request or to the raw SASL message.
Answers(s) ==
    {r \in wire : on[r] = s} \cup (IF rawAuth = s THEN {RawAnswer} ELSE {})

\* The first bytes of an answer: kept until the rest has come.
DataPart(s) ==
    /\ MicrotasksDone
    /\ phase[s] = "open" /\ Answers(s) # {} /\ rx = 0
    /\ rx' = s
    /\ UNCHANGED <<queueVars, connectionStatus, netVars, callVars, resuming,
                   writeVars, authenticatedAt, authVars, history>>

\* A complete frame q for the handlers of an authentication: whatever it
\* answers, it ends the wait of the round that set them.
ToAuthHandlers(q) ==
    /\ authHandlers' = 0
    /\ authPc' = IF authPc = "exchange" /\ authHandlers = round THEN "verify" ELSE authPc
    /\ rawAuth' = IF q = RawAnswer THEN 0 ELSE rawAuth
    /\ proven' = IF q = RawAnswer THEN proven \cup {rawAuth} ELSE proven
    /\ UNCHANGED <<queueVars, resuming, writeVars, round,
                   supportAuthenticationProtocol, history>>

\* Bytes another socket left in this.chunks come before those of s: the stream
\* is misread from there on and its answers reach nobody.
DataMisread(s) ==
    /\ MicrotasksDone
    /\ phase[s] = "open" /\ Answers(s) # {} /\ rx \in Sockets \ {s}
    /\ rx' = Misread
    /\ UNCHANGED <<queueVars, connectionStatus, netVars, callVars, resuming,
                   writeVars, authenticatedAt, authVars, history>>

\* An answer q is complete.
Data(s, q) ==
    /\ MicrotasksDone
    /\ phase[s] = "open" /\ q \in Answers(s) /\ rx \in {0, s}
    /\ rx' = 0
    /\ IF authHandlers # 0
       THEN ToAuthHandlers(q)
       ELSE /\ UNCHANGED <<authHandlers, authPc, round, proven>>
            /\ IF q = RawAnswer
               THEN rawAuth' = 0 /\ UNCHANGED <<queueVars, resuming, on, broken>>
               ELSE rawAuth' = rawAuth /\ FulfillRequest(q) /\ Wake({}) /\ NoteWrites
    /\ UNCHANGED <<connectionStatus, netVars, callVars, authenticatedAt,
                   supportAuthenticationProtocol, history>>

-----------------------------------------------------------------------------
(***************************************************************************)
(* Timers of the queue, as the connection runs them                        *)
(***************************************************************************)

QueueTimer(step) ==
    /\ MicrotasksDone
    /\ step
    /\ Wake({}) /\ NoteWrites
    /\ UNCHANGED <<connectionStatus, netVars, callVars, authenticatedAt,
                   authVars, rx, history>>

RequestTimeout ==
    \E S \in SUBSET inflight : QueueTimer(TimeoutTick(S, IsConnected))

ConnectionNext ==
    \/ \E r \in Calls : SendConnected(r) \/ Connect(r) \/ Send(r) \/ Push(r) \/ Decode(r)
    \/ \E s \in Sockets : OnConnect(s) \/ DataPart(s) \/ DataMisread(s)
    \/ \E s \in Sockets, w \in Waiters : OnEnd(s, w) \/ OnError(s, w) \/ OnTimeout(s, w)
    \/ \E w \in Waiters : Disconnect(w) \/ DisconnectResumes(w)
    \/ SendHandshake \/ SendSaslAuthenticate \/ SendAuthRequest
    \/ AuthContinues \/ Authenticated \/ AuthenticationFails \/ SessionExpires
    \/ \E s \in Sockets : \E q \in Answers(s) : Data(s, q)
    \/ RequestTimeout
    \/ QueueTimer(CheckTimerFires)
    \/ QueueTimer(ThrottleExpires)

ConnectionSpec == ConnectionInit /\ [][ConnectionNext]_vars

\* What the runtime guarantees: code after an await runs, timers fire.
Fairness ==
    /\ \A r \in Calls : WF_vars(Send(r)) /\ WF_vars(Push(r)) /\ WF_vars(Decode(r))
    /\ \A s \in Sockets : WF_vars(\E w \in Waiters : OnTimeout(s, w))
    /\ \A w \in Waiters : WF_vars(DisconnectResumes(w))
    /\ WF_vars(SendHandshake) /\ WF_vars(SendSaslAuthenticate \/ SendAuthRequest)
    /\ WF_vars(AuthContinues)
    /\ WF_vars(Authenticated \/ AuthenticationFails)
    /\ WF_vars(QueueTimer(CheckTimerFires))
    /\ WF_vars(QueueTimer(ThrottleExpires))
    /\ WF_vars(\E S \in SUBSET inflight :
                   S # {} /\ QueueTimer(TimeoutTick(S, IsConnected)))

FairConnectionSpec == ConnectionSpec /\ Fairness

-----------------------------------------------------------------------------
(***************************************************************************)
(* Properties                                                              *)
(***************************************************************************)

\* Type invariant.
ConnTypeOK ==
    /\ connectionStatus \in {"connected", "disconnecting", "disconnected"}
    /\ socket \in 0..MaxSockets
    /\ phase \in [Sockets -> {"unused", "connecting", "open", "closed"}]
    /\ ended \subseteq Sockets /\ broken \subseteq Sockets /\ proven \subseteq Sockets
    /\ pc \in [Calls -> {"idle", "connecting", "ready", "authenticating",
                         "encoding", "queued", "done", "failed"}]
    /\ awaits \in [Calls -> 0..MaxSockets]
    /\ resuming \subseteq Waiters \ waiters
    /\ on \in [Requests -> 0..MaxSockets]
    /\ authenticatedAt \in {"null", "set", "expiring"}
    /\ authPc \in {"idle", "handshake", "handshaking", "authenticate", "exchange",
                   "verify", "failing"}
    /\ round \in 0..MaxRounds /\ authHandlers \in 0..round
    /\ rawAuth \in 0..MaxSockets
    /\ rx \in 0..Misread
    /\ late \subseteq Requests /\ disconnects \in 0..MaxDisconnects
    /\ crossed \in BOOLEAN /\ supportAuthenticationProtocol \in BOOLEAN

\* The connection uses its queue only as RequestQueue allows: every callback of
\* a socket, of a timer or of a promise is at most one operation of the queue,
\* so what holds of the queue in any environment holds of it here.
Queue ==
    INSTANCE RequestQueue WITH Requests <- Requests, Waiters <- Waiters, wire <- wire

ImplementsRequestQueue == Queue!RequestQueueSpec

\* No socket was replaced in the middle of something and no request was pushed
\* while disconnect() was under way: the two situations in which what belongs
\* to one socket meets another.
Undisturbed == ~crossed /\ late = {}

\* The answer to a handshake that timed out may still come, and is then taken
\* for the answer to the raw SASL message sent after it.
LostHandshake ==
    ~supportAuthenticationProtocol /\ \E k \in Rounds : state[Handshake(k)] = "REJECTED"

\* With SASL, a request is written only to a socket on which the server has
\* accepted the credentials, however connecting, authenticating, session expiry
\* and other calls interleave; the same object serves one socket after another.
AuthenticatedWrites ==
    Sasl /\ Undisturbed /\ ~LostHandshake
    => \A r \in Calls : on[r] # 0 => on[r] \in proven

\* While the answer to a raw SASL message is awaited (processData() then hands
\* the next frame to authHandlers, whatever it is) no request is in flight on
\* that socket whose response could be taken for it.
HandlersOwnAnswer ==
    Undisturbed /\ authPc = "exchange" /\ authHandlers = round
    => \A r \in inflight : on[r] # rawAuth

\* A connection becomes "disconnected", and its timers stop, only when nothing
\* is left in the queue: neither pending nor in flight.
DrainedBeforeClose ==
    Undisturbed /\ connectionStatus = "disconnected" /\ waiters \cup resuming = {}
    => QueueEmpty

\* Every send() is settled, by a response, a timeout, a rejection or a refused
\* authentication, although the server may stay silent for ever.  Excepted: a
\* request pushed while disconnect() is under way (its timers are gone) and the
\* wait for a raw SASL message (which has no timeout).
CallsSettle ==
    \A r \in Calls : pc[r] # "idle" ~>
        \/ pc[r] \in {"done", "failed"} \/ late # {}
        \/ authPc = "exchange" /\ ~supportAuthenticationProtocol
=============================================================================
