--------------------------- MODULE NodeConnections ---------------------------
(***************************************************************************)
(* One node and its connections: AbstractNode, AbstractConnection as an    *)
(* InternalNodeConnection extends it, the socket protocol and the event    *)
(* loop that opens sockets.  A handler runs to completion, so an action is *)
(* one callback of asyncio, one message, or one alarm.  Alarms carry no    *)
(* times: any pending alarm may be the next one.                           *)
(*                                                                         *)
(* A connection object outlives its socket while its connection timeout is *)
(* pending; only then is its name free for another socket.                 *)
(***************************************************************************)
EXTENDS ConnectionPool

CONSTANTS Outbound,             \* the endpoints the node opens sockets to
          CommandLine,          \* those of opts.outbound_peers
          Networks,             \* which endpoints may exist together
          PeerOf,               \* the node id behind an endpoint
          AuthType,             \* the connection type in a node's certificate
          BuildType,            \* the type build_connection gives a socket
          IsSsl,
          SDN, RELAY_PROXY,
          MAX_CONNECT_RETRIES, MAX_BAD_MESSAGES,
          RetryCap,             \* num_retries_by_ip is counted up to here
          MaxAlarms             \* a bound: what may double a retry happens while fewer are due

ASSUME NodeConstants ==
    /\ Endpoint # {} /\ Outbound \subseteq Endpoint
    /\ CommandLine \subseteq Outbound
    /\ Networks \subseteq SUBSET Endpoint
    /\ PeerOf \in [Endpoint -> NodeId]
    /\ AuthType \in [NodeId -> ConnectionType]
    /\ BuildType \in [Endpoint -> ConnectionType]
    /\ IsSsl \in [Endpoint -> BOOLEAN]
    /\ \A e \in Outbound : SDN \subseteq BuildType[e] <=> SDN \subseteq AuthType[PeerOf[e]]
    /\ MAX_CONNECT_RETRIES \in Nat
    /\ MAX_BAD_MESSAGES \in Nat
    /\ RetryCap \in Nat /\ RetryCap >= MAX_CONNECT_RETRIES
    /\ MaxAlarms \in Nat

VARIABLES pool, conns,
          outbound_peers,
          pending_connection_requests, pending_connection_attempts,
          attempt,              \* the task that opens a socket to an endpoint
          retry_alarms,         \* pending _retry_init_client_socket alarms
          num_retries_by_ip,
          dropped,              \* endpoints the node decided not to retry
          network               \* the endpoints there are; it never changes

vars == <<pool, conns, outbound_peers, pending_connection_requests,
          pending_connection_attempts, attempt, retry_alarms,
          num_retries_by_ip, dropped, network>>

Idle == "idle"
Connecting == "connecting"
Raised == "raised"            \* connection_made raised, and nobody wakes the task
TurnedAway == "turned away"   \* connection_made aborted the socket

ASSUME TaskConstants == Conn \cap {Idle, Connecting, Raised, TurnedAway} = {}

\* connection_made has returned.
Made == Conn \cup {TurnedAway}

-----------------------------------------------------------------------------
(***************************************************************************)
(* Connection objects.                                                     *)
(***************************************************************************)
\* An outbound socket is retried unless told otherwise; an inbound one never.
NewConnection(e, from_me) ==
    [endpoint |-> e, from_me |-> from_me, alive |-> TRUE,
     should_retry |-> from_me, type |-> BuildType[e], peer_id |-> NoId,
     hello_recvd |-> FALSE, hello_ackd |-> FALSE, established |-> FALSE,
     num_bad_messages |-> 0, ping |-> FALSE, pong |-> FALSE,
     timeout |-> TRUE, closing |-> FALSE, disposed |-> FALSE]

Gone == [NewConnection(CHOOSE e \in Endpoint : TRUE, FALSE) EXCEPT
            !.alive = FALSE, !.timeout = FALSE, !.disposed = TRUE]

IsFree(c) == conns[c] = Gone /\ \A e \in Endpoint : attempt[e] # c
Pooled(c) == c \in pool.by_fileno

\* Mutant: AbstractConnection.mark_for_close, which leaves the pong timeout.
MarkForClosePongKept(conn, retry) ==
    [conn EXCEPT !.alive = FALSE, !.should_retry = IF conn.alive THEN retry ELSE @]

\* Only the first call decides about the retry.  The pong timeout is
\* cancelled every time.
MarkForClose(conn, retry) ==
    [conn EXCEPT !.alive = FALSE,
                 !.should_retry = IF conn.alive THEN retry ELSE @,
                 !.pong = FALSE]

\* mark_for_close() without an argument retries what this node opened.
CloseByDefault(conn) == MarkForClose(conn, conn.from_me)

Dispose(conn) ==
    IF conn.timeout
    THEN [Gone EXCEPT !.endpoint = conn.endpoint, !.timeout = TRUE,
                      !.established = conn.established]
    ELSE Gone

ContinueRetryingConnection(e) ==
    \/ SDN \subseteq BuildType[e]
    \/ num_retries_by_ip[e] < MAX_CONNECT_RETRIES

\* handle_connection_closed: another try later, or on_failed_connection_retry.
HandleConnectionClosed(e, should_retry) ==
    /\ pending_connection_attempts' = pending_connection_attempts \ {e}
    /\ IF should_retry /\ ContinueRetryingConnection(e)
       THEN /\ retry_alarms' = [retry_alarms EXCEPT ![e] = @ + 1]
            /\ UNCHANGED dropped
       ELSE /\ dropped' = dropped \cup ({e} \cap Outbound)
            /\ UNCHANGED retry_alarms

\* The requests after enqueue_connection is called for each of es.
EnqueueConnections(es) ==
    pending_connection_requests \cup (es \ pending_connection_attempts)

-----------------------------------------------------------------------------
(***************************************************************************)
(* Opening sockets.                                                        *)
(***************************************************************************)
\* _process_new_connections_requests: the next batch starts when every task
\* of the last one has ended.
DequeueConnectionRequests ==
    /\ pending_connection_requests # {}
    /\ \A e \in Endpoint : attempt[e] = Idle
    /\ attempt' = [e \in Endpoint |->
                     IF e \in pending_connection_requests THEN Connecting ELSE Idle]
    /\ pending_connection_attempts' =
            pending_connection_attempts \cup pending_connection_requests
    /\ pending_connection_requests' = {}
    /\ UNCHANGED <<pool, conns, outbound_peers, retry_alarms,
                   num_retries_by_ip, dropped, network>>

\* Refused, reset, or timed out before connection_made has returned.
ConnectFails(e) ==
    /\ attempt[e] \in {Connecting, Raised}
    /\ attempt' = [attempt EXCEPT ![e] = Idle]
    /\ HandleConnectionClosed(e, TRUE)
    /\ UNCHANGED <<pool, conns, outbound_peers, pending_connection_requests,
                   num_retries_by_ip, network>>

\* create_connection returns to _connect_to_target, or wait_for times out just
\* after connection_made: then the cancelled task closes the transport, and
\* the node is told of the failure, of a socket that it has turned away too, as
\* well as of the lost connection.
ConnectReturns(e) ==
    /\ attempt[e] \in Made
    /\ attempt' = [attempt EXCEPT ![e] = Idle]
    /\ UNCHANGED <<pool, conns, outbound_peers, pending_connection_requests,
                   pending_connection_attempts, retry_alarms,
                   num_retries_by_ip, dropped, network>>

ConnectTimesOutLate(e) ==
    /\ attempt[e] \in Made
    /\ retry_alarms[e] < MaxAlarms
    /\ attempt' = [attempt EXCEPT ![e] = Idle]
    /\ conns' = [c \in Conn |-> IF c = attempt[e]
                    THEN [conns[c] EXCEPT !.closing = ~conns[c].disposed] ELSE conns[c]]
    /\ HandleConnectionClosed(e, TRUE)
    /\ UNCHANGED <<pool, outbound_peers, pending_connection_requests,
                   num_retries_by_ip, network>>

\* What on_connection_added makes of a socket to e.  A socket that is turned
\* away is aborted without a retry; it never was in the pool, so its loss has
\* no effect.
IsDuplicate(e) ==
    IF IsSsl[e]
    THEN /\ HasConnection(pool, e, PeerOf[e])
         /\ AuthType[PeerOf[e]] # RELAY_PROXY
    ELSE HasConnection(pool, e, NoId)

\* Failed authentication, a duplicate, or build_connection returned None.
TurnAway(e, task) ==
    /\ dropped' = dropped \cup ({e} \cap Outbound)
    /\ attempt' = [attempt EXCEPT ![e] = task]
    /\ UNCHANGED <<pool, conns>>

\* A second connection of a proxy passes the test for duplicates.  If it is
\* to the same endpoint the assertion of ConnectionPool.add fails.  The
\* protocol has no delegate then, and never reports the loss of this socket.
AssertionFails(e, task) ==
    /\ ~IsDuplicate(e)
    /\ pool.by_ipport[e] # NoConn
    /\ attempt' = [attempt EXCEPT ![e] = task]
    /\ UNCHANGED <<pool, conns, dropped>>

\* on_connection_authenticated, then index_conn_node_id.
Authenticate(p, c, e) ==
    LET n == PeerOf[e]
    IN IF BuildType[e] # AuthType[n]
       THEN UpdateConnectionType(p, c, e, BuildType[e], AuthType[n], n)
       ELSE IndexConnNodeId(p, n, c)

AddConnection(c, e, from_me, task) ==
    /\ ~IsDuplicate(e)
    /\ pool.by_ipport[e] = NoConn
    /\ IsFree(c)
    /\ LET added == PoolAdd(pool, c, e, BuildType[e])
           conn == NewConnection(e, from_me)
       IN IF IsSsl[e]
          THEN /\ pool' = Authenticate(added, c, e)
               /\ conns' = [conns EXCEPT ![c] =
                     [conn EXCEPT !.peer_id = PeerOf[e], !.type = AuthType[PeerOf[e]]]]
          ELSE /\ pool' = added
               /\ conns' = [conns EXCEPT ![c] = conn]
    /\ attempt' = [attempt EXCEPT ![e] = task]
    /\ dropped' = dropped \ {e}

\* Mutant: the attempt is not discarded.
OnConnectionAddedUndiscarded(e, from_me) ==
    /\ \/ TurnAway(e, IF from_me THEN TurnedAway ELSE Idle)
       \/ \E c \in Conn : AddConnection(c, e, from_me, IF from_me THEN c ELSE Idle)
    /\ UNCHANGED <<outbound_peers, pending_connection_requests, retry_alarms,
                   num_retries_by_ip, network, pending_connection_attempts>>

OnConnectionAdded(e, from_me) ==
    /\ pending_connection_attempts' = pending_connection_attempts \ {e}
    /\ \/ TurnAway(e, IF from_me THEN TurnedAway ELSE Idle)
       \/ AssertionFails(e, IF from_me THEN Raised ELSE Idle)
       \/ \E c \in Conn : AddConnection(c, e, from_me, IF from_me THEN c ELSE Idle)
    /\ UNCHANGED <<outbound_peers, pending_connection_requests, retry_alarms,
                   num_retries_by_ip, network>>

ConnectionMade(e) == attempt[e] = Connecting /\ OnConnectionAdded(e, TRUE)

Accept(e) == e \in network \ Outbound /\ OnConnectionAdded(e, FALSE)

-----------------------------------------------------------------------------
(***************************************************************************)
(* Messages.                                                               *)
(***************************************************************************)
CanReceive(c) == Pooled(c) /\ conns[c].alive /\ ~conns[c].closing

NodeUnchanged == UNCHANGED <<pool, outbound_peers, pending_connection_requests,
                             pending_connection_attempts, attempt,
                             retry_alarms, dropped, network>>

\* on_connection_established is called when the state holds both flags.  A
\* connection that has just been marked for close is not active, so it is
\* established too, and its retries start anew.
Establishes(conn) ==
    conn.hello_recvd /\ conn.hello_ackd /\ ~(conn.established /\ conn.alive)

OnConnectionEstablished(conn) ==
    num_retries_by_ip' = IF Establishes(conn)
                         THEN [num_retries_by_ip EXCEPT ![conn.endpoint] = 0]
                         ELSE num_retries_by_ip

SetEstablished(conn) == [conn EXCEPT !.established = @ \/ Establishes(conn)]

GoodMessage(cs, c) == [cs EXCEPT ![c].num_bad_messages = 0]

\* AbstractConnection.msg_hello closes one of two connections with a node, or
\* both, when it finds an indexed one that is not this one.
CloseDuplicates(cs, c) ==
    LET n == cs[c].peer_id
        other == pool.by_node_id[n]
    IN IF other \in {NoConn, c}
       THEN cs
       ELSE [x \in Conn |-> IF x \in {c, other} /\ cs[x].from_me
                            THEN CloseByDefault(cs[x]) ELSE cs[x]]

\* The rest of InternalNodeConnection.msg_hello: the network is compared and
\* pings are scheduled, in place of any that were.
CompareNetwork(conn, same_network) ==
    IF ~conn.alive THEN conn
    ELSE IF same_network THEN [conn EXCEPT !.ping = TRUE]
    ELSE CloseByDefault(conn)

MsgHello(c, same_network) ==
    /\ CanReceive(c)
    /\ LET helloed == [GoodMessage(conns, c) EXCEPT
                         ![c].hello_recvd = TRUE,
                         ![c].peer_id = IF @ = NoId THEN PeerOf[conns[c].endpoint] ELSE @]
           closed == CloseDuplicates(helloed, c)
       IN /\ OnConnectionEstablished(closed[c])
          /\ conns' = [closed EXCEPT ![c] =
                          CompareNetwork(SetEstablished(@), same_network)]
    /\ NodeUnchanged

MsgAck(c) ==
    /\ CanReceive(c)
    /\ LET acked == [GoodMessage(conns, c) EXCEPT ![c].hello_ackd = TRUE]
       IN /\ OnConnectionEstablished(acked[c])
          /\ conns' = [acked EXCEPT ![c] = SetEstablished(@)]
    /\ NodeUnchanged

\* Any other message closes a connection that is not established.
MsgOther(c) ==
    /\ CanReceive(c)
    /\ conns' = IF conns[c].established
                THEN GoodMessage(conns, c)
                ELSE [conns EXCEPT ![c] = CloseByDefault(@)]
    /\ UNCHANGED num_retries_by_ip
    /\ NodeUnchanged

MsgPong(c) ==
    /\ CanReceive(c)
    /\ conns[c].established
    /\ conns' = [GoodMessage(conns, c) EXCEPT ![c].pong = FALSE]
    /\ UNCHANGED num_retries_by_ip
    /\ NodeUnchanged

\* A full message that raises is removed from the buffer and counted.
ReportBadMessage(conn) ==
    IF conn.num_bad_messages = MAX_BAD_MESSAGES
    THEN CloseByDefault(conn)
    ELSE [conn EXCEPT !.num_bad_messages = @ + 1]

MsgBad(c) ==
    /\ CanReceive(c)
    /\ conns' = [conns EXCEPT ![c] = ReportBadMessage(@)]
    /\ UNCHANGED num_retries_by_ip
    /\ NodeUnchanged

\* A wrong length, an unsupported version, a partial message that fails
\* validation, or no protocol message at all: there is no way to go on.
MsgUnrecoverable(c) ==
    /\ CanReceive(c)
    /\ conns' = [conns EXCEPT ![c] = CloseByDefault(@)]
    /\ UNCHANGED num_retries_by_ip
    /\ NodeUnchanged

-----------------------------------------------------------------------------
(***************************************************************************)
(* Lost connections, alarms, and updates of the peers.                     *)
(***************************************************************************)
\* connection_lost: of a transport that was aborted or closed, or at any time.
\* A connection that was alive is marked for close on the way.
ConnectionLost(c) ==
    /\ Pooled(c)
    /\ LET conn == IF conns[c].alive THEN CloseByDefault(conns[c]) ELSE conns[c]
       IN /\ pool' = PoolDelete(pool, c, conn.endpoint, conn.type, conn.peer_id)
          /\ HandleConnectionClosed(conn.endpoint, conn.should_retry)
          /\ conns' = [conns EXCEPT ![c] = Dispose(conn)]
    /\ UNCHANGED <<outbound_peers, pending_connection_requests, attempt,
                   num_retries_by_ip, network>>

\* Mutant: a connection that is not established is left alone.
ConnectionTimeoutIgnored(c) ==
    /\ conns[c].timeout
    /\ conns' = [conns EXCEPT ![c] = IF @.disposed THEN Gone ELSE [@ EXCEPT !.timeout = FALSE]]
    /\ UNCHANGED num_retries_by_ip
    /\ NodeUnchanged

\* _connection_timeout finds the connection established, gone, or still in its
\* handshake.  An object that was disposed of keeps its established flag.
ConnectionTimeout(c) ==
    /\ conns[c].timeout
    /\ LET conn == conns[c]
           e == conn.endpoint
       IN /\ num_retries_by_ip' = IF conn.established
                                  THEN [num_retries_by_ip EXCEPT ![e] = 0]
                                  ELSE num_retries_by_ip
          /\ conns' = [conns EXCEPT ![c] =
                IF conn.disposed THEN Gone
                ELSE IF conn.established \/ ~conn.alive
                     THEN [conn EXCEPT !.timeout = FALSE]
                     ELSE [CloseByDefault(conn) EXCEPT !.timeout = FALSE]]
    /\ NodeUnchanged

\* send_ping reschedules itself while the connection is alive.
SendPing(c) ==
    /\ conns[c].ping
    /\ conns' = IF conns[c].alive THEN [conns EXCEPT ![c].pong = TRUE]
                                  ELSE [conns EXCEPT ![c].ping = FALSE]
    /\ UNCHANGED num_retries_by_ip
    /\ NodeUnchanged

PongMsgTimeout(c) ==
    /\ conns[c].pong
    /\ conns' = IF conns[c].alive
                THEN [conns EXCEPT ![c] = CloseByDefault(@)]
                ELSE [conns EXCEPT ![c].pong = FALSE]
    /\ UNCHANGED num_retries_by_ip
    /\ NodeUnchanged

Count(n) == IF n < RetryCap THEN n + 1 ELSE n

\* Mutant: the retry runs although no alarm for it is pending.
RetryInitClientSocketAgain(e) ==
    /\ retry_alarms' = [retry_alarms EXCEPT ![e] = @ - 1]
    /\ pending_connection_requests' = EnqueueConnections({e})
    /\ UNCHANGED <<pool, conns, outbound_peers, pending_connection_attempts,
                   attempt, network, num_retries_by_ip, dropped>>

RetryInitClientSocket(e) ==
    /\ retry_alarms[e] > 0
    /\ retry_alarms' = [retry_alarms EXCEPT ![e] = @ - 1]
    /\ num_retries_by_ip' = [num_retries_by_ip EXCEPT ![e] = Count(@)]
    /\ pending_connection_requests' = EnqueueConnections({e})
    /\ dropped' = dropped \ {e}
    /\ UNCHANGED <<pool, conns, outbound_peers, pending_connection_attempts,
                   attempt, network>>

\* on_updated_peers: the connections of removed peers are closed for good, and
\* every remaining peer without a connection is asked for.
OnUpdatedPeers(models) ==
    LET removed == (outbound_peers \ models) \ CommandLine
        peers == (outbound_peers \cup models) \ removed
        closed == {GetByIpport(pool, e, PeerOf[e]) :
                     e \in {x \in removed : HasConnection(pool, x, PeerOf[x])}}
        missing == {e \in peers : ~HasConnection(pool, e, PeerOf[e])}
    IN /\ \A e \in Endpoint : retry_alarms[e] < MaxAlarms
       /\ conns' = [c \in Conn |-> IF c \in closed THEN MarkForClose(conns[c], FALSE)
                                                   ELSE conns[c]]
       /\ pending_connection_requests' = EnqueueConnections(missing)
       /\ outbound_peers' = peers
       /\ dropped' = dropped \ missing
       /\ UNCHANGED <<pool, pending_connection_attempts, attempt, retry_alarms,
                      num_retries_by_ip, network>>

-----------------------------------------------------------------------------
\* _connect_to_peers opens the first sockets without a request.
Init ==
    /\ pool = EmptyPool
    /\ conns = [c \in Conn |-> Gone]
    /\ network \in Networks
    /\ outbound_peers = CommandLine \cap network
    /\ pending_connection_requests = {}
    /\ pending_connection_attempts = {}
    /\ attempt = [e \in Endpoint |-> IF e \in outbound_peers THEN Connecting ELSE Idle]
    /\ retry_alarms = [e \in Endpoint |-> 0]
    /\ num_retries_by_ip = [e \in Endpoint |-> 0]
    /\ dropped = {}

Alarms ==
    \/ \E c \in Conn : ConnectionTimeout(c) \/ SendPing(c) \/ PongMsgTimeout(c)
    \/ \E e \in Endpoint : RetryInitClientSocket(e)

Messages ==
    \E c \in Conn :
        \/ \E same_network \in BOOLEAN : MsgHello(c, same_network)
        \/ MsgAck(c) \/ MsgPong(c) \/ MsgOther(c) \/ MsgBad(c) \/ MsgUnrecoverable(c)

TaskEnds(e) == ConnectFails(e) \/ ConnectionMade(e) \/ ConnectReturns(e)

Next ==
    \/ DequeueConnectionRequests
    \/ \E e \in Endpoint : TaskEnds(e) \/ ConnectTimesOutLate(e) \/ Accept(e)
    \/ Messages
    \/ \E c \in Conn : ConnectionLost(c)
    \/ Alarms
    \/ \E models \in SUBSET (Outbound \cap network) \ {{}} : OnUpdatedPeers(models)

\* The event loop starts requested connections, tasks end (wait_for bounds
\* them), alarms fire, and asyncio reports a transport that is closing.
Fairness ==
    /\ WF_vars(DequeueConnectionRequests)
    /\ \A e \in Endpoint : WF_vars(TaskEnds(e)) /\ WF_vars(RetryInitClientSocket(e))
    /\ \A c \in Conn :
        /\ WF_vars(ConnectionTimeout(c))
        /\ WF_vars((~conns[c].alive \/ conns[c].closing) /\ ConnectionLost(c))

Spec == Init /\ [][Next]_vars /\ Fairness

-----------------------------------------------------------------------------
(***************************************************************************)
(* Properties.                                                             *)
(***************************************************************************)
Task == Conn \cup {Idle, Connecting, Raised, TurnedAway}

Connection ==
    [endpoint : Endpoint, from_me : BOOLEAN, alive : BOOLEAN,
     should_retry : BOOLEAN, type : ConnectionType, peer_id : NodeId \cup {NoId},
     hello_recvd : BOOLEAN, hello_ackd : BOOLEAN, established : BOOLEAN,
     num_bad_messages : Nat, ping : BOOLEAN, pong : BOOLEAN,
     timeout : BOOLEAN, closing : BOOLEAN, disposed : BOOLEAN]

\* Every variable has its type.
TypeOK ==
    /\ pool \in Pool
    /\ conns \in [Conn -> Connection]
    /\ outbound_peers \subseteq Outbound
    /\ pending_connection_requests \subseteq Outbound
    /\ pending_connection_attempts \subseteq Outbound
    /\ attempt \in [Endpoint -> Task]
    /\ retry_alarms \in [Endpoint -> Nat]
    /\ num_retries_by_ip \in [Endpoint -> Nat]
    /\ dropped \subseteq Outbound
    /\ network \subseteq Endpoint

\* The connections get_by_connection_types returns, which is whom broadcast
\* sends to.
GetByConnectionTypes(types) ==
    UNION {pool.by_connection_type[t] :
             t \in {x \in ConnectionType : \E m \in types : x \cap m # {}}}

\* The endpoints and the types lead to exactly the connections that by_fileno
\* holds, the counts by ip are theirs, and a node id leads to one of its own.
PoolAgrees ==
    /\ \A c \in pool.by_fileno : /\ pool.by_ipport[conns[c].endpoint] = c
                                 /\ ~conns[c].disposed
    /\ \A e \in Endpoint : pool.by_ipport[e] # NoConn =>
            /\ pool.by_ipport[e] \in pool.by_fileno
            /\ conns[pool.by_ipport[e]].endpoint = e
    /\ \A t \in ConnectionType :
            pool.by_connection_type[t] = {c \in pool.by_fileno : conns[c].type = t}
    /\ \A n \in NodeId : pool.by_node_id[n] # NoConn =>
            /\ pool.by_node_id[n] \in pool.by_fileno
            /\ conns[pool.by_node_id[n]].peer_id = n
    /\ \A i \in Ip : pool.count_conn_by_ip[i] =
            Cardinality({c \in pool.by_fileno : IpOf[conns[c].endpoint] = i})

\* The node behind e has no other endpoint to connect to or from.
OnlyEndpoint(e) == \A x \in network : PeerOf[x] = PeerOf[e] => x = e

\* An authenticated connection of such a node is found by its node id.
NodeIdLeads ==
    \A c \in pool.by_fileno :
        LET e == conns[c].endpoint
        IN  IsSsl[e] /\ OnlyEndpoint(e) => pool.by_node_id[PeerOf[e]] = c

\* The five indexes describe the same connections through every add, change of
\* type and delete: what by_fileno holds is what an endpoint and a type lead to,
\* the counts by ip are theirs, and nothing leads to a connection that was
\* disposed of.  A broadcast then reaches the connections of its types.  A node
\* id leads to a connection of the node, if to any, and to its authenticated
\* connection when the node has one endpoint only.
IndexesAgree == PoolAgrees /\ NodeIdLeads

\* "Connections should be thought of unique identified by via file no or node
\* id": an authenticated connection in the pool has its node id in the index.
FoundByNodeId ==
    \A c \in pool.by_fileno :
        IsSsl[conns[c].endpoint] => pool.by_node_id[PeerOf[conns[c].endpoint]] # NoConn

\* The node still has a try to make, or is making it.
Sought(e) ==
    \/ e \in pending_connection_requests
    \/ attempt[e] \in {Connecting, Raised}
    \/ retry_alarms[e] > 0

\* A peer marked as being attempted is one: enqueue_connection ignores requests
\* for marked peers, so a mark left behind would shut the peer out for ever.
MarksAreLive ==
    \A e \in pending_connection_attempts : attempt[e] \in {Connecting, Raised}

\* An alarm of a connection finds it as it expects: a pong is awaited only on a
\* live connection, pings are sent only on one that is in the pool, and nothing
\* that belongs to a disposed connection runs but its connection timeout.
AlarmsOwned ==
    \A c \in Conn : /\ conns[c].pong => conns[c].alive
                    /\ conns[c].ping => Pooled(c)
                    /\ conns[c].disposed <=> ~Pooled(c)

LifeOf(e) ==
    LET c == pool.by_ipport[e]
    IN IF c # NoConn
       THEN IF ~conns[c].alive
            THEN IF conns[c].should_retry THEN "closing" ELSE "released"
            ELSE IF conns[c].established THEN "up" ELSE "handshake"
       ELSE IF Sought(e) THEN "seeking"
       ELSE IF e \in dropped THEN "dropped"
       ELSE "unknown"

Life == INSTANCE ConnectionLife WITH
            Peer <- Outbound,
            Persistent <- {e \in Outbound : SDN \subseteq BuildType[e]},
            life <- [e \in Outbound |-> LifeOf(e)]

\* Every peer the node connects to lives the life ConnectionLife promises,
\* whatever the order of callbacks, messages and alarms: known peers are never
\* forgotten, an SDN is given up only on purpose, and no socket stays half open
\* or half closed.
ImplementsLife == Life!Spec
=============================================================================
