------------------------ MODULE NodeConnectionsProofs ------------------------
(***************************************************************************)
(* Proofs about NodeConnections, for any endpoints, node ids, connection   *)
(* types and networks.                                                     *)
(***************************************************************************)
EXTENDS NodeConnections, FiniteSetTheorems, TLAPS

USE ZenonT(40)

\* What the node retries it has opened itself, to a peer it may open sockets to.
OnlyOutbound ==
    /\ \A e \in Endpoint : retry_alarms[e] > 0 \/ attempt[e] # Idle => e \in Outbound
    /\ \A c \in Conn : conns[c].from_me \/ conns[c].should_retry => conns[c].endpoint \in Outbound

\* A task that connection_made has returned to.
LEMMA MadeFacts ==
    /\ \A t \in Made : t # Idle /\ t # Connecting /\ t # Raised
    /\ Conn \subseteq Made /\ TurnedAway \in Made
BY TaskConstants DEF Made, TurnedAway, Idle, Connecting, Raised

IInv ==
    /\ TypeOK /\ PoolAgrees /\ MarksAreLive /\ AlarmsOwned
    /\ OnlyOutbound
    /\ IsFiniteSet(pool.by_fileno)

-----------------------------------------------------------------------------
(* The pool: what add, delete and index_conn_node_id do to indexes that    *)
(* describe their connections.  cs and ds are what is known of each        *)
(* connection: its endpoint, type and peer_id.                             *)

\* The indexes of p describe the connections cs that are in it.
Describes(p, cs) ==
    /\ \A c \in p.by_fileno : p.by_ipport[cs[c].endpoint] = c
    /\ \A e \in Endpoint : p.by_ipport[e] # NoConn =>
            p.by_ipport[e] \in p.by_fileno /\ cs[p.by_ipport[e]].endpoint = e
    /\ \A t \in ConnectionType : p.by_connection_type[t] = {c \in p.by_fileno : cs[c].type = t}
    /\ \A n \in NodeId : p.by_node_id[n] # NoConn =>
            p.by_node_id[n] \in p.by_fileno /\ cs[p.by_node_id[n]].peer_id = n
    /\ \A i \in Ip : p.count_conn_by_ip[i] =
            Cardinality({c \in p.by_fileno : IpOf[cs[c].endpoint] = i})

\* A pool that describes its connections, which are finitely many.
GoodPool(p, cs) ==
    /\ p \in Pool /\ IsFiniteSet(p.by_fileno) /\ Describes(p, cs)
    /\ \A c \in p.by_fileno : cs[c].endpoint \in Endpoint

\* cs and ds agree on what identifies the connections of C.
Alike(C, cs, ds) ==
    \A c \in C : /\ ds[c].endpoint = cs[c].endpoint /\ ds[c].type = cs[c].type
                 /\ ds[c].peer_id = cs[c].peer_id

\* q is p with connection c added, index by index.
Added(p, q, c, e, t) ==
    /\ q \in Pool
    /\ q.by_fileno = p.by_fileno \cup {c}
    /\ q.by_ipport = [p.by_ipport EXCEPT ![e] = c]
    /\ q.by_connection_type = [p.by_connection_type EXCEPT ![t] = @ \cup {c}]
    /\ q.by_node_id = p.by_node_id
    /\ q.count_conn_by_ip = [p.count_conn_by_ip EXCEPT ![IpOf[e]] = @ + 1]

\* q is p without connection c, index by index.
Deleted(p, q, c, e, t, n) ==
    /\ q \in Pool
    /\ q.by_fileno = p.by_fileno \ {c}
    /\ q.by_ipport = [p.by_ipport EXCEPT ![e] = IF @ = c THEN NoConn ELSE @]
    /\ q.by_connection_type = [p.by_connection_type EXCEPT ![t] = DeleteFromType(@, c)]
    /\ q.by_node_id = DeleteNodeId(p.by_node_id, c, n)
    /\ q.count_conn_by_ip = [p.count_conn_by_ip EXCEPT ![IpOf[e]] = @ - 1]

\* ConnectionPool.add, index by index.
LEMMA PoolAddFields ==
    ASSUME NEW p \in Pool, NEW c \in Conn, NEW e \in Endpoint, NEW t \in ConnectionType
    PROVE  Added(p, PoolAdd(p, c, e, t), c, e, t)
<1> DEFINE q == PoolAdd(p, c, e, t)
           F == p.by_fileno \cup {c}
           I == [p.by_ipport EXCEPT ![e] = c]
           T == [p.by_connection_type EXCEPT ![t] = @ \cup {c}]
           N == [p.count_conn_by_ip EXCEPT ![IpOf[e]] = @ + 1]
<1>1. q = [p EXCEPT !.by_fileno = F, !.by_ipport = I, !.by_connection_type = T,
                    !.count_conn_by_ip = N]
    BY DEF PoolAdd, Pool
<1>2. F \in SUBSET Conn /\ I \in [Endpoint -> Conn \cup {NoConn}]
    BY DEF Pool
<1>3. T \in [ConnectionType -> SUBSET Conn] /\ N \in [Ip -> Int]
    BY SMTT(60), PoolConstants DEF Pool
<1> HIDE DEF F, I, T, N, q
<1>4. /\ q \in Pool /\ q.by_fileno = F /\ q.by_ipport = I /\ q.by_connection_type = T
      /\ q.by_node_id = p.by_node_id /\ q.count_conn_by_ip = N
    BY <1>1, <1>2, <1>3 DEF Pool
<1> QED
    BY <1>4 DEF Added, q, F, I, T, N

\* What a pool holds after add.
LEMMA PoolAddHolds ==
    ASSUME NEW p \in Pool, NEW c, NEW e, NEW t
    PROVE  PoolAdd(p, c, e, t).by_fileno = p.by_fileno \cup {c}
BY DEF PoolAdd, Pool

\* ConnectionPool.delete, index by index.
LEMMA PoolDeleteFields ==
    ASSUME NEW p \in Pool, NEW c \in Conn, NEW e \in Endpoint, NEW t \in ConnectionType,
           NEW n \in NodeId \cup {NoId}
    PROVE  Deleted(p, PoolDelete(p, c, e, t, n), c, e, t, n)
<1> DEFINE q == PoolDelete(p, c, e, t, n)
           F == p.by_fileno \ {c}
           I == [p.by_ipport EXCEPT ![e] = IF @ = c THEN NoConn ELSE @]
           T == [p.by_connection_type EXCEPT ![t] = DeleteFromType(@, c)]
           D == DeleteNodeId(p.by_node_id, c, n)
           M == [p.count_conn_by_ip EXCEPT ![IpOf[e]] = DeleteFromCount(@)]
           N == [p.count_conn_by_ip EXCEPT ![IpOf[e]] = @ - 1]
<1>1. q = [p EXCEPT !.by_fileno = F, !.by_ipport = I, !.by_connection_type = T,
                    !.count_conn_by_ip = M, !.by_node_id = D]
    BY DEF PoolDelete, Pool
<1>2. M = N /\ N \in [Ip -> Int]
  <2>1. IpOf[e] \in Ip /\ p.count_conn_by_ip \in [Ip -> Int]
      BY PoolConstants DEF Pool
  <2>2. DeleteFromCount(p.count_conn_by_ip[IpOf[e]]) = p.count_conn_by_ip[IpOf[e]] - 1
      BY SMTT(60), <2>1 DEF DeleteFromCount
  <2> QED
      BY SMTT(60), <2>1, <2>2
<1>3. F \in SUBSET Conn /\ I \in [Endpoint -> Conn \cup {NoConn}]
    BY DEF Pool
<1>4. T \in [ConnectionType -> SUBSET Conn]
    BY DEF Pool, DeleteFromType
<1>5. D \in [NodeId -> Conn \cup {NoConn}]
    BY DEF Pool, DeleteNodeId
<1> HIDE DEF F, I, T, D, M, N, q
<1>6. /\ q \in Pool /\ q.by_fileno = F /\ q.by_ipport = I /\ q.by_connection_type = T
      /\ q.by_node_id = D /\ q.count_conn_by_ip = N
    BY <1>1, <1>2, <1>3, <1>4, <1>5 DEF Pool
<1> QED
    BY <1>6 DEF Deleted, q, F, I, T, D, N

\* add keeps the indexes in agreement when its assertion holds.
LEMMA AddDescribes ==
    ASSUME NEW p, NEW cs, NEW ds, GoodPool(p, cs), NEW c \in Conn, c \notin p.by_fileno,
           NEW e \in Endpoint, NEW t \in ConnectionType, p.by_ipport[e] = NoConn,
           ds[c].endpoint = e, ds[c].type = t, Alike(p.by_fileno, cs, ds)
    PROVE  GoodPool(PoolAdd(p, c, e, t), ds)
<1> DEFINE q == PoolAdd(p, c, e, t)
<1>0. p \in Pool /\ Describes(p, cs) /\ IsFiniteSet(p.by_fileno)
    BY DEF GoodPool
<1>a. Added(p, q, c, e, t)
    BY <1>0, PoolAddFields
<1>1. q \in Pool /\ q.by_fileno = p.by_fileno \cup {c}
    BY <1>a DEF Added
<1>i. q.by_ipport = [p.by_ipport EXCEPT ![e] = c]
    BY <1>a DEF Added
<1>t. q.by_connection_type = [p.by_connection_type EXCEPT ![t] = @ \cup {c}]
    BY <1>a DEF Added
<1>n. q.by_node_id = p.by_node_id
    BY <1>a DEF Added
<1>k. q.count_conn_by_ip = [p.count_conn_by_ip EXCEPT ![IpOf[e]] = @ + 1]
    BY <1>a DEF Added
<1> HIDE DEF q
<1>2. /\ p.by_fileno \subseteq Conn /\ p.by_ipport \in [Endpoint -> Conn \cup {NoConn}]
      /\ p.by_connection_type \in [ConnectionType -> SUBSET Conn]
      /\ p.by_node_id \in [NodeId -> Conn \cup {NoConn}]
      /\ p.count_conn_by_ip \in [Ip -> Int] /\ NoConn \notin Conn /\ IpOf[e] \in Ip
    BY <1>0, PoolConstants DEF Pool
<1>3. \A x \in q.by_fileno : ds[x].endpoint \in Endpoint
    BY <1>1 DEF GoodPool, Alike
<1>4. \A x \in q.by_fileno : q.by_ipport[ds[x].endpoint] = x
  <2>1. \A x \in p.by_fileno : ds[x].endpoint # e
      BY SMTT(60), <1>0, <1>2 DEF Describes, Alike
  <2> QED
      BY SMTT(60), <1>0, <1>1, <1>i, <1>2, <1>3, <2>1 DEF Describes, Alike
<1>5. \A x \in Endpoint : q.by_ipport[x] # NoConn =>
          q.by_ipport[x] \in q.by_fileno /\ ds[q.by_ipport[x]].endpoint = x
    BY SMTT(60), <1>0, <1>1, <1>i, <1>2 DEF Describes, Alike
<1>6. \A x \in ConnectionType : q.by_connection_type[x] = {y \in q.by_fileno : ds[y].type = x}
    BY SMTT(60), <1>0, <1>1, <1>t, <1>2 DEF Describes, Alike
<1>7. \A n \in NodeId : q.by_node_id[n] # NoConn =>
          q.by_node_id[n] \in q.by_fileno /\ ds[q.by_node_id[n]].peer_id = n
    BY SMTT(60), <1>0, <1>1, <1>n DEF Describes, Alike
<1>8. ASSUME NEW i \in Ip
      PROVE  q.count_conn_by_ip[i] = Cardinality({x \in q.by_fileno : IpOf[ds[x].endpoint] = i})
  <2> DEFINE old == {x \in p.by_fileno : IpOf[cs[x].endpoint] = i}
             new == {x \in q.by_fileno : IpOf[ds[x].endpoint] = i}
  <2>1. p.count_conn_by_ip[i] = Cardinality(old) /\ IsFiniteSet(old) /\ c \notin old
      BY <1>0, FS_Subset DEF Describes
  <2>2. CASE i = IpOf[e]
    <3>1. new = old \cup {c}
        BY <1>1, <2>2 DEF Alike
    <3>2. Cardinality(new) = Cardinality(old) + 1
        BY <2>1, <3>1, FS_AddElement
    <3> QED
        BY <1>k, <1>2, <2>1, <2>2, <3>2
  <2>3. CASE i # IpOf[e]
    <3>1. new = old
        BY <1>1, <2>3 DEF Alike
    <3> QED
        BY <1>k, <1>2, <2>1, <2>3, <3>1
  <2> QED
      BY <2>2, <2>3
<1>9. Describes(q, ds) /\ IsFiniteSet(q.by_fileno)
    BY SMTT(60), <1>0, <1>1, <1>4, <1>5, <1>6, <1>7, <1>8, FS_AddElement DEF Describes
<1> QED
    BY <1>1, <1>3, <1>9 DEF GoodPool, q

\* delete keeps the indexes in agreement when it is told what the connection
\* was added with.
LEMMA DeleteDescribes ==
    ASSUME NEW p, NEW cs, GoodPool(p, cs), NEW c \in p.by_fileno,
           cs[c].type \in ConnectionType, cs[c].peer_id \in NodeId \cup {NoId}
    PROVE  LET q == PoolDelete(p, c, cs[c].endpoint, cs[c].type, cs[c].peer_id)
           IN  GoodPool(q, cs) /\ q.by_fileno = p.by_fileno \ {c}
               /\ q.by_ipport[cs[c].endpoint] = NoConn
<1> DEFINE e == cs[c].endpoint
           t == cs[c].type
           n == cs[c].peer_id
           q == PoolDelete(p, c, e, t, n)
<1>0. p \in Pool /\ Describes(p, cs) /\ IsFiniteSet(p.by_fileno) /\ c \in Conn /\ e \in Endpoint
      /\ \A x \in p.by_fileno : cs[x].endpoint \in Endpoint
    BY DEF GoodPool, Pool
<1> HIDE DEF e, t, n
<1>a. Deleted(p, q, c, e, t, n)
  <2>1. t \in ConnectionType /\ n \in NodeId \cup {NoId}
      BY DEF t, n
  <2> QED
      BY <1>0, <2>1, PoolDeleteFields
<1>1. q \in Pool /\ q.by_fileno = p.by_fileno \ {c}
    BY <1>a DEF Deleted
<1>i. q.by_ipport = [p.by_ipport EXCEPT ![e] = IF @ = c THEN NoConn ELSE @]
    BY <1>a DEF Deleted
<1>t. q.by_connection_type = [p.by_connection_type EXCEPT ![t] = DeleteFromType(@, c)]
    BY <1>a DEF Deleted
<1>n. q.by_node_id = DeleteNodeId(p.by_node_id, c, n)
    BY <1>a DEF Deleted
<1>k. q.count_conn_by_ip = [p.count_conn_by_ip EXCEPT ![IpOf[e]] = @ - 1]
    BY <1>a DEF Deleted
<1> HIDE DEF q
<1>2. /\ p.by_fileno \subseteq Conn /\ p.by_ipport \in [Endpoint -> Conn \cup {NoConn}]
      /\ p.by_connection_type \in [ConnectionType -> SUBSET Conn]
      /\ p.by_node_id \in [NodeId -> Conn \cup {NoConn}]
      /\ p.count_conn_by_ip \in [Ip -> Int] /\ NoConn \notin Conn /\ IpOf[e] \in Ip
    BY <1>0, PoolConstants DEF Pool
<1>3. p.by_ipport[e] = c /\ q.by_ipport[e] = NoConn
    BY SMTT(60), <1>0, <1>i, <1>2 DEF Describes, e
<1>4. \A x \in q.by_fileno : q.by_ipport[cs[x].endpoint] = x
    BY SMTT(60), <1>0, <1>1, <1>i, <1>2, <1>3 DEF Describes
<1>5. \A x \in Endpoint : q.by_ipport[x] # NoConn =>
          q.by_ipport[x] \in q.by_fileno /\ cs[q.by_ipport[x]].endpoint = x
    BY SMTT(60), <1>0, <1>1, <1>i, <1>2, <1>3 DEF Describes, e
<1>6. ASSUME NEW x \in ConnectionType
      PROVE  q.by_connection_type[x] = {y \in q.by_fileno : cs[y].type = x}
  <2> DEFINE S == p.by_connection_type[x]
  <2>1. S = {y \in p.by_fileno : cs[y].type = x}
      BY <1>0 DEF Describes
  <2>2. CASE x = t
    <3>1. c \in S
        BY <2>1, <2>2 DEF t
    <3>2. Cardinality(S) = 1 => S = {c}
      <4>1. IsFiniteSet(S)
          BY <1>0, <2>1, FS_Subset
      <4> QED
          BY SMTT(60), <3>1, <4>1, FS_Singleton
    <3>3. DeleteFromType(S, c) = S \ {c}
        BY <3>2 DEF DeleteFromType
    <3> QED
        BY SMTT(60), <1>1, <1>t, <1>2, <2>1, <2>2, <3>3
  <2>3. CASE x # t
    <3>1. q.by_connection_type[x] = S
        BY <1>t, <1>2, <2>3
    <3> QED
        BY <1>1, <2>1, <2>3, <3>1 DEF t
  <2> QED
      BY <2>2, <2>3
<1>7. \A m \in NodeId : q.by_node_id[m] # NoConn =>
          q.by_node_id[m] \in q.by_fileno /\ cs[q.by_node_id[m]].peer_id = m
    BY SMTT(60), <1>0, <1>1, <1>n, <1>2, PoolConstants DEF Describes, DeleteNodeId, n
<1>8. ASSUME NEW i \in Ip
      PROVE  q.count_conn_by_ip[i] = Cardinality({x \in q.by_fileno : IpOf[cs[x].endpoint] = i})
  <2> DEFINE old == {x \in p.by_fileno : IpOf[cs[x].endpoint] = i}
             new == {x \in q.by_fileno : IpOf[cs[x].endpoint] = i}
  <2>1. p.count_conn_by_ip[i] = Cardinality(old) /\ IsFiniteSet(old)
      BY <1>0, FS_Subset DEF Describes
  <2>2. CASE i = IpOf[e]
    <3>1. new = old \ {c} /\ c \in old
        BY <1>1, <2>2 DEF e
    <3>2. Cardinality(new) = Cardinality(old) - 1
      <4> HIDE DEF old, new
      <4> QED
          BY <2>1, <3>1, FS_RemoveElement
    <3> QED
        BY <1>k, <1>2, <2>1, <2>2, <3>2
  <2>3. CASE i # IpOf[e]
    <3>1. new = old
        BY <1>1, <2>3 DEF e
    <3> QED
        BY <1>k, <1>2, <2>1, <2>3, <3>1
  <2> QED
      BY <2>2, <2>3
<1>9. Describes(q, cs) /\ IsFiniteSet(q.by_fileno)
    BY SMTT(60), <1>0, <1>1, <1>4, <1>5, <1>6, <1>7, <1>8, FS_RemoveElement DEF Describes
<1> QED
    BY <1>0, <1>1, <1>3, <1>9 DEF GoodPool, q, e, t, n

\* index_conn_node_id keeps them in agreement for a pooled connection.
LEMMA IndexDescribes ==
    ASSUME NEW p, NEW cs, GoodPool(p, cs), NEW c \in p.by_fileno, NEW n \in NodeId,
           cs[c].peer_id = n
    PROVE  GoodPool(IndexConnNodeId(p, n, c), cs) /\ IndexConnNodeId(p, n, c).by_fileno = p.by_fileno
<1> DEFINE q == IndexConnNodeId(p, n, c)
<1>0. p \in Pool /\ c \in Conn
    BY DEF GoodPool, Pool
<1>1. /\ q \in Pool /\ q.by_fileno = p.by_fileno /\ q.by_ipport = p.by_ipport
      /\ q.by_connection_type = p.by_connection_type
      /\ q.by_node_id = [p.by_node_id EXCEPT ![n] = c]
      /\ q.count_conn_by_ip = p.count_conn_by_ip
  <2> DEFINE D == [p.by_node_id EXCEPT ![n] = c]
  <2>1. q = [p EXCEPT !.by_node_id = D] /\ D \in [NodeId -> Conn \cup {NoConn}]
      BY <1>0 DEF IndexConnNodeId, Pool
  <2> HIDE DEF D, q
  <2>2. /\ q \in Pool /\ q.by_fileno = p.by_fileno /\ q.by_ipport = p.by_ipport
        /\ q.by_connection_type = p.by_connection_type
        /\ q.by_node_id = D /\ q.count_conn_by_ip = p.count_conn_by_ip
      BY <1>0, <2>1 DEF Pool
  <2> QED
      BY <2>2 DEF D
<1> HIDE DEF q
<1>2. \A m \in NodeId : q.by_node_id[m] # NoConn =>
          q.by_node_id[m] \in q.by_fileno /\ cs[q.by_node_id[m]].peer_id = m
    BY SMTT(60), <1>0, <1>1 DEF GoodPool, Describes, Pool
<1> QED
    BY SMTT(60), <1>1, <1>2 DEF GoodPool, Describes, q

\* A new pool describes no connection.
LEMMA EmptyPoolFacts ==
    /\ IsFiniteSet({}) /\ Cardinality({}) = 0
    /\ EmptyPool \in Pool
BY SMTT(60), FS_EmptySet DEF EmptyPool, Pool

-----------------------------------------------------------------------------
(* Connection objects                                                      *)

\* What holds of every connection object by itself.
Proper(conn) ==
    /\ conn \in Connection
    /\ conn.from_me \/ conn.should_retry => conn.endpoint \in Outbound
    /\ conn.pong => conn.alive

\* new is a later state of the object old: what is closed stays closed, as its
\* first mark_for_close decided, and what is established stays so.
Becomes(old, new) ==
    /\ new.endpoint = old.endpoint /\ new.type = old.type /\ new.disposed = old.disposed
    /\ \/ new.peer_id = old.peer_id
       \/ old.peer_id = NoId /\ new.peer_id = PeerOf[old.endpoint]
    /\ new.from_me = old.from_me
    /\ new.alive => old.alive
    /\ old.alive \/ new.should_retry = old.should_retry
    /\ old.established /\ new.alive => new.established

\* It is proper, and its pings are what they were.
Kept(old, new) == Proper(new) /\ Becomes(old, new) /\ new.ping = old.ping

\* A new connection is proper, alive and not disposed of.
LEMMA NewConnectionFacts ==
    ASSUME NEW e \in Endpoint, NEW from_me \in BOOLEAN, from_me => e \in Outbound
    PROVE  LET conn == NewConnection(e, from_me)
           IN  /\ Proper(conn)
               /\ conn.endpoint = e /\ conn.type = BuildType[e] /\ conn.peer_id = NoId
               /\ ~conn.disposed /\ ~conn.ping
               /\ conn.from_me = from_me /\ conn.alive /\ ~conn.established
BY NodeConstants DEF NewConnection, Proper, Connection

\* The object of no connection.
LEMMA GoneFacts ==
    /\ Proper(Gone) /\ Gone \in Connection
    /\ Gone.disposed /\ ~Gone.ping /\ ~Gone.pong /\ ~Gone.from_me /\ ~Gone.should_retry
<1> DEFINE e == CHOOSE x \in Endpoint : TRUE
<1>1. e \in Endpoint
    BY NodeConstants
<1>2. BuildType[e] \in ConnectionType
    BY <1>1, NodeConstants
<1> HIDE DEF e
<1>3. Gone = [endpoint |-> e, from_me |-> FALSE, alive |-> FALSE,
              should_retry |-> FALSE, type |-> BuildType[e], peer_id |-> NoId,
              hello_recvd |-> FALSE, hello_ackd |-> FALSE, established |-> FALSE,
              num_bad_messages |-> 0, ping |-> FALSE, pong |-> FALSE,
              timeout |-> FALSE, closing |-> FALSE, disposed |-> TRUE]
  <2>1. Gone = [NewConnection(e, FALSE) EXCEPT !.alive = FALSE, !.timeout = FALSE, !.disposed = TRUE]
      BY DEF Gone, e
  <2> QED
      BY <2>1 DEF NewConnection
<1> QED
    BY <1>1, <1>2, <1>3 DEF Proper, Connection

\* mark_for_close keeps what identifies the connection.
LEMMA MarkForCloseFacts ==
    ASSUME NEW conn, Proper(conn), NEW retry \in BOOLEAN, retry => conn.from_me
    PROVE  Kept(conn, MarkForClose(conn, retry))
<1> DEFINE new == MarkForClose(conn, retry)
<1>1. new \in Connection
  <2> DEFINE again == IF conn.alive THEN retry ELSE conn.should_retry
  <2>1. again \in BOOLEAN
      BY DEF Proper, Connection
  <2>2. new = [conn EXCEPT !.alive = FALSE, !.should_retry = again, !.pong = FALSE]
      BY DEF MarkForClose
  <2> HIDE DEF again, new
  <2> QED
      BY <2>1, <2>2 DEF Proper, Connection
<1>2. /\ new.endpoint = conn.endpoint /\ new.type = conn.type /\ new.disposed = conn.disposed
      /\ new.peer_id = conn.peer_id /\ new.ping = conn.ping /\ new.from_me = conn.from_me
      /\ new.should_retry \in {retry, conn.should_retry} /\ ~new.pong /\ ~new.alive
      /\ conn.alive \/ new.should_retry = conn.should_retry
    BY DEF MarkForClose, Proper, Connection
<1> HIDE DEF new
<1>3. Kept(conn, new)
    BY <1>1, <1>2 DEF Kept, Proper, Becomes
<1> QED
    BY <1>3 DEF new

\* So does mark_for_close without an argument.
LEMMA CloseByDefaultFacts ==
    ASSUME NEW conn, Proper(conn)
    PROVE  Kept(conn, CloseByDefault(conn))
<1>1. conn.from_me \in BOOLEAN
    BY DEF Proper, Connection
<1> QED
    BY <1>1, MarkForCloseFacts DEF CloseByDefault

\* What is left of a connection that was disposed of.
LEMMA DisposeFacts ==
    ASSUME NEW conn, Proper(conn)
    PROVE  LET new == Dispose(conn) IN Proper(new) /\ new.disposed /\ ~new.ping
<1> DEFINE late == [Gone EXCEPT !.endpoint = conn.endpoint, !.timeout = TRUE,
                                !.established = conn.established]
<1>1. late \in Connection
    BY GoneFacts DEF Proper, Connection
<1>2. late.disposed /\ ~late.ping /\ ~late.pong /\ ~late.from_me /\ ~late.should_retry
    BY GoneFacts DEF Connection
<1> HIDE DEF late
<1>3. Proper(late)
    BY <1>1, <1>2 DEF Proper
<1> QED
    BY <1>2, <1>3, GoneFacts DEF Dispose, late

\* Steps that change connection objects only keep what is about them.
LEMMA ConnsStep ==
    ASSUME IInv, pool' = pool, conns' \in [Conn -> Connection],
           \A c \in Conn : /\ Proper(conns'[c])
                           /\ conns'[c].disposed = conns[c].disposed
                           /\ Pooled(c) => Becomes(conns[c], conns'[c])
                           /\ conns'[c].ping => conns[c].ping \/ Pooled(c)
    PROVE  /\ PoolAgrees' /\ AlarmsOwned' /\ IsFiniteSet(pool'.by_fileno)
           /\ \A c \in Conn : conns'[c].from_me \/ conns'[c].should_retry =>
                                  conns'[c].endpoint \in Outbound
<1>1. pool.by_fileno \subseteq Conn
    BY DEF IInv, TypeOK, Pool
<1>2. \A c \in pool.by_fileno : Becomes(conns[c], conns'[c])
    BY <1>1 DEF Pooled
<1>3. PoolAgrees'
  <2>1. \A c \in pool.by_fileno : pool.by_ipport[conns'[c].endpoint] = c /\ ~conns'[c].disposed
      BY SMTT(60), <1>2 DEF IInv, PoolAgrees, Becomes
  <2>2. \A e \in Endpoint : pool.by_ipport[e] # NoConn =>
            /\ pool.by_ipport[e] \in pool.by_fileno
            /\ conns'[pool.by_ipport[e]].endpoint = e
      BY SMTT(60), <1>2 DEF IInv, PoolAgrees, Becomes
  <2>3. \A t \in ConnectionType :
            pool.by_connection_type[t] = {c \in pool.by_fileno : conns'[c].type = t}
      BY SMTT(60), <1>2 DEF IInv, PoolAgrees, Becomes
  <2>4. \A n \in NodeId : pool.by_node_id[n] # NoConn =>
            /\ pool.by_node_id[n] \in pool.by_fileno
            /\ conns'[pool.by_node_id[n]].peer_id = n
      BY SMTT(60), <1>2, PoolConstants DEF IInv, PoolAgrees, Becomes
  <2>5. ASSUME NEW i \in Ip
        PROVE  pool.count_conn_by_ip[i] =
                 Cardinality({c \in pool.by_fileno : IpOf[conns'[c].endpoint] = i})
    <3>1. {c \in pool.by_fileno : IpOf[conns'[c].endpoint] = i}
            = {c \in pool.by_fileno : IpOf[conns[c].endpoint] = i}
        BY <1>2 DEF Becomes
    <3> QED
        BY SMTT(60), <3>1 DEF IInv, PoolAgrees
  <2> QED
      BY SMTT(60), <2>1, <2>2, <2>3, <2>4, <2>5 DEF PoolAgrees
<1>4. AlarmsOwned'
    BY DEF IInv, AlarmsOwned, Pooled, Proper
<1>5. \A c \in Conn : conns'[c].from_me \/ conns'[c].should_retry => conns'[c].endpoint \in Outbound
    BY DEF Proper
<1> QED
    BY <1>3, <1>4, <1>5 DEF IInv

\* Every object of an invariant state is proper.
LEMMA AllProper ==
    ASSUME IInv, NEW c \in Conn PROVE Proper(conns[c])
BY DEF IInv, TypeOK, OnlyOutbound, AlarmsOwned, Proper

-----------------------------------------------------------------------------
(* Messages and the alarms of a connection                                 *)

\* new may follow conns[c], for a step that leaves the pool alone.
Follows(c, new) ==
    /\ Proper(new)
    /\ new.disposed = conns[c].disposed
    /\ Pooled(c) => Becomes(conns[c], new)
    /\ new.ping => conns[c].ping \/ Pooled(c)

\* The pool holds what it held, and its connections move on.
Advanced == pool' = pool /\ \A c \in pool.by_fileno : Becomes(conns[c], conns'[c])

\* Steps that leave the pool and the connections alone advance.
LEMMA SameAdvances ==
    ASSUME UNCHANGED <<pool, conns>> PROVE Advanced
BY DEF Advanced, Becomes

\* Connections that follow advance.
LEMMA FollowsAdvance ==
    ASSUME IInv, pool' = pool, \A c \in Conn : Follows(c, conns'[c])
    PROVE  Advanced
<1>1. pool.by_fileno \subseteq Conn
    BY DEF IInv, TypeOK, Pool
<1> QED
    BY <1>1 DEF Follows, Pooled, Advanced

\* A step of connections alone keeps the invariant.
LEMMA ConnsOnly ==
    ASSUME IInv, NodeUnchanged, num_retries_by_ip' \in [Endpoint -> Nat],
           conns' \in [Conn -> Connection],
           \A c \in Conn : Follows(c, conns'[c])
    PROVE  IInv' /\ Advanced
<1>1. pool' = pool
    BY DEF NodeUnchanged
<1>2. /\ PoolAgrees' /\ AlarmsOwned' /\ IsFiniteSet(pool'.by_fileno)
      /\ \A c \in Conn : conns'[c].from_me \/ conns'[c].should_retry =>
                              conns'[c].endpoint \in Outbound
    BY <1>1, ConnsStep DEF Follows
<1>3. TypeOK' /\ MarksAreLive' /\ OnlyOutbound'
    BY <1>2 DEF IInv, TypeOK, MarksAreLive, OnlyOutbound, NodeUnchanged
<1> QED
    BY <1>1, <1>2, <1>3, FollowsAdvance DEF IInv

\* The same for a step of one connection.
LEMMA OneConnOnly ==
    ASSUME IInv, NodeUnchanged, num_retries_by_ip' \in [Endpoint -> Nat],
           NEW c \in Conn, NEW new, Follows(c, new), conns' = [conns EXCEPT ![c] = new]
    PROVE  IInv' /\ Advanced
<1>1. \A x \in Conn : Follows(x, conns[x])
    BY AllProper DEF Follows, Becomes
<1>2. conns' \in [Conn -> Connection] /\ \A x \in Conn : conns'[x] = IF x = c THEN new ELSE conns[x]
    BY DEF IInv, TypeOK, Follows, Proper
<1>3. \A x \in Conn : Follows(x, conns'[x])
    BY <1>1, <1>2
<1> QED
    BY SMTT(60), <1>2, <1>3, ConnsOnly

\* What a good message, the handshake and the alarms change in a connection.
LEMMA FieldFacts ==
    ASSUME NEW conn, Proper(conn)
    PROVE  /\ \A n \in Nat : Kept(conn, [conn EXCEPT !.num_bad_messages = n])
           /\ Kept(conn, [conn EXCEPT !.pong = FALSE])
           /\ conn.alive => Kept(conn, [conn EXCEPT !.pong = TRUE])
           /\ Proper([conn EXCEPT !.ping = TRUE]) /\ Becomes(conn, [conn EXCEPT !.ping = TRUE])
           /\ Proper([conn EXCEPT !.ping = FALSE]) /\ Becomes(conn, [conn EXCEPT !.ping = FALSE])
              /\ ~[conn EXCEPT !.ping = FALSE].ping
           /\ Kept(conn, [conn EXCEPT !.timeout = FALSE])
           /\ Kept(conn, [conn EXCEPT !.hello_ackd = TRUE])
           /\ Kept(conn, [conn EXCEPT !.hello_recvd = TRUE])
           /\ \A b \in BOOLEAN : (conn.established => b) => Kept(conn, [conn EXCEPT !.established = b])
           /\ \A b \in BOOLEAN : Kept(conn, [conn EXCEPT !.closing = b])
           /\ conn.peer_id = NoId => Kept(conn, [conn EXCEPT !.peer_id = PeerOf[conn.endpoint]])
<1> USE DEF Kept, Proper, Becomes, Connection
<1>1. \A n \in Nat : Kept(conn, [conn EXCEPT !.num_bad_messages = n])
    OBVIOUS
<1>2. Kept(conn, [conn EXCEPT !.pong = FALSE])
    OBVIOUS
<1>3. conn.alive => Kept(conn, [conn EXCEPT !.pong = TRUE])
    OBVIOUS
<1>4. Proper([conn EXCEPT !.ping = TRUE]) /\ Becomes(conn, [conn EXCEPT !.ping = TRUE])
    OBVIOUS
<1>5. Proper([conn EXCEPT !.ping = FALSE]) /\ Becomes(conn, [conn EXCEPT !.ping = FALSE])
      /\ ~[conn EXCEPT !.ping = FALSE].ping
    OBVIOUS
<1>6. Kept(conn, [conn EXCEPT !.timeout = FALSE])
    OBVIOUS
<1>7. Kept(conn, [conn EXCEPT !.hello_ackd = TRUE])
    OBVIOUS
<1>8. Kept(conn, [conn EXCEPT !.hello_recvd = TRUE])
    OBVIOUS
<1>9. \A b \in BOOLEAN : (conn.established => b) => Kept(conn, [conn EXCEPT !.established = b])
    BY SMTT(60)
<1>10. \A b \in BOOLEAN : Kept(conn, [conn EXCEPT !.closing = b])
    BY SMTT(60)
<1>11. conn.peer_id = NoId => Kept(conn, [conn EXCEPT !.peer_id = PeerOf[conn.endpoint]])
  <2>1. PeerOf[conn.endpoint] \in NodeId
      BY NodeConstants
  <2> QED
      BY SMTT(60), <2>1
<1> QED
    BY SMTT(60), <1>1, <1>2, <1>3, <1>4, <1>5, <1>6, <1>7, <1>8, <1>9, <1>10, <1>11

\* set_state and the reset of the retries.
LEMMA EstablishedFacts ==
    ASSUME NEW conn, Proper(conn)
    PROVE  Kept(conn, SetEstablished(conn))
<1>1. (conn.established \/ Establishes(conn)) \in BOOLEAN
      /\ (conn.established => (conn.established \/ Establishes(conn)))
    OBVIOUS
<1> QED
    BY <1>1, FieldFacts DEF SetEstablished

\* Changes of a connection add up ...
LEMMA KeptTwice ==
    ASSUME NEW a, NEW b, NEW c, Kept(a, b), Kept(b, c) PROVE Kept(a, c)
BY DEF Kept, Becomes

\* ... to one that may follow.
LEMMA KeptFollows ==
    ASSUME NEW c \in Conn, NEW new, Kept(conns[c], new) PROVE Follows(c, new)
BY DEF Kept, Follows, Becomes

\* The retries of an endpoint are counted or start anew.
LEMMA RetriesFacts ==
    ASSUME IInv
    PROVE  /\ num_retries_by_ip \in [Endpoint -> Nat]
           /\ \A e : [num_retries_by_ip EXCEPT ![e] = 0] \in [Endpoint -> Nat]
           /\ \A conn : OnConnectionEstablished(conn) => num_retries_by_ip' \in [Endpoint -> Nat]
<1>1. num_retries_by_ip \in [Endpoint -> Nat]
    BY DEF IInv, TypeOK
<1>2. ASSUME NEW e PROVE [num_retries_by_ip EXCEPT ![e] = 0] \in [Endpoint -> Nat]
    BY <1>1
<1>3. ASSUME NEW conn, OnConnectionEstablished(conn) PROVE num_retries_by_ip' \in [Endpoint -> Nat]
    BY <1>1, <1>2, <1>3 DEF OnConnectionEstablished
<1> QED
    BY <1>1, <1>2, <1>3

\* A connection that gets a message, loses its pong or is timed out.
LEMMA OneConnSteps ==
    ASSUME IInv, NEW c \in Conn,
           \/ MsgAck(c) \/ MsgPong(c) \/ MsgOther(c) \/ MsgBad(c) \/ MsgUnrecoverable(c)
           \/ ConnectionTimeout(c) \/ SendPing(c) \/ PongMsgTimeout(c)
    PROVE  IInv' /\ Advanced
<1> DEFINE conn == conns[c]
           good == [conn EXCEPT !.num_bad_messages = 0]
<1>0. Proper(conn) /\ conns \in [Conn -> Connection] /\ conn \in Connection
    BY AllProper DEF IInv, TypeOK
<1>1. Kept(conn, good) /\ Proper(good)
    BY <1>0, FieldFacts DEF Kept
<1>2. GoodMessage(conns, c) = [conns EXCEPT ![c] = good]
    BY <1>0 DEF GoodMessage
<1>3. Kept(conn, CloseByDefault(conn))
    BY <1>0, CloseByDefaultFacts
<1>4. CASE MsgAck(c)
  <2> DEFINE acked == [good EXCEPT !.hello_ackd = TRUE]
  <2>0. Kept(good, acked) /\ Proper(acked)
      BY <1>1, FieldFacts DEF Kept
  <2>1. Kept(conn, acked) /\ Proper(acked)
      BY <1>1, <2>0, KeptTwice
  <2>2. Kept(conn, SetEstablished(acked))
      BY SMTT(60), <2>1, EstablishedFacts, KeptTwice
  <2>3. conns' = [conns EXCEPT ![c] = SetEstablished(acked)]
      BY <1>0, <1>2, <1>4 DEF MsgAck
  <2>4. NodeUnchanged /\ num_retries_by_ip' \in [Endpoint -> Nat]
      BY <1>4, RetriesFacts DEF MsgAck
  <2> QED
      BY <2>2, <2>3, <2>4, KeptFollows, OneConnOnly
<1>5. CASE MsgPong(c)
  <2>1. Kept(conn, [good EXCEPT !.pong = FALSE])
      BY <1>1, FieldFacts, KeptTwice
  <2>2. conns' = [conns EXCEPT ![c] = [good EXCEPT !.pong = FALSE]]
      BY <1>0, <1>2, <1>5 DEF MsgPong
  <2> QED
      BY <1>5, <2>1, <2>2, RetriesFacts, KeptFollows, OneConnOnly DEF MsgPong
<1>6. CASE MsgOther(c)
    BY <1>1, <1>2, <1>3, <1>6, RetriesFacts, KeptFollows, OneConnOnly DEF MsgOther
<1>7. CASE MsgBad(c)
  <2>1. Kept(conn, ReportBadMessage(conn))
    <3>1. conn.num_bad_messages + 1 \in Nat
        BY SMTT(60), <1>0 DEF Connection
    <3> QED
        BY <1>0, <1>3, <3>1, FieldFacts DEF ReportBadMessage
  <2> QED
      BY <1>7, <2>1, RetriesFacts, KeptFollows, OneConnOnly DEF MsgBad
<1>8. CASE MsgUnrecoverable(c)
    BY <1>3, <1>8, RetriesFacts, KeptFollows, OneConnOnly DEF MsgUnrecoverable
<1>9. CASE ConnectionTimeout(c)
  <2> DEFINE new == IF conn.disposed THEN Gone
                    ELSE IF conn.established \/ ~conn.alive
                         THEN [conn EXCEPT !.timeout = FALSE]
                         ELSE [CloseByDefault(conn) EXCEPT !.timeout = FALSE]
  <2>1. conns' = [conns EXCEPT ![c] = new] /\ NodeUnchanged
      BY <1>9 DEF ConnectionTimeout
  <2>2. num_retries_by_ip' \in [Endpoint -> Nat]
      BY <1>9, RetriesFacts DEF ConnectionTimeout
  <2>3. CASE conn.disposed
    <3>1. ~Pooled(c) /\ conn.disposed = TRUE /\ Gone.disposed = TRUE
        BY <1>0, <2>3, GoneFacts DEF IInv, AlarmsOwned, Connection
    <3>2. Follows(c, Gone)
        BY <3>1, GoneFacts DEF Follows
    <3> QED
        BY <2>1, <2>2, <2>3, <3>2, OneConnOnly
  <2>4. CASE ~conn.disposed
    <3>1. Kept(conn, [conn EXCEPT !.timeout = FALSE])
        BY <1>0, FieldFacts
    <3>2. Kept(conn, [CloseByDefault(conn) EXCEPT !.timeout = FALSE])
        BY <1>3, FieldFacts, KeptTwice DEF Kept
    <3>3. Kept(conn, new)
        BY <2>4, <3>1, <3>2
    <3> QED
        BY <2>1, <2>2, <3>3, KeptFollows, OneConnOnly
  <2> QED
      BY <2>3, <2>4
<1>10. CASE SendPing(c)
  <2>1. CASE conn.alive
    <3>1. conns' = [conns EXCEPT ![c] = [conn EXCEPT !.pong = TRUE]] /\ NodeUnchanged
        BY SMTT(60), <1>10, <2>1 DEF SendPing
    <3> QED
        BY <1>0, <1>10, <2>1, <3>1, FieldFacts, RetriesFacts, KeptFollows, OneConnOnly DEF SendPing
  <2>2. CASE ~conn.alive
    <3>1. conns' = [conns EXCEPT ![c] = [conn EXCEPT !.ping = FALSE]] /\ NodeUnchanged
        BY <1>10, <2>2 DEF SendPing
    <3>2. Follows(c, [conn EXCEPT !.ping = FALSE])
        BY <1>0, FieldFacts DEF Follows, Becomes
    <3> QED
        BY <1>10, <3>1, <3>2, RetriesFacts, OneConnOnly DEF SendPing
  <2> QED
      BY <2>1, <2>2
<1>11. CASE PongMsgTimeout(c)
  <2>1. CASE conn.alive
      BY <1>3, <1>11, <2>1, RetriesFacts, KeptFollows, OneConnOnly DEF PongMsgTimeout
  <2>2. CASE ~conn.alive
    <3>1. conns' = [conns EXCEPT ![c] = [conn EXCEPT !.pong = FALSE]] /\ NodeUnchanged
        BY <1>11, <2>2 DEF PongMsgTimeout
    <3> QED
        BY <1>0, <1>11, <3>1, FieldFacts, RetriesFacts, KeptFollows, OneConnOnly DEF PongMsgTimeout
  <2> QED
      BY <2>1, <2>2
<1> QED
    BY <1>4, <1>5, <1>6, <1>7, <1>8, <1>9, <1>10, <1>11

\* msg_hello: the node id, duplicates, the network and the pings.
LEMMA MsgHelloKeeps ==
    ASSUME IInv, NEW c \in Conn, NEW same_network \in BOOLEAN, MsgHello(c, same_network)
    PROVE  IInv' /\ Advanced
<1> DEFINE conn == conns[c]
           good == [conn EXCEPT !.num_bad_messages = 0]
           recvd == [good EXCEPT !.hello_recvd = TRUE]
           known == [recvd EXCEPT !.peer_id = IF recvd.peer_id = NoId THEN PeerOf[conn.endpoint] ELSE @]
           helloed == [conns EXCEPT ![c] = known]
           closed == CloseDuplicates(helloed, c)
<1>0. Proper(conn) /\ conns \in [Conn -> Connection] /\ conn \in Connection /\ Pooled(c)
    BY AllProper DEF IInv, TypeOK, MsgHello, CanReceive
<1>1. Kept(conn, good) /\ Proper(good)
    BY <1>0, FieldFacts DEF Kept
<1>2. Kept(conn, recvd) /\ Proper(recvd)
  <2> HIDE DEF good
  <2>1. Kept(good, recvd)
      BY <1>1, FieldFacts
  <2> QED
      BY <1>1, <2>1, KeptTwice DEF Kept
<1>3. Kept(conn, known) /\ Proper(known)
  <2>0. PeerOf[conn.endpoint] \in NodeId
      BY <1>0, NodeConstants DEF Connection
  <2> HIDE DEF recvd
  <2>1. CASE recvd.peer_id = NoId
    <3>1. known = [recvd EXCEPT !.peer_id = PeerOf[conn.endpoint]]
        BY <2>1
    <3>2. Kept(recvd, known)
      <4>1. recvd.endpoint = conn.endpoint
          BY <1>2 DEF Kept, Becomes
      <4> QED
          BY <1>2, <2>1, <3>1, <4>1, FieldFacts
    <3> HIDE DEF known
    <3> QED
        BY <1>2, <3>2, KeptTwice DEF Kept
  <2>2. CASE recvd.peer_id # NoId
    <3>1. known = recvd
        BY <1>2, <2>2 DEF Proper, Connection
    <3> QED
        BY <1>2, <3>1
  <2> QED
      BY <2>1, <2>2
<1>4. helloed = [GoodMessage(conns, c) EXCEPT
                    ![c].hello_recvd = TRUE,
                    ![c].peer_id = IF @ = NoId THEN PeerOf[conns[c].endpoint] ELSE @]
    BY <1>0 DEF GoodMessage
<1> HIDE DEF known, closed
<1>5. \A x \in Conn : Proper(helloed[x]) /\ Kept(conns[x], helloed[x])
    BY <1>0, <1>3, AllProper DEF Kept, Becomes
<1> HIDE DEF helloed
<1>6. \A x \in Conn : Kept(conns[x], closed[x]) /\ Proper(closed[x])
  <2> SUFFICES ASSUME NEW x \in Conn PROVE Kept(conns[x], closed[x])
      BY DEF Kept
  <2>1. Kept(conns[x], helloed[x]) /\ Proper(helloed[x])
      BY <1>5
  <2>2. Kept(conns[x], CloseByDefault(helloed[x]))
      BY SMTT(60), <2>1, CloseByDefaultFacts, KeptTwice
  <2> QED
      BY <2>1, <2>2 DEF closed, CloseDuplicates
<1>7. DOMAIN closed = Conn
    BY <1>0 DEF closed, CloseDuplicates, helloed
<1>8. /\ NodeUnchanged /\ OnConnectionEstablished(closed[c])
      /\ conns' = [closed EXCEPT ![c] = CompareNetwork(SetEstablished(closed[c]), same_network)]
    BY <1>4 DEF MsgHello, closed
<1> DEFINE up == SetEstablished(closed[c])
           new == CompareNetwork(up, same_network)
<1>9. Kept(conns[c], up) /\ Proper(up)
    BY <1>6, EstablishedFacts, KeptTwice DEF Kept
<1>10. Follows(c, new)
  <2> HIDE DEF up
  <2>1. Follows(c, up)
      BY <1>9, KeptFollows
  <2>2. Follows(c, CloseByDefault(up))
      BY <1>9, CloseByDefaultFacts, KeptTwice, KeptFollows
  <2>3. Follows(c, [up EXCEPT !.ping = TRUE])
    <3>1. Proper([up EXCEPT !.ping = TRUE]) /\ Becomes(up, [up EXCEPT !.ping = TRUE])
        BY <1>9, FieldFacts
    <3> QED
        BY <1>0, <1>9, <3>1 DEF Follows, Becomes, Kept
  <2> QED
      BY <2>1, <2>2, <2>3 DEF CompareNetwork
<1> HIDE DEF new, up
<1>11. \A x \in Conn : conns'[x] = IF x = c THEN new ELSE closed[x]
    BY <1>7, <1>8 DEF new, up
<1>12. \A x \in Conn : Follows(x, conns'[x])
    BY <1>6, <1>10, <1>11, KeptFollows
<1>13. conns' = [x \in Conn |-> conns'[x]]
    BY <1>7, <1>8
<1>14. conns' \in [Conn -> Connection]
    BY <1>12, <1>13 DEF Follows, Proper
<1> QED
    BY <1>8, <1>12, <1>14, RetriesFacts, ConnsOnly

-----------------------------------------------------------------------------
(* The requests, the tasks and the retries                                 *)

\* on_updated_peers closes the connections of removed peers.
LEMMA OnUpdatedPeersKeeps ==
    ASSUME IInv, NEW models \in SUBSET Outbound, OnUpdatedPeers(models)
    PROVE  IInv' /\ Advanced
<1>1. \A c \in Conn : conns'[c] = conns[c] \/ conns'[c] = MarkForClose(conns[c], FALSE)
    BY DEF OnUpdatedPeers
<1>2. \A c \in Conn : Follows(c, conns'[c])
  <2> TAKE c \in Conn
  <2>1. Proper(conns[c])
      BY AllProper
  <2>2. Kept(conns[c], MarkForClose(conns[c], FALSE)) /\ Kept(conns[c], conns[c])
      BY <2>1, MarkForCloseFacts DEF Kept, Becomes
  <2> QED
      BY <1>1, <2>2, KeptFollows
<1>3. conns' \in [Conn -> Connection]
  <2>1. conns' = [c \in Conn |-> conns'[c]]
      BY DEF OnUpdatedPeers
  <2> QED
      BY <1>2, <2>1 DEF Follows, Proper
<1>4. /\ UNCHANGED <<pool, pending_connection_attempts, attempt, retry_alarms, num_retries_by_ip, network>>
      /\ outbound_peers' \subseteq Outbound /\ dropped' \subseteq Outbound
      /\ pending_connection_requests' \subseteq Outbound
    BY DEF OnUpdatedPeers, EnqueueConnections, IInv, TypeOK
<1>5. /\ PoolAgrees' /\ AlarmsOwned' /\ IsFiniteSet(pool'.by_fileno)
      /\ \A c \in Conn : conns'[c].from_me \/ conns'[c].should_retry =>
                              conns'[c].endpoint \in Outbound
    BY <1>2, <1>3, <1>4, ConnsStep DEF Follows
<1>6. TypeOK' /\ MarksAreLive' /\ OnlyOutbound'
    BY <1>3, <1>4, <1>5 DEF IInv, TypeOK, MarksAreLive, OnlyOutbound
<1>7. Advanced
    BY <1>2, <1>4, FollowsAdvance
<1> QED
    BY <1>5, <1>6, <1>7 DEF IInv

\* The retry or the end that handle_connection_closed decides on.
LEMMA HandleConnectionClosedFacts ==
    ASSUME IInv, NEW e \in Endpoint, NEW should_retry \in BOOLEAN, should_retry => e \in Outbound,
           HandleConnectionClosed(e, should_retry)
    PROVE  /\ pending_connection_attempts' = pending_connection_attempts \ {e}
           /\ retry_alarms' \in [Endpoint -> Nat] /\ dropped' \subseteq Outbound
           /\ \A x \in Endpoint : retry_alarms'[x] > 0 => retry_alarms[x] > 0 \/ x \in Outbound
<1>1. retry_alarms \in [Endpoint -> Nat] /\ dropped \subseteq Outbound
    BY DEF IInv, TypeOK
<1>2. CASE should_retry /\ retry_alarms' = [retry_alarms EXCEPT ![e] = @ + 1] /\ UNCHANGED dropped
    BY SMTT(60), <1>1, <1>2 DEF HandleConnectionClosed
<1>3. CASE dropped' = dropped \cup ({e} \cap Outbound) /\ UNCHANGED retry_alarms
    BY <1>1, <1>3 DEF HandleConnectionClosed
<1> QED
    BY <1>2, <1>3 DEF HandleConnectionClosed

\* The steps that leave the pool and the connections alone.
LEMMA TaskSteps ==
    ASSUME IInv, UNCHANGED <<pool, conns>>,
           \/ DequeueConnectionRequests
           \/ \E e \in Endpoint : ConnectFails(e) \/ ConnectReturns(e) \/ RetryInitClientSocket(e)
           \/ UNCHANGED vars
    PROVE  IInv'
<1>1. PoolAgrees' /\ AlarmsOwned' /\ IsFiniteSet(pool'.by_fileno)
    BY SMTT(60) DEF IInv, PoolAgrees, AlarmsOwned, Pooled
<1>2. /\ attempt \in [Endpoint -> Task] /\ Idle \in Task /\ Connecting \in Task
      /\ Idle # Connecting /\ Idle # Raised
      /\ retry_alarms \in [Endpoint -> Nat] /\ num_retries_by_ip \in [Endpoint -> Nat]
      /\ pending_connection_requests \subseteq Outbound /\ pending_connection_attempts \subseteq Outbound
      /\ Outbound \subseteq Endpoint
    BY NodeConstants DEF IInv, TypeOK, Task, Idle, Connecting, Raised
<1>3. CASE DequeueConnectionRequests
  <2>1. /\ attempt' \in [Endpoint -> Task]
        /\ \A e \in Endpoint : attempt'[e] # Idle => e \in pending_connection_requests
        /\ \A e \in pending_connection_requests : attempt'[e] = Connecting
        /\ pending_connection_attempts = {}
        /\ pending_connection_attempts' = pending_connection_attempts \cup pending_connection_requests
        /\ pending_connection_requests' = {}
        /\ UNCHANGED <<outbound_peers, retry_alarms, num_retries_by_ip, dropped, network>>
      BY <1>2, <1>3 DEF DequeueConnectionRequests, IInv, MarksAreLive
  <2> QED
      BY <1>1, <1>2, <2>1 DEF IInv, TypeOK, MarksAreLive, OnlyOutbound
<1>4. ASSUME NEW e \in Endpoint, ConnectFails(e) PROVE IInv'
  <2>1. /\ attempt' = [attempt EXCEPT ![e] = Idle] /\ e \in Outbound
        /\ HandleConnectionClosed(e, TRUE)
        /\ UNCHANGED <<outbound_peers, pending_connection_requests, num_retries_by_ip, network>>
      BY <1>2, <1>4 DEF ConnectFails, IInv, OnlyOutbound
  <2>2. /\ attempt' \in [Endpoint -> Task] /\ \A x \in Endpoint : attempt'[x] # Idle => attempt[x] # Idle
        /\ \A x \in Endpoint \ {e} : attempt'[x] = attempt[x]
      BY <1>2, <2>1
  <2>3. /\ pending_connection_attempts' = pending_connection_attempts \ {e}
        /\ retry_alarms' \in [Endpoint -> Nat] /\ dropped' \subseteq Outbound
        /\ \A x \in Endpoint : retry_alarms'[x] > 0 => retry_alarms[x] > 0 \/ x \in Outbound
      BY <2>1, HandleConnectionClosedFacts
  <2>4. TypeOK'
      BY <2>1, <2>2, <2>3 DEF IInv, TypeOK
  <2>5. MarksAreLive' /\ OnlyOutbound'
      BY <1>2, <2>2, <2>3 DEF IInv, MarksAreLive, OnlyOutbound
  <2> QED
      BY <1>1, <2>4, <2>5 DEF IInv
<1>5. ASSUME NEW e \in Endpoint, ConnectReturns(e) PROVE IInv'
  <2>1. /\ attempt' = [attempt EXCEPT ![e] = Idle] /\ e \notin pending_connection_attempts
        /\ UNCHANGED <<outbound_peers, pending_connection_requests, pending_connection_attempts,
                       retry_alarms, num_retries_by_ip, dropped, network>>
      BY <1>5, MadeFacts DEF ConnectReturns, IInv, MarksAreLive
  <2>2. /\ attempt' \in [Endpoint -> Task] /\ \A x \in Endpoint : attempt'[x] # Idle => attempt[x] # Idle
        /\ \A x \in Endpoint \ {e} : attempt'[x] = attempt[x]
      BY <1>2, <2>1
  <2> QED
      BY SMTT(60), <1>1, <1>2, <2>1, <2>2 DEF IInv, TypeOK, MarksAreLive, OnlyOutbound
<1>6. ASSUME NEW e \in Endpoint, RetryInitClientSocket(e) PROVE IInv'
  <2>1. /\ e \in Outbound
        /\ pending_connection_requests' \subseteq Outbound /\ dropped' \subseteq Outbound
        /\ UNCHANGED <<outbound_peers, pending_connection_attempts, attempt, network>>
      BY <1>6 DEF RetryInitClientSocket, EnqueueConnections, IInv, TypeOK, OnlyOutbound
  <2>2. /\ retry_alarms' \in [Endpoint -> Nat]
        /\ \A x \in Endpoint : retry_alarms'[x] > 0 => retry_alarms[x] > 0
      BY SMTT(60), <1>2, <1>6 DEF RetryInitClientSocket
  <2>3. num_retries_by_ip' \in [Endpoint -> Nat]
      BY SMTT(60), <1>2, <1>6 DEF RetryInitClientSocket, Count
  <2> QED
      BY <1>1, <2>1, <2>2, <2>3 DEF IInv, TypeOK, MarksAreLive, OnlyOutbound
<1>7. CASE UNCHANGED vars
    BY <1>1, <1>7 DEF vars, IInv, TypeOK, MarksAreLive, OnlyOutbound
<1> QED
    BY <1>3, <1>4, <1>5, <1>6, <1>7

\* The task that is cancelled just after connection_made.
LEMMA ConnectTimesOutLateKeeps ==
    ASSUME IInv, NEW e \in Endpoint, ConnectTimesOutLate(e)
    PROVE  IInv' /\ Advanced
<1> DEFINE new(c) == [conns[c] EXCEPT !.closing = ~conns[c].disposed]
<1>0. attempt[e] \in Made /\ Idle \in Task /\ conns \in [Conn -> Connection] /\ e \in Outbound
      /\ attempt \in [Endpoint -> Task] /\ attempt[e] # Idle /\ Outbound \subseteq Endpoint
    BY MadeFacts, NodeConstants DEF ConnectTimesOutLate, IInv, TypeOK, Task, OnlyOutbound
<1>1. conns' = [c \in Conn |-> IF c = attempt[e] THEN new(c) ELSE conns[c]]
    BY <1>0 DEF ConnectTimesOutLate
<1>2. ASSUME NEW c \in Conn PROVE Follows(c, new(c))
  <2>1. Proper(conns[c]) /\ (~conns[c].disposed) \in BOOLEAN
      BY <1>0, AllProper
  <2>2. Kept(conns[c], new(c))
      BY <2>1, FieldFacts
  <2> QED
      BY <1>0, <2>2, KeptFollows
<1> HIDE DEF new
<1>3. \A x \in Conn : Follows(x, conns[x])
    BY AllProper DEF Follows, Becomes
<1>4. conns' \in [Conn -> Connection] /\ \A x \in Conn : Follows(x, conns'[x])
  <2>1. \A x \in Conn : Follows(x, conns'[x])
      BY <1>1, <1>2, <1>3
  <2>2. \A x \in Conn : conns'[x] \in Connection
      BY <2>1 DEF Follows, Proper
  <2> QED
      BY <1>1, <2>1, <2>2
<1>5. /\ pool' = pool /\ attempt' = [attempt EXCEPT ![e] = Idle]
      /\ HandleConnectionClosed(e, TRUE) /\ e \notin pending_connection_attempts
      /\ UNCHANGED <<outbound_peers, pending_connection_requests, num_retries_by_ip, network>>
    BY <1>0, MadeFacts DEF ConnectTimesOutLate, IInv, MarksAreLive
<1>6. /\ PoolAgrees' /\ AlarmsOwned' /\ IsFiniteSet(pool'.by_fileno)
      /\ \A x \in Conn : conns'[x].from_me \/ conns'[x].should_retry =>
                              conns'[x].endpoint \in Outbound
    BY <1>4, <1>5, ConnsStep DEF Follows
<1>7. /\ pending_connection_attempts' = pending_connection_attempts \ {e}
      /\ retry_alarms' \in [Endpoint -> Nat] /\ dropped' \subseteq Outbound
      /\ \A x \in Endpoint : retry_alarms'[x] > 0 => retry_alarms[x] > 0 \/ x \in Outbound
    BY <1>0, <1>5, HandleConnectionClosedFacts
<1>8. /\ attempt' \in [Endpoint -> Task] /\ \A x \in Endpoint : attempt'[x] # Idle => attempt[x] # Idle
      /\ \A x \in Endpoint \ {e} : attempt'[x] = attempt[x]
    BY <1>0, <1>5
<1>9. TypeOK'
    BY <1>4, <1>5, <1>7, <1>8 DEF IInv, TypeOK
<1>10. MarksAreLive' /\ OnlyOutbound'
    BY <1>0, <1>6, <1>7, <1>8 DEF IInv, TypeOK, MarksAreLive, OnlyOutbound
<1>11. Advanced
    BY <1>4, <1>5, FollowsAdvance
<1> QED
    BY <1>6, <1>9, <1>10, <1>11 DEF IInv

-----------------------------------------------------------------------------
(* Connections that are added and lost                                     *)

\* The pool of an invariant state describes its connections.
LEMMA PoolIsGood ==
    ASSUME IInv PROVE GoodPool(pool, conns)
<1>1. pool \in Pool /\ conns \in [Conn -> Connection] /\ pool.by_fileno \subseteq Conn
    BY DEF IInv, TypeOK, Pool
<1>2. \A c \in pool.by_fileno : conns[c].endpoint \in Endpoint
    BY <1>1 DEF Connection
<1> QED
    BY <1>1, <1>2 DEF IInv, PoolAgrees, GoodPool, Describes

\* A good pool and proper connections make the invariant, with what the step
\* leaves of the tasks and alarms.
LEMMA PoolStep ==
    ASSUME GoodPool(pool', conns'), conns' \in [Conn -> Connection],
           \A c \in Conn : /\ Proper(conns'[c])
                           /\ conns'[c].disposed <=> c \notin pool'.by_fileno
                           /\ conns'[c].ping => c \in pool'.by_fileno,
           outbound_peers' \subseteq Outbound, pending_connection_requests' \subseteq Outbound,
           pending_connection_attempts' \subseteq Outbound, attempt' \in [Endpoint -> Task],
           retry_alarms' \in [Endpoint -> Nat], num_retries_by_ip' \in [Endpoint -> Nat],
           dropped' \subseteq Outbound, network' \subseteq Endpoint,
           MarksAreLive',
           \A e \in Endpoint : retry_alarms'[e] > 0 \/ attempt'[e] # Idle => e \in Outbound
    PROVE  IInv'
<1>1. pool' \in Pool /\ pool'.by_fileno \subseteq Conn
    BY DEF GoodPool, Pool
<1>2. TypeOK'
    BY <1>1 DEF TypeOK
<1>3. PoolAgrees'
    BY <1>1 DEF PoolAgrees, GoodPool, Describes
<1>4. AlarmsOwned'
    BY DEF AlarmsOwned, Pooled, Proper
<1>5. OnlyOutbound'
    BY DEF OnlyOutbound, Proper
<1> QED
    BY <1>2, <1>3, <1>4, <1>5 DEF IInv, GoodPool

\* on_connection_authenticated and index_conn_node_id, after add.
LEMMA AuthenticateDescribes ==
    ASSUME NEW p, NEW cs, NEW ds, NEW c \in p.by_fileno, NEW e \in Endpoint, GoodPool(p, cs),
           cs[c].endpoint = e, cs[c].type = BuildType[e], cs[c].peer_id = PeerOf[e],
           ds[c].endpoint = e, ds[c].type = AuthType[PeerOf[e]], ds[c].peer_id = PeerOf[e],
           Alike(p.by_fileno \ {c}, cs, ds)
    PROVE  GoodPool(Authenticate(p, c, e), ds) /\ Authenticate(p, c, e).by_fileno = p.by_fileno
<1> DEFINE n == PeerOf[e]
           t == BuildType[e]
           u == AuthType[n]
<1>1. n \in NodeId /\ t \in ConnectionType /\ u \in ConnectionType
    BY NodeConstants
<1>2. p \in Pool /\ c \in Conn
    BY DEF GoodPool, Pool
<1>3. CASE t # u
  <2> DEFINE q == PoolDelete(p, c, e, t, n)
             r == PoolAdd(q, c, e, u)
  <2>1. GoodPool(q, cs) /\ q.by_fileno = p.by_fileno \ {c} /\ q.by_ipport[e] = NoConn
      BY SMTT(60), <1>1, DeleteDescribes
  <2> HIDE DEF q
  <2>2. GoodPool(r, ds)
      BY <1>1, <1>2, <2>1, AddDescribes
  <2>3. r.by_fileno = p.by_fileno
    <3>1. q \in Pool
        BY <2>1 DEF GoodPool
    <3>2. r.by_fileno = q.by_fileno \cup {c}
        BY SMTT(60), <3>1, PoolAddHolds
    <3> QED
        BY <2>1, <3>2
  <2> HIDE DEF r
  <2>4. GoodPool(IndexConnNodeId(r, n, c), ds) /\ IndexConnNodeId(r, n, c).by_fileno = p.by_fileno
      BY SMTT(60), <1>1, <2>2, <2>3, IndexDescribes
  <2> QED
      BY <1>3, <2>4 DEF Authenticate, UpdateConnectionType, q, r
<1>4. CASE t = u
  <2>1. Alike(p.by_fileno, cs, ds)
      BY <1>4 DEF Alike
  <2>2. GoodPool(p, ds)
    <3>1. \A i \in Ip : {x \in p.by_fileno : IpOf[ds[x].endpoint] = i}
                           = {x \in p.by_fileno : IpOf[cs[x].endpoint] = i}
        BY <2>1 DEF Alike
    <3>2. \A x \in ConnectionType : {y \in p.by_fileno : ds[y].type = x}
                                      = {y \in p.by_fileno : cs[y].type = x}
        BY SMTT(60), <2>1 DEF Alike
    <3> QED
        BY SMTT(60), <2>1, <3>1, <3>2 DEF GoodPool, Describes, Alike
  <2> QED
      BY <1>1, <1>4, <2>2, IndexDescribes DEF Authenticate
<1> QED
    BY <1>3, <1>4

\* A connection that is added enters every index, under the type and node id of
\* its certificate if it has one.
LEMMA AddConnectionFacts ==
    ASSUME IInv, NEW c \in Conn, NEW e \in Endpoint, NEW from_me \in BOOLEAN,
           from_me => e \in Outbound, NEW task, AddConnection(c, e, from_me, task)
    PROVE  /\ GoodPool(pool', conns') /\ pool'.by_fileno = pool.by_fileno \cup {c}
           /\ conns' \in [Conn -> Connection]
           /\ Proper(conns'[c]) /\ ~conns'[c].disposed /\ ~conns'[c].ping
           /\ \A x \in Conn \ {c} : conns'[x] = conns[x]
           /\ conns'[c].endpoint = e /\ conns'[c].from_me = from_me
           /\ conns'[c].alive /\ ~conns'[c].established
<1> DEFINE conn == NewConnection(e, from_me)
           n == PeerOf[e]
           u == AuthType[n]
           t == BuildType[e]
           added == PoolAdd(pool, c, e, t)
           named == [conn EXCEPT !.peer_id = n]
           auth == [conn EXCEPT !.peer_id = n, !.type = u]
<1>1. n \in NodeId /\ t \in ConnectionType /\ u \in ConnectionType
    BY NodeConstants
<1>2. /\ Proper(conn) /\ conn.endpoint = e /\ conn.type = t /\ conn.peer_id = NoId
      /\ ~conn.disposed /\ ~conn.ping
      /\ conn.from_me = from_me /\ conn.alive /\ ~conn.established
    BY SMTT(60), NewConnectionFacts
<1>3. /\ Proper(auth) /\ auth.endpoint = e /\ auth.type = u /\ auth.peer_id = n
      /\ ~auth.disposed /\ ~auth.ping
      /\ auth.from_me = from_me /\ auth.alive /\ ~auth.established
    BY <1>1, NodeConstants DEF NewConnection, Proper, Connection
<1>4. named.endpoint = e /\ named.type = t /\ named.peer_id = n
    BY <1>1 DEF NewConnection
<1>5. /\ conns \in [Conn -> Connection] /\ pool \in Pool /\ pool.by_fileno \subseteq Conn
      /\ GoodPool(pool, conns)
    BY PoolIsGood DEF IInv, TypeOK, Pool
<1>6. c \notin pool.by_fileno
    BY GoneFacts DEF AddConnection, IsFree, IInv, AlarmsOwned, Pooled
<1>7. pool.by_ipport[e] = NoConn
    BY SMTT(60) DEF AddConnection
<1>8. added.by_fileno = pool.by_fileno \cup {c}
    BY SMTT(60), <1>5, PoolAddHolds
<1>9. CASE ~IsSsl[e]
  <2>1. pool' = added /\ conns' = [conns EXCEPT ![c] = conn]
      BY <1>9 DEF AddConnection
  <2> HIDE DEF conn, added
  <2>2. /\ conns' \in [Conn -> Connection] /\ conns'[c] = conn
        /\ \A x \in Conn \ {c} : conns'[x] = conns[x]
      BY SMTT(60), <1>2, <1>5, <2>1 DEF Proper
  <2>3. Alike(pool.by_fileno, conns, conns')
      BY <1>5, <1>6, <2>2 DEF Alike
  <2>4. GoodPool(added, conns')
      BY <1>1, <1>2, <1>5, <1>6, <1>7, <2>2, <2>3, AddDescribes DEF added
  <2> QED
      BY <1>2, <1>8, <2>1, <2>2, <2>4
<1>10. CASE IsSsl[e]
  <2> DEFINE mid == [conns EXCEPT ![c] = named]
  <2>1. pool' = Authenticate(added, c, e) /\ conns' = [conns EXCEPT ![c] = auth]
      BY <1>10 DEF AddConnection
  <2> HIDE DEF conn, added, named, auth
  <2>2. /\ conns' \in [Conn -> Connection] /\ conns'[c] = auth
        /\ \A x \in Conn \ {c} : conns'[x] = conns[x]
      BY <1>3, <1>5, <2>1 DEF Proper
  <2>3. mid[c] = named /\ \A x \in Conn \ {c} : mid[x] = conns[x]
      BY <1>5
  <2> HIDE DEF mid
  <2>4. Alike(pool.by_fileno, conns, mid) /\ Alike(added.by_fileno \ {c}, mid, conns')
      BY <1>5, <1>6, <1>8, <2>2, <2>3 DEF Alike
  <2>5. GoodPool(added, mid)
      BY <1>1, <1>4, <1>5, <1>6, <1>7, <2>3, <2>4, AddDescribes DEF added
  <2>6. GoodPool(pool', conns') /\ pool'.by_fileno = added.by_fileno
    <3>1. c \in added.by_fileno
        BY <1>8
    <3>2. /\ mid[c].endpoint = e /\ mid[c].type = BuildType[e] /\ mid[c].peer_id = PeerOf[e]
          /\ conns'[c].endpoint = e /\ conns'[c].type = AuthType[PeerOf[e]]
          /\ conns'[c].peer_id = PeerOf[e]
        BY <1>3, <1>4, <2>2, <2>3
    <3> DEFINE cs == conns'
    <3>3. /\ GoodPool(Authenticate(added, c, e), cs)
          /\ Authenticate(added, c, e).by_fileno = added.by_fileno
      <4> HIDE DEF cs
      <4>1. Alike(added.by_fileno \ {c}, mid, cs)
          BY <2>4 DEF cs
      <4>2. cs[c].endpoint = e /\ cs[c].type = AuthType[PeerOf[e]] /\ cs[c].peer_id = PeerOf[e]
          BY SMTT(60), <3>2 DEF cs
      <4> QED
          BY SMTT(60), <2>5, <3>1, <3>2, <4>1, <4>2, AuthenticateDescribes
    <3> QED
        BY SMTT(60), <2>1, <3>3
  <2> QED
      BY <1>3, <1>8, <2>2, <2>6
<1> QED
    BY <1>9, <1>10 DEF NodeConstants

\* on_connection_added, whether it refuses the socket, trips over its assertion
\* or adds a connection.
LEMMA OnConnectionAddedKeeps ==
    ASSUME IInv, NEW e \in Endpoint, NEW from_me \in BOOLEAN, from_me => e \in Outbound,
           OnConnectionAdded(e, from_me)
    PROVE  IInv'
<1>1. /\ UNCHANGED <<outbound_peers, pending_connection_requests, retry_alarms,
                     num_retries_by_ip, network>>
      /\ pending_connection_attempts' = pending_connection_attempts \ {e}
    BY DEF OnConnectionAdded
<1>2. /\ outbound_peers' \subseteq Outbound /\ pending_connection_requests' \subseteq Outbound
      /\ pending_connection_attempts' \subseteq Outbound
      /\ retry_alarms' \in [Endpoint -> Nat] /\ num_retries_by_ip' \in [Endpoint -> Nat]
      /\ network' \subseteq Endpoint
    BY SMTT(60), <1>1 DEF IInv, TypeOK
<1>3. /\ conns \in [Conn -> Connection] /\ dropped \subseteq Outbound
      /\ attempt \in [Endpoint -> Task] /\ Outbound \subseteq Endpoint
    BY NodeConstants DEF IInv, TypeOK
<1>4. ASSUME NEW task \in Task, task # Idle => from_me, attempt' = [attempt EXCEPT ![e] = task]
      PROVE  /\ attempt' \in [Endpoint -> Task] /\ MarksAreLive'
             /\ \A x \in Endpoint : retry_alarms'[x] > 0 \/ attempt'[x] # Idle => x \in Outbound
  <2>1. /\ attempt' \in [Endpoint -> Task]
        /\ \A x \in Endpoint : attempt'[x] = IF x = e THEN task ELSE attempt[x]
      BY SMTT(60), <1>3, <1>4
  <2>2. MarksAreLive'
      BY <1>1, <1>3, <2>1 DEF IInv, TypeOK, MarksAreLive
  <2>3. \A x \in Endpoint : retry_alarms'[x] > 0 \/ attempt'[x] # Idle => x \in Outbound
      BY <1>1, <1>4, <2>1 DEF IInv, OnlyOutbound
  <2> QED
      BY <2>1, <2>2, <2>3
<1>5. ASSUME UNCHANGED <<pool, conns>>
      PROVE  /\ GoodPool(pool', conns') /\ conns' \in [Conn -> Connection]
             /\ \A c \in Conn : /\ Proper(conns'[c])
                                /\ conns'[c].disposed <=> c \notin pool'.by_fileno
                                /\ conns'[c].ping => c \in pool'.by_fileno
  <2>1. GoodPool(pool, conns) /\ \A c \in Conn : Proper(conns[c])
      BY SMTT(60), PoolIsGood, AllProper
  <2> QED
      BY <1>3, <1>5, <2>1 DEF IInv, AlarmsOwned, Pooled
<1>6. Idle \in Task /\ Raised \in Task /\ TurnedAway \in Task /\ \A c \in Conn : c \in Task
    BY DEF Task
<1>7. CASE TurnAway(e, IF from_me THEN TurnedAway ELSE Idle)
  <2>1. UNCHANGED <<pool, conns>> /\ dropped' \subseteq Outbound
        /\ attempt' = [attempt EXCEPT ![e] = IF from_me THEN TurnedAway ELSE Idle]
      BY <1>3, <1>7 DEF TurnAway
  <2>2. (IF from_me THEN TurnedAway ELSE Idle) \in Task
        /\ ((IF from_me THEN TurnedAway ELSE Idle) # Idle => from_me)
      BY <1>6
  <2> QED
      BY <1>2, <1>4, <1>5, <2>1, <2>2, PoolStep
<1>8. CASE AssertionFails(e, IF from_me THEN Raised ELSE Idle)
  <2>1. UNCHANGED <<pool, conns, dropped>>
        /\ attempt' = [attempt EXCEPT ![e] = IF from_me THEN Raised ELSE Idle]
      BY <1>8 DEF AssertionFails
  <2>2. (IF from_me THEN Raised ELSE Idle) \in Task
        /\ ((IF from_me THEN Raised ELSE Idle) # Idle => from_me)
      BY <1>6
  <2>3. dropped' \subseteq Outbound
      BY SMTT(60), <1>3, <2>1
  <2> QED
      BY <1>2, <1>4, <1>5, <2>1, <2>2, <2>3, PoolStep
<1>9. ASSUME NEW c \in Conn, AddConnection(c, e, from_me, IF from_me THEN c ELSE Idle)
      PROVE  IInv'
  <2>1. attempt' = [attempt EXCEPT ![e] = IF from_me THEN c ELSE Idle] /\ dropped' \subseteq Outbound
      BY <1>3, <1>9 DEF AddConnection
  <2>2. (IF from_me THEN c ELSE Idle) \in Task
        /\ ((IF from_me THEN c ELSE Idle) # Idle => from_me)
      BY SMTT(60), <1>6
  <2>3. /\ GoodPool(pool', conns') /\ pool'.by_fileno = pool.by_fileno \cup {c}
        /\ conns' \in [Conn -> Connection]
        /\ Proper(conns'[c]) /\ ~conns'[c].disposed /\ ~conns'[c].ping
        /\ \A x \in Conn \ {c} : conns'[x] = conns[x]
      BY SMTT(60), <1>9, AddConnectionFacts
  <2>4. ASSUME NEW x \in Conn
        PROVE  /\ Proper(conns'[x])
               /\ conns'[x].disposed <=> x \notin pool'.by_fileno
               /\ conns'[x].ping => x \in pool'.by_fileno
    <3>1. Proper(conns[x]) /\ (conns[x].disposed <=> x \notin pool.by_fileno)
          /\ (conns[x].ping => x \in pool.by_fileno)
        BY AllProper DEF IInv, AlarmsOwned, Pooled
    <3> QED
        BY <2>3, <3>1
  <2>5. /\ attempt' \in [Endpoint -> Task] /\ MarksAreLive'
        /\ \A x \in Endpoint : retry_alarms'[x] > 0 \/ attempt'[x] # Idle => x \in Outbound
      BY <1>4, <2>1, <2>2
  <2> QED
      BY <1>2, <2>1, <2>3, <2>4, <2>5, PoolStep
<1> QED
    BY <1>7, <1>8, <1>9 DEF OnConnectionAdded

\* A lost connection leaves every index it is in.
LEMMA ConnectionLostKeeps ==
    ASSUME IInv, NEW c \in Conn, ConnectionLost(c)
    PROVE  IInv'
<1> DEFINE conn == IF conns[c].alive THEN CloseByDefault(conns[c]) ELSE conns[c]
           left == Dispose(conn)
<1>1. /\ c \in pool.by_fileno
      /\ pool' = PoolDelete(pool, c, conn.endpoint, conn.type, conn.peer_id)
      /\ HandleConnectionClosed(conn.endpoint, conn.should_retry)
      /\ conns' = [conns EXCEPT ![c] = left]
      /\ UNCHANGED <<outbound_peers, pending_connection_requests, attempt,
                     num_retries_by_ip, network>>
    BY DEF ConnectionLost, Pooled
<1>2. conns \in [Conn -> Connection] /\ Proper(conns[c]) /\ conns[c] \in Connection
    BY AllProper DEF IInv, TypeOK
<1>3. conn.endpoint = conns[c].endpoint /\ conn.type = conns[c].type /\ Proper(conn)
      /\ conn.peer_id = conns[c].peer_id
  <2>1. CASE conns[c].alive
    <3>1. Kept(conns[c], CloseByDefault(conns[c]))
        BY <1>2, CloseByDefaultFacts
    <3>2. CloseByDefault(conns[c]).peer_id = conns[c].peer_id
        BY <1>2 DEF CloseByDefault, MarkForClose, Connection
    <3> QED
        BY <2>1, <3>1, <3>2 DEF Kept, Becomes
  <2>2. CASE ~conns[c].alive
      BY SMTT(60), <1>2, <2>2
  <2> QED
      BY <2>1, <2>2
<1> HIDE DEF conn
<1>4. Proper(left) /\ left.disposed /\ ~left.ping
    BY <1>3, DisposeFacts
<1> HIDE DEF left
<1>5. /\ conns' \in [Conn -> Connection] /\ conns'[c] = left
      /\ \A x \in Conn \ {c} : conns'[x] = conns[x]
    BY <1>1, <1>2, <1>4 DEF Proper
<1>6. GoodPool(pool', conns) /\ pool'.by_fileno = pool.by_fileno \ {c}
  <2>1. GoodPool(pool, conns) /\ conns[c].type \in ConnectionType
        /\ conns[c].peer_id \in NodeId \cup {NoId}
      BY SMTT(60), <1>2, PoolIsGood DEF Connection
  <2> QED
      BY SMTT(60), <1>1, <1>3, <2>1, DeleteDescribes
<1>7. GoodPool(pool', conns')
  <2>1. pool'.by_fileno \subseteq Conn \ {c}
      BY <1>6 DEF IInv, TypeOK, Pool
  <2>2. \A x \in pool'.by_fileno : conns'[x] = conns[x]
      BY SMTT(60), <1>5, <2>1
  <2>3. \A i \in Ip : {x \in pool'.by_fileno : IpOf[conns'[x].endpoint] = i}
                         = {x \in pool'.by_fileno : IpOf[conns[x].endpoint] = i}
      BY <2>2
  <2>4. \A t \in ConnectionType : {x \in pool'.by_fileno : conns'[x].type = t}
                                    = {x \in pool'.by_fileno : conns[x].type = t}
      BY <2>2
  <2> QED
      BY SMTT(60), <1>6, <2>2, <2>3, <2>4 DEF GoodPool, Describes
<1>8. ASSUME NEW x \in Conn
      PROVE  /\ Proper(conns'[x])
             /\ conns'[x].disposed <=> x \notin pool'.by_fileno
             /\ conns'[x].ping => x \in pool'.by_fileno
  <2>1. Proper(conns[x]) /\ (conns[x].disposed <=> x \notin pool.by_fileno)
        /\ (conns[x].ping => x \in pool.by_fileno)
      BY AllProper DEF IInv, AlarmsOwned, Pooled
  <2> QED
      BY <1>4, <1>5, <1>6, <2>1
<1>9. /\ pending_connection_attempts' = pending_connection_attempts \ {conn.endpoint}
      /\ retry_alarms' \in [Endpoint -> Nat] /\ dropped' \subseteq Outbound
      /\ \A x \in Endpoint : retry_alarms'[x] > 0 => retry_alarms[x] > 0 \/ x \in Outbound
  <2>1. conn.endpoint \in Endpoint /\ conn.should_retry \in BOOLEAN
        /\ (conn.should_retry => conn.endpoint \in Outbound)
      BY <1>3 DEF Proper, Connection
  <2> QED
      BY <1>1, <2>1, HandleConnectionClosedFacts
<1>10. /\ outbound_peers' \subseteq Outbound /\ pending_connection_requests' \subseteq Outbound
       /\ pending_connection_attempts' \subseteq Outbound /\ attempt' \in [Endpoint -> Task]
       /\ num_retries_by_ip' \in [Endpoint -> Nat] /\ network' \subseteq Endpoint /\ MarksAreLive'
    BY <1>1, <1>9 DEF IInv, TypeOK, MarksAreLive
<1>11. \A x \in Endpoint : retry_alarms'[x] > 0 \/ attempt'[x] # Idle => x \in Outbound
    BY <1>1, <1>9 DEF IInv, OnlyOutbound
<1> QED
    BY <1>5, <1>7, <1>8, <1>9, <1>10, <1>11, PoolStep

-----------------------------------------------------------------------------
(* The theorems                                                            *)

\* A node that has just started.
LEMMA InitHolds ==
    ASSUME Init PROVE IInv
<1>1. /\ pool = EmptyPool /\ conns = [c \in Conn |-> Gone] /\ network \in SUBSET Endpoint
      /\ outbound_peers \subseteq Outbound
    BY NodeConstants DEF Init
<1>2. EmptyPool \in Pool
    BY SMTT(60) DEF EmptyPool, Pool
<1>3. TypeOK
    BY <1>1, <1>2, GoneFacts, NodeConstants DEF Init, TypeOK, Task
<1>4. PoolAgrees
  <2>1. \A i \in Ip : {c \in pool.by_fileno : IpOf[conns[c].endpoint] = i} = {}
      BY <1>1 DEF EmptyPool
  <2>2. Cardinality({}) = 0
      BY EmptyPoolFacts
  <2> QED
      BY <1>1, <2>1, <2>2 DEF EmptyPool, PoolAgrees
<1>5. MarksAreLive /\ AlarmsOwned /\ OnlyOutbound
  <2>1. MarksAreLive
      BY DEF Init, MarksAreLive
  <2>2. AlarmsOwned
      BY <1>1, GoneFacts DEF AlarmsOwned, Pooled, EmptyPool
  <2>3. OnlyOutbound
      BY SMTT(60), <1>1, GoneFacts DEF Init, OnlyOutbound
  <2> QED
      BY <2>1, <2>2, <2>3
<1>6. IsFiniteSet(pool.by_fileno)
    BY <1>1, EmptyPoolFacts DEF EmptyPool
<1> QED
    BY SMTT(60), <1>3, <1>4, <1>5, <1>6 DEF IInv

\* Every step of the node keeps the invariant.
LEMMA NextKeeps ==
    ASSUME IInv, [Next]_vars PROVE IInv'
<1>1. CASE DequeueConnectionRequests
    BY <1>1, TaskSteps DEF DequeueConnectionRequests
<1>2. ASSUME NEW e \in Endpoint, TaskEnds(e) PROVE IInv'
  <2>1. CASE ConnectFails(e)
      BY <2>1, TaskSteps DEF ConnectFails
  <2>2. CASE ConnectionMade(e)
    <3>1. e \in Outbound
        BY <2>2 DEF ConnectionMade, IInv, OnlyOutbound, Connecting, Idle
    <3> QED
        BY <2>2, <3>1, OnConnectionAddedKeeps DEF ConnectionMade
  <2>3. CASE ConnectReturns(e)
      BY <2>3, TaskSteps DEF ConnectReturns
  <2> QED
      BY <1>2, <2>1, <2>2, <2>3 DEF TaskEnds
<1>3. ASSUME NEW e \in Endpoint, ConnectTimesOutLate(e) PROVE IInv'
    BY <1>3, ConnectTimesOutLateKeeps
<1>4. ASSUME NEW e \in Endpoint, Accept(e) PROVE IInv'
    BY <1>4, OnConnectionAddedKeeps DEF Accept
<1>5. CASE Messages
    BY <1>5, MsgHelloKeeps, OneConnSteps DEF Messages
<1>6. ASSUME NEW c \in Conn, ConnectionLost(c) PROVE IInv'
    BY <1>6, ConnectionLostKeeps
<1>7. CASE Alarms
  <2>1. ASSUME NEW c \in Conn, ConnectionTimeout(c) \/ SendPing(c) \/ PongMsgTimeout(c) PROVE IInv'
      BY <2>1, OneConnSteps
  <2>2. ASSUME NEW e \in Endpoint, RetryInitClientSocket(e) PROVE IInv'
      BY <2>2, TaskSteps DEF RetryInitClientSocket
  <2> QED
      BY <1>7, <2>1, <2>2 DEF Alarms
<1>8. ASSUME NEW models \in SUBSET (Outbound \cap network) \ {{}}, OnUpdatedPeers(models) PROVE IInv'
    BY <1>8, OnUpdatedPeersKeeps
<1>9. CASE UNCHANGED vars
    BY <1>9, TaskSteps DEF vars
<1> QED
    BY <1>1, <1>2, <1>3, <1>4, <1>5, <1>6, <1>7, <1>8, <1>9 DEF Next

\* The inductive invariant holds always.
THEOREM Invariant == Spec => []IInv
<1>1. Init => IInv
    BY InitHolds
<1>2. IInv /\ [Next]_vars => IInv'
    BY NextKeeps
<1> QED
    BY <1>1, <1>2, PTL DEF Spec

\* Every variable of the node has its type.
THEOREM TypeCorrect == Spec => []TypeOK
<1>1. IInv => TypeOK
    BY DEF IInv
<1> QED
    BY <1>1, Invariant, PTL

\* No mark of a pending connection attempt outlives the attempt, so
\* enqueue_connection never shuts out a peer.
THEOREM MarksAlwaysLive == Spec => []MarksAreLive
<1>1. IInv => MarksAreLive
    BY DEF IInv
<1> QED
    BY <1>1, Invariant, PTL

\* The ping, pong and timeout alarms always find their connection as they
\* expect it.
THEOREM AlarmsAlwaysOwned == Spec => []AlarmsOwned
<1>1. IInv => AlarmsOwned
    BY DEF IInv
<1> QED
    BY <1>1, Invariant, PTL

-----------------------------------------------------------------------------
(* The index by node id: where it leads when a node has one endpoint.      *)

\* The node opens sockets to what there is.
Sources ==
    /\ outbound_peers \cup pending_connection_requests \subseteq network
    /\ \A e \in Endpoint : attempt[e] # Idle \/ retry_alarms[e] > 0 => e \in network

\* A pooled connection is with something there is, under the node id of that if any.
Named ==
    \A c \in pool.by_fileno : /\ conns[c].endpoint \in network
                              /\ conns[c].peer_id \in {NoId, PeerOf[conns[c].endpoint]}

NInv == IInv /\ Sources /\ Named /\ NodeIdLeads

\* Connections that move on keep their names and the entries of the index.
LEMMA AdvancedLeads ==
    ASSUME Named, NodeIdLeads, Advanced, network' = network
    PROVE  Named' /\ NodeIdLeads'
<1>1. pool' = pool /\ \A c \in pool.by_fileno : Becomes(conns[c], conns'[c])
    BY DEF Advanced
<1>2. \A c \in pool.by_fileno : /\ conns'[c].endpoint = conns[c].endpoint
                                /\ conns'[c].peer_id \in {conns[c].peer_id, PeerOf[conns[c].endpoint]}
    BY <1>1 DEF Becomes
<1>3. Named'
    BY <1>1, <1>2 DEF Named
<1>4. NodeIdLeads'
    BY SMTT(60), <1>1, <1>2 DEF NodeIdLeads, OnlyEndpoint
<1> QED
    BY <1>3, <1>4

\* A connection with the node of e that is not with e is no reason for an entry.
LEMMA OnlyOne ==
    ASSUME Named, NodeIdLeads, NEW c \in pool.by_fileno, NEW e \in network,
           conns[c].endpoint # e, IsSsl[conns[c].endpoint], OnlyEndpoint(conns[c].endpoint)
    PROVE  PeerOf[e] # PeerOf[conns[c].endpoint]
BY DEF OnlyEndpoint

\* What add, authentication and index_conn_node_id make of the index by node id.
LEMMA AddIndexes ==
    ASSUME IInv, NEW c \in Conn, NEW e \in Endpoint, NEW from_me \in BOOLEAN, NEW task,
           AddConnection(c, e, from_me, task)
    PROVE  /\ IsSsl[e] => pool'.by_node_id[PeerOf[e]] = c
           /\ ~IsSsl[e] => pool'.by_node_id = pool.by_node_id
           /\ \A m \in NodeId \ {PeerOf[e]} : pool'.by_node_id[m] = pool.by_node_id[m]
           /\ conns'[c].peer_id \in {NoId, PeerOf[e]}
<1> DEFINE n == PeerOf[e]
           added == PoolAdd(pool, c, e, BuildType[e])
<1>1. n \in NodeId /\ BuildType[e] \in ConnectionType /\ AuthType[n] \in ConnectionType /\ pool \in Pool
      /\ conns \in [Conn -> Connection]
    BY NodeConstants DEF IInv, TypeOK
<1>2. added \in Pool /\ added.by_node_id = pool.by_node_id
  <2>1. Added(pool, added, c, e, BuildType[e])
      BY SMTT(60), <1>1, PoolAddFields
  <2> QED
      BY <2>1 DEF Added
<1>3. ASSUME NEW p \in Pool
      PROVE  /\ IndexConnNodeId(p, n, c).by_node_id = [p.by_node_id EXCEPT ![n] = c]
             /\ p.by_node_id \in [NodeId -> Conn \cup {NoConn}]
    BY <1>1 DEF IndexConnNodeId, Pool
<1>4. CASE ~IsSsl[e]
  <2>1. pool' = added /\ conns' = [conns EXCEPT ![c] = NewConnection(e, from_me)]
      BY <1>4 DEF AddConnection
  <2>2. conns'[c].peer_id = NoId
      BY <1>1, <2>1 DEF NewConnection
  <2> QED
      BY <1>2, <1>4, <2>1, <2>2
<1>5. CASE IsSsl[e]
  <2>1. /\ pool' = Authenticate(added, c, e)
        /\ conns' = [conns EXCEPT ![c] = [NewConnection(e, from_me) EXCEPT
                                             !.peer_id = PeerOf[e], !.type = AuthType[PeerOf[e]]]]
      BY <1>5 DEF AddConnection
  <2>2. conns'[c].peer_id = PeerOf[e]
      BY <1>1, <2>1 DEF NewConnection
  <2> DEFINE q == PoolDelete(added, c, e, BuildType[e], n)
             r == PoolAdd(q, c, e, AuthType[n])
  <2>3. q \in Pool /\ q.by_node_id = [pool.by_node_id EXCEPT ![n] = NoConn]
    <3>1. Deleted(added, q, c, e, BuildType[e], n)
      <4> HIDE DEF added
      <4> QED
          BY <1>1, <1>2, PoolDeleteFields
    <3>2. n # NoId
        BY <1>1, PoolConstants
    <3> HIDE DEF q
    <3> QED
        BY <1>2, <3>1, <3>2 DEF Deleted, DeleteNodeId
  <2>4. r \in Pool /\ r.by_node_id = q.by_node_id
    <3> HIDE DEF q
    <3>1. Added(q, r, c, e, AuthType[n])
        BY SMTT(60), <1>1, <2>3, PoolAddFields
    <3> QED
        BY <3>1 DEF Added
  <2>5. pool' = IndexConnNodeId(added, n, c) \/ pool' = IndexConnNodeId(r, n, c)
      BY <2>1 DEF Authenticate, UpdateConnectionType
  <2> HIDE DEF q, r, added
  <2>6. \/ pool'.by_node_id = [pool.by_node_id EXCEPT ![n] = c]
        \/ pool'.by_node_id = [[pool.by_node_id EXCEPT ![n] = NoConn] EXCEPT ![n] = c]
      BY <1>2, <1>3, <2>3, <2>4, <2>5
  <2>7. pool.by_node_id \in [NodeId -> Conn \cup {NoConn}]
      BY <1>1, <1>3
  <2> QED
      BY SMTT(60), <1>1, <1>5, <2>2, <2>6, <2>7
<1> QED
    BY <1>4, <1>5

\* An added connection takes the entry of its node from no other endpoint's.
LEMMA AddLeads ==
    ASSUME NInv, NEW c \in Conn, NEW e \in network, NEW from_me \in BOOLEAN,
           from_me => e \in Outbound, NEW task, AddConnection(c, e, from_me, task),
           network' = network
    PROVE  Named' /\ NodeIdLeads'
<1>0. IInv /\ Named /\ NodeIdLeads /\ e \in Endpoint /\ pool.by_fileno \subseteq Conn
      /\ PeerOf \in [Endpoint -> NodeId] /\ conns \in [Conn -> Connection]
    BY NodeConstants DEF NInv, IInv, TypeOK, Pool
<1>1. /\ pool'.by_fileno = pool.by_fileno \cup {c}
      /\ \A x \in Conn \ {c} : conns'[x] = conns[x]
      /\ conns'[c].endpoint = e
    BY SMTT(60), <1>0, AddConnectionFacts
<1>2. /\ IsSsl[e] => pool'.by_node_id[PeerOf[e]] = c
      /\ \A m \in NodeId \ {PeerOf[e]} : pool'.by_node_id[m] = pool.by_node_id[m]
      /\ conns'[c].peer_id \in {NoId, PeerOf[e]}
    BY SMTT(60), <1>0, AddIndexes
<1>3. \A x \in pool.by_fileno : conns[x].endpoint # e
  <2>1. pool.by_ipport[e] = NoConn /\ NoConn \notin Conn
      BY PoolConstants DEF AddConnection
  <2> QED
      BY SMTT(60), <1>0, <2>1 DEF IInv, PoolAgrees
<1>4. c \notin pool.by_fileno
    BY <1>0, GoneFacts DEF AddConnection, IsFree, IInv, AlarmsOwned, Pooled
<1>5. \A x \in pool.by_fileno : conns'[x] = conns[x]
    BY <1>0, <1>1, <1>4
<1>6. Named'
    BY <1>0, <1>1, <1>2, <1>5 DEF Named
<1>7. ASSUME NEW x \in pool.by_fileno, IsSsl[conns[x].endpoint], OnlyEndpoint(conns[x].endpoint)
      PROVE  pool'.by_node_id[PeerOf[conns[x].endpoint]] = x
  <2>1. PeerOf[e] # PeerOf[conns[x].endpoint]
      BY <1>0, <1>3, <1>7, OnlyOne
  <2>2. PeerOf[conns[x].endpoint] \in NodeId
      BY <1>0 DEF Connection
  <2>3. pool.by_node_id[PeerOf[conns[x].endpoint]] = x
      BY <1>0, <1>7 DEF NodeIdLeads
  <2> QED
      BY <1>2, <2>1, <2>2, <2>3
<1>8. NodeIdLeads'
    BY SMTT(60), <1>1, <1>2, <1>5, <1>7 DEF NodeIdLeads, OnlyEndpoint
<1> QED
    BY <1>6, <1>8

\* A lost connection takes its own entry out of the index, if its node has one endpoint.
LEMMA LostLeads ==
    ASSUME NInv, NEW c \in Conn, ConnectionLost(c)
    PROVE  Named' /\ NodeIdLeads'
<1> DEFINE conn == IF conns[c].alive THEN CloseByDefault(conns[c]) ELSE conns[c]
<1>0. IInv /\ Named /\ NodeIdLeads /\ pool \in Pool /\ pool.by_fileno \subseteq Conn
      /\ PeerOf \in [Endpoint -> NodeId] /\ conns \in [Conn -> Connection]
    BY NodeConstants DEF NInv, IInv, TypeOK, Pool
<1>1. /\ c \in pool.by_fileno
      /\ pool' = PoolDelete(pool, c, conn.endpoint, conn.type, conn.peer_id)
      /\ conns' = [conns EXCEPT ![c] = Dispose(conn)]
      /\ network' = network
    BY DEF ConnectionLost, Pooled
<1>2. /\ conn.endpoint = conns[c].endpoint /\ conn.type = conns[c].type
      /\ conn.peer_id = conns[c].peer_id
    BY <1>0 DEF CloseByDefault, MarkForClose, Connection
<1> HIDE DEF conn
<1>3. /\ pool'.by_fileno = pool.by_fileno \ {c}
      /\ pool'.by_node_id = DeleteNodeId(pool.by_node_id, c, conns[c].peer_id)
  <2>1. conns[c].endpoint \in Endpoint /\ conns[c].type \in ConnectionType
        /\ conns[c].peer_id \in NodeId \cup {NoId}
      BY <1>0 DEF Connection
  <2>2. Deleted(pool, pool', c, conns[c].endpoint, conns[c].type, conns[c].peer_id)
      BY SMTT(60), <1>0, <1>1, <1>2, <2>1, PoolDeleteFields
  <2> QED
      BY <2>2 DEF Deleted
<1>4. \A x \in pool'.by_fileno : x \in pool.by_fileno /\ conns'[x] = conns[x]
    BY <1>0, <1>1, <1>3
<1>5. Named'
    BY <1>0, <1>1, <1>4 DEF Named
<1>6. ASSUME NEW x \in pool.by_fileno \ {c}, IsSsl[conns[x].endpoint], OnlyEndpoint(conns[x].endpoint)
      PROVE  pool'.by_node_id[PeerOf[conns[x].endpoint]] = x
  <2>1. conns[x].endpoint # conns[c].endpoint
      BY SMTT(60), <1>0, <1>1 DEF IInv, PoolAgrees
  <2>2. PeerOf[conns[c].endpoint] # PeerOf[conns[x].endpoint]
    <3>1. conns[c].endpoint \in network
        BY <1>0, <1>1 DEF Named
    <3> QED
        BY <1>0, <1>6, <2>1, <3>1, OnlyOne
  <2>3. PeerOf[conns[x].endpoint] \in NodeId /\ pool.by_node_id \in [NodeId -> Conn \cup {NoConn}]
      BY <1>0 DEF Connection, Pool
  <2>4. pool.by_node_id[PeerOf[conns[x].endpoint]] = x
      BY <1>0, <1>6 DEF NodeIdLeads
  <2>5. conns[c].peer_id \in {NoId, PeerOf[conns[c].endpoint]}
      BY <1>0, <1>1 DEF Named
  <2> QED
      BY <1>3, <2>2, <2>3, <2>4, <2>5 DEF DeleteNodeId
<1>7. NodeIdLeads'
    BY SMTT(60), <1>1, <1>3, <1>4, <1>6 DEF NodeIdLeads, OnlyEndpoint
<1> QED
    BY <1>5, <1>7

\* A closed connection is retried where it was.
LEMMA ClosedSources ==
    ASSUME IInv, NEW e \in Endpoint, NEW retry, HandleConnectionClosed(e, retry)
    PROVE  \A x \in Endpoint \ {e} : retry_alarms'[x] = retry_alarms[x]
BY DEF HandleConnectionClosed, IInv, TypeOK

\* Every step of the node keeps it.
LEMMA NextLeads ==
    ASSUME NInv, [Next]_vars PROVE NInv'
<1>0. /\ IInv /\ Sources /\ Named /\ NodeIdLeads /\ IInv'
      /\ attempt \in [Endpoint -> Task] /\ retry_alarms \in [Endpoint -> Nat]
      /\ conns \in [Conn -> Connection] /\ pool.by_fileno \subseteq Conn
    BY NextKeeps DEF NInv, IInv, TypeOK, Pool
<1> SUFFICES Sources' /\ Named' /\ NodeIdLeads'
    BY <1>0 DEF NInv
<1>1. CASE DequeueConnectionRequests
  <2>1. Sources'
      BY <1>0, <1>1 DEF DequeueConnectionRequests, Sources
  <2> QED
      BY <1>0, <1>1, <2>1, SameAdvances, AdvancedLeads DEF DequeueConnectionRequests
<1>2. ASSUME NEW e \in Endpoint, ConnectFails(e) PROVE Sources' /\ Named' /\ NodeIdLeads'
  <2>1. e \in network
      BY <1>0, <1>2 DEF ConnectFails, Sources, Connecting, Raised, Idle
  <2>2. Sources'
      BY <1>0, <1>2, <2>1, ClosedSources DEF ConnectFails, Sources
  <2> QED
      BY <1>0, <1>2, <2>2, SameAdvances, AdvancedLeads DEF ConnectFails
<1>3. ASSUME NEW e \in Endpoint, NEW from_me \in BOOLEAN, from_me => e \in Outbound,
             e \in network, OnConnectionAdded(e, from_me)
      PROVE  Sources' /\ Named' /\ NodeIdLeads'
  <2>1. Sources'
    <3>1. UNCHANGED <<outbound_peers, pending_connection_requests, retry_alarms, network>>
        BY <1>3 DEF OnConnectionAdded
    <3>2. \A x \in Endpoint \ {e} : attempt'[x] = attempt[x]
        BY <1>0, <1>3 DEF OnConnectionAdded, TurnAway, AssertionFails, AddConnection
    <3> QED
        BY <1>0, <1>3, <3>1, <3>2 DEF Sources
  <2>2. network' = network
      BY <1>3 DEF OnConnectionAdded
  <2>3. CASE UNCHANGED <<pool, conns>>
      BY <1>0, <2>1, <2>2, <2>3, SameAdvances, AdvancedLeads
  <2>4. ASSUME NEW c \in Conn, AddConnection(c, e, from_me, IF from_me THEN c ELSE Idle)
        PROVE  Named' /\ NodeIdLeads'
      BY <1>3, <2>2, <2>4, AddLeads
  <2> QED
      BY <1>3, <2>1, <2>3, <2>4 DEF OnConnectionAdded, TurnAway, AssertionFails
<1>4. ASSUME NEW e \in Endpoint, ConnectionMade(e) PROVE Sources' /\ Named' /\ NodeIdLeads'
  <2>1. e \in network /\ e \in Outbound
      BY <1>0, <1>4 DEF ConnectionMade, Sources, IInv, OnlyOutbound, Connecting, Idle
  <2> QED
      BY <1>3, <1>4, <2>1 DEF ConnectionMade
<1>5. ASSUME NEW e \in Endpoint, ConnectReturns(e) PROVE Sources' /\ Named' /\ NodeIdLeads'
  <2>1. Sources'
      BY <1>0, <1>5 DEF ConnectReturns, Sources
  <2> QED
      BY <1>0, <1>5, <2>1, SameAdvances, AdvancedLeads DEF ConnectReturns
<1>6. ASSUME NEW e \in Endpoint, ConnectTimesOutLate(e) PROVE Sources' /\ Named' /\ NodeIdLeads'
  <2>1. e \in network
      BY <1>0, <1>6, MadeFacts DEF ConnectTimesOutLate, Sources
  <2>2. Sources'
      BY <1>0, <1>6, <2>1, ClosedSources DEF ConnectTimesOutLate, Sources
  <2> QED
      BY <1>0, <1>6, <2>2, ConnectTimesOutLateKeeps, AdvancedLeads DEF ConnectTimesOutLate
<1>7. ASSUME NEW e \in Endpoint, Accept(e) PROVE Sources' /\ Named' /\ NodeIdLeads'
    BY <1>3, <1>7 DEF Accept
<1>8. ASSUME Advanced, NodeUnchanged PROVE Sources' /\ Named' /\ NodeIdLeads'
  <2>1. Sources'
      BY <1>0, <1>8 DEF NodeUnchanged, Sources
  <2> QED
      BY <1>0, <1>8, <2>1, AdvancedLeads DEF NodeUnchanged
<1>9. ASSUME NEW c \in Conn, NEW same_network \in BOOLEAN, MsgHello(c, same_network)
      PROVE  Sources' /\ Named' /\ NodeIdLeads'
    BY <1>0, <1>8, <1>9, MsgHelloKeeps DEF MsgHello
<1>10. ASSUME NEW c \in Conn,
              \/ MsgAck(c) \/ MsgPong(c) \/ MsgOther(c) \/ MsgBad(c) \/ MsgUnrecoverable(c)
              \/ ConnectionTimeout(c) \/ SendPing(c) \/ PongMsgTimeout(c)
       PROVE  Sources' /\ Named' /\ NodeIdLeads'
  <2>1. NodeUnchanged
      BY <1>10 DEF MsgAck, MsgPong, MsgOther, MsgBad, MsgUnrecoverable, ConnectionTimeout,
                   SendPing, PongMsgTimeout
  <2>2. Advanced
      BY <1>0, <1>10, OneConnSteps
  <2> QED
      BY <1>8, <2>1, <2>2
<1>11. ASSUME NEW c \in Conn, ConnectionLost(c) PROVE Sources' /\ Named' /\ NodeIdLeads'
  <2> DEFINE conn == IF conns[c].alive THEN CloseByDefault(conns[c]) ELSE conns[c]
  <2>1. /\ HandleConnectionClosed(conn.endpoint, conn.should_retry)
        /\ UNCHANGED <<outbound_peers, pending_connection_requests, attempt, network>>
        /\ c \in pool.by_fileno
      BY <1>11 DEF ConnectionLost, Pooled
  <2>2. conn.endpoint \in network /\ conn.endpoint \in Endpoint
    <3>1. conn.endpoint = conns[c].endpoint /\ conns[c].endpoint \in Endpoint
        BY <1>0 DEF CloseByDefault, MarkForClose, Connection
    <3> QED
        BY <1>0, <2>1, <3>1 DEF Named
  <2> HIDE DEF conn
  <2>3. Sources'
      BY <1>0, <2>1, <2>2, ClosedSources DEF Sources
  <2> QED
      BY <1>11, <2>3, LostLeads
<1>12. ASSUME NEW e \in Endpoint, RetryInitClientSocket(e) PROVE Sources' /\ Named' /\ NodeIdLeads'
  <2>1. e \in network
      BY <1>0, <1>12 DEF RetryInitClientSocket, Sources
  <2>2. \A x \in Endpoint \ {e} : retry_alarms'[x] = retry_alarms[x]
      BY <1>0, <1>12 DEF RetryInitClientSocket
  <2>3. Sources'
      BY <1>0, <1>12, <2>1, <2>2 DEF RetryInitClientSocket, EnqueueConnections, Sources
  <2> QED
      BY <1>0, <1>12, <2>3, SameAdvances, AdvancedLeads DEF RetryInitClientSocket
<1>13. ASSUME NEW models \in SUBSET (Outbound \cap network) \ {{}}, OnUpdatedPeers(models)
       PROVE  Sources' /\ Named' /\ NodeIdLeads'
  <2>1. Sources'
      BY <1>0, <1>13 DEF OnUpdatedPeers, EnqueueConnections, Sources
  <2> QED
      BY <1>0, <1>13, <2>1, OnUpdatedPeersKeeps, AdvancedLeads DEF OnUpdatedPeers
<1>14. CASE UNCHANGED vars
    BY <1>8, <1>14, SameAdvances DEF vars, NodeUnchanged
<1>15. CASE Messages
    BY <1>9, <1>10, <1>15 DEF Messages
<1>16. CASE Alarms
    BY <1>10, <1>12, <1>16 DEF Alarms
<1>17. ASSUME NEW e \in Endpoint, TaskEnds(e) PROVE Sources' /\ Named' /\ NodeIdLeads'
    BY <1>2, <1>4, <1>5, <1>17 DEF TaskEnds
<1> QED
    BY <1>1, <1>6, <1>7, <1>11, <1>13, <1>14, <1>15, <1>16, <1>17 DEF Next

\* The five indexes of the connection pool always describe the same connections,
\* with any number of endpoints, node ids and types.  A node id leads to a connection
\* of its node, if to any, and to the authenticated one of a node that has a single
\* endpoint.
THEOREM IndexesAlwaysAgree == Spec => []IndexesAgree
<1>1. Init => NInv
  <2> SUFFICES ASSUME Init PROVE NInv
      OBVIOUS
  <2>1. pool.by_fileno = {}
      BY DEF Init, EmptyPool
  <2>2. Sources
      BY SMTT(60) DEF Init, Sources
  <2> QED
      BY <2>1, <2>2, InitHolds DEF NInv, Named, NodeIdLeads
<1>2. NInv /\ [Next]_vars => NInv'
    BY NextLeads
<1>3. NInv => IndexesAgree
    BY DEF NInv, IInv, IndexesAgree
<1> QED
    BY <1>1, <1>2, <1>3, PTL DEF Spec
-----------------------------------------------------------------------------
(* The life of a connection: every initial state maps to one of            *)
(* ConnectionLife, and every step to one of its steps or to no step.       *)

\* A connection with a peer the node connects to was opened by the node.
FromMe == \A c \in pool.by_fileno : conns[c].endpoint \in Outbound => conns[c].from_me

\* A task that has made its connection is not that of a peer nobody knows.
Remembered == \A e \in Outbound : attempt[e] \in Made => LifeOf(e) # "unknown"

LInv == IInv /\ FromMe /\ Remembered

\* What a step may do to the life of one peer.
MayMove(e) == LifeOf(e)' = LifeOf(e) \/ <<LifeOf(e), LifeOf(e)'>> \in Life!Moves(e)

\* What every step does.
StepMoves ==
    /\ \A e \in Outbound : MayMove(e)
    /\ FromMe'
    /\ \A e \in Outbound : attempt'[e] \in Made =>
            attempt[e] \in Made \/ LifeOf(e)' # "unknown"

\* The moves by name.
LEMMA MovesFacts ==
    ASSUME NEW e
    PROVE  /\ \A s \in {"unknown", "dropped", "handshake", "up", "closing", "released"} :
                  <<s, "seeking">> \in Life!Moves(e)
           /\ <<"seeking", "handshake">> \in Life!Moves(e)
           /\ <<"handshake", "up">> \in Life!Moves(e)
           /\ \A s \in {"handshake", "up"} : /\ <<s, "closing">> \in Life!Moves(e)
                                             /\ <<s, "released">> \in Life!Moves(e)
           /\ \A s \in {"seeking", "released"} : <<s, "dropped">> \in Life!Moves(e)
           /\ ~(SDN \subseteq BuildType[e]) => \A s \in {"handshake", "up", "closing"} :
                  <<s, "dropped">> \in Life!Moves(e)
           /\ \A s : <<s, "unknown">> \notin Life!Moves(e)
BY DEF Life!Moves

\* A life is one of the states, and one with an open socket only if the pool
\* leads to a connection.
LEMMA LifeStates ==
    ASSUME NEW e
    PROVE  /\ LifeOf(e) \in Life!States
           /\ pool.by_ipport[e] = NoConn =>
                 /\ Sought(e) => LifeOf(e) = "seeking"
                 /\ ~Sought(e) /\ e \in dropped => LifeOf(e) = "dropped"
                 /\ ~Sought(e) /\ e \notin dropped => LifeOf(e) = "unknown"
           /\ pool.by_ipport[e] # NoConn =>
                 LET conn == conns[pool.by_ipport[e]]
                 IN  /\ conn.alive /\ ~conn.established => LifeOf(e) = "handshake"
                     /\ conn.alive /\ conn.established => LifeOf(e) = "up"
                     /\ ~conn.alive /\ conn.should_retry => LifeOf(e) = "closing"
                     /\ ~conn.alive /\ ~conn.should_retry => LifeOf(e) = "released"
BY DEF LifeOf, Life!States

\* The same of the next state.
LEMMA LifeStatesNext ==
    ASSUME NEW e
    PROVE  /\ LifeOf(e)' \in Life!States
           /\ pool'.by_ipport[e] = NoConn =>
                 /\ Sought(e)' => LifeOf(e)' = "seeking"
                 /\ ~Sought(e)' /\ e \in dropped' => LifeOf(e)' = "dropped"
                 /\ ~Sought(e)' /\ e \notin dropped' => LifeOf(e)' = "unknown"
           /\ pool'.by_ipport[e] # NoConn =>
                 LET conn == conns'[pool'.by_ipport[e]]
                 IN  /\ conn.alive /\ ~conn.established => LifeOf(e)' = "handshake"
                     /\ conn.alive /\ conn.established => LifeOf(e)' = "up"
                     /\ ~conn.alive /\ conn.should_retry => LifeOf(e)' = "closing"
                     /\ ~conn.alive /\ ~conn.should_retry => LifeOf(e)' = "released"
BY DEF LifeOf, Life!States

\* A pooled connection that moves on.
LEMMA PooledMoves ==
    ASSUME IInv, NEW e \in Outbound, pool.by_ipport[e] # NoConn,
           pool'.by_ipport[e] = pool.by_ipport[e],
           Becomes(conns[pool.by_ipport[e]], conns'[pool.by_ipport[e]])
    PROVE  MayMove(e) /\ LifeOf(e)' # "unknown"
<1> DEFINE old == conns[pool.by_ipport[e]]
           new == conns'[pool.by_ipport[e]]
<1>1. /\ new.alive => old.alive
      /\ old.alive \/ new.should_retry = old.should_retry
      /\ old.established /\ new.alive => new.established
    BY DEF Becomes
<1>2. /\ old.alive /\ ~old.established => LifeOf(e) = "handshake"
      /\ old.alive /\ old.established => LifeOf(e) = "up"
      /\ ~old.alive /\ old.should_retry => LifeOf(e) = "closing"
      /\ ~old.alive /\ ~old.should_retry => LifeOf(e) = "released"
    BY LifeStates
<1>3. /\ new.alive /\ ~new.established => LifeOf(e)' = "handshake"
      /\ new.alive /\ new.established => LifeOf(e)' = "up"
      /\ ~new.alive /\ new.should_retry => LifeOf(e)' = "closing"
      /\ ~new.alive /\ ~new.should_retry => LifeOf(e)' = "released"
    BY LifeStatesNext
<1> HIDE DEF old, new
<1>4. CASE old.alive
  <2>1. LifeOf(e) \in {"handshake", "up"}
      BY <1>2, <1>4
  <2>2. CASE new.alive
      BY <1>1, <1>2, <1>3, <1>4, <2>2, MovesFacts DEF MayMove
  <2>3. CASE ~new.alive
      BY <1>3, <2>1, <2>3, MovesFacts DEF MayMove
  <2> QED
      BY <2>2, <2>3
<1>5. CASE ~old.alive
    BY <1>1, <1>2, <1>3, <1>5 DEF MayMove
<1> QED
    BY <1>4, <1>5

\* A peer without a connection, before and after.
LEMMA UnpooledMoves ==
    ASSUME NEW e \in Outbound, pool.by_ipport[e] = NoConn, pool'.by_ipport[e] = NoConn,
           Sought(e) => Sought(e)' \/ e \in dropped',
           ~Sought(e) /\ ~Sought(e)' => (e \in dropped <=> e \in dropped')
    PROVE  MayMove(e)
<1>1. CASE Sought(e)
    BY <1>1, LifeStates, LifeStatesNext, MovesFacts DEF MayMove
<1>2. CASE ~Sought(e)
  <2>1. CASE Sought(e)'
      BY <1>2, <2>1, LifeStates, LifeStatesNext, MovesFacts DEF MayMove
  <2>2. CASE ~Sought(e)'
      BY <1>2, <2>2, LifeStates, LifeStatesNext DEF MayMove
  <2> QED
      BY <2>1, <2>2
<1> QED
    BY <1>1, <1>2

\* A step that leaves the pool alone moves every peer as it may, if it moves
\* those without a connection so.
LEMMA AdvancedMoves ==
    ASSUME IInv, FromMe, Advanced,
           \A e \in Outbound : pool.by_ipport[e] = NoConn =>
               /\ Sought(e) => Sought(e)' \/ e \in dropped'
               /\ ~Sought(e) /\ ~Sought(e)' => (e \in dropped <=> e \in dropped'),
           \A e \in Outbound : attempt'[e] \in Made => attempt[e] \in Made \/ e \in dropped'
    PROVE  StepMoves
<1>1. pool' = pool /\ \A c \in pool.by_fileno : Becomes(conns[c], conns'[c])
    BY DEF Advanced
<1>2. ASSUME NEW e \in Outbound PROVE MayMove(e)
  <2>1. CASE pool.by_ipport[e] = NoConn
      BY <1>1, <2>1, UnpooledMoves
  <2>2. CASE pool.by_ipport[e] # NoConn
    <3>1. pool.by_ipport[e] \in pool.by_fileno
        BY <2>2, NodeConstants DEF IInv, PoolAgrees
    <3> QED
        BY <1>1, <2>2, <3>1, PooledMoves
  <2> QED
      BY <2>1, <2>2
<1>3. FromMe'
    BY <1>1 DEF FromMe, Becomes
<1>4. \A e \in Outbound : e \in dropped' => LifeOf(e)' # "unknown"
    BY DEF LifeOf
<1> QED
    BY <1>2, <1>3, <1>4 DEF StepMoves

-----------------------------------------------------------------------------
(* The actions                                                             *)

\* Messages and the alarms of connections change nothing but connections.
LEMMA ConnsMove ==
    ASSUME IInv, FromMe, Advanced, NodeUnchanged PROVE StepMoves
<1>1. \A e : Sought(e)' <=> Sought(e)
    BY DEF NodeUnchanged, Sought
<1> QED
    BY <1>1, AdvancedMoves DEF NodeUnchanged

\* What is sought after enqueue_connection.
LEMMA EnqueueFacts ==
    ASSUME IInv, NEW es \in SUBSET Outbound, UNCHANGED attempt,
           pending_connection_requests' = EnqueueConnections(es)
    PROVE  \A e \in Outbound : e \in es \/ e \in pending_connection_requests => Sought(e)'
<1>1. \A e \in pending_connection_attempts : attempt'[e] \in {Connecting, Raised}
    BY DEF IInv, MarksAreLive
<1> QED
    BY <1>1 DEF EnqueueConnections, Sought

\* handle_connection_closed: a peer is sought again or given up, and an SDN
\* is given up only if it is not to be retried.
LEMMA ClosedMoves ==
    ASSUME IInv, NEW e \in Outbound, NEW should_retry \in BOOLEAN,
           HandleConnectionClosed(e, should_retry)
    PROVE  /\ e \in dropped' \/ Sought(e)'
           /\ should_retry /\ SDN \subseteq BuildType[e] => Sought(e)'
           /\ \A x \in Endpoint \ {e} : retry_alarms'[x] = retry_alarms[x]
           /\ retry_alarms[e] > 0 => retry_alarms'[e] > 0
           /\ \A x \in Outbound \ {e} : x \in dropped' <=> x \in dropped
           /\ e \in dropped => e \in dropped'
<1>0. retry_alarms \in [Endpoint -> Nat] /\ e \in Endpoint /\ retry_alarms[e] \in Nat
    BY NodeConstants DEF IInv, TypeOK
<1>1. CASE should_retry /\ ContinueRetryingConnection(e)
  <2>1. retry_alarms' = [retry_alarms EXCEPT ![e] = @ + 1] /\ UNCHANGED dropped
      BY <1>1 DEF HandleConnectionClosed
  <2>2. retry_alarms'[e] > 0 /\ \A x \in Endpoint \ {e} : retry_alarms'[x] = retry_alarms[x]
      BY SMTT(60), <1>0, <2>1
  <2> QED
      BY <2>1, <2>2 DEF Sought
<1>2. CASE ~(should_retry /\ ContinueRetryingConnection(e))
  <2>1. dropped' = dropped \cup ({e} \cap Outbound) /\ UNCHANGED retry_alarms
      BY <1>2 DEF HandleConnectionClosed
  <2>2. ~(should_retry /\ SDN \subseteq BuildType[e])
      BY <1>2 DEF ContinueRetryingConnection
  <2> QED
      BY <2>1, <2>2
<1> QED
    BY <1>1, <1>2

\* The event loop takes the requests.
LEMMA DequeueMoves ==
    ASSUME LInv, DequeueConnectionRequests PROVE StepMoves
<1>1. /\ Advanced /\ UNCHANGED <<retry_alarms, dropped>> /\ pending_connection_requests' = {}
      /\ \A e \in Endpoint : attempt[e] = Idle
      /\ \A e \in Endpoint : attempt'[e] = IF e \in pending_connection_requests THEN Connecting ELSE Idle
    BY SameAdvances DEF DequeueConnectionRequests
<1>2. \A e \in Outbound : (Sought(e)' <=> Sought(e)) /\ attempt'[e] \notin Made
    BY <1>1, NodeConstants, MadeFacts DEF Sought, Idle, Connecting, Raised
<1> QED
    BY <1>1, <1>2, AdvancedMoves DEF LInv

\* A task ends without a connection.
LEMMA ConnectFailsMoves ==
    ASSUME LInv, NEW e \in Endpoint, ConnectFails(e) PROVE StepMoves
<1>0. attempt \in [Endpoint -> Task] /\ Outbound \subseteq Endpoint /\ e \in Outbound
    BY NodeConstants DEF LInv, IInv, TypeOK, OnlyOutbound, ConnectFails, Idle, Connecting, Raised
<1>1. /\ Advanced /\ UNCHANGED pending_connection_requests /\ HandleConnectionClosed(e, TRUE)
      /\ attempt' = [attempt EXCEPT ![e] = Idle]
    BY SameAdvances DEF ConnectFails
<1>2. attempt'[e] = Idle /\ \A x \in Endpoint \ {e} : attempt'[x] = attempt[x]
    BY <1>0, <1>1
<1>3. /\ e \in dropped' \/ Sought(e)'
      /\ \A x \in Endpoint \ {e} : retry_alarms'[x] = retry_alarms[x]
      /\ \A x \in Outbound \ {e} : x \in dropped' <=> x \in dropped
    BY <1>0, <1>1, ClosedMoves DEF LInv
<1>4. Sought(e)
    BY DEF ConnectFails, Sought
<1>5. \A x \in Outbound \ {e} : Sought(x)' <=> Sought(x)
    BY <1>0, <1>1, <1>2, <1>3 DEF Sought
<1>6. \A x \in Outbound : attempt'[x] \in Made => attempt[x] \in Made
    BY <1>0, <1>2, MadeFacts
<1>7. \A x \in Outbound : /\ Sought(x) => Sought(x)' \/ x \in dropped'
                          /\ ~Sought(x) /\ ~Sought(x)' => (x \in dropped <=> x \in dropped')
    BY <1>3, <1>4, <1>5
<1> QED
    BY <1>1, <1>6, <1>7, AdvancedMoves DEF LInv

\* A task ends with its connection.
LEMMA ConnectReturnsMoves ==
    ASSUME LInv, NEW e \in Endpoint, ConnectReturns(e) PROVE StepMoves
<1>0. attempt \in [Endpoint -> Task] /\ Outbound \subseteq Endpoint
    BY NodeConstants DEF LInv, IInv, TypeOK
<1>1. /\ Advanced /\ UNCHANGED <<pending_connection_requests, retry_alarms, dropped>>
      /\ attempt' = [attempt EXCEPT ![e] = Idle] /\ attempt[e] \in Made
    BY SameAdvances DEF ConnectReturns
<1>2. attempt'[e] = Idle /\ \A x \in Endpoint \ {e} : attempt'[x] = attempt[x]
    BY <1>0, <1>1
<1>3. attempt[e] \notin {Connecting, Raised} /\ attempt'[e] \notin {Connecting, Raised}
      /\ attempt'[e] \notin Made
    BY <1>1, <1>2, MadeFacts DEF Idle, Connecting, Raised
<1>4. \A x \in Outbound : Sought(x)' <=> Sought(x)
    BY <1>0, <1>1, <1>2, <1>3 DEF Sought
<1>5. \A x \in Outbound : attempt'[x] \in Made => attempt[x] \in Made
    BY <1>0, <1>2, <1>3
<1> QED
    BY <1>1, <1>4, <1>5, AdvancedMoves DEF LInv

\* A task is cancelled just after connection_made: the peer is known, so it
\* may be sought again or dropped.
LEMMA ConnectTimesOutLateMoves ==
    ASSUME LInv, NEW e \in Endpoint, ConnectTimesOutLate(e) PROVE StepMoves
<1>0. attempt \in [Endpoint -> Task] /\ Outbound \subseteq Endpoint /\ e \in Outbound
    BY NodeConstants, MadeFacts DEF LInv, IInv, TypeOK, OnlyOutbound, ConnectTimesOutLate
<1>1. /\ Advanced /\ UNCHANGED pending_connection_requests /\ HandleConnectionClosed(e, TRUE)
      /\ attempt' = [attempt EXCEPT ![e] = Idle] /\ attempt[e] \in Made
    BY ConnectTimesOutLateKeeps DEF ConnectTimesOutLate, LInv
<1>2. attempt'[e] = Idle /\ \A x \in Endpoint \ {e} : attempt'[x] = attempt[x]
    BY <1>0, <1>1
<1>3. /\ e \in dropped' \/ Sought(e)'
      /\ \A x \in Endpoint \ {e} : retry_alarms'[x] = retry_alarms[x]
      /\ retry_alarms[e] > 0 => retry_alarms'[e] > 0
      /\ \A x \in Outbound \ {e} : x \in dropped' <=> x \in dropped
    BY <1>0, <1>1, ClosedMoves DEF LInv
<1>4. \A x \in Outbound \ {e} : Sought(x)' <=> Sought(x)
    BY <1>0, <1>1, <1>2, <1>3 DEF Sought
<1>5. pool.by_ipport[e] = NoConn /\ ~Sought(e) => e \in dropped
    BY <1>0, <1>1, LifeStates DEF LInv, Remembered
<1>6. \A x \in Outbound : attempt'[x] \in Made => attempt[x] \in Made
    BY <1>0, <1>2, MadeFacts
<1>7. \A x \in Outbound : pool.by_ipport[x] = NoConn =>
          /\ Sought(x) => Sought(x)' \/ x \in dropped'
          /\ ~Sought(x) /\ ~Sought(x)' => (x \in dropped <=> x \in dropped')
    BY <1>3, <1>4, <1>5
<1> QED
    BY <1>1, <1>6, <1>7, AdvancedMoves DEF LInv

\* A retry is due.
LEMMA RetryMoves ==
    ASSUME LInv, NEW e \in Endpoint, RetryInitClientSocket(e) PROVE StepMoves
<1>0. retry_alarms \in [Endpoint -> Nat] /\ Outbound \subseteq Endpoint /\ e \in Outbound
    BY NodeConstants DEF LInv, IInv, TypeOK, OnlyOutbound, RetryInitClientSocket
<1>1. /\ Advanced /\ UNCHANGED attempt /\ pending_connection_requests' = EnqueueConnections({e})
      /\ retry_alarms' = [retry_alarms EXCEPT ![e] = @ - 1] /\ dropped' = dropped \ {e}
      /\ retry_alarms[e] > 0
    BY SameAdvances DEF RetryInitClientSocket
<1>2. Sought(e) /\ Sought(e)'
    BY <1>0, <1>1, EnqueueFacts DEF LInv, Sought
<1>3. \A x \in Outbound \ {e} : (Sought(x)' <=> Sought(x)) /\ (x \in dropped' <=> x \in dropped)
    BY <1>0, <1>1 DEF Sought, EnqueueConnections
<1> QED
    BY <1>1, <1>2, <1>3, AdvancedMoves DEF LInv

\* on_updated_peers asks for the peers that are missing.
LEMMA OnUpdatedPeersMoves ==
    ASSUME LInv, NEW models \in SUBSET Outbound, OnUpdatedPeers(models) PROVE StepMoves
<1>1. PICK es \in SUBSET Outbound :
          /\ pending_connection_requests' = EnqueueConnections(es) /\ dropped' = dropped \ es
          /\ UNCHANGED <<attempt, retry_alarms>>
    BY DEF OnUpdatedPeers, LInv, IInv, TypeOK
<1>2. Advanced
    BY OnUpdatedPeersKeeps DEF LInv
<1>3. \A e \in es : Sought(e)'
    BY <1>1, EnqueueFacts DEF LInv
<1>4. \A e \in Outbound \ es : (Sought(e)' <=> Sought(e)) /\ (e \in dropped' <=> e \in dropped)
    BY <1>1 DEF Sought, EnqueueConnections
<1> QED
    BY <1>1, <1>2, <1>3, <1>4, AdvancedMoves DEF LInv

\* The entry of an endpoint whose connection is the same is the same.
LEMMA SameEntry ==
    ASSUME IInv, IInv', NEW e \in Endpoint,
           \A c \in Conn : (c \in pool.by_fileno /\ conns[c].endpoint = e)
                            <=> (c \in pool'.by_fileno /\ conns'[c].endpoint = e)
    PROVE  pool'.by_ipport[e] = pool.by_ipport[e]
<1>1. pool.by_fileno \subseteq Conn /\ pool'.by_fileno \subseteq Conn
    BY DEF IInv, TypeOK, Pool
<1>2. /\ pool.by_ipport[e] # NoConn => /\ pool.by_ipport[e] \in pool.by_fileno
                                       /\ conns[pool.by_ipport[e]].endpoint = e
      /\ \A c \in pool.by_fileno : pool.by_ipport[conns[c].endpoint] = c
    BY DEF IInv, PoolAgrees
<1>3. /\ pool'.by_ipport[e] # NoConn => /\ pool'.by_ipport[e] \in pool'.by_fileno
                                        /\ conns'[pool'.by_ipport[e]].endpoint = e
      /\ \A c \in pool'.by_fileno : pool'.by_ipport[conns'[c].endpoint] = c
    BY DEF IInv, PoolAgrees
<1> QED
    BY SMTT(60), <1>1, <1>2, <1>3

\* A peer that the step is not about.
LEMMA OthersMove ==
    ASSUME IInv, IInv', NEW e \in Outbound, NEW c \in Conn,
           conns[c].endpoint # e \/ c \notin pool.by_fileno,
           conns'[c].endpoint # e \/ c \notin pool'.by_fileno,
           pool'.by_fileno \ {c} = pool.by_fileno \ {c},
           \A x \in Conn \ {c} : conns'[x] = conns[x],
           Sought(e)' <=> Sought(e), e \in dropped' <=> e \in dropped
    PROVE  MayMove(e)
<1>0. e \in Endpoint
    BY NodeConstants
<1>1. pool'.by_ipport[e] = pool.by_ipport[e]
  <2>1. \A x \in Conn : (x \in pool.by_fileno /\ conns[x].endpoint = e)
                         <=> (x \in pool'.by_fileno /\ conns'[x].endpoint = e)
      OBVIOUS
  <2> QED
      BY <1>0, <2>1, SameEntry
<1>2. CASE pool.by_ipport[e] = NoConn
    BY <1>1, <1>2, UnpooledMoves
<1>3. CASE pool.by_ipport[e] # NoConn
  <2> DEFINE d == pool.by_ipport[e]
  <2>1. d \in pool.by_fileno /\ conns[d].endpoint = e /\ d \in Conn
      BY <1>0, <1>3 DEF IInv, PoolAgrees, TypeOK, Pool
  <2>2. conns'[d] = conns[d]
      BY <2>1
  <2>3. Becomes(conns[d], conns'[d])
      BY <2>2 DEF Becomes
  <2> QED
      BY <1>1, <1>3, <2>3, PooledMoves
<1> QED
    BY <1>2, <1>3

\* on_connection_added: the socket is turned away, or the handshake begins.
LEMMA OnConnectionAddedMoves ==
    ASSUME LInv, NEW e \in Endpoint, NEW from_me \in BOOLEAN, from_me <=> e \in Outbound,
           from_me => attempt[e] = Connecting, OnConnectionAdded(e, from_me)
    PROVE  StepMoves
<1>0. /\ attempt \in [Endpoint -> Task] /\ Outbound \subseteq Endpoint /\ IInv /\ IInv' /\ FromMe
      /\ from_me => Sought(e)
    BY SMTT(60), NodeConstants, OnConnectionAddedKeeps DEF LInv, IInv, TypeOK, Sought
<1>1. UNCHANGED <<pending_connection_requests, retry_alarms>>
    BY DEF OnConnectionAdded
<1>2. ASSUME NEW task, attempt' = [attempt EXCEPT ![e] = task]
      PROVE  /\ attempt'[e] = task
             /\ \A x \in Outbound \ {e} : attempt'[x] = attempt[x] /\ (Sought(x)' <=> Sought(x))
    BY <1>0, <1>1, <1>2 DEF Sought
<1>3. CASE TurnAway(e, IF from_me THEN TurnedAway ELSE Idle)
  <2>1. /\ Advanced /\ dropped' = dropped \cup ({e} \cap Outbound)
        /\ attempt' = [attempt EXCEPT ![e] = IF from_me THEN TurnedAway ELSE Idle]
      BY <1>3, SameAdvances DEF TurnAway
  <2>2. /\ attempt'[e] = IF from_me THEN TurnedAway ELSE Idle
        /\ \A x \in Outbound \ {e} : attempt'[x] = attempt[x] /\ (Sought(x)' <=> Sought(x))
      BY <1>2, <2>1
  <2>3. \A x \in Outbound : /\ Sought(x) => Sought(x)' \/ x \in dropped'
                            /\ ~Sought(x) /\ ~Sought(x)' => (x \in dropped <=> x \in dropped')
      BY <1>0, <2>1, <2>2
  <2> QED
      BY <1>0, <2>1, <2>2, <2>3, AdvancedMoves
<1>4. CASE AssertionFails(e, IF from_me THEN Raised ELSE Idle)
  <2>1. /\ Advanced /\ UNCHANGED dropped
        /\ attempt' = [attempt EXCEPT ![e] = IF from_me THEN Raised ELSE Idle]
      BY <1>4, SameAdvances DEF AssertionFails
  <2>2. /\ attempt'[e] = IF from_me THEN Raised ELSE Idle
        /\ \A x \in Outbound \ {e} : attempt'[x] = attempt[x] /\ (Sought(x)' <=> Sought(x))
      BY <1>2, <2>1
  <2>3. from_me => Sought(e)' /\ attempt'[e] \notin Made
      BY <2>2, MadeFacts DEF Sought
  <2>4. \A x \in Outbound : /\ Sought(x) => Sought(x)' \/ x \in dropped'
                            /\ ~Sought(x) /\ ~Sought(x)' => (x \in dropped <=> x \in dropped')
      BY <1>0, <2>1, <2>2, <2>3
  <2> QED
      BY <1>0, <2>1, <2>2, <2>3, <2>4, AdvancedMoves
<1>5. ASSUME NEW c \in Conn, AddConnection(c, e, from_me, IF from_me THEN c ELSE Idle)
      PROVE  StepMoves
  <2>1. /\ attempt' = [attempt EXCEPT ![e] = IF from_me THEN c ELSE Idle]
        /\ dropped' = dropped \ {e} /\ pool.by_ipport[e] = NoConn
      BY <1>5 DEF AddConnection
  <2>2. /\ attempt'[e] = IF from_me THEN c ELSE Idle
        /\ \A x \in Outbound \ {e} : attempt'[x] = attempt[x] /\ (Sought(x)' <=> Sought(x))
      BY <1>2, <2>1
  <2>3. /\ pool'.by_fileno = pool.by_fileno \cup {c}
        /\ \A x \in Conn \ {c} : conns'[x] = conns[x]
        /\ conns'[c].endpoint = e /\ conns'[c].from_me = from_me
        /\ conns'[c].alive /\ ~conns'[c].established
      BY SMTT(60), <1>0, <1>5, AddConnectionFacts
  <2>4. c \notin pool.by_fileno /\ pool.by_fileno \subseteq Conn
      BY <1>0, <1>5, GoneFacts DEF AddConnection, IsFree, IInv, AlarmsOwned, Pooled, TypeOK, Pool
  <2>5. ASSUME NEW x \in Outbound \ {e} PROVE MayMove(x)
      BY SMTT(60), <1>0, <2>1, <2>2, <2>3, <2>4, OthersMove
  <2>6. pool'.by_ipport[e] = c /\ c # NoConn
      BY SMTT(60), <1>0, <2>3, PoolConstants DEF IInv, PoolAgrees
  <2>7. LifeOf(e)' = "handshake"
      BY <2>3, <2>6, LifeStatesNext
  <2>8. e \in Outbound => MayMove(e)
    <3>1. e \in Outbound => LifeOf(e) = "seeking"
        BY <1>0, <2>1, LifeStates
    <3> QED
        BY <2>7, <3>1, MovesFacts DEF MayMove
  <2>9. FromMe'
      BY <1>0, <2>3, <2>4 DEF FromMe
  <2>10. \A x \in Outbound : attempt'[x] \in Made => attempt[x] \in Made \/ LifeOf(x)' # "unknown"
      BY <2>2, <2>7
  <2> QED
      BY <2>5, <2>8, <2>9, <2>10 DEF StepMoves
<1> QED
    BY <1>3, <1>4, <1>5 DEF OnConnectionAdded

\* connection_lost: the peer is sought again or dropped; an SDN is dropped only
\* if its connection was closed for good.
LEMMA ConnectionLostMoves ==
    ASSUME LInv, NEW c \in Conn, ConnectionLost(c) PROVE StepMoves
<1> DEFINE old == conns[c]
           conn == IF old.alive THEN CloseByDefault(old) ELSE old
<1> PICK e : e = old.endpoint
    OBVIOUS
<1>0. IInv /\ IInv' /\ FromMe /\ Outbound \subseteq Endpoint
    BY NodeConstants, ConnectionLostKeeps DEF LInv
<1>1. conns \in [Conn -> Connection] /\ Proper(old) /\ old \in Connection /\ pool \in Pool
    BY <1>0, AllProper DEF IInv, TypeOK
<1>2. /\ conn.endpoint = e /\ conn.should_retry \in BOOLEAN
      /\ old.alive => conn.should_retry = old.from_me
      /\ ~old.alive => conn.should_retry = old.should_retry
    BY <1>1 DEF CloseByDefault, MarkForClose, Connection
<1>3. /\ c \in pool.by_fileno
      /\ pool' = PoolDelete(pool, c, conn.endpoint, conn.type, conn.peer_id)
      /\ HandleConnectionClosed(conn.endpoint, conn.should_retry)
      /\ conns' = [conns EXCEPT ![c] = Dispose(conn)]
      /\ UNCHANGED <<pending_connection_requests, attempt>>
    BY DEF ConnectionLost, Pooled
<1> HIDE DEF conn
<1>4. /\ pool'.by_fileno = pool.by_fileno \ {c}
      /\ \A x \in Conn \ {c} : conns'[x] = conns[x]
    BY <1>1, <1>3 DEF PoolDelete, Pool
<1>5. pool.by_ipport[e] = c /\ e \in Endpoint /\ c # NoConn
    BY <1>0, <1>1, <1>3, PoolConstants DEF IInv, PoolAgrees, Connection
<1>6. FromMe'
    BY <1>0, <1>4 DEF FromMe, IInv, TypeOK, Pool
<1>7. pool'.by_ipport[e] = NoConn
  <2>1. pool'.by_ipport[e] # NoConn => /\ pool'.by_ipport[e] \in pool'.by_fileno
                                       /\ conns'[pool'.by_ipport[e]].endpoint = e
      BY <1>0, <1>5 DEF IInv, PoolAgrees
  <2>2. \A x \in pool'.by_fileno : conns[x].endpoint = conns'[x].endpoint /\ x # c
      BY <1>4 DEF IInv, TypeOK, Pool, LInv
  <2>3. \A x \in pool.by_fileno : pool.by_ipport[conns[x].endpoint] = x
      BY <1>0 DEF IInv, PoolAgrees
  <2> QED
      BY SMTT(60), <1>4, <1>5, <2>1, <2>2, <2>3
<1>8. CASE e \notin Outbound
  <2>1. dropped' = dropped /\ \A x \in Outbound : retry_alarms'[x] = retry_alarms[x]
    <3>1. retry_alarms \in [Endpoint -> Nat]
        BY <1>0 DEF IInv, TypeOK
    <3> QED
        BY <1>0, <1>2, <1>3, <1>8, <3>1 DEF HandleConnectionClosed
  <2>2. \A x \in Outbound : Sought(x)' <=> Sought(x)
      BY <1>3, <2>1 DEF Sought
  <2>3. ASSUME NEW x \in Outbound PROVE MayMove(x)
      BY <1>0, <1>4, <1>8, <2>1, <2>2, OthersMove
  <2> QED
      BY <1>3, <1>6, <2>3 DEF StepMoves
<1>9. CASE e \in Outbound
  <2>1. /\ e \in dropped' \/ Sought(e)'
        /\ conn.should_retry /\ SDN \subseteq BuildType[e] => Sought(e)'
        /\ \A x \in Endpoint \ {e} : retry_alarms'[x] = retry_alarms[x]
        /\ \A x \in Outbound \ {e} : x \in dropped' <=> x \in dropped
      BY <1>0, <1>2, <1>3, <1>9, ClosedMoves
  <2>2. \A x \in Outbound \ {e} : Sought(x)' <=> Sought(x)
      BY <1>0, <1>3, <2>1 DEF Sought
  <2>3. ASSUME NEW x \in Outbound \ {e} PROVE MayMove(x)
      BY <1>0, <1>4, <2>1, <2>2, OthersMove
  <2>4. MayMove(e)
    <3>1. old.from_me
        BY <1>0, <1>3, <1>9 DEF FromMe
    <3>2. /\ LifeOf(e) \in {"handshake", "up", "closing", "released"}
          /\ LifeOf(e) # "released" => conn.should_retry
        BY <1>2, <1>5, <3>1, LifeStates
    <3>3. CASE Sought(e)'
      <4>1. LifeOf(e)' = "seeking"
          BY <1>7, <3>3, LifeStatesNext
      <4> QED
          BY <3>2, <4>1, MovesFacts DEF MayMove
    <3>4. CASE ~Sought(e)'
      <4>1. LifeOf(e)' = "dropped"
          BY <1>7, <2>1, <3>4, LifeStatesNext
      <4>2. LifeOf(e) # "released" => ~(SDN \subseteq BuildType[e])
          BY <2>1, <3>2, <3>4
      <4> QED
          BY <3>2, <4>1, <4>2, MovesFacts DEF MayMove
    <3> QED
        BY <3>3, <3>4
  <2> QED
      BY <1>3, <1>6, <2>3, <2>4 DEF StepMoves
<1> QED
    BY <1>8, <1>9

-----------------------------------------------------------------------------
(* The theorem                                                             *)

\* A node that has just started knows the peers of its command line.
LEMMA LifeInit ==
    ASSUME Init PROVE LInv /\ Life!Init
<1>1. IInv
    BY InitHolds
<1>2. /\ pool = EmptyPool /\ Outbound \subseteq Endpoint /\ dropped = {}
      /\ attempt = [e \in Endpoint |-> IF e \in outbound_peers THEN Connecting ELSE Idle]
    BY NodeConstants DEF Init
<1>3. FromMe
    BY <1>2 DEF FromMe, EmptyPool
<1>4. Remembered
    BY <1>2, MadeFacts DEF Remembered
<1>5. \A e \in Outbound : LifeOf(e) \in {"unknown", "seeking"}
  <2>1. \A e \in Outbound : pool.by_ipport[e] = NoConn
      BY <1>2 DEF EmptyPool
  <2> QED
      BY <1>2, <2>1, LifeStates
<1>6. Life!Init
    BY <1>5 DEF Life!Init
<1> QED
    BY <1>1, <1>3, <1>4, <1>6 DEF LInv

\* Every step keeps the invariant and moves the lives of the peers as
\* ConnectionLife allows.
LEMMA LifeStep ==
    ASSUME LInv, [Next]_vars PROVE LInv' /\ StepMoves
<1>1. IInv /\ IInv' /\ FromMe
    BY NextKeeps DEF LInv
<1>2. StepMoves
  <2>1. CASE DequeueConnectionRequests
      BY <2>1, DequeueMoves
  <2>2. ASSUME NEW e \in Endpoint, TaskEnds(e) PROVE StepMoves
    <3>1. CASE ConnectFails(e)
        BY <3>1, ConnectFailsMoves
    <3>2. CASE ConnectionMade(e)
      <4>1. e \in Outbound
          BY <1>1, <3>2 DEF ConnectionMade, IInv, OnlyOutbound, Connecting, Idle
      <4> QED
          BY <3>2, <4>1, OnConnectionAddedMoves DEF ConnectionMade
    <3>3. CASE ConnectReturns(e)
        BY <3>3, ConnectReturnsMoves
    <3> QED
        BY <2>2, <3>1, <3>2, <3>3 DEF TaskEnds
  <2>3. ASSUME NEW e \in Endpoint, ConnectTimesOutLate(e) PROVE StepMoves
      BY <2>3, ConnectTimesOutLateMoves
  <2>4. ASSUME NEW e \in Endpoint, Accept(e) PROVE StepMoves
      BY <2>4, OnConnectionAddedMoves DEF Accept
  <2>5. ASSUME NEW c \in Conn, NEW same_network \in BOOLEAN, MsgHello(c, same_network) PROVE StepMoves
      BY <1>1, <2>5, MsgHelloKeeps, ConnsMove DEF MsgHello
  <2>6. ASSUME NEW c \in Conn,
               \/ MsgAck(c) \/ MsgPong(c) \/ MsgOther(c) \/ MsgBad(c) \/ MsgUnrecoverable(c)
               \/ ConnectionTimeout(c) \/ SendPing(c) \/ PongMsgTimeout(c)
        PROVE  StepMoves
    <3>1. NodeUnchanged
        BY <2>6 DEF MsgAck, MsgPong, MsgOther, MsgBad, MsgUnrecoverable, ConnectionTimeout,
                    SendPing, PongMsgTimeout
    <3>2. Advanced
        BY <1>1, <2>6, OneConnSteps
    <3> QED
        BY <1>1, <3>1, <3>2, ConnsMove
  <2>7. CASE Messages
      BY <2>5, <2>6, <2>7 DEF Messages
  <2>8. ASSUME NEW c \in Conn, ConnectionLost(c) PROVE StepMoves
      BY <2>8, ConnectionLostMoves
  <2>9. CASE Alarms
      BY <2>6, <2>9, RetryMoves DEF Alarms
  <2>10. ASSUME NEW models \in SUBSET (Outbound \cap network) \ {{}}, OnUpdatedPeers(models)
         PROVE  StepMoves
      BY <2>10, OnUpdatedPeersMoves
  <2>11. CASE UNCHANGED vars
      BY <1>1, <2>11, SameAdvances, ConnsMove DEF vars, NodeUnchanged
  <2> QED
      BY <2>1, <2>2, <2>3, <2>4, <2>7, <2>8, <2>9, <2>10, <2>11 DEF Next
<1>3. Remembered'
  <2>1. ASSUME NEW e \in Outbound, attempt'[e] \in Made PROVE LifeOf(e)' # "unknown"
    <3>1. CASE attempt[e] \in Made
      <4>1. LifeOf(e) # "unknown" /\ MayMove(e)
          BY <1>2, <3>1 DEF LInv, Remembered, StepMoves
      <4> QED
          BY <4>1, MovesFacts DEF MayMove
    <3> QED
        BY <1>2, <2>1, <3>1 DEF StepMoves
  <2> QED
      BY <2>1 DEF Remembered
<1> QED
    BY <1>1, <1>2, <1>3 DEF LInv, StepMoves

\* NodeConnections implements ConnectionLife but for its liveness: whatever the
\* order of callbacks, messages and alarms, every peer begins unknown or sought
\* and moves only as ConnectionLife lets it.  No known peer is ever forgotten,
\* and an SDN is given up only when its socket is turned away or its
\* connection is closed for good.
THEOREM LivesAsPromised == Spec => Life!Init /\ [][Life!Next]_[e \in Outbound |-> LifeOf(e)]
<1>1. Init => LInv /\ Life!Init
    BY LifeInit
<1>2. LInv /\ [Next]_vars => LInv' /\ StepMoves
    BY LifeStep
<1>3. StepMoves => [Life!Next]_[e \in Outbound |-> LifeOf(e)]
  <2> SUFFICES ASSUME StepMoves PROVE Life!Next
      OBVIOUS
  <2>1. \A e \in Outbound : LifeOf(e)' \in Life!States
      BY LifeStatesNext
  <2>2. \A e \in Outbound : MayMove(e)
      BY DEF StepMoves
  <2> QED
      BY <2>1, <2>2 DEF Life!Next, MayMove
<1> QED
    BY <1>1, <1>2, <1>3, PTL DEF Spec
=============================================================================
