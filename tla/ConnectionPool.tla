--------------------------- MODULE ConnectionPool ---------------------------
(***************************************************************************)
(* The five indexes of bxcommon/connections/connection_pool.py, and the    *)
(* operations on them as functions from a pool to a pool.  A connection    *)
(* stands for its file number: asyncio calls connection_lost before it     *)
(* closes a socket, so no two pooled connections share one.  An absent key *)
(* of a dictionary is NoConn, {} or 0.                                     *)
(***************************************************************************)
EXTENDS Integers, FiniteSets

CONSTANTS Conn, Endpoint, NodeId, Ip, ConnectionType, NoConn, NoId,
          IpOf          \* the ip address of an endpoint

ASSUME PoolConstants ==
    /\ NoConn \notin Conn
    /\ NoId \notin NodeId
    /\ IpOf \in [Endpoint -> Ip]

Pool == [by_fileno : SUBSET Conn,
         by_ipport : [Endpoint -> Conn \cup {NoConn}],
         by_connection_type : [ConnectionType -> SUBSET Conn],
         by_node_id : [NodeId -> Conn \cup {NoConn}],
         count_conn_by_ip : [Ip -> Int]]

EmptyPool == [by_fileno |-> {},
              by_ipport |-> [e \in Endpoint |-> NoConn],
              by_connection_type |-> [t \in ConnectionType |-> {}],
              by_node_id |-> [n \in NodeId |-> NoConn],
              count_conn_by_ip |-> [i \in Ip |-> 0]]

\* The assertion of add is up to its callers.
PoolAdd(pool, c, e, t) ==
    [pool EXCEPT !.by_fileno = @ \cup {c},
                 !.by_ipport[e] = c,
                 !.by_connection_type[t] = @ \cup {c},
                 !.count_conn_by_ip[IpOf[e]] = @ + 1]

IndexConnNodeId(pool, n, c) == [pool EXCEPT !.by_node_id[n] = c]

HasConnection(pool, e, n) ==
    \/ n # NoId /\ pool.by_node_id[n] # NoConn
    \/ pool.by_ipport[e] # NoConn

GetByIpport(pool, e, n) ==
    IF pool.by_ipport[e] # NoConn THEN pool.by_ipport[e] ELSE pool.by_node_id[n]

\* An entry for a type that holds one connection goes as a whole, whichever
\* connection that is, and so does the entry for a node id.
DeleteFromType(conns, c) ==
    IF Cardinality(conns) = 1 THEN {} ELSE conns \ {c}

DeleteFromCount(n) == IF n = 1 THEN 0 ELSE n - 1

\* Mutant: only a connection without a node id leaves that index.
DeleteNodeIdKept(by_node_id, c, n) == by_node_id

DeleteNodeId(by_node_id, c, n) ==
    IF n # NoId THEN [by_node_id EXCEPT ![n] = NoConn] ELSE by_node_id

PoolDelete(pool, c, e, t, n) ==
    [pool EXCEPT !.by_fileno = @ \ {c},
                 !.by_ipport[e] = IF @ = c THEN NoConn ELSE @,
                 !.by_connection_type[t] = DeleteFromType(@, c),
                 !.count_conn_by_ip[IpOf[e]] = DeleteFromCount(@),
                 !.by_node_id = DeleteNodeId(@, c, n)]

UpdateConnectionType(pool, c, e, old, new, n) ==
    IndexConnNodeId(PoolAdd(PoolDelete(pool, c, e, old, n), c, e, new), n, c)
=============================================================================
