--------------------------- MODULE ConnectionLife ---------------------------
(***************************************************************************)
(* What a node promises about each peer it connects to, without sockets,   *)
(* pools, alarms or retries: the life of the connection with the peer.     *)
(*                                                                         *)
(*   unknown    the node never heard of the peer                           *)
(*   seeking    a try is under way, requested, or due later                *)
(*   handshake  a socket is open, messages are exchanged                   *)
(*   up         the handshake is over                                      *)
(*   closing    the socket is being closed and will be tried again         *)
(*   released   the socket is being closed for good                        *)
(*   dropped    the node has given the peer up, until it hears of it again *)
(***************************************************************************)
CONSTANTS Peer,
          Persistent    \* peers that are retried for ever

VARIABLE life

States == {"unknown", "seeking", "handshake", "up", "closing", "released", "dropped"}

\* A peer that is known is never forgotten: it is sought, open, or dropped.
\* A persistent peer is only dropped on purpose: a new socket is turned away,
\* or the open one was closed for good.
Moves(p) ==
    {<<"unknown", "seeking">>, <<"dropped", "seeking">>,
     <<"seeking", "handshake">>, <<"seeking", "dropped">>,
     <<"handshake", "up">>,
     <<"released", "dropped">>, <<"released", "seeking">>}
    \cup {"handshake", "up"} \X {"closing", "released", "seeking"}
    \cup {<<"closing", "seeking">>}
    \cup (IF p \in Persistent THEN {}
          ELSE {"handshake", "up", "closing"} \X {"dropped"})

Init == life \in [Peer -> {"unknown", "seeking"}]

Next ==
    /\ life' \in [Peer -> States]
    /\ \A p \in Peer : life'[p] = life[p] \/ <<life[p], life'[p]>> \in Moves(p)

\* A socket is neither left half open nor half closed.
Passes(p, state) == life[p] = state ~> life[p] # state

Spec == /\ Init /\ [][Next]_life
        /\ \A p \in Peer : \A s \in {"handshake", "closing", "released"} : Passes(p, s)
=============================================================================
