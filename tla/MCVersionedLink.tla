-------------------------- MODULE MCVersionedLink --------------------------
(***************************************************************************)
(* The scenarios that TLC runs: every type of message from every version,  *)
(* the messages that have converters between every two versions that have  *)
(* formats of their own, and a broadcast cut at the places where something *)
(* begins or ends.                                                         *)
(***************************************************************************)
EXTENDS VersionedLink

Versions == MIN_SUPPORTED_PROTOCOL_VERSION..CURRENT_PROTOCOL_VERSION + 1

Message(n, flag, time, ip, broadcast_type) ==
    [n |-> n, flag |-> flag, time |-> time, ip |-> ip, broadcast_type |-> broadcast_type]

Course(version, to, type, m, cancelled, cuts) ==
    [opening |-> "hello", version |-> version, to |-> to, type |-> type, m |-> m,
     cancelled |-> cancelled, cuts |-> cuts]

EveryType ==
    {Course(v, IF type = "bdnstats" THEN 0 ELSE 23, type, Message(2, 3, 10, 4, 1), FALSE, {}) :
        v \in Versions, type \in KnownTypes(11)}
    \union {Course(v, 23, type, Message(n, 3, 10, 4, 1), FALSE, {}) :
        v \in {12, 18, 22, 24}, type \in Types, n \in {0, 1}}

\* Versions with formats of their own.
Distinct == {6, 7, 8, 10, 13, 15, 17, 18, 19, 20, 21, 23}

EveryPair ==
    {Course(v, to, "tx", Message(2, flag, 15, 4, 1), FALSE, {}) :
        v \in Distinct, to \in Distinct, flag \in {0, 298}}
    \union {Course(v, to, type, Message(2, 2, 10, 4, 1), FALSE, {}) :
        v \in {6, 8, 9, 13, 14, 15, 23}, to \in {6, 8, 9, 13, 14, 15, 23},
        type \in {"txtxs", "broadcast", "pong"}}

Cuts == {3, 20, 23, 24, 45, 66, 70, 87, 139, 142, 144}

EveryCut ==
    {Course(v, 0, "broadcast", Message(1, 0, 10, 4, 1), cancelled, {a, b}) :
        v \in {5, 8, 23}, cancelled \in BOOLEAN, a \in Cuts, b \in Cuts}
    \union {Course(v, 0, "broadcast", Message(1, 0, 10, 4, 2), FALSE, {a}) :
        v \in {9, 15, 21, 22}, a \in Cuts}

\* Peers that do not say hello first.
OtherOpenings ==
    {[Course(23, 0, type, Message(1, 0, 10, 4, 1), FALSE, {a}) EXCEPT !.opening = opening] :
        opening \in {"http", "no hello"}, type \in {"ack", "ping", "broadcast"}, a \in {3, 20, 23, 24}}

\* The statistics of gateways with nodes at IPv6 addresses.
SixAddresses ==
    {Course(v, 0, "bdnstats", Message(n, 0, 10, 6, 1), FALSE, {}) : v \in {18, 19, 23}, n \in 1..2}

\* Conversions that are wrong: version 7 splices transactions at the places of an older
\* layout, version 14 copies the memory twice, version 17 converts the statistics of many
\* nodes as those of one.
Wrong(c) ==
    \/ c.type = "tx" /\ 7 \in {c.version, c.to}
    \/ c.type = "bdnstats" /\ c.version \in {11, 12, 13, 14, 17}

Courses == EveryType \union EveryPair \union EveryCut \union OtherOpenings \union SixAddresses

MCScenarios == {c \in Courses : ~Wrong(c)}

\* With those that raise, of version 18.
WrongConversions == {c \in Courses : Wrong(c) \/ (c \in SixAddresses /\ c.version = 18)}

\* A peer of the one version without a factory.
Version22 == {Course(22, 0, "ping", Message(0, 0, 10, 4, 1), FALSE, {a}) : a \in Cuts}

=============================================================================
