----------------------------- MODULE TxSyncProofs ----------------------------
(***************************************************************************)
(* Proofs about TxSync, for any short ids, transactions, number of syncs   *)
(* and assignments: a sync has one message at a time under way, and the    *)
(* peer that is told that a sync is complete has heard of all of it but    *)
(* what the sync has passed over.                                          *)
(***************************************************************************)
EXTENDS TxSync, TLAPS

USE ZenonT(40)

TxItem == [tx : Tx, sids : SUBSET Sid]

SnapshotSync == [mode : {"snapshot"}, id : Nat, late : BOOLEAN, sync_tx_content : BOOLEAN,
                 snap : SUBSET Tx, promised : SUBSET Sid]
TimeSync == [mode : {"time"}, id : Nat, late : BOOLEAN, start_time : Nat,
             snapshot_cache_keys : SUBSET Tx, promised : SUBSET Sid]
BufferSync == [mode : {"buffer"}, id : Nat, late : BOOLEAN, txs_buffer : SUBSET TxItem,
               promised : SUBSET Sid]
Sync == SnapshotSync \cup TimeSync \cup BufferSync

TxsMessage == [type : {"txs"}, sync : Nat, items : SUBSET TxItem]
PingMessage == [type : {"ping"}, sync : Nat]
CompleteMessage == [type : {"complete"}, sync : Nat, promised : SUBSET Sid]
Message == TxsMessage \cup PingMessage \cup CompleteMessage

Entry == [sid : Sid, place : Nat, at : Nat]

CacheTypes ==
    /\ expire_queue \subseteq Entry
    /\ assigned \subseteq Sid
    /\ has_contents \subseteq Tx
    /\ now \in Nat

LinkTypes ==
    /\ wire \in Seq(Message)
    /\ pongs \in Seq(Nat)
    /\ active \in BOOLEAN
    /\ peer \in [sids : SUBSET Sid, missing : SUBSET (Nat \X Sid)]

SyncTypes ==
    /\ sync \in Sync \cup {NoSync}
    /\ syncs \in Nat
    /\ sync_ping_latency \in {"absent", "none", "known"}
    /\ nonces \subseteq Nat

Types == CacheTypes /\ LinkTypes /\ SyncTypes

-----------------------------------------------------------------------------
(* One message at a time.                                                  *)

\* Nothing on the way is of a sync to come, and what is remembered of pings is of the
\* sync under way.
Current ==
    /\ \A i \in DOMAIN wire : wire[i].sync <= syncs
    /\ \A i \in DOMAIN pongs : pongs[i] <= syncs
    /\ sync # NoSync => sync.id = syncs /\ nonces \subseteq {syncs}
    /\ sync = NoSync => sync_ping_latency = "absent" /\ nonces = {}

IsTxs(i, id) == wire[i].type = "txs" /\ wire[i].sync = id
IsPing(i, id) == wire[i].type = "ping" /\ wire[i].sync = id

\* Of a sync there is one ping or pong on the way, and a message of items only before
\* the ping.
OnePingOf(id) ==
    /\ \A i, j \in DOMAIN wire : IsPing(i, id) /\ IsPing(j, id) => i = j
    /\ \A i, j \in DOMAIN pongs : pongs[i] = id /\ pongs[j] = id => i = j
    /\ \A i \in DOMAIN pongs, j \in DOMAIN wire :
          pongs[i] = id => ~IsPing(j, id) /\ ~IsTxs(j, id)
    /\ \A i, j \in DOMAIN wire : IsPing(i, id) /\ IsTxs(j, id) => j < i

NothingOutOf(id) ==
    /\ \A i \in DOMAIN wire : ~IsPing(i, id) /\ ~IsTxs(i, id)
    /\ \A i \in DOMAIN pongs : pongs[i] # id

\* That holds of the sync under way, and nothing of it is out when an answer is known
\* or no ping was sent.
OnePing == sync # NoSync => OnePingOf(syncs)
NothingOut == sync # NoSync /\ sync_ping_latency # "none" => NothingOutOf(syncs)

ThrottledInv == Types /\ Current /\ OnePing /\ NothingOut /\ Throttled

-----------------------------------------------------------------------------
(* What a sync owes.                                                       *)

\* The times of the queue are past, and all that is assigned is in it.
Queues ==
    /\ \A e \in expire_queue : e.at > 0 /\ e.at <= now
    /\ \A s \in assigned : \E e \in expire_queue : e.sid = s

Tells(m, s) == m.type = "txs" /\ \E i \in m.items : s \in i.sids

\* The peer has heard of s, or will with the first n messages on the way, or the sync
\* has passed it over.
Heard(id, s, n) ==
    s \in peer.sids \/ (\E j \in 1..n : Tells(wire[j], s)) \/ <<id, s>> \in passed_over

\* The next calls of the sync c come to s.
ToCome(c, s, queue) ==
    \/ c.mode = "snapshot" /\ TxOf[s] \in c.snap
    \/ c.mode = "time" /\ \E e \in queue : e.sid = s /\ e.at > c.start_time
    \/ c.mode = "buffer" /\ \E i \in c.txs_buffer : s \in i.sids

\* What a sync has promised and not sent is still to come.
OwedOf(c, s) ==
    /\ s \in assigned
    /\ Heard(c.id, s, Len(wire)) \/ ToCome(c, s, expire_queue)
    /\ c.mode = "snapshot" /\ c.sync_tx_content => TxOf[s] \in has_contents
    /\ c.mode = "time" /\ TxOf[s] \in c.snapshot_cache_keys => Heard(c.id, s, Len(wire))

Owed(c) ==
    /\ c.mode = "time" => c.start_time <= now
    /\ \A s \in c.promised : OwedOf(c, s)

SyncOwed == active /\ sync # NoSync => Owed(sync)

\* What a complete message promises comes before it.
CompleteKept ==
    \A k \in DOMAIN wire : wire[k].type = "complete" =>
        \A s \in wire[k].promised : Heard(wire[k].sync, s, k - 1)

TellsInv == Types /\ Queues /\ SyncOwed /\ CompleteKept /\ MissingOnlyPassedOver

-----------------------------------------------------------------------------
(* Types.                                                                  *)

\* What holds of the next message of any of the three kinds of sync.
MessageOf(s, m) ==
    /\ m.items \in SUBSET TxItem
    /\ m.unmapped \cap assigned = {}
    /\ m.next \in Sync
    /\ m.next.mode = s.mode /\ m.next.id = s.id /\ m.next.promised = s.promised
    /\ m.done \in BOOLEAN

\* An item lists the short ids that are assigned to its transaction.
LEMMA ItemType ==
    ASSUME CacheTypes, NEW t \in Tx
    PROVE  Item(t) \in TxItem
BY DEF CacheTypes, Item, ShortIds, TxItem

\* create_txs_service_msg takes transactions off the snapshot.
LEMMA FromSnapshotType ==
    ASSUME CacheTypes, NEW s \in SnapshotSync, NEW m \in FromSnapshot(s)
    PROVE  MessageOf(s, m)
<1>1. PICK popped \in SUBSET s.snap \ {{}} :
          m = [items |-> {Item(t) : t \in {u \in popped : s.sync_tx_content => u \in has_contents}},
               unmapped |-> {}, passed |-> {}, next |-> [s EXCEPT !.snap = @ \ popped],
               done |-> popped = s.snap]
    BY DEF FromSnapshot
<1>2. s.snap \subseteq Tx
    BY DEF SnapshotSync
<1>3. m.items \in SUBSET TxItem
    BY <1>1, <1>2, ItemType
<1>4. [s EXCEPT !.snap = @ \ popped] \in SnapshotSync
    BY <1>1 DEF SnapshotSync
<1>5. m.next.mode = s.mode /\ m.next.id = s.id /\ m.next.promised = s.promised
    BY <1>1 DEF SnapshotSync
<1> QED
    BY <1>1, <1>3, <1>4, <1>5 DEF MessageOf, Sync

\* A sync by time that moves on.
Moved(s, t, K) == [s EXCEPT !.start_time = t, !.snapshot_cache_keys = @ \cup K]

\* What moves, and what does not.
LEMMA TimeSyncMoves ==
    ASSUME NEW s \in TimeSync, NEW t \in Nat, NEW K \in SUBSET Tx
    PROVE  /\ Moved(s, t, K) \in TimeSync
           /\ Moved(s, t, K).mode = s.mode /\ Moved(s, t, K).id = s.id
           /\ Moved(s, t, K).promised = s.promised /\ Moved(s, t, K).start_time = t
           /\ Moved(s, t, K).snapshot_cache_keys = s.snapshot_cache_keys \cup K
<1> DEFINE o == [s EXCEPT !.start_time = t]
           n == [o EXCEPT !.snapshot_cache_keys = s.snapshot_cache_keys \cup K]
<1>1. /\ o \in TimeSync /\ o.snapshot_cache_keys = s.snapshot_cache_keys
      /\ o.mode = s.mode /\ o.id = s.id /\ o.promised = s.promised /\ o.start_time = t
    BY DEF TimeSync
<1>2. s.snapshot_cache_keys \cup K \in SUBSET Tx
    BY DEF TimeSync
<1>3. /\ n \in TimeSync
      /\ n.mode = s.mode /\ n.id = s.id /\ n.promised = s.promised
      /\ n.start_time = t /\ n.snapshot_cache_keys = s.snapshot_cache_keys \cup K
  <2> HIDE DEF o
  <2> QED
      BY <1>1, <1>2 DEF TimeSync
<1>4. n = Moved(s, t, K)
    BY DEF Moved
<1> QED
    BY <1>3, <1>4

\* create_txs_service_msg_from_time moves start_time on.
LEMMA FromTimeType ==
    ASSUME CacheTypes, NEW s \in TimeSync, NEW m \in FromTime(s)
    PROVE  MessageOf(s, m)
<1> DEFINE tx(e) == TxOf[e.sid]
           seen(end) == {e \in Behind(s) : e.place <= end.place}
           next(end) == Moved(s, Timestamp(end), {tx(e) : e \in seen(end) \cap Met(s)})
<1>1. Met(s) \subseteq Behind(s) /\ Behind(s) \subseteq Entry
    BY DEF Met, Behind, CacheTypes
<1>2. ASSUME NEW entries \in SUBSET Behind(s)
      PROVE  /\ {Item(tx(e)) : e \in entries \cap Met(s)} \in SUBSET TxItem
             /\ {tx(e) : e \in entries \cap Met(s)} \in SUBSET Tx
    BY <1>1, ItemType, SyncConstants DEF Entry
<1>3. ASSUME NEW end \in Entry
      PROVE  /\ next(end) \in TimeSync
             /\ next(end).mode = s.mode /\ next(end).id = s.id /\ next(end).promised = s.promised
  <2>1. seen(end) \in SUBSET Behind(s)
      OBVIOUS
  <2>2. {tx(e) : e \in seen(end) \cap Met(s)} \in SUBSET Tx
      BY <1>2, <2>1
  <2>3. Timestamp(end) \in Nat
      BY DEF Timestamp, Entry
  <2> QED
      BY SMTT(60), <2>2, <2>3, TimeSyncMoves
<1>4. CASE m = [items |-> {Item(tx(e)) : e \in Behind(s) \cap Met(s)},
                unmapped |-> {e.sid : e \in Behind(s)} \ assigned, passed |-> {}, next |-> s, done |-> TRUE]
  <2>1. m.items \in SUBSET TxItem
      BY <1>2, <1>4
  <2> QED
      BY <1>4, <2>1 DEF MessageOf, Sync
<1>5. ASSUME NEW end \in Entry,
             m = [items |-> {Item(tx(e)) : e \in seen(end) \cap Met(s)},
                  unmapped |-> {e.sid : e \in seen(end)} \ assigned, passed |-> Passed(s, end),
                  next |-> next(end), done |-> FALSE]
      PROVE  MessageOf(s, m)
  <2>1. m.items \in SUBSET TxItem
      BY <1>2, <1>5
  <2>2. m.next = next(end) /\ m.done = FALSE /\ m.unmapped \cap assigned = {}
      BY <1>5
  <2>3. /\ m.next \in TimeSync
        /\ m.next.mode = s.mode /\ m.next.id = s.id /\ m.next.promised = s.promised
      BY <1>3, <2>2
  <2> QED
      BY <2>1, <2>2, <2>3 DEF MessageOf, Sync
<1>6. \/ m = [items |-> {Item(tx(e)) : e \in Behind(s) \cap Met(s)},
              unmapped |-> {e.sid : e \in Behind(s)} \ assigned, passed |-> {}, next |-> s, done |-> TRUE]
      \/ \E end \in Met(s) :
             m = [items |-> {Item(tx(e)) : e \in seen(end) \cap Met(s)},
                  unmapped |-> {e.sid : e \in seen(end)} \ assigned, passed |-> Passed(s, end),
                  next |-> next(end), done |-> FALSE]
    BY DEF FromTime, Moved
<1> QED
    BY <1>1, <1>4, <1>5, <1>6

\* create_txs_service_msg_from_buffer takes items off the buffer.
LEMMA FromBufferType ==
    ASSUME NEW s \in BufferSync, NEW m \in FromBuffer(s)
    PROVE  MessageOf(s, m)
<1>1. PICK sent \in SUBSET s.txs_buffer :
          m = [items |-> sent, unmapped |-> {}, passed |-> {}, next |-> [s EXCEPT !.txs_buffer = @ \ sent],
               done |-> sent = s.txs_buffer]
    BY DEF FromBuffer
<1>2. m.items \in SUBSET TxItem
    BY <1>1 DEF BufferSync
<1>3. [s EXCEPT !.txs_buffer = @ \ sent] \in BufferSync
    BY <1>1 DEF BufferSync
<1>4. m.next.mode = s.mode /\ m.next.id = s.id /\ m.next.promised = s.promised
    BY <1>1 DEF BufferSync
<1> QED
    BY <1>1, <1>2, <1>3, <1>4 DEF MessageOf, Sync

\* All three together.
LEMMA NextMessagesType ==
    ASSUME CacheTypes, NEW s \in Sync, NEW m \in NextMessages(s)
    PROVE  MessageOf(s, m)
<1>1. CASE s \in SnapshotSync
    BY <1>1, FromSnapshotType DEF NextMessages, SnapshotSync
<1>2. CASE s \in TimeSync
    BY <1>2, FromTimeType DEF NextMessages, TimeSync
<1>3. CASE s \in BufferSync
    BY <1>3, FromBufferType DEF NextMessages, BufferSync
<1> QED
    BY <1>1, <1>2, <1>3 DEF Sync

-----------------------------------------------------------------------------
(* What a call of send_tx_service_sync_txs and its like comes to.          *)

Txs(s, m) == [type |-> "txs", sync |-> s.id, items |-> m.items]
Ping(s) == [type |-> "ping", sync |-> s.id]
Complete(s, p) == [type |-> "complete", sync |-> s.id, promised |-> p]

Idle == sync' = NoSync /\ sync_ping_latency' = "absent" /\ nonces' = {}

\* The sync is given up, or there was nothing in the snapshot.
Ends(s, queue) ==
    /\ Idle /\ expire_queue' = queue /\ UNCHANGED passed_over
    /\ \E p \in {{}, s.promised} :
          /\ wire' = IF active THEN wire \o <<Complete(s, p)>> ELSE wire
          /\ p # {} => s.mode = "snapshot" /\ s.snap = {}

\* The answer to a ping has not come.
Waits(s, queue) ==
    /\ sync_ping_latency = "none"
    /\ sync' = s /\ expire_queue' = queue
    /\ UNCHANGED <<wire, sync_ping_latency, nonces, passed_over>>

Sends(s, queue, m) ==
    /\ active /\ sync_ping_latency # "none"
    /\ expire_queue' = {e \in queue : e.sid \notin m.unmapped}
    /\ passed_over' = passed_over \cup ({s.id} \X m.passed)

SendsMore(s, queue, m) ==
    /\ Sends(s, queue, m) /\ ~m.done
    /\ wire' = wire \o <<Txs(s, m), Ping(s)>>
    /\ sync' = m.next /\ sync_ping_latency' = "none" /\ nonces' = nonces \cup {s.id}

SendsLast(s, queue, m) ==
    /\ Sends(s, queue, m) /\ m.done /\ Idle
    /\ wire' = wire \o <<Txs(s, m), Ping(s), Complete(s, s.promised)>>

\* The messages have their types.
LEMMA MessageTypes ==
    ASSUME NEW s \in Sync
    PROVE  /\ \A m : m.items \in SUBSET TxItem => Txs(s, m) \in Message
           /\ Ping(s) \in Message
           /\ Complete(s, {}) \in Message /\ Complete(s, s.promised) \in Message
BY DEF Sync, SnapshotSync, TimeSync, BufferSync, Txs, Ping, Complete, Message, TxsMessage,
       PingMessage, CompleteMessage

\* Those are all the cases.
LEMMA CallDoes ==
    ASSUME CacheTypes, LinkTypes, NEW s \in Sync, NEW queue, SendTxServiceSyncTxs(s, queue)
    PROVE  \/ Ends(s, queue) \/ Waits(s, queue)
           \/ \E m \in NextMessages(s) : SendsMore(s, queue, m) \/ SendsLast(s, queue, m)
<1>0. wire \o <<>> = wire
    BY SMTT(60) DEF LinkTypes
<1>1. CASE GiveUp(s) /\ SyncComplete(s, <<>>, nonces, TRUE) /\ expire_queue' = queue /\ UNCHANGED passed_over
  <2>1. Sent(<<>> \o <<Complete(s, {})>>) = IF active THEN wire \o <<Complete(s, {})>> ELSE wire
      BY SMTT(60) DEF Sent
  <2> QED
      BY <1>1, <2>1 DEF SyncComplete, UpdateTxSyncComplete, Ends, Idle, Complete
<1>2. CASE /\ ~GiveUp(s) /\ s.mode = "snapshot" /\ s.snap = {}
           /\ SyncComplete(s, <<>>, nonces, FALSE) /\ expire_queue' = queue /\ UNCHANGED passed_over
  <2>1. Sent(<<>> \o <<Complete(s, s.promised)>>) =
            IF active THEN wire \o <<Complete(s, s.promised)>> ELSE wire
      BY SMTT(60) DEF Sent
  <2> QED
      BY <1>2, <2>1 DEF SyncComplete, UpdateTxSyncComplete, Ends, Idle, Complete
<1>3. CASE /\ sync_ping_latency = "none" /\ Reschedule(s, <<>>) /\ expire_queue' = queue
           /\ UNCHANGED <<sync_ping_latency, nonces, passed_over>>
    BY <1>0, <1>3 DEF Reschedule, Sent, Waits
<1>4. ASSUME ~GiveUp(s), sync_ping_latency # "none", NEW m \in NextMessages(s),
             expire_queue' = {e \in queue : e.sid \notin m.unmapped},
             passed_over' = passed_over \cup ({s.id} \X m.passed), ~m.done,
             Reschedule(m.next, Messages(s, m.items)), sync_ping_latency' = "none",
             nonces' = nonces \cup {s.id}
      PROVE  SendsMore(s, queue, m)
    BY <1>4 DEF GiveUp, Reschedule, Sent, Messages, SendsMore, Sends, Txs, Ping
<1>5. ASSUME ~GiveUp(s), sync_ping_latency # "none", NEW m \in NextMessages(s),
             expire_queue' = {e \in queue : e.sid \notin m.unmapped},
             passed_over' = passed_over \cup ({s.id} \X m.passed), m.done,
             SyncComplete(s, Messages(s, m.items), nonces \cup {s.id}, FALSE)
      PROVE  SendsLast(s, queue, m)
  <2>1. active /\ wire' = wire \o (<<Txs(s, m), Ping(s)>> \o <<Complete(s, s.promised)>>)
      BY <1>5 DEF GiveUp, SyncComplete, Sent, Messages, Txs, Ping, Complete
  <2>2. wire \o (<<Txs(s, m), Ping(s)>> \o <<Complete(s, s.promised)>>)
            = wire \o <<Txs(s, m), Ping(s), Complete(s, s.promised)>>
    <3>1. wire \in Seq(Message)
        BY DEF LinkTypes
    <3>2. Txs(s, m) \in Message /\ Ping(s) \in Message /\ Complete(s, s.promised) \in Message
        BY MessageTypes, NextMessagesType DEF MessageOf
    <3> QED
        BY SMTT(60), <3>1, <3>2
  <2>3. Idle
      BY <1>5 DEF SyncComplete, UpdateTxSyncComplete, Idle
  <2> QED
      BY <1>5, <2>1, <2>2, <2>3 DEF SendsLast, Sends
<1> QED
    BY <1>1, <1>2, <1>3, <1>4, <1>5 DEF SendTxServiceSyncTxs

\* One, two or three messages more on the wire.
LEMMA WireGrows ==
    ASSUME NEW q \in Seq(Message), NEW a \in Message, NEW b \in Message, NEW c \in Message
    PROVE  /\ q \o <<a>> \in Seq(Message) /\ Len(q \o <<a>>) = Len(q) + 1
           /\ q \o <<a, b>> \in Seq(Message) /\ Len(q \o <<a, b>>) = Len(q) + 2
           /\ q \o <<a, b, c>> \in Seq(Message) /\ Len(q \o <<a, b, c>>) = Len(q) + 3
           /\ \A i \in 1..Len(q) : /\ (q \o <<a>>)[i] = q[i] /\ (q \o <<a, b>>)[i] = q[i]
                                   /\ (q \o <<a, b, c>>)[i] = q[i]
           /\ (q \o <<a>>)[Len(q) + 1] = a
           /\ (q \o <<a, b>>)[Len(q) + 1] = a /\ (q \o <<a, b>>)[Len(q) + 2] = b
           /\ (q \o <<a, b, c>>)[Len(q) + 1] = a /\ (q \o <<a, b, c>>)[Len(q) + 2] = b
           /\ (q \o <<a, b, c>>)[Len(q) + 3] = c
BY SMTT(60)

\* The last call adds three.
LEMMA ThreeMore ==
    ASSUME NEW q \in Seq(Message), NEW a \in Message, NEW b \in Message, NEW c \in Message,
           NEW w, w = q \o <<a, b, c>>
    PROVE  /\ DOMAIN w = DOMAIN q \cup {Len(q) + 1, Len(q) + 2, Len(q) + 3}
           /\ \A i \in DOMAIN q : i < Len(q) + 1 /\ w[i] = q[i]
           /\ w[Len(q) + 1] = a /\ w[Len(q) + 2] = b /\ w[Len(q) + 3] = c
BY SMTT(60)

\* A call keeps the types of what it changes.
LEMMA CallTypes ==
    ASSUME Types, NEW s \in Sync, NEW queue \in SUBSET Entry, SendTxServiceSyncTxs(s, queue)
    PROVE  /\ expire_queue' \subseteq Entry
           /\ sync' \in Sync \cup {NoSync}
           /\ sync_ping_latency' \in {"absent", "none", "known"} /\ nonces' \subseteq Nat
           /\ wire' \in Seq(Message)
<1>0. wire \in Seq(Message) /\ nonces \subseteq Nat /\ s.id \in Nat
    BY DEF Types, LinkTypes, SyncTypes, Sync, SnapshotSync, TimeSync, BufferSync
<1>1. CASE Ends(s, queue)
  <2>1. PICK p \in {{}, s.promised} : wire' = IF active THEN wire \o <<Complete(s, p)>> ELSE wire
      BY <1>1 DEF Ends
  <2>2. Complete(s, p) \in Message
      BY <2>1, MessageTypes
  <2>3. wire' \in Seq(Message)
      BY SMTT(60), <1>0, <2>1, <2>2
  <2> QED
      BY <1>1, <2>3 DEF Ends, Idle
<1>2. CASE Waits(s, queue)
    BY <1>0, <1>2 DEF Waits, Types, SyncTypes
<1>3. ASSUME NEW m \in NextMessages(s), SendsMore(s, queue, m) \/ SendsLast(s, queue, m)
      PROVE  /\ expire_queue' \subseteq Entry
             /\ sync' \in Sync \cup {NoSync}
             /\ sync_ping_latency' \in {"absent", "none", "known"} /\ nonces' \subseteq Nat
             /\ wire' \in Seq(Message)
  <2>1. m.next \in Sync /\ m.items \in SUBSET TxItem
      BY NextMessagesType DEF Types, MessageOf
  <2>2. wire' \in Seq(Message)
    <3>1. Txs(s, m) \in Message /\ Ping(s) \in Message /\ Complete(s, s.promised) \in Message
        BY <2>1, MessageTypes
    <3>2. \/ wire' = wire \o <<Txs(s, m), Ping(s)>>
          \/ wire' = wire \o <<Txs(s, m), Ping(s), Complete(s, s.promised)>>
        BY <1>3 DEF SendsMore, SendsLast
    <3>3. /\ wire \o <<Txs(s, m), Ping(s)>> \in Seq(Message)
          /\ wire \o <<Txs(s, m), Ping(s), Complete(s, s.promised)>> \in Seq(Message)
        BY <1>0, <3>1, WireGrows
    <3> QED
        BY <3>2, <3>3
  <2>3. expire_queue' \subseteq Entry
      BY <1>3 DEF SendsMore, SendsLast, Sends
  <2>4. CASE SendsMore(s, queue, m)
    <3>1. sync' = m.next /\ sync_ping_latency' = "none" /\ nonces' = nonces \cup {s.id}
        BY <2>4 DEF SendsMore
    <3>2. nonces' \subseteq Nat
        BY <1>0, <3>1
    <3>3. sync' \in Sync \cup {NoSync}
        BY <2>1, <3>1
    <3> QED
        BY <2>2, <2>3, <3>1, <3>2, <3>3
  <2>5. CASE SendsLast(s, queue, m)
      BY <2>2, <2>3, <2>5 DEF SendsLast, Idle
  <2> QED
      BY <1>3, <2>4, <2>5
<1> QED
    BY <1>1, <1>2, <1>3, CallDoes DEF Types

\* The arguments of a first call, and the queue that get_snapshot leaves.
SnapshotArgs(taken, contents) ==
    [mode |-> "snapshot", id |-> syncs + 1, late |-> FALSE, sync_tx_content |-> contents,
     snap |-> taken.snap,
     promised |-> {s \in assigned :
         TxOf[s] \in taken.snap /\ (contents => TxOf[s] \in has_contents)}]
TimeArgs == [mode |-> "time", id |-> syncs + 1, late |-> FALSE, start_time |-> 0,
             snapshot_cache_keys |-> {}, promised |-> assigned]
BufferArgs == [mode |-> "buffer", id |-> syncs + 1, late |-> FALSE,
               txs_buffer |-> {Item(TxOf[s]) : s \in assigned}, promised |-> assigned]

\* A queue that has lost entries that lead nowhere, and no other.
Purged(queue) ==
    queue \subseteq expire_queue /\ \A e \in expire_queue : e.sid \in assigned => e \in queue

FirstCall ==
    \/ \E taken \in Snapshots, contents \in BOOLEAN :
          SendTxServiceSyncTxs(SnapshotArgs(taken, contents), taken.queue)
    \/ SendTxServiceSyncTxs(TimeArgs, expire_queue)
    \/ SendTxServiceSyncTxs(BufferArgs, expire_queue)

\* The snapshots hold transactions, and the queue keeps what is assigned.
LEMMA SnapshotsTake ==
    ASSUME CacheTypes, NEW taken \in Snapshots
    PROVE  taken.snap \subseteq Tx /\ Purged(taken.queue)
<1> DEFINE met(from) == {e.sid : e \in {f \in expire_queue : f.at > from}}
<1>1. CASE taken = [snap |-> has_contents, queue |-> expire_queue]
    BY <1>1 DEF CacheTypes, Purged
<1>2. ASSUME NEW from \in 0..now,
             taken = [snap |-> {TxOf[s] : s \in met(from) \cap assigned},
                      queue |-> {e \in expire_queue : e.sid \notin met(from) \ assigned}]
      PROVE  taken.snap \subseteq Tx /\ Purged(taken.queue)
  <2>1. taken.snap = {TxOf[s] : s \in met(from) \cap assigned}
      BY <1>2
  <2>2. taken.queue = {e \in expire_queue : e.sid \notin met(from) \ assigned}
      BY <1>2
  <2>3. taken.snap \subseteq Tx
      BY <2>1, SyncConstants DEF CacheTypes
  <2>4. Purged(taken.queue)
      BY <2>2 DEF Purged
  <2> QED
      BY <2>3, <2>4
<1> QED
    BY <1>1, <1>2 DEF Snapshots

\* The arguments are those of a sync.
LEMMA FirstArgs ==
    ASSUME Types
    PROVE  /\ \A taken \in Snapshots, contents \in BOOLEAN : SnapshotArgs(taken, contents) \in SnapshotSync
           /\ TimeArgs \in TimeSync
           /\ BufferArgs \in BufferSync
<1>1. ASSUME NEW taken \in Snapshots, NEW contents \in BOOLEAN
      PROVE  SnapshotArgs(taken, contents) \in SnapshotSync
  <2>1. taken.snap \in SUBSET Tx
      BY SnapshotsTake DEF Types
  <2>2. {s \in assigned : TxOf[s] \in taken.snap /\ (contents => TxOf[s] \in has_contents)} \in SUBSET Sid
      BY DEF Types, CacheTypes
  <2>3. syncs + 1 \in Nat
      BY SMTT(60) DEF Types, SyncTypes
  <2> QED
      BY <2>1, <2>2, <2>3 DEF SnapshotArgs, SnapshotSync
<1>2. TimeArgs \in TimeSync
    BY SMTT(60) DEF TimeArgs, TimeSync, Types, CacheTypes, SyncTypes
<1>3. BufferArgs \in BufferSync
  <2>1. {Item(TxOf[s]) : s \in assigned} \in SUBSET TxItem
      BY ItemType, SyncConstants DEF Types, CacheTypes
  <2> QED
      BY SMTT(60), <2>1 DEF BufferArgs, BufferSync, Types, CacheTypes, SyncTypes
<1> QED
    BY <1>1, <1>2, <1>3

\* A sync starts with a first call, and goes on with the arguments it has.
LEMMA Calls ==
    ASSUME Types
    PROVE  /\ StartSync => /\ sync = NoSync /\ active /\ syncs' = syncs + 1 /\ FirstCall
                           /\ UNCHANGED <<assigned, has_contents, now, pongs, active, peer>>
           /\ SyncAlarm => /\ sync \in Sync /\ SendTxServiceSyncTxs(sync, expire_queue)
                           /\ UNCHANGED <<assigned, has_contents, now, syncs, pongs, active, peer>>
<1>1. ASSUME StartSync
      PROVE  /\ sync = NoSync /\ active /\ syncs' = syncs + 1 /\ FirstCall
             /\ UNCHANGED <<assigned, has_contents, now, pongs, active, peer>>
    BY <1>1 DEF StartSync, FirstCall, SnapshotArgs, TimeArgs, BufferArgs
<1> QED
    BY <1>1 DEF SyncAlarm, Types, SyncTypes

\* The queue that a first call works on.
LEMMA FirstCallOf ==
    ASSUME Types, FirstCall
    PROVE  \E s \in Sync, queue \in SUBSET Entry :
              /\ SendTxServiceSyncTxs(s, queue) /\ Purged(queue)
              /\ \/ \E taken \in Snapshots, contents \in BOOLEAN : s = SnapshotArgs(taken, contents)
                 \/ s = TimeArgs \/ s = BufferArgs
<1>1. expire_queue \in SUBSET Entry /\ Purged(expire_queue)
    BY DEF Types, CacheTypes, Purged
<1>2. \A taken \in Snapshots : taken.queue \in SUBSET Entry /\ Purged(taken.queue)
    BY SnapshotsTake DEF Types, CacheTypes, Purged
<1>3. /\ \A taken \in Snapshots, contents \in BOOLEAN : SnapshotArgs(taken, contents) \in Sync
      /\ TimeArgs \in Sync
      /\ BufferArgs \in Sync
    BY FirstArgs DEF Sync
<1> QED
    BY <1>1, <1>2, <1>3 DEF FirstCall

\* Each change of the cache keeps its types.
LEMMA AssignTypes ==
    ASSUME Types, NEW s \in Sid, Assign(s)
    PROVE  CacheTypes'
<1>1. now' \in Nat /\ assigned' \subseteq Sid /\ has_contents' \subseteq Tx
    BY SMTT(60) DEF Assign, Types, CacheTypes
<1>2. \A e \in expire_queue : [e EXCEPT !.at = now'] \in Entry
    BY <1>1 DEF Types, CacheTypes, Entry
<1>3. [sid |-> s, place |-> now', at |-> now'] \in Entry
    BY <1>1 DEF Entry
<1>4. expire_queue' \subseteq Entry
    BY <1>2, <1>3 DEF Assign, Types, CacheTypes
<1> QED
    BY <1>1, <1>4 DEF CacheTypes

\* The arguments of a sync whose time is up, or that promises less.
LEMMA SyncChanges ==
    ASSUME NEW s \in Sync, NEW P \in SUBSET Sid
    PROVE  /\ [s EXCEPT !.late = TRUE] \in Sync
           /\ [s EXCEPT !.promised = P] \in Sync
           /\ [s EXCEPT !.late = TRUE] # NoSync /\ [s EXCEPT !.promised = P] # NoSync
           /\ s # NoSync
           /\ [s EXCEPT !.late = TRUE].id = s.id /\ [s EXCEPT !.promised = P].id = s.id
<1>0. TRUE \in BOOLEAN
    OBVIOUS
<1>1. ASSUME NEW b \in BOOLEAN
      PROVE  /\ s \in SnapshotSync => [s EXCEPT !.late = b] \in SnapshotSync
             /\ s \in TimeSync => [s EXCEPT !.late = b] \in TimeSync
             /\ s \in BufferSync => [s EXCEPT !.late = b] \in BufferSync
    BY DEF SnapshotSync, TimeSync, BufferSync
<1>2. /\ s \in SnapshotSync => [s EXCEPT !.promised = P] \in SnapshotSync
      /\ s \in TimeSync => [s EXCEPT !.promised = P] \in TimeSync
      /\ s \in BufferSync => [s EXCEPT !.promised = P] \in BufferSync
    BY DEF SnapshotSync, TimeSync, BufferSync
<1>3. [s EXCEPT !.late = TRUE] \in Sync /\ [s EXCEPT !.promised = P] \in Sync
    BY <1>0, <1>1, <1>2 DEF Sync
<1>4. \A c \in Sync : c # NoSync
    BY SMTT(60) DEF Sync, SnapshotSync, TimeSync, BufferSync, NoSync
<1>5. [s EXCEPT !.late = TRUE].id = s.id /\ [s EXCEPT !.promised = P].id = s.id
    BY DEF Sync, SnapshotSync, TimeSync, BufferSync
<1> QED
    BY <1>3, <1>4, <1>5

\* What becomes of the cache and of the sync when short ids of t are removed.
Removed(t, gone) ==
    /\ gone \subseteq ShortIds(t)
    /\ assigned' = assigned \ gone
    /\ has_contents' = has_contents \/ (gone = ShortIds(t) /\ has_contents' = has_contents \ {t})
    /\ expire_queue' \subseteq expire_queue
    /\ \A e \in expire_queue : e.sid \notin gone => e \in expire_queue'
    /\ sync' = IF sync = NoSync THEN sync ELSE [sync EXCEPT !.promised = sync.promised \ gone]
    /\ UNCHANGED <<now, syncs, sync_ping_latency, nonces, wire, pongs, active, peer, passed_over>>

\* One of them or all are.
LEMMA RemovesSome ==
    ASSUME NEW t \in Tx, RemoveShortIds(t)
    PROVE  \E gone : Removed(t, gone)
<1>1. PICK gone \in {ShortIds(t)} \cup {{s} : s \in ShortIds(t)}, left \in BOOLEAN :
          /\ assigned' = assigned \ gone
          /\ has_contents' \in {has_contents} \cup IF gone = ShortIds(t) THEN {has_contents \ {t}} ELSE {}
          /\ expire_queue' = IF left THEN expire_queue ELSE {e \in expire_queue : e.sid \notin gone}
          /\ sync' = IF sync = NoSync THEN sync ELSE [sync EXCEPT !.promised = @ \ gone]
    BY DEF RemoveShortIds
<1>2. gone \subseteq ShortIds(t)
    BY <1>1
<1>3. has_contents' = has_contents \/ (gone = ShortIds(t) /\ has_contents' = has_contents \ {t})
    BY <1>1
<1>4. expire_queue' \subseteq expire_queue /\ \A e \in expire_queue : e.sid \notin gone => e \in expire_queue'
    BY <1>1
<1>5. UNCHANGED <<now, syncs, sync_ping_latency, nonces, wire, pongs, active, peer, passed_over>>
    BY DEF RemoveShortIds, link
<1> QED
    BY <1>1, <1>2, <1>3, <1>4, <1>5 DEF Removed

\* Messages arrive as they are.
LEMMA ReceiveTypes ==
    ASSUME Types, Receive
    PROVE  LinkTypes'
<1>0. wire \in Seq(Message) /\ wire # <<>>
    BY DEF Types, LinkTypes, Receive
<1>1. Head(wire) \in Message /\ wire' \in Seq(Message)
    BY SMTT(60), <1>0 DEF Receive
<1>2. pongs' \in Seq(Nat)
  <2>1. Head(wire).sync \in Nat
      BY <1>1 DEF Message, TxsMessage, PingMessage, CompleteMessage
  <2>2. pongs \in Seq(Nat) /\ pongs' \in {pongs, Append(pongs, Head(wire).sync)}
      BY DEF Receive, Types, LinkTypes
  <2> QED
      BY SMTT(60), <2>1, <2>2
<1>3. peer' \in [sids : SUBSET Sid, missing : SUBSET (Nat \X Sid)]
  <2>0. peer \in [sids : SUBSET Sid, missing : SUBSET (Nat \X Sid)]
      BY DEF Types, LinkTypes
  <2>1. ASSUME Head(wire).type = "txs"
        PROVE  UNION {i.sids : i \in Head(wire).items} \subseteq Sid
      BY <1>1, <2>1 DEF Message, TxsMessage, PingMessage, CompleteMessage, TxItem
  <2>2. ASSUME Head(wire).type = "complete"
        PROVE  {Head(wire).sync} \X (Head(wire).promised \ peer.sids) \subseteq Nat \X Sid
      BY <1>1, <2>2 DEF Message, TxsMessage, PingMessage, CompleteMessage
  <2> QED
      BY SMTT(60), <2>0, <2>1, <2>2 DEF Receive
<1> QED
    BY <1>1, <1>2, <1>3 DEF LinkTypes, Receive, Types

\* Every step keeps the types.
LEMMA TypesStep ==
    ASSUME Types, [Next]_vars
    PROVE  Types'
<1>1. CASE StartSync
  <2>1. PICK s \in Sync, queue \in SUBSET Entry : SendTxServiceSyncTxs(s, queue)
      BY <1>1, Calls, FirstCallOf
  <2> QED
      BY SMTT(60), <1>1, <2>1, CallTypes, Calls DEF Types, CacheTypes, LinkTypes, SyncTypes
<1>2. CASE SyncAlarm
  <2>1. sync \in Sync /\ SendTxServiceSyncTxs(sync, expire_queue) /\ expire_queue \in SUBSET Entry
      BY <1>2, Calls DEF Types, CacheTypes
  <2> QED
      BY <1>2, <2>1, CallTypes, Calls DEF Types, CacheTypes, LinkTypes, SyncTypes
<1>3. CASE TimeIsUp
  <2>1. sync \in Sync /\ sync' = [sync EXCEPT !.late = TRUE]
      BY <1>3 DEF TimeIsUp, Types, SyncTypes
  <2>2. sync' \in Sync
      BY <2>1, SyncChanges
  <2> QED
      BY <1>3, <2>2 DEF TimeIsUp, Types, CacheTypes, LinkTypes, SyncTypes, cache, link
<1>4. ASSUME NEW s \in Sid, Assign(s)
      PROVE  Types'
  <2>1. CacheTypes'
      BY <1>4, AssignTypes
  <2> QED
      BY <1>4, <2>1 DEF Assign, Types, LinkTypes, SyncTypes, link
<1>5. ASSUME NEW t \in Tx, RemoveShortIds(t)
      PROVE  Types'
  <2>0. PICK gone : Removed(t, gone)
      BY <1>5, RemovesSome
  <2>1. ASSUME sync \in Sync
        PROVE  sync.promised \ gone \in SUBSET Sid
      BY <2>1 DEF Sync, SnapshotSync, TimeSync, BufferSync
  <2>2. sync' \in Sync \cup {NoSync}
      BY <2>0, <2>1, SyncChanges DEF Removed, Types, SyncTypes
  <2> QED
      BY <2>0, <2>2 DEF Removed, Types, CacheTypes, LinkTypes, SyncTypes
<1>6. CASE Receive
    BY <1>6, ReceiveTypes DEF Receive, Types, CacheTypes, SyncTypes, cache
<1>7. CASE MsgPong
    BY SMTT(60), <1>7 DEF MsgPong, Types, CacheTypes, LinkTypes, SyncTypes, cache
<1>8. CASE Close
  <2>1. <<>> \in Seq(Message) /\ <<>> \in Seq(Nat)
      BY SMTT(60)
  <2> QED
      BY <1>8, <2>1 DEF Close, Types, CacheTypes, LinkTypes, SyncTypes, cache
<1>9. CASE UNCHANGED vars
    BY <1>9 DEF vars, Types, CacheTypes, LinkTypes, SyncTypes
<1> QED
    BY <1>1, <1>2, <1>3, <1>4, <1>5, <1>6, <1>7, <1>8, <1>9 DEF Next

\* The first state has them.
LEMMA TypesInit == Init => Types
BY SMTT(60), SyncConstants DEF Init, Types, CacheTypes, LinkTypes, SyncTypes, Entry

-----------------------------------------------------------------------------
(* One message at a time.                                                  *)

\* What a call relies on, of the sync with this id.
Ready(id) ==
    /\ \A i \in DOMAIN wire : wire[i].sync <= id
    /\ \A i \in DOMAIN pongs : pongs[i] <= id
    /\ nonces \subseteq {id}
    /\ OnePingOf(id)
    /\ sync_ping_latency # "none" => NothingOutOf(id)
    /\ Throttled

\* Messages that are not of items leave the throttle alone.
LEMMA CallThrottles ==
    ASSUME Types, NEW s \in Sync, NEW queue \in SUBSET Entry, SendTxServiceSyncTxs(s, queue),
           syncs' = s.id, pongs' = pongs, Ready(s.id)
    PROVE  Current' /\ OnePing' /\ NothingOut' /\ Throttled'
<1>0. /\ wire \in Seq(Message) /\ pongs \in Seq(Nat) /\ s.id \in Nat
      /\ \A i \in DOMAIN wire : wire[i] \in Message
    BY SMTT(60) DEF Types, LinkTypes, SyncTypes, Sync, SnapshotSync, TimeSync, BufferSync
<1>1. \A c \in Sync : c # NoSync
    BY SMTT(60) DEF Sync, SnapshotSync, TimeSync, BufferSync, NoSync
<1>2. CASE Ends(s, queue)
  <2>1. PICK p \in {{}, s.promised} : wire' = IF active THEN wire \o <<Complete(s, p)>> ELSE wire
      BY <1>2 DEF Ends
  <2>2. Complete(s, p).sync = s.id /\ Complete(s, p).type = "complete"
      BY DEF Complete
  <2>. Complete(s, p) \in Message
      BY <2>1, MessageTypes
  <2>3. /\ DOMAIN wire \subseteq DOMAIN wire'
        /\ \A i \in DOMAIN wire : wire'[i] = wire[i]
        /\ \A i \in DOMAIN wire' \ DOMAIN wire : wire'[i] = Complete(s, p)
      BY SMTT(60), <1>0, <2>1, <2>2
  <2>4. sync' = NoSync /\ sync_ping_latency' = "absent" /\ nonces' = {}
      BY <1>2 DEF Ends, Idle
  <2>5. Throttled'
      BY <2>2, <2>3 DEF Ready, Throttled
  <2>6. \A i \in DOMAIN wire' : wire'[i].sync <= s.id
      BY SMTT(60), <1>0, <2>2, <2>3 DEF Ready
  <2> QED
      BY <2>4, <2>5, <2>6 DEF Current, OnePing, NothingOut, Ready
<1>3. CASE Waits(s, queue)
    BY SMTT(60), <1>1, <1>3 DEF Waits, Current, OnePing, NothingOut, Ready, OnePingOf, NothingOutOf,
       Throttled, IsPing, IsTxs
<1>4. ASSUME NEW m \in NextMessages(s), SendsMore(s, queue, m)
      PROVE  Current' /\ OnePing' /\ NothingOut' /\ Throttled'
  <2>1. wire' = wire \o <<Txs(s, m), Ping(s)>> /\ sync_ping_latency # "none"
      BY <1>4 DEF SendsMore, Sends
  <2>2. sync' = m.next /\ sync_ping_latency' = "none" /\ nonces' = nonces \cup {s.id}
      BY <1>4 DEF SendsMore
  <2>3. m.next \in Sync /\ m.next.id = s.id /\ m.items \in SUBSET TxItem
      BY NextMessagesType DEF Types, MessageOf
  <2>4. Txs(s, m) \in Message /\ Ping(s) \in Message
      BY <2>3, MessageTypes
  <2>5. /\ Txs(s, m).sync = s.id /\ Txs(s, m).type = "txs"
        /\ Ping(s).sync = s.id /\ Ping(s).type = "ping"
      BY DEF Txs, Ping
  <2>6. /\ DOMAIN wire' = DOMAIN wire \cup {Len(wire) + 1, Len(wire) + 2}
        /\ \A i \in DOMAIN wire : i < Len(wire) + 1 /\ wire'[i] = wire[i]
        /\ wire'[Len(wire) + 1] = Txs(s, m)
        /\ wire'[Len(wire) + 2] = Ping(s)
      BY SMTT(60), <1>0, <2>1, <2>4
  <2>7. NothingOutOf(s.id)
      BY <2>1 DEF Ready
  <2>8. \A i \in DOMAIN wire' : wire'[i].sync <= s.id
      BY SMTT(60), <1>0, <2>5, <2>6 DEF Ready
  <2>9. Throttled'
      BY SMTT(60), <1>0, <2>5, <2>6, <2>7 DEF Throttled, Ready, NothingOutOf, IsTxs
  <2>10. OnePingOf(s.id)'
      BY SMTT(60), <1>0, <2>5, <2>6, <2>7 DEF OnePingOf, NothingOutOf, IsTxs, IsPing
  <2>11. sync'.id = s.id /\ nonces' \subseteq {s.id} /\ sync' # NoSync
    <3>1. nonces \subseteq {s.id}
        BY DEF Ready
    <3> QED
        BY <1>1, <2>2, <2>3, <3>1
  <2>12. Current'
      BY <2>8, <2>11 DEF Current, Ready
  <2> QED
      BY <2>2, <2>9, <2>10, <2>12 DEF OnePing, NothingOut
<1>5. ASSUME NEW m \in NextMessages(s), SendsLast(s, queue, m)
      PROVE  Current' /\ OnePing' /\ NothingOut' /\ Throttled'
  <2>1. /\ wire' = wire \o <<Txs(s, m), Ping(s), Complete(s, s.promised)>>
        /\ sync_ping_latency # "none"
      BY <1>5 DEF SendsLast, Sends
  <2>2. sync' = NoSync /\ sync_ping_latency' = "absent" /\ nonces' = {}
      BY <1>5 DEF SendsLast, Idle
  <2>3. m.items \in SUBSET TxItem
      BY NextMessagesType DEF Types, MessageOf
  <2>4. Txs(s, m) \in Message /\ Ping(s) \in Message /\ Complete(s, s.promised) \in Message
      BY <2>3, MessageTypes
  <2>5. /\ Txs(s, m).sync = s.id /\ Txs(s, m).type = "txs"
        /\ Ping(s).sync = s.id /\ Ping(s).type = "ping"
        /\ Complete(s, s.promised).sync = s.id /\ Complete(s, s.promised).type = "complete"
      BY DEF Txs, Ping, Complete
  <2>6. /\ DOMAIN wire' = DOMAIN wire \cup {Len(wire) + 1, Len(wire) + 2, Len(wire) + 3}
        /\ \A i \in DOMAIN wire : i < Len(wire) + 1 /\ wire'[i] = wire[i]
        /\ wire'[Len(wire) + 1] = Txs(s, m)
        /\ wire'[Len(wire) + 2] = Ping(s)
        /\ wire'[Len(wire) + 3] = Complete(s, s.promised)
      BY SMTT(60), <1>0, <2>1, <2>4, ThreeMore
  <2>7. NothingOutOf(s.id)
      BY <2>1 DEF Ready
  <2>8. \A i \in DOMAIN wire' : wire'[i].sync <= s.id
      BY SMTT(60), <1>0, <2>5, <2>6 DEF Ready
  <2>9. Throttled'
      BY SMTT(60), <1>0, <2>5, <2>6, <2>7 DEF Throttled, Ready, NothingOutOf, IsTxs
  <2> QED
      BY <2>2, <2>8, <2>9 DEF Current, OnePing, NothingOut, Ready
<1> QED
    BY <1>2, <1>3, <1>4, <1>5, CallDoes DEF Types

\* A first call is ready: nothing is of the new sync yet.
LEMMA StartReady ==
    ASSUME ThrottledInv, sync = NoSync
    PROVE  Ready(syncs + 1)
<1>1. syncs \in Nat /\ wire \in Seq(Message) /\ pongs \in Seq(Nat)
    BY DEF ThrottledInv, Types, SyncTypes, LinkTypes
<1>2. \A i \in DOMAIN wire : wire[i] \in Message
    BY SMTT(60), <1>1
<1>3. \A i \in DOMAIN wire : wire[i].sync \in Nat
    BY <1>2 DEF Message, TxsMessage, PingMessage, CompleteMessage
<1>4. /\ \A i \in DOMAIN wire : wire[i].sync <= syncs
      /\ \A i \in DOMAIN pongs : pongs[i] \in Nat /\ pongs[i] <= syncs
      /\ nonces = {}
    BY SMTT(60), <1>1 DEF ThrottledInv, Current
<1>5. /\ \A i \in DOMAIN wire : wire[i].sync # syncs + 1 /\ wire[i].sync <= syncs + 1
      /\ \A i \in DOMAIN pongs : pongs[i] # syncs + 1 /\ pongs[i] <= syncs + 1
    BY SMTT(60), <1>1, <1>3, <1>4
<1> QED
    BY <1>4, <1>5 DEF Ready, OnePingOf, NothingOutOf, IsPing, IsTxs, ThrottledInv

\* And so is a next one.
LEMMA AlarmReady ==
    ASSUME ThrottledInv, sync # NoSync
    PROVE  sync.id = syncs /\ Ready(syncs)
BY DEF ThrottledInv, Current, OnePing, NothingOut, Ready

\* What Receive takes from the front.
LEMMA Arrives ==
    ASSUME NEW S, NEW q \in Seq(S), q # <<>>
    PROVE  /\ Tail(q) \in Seq(S) /\ Head(q) = q[1] /\ 1 \in DOMAIN q /\ q[1] \in S
           /\ \A i \in DOMAIN Tail(q) : i + 1 \in DOMAIN q /\ Tail(q)[i] = q[i + 1] /\ i + 1 > 1 /\ i \in Int
BY SMTT(60)

\* A message or ping that arrives.
LEMMA ReceiveThrottles ==
    ASSUME ThrottledInv, Receive
    PROVE  Current' /\ OnePing' /\ NothingOut' /\ Throttled'
<1>0. /\ wire \in Seq(Message) /\ wire # <<>> /\ wire' = Tail(wire) /\ pongs \in Seq(Nat)
      /\ UNCHANGED <<sync, syncs, sync_ping_latency, nonces>>
    BY DEF ThrottledInv, Types, LinkTypes, Receive
<1>1. /\ wire[1] \in Message /\ 1 \in DOMAIN wire /\ Head(wire) = wire[1]
      /\ \A i \in DOMAIN wire' : i + 1 \in DOMAIN wire /\ wire'[i] = wire[i + 1] /\ i + 1 > 1 /\ i \in Int
    BY <1>0, Arrives
<1>2. Throttled'
    BY SMTT(60), <1>1 DEF ThrottledInv, Throttled
<1>3. \A i \in DOMAIN wire' : wire'[i].sync <= syncs
    BY <1>1 DEF ThrottledInv, Current
<1>4. CASE pongs' = pongs
  <2>1. Current'
      BY <1>0, <1>3, <1>4 DEF ThrottledInv, Current
  <2>2. ASSUME OnePingOf(syncs) PROVE OnePingOf(syncs)'
      BY SMTT(60), <1>0, <1>1, <1>4, <2>2 DEF OnePingOf, IsPing, IsTxs
  <2>3. ASSUME NothingOutOf(syncs) PROVE NothingOutOf(syncs)'
      BY SMTT(60), <1>0, <1>1, <1>4, <2>3 DEF NothingOutOf, IsPing, IsTxs
  <2> QED
      BY <1>0, <1>2, <2>1, <2>2, <2>3 DEF ThrottledInv, OnePing, NothingOut
<1>5. CASE wire[1].type = "ping" /\ pongs' = Append(pongs, wire[1].sync)
  <2>0. wire[1].sync \in Nat /\ wire[1].sync <= syncs
      BY <1>1 DEF Message, TxsMessage, PingMessage, CompleteMessage, ThrottledInv, Current
  <2>1. /\ DOMAIN pongs' = DOMAIN pongs \cup {Len(pongs) + 1}
        /\ \A i \in DOMAIN pongs : pongs'[i] = pongs[i]
        /\ pongs'[Len(pongs) + 1] = wire[1].sync
      BY SMTT(60), <1>0, <1>5, <2>0
  <2>2. Current'
      BY <1>0, <1>3, <2>0, <2>1 DEF ThrottledInv, Current
  <2>3. ASSUME OnePingOf(syncs) PROVE OnePingOf(syncs)'
      BY SMTT(60), <1>0, <1>1, <1>5, <2>1, <2>3 DEF OnePingOf, IsPing, IsTxs
  <2>4. ASSUME NothingOutOf(syncs) PROVE NothingOutOf(syncs)'
      BY SMTT(60), <1>0, <1>1, <1>5, <2>1, <2>4 DEF NothingOutOf, IsPing, IsTxs
  <2> QED
      BY <1>0, <1>2, <2>2, <2>3, <2>4 DEF ThrottledInv, OnePing, NothingOut
<1> QED
    BY <1>1, <1>4, <1>5 DEF Receive

\* A pong that arrives, in time or not.
LEMMA PongThrottles ==
    ASSUME ThrottledInv, MsgPong
    PROVE  Current' /\ OnePing' /\ NothingOut' /\ Throttled'
<1>0. /\ pongs \in Seq(Nat) /\ pongs # <<>> /\ pongs' = Tail(pongs)
      /\ UNCHANGED <<wire, sync, syncs, nonces>>
    BY DEF ThrottledInv, Types, LinkTypes, MsgPong
<1>1. /\ 1 \in DOMAIN pongs /\ Head(pongs) = pongs[1]
      /\ \A i \in DOMAIN pongs' : i + 1 \in DOMAIN pongs /\ pongs'[i] = pongs[i + 1] /\ i + 1 > 1 /\ i \in Int
    BY <1>0, Arrives
<1>2. Throttled'
    BY <1>0 DEF ThrottledInv, Throttled
<1>3. sync = NoSync => sync_ping_latency' = "absent"
    BY DEF ThrottledInv, Current, MsgPong
<1>4. Current'
    BY <1>0, <1>1, <1>3 DEF ThrottledInv, Current
<1>5. OnePing'
    BY SMTT(60), <1>0, <1>1 DEF ThrottledInv, OnePing, OnePingOf, IsPing, IsTxs
<1>6. CASE Head(pongs) \in nonces /\ sync # NoSync
  <2>1. pongs[1] = syncs /\ OnePingOf(syncs)
      BY <1>1, <1>6 DEF ThrottledInv, Current, OnePing
  <2>2. NothingOutOf(syncs)'
      BY SMTT(60), <1>0, <1>1, <2>1 DEF OnePingOf, NothingOutOf, IsPing, IsTxs
  <2> QED
      BY <1>2, <1>4, <1>5, <2>2 DEF NothingOut
<1>7. CASE sync_ping_latency' = sync_ping_latency
  <2>1. ASSUME NothingOutOf(syncs) PROVE NothingOutOf(syncs)'
      BY <1>0, <1>1, <2>1 DEF NothingOutOf, IsPing, IsTxs
  <2> QED
      BY <1>0, <1>2, <1>4, <1>5, <1>7, <2>1 DEF ThrottledInv, NothingOut
<1>8. CASE sync = NoSync
    BY <1>0, <1>2, <1>4, <1>5, <1>8 DEF NothingOut
<1> QED
    BY <1>6, <1>7, <1>8 DEF MsgPong

\* Every step keeps the throttle.
LEMMA ThrottledStep ==
    ASSUME ThrottledInv, [Next]_vars
    PROVE  ThrottledInv'
<1>0. Types /\ Types'
    BY TypesStep DEF ThrottledInv
<1>1. CASE StartSync
  <2>1. /\ sync = NoSync /\ syncs' = syncs + 1 /\ FirstCall /\ pongs' = pongs
      BY <1>0, <1>1, Calls
  <2>2. PICK s \in Sync, queue \in SUBSET Entry :
            /\ SendTxServiceSyncTxs(s, queue)
            /\ \/ \E taken \in Snapshots, contents \in BOOLEAN : s = SnapshotArgs(taken, contents)
               \/ s = TimeArgs \/ s = BufferArgs
      BY <1>0, <2>1, FirstCallOf
  <2>3. s.id = syncs + 1
      BY SMTT(60), <2>2 DEF SnapshotArgs, TimeArgs, BufferArgs
  <2> QED
      BY <1>0, <2>1, <2>2, <2>3, StartReady, CallThrottles DEF ThrottledInv
<1>2. CASE SyncAlarm
  <2>1. /\ sync \in Sync /\ SendTxServiceSyncTxs(sync, expire_queue)
        /\ expire_queue \in SUBSET Entry /\ pongs' = pongs /\ syncs' = syncs
      BY <1>0, <1>2, Calls DEF Types, CacheTypes
  <2>2. sync # NoSync
      BY <1>2 DEF SyncAlarm
  <2> QED
      BY <1>0, <2>1, <2>2, AlarmReady, CallThrottles DEF ThrottledInv
<1>3. ASSUME UNCHANGED <<wire, pongs, syncs, sync_ping_latency, nonces>>,
             sync' # NoSync <=> sync # NoSync, sync # NoSync => sync'.id = sync.id
      PROVE  ThrottledInv'
    BY SMTT(60), <1>0, <1>3 DEF ThrottledInv, Current, OnePing, NothingOut, OnePingOf, NothingOutOf,
       Throttled, IsPing, IsTxs
<1>4. CASE TimeIsUp
  <2>1. sync \in Sync /\ sync' = [sync EXCEPT !.late = TRUE]
      BY <1>0, <1>4 DEF TimeIsUp, Types, SyncTypes
  <2>2. sync' # NoSync /\ sync'.id = sync.id
      BY <2>1, SyncChanges
  <2> QED
      BY <1>3, <1>4, <2>2 DEF TimeIsUp, link
<1>5. CASE \E s \in Sid : Assign(s)
    BY <1>3, <1>5 DEF Assign, link
<1>6. ASSUME NEW t \in Tx, RemoveShortIds(t)
      PROVE  ThrottledInv'
  <2>0. PICK gone : Removed(t, gone)
      BY <1>6, RemovesSome
  <2>1. ASSUME sync # NoSync
        PROVE  sync' # NoSync /\ sync'.id = sync.id
    <3>1. sync \in Sync /\ sync' = [sync EXCEPT !.promised = sync.promised \ gone]
        BY <1>0, <2>0, <2>1 DEF Removed, Types, SyncTypes
    <3>2. sync.promised \ gone \in SUBSET Sid
        BY <3>1 DEF Sync, SnapshotSync, TimeSync, BufferSync
    <3> QED
        BY <3>1, <3>2, SyncChanges
  <2>2. sync = NoSync => sync' = NoSync
      BY <2>0 DEF Removed
  <2> QED
      BY <1>3, <2>0, <2>1, <2>2 DEF Removed
<1>7. CASE Receive
    BY <1>0, <1>7, ReceiveThrottles DEF ThrottledInv
<1>8. CASE MsgPong
    BY <1>0, <1>8, PongThrottles DEF ThrottledInv
<1>9. CASE Close
  <2>1. wire' = <<>> /\ pongs' = <<>> /\ UNCHANGED <<sync, syncs, sync_ping_latency, nonces>>
      BY <1>9 DEF Close
  <2>2. DOMAIN wire' = {} /\ DOMAIN pongs' = {}
      BY SMTT(60), <2>1
  <2> QED
      BY <1>0, <2>1, <2>2 DEF ThrottledInv, Current, OnePing, NothingOut, OnePingOf, NothingOutOf,
         Throttled
<1>10. CASE UNCHANGED vars
    BY <1>3, <1>10 DEF vars
<1> QED
    BY <1>1, <1>2, <1>4, <1>5, <1>6, <1>7, <1>8, <1>9, <1>10 DEF Next

\* A sync sends its next message only when the answer to the ping behind the one before
\* has come: whatever the cache does, however late pongs of earlier syncs are, and also
\* when the connection forgets a ping.
THEOREM OneMessageAtATime == Spec => []Throttled
<1>1. Init => ThrottledInv
  <2>1. Init => Types
      BY TypesInit
  <2>2. ASSUME Init
        PROVE  Current /\ OnePing /\ NothingOut /\ Throttled
    <3>1. DOMAIN wire = {} /\ DOMAIN pongs = {}
        BY SMTT(60), <2>2 DEF Init
    <3> QED
        BY <2>2, <3>1 DEF Init, Current, OnePing, NothingOut, Throttled
  <2> QED
      BY <2>1, <2>2 DEF ThrottledInv
<1>2. ThrottledInv /\ [Next]_vars => ThrottledInv'
    BY ThrottledStep
<1>3. ThrottledInv => Throttled
    BY DEF ThrottledInv
<1> QED
    BY <1>1, <1>2, <1>3, PTL DEF Spec

-----------------------------------------------------------------------------
(* A complete sync has told all but what it has passed over.               *)

\* Where a promised short id is after the next message of s: with the peer or on the
\* way, in the message, passed over, or with the calls to come.
Told(m, x) == (\E i \in m.items : x \in i.sids) \/ x \in m.passed

Goes(s, m, x) ==
    /\ Heard(s.id, x, Len(wire)) \/ Told(m, x) \/ (~m.done /\ ToCome(m.next, x, expire_queue))
    /\ m.next.mode = "snapshot" /\ m.next.sync_tx_content => TxOf[x] \in has_contents
    /\ m.next.mode = "time" /\ TxOf[x] \in m.next.snapshot_cache_keys =>
          Heard(s.id, x, Len(wire)) \/ Told(m, x)

\* From a snapshot: a transaction is taken off it into the message, with contents if
\* those are asked for.
LEMMA FromSnapshotGoes ==
    ASSUME CacheTypes, NEW s \in SnapshotSync, Owed(s), NEW m \in FromSnapshot(s), NEW x \in s.promised
    PROVE  Goes(s, m, x)
<1>1. PICK popped \in SUBSET s.snap \ {{}} :
          m = [items |-> {Item(t) : t \in {u \in popped : s.sync_tx_content => u \in has_contents}},
               unmapped |-> {}, passed |-> {}, next |-> [s EXCEPT !.snap = @ \ popped],
               done |-> popped = s.snap]
    BY DEF FromSnapshot
<1>2. /\ m.items = {Item(t) : t \in {u \in popped : s.sync_tx_content => u \in has_contents}}
      /\ m.next = [s EXCEPT !.snap = @ \ popped]
      /\ m.done = (popped = s.snap)
    BY <1>1
<1>3. /\ m.next.mode = "snapshot" /\ m.next.snap = s.snap \ popped
      /\ m.next.sync_tx_content = s.sync_tx_content /\ s.mode = "snapshot"
    BY <1>2 DEF SnapshotSync
<1>4. /\ x \in assigned
      /\ Heard(s.id, x, Len(wire)) \/ TxOf[x] \in s.snap
      /\ s.sync_tx_content => TxOf[x] \in has_contents
    BY <1>3 DEF Owed, OwedOf, ToCome
<1>5. ASSUME TxOf[x] \in popped
      PROVE  Told(m, x)
  <2>1. Item(TxOf[x]) \in m.items
      BY <1>2, <1>4, <1>5
  <2>2. x \in Item(TxOf[x]).sids
      BY <1>4 DEF Item, ShortIds
  <2> QED
      BY <2>1, <2>2 DEF Told
<1>6. ASSUME TxOf[x] \in s.snap, TxOf[x] \notin popped
      PROVE  ~m.done /\ ToCome(m.next, x, expire_queue)
  <2>1. popped # s.snap /\ TxOf[x] \in m.next.snap
      BY <1>3, <1>6
  <2> QED
      BY <1>2, <1>3, <2>1 DEF ToCome
<1> QED
    BY <1>3, <1>4, <1>5, <1>6 DEF Goes

\* From a buffer: an item is sent whole.
LEMMA FromBufferGoes ==
    ASSUME NEW s \in BufferSync, Owed(s), NEW m \in FromBuffer(s), NEW x \in s.promised
    PROVE  Goes(s, m, x)
<1>1. PICK sent \in SUBSET s.txs_buffer :
          m = [items |-> sent, unmapped |-> {}, passed |-> {}, next |-> [s EXCEPT !.txs_buffer = @ \ sent],
               done |-> sent = s.txs_buffer]
    BY DEF FromBuffer
<1>2. m.items = sent /\ m.next = [s EXCEPT !.txs_buffer = @ \ sent] /\ m.done = (sent = s.txs_buffer)
    BY <1>1
<1>3. m.next.mode = "buffer" /\ m.next.txs_buffer = s.txs_buffer \ sent /\ s.mode = "buffer"
    BY <1>2 DEF BufferSync
<1>4. Heard(s.id, x, Len(wire)) \/ \E i \in s.txs_buffer : x \in i.sids
    BY <1>3 DEF Owed, OwedOf, ToCome
<1>5. ASSUME NEW i \in s.txs_buffer, x \in i.sids
      PROVE  Told(m, x) \/ (~m.done /\ ToCome(m.next, x, expire_queue))
  <2>1. CASE i \in sent
      BY <1>2, <1>5, <2>1 DEF Told
  <2>2. CASE i \notin sent
    <3>1. sent # s.txs_buffer /\ i \in m.next.txs_buffer
        BY <1>3, <2>2
    <3> QED
        BY <1>2, <1>3, <1>5, <3>1 DEF ToCome
  <2> QED
      BY <2>1, <2>2
<1> QED
    BY <1>3, <1>4, <1>5 DEF Goes

\* By time: an entry up to the one the loop breaks at is in the message, unless its
\* transaction was sent before; a later one has a later time or is passed over.
LEMMA FromTimeGoes ==
    ASSUME CacheTypes, Queues, NEW s \in TimeSync, Owed(s), NEW m \in FromTime(s), NEW x \in s.promised
    PROVE  Goes(s, m, x)
<1> DEFINE tx(e) == TxOf[e.sid]
           seen(end) == {e \in Behind(s) : e.place <= end.place}
           keys(end) == {tx(e) : e \in seen(end) \cap Met(s)}
           next(end) == Moved(s, Timestamp(end), keys(end))
<1>1. s.mode = "time" /\ s.start_time \in Nat
    BY DEF TimeSync
<1>2. /\ x \in assigned
      /\ Heard(s.id, x, Len(wire)) \/ \E e \in expire_queue : e.sid = x /\ e.at > s.start_time
      /\ TxOf[x] \in s.snapshot_cache_keys => Heard(s.id, x, Len(wire))
    BY <1>1 DEF Owed, OwedOf, ToCome
<1>3. Heard(s.id, x, Len(wire)) \/ \E e \in Met(s) : e.sid = x
    BY <1>2 DEF Met, Behind
<1>4. Met(s) \subseteq Behind(s) /\ Behind(s) \subseteq expire_queue /\ expire_queue \subseteq Entry
    BY DEF Met, Behind, CacheTypes
<1>5. ASSUME NEW entries, m.items = {Item(tx(e)) : e \in entries \cap Met(s)}, NEW e \in entries \cap Met(s),
             tx(e) = TxOf[x]
      PROVE  Told(m, x)
  <2>1. Item(tx(e)) \in m.items
      BY <1>5
  <2>2. x \in Item(tx(e)).sids
      BY <1>2, <1>5 DEF Item, ShortIds
  <2> QED
      BY <2>1, <2>2 DEF Told
<1>6. CASE m = [items |-> {Item(tx(e)) : e \in Behind(s) \cap Met(s)},
                unmapped |-> {e.sid : e \in Behind(s)} \ assigned, passed |-> {}, next |-> s, done |-> TRUE]
  <2>1. m.items = {Item(tx(e)) : e \in Behind(s) \cap Met(s)} /\ m.next = s
      BY <1>6
  <2>2. ASSUME NEW e \in Met(s), e.sid = x
        PROVE  Told(m, x)
      BY <1>4, <1>5, <2>1, <2>2
  <2> QED
      BY <1>1, <1>2, <1>3, <2>1, <2>2 DEF Goes
<1>7. ASSUME NEW end \in Met(s),
             m = [items |-> {Item(tx(e)) : e \in seen(end) \cap Met(s)},
                  unmapped |-> {e.sid : e \in seen(end)} \ assigned, passed |-> Passed(s, end),
                  next |-> next(end), done |-> FALSE]
      PROVE  Goes(s, m, x)
  <2>1. /\ m.items = {Item(tx(e)) : e \in seen(end) \cap Met(s)}
        /\ m.next = next(end) /\ m.done = FALSE /\ m.passed = Passed(s, end)
      BY <1>7
  <2>2. end \in expire_queue /\ end \in Entry
      BY <1>4
  <2>3. keys(end) \in SUBSET Tx
      BY SMTT(60), <1>4, SyncConstants DEF Entry
  <2>4. /\ m.next.mode = "time" /\ m.next.start_time = end.at
        /\ m.next.snapshot_cache_keys = s.snapshot_cache_keys \cup keys(end)
    <3>1. end.at \in Nat
        BY <2>2 DEF Entry
    <3>2. m.next = Moved(s, end.at, keys(end))
        BY <2>1 DEF Timestamp
    <3>3. keys(end) \in SUBSET Tx
        BY <2>3
    <3> HIDE DEF keys
    <3> QED
        BY SMTT(60), <1>1, <3>1, <3>2, <3>3, TimeSyncMoves
  <2>5. ASSUME NEW e \in Met(s), e.sid = x
        PROVE  Told(m, x) \/ ToCome(m.next, x, expire_queue)
    <3>1. CASE e.place <= end.place
      <4>1. e \in seen(end) \cap Met(s)
          BY SMTT(60), <1>4, <3>1
      <4> QED
          BY <1>5, <2>1, <2>5, <4>1
    <3>2. CASE ~(e.place <= end.place)
      <4>1. e \in expire_queue /\ e \in Behind(s) /\ e.place > end.place
          BY SMTT(60), <1>4, <2>2, <3>2 DEF Entry
      <4>2. CASE e.at > end.at
          BY <2>4, <2>5, <4>1, <4>2 DEF ToCome
      <4>3. CASE e.at <= end.at
          BY <2>1, <2>5, <4>1, <4>3 DEF Told, Passed
      <4>4. e.at > end.at \/ e.at <= end.at
          BY SMTT(60), <1>4, <2>2, <4>1 DEF Entry
      <4> QED
          BY <4>2, <4>3, <4>4
    <3> QED
        BY <3>1, <3>2
  <2>6. ASSUME TxOf[x] \in keys(end)
        PROVE  Told(m, x)
    <3>1. PICK e \in seen(end) \cap Met(s) : TxOf[x] = tx(e)
        BY <2>6
    <3> QED
        BY <1>5, <2>1, <3>1
  <2>7. Heard(s.id, x, Len(wire)) \/ Told(m, x) \/ (~m.done /\ ToCome(m.next, x, expire_queue))
      BY <1>3, <2>1, <2>5
  <2>8. TxOf[x] \in m.next.snapshot_cache_keys => Heard(s.id, x, Len(wire)) \/ Told(m, x)
      BY <1>2, <2>4, <2>6
  <2> QED
      BY <2>4, <2>7, <2>8 DEF Goes
<1>8. \/ m = [items |-> {Item(tx(e)) : e \in Behind(s) \cap Met(s)},
              unmapped |-> {e.sid : e \in Behind(s)} \ assigned, passed |-> {}, next |-> s, done |-> TRUE]
      \/ \E end \in Met(s) :
             m = [items |-> {Item(tx(e)) : e \in seen(end) \cap Met(s)},
                  unmapped |-> {e.sid : e \in seen(end)} \ assigned, passed |-> Passed(s, end),
                  next |-> next(end), done |-> FALSE]
    BY DEF FromTime, Moved
<1> QED
    BY <1>6, <1>7, <1>8

\* What the next call of a sync by time starts from.
LEMMA FromTimeNext ==
    ASSUME CacheTypes, NEW s \in TimeSync, NEW m \in FromTime(s)
    PROVE  \/ m.next = s
           \/ \E end \in Met(s), keys \in SUBSET Tx : m.next = Moved(s, end.at, keys)
<1> DEFINE tx(e) == TxOf[e.sid]
           seen(end) == {e \in Behind(s) : e.place <= end.place}
           keysOf(end) == {tx(e) : e \in seen(end) \cap Met(s)}
<1>0. \/ m = [items |-> {Item(tx(e)) : e \in Behind(s) \cap Met(s)},
              unmapped |-> {e.sid : e \in Behind(s)} \ assigned, passed |-> {}, next |-> s, done |-> TRUE]
      \/ \E end \in Met(s) :
             m = [items |-> {Item(tx(e)) : e \in seen(end) \cap Met(s)},
                  unmapped |-> {e.sid : e \in seen(end)} \ assigned, passed |-> Passed(s, end),
                  next |-> Moved(s, Timestamp(end), keysOf(end)), done |-> FALSE]
    BY DEF FromTime, Moved
<1>1. \/ m.next = s
      \/ \E end \in Met(s) : m.next = Moved(s, Timestamp(end), keysOf(end))
  <2>1. CASE m = [items |-> {Item(tx(e)) : e \in Behind(s) \cap Met(s)},
                  unmapped |-> {e.sid : e \in Behind(s)} \ assigned, passed |-> {}, next |-> s, done |-> TRUE]
      BY <2>1
  <2>2. ASSUME NEW end \in Met(s),
               m = [items |-> {Item(tx(e)) : e \in seen(end) \cap Met(s)},
                    unmapped |-> {e.sid : e \in seen(end)} \ assigned, passed |-> Passed(s, end),
                    next |-> Moved(s, Timestamp(end), keysOf(end)), done |-> FALSE]
        PROVE  m.next = Moved(s, Timestamp(end), keysOf(end))
      BY <2>2
  <2> QED
      BY <1>0, <2>1, <2>2
<1>2. ASSUME NEW end \in Met(s)
      PROVE  keysOf(end) \in SUBSET Tx
    BY SMTT(60), SyncConstants DEF Entry, Met, Behind, CacheTypes
<1> HIDE DEF keysOf
<1> QED
    BY <1>1, <1>2 DEF Timestamp

\* All three together.
LEMMA NextMessagesGo ==
    ASSUME CacheTypes, Queues, NEW s \in Sync, Owed(s), NEW m \in NextMessages(s), NEW x \in s.promised
    PROVE  Goes(s, m, x)
<1>1. CASE s \in SnapshotSync
  <2>1. m \in FromSnapshot(s)
      BY <1>1 DEF NextMessages, SnapshotSync
  <2> QED
      BY <1>1, <2>1, FromSnapshotGoes
<1>2. CASE s \in TimeSync
  <2>1. m \in FromTime(s)
      BY <1>2 DEF NextMessages, TimeSync
  <2> QED
      BY <1>2, <2>1, FromTimeGoes
<1>3. CASE s \in BufferSync
  <2>1. m \in FromBuffer(s)
      BY <1>3 DEF NextMessages, BufferSync
  <2> QED
      BY <1>3, <2>1, FromBufferGoes
<1> QED
    BY <1>1, <1>2, <1>3 DEF Sync

\* The time the next call starts from is past.
LEMMA NextMessagesStart ==
    ASSUME CacheTypes, Queues, NEW s \in Sync, Owed(s), NEW m \in NextMessages(s)
    PROVE  m.next.mode = "time" => m.next.start_time <= now
<1>1. CASE s \in SnapshotSync
  <2>1. PICK popped \in SUBSET s.snap \ {{}} : m.next = [s EXCEPT !.snap = @ \ popped]
    <3>1. m \in FromSnapshot(s)
        BY <1>1 DEF NextMessages, SnapshotSync
    <3>2. PICK popped \in SUBSET s.snap \ {{}} :
              m = [items |-> {Item(t) : t \in {u \in popped : s.sync_tx_content => u \in has_contents}},
                   unmapped |-> {}, passed |-> {}, next |-> [s EXCEPT !.snap = @ \ popped],
                   done |-> popped = s.snap]
        BY <3>1 DEF FromSnapshot
    <3> QED
        BY <3>2
  <2> QED
      BY <1>1, <2>1 DEF SnapshotSync
<1>2. CASE s \in BufferSync
  <2>1. PICK sent \in SUBSET s.txs_buffer : m.next = [s EXCEPT !.txs_buffer = @ \ sent]
    <3>1. m \in FromBuffer(s)
        BY <1>2 DEF NextMessages, BufferSync
    <3>2. PICK sent \in SUBSET s.txs_buffer :
              m = [items |-> sent, unmapped |-> {}, passed |-> {},
                   next |-> [s EXCEPT !.txs_buffer = @ \ sent], done |-> sent = s.txs_buffer]
        BY <3>1 DEF FromBuffer
    <3> QED
        BY <3>2
  <2> QED
      BY <1>2, <2>1 DEF BufferSync
<1>3. CASE s \in TimeSync
  <2>1. s.mode = "time" /\ m \in FromTime(s)
      BY <1>3 DEF NextMessages, TimeSync
  <2>2. \/ m.next = s
        \/ \E end \in Met(s), keys \in SUBSET Tx : m.next = Moved(s, end.at, keys)
      BY <1>3, <2>1, FromTimeNext
  <2>3. ASSUME NEW end \in Met(s), NEW keys \in SUBSET Tx, m.next = Moved(s, end.at, keys)
        PROVE  m.next.start_time <= now
    <3>1. end \in expire_queue /\ end \in Entry
        BY DEF Met, Behind, CacheTypes
    <3>2. end.at \in Nat /\ end.at <= now
        BY <3>1 DEF Entry, Queues
    <3>3. m.next.start_time = end.at
        BY SMTT(60), <1>3, <2>3, <3>2, TimeSyncMoves
    <3> QED
        BY <3>2, <3>3
  <2> QED
      BY <2>1, <2>2, <2>3 DEF Owed
<1> QED
    BY <1>1, <1>2, <1>3 DEF Sync

\* What is passed over stays so.
LEMMA CallPasses ==
    ASSUME Types, NEW s \in Sync, NEW queue \in SUBSET Entry, SendTxServiceSyncTxs(s, queue)
    PROVE  passed_over \subseteq passed_over'
BY DEF SendTxServiceSyncTxs

\* What the peer will have heard it will still have heard with more on the way.
LEMMA HeardGrows ==
    ASSUME wire \in Seq(Message), wire' \in Seq(Message), Len(wire) <= Len(wire'), peer' = peer,
           \A i \in DOMAIN wire : wire'[i] = wire[i], passed_over \subseteq passed_over',
           NEW id, NEW x, NEW n \in 0..Len(wire), NEW k \in Nat, n <= k, Heard(id, x, n)
    PROVE  Heard(id, x, k)'
BY SMTT(60) DEF Heard, Tells

\* What is on the queue of a short id that is assigned stays to come.
LEMMA StillToCome ==
    ASSUME NEW c, NEW x \in assigned, NEW queue, Purged(queue), NEW unmapped,
           unmapped \cap assigned = {}, ToCome(c, x, expire_queue)
    PROVE  ToCome(c, x, queue) /\ ToCome(c, x, {e \in queue : e.sid \notin unmapped})
BY DEF ToCome, Purged

\* A queue without what leads nowhere is as good.
LEMMA QueuesPurged ==
    ASSUME Queues, NEW queue, Purged(queue), NEW unmapped, unmapped \cap assigned = {},
           assigned' = assigned, now' = now,
           expire_queue' = queue \/ expire_queue' = {e \in queue : e.sid \notin unmapped}
    PROVE  Queues'
BY DEF Queues, Purged

\* A call of a sync that owes what it has promised.
LEMMA CallTells ==
    ASSUME Types, Queues, CompleteKept, NEW s \in Sync, NEW queue \in SUBSET Entry, Purged(queue),
           active => Owed(s), SendTxServiceSyncTxs(s, queue),
           UNCHANGED <<assigned, has_contents, now, active, peer>>
    PROVE  Queues' /\ SyncOwed' /\ CompleteKept'
<1>0. /\ wire \in Seq(Message) /\ wire' \in Seq(Message) /\ CacheTypes /\ LinkTypes
      /\ s.promised \subseteq Sid
    BY CallTypes DEF Types, LinkTypes, Sync, SnapshotSync, TimeSync, BufferSync
<1>1. CASE Ends(s, queue)
  <2>1. PICK p \in {{}, s.promised} :
            /\ wire' = IF active THEN wire \o <<Complete(s, p)>> ELSE wire
            /\ p # {} => s.mode = "snapshot" /\ s.snap = {}
      BY <1>1 DEF Ends
  <2>2. sync' = NoSync /\ expire_queue' = queue /\ passed_over' = passed_over
      BY SMTT(60), <1>1 DEF Ends, Idle
  <2>3. Queues'
    <3>1. {} \cap assigned = {}
        OBVIOUS
    <3> QED
        BY <2>2, <3>1, QueuesPurged
  <2>4. CASE ~active
      BY <2>1, <2>2, <2>3, <2>4 DEF SyncOwed, CompleteKept, Heard, Tells
  <2>5. CASE active
    <3>1. Complete(s, p) \in Message
        BY <2>1, MessageTypes
    <3>2. /\ Len(wire') = Len(wire) + 1 /\ wire'[Len(wire) + 1] = Complete(s, p)
          /\ \A i \in DOMAIN wire : wire'[i] = wire[i]
        BY SMTT(60), <1>0, <2>1, <2>5, <3>1
    <3>3. Complete(s, p).promised = p /\ Complete(s, p).sync = s.id
        BY DEF Complete
    <3>4. \A x \in p : Heard(s.id, x, Len(wire))
        BY <2>1, <2>5 DEF Owed, OwedOf, ToCome
    <3>5. ASSUME NEW k \in DOMAIN wire', wire'[k].type = "complete", NEW x \in wire'[k].promised,
                 NEW id, id = wire'[k].sync
          PROVE  Heard(id, x, k - 1)'
      <4>1. CASE k \in DOMAIN wire
        <5>1. Heard(id, x, k - 1)
            BY <3>2, <3>5, <4>1 DEF CompleteKept
        <5>2. k - 1 \in 0..Len(wire) /\ k - 1 \in Nat
            BY SMTT(60), <1>0, <4>1
        <5> QED
            BY SMTT(60), <1>0, <2>2, <3>2, <5>1, <5>2, HeardGrows
      <4>2. CASE k = Len(wire) + 1
        <5>1. Heard(id, x, Len(wire)) /\ Len(wire) \in 0..Len(wire) /\ k - 1 = Len(wire) /\ k - 1 \in Nat
            BY SMTT(60), <1>0, <3>2, <3>3, <3>4, <3>5, <4>2
        <5> QED
            BY SMTT(60), <1>0, <2>2, <3>2, <5>1, HeardGrows
      <4> QED
          BY SMTT(60), <1>0, <3>2, <3>5, <4>1, <4>2
    <3> QED
        BY <2>2, <2>3, <3>5 DEF SyncOwed, CompleteKept
  <2> QED
      BY <2>4, <2>5 DEF Types, LinkTypes
<1>2. CASE Waits(s, queue)
  <2>0. {} \cap assigned = {}
      OBVIOUS
  <2>1. sync' = s /\ expire_queue' = queue /\ wire' = wire /\ passed_over' = passed_over
      BY <1>2 DEF Waits
  <2>2. Queues'
      BY <2>0, <2>1, QueuesPurged
  <2>3. \A id, x, n : Heard(id, x, n)' <=> Heard(id, x, n)
      BY <2>1 DEF Heard, Tells
  <2>4. CompleteKept'
      BY SMTT(60), <2>1, <2>3 DEF CompleteKept
  <2>5. ASSUME Owed(s), NEW x \in s.promised, ToCome(s, x, expire_queue)
        PROVE  ToCome(s, x, queue)
    <3>1. x \in assigned
        BY <2>5 DEF Owed, OwedOf
    <3> QED
        BY <2>0, <2>5, <3>1, StillToCome
  <2>6. ASSUME Owed(s)
        PROVE  Owed(s)'
      BY <2>1, <2>3, <2>5, <2>6 DEF Owed, OwedOf, ToCome
  <2> QED
      BY <2>1, <2>2, <2>4, <2>6 DEF SyncOwed
<1>3. ASSUME NEW m \in NextMessages(s), SendsMore(s, queue, m)
      PROVE  Queues' /\ SyncOwed' /\ CompleteKept'
  <2>1. /\ wire' = wire \o <<Txs(s, m), Ping(s)>> /\ active
        /\ expire_queue' = {e \in queue : e.sid \notin m.unmapped}
        /\ passed_over' = passed_over \cup ({s.id} \X m.passed)
      BY <1>3 DEF SendsMore, Sends
  <2>2. sync' = m.next /\ ~m.done
      BY <1>3 DEF SendsMore
  <2>3. MessageOf(s, m)
      BY <1>0, NextMessagesType
  <2>4. m.unmapped \cap assigned = {} /\ m.items \in SUBSET TxItem
      BY <2>3 DEF MessageOf
  <2>5. Queues'
      BY <2>1, <2>4, QueuesPurged
  <2>6. Txs(s, m) \in Message /\ Ping(s) \in Message /\ Complete(s, s.promised) \in Message
      BY <2>4, MessageTypes
  <2>7. /\ Len(wire') = Len(wire) + 2
        /\ wire'[Len(wire) + 1] = Txs(s, m) /\ wire'[Len(wire) + 2] = Ping(s)
        /\ \A i \in DOMAIN wire : wire'[i] = wire[i]
      BY SMTT(60), <1>0, <2>1, <2>6
  <2>8. /\ Txs(s, m).type = "txs" /\ Txs(s, m).items = m.items /\ Ping(s).type = "ping"
      BY DEF Txs, Ping
  <2>9. ASSUME NEW x, Told(m, x) \/ Heard(s.id, x, Len(wire))
        PROVE  Heard(s.id, x, Len(wire))'
    <3>1. CASE \E i \in m.items : x \in i.sids
        BY SMTT(60), <1>0, <2>7, <2>8, <3>1 DEF Heard, Tells
    <3>3. CASE x \in m.passed
        BY <2>1, <3>3 DEF Heard
    <3>2. CASE Heard(s.id, x, Len(wire))
      <4>1. /\ Len(wire) \in 0..Len(wire) /\ Len(wire') \in Nat /\ Len(wire) <= Len(wire')
            /\ passed_over \subseteq passed_over'
          BY SMTT(60), <1>0, <2>1, <2>7
      <4> QED
          BY <1>0, <2>7, <3>2, <4>1, HeardGrows
    <3> QED
        BY <2>9, <3>1, <3>2, <3>3 DEF Told
  <2>10. CompleteKept'
    <3>1. ASSUME NEW k \in DOMAIN wire', wire'[k].type = "complete", NEW x \in wire'[k].promised,
                 NEW id, id = wire'[k].sync
          PROVE  Heard(id, x, k - 1)'
      <4>1. k \in DOMAIN wire
          BY SMTT(60), <1>0, <2>7, <2>8, <3>1
      <4>2. Heard(id, x, k - 1)
          BY <2>7, <3>1, <4>1 DEF CompleteKept
      <4>3. k - 1 \in 0..Len(wire) /\ k - 1 \in Nat
          BY SMTT(60), <1>0, <4>1
      <4> QED
          BY SMTT(60), <1>0, <2>1, <2>7, <4>2, <4>3, HeardGrows
    <3> QED
        BY SMTT(60), <3>1 DEF CompleteKept
  <2>11. ASSUME NEW x \in m.next.promised
         PROVE  OwedOf(m.next, x)'
    <3>0. m.next.id = s.id
        BY <2>3 DEF MessageOf
    <3>1. x \in s.promised /\ Owed(s)
        BY <2>1, <2>3, <2>11 DEF MessageOf
    <3>2. x \in assigned
        BY <3>1 DEF Owed, OwedOf
    <3>3. Goes(s, m, x)
        BY SMTT(60), <1>0, <3>1, NextMessagesGo
    <3>4. ASSUME ToCome(m.next, x, expire_queue)
          PROVE  ToCome(m.next, x, expire_queue')
        BY <2>1, <2>4, <3>2, <3>4, StillToCome
    <3> QED
        BY <2>9, <3>0, <3>2, <3>3, <3>4 DEF Goes, OwedOf
  <2>12. m.next.mode = "time" => m.next.start_time <= now
      BY <1>0, <2>1, NextMessagesStart
  <2>13. SyncOwed'
      BY <2>2, <2>11, <2>12 DEF SyncOwed, Owed
  <2> QED
      BY <2>5, <2>10, <2>13
<1>4. ASSUME NEW m \in NextMessages(s), SendsLast(s, queue, m)
      PROVE  Queues' /\ SyncOwed' /\ CompleteKept'
  <2>1. /\ wire' = wire \o <<Txs(s, m), Ping(s), Complete(s, s.promised)>> /\ active
        /\ expire_queue' = {e \in queue : e.sid \notin m.unmapped}
        /\ passed_over' = passed_over \cup ({s.id} \X m.passed)
      BY <1>4 DEF SendsLast, Sends
  <2>2. sync' = NoSync /\ m.done
      BY <1>4 DEF SendsLast, Idle
  <2>3. MessageOf(s, m)
      BY <1>0, NextMessagesType
  <2>4. m.unmapped \cap assigned = {} /\ m.items \in SUBSET TxItem
      BY <2>3 DEF MessageOf
  <2>5. Queues'
      BY <2>1, <2>4, QueuesPurged
  <2>6. Txs(s, m) \in Message /\ Ping(s) \in Message /\ Complete(s, s.promised) \in Message
      BY <2>4, MessageTypes
  <2>7. /\ Len(wire') = Len(wire) + 3
        /\ DOMAIN wire' = DOMAIN wire \cup {Len(wire) + 1, Len(wire) + 2, Len(wire) + 3}
        /\ \A i \in DOMAIN wire : wire'[i] = wire[i]
        /\ wire'[Len(wire) + 1] = Txs(s, m) /\ wire'[Len(wire) + 2] = Ping(s)
        /\ wire'[Len(wire) + 3] = Complete(s, s.promised)
    <3>1. /\ DOMAIN wire' = DOMAIN wire \cup {Len(wire) + 1, Len(wire) + 2, Len(wire) + 3}
          /\ \A i \in DOMAIN wire : wire'[i] = wire[i]
          /\ wire'[Len(wire) + 1] = Txs(s, m) /\ wire'[Len(wire) + 2] = Ping(s)
          /\ wire'[Len(wire) + 3] = Complete(s, s.promised)
        BY SMTT(60), <1>0, <2>1, <2>6, ThreeMore
    <3> QED
        BY SMTT(60), <1>0, <3>1
  <2>8. /\ Txs(s, m).type = "txs" /\ Txs(s, m).items = m.items /\ Ping(s).type = "ping"
        /\ Complete(s, s.promised).promised = s.promised /\ Complete(s, s.promised).sync = s.id
      BY DEF Txs, Ping, Complete
  <2>9. ASSUME NEW x \in s.promised
        PROVE  Told(m, x) \/ Heard(s.id, x, Len(wire))
      BY <1>0, <2>1, <2>2, <2>9, NextMessagesGo DEF Goes
  <2>10. ASSUME NEW k \in DOMAIN wire', wire'[k].type = "complete", NEW x \in wire'[k].promised,
                NEW id, id = wire'[k].sync
         PROVE  Heard(id, x, k - 1)'
    <3>1. CASE k \in DOMAIN wire
      <4>2. Heard(id, x, k - 1)
          BY <2>7, <2>10, <3>1 DEF CompleteKept
      <4>3. k - 1 \in 0..Len(wire) /\ k - 1 \in Nat
          BY SMTT(60), <1>0, <3>1
      <4> QED
          BY SMTT(60), <1>0, <2>1, <2>7, <4>2, <4>3, HeardGrows
    <3>2. CASE k = Len(wire) + 3
      <4>0. id = s.id
          BY <2>7, <2>8, <2>10, <3>2
      <4>1. Told(m, x) \/ Heard(id, x, Len(wire))
          BY <2>7, <2>8, <2>9, <2>10, <3>2, <4>0
      <4>2. Len(wire) \in 0..Len(wire) /\ k - 1 \in Nat /\ Len(wire) <= k - 1
          BY SMTT(60), <1>0, <3>2
      <4>3. CASE \E i \in m.items : x \in i.sids
          BY SMTT(60), <1>0, <2>7, <2>8, <3>2, <4>3 DEF Heard, Tells
      <4>4. CASE Heard(id, x, Len(wire))
          BY SMTT(60), <1>0, <2>1, <2>7, <4>2, <4>4, HeardGrows
      <4>5. CASE x \in m.passed
          BY <2>1, <4>0, <4>5 DEF Heard
      <4> QED
          BY <4>1, <4>3, <4>4, <4>5 DEF Told
    <3>3. k # Len(wire) + 1 /\ k # Len(wire) + 2
        BY <2>7, <2>8, <2>10
    <3> QED
        BY <2>7, <3>1, <3>2, <3>3
  <2> QED
      BY <2>2, <2>5, <2>10 DEF SyncOwed, CompleteKept
<1> QED
    BY <1>0, <1>1, <1>2, <1>3, <1>4, CallDoes

\* A first call owes what it promises.
LEMMA FirstOwed ==
    ASSUME Types, Queues, NEW s,
           \/ \E taken \in Snapshots, contents \in BOOLEAN : s = SnapshotArgs(taken, contents)
           \/ s = TimeArgs \/ s = BufferArgs
    PROVE  Owed(s)
<1>1. ASSUME NEW taken \in Snapshots, NEW contents \in BOOLEAN, s = SnapshotArgs(taken, contents)
      PROVE  Owed(s)
  <2>1. /\ s.mode = "snapshot" /\ s.snap = taken.snap /\ s.sync_tx_content = contents
        /\ s.promised = {x \in assigned :
              TxOf[x] \in taken.snap /\ (contents => TxOf[x] \in has_contents)}
      BY <1>1 DEF SnapshotArgs
  <2> QED
      BY <2>1 DEF Owed, OwedOf, ToCome
<1>2. CASE s = TimeArgs
  <2>1. s.mode = "time" /\ s.start_time = 0 /\ s.snapshot_cache_keys = {} /\ s.promised = assigned
      BY <1>2 DEF TimeArgs
  <2> QED
      BY SMTT(60), <2>1 DEF Owed, OwedOf, ToCome, Queues, Types, CacheTypes
<1>3. CASE s = BufferArgs
  <2>1. /\ s.mode = "buffer" /\ s.txs_buffer = {Item(TxOf[x]) : x \in assigned}
        /\ s.promised = assigned
      BY <1>3 DEF BufferArgs
  <2>2. \A x \in assigned : x \in Item(TxOf[x]).sids
      BY DEF Item, ShortIds
  <2> QED
      BY <2>1, <2>2 DEF Owed, OwedOf, ToCome
<1> QED
    BY <1>1, <1>2, <1>3

\* The arguments of a sync that has less time or promises less.
SameArgs(c, d) ==
    /\ d.mode = c.mode /\ d.id = c.id /\ d.promised \subseteq c.promised
    /\ c.mode = "snapshot" => d.snap = c.snap /\ d.sync_tx_content = c.sync_tx_content
    /\ c.mode = "time" =>
          d.start_time = c.start_time /\ d.snapshot_cache_keys = c.snapshot_cache_keys
    /\ c.mode = "buffer" => d.txs_buffer = c.txs_buffer

\* They are as before otherwise.
LEMMA ArgsKept ==
    ASSUME NEW s \in Sync, NEW P \in SUBSET s.promised
    PROVE  SameArgs(s, [s EXCEPT !.late = TRUE]) /\ SameArgs(s, [s EXCEPT !.promised = P])
<1>1. CASE s \in SnapshotSync
    BY <1>1 DEF SnapshotSync, SameArgs
<1>2. CASE s \in TimeSync
    BY <1>2 DEF TimeSync, SameArgs
<1>3. CASE s \in BufferSync
    BY <1>3 DEF BufferSync, SameArgs
<1> QED
    BY <1>1, <1>2, <1>3 DEF Sync

\* An assignment: an entry that is renewed is still behind every time a sync can have come to.
LEMMA AssignTells ==
    ASSUME TellsInv, NEW s \in Sid, Assign(s)
    PROVE  Queues' /\ SyncOwed' /\ CompleteKept' /\ MissingOnlyPassedOver'
<1>1. /\ assigned' = assigned \cup {s} /\ now' = now + 1
      /\ UNCHANGED <<has_contents, sync, wire, active, peer, passed_over>>
    BY DEF Assign, link
<1>2. now \in Nat /\ expire_queue \subseteq Entry
    BY DEF TellsInv, Types, CacheTypes
<1>3. /\ \A e \in expire_queue : \E f \in expire_queue' : f.sid = e.sid /\ (f.at = e.at \/ f.at = now + 1)
      /\ \A f \in expire_queue' : f.at = now + 1 \/ f \in expire_queue
      /\ \E f \in expire_queue' : f.sid = s
  <2>1. CASE InQueue(s)
    <3> DEFINE new(e) == IF e.sid = s THEN [e EXCEPT !.at = now + 1] ELSE e
    <3>1. expire_queue' = {new(e) : e \in expire_queue}
        BY <1>1, <2>1 DEF Assign
    <3>2. ASSUME NEW e \in expire_queue
          PROVE  /\ new(e).sid = e.sid
                 /\ e.sid = s => new(e).at = now + 1
                 /\ e.sid # s => new(e) = e
        BY SMTT(60), <1>2 DEF Entry
    <3> HIDE DEF new
    <3> QED
        BY <2>1, <3>1, <3>2 DEF InQueue
  <2>2. CASE ~InQueue(s)
    <3> DEFINE new == [sid |-> s, place |-> now + 1, at |-> now + 1]
    <3>1. expire_queue' = expire_queue \cup {new}
        BY <1>1, <2>2 DEF Assign
    <3>2. new.sid = s /\ new.at = now + 1
        OBVIOUS
    <3> HIDE DEF new
    <3> QED
        BY <3>1, <3>2
  <2> QED
      BY <2>1, <2>2
<1>4. Queues'
  <2>1. \A e \in expire_queue : e.at > 0 /\ e.at <= now + 1
      BY SMTT(60), <1>2 DEF TellsInv, Queues, Entry
  <2>2. now + 1 > 0 /\ now + 1 <= now + 1
      BY SMTT(60), <1>2
  <2>3. \A x \in assigned : \E e \in expire_queue : e.sid = x
      BY DEF TellsInv, Queues
  <2>4. \A f \in expire_queue' : f.at > 0 /\ f.at <= now'
      BY <1>1, <1>3, <2>1, <2>2
  <2>5. \A x \in assigned' : \E f \in expire_queue' : f.sid = x
      BY <1>1, <1>3, <2>3
  <2> QED
      BY <2>4, <2>5 DEF Queues
<1>5. \A id, x, n : Heard(id, x, n)' <=> Heard(id, x, n)
    BY <1>1 DEF Heard, Tells
<1>6. ASSUME sync # NoSync, Owed(sync)
      PROVE  Owed(sync)'
  <2>1. ASSUME sync.mode = "time"
        PROVE  sync.start_time <= now + 1 /\ now + 1 > sync.start_time
    <3>1. sync.start_time \in Nat
        BY <1>6, <2>1 DEF TellsInv, Types, SyncTypes, Sync, SnapshotSync, TimeSync, BufferSync
    <3>2. sync.start_time <= now
        BY <1>6, <2>1 DEF Owed
    <3> QED
        BY SMTT(60), <1>2, <3>1, <3>2
  <2>2. ASSUME NEW x, ToCome(sync, x, expire_queue)
        PROVE  ToCome(sync, x, expire_queue')
      BY <1>3, <2>1, <2>2 DEF ToCome
  <2>3. ASSUME NEW x \in sync.promised
        PROVE  OwedOf(sync, x)'
    <3>1. OwedOf(sync, x)
        BY <1>6, <2>3 DEF Owed
    <3> QED
        BY <1>1, <1>5, <2>2, <3>1 DEF OwedOf
  <2> QED
      BY <1>1, <2>1, <2>3 DEF Owed
<1> QED
    BY <1>1, <1>4, <1>5, <1>6 DEF TellsInv, SyncOwed, CompleteKept, MissingOnlyPassedOver

\* Short ids that go are taken out of what is promised.
LEMMA RemoveTells ==
    ASSUME TellsInv, NEW t \in Tx, RemoveShortIds(t)
    PROVE  Queues' /\ SyncOwed' /\ CompleteKept' /\ MissingOnlyPassedOver'
<1>0. PICK gone : Removed(t, gone)
    BY RemovesSome
<1>1. /\ gone \subseteq ShortIds(t) /\ assigned' = assigned \ gone
      /\ has_contents' = has_contents \/ (gone = ShortIds(t) /\ has_contents' = has_contents \ {t})
      /\ UNCHANGED <<now, wire, active, peer, passed_over>>
      /\ \A e \in expire_queue : e.sid \notin gone => e \in expire_queue'
      /\ expire_queue' \subseteq expire_queue
    BY <1>0 DEF Removed
<1>2. Queues'
    BY <1>1 DEF TellsInv, Queues
<1>3. \A id, x, n : Heard(id, x, n)' <=> Heard(id, x, n)
    BY <1>1 DEF Heard, Tells
<1>4. ASSUME sync # NoSync
      PROVE  SameArgs(sync, sync') /\ sync'.promised = sync.promised \ gone
  <2>1. sync \in Sync /\ sync' = [sync EXCEPT !.promised = sync.promised \ gone]
      BY <1>0, <1>4 DEF Removed, TellsInv, Types, SyncTypes
  <2>2. sync.promised \ gone \in SUBSET sync.promised
      OBVIOUS
  <2>3. SameArgs(sync, sync')
      BY <2>1, <2>2, ArgsKept
  <2>4. sync'.promised = sync.promised \ gone
      BY <2>1 DEF Sync, SnapshotSync, TimeSync, BufferSync
  <2> QED
      BY <2>3, <2>4
<1>5. ASSUME sync # NoSync, Owed(sync)
      PROVE  Owed(sync)'
  <2>1. ASSUME NEW x \in sync'.promised
        PROVE  OwedOf(sync, x)'
    <3>1. x \in sync.promised /\ x \notin gone /\ OwedOf(sync, x)
        BY <1>4, <1>5, <2>1 DEF Owed
    <3>2. x \in assigned /\ x \in assigned'
        BY <1>1, <3>1 DEF OwedOf
    <3>3. TxOf[x] \in has_contents => TxOf[x] \in has_contents'
        BY <1>1, <3>1, <3>2 DEF ShortIds
    <3>4. ToCome(sync, x, expire_queue) => ToCome(sync', x, expire_queue')
        BY <1>1, <1>4, <1>5, <3>1 DEF ToCome, SameArgs
    <3>5. \A n : Heard(sync.id, x, n)' <=> Heard(sync.id, x, n)
        BY <1>3, <1>4, <1>5 DEF SameArgs
    <3> QED
        BY <1>1, <1>4, <1>5, <3>1, <3>2, <3>3, <3>4, <3>5 DEF OwedOf, SameArgs
  <2>2. sync'.mode = "time" => sync'.start_time <= now'
      BY <1>1, <1>4, <1>5 DEF Owed, SameArgs
  <2> QED
      BY <2>1, <2>2 DEF Owed
<1>6. sync = NoSync => sync' = NoSync
    BY <1>0 DEF Removed
<1> QED
    BY <1>1, <1>2, <1>3, <1>5, <1>6 DEF TellsInv, SyncOwed, CompleteKept, MissingOnlyPassedOver

\* The peer takes a message off the wire: what was to be heard is, or still will be.
LEMMA ReceiveTells ==
    ASSUME TellsInv, Receive
    PROVE  Queues' /\ SyncOwed' /\ CompleteKept' /\ MissingOnlyPassedOver'
<1>0. /\ wire \in Seq(Message) /\ wire # <<>> /\ wire' = Tail(wire)
      /\ peer \in [sids : SUBSET Sid, missing : SUBSET (Nat \X Sid)]
      /\ UNCHANGED <<expire_queue, assigned, has_contents, now, sync, active, passed_over>>
    BY DEF TellsInv, Types, LinkTypes, Receive, cache
<1>1. /\ wire[1] \in Message /\ 1 \in DOMAIN wire /\ Head(wire) = wire[1]
      /\ \A i \in DOMAIN wire' : i + 1 \in DOMAIN wire /\ wire'[i] = wire[i + 1] /\ i + 1 > 1 /\ i \in Int
    BY <1>0, Arrives
<1>2. Len(wire') = Len(wire) - 1 /\ Len(wire) >= 1 /\ Len(wire) \in Nat
    BY SMTT(60), <1>0
<1>3. ASSUME NEW x, Tells(wire[1], x)
      PROVE  x \in peer'.sids
  <2>1. wire[1].type = "txs" /\ \E i \in wire[1].items : x \in i.sids
      BY <1>3 DEF Tells
  <2>2. peer'.sids = peer.sids \cup UNION {i.sids : i \in wire[1].items}
      BY SMTT(60), <1>0, <1>1, <2>1 DEF Receive
  <2> QED
      BY <2>1, <2>2
<1>4. peer.sids \subseteq peer'.sids
    BY SMTT(60), <1>0 DEF Receive
<1>5. ASSUME NEW id, NEW x, NEW n \in 1..Len(wire), Heard(id, x, n)
      PROVE  Heard(id, x, n - 1)'
  <2>1. CASE x \in peer.sids
      BY <1>4, <2>1 DEF Heard
  <2>2. ASSUME NEW j \in 1..n, Tells(wire[j], x)
        PROVE  Heard(id, x, n - 1)'
    <3>1. CASE j = 1
        BY <1>3, <2>2, <3>1 DEF Heard
    <3>2. CASE j # 1
      <4>1. j - 1 \in 1..(n - 1) /\ j - 1 \in DOMAIN wire' /\ (j - 1) + 1 = j
          BY SMTT(60), <1>0, <1>2, <3>2
      <4>2. wire'[j - 1] = wire[j]
          BY <1>1, <4>1
      <4> QED
          BY <2>2, <4>1, <4>2 DEF Heard, Tells
    <3> QED
        BY <3>1, <3>2
  <2>3. CASE <<id, x>> \in passed_over
      BY <1>0, <2>3 DEF Heard
  <2> QED
      BY <1>5, <2>1, <2>2, <2>3 DEF Heard
<1>6. ASSUME NEW id, NEW x, Heard(id, x, Len(wire))
      PROVE  Heard(id, x, Len(wire))'
    BY SMTT(60), <1>2, <1>5, <1>6
<1>7. ASSUME NEW k \in DOMAIN wire', wire'[k].type = "complete", NEW x \in wire'[k].promised,
             NEW id, id = wire'[k].sync
      PROVE  Heard(id, x, k - 1)'
  <2>1. k + 1 \in DOMAIN wire /\ wire'[k] = wire[k + 1] /\ k \in 1..Len(wire) /\ (k + 1) - 1 = k
      BY SMTT(60), <1>0, <1>1, <1>2
  <2>2. Heard(id, x, k)
      BY <1>7, <2>1 DEF TellsInv, CompleteKept
  <2> QED
      BY <1>5, <2>1, <2>2
<1>8. ASSUME wire[1].type = "complete"
      PROVE  {wire[1].sync} \X (wire[1].promised \ peer.sids) \subseteq passed_over
  <2>1. \A x \in wire[1].promised : Heard(wire[1].sync, x, 0)
      BY SMTT(60), <1>1, <1>8 DEF TellsInv, CompleteKept
  <2>2. \A x \in wire[1].promised \ peer.sids : <<wire[1].sync, x>> \in passed_over
      BY SMTT(60), <2>1 DEF Heard
  <2> QED
      BY SMTT(60), <2>2
<1>9. MissingOnlyPassedOver'
  <2>1. \/ peer'.missing = peer.missing
        \/ /\ wire[1].type = "complete"
           /\ peer'.missing = peer.missing \cup ({wire[1].sync} \X (wire[1].promised \ peer.sids))
      BY <1>0, <1>1 DEF Receive
  <2> QED
      BY <1>0, <1>8, <2>1 DEF TellsInv, MissingOnlyPassedOver
<1>10. Queues'
    BY <1>0 DEF TellsInv, Queues
<1>11. ASSUME Owed(sync)
       PROVE  Owed(sync)'
    BY <1>0, <1>6, <1>11 DEF Owed, OwedOf, ToCome
<1> QED
    BY <1>0, <1>7, <1>9, <1>10, <1>11 DEF TellsInv, SyncOwed, CompleteKept

\* Every step keeps what is owed and what was told.
LEMMA TellsStep ==
    ASSUME TellsInv, [Next]_vars
    PROVE  TellsInv'
<1>0. Types /\ Types' /\ Queues /\ CompleteKept /\ MissingOnlyPassedOver
    BY TypesStep DEF TellsInv
<1>1. CASE StartSync
  <2>1. FirstCall /\ UNCHANGED <<assigned, has_contents, now, active, peer>>
      BY <1>0, <1>1, Calls
  <2>2. PICK s \in Sync, queue \in SUBSET Entry :
            /\ SendTxServiceSyncTxs(s, queue) /\ Purged(queue)
            /\ \/ \E taken \in Snapshots, contents \in BOOLEAN : s = SnapshotArgs(taken, contents)
               \/ s = TimeArgs \/ s = BufferArgs
      BY <1>0, <2>1, FirstCallOf
  <2>3. Owed(s)
      BY <1>0, <2>2, FirstOwed
  <2>4. Queues' /\ SyncOwed' /\ CompleteKept'
      BY <1>0, <2>1, <2>2, <2>3, CallTells
  <2>5. passed_over \subseteq passed_over'
      BY <1>0, <2>2, CallPasses
  <2> QED
      BY <1>0, <2>1, <2>4, <2>5 DEF TellsInv, MissingOnlyPassedOver
<1>2. CASE SyncAlarm
  <2>1. /\ sync \in Sync /\ SendTxServiceSyncTxs(sync, expire_queue)
        /\ UNCHANGED <<assigned, has_contents, now, active, peer>>
      BY <1>0, <1>2, Calls
  <2>2. expire_queue \in SUBSET Entry /\ Purged(expire_queue)
      BY <1>0 DEF Types, CacheTypes, Purged
  <2>3. active => Owed(sync)
      BY <1>2 DEF TellsInv, SyncOwed, SyncAlarm
  <2>4. Queues' /\ SyncOwed' /\ CompleteKept'
      BY <1>0, <2>1, <2>2, <2>3, CallTells
  <2>5. passed_over \subseteq passed_over'
      BY <1>0, <2>1, <2>2, CallPasses
  <2> QED
      BY <1>0, <2>1, <2>4, <2>5 DEF TellsInv, MissingOnlyPassedOver
<1>3. ASSUME UNCHANGED <<expire_queue, assigned, has_contents, now, wire, active, peer, passed_over>>,
             sync = NoSync => sync' = NoSync, sync # NoSync => SameArgs(sync, sync')
      PROVE  TellsInv'
  <2>1. \A id, x, n : Heard(id, x, n)' <=> Heard(id, x, n)
      BY <1>3 DEF Heard, Tells
  <2>2. ASSUME sync # NoSync, Owed(sync)
        PROVE  Owed(sync)'
    <3>1. \A n, x : Heard(sync.id, x, n)' <=> Heard(sync.id, x, n)
        BY <1>3, <2>1, <2>2 DEF SameArgs
    <3>2. ASSUME NEW x \in sync'.promised
          PROVE  OwedOf(sync, x)'
      <4>1. x \in sync.promised /\ OwedOf(sync, x)
          BY <1>3, <2>2, <3>2 DEF SameArgs, Owed
      <4> QED
          BY <1>3, <2>2, <3>1, <4>1 DEF OwedOf, ToCome, SameArgs
    <3> QED
        BY <1>3, <2>2, <3>2 DEF Owed, SameArgs
  <2>3. SyncOwed'
      BY <1>3, <2>2 DEF TellsInv, SyncOwed
  <2>4. CompleteKept'
      BY <1>0, <1>3, <2>1 DEF CompleteKept
  <2> QED
      BY <1>0, <1>3, <2>3, <2>4 DEF TellsInv, Queues, MissingOnlyPassedOver
<1>4. \A c : SameArgs(c, c)
    BY DEF SameArgs
<1>5. CASE TimeIsUp
  <2>1. sync \in Sync /\ sync' = [sync EXCEPT !.late = TRUE]
      BY <1>0, <1>5 DEF TimeIsUp, Types, SyncTypes
  <2>2. sync.promised \in SUBSET sync.promised
      OBVIOUS
  <2>3. SameArgs(sync, sync')
      BY <2>1, <2>2, ArgsKept
  <2> QED
      BY <1>3, <1>5, <2>3 DEF TimeIsUp, link, cache
<1>6. CASE \E s \in Sid : Assign(s)
    BY <1>0, <1>6, AssignTells DEF TellsInv
<1>7. CASE \E t \in Tx : RemoveShortIds(t)
    BY <1>0, <1>7, RemoveTells DEF TellsInv
<1>8. CASE Receive
    BY <1>0, <1>8, ReceiveTells DEF TellsInv
<1>9. CASE MsgPong
    BY <1>3, <1>9, <1>4 DEF MsgPong, cache
<1>10. CASE Close
  <2>1. /\ wire' = <<>> /\ active' = FALSE
        /\ UNCHANGED <<expire_queue, assigned, has_contents, now, peer, passed_over>>
      BY <1>10 DEF Close, cache
  <2>2. DOMAIN wire' = {}
      BY SMTT(60), <2>1
  <2> QED
      BY <1>0, <2>1, <2>2 DEF TellsInv, Queues, SyncOwed, CompleteKept, MissingOnlyPassedOver
<1>11. CASE UNCHANGED vars
    BY <1>3, <1>11, <1>4 DEF vars
<1> QED
    BY <1>1, <1>2, <1>5, <1>6, <1>7, <1>8, <1>9, <1>10, <1>11 DEF Next

\* In all three ways to sync, a peer that is told that the sync is complete has heard of
\* every short id that was assigned when it began and is assigned still, however the
\* messages are cut and whatever the cache does between them, but for those that a message
\* of a sync by time has left behind an entry that was renewed.
THEOREM CompleteTellsAll == Spec => []MissingOnlyPassedOver
<1>1. Init => TellsInv
  <2> SUFFICES ASSUME Init PROVE TellsInv
      OBVIOUS
  <2>1. Types
      BY TypesInit
  <2>2. Queues
    <3> DEFINE e(i) == [sid |-> Queued[i], place |-> i, at |-> i]
    <3>1. expire_queue = {e(i) : i \in DOMAIN Queued} /\ assigned = {Queued[i] : i \in DOMAIN Queued} /\ now = Len(Queued)
        BY DEF Init
    <3>2. \A i \in DOMAIN Queued : e(i).sid = Queued[i] /\ e(i).place = i /\ e(i).at = i /\ i > 0 /\ i <= Len(Queued)
        BY SMTT(60), SyncConstants
    <3> HIDE DEF e
    <3> QED
        BY SMTT(60), <3>1, <3>2 DEF Queues
  <2>3. DOMAIN wire = {}
      BY SMTT(60) DEF Init
  <2>4. peer.missing = {} /\ sync = NoSync
      BY DEF Init
  <2> QED
      BY <2>1, <2>2, <2>3, <2>4 DEF TellsInv, SyncOwed, CompleteKept, MissingOnlyPassedOver
<1>2. TellsInv /\ [Next]_vars => TellsInv'
    BY TellsStep
<1>3. TellsInv => MissingOnlyPassedOver
    BY DEF TellsInv
<1> QED
    BY <1>1, <1>2, <1>3, PTL DEF Spec
=============================================================================
