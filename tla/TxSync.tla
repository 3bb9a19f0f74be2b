------------------------------- MODULE TxSync -------------------------------
(***************************************************************************)
(* TxSyncService: one node sends the short ids of its cache to a peer, in  *)
(* messages small enough not to hold up the event loop, then says that the *)
(* sync is complete.  There are three ways to do it: from a snapshot of    *)
(* hashes, from the expire queue by timestamp, and from a serialized       *)
(* buffer.  Between two messages the cache changes, pongs come back, the   *)
(* connection closes and time runs out.                                    *)
(*                                                                         *)
(* TxOf[s] is the transaction of short id s.  Queued are the short ids     *)
(* that were assigned before, in that order, and WithContents the          *)
(* transactions whose contents are known.  MaxAssigned bounds the clock,   *)
(* which counts assignments, and MaxSyncs the syncs, one after the other.  *)
(* The cache changes as long as a sync is under way or to come.  No two    *)
(* assignments are at the same time.                                       *)
(***************************************************************************)
EXTENDS Integers, Sequences

CONSTANTS Sid, Tx, TxOf, Queued, WithContents, MaxAssigned, MaxSyncs

ASSUME SyncConstants ==
    /\ TxOf \in [Sid -> Tx]
    /\ Queued \in Seq(Sid)
    /\ WithContents \subseteq Tx
    /\ MaxSyncs \in Nat

VARIABLES
    expire_queue,        \* _tx_assignment_expire_queue: entries [sid, place, at], in the order of
                         \* place, which is the time of the insertion; at is that of the entry
    assigned,            \* the short ids that lead to a transaction
    has_contents,        \* the transactions with contents
    now,                 \* the time of the last assignment
    sync,                \* the arguments that the next alarm of the sync carries
    syncs,               \* how many syncs have started
    sync_ping_latency,   \* absent, none (a ping is out) or known
    nonces,              \* the syncs whose pings _nonce_to_network_num holds
    wire,                \* messages to the peer
    pongs,               \* pongs on the way back, by the sync they belong to
    active,              \* conn.is_active()
    peer,                \* the short ids it has heard of, and which of a sync it had not when
                         \* that was complete, as pairs of the sync and the short id
    passed_over          \* history: pairs of a sync and of a short id that one of its messages
                         \* has left behind for good

vars == <<expire_queue, assigned, has_contents, now, sync, syncs, sync_ping_latency, nonces,
          wire, pongs, active, peer, passed_over>>

cache == <<expire_queue, assigned, has_contents, now>>
link == <<wire, pongs, active, peer>>

NoSync == [mode |-> "none"]

ShortIds(t) == {s \in assigned : TxOf[s] = t}

\* TxContentShortIds: the short ids of a transaction, with its contents or without.
Item(t) == [tx |-> t, sids |-> ShortIds(t)]

-----------------------------------------------------------------------------
(* The next message.  Each of these sets gives the items of the message,   *)
(* the arguments of the next call and whether the sync is done; where a    *)
(* message ends is a matter of size and of the time it takes to build.     *)

\* create_txs_service_msg.  With contents asked for, a transaction that has lost
\* them is counted but not serialized.
FromSnapshot(s) ==
    {[items |-> {Item(t) : t \in {u \in popped : s.sync_tx_content => u \in has_contents}},
      unmapped |-> {}, passed |-> {}, next |-> [s EXCEPT !.snap = @ \ popped],
      done |-> popped = s.snap] :
        popped \in SUBSET s.snap \ {{}}}

\* The entries behind start_time, and those of transactions that were not sent yet.
Behind(s) == {e \in expire_queue : e.at > s.start_time}
Met(s) == {e \in Behind(s) : e.sid \in assigned /\ TxOf[e.sid] \notin s.snapshot_cache_keys}

\* Mutant: the next call starts from now.
TimestampNow(end) == now

\* The time the next call starts from: that of the last entry the loop has seen.
Timestamp(end) == end.at

\* An entry that was renewed keeps its place in the queue: behind it there may be older ones,
\* which the next call does not look at any more.
Passed(s, end) == {e.sid : e \in {f \in Behind(s) : f.place > end.place /\ f.at <= end.at}}

\* create_txs_service_msg_from_time.  The loop over the queue breaks after the entry of
\* an item, the first of its transaction, or runs to the end.
FromTime(s) ==
    LET tx(e) == TxOf[e.sid]
        breaks == {e \in Met(s) : \A f \in Met(s) : tx(f) = tx(e) => e.place <= f.place}
        seen(end) == {e \in Behind(s) : e.place <= end.place}
        message(entries, passed, next, done) ==
            [items |-> {Item(tx(e)) : e \in entries \cap Met(s)},
             unmapped |-> {e.sid : e \in entries} \ assigned, passed |-> passed, next |-> next,
             done |-> done]
    IN  {message(seen(end), Passed(s, end),
                 [s EXCEPT !.start_time = Timestamp(end),
                           !.snapshot_cache_keys = @ \cup {tx(e) : e \in seen(end) \cap Met(s)}],
                 FALSE) : end \in breaks}
        \cup {message(Behind(s), {}, s, TRUE)}

\* create_txs_service_msg_from_buffer: whole items from start_offset on.  txs_buffer
\* is what follows it, whose order does not matter here.
FromBuffer(s) ==
    {[items |-> sent, unmapped |-> {}, passed |-> {}, next |-> [s EXCEPT !.txs_buffer = @ \ sent],
      done |-> sent = s.txs_buffer] : sent \in SUBSET s.txs_buffer}

NextMessages(s) ==
    CASE s.mode = "snapshot" -> FromSnapshot(s)
      [] s.mode = "time" -> FromTime(s)
      [] s.mode = "buffer" -> FromBuffer(s)

-----------------------------------------------------------------------------
(* TxSyncService                                                           *)

Sent(messages) == IF active THEN wire \o messages ELSE wire

\* Mutant: update_tx_sync_complete, which leaves the nonces of the sync.
UpdateTxSyncCompleteNonces(kept) ==
    /\ sync_ping_latency' = "absent"
    /\ nonces' = kept

UpdateTxSyncComplete(kept) ==
    /\ sync_ping_latency' = "absent"
    /\ nonces' = {}

\* send_tx_service_sync_complete, after the messages of this call.  The complete
\* message of a sync that was not given up carries what it promises.
SyncComplete(s, messages, kept, given_up) ==
    /\ sync' = NoSync
    /\ UpdateTxSyncComplete(kept)
    /\ wire' = Sent(messages \o <<[type |-> "complete", sync |-> s.id,
                                   promised |-> IF given_up THEN {} ELSE s.promised]>>)

\* register_alarm of the next call.
Reschedule(s, messages) ==
    /\ sync' = s
    /\ wire' = Sent(messages)

\* check_ping_latency_for_network: a ping behind every message.
Messages(s, items) ==
    <<[type |-> "txs", sync |-> s.id, items |-> items], [type |-> "ping", sync |-> s.id]>>

\* Mutant: time is up only when a message could be sent.
GiveUpPatient(s) == ~active \/ (s.late /\ sync_ping_latency # "none")

GiveUp(s) == ~active \/ s.late

\* send_tx_service_sync_txs, _from_time and _from_buffer, which differ in the
\* message they build, with queue for the expire queue.  With nothing in the snapshot
\* no message is sent.
SendTxServiceSyncTxs(s, queue) ==
    LET empty == s.mode = "snapshot" /\ s.snap = {}
    IN  \/ /\ GiveUp(s)
           /\ SyncComplete(s, <<>>, nonces, TRUE)
           /\ expire_queue' = queue /\ UNCHANGED passed_over
        \/ /\ ~GiveUp(s) /\ empty
           /\ SyncComplete(s, <<>>, nonces, FALSE)
           /\ expire_queue' = queue /\ UNCHANGED passed_over
        \/ /\ ~GiveUp(s) /\ ~empty /\ sync_ping_latency = "none"
           /\ Reschedule(s, <<>>)
           /\ expire_queue' = queue
           /\ UNCHANGED <<sync_ping_latency, nonces, passed_over>>
        \/ /\ ~GiveUp(s) /\ ~empty /\ sync_ping_latency # "none"
           /\ \E m \in NextMessages(s) :
                 /\ expire_queue' = {e \in queue : e.sid \notin m.unmapped}
                 /\ passed_over' = passed_over \cup ({s.id} \X m.passed)
                 /\ \/ /\ ~m.done
                       /\ Reschedule(m.next, Messages(s, m.items))
                       /\ sync_ping_latency' = "none"
                       /\ nonces' = nonces \cup {s.id}
                    \/ m.done /\ SyncComplete(s, Messages(s, m.items), nonces \cup {s.id}, FALSE)

\* get_snapshot: all that has contents, or what was assigned since some time, which
\* drops the short ids it meets that lead nowhere.
Snapshots ==
    LET met(from) == {e.sid : e \in {f \in expire_queue : f.at > from}}
    IN  {[snap |-> has_contents, queue |-> expire_queue]} \cup
        {[snap |-> {TxOf[s] : s \in met(from) \cap assigned},
          queue |-> {e \in expire_queue : e.sid \notin met(from) \ assigned}] : from \in 0..now}

\* The first call, with the arguments of the caller.
StartSync ==
    /\ sync = NoSync /\ syncs < MaxSyncs /\ active
    /\ syncs' = syncs + 1
    /\ \/ \E taken \in Snapshots, contents \in BOOLEAN : SendTxServiceSyncTxs(
             [mode |-> "snapshot", id |-> syncs', late |-> FALSE, sync_tx_content |-> contents,
              snap |-> taken.snap,
              promised |-> {s \in assigned :
                  TxOf[s] \in taken.snap /\ (contents => TxOf[s] \in has_contents)}],
             taken.queue)
       \/ SendTxServiceSyncTxs(
             [mode |-> "time", id |-> syncs', late |-> FALSE,
              start_time |-> 0, snapshot_cache_keys |-> {}, promised |-> assigned],
             expire_queue)
       \/ SendTxServiceSyncTxs(
             [mode |-> "buffer", id |-> syncs', late |-> FALSE,
              txs_buffer |-> {Item(TxOf[s]) : s \in assigned}, promised |-> assigned],
             expire_queue)
    /\ UNCHANGED <<assigned, has_contents, now, pongs, active, peer>>

SyncAlarm ==
    /\ sync # NoSync
    /\ SendTxServiceSyncTxs(sync, expire_queue)
    /\ UNCHANGED <<assigned, has_contents, now, syncs, pongs, active, peer>>

\* SENDING_TX_MSGS_TIMEOUT_S have passed since the first message.
TimeIsUp ==
    /\ sync # NoSync /\ ~sync.late
    /\ sync' = [sync EXCEPT !.late = TRUE]
    /\ UNCHANGED <<cache, syncs, sync_ping_latency, nonces, link, passed_over>>

-----------------------------------------------------------------------------
(* The cache, the connection and the peer                                  *)

InQueue(s) == \E e \in expire_queue : e.sid = s

CacheMatters == active /\ (sync # NoSync \/ syncs < MaxSyncs)

\* assign_short_id_by_key: a short id that is queued keeps its place, and its time is now.
Assign(s) ==
    /\ CacheMatters /\ now < MaxAssigned
    /\ now' = now + 1
    /\ assigned' = assigned \cup {s}
    /\ expire_queue' =
          IF InQueue(s)
          THEN {IF e.sid = s THEN [e EXCEPT !.at = now'] ELSE e : e \in expire_queue}
          ELSE expire_queue \cup {[sid |-> s, place |-> now', at |-> now']}
    /\ UNCHANGED <<has_contents, sync, syncs, sync_ping_latency, nonces, link, passed_over>>

\* remove_transaction_by_short_id takes one short id of several, or all of them and the
\* contents with them, as remove_transaction_by_key does; remove_sid_by_key takes all and
\* leaves the contents.  A short id that was assigned to two transactions leaves its place
\* in the queue behind.
RemoveShortIds(t) ==
    /\ CacheMatters
    /\ \E gone \in {ShortIds(t)} \cup {{s} : s \in ShortIds(t)}, left \in BOOLEAN :
          /\ gone # {}
          /\ assigned' = assigned \ gone
          /\ has_contents' \in {has_contents} \cup IF gone = ShortIds(t) THEN {has_contents \ {t}} ELSE {}
          /\ expire_queue' = IF left THEN expire_queue ELSE {e \in expire_queue : e.sid \notin gone}
          /\ sync' = IF sync = NoSync THEN sync ELSE [sync EXCEPT !.promised = @ \ gone]
    /\ UNCHANGED <<now, syncs, sync_ping_latency, nonces, link, passed_over>>

\* msg_tx_service_sync_txs, msg_ping and msg_tx_service_sync_complete of the peer.
Receive ==
    /\ active /\ wire # <<>>
    /\ wire' = Tail(wire)
    /\ LET m == Head(wire)
       IN  \/ /\ m.type = "txs"
              /\ peer' = [peer EXCEPT !.sids = @ \cup UNION {i.sids : i \in m.items}]
              /\ UNCHANGED pongs
           \/ m.type = "ping" /\ pongs' = Append(pongs, m.sync) /\ UNCHANGED peer
           \/ /\ m.type = "complete"
              /\ peer' = [peer EXCEPT !.missing = @ \cup ({m.sync} \X (m.promised \ peer.sids))]
              /\ UNCHANGED pongs
    /\ UNCHANGED <<cache, sync, syncs, sync_ping_latency, nonces, active, passed_over>>

\* msg_pong.  The time of a ping may have expired from ping_message_timestamps.
MsgPong ==
    /\ active /\ pongs # <<>>
    /\ pongs' = Tail(pongs)
    /\ \/ Head(pongs) \in nonces /\ sync_ping_latency' = "known"
       \/ UNCHANGED sync_ping_latency
    /\ UNCHANGED <<cache, sync, syncs, nonces, wire, active, peer, passed_over>>

Close ==
    /\ active
    /\ active' = FALSE
    /\ wire' = <<>> /\ pongs' = <<>>
    /\ UNCHANGED <<cache, sync, syncs, sync_ping_latency, nonces, peer, passed_over>>

-----------------------------------------------------------------------------
Init ==
    /\ expire_queue = {[sid |-> Queued[i], place |-> i, at |-> i] : i \in DOMAIN Queued}
    /\ assigned = {Queued[i] : i \in DOMAIN Queued} /\ has_contents = WithContents /\ now = Len(Queued)
    /\ sync = NoSync /\ syncs = 0
    /\ sync_ping_latency = "absent" /\ nonces = {}
    /\ wire = <<>> /\ pongs = <<>> /\ active = TRUE
    /\ peer = [sids |-> {}, missing |-> {}] /\ passed_over = {}

Next ==
    \/ StartSync \/ SyncAlarm \/ TimeIsUp
    \/ \E s \in Sid : Assign(s)
    \/ \E t \in Tx : RemoveShortIds(t)
    \/ Receive \/ MsgPong \/ Close

\* The event loop fires the alarm of the sync, and time passes.
Spec == Init /\ [][Next]_vars /\ WF_vars(SyncAlarm) /\ WF_vars(TimeIsUp)

-----------------------------------------------------------------------------
\* When the peer is told that a sync is complete it knows every short id that was
\* assigned when the sync began and is assigned still, unless the sync was given up:
\* "if all txs were sent, send complete msg".
SyncTellsAll == peer.missing = {}

\* All that it may lack of such a sync stood in the queue behind an entry that was renewed,
\* where a message of the sync by time ended: no other change of the cache between two
\* messages, and no other way to sync, leaves anything out.
MissingOnlyPassedOver == peer.missing \subseteq passed_over

\* A second message of a sync waits for the answer to the ping behind the first, so
\* that a slow peer is not flooded; a late pong of an earlier sync is no answer.
Throttled ==
    \A i, j \in DOMAIN wire :
        wire[i].type = "txs" /\ wire[j].type = "txs" /\ wire[i].sync = wire[j].sync => i = j

\* Every sync comes to its end, though pongs are lost and the cache grows meanwhile.
SyncEnds == [](sync # NoSync => <>(sync = NoSync))

=============================================================================
