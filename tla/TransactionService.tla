------------------------- MODULE TransactionService -------------------------
(***************************************************************************)
(* The transaction cache of a node: services/transaction_service.py with   *)
(* its three expiration queues, the alarms that drain them, the memory     *)
(* limit, and the cleanup after confirmed blocks.                          *)
(*                                                                         *)
(* The node runs one handler at a time (asyncio): a handler starts only in *)
(* an Idle state.  What a handler still has to do is in work (calls it has *)
(* not made yet) and loop (the while loop it is in), so that each call and *)
(* each iteration is a step, and a Python exception can end it half way.   *)
(* Time is abstract: whether the head of a queue has expired is a          *)
(* nondeterministic choice here; module ExpiringSet has the clock.         *)
(***************************************************************************)
EXTENDS Integers, Sequences, FiniteSets, Functions, OrderedItems

CONSTANTS
    Tx,                     \* transactions: a cache key and its hash
    Sid,                    \* short ids other than NULL_TX_SID
    Block,                  \* block hashes
    NoTx,                   \* no transaction
    Sizes,                  \* lengths of transaction contents
    Lists,                  \* the lists of short ids of sync messages and blocks
    MemoryLimit,            \* _tx_content_memory_limit
    FinalConfirmations,     \* _final_tx_confirmations_count
    Reassign                \* may the network move a live short id to another transaction?

ASSUME ConstantsAssumption ==
    /\ NoTx \notin Tx
    /\ Sizes \subseteq Nat \ {0}
    /\ Lists \subseteq Seq(Sid)
    /\ MemoryLimit \in Nat
    /\ FinalConfirmations \in Nat \ {0}
    /\ Reassign \in BOOLEAN

VARIABLES
    tx_cache_key_to_short_ids,   \* the short ids of a transaction, {} for no entry
    short_id_to_tx_cache_key,    \* the transaction of a short id, or NoTx
    paid,                        \* _short_id_to_tx_flag: the short ids flagged PAID_TX
    tx_cache_key_to_contents,    \* the length of the contents stored, 0 for no entry
    total_tx_contents_size,
    tx_assignment_expire_queue,
    tx_hashes_without_short_id,
    tx_hashes_without_content,
    short_ids_seen_in_block,     \* the tracked blocks, oldest first
    block_short_ids,             \* the short ids of each tracked block
    scheduled,                   \* the *_alarm_scheduled flags that are True
    alarms,                      \* the expiry alarms the alarm queue holds
    loop,                        \* the while loop the running handler is in
    work                         \* the calls the running handler has still to make

maps == <<tx_cache_key_to_short_ids, short_id_to_tx_cache_key, paid,
          tx_cache_key_to_contents, total_tx_contents_size>>
waiting == <<tx_hashes_without_short_id, tx_hashes_without_content>>
blocks == <<short_ids_seen_in_block, block_short_ids>>
control == <<scheduled, alarms, loop, work>>
vars == <<maps, tx_assignment_expire_queue, waiting, blocks, control>>

Alarm == {"assignments", "contents", "sids"}

Call == [op : {"assign"}, tx : Tx, sid : Sid]
          \cup [op : {"set"}, tx : Tx, size : Sizes]
          \cup [op : {"remove"}, sid : Sid]
          \cup [op : {"removeKey"}, tx : Tx]
          \cup [op : {"cleaned"}, block : Block]

Init ==
    /\ tx_cache_key_to_short_ids = [t \in Tx |-> {}]
    /\ short_id_to_tx_cache_key = [s \in Sid |-> NoTx]
    /\ paid = {}
    /\ tx_cache_key_to_contents = [t \in Tx |-> 0]
    /\ total_tx_contents_size = 0
    /\ tx_assignment_expire_queue = NoItems
    /\ tx_hashes_without_short_id = NoItems
    /\ tx_hashes_without_content = NoItems
    /\ short_ids_seen_in_block = NoItems
    /\ block_short_ids = [b \in Block |-> <<>>]
    /\ scheduled = {}
    /\ alarms = {}
    /\ loop = "none"
    /\ work = <<>>

Idle == loop = "none" /\ work = <<>>
HasContents(t) == tx_cache_key_to_contents[t] # 0
IsSingleton(S) == \E x \in S : S = {x}

-----------------------------------------------------------------------------
(* The operations of the cache.  Each sets maps, the three queues and the  *)
(* alarm flags; its callers say what happens to loop, work and blocks.     *)

\* register_alarm, once, guarded by the *_alarm_scheduled flag.
Schedule(names) ==
    /\ scheduled' = scheduled \cup names
    /\ alarms' = alarms \cup (names \ scheduled)

Unmap(S) == [s \in Sid |-> IF s \in S THEN NoTx ELSE short_id_to_tx_cache_key[s]]

\* assign_short_id_by_key.  The set of a previous owner of s keeps s.
AssignShortId(t, s) ==
    /\ tx_hashes_without_content' =
          IF HasContents(t) THEN tx_hashes_without_content
                            ELSE AddItem(tx_hashes_without_content, t)
    /\ tx_cache_key_to_short_ids' = [tx_cache_key_to_short_ids EXCEPT ![t] = @ \cup {s}]
    /\ short_id_to_tx_cache_key' = [short_id_to_tx_cache_key EXCEPT ![s] = t]
    /\ tx_assignment_expire_queue' = AddItem(tx_assignment_expire_queue, s)
    /\ tx_hashes_without_short_id' = RemoveItems(tx_hashes_without_short_id, {t})
    /\ Schedule({"assignments"} \cup IF HasContents(t) THEN {} ELSE {"sids"})
    /\ UNCHANGED <<paid, tx_cache_key_to_contents, total_tx_contents_size>>

\* Mutant: the length stored is the change of the length.
SetTransactionContentsDelta(t, n) ==
    /\ tx_hashes_without_short_id' =
          IF tx_cache_key_to_short_ids[t] = {} THEN AddItem(tx_hashes_without_short_id, t)
                                               ELSE tx_hashes_without_short_id
    /\ Schedule(IF tx_cache_key_to_short_ids[t] = {} THEN {"contents"} ELSE {})
    /\ tx_hashes_without_content' = RemoveItems(tx_hashes_without_content, {t})
    /\ total_tx_contents_size' = total_tx_contents_size + n - tx_cache_key_to_contents[t]
    /\ tx_cache_key_to_contents' = [tx_cache_key_to_contents EXCEPT ![t] = n - @]
    /\ loop' = IF total_tx_contents_size' > MemoryLimit THEN "memory" ELSE "none"
    /\ UNCHANGED <<tx_cache_key_to_short_ids, short_id_to_tx_cache_key, paid,
                   tx_assignment_expire_queue>>

\* Mutant: the hash is queued only when its alarm is registered.
SetTransactionContentsQueuedOnce(t, n) ==
    LET first == tx_cache_key_to_short_ids[t] = {} /\ "contents" \notin scheduled
    IN  /\ tx_hashes_without_short_id' =
              IF first THEN AddItem(tx_hashes_without_short_id, t)
                       ELSE tx_hashes_without_short_id
        /\ Schedule(IF first THEN {"contents"} ELSE {})
        /\ tx_hashes_without_content' = RemoveItems(tx_hashes_without_content, {t})
        /\ total_tx_contents_size' = total_tx_contents_size + n - tx_cache_key_to_contents[t]
        /\ tx_cache_key_to_contents' = [tx_cache_key_to_contents EXCEPT ![t] = n]
        /\ loop' = IF total_tx_contents_size' > MemoryLimit THEN "memory" ELSE "none"
        /\ UNCHANGED <<tx_cache_key_to_short_ids, short_id_to_tx_cache_key, paid,
                       tx_assignment_expire_queue>>

\* set_transaction_contents_by_key, up to the loop of _memory_limit_clean_up.
SetTransactionContents(t, n) ==
    LET noSid == tx_cache_key_to_short_ids[t] = {}
    IN  /\ tx_hashes_without_short_id' =
              IF noSid THEN AddItem(tx_hashes_without_short_id, t)
                       ELSE tx_hashes_without_short_id
        /\ Schedule(IF noSid THEN {"contents"} ELSE {})
        /\ tx_hashes_without_content' = RemoveItems(tx_hashes_without_content, {t})
        /\ total_tx_contents_size' = total_tx_contents_size + n - tx_cache_key_to_contents[t]
        /\ tx_cache_key_to_contents' = [tx_cache_key_to_contents EXCEPT ![t] = n]
        /\ loop' = IF total_tx_contents_size' > MemoryLimit THEN "memory" ELSE "none"
        /\ UNCHANGED <<tx_cache_key_to_short_ids, short_id_to_tx_cache_key, paid,
                       tx_assignment_expire_queue>>

\* Mutant: the size of the contents is not given back.
DropContentsKeepSize(t) ==
    /\ total_tx_contents_size' = total_tx_contents_size
    /\ tx_cache_key_to_contents' = [tx_cache_key_to_contents EXCEPT ![t] = 0]

\* Deletes the contents of t, if any.
DropContents(t) ==
    /\ total_tx_contents_size' = total_tx_contents_size - tx_cache_key_to_contents[t]
    /\ tx_cache_key_to_contents' = [tx_cache_key_to_contents EXCEPT ![t] = 0]

\* remove_transaction_by_key.
RemoveTransactionByKey(t, force, assume_no_sid) ==
    LET sids == tx_cache_key_to_short_ids[t]
        kept == \/ assume_no_sid /\ sids # {}
                \/ ~force /\ sids \cap paid # {}
    IN  \/ kept /\ UNCHANGED <<maps, tx_assignment_expire_queue>>
        \/ /\ ~kept
           /\ tx_cache_key_to_short_ids' = [tx_cache_key_to_short_ids EXCEPT ![t] = {}]
           /\ short_id_to_tx_cache_key' = Unmap(sids)
           /\ paid' = paid \ {s \in sids : short_id_to_tx_cache_key[s] # NoTx}
           /\ tx_assignment_expire_queue' = RemoveItems(tx_assignment_expire_queue, sids)
           /\ DropContents(t)

\* remove_transaction_by_short_id raises KeyError: at the del of the short ids of
\* a transaction that has no entry, or at the set's remove of a short id the
\* transaction does not list.
RemovalRaises(s, related) ==
    LET t == short_id_to_tx_cache_key[s]
        sids == tx_cache_key_to_short_ids[t]
    IN  /\ t # NoTx
        /\ \/ sids = {}
           \/ ~related /\ ~IsSingleton(sids) /\ s \notin sids

\* remove_transaction_by_short_id, called when the expire queue is q.  When it
\* raises, s itself is not taken out of the queue.
RemoveTransactionByShortId(s, related, force, q) ==
    LET t == short_id_to_tx_cache_key[s]
        sids == IF tx_cache_key_to_short_ids[t] = {} THEN {s}
                                                     ELSE tx_cache_key_to_short_ids[t]
        flagged == tx_cache_key_to_short_ids[t] \cap paid # {}
        last == IsSingleton(sids) \/ related
        own == IF RemovalRaises(s, related) THEN {} ELSE {s}
    IN  \/ /\ t = NoTx
           /\ tx_assignment_expire_queue' = RemoveItems(q, {s})
           /\ UNCHANGED maps
        \/ /\ t # NoTx /\ ~force /\ flagged
           /\ tx_assignment_expire_queue' = q
           /\ UNCHANGED maps
        \/ /\ t # NoTx /\ (force \/ ~flagged) /\ last
           /\ short_id_to_tx_cache_key' = Unmap(sids \cup {s})
           /\ tx_cache_key_to_short_ids' = [tx_cache_key_to_short_ids EXCEPT ![t] = {}]
           /\ tx_assignment_expire_queue' = RemoveItems(q, (sids \ {s}) \cup own)
           /\ DropContents(t)
           /\ UNCHANGED paid
        \/ /\ t # NoTx /\ (force \/ ~flagged) /\ ~last
           /\ short_id_to_tx_cache_key' = Unmap({s})
           /\ tx_cache_key_to_short_ids' = [tx_cache_key_to_short_ids EXCEPT ![t] = @ \ {s}]
           /\ tx_assignment_expire_queue' = RemoveItems(q, own)
           /\ UNCHANGED <<paid, tx_cache_key_to_contents, total_tx_contents_size>>

\* `del self._short_id_to_tx_cache_key[short_id]` raises KeyError.
SidRemovalRaises(t) ==
    /\ ~HasContents(t)
    /\ \E s \in tx_cache_key_to_short_ids[t] : short_id_to_tx_cache_key[s] = NoTx

\* Mutant: the short ids keep leading to the transaction.
RemoveSidByKeyOneWay(t) ==
    /\ tx_cache_key_to_short_ids' = IF HasContents(t) THEN tx_cache_key_to_short_ids
                                    ELSE [tx_cache_key_to_short_ids EXCEPT ![t] = {}]
    /\ UNCHANGED <<short_id_to_tx_cache_key, paid, tx_cache_key_to_contents,
                   total_tx_contents_size, tx_assignment_expire_queue>>

\* remove_sid_by_key.  A KeyError leaves the short ids not yet reached in place;
\* a Python set is iterated in an order of its own.
RemoveSidByKey(t) ==
    \/ HasContents(t) /\ UNCHANGED <<maps, tx_assignment_expire_queue>>
    \/ /\ ~HasContents(t)
       /\ \E done \in SUBSET tx_cache_key_to_short_ids[t] :
             /\ \A s \in done : short_id_to_tx_cache_key[s] # NoTx
             /\ ~SidRemovalRaises(t) => done = tx_cache_key_to_short_ids[t]
             /\ short_id_to_tx_cache_key' = Unmap(done)
             /\ tx_assignment_expire_queue' = RemoveItems(tx_assignment_expire_queue, done)
       /\ tx_cache_key_to_short_ids' = [tx_cache_key_to_short_ids EXCEPT ![t] = {}]
       /\ UNCHANGED <<paid, tx_cache_key_to_contents, total_tx_contents_size>>

\* clear.  The *_alarm_scheduled flags and the alarms stay.
ClearCache ==
    /\ tx_cache_key_to_short_ids' = [t \in Tx |-> {}]
    /\ short_id_to_tx_cache_key' = [s \in Sid |-> NoTx]
    /\ paid' = {}
    /\ tx_cache_key_to_contents' = [t \in Tx |-> 0]
    /\ total_tx_contents_size' = 0
    /\ tx_assignment_expire_queue' = NoItems
    /\ tx_hashes_without_short_id' = NoItems
    /\ tx_hashes_without_content' = NoItems
    /\ short_ids_seen_in_block' = NoItems
    /\ block_short_ids' = [b \in Block |-> <<>>]

-----------------------------------------------------------------------------
(* Handlers: each starts when the node is Idle.                            *)

\* Short ids the network may give t: no other transaction here holds them,
\* unless Reassign.
MayAssign(t, s) == Reassign \/ \A u \in Tx \ {t} : s \notin tx_cache_key_to_short_ids[u]

Assign ==
    /\ Idle
    /\ \E t \in Tx, s \in Sid : MayAssign(t, s) /\ AssignShortId(t, s)
    /\ UNCHANGED <<blocks, loop, work>>

SetContents ==
    /\ Idle
    /\ \E t \in Tx, n \in Sizes : SetTransactionContents(t, n)
    /\ UNCHANGED <<blocks, work>>

\* process_tx_sync_message, for one transaction: its contents unless they are
\* missing (n = 0), then its short ids.
ProcessTxSyncMessage ==
    /\ Idle
    /\ \E t \in Tx, n \in Sizes \cup {0}, l \in Lists :
          /\ \A i \in DOMAIN l : MayAssign(t, l[i])
          /\ work' = (IF n = 0 THEN <<>> ELSE <<[op |-> "set", tx |-> t, size |-> n]>>)
                       \o [i \in 1..Len(l) |-> [op |-> "assign", tx |-> t, sid |-> l[i]]]
    /\ UNCHANGED <<maps, tx_assignment_expire_queue, waiting, blocks, scheduled, alarms, loop>>

\* set_short_id_transaction_type, whose argument need not be a known short id.
SetPaid ==
    /\ Idle
    /\ \E s \in Sid : paid' = paid \cup {s}
    /\ UNCHANGED <<tx_cache_key_to_short_ids, short_id_to_tx_cache_key,
                   tx_cache_key_to_contents, total_tx_contents_size,
                   tx_assignment_expire_queue, waiting, blocks, control>>

RemoveByKey ==
    /\ Idle
    /\ \E t \in Tx, force \in BOOLEAN : RemoveTransactionByKey(t, force, FALSE)
    /\ UNCHANGED <<waiting, blocks, control>>

RemoveByShortId ==
    /\ Idle
    /\ \E s \in Sid, related, force \in BOOLEAN :
          RemoveTransactionByShortId(s, related, force, tx_assignment_expire_queue)
    /\ UNCHANGED <<waiting, blocks, control>>

Clear ==
    /\ Idle
    /\ ClearCache
    /\ UNCHANGED control

\* get_snapshot(duration): drops short ids of the expire queue that have no
\* transaction, those assigned within the duration.
GetSnapshot ==
    /\ Idle
    /\ \E S \in SUBSET {s \in tx_assignment_expire_queue.items :
                          short_id_to_tx_cache_key[s] = NoTx} :
          tx_assignment_expire_queue' = RemoveItems(tx_assignment_expire_queue, S)
    /\ UNCHANGED <<maps, waiting, blocks, control>>

Removals(l) == [i \in 1..Len(l) |-> [op |-> "remove", sid |-> l[i]]]

\* track_seen_short_ids: a block seen again keeps its place.  When enough
\* blocks are tracked the oldest is popped and its transactions removed.
TrackSeenShortIds ==
    /\ Idle
    /\ \E b \in Block, l \in Lists :
          LET seen == AddItem(short_ids_seen_in_block, b)
              sids == [block_short_ids EXCEPT ![b] = l]
          IN  \/ /\ Cardinality(seen.items) < FinalConfirmations
                 /\ short_ids_seen_in_block' = seen
                 /\ block_short_ids' = sids
                 /\ work' = <<>>
              \/ /\ Cardinality(seen.items) >= FinalConfirmations
                 /\ \E old \in seen.items :
                       /\ IsOldest(seen, old)
                       /\ short_ids_seen_in_block' = RemoveItems(seen, {old})
                       /\ block_short_ids' = [sids EXCEPT ![old] = <<>>]
                       /\ work' = Removals(sids[old])
    /\ UNCHANGED <<maps, tx_assignment_expire_queue, waiting, scheduled, alarms, loop>>

\* contents_cleanup of normal_cleanup_service_helpers: the short ids of a block,
\* then its other transactions by key, then the block itself.
ContentsCleanup ==
    /\ Idle
    /\ \E b \in Block, l \in Lists, t \in Tx :
          work' = Removals(l) \o <<[op |-> "removeKey", tx |-> t],
                                   [op |-> "cleaned", block |-> b]>>
    /\ UNCHANGED <<maps, tx_assignment_expire_queue, waiting, blocks, scheduled, alarms, loop>>

-----------------------------------------------------------------------------
(* The steps of a running handler.                                         *)

\* The next call of the handler.  An exception ends the handler.
NextCall(op) == loop = "none" /\ work # <<>> /\ Head(work).op = op

CallAssign ==
    /\ NextCall("assign")
    /\ AssignShortId(Head(work).tx, Head(work).sid)
    /\ work' = Tail(work)
    /\ UNCHANGED <<blocks, loop>>

CallSetContents ==
    /\ NextCall("set")
    /\ SetTransactionContents(Head(work).tx, Head(work).size)
    /\ work' = Tail(work)
    /\ UNCHANGED blocks

\* remove_transaction_by_short_id(..., remove_related_short_ids=True, force=True)
CallRemoveByShortId ==
    /\ NextCall("remove")
    /\ RemoveTransactionByShortId(Head(work).sid, TRUE, TRUE, tx_assignment_expire_queue)
    /\ work' = IF RemovalRaises(Head(work).sid, TRUE) THEN <<>> ELSE Tail(work)
    /\ UNCHANGED <<waiting, blocks, scheduled, alarms, loop>>

CallRemoveByKey ==
    /\ NextCall("removeKey")
    /\ RemoveTransactionByKey(Head(work).tx, TRUE, FALSE)
    /\ work' = Tail(work)
    /\ UNCHANGED <<waiting, blocks, scheduled, alarms, loop>>

\* on_block_cleaned_up
CallBlockCleanedUp ==
    /\ NextCall("cleaned")
    /\ short_ids_seen_in_block' = RemoveItems(short_ids_seen_in_block, {Head(work).block})
    /\ block_short_ids' = [block_short_ids EXCEPT ![Head(work).block] = <<>>]
    /\ work' = Tail(work)
    /\ UNCHANGED <<maps, tx_assignment_expire_queue, waiting, scheduled, alarms, loop>>

\* Mutant: the oldest is peeked at, and a transaction flagged PAID_TX is spared.
MemoryEvictUnforced ==
    /\ loop = "memory"
    /\ total_tx_contents_size > MemoryLimit
    /\ \E s \in tx_assignment_expire_queue.items :
          /\ IsOldest(tx_assignment_expire_queue, s)
          /\ RemoveTransactionByShortId(s, FALSE, FALSE, tx_assignment_expire_queue)
    /\ UNCHANGED <<waiting, blocks, control>>

\* The loop of _memory_limit_clean_up: remove_oldest, with its callback.
MemoryEvict ==
    /\ loop = "memory"
    /\ total_tx_contents_size > MemoryLimit
    /\ \E s \in tx_assignment_expire_queue.items :
          /\ IsOldest(tx_assignment_expire_queue, s)
          /\ RemoveTransactionByShortId(s, FALSE, TRUE,
                                        RemoveItems(tx_assignment_expire_queue, {s}))
          /\ IF RemovalRaises(s, FALSE) THEN loop' = "none" /\ work' = <<>>
                                        ELSE UNCHANGED <<loop, work>>
    /\ UNCHANGED <<waiting, blocks, scheduled, alarms>>

\* Mutant: the loop gives up when there is nothing left to evict.
MemoryEndEarly ==
    /\ loop = "memory"
    /\ total_tx_contents_size <= MemoryLimit \/ tx_assignment_expire_queue.items = {}
    /\ loop' = "none"
    /\ UNCHANGED <<maps, tx_assignment_expire_queue, waiting, blocks, scheduled, alarms, work>>

MemoryEnd ==
    /\ loop = "memory"
    /\ total_tx_contents_size <= MemoryLimit
    /\ loop' = "none"
    /\ UNCHANGED <<maps, tx_assignment_expire_queue, waiting, blocks, scheduled, alarms, work>>

\* Nothing left to evict: the whole cache goes.
MemoryClear ==
    /\ loop = "memory"
    /\ total_tx_contents_size > MemoryLimit
    /\ tx_assignment_expire_queue.items = {}
    /\ ClearCache
    /\ loop' = "none"
    /\ UNCHANGED <<scheduled, alarms, work>>

-----------------------------------------------------------------------------
(* The three expiry alarms: expire_old_assignments, expire_content_without_sid *)
(* and expire_sid_without_content.                                         *)

QueueOf(a) == CASE a = "assignments" -> tx_assignment_expire_queue
                [] a = "contents" -> tx_hashes_without_short_id
                [] a = "sids" -> tx_hashes_without_content

FireAlarm ==
    /\ Idle
    /\ \E a \in alarms : loop' = a
    /\ UNCHANGED <<maps, tx_assignment_expire_queue, waiting, blocks, scheduled, alarms, work>>

\* AlarmQueue.fire_alarms does not reschedule an alarm whose function raised.
AfterCallback(a, raised) ==
    /\ loop' = IF raised THEN "none" ELSE a
    /\ alarms' = IF raised THEN alarms \ {a} ELSE alarms
    /\ UNCHANGED <<scheduled, work, blocks>>

\* One iteration of remove_expired: popitem, then the callback.
ExpireAssignment ==
    /\ loop = "assignments"
    /\ \E s \in tx_assignment_expire_queue.items :
          /\ IsOldest(tx_assignment_expire_queue, s)
          /\ RemoveTransactionByShortId(s, FALSE, TRUE,
                                        RemoveItems(tx_assignment_expire_queue, {s}))
          /\ AfterCallback("assignments", RemovalRaises(s, FALSE))
    /\ UNCHANGED waiting

ExpireContent ==
    /\ loop = "contents"
    /\ \E t \in tx_hashes_without_short_id.items :
          /\ IsOldest(tx_hashes_without_short_id, t)
          /\ tx_hashes_without_short_id' = RemoveItems(tx_hashes_without_short_id, {t})
          /\ RemoveTransactionByKey(t, TRUE, TRUE)
    /\ AfterCallback("contents", FALSE)
    /\ UNCHANGED tx_hashes_without_content

ExpireSid ==
    /\ loop = "sids"
    /\ \E t \in tx_hashes_without_content.items :
          /\ IsOldest(tx_hashes_without_content, t)
          /\ tx_hashes_without_content' = RemoveItems(tx_hashes_without_content, {t})
          /\ RemoveSidByKey(t)
          /\ AfterCallback("sids", SidRemovalRaises(t))
    /\ UNCHANGED tx_hashes_without_short_id

\* Mutant: the *_alarm_scheduled flag is not reset.
ExpireEndFlagKept ==
    /\ loop \in Alarm
    /\ loop' = "none"
    /\ alarms' = IF QueueOf(loop).items = {} THEN alarms \ {loop} ELSE alarms
    /\ UNCHANGED <<maps, tx_assignment_expire_queue, waiting, blocks, scheduled, work>>

\* The loop ends (the head has not expired, the limit is reached or the queue is
\* empty).  With an empty queue the alarm returns 0 and is not rescheduled.
ExpireEnd ==
    /\ loop \in Alarm
    /\ loop' = "none"
    /\ IF QueueOf(loop).items = {}
       THEN scheduled' = scheduled \ {loop} /\ alarms' = alarms \ {loop}
       ELSE UNCHANGED <<scheduled, alarms>>
    /\ UNCHANGED <<maps, tx_assignment_expire_queue, waiting, blocks, work>>

-----------------------------------------------------------------------------
Step ==
    \/ CallAssign \/ CallSetContents \/ CallRemoveByShortId \/ CallRemoveByKey
    \/ CallBlockCleanedUp
    \/ MemoryEvict \/ MemoryEnd \/ MemoryClear
    \/ ExpireAssignment \/ ExpireContent \/ ExpireSid \/ ExpireEnd

Next ==
    \/ Assign \/ SetContents \/ ProcessTxSyncMessage \/ SetPaid
    \/ RemoveByKey \/ RemoveByShortId \/ Clear \/ GetSnapshot
    \/ TrackSeenShortIds \/ ContentsCleanup \/ FireAlarm
    \/ Step

\* A handler that has started runs to its end.
Spec == Init /\ [][Next]_vars /\ WF_vars(Step)

-----------------------------------------------------------------------------
(* Properties                                                              *)

MapsTypeOK ==
    /\ tx_cache_key_to_short_ids \in [Tx -> SUBSET Sid]
    /\ short_id_to_tx_cache_key \in [Sid -> Tx \cup {NoTx}]
    /\ paid \subseteq Sid
    /\ tx_cache_key_to_contents \in [Tx -> Sizes \cup {0}]
    /\ total_tx_contents_size \in Int

QueuesTypeOK ==
    /\ IsOrdered(tx_assignment_expire_queue, Sid)
    /\ IsOrdered(tx_hashes_without_short_id, Tx)
    /\ IsOrdered(tx_hashes_without_content, Tx)

BlocksTypeOK ==
    /\ IsOrdered(short_ids_seen_in_block, Block)
    /\ block_short_ids \in [Block -> Lists \cup {<<>>}]

AlarmsTypeOK ==
    /\ scheduled \subseteq Alarm
    /\ alarms \subseteq Alarm

ControlTypeOK ==
    /\ loop \in {"none", "memory"} \cup Alarm
    /\ work \in Seq(Call)

\* The shapes of the dictionaries, queues and flags of TransactionService.
TypeOK ==
    MapsTypeOK /\ QueuesTypeOK /\ BlocksTypeOK /\ AlarmsTypeOK /\ ControlTypeOK

\* The two directions of the short id mapping describe the same relation: a
\* short id leads to the transaction that lists it and to no other, after any
\* mix of assignments, removals by key or short id, evictions and expiries.
MappingsAgree ==
    \A t \in Tx, s \in Sid :
        s \in tx_cache_key_to_short_ids[t] <=> short_id_to_tx_cache_key[s] = t

AssignedExpire ==
    tx_assignment_expire_queue.items = {s \in Sid : short_id_to_tx_cache_key[s] # NoTx}

ContentsExpire ==
    \A t \in Tx : HasContents(t) /\ tx_cache_key_to_short_ids[t] = {}
                    => t \in tx_hashes_without_short_id.items

SidsExpire ==
    \A t \in Tx : ~HasContents(t) /\ tx_cache_key_to_short_ids[t] # {}
                    => t \in tx_hashes_without_content.items

\* Whatever the cache stores will be looked at by an expiry alarm: a mapped
\* short id is in the assignment queue (and only those are, which is what
\* iter_transaction_hashes_from_oldest asserts), contents without short id and
\* short ids without contents are in the queue that expires them.
EverythingExpires == AssignedExpire /\ ContentsExpire /\ SidsExpire

\* A queue that holds something has its alarm in the alarm queue: no order of
\* additions, expiries and exceptions leaves *_alarm_scheduled True with no
\* alarm behind it, which would stop expiry for good.
AlarmPending ==
    \A a \in Alarm : QueueOf(a).items # {} => a \in alarms

\* Between handlers the contents fit the memory limit, however large the last
\* transaction was and whatever _memory_limit_clean_up could evict.
MemoryBounded ==
    loop # "memory" => total_tx_contents_size <= MemoryLimit

\* _total_tx_contents_size is the sum of the lengths of what is stored, through
\* replacements, every way of removing a transaction, and clear.
SizeIsSum ==
    total_tx_contents_size = SumFunction(tx_cache_key_to_contents)

\* Every handler comes to its end; in particular the loop of
\* _memory_limit_clean_up does, for every remove_oldest shortens the queue.
HandlersEnd == ~Idle ~> Idle

-----------------------------------------------------------------------------
(* The inductive invariant, for a network that does not reassign live short *)
(* ids: what is above, and what a half-done sync message and the alarm     *)
(* flags rely on.                                                          *)

FlagsAgree == scheduled = alarms

\* The assignments a sync message has still to make are for one transaction
\* per short id, and no other transaction holds that short id.
AssignsPermitted ==
    \A i \in 1..Len(work) : work[i].op = "assign" =>
        /\ \A u \in Tx \ {work[i].tx} : work[i].sid \notin tx_cache_key_to_short_ids[u]
        /\ \A j \in 1..Len(work) : work[j].op = "assign" /\ work[j].sid = work[i].sid
                                     => work[j].tx = work[i].tx

\* What every step keeps when live short ids are not reassigned.
IInv ==
    /\ TypeOK
    /\ MappingsAgree
    /\ EverythingExpires
    /\ FlagsAgree
    /\ AlarmPending
    /\ MemoryBounded
    /\ AssignsPermitted
=============================================================================
