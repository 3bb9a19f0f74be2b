---------------------- MODULE TransactionServiceProofs ----------------------
(***************************************************************************)
(* Theorems about module TransactionService, for every set of transactions,*)
(* short ids and blocks, and every memory limit.                           *)
(***************************************************************************)
EXTENDS TransactionService, FiniteSetTheorems, WellFoundedInduction, TLAPS

USE ZenonT(40)

-----------------------------------------------------------------------------
(* Facts about ordered queues.                                             *)

\* Adding an item keeps the queue well formed and adds that item only.
LEMMA AddItemFacts ==
    ASSUME NEW S, NEW q, IsOrdered(q, S), NEW x \in S
    PROVE  /\ IsOrdered(AddItem(q, x), S)
           /\ AddItem(q, x).items = q.items \cup {x}
  BY DEF IsOrdered, AddItem

\* Removing items keeps the queue well formed and removes those items only.
LEMMA RemoveItemsFacts ==
    ASSUME NEW S, NEW q, IsOrdered(q, S), NEW X
    PROVE  /\ IsOrdered(RemoveItems(q, X), S)
           /\ RemoveItems(q, X).items = q.items \ X
  BY DEF IsOrdered, RemoveItems

\* The empty queue is well formed.
LEMMA NoItemsFacts ==
    ASSUME NEW S
    PROVE  IsOrdered(NoItems, S) /\ NoItems.items = {}
  BY DEF IsOrdered, NoItems

\* The items of a well-formed queue come from its set.
LEMMA ItemsInSet ==
    ASSUME NEW S, NEW q, IsOrdered(q, S)
    PROVE  q.items \subseteq S
  BY DEF IsOrdered

-----------------------------------------------------------------------------
(* Type correctness of the operations.                                     *)

\* Scheduling alarms keeps the type of the flags and of the alarms.
LEMMA ScheduleType ==
    ASSUME NEW names \in SUBSET Alarm, AlarmsTypeOK, Schedule(names)
    PROVE  AlarmsTypeOK'
  BY DEF AlarmsTypeOK, Schedule

\* Forgetting the transactions of some short ids keeps the type of the mapping.
LEMMA UnmapType ==
    ASSUME MapsTypeOK, NEW S
    PROVE  Unmap(S) \in [Sid -> Tx \cup {NoTx}]
  BY DEF MapsTypeOK, Unmap

\* assign_short_id_by_key keeps the types.
LEMMA AssignShortIdType ==
    ASSUME TypeOK, NEW t \in Tx, NEW s \in Sid, AssignShortId(t, s)
    PROVE  MapsTypeOK' /\ QueuesTypeOK' /\ AlarmsTypeOK'
  <1> USE DEF TypeOK, AssignShortId
  <1>1. MapsTypeOK'
    BY DEF MapsTypeOK
  <1>2. QueuesTypeOK'
    BY AddItemFacts, RemoveItemsFacts DEF QueuesTypeOK
  <1>3. AlarmsTypeOK'
    <2>1. {"assignments"} \cup (IF HasContents(t) THEN {} ELSE {"sids"}) \in SUBSET Alarm
      BY DEF Alarm
    <2> QED BY <2>1, ScheduleType
  <1> QED BY <1>1, <1>2, <1>3

\* set_transaction_contents_by_key keeps the types.
LEMMA SetTransactionContentsType ==
    ASSUME TypeOK, NEW t \in Tx, NEW n \in Sizes, SetTransactionContents(t, n)
    PROVE  /\ MapsTypeOK' /\ QueuesTypeOK' /\ AlarmsTypeOK'
           /\ loop' \in {"none", "memory"} \cup Alarm
  <1> USE DEF TypeOK, SetTransactionContents
  <1>1. MapsTypeOK'
    BY SMTT(60), ConstantsAssumption DEF MapsTypeOK
  <1>2. QueuesTypeOK'
    BY AddItemFacts, RemoveItemsFacts DEF QueuesTypeOK
  <1>3. AlarmsTypeOK'
    <2>1. (IF tx_cache_key_to_short_ids[t] = {} THEN {"contents"} ELSE {}) \in SUBSET Alarm
      BY DEF Alarm
    <2> QED BY <2>1, ScheduleType
  <1> QED BY <1>1, <1>2, <1>3

\* Dropping contents never makes the total grow.
LEMMA DropContentsType ==
    ASSUME MapsTypeOK, NEW t \in Tx, DropContents(t)
    PROVE  /\ tx_cache_key_to_contents' \in [Tx -> Sizes \cup {0}]
           /\ total_tx_contents_size' \in Int
           /\ total_tx_contents_size' <= total_tx_contents_size
  <1>1. tx_cache_key_to_contents[t] \in Sizes \cup {0}
    BY DEF MapsTypeOK
  <1>2. tx_cache_key_to_contents[t] \in Nat
    <2>1. \A n \in Sizes \cup {0} : n \in Nat
      <3>1. \A n \in Sizes : n \in Nat
        BY ConstantsAssumption
      <3>2. 0 \in Nat
        OBVIOUS
      <3> QED BY <3>1, <3>2, Zenon
    <2> QED BY <1>1, <2>1, Zenon
  <1> QED BY SMTT(60), <1>2 DEF MapsTypeOK, DropContents

\* remove_transaction_by_key keeps the types.
LEMMA RemoveTransactionByKeyType ==
    ASSUME MapsTypeOK, IsOrdered(tx_assignment_expire_queue, Sid), NEW t \in Tx,
           NEW force, NEW assume_no_sid,
           RemoveTransactionByKey(t, force, assume_no_sid)
    PROVE  MapsTypeOK' /\ IsOrdered(tx_assignment_expire_queue', Sid)
  <1> DEFINE sids == tx_cache_key_to_short_ids[t]
  <1>1. CASE UNCHANGED <<maps, tx_assignment_expire_queue>>
    BY <1>1 DEF maps, MapsTypeOK
  <1>2. CASE ~UNCHANGED <<maps, tx_assignment_expire_queue>>
    <2>1. /\ tx_cache_key_to_short_ids' = [tx_cache_key_to_short_ids EXCEPT ![t] = {}]
          /\ short_id_to_tx_cache_key' = Unmap(sids)
          /\ paid' \subseteq paid
          /\ tx_assignment_expire_queue' = RemoveItems(tx_assignment_expire_queue, sids)
          /\ DropContents(t)
      BY <1>2 DEF RemoveTransactionByKey
    <2>2. MapsTypeOK'
      BY <2>1, UnmapType, DropContentsType DEF MapsTypeOK
    <2> QED BY <2>1, <2>2, RemoveItemsFacts
  <1> QED BY <1>1, <1>2

\* remove_transaction_by_short_id keeps the types, whichever way it ends.
LEMMA RemoveTransactionByShortIdType ==
    ASSUME MapsTypeOK, NEW q, IsOrdered(q, Sid), NEW s \in Sid, NEW related, NEW force,
           RemoveTransactionByShortId(s, related, force, q)
    PROVE  MapsTypeOK' /\ IsOrdered(tx_assignment_expire_queue', Sid)
  <1> DEFINE t == short_id_to_tx_cache_key[s]
  <1>1. /\ \/ tx_assignment_expire_queue' = q
           \/ \E X : tx_assignment_expire_queue' = RemoveItems(q, X)
        /\ \/ UNCHANGED maps
           \/ /\ t # NoTx
              /\ \E X : short_id_to_tx_cache_key' = Unmap(X)
              /\ \E X \in SUBSET tx_cache_key_to_short_ids[t] :
                    tx_cache_key_to_short_ids' = [tx_cache_key_to_short_ids EXCEPT ![t] = X]
              /\ UNCHANGED paid
              /\ \/ DropContents(t)
                 \/ UNCHANGED <<tx_cache_key_to_contents, total_tx_contents_size>>
    BY DEF RemoveTransactionByShortId
  <1>2. IsOrdered(tx_assignment_expire_queue', Sid)
    BY SMTT(60), <1>1, RemoveItemsFacts
  <1>3. CASE UNCHANGED maps
    BY <1>2, <1>3 DEF maps, MapsTypeOK
  <1>4. CASE ~UNCHANGED maps
    <2>1. t \in Tx
      BY <1>1, <1>4 DEF MapsTypeOK
    <2>2. short_id_to_tx_cache_key' \in [Sid -> Tx \cup {NoTx}]
      BY <1>1, <1>4, UnmapType
    <2>3. tx_cache_key_to_short_ids' \in [Tx -> SUBSET Sid]
      BY SMTT(60), <1>1, <1>4, <2>1 DEF MapsTypeOK
    <2>4. /\ tx_cache_key_to_contents' \in [Tx -> Sizes \cup {0}]
          /\ total_tx_contents_size' \in Int
      BY <1>1, <1>4, <2>1, DropContentsType DEF MapsTypeOK
    <2> QED BY <1>1, <1>2, <1>4, <2>2, <2>3, <2>4 DEF MapsTypeOK
  <1> QED BY <1>3, <1>4

\* remove_sid_by_key keeps the types, also when it raises.
LEMMA RemoveSidByKeyType ==
    ASSUME MapsTypeOK, IsOrdered(tx_assignment_expire_queue, Sid), NEW t \in Tx,
           RemoveSidByKey(t)
    PROVE  MapsTypeOK' /\ IsOrdered(tx_assignment_expire_queue', Sid)
  <1>1. CASE HasContents(t)
    BY <1>1 DEF RemoveSidByKey, maps, MapsTypeOK
  <1>2. CASE ~HasContents(t)
    <2>1. /\ \E X : /\ short_id_to_tx_cache_key' = Unmap(X)
                    /\ tx_assignment_expire_queue' = RemoveItems(tx_assignment_expire_queue, X)
          /\ tx_cache_key_to_short_ids' = [tx_cache_key_to_short_ids EXCEPT ![t] = {}]
          /\ UNCHANGED <<paid, tx_cache_key_to_contents, total_tx_contents_size>>
      BY <1>2 DEF RemoveSidByKey
    <2>2. short_id_to_tx_cache_key' \in [Sid -> Tx \cup {NoTx}]
      BY <2>1, UnmapType
    <2> QED BY SMTT(60), <2>1, <2>2, RemoveItemsFacts DEF MapsTypeOK
  <1> QED BY <1>1, <1>2

\* clear keeps the types.
LEMMA ClearCacheType ==
    ASSUME ClearCache
    PROVE  MapsTypeOK' /\ QueuesTypeOK' /\ BlocksTypeOK'
  BY SMTT(60), NoItemsFacts DEF ClearCache, MapsTypeOK, QueuesTypeOK, BlocksTypeOK

\* The calls that follow from a list of short ids are calls.
LEMMA RemovalsType ==
    ASSUME NEW l \in Seq(Sid)
    PROVE  Removals(l) \in Seq(Call)
  BY SMTT(60) DEF Removals, Call

-----------------------------------------------------------------------------
(* Type correctness of the specification.                                  *)

\* A step of the specification keeps the types of every dictionary, queue and
\* flag of the service.
LEMMA TypeStep ==
    ASSUME TypeOK, Next
    PROVE  TypeOK'
  <1> USE DEF TypeOK
  <1>1. ASSUME NEW t \in Tx, NEW s \in Sid, AssignShortId(t, s),
               UNCHANGED <<blocks, loop>>, work' \in Seq(Call)
        PROVE  TypeOK'
    BY <1>1, AssignShortIdType DEF blocks, BlocksTypeOK, ControlTypeOK
  <1>2. ASSUME NEW t \in Tx, NEW n \in Sizes, SetTransactionContents(t, n),
               UNCHANGED blocks, work' \in Seq(Call)
        PROVE  TypeOK'
    BY <1>2, SetTransactionContentsType DEF blocks, BlocksTypeOK, ControlTypeOK
  <1>3. ASSUME UNCHANGED <<waiting, blocks>>,
               MapsTypeOK', IsOrdered(tx_assignment_expire_queue', Sid),
               AlarmsTypeOK', ControlTypeOK'
        PROVE  TypeOK'
    BY <1>3 DEF waiting, blocks, QueuesTypeOK, BlocksTypeOK
  <1>4. ASSUME UNCHANGED maps PROVE MapsTypeOK'
    BY <1>4 DEF maps, MapsTypeOK
  <1>5. ASSUME UNCHANGED <<scheduled, alarms>> PROVE AlarmsTypeOK'
    BY <1>5 DEF AlarmsTypeOK
  <1>6. ASSUME UNCHANGED <<tx_assignment_expire_queue, waiting>> PROVE QueuesTypeOK'
    BY <1>6 DEF waiting, QueuesTypeOK
  <1>7. ASSUME UNCHANGED <<loop, work>> PROVE ControlTypeOK'
    BY <1>7 DEF ControlTypeOK
  <1>8. ASSUME work # <<>> PROVE Head(work) \in Call /\ Tail(work) \in Seq(Call)
    BY SMTT(60), <1>8 DEF ControlTypeOK
  <1>9. ASSUME UNCHANGED blocks PROVE BlocksTypeOK'
    BY <1>9 DEF blocks, BlocksTypeOK
  <1>10. CASE Assign
    <2>1. work' \in Seq(Call)
      BY <1>10 DEF Assign, ControlTypeOK
    <2> QED BY <1>1, <1>10, <2>1 DEF Assign
  <1>11. CASE SetContents
    <2>1. work' \in Seq(Call)
      BY <1>11 DEF SetContents, ControlTypeOK
    <2> QED BY <1>2, <1>11, <2>1 DEF SetContents
  <1>12. CASE ProcessTxSyncMessage
    <2>1. PICK t \in Tx, n \in Sizes \cup {0}, l \in Lists :
             work' = (IF n = 0 THEN <<>> ELSE <<[op |-> "set", tx |-> t, size |-> n]>>)
                       \o [i \in 1..Len(l) |-> [op |-> "assign", tx |-> t, sid |-> l[i]]]
      BY <1>12 DEF ProcessTxSyncMessage
    <2>2. l \in Seq(Sid)
      BY ConstantsAssumption
    <2>3. [i \in 1..Len(l) |-> [op |-> "assign", tx |-> t, sid |-> l[i]]] \in Seq(Call)
      BY SMTT(60), <2>2 DEF Call
    <2>4. (IF n = 0 THEN <<>> ELSE <<[op |-> "set", tx |-> t, size |-> n]>>) \in Seq(Call)
      <3>1. CASE n = 0
        BY SMTT(60), <3>1
      <3>2. CASE n # 0
        <4>1. [op |-> "set", tx |-> t, size |-> n] \in Call
          BY <3>2 DEF Call
        <4> QED BY SMTT(60), <3>2, <4>1
      <3> QED BY <3>1, <3>2
    <2>5. work' \in Seq(Call)
      BY SMTT(60), <2>1, <2>3, <2>4
    <2> QED BY <1>12, <1>4, <1>5, <1>6, <1>9, <2>5 DEF ProcessTxSyncMessage, ControlTypeOK
  <1>13. CASE SetPaid
    <2>1. MapsTypeOK'
      BY <1>13 DEF SetPaid, MapsTypeOK
    <2> QED BY <1>13, <2>1, <1>5, <1>6, <1>7, <1>9 DEF SetPaid, control
  <1>14. CASE RemoveByKey
    BY <1>14, <1>3, <1>5, <1>7, RemoveTransactionByKeyType
       DEF RemoveByKey, control, QueuesTypeOK
  <1>15. CASE RemoveByShortId
    BY <1>15, <1>3, <1>5, <1>7, RemoveTransactionByShortIdType
       DEF RemoveByShortId, control, QueuesTypeOK
  <1>16. CASE Clear
    BY <1>16, <1>5, <1>7, ClearCacheType DEF Clear, control
  <1>17. CASE GetSnapshot
    BY SMTT(60), <1>17, <1>3, <1>4, <1>5, <1>7, RemoveItemsFacts DEF GetSnapshot, control, QueuesTypeOK
  <1>18. CASE TrackSeenShortIds
    <2>1. PICK b \in Block, l \in Lists :
            \/ /\ short_ids_seen_in_block' = AddItem(short_ids_seen_in_block, b)
               /\ block_short_ids' = [block_short_ids EXCEPT ![b] = l]
               /\ work' = <<>>
            \/ \E old \in AddItem(short_ids_seen_in_block, b).items :
                  /\ short_ids_seen_in_block' =
                        RemoveItems(AddItem(short_ids_seen_in_block, b), {old})
                  /\ block_short_ids' =
                        [[block_short_ids EXCEPT ![b] = l] EXCEPT ![old] = <<>>]
                  /\ work' = Removals([block_short_ids EXCEPT ![b] = l][old])
      BY <1>18 DEF TrackSeenShortIds
    <2>2. IsOrdered(AddItem(short_ids_seen_in_block, b), Block)
      BY AddItemFacts DEF BlocksTypeOK
    <2>3. [block_short_ids EXCEPT ![b] = l] \in [Block -> Lists \cup {<<>>}]
      BY DEF BlocksTypeOK
    <2>4. BlocksTypeOK' /\ work' \in Seq(Call)
      <3>1. CASE /\ short_ids_seen_in_block' = AddItem(short_ids_seen_in_block, b)
                 /\ block_short_ids' = [block_short_ids EXCEPT ![b] = l]
                 /\ work' = <<>>
        BY SMTT(60), <2>2, <2>3, <3>1 DEF BlocksTypeOK
      <3>2. ASSUME NEW old \in AddItem(short_ids_seen_in_block, b).items,
                   short_ids_seen_in_block' =
                      RemoveItems(AddItem(short_ids_seen_in_block, b), {old}),
                   block_short_ids' =
                      [[block_short_ids EXCEPT ![b] = l] EXCEPT ![old] = <<>>],
                   work' = Removals([block_short_ids EXCEPT ![b] = l][old])
            PROVE  BlocksTypeOK' /\ work' \in Seq(Call)
        <4>1. old \in Block
          BY <2>2, ItemsInSet
        <4>2. [block_short_ids EXCEPT ![b] = l][old] \in Seq(Sid)
          <5>1. [block_short_ids EXCEPT ![b] = l][old] \in Lists \cup {<<>>}
            BY <2>3, <4>1
          <5>2. <<>> \in Seq(Sid)
            BY SMTT(60)
          <5>3. Lists \subseteq Seq(Sid)
            BY ConstantsAssumption
          <5> QED BY <5>1, <5>2, <5>3, Zenon
        <4>3. work' \in Seq(Call)
          BY <3>2, <4>2, RemovalsType
        <4>4. IsOrdered(short_ids_seen_in_block', Block)
          BY <2>2, <3>2, RemoveItemsFacts
        <4>5. block_short_ids' \in [Block -> Lists \cup {<<>>}]
          BY <2>3, <3>2
        <4> QED BY <4>3, <4>4, <4>5 DEF BlocksTypeOK
      <3> QED BY <2>1, <3>1, <3>2
    <2> QED BY <1>18, <1>4, <1>5, <1>6, <2>4 DEF TrackSeenShortIds, ControlTypeOK
  <1>19. CASE ContentsCleanup
    <2>1. PICK b \in Block, l \in Lists, t \in Tx :
             work' = Removals(l) \o <<[op |-> "removeKey", tx |-> t],
                                      [op |-> "cleaned", block |-> b]>>
      BY <1>19 DEF ContentsCleanup
    <2>2. Removals(l) \in Seq(Call)
      BY RemovalsType, ConstantsAssumption
    <2>3. <<[op |-> "removeKey", tx |-> t], [op |-> "cleaned", block |-> b]>> \in Seq(Call)
      BY SMTT(60) DEF Call
    <2>4. work' \in Seq(Call)
      BY SMTT(60), <2>1, <2>2, <2>3
    <2> QED BY <1>19, <1>4, <1>5, <1>6, <1>9, <2>4 DEF ContentsCleanup, ControlTypeOK
  <1>20. CASE FireAlarm
    BY <1>20, <1>4, <1>5, <1>6, <1>9 DEF FireAlarm, AlarmsTypeOK, ControlTypeOK
  <1>21. CASE CallAssign
    <2>1. Head(work) \in Call /\ Head(work).op = "assign" /\ work' \in Seq(Call)
      BY <1>8, <1>21 DEF CallAssign, NextCall
    <2>2. Head(work).tx \in Tx /\ Head(work).sid \in Sid
      BY <2>1 DEF Call
    <2> QED BY <1>1, <1>21, <2>1, <2>2 DEF CallAssign
  <1>22. CASE CallSetContents
    <2>1. Head(work) \in Call /\ Head(work).op = "set" /\ work' \in Seq(Call)
      BY <1>8, <1>22 DEF CallSetContents, NextCall
    <2>2. Head(work).tx \in Tx /\ Head(work).size \in Sizes
      BY <2>1 DEF Call
    <2> QED BY <1>2, <1>22, <2>1, <2>2 DEF CallSetContents
  <1>23. CASE CallRemoveByShortId
    <2>1. Head(work) \in Call /\ Head(work).op = "remove" /\ work' \in Seq(Call)
      <3>1. Head(work) \in Call /\ Head(work).op = "remove" /\ Tail(work) \in Seq(Call)
        BY <1>8, <1>23 DEF CallRemoveByShortId, NextCall
      <3>2. work' = <<>> \/ work' = Tail(work)
        BY <1>23, Zenon DEF CallRemoveByShortId
      <3>3. <<>> \in Seq(Call)
        BY SMTT(60)
      <3> QED BY <3>1, <3>2, <3>3, Zenon
    <2>2. Head(work).sid \in Sid
      BY <2>1 DEF Call
    <2>3. ControlTypeOK'
      BY <1>23, <2>1 DEF CallRemoveByShortId, ControlTypeOK
    <2> QED BY <1>3, <1>5, <1>23, <2>2, <2>3, RemoveTransactionByShortIdType
            DEF CallRemoveByShortId, QueuesTypeOK
  <1>24. CASE CallRemoveByKey
    <2>1. Head(work) \in Call /\ Head(work).op = "removeKey" /\ work' \in Seq(Call)
      BY <1>8, <1>24 DEF CallRemoveByKey, NextCall
    <2>2. Head(work).tx \in Tx
      BY <2>1 DEF Call
    <2>3. ControlTypeOK'
      BY <1>24, <2>1 DEF CallRemoveByKey, ControlTypeOK
    <2> QED BY <1>3, <1>5, <1>24, <2>2, <2>3, RemoveTransactionByKeyType
            DEF CallRemoveByKey, QueuesTypeOK
  <1>25. CASE CallBlockCleanedUp
    <2>1. Head(work) \in Call /\ Head(work).op = "cleaned" /\ work' \in Seq(Call)
      BY <1>8, <1>25 DEF CallBlockCleanedUp, NextCall
    <2>2. BlocksTypeOK'
      BY <1>25, RemoveItemsFacts DEF CallBlockCleanedUp, BlocksTypeOK
    <2> QED BY <1>25, <1>4, <1>5, <1>6, <2>1, <2>2 DEF CallBlockCleanedUp, ControlTypeOK
  <1>26. CASE MemoryEvict
    <2>1. PICK s \in tx_assignment_expire_queue.items :
             /\ RemoveTransactionByShortId(s, FALSE, TRUE,
                                           RemoveItems(tx_assignment_expire_queue, {s}))
             /\ IF RemovalRaises(s, FALSE) THEN loop' = "none" /\ work' = <<>>
                                    ELSE UNCHANGED <<loop, work>>
      BY <1>26 DEF MemoryEvict
    <2>2. s \in Sid /\ IsOrdered(RemoveItems(tx_assignment_expire_queue, {s}), Sid)
      BY ItemsInSet, RemoveItemsFacts DEF QueuesTypeOK
    <2>3. ControlTypeOK'
      <3>1. CASE RemovalRaises(s, FALSE)
        BY SMTT(60), <2>1, <3>1 DEF ControlTypeOK
      <3>2. CASE ~RemovalRaises(s, FALSE)
        BY <2>1, <3>2 DEF ControlTypeOK
      <3> QED BY <3>1, <3>2
    <2> QED BY <1>3, <1>5, <1>26, <2>1, <2>2, <2>3, RemoveTransactionByShortIdType
            DEF MemoryEvict
  <1>27. CASE MemoryEnd
    BY <1>27, <1>4, <1>5, <1>6, <1>9 DEF MemoryEnd, ControlTypeOK
  <1>28. CASE MemoryClear
    BY <1>28, <1>5, ClearCacheType DEF MemoryClear, ControlTypeOK
  <1>29. ASSUME NEW a \in Alarm, NEW raised, AfterCallback(a, raised)
         PROVE  AlarmsTypeOK' /\ ControlTypeOK' /\ BlocksTypeOK'
    BY <1>29, <1>9 DEF AfterCallback, AlarmsTypeOK, ControlTypeOK
  <1>30. CASE ExpireAssignment
    <2>1. PICK s \in tx_assignment_expire_queue.items :
             /\ RemoveTransactionByShortId(s, FALSE, TRUE,
                                           RemoveItems(tx_assignment_expire_queue, {s}))
             /\ AfterCallback("assignments", RemovalRaises(s, FALSE))
      BY <1>30 DEF ExpireAssignment
    <2>2. s \in Sid /\ IsOrdered(RemoveItems(tx_assignment_expire_queue, {s}), Sid)
      BY ItemsInSet, RemoveItemsFacts DEF QueuesTypeOK
    <2>3. MapsTypeOK' /\ IsOrdered(tx_assignment_expire_queue', Sid)
      BY <2>1, <2>2, RemoveTransactionByShortIdType
    <2>4. QueuesTypeOK'
      BY <1>30, <2>3 DEF ExpireAssignment, waiting, QueuesTypeOK
    <2> QED BY <1>29, <2>1, <2>3, <2>4 DEF Alarm
  <1>31. CASE ExpireContent
    <2>1. PICK t \in tx_hashes_without_short_id.items :
             /\ tx_hashes_without_short_id' = RemoveItems(tx_hashes_without_short_id, {t})
             /\ RemoveTransactionByKey(t, TRUE, TRUE)
      BY <1>31 DEF ExpireContent
    <2>2. t \in Tx
      BY ItemsInSet DEF QueuesTypeOK
    <2>3. MapsTypeOK' /\ IsOrdered(tx_assignment_expire_queue', Sid)
      BY <2>1, <2>2, RemoveTransactionByKeyType DEF QueuesTypeOK
    <2>4. QueuesTypeOK'
      BY <1>31, <2>1, <2>3, RemoveItemsFacts DEF ExpireContent, QueuesTypeOK
    <2> QED BY <1>29, <1>31, <2>3, <2>4 DEF ExpireContent, Alarm
  <1>32. CASE ExpireSid
    <2>1. PICK t \in tx_hashes_without_content.items :
             /\ tx_hashes_without_content' = RemoveItems(tx_hashes_without_content, {t})
             /\ RemoveSidByKey(t)
             /\ AfterCallback("sids", SidRemovalRaises(t))
      BY <1>32 DEF ExpireSid
    <2>2. t \in Tx
      BY ItemsInSet DEF QueuesTypeOK
    <2>3. MapsTypeOK' /\ IsOrdered(tx_assignment_expire_queue', Sid)
      BY <2>1, <2>2, RemoveSidByKeyType DEF QueuesTypeOK
    <2>4. QueuesTypeOK'
      BY <1>32, <2>1, <2>3, RemoveItemsFacts DEF ExpireSid, QueuesTypeOK
    <2> QED BY <1>29, <2>1, <2>3, <2>4 DEF Alarm
  <1>33. CASE ExpireEnd
    BY <1>33, <1>4, <1>6, <1>9 DEF ExpireEnd, AlarmsTypeOK, ControlTypeOK
  <1> QED
    BY <1>10, <1>11, <1>12, <1>13, <1>14, <1>15, <1>16, <1>17, <1>18, <1>19, <1>20, <1>21,
       <1>22, <1>23, <1>24, <1>25, <1>26, <1>27, <1>28, <1>30, <1>31, <1>32, <1>33
       DEF Next, Step

\* TypeOK is an invariant: no call, loop iteration or exception leaves a
\* dictionary, queue or flag of the service with a value of the wrong shape.
THEOREM TypeCorrect == Spec => []TypeOK
  <1>1. Init => TypeOK
    BY SMTT(60), NoItemsFacts
       DEF Init, TypeOK, MapsTypeOK, QueuesTypeOK, BlocksTypeOK, AlarmsTypeOK, ControlTypeOK
  <1>2. TypeOK /\ [Next]_vars => TypeOK'
    <2>1. CASE Next
      BY <2>1, TypeStep
    <2>2. CASE UNCHANGED vars
      BY <2>2 DEF vars, maps, waiting, blocks, control, TypeOK, MapsTypeOK, QueuesTypeOK,
                  BlocksTypeOK, AlarmsTypeOK, ControlTypeOK
    <2> QED BY <2>1, <2>2
  <1> QED BY <1>1, <1>2, PTL DEF Spec

-----------------------------------------------------------------------------
(* What the operations do to the mappings and the queues, when the two     *)
(* directions of the mapping agree.                                        *)

\* An operation leaves transaction u alone, forgets it, or leaves its contents
\* and at least one of its short ids.
Settled(u) ==
    /\ tx_cache_key_to_short_ids'[u] \subseteq tx_cache_key_to_short_ids[u]
    /\ \/ /\ tx_cache_key_to_short_ids'[u] = tx_cache_key_to_short_ids[u]
          /\ tx_cache_key_to_contents'[u] = tx_cache_key_to_contents[u]
       \/ /\ tx_cache_key_to_short_ids'[u] = {}
          /\ tx_cache_key_to_contents'[u] = 0
       \/ /\ tx_cache_key_to_short_ids[u] # {}
          /\ tx_cache_key_to_short_ids'[u] # {}
          /\ tx_cache_key_to_contents'[u] = tx_cache_key_to_contents[u]

\* Transactions that are settled stay covered by the queues of entries that
\* wait for contents or for a short id, if those do not change.
LEMMA SettledExpires ==
    ASSUME ContentsExpire, SidsExpire, UNCHANGED waiting, \A u \in Tx : Settled(u)
    PROVE  ContentsExpire' /\ SidsExpire'
  BY DEF ContentsExpire, SidsExpire, waiting, Settled, HasContents

\* assign_short_id_by_key, for a short id no other transaction holds.
LEMMA AssignShortIdKeeps ==
    ASSUME TypeOK, MappingsAgree, EverythingExpires, NEW t \in Tx, NEW s \in Sid,
           \A u \in Tx \ {t} : s \notin tx_cache_key_to_short_ids[u],
           AssignShortId(t, s)
    PROVE  MappingsAgree' /\ EverythingExpires'
  <1> USE DEF TypeOK, MapsTypeOK, QueuesTypeOK, EverythingExpires, AssignShortId
  <1>1. MappingsAgree'
    BY SMTT(60), ConstantsAssumption DEF MappingsAgree
  <1>2. AssignedExpire'
    <2>1. tx_assignment_expire_queue'.items = tx_assignment_expire_queue.items \cup {s}
      BY SMTT(60), AddItemFacts
    <2> QED BY SMTT(60), <2>1, ConstantsAssumption DEF AssignedExpire
  <1>3. ContentsExpire'
    <2>1. tx_hashes_without_short_id'.items = tx_hashes_without_short_id.items \ {t}
      BY RemoveItemsFacts
    <2> QED BY <2>1 DEF ContentsExpire, HasContents
  <1>4. SidsExpire'
    <2>1. tx_hashes_without_content'.items =
             tx_hashes_without_content.items \cup (IF HasContents(t) THEN {} ELSE {t})
      BY SMTT(60), AddItemFacts
    <2> QED BY <2>1 DEF SidsExpire, HasContents
  <1> QED BY <1>1, <1>2, <1>3, <1>4

\* set_transaction_contents_by_key.
LEMMA SetTransactionContentsKeeps ==
    ASSUME TypeOK, MappingsAgree, EverythingExpires, NEW t \in Tx, NEW n \in Sizes,
           SetTransactionContents(t, n)
    PROVE  MappingsAgree' /\ EverythingExpires'
  <1> USE DEF TypeOK, MapsTypeOK, QueuesTypeOK, EverythingExpires, SetTransactionContents
  <1>1. MappingsAgree'
    BY DEF MappingsAgree
  <1>2. AssignedExpire'
    BY DEF AssignedExpire
  <1>3. ContentsExpire'
    <2>1. tx_hashes_without_short_id'.items =
             tx_hashes_without_short_id.items
               \cup (IF tx_cache_key_to_short_ids[t] = {} THEN {t} ELSE {})
      BY SMTT(60), AddItemFacts
    <2> QED BY <2>1 DEF ContentsExpire, HasContents
  <1>4. SidsExpire'
    <2>1. tx_hashes_without_content'.items = tx_hashes_without_content.items \ {t}
      BY SMTT(60), RemoveItemsFacts
    <2>2. tx_cache_key_to_contents'[t] # 0
      BY ConstantsAssumption
    <2> QED BY <2>1, <2>2 DEF SidsExpire, HasContents
  <1> QED BY <1>1, <1>2, <1>3, <1>4

\* remove_transaction_by_key: with assume_no_sid a transaction it leaves alone
\* has short ids.
LEMMA RemoveTransactionByKeyKeeps ==
    ASSUME MapsTypeOK, IsOrdered(tx_assignment_expire_queue, Sid),
           MappingsAgree, AssignedExpire, NEW t \in Tx,
           NEW force \in BOOLEAN, NEW assume_no_sid \in BOOLEAN,
           RemoveTransactionByKey(t, force, assume_no_sid)
    PROVE  /\ MappingsAgree' /\ AssignedExpire'
           /\ \A u \in Tx : Settled(u)
           /\ total_tx_contents_size' <= total_tx_contents_size
           /\ force => tx_cache_key_to_short_ids'[t] # {} \/ tx_cache_key_to_contents'[t] = 0
  <1> DEFINE sids == tx_cache_key_to_short_ids[t]
             kept == (assume_no_sid /\ sids # {}) \/ (~force /\ sids \cap paid # {})
  <1>1. CASE kept
    <2>1. UNCHANGED <<maps, tx_assignment_expire_queue>>
      BY <1>1 DEF RemoveTransactionByKey
    <2>2. force => tx_cache_key_to_short_ids'[t] # {}
      BY <1>1, <2>1 DEF maps
    <2> QED BY SMTT(60), <2>1, <2>2 DEF maps, MappingsAgree, AssignedExpire, Settled, MapsTypeOK
  <1>2. CASE ~kept
    <2>1. /\ tx_cache_key_to_short_ids' = [tx_cache_key_to_short_ids EXCEPT ![t] = {}]
          /\ short_id_to_tx_cache_key' = Unmap(sids)
          /\ tx_assignment_expire_queue' = RemoveItems(tx_assignment_expire_queue, sids)
          /\ DropContents(t)
      BY <1>2 DEF RemoveTransactionByKey
    <2>2. MappingsAgree'
      BY SMTT(60), <2>1, ConstantsAssumption DEF MappingsAgree, Unmap, MapsTypeOK
    <2>3. AssignedExpire'
      BY SMTT(60), <2>1, RemoveItemsFacts DEF AssignedExpire, Unmap, MapsTypeOK
    <2>4. /\ \A u \in Tx : Settled(u)
          /\ tx_cache_key_to_contents'[t] = 0
      BY <2>1 DEF Settled, DropContents, MapsTypeOK
    <2>5. total_tx_contents_size' <= total_tx_contents_size
      BY <2>1, DropContentsType
    <2> QED BY <2>2, <2>3, <2>4, <2>5
  <1> QED BY <1>1, <1>2

\* A call of remove_transaction_by_short_id does not raise.
LEMMA RemovalDoesNotRaise ==
    ASSUME MapsTypeOK, MappingsAgree, NEW s \in Sid, NEW related
    PROVE  ~RemovalRaises(s, related)
  BY DEF RemovalRaises, MapsTypeOK, MappingsAgree

\* A call of remove_sid_by_key does not raise.
LEMMA SidRemovalDoesNotRaise ==
    ASSUME MapsTypeOK, MappingsAgree, NEW t \in Tx
    PROVE  ~SidRemovalRaises(t)
  BY ConstantsAssumption DEF SidRemovalRaises, MapsTypeOK, MappingsAgree

\* remove_transaction_by_short_id, called with the expire queue itself or with
\* what is left of it once s has been popped and force is set.
LEMMA RemoveTransactionByShortIdKeeps ==
    ASSUME MapsTypeOK, MappingsAgree, NEW s \in Sid, NEW q, IsOrdered(q, Sid),
           NEW related \in BOOLEAN, NEW force \in BOOLEAN,
           q.items \cup {s} =
              {x \in Sid : short_id_to_tx_cache_key[x] # NoTx} \cup {s},
           ~force => q.items = {x \in Sid : short_id_to_tx_cache_key[x] # NoTx},
           RemoveTransactionByShortId(s, related, force, q)
    PROVE  /\ MappingsAgree' /\ AssignedExpire'
           /\ \A u \in Tx : Settled(u)
           /\ total_tx_contents_size' <= total_tx_contents_size
  <1> DEFINE t == short_id_to_tx_cache_key[s]
             sids == tx_cache_key_to_short_ids[t]
  <1>1. ~RemovalRaises(s, related)
    BY RemovalDoesNotRaise
  <1>2. t # NoTx => t \in Tx /\ sids \in SUBSET Sid /\ s \in sids
    BY SMTT(60) DEF MapsTypeOK, MappingsAgree
  <1>3. CASE /\ t = NoTx
             /\ tx_assignment_expire_queue' = RemoveItems(q, {s})
             /\ UNCHANGED maps
    <2>1. tx_assignment_expire_queue'.items = q.items \ {s}
      BY SMTT(60), <1>3, RemoveItemsFacts
    <2>2. AssignedExpire'
      BY <1>3, <2>1 DEF AssignedExpire, maps
    <2> QED BY SMTT(60), <1>3, <2>2 DEF maps, MappingsAgree, Settled, MapsTypeOK
  <1>4. CASE /\ ~force
             /\ tx_assignment_expire_queue' = q
             /\ UNCHANGED maps
    BY SMTT(60), <1>4 DEF AssignedExpire, maps, MappingsAgree, Settled, MapsTypeOK
  <1>5. CASE /\ t # NoTx
             /\ short_id_to_tx_cache_key' = Unmap(sids \cup {s})
             /\ tx_cache_key_to_short_ids' = [tx_cache_key_to_short_ids EXCEPT ![t] = {}]
             /\ tx_assignment_expire_queue' = RemoveItems(q, sids \cup {s})
             /\ DropContents(t)
    <2>1. tx_assignment_expire_queue'.items = q.items \ (sids \cup {s})
      BY SMTT(60), <1>5, RemoveItemsFacts
    <2>2. AssignedExpire'
      BY <1>2, <1>5, <2>1 DEF AssignedExpire, Unmap
    <2>3. MappingsAgree'
      BY SMTT(60), <1>2, <1>5, ConstantsAssumption DEF MappingsAgree, Unmap, MapsTypeOK
    <2>4. \A u \in Tx : Settled(u)
      BY <1>2, <1>5 DEF Settled, DropContents, MapsTypeOK
    <2>5. total_tx_contents_size' <= total_tx_contents_size
      BY <1>2, <1>5, DropContentsType
    <2> QED BY <2>2, <2>3, <2>4, <2>5
  <1>6. CASE /\ t # NoTx
             /\ ~IsSingleton(sids)
             /\ short_id_to_tx_cache_key' = Unmap({s})
             /\ tx_cache_key_to_short_ids' = [tx_cache_key_to_short_ids EXCEPT ![t] = @ \ {s}]
             /\ tx_assignment_expire_queue' = RemoveItems(q, {s})
             /\ UNCHANGED <<tx_cache_key_to_contents, total_tx_contents_size>>
    <2>1. tx_assignment_expire_queue'.items = q.items \ {s}
      BY <1>6, RemoveItemsFacts
    <2>2. AssignedExpire'
      BY <1>6, <2>1 DEF AssignedExpire, Unmap
    <2>3. MappingsAgree'
      BY SMTT(60), <1>2, <1>6, ConstantsAssumption DEF MappingsAgree, Unmap, MapsTypeOK
    <2>4. sids \ {s} # {}
      BY <1>2, <1>6 DEF IsSingleton
    <2>5. \A u \in Tx : Settled(u)
      BY <1>2, <1>6, <2>4 DEF Settled, MapsTypeOK
    <2> QED BY SMTT(60), <1>6, <2>2, <2>3, <2>5 DEF MapsTypeOK
  <1>7. /\ t # NoTx => sids # {}
        /\ t # NoTx => (sids \ {s}) \cup {s} = sids \cup {s}
    BY <1>2
  <1> QED BY <1>1, <1>3, <1>4, <1>5, <1>6, <1>7 DEF RemoveTransactionByShortId

\* remove_sid_by_key leaves t without short ids, or with its contents.
LEMMA RemoveSidByKeyKeeps ==
    ASSUME MapsTypeOK, IsOrdered(tx_assignment_expire_queue, Sid),
           MappingsAgree, AssignedExpire, NEW t \in Tx, RemoveSidByKey(t)
    PROVE  /\ MappingsAgree' /\ AssignedExpire'
           /\ \A u \in Tx : Settled(u)
           /\ total_tx_contents_size' = total_tx_contents_size
           /\ tx_cache_key_to_short_ids'[t] = {} \/ tx_cache_key_to_contents'[t] # 0
  <1> DEFINE sids == tx_cache_key_to_short_ids[t]
  <1>1. CASE HasContents(t)
    <2>1. UNCHANGED <<maps, tx_assignment_expire_queue>>
      BY <1>1 DEF RemoveSidByKey
    <2> QED BY <1>1, <2>1 DEF HasContents, maps, MappingsAgree, AssignedExpire, Settled
  <1>2. CASE ~HasContents(t)
    <2>1. /\ short_id_to_tx_cache_key' = Unmap(sids)
          /\ tx_assignment_expire_queue' = RemoveItems(tx_assignment_expire_queue, sids)
          /\ tx_cache_key_to_short_ids' = [tx_cache_key_to_short_ids EXCEPT ![t] = {}]
          /\ UNCHANGED <<tx_cache_key_to_contents, total_tx_contents_size>>
      BY <1>2, SidRemovalDoesNotRaise DEF RemoveSidByKey
    <2>2. MappingsAgree'
      BY SMTT(60), <2>1, ConstantsAssumption DEF MappingsAgree, Unmap, MapsTypeOK
    <2>3. AssignedExpire'
      BY SMTT(60), <2>1, RemoveItemsFacts DEF AssignedExpire, Unmap, MapsTypeOK
    <2> QED BY <1>2, <2>1, <2>2, <2>3 DEF HasContents, Settled, MapsTypeOK
  <1> QED BY <1>1, <1>2

\* clear.
LEMMA ClearCacheKeeps ==
    ASSUME ClearCache
    PROVE  MappingsAgree' /\ EverythingExpires'
  BY NoItemsFacts, ConstantsAssumption
     DEF ClearCache, MappingsAgree, EverythingExpires, AssignedExpire, ContentsExpire,
         SidsExpire, HasContents

-----------------------------------------------------------------------------
(* The alarms, the memory limit and the pending assignments.               *)

\* AlarmPending, queue by queue.
LEMMA AlarmPendingMeans ==
    AlarmPending <=>
        /\ tx_assignment_expire_queue.items # {} => "assignments" \in alarms
        /\ tx_hashes_without_short_id.items # {} => "contents" \in alarms
        /\ tx_hashes_without_content.items # {} => "sids" \in alarms
  BY DEF AlarmPending, Alarm, QueueOf

\* An operation that registers no alarm and adds to no queue keeps the alarms
\* in step with the queues.
LEMMA ShrinkingQueuesKeep ==
    ASSUME AlarmPending, UNCHANGED alarms,
           tx_assignment_expire_queue.items = {} => tx_assignment_expire_queue'.items = {},
           tx_hashes_without_short_id'.items \subseteq tx_hashes_without_short_id.items,
           tx_hashes_without_content'.items \subseteq tx_hashes_without_content.items
    PROVE  AlarmPending'
  <1>1. AlarmPending' <=>
          /\ tx_assignment_expire_queue'.items # {} => "assignments" \in alarms'
          /\ tx_hashes_without_short_id'.items # {} => "contents" \in alarms'
          /\ tx_hashes_without_content'.items # {} => "sids" \in alarms'
    BY DEF AlarmPending, Alarm, QueueOf
  <1> QED BY <1>1, AlarmPendingMeans

\* Scheduling an alarm whose flag tells the truth adds it.
LEMMA ScheduleAdds ==
    ASSUME FlagsAgree, NEW names, Schedule(names)
    PROVE  FlagsAgree' /\ alarms' = alarms \cup names
  BY DEF FlagsAgree, Schedule

\* assign_short_id_by_key registers the alarms of the queues it adds to.
LEMMA AssignShortIdAlarms ==
    ASSUME TypeOK, FlagsAgree, AlarmPending, NEW t \in Tx, NEW s \in Sid, AssignShortId(t, s)
    PROVE  FlagsAgree' /\ AlarmPending'
  <1> USE DEF TypeOK, QueuesTypeOK, AssignShortId
  <1>1. AlarmPending' <=>
          /\ tx_assignment_expire_queue'.items # {} => "assignments" \in alarms'
          /\ tx_hashes_without_short_id'.items # {} => "contents" \in alarms'
          /\ tx_hashes_without_content'.items # {} => "sids" \in alarms'
    BY DEF AlarmPending, Alarm, QueueOf
  <1>2. /\ FlagsAgree'
        /\ alarms' = alarms \cup ({"assignments"} \cup IF HasContents(t) THEN {} ELSE {"sids"})
    BY ScheduleAdds
  <1>3. tx_hashes_without_short_id'.items \subseteq tx_hashes_without_short_id.items
    BY SMTT(60), RemoveItemsFacts
  <1> QED BY <1>1, <1>2, <1>3, AlarmPendingMeans

\* set_transaction_contents_by_key registers the alarm of the queue it adds to.
LEMMA SetTransactionContentsAlarms ==
    ASSUME TypeOK, FlagsAgree, AlarmPending, NEW t \in Tx, NEW n \in Sizes,
           SetTransactionContents(t, n)
    PROVE  FlagsAgree' /\ AlarmPending'
  <1> USE DEF TypeOK, QueuesTypeOK, SetTransactionContents
  <1>1. AlarmPending' <=>
          /\ tx_assignment_expire_queue'.items # {} => "assignments" \in alarms'
          /\ tx_hashes_without_short_id'.items # {} => "contents" \in alarms'
          /\ tx_hashes_without_content'.items # {} => "sids" \in alarms'
    BY DEF AlarmPending, Alarm, QueueOf
  <1>2. /\ FlagsAgree'
        /\ alarms' = alarms \cup
              IF tx_cache_key_to_short_ids[t] = {} THEN {"contents"} ELSE {}
    BY ScheduleAdds
  <1>3. tx_hashes_without_content'.items \subseteq tx_hashes_without_content.items
    BY SMTT(60), RemoveItemsFacts
  <1> QED BY <1>1, <1>2, <1>3, AlarmPendingMeans

\* Making one pending call, or none, keeps the others permitted when no
\* transaction gains a short id but the one of that call.
LEMMA PendingAssignsKeep ==
    ASSUME work \in Seq(Call), AssignsPermitted,
           work' \in {work, <<>>} \/ (work # <<>> /\ work' = Tail(work)),
           \A u \in Tx : tx_cache_key_to_short_ids'[u] \subseteq tx_cache_key_to_short_ids[u]
    PROVE  AssignsPermitted'
  <1>1. CASE work' = work
    BY SMTT(60), <1>1 DEF AssignsPermitted
  <1>2. CASE work' = <<>>
    BY SMTT(60), <1>2 DEF AssignsPermitted
  <1>3. CASE work # <<>> /\ work' = Tail(work)
    <2>1. /\ Len(work') = Len(work) - 1
          /\ \A i \in 1..Len(work') : i + 1 \in 1..Len(work) /\ work'[i] = work[i + 1]
      BY SMTT(60), <1>3
    <2> SUFFICES ASSUME NEW i \in 1..Len(work'), work'[i].op = "assign"
                 PROVE  /\ \A u \in Tx \ {work'[i].tx} :
                             work'[i].sid \notin tx_cache_key_to_short_ids'[u]
                        /\ \A j \in 1..Len(work') :
                             work'[j].op = "assign" /\ work'[j].sid = work'[i].sid
                                => work'[j].tx = work'[i].tx
      BY DEF AssignsPermitted
    <2>2. /\ \A u \in Tx \ {work[i + 1].tx} :
               work[i + 1].sid \notin tx_cache_key_to_short_ids[u]
          /\ \A j \in 1..Len(work) :
               work[j].op = "assign" /\ work[j].sid = work[i + 1].sid
                  => work[j].tx = work[i + 1].tx
      BY <2>1 DEF AssignsPermitted
    <2>3. work'[i] = work[i + 1]
      BY <2>1
    <2>4. \A u \in Tx \ {work'[i].tx} :
             work'[i].sid \notin tx_cache_key_to_short_ids'[u]
      BY <2>2, <2>3
    <2>5. \A j \in 1..Len(work') :
             work'[j].op = "assign" /\ work'[j].sid = work'[i].sid
                => work'[j].tx = work'[i].tx
      BY SMTT(60), <2>1, <2>2, <2>3
    <2> QED BY <2>4, <2>5
  <1> QED BY <1>1, <1>2, <1>3

\* Making the first pending assignment keeps the others permitted: one for the
\* same short id is for the same transaction.
LEMMA CallAssignPermitted ==
    ASSUME MapsTypeOK, work \in Seq(Call), AssignsPermitted, work # <<>>, work[1].op = "assign",
           AssignShortId(Head(work).tx, Head(work).sid), work' = Tail(work)
    PROVE  AssignsPermitted'
  <1>1. /\ \A i \in 1..Len(work') : i + 1 \in 1..Len(work) /\ work'[i] = work[i + 1]
        /\ Head(work) = work[1] /\ 1 \in 1..Len(work)
    BY SMTT(60)
  <1>2. tx_cache_key_to_short_ids' =
           [tx_cache_key_to_short_ids EXCEPT ![work[1].tx] = @ \cup {work[1].sid}]
    BY <1>1 DEF AssignShortId
  <1> SUFFICES ASSUME NEW i \in 1..Len(work'), work'[i].op = "assign"
               PROVE  /\ \A u \in Tx \ {work'[i].tx} :
                           work'[i].sid \notin tx_cache_key_to_short_ids'[u]
                      /\ \A j \in 1..Len(work') :
                           work'[j].op = "assign" /\ work'[j].sid = work'[i].sid
                              => work'[j].tx = work'[i].tx
    BY DEF AssignsPermitted
  <1>3. work'[i] = work[i + 1] /\ i + 1 \in 1..Len(work)
    BY <1>1
  <1>4. /\ \A u \in Tx \ {work[i + 1].tx} :
             work[i + 1].sid \notin tx_cache_key_to_short_ids[u]
        /\ \A j \in 1..Len(work) :
             work[j].op = "assign" /\ work[j].sid = work[i + 1].sid
                => work[j].tx = work[i + 1].tx
    BY <1>3 DEF AssignsPermitted
  <1>5. ASSUME NEW u \in Tx \ {work'[i].tx}
        PROVE  work'[i].sid \notin tx_cache_key_to_short_ids'[u]
    <2>1. CASE u # work[1].tx
      <3>1. tx_cache_key_to_short_ids'[u] = tx_cache_key_to_short_ids[u]
        BY <1>2, <2>1 DEF MapsTypeOK
      <3> QED BY <1>3, <1>4, <3>1
    <2>2. CASE u = work[1].tx
      <3>1. work[1].sid # work[i + 1].sid
        BY <1>1, <1>3, <1>4, <2>2
      <3>2. tx_cache_key_to_short_ids'[u] = tx_cache_key_to_short_ids[u] \cup {work[1].sid}
        BY <1>2, <2>2 DEF MapsTypeOK
      <3> QED BY <1>3, <1>4, <3>1, <3>2
    <2> QED BY <2>1, <2>2
  <1>6. \A j \in 1..Len(work') :
           work'[j].op = "assign" /\ work'[j].sid = work'[i].sid => work'[j].tx = work'[i].tx
    BY SMTT(60), <1>1, <1>3, <1>4
  <1> QED BY <1>5, <1>6

\* Adding the assignments of a sync message, made up of permitted ones.
LEMMA SyncMessageAssigns ==
    ASSUME NEW t \in Tx, NEW pre \in Seq(Call), NEW l \in Seq(Sid),
           \A i \in 1..Len(pre) : pre[i].op # "assign",
           \A i \in 1..Len(l) :
              \A u \in Tx \ {t} : l[i] \notin tx_cache_key_to_short_ids'[u],
           work' = pre \o [i \in 1..Len(l) |-> [op |-> "assign", tx |-> t, sid |-> l[i]]]
    PROVE  AssignsPermitted'
  <1> DEFINE asg == [i \in 1..Len(l) |-> [op |-> "assign", tx |-> t, sid |-> l[i]]]
  <1>1. asg \in Seq(Call) /\ Len(asg) = Len(l)
    BY SMTT(60) DEF Call
  <1>2. ASSUME NEW i \in 1..Len(work'), work'[i].op = "assign"
        PROVE  /\ work'[i].tx = t
               /\ \A u \in Tx \ {t} : work'[i].sid \notin tx_cache_key_to_short_ids'[u]
    <2>1. i > Len(pre) /\ work'[i] = asg[i - Len(pre)] /\ i - Len(pre) \in 1..Len(l)
      BY SMTT(60), <1>1, <1>2
    <2>2. work'[i] = [op |-> "assign", tx |-> t, sid |-> l[i - Len(pre)]]
      BY <2>1
    <2> QED BY SMTT(60), <2>1, <2>2
  <1> QED BY <1>2 DEF AssignsPermitted

\* Calls that assign nothing are permitted.
LEMMA NoAssignsPermitted ==
    ASSUME \A i \in 1..Len(work') : work'[i].op # "assign"
    PROVE  AssignsPermitted'
  BY DEF AssignsPermitted

\* A step that only forgets: it settles every transaction, adds to no queue and
\* leaves the alarms alone.
LEMMA ForgettingKeeps ==
    ASSUME IInv, TypeOK', MappingsAgree', EverythingExpires',
           \A u \in Tx : Settled(u),
           total_tx_contents_size' <= total_tx_contents_size,
           tx_hashes_without_short_id'.items \subseteq tx_hashes_without_short_id.items,
           tx_hashes_without_content'.items \subseteq tx_hashes_without_content.items,
           UNCHANGED <<scheduled, alarms>>,
           loop = "memory" => loop' = "memory",
           work' \in {work, <<>>} \/ (work # <<>> /\ work' = Tail(work))
    PROVE  IInv'
  <1> USE DEF IInv, TypeOK
  <1>1. tx_assignment_expire_queue'.items \subseteq tx_assignment_expire_queue.items
    BY SMTT(60) DEF EverythingExpires, AssignedExpire, MappingsAgree, MapsTypeOK, Settled
  <1>2. FlagsAgree'
    BY DEF FlagsAgree
  <1>3. AlarmPending'
    BY SMTT(60), <1>1, ShrinkingQueuesKeep
  <1>4. MemoryBounded'
    BY SMTT(60), ConstantsAssumption DEF MemoryBounded, MapsTypeOK
  <1>5. AssignsPermitted'
    <2>1. work \in Seq(Call)
      BY DEF ControlTypeOK
    <2>2. \A u \in Tx : tx_cache_key_to_short_ids'[u] \subseteq tx_cache_key_to_short_ids[u]
      BY DEF Settled
    <2> QED BY <2>1, <2>2, PendingAssignsKeep
  <1> QED BY <1>2, <1>3, <1>4, <1>5

\* A step that leaves the cache and the alarms alone.
LEMMA CacheUnchangedKeeps ==
    ASSUME IInv, TypeOK', AssignsPermitted',
           UNCHANGED <<tx_cache_key_to_short_ids, short_id_to_tx_cache_key,
                       tx_cache_key_to_contents, total_tx_contents_size,
                       tx_assignment_expire_queue, waiting, scheduled, alarms>>,
           loop = "memory" /\ loop' # "memory" => total_tx_contents_size <= MemoryLimit
    PROVE  IInv'
  <1> USE DEF IInv, waiting
  <1>1. MappingsAgree'
    BY DEF MappingsAgree
  <1>2. EverythingExpires'
    BY DEF EverythingExpires, AssignedExpire, ContentsExpire, SidsExpire, HasContents
  <1>3. FlagsAgree' /\ MemoryBounded'
    BY DEF FlagsAgree, MemoryBounded
  <1>4. AlarmPending'
    BY ShrinkingQueuesKeep
  <1> QED BY <1>1, <1>2, <1>3, <1>4

-----------------------------------------------------------------------------
(* Safety                                                                  *)

\* Every step keeps the inductive invariant, when the network does not move a
\* live short id to another transaction.
LEMMA InvariantStep ==
    ASSUME Reassign = FALSE, IInv, Next
    PROVE  IInv'
  <1> USE DEF IInv
  <1>1. TypeOK'
    BY TypeStep
  <1>2. MapsTypeOK /\ QueuesTypeOK /\ BlocksTypeOK /\ AlarmsTypeOK /\ ControlTypeOK
    BY DEF TypeOK
  <1>3. /\ IsOrdered(tx_assignment_expire_queue, Sid)
        /\ MappingsAgree /\ AssignedExpire /\ ContentsExpire /\ SidsExpire
    BY <1>2 DEF QueuesTypeOK, EverythingExpires
  <1>4. ASSUME MappingsAgree', AssignedExpire', \A u \in Tx : Settled(u),
               total_tx_contents_size' <= total_tx_contents_size,
               UNCHANGED <<waiting, scheduled, alarms>>,
               loop = "memory" => loop' = "memory",
               work' \in {work, <<>>} \/ (work # <<>> /\ work' = Tail(work))
        PROVE  IInv'
    <2>1. EverythingExpires'
      BY <1>3, <1>4, SettledExpires DEF EverythingExpires
    <2> QED BY <1>1, <1>4, <2>1, ForgettingKeeps DEF waiting
  <1>5. ASSUME NEW s \in tx_assignment_expire_queue.items,
               RemoveTransactionByShortId(s, FALSE, TRUE,
                                          RemoveItems(tx_assignment_expire_queue, {s}))
        PROVE  /\ s \in Sid
               /\ MappingsAgree' /\ AssignedExpire'
               /\ \A u \in Tx : Settled(u)
               /\ total_tx_contents_size' <= total_tx_contents_size
               /\ ~RemovalRaises(s, FALSE)
    <2> DEFINE q == RemoveItems(tx_assignment_expire_queue, {s})
    <2>1. s \in Sid
      BY <1>3, ItemsInSet
    <2>2. IsOrdered(q, Sid) /\ q.items = tx_assignment_expire_queue.items \ {s}
      BY SMTT(60), <1>3, RemoveItemsFacts
    <2>3. q.items \cup {s} = {x \in Sid : short_id_to_tx_cache_key[x] # NoTx} \cup {s}
      BY <1>3, <2>2 DEF AssignedExpire
    <2>4. ~RemovalRaises(s, FALSE)
      BY <1>2, <1>3, <2>1, RemovalDoesNotRaise
    <2> HIDE DEF q
    <2> QED BY <1>2, <1>3, <1>5, <2>1, <2>2, <2>3, <2>4, RemoveTransactionByShortIdKeeps
            DEF q
  <1>6. ASSUME Idle PROVE loop = "none" /\ work = <<>> /\ loop # "memory"
    BY <1>6 DEF Idle
  <1>10. CASE Assign
    <2>1. PICK t \in Tx, s \in Sid : MayAssign(t, s) /\ AssignShortId(t, s)
      BY <1>10 DEF Assign
    <2>2. MappingsAgree' /\ EverythingExpires'
      BY <2>1, AssignShortIdKeeps DEF MayAssign
    <2>3. FlagsAgree' /\ AlarmPending'
      BY <2>1, AssignShortIdAlarms
    <2>4. MemoryBounded'
      BY <1>10, <2>1 DEF Assign, AssignShortId, MemoryBounded
    <2>5. AssignsPermitted'
      BY SMTT(60), <1>10, NoAssignsPermitted DEF Assign, Idle
    <2> QED BY <1>1, <2>2, <2>3, <2>4, <2>5
  <1>11. CASE SetContents
    <2>1. PICK t \in Tx, n \in Sizes : SetTransactionContents(t, n)
      BY <1>11 DEF SetContents
    <2>2. MappingsAgree' /\ EverythingExpires'
      BY <2>1, SetTransactionContentsKeeps
    <2>3. FlagsAgree' /\ AlarmPending'
      BY <2>1, SetTransactionContentsAlarms
    <2>4. MemoryBounded'
      <3>1. /\ loop' = IF total_tx_contents_size' > MemoryLimit THEN "memory" ELSE "none"
            /\ total_tx_contents_size' \in Int
        BY <1>1, <2>1 DEF SetTransactionContents, TypeOK, MapsTypeOK
      <3> QED BY SMTT(60), <3>1, ConstantsAssumption DEF MemoryBounded
    <2>5. AssignsPermitted'
      BY SMTT(60), <1>11, NoAssignsPermitted DEF SetContents, Idle
    <2> QED BY <1>1, <2>2, <2>3, <2>4, <2>5
  <1>12. CASE ProcessTxSyncMessage
    <2>1. PICK t \in Tx, n \in Sizes \cup {0}, l \in Lists :
             /\ \A i \in DOMAIN l : MayAssign(t, l[i])
             /\ work' = (IF n = 0 THEN <<>> ELSE <<[op |-> "set", tx |-> t, size |-> n]>>)
                          \o [i \in 1..Len(l) |-> [op |-> "assign", tx |-> t, sid |-> l[i]]]
      BY <1>12 DEF ProcessTxSyncMessage
    <2>2. l \in Seq(Sid)
      BY ConstantsAssumption
    <2> DEFINE pre == IF n = 0 THEN <<>> ELSE <<[op |-> "set", tx |-> t, size |-> n]>>
    <2>3. pre \in Seq(Call) /\ \A i \in 1..Len(pre) : pre[i].op # "assign"
      <3>1. CASE n = 0
        <4>1. pre = <<>>
          BY <3>1
        <4> QED BY SMTT(60), <4>1
      <3>2. CASE n # 0
        <4>1. pre = <<[op |-> "set", tx |-> t, size |-> n]>>
          BY <3>2
        <4>2. [op |-> "set", tx |-> t, size |-> n] \in Call
          BY <3>2 DEF Call
        <4> HIDE DEF pre
        <4> QED BY SMTT(60), <4>1, <4>2
      <3> QED BY <3>1, <3>2
    <2>4. \A i \in 1..Len(l) : \A u \in Tx \ {t} : l[i] \notin tx_cache_key_to_short_ids'[u]
      BY SMTT(60), <1>12, <2>1, <2>2 DEF MayAssign, ProcessTxSyncMessage, maps
    <2>5. AssignsPermitted'
      <3>1. work' = pre \o [i \in 1..Len(l) |-> [op |-> "assign", tx |-> t, sid |-> l[i]]]
        BY <2>1
      <3> HIDE DEF pre
      <3> QED BY <2>2, <2>3, <2>4, <3>1, SyncMessageAssigns
    <2> QED BY <1>1, <1>12, <2>5, CacheUnchangedKeeps DEF ProcessTxSyncMessage, maps
  <1>13. CASE SetPaid
    <2>1. AssignsPermitted'
      BY SMTT(60), <1>13, NoAssignsPermitted DEF SetPaid, control, Idle
    <2> QED BY <1>1, <1>13, <2>1, CacheUnchangedKeeps DEF SetPaid, control
  <1>14. CASE RemoveByKey
    <2>1. PICK t \in Tx, force \in BOOLEAN : RemoveTransactionByKey(t, force, FALSE)
      BY <1>14 DEF RemoveByKey
    <2>2. /\ MappingsAgree' /\ AssignedExpire'
          /\ \A u \in Tx : Settled(u)
          /\ total_tx_contents_size' <= total_tx_contents_size
      BY <1>2, <1>3, <2>1, RemoveTransactionByKeyKeeps
    <2> QED BY <1>4, <1>14, <2>2 DEF RemoveByKey, control
  <1>15. CASE RemoveByShortId
    <2>1. PICK s \in Sid, related \in BOOLEAN, force \in BOOLEAN :
             RemoveTransactionByShortId(s, related, force, tx_assignment_expire_queue)
      BY <1>15 DEF RemoveByShortId
    <2>2. /\ MappingsAgree' /\ AssignedExpire'
          /\ \A u \in Tx : Settled(u)
          /\ total_tx_contents_size' <= total_tx_contents_size
      BY <1>2, <1>3, <2>1, RemoveTransactionByShortIdKeeps DEF AssignedExpire
    <2> QED BY <1>4, <1>15, <2>2 DEF RemoveByShortId, control
  <1>16. CASE Clear
    <2>1. MappingsAgree' /\ EverythingExpires'
      BY SMTT(60), <1>16, ClearCacheKeeps DEF Clear
    <2>2. FlagsAgree' /\ AlarmPending'
      BY <1>16, NoItemsFacts, ShrinkingQueuesKeep DEF Clear, ClearCache, control, FlagsAgree
    <2>3. MemoryBounded'
      BY SMTT(60), <1>16, ConstantsAssumption DEF Clear, ClearCache, MemoryBounded
    <2>4. AssignsPermitted'
      BY SMTT(60), <1>16, NoAssignsPermitted DEF Clear, control, Idle
    <2> QED BY <1>1, <2>1, <2>2, <2>3, <2>4
  <1>17. CASE GetSnapshot
    <2>1. PICK S \in SUBSET {s \in tx_assignment_expire_queue.items :
                               short_id_to_tx_cache_key[s] = NoTx} :
             tx_assignment_expire_queue' = RemoveItems(tx_assignment_expire_queue, S)
      BY <1>17 DEF GetSnapshot
    <2>2. S = {}
      BY <1>3 DEF AssignedExpire
    <2>3. tx_assignment_expire_queue'.items = tx_assignment_expire_queue.items
      <3>1. tx_assignment_expire_queue'.items = tx_assignment_expire_queue.items \ S
        BY SMTT(60), <1>3, <2>1, RemoveItemsFacts
      <3> QED BY <2>2, <3>1
    <2>4. MappingsAgree' /\ AssignedExpire' /\ \A u \in Tx : Settled(u)
      BY <1>3, <1>17, <2>3 DEF GetSnapshot, maps, MappingsAgree, AssignedExpire, Settled
    <2>5. total_tx_contents_size' <= total_tx_contents_size
      BY SMTT(60), <1>2, <1>17 DEF GetSnapshot, maps, MapsTypeOK
    <2> QED BY <1>4, <1>17, <2>4, <2>5 DEF GetSnapshot, control
  <1>18. CASE TrackSeenShortIds
    <2>1. work' = <<>> \/ \E f : work' = Removals(f)
      BY <1>18, Zenon DEF TrackSeenShortIds
    <2>2. AssignsPermitted'
      <3>1. CASE work' = <<>>
        BY SMTT(60), <3>1, NoAssignsPermitted
      <3>2. ASSUME NEW f, work' = Removals(f) PROVE AssignsPermitted'
        BY SMTT(60), <3>2, NoAssignsPermitted DEF Removals
      <3> QED BY <2>1, <3>1, <3>2
    <2> QED BY <1>1, <1>18, <2>2, CacheUnchangedKeeps DEF TrackSeenShortIds, maps
  <1>19. CASE ContentsCleanup
    <2>1. PICK b \in Block, l \in Lists, t \in Tx :
             work' = Removals(l) \o <<[op |-> "removeKey", tx |-> t],
                                      [op |-> "cleaned", block |-> b]>>
      BY <1>19 DEF ContentsCleanup
    <2>2. Removals(l) \in Seq(Call) /\ l \in Seq(Sid)
      BY SMTT(60), RemovalsType, ConstantsAssumption
    <2>3. AssignsPermitted'
      BY SMTT(60), <2>1, <2>2, NoAssignsPermitted DEF Removals
    <2> QED BY <1>1, <1>19, <2>3, CacheUnchangedKeeps DEF ContentsCleanup, maps
  <1>20. CASE FireAlarm
    <2>1. AssignsPermitted'
      BY SMTT(60), <1>20, NoAssignsPermitted DEF FireAlarm, Idle
    <2>2. loop # "memory"
      BY <1>20 DEF FireAlarm, Idle
    <2> QED BY <1>1, <1>20, <2>1, <2>2, CacheUnchangedKeeps DEF FireAlarm, maps
  <1>21. CASE CallAssign
    <2>1. /\ Head(work).tx \in Tx /\ Head(work).sid \in Sid
          /\ work # <<>> /\ Head(work) = work[1] /\ 1 \in 1..Len(work)
          /\ work[1].op = "assign"
      <3>1. work # <<>> /\ work \in Seq(Call) /\ Head(work).op = "assign"
        BY <1>2, <1>21 DEF CallAssign, NextCall, ControlTypeOK
      <3>2. Head(work) \in Call
        BY SMTT(60), <3>1
      <3> QED BY SMTT(60), <3>1, <3>2 DEF Call
    <2>2. \A u \in Tx \ {Head(work).tx} : Head(work).sid \notin tx_cache_key_to_short_ids[u]
      BY <2>1 DEF AssignsPermitted
    <2>3. MappingsAgree' /\ EverythingExpires'
      BY <1>21, <2>1, <2>2, AssignShortIdKeeps DEF CallAssign
    <2>4. FlagsAgree' /\ AlarmPending'
      BY <1>21, <2>1, AssignShortIdAlarms DEF CallAssign
    <2>5. MemoryBounded'
      BY <1>21 DEF CallAssign, AssignShortId, MemoryBounded
    <2>6. AssignsPermitted'
      BY <1>21, <2>1, CallAssignPermitted, <1>2 DEF CallAssign, ControlTypeOK
    <2> QED BY <1>1, <2>3, <2>4, <2>5, <2>6
  <1>7. ASSUME NEW op, NextCall(op)
        PROVE  /\ work # <<>> /\ loop = "none"
               /\ Head(work) \in Call /\ Head(work).op = op
    BY SMTT(60), <1>2, <1>7 DEF NextCall, ControlTypeOK
  <1>8. ASSUME UNCHANGED tx_cache_key_to_short_ids,
               work' \in {work, <<>>} \/ (work # <<>> /\ work' = Tail(work))
        PROVE  AssignsPermitted'
    BY <1>2, <1>8, PendingAssignsKeep DEF ControlTypeOK
  <1>22. CASE CallSetContents
    <2>1. Head(work).tx \in Tx /\ Head(work).size \in Sizes /\ work # <<>>
      BY SMTT(60), <1>7, <1>22 DEF CallSetContents, Call
    <2>2. MappingsAgree' /\ EverythingExpires'
      BY <1>22, <2>1, SetTransactionContentsKeeps DEF CallSetContents
    <2>3. FlagsAgree' /\ AlarmPending'
      BY <1>22, <2>1, SetTransactionContentsAlarms DEF CallSetContents
    <2>4. MemoryBounded'
      <3>1. /\ loop' = IF total_tx_contents_size' > MemoryLimit THEN "memory" ELSE "none"
            /\ total_tx_contents_size' \in Int
        BY <1>1, <1>22 DEF CallSetContents, SetTransactionContents, TypeOK, MapsTypeOK
      <3> QED BY SMTT(60), <3>1, ConstantsAssumption DEF MemoryBounded
    <2>5. AssignsPermitted'
      BY <1>8, <1>22, <2>1 DEF CallSetContents, SetTransactionContents
    <2> QED BY <1>1, <2>2, <2>3, <2>4, <2>5
  <1>23. CASE CallRemoveByShortId
    <2>1. Head(work).sid \in Sid /\ work # <<>> /\ loop = "none"
      BY SMTT(60), <1>7, <1>23 DEF CallRemoveByShortId, Call
    <2>2. /\ MappingsAgree' /\ AssignedExpire'
          /\ \A u \in Tx : Settled(u)
          /\ total_tx_contents_size' <= total_tx_contents_size
      BY <1>2, <1>3, <1>23, <2>1, RemoveTransactionByShortIdKeeps
         DEF CallRemoveByShortId, AssignedExpire
    <2>3. work' = Tail(work)
      BY <1>2, <1>3, <1>23, <2>1, RemovalDoesNotRaise DEF CallRemoveByShortId
    <2> QED BY <1>4, <1>23, <2>1, <2>2, <2>3 DEF CallRemoveByShortId
  <1>24. CASE CallRemoveByKey
    <2>1. Head(work).tx \in Tx /\ work # <<>> /\ loop = "none"
      BY SMTT(60), <1>7, <1>24 DEF CallRemoveByKey, Call
    <2>2. /\ MappingsAgree' /\ AssignedExpire'
          /\ \A u \in Tx : Settled(u)
          /\ total_tx_contents_size' <= total_tx_contents_size
      BY <1>2, <1>3, <1>24, <2>1, RemoveTransactionByKeyKeeps DEF CallRemoveByKey
    <2> QED BY <1>4, <1>24, <2>1, <2>2 DEF CallRemoveByKey
  <1>25. CASE CallBlockCleanedUp
    <2>1. work # <<>> /\ loop = "none"
      BY <1>7, <1>25 DEF CallBlockCleanedUp
    <2>2. AssignsPermitted'
      BY <1>8, <1>25, <2>1 DEF CallBlockCleanedUp, maps
    <2> QED BY <1>1, <1>25, <2>1, <2>2, CacheUnchangedKeeps DEF CallBlockCleanedUp, maps
  <1>26. CASE MemoryEvict
    <2>1. PICK s \in tx_assignment_expire_queue.items :
             /\ RemoveTransactionByShortId(s, FALSE, TRUE,
                                           RemoveItems(tx_assignment_expire_queue, {s}))
             /\ IF RemovalRaises(s, FALSE) THEN loop' = "none" /\ work' = <<>>
                                           ELSE UNCHANGED <<loop, work>>
      BY <1>26 DEF MemoryEvict
    <2>2. UNCHANGED <<loop, work>>
      BY <1>5, <2>1
    <2> QED BY <1>4, <1>5, <1>26, <2>1, <2>2 DEF MemoryEvict
  <1>27. CASE MemoryEnd
    <2>1. AssignsPermitted'
      BY <1>8, <1>27 DEF MemoryEnd, maps
    <2> QED BY <1>1, <1>27, <2>1, CacheUnchangedKeeps DEF MemoryEnd, maps
  <1>28. CASE MemoryClear
    <2>1. MappingsAgree' /\ EverythingExpires'
      BY <1>28, ClearCacheKeeps DEF MemoryClear
    <2>2. FlagsAgree' /\ AlarmPending'
      BY <1>28, NoItemsFacts, ShrinkingQueuesKeep DEF MemoryClear, ClearCache, FlagsAgree
    <2>3. MemoryBounded'
      BY SMTT(60), <1>28, ConstantsAssumption DEF MemoryClear, ClearCache, MemoryBounded
    <2>4. AssignsPermitted'
      BY <1>2, <1>28, PendingAssignsKeep DEF MemoryClear, ClearCache, ControlTypeOK
    <2> QED BY <1>1, <2>1, <2>2, <2>3, <2>4
  <1>29. CASE ExpireAssignment
    <2>1. PICK s \in tx_assignment_expire_queue.items :
             /\ RemoveTransactionByShortId(s, FALSE, TRUE,
                                           RemoveItems(tx_assignment_expire_queue, {s}))
             /\ AfterCallback("assignments", RemovalRaises(s, FALSE))
      BY <1>29 DEF ExpireAssignment
    <2>2. ~RemovalRaises(s, FALSE)
      BY <1>5, <2>1
    <2>3. UNCHANGED <<scheduled, alarms, work>> /\ loop # "memory"
      BY <1>29, <2>1, <2>2 DEF AfterCallback, ExpireAssignment
    <2> QED BY <1>4, <1>5, <1>29, <2>1, <2>3 DEF ExpireAssignment
  <1>30. CASE ExpireContent
    <2>1. PICK t \in tx_hashes_without_short_id.items :
             /\ tx_hashes_without_short_id' = RemoveItems(tx_hashes_without_short_id, {t})
             /\ RemoveTransactionByKey(t, TRUE, TRUE)
      BY <1>30 DEF ExpireContent
    <2>2. /\ t \in Tx
          /\ tx_hashes_without_short_id'.items = tx_hashes_without_short_id.items \ {t}
      BY <1>2, <2>1, ItemsInSet, RemoveItemsFacts DEF QueuesTypeOK
    <2>3. /\ MappingsAgree' /\ AssignedExpire'
          /\ \A u \in Tx : Settled(u)
          /\ total_tx_contents_size' <= total_tx_contents_size
          /\ tx_cache_key_to_short_ids'[t] # {} \/ tx_cache_key_to_contents'[t] = 0
      BY <1>2, <1>3, <2>1, <2>2, RemoveTransactionByKeyKeeps
    <2>4. UNCHANGED <<tx_hashes_without_content, scheduled, alarms, work>> /\ loop # "memory"
      BY <1>30 DEF AfterCallback, ExpireContent
    <2>5. EverythingExpires'
      BY <1>3, <2>2, <2>3, <2>4
         DEF EverythingExpires, ContentsExpire, SidsExpire, HasContents, Settled
    <2> QED BY <1>1, <2>2, <2>3, <2>4, <2>5, ForgettingKeeps
  <1>31. CASE ExpireSid
    <2>1. PICK t \in tx_hashes_without_content.items :
             /\ tx_hashes_without_content' = RemoveItems(tx_hashes_without_content, {t})
             /\ RemoveSidByKey(t)
             /\ AfterCallback("sids", SidRemovalRaises(t))
      BY <1>31 DEF ExpireSid
    <2>2. /\ t \in Tx
          /\ tx_hashes_without_content'.items = tx_hashes_without_content.items \ {t}
      BY <1>2, <2>1, ItemsInSet, RemoveItemsFacts DEF QueuesTypeOK
    <2>3. /\ MappingsAgree' /\ AssignedExpire'
          /\ \A u \in Tx : Settled(u)
          /\ total_tx_contents_size' = total_tx_contents_size
          /\ tx_cache_key_to_short_ids'[t] = {} \/ tx_cache_key_to_contents'[t] # 0
      BY <1>2, <1>3, <2>1, <2>2, RemoveSidByKeyKeeps
    <2>4. ~SidRemovalRaises(t)
      BY <1>2, <1>3, <2>2, SidRemovalDoesNotRaise
    <2>5. UNCHANGED <<tx_hashes_without_short_id, scheduled, alarms, work>> /\ loop # "memory"
      BY <1>31, <2>1, <2>4 DEF AfterCallback, ExpireSid
    <2>6. EverythingExpires'
      BY <1>3, <2>2, <2>3, <2>5
         DEF EverythingExpires, ContentsExpire, SidsExpire, HasContents, Settled
    <2>7. total_tx_contents_size' <= total_tx_contents_size
      BY SMTT(60), <1>2, <2>3 DEF MapsTypeOK
    <2> QED BY <1>1, <2>2, <2>3, <2>5, <2>6, <2>7, ForgettingKeeps
  <1>32. CASE ExpireEnd
    <2> USE <1>32 DEF ExpireEnd
    <2>1. MappingsAgree' /\ EverythingExpires'
      BY <1>3 DEF maps, waiting, MappingsAgree, EverythingExpires, AssignedExpire,
                  ContentsExpire, SidsExpire, HasContents
    <2>2. FlagsAgree'
      BY DEF FlagsAgree
    <2>3. AlarmPending'
      <3>1. \A a \in Alarm : QueueOf(a)' = QueueOf(a)
        BY DEF waiting, QueueOf
      <3>2. \A a \in Alarm : QueueOf(a).items # {} /\ a \in alarms => a \in alarms'
        OBVIOUS
      <3> QED BY <3>1, <3>2 DEF AlarmPending
    <2>4. MemoryBounded'
      BY DEF MemoryBounded, Alarm, maps
    <2>5. AssignsPermitted'
      BY <1>8 DEF maps
    <2> QED BY <1>1, <2>1, <2>2, <2>3, <2>4, <2>5
  <1> QED BY <1>10, <1>11, <1>12, <1>13, <1>14, <1>15, <1>16, <1>17, <1>18, <1>19, <1>20,
             <1>21, <1>22, <1>23, <1>24, <1>25, <1>26, <1>27, <1>28, <1>29, <1>30, <1>31,
             <1>32 DEF Next, Step

\* The inductive invariant holds initially and through every step.
LEMMA Invariance ==
    ASSUME Reassign = FALSE
    PROVE  Spec => []IInv
  <1>1. Init => IInv
    <2> SUFFICES ASSUME Init PROVE IInv
      OBVIOUS
    <2>1. TypeOK
      BY SMTT(60), NoItemsFacts
         DEF Init, TypeOK, MapsTypeOK, QueuesTypeOK, BlocksTypeOK, AlarmsTypeOK, ControlTypeOK
    <2>2. MappingsAgree /\ EverythingExpires
      BY NoItemsFacts, ConstantsAssumption
         DEF Init, MappingsAgree, EverythingExpires, AssignedExpire, ContentsExpire,
             SidsExpire, HasContents
    <2>3. FlagsAgree /\ AlarmPending /\ AssignsPermitted
      BY SMTT(60), NoItemsFacts, AlarmPendingMeans DEF Init, FlagsAgree, AssignsPermitted
    <2>4. MemoryBounded
      BY SMTT(60), ConstantsAssumption DEF Init, MemoryBounded
    <2> QED BY <2>1, <2>2, <2>3, <2>4 DEF IInv
  <1>2. IInv /\ [Next]_vars => IInv'
    <2> SUFFICES ASSUME IInv, [Next]_vars PROVE IInv'
      OBVIOUS
    <2>1. CASE Next
      BY <2>1, InvariantStep
    <2>2. CASE UNCHANGED vars
      <3>1. TypeOK'
        BY <2>2 DEF IInv, vars, maps, waiting, blocks, control, TypeOK, MapsTypeOK,
                    QueuesTypeOK, BlocksTypeOK, AlarmsTypeOK, ControlTypeOK
      <3>2. AssignsPermitted'
        BY <2>2 DEF IInv, vars, maps, control, AssignsPermitted
      <3> QED BY <2>2, <3>1, <3>2, CacheUnchangedKeeps DEF vars, maps, control
    <2> QED BY <2>1, <2>2
  <1> QED BY <1>1, <1>2, PTL DEF Spec

\* As long as the network does not move a live short id to another transaction,
\* the two directions of the short id mapping agree, whatever the number of
\* transactions, short ids, blocks and the limits.
THEOREM MappingsAlwaysAgree ==
    ASSUME Reassign = FALSE
    PROVE  Spec => []MappingsAgree
  <1>1. IInv => MappingsAgree
    BY DEF IInv
  <1> QED BY <1>1, Invariance, PTL

\* Nothing stored in the cache escapes the queues that expire it.
THEOREM EverythingAlwaysExpires ==
    ASSUME Reassign = FALSE
    PROVE  Spec => []EverythingExpires
  <1>1. IInv => EverythingExpires
    BY DEF IInv
  <1> QED BY <1>1, Invariance, PTL

\* A queue that holds something always has its alarm.
THEOREM AlarmAlwaysPending ==
    ASSUME Reassign = FALSE
    PROVE  Spec => []AlarmPending
  <1>1. IInv => AlarmPending
    BY DEF IInv
  <1> QED BY <1>1, Invariance, PTL

\* The contents fit the memory limit whenever no eviction is under way.
THEOREM MemoryAlwaysBounded ==
    ASSUME Reassign = FALSE
    PROVE  Spec => []MemoryBounded
  <1>1. IInv => MemoryBounded
    BY DEF IInv
  <1> QED BY <1>1, Invariance, PTL

-----------------------------------------------------------------------------
(* The total size of the contents that are accounted for, a number that    *)
(* each store and each removal adjusts, is the sum of the lengths that are *)
(* stored.  First come facts about sums over finite sets: that they exist, *)
(* do not depend on an order, and change by as much as one of their        *)
(* members does.                                                           *)

\* Induction over the natural numbers, for a set of numbers.
LEMMA SetInduction ==
    ASSUME NEW M \in SUBSET Nat, 0 \in M, \A n \in M : n + 1 \in M
    PROVE  M = Nat
<1> SUFFICES ASSUME M # Nat PROVE FALSE
    OBVIOUS
<1> DEFINE T == Nat \ M
           R == {p \in Nat \X Nat : p[1] < p[2]}
<1>1. \E x \in T : \A y \in T : ~ (<<y, x>> \in R)
  <2>1. IsWellFoundedOn(R, Nat) /\ T \subseteq Nat /\ T # {}
      BY NatLessThanWellFounded DEF OpToRel
  <2> HIDE DEF R, T
  <2> QED
      BY <2>1, WFMin
<1>2. PICK x \in T : \A y \in T : ~ (<<y, x>> \in R)
    BY <1>1
<1>3. x # 0 /\ x - 1 \in Nat
    BY SMTT(60)
<1>4. <<x - 1, x>> \in R
    BY SMTT(60), <1>3
<1>5. x - 1 \in M
    BY <1>2, <1>3, <1>4
<1> QED
    BY SMTT(60), <1>3, <1>5

\* The member of a set that a sum takes next.
Chosen(s) == CHOOSE x \in s : TRUE

Summand(f, g, s) == IF s = {} THEN 0 ELSE f[Chosen(s)] + g[s \ {Chosen(s)}]

\* A sum is defined by taking members one at a time.
LEMMA SumUnfolds ==
    ASSUME NEW f
    PROVE  SumFunction(f) = (CHOOSE g : g = [s \in SUBSET DOMAIN f |-> Summand(f, g, s)])[DOMAIN f]
BY DEF SumFunction, SumFunctionOnSet, FoldFunctionOnSet, MapThenFoldSet, Summand, Chosen

\* It is one of the set's.
LEMMA ChosenIn ==
    ASSUME NEW s, s # {}
    PROVE  Chosen(s) \in s
BY DEF Chosen

\* g adds up the values of f over every subset of S.
AddsUp(f, S, g) ==
    /\ g \in [SUBSET S -> Int]
    /\ \A s \in SUBSET S : g[s] = Summand(f, g, s)

\* How many members the subsets of a finite set have.
LEMMA SubsetSizes ==
    ASSUME NEW S, IsFiniteSet(S), NEW s \in SUBSET S
    PROVE  /\ Cardinality(s) \in Nat /\ Cardinality(s) <= Cardinality(S)
           /\ Cardinality(s) <= 0 => s = {}
           /\ \A x \in s : Cardinality(s \ {x}) = Cardinality(s) - 1
<1>1. IsFiniteSet(s) /\ Cardinality(s) <= Cardinality(S)
    BY FS_Subset
<1> QED
    BY SMTT(60), <1>1, FS_EmptySet, FS_CardinalityType, FS_RemoveElement

\* A finite set has such a function: the sums of the sets with n members give those of
\* the sets with one more.
LEMMA SumExists ==
    ASSUME NEW S, IsFiniteSet(S), NEW f \in [S -> Int]
    PROVE  \E g : AddsUp(f, S, g)
<1> DEFINE Small(n) == {s \in SUBSET S : Cardinality(s) <= n}
           Sums(n, g) == /\ g \in [Small(n) -> Int]
                         /\ \A s \in Small(n) : g[s] = Summand(f, g, s)
           M == {n \in Nat : \E g : Sums(n, g)}
<1>2. 0 \in M
  <2> DEFINE g == [s \in Small(0) |-> 0]
  <2>1. \A s \in Small(0) : s = {}
      BY SubsetSizes
  <2>2. Sums(0, g)
      BY SMTT(60), <2>1 DEF Summand
  <2> QED
      BY <2>2
<1>3. ASSUME NEW n \in M PROVE n + 1 \in M
  <2>1. PICK g : Sums(n, g)
      OBVIOUS
  <2> DEFINE h == [s \in Small(n + 1) |-> Summand(f, g, s)]
  <2>2. ASSUME NEW s \in Small(n + 1), s # {}
        PROVE  Chosen(s) \in S /\ s \ {Chosen(s)} \in Small(n) /\ f[Chosen(s)] \in Int
    <3>1. Chosen(s) \in s
        BY <2>2, ChosenIn
    <3>2. Cardinality(s \ {Chosen(s)}) <= n
        BY SMTT(60), <3>1, SubsetSizes
    <3> QED
        BY <3>1, <3>2
  <2>3. h \in [Small(n + 1) -> Int]
      BY SMTT(60), <2>1, <2>2 DEF Summand
  <2>4. ASSUME NEW s \in Small(n) PROVE h[s] = g[s]
    <3>1. s \in Small(n + 1)
        BY SMTT(60), SubsetSizes
    <3> QED
        BY <2>1, <3>1
  <2>5. ASSUME NEW s \in Small(n + 1) PROVE h[s] = Summand(f, h, s)
      BY <2>2, <2>4 DEF Summand
  <2>6. Sums(n + 1, h)
      BY <2>3, <2>5
  <2>7. n \in Nat
      OBVIOUS
  <2> HIDE DEF Sums, h
  <2> QED
      BY SMTT(60), <2>6, <2>7
<1>4. Cardinality(S) \in M
  <2>1. M = Nat
    <3> HIDE DEF M
    <3>1. M \in SUBSET Nat
        BY DEF M
    <3> QED
        BY <1>2, <1>3, <3>1, SetInduction
  <2> QED
      BY <2>1, FS_CardinalityType
<1>5. Small(Cardinality(S)) = SUBSET S
    BY SubsetSizes
<1> QED
    BY <1>4, <1>5 DEF AddsUp

\* That function gives the sum, and there is no other.
LEMMA SumOf ==
    ASSUME NEW S, IsFiniteSet(S), NEW f \in [S -> Int]
    PROVE  \E g : AddsUp(f, S, g) /\ SumFunction(f) = g[S]
<1> DEFINE Fix(g) == g = [s \in SUBSET S |-> Summand(f, g, s)]
           c == CHOOSE g : Fix(g)
<1>1. SumFunction(f) = c[S]
    BY SumUnfolds
<1>2. PICK g : AddsUp(f, S, g)
    BY SumExists
<1>3. Fix(g)
    BY <1>2 DEF AddsUp
<1>4. Fix(c)
  <2> HIDE DEF Fix
  <2> QED
      BY <1>3
<1>5. AddsUp(f, S, c)
  <2> HIDE DEF c
  <2> DEFINE Sub == SUBSET S
             M == {n \in Nat : \A s \in Sub : Cardinality(s) <= n => c[s] = g[s]}
  <2>1. \A s \in Sub : c[s] = Summand(f, c, s) /\ g[s] = Summand(f, g, s)
      BY <1>3, <1>4
  <2>2. c[{}] = g[{}]
      BY <2>1 DEF Summand
  <2>3. 0 \in M
      BY <2>2, SubsetSizes
  <2>4. ASSUME NEW n \in M PROVE n + 1 \in M
    <3> SUFFICES ASSUME NEW s \in Sub, Cardinality(s) <= n + 1 PROVE c[s] = g[s]
        BY SMTT(60)
    <3>1. CASE s = {}
        BY <2>2, <3>1
    <3>2. CASE s # {}
      <4>1. /\ s \ {Chosen(s)} \in Sub
            /\ Cardinality(s) \in Nat /\ Cardinality(s \ {Chosen(s)}) = Cardinality(s) - 1
          BY <3>2, ChosenIn, SubsetSizes
      <4>2. c[s \ {Chosen(s)}] = g[s \ {Chosen(s)}]
          BY SMTT(60), <4>1
      <4> QED
          BY <2>1, <3>2, <4>2 DEF Summand
    <3> QED
        BY <3>1, <3>2
  <2>5. M = Nat
    <3> HIDE DEF M
    <3>1. M \in SUBSET Nat
        BY DEF M
    <3> QED
        BY <2>3, <2>4, <3>1, SetInduction
  <2>6. ASSUME NEW s \in Sub PROVE c[s] = g[s]
    <3>1. Cardinality(s) \in M
      <4> HIDE DEF M
      <4> QED
          BY <2>5, SubsetSizes
    <3> QED
        BY SMTT(60), <3>1
  <2> QED
      BY <1>2, <1>4, <2>6 DEF AddsUp
<1> QED
    BY <1>1, <1>5

\* A sum does not depend on the order in which the members are taken.
LEMMA AnyOrder ==
    ASSUME NEW S, IsFiniteSet(S), NEW f \in [S -> Int], NEW g, AddsUp(f, S, g),
           NEW r \in SUBSET S, NEW y \in r
    PROVE  g[r] = f[y] + g[r \ {y}]
<1> DEFINE Any(s) == \A x \in s : g[s] = f[x] + g[s \ {x}]
           M == {n \in Nat : \A s \in SUBSET S : Cardinality(s) <= n => Any(s)}
<1>1. 0 \in M
    BY SubsetSizes
<1>2. ASSUME NEW n \in M PROVE n + 1 \in M
  <2> SUFFICES ASSUME NEW s \in SUBSET S, Cardinality(s) <= n + 1, NEW x \in s
               PROVE  g[s] = f[x] + g[s \ {x}]
      BY SMTT(60)
  <2> DEFINE c == Chosen(s)
  <2>1. c \in s /\ g[s] = f[c] + g[s \ {c}]
      BY ChosenIn DEF AddsUp, Summand
  <2> HIDE DEF c
  <2>2. CASE x = c
      BY <2>1, <2>2
  <2>3. CASE x # c
    <3>1. Cardinality(s \ {x}) <= n /\ Cardinality(s \ {c}) <= n
        BY SMTT(60), <2>1, SubsetSizes
    <3>2. g[s \ {c}] = f[x] + g[(s \ {c}) \ {x}]
        BY <2>1, <2>3, <3>1
    <3>3. g[s \ {x}] = f[c] + g[(s \ {x}) \ {c}]
        BY <2>1, <2>3, <3>1
    <3>4. (s \ {c}) \ {x} = (s \ {x}) \ {c}
        OBVIOUS
    <3>5. f[c] \in Int /\ f[x] \in Int /\ g[(s \ {x}) \ {c}] \in Int
        BY <2>1 DEF AddsUp
    <3> DEFINE rest == g[(s \ {x}) \ {c}]
    <3>6. g[s \ {c}] = f[x] + rest
        BY <3>2, <3>4
    <3>7. g[s] = f[c] + (f[x] + rest) /\ g[s \ {x}] = f[c] + rest
        BY <2>1, <3>3, <3>6
    <3> HIDE DEF rest
    <3>8. rest \in Int
        BY <3>5 DEF rest
    <3> QED
        BY SMTT(60), <3>5, <3>7, <3>8
  <2> QED
      BY <2>2, <2>3
<1>3. M = Nat
  <2> HIDE DEF M
  <2>1. M \in SUBSET Nat
      BY DEF M
  <2> QED
      BY <1>1, <1>2, <2>1, SetInduction
<1>4. Cardinality(r) \in M
  <2> HIDE DEF M
  <2> QED
      BY <1>3, SubsetSizes
<1> QED
    BY SMTT(60), <1>4, SubsetSizes

\* Sums of functions that agree on a set are the same.
LEMMA SameSums ==
    ASSUME NEW S, IsFiniteSet(S), NEW f, NEW h, NEW g, NEW k, AddsUp(f, S, g), AddsUp(h, S, k),
           NEW r \in SUBSET S, \A x \in r : f[x] = h[x]
    PROVE  g[r] = k[r]
<1> DEFINE M == {n \in Nat : \A s \in SUBSET r : Cardinality(s) <= n => g[s] = k[s]}
<1>0. IsFiniteSet(r)
    BY FS_Subset
<1>1. 0 \in M
    BY <1>0, SubsetSizes DEF AddsUp, Summand
<1>2. ASSUME NEW n \in M PROVE n + 1 \in M
  <2> SUFFICES ASSUME NEW s \in SUBSET r, Cardinality(s) <= n + 1 PROVE g[s] = k[s]
      BY SMTT(60)
  <2>1. CASE s = {}
      BY <2>1 DEF AddsUp, Summand
  <2>2. CASE s # {}
    <3>1. Chosen(s) \in s
        BY <2>2, ChosenIn
    <3>2. Cardinality(s \ {Chosen(s)}) <= n
        BY SMTT(60), <1>0, <3>1, SubsetSizes
    <3>3. g[s \ {Chosen(s)}] = k[s \ {Chosen(s)}]
        BY <3>2
    <3>4. g[s] = f[Chosen(s)] + g[s \ {Chosen(s)}] /\ k[s] = h[Chosen(s)] + k[s \ {Chosen(s)}]
        BY <2>2 DEF AddsUp, Summand
    <3> QED
        BY <3>1, <3>3, <3>4
  <2> QED
      BY <2>1, <2>2
<1>3. M = Nat
  <2> HIDE DEF M
  <2>1. M \in SUBSET Nat
      BY DEF M
  <2> QED
      BY <1>1, <1>2, <2>1, SetInduction
<1>4. Cardinality(r) \in M
  <2> HIDE DEF M
  <2> QED
      BY <1>0, <1>3, SubsetSizes
<1> QED
    BY <1>0, <1>4, SubsetSizes

\* Changing one value changes the sum by as much.
LEMMA SumChanges ==
    ASSUME NEW S, IsFiniteSet(S), NEW f \in [S -> Int], NEW x \in S, NEW v \in Int
    PROVE  SumFunction([f EXCEPT ![x] = v]) = SumFunction(f) + v - f[x]
<1> DEFINE h == [f EXCEPT ![x] = v]
<1>1. h \in [S -> Int] /\ h[x] = v /\ \A y \in S \ {x} : f[y] = h[y]
    OBVIOUS
<1> HIDE DEF h
<1>2. PICK g : AddsUp(f, S, g) /\ SumFunction(f) = g[S]
    BY SumOf
<1>3. PICK k : AddsUp(h, S, k) /\ SumFunction(h) = k[S]
    BY <1>1, SumOf
<1>4. g[S] = f[x] + g[S \ {x}]
    BY SMTT(60), <1>2, AnyOrder
<1>5. k[S] = v + k[S \ {x}]
    BY SMTT(60), <1>1, <1>3, AnyOrder
<1>6. g[S \ {x}] = k[S \ {x}]
    BY SMTT(60), <1>1, <1>2, <1>3, SameSums
<1>7. f[x] \in Int /\ g[S \ {x}] \in Int
    BY <1>2 DEF AddsUp
<1>8. SumFunction(h) = SumFunction(f) + v - f[x]
    BY SMTT(60), <1>2, <1>3, <1>4, <1>5, <1>6, <1>7
<1> QED
    BY <1>8 DEF h

\* Nothing adds up to nothing.
LEMMA SumOfZeros ==
    ASSUME NEW S, IsFiniteSet(S)
    PROVE  SumFunction([x \in S |-> 0]) = 0
<1> DEFINE f == [x \in S |-> 0]
           z == [s \in SUBSET S |-> 0]
<1>1. PICK g : AddsUp(f, S, g) /\ SumFunction(f) = g[S]
    BY SMTT(60), SumOf
<1>2. AddsUp(f, S, z)
  <2> SUFFICES ASSUME NEW s \in SUBSET S PROVE 0 = Summand(f, z, s)
      BY SMTT(60) DEF AddsUp
  <2>1. s # {} => Chosen(s) \in s
      BY ChosenIn
  <2> QED
      BY SMTT(60), <2>1 DEF Summand
<1>3. g[S] = z[S]
  <2> HIDE DEF f, z
  <2> QED
      BY SMTT(60), <1>1, <1>2, SameSums
<1> QED
    BY <1>1, <1>3

-----------------------------------------------------------------------------
\* What a step does to the stored lengths and to their total.
SizeKept == UNCHANGED <<tx_cache_key_to_contents, total_tx_contents_size>>

SizeMoved(t, n) ==
    /\ tx_cache_key_to_contents' = [tx_cache_key_to_contents EXCEPT ![t] = n]
    /\ total_tx_contents_size' = total_tx_contents_size + n - tx_cache_key_to_contents[t]

SizeCleared == tx_cache_key_to_contents' = [t \in Tx |-> 0] /\ total_tx_contents_size' = 0

SizeAccounted == SizeKept \/ (\E t \in Tx, n \in Int : SizeMoved(t, n)) \/ SizeCleared

\* Dropping the contents of a transaction takes their length off the total.
LEMMA DropContentsAccounts ==
    ASSUME MapsTypeOK, NEW t \in Tx, DropContents(t)
    PROVE  SizeMoved(t, 0)
<1>0. Sizes \cup {0} \subseteq Int
    BY SMTT(60), ConstantsAssumption
<1>1. total_tx_contents_size \in Int /\ tx_cache_key_to_contents[t] \in Int
    BY <1>0 DEF MapsTypeOK
<1> QED
    BY SMTT(60), <1>1 DEF DropContents, SizeMoved

\* So does removing a transaction by key, unless it is kept.
LEMMA RemoveTransactionByKeyAccounts ==
    ASSUME MapsTypeOK, NEW t \in Tx, NEW force, NEW assume_no_sid,
           RemoveTransactionByKey(t, force, assume_no_sid)
    PROVE  SizeAccounted
<1>1. CASE UNCHANGED maps
    BY <1>1 DEF maps, SizeAccounted, SizeKept
<1>2. CASE DropContents(t)
    BY SMTT(60), <1>2, DropContentsAccounts DEF SizeAccounted
<1> QED
    BY <1>1, <1>2 DEF RemoveTransactionByKey

\* And so does removing it by one of its short ids.
LEMMA RemoveTransactionByShortIdAccounts ==
    ASSUME MapsTypeOK, NEW s \in Sid, NEW related, NEW force, NEW q,
           RemoveTransactionByShortId(s, related, force, q)
    PROVE  SizeAccounted
<1> DEFINE t == short_id_to_tx_cache_key[s]
<1>1. CASE UNCHANGED maps
    BY <1>1 DEF maps, SizeAccounted, SizeKept
<1>2. CASE SizeKept
    BY <1>2 DEF SizeAccounted
<1>3. CASE t # NoTx /\ DropContents(t)
  <2>1. t \in Tx
      BY <1>3 DEF MapsTypeOK
  <2> QED
      BY SMTT(60), <1>3, <2>1, DropContentsAccounts DEF SizeAccounted
<1> QED
    BY <1>1, <1>2, <1>3 DEF RemoveTransactionByShortId, SizeKept

\* Every step accounts for what it stores and drops.
LEMMA SizeStep ==
    ASSUME TypeOK, [Next]_vars
    PROVE  SizeAccounted
<1>t. MapsTypeOK /\ QueuesTypeOK /\ ControlTypeOK
    BY DEF TypeOK
<1>0. CASE UNCHANGED maps
    BY <1>0 DEF maps, SizeAccounted, SizeKept
<1>1. CASE SizeKept
    BY <1>1 DEF SizeAccounted
<1>2. CASE \E t \in Tx, n \in Sizes : SetTransactionContents(t, n)
  <2>1. PICK t \in Tx, n \in Sizes : SetTransactionContents(t, n)
      BY <1>2
  <2>2. SizeMoved(t, n)
      BY <2>1 DEF SetTransactionContents, SizeMoved
  <2> QED
      BY SMTT(60), <2>2, ConstantsAssumption DEF SizeAccounted
<1>3. CASE \E t \in Tx, force, assume_no_sid \in BOOLEAN :
               RemoveTransactionByKey(t, force, assume_no_sid)
    BY <1>t, <1>3, RemoveTransactionByKeyAccounts
<1>4. CASE \E s \in Sid, related, force \in BOOLEAN : \E q :
               RemoveTransactionByShortId(s, related, force, q)
    BY <1>t, <1>4, RemoveTransactionByShortIdAccounts
<1>5. CASE ClearCache
    BY <1>5 DEF ClearCache, SizeAccounted, SizeCleared
<1>h. ASSUME work # <<>> PROVE Head(work) \in Call
    BY SMTT(60), <1>h, <1>t DEF ControlTypeOK
<1>6. CASE UNCHANGED vars
    BY <1>0, <1>6 DEF vars
<1>7. CASE Assign \/ CallAssign
    BY <1>1, <1>7 DEF Assign, CallAssign, AssignShortId, SizeKept
<1>8. CASE SetContents
    BY <1>2, <1>8 DEF SetContents
<1>9. CASE CallSetContents
  <2>1. Head(work).tx \in Tx /\ Head(work).size \in Sizes
      BY <1>9, <1>h DEF CallSetContents, NextCall, Call
  <2> QED
      BY <1>2, <1>9, <2>1 DEF CallSetContents
<1>10. CASE ProcessTxSyncMessage \/ GetSnapshot \/ TrackSeenShortIds \/ ContentsCleanup
              \/ FireAlarm \/ CallBlockCleanedUp \/ MemoryEnd \/ ExpireEnd
    BY <1>0, <1>10 DEF ProcessTxSyncMessage, GetSnapshot, TrackSeenShortIds,
         ContentsCleanup, FireAlarm, CallBlockCleanedUp, MemoryEnd, ExpireEnd
<1>11. CASE SetPaid
    BY <1>1, <1>11 DEF SetPaid, SizeKept
<1>12. CASE RemoveByKey
    BY <1>3, <1>12 DEF RemoveByKey
<1>13. CASE CallRemoveByKey
  <2>1. Head(work).tx \in Tx
      BY <1>13, <1>h DEF CallRemoveByKey, NextCall, Call
  <2> QED
      BY <1>3, <1>13, <2>1 DEF CallRemoveByKey
<1>14. CASE ExpireContent
  <2>1. tx_hashes_without_short_id.items \subseteq Tx
      BY <1>t, ItemsInSet DEF QueuesTypeOK
  <2> QED
      BY <1>3, <1>14, <2>1 DEF ExpireContent
<1>15. CASE RemoveByShortId
    BY <1>4, <1>15 DEF RemoveByShortId
<1>16. CASE CallRemoveByShortId
  <2>1. Head(work).sid \in Sid
      BY <1>16, <1>h DEF CallRemoveByShortId, NextCall, Call
  <2> QED
      BY <1>4, <1>16, <2>1 DEF CallRemoveByShortId
<1>17. CASE MemoryEvict \/ ExpireAssignment
  <2>1. tx_assignment_expire_queue.items \subseteq Sid
      BY <1>t, ItemsInSet DEF QueuesTypeOK
  <2> QED
      BY <1>4, <1>17, <2>1 DEF MemoryEvict, ExpireAssignment
<1>18. CASE Clear \/ MemoryClear
    BY <1>5, <1>18 DEF Clear, MemoryClear
<1>19. CASE ExpireSid
    BY <1>0, <1>1, <1>19 DEF ExpireSid, RemoveSidByKey, SizeKept
<1> QED
    BY <1>6, <1>7, <1>8, <1>9, <1>10, <1>11, <1>12, <1>13, <1>14, <1>15, <1>16, <1>17, <1>18,
       <1>19, Zenon DEF Next, Step

\* _total_tx_contents_size is the sum of the lengths of the stored contents, for
\* any finite set of transactions and any sizes: what set_transaction_contents adds
\* for a replacement, and what the removals and clear take off, is exact.
THEOREM SizeAlwaysIsSum ==
    ASSUME IsFiniteSet(Tx)
    PROVE  Spec => []SizeIsSum
<1>1. Init => SizeIsSum
    BY SumOfZeros DEF Init, SizeIsSum
<1>2. ASSUME TypeOK, SizeIsSum, [Next]_vars PROVE SizeIsSum'
  <2>0. Sizes \cup {0} \subseteq Int
      BY SMTT(60), ConstantsAssumption
  <2>1. tx_cache_key_to_contents \in [Tx -> Int]
      BY <1>2, <2>0 DEF TypeOK, MapsTypeOK
  <2>2. CASE SizeKept
      BY <1>2, <2>2 DEF SizeKept, SizeIsSum
  <2>3. ASSUME NEW t \in Tx, NEW n \in Int, SizeMoved(t, n) PROVE SizeIsSum'
      BY <1>2, <2>1, <2>3, SumChanges DEF SizeMoved, SizeIsSum
  <2>4. CASE SizeCleared
      BY <2>4, SumOfZeros DEF SizeCleared, SizeIsSum
  <2> QED
      BY <1>2, <2>2, <2>3, <2>4, SizeStep DEF SizeAccounted
<1> QED
    BY <1>1, <1>2, TypeCorrect, PTL DEF Spec
=============================================================================
