---------------------------- MODULE WireFormats ----------------------------
(***************************************************************************)
(* The messages of the bloXroute protocol as bytes. A byte is known by     *)
(* where it comes from: byte i of the w bytes that encode the value v of   *)
(* field n (of list element k). The widths are those of the code, so a     *)
(* slice taken at a wrong offset shows up as bytes that decode to nothing. *)
(* Values are numbers: 0 is what zero bytes decode to, a flag is its bit   *)
(* mask, a timestamp counts tenths of a second, any other datum is 1.      *)
(*                                                                         *)
(* A layout lists the fields of one message class in the order in which    *)
(* its constructor packs them and its accessors unpack them, between the   *)
(* header and the control byte; n is the length of the list or of the raw  *)
(* bytes that the class carries.                                           *)
(***************************************************************************)
EXTENDS Integers, Sequences, SequencesExt

HEADER_LENGTH == 20

Garbage == -1

Slot(name, w) == <<[n |-> name, k |-> 0, w |-> w]>>

List(n, slots) ==
    [i \in 1..(n * Len(slots)) |->
        [slots[((i - 1) % Len(slots)) + 1] EXCEPT !.k = ((i - 1) \div Len(slots)) + 1]]

Width(slots) == FoldLeft(LAMBDA sum, s : sum + s.w, 0, slots)

-----------------------------------------------------------------------------
(* Bytes                                                                   *)

Zero == [n |-> "zero", k |-> 0, i |-> 0, w |-> 0, v |-> 0]

Zeros(w) == [i \in 1..w |-> Zero]

VALID == [n |-> "control", k |-> 0, i |-> 1, w |-> 1, v |-> 1]

\* A data byte on which the control flag was set by mistake.
Spoiled == [VALID EXCEPT !.n = "spoiled"]

\* Addresses are written as IPv6: an IPv4 address (any v but 6) after ten zero bytes.
Encode(s, v) ==
    [i \in 1..s.w |-> IF v = 0 \/ (s.n = "ip" /\ v # 6 /\ i <= 10) THEN Zero
                      ELSE [n |-> s.n, k |-> s.k, i |-> i, w |-> s.w, v |-> v]]

Decode(s, bytes) ==
    IF Len(bytes) < s.w THEN Garbage
    ELSE IF s.w = 0 THEN 0
    ELSE IF bytes = Encode(s, bytes[s.w].v) THEN bytes[s.w].v ELSE Garbage

\* The slice buf[i:j] of Python.
Slice(buf, i, j) == SubSeq(buf, i + 1, IF j < Len(buf) THEN j ELSE Len(buf))

From(buf, i) == Slice(buf, i, Len(buf))

Header(type, length) ==
    Encode([n |-> "start", k |-> 0, w |-> 4], 1) \o Encode([n |-> type, k |-> 0, w |-> 12], 1)
        \o Encode([n |-> "length", k |-> 0, w |-> 4], length)

MsgType(buf) == buf[5].n

PayloadLen(buf) == buf[17].v

\* AbstractBloxrouteMessage.__init__: the header is packed over the first bytes and
\* the control flag is set in the last one, whatever they held.
Pack(type, length, buf) ==
    Header(type, length) \o Slice(buf, HEADER_LENGTH, Len(buf) - 1)
        \o <<IF Last(buf) \in {Zero, VALID} THEN VALID ELSE Spoiled>>

-----------------------------------------------------------------------------
(* The current message classes                                             *)

AbstractBroadcastMessage ==
    Slot("message_hash", 32) \o Slot("network_num", 4) \o Slot("source_id", 16)

VersionMessage == Slot("protocol_version", 4) \o Slot("network_num", 4)

HelloMessage == VersionMessage \o Slot("node_id", 16)

KeepAliveMessage == Slot("nonce", 8)

PongMessage == KeepAliveMessage \o Slot("timestamp_ms", 8)

TxMessage(n) ==
    AbstractBroadcastMessage \o Slot("short_id", 4) \o Slot("transaction_flag", 2)
        \o Slot("timestamp", 8) \o Slot("account_id", 36) \o Slot("tx_val", n)

BroadcastMessage(n) ==
    AbstractBroadcastMessage \o Slot("broadcast_type", 4) \o Slot("is_encrypted", 1)
        \o Slot("blob", n)

KeyMessage == AbstractBroadcastMessage \o Slot("key", 32)

BlockHoldingMessage == AbstractBroadcastMessage

\* Acks, requests to disconnect and to refresh the network have no fields.
AckMessage == <<>>

DisconnectRelayPeerMessage == <<>>

RefreshBlockchainNetworkMessage == <<>>

serialize_short_ids(n) == Slot("count", 4) \o List(n, Slot("short_id", 4))

ContentLen == 2

serialize_transactions_info(n) ==
    Slot("count", 4) \o List(n, Slot("short_id", 4) \o Slot("tx_hash", 32)
                                \o Slot("tx_size", 4) \o Slot("tx_contents", ContentLen))

GetTxsMessage(n) == serialize_short_ids(n)

TxsMessage(n) == serialize_transactions_info(n)

GetTxContentsMessage == Slot("network_num", 4) \o Slot("short_id", 4)

TxContentsMessage(n) ==
    Slot("network_num", 4) \o Slot("short_id", 4) \o Slot("tx_hash", 32) \o Slot("count", 4)
        \o Slot("tx_contents", n)

GetCompressedBlockTxsMessage(n) ==
    Slot("network_num", 4) \o Slot("block_hash", 32) \o serialize_short_ids(n)

CompressedBlockTxsMessage(n) ==
    Slot("network_num", 4) \o Slot("block_hash", 32) \o serialize_transactions_info(n)

\* As many hashes as short ids, here.
AbstractCleanupMessage(n) ==
    AbstractBroadcastMessage \o Slot("count", 4) \o List(n, Slot("short_id", 4))
        \o Slot("hashes_count", 4) \o List(n, Slot("tx_hash", 32))

BlockConfirmationMessage(n) == AbstractCleanupMessage(n)

TransactionCleanupMessage(n) == AbstractCleanupMessage(n)

NotificationMessage(n) == Slot("notification_code", 2) \o Slot("raw", n)

RoutingUpdateMessage(n) ==
    AbstractBroadcastMessage \o Slot("origin_node_id", 16) \o Slot("forwarding_node_id", 16)
        \o Slot("routing_update_id", 32) \o Slot("count", 4) \o List(n, Slot("node_id", 16))

TxServiceSyncReqMessage == Slot("network_num", 4)

TxServiceSyncCompleteMessage == Slot("network_num", 4)

\* Each block and each transaction has one short id, here.
serialize_blocks_short_ids(n) ==
    List(n, Slot("block_hash", 32) \o Slot("short_ids_count", 4) \o Slot("short_id", 4))

TxServiceSyncBlocksShortIdsMessage(n) ==
    Slot("network_num", 4) \o Slot("count", 4) \o serialize_blocks_short_ids(n)

SyncedContents ==
    Slot("tx_hash", 32) \o Slot("tx_size", 4) \o Slot("tx_contents", ContentLen)
        \o Slot("expiration", 4) \o Slot("short_ids_count", 2) \o Slot("short_id", 4)

serialize_txs_content_short_ids(n) == List(n, SyncedContents \o Slot("short_id_flag", 2))

TxServiceSyncTxsMessage(n) ==
    Slot("network_num", 4) \o Slot("count", 4) \o serialize_txs_content_short_ids(n)

Interval == Slot("interval_start_time", 8) \o Slot("interval_end_time", 8)

BlocksReceived == Slot("new_blocks_from_node", 2) \o Slot("new_blocks_from_bdn", 2)

TxsReceived == Slot("new_tx_from_node", 4) \o Slot("new_tx_from_bdn", 4)

BlocksSeen ==
    Slot("new_blocks_seen", 4) \o Slot("new_block_messages", 4)
        \o Slot("new_block_announcements", 4)

NodeStatsV18 ==
    Slot("ip", 16) \o Slot("port", 2) \o BlocksReceived \o TxsReceived \o BlocksSeen

BdnPerformanceStatsMessage(n) ==
    Interval \o Slot("memory", 2) \o Slot("count", 2)
        \o List(n, NodeStatsV18 \o Slot("tx_sent_to_node", 4) \o Slot("duplicate_tx", 4))

-----------------------------------------------------------------------------
(* The classes of older versions                                           *)

TxMessageV6(n) == AbstractBroadcastMessage \o Slot("short_id", 4) \o Slot("tx_val", n)

TxMessageV7(n) ==
    AbstractBroadcastMessage \o Slot("short_id", 4) \o Slot("quota_type", 1) \o Slot("tx_val", n)

TxMessageV15(n) ==
    AbstractBroadcastMessage \o Slot("short_id", 4) \o Slot("quota_type", 1)
        \o Slot("timestamp", 4) \o Slot("tx_val", n)

TxMessageV17(n) ==
    AbstractBroadcastMessage \o Slot("short_id", 4) \o Slot("transaction_flag", 2)
        \o Slot("timestamp", 4) \o Slot("tx_val", n)

TxMessageV19(n) == TxMessageV17(n)

TxMessageV20(n) == TxMessageV17(n)

TxMessageV21(n) ==
    AbstractBroadcastMessage \o Slot("short_id", 4) \o Slot("transaction_flag", 2)
        \o Slot("timestamp", 8) \o Slot("tx_val", n)

BroadcastMessageV8(n) ==
    AbstractBroadcastMessage \o Slot("is_encrypted", 1) \o Slot("blob", n)

PongMessageV13 == KeepAliveMessage

serialize_txs_content_short_ids_v6(n) == List(n, SyncedContents)

TxServiceSyncTxsMessageV6(n) ==
    Slot("network_num", 4) \o Slot("count", 4) \o serialize_txs_content_short_ids_v6(n)

serialize_txs_content_short_ids_v15(n) == List(n, SyncedContents \o Slot("quota_type", 1))

TxServiceSyncTxsMessageV15(n) ==
    Slot("network_num", 4) \o Slot("count", 4) \o serialize_txs_content_short_ids_v15(n)

\* Until version 16 there was one node, whose figures were not a list.
BdnPerformanceStatsMessageV9 ==
    Interval \o List(1, BlocksReceived \o Slot("new_tx_from_node", 2) \o Slot("new_tx_from_bdn", 2))

BdnPerformanceStatsMessageV10 == Interval \o List(1, BlocksReceived \o TxsReceived)

BdnPerformanceStatsMessageV14 == BdnPerformanceStatsMessageV10 \o Slot("memory", 2)

BdnPerformanceStatsMessageV16 == BdnPerformanceStatsMessageV14 \o List(1, BlocksSeen)

BdnPerformanceStatsMessageV18(n) ==
    Interval \o Slot("memory", 2) \o Slot("count", 2) \o List(n, NodeStatsV18)

=============================================================================
