------------------------------ MODULE Versions ------------------------------
(***************************************************************************)
(* The versions of the protocol: which class each version uses for each    *)
(* type of message (the message factories), which converter brings a       *)
(* message of the current version to an older one and back (the converter  *)
(* factories), the converters, and the version manager.                    *)
(*                                                                         *)
(* A converter that cuts bytes keeps the breakpoints of the code; one that *)
(* reads the fields and makes a new message is a Refit.                    *)
(***************************************************************************)
EXTENDS Messages, InputBuffer

CURRENT_PROTOCOL_VERSION == 23

MIN_SUPPORTED_PROTOCOL_VERSION == 6

is_protocol_supported(version) == version >= MIN_SUPPORTED_PROTOCOL_VERSION

-----------------------------------------------------------------------------
(* Message factories: the class of each type, and how much of a broadcast  *)
(* the preview reads: its type too ("typed"), none ("hash"), or it takes   *)
(* every broadcast for a block ("block").                                  *)

bloxroute_message_factory ==
    [mapping |->
        [hello |-> "HelloMessage", ack |-> "AckMessage", ping |-> "PingMessage",
         pong |-> "PongMessage", broadcast |-> "BroadcastMessage", tx |-> "TxMessage",
         gettxs |-> "GetTxsMessage", txs |-> "TxsMessage",
         getcontents |-> "GetTxContentsMessage", txcontents |-> "TxContentsMessage",
         key |-> "KeyMessage", blockhold |-> "BlockHoldingMessage",
         droprelay |-> "DisconnectRelayPeerMessage", txstart |-> "TxServiceSyncReqMessage",
         txblock |-> "TxServiceSyncBlocksShortIdsMessage",
         txtxs |-> "TxServiceSyncTxsMessage", txdone |-> "TxServiceSyncCompleteMessage",
         blkcnfrm |-> "BlockConfirmationMessage", txclnup |-> "TransactionCleanupMessage",
         notify |-> "NotificationMessage", bdnstats |-> "BdnPerformanceStatsMessage",
         blkntwrk |-> "RefreshBlockchainNetworkMessage",
         getblocktxs |-> "GetCompressedBlockTxsMessage",
         blocktxs |-> "CompressedBlockTxsMessage", routing |-> "RoutingUpdateMessage"],
     preview |-> "typed"]

Types == DOMAIN bloxroute_message_factory.mapping

\* This factory has no preview.
bloxroute_message_factory_v22 == [bloxroute_message_factory EXCEPT !.preview = "missing"]

bloxroute_message_factory_v21 ==
    [bloxroute_message_factory_v22 EXCEPT !.mapping.tx = "TxMessageV21", !.preview = "typed"]

bloxroute_message_factory_v20 ==
    [bloxroute_message_factory_v21 EXCEPT !.mapping.tx = "TxMessageV20", !.preview = "typed"]

bloxroute_message_factory_v19 ==
    [bloxroute_message_factory_v20 EXCEPT !.mapping.tx = "TxMessageV19", !.preview = "typed"]

bloxroute_message_factory_v18 ==
    [bloxroute_message_factory_v19 EXCEPT !.mapping.bdnstats = "BdnPerformanceStatsMessageV18",
                                          !.preview = "typed"]

bloxroute_message_factory_v17 ==
    [bloxroute_message_factory_v18 EXCEPT !.mapping.tx = "TxMessageV17", !.preview = "typed"]

bloxroute_message_factory_v16 ==
    [bloxroute_message_factory_v17 EXCEPT !.mapping.bdnstats = "BdnPerformanceStatsMessageV16",
                                          !.preview = "typed"]

bloxroute_message_factory_v15 ==
    [bloxroute_message_factory_v16 EXCEPT !.mapping.tx = "TxMessageV15",
                                          !.mapping.txtxs = "TxServiceSyncTxsMessageV15",
                                          !.preview = "typed"]

bloxroute_message_factory_v14 ==
    [bloxroute_message_factory_v15 EXCEPT !.mapping.bdnstats = "BdnPerformanceStatsMessageV14",
                                          !.preview = "typed"]

bloxroute_message_factory_v13 ==
    [bloxroute_message_factory_v14 EXCEPT !.mapping.pong = "PongMessageV13", !.preview = "typed"]

bloxroute_message_factory_v12 ==
    [bloxroute_message_factory_v13 EXCEPT !.preview = "typed"]

\* AbstractMessageFactory drops the types whose class is None.
bloxroute_message_factory_v11 ==
    [bloxroute_message_factory_v12 EXCEPT !.mapping.blkntwrk = "None",
                                          !.mapping.getblocktxs = "None",
                                          !.mapping.blocktxs = "None", !.preview = "typed"]

bloxroute_message_factory_v10 ==
    [bloxroute_message_factory_v11 EXCEPT !.mapping.bdnstats = "BdnPerformanceStatsMessageV10",
                                          !.preview = "typed"]

bloxroute_message_factory_v9 ==
    [bloxroute_message_factory_v10 EXCEPT !.mapping.bdnstats = "BdnPerformanceStatsMessageV9",
                                          !.preview = "typed"]

bloxroute_message_factory_v8 ==
    [bloxroute_message_factory_v9 EXCEPT !.mapping.broadcast = "BroadcastMessageV8",
                                         !.preview = "block"]

bloxroute_message_factory_v7 ==
    [bloxroute_message_factory_v8 EXCEPT !.mapping.tx = "TxMessageV7", !.preview = "hash"]

bloxroute_message_factory_v6 ==
    [bloxroute_message_factory_v7 EXCEPT !.mapping.tx = "TxMessageV6",
                                         !.mapping.txtxs = "TxServiceSyncTxsMessageV6",
                                         !.preview = "hash"]

\* What the version manager has for version 22, as a factory and as a converter factory:
\* its import takes the modules of these names, not the factories that they define.
ImportedModule == [is_module |-> TRUE]

get_message_factory_for_version ==
    <<bloxroute_message_factory_v6, bloxroute_message_factory_v7, bloxroute_message_factory_v8,
      bloxroute_message_factory_v9, bloxroute_message_factory_v10, bloxroute_message_factory_v11,
      bloxroute_message_factory_v12, bloxroute_message_factory_v13, bloxroute_message_factory_v14,
      bloxroute_message_factory_v15, bloxroute_message_factory_v16, bloxroute_message_factory_v17,
      bloxroute_message_factory_v18, bloxroute_message_factory_v19, bloxroute_message_factory_v20,
      bloxroute_message_factory_v21, ImportedModule, bloxroute_message_factory>>

Factory(version) == get_message_factory_for_version[version - MIN_SUPPORTED_PROTOCOL_VERSION + 1]

HasFactory(version) == Factory(version) # ImportedModule

ClassOf(version, type) == Factory(version).mapping[type]

KnownTypes(version) == {type \in Types : ClassOf(version, type) # "None"}

PreviewOf(factory, b, header, typeAt) ==
    [is_full_header |-> b.length >= Width(AbstractBroadcastMessage) + HEADER_LENGTH,
     block_hash |-> DecodeAt(AbstractBroadcastMessage[1], HEADER_LENGTH, header),
     broadcast_type |->
        IF factory.preview # "typed" THEN BLOCK
        ELSE DecodeAt([n |-> "broadcast_type", k |-> 0, w |-> 4], typeAt, header)]

\* Mutant: the offset is not moved past the source id.
get_broadcast_message_previewBehind(factory, b) == PreviewOf(factory, b, PeekMessage(b, 72), 56)

\* The preview says that it has the whole header before the type has arrived.
get_broadcast_message_preview(factory, b) == PreviewOf(factory, b, PeekMessage(b, 72), 72)

-----------------------------------------------------------------------------
(* Converters. One that reads the fields and makes a new message says what *)
(* becomes of a field that is not kept as it is; one that cuts bytes says  *)
(* which parts make up the new message. Those for the statistics convert   *)
(* only from older versions: the message goes from a gateway to a relay.   *)

Refit(cls, changes) == [kind |-> "fields", cls |-> cls, changes |-> changes]

Splice(cls, parts, difference) ==
    [kind |-> "bytes", cls |-> cls, parts |-> parts, difference |-> difference]

Bytes(i, j) == [part |-> "bytes", i |-> i, j |-> j]

ToEnd(i) == [part |-> "end", i |-> i]

Zeroed(w) == [part |-> "zeros", w |-> w]

no_changes_message_converter == [to |-> [kind |-> "same"], from |-> [kind |-> "same"]]

tx_message_converter_v6 ==
    [to |-> Splice("TxMessageV6", <<Bytes(0, 76), ToEnd(122)>>, -46),
     from |-> Splice("TxMessage", <<Bytes(0, 76), Zeroed(46), ToEnd(76)>>, 46)]

tx_message_converter_v7 ==
    [to |-> Splice("TxMessageV7", <<Bytes(0, 77), ToEnd(82)>>, -5),
     from |-> Splice("TxMessage", <<Bytes(0, 77), Zeroed(5), ToEnd(77)>>, 5)]

\* Mutant: the quota of a received transaction is not made a flag.
tx_message_converter_v15FlagLost ==
    [to |-> Refit("TxMessageV15", {"quota of transaction_flag", "int of timestamp"}),
     from |-> Refit("TxMessage", {})]

tx_message_converter_v15 ==
    [to |-> Refit("TxMessageV15", {"quota of transaction_flag", "int of timestamp"}),
     from |-> Refit("TxMessage", {"paid or no flags"})]

tx_message_converter_v17 ==
    [to |-> Refit("TxMessageV17", {"known transaction_flag", "int of timestamp"}),
     from |-> Refit("TxMessage", {})]

tx_message_converter_v19 ==
    [to |-> Refit("TxMessageV19", {"known transaction_flag", "int of timestamp"}),
     from |-> Refit("TxMessage", {})]

tx_message_converter_v20 ==
    [to |-> Refit("TxMessageV20", {"int of timestamp"}), from |-> Refit("TxMessage", {})]

tx_message_converter_v21 == [to |-> Refit("TxMessageV21", {}), from |-> Refit("TxMessage", {})]

\* A short id without a flag gets NO_FLAGS.
tx_sync_message_converter_v6 ==
    [to |-> Refit("TxServiceSyncTxsMessageV6", {}), from |-> Refit("TxServiceSyncTxsMessage", {})]

tx_sync_message_converter_v15 ==
    [to |-> Refit("TxServiceSyncTxsMessageV15", {"quota of short_id_flag"}),
     from |-> Refit("TxServiceSyncTxsMessage", {"value of quota_type"})]

\* Mutant: the payload length is not adjusted.
broadcast_message_converter_v8SameLength ==
    [to |-> Splice("BroadcastMessageV8", <<Bytes(0, 72), ToEnd(76)>>, -4),
     from |-> Splice("BroadcastMessage", <<Bytes(0, 72), [part |-> "block type"], ToEnd(72)>>, 0)]

broadcast_message_converter_v8 ==
    [to |-> Splice("BroadcastMessageV8", <<Bytes(0, 72), ToEnd(76)>>, -4),
     from |-> Splice("BroadcastMessage", <<Bytes(0, 72), [part |-> "block type"], ToEnd(72)>>, 4)]

pong_message_converter_v13 ==
    [to |-> Splice("PongMessageV13", <<Bytes(0, 28), ToEnd(36)>>, -8),
     from |-> Splice("PongMessage", <<Bytes(0, 28), Zeroed(8), ToEnd(28)>>, 8)]

\* One node, at a placeholder address.
OneNode == [part |-> "one node"]

\* A two-byte count that gets four bytes.
Widened(name, i) == [part |-> "widened", name |-> name, i |-> i]

bdn_performance_stats_message_converter_v9 ==
    [from |-> Splice("BdnPerformanceStatsMessage",
        <<Bytes(0, 36), Zeroed(2), OneNode, Bytes(36, 40), Widened("new_tx_from_node", 40),
          Widened("new_tx_from_bdn", 42), Zeroed(20), ToEnd(44)>>, 46)]

bdn_performance_stats_message_converter_v10 ==
    [from |-> Splice("BdnPerformanceStatsMessage",
        <<Bytes(0, 36), Zeroed(2), OneNode, Bytes(36, 48), Zeroed(20), ToEnd(48)>>, 42)]

\* The tail starts with the memory, which is already in place.
bdn_performance_stats_message_converter_v14 ==
    [from |-> Splice("BdnPerformanceStatsMessage",
        <<Bytes(0, 36), Bytes(48, 50), OneNode, Bytes(36, 48), Zeroed(20), ToEnd(48)>>, 40)]

bdn_performance_stats_message_converter_v16 ==
    [from |-> Splice("BdnPerformanceStatsMessage",
        <<Bytes(0, 36), Bytes(48, 50), OneNode, Bytes(36, 48), Bytes(50, 62), Zeroed(8),
          ToEnd(62)>>, 28)]

\* As many parts as the message has nodes.
bdn_performance_stats_message_converter_v18 ==
    [from |-> [kind |-> "nodes", cls |-> "BdnPerformanceStatsMessage", stats |-> 40, old |-> 42,
               new |-> 8]]

-----------------------------------------------------------------------------
(* Converter factories                                                     *)

message_converter_factory_v22 == [type \in Types |-> no_changes_message_converter]

message_converter_factory_v21 ==
    [message_converter_factory_v22 EXCEPT !.tx = tx_message_converter_v21]

message_converter_factory_v20 ==
    [message_converter_factory_v21 EXCEPT !.tx = tx_message_converter_v20]

message_converter_factory_v19 ==
    [message_converter_factory_v20 EXCEPT !.tx = tx_message_converter_v19]

message_converter_factory_v18 ==
    [message_converter_factory_v19 EXCEPT !.tx = tx_message_converter_v17,
                                          !.bdnstats = bdn_performance_stats_message_converter_v18]

message_converter_factory_v17 ==
    [message_converter_factory_v18 EXCEPT !.tx = tx_message_converter_v17,
                                          !.bdnstats = bdn_performance_stats_message_converter_v16]

message_converter_factory_v16 ==
    [message_converter_factory_v17 EXCEPT !.bdnstats = bdn_performance_stats_message_converter_v16]

message_converter_factory_v15 ==
    [message_converter_factory_v16 EXCEPT !.tx = tx_message_converter_v15,
                                          !.txtxs = tx_sync_message_converter_v15]

message_converter_factory_v14 ==
    [message_converter_factory_v15 EXCEPT !.bdnstats = bdn_performance_stats_message_converter_v14]

message_converter_factory_v13 ==
    [message_converter_factory_v14 EXCEPT !.pong = pong_message_converter_v13]

message_converter_factory_v12 == message_converter_factory_v13

message_converter_factory_v11 == message_converter_factory_v12

message_converter_factory_v10 ==
    [message_converter_factory_v11 EXCEPT !.bdnstats = bdn_performance_stats_message_converter_v10]

message_converter_factory_v9 ==
    [message_converter_factory_v10 EXCEPT !.bdnstats = bdn_performance_stats_message_converter_v9]

message_converter_factory_v8 ==
    [message_converter_factory_v9 EXCEPT !.broadcast = broadcast_message_converter_v8]

message_converter_factory_v7 ==
    [message_converter_factory_v8 EXCEPT !.tx = tx_message_converter_v7]

message_converter_factory_v6 ==
    [message_converter_factory_v7 EXCEPT !.tx = tx_message_converter_v6,
                                         !.txtxs = tx_sync_message_converter_v6]

protocol_to_converter_factory_mapping ==
    <<message_converter_factory_v6, message_converter_factory_v7, message_converter_factory_v8,
      message_converter_factory_v9, message_converter_factory_v10, message_converter_factory_v11,
      message_converter_factory_v12, message_converter_factory_v13, message_converter_factory_v14,
      message_converter_factory_v15, message_converter_factory_v16, message_converter_factory_v17,
      message_converter_factory_v18, message_converter_factory_v19, message_converter_factory_v20,
      message_converter_factory_v21, ImportedModule>>

Converter(version, type) ==
    protocol_to_converter_factory_mapping[version - MIN_SUPPORTED_PROTOCOL_VERSION + 1][type]

-----------------------------------------------------------------------------
(* Conversion                                                              *)

BlockType == Encode([n |-> "broadcast_type", k |-> 0, w |-> 4], BLOCK)

\* pack_ip_port of "0.0.0.0" and port 0, the address being the IPv4 address 1.
PlaceholderPeer == Encode([n |-> "ip", k |-> 1, w |-> 16], 1) \o Zeros(2)

WidenedCount(s, b) == Encode([s EXCEPT !.w = 4], Decode(s, b))

PartOf(b, p) ==
    CASE p.part = "bytes" -> Slice(b, p.i, p.j)
      [] p.part = "end" -> From(b, p.i)
      [] p.part = "zeros" -> Zeros(p.w)
      [] p.part = "block type" -> BlockType
      [] p.part = "one node" -> Encode([n |-> "count", k |-> 0, w |-> 2], 1) \o PlaceholderPeer
      [] p.part = "widened" ->
             WidenedCount([n |-> p.name, k |-> 1, w |-> 2], Slice(b, p.i, p.i + 2))

Spliced(c, msg, b) ==
    initialize_class(msg.type, c.cls, FoldLeft(LAMBDA bytes, p : bytes \o PartOf(b, p), <<>>, c.parts),
                     msg.length + c.difference)

\* The count of the nodes is read as four bytes where it has two: the first two bytes of
\* an address come with it. They are zero in an IPv4 address. Otherwise there are more
\* nodes than the message has bytes, and writing past the end of the new one raises.
Misread(c, b) ==
    c.kind = "nodes" /\ Len(b) # c.stats + 1 /\ Slice(b, c.stats, c.stats + 2) # Zeros(2)

NodesIn(c, b) ==
    IF Len(b) = c.stats + 1 THEN 0
    ELSE Decode([n |-> "count", k |-> 0, w |-> 2], Slice(b, c.stats - 2, c.stats))

Extended(c, msg, b, nodes) ==
    initialize_class(msg.type, c.cls,
        FoldLeft(LAMBDA bytes, p : bytes \o Slice(b, c.stats + c.old * (p - 1), c.stats + c.old * p)
                                         \o Zeros(c.new),
                 Slice(b, 0, c.stats), [p \in 1..nodes |-> p]) \o From(b, c.stats + c.old * nodes),
        msg.length + c.new * nodes)

Changed(changes, fields, s) ==
    LET of(name) == FieldValue(fields, [s EXCEPT !.n = name])
    IN  CASE s.n = "quota_type" /\ "quota of transaction_flag" \in changes ->
                 get_quota_type(of("transaction_flag"))
          [] s.n = "quota_type" /\ "quota of short_id_flag" \in changes ->
                 get_quota_type(of("short_id_flag"))
          [] s.n = "short_id_flag" /\ "value of quota_type" \in changes -> of("quota_type")
          [] s.n = "transaction_flag" /\ "paid or no flags" \in changes ->
                 IF Bit(of("quota_type"), FREE_DAILY_QUOTA) THEN 0 ELSE PAID_TX
          [] s.n = "transaction_flag" /\ "known transaction_flag" \in changes ->
                 WithoutUnknown(of("transaction_flag"))
          [] s.n = "timestamp" /\ "int of timestamp" \in changes -> IntTime(of("timestamp"))
          [] OTHER -> of(s.n)

Refitted(c, msg, fields) ==
    Compose(msg.type, c.cls, AtLeastZero(SizeOf(msg)), LAMBDA s : Changed(c.changes, fields, s))

Converted(c, msg) ==
    CASE c.kind = "same" -> msg
      [] c.kind = "bytes" -> Spliced(c, msg, rawbytes(msg))
      [] c.kind = "nodes" -> Extended(c, msg, rawbytes(msg), NodesIn(c, rawbytes(msg)))
      [] c.kind = "fields" -> Refitted(c, msg, Fields(msg))

\* Mutant: the header keeps the length of the current version.
convert_first_bytes_to_v8SameLength(head) ==
    Header(MsgType(head), PayloadLen(head)) \o Slice(head, 20, 72) \o From(head, 76)

\* Cut-through: the head of a message is converted before the rest has arrived.
convert_first_bytes_to_v8(head) ==
    Header(MsgType(head), PayloadLen(head) - 4) \o Slice(head, 20, 72) \o From(head, 76)

convert_first_bytes_from_v8(head) ==
    Header(MsgType(head), PayloadLen(head) + 4) \o Slice(head, 20, 72) \o BlockType \o From(head, 72)

-----------------------------------------------------------------------------
(* The version manager                                                     *)

ConversionRaises(version, msg) ==
    version < CURRENT_PROTOCOL_VERSION /\ Misread(Converter(version, msg.type).from, rawbytes(msg))

convert_message_from_older_version(version, msg) == Converted(Converter(version, msg.type).from, msg)

\* Converted messages are kept in the message that they were made from, but only a
\* transaction message is looked up there. The result is the converted message.
convert_message_to_older_version(version, msg, converted_message) ==
    IF msg.type = "tx" /\ version \in DOMAIN converted_message THEN converted_message[version]
    ELSE Converted(Converter(version, msg.type).to, msg)

STARTING_SEQUENCE_BYTES == SubSeq(Header("hello", 0), 1, 4)

\* NonVersionMessageError: the caller closes, as on a version that is not supported.
NonVersionMessage == 0

\* Until the hello has its version, the current one is assumed, and also when another
\* message comes first, unless it is a request of HTTP or of bitcoin.
VersionIn(b, header) ==
    IF b.length < HEADER_LENGTH + 4 THEN CURRENT_PROTOCOL_VERSION
    ELSE IF Slice(header, 0, 4) # STARTING_SEQUENCE_BYTES /\ header[1].n = "http" THEN NonVersionMessage
    ELSE IF MsgType(header) # "hello" THEN CURRENT_PROTOCOL_VERSION
    ELSE IF PayloadLen(header) < 12 THEN 1
    ELSE Decode(VersionMessage[1], GetSlice(b, HEADER_LENGTH, HEADER_LENGTH + 4))

get_connection_protocol_version(b) == VersionIn(b, PeekMessage(b, HEADER_LENGTH))

=============================================================================
