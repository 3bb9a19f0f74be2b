------------------------------ MODULE Messages ------------------------------
(***************************************************************************)
(* Message objects: how they are made from values and from bytes, and what *)
(* their accessors read. A message has the type, the class, the buffer and *)
(* the payload length that the Python object has.                          *)
(***************************************************************************)
EXTENDS WireFormats

Layout(cls, n) ==
    CASE cls = "HelloMessage" -> HelloMessage
      [] cls = "AckMessage" -> AckMessage
      [] cls = "PingMessage" -> KeepAliveMessage
      [] cls = "PongMessage" -> PongMessage
      [] cls = "PongMessageV13" -> PongMessageV13
      [] cls = "BroadcastMessage" -> BroadcastMessage(n)
      [] cls = "BroadcastMessageV8" -> BroadcastMessageV8(n)
      [] cls = "TxMessage" -> TxMessage(n)
      [] cls = "TxMessageV6" -> TxMessageV6(n)
      [] cls = "TxMessageV7" -> TxMessageV7(n)
      [] cls = "TxMessageV15" -> TxMessageV15(n)
      [] cls = "TxMessageV17" -> TxMessageV17(n)
      [] cls = "TxMessageV19" -> TxMessageV19(n)
      [] cls = "TxMessageV20" -> TxMessageV20(n)
      [] cls = "TxMessageV21" -> TxMessageV21(n)
      [] cls = "GetTxsMessage" -> GetTxsMessage(n)
      [] cls = "TxsMessage" -> TxsMessage(n)
      [] cls = "GetTxContentsMessage" -> GetTxContentsMessage
      [] cls = "TxContentsMessage" -> TxContentsMessage(n)
      [] cls = "KeyMessage" -> KeyMessage
      [] cls = "BlockHoldingMessage" -> BlockHoldingMessage
      [] cls = "DisconnectRelayPeerMessage" -> DisconnectRelayPeerMessage
      [] cls = "TxServiceSyncReqMessage" -> TxServiceSyncReqMessage
      [] cls = "TxServiceSyncBlocksShortIdsMessage" -> TxServiceSyncBlocksShortIdsMessage(n)
      [] cls = "TxServiceSyncTxsMessage" -> TxServiceSyncTxsMessage(n)
      [] cls = "TxServiceSyncTxsMessageV6" -> TxServiceSyncTxsMessageV6(n)
      [] cls = "TxServiceSyncTxsMessageV15" -> TxServiceSyncTxsMessageV15(n)
      [] cls = "TxServiceSyncCompleteMessage" -> TxServiceSyncCompleteMessage
      [] cls = "BlockConfirmationMessage" -> BlockConfirmationMessage(n)
      [] cls = "TransactionCleanupMessage" -> TransactionCleanupMessage(n)
      [] cls = "NotificationMessage" -> NotificationMessage(n)
      [] cls = "BdnPerformanceStatsMessage" -> BdnPerformanceStatsMessage(n)
      [] cls = "BdnPerformanceStatsMessageV9" -> BdnPerformanceStatsMessageV9
      [] cls = "BdnPerformanceStatsMessageV10" -> BdnPerformanceStatsMessageV10
      [] cls = "BdnPerformanceStatsMessageV14" -> BdnPerformanceStatsMessageV14
      [] cls = "BdnPerformanceStatsMessageV16" -> BdnPerformanceStatsMessageV16
      [] cls = "BdnPerformanceStatsMessageV18" -> BdnPerformanceStatsMessageV18(n)
      [] cls = "RefreshBlockchainNetworkMessage" -> RefreshBlockchainNetworkMessage
      [] cls = "GetCompressedBlockTxsMessage" -> GetCompressedBlockTxsMessage(n)
      [] cls = "CompressedBlockTxsMessage" -> CompressedBlockTxsMessage(n)
      [] cls = "RoutingUpdateMessage" -> RoutingUpdateMessage(n)

-----------------------------------------------------------------------------
(* Message objects                                                         *)

Packed(type, cls, fields) ==
    [type |-> type, cls |-> cls, length |-> Len(fields) + 1,
     buf |-> Pack(type, Len(fields) + 1, Zeros(HEADER_LENGTH) \o fields \o <<Zero>>)]

EncodeAll(slots, Val(_)) == FoldLeft(LAMBDA bytes, s : bytes \o Encode(s, Val(s)), <<>>, slots)

\* A message made from values: Val gives the value of each field.
Compose(type, cls, n, Val(_)) == Packed(type, cls, EncodeAll(Layout(cls, n), Val))

\* A message made from bytes: the constructor computes the length from the buffer
\* and writes it to the header; the length passed is then kept beside the buffer.
initialize_class(type, cls, buf, length) ==
    [type |-> type, cls |-> cls, length |-> length,
     buf |-> Pack(type, Len(buf) - HEADER_LENGTH, buf)]

rawbytes(msg) == Slice(msg.buf, 0, msg.length + HEADER_LENGTH)

Offset(slots, i) == HEADER_LENGTH + Width(SubSeq(slots, 1, i - 1))

DecodeAt(s, off, raw) == Decode(s, Slice(raw, off, off + s.w))

\* How many items or raw bytes a message says it has; fixed is its layout without them.
CountIn(fixed, raw) ==
    IF \A i \in DOMAIN fixed : fixed[i].n # "count"
    THEN Len(raw) - 1 - HEADER_LENGTH - Width(fixed)
    ELSE LET at == CHOOSE i \in DOMAIN fixed : fixed[i].n = "count"
         IN  DecodeAt(fixed[at], Offset(fixed, at), raw)

SizeOf(msg) == CountIn(Layout(msg.cls, 0), rawbytes(msg))

FieldsAt(slots, raw) ==
    {[n |-> slots[i].n, k |-> slots[i].k, v |-> DecodeAt(slots[i], Offset(slots, i), raw)] :
        i \in DOMAIN slots}

AtLeastZero(n) == IF n < 0 THEN 0 ELSE n

\* What the accessors of a message return, field by field.
Fields(msg) == FieldsAt(Layout(msg.cls, AtLeastZero(SizeOf(msg))), rawbytes(msg))

\* A field that the message does not have is left at zero.
FieldValue(fields, s) ==
    LET same == {f \in fields : f.n = s.n /\ f.k = s.k}
    IN  IF same = {} THEN 0 ELSE (CHOOSE f \in same : TRUE).v

-----------------------------------------------------------------------------
(* Flags and times                                                         *)

Bit(x, b) == (x \div b) % 2 = 1

PAID_TX == 2

\* BroadcastMessageType.BLOCK
BLOCK == 1

FREE_DAILY_QUOTA == 1

PAID_DAILY_QUOTA == 2

get_quota_type(flag) == IF Bit(flag, PAID_TX) THEN PAID_DAILY_QUOTA ELSE FREE_DAILY_QUOTA

UNKNOWN_TRANSACTION_FLAGS == {32, 64, 128, 1024, 2048, 4096}

WithoutUnknown(flag) ==
    FoldLeft(LAMBDA x, b : IF Bit(x, b) THEN x - b ELSE x, flag, SetToSeq(UNKNOWN_TRANSACTION_FLAGS))

\* int() of a timestamp that counts tenths of a second.
IntTime(t) == IF t = Garbage THEN t ELSE (t \div 10) * 10

=============================================================================
