--------------------------- MODULE VersionedLink ---------------------------
(***************************************************************************)
(* A node between two peers of other versions. The first peer says hello   *)
(* and sends a message in the format of its version; its bytes arrive in   *)
(* pieces. The connection finds out the version, takes messages from the   *)
(* input buffer, converts them, and the node passes the message on to the  *)
(* second peer, converted to the version of that one.                      *)
(*                                                                         *)
(* A scenario is one such course: what the first peer opens with (its      *)
(* hello, no hello, or a request of HTTP), the versions, the message,      *)
(* whether an abandoned message (a cut-through that was cancelled: its     *)
(* control flag is not set) comes before it, and the places where the      *)
(* stream is cut.                                                          *)
(***************************************************************************)
EXTENDS Versions

CONSTANTS
    Scenarios,
    MaxSends        \* how often the node passes a message on

VARIABLES
    scenario,
    delivered,          \* how many bytes of the stream have arrived
    inputbuf,
    conn,
    received,           \* the message last handled
    converted_message,  \* the conversions kept in it
    forwarded           \* the bytes sent to the second peer

linkVars == <<scenario, delivered, inputbuf, conn, received, converted_message, forwarded>>

None == [type |-> "None"]

Supported(version) ==
    IF version > CURRENT_PROTOCOL_VERSION THEN CURRENT_PROTOCOL_VERSION ELSE version

-----------------------------------------------------------------------------
(* What the first peer sends                                               *)

\* The values that the scenario's message has in the fields of its class.
Value(s, m) ==
    CASE s.w = 0 \/ s.n = "expiration" -> 0
      [] s.w > 0 /\ s.n \in {"count", "hashes_count"} -> m.n
      [] s.n \in {"transaction_flag", "short_id_flag"} -> m.flag
      [] s.n = "quota_type" -> get_quota_type(m.flag)
      [] s.n = "timestamp" -> IF s.w = 4 THEN IntTime(m.time) ELSE m.time
      [] s.n = "ip" -> m.ip
      [] s.n = "broadcast_type" -> m.broadcast_type
      [] s.w > 0 /\ s.n \notin {"count", "hashes_count", "transaction_flag", "short_id_flag",
                                "quota_type", "timestamp", "ip", "broadcast_type", "expiration"} -> 1

\* The peer's own: this node has no factory for version 22.
PeerFactory(version) == IF HasFactory(version) THEN Factory(version) ELSE bloxroute_message_factory_v22

SentMessage(c) ==
    Compose(c.type, PeerFactory(Supported(c.version)).mapping[c.type], c.m.n, LAMBDA s : Value(s, c.m))

Hello(version) ==
    Compose("hello", "HelloMessage", 0,
            LAMBDA s : IF s.n = "protocol_version" THEN version ELSE 1).buf

Ack == Compose("ack", "AckMessage", 0, LAMBDA s : 1).buf

Abandoned == [Ack EXCEPT ![Len(Ack)] = Zero]

\* What stands where a message has its length is far more than there are bytes.
HttpRequest ==
    Encode([n |-> "http", k |-> 0, w |-> 16], 1) \o Encode([n |-> "length", k |-> 0, w |-> 4], 10^9)
        \o Encode([n |-> "http", k |-> 0, w |-> 20], 1)

Stream(c) ==
    CASE c.opening = "http" -> HttpRequest
      [] c.opening = "no hello" -> SentMessage(c).buf
      [] c.opening = "hello" ->
             Hello(c.version)
                 \o (IF ~is_protocol_supported(c.version) THEN <<>>
                     ELSE Ack \o (IF c.cancelled THEN Abandoned ELSE <<>>) \o SentMessage(c).buf)

-----------------------------------------------------------------------------
(* The connection                                                          *)

\* Mutant: only the first piece is asked for the version.
SetProtocolVersionOnce(c) ==
    LET version == get_connection_protocol_version(inputbuf)
    IN  IF c.hello \/ Len(inputbuf.input_list) > 1 THEN c
        ELSE IF ~is_protocol_supported(version) THEN [c EXCEPT !.alive = FALSE]
        ELSE [c EXCEPT !.protocol_version = Supported(version)]

\* set_protocol_version_and_message_factory, asked again until the hello is handled.
SetProtocolVersion(c) ==
    LET version == get_connection_protocol_version(inputbuf)
    IN  IF c.hello THEN c
        ELSE IF ~is_protocol_supported(version) THEN [c EXCEPT !.alive = FALSE]
        ELSE [c EXCEPT !.protocol_version = Supported(version)]

MarkForClose(c) == [c EXCEPT !.alive = FALSE, !.processing = FALSE]

\* get_message_header_preview_from_input_buffer
Preview ==
    LET header == GetSlice(inputbuf, 0, HEADER_LENGTH)
    IN  IF inputbuf.length < HEADER_LENGTH THEN [is_full |-> FALSE, length |-> 0]
        ELSE [is_full |-> inputbuf.length >= PayloadLen(header) + HEADER_LENGTH,
              length |-> PayloadLen(header)]

StartsWell == inputbuf.length < 4 \/ GetSlice(inputbuf, 0, 4) = STARTING_SEQUENCE_BYTES

\* BloxrouteMessageValidator.validate, which has no size limits here.
Validates(preview) ==
    /\ StartsWell
    /\ preview.is_full =>
           LET last == preview.length + HEADER_LENGTH
           IN  GetSlice(inputbuf, last - 1, last) = <<VALID>>

MAX_BAD_MESSAGES == 3

ReportBadMessage(c) ==
    IF c.num_bad_messages = MAX_BAD_MESSAGES THEN MarkForClose(c)
    ELSE [c EXCEPT !.num_bad_messages = @ + 1]

create_message_from_buffer(c, buf) ==
    LET type == MsgType(buf)
    IN  initialize_class(type, ClassOf(c.protocol_version, type), buf, PayloadLen(buf))

PopNextMessage(c, buf) ==
    LET msg == create_message_from_buffer(c, buf)
    IN  IF c.protocol_version >= CURRENT_PROTOCOL_VERSION THEN msg
        ELSE convert_message_from_older_version(c.protocol_version, msg)

HandleHello(c) == [c EXCEPT !.hello = TRUE, !.num_bad_messages = 0]

HandleAck(c) == [c EXCEPT !.ack = TRUE, !.num_bad_messages = 0]

Handled(c, msg) ==
    CASE msg.type = "hello" -> HandleHello(c)
      [] msg.type = "ack" -> HandleAck(c)
      [] msg.type \notin {"hello", "ack"} ->
             IF c.hello /\ c.ack THEN [c EXCEPT !.num_bad_messages = 0] ELSE MarkForClose(c)

\* on_bytes_received: a piece is added and process_message starts.
OnBytesReceived ==
    LET stream == Stream(scenario)
        ends == {cut \in scenario.cuts : cut > delivered /\ cut < Len(stream)} \union {Len(stream)}
        end == CHOOSE e \in ends : \A other \in ends : e <= other
    IN  /\ ~conn.processing
        /\ conn.alive
        /\ delivered < Len(stream)
        /\ inputbuf' = AddBytes(inputbuf, SubSeq(stream, delivered + 1, end))
        /\ delivered' = end
        /\ conn' = [conn EXCEPT !.processing = TRUE]
        /\ UNCHANGED <<scenario, received, converted_message, forwarded>>

\* As much as pre_process_msg and the validator read of a message that is not full.
ReadSoFar ==
    IF inputbuf.length < HEADER_LENGTH THEN 4
    ELSE IF conn.hello \/ inputbuf.length < HEADER_LENGTH + 4 THEN HEADER_LENGTH
    ELSE HEADER_LENGTH + 4

\* One round of the loop of process_message: no full message yet.
WaitForMore ==
    LET c == SetProtocolVersion(conn)
    IN  /\ conn.processing
        /\ c.alive => HasFactory(c.protocol_version) /\ ~Preview.is_full
        /\ conn' = IF Validates([is_full |-> FALSE]) THEN [c EXCEPT !.processing = FALSE]
                   ELSE MarkForClose(conn)
        /\ inputbuf' = Shrunk(inputbuf, ReadSoFar)
        /\ UNCHANGED <<scenario, delivered, received, converted_message, forwarded>>

\* An exception while the message is not known to be full: a module cannot look at one.
UnableToRecover ==
    LET c == SetProtocolVersion(conn)
    IN  /\ conn.processing
        /\ c.alive
        /\ ~HasFactory(c.protocol_version)
        /\ conn' = MarkForClose(c)
        /\ inputbuf' = Shrunk(inputbuf, ReadSoFar)
        /\ UNCHANGED <<scenario, delivered, received, converted_message, forwarded>>

FullMessage ==
    /\ conn.processing
    /\ SetProtocolVersion(conn).alive
    /\ HasFactory(SetProtocolVersion(conn).protocol_version)
    /\ Preview.is_full

\* A full message that is not valid is removed.
CleanUpCurrentMsg ==
    /\ FullMessage
    /\ ~Validates(Preview)
    /\ inputbuf' = RemoveBytes(inputbuf, HEADER_LENGTH + Preview.length)
    /\ conn' = ReportBadMessage(SetProtocolVersion(conn))
    /\ UNCHANGED <<scenario, delivered, received, converted_message, forwarded>>

\* The conversion has raised after the message was removed: one more bad message. If there
\* was no memory for the new one, the exception leaves the loop and ends the connection.
ConversionFails ==
    LET c == SetProtocolVersion(conn)
        size == HEADER_LENGTH + Preview.length
    IN  /\ FullMessage
        /\ Validates(Preview)
        /\ ConversionRaises(c.protocol_version,
                            create_message_from_buffer(c, RemovedBytes(inputbuf, size)))
        /\ inputbuf' = RemoveBytes(inputbuf, size)
        /\ conn' \in {ReportBadMessage(c), MarkForClose(c)}
        /\ UNCHANGED <<scenario, delivered, received, converted_message, forwarded>>

ProcessMessage ==
    LET c == SetProtocolVersion(conn)
        size == HEADER_LENGTH + Preview.length
        buf == RemovedBytes(inputbuf, size)
    IN  /\ FullMessage
        /\ Validates(Preview)
        /\ ~ConversionRaises(c.protocol_version, create_message_from_buffer(c, buf))
        /\ inputbuf' = RemoveBytes(inputbuf, size)
        /\ LET msg == PopNextMessage(c, buf)
           IN  /\ conn' = Handled(c, msg)
               /\ received' = IF msg.type \in {"hello", "ack"} \/ ~(c.hello /\ c.ack) THEN None ELSE msg
        /\ converted_message' = <<>>
        /\ UNCHANGED <<scenario, delivered, forwarded>>

-----------------------------------------------------------------------------
(* The second connection                                                   *)

\* InternalNodeConnection.enqueue_msg on the connection to the second peer.
EnqueueMsg ==
    LET to == scenario.to
        converted == convert_message_to_older_version(to, received, converted_message)
    IN  /\ received # None
        /\ Len(forwarded) < MaxSends
        /\ to # 0
        /\ IF to < CURRENT_PROTOCOL_VERSION
           THEN /\ forwarded' = Append(forwarded, rawbytes(converted))
                /\ converted_message' = (to :> converted) @@ converted_message
           ELSE /\ forwarded' = Append(forwarded, rawbytes(received))
                /\ UNCHANGED converted_message
        /\ UNCHANGED <<scenario, delivered, inputbuf, conn, received>>

-----------------------------------------------------------------------------
LinkInit ==
    /\ scenario \in Scenarios
    /\ delivered = 0
    /\ inputbuf = EmptyBuffer
    /\ conn = [protocol_version |-> CURRENT_PROTOCOL_VERSION, hello |-> FALSE, ack |-> FALSE,
               alive |-> TRUE, processing |-> FALSE, num_bad_messages |-> 0]
    /\ received = None
    /\ converted_message = <<>>
    /\ forwarded = <<>>

LinkNext ==
    \/ OnBytesReceived \/ WaitForMore \/ UnableToRecover \/ CleanUpCurrentMsg
    \/ ConversionFails \/ ProcessMessage \/ EnqueueMsg

LinkSpec == LinkInit /\ [][LinkNext]_linkVars

-----------------------------------------------------------------------------
(* Properties                                                              *)

FlagFields == {"transaction_flag", "short_id_flag", "quota_type"}

\* What a class of the given version can hold of a field: whole seconds where it has
\* four bytes for the time, and until version 19 only the flags known then.
Held(version, type, f) ==
    IF f.n = "timestamp" /\ version \in MIN_SUPPORTED_PROTOCOL_VERSION..20 THEN IntTime(f.v)
    ELSE IF f.n = "transaction_flag" /\ version \in MIN_SUPPORTED_PROTOCOL_VERSION..19
         THEN WithoutUnknown(f.v)
    ELSE f.v

\* Fields that both classes have agree, a paid transaction stays paid, and nothing
\* is read from the wrong place.
Agree(version, type, sent, got) ==
    /\ \A g \in got : g.v # Garbage
    /\ \A f \in sent, g \in got :
           f.k = g.k =>
               /\ f.n = g.n => g.v = Held(version, type, f)
               /\ f.n \in FlagFields /\ g.n \in FlagFields => Bit(f.v, PAID_TX) = Bit(g.v, PAID_TX)

\* The whole stream has been read and the connection is up.
Settled == delivered = Len(Stream(scenario)) /\ ~conn.processing /\ conn.hello /\ conn.alive

\* The message is one whose conversion raises.
Unconvertible ==
    LET version == Supported(scenario.version)
    IN  is_protocol_supported(version) /\ HasFactory(version) /\ ConversionRaises(version, SentMessage(scenario))

FieldsAgree ==
    received # None =>
        /\ Agree(CURRENT_PROTOCOL_VERSION, received.type, Fields(SentMessage(scenario)), Fields(received))
        /\ \A i \in DOMAIN forwarded :
               LET class == ClassOf(scenario.to, received.type)
                   got == initialize_class(received.type, class, forwarded[i], PayloadLen(forwarded[i]))
               IN  Agree(scenario.to, received.type, Fields(received), Fields(got))

\* A message reaches the handlers, and then the second peer, with the fields that the
\* sender gave it: convert_message_from_older_version in pop_next_message and
\* convert_message_to_older_version in enqueue_msg lose no message but one whose conversion
\* raises, and no field that the classes on the way have, and every list is read back item
\* by item. It holds for the conversions that are not Wrong (MCVersionedLink).
FieldsArrive ==
    /\ FieldsAgree
    /\ Settled /\ ~Unconvertible /\ scenario.type \notin {"hello", "ack"} => received # None

\* The same of every conversion, and the message has as many bytes as it declares:
\* convert_message_from_older_version "Converts message from older version to current
\* version", and convert_message_to_older_version back.
AllArrive ==
    /\ FieldsAgree
    /\ received # None => Len(received.buf) = received.length + HEADER_LENGTH
    /\ Settled /\ scenario.type \notin {"hello", "ack"} => received # None

\* The input buffer of a peer that speaks the protocol always starts with a message, as
\* pop_next_message promises, and a peer whose version is supported and has a factory is
\* never closed on after its hello, however its bytes are cut and whatever was abandoned
\* before, unless a conversion raises; the messages passed on have the length that they
\* declare, so that the second peer stays in step too.
InStep ==
    /\ scenario.opening # "http" => StartsWell
    /\ scenario.opening = "hello" /\ is_protocol_supported(scenario.version)
           /\ HasFactory(Supported(scenario.version)) /\ ~Unconvertible => conn.alive
    /\ received # None => Len(received.buf) = received.length + HEADER_LENGTH
    /\ \A i \in DOMAIN forwarded : Len(forwarded[i]) = PayloadLen(forwarded[i]) + HEADER_LENGTH

\* A peer whose version is supported stays connected: get_message_factory_for_version
\* "Returns message factory for provided protocol version".
SupportedStaysOpen ==
    scenario.opening = "hello" /\ is_protocol_supported(scenario.version) => conn.alive

\* Once the hello is handled, the connection speaks the version of the peer, or its own
\* if that is older, although a hello that is cut before its version is first taken to
\* be of the current version; a peer that is not supported, or that opens with anything
\* else, gets no message handled and is closed on once its bytes have been read.
VersionAgreed ==
    /\ conn.hello => scenario.opening = "hello" /\ conn.protocol_version = Supported(scenario.version)
    /\ received # None => conn.hello /\ conn.ack
    /\ delivered = Len(Stream(scenario)) /\ ~conn.processing /\ conn.alive /\ scenario.opening # "hello"
           => scenario.type \in {"hello", "ack"}

\* Cut-through: converting the head of a broadcast as soon as it has come and passing on
\* the rest as it is gives the bytes of the converted message. The head must reach past
\* the broadcast type; the converter asks for less (four bytes).
CutThroughAgrees ==
    received # None /\ received.type = "broadcast" /\ scenario.to \in 6..21 =>
        LET raw == rawbytes(received)
            old == rawbytes(convert_message_to_older_version(scenario.to, received, <<>>))
        IN  \A cut \in {76, 77, Len(raw) - 1} :
                IF scenario.to > 8 THEN old = raw
                ELSE /\ convert_first_bytes_to_v8(Slice(raw, 0, cut)) \o From(raw, cut) = old
                     /\ convert_first_bytes_from_v8(Slice(old, 0, cut - 4)) \o From(old, cut - 4)
                            = [raw EXCEPT ![73] = BlockType[1], ![74] = BlockType[2],
                                          ![75] = BlockType[3], ![76] = BlockType[4]]

\* The preview of a broadcast that is still arriving tells the hash and the type that the
\* message will have, unless the first piece ends within the type: from the byte before
\* the type on, get_broadcast_message_preview says that the header is complete.
PreviewAgrees ==
    LET factory == Factory(conn.protocol_version)
        header == PeekMessage(inputbuf, 72)
        preview == get_broadcast_message_preview(factory, inputbuf)
    IN  /\ conn.ack
        /\ Len(header) >= 76
        /\ MsgType(header) = "broadcast"
        => /\ preview.is_full_header
           /\ preview.block_hash = 1
           /\ factory.preview = "typed" => preview.broadcast_type = scenario.m.broadcast_type

=============================================================================
