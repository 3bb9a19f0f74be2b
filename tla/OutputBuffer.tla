---------------------------- MODULE OutputBuffer ----------------------------
(***************************************************************************)
(* The way out of a connection: OutputBuffer, which holds small messages   *)
(* back for a while to send them together, and the socket protocol, which  *)
(* writes to a transport that can pause it.                                *)
(*                                                                         *)
(* Messages are numbered as they are enqueued; message m has Size[m]       *)
(* bytes, and its k-th byte is <<m, k>>.  min_size is the size of a batch. *)
(***************************************************************************)
EXTENDS Integers, Sequences

CONSTANTS Size, min_size

\* Every message has a header.
ASSUME OutputAssumption == Size \in Seq(Nat \ {0}) /\ min_size \in Nat

VARIABLES
    outputbuf,    \* output_msgs: the pieces to send; index: bytes sent of the first piece;
                  \* length; batch: last_bytearray up to valid_len; held_long: max_hold_time
                  \* has passed since the batch was begun; enable_buffering
    can_send,     \* of the protocol
    alive,
    enqueued,     \* how many messages have been enqueued
    prepended,    \* the ones among them that asked for the front
    written       \* all bytes given to the transport

output == <<outputbuf, can_send, alive, enqueued, prepended, written>>

Bytes(m) == [k \in 1..Size[m] |-> <<m, k>>]

-----------------------------------------------------------------------------
(* OutputBuffer                                                            *)

Flush(b) ==
    IF b.batch = <<>> THEN b
    ELSE [b EXCEPT !.output_msgs = Append(@, b.batch), !.batch = <<>>, !.held_long = FALSE]

\* Mutant: get_buffer does not look at the clock.
GetBufferHeld(b) == b

\* What get_buffer does before it returns what is left of the first piece.
GetBuffer(b) == IF b.enable_buffering /\ b.held_long THEN Flush(b) ELSE b

AdvanceBuffer(b, num_bytes) ==
    LET moved == [b EXCEPT !.index = @ + num_bytes, !.length = @ - num_bytes]
    IN  IF moved.index = Len(Head(b.output_msgs))
        THEN [moved EXCEPT !.output_msgs = Tail(@), !.index = 0]
        ELSE moved

EnqueueMsgbytes(b, bytes) ==
    LET sized == [b EXCEPT !.length = @ + Len(bytes)]
        batched == [sized EXCEPT !.batch = @ \o bytes]
    IN  IF ~b.enable_buffering THEN [sized EXCEPT !.output_msgs = Append(@, bytes)]
        ELSE IF Len(bytes) + Len(b.batch) > min_size
             THEN [Flush(sized) EXCEPT !.output_msgs = Append(@, bytes)]
        ELSE IF b.held_long THEN Flush(batched) ELSE batched

\* Mutant: the message goes before the first piece though part of that is sent.
PrependMsgbytesFirst(b, bytes) ==
    [b EXCEPT !.output_msgs = <<bytes>> \o @, !.length = @ + Len(bytes)]

PrependMsgbytes(b, bytes) ==
    [b EXCEPT !.length = @ + Len(bytes),
              !.output_msgs = IF b.index = 0 THEN <<bytes>> \o @
                                             ELSE <<Head(@), bytes>> \o Tail(@)]

\* All but what is left of a piece that is under way.
SafeEmpty(b) ==
    IF b.index # 0
    THEN [Flush(b) EXCEPT !.output_msgs = <<Head(@)>>, !.length = Len(Head(b.output_msgs)) - b.index]
    ELSE [Flush(b) EXCEPT !.output_msgs = <<>>, !.length = 0]

-----------------------------------------------------------------------------
(* The connection and the protocol                                         *)

\* The sequences in s joined into one.
Joined(s) ==
    LET upto[i \in 0..Len(s)] == IF i = 0 THEN <<>> ELSE upto[i - 1] \o s[i]
    IN  upto[Len(s)]

Unsent(b) ==
    IF b.output_msgs = <<>> THEN <<>>
    ELSE SubSeq(Head(b.output_msgs), b.index + 1, Len(Head(b.output_msgs)))
         \o Joined(Tail(b.output_msgs))

\* AbstractSocketConnectionProtocol.send with buffer b.  It writes one piece after the
\* other until there are none or transport.write has paused the protocol.
Send(b, can) ==
    IF alive /\ can
    THEN LET ready == GetBuffer(b)
             rest(k) == [ready EXCEPT !.output_msgs = SubSeq(@, k + 1, Len(@)), !.index = 0]
         IN  IF ready.output_msgs = <<>>
             THEN outputbuf' = ready /\ can_send' = can /\ UNCHANGED written
             ELSE \E k \in 1..Len(ready.output_msgs) :
                     /\ can_send' \in {FALSE, k = Len(ready.output_msgs)}
                     /\ LET sent == Unsent([ready EXCEPT !.output_msgs = SubSeq(@, 1, k)])
                        IN  /\ written' = written \o sent
                            /\ outputbuf' = [rest(k) EXCEPT !.length = @ - Len(sent)]
    ELSE outputbuf' = b /\ can_send' = can /\ UNCHANGED written

\* enqueue_msg and enqueue_msg_bytes of a connection.
EnqueueMsg(prepend) ==
    /\ enqueued < Len(Size) /\ alive
    /\ enqueued' = enqueued + 1
    /\ prepended' = prepended \cup IF prepend THEN {enqueued'} ELSE {}
    /\ Send(IF prepend THEN PrependMsgbytes(outputbuf, Bytes(enqueued'))
                       ELSE EnqueueMsgbytes(outputbuf, Bytes(enqueued')), can_send)
    /\ UNCHANGED alive

FlushAllSendBuffers ==
    /\ can_send
    /\ Send(outputbuf, can_send)
    /\ UNCHANGED <<alive, enqueued, prepended>>

DisableBuffering ==
    /\ outputbuf.enable_buffering
    /\ Send([Flush(outputbuf) EXCEPT !.enable_buffering = FALSE], can_send)
    /\ UNCHANGED <<alive, enqueued, prepended>>

\* Called by the transport when its own buffer has drained.
ResumeWriting ==
    /\ alive /\ ~can_send
    /\ Send(outputbuf, TRUE)
    /\ UNCHANGED <<alive, enqueued, prepended>>

\* AbstractNode.get_bytes_to_send and on_bytes_sent, for a transport that takes
\* num_bytes of what it is offered.
BytesSent(num_bytes) ==
    /\ alive
    /\ LET ready == GetBuffer(outputbuf)
       IN  /\ ready.output_msgs # <<>>
           /\ ready.index + num_bytes <= Len(Head(ready.output_msgs))
           /\ outputbuf' = AdvanceBuffer(ready, num_bytes)
           /\ written' = written \o SubSeq(Head(ready.output_msgs), ready.index + 1,
                                           ready.index + num_bytes)
    /\ UNCHANGED <<can_send, alive, enqueued, prepended>>

Empty ==
    /\ outputbuf' = SafeEmpty(outputbuf)
    /\ UNCHANGED <<can_send, alive, enqueued, prepended, written>>

HoldTimePasses ==
    /\ outputbuf.batch # <<>> /\ ~outputbuf.held_long
    /\ outputbuf' = [outputbuf EXCEPT !.held_long = TRUE]
    /\ UNCHANGED <<can_send, alive, enqueued, prepended, written>>

MarkForClose ==
    /\ alive /\ alive' = FALSE
    /\ UNCHANGED <<outputbuf, can_send, enqueued, prepended, written>>

-----------------------------------------------------------------------------
OutputInit ==
    /\ outputbuf = [output_msgs |-> <<>>, index |-> 0, length |-> 0, batch |-> <<>>,
                    held_long |-> FALSE, enable_buffering |-> TRUE]
    /\ can_send = TRUE /\ alive = TRUE
    /\ enqueued = 0 /\ prepended = {} /\ written = <<>>

OutputNext ==
    \/ \E prepend \in BOOLEAN : EnqueueMsg(prepend)
    \/ FlushAllSendBuffers \/ DisableBuffering \/ ResumeWriting
    \/ \E m \in DOMAIN Size : BytesSent(Size[m])
    \/ Empty \/ HoldTimePasses \/ MarkForClose

\* Time passes and the node's alarm flushes its buffers again and again.
OutputSpec ==
    /\ OutputInit /\ [][OutputNext]_output
    /\ WF_output(HoldTimePasses) /\ WF_output(FlushAllSendBuffers)

-----------------------------------------------------------------------------
\* What has been written and what is still to come are whole messages one after the
\* other, in the order they were enqueued but for the ones that asked for the front,
\* and length counts the bytes to come: no batch, partial send, prepended message or
\* emptied buffer tears a message apart.
WholeMessages ==
    LET pending == Unsent(outputbuf) \o outputbuf.batch
        all == written \o pending
        size(i) == Size[all[i][1]]
    IN  /\ outputbuf.length = Len(pending)
        /\ all # <<>> => all[1][2] = 1 /\ all[Len(all)][2] = size(Len(all))
        /\ \A i \in 1..(Len(all) - 1) :
              IF all[i][2] < size(i) THEN all[i + 1] = <<all[i][1], all[i][2] + 1>>
                                     ELSE all[i + 1][2] = 1
        /\ \A i, j \in DOMAIN all :
              i < j /\ {all[i][1], all[j][1]} \cap prepended = {} => all[i][1] <= all[j][1]

\* Bytes that are held back leave by themselves, with no further message to push them
\* out, as long as the transport can take them.
HeldBytesLeave == []<>(~alive \/ ~can_send \/ outputbuf.length = 0)

=============================================================================
