---------------------------- MODULE InputBuffer ----------------------------
(***************************************************************************)
(* The input buffer of a connection: the pieces in which bytes arrived,    *)
(* joined only as far as a reader needs. An operator that reads returns    *)
(* what is read; Shrunk is what reading does to the list of pieces.        *)
(***************************************************************************)
EXTENDS Integers, Sequences, SequencesExt

EmptyBuffer == [input_list |-> <<>>, length |-> 0]

AddBytes(b, piece) ==
    [input_list |-> Append(b.input_list, piece), length |-> b.length + Len(piece)]

\* How many pieces are joined so that the first holds end bytes.
Joined(list, end) ==
    LET enough == {j \in 1..Len(list) : Len(FlattenSeq(SubSeq(list, 1, j))) >= end}
    IN  IF enough = {} THEN Len(list) ELSE CHOOSE j \in enough : \A i \in enough : j <= i

Shrunk(b, end) ==
    LET j == Joined(b.input_list, end)
    IN  IF b.input_list = <<>> THEN b
        ELSE [b EXCEPT !.input_list = <<FlattenSeq(SubSeq(@, 1, j))>> \o SubSeq(@, j + 1, Len(@))]

RemoveBytes(b, num_bytes) ==
    LET s == Shrunk(b, num_bytes)
    IN  IF b.input_list = <<>> \/ num_bytes = 0 THEN s
        ELSE [input_list |-> [s.input_list EXCEPT ![1] = SubSeq(@, num_bytes + 1, Len(@))],
              length |-> s.length - num_bytes]

RemovedBytes(b, num_bytes) ==
    LET first == Shrunk(b, num_bytes).input_list[1]
    IN  SubSeq(first, 1, IF num_bytes < Len(first) THEN num_bytes ELSE Len(first))

\* peek_message returns all of the first piece, which may be more than asked for.
PeekMessage(b, bytes_to_peek) ==
    LET n == IF bytes_to_peek > b.length THEN b.length ELSE bytes_to_peek
    IN  IF n = 0 THEN <<>> ELSE Shrunk(b, n).input_list[1]

GetSlice(b, start, end) ==
    LET first == Shrunk(b, end).input_list[1]
    IN  SubSeq(first, start + 1, IF end < Len(first) THEN end ELSE Len(first))

=============================================================================
