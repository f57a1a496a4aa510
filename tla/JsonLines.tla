----------------------------- MODULE JsonLines -----------------------------
(***************************************************************************)
(* agentmesh.storage.jsonl: a file of JSON lines that one thread appends to *)
(* while another reads it, and that a second process may append to as well. *)
(*                                                                          *)
(* A row is written, then its newline.  A small row and its newline leave   *)
(* the buffer together; a row larger than the buffer is written by itself,  *)
(* and a reader may see a first part of it.  The file is the sequence of    *)
(* its lines, a line the sequence of the pieces between two newlines.       *)
(***************************************************************************)
EXTENDS Sequences, Naturals

\* lines: what the file holds; open: its last line has no newline yet;
\* todo: what the append in progress has still to write.
EmptyLog == [lines |-> <<>>, open |-> FALSE, todo |-> <<>>]

Newline == [part |-> "newline"]
Piece(row, part) == [row |-> row, part |-> part]

\* Faulty: a small row reaches the file without its newline.
PutUnended(log, row) ==
    [log EXCEPT !.lines = Append(@, <<Piece(row, "whole")>>), !.open = TRUE]

\* One write of bytes: it goes to the end of the last line, or begins a line.
PutPiece(log, piece) ==
    IF piece = Newline THEN [log EXCEPT !.open = FALSE]
    ELSE IF log.open
         THEN [log EXCEPT !.lines[Len(log.lines)] = Append(@, piece)]
         ELSE [log EXCEPT !.lines = Append(@, <<piece>>), !.open = TRUE]

\* append_jsonl of a row that fits the buffer.
PutRow(log, row) == PutPiece(PutPiece(log, Piece(row, "whole")), Newline)

\* append_jsonl of a larger row, piece by piece.
BeginRow(log, row) ==
    [log EXCEPT !.todo = <<Piece(row, "start"), Piece(row, "rest"), Newline>>]

Writing(log) == log.todo # <<>>

ContinueRow(log) == [PutPiece(log, Head(log.todo)) EXCEPT !.todo = Tail(@)]

\* read_jsonl: every line must be one JSON object; blank lines are skipped.
IsRow(line) ==
    \/ /\ Len(line) = 1
       /\ line[1].part = "whole"
    \/ /\ Len(line) = 2
       /\ line = <<Piece(line[1].row, "start"), Piece(line[1].row, "rest")>>

Readable(log) == \A n \in DOMAIN log.lines : IsRow(log.lines[n])

RowsOf(log) == [n \in DOMAIN log.lines |-> log.lines[n][1].row]
=============================================================================
