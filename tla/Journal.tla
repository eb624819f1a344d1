------------------------------ MODULE Journal ------------------------------
(***************************************************************************)
(* journal/service.py: a file that every Journal instance opens for append *)
(* at each record, and what Journal.load makes of it.                      *)
(*                                                                         *)
(* A record is written as one text with its newline behind it.  The file   *)
(* is the sequence of the pieces that reached it: a whole "line", a "text" *)
(* whose newline is missing, or a "part" of a text.  The piece behind one  *)
(* that has no newline stands on the same line: nothing ever looks at the  *)
(* end of the file before it appends.                                      *)
(***************************************************************************)
EXTENDS Naturals, Sequences

Torn  == {"part", "text"}
Forms == Torn \cup {"line"}

Piece(entry, form) == [entry |-> entry, form |-> form]

\* The piece stands at the beginning of a line.
BeginsLine(file, k) == IF k = 1 THEN TRUE ELSE file[k - 1].form = "line"

\* The lines that are complete and hold one entry.
Finished(file) == {k \in DOMAIN file : file[k].form = "line" /\ BeginsLine(file, k)}

\* Journal.load raises at the first line it cannot parse; the last one may lack its newline.
Loads(file) ==
    \A k \in DOMAIN file : file[k].form = "line" \/ (k = Len(file) /\ file[k].form = "text")

\* The entries it returns when it does not raise.
Loaded(file) == [k \in DOMAIN file |-> file[k].entry]

\* Journal.record appends; written is what the operating system took of the text.
Appended(file, entry, form) == Append(file, Piece(entry, form))
=============================================================================
