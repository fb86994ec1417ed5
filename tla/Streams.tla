------------------------------- MODULE Streams -------------------------------
(***************************************************************************)
(* The streams of t_stream.c: a character is read, or put back in front of *)
(* what has not been read.  filestream.c passes both on to stdio, which    *)
(* guarantees room for one character that was put back; stringstream.c     *)
(* writes it over the characters that it has given out already, and so     *)
(* takes back as many as it gave.                                          *)
(*                                                                         *)
(* A stream is a record: for a file, `text' is what nobody has read and    *)
(* `pushed' what was put back; for a string, `text' is the copy of the     *)
(* string and `index' how much of it has been read.                        *)
(***************************************************************************)
EXTENDS Integers, Sequences

EOF == "EOF"
NUL == "NUL"     \* the '\0' at the end of a string

make_filestream(text) ==
  [kind |-> "file", text |-> text, index |-> 0, pushed |-> <<>>]

(* A stream of size - 1 characters, for a string that fits in size with its*)
(* '\0'.  (There is no stream for one that does not.)  When size is larger  *)
(* than needed, the '\0' is read as a character, and after it what malloc   *)
(* left there, `left'.                                                      *)
make_stringstream(str, left, size) ==
  [kind |-> "string", text |-> SubSeq(str \o <<NUL>> \o left, 1, size - 1),
   index |-> 0, pushed |-> <<>>]

(* What will be read from s, if nothing is put back.                       *)
Unread(s) == s.pushed \o SubSeq(s.text, s.index + 1, Len(s.text))

(* The character that is read, and the stream afterwards.                  *)
stream_getc(s) ==
  IF Unread(s) = <<>> THEN [c |-> EOF, s |-> s]
  ELSE [c |-> Head(Unread(s)),
        s |-> IF s.kind = "string" THEN [s EXCEPT !.index = @ + 1]
              ELSE IF s.pushed # <<>> THEN [s EXCEPT !.pushed = Tail(@)]
              ELSE [s EXCEPT !.text = Tail(@)]]

(* stdio takes only the first of two characters put back in a row, and     *)
(* neither kind of stream takes EOF or a character before the first.       *)
stream_ungetc_Rewinds(c, s) ==       \* only moves the index
  IF s.kind = "string" THEN [s EXCEPT !.index = @ - 1] ELSE s

stream_ungetc(c, s) ==
  IF s.kind = "file" /\ s.pushed = <<>> THEN [s EXCEPT !.pushed = <<c>>]
  ELSE IF s.kind = "string" /\ s.index > 0
  THEN [s EXCEPT !.text[s.index] = c, !.index = @ - 1]
  ELSE s
=============================================================================
