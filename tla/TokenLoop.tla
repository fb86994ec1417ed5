------------------------------ MODULE TokenLoop ------------------------------
(***************************************************************************)
(* The tokenizer on its own, called as dev-tools/test_token.c calls it:    *)
(* one token after the other until get_token returns anything but          *)
(* TOKEN_OK.  The text is in a file or in a string, and is made up while   *)
(* it is read; the memory of a string may be larger than it needs, and then*)
(* NUL and any characters follow.                                          *)
(***************************************************************************)
EXTENDS Tokenizer, FiniteSets

CONSTANT MaxText    \* bound: the length of the text

ASSUME TokenLoopAssumption == MaxText \in Nat

VARIABLES
  coming,   \* how many characters may come still; 0 at the end of the text
  start     \* history: what was unread when get_token was called

vars == <<tokenizerVars, coming, start>>

Init ==
  /\ stream \in {make_filestream(<<>>), make_stringstream(<<>>, <<>>, 1)}
  /\ tpc = "idle" /\ first = "none" /\ buf = <<>>
  /\ tok = NoToken /\ ret = "none"
  /\ coming = MaxText /\ start = <<>>

(* The next round of the loop: the payload of the last token is freed.     *)
Call ==
  /\ tpc = "idle" \/ (tpc = "returned" /\ ret = "TOKEN_OK")
  /\ Calls_get_token
  /\ start' = Unread(stream)
  /\ UNCHANGED <<stream, coming>>

Reading == tpc \notin {"idle", "returned", "exited"}

Comes ==
  /\ Reading /\ Unread(stream) = <<>> /\ coming > 0
  /\ \/ \E c \in Chars \cup (IF stream.kind = "string" THEN {NUL} ELSE {}) :
          /\ stream' = [stream EXCEPT !.text = Append(@, c)]
          /\ start' = Append(start, c)
          /\ coming' = coming - 1
     \/ coming' = 0 /\ UNCHANGED <<stream, start>>
  /\ UNCHANGED <<tpc, first, buf, tok, ret>>

get_token_step ==
  /\ Reading /\ (Unread(stream) # <<>> \/ coming = 0)
  /\ Tokenize /\ UNCHANGED <<coming, start>>

Next == Call \/ Comes \/ get_token_step

(* The text is finite, and all there: no call waits for a character.       *)
Spec == Init /\ [][Next]_vars /\ WF_vars(Next)

-----------------------------------------------------------------------------
TypeOK == TokenizerTypeOK /\ start \in Seq(Chars \cup {NUL})

(* With only unknown characters before the end, TOKEN_OK_EOF has no token. *)
HasToken ==
  /\ tpc = "returned"
  /\ ret = "TOKEN_OK" \/ (ret = "TOKEN_OK_EOF" /\ ~(ToSet(buf) \subseteq {UNSET}))

(* As a token is written.                                                  *)
Spelling(t) == IF t.type = "TOKEN_STRING" THEN <<QUOTE>> \o t.text \o <<QUOTE>> ELSE t.text

Complete == UNSET \notin ToSet(tok.text)

(* A token is what the text says, and the next call goes on right behind   *)
(* it: the call has taken blanks (or characters that begin no token), the  *)
(* token and at most one blank, and no parenthesis that the readers of     *)
(* lists still have to see.  A token that began after an unknown character *)
(* is not Complete: it has an undefined beginning.                         *)
TokensCoverText ==
  HasToken /\ Complete =>
    \E skipped \in 0..Len(start), blank \in 0..1 :
      /\ \A i \in 1..skipped : start[i] \in Unknown \cup {" "}
      /\ start = SubSeq(start, 1, skipped) \o Spelling(tok)
                   \o [i \in 1..blank |-> " "] \o Unread(stream)

(* Nothing is stored outside of token[MAX_TOKEN_LENGTH + 1], the '\0' that *)
(* ends a symbol, a number or a string included.                           *)
BufferInBounds ==
  /\ Len(buf) <= MAX_TOKEN_LENGTH + 1
  /\ HasToken /\ tok.text = buf => Len(buf) <= MAX_TOKEN_LENGTH

(* Every number that an int can have is read as that number, the limits    *)
(* included, and the first ones beyond the limits are refused, although    *)
(* the test for an overflow looks at what is left of the value.            *)
NumberRead == tpc = "returned" /\ tok.type = "TOKEN_NUMBER" /\ tok.text = buf /\ Complete

IntsAreRead ==
  NumberRead /\ Value(buf) \in (-IntMax - 2)..(IntMax + 1) =>
    IF Value(buf) \in IntRange
    THEN ret # "ERROR_TOKEN_OVERFLOW" /\ tok.i_val = Value(buf)
    ELSE ret = "ERROR_TOKEN_OVERFLOW"

(* A text of any length and content comes to an end, or to an error.       *)
EveryTextEnds == <>(tpc = "exited" \/ (tpc = "returned" /\ ret # "TOKEN_OK"))

(* "NUMBER - i_val (= integer value of input)" (token.h:24).               *)
NumberIsItsValue ==
  NumberRead /\ ret \in {"TOKEN_OK", "TOKEN_OK_EOF"} => tok.i_val = Value(tok.text)
=============================================================================
