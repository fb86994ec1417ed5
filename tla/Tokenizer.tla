------------------------------ MODULE Tokenizer ------------------------------
(***************************************************************************)
(* get_token of token.c and the functions it goes on with: read_plus_minus,*)
(* readsymbol, readnumber and readstring.  A step reads one character from *)
(* the stream, in the function that tpc names; get_token is called by      *)
(* Calls_get_token and leaves its return code in ret.  The module has no   *)
(* specification of its own: TokenLoop and Reader call it.                 *)
(*                                                                         *)
(* Characters are those of Chars; all letters that are only good for       *)
(* symbols are alike, and so are all characters that no token begins with. *)
(* `int' and `long' have any width, 32 and 64 bits in the program.         *)
(* (A name with a suffix is a mistaken variant of the definition after it.)*)
(***************************************************************************)
EXTENDS Streams, SequencesExt

CONSTANTS
  Chars,              \* bound: the characters of texts
  MAX_TOKEN_LENGTH,   \* of token.h
  IntMax,             \* INT32_MAX
  LongMax             \* LONG_MAX

DigitChars == <<"0", "1", "2", "3", "4", "5", "6", "7", "8", "9">>
Digits     == ToSet(DigitChars)
Signs      == {"+", "-"}
QUOTE      == "quote"
Letters    == {"a", "b", "!", "?", "*"}
Unknown    == {".", ",", "'", NUL}

ASSUME TokenizerAssumption ==
  /\ Chars \subseteq Digits \cup Signs \cup Letters \cup Unknown \cup {" ", "(", ")", QUOTE}
  /\ NUL \notin Chars
  /\ MAX_TOKEN_LENGTH \in Nat \ {0, 1}
  /\ IntMax \in Nat \ {0} /\ LongMax \in Nat /\ IntMax <= LongMax

VARIABLES
  stream,   \* the stream that is read
  tpc,      \* "idle", the function that reads, "returned", or "exited" by bail
  first,    \* the sign that read_plus_minus was called for
  buf,      \* the array token[], up to token_index
  tok,      \* *tok: [type, text, i_val]
  ret       \* what get_token returned last

tokenizerVars == <<stream, tpc, first, buf, tok, ret>>

UNSET   == "unset"     \* what the array held before: nobody has stored there
NoToken == [type |-> "none", text |-> <<>>, i_val |-> 0]

IntRange == (-IntMax - 1)..IntMax

Errors == {"ERROR_UNREDABLE_CHAR", "ERROR_UNPARSABLE_TOKEN", "ERROR_TOKEN_TO_LONG",
           "ERROR_MALFORMED_SYMBOL", "ERROR_MALFORMED_NUMBER", "ERROR_TOKEN_OVERFLOW",
           "EOOM"}
ReturnCodes == Errors \cup {"TOKEN_OK", "TOKEN_OK_EOF", "NO_TOKEN"}

isspace(c) == c = " "
isdigit(c) == c \in Digits
issymb(c)  == c \in Letters \cup Signs

(* isstop_pushback: the stream after it, which has the parenthesis again.  *)
isstop(c) == isspace(c) \/ c = ")"

pushback_Never(c, s) == s
pushback_EOF(c, s)   == IF c = ")" THEN stream_ungetc(c, s)
                        ELSE IF c = EOF THEN [s EXCEPT !.pushed = <<EOF>>] ELSE s
pushback(c, s)       == IF c = ")" THEN stream_ungetc(c, s) ELSE s

(* TOKEN_OK, or that the input ended with the token.                       *)
CodeAt(c) == IF c = EOF THEN "TOKEN_OK_EOF" ELSE "TOKEN_OK"

(***************************************************************************)
(* The value of a number.  strtol stops at the largest long; the           *)
(* assignment to i_val keeps the bits of an int.                           *)
(***************************************************************************)
DigitValue(c) == CHOOSE d \in 0..9 : DigitChars[d + 1] = c

Magnitude(text) ==
  FoldLeft(LAMBDA n, c : IF isdigit(c) THEN 10 * n + DigitValue(c) ELSE n, 0, text)

Value(text) == IF Head(text) = "-" THEN -Magnitude(text) ELSE Magnitude(text)

strtol(text) ==
  LET v == Value(text)
  IN  IF v > LongMax THEN LongMax ELSE IF v < -LongMax - 1 THEN -LongMax - 1 ELSE v

CutToInt(v) == ((v + IntMax + 1) % (2 * (IntMax + 1))) - IntMax - 1

(* INT32_MAX and INT32_MIN may be what an overflow has left: only the text *)
(* tells, which has no leading zeros.  At a limit the code is TOKEN_OK even *)
(* if the input has ended.                                                 *)
AtLimit_MaxOnly(v) == v = IntMax
AtLimit(v)         == v = IntMax \/ v = -IntMax - 1

(* An unset part of the text may turn out as any number, or as none.       *)
NumberTokens(text) ==
  IF UNSET \in ToSet(text) THEN IntRange
  ELSE {v \in IntRange : v = CutToInt(strtol(text))}

NumberCodes(text, v, c) ==
  IF ~AtLimit(v) THEN {CodeAt(c)}
  ELSE IF UNSET \in ToSet(text) THEN {"TOKEN_OK", "ERROR_TOKEN_OVERFLOW"}
  ELSE IF Value(text) = v THEN {"TOKEN_OK"} ELSE {"ERROR_TOKEN_OVERFLOW"}

-----------------------------------------------------------------------------
(* Nobody looks at what a call before has left in *tok.                    *)
Calls_get_token ==
  tpc' = "get_token" /\ buf' = <<>> /\ first' = "none" /\ tok' = NoToken /\ ret' = "none"

(* The character that the step reads, and the stream afterwards.           *)
Next_char == stream_getc(stream)

Continues(s, pc, chars) ==
  /\ stream' = s /\ tpc' = pc /\ buf' = chars
  /\ UNCHANGED <<first, tok, ret>>

Fails(s, error) ==
  /\ stream' = s /\ tpc' = "returned" /\ ret' = error
  /\ UNCHANGED <<first, buf, tok>>

Returns(s, token, code) ==
  /\ stream' = s /\ tpc' = "returned" /\ ret' = code /\ tok' = token
  /\ UNCHANGED <<first, buf>>

(* malloc_or_bail without memory.                                          *)
Bails == tpc' = "exited" /\ UNCHANGED <<stream, first, buf, tok, ret>>

Token(type, text, i_val) == [type |-> type, text |-> text, i_val |-> i_val]

AnotherChar_OneMore == Len(buf) <= MAX_TOKEN_LENGTH
AnotherChar         == Len(buf) < MAX_TOKEN_LENGTH

CloseParen_PutBack(s) ==
  Returns(stream_ungetc(")", s), Token("TOKEN_RPAREN", <<")">>, 0), "TOKEN_OK")
CloseParen(s) == Returns(s, Token("TOKEN_RPAREN", <<")">>, 0), "TOKEN_OK")

(* The loop of get_token reads a character before it looks at the index.   *)
(* An unknown character moves the index on, and stores nothing.            *)
get_token ==
  /\ tpc = "get_token"
  /\ LET c == Next_char.c  s == Next_char.s  InLoop == c # EOF /\ AnotherChar IN
     \/ c = EOF /\ Fails(s, IF buf = <<>> THEN "NO_TOKEN" ELSE "TOKEN_OK_EOF")
     \/ c # EOF /\ ~InLoop /\ Fails(s, "ERROR_TOKEN_TO_LONG")
     \/ InLoop /\ isspace(c) /\ Continues(s, "get_token", buf)
     \/ /\ InLoop /\ c \in Signs
        /\ stream' = s /\ tpc' = "read_plus_minus" /\ first' = c
        /\ UNCHANGED <<buf, tok, ret>>
     \/ InLoop /\ isdigit(c) /\ c # "0" /\ Continues(s, "readnumber", Append(buf, c))
     \/ InLoop /\ c = "0" /\ Continues(s, "zero", buf)
     \/ InLoop /\ c \in Letters /\ Continues(s, "readsymbol", Append(buf, c))
     \/ InLoop /\ c = "(" /\ Returns(s, Token("TOKEN_LPAREN", <<"(">>, 0), "TOKEN_OK")
     \/ InLoop /\ c = ")" /\ CloseParen(s)
     \/ InLoop /\ c = QUOTE /\ Continues(s, "readstring", buf)
     \/ InLoop /\ c \in Unknown /\ Continues(s, "get_token", Append(buf, UNSET))

(* A '0' of get_token: it must be the whole number, and not the last       *)
(* character of the input either.                                          *)
zero ==
  /\ tpc = "zero"
  /\ LET c == Next_char.c  s == Next_char.s IN
     \/ isstop(c) /\ Returns(pushback(c, s), Token("TOKEN_NUMBER", <<"0">>, 0), "TOKEN_OK")
     \/ ~isstop(c) /\ Fails(s, "ERROR_MALFORMED_NUMBER")

(* The symbol of one sign does not come from the array.                    *)
read_plus_minus ==
  /\ tpc = "read_plus_minus"
  /\ LET c == Next_char.c  s == Next_char.s IN
     \/ /\ isstop(c) \/ c = EOF
        /\ Returns(pushback(c, s), Token("TOKEN_SYMBOL", <<first>>, 0), "TOKEN_OK") \/ Bails
     \/ isdigit(c) /\ c # "0" /\ Continues(s, "readnumber", buf \o <<first, c>>)
     \/ issymb(c) /\ Continues(s, "readsymbol", buf \o <<first, c>>)
     \/ /\ ~isstop(c) /\ c # EOF /\ ~(isdigit(c) /\ c # "0") /\ ~issymb(c)
        /\ Fails(s, "ERROR_UNPARSABLE_TOKEN")

HasRoom == Len(buf) < MAX_TOKEN_LENGTH

readsymbol ==
  /\ tpc = "readsymbol"
  /\ LET c == Next_char.c  s == Next_char.s IN
     \/ ~HasRoom /\ Fails(stream, "ERROR_TOKEN_TO_LONG")
     \/ HasRoom /\ issymb(c) /\ Continues(s, "readsymbol", Append(buf, c))
     \/ /\ HasRoom /\ (isstop(c) \/ c = EOF)
        /\ \/ Returns(pushback(c, s), Token("TOKEN_SYMBOL", buf, 0), CodeAt(c))
           \/ Fails(pushback(c, s), "EOOM")
     \/ /\ HasRoom /\ ~issymb(c) /\ ~isstop(c) /\ c # EOF
        /\ Fails(s, "ERROR_MALFORMED_SYMBOL")

readnumber ==
  /\ tpc = "readnumber"
  /\ LET c == Next_char.c  s == Next_char.s IN
     \/ ~HasRoom /\ Fails(stream, "ERROR_TOKEN_TO_LONG")
     \/ /\ HasRoom /\ (isstop(c) \/ c = EOF)
        /\ \E v \in NumberTokens(buf) : \E code \in NumberCodes(buf, v, c) :
             Returns(pushback(c, s), Token("TOKEN_NUMBER", buf, v), code)
     \/ HasRoom /\ isdigit(c) /\ Continues(s, "readnumber", Append(buf, c))
     \/ /\ HasRoom /\ ~isstop(c) /\ c # EOF /\ ~isdigit(c)
        /\ Fails(s, "ERROR_MALFORMED_NUMBER")

(* Its index is one behind, so that a string is one longer than a symbol   *)
(* can be.  EOF is less than 0, and so unreadable.                         *)
readstring ==
  /\ tpc = "readstring"
  /\ LET c == Next_char.c  s == Next_char.s  Room == Len(buf) <= MAX_TOKEN_LENGTH IN
     \/ ~Room /\ Fails(stream, "ERROR_TOKEN_TO_LONG")
     \/ Room /\ c = EOF /\ Fails(s, "ERROR_UNREDABLE_CHAR")
     \/ /\ Room /\ c = QUOTE
        /\ Returns(s, Token("TOKEN_STRING", buf, 0), "TOKEN_OK") \/ Fails(s, "EOOM")
     \/ Room /\ c # EOF /\ c # QUOTE /\ Continues(s, "readstring", Append(buf, c))

Tokenize ==
  get_token \/ zero \/ read_plus_minus \/ readsymbol \/ readnumber \/ readstring

(* The types; there is a token only when get_token has returned; and until *)
(* its first character is known, nothing has been stored for it.           *)
TokenizerTypeOK ==
  /\ tpc \in {"idle", "get_token", "zero", "read_plus_minus", "readsymbol",
              "readnumber", "readstring", "returned", "exited"}
  /\ first \in Signs \cup {"none"}
  /\ buf \in Seq(Chars \cup {UNSET, NUL})
  /\ tok.type \in {"none", "TOKEN_LPAREN", "TOKEN_RPAREN", "TOKEN_SYMBOL",
                   "TOKEN_NUMBER", "TOKEN_STRING"}
  /\ tok.text \in Seq(Chars \cup {UNSET, NUL}) /\ tok.i_val \in IntRange
  /\ ret \in ReturnCodes \cup {"none"}
  /\ tpc # "returned" => tok = NoToken
  /\ tpc \in {"get_token", "zero", "read_plus_minus"} => ToSet(buf) \subseteq {UNSET}
  /\ \A c \in ToSet(Unread(stream)) : c \in Chars \cup {NUL}
=============================================================================
