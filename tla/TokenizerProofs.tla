--------------------------- MODULE TokenizerProofs ---------------------------
(***************************************************************************)
(* What the two callers of the tokenizer need to know of it, for every     *)
(* MAX_TOKEN_LENGTH and every text.  That its functions stay inside of     *)
(* token[MAX_TOKEN_LENGTH + 1]: a step preserves Bounds, which says how    *)
(* much of the array each function may find in use.  What a stream leaves  *)
(* unread when it gives a character or takes one back.  And that a step    *)
(* preserves Types, which says what the array and the token contain.       *)
(***************************************************************************)
EXTENDS Tokenizer, SequenceTheorems, TLAPS

(* What is known of an array of which nobody has said what it contains.    *)
IsSequence(s) == s \in Seq({s[i] : i \in DOMAIN s})

LEMMA SequenceOf ==
  ASSUME NEW S, NEW s \in Seq(S)
  PROVE  IsSequence(s)
<1> DEFINE R == {s[i] : i \in DOMAIN s}
<1>1. Len(s) \in Nat /\ s \in [1..Len(s) -> S]
  OBVIOUS
<1>2. s \in [1..Len(s) -> R]
  BY <1>1
<1>3. s \in Seq(R)
  BY <1>1, <1>2, SeqDef
<1> QED BY <1>3 DEF IsSequence

LEMMA LenOfSequence ==
  ASSUME NEW s, IsSequence(s)
  PROVE  Len(s) \in Nat /\ DOMAIN s = 1..Len(s)
BY DEF IsSequence

LEMMA Appended ==
  ASSUME NEW s, NEW x, IsSequence(s)
  PROVE  /\ IsSequence(Append(s, x)) /\ Append(s, x) # <<>>
         /\ Len(Append(s, x)) = Len(s) + 1
<1> DEFINE S == {s[i] : i \in DOMAIN s} \cup {x}
<1>1. s \in Seq(S)
  BY DEF IsSequence
<1>2. Append(s, x) \in Seq(S) /\ Len(Append(s, x)) = Len(s) + 1
  BY <1>1
<1>3. Append(s, x) # <<>>
  BY <1>1, <1>2
<1> QED BY <1>2, <1>3, SequenceOf

LEMMA TwoMore ==
  ASSUME NEW s, NEW x, NEW y, IsSequence(s)
  PROVE  /\ IsSequence(s \o <<x, y>>)
         /\ Len(s \o <<x, y>>) = Len(s) + 2
<1> DEFINE S == {s[i] : i \in DOMAIN s} \cup {x, y}
<1>1. s \in Seq(S) /\ <<x, y>> \in Seq(S) /\ Len(<<x, y>>) = 2
  BY DEF IsSequence
<1>2. s \o <<x, y>> \in Seq(S) /\ Len(s \o <<x, y>>) = Len(s) + 2
  BY <1>1
<1> QED BY <1>2, SequenceOf

-----------------------------------------------------------------------------
(* Room that a function has when it is called, or when its loop goes round. *)
Room ==
  /\ Len(buf) <= MAX_TOKEN_LENGTH + 1
  /\ tpc = "get_token" => Len(buf) <= MAX_TOKEN_LENGTH
  /\ tpc \in {"zero", "read_plus_minus"} => Len(buf) < MAX_TOKEN_LENGTH

(* A token that has come back is one for which there was room, with the    *)
(* '\0' behind it.                                                         *)
TokenFits ==
  tpc = "returned" /\ ret \in {"TOKEN_OK", "TOKEN_OK_EOF"} /\ tok.text = buf
    => Len(buf) <= MAX_TOKEN_LENGTH

Bounds == IsSequence(buf) /\ Room /\ TokenFits

LEMMA Constants == MAX_TOKEN_LENGTH \in Nat /\ MAX_TOKEN_LENGTH >= 2
<1>1. MAX_TOKEN_LENGTH \in Nat \ {0, 1}
  BY TokenizerAssumption, Zenon
<1> QED BY <1>1

LEMMA Codes ==
  ASSUME NEW text, NEW v, NEW c
  PROVE  NumberCodes(text, v, c) \subseteq {"TOKEN_OK", "TOKEN_OK_EOF", "ERROR_TOKEN_OVERFLOW"}
BY DEF NumberCodes, CodeAt

(* A call begins with an empty array.                                      *)
LEMMA CallInBounds ==
  ASSUME Calls_get_token
  PROVE  Bounds'
<1>1. IsSequence(<<>>) /\ Len(<<>>) = 0
  <2>1. <<>> \in Seq({})
    OBVIOUS
  <2> QED BY <2>1, SequenceOf
<1> QED BY <1>1, Constants DEF Calls_get_token, Bounds, Room, TokenFits

(* A step that leaves the tokenizer alone.                                 *)
LEMMA IdleInBounds ==
  ASSUME Bounds, UNCHANGED <<tpc, buf, tok, ret>>
  PROVE  Bounds'
BY DEF Bounds, Room, TokenFits

(* The ways to end a step, from an array that has room.                    *)
LEMMA FailsInBounds ==
  ASSUME NEW s, NEW e, Fails(s, e), IsSequence(buf),
         Len(buf) <= MAX_TOKEN_LENGTH
           \/ (Len(buf) <= MAX_TOKEN_LENGTH + 1 /\ e \in Errors)
  PROVE  Bounds'
BY Constants, LenOfSequence DEF Fails, Bounds, Room, TokenFits, Errors

LEMMA ReturnsInBounds ==
  ASSUME NEW s, NEW t, NEW e, Returns(s, t, e), IsSequence(buf),
         Len(buf) <= MAX_TOKEN_LENGTH
  PROVE  Bounds'
BY Constants, LenOfSequence DEF Returns, Bounds, Room, TokenFits

LEMMA ContinuesInBounds ==
  ASSUME NEW s, NEW pc, NEW chars, Continues(s, pc, chars), IsSequence(chars),
         \/ pc \in {"readsymbol", "readnumber", "readstring"}
              /\ Len(chars) <= MAX_TOKEN_LENGTH + 1
         \/ pc = "get_token" /\ Len(chars) <= MAX_TOKEN_LENGTH
         \/ pc = "zero" /\ Len(chars) < MAX_TOKEN_LENGTH
  PROVE  Bounds'
BY Constants, LenOfSequence DEF Continues, Bounds, Room, TokenFits

LEMMA get_token_InBounds ==
  ASSUME Bounds, get_token
  PROVE  Bounds'
<1> DEFINE c == Next_char.c
           s == Next_char.s
<1>1. IsSequence(buf) /\ Len(buf) \in Nat /\ Len(buf) <= MAX_TOKEN_LENGTH
  BY LenOfSequence DEF Bounds, Room, get_token
<1>2. ASSUME NEW e, Fails(s, e)
      PROVE  Bounds'
  BY <1>1, <1>2, FailsInBounds
<1>3. ASSUME NEW t, Returns(s, t, "TOKEN_OK")
      PROVE  Bounds'
  BY <1>1, <1>3, ReturnsInBounds
<1>4. ASSUME NEW x, NEW pc \in {"get_token", "readnumber", "readsymbol"}, AnotherChar,
             Continues(s, pc, Append(buf, x))
      PROVE  Bounds'
  <2>1. IsSequence(Append(buf, x)) /\ Len(Append(buf, x)) = Len(buf) + 1
    BY <1>1, Appended
  <2>2. Len(Append(buf, x)) <= MAX_TOKEN_LENGTH
    BY <1>1, <1>4, <2>1, Constants DEF AnotherChar
  <2>3. Len(Append(buf, x)) <= MAX_TOKEN_LENGTH + 1
    BY <1>1, <2>1, <2>2, Constants
  <2>4. pc = "get_token" \/ pc \in {"readsymbol", "readnumber", "readstring"}
    BY <1>4
  <2> HIDE DEF s
  <2> QED BY <1>4, <2>1, <2>2, <2>3, <2>4, ContinuesInBounds
<1>5. ASSUME NEW pc \in {"get_token", "zero", "readstring"}, AnotherChar,
             Continues(s, pc, buf)
      PROVE  Bounds'
  BY <1>1, <1>5, Constants, ContinuesInBounds DEF AnotherChar
<1>6. ASSUME AnotherChar, tpc' = "read_plus_minus", UNCHANGED <<buf, tok, ret>>
      PROVE  Bounds'
  BY <1>1, <1>6, Constants DEF AnotherChar, Bounds, Room, TokenFits
<1> HIDE DEF c, s
<1> QED
  BY <1>2, <1>3, <1>4, <1>5, <1>6, Zenon DEF get_token, CloseParen, c, s

LEMMA zero_InBounds ==
  ASSUME Bounds, zero
  PROVE  Bounds'
<1>1. IsSequence(buf) /\ Len(buf) \in Nat /\ Len(buf) < MAX_TOKEN_LENGTH
  BY LenOfSequence DEF Bounds, Room, zero
<1>2. Len(buf) <= MAX_TOKEN_LENGTH
  BY <1>1, Constants
<1> QED BY <1>1, <1>2, FailsInBounds, ReturnsInBounds, Zenon DEF zero

LEMMA read_plus_minus_InBounds ==
  ASSUME Bounds, read_plus_minus
  PROVE  Bounds'
<1>1. IsSequence(buf) /\ Len(buf) \in Nat /\ Len(buf) < MAX_TOKEN_LENGTH
  BY LenOfSequence DEF Bounds, Room, read_plus_minus
<1>2. Len(buf) <= MAX_TOKEN_LENGTH
  BY <1>1, Constants
<1>3. ASSUME NEW x, NEW y, NEW s, NEW pc \in {"readnumber", "readsymbol"},
             Continues(s, pc, buf \o <<x, y>>)
      PROVE  Bounds'
  <2>1. IsSequence(buf \o <<x, y>>) /\ Len(buf \o <<x, y>>) = Len(buf) + 2
    BY <1>1, TwoMore
  <2>2. Len(buf \o <<x, y>>) <= MAX_TOKEN_LENGTH + 1
    BY <1>1, <2>1, Constants
  <2> QED BY <1>3, <2>1, <2>2, ContinuesInBounds
<1>4. ASSUME Bails
      PROVE  Bounds'
  BY <1>1, <1>4, Constants DEF Bails, Bounds, Room, TokenFits
<1> QED BY <1>1, <1>2, <1>3, <1>4, FailsInBounds, ReturnsInBounds, Zenon DEF read_plus_minus

(* The loops of symbols and of numbers, which have room for the '\0'.      *)
LEMMA LoopInBounds ==
  ASSUME Bounds, tpc \in {"readsymbol", "readnumber"}, NEW s,
         \/ \E e \in Errors : Fails(s, e)
         \/ HasRoom /\ \E t, e : Returns(s, t, e)
         \/ HasRoom /\ \E x : Continues(s, tpc, Append(buf, x))
  PROVE  Bounds'
<1>1. IsSequence(buf) /\ Len(buf) \in Nat /\ Len(buf) <= MAX_TOKEN_LENGTH + 1
  BY LenOfSequence DEF Bounds, Room
<1>2. ASSUME NEW x, HasRoom, Continues(s, tpc, Append(buf, x))
      PROVE  Bounds'
  <2>1. IsSequence(Append(buf, x)) /\ Len(Append(buf, x)) = Len(buf) + 1
    BY <1>1, Appended
  <2>2. Len(Append(buf, x)) <= MAX_TOKEN_LENGTH + 1
    BY <1>1, <1>2, <2>1, Constants DEF HasRoom
  <2> QED BY <1>2, <2>1, <2>2, ContinuesInBounds
<1>3. ASSUME NEW t, NEW e, HasRoom, Returns(s, t, e)
      PROVE  Bounds'
  <2>1. Len(buf) <= MAX_TOKEN_LENGTH
    BY <1>1, <1>3, Constants DEF HasRoom
  <2> QED BY <1>1, <1>3, <2>1, ReturnsInBounds
<1>4. ASSUME NEW e \in Errors, Fails(s, e)
      PROVE  Bounds'
  BY <1>1, <1>4, FailsInBounds
<1> QED BY <1>2, <1>3, <1>4

LEMMA readsymbol_InBounds ==
  ASSUME Bounds, readsymbol
  PROVE  Bounds'
<1>1. {"ERROR_TOKEN_TO_LONG", "EOOM", "ERROR_MALFORMED_SYMBOL"} \subseteq Errors
  BY DEF Errors
<1>2. tpc = "readsymbol"
  BY DEF readsymbol
<1> QED BY <1>1, <1>2, LoopInBounds, Zenon DEF readsymbol

LEMMA readnumber_InBounds ==
  ASSUME Bounds, readnumber
  PROVE  Bounds'
<1>1. {"ERROR_TOKEN_TO_LONG", "ERROR_MALFORMED_NUMBER"} \subseteq Errors
  BY DEF Errors
<1>2. tpc = "readnumber"
  BY DEF readnumber
<1> QED BY <1>1, <1>2, LoopInBounds, Zenon DEF readnumber

LEMMA readstring_InBounds ==
  ASSUME Bounds, readstring
  PROVE  Bounds'
<1>1. IsSequence(buf) /\ Len(buf) \in Nat /\ Len(buf) <= MAX_TOKEN_LENGTH + 1
  BY LenOfSequence DEF Bounds, Room
<1>2. {"ERROR_TOKEN_TO_LONG", "ERROR_UNREDABLE_CHAR", "EOOM"} \subseteq Errors
  BY DEF Errors
<1>3. ASSUME NEW s, NEW e \in Errors, Fails(s, e)
      PROVE  Bounds'
  BY <1>1, <1>3, FailsInBounds
<1>4. ASSUME Len(buf) <= MAX_TOKEN_LENGTH, NEW s, NEW x,
             Continues(s, "readstring", Append(buf, x))
      PROVE  Bounds'
  <2>1. IsSequence(Append(buf, x)) /\ Len(Append(buf, x)) = Len(buf) + 1
    BY <1>1, Appended
  <2>2. Len(Append(buf, x)) <= MAX_TOKEN_LENGTH + 1
    BY <1>1, <1>4, <2>1, Constants
  <2> QED BY <1>4, <2>1, <2>2, ContinuesInBounds
<1>5. ASSUME Len(buf) <= MAX_TOKEN_LENGTH, NEW s, NEW t, NEW e, Returns(s, t, e)
      PROVE  Bounds'
  BY <1>1, <1>5, ReturnsInBounds
<1> QED BY <1>2, <1>3, <1>4, <1>5, Zenon DEF readstring

(* Every step of the tokenizer.                                            *)
LEMMA TokenizeInBounds ==
  ASSUME Bounds, Tokenize
  PROVE  Bounds'
BY get_token_InBounds, zero_InBounds, read_plus_minus_InBounds, readsymbol_InBounds,
   readnumber_InBounds, readstring_InBounds DEF Tokenize

-----------------------------------------------------------------------------
(***************************************************************************)
(* The streams: what is read is the head of what was unread, and a         *)
(* parenthesis goes back right in front of it.                             *)
(***************************************************************************)
Input == Chars \cup {NUL}

IsStream(s) ==
  /\ s \in [kind : {"file", "string"}, text : Seq(Input), index : Nat, pushed : Seq(Input)]
  /\ s.kind = "file" => s.index = 0 /\ Len(s.pushed) <= 1
  /\ s.kind = "string" => s.pushed = <<>> /\ s.index <= Len(s.text)

(* A character has been read, so one can be put back.                      *)
HasGiven(s) ==
  /\ s.kind = "file" => s.pushed = <<>>
  /\ s.kind = "string" => s.index > 0

LEMMA InputProperties ==
  /\ EOF \notin Input /\ UNSET \notin Input
  /\ Input \subseteq Digits \cup Signs \cup Letters \cup Unknown \cup {" ", "(", ")", QUOTE}
<1>1. DigitChars \in Seq({"0", "1", "2", "3", "4", "5", "6", "7", "8", "9"})
  BY DEF DigitChars
<1>2. Digits \subseteq {"0", "1", "2", "3", "4", "5", "6", "7", "8", "9"}
  BY <1>1 DEF Digits, ToSet
<1> QED
  BY <1>2, TokenizerAssumption
  DEF Input, EOF, UNSET, NUL, Signs, Letters, Unknown, QUOTE

LEMMA UnreadOfFile ==
  ASSUME NEW s, IsStream(s), s.kind = "file"
  PROVE  /\ Unread(s) = s.pushed \o s.text
         /\ s.pushed = <<>> => Unread(s) = s.text
<1>1. s.index = 0 /\ s.text \in Seq(Input) /\ s.pushed \in Seq(Input)
  BY DEF IsStream
<1>2. SubSeq(s.text, 0 + 1, Len(s.text)) = s.text
  BY <1>1, SubSeqFull
<1>3. Unread(s) = s.pushed \o s.text
  BY <1>1, <1>2 DEF Unread
<1> QED BY <1>1, <1>3, ConcatEmptySeq

LEMMA UnreadOfString ==
  ASSUME NEW s, IsStream(s), s.kind = "string"
  PROVE  Unread(s) = SubSeq(s.text, s.index + 1, Len(s.text))
<1>1. /\ s.text \in Seq(Input) /\ s.pushed = <<>> /\ s.index \in Nat
      /\ Len(s.text) \in Nat
  BY DEF IsStream
<1>2. SubSeq(s.text, s.index + 1, Len(s.text)) \in Seq(Input)
  BY <1>1, SubSeqProperties
<1> QED BY <1>1, <1>2, ConcatEmptySeq DEF Unread

LEMMA UnreadIsText ==
  ASSUME NEW s, IsStream(s)
  PROVE  Unread(s) \in Seq(Input)
<1>1. /\ s.text \in Seq(Input) /\ s.pushed \in Seq(Input) /\ s.index \in Nat
      /\ Len(s.text) \in Nat
  BY DEF IsStream
<1>2. SubSeq(s.text, s.index + 1, Len(s.text)) \in Seq(Input)
  BY <1>1, SubSeqProperties
<1> QED BY <1>1, <1>2, ConcatProperties DEF Unread

LEMMA HeadAndTail ==
  ASSUME NEW S, NEW t \in Seq(S), t # <<>>
  PROVE  Head(t) \in S /\ Tail(t) \in Seq(S) /\ t = <<Head(t)>> \o Tail(t)
<1>1. Len(t) \in Nat /\ 1 \in 1..Len(t) /\ Len(t) \in 1..Len(t) /\ Head(t) = t[1]
  BY HeadTailProperties
<1>2. SubSeq(t, 1, Len(t)) = <<t[1]>> \o SubSeq(t, 1 + 1, Len(t))
  BY <1>1, SubSeqRecursiveFirst
<1>3. SubSeq(t, 1, Len(t)) = t /\ Tail(t) = SubSeq(t, 2, Len(t)) /\ 1 + 1 = 2
  BY SubSeqFull, TailIsSubSeq
<1> QED BY <1>1, <1>2, <1>3, HeadTailProperties

LEMMA OneElement ==
  ASSUME NEW S, NEW t \in Seq(S), t # <<>>, Len(t) <= 1
  PROVE  Head(t) \in S /\ Tail(t) = <<>> /\ t = <<Head(t)>>
<1> DEFINE n == Len(t)
<1>1. n \in Nat \ {0} /\ n <= 1
  BY EmptySeq
<1>2. n = 1
  <2> HIDE DEF n
  <2> QED BY <1>1
<1>3. Head(t) \in S /\ Tail(t) \in Seq(S) /\ Len(Tail(t)) = 0 /\ t = <<Head(t)>> \o Tail(t)
  <2>1. Len(Tail(t)) = n - 1
    BY HeadTailProperties
  <2>2. n - 1 = 0
    BY <1>2
  <2> QED BY <2>1, <2>2, HeadAndTail, Zenon
<1>4. Tail(t) = <<>>
  BY <1>3, EmptySeq
<1>5. <<Head(t)>> \in Seq(S)
  BY <1>3
<1> QED BY <1>3, <1>4, <1>5, ConcatEmptySeq

LEMMA Get ==
  ASSUME NEW s, IsStream(s)
  PROVE  LET c == stream_getc(s).c  t == stream_getc(s).s IN
         /\ IsStream(t)
         /\ Unread(s) = <<>> => c = EOF /\ t = s
         /\ Unread(s) # <<>> => /\ c \in Input /\ HasGiven(t)
                                /\ Unread(s) = <<c>> \o Unread(t)
<1> DEFINE c == stream_getc(s).c
           t == stream_getc(s).s
<1>0. /\ s \in [kind : {"file", "string"}, text : Seq(Input), index : Nat,
                pushed : Seq(Input)]
      /\ Len(s.text) \in Nat /\ Len(s.pushed) \in Nat
  BY DEF IsStream
<1>1. CASE Unread(s) = <<>>
  BY <1>1 DEF stream_getc
<1>2. CASE Unread(s) # <<>> /\ s.kind = "string"
  <2>1. c = Head(Unread(s)) /\ t = [s EXCEPT !.index = @ + 1]
    BY <1>2 DEF stream_getc
  <2>2. Unread(s) = SubSeq(s.text, s.index + 1, Len(s.text)) /\ s.index <= Len(s.text)
    BY <1>2, UnreadOfString DEF IsStream
  <2>3. s.index + 1 <= Len(s.text)
    <3>1. s.index + 1 > Len(s.text) => Unread(s) = <<>>
      BY <1>0, <2>2, SubSeqEmpty
    <3> QED BY <1>0, <1>2, <3>1
  <2>4. t.kind = "string" /\ t.text = s.text /\ t.index = s.index + 1 /\ t.pushed = <<>>
    BY <1>0, <1>2, <2>1 DEF IsStream
  <2>5. IsStream(t)
    BY <1>0, <1>2, <2>1, <2>3 DEF IsStream
  <2>6. Unread(t) = SubSeq(s.text, s.index + 1 + 1, Len(s.text))
    BY <2>4, <2>5, UnreadOfString
  <2>7. s.index + 1 \in 1..Len(s.text) /\ Len(s.text) \in (s.index + 1)..Len(s.text)
    BY <1>0, <2>3
  <2>8. Unread(s) = <<s.text[s.index + 1]>> \o Unread(t) /\ c = s.text[s.index + 1]
    <3>1. SubSeq(s.text, s.index + 1, Len(s.text))
            = <<s.text[s.index + 1]>> \o SubSeq(s.text, s.index + 1 + 1, Len(s.text))
      BY <1>0, <2>7, SubSeqRecursiveFirst
    <3>2. Head(SubSeq(s.text, s.index + 1, Len(s.text))) = s.text[s.index + 1]
      BY <1>0, <2>7, HeadTailOfSubSeq
    <3> HIDE DEF c, t
    <3> QED BY <2>1, <2>2, <2>6, <3>1, <3>2, Zenon
  <2>9. s.text[s.index + 1] \in Input
    BY <1>0, <2>7
  <2>10. HasGiven(t)
    BY <1>0, <2>4 DEF HasGiven
  <2> HIDE DEF c, t
  <2> QED BY <1>2, <2>5, <2>8, <2>9, <2>10 DEF c, t
<1>3. CASE Unread(s) # <<>> /\ s.kind = "file" /\ s.pushed # <<>>
  <2>1. c = Head(Unread(s)) /\ t = [s EXCEPT !.pushed = Tail(@)]
    BY <1>3 DEF stream_getc
  <2>2. Len(s.pushed) <= 1 /\ s.index = 0 /\ s.pushed \in Seq(Input) /\ s.pushed # <<>>
    BY <1>3 DEF IsStream
  <2>3. Tail(s.pushed) = <<>> /\ Head(s.pushed) \in Input
        /\ s.pushed = <<Head(s.pushed)>>
    BY <2>2, OneElement
  <2>4. t = [s EXCEPT !.pushed = <<>>]
    BY <2>1, <2>3
  <2>5. t.kind = "file" /\ t.text = s.text /\ t.index = 0 /\ t.pushed = <<>>
    BY <1>0, <1>3, <2>2, <2>4
  <2>6. t \in [kind : {"file", "string"}, text : Seq(Input), index : Nat,
               pushed : Seq(Input)]
    <3>1. <<>> \in Seq(Input)
      OBVIOUS
    <3> HIDE DEF t
    <3> QED BY <1>0, <2>4, <3>1
  <2>7. IsStream(t)
    BY <2>5, <2>6 DEF IsStream
  <2>8. Unread(t) = s.text /\ Unread(s) = <<Head(s.pushed)>> \o s.text
    BY <1>3, <2>3, <2>5, <2>7, UnreadOfFile
  <2>9. Head(<<Head(s.pushed)>> \o s.text) = Head(s.pushed)
    BY <1>0, <2>3
  <2> HIDE DEF c, t
  <2> QED BY <1>3, <2>1, <2>3, <2>5, <2>7, <2>8, <2>9 DEF HasGiven, c, t
<1>4. CASE Unread(s) # <<>> /\ s.kind = "file" /\ s.pushed = <<>>
  <2>1. c = Head(Unread(s)) /\ t = [s EXCEPT !.text = Tail(@)]
    BY <1>4 DEF stream_getc
  <2>2. Unread(s) = s.text /\ s.text # <<>>
    BY <1>4, UnreadOfFile
  <2>3. /\ Head(s.text) \in Input /\ Tail(s.text) \in Seq(Input)
        /\ s.text = <<Head(s.text)>> \o Tail(s.text)
    BY <1>0, <2>2, HeadAndTail
  <2>4. t.kind = "file" /\ t.text = Tail(s.text) /\ t.index = 0 /\ t.pushed = <<>>
    BY <1>0, <1>4, <2>1 DEF IsStream
  <2>5. t \in [kind : {"file", "string"}, text : Seq(Input), index : Nat,
               pushed : Seq(Input)]
    BY <1>0, <2>1, <2>3
  <2>6. IsStream(t)
    BY <2>4, <2>5 DEF IsStream
  <2>7. Unread(t) = Tail(s.text)
    BY <2>4, <2>6, UnreadOfFile
  <2> HIDE DEF c, t
  <2> QED BY <1>4, <2>1, <2>2, <2>3, <2>4, <2>6, <2>7 DEF HasGiven, c, t
<1>5. s.kind \in {"file", "string"}
  BY <1>0
<1> HIDE DEF c, t
<1> QED BY <1>1, <1>2, <1>3, <1>4, <1>5 DEF c, t

LEMMA Unget ==
  ASSUME NEW s, NEW c \in Input, IsStream(s), HasGiven(s)
  PROVE  /\ IsStream(stream_ungetc(c, s))
         /\ Unread(stream_ungetc(c, s)) = <<c>> \o Unread(s)
<1> DEFINE t == stream_ungetc(c, s)
<1>0. /\ s \in [kind : {"file", "string"}, text : Seq(Input), index : Nat,
                pushed : Seq(Input)]
      /\ Len(s.text) \in Nat
  BY DEF IsStream
<1>1. CASE s.kind = "file"
  <2>1. t = [s EXCEPT !.pushed = <<c>>] /\ s.index = 0 /\ s.pushed = <<>>
    BY <1>1 DEF stream_ungetc, HasGiven, IsStream
  <2>2. <<c>> \in Seq(Input) /\ Len(<<c>>) = 1
    OBVIOUS
  <2>3. t.kind = "file" /\ t.text = s.text /\ t.index = 0 /\ t.pushed = <<c>>
    BY <1>0, <1>1, <2>1
  <2>4. t \in [kind : {"file", "string"}, text : Seq(Input), index : Nat,
               pushed : Seq(Input)]
    BY <1>0, <2>1, <2>2
  <2>5. IsStream(t)
    BY <2>2, <2>3, <2>4 DEF IsStream
  <2>6. Unread(t) = <<c>> \o s.text /\ Unread(s) = s.text
    BY <1>1, <2>1, <2>3, <2>5, UnreadOfFile
  <2> QED BY <2>5, <2>6
<1>2. CASE s.kind = "string"
  <2>1. /\ s.index > 0 /\ s.index <= Len(s.text) /\ s.pushed = <<>>
        /\ t = [s EXCEPT !.text[s.index] = c, !.index = @ - 1]
    BY <1>2 DEF stream_ungetc, HasGiven, IsStream
  <2> DEFINE x == [s.text EXCEPT ![s.index] = c]
  <2>2. t.kind = "string" /\ t.text = x /\ t.index = s.index - 1 /\ t.pushed = <<>>
    BY <1>0, <1>2, <2>1
  <2>3. /\ x \in Seq(Input) /\ Len(x) = Len(s.text) /\ x[s.index] = c
        /\ \A i \in (s.index + 1)..Len(s.text) : x[i] = s.text[i]
    BY <1>0, <2>1
  <2> HIDE DEF x
  <2>4. t \in [kind : {"file", "string"}, text : Seq(Input), index : Nat,
               pushed : Seq(Input)]
    <3>1. t = [kind |-> s.kind, text |-> x, index |-> s.index - 1, pushed |-> s.pushed]
      BY <1>0, <2>1 DEF x
    <3> QED BY <1>0, <2>1, <2>3, <3>1
  <2>5. IsStream(t)
    BY <1>0, <2>1, <2>2, <2>3, <2>4 DEF IsStream
  <2>6. Unread(t) = SubSeq(x, s.index, Len(x))
    <3>1. Unread(t) = SubSeq(t.text, t.index + 1, Len(t.text))
      BY <2>2, <2>5, UnreadOfString
    <3>2. t.index + 1 = s.index
      BY <1>0, <2>2
    <3> HIDE DEF t
    <3> QED BY <2>2, <3>1, <3>2
  <2>7. SubSeq(x, s.index, Len(x)) = <<c>> \o SubSeq(x, s.index + 1, Len(x))
    <3>1. s.index \in 1..Len(x) /\ Len(x) \in s.index..Len(x)
      BY <1>0, <2>1, <2>3
    <3> QED BY <2>3, <3>1, SubSeqRecursiveFirst
  <2>8. SubSeq(x, s.index + 1, Len(x)) = SubSeq(s.text, s.index + 1, Len(s.text))
    <3> DEFINE m == s.index + 1
               n == Len(s.text)
               A == SubSeq(x, m, n)
               B == SubSeq(s.text, m, n)
    <3>1. m \in Int /\ n \in Int /\ m \in 1..(n + 1)
      BY <1>0, <2>1
    <3>2. (\A i \in m..n : x[i] \in Input) /\ (\A i \in m..n : s.text[i] \in Input)
      BY <1>0, <2>3
    <3>3. /\ A \in Seq(Input) /\ Len(A) = IF m <= n THEN n - m + 1 ELSE 0
          /\ \A i \in 1..n - m + 1 : A[i] = x[m + i - 1]
      BY <3>1, <3>2, SubSeqProperties
    <3>4. /\ B \in Seq(Input) /\ Len(B) = IF m <= n THEN n - m + 1 ELSE 0
          /\ \A i \in 1..n - m + 1 : B[i] = s.text[m + i - 1]
      BY <3>1, <3>2, SubSeqProperties
    <3>5. \A i \in 1..n - m + 1 : x[m + i - 1] = s.text[m + i - 1]
      <4> SUFFICES ASSUME NEW i \in 1..n - m + 1
                   PROVE  x[m + i - 1] = s.text[m + i - 1]
        OBVIOUS
      <4> DEFINE k == m + i - 1
      <4>1. k \in (s.index + 1)..Len(s.text)
        BY <1>0, <2>1
      <4> HIDE DEF k
      <4>2. x[k] = s.text[k]
        BY <2>3, <4>1
      <4> QED BY <4>2 DEF k
    <3>6. Len(A) = n - m + 1 /\ Len(B) = n - m + 1
      BY <3>1, <3>3, <3>4
    <3> HIDE DEF A, B, m, n
    <3>7. A = B
      BY <3>3, <3>4, <3>5, <3>6
    <3> QED BY <2>3, <3>7 DEF A, B, m, n
  <2>9. Unread(s) = SubSeq(s.text, s.index + 1, Len(s.text))
    BY <1>2, UnreadOfString
  <2> HIDE DEF t
  <2> QED BY <2>5, <2>6, <2>7, <2>8, <2>9 DEF t
<1> QED BY <1>0, <1>1, <1>2

(* What a step of get_token reads, and what isstop_pushback leaves.        *)
LEMMA NextCharacter ==
  ASSUME IsStream(stream), NEW c, NEW s, c = Next_char.c, s = Next_char.s
  PROVE  /\ IsStream(s) /\ IsStream(pushback(c, s))
         /\ \/ c = EOF /\ s = stream /\ Unread(stream) = <<>> /\ pushback(c, s) = s
            \/ c \in Input /\ Unread(stream) = <<c>> \o Unread(s)
         /\ c = ")" => Unread(pushback(c, s)) = Unread(stream)
         /\ c # ")" => pushback(c, s) = s
<1>1. /\ IsStream(s)
      /\ Unread(stream) = <<>> => c = EOF /\ s = stream
      /\ Unread(stream) # <<>> => /\ c \in Input /\ HasGiven(s)
                                  /\ Unread(stream) = <<c>> \o Unread(s)
  BY Get DEF Next_char
<1>2. c # ")" => pushback(c, s) = s
  BY DEF pushback
<1>3. c = ")" => c # EOF /\ pushback(c, s) = stream_ungetc(c, s)
  BY DEF pushback, EOF
<1>4. c = ")" => IsStream(pushback(c, s)) /\ Unread(pushback(c, s)) = Unread(stream)
  BY <1>1, <1>3, Unget
<1> QED BY <1>1, <1>2, <1>3, <1>4

-----------------------------------------------------------------------------
(***************************************************************************)
(* The types, and with them: before the first character of a token, the    *)
(* array holds nothing but the gaps that unknown characters left; until    *)
(* the call returns, *tok is empty; and a number that comes back has the   *)
(* value and the code that readnumber found for its text.                  *)
(***************************************************************************)
Stored == Input \cup {UNSET}

TokenTypes == {"none", "TOKEN_LPAREN", "TOKEN_RPAREN", "TOKEN_SYMBOL", "TOKEN_NUMBER",
               "TOKEN_STRING"}

Tokens == [type : TokenTypes, text : Seq(Stored), i_val : IntRange]

NumberRight(t, code) ==
  t.type = "TOKEN_NUMBER" /\ t.text = buf /\ UNSET \notin ToSet(t.text) =>
    /\ t.i_val = CutToInt(strtol(buf))
    /\ \E c : code \in NumberCodes(buf, t.i_val, c)

Types ==
  /\ IsStream(stream)
  /\ tpc \in {"idle", "get_token", "zero", "read_plus_minus", "readsymbol",
              "readnumber", "readstring", "returned", "exited"}
  /\ first \in (Signs \cap Input) \cup {"none"}
  /\ tpc = "read_plus_minus" => first # "none"
  /\ tpc = "zero" => "0" \in Input
  /\ buf \in Seq(Stored)
  /\ tpc \in {"get_token", "zero", "read_plus_minus"} => ToSet(buf) \subseteq {UNSET}
  /\ tok \in Tokens /\ ret \in ReturnCodes \cup {"none"}
  /\ tpc # "returned" => tok = NoToken
  /\ NumberRight(tok, ret)

LEMMA Ints ==
  /\ IntMax \in Nat /\ IntMax > 0 /\ LongMax \in Nat /\ IntMax <= LongMax
  /\ 0 \in IntRange
<1>1. IntMax \in Nat \ {0} /\ LongMax \in Nat /\ IntMax <= LongMax
  BY TokenizerAssumption, Zenon
<1> QED BY <1>1 DEF IntRange

LEMMA NoTokenIsToken == NoToken \in Tokens /\ NoToken.type = "none"
<1>1. 0 \in IntRange
  BY Ints
<1>2. <<>> \in Seq(Stored)
  OBVIOUS
<1> QED BY <1>1, <1>2 DEF NoToken, Tokens, TokenTypes

LEMMA TokenIsToken ==
  ASSUME NEW type \in TokenTypes, NEW text \in Seq(Stored), NEW v \in IntRange
  PROVE  /\ Token(type, text, v) \in Tokens /\ Token(type, text, v).type = type
         /\ Token(type, text, v).text = text /\ Token(type, text, v).i_val = v
BY DEF Token, Tokens

LEMMA TypesAreTypes == Types => TokenizerTypeOK
<1> SUFFICES ASSUME Types PROVE TokenizerTypeOK
  OBVIOUS
<1>1. Stored = Chars \cup {UNSET, NUL}
  BY DEF Stored, Input
<1>2. \A c \in ToSet(Unread(stream)) : c \in Chars \cup {NUL}
  <2>1. Unread(stream) \in Seq(Input)
    BY UnreadIsText DEF Types
  <2> QED BY <2>1 DEF ToSet, Input
<1>3. /\ tok.type \in {"none", "TOKEN_LPAREN", "TOKEN_RPAREN", "TOKEN_SYMBOL",
                       "TOKEN_NUMBER", "TOKEN_STRING"}
      /\ tok.text \in Seq(Chars \cup {UNSET, NUL}) /\ tok.i_val \in IntRange
  BY <1>1 DEF Types, Tokens, TokenTypes
<1>4. buf \in Seq(Chars \cup {UNSET, NUL})
  BY <1>1 DEF Types
<1>5. first \in Signs \cup {"none"}
  BY DEF Types
<1> QED BY <1>2, <1>3, <1>4, <1>5 DEF Types, TokenizerTypeOK

(* A call begins with nothing.                                             *)
LEMMA CallTypes ==
  ASSUME IsStream(stream'), Calls_get_token
  PROVE  Types'
<1>1. <<>> \in Seq(Stored) /\ ToSet(<<>>) = {}
  BY DEF ToSet
<1>2. NumberRight(NoToken, "none")'
  BY NoTokenIsToken DEF NumberRight
<1> QED BY <1>1, <1>2, NoTokenIsToken DEF Calls_get_token, Types, NumberRight

(* The ways to end a step.                                                 *)
LEMMA FailsTypes ==
  ASSUME Types, tpc # "returned", NEW s, IsStream(s), NEW e \in ReturnCodes, Fails(s, e)
  PROVE  Types'
BY NoTokenIsToken DEF Types, Fails, NumberRight

LEMMA ReturnsTypes ==
  ASSUME Types, NEW s, IsStream(s), NEW t \in Tokens, NEW e \in ReturnCodes,
         Returns(s, t, e), NumberRight(t, e)
  PROVE  Types'
BY DEF Types, Returns, NumberRight

LEMMA ContinuesTypes ==
  ASSUME Types, tpc # "returned", NEW s, IsStream(s),
         NEW pc \in {"get_token", "zero", "readsymbol", "readnumber", "readstring"},
         NEW chars \in Seq(Stored), Continues(s, pc, chars),
         pc \in {"get_token", "zero"} => ToSet(chars) \subseteq {UNSET},
         pc = "zero" => "0" \in Input
  PROVE  Types'
BY NoTokenIsToken DEF Types, Continues, NumberRight

(* The tokens of one character, which do not come from the array.          *)
LEMMA CharacterTypes ==
  ASSUME Types, ToSet(buf) \subseteq {UNSET}, NEW s, IsStream(s), NEW type \in TokenTypes,
         NEW c \in Input, NEW e \in ReturnCodes, Returns(s, Token(type, <<c>>, 0), e)
  PROVE  Types'
<1>1. <<c>> \in Seq(Stored) /\ 0 \in IntRange
  BY Ints DEF Stored
<1>2. <<c>> # buf
  <2>1. c # UNSET
    BY InputProperties
  <2>2. ASSUME <<c>> = buf
        PROVE  FALSE
    <3>1. 1 \in DOMAIN buf /\ buf[1] = c
      BY <2>2
    <3> QED BY <2>1, <3>1 DEF ToSet
  <2> QED BY <2>2
<1>3. NumberRight(Token(type, <<c>>, 0), e)
  <2>1. Token(type, <<c>>, 0).text = <<c>>
    BY DEF Token
  <2> QED BY <1>2, <2>1 DEF NumberRight
<1> QED BY <1>1, <1>3, TokenIsToken, ReturnsTypes

LEMMA AppendedTypes ==
  ASSUME NEW t \in Seq(Stored), NEW c \in Stored
  PROVE  /\ Append(t, c) \in Seq(Stored)
         /\ ToSet(Append(t, c)) = ToSet(t) \cup {c}
<1>1. Len(t) \in Nat /\ DOMAIN t = 1..Len(t) /\ DOMAIN Append(t, c) = 1..(Len(t) + 1)
  BY AppendProperties, LenProperties
<1>2. Append(t, c)[Len(t) + 1] = c /\ \A i \in 1..Len(t) : Append(t, c)[i] = t[i]
  BY AppendProperties
<1>3. 1..(Len(t) + 1) = 1..Len(t) \cup {Len(t) + 1}
  BY <1>1
<1> QED BY <1>1, <1>2, <1>3, AppendProperties DEF ToSet

LEMMA TwoMoreTypes ==
  ASSUME NEW t \in Seq(Stored), NEW a \in Stored, NEW c \in Stored
  PROVE  /\ t \o <<a, c>> \in Seq(Stored)
         /\ t \o <<a, c>> = Append(Append(t, a), c)
<1>1. <<a, c>> \in Seq(Stored) /\ <<a>> \in Seq(Stored) /\ <<c>> \in Seq(Stored)
  OBVIOUS
<1>2. <<a, c>> = <<a>> \o <<c>>
  <2>1. /\ Len(<<a>> \o <<c>>) = 2 /\ <<a>> \o <<c>> \in Seq(Stored)
        /\ (<<a>> \o <<c>>)[1] = a /\ (<<a>> \o <<c>>)[2] = c
    BY <1>1, ConcatProperties
  <2>2. Len(<<a, c>>) = 2 /\ <<a, c>>[1] = a /\ <<a, c>>[2] = c
    OBVIOUS
  <2> DEFINE x == <<a>> \o <<c>>
             y == <<a, c>>
  <2>3. x \in Seq(Stored) /\ y \in Seq(Stored) /\ Len(x) = Len(y)
        /\ \A i \in 1..Len(y) : y[i] = x[i]
    BY <1>1, <2>1, <2>2
  <2> HIDE DEF x, y
  <2>4. y = x
    BY <2>3, SeqEqual
  <2> QED BY <2>4 DEF x, y
<1>3. Append(t, a) = t \o <<a>> /\ Append(t, a) \in Seq(Stored)
  BY AppendIsConcat, AppendProperties
<1>4. Append(Append(t, a), c) = (t \o <<a>>) \o <<c>>
  BY <1>3, AppendIsConcat
<1>5. (t \o <<a>>) \o <<c>> = t \o (<<a>> \o <<c>>)
  BY <1>1, ConcatAssociative
<1> QED BY <1>1, <1>2, <1>4, <1>5, ConcatProperties

LEMMA get_token_Types ==
  ASSUME Types, get_token
  PROVE  Types'
<1> DEFINE c == Next_char.c
           s == Next_char.s
<1>1. /\ tpc = "get_token" /\ IsStream(stream) /\ buf \in Seq(Stored)
      /\ ToSet(buf) \subseteq {UNSET}
  BY DEF Types, get_token
<1>2. IsStream(s) /\ (c = EOF \/ c \in Input)
  BY <1>1, NextCharacter
<1>3. {"NO_TOKEN", "TOKEN_OK_EOF", "ERROR_TOKEN_TO_LONG", "TOKEN_OK"} \subseteq ReturnCodes
  BY DEF ReturnCodes, Errors
<1> HIDE DEF c, s
<1>4. CASE Fails(s, IF buf = <<>> THEN "NO_TOKEN" ELSE "TOKEN_OK_EOF")
  BY <1>1, <1>2, <1>3, <1>4, FailsTypes
<1>5. CASE Fails(s, "ERROR_TOKEN_TO_LONG")
  BY <1>1, <1>2, <1>3, <1>5, FailsTypes
<1>6. CASE \E pc \in {"get_token", "zero", "readstring"} :
              Continues(s, pc, buf) /\ (pc = "zero" => c = "0" /\ c # EOF)
  BY <1>1, <1>2, <1>6, ContinuesTypes
<1>7. CASE c # EOF /\ c \in Signs /\ stream' = s /\ tpc' = "read_plus_minus" /\ first' = c
           /\ UNCHANGED <<buf, tok, ret>>
  BY <1>1, <1>2, <1>7, NoTokenIsToken DEF Types, NumberRight, Signs
<1>8. CASE c # EOF /\ \E pc \in {"readnumber", "readsymbol"} : Continues(s, pc, Append(buf, c))
  <2>1. Append(buf, c) \in Seq(Stored)
    BY <1>1, <1>2, <1>8, AppendedTypes DEF Stored
  <2> QED BY <1>1, <1>2, <1>8, <2>1, ContinuesTypes
<1>9. CASE Continues(s, "get_token", Append(buf, UNSET))
  <2>1. UNSET \in Stored
    BY DEF Stored
  <2>2. Append(buf, UNSET) \in Seq(Stored) /\ ToSet(Append(buf, UNSET)) \subseteq {UNSET}
    BY <1>1, <2>1, AppendedTypes
  <2> QED BY <1>1, <1>2, <1>9, <2>2, ContinuesTypes
<1>10. CASE c # EOF /\ c \in {"(", ")"} /\ \E type \in {"TOKEN_LPAREN", "TOKEN_RPAREN"} :
              Returns(s, Token(type, <<c>>, 0), "TOKEN_OK")
  <2>1. {"TOKEN_LPAREN", "TOKEN_RPAREN"} \subseteq TokenTypes
    BY DEF TokenTypes
  <2> QED BY <1>1, <1>2, <1>3, <1>10, <2>1, CharacterTypes
<1> QED
  BY <1>4, <1>5, <1>6, <1>7, <1>8, <1>9, <1>10 DEF get_token, CloseParen, c, s

LEMMA zero_Types ==
  ASSUME Types, zero
  PROVE  Types'
<1> DEFINE c == Next_char.c
           s == Next_char.s
<1>1. /\ tpc = "zero" /\ IsStream(stream) /\ ToSet(buf) \subseteq {UNSET}
  BY DEF Types, zero
<1>2. IsStream(s) /\ IsStream(pushback(c, s))
  BY <1>1, NextCharacter
<1>3. {"ERROR_MALFORMED_NUMBER", "TOKEN_OK"} \subseteq ReturnCodes
  BY DEF ReturnCodes, Errors
<1> HIDE DEF c, s
<1>4. CASE Fails(s, "ERROR_MALFORMED_NUMBER")
  BY <1>1, <1>2, <1>3, <1>4, FailsTypes
<1>5. CASE Returns(pushback(c, s), Token("TOKEN_NUMBER", <<"0">>, 0), "TOKEN_OK")
  <2>1. "0" \in Input /\ "TOKEN_NUMBER" \in TokenTypes
    BY <1>1 DEF Types, TokenTypes
  <2> QED BY <1>1, <1>2, <1>3, <1>5, <2>1, CharacterTypes
<1> QED BY <1>4, <1>5 DEF zero, c, s

LEMMA read_plus_minus_Types ==
  ASSUME Types, read_plus_minus
  PROVE  Types'
<1> DEFINE c == Next_char.c
           s == Next_char.s
<1>1. /\ tpc = "read_plus_minus" /\ IsStream(stream) /\ buf \in Seq(Stored)
      /\ ToSet(buf) \subseteq {UNSET} /\ first \in Input
  BY DEF Types, read_plus_minus
<1>2. IsStream(s) /\ IsStream(pushback(c, s)) /\ (c = EOF \/ c \in Input)
  BY <1>1, NextCharacter
<1>3. {"ERROR_UNPARSABLE_TOKEN", "TOKEN_OK"} \subseteq ReturnCodes
  BY DEF ReturnCodes, Errors
<1>4. c = EOF => ~isdigit(c) /\ ~issymb(c)
  <2>1. EOF \notin Digits
    <3>1. DigitChars \in Seq({"0", "1", "2", "3", "4", "5", "6", "7", "8", "9"})
      BY DEF DigitChars
    <3> QED BY <3>1 DEF Digits, ToSet, EOF
  <2> QED BY <2>1 DEF isdigit, issymb, EOF, Letters, Signs
<1> HIDE DEF c, s
<1>5. CASE Fails(s, "ERROR_UNPARSABLE_TOKEN")
  BY <1>1, <1>2, <1>3, <1>5, FailsTypes
<1>6. CASE Returns(pushback(c, s), Token("TOKEN_SYMBOL", <<first>>, 0), "TOKEN_OK")
  <2>1. "TOKEN_SYMBOL" \in TokenTypes
    BY DEF TokenTypes
  <2> QED BY <1>1, <1>2, <1>3, <1>6, <2>1, CharacterTypes
<1>7. CASE Bails
  BY <1>1, <1>7, NoTokenIsToken DEF Bails, Types, NumberRight
<1>8. CASE c # EOF /\ \E pc \in {"readnumber", "readsymbol"} :
             Continues(s, pc, buf \o <<first, c>>)
  <2>1. buf \o <<first, c>> \in Seq(Stored)
    BY <1>1, <1>2, <1>8, TwoMoreTypes DEF Stored
  <2> QED BY <1>1, <1>2, <1>8, <2>1, ContinuesTypes
<1> QED BY <1>4, <1>5, <1>6, <1>7, <1>8 DEF read_plus_minus, c, s

LEMMA readsymbol_Types ==
  ASSUME Types, readsymbol
  PROVE  Types'
<1> DEFINE c == Next_char.c
           s == Next_char.s
<1>1. /\ tpc = "readsymbol" /\ IsStream(stream) /\ buf \in Seq(Stored)
  BY DEF Types, readsymbol
<1>2. IsStream(s) /\ IsStream(pushback(c, s)) /\ (c = EOF \/ c \in Input)
  BY <1>1, NextCharacter
<1>3. {"ERROR_TOKEN_TO_LONG", "EOOM", "ERROR_MALFORMED_SYMBOL", "TOKEN_OK", "TOKEN_OK_EOF"}
        \subseteq ReturnCodes
  BY DEF ReturnCodes, Errors
<1>4. CodeAt(c) \in ReturnCodes /\ (c = EOF => ~issymb(c))
  BY <1>3 DEF CodeAt, issymb, EOF, Letters, Signs
<1> HIDE DEF c, s
<1>5. CASE \E e \in ReturnCodes : Fails(s, e) \/ Fails(stream, e) \/ Fails(pushback(c, s), e)
  BY <1>1, <1>2, <1>5, FailsTypes
<1>6. CASE Returns(pushback(c, s), Token("TOKEN_SYMBOL", buf, 0), CodeAt(c))
  <2>1. "TOKEN_SYMBOL" \in TokenTypes /\ 0 \in IntRange
    BY Ints DEF TokenTypes
  <2>2. NumberRight(Token("TOKEN_SYMBOL", buf, 0), CodeAt(c))
    BY DEF Token, NumberRight
  <2> QED BY <1>1, <1>2, <1>4, <1>6, <2>1, <2>2, TokenIsToken, ReturnsTypes
<1>7. CASE c # EOF /\ Continues(s, "readsymbol", Append(buf, c))
  <2>1. Append(buf, c) \in Seq(Stored)
    BY <1>1, <1>2, <1>7, AppendedTypes DEF Stored
  <2> QED BY <1>1, <1>2, <1>7, <2>1, ContinuesTypes
<1> QED BY <1>3, <1>4, <1>5, <1>6, <1>7 DEF readsymbol, c, s

LEMMA readnumber_Types ==
  ASSUME Types, readnumber
  PROVE  Types'
<1> DEFINE c == Next_char.c
           s == Next_char.s
<1>1. /\ tpc = "readnumber" /\ IsStream(stream) /\ buf \in Seq(Stored)
  BY DEF Types, readnumber
<1>2. IsStream(s) /\ IsStream(pushback(c, s)) /\ (c = EOF \/ c \in Input)
  BY <1>1, NextCharacter
<1>3. {"ERROR_TOKEN_TO_LONG", "ERROR_TOKEN_OVERFLOW", "ERROR_MALFORMED_NUMBER", "TOKEN_OK",
       "TOKEN_OK_EOF"} \subseteq ReturnCodes
  BY DEF ReturnCodes, Errors
<1>4. c = EOF => ~isdigit(c)
  <2>1. DigitChars \in Seq({"0", "1", "2", "3", "4", "5", "6", "7", "8", "9"})
    BY DEF DigitChars
  <2> QED BY <2>1 DEF isdigit, Digits, ToSet, EOF
<1> HIDE DEF c, s
<1>5. CASE \E e \in ReturnCodes : Fails(s, e) \/ Fails(stream, e)
  BY <1>1, <1>2, <1>5, FailsTypes
<1>6. CASE \E v \in NumberTokens(buf) : \E code \in NumberCodes(buf, v, c) :
             Returns(pushback(c, s), Token("TOKEN_NUMBER", buf, v), code)
  <2>0. PICK v \in NumberTokens(buf) : \E code \in NumberCodes(buf, v, c) :
          Returns(pushback(c, s), Token("TOKEN_NUMBER", buf, v), code)
    BY <1>6
  <2>1. PICK code \in NumberCodes(buf, v, c) :
          Returns(pushback(c, s), Token("TOKEN_NUMBER", buf, v), code)
    BY <2>0
  <2>2. /\ v \in IntRange /\ "TOKEN_NUMBER" \in TokenTypes
        /\ UNSET \notin ToSet(buf) => v = CutToInt(strtol(buf))
    BY DEF NumberTokens, TokenTypes
  <2>3. code \in ReturnCodes
    BY <1>3, Codes
  <2>4. NumberRight(Token("TOKEN_NUMBER", buf, v), code)
    BY <2>2, TokenIsToken, <1>1 DEF NumberRight
  <2> QED BY <1>1, <1>2, <2>1, <2>2, <2>3, <2>4, TokenIsToken, ReturnsTypes
<1>7. CASE c # EOF /\ Continues(s, "readnumber", Append(buf, c))
  <2>1. Append(buf, c) \in Seq(Stored)
    BY <1>1, <1>2, <1>7, AppendedTypes DEF Stored
  <2> QED BY <1>1, <1>2, <1>7, <2>1, ContinuesTypes
<1> QED BY <1>3, <1>4, <1>5, <1>6, <1>7 DEF readnumber, c, s

LEMMA readstring_Types ==
  ASSUME Types, readstring
  PROVE  Types'
<1> DEFINE c == Next_char.c
           s == Next_char.s
<1>1. /\ tpc = "readstring" /\ IsStream(stream) /\ buf \in Seq(Stored)
  BY DEF Types, readstring
<1>2. IsStream(s) /\ (c = EOF \/ c \in Input)
  BY <1>1, NextCharacter
<1>3. {"ERROR_TOKEN_TO_LONG", "ERROR_UNREDABLE_CHAR", "EOOM", "TOKEN_OK"} \subseteq ReturnCodes
  BY DEF ReturnCodes, Errors
<1> HIDE DEF c, s
<1>5. CASE \E e \in ReturnCodes : Fails(s, e) \/ Fails(stream, e)
  BY <1>1, <1>2, <1>5, FailsTypes
<1>6. CASE Returns(s, Token("TOKEN_STRING", buf, 0), "TOKEN_OK")
  <2>1. "TOKEN_STRING" \in TokenTypes /\ 0 \in IntRange
    BY Ints DEF TokenTypes
  <2>2. NumberRight(Token("TOKEN_STRING", buf, 0), "TOKEN_OK")
    BY DEF Token, NumberRight
  <2> QED BY <1>1, <1>2, <1>3, <1>6, <2>1, <2>2, TokenIsToken, ReturnsTypes
<1>7. CASE c # EOF /\ Continues(s, "readstring", Append(buf, c))
  <2>1. Append(buf, c) \in Seq(Stored)
    BY <1>1, <1>2, <1>7, AppendedTypes DEF Stored
  <2> QED BY <1>1, <1>2, <1>7, <2>1, ContinuesTypes
<1> QED BY <1>3, <1>5, <1>6, <1>7 DEF readstring, c, s

LEMMA TokenizeTypes ==
  ASSUME Types, Tokenize
  PROVE  Types'
BY get_token_Types, zero_Types, read_plus_minus_Types, readsymbol_Types,
   readnumber_Types, readstring_Types DEF Tokenize

-----------------------------------------------------------------------------
(***************************************************************************)
(* Progress: a step of get_token, or of what it goes on with, either has   *)
(* taken a character for good, or is nearer to the end of the call.        *)
(***************************************************************************)
Ahead(s) == Len(Unread(s))

Phase ==
  IF tpc \in {"zero", "read_plus_minus", "readsymbol", "readnumber", "readstring"} THEN 3
  ELSE IF tpc = "get_token" THEN 1
  ELSE IF tpc = "idle" \/ (tpc = "returned" /\ ret = "TOKEN_OK") THEN 2 ELSE 0

LEMMA AheadProperties ==
  ASSUME IsStream(stream), NEW c, NEW s, c = Next_char.c, s = Next_char.s
  PROVE  /\ Ahead(stream) \in Nat /\ Ahead(s) \in Nat /\ Ahead(pushback(c, s)) \in Nat
         /\ c # EOF => Ahead(s) < Ahead(stream)
         /\ c = EOF => s = stream
         /\ Ahead(s) <= Ahead(stream) /\ Ahead(pushback(c, s)) <= Ahead(stream)
<1>1. /\ IsStream(s) /\ IsStream(pushback(c, s))
      /\ \/ c = EOF /\ s = stream /\ pushback(c, s) = s
         \/ c \in Input /\ Unread(stream) = <<c>> \o Unread(s)
      /\ c = ")" => Unread(pushback(c, s)) = Unread(stream)
      /\ c # ")" => pushback(c, s) = s
  BY NextCharacter
<1>2. /\ Unread(stream) \in Seq(Input) /\ Unread(s) \in Seq(Input)
      /\ Unread(pushback(c, s)) \in Seq(Input)
  BY <1>1, UnreadIsText
<1>3. Ahead(stream) \in Nat /\ Ahead(s) \in Nat /\ Ahead(pushback(c, s)) \in Nat
  BY <1>2 DEF Ahead
<1>4. ASSUME c \in Input, Unread(stream) = <<c>> \o Unread(s)
      PROVE  Ahead(stream) = 1 + Ahead(s)
  <2>1. <<c>> \in Seq(Input) /\ Len(<<c>>) = 1
    BY <1>4
  <2> QED BY <1>2, <1>4, <2>1, ConcatProperties DEF Ahead
<1>5. c # EOF => Ahead(s) < Ahead(stream)
  BY <1>1, <1>3, <1>4
<1>6. c = EOF => s = stream /\ pushback(c, s) = s
  BY <1>1, InputProperties
<1>7. Ahead(s) <= Ahead(stream)
  BY <1>3, <1>5, <1>6
<1>8. Ahead(pushback(c, s)) <= Ahead(stream)
  BY <1>1, <1>3, <1>7 DEF Ahead
<1> QED BY <1>3, <1>5, <1>6, <1>7, <1>8

Moves ==
  /\ Ahead(stream') \in Nat /\ Ahead(stream) \in Nat
  /\ \/ Ahead(stream') < Ahead(stream)
     \/ Ahead(stream') = Ahead(stream) /\ Phase' < Phase

LEMMA PhaseIsNatural == Phase \in 0..3 /\ Phase' \in 0..3
BY DEF Phase

(* The call ends, in a function that was reading a token.                  *)
LEMMA EndMoves ==
  ASSUME tpc \in {"zero", "read_plus_minus", "readsymbol", "readnumber", "readstring"},
         tpc' \in {"returned", "exited"},
         Ahead(stream') \in Nat, Ahead(stream) \in Nat, Ahead(stream') <= Ahead(stream)
  PROVE  Moves
<1>1. Phase = 3 /\ Phase' \in {0, 2}
  BY DEF Phase
<1> QED BY <1>1 DEF Moves

LEMMA get_token_Moves ==
  ASSUME IsStream(stream), get_token
  PROVE  Moves
<1> DEFINE c == Next_char.c
           s == Next_char.s
<1>1. /\ Ahead(stream) \in Nat /\ Ahead(s) \in Nat
      /\ c # EOF => Ahead(s) < Ahead(stream)
      /\ c = EOF => s = stream
  BY AheadProperties
<1> HIDE DEF c, s
<1>2. CASE c = EOF /\ \E e \in {"NO_TOKEN", "TOKEN_OK_EOF"} : Fails(s, e)
  <2>1. tpc = "get_token" /\ stream' = stream /\ tpc' = "returned" /\ ret' # "TOKEN_OK"
    BY <1>1, <1>2 DEF get_token, Fails
  <2>2. Phase = 1 /\ Phase' = 0
    BY <2>1 DEF Phase
  <2> QED BY <1>1, <2>1, <2>2 DEF Moves
<1>3. CASE c # EOF /\ stream' = s
  BY <1>1, <1>3 DEF Moves
<1> QED BY <1>2, <1>3 DEF get_token, CloseParen, Continues, Returns, Fails, c, s

LEMMA EOFIsNoLetter == ~issymb(EOF) /\ ~isdigit(EOF) /\ ~isspace(EOF) /\ EOF # ")"
<1>1. DigitChars \in Seq({"0", "1", "2", "3", "4", "5", "6", "7", "8", "9"})
  BY DEF DigitChars
<1>2. Digits \subseteq {"0", "1", "2", "3", "4", "5", "6", "7", "8", "9"}
  BY <1>1 DEF Digits, ToSet
<1> QED BY <1>2 DEF EOF, issymb, isdigit, isspace, Letters, Signs

(* What the functions that read a token do with the character c, when s is *)
(* the stream after it.                                                    *)
EndsOrReads(c, s) ==
  \/ c # EOF /\ stream' = s
  \/ tpc' \in {"returned", "exited"} /\ stream' \in {s, stream, pushback(c, s)}

LEMMA EndOrReadMoves ==
  ASSUME IsStream(stream), EndsOrReads(Next_char.c, Next_char.s),
         tpc \in {"zero", "read_plus_minus", "readsymbol", "readnumber", "readstring"}
  PROVE  Moves
<1> DEFINE c == Next_char.c
           s == Next_char.s
<1>1. /\ Ahead(stream) \in Nat /\ Ahead(s) \in Nat /\ Ahead(pushback(c, s)) \in Nat
      /\ c # EOF => Ahead(s) < Ahead(stream)
      /\ Ahead(s) <= Ahead(stream) /\ Ahead(pushback(c, s)) <= Ahead(stream)
  BY AheadProperties
<1>2. EndsOrReads(c, s)
  OBVIOUS
<1> HIDE DEF c, s
<1>3. CASE c # EOF /\ stream' = s
  BY <1>1, <1>3 DEF Moves
<1>4. CASE tpc' \in {"returned", "exited"} /\ stream' \in {s, stream, pushback(c, s)}
  <2>1. Ahead(stream') \in Nat /\ Ahead(stream') <= Ahead(stream)
    BY <1>1, <1>4
  <2> QED BY <1>1, <1>4, <2>1, EndMoves
<1> QED BY <1>2, <1>3, <1>4 DEF EndsOrReads

LEMMA TokenizeMoves ==
  ASSUME IsStream(stream), Tokenize
  PROVE  Moves
<1> DEFINE c == Next_char.c
           s == Next_char.s
<1>0. ~issymb(EOF) /\ ~isdigit(EOF)
  BY EOFIsNoLetter
<1>1. CASE get_token
  BY <1>1, get_token_Moves
<1>2. CASE zero
  <2> HIDE DEF c, s
  <2>1. tpc = "zero" /\ EndsOrReads(c, s)
    BY <1>2 DEF zero, EndsOrReads, Returns, Fails, c, s
  <2> QED BY <2>1, EndOrReadMoves DEF c, s
<1>3. CASE read_plus_minus
  <2> HIDE DEF c, s
  <2>1. tpc = "read_plus_minus" /\ EndsOrReads(c, s)
    BY <1>0, <1>3 DEF read_plus_minus, EndsOrReads, Returns, Fails, Bails, Continues, c, s
  <2> QED BY <2>1, EndOrReadMoves DEF c, s
<1>4. CASE readsymbol
  <2> HIDE DEF c, s
  <2>1. tpc = "readsymbol" /\ EndsOrReads(c, s)
    BY <1>0, <1>4 DEF readsymbol, EndsOrReads, Returns, Fails, Continues, c, s
  <2> QED BY <2>1, EndOrReadMoves DEF c, s
<1>5. CASE readnumber
  <2> HIDE DEF c, s
  <2>1. tpc = "readnumber" /\ EndsOrReads(c, s)
    BY <1>0, <1>5 DEF readnumber, EndsOrReads, Returns, Fails, Continues, c, s
  <2> QED BY <2>1, EndOrReadMoves DEF c, s
<1>6. CASE readstring
  <2> HIDE DEF c, s
  <2>1. tpc = "readstring" /\ EndsOrReads(c, s)
    BY <1>6 DEF readstring, EndsOrReads, Returns, Fails, Continues, c, s
  <2> QED BY <2>1, EndOrReadMoves DEF c, s
<1> QED BY <1>1, <1>2, <1>3, <1>4, <1>5, <1>6 DEF Tokenize
=============================================================================
