--------------------------- MODULE TokenLoopProofs ---------------------------
(***************************************************************************)
(* The tokenizer, called for token after token, stays inside of its array, *)
(* reads every number that fits as that number, and leaves none of the     *)
(* text out: what was unread when a call began is what the token covers,   *)
(* then what is unread now (Covered).                                      *)
(***************************************************************************)
EXTENDS TokenLoop, TokenizerProofs

LEMMA InitBounds == Init => Bounds
<1> SUFFICES ASSUME Init PROVE Bounds
  OBVIOUS
<1>1. buf = <<>> /\ tpc = "idle"
  BY DEF Init
<1>2. <<>> \in Seq({})
  OBVIOUS
<1>3. IsSequence(buf) /\ Len(buf) = 0
  BY <1>1, <1>2, SequenceOf
<1> QED BY <1>1, <1>3, Constants DEF Bounds, Room, TokenFits

LEMMA StepBounds == Bounds /\ [Next]_vars => Bounds'
<1> SUFFICES ASSUME Bounds, [Next]_vars PROVE Bounds'
  OBVIOUS
<1>1. CASE Call
  BY <1>1, CallInBounds DEF Call
<1>2. CASE Comes
  BY <1>2, IdleInBounds DEF Comes
<1>3. CASE get_token_step
  BY <1>3, TokenizeInBounds DEF get_token_step
<1>4. CASE UNCHANGED vars
  BY <1>4, IdleInBounds DEF vars, tokenizerVars
<1> QED BY <1>1, <1>2, <1>3, <1>4 DEF Next

(* For every MAX_TOKEN_LENGTH of two or more and every text: no function   *)
(* of token.c stores outside of token[MAX_TOKEN_LENGTH + 1], the '\0' of a *)
(* symbol, number or string included.                                      *)
THEOREM StaysInBuffer == Spec => []BufferInBounds
<1>1. Bounds => BufferInBounds
  BY DEF Bounds, Room, TokenFits, BufferInBounds, HasToken
<1> QED BY <1>1, InitBounds, StepBounds, PTL DEF Spec

-----------------------------------------------------------------------------
(***************************************************************************)
(* The arithmetic of numbers about as large as an int, of any width.       *)
(***************************************************************************)
LEMMA Remainders ==
  ASSUME NEW m \in Nat \ {0}
  PROVE  /\ \A z \in 0..(m - 1) : z % m = z
         /\ m % m = 0 /\ (-1) % m = m - 1
OBVIOUS

LEMMA CutInts ==
  /\ \A v \in IntRange : CutToInt(v) = v
  /\ CutToInt(IntMax + 1) = -IntMax - 1
  /\ CutToInt(-IntMax - 2) = IntMax
<1> DEFINE m == 2 * (IntMax + 1)
<1>1. m \in Nat \ {0} /\ IntMax \in Nat
  BY Ints
<1>2. \A v : CutToInt(v) = ((v + IntMax + 1) % m) - IntMax - 1
  BY DEF CutToInt
<1>3. IntMax + 1 + IntMax + 1 = m /\ -IntMax - 2 + IntMax + 1 = -1
      /\ 0 - IntMax - 1 = -IntMax - 1 /\ m - 1 - IntMax - 1 = IntMax
  BY <1>1
<1>4. ASSUME NEW v \in IntRange
      PROVE  v + IntMax + 1 \in 0..(m - 1) /\ v + IntMax + 1 - IntMax - 1 = v
  BY <1>1 DEF IntRange
<1> HIDE DEF m
<1>5. \A v \in IntRange : CutToInt(v) = v
  <2> SUFFICES ASSUME NEW v \in IntRange PROVE CutToInt(v) = v
    OBVIOUS
  <2> DEFINE w == v + IntMax + 1
  <2>1. CutToInt(v) = (w % m) - IntMax - 1
    BY <1>2
  <2>2. w \in 0..(m - 1)
    BY <1>4
  <2>3. w - IntMax - 1 = v
    BY <1>1 DEF IntRange
  <2> HIDE DEF w
  <2>4. w % m = w
    BY <1>1, <2>2, Remainders
  <2> QED BY <2>1, <2>3, <2>4
<1>6. CutToInt(IntMax + 1) = 0 - IntMax - 1
  BY <1>1, <1>2, <1>3, Remainders
<1>7. CutToInt(-IntMax - 2) = m - 1 - IntMax - 1
  BY <1>1, <1>2, <1>3, Remainders
<1> QED BY <1>3, <1>5, <1>6, <1>7

(* What readnumber makes of a number that is one out of range, at most.    *)
LEMMA CutNumbers ==
  ASSUME NEW text, NEW v, v = CutToInt(strtol(text)),
         Value(text) \in (-IntMax - 2)..(IntMax + 1)
  PROVE  /\ Value(text) \in IntRange => v = Value(text)
         /\ Value(text) \notin IntRange => AtLimit(v) /\ Value(text) # v
<1> DEFINE n == Value(text)
<1>1. /\ IntMax \in Nat /\ LongMax \in Nat /\ IntMax <= LongMax
      /\ n \in (-IntMax - 2)..(IntMax + 1)
  BY Ints
<1>2. strtol(text) = IF n > LongMax THEN LongMax
                     ELSE IF n < -LongMax - 1 THEN -LongMax - 1 ELSE n
  BY DEF strtol
<1> HIDE DEF n
<1>3. CASE n \in IntRange
  <2>1. strtol(text) = n
    BY <1>1, <1>2, <1>3 DEF IntRange
  <2> QED BY <1>3, <2>1, CutInts DEF n
<1>4. CASE n \notin IntRange
  <2>1. n = IntMax + 1 \/ n = -IntMax - 2
    BY <1>1, <1>4 DEF IntRange
  <2>2. IntMax \in IntRange /\ -IntMax - 1 \in IntRange
    BY <1>1 DEF IntRange
  <2>3. strtol(text) \in {IntMax, -IntMax - 1, IntMax + 1, -IntMax - 2}
    BY <1>1, <1>2, <2>1
  <2>4. v \in {IntMax, -IntMax - 1}
    BY <2>2, <2>3, CutInts
  <2>5. n # v
    BY <1>1, <2>1, <2>4
  <2> QED BY <1>4, <2>4, <2>5 DEF AtLimit, n
<1> QED BY <1>3, <1>4 DEF n

-----------------------------------------------------------------------------
(***************************************************************************)
(* The types of the loop, and the numbers that it is given.                *)
(***************************************************************************)
LoopTypes == Types /\ start \in Seq(Chars \cup {NUL})

LEMMA InitTypes == Init => LoopTypes
<1> SUFFICES ASSUME Init PROVE LoopTypes
  OBVIOUS
<1>1. <<>> \in Seq(Input) /\ <<>> \in Seq(Stored) /\ Len(<<>>) = 0
  OBVIOUS
<1>2. IsStream(make_filestream(<<>>))
  BY <1>1 DEF make_filestream, IsStream
<1>3. IsStream(make_stringstream(<<>>, <<>>, 1))
  <2>1. SubSeq(<<>> \o <<NUL>> \o <<>>, 1, 1 - 1) = <<>>
    BY SubSeqEmpty
  <2> QED BY <1>1, <2>1 DEF make_stringstream, IsStream
<1>4. stream \in {make_filestream(<<>>), make_stringstream(<<>>, <<>>, 1)} /\ start = <<>>
      /\ tpc = "idle" /\ first = "none" /\ buf = <<>> /\ tok = NoToken /\ ret = "none"
  BY DEF Init
<1>5. NumberRight(tok, ret)
  BY <1>4, NoTokenIsToken DEF NumberRight
<1> QED BY <1>1, <1>2, <1>3, <1>4, <1>5, NoTokenIsToken DEF LoopTypes, Types

(* A character that comes, behind the others.                              *)
LEMMA OneMoreComes ==
  ASSUME NEW c \in Input, IsStream(stream), Unread(stream) = <<>>,
         stream' = [stream EXCEPT !.text = Append(@, c)]
  PROVE  IsStream(stream') /\ Unread(stream') = <<c>>
<1> DEFINE x == Append(stream.text, c)
           t == [stream EXCEPT !.text = x]
<1>0. /\ stream \in [kind : {"file", "string"}, text : Seq(Input), index : Nat,
                     pushed : Seq(Input)]
      /\ Len(stream.text) \in Nat /\ stream' = t
  BY DEF IsStream
<1>1. /\ x \in Seq(Input) /\ Len(x) = Len(stream.text) + 1
      /\ x[Len(stream.text) + 1] = c
  BY <1>0, AppendProperties
<1>2. t.kind = stream.kind /\ t.text = x /\ t.index = stream.index
      /\ t.pushed = stream.pushed
  BY <1>0
<1>3. t \in [kind : {"file", "string"}, text : Seq(Input), index : Nat, pushed : Seq(Input)]
  BY <1>0, <1>1
<1>4. IsStream(t)
  BY <1>0, <1>1, <1>2, <1>3 DEF IsStream
<1>5. CASE stream.kind = "file"
  <2>1. stream.pushed = <<>> /\ stream.text = <<>>
    <3>1. stream.pushed \o stream.text = <<>>
      BY <1>5, UnreadOfFile
    <3> QED BY <1>0, <3>1, ConcatEqualIffEmpty
  <2>2. x = <<c>>
    BY <2>1
  <2> QED BY <1>0, <1>2, <1>4, <1>5, <2>1, <2>2, UnreadOfFile
<1>6. CASE stream.kind = "string"
  <2> DEFINE n == Len(stream.text)
             i == stream.index
  <2>1. SubSeq(stream.text, i + 1, n) = <<>> /\ i <= n /\ i \in Nat
    BY <1>0, <1>6, UnreadOfString DEF IsStream
  <2>2. i = n
    <3>1. \A k \in (i + 1)..n : stream.text[k] \in Input
      BY <1>0, <2>1
    <3>2. Len(SubSeq(stream.text, i + 1, n))
            = IF i + 1 <= n THEN n - (i + 1) + 1 ELSE 0
      BY <1>0, <2>1, <3>1, SubSeqProperties
    <3>3. 0 = IF i + 1 <= n THEN n - (i + 1) + 1 ELSE 0
      BY <2>1, <3>2
    <3> QED BY <1>0, <2>1, <3>3
  <2>3. Unread(t) = SubSeq(x, n + 1, n + 1)
    <3>1. Unread(t) = SubSeq(x, i + 1, Len(x))
      BY <1>2, <1>4, <1>6, UnreadOfString
    <3> QED BY <1>1, <2>2, <3>1
  <2>4. SubSeq(x, n + 1, n + 1) = <<x[n + 1]>>
    <3>1. n + 1 \in 1..Len(x) /\ n + 1 \in (n + 1)..Len(x) /\ n + 1 + 1 \in Int
          /\ n + 1 < n + 1 + 1 /\ n + 1 \in Int
      BY <1>0, <1>1
    <3>2. SubSeq(x, n + 1, n + 1) = <<x[n + 1]>> \o SubSeq(x, n + 1 + 1, n + 1)
      BY <1>1, <3>1, SubSeqRecursiveFirst
    <3>3. SubSeq(x, n + 1 + 1, n + 1) = <<>>
      BY <3>1, SubSeqEmpty
    <3>4. <<x[n + 1]>> \in Seq(Input)
      BY <1>1
    <3> QED BY <3>2, <3>3, <3>4, ConcatEmptySeq
  <2> QED BY <1>0, <1>1, <1>4, <2>3, <2>4
<1> QED BY <1>0, <1>5, <1>6

LEMMA Unmoved ==
  ASSUME Types, UNCHANGED <<tpc, first, buf, tok, ret>>, IsStream(stream')
  PROVE  Types'
BY DEF Types, NumberRight

LEMMA ComesTypes ==
  ASSUME LoopTypes, Comes
  PROVE  /\ LoopTypes'
         /\ \/ UNCHANGED <<stream, start>>
            \/ \E c \in Input : Unread(stream') = <<c>> /\ start' = Append(start, c)
<1>1. CASE UNCHANGED <<stream, start>>
  BY <1>1, Unmoved DEF LoopTypes, Types, Comes
<1>2. CASE \E c \in Input : /\ stream' = [stream EXCEPT !.text = Append(@, c)]
                            /\ start' = Append(start, c)
  <2>1. PICK c \in Input : /\ stream' = [stream EXCEPT !.text = Append(@, c)]
                           /\ start' = Append(start, c)
    BY <1>2
  <2>2. IsStream(stream') /\ Unread(stream') = <<c>>
    BY <2>1, OneMoreComes DEF LoopTypes, Types, Comes
  <2>3. start' \in Seq(Chars \cup {NUL})
    BY <2>1, AppendProperties DEF LoopTypes, Input
  <2> QED BY <2>1, <2>2, <2>3, Unmoved DEF LoopTypes, Comes
<1>3. Chars \subseteq Input /\ NUL \in Input
  BY DEF Input
<1> QED BY <1>1, <1>2, <1>3 DEF Comes

LEMMA StepTypes == LoopTypes /\ [Next]_vars => LoopTypes'
<1> SUFFICES ASSUME LoopTypes, [Next]_vars PROVE LoopTypes'
  OBVIOUS
<1>1. CASE Call
  <2>1. IsStream(stream') /\ start' \in Seq(Chars \cup {NUL})
    BY <1>1, UnreadIsText DEF Call, LoopTypes, Types, Input
  <2> QED BY <1>1, <2>1, CallTypes DEF Call, LoopTypes
<1>2. CASE Comes
  BY <1>2, ComesTypes
<1>3. CASE get_token_step
  BY <1>3, TokenizeTypes DEF get_token_step, LoopTypes
<1>4. CASE UNCHANGED vars
  BY <1>4, Unmoved DEF vars, tokenizerVars, LoopTypes, Types
<1> QED BY <1>1, <1>2, <1>3, <1>4 DEF Next

LEMMA TypesInvariance == Spec => []LoopTypes
BY InitTypes, StepTypes, PTL DEF Spec

(* The types of the tokenizer, for every MAX_TOKEN_LENGTH and every text.  *)
THEOREM TypeCorrect == Spec => []TypeOK
<1>1. LoopTypes => TypeOK
  BY TypesAreTypes DEF LoopTypes, TypeOK
<1> QED BY <1>1, TypesInvariance, PTL

(* A number that fits an int, of any width, is read as that number, and    *)
(* the next one beyond either limit is refused, although the long that     *)
(* strtol returns is cut to an int before anybody looks at it.             *)
THEOREM NumbersAreRead == Spec => []IntsAreRead
<1>1. LoopTypes => IntsAreRead
  <2> SUFFICES ASSUME LoopTypes, NumberRead, Value(buf) \in (-IntMax - 2)..(IntMax + 1)
               PROVE  IF Value(buf) \in IntRange
                      THEN ret # "ERROR_TOKEN_OVERFLOW" /\ tok.i_val = Value(buf)
                      ELSE ret = "ERROR_TOKEN_OVERFLOW"
    BY DEF IntsAreRead
  <2>1. UNSET \notin ToSet(buf) /\ tok.type = "TOKEN_NUMBER" /\ tok.text = buf
    BY DEF NumberRead, Complete
  <2>2. PICK c : tok.i_val = CutToInt(strtol(buf)) /\ ret \in NumberCodes(buf, tok.i_val, c)
    BY <2>1 DEF LoopTypes, Types, NumberRight
  <2>3. /\ Value(buf) \in IntRange => tok.i_val = Value(buf)
        /\ Value(buf) \notin IntRange => AtLimit(tok.i_val) /\ Value(buf) # tok.i_val
    BY <2>2, CutNumbers
  <2>4. CASE Value(buf) \in IntRange
    BY <2>1, <2>2, <2>3, <2>4 DEF NumberCodes, CodeAt
  <2>5. CASE Value(buf) \notin IntRange
    BY <2>1, <2>2, <2>3, <2>5 DEF NumberCodes
  <2> QED BY <2>4, <2>5
<1> QED BY <1>1, TypesInvariance, PTL
-----------------------------------------------------------------------------
(***************************************************************************)
(* The text that a token covers: in every function, what was unread when   *)
(* get_token was called consists of blanks, what has been taken of the     *)
(* token, and what is unread now.                                          *)
(***************************************************************************)
Spelled == Input \cup {QUOTE, " "}

Blank(p) == \A i \in DOMAIN p : p[i] \in Unknown \cup {" "}

Begins(all, text, rest) ==
  \E p \in Seq(Input) : Blank(p) /\ all = p \o (text \o rest)

Begun(text) == Begins(start, text, Unread(stream))

NoGaps(b) == UNSET \notin ToSet(b)

Covered ==
  /\ tpc = "get_token" => Begun(<<>>)
  /\ tpc = "zero" => Begun(<<"0">>)
  /\ tpc = "read_plus_minus" => Begun(<<first>>)
  /\ tpc \in {"readsymbol", "readnumber"} /\ NoGaps(buf) => Begun(buf)
  /\ tpc = "readstring" /\ NoGaps(buf) => Begun(<<QUOTE>> \o buf)
  /\ HasToken /\ Complete => Begun(Spelling(tok)) \/ Begun(Append(Spelling(tok), " "))

LEMMA InputIsSpelled ==
  /\ Input \subseteq Spelled /\ QUOTE \in Spelled /\ " " \in Spelled
  /\ \A t \in Seq(Input) : t \in Seq(Spelled)
  /\ \A c \in Spelled : <<c>> \in Seq(Spelled)
  /\ \A c \in Input : <<c>> \in Seq(Input)
<1>1. Input \subseteq Spelled
  BY DEF Spelled
<1>2. (\A c \in Spelled : <<c>> \in Seq(Spelled)) /\ (\A c \in Input : <<c>> \in Seq(Input))
  OBVIOUS
<1>3. \A t \in Seq(Input) : t \in Seq(Spelled)
  BY <1>1, SeqMonotonic
<1>4. QUOTE \in Spelled /\ " " \in Spelled
  BY DEF Spelled
<1> QED BY <1>1, <1>2, <1>3, <1>4

LEMMA TextWithoutGaps ==
  ASSUME NEW t \in Seq(Stored), NoGaps(t)
  PROVE  t \in Seq(Input) /\ t \in Seq(Spelled)
<1>1. Len(t) \in Nat /\ DOMAIN t = 1..Len(t) /\ t \in [1..Len(t) -> Stored]
  BY LenProperties
<1>2. \A i \in 1..Len(t) : t[i] \in Input
  BY <1>1 DEF NoGaps, ToSet, Stored
<1>3. t \in [1..Len(t) -> Input]
  BY <1>1, <1>2
<1>4. t \in Seq(Input)
  BY <1>1, <1>3, SeqDef
<1> QED BY <1>4, InputIsSpelled

LEMMA OnlyGaps ==
  ASSUME NEW t \in Seq(Stored), ToSet(t) \subseteq {UNSET}, NoGaps(t)
  PROVE  t = <<>>
<1>1. Len(t) \in Nat /\ DOMAIN t = 1..Len(t) /\ ToSet(t) = {}
  BY LenProperties DEF NoGaps
<1>2. Len(t) = 0
  <2>1. 1..Len(t) = {}
    BY <1>1 DEF ToSet
  <2> QED BY <1>1, <2>1
<1> QED BY <1>2, EmptySeq

(* A character of the token, and one that is skipped before it.            *)
LEMMA Takes ==
  ASSUME NEW all, NEW text \in Seq(Spelled), NEW c \in Input, NEW rest \in Seq(Input),
         Begins(all, text, <<c>> \o rest)
  PROVE  Begins(all, Append(text, c), rest)
<1>1. PICK p \in Seq(Input) : Blank(p) /\ all = p \o (text \o (<<c>> \o rest))
  BY DEF Begins
<1>2. c \in Spelled /\ rest \in Seq(Spelled) /\ <<c>> \in Seq(Spelled)
  BY InputIsSpelled, Zenon
<1>3. text \o (<<c>> \o rest) = (text \o <<c>>) \o rest
  BY <1>2, ConcatAssociative
<1>4. Append(text, c) = text \o <<c>>
  BY <1>2, AppendIsConcat
<1> QED BY <1>1, <1>3, <1>4 DEF Begins

LEMMA OneMoreBlank ==
  ASSUME NEW p \in Seq(Input), NEW c \in Input, NEW rest \in Seq(Input)
  PROVE  /\ p \o (<<>> \o (<<c>> \o rest)) = Append(p, c) \o (<<>> \o rest)
         /\ Append(p, c) \in Seq(Input)
         /\ Blank(p) /\ c \in Unknown \cup {" "} => Blank(Append(p, c))
<1>1. <<c>> \in Seq(Input)
  OBVIOUS
<1>2. <<c>> \o rest \in Seq(Input)
  BY <1>1, ConcatProperties
<1>3. <<>> \o (<<c>> \o rest) = <<c>> \o rest /\ <<>> \o rest = rest
  BY <1>2, ConcatEmptySeq
<1>4. p \o (<<c>> \o rest) = (p \o <<c>>) \o rest
  BY <1>1, ConcatAssociative
<1>5. Append(p, c) = p \o <<c>> /\ Append(p, c) \in Seq(Input)
  BY AppendIsConcat, AppendProperties
<1> DEFINE q == Append(p, c)
<1>6. /\ Len(p) \in Nat /\ DOMAIN p = 1..Len(p) /\ DOMAIN q = 1..(Len(p) + 1)
      /\ q[Len(p) + 1] = c /\ \A i \in 1..Len(p) : q[i] = p[i]
  BY AppendProperties, LenProperties
<1>7. 1..(Len(p) + 1) = 1..Len(p) \cup {Len(p) + 1}
  BY <1>6
<1>8. Blank(p) /\ c \in Unknown \cup {" "} => Blank(q)
  <2> HIDE DEF q
  <2> QED BY <1>6, <1>7 DEF Blank
<1> QED BY <1>3, <1>4, <1>5, <1>8

LEMMA Skips ==
  ASSUME NEW all, NEW c \in Input, NEW rest \in Seq(Input), c \in Unknown \cup {" "},
         Begins(all, <<>>, <<c>> \o rest)
  PROVE  Begins(all, <<>>, rest)
<1>1. PICK p \in Seq(Input) : Blank(p) /\ all = p \o (<<>> \o (<<c>> \o rest))
  BY DEF Begins
<1>2. Append(p, c) \in Seq(Input) /\ Blank(Append(p, c))
  BY <1>1, OneMoreBlank
<1>3. all = Append(p, c) \o (<<>> \o rest)
  BY <1>1, OneMoreBlank, Zenon
<1> QED BY <1>2, <1>3 DEF Begins

(* A character that comes at the end.                                      *)
LEMMA Grows ==
  ASSUME NEW all \in Seq(Input), NEW text \in Seq(Spelled), NEW c \in Input,
         Begins(all, text, <<>>)
  PROVE  Begins(Append(all, c), text, <<c>>)
<1>1. PICK p \in Seq(Input) : Blank(p) /\ all = p \o (text \o <<>>)
  BY DEF Begins
<1>2. all = p \o text
  BY <1>1, ConcatEmptySeq
<1>3. /\ p \in Seq(Spelled) /\ <<c>> \in Seq(Spelled) /\ all \in Seq(Spelled)
      /\ c \in Spelled
  BY InputIsSpelled, Zenon
<1>4. Append(all, c) = (p \o text) \o <<c>>
  BY <1>2, <1>3, AppendIsConcat
<1>5. (p \o text) \o <<c>> = p \o (text \o <<c>>)
  BY <1>3, ConcatAssociative
<1> QED BY <1>1, <1>4, <1>5 DEF Begins

-----------------------------------------------------------------------------
(* The ways to end a step of the tokenizer.                                *)
LEMMA FailsCovers ==
  ASSUME NEW s, NEW e, Fails(s, e), UNCHANGED start,
         e # "TOKEN_OK", e = "TOKEN_OK_EOF" => ToSet(buf) \subseteq {UNSET}
  PROVE  Covered'
BY DEF Fails, Covered, HasToken

LEMMA ReturnsCovers ==
  ASSUME NEW s, NEW t, NEW e, Returns(s, t, e), UNCHANGED start,
         NoGaps(t.text) => \/ Begins(start, Spelling(t), Unread(s))
                           \/ Begins(start, Append(Spelling(t), " "), Unread(s))
  PROVE  Covered'
<1>1. stream' = s /\ tok' = t /\ tpc' = "returned" /\ start' = start
  BY DEF Returns
<1>2. Complete' => NoGaps(t.text)
  BY <1>1 DEF Complete, NoGaps
<1> QED BY <1>1, <1>2 DEF Covered, Begun, Spelling

LEMMA ContinuesCovers ==
  ASSUME NEW s, NEW pc, NEW chars, Continues(s, pc, chars), UNCHANGED start,
         \/ pc = "get_token" /\ Begins(start, <<>>, Unread(s))
         \/ pc = "zero" /\ Begins(start, <<"0">>, Unread(s))
         \/ /\ pc \in {"readsymbol", "readnumber"}
            /\ NoGaps(chars) => Begins(start, chars, Unread(s))
         \/ /\ pc = "readstring"
            /\ NoGaps(chars) => Begins(start, <<QUOTE>> \o chars, Unread(s))
  PROVE  Covered'
BY DEF Continues, Covered, Begun, HasToken

(* At the end of a token: a blank is taken, a parenthesis is not.          *)
LEMMA Stops ==
  ASSUME IsStream(stream), NEW c, NEW s, c = Next_char.c, s = Next_char.s,
         NEW text \in Seq(Spelled), Begun(text), isstop(c) \/ c = EOF
  PROVE  \/ Begins(start, text, Unread(pushback(c, s)))
         \/ Begins(start, Append(text, " "), Unread(pushback(c, s)))
<1>1. CASE c = EOF
  <2>1. EOF \notin Input
    BY InputProperties
  <2>2. \/ c = EOF /\ s = stream /\ Unread(stream) = <<>> /\ pushback(c, s) = s
        \/ c \in Input /\ Unread(stream) = <<c>> \o Unread(s)
    BY NextCharacter
  <2>3. pushback(c, s) = s /\ s = stream
    BY <1>1, <2>1, <2>2
  <2> QED BY <2>3 DEF Begun
<1>2. CASE c = ")"
  <2>1. Unread(pushback(c, s)) = Unread(stream)
    BY <1>2, NextCharacter
  <2> QED BY <2>1 DEF Begun
<1>3. CASE c = " "
  <2>1. pushback(c, s) = s /\ c \in Input /\ Unread(stream) = <<c>> \o Unread(s)
        /\ IsStream(s)
    BY <1>3, NextCharacter DEF EOF
  <2>2. Unread(s) \in Seq(Input)
    BY <2>1, UnreadIsText
  <2>3. Begins(start, Append(text, c), Unread(s))
    BY <2>1, <2>2, Takes DEF Begun
  <2> QED BY <1>3, <2>1, <2>3
<1> QED BY <1>1, <1>2, <1>3 DEF isstop, isspace

LEMMA get_token_Covers ==
  ASSUME Types, Covered, get_token, UNCHANGED start
  PROVE  Covered'
<1> DEFINE c == Next_char.c
           s == Next_char.s
<1>1. /\ tpc = "get_token" /\ IsStream(stream) /\ buf \in Seq(Stored)
      /\ ToSet(buf) \subseteq {UNSET} /\ Begins(start, <<>>, Unread(stream))
  BY DEF Types, get_token, Covered, Begun
<1>2. c # EOF => /\ c \in Input /\ Unread(stream) = <<c>> \o Unread(s)
                 /\ Unread(s) \in Seq(Input)
  BY <1>1, NextCharacter, UnreadIsText
<1>3. c # EOF => Begins(start, <<c>>, Unread(s))
  <2>1. <<>> \in Seq(Spelled)
    OBVIOUS
  <2>2. Append(<<>>, c) = <<c>>
    OBVIOUS
  <2> HIDE DEF c, s
  <2> QED BY <1>1, <1>2, <2>1, <2>2, Takes
<1>4. c # EOF /\ c \in Unknown \cup {" "} => Begins(start, <<>>, Unread(s))
  <2> HIDE DEF c, s
  <2> QED BY <1>1, <1>2, Skips
<1>5. NoGaps(buf) => buf = <<>>
  BY <1>1, OnlyGaps
<1> HIDE DEF c, s
<1>6. CASE c = EOF /\ Fails(s, IF buf = <<>> THEN "NO_TOKEN" ELSE "TOKEN_OK_EOF")
  BY <1>1, <1>6, FailsCovers
<1>7. CASE Fails(s, "ERROR_TOKEN_TO_LONG")
  BY <1>7, FailsCovers
<1>8. CASE /\ c # EOF /\ c \in Unknown \cup {" "}
           /\ \E b : Continues(s, "get_token", b)
  BY <1>4, <1>8, ContinuesCovers
<1>9. CASE c # EOF /\ stream' = s /\ tpc' = "read_plus_minus" /\ first' = c
  BY <1>3, <1>9 DEF Covered, Begun, HasToken
<1>10. CASE c # EOF /\ \E pc \in {"readnumber", "readsymbol"} :
              Continues(s, pc, Append(buf, c))
  <2>1. ASSUME NoGaps(Append(buf, c))
        PROVE  Begins(start, Append(buf, c), Unread(s))
    <3>1. ToSet(Append(buf, c)) = ToSet(buf) \cup {c}
      BY <1>1, <1>2, <1>10, AppendedTypes DEF Stored
    <3>2. buf = <<>>
      BY <1>5, <2>1, <3>1 DEF NoGaps
    <3>3. Append(buf, c) = <<c>>
      BY <3>2
    <3> QED BY <1>3, <1>10, <3>3
  <2> QED BY <1>10, <2>1, ContinuesCovers
<1>11. CASE c # EOF /\ c = "0" /\ Continues(s, "zero", buf)
  BY <1>3, <1>11, ContinuesCovers
<1>12. CASE c # EOF /\ c = QUOTE /\ Continues(s, "readstring", buf)
  <2>1. NoGaps(buf) => <<QUOTE>> \o buf = <<QUOTE>>
    BY <1>5
  <2> QED BY <1>3, <1>12, <2>1, ContinuesCovers
<1>13. CASE c # EOF /\ \E type \in {"TOKEN_LPAREN", "TOKEN_RPAREN"} :
              Returns(s, Token(type, <<c>>, 0), "TOKEN_OK")
  <2>1. \A type \in {"TOKEN_LPAREN", "TOKEN_RPAREN"} : Spelling(Token(type, <<c>>, 0)) = <<c>>
    BY DEF Spelling, Token
  <2> QED BY <1>3, <1>13, <2>1, ReturnsCovers
<1> QED
  BY <1>6, <1>7, <1>8, <1>9, <1>10, <1>11, <1>12, <1>13
  DEF get_token, CloseParen, isspace, c, s

LEMMA zero_Covers ==
  ASSUME Types, Covered, zero, UNCHANGED start
  PROVE  Covered'
<1> DEFINE c == Next_char.c
           s == Next_char.s
           t == Token("TOKEN_NUMBER", <<"0">>, 0)
<1>1. /\ tpc = "zero" /\ IsStream(stream) /\ Begun(<<"0">>) /\ "0" \in Input
  BY DEF Types, zero, Covered
<1>2. isstop(c) => \/ Begins(start, <<"0">>, Unread(pushback(c, s)))
                   \/ Begins(start, Append(<<"0">>, " "), Unread(pushback(c, s)))
  <2>1. <<"0">> \in Seq(Spelled)
    BY <1>1, InputIsSpelled, Zenon
  <2> HIDE DEF c, s
  <2> QED BY <1>1, <2>1, Stops DEF c, s
<1>3. Spelling(t) = <<"0">>
  BY DEF Spelling, Token
<1> HIDE DEF c, s, t
<1>4. CASE isstop(c) /\ Returns(pushback(c, s), t, "TOKEN_OK")
  BY <1>2, <1>3, <1>4, ReturnsCovers
<1>5. CASE Fails(s, "ERROR_MALFORMED_NUMBER")
  BY <1>5, FailsCovers
<1> QED BY <1>4, <1>5 DEF zero, c, s, t

LEMMA read_plus_minus_Covers ==
  ASSUME Types, Covered, read_plus_minus, UNCHANGED start
  PROVE  Covered'
<1> DEFINE c == Next_char.c
           s == Next_char.s
           t == Token("TOKEN_SYMBOL", <<first>>, 0)
<1>1. /\ tpc = "read_plus_minus" /\ IsStream(stream) /\ Begun(<<first>>) /\ first \in Input
      /\ buf \in Seq(Stored) /\ ToSet(buf) \subseteq {UNSET}
  BY DEF Types, read_plus_minus, Covered
<1>2. <<first>> \in Seq(Spelled) /\ first \in Stored
  BY <1>1, InputIsSpelled, Zenon DEF Stored
<1>3. isstop(c) \/ c = EOF => \/ Begins(start, <<first>>, Unread(pushback(c, s)))
                              \/ Begins(start, Append(<<first>>, " "), Unread(pushback(c, s)))
  <2> HIDE DEF c, s
  <2> QED BY <1>1, <1>2, Stops DEF c, s
<1>4. c # EOF => c \in Input /\ Begins(start, Append(<<first>>, c), Unread(s))
  <2>1. c # EOF => /\ c \in Input /\ Unread(stream) = <<c>> \o Unread(s)
                   /\ Unread(s) \in Seq(Input)
    BY <1>1, NextCharacter, UnreadIsText
  <2> HIDE DEF c, s
  <2> QED BY <1>1, <1>2, <2>1, Takes DEF Begun
<1>5. Spelling(t) = <<first>>
  BY DEF Spelling, Token
<1>6. c = EOF => ~isdigit(c) /\ ~issymb(c)
  <2>1. DigitChars \in Seq({"0", "1", "2", "3", "4", "5", "6", "7", "8", "9"})
    BY DEF DigitChars
  <2> QED BY <2>1 DEF isdigit, issymb, Digits, ToSet, EOF, Letters, Signs
<1> HIDE DEF c, s, t
<1>7. CASE (isstop(c) \/ c = EOF) /\ Returns(pushback(c, s), t, "TOKEN_OK")
  BY <1>3, <1>5, <1>7, ReturnsCovers
<1>8. CASE Bails
  BY <1>8 DEF Bails, Covered, HasToken
<1>9. CASE c # EOF /\ \E pc \in {"readnumber", "readsymbol"} :
             Continues(s, pc, buf \o <<first, c>>)
  <2>1. ASSUME NoGaps(buf \o <<first, c>>)
        PROVE  Begins(start, buf \o <<first, c>>, Unread(s))
    <3>1. c \in Stored
      BY <1>4, <1>9 DEF Stored
    <3>2. /\ buf \o <<first, c>> = Append(Append(buf, first), c)
          /\ Append(buf, first) \in Seq(Stored)
          /\ ToSet(Append(Append(buf, first), c)) = ToSet(Append(buf, first)) \cup {c}
          /\ ToSet(Append(buf, first)) = ToSet(buf) \cup {first}
      BY <1>1, <1>2, <3>1, TwoMoreTypes, AppendedTypes
    <3>3. buf = <<>>
      BY <1>1, <2>1, <3>2, OnlyGaps DEF NoGaps
    <3>4. Append(buf, first) = <<first>>
      BY <3>3
    <3> QED BY <1>4, <1>9, <3>2, <3>4
  <2> QED BY <1>9, <2>1, ContinuesCovers
<1>10. CASE Fails(s, "ERROR_UNPARSABLE_TOKEN")
  BY <1>10, FailsCovers
<1> QED BY <1>6, <1>7, <1>8, <1>9, <1>10 DEF read_plus_minus, c, s, t

(* The loops of symbols and numbers.                                       *)
LEMMA LoopCovers ==
  ASSUME Types, Covered, UNCHANGED start, NEW pc \in {"readsymbol", "readnumber"}, tpc = pc,
         NEW c, NEW s, c = Next_char.c, s = Next_char.s,
         \/ \E t, e : /\ Returns(pushback(c, s), t, e) /\ (isstop(c) \/ c = EOF)
                      /\ t.type # "TOKEN_STRING" /\ t.text = buf
         \/ c # EOF /\ Continues(s, pc, Append(buf, c))
  PROVE  Covered'
<1>1. /\ IsStream(stream) /\ buf \in Seq(Stored) /\ (NoGaps(buf) => Begun(buf))
  BY DEF Types, Covered
<1>2. CASE \E t, e : /\ Returns(pushback(c, s), t, e) /\ (isstop(c) \/ c = EOF)
                     /\ t.type # "TOKEN_STRING" /\ t.text = buf
  <2>1. PICK t, e : Returns(pushback(c, s), t, e) /\ t.type # "TOKEN_STRING" /\ t.text = buf
    BY <1>2
  <2>2. Spelling(t) = buf
    BY <2>1 DEF Spelling
  <2>3. NoGaps(buf) => \/ Begins(start, buf, Unread(pushback(c, s)))
                       \/ Begins(start, Append(buf, " "), Unread(pushback(c, s)))
    BY <1>1, <1>2, TextWithoutGaps, Stops
  <2> QED BY <2>1, <2>2, <2>3, ReturnsCovers
<1>3. CASE c # EOF /\ Continues(s, pc, Append(buf, c))
  <2>1. /\ c \in Input /\ Unread(stream) = <<c>> \o Unread(s)
        /\ Unread(s) \in Seq(Input)
    BY <1>1, <1>3, NextCharacter, UnreadIsText
  <2>2. ASSUME NoGaps(Append(buf, c))
        PROVE  Begins(start, Append(buf, c), Unread(s))
    <3>1. ToSet(Append(buf, c)) = ToSet(buf) \cup {c}
      BY <1>1, <2>1, AppendedTypes DEF Stored
    <3>2. NoGaps(buf)
      BY <2>2, <3>1 DEF NoGaps
    <3>3. buf \in Seq(Spelled)
      BY <1>1, <3>2, TextWithoutGaps
    <3> QED BY <1>1, <2>1, <3>2, <3>3, Takes DEF Begun
  <2> QED BY <1>3, <2>2, ContinuesCovers
<1> QED BY <1>2, <1>3

LEMMA readsymbol_Covers ==
  ASSUME Types, Covered, readsymbol, UNCHANGED start
  PROVE  Covered'
<1> DEFINE c == Next_char.c
           s == Next_char.s
           t == Token("TOKEN_SYMBOL", buf, 0)
<1>1. tpc = "readsymbol"
  BY DEF readsymbol
<1>2. t.type # "TOKEN_STRING" /\ t.text = buf
  BY DEF Token
<1>3. issymb(c) => c # EOF
  BY DEF issymb, Letters, Signs, EOF
<1> HIDE DEF c, s, t
<1>4. CASE \E e \in {"ERROR_TOKEN_TO_LONG", "EOOM", "ERROR_MALFORMED_SYMBOL"} : \E x : Fails(x, e)
  BY <1>4, FailsCovers
<1>5. CASE (isstop(c) \/ c = EOF) /\ Returns(pushback(c, s), t, CodeAt(c))
  BY <1>1, <1>2, <1>5, LoopCovers DEF c, s
<1>6. CASE issymb(c) /\ Continues(s, "readsymbol", Append(buf, c))
  BY <1>1, <1>3, <1>6, LoopCovers DEF c, s
<1> QED BY <1>4, <1>5, <1>6 DEF readsymbol, c, s, t

LEMMA readnumber_Covers ==
  ASSUME Types, Covered, readnumber, UNCHANGED start
  PROVE  Covered'
<1> DEFINE c == Next_char.c
           s == Next_char.s
<1>1. tpc = "readnumber"
  BY DEF readnumber
<1>2. \A v : Token("TOKEN_NUMBER", buf, v).type # "TOKEN_STRING"
             /\ Token("TOKEN_NUMBER", buf, v).text = buf
  BY DEF Token
<1>3. isdigit(c) => c # EOF
  <2>1. DigitChars \in Seq({"0", "1", "2", "3", "4", "5", "6", "7", "8", "9"})
    BY DEF DigitChars
  <2> QED BY <2>1 DEF isdigit, Digits, ToSet, EOF
<1> HIDE DEF c, s
<1>4. CASE \E e \in {"ERROR_TOKEN_TO_LONG", "ERROR_MALFORMED_NUMBER"} : \E x : Fails(x, e)
  BY <1>4, FailsCovers
<1>5. CASE (isstop(c) \/ c = EOF) /\ \E v, e : Returns(pushback(c, s), Token("TOKEN_NUMBER", buf, v), e)
  BY <1>1, <1>2, <1>5, LoopCovers DEF c, s
<1>6. CASE isdigit(c) /\ Continues(s, "readnumber", Append(buf, c))
  BY <1>1, <1>3, <1>6, LoopCovers DEF c, s
<1> QED BY <1>4, <1>5, <1>6 DEF readnumber, c, s

LEMMA readstring_Covers ==
  ASSUME Types, Covered, readstring, UNCHANGED start
  PROVE  Covered'
<1> DEFINE c == Next_char.c
           s == Next_char.s
           t == Token("TOKEN_STRING", buf, 0)
<1>1. /\ tpc = "readstring" /\ IsStream(stream) /\ buf \in Seq(Stored)
      /\ NoGaps(buf) => Begun(<<QUOTE>> \o buf)
  BY DEF Types, readstring, Covered
<1>2. c # EOF => /\ c \in Input /\ Unread(stream) = <<c>> \o Unread(s)
                 /\ Unread(s) \in Seq(Input)
  BY <1>1, NextCharacter, UnreadIsText
<1>3. <<QUOTE>> \in Seq(Spelled)
  BY InputIsSpelled, Zenon
<1> HIDE DEF c, s
<1>4. ASSUME c # EOF, NoGaps(buf)
      PROVE  /\ Begins(start, (<<QUOTE>> \o buf) \o <<c>>, Unread(s))
             /\ (<<QUOTE>> \o buf) \o <<c>> = <<QUOTE>> \o (buf \o <<c>>)
             /\ Append(buf, c) = buf \o <<c>>
  <2>1. buf \in Seq(Spelled) /\ c \in Spelled /\ <<c>> \in Seq(Spelled)
    BY <1>1, <1>2, <1>4, TextWithoutGaps, InputIsSpelled, Zenon
  <2>2. <<QUOTE>> \o buf \in Seq(Spelled)
    BY <1>3, <2>1, ConcatProperties
  <2>3. Begins(start, Append(<<QUOTE>> \o buf, c), Unread(s))
    BY <1>1, <1>2, <1>4, <2>2, Takes DEF Begun
  <2>4. Append(<<QUOTE>> \o buf, c) = (<<QUOTE>> \o buf) \o <<c>>
    BY <2>1, <2>2, AppendIsConcat
  <2>5. Append(buf, c) = buf \o <<c>>
    BY <2>1, AppendIsConcat
  <2>6. (<<QUOTE>> \o buf) \o <<c>> = <<QUOTE>> \o (buf \o <<c>>)
    BY <1>3, <2>1, ConcatAssociative
  <2> QED BY <2>3, <2>4, <2>5, <2>6
<1>5. CASE \E e \in {"ERROR_TOKEN_TO_LONG", "ERROR_UNREDABLE_CHAR", "EOOM"} : \E x : Fails(x, e)
  BY <1>5, FailsCovers
<1>6. CASE c # EOF /\ c = QUOTE /\ Returns(s, t, "TOKEN_OK")
  <2>1. Spelling(t) = <<QUOTE>> \o buf \o <<QUOTE>> /\ t.text = buf
    BY DEF Spelling, Token, t
  <2> HIDE DEF t
  <2> QED BY <1>4, <1>6, <2>1, ReturnsCovers
<1>7. CASE c # EOF /\ Continues(s, "readstring", Append(buf, c))
  <2>1. ASSUME NoGaps(Append(buf, c))
        PROVE  Begins(start, <<QUOTE>> \o Append(buf, c), Unread(s))
    <3>1. ToSet(Append(buf, c)) = ToSet(buf) \cup {c}
      BY <1>1, <1>2, <1>7, AppendedTypes DEF Stored
    <3>2. NoGaps(buf)
      BY <2>1, <3>1 DEF NoGaps
    <3> QED BY <1>4, <1>7, <3>2
  <2> QED BY <1>7, <2>1, ContinuesCovers
<1>8. QUOTE # EOF
  BY DEF QUOTE, EOF
<1> QED BY <1>5, <1>6, <1>7, <1>8 DEF readstring, c, s, t

-----------------------------------------------------------------------------
LEMMA CallCovers ==
  ASSUME LoopTypes, Call
  PROVE  Covered'
<1>1. start' = Unread(stream) /\ stream' = stream /\ tpc' = "get_token"
  BY DEF Call, Calls_get_token
<1>2. Unread(stream) \in Seq(Input) /\ <<>> \in Seq(Input)
  BY UnreadIsText DEF LoopTypes, Types
<1>3. Unread(stream) = <<>> \o (<<>> \o Unread(stream))
  BY <1>2, ConcatEmptySeq
<1>4. Blank(<<>>)
  <2>1. DOMAIN <<>> = {}
    OBVIOUS
  <2> QED BY <2>1 DEF Blank
<1>5. Begins(start', <<>>, Unread(stream'))
  BY <1>1, <1>2, <1>3, <1>4 DEF Begins
<1> QED BY <1>1, <1>5 DEF Covered, Begun, HasToken

LEMMA ComesCovers ==
  ASSUME LoopTypes, Covered, Comes
  PROVE  Covered'
<1>1. CASE UNCHANGED <<stream, start>>
  BY <1>1 DEF Comes, Covered, Begun, HasToken, Complete, Spelling
<1>2. CASE \E c \in Input : Unread(stream') = <<c>> /\ start' = Append(start, c)
  <2>1. PICK c \in Input : Unread(stream') = <<c>> /\ start' = Append(start, c)
    BY <1>2
  <2>2. /\ UNCHANGED <<tpc, first, buf, tok, ret>> /\ tpc # "returned"
        /\ Unread(stream) = <<>> /\ start \in Seq(Input)
    BY DEF Comes, Reading, LoopTypes, Input
  <2>3. ASSUME NEW text \in Seq(Spelled), Begun(text)
        PROVE  Begins(start', text, Unread(stream'))
    BY <2>1, <2>2, <2>3, Grows DEF Begun
  <2>4. <<>> \in Seq(Spelled)
    OBVIOUS
  <2>5. tpc = "zero" => <<"0">> \in Seq(Spelled)
    <3>1. tpc = "zero" => "0" \in Input
      BY DEF LoopTypes, Types
    <3> QED BY <3>1, InputIsSpelled, Zenon
  <2>6. tpc = "read_plus_minus" => <<first>> \in Seq(Spelled)
    <3>1. tpc = "read_plus_minus" => first \in Input
      BY DEF LoopTypes, Types
    <3> QED BY <3>1, InputIsSpelled, Zenon
  <2>7. NoGaps(buf) => buf \in Seq(Spelled) /\ <<QUOTE>> \o buf \in Seq(Spelled)
    <3>1. NoGaps(buf) => buf \in Seq(Spelled)
      BY TextWithoutGaps DEF LoopTypes, Types
    <3>2. <<QUOTE>> \in Seq(Spelled)
      BY InputIsSpelled, Zenon
    <3> QED BY <3>1, <3>2, ConcatProperties
  <2>8. ~HasToken'
    BY <2>2 DEF HasToken
  <2>9. NoGaps(buf)' = NoGaps(buf)
    BY <2>2 DEF NoGaps
  <2> QED BY <2>2, <2>3, <2>4, <2>5, <2>6, <2>7, <2>8, <2>9 DEF Covered, Begun
<1> QED BY <1>1, <1>2, ComesTypes

LEMMA CoveredInvariance == Spec => [](LoopTypes /\ Covered)
<1>1. Init => Covered
  BY DEF Init, Covered, HasToken
<1>2. ASSUME LoopTypes, Covered, [Next]_vars
      PROVE  Covered'
  <2>1. CASE Call
    BY <1>2, <2>1, CallCovers
  <2>2. CASE Comes
    BY <1>2, <2>2, ComesCovers
  <2>3. CASE get_token_step
    BY <1>2, <2>3, get_token_Covers, zero_Covers, read_plus_minus_Covers,
       readsymbol_Covers, readnumber_Covers, readstring_Covers
    DEF get_token_step, Tokenize, LoopTypes
  <2>4. CASE UNCHANGED vars
    BY <1>2, <2>4
    DEF vars, tokenizerVars, Covered, Begun, NoGaps, HasToken, Complete, Spelling
  <2> QED BY <1>2, <2>1, <2>2, <2>3, <2>4 DEF Next
<1> QED BY <1>1, <1>2, TypesInvariance, PTL DEF Spec

(* As the property says it, with the blanks as a part of the text.         *)
Ended(spelling, blank) == IF blank = 0 THEN spelling ELSE Append(spelling, " ")

ReadFrom(all, spelling, blank, rest) ==
  \E skipped \in 0..Len(all) :
    /\ \A i \in 1..skipped : all[i] \in Unknown \cup {" "}
    /\ all = SubSeq(all, 1, skipped) \o spelling \o [i \in 1..blank |-> " "] \o rest

LEMMA SameFunction ==
  \A D, S : \A x, y \in [D -> S] : (\A i \in D : x[i] = y[i]) => x = y
OBVIOUS

LEMMA Blanks ==
  ASSUME NEW blank \in 0..1
  PROVE  [i \in 1..blank |-> " "] = IF blank = 0 THEN <<>> ELSE <<" ">>
<1>1. CASE blank = 0
  BY <1>1
<1>2. CASE blank = 1
  <2> DEFINE x == [i \in 1..blank |-> " "]
             y == <<" ">>
  <2>1. x \in [1..1 -> {" "}] /\ x[1] = " "
    BY <1>2
  <2>2. y \in Seq({" "}) /\ Len(y) = 1 /\ y[1] = " "
    OBVIOUS
  <2> HIDE DEF x, y
  <2>3. y \in [1..1 -> {" "}]
    BY <2>2, LenProperties
  <2>4. \A i \in 1..1 : x[i] = y[i]
    <3>1. \A i \in 1..1 : i = 1
      OBVIOUS
    <3> QED BY <2>1, <2>2, <3>1, Zenon
  <2>5. x = y
    <3> DEFINE D == 1..1
               S == {" "}
    <3>1. x \in [D -> S] /\ y \in [D -> S] /\ \A i \in D : x[i] = y[i]
      BY <2>1, <2>3, <2>4
    <3> HIDE DEF D, S
    <3> QED BY <3>1, SameFunction
  <2>6. (IF blank = 0 THEN <<>> ELSE y) = y
    BY <1>2
  <2> QED BY <2>5, <2>6, Zenon DEF x, y
<1>3. blank = 0 \/ blank = 1
  OBVIOUS
<1> QED BY <1>1, <1>2, <1>3, Zenon

LEMMA BlankPrefix ==
  ASSUME NEW p \in Seq(Input), NEW t \in Seq(Spelled), Blank(p)
  PROVE  LET all == p \o t  n == Len(p) IN
         /\ n \in 0..Len(all) /\ \A i \in 1..n : all[i] \in Unknown \cup {" "}
         /\ SubSeq(all, 1, n) = p
<1> DEFINE all == p \o t
           n == Len(p)
<1>1. p \in Seq(Spelled)
  BY InputIsSpelled
<1>2. /\ n \in Nat /\ DOMAIN p = 1..n /\ Len(t) \in Nat /\ Len(all) = n + Len(t)
      /\ \A i \in 1..n : all[i] = p[i]
  BY <1>1, ConcatProperties, LenProperties
<1>3. SubSeq(all, 1, n) = p
  <2>1. CASE n = 0
    BY <1>1, <2>1, SubSeqEmpty, EmptySeq
  <2>2. CASE n > 0
    <3>1. 1 \in 1..Len(p) /\ Len(p) \in 1..Len(p)
      BY <1>2, <2>2
    <3> QED BY <1>1, <3>1, SubSeqOfConcat1, SubSeqFull
  <2> QED BY <1>2, <2>1, <2>2
<1> HIDE DEF all, n
<1>4. n \in 0..Len(all)
  BY <1>2
<1>5. \A i \in 1..n : all[i] \in Unknown \cup {" "}
  BY <1>2, Zenon DEF Blank
<1> QED BY <1>3, <1>4, <1>5 DEF all, n

LEMMA Regrouped ==
  \A p, a, b, rest \in Seq(Spelled) :
    p \o ((a \o b) \o rest) = ((p \o a) \o b) \o rest
<1>1. \A x, y, z \in Seq(Spelled) : (x \o y) \o z = x \o (y \o z)
  BY ConcatAssociative
<1>2. \A x, y \in Seq(Spelled) : x \o y \in Seq(Spelled)
  BY ConcatProperties
<1> TAKE p, a, b, rest \in Seq(Spelled)
<1>3. (p \o (a \o b)) \o rest = p \o ((a \o b) \o rest)
  <2>1. a \o b \in Seq(Spelled)
    BY <1>2, Zenon
  <2>2. \A ab \in Seq(Spelled) : (p \o ab) \o rest = p \o (ab \o rest)
    BY <1>1, Zenon
  <2> QED BY <2>1, <2>2
<1>4. (p \o a) \o b = p \o (a \o b)
  BY <1>1, Zenon
<1> QED BY <1>3, <1>4, Zenon

LEMMA AsText ==
  ASSUME NEW all, NEW spelling \in Seq(Spelled), NEW rest \in Seq(Input),
         NEW blank \in 0..1,
         Begins(all, Ended(spelling, blank), rest)
  PROVE  ReadFrom(all, spelling, blank, rest)
<1> DEFINE sp == [i \in 1..blank |-> " "]
           text == Ended(spelling, blank)
<1>1. sp \in Seq(Spelled) /\ text = spelling \o sp
  <2>1. /\ <<" ">> \in Seq(Spelled) /\ <<>> \in Seq(Spelled)
        /\ spelling \o <<>> = spelling /\ Append(spelling, " ") = spelling \o <<" ">>
    BY InputIsSpelled, EmptySeq, ConcatEmptySeq, AppendIsConcat, Zenon
  <2> QED BY <2>1, Blanks, Zenon DEF Ended
<1>2. PICK p \in Seq(Input) : Blank(p) /\ all = p \o (text \o rest)
  BY DEF Begins
<1> HIDE DEF sp, text
<1>3. p \in Seq(Spelled) /\ rest \in Seq(Spelled)
  BY InputIsSpelled, Zenon
<1>4. text \o rest \in Seq(Spelled)
  BY <1>1, <1>3, ConcatProperties, Zenon
<1> DEFINE n == Len(p)
<1>5. /\ n \in 0..Len(all) /\ \A i \in 1..n : all[i] \in Unknown \cup {" "}
      /\ SubSeq(all, 1, n) = p
  BY <1>2, <1>4, BlankPrefix, Zenon
<1>6. all = ((p \o spelling) \o sp) \o rest
  <2>1. p \o ((spelling \o sp) \o rest) = ((p \o spelling) \o sp) \o rest
    <3> DEFINE S == Seq(Spelled)
    <3>1. p \in S /\ spelling \in S /\ sp \in S /\ rest \in S
      BY <1>1, <1>3
    <3>2. \A w, a, b, r \in S : w \o ((a \o b) \o r) = ((w \o a) \o b) \o r
      BY Regrouped
    <3> HIDE DEF S
    <3>3. \A a, b, r \in S : p \o ((a \o b) \o r) = ((p \o a) \o b) \o r
      BY <3>1, <3>2, Zenon
    <3>4. \A b, r \in S : p \o ((spelling \o b) \o r) = ((p \o spelling) \o b) \o r
      BY <3>1, <3>3, Zenon
    <3>5. \A r \in S : p \o ((spelling \o sp) \o r) = ((p \o spelling) \o sp) \o r
      BY <3>1, <3>4, Zenon
    <3> QED BY <3>1, <3>5, Zenon
  <2> QED BY <1>1, <1>2, <2>1, Zenon
<1> HIDE DEF n
<1>7. all = SubSeq(all, 1, n) \o spelling \o sp \o rest
  BY <1>5, <1>6, Zenon
<1> QED BY <1>5, <1>7, Zenon DEF sp, ReadFrom

(* A token is what the text says and get_token reads on right behind it,   *)
(* for every text, in a file or in a string: before it only blanks and     *)
(* unknown characters are lost, behind it at most the blank that ended it, *)
(* and never a parenthesis.                                                *)
THEOREM TokensAreTheText == Spec => []TokensCoverText
<1>1. ASSUME LoopTypes, Covered, HasToken, Complete
      PROVE  \E skipped \in 0..Len(start), blank \in 0..1 :
               /\ \A i \in 1..skipped : start[i] \in Unknown \cup {" "}
               /\ start = SubSeq(start, 1, skipped) \o Spelling(tok)
                            \o [i \in 1..blank |-> " "] \o Unread(stream)
  <2>1. start \in Seq(Input) /\ Unread(stream) \in Seq(Input)
    BY <1>1, UnreadIsText DEF LoopTypes, Types, Input
  <2>2. Spelling(tok) \in Seq(Spelled)
    <3>1. tok.text \in Seq(Spelled) /\ <<QUOTE>> \in Seq(Spelled)
      BY <1>1, TextWithoutGaps, InputIsSpelled, Zenon
      DEF LoopTypes, Types, Complete, NoGaps, Tokens
    <3> QED BY <3>1, ConcatProperties DEF Spelling
  <2>3. \E blank \in 0..1 : Begins(start, Ended(Spelling(tok), blank), Unread(stream))
    <3>1. /\ Ended(Spelling(tok), 0) = Spelling(tok)
          /\ Ended(Spelling(tok), 1) = Append(Spelling(tok), " ")
      BY DEF Ended
    <3>2. 0 \in 0..1 /\ 1 \in 0..1
      OBVIOUS
    <3>3. Begun(Spelling(tok)) \/ Begun(Append(Spelling(tok), " "))
      BY <1>1 DEF Covered
    <3> QED BY <3>1, <3>2, <3>3, Zenon DEF Begun
  <2>4. \E blank \in 0..1 : ReadFrom(start, Spelling(tok), blank, Unread(stream))
    BY <2>1, <2>2, <2>3, AsText, Zenon
  <2> QED BY <2>4, Zenon DEF ReadFrom
<1>2. LoopTypes /\ Covered => TokensCoverText
  BY <1>1 DEF TokensCoverText
<1> QED BY <1>2, CoveredInvariance, PTL

-----------------------------------------------------------------------------
(***************************************************************************)
(* Every text ends.  A character that may come still counts twice, so that *)
(* its coming is progress.                                                 *)
(***************************************************************************)
Left == 4 * (2 * coming + Ahead(stream)) + Phase

LeftGetsLess == Left \in Nat /\ Left' \in Nat /\ Left' < Left

Lower(a, b, p, q) == a < b \/ (a = b /\ p < q)

LEMMA LowerIsLess ==
  ASSUME NEW a \in Nat, NEW b \in Nat, NEW p \in 0..3, NEW q \in 0..3, Lower(a, b, p, q)
  PROVE  4 * a + p \in Nat /\ 4 * b + q \in Nat /\ 4 * a + p < 4 * b + q
BY DEF Lower

ComingOK == coming \in Nat

LEMMA ComingInvariance == Spec => []ComingOK
<1>1. Init => ComingOK
  BY TokenLoopAssumption DEF Init, ComingOK
<1>2. ComingOK /\ [Next]_vars => ComingOK'
  BY DEF ComingOK, Next, Call, Comes, get_token_step, vars
<1> QED BY <1>1, <1>2, PTL DEF Spec

(* Reading a text of n characters takes at most 8 * n + 2 steps, whatever  *)
(* it contains, until the loop of test_token.c ends: no parenthesis is     *)
(* put back for ever, and no function waits for a character after the end  *)
(* of the text.  With the fairness of Spec this is why EveryTextEnds holds.*)
THEOREM LoopIsBounded == Spec => [][LeftGetsLess]_vars
<1>1. ASSUME LoopTypes, LoopTypes', ComingOK, ComingOK', Next
      PROVE  LeftGetsLess
  <2>0. coming \in Nat /\ coming' \in Nat
    BY <1>1 DEF ComingOK
  <2> DEFINE a == 2 * coming + Ahead(stream)
             b == 2 * coming' + Ahead(stream')
  <2>1. Ahead(stream) \in Nat /\ Ahead(stream') \in Nat
    BY <1>1, UnreadIsText DEF LoopTypes, Types, Ahead
  <2>2. Phase \in 0..3 /\ Phase' \in 0..3 /\ a \in Nat /\ b \in Nat
    BY <2>0, <2>1, PhaseIsNatural
  <2>3. SUFFICES Lower(b, a, Phase', Phase)
    <3>1. 4 * a + Phase = Left /\ 4 * b + Phase' = Left'
      BY DEF Left, Ahead
    <3> HIDE DEF a, b
    <3> QED BY <2>2, <2>3, <3>1, LowerIsLess DEF LeftGetsLess
  <2>4. CASE Call
    <3>1. Phase = 2 /\ Phase' = 1 /\ stream' = stream /\ coming' = coming
      BY <2>4 DEF Call, Calls_get_token, Phase
    <3> QED BY <2>2, <3>1 DEF Lower
  <2>5. CASE Comes
    <3>1. Ahead(stream) = 0 /\ coming > 0
      BY <2>5 DEF Comes, Ahead
    <3>2. CASE UNCHANGED stream /\ coming' = 0
      BY <2>0, <2>1, <3>1, <3>2 DEF Lower
    <3>3. CASE Ahead(stream') = 1 /\ coming' <= coming - 1
      <4>1. ASSUME NEW k \in Nat, NEW l \in Nat, l <= k - 1
            PROVE  2 * l + 1 < 2 * k + 0
        BY <4>1
      <4>2. b < a
        BY <2>0, <3>1, <3>3, <4>1
      <4> QED BY <4>2 DEF Lower
    <3>4. \/ UNCHANGED stream /\ coming' = 0
          \/ Ahead(stream') = 1 /\ coming' <= coming - 1
      <4>1. CASE coming' = 0 /\ UNCHANGED <<stream, start>>
        BY <4>1
      <4>2. ASSUME NEW c \in Input, stream' = [stream EXCEPT !.text = Append(@, c)]
            PROVE  Ahead(stream') = 1
        <5>1. IsStream(stream) /\ Unread(stream) = <<>>
          BY <1>1, <2>5 DEF LoopTypes, Types, Comes
        <5>2. Unread(stream') = <<c>>
          BY <4>2, <5>1, OneMoreComes
        <5> QED BY <5>2 DEF Ahead
      <4>3. CASE \E c \in Input : /\ stream' = [stream EXCEPT !.text = Append(@, c)]
                                  /\ coming' = coming - 1
        BY <2>0, <3>1, <4>2, <4>3
      <4>4. Chars \subseteq Input /\ NUL \in Input
        BY DEF Input
      <4> QED BY <2>5, <4>1, <4>3, <4>4 DEF Comes
    <3> QED BY <3>2, <3>3, <3>4
  <2>6. CASE get_token_step
    <3>1. Moves /\ coming' = coming
      BY <1>1, <2>6, TokenizeMoves DEF get_token_step, LoopTypes, Types
    <3> QED BY <2>0, <2>1, <3>1 DEF Moves, Lower
  <2> QED BY <1>1, <2>4, <2>5, <2>6 DEF Next
<1> QED BY <1>1, TypesInvariance, ComingInvariance, PTL DEF Spec
=============================================================================
