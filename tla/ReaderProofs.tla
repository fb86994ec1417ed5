----------------------------- MODULE ReaderProofs -----------------------------
(***************************************************************************)
(* Three things about the readers, for every size of the handle block,     *)
(* every alphabet and every text.  First, that the handles follow the      *)
(* nesting of the lists: no pop of read_list_intern is out of order, after *)
(* any number of errors in lists, and none of its handles is left when the *)
(* driver goes on.  There an array of cells is only a sequence             *)
(* (IsSequence): what is in the cells does not matter to the handles.      *)
(* Second, with the cells, that a form prints as the text that was read    *)
(* (RInv).  Third, that a list is in its handles when an atom is           *)
(* allocated.                                                              *)
(***************************************************************************)
EXTENDS Reader, TokenizerProofs, WellFoundedInduction

-----------------------------------------------------------------------------
(***************************************************************************)
(* The handle stack and the cells.                                         *)
(***************************************************************************)
LEMMA SetProperties ==
  ASSUME NEW H \in HandleStacks, NEW handle \in 0..HandleFrameSize, NEW v \in Int
  PROVE  /\ handle_set(H, handle, v) \in HandleStacks
         /\ handle_set(H, handle, v).st = H.st
         /\ handle_set(H, handle, v).top = H.top
BY DEF HandleStacks, handle_set

LEMMA GetProperties ==
  ASSUME NEW H \in HandleStacks, NEW handle \in 0..HandleFrameSize
  PROVE  handle_get(H, handle) \in Int
BY DEF HandleStacks, handle_get

(* A push, and its pop, of the same function.                              *)
LEMMA PushAndPop ==
  ASSUME NEW H \in HandleStacks, NEW c \in Int, H.st = "ok"
  PROVE  /\ handle_push(H, c) \in HandleStacks
         /\ handle_push(H, c).st = "ok" => handle_push(H, c).top = H.top + 1
         /\ H.top < HandleFrameSize => handle_push(H, c).st = "ok"
         /\ handle_pop(handle_push(H, c), H.top + 1) \in HandleStacks
         /\ handle_pop(handle_push(H, c), H.top + 1).st = "ok"
              => handle_pop(handle_push(H, c), H.top + 1).top = H.top
<1>1. H.top \in 0..HandleFrameSize /\ HandleFrameSize \in Nat
  BY HandleFrameSizeAssumption DEF HandleStacks
<1>2. CASE H.top + 1 > HandleFrameSize
  BY <1>1, <1>2 DEF handle_push, handle_pop, HandleStacks
<1>3. CASE H.top + 1 <= HandleFrameSize
  <2> DEFINE P == [top |-> H.top + 1, slot |-> [H.slot EXCEPT ![H.top + 1] = c], st |-> "ok"]
             Q == [top |-> H.top, slot |-> [P.slot EXCEPT ![H.top + 1] = NULL], st |-> "ok"]
  <2>1. handle_push(H, c) = P
    BY <1>1, <1>3 DEF handle_push
  <2>2. P \in HandleStacks
    BY <1>1, <1>3 DEF HandleStacks
  <2>3. handle_pop(P, H.top + 1) = Q
    BY <1>1, <1>3 DEF handle_pop
  <2>4. Q \in HandleStacks
    BY <1>1, <2>2 DEF HandleStacks, NULL
  <2> QED BY <1>1, <2>1, <2>2, <2>3, <2>4
<1> QED BY <1>1, <1>2, <1>3

LEMMA PopOne ==
  ASSUME NEW H \in HandleStacks, H.st = "ok", H.top > 0
  PROVE  /\ handle_pop(H, H.top) \in HandleStacks
         /\ handle_pop(H, H.top).st = "ok" /\ handle_pop(H, H.top).top = H.top - 1
BY HandleFrameSizeAssumption DEF handle_pop, HandleStacks, NULL

LEMMA Changed ==
  ASSUME NEW s, NEW k, NEW x, IsSequence(s)
  PROVE  IsSequence([s EXCEPT ![k] = x]) /\ Len([s EXCEPT ![k] = x]) = Len(s)
<1> DEFINE S == {s[i] : i \in DOMAIN s} \cup {x}
<1>1. s \in Seq(S)
  BY DEF IsSequence
<1>2. Len(s) \in Nat /\ s \in [1..Len(s) -> S]
  BY <1>1
<1>3. [s EXCEPT ![k] = x] \in [1..Len(s) -> S]
  BY <1>2
<1>4. [s EXCEPT ![k] = x] \in Seq(S)
  BY <1>2, <1>3, SeqDef
<1>5. Len([s EXCEPT ![k] = x]) = Len(s)
  BY <1>2, <1>3, <1>4
<1> QED BY <1>4, <1>5, SequenceOf

LEMMA AtomProperties ==
  ASSUME NEW h, NEW t, IsSequence(h)
  PROVE  IsSequence(WithAtom(h, t).h) /\ WithAtom(h, t).cell \in Int
<1>1. Len(h) \in Nat /\ DOMAIN h = 1..Len(h)
  BY LenOfSequence
<1>2. CASE t.type = "TOKEN_SYMBOL" /\ \E i \in DOMAIN h : h[i].atom = Written(t)
  <2>1. (CHOOSE i \in DOMAIN h : h[i].atom = Written(t)) \in DOMAIN h
    BY <1>2
  <2> QED BY <1>1, <1>2, <2>1 DEF WithAtom
<1>3. CASE ~(t.type = "TOKEN_SYMBOL" /\ \E i \in DOMAIN h : h[i].atom = Written(t))
  BY <1>1, <1>3, Appended DEF WithAtom
<1> QED BY <1>2, <1>3

LEMMA LinkedProperties ==
  ASSUME NEW h, NEW f, IsSequence(h)
  PROVE  IsSequence(Linked(h, f))
BY Changed DEF Linked

-----------------------------------------------------------------------------
(***************************************************************************)
(* The calls of read_list_intern and their handles.                        *)
(***************************************************************************)
Frames ==
  [current : Int, first : Int, temp : Int, last : Int,
   hcurrent : Nat, hfirst : Nat, htemp : Nat, hlast : Nat]

(* The handles of the call whose first one lies above b.                   *)
HandlesFrom(f, b) ==
  /\ f \in Frames
  /\ f.hcurrent = b + 1 /\ f.hfirst = b + 2 /\ f.htemp = b + 3 /\ f.hlast = b + 4

(* The calls fs lie one above the other, the outermost one above b.        *)
Nested(fs, b) ==
  IsSequence(fs) /\ \A i \in 1..Len(fs) : HandlesFrom(fs[i], b + 4 * (i - 1))

IInv ==
  /\ hs \in HandleStacks /\ hs.st \in {"ok", "full"}
  /\ hs.st = "full" => rpc = "exited"
  /\ hs.top = IF rpc = "ended" THEN 0 ELSE Base + 4 * Len(frames)
  /\ Nested(frames, Base)
  /\ rpc = "list" => frames # <<>>
  /\ rpc \in {"read_intern", "form", "ended"} => frames = <<>>
  /\ IsSequence(heap) /\ form \in Int
  /\ driver \in {"load_lib_scm", "run_in_thread"}

LEMMA BaseIsNat == Base \in Nat
BY DEF Base

LEMMA NoFrames ==
  ASSUME NEW b \in Nat
  PROVE  Nested(<<>>, b) /\ Len(<<>>) = 0
<1>1. <<>> \in Seq({}) /\ Len(<<>>) = 0
  OBVIOUS
<1>2. IsSequence(<<>>)
  BY <1>1, SequenceOf
<1>3. 1..Len(<<>>) = {}
  BY <1>1
<1> QED BY <1>1, <1>2, <1>3 DEF Nested

LEMMA LastFrame ==
  ASSUME NEW fs, NEW b \in Nat, Nested(fs, b), fs # <<>>
  PROVE  /\ Len(fs) \in Nat /\ Len(fs) > 0
         /\ HandlesFrom(Last(fs), b + 4 * (Len(fs) - 1))
<1> DEFINE S == {fs[i] : i \in DOMAIN fs}
<1>1. fs \in Seq(S) /\ fs # <<>>
  BY DEF Nested, IsSequence
<1>2. Len(fs) \in Nat /\ Len(fs) > 0
  BY <1>1
<1>3. Len(fs) \in 1..Len(fs) /\ Last(fs) = fs[Len(fs)]
  BY <1>2 DEF Last
<1> QED BY <1>2, <1>3 DEF Nested

LEMMA FrontNested ==
  ASSUME NEW fs, NEW b \in Nat, Nested(fs, b), fs # <<>>
  PROVE  Nested(Front(fs), b) /\ Len(Front(fs)) = Len(fs) - 1
<1> DEFINE S == {fs[i] : i \in DOMAIN fs}
<1>1. fs \in Seq(S) /\ fs # <<>>
  BY DEF Nested, IsSequence
<1>2. Len(fs) \in Nat /\ Len(fs) > 0
  BY <1>1
<1>3. /\ Front(fs) \in Seq(S) /\ Len(Front(fs)) = Len(fs) - 1
      /\ \A i \in 1..(Len(fs) - 1) : Front(fs)[i] = fs[i]
  <2>1. \A i \in 1..(Len(fs) - 1) : fs[i] \in S
    BY <1>1, <1>2
  <2>2. /\ Front(fs) \in Seq(S)
        /\ Len(Front(fs)) = IF 1 <= Len(fs) - 1 THEN Len(fs) - 1 - 1 + 1 ELSE 0
        /\ \A i \in 1..(Len(fs) - 1 - 1 + 1) : Front(fs)[i] = fs[1 + i - 1]
    <3>1. 1 \in Int /\ Len(fs) - 1 \in Int
      BY <1>2
    <3> QED BY <2>1, <3>1, SubSeqProperties DEF Front
  <2>3. ASSUME NEW i \in 1..(Len(fs) - 1)
        PROVE  Front(fs)[i] = fs[i]
    <3>1. i \in 1..(Len(fs) - 1 - 1 + 1) /\ 1 + i - 1 = i
      BY <1>2
    <3> QED BY <2>2, <3>1
  <2>4. Len(Front(fs)) = Len(fs) - 1
    <3>1. 1 <= Len(fs) - 1 => Len(fs) - 1 - 1 + 1 = Len(fs) - 1
      BY <1>2
    <3>2. ~(1 <= Len(fs) - 1) => Len(fs) - 1 = 0
      BY <1>2
    <3> QED BY <2>2, <3>1, <3>2, Zenon
  <2> HIDE DEF S
  <2> QED BY <2>2, <2>3, <2>4
<1>4. \A i \in 1..(Len(fs) - 1) : i \in 1..Len(fs)
  BY <1>2
<1> QED BY <1>3, <1>4, SequenceOf DEF Nested

LEMMA AppendNested ==
  ASSUME NEW fs, NEW b \in Nat, NEW f, Nested(fs, b), HandlesFrom(f, b + 4 * Len(fs))
  PROVE  Nested(Append(fs, f), b) /\ Len(Append(fs, f)) = Len(fs) + 1 /\ Append(fs, f) # <<>>
<1> DEFINE S == {fs[i] : i \in DOMAIN fs} \cup {f}
<1>1. fs \in Seq(S) /\ f \in S
  BY DEF Nested, IsSequence
<1>2. /\ Len(fs) \in Nat /\ Append(fs, f) \in Seq(S) /\ Len(Append(fs, f)) = Len(fs) + 1
      /\ \A i \in 1..Len(fs) : Append(fs, f)[i] = fs[i]
      /\ Append(fs, f)[Len(fs) + 1] = f
  BY <1>1
<1>3. IsSequence(Append(fs, f)) /\ Append(fs, f) # <<>>
  BY Appended DEF Nested
<1>4. ASSUME NEW i \in 1..(Len(fs) + 1)
      PROVE  HandlesFrom(Append(fs, f)[i], b + 4 * (i - 1))
  <2>1. CASE i = Len(fs) + 1
    <3>1. 4 * (i - 1) = 4 * Len(fs)
      BY <1>2, <2>1
    <3> QED BY <1>2, <2>1, <3>1
  <2>2. CASE i # Len(fs) + 1
    <3>1. i \in 1..Len(fs)
      BY <1>2, <2>2
    <3> QED BY <1>2, <3>1 DEF Nested
  <2> QED BY <2>1, <2>2
<1> QED BY <1>2, <1>3, <1>4 DEF Nested

(* A call that has changed its locals only.                                *)
LEMMA ReplaceTop ==
  ASSUME NEW fs, NEW b \in Nat, NEW f, Nested(fs, b), fs # <<>>,
         HandlesFrom(f, b + 4 * (Len(fs) - 1))
  PROVE  /\ Nested(Append(Front(fs), f), b) /\ Len(Append(Front(fs), f)) = Len(fs)
         /\ Append(Front(fs), f) # <<>>
<1>1. Len(fs) \in Nat
  BY LastFrame
<1>2. Nested(Front(fs), b) /\ Len(Front(fs)) = Len(fs) - 1
  BY FrontNested
<1>3. HandlesFrom(f, b + 4 * Len(Front(fs))) /\ Len(Front(fs)) + 1 = Len(fs)
  BY <1>1, <1>2
<1> QED BY <1>2, <1>3, AppendNested

LEMMA ChangeNested ==
  ASSUME NEW fs, NEW b \in Nat, NEW n \in 1..Len(fs), NEW v \in Int, Nested(fs, b)
  PROVE  Nested([fs EXCEPT ![n].last = v], b) /\ Len([fs EXCEPT ![n].last = v]) = Len(fs)
<1> DEFINE f == [fs[n] EXCEPT !.last = v]
           gs == [fs EXCEPT ![n] = f]
<1>1. IsSequence(gs) /\ Len(gs) = Len(fs)
  BY Changed DEF Nested
<1>2. Len(fs) \in Nat /\ DOMAIN fs = 1..Len(fs)
  BY LenOfSequence DEF Nested
<1>3. ASSUME NEW i \in 1..Len(fs)
      PROVE  HandlesFrom(gs[i], b + 4 * (i - 1))
  <2>1. HandlesFrom(fs[i], b + 4 * (i - 1))
    BY DEF Nested
  <2>2. HandlesFrom([fs[i] EXCEPT !.last = v], b + 4 * (i - 1))
    BY <2>1 DEF HandlesFrom, Frames
  <2>3. gs[i] = IF i = n THEN f ELSE fs[i]
    BY <1>2
  <2> QED BY <2>1, <2>2, <2>3
<1>4. Nested(gs, b)
  BY <1>1, <1>3 DEF Nested
<1> QED BY <1>1, <1>4

-----------------------------------------------------------------------------
(***************************************************************************)
(* The ways to end a step.                                                 *)
(***************************************************************************)
(* A step that leaves the lists and the handles alone.                     *)
LEMMA AlonePreserves ==
  ASSUME IInv, UNCHANGED <<rpc, driver, frames, heap, hs, form>>
  PROVE  IInv'
BY DEF IInv, Base

LEMMA ExitsPreserves ==
  ASSUME IInv, rpc # "ended", Exits
  PROVE  IInv'
BY DEF IInv, Base, Exits

(* read_intern returns: the handles are those of the driver.               *)
LEMMA ReadsPreserves ==
  ASSUME IInv, NEW v \in Int, Reads(v), frames' = <<>>, IsSequence(heap'),
         hs' \in HandleStacks, hs'.st = "ok", hs'.top = Base
  PROVE  IInv'
<1>1. Base' = Base /\ Base \in Nat /\ driver' \in {"load_lib_scm", "run_in_thread"}
  BY BaseIsNat DEF Reads, Base, IInv
<1>2. Nested(frames', Base') /\ Len(frames') = 0
  BY <1>1, NoFrames
<1>3. hs'.top = Base' + 4 * Len(frames')
  BY <1>1, <1>2
<1> QED BY <1>1, <1>2, <1>3 DEF Reads, IInv

LEMMA NewFrameProperties ==
  ASSUME NEW H \in HandleStacks
  PROVE  HandlesFrom(NewFrame(H), H.top)
<1>1. H.top \in Nat
  BY HandleFrameSizeAssumption DEF HandleStacks
<1> QED BY <1>1 DEF NewFrame, HandlesFrom, Frames, NULL

(* What the four pushes of a list leave.                                   *)
LEMMA FourPushed ==
  ASSUME NEW H \in HandleStacks, H.st = "ok"
  PROVE  /\ push_n(H, NULL, 4) \in HandleStacks
         /\ push_n(H, NULL, 4).st \in {"ok", "full"}
         /\ push_n(H, NULL, 4).st = "ok" => push_n(H, NULL, 4).top = H.top + 4
<1> DEFINE filled == [i \in 0..HandleFrameSize |->
                        IF H.top < i /\ i <= H.top + 4 THEN NULL ELSE H.slot[i]]
<1>1. /\ H.top \in 0..HandleFrameSize /\ H.slot \in [0..HandleFrameSize -> Int]
      /\ H = [top |-> H.top, slot |-> H.slot, st |-> "ok"]
  BY DEF HandleStacks
<1>2. filled \in [0..HandleFrameSize -> Int]
  BY <1>1, HandleFrameSizeAssumption DEF NULL
<1>3. CASE H.top + 4 > HandleFrameSize
  <2>1. push_n(H, NULL, 4) = [top |-> H.top, slot |-> H.slot, st |-> "full"]
    BY <1>1, <1>3 DEF push_n
  <2> QED BY <1>1, <2>1 DEF HandleStacks
<1>4. CASE ~(H.top + 4 > HandleFrameSize)
  <2>1. push_n(H, NULL, 4) = [top |-> H.top + 4, slot |-> filled, st |-> "ok"]
    BY <1>4, Zenon DEF push_n
  <2>2. H.top + 4 \in 0..HandleFrameSize
    BY <1>1, <1>4, HandleFrameSizeAssumption
  <2> HIDE DEF filled
  <2> QED BY <1>2, <2>1, <2>2 DEF HandleStacks
<1> QED BY <1>3, <1>4

LEMMA FourBelow == ASSUME NEW N \in Nat, NEW t \in 0..N, t >= 4 PROVE t - 4 \in 0..N
OBVIOUS

(* What its four pops leave.                                               *)
LEMMA FourPopped ==
  ASSUME NEW H \in HandleStacks, H.st = "ok", H.top >= 4,
         NEW hd, Len(hd) = 4, \A k \in 1..4 : hd[k] = H.top + 1 - k
  PROVE  /\ pop_all(H, hd) \in HandleStacks /\ pop_all(H, hd).st = "ok"
         /\ pop_all(H, hd).top = H.top - 4
<1> DEFINE cleared == [i \in 0..HandleFrameSize |->
                         IF H.top - 4 < i /\ i <= H.top THEN NULL ELSE H.slot[i]]
<1>1. /\ H.top \in 0..HandleFrameSize /\ H.slot \in [0..HandleFrameSize -> Int]
  BY DEF HandleStacks
<1>2. cleared \in [0..HandleFrameSize -> Int]
  BY <1>1, HandleFrameSizeAssumption DEF NULL
<1>3. pop_all(H, hd) = [top |-> H.top - 4, slot |-> cleared, st |-> "ok"]
  BY Zenon DEF pop_all
<1> HIDE DEF cleared
<1>4. H.top - 4 \in 0..HandleFrameSize
  BY <1>1, FourBelow, HandleFrameSizeAssumption
<1> QED BY <1>2, <1>3, <1>4 DEF HandleStacks

(* A call of read_list_intern: four handles, or an exit without one.       *)
LEMMA CallListPreserves ==
  ASSUME IInv, NEW callers, NEW H \in HandleStacks, NEW h, CallList(callers, H, h),
         H.st = "ok", H.top = Base + 4 * Len(callers), Nested(callers, Base), IsSequence(h)
  PROVE  IInv'
<1>1. Len(callers) \in Nat /\ Base \in Nat
  BY LenOfSequence, BaseIsNat DEF Nested
<1>0. hs' = push_n(H, NULL, 4)
  BY DEF CallList
<1>2. /\ hs' \in HandleStacks /\ hs'.st \in {"ok", "full"}
      /\ hs'.st = "ok" => hs'.top = H.top + 4
  BY <1>0, FourPushed
<1>3. hs'.st # "ok" => hs'.top = H.top
  BY <1>0 DEF push_n
<1>4. driver' = driver /\ Base' = Base /\ heap' = h /\ form' = form
  BY DEF CallList, Asks_for_token, Base
<1>5. CASE hs'.st = "ok"
  <2>1. rpc' = "list" /\ frames' = Append(callers, NewFrame(H))
    BY <1>5 DEF CallList
  <2>2. /\ Nested(frames', Base) /\ Len(frames') = Len(callers) + 1 /\ frames' # <<>>
    BY <2>1, <1>1, NewFrameProperties, AppendNested
  <2>3. hs'.top = Base + 4 * Len(frames')
    BY <1>1, <1>2, <1>5, <2>2
  <2> QED BY <1>2, <1>4, <1>5, <2>1, <2>2, <2>3 DEF IInv
<1>6. CASE hs'.st # "ok"
  <2>1. rpc' = "exited" /\ frames' = callers
    BY <1>6 DEF CallList
  <2> QED BY <1>2, <1>3, <1>4, <1>6, <2>1 DEF IInv
<1> QED BY <1>5, <1>6

(* What is known of the innermost list, and of what is below it.           *)
LEMMA TopProperties ==
  ASSUME IInv, rpc = "list"
  PROVE  /\ hs.st = "ok" /\ hs \in HandleStacks
         /\ Len(frames) \in Nat /\ Len(frames) > 0 /\ Base \in Nat
         /\ hs.top = Base + 4 * Len(frames)
         /\ HandlesFrom(Top, Base + 4 * (Len(frames) - 1))
         /\ {Top.hcurrent, Top.hfirst, Top.htemp, Top.hlast} \subseteq 0..HandleFrameSize
         /\ Top \in Frames
         /\ Top.hlast = hs.top /\ Top.htemp = hs.top - 1
         /\ Top.hfirst = hs.top - 2 /\ Top.hcurrent = hs.top - 3
<1>1. /\ hs.st = "ok" /\ hs \in HandleStacks /\ frames # <<>> /\ Nested(frames, Base)
      /\ hs.top = Base + 4 * Len(frames)
  BY DEF IInv
<1>2. Base \in Nat
  BY BaseIsNat
<1>3. /\ Len(frames) \in Nat /\ Len(frames) > 0
      /\ HandlesFrom(Top, Base + 4 * (Len(frames) - 1))
  BY <1>1, <1>2, LastFrame DEF Top
<1>4. hs.top \in 0..HandleFrameSize
  BY <1>1 DEF HandleStacks
<1>5. Base + 4 * (Len(frames) - 1) = hs.top - 4
  BY <1>1, <1>2, <1>3
<1>6. /\ Top \in Frames
      /\ Top.hlast = hs.top /\ Top.htemp = hs.top - 1
      /\ Top.hfirst = hs.top - 2 /\ Top.hcurrent = hs.top - 3
  BY <1>3, <1>4, <1>5 DEF HandlesFrom
<1>7. {Top.hcurrent, Top.hfirst, Top.htemp, Top.hlast} \subseteq 0..HandleFrameSize
  <2>1. hs.top - 4 >= 0
    BY <1>1, <1>2, <1>3
  <2> QED BY <1>4, <1>6, <2>1, HandleFrameSizeAssumption
<1> QED BY <1>1, <1>2, <1>3, <1>6, <1>7

(* Whatever way a list ends: its four handles go, in the right order.      *)
LEMMA PopsPreserve ==
  ASSUME IInv, rpc = "list"
  PROVE  /\ LOCAL_POP_HANDLES(Top) \in HandleStacks
         /\ LOCAL_POP_HANDLES(Top).st = "ok"
         /\ LOCAL_POP_HANDLES(Top).top = hs.top - 4
<1> DEFINE hd == <<Top.hlast, Top.htemp, Top.hfirst, Top.hcurrent>>
<1>1. hd \in Seq(Nat) /\ Len(hd) = 4
  BY TopProperties DEF Frames
<1>2. hs.top \in Nat /\ hs.top >= 4
  <2>1. hs.top = Base + 4 * Len(frames) /\ Len(frames) \in Nat /\ Len(frames) > 0 /\ Base \in Nat
    BY TopProperties
  <2> QED BY <2>1
<1>3. \A k \in 1..4 : hd[k] = hs.top + 1 - k
  <2>1. hd[1] = hs.top /\ hd[2] = hs.top - 1 /\ hd[3] = hs.top - 2 /\ hd[4] = hs.top - 3
    BY TopProperties
  <2>2. hs.top = hs.top + 1 - 1 /\ hs.top - 1 = hs.top + 1 - 2 /\ hs.top - 2 = hs.top + 1 - 3
        /\ hs.top - 3 = hs.top + 1 - 4
    BY <1>2
  <2>3. \A k \in 1..4 : k = 1 \/ k = 2 \/ k = 3 \/ k = 4
    OBVIOUS
  <2> HIDE DEF hd
  <2> QED BY <2>1, <2>2, <2>3
<1> HIDE DEF hd
<1>4. /\ pop_all(hs, hd) \in HandleStacks /\ pop_all(hs, hd).st = "ok"
      /\ pop_all(hs, hd).top = hs.top - 4
  BY <1>1, <1>2, <1>3, TopProperties, FourPopped
<1> QED BY <1>4 DEF LOCAL_POP_HANDLES, hd

LEMMA ReturnListPreserves ==
  ASSUME IInv, rpc = "list", NEW v \in Int, ReturnList(v, LOCAL_POP_HANDLES(Top))
  PROVE  IInv'
<1> DEFINE n == Len(frames) - 1
<1>1. /\ Len(frames) \in Nat /\ Base \in Nat /\ n \in Nat
      /\ hs.top = Base + 4 * Len(frames) /\ Len(frames) = n + 1
  BY TopProperties
<1>2. hs' \in HandleStacks /\ hs'.st = "ok" /\ hs'.top = Base + 4 * n
  BY <1>1, PopsPreserve DEF ReturnList
<1>3. CASE n = 0 /\ Reads(v) /\ frames' = <<>> /\ UNCHANGED heap
  <2>1. IsSequence(heap')
    BY <1>3 DEF IInv
  <2>2. hs'.top = Base
    <3>1. n = 0
      BY <1>3
    <3> HIDE DEF n
    <3> QED BY <1>1, <1>2, <3>1
  <2> QED BY <1>2, <1>3, <2>1, <2>2, ReadsPreserves
<1>4. CASE /\ n > 0
           /\ heap' = [heap EXCEPT ![frames[n].current].car = v]
           /\ frames' = [Front(frames) EXCEPT ![n].last = frames[n].current]
           /\ Asks_for_token /\ UNCHANGED <<rpc, form>>
  <2>1. IsSequence(heap')
    BY <1>4, Changed DEF IInv
  <2>2. Nested(Front(frames), Base) /\ Len(Front(frames)) = n
    BY <1>1, FrontNested DEF IInv
  <2>3. n \in 1..Len(Front(frames)) /\ n \in 1..Len(frames)
    BY <1>1, <1>4, <2>2
  <2>4. frames[n].current \in Int
    <3>1. HandlesFrom(frames[n], Base + 4 * (n - 1))
      BY <2>3 DEF IInv, Nested
    <3> QED BY <3>1 DEF HandlesFrom, Frames
  <2>5. Nested(frames', Base) /\ Len(frames') = n
    <3> DEFINE fs == Front(frames)
               v1 == frames[n].current
    <3>1. Nested([fs EXCEPT ![n].last = v1], Base) /\ Len([fs EXCEPT ![n].last = v1]) = Len(fs)
      <4>1. Nested(fs, Base) /\ n \in 1..Len(fs) /\ v1 \in Int /\ Base \in Nat
        BY <1>1, <2>2, <2>3, <2>4
      <4> HIDE DEF fs, v1, n
      <4> QED BY <4>1, ChangeNested
    <3> QED BY <1>4, <2>2, <3>1
  <2>6. frames' # <<>>
    BY <1>4, <2>5
  <2>7. driver' = driver /\ Base' = Base /\ rpc' = "list" /\ form' = form
    BY <1>4 DEF Asks_for_token, Base
  <2> QED BY <1>2, <2>1, <2>5, <2>6, <2>7 DEF IInv
<1> QED BY <1>3, <1>4 DEF ReturnList

-----------------------------------------------------------------------------
(***************************************************************************)
(* A round of a list keeps the handles that it set where they are.         *)
(***************************************************************************)
LEMMA HandledProperties ==
  ASSUME NEW H \in HandleStacks, NEW f \in Frames,
         {f.hcurrent, f.hfirst, f.htemp, f.hlast} \subseteq 0..HandleFrameSize
  PROVE  /\ Handled(H, f) \in HandleStacks
         /\ Handled(H, f).st = H.st /\ Handled(H, f).top = H.top
         /\ HandledAll(H, f) \in HandleStacks
         /\ HandledAll(H, f).st = H.st /\ HandledAll(H, f).top = H.top
<1>1. f.current \in Int /\ f.first \in Int /\ f.temp \in Int /\ f.last \in Int
  BY DEF Frames
<1> DEFINE F == handle_set(H, f.hfirst, f.first)
           T == handle_set(F, f.htemp, f.temp)
           C == handle_set(H, f.hcurrent, f.current)
           D == handle_set(C, f.hfirst, f.first)
<1>2. F \in HandleStacks /\ F.st = H.st /\ F.top = H.top
  BY <1>1, SetProperties
<1>3. C \in HandleStacks /\ C.st = H.st /\ C.top = H.top
  BY <1>1, SetProperties
<1> HIDE DEF F, C
<1>4. T \in HandleStacks /\ T.st = H.st /\ T.top = H.top
  BY <1>1, <1>2, SetProperties
<1>5. D \in HandleStacks /\ D.st = H.st /\ D.top = H.top
  BY <1>1, <1>3, SetProperties
<1> HIDE DEF T, D
<1>6. Handled(H, f) = handle_set(T, f.hlast, f.last)
  BY DEF Handled, T, F
<1>7. HandledAll(H, f) = handle_set(D, f.hlast, f.last)
  BY DEF HandledAll, D, C
<1>8. LET L == handle_set(T, f.hlast, f.last)
      IN  L \in HandleStacks /\ L.st = H.st /\ L.top = H.top
  BY <1>1, <1>4, SetProperties
<1>9. LET L == handle_set(D, f.hlast, f.last)
      IN  L \in HandleStacks /\ L.st = H.st /\ L.top = H.top
  BY <1>1, <1>5, SetProperties
<1> QED BY <1>6, <1>7, <1>8, <1>9

LEMMA ReloadedProperties ==
  ASSUME NEW H \in HandleStacks, NEW f, NEW b, HandlesFrom(f, b),
         {f.hcurrent, f.hfirst, f.htemp, f.hlast} \subseteq 0..HandleFrameSize
  PROVE  HandlesFrom(Reloaded(f, H), b)
<1>1. handle_get(H, f.hlast) \in Int /\ handle_get(H, f.hfirst) \in Int
  BY GetProperties
<1> QED BY <1>1 DEF Reloaded, HandlesFrom, Frames

LEMMA WithPairProperties ==
  ASSUME NEW f, NEW b, HandlesFrom(f, b), NEW pair \in Int
  PROVE  HandlesFrom(WithPair(f, pair), b)
BY DEF WithPair, HandlesFrom, Frames

(* A round ends with the call for the next token.                          *)
LEMMA AsksInListPreserves ==
  ASSUME IInv, rpc = "list", NEW g, NEW h, NEW H \in HandleStacks, Asks_in_list(g, h, H),
         HandlesFrom(g, Base + 4 * (Len(frames) - 1)), IsSequence(h),
         H.st = "ok", H.top = hs.top
  PROVE  IInv'
<1>1. /\ frames' = Append(Front(frames), g) /\ heap' = h /\ hs' = H
      /\ rpc' = "list" /\ form' = form /\ driver' = driver /\ Base' = Base
  BY DEF Asks_in_list, Asks_for_token, Base
<1>2. Nested(frames, Base) /\ frames # <<>> /\ Base \in Nat
  BY BaseIsNat DEF IInv
<1>3. Nested(frames', Base) /\ Len(frames') = Len(frames) /\ frames' # <<>>
  BY <1>1, <1>2, ReplaceTop
<1>4. hs'.top = Base + 4 * Len(frames')
  BY <1>1, <1>3 DEF IInv
<1> QED BY <1>1, <1>3, <1>4 DEF IInv

(* What a list has set and loaded back before it goes on with a pair.      *)
LEMMA PairProperties ==
  ASSUME IInv, rpc = "list"
  PROVE  LET H == Handled(hs, Top)
             f == WithPair(Reloaded(Top, H), Len(heap) + 1)
         IN  /\ H \in HandleStacks /\ H.st = "ok" /\ H.top = hs.top
             /\ HandlesFrom(f, Base + 4 * (Len(frames) - 1))
             /\ {f.hcurrent, f.hfirst, f.htemp, f.hlast} \subseteq 0..HandleFrameSize
             /\ IsSequence(Linked(Append(heap, Pair), f))
<1> DEFINE H == Handled(hs, Top)
           r == Reloaded(Top, H)
           pair == Len(heap) + 1
           f == WithPair(r, pair)
           b == Base + 4 * (Len(frames) - 1)
<1>1. H \in HandleStacks /\ H.st = "ok" /\ H.top = hs.top
  BY TopProperties, HandledProperties
<1>2. IsSequence(heap) /\ pair \in Int
  BY LenOfSequence DEF IInv
<1>3. HandlesFrom(Top, b)
  BY TopProperties
<1> HIDE DEF H, pair, b
<1>4. HandlesFrom(r, b)
  BY <1>1, <1>3, TopProperties, ReloadedProperties
<1> HIDE DEF r
<1>5. HandlesFrom(f, b)
  BY <1>2, <1>4, WithPairProperties
<1>6. /\ f.hcurrent = Top.hcurrent /\ f.hfirst = Top.hfirst
      /\ f.htemp = Top.htemp /\ f.hlast = Top.hlast
  BY <1>3, <1>5 DEF HandlesFrom
<1>7. {f.hcurrent, f.hfirst, f.htemp, f.hlast} \subseteq 0..HandleFrameSize
  BY <1>6, TopProperties
<1> HIDE DEF f
<1>8. IsSequence(Linked(Append(heap, Pair), f))
  BY <1>2, Appended, LinkedProperties
<1> QED BY <1>1, <1>5, <1>7, <1>8 DEF H, r, pair, f, b

LEMMA ElementPreserves ==
  ASSUME IInv, rpc = "list", Element
  PROVE  IInv'
<1> DEFINE pair == Len(heap) + 1
           H == Handled(hs, Top)
           f == WithPair(Reloaded(Top, H), pair)
           h == Linked(Append(heap, Pair), f)
           a == WithAtom(h, tok)
           h2 == [a.h EXCEPT ![pair].car = a.cell]
           H2 == HandledAll(H, f)
           H3 == IF tok.type = "TOKEN_STRING" THEN handle_set(H2, f.htemp, a.cell) ELSE H2
           done == [f EXCEPT !.temp = a.cell, !.last = pair]
           back == [Reloaded(f, H3) EXCEPT !.temp = a.cell, !.last = handle_get(H3, f.hcurrent)]
           b == Base + 4 * (Len(frames) - 1)
<1>1. Asks_in_list(done, h2, H) \/ Asks_in_list(back, h2, H3)
  BY DEF Element
<1>2. /\ H \in HandleStacks /\ H.st = "ok" /\ H.top = hs.top
      /\ HandlesFrom(f, b) /\ f \in Frames
      /\ {f.hcurrent, f.hfirst, f.htemp, f.hlast} \subseteq 0..HandleFrameSize
      /\ IsSequence(h)
  BY PairProperties DEF HandlesFrom
<1>3. pair \in Int
  BY LenOfSequence DEF IInv
<1> HIDE DEF H, f, h, pair, b
<1>4. IsSequence(a.h) /\ a.cell \in Int
  BY <1>2, AtomProperties
<1> HIDE DEF a
<1>5. IsSequence(h2)
  BY <1>4, Changed
<1> HIDE DEF h2
<1>6. H2 \in HandleStacks /\ H2.st = "ok" /\ H2.top = hs.top
  BY <1>2, HandledProperties
<1> HIDE DEF H2
<1>7. H3 \in HandleStacks /\ H3.st = "ok" /\ H3.top = hs.top
  <2>1. f.htemp \in 0..HandleFrameSize
    BY <1>2
  <2> QED BY <1>4, <1>6, <2>1, SetProperties
<1> HIDE DEF H3
<1>8. HandlesFrom(done, b)
  BY <1>2, <1>3, <1>4 DEF HandlesFrom, Frames
<1>9. HandlesFrom(back, b)
  <2>1. HandlesFrom(Reloaded(f, H3), b)
    BY <1>2, <1>7, ReloadedProperties
  <2>2. handle_get(H3, f.hcurrent) \in Int
    BY <1>2, <1>7, GetProperties
  <2> QED BY <1>4, <2>1, <2>2 DEF HandlesFrom, Frames
<1> HIDE DEF done, back
<1> QED BY <1>1, <1>2, <1>5, <1>7, <1>8, <1>9, AsksInListPreserves DEF b

-----------------------------------------------------------------------------
(***************************************************************************)
(* The actions.                                                            *)
(***************************************************************************)
LEMMA read_intern_Preserves ==
  ASSUME IInv, read_intern
  PROVE  IInv'
<1>1. /\ rpc = "read_intern" /\ frames = <<>> /\ IsSequence(heap) /\ form \in Int
      /\ hs \in HandleStacks /\ hs.st = "ok"
  BY DEF read_intern, IInv
<1>2. Base \in Nat /\ Nested(<<>>, Base) /\ Len(<<>>) = 0
  BY BaseIsNat, NoFrames
<1>3. hs.top = Base /\ hs.top = Base + 4 * Len(<<>>)
  BY <1>1, <1>2 DEF IInv
<1>4. CASE Reads(NULL) /\ UNCHANGED <<frames, heap, hs, said>>
  BY <1>1, <1>3, <1>4, ReadsPreserves DEF NULL
<1>5. CASE CallList(<<>>, hs, heap)
  BY <1>1, <1>2, <1>3, <1>5, CallListPreserves
<1>6. CASE /\ LET a == WithAtom(heap, tok) IN heap' = a.h /\ Reads(a.cell)
           /\ hs' = IF tok.type = "TOKEN_STRING"
                    THEN handle_pop(handle_push(hs, form'), hs.top + 1) ELSE hs
           /\ hs'.st = "ok" /\ UNCHANGED frames
  <2> DEFINE cell == WithAtom(heap, tok).cell
  <2>1. IsSequence(heap') /\ cell \in Int /\ Reads(cell)
    BY <1>1, <1>6, AtomProperties
  <2> HIDE DEF cell
  <2>2. form' \in Int
    BY <2>1 DEF Reads
  <2>3. hs' \in HandleStacks /\ hs'.top = hs.top
    BY <1>1, <1>6, <2>2, PushAndPop
  <2> QED BY <1>1, <1>3, <1>6, <2>1, <2>3, ReadsPreserves
<1>7. CASE Exits
  BY <1>1, <1>7, ExitsPreserves
<1> QED BY <1>4, <1>5, <1>6, <1>7, Zenon DEF read_intern

LEMMA read_list_intern_Preserves ==
  ASSUME IInv, read_list_intern
  PROVE  IInv'
<1>1. rpc = "list"
  BY DEF read_list_intern
<1>2. CASE ListError
  <2>1. NULL \in Int
    BY DEF NULL
  <2> QED BY <1>1, <1>2, <2>1, ReturnListPreserves DEF ListError
<1>3. CASE ReturnList(IF Top.last = NULL THEN nil ELSE Top.first, LOCAL_POP_HANDLES(Top))
  <2>1. (IF Top.last = NULL THEN nil ELSE Top.first) \in Int
    BY <1>1, TopProperties DEF nil, Frames
  <2> QED BY <1>1, <1>3, <2>1, ReturnListPreserves
<1>4. CASE LET H == Handled(hs, Top)
               f == WithPair(Reloaded(Top, H), Len(heap) + 1)
           IN  CallList(Append(Front(frames), f), H, Linked(Append(heap, Pair), f))
  <2> DEFINE H == Handled(hs, Top)
             f == WithPair(Reloaded(Top, H), Len(heap) + 1)
             h == Linked(Append(heap, Pair), f)
             callers == Append(Front(frames), f)
  <2>1. CallList(callers, H, h)
    BY <1>4
  <2>2. /\ H \in HandleStacks /\ H.st = "ok" /\ H.top = hs.top
        /\ HandlesFrom(f, Base + 4 * (Len(frames) - 1))
        /\ IsSequence(h)
    BY <1>1, PairProperties
  <2> HIDE DEF H, f, h
  <2>3. Nested(callers, Base) /\ Len(callers) = Len(frames)
    BY <1>1, <2>2, BaseIsNat, ReplaceTop DEF IInv
  <2> HIDE DEF callers
  <2>4. H.top = Base + 4 * Len(callers)
    BY <1>1, <2>2, <2>3, TopProperties
  <2> QED BY <2>1, <2>2, <2>3, <2>4, CallListPreserves
<1>5. CASE Element
  BY <1>1, <1>5, ElementPreserves
<1>6. CASE Exits
  BY <1>1, <1>6, ExitsPreserves
<1> QED BY <1>2, <1>3, <1>4, <1>5, <1>6, Zenon DEF read_list_intern

LEMMA load_lib_scm_Preserves ==
  ASSUME IInv, load_lib_scm
  PROVE  IInv'
<1>1. /\ rpc = "form" /\ frames = <<>> /\ driver = "load_lib_scm"
      /\ hs \in HandleStacks /\ hs.st = "ok" /\ Base = 0
  BY DEF load_lib_scm, IInv, Base
<1>2. /\ IsSequence(<<>>) /\ Len(<<>>) = 0
      /\ \A b \in Nat : Nested(<<>>, b)
  BY NoFrames DEF Nested
<1>3. hs.top = 0
  BY <1>1, <1>2 DEF IInv
<1>4. CASE Reads_next /\ Asks_for_token /\ UNCHANGED <<frames, hs>>
  BY <1>1, <1>2, <1>3, <1>4 DEF Reads_next, Asks_for_token, IInv, Base, NULL
<1>5. CASE Exits
  BY <1>1, <1>5, ExitsPreserves
<1>6. CASE /\ driver' = "run_in_thread" /\ hs' = handle_push(hs, NULL)
           /\ Reads_next /\ UNCHANGED frames
  <2>1. hs' \in HandleStacks /\ hs'.st = "ok" /\ hs'.top = 1
    <3>1. hs.top < HandleFrameSize /\ NULL \in Int
      BY <1>3, HandleFrameSizeAssumption DEF NULL
    <3> QED BY <1>1, <1>3, <1>6, <3>1, PushAndPop
  <2>2. Base' = 1 /\ rpc' = "read_intern" /\ heap' = <<>> /\ form' = 0
    BY <1>6 DEF Base, Reads_next, NULL
  <2> QED BY <1>1, <1>2, <1>6, <2>1, <2>2 DEF IInv
<1> QED BY <1>4, <1>5, <1>6 DEF load_lib_scm

LEMMA run_in_thread_Preserves ==
  ASSUME IInv, run_in_thread
  PROVE  IInv'
<1>1. /\ rpc = "form" /\ frames = <<>> /\ driver = "run_in_thread"
      /\ hs \in HandleStacks /\ hs.st = "ok" /\ Base = 1
  BY DEF run_in_thread, IInv, Base
<1>2. IsSequence(<<>>) /\ Len(<<>>) = 0 /\ Nested(<<>>, 1)
  BY NoFrames DEF Nested
<1>3. hs.top = 1
  BY <1>1, <1>2 DEF IInv
<1>4. CASE hs' = handle_set(hs, 1, OLD) /\ Reads_next /\ Asks_for_token /\ UNCHANGED frames
  <2>1. hs' \in HandleStacks /\ hs'.st = "ok" /\ hs'.top = 1
    <3>1. 1 \in 0..HandleFrameSize /\ OLD \in Int
      BY HandleFrameSizeAssumption DEF OLD
    <3> QED BY <1>1, <1>3, <1>4, <3>1, SetProperties
  <2>2. Base' = 1 /\ rpc' = "read_intern" /\ heap' = <<>> /\ form' = 0 /\ driver' = driver
    BY <1>1, <1>4 DEF Base, Reads_next, Asks_for_token, NULL
  <2> QED BY <1>1, <1>2, <1>4, <2>1, <2>2 DEF IInv
<1>5. CASE /\ rpc' = "ended" /\ hs' = handle_pop(hs, 1)
           /\ UNCHANGED <<driver, frames, heap, form>>
  <2>1. hs' \in HandleStacks /\ hs'.st = "ok" /\ hs'.top = 0
    BY <1>1, <1>3, <1>5, PopOne
  <2> QED BY <1>1, <1>2, <1>5, <2>1 DEF IInv, Base
<1> QED BY <1>4, <1>5 DEF run_in_thread

LEMMA InitIInv == Init => IInv
<1> SUFFICES ASSUME Init PROVE IInv
  OBVIOUS
<1>1. /\ rpc = "read_intern" /\ driver = "load_lib_scm" /\ frames = <<>>
      /\ heap = <<>> /\ hs = init_handles /\ form = 0 /\ Base = 0
  BY DEF Init, NULL, Base
<1>2. IsSequence(<<>>) /\ Len(<<>>) = 0 /\ Nested(<<>>, 0)
  BY NoFrames DEF Nested
<1>3. init_handles \in HandleStacks /\ init_handles.st = "ok" /\ init_handles.top = 0
  BY HandleFrameSizeAssumption DEF init_handles, HandleStacks, UNINIT
<1> QED BY <1>1, <1>2, <1>3 DEF IInv

LEMMA StepIInv == IInv /\ [Next]_vars => IInv'
<1> SUFFICES ASSUME IInv, [Next]_vars PROVE IInv'
  OBVIOUS
<1>1. CASE Comes
  BY <1>1, AlonePreserves DEF Comes
<1>2. CASE get_token_step
  BY <1>2, AlonePreserves DEF get_token_step, readerVars
<1>3. CASE UNCHANGED vars
  BY <1>3, AlonePreserves DEF vars, readerVars
<1> QED
  BY <1>1, <1>2, <1>3, read_intern_Preserves, read_list_intern_Preserves,
     load_lib_scm_Preserves, run_in_thread_Preserves DEF Next

(* For every size of the handle block, every MAX_TOKEN_LENGTH and every    *)
(* text: each call of read_list_intern has its four handles right above    *)
(* those of the list around it, its pops come in the order that the        *)
(* assertion of handle_pop asks for, and errors in lists leave none.       *)
THEOREM HandlesAreNested == Spec => []HandlesFollowLists
<1>1. IInv => HandlesFollowLists
  <2> SUFFICES ASSUME IInv PROVE HandlesFollowLists
    OBVIOUS
  <2>1. Base \in Nat /\ Len(frames) \in Nat
    BY BaseIsNat, LenOfSequence DEF IInv, Nested
  <2>2. ASSUME NEW i \in 1..Len(frames)
        PROVE  frames[i].hlast = Base + 4 * i
    <3>1. frames[i].hlast = Base + 4 * (i - 1) + 4
      BY DEF IInv, Nested, HandlesFrom
    <3> QED BY <2>1, <3>1
  <2> QED BY <2>2 DEF IInv, HandlesFollowLists
<1> QED BY <1>1, InitIInv, StepIInv, PTL DEF Spec

(* The readers, too, stay inside of the array of get_token.                *)
THEOREM StaysInBuffer == Spec => []Bounds
<1>1. Init => Bounds
  <2> SUFFICES ASSUME Init PROVE Bounds
    OBVIOUS
  <2>1. IsSequence(buf) /\ Len(buf) = 0 /\ tpc = "get_token"
    BY NoFrames DEF Nested, Init
  <2> QED BY <2>1, Constants DEF Bounds, Room, TokenFits
<1>2. ASSUME Bounds, [Next]_vars PROVE Bounds'
  <2>1. CASE get_token_step
    BY <1>2, <2>1, TokenizeInBounds DEF get_token_step
  <2>2. CASE Calls_get_token
    BY <2>2, CallInBounds
  <2>3. CASE UNCHANGED <<tpc, buf, tok, ret>>
    BY <1>2, <2>3, IdleInBounds
  <2> QED BY <1>2, <2>1, <2>2, <2>3
      DEF Next, vars, tokenizerVars, Comes, read_intern, read_list_intern, load_lib_scm,
          run_in_thread, Reads, CallList, ReturnList, ListError, Element, Asks_in_list,
          Asks_for_token, Exits
<1> QED BY <1>1, <1>2, PTL DEF Spec
-----------------------------------------------------------------------------
(***************************************************************************)
(* What is printed of a list, told without recursion: with every pair goes *)
(* a note that says to which list it belongs (the first pair of it), which *)
(* text of the list is before it, and at a first pair the text of the      *)
(* whole list.  If the notes of each pair and the next one fit, then pp    *)
(* prints the text that is noted.                                          *)
(***************************************************************************)
Printed == Tokens \cup {LPAREN, RPAREN, CNULL, Token(".", <<>>, 0)}
Texts   == Seq(Printed)

Notes == [list : Nat, before : Texts, text : Texts]

ValuesOf(n) == {NULL, nil} \cup 1..n
Cells(n)    == [atom : Tokens, car : {UNINIT} \cup ValuesOf(n), cdr : ValuesOf(n)]

IsPair(h, c) == c \in 1..Len(h) /\ h[c].atom = NoToken

Listed(text) == <<LPAREN>> \o text \o <<RPAREN>>

(* The text of what is in the car of a pair; nothing is there yet.         *)
Text(h, g, v) ==
  IF v = UNINIT THEN <<>>
  ELSE IF v = NULL THEN <<CNULL>>
  ELSE IF v = nil THEN Listed(<<>>)
  ELSE IF IsPair(h, v) THEN Listed(g[v].text)
  ELSE <<h[v].atom>>

IsHead(g, v) == g[v].list = v /\ g[v].before = <<>>

WholeText(g, c) == g[g[c].list].text
TextUpTo(h, g, c) == g[c].before \o Text(h, g, h[c].car)

PairRight(h, g, c) ==
  /\ g[c].list \in 1..c
  /\ \E rest \in Texts : WholeText(g, c) = g[c].before \o rest
  /\ h[c].cdr = nil => WholeText(g, c) = TextUpTo(h, g, c)
  /\ h[c].cdr # nil => /\ IsPair(h, h[c].cdr) /\ h[c].cdr > c
                       /\ g[h[c].cdr].list = g[c].list
                       /\ g[h[c].cdr].before = TextUpTo(h, g, c)
  /\ IsPair(h, h[c].car) => h[c].car > c /\ IsHead(g, h[c].car)

(* The pairs of U, and no others, may still wait for what goes in them.    *)
HeapRight(h, g, U) ==
  /\ h \in Seq(Cells(Len(h))) /\ g \in [Nat -> Notes]
  /\ \A c \in 1..Len(h) : IsPair(h, c) => PairRight(h, g, c) /\ (h[c].car = UNINIT => c \in U)

LEMMA PrintedProperties ==
  /\ LPAREN \in Printed /\ RPAREN \in Printed /\ CNULL \in Printed
  /\ Tokens \subseteq Printed /\ Token(".", <<>>, 0) \in Printed
  /\ \A t \in Printed : <<t>> \in Texts
  /\ <<>> \in Texts
  /\ \A t, u \in Texts : t \o u \in Texts
<1>1. \A t \in Printed : <<t>> \in Seq(Printed)
  OBVIOUS
<1>2. \A t, u \in Seq(Printed) : t \o u \in Seq(Printed)
  BY ConcatProperties
<1>3. <<>> \in Seq(Printed)
  OBVIOUS
<1> QED BY <1>1, <1>2, <1>3, Zenon DEF Printed, Texts

LEMMA Regroup == \A t, u, w \in Texts : (t \o u) \o w = t \o (u \o w)
<1>1. \A t, u, w \in Seq(Printed) : (t \o u) \o w = t \o (u \o w)
  BY ConcatAssociative
<1> QED BY <1>1, Zenon DEF Texts

LEMMA SameEnd == \A t, u, w \in Texts : t \o u = t \o w => u = w
<1>1. \A t, u, w \in Seq(Printed) : t \o u = t \o w => u = w
  BY ConcatSimplifications, Zenon
<1> QED BY <1>1, Zenon DEF Texts

LEMMA NothingMore == \A t \in Texts : t \o <<>> = t /\ <<>> \o t = t
<1>1. \A t \in Seq(Printed) : t \o <<>> = t /\ <<>> \o t = t
  BY ConcatEmptySeq, Zenon
<1> QED BY <1>1, Zenon DEF Texts

LEMMA ListedProperties ==
  /\ Listed(<<>>) = <<LPAREN, RPAREN>>
  /\ \A t \in Texts : Listed(t) \in Texts
<1>1. ASSUME NEW S, NEW l \in S, NEW r \in S
      PROVE  <<l>> \o <<>> \o <<r>> = <<l, r>>
  <2>1. <<l>> \o <<r>> = <<l, r>>
    <3>1. ASSUME NEW a \in Seq(S), Len(a) = 2, a[1] = l, a[2] = r
          PROVE  a = <<l, r>>
      BY <3>1
    <3>2. LET a == <<l>> \o <<r>> IN a \in Seq(S) /\ Len(a) = 2 /\ a[1] = l /\ a[2] = r
      OBVIOUS
    <3> QED BY <3>1, <3>2, Zenon
  <2>2. <<l>> \in Seq(S)
    OBVIOUS
  <2>3. <<l>> \o <<>> = <<l>>
    BY <2>2, ConcatEmptySeq, Zenon
  <2> QED BY <2>1, <2>3, Zenon
<1>2. Listed(<<>>) = <<LPAREN, RPAREN>>
  BY <1>1, PrintedProperties, Zenon DEF Listed
<1>3. \A t \in Texts : Listed(t) \in Texts
  BY PrintedProperties, Zenon DEF Listed
<1> QED BY <1>2, <1>3

LEMMA HeapProperties ==
  ASSUME NEW h, h \in Seq(Cells(Len(h)))
  PROVE  /\ Len(h) \in Nat /\ DOMAIN h = 1..Len(h) /\ IsSequence(h)
         /\ \A c \in 1..Len(h) :
              /\ h[c] \in Cells(Len(h)) /\ h[c].atom \in Tokens
              /\ h[c].car \in {UNINIT} \cup ValuesOf(Len(h)) /\ h[c].cdr \in ValuesOf(Len(h))
<1>1. Len(h) \in Nat /\ DOMAIN h = 1..Len(h)
  BY LenProperties
<1>2. \A c \in 1..Len(h) : h[c] \in Cells(Len(h))
  BY <1>1, ElementOfSeq
<1>3. IsSequence(h)
  BY SequenceOf
<1> QED BY <1>1, <1>2, <1>3 DEF Cells

LEMMA ValueProperties ==
  ASSUME NEW n \in Nat
  PROVE  /\ UNINIT \notin ValuesOf(n) /\ NULL # nil /\ NULL \notin 1..n /\ nil \notin 1..n
         /\ UNINIT # NULL /\ UNINIT # nil
         /\ \A v \in ValuesOf(n) : v \in Int /\ (v # NULL /\ v # nil => v \in 1..n)
         /\ \A v \in ValuesOf(n) : v > 0 <=> v \in 1..n
BY DEF ValuesOf, NULL, nil, UNINIT

LEMMA TextProperties ==
  ASSUME NEW h, NEW g \in [Nat -> Notes], h \in Seq(Cells(Len(h))),
         NEW v \in {UNINIT} \cup ValuesOf(Len(h))
  PROVE  Text(h, g, v) \in Texts
<1>1. CASE v \in {UNINIT, NULL, nil}
  BY <1>1, PrintedProperties, ListedProperties, Zenon DEF Text
<1>2. CASE v \in 1..Len(h)
  <2>1. h[v].atom \in Tokens /\ <<h[v].atom>> \in Texts
    BY <1>2, HeapProperties, PrintedProperties, Zenon
  <2>2. v \in Nat /\ g[v].text \in Texts
    BY <1>2, HeapProperties DEF Notes
  <2> QED BY <2>1, <2>2, PrintedProperties, ListedProperties, Zenon DEF Text
<1> QED BY <1>1, <1>2 DEF ValuesOf

-----------------------------------------------------------------------------
(***************************************************************************)
(* pp prints what is noted.  The notes give a function that prints as pp   *)
(* does, and any two that do agree, from the last pair of the heap to the  *)
(* first.                                                                  *)
(***************************************************************************)
LEMMA LeastElement ==
  ASSUME NEW I \in SUBSET Nat, I # {}
  PROVE  \E i \in I : \A j \in I : i <= j
<1>1. PICK i \in I : \A j \in I : ~(<<j, i>> \in OpToRel(<, Nat))
  BY NatLessThanWellFounded, WFMin
<1>2. ASSUME NEW j \in I
      PROVE  i <= j
  <2>1. ~(<<j, i>> \in {ss \in Nat \X Nat : ss[1] < ss[2]})
    BY <1>1 DEF OpToRel
  <2> QED BY <2>1
<1> QED BY <1>2

(* pp and pp_list of c, where f has what they print of the other cells.    *)
Members(h, f, c) == f[h[c].car].pp \o f[h[c].cdr].pp_list

One(h, f, c) ==
  IF c = NULL THEN <<CNULL>>
  ELSE IF c = nil THEN <<LPAREN, RPAREN>>
  ELSE IF PAIRP(h, c) THEN Listed(Members(h, f, c))
  ELSE <<h[c].atom>>

PrintAt(h, f, c) ==
  [pp      |-> One(h, f, c),
   pp_list |-> IF c = nil THEN <<>>
               ELSE IF PAIRP(h, c) THEN Members(h, f, c)
               ELSE <<Token(".", <<>>, 0)>> \o One(h, f, c)]

Prints(h, f) == f = [c \in {NULL, nil} \cup DOMAIN h |-> PrintAt(h, f, c)]

LEMMA ppIsPrinter ==
  ASSUME NEW h, NEW v, \E f : Prints(h, f)
  PROVE  \E f : Prints(h, f) /\ pp(h, v) = f[v].pp
<1> DEFINE p == CHOOSE f : f = [c \in {NULL, nil} \cup DOMAIN h |-> PrintAt(h, f, c)]
<1>1. pp(h, v) = p[v].pp
  BY DEF pp, PrintAt, One, Members, Listed
<1>2. Prints(h, p)
  BY DEF Prints
<1> QED BY <1>1, <1>2

(* What is noted to come from the pair c on.                               *)
Rest(g, c) == CHOOSE rest \in Texts : WholeText(g, c) = g[c].before \o rest

LEMMA NotedProperties ==
  ASSUME NEW h, NEW g, NEW U, HeapRight(h, g, U), NEW c, IsPair(h, c)
  PROVE  /\ c \in 1..Len(h) /\ c \in Nat /\ PairRight(h, g, c)
         /\ g[c].before \in Texts /\ WholeText(g, c) \in Texts /\ g[c].text \in Texts
         /\ Text(h, g, h[c].car) \in Texts
         /\ Rest(g, c) \in Texts /\ WholeText(g, c) = g[c].before \o Rest(g, c)
         /\ h[c].car \in {UNINIT} \cup ValuesOf(Len(h)) /\ h[c].cdr \in ValuesOf(Len(h))
<1>1. h \in Seq(Cells(Len(h))) /\ g \in [Nat -> Notes]
  BY DEF HeapRight
<1>2. c \in 1..Len(h) /\ PairRight(h, g, c)
  BY DEF HeapRight, IsPair
<1>3. c \in Nat
  BY <1>1, <1>2, HeapProperties
<1>4. g[c].list \in Nat
  BY <1>2, <1>3 DEF PairRight
<1>5. g[c].before \in Texts /\ WholeText(g, c) \in Texts /\ g[c].text \in Texts
  BY <1>1, <1>3, <1>4 DEF Notes, WholeText
<1>6. Rest(g, c) \in Texts /\ WholeText(g, c) = g[c].before \o Rest(g, c)
  BY <1>2, Zenon DEF PairRight, Rest
<1>7. h[c].car \in {UNINIT} \cup ValuesOf(Len(h)) /\ h[c].cdr \in ValuesOf(Len(h))
  BY <1>1, <1>2, HeapProperties
<1>8. Text(h, g, h[c].car) \in Texts
  BY <1>1, <1>7, TextProperties
<1> QED BY <1>2, <1>3, <1>5, <1>6, <1>7, <1>8

LEMMA RestUnfolds ==
  ASSUME NEW h, NEW g, NEW U, HeapRight(h, g, U), NEW c, IsPair(h, c)
  PROVE  /\ h[c].cdr = nil => Rest(g, c) = Text(h, g, h[c].car) \o <<>>
         /\ h[c].cdr # nil => Rest(g, c) = Text(h, g, h[c].car) \o Rest(g, h[c].cdr)
         /\ IsHead(g, c) => Rest(g, c) = g[c].text
<1> DEFINE b == g[c].before
           t == Text(h, g, h[c].car)
           r == Rest(g, c)
           d == h[c].cdr
<1>1. /\ b \in Texts /\ t \in Texts /\ r \in Texts /\ g[c].text \in Texts
      /\ WholeText(g, c) = b \o r /\ PairRight(h, g, c)
  BY NotedProperties
<1>2. ASSUME d = nil
      PROVE  r = t \o <<>>
  <2>1. WholeText(g, c) = b \o t
    BY <1>1, <1>2, Zenon DEF PairRight, TextUpTo
  <2> HIDE DEF b, t, r
  <2>2. r = t
    BY <1>1, <2>1, SameEnd
  <2>3. t \o <<>> = t
    BY <1>1, NothingMore, Zenon
  <2> QED BY <2>2, <2>3
<1>3. ASSUME d # nil
      PROVE  r = t \o Rest(g, d)
  <2> DEFINE e == Rest(g, d)
  <2>1. IsPair(h, d) /\ g[d].list = g[c].list /\ g[d].before = b \o t
    BY <1>1, <1>3, Zenon DEF PairRight, TextUpTo
  <2>2. WholeText(g, d) = WholeText(g, c)
    BY <2>1 DEF WholeText
  <2> HIDE DEF b, t, r, d
  <2>3. e \in Texts /\ WholeText(g, d) = g[d].before \o e
    BY <2>1, NotedProperties
  <2> HIDE DEF e
  <2>4. b \o r = (b \o t) \o e
    BY <1>1, <2>1, <2>2, <2>3, Zenon
  <2>5. (b \o t) \o e = b \o (t \o e)
    BY <1>1, <2>3, Regroup
  <2>6. t \o e \in Texts
    BY <1>1, <2>3, PrintedProperties, Zenon
  <2>7. r = t \o e
    BY <1>1, <2>4, <2>5, <2>6, SameEnd
  <2> QED BY <2>7 DEF e
<1>4. ASSUME IsHead(g, c)
      PROVE  r = g[c].text
  <2>1. b = <<>> /\ WholeText(g, c) = g[c].text
    BY <1>4 DEF IsHead, WholeText
  <2> HIDE DEF b, r
  <2>2. <<>> \o r = r
    BY <1>1, NothingMore, Zenon
  <2> QED BY <1>1, <2>1, <2>2, Zenon
<1> QED BY <1>2, <1>3, <1>4, Zenon

(* pp and pp_list of c, as they are noted.                                 *)
Shown(h, g, c) == IF IsPair(h, c) THEN Listed(Rest(g, c)) ELSE Text(h, g, c)

Follows(h, g, c) ==
  IF c = nil THEN <<>>
  ELSE IF IsPair(h, c) THEN Rest(g, c)
  ELSE <<Token(".", <<>>, 0)>> \o Text(h, g, c)

LEMMA ShownIsText ==
  ASSUME NEW h, NEW g, NEW U, HeapRight(h, g, U), NEW v \in ValuesOf(Len(h)),
         IsPair(h, v) => IsHead(g, v)
  PROVE  Shown(h, g, v) = Text(h, g, v)
<1>1. CASE IsPair(h, v)
  <2>1. Rest(g, v) = g[v].text
    BY <1>1, RestUnfolds
  <2>2. v # UNINIT /\ v # NULL /\ v # nil
    <3>1. v \in 1..Len(h) /\ Len(h) \in Nat
      BY <1>1, HeapProperties DEF IsPair, HeapRight
    <3> QED BY <3>1 DEF UNINIT, NULL, nil
  <2> QED BY <1>1, <2>1, <2>2, Zenon DEF Shown, Text
<1> QED BY <1>1 DEF Shown

LEMMA MembersAreRest ==
  ASSUME NEW h, NEW g, HeapRight(h, g, {}), NEW c, IsPair(h, c), NEW f,
         f[h[c].car].pp = Shown(h, g, h[c].car),
         f[h[c].cdr].pp_list = Follows(h, g, h[c].cdr)
  PROVE  Members(h, f, c) = Rest(g, c)
<1>1. /\ c \in 1..Len(h) /\ PairRight(h, g, c) /\ h[c].car # UNINIT
      /\ h[c].car \in {UNINIT} \cup ValuesOf(Len(h))
  BY NotedProperties DEF HeapRight
<1>2. Shown(h, g, h[c].car) = Text(h, g, h[c].car)
  BY <1>1, ShownIsText DEF PairRight
<1>3. Follows(h, g, h[c].cdr) = IF h[c].cdr = nil THEN <<>> ELSE Rest(g, h[c].cdr)
  BY <1>1, Zenon DEF Follows, PairRight
<1>4. Members(h, f, c) = Text(h, g, h[c].car) \o Follows(h, g, h[c].cdr)
  BY <1>2, Zenon DEF Members
<1>5. /\ h[c].cdr = nil => Rest(g, c) = Text(h, g, h[c].car) \o <<>>
      /\ h[c].cdr # nil => Rest(g, c) = Text(h, g, h[c].car) \o Rest(g, h[c].cdr)
  BY RestUnfolds
<1> QED BY <1>3, <1>4, <1>5, Zenon

LEMMA PrintedOfPair ==
  ASSUME NEW h, NEW g, NEW U, HeapRight(h, g, U), NEW c, IsPair(h, c), NEW f,
         Members(h, f, c) = Rest(g, c)
  PROVE  PrintAt(h, f, c) = [pp |-> Shown(h, g, c), pp_list |-> Follows(h, g, c)]
<1>1. c \in 1..Len(h) /\ c \in Nat
  BY NotedProperties
<1>2. c > 0 /\ c # nil /\ c # NULL /\ PAIRP(h, c)
  BY <1>1 DEF nil, NULL, PAIRP, IsPair
<1> QED BY <1>2, Zenon DEF PrintAt, One, Shown, Follows

LEMMA PrintedOfOther ==
  ASSUME NEW h, NEW g, NEW U, HeapRight(h, g, U), NEW c \in {NULL, nil} \cup DOMAIN h,
         ~IsPair(h, c), NEW f
  PROVE  PrintAt(h, f, c) = [pp |-> Shown(h, g, c), pp_list |-> Follows(h, g, c)]
<1>1. Len(h) \in Nat /\ DOMAIN h = 1..Len(h)
  BY HeapProperties DEF HeapRight
<1>2. c # UNINIT /\ ~PAIRP(h, c)
  BY <1>1 DEF nil, NULL, UNINIT, PAIRP, IsPair
<1>3. One(h, f, c) = Text(h, g, c)
  BY <1>2, ListedProperties, Zenon DEF One, Text
<1> QED BY <1>2, <1>3, Zenon DEF PrintAt, Shown, Follows

LEMMA PrinterExists ==
  ASSUME NEW h, NEW g, HeapRight(h, g, {})
  PROVE  \E f : Prints(h, f)
<1> DEFINE D == {NULL, nil} \cup DOMAIN h
           p == [c \in D |-> [pp |-> Shown(h, g, c), pp_list |-> Follows(h, g, c)]]
<1>1. \A c \in D : p[c].pp = Shown(h, g, c) /\ p[c].pp_list = Follows(h, g, c)
  OBVIOUS
<1>2. ASSUME NEW c \in D
      PROVE  p[c] = PrintAt(h, p, c)
  <2>1. p[c] = [pp |-> Shown(h, g, c), pp_list |-> Follows(h, g, c)]
    OBVIOUS
  <2>2. CASE IsPair(h, c)
    <3>1. h[c].cdr \in ValuesOf(Len(h)) /\ h[c].car \in ValuesOf(Len(h))
      BY <2>2, NotedProperties DEF HeapRight
    <3>2. h[c].cdr \in D /\ h[c].car \in D
      BY <3>1, HeapProperties DEF ValuesOf, HeapRight
    <3> HIDE DEF p, D
    <3>3. Members(h, p, c) = Rest(g, c)
      BY <1>1, <2>2, <3>2, MembersAreRest
    <3> QED BY <2>1, <2>2, <3>3, PrintedOfPair
  <2>3. CASE ~IsPair(h, c)
    <3> HIDE DEF p
    <3> QED BY <2>1, <2>3, PrintedOfOther
  <2> QED BY <2>2, <2>3
<1>3. p = [c \in D |-> PrintAt(h, p, c)]
  <2>1. p = [c \in D |-> p[c]]
    OBVIOUS
  <2> HIDE DEF p, D
  <2> QED BY <1>2, <2>1
<1>4. Prints(h, p)
  BY <1>3 DEF Prints
<1> QED BY <1>4

LEMMA PrintersAgree ==
  ASSUME NEW h, NEW g, HeapRight(h, g, {}), NEW f, Prints(h, f),
         NEW v \in {NULL, nil} \cup DOMAIN h
  PROVE  f[v].pp = Shown(h, g, v) /\ f[v].pp_list = Follows(h, g, v)
<1> DEFINE D == {NULL, nil} \cup DOMAIN h
           N(c) == [pp |-> Shown(h, g, c), pp_list |-> Follows(h, g, c)]
           Bad == {k \in Nat : \E c \in D : IsPair(h, c) /\ k = Len(h) - c /\ f[c] # N(c)}
<1>1. Len(h) \in Nat /\ DOMAIN h = 1..Len(h)
  BY HeapProperties DEF HeapRight
<1>2. \A c \in D : f[c] = PrintAt(h, f, c)
  BY DEF Prints
<1>3. \A c \in D : ~IsPair(h, c) => f[c] = N(c)
  BY <1>2, PrintedOfOther
<1>4. Bad = {}
  <2> SUFFICES ASSUME Bad # {} PROVE FALSE
    OBVIOUS
  <2>1. PICK k \in Bad : \A j \in Bad : k <= j
    BY LeastElement
  <2>2. PICK c \in D : IsPair(h, c) /\ k = Len(h) - c /\ f[c] # N(c)
    BY <2>1
  <2>3. /\ c \in 1..Len(h) /\ h[c].cdr \in ValuesOf(Len(h)) /\ h[c].car \in ValuesOf(Len(h))
        /\ PairRight(h, g, c)
    BY <2>2, NotedProperties DEF HeapRight
  <2>4. ASSUME NEW d \in 1..Len(h), IsPair(h, d), d > c
        PROVE  f[d] = N(d)
    <3>1. Len(h) - d \in Nat /\ ~(k <= Len(h) - d) /\ d \in D
      BY <1>1, <2>2, <2>3, <2>4
    <3>2. Len(h) - d \notin Bad
      BY <2>1, <3>1
    <3> QED BY <2>4, <3>1, <3>2
  <2>5. h[c].cdr \in D /\ h[c].car \in D
    BY <1>1, <2>3 DEF ValuesOf
  <2>6. nil \notin 1..Len(h)
    BY <1>1 DEF nil
  <2>7. f[h[c].car] = N(h[c].car)
    <3>1. CASE IsPair(h, h[c].car)
      <4>1. h[c].car > c /\ h[c].car \in 1..Len(h)
        BY <2>3, <3>1 DEF PairRight, IsPair
      <4> QED BY <2>4, <3>1, <4>1
    <3> QED BY <1>3, <2>5, <3>1
  <2>8. f[h[c].cdr] = N(h[c].cdr)
    <3>1. CASE h[c].cdr = nil
      <4>1. ~IsPair(h, h[c].cdr)
        BY <2>6, <3>1 DEF IsPair
      <4> QED BY <1>3, <2>5, <4>1
    <3>2. CASE h[c].cdr # nil
      <4>1. IsPair(h, h[c].cdr) /\ h[c].cdr > c /\ h[c].cdr \in 1..Len(h)
        BY <2>3, <3>2 DEF PairRight, IsPair
      <4> QED BY <2>4, <4>1
    <3> QED BY <3>1, <3>2
  <2>9. Members(h, f, c) = Rest(g, c)
    BY <2>2, <2>7, <2>8, MembersAreRest
  <2> QED BY <1>2, <2>2, <2>9, PrintedOfPair
<1>5. f[v] = N(v)
  <2>1. CASE IsPair(h, v)
    <3>1. v \in 1..Len(h) /\ Len(h) - v \in Nat
      BY <1>1, <2>1 DEF IsPair
    <3>2. Len(h) - v \notin Bad
      BY <1>4
    <3> QED BY <2>1, <3>1, <3>2
  <2> QED BY <1>3, <2>1
<1> QED BY <1>5

(* What is printed of a form is what is noted of it.                       *)
LEMMA ppIsText ==
  ASSUME NEW h, NEW g, HeapRight(h, g, {}), NEW v \in ValuesOf(Len(h)),
         IsPair(h, v) => IsHead(g, v)
  PROVE  pp(h, v) = Text(h, g, v)
<1>1. v \in {NULL, nil} \cup DOMAIN h
  BY HeapProperties DEF HeapRight, ValuesOf
<1>2. PICK f : Prints(h, f) /\ pp(h, v) = f[v].pp
  BY PrinterExists, ppIsPrinter
<1>3. f[v].pp = Shown(h, g, v)
  BY <1>1, <1>2, PrintersAgree
<1> QED BY <1>2, <1>3, ShownIsText

-----------------------------------------------------------------------------
(***************************************************************************)
(* How a heap and its notes grow.  A list is open from its first pair to   *)
(* the pair e, which is its end so far, and nothing points to it yet.      *)
(***************************************************************************)
ListOpen(h, g, head, e, text) ==
  /\ IsPair(h, head) /\ IsHead(g, head) /\ g[head].text = text
  /\ \A c \in 1..Len(h) : h[c].car # head
  /\ IsPair(h, e) /\ g[e].list = head
  /\ \A c \in 1..Len(h) : IsPair(h, c) /\ g[c].list = head => (h[c].cdr = nil <=> c = e)

(* The cells stay what they are, and in the lists that they are in.        *)
Keeps(h, g, h2, g2) ==
  /\ Len(h) <= Len(h2)
  /\ \A d \in 1..Len(h) :
       h2[d].atom = h[d].atom /\ g2[d].list = g[d].list /\ g2[d].before = g[d].before

LEMMA NoCells ==
  \A n \in Nat : UNINIT \notin 1..n /\ NULL \notin 1..n /\ nil \notin 1..n
BY DEF UNINIT, NULL, nil

LEMMA KeptPairs ==
  ASSUME NEW h, NEW g, NEW h2, NEW g2, h \in Seq(Cells(Len(h))), h2 \in Seq(Cells(Len(h2))),
         Keeps(h, g, h2, g2), NEW c \in 1..Len(h)
  PROVE  c \in 1..Len(h2) /\ c \in Nat /\ (IsPair(h2, c) <=> IsPair(h, c))
<1>1. Len(h) \in Nat /\ Len(h2) \in Nat /\ Len(h) <= Len(h2)
  BY HeapProperties DEF Keeps
<1>2. c \in 1..Len(h2) /\ c \in Nat
  BY <1>1
<1> QED BY <1>2 DEF IsPair, Keeps

LEMMA TextStays ==
  ASSUME NEW h, NEW g, NEW h2, NEW g2, h \in Seq(Cells(Len(h))), h2 \in Seq(Cells(Len(h2))),
         Keeps(h, g, h2, g2), NEW v \in {UNINIT} \cup ValuesOf(Len(h)),
         v \in 1..Len(h) => g2[v].text = g[v].text
  PROVE  Text(h2, g2, v) = Text(h, g, v)
<1>1. CASE v \in {UNINIT, NULL, nil}
  BY <1>1, Zenon DEF Text
<1>2. CASE v \in 1..Len(h)
  <2>1. (IsPair(h2, v) <=> IsPair(h, v)) /\ h2[v].atom = h[v].atom /\ g2[v].text = g[v].text
    BY <1>2, KeptPairs DEF Keeps
  <2> QED BY <2>1, Zenon DEF Text
<1> QED BY <1>1, <1>2 DEF ValuesOf

LEMMA PairStays ==
  ASSUME NEW h, NEW g, NEW U, NEW h2, NEW g2, HeapRight(h, g, U), NEW c, IsPair(h, c),
         h2 \in Seq(Cells(Len(h2))), Keeps(h, g, h2, g2), h2[c] = h[c],
         \/ g2[g[c].list].text = g[g[c].list].text
         \/ h[c].cdr # nil /\ \E more \in Texts : g2[g[c].list].text = g[g[c].list].text \o more,
         h[c].car \in 1..Len(h) => g2[h[c].car].text = g[h[c].car].text
  PROVE  PairRight(h2, g2, c)
<1> DEFINE n == Len(h)
           a == h[c].car
           d == h[c].cdr
           l == g[c].list
<1>1. /\ h \in Seq(Cells(n)) /\ c \in 1..n /\ PairRight(h, g, c)
      /\ a \in {UNINIT} \cup ValuesOf(n) /\ d \in ValuesOf(n)
      /\ g[c].before \in Texts /\ WholeText(g, c) \in Texts /\ WholeText(g, c) = g[l].text
  BY NotedProperties, Zenon DEF HeapRight, WholeText
<1>2. h2[c].car = a /\ h2[c].cdr = d /\ g2[c].list = l /\ g2[c].before = g[c].before
  BY <1>1 DEF Keeps
<1>3. Text(h2, g2, a) = Text(h, g, a)
  BY <1>1, TextStays
<1>4. TextUpTo(h2, g2, c) = TextUpTo(h, g, c)
  BY <1>2, <1>3, Zenon DEF TextUpTo
<1>5. \E rest \in Texts : WholeText(g2, c) = g2[c].before \o rest
  <2>1. PICK rest \in Texts : WholeText(g, c) = g[c].before \o rest
    BY <1>1, Zenon DEF PairRight
  <2>2. CASE g2[l].text = g[l].text
    BY <1>1, <1>2, <2>1, <2>2, Zenon DEF WholeText
  <2>3. CASE \E more \in Texts : g2[l].text = g[l].text \o more
    <3>1. PICK more \in Texts : g2[l].text = g[l].text \o more
      BY <2>3
    <3>2. (g[c].before \o rest) \o more = g[c].before \o (rest \o more)
      BY <1>1, Regroup
    <3>3. rest \o more \in Texts
      BY PrintedProperties, Zenon
    <3>4. WholeText(g2, c) = g2[c].before \o (rest \o more)
      BY <1>1, <1>2, <2>1, <3>1, <3>2, Zenon DEF WholeText
    <3> QED BY <3>3, <3>4, Zenon
  <2> QED BY <2>2, <2>3
<1>6. d = nil => WholeText(g2, c) = TextUpTo(h2, g2, c)
  <2>1. d = nil => g2[l].text = g[l].text /\ WholeText(g, c) = TextUpTo(h, g, c)
    BY <1>1, Zenon DEF PairRight
  <2> QED BY <1>1, <1>2, <1>4, <2>1, Zenon DEF WholeText
<1>7. d # nil => /\ IsPair(h2, d) /\ d > c /\ g2[d].list = g2[c].list
                 /\ g2[d].before = TextUpTo(h2, g2, c)
  <2>1. d # nil => IsPair(h, d) /\ d > c /\ g[d].list = l /\ g[d].before = TextUpTo(h, g, c)
    BY <1>1, Zenon DEF PairRight
  <2>2. d # nil => d \in 1..n
    BY <2>1 DEF IsPair
  <2>3. ASSUME d \in 1..n
        PROVE  (IsPair(h2, d) <=> IsPair(h, d)) /\ g2[d].list = g[d].list
               /\ g2[d].before = g[d].before
    <3>1. IsPair(h2, d) <=> IsPair(h, d)
      BY <1>1, <2>3, KeptPairs
    <3> QED BY <2>3, <3>1 DEF Keeps
  <2> QED BY <1>2, <1>4, <2>1, <2>2, <2>3, Zenon
<1>8. IsPair(h2, a) => a > c /\ IsHead(g2, a)
  <2>1. a \notin 1..n => ~IsPair(h2, a)
    <3>1. Len(h2) \in Nat /\ n \in Nat
      BY <1>1, HeapProperties
    <3>2. UNINIT \notin 1..Len(h2) /\ NULL \notin 1..Len(h2) /\ nil \notin 1..Len(h2)
      BY <3>1, NoCells
    <3> QED BY <1>1, <3>2, Zenon DEF ValuesOf, IsPair
  <2>2. ASSUME a \in 1..n
        PROVE  (IsPair(h2, a) <=> IsPair(h, a)) /\ (IsHead(g2, a) <=> IsHead(g, a))
    <3>1. IsPair(h2, a) <=> IsPair(h, a)
      BY <1>1, <2>2, KeptPairs
    <3>2. g2[a].list = g[a].list /\ g2[a].before = g[a].before
      BY <2>2 DEF Keeps
    <3> QED BY <3>1, <3>2 DEF IsHead
  <2> QED BY <1>1, <2>1, <2>2 DEF PairRight
<1>9. g2[c].list \in 1..c
  BY <1>1, <1>2 DEF PairRight
<1> QED BY <1>2, <1>5, <1>6, <1>7, <1>8, <1>9, Zenon DEF PairRight

LEMMA OpenStays ==
  ASSUME NEW h, NEW g, NEW U, NEW h2, NEW g2, HeapRight(h, g, U),
         h2 \in Seq(Cells(Len(h2))), Keeps(h, g, h2, g2),
         NEW head, NEW e, NEW text, ListOpen(h, g, head, e, text),
         g2[head].text = g[head].text,
         \A c \in 1..Len(h2) : h2[c].car # head,
         \A c \in 1..Len(h) : g[c].list = head => h2[c].cdr = h[c].cdr,
         \A c \in 1..Len(h2) : c \notin 1..Len(h) /\ IsPair(h2, c) => g2[c].list # head
  PROVE  ListOpen(h2, g2, head, e, text)
<1>1. h \in Seq(Cells(Len(h)))
  BY DEF HeapRight
<1>2. head \in 1..Len(h) /\ e \in 1..Len(h)
  BY DEF ListOpen, IsPair
<1>3. IsPair(h2, head) /\ IsHead(g2, head) /\ g2[head].text = text /\ IsPair(h2, e)
      /\ g2[e].list = head
  BY <1>1, <1>2, KeptPairs DEF ListOpen, Keeps, IsHead
<1>4. ASSUME NEW c \in 1..Len(h2), IsPair(h2, c), g2[c].list = head
      PROVE  h2[c].cdr = nil <=> c = e
  <2>1. c \in 1..Len(h)
    BY <1>4
  <2>2. IsPair(h, c) /\ g[c].list = head /\ h2[c].cdr = h[c].cdr
    BY <1>1, <1>4, <2>1, KeptPairs DEF Keeps
  <2> QED BY <2>1, <2>2 DEF ListOpen
<1> QED BY <1>3, <1>4, Zenon DEF ListOpen

LEMMA CellsGrow ==
  ASSUME NEW n \in Nat
  PROVE  Cells(n) \subseteq Cells(n + 1) /\ ValuesOf(n) \subseteq ValuesOf(n + 1)
<1>1. 1..n \subseteq 1..(n + 1)
  OBVIOUS
<1>2. ValuesOf(n) \subseteq ValuesOf(n + 1)
  BY <1>1 DEF ValuesOf
<1> QED BY <1>2 DEF Cells

LEMMA HeapAppended ==
  ASSUME NEW h, h \in Seq(Cells(Len(h))), NEW x \in Cells(Len(h) + 1)
  PROVE  LET h2 == Append(h, x)
         IN  /\ h2 \in Seq(Cells(Len(h2))) /\ Len(h2) = Len(h) + 1
             /\ \A c \in 1..Len(h) : h2[c] = h[c]
             /\ h2[Len(h) + 1] = x
<1> DEFINE n == Len(h)
           S == Cells(n + 1)
           h2 == Append(h, x)
<1>1. n \in Nat
  BY HeapProperties
<1>2. h \in Seq(S)
  BY <1>1, CellsGrow, SeqMonotonic
<1> HIDE DEF S
<1>3. h2 \in Seq(S) /\ Len(h2) = n + 1 /\ (\A c \in 1..n : h2[c] = h[c]) /\ h2[n + 1] = x
  BY <1>2, AppendProperties DEF S
<1> QED BY <1>3 DEF S

LEMMA HeapChanged ==
  ASSUME NEW h, h \in Seq(Cells(Len(h))), NEW k \in 1..Len(h), NEW x \in Cells(Len(h))
  PROVE  LET h2 == [h EXCEPT ![k] = x]
         IN  /\ h2 \in Seq(Cells(Len(h2))) /\ Len(h2) = Len(h)
             /\ \A c \in 1..Len(h) : h2[c] = IF c = k THEN x ELSE h[c]
<1> DEFINE n == Len(h)
           S == Cells(n)
           h2 == [h EXCEPT ![k] = x]
<1>1. n \in Nat /\ DOMAIN h = 1..n /\ IsSequence(h)
  BY HeapProperties
<1>2. \A c \in 1..n : h2[c] = IF c = k THEN x ELSE h[c]
  BY <1>1
<1>3. h2 \in [1..n -> S]
  <2>1. \A c \in 1..n : h2[c] \in S
    BY <1>2, HeapProperties
  <2> QED BY <1>1, <2>1
<1>4. Len(h2) = n
  BY <1>1, Changed
<1>5. h2 \in Seq(S)
  BY <1>1, <1>3, SeqDef
<1> QED BY <1>2, <1>4, <1>5

(* The cell of an atom.                                                    *)
LEMMA AtomAdded ==
  ASSUME NEW h, NEW g, NEW U, HeapRight(h, g, U),
         NEW x \in Cells(Len(h)), x.atom # NoToken, x.car = NULL
  PROVE  LET h2 == Append(h, x)
         IN  /\ HeapRight(h2, g, U) /\ Keeps(h, g, h2, g) /\ Len(h2) = Len(h) + 1
             /\ \A c \in 1..Len(h) : h2[c] = h[c]
             /\ \A head, e, text :
                  ListOpen(h, g, head, e, text) => ListOpen(h2, g, head, e, text)
<1> DEFINE n == Len(h)
           h2 == Append(h, x)
<1>1. h \in Seq(Cells(n)) /\ n \in Nat /\ g \in [Nat -> Notes]
  BY HeapProperties DEF HeapRight
<1>2. /\ h2 \in Seq(Cells(Len(h2))) /\ Len(h2) = n + 1
      /\ (\A c \in 1..n : h2[c] = h[c]) /\ h2[n + 1] = x
  BY <1>1, CellsGrow, HeapAppended
<1> HIDE DEF h2
<1>3. Keeps(h, g, h2, g)
  BY <1>1, <1>2 DEF Keeps
<1>4. \A c \in 1..Len(h2) : c \in 1..n \/ c = n + 1
  BY <1>1, <1>2
<1>5. ASSUME NEW c \in 1..Len(h2), IsPair(h2, c)
      PROVE  c \in 1..n /\ IsPair(h, c) /\ h2[c] = h[c]
  <2>1. c # n + 1
    BY <1>2, <1>5 DEF IsPair
  <2> QED BY <1>1, <1>2, <1>3, <1>4, <1>5, <2>1, KeptPairs
<1>6. HeapRight(h2, g, U)
  <2>1. ASSUME NEW c \in 1..Len(h2), IsPair(h2, c)
        PROVE  PairRight(h2, g, c) /\ (h2[c].car = UNINIT => c \in U)
    <3>1. c \in 1..n /\ IsPair(h, c) /\ h2[c] = h[c]
      BY <1>5, <2>1
    <3>2. PairRight(h2, g, c)
      BY <1>2, <1>3, <3>1, PairStays
    <3> QED BY <3>1, <3>2 DEF HeapRight
  <2> QED BY <1>1, <1>2, <2>1 DEF HeapRight
<1>7. ASSUME NEW head, NEW e, NEW text, ListOpen(h, g, head, e, text)
      PROVE  ListOpen(h2, g, head, e, text)
  <2>1. head \in 1..n
    BY <1>7 DEF ListOpen, IsPair
  <2>2. NULL # head
    BY <1>1, <2>1, NoCells
  <2>3. \A c \in 1..Len(h2) : h2[c].car # head
    BY <1>2, <1>4, <1>7, <2>2 DEF ListOpen
  <2>4. \A c \in 1..n : g[c].list = head => h2[c].cdr = h[c].cdr
    BY <1>2
  <2>5. \A c \in 1..Len(h2) : c \notin 1..n /\ IsPair(h2, c) => g[c].list # head
    BY <1>5
  <2> QED BY <1>2, <1>3, <1>7, <2>3, <2>4, <2>5, OpenStays
<1> QED BY <1>2, <1>3, <1>6, <1>7 DEF h2

LEMMA NoteChanged ==
  ASSUME NEW g \in [Nat -> Notes], NEW k \in Nat, NEW x \in Notes
  PROVE  LET g2 == [g EXCEPT ![k] = x]
         IN  g2 \in [Nat -> Notes] /\ \A c \in Nat : g2[c] = IF c = k THEN x ELSE g[c]
OBVIOUS

TextIsSet(g, g2, k, text) ==
  /\ g2 \in [Nat -> Notes] /\ g2[k].text = text
  /\ \A c \in Nat : g2[c].list = g[c].list /\ g2[c].before = g[c].before
  /\ \A c \in Nat : c # k => g2[c].text = g[c].text

LEMMA TextChanged ==
  ASSUME NEW g \in [Nat -> Notes], NEW k \in Nat, NEW text \in Texts
  PROVE  TextIsSet(g, [g EXCEPT ![k].text = text], k, text)
BY DEF Notes, TextIsSet

(* A value goes into the pair that ends the list of head.                  *)
CarIsSet(h, g, h2, g2, U, head, cur, v, t2) ==
  /\ HeapRight(h2, g2, U \ {cur}) /\ Len(h2) = Len(h) /\ t2 \in Texts
  /\ ListOpen(h2, g2, head, cur, t2)
  /\ \A c \in 1..Len(h) : c # cur => h2[c] = h[c]
  /\ \A f, e, t : f # head /\ f # v /\ ListOpen(h, g, f, e, t) => ListOpen(h2, g2, f, e, t)

LEMMA CarSet ==
  ASSUME NEW h, NEW g, NEW U, HeapRight(h, g, U), NEW head, NEW cur, NEW text \in Texts,
         ListOpen(h, g, head, cur, text), h[cur].car = UNINIT,
         NEW v \in ValuesOf(Len(h)), IsPair(h, v) => v > cur /\ IsHead(g, v)
  PROVE  LET t2 == text \o Text(h, g, v)
         IN  CarIsSet(h, g, [h EXCEPT ![cur].car = v], [g EXCEPT ![head].text = t2],
                      U, head, cur, v, t2)
<1> DEFINE n == Len(h)
           x == [h[cur] EXCEPT !.car = v]
           h2 == [h EXCEPT ![cur] = x]
           more == Text(h, g, v)
           t2 == text \o more
           g2 == [g EXCEPT ![head].text = t2]
<1>1. h \in Seq(Cells(n)) /\ n \in Nat /\ g \in [Nat -> Notes] /\ \A c \in 1..n : c \in Nat
  BY HeapProperties DEF HeapRight
<1>2. /\ cur \in 1..n /\ head \in 1..n /\ IsPair(h, cur) /\ g[cur].list = head
      /\ h[cur].cdr = nil /\ g[head].text = text /\ IsPair(h, head) /\ IsHead(g, head)
      /\ \A c \in 1..n : h[c].car # head
      /\ \A c \in 1..n : IsPair(h, c) /\ g[c].list = head => (h[c].cdr = nil <=> c = cur)
  BY DEF ListOpen, IsPair
<1>3. /\ x \in Cells(n) /\ x.atom = NoToken /\ x.car = v /\ x.cdr = nil
      /\ h[cur] \in Cells(n)
  <2>1. h[cur] \in Cells(n) /\ h[cur].atom = NoToken
    BY <1>1, <1>2, HeapProperties DEF IsPair
  <2> QED BY <1>2, <2>1 DEF Cells
<1>4. /\ h2 \in Seq(Cells(Len(h2))) /\ Len(h2) = n
      /\ \A c \in 1..n : h2[c] = IF c = cur THEN x ELSE h[c]
  <2> HIDE DEF x
  <2> QED BY <1>1, <1>2, <1>3, HeapChanged
<1>5. more \in Texts /\ t2 \in Texts
  <2>1. more \in Texts
    BY <1>1, TextProperties
  <2> HIDE DEF more
  <2> QED BY <2>1, PrintedProperties, Zenon
<1>6. /\ g2 \in [Nat -> Notes] /\ g2[head].text = t2
      /\ \A c \in Nat : g2[c].list = g[c].list /\ g2[c].before = g[c].before
      /\ \A c \in Nat : c # head => g2[c].text = g[c].text
  <2> HIDE DEF t2
  <2>1. g \in [Nat -> Notes] /\ head \in Nat /\ t2 \in Texts
    BY <1>1, <1>2, <1>5
  <2>2. TextIsSet(g, g2, head, t2)
    BY <2>1, TextChanged
  <2> QED BY <2>2, Zenon DEF TextIsSet
<1>7. h2 = [h EXCEPT ![cur].car = v]
  OBVIOUS
<1> HIDE DEF x, h2, more, t2, g2
<1>8. \A c \in 1..n : h2[c].atom = h[c].atom
  BY <1>2, <1>3, <1>4 DEF IsPair
<1>9. Keeps(h, g, h2, g2)
  BY <1>1, <1>4, <1>6, <1>8 DEF Keeps
<1>10. v # head
  <2>1. cur \in Nat /\ head \in 1..cur
    BY <1>1, <1>2, NotedProperties DEF PairRight
  <2>2. IsPair(h, v) => v # head
    BY <2>1
  <2> QED BY <1>2, <2>2
<1>11. Text(h2, g2, v) = more
  BY <1>1, <1>4, <1>6, <1>9, <1>10, TextStays DEF more
<1>12. PairRight(h2, g2, cur)
  <2>1. /\ g[cur].list \in 1..cur /\ WholeText(g, cur) = TextUpTo(h, g, cur)
        /\ g[cur].before \in Texts
    <3>1. PairRight(h, g, cur) /\ g[cur].before \in Texts
      BY <1>2, NotedProperties
    <3> QED BY <1>2, <3>1, Zenon DEF PairRight
  <2>2. g[cur].before = text
    <3>1. WholeText(g, cur) = text /\ TextUpTo(h, g, cur) = g[cur].before \o <<>>
      BY <1>2 DEF WholeText, TextUpTo, Text
    <3> QED BY <2>1, <3>1, NothingMore, Zenon
  <2>3. /\ h2[cur].car = v /\ h2[cur].cdr = nil /\ g2[cur].list = head
        /\ g2[cur].before = text
    BY <1>1, <1>2, <1>3, <1>4, <1>6, <2>2
  <2>4. WholeText(g2, cur) = t2 /\ TextUpTo(h2, g2, cur) = t2
    BY <1>6, <1>11, <2>3, Zenon DEF WholeText, TextUpTo, t2
  <2>5. WholeText(g2, cur) = g2[cur].before \o more
    BY <2>3, <2>4, Zenon DEF t2
  <2>6. IsPair(h2, v) => v > cur /\ IsHead(g2, v)
    <3>1. IsPair(h2, v) => v \in 1..n
      BY <1>4 DEF IsPair
    <3>2. v \in 1..n => (IsPair(h2, v) <=> IsPair(h, v))
      BY <1>1, <1>4, <1>9, KeptPairs
    <3>3. v \in 1..n => (IsHead(g2, v) <=> IsHead(g, v))
      BY <1>1, <1>6 DEF IsHead
    <3> QED BY <3>1, <3>2, <3>3
  <2> QED BY <1>2, <1>5, <2>1, <2>3, <2>4, <2>5, <2>6, Zenon DEF PairRight
<1>13. HeapRight(h2, g2, U \ {cur})
  <2>1. ASSUME NEW c \in 1..Len(h2), IsPair(h2, c)
        PROVE  PairRight(h2, g2, c) /\ (h2[c].car = UNINIT => c \in U \ {cur})
    <3>1. c \in 1..n /\ IsPair(h, c)
      BY <1>1, <1>4, <1>9, <2>1, KeptPairs
    <3>2. CASE c = cur
      <4>1. h2[c].car # UNINIT
        BY <1>1, <1>3, <1>4, <3>1, <3>2, ValueProperties
      <4> QED BY <1>12, <3>2, <4>1
    <3>3. CASE c # cur
      <4>1. h2[c] = h[c] /\ (h[c].car = UNINIT => c \in U)
        BY <1>4, <3>1, <3>3 DEF HeapRight
      <4>2. /\ g[c].list \in Nat
            /\ h[c].car \in 1..n => g2[h[c].car].text = g[h[c].car].text
        <5>1. g[c].list \in Nat
          BY <1>1, <3>1 DEF Notes
        <5>2. h[c].car \in 1..n => g2[h[c].car].text = g[h[c].car].text
          BY <1>1, <1>2, <1>6, <3>1
        <5> QED BY <5>1, <5>2
      <4>3. \/ g2[g[c].list].text = g[g[c].list].text
            \/ h[c].cdr # nil /\ \E w \in Texts : g2[g[c].list].text = g[g[c].list].text \o w
        <5>1. CASE g[c].list # head
          BY <1>6, <4>2, <5>1
        <5>2. CASE g[c].list = head
          <6>1. h[c].cdr # nil
            BY <1>2, <3>1, <3>3, <5>2
          <6>2. g2[g[c].list].text = g[g[c].list].text \o more
            BY <1>2, <1>6, <5>2, Zenon DEF t2
          <6> QED BY <1>5, <6>1, <6>2, Zenon
        <5> QED BY <5>1, <5>2
      <4>4. PairRight(h2, g2, c)
        BY <1>4, <1>9, <3>1, <4>1, <4>2, <4>3, PairStays
      <4> QED BY <3>3, <4>1, <4>4
    <3> QED BY <3>2, <3>3
  <2> QED BY <1>4, <1>6, <2>1 DEF HeapRight
<1>14. ASSUME NEW f, NEW e, NEW t, ListOpen(h, g, f, e, t), f # head, f # v
       PROVE  ListOpen(h2, g2, f, e, t)
  <2>1. f \in 1..n /\ \A c \in 1..n : h[c].car # f
    BY <1>14 DEF ListOpen, IsPair
  <2>2. g2[f].text = g[f].text
    BY <1>1, <1>6, <1>14, <2>1
  <2>3. \A c \in 1..Len(h2) : h2[c].car # f
    BY <1>3, <1>4, <1>14, <2>1
  <2>4. \A c \in 1..n : h2[c].cdr = h[c].cdr
    BY <1>2, <1>3, <1>4
  <2>5. \A c \in 1..Len(h2) : c \notin 1..n /\ IsPair(h2, c) => g2[c].list # f
    BY <1>4
  <2> QED BY <1>4, <1>9, <1>14, <2>2, <2>3, <2>4, <2>5, OpenStays
<1>15. ListOpen(h2, g2, head, cur, t2)
  <2>1. IsPair(h2, head) /\ IsPair(h2, cur)
    BY <1>1, <1>2, <1>4, <1>9, KeptPairs
  <2>2. IsHead(g2, head) /\ g2[head].text = t2 /\ g2[cur].list = head
    BY <1>1, <1>2, <1>6 DEF IsHead
  <2>3. \A c \in 1..Len(h2) : h2[c].car # head
    BY <1>2, <1>3, <1>4, <1>10
  <2>4. ASSUME NEW c \in 1..Len(h2), IsPair(h2, c), g2[c].list = head
        PROVE  h2[c].cdr = nil <=> c = cur
    <3>1. c \in 1..n /\ IsPair(h, c) /\ g[c].list = head
      BY <1>1, <1>4, <1>6, <1>9, <2>4, KeptPairs
    <3>2. h2[c].cdr = h[c].cdr
      BY <1>2, <1>3, <1>4, <3>1
    <3> QED BY <1>2, <3>1, <3>2
  <2> QED BY <2>1, <2>2, <2>3, <2>4, Zenon DEF ListOpen
<1>16. \A c \in 1..n : c # cur => h2[c] = h[c]
  BY <1>4
<1> QED BY <1>4, <1>5, <1>7, <1>13, <1>14, <1>15, <1>16, Zenon DEF t2, g2, more, CarIsSet

(* A pair behind the pair `last', or as the first one of a list.           *)
PairIsAdded(h, g, h2, g2, U, head, first2, text) ==
  LET pair == Len(h) + 1
  IN  /\ HeapRight(h2, g2, U \cup {pair}) /\ Len(h2) = pair
      /\ ListOpen(h2, g2, first2, pair, text) /\ h2[pair].car = UNINIT
      /\ h2 \in Seq(Cells(Len(h2)))
      /\ \A c \in 1..Len(h) : h2[c].car = h[c].car
      /\ \A f, e, t : f # head /\ ListOpen(h, g, f, e, t) => ListOpen(h2, g2, f, e, t)

LEMMA PairAdded ==
  ASSUME NEW h, NEW g, NEW U, HeapRight(h, g, U), NEW text \in Texts, NEW head, NEW last,
         \/ head = NULL /\ last = NULL /\ text = <<>>
         \/ head # NULL /\ last # NULL /\ ListOpen(h, g, head, last, text)
  PROVE  LET pair   == Len(h) + 1
             h2     == IF last = NULL THEN Append(h, Pair)
                       ELSE [Append(h, Pair) EXCEPT ![last].cdr = pair]
             first2 == IF last = NULL THEN pair ELSE head
             g2     == [g EXCEPT ![pair] = [list |-> first2, before |-> text, text |-> text]]
         IN  PairIsAdded(h, g, h2, g2, U, head, first2, text)
<1> DEFINE n == Len(h)
           pair == n + 1
           h1 == Append(h, Pair)
           x == [h[last] EXCEPT !.cdr = pair]
           h2 == IF last = NULL THEN h1 ELSE [h1 EXCEPT ![last].cdr = pair]
           first2 == IF last = NULL THEN pair ELSE head
           note == [list |-> first2, before |-> text, text |-> text]
           g2 == [g EXCEPT ![pair] = note]
<1>1. h \in Seq(Cells(n)) /\ n \in Nat /\ g \in [Nat -> Notes] /\ \A c \in 1..n : c \in Nat
  BY HeapProperties DEF HeapRight
<1>2. last # NULL =>
        /\ last \in 1..n /\ head \in 1..n /\ IsPair(h, last) /\ g[last].list = head
        /\ h[last].cdr = nil /\ g[head].text = text /\ IsPair(h, head) /\ IsHead(g, head)
        /\ \A c \in 1..n : h[c].car # head
        /\ \A c \in 1..n : IsPair(h, c) /\ g[c].list = head => (h[c].cdr = nil <=> c = last)
  BY DEF ListOpen, IsPair
<1>3. Pair \in Cells(n + 1) /\ Pair.atom = NoToken /\ Pair.car = UNINIT /\ Pair.cdr = nil
  BY NoTokenIsToken DEF Pair, Cells, ValuesOf
<1>4. /\ h1 \in Seq(Cells(Len(h1))) /\ Len(h1) = pair
      /\ (\A c \in 1..n : h1[c] = h[c]) /\ h1[pair] = Pair
  BY <1>1, <1>3, HeapAppended
<1>5. /\ h2 \in Seq(Cells(Len(h2))) /\ Len(h2) = pair /\ h2[pair] = Pair
      /\ \A c \in 1..n : c # last => h2[c] = h[c]
      /\ last # NULL => h2[last] = x
  <2>1. CASE last = NULL
    BY <1>4, <2>1
  <2>2. CASE last # NULL
    <3>1. last \in 1..pair /\ last # pair /\ pair \in 1..pair /\ h1[last] = h[last]
      BY <1>1, <1>2, <1>4, <2>2
    <3>2. x \in Cells(pair)
      <4>1. h1[last] \in Cells(pair)
        BY <1>4, <3>1, HeapProperties
      <4>2. pair \in ValuesOf(pair)
        BY <3>1 DEF ValuesOf
      <4> HIDE DEF h1, pair
      <4> QED BY <3>1, <4>1, <4>2 DEF Cells
    <3>3. h2 = [h1 EXCEPT ![last] = x]
      <4>1. h2 = [h1 EXCEPT ![last] = [h1[last] EXCEPT !.cdr = pair]]
        BY <2>2
      <4> HIDE DEF h1, h2, pair
      <4> QED BY <3>1, <4>1
    <3> HIDE DEF h1, x, h2
    <3>4. /\ h2 \in Seq(Cells(Len(h2))) /\ Len(h2) = Len(h1)
          /\ \A c \in 1..Len(h1) : h2[c] = IF c = last THEN x ELSE h1[c]
      BY <1>4, <3>1, <3>2, <3>3, HeapChanged
    <3>5. \A c \in 1..n : c \in 1..pair
      BY <1>1
    <3> QED BY <1>4, <2>2, <3>1, <3>4, <3>5
  <2> QED BY <2>1, <2>2
<1>6. last # NULL => x.cdr = pair /\ x.car = h[last].car /\ x.atom = h[last].atom
  <2>1. last # NULL => h[last] \in Cells(n)
    BY <1>1, <1>2, HeapProperties
  <2> QED BY <2>1 DEF Cells
<1>7. first2 \in 1..pair /\ pair \in Nat /\ note \in Notes
      /\ note.list = first2 /\ note.before = text /\ note.text = text
  BY <1>1, <1>2 DEF Notes
<1> HIDE DEF note
<1>8. /\ g2 \in [Nat -> Notes] /\ g2[pair] = note
      /\ \A c \in 1..n : c # pair /\ g2[c] = g[c]
  <2>1. \A c \in 1..n : c # pair /\ c \in Nat
    BY <1>1
  <2> HIDE DEF pair
  <2> QED BY <1>1, <1>7, <2>1, NoteChanged
<1> HIDE DEF h1, x, h2, g2
<1>9. \A c \in 1..n : h2[c].car = h[c].car /\ h2[c].atom = h[c].atom
  <2>1. ASSUME NEW c \in 1..n
        PROVE  h2[c].car = h[c].car /\ h2[c].atom = h[c].atom
    <3>1. CASE c = last
      <4>1. last # NULL
        BY <1>1, <3>1, NoCells
      <4> QED BY <1>5, <1>6, <3>1, <4>1
    <3>2. CASE c # last
      BY <1>5, <3>2
    <3> QED BY <3>1, <3>2
  <2> QED BY <2>1
<1>10. Keeps(h, g, h2, g2)
  BY <1>1, <1>5, <1>8, <1>9 DEF Keeps
<1>11. /\ IsPair(h2, pair) /\ \A c \in 1..Len(h2) : c \in 1..n \/ c = pair
       /\ \A c \in 1..n : c # pair /\ (IsPair(h2, c) <=> IsPair(h, c))
  <2>1. \A c \in 1..n : IsPair(h2, c) <=> IsPair(h, c)
    BY <1>1, <1>5, <1>10, KeptPairs
  <2>2. pair \in 1..Len(h2) /\ \A c \in 1..Len(h2) : c \in 1..n \/ c = pair
    BY <1>1, <1>5
  <2> QED BY <1>3, <1>5, <1>8, <2>1, <2>2 DEF IsPair
<1>12. g2[first2].text = text /\ IsHead(g2, first2)
  <2>1. CASE last = NULL
    BY <1>7, <1>8, <2>1 DEF IsHead
  <2>2. CASE last # NULL
    BY <1>2, <1>8, <2>2 DEF IsHead
  <2> QED BY <2>1, <2>2
<1> HIDE DEF first2
<1>13. PairRight(h2, g2, pair)
  <2>1. /\ h2[pair].car = UNINIT /\ h2[pair].cdr = nil /\ g2[pair].list = first2
        /\ g2[pair].before = text /\ ~IsPair(h2, UNINIT)
    <3>1. UNINIT \notin 1..Len(h2)
      BY <1>5, <1>7, NoCells
    <3> QED BY <1>3, <1>5, <1>7, <1>8, <3>1 DEF IsPair
  <2>2. WholeText(g2, pair) = text /\ TextUpTo(h2, g2, pair) = text \o <<>>
    BY <1>12, <2>1 DEF WholeText, TextUpTo, Text
  <2>3. text \o <<>> = text /\ <<>> \in Texts
    BY NothingMore, PrintedProperties, Zenon
  <2> QED BY <1>7, <2>1, <2>2, <2>3, Zenon DEF PairRight
<1>14. last # NULL => PairRight(h2, g2, last)
  <2> SUFFICES ASSUME last # NULL PROVE PairRight(h2, g2, last)
    OBVIOUS
  <2>1. PairRight(h, g, last)
    BY <1>2, NotedProperties
  <2>2. /\ h2[last].cdr = pair /\ h2[last].car = h[last].car /\ g2[last] = g[last]
        /\ pair > last /\ pair # nil /\ last \in 1..n
    BY <1>1, <1>2, <1>5, <1>6, <1>8 DEF nil
  <2>3. WholeText(g, last) = text /\ WholeText(g2, last) = text
    BY <1>2, <1>8, <2>2 DEF WholeText
  <2>4. TextUpTo(h2, g2, last) = TextUpTo(h, g, last) /\ TextUpTo(h, g, last) = text
    <3>1. h[last].car \in {UNINIT} \cup ValuesOf(n)
      BY <1>1, <2>2, HeapProperties
    <3>2. h[last].car \in 1..n => g2[h[last].car].text = g[h[last].car].text
      BY <1>8
    <3>3. Text(h2, g2, h[last].car) = Text(h, g, h[last].car)
      BY <1>1, <1>5, <1>10, <3>1, <3>2, TextStays
    <3>4. TextUpTo(h, g, last) = text
      BY <1>2, <2>1, <2>3, Zenon DEF PairRight
    <3> QED BY <2>2, <3>3, <3>4, Zenon DEF TextUpTo
  <2>5. g2[pair].list = g2[last].list /\ g2[pair].before = text
    BY <1>2, <1>7, <1>8, <2>2 DEF first2
  <2>6. IsPair(h2, h[last].car) => h[last].car > last /\ IsHead(g2, h[last].car)
    <3>1. pair \notin {UNINIT} \cup ValuesOf(n)
      BY <1>1 DEF ValuesOf, UNINIT, NULL, nil
    <3>2. h[last].car # pair
      BY <1>1, <2>2, <3>1, HeapProperties
    <3>3. IsPair(h2, h[last].car) => h[last].car \in 1..n /\ IsPair(h, h[last].car)
      BY <1>11, <3>2 DEF IsPair
    <3>4. IsPair(h2, h[last].car) => g2[h[last].car] = g[h[last].car]
      BY <1>8, <3>3
    <3> QED BY <2>1, <3>3, <3>4 DEF PairRight, IsHead
  <2>7. \E rest \in Texts : WholeText(g2, last) = g2[last].before \o rest
    BY <2>1, <2>2, <2>3, Zenon DEF PairRight
  <2>8. g2[last].list \in 1..last
    BY <2>1, <2>2 DEF PairRight
  <2> QED BY <1>11, <2>2, <2>4, <2>5, <2>6, <2>7, <2>8, Zenon DEF PairRight
<1>15. HeapRight(h2, g2, U \cup {pair})
  <2>1. ASSUME NEW c \in 1..Len(h2), IsPair(h2, c)
        PROVE  PairRight(h2, g2, c) /\ (h2[c].car = UNINIT => c \in U \cup {pair})
    <3>1. CASE c = pair
      BY <1>13, <3>1
    <3>2. CASE c # pair
      <4>1. c \in 1..n /\ IsPair(h, c)
        BY <1>11, <2>1, <3>2
      <4>2. h2[c].car = UNINIT => c \in U \cup {pair}
        BY <1>9, <4>1 DEF HeapRight
      <4>3. CASE last # NULL /\ c = last
        BY <1>14, <4>2, <4>3
      <4>4. CASE last = NULL \/ c # last
        <5>1. h2[c] = h[c]
          <6>1. last = NULL => c # last
            BY <1>1, <4>1, NoCells
          <6> QED BY <1>5, <4>1, <4>4, <6>1
        <5>2. g2[g[c].list].text = g[g[c].list].text
          <6>1. g[c].list \in 1..n
            <7>1. g[c].list \in 1..c
              BY <4>1, NotedProperties DEF PairRight
            <7> QED BY <1>1, <4>1, <7>1
          <6> QED BY <1>8, <6>1
        <5>3. h[c].car \in 1..n => g2[h[c].car].text = g[h[c].car].text
          BY <1>8
        <5>4. PairRight(h2, g2, c)
          BY <1>5, <1>10, <4>1, <5>1, <5>2, <5>3, PairStays
        <5> QED BY <4>2, <5>4
      <4> QED BY <4>3, <4>4
    <3> QED BY <3>1, <3>2
  <2> QED BY <1>5, <1>8, <2>1 DEF HeapRight
<1>16. ASSUME NEW f, NEW e, NEW t, ListOpen(h, g, f, e, t), f # head
       PROVE  ListOpen(h2, g2, f, e, t)
  <2>1. f \in 1..n /\ \A c \in 1..n : h[c].car # f
    BY <1>16 DEF ListOpen, IsPair
  <2>2. g2[f].text = g[f].text
    BY <1>8, <2>1
  <2>3. \A c \in 1..Len(h2) : h2[c].car # f
    <3>1. f # UNINIT
      BY <1>1, <2>1, NoCells
    <3> QED BY <1>3, <1>5, <1>9, <1>11, <2>1, <3>1
  <2>4. ASSUME NEW c \in 1..n, g[c].list = f
        PROVE  h2[c].cdr = h[c].cdr
    <3>1. c # last
      <4>1. last = NULL => c # last
        BY <1>1, NoCells
      <4> QED BY <1>2, <1>16, <2>4, <4>1
    <3> QED BY <1>5, <3>1
  <2>5. ASSUME NEW c \in 1..Len(h2), c \notin 1..n
        PROVE  g2[c].list # f
    <3>1. c = pair /\ g2[c].list = first2
      BY <1>7, <1>8, <1>11, <2>5
    <3>2. first2 # f
      BY <1>8, <1>16, <2>1 DEF first2
    <3> QED BY <3>1, <3>2
  <2> QED BY <1>5, <1>10, <1>16, <2>2, <2>3, <2>4, <2>5, OpenStays
<1>17. ListOpen(h2, g2, first2, pair, text)
  <2>1. IsPair(h2, first2) /\ g2[pair].list = first2
    <3>1. CASE last = NULL
      BY <1>7, <1>8, <1>11, <3>1 DEF first2
    <3>2. CASE last # NULL
      BY <1>2, <1>7, <1>8, <1>11, <3>2 DEF first2
    <3> QED BY <3>1, <3>2
  <2>2. \A c \in 1..Len(h2) : h2[c].car # first2
    <3>1. h2[pair].car # first2
      <4>1. first2 # UNINIT
        BY <1>7, NoCells
      <4> QED BY <1>3, <1>5, <4>1
    <3>2. ASSUME NEW c \in 1..n
          PROVE  h[c].car # first2
      <4>1. h[c].car \in {UNINIT} \cup ValuesOf(n)
        BY <1>1, HeapProperties
      <4>2. pair \notin {UNINIT} \cup ValuesOf(n)
        BY <1>1 DEF ValuesOf, UNINIT, NULL, nil
      <4> QED BY <1>2, <4>1, <4>2 DEF first2
    <3> QED BY <1>9, <1>11, <3>1, <3>2
  <2>3. ASSUME NEW c \in 1..Len(h2), IsPair(h2, c), g2[c].list = first2
        PROVE  h2[c].cdr = nil <=> c = pair
    <3>1. CASE c = pair
      BY <1>3, <1>5, <3>1
    <3>2. CASE c # pair
      <4>1. c \in 1..n /\ IsPair(h, c) /\ g[c].list = first2
        BY <1>8, <1>11, <2>3, <3>2
      <4>2. last # NULL
        <5>1. g[c].list \in 1..c
          BY <4>1, NotedProperties DEF PairRight
        <5>2. g[c].list # pair
          BY <1>1, <4>1, <5>1
        <5> QED BY <4>1, <5>2 DEF first2
      <4>3. h[c].cdr = nil <=> c = last
        BY <1>2, <4>1, <4>2 DEF first2
      <4>4. c = last => h2[c].cdr = pair
        BY <1>5, <1>6, <4>2
      <4>5. c # last => h2[c].cdr = h[c].cdr
        BY <1>5, <4>1
      <4>6. pair # nil
        BY <1>7 DEF nil
      <4> QED BY <3>2, <4>3, <4>4, <4>5, <4>6
    <3> QED BY <3>1, <3>2
  <2> QED BY <1>11, <1>12, <2>1, <2>2, <2>3, Zenon DEF ListOpen
<1> QED BY <1>3, <1>5, <1>8, <1>9, <1>15, <1>16, <1>17, Zenon
   DEF h1, h2, g2, note, first2, PairIsAdded

-----------------------------------------------------------------------------
(***************************************************************************)
(* The lists around the innermost one: the lists 1 to n of fr have         *)
(* allocated the pair of the list that they wait for, each behind those    *)
(* around it, and what they have read so far is in sd.                     *)
(***************************************************************************)
Waits(fr, n) == {fr[i].current : i \in 1..n}

Outer(h, g, fr, sd, n) ==
  \A i \in 1..n :
    ListOpen(h, g, fr[i].first, fr[i].current, sd[i + 1]) /\ h[fr[i].current].car = UNINIT

InOrder(fr, n) == \A i, j \in 1..n : i < j => fr[i].current < fr[j].first

Above(fr, n, v) == \A i \in 1..n : fr[i].current < v

Known(h, g, fr, sd, n) ==
  HeapRight(h, g, Waits(fr, n)) /\ Outer(h, g, fr, sd, n) /\ InOrder(fr, n)

(* The innermost list when it has done with an element, and when not.      *)
Rests(h, g, fr, n, head, last, text) ==
  \/ head = NULL /\ last = NULL /\ text = <<>>
  \/ /\ head # NULL /\ last # NULL /\ ListOpen(h, g, head, last, text)
     /\ Above(fr, n, head)

Waiting(h, g, fr, sd, n, head, cur, text) ==
  /\ HeapRight(h, g, Waits(fr, n) \cup {cur}) /\ Outer(h, g, fr, sd, n) /\ InOrder(fr, n)
  /\ ListOpen(h, g, head, cur, text) /\ h[cur].car = UNINIT /\ Above(fr, n, head)

LEMMA HeapRightFewer ==
  ASSUME NEW h, NEW g, NEW U, NEW V, HeapRight(h, g, U), U \subseteq V
  PROVE  HeapRight(h, g, V)
BY DEF HeapRight

LEMMA FirstOfOpen ==
  ASSUME NEW h, NEW g, NEW U, HeapRight(h, g, U), NEW f, NEW e, NEW t, ListOpen(h, g, f, e, t)
  PROVE  f \in 1..Len(h) /\ e \in 1..Len(h) /\ f \in Nat /\ e \in Nat /\ f <= e /\ IsPair(h, f)
         /\ f # NULL /\ Len(h) \in Nat
<1>1. h \in Seq(Cells(Len(h))) /\ Len(h) \in Nat
  BY HeapProperties DEF HeapRight
<1>2. f \in 1..Len(h) /\ e \in 1..Len(h) /\ IsPair(h, f) /\ IsPair(h, e) /\ g[e].list = f
  BY DEF ListOpen, IsPair
<1>3. f \in 1..e
  BY <1>2, NotedProperties DEF PairRight
<1>4. f # NULL
  BY <1>1, <1>2, NoCells
<1> QED BY <1>1, <1>2, <1>3, <1>4

SameBelow(fr, sd, fr2, sd2, n) == \A i \in 1..n : fr2[i] = fr[i] /\ sd2[i + 1] = sd[i + 1]

LEMMA SamePrefix ==
  ASSUME NEW h, NEW g, NEW fr, NEW sd, NEW fr2, NEW sd2, NEW n \in Nat,
         SameBelow(fr, sd, fr2, sd2, n)
  PROVE  /\ Known(h, g, fr, sd, n) => Known(h, g, fr2, sd2, n)
         /\ \A head, last, text :
              Rests(h, g, fr, n, head, last, text) => Rests(h, g, fr2, n, head, last, text)
         /\ \A head, cur, text :
              Waiting(h, g, fr, sd, n, head, cur, text)
                => Waiting(h, g, fr2, sd2, n, head, cur, text)
<1>1. Waits(fr2, n) = Waits(fr, n)
  BY DEF Waits, SameBelow
<1>2. Outer(h, g, fr, sd, n) => Outer(h, g, fr2, sd2, n)
  BY DEF Outer, SameBelow
<1>3. InOrder(fr, n) => InOrder(fr2, n)
  BY DEF InOrder, SameBelow
<1>4. \A v : Above(fr, n, v) => Above(fr2, n, v)
  BY DEF Above, SameBelow
<1> QED BY <1>1, <1>2, <1>3, <1>4, Zenon DEF Known, Rests, Waiting

(* The innermost list has a new pair, and waits for what goes in it.       *)
PairIsWaitedFor(h, h2, fr, sd, n, head, text) ==
  /\ \E g : Waiting(h2, g, fr, sd, n, head, Len(h) + 1, text)
  /\ Len(h2) = Len(h) + 1 /\ h2 \in Seq(Cells(Len(h2)))

LEMMA PairAddedToList ==
  ASSUME NEW h, NEW g, NEW fr, NEW sd, NEW n \in Nat, Known(h, g, fr, sd, n),
         NEW text \in Texts, NEW head, NEW last, Rests(h, g, fr, n, head, last, text)
  PROVE  LET pair   == Len(h) + 1
             h2     == IF last = NULL THEN Append(h, Pair)
                       ELSE [Append(h, Pair) EXCEPT ![last].cdr = pair]
             first2 == IF last = NULL THEN pair ELSE head
         IN  PairIsWaitedFor(h, h2, fr, sd, n, first2, text)
<1> DEFINE W == Waits(fr, n)
           pair == Len(h) + 1
           h2 == IF last = NULL THEN Append(h, Pair)
                 ELSE [Append(h, Pair) EXCEPT ![last].cdr = pair]
           first2 == IF last = NULL THEN pair ELSE head
           g2 == [g EXCEPT ![pair] = [list |-> first2, before |-> text, text |-> text]]
<1>1. HeapRight(h, g, W) /\ Outer(h, g, fr, sd, n) /\ InOrder(fr, n)
  BY DEF Known
<1>2. \/ head = NULL /\ last = NULL /\ text = <<>>
      \/ head # NULL /\ last # NULL /\ ListOpen(h, g, head, last, text)
  BY DEF Rests
<1> HIDE DEF W
<1>3. /\ HeapRight(h2, g2, W \cup {pair}) /\ Len(h2) = pair
      /\ ListOpen(h2, g2, first2, pair, text) /\ h2[pair].car = UNINIT
      /\ h2 \in Seq(Cells(Len(h2)))
      /\ \A c \in 1..Len(h) : h2[c].car = h[c].car
      /\ \A f, e, t : f # head /\ ListOpen(h, g, f, e, t) => ListOpen(h2, g2, f, e, t)
  <2>1. PairIsAdded(h, g, h2, g2, W, head, first2, text)
    BY <1>1, <1>2, PairAdded
  <2> HIDE DEF h2, g2, first2
  <2> QED BY <2>1 DEF PairIsAdded
<1> HIDE DEF h2, g2
<1>4. ASSUME NEW i \in 1..n
      PROVE  /\ ListOpen(h2, g2, fr[i].first, fr[i].current, sd[i + 1])
             /\ h2[fr[i].current].car = UNINIT /\ fr[i].current < pair
  <2>1. ListOpen(h, g, fr[i].first, fr[i].current, sd[i + 1]) /\ h[fr[i].current].car = UNINIT
    BY <1>1 DEF Outer
  <2>2. /\ fr[i].current \in 1..Len(h) /\ fr[i].first <= fr[i].current /\ fr[i].first # NULL
        /\ fr[i].first \in Nat /\ fr[i].current \in Nat /\ Len(h) \in Nat
    BY <1>1, <2>1, FirstOfOpen
  <2>3. fr[i].first # head
    <3>1. CASE head = NULL
      BY <2>2, <3>1
    <3>2. CASE head # NULL
      <4>1. ListOpen(h, g, head, last, text) /\ fr[i].current < head
        BY <3>2 DEF Rests, Above
      <4>2. head \in Nat
        BY <1>1, <4>1, FirstOfOpen
      <4> QED BY <2>2, <4>1, <4>2
    <3> QED BY <3>1, <3>2
  <2>4. ListOpen(h2, g2, fr[i].first, fr[i].current, sd[i + 1])
    BY <1>3, <2>1, <2>3
  <2>5. h2[fr[i].current].car = UNINIT
    BY <1>3, <2>1, <2>2
  <2>6. fr[i].current < pair
    BY <2>2
  <2> QED BY <2>4, <2>5, <2>6
<1>5. Above(fr, n, first2)
  <2>1. CASE last = NULL
    BY <1>4, <2>1 DEF Above
  <2>2. CASE last # NULL
    BY <2>2 DEF Above, Rests
  <2> QED BY <2>1, <2>2
<1>6. Outer(h2, g2, fr, sd, n)
  BY <1>4 DEF Outer
<1> HIDE DEF pair, first2
<1>7. Waiting(h2, g2, fr, sd, n, first2, pair, text)
  BY <1>1, <1>3, <1>5, <1>6 DEF Waiting, W
<1> QED BY <1>3, <1>7 DEF h2, pair, first2, PairIsWaitedFor

LEMMA AtomAddedToLists ==
  ASSUME NEW h, NEW g, NEW fr, NEW sd, NEW n \in Nat, NEW head, NEW cur, NEW text,
         Waiting(h, g, fr, sd, n, head, cur, text),
         NEW x \in Cells(Len(h)), x.atom # NoToken, x.car = NULL
  PROVE  /\ Waiting(Append(h, x), g, fr, sd, n, head, cur, text)
         /\ Len(Append(h, x)) = Len(h) + 1
<1> DEFINE U == Waits(fr, n) \cup {cur}
           h2 == Append(h, x)
<1>1. /\ HeapRight(h, g, U) /\ Outer(h, g, fr, sd, n) /\ InOrder(fr, n)
      /\ ListOpen(h, g, head, cur, text) /\ h[cur].car = UNINIT /\ Above(fr, n, head)
  BY DEF Waiting
<1> HIDE DEF U
<1>2. /\ HeapRight(h2, g, U) /\ Len(h2) = Len(h) + 1
      /\ \A c \in 1..Len(h) : h2[c] = h[c]
      /\ \A f, e, t : ListOpen(h, g, f, e, t) => ListOpen(h2, g, f, e, t)
  BY <1>1, AtomAdded
<1> HIDE DEF h2
<1>3. cur \in 1..Len(h)
  BY <1>1, FirstOfOpen
<1>4. Outer(h2, g, fr, sd, n)
  <2>1. ASSUME NEW i \in 1..n
        PROVE  ListOpen(h2, g, fr[i].first, fr[i].current, sd[i + 1])
               /\ h2[fr[i].current].car = UNINIT
    <3>1. ListOpen(h, g, fr[i].first, fr[i].current, sd[i + 1]) /\ h[fr[i].current].car = UNINIT
      BY <1>1 DEF Outer
    <3>2. fr[i].current \in 1..Len(h)
      BY <1>1, <3>1, FirstOfOpen
    <3> QED BY <1>2, <3>1, <3>2
  <2> QED BY <2>1 DEF Outer
<1>5. ListOpen(h2, g, head, cur, text) /\ h2[cur].car = UNINIT
  BY <1>1, <1>2, <1>3
<1>6. Waiting(h2, g, fr, sd, n, head, cur, text)
  BY <1>1, <1>2, <1>4, <1>5 DEF Waiting, U
<1> QED BY <1>2, <1>6 DEF h2

(* A value goes into the pair that the innermost list waits for.           *)
ListsRight(h, fr, sd, n, head, last, text) ==
  \E g : Known(h, g, fr, sd, n) /\ Rests(h, g, fr, n, head, last, text)

ValueIsSet(h, h2, fr, sd, n, head, cur, t2) ==
  /\ ListsRight(h2, fr, sd, n, head, cur, t2) /\ t2 \in Texts
  /\ Len(h2) = Len(h) /\ h2 \in Seq(Cells(Len(h2)))

LEMMA ValueSet ==
  ASSUME NEW h, NEW g, NEW fr, NEW sd, NEW n \in Nat, NEW head, NEW cur, NEW text \in Texts,
         Waiting(h, g, fr, sd, n, head, cur, text),
         NEW v \in ValuesOf(Len(h)), IsPair(h, v) => v > cur /\ IsHead(g, v)
  PROVE  ValueIsSet(h, [h EXCEPT ![cur].car = v], fr, sd, n, head, cur, text \o Text(h, g, v))
<1> DEFINE U == Waits(fr, n) \cup {cur}
           h2 == [h EXCEPT ![cur].car = v]
           t2 == text \o Text(h, g, v)
           g2 == [g EXCEPT ![head].text = t2]
<1>1. /\ HeapRight(h, g, U) /\ Outer(h, g, fr, sd, n) /\ InOrder(fr, n)
      /\ ListOpen(h, g, head, cur, text) /\ h[cur].car = UNINIT /\ Above(fr, n, head)
  BY DEF Waiting
<1>2. U \ {cur} \subseteq Waits(fr, n)
  OBVIOUS
<1> HIDE DEF U
<1>3. /\ HeapRight(h2, g2, U \ {cur}) /\ Len(h2) = Len(h) /\ t2 \in Texts
      /\ ListOpen(h2, g2, head, cur, t2)
      /\ \A c \in 1..Len(h) : c # cur => h2[c] = h[c]
      /\ \A f, e, t : f # head /\ f # v /\ ListOpen(h, g, f, e, t) => ListOpen(h2, g2, f, e, t)
  <2>1. CarIsSet(h, g, h2, g2, U, head, cur, v, t2)
    BY <1>1, CarSet
  <2> HIDE DEF h2, g2, t2
  <2> QED BY <2>1 DEF CarIsSet
<1> HIDE DEF h2, t2, g2
<1>4. head <= cur /\ head \in Nat /\ cur \in Nat /\ head # NULL /\ cur \in 1..Len(h)
  BY <1>1, FirstOfOpen
<1>5. ASSUME NEW i \in 1..n
      PROVE  ListOpen(h2, g2, fr[i].first, fr[i].current, sd[i + 1])
             /\ h2[fr[i].current].car = UNINIT
  <2>1. /\ ListOpen(h, g, fr[i].first, fr[i].current, sd[i + 1])
        /\ h[fr[i].current].car = UNINIT /\ fr[i].current < head
    BY <1>1 DEF Outer, Above
  <2>2. /\ fr[i].current \in 1..Len(h) /\ fr[i].first <= fr[i].current
        /\ fr[i].first \in Nat /\ fr[i].current \in Nat /\ IsPair(h, fr[i].first)
    BY <1>1, <2>1, FirstOfOpen
  <2>3. fr[i].first # head /\ fr[i].current # cur
    BY <1>4, <2>1, <2>2
  <2>4. fr[i].first # v
    BY <1>4, <2>1, <2>2
  <2>5. h2[fr[i].current] = h[fr[i].current]
    BY <1>3, <2>2, <2>3
  <2> QED BY <1>3, <2>1, <2>3, <2>4, <2>5
<1>6. Outer(h2, g2, fr, sd, n)
  BY <1>5 DEF Outer
<1>7. HeapRight(h2, g2, Waits(fr, n))
  BY <1>2, <1>3, HeapRightFewer
<1>8. cur # NULL
  BY <1>4 DEF NULL
<1>9. Known(h2, g2, fr, sd, n) /\ Rests(h2, g2, fr, n, head, cur, t2)
  BY <1>1, <1>3, <1>4, <1>6, <1>7, <1>8 DEF Known, Rests
<1>10. h2 \in Seq(Cells(Len(h2)))
  BY <1>3 DEF HeapRight
<1> QED BY <1>3, <1>9, <1>10 DEF h2, t2, ValueIsSet, ListsRight

-----------------------------------------------------------------------------
(***************************************************************************)
(* The input and its tokens.                                               *)
(***************************************************************************)
LEMMA TypesStay ==
  ASSUME Types, UNCHANGED tokenizerVars
  PROVE  Types'
BY DEF Types, tokenizerVars, NumberRight

LEMMA FileProperties ==
  ASSUME NEW text \in Seq(Input)
  PROVE  IsStream(make_filestream(text)) /\ make_filestream(text).kind = "file"
<1>1. <<>> \in Seq(Input) /\ Len(<<>>) = 0
  OBVIOUS
<1> QED BY <1>1 DEF make_filestream, IsStream

LEMMA PutBackStays ==
  ASSUME NEW s, IsStream(s), s.kind = "file", NEW c
  PROVE  stream_ungetc(c, s).kind = "file" /\ pushback(c, s).kind = "file"
BY DEF IsStream, stream_ungetc, pushback

LEMMA FileStays ==
  ASSUME IsStream(stream), stream.kind = "file", Tokenize
  PROVE  stream'.kind = "file"
<1> DEFINE s == Next_char.s
           c == Next_char.c
<1>1. IsStream(s) /\ s.kind = "file"
  <2>1. IsStream(s)
    BY NextCharacter
  <2>2. s.kind = "file"
    BY DEF IsStream, Next_char, stream_getc
  <2> QED BY <2>1, <2>2
<1>2. stream_ungetc(")", s).kind = "file" /\ pushback(c, s).kind = "file"
  <2> HIDE DEF s, c
  <2> QED BY <1>1, PutBackStays
<1>3. stream' \in {s, stream, pushback(c, s)}
  BY DEF Tokenize, get_token, zero, read_plus_minus, readsymbol, readnumber, readstring,
         Continues, Fails, Returns, Bails, CloseParen
<1> QED BY <1>1, <1>2, <1>3

LEMMA CharacterComes ==
  ASSUME Types, stream.kind = "file", Comes
  PROVE  Types' /\ stream'.kind = "file"
<1>1. tpc' = tpc /\ first' = first /\ buf' = buf /\ tok' = tok /\ ret' = ret
  BY DEF Comes
<1>2. IsStream(stream') /\ stream'.kind = "file"
  <2>1. CASE UNCHANGED stream
    BY <2>1 DEF Types
  <2>2. CASE \E c \in Chars : stream' = [stream EXCEPT !.text = <<c>>]
    <3>1. PICK c \in Chars : stream' = [stream EXCEPT !.text = <<c>>]
      BY <2>2
    <3>2. <<c>> \in Seq(Input)
      BY DEF Input
    <3> QED BY <3>1, <3>2 DEF Types, IsStream
  <2> QED BY <2>1, <2>2 DEF Comes
<1> QED BY <1>1, <1>2 DEF Types, NumberRight

(* A token is a symbol, a number or a string, and so not a pair.           *)
LEMMA WrittenProperties ==
  ASSUME NEW t \in Tokens
  PROVE  /\ Written(t) \in Tokens /\ <<Written(t)>> \in Texts
         /\ IsAtom(t) => Written(t) # NoToken
<1>1. <<>> \in Seq(Stored)
  OBVIOUS
<1>2. Written(t) \in Tokens /\ Written(t).type = t.type
  BY <1>1 DEF Written, Tokens
<1>3. IsAtom(t) => t.type # "none"
  BY DEF IsAtom
<1> QED BY <1>2, <1>3, NoTokenIsToken, PrintedProperties

-----------------------------------------------------------------------------
(***************************************************************************)
(* Sequences whose end is exchanged.                                       *)
(***************************************************************************)
LEMMA LastProperties ==
  ASSUME NEW s, IsSequence(s), s # <<>>
  PROVE  /\ Len(s) \in Nat /\ Len(s) > 0 /\ Last(s) = s[Len(s)]
         /\ IsSequence(Front(s)) /\ Len(Front(s)) = Len(s) - 1
         /\ \A i \in 1..(Len(s) - 1) : Front(s)[i] = s[i]
<1> DEFINE S == {s[i] : i \in DOMAIN s}
           n == Len(s)
<1>1. s \in Seq(S) /\ s # <<>>
  BY DEF IsSequence
<1>2. n \in Nat /\ n > 0
  BY <1>1
<1>3. Last(s) = s[n]
  BY DEF Last
<1>4. \A i \in 1..(n - 1) : s[i] \in S
  BY <1>1, <1>2
<1>5. 1 \in Int /\ n - 1 \in Int
  BY <1>2
<1> HIDE DEF S, n
<1>6. /\ SubSeq(s, 1, n - 1) \in Seq(S)
      /\ Len(SubSeq(s, 1, n - 1)) = IF 1 <= n - 1 THEN n - 1 - 1 + 1 ELSE 0
      /\ \A i \in 1..(n - 1 - 1 + 1) : SubSeq(s, 1, n - 1)[i] = s[1 + i - 1]
  BY <1>4, <1>5, SubSeqProperties
<1>7. Front(s) = SubSeq(s, 1, n - 1)
  BY DEF Front, n
<1>8. IsSequence(Front(s))
  BY <1>6, <1>7, SequenceOf
<1>9. Len(Front(s)) = n - 1
  <2>1. 1 <= n - 1 => n - 1 - 1 + 1 = n - 1
    BY <1>2
  <2>2. ~(1 <= n - 1) => 0 = n - 1
    BY <1>2
  <2> QED BY <1>6, <1>7, <2>1, <2>2, Zenon
<1>10. ASSUME NEW i \in 1..(n - 1)
       PROVE  Front(s)[i] = s[i]
  <2>1. i \in 1..(n - 1 - 1 + 1) /\ 1 + i - 1 = i
    BY <1>2
  <2> QED BY <1>6, <1>7, <2>1
<1> QED BY <1>2, <1>3, <1>8, <1>9, <1>10 DEF n

LEMMA AppendedAt ==
  ASSUME NEW s, NEW x, IsSequence(s)
  PROVE  /\ IsSequence(Append(s, x)) /\ Append(s, x) # <<>> /\ Len(Append(s, x)) = Len(s) + 1
         /\ \A i \in 1..Len(s) : Append(s, x)[i] = s[i]
         /\ Append(s, x)[Len(s) + 1] = x /\ Last(Append(s, x)) = x
<1> DEFINE S == {s[i] : i \in DOMAIN s} \cup {x}
<1>1. s \in Seq(S) /\ x \in S
  BY DEF IsSequence
<1> HIDE DEF S
<1>2. Len(Append(s, x)) = Len(s) + 1 /\ IsSequence(Append(s, x)) /\ Append(s, x) # <<>>
  BY Appended
<1>3. /\ \A i \in 1..Len(s) : Append(s, x)[i] = s[i]
      /\ Append(s, x)[Len(s) + 1] = x
  BY <1>1
<1> QED BY <1>2, <1>3 DEF Last

LEMMA EndExchanged ==
  ASSUME NEW s, NEW x, IsSequence(s), s # <<>>
  PROVE  /\ Len(s) \in Nat /\ Len(s) > 0
         /\ Len(Append(Front(s), x)) = Len(s)
         /\ IsSequence(Append(Front(s), x)) /\ Append(Front(s), x) # <<>>
         /\ \A i \in 1..(Len(s) - 1) : Append(Front(s), x)[i] = s[i]
         /\ Append(Front(s), x)[Len(s)] = x /\ Last(Append(Front(s), x)) = x
<1> DEFINE f == Front(s)
           n == Len(s)
<1>1. n \in Nat /\ n > 0 /\ IsSequence(f) /\ Len(f) = n - 1 /\ \A i \in 1..(n - 1) : f[i] = s[i]
  BY LastProperties
<1>2. n - 1 + 1 = n
  BY <1>1
<1> HIDE DEF f, n
<1>3. /\ IsSequence(Append(f, x)) /\ Append(f, x) # <<>> /\ Len(Append(f, x)) = Len(f) + 1
      /\ \A i \in 1..Len(f) : Append(f, x)[i] = f[i]
      /\ Append(f, x)[Len(f) + 1] = x /\ Last(Append(f, x)) = x
  BY <1>1, AppendedAt
<1>4. /\ Len(f) + 1 = n /\ \A i \in 1..(n - 1) : Append(f, x)[i] = s[i]
  BY <1>1, <1>2, <1>3
<1> QED BY <1>1, <1>3, <1>4 DEF f, n

(* s2 is s with x at its end.                                              *)
EndIs(s, s2, x) ==
  /\ Len(s2) = Len(s) /\ IsSequence(s2) /\ s2 # <<>> /\ s2[Len(s)] = x /\ Last(s2) = x
  /\ \A i \in 1..(Len(s) - 1) : s2[i] = s[i]

LEMMA EndsExchanged ==
  ASSUME NEW s, IsSequence(s), s # <<>>, NEW x
  PROVE  EndIs(s, Append(Front(s), x), x)
BY EndExchanged, Zenon DEF EndIs

(* The texts that have been read, of which the last one changes.           *)
LEMMA TextsEnd ==
  ASSUME NEW s \in Seq(Texts), s # <<>>, NEW x \in Texts
  PROVE  /\ Append(Front(s), x) \in Seq(Texts) /\ Last(s) \in Texts /\ Front(s) \in Seq(Texts)
         /\ Append(s, x) \in Seq(Texts) /\ \A i \in 1..Len(s) : s[i] \in Texts
<1>0. IsSequence(s)
  BY SequenceOf
<1>1. /\ Len(s) \in Nat /\ Len(s) > 0 /\ Last(s) = s[Len(s)]
      /\ IsSequence(Front(s)) /\ Len(Front(s)) = Len(s) - 1
      /\ \A i \in 1..(Len(s) - 1) : Front(s)[i] = s[i]
  BY <1>0, LastProperties
<1>2. \A i \in 1..Len(s) : s[i] \in Texts
  OBVIOUS
<1>3. Last(s) \in Texts
  BY <1>1, <1>2
<1>4. Front(s) \in Seq(Texts)
  <2> DEFINE f == Front(s)
  <2>1. f \in [1..Len(f) -> {f[i] : i \in DOMAIN f}] /\ Len(f) \in Nat
    BY <1>1 DEF IsSequence
  <2>2. \A i \in 1..Len(f) : f[i] \in Texts
    BY <1>1, <1>2
  <2>3. f \in [1..Len(f) -> Texts]
    <3> HIDE DEF f
    <3> QED BY <2>1, <2>2
  <2> HIDE DEF f
  <2>4. f \in Seq(Texts)
    BY <2>1, <2>3, SeqDef
  <2> QED BY <2>4 DEF f
<1>5. \A t \in Seq(Texts) : Append(t, x) \in Seq(Texts)
  OBVIOUS
<1> QED BY <1>2, <1>3, <1>4, <1>5

-----------------------------------------------------------------------------
(***************************************************************************)
(* The values that the calls keep.                                         *)
(***************************************************************************)
FrameValues(f, n) == {f.current, f.first, f.temp, f.last} \subseteq ValuesOf(n)

LEMMA ValuesGrow ==
  ASSUME NEW m \in Nat, NEW n \in Nat, m <= n
  PROVE  ValuesOf(m) \subseteq ValuesOf(n) /\ \A f : FrameValues(f, m) => FrameValues(f, n)
BY DEF ValuesOf, FrameValues

LEMMA NewFrameValues ==
  ASSUME NEW H, NEW n \in Nat
  PROVE  /\ FrameValues(NewFrame(H), n)
         /\ NewFrame(H).first = NULL /\ NewFrame(H).last = NULL
BY DEF NewFrame, FrameValues, ValuesOf

LEMMA FrameIsSame ==
  ASSUME NEW f \in Frames
  PROVE  [f EXCEPT !.last = f.last, !.first = f.first] = f
BY DEF Frames

(* What comes back from the handles is what a list had in its locals.      *)
LEMMA GetAfterSet ==
  ASSUME NEW H \in HandleStacks, H.st = "ok", NEW handle \in 0..HandleFrameSize, NEW v \in Int
  PROVE  /\ handle_get(handle_set(H, handle, v), handle) = v
         /\ \A other \in 0..HandleFrameSize \ {handle} :
              handle_get(handle_set(H, handle, v), other) = handle_get(H, other)
BY DEF HandleStacks, handle_get, handle_set

LEMMA LoadedBack ==
  ASSUME IInv, rpc = "list"
  PROVE  Reloaded(Top, Handled(hs, Top)) = Top
<1> DEFINE F == handle_set(hs, Top.hfirst, Top.first)
           T == handle_set(F, Top.htemp, Top.temp)
           L == handle_set(T, Top.hlast, Top.last)
<1>1. /\ hs \in HandleStacks /\ hs.st = "ok" /\ hs.top \in Nat
      /\ Top \in Frames
      /\ Top.hfirst \in 0..HandleFrameSize /\ Top.htemp \in 0..HandleFrameSize
      /\ Top.hlast \in 0..HandleFrameSize
      /\ Top.hlast = hs.top /\ Top.htemp = hs.top - 1 /\ Top.hfirst = hs.top - 2
      /\ Top.first \in Int /\ Top.temp \in Int /\ Top.last \in Int
  BY TopProperties DEF Frames
<1>2. Top.hfirst # Top.htemp /\ Top.hfirst # Top.hlast /\ Top.htemp # Top.hlast
  BY <1>1
<1>3. F \in HandleStacks /\ F.st = "ok" /\ handle_get(F, Top.hfirst) = Top.first
  BY <1>1, SetProperties, GetAfterSet
<1> HIDE DEF F
<1>4. T \in HandleStacks /\ T.st = "ok" /\ handle_get(T, Top.hfirst) = Top.first
  <2>1. T \in HandleStacks /\ T.st = "ok"
    BY <1>1, <1>3, SetProperties
  <2>2. \A other \in 0..HandleFrameSize \ {Top.htemp} : handle_get(T, other) = handle_get(F, other)
    BY <1>1, <1>3, GetAfterSet
  <2> QED BY <1>1, <1>2, <1>3, <2>1, <2>2
<1> HIDE DEF T
<1>5. handle_get(L, Top.hlast) = Top.last /\ handle_get(L, Top.hfirst) = Top.first
  <2>1. handle_get(L, Top.hlast) = Top.last
    BY <1>1, <1>4, GetAfterSet
  <2>2. \A other \in 0..HandleFrameSize \ {Top.hlast} : handle_get(L, other) = handle_get(T, other)
    BY <1>1, <1>4, GetAfterSet
  <2> QED BY <1>1, <1>2, <1>4, <2>1, <2>2
<1>6. Handled(hs, Top) = L
  BY DEF Handled, L, T, F
<1> QED BY <1>1, <1>5, <1>6, FrameIsSame DEF Reloaded

-----------------------------------------------------------------------------
(***************************************************************************)
(* One list more around the innermost one, and one less.                   *)
(***************************************************************************)
LEMMA Nests ==
  ASSUME NEW h, NEW g, NEW fr, NEW sd, NEW n \in Nat, NEW head, NEW cur, NEW text,
         Waiting(h, g, fr, sd, n, head, cur, text),
         NEW fr2, NEW sd2, SameBelow(fr, sd, fr2, sd2, n),
         fr2[n + 1].first = head, fr2[n + 1].current = cur, sd2[n + 2] = text
  PROVE  Known(h, g, fr2, sd2, n + 1)
<1>1. /\ HeapRight(h, g, Waits(fr2, n) \cup {cur}) /\ Outer(h, g, fr2, sd2, n)
      /\ InOrder(fr2, n) /\ ListOpen(h, g, head, cur, text) /\ h[cur].car = UNINIT
      /\ Above(fr2, n, head)
  <2>1. Waiting(h, g, fr2, sd2, n, head, cur, text)
    <3>1. \A a, b, t : Waiting(h, g, fr, sd, n, a, b, t) => Waiting(h, g, fr2, sd2, n, a, b, t)
      BY SamePrefix
    <3> QED BY <3>1
  <2> QED BY <2>1 DEF Waiting
<1>2. \A i \in 1..(n + 1) : i \in 1..n \/ i = n + 1
  OBVIOUS
<1>3. n + 1 \in 1..(n + 1) /\ \A i \in 1..n : i \in 1..(n + 1)
  OBVIOUS
<1>4. Waits(fr2, n + 1) = Waits(fr2, n) \cup {cur}
  BY <1>2, <1>3 DEF Waits
<1>5. Outer(h, g, fr2, sd2, n + 1)
  <2>1. ASSUME NEW i \in 1..(n + 1)
        PROVE  ListOpen(h, g, fr2[i].first, fr2[i].current, sd2[i + 1])
               /\ h[fr2[i].current].car = UNINIT
    <3>1. CASE i \in 1..n
      BY <1>1, <3>1 DEF Outer
    <3>2. CASE i = n + 1
      <4>1. i + 1 = n + 2
        BY <3>2
      <4> QED BY <1>1, <3>2, <4>1
    <3> QED BY <1>2, <3>1, <3>2
  <2> QED BY <2>1 DEF Outer
<1>6. InOrder(fr2, n + 1)
  <2>1. ASSUME NEW i \in 1..(n + 1), NEW j \in 1..(n + 1), i < j
        PROVE  fr2[i].current < fr2[j].first
    <3>1. i \in 1..n
      BY <2>1
    <3>2. CASE j \in 1..n
      BY <1>1, <2>1, <3>1, <3>2 DEF InOrder
    <3>3. CASE j = n + 1
      BY <1>1, <3>1, <3>3 DEF Above
    <3> QED BY <1>2, <3>2, <3>3
  <2> QED BY <2>1 DEF InOrder
<1> QED BY <1>1, <1>4, <1>5, <1>6 DEF Known

LEMMA Unnests ==
  ASSUME NEW h, NEW g, NEW fr, NEW sd, NEW n \in Nat \ {0}, Known(h, g, fr, sd, n)
  PROVE  Waiting(h, g, fr, sd, n - 1, fr[n].first, fr[n].current, sd[n + 1])
<1>1. HeapRight(h, g, Waits(fr, n)) /\ Outer(h, g, fr, sd, n) /\ InOrder(fr, n)
  BY DEF Known
<1>2. \A i \in 1..n : i \in 1..(n - 1) \/ i = n
  OBVIOUS
<1>3. n \in 1..n /\ \A i \in 1..(n - 1) : i \in 1..n /\ i < n
  OBVIOUS
<1>4. Waits(fr, n) = Waits(fr, n - 1) \cup {fr[n].current}
  BY <1>2, <1>3 DEF Waits
<1>5. Outer(h, g, fr, sd, n - 1) /\ InOrder(fr, n - 1) /\ Above(fr, n - 1, fr[n].first)
  BY <1>1, <1>3 DEF Outer, InOrder, Above
<1>6. ListOpen(h, g, fr[n].first, fr[n].current, sd[n + 1]) /\ h[fr[n].current].car = UNINIT
  BY <1>1, <1>3 DEF Outer
<1> QED BY <1>1, <1>4, <1>5, <1>6 DEF Waiting

-----------------------------------------------------------------------------
(***************************************************************************)
(* A round of a list, on the cells.                                        *)
(***************************************************************************)
LEMMA AtomIn ==
  ASSUME NEW h, h \in Seq(Cells(Len(h))), NEW t \in Tokens, IsAtom(t),
         NEW a, a = WithAtom(h, t)
  PROVE  /\ a.h \in Seq(Cells(Len(a.h))) /\ Len(a.h) \in Nat /\ Len(h) <= Len(a.h)
         /\ a.cell \in 1..Len(a.h) /\ a.cell \in ValuesOf(Len(a.h))
         /\ ~IsPair(a.h, a.cell)
         /\ \A g : Text(a.h, g, a.cell) = <<Written(t)>>
         /\ Atom(t) \in Cells(Len(h)) /\ Atom(t).atom # NoToken /\ Atom(t).car = NULL
         /\ a.h = h \/ a.h = Append(h, Atom(t))
<1>1. Len(h) \in Nat /\ DOMAIN h = 1..Len(h)
  BY HeapProperties
<1>2. Written(t) \in Tokens /\ Written(t) # NoToken
  BY WrittenProperties
<1>3. /\ Atom(t) \in Cells(Len(h)) /\ Atom(t).atom = Written(t) /\ Atom(t).car = NULL
      /\ Atom(t) \in Cells(Len(h) + 1)
  BY <1>1, <1>2 DEF Atom, Cells, ValuesOf
<1>4. /\ a.h \in Seq(Cells(Len(a.h))) /\ Len(a.h) \in Nat /\ Len(h) <= Len(a.h)
      /\ a.cell \in 1..Len(a.h) /\ a.h[a.cell].atom = Written(t)
      /\ a.h = h \/ a.h = Append(h, Atom(t))
  <2>1. CASE t.type = "TOKEN_SYMBOL" /\ \E i \in DOMAIN h : h[i].atom = Written(t)
    <3> DEFINE cell == CHOOSE i \in DOMAIN h : h[i].atom = Written(t)
    <3>1. cell \in DOMAIN h /\ h[cell].atom = Written(t)
      BY <2>1
    <3>2. a.h = h /\ a.cell = cell
      BY <2>1 DEF WithAtom
    <3> HIDE DEF cell
    <3> QED BY <1>1, <3>1, <3>2
  <2>2. CASE ~(t.type = "TOKEN_SYMBOL" /\ \E i \in DOMAIN h : h[i].atom = Written(t))
    <3>1. a.h = Append(h, Atom(t)) /\ a.cell = Len(h) + 1
      BY <2>2 DEF WithAtom
    <3> DEFINE x == Atom(t)
               h2 == Append(h, x)
    <3>2. h2 \in Seq(Cells(Len(h2))) /\ Len(h2) = Len(h) + 1 /\ h2[Len(h) + 1] = x
      <4>1. x \in Cells(Len(h) + 1)
        BY <1>3
      <4> HIDE DEF x
      <4> QED BY <4>1, HeapAppended
    <3> HIDE DEF h2
    <3>3. a.h = h2
      BY <3>1 DEF h2
    <3> HIDE DEF x
    <3> QED BY <1>1, <1>3, <3>1, <3>2, <3>3 DEF x
  <2> QED BY <2>1, <2>2
<1>5. a.cell \in ValuesOf(Len(a.h)) /\ ~IsPair(a.h, a.cell)
  BY <1>2, <1>4 DEF ValuesOf, IsPair
<1>6. a.cell # UNINIT /\ a.cell # NULL /\ a.cell # nil
  BY <1>4, NoCells
<1>7. \A g : Text(a.h, g, a.cell) = <<Written(t)>>
  BY <1>4, <1>5, <1>6 DEF Text
<1> QED BY <1>2, <1>3, <1>4, <1>5, <1>7

LEMMA OneMoreWord ==
  ASSUME NEW t \in Texts, NEW x, <<x>> \in Texts
  PROVE  t \o <<x>> = Append(t, x)
<1>1. t \in Seq(Printed) /\ x \in Printed
  BY DEF Texts
<1> QED BY <1>1, AppendIsConcat

LEMMA ElementRead ==
  ASSUME NEW h, NEW g, NEW fr, NEW sd, NEW n \in Nat, NEW head, NEW cur, NEW text \in Texts,
         Waiting(h, g, fr, sd, n, head, cur, text), NEW t \in Tokens, IsAtom(t),
         NEW a, a = WithAtom(h, t), NEW h2, h2 = [a.h EXCEPT ![cur].car = a.cell]
  PROVE  /\ ListsRight(h2, fr, sd, n, head, cur, Append(text, Written(t)))
         /\ h2 \in Seq(Cells(Len(h2))) /\ Len(h2) \in Nat /\ Len(h) <= Len(h2)
         /\ a.cell \in ValuesOf(Len(h2)) /\ Append(text, Written(t)) \in Texts
<1>1. h \in Seq(Cells(Len(h)))
  BY DEF Waiting, HeapRight
<1>2. /\ Len(a.h) \in Nat /\ Len(h) <= Len(a.h)
      /\ a.cell \in ValuesOf(Len(a.h)) /\ ~IsPair(a.h, a.cell)
      /\ Text(a.h, g, a.cell) = <<Written(t)>>
      /\ Atom(t) \in Cells(Len(h)) /\ Atom(t).atom # NoToken /\ Atom(t).car = NULL
      /\ a.h = h \/ a.h = Append(h, Atom(t))
  BY <1>1, AtomIn
<1>3. Waiting(a.h, g, fr, sd, n, head, cur, text)
  <2>1. CASE a.h = h
    BY <2>1
  <2>2. CASE a.h = Append(h, Atom(t))
    <3>1. Waiting(Append(h, Atom(t)), g, fr, sd, n, head, cur, text)
      BY <1>2, AtomAddedToLists
    <3> QED BY <2>2, <3>1
  <2> QED BY <1>2, <2>1, <2>2
<1> DEFINE k == a.h
           v == a.cell
           t2 == text \o Text(k, g, v)
<1>4. h2 = [k EXCEPT ![cur].car = v] /\ v \in ValuesOf(Len(k)) /\ ~IsPair(k, v)
  BY <1>2
<1>5. Waiting(k, g, fr, sd, n, head, cur, text)
  BY <1>3
<1> HIDE DEF k, v
<1>6. /\ \E g2 : Known(h2, g2, fr, sd, n) /\ Rests(h2, g2, fr, n, head, cur, t2)
      /\ Len(h2) = Len(k) /\ t2 \in Texts /\ h2 \in Seq(Cells(Len(h2)))
  <2>1. t2 = text \o Text(k, g, v)
    OBVIOUS
  <2> HIDE DEF t2
  <2>2. ValueIsSet(k, h2, fr, sd, n, head, cur, t2)
    BY <1>4, <1>5, <2>1, ValueSet
  <2> QED BY <2>2 DEF ValueIsSet, ListsRight
<1>7. t2 = Append(text, Written(t))
  <2>1. t2 = text \o <<Written(t)>>
    BY <1>2 DEF k, v
  <2> QED BY <2>1, WrittenProperties, OneMoreWord
<1> QED BY <1>2, <1>6, <1>7 DEF ListsRight, k

-----------------------------------------------------------------------------
(***************************************************************************)
(* The cells, the calls and what they have read, in the reader: between    *)
(* the rounds of the innermost list, and when the form is there.           *)
(***************************************************************************)
Kept ==
  /\ heap \in Seq(Cells(Len(heap))) /\ form \in ValuesOf(Len(heap))
  /\ \A i \in 1..Len(frames) : FrameValues(frames[i], Len(heap))
  /\ said \in Seq(Texts) /\ Len(said) <= Len(frames) + 1

ListState ==
  /\ Len(said) = Len(frames) + 1 /\ said[1] = <<>>
  /\ ListsRight(heap, frames, said, Len(frames) - 1, Top.first, Top.last, Last(said))

FormState ==
  \E g : /\ HeapRight(heap, g, {}) /\ (IsPair(heap, form) => IsHead(g, form))
         /\ said # <<>> /\ Last(said) = Text(heap, g, form)

RInv ==
  /\ IInv /\ Types /\ stream.kind = "file" /\ coming \in 0..MaxText
  /\ rpc \in {"read_intern", "list", "form", "ended", "exited"}
  /\ Kept
  /\ rpc = "read_intern" => heap = <<>> /\ said = <<>> /\ form = NULL
  /\ rpc = "list" => ListState
  /\ rpc = "form" /\ form # NULL => FormState

LEMMA InList ==
  ASSUME RInv, rpc = "list"
  PROVE  /\ Len(frames) \in Nat /\ Len(frames) - 1 \in Nat /\ Len(frames) - 1 + 1 = Len(frames)
         /\ IsSequence(frames) /\ frames # <<>> /\ Top = frames[Len(frames)]
         /\ FrameValues(Top, Len(heap)) /\ Top \in Frames
         /\ said \in Seq(Texts) /\ IsSequence(said) /\ said # <<>> /\ Last(said) \in Texts
         /\ Len(said) = Len(frames) + 1 /\ Len(said) \in Nat
         /\ heap \in Seq(Cells(Len(heap))) /\ Len(heap) \in Nat
<1>1. /\ frames # <<>> /\ IsSequence(frames) /\ said \in Seq(Texts)
      /\ Len(said) = Len(frames) + 1
  BY DEF RInv, IInv, Nested, Kept, ListState
<1>2. /\ Len(frames) \in Nat /\ Len(frames) > 0 /\ Top = frames[Len(frames)]
  BY <1>1, LastProperties DEF Top
<1>3. IsSequence(said) /\ said # <<>> /\ Len(said) \in Nat
  <2>1. IsSequence(said) /\ Len(said) \in Nat
    BY <1>1, SequenceOf, LenOfSequence
  <2>2. Len(said) # 0
    BY <1>1, <1>2
  <2> QED BY <1>1, <2>1, <2>2, EmptySeq
<1>4. Last(said) \in Texts
  <2>1. Last(said) = said[Len(said)] /\ Len(said) \in 1..Len(said)
    BY <1>3, LastProperties
  <2> QED BY <1>1, <2>1
<1>5. FrameValues(Top, Len(heap))
  <2>1. Len(frames) \in 1..Len(frames)
    BY <1>2
  <2> QED BY <1>2, <2>1 DEF RInv, Kept
<1>6. heap \in Seq(Cells(Len(heap))) /\ Len(heap) \in Nat
  BY HeapProperties DEF RInv, Kept
<1>7. Top \in Frames
  BY TopProperties DEF RInv
<1> QED BY <1>1, <1>2, <1>3, <1>4, <1>5, <1>6, <1>7

LEMMA WithPairIs ==
  ASSUME NEW f \in Frames, NEW pair \in Int, NEW p, p = WithPair(f, pair)
  PROVE  /\ p \in Frames /\ p.current = pair /\ p.last = f.last /\ p.temp = f.temp
         /\ p.first = IF f.last = NULL THEN pair ELSE f.first
BY DEF WithPair, Frames

(* The pair of an element or of a list.                                    *)
LEMMA PairRead ==
  ASSUME RInv, rpc = "list", NEW f, f = WithPair(Reloaded(Top, Handled(hs, Top)), Len(heap) + 1)
  PROVE  /\ PairIsWaitedFor(heap, Linked(Append(heap, Pair), f), frames, said, Len(frames) - 1,
                            f.first, Last(said))
         /\ f \in Frames /\ f.current = Len(heap) + 1 /\ f.last = Top.last
         /\ FrameValues(f, Len(heap) + 1)
<1> DEFINE pair == Len(heap) + 1
<1>1. f = WithPair(Top, pair)
  BY LoadedBack DEF RInv
<1>2. Top \in Frames /\ Len(heap) \in Nat /\ FrameValues(Top, Len(heap))
  BY InList
<1>3. /\ f \in Frames /\ f.current = pair /\ f.last = Top.last /\ f.temp = Top.temp
      /\ f.first = IF Top.last = NULL THEN pair ELSE Top.first
  <2>1. pair \in Int
    BY <1>2
  <2> HIDE DEF pair
  <2> QED BY <1>1, <1>2, <2>1, WithPairIs
<1>4. FrameValues(f, pair)
  <2>1. FrameValues(Top, pair) /\ pair \in ValuesOf(pair)
    BY <1>2 DEF ValuesOf, FrameValues
  <2> HIDE DEF pair
  <2> QED BY <1>3, <2>1 DEF FrameValues
<1>5. Linked(Append(heap, Pair), f)
        = IF Top.last = NULL THEN Append(heap, Pair)
          ELSE [Append(heap, Pair) EXCEPT ![Top.last].cdr = pair]
  <2>1. Len(Append(heap, Pair)) = pair
    <3>1. IsSequence(heap)
      BY DEF RInv, IInv
    <3> QED BY <3>1, AppendedAt
  <2> HIDE DEF pair
  <2> QED BY <1>3, <2>1 DEF Linked
<1>6. PairIsWaitedFor(heap, Linked(Append(heap, Pair), f), frames, said, Len(frames) - 1,
                      f.first, Last(said))
  <2> DEFINE n == Len(frames) - 1
             head == Top.first
             last == Top.last
             text == Last(said)
  <2>1. PICK g : Known(heap, g, frames, said, n) /\ Rests(heap, g, frames, n, head, last, text)
    BY DEF RInv, ListState, ListsRight
  <2>2. n \in Nat /\ text \in Texts
    BY InList
  <2> HIDE DEF n, head, last, text
  <2>3. LET h2 == IF last = NULL THEN Append(heap, Pair)
                  ELSE [Append(heap, Pair) EXCEPT ![last].cdr = Len(heap) + 1]
            first2 == IF last = NULL THEN Len(heap) + 1 ELSE head
        IN  PairIsWaitedFor(heap, h2, frames, said, n, first2, text)
    BY <2>1, <2>2, PairAddedToList
  <2> QED BY <1>3, <1>5, <2>3 DEF n, head, last, text
<1> QED BY <1>3, <1>4, <1>6

(* A round ends: the innermost call has new locals, and has read more.     *)
LEMMA RoundEnds ==
  ASSUME RInv, rpc = "list", NEW f, NEW h, NEW text \in Texts,
         frames' = Append(Front(frames), f), heap' = h, said' = Append(Front(said), text),
         form' = form, h \in Seq(Cells(Len(h))), Len(h) \in Nat, Len(heap) <= Len(h),
         FrameValues(f, Len(h)),
         ListsRight(h, frames, said, Len(frames) - 1, f.first, f.last, text)
  PROVE  Kept' /\ ListState'
<1> DEFINE n == Len(frames) - 1
<1>1. /\ Len(frames) \in Nat /\ n \in Nat /\ n + 1 = Len(frames) /\ Len(said) = Len(frames) + 1
      /\ Len(said) = n + 2 /\ Len(heap) \in Nat
      /\ IsSequence(frames) /\ frames # <<>> /\ said \in Seq(Texts) /\ said # <<>>
      /\ IsSequence(said)
  BY InList
<1>2. /\ Len(frames') = Len(frames) /\ \A i \in 1..(Len(frames) - 1) : frames'[i] = frames[i]
      /\ frames'[Len(frames)] = f /\ Last(frames') = f
  BY <1>1, EndExchanged
<1>3. /\ Len(said') = Len(said) /\ \A i \in 1..(Len(said) - 1) : said'[i] = said[i]
      /\ Last(said') = text
  BY <1>1, EndExchanged
<1>4. said' \in Seq(Texts)
  BY <1>1, TextsEnd
<1>5. Top' = f /\ Len(frames') - 1 = n
  BY <1>2 DEF Top
<1> HIDE DEF n
<1>6. \A i \in 1..n : frames'[i] = frames[i] /\ said'[i + 1] = said[i + 1]
  <2>1. ASSUME NEW i \in 1..n
        PROVE  i \in 1..(Len(frames) - 1) /\ i + 1 \in 1..(Len(said) - 1)
    BY <1>1
  <2> QED BY <1>2, <1>3, <2>1
<1>7. ListsRight(heap', frames', said', n, f.first, f.last, text)
  <2>1. PICK g : Known(h, g, frames, said, n) /\ Rests(h, g, frames, n, f.first, f.last, text)
    BY DEF ListsRight, n
  <2>2. /\ Known(h, g, frames, said, n) => Known(h, g, frames', said', n)
        /\ \A a, b, t : Rests(h, g, frames, n, a, b, t) => Rests(h, g, frames', n, a, b, t)
    <3>1. SameBelow(frames, said, frames', said', n)
      BY <1>6 DEF SameBelow
    <3> QED BY <1>1, <3>1, SamePrefix
  <2> QED BY <2>1, <2>2 DEF ListsRight
<1>8. ListState'
  <2>1. said'[1] = <<>>
    <3>1. 1 \in 1..(Len(said) - 1)
      BY <1>1
    <3> QED BY <1>3, <3>1 DEF RInv, ListState
  <2> QED BY <1>1, <1>2, <1>3, <1>5, <1>7, <2>1 DEF ListState
<1>9. Kept'
  <2>1. form' \in ValuesOf(Len(h))
    BY <1>1, ValuesGrow DEF RInv, Kept
  <2>2. ASSUME NEW i \in 1..Len(frames)
        PROVE  FrameValues(frames'[i], Len(h))
    <3>1. CASE i = Len(frames)
      BY <1>2, <3>1
    <3>2. CASE i # Len(frames)
      <4>1. i \in 1..(Len(frames) - 1)
        BY <1>1, <3>2
      <4>2. FrameValues(frames[i], Len(heap))
        BY DEF RInv, Kept
      <4> QED BY <1>1, <1>2, <4>1, <4>2, ValuesGrow
    <3> QED BY <3>1, <3>2
  <2>3. Len(said') <= Len(frames') + 1
    BY <1>1, <1>2, <1>3
  <2> QED BY <1>2, <1>4, <2>1, <2>2, <2>3 DEF Kept
<1> QED BY <1>8, <1>9

(* What a list handles before a number or a string is allocated.           *)
LEMMA AllHandled ==
  ASSUME NEW H \in HandleStacks, H.st = "ok", NEW f \in Frames, NEW b \in Int, HandlesFrom(f, b),
         {f.hcurrent, f.hfirst, f.htemp, f.hlast} \subseteq 0..HandleFrameSize,
         NEW c \in Int, NEW H3, H3 \in {HandledAll(H, f), handle_set(HandledAll(H, f), f.htemp, c)}
  PROVE  handle_get(H3, f.hcurrent) = f.current /\ handle_get(H3, f.hfirst) = f.first
<1> DEFINE C == handle_set(H, f.hcurrent, f.current)
           D == handle_set(C, f.hfirst, f.first)
           L == handle_set(D, f.hlast, f.last)
<1>1. f.hcurrent = b + 1 /\ f.hfirst = b + 2 /\ f.htemp = b + 3 /\ f.hlast = b + 4
  BY DEF HandlesFrom
<1>2. /\ f.hcurrent \in 0..HandleFrameSize /\ f.hfirst \in 0..HandleFrameSize
      /\ f.htemp \in 0..HandleFrameSize /\ f.hlast \in 0..HandleFrameSize
      /\ f.hcurrent # f.hfirst /\ f.hcurrent # f.hlast /\ f.hcurrent # f.htemp
      /\ f.hfirst # f.hlast /\ f.hfirst # f.htemp /\ f.hlast # f.htemp
  BY <1>1
<1>3. f.current \in Int /\ f.first \in Int /\ f.last \in Int
  BY DEF Frames
<1>4. C \in HandleStacks /\ C.st = "ok" /\ handle_get(C, f.hcurrent) = f.current
  BY <1>2, <1>3, SetProperties, GetAfterSet
<1> HIDE DEF C
<1>5. D \in HandleStacks /\ D.st = "ok"
  BY <1>2, <1>3, <1>4, SetProperties
<1>6. handle_get(D, f.hcurrent) = f.current /\ handle_get(D, f.hfirst) = f.first
  <2>1. handle_get(D, f.hfirst) = f.first
    BY <1>2, <1>3, <1>4, GetAfterSet
  <2>2. \A o \in 0..HandleFrameSize \ {f.hfirst} : handle_get(D, o) = handle_get(C, o)
    BY <1>2, <1>3, <1>4, GetAfterSet
  <2> QED BY <1>2, <1>4, <2>1, <2>2
<1> HIDE DEF D
<1>7. /\ L \in HandleStacks /\ L.st = "ok"
      /\ handle_get(L, f.hcurrent) = f.current /\ handle_get(L, f.hfirst) = f.first
  <2>1. L \in HandleStacks /\ L.st = "ok"
    BY <1>2, <1>3, <1>5, SetProperties
  <2>2. \A o \in 0..HandleFrameSize \ {f.hlast} : handle_get(L, o) = handle_get(D, o)
    BY <1>2, <1>3, <1>5, GetAfterSet
  <2> QED BY <1>2, <1>6, <2>1, <2>2
<1>8. HandledAll(H, f) = L
  BY DEF HandledAll, C, D, L
<1> HIDE DEF L
<1>9. \A o \in 0..HandleFrameSize \ {f.htemp} :
        handle_get(handle_set(L, f.htemp, c), o) = handle_get(L, o)
  BY <1>2, <1>7, GetAfterSet
<1> QED BY <1>2, <1>7, <1>8, <1>9

LEMMA ElementReads ==
  ASSUME RInv, rpc = "list", IsAtom(tok), Element
  PROVE  Kept' /\ ListState' /\ rpc' = "list" /\ Calls_get_token /\ UNCHANGED <<stream, coming>>
<1> DEFINE pair == Len(heap) + 1
           H == Handled(hs, Top)
           f == WithPair(Reloaded(Top, H), pair)
           h == Linked(Append(heap, Pair), f)
           a == WithAtom(h, tok)
           h2 == [a.h EXCEPT ![pair].car = a.cell]
           H2 == HandledAll(H, f)
           H3 == IF tok.type = "TOKEN_STRING" THEN handle_set(H2, f.htemp, a.cell) ELSE H2
           done == [f EXCEPT !.temp = a.cell, !.last = pair]
           back == [Reloaded(f, H3) EXCEPT !.temp = a.cell, !.last = handle_get(H3, f.hcurrent)]
           n == Len(frames) - 1
           text == Last(said)
           b == Base + 4 * (Len(frames) - 1)
<1>1. Asks_in_list(done, h2, H) \/ Asks_in_list(back, h2, H3)
  BY DEF Element
<1>2. /\ PairIsWaitedFor(heap, h, frames, said, n, f.first, text)
      /\ f \in Frames /\ f.current = pair /\ FrameValues(f, pair)
  BY PairRead
<1>3. /\ H \in HandleStacks /\ H.st = "ok" /\ HandlesFrom(f, b)
      /\ {f.hcurrent, f.hfirst, f.htemp, f.hlast} \subseteq 0..HandleFrameSize
  BY PairProperties DEF RInv
<1>4. n \in Nat /\ text \in Texts /\ Len(heap) \in Nat /\ tok \in Tokens
  BY InList DEF RInv, Types
<1> HIDE DEF H, f, h, n, text, b
<1>5. /\ Len(h) = pair /\ h \in Seq(Cells(Len(h)))
      /\ \E g : Waiting(h, g, frames, said, n, f.first, pair, text)
  BY <1>2 DEF PairIsWaitedFor
<1> HIDE DEF pair, a
<1>6. /\ ListsRight(h2, frames, said, n, f.first, pair, Append(text, Written(tok)))
      /\ h2 \in Seq(Cells(Len(h2))) /\ Len(h2) \in Nat /\ Len(h) <= Len(h2)
      /\ a.cell \in ValuesOf(Len(h2)) /\ Append(text, Written(tok)) \in Texts
  BY <1>4, <1>5, ElementRead DEF a
<1> HIDE DEF h2
<1>7. pair \in Nat /\ pair <= Len(h2) /\ Len(heap) <= Len(h2)
  BY <1>4, <1>5, <1>6 DEF pair
<1>8. FrameValues(f, Len(h2)) /\ pair \in ValuesOf(Len(h2))
  <2>1. FrameValues(f, Len(h2))
    BY <1>2, <1>6, <1>7, ValuesGrow
  <2> QED BY <1>2, <2>1 DEF FrameValues
<1>9. a.cell \in Int
  BY <1>6, ValueProperties
<1>10. back.first = f.first /\ back.last = pair /\ FrameValues(back, Len(h2))
  <2>1. b \in Int
    BY BaseIsNat, <1>4 DEF b, n
  <2>2. H3 \in {HandledAll(H, f), handle_set(HandledAll(H, f), f.htemp, a.cell)}
    OBVIOUS
  <2> HIDE DEF H2, H3
  <2>3. handle_get(H3, f.hcurrent) = pair /\ handle_get(H3, f.hfirst) = f.first
    BY <1>2, <1>3, <1>9, <2>1, <2>2, AllHandled
  <2>4. /\ back.first = f.first /\ back.last = pair /\ back.temp = a.cell
         /\ back.current = f.current
    BY <1>2, <2>3 DEF Reloaded, Frames
  <2> HIDE DEF back
  <2> QED BY <1>6, <1>8, <2>4 DEF FrameValues
<1> HIDE DEF back, H3, H2
<1>11. done.first = f.first /\ done.last = pair /\ FrameValues(done, Len(h2))
  <2>1. done.first = f.first /\ done.last = pair /\ done.temp = a.cell /\ done.current = f.current
    BY <1>2 DEF Frames
  <2> HIDE DEF done
  <2> QED BY <1>6, <1>8, <2>1 DEF FrameValues
<1> HIDE DEF done
<1>12. ASSUME NEW e, NEW E, Asks_in_list(e, h2, E),
              e.first = f.first, e.last = pair, FrameValues(e, Len(h2))
       PROVE  Kept' /\ ListState' /\ rpc' = "list" /\ Calls_get_token /\ UNCHANGED <<stream, coming>>
  <2>1. /\ frames' = Append(Front(frames), e) /\ heap' = h2
        /\ said' = Append(Front(said), Append(text, Written(tok)))
        /\ form' = form /\ rpc' = rpc /\ Calls_get_token /\ UNCHANGED <<stream, coming>>
    BY <1>12 DEF Asks_in_list, Asks_for_token, text
  <2>2. Kept' /\ ListState'
    BY <1>6, <1>7, <1>12, <2>1, RoundEnds DEF n
  <2> QED BY <2>1, <2>2
<1> QED BY <1>1, <1>10, <1>11, <1>12

(* A list in a list: the list that is read waits, and the new one has      *)
(* nothing yet.                                                            *)
LEMMA ListBegins ==
  ASSUME RInv, rpc = "list", NEW H, NEW f,
         H = Handled(hs, Top), f = WithPair(Reloaded(Top, H), Len(heap) + 1),
         CallList(Append(Front(frames), f), H, Linked(Append(heap, Pair), f))
  PROVE  Kept' /\ (rpc' = "list" => ListState' /\ Calls_get_token /\ UNCHANGED <<stream, coming>>)
         /\ (rpc' # "list" => rpc' = "exited" /\ UNCHANGED <<tokenizerVars, coming>>)
<1> DEFINE n == Len(frames) - 1
           text == Last(said)
           h == Linked(Append(heap, Pair), f)
           callers == Append(Front(frames), f)
           new == NewFrame(H)
<1>1. /\ Len(frames) \in Nat /\ n \in Nat /\ n + 1 = Len(frames) /\ Len(said) = Len(frames) + 1
      /\ Len(said) = n + 2 /\ Len(heap) \in Nat
      /\ IsSequence(frames) /\ frames # <<>> /\ said \in Seq(Texts) /\ said # <<>>
      /\ IsSequence(said) /\ text \in Texts
  BY InList
<1>2. /\ PairIsWaitedFor(heap, h, frames, said, n, f.first, text)
      /\ f.current = Len(heap) + 1 /\ FrameValues(f, Len(heap) + 1)
  BY PairRead
<1>3. said[Len(said)] = text
  BY <1>1, LastProperties
<1>4. /\ Len(callers) = n + 1 /\ IsSequence(callers) /\ callers # <<>>
      /\ \A i \in 1..n : callers[i] = frames[i]
      /\ callers[n + 1] = f
  <2>1. /\ Len(callers) = Len(frames) /\ IsSequence(callers) /\ callers # <<>>
        /\ \A i \in 1..(Len(frames) - 1) : callers[i] = frames[i]
        /\ callers[Len(frames)] = f
    <3>1. IsSequence(frames) /\ frames # <<>>
      BY <1>1
    <3>2. EndIs(frames, callers, f)
      BY <3>1, EndsExchanged
    <3> QED BY <3>2 DEF EndIs
  <2> HIDE DEF callers
  <2> QED BY <1>1, <2>1
<1>5. callers # <<>>
  BY <1>4
<1>6. heap' = h /\ form' = form
  BY DEF CallList
<1> HIDE DEF n, h, callers, new, text
<1>7. /\ Len(h) = Len(heap) + 1 /\ h \in Seq(Cells(Len(h))) /\ Len(heap) <= Len(h)
      /\ \E g : Waiting(h, g, frames, said, n, f.first, f.current, text)
  BY <1>1, <1>2 DEF PairIsWaitedFor
<1>8. form' \in ValuesOf(Len(h))
  BY <1>1, <1>6, <1>7, ValuesGrow DEF RInv, Kept
<1>9. \A i \in 1..(n + 1) : FrameValues(callers[i], Len(h))
  <2>1. ASSUME NEW i \in 1..(n + 1)
        PROVE  FrameValues(callers[i], Len(h))
    <3>1. CASE i = n + 1
      BY <1>2, <1>4, <1>7, <3>1
    <3>2. CASE i # n + 1
      <4>1. i \in 1..n /\ i \in 1..Len(frames)
        BY <1>1, <3>2
      <4>2. FrameValues(frames[i], Len(heap))
        BY <4>1 DEF RInv, Kept
      <4>3. FrameValues(frames[i], Len(h))
        BY <1>1, <1>7, <4>2, ValuesGrow
      <4> QED BY <1>4, <4>1, <4>3
    <3> QED BY <3>1, <3>2
  <2> QED BY <2>1
<1>10. CASE hs'.st = "ok"
  <2>1. /\ rpc' = "list" /\ Calls_get_token /\ UNCHANGED <<stream, coming>>
        /\ frames' = Append(callers, new) /\ said' = Append(said, <<>>)
    BY <1>5, <1>10, Zenon DEF CallList, Asks_for_token, callers, new
  <2>2. /\ Len(frames') = n + 2 /\ Last(frames') = new
        /\ \A i \in 1..(n + 1) : frames'[i] = callers[i]
        /\ frames'[n + 2] = new
    <3>1. Len(callers) + 1 = n + 2
      BY <1>1, <1>4
    <3>2. /\ Len(frames') = Len(callers) + 1 /\ Last(frames') = new
          /\ \A i \in 1..Len(callers) : frames'[i] = callers[i]
          /\ frames'[Len(callers) + 1] = new
      BY <1>4, <2>1, AppendedAt
    <3> QED BY <1>4, <3>1, <3>2
  <2>3. /\ Len(said') = n + 3 /\ Last(said') = <<>> /\ said' \in Seq(Texts)
        /\ \A i \in 1..(n + 2) : said'[i] = said[i]
    <3>1. <<>> \in Texts
      BY PrintedProperties
    <3>2. said' \in Seq(Texts)
      BY <1>1, <2>1, <3>1, TextsEnd
    <3>3. /\ Len(said') = Len(said) + 1 /\ Last(said') = <<>>
          /\ \A i \in 1..Len(said) : said'[i] = said[i]
      BY <1>1, <2>1, AppendedAt
    <3> QED BY <1>1, <3>2, <3>3
  <2>4. /\ \A i \in 1..n : frames'[i] = frames[i] /\ said'[i + 1] = said[i + 1]
        /\ frames'[n + 1] = f /\ said'[n + 2] = text /\ said'[1] = said[1]
    <3>1. \A i \in 1..n : i \in 1..(n + 1) /\ i + 1 \in 1..(n + 2)
      BY <1>1
    <3>2. n + 1 \in 1..(n + 1) /\ n + 2 \in 1..(n + 2) /\ 1 \in 1..(n + 2)
      BY <1>1
    <3> QED BY <1>1, <1>3, <1>4, <2>2, <2>3, <3>1, <3>2
  <2>5. new.first = NULL /\ new.last = NULL /\ FrameValues(new, Len(h)) /\ Top' = new
    BY <1>1, <1>7, <2>2, NewFrameValues DEF new, Top
  <2>6. ListsRight(h, frames', said', n + 1, NULL, NULL, <<>>)
    <3>1. PICK g : Waiting(h, g, frames, said, n, f.first, f.current, text)
      BY <1>7
    <3>2. Known(h, g, frames', said', n + 1)
      <4>1. \A fr, sd :
              /\ SameBelow(frames, said, fr, sd, n)
              /\ fr[n + 1].first = f.first /\ fr[n + 1].current = f.current /\ sd[n + 2] = text
              => Known(h, g, fr, sd, n + 1)
        BY <1>1, <3>1, Nests
      <4> QED BY <2>4, <4>1 DEF SameBelow
    <3> QED BY <3>2 DEF ListsRight, Rests
  <2>7. ListState'
    <3>1. Len(frames') - 1 = n + 1 /\ Len(said') = Len(frames') + 1
      BY <1>1, <2>2, <2>3
    <3>2. said'[1] = <<>>
      BY <2>4 DEF RInv, ListState
    <3> QED BY <1>6, <2>3, <2>5, <2>6, <3>1, <3>2 DEF ListState
  <2>8. Kept'
    <3>1. ASSUME NEW i \in 1..(n + 2)
          PROVE  FrameValues(frames'[i], Len(h))
      <4>1. CASE i = n + 2
        BY <2>2, <2>5, <4>1
      <4>2. CASE i # n + 2
        <5>1. i \in 1..(n + 1)
          BY <1>1, <4>2
        <5> QED BY <1>9, <2>2, <5>1
      <4> QED BY <4>1, <4>2
    <3>2. Len(said') <= Len(frames') + 1
      BY <1>1, <2>2, <2>3
    <3> QED BY <1>6, <1>7, <1>8, <2>2, <2>3, <3>1, <3>2 DEF Kept
  <2> QED BY <2>1, <2>7, <2>8
<1>11. CASE hs'.st # "ok"
  <2>1. rpc' = "exited" /\ frames' = callers /\ UNCHANGED <<tokenizerVars, coming, said>>
    BY <1>11 DEF CallList, callers
  <2>2. Len(said') <= Len(frames') + 1
    BY <1>1, <1>4, <2>1
  <2>3. Kept'
    BY <1>1, <1>4, <1>6, <1>7, <1>8, <1>9, <2>1, <2>2 DEF Kept
  <2> QED BY <2>1, <2>3
<1> QED BY <1>10, <1>11

(* What a list returns: what it has read, and after an error NULL.         *)
LEMMA ReturnedValue ==
  ASSUME NEW h, NEW g, NEW U, HeapRight(h, g, U), NEW fr, NEW n, NEW head, NEW last, NEW text,
         Rests(h, g, fr, n, head, last, text),
         NEW v \in {NULL, IF last = NULL THEN nil ELSE head}
  PROVE  /\ v \in ValuesOf(Len(h))
         /\ Text(h, g, v) = IF v = NULL THEN <<CNULL>> ELSE Listed(text)
         /\ IsPair(h, v) => IsHead(g, v) /\ Above(fr, n, v)
<1>1. Len(h) \in Nat /\ NULL # UNINIT /\ nil # UNINIT /\ nil # NULL
      /\ ~IsPair(h, NULL) /\ ~IsPair(h, nil)
  <2>1. Len(h) \in Nat
    BY HeapProperties DEF HeapRight
  <2> QED BY <2>1, NoCells, ValueProperties DEF IsPair
<1>2. CASE v = NULL
  BY <1>1, <1>2 DEF Text, ValuesOf
<1>3. CASE v # NULL /\ last = NULL
  <2>1. v = nil /\ text = <<>>
    BY <1>3 DEF Rests
  <2> QED BY <1>1, <2>1 DEF Text, ValuesOf
<1>4. CASE v # NULL /\ last # NULL
  <2>1. v = head /\ ListOpen(h, g, head, last, text) /\ Above(fr, n, head)
    BY <1>4 DEF Rests
  <2>2. v \in 1..Len(h) /\ IsPair(h, v) /\ IsHead(g, v) /\ g[v].text = text
    BY <2>1 DEF ListOpen, IsPair
  <2>3. v # UNINIT /\ v # NULL /\ v # nil
    BY <1>1, <2>2, NoCells
  <2> QED BY <2>1, <2>2, <2>3 DEF Text, ValuesOf
<1> QED BY <1>2, <1>3, <1>4

LEMMA ListReturns ==
  ASSUME RInv, rpc = "list", NEW v \in {NULL, IF Top.last = NULL THEN nil ELSE Top.first},
         NEW H, ReturnList(v, H)
  PROVE  /\ Kept'
         /\ \/ /\ rpc' = "list" /\ ListState' /\ Calls_get_token /\ UNCHANGED <<stream, coming>>
            \/ /\ rpc' = "form" /\ (form' # NULL => FormState')
               /\ UNCHANGED <<tokenizerVars, coming>>
<1> DEFINE n == Len(frames) - 1
           text == Last(said)
           T == IF v = NULL THEN <<CNULL>> ELSE Listed(text)
           texts == Front(said)
           around == Last(texts)
           head == Top.first
           last == Top.last
<1>1. /\ Len(frames) \in Nat /\ n \in Nat /\ n + 1 = Len(frames) /\ Len(said) = n + 2
      /\ IsSequence(frames) /\ frames # <<>> /\ said \in Seq(Texts) /\ said # <<>>
      /\ IsSequence(said) /\ text \in Texts /\ Len(heap) \in Nat
      /\ heap \in Seq(Cells(Len(heap))) /\ FrameValues(Top, Len(heap))
  <2>1. Len(said) = n + 2
    <3>1. Len(said) = Len(frames) + 1 /\ Len(frames) \in Nat
      BY InList
    <3> QED BY <3>1
  <2> QED BY <2>1, InList
<1>2. PICK g : Known(heap, g, frames, said, n) /\ Rests(heap, g, frames, n, head, last, text)
  BY DEF RInv, ListState, ListsRight
<1>3. v \in {NULL, IF last = NULL THEN nil ELSE head}
  OBVIOUS
<1>4. said' = Append(Front(texts), around \o T)
  BY Zenon DEF ReturnList, Listed
<1>5. /\ IsSequence(texts) /\ Len(texts) = n + 1 /\ texts # <<>>
      /\ \A i \in 1..(n + 1) : texts[i] = said[i]
      /\ around = said[n + 1] /\ texts \in Seq(Texts) /\ around \in Texts
  <2>1. /\ IsSequence(texts) /\ Len(texts) = Len(said) - 1
        /\ \A i \in 1..(Len(said) - 1) : texts[i] = said[i]
    BY <1>1, LastProperties
  <2>2. texts \in Seq(Texts)
    BY <1>1, TextsEnd
  <2> HIDE DEF texts, n
  <2>3. Len(texts) = n + 1 /\ \A i \in 1..(n + 1) : texts[i] = said[i]
    BY <1>1, <2>1
  <2>4. texts # <<>>
    BY <1>1, <2>3
  <2>5. around = texts[n + 1] /\ around \in Texts
    BY <2>1, <2>2, <2>3, <2>4, LastProperties, TextsEnd
  <2> QED BY <1>1, <2>1, <2>2, <2>3, <2>4, <2>5
<1> HIDE DEF n, text, texts, around, head, last
<1>6. HeapRight(heap, g, Waits(frames, n))
  BY <1>2 DEF Known
<1>7. /\ v \in ValuesOf(Len(heap)) /\ Text(heap, g, v) = T
      /\ IsPair(heap, v) => IsHead(g, v) /\ Above(frames, n, v)
  BY <1>2, <1>3, <1>6, ReturnedValue
<1> HIDE DEF T
<1>8. T \in Texts
  <2>1. g \in [Nat -> Notes]
    BY <1>6 DEF HeapRight
  <2> QED BY <1>1, <1>7, <2>1, TextProperties
<1>9. around \o T \in Texts
  BY <1>5, <1>8, PrintedProperties
<1>10. /\ said' \in Seq(Texts) /\ Len(said') = n + 1 /\ said' # <<>>
       /\ Last(said') = around \o T /\ \A i \in 1..n : said'[i] = said[i]
  <2>1. said' \in Seq(Texts)
    BY <1>4, <1>5, <1>9, TextsEnd
  <2>2. /\ Len(said') = Len(texts) /\ said' # <<>> /\ Last(said') = around \o T
        /\ \A i \in 1..(Len(texts) - 1) : said'[i] = texts[i]
    <3> DEFINE word == around \o T
    <3>1. IsSequence(texts) /\ texts # <<>> /\ said' = Append(Front(texts), word)
      BY <1>4, <1>5
    <3> HIDE DEF word
    <3>2. EndIs(texts, said', word)
      BY <3>1, EndsExchanged
    <3>3. EndIs(texts, said', around \o T)
      BY <3>2 DEF word
    <3> QED BY <3>3, Zenon DEF EndIs
  <2>3. Len(texts) = n + 1 /\ Len(texts) - 1 = n /\ \A i \in 1..n : i \in 1..(n + 1)
    BY <1>1, <1>5
  <2>4. \A i \in 1..n : said'[i] = said[i]
    BY <1>5, <2>2, <2>3
  <2> QED BY <2>1, <2>2, <2>3, <2>4
<1>11. CASE n = 0 /\ Reads(v) /\ frames' = <<>> /\ UNCHANGED heap
  <2>1. /\ rpc' = "form" /\ form' = v /\ heap' = heap /\ frames' = <<>>
        /\ UNCHANGED <<tokenizerVars, coming>>
    BY <1>11 DEF Reads
  <2>2. Kept'
    <3>1. Len(frames') = 0 /\ 1..0 = {}
      BY <2>1
    <3>2. Len(said') <= Len(frames') + 1
      BY <1>10, <1>11, <3>1
    <3> QED BY <1>1, <1>7, <1>10, <2>1, <3>1, <3>2 DEF Kept
  <2>3. FormState'
    <3>1. Waits(frames, n) = {}
      BY <1>11 DEF Waits
    <3>2. Last(said') = T
      <4>1. around = <<>>
        BY <1>5, <1>11 DEF RInv, ListState
      <4> QED BY <1>8, <1>10, <4>1, NothingMore
    <3>3. HeapRight(heap, g, {}) /\ (IsPair(heap, v) => IsHead(g, v))
      BY <1>6, <1>7, <3>1
    <3> QED BY <1>7, <1>10, <2>1, <3>2, <3>3 DEF FormState
  <2> QED BY <2>1, <2>2, <2>3
<1>12. CASE /\ n > 0
            /\ heap' = [heap EXCEPT ![frames[n].current].car = v]
            /\ frames' = [Front(frames) EXCEPT ![n].last = frames[n].current]
            /\ Asks_for_token /\ UNCHANGED <<rpc, form>>
  <2> DEFINE f == frames[n]
             cur == f.current
             callers == Front(frames)
             new == [f EXCEPT !.last = cur]
  <2>1. /\ IsSequence(callers) /\ Len(callers) = n /\ \A i \in 1..n : callers[i] = frames[i]
    <3>1. /\ IsSequence(callers) /\ Len(callers) = Len(frames) - 1
          /\ \A i \in 1..(Len(frames) - 1) : callers[i] = frames[i]
      BY <1>1, LastProperties
    <3> QED BY <1>1, <3>1 DEF n
  <2>2. f \in Frames /\ FrameValues(f, Len(heap)) /\ n \in 1..n /\ n \in 1..Len(frames)
    <3>1. n \in 1..n /\ n \in 1..Len(frames)
      BY <1>1, <1>12
    <3>2. f \in Frames
      BY <3>1 DEF RInv, IInv, Nested, HandlesFrom
    <3> QED BY <3>1, <3>2 DEF RInv, Kept
  <2>3. /\ new.first = f.first /\ new.last = cur /\ FrameValues(new, Len(heap))
    <3>1. new.first = f.first /\ new.last = cur /\ new.current = cur /\ new.temp = f.temp
      BY <2>2 DEF Frames
    <3> HIDE DEF new
    <3> QED BY <2>2, <3>1 DEF FrameValues
  <2>4. frames' = [callers EXCEPT ![n] = new]
    BY <1>12, <2>1, <2>2
  <2> HIDE DEF new, callers
  <2>5. /\ IsSequence(frames') /\ Len(frames') = n /\ frames'[n] = new
        /\ \A i \in 1..(n - 1) : frames'[i] = frames[i]
    <3>1. IsSequence(frames') /\ Len(frames') = n
      BY <2>1, <2>4, Changed
    <3>2. DOMAIN callers = 1..n
      BY <2>1, LenOfSequence
    <3>3. \A i \in 1..n : frames'[i] = IF i = n THEN new ELSE callers[i]
      BY <2>4, <3>2
    <3>4. \A i \in 1..(n - 1) : i \in 1..n /\ i # n
      BY <1>1
    <3> QED BY <2>1, <2>2, <3>1, <3>3, <3>4
  <2>6. Top' = new
    BY <2>5 DEF Top, Last
  <2>7. n \in Nat \ {0}
    BY <1>1, <1>12
  <2>8. Waiting(heap, g, frames, said, n - 1, f.first, cur, around)
    BY <1>2, <1>5, <2>7, Unnests
  <2>9. ValueIsSet(heap, heap', frames, said, n - 1, f.first, cur, around \o T)
    <3>1. IsPair(heap, v) => v > cur /\ IsHead(g, v)
      <4>1. IsPair(heap, v) => v \in Nat /\ cur < v
        BY <1>1, <1>7, <2>2 DEF Above, IsPair
      <4>2. cur \in Int
        BY <2>2 DEF Frames
      <4> QED BY <1>7, <4>1, <4>2
    <3>2. n - 1 \in Nat
      BY <2>7
    <3>3. ValueIsSet(heap, [heap EXCEPT ![cur].car = v], frames, said, n - 1, f.first, cur,
                     around \o Text(heap, g, v))
      <4> HIDE DEF f, cur
      <4> QED BY <1>5, <1>7, <2>8, <3>1, <3>2, ValueSet
    <3> QED BY <1>7, <1>12, <3>3
  <2>10. /\ ListsRight(heap', frames, said, n - 1, f.first, cur, around \o T)
         /\ Len(heap') = Len(heap) /\ heap' \in Seq(Cells(Len(heap')))
    BY <2>9 DEF ValueIsSet
  <2>11. ListsRight(heap', frames', said', n - 1, f.first, cur, around \o T)
    <3> HIDE DEF f, cur
    <3>1. PICK g2 : /\ Known(heap', g2, frames, said, n - 1)
                    /\ Rests(heap', g2, frames, n - 1, f.first, cur, around \o T)
      BY <2>10 DEF ListsRight
    <3>2. SameBelow(frames, said, frames', said', n - 1)
      <4>1. \A i \in 1..(n - 1) : i + 1 \in 1..n
        BY <1>1
      <4> QED BY <1>10, <2>5, <4>1 DEF SameBelow
    <3>3. n - 1 \in Nat
      BY <2>7
    <3>4. /\ Known(heap', g2, frames, said, n - 1) => Known(heap', g2, frames', said', n - 1)
          /\ \A a, b, t : Rests(heap', g2, frames, n - 1, a, b, t)
                            => Rests(heap', g2, frames', n - 1, a, b, t)
      BY <3>2, <3>3, SamePrefix
    <3> QED BY <3>1, <3>4 DEF ListsRight
  <2>12. ListState'
    <3>1. said'[1] = <<>>
      <4>1. 1 \in 1..n
        BY <2>7
      <4> QED BY <1>10, <4>1 DEF RInv, ListState
    <3>2. Top'.first = f.first /\ Top'.last = cur
      BY <2>3, <2>6
    <3>3. Len(frames') - 1 = n - 1 /\ Len(said') = Len(frames') + 1
      BY <1>10, <2>5
    <3> QED BY <1>10, <2>11, <3>1, <3>2, <3>3 DEF ListState
  <2>13. Kept'
    <3>1. ASSUME NEW i \in 1..n
          PROVE  FrameValues(frames'[i], Len(heap))
      <4>1. CASE i = n
        BY <2>3, <2>5, <4>1
      <4>2. CASE i # n
        <5>1. i \in 1..(n - 1) /\ i \in 1..Len(frames)
          BY <1>1, <4>2
        <5> QED BY <2>5, <5>1 DEF RInv, Kept
      <4> QED BY <4>1, <4>2
    <3>2. Len(said') <= Len(frames') + 1
      BY <1>1, <1>10, <2>5
    <3>3. form' \in ValuesOf(Len(heap))
      BY <1>12 DEF RInv, Kept
    <3> QED BY <1>10, <2>5, <2>10, <3>1, <3>2, <3>3 DEF Kept
  <2> QED BY <1>12, <2>12, <2>13 DEF Asks_for_token
<1> QED BY <1>11, <1>12 DEF ReturnList, n

-----------------------------------------------------------------------------
(***************************************************************************)
(* The steps of the reader and of its drivers.                             *)
(***************************************************************************)
LEMMA CallTypesHere ==
  ASSUME RInv, Calls_get_token, stream' = stream
  PROVE  Types' /\ stream'.kind = "file"
<1>1. IsStream(stream') /\ stream'.kind = "file"
  BY DEF RInv, Types
<1> QED BY <1>1, CallTypes

LEMMA ExitsKeeps ==
  ASSUME RInv, IInv', Exits
  PROVE  RInv'
<1>1. Types'
  BY TypesStay DEF RInv, Exits
<1>2. Kept' /\ stream'.kind = "file" /\ coming' \in 0..MaxText /\ rpc' = "exited"
  BY DEF RInv, Exits, Kept, tokenizerVars
<1> QED BY <1>1, <1>2 DEF RInv

LEMMA read_list_intern_Reads ==
  ASSUME RInv, IInv', read_list_intern
  PROVE  RInv'
<1>1. rpc = "list"
  BY DEF read_list_intern
<1>2. CASE Exits
  BY <1>2, ExitsKeeps
<1>3. ASSUME NEW v \in {NULL, IF Top.last = NULL THEN nil ELSE Top.first}, NEW H,
             ReturnList(v, H)
      PROVE  RInv'
  <2>1. /\ Kept'
        /\ \/ rpc' = "list" /\ ListState' /\ Calls_get_token /\ UNCHANGED <<stream, coming>>
           \/ /\ rpc' = "form" /\ (form' # NULL => FormState')
              /\ UNCHANGED <<tokenizerVars, coming>>
    BY <1>1, <1>3, ListReturns
  <2>2. CASE rpc' = "list" /\ ListState' /\ Calls_get_token /\ UNCHANGED <<stream, coming>>
    BY <2>1, <2>2, CallTypesHere DEF RInv
  <2>3. CASE /\ rpc' = "form" /\ (form' # NULL => FormState')
             /\ UNCHANGED <<tokenizerVars, coming>>
    BY <2>1, <2>3, TypesStay DEF RInv, tokenizerVars
  <2> QED BY <2>1, <2>2, <2>3
<1>4. CASE ListError
  BY <1>3, <1>4 DEF ListError
<1>5. CASE ReturnList(IF Top.last = NULL THEN nil ELSE Top.first, LOCAL_POP_HANDLES(Top))
  BY <1>3, <1>5
<1>6. CASE LET H == Handled(hs, Top)
               f == WithPair(Reloaded(Top, H), Len(heap) + 1)
           IN  CallList(Append(Front(frames), f), H, Linked(Append(heap, Pair), f))
  <2>1. /\ Kept'
        /\ rpc' = "list" => ListState' /\ Calls_get_token /\ UNCHANGED <<stream, coming>>
        /\ rpc' # "list" => rpc' = "exited" /\ UNCHANGED <<tokenizerVars, coming>>
    BY <1>1, <1>6, ListBegins
  <2>2. CASE rpc' = "list"
    BY <2>1, <2>2, CallTypesHere DEF RInv
  <2>3. CASE rpc' # "list"
    BY <2>1, <2>3, TypesStay DEF RInv, tokenizerVars
  <2> QED BY <2>2, <2>3
<1>7. CASE IsAtom(tok) /\ Element
  <2>1. Kept' /\ ListState' /\ rpc' = "list" /\ Calls_get_token /\ UNCHANGED <<stream, coming>>
    BY <1>1, <1>7, ElementReads
  <2> QED BY <2>1, CallTypesHere DEF RInv
<1> QED BY <1>2, <1>4, <1>5, <1>6, <1>7, Zenon DEF read_list_intern

(* Before the first cell there is nothing to note.                         *)
LEMMA NothingNoted ==
  /\ \E g : HeapRight(<<>>, g, {})
  /\ <<>> \in Seq(Cells(Len(<<>>))) /\ Len(<<>>) = 0
<1> DEFINE g == [c \in Nat |-> [list |-> 0, before |-> <<>>, text |-> <<>>]]
<1>1. g \in [Nat -> Notes]
  <2>1. <<>> \in Texts
    BY PrintedProperties
  <2>2. [list |-> 0, before |-> <<>>, text |-> <<>>] \in Notes
    BY <2>1 DEF Notes
  <2> QED BY <2>2
<1>2. <<>> \in Seq(Cells(Len(<<>>))) /\ Len(<<>>) = 0 /\ 1..0 = {}
  OBVIOUS
<1> HIDE DEF g
<1>3. HeapRight(<<>>, g, {})
  BY <1>1, <1>2 DEF HeapRight
<1> QED BY <1>2, <1>3

LEMMA read_intern_Reads ==
  ASSUME RInv, IInv', read_intern
  PROVE  RInv'
<1>1. /\ heap = <<>> /\ said = <<>> /\ form = NULL /\ rpc = "read_intern" /\ frames = <<>>
      /\ tok \in Tokens
  BY DEF read_intern, RInv, IInv, Types
<1>2. /\ heap \in Seq(Cells(Len(heap))) /\ Len(heap) = 0 /\ Len(frames) = 0 /\ Len(said) = 0
      /\ \E g : HeapRight(heap, g, {})
  BY <1>1, NothingNoted
<1>3. CASE Exits
  BY <1>3, ExitsKeeps
<1>4. CASE Reads(NULL) /\ UNCHANGED <<frames, heap, hs, said>>
  <2>1. rpc' = "form" /\ form' = NULL /\ UNCHANGED <<tokenizerVars, coming>>
    BY <1>4 DEF Reads
  <2>2. Kept'
    BY <1>1, <1>4, <2>1 DEF RInv, Kept
  <2> QED BY <2>1, <2>2, TypesStay DEF RInv, tokenizerVars
<1>5. CASE CallList(<<>>, hs, heap)
  <2>1. heap' = heap /\ form' = form
    BY <1>5 DEF CallList
  <2>2. CASE hs'.st = "ok"
    <3> DEFINE new == NewFrame(hs)
    <3>1. /\ rpc' = "list" /\ Calls_get_token /\ UNCHANGED <<stream, coming>>
          /\ frames' = Append(<<>>, new) /\ said' = Append(<<<<>>>>, <<>>)
      BY <1>5, <2>2 DEF CallList, Asks_for_token
    <3> HIDE DEF new
    <3>2. Len(frames') = 1 /\ frames'[1] = new /\ Last(frames') = new
      BY <3>1 DEF Last
    <3>3. /\ Len(said') = 2 /\ said'[1] = <<>> /\ Last(said') = <<>> /\ said' \in Seq(Texts)
      <4> DEFINE e == <<>>
      <4>1. e \in Texts
        BY PrintedProperties
      <4>2. said' = Append(<<e>>, e)
        BY <3>1
      <4> HIDE DEF e
      <4>3. /\ said' \in Seq(Texts) /\ Len(said') = 2 /\ said'[1] = e /\ said'[2] = e
        BY <4>1, <4>2
      <4> QED BY <4>3 DEF Last, e
    <3>4. new.first = NULL /\ new.last = NULL /\ FrameValues(new, Len(heap))
      BY <1>2, NewFrameValues DEF new
    <3>5. ListState'
      <4>1. PICK g : HeapRight(heap, g, {})
        BY <1>2
      <4>2. 1..0 = {}
        OBVIOUS
      <4>3. Known(heap, g, frames', said', 0)
        BY <4>1, <4>2, HeapRightFewer DEF Known, Outer, InOrder
      <4>4. ListsRight(heap, frames', said', 0, NULL, NULL, <<>>)
        BY <4>3 DEF ListsRight, Rests
      <4>5. Len(frames') - 1 = 0 /\ Len(said') = Len(frames') + 1
        BY <3>2, <3>3
      <4> QED BY <2>1, <3>2, <3>3, <3>4, <4>4, <4>5 DEF ListState, Top
    <3>6. Kept'
      <4>1. ASSUME NEW i \in 1..1
            PROVE  FrameValues(frames'[i], Len(heap))
        <5>1. i = 1
          OBVIOUS
        <5> QED BY <3>2, <3>4, <5>1
      <4>2. Len(said') <= Len(frames') + 1
        BY <3>2, <3>3
      <4> QED BY <1>2, <2>1, <3>2, <3>3, <4>1, <4>2 DEF RInv, Kept
    <3> QED BY <3>1, <3>5, <3>6, CallTypesHere DEF RInv
  <2>3. CASE hs'.st # "ok"
    <3>1. rpc' = "exited" /\ frames' = <<>> /\ UNCHANGED <<tokenizerVars, coming, said>>
      BY <1>5, <2>3 DEF CallList
    <3>2. Kept'
      BY <1>1, <2>1, <3>1 DEF RInv, Kept
    <3> QED BY <3>1, <3>2, TypesStay DEF RInv, tokenizerVars
  <2> QED BY <2>2, <2>3
<1>6. CASE /\ IsAtom(tok)
           /\ LET a == WithAtom(heap, tok) IN heap' = a.h /\ Reads(a.cell)
           /\ said' = <<<<Written(tok)>>>> /\ UNCHANGED frames
  <2> DEFINE a == WithAtom(heap, tok)
  <2>1. /\ rpc' = "form" /\ form' = a.cell /\ heap' = a.h
        /\ UNCHANGED <<tokenizerVars, coming>>
    BY <1>6 DEF Reads
  <2>2. /\ a.h \in Seq(Cells(Len(a.h))) /\ a.cell \in ValuesOf(Len(a.h)) /\ ~IsPair(a.h, a.cell)
        /\ \A g : Text(a.h, g, a.cell) = <<Written(tok)>>
        /\ Atom(tok) \in Cells(Len(heap)) /\ Atom(tok).atom # NoToken /\ Atom(tok).car = NULL
        /\ a.h = heap \/ a.h = Append(heap, Atom(tok))
    BY <1>1, <1>2, <1>6, AtomIn
  <2> HIDE DEF a
  <2>3. PICK g : HeapRight(heap, g, {})
    BY <1>2
  <2>4. HeapRight(a.h, g, {})
    <3>1. HeapRight(Append(heap, Atom(tok)), g, {})
      BY <2>2, <2>3, AtomAdded
    <3> QED BY <2>2, <2>3, <3>1
  <2>5. /\ said' \in Seq(Texts) /\ said' # <<>> /\ Len(said') = 1
        /\ Last(said') = <<Written(tok)>>
    <3> DEFINE w == <<Written(tok)>>
    <3>1. w \in Texts
      BY <1>1, WrittenProperties
    <3> HIDE DEF w
    <3>2. said' = <<w>>
      BY <1>6 DEF w
    <3>3. said' \in Seq(Texts) /\ Len(said') = 1 /\ said'[1] = w /\ said' # <<>>
      BY <3>1, <3>2
    <3> QED BY <3>3 DEF Last, w
  <2>6. FormState'
    BY <2>1, <2>2, <2>4, <2>5 DEF FormState
  <2>7. Kept'
    <3>1. frames' = frames /\ Len(frames) = 0 /\ 1..0 = {}
      BY <1>2, <1>6
    <3>2. Len(said') <= Len(frames') + 1
      BY <2>5, <3>1
    <3> QED BY <2>1, <2>2, <2>5, <3>1, <3>2 DEF Kept
  <2> QED BY <2>1, <2>6, <2>7, TypesStay DEF RInv, tokenizerVars
<1> QED BY <1>3, <1>4, <1>5, <1>6, Zenon DEF read_intern

(* A new form begins with nothing.                                         *)
LEMMA BeginsAgain ==
  ASSUME RInv, IInv', Reads_next, frames' = <<>>, Types', stream'.kind = "file",
         coming' \in 0..MaxText
  PROVE  RInv'
<1>1. <<>> \in Seq(Cells(Len(<<>>))) /\ Len(<<>>) = 0 /\ 1..0 = {} /\ <<>> \in Seq(Texts)
  BY NothingNoted
<1>2. Kept'
  BY <1>1 DEF Kept, Reads_next, ValuesOf
<1> QED BY <1>2 DEF RInv, Reads_next

LEMMA load_lib_scm_Reads ==
  ASSUME RInv, IInv', load_lib_scm
  PROVE  RInv'
<1>1. rpc = "form" /\ frames = <<>>
  BY DEF load_lib_scm, RInv, IInv
<1>2. CASE Exits
  BY <1>2, ExitsKeeps
<1>3. CASE Reads_next /\ Asks_for_token /\ UNCHANGED frames
  <2>1. Types' /\ stream'.kind = "file" /\ coming' \in 0..MaxText
    BY <1>3, CallTypesHere DEF Asks_for_token, RInv
  <2> QED BY <1>1, <1>3, <2>1, BeginsAgain
<1>4. CASE /\ stream' = make_filestream(<<>>) /\ coming' = MaxText
           /\ Reads_next /\ Calls_get_token /\ UNCHANGED frames
  <2>1. IsStream(stream') /\ stream'.kind = "file"
    <3>1. <<>> \in Seq(Input)
      OBVIOUS
    <3> QED BY <1>4, <3>1, FileProperties
  <2>2. Types' /\ coming' \in 0..MaxText
    BY <1>4, <2>1, CallTypes, ReaderAssumption
  <2> QED BY <1>1, <1>4, <2>1, <2>2, BeginsAgain
<1> QED BY <1>2, <1>3, <1>4 DEF load_lib_scm

LEMMA run_in_thread_Reads ==
  ASSUME RInv, IInv', run_in_thread
  PROVE  RInv'
<1>1. rpc = "form" /\ frames = <<>>
  BY DEF run_in_thread, RInv, IInv
<1>2. CASE Reads_next /\ Asks_for_token /\ UNCHANGED frames
  <2>1. Types' /\ stream'.kind = "file" /\ coming' \in 0..MaxText
    BY <1>2, CallTypesHere DEF Asks_for_token, RInv
  <2> QED BY <1>1, <1>2, <2>1, BeginsAgain
<1>3. CASE /\ rpc' = "ended"
           /\ UNCHANGED <<tokenizerVars, coming, driver, frames, heap, form, said>>
  <2>1. Kept'
    BY <1>3 DEF RInv, Kept
  <2> QED BY <1>3, <2>1, TypesStay DEF RInv, tokenizerVars
<1> QED BY <1>2, <1>3 DEF run_in_thread

LEMMA OnlyTokens ==
  ASSUME RInv, IInv', Types', stream'.kind = "file", coming' \in 0..MaxText,
         UNCHANGED <<rpc, driver, frames, heap, hs, form, said>>
  PROVE  RInv'
BY DEF RInv, Kept, ListState, FormState, Top

LEMMA InitRInv == Init => RInv
<1> SUFFICES ASSUME Init PROVE RInv
  OBVIOUS
<1>1. <<>> \in Seq(Cells(Len(<<>>))) /\ Len(<<>>) = 0 /\ 1..0 = {} /\ <<>> \in Seq(Texts)
  BY NothingNoted
<1>2. IsStream(stream) /\ stream.kind = "file"
  <2>1. <<>> \in Seq(Input)
    OBVIOUS
  <2> QED BY <2>1, FileProperties DEF Init
<1>3. Types
  <2>1. <<>> \in Seq(Stored) /\ ToSet(<<>>) = {}
    BY DEF ToSet
  <2> QED BY <1>2, <2>1, NoTokenIsToken DEF Init, Types, NumberRight
<1>4. Kept
  BY <1>1 DEF Init, Kept, ValuesOf
<1> QED BY <1>2, <1>3, <1>4, InitIInv, ReaderAssumption DEF Init, RInv

LEMMA StepRInv == RInv /\ [Next]_vars => RInv'
<1> SUFFICES ASSUME RInv, [Next]_vars PROVE RInv'
  OBVIOUS
<1>0. IInv'
  BY StepIInv DEF RInv
<1>1. CASE Comes
  <2>1. Types' /\ stream'.kind = "file"
    BY <1>1, CharacterComes DEF RInv
  <2>2. coming' \in 0..MaxText
    BY <1>1, ReaderAssumption DEF Comes, RInv
  <2> QED BY <1>0, <1>1, <2>1, <2>2, OnlyTokens DEF Comes
<1>2. CASE get_token_step
  <2>1. Types' /\ stream'.kind = "file"
    BY <1>2, TokenizeTypes, FileStays DEF get_token_step, RInv, Types
  <2> QED BY <1>0, <1>2, <2>1, OnlyTokens DEF get_token_step, readerVars, RInv
<1>3. CASE UNCHANGED vars
  <2>1. Types' /\ stream'.kind = "file"
    BY <1>3, TypesStay DEF vars, tokenizerVars, RInv
  <2> QED BY <1>0, <1>3, <2>1, OnlyTokens DEF vars, readerVars, RInv
<1> QED
  BY <1>0, <1>1, <1>2, <1>3, read_intern_Reads, read_list_intern_Reads, load_lib_scm_Reads,
     run_in_thread_Reads DEF Next

(* For every alphabet and every text: the cells, the locals of the calls   *)
(* and the tokens are what the code takes them for; a cdr is always set,   *)
(* and a car that malloc left is that of a pair whose element is still     *)
(* being read, so that pp, which prints whole forms, finds none.           *)
THEOREM TypeCorrect == Spec => []TypeOK
<1>1. RInv => TypeOK
  <2> SUFFICES ASSUME RInv PROVE TypeOK
    OBVIOUS
  <2>1. TokenizerTypeOK
    BY TypesAreTypes DEF RInv
  <2>2. Values = ValuesOf(Len(heap))
    BY DEF Values, ValuesOf
  <2>3. \A i \in 1..Len(heap) : heap[i].car \in Values \cup {UNINIT} /\ heap[i].cdr \in Values
    BY <2>2, HeapProperties DEF RInv, Kept
  <2>4. \A i \in 1..Len(frames) : \A v \in {"current", "first", "temp", "last"} :
          frames[i][v] \in Values
    BY <2>2 DEF RInv, Kept, FrameValues
  <2>5. Len(said) \in 0..Len(frames) + 1
    <3>1. Len(said) \in Nat /\ Len(frames) \in Nat
      BY SequenceOf, LenOfSequence DEF RInv, Kept, IInv, Nested
    <3> QED BY <3>1 DEF RInv, Kept
  <2>6. (rpc = "list") = (frames # <<>>) \/ rpc = "exited"
    BY DEF RInv, IInv
  <2>7. ASSUME rpc = "list" \/ (rpc = "form" /\ form # NULL),
               NEW c \in 1..Len(heap), PAIRP(heap, c), heap[c].car = UNINIT
        PROVE  \E i \in 1..(Len(frames) - 1) : frames[i].current = c
    <3>1. IsPair(heap, c)
      BY <2>7 DEF IsPair, PAIRP
    <3>2. CASE rpc = "list"
      <4>1. PICK g : HeapRight(heap, g, Waits(frames, Len(frames) - 1))
        BY <3>2 DEF RInv, ListState, ListsRight, Known
      <4>2. c \in Waits(frames, Len(frames) - 1)
        BY <2>7, <3>1, <4>1 DEF HeapRight
      <4> QED BY <4>2 DEF Waits
    <3>3. CASE rpc = "form" /\ form # NULL
      <4>1. PICK g : HeapRight(heap, g, {})
        BY <3>3 DEF RInv, FormState
      <4> QED BY <2>7, <3>1, <4>1 DEF HeapRight
    <3> QED BY <2>7, <3>2, <3>3
  <2> QED BY <2>1, <2>2, <2>3, <2>4, <2>5, <2>6, <2>7 DEF RInv, IInv, Kept, TypeOK
<1> QED BY <1>1, InitRInv, StepRInv, PTL DEF Spec

(* For every text: pp prints of a form, token by token, what was read of   *)
(* it.  (That there is such a recursive function at all, and only one, is  *)
(* in PrinterExists and PrintersAgree: no pair is its own descendant.)     *)
THEOREM FormsAreTheirText == Spec => []FormIsItsText
<1>1. RInv => FormIsItsText
  <2> SUFFICES ASSUME RInv, rpc = "form", form # NULL
               PROVE  pp(heap, form) = Last(said)
    BY DEF FormIsItsText
  <2>1. PICK g : /\ HeapRight(heap, g, {}) /\ (IsPair(heap, form) => IsHead(g, form))
                 /\ Last(said) = Text(heap, g, form)
    BY DEF RInv, FormState
  <2>2. form \in ValuesOf(Len(heap))
    BY DEF RInv, Kept
  <2>3. pp(heap, form) = Text(heap, g, form)
    BY <2>1, <2>2, ppIsText
  <2> QED BY <2>1, <2>3
<1> QED BY <1>1, InitRInv, StepRInv, PTL DEF Spec

-----------------------------------------------------------------------------
(***************************************************************************)
(* What is reachable from the handles: at least what they hold.            *)
(***************************************************************************)
Roots(H, h) == {H.slot[i] : i \in 1..H.top} \cap DOMAIN h

ReachAt(H, h, f, n) ==
  IF n = 0 THEN Roots(H, h)
  ELSE (f[n - 1] \cup {h[i].car : i \in f[n - 1]} \cup {h[i].cdr : i \in f[n - 1]}) \cap DOMAIN h

Reaches(H, h, f, k) == f = [n \in 0..k |-> ReachAt(H, h, f, n)]

LEMMA ReachesLonger ==
  ASSUME NEW H, NEW h, NEW k \in Nat, NEW f, Reaches(H, h, f, k)
  PROVE  \E f2 : Reaches(H, h, f2, k + 1)
<1> DEFINE f2 == [n \in 0..(k + 1) |-> IF n <= k THEN f[n] ELSE ReachAt(H, h, f, n)]
<1>1. \A n \in 0..k : f[n] = ReachAt(H, h, f, n)
  BY DEF Reaches
<1>2. \A n \in 0..(k + 1) : f2[n] = IF n <= k THEN f[n] ELSE ReachAt(H, h, f, n)
  OBVIOUS
<1> HIDE DEF f2
<1>3. ASSUME NEW n \in 0..(k + 1)
      PROVE  f2[n] = ReachAt(H, h, f2, n)
  <2>1. n # 0 => f2[n - 1] = f[n - 1]
    <3>1. n # 0 => n - 1 \in 0..(k + 1) /\ n - 1 <= k
      OBVIOUS
    <3> QED BY <1>2, <3>1
  <2>2. ReachAt(H, h, f2, n) = ReachAt(H, h, f, n)
    BY <2>1 DEF ReachAt
  <2>3. n <= k => n \in 0..k
    OBVIOUS
  <2> QED BY <1>1, <1>2, <2>2, <2>3
<1>4. f2 = [n \in 0..(k + 1) |-> ReachAt(H, h, f2, n)]
  <2>1. f2 = [n \in 0..(k + 1) |-> f2[n]]
    BY DEF f2
  <2> QED BY <1>3, <2>1
<1> QED BY <1>4 DEF Reaches

LEMMA ReachesExists ==
  ASSUME NEW H, NEW h, NEW k \in Nat
  PROVE  \E f : Reaches(H, h, f, k)
<1> DEFINE I == {n \in Nat : ~\E f : Reaches(H, h, f, n)}
<1>1. SUFFICES ASSUME I # {} PROVE FALSE
  OBVIOUS
<1>2. PICK n \in I : \A m \in I : n <= m
  BY <1>1, LeastElement
<1>3. CASE n = 0
  <2> DEFINE f == [m \in 0..0 |-> Roots(H, h)]
  <2>1. \A m \in 0..0 : m = 0
    OBVIOUS
  <2>2. f = [m \in 0..0 |-> ReachAt(H, h, f, m)]
    BY <2>1 DEF ReachAt
  <2> HIDE DEF f
  <2>3. Reaches(H, h, f, 0)
    BY <2>2 DEF Reaches
  <2> QED BY <1>2, <1>3, <2>3
<1>4. CASE n # 0
  <2>1. n - 1 \in Nat /\ n - 1 \notin I /\ n - 1 + 1 = n
    BY <1>2, <1>4
  <2>2. PICK f : Reaches(H, h, f, n - 1)
    BY <2>1
  <2>3. \E f2 : Reaches(H, h, f2, n - 1 + 1)
    BY <2>1, <2>2, ReachesLonger
  <2> QED BY <1>2, <2>1, <2>3
<1> QED BY <1>3, <1>4

LEMMA RootsReached ==
  ASSUME NEW H, NEW h, Len(h) \in Nat
  PROVE  Roots(H, h) \subseteq Reachable(H, h)
<1> DEFINE k == Len(h)
           r == CHOOSE f : f = [n \in 0..k |-> ReachAt(H, h, f, n)]
<1>1. Reachable(H, h) = r[k]
  BY DEF Reachable, ReachAt, Roots
<1>2. r = [n \in 0..k |-> ReachAt(H, h, r, n)]
  BY ReachesExists DEF Reaches
<1> HIDE DEF r
<1>3. \A n \in 0..k : r[n] = ReachAt(H, h, r, n)
  BY <1>2
<1>4. k \in Nat /\ Roots(H, h) \subseteq DOMAIN h
  BY DEF Roots
<1> HIDE DEF k
<1> DEFINE I == {n \in 0..k : ~(Roots(H, h) \subseteq r[n])}
<1>5. I = {}
  <2>1. SUFFICES ASSUME I # {} PROVE FALSE
    OBVIOUS
  <2>2. PICK n \in I : \A m \in I : n <= m
    <3>1. I \in SUBSET Nat
      BY <1>4
    <3> HIDE DEF I
    <3> QED BY <2>1, <3>1, LeastElement
  <2>3. CASE n = 0
    BY <1>3, <1>4, <2>2, <2>3 DEF ReachAt
  <2>4. CASE n # 0
    <3>1. n - 1 \in 0..k /\ n - 1 \notin I /\ n \in 0..k
      BY <1>4, <2>2, <2>4
    <3>2. Roots(H, h) \subseteq r[n - 1]
      BY <3>1
    <3>3. r[n] = (r[n - 1] \cup {h[i].car : i \in r[n - 1]} \cup {h[i].cdr : i \in r[n - 1]})
                   \cap DOMAIN h
      BY <1>3, <2>4, <3>1 DEF ReachAt
    <3>4. Roots(H, h) \subseteq r[n]
      BY <1>4, <3>2, <3>3
    <3> QED BY <2>2, <3>4
  <2> QED BY <2>3, <2>4
<1>6. Roots(H, h) \subseteq r[k]
  <2>1. k \in 0..k
    BY <1>4
  <2> QED BY <1>5, <2>1
<1> QED BY <1>1, <1>6 DEF k

-----------------------------------------------------------------------------
(***************************************************************************)
(* The list that is read is handled when a number or a string is allocated.*)
(***************************************************************************)
LEMMA ElementHandled ==
  ASSUME RInv, rpc = "list", IsAtom(tok), tok.type # "TOKEN_SYMBOL", Element
  PROVE  {Last(frames').first, Last(frames').last} \subseteq Reachable(hs', heap')
<1> DEFINE pair == Len(heap) + 1
           H == Handled(hs, Top)
           f == WithPair(Reloaded(Top, H), pair)
           h == Linked(Append(heap, Pair), f)
           a == WithAtom(h, tok)
           h2 == [a.h EXCEPT ![pair].car = a.cell]
           H2 == HandledAll(H, f)
           H3 == IF tok.type = "TOKEN_STRING" THEN handle_set(H2, f.htemp, a.cell) ELSE H2
           back == [Reloaded(f, H3) EXCEPT !.temp = a.cell, !.last = handle_get(H3, f.hcurrent)]
           n == Len(frames) - 1
           text == Last(said)
           b == Base + 4 * (Len(frames) - 1)
<1>1. Asks_in_list(back, h2, H3)
  BY DEF Element
<1>2. frames' = Append(Front(frames), back) /\ heap' = h2 /\ hs' = H3
  BY <1>1 DEF Asks_in_list
<1> DEFINE new == back
<1>3. Last(frames') = new
  <2>1. IsSequence(frames) /\ frames # <<>>
    BY InList
  <2> HIDE DEF new
  <2>2. EndIs(frames, Append(Front(frames), new), new)
    BY <2>1, EndsExchanged
  <2>3. frames' = Append(Front(frames), new)
    BY <1>2 DEF new
  <2> QED BY <2>2, <2>3 DEF EndIs
<1>4. /\ PairIsWaitedFor(heap, h, frames, said, n, f.first, text)
      /\ f \in Frames /\ f.current = pair
  BY PairRead
<1>5. /\ H \in HandleStacks /\ H.st = "ok" /\ H.top = hs.top /\ HandlesFrom(f, b)
      /\ {f.hcurrent, f.hfirst, f.htemp, f.hlast} \subseteq 0..HandleFrameSize
  BY PairProperties DEF RInv
<1>6. /\ n \in Nat /\ text \in Texts /\ Len(heap) \in Nat /\ tok \in Tokens
      /\ b \in Int /\ b >= 0 /\ hs.top = b + 4
  <2>1. hs.top = Base + 4 * Len(frames) /\ Base \in Nat /\ Len(frames) \in Nat /\ Len(frames) > 0
    BY TopProperties DEF RInv
  <2>2. b \in Int /\ b >= 0 /\ hs.top = b + 4
    BY <2>1
  <2> QED BY <2>2, InList DEF RInv, Types
<1> HIDE DEF H, f, h, n, text, b
<1>7. /\ Len(h) = pair /\ h \in Seq(Cells(Len(h)))
      /\ \E g : Waiting(h, g, frames, said, n, f.first, pair, text)
  BY <1>4 DEF PairIsWaitedFor
<1>8. f.first \in 1..pair
  <2>1. PICK g : Waiting(h, g, frames, said, n, f.first, pair, text)
    BY <1>7
  <2>2. f.first \in 1..Len(h)
    BY <2>1, FirstOfOpen DEF Waiting
  <2> QED BY <1>7, <2>2
<1> HIDE DEF pair, a
<1>9. /\ h2 \in Seq(Cells(Len(h2))) /\ Len(h2) \in Nat /\ Len(h) <= Len(h2)
      /\ a.cell \in ValuesOf(Len(h2))
  BY <1>6, <1>7, ElementRead DEF a
<1> HIDE DEF h2
<1>10. pair \in Nat /\ pair \in 1..Len(h2) /\ f.first \in 1..Len(h2) /\ DOMAIN h2 = 1..Len(h2)
  <2>1. pair \in Nat /\ pair > 0
    BY <1>6 DEF pair
  <2> QED BY <1>7, <1>8, <1>9, <2>1, HeapProperties
<1>11. a.cell \in Int
  BY <1>9, ValueProperties
<1>12. H3 \in {HandledAll(H, f), handle_set(HandledAll(H, f), f.htemp, a.cell)}
  OBVIOUS
<1>13. H3.top = hs.top
  <2>1. /\ HandledAll(H, f) \in HandleStacks /\ HandledAll(H, f).st = H.st
        /\ HandledAll(H, f).top = H.top
    BY <1>4, <1>5, HandledProperties
  <2>2. handle_set(HandledAll(H, f), f.htemp, a.cell).top = HandledAll(H, f).top
    BY <1>5, <1>11, <2>1, SetProperties
  <2> QED BY <1>5, <2>1, <2>2
<1> HIDE DEF H2, H3
<1>14. handle_get(H3, f.hcurrent) = pair /\ handle_get(H3, f.hfirst) = f.first
  BY <1>4, <1>5, <1>6, <1>11, <1>12, AllHandled
<1>15. new.first = f.first /\ new.last = pair
  BY <1>4, <1>14 DEF Reloaded, Frames
<1> HIDE DEF new
<1>16. f.hcurrent \in 1..H3.top /\ f.hfirst \in 1..H3.top
  BY <1>5, <1>6, <1>13 DEF HandlesFrom
<1>17. {f.first, pair} \subseteq Roots(H3, h2)
  BY <1>10, <1>14, <1>16 DEF Roots, handle_get
<1>18. Roots(H3, h2) \subseteq Reachable(H3, h2)
  BY <1>9, RootsReached
<1> QED BY <1>2, <1>3, <1>15, <1>17, <1>18

(* "first, last, current handled" (reader.c:146), for every text: at the   *)
(* allocation of a number or a string, the collector would find the list   *)
(* that is read from the handles, however many cells there are.            *)
THEOREM OwnListIsHandled == Spec => OwnListHandled
<1> DEFINE A == rpc = "list" /\ tpc = "returned" /\ tok.type \in {"TOKEN_NUMBER", "TOKEN_STRING"}
                  /\ rpc' = "list" /\ Len(frames') = Len(frames)
           P == {Last(frames').first, Last(frames').last} \subseteq Reachable(hs', heap')
<1>1. RInv /\ [Next]_vars => [A => P]_vars
  <2> SUFFICES ASSUME RInv, Next, A PROVE P
    OBVIOUS
  <2> HIDE DEF P
  <2>1. read_list_intern
    BY DEF Next, Comes, get_token_step, Reading, read_intern, load_lib_scm, run_in_thread
  <2>2. ASSUME NEW v, NEW H, ReturnList(v, H) PROVE FALSE
    <3>1. Len(frames) \in Nat /\ IsSequence(frames) /\ frames # <<>> /\ Len(frames) > 0
      BY InList
    <3>2. Len(Front(frames)) = Len(frames) - 1 /\ IsSequence(Front(frames))
      BY <3>1, LastProperties
    <3>3. Len(frames') # Len(frames)
      <4>1. CASE frames' = <<>>
        BY <3>1, <4>1
      <4>2. CASE \E k, x : frames' = [Front(frames) EXCEPT ![k].last = x]
        <5>1. PICK k, x : frames' = [Front(frames) EXCEPT ![k].last = x]
          BY <4>2
        <5>2. Len(frames') = Len(Front(frames))
          BY <3>2, <5>1, Changed
        <5> QED BY <3>1, <3>2, <5>2
      <4> QED BY <2>2, <4>1, <4>2 DEF ReturnList, Reads
    <3> QED BY <3>3
  <2>3. IsAtom(tok) /\ Element
    BY <2>1, <2>2 DEF read_list_intern, ListError, Exits
  <2>4. P
    BY <2>3, ElementHandled DEF P
  <2> QED BY <2>4
<1> QED BY <1>1, InitRInv, StepRInv, PTL DEF Spec, OwnListHandled
-----------------------------------------------------------------------------
(***************************************************************************)
(* Every input ends.  What lies before the reader counts: the input that   *)
(* is still to come, the characters of the stream, the open lists, and how *)
(* far the call is that reads the next token.                              *)
(***************************************************************************)
Reads_token == rpc \in {"read_intern", "list"}

Waiting_for ==
  IF Reads_token
  THEN IF Phase = 3 THEN 7
       ELSE IF Phase = 2 THEN IF tok.type = "TOKEN_LPAREN" THEN 6 ELSE 5
       ELSE IF Phase = 1 THEN 3
       ELSE IF tpc = "exited" THEN 0 ELSE 2
  ELSE IF rpc = "form" THEN IF form = NULL THEN 1 ELSE 4
  ELSE 0

(* A session comes after the library.                                      *)
Session == IF driver = "load_lib_scm" THEN 16 * MaxText + 3 ELSE 0

Left ==
  Session + 16 * coming + 8 * Ahead(stream) + 2 * Len(frames) + Waiting_for

LeftGetsLess == Left \in Nat /\ Left' \in Nat /\ Left' < Left

LEMMA PartsAreNatural ==
  ASSUME RInv, RInv'
  PROVE  /\ Session \in Nat /\ Session' \in Nat /\ coming \in Nat /\ coming' \in Nat
         /\ Ahead(stream) \in Nat /\ Ahead(stream') \in Nat
         /\ Len(frames) \in Nat /\ Len(frames') \in Nat
         /\ Waiting_for \in 0..7 /\ Waiting_for' \in 0..7
<1>1. Session \in Nat /\ Session' \in Nat
  BY ReaderAssumption DEF Session
<1>2. coming \in Nat /\ coming' \in Nat
  BY DEF RInv
<1>3. Ahead(stream) \in Nat /\ Ahead(stream') \in Nat
  BY UnreadIsText DEF RInv, Types, Ahead
<1>4. Len(frames) \in Nat /\ Len(frames') \in Nat
  BY LenOfSequence DEF RInv, IInv, Nested
<1>5. Waiting_for \in 0..7 /\ Waiting_for' \in 0..7
  BY DEF Waiting_for
<1> QED BY <1>1, <1>2, <1>3, <1>4, <1>5

(* The driver goes on with the same input, which nobody has read.          *)
LEMMA InputStays ==
  ASSUME RInv, RInv', UNCHANGED <<stream, coming, driver>>,
         2 * Len(frames') + Waiting_for' < 2 * Len(frames) + Waiting_for
  PROVE  LeftGetsLess
<1> DEFINE S == Session
           C == coming
           A == Ahead(stream)
<1>1. Left = S + 16 * C + 8 * A + 2 * Len(frames) + Waiting_for
  BY DEF Left
<1>2. Left' = S + 16 * C + 8 * A + 2 * Len(frames') + Waiting_for'
  BY DEF Left, Session
<1>3. /\ S \in Nat /\ C \in Nat /\ A \in Nat /\ Len(frames) \in Nat /\ Len(frames') \in Nat
      /\ Waiting_for \in 0..7 /\ Waiting_for' \in 0..7
  BY PartsAreNatural
<1>4. ASSUME NEW s \in Nat, NEW c \in Nat, NEW a \in Nat, NEW m \in Nat, NEW n \in Nat,
             NEW v \in 0..7, NEW w \in 0..7, 2 * n + w < 2 * m + v
      PROVE  /\ s + 16 * c + 8 * a + 2 * m + v \in Nat /\ s + 16 * c + 8 * a + 2 * n + w \in Nat
             /\ s + 16 * c + 8 * a + 2 * n + w < s + 16 * c + 8 * a + 2 * m + v
  BY <1>4
<1> HIDE DEF S, C, A
<1> QED BY <1>1, <1>2, <1>3, <1>4 DEF LeftGetsLess

(* A token is asked for.                                                   *)
LEMMA AskedFor ==
  ASSUME Calls_get_token, rpc' \in {"read_intern", "list"}
  PROVE  Waiting_for' = 3
<1>1. Phase' = 1
  BY DEF Phase, Calls_get_token
<1> QED BY <1>1 DEF Waiting_for, Reads_token

(* A token, or an error, has come.                                         *)
LEMMA HasCome ==
  ASSUME tpc = "returned", rpc \in {"read_intern", "list"}
  PROVE  /\ Waiting_for >= 2 /\ Waiting_for \in Nat
         /\ ret = "TOKEN_OK" => Waiting_for >= 5
         /\ ret = "TOKEN_OK" /\ tok.type = "TOKEN_LPAREN" => Waiting_for = 6
<1>1. Phase = IF ret = "TOKEN_OK" THEN 2 ELSE 0
  BY DEF Phase
<1> QED BY <1>1 DEF Waiting_for, Reads_token

LEMMA FormThere ==
  /\ rpc' = "form" => Waiting_for' = IF form' = NULL THEN 1 ELSE 4
  /\ rpc' \in {"exited", "ended"} => Waiting_for' = 0
  /\ rpc = "form" => Waiting_for = IF form = NULL THEN 1 ELSE 4
BY DEF Waiting_for, Reads_token

LEMMA ExitsLowers ==
  ASSUME RInv, RInv', Exits, Waiting_for >= 1
  PROVE  LeftGetsLess
<1>1. UNCHANGED <<stream, coming, driver>> /\ frames' = frames /\ Waiting_for' = 0
  BY FormThere DEF Exits, tokenizerVars
<1>2. 2 * Len(frames') + Waiting_for' < 2 * Len(frames) + Waiting_for
  BY <1>1, PartsAreNatural
<1> QED BY <1>1, <1>2, InputStays

LEMMA CallListLowers ==
  ASSUME RInv, RInv', NEW callers, NEW H, NEW h, CallList(callers, H, h),
         Len(callers) = Len(frames), Len(Append(callers, NewFrame(H))) = Len(frames) + 1,
         Waiting_for = 6
  PROVE  LeftGetsLess
<1>1. CASE hs'.st = "ok"
  <2>1. /\ rpc' = "list" /\ Calls_get_token /\ UNCHANGED <<stream, coming, driver>>
        /\ frames' = Append(callers, NewFrame(H))
    BY <1>1 DEF CallList, Asks_for_token
  <2>2. Waiting_for' = 3 /\ Len(frames') = Len(frames) + 1
    BY <2>1, AskedFor
  <2>3. 2 * Len(frames') + Waiting_for' < 2 * Len(frames) + Waiting_for
    BY <2>2, PartsAreNatural
  <2> QED BY <2>1, <2>3, InputStays
<1>2. CASE hs'.st # "ok"
  <2>1. rpc' = "exited" /\ frames' = callers /\ UNCHANGED <<stream, coming, driver>>
    BY <1>2 DEF CallList, tokenizerVars
  <2>2. Waiting_for' = 0 /\ Len(frames') = Len(frames)
    BY <2>1, FormThere
  <2>3. 2 * Len(frames') + Waiting_for' < 2 * Len(frames) + Waiting_for
    BY <2>2, PartsAreNatural
  <2> QED BY <2>1, <2>3, InputStays
<1> QED BY <1>1, <1>2

LEMMA read_intern_Lowers ==
  ASSUME RInv, RInv', read_intern
  PROVE  LeftGetsLess
<1>1. /\ rpc = "read_intern" /\ tpc = "returned" /\ frames = <<>> /\ Len(frames) = 0
      /\ Len(Append(frames, NewFrame(hs))) = Len(frames) + 1
  BY DEF read_intern, RInv, IInv
<1>2. /\ Waiting_for >= 2 /\ Waiting_for \in Nat
      /\ ret = "TOKEN_OK" => Waiting_for >= 5
      /\ ret = "TOKEN_OK" /\ tok.type = "TOKEN_LPAREN" => Waiting_for = 6
  BY <1>1, HasCome
<1>3. CASE Reads(NULL) /\ UNCHANGED frames
  <2>1. UNCHANGED <<stream, coming, driver>> /\ frames' = frames /\ Waiting_for' = 1
    BY <1>3, FormThere DEF Reads, tokenizerVars
  <2>2. 2 * Len(frames') + Waiting_for' < 2 * Len(frames) + Waiting_for
    BY <1>1, <1>2, <2>1
  <2> QED BY <2>1, <2>2, InputStays
<1>4. CASE ret = "TOKEN_OK" /\ tok.type = "TOKEN_LPAREN" /\ CallList(<<>>, hs, heap)
  BY <1>1, <1>2, <1>4, CallListLowers
<1>5. CASE ret = "TOKEN_OK" /\ Reads(WithAtom(heap, tok).cell) /\ UNCHANGED frames
  <2>1. /\ UNCHANGED <<stream, coming, driver>> /\ frames' = frames
        /\ Waiting_for' \in 0..4 /\ Waiting_for >= 5
    BY <1>2, <1>5, FormThere DEF Reads, tokenizerVars
  <2>2. 2 * Len(frames') + Waiting_for' < 2 * Len(frames) + Waiting_for
    <3>1. Len(frames') = 0
      BY <1>1, <2>1
    <3> QED BY <1>1, <2>1, <3>1, PartsAreNatural
  <2> QED BY <2>1, <2>2, InputStays
<1>6. CASE Exits
  BY <1>2, <1>6, ExitsLowers
<1> QED BY <1>3, <1>4, <1>5, <1>6, Zenon DEF read_intern

LEMMA ReturnListLowers ==
  ASSUME RInv, RInv', NEW v, NEW H, ReturnList(v, H), rpc = "list", tpc = "returned",
         ret # "TOKEN_OK" => v = NULL
  PROVE  LeftGetsLess
<1> DEFINE n == Len(frames) - 1
<1>1. Len(frames) \in Nat /\ Len(frames) > 0 /\ IsSequence(frames) /\ frames # <<>>
  BY InList
<1>2. /\ Waiting_for >= 2 /\ Waiting_for \in Nat
      /\ ret = "TOKEN_OK" => Waiting_for >= 5
  BY HasCome
<1>3. CASE n = 0 /\ Reads(v) /\ frames' = <<>>
  <2>1. /\ UNCHANGED <<stream, coming, driver>> /\ Len(frames') = 0 /\ Len(frames) = 1
        /\ Waiting_for' = IF v = NULL THEN 1 ELSE 4
    BY <1>1, <1>3, FormThere DEF Reads, tokenizerVars
  <2>2. 2 * Len(frames') + Waiting_for' < 2 * Len(frames) + Waiting_for
    <3>1. CASE v = NULL
      BY <1>2, <2>1, <3>1
    <3>2. CASE v # NULL
      BY <1>2, <2>1, <3>2
    <3> QED BY <3>1, <3>2
  <2> QED BY <2>1, <2>2, InputStays
<1>4. CASE /\ n > 0 /\ frames' = [Front(frames) EXCEPT ![n].last = frames[n].current]
           /\ Asks_for_token /\ UNCHANGED rpc
  <2>1. /\ UNCHANGED <<stream, coming, driver>> /\ Waiting_for' = 3
    BY <1>4, AskedFor DEF Asks_for_token
  <2>2. Len(frames') = Len(frames) - 1
    <3>1. IsSequence(Front(frames)) /\ Len(Front(frames)) = n
      BY <1>1, LastProperties
    <3>2. n \in 1..Len(Front(frames))
      BY <1>1, <1>4, <3>1
    <3> DEFINE f == [Front(frames)[n] EXCEPT !.last = frames[n].current]
    <3>3. frames' = [Front(frames) EXCEPT ![n] = f]
      BY <1>4
    <3> HIDE DEF f
    <3> QED BY <3>1, <3>2, <3>3, Changed
  <2>3. 2 * Len(frames') + Waiting_for' < 2 * Len(frames) + Waiting_for
    BY <1>1, <1>2, <2>1, <2>2
  <2> QED BY <2>1, <2>3, InputStays
<1> QED BY <1>3, <1>4 DEF ReturnList

(* A list that goes on with another token.                                 *)
LEMMA RoundLowers ==
  ASSUME RInv, RInv', NEW f, NEW h, NEW H, Asks_in_list(f, h, H), rpc = "list",
         tpc = "returned", ret = "TOKEN_OK"
  PROVE  LeftGetsLess
<1>1. /\ UNCHANGED <<stream, coming, driver>> /\ Waiting_for' = 3 /\ Waiting_for >= 5
      /\ frames' = Append(Front(frames), f)
  BY AskedFor, HasCome DEF Asks_in_list, Asks_for_token
<1>2. Len(frames') = Len(frames)
  <2>1. /\ Len(frames) \in Nat /\ IsSequence(Front(frames))
        /\ Len(Front(frames)) = Len(frames) - 1
    BY InList, LastProperties
  <2> QED BY <1>1, <2>1, AppendedAt
<1>3. 2 * Len(frames') + Waiting_for' < 2 * Len(frames) + Waiting_for
  BY <1>1, <1>2, PartsAreNatural
<1> QED BY <1>1, <1>3, InputStays

LEMMA read_list_intern_Lowers ==
  ASSUME RInv, RInv', read_list_intern
  PROVE  LeftGetsLess
<1>1. /\ rpc = "list" /\ tpc = "returned"
      /\ Waiting_for >= 2 /\ Waiting_for \in Nat
      /\ ret = "TOKEN_OK" /\ tok.type = "TOKEN_LPAREN" => Waiting_for = 6
  BY HasCome DEF read_list_intern
<1>2. CASE ListError
  BY <1>1, <1>2, ReturnListLowers DEF ListError
<1>3. CASE /\ ret = "TOKEN_OK"
           /\ ReturnList(IF Top.last = NULL THEN nil ELSE Top.first, LOCAL_POP_HANDLES(Top))
  BY <1>1, <1>3, ReturnListLowers
<1>4. ASSUME NEW f, NEW H, NEW h, ret = "TOKEN_OK", tok.type = "TOKEN_LPAREN",
             CallList(Append(Front(frames), f), H, h)
      PROVE  LeftGetsLess
  <2>1. /\ Len(frames) \in Nat /\ IsSequence(Front(frames))
        /\ Len(Front(frames)) = Len(frames) - 1
    BY <1>1, InList, LastProperties
  <2>2. IsSequence(Append(Front(frames), f)) /\ Len(Append(Front(frames), f)) = Len(frames)
    BY <2>1, AppendedAt
  <2>3. Len(Append(Append(Front(frames), f), NewFrame(H))) = Len(frames) + 1
    BY <2>2, AppendedAt
  <2> QED BY <1>1, <1>4, <2>2, <2>3, CallListLowers
<1>5. CASE ret = "TOKEN_OK" /\ Element
  <2>1. \E f, h, H : Asks_in_list(f, h, H)
    BY <1>5, Zenon DEF Element
  <2> QED BY <1>1, <1>5, <2>1, RoundLowers
<1>6. CASE Exits
  BY <1>1, <1>6, ExitsLowers
<1> QED BY <1>2, <1>3, <1>4, <1>5, <1>6, Zenon DEF read_list_intern

LEMMA load_lib_scm_Lowers ==
  ASSUME RInv, RInv', load_lib_scm
  PROVE  LeftGetsLess
<1>1. rpc = "form" /\ driver = "load_lib_scm" /\ Len(frames) = 0
  BY DEF load_lib_scm, RInv, IInv
<1>2. CASE form # NULL /\ Exits
  BY <1>1, <1>2, FormThere, ExitsLowers
<1>3. CASE form # NULL /\ Reads_next /\ Asks_for_token /\ UNCHANGED frames
  <2>1. /\ UNCHANGED <<stream, coming, driver>> /\ Waiting_for' = 3 /\ Waiting_for = 4
        /\ Len(frames') = 0
    BY <1>1, <1>3, FormThere, AskedFor DEF Asks_for_token, Reads_next
  <2>2. 2 * Len(frames') + Waiting_for' < 2 * Len(frames) + Waiting_for
    BY <1>1, <2>1
  <2> QED BY <2>1, <2>2, InputStays
<1>4. CASE /\ form = NULL /\ driver' = "run_in_thread" /\ stream' = make_filestream(<<>>)
           /\ coming' = MaxText /\ Reads_next /\ Calls_get_token /\ UNCHANGED frames
  <2>1. Waiting_for' = 3 /\ Waiting_for = 1 /\ Len(frames') = 0
    BY <1>1, <1>4, FormThere, AskedFor DEF Reads_next
  <2>2. Ahead(stream') = 0
    <3>1. <<>> \in Seq(Input) /\ Len(<<>>) = 0
      OBVIOUS
    <3>2. Unread(stream') = <<>>
      BY <1>4 DEF make_filestream, Unread
    <3> QED BY <3>1, <3>2 DEF Ahead
  <2>3. Session' = 0 /\ Session = 16 * MaxText + 3 /\ coming' = MaxText /\ MaxText \in Nat
    BY <1>1, <1>4, ReaderAssumption DEF Session
  <2>4. ASSUME NEW m \in Nat, NEW c \in Nat, NEW a \in Nat
        PROVE  /\ (16 * m + 3) + 16 * c + 8 * a + 2 * 0 + 1 \in Nat
               /\ 0 + 16 * m + 8 * 0 + 2 * 0 + 3 \in Nat
               /\ 0 + 16 * m + 8 * 0 + 2 * 0 + 3 < (16 * m + 3) + 16 * c + 8 * a + 2 * 0 + 1
    OBVIOUS
  <2>5. Left = (16 * MaxText + 3) + 16 * coming + 8 * Ahead(stream) + 2 * 0 + 1
    BY <1>1, <2>1, <2>3 DEF Left
  <2>6. Left' = 0 + 16 * MaxText + 8 * 0 + 2 * 0 + 3
    BY <2>1, <2>2, <2>3 DEF Left
  <2> QED BY <2>3, <2>4, <2>5, <2>6, PartsAreNatural DEF LeftGetsLess
<1> QED BY <1>2, <1>3, <1>4 DEF load_lib_scm

LEMMA run_in_thread_Lowers ==
  ASSUME RInv, RInv', run_in_thread
  PROVE  LeftGetsLess
<1>1. rpc = "form" /\ Len(frames) = 0 /\ Waiting_for = IF form = NULL THEN 1 ELSE 4
  BY FormThere DEF run_in_thread, RInv, IInv
<1>2. CASE form # NULL /\ Reads_next /\ Asks_for_token /\ UNCHANGED frames
  <2>1. /\ UNCHANGED <<stream, coming, driver>> /\ Waiting_for' = 3 /\ Len(frames') = 0
    BY <1>1, <1>2, AskedFor DEF Asks_for_token, Reads_next
  <2>2. 2 * Len(frames') + Waiting_for' < 2 * Len(frames) + Waiting_for
    BY <1>1, <1>2, <2>1
  <2> QED BY <2>1, <2>2, InputStays
<1>3. CASE rpc' = "ended" /\ UNCHANGED <<tokenizerVars, coming, driver, frames>>
  <2>1. UNCHANGED <<stream, coming, driver>> /\ Waiting_for' = 0 /\ Len(frames') = 0
    BY <1>1, <1>3, FormThere DEF tokenizerVars
  <2>2. 2 * Len(frames') + Waiting_for' < 2 * Len(frames) + Waiting_for
    BY <1>1, <2>1
  <2> QED BY <2>1, <2>2, InputStays
<1> QED BY <1>2, <1>3 DEF run_in_thread

LEMMA OneComes ==
  ASSUME NEW s, IsStream(s), s.kind = "file", Unread(s) = <<>>, NEW c \in Chars
  PROVE  Unread([s EXCEPT !.text = <<c>>]) = <<c>>
<1> DEFINE u == [s EXCEPT !.text = <<c>>]
<1>1. s.pushed = <<>>
  <2>1. s.pushed \in Seq(Input) /\ s.text \in Seq(Input)
    BY DEF IsStream
  <2>2. s.pushed \o s.text = <<>>
    BY UnreadOfFile
  <2>3. Len(s.pushed \o s.text) = Len(s.pushed) + Len(s.text)
    BY <2>1, ConcatProperties
  <2>4. Len(s.pushed) = 0
    BY <2>1, <2>2, <2>3
  <2> QED BY <2>1, <2>4, EmptySeq
<1>2. <<c>> \in Seq(Input)
  BY DEF Input
<1>3. IsStream(u) /\ u.kind = "file" /\ u.pushed = <<>> /\ u.text = <<c>>
  BY <1>1, <1>2 DEF IsStream
<1> HIDE DEF u
<1>4. Unread(u) = <<c>>
  BY <1>3, UnreadOfFile
<1> QED BY <1>4 DEF u

LEMMA ComesLowers ==
  ASSUME RInv, RInv', Comes
  PROVE  LeftGetsLess
<1>1. /\ Ahead(stream) = 0 /\ coming > 0 /\ Session' = Session /\ Len(frames') = Len(frames)
      /\ Waiting_for' = Waiting_for
  BY DEF Comes, Ahead, Session, Waiting_for, Reads_token, Phase
<1>2. \/ Ahead(stream') = 1 /\ coming' = coming - 1
      \/ Ahead(stream') = 0 /\ coming' = 0
  <2>1. ASSUME NEW c \in Chars, stream' = [stream EXCEPT !.text = <<c>>]
        PROVE  Ahead(stream') = 1
    <3>1. IsStream(stream) /\ stream.kind = "file" /\ Unread(stream) = <<>>
      BY DEF RInv, Types, Comes
    <3>2. Unread(stream') = <<c>>
      BY <2>1, <3>1, OneComes
    <3> QED BY <3>2 DEF Ahead
  <2>2. CASE coming' = 0 /\ UNCHANGED stream
    BY <1>1, <2>2
  <2> QED BY <2>1, <2>2 DEF Comes
<1> DEFINE S == Session
           C == coming
           D == coming'
           A == Ahead(stream')
           N == Len(frames)
           W == Waiting_for
<1>3. Left = S + 16 * C + 8 * 0 + 2 * N + W /\ Left' = S + 16 * D + 8 * A + 2 * N + W
  BY <1>1 DEF Left
<1>4. S \in Nat /\ C \in Nat /\ D \in Nat /\ A \in Nat /\ N \in Nat /\ W \in 0..7
  BY PartsAreNatural
<1>5. C > 0 /\ ((A = 1 /\ D = C - 1) \/ (A = 0 /\ D = 0))
  BY <1>1, <1>2
<1> HIDE DEF S, C, D, A, N, W
<1>6. CASE A = 1 /\ D = C - 1
  BY <1>3, <1>4, <1>5, <1>6 DEF LeftGetsLess
<1>7. CASE A = 0 /\ D = 0
  BY <1>3, <1>4, <1>5, <1>7 DEF LeftGetsLess
<1> QED BY <1>5, <1>6, <1>7

LEMMA get_token_step_Lowers ==
  ASSUME RInv, RInv', get_token_step
  PROVE  LeftGetsLess
<1>1. /\ Moves /\ Session' = Session /\ coming' = coming /\ frames' = frames /\ Reads_token
      /\ Reads_token'
  BY TokenizeMoves DEF get_token_step, readerVars, Session, RInv, Types, Reading, Reads_token
<1>2. tpc # "returned" /\ tpc # "exited"
  BY DEF get_token_step, Reading
<1>3. \/ Phase = 3 /\ Waiting_for = 7
      \/ Phase = 2 /\ Waiting_for >= 5 /\ Waiting_for <= 6
      \/ Phase = 1 /\ Waiting_for = 3
  BY <1>1, <1>2, TypesAreTypes DEF Waiting_for, Phase, RInv, TokenizerTypeOK
<1>4. \/ Phase' = 3 /\ Waiting_for' = 7
      \/ Phase' = 2 /\ Waiting_for' >= 5 /\ Waiting_for' <= 6
      \/ Phase' = 1 /\ Waiting_for' = 3
      \/ Phase' = 0 /\ Waiting_for' <= 2
  BY <1>1 DEF Waiting_for, Phase
<1> DEFINE S == Session
           C == coming
           A == Ahead(stream)
           B == Ahead(stream')
           N == Len(frames)
           V == Waiting_for
           W == Waiting_for'
<1>5. Left = S + 16 * C + 8 * A + 2 * N + V /\ Left' = S + 16 * C + 8 * B + 2 * N + W
  BY <1>1 DEF Left
<1>6. /\ S \in Nat /\ C \in Nat /\ A \in Nat /\ B \in Nat /\ N \in Nat
      /\ V \in 0..7 /\ W \in 0..7
  BY PartsAreNatural
<1>7. (B < A /\ V >= 3) \/ (B = A /\ W < V)
  <2>1. V >= 3
    <3> HIDE DEF V
    <3>1. V = 7 \/ V >= 5 \/ V = 3
      BY <1>3 DEF V
    <3> QED BY <1>6, <3>1
  <2>2. CASE Ahead(stream') < Ahead(stream)
    BY <2>1, <2>2
  <2>3. CASE Ahead(stream') = Ahead(stream) /\ Phase' < Phase
    <3> HIDE DEF A, B, S, C, N
    <3>1. W < V
      BY <1>3, <1>4, <1>6, <2>3
    <3> QED BY <2>3, <3>1 DEF A, B
  <2> QED BY <1>1, <2>2, <2>3 DEF Moves
<1> HIDE DEF S, C, A, B, N, V, W
<1>8. CASE B < A /\ V >= 3
  BY <1>5, <1>6, <1>8 DEF LeftGetsLess
<1>9. CASE B = A /\ W < V
  BY <1>5, <1>6, <1>9 DEF LeftGetsLess
<1> QED BY <1>7, <1>8, <1>9

(* Reading a library and a session of at most MaxText characters each      *)
(* takes at most 32 * MaxText + 6 steps of the reader and of its drivers,  *)
(* whatever the input contains and however deep its lists are: no          *)
(* character is put back for ever, an error in a list closes that list,    *)
(* and the end of the input closes them all.  With the fairness of Spec    *)
(* this is why EveryInputEnds holds.                                       *)
THEOREM SessionIsBounded == Spec => [][LeftGetsLess]_vars
<1>1. RInv /\ RInv' /\ Next => LeftGetsLess
  BY ComesLowers, get_token_step_Lowers, read_intern_Lowers, read_list_intern_Lowers,
     load_lib_scm_Lowers, run_in_thread_Lowers DEF Next
<1>2. RInv /\ RInv' /\ [Next]_vars => [LeftGetsLess]_vars
  BY <1>1
<1> QED BY <1>2, InitRInv, StepRInv, PTL DEF Spec
=============================================================================
