--------------------------- MODULE EvaluatorProofs ---------------------------
(***************************************************************************)
(* The interpreter of module Evaluator keeps its handle stack, its level   *)
(* and its eval_stack list in order and ends every evaluation, for every   *)
(* size of the handle block, every set of primitives and every bound on    *)
(* the program text.                                                       *)
(***************************************************************************)
EXTENDS Evaluator, FiniteSetTheorems, SequenceTheorems, WellFoundedInduction, TLAPS

(***************************************************************************)
(* Laws of the handle stack, for every size of the block: what each        *)
(* function of handles.c leaves, and that the closed forms push_n and      *)
(* pop_all are iterations of handle_push and of handle_pop.                *)
(***************************************************************************)
(* handle_push in the terms of push_n: it pushes once.                     *)
LEMMA PushOnce ==
  ASSUME NEW H \in HandleStacks, NEW c \in Int
  PROVE  handle_push(H, c) = push_n(H, c, 1)
<1>1. CASE H.st = "ok" /\ H.top + 1 <= HandleFrameSize
  <2> DEFINE onePushed == [H.slot EXCEPT ![H.top + 1] = c]
             nPushed == [i \in 0..HandleFrameSize |->
                           IF H.top < i /\ i <= H.top + 1 THEN c ELSE H.slot[i]]
  <2>1. H.top \in Nat /\ H.slot \in [0..HandleFrameSize -> Int]
    BY HandleFrameSizeAssumption DEF HandleStacks
  <2>2. onePushed = nPushed
    <3>1. H.top + 1 \in 0..HandleFrameSize
      BY <1>1, <2>1, HandleFrameSizeAssumption
    <3>2. onePushed = [i \in 0..HandleFrameSize |-> IF i = H.top + 1 THEN c ELSE H.slot[i]]
      BY <2>1, <3>1
    <3>3. \A i \in 0..HandleFrameSize : H.top < i /\ i <= H.top + 1 <=> i = H.top + 1
      BY <2>1, HandleFrameSizeAssumption
    <3> QED BY <3>2, <3>3
  <2>3. handle_push(H, c) = [top |-> H.top + 1, slot |-> onePushed, st |-> "ok"]
    BY <1>1, <2>1, HandleFrameSizeAssumption DEF handle_push
  <2>4. push_n(H, c, 1) = [top |-> H.top + 1, slot |-> nPushed, st |-> "ok"]
    BY <1>1, <2>1, HandleFrameSizeAssumption DEF push_n
  <2> QED BY <2>2, <2>3, <2>4
<1>2. CASE ~(H.st = "ok" /\ H.top + 1 <= HandleFrameSize)
  BY <1>2, HandleFrameSizeAssumption DEF handle_push, push_n, HandleStacks
<1> QED BY <1>1, <1>2

(* What n pushes leave: either there was room for all of them, and the     *)
(* slots below are as they were, or the process exits.                     *)
LEMMA PushProperties ==
  ASSUME NEW H \in HandleStacks, NEW c \in Int, NEW n \in Nat, H.st # "assert"
  PROVE  /\ push_n(H, c, n) \in HandleStacks
         /\ push_n(H, c, n).st \in {"ok", "full"}
         /\ push_n(H, c, n).st = "ok" =>
              /\ H.st = "ok"
              /\ push_n(H, c, n).top = H.top + n
              /\ \A s \in 1..H.top : push_n(H, c, n).slot[s] = H.slot[s]
              /\ \A s \in (H.top + 1)..(H.top + n) : push_n(H, c, n).slot[s] = c
<1> DEFINE filled == [i \in 0..HandleFrameSize |->
                        IF H.top < i /\ i <= H.top + n THEN c ELSE H.slot[i]]
<1>1. /\ H.top \in 0..HandleFrameSize /\ H.slot \in [0..HandleFrameSize -> Int]
      /\ H = [top |-> H.top, slot |-> H.slot, st |-> H.st]
      /\ H.st \in {"ok", "full"}
  BY DEF HandleStacks
<1>2. CASE H.st = "ok" /\ H.top + n <= HandleFrameSize
  <2>1. H.top \in Nat /\ H.top <= HandleFrameSize /\ HandleFrameSize \in Nat
    BY <1>1, HandleFrameSizeAssumption
  <2>2. filled \in [0..HandleFrameSize -> Int]
    BY <1>1
  <2>3. /\ \A s \in 1..H.top : filled[s] = H.slot[s]
        /\ \A s \in (H.top + 1)..(H.top + n) : filled[s] = c
    <3>1. ASSUME NEW s \in 1..H.top
          PROVE  s \in 0..HandleFrameSize /\ ~(H.top < s /\ s <= H.top + n)
      BY <2>1
    <3>2. ASSUME NEW s \in (H.top + 1)..(H.top + n)
          PROVE  s \in 0..HandleFrameSize /\ H.top < s /\ s <= H.top + n
      BY <1>2, <2>1
    <3> QED BY <3>1, <3>2
  <2>4. ~(H.top + n > HandleFrameSize) /\ H.top + n \in 0..HandleFrameSize
    BY <1>2, <2>1
  <2>5. push_n(H, c, n) = [top |-> H.top + n, slot |-> filled, st |-> "ok"]
    BY <1>2, <2>4, Zenon DEF push_n
  <2> HIDE DEF filled
  <2> QED BY <1>2, <2>1, <2>2, <2>3, <2>4, <2>5 DEF HandleStacks
<1>3. CASE H.st = "ok" /\ H.top + n > HandleFrameSize
  <2>1. push_n(H, c, n) = [top |-> H.top, slot |-> H.slot, st |-> "full"]
    BY <1>1, <1>3 DEF push_n
  <2> QED BY <1>1, <2>1 DEF HandleStacks
<1>4. CASE H.st # "ok"
  BY <1>1, <1>4 DEF push_n
<1> QED BY <1>1, <1>2, <1>3, <1>4, HandleFrameSizeAssumption

(* What pops in the reverse order of the pushes leave; the assertion of    *)
(* handle_pop holds for each of them.                                      *)
LEMMA PopProperties ==
  ASSUME NEW H \in HandleStacks, NEW hd \in Seq(Nat), H.st # "assert",
         H.st = "ok" => /\ Len(hd) <= H.top
                        /\ \A k \in 1..Len(hd) : hd[k] = H.top + 1 - k
  PROVE  /\ pop_all(H, hd) \in HandleStacks
         /\ pop_all(H, hd).st = H.st
         /\ H.st = "ok" =>
              /\ pop_all(H, hd).top = H.top - Len(hd)
              /\ \A s \in 1..(H.top - Len(hd)) : pop_all(H, hd).slot[s] = H.slot[s]
<1> DEFINE cleared == [i \in 0..HandleFrameSize |->
                         IF H.top - Len(hd) < i /\ i <= H.top
                         THEN NULL ELSE H.slot[i]]
<1>1. /\ H.top \in 0..HandleFrameSize /\ H.slot \in [0..HandleFrameSize -> Int]
      /\ H = [top |-> H.top, slot |-> H.slot, st |-> H.st]
      /\ Len(hd) \in Nat
  BY DEF HandleStacks
<1>2. CASE H.st = "ok"
  <2>1. pop_all(H, hd) = [top |-> H.top - Len(hd), slot |-> cleared, st |-> "ok"]
    BY <1>1, <1>2 DEF pop_all
  <2>2. H.top - Len(hd) \in 0..HandleFrameSize /\ cleared \in [0..HandleFrameSize -> Int]
    BY <1>1, <1>2, HandleFrameSizeAssumption DEF NULL
  <2>3. \A s \in 1..(H.top - Len(hd)) : cleared[s] = H.slot[s]
    BY <1>1, HandleFrameSizeAssumption
  <2> HIDE DEF cleared
  <2> QED BY <1>2, <2>1, <2>2, <2>3 DEF HandleStacks
<1>3. CASE H.st # "ok"
  BY <1>1, <1>3 DEF pop_all
<1> QED BY <1>2, <1>3

(* What pop_to_mark leaves when the mark is not above the top.             *)
LEMMA UnwindProperties ==
  ASSUME NEW H \in HandleStacks, NEW mark \in Nat, mark <= H.top, H.st = "ok"
  PROVE  /\ pop_to_mark(H, mark) \in HandleStacks
         /\ pop_to_mark(H, mark).st = "ok"
         /\ pop_to_mark(H, mark).top = mark
         /\ \A s \in 1..mark : pop_to_mark(H, mark).slot[s] = H.slot[s]
<1> DEFINE cleared == [i \in 0..HandleFrameSize |->
                         IF mark < i /\ i <= H.top THEN NULL ELSE H.slot[i]]
<1>1. /\ H.top \in 0..HandleFrameSize /\ H.slot \in [0..HandleFrameSize -> Int]
      /\ H = [top |-> H.top, slot |-> H.slot, st |-> "ok"]
  BY DEF HandleStacks
<1>2. mark \in 0..HandleFrameSize /\ cleared \in [0..HandleFrameSize -> Int]
  BY <1>1, HandleFrameSizeAssumption DEF NULL
<1>3. \A s \in 1..mark : cleared[s] = H.slot[s]
  BY <1>1, HandleFrameSizeAssumption
<1>4. pop_to_mark(H, mark)
        = [top |-> IF H.top > mark THEN mark ELSE H.top, slot |-> cleared, st |-> "ok"]
  BY Zenon DEF pop_to_mark
<1>5. (IF H.top > mark THEN mark ELSE H.top) = mark
  BY <1>1
<1> HIDE DEF cleared
<1> QED BY <1>2, <1>3, <1>4, <1>5 DEF HandleStacks

(***************************************************************************)
(* The closed forms are the iterations.  A process that ends part of the   *)
(* way ends in the same way; what the stack holds then is not compared.    *)
(***************************************************************************)
Agree(G, H) == G.st = H.st /\ (G.st = "ok" => G = H)

(* n pushes are n calls of handle_push (handles.c:46).                     *)
THEOREM PushIterates ==
  ASSUME NEW H \in HandleStacks, NEW c \in Int, NEW n \in Nat, H.st = "ok"
  PROVE  /\ push_n(H, c, 0) = H
         /\ Agree(push_n(H, c, n + 1), handle_push(push_n(H, c, n), c))
<1>1. /\ H.top \in 0..HandleFrameSize /\ H.slot \in [0..HandleFrameSize -> Int]
      /\ H = [top |-> H.top, slot |-> H.slot, st |-> "ok"]
  BY DEF HandleStacks
<1> DEFINE filled(m) == [i \in 0..HandleFrameSize |->
                           IF H.top < i /\ i <= H.top + m THEN c ELSE H.slot[i]]
<1>2. ASSUME NEW m \in Nat, H.top + m <= HandleFrameSize
      PROVE  push_n(H, c, m) = [top |-> H.top + m, slot |-> filled(m), st |-> "ok"]
  <2>1. ~(H.top + m > HandleFrameSize)
    BY <1>1, <1>2, HandleFrameSizeAssumption
  <2> QED BY <2>1, Zenon DEF push_n
<1>3. ASSUME NEW m \in Nat, H.top + m > HandleFrameSize
      PROVE  push_n(H, c, m).st = "full"
  BY <1>1, <1>3 DEF push_n
<1>4. push_n(H, c, 0) = H
  <2>1. filled(0) = H.slot
    BY <1>1, HandleFrameSizeAssumption
  <2> HIDE DEF filled
  <2> QED BY <1>1, <1>2, <2>1
<1>5. CASE H.top + n + 1 <= HandleFrameSize
  <2>0. H.top \in Nat /\ HandleFrameSize \in Nat
    BY <1>1, HandleFrameSizeAssumption
  <2>1. filled(n + 1) = [filled(n) EXCEPT ![H.top + n + 1] = c]
    <3>1. \A i \in 0..HandleFrameSize :
            filled(n + 1)[i] = [filled(n) EXCEPT ![H.top + n + 1] = c][i]
      BY <2>0, <1>5
    <3> QED BY <3>1
  <2> HIDE DEF filled
  <2>2. /\ push_n(H, c, n) = [top |-> H.top + n, slot |-> filled(n), st |-> "ok"]
        /\ push_n(H, c, n + 1) = [top |-> H.top + (n + 1), slot |-> filled(n + 1), st |-> "ok"]
    <3>1. H.top + n <= HandleFrameSize /\ H.top + (n + 1) <= HandleFrameSize /\ n + 1 \in Nat
      BY <2>0, <1>5
    <3> QED BY <3>1, <1>2
  <2>3. handle_push(push_n(H, c, n), c)
          = [top |-> H.top + (n + 1), st |-> "ok",
             slot |-> [filled(n) EXCEPT ![H.top + n + 1] = c]]
    <3> DEFINE P == push_n(H, c, n)
    <3>1. P.st = "ok" /\ P.top = H.top + n /\ P.slot = filled(n)
      BY <2>2
    <3>2. P.top + 1 = H.top + n + 1 /\ P.top + 1 = H.top + (n + 1)
          /\ ~(P.top + 1 > HandleFrameSize)
      BY <3>1, <2>0, <1>5
    <3> HIDE DEF P
    <3>3. handle_push(P, c)
            = [top |-> P.top + 1, slot |-> [P.slot EXCEPT ![P.top + 1] = c], st |-> "ok"]
      BY <3>1, <3>2, Zenon DEF handle_push
    <3> QED BY <3>1, <3>2, <3>3 DEF P
  <2> QED BY <1>4, <2>1, <2>2, <2>3 DEF Agree
<1>6. CASE H.top + n + 1 > HandleFrameSize
  <2>1. push_n(H, c, n + 1).st = "full"
    BY <1>1, <1>3, <1>6, HandleFrameSizeAssumption
  <2>2. handle_push(push_n(H, c, n), c).st = "full"
    <3> HIDE DEF filled
    <3>1. CASE H.top + n <= HandleFrameSize
      BY <1>1, <1>2, <1>6, <3>1, HandleFrameSizeAssumption DEF handle_push
    <3>2. CASE H.top + n > HandleFrameSize
      BY <1>3, <3>2 DEF handle_push
    <3> QED BY <3>1, <3>2, <1>1, HandleFrameSizeAssumption
  <2> QED BY <1>4, <2>1, <2>2 DEF Agree
<1> QED BY <1>1, <1>5, <1>6, HandleFrameSizeAssumption

(* To pop a sequence of handles is to pop them one by one with handle_pop  *)
(* (handles.c:61), the failed assertion included.                          *)
THEOREM PopIterates ==
  ASSUME NEW H \in HandleStacks, H.st = "ok",
         NEW hd \in Seq(Nat \ {0}), NEW handle \in Nat \ {0}
  PROVE  /\ pop_all(H, <<>>) = H
         /\ Agree(pop_all(H, Append(hd, handle)), handle_pop(pop_all(H, hd), handle))
<1> DEFINE more == Append(hd, handle)
           good == \A k \in 1..Len(hd) : hd[k] = H.top + 1 - k
           cleared(m) == [i \in 0..HandleFrameSize |->
                            IF H.top - m < i /\ i <= H.top THEN NULL ELSE H.slot[i]]
<1>1. /\ H.top \in 0..HandleFrameSize /\ H.slot \in [0..HandleFrameSize -> Int]
      /\ H = [top |-> H.top, slot |-> H.slot, st |-> "ok"]
      /\ Len(hd) \in Nat
  BY DEF HandleStacks
<1>2. /\ Len(more) = Len(hd) + 1 /\ more[Len(hd) + 1] = handle
      /\ \A k \in 1..Len(hd) : more[k] = hd[k]
  OBVIOUS
<1>3. pop_all(H, <<>>) = H
  <2>1. cleared(0) = H.slot
    BY <1>1, HandleFrameSizeAssumption
  <2>2. pop_all(H, <<>>) = [top |-> H.top, slot |-> cleared(0), st |-> "ok"]
    <3>1. pop_all(H, <<>>)
            = [top |-> H.top - Len(<<>>), slot |-> cleared(Len(<<>>)), st |-> "ok"]
      BY DEF pop_all
    <3>2. Len(<<>>) = 0
      OBVIOUS
    <3> HIDE DEF cleared
    <3>3. H.top - 0 = H.top
      BY <1>1
    <3> QED BY <3>1, <3>2, <3>3
  <2> QED BY <1>1, <2>1, <2>2
<1>4. CASE ~good
  <2>1. \E k \in 1..Len(more) : more[k] # H.top + 1 - k
    <3>1. PICK k \in 1..Len(hd) : hd[k] # H.top + 1 - k
      BY <1>4
    <3>2. k \in 1..Len(more) /\ more[k] = hd[k]
      BY <1>1, <1>2, <3>1
    <3> QED BY <3>1, <3>2
  <2>2. pop_all(H, more).st = "assert"
    BY <1>1, <2>1 DEF pop_all
  <2>3. pop_all(H, hd).st = "assert"
    BY <1>1, <1>4 DEF pop_all
  <2>4. handle_pop(pop_all(H, hd), handle).st = "assert"
    BY <2>3 DEF handle_pop
  <2> QED BY <1>3, <2>2, <2>4 DEF Agree
<1>5. CASE good
  <2>1. pop_all(H, hd) = [top |-> H.top - Len(hd), slot |-> cleared(Len(hd)), st |-> "ok"]
    BY <1>1, <1>5 DEF pop_all
  <2>2. CASE handle # H.top - Len(hd)
    <3>1. more[Len(hd) + 1] # H.top + 1 - (Len(hd) + 1)
      BY <1>1, <1>2, <2>2
    <3>2. pop_all(H, more).st = "assert"
      <4>1. Len(hd) + 1 \in 1..Len(more)
        BY <1>1, <1>2
      <4>2. \E k \in 1..Len(more) : more[k] # H.top + 1 - k
        BY <3>1, <4>1
      <4>3. pop_all(H, more) = [H EXCEPT !.st = "assert"]
        BY <4>2 DEF pop_all
      <4> QED BY <1>1, <4>3
    <3>3. handle_pop(pop_all(H, hd), handle).st = "assert"
      <4> HIDE DEF cleared
      <4> QED BY <2>1, <2>2 DEF handle_pop
    <3> QED BY <1>3, <3>2, <3>3 DEF Agree
  <2>3. CASE handle = H.top - Len(hd)
    <3>1. \A k \in 1..Len(more) : more[k] = H.top + 1 - k
      BY <1>1, <1>2, <1>5, <2>3
    <3>2. pop_all(H, more)
            = [top |-> H.top - Len(more), slot |-> cleared(Len(more)), st |-> "ok"]
      BY <3>1, Zenon DEF pop_all
    <3>3. cleared(Len(hd) + 1) = [cleared(Len(hd)) EXCEPT ![handle] = NULL]
      <4>1. H.top \in Nat /\ HandleFrameSize \in Nat /\ Len(hd) \in Nat
        BY <1>1, HandleFrameSizeAssumption
      <4>2. \A i \in 0..HandleFrameSize :
              cleared(Len(hd) + 1)[i] = [cleared(Len(hd)) EXCEPT ![handle] = NULL][i]
        BY <4>1, <2>3
      <4> QED BY <4>2
    <3> HIDE DEF cleared, more
    <3>4. pop_all(H, more)
            = [top |-> H.top - (Len(hd) + 1), slot |-> cleared(Len(hd) + 1), st |-> "ok"]
      BY <1>2, <3>2
    <3> DEFINE P == pop_all(H, hd)
    <3>5. P.st = "ok" /\ P.top = handle /\ P.slot = cleared(Len(hd))
      BY <2>1, <2>3
    <3>6. handle_pop(P, handle)
            = [top |-> P.top - 1, slot |-> [P.slot EXCEPT ![handle] = NULL], st |-> "ok"]
      <4> HIDE DEF P
      <4> QED BY <3>5, Zenon DEF handle_pop
    <3>7. P.top - 1 = H.top - (Len(hd) + 1)
      BY <1>1, <2>3, <3>5
    <3>8. handle_pop(P, handle) = pop_all(H, more)
      <4> HIDE DEF P
      <4> QED BY <3>3, <3>4, <3>5, <3>6, <3>7
    <3> QED BY <1>3, <3>8 DEF Agree, more
  <2> QED BY <2>2, <2>3
<1> QED BY <1>4, <1>5

-----------------------------------------------------------------------------
(***************************************************************************)
(* The inductive invariant.  Its parts speak of the first N frames of a    *)
(* sequence fs, so that they can be used of a stack halfway through a      *)
(* step.                                                                   *)
(***************************************************************************)
Drivers == BootPcs \cup ReplPcs

(* How many handles a function holds where it is suspended.  evargs holds  *)
(* as many as it found arguments.                                          *)
HoldsOne == {"run_in_thread", "run_in_thread:form", "evaluate:head",
             "evaluate:args", "invoke:body", "set:first", "cons:car",
             "cons:cdr", "if:pred", "define:value"}
HoldsTwo == {"list:first", "set:second"}
HoldsThree == {"list:next"}

HeldCount(pc, n) ==
  /\ pc \in HoldsOne => n = 1
  /\ pc \in HoldsTwo => n = 2
  /\ pc \in HoldsThree => n = 3
  /\ pc \notin HoldsOne \cup HoldsTwo \cup HoldsThree \cup {"evargs:item"} => n = 0

(* A frame at position i: only the first is a driver's; the local mark of  *)
(* run_in_thread is the handle it holds; a function that evaluates parts   *)
(* of its text has text with parts.                                        *)
FrameOK(f, i) ==
  /\ f \in FrameType
  /\ f.pc \in Drivers <=> i = 1
  /\ f.pc \in ReplPcs => f.n = 1
  /\ f.pc \notin Drivers \cup {"evaluate"} => f.nest > 0
  /\ HeldCount(f.pc, Len(f.h))

FramesOK(fs, N) == \A i \in 1..N : FrameOK(fs[i], i)

(* The handle locals of the frames are the handles of the stack, frame by  *)
(* frame from the bottom to the top.                                       *)
Edge(f) == f.base + Len(f.h)

Holds(f, i, H) ==
  /\ f.h \in Seq(Nat) /\ f.base \in Nat
  /\ \A k \in 1..Len(f.h) : f.h[k] = f.base + k /\ H.slot[f.base + k] = i

Owned(fs, N, H, s) ==
  /\ H.slot[s] \in 1..N
  /\ fs[H.slot[s]].base < s
  /\ s <= Edge(fs[H.slot[s]])

Tidy(fs, N, H) ==
  /\ fs[1].base = 0
  /\ H.top = Edge(fs[N])
  /\ \A i \in 1..N : Holds(fs[i], i, H)
  /\ \A i \in 1..(N - 1) : fs[i + 1].base = Edge(fs[i])
  /\ \A i, j \in 1..N : i < j => Edge(fs[i]) <= fs[j].base
  /\ \A s \in 1..H.top : Owned(fs, N, H, s)

(* eval_stack points to the last frame of evaluate, and so does next to    *)
(* the one before.                                                         *)
IsEval(f) == f.pc \in EvalPcs

LastEval(fs, j, i) ==
  /\ j < i /\ IsEval(fs[j])
  /\ \A k \in (j + 1)..(i - 1) : ~IsEval(fs[k])

Linked(fs, N, es) ==
  /\ \A j \in 1..N : LastEval(fs, j, N + 1) => es = j
  /\ \A i, j \in 1..N : IsEval(fs[i]) /\ LastEval(fs, j, i) => fs[i].next = j

EvalSet(fs, N) == {i \in 1..N : IsEval(fs[i])}

Config(fs, N, H, lv, es) ==
  /\ N \in Nat \ {0}
  /\ FramesOK(fs, N)
  /\ Tidy(fs, N, H)
  /\ Linked(fs, N, es)
  /\ lv = Cardinality(EvalSet(fs, N))

Inv ==
  /\ TypeOK
  /\ vm # "assertion failed"
  /\ vm \in {"running", "printing"} =>
       hs.st = "ok" /\ Config(stack, Len(stack), hs, level, evalStack)

(***************************************************************************)
(* The handles of the frames.                                              *)
(***************************************************************************)
LEMMA EdgeProperties ==
  ASSUME NEW fs, NEW N, NEW H, Tidy(fs, N, H), NEW i \in 1..N
  PROVE  /\ Len(fs[i].h) \in Nat /\ Edge(fs[i]) = fs[i].base + Len(fs[i].h)
         /\ Edge(fs[i]) \in Nat /\ fs[i].base \in Nat
         /\ fs[i].base <= Edge(fs[i])
<1>1. fs[i].h \in Seq(Nat) /\ fs[i].base \in Nat
  BY DEF Tidy, Holds
<1>2. Len(fs[i].h) \in Nat
  BY <1>1
<1> QED BY <1>1, <1>2 DEF Edge

(* A function that has been called holds nothing.                          *)
LEMMA TidyCall ==
  ASSUME NEW fs, NEW gs, NEW N \in Nat \ {0}, NEW H, H.top \in Nat, Tidy(fs, N, H),
         \A i \in 1..N : gs[i].h = fs[i].h /\ gs[i].base = fs[i].base,
         gs[N + 1].h = <<>>, gs[N + 1].base = H.top
  PROVE  Tidy(gs, N + 1, H)
<1>1. ASSUME NEW i \in 1..N
      PROVE  /\ Edge(gs[i]) = Edge(fs[i]) /\ Edge(fs[i]) \in Nat
             /\ fs[i].base \in Nat /\ gs[i].base = fs[i].base
  BY EdgeProperties DEF Edge
<1>2. Edge(gs[N + 1]) = H.top
  BY DEF Edge
<1>3. gs[1].base = 0
  BY DEF Tidy
<1>4. \A i \in 1..N : Edge(fs[i]) <= H.top
  <2>1. ASSUME NEW i \in 1..N
        PROVE  Edge(fs[i]) <= H.top
    <3>1. CASE i = N
      BY <3>1, <1>1 DEF Tidy
    <3>2. CASE i < N
      <4>1. Edge(fs[i]) <= fs[N].base /\ fs[N].base <= Edge(fs[N])
        BY <3>2, <1>1 DEF Tidy, Edge, Holds
      <4> QED BY <4>1, <1>1 DEF Tidy
    <3> QED BY <3>1, <3>2
  <2> QED BY <2>1
<1>5. \A i \in 1..(N + 1) : Holds(gs[i], i, H)
  <2>1. ASSUME NEW i \in 1..N
        PROVE  Holds(gs[i], i, H)
    <3>1. Holds(fs[i], i, H) /\ gs[i].h = fs[i].h /\ gs[i].base = fs[i].base
      BY DEF Tidy
    <3> QED BY <3>1 DEF Holds
  <2>2. Holds(gs[N + 1], N + 1, H)
    BY DEF Holds
  <2> QED BY <2>1, <2>2
<1>6. \A i \in 1..N : gs[i + 1].base = Edge(gs[i])
  BY <1>1, <1>2 DEF Tidy
<1>7. ASSUME NEW i \in 1..(N + 1), NEW j \in 1..(N + 1), i < j
      PROVE  Edge(gs[i]) <= gs[j].base
  <2>1. CASE j = N + 1
    BY <1>1, <1>4, <1>7, <2>1
  <2>2. CASE j <= N
    <3>1. i \in 1..N /\ j \in 1..N
      BY <1>7, <2>2
    <3>2. Edge(fs[i]) <= fs[j].base
      BY <1>7, <3>1 DEF Tidy
    <3> QED BY <1>1, <3>1, <3>2
  <2> QED BY <2>1, <2>2
<1>8. ASSUME NEW s \in 1..H.top
      PROVE  Owned(gs, N + 1, H, s)
  <2>1. Owned(fs, N, H, s)
    BY DEF Tidy
  <2>2. H.slot[s] \in 1..N
    BY <2>1 DEF Owned
  <2> QED BY <1>1, <2>1, <2>2 DEF Owned
<1> QED BY <1>2, <1>3, <1>5, <1>6, <1>7, <1>8 DEF Tidy

(* A function that holds nothing can return.                               *)
LEMMA TidyReturn ==
  ASSUME NEW fs, NEW gs, NEW N \in Nat \ {0}, N > 1, NEW H, H.top \in Nat, Tidy(fs, N, H),
         Len(fs[N].h) = 0, \A i \in 1..(N - 1) : gs[i] = fs[i]
  PROVE  Tidy(gs, N - 1, H)
<1>1. \A i \in 1..N : Edge(fs[i]) \in Nat /\ fs[i].base \in Nat
  BY DEF Tidy, Holds, Edge
<1>2. H.top = fs[N].base /\ fs[N].base = Edge(fs[N - 1])
  <2>1. N - 1 \in 1..(N - 1) /\ (N - 1) + 1 = N
    OBVIOUS
  <2> QED BY <2>1, <1>1 DEF Tidy, Edge
<1>3. ASSUME NEW s \in 1..H.top
      PROVE  Owned(gs, N - 1, H, s)
  <2>1. Owned(fs, N, H, s)
    BY DEF Tidy
  <2>2. H.slot[s] # N
    BY <2>1, <1>1, <1>2 DEF Owned, Edge, Tidy
  <2> QED BY <2>1, <2>2 DEF Owned
<1>4. gs[1].base = 0 /\ H.top = Edge(gs[N - 1])
  BY <1>2 DEF Tidy
<1>5. \A i \in 1..(N - 1) : Holds(gs[i], i, H)
  BY DEF Tidy
<1>6. \A i \in 1..(N - 1 - 1) : gs[i + 1].base = Edge(gs[i])
  BY DEF Tidy
<1>7. \A i, j \in 1..(N - 1) : i < j => Edge(gs[i]) <= gs[j].base
  BY DEF Tidy
<1> QED BY <1>3, <1>4, <1>5, <1>6, <1>7 DEF Tidy

(* Above the first frame everything can be given up at once.               *)
LEMMA TidyUnwind ==
  ASSUME NEW fs, NEW gs, NEW N \in Nat \ {0}, NEW H \in HandleStacks, H.st = "ok",
         Tidy(fs, N, H), Len(fs[1].h) = 1,
         gs[1].h = fs[1].h, gs[1].base = fs[1].base
  PROVE  1 <= H.top /\ Tidy(gs, 1, pop_to_mark(H, 1))
<1> DEFINE U == pop_to_mark(H, 1)
<1>1. 1 <= H.top
  <2>1. H.top \in Nat
    BY HandleFrameSizeAssumption DEF HandleStacks
  <2>2. Edge(fs[1]) = 1
    BY DEF Tidy, Edge
  <2>3. CASE N = 1
    BY <2>2, <2>3 DEF Tidy
  <2>4. CASE N > 1
    <3>1. 1 \in 1..N /\ N \in 1..N
      OBVIOUS
    <3>2. Edge(fs[1]) <= fs[N].base /\ H.top = Edge(fs[N])
      BY <3>1, <2>4 DEF Tidy
    <3> QED BY <3>1, <3>2, <2>2, EdgeProperties
  <2> QED BY <2>3, <2>4
<1>2. U.top = 1 /\ U.slot[1] = H.slot[1]
  BY <1>1, UnwindProperties
<1> HIDE DEF U
<1>3. Holds(fs[1], 1, H) /\ fs[1].base = 0
  BY DEF Tidy
<1>4. Holds(gs[1], 1, U)
  BY <1>2, <1>3 DEF Holds
<1>5. Edge(gs[1]) = 1 /\ gs[1].base = 0
  BY <1>3 DEF Edge
<1>6. Owned(gs, 1, U, 1)
  BY <1>2, <1>3, <1>5 DEF Owned, Holds
<1>7. Tidy(gs, 1, U)
  BY <1>2, <1>4, <1>5, <1>6 DEF Tidy
<1> QED BY <1>1, <1>7 DEF U

(* The topmost function can push and pop above its base.                   *)
LEMMA TidyTop ==
  ASSUME NEW fs, NEW gs, NEW N \in Nat \ {0}, NEW H, NEW G, Tidy(fs, N, H),
         \A i \in 1..(N - 1) : gs[i] = fs[i],
         gs[N].base = fs[N].base, gs[N].h \in Seq(Nat),
         \A k \in 1..Len(gs[N].h) :
           gs[N].h[k] = fs[N].base + k /\ G.slot[fs[N].base + k] = N,
         G.top = fs[N].base + Len(gs[N].h),
         \A s \in 1..fs[N].base : G.slot[s] = H.slot[s]
  PROVE  Tidy(gs, N, G)
<1> DEFINE b == fs[N].base
           l == Len(gs[N].h)
<1>1. b \in Nat /\ l \in Nat /\ H.top \in Nat /\ b <= H.top
  <2>1. N \in 1..N /\ H.top = Edge(fs[N])
    BY DEF Tidy
  <2>2. Edge(fs[N]) \in Nat /\ fs[N].base \in Nat /\ fs[N].base <= Edge(fs[N])
    BY <2>1, EdgeProperties
  <2> QED BY <2>1, <2>2
<1>2. \A i \in 1..N : /\ fs[i].base \in Nat /\ Edge(fs[i]) \in Nat
                      /\ Len(fs[i].h) \in Nat
                      /\ Edge(fs[i]) = fs[i].base + Len(fs[i].h)
                      /\ gs[i].base = fs[i].base
  BY EdgeProperties
<1>3. \A i \in 1..(N - 1) : gs[i] = fs[i] /\ Edge(fs[i]) <= b
  BY DEF Tidy
<1>4. Edge(gs[N]) = b + l /\ G.top = b + l
  BY DEF Edge
<1> HIDE DEF b, l
<1>5. ASSUME NEW i \in 1..N
      PROVE  Holds(gs[i], i, G)
  <2>1. CASE i = N
    BY <2>1, <1>1, <1>2 DEF Holds, b, l
  <2>2. CASE i # N
    <3>1. i \in 1..(N - 1) /\ Holds(fs[i], i, H) /\ gs[i] = fs[i]
      BY <1>3, <2>2 DEF Tidy
    <3>2. ASSUME NEW k \in 1..Len(fs[i].h)
          PROVE  fs[i].base + k \in 1..b
      <4> DEFINE c == fs[i].base
                 m == Len(fs[i].h)
      <4>1. c \in Nat /\ m \in Nat /\ c + m <= b /\ k \in 1..m
        BY <1>2, <1>3, <3>1
      <4> HIDE DEF c, m
      <4>2. c + k \in 1..b
        BY <1>1, <4>1
      <4> QED BY <4>2 DEF c
    <3> QED BY <3>1, <3>2 DEF Holds, b
  <2> QED BY <2>1, <2>2
<1>6. ASSUME NEW s \in 1..G.top
      PROVE  Owned(gs, N, G, s)
  <2>1. CASE s <= b
    <3>1. s \in 1..H.top /\ G.slot[s] = H.slot[s] /\ s \in Nat
      BY <1>1, <1>4, <2>1 DEF b
    <3>2. Owned(fs, N, H, s)
      BY <3>1 DEF Tidy
    <3>3. H.slot[s] # N
      BY <1>1, <2>1, <3>1, <3>2 DEF Owned, b
    <3> QED BY <1>3, <3>1, <3>2, <3>3 DEF Owned
  <2>2. CASE s > b
    <3>1. s - b \in 1..l /\ s = b + (s - b)
      BY <1>1, <1>4, <2>2
    <3>2. G.slot[b + (s - b)] = N
      BY <3>1 DEF b, l
    <3>3. G.slot[s] = N /\ gs[N].base < s /\ s <= Edge(gs[N])
      BY <1>1, <1>2, <1>4, <2>2, <3>1, <3>2 DEF b
    <3> QED BY <3>3 DEF Owned
  <2> QED BY <1>1, <1>4, <2>1, <2>2
<1>7. gs[1].base = 0
  BY <1>2 DEF Tidy
<1>8. ASSUME NEW i \in 1..(N - 1)
      PROVE  gs[i + 1].base = Edge(gs[i])
  BY <1>2, <1>3 DEF Tidy
<1>9. ASSUME NEW i \in 1..N, NEW j \in 1..N, i < j
      PROVE  Edge(gs[i]) <= gs[j].base
  <2>1. i \in 1..(N - 1) /\ Edge(fs[i]) <= fs[j].base
    BY <1>9 DEF Tidy
  <2> QED BY <1>2, <1>3, <2>1
<1> QED BY <1>4, <1>5, <1>6, <1>7, <1>8, <1>9 DEF Tidy

(***************************************************************************)
(* The topmost frame and the handle stack in the course of a step.         *)
(***************************************************************************)
(* x stands for a topmost frame that differs from Top in its handle locals *)
(* only; when the block was full nothing more is known of them.            *)
Frames(x) == [stack EXCEPT ![Len(stack)] = x.f]

Good(x) ==
  /\ x.f \in FrameType
  /\ x.f = [Top EXCEPT !.h = x.f.h]
  /\ x.hs \in HandleStacks
  /\ x.hs.st # "assert"
  /\ x.hs.st = "ok" => Tidy(Frames(x), Len(stack), x.hs)

LEMMA FramesProperties ==
  ASSUME Inv, vm = "running", NEW x
  PROVE  /\ Len(stack) \in Nat \ {0}
         /\ Frames(x)[Len(stack)] = x.f
         /\ \A i \in 1..(Len(stack) - 1) : Frames(x)[i] = stack[i]
  BY DEF Inv, TypeOK, Config, Frames

(* The handle stack of the step holds what its frame says it holds.        *)
LEMMA GoodTop ==
  ASSUME Inv, vm = "running", NEW x, Good(x), x.hs.st = "ok"
  PROVE  /\ x.f.base \in Nat /\ x.f.h \in Seq(Nat) /\ Len(x.f.h) \in Nat
         /\ x.hs.top = x.f.base + Len(x.f.h)
         /\ \A k \in 1..Len(x.f.h) : x.f.h[k] = x.f.base + k
<1> DEFINE N == Len(stack)
<1>1. N \in Nat \ {0} /\ Frames(x)[N] = x.f
  BY FramesProperties
<1>2. Holds(x.f, N, x.hs) /\ x.hs.top = Edge(x.f)
  BY <1>1 DEF Good, Tidy
<1> QED BY <1>2 DEF Holds, Edge

LEMMA CurGood ==
  ASSUME Inv, vm = "running"
  PROVE  Good(Cur) /\ Cur.f = Top /\ Top \in FrameType /\ FrameOK(Top, Len(stack))
<1>1. Len(stack) \in Nat \ {0} /\ stack \in Seq(FrameType) /\ hs \in HandleStacks
      /\ hs.st = "ok" /\ Tidy(stack, Len(stack), hs) /\ FramesOK(stack, Len(stack))
  BY DEF Inv, TypeOK, Config
<1>2. Top \in FrameType /\ FrameOK(Top, Len(stack))
  BY <1>1 DEF Top, FramesOK
<1>3. Top = [Top EXCEPT !.h = Top.h]
  BY <1>2 DEF FrameType
<1>4. Frames(Cur) = stack
  BY <1>1 DEF Frames, Cur, Top
<1> QED BY <1>1, <1>2, <1>3, <1>4 DEF Good, Cur

LEMMA PushGood ==
  ASSUME Inv, vm = "running", NEW x, Good(x), NEW n \in Nat
  PROVE  /\ Good(push(x, n))
         /\ Len(push(x, n).f.h) = Len(x.f.h) + n
<1> DEFINE N == Len(stack)
           y == push(x, n)
           new == [k \in 1..n |-> x.hs.top + k]
           fs == Frames(x)
           gs == Frames(y)
<1>1. N \in Nat \ {0} /\ N \in Int
  BY FramesProperties
<1>2. /\ fs[N] = x.f /\ gs[N] = y.f
      /\ \A i \in 1..(N - 1) : fs[i] = stack[i] /\ gs[i] = stack[i]
  BY FramesProperties
<1>3. x.f \in FrameType /\ x.hs \in HandleStacks /\ x.hs.st # "assert"
      /\ x.hs.top \in Nat /\ x.f.h \in Seq(Nat)
  BY HandleFrameSizeAssumption DEF Good, HandleStacks, FrameType
<1>4. new \in Seq(Nat) /\ Len(new) = n /\ \A k \in 1..n : new[k] = x.hs.top + k
  BY <1>3
<1>5. y.f = [x.f EXCEPT !.h = x.f.h \o new] /\ y.hs = push_n(x.hs, N, n)
  BY DEF push
<1>6. /\ y.hs \in HandleStacks
      /\ y.hs.st \in {"ok", "full"}
      /\ y.hs.st = "ok" =>
           /\ x.hs.st = "ok"
           /\ y.hs.top = x.hs.top + n
           /\ \A s \in 1..x.hs.top : y.hs.slot[s] = x.hs.slot[s]
           /\ \A s \in (x.hs.top + 1)..(x.hs.top + n) : y.hs.slot[s] = N
  <2> DEFINE H == x.hs
  <2>1. H \in HandleStacks /\ H.st # "assert"
    BY <1>3
  <2> HIDE DEF H, N, y
  <2>2. /\ push_n(H, N, n) \in HandleStacks
        /\ push_n(H, N, n).st \in {"ok", "full"}
        /\ push_n(H, N, n).st = "ok" =>
             /\ H.st = "ok"
             /\ push_n(H, N, n).top = H.top + n
             /\ \A s \in 1..H.top : push_n(H, N, n).slot[s] = H.slot[s]
             /\ \A s \in (H.top + 1)..(H.top + n) : push_n(H, N, n).slot[s] = N
    BY <1>1, <2>1, PushProperties
  <2>3. y.hs = push_n(H, N, n)
    BY <1>5 DEF H
  <2> QED BY <2>2, <2>3 DEF H
<1>7. /\ x.f.h \o new \in Seq(Nat)
      /\ Len(x.f.h \o new) = Len(x.f.h) + n
      /\ \A k \in 1..(Len(x.f.h) + n) :
           (x.f.h \o new)[k] = IF k <= Len(x.f.h) THEN x.f.h[k] ELSE new[k - Len(x.f.h)]
  BY <1>3, <1>4, ConcatProperties
<1> HIDE DEF new
<1>8. /\ y.f \in FrameType /\ y.f.h = x.f.h \o new /\ y.f.base = x.f.base
      /\ y.f = [Top EXCEPT !.h = y.f.h]
  BY <1>3, <1>5, <1>7 DEF FrameType, Good
<1> HIDE DEF N, y, fs, gs
<1>9. ASSUME y.hs.st = "ok"
      PROVE  Tidy(gs, N, y.hs)
  <2>1. x.hs.st = "ok" /\ Tidy(fs, N, x.hs)
    BY <1>6, <1>9 DEF Good, N, fs
  <2>4. /\ x.f.base \in Nat /\ Len(x.f.h) \in Nat
        /\ x.hs.top = x.f.base + Len(x.f.h)
        /\ Holds(x.f, N, x.hs)
        /\ y.hs.top = x.hs.top + n
    <3>1. N \in 1..N /\ fs[N] = x.f
      BY <1>1, <1>2
    <3>2. Holds(x.f, N, x.hs) /\ x.hs.top = Edge(x.f)
      BY <2>1, <3>1 DEF Tidy
    <3>3. x.f.base \in Nat /\ Len(x.f.h) \in Nat
      BY <3>2 DEF Holds
    <3> QED BY <1>6, <1>9, <3>2, <3>3 DEF Edge
  <2>5. y.hs.top = x.f.base + Len(y.f.h)
    BY <1>7, <1>8, <2>4
  <2>6. ASSUME NEW k \in 1..Len(y.f.h)
        PROVE  y.f.h[k] = y.f.base + k /\ y.hs.slot[y.f.base + k] = N
    <3>1. CASE k <= Len(x.f.h)
      <4>1. k \in 1..Len(x.f.h) /\ y.f.h[k] = x.f.h[k]
        BY <1>7, <1>8, <2>4, <3>1
      <4>2. x.f.base + k \in 1..x.hs.top
        BY <2>4, <4>1
      <4> QED BY <1>6, <1>8, <1>9, <2>4, <4>1, <4>2 DEF Holds
    <3>2. CASE k > Len(x.f.h)
      <4>0. k \in 1..(Len(x.f.h) + n) /\ Len(x.f.h) \in Nat /\ ~(k <= Len(x.f.h))
        BY <1>7, <1>8, <2>4, <3>2
      <4>1. k - Len(x.f.h) \in 1..n
        BY <4>0
      <4>2. y.f.h[k] = new[k - Len(x.f.h)]
        BY <1>7, <1>8, <4>0
      <4>3. y.f.h[k] = x.hs.top + (k - Len(x.f.h))
        BY <1>4, <4>1, <4>2
      <4>4. x.f.base + k = x.hs.top + (k - Len(x.f.h))
        BY <2>4, <4>0
      <4>5. x.f.base + k \in (x.hs.top + 1)..(x.hs.top + n)
        <5> DEFINE t == x.hs.top
                   m == k - Len(x.f.h)
        <5>1. t \in Nat /\ m \in 1..n
          BY <1>3, <4>1
        <5> HIDE DEF t, m
        <5>2. t + m \in (t + 1)..(t + n)
          BY <5>1
        <5> QED BY <4>4, <5>2 DEF t, m
      <4>6. y.hs.slot[x.f.base + k] = N
        BY <1>6, <1>9, <4>5
      <4> QED BY <1>8, <4>3, <4>4, <4>6
    <3> QED BY <3>1, <3>2, <2>4
  <2>7. \A s \in 1..x.f.base : y.hs.slot[s] = x.hs.slot[s]
    BY <1>3, <1>6, <1>9, <2>4
  <2>8. \A i \in 1..(N - 1) : gs[i] = fs[i]
    BY <1>2
  <2>9. y.f.h \in Seq(Nat)
    BY <1>7, <1>8
  <2>10. /\ gs[N].base = fs[N].base /\ gs[N].h \in Seq(Nat)
         /\ \A k \in 1..Len(gs[N].h) :
              gs[N].h[k] = fs[N].base + k /\ y.hs.slot[fs[N].base + k] = N
         /\ y.hs.top = fs[N].base + Len(gs[N].h)
         /\ \A s \in 1..fs[N].base : y.hs.slot[s] = x.hs.slot[s]
    BY <1>2, <1>8, <2>5, <2>6, <2>7, <2>9
  <2> QED BY <1>1, <2>1, <2>8, <2>10, TidyTop
<1> QED BY <1>6, <1>7, <1>8, <1>9 DEF Good, y, gs, N

LEMMA PopGood ==
  ASSUME Inv, vm = "running", NEW x, Good(x), NEW order \in Seq(Nat),
         Len(order) <= Len(x.f.h),
         \A k \in 1..Len(order) : order[k] = Len(x.f.h) + 1 - k
  PROVE  /\ Good(pop(x, order))
         /\ Len(pop(x, order).f.h) = Len(x.f.h) - Len(order)
<1> DEFINE N == Len(stack)
           m == Len(order)
           l == Len(x.f.h)
           y == pop(x, order)
           handles == [k \in 1..m |-> x.f.h[order[k]]]
           fs == Frames(x)
           gs == Frames(y)
<1>1. N \in Nat \ {0} /\ N \in Int
  BY FramesProperties
<1>2. /\ fs[N] = x.f /\ gs[N] = y.f
      /\ \A i \in 1..(N - 1) : fs[i] = stack[i] /\ gs[i] = stack[i]
  BY FramesProperties
<1>3. x.f \in FrameType /\ x.hs \in HandleStacks /\ x.hs.st # "assert"
      /\ x.hs.top \in Nat /\ x.f.h \in Seq(Nat) /\ l \in Nat /\ m \in Nat /\ m <= l
  BY HandleFrameSizeAssumption DEF Good, HandleStacks, FrameType
<1>4. \A k \in 1..m : order[k] \in 1..l /\ order[k] = l + 1 - k
  <2>1. \A k \in 1..m : order[k] = l + 1 - k
    OBVIOUS
  <2> HIDE DEF l, m
  <2>2. \A k \in 1..m : l + 1 - k \in 1..l
    BY <1>3
  <2> QED BY <2>1, <2>2
<1>5. handles \in Seq(Nat) /\ Len(handles) = m /\ \A k \in 1..m : handles[k] = x.f.h[order[k]]
  <2>1. \A k \in 1..m : x.f.h[order[k]] \in Nat
    <3>1. \A i \in 1..l : x.f.h[i] \in Nat
      BY <1>3
    <3> HIDE DEF l, m
    <3> QED BY <3>1, <1>4
  <2> HIDE DEF m
  <2> QED BY <1>3, <2>1
<1>6. y.f = [x.f EXCEPT !.h = SubSeq(x.f.h, 1, l - m)] /\ y.hs = pop_all(x.hs, handles)
  BY DEF pop
<1>7. /\ SubSeq(x.f.h, 1, l - m) \in Seq(Nat)
      /\ Len(SubSeq(x.f.h, 1, l - m)) = l - m
      /\ \A k \in 1..(l - m) : SubSeq(x.f.h, 1, l - m)[k] = x.f.h[k]
  <2> DEFINE h == x.f.h
             n == l - m
  <2>1. h \in Seq(Nat) /\ n \in 0..Len(h)
    BY <1>3
  <2> HIDE DEF h, n
  <2>2. SubSeq(h, 1, n) \in Seq(Nat) /\ Len(SubSeq(h, 1, n)) = n
        /\ \A k \in 1..n : SubSeq(h, 1, n)[k] = h[k]
    BY <2>1
  <2> QED BY <2>2 DEF h, n
<1> HIDE DEF handles
<1>8. /\ y.f \in FrameType /\ y.f.h = SubSeq(x.f.h, 1, l - m) /\ y.f.base = x.f.base
      /\ y.f = [Top EXCEPT !.h = y.f.h]
  BY <1>3, <1>6, <1>7 DEF FrameType, Good
<1> HIDE DEF N, m, l, y, fs, gs
<1>9. x.hs.st = "ok" =>
        /\ Tidy(fs, N, x.hs) /\ x.f.base \in Nat
        /\ x.hs.top = x.f.base + l
        /\ \A k \in 1..l : x.f.h[k] = x.f.base + k /\ x.hs.slot[x.f.base + k] = N
  <2> HAVE x.hs.st = "ok"
  <2>1. Tidy(fs, N, x.hs)
    BY DEF Good, N, fs
  <2>2. Holds(x.f, N, x.hs) /\ x.hs.top = Edge(x.f)
    BY <1>1, <1>2, <2>1 DEF Tidy
  <2> QED BY <2>1, <2>2 DEF Holds, Edge, l
<1>10. x.hs.st = "ok" => /\ m <= x.hs.top
                         /\ \A k \in 1..m : handles[k] = x.hs.top + 1 - k
  <2> HAVE x.hs.st = "ok"
  <2>1. x.f.base \in Nat /\ x.hs.top = x.f.base + l
        /\ \A k \in 1..l : x.f.h[k] = x.f.base + k
    BY <1>9
  <2>2. m <= x.hs.top
    BY <1>3, <2>1
  <2>3. ASSUME NEW k \in 1..m
        PROVE  handles[k] = x.hs.top + 1 - k
    <3>1. handles[k] = x.f.h[order[k]] /\ order[k] \in 1..l /\ order[k] = l + 1 - k
      BY <1>4, <1>5
    <3>2. handles[k] = x.f.base + order[k]
      BY <2>1, <3>1
    <3> QED BY <1>3, <2>1, <3>1, <3>2
  <2> QED BY <2>2, <2>3
<1>11. /\ y.hs \in HandleStacks /\ y.hs.st = x.hs.st
       /\ x.hs.st = "ok" =>
            /\ y.hs.top = x.hs.top - m
            /\ \A s \in 1..(x.hs.top - m) : y.hs.slot[s] = x.hs.slot[s]
  <2> DEFINE H == x.hs
  <2>1. H \in HandleStacks /\ H.st # "assert"
        /\ (H.st = "ok" => /\ Len(handles) <= H.top
                           /\ \A k \in 1..Len(handles) : handles[k] = H.top + 1 - k)
    BY <1>3, <1>5, <1>10
  <2> HIDE DEF H
  <2>2. /\ pop_all(H, handles) \in HandleStacks
        /\ pop_all(H, handles).st = H.st
        /\ H.st = "ok" =>
             /\ pop_all(H, handles).top = H.top - Len(handles)
             /\ \A s \in 1..(H.top - Len(handles)) : pop_all(H, handles).slot[s] = H.slot[s]
    BY <1>5, <2>1, PopProperties
  <2>3. y.hs = pop_all(H, handles)
    BY <1>6 DEF H
  <2> QED BY <1>5, <2>2, <2>3 DEF H
<1>12. ASSUME y.hs.st = "ok"
       PROVE  Tidy(gs, N, y.hs)
  <2>1. x.hs.st = "ok"
    BY <1>11, <1>12
  <2>2. Len(y.f.h) = l - m /\ y.f.h \in Seq(Nat) /\ y.hs.top = x.f.base + (l - m)
    <3>1. x.f.base \in Nat /\ x.hs.top = x.f.base + l /\ y.hs.top = x.hs.top - m
      BY <1>9, <1>11, <2>1
    <3>2. y.hs.top = x.f.base + (l - m)
      BY <1>3, <3>1
    <3> QED BY <1>7, <1>8, <3>2
  <2>3. ASSUME NEW k \in 1..Len(y.f.h)
        PROVE  y.f.h[k] = x.f.base + k /\ y.hs.slot[x.f.base + k] = N
    <3>1. k \in 1..l /\ k \in 1..(l - m)
      BY <1>3, <2>2
    <3>2. x.f.base + k \in 1..(x.hs.top - m)
      <4>1. x.f.base \in Nat /\ x.hs.top = x.f.base + l
        BY <1>9, <2>1
      <4> QED BY <1>3, <3>1, <4>1
    <3> QED BY <1>7, <1>8, <1>9, <1>11, <2>1, <3>1, <3>2
  <2>4. \A s \in 1..x.f.base : y.hs.slot[s] = x.hs.slot[s]
    BY <1>3, <1>9, <1>11, <2>1
  <2>5. \A i \in 1..(N - 1) : gs[i] = fs[i]
    BY <1>2
  <2>6. Tidy(fs, N, x.hs)
    BY <1>9, <2>1
  <2>7. y.hs.top = x.f.base + Len(y.f.h)
    BY <2>2
  <2>8. /\ gs[N].base = fs[N].base /\ gs[N].h \in Seq(Nat)
        /\ \A k \in 1..Len(gs[N].h) :
             gs[N].h[k] = fs[N].base + k /\ y.hs.slot[fs[N].base + k] = N
        /\ y.hs.top = fs[N].base + Len(gs[N].h)
        /\ \A s \in 1..fs[N].base : y.hs.slot[s] = x.hs.slot[s]
    BY <1>2, <1>8, <2>2, <2>3, <2>4, <2>7
  <2> QED BY <1>1, <2>5, <2>6, <2>8, TidyTop
<1> QED BY <1>7, <1>8, <1>11, <1>12, <1>3 DEF Good, y, gs, N, l, m

(* The reader leaves the handles as it found them.                         *)
LEMMA ReadInternGood ==
  ASSUME Inv, vm = "running", NEW held \in Nat
  PROVE  Good(read_intern(Cur, held)) /\ read_intern(Cur, held).f = Top
<1> DEFINE N == Len(stack)
           y == read_intern(Cur, held)
           P == push_n(hs, N + 1, held)
           handles == [k \in 1..held |-> hs.top + held + 1 - k]
<1>1. /\ N \in Nat \ {0} /\ hs \in HandleStacks /\ hs.st = "ok" /\ hs.top \in Nat
      /\ Good(Cur) /\ Top \in FrameType /\ Tidy(stack, N, hs)
  BY CurGood, HandleFrameSizeAssumption DEF Inv, TypeOK, Config, HandleStacks
<1>2. y = [f |-> Top, hs |-> pop_all(P, handles)]
  BY DEF read_intern, Cur
<1>3. /\ P \in HandleStacks
      /\ P.st \in {"ok", "full"}
      /\ P.st = "ok" => /\ P.top = hs.top + held
                        /\ \A s \in 1..hs.top : P.slot[s] = hs.slot[s]
  BY <1>1, PushProperties
<1>4. handles \in Seq(Nat) /\ Len(handles) = held
      /\ \A k \in 1..held : handles[k] = hs.top + held + 1 - k
  BY <1>1
<1> HIDE DEF P, handles, y, N
<1>5. /\ y.hs \in HandleStacks /\ y.hs.st = P.st
      /\ P.st = "ok" => /\ y.hs.top = hs.top
                        /\ \A s \in 1..hs.top : y.hs.slot[s] = hs.slot[s]
  <2>1. P.st = "ok" => /\ Len(handles) <= P.top /\ P.top - Len(handles) = hs.top
                       /\ \A k \in 1..Len(handles) : handles[k] = P.top + 1 - k
    BY <1>1, <1>3, <1>4
  <2>2. /\ pop_all(P, handles) \in HandleStacks
        /\ pop_all(P, handles).st = P.st
        /\ P.st = "ok" =>
             /\ pop_all(P, handles).top = P.top - Len(handles)
             /\ \A s \in 1..(P.top - Len(handles)) :
                  pop_all(P, handles).slot[s] = P.slot[s]
    BY <1>3, <1>4, <2>1, PopProperties
  <2> QED BY <1>2, <1>3, <2>1, <2>2
<1>6. y.f = Top
  BY <1>2
<1>7. ASSUME y.hs.st = "ok"
      PROVE  Tidy(Frames(y), N, y.hs)
  <2>1. Frames(y) = stack
    BY <1>1, <1>6 DEF Frames, Top, Inv, TypeOK, N
  <2>2. /\ Len(stack[N].h) \in Nat /\ stack[N].base \in Nat
        /\ Holds(stack[N], N, hs) /\ hs.top = stack[N].base + Len(stack[N].h)
    <3>1. N \in 1..N
      BY <1>1
    <3>2. Holds(stack[N], N, hs) /\ hs.top = Edge(stack[N])
      BY <1>1, <3>1 DEF Tidy
    <3> QED BY <3>2 DEF Holds, Edge
  <2>3. \A k \in 1..Len(stack[N].h) : stack[N].base + k \in 1..hs.top
    BY <1>1, <2>2
  <2>4. \A k \in 1..Len(stack[N].h) :
          stack[N].h[k] = stack[N].base + k /\ y.hs.slot[stack[N].base + k] = N
    BY <1>3, <1>5, <1>7, <2>2, <2>3 DEF Holds
  <2>5. \A s \in 1..stack[N].base : y.hs.slot[s] = hs.slot[s]
    BY <1>1, <1>3, <1>5, <1>7, <2>2
  <2>6. y.hs.top = stack[N].base + Len(stack[N].h)
    BY <1>3, <1>5, <1>7, <2>2
  <2>7. stack[N].h \in Seq(Nat)
    BY <2>2 DEF Holds
  <2> QED BY <1>1, <2>1, <2>4, <2>5, <2>6, <2>7, TidyTop
<1>8. y.f = [Top EXCEPT !.h = y.f.h]
  BY <1>1, <1>6 DEF FrameType
<1> QED BY <1>1, <1>3, <1>5, <1>6, <1>7, <1>8 DEF Good, N, y

(***************************************************************************)
(* The list of evaluations and their number.                               *)
(***************************************************************************)
LEMMA LinkedCall ==
  ASSUME NEW fs, NEW gs, NEW N \in Nat, NEW es, NEW es2, Linked(fs, N, es),
         \A i \in 1..N : (IsEval(gs[i]) <=> IsEval(fs[i])) /\ gs[i].next = fs[i].next,
         IsEval(gs[N + 1]) => gs[N + 1].next = es /\ es2 = N + 1,
         ~IsEval(gs[N + 1]) => es2 = es
  PROVE  Linked(gs, N + 1, es2)
<1>1. ASSUME NEW i \in 1..(N + 1), NEW j \in 1..N, LastEval(gs, j, i)
      PROVE  LastEval(fs, j, i)
  <2>1. \A k \in (j + 1)..(i - 1) : k \in 1..N
    OBVIOUS
  <2> QED BY <1>1, <2>1 DEF LastEval
<1>2. ASSUME NEW j \in 1..(N + 1), LastEval(gs, j, N + 1 + 1)
      PROVE  es2 = j
  <2>1. CASE IsEval(gs[N + 1])
    <3>1. j = N + 1
      <4>1. SUFFICES ASSUME j # N + 1 PROVE FALSE
        OBVIOUS
      <4>2. N + 1 \in (j + 1)..(N + 1 + 1 - 1)
        BY <4>1
      <4> QED BY <1>2, <2>1, <4>2 DEF LastEval
    <3> QED BY <2>1, <3>1
  <2>2. CASE ~IsEval(gs[N + 1])
    <3>1. j # N + 1
      BY <1>2, <2>2 DEF LastEval
    <3>2. j \in 1..N /\ LastEval(gs, j, N + 1)
      <4>1. j \in 1..N
        BY <3>1
      <4>2. \A k \in (j + 1)..(N + 1 - 1) : k \in (j + 1)..(N + 1 + 1 - 1)
        BY <4>1
      <4> QED BY <1>2, <4>1, <4>2 DEF LastEval
    <3>3. N + 1 \in 1..(N + 1)
      OBVIOUS
    <3>4. LastEval(fs, j, N + 1)
      BY <1>1, <3>2, <3>3
    <3> QED BY <2>2, <3>2, <3>4 DEF Linked
  <2> QED BY <2>1, <2>2
<1>3. ASSUME NEW i \in 1..(N + 1), NEW j \in 1..(N + 1), IsEval(gs[i]), LastEval(gs, j, i)
      PROVE  gs[i].next = j
  <2>1. j \in 1..N
    BY <1>3 DEF LastEval
  <2>2. LastEval(fs, j, i)
    BY <1>1, <1>3, <2>1
  <2>3. CASE i = N + 1
    BY <1>3, <2>1, <2>2, <2>3 DEF Linked
  <2>4. CASE i # N + 1
    <3>1. i \in 1..N
      BY <2>4
    <3> QED BY <1>3, <2>1, <2>2, <3>1 DEF Linked
  <2> QED BY <2>3, <2>4
<1> QED BY <1>2, <1>3 DEF Linked

LEMMA LinkedReturn ==
  ASSUME NEW fs, NEW gs, NEW N \in Nat \ {0}, N > 1, NEW es, NEW es2, Linked(fs, N, es),
         \A i \in 1..(N - 1) : gs[i] = fs[i],
         IsEval(fs[N]) => es2 = fs[N].next,
         ~IsEval(fs[N]) => es2 = es
  PROVE  Linked(gs, N - 1, es2)
<1>1. ASSUME NEW i \in 1..N, NEW j \in 1..(N - 1), LastEval(gs, j, i)
      PROVE  LastEval(fs, j, i)
  <2>1. \A k \in (j + 1)..(i - 1) : k \in 1..(N - 1)
    OBVIOUS
  <2> QED BY <1>1, <2>1 DEF LastEval
<1>2. ASSUME NEW j \in 1..(N - 1), LastEval(gs, j, N - 1 + 1)
      PROVE  es2 = j
  <2>1. LastEval(fs, j, N) /\ j \in 1..N /\ N \in 1..N
    BY <1>1, <1>2
  <2>2. CASE IsEval(fs[N])
    BY <2>1, <2>2 DEF Linked
  <2>3. CASE ~IsEval(fs[N])
    <3>1. LastEval(fs, j, N + 1)
      BY <2>1, <2>3 DEF LastEval
    <3> QED BY <2>1, <2>3, <3>1 DEF Linked
  <2> QED BY <2>2, <2>3
<1>3. ASSUME NEW i \in 1..(N - 1), NEW j \in 1..(N - 1), IsEval(gs[i]), LastEval(gs, j, i)
      PROVE  gs[i].next = j
  <2>1. i \in 1..N /\ j \in 1..N /\ LastEval(fs, j, i) /\ gs[i] = fs[i]
    BY <1>1, <1>3
  <2> QED BY <1>3, <2>1 DEF Linked
<1> QED BY <1>2, <1>3 DEF Linked

LEMMA EvalSetFinite ==
  ASSUME NEW fs, NEW N \in Nat
  PROVE  IsFiniteSet(EvalSet(fs, N)) /\ Cardinality(EvalSet(fs, N)) \in Nat
<1>1. IsFiniteSet(1..N) /\ EvalSet(fs, N) \in SUBSET (1..N)
  BY FS_Interval DEF EvalSet
<1>2. IsFiniteSet(EvalSet(fs, N))
  BY <1>1, FS_Subset
<1> QED BY <1>2, FS_CardinalityType

LEMMA LevelCall ==
  ASSUME NEW fs, NEW gs, NEW N \in Nat,
         \A i \in 1..N : IsEval(gs[i]) <=> IsEval(fs[i])
  PROVE  Cardinality(EvalSet(gs, N + 1))
           = IF IsEval(gs[N + 1]) THEN Cardinality(EvalSet(fs, N)) + 1
             ELSE Cardinality(EvalSet(fs, N))
<1>1. CASE IsEval(gs[N + 1])
  <2>1. EvalSet(gs, N + 1) = EvalSet(fs, N) \cup {N + 1} /\ N + 1 \notin EvalSet(fs, N)
    BY <1>1 DEF EvalSet
  <2> QED BY <1>1, <2>1, EvalSetFinite, FS_AddElement
<1>2. CASE ~IsEval(gs[N + 1])
  <2>1. EvalSet(gs, N + 1) = EvalSet(fs, N)
    <3>1. \A i : i \in EvalSet(gs, N + 1) <=> i \in EvalSet(fs, N)
      BY <1>2 DEF EvalSet
    <3> QED BY <3>1
  <2> QED BY <1>2, <2>1
<1> QED BY <1>1, <1>2

(***************************************************************************)
(* The stack of frames as a sequence.                                      *)
(***************************************************************************)
LEMMA CallersProperties ==
  ASSUME Inv, vm = "running"
  PROVE  /\ Callers \in Seq(FrameType)
         /\ Len(Callers) = Len(stack) - 1
         /\ \A i \in 1..(Len(stack) - 1) : Callers[i] = stack[i]
<1>1. stack \in Seq(FrameType) /\ Len(stack) \in Nat \ {0}
  BY DEF Inv, TypeOK, Config
<1>2. \A i \in 1..(Len(stack) - 1) : stack[i] \in FrameType
  BY <1>1
<1>3. /\ SubSeq(stack, 1, Len(stack) - 1) \in Seq(FrameType)
      /\ Len(SubSeq(stack, 1, Len(stack) - 1)) = Len(stack) - 1
      /\ \A i \in 1..(Len(stack) - 1) : SubSeq(stack, 1, Len(stack) - 1)[i] = stack[i]
  <2> DEFINE n == Len(stack) - 1
  <2>1. n \in Nat /\ n \in Int /\ 1 \in Int /\ \A i \in 1..n : stack[i] \in FrameType
    BY <1>1, <1>2
  <2> HIDE DEF n
  <2>2. /\ SubSeq(stack, 1, n) \in Seq(FrameType)
        /\ Len(SubSeq(stack, 1, n)) = IF 1 <= n THEN n - 1 + 1 ELSE 0
        /\ \A i \in 1..(n - 1 + 1) : SubSeq(stack, 1, n)[i] = stack[1 + i - 1]
    BY <2>1, SubSeqProperties
  <2>3. Len(SubSeq(stack, 1, n)) = n
    BY <2>1, <2>2
  <2>4. \A i \in 1..n : SubSeq(stack, 1, n)[i] = stack[i]
    BY <2>1, <2>2
  <2> QED BY <2>2, <2>3, <2>4 DEF n
<1> QED BY <1>3 DEF Callers

LEMMA CallProperties ==
  ASSUME Inv, vm = "running", NEW s \in FrameType, NEW c \in FrameType
  PROVE  LET new == Append(Append(Callers, s), c) IN
         /\ new \in Seq(FrameType)
         /\ new # <<>>
         /\ Len(new) = Len(stack) + 1
         /\ \A i \in 1..(Len(stack) - 1) : new[i] = stack[i]
         /\ new[Len(stack)] = s
         /\ new[Len(stack) + 1] = c
<1> DEFINE mid == Append(Callers, s)
           new == Append(mid, c)
           N == Len(stack)
<1>1. N \in Nat \ {0}
  BY DEF Inv, Config
<1>2. /\ Callers \in Seq(FrameType) /\ Len(Callers) = N - 1
      /\ \A i \in 1..(N - 1) : Callers[i] = stack[i]
  BY CallersProperties
<1> HIDE DEF N
<1>3. /\ mid \in Seq(FrameType) /\ Len(mid) = N /\ mid[N] = s
      /\ \A i \in 1..(N - 1) : mid[i] = stack[i]
  BY <1>1, <1>2, AppendProperties
<1> HIDE DEF mid
<1>4. /\ new \in Seq(FrameType) /\ new # <<>> /\ Len(new) = N + 1 /\ new[N + 1] = c
      /\ \A i \in 1..N : new[i] = mid[i]
  BY <1>1, <1>3, AppendProperties
<1>5. new[N] = s /\ \A i \in 1..(N - 1) : new[i] = stack[i]
  BY <1>1, <1>3, <1>4
<1> QED BY <1>4, <1>5 DEF mid, N

(***************************************************************************)
(* What the parts of a step preserve.                                      *)
(***************************************************************************)
LEMMA HaltPreserves ==
  ASSUME Inv, NEW reason \in Ends \ {"assertion failed"}, Halt(reason)
  PROVE  Inv'
<1>1. /\ vm' \notin {"running", "printing"} /\ vm' # "assertion failed"
      /\ vm' \in Ends /\ stack' = <<>>
  BY DEF Halt, Ends
<1>2. TypeOK'
  <2>1. stack' \in Seq(FrameType)
    BY <1>1, EmptySeq
  <2>2. /\ (hs \in HandleStacks)' /\ (ret \in Values \cup {NoRet})'
        /\ (level \in Nat)' /\ (evalStack \in Nat)' /\ (added \in Nat)'
    BY DEF Inv, TypeOK, Halt
  <2> QED BY <1>1, <2>1, <2>2 DEF TypeOK
<1> QED BY <1>1, <1>2 DEF Inv

LEMMA DiesPreserves ==
  ASSUME Inv, NEW H, H.st # "assert", Dies(H)
  PROVE  Inv'
BY HaltPreserves DEF Dies, Ends

(* The printer goes round for ever and changes nothing.                    *)
LEMMA PrintsForeverPreserves ==
  ASSUME Inv, vm = "running", PrintsForever
  PROVE  Inv'
<1>1. /\ stack' = stack /\ hs' = hs /\ ret' = ret /\ level' = level
      /\ evalStack' = evalStack /\ added' = added /\ vm' = "printing"
  BY DEF PrintsForever
<1>2. stack # <<>>
  BY DEF Inv, TypeOK, Ends
<1>3. TypeOK'
  BY <1>1, <1>2 DEF Inv, TypeOK, Ends
<1>4. hs.st = "ok" /\ Config(stack, Len(stack), hs, level, evalStack)
  BY DEF Inv
<1>5. hs'.st = "ok" /\ Config(stack', Len(stack'), hs', level', evalStack')
  BY <1>1, <1>4, Zenon
<1> QED BY <1>1, <1>3, <1>5 DEF Inv

(* What Inv says of a process that has not ended.                          *)
LEMMA LiveFacts ==
  ASSUME Inv, stack # <<>>
  PROVE  /\ Len(stack) \in Nat \ {0} /\ stack \in Seq(FrameType)
         /\ hs \in HandleStacks /\ hs.st = "ok" /\ hs.top \in Nat
         /\ level \in Nat /\ evalStack \in Nat /\ added \in Nat
         /\ FramesOK(stack, Len(stack)) /\ Tidy(stack, Len(stack), hs)
         /\ Linked(stack, Len(stack), evalStack)
         /\ level = Cardinality(EvalSet(stack, Len(stack)))
         /\ Top = stack[Len(stack)] /\ FrameOK(Top, Len(stack)) /\ Top \in FrameType
         /\ \A i \in 1..Len(stack) : stack[i] \in FrameType
<1>0. vm \in {"running", "printing"}
  BY DEF Inv, TypeOK
<1>1. Len(stack) \in Nat \ {0} /\ FramesOK(stack, Len(stack)) /\ hs \in HandleStacks
  BY <1>0 DEF Inv, Config, TypeOK
<1>2. FrameOK(Top, Len(stack)) /\ hs.top \in Nat
  BY <1>1, HandleFrameSizeAssumption DEF Top, FramesOK, HandleStacks
<1>3. \A i \in 1..Len(stack) : stack[i] \in FrameType
  BY <1>1 DEF FramesOK, FrameOK
<1> QED BY <1>0, <1>1, <1>2, <1>3 DEF Inv, Config, TypeOK, Top, FrameOK

LEMMA RunningFacts ==
  ASSUME Inv, vm = "running"
  PROVE  /\ Len(stack) \in Nat \ {0} /\ stack \in Seq(FrameType) /\ stack # <<>>
         /\ hs \in HandleStacks /\ hs.st = "ok" /\ hs.top \in Nat
         /\ level \in Nat /\ evalStack \in Nat /\ added \in Nat
         /\ FramesOK(stack, Len(stack)) /\ Tidy(stack, Len(stack), hs)
         /\ Linked(stack, Len(stack), evalStack)
         /\ level = Cardinality(EvalSet(stack, Len(stack)))
         /\ Top = stack[Len(stack)] /\ FrameOK(Top, Len(stack)) /\ Top \in FrameType
         /\ \A i \in 1..Len(stack) : stack[i] \in FrameType
<1>1. stack # <<>>
  BY DEF Inv, TypeOK, Ends
<1> QED BY <1>1, LiveFacts

(* One more frame on top of the suspended frame s.                         *)
LEMMA CallingPreserves ==
  ASSUME Inv, vm = "running", NEW x, Good(x), x.hs.st = "ok",
         NEW s, FrameOK(s, Len(stack)),
         s.h = x.f.h, s.base = x.f.base, s.next = Top.next, IsEval(s) <=> IsEval(Top),
         NEW c, FrameOK(c, Len(stack) + 1), c.h = <<>>, c.base = x.hs.top,
         stack' = Append(Append(Callers, s), c),
         hs' = x.hs, vm' = vm,
         ret' \in Values \cup {NoRet}, added' \in Nat,
         IsEval(c) => c.next = evalStack /\ evalStack' = Len(stack) + 1 /\ level' = level + 1,
         ~IsEval(c) => evalStack' = evalStack /\ level' = level
  PROVE  Inv'
<1> DEFINE N == Len(stack)
           fs == Frames(x)
<1>1. /\ N \in Nat \ {0} /\ FramesOK(stack, N) /\ Linked(stack, N, evalStack)
      /\ level \in Nat /\ evalStack \in Nat /\ level = Cardinality(EvalSet(stack, N))
      /\ Top = stack[N]
  BY RunningFacts
<1>2. s \in FrameType /\ c \in FrameType
  BY DEF FrameOK
<1>3. /\ stack' \in Seq(FrameType) /\ stack' # <<>> /\ Len(stack') = N + 1
      /\ \A i \in 1..(N - 1) : stack'[i] = stack[i]
      /\ stack'[N] = s /\ stack'[N + 1] = c
  BY <1>2, CallProperties
<1>4. x.hs \in HandleStacks /\ x.hs.top \in Nat /\ Tidy(fs, N, x.hs)
  BY HandleFrameSizeAssumption DEF Good, HandleStacks
<1>5. fs[N] = x.f /\ \A i \in 1..(N - 1) : fs[i] = stack[i]
  BY FramesProperties
<1> HIDE DEF N, fs
<1>6. FramesOK(stack', N + 1)
  <2>1. ASSUME NEW i \in 1..(N + 1)
        PROVE  FrameOK(stack'[i], i)
    <3>1. CASE i = N + 1
      BY <1>3, <3>1 DEF N
    <3>2. CASE i = N
      BY <1>3, <3>2 DEF N
    <3>3. CASE i # N + 1 /\ i # N
      <4>1. i \in 1..(N - 1) /\ i \in 1..N
        BY <1>1, <3>3
      <4> QED BY <1>1, <1>3, <4>1 DEF FramesOK
    <3> QED BY <3>1, <3>2, <3>3
  <2> QED BY <2>1 DEF FramesOK
<1>7. Tidy(stack', N + 1, x.hs)
  <2>1. ASSUME NEW i \in 1..N
        PROVE  stack'[i].h = fs[i].h /\ stack'[i].base = fs[i].base
    <3>1. CASE i = N
      BY <1>3, <1>5, <3>1
    <3>2. CASE i # N
      <4>1. i \in 1..(N - 1)
        BY <1>1, <3>2
      <4> QED BY <1>3, <1>5, <4>1
    <3> QED BY <3>1, <3>2
  <2>2. stack'[N + 1].h = <<>> /\ stack'[N + 1].base = x.hs.top
    BY <1>3
  <2> QED BY <1>1, <1>4, <2>1, <2>2, TidyCall
<1>8. ASSUME NEW i \in 1..N
      PROVE  (IsEval(stack'[i]) <=> IsEval(stack[i])) /\ stack'[i].next = stack[i].next
  <2>1. CASE i = N
    BY <1>1, <1>3, <2>1
  <2>2. CASE i # N
    <3>1. i \in 1..(N - 1)
      BY <1>1, <2>2
    <3> QED BY <1>3, <3>1
  <2> QED BY <2>1, <2>2
<1>9. Linked(stack', N + 1, evalStack')
  BY <1>1, <1>3, <1>8, LinkedCall DEF N
<1>10. level' = Cardinality(EvalSet(stack', N + 1))
  <2>1. \A i \in 1..N : IsEval(stack'[i]) <=> IsEval(stack[i])
    BY <1>8
  <2>2. Cardinality(EvalSet(stack', N + 1))
          = IF IsEval(stack'[N + 1]) THEN Cardinality(EvalSet(stack, N)) + 1
            ELSE Cardinality(EvalSet(stack, N))
    BY <1>1, <2>1, LevelCall
  <2> QED BY <1>1, <1>3, <2>2
<1>11. Config(stack', Len(stack'), hs', level', evalStack')
  BY <1>1, <1>3, <1>6, <1>7, <1>9, <1>10 DEF Config
<1>12. level' \in Nat /\ evalStack' \in Nat
  BY <1>1 DEF N
<1>13. TypeOK'
  BY <1>3, <1>4, <1>12 DEF TypeOK, Ends
<1> QED BY <1>11, <1>13 DEF Inv

(* x can be suspended where the function holds what x holds.               *)
SuspendOK(x, pc, n) ==
  /\ pc \in Pcs /\ n \in Nat
  /\ pc \in Drivers <=> Len(stack) = 1
  /\ pc \in ReplPcs => n = 1
  /\ pc \notin Drivers \cup {"evaluate"} => Top.nest > 0
  /\ HeldCount(pc, Len(x.f.h))
  /\ pc \in EvalPcs <=> Top.pc \in EvalPcs

SuspendedTop(x, pc, n) == [x.f EXCEPT !.pc = pc, !.n = n]

LEMMA SuspendedFrame ==
  ASSUME Inv, vm = "running", NEW x, Good(x), NEW pc, NEW n, SuspendOK(x, pc, n),
         NEW s, s = SuspendedTop(x, pc, n)
  PROVE  /\ FrameOK(s, Len(stack)) /\ (IsEval(s) <=> IsEval(Top))
         /\ s.h = x.f.h /\ s.base = x.f.base /\ s.next = Top.next
         /\ s.nest = Top.nest
<1>1. /\ x.f \in FrameType /\ pc \in Pcs /\ n \in Nat /\ Top \in FrameType
      /\ x.f = [Top EXCEPT !.h = x.f.h]
  BY RunningFacts DEF Good, SuspendOK
<1>2. x.f.next = Top.next /\ x.f.nest = Top.nest
  BY <1>1 DEF FrameType
<1>3. /\ s \in FrameType /\ s.pc = pc /\ s.n = n /\ s.h = x.f.h
      /\ s.base = x.f.base /\ s.next = x.f.next /\ s.nest = x.f.nest
  BY <1>1 DEF FrameType, SuspendedTop
<1>4. FrameOK(s, Len(stack))
  BY <1>2, <1>3 DEF FrameOK, SuspendOK
<1>5. IsEval(s) <=> IsEval(Top)
  BY <1>3 DEF IsEval, SuspendOK
<1> QED BY <1>2, <1>3, <1>4, <1>5

(* The facts on sets of program counters that the steps need.              *)
LEMMA PcFacts ==
  /\ Drivers \cap EvalPcs = {}
  /\ EvalPcs \cup Drivers \cup Prims \subseteq Pcs
  /\ \A p \in Prims : /\ p \in AllPrims /\ p \notin EvalPcs /\ p \notin Drivers
                      /\ HeldCount(p, 0)
  /\ HeldCount("evaluate", 0)
BY ConstantsAssumption
   DEF Drivers, BootPcs, ReplPcs, EvalPcs, Pcs, AllPrims, Setters, Adders, Dumpers,
       LibDefiners, HeldCount, HoldsOne, HoldsTwo, HoldsThree

LEMMA CallEvaluatePreserves ==
  ASSUME Inv, vm = "running", NEW x, Good(x), NEW pc, NEW n, SuspendOK(x, pc, n),
         NEW nest \in Nat, CallEvaluate(x, pc, n, nest)
  PROVE  Inv'
<1> DEFINE s == SuspendedTop(x, pc, n)
           c == [NewFrame("evaluate", 0, nest, x.hs.top) EXCEPT !.next = evalStack]
<1>1. CASE Dies(x.hs)
  BY <1>1, DiesPreserves DEF Good
<1>2. CASE ~Dies(x.hs)
  <2>1. /\ x.hs.st = "ok" /\ hs' = x.hs /\ vm' = vm
        /\ stack' = Append(Append(Callers, s), c)
        /\ level' = level + 1 /\ evalStack' = Len(stack) + 1
        /\ ret' = NoRet /\ added' = added
    BY <1>2 DEF CallEvaluate, Survives, Suspended, SuspendedTop
  <2>2. /\ FrameOK(s, Len(stack)) /\ (IsEval(s) <=> IsEval(Top))
        /\ s.h = x.f.h /\ s.base = x.f.base /\ s.next = Top.next
    BY SuspendedFrame
  <2>3. x.hs.top \in Nat /\ evalStack \in Nat /\ added \in Nat /\ Len(stack) \in Nat \ {0}
    BY RunningFacts, HandleFrameSizeAssumption DEF Good, HandleStacks
  <2>4. c = [pc |-> "evaluate", h |-> <<>>, n |-> 0, nest |-> nest,
             next |-> evalStack, base |-> x.hs.top]
    BY DEF NewFrame
  <2> HIDE DEF s, c
  <2>5. /\ c.pc = "evaluate" /\ c.h = <<>> /\ c.base = x.hs.top /\ c.next = evalStack
        /\ c \in FrameType
    BY <2>3, <2>4, PcFacts, EmptySeq DEF FrameType, EvalPcs
  <2>6. IsEval(c) /\ FrameOK(c, Len(stack) + 1)
    BY <2>3, <2>5, PcFacts DEF FrameOK, IsEval, EvalPcs, Drivers, BootPcs, ReplPcs
  <2> QED BY <2>1, <2>2, <2>3, <2>5, <2>6, CallingPreserves
<1> QED BY <1>1, <1>2

LEMMA CallPreserves ==
  ASSUME Inv, vm = "running", NEW x, Good(x), NEW pc, SuspendOK(x, pc, 0),
         Top.nest > 0, NEW callee \in {"evargs", "invoke"} \cup Prims,
         NEW arg \in Values \cup {NoRet}, Call(x, pc, callee, arg)
  PROVE  Inv'
<1> DEFINE s == SuspendedTop(x, pc, 0)
           c == NewFrame(callee, 0, x.f.nest, x.hs.top)
<1>1. CASE Dies(x.hs)
  BY <1>1, DiesPreserves DEF Good
<1>2. CASE ~Dies(x.hs)
  <2>1. /\ x.hs.st = "ok" /\ hs' = x.hs /\ vm' = vm
        /\ stack' = Append(Append(Callers, s), c)
        /\ ret' = arg /\ level' = level /\ evalStack' = evalStack /\ added' = added
    BY <1>2 DEF Call, Survives, Suspended, SuspendedTop
  <2>2. /\ FrameOK(s, Len(stack)) /\ (IsEval(s) <=> IsEval(Top))
        /\ s.h = x.f.h /\ s.base = x.f.base /\ s.next = Top.next /\ s.nest = Top.nest
    BY SuspendedFrame
  <2>3. /\ x.hs.top \in Nat /\ added \in Nat /\ Len(stack) \in Nat \ {0}
        /\ x.f \in FrameType /\ Top \in FrameType /\ x.f = [Top EXCEPT !.h = x.f.h]
    BY RunningFacts, HandleFrameSizeAssumption DEF Good, HandleStacks
  <2>4. x.f.nest = Top.nest /\ x.f.nest \in Nat
    BY <2>3 DEF FrameType
  <2>5. callee \in Pcs /\ callee \notin EvalPcs /\ callee \notin Drivers
        /\ HeldCount(callee, 0)
    <3>1. CASE callee \in Prims
      BY <3>1, PcFacts
    <3>2. CASE callee \in {"evargs", "invoke"}
      BY <3>2 DEF Pcs, EvalPcs, Drivers, BootPcs, ReplPcs, HeldCount,
                  HoldsOne, HoldsTwo, HoldsThree
    <3> QED BY <3>1, <3>2
  <2> HIDE DEF s
  <2>6. /\ c.pc = callee /\ c.h = <<>> /\ c.base = x.hs.top /\ c.nest = Top.nest
        /\ c \in FrameType
    BY <2>3, <2>4, <2>5, EmptySeq DEF FrameType, NewFrame
  <2> HIDE DEF c
  <2>7. ~IsEval(c) /\ FrameOK(c, Len(stack) + 1)
    BY <2>3, <2>5, <2>6 DEF FrameOK, IsEval, Drivers
  <2> QED BY <2>1, <2>2, <2>3, <2>6, <2>7, CallingPreserves
<1> QED BY <1>1, <1>2

(* The topmost function, other than a driver, returns.                     *)
LEMMA LeavesPreserves ==
  ASSUME Inv, vm = "running", NEW x, Good(x), Len(x.f.h) = 0, Len(stack) > 1,
         NEW v \in Values \cup {NoRet}, Leaves(x, v), added' \in Nat
  PROVE  Inv'
<1> DEFINE N == Len(stack)
           fs == Frames(x)
<1>1. /\ N \in Nat \ {0} /\ N > 1 /\ FramesOK(stack, N) /\ Linked(stack, N, evalStack)
      /\ level \in Nat /\ evalStack \in Nat /\ level = Cardinality(EvalSet(stack, N))
      /\ Top = stack[N] /\ Top \in FrameType /\ \A i \in 1..N : stack[i] \in FrameType
      /\ DOMAIN stack = 1..N
  BY RunningFacts
<1>2. /\ stack' \in Seq(FrameType) /\ Len(stack') = N - 1
      /\ \A i \in 1..(N - 1) : stack'[i] = stack[i]
      /\ x.hs.st = "ok" /\ hs' = x.hs /\ vm' = vm /\ ret' = v
  BY CallersProperties DEF Leaves, Survives
<1>3. x.hs \in HandleStacks /\ x.hs.top \in Nat /\ Tidy(fs, N, x.hs)
      /\ x.f.pc = Top.pc
  <2>1. x.f = [Top EXCEPT !.h = x.f.h]
    BY DEF Good
  <2>2. x.f.pc = Top.pc
    BY <1>1, <2>1 DEF FrameType
  <2> QED BY <1>2, <2>2, HandleFrameSizeAssumption DEF Good, HandleStacks
<1>4. fs[N] = x.f /\ \A i \in 1..(N - 1) : fs[i] = stack[i]
  BY FramesProperties
<1>5. IF IsEval(Top)
      THEN /\ level' = level - 1
           /\ evalStack' = IF evalStack \in 1..N THEN stack[evalStack].next ELSE UNINIT
      ELSE level' = level /\ evalStack' = evalStack
  BY <1>1, <1>3 DEF Leaves, IsEval, Uses_DRETURN
<1> HIDE DEF N, fs
<1>6. IsEval(stack[N]) => evalStack = N /\ level >= 1
  <2>1. ASSUME IsEval(stack[N])
        PROVE  evalStack = N /\ level >= 1
    <3>1. LastEval(stack, N, N + 1) /\ N \in 1..N
      BY <1>1, <2>1 DEF LastEval
    <3>2. evalStack = N
      BY <1>1, <3>1 DEF Linked
    <3>3. Cardinality(EvalSet(stack, N - 1)) \in Nat /\ N - 1 \in Nat
      BY <1>1, EvalSetFinite
    <3>4. Cardinality(EvalSet(stack, N - 1 + 1)) = Cardinality(EvalSet(stack, N - 1)) + 1
      BY <1>1, <2>1, <3>3, LevelCall
    <3>5. N - 1 + 1 = N
      BY <1>1
    <3> QED BY <1>1, <3>2, <3>3, <3>4, <3>5
  <2> QED BY <2>1
<1>7. /\ IsEval(stack[N]) => evalStack' = stack[N].next
      /\ ~IsEval(stack[N]) => evalStack' = evalStack
      /\ evalStack' \in Nat /\ level' \in Nat
  <2>1. stack[N].next \in Nat
    BY <1>1 DEF FrameType
  <2> QED BY <1>1, <1>5, <1>6, <2>1
<1>8. Linked(stack', N - 1, evalStack')
  BY <1>1, <1>2, <1>7, LinkedReturn
<1>9. level' = Cardinality(EvalSet(stack', N - 1))
  <2>1. EvalSet(stack', N - 1) = EvalSet(stack, N - 1)
    BY <1>2 DEF EvalSet
  <2>2. N - 1 \in Nat /\ N - 1 + 1 = N
    BY <1>1
  <2>3. Cardinality(EvalSet(stack, N - 1)) \in Nat
    BY <2>2, EvalSetFinite
  <2>4. Cardinality(EvalSet(stack, N - 1 + 1))
          = IF IsEval(stack[N - 1 + 1]) THEN Cardinality(EvalSet(stack, N - 1)) + 1
            ELSE Cardinality(EvalSet(stack, N - 1))
    BY <2>2, LevelCall
  <2> QED BY <1>1, <1>5, <2>1, <2>2, <2>3, <2>4
<1>10. Tidy(stack', N - 1, x.hs)
  BY <1>1, <1>2, <1>3, <1>4, TidyReturn
<1>11. FramesOK(stack', N - 1)
  BY <1>1, <1>2 DEF FramesOK
<1>12. N - 1 \in Nat \ {0} /\ stack' # <<>>
  BY <1>1, <1>2, EmptySeq
<1>13. Config(stack', Len(stack'), hs', level', evalStack')
  BY <1>2, <1>8, <1>9, <1>10, <1>11, <1>12 DEF Config
<1>14. TypeOK'
  BY <1>2, <1>3, <1>7, <1>12 DEF TypeOK, Ends
<1> QED BY <1>2, <1>13, <1>14 DEF Inv

LEMMA ReturnPreserves ==
  ASSUME Inv, vm = "running", NEW x, Good(x), Len(x.f.h) = 0, Len(stack) > 1,
         NEW v \in Values \cup {NoRet}, Return(x, v)
  PROVE  Inv'
<1>1. CASE Leaves(x, v) /\ UNCHANGED added
  BY <1>1, RunningFacts, LeavesPreserves
<1>2. CASE Dies(x.hs)
  BY <1>2, DiesPreserves DEF Good
<1> QED BY <1>1, <1>2 DEF Return

(* Only the driver is left.                                                *)
LEMMA AlonePreserves ==
  ASSUME Inv, vm = "running", NEW g, FrameOK(g, 1), stack' = <<g>>,
         hs' \in HandleStacks, hs'.st = "ok", Tidy(stack', 1, hs'), vm' = vm,
         level' = 0, evalStack' \in Nat, ret' \in Values \cup {NoRet}, added' \in Nat
  PROVE  Inv'
<1>1. /\ g \in FrameType /\ stack' \in Seq(FrameType) /\ Len(stack') = 1
      /\ stack'[1] = g /\ stack' # <<>>
  BY DEF FrameOK
<1>2. ~IsEval(stack'[1])
  BY <1>1, PcFacts DEF FrameOK, IsEval
<1>3. Linked(stack', 1, evalStack')
  BY <1>2 DEF Linked, LastEval
<1>4. Cardinality(EvalSet(stack', 1)) = 0
  <2>1. EvalSet(stack', 1) = {}
    BY <1>2 DEF EvalSet
  <2> QED BY <2>1, FS_EmptySet
<1>5. FramesOK(stack', 1)
  BY <1>1 DEF FramesOK
<1>6. Config(stack', Len(stack'), hs', level', evalStack')
  BY <1>1, <1>3, <1>4, <1>5 DEF Config
<1>7. TypeOK'
  BY <1>1 DEF TypeOK, Ends
<1> QED BY <1>6, <1>7 DEF Inv

LEMMA ThrowPreserves ==
  ASSUME Inv, vm = "running", NEW x, Good(x), Top.pc \notin Drivers, Throw(x)
  PROVE  Inv'
<1>1. CASE stack[1].pc \in BootPcs /\ x.hs.st = "ok" /\ Halt("exit")
  BY <1>1, HaltPreserves DEF Ends
<1>2. CASE Dies(x.hs)
  BY <1>2, DiesPreserves DEF Good
<1>3. CASE /\ stack[1].pc \in ReplPcs
           /\ x.hs.st = "ok"
           /\ stack' = <<[stack[1] EXCEPT !.pc = "run_in_thread"]>>
           /\ hs' = Unwound(x.hs, stack[1].n)
           /\ level' = 0
           /\ ret' = NoRet
           /\ UNCHANGED <<evalStack, added, vm>>
  <2> DEFINE N == Len(stack)
             g == [stack[1] EXCEPT !.pc = "run_in_thread"]
  <2>1. /\ N \in Nat \ {0} /\ N > 1 /\ FrameOK(stack[1], 1) /\ stack[1] \in FrameType
        /\ evalStack \in Nat /\ added \in Nat
    <3>1. /\ N \in Nat \ {0} /\ FramesOK(stack, N) /\ Top = stack[N] /\ FrameOK(Top, N)
          /\ evalStack \in Nat /\ added \in Nat
      BY RunningFacts
    <3>2. N # 1
      BY <3>1 DEF FrameOK
    <3>3. FrameOK(stack[1], 1)
      BY <3>1 DEF FramesOK
    <3> QED BY <3>1, <3>2, <3>3 DEF FrameOK
  <2>2. stack[1].n = 1 /\ Len(stack[1].h) = 1 /\ stack[1].pc \in Pcs
    BY <1>3, <2>1 DEF FrameOK, HeldCount, HoldsOne, ReplPcs, Drivers, FrameType
  <2>3. /\ g \in FrameType /\ g.pc = "run_in_thread" /\ g.n = 1
        /\ g.h = stack[1].h /\ g.base = stack[1].base
    BY <2>1, <2>2 DEF FrameType, Pcs, ReplPcs
  <2> HIDE DEF g
  <2>4. FrameOK(g, 1)
    BY <2>2, <2>3 DEF FrameOK, HeldCount, HoldsOne, HoldsTwo, HoldsThree, ReplPcs, Drivers
  <2>5. x.hs \in HandleStacks /\ Tidy(Frames(x), N, x.hs) /\ Frames(x)[1] = stack[1]
    <3>1. x.hs \in HandleStacks /\ Tidy(Frames(x), N, x.hs)
      BY <1>3 DEF Good
    <3>2. \A i \in 1..(Len(stack) - 1) : Frames(x)[i] = stack[i]
      BY FramesProperties
    <3>3. 1 \in 1..(Len(stack) - 1)
      BY <2>1
    <3> QED BY <3>1, <3>2, <3>3
  <2>6. hs' = pop_to_mark(x.hs, 1) /\ stack' = <<g>> /\ stack'[1] = g
    BY <1>3, <2>2 DEF Unwound, g
  <2> HIDE DEF N
  <2>7. 1 <= x.hs.top /\ Tidy(stack', 1, pop_to_mark(x.hs, 1))
    BY <1>3, <2>1, <2>2, <2>3, <2>5, <2>6, TidyUnwind
  <2>8. hs' \in HandleStacks /\ hs'.st = "ok"
    BY <1>3, <2>5, <2>6, <2>7, UnwindProperties
  <2> QED BY <1>3, <2>1, <2>4, <2>6, <2>7, <2>8, AlonePreserves
<1> QED BY <1>1, <1>2, <1>3 DEF Throw

(***************************************************************************)
(* Steps of the functions other than the drivers.                          *)
(***************************************************************************)
LEMMA Inner ==
  ASSUME Inv, NEW pc, At(pc), pc \notin Drivers
  PROVE  /\ vm = "running" /\ Top.pc = pc /\ pc \in Pcs
         /\ Top.pc \notin Drivers /\ Len(stack) > 1
         /\ Good(Cur) /\ Cur.f = Top /\ HeldCount(pc, Len(Top.h)) /\ Len(Top.h) \in Nat
         /\ Top.n \in Nat /\ Top.nest \in Nat
         /\ pc # "evaluate" => Top.nest > 0
         /\ Top.nest > 0 => Operand \in Nat
         /\ ret \in Values \cup {NoRet}
<1>1. vm = "running" /\ Top.pc = pc
  BY DEF At
<1>2. /\ Good(Cur) /\ Cur.f = Top /\ Top \in FrameType /\ FrameOK(Top, Len(stack))
      /\ Len(stack) \in Nat \ {0}
  BY <1>1, CurGood, RunningFacts
<1>3. Top.h \in Seq(Nat) /\ Top.n \in Nat /\ Top.nest \in Nat /\ Top.pc \in Pcs
  BY <1>2 DEF FrameType
<1>4. Len(Top.h) \in Nat
  BY <1>3
<1>5. Len(stack) # 1 /\ HeldCount(pc, Len(Top.h)) /\ (pc # "evaluate" => Top.nest > 0)
  BY <1>1, <1>2 DEF FrameOK
<1>6. ret \in Values \cup {NoRet}
  BY DEF Inv, TypeOK
<1>7. Top.nest > 0 => Operand \in Nat
  BY <1>3 DEF Operand
<1>8. Top.pc \notin Drivers /\ Len(stack) > 1 /\ pc \in Pcs
  <2>1. Len(stack) > 1
    <3>1. Len(stack) \in Nat \ {0}
      BY <1>2
    <3>2. Len(stack) # 1
      BY <1>5
    <3> DEFINE l == Len(stack)
    <3> HIDE DEF l
    <3>3. l \in Nat \ {0} /\ l # 1
      BY <3>1, <3>2 DEF l
    <3>4. l > 1
      BY <3>3
    <3> QED BY <3>4 DEF l
  <2>2. Top.pc \notin Drivers /\ pc \in Pcs
    BY <1>1, <1>3, Zenon
  <2> QED BY <2>1, <2>2
<1> QED BY <1>1, <1>2, <1>3, <1>4, <1>5, <1>6, <1>7, <1>8, Zenon

(* The program counters inside of functions that are not evaluate.         *)
OtherPcs == Pcs \ (EvalPcs \cup Drivers)

LEMMA InnerCallEvaluate ==
  ASSUME Inv, vm = "running", NEW x, Good(x), Top.pc \notin Drivers, Top.nest > 0,
         NEW pc \in Pcs, pc \notin Drivers, pc \in EvalPcs <=> Top.pc \in EvalPcs,
         HeldCount(pc, Len(x.f.h)), NEW n \in Nat, NEW nest \in Nat,
         CallEvaluate(x, pc, n, nest)
  PROVE  Inv'
<1>1. Len(stack) # 1
  BY RunningFacts DEF FrameOK
<1>2. SuspendOK(x, pc, n)
  BY <1>1 DEF SuspendOK, Drivers
<1> QED BY <1>2, CallEvaluatePreserves

LEMMA InnerCall ==
  ASSUME Inv, vm = "running", NEW x, Good(x), Top.pc \notin Drivers, Top.nest > 0,
         NEW pc \in Pcs, pc \notin Drivers, pc \in EvalPcs <=> Top.pc \in EvalPcs,
         HeldCount(pc, Len(x.f.h)), NEW callee \in {"evargs", "invoke"} \cup Prims,
         NEW arg \in Values \cup {NoRet}, Call(x, pc, callee, arg)
  PROVE  Inv'
<1>1. Len(stack) # 1
  BY RunningFacts DEF FrameOK
<1>2. SuspendOK(x, pc, 0)
  BY <1>1 DEF SuspendOK, Drivers
<1> QED BY <1>2, CallPreserves

(* The orders in which the functions pop.                                  *)
LEMMA PopOrders ==
  ASSUME Inv, vm = "running", NEW x, Good(x)
  PROVE  /\ Len(x.f.h) = 1 => Good(pop(x, << 1 >>)) /\ Len(pop(x, << 1 >>).f.h) = 0
         /\ Len(x.f.h) = 2 => Good(pop(x, <<2, 1>>)) /\ Len(pop(x, <<2, 1>>).f.h) = 0
         /\ Len(x.f.h) = 3 => Good(pop(x, <<3, 2, 1>>)) /\ Len(pop(x, <<3, 2, 1>>).f.h) = 0
         /\ Len(x.f.h) = 4 => Good(pop(x, << 4 >>)) /\ Len(pop(x, << 4 >>).f.h) = 3
         /\ Good(pop(x, ArgHandles(Len(x.f.h))))
         /\ Len(pop(x, ArgHandles(Len(x.f.h))).f.h) = 0
<1>1. Len(x.f.h) \in Nat
  BY DEF Good, FrameType
<1>2. ASSUME Len(x.f.h) = 1
      PROVE  Good(pop(x, << 1 >>)) /\ Len(pop(x, << 1 >>).f.h) = 0
  <2> DEFINE order == << 1 >>
  <2>1. order \in Seq(Nat) /\ Len(order) = 1 /\ \A k \in 1..1 : order[k] = 1 + 1 - k
    OBVIOUS
  <2> HIDE DEF order
  <2>2. /\ Len(order) <= Len(x.f.h)
        /\ \A k \in 1..Len(order) : order[k] = Len(x.f.h) + 1 - k
    BY <1>2, <2>1
  <2>3. Good(pop(x, order)) /\ Len(pop(x, order).f.h) = Len(x.f.h) - Len(order)
    BY <2>1, <2>2, PopGood
  <2> QED BY <1>2, <2>1, <2>3 DEF order
<1>3. ASSUME Len(x.f.h) = 2
      PROVE  Good(pop(x, <<2, 1>>)) /\ Len(pop(x, <<2, 1>>).f.h) = 0
  <2> DEFINE order == <<2, 1>>
  <2>1. order \in Seq(Nat) /\ Len(order) = 2 /\ \A k \in 1..2 : order[k] = 2 + 1 - k
    OBVIOUS
  <2> HIDE DEF order
  <2>2. /\ Len(order) <= Len(x.f.h)
        /\ \A k \in 1..Len(order) : order[k] = Len(x.f.h) + 1 - k
    BY <1>3, <2>1
  <2>3. Good(pop(x, order)) /\ Len(pop(x, order).f.h) = Len(x.f.h) - Len(order)
    BY <2>1, <2>2, PopGood
  <2> QED BY <1>3, <2>1, <2>3 DEF order
<1>4. ASSUME Len(x.f.h) = 3
      PROVE  Good(pop(x, <<3, 2, 1>>)) /\ Len(pop(x, <<3, 2, 1>>).f.h) = 0
  <2> DEFINE order == <<3, 2, 1>>
  <2>1. order \in Seq(Nat) /\ Len(order) = 3 /\ \A k \in 1..3 : order[k] = 3 + 1 - k
    OBVIOUS
  <2> HIDE DEF order
  <2>2. /\ Len(order) <= Len(x.f.h)
        /\ \A k \in 1..Len(order) : order[k] = Len(x.f.h) + 1 - k
    BY <1>4, <2>1
  <2>3. Good(pop(x, order)) /\ Len(pop(x, order).f.h) = Len(x.f.h) - Len(order)
    BY <2>1, <2>2, PopGood
  <2> QED BY <1>4, <2>1, <2>3 DEF order
<1>5. ASSUME Len(x.f.h) = 4
      PROVE  Good(pop(x, << 4 >>)) /\ Len(pop(x, << 4 >>).f.h) = 3
  <2> DEFINE order == << 4 >>
  <2>1. order \in Seq(Nat) /\ Len(order) = 1 /\ \A k \in 1..1 : order[k] = 4 + 1 - k
    OBVIOUS
  <2> HIDE DEF order
  <2>2. /\ Len(order) <= Len(x.f.h)
        /\ \A k \in 1..Len(order) : order[k] = Len(x.f.h) + 1 - k
    BY <1>5, <2>1
  <2>3. Good(pop(x, order)) /\ Len(pop(x, order).f.h) = Len(x.f.h) - Len(order)
    BY <2>1, <2>2, PopGood
  <2>4. Len(pop(x, order).f.h) = 3
    BY <1>5, <2>1, <2>3
  <2> QED BY <2>3, <2>4 DEF order
<1>6. /\ Good(pop(x, ArgHandles(Len(x.f.h))))
      /\ Len(pop(x, ArgHandles(Len(x.f.h))).f.h) = 0
  <2> DEFINE l == Len(x.f.h)
             order == ArgHandles(l)
  <2>1. order \in Seq(Nat) /\ Len(order) = l /\ \A k \in 1..l : order[k] = l + 1 - k
    BY <1>1 DEF ArgHandles
  <2> HIDE DEF order
  <2>2. Good(pop(x, order)) /\ Len(pop(x, order).f.h) = l - l
    BY <1>1, <2>1, PopGood
  <2> QED BY <1>1, <2>2 DEF order
<1> QED BY <1>2, <1>3, <1>4, <1>5, <1>6

(* The numbers in which the functions push.                                *)
LEMMA PushOrders ==
  ASSUME Inv, vm = "running", NEW x, Good(x)
  PROVE  /\ Len(x.f.h) = 0 => Good(push(x, 1)) /\ Len(push(x, 1).f.h) = 1
         /\ Len(x.f.h) = 0 => Good(push(x, 2)) /\ Len(push(x, 2).f.h) = 2
         /\ Len(x.f.h) = 1 => Good(push(x, 1)) /\ Len(push(x, 1).f.h) = 2
         /\ Len(x.f.h) = 2 => Good(push(x, 1)) /\ Len(push(x, 1).f.h) = 3
         /\ Len(x.f.h) = 3 => Good(push(x, 1)) /\ Len(push(x, 1).f.h) = 4
<1> DEFINE m == Len(x.f.h)
           one == Len(push(x, 1).f.h)
           two == Len(push(x, 2).f.h)
<1>1. Good(push(x, 1)) /\ one = m + 1
  BY PushGood
<1>2. Good(push(x, 2)) /\ two = m + 2
  BY PushGood
<1> HIDE DEF m, one, two
<1>3. /\ m = 0 => one = 1 /\ two = 2
      /\ m = 1 => one = 2
      /\ m = 2 => one = 3
      /\ m = 3 => one = 4
  BY <1>1, <1>2
<1> QED BY <1>1, <1>2, <1>3 DEF m, one, two

(* What each program counter says of the handles.                          *)
HoldsNone == {"evargs", "invoke", "length:list", "add:args", "minus:args",
              "equal:args", "if:branch", "eq?:one", "eq?:two", "error:form"}

LEMMA PcHeld ==
  ASSUME NEW n
  PROVE  /\ \A p \in {"evaluate", "evaluate:tail"} :
              p \in EvalPcs /\ p \in Pcs /\ p \notin Drivers /\ (HeldCount(p, n) <=> n = 0)
         /\ \A p \in {"evaluate:head", "evaluate:args"} :
              p \in EvalPcs /\ p \in Pcs /\ p \notin Drivers /\ (HeldCount(p, n) <=> n = 1)
         /\ \A p \in {"invoke:body", "set:first", "cons:car", "cons:cdr", "if:pred",
                     "define:value"} :
              p \in OtherPcs /\ (HeldCount(p, n) <=> n = 1)
         /\ \A p \in HoldsTwo : p \in OtherPcs /\ (HeldCount(p, n) <=> n = 2)
         /\ \A p \in HoldsThree : p \in OtherPcs /\ (HeldCount(p, n) <=> n = 3)
         /\ "evargs:item" \in OtherPcs /\ HeldCount("evargs:item", n)
         /\ \A p \in HoldsNone : p \in OtherPcs /\ (HeldCount(p, n) <=> n = 0)
         /\ \A p \in AllPrims : p \notin EvalPcs /\ p \notin Drivers
                               /\ (HeldCount(p, n) <=> n = 0)
BY DEF OtherPcs, Drivers, BootPcs, ReplPcs, EvalPcs, Pcs, AllPrims, Setters, Adders,
       Dumpers, LibDefiners, HeldCount, HoldsOne, HoldsTwo, HoldsThree, HoldsNone

(* The state of a function that holds n handles.                           *)
Running(pc, n) ==
  /\ vm = "running" /\ Top.pc = pc /\ pc \notin Drivers /\ Top.pc \notin Drivers
  /\ Good(Cur) /\ Len(Cur.f.h) = n /\ Len(Top.h) = n
  /\ Top.n \in Nat
  /\ pc # "evaluate" => Top.nest > 0
  /\ Top.nest > 0 => Operand \in Nat
  /\ ret \in Values \cup {NoRet}

LEMMA RunningWith ==
  ASSUME Inv, NEW pc, At(pc), pc \notin Drivers, NEW n, HeldCount(pc, Len(Top.h)) => Len(Top.h) = n
  PROVE  Running(pc, n)
<1>1. /\ vm = "running" /\ Top.pc = pc /\ Top.pc \notin Drivers
      /\ Good(Cur) /\ Cur.f = Top /\ HeldCount(pc, Len(Top.h))
      /\ Top.n \in Nat /\ (pc # "evaluate" => Top.nest > 0)
      /\ (Top.nest > 0 => Operand \in Nat) /\ ret \in Values \cup {NoRet}
  BY Inner, Zenon
<1>2. Len(Cur.f.h) = n /\ Len(Top.h) = n
  BY <1>1
<1> QED BY <1>1, <1>2, Zenon DEF Running

LEMMA EvaluateRuns ==
  ASSUME Inv
  PROVE  /\ \A p \in {"evaluate", "evaluate:tail"} : At(p) => Running(p, 0)
         /\ \A p \in {"evaluate:head", "evaluate:args"} : At(p) => Running(p, 1)
<1>1. ASSUME NEW p \in {"evaluate", "evaluate:tail"}, At(p)
      PROVE  Running(p, 0)
  <2>1. p \notin Drivers /\ (HeldCount(p, Len(Top.h)) <=> Len(Top.h) = 0)
    BY PcHeld
  <2> QED BY <1>1, <2>1, RunningWith
<1>2. ASSUME NEW p \in {"evaluate:head", "evaluate:args"}, At(p)
      PROVE  Running(p, 1)
  <2>1. p \notin Drivers /\ (HeldCount(p, Len(Top.h)) <=> Len(Top.h) = 1)
    BY PcHeld
  <2> QED BY <1>2, <2>1, RunningWith
<1> QED BY <1>1, <1>2

LEMMA OthersRun ==
  ASSUME Inv
  PROVE  /\ \A p \in HoldsNone \cup AllPrims :
              At(p) => Running(p, 0) /\ p \notin EvalPcs
         /\ \A p \in {"invoke:body", "set:first", "cons:car", "cons:cdr", "if:pred",
                     "define:value"} :
              At(p) => Running(p, 1) /\ p \notin EvalPcs
         /\ \A p \in HoldsTwo : At(p) => Running(p, 2) /\ p \notin EvalPcs
         /\ \A p \in HoldsThree : At(p) => Running(p, 3) /\ p \notin EvalPcs
         /\ At("evargs:item") => Running("evargs:item", Len(Top.h))
<1>1. ASSUME NEW p \in HoldsNone \cup AllPrims, At(p)
      PROVE  Running(p, 0) /\ p \notin EvalPcs
  <2>1. p \notin EvalPcs /\ p \notin Drivers /\ (HeldCount(p, Len(Top.h)) <=> Len(Top.h) = 0)
    BY PcHeld DEF OtherPcs
  <2> QED BY <1>1, <2>1, RunningWith
<1>2. ASSUME NEW p \in {"invoke:body", "set:first", "cons:car", "cons:cdr", "if:pred",
                        "define:value"}, At(p)
      PROVE  Running(p, 1) /\ p \notin EvalPcs
  <2>1. p \notin EvalPcs /\ p \notin Drivers /\ (HeldCount(p, Len(Top.h)) <=> Len(Top.h) = 1)
    BY PcHeld DEF OtherPcs
  <2> QED BY <1>2, <2>1, RunningWith
<1>3. ASSUME NEW p \in HoldsTwo, At(p)
      PROVE  Running(p, 2) /\ p \notin EvalPcs
  <2>1. p \notin EvalPcs /\ p \notin Drivers /\ (HeldCount(p, Len(Top.h)) <=> Len(Top.h) = 2)
    BY PcHeld DEF OtherPcs
  <2> QED BY <1>3, <2>1, RunningWith
<1>4. ASSUME NEW p \in HoldsThree, At(p)
      PROVE  Running(p, 3) /\ p \notin EvalPcs
  <2>1. p \notin EvalPcs /\ p \notin Drivers /\ (HeldCount(p, Len(Top.h)) <=> Len(Top.h) = 3)
    BY PcHeld DEF OtherPcs
  <2> QED BY <1>4, <2>1, RunningWith
<1>5. ASSUME At("evargs:item")
      PROVE  Running("evargs:item", Len(Top.h))
  <2>1. "evargs:item" \notin Drivers
    BY PcHeld DEF OtherPcs
  <2> QED BY <1>5, <2>1, RunningWith
<1> QED BY <1>1, <1>2, <1>3, <1>4, <1>5

(* The same steps in the terms of Running.                                 *)
LEMMA StepReturn ==
  ASSUME Inv, NEW pc, NEW k, Running(pc, k), NEW x, Good(x), Len(x.f.h) = 0,
         NEW v \in Values \cup {NoRet}, Return(x, v)
  PROVE  Inv'
<1>1. vm = "running" /\ Top.pc \notin Drivers
  BY DEF Running
<1>2. Len(stack) \in Nat \ {0} /\ Len(stack) # 1
  BY <1>1, RunningFacts DEF FrameOK
<1>3. Len(stack) > 1
  <2> DEFINE l == Len(stack)
  <2> HIDE DEF l
  <2>1. l \in Nat \ {0} /\ l # 1
    BY <1>2 DEF l
  <2>2. l > 1
    BY <2>1
  <2> QED BY <2>2 DEF l
<1> QED BY <1>1, <1>3, ReturnPreserves

LEMMA StepThrow ==
  ASSUME Inv, NEW pc, NEW k, Running(pc, k), NEW x, Good(x), Throw(x)
  PROVE  Inv'
BY ThrowPreserves DEF Running

LEMMA StepHalt ==
  ASSUME Inv, NEW pc, At(pc),
         \/ \E reason \in Ends \ {"assertion failed"} : Halt(reason)
         \/ PrintsForever
         \/ PrintingFails
  PROVE  Inv'
<1>1. vm = "running"
  BY DEF At
<1>2. PrintsForever \/ \E reason \in Ends \ {"assertion failed"} : Halt(reason)
  BY DEF PrintingFails, Ends
<1> QED BY <1>1, <1>2, HaltPreserves, PrintsForeverPreserves

LEMMA StepEvaluate ==
  ASSUME Inv, NEW pc, NEW k, Running(pc, k), pc \notin EvalPcs,
         NEW x, Good(x), NEW next \in OtherPcs, HeldCount(next, Len(x.f.h)),
         Top.nest > 0, NEW n \in Nat, NEW nest \in Nat, CallEvaluate(x, next, n, nest)
  PROVE  Inv'
<1>1. next \in Pcs /\ next \notin Drivers /\ (next \in EvalPcs <=> Top.pc \in EvalPcs)
      /\ vm = "running" /\ Top.pc \notin Drivers
  BY DEF Running, OtherPcs
<1> QED BY <1>1, InnerCallEvaluate

LEMMA StepCall ==
  ASSUME Inv, NEW pc, NEW k, Running(pc, k), pc \notin EvalPcs,
         NEW x, Good(x), NEW next \in OtherPcs, HeldCount(next, Len(x.f.h)),
         Top.nest > 0, NEW callee \in {"evargs", "invoke"} \cup Prims,
         NEW arg \in Values \cup {NoRet}, Call(x, next, callee, arg)
  PROVE  Inv'
<1>1. next \in Pcs /\ next \notin Drivers /\ (next \in EvalPcs <=> Top.pc \in EvalPcs)
      /\ vm = "running" /\ Top.pc \notin Drivers
  BY DEF Running, OtherPcs
<1> QED BY <1>1, InnerCall

(***************************************************************************)
(* The functions, one by one.                                              *)
(***************************************************************************)
LEMMA evaluate_Preserves ==
  ASSUME Inv, evaluate
  PROVE  Inv'
<1>1. ASSUME At("evaluate"), NEW v \in Bound, Return(Cur, v)
      PROVE  Inv'
  <2>1. Running("evaluate", 0) /\ v \in Values
    BY <1>1, EvaluateRuns DEF Bound, InLibrary, Values, Data, UserPrims
  <2> QED BY <1>1, <2>1, StepReturn DEF Running
<1>2. ASSUME At("evaluate"), Return(Cur, "C-NULL")
      PROVE  Inv'
  <2>1. Running("evaluate", 0) /\ "C-NULL" \in Values
    BY <1>2, EvaluateRuns DEF Values, Data
  <2> QED BY <1>2, <2>1, StepReturn DEF Running
<1>3. ASSUME At("evaluate"), Throw(Cur)
      PROVE  Inv'
  <2>1. Running("evaluate", 0)
    BY <1>3, EvaluateRuns
  <2> QED BY <1>3, <2>1, StepThrow DEF Running
<1>4. ASSUME At("evaluate"), Top.nest > 0,
             CallEvaluate(push(Cur, 1), "evaluate:head", 0, Operand)
      PROVE  Inv'
  <2>1. Running("evaluate", 0)
    BY <1>4, EvaluateRuns
  <2>2. Good(push(Cur, 1)) /\ Len(push(Cur, 1).f.h) = 1
    BY <2>1, PushOrders DEF Running
  <2>3. /\ HeldCount("evaluate:head", Len(push(Cur, 1).f.h))
        /\ "evaluate:head" \in Pcs /\ "evaluate:head" \notin Drivers
        /\ "evaluate:head" \in EvalPcs /\ "evaluate" \in EvalPcs
    BY <2>2, PcHeld
  <2> QED BY <1>4, <2>1, <2>2, <2>3, InnerCallEvaluate DEF Running
<1>5. ASSUME At("evaluate:head"), ret \in Prims,
             Call(pop(Cur, << 1 >>), "evaluate:tail", ret, NoRet)
      PROVE  Inv'
  <2>1. Running("evaluate:head", 1)
    BY <1>5, EvaluateRuns
  <2>2. Good(pop(Cur, << 1 >>)) /\ Len(pop(Cur, << 1 >>).f.h) = 0
    BY <2>1, PopOrders DEF Running
  <2>3. /\ HeldCount("evaluate:tail", Len(pop(Cur, << 1 >>).f.h))
        /\ "evaluate:tail" \in Pcs /\ "evaluate:tail" \notin Drivers
        /\ "evaluate:tail" \in EvalPcs /\ "evaluate:head" \in EvalPcs
    BY <2>2, PcHeld
  <2> QED BY <1>5, <2>1, <2>2, <2>3, InnerCall DEF Running
<1>6. ASSUME At("evaluate:head"), ret = "function",
             Call(push(pop(Cur, << 1 >>), 1), "evaluate:args", "evargs", NoRet)
      PROVE  Inv'
  <2> DEFINE x == push(pop(Cur, << 1 >>), 1)
  <2>1. Running("evaluate:head", 1)
    BY <1>6, EvaluateRuns
  <2>2. Good(pop(Cur, << 1 >>)) /\ Len(pop(Cur, << 1 >>).f.h) = 0
    BY <2>1, PopOrders DEF Running
  <2>3. Good(x) /\ Len(x.f.h) = 1
    BY <2>1, <2>2, PushOrders DEF Running
  <2> HIDE DEF x
  <2>4. /\ HeldCount("evaluate:args", Len(x.f.h))
        /\ "evaluate:args" \in Pcs /\ "evaluate:args" \notin Drivers
        /\ "evaluate:args" \in EvalPcs /\ "evaluate:head" \in EvalPcs
    BY <2>3, PcHeld
  <2>5. Call(x, "evaluate:args", "evargs", NoRet)
    BY <1>6 DEF x
  <2> QED BY <2>1, <2>3, <2>4, <2>5, InnerCall DEF Running
<1>7. ASSUME At("evaluate:head"), Throw(pop(Cur, << 1 >>)) \/ PrintingFails
      PROVE  Inv'
  <2>1. Running("evaluate:head", 1)
    BY <1>7, EvaluateRuns
  <2>2. Good(pop(Cur, << 1 >>))
    BY <2>1, PopOrders DEF Running
  <2> QED BY <1>7, <2>1, <2>2, StepThrow, StepHalt
<1>8. ASSUME At("evaluate:args"), Call(pop(Cur, << 1 >>), "evaluate:tail", "invoke", ret)
      PROVE  Inv'
  <2>1. Running("evaluate:args", 1)
    BY <1>8, EvaluateRuns
  <2>2. Good(pop(Cur, << 1 >>)) /\ Len(pop(Cur, << 1 >>).f.h) = 0
    BY <2>1, PopOrders DEF Running
  <2>3. /\ HeldCount("evaluate:tail", Len(pop(Cur, << 1 >>).f.h))
        /\ "evaluate:tail" \in Pcs /\ "evaluate:tail" \notin Drivers
        /\ "evaluate:tail" \in EvalPcs /\ "evaluate:args" \in EvalPcs
    BY <2>2, PcHeld
  <2> QED BY <1>8, <2>1, <2>2, <2>3, InnerCall DEF Running
<1>9. ASSUME At("evaluate:tail"), Return(Cur, ret)
      PROVE  Inv'
  <2>1. Running("evaluate:tail", 0)
    BY <1>9, EvaluateRuns
  <2> QED BY <1>9, <2>1, StepReturn DEF Running
<1> QED BY <1>1, <1>2, <1>3, <1>4, <1>5, <1>6, <1>7, <1>8, <1>9, Zenon DEF evaluate

LEMMA evargs_Preserves ==
  ASSUME Inv, evargs
  PROVE  Inv'
<1>1. ASSUME At("evargs"), Return(Cur, "C-NULL")
      PROVE  Inv'
  <2>1. Running("evargs", 0) /\ "C-NULL" \in Values
    BY <1>1, OthersRun DEF Values, Data, HoldsNone
  <2> QED BY <1>1, <2>1, StepReturn DEF Running
<1>2. ASSUME At("evargs"), Return(pop(push(Cur, 2), <<2, 1>>), "nil")
      PROVE  Inv'
  <2>1. Running("evargs", 0) /\ "nil" \in Values
    BY <1>2, OthersRun DEF Values, Data, HoldsNone
  <2>2. Good(push(Cur, 2)) /\ Len(push(Cur, 2).f.h) = 2
    BY <2>1, PushOrders DEF Running
  <2>3. /\ Good(pop(push(Cur, 2), <<2, 1>>))
        /\ Len(pop(push(Cur, 2), <<2, 1>>).f.h) = 0
    BY <2>1, <2>2, PopOrders DEF Running
  <2> QED BY <1>2, <2>1, <2>3, StepReturn
<1>3. ASSUME At("evargs"), NEW k \in 1..MaxItems,
             CallEvaluate(push(Cur, k), "evargs:item", k - 1, Operand)
      PROVE  Inv'
  <2>1. Running("evargs", 0) /\ "evargs" \notin EvalPcs
    BY <1>3, OthersRun DEF HoldsNone
  <2>2. k \in Nat /\ k - 1 \in Nat /\ Good(push(Cur, k))
    BY <2>1, PushGood DEF Running
  <2>3. /\ HeldCount("evargs:item", Len(push(Cur, k).f.h)) /\ "evargs:item" \in OtherPcs
        /\ Top.nest > 0 /\ Operand \in Nat
    BY <2>1, PcHeld DEF Running
  <2> QED BY <1>3, <2>1, <2>2, <2>3, StepEvaluate
<1>4. ASSUME At("evargs:item"), Top.n > 0, CallEvaluate(Cur, "evargs:item", Rest, Operand)
      PROVE  Inv'
  <2>1. Running("evargs:item", Len(Top.h)) /\ "evargs:item" \notin EvalPcs
    BY <1>4, OthersRun, PcHeld DEF OtherPcs
  <2>2. Rest \in Nat /\ Good(Cur)
    BY <1>4, <2>1 DEF Running, Rest
  <2>3. /\ HeldCount("evargs:item", Len(Cur.f.h)) /\ "evargs:item" \in OtherPcs
        /\ Top.nest > 0 /\ Operand \in Nat
    BY <2>1, PcHeld DEF Running
  <2> QED BY <1>4, <2>1, <2>2, <2>3, StepEvaluate
<1>5. ASSUME At("evargs:item"),
             Return(pop(push(Cur, 2), ArgHandles(Len(Top.h) + 2)), "pair")
      PROVE  Inv'
  <2> DEFINE x == push(Cur, 2)
             y == pop(x, ArgHandles(Len(Top.h) + 2))
  <2>1. Running("evargs:item", Len(Top.h)) /\ "pair" \in Values
    BY <1>5, OthersRun DEF Values, Data
  <2>2. Good(x) /\ Len(x.f.h) = Len(Top.h) + 2
    BY <2>1, PushGood DEF Running
  <2>3. Good(y) /\ Len(y.f.h) = 0
    <3> HIDE DEF x
    <3>1. Good(pop(x, ArgHandles(Len(x.f.h)))) /\ Len(pop(x, ArgHandles(Len(x.f.h))).f.h) = 0
      BY <2>1, <2>2, PopOrders DEF Running
    <3> QED BY <2>2, <3>1
  <2>4. Return(y, "pair")
    BY <1>5
  <2> HIDE DEF y
  <2> QED BY <2>1, <2>3, <2>4, StepReturn
<1> QED BY <1>1, <1>2, <1>3, <1>4, <1>5, Zenon DEF evargs

LEMMA invoke_Preserves ==
  ASSUME Inv, invoke
  PROVE  Inv'
<1>1. ASSUME At("invoke"), Return(Cur, "C-NULL")
      PROVE  Inv'
  <2>1. Running("invoke", 0) /\ "C-NULL" \in Values
    BY <1>1, OthersRun DEF Values, Data, HoldsNone
  <2> QED BY <1>1, <2>1, StepReturn DEF Running
<1>2. ASSUME At("invoke"), NEW k \in 1..MaxBody,
             CallEvaluate(push(Cur, 1), "invoke:body", k - 1, BodyNest)
      PROVE  Inv'
  <2>1. Running("invoke", 0) /\ "invoke" \notin EvalPcs
    BY <1>2, OthersRun DEF HoldsNone
  <2>2. k - 1 \in Nat /\ Good(push(Cur, 1)) /\ Len(push(Cur, 1).f.h) = 1
    BY <2>1, PushOrders DEF Running
  <2>3. /\ HeldCount("invoke:body", Len(push(Cur, 1).f.h)) /\ "invoke:body" \in OtherPcs
        /\ Top.nest > 0 /\ BodyNest \in Nat
    BY <2>1, <2>2, PcHeld, ConstantsAssumption DEF Running
  <2> QED BY <1>2, <2>1, <2>2, <2>3, StepEvaluate
<1>3. ASSUME At("invoke:body"), Top.n > 0, CallEvaluate(Cur, "invoke:body", Rest, BodyNest)
      PROVE  Inv'
  <2>1. Running("invoke:body", 1) /\ "invoke:body" \notin EvalPcs
    BY <1>3, OthersRun
  <2>2. Rest \in Nat /\ Good(Cur)
    BY <1>3, <2>1 DEF Running, Rest
  <2>3. /\ HeldCount("invoke:body", Len(Cur.f.h)) /\ "invoke:body" \in OtherPcs
        /\ Top.nest > 0 /\ BodyNest \in Nat
    BY <2>1, PcHeld, ConstantsAssumption DEF Running
  <2> QED BY <1>3, <2>1, <2>2, <2>3, StepEvaluate
<1>4. ASSUME At("invoke:body"), Return(pop(Cur, << 1 >>), ret)
      PROVE  Inv'
  <2>1. Running("invoke:body", 1)
    BY <1>4, OthersRun
  <2>2. Good(pop(Cur, << 1 >>)) /\ Len(pop(Cur, << 1 >>).f.h) = 0
    BY <2>1, PopOrders DEF Running
  <2> QED BY <1>4, <2>1, <2>2, StepReturn DEF Running
<1>5. ASSUME NEW pc, At(pc), Halt("crash")
      PROVE  Inv'
  BY <1>5, StepHalt DEF Ends
<1> QED BY <1>1, <1>2, <1>3, <1>4, <1>5, Zenon DEF invoke

LEMMA prim_list_Preserves ==
  ASSUME Inv, prim_list
  PROVE  Inv'
<1>1. ASSUME At("list"), Return(pop(push(Cur, 2), <<2, 1>>), "nil")
      PROVE  Inv'
  <2>1. Running("list", 0) /\ "nil" \in Values
    BY <1>1, OthersRun DEF AllPrims, Values, Data
  <2>2. Good(push(Cur, 2)) /\ Len(push(Cur, 2).f.h) = 2
    BY <2>1, PushOrders DEF Running
  <2>3. /\ Good(pop(push(Cur, 2), <<2, 1>>))
        /\ Len(pop(push(Cur, 2), <<2, 1>>).f.h) = 0
    BY <2>1, <2>2, PopOrders DEF Running
  <2> QED BY <1>1, <2>1, <2>3, StepReturn
<1>2. ASSUME At("list"), NEW k \in 1..MaxItems,
             CallEvaluate(push(Cur, 2), "list:first", k - 1, Operand)
      PROVE  Inv'
  <2>1. Running("list", 0) /\ "list" \notin EvalPcs
    BY <1>2, OthersRun DEF AllPrims
  <2>2. Good(push(Cur, 2)) /\ Len(push(Cur, 2).f.h) = 2
    BY <2>1, PushOrders DEF Running
  <2>3. /\ HeldCount("list:first", Len(push(Cur, 2).f.h)) /\ "list:first" \in OtherPcs
        /\ Top.nest > 0 /\ Operand \in Nat
    BY <2>1, <2>2, PcHeld DEF Running, HoldsTwo, AllPrims
  <2>4. k - 1 \in Nat
    BY <1>2, <2>1 DEF Running
  <2> QED BY <1>2, <2>1, <2>2, <2>3, <2>4, StepEvaluate
<1>3. ASSUME At("list:first"), Top.n > 0,
             CallEvaluate(push(Cur, 1), "list:next", Rest, Operand)
      PROVE  Inv'
  <2>1. Running("list:first", 2) /\ "list:first" \notin EvalPcs
    BY <1>3, OthersRun DEF HoldsTwo
  <2>2. Good(push(Cur, 1)) /\ Len(push(Cur, 1).f.h) = 3
    BY <2>1, PushOrders DEF Running
  <2>3. /\ HeldCount("list:next", Len(push(Cur, 1).f.h)) /\ "list:next" \in OtherPcs
        /\ Top.nest > 0 /\ Operand \in Nat
    BY <2>1, <2>2, PcHeld DEF Running, HoldsThree
  <2>4. Rest \in Nat
    BY <1>3, <2>1 DEF Running, Rest
  <2> QED BY <1>3, <2>1, <2>2, <2>3, <2>4, StepEvaluate
<1>4. ASSUME At("list:first"), Return(pop(push(Cur, 1), <<3, 2, 1>>), "pair")
      PROVE  Inv'
  <2>1. Running("list:first", 2) /\ "pair" \in Values
    BY <1>4, OthersRun DEF HoldsTwo, Values, Data
  <2>2. Good(push(Cur, 1)) /\ Len(push(Cur, 1).f.h) = 3
    BY <2>1, PushOrders DEF Running
  <2>3. /\ Good(pop(push(Cur, 1), <<3, 2, 1>>))
        /\ Len(pop(push(Cur, 1), <<3, 2, 1>>).f.h) = 0
    BY <2>1, <2>2, PopOrders DEF Running
  <2> QED BY <1>4, <2>1, <2>3, StepReturn
<1>5. ASSUME At("list:next"), Top.n > 0,
             CallEvaluate(pop(push(Cur, 1), << 4 >>), "list:next", Rest, Operand)
      PROVE  Inv'
  <2>1. Running("list:next", 3) /\ "list:next" \notin EvalPcs
    BY <1>5, OthersRun DEF HoldsThree
  <2>2. Good(push(Cur, 1)) /\ Len(push(Cur, 1).f.h) = 4
    BY <2>1, PushOrders DEF Running
  <2>3. Good(pop(push(Cur, 1), << 4 >>)) /\ Len(pop(push(Cur, 1), << 4 >>).f.h) = 3
    BY <2>1, <2>2, PopOrders DEF Running
  <2>4. /\ HeldCount("list:next", Len(pop(push(Cur, 1), << 4 >>).f.h)) /\ "list:next" \in OtherPcs
        /\ Top.nest > 0 /\ Operand \in Nat
    BY <2>1, <2>3, PcHeld DEF Running, HoldsThree
  <2>5. Rest \in Nat
    BY <1>5, <2>1 DEF Running, Rest
  <2> QED BY <1>5, <2>1, <2>3, <2>4, <2>5, StepEvaluate
<1>6. ASSUME At("list:next"),
             Return(pop(pop(push(Cur, 1), << 4 >>), <<3, 2, 1>>), "pair")
      PROVE  Inv'
  <2>1. Running("list:next", 3) /\ "pair" \in Values
    BY <1>6, OthersRun DEF HoldsThree, Values, Data
  <2>2. Good(push(Cur, 1)) /\ Len(push(Cur, 1).f.h) = 4
    BY <2>1, PushOrders DEF Running
  <2>3. Good(pop(push(Cur, 1), << 4 >>)) /\ Len(pop(push(Cur, 1), << 4 >>).f.h) = 3
    BY <2>1, <2>2, PopOrders DEF Running
  <2>4. /\ Good(pop(pop(push(Cur, 1), << 4 >>), <<3, 2, 1>>))
        /\ Len(pop(pop(push(Cur, 1), << 4 >>), <<3, 2, 1>>).f.h) = 0
    BY <2>1, <2>3, PopOrders DEF Running
  <2> QED BY <1>6, <2>1, <2>4, StepReturn
<1> QED BY <1>1, <1>2, <1>3, <1>4, <1>5, <1>6, Zenon
       DEF prim_list

LEMMA prim_set_Preserves ==
  ASSUME Inv, prim_set
  PROVE  Inv'
<1>1. ASSUME NEW p \in Setters, At(p), Throw(Cur)
      PROVE  Inv'
  <2>1. Running(p, 0)
    BY <1>1, OthersRun DEF AllPrims, Setters
  <2> QED BY <1>1, <2>1, StepThrow DEF Running
<1>2. ASSUME NEW p \in Setters, At(p),
             CallEvaluate(push(Cur, 1), "set:first", 0, Operand)
      PROVE  Inv'
  <2>1. Running(p, 0) /\ p \notin EvalPcs
    BY <1>2, OthersRun DEF AllPrims, Setters
  <2>2. Good(push(Cur, 1)) /\ Len(push(Cur, 1).f.h) = 1
    BY <2>1, PushOrders DEF Running
  <2>3. /\ HeldCount("set:first", Len(push(Cur, 1).f.h)) /\ "set:first" \in OtherPcs
        /\ Top.nest > 0 /\ Operand \in Nat
    BY <2>1, <2>2, PcHeld DEF Running, AllPrims, Setters
  <2> QED BY <1>2, <2>1, <2>2, <2>3, StepEvaluate
<1>3. ASSUME NEW pc, At(pc), Halt("crash")
      PROVE  Inv'
  BY <1>3, StepHalt DEF Ends
<1>4. ASSUME At("set:first"), Throw(pop(Cur, << 1 >>))
      PROVE  Inv'
  <2>1. Running("set:first", 1)
    BY <1>4, OthersRun
  <2>2. Good(pop(Cur, << 1 >>)) /\ Len(pop(Cur, << 1 >>).f.h) = 0
    BY <2>1, PopOrders DEF Running
  <2> QED BY <1>4, <2>1, <2>2, StepThrow
<1>5. ASSUME At("set:first"), CallEvaluate(push(Cur, 1), "set:second", 0, Operand)
      PROVE  Inv'
  <2>1. Running("set:first", 1) /\ "set:first" \notin EvalPcs
    BY <1>5, OthersRun
  <2>2. Good(push(Cur, 1)) /\ Len(push(Cur, 1).f.h) = 2
    BY <2>1, PushOrders DEF Running
  <2>3. /\ HeldCount("set:second", Len(push(Cur, 1).f.h)) /\ "set:second" \in OtherPcs
        /\ Top.nest > 0 /\ Operand \in Nat
    BY <2>1, <2>2, PcHeld DEF Running, HoldsTwo
  <2> QED BY <1>5, <2>1, <2>2, <2>3, StepEvaluate
<1>6. ASSUME At("set:second"), Return(pop(Cur, <<2, 1>>), "pair")
      PROVE  Inv'
  <2>1. Running("set:second", 2) /\ "pair" \in Values
    BY <1>6, OthersRun DEF HoldsTwo, Values, Data
  <2>2. Good(pop(Cur, <<2, 1>>)) /\ Len(pop(Cur, <<2, 1>>).f.h) = 0
    BY <2>1, PopOrders DEF Running
  <2> QED BY <1>6, <2>1, <2>2, StepReturn
<1> QED BY <1>1, <1>2, <1>3, <1>4, <1>5, <1>6, Zenon
       DEF prim_set

LEMMA prim_cons_Preserves ==
  ASSUME Inv, prim_cons
  PROVE  Inv'
<1>1. ASSUME At("cons"), Throw(Cur)
      PROVE  Inv'
  <2>1. Running("cons", 0)
    BY <1>1, OthersRun DEF AllPrims
  <2> QED BY <1>1, <2>1, StepThrow DEF Running
<1>2. ASSUME At("cons"), CallEvaluate(push(Cur, 1), "cons:car", 0, Operand)
      PROVE  Inv'
  <2>1. Running("cons", 0) /\ "cons" \notin EvalPcs
    BY <1>2, OthersRun DEF AllPrims
  <2>2. Good(push(Cur, 1)) /\ Len(push(Cur, 1).f.h) = 1
    BY <2>1, PushOrders DEF Running
  <2>3. /\ HeldCount("cons:car", Len(push(Cur, 1).f.h)) /\ "cons:car" \in OtherPcs
        /\ Top.nest > 0 /\ Operand \in Nat
    BY <2>1, <2>2, PcHeld DEF Running, AllPrims
  <2> QED BY <1>2, <2>1, <2>2, <2>3, StepEvaluate
<1>3. ASSUME At("cons:car"), CallEvaluate(Cur, "cons:cdr", 0, Operand)
      PROVE  Inv'
  <2>1. Running("cons:car", 1) /\ "cons:car" \notin EvalPcs
    BY <1>3, OthersRun
  <2>2. /\ HeldCount("cons:cdr", Len(Cur.f.h)) /\ "cons:cdr" \in OtherPcs
        /\ Top.nest > 0 /\ Operand \in Nat
    BY <2>1, PcHeld DEF Running
  <2> QED BY <1>3, <2>1, <2>2, StepEvaluate DEF Running
<1>4. ASSUME At("cons:cdr"), Return(pop(Cur, << 1 >>), "pair")
      PROVE  Inv'
  <2>1. Running("cons:cdr", 1) /\ "pair" \in Values
    BY <1>4, OthersRun DEF Values, Data
  <2>2. Good(pop(Cur, << 1 >>)) /\ Len(pop(Cur, << 1 >>).f.h) = 0
    BY <2>1, PopOrders DEF Running
  <2> QED BY <1>4, <2>1, <2>2, StepReturn
<1> QED BY <1>1, <1>2, <1>3, <1>4, Zenon
       DEF prim_cons

LEMMA prim_length_Preserves ==
  ASSUME Inv, prim_length
  PROVE  Inv'
<1>1. ASSUME At("length"), Throw(Cur)
      PROVE  Inv'
  <2>1. Running("length", 0)
    BY <1>1, OthersRun DEF AllPrims
  <2> QED BY <1>1, <2>1, StepThrow DEF Running
<1>2. ASSUME At("length"), CallEvaluate(Cur, "length:list", 0, Operand)
      PROVE  Inv'
  <2>1. Running("length", 0) /\ "length" \notin EvalPcs
    BY <1>2, OthersRun DEF AllPrims
  <2>2. /\ HeldCount("length:list", Len(Cur.f.h)) /\ "length:list" \in OtherPcs
        /\ Top.nest > 0 /\ Operand \in Nat
    BY <2>1, PcHeld DEF Running, HoldsNone, AllPrims
  <2> QED BY <1>2, <2>1, <2>2, StepEvaluate DEF Running
<1>3. ASSUME At("length:list"), Return(Cur, "datum")
      PROVE  Inv'
  <2>1. Running("length:list", 0) /\ "datum" \in Values
    BY <1>3, OthersRun DEF HoldsNone, Values, Data
  <2> QED BY <1>3, <2>1, StepReturn DEF Running
<1>4. ASSUME At("length:list"), Throw(Cur)
      PROVE  Inv'
  <2>1. Running("length:list", 0)
    BY <1>4, OthersRun DEF HoldsNone
  <2> QED BY <1>4, <2>1, StepThrow DEF Running
<1> QED BY <1>1, <1>2, <1>3, <1>4, Zenon
       DEF prim_length

LEMMA prim_plus_Preserves ==
  ASSUME Inv, prim_plus
  PROVE  Inv'
<1>1. ASSUME NEW p \in Adders, At(p), Call(Cur, "add:args", "evargs", NoRet)
      PROVE  Inv'
  <2>1. Running(p, 0) /\ p \notin EvalPcs
    BY <1>1, OthersRun DEF AllPrims, Adders
  <2>2. /\ HeldCount("add:args", Len(Cur.f.h)) /\ "add:args" \in OtherPcs
        /\ Top.nest > 0
    BY <2>1, PcHeld DEF Running, HoldsNone, AllPrims, Adders
  <2> QED BY <1>1, <2>1, <2>2, StepCall DEF Running
<1>2. ASSUME At("add:args"), Return(Cur, "C-NULL")
      PROVE  Inv'
  <2>1. Running("add:args", 0) /\ "C-NULL" \in Values
    BY <1>2, OthersRun DEF HoldsNone, Values, Data
  <2> QED BY <1>2, <2>1, StepReturn DEF Running
<1>3. ASSUME At("add:args"), Return(pop(push(Cur, 1), << 1 >>), "datum")
      PROVE  Inv'
  <2>1. Running("add:args", 0) /\ "datum" \in Values
    BY <1>3, OthersRun DEF HoldsNone, Values, Data
  <2>2. Good(push(Cur, 1)) /\ Len(push(Cur, 1).f.h) = 1
    BY <2>1, PushOrders DEF Running
  <2>3. Good(pop(push(Cur, 1), << 1 >>)) /\ Len(pop(push(Cur, 1), << 1 >>).f.h) = 0
    BY <2>1, <2>2, PopOrders DEF Running
  <2> QED BY <1>3, <2>1, <2>3, StepReturn
<1> QED BY <1>1, <1>2, <1>3, Zenon
       DEF prim_plus

LEMMA prim_minus_Preserves ==
  ASSUME Inv, prim_minus
  PROVE  Inv'
<1>1. ASSUME At("-"), Call(Cur, "minus:args", "evargs", NoRet)
      PROVE  Inv'
  <2>1. Running("-", 0) /\ "-" \notin EvalPcs
    BY <1>1, OthersRun DEF AllPrims
  <2>2. /\ HeldCount("minus:args", Len(Cur.f.h)) /\ "minus:args" \in OtherPcs
        /\ Top.nest > 0
    BY <2>1, PcHeld DEF Running, HoldsNone, AllPrims
  <2> QED BY <1>1, <2>1, <2>2, StepCall DEF Running
<1>2. ASSUME At("minus:args"), Return(Cur, "C-NULL")
      PROVE  Inv'
  <2>1. Running("minus:args", 0) /\ "C-NULL" \in Values
    BY <1>2, OthersRun DEF HoldsNone, Values, Data
  <2> QED BY <1>2, <2>1, StepReturn DEF Running
<1>3. ASSUME NEW pc, At(pc), Halt("crash")
      PROVE  Inv'
  BY <1>3, StepHalt DEF Ends
<1>4. ASSUME At("minus:args"), Return(pop(push(Cur, 1), << 1 >>), "datum")
      PROVE  Inv'
  <2>1. Running("minus:args", 0) /\ "datum" \in Values
    BY <1>4, OthersRun DEF HoldsNone, Values, Data
  <2>2. Good(push(Cur, 1)) /\ Len(push(Cur, 1).f.h) = 1
    BY <2>1, PushOrders DEF Running
  <2>3. Good(pop(push(Cur, 1), << 1 >>)) /\ Len(pop(push(Cur, 1), << 1 >>).f.h) = 0
    BY <2>1, <2>2, PopOrders DEF Running
  <2> QED BY <1>4, <2>1, <2>3, StepReturn
<1> QED BY <1>1, <1>2, <1>3, <1>4, Zenon
       DEF prim_minus

LEMMA prim_number_equals_Preserves ==
  ASSUME Inv, prim_number_equals
  PROVE  Inv'
<1>1. ASSUME At("="), Call(Cur, "equal:args", "evargs", NoRet)
      PROVE  Inv'
  <2>1. Running("=", 0) /\ "=" \notin EvalPcs
    BY <1>1, OthersRun DEF AllPrims
  <2>2. /\ HeldCount("equal:args", Len(Cur.f.h)) /\ "equal:args" \in OtherPcs
        /\ Top.nest > 0
    BY <2>1, PcHeld DEF Running, HoldsNone, AllPrims
  <2> QED BY <1>1, <2>1, <2>2, StepCall DEF Running
<1>2. ASSUME At("equal:args"), Return(Cur, "C-NULL")
      PROVE  Inv'
  <2>1. Running("equal:args", 0) /\ "C-NULL" \in Values
    BY <1>2, OthersRun DEF HoldsNone, Values, Data
  <2> QED BY <1>2, <2>1, StepReturn DEF Running
<1>3. ASSUME At("equal:args"), Return(Cur, "datum")
      PROVE  Inv'
  <2>1. Running("equal:args", 0) /\ "datum" \in Values
    BY <1>3, OthersRun DEF HoldsNone, Values, Data
  <2> QED BY <1>3, <2>1, StepReturn DEF Running
<1> QED BY <1>1, <1>2, <1>3, Zenon
       DEF prim_number_equals

LEMMA prim_if_Preserves ==
  ASSUME Inv, prim_if
  PROVE  Inv'
<1>1. ASSUME At("if"), Return(Cur, "C-NULL")
      PROVE  Inv'
  <2>1. Running("if", 0) /\ "C-NULL" \in Values
    BY <1>1, OthersRun DEF AllPrims, Values, Data
  <2> QED BY <1>1, <2>1, StepReturn DEF Running
<1>2. ASSUME At("if"), CallEvaluate(push(Cur, 1), "if:pred", 0, Operand)
      PROVE  Inv'
  <2>1. Running("if", 0) /\ "if" \notin EvalPcs
    BY <1>2, OthersRun DEF AllPrims
  <2>2. Good(push(Cur, 1)) /\ Len(push(Cur, 1).f.h) = 1
    BY <2>1, PushOrders DEF Running
  <2>3. /\ HeldCount("if:pred", Len(push(Cur, 1).f.h)) /\ "if:pred" \in OtherPcs
        /\ Top.nest > 0 /\ Operand \in Nat
    BY <2>1, <2>2, PcHeld DEF Running, AllPrims
  <2> QED BY <1>2, <2>1, <2>2, <2>3, StepEvaluate
<1>3. ASSUME At("if:pred"), Return(pop(Cur, << 1 >>), "C-NULL")
      PROVE  Inv'
  <2>1. Running("if:pred", 1) /\ "C-NULL" \in Values
    BY <1>3, OthersRun DEF Values, Data
  <2>2. Good(pop(Cur, << 1 >>)) /\ Len(pop(Cur, << 1 >>).f.h) = 0
    BY <2>1, PopOrders DEF Running
  <2> QED BY <1>3, <2>1, <2>2, StepReturn
<1>4. ASSUME At("if:pred"), CallEvaluate(pop(Cur, << 1 >>), "if:branch", 0, Operand)
      PROVE  Inv'
  <2>1. Running("if:pred", 1) /\ "if:pred" \notin EvalPcs
    BY <1>4, OthersRun
  <2>2. Good(pop(Cur, << 1 >>)) /\ Len(pop(Cur, << 1 >>).f.h) = 0
    BY <2>1, PopOrders DEF Running
  <2>3. /\ HeldCount("if:branch", Len(pop(Cur, << 1 >>).f.h)) /\ "if:branch" \in OtherPcs
        /\ Top.nest > 0 /\ Operand \in Nat
    BY <2>1, <2>2, PcHeld DEF Running, HoldsNone
  <2> QED BY <1>4, <2>1, <2>2, <2>3, StepEvaluate
<1>5. ASSUME At("if:pred"), Throw(Cur)
      PROVE  Inv'
  <2>1. Running("if:pred", 1)
    BY <1>5, OthersRun
  <2> QED BY <1>5, <2>1, StepThrow DEF Running
<1>6. ASSUME NEW pc, At(pc), Halt("exit") \/ PrintingFails
      PROVE  Inv'
  BY <1>6, StepHalt DEF Ends
<1>7. ASSUME At("if:branch"), Return(Cur, ret)
      PROVE  Inv'
  <2>1. Running("if:branch", 0)
    BY <1>7, OthersRun DEF HoldsNone
  <2> QED BY <1>7, <2>1, StepReturn DEF Running
<1> QED BY <1>1, <1>2, <1>3, <1>4, <1>5, <1>6, <1>7, Zenon
       DEF prim_if

LEMMA prim_lambda_Preserves ==
  ASSUME Inv, prim_lambda
  PROVE  Inv'
<1>1. ASSUME At("lambda"), Return(Cur, "C-NULL")
      PROVE  Inv'
  <2>1. Running("lambda", 0) /\ "C-NULL" \in Values
    BY <1>1, OthersRun DEF AllPrims, Values, Data
  <2> QED BY <1>1, <2>1, StepReturn DEF Running
<1>2. ASSUME At("lambda"), Return(pop(push(Cur, 2), <<2, 1>>), "function")
      PROVE  Inv'
  <2>1. Running("lambda", 0) /\ "function" \in Values
    BY <1>2, OthersRun DEF AllPrims, Values, Data
  <2>2. Good(push(Cur, 2)) /\ Len(push(Cur, 2).f.h) = 2
    BY <2>1, PushOrders DEF Running
  <2>3. /\ Good(pop(push(Cur, 2), <<2, 1>>))
        /\ Len(pop(push(Cur, 2), <<2, 1>>).f.h) = 0
    BY <2>1, <2>2, PopOrders DEF Running
  <2> QED BY <1>2, <2>1, <2>3, StepReturn
<1> QED BY <1>1, <1>2, Zenon
       DEF prim_lambda

LEMMA prim_deflibrary_Preserves ==
  ASSUME Inv, prim_deflibrary
  PROVE  Inv'
<1>1. ASSUME NEW pc, At(pc), Halt("crash")
      PROVE  Inv'
  BY <1>1, StepHalt DEF Ends
<1>2. ASSUME NEW p \in LibDefiners, At(p), Throw(Cur)
      PROVE  Inv'
  <2>1. Running(p, 0)
    BY <1>2, OthersRun DEF AllPrims, LibDefiners
  <2> QED BY <1>2, <2>1, StepThrow DEF Running
<1>3. ASSUME NEW p \in LibDefiners, At(p), Return(Cur, "C-NULL")
      PROVE  Inv'
  <2>1. Running(p, 0) /\ "C-NULL" \in Values
    BY <1>3, OthersRun DEF AllPrims, LibDefiners, Values, Data
  <2> QED BY <1>3, <2>1, StepReturn DEF Running
<1>4. ASSUME NEW p \in LibDefiners, At(p),
             Return(pop(push(Cur, 2), <<2, 1>>), "function")
      PROVE  Inv'
  <2>1. Running(p, 0) /\ "function" \in Values
    BY <1>4, OthersRun DEF AllPrims, LibDefiners, Values, Data
  <2>2. Good(push(Cur, 2)) /\ Len(push(Cur, 2).f.h) = 2
    BY <2>1, PushOrders DEF Running
  <2>3. /\ Good(pop(push(Cur, 2), <<2, 1>>))
        /\ Len(pop(push(Cur, 2), <<2, 1>>).f.h) = 0
    BY <2>1, <2>2, PopOrders DEF Running
  <2> QED BY <1>4, <2>1, <2>3, StepReturn
<1> QED BY <1>1, <1>2, <1>3, <1>4, Zenon
       DEF prim_deflibrary

LEMMA prim_quote_Preserves ==
  ASSUME Inv, prim_quote
  PROVE  Inv'
<1>1. ASSUME At("quote"), Throw(Cur)
      PROVE  Inv'
  <2>1. Running("quote", 0)
    BY <1>1, OthersRun DEF AllPrims
  <2> QED BY <1>1, <2>1, StepThrow DEF Running
<1>2. ASSUME At("quote"), NEW v \in Data, Return(Cur, v)
      PROVE  Inv'
  <2>1. Running("quote", 0) /\ v \in Values
    BY <1>2, OthersRun DEF AllPrims, Values
  <2> QED BY <1>2, <2>1, StepReturn DEF Running
<1> QED BY <1>1, <1>2, Zenon
       DEF prim_quote

LEMMA prim_eq_Preserves ==
  ASSUME Inv, prim_eq
  PROVE  Inv'
<1>1. ASSUME At("eq?"), Throw(Cur)
      PROVE  Inv'
  <2>1. Running("eq?", 0)
    BY <1>1, OthersRun DEF AllPrims
  <2> QED BY <1>1, <2>1, StepThrow DEF Running
<1>2. ASSUME At("eq?"), NEW n \in 0..1, CallEvaluate(Cur, "eq?:one", n, Operand)
      PROVE  Inv'
  <2>1. Running("eq?", 0) /\ "eq?" \notin EvalPcs
    BY <1>2, OthersRun DEF AllPrims
  <2>2. /\ HeldCount("eq?:one", Len(Cur.f.h)) /\ "eq?:one" \in OtherPcs
        /\ Top.nest > 0 /\ Operand \in Nat
    BY <2>1, PcHeld DEF Running, HoldsNone, AllPrims
  <2>3. n \in Nat
    BY <1>2, <2>1 DEF Running
  <2> QED BY <1>2, <2>1, <2>2, <2>3, StepEvaluate DEF Running
<1>3. ASSUME At("eq?:one"), CallEvaluate(Cur, "eq?:two", 0, Operand)
      PROVE  Inv'
  <2>1. Running("eq?:one", 0) /\ "eq?:one" \notin EvalPcs
    BY <1>3, OthersRun DEF HoldsNone
  <2>2. /\ HeldCount("eq?:two", Len(Cur.f.h)) /\ "eq?:two" \in OtherPcs
        /\ Top.nest > 0 /\ Operand \in Nat
    BY <2>1, PcHeld DEF Running, HoldsNone
  <2> QED BY <1>3, <2>1, <2>2, StepEvaluate DEF Running
<1>4. ASSUME NEW pc, At(pc), Halt("crash")
      PROVE  Inv'
  BY <1>4, StepHalt DEF Ends
<1>5. ASSUME At("eq?:two"), Return(Cur, "datum")
      PROVE  Inv'
  <2>1. Running("eq?:two", 0) /\ "datum" \in Values
    BY <1>5, OthersRun DEF HoldsNone, Values, Data
  <2> QED BY <1>5, <2>1, StepReturn DEF Running
<1> QED BY <1>1, <1>2, <1>3, <1>4, <1>5, Zenon
       DEF prim_eq

LEMMA prim_error_Preserves ==
  ASSUME Inv, prim_error
  PROVE  Inv'
<1>1. ASSUME At("error"), Throw(Cur)
      PROVE  Inv'
  <2>1. Running("error", 0)
    BY <1>1, OthersRun DEF AllPrims
  <2> QED BY <1>1, <2>1, StepThrow DEF Running
<1>2. ASSUME NEW pc, At(pc), Halt("crash")
      PROVE  Inv'
  BY <1>2, StepHalt DEF Ends
<1>3. ASSUME At("error"), CallEvaluate(Cur, "error:form", 0, Operand)
      PROVE  Inv'
  <2>1. Running("error", 0) /\ "error" \notin EvalPcs
    BY <1>3, OthersRun DEF AllPrims
  <2>2. /\ HeldCount("error:form", Len(Cur.f.h)) /\ "error:form" \in OtherPcs
        /\ Top.nest > 0 /\ Operand \in Nat
    BY <2>1, PcHeld DEF Running, HoldsNone, AllPrims
  <2> QED BY <1>3, <2>1, <2>2, StepEvaluate DEF Running
<1>4. ASSUME At("error:form"), Throw(Cur)
      PROVE  Inv'
  <2>1. Running("error:form", 0)
    BY <1>4, OthersRun DEF HoldsNone
  <2> QED BY <1>4, <2>1, StepThrow DEF Running
<1>5. ASSUME NEW pc, At(pc), PrintingFails
      PROVE  Inv'
  BY <1>5, StepHalt DEF Ends
<1> QED BY <1>1, <1>2, <1>3, <1>4, <1>5, Zenon
       DEF prim_error

LEMMA prim_dump_Preserves ==
  ASSUME Inv, prim_dump
  PROVE  Inv'
<1>1. ASSUME NEW p \in Dumpers, At(p), Return(Cur, "nil")
      PROVE  Inv'
  <2>1. Running(p, 0) /\ "nil" \in Values
    BY <1>1, OthersRun DEF AllPrims, Dumpers, Values, Data
  <2> QED BY <1>1, <2>1, StepReturn DEF Running
<1>2. ASSUME NEW pc, At(pc), PrintsForever \/ Halt("crash")
      PROVE  Inv'
  BY <1>2, StepHalt DEF Ends
<1> QED BY <1>1, <1>2, Zenon
       DEF prim_dump

(* A function of an evaluation is never the only one on the stack.         *)
LEMMA RunningDepth ==
  ASSUME Inv, NEW pc, NEW k, Running(pc, k)
  PROVE  vm = "running" /\ Len(stack) > 1
<1>1. vm = "running" /\ Top.pc \notin Drivers
  BY DEF Running
<1>2. Len(stack) \in Nat \ {0} /\ Len(stack) # 1
  BY <1>1, RunningFacts DEF FrameOK
<1> DEFINE l == Len(stack)
<1> HIDE DEF l
<1>3. l \in Nat \ {0} /\ l # 1
  BY <1>2 DEF l
<1>4. l > 1
  BY <1>3
<1> QED BY <1>1, <1>4 DEF l

LEMMA prim_define_Preserves ==
  ASSUME Inv, prim_define
  PROVE  Inv'
<1>1. ASSUME At("define"), Throw(Cur)
      PROVE  Inv'
  <2>1. Running("define", 0)
    BY <1>1, OthersRun DEF AllPrims
  <2> QED BY <1>1, <2>1, StepThrow DEF Running
<1>2. ASSUME NEW pc, At(pc), Halt("crash")
      PROVE  Inv'
  BY <1>2, StepHalt DEF Ends
<1>3. ASSUME At("define"), CallEvaluate(push(Cur, 1), "define:value", 0, Operand)
      PROVE  Inv'
  <2>1. Running("define", 0) /\ "define" \notin EvalPcs
    BY <1>3, OthersRun DEF AllPrims
  <2>2. Good(push(Cur, 1)) /\ Len(push(Cur, 1).f.h) = 1
    BY <2>1, PushOrders DEF Running
  <2>3. /\ HeldCount("define:value", Len(push(Cur, 1).f.h)) /\ "define:value" \in OtherPcs
        /\ Top.nest > 0 /\ Operand \in Nat
    BY <2>1, <2>2, PcHeld DEF Running
  <2> QED BY <1>3, <2>1, <2>2, <2>3, StepEvaluate
<1>4. At("define:value") => /\ Good(pop(Cur, << 1 >>)) /\ Len(pop(Cur, << 1 >>).f.h) = 0
                            /\ vm = "running" /\ Len(stack) > 1
  <2> HAVE At("define:value")
  <2>1. Running("define:value", 1)
    BY OthersRun
  <2> QED BY <2>1, PopOrders, RunningDepth DEF Running
<1>5. ASSUME At("define:value"), Leaves(pop(Cur, << 1 >>), "datum"), added' = added + 1
      PROVE  Inv'
  <2>1. added \in Nat /\ "datum" \in Values \cup {NoRet}
    BY DEF Inv, TypeOK, Values, Data
  <2>2. added' \in Nat
    BY <1>5, <2>1
  <2> QED BY <1>4, <1>5, <2>1, <2>2, LeavesPreserves
<1>6. ASSUME At("define:value"), Dies(pop(Cur, << 1 >>).hs)
      PROVE  Inv'
  BY <1>4, <1>6, DiesPreserves DEF Good
<1> QED BY <1>1, <1>2, <1>3, <1>5, <1>6, Zenon
       DEF prim_define

(***************************************************************************)
(* The drivers.                                                            *)
(***************************************************************************)
LEMMA DriverFacts ==
  ASSUME Inv, NEW pc \in Drivers, At(pc)
  PROVE  /\ vm = "running" /\ Top.pc = pc /\ Len(stack) = 1
         /\ Top \in FrameType /\ Top = stack[1] /\ FrameOK(Top, 1)
         /\ Good(Cur) /\ Cur.f = Top
         /\ Len(Top.h) = (IF pc \in ReplPcs THEN 1 ELSE 0)
         /\ pc \in ReplPcs => Top.n = 1
         /\ Tidy(stack, 1, hs) /\ hs \in HandleStacks /\ hs.st = "ok"
         /\ level = 0 /\ evalStack \in Nat /\ ret \in Values \cup {NoRet}
<1>1. vm = "running" /\ Top.pc = pc
  BY DEF At
<1>2. /\ Top \in FrameType /\ Top = stack[Len(stack)] /\ FrameOK(Top, Len(stack))
      /\ Good(Cur) /\ Cur.f = Top /\ Len(stack) \in Nat \ {0}
      /\ Tidy(stack, Len(stack), hs) /\ hs \in HandleStacks /\ hs.st = "ok"
      /\ level = Cardinality(EvalSet(stack, Len(stack))) /\ evalStack \in Nat
  BY <1>1, CurGood, RunningFacts
<1>3. Len(stack) = 1
  BY <1>1, <1>2 DEF FrameOK
<1>4. HeldCount(pc, Len(Top.h)) /\ (pc \in ReplPcs => Top.n = 1)
  BY <1>1, <1>2 DEF FrameOK
<1>5. Len(Top.h) = (IF pc \in ReplPcs THEN 1 ELSE 0)
  BY <1>4 DEF HeldCount, HoldsOne, HoldsTwo, HoldsThree, ReplPcs, BootPcs, Drivers
<1>6. EvalSet(stack, 1) = {}
  BY <1>1, <1>2, <1>3, PcFacts DEF EvalSet, IsEval
<1>7. level = 0
  BY <1>2, <1>3, <1>6, FS_EmptySet
<1> QED BY <1>1, <1>2, <1>3, <1>4, <1>5, <1>7 DEF Inv, TypeOK

LEMMA PeaksType ==
  ASSUME NEW nest \in Nat
  PROVE  Peaks(nest) \subseteq Nat
BY DEF Peaks

(* A driver has read a form and hands it to evaluate.                      *)
LEMMA ReadPreserves ==
  ASSUME Inv, NEW pc \in Drivers, At(pc), NEW next \in Drivers,
         next \in ReplPcs <=> pc \in ReplPcs,
         NEW n, n = (IF pc \in ReplPcs THEN 1 ELSE 0),
         NEW nest \in Nat, NEW held \in Peaks(nest),
         CallEvaluate(read_intern(Cur, held), next, n, nest)
  PROVE  Inv'
<1> DEFINE x == read_intern(Cur, held)
<1>1. /\ vm = "running" /\ Top.pc = pc /\ Len(stack) = 1
      /\ Len(Top.h) = (IF pc \in ReplPcs THEN 1 ELSE 0)
  BY DriverFacts
<1>2. Good(x) /\ x.f = Top
  BY <1>1, PeaksType, ReadInternGood
<1> HIDE DEF x
<1>3. /\ next \in Pcs /\ next \notin EvalPcs /\ Top.pc \notin EvalPcs
  BY <1>1, PcFacts
<1>4. HeldCount(next, Len(x.f.h))
  BY <1>1, <1>2 DEF HeldCount, HoldsOne, HoldsTwo, HoldsThree, ReplPcs, BootPcs, Drivers
<1>5. SuspendOK(x, next, n)
  BY <1>1, <1>3, <1>4 DEF SuspendOK
<1> QED BY <1>1, <1>2, <1>5, CallEvaluatePreserves DEF x

(* A driver goes on with the next form.                                    *)
LEMMA ResumePreserves ==
  ASSUME Inv, NEW pc \in Drivers, At(pc), NEW next \in Drivers,
         next \in ReplPcs <=> pc \in ReplPcs,
         stack' = <<[Top EXCEPT !.pc = next]>>, ret' = NoRet, added' = 0,
         UNCHANGED <<hs, level, evalStack, vm>>
  PROVE  Inv'
<1> DEFINE g == [Top EXCEPT !.pc = next]
<1>1. /\ vm = "running" /\ Top.pc = pc /\ Top \in FrameType /\ Top = stack[1]
      /\ FrameOK(Top, 1) /\ Len(Top.h) = (IF pc \in ReplPcs THEN 1 ELSE 0)
      /\ pc \in ReplPcs => Top.n = 1
      /\ Tidy(stack, 1, hs) /\ hs \in HandleStacks /\ hs.st = "ok"
      /\ level = 0 /\ evalStack \in Nat
  BY DriverFacts
<1>2. next \in Pcs
  BY PcFacts
<1>3. /\ g \in FrameType /\ g.pc = next /\ g.n = Top.n /\ g.h = Top.h
      /\ g.base = Top.base
  BY <1>1, <1>2 DEF FrameType
<1> HIDE DEF g
<1>4. HeldCount(next, Len(g.h))
  BY <1>1, <1>3 DEF HeldCount, HoldsOne, HoldsTwo, HoldsThree, ReplPcs, BootPcs, Drivers
<1>5. FrameOK(g, 1)
  BY <1>1, <1>3, <1>4 DEF FrameOK
<1>6. stack' = <<g>> /\ stack'[1] = g
  BY DEF g
<1>7. Tidy(stack', 1, hs')
  BY <1>1, <1>3, <1>6 DEF Tidy, Holds, Edge, Owned
<1> QED BY <1>1, <1>5, <1>6, <1>7, AlonePreserves

LEMMA StartReplPreserves ==
  ASSUME Inv, At("load_lib_scm"), start_repl
  PROVE  Inv'
<1> DEFINE H == handle_push(hs, 1)
           g == [NewFrame("run_in_thread", get_mark(H), 0, hs.top) EXCEPT !.h = <<H.top>>]
<1>1. /\ vm = "running" /\ Top = stack[1] /\ Len(stack) = 1 /\ Len(Top.h) = 0
      /\ Tidy(stack, 1, hs) /\ hs \in HandleStacks /\ hs.st = "ok"
      /\ ret \in Values \cup {NoRet} /\ added \in Nat
  <2>1. "load_lib_scm" \in Drivers /\ "load_lib_scm" \notin ReplPcs
    BY DEF Drivers, BootPcs, ReplPcs
  <2>2. added \in Nat
    BY DEF Inv, TypeOK
  <2> QED BY <2>1, <2>2, DriverFacts
<1>2. hs.top = 0
  BY <1>1 DEF Tidy, Edge
<1>3. /\ H \in HandleStacks /\ H.st \in {"ok", "full"}
      /\ H.st = "ok" => H.top = 1 /\ H.slot[1] = 1
  <2>1. H = push_n(hs, 1, 1)
    BY <1>1, PushOnce
  <2>2. 1 \in (0 + 1)..(0 + 1)
    OBVIOUS
  <2> HIDE DEF H
  <2>3. 1 \in Int /\ 1 \in Nat /\ hs.st # "assert"
    BY <1>1
  <2>4. /\ push_n(hs, 1, 1) \in HandleStacks
        /\ push_n(hs, 1, 1).st \in {"ok", "full"}
        /\ push_n(hs, 1, 1).st = "ok" =>
             /\ push_n(hs, 1, 1).top = hs.top + 1
             /\ \A s \in (hs.top + 1)..(hs.top + 1) : push_n(hs, 1, 1).slot[s] = 1
    BY <1>1, <2>3, PushProperties
  <2> QED BY <1>2, <2>1, <2>2, <2>4
<1>4. CASE Dies(H)
  <2>1. H.st # "assert"
    BY <1>3
  <2> QED BY <1>4, <2>1, DiesPreserves
<1>5. CASE ~Dies(H)
  <2>1. /\ H.st = "ok" /\ hs' = H /\ vm' = vm /\ stack' = <<g>>
        /\ evalStack' = 0 /\ level' = 0 /\ ret' = ret /\ added' = added
    BY <1>5 DEF start_repl, Survives
  <2>2. g = [pc |-> "run_in_thread", h |-> << 1 >>, n |-> 1, nest |-> 0, next |-> 0,
             base |-> 0]
    BY <1>2, <1>3, <2>1 DEF NewFrame, get_mark
  <2> HIDE DEF g, H
  <2>3. /\ g.pc = "run_in_thread" /\ g.n = 1 /\ g.base = 0
        /\ g.h = << 1 >> /\ g.h \in Seq(Nat) /\ Len(g.h) = 1 /\ g.h[1] = 1
    BY <2>2
  <2>4. g \in FrameType
    BY <2>2, PcFacts DEF FrameType, Drivers, ReplPcs
  <2>5. FrameOK(g, 1)
    BY <2>3, <2>4 DEF FrameOK, HeldCount, HoldsOne, HoldsTwo, HoldsThree, ReplPcs,
                      BootPcs, Drivers
  <2>6. Tidy(stack', 1, hs')
    <3>1. stack'[1] = g
      BY <2>1
    <3>2. Edge(g) = 1
      BY <2>3 DEF Edge
    <3>3. Holds(g, 1, hs')
      BY <1>3, <2>1, <2>3 DEF Holds
    <3>4. hs'.top = 1 /\ Owned(stack', 1, hs', 1)
      BY <1>3, <2>1, <2>3, <3>1, <3>2 DEF Owned
    <3> QED BY <2>3, <3>1, <3>2, <3>3, <3>4 DEF Tidy
  <2> QED BY <1>1, <1>3, <2>1, <2>5, <2>6, AlonePreserves
<1> QED BY <1>4, <1>5

LEMMA load_lib_scm_Preserves ==
  ASSUME Inv, load_lib_scm
  PROVE  Inv'
<1>0. /\ "load_lib_scm" \in Drivers /\ "load_lib_scm" \notin ReplPcs
      /\ "load_lib_scm:form" \in Drivers /\ "load_lib_scm:form" \notin ReplPcs
  BY DEF Drivers, BootPcs, ReplPcs
<1>1. ASSUME At("load_lib_scm"), NEW nest \in 0..FormNest, NEW held \in Peaks(nest),
             CallEvaluate(read_intern(Cur, held), "load_lib_scm:form", 0, nest)
      PROVE  Inv'
  <2>1. nest \in Nat
    BY ConstantsAssumption
  <2> QED BY <1>0, <1>1, <2>1, ReadPreserves
<1>2. ASSUME At("load_lib_scm"), start_repl
      PROVE  Inv'
  BY <1>2, StartReplPreserves
<1>3. ASSUME NEW pc, At(pc), Halt("exit") \/ PrintingFails
      PROVE  Inv'
  BY <1>3, StepHalt DEF Ends
<1>4. ASSUME At("load_lib_scm:form"), stack' = <<[Top EXCEPT !.pc = "load_lib_scm"]>>,
             ret' = NoRet, added' = 0, UNCHANGED <<hs, level, evalStack, vm>>
      PROVE  Inv'
  BY <1>0, <1>4, ResumePreserves
<1> QED BY <1>1, <1>2, <1>3, <1>4, Zenon
       DEF load_lib_scm

LEMMA run_in_thread_Preserves ==
  ASSUME Inv, run_in_thread
  PROVE  Inv'
<1>0. /\ "run_in_thread" \in Drivers /\ "run_in_thread" \in ReplPcs
      /\ "run_in_thread:form" \in Drivers /\ "run_in_thread:form" \in ReplPcs
  BY DEF Drivers, BootPcs, ReplPcs
<1>1. ASSUME At("run_in_thread"), NEW nest \in 0..FormNest, NEW held \in Peaks(nest),
             CallEvaluate(read_intern(Cur, held), "run_in_thread:form", Top.n, nest)
      PROVE  Inv'
  <2>1. nest \in Nat /\ Top.n = 1
    BY <1>0, <1>1, ConstantsAssumption, DriverFacts
  <2> QED BY <1>0, <1>1, <2>1, ReadPreserves
<1>2. ASSUME NEW pc, At(pc), Halt("done")
      PROVE  Inv'
  BY <1>2, StepHalt DEF Ends
<1>3. ASSUME At("run_in_thread"), Dies(pop(Cur, << 1 >>).hs)
      PROVE  Inv'
  <2>1. vm = "running" /\ Good(Cur) /\ Len(Cur.f.h) = 1
    BY <1>0, <1>3, DriverFacts
  <2>2. Good(pop(Cur, << 1 >>))
    BY <2>1, PopOrders
  <2> QED BY <1>3, <2>2, DiesPreserves DEF Good
<1>4. ASSUME At("run_in_thread:form"), stack' = <<[Top EXCEPT !.pc = "run_in_thread"]>>,
             ret' = NoRet, added' = 0, UNCHANGED <<hs, level, evalStack, vm>>
      PROVE  Inv'
  BY <1>0, <1>4, ResumePreserves
<1>5. ASSUME NEW pc, At(pc), PrintingFails
      PROVE  Inv'
  BY <1>5, StepHalt DEF Ends
<1> QED BY <1>1, <1>2, <1>3, <1>4, <1>5, Zenon
       DEF run_in_thread

(***************************************************************************)
(* The invariant of the interpreter.                                       *)
(***************************************************************************)
LEMMA InitInv ==
  ASSUME Init
  PROVE  Inv
<1> DEFINE g == NewFrame("load_lib_scm", 0, 0, 0)
<1>1. /\ stack = <<g>> /\ hs = init_handles /\ ret = NoRet /\ level = 0
      /\ evalStack = 0 /\ added = 0 /\ vm = "running"
  BY DEF Init
<1>2. g = [pc |-> "load_lib_scm", h |-> <<>>, n |-> 0, nest |-> 0, next |-> 0, base |-> 0]
  BY DEF NewFrame
<1> HIDE DEF g
<1>3. g.pc = "load_lib_scm" /\ g.h = <<>> /\ Len(g.h) = 0 /\ g.base = 0
  BY <1>2
<1>4. g \in FrameType
  BY <1>2, PcFacts, EmptySeq DEF FrameType, Drivers, BootPcs
<1>5. FrameOK(g, 1)
  BY <1>3, <1>4 DEF FrameOK, HeldCount, HoldsOne, HoldsTwo, HoldsThree, ReplPcs,
                    BootPcs, Drivers
<1>6. stack \in Seq(FrameType) /\ Len(stack) = 1 /\ stack[1] = g /\ stack # <<>>
  BY <1>1, <1>4
<1>7. hs \in HandleStacks /\ hs.top = 0 /\ hs.st = "ok"
  BY <1>1, HandleFrameSizeAssumption DEF init_handles, HandleStacks, UNINIT
<1>8. ~IsEval(stack[1])
  BY <1>3, <1>6 DEF IsEval, EvalPcs
<1>9. EvalSet(stack, 1) = {}
  BY <1>8 DEF EvalSet
<1>10. Tidy(stack, 1, hs)
  <2>1. Edge(g) = 0 /\ g.h \in Seq(Nat)
    BY <1>3, EmptySeq DEF Edge
  <2>2. \A k \in 1..0 : FALSE
    OBVIOUS
  <2>3. Holds(g, 1, hs)
    BY <1>3, <2>1, <2>2 DEF Holds
  <2>4. \A i \in 1..1 : i = 1
    OBVIOUS
  <2> QED BY <1>3, <1>6, <1>7, <2>1, <2>2, <2>3, <2>4 DEF Tidy
<1>11. Linked(stack, 1, evalStack)
  BY <1>8 DEF Linked, LastEval
<1>12. FramesOK(stack, 1)
  BY <1>5, <1>6 DEF FramesOK
<1>13. Config(stack, Len(stack), hs, level, evalStack)
  BY <1>1, <1>6, <1>9, <1>10, <1>11, <1>12, FS_EmptySet DEF Config
<1>14. TypeOK
  BY <1>1, <1>6, <1>7 DEF TypeOK, Ends
<1> QED BY <1>1, <1>7, <1>13, <1>14 DEF Inv

LEMMA StepInv ==
  ASSUME Inv, [Next]_vars
  PROVE  Inv'
<1>1. CASE load_lib_scm
  BY <1>1, load_lib_scm_Preserves
<1>2. CASE run_in_thread
  BY <1>2, run_in_thread_Preserves
<1>3. CASE evaluate
  BY <1>3, evaluate_Preserves
<1>4. CASE evargs
  BY <1>4, evargs_Preserves
<1>5. CASE invoke
  BY <1>5, invoke_Preserves
<1>6. CASE Primitive
  BY <1>6, prim_list_Preserves, prim_set_Preserves, prim_cons_Preserves,
     prim_length_Preserves, prim_plus_Preserves, prim_minus_Preserves,
     prim_number_equals_Preserves, prim_if_Preserves, prim_lambda_Preserves,
     prim_deflibrary_Preserves, prim_quote_Preserves, prim_eq_Preserves,
     prim_define_Preserves, prim_error_Preserves, prim_dump_Preserves, Zenon
     DEF Primitive
<1>7. CASE OutOfMemory
  BY <1>7, StepHalt DEF OutOfMemory, Ends
<1>8. CASE UNCHANGED vars
  BY <1>8 DEF vars, Inv, TypeOK, Config, FramesOK, Tidy, Owned, Linked, LastEval, EvalSet
<1> QED BY <1>1, <1>2, <1>3, <1>4, <1>5, <1>6, <1>7, <1>8, Zenon DEF Next

(* In every state of the interpreter the handle stack, the frames, the     *)
(* level and the eval_stack list agree, as Inv says: every step of         *)
(* evaluate, evargs, invoke, of a primitive and of a driver keeps them so. *)
THEOREM Invariance == Spec => []Inv
BY InitInv, StepInv, PTL DEF Spec

(* The state of the interpreter keeps its types; in particular             *)
(* __tl_eval_level never goes below 0 and eval_stack is never loaded with  *)
(* a pointer that nobody stored.                                           *)
THEOREM TypeCorrect == Spec => []TypeOK
<1>1. Inv => TypeOK
  BY DEF Inv
<1> QED BY <1>1, Invariance, PTL

(* The assertion of handle_pop, handle == top, never fails: every path     *)
(* through the evaluator and the primitives pops in reverse what it        *)
(* pushed, and run_in_thread's cleanup after a longjmp leaves what its own *)
(* pop expects.                                                            *)
THEOREM HandlePopNeverAsserts == Spec => []NoAssertionFails
<1>1. Inv => NoAssertionFails
  BY DEF Inv, NoAssertionFails
<1> QED BY <1>1, Invariance, PTL

(* The handles on the stack are exactly the handle locals of the functions *)
(* that have not returned, each filled by its owner: nothing that          *)
(* evaluate, evargs or a primitive protects is popped under it, and        *)
(* neither an early return nor an error leaks a handle.                    *)
THEOREM NoHandleLeaks == Spec => []HandlesOwned
<1>1. ASSUME Inv
      PROVE  HandlesOwned
  <2> SUFFICES ASSUME vm = "running"
               PROVE  /\ \A i \in DOMAIN stack : \A k \in DOMAIN stack[i].h :
                           stack[i].h[k] \in 1..hs.top /\ hs.slot[stack[i].h[k]] = i
                      /\ \A s \in 1..hs.top :
                           /\ hs.slot[s] \in DOMAIN stack
                           /\ \E k \in DOMAIN stack[hs.slot[s]].h :
                                stack[hs.slot[s]].h[k] = s
    BY DEF HandlesOwned
  <2> DEFINE N == Len(stack)
  <2>1. /\ N \in Nat \ {0} /\ DOMAIN stack = 1..N /\ Tidy(stack, N, hs)
        /\ hs.top \in Nat
    BY <1>1, RunningFacts
  <2> HIDE DEF N
  <2>2. ASSUME NEW i \in 1..N
        PROVE  /\ DOMAIN stack[i].h = 1..Len(stack[i].h)
               /\ Len(stack[i].h) \in Nat /\ stack[i].base \in Nat
               /\ Edge(stack[i]) = stack[i].base + Len(stack[i].h)
               /\ Edge(stack[i]) <= hs.top
               /\ Holds(stack[i], i, hs)
    <3>1. Holds(stack[i], i, hs)
      BY <2>1 DEF Tidy
    <3>2. /\ Edge(stack[i]) \in Nat /\ Len(stack[i].h) \in Nat
          /\ stack[i].base \in Nat /\ Edge(stack[i]) = stack[i].base + Len(stack[i].h)
          /\ Edge(stack[N]) \in Nat /\ stack[N].base <= Edge(stack[N])
          /\ stack[N].base \in Nat
      BY <2>1, EdgeProperties
    <3>3. Edge(stack[i]) <= hs.top
      <4>1. hs.top = Edge(stack[N])
        BY <2>1 DEF Tidy
      <4>2. CASE i = N
        BY <3>2, <4>1, <4>2
      <4>3. CASE i # N
        <5>1. i < N /\ N \in 1..N
          BY <2>1, <4>3
        <5>2. Edge(stack[i]) <= stack[N].base
          BY <2>1, <5>1 DEF Tidy
        <5> QED BY <3>2, <4>1, <5>2
      <4> QED BY <4>2, <4>3
    <3>4. DOMAIN stack[i].h = 1..Len(stack[i].h)
      BY <3>1 DEF Holds
    <3> QED BY <3>1, <3>2, <3>3, <3>4
  <2>3. ASSUME NEW i \in 1..N, NEW k \in DOMAIN stack[i].h
        PROVE  stack[i].h[k] \in 1..hs.top /\ hs.slot[stack[i].h[k]] = i
    <3>1. k \in 1..Len(stack[i].h) /\ Holds(stack[i], i, hs)
      BY <2>2
    <3>2. stack[i].h[k] = stack[i].base + k /\ hs.slot[stack[i].base + k] = i
      BY <3>1 DEF Holds
    <3>3. stack[i].base + k \in 1..hs.top
      <4> DEFINE l == Len(stack[i].h)
                 b == stack[i].base
      <4>1. l \in Nat /\ b \in Nat /\ b + l <= hs.top /\ k \in 1..l
        BY <2>2, <3>1
      <4> HIDE DEF l, b
      <4>2. b + k \in 1..hs.top
        BY <2>1, <4>1
      <4> QED BY <4>2 DEF b
    <3> QED BY <3>2, <3>3
  <2>4. ASSUME NEW s \in 1..hs.top
        PROVE  /\ hs.slot[s] \in 1..N
               /\ \E k \in DOMAIN stack[hs.slot[s]].h : stack[hs.slot[s]].h[k] = s
    <3> DEFINE i == hs.slot[s]
    <3>1. Owned(stack, N, hs, s)
      BY <2>1 DEF Tidy
    <3>2. i \in 1..N /\ stack[i].base < s /\ s <= Edge(stack[i])
      BY <3>1 DEF Owned
    <3> HIDE DEF i
    <3>3. s - stack[i].base \in DOMAIN stack[i].h
      <4> DEFINE l == Len(stack[i].h)
                 b == stack[i].base
      <4>1. l \in Nat /\ b \in Nat /\ b < s /\ s <= b + l /\ DOMAIN stack[i].h = 1..l
        BY <2>2, <3>2
      <4> HIDE DEF l, b
      <4>2. s - b \in 1..l
        BY <4>1
      <4> QED BY <4>1, <4>2 DEF b
    <3>4. stack[i].h[s - stack[i].base] = s
      <4>1. s - stack[i].base \in 1..Len(stack[i].h) /\ Holds(stack[i], i, hs)
            /\ stack[i].base \in Nat
        BY <2>2, <3>2, <3>3
      <4>2. stack[i].h[s - stack[i].base] = stack[i].base + (s - stack[i].base)
        BY <4>1 DEF Holds
      <4> QED BY <4>1, <4>2
    <3> QED BY <3>2, <3>3, <3>4 DEF i
  <2> QED BY <2>1, <2>3, <2>4
<1> QED BY <1>1, Invariance, PTL

(* __tl_eval_level is the number of calls of evaluate that are in          *)
(* progress, after any history of errors: DRETURN takes back what every    *)
(* prologue added, and the longjmp's target starts again from 0.           *)
THEOREM LevelCountsEvaluations == Spec => []LevelIsDepth
<1>1. ASSUME Inv
      PROVE  LevelIsDepth
  <2> SUFFICES ASSUME vm = "running"
               PROVE  level = Cardinality(EvalFrames)
    BY DEF LevelIsDepth
  <2>1. /\ stack \in Seq(FrameType)
        /\ level = Cardinality(EvalSet(stack, Len(stack)))
    BY <1>1, RunningFacts
  <2>2. EvalFrames = EvalSet(stack, Len(stack))
    BY <2>1 DEF EvalFrames, EvalSet, IsEval
  <2> QED BY <2>1, <2>2
<1> QED BY <1>1, Invariance, PTL

(* eval_stack and the next pointers of the frames on the C stack list the  *)
(* evaluations in progress from the innermost to the outermost: evaluate's *)
(* prologue and DRETURN keep the list over calls, returns and errors.      *)
THEOREM EvalStackIsTheCallChain == Spec => []EvalStackLinked
<1>1. ASSUME Inv
      PROVE  EvalStackLinked
  <2> DEFINE N == Len(stack)
  <2>1. CASE stack = <<>>
    <3>1. EvalFrames = {}
      BY <2>1 DEF EvalFrames
    <3> QED BY <3>1 DEF EvalStackLinked
  <2>2. CASE stack # <<>>
    <3>1. /\ N \in Nat \ {0} /\ DOMAIN stack = 1..N /\ Linked(stack, N, evalStack)
      BY <1>1, <2>2, LiveFacts
    <3> HIDE DEF N
    <3>2. \A i \in 1..N : i \in EvalFrames <=> IsEval(stack[i])
      BY <3>1 DEF EvalFrames, IsEval
    <3>3. \A i \in EvalFrames : i \in 1..N /\ IsEval(stack[i])
      BY <3>1, <3>2 DEF EvalFrames
    <3>4. ASSUME NEW i \in EvalFrames, \A j \in EvalFrames : j <= i
          PROVE  evalStack = i
      <4>1. \A k \in (i + 1)..N : ~IsEval(stack[k])
        <5>1. ASSUME NEW k \in (i + 1)..N, IsEval(stack[k])
              PROVE  FALSE
          <6>1. k \in 1..N /\ i \in 1..N
            BY <3>1, <3>3
          <6>2. k <= i
            BY <3>2, <3>4, <5>1, <6>1
          <6> QED BY <6>1, <6>2
        <5> QED BY <5>1
      <4>2. LastEval(stack, i, N + 1)
        BY <3>1, <3>3, <4>1 DEF LastEval
      <4> QED BY <3>1, <3>3, <4>2 DEF Linked
    <3>5. ASSUME NEW i \in EvalFrames, NEW j \in EvalFrames, j < i,
                 \A k \in EvalFrames : k < i => k <= j
          PROVE  stack[i].next = j
      <4>1. i \in 1..N /\ j \in 1..N /\ IsEval(stack[i]) /\ IsEval(stack[j])
        BY <3>3
      <4>2. ASSUME NEW k \in (j + 1)..(i - 1), IsEval(stack[k])
            PROVE  FALSE
        <5>1. k \in 1..N /\ k < i /\ ~(k <= j)
          BY <3>1, <4>1
        <5>2. k \in EvalFrames
          BY <3>2, <4>2, <5>1
        <5> QED BY <3>5, <5>1, <5>2
      <4>3. LastEval(stack, j, i)
        BY <3>5, <4>1, <4>2 DEF LastEval
      <4> QED BY <3>1, <4>1, <4>3 DEF Linked
    <3> QED BY <3>4, <3>5 DEF EvalStackLinked
  <2> QED BY <2>1, <2>2
<1> QED BY <1>1, Invariance, PTL

-----------------------------------------------------------------------------
(***************************************************************************)
(* Definitions.  Where the binding of a define is added, and when a form   *)
(* has added one: only a define that evaluate has called for the form      *)
(* itself is suspended in its value, and after it has added the binding    *)
(* there is only one way, out of evaluate and back to the prompt.          *)
(***************************************************************************)
Definitions ==
  vm = "running" =>
    /\ Len(stack) > 1 => stack[1].pc \in Forms /\ IsEval(stack[2])
    /\ \A i \in 2..Len(stack) :
         stack[i].pc \in {"define", "define:value"} => stack[i - 1].pc = "evaluate:tail"
    /\ \A i \in 2..Len(stack) : stack[i].pc = "define:value" => i = 3
    /\ added # 0 => /\ added = 1
                    /\ \/ Len(stack) = 2 /\ stack[2].pc = "evaluate:tail"
                       \/ Len(stack) = 1 /\ stack[1].pc \in Forms

(* What a step must do besides.                                            *)
DefinesAtToplevel == added' > added => Len(stack) = 3 /\ stack[2].pc = "evaluate:tail"

FailsClean ==
  Len(stack) > 1 /\ Len(stack') = 1 /\ stack'[1].pc = "run_in_thread" => added' = 0

Orderly == Definitions' /\ DefinesAtToplevel /\ FailsClean /\ [R!Next]_(R!vars)

(* The step goes on with the record of the topmost frame.                  *)
Framed(x) == "pc" \in DOMAIN x.f /\ "n" \in DOMAIN x.f

LEMMA FramedProperties ==
  ASSUME Inv, vm = "running"
  PROVE  /\ Framed(Cur)
         /\ \A k : Framed(read_intern(Cur, k))
         /\ \A x, k : Framed(x) => Framed(push(x, k))
         /\ \A x, o : Framed(x) => Framed(pop(x, o))
<1>1. Framed(Cur)
  BY CurGood DEF Framed, FrameType
<1>2. ASSUME NEW x, NEW k, Framed(x)
      PROVE  Framed(push(x, k))
  BY <1>2 DEF Framed, push
<1>3. ASSUME NEW x, NEW o, Framed(x)
      PROVE  Framed(pop(x, o))
  BY <1>3 DEF Framed, pop
<1>4. ASSUME NEW k
      PROVE  Framed(read_intern(Cur, k))
  <2>1. read_intern(Cur, k).f = Cur.f
    BY DEF read_intern, Cur
  <2> QED BY <1>1, <2>1 DEF Framed
<1> QED BY <1>1, <1>2, <1>3, <1>4

(* What the next steps of a running interpreter start from.                *)
LEMMA Start ==
  ASSUME Inv, Definitions, vm = "running"
  PROVE  /\ Len(stack) \in Nat \ {0} /\ stack \in Seq(FrameType) /\ Top = stack[Len(stack)]
         /\ added \in Nat /\ FramesOK(stack, Len(stack)) /\ stack # <<>> /\ stack[1] \in FrameType
         /\ added # 0 => Top.pc \in Forms \cup {"evaluate:tail"} /\ Len(stack) <= 2
         /\ Top.pc \in Drivers <=> Len(stack) = 1
<1>1. /\ Len(stack) \in Nat \ {0} /\ stack \in Seq(FrameType) /\ Top = stack[Len(stack)]
      /\ added \in Nat /\ FramesOK(stack, Len(stack)) /\ stack # <<>> /\ FrameOK(Top, Len(stack))
      /\ stack[1] \in FrameType
  BY RunningFacts
<1>2. added # 0 => Top.pc \in Forms \cup {"evaluate:tail"} /\ Len(stack) <= 2
  BY <1>1 DEF Definitions
<1> QED BY <1>1, <1>2 DEF FrameOK

(* Where the interpreter is, as module Repl sees it, while it runs.         *)
LEMMA RunningPhase ==
  ASSUME Inv, vm = "running"
  PROVE  /\ stack[1].pc \in BootPcs => phase = "loading"
         /\ stack[1].pc = "run_in_thread" => phase = "ready"
         /\ stack[1].pc \notin BootPcs \cup {"run_in_thread"} => phase = "evaluating"
<1>1. stack # <<>> /\ "run_in_thread" \notin BootPcs
  BY RunningFacts DEF BootPcs
<1> QED BY <1>1 DEF phase

LEMMA HaltOrderly ==
  ASSUME Inv, vm = "running", NEW reason \in Ends, Halt(reason)
  PROVE  Orderly
<1>1. vm' # "running" /\ stack' = <<>> /\ added' = added /\ added \in Nat
  BY DEF Halt, Ends, Inv, TypeOK
<1>2. Definitions' /\ DefinesAtToplevel /\ FailsClean
  BY <1>1 DEF Definitions, DefinesAtToplevel, FailsClean
<1>3. R!Next
  <2>1. phase \notin {"printing", "stopped"} /\ phase' = "stopped"
    BY <1>1, RunningPhase DEF phase
  <2> QED BY <2>1 DEF R!Next, R!Stop
<1> QED BY <1>2, <1>3 DEF Orderly

LEMMA DiesOrderly ==
  ASSUME Inv, vm = "running", NEW H, Dies(H)
  PROVE  Orderly
BY HaltOrderly DEF Dies, Ends

(* Only what an evaluation or its driver prints can go on for ever.        *)
LEMMA PrintsForeverOrderly ==
  ASSUME Inv, Definitions, vm = "running", Top.pc # "run_in_thread", PrintsForever
  PROVE  Orderly
<1>1. /\ vm' = "printing" /\ stack' = stack /\ added' = added /\ added \in Nat
      /\ stack # <<>> /\ Len(stack) \in Nat \ {0} /\ Top = stack[Len(stack)]
  BY RunningFacts DEF PrintsForever
<1>2. Definitions' /\ DefinesAtToplevel /\ FailsClean
  <2>1. Len(stack') = Len(stack)
    BY <1>1
  <2>2. \A n \in Nat : ~(n > 1 /\ n = 1)
    OBVIOUS
  <2>3. FailsClean
    BY <1>1, <2>1, <2>2, Zenon DEF FailsClean
  <2>4. Definitions' /\ DefinesAtToplevel
    BY <1>1 DEF Definitions, DefinesAtToplevel
  <2> QED BY <2>3, <2>4
<1>3. stack[1].pc # "run_in_thread"
  <2>1. CASE Len(stack) > 1
    BY <2>1 DEF Definitions, Forms
  <2>2. CASE ~(Len(stack) > 1)
    <3>1. Len(stack) = 1
      <4> DEFINE l == Len(stack)
      <4>1. l \in Nat \ {0} /\ ~(l > 1)
        BY <1>1, <2>2
      <4> HIDE DEF l
      <4>2. l = 1
        BY <4>1
      <4> QED BY <4>2 DEF l
    <3> QED BY <1>1, <3>1
  <2> QED BY <2>1, <2>2
<1>4. phase \in {"loading", "evaluating"} /\ phase' = "printing"
  <2>1. phase \in {"loading", "evaluating"}
    BY <1>3, RunningPhase
  <2> QED BY <1>1, <2>1 DEF phase
<1>5. R!Next
  BY <1>4 DEF R!Next, R!PrintForever
<1> QED BY <1>2, <1>5 DEF Orderly

LEMMA PrintingFailsOrderly ==
  ASSUME Inv, Definitions, vm = "running", Top.pc # "run_in_thread", PrintingFails
  PROVE  Orderly
BY HaltOrderly, PrintsForeverOrderly DEF PrintingFails, Ends

(* One more frame, g, on top of the frame f, which is the topmost one      *)
(* suspended.                                                              *)
LEMMA PushOrderly ==
  ASSUME Inv, Definitions, vm = "running", vm' = "running", NEW f, NEW g,
         stack' = Append(Append(Callers, f), g), added' = added,
         Top.pc \notin Forms \cup {"evaluate:tail"},
         Top.pc \in EvalPcs => f.pc \in EvalPcs,
         Len(stack) = 1 => /\ g.pc = "evaluate" /\ f.pc \in Forms
                           /\ Top.pc \in BootPcs <=> f.pc \in BootPcs,
         g.pc \in {"define", "define:value"} => f.pc = "evaluate:tail" /\ g.pc # "define:value",
         f.pc # "define",
         f.pc = "define:value" => Top.pc = "define" /\ Len(stack) = 3
  PROVE  Orderly
<1> DEFINE N == Len(stack)
<1>1. /\ N \in Nat \ {0} /\ stack \in Seq(FrameType) /\ Top = stack[N] /\ added = 0
      /\ stack # <<>> /\ FramesOK(stack, N) /\ stack[1] \in FrameType
      /\ Top.pc \in Drivers <=> N = 1
  BY Start
<1>2. Len(Callers) = N - 1 /\ Callers \in Seq(FrameType)
      /\ \A i \in 1..(N - 1) : Callers[i] = stack[i]
  BY CallersProperties
<1>3. /\ Len(stack') = N + 1 /\ stack'[N + 1] = g /\ stack'[N] = f
      /\ \A i \in 1..(N - 1) : stack'[i] = stack[i]
  <2> DEFINE S == FrameType \cup {f, g}
  <2>1. Callers \in Seq(S) /\ f \in S /\ g \in S
    BY <1>2, SeqMonotonic
  <2> HIDE DEF S
  <2>2. /\ Append(Callers, f) \in Seq(S) /\ Len(Append(Callers, f)) = N
        /\ Append(Callers, f)[N] = f
        /\ \A i \in 1..(N - 1) : Append(Callers, f)[i] = stack[i]
    BY <1>1, <1>2, <2>1
  <2> QED BY <1>1, <2>1, <2>2
<1> HIDE DEF N
<1>4. stack'[1].pc \in Forms /\ IsEval(stack'[2])
  <2>1. CASE N = 1
    BY <1>3, <2>1 DEF IsEval, EvalPcs, N
  <2>2. CASE N = 2
    <3>1. stack'[1] = stack[1] /\ stack'[2] = f
      BY <1>3, <2>2
    <3> QED BY <1>1, <2>2, <3>1 DEF Definitions, IsEval, N
  <2>3. CASE N > 2
    <3>1. stack'[1] = stack[1] /\ stack'[2] = stack[2]
      BY <1>1, <1>3, <2>3
    <3> QED BY <1>1, <2>3, <3>1 DEF Definitions, N
  <2> QED BY <1>1, <2>1, <2>2, <2>3
<1>5. ASSUME NEW i \in 2..(N + 1)
      PROVE  /\ stack'[i].pc \in {"define", "define:value"} => stack'[i - 1].pc = "evaluate:tail"
             /\ stack'[i].pc = "define:value" => i = 3
  <2>1. CASE i = N + 1
    <3>1. stack'[i] = g /\ stack'[i - 1] = f
      BY <1>1, <1>3, <2>1
    <3> QED BY <3>1
  <2>2. CASE i = N
    <3>1. stack'[i] = f /\ stack'[i - 1] = stack[i - 1] /\ i \in 2..N
      BY <1>1, <1>3, <2>2
    <3>2. Top.pc = "define" => stack[i - 1].pc = "evaluate:tail"
      BY <1>1, <2>2, <3>1 DEF Definitions, N
    <3> QED BY <2>2, <3>1, <3>2 DEF N
  <2>3. CASE i < N
    <3>1. stack'[i] = stack[i] /\ stack'[i - 1] = stack[i - 1] /\ i \in 2..N
      BY <1>1, <1>3, <2>3
    <3> QED BY <1>1, <3>1 DEF Definitions, N
  <2>4. i = N + 1 \/ i = N \/ i < N
    BY <1>1
  <2> QED BY <2>1, <2>2, <2>3, <2>4, Zenon
<1>6. Definitions'
  BY <1>1, <1>3, <1>4, <1>5 DEF Definitions
<1>7. DefinesAtToplevel /\ FailsClean
  BY <1>1, <1>3 DEF DefinesAtToplevel, FailsClean
<1>8. [R!Next]_(R!vars)
  <2>1. stack # <<>> /\ stack' # <<>>
    BY <1>1, <1>3
  <2>2. CASE N = 1
    <3>1. stack'[1] = f /\ Top = stack[1] /\ Top.pc \in Drivers \ Forms
      BY <1>1, <1>3, <2>2
    <3>2. CASE Top.pc \in BootPcs
      BY <1>1, <2>1, <2>2, <3>1, <3>2 DEF phase, R!vars, N
    <3>3. CASE Top.pc \notin BootPcs
      <4>1. phase = "ready" /\ phase' = "evaluating"
        BY <2>1, <2>2, <3>1, <3>3 DEF phase, Drivers, ReplPcs, BootPcs, Forms, N
      <4> QED BY <1>1, <4>1 DEF R!Next, R!ReadForm
    <3> QED BY <3>2, <3>3
  <2>3. CASE N # 1
    <3>1. stack'[1] = stack[1]
      BY <1>1, <1>3, <2>3
    <3> QED BY <2>1, <3>1 DEF phase, R!vars
  <2> QED BY <2>2, <2>3
<1> QED BY <1>6, <1>7, <1>8 DEF Orderly

LEMMA CallEvaluateOrderly ==
  ASSUME Inv, Definitions, NEW pc0, At(pc0), NEW x, Framed(x), NEW pc, NEW n, NEW nest,
         CallEvaluate(x, pc, n, nest),
         pc0 \notin Forms \cup {"evaluate:tail"},
         pc0 \in EvalPcs => pc \in EvalPcs,
         pc0 \in Drivers => pc \in Forms /\ (pc0 \in BootPcs <=> pc \in BootPcs),
         pc # "define",
         pc = "define:value" => pc0 = "define" /\ Len(stack) = 3
  PROVE  Orderly
<1> DEFINE f == [x.f EXCEPT !.pc = pc, !.n = n]
           g == [NewFrame("evaluate", 0, nest, x.hs.top) EXCEPT !.next = evalStack]
<1>1. vm = "running" /\ Top.pc = pc0
  BY DEF At
<1>2. CASE Dies(x.hs)
  BY <1>1, <1>2, DiesOrderly
<1>3. CASE ~Dies(x.hs)
  <2>1. stack' = Append(Append(Callers, f), g) /\ added' = added /\ vm' = "running"
    BY <1>1, <1>3 DEF CallEvaluate, Suspended, Survives
  <2>2. f.pc = pc
    BY DEF Framed
  <2>3. g.pc = "evaluate"
    BY DEF NewFrame
  <2>4. Top.pc \in Drivers <=> Len(stack) = 1
    BY <1>1, Start
  <2> HIDE DEF f, g
  <2> QED BY <1>1, <2>1, <2>2, <2>3, <2>4, PushOrderly
<1> QED BY <1>2, <1>3

LEMMA CallOrderly ==
  ASSUME Inv, Definitions, NEW pc0, At(pc0), NEW x, Framed(x), NEW pc, NEW callee, NEW arg,
         Call(x, pc, callee, arg), pc0 \notin Drivers \cup {"evaluate:tail"},
         pc0 \in EvalPcs => pc \in EvalPcs,
         pc \notin {"define", "define:value"}, callee # "define:value",
         callee = "define" => pc = "evaluate:tail"
  PROVE  Orderly
<1> DEFINE f == [x.f EXCEPT !.pc = pc, !.n = 0]
           g == NewFrame(callee, 0, x.f.nest, x.hs.top)
<1>1. vm = "running" /\ Top.pc = pc0
  BY DEF At
<1>2. CASE Dies(x.hs)
  BY <1>1, <1>2, DiesOrderly
<1>3. CASE ~Dies(x.hs)
  <2>1. stack' = Append(Append(Callers, f), g) /\ added' = added /\ vm' = "running"
    BY <1>1, <1>3 DEF Call, Suspended, Survives
  <2>2. f.pc = pc
    BY DEF Framed
  <2>3. g.pc = callee
    BY DEF NewFrame
  <2>4. Len(stack) # 1
    BY <1>1, Start
  <2>5. Top.pc \notin Forms \cup {"evaluate:tail"}
    BY <1>1 DEF Forms, Drivers, BootPcs, ReplPcs
  <2> HIDE DEF f, g
  <2> QED BY <1>1, <2>1, <2>2, <2>3, <2>4, <2>5, PushOrderly
<1> QED BY <1>2, <1>3

(* The topmost function returns; a define has added its binding.           *)
LEMMA LeavesOrderly ==
  ASSUME Inv, Definitions, NEW pc0, At(pc0), pc0 \notin Drivers, NEW x, NEW v, Leaves(x, v),
         added' = IF pc0 = "define:value" THEN added + 1 ELSE added
  PROVE  Orderly
<1> DEFINE N == Len(stack)
<1>1. vm = "running" /\ Top.pc = pc0 /\ vm' = "running" /\ stack' = Callers
  BY DEF At, Leaves, Survives
<1>2. /\ N \in Nat \ {0} /\ stack \in Seq(FrameType) /\ Top = stack[N]
      /\ N # 1 /\ stack # <<>> /\ added \in Nat
      /\ added # 0 => Top.pc \in Forms \cup {"evaluate:tail"} /\ N <= 2
  BY <1>1, Start
<1>3. Len(stack') = N - 1 /\ \A i \in 1..(N - 1) : stack'[i] = stack[i]
  BY <1>1, CallersProperties
<1> HIDE DEF N
<1>4. /\ stack[1].pc \in Forms /\ IsEval(stack[2])
      /\ added # 0 => added = 1 /\ N = 2 /\ stack[2].pc = "evaluate:tail"
  <2>1. N > 1
    BY <1>2
  <2> QED BY <1>1, <2>1 DEF Definitions, N
<1>5. pc0 = "define:value" => N = 3 /\ added = 0 /\ stack[2].pc = "evaluate:tail"
  <2> HAVE pc0 = "define:value"
  <2>1. N \in 2..N /\ stack[N].pc = "define:value"
    BY <1>1, <1>2
  <2>2. N = 3 /\ stack[N - 1].pc = "evaluate:tail"
    BY <1>1, <2>1 DEF Definitions, N
  <2> QED BY <1>4, <2>2
<1>6. 1 \in 1..(N - 1) /\ stack'[1] = stack[1] /\ stack' # <<>>
  <2>1. 1 \in 1..(N - 1)
    BY <1>2
  <2> QED BY <1>3, <2>1
<1>7. Definitions'
  <2>1. N - 1 > 1 => IsEval(stack'[2])
    BY <1>2, <1>3, <1>4
  <2>2. \A i \in 2..(N - 1) :
          /\ stack'[i].pc \in {"define", "define:value"} => stack'[i - 1].pc = "evaluate:tail"
          /\ stack'[i].pc = "define:value" => i = 3
    <3> TAKE i \in 2..(N - 1)
    <3>1. stack'[i] = stack[i] /\ stack'[i - 1] = stack[i - 1] /\ i \in 2..N
      BY <1>2, <1>3
    <3> QED BY <1>1, <3>1 DEF Definitions, N
  <2>3. added' # 0 => /\ added' = 1
                      /\ \/ N - 1 = 2 /\ stack'[2].pc = "evaluate:tail"
                         \/ N - 1 = 1 /\ stack'[1].pc \in Forms
    <3>1. CASE pc0 = "define:value"
      <4>1. stack'[2] = stack[2]
        BY <1>3, <1>5, <3>1
      <4> QED BY <1>5, <3>1, <4>1
    <3>2. CASE pc0 # "define:value"
      BY <1>4, <1>6, <3>2
    <3> QED BY <3>1, <3>2
  <2> QED BY <1>3, <1>4, <1>6, <2>1, <2>2, <2>3 DEF Definitions
<1>8. DefinesAtToplevel
  BY <1>2, <1>5 DEF DefinesAtToplevel, N
<1>9. FailsClean
  BY <1>4, <1>6 DEF FailsClean, Forms
<1>10. [R!Next]_(R!vars)
  <2>1. phase' = phase
    BY <1>1, <1>2, <1>6 DEF phase
  <2>2. CASE pc0 = "define:value" /\ phase = "evaluating"
    BY <1>5, <2>1, <2>2 DEF R!Next, R!Define
  <2>3. CASE ~(pc0 = "define:value" /\ phase = "evaluating")
    BY <2>1, <2>3 DEF R!vars
  <2> QED BY <2>2, <2>3
<1> QED BY <1>7, <1>8, <1>9, <1>10 DEF Orderly

LEMMA ReturnOrderly ==
  ASSUME Inv, Definitions, NEW pc0, At(pc0), pc0 \notin Drivers \cup {"define:value"},
         NEW x, NEW v, Return(x, v)
  PROVE  Orderly
<1>1. CASE Leaves(x, v) /\ UNCHANGED added
  BY <1>1, LeavesOrderly
<1>2. CASE Dies(x.hs)
  BY <1>2, DiesOrderly DEF At
<1> QED BY <1>1, <1>2 DEF Return

(* An error: nothing has been defined, so the form may be given up.        *)
LEMMA ThrowOrderly ==
  ASSUME Inv, Definitions, NEW pc0, At(pc0), pc0 \notin Drivers \cup {"evaluate:tail"},
         NEW x, Throw(x)
  PROVE  Orderly
<1>1. /\ vm = "running" /\ Top.pc = pc0 /\ added = 0 /\ Len(stack) # 1 /\ Len(stack) \in Nat \ {0}
      /\ stack # <<>> /\ stack[1] \in FrameType
  BY Start DEF At, Forms, Drivers, BootPcs, ReplPcs
<1>2. CASE Halt("exit")
  BY <1>1, <1>2, HaltOrderly DEF Ends
<1>3. CASE Dies(x.hs)
  BY <1>1, <1>3, DiesOrderly
<1>4. CASE ~Halt("exit") /\ ~Dies(x.hs)
  <2> DEFINE g == [stack[1] EXCEPT !.pc = "run_in_thread"]
  <2>1. stack[1].pc \in ReplPcs /\ stack' = <<g>> /\ added' = 0 /\ vm' = vm
    BY <1>1, <1>4 DEF Throw
  <2>2. g.pc = "run_in_thread"
    BY <1>1 DEF FrameType
  <2> HIDE DEF g
  <2>3. Len(stack') = 1 /\ stack'[1].pc = "run_in_thread" /\ stack' # <<>>
    BY <2>1, <2>2
  <2>4. Definitions' /\ DefinesAtToplevel /\ FailsClean
    BY <1>1, <2>1, <2>3 DEF Definitions, DefinesAtToplevel, FailsClean
  <2>5. stack[1].pc = "run_in_thread:form"
    BY <1>1, <2>1 DEF Definitions, Forms, ReplPcs
  <2>6. phase = "evaluating" /\ phase' = "ready"
    BY <1>1, <2>1, <2>3, <2>5 DEF phase, BootPcs
  <2>7. R!Next
    BY <1>1, <2>6 DEF R!Next, R!Error
  <2> QED BY <2>4, <2>7 DEF Orderly
<1> QED BY <1>2, <1>3, <1>4

(* A driver goes on to the next form.                                      *)
LEMMA ResumeOrderly ==
  ASSUME Inv, Definitions, NEW pc0 \in Forms, At(pc0), NEW pc,
         pc = IF pc0 \in BootPcs THEN "load_lib_scm" ELSE "run_in_thread",
         stack' = <<[Top EXCEPT !.pc = pc]>>, added' = 0, vm' = vm
  PROVE  Orderly
<1> DEFINE g == [Top EXCEPT !.pc = pc]
<1>1. /\ vm = "running" /\ Top.pc = pc0 /\ Len(stack) = 1 /\ Top = stack[1]
      /\ stack # <<>> /\ stack[1] \in FrameType
  BY Start DEF At, Forms, Drivers, BootPcs, ReplPcs
<1>2. g.pc = pc
  BY <1>1 DEF FrameType
<1> HIDE DEF g
<1>3. Len(stack') = 1 /\ stack'[1].pc = pc /\ stack' # <<>>
  BY <1>2 DEF g
<1>4. Definitions'
  BY <1>1, <1>3 DEF Definitions
<1>5. DefinesAtToplevel /\ FailsClean
  BY <1>1, RunningFacts DEF DefinesAtToplevel, FailsClean
<1>6. [R!Next]_(R!vars)
  <2>1. CASE pc0 \in BootPcs
    <3>1. phase = "loading" /\ phase' = "loading"
      BY <1>1, <1>3, <2>1 DEF phase, BootPcs
    <3> QED BY <3>1 DEF R!vars
  <2>2. CASE pc0 \notin BootPcs
    <3>1. phase = "evaluating" /\ phase' = "ready"
      BY <1>1, <1>3, <2>2 DEF phase, BootPcs, Forms
    <3> QED BY <3>1 DEF R!Next, R!Answer
  <2> QED BY <2>1, <2>2
<1> QED BY <1>4, <1>5, <1>6 DEF Orderly

LEMMA StartReplOrderly ==
  ASSUME Inv, Definitions, At("load_lib_scm"), start_repl
  PROVE  Orderly
<1> DEFINE H == handle_push(hs, 1)
           g == [NewFrame("run_in_thread", get_mark(H), 0, hs.top) EXCEPT !.h = <<H.top>>]
<1>1. /\ vm = "running" /\ Top.pc = "load_lib_scm" /\ Len(stack) = 1 /\ Top = stack[1]
      /\ stack # <<>> /\ added = 0
  BY Start DEF At, Forms, Drivers, BootPcs, ReplPcs
<1>2. CASE Dies(H)
  BY <1>1, <1>2, DiesOrderly
<1>3. CASE ~Dies(H)
  <2>1. stack' = <<g>> /\ added' = 0 /\ vm' = vm
    BY <1>1, <1>3 DEF start_repl, Survives
  <2>2. g.pc = "run_in_thread"
    BY DEF NewFrame
  <2> HIDE DEF g
  <2>3. Len(stack') = 1 /\ stack'[1].pc = "run_in_thread" /\ stack' # <<>>
    BY <2>1, <2>2
  <2>4. Definitions' /\ DefinesAtToplevel /\ FailsClean
    BY <1>1, <2>1, <2>3 DEF Definitions, DefinesAtToplevel, FailsClean
  <2>5. phase = "loading" /\ phase' = "ready"
    BY <1>1, <2>1, <2>3 DEF phase, BootPcs
  <2>6. R!Next
    BY <2>5 DEF R!Next, R!Boot
  <2> QED BY <2>4, <2>6 DEF Orderly
<1> QED BY <1>2, <1>3

(* Where the functions other than evaluate and the drivers are called and  *)
(* suspended, define excepted.                                             *)
Suspensions ==
  {"evargs:item", "invoke:body", "list:first", "list:next", "set:first", "set:second",
   "cons:car", "cons:cdr", "length:list", "add:args", "minus:args", "equal:args",
   "if:pred", "if:branch", "eq?:one", "eq?:two", "error:form"}

PlainPcs == Suspensions \cup {"evargs", "invoke"} \cup (AllPrims \ {"define"})

LEMMA PlainSteps ==
  ASSUME Inv, Definitions, NEW pc0 \in PlainPcs, At(pc0)
  PROVE  /\ Framed(Cur)
         /\ \A x, k : Framed(x) => Framed(push(x, k))
         /\ \A x, o : Framed(x) => Framed(pop(x, o))
         /\ \A x, v : Return(x, v) => Orderly
         /\ \A x : Throw(x) => Orderly
         /\ \A x, pc, n, nest : pc \in Suspensions /\ Framed(x) /\ CallEvaluate(x, pc, n, nest)
                                  => Orderly
         /\ \A x, pc, arg : pc \in Suspensions /\ Framed(x) /\ Call(x, pc, "evargs", arg)
                              => Orderly
         /\ \A reason \in Ends : Halt(reason) => Orderly
         /\ PrintsForever \/ PrintingFails => Orderly
<1>1. vm = "running"
  BY DEF At
<1>2. pc0 \notin Drivers \cup EvalPcs \cup Forms
                   \cup {"run_in_thread", "define:value", "define", "evaluate:tail"}
  BY DEF PlainPcs, Suspensions, AllPrims, Setters, Adders, Dumpers, LibDefiners, Drivers,
         BootPcs, ReplPcs, EvalPcs, Forms
<1>3. \A pc \in Suspensions : pc \notin {"define", "define:value"}
  BY DEF Suspensions
<1>4. ASSUME NEW x, NEW pc, NEW n, NEW nest, pc \in Suspensions, Framed(x),
             CallEvaluate(x, pc, n, nest)
      PROVE  Orderly
  BY <1>2, <1>3, <1>4, CallEvaluateOrderly
<1>5. ASSUME NEW x, NEW pc, NEW arg, pc \in Suspensions, Framed(x), Call(x, pc, "evargs", arg)
      PROVE  Orderly
  BY <1>2, <1>3, <1>5, CallOrderly
<1>6. ASSUME NEW x, NEW v, Return(x, v)
      PROVE  Orderly
  BY <1>2, <1>6, ReturnOrderly
<1>7. ASSUME NEW x, Throw(x)
      PROVE  Orderly
  BY <1>2, <1>7, ThrowOrderly
<1>8. PrintsForever \/ PrintingFails => Orderly
  BY <1>1, <1>2, PrintsForeverOrderly, PrintingFailsOrderly DEF At
<1> QED
  BY <1>1, <1>4, <1>5, <1>6, <1>7, <1>8, FramedProperties, HaltOrderly, Zenon

LEMMA PlainOrderly ==
  ASSUME Inv, Definitions
  PROVE  /\ evargs \/ invoke \/ prim_list \/ prim_set \/ prim_cons \/ prim_length => Orderly
         /\ prim_plus \/ prim_minus \/ prim_number_equals \/ prim_if => Orderly
         /\ prim_lambda \/ prim_deflibrary \/ prim_quote \/ prim_eq => Orderly
         /\ prim_error \/ prim_dump => Orderly
<1>1. \A pc \in PlainPcs : At(pc) =>
         /\ Framed(Cur)
         /\ \A x, k : Framed(x) => Framed(push(x, k))
         /\ \A x, o : Framed(x) => Framed(pop(x, o))
         /\ \A x, v : Return(x, v) => Orderly
         /\ \A x : Throw(x) => Orderly
         /\ \A x, p, n, nest : p \in Suspensions /\ Framed(x) /\ CallEvaluate(x, p, n, nest)
                                  => Orderly
         /\ \A x, p, arg : p \in Suspensions /\ Framed(x) /\ Call(x, p, "evargs", arg)
                              => Orderly
         /\ \A reason \in Ends : Halt(reason) => Orderly
         /\ PrintsForever \/ PrintingFails => Orderly
  BY PlainSteps, Zenon
<1>2. "crash" \in Ends /\ "exit" \in Ends
  BY DEF Ends
<1>3. evargs => Orderly
  <2>1. "evargs" \in PlainPcs /\ "evargs:item" \in PlainPcs /\ "evargs:item" \in Suspensions
    BY DEF PlainPcs, Suspensions
  <2> QED BY <1>1, <2>1, Zenon DEF evargs
<1>4. invoke => Orderly
  <2>1. "invoke" \in PlainPcs /\ "invoke:body" \in PlainPcs /\ "invoke:body" \in Suspensions
    BY DEF PlainPcs, Suspensions
  <2> QED BY <1>1, <1>2, <2>1, Zenon DEF invoke
<1>5. prim_list => Orderly
  <2>1. /\ \A p \in {"list", "list:first", "list:next"} : p \in PlainPcs
        /\ "list:first" \in Suspensions /\ "list:next" \in Suspensions
    BY DEF PlainPcs, Suspensions, AllPrims
  <2> QED BY <1>1, <2>1, Zenon DEF prim_list
<1>6. prim_set => Orderly
  <2>1. /\ Setters \subseteq PlainPcs /\ "set:first" \in PlainPcs /\ "set:second" \in PlainPcs
        /\ "set:first" \in Suspensions /\ "set:second" \in Suspensions
    BY DEF PlainPcs, Suspensions, AllPrims, Setters
  <2> QED BY <1>1, <1>2, <2>1, Zenon DEF prim_set
<1>7. prim_cons => Orderly
  <2>1. /\ "cons" \in PlainPcs /\ "cons:car" \in PlainPcs /\ "cons:cdr" \in PlainPcs
        /\ "cons:car" \in Suspensions /\ "cons:cdr" \in Suspensions
    BY DEF PlainPcs, Suspensions, AllPrims
  <2> QED BY <1>1, <2>1, Zenon DEF prim_cons
<1>8. prim_length => Orderly
  <2>1. "length" \in PlainPcs /\ "length:list" \in PlainPcs /\ "length:list" \in Suspensions
    BY DEF PlainPcs, Suspensions, AllPrims
  <2> QED BY <1>1, <2>1, Zenon DEF prim_length
<1>9. prim_plus => Orderly
  <2>1. Adders \subseteq PlainPcs /\ "add:args" \in PlainPcs /\ "add:args" \in Suspensions
    BY DEF PlainPcs, Suspensions, AllPrims, Adders
  <2> QED BY <1>1, <2>1, Zenon DEF prim_plus
<1>10. prim_minus => Orderly
  <2>1. "-" \in PlainPcs /\ "minus:args" \in PlainPcs /\ "minus:args" \in Suspensions
    BY DEF PlainPcs, Suspensions, AllPrims
  <2> QED BY <1>1, <1>2, <2>1, Zenon DEF prim_minus
<1>11. prim_number_equals => Orderly
  <2>1. "=" \in PlainPcs /\ "equal:args" \in PlainPcs /\ "equal:args" \in Suspensions
    BY DEF PlainPcs, Suspensions, AllPrims
  <2> QED BY <1>1, <2>1, Zenon DEF prim_number_equals
<1>12. prim_if => Orderly
  <2>1. /\ "if" \in PlainPcs /\ "if:pred" \in PlainPcs /\ "if:branch" \in PlainPcs
        /\ "if:pred" \in Suspensions /\ "if:branch" \in Suspensions
    BY DEF PlainPcs, Suspensions, AllPrims
  <2> QED BY <1>1, <1>2, <2>1, Zenon DEF prim_if
<1>13. prim_lambda \/ prim_deflibrary \/ prim_quote => Orderly
  <2>1. "lambda" \in PlainPcs /\ LibDefiners \subseteq PlainPcs /\ "quote" \in PlainPcs
    BY DEF PlainPcs, AllPrims, LibDefiners
  <2> QED BY <1>1, <1>2, <2>1, Zenon DEF prim_lambda, prim_deflibrary, prim_quote
<1>14. prim_eq => Orderly
  <2>1. /\ "eq?" \in PlainPcs /\ "eq?:one" \in PlainPcs /\ "eq?:two" \in PlainPcs
        /\ "eq?:one" \in Suspensions /\ "eq?:two" \in Suspensions
    BY DEF PlainPcs, Suspensions, AllPrims
  <2> QED BY <1>1, <1>2, <2>1, Zenon DEF prim_eq
<1>15. prim_error \/ prim_dump => Orderly
  <2>1. /\ "error" \in PlainPcs /\ "error:form" \in PlainPcs /\ Dumpers \subseteq PlainPcs
        /\ "error:form" \in Suspensions
    BY DEF PlainPcs, Suspensions, AllPrims, Dumpers
  <2> QED BY <1>1, <1>2, <2>1, Zenon DEF prim_error, prim_dump
<1> QED BY <1>3, <1>4, <1>5, <1>6, <1>7, <1>8, <1>9, <1>10, <1>11, <1>12, <1>13, <1>14, <1>15

LEMMA evaluate_Orderly ==
  ASSUME Inv, Definitions, evaluate
  PROVE  Orderly
<1>1. \A p \in EvalPcs : p \notin Drivers \cup Forms \cup {"define", "define:value"}
  BY DEF EvalPcs, Drivers, BootPcs, ReplPcs, Forms
<1>2. EvalPcs = {"evaluate", "evaluate:head", "evaluate:args", "evaluate:tail"}
  BY DEF EvalPcs
<1>3. ASSUME NEW p \in EvalPcs, At(p), NEW x, NEW v, Return(x, v)
      PROVE  Orderly
  BY <1>1, <1>3, ReturnOrderly
<1>4. ASSUME NEW p \in EvalPcs, At(p), p # "evaluate:tail", NEW x, Throw(x)
      PROVE  Orderly
  BY <1>1, <1>4, ThrowOrderly
<1>5. ASSUME NEW p \in EvalPcs, At(p), p # "evaluate:tail", NEW x, Framed(x),
             NEW callee, NEW pc \in EvalPcs, NEW arg, Call(x, pc, callee, arg),
             callee # "define:value", callee = "define" => pc = "evaluate:tail"
      PROVE  Orderly
  <2>1. pc \notin {"define", "define:value"} /\ p \notin Drivers \cup {"evaluate:tail"}
    BY <1>1, <1>5
  <2> QED BY <1>5, <2>1, CallOrderly
<1>6. vm = "running" => \A x, k, o : /\ Framed(Cur)
                                     /\ Framed(x) => Framed(push(x, k)) /\ Framed(pop(x, o))
  BY FramedProperties, Zenon
<1>7. ASSUME At("evaluate"), \E v \in Bound : Return(Cur, v)
      PROVE  Orderly
  BY <1>2, <1>3, <1>7
<1>8. ASSUME At("evaluate"), Return(Cur, "C-NULL") \/ Throw(Cur)
      PROVE  Orderly
  BY <1>2, <1>3, <1>4, <1>8
<1>9. ASSUME At("evaluate"), CallEvaluate(push(Cur, 1), "evaluate:head", 0, Operand)
      PROVE  Orderly
  <2>1. Framed(push(Cur, 1))
    BY <1>6, <1>9 DEF At
  <2>2. /\ "evaluate" \notin Forms \cup Drivers \cup {"evaluate:tail"}
        /\ "evaluate:head" \in EvalPcs /\ "evaluate:head" \notin {"define", "define:value"}
    BY <1>1, <1>2
  <2> QED BY <1>9, <2>1, <2>2, CallEvaluateOrderly
<1>10. ASSUME At("evaluate:head"), ret \in Prims, Call(pop(Cur, << 1 >>), "evaluate:tail", ret, NoRet)
       PROVE  Orderly
  <2>1. Framed(pop(Cur, <<1>>))
    BY <1>6, <1>10 DEF At
  <2>2. ret # "define:value"
    BY <1>10, PcFacts DEF AllPrims, Setters, Adders, Dumpers, LibDefiners
  <2> QED BY <1>2, <1>5, <1>10, <2>1, <2>2
<1>11. ASSUME At("evaluate:head"), Call(push(pop(Cur, << 1 >>), 1), "evaluate:args", "evargs", NoRet)
       PROVE  Orderly
  <2>1. Framed(push(pop(Cur, <<1>>), 1))
    BY <1>6, <1>11, Zenon DEF At
  <2> QED BY <1>2, <1>5, <1>11, <2>1
<1>12. ASSUME At("evaluate:head"), Throw(pop(Cur, << 1 >>)) \/ PrintingFails
       PROVE  Orderly
  BY <1>2, <1>4, <1>12, PrintingFailsOrderly DEF At
<1>13. ASSUME At("evaluate:args"), Call(pop(Cur, << 1 >>), "evaluate:tail", "invoke", ret)
       PROVE  Orderly
  <2>1. Framed(pop(Cur, <<1>>))
    BY <1>6, <1>13 DEF At
  <2> QED BY <1>2, <1>5, <1>13, <2>1
<1>14. ASSUME At("evaluate:tail"), Return(Cur, ret)
       PROVE  Orderly
  BY <1>2, <1>3, <1>14
<1> QED BY <1>7, <1>8, <1>9, <1>10, <1>11, <1>12, <1>13, <1>14, Zenon DEF evaluate

(* The level is 1 only if the one evaluation in progress is that of the    *)
(* form itself, which has just called define.                              *)
LEMMA LevelOne ==
  ASSUME Inv, Definitions, At("define"), AtToplevel
  PROVE  Len(stack) = 3
<1> DEFINE N == Len(stack)
<1>1. /\ vm = "running" /\ Top = stack[N] /\ Top.pc = "define" /\ N \in Nat \ {0} /\ N # 1
      /\ level = Cardinality(EvalSet(stack, N))
  BY Start, RunningFacts DEF At, Drivers, BootPcs, ReplPcs
<1>2. N \in 2..N
  <2> HIDE DEF N
  <2> QED BY <1>1
<1>3. IsEval(stack[2]) /\ stack[N - 1].pc = "evaluate:tail"
  BY <1>1, <1>2 DEF Definitions
<1> HIDE DEF N
<1>4. 2 \in EvalSet(stack, N) /\ N - 1 \in EvalSet(stack, N)
  <2>1. 2 \in 1..N /\ N - 1 \in 1..N
    BY <1>2, <1>1
  <2> QED BY <1>3, <2>1 DEF EvalSet, IsEval, EvalPcs
<1>5. IsFiniteSet(EvalSet(stack, N)) /\ Cardinality(EvalSet(stack, N)) = 1
  <2>1. IsFiniteSet(1..N) /\ EvalSet(stack, N) \subseteq 1..N
    BY <1>1, FS_Interval DEF EvalSet
  <2> QED BY <1>1, <2>1, FS_Subset DEF AtToplevel
<1>6. \E a : EvalSet(stack, N) = {a}
  BY <1>5, FS_Singleton
<1>7. N - 1 = 2
  <2>1. PICK a : EvalSet(stack, N) = {a}
    BY <1>6
  <2>2. 2 = a /\ N - 1 = a
    BY <1>4, <2>1, Zenon
  <2> QED BY <2>2
<1>8. N = 3
  BY <1>1, <1>7
<1> QED BY <1>8 DEF N

LEMMA prim_define_Orderly ==
  ASSUME Inv, Definitions, prim_define
  PROVE  Orderly
<1>1. \A p \in {"define", "define:value"} :
        p \notin Drivers \cup Forms \cup EvalPcs \cup {"evaluate:tail"}
  BY DEF EvalPcs, Drivers, BootPcs, ReplPcs, Forms
<1>2. ASSUME At("define"), Throw(Cur)
      PROVE  Orderly
  BY <1>1, <1>2, ThrowOrderly
<1>3. ASSUME At("define"), Halt("crash")
      PROVE  Orderly
  BY <1>3, HaltOrderly DEF Ends, At
<1>4. ASSUME At("define"), AtToplevel, CallEvaluate(push(Cur, 1), "define:value", 0, Operand)
      PROVE  Orderly
  <2>1. Framed(push(Cur, 1))
    BY <1>4, FramedProperties DEF At
  <2>2. Len(stack) = 3
    BY <1>4, LevelOne
  <2> QED BY <1>1, <1>4, <2>1, <2>2, CallEvaluateOrderly
<1>5. ASSUME At("define:value"), Leaves(pop(Cur, << 1 >>), "datum"), added' = added + 1
      PROVE  Orderly
  BY <1>1, <1>5, LeavesOrderly
<1>6. ASSUME At("define:value"), Dies(pop(Cur, << 1 >>).hs)
      PROVE  Orderly
  BY <1>6, DiesOrderly DEF At
<1> QED BY <1>2, <1>3, <1>4, <1>5, <1>6, Zenon DEF prim_define

LEMMA DriversOrderly ==
  ASSUME Inv, Definitions, load_lib_scm \/ run_in_thread
  PROVE  Orderly
<1>1. ASSUME NEW pc0 \in {"load_lib_scm", "run_in_thread"}, At(pc0), NEW held, NEW n, NEW nest,
             NEW pc, pc = IF pc0 = "load_lib_scm" THEN "load_lib_scm:form"
                          ELSE "run_in_thread:form",
             CallEvaluate(read_intern(Cur, held), pc, n, nest)
      PROVE  Orderly
  <2>1. Framed(read_intern(Cur, held))
    BY <1>1, FramedProperties DEF At
  <2>2. /\ pc0 \notin Forms \cup EvalPcs \cup {"evaluate:tail"} /\ pc \in Forms
        /\ (pc0 \in BootPcs <=> pc \in BootPcs) /\ pc \notin {"define", "define:value"}
    BY <1>1 DEF Forms, EvalPcs, BootPcs
  <2> QED BY <1>1, <2>1, <2>2, CallEvaluateOrderly
<1>2. ASSUME At("load_lib_scm"), start_repl
      PROVE  Orderly
  BY <1>2, StartReplOrderly
<1>3. ASSUME NEW pc0, At(pc0), Halt("exit") \/ Halt("done")
                               \/ (pc0 # "run_in_thread" /\ PrintingFails)
      PROVE  Orderly
  BY <1>3, HaltOrderly, PrintingFailsOrderly DEF Ends, At
<1>4. ASSUME At("load_lib_scm:form"), stack' = <<[Top EXCEPT !.pc = "load_lib_scm"]>>,
             added' = 0, vm' = vm
      PROVE  Orderly
  BY <1>4, ResumeOrderly DEF Forms, BootPcs
<1>5. ASSUME At("run_in_thread:form"), stack' = <<[Top EXCEPT !.pc = "run_in_thread"]>>,
             added' = 0, vm' = vm
      PROVE  Orderly
  BY <1>5, ResumeOrderly DEF Forms, BootPcs
<1>6. ASSUME At("run_in_thread"), NEW H, Dies(H)
      PROVE  Orderly
  BY <1>6, DiesOrderly DEF At
<1>7. CASE load_lib_scm
  <2>1. CASE \E nest \in 0..FormNest : \E held \in Peaks(nest) :
               At("load_lib_scm") /\ CallEvaluate(read_intern(Cur, held), "load_lib_scm:form", 0, nest)
    BY <1>1, <2>1
  <2>2. CASE At("load_lib_scm") /\ start_repl
    BY <1>2, <2>2
  <2>3. CASE At("load_lib_scm:form") /\ (Halt("exit") \/ PrintingFails)
    BY <1>3, <2>3
  <2>4. CASE At("load_lib_scm:form") /\ stack' = <<[Top EXCEPT !.pc = "load_lib_scm"]>>
             /\ added' = 0 /\ vm' = vm
    BY <1>4, <2>4
  <2> QED BY <1>7, <2>1, <2>2, <2>3, <2>4, Zenon DEF load_lib_scm
<1>8. CASE run_in_thread
  <2>1. CASE \E nest \in 0..FormNest : \E held \in Peaks(nest) : At("run_in_thread")
               /\ CallEvaluate(read_intern(Cur, held), "run_in_thread:form", Top.n, nest)
    BY <1>1, <2>1
  <2>2. CASE At("run_in_thread") /\ (Halt("done") \/ Dies(pop(Cur, <<1>>).hs))
    BY <1>3, <1>6, <2>2
  <2>3. CASE At("run_in_thread:form") /\ PrintingFails
    BY <1>3, <2>3
  <2>4. CASE At("run_in_thread:form") /\ stack' = <<[Top EXCEPT !.pc = "run_in_thread"]>>
             /\ added' = 0 /\ vm' = vm
    BY <1>5, <2>4
  <2> QED BY <1>8, <2>1, <2>2, <2>3, <2>4, Zenon DEF run_in_thread
<1> QED BY <1>7, <1>8

(***************************************************************************)
(* What the steps do, in every behaviour.                                  *)
(***************************************************************************)
LEMMA NextOrderly ==
  ASSUME Inv, Definitions, Next
  PROVE  Orderly
<1>1. OutOfMemory => Orderly
  BY HaltOrderly DEF OutOfMemory, Ends, At
<1> QED
  BY <1>1, PlainOrderly, evaluate_Orderly, prim_define_Orderly, DriversOrderly, Zenon
  DEF Next, Primitive

LEMMA DefinitionsInvariance == Spec => [](Inv /\ Definitions)
<1>1. Init => Definitions
  <2> SUFFICES ASSUME Init PROVE Definitions
    OBVIOUS
  <2>1. Len(stack) = 1 /\ added = 0
    BY DEF Init
  <2> QED BY <2>1 DEF Definitions
<1>2. ASSUME Inv, Definitions, [Next]_vars
      PROVE  Definitions'
  <2>1. CASE Next
    BY <1>2, <2>1, NextOrderly DEF Orderly
  <2>2. CASE UNCHANGED vars
    BY <1>2, <2>2 DEF vars, Definitions, IsEval
  <2> QED BY <1>2, <2>1, <2>2
<1> QED BY <1>1, <1>2, Invariance, PTL DEF Spec

(* A binding reaches `toplevel' only from a define that is the whole form: *)
(* the level that prim_define tests counts the evaluations that really are *)
(* in progress, whatever errors came before.                               *)
THEOREM DefineIsAtToplevel == Spec => DefineOnlyAtToplevel
<1>1. ASSUME Inv, Definitions, [Next]_vars
      PROVE  [DefinesAtToplevel]_vars
  BY <1>1, NextOrderly DEF Orderly
<1> QED BY <1>1, DefinitionsInvariance, PTL DEF Spec, DefineOnlyAtToplevel, DefinesAtToplevel

(* A form that ends in an error has defined nothing in `toplevel': once    *)
(* define has added its binding, only evaluate's return is left of the     *)
(* form.                                                                   *)
THEOREM ErrorsDefineNothing == Spec => FailedFormDefinesNothing
<1>1. ASSUME Inv, Definitions, [Next]_vars
      PROVE  [FailsClean]_vars
  BY <1>1, NextOrderly DEF Orderly
<1> QED BY <1>1, DefinitionsInvariance, PTL DEF Spec, FailedFormDefinesNothing, FailsClean

(* Every step of the interpreter is a step of module Repl, or none: the    *)
(* safety part of the refinement.  (That a form is answered is liveness.)  *)
THEOREM InterpreterIsRepl == Spec => R!Init /\ [][R!Next]_(R!vars)
<1>1. Init => R!Init
  <2> SUFFICES ASSUME Init PROVE R!Init
    OBVIOUS
  <2>1. stack # <<>> /\ stack[1].pc = "load_lib_scm" /\ vm = "running"
    BY DEF Init, NewFrame
  <2> QED BY <2>1 DEF R!Init, phase, BootPcs
<1>2. ASSUME Inv, Definitions, [Next]_vars
      PROVE  [R!Next]_(R!vars)
  <2>1. CASE Next
    BY <1>2, <2>1, NextOrderly DEF Orderly
  <2>2. CASE UNCHANGED vars
    BY <2>2 DEF vars, R!vars, phase
  <2> QED BY <1>2, <2>1, <2>2
<1> QED BY <1>1, <1>2, DefinitionsInvariance, PTL DEF Spec

-----------------------------------------------------------------------------
(***************************************************************************)
(* No evaluation goes on for ever, unless it comes to print a circle.  A   *)
(* function calls another on a part of its text, or on the same text but   *)
(* a function of another kind, or it is invoke, which evaluates the body   *)
(* of a function with one handle more on the stack: handles, nesting and   *)
(* kind, in this order, bound the number of frames above.  And a step      *)
(* leaves less to do in one frame and touches none below it: the frames'   *)
(* work decreases lexicographically.                                       *)
(***************************************************************************)
KindOf(pc) ==
  IF pc \in EvalPcs THEN 3
  ELSE IF pc \in {"evargs", "evargs:item", "invoke", "invoke:body"} THEN 1
  ELSE 2

(* How many frames there is room for above a frame.                        *)
Width      == 4 * BodyNest + 4
Reserve(f) == Width * (HandleFrameSize - f.base) + 4 * f.nest + KindOf(f.pc)
Limit      == Width * HandleFrameSize + 4 * FormNest + 5

Shallow == \A i \in 2..Len(stack) : i + Reserve(stack[i]) <= Limit

(* How many steps of its own a function still takes at most, where its     *)
(* frame has pc and n.                                                     *)
WorkOf(pc, n) ==
  IF pc \in {"load_lib_scm", "run_in_thread"} THEN 0
  ELSE IF pc \in {"evargs", "list"} THEN MaxItems + 1
  ELSE IF pc = "invoke" THEN MaxBody + 1
  ELSE IF pc \in {"evargs:item", "invoke:body", "list:first", "list:next"} THEN n + 1
  ELSE IF pc = "evaluate" THEN 4
  ELSE IF pc \in {"evaluate:args", "set:first", "cons:car", "if:pred", "eq?:one"} THEN 2
  ELSE IF pc \in Forms \cup {"evaluate:tail", "set:second", "cons:cdr", "length:list",
                             "add:args", "minus:args", "equal:args", "if:branch",
                             "eq?:two", "define:value", "error:form"} THEN 1
  ELSE 3

WorkAt(fs, i) == IF i <= Len(fs) THEN WorkOf(fs[i].pc, fs[i].n) ELSE 0

Falls ==
  \E j \in 1..Len(stack) :
    /\ \A i \in 1..(j - 1) : WorkAt(stack', i) = WorkAt(stack, i)
    /\ WorkAt(stack', j) < WorkAt(stack, j)

(* The printer enters the loop that it does not leave.                     *)
Stays == vm = "running" /\ vm' = "printing" /\ stack' = stack

Forward == Shallow' /\ (FormInProgress => Falls \/ Stays)

LEMMA FrameFields ==
  \A f \in FrameType : /\ f.n \in Nat /\ f.nest \in Nat /\ f.base \in Nat
                       /\ f.h \in Seq(Nat) /\ Len(f.h) \in Nat
<1>1. \A f \in FrameType : f.n \in Nat /\ f.nest \in Nat /\ f.base \in Nat /\ f.h \in Seq(Nat)
  BY DEF FrameType
<1>2. \A h \in Seq(Nat) : Len(h) \in Nat
  OBVIOUS
<1> QED BY <1>1, <1>2

LEMMA BoundsTypes ==
  /\ Width \in Nat \ {0} /\ Limit \in Nat
  /\ \A pc : KindOf(pc) \in 1..3
  /\ \A pc : \A n \in Nat : WorkOf(pc, n) \in Nat
<1>1. Width \in Nat \ {0}
  BY ConstantsAssumption DEF Width
<1> HIDE DEF Width
<1>2. Width * HandleFrameSize \in Nat
  BY <1>1, HandleFrameSizeAssumption
<1>3. Limit \in Nat
  BY <1>2, ConstantsAssumption DEF Limit
<1>4. \A pc : KindOf(pc) \in 1..3
  BY DEF KindOf
<1>5. \A pc : \A n \in Nat : WorkOf(pc, n) \in Nat
  BY ConstantsAssumption DEF WorkOf
<1> QED BY <1>1, <1>3, <1>4, <1>5

(* More handles below a frame leave less room above it.                    *)
LEMMA RoomShrinks ==
  ASSUME NEW b \in 0..HandleFrameSize, NEW c \in b..HandleFrameSize
  PROVE  /\ Width * (HandleFrameSize - b) \in Nat /\ Width * (HandleFrameSize - c) \in Nat
         /\ Width * (HandleFrameSize - c) <= Width * (HandleFrameSize - b)
         /\ b < c => Width * (HandleFrameSize - c) + Width <= Width * (HandleFrameSize - b)
<1>1. \A w, k \in Nat : w * k \in Nat
  OBVIOUS
<1>2. \A w, k, d \in Nat : w * (k + d) = w * k + w * d
  OBVIOUS
<1>3. \A w, d \in Nat : d > 0 => w * d = w * (d - 1) + w
  OBVIOUS
<1> DEFINE k == HandleFrameSize - c
           d == c - b
<1>4. k \in Nat /\ d \in Nat /\ HandleFrameSize - b = k + d /\ Width \in Nat
  BY HandleFrameSizeAssumption, BoundsTypes
<1>5. b < c => d > 0 /\ d - 1 \in Nat
  BY HandleFrameSizeAssumption
<1> HIDE DEF k, d
<1>6. Width * k \in Nat /\ Width * d \in Nat /\ Width * (k + d) = Width * k + Width * d
  BY <1>1, <1>2, <1>4
<1>7. b < c => Width * d = Width * (d - 1) + Width /\ Width * (d - 1) \in Nat
  BY <1>1, <1>3, <1>4, <1>5
<1>8. HandleFrameSize - c = k
  BY DEF k
<1> QED BY <1>4, <1>6, <1>7, <1>8

(* The frames of a form in progress have something left to do.             *)
LEMMA WorkLeft ==
  ASSUME Inv, Definitions, vm = "running", FormInProgress
  PROVE  /\ \A i \in 1..Len(stack) : WorkAt(stack, i) \in Nat
         /\ WorkAt(stack, 1) = 1
         /\ WorkAt(stack, Len(stack)) > 0
<1>1. /\ Len(stack) \in Nat \ {0} /\ Top = stack[Len(stack)]
      /\ \A i \in 1..Len(stack) : stack[i].n \in Nat
  <2>1. \A i \in 1..Len(stack) : stack[i] \in FrameType
    BY RunningFacts
  <2> QED BY <2>1, RunningFacts, FrameFields
<1>2. \A i \in 1..Len(stack) : WorkAt(stack, i) \in Nat
  BY <1>1, BoundsTypes DEF WorkAt
<1>3. WorkAt(stack, 1) = 1
  BY <1>1 DEF WorkAt, WorkOf, Forms, FormInProgress
<1>4. CASE Len(stack) = 1
  BY <1>2, <1>3, <1>4
<1>5. CASE Len(stack) # 1
  <2>1. Top.pc \notin Drivers /\ Top.n \in Nat
    BY <1>1, <1>5, Start
  <2>2. WorkOf(Top.pc, Top.n) > 0
    BY <2>1, ConstantsAssumption DEF WorkOf, Drivers, BootPcs, ReplPcs
  <2>3. WorkAt(stack, Len(stack)) > 0
    BY <1>1, <2>2 DEF WorkAt
  <2> QED BY <1>2, <1>3, <2>3
<1> QED BY <1>4, <1>5

LEMMA HaltForward ==
  ASSUME Inv, Definitions, vm = "running", NEW reason, Halt(reason)
  PROVE  Forward
<1>1. stack' = <<>> /\ Len(stack) \in Nat \ {0}
  BY RunningFacts DEF Halt
<1>2. Shallow'
  BY <1>1 DEF Shallow
<1>3. ASSUME FormInProgress
      PROVE  Falls
  <2>1. WorkAt(stack', 1) = 0 /\ WorkAt(stack, 1) = 1
    BY <1>1, <1>3, WorkLeft DEF WorkAt
  <2> QED BY <1>1, <2>1 DEF Falls
<1> QED BY <1>2, <1>3 DEF Forward

LEMMA PrintsForeverForward ==
  ASSUME Shallow, vm = "running", PrintsForever
  PROVE  Forward
<1>1. stack' = stack /\ vm' = "printing"
  BY DEF PrintsForever
<1>2. Shallow'
  BY <1>1 DEF Shallow, Reserve
<1> QED BY <1>1, <1>2 DEF Forward, Stays

LEMMA DiesForward ==
  ASSUME Inv, Definitions, vm = "running", NEW H, Dies(H)
  PROVE  Forward
BY HaltForward DEF Dies

(* A driver goes on to the next form, also after an error.                 *)
LEMMA AloneForward ==
  ASSUME Inv, Definitions, vm = "running", NEW g, stack' = <<g>>,
         FormInProgress => g.pc \in {"load_lib_scm", "run_in_thread"}
  PROVE  Forward
<1>1. Len(stack') = 1 /\ stack'[1] = g /\ Len(stack) \in Nat \ {0}
  BY RunningFacts
<1>2. Shallow'
  BY <1>1 DEF Shallow
<1>3. ASSUME FormInProgress
      PROVE  Falls
  <2>1. WorkAt(stack', 1) = 0 /\ WorkAt(stack, 1) = 1
    BY <1>1, <1>3, WorkLeft DEF WorkAt, WorkOf
  <2> QED BY <1>1, <2>1 DEF Falls
<1> QED BY <1>2, <1>3 DEF Forward

LEMMA ThrowForward ==
  ASSUME Inv, Definitions, vm = "running", NEW x, Throw(x)
  PROVE  Forward
<1>1. CASE Halt("exit")
  BY <1>1, HaltForward
<1>2. CASE Dies(x.hs)
  BY <1>2, DiesForward
<1>3. CASE stack' = <<[stack[1] EXCEPT !.pc = "run_in_thread"]>>
  <2> DEFINE g == [stack[1] EXCEPT !.pc = "run_in_thread"]
  <2>1. g.pc = "run_in_thread"
    BY Start DEF FrameType
  <2> HIDE DEF g
  <2>2. stack' = <<g>>
    BY <1>3 DEF g
  <2> QED BY <2>1, <2>2, AloneForward
<1> QED BY <1>1, <1>2, <1>3 DEF Throw

LEMMA LeavesForward ==
  ASSUME Inv, Definitions, Shallow, vm = "running", Len(stack) > 1, NEW x, NEW v, Leaves(x, v)
  PROVE  Forward
<1> DEFINE N == Len(stack)
<1>1. N \in Nat \ {0} /\ N > 1
  BY RunningFacts
<1>2. Len(stack') = N - 1 /\ \A i \in 1..(N - 1) : stack'[i] = stack[i]
  BY CallersProperties DEF Leaves
<1>3. WorkAt(stack, N) > 0
  <2>1. FormInProgress
    BY RunningFacts DEF Definitions, FormInProgress
  <2> QED BY <2>1, WorkLeft
<1> HIDE DEF N
<1>4. Shallow'
  <2>1. \A i \in 2..(N - 1) : i \in 2..N /\ i \in 1..(N - 1)
    BY <1>1
  <2>2. \A i \in 2..N : i + Reserve(stack[i]) <= Limit
    BY DEF Shallow, N
  <2>3. \A i \in 2..(N - 1) : i + Reserve(stack'[i]) <= Limit
    BY <1>2, <2>1, <2>2
  <2> QED BY <1>2, <2>3 DEF Shallow, Reserve
<1>5. Falls
  <2>1. WorkAt(stack', N) = 0
    BY <1>1, <1>2 DEF WorkAt
  <2>2. \A i \in 1..(N - 1) : WorkAt(stack', i) = WorkAt(stack, i)
    BY <1>1, <1>2 DEF WorkAt, N
  <2>3. N \in 1..N
    BY <1>1
  <2> QED BY <1>3, <2>1, <2>2, <2>3 DEF Falls, N
<1> QED BY <1>4, <1>5 DEF Forward

(* What a call leaves of the reserve, and that the first frame of a form   *)
(* fits.                                                                   *)
LEMMA ReserveShrinks ==
  ASSUME NEW f \in FrameType, NEW g \in FrameType,
         f.base \in 0..HandleFrameSize, g.base \in f.base..HandleFrameSize,
         \/ g.pc = "evaluate" /\ g.nest = f.nest - 1
         \/ g.pc = "evaluate" /\ g.nest = BodyNest /\ f.base < g.base
         \/ g.nest = f.nest /\ KindOf(g.pc) < KindOf(f.pc)
  PROVE  Reserve(f) \in Nat /\ Reserve(g) \in Nat /\ Reserve(g) < Reserve(f)
<1> DEFINE Rf == Width * (HandleFrameSize - f.base)
           Rg == Width * (HandleFrameSize - g.base)
<1>1. /\ Rf \in Nat /\ Rg \in Nat /\ Rg <= Rf
      /\ f.base < g.base => Rg + Width <= Rf
  BY RoomShrinks
<1>2. /\ KindOf(f.pc) \in 1..3 /\ KindOf(g.pc) \in 1..3 /\ KindOf("evaluate") = 3
      /\ BodyNest \in Nat /\ Width = 4 * BodyNest + 4
  BY BoundsTypes, ConstantsAssumption DEF KindOf, EvalPcs, Width
<1>3. f.nest \in Nat /\ g.nest \in Nat
  BY FrameFields
<1>4. Reserve(f) = Rf + 4 * f.nest + KindOf(f.pc) /\ Reserve(g) = Rg + 4 * g.nest + KindOf(g.pc)
  BY DEF Reserve
<1> HIDE DEF Rf, Rg
<1>5. Reserve(f) \in Nat /\ Reserve(g) \in Nat
  BY <1>1, <1>2, <1>3, <1>4
<1>6. CASE g.pc = "evaluate" /\ g.nest = f.nest - 1
  BY <1>1, <1>2, <1>3, <1>4, <1>5, <1>6
<1>7. CASE g.pc = "evaluate" /\ g.nest = BodyNest /\ f.base < g.base
  BY <1>1, <1>2, <1>3, <1>4, <1>5, <1>7
<1>8. CASE g.nest = f.nest /\ KindOf(g.pc) < KindOf(f.pc)
  BY <1>1, <1>2, <1>3, <1>4, <1>5, <1>8
<1> QED BY <1>5, <1>6, <1>7, <1>8, Zenon

LEMMA ReserveFits ==
  ASSUME NEW g \in FrameType, g.base \in 0..HandleFrameSize, g.pc = "evaluate",
         g.nest \in 0..FormNest
  PROVE  2 + Reserve(g) <= Limit
<1> DEFINE Rg == Width * (HandleFrameSize - g.base)
           R0 == Width * HandleFrameSize
<1>1. Rg \in Nat /\ R0 \in Nat /\ Rg <= R0
  <2>1. 0 \in 0..HandleFrameSize /\ g.base \in 0..HandleFrameSize
        /\ HandleFrameSize - 0 = HandleFrameSize
    BY HandleFrameSizeAssumption
  <2> QED BY <2>1, RoomShrinks
<1>2. KindOf(g.pc) = 3 /\ FormNest \in Nat /\ g.nest \in Nat
  BY ConstantsAssumption, FrameFields DEF KindOf, EvalPcs
<1>3. Reserve(g) = Rg + 4 * g.nest + KindOf(g.pc) /\ Limit = R0 + 4 * FormNest + 5
  BY DEF Reserve, Limit
<1> HIDE DEF Rg, R0
<1> QED BY <1>1, <1>2, <1>3

(* One more frame, g, on top of the frame f, which is the topmost one      *)
(* suspended.                                                              *)
LEMMA PushForward ==
  ASSUME Inv, Inv', Definitions, Shallow, vm = "running", vm' = "running", NEW f, NEW g,
         stack' = Append(Append(Callers, f), g), f.base = Top.base, f.nest = Top.nest,
         Len(stack) = 1 => /\ g.pc = "evaluate" /\ g.nest \in 0..FormNest
                           /\ Top.pc \notin Forms,
         Len(stack) > 1 => /\ WorkOf(f.pc, f.n) < WorkOf(Top.pc, Top.n)
                           /\ KindOf(f.pc) = KindOf(Top.pc)
                           /\ \/ g.pc = "evaluate" /\ g.nest = Top.nest - 1
                              \/ g.pc = "evaluate" /\ g.nest = BodyNest /\ f.pc = "invoke:body"
                              \/ g.nest = Top.nest /\ KindOf(g.pc) < KindOf(Top.pc)
  PROVE  Forward
<1> DEFINE N == Len(stack)
           B == HandleFrameSize
<1>1. /\ N \in Nat \ {0} /\ stack \in Seq(FrameType) /\ Top = stack[N] /\ Top \in FrameType
      /\ Tidy(stack, N, hs)
  BY RunningFacts
<1>2. Len(Callers) = N - 1 /\ Callers \in Seq(FrameType)
      /\ \A i \in 1..(N - 1) : Callers[i] = stack[i]
  BY CallersProperties
<1>3. /\ Len(stack') = N + 1 /\ stack'[N + 1] = g /\ stack'[N] = f
      /\ \A i \in 1..(N - 1) : stack'[i] = stack[i]
  <2> DEFINE S == FrameType \cup {f, g}
  <2>1. Callers \in Seq(S) /\ f \in S /\ g \in S
    BY <1>2, SeqMonotonic
  <2> HIDE DEF S
  <2>2. /\ Append(Callers, f) \in Seq(S) /\ Len(Append(Callers, f)) = N
        /\ Append(Callers, f)[N] = f
        /\ \A i \in 1..(N - 1) : Append(Callers, f)[i] = stack[i]
    BY <1>1, <1>2, <2>1
  <2> QED BY <1>1, <2>1, <2>2
<1> HIDE DEF N
<1>4. /\ FramesOK(stack', N + 1) /\ Tidy(stack', N + 1, hs') /\ hs' \in HandleStacks
  BY <1>3 DEF Inv, TypeOK, Config
<1>5. /\ FrameOK(f, N) /\ FrameOK(g, N + 1) /\ f \in FrameType /\ g \in FrameType
      /\ g.base = f.base + Len(f.h) /\ g.base + Len(g.h) = hs'.top /\ hs'.top \in 0..B
  <2>1. N \in 1..(N + 1) /\ N + 1 \in 1..(N + 1) /\ N \in 1..((N + 1) - 1)
    BY <1>1
  <2>2. FrameOK(f, N) /\ FrameOK(g, N + 1)
    BY <1>3, <1>4, <2>1 DEF FramesOK
  <2>3. g.base = Edge(f) /\ hs'.top = Edge(g)
    BY <1>3, <1>4, <2>1 DEF Tidy
  <2> QED BY <1>4, <2>2, <2>3 DEF FrameOK, Edge, HandleStacks
<1>6. /\ f.base \in 0..B /\ g.base \in f.base..B /\ Len(f.h) \in Nat
      /\ f.nest \in Nat /\ g.nest \in Nat /\ Top.nest \in Nat
  <2>1. /\ f.base \in Nat /\ g.base \in Nat /\ Len(f.h) \in Nat /\ Len(g.h) \in Nat
        /\ f.nest \in Nat /\ g.nest \in Nat /\ Top.nest \in Nat
    BY <1>1, <1>5, FrameFields, Zenon
  <2>2. B \in Nat
    BY HandleFrameSizeAssumption
  <2> HIDE DEF B
  <2>3. \A b, l, c, k, t \in Nat :
          c = b + l /\ c + k = t /\ t \in 0..B => b \in 0..B /\ c \in b..B
    BY <2>2
  <2>4. hs'.top \in Nat
    BY <1>5, <2>2 DEF B
  <2> QED BY <1>5, <2>1, <2>3, <2>4 DEF B
<1>7. f.pc = "invoke:body" => f.base < g.base
  <2> HAVE f.pc = "invoke:body"
  <2>1. Len(f.h) = 1
    BY <1>5 DEF FrameOK, HeldCount, HoldsOne
  <2> QED BY <1>5, <1>6, <2>1
<1>8. ASSUME N > 1
      PROVE  /\ Reserve(f) = Reserve(Top) /\ Reserve(f) \in Nat
             /\ Reserve(g) \in Nat /\ Reserve(g) < Reserve(f)
  <2>1. /\ KindOf(f.pc) = KindOf(Top.pc) /\ f.nest = Top.nest
        /\ \/ g.pc = "evaluate" /\ g.nest = Top.nest - 1
           \/ g.pc = "evaluate" /\ g.nest = BodyNest /\ f.pc = "invoke:body"
           \/ g.nest = Top.nest /\ KindOf(g.pc) < KindOf(Top.pc)
    BY <1>8, Zenon DEF N
  <2>2. Reserve(f) = Reserve(Top)
    BY <2>1, Zenon DEF Reserve
  <2>3. \/ g.pc = "evaluate" /\ g.nest = f.nest - 1
        \/ g.pc = "evaluate" /\ g.nest = BodyNest /\ f.base < g.base
        \/ g.nest = f.nest /\ KindOf(g.pc) < KindOf(f.pc)
    BY <1>7, <2>1, Zenon
  <2> QED BY <1>5, <1>6, <2>2, <2>3, ReserveShrinks, Zenon DEF B
<1>9. Limit \in Nat
  BY BoundsTypes
<1> HIDE DEF B
<1>10. ASSUME NEW i \in 2..(N + 1)
       PROVE  i + Reserve(stack'[i]) <= Limit
  <2>1. CASE i < N
    <3>1. stack'[i] = stack[i] /\ i \in 2..N
      BY <1>1, <1>3, <2>1
    <3> QED BY <3>1 DEF Shallow, N
  <2>2. CASE i = N
    <3>1. N > 1 /\ N \in 2..N
      BY <1>1, <2>2
    <3>2. N + Reserve(Top) <= Limit
      BY <1>1, <3>1 DEF Shallow, N
    <3> QED BY <1>3, <1>8, <2>2, <3>1, <3>2
  <2>3. CASE i = N + 1 /\ N > 1
    <3>1. N \in 2..N
      BY <1>1, <2>3
    <3>2. N + Reserve(Top) <= Limit
      BY <1>1, <3>1 DEF Shallow, N
    <3>3. \A m, l, r, t \in Nat : m + r <= l /\ t < r => m + 1 + t <= l
      OBVIOUS
    <3>4. N + 1 + Reserve(g) <= Limit
      BY <1>1, <1>8, <1>9, <2>3, <3>2, <3>3, Zenon
    <3> QED BY <1>3, <2>3, <3>4
  <2>4. CASE i = N + 1 /\ N = 1
    <3>1. 2 + Reserve(g) <= Limit
      <4>1. g.pc = "evaluate" /\ g.nest \in 0..FormNest
        BY <2>4 DEF N
      <4>2. g.base \in 0..HandleFrameSize
        BY <1>6, HandleFrameSizeAssumption DEF B
      <4> QED BY <1>5, <4>1, <4>2, ReserveFits
    <3> QED BY <1>3, <2>4, <3>1
  <2>5. i < N \/ i = N \/ (i = N + 1 /\ N > 1) \/ (i = N + 1 /\ N = 1)
    <3>1. N \in Nat \ {0} /\ i \in 2..(N + 1)
      BY <1>1
    <3> QED BY <3>1
  <2> QED BY <2>1, <2>2, <2>3, <2>4, <2>5, Zenon
<1>11. Shallow'
  BY <1>3, <1>10 DEF Shallow
<1>12. ASSUME N > 1
       PROVE  Falls
  <2>1. \A i \in 1..(N - 1) : WorkAt(stack', i) = WorkAt(stack, i)
    BY <1>1, <1>3 DEF WorkAt, N
  <2>2. WorkAt(stack', N) = WorkOf(f.pc, f.n) /\ WorkAt(stack, N) = WorkOf(Top.pc, Top.n)
    BY <1>1, <1>3 DEF WorkAt, N
  <2>3. N \in 1..N /\ WorkOf(f.pc, f.n) < WorkOf(Top.pc, Top.n)
    BY <1>1, <1>12 DEF N
  <2> QED BY <2>1, <2>2, <2>3 DEF Falls, N
<1>13. FormInProgress => N > 1
  <2>1. N = 1 => ~FormInProgress
    BY <1>1 DEF FormInProgress, N
  <2> QED BY <1>1, <2>1
<1> QED BY <1>11, <1>12, <1>13 DEF Forward

(* The step goes on with the topmost frame, its handle locals excepted.    *)
Kept(x) ==
  /\ {"pc", "n", "base", "nest"} \subseteq DOMAIN x.f
  /\ x.f.base = Top.base /\ x.f.nest = Top.nest

LEMMA KeptProperties ==
  ASSUME Inv, vm = "running"
  PROVE  /\ Kept(Cur)
         /\ \A k : Kept(read_intern(Cur, k))
         /\ \A x, k : Kept(x) => Kept(push(x, k))
         /\ \A x, o : Kept(x) => Kept(pop(x, o))
<1>1. Kept(Cur)
  BY CurGood DEF Kept, FrameType
<1>2. ASSUME NEW x, NEW k, Kept(x)
      PROVE  Kept(push(x, k))
  BY <1>2 DEF Kept, push
<1>3. ASSUME NEW x, NEW o, Kept(x)
      PROVE  Kept(pop(x, o))
  BY <1>3 DEF Kept, pop
<1>4. ASSUME NEW k
      PROVE  Kept(read_intern(Cur, k))
  <2>1. read_intern(Cur, k).f = Cur.f
    BY DEF read_intern, Cur
  <2> QED BY <1>1, <2>1 DEF Kept
<1> QED BY <1>1, <1>2, <1>3, <1>4

(* A suspension of the topmost frame that leaves it less to do.            *)
CanCall(pc, n) ==
  WorkOf(pc, n) < WorkOf(Top.pc, Top.n) /\ KindOf(pc) = KindOf(Top.pc)

LEMMA CallEvaluateForward ==
  ASSUME Inv, Inv', Definitions, Shallow, vm = "running", NEW x, Kept(x), NEW pc, NEW n, NEW nest,
         CallEvaluate(x, pc, n, nest),
         Len(stack) = 1 => nest \in 0..FormNest /\ Top.pc \notin Forms,
         Len(stack) > 1 => /\ CanCall(pc, n)
                           /\ \/ nest = Operand
                              \/ nest = BodyNest /\ pc = "invoke:body"
  PROVE  Forward
<1> DEFINE f == [x.f EXCEPT !.pc = pc, !.n = n]
           g == [NewFrame("evaluate", 0, nest, x.hs.top) EXCEPT !.next = evalStack]
<1>1. CASE Dies(x.hs)
  BY <1>1, DiesForward
<1>2. CASE ~Dies(x.hs)
  <2>1. stack' = Append(Append(Callers, f), g) /\ vm' = "running"
    BY <1>2 DEF CallEvaluate, Suspended, Survives
  <2>2. f.pc = pc /\ f.n = n /\ f.base = Top.base /\ f.nest = Top.nest
    BY DEF Kept
  <2>3. g.pc = "evaluate" /\ g.nest = nest
    BY DEF NewFrame
  <2> HIDE DEF f, g
  <2> QED BY <2>1, <2>2, <2>3, PushForward DEF CanCall, Operand
<1> QED BY <1>1, <1>2

LEMMA CallForward ==
  ASSUME Inv, Inv', Definitions, Shallow, vm = "running", Len(stack) # 1,
         NEW x, Kept(x), NEW pc, NEW callee, NEW arg, Call(x, pc, callee, arg),
         CanCall(pc, 0), KindOf(callee) < KindOf(Top.pc)
  PROVE  Forward
<1> DEFINE f == [x.f EXCEPT !.pc = pc, !.n = 0]
           g == NewFrame(callee, 0, x.f.nest, x.hs.top)
<1>1. CASE Dies(x.hs)
  BY <1>1, DiesForward
<1>2. CASE ~Dies(x.hs)
  <2>1. stack' = Append(Append(Callers, f), g) /\ vm' = "running"
    BY <1>2 DEF Call, Suspended, Survives
  <2>2. f.pc = pc /\ f.n = 0 /\ f.base = Top.base /\ f.nest = Top.nest
    BY DEF Kept
  <2>3. g.pc = callee /\ g.nest = Top.nest
    BY DEF NewFrame, Kept
  <2> HIDE DEF f, g
  <2>4. /\ WorkOf(f.pc, f.n) < WorkOf(Top.pc, Top.n)
        /\ KindOf(f.pc) = KindOf(Top.pc) /\ KindOf(g.pc) < KindOf(Top.pc)
    BY <2>2, <2>3, Zenon DEF CanCall
  <2>5. Len(stack) # 1
    BY Zenon
  <2> QED BY <2>1, <2>2, <2>3, <2>4, <2>5, PushForward, Zenon
<1> QED BY <1>1, <1>2

(* The steps of the functions other than the drivers.                      *)
LEMMA InnerForward ==
  ASSUME Inv, Inv', Definitions, Shallow, vm = "running", Top.pc \notin Drivers
  PROVE  /\ Kept(Cur)
         /\ \A x, k : Kept(x) => Kept(push(x, k))
         /\ \A x, o : Kept(x) => Kept(pop(x, o))
         /\ \A x, v : Leaves(x, v) => Forward
         /\ \A x, v : Return(x, v) => Forward
         /\ \A x : Throw(x) => Forward
         /\ \A H : Dies(H) => Forward
         /\ \A x, pc, n : CanCall(pc, n) /\ Kept(x) /\ CallEvaluate(x, pc, n, Operand) => Forward
         /\ \A x, n : CanCall("invoke:body", n) /\ Kept(x)
                      /\ CallEvaluate(x, "invoke:body", n, BodyNest) => Forward
         /\ \A x, pc, callee, arg : CanCall(pc, 0) /\ KindOf(callee) < KindOf(Top.pc)
                                    /\ Kept(x) /\ Call(x, pc, callee, arg) => Forward
         /\ \A reason : Halt(reason) => Forward
         /\ PrintsForever \/ PrintingFails => Forward
<1>1. Len(stack) > 1 /\ Len(stack) # 1
  <2>1. Len(stack) \in Nat \ {0} /\ Len(stack) # 1
    BY Start, Zenon
  <2>2. \A n \in Nat \ {0} : n # 1 => n > 1
    OBVIOUS
  <2> QED BY <2>1, <2>2, Zenon
<1>2. \A x, v : Leaves(x, v) => Forward
  BY <1>1, LeavesForward
<1>3. \A H : Dies(H) => Forward
  BY DiesForward, Zenon
<1>4. \A x, v : Return(x, v) => Forward
  BY <1>2, <1>3, Zenon DEF Return
<1>5. \A x, pc, n : CanCall(pc, n) /\ Kept(x) /\ CallEvaluate(x, pc, n, Operand) => Forward
  BY <1>1, CallEvaluateForward, Zenon
<1>6. \A x, n : CanCall("invoke:body", n) /\ Kept(x)
                /\ CallEvaluate(x, "invoke:body", n, BodyNest) => Forward
  <2>1. ASSUME NEW x, NEW n, CanCall("invoke:body", n), Kept(x),
               CallEvaluate(x, "invoke:body", n, BodyNest)
        PROVE  Forward
    BY <1>1, <2>1, CallEvaluateForward, Zenon
  <2> QED BY <2>1, Zenon
<1>7. \A x, pc, callee, arg : CanCall(pc, 0) /\ KindOf(callee) < KindOf(Top.pc)
                              /\ Kept(x) /\ Call(x, pc, callee, arg) => Forward
  <2>1. ASSUME NEW x, NEW pc, NEW callee, NEW arg, CanCall(pc, 0),
               KindOf(callee) < KindOf(Top.pc), Kept(x), Call(x, pc, callee, arg)
        PROVE  Forward
    BY <1>1, <2>1, CallForward, Zenon
  <2> QED BY <2>1, Zenon
<1>8. \A x : Throw(x) => Forward
  BY ThrowForward, Zenon
<1>9. \A reason : Halt(reason) => Forward
  BY HaltForward, Zenon
<1>10. PrintsForever \/ PrintingFails => Forward
  BY <1>9, PrintsForeverForward, Zenon DEF PrintingFails
<1>11. /\ Kept(Cur)
       /\ \A x, k : Kept(x) => Kept(push(x, k))
       /\ \A x, o : Kept(x) => Kept(pop(x, o))
  BY KeptProperties, Zenon
<1> QED BY <1>2, <1>3, <1>4, <1>5, <1>6, <1>7, <1>8, <1>9, <1>10, <1>11, Zenon

LEMMA FunctionsForward ==
  ASSUME Inv, Inv', Definitions, Shallow
  PROVE  /\ evaluate \/ evargs \/ invoke => Forward
         /\ prim_list \/ prim_set \/ prim_cons \/ prim_length \/ prim_plus => Forward
         /\ prim_minus \/ prim_number_equals \/ prim_if \/ prim_lambda => Forward
         /\ prim_deflibrary \/ prim_quote \/ prim_eq \/ prim_define => Forward
         /\ prim_error \/ prim_dump => Forward
<1>1. \A p : p \notin Drivers /\ At(p) =>
         /\ Kept(Cur)
         /\ \A x, k : Kept(x) => Kept(push(x, k))
         /\ \A x, o : Kept(x) => Kept(pop(x, o))
         /\ \A x, v : Leaves(x, v) => Forward
         /\ \A x, v : Return(x, v) => Forward
         /\ \A x : Throw(x) => Forward
         /\ \A H : Dies(H) => Forward
         /\ \A x, pc, n : CanCall(pc, n) /\ Kept(x) /\ CallEvaluate(x, pc, n, Operand) => Forward
         /\ \A x, n : CanCall("invoke:body", n) /\ Kept(x)
                      /\ CallEvaluate(x, "invoke:body", n, BodyNest) => Forward
         /\ \A x, pc, callee, arg : CanCall(pc, 0) /\ KindOf(callee) < KindOf(p)
                                    /\ Kept(x) /\ Call(x, pc, callee, arg) => Forward
         /\ \A reason : Halt(reason) => Forward
         /\ PrintsForever \/ PrintingFails => Forward
  <2> SUFFICES ASSUME NEW p, p \notin Drivers, At(p)
               PROVE  /\ vm = "running" /\ Top.pc = p /\ Top.pc \notin Drivers
    BY InnerForward, Zenon
  <2> QED BY DEF At
<1>2. \A p : At(p) => Top.pc = p /\ Top.n \in Nat /\ MaxItems \in Nat /\ MaxBody \in Nat
  BY RunningFacts, ConstantsAssumption DEF At, FrameType
<1>3. evargs => Forward
  <2>1. \A p \in {"evargs", "evargs:item"} : p \notin Drivers
    BY DEF Drivers, BootPcs, ReplPcs
  <2>2. At("evargs") => \A k \in 1..MaxItems : CanCall("evargs:item", k - 1)
    BY <1>2 DEF CanCall, WorkOf, KindOf, EvalPcs, Forms
  <2>3. At("evargs:item") => CanCall("evargs:item", Rest)
    BY <1>2 DEF CanCall, WorkOf, KindOf, EvalPcs, Forms, Rest
  <2> QED BY <1>1, <2>1, <2>2, <2>3, Zenon DEF evargs
<1>4. invoke => Forward
  <2>1. \A p \in {"invoke", "invoke:body"} : p \notin Drivers
    BY DEF Drivers, BootPcs, ReplPcs
  <2>2. At("invoke") => \A k \in 1..MaxBody : CanCall("invoke:body", k - 1)
    BY <1>2 DEF CanCall, WorkOf, KindOf, EvalPcs, Forms
  <2>3. At("invoke:body") => CanCall("invoke:body", Rest)
    BY <1>2 DEF CanCall, WorkOf, KindOf, EvalPcs, Forms, Rest
  <2> QED BY <1>1, <2>1, <2>2, <2>3, Zenon DEF invoke
<1>5. prim_list => Forward
  <2>1. \A p \in {"list", "list:first", "list:next"} : p \notin Drivers
    BY DEF Drivers, BootPcs, ReplPcs
  <2>2. At("list") => \A k \in 1..MaxItems : CanCall("list:first", k - 1)
    BY <1>2 DEF CanCall, WorkOf, KindOf, EvalPcs, Forms
  <2>3. At("list:first") \/ At("list:next") => CanCall("list:next", Rest)
    BY <1>2 DEF CanCall, WorkOf, KindOf, EvalPcs, Forms, Rest
  <2> QED BY <1>1, <2>1, <2>2, <2>3, Zenon DEF prim_list
<1>6. prim_set => Forward
  <2>1. \A p \in Setters \cup {"set:first", "set:second"} : p \notin Drivers
    BY DEF Drivers, BootPcs, ReplPcs, Setters
  <2>2. (\E p \in Setters : At(p)) => CanCall("set:first", 0)
    BY <1>2 DEF CanCall, WorkOf, KindOf, EvalPcs, Forms, Setters
  <2>3. At("set:first") => CanCall("set:second", 0)
    BY <1>2 DEF CanCall, WorkOf, KindOf, EvalPcs, Forms
  <2> QED BY <1>1, <2>1, <2>2, <2>3, Zenon DEF prim_set
<1>7. prim_cons => Forward
  <2>1. \A p \in {"cons", "cons:car", "cons:cdr"} : p \notin Drivers
    BY DEF Drivers, BootPcs, ReplPcs
  <2>2. At("cons") => CanCall("cons:car", 0)
    BY <1>2 DEF CanCall, WorkOf, KindOf, EvalPcs, Forms
  <2>3. At("cons:car") => CanCall("cons:cdr", 0)
    BY <1>2 DEF CanCall, WorkOf, KindOf, EvalPcs, Forms
  <2> QED BY <1>1, <2>1, <2>2, <2>3, Zenon DEF prim_cons
<1>8. prim_length => Forward
  <2>1. \A p \in {"length", "length:list"} : p \notin Drivers
    BY DEF Drivers, BootPcs, ReplPcs
  <2>2. At("length") => CanCall("length:list", 0)
    BY <1>2 DEF CanCall, WorkOf, KindOf, EvalPcs, Forms
  <2> QED BY <1>1, <2>1, <2>2, Zenon DEF prim_length
<1>9. prim_plus => Forward
  <2>1. \A p \in Adders \cup {"add:args"} : p \notin Drivers
    BY DEF Drivers, BootPcs, ReplPcs, Adders
  <2>2. \A p \in Adders : At(p) => CanCall("add:args", 0) /\ KindOf("evargs") < KindOf(p)
    BY <1>2 DEF CanCall, WorkOf, KindOf, EvalPcs, Forms, Adders
  <2> QED BY <1>1, <2>1, <2>2, Zenon DEF prim_plus
<1>10. prim_minus => Forward
  <2>1. \A p \in {"-", "minus:args"} : p \notin Drivers
    BY DEF Drivers, BootPcs, ReplPcs
  <2>2. At("-") => CanCall("minus:args", 0) /\ KindOf("evargs") < KindOf("-")
    BY <1>2 DEF CanCall, WorkOf, KindOf, EvalPcs, Forms
  <2> QED BY <1>1, <2>1, <2>2, Zenon DEF prim_minus
<1>11. prim_number_equals => Forward
  <2>1. \A p \in {"=", "equal:args"} : p \notin Drivers
    BY DEF Drivers, BootPcs, ReplPcs
  <2>2. At("=") => CanCall("equal:args", 0) /\ KindOf("evargs") < KindOf("=")
    BY <1>2 DEF CanCall, WorkOf, KindOf, EvalPcs, Forms
  <2> QED BY <1>1, <2>1, <2>2, Zenon DEF prim_number_equals
<1>12. prim_if => Forward
  <2>1. \A p \in {"if", "if:pred", "if:branch"} : p \notin Drivers
    BY DEF Drivers, BootPcs, ReplPcs
  <2>2. At("if") => CanCall("if:pred", 0)
    BY <1>2 DEF CanCall, WorkOf, KindOf, EvalPcs, Forms
  <2>3. At("if:pred") => CanCall("if:branch", 0)
    BY <1>2 DEF CanCall, WorkOf, KindOf, EvalPcs, Forms
  <2> QED BY <1>1, <2>1, <2>2, <2>3, Zenon DEF prim_if
<1>13. prim_lambda \/ prim_deflibrary \/ prim_quote => Forward
  <2>1. \A p \in LibDefiners \cup {"lambda", "quote"} : p \notin Drivers
    BY DEF Drivers, BootPcs, ReplPcs, LibDefiners
  <2> QED BY <1>1, <2>1, Zenon DEF prim_lambda, prim_deflibrary, prim_quote
<1>14. prim_eq => Forward
  <2>1. \A p \in {"eq?", "eq?:one", "eq?:two"} : p \notin Drivers
    BY DEF Drivers, BootPcs, ReplPcs
  <2>2. At("eq?") => \A n \in 0..1 : CanCall("eq?:one", n)
    BY <1>2 DEF CanCall, WorkOf, KindOf, EvalPcs, Forms
  <2>3. At("eq?:one") => CanCall("eq?:two", 0)
    BY <1>2 DEF CanCall, WorkOf, KindOf, EvalPcs, Forms
  <2> QED BY <1>1, <2>1, <2>2, <2>3, Zenon DEF prim_eq
<1>15. prim_define => Forward
  <2>1. \A p \in {"define", "define:value"} : p \notin Drivers
    BY DEF Drivers, BootPcs, ReplPcs
  <2>2. At("define") => CanCall("define:value", 0)
    BY <1>2 DEF CanCall, WorkOf, KindOf, EvalPcs, Forms
  <2> QED BY <1>1, <2>1, <2>2, Zenon DEF prim_define
<1>16. prim_error \/ prim_dump => Forward
  <2>1. \A p \in Dumpers \cup {"error", "error:form"} : p \notin Drivers
    BY DEF Drivers, BootPcs, ReplPcs, Dumpers
  <2>2. At("error") => CanCall("error:form", 0)
    BY <1>2 DEF CanCall, WorkOf, KindOf, EvalPcs, Forms
  <2> QED BY <1>1, <2>1, <2>2, Zenon DEF prim_error, prim_dump
<1>17. evaluate => Forward
  <2>1. \A p \in EvalPcs : p \notin Drivers
    BY DEF Drivers, BootPcs, ReplPcs, EvalPcs
  <2>2. At("evaluate") => CanCall("evaluate:head", 0)
    BY <1>2 DEF CanCall, WorkOf, KindOf, EvalPcs, Forms
  <2>3. At("evaluate:head") => CanCall("evaluate:tail", 0) /\ CanCall("evaluate:args", 0)
    BY <1>2 DEF CanCall, WorkOf, KindOf, EvalPcs, Forms
  <2>4. At("evaluate:args") => CanCall("evaluate:tail", 0)
    BY <1>2 DEF CanCall, WorkOf, KindOf, EvalPcs, Forms
  <2>5. \A p \in Prims : KindOf(p) < KindOf("evaluate:head")
    BY PcFacts DEF KindOf, EvalPcs, AllPrims, Setters, Adders, Dumpers, LibDefiners
  <2>6. /\ KindOf("evargs") < KindOf("evaluate:head") /\ KindOf("invoke") < KindOf("evaluate:args")
        /\ \A p \in {"evaluate", "evaluate:head", "evaluate:args", "evaluate:tail"} : p \in EvalPcs
    BY DEF KindOf, EvalPcs
  <2> QED BY <1>1, <2>1, <2>2, <2>3, <2>4, <2>5, <2>6, Zenon DEF evaluate
<1> QED
  BY <1>3, <1>4, <1>5, <1>6, <1>7, <1>8, <1>9, <1>10,
     <1>11, <1>12, <1>13, <1>14, <1>15, <1>16, <1>17

LEMMA DriversForward ==
  ASSUME Inv, Inv', Definitions, Shallow, load_lib_scm \/ run_in_thread
  PROVE  Forward
<1>1. vm = "running" /\ Top.pc \in Drivers
  BY DEF load_lib_scm, run_in_thread, At, Drivers, BootPcs, ReplPcs
<1>2. Len(stack) = 1 /\ Top \in FrameType
  BY <1>1, Start, RunningFacts
<1>3. ASSUME NEW held, NEW pc, NEW n, NEW nest \in 0..FormNest,
             CallEvaluate(read_intern(Cur, held), pc, n, nest), Top.pc \notin Forms
      PROVE  Forward
  <2>1. Kept(read_intern(Cur, held))
    BY <1>1, KeptProperties
  <2> QED BY <1>1, <1>2, <1>3, <2>1, CallEvaluateForward
<1>4. \A reason : Halt(reason) => Forward
  BY <1>1, HaltForward
<1>5. \A H : Dies(H) => Forward
  BY <1>1, DiesForward
<1>6. ASSUME NEW g, stack' = <<g>>,
             Top.pc \in Forms => g.pc \in {"load_lib_scm", "run_in_thread"}
      PROVE  Forward
  <2>1. FormInProgress => Top.pc \in Forms
    BY <1>2, Zenon DEF FormInProgress, Top
  <2> QED BY <1>1, <1>6, <2>1, AloneForward
<1>7. ASSUME NEW pc \in {"load_lib_scm", "run_in_thread"}, stack' = <<[Top EXCEPT !.pc = pc]>>
      PROVE  Forward
  <2> DEFINE g == [Top EXCEPT !.pc = pc]
  <2>1. g.pc = pc
    BY <1>2 DEF FrameType
  <2> HIDE DEF g
  <2>2. stack' = <<g>>
    BY <1>7 DEF g
  <2> QED BY <1>6, <1>7, <2>1, <2>2
<1>8. \A pc \in {"load_lib_scm", "run_in_thread"} : At(pc) => Top.pc \notin Forms
  BY DEF At, Forms
<1>9. PrintsForever \/ PrintingFails => Forward
  BY <1>1, <1>4, PrintsForeverForward DEF PrintingFails
<1>10. At("load_lib_scm") /\ start_repl => Forward
  <2> SUFFICES ASSUME At("load_lib_scm"), start_repl PROVE Forward
    OBVIOUS
  <2>1. Top.pc \notin Forms
    BY <1>8
  <2>2. \/ \E H : Dies(H)
        \/ \E g : stack' = <<g>>
    BY Zenon DEF start_repl
  <2> QED BY <1>5, <1>6, <2>1, <2>2
<1> QED BY <1>3, <1>4, <1>5, <1>7, <1>8, <1>9, <1>10, Zenon DEF load_lib_scm, run_in_thread

LEMMA NextForward ==
  ASSUME Inv, Inv', Definitions, Shallow, Next
  PROVE  Forward
<1>1. OutOfMemory => Forward
  BY HaltForward DEF OutOfMemory, At
<1> QED BY <1>1, FunctionsForward, DriversForward, Zenon DEF Next, Primitive

LEMMA ShallowInvariance == Spec => [](Inv /\ Definitions /\ Shallow)
<1>1. Init => Shallow
  <2> SUFFICES ASSUME Init PROVE Shallow
    OBVIOUS
  <2>1. Len(stack) = 1
    BY DEF Init
  <2> QED BY <2>1 DEF Shallow
<1>2. ASSUME Inv, Inv', Definitions, Shallow, [Next]_vars
      PROVE  Shallow'
  <2>1. CASE Next
    BY <1>2, <2>1, NextForward DEF Forward
  <2>2. CASE UNCHANGED vars
    BY <1>2, <2>2 DEF vars, Shallow
  <2> QED BY <1>2, <2>1, <2>2
<1> QED BY <1>1, <1>2, DefinitionsInvariance, PTL DEF Spec

(* However a program recurses, the C functions called and not returned     *)
(* from are at most Limit: a call of a function that the program defines   *)
(* takes a handle, and so a recursion without end runs out of them and is  *)
(* answered by "Out of handles!", not by an overflow of the C stack.       *)
THEOREM StackIsBounded == Spec => [](Len(stack) <= Limit)
<1>1. ASSUME Inv, Shallow
      PROVE  Len(stack) <= Limit
  <2> DEFINE N == Len(stack)
  <2>1. N \in Nat /\ Limit \in Nat /\ Limit >= 5
    <3>1. Width * HandleFrameSize \in Nat
      BY BoundsTypes, HandleFrameSizeAssumption
    <3>2. Limit >= 5
      BY <3>1, ConstantsAssumption DEF Limit
    <3>3. N \in Nat
      <4>1. stack \in Seq(FrameType)
        BY <1>1 DEF Inv, TypeOK
      <4> QED BY <4>1
    <3> QED BY <3>2, <3>3, BoundsTypes
  <2>2. CASE N > 1
    <3>1. stack # <<>>
      BY <2>2
    <3>2. /\ Tidy(stack, N, hs) /\ hs \in HandleStacks /\ stack[N] \in FrameType
      BY <1>1, <2>1, <2>2, <3>1, LiveFacts
    <3>3. stack[N].base \in 0..HandleFrameSize
      <4>1. hs.top = stack[N].base + Len(stack[N].h) /\ hs.top \in 0..HandleFrameSize
        BY <3>2 DEF Tidy, Edge, HandleStacks
      <4>2. stack[N].base \in Nat /\ Len(stack[N].h) \in Nat
        BY <3>2, FrameFields
      <4> QED BY <4>1, <4>2, HandleFrameSizeAssumption
    <3>4. Reserve(stack[N]) \in Nat
      <4>1. Width * (HandleFrameSize - stack[N].base) \in Nat
        BY <3>3, RoomShrinks, HandleFrameSizeAssumption
      <4>2. stack[N].nest \in Nat /\ KindOf(stack[N].pc) \in Nat
        BY <3>2, BoundsTypes, FrameFields
      <4> QED BY <4>1, <4>2 DEF Reserve
    <3>5. N + Reserve(stack[N]) <= Limit
      <4>1. N \in 2..N
        BY <2>1, <2>2
      <4> QED BY <1>1, <4>1 DEF Shallow
    <3> QED BY <2>1, <3>4, <3>5
  <2>3. CASE ~(N > 1)
    BY <2>1, <2>3
  <2> QED BY <2>2, <2>3
<1> QED BY <1>1, ShallowInvariance, PTL

(* What is left to do, in the frames from the bottom to the top, and then  *)
(* whether the interpreter still runs: the printer's endless loop is a     *)
(* last step.                                                              *)
LeftAt(fs, v, i) ==
  IF i <= Limit THEN WorkAt(fs, i) ELSE IF v = "running" THEN 1 ELSE 0

Rank  == [i \in 1..(Limit + 1) |-> LeftAt(stack, vm, i)]
Ranks == [1..(Limit + 1) -> Nat]
Less  == LexProductOrdering(OpToRel(<, Nat), Nat, Limit + 1)

LEMMA RanksWellFounded == IsWellFoundedOn(Less, Ranks)
<1>1. IsWellFoundedOn(OpToRel(<, Nat), Nat)
  BY NatLessThanWellFounded
<1>2. Limit + 1 \in Nat
  BY BoundsTypes
<1> QED BY <1>1, <1>2, WFLexProductOrdering DEF Less, Ranks

LEMMA RankType ==
  ASSUME NEW fs \in Seq(FrameType), NEW v
  PROVE  [i \in 1..(Limit + 1) |-> LeftAt(fs, v, i)] \in Ranks
<1>1. ASSUME NEW i \in 1..(Limit + 1), i <= Limit
      PROVE  WorkAt(fs, i) \in Nat
  <2>1. CASE i <= Len(fs)
    <3>1. i \in 1..Len(fs)
      BY <2>1, BoundsTypes
    <3>2. fs[i] \in FrameType
      BY <3>1
    <3>3. fs[i].n \in Nat
      BY <3>2, FrameFields
    <3> QED BY <2>1, <3>3, BoundsTypes DEF WorkAt
  <2>2. CASE ~(i <= Len(fs))
    BY <2>2 DEF WorkAt
  <2> QED BY <2>1, <2>2
<1>2. \A i \in 1..(Limit + 1) : LeftAt(fs, v, i) \in Nat
  BY <1>1 DEF LeftAt
<1> QED BY <1>2 DEF Ranks

(* Every step inside a form brings the form nearer to its end, whatever    *)
(* the program does: it leaves less, in an order without infinite descent, *)
(* of what the C functions still have to do.  So a form takes finitely     *)
(* many steps and ends in an answer, an error, the end of the process or,  *)
(* as the one exception, in the printer's loop over a circle, as long as   *)
(* the interpreter goes on; that it goes on is the fairness of Spec.       *)
Descends ==
  FormInProgress => /\ Rank \in Ranks /\ Rank' \in Ranks
                    /\ <<Rank', Rank>> \in Less

THEOREM EvaluationsEnd ==
  /\ IsWellFoundedOn(Less, Ranks)
  /\ Spec => [][Descends]_vars
<1>1. ASSUME Inv, Inv', Definitions, Shallow, Len(stack) <= Limit, Next
      PROVE  Descends
  <2> SUFFICES ASSUME FormInProgress
               PROVE  Rank \in Ranks /\ Rank' \in Ranks /\ <<Rank', Rank>> \in Less
    BY DEF Descends
  <2> DEFINE P == Rank
             Q == Rank'
  <2>1. /\ P = [i \in 1..(Limit + 1) |-> LeftAt(stack, vm, i)]
        /\ Q = [i \in 1..(Limit + 1) |-> LeftAt(stack', vm', i)]
    BY DEF Rank, LeftAt, WorkAt
  <2>2. stack \in Seq(FrameType) /\ stack' \in Seq(FrameType)
    BY <1>1 DEF Inv, TypeOK
  <2>3. P \in Ranks /\ Q \in Ranks
    BY <2>1, <2>2, RankType
  <2>4. \E j \in 1..(Limit + 1) : Q[j] < P[j] /\ \A i \in 1..(j - 1) : Q[i] = P[i]
    <3>1. CASE Falls
      <4>1. PICK j \in 1..Len(stack) :
              /\ \A i \in 1..(j - 1) : WorkAt(stack', i) = WorkAt(stack, i)
              /\ WorkAt(stack', j) < WorkAt(stack, j)
        BY <3>1 DEF Falls
      <4>2. j \in 1..(Limit + 1) /\ j <= Limit
            /\ \A i \in 1..(j - 1) : i \in 1..(Limit + 1) /\ i <= Limit
        BY <1>1, <2>2, BoundsTypes
      <4>3. Q[j] < P[j] /\ \A i \in 1..(j - 1) : Q[i] = P[i]
        BY <2>1, <4>1, <4>2 DEF LeftAt
      <4> QED BY <4>2, <4>3
    <3>2. CASE Stays
      <4>1. Limit + 1 \in 1..(Limit + 1) /\ ~(Limit + 1 <= Limit)
            /\ \A i \in 1..((Limit + 1) - 1) : i \in 1..(Limit + 1) /\ i <= Limit
        BY BoundsTypes
      <4>2. Q[Limit + 1] = 0 /\ P[Limit + 1] = 1
        BY <2>1, <3>2, <4>1 DEF LeftAt, Stays
      <4>3. \A i \in 1..((Limit + 1) - 1) : Q[i] = P[i]
        BY <2>1, <3>2, <4>1 DEF LeftAt, Stays
      <4>4. Q[Limit + 1] < P[Limit + 1]
        BY <4>2
      <4> DEFINE last == Limit + 1
      <4>5. last \in 1..(Limit + 1)
        BY <4>1
      <4>6. Q[last] < P[last]
        BY <4>4, Zenon
      <4>7. \A i \in 1..(last - 1) : Q[i] = P[i]
        BY <4>3, Zenon
      <4> HIDE DEF last, P, Q
      <4> QED BY <4>5, <4>6, <4>7, Zenon
    <3> QED BY <1>1, <3>1, <3>2, NextForward DEF Forward
  <2>5. PICK j \in 1..(Limit + 1) : Q[j] < P[j] /\ \A i \in 1..(j - 1) : Q[i] = P[i]
    BY <2>4
  <2> HIDE DEF P, Q
  <2>6. <<Q[j], P[j]>> \in OpToRel(<, Nat)
    <3>1. Q[j] \in Nat /\ P[j] \in Nat
      BY <2>3, <2>5 DEF Ranks
    <3>2. <<Q[j], P[j]>> \in {ss \in Nat \X Nat : ss[1] < ss[2]}
      BY <2>5, <3>1
    <3> QED BY <3>2 DEF OpToRel
  <2>7. <<Q, P>> \in Less
    <3> DEFINE ff == <<Q, P>>
    <3>1. ff \in Ranks \X Ranks /\ ff[1] = Q /\ ff[2] = P
      BY <2>3
    <3> HIDE DEF ff
    <3>2. \A i \in 1..(j - 1) : ff[1][i] = ff[2][i]
      BY <2>5, <3>1
    <3>3. <<ff[1][j], ff[2][j]>> \in OpToRel(<, Nat)
      BY <2>6, <3>1
    <3>4. ff \in LexProductOrdering(OpToRel(<, Nat), Nat, Limit + 1)
      BY <2>5, <3>1, <3>2, <3>3, Zenon DEF LexProductOrdering, Ranks
    <3> QED BY <3>4 DEF ff, Less
  <2> QED BY <2>3, <2>7 DEF P, Q
<1>2. ASSUME Inv, Inv', Definitions, Shallow, Len(stack) <= Limit, [Next]_vars
      PROVE  [Descends]_vars
  BY <1>1, <1>2
<1>3. Spec => [][Descends]_vars
  BY <1>2, ShallowInvariance, StackIsBounded, PTL DEF Spec
<1> QED BY <1>3, RanksWellFounded
=============================================================================
