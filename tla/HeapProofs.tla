----------------------------- MODULE HeapProofs -----------------------------
(***************************************************************************)
(* The managed heap is sound for every word size, every size of the heap   *)
(* and every length of byte vector: objects are aligned, disjoint and in   *)
(* the heap, byte vectors have room for their bytes, and scan_heap stays   *)
(* on headers and in the heap and steps over no object.                    *)
(***************************************************************************)
EXTENDS Heap, TLAPS

(***************************************************************************)
(* Arithmetic of words.                                                    *)
(***************************************************************************)
LEMMA WordIsPositive == Word \in Nat \ {0} /\ CellSize \in Nat \ {0} /\ CellSize = 2 * Word
BY HeapAssumption DEF CellSize

(* Rounding up gives a whole number of words, at least one, and at least   *)
(* what was asked for; it leaves whole numbers of words alone.             *)
LEMMA AlignProperties ==
  ASSUME NEW b \in Nat \ {0}
  PROVE  /\ align(b) \in Nat \ {0}
         /\ b <= align(b)
         /\ \E n \in Nat \ {0} : align(b) = n * Word
         /\ (\E n \in Nat : b = n * Word) => align(b) = b
<1> DEFINE q == (b - 1) \div Word
           r == (b - 1) % Word
<1>1. q \in Nat /\ r \in 0..(Word - 1) /\ b - 1 = q * Word + r
  BY WordIsPositive, SMT
<1>2. (q + 1) * Word = q * Word + Word
  BY <1>1, WordIsPositive, SMT
<1>3. align(b) = (q + 1) * Word
  BY DEF align
<1>4. align(b) \in Nat /\ b <= align(b)
  <2>1. q * Word \in Nat
    BY <1>1, WordIsPositive, SMT
  <2> HIDE DEF q, r
  <2> QED BY <2>1, <1>1, <1>2, <1>3, WordIsPositive, SMT
<1>5. ASSUME NEW n \in Nat, b = n * Word
      PROVE  align(b) = b
  <2>1. (n * Word - 1) \div Word = n - 1
    BY <1>5, WordIsPositive, SMT
  <2>2. ((n - 1) + 1) * Word = n * Word
    BY WordIsPositive, SMT
  <2> QED BY <1>5, <2>1, <2>2 DEF align
<1>6. q + 1 \in Nat \ {0}
  BY <1>1
<1> HIDE DEF q, r
<1> QED BY <1>3, <1>4, <1>5, <1>6

LEMMA MultipleIntro ==
  ASSUME NEW n \in Nat
  PROVE  n * Word \in Nat /\ IsMultiple(n * Word)
<1>1. n * Word \in Nat /\ n <= n * Word
  BY WordIsPositive, SMT
<1> QED BY <1>1 DEF IsMultiple

LEMMA MultipleSum ==
  ASSUME NEW a \in Nat, IsMultiple(a), NEW n \in Nat
  PROVE  IsMultiple(a + n * Word)
<1>1. PICK m \in 0..a : a = m * Word
  BY DEF IsMultiple
<1>2. a + n * Word = (m + n) * Word
  BY <1>1, WordIsPositive, SMT
<1> QED BY <1>1, <1>2, MultipleIntro

LEMMA MultipleRoom ==
  ASSUME NEW a \in Nat, NEW b \in Nat, IsMultiple(a), IsMultiple(b), a < b
  PROVE  a + Word <= b
<1>1. PICK m \in 0..a : a = m * Word
  BY DEF IsMultiple
<1>2. PICK n \in 0..b : b = n * Word
  BY DEF IsMultiple
<1> QED BY <1>1, <1>2, WordIsPositive, SMT

(***************************************************************************)
(* The inductive invariant.                                                *)
(***************************************************************************)
(* The size of a request is that of its kind, in whole words.              *)
Request(w) ==
  /\ w \in [kind : Kinds, bytes : Nat \ {0}, asked : Nat]
  /\ \E n \in Nat : w.bytes = n * Word
  /\ w.kind = "cell" => w.bytes = CellSize
  /\ w.kind = "function" => w.bytes = 2 * CellSize
  /\ w.kind = "u8" => w.asked + CellSize <= w.bytes

SizesOfKinds ==
  \A o \in objects :
    /\ o.kind = "cell" => o.size = CellSize
    /\ o.kind = "function" => o.size = 2 * CellSize

(* The objects leave no gap below cur: this is what lets the scan find the *)
(* next one, and what ObjectsDisjoint does not say.                        *)
NoGaps ==
  /\ cur = 0 \/ \E o \in objects : o.at = 0
  /\ \A o \in objects : o.at + o.size = cur \/ \E p \in objects : p.at = o.at + o.size

(* The scan is at an object, in the middle of a function_t, or above cur.  *)
Boundary(a) ==
  \/ cur <= a
  \/ \E o \in objects : a = o.at \/ (o.kind = "function" /\ a = o.at + CellSize)

IInv ==
  /\ TypeOK
  /\ ObjectsDisjoint
  /\ BytesFit
  /\ SizesOfKinds
  /\ NoGaps
  /\ pc = "alloc" => Request(want)
  /\ pc = "scan" => IsMultiple(base) /\ Boundary(base)

(***************************************************************************)
(* Initially, and after every step.                                        *)
(***************************************************************************)
LEMMA InitIInv == Init => IInv
<1>1. IsMultiple(0)
  BY WordIsPositive DEF IsMultiple
<1> QED
  BY <1>1, HeapAssumption
  DEF Init, IInv, TypeOK, Nothing, ObjectsDisjoint, BytesFit, SizesOfKinds, NoGaps, Kinds

(* The request of each caller is well formed.                              *)
LEMMA RequestCell == Request([kind |-> "cell", bytes |-> CellSize, asked |-> 0])
BY WordIsPositive DEF Request, Kinds

LEMMA RequestFunction ==
  Request([kind |-> "function", bytes |-> 2 * CellSize, asked |-> 0])
<1>1. 2 * CellSize = 4 * Word
  BY WordIsPositive
<1> QED BY <1>1, WordIsPositive DEF Request, Kinds

LEMMA RequestU8 ==
  ASSUME NEW n \in Sizes
  PROVE  Request([kind |-> "u8", bytes |-> WithHeader(n), asked |-> n])
<1>1. n \in Nat \ {0} /\ n + 2 * Word \in Nat \ {0}
  BY HeapAssumption, WordIsPositive
<1> QED BY <1>1, AlignProperties, WordIsPositive DEF Request, Kinds, WithHeader

LEMMA RequestStep ==
  ASSUME IInv, NEW w, Request(w), request(w)
  PROVE  IInv'
<1>1. want' \in [kind : Kinds, bytes : Nat \ {0}, asked : Nat]
  BY DEF request, Request
<1> QED
  BY <1>1 DEF request, IInv, TypeOK, ObjectsDisjoint, BytesFit, SizesOfKinds, NoGaps, Request

(* An allocation puts the new object at cur, above all the others.         *)
LEMMA AllocStep ==
  ASSUME IInv, alloc
  PROVE  IInv'
<1> DEFINE new == [at |-> cur, kind |-> want.kind, size |-> align(want.bytes),
                   len |-> IF want.kind = "u8" THEN want.bytes - CellSize ELSE 0,
                   asked |-> want.asked]
<1>1. Request(want)
  BY DEF IInv, alloc
<1>2. align(want.bytes) = want.bytes /\ want.bytes \in Nat \ {0}
  BY <1>1, AlignProperties DEF Request
<1>3. objects' = objects \cup {new} /\ cur' = cur + want.bytes /\ cur' <= HeapSize
  BY <1>2 DEF alloc, Fits
<1>4. cur \in Nat /\ cur' \in Nat
  BY <1>2, <1>3 DEF IInv, TypeOK
<1>5. new \in ObjectType /\ new.size = want.bytes /\ new.at = cur
  BY <1>1, <1>2, <1>4, WordIsPositive DEF Request, ObjectType, Kinds
<1>6. IsMultiple(cur')
  BY <1>1, <1>3, <1>4, MultipleSum DEF IInv, TypeOK, Request
<1>7. TypeOK'
  BY <1>3, <1>4, <1>5, <1>6, HeapAssumption DEF IInv, TypeOK, alloc
<1>8. ObjectsDisjoint'
  <2>1. \A o \in objects : o.at \in Nat /\ o.size \in Nat /\ o.at + o.size <= cur /\ IsMultiple(o.at)
    BY DEF IInv, TypeOK, ObjectType, ObjectsDisjoint
  <2>2. \A o, p \in objects : o # p => o.at + o.size <= p.at \/ p.at + p.size <= o.at
    BY DEF IInv, ObjectsDisjoint
  <2>3. IsMultiple(new.at)
    BY <1>5 DEF IInv, TypeOK
  <2> HIDE DEF new
  <2> QED BY <1>2, <1>3, <1>4, <1>5, <2>1, <2>2, <2>3 DEF ObjectsDisjoint, IsMultiple
<1>9. BytesFit'
  BY <1>1, <1>2, <1>3, WordIsPositive DEF IInv, BytesFit, Request
<1>10. SizesOfKinds'
  BY <1>1, <1>2, <1>3 DEF IInv, SizesOfKinds, Request
<1>11. NoGaps'
  <2>1. (cur = 0 \/ \E o \in objects : o.at = 0)
        /\ \A o \in objects : o.at + o.size = cur \/ \E p \in objects : p.at = o.at + o.size
    BY DEF IInv, NoGaps
  <2> HIDE DEF new
  <2> QED BY <1>3, <1>4, <1>5, <2>1 DEF NoGaps
<1> QED BY <1>6, <1>7, <1>8, <1>9, <1>10, <1>11 DEF IInv, alloc

(* From a boundary below cur, one step of the scan leads to the next one,  *)
(* and there is no object in between.                                      *)
LEMMA NextBoundary ==
  ASSUME IInv, pc = "scan", scan_step
  PROVE  /\ base' \in Nat /\ IsMultiple(base') /\ Boundary(base')
         /\ \A o \in objects : ~(base < o.at /\ o.at < base')
<1>0. /\ cur \in Nat /\ base \in Nat /\ IsMultiple(base) /\ Boundary(base)
      /\ \A o \in objects : /\ o.at \in Nat /\ o.size \in Nat \ {0} /\ o.len \in Nat
                            /\ IsMultiple(o.at) /\ o.at + o.size <= cur
                            /\ o.kind \in Kinds
  BY DEF IInv, TypeOK, ObjectType, ObjectsDisjoint
<1>1. \A o, p \in objects : o # p => o.at + o.size <= p.at \/ p.at + p.size <= o.at
  BY DEF IInv, ObjectsDisjoint
<1>2. \A o \in objects : /\ o.kind = "u8" => CellSize + o.len = o.size
                         /\ o.kind = "cell" => o.size = CellSize
                         /\ o.kind = "function" => o.size = 2 * CellSize
  BY DEF IInv, BytesFit, SizesOfKinds
<1>3. \A o \in objects : o.at + o.size = cur \/ \E p \in objects : p.at = o.at + o.size
  BY DEF IInv, NoGaps
<1>4. CASE cur <= base
  <2>1. \A o \in objects : ~U8VECP(o)
    BY <1>0, <1>4 DEF U8VECP
  <2>2. base' = base + 2 * Word
    BY <2>1, WordIsPositive DEF scan_step
  <2>3. IsMultiple(base')
    BY <2>2, <1>0, MultipleSum
  <2> QED BY <1>0, <1>4, <2>2, <2>3, WordIsPositive DEF Boundary
<1>5. CASE base < cur
  <2>1. PICK o \in objects : base = o.at \/ (o.kind = "function" /\ base = o.at + CellSize)
    BY <1>0, <1>5 DEF Boundary
  (* After the last cell of an object comes the next object, or cur.       *)
  <2>2. ASSUME base' = o.at + o.size, o.at <= base
        PROVE  /\ base' \in Nat /\ IsMultiple(base') /\ Boundary(base')
               /\ \A p \in objects : ~(base < p.at /\ p.at < base')
    <3>1. base' = cur \/ \E p \in objects : p.at = base'
      BY <1>3, <2>2
    <3>2. IsMultiple(base')
      BY <3>1, <1>0 DEF IInv, TypeOK
    <3>3. Boundary(base')
      BY <3>1, <1>0 DEF Boundary
    <3>4. \A p \in objects : ~(base < p.at /\ p.at < base')
      BY <1>0, <1>1, <2>2
    <3> QED BY <2>2, <3>2, <3>3, <3>4, <1>0
  <2>3. CASE o.kind = "u8"
    <3>1. base = o.at
      BY <2>1, <2>3
    <3>2. \A p \in objects : U8VECP(p) => p = o
      BY <3>1, <1>0, <1>1 DEF U8VECP
    <3>3. base' = base + SizeOfVector(o)
      BY <3>1, <3>2, <2>3 DEF scan_step, U8VECP
    <3> QED BY <3>1, <3>3, <2>2, <2>3, <1>0, <1>2, WordIsPositive DEF SizeOfVector
  <2>4. CASE o.kind # "u8"
    <3>1. \A p \in objects : ~U8VECP(p)
      <4> SUFFICES ASSUME NEW p \in objects, U8VECP(p) PROVE FALSE
        OBVIOUS
      <4>1. p.kind = "u8" /\ p.at = base
        BY DEF U8VECP
      <4>2. p # o
        BY <4>1, <2>4
      <4> QED BY <4>1, <4>2, <2>1, <1>0, <1>1, <1>2, WordIsPositive
    <3>2. base' = base + CellSize
      BY <3>1 DEF scan_step
    <3>3. CASE base = o.at /\ o.kind = "function"
      <4>1. IsMultiple(base')
        BY <3>2, <1>0, MultipleSum, WordIsPositive
      <4>2. \A p \in objects : ~(base < p.at /\ p.at < base')
        BY <3>2, <3>3, <1>0, <1>1, <1>2, WordIsPositive
      <4> QED BY <3>2, <3>3, <4>1, <4>2, <1>0, WordIsPositive DEF Boundary
    <3>4. CASE ~(base = o.at /\ o.kind = "function")
      <4>1. base' = o.at + o.size /\ o.at <= base
        BY <3>2, <3>4, <2>1, <2>4, <1>0, <1>2, WordIsPositive DEF Kinds
      <4> QED BY <4>1, <2>2
    <3> QED BY <3>3, <3>4
  <2> QED BY <2>3, <2>4
<1> QED BY <1>0, <1>4, <1>5

LEMMA StepIInv == IInv /\ [Next]_vars => IInv'
<1> SUFFICES ASSUME IInv, [Next]_vars PROVE IInv'
  OBVIOUS
<1> USE DEF IInv, TypeOK, ObjectsDisjoint, BytesFit, SizesOfKinds, NoGaps
<1>1. CASE new_cell
  BY <1>1, RequestCell, RequestStep DEF new_cell
<1>2. CASE new_function
  BY <1>2, RequestFunction, RequestStep DEF new_function
<1>3. ASSUME NEW n \in Sizes, u8_new(n) PROVE IInv'
  BY <1>3, RequestU8, RequestStep DEF u8_new
<1>4. CASE u8_new_zero
  BY <1>4 DEF u8_new_zero
<1>5. CASE scan_start
  <2>1. Boundary(0) /\ IsMultiple(0)
    BY WordIsPositive DEF Boundary, IsMultiple
  <2> QED BY <1>5, <2>1 DEF scan_start, Boundary
<1>6. CASE alloc
  BY <1>6, AllocStep
<1>7. CASE alloc_retry
  <2>1. Request(want) /\ align(want.bytes) = want.bytes
    BY <1>7, AlignProperties DEF alloc_retry, Request
  <2>2. want' = want
    BY <1>7, <2>1 DEF alloc_retry, Request
  <2> QED BY <1>7, <2>1, <2>2 DEF alloc_retry
<1>8. CASE alloc_exit
  BY <1>8 DEF alloc_exit
<1>9. CASE scan_step
  <2>1. pc = "scan" /\ UNCHANGED <<cur, no_gc, pc, want, objects>>
    BY <1>9 DEF scan_step
  <2>2. base' \in Nat /\ IsMultiple(base') /\ Boundary(base')
    BY <1>9, <2>1, NextBoundary
  <2> QED BY <2>1, <2>2 DEF Boundary
<1>10. CASE scan_end
  BY <1>10 DEF scan_end
<1>11. CASE UNCHANGED vars
  BY <1>11 DEF vars, Request, Boundary
<1> QED
  BY <1>1, <1>2, <1>3, <1>4, <1>5, <1>6, <1>7, <1>8, <1>9, <1>10, <1>11 DEF Next, Work

(* The invariant holds in every reachable state.                           *)
THEOREM Invariance == Spec => []IInv
BY InitIInv, StepIInv, PTL DEF Spec

-----------------------------------------------------------------------------
(* The types of the allocator's state: for every heap, word and sequence of *)
(* requests, cur stays in the heap and on a word.                           *)
THEOREM TypeCorrect == Spec => []TypeOK
<1>1. IInv => TypeOK
  BY DEF IInv
<1> QED BY <1>1, Invariance, PTL

(* mem_sys_safe_alloc never hands out the same byte twice, a byte outside  *)
(* the heap or an address that is not on a word.                           *)
THEOREM AllocationIsSound == Spec => []ObjectsDisjoint
<1>1. IInv => ObjectsDisjoint
  BY DEF IInv
<1> QED BY <1>1, Invariance, PTL

(* A byte vector has the bytes that were asked for, and its header tells   *)
(* where it ends, for every length asked for and every word.               *)
THEOREM VectorsFit == Spec => []BytesFit
<1>1. IInv => BytesFit
  BY DEF IInv
<1> QED BY <1>1, Invariance, PTL

(* scan_heap looks for headers only at headers and never outside the heap. *)
THEOREM ScanIsSound == Spec => []ScanOnHeaders
<1>1. ASSUME IInv, pc = "scan", NEW o \in objects
      PROVE  \/ base <= o.at \/ o.at + o.size <= base
             \/ o.kind = "function" /\ base = o.at + CellSize
  <2>1. /\ cur \in Nat /\ base \in Nat
        /\ \A p \in objects : /\ p.at \in Nat /\ p.size \in Nat \ {0}
                              /\ p.at + p.size <= cur
                              /\ p.kind = "function" => p.size = 2 * CellSize
        /\ \A p, q \in objects : p # q => p.at + p.size <= q.at \/ q.at + q.size <= p.at
    BY <1>1 DEF IInv, TypeOK, ObjectType, ObjectsDisjoint, SizesOfKinds
  <2>2. CASE cur <= base
    BY <2>1, <2>2
  <2>3. ASSUME NEW p \in objects, base = p.at \/ (p.kind = "function" /\ base = p.at + CellSize)
        PROVE  \/ base <= o.at \/ o.at + o.size <= base
               \/ o.kind = "function" /\ base = o.at + CellSize
    BY <2>1, <2>3, WordIsPositive
  <2> QED BY <1>1, <2>2, <2>3 DEF IInv, Boundary
<1>2. ASSUME IInv, pc = "scan", base < HeapSize PROVE base + Word <= HeapSize
  BY <1>2, MultipleRoom, HeapAssumption DEF IInv, TypeOK
<1>3. IInv => ScanOnHeaders
  BY <1>1, <1>2 DEF ScanOnHeaders
<1> QED BY <1>3, Invariance, PTL

(* scan_heap steps over no object.                                         *)
THEOREM ScanIsComplete == Spec => ScanSkipsNothing
<1>1. ASSUME IInv, [Next]_vars
      PROVE  [pc = "scan" /\ pc' = "scan" =>
                \A o \in objects : ~(base < o.at /\ o.at < base')]_vars
  <2> SUFFICES ASSUME Next, pc = "scan", pc' = "scan"
               PROVE  \A o \in objects : ~(base < o.at /\ o.at < base')
    BY <1>1
  <2>1. scan_step
    BY DEF Next, Work, new_cell, new_function, u8_new, u8_new_zero, request,
           scan_start, alloc, alloc_retry, alloc_exit, scan_end
  <2> QED BY <1>1, <2>1, NextBoundary
<1> QED BY <1>1, Invariance, PTL DEF Spec, ScanSkipsNothing

-----------------------------------------------------------------------------
(* What mem_sys_safe_alloc or scan_heap has left to do at most: the second *)
(* attempt is the last one, and the scan moves up by a byte at least.      *)
Left ==
  IF pc = "alloc" THEN 2 - no_gc
  ELSE IF pc = "scan" THEN IF base < HeapSize THEN HeapSize - base + 1 ELSE 1
  ELSE 0

LeftGetsLess == Left \in Nat /\ Left' \in Nat /\ Left' < Left

(* A request is answered, or ends the process, in two steps, and scan_heap *)
(* comes to the end of the heap in as many as the heap has bytes: with the *)
(* fairness of Spec this is why CallsReturn holds.                         *)
THEOREM CallsAreBounded == Spec => [][Work => LeftGetsLess]_vars
<1>1. ASSUME IInv, IInv', Work
      PROVE  LeftGetsLess
  <2>1. base \in Nat /\ base' \in Nat /\ no_gc \in {0, 1} /\ HeapSize \in Nat
    BY <1>1, HeapAssumption DEF IInv, TypeOK
  <2>2. Left' = IF pc' = "alloc" THEN 2 - no_gc'
                ELSE IF pc' = "scan" THEN IF base' < HeapSize THEN HeapSize - base' + 1 ELSE 1
                ELSE 0
    BY DEF Left
  <2>3. CASE alloc \/ alloc_retry \/ alloc_exit
    <3>1. /\ pc = "alloc"
          /\ \/ pc' = "idle" \/ pc' = "exited"
             \/ (pc' = "alloc" /\ no_gc = 0 /\ no_gc' = 1)
      BY <2>3 DEF alloc, alloc_retry, alloc_exit
    <3>2. Left = 2 - no_gc
      BY <3>1 DEF Left
    <3>3. Left' = 0 \/ (no_gc = 0 /\ Left' = 1)
      BY <2>2, <3>1
    <3> QED BY <2>1, <3>2, <3>3 DEF LeftGetsLess
  <2>4. CASE scan_step
    <3>1. pc = "scan" /\ pc' = "scan" /\ base < HeapSize /\ base' > base
      <4>1. /\ pc = "scan" /\ pc' = "scan" /\ base < HeapSize
            /\ \/ \E o \in objects : base' = base + SizeOfVector(o)
               \/ base' = base + CellSize
        BY <2>4 DEF scan_step
      <4>2. \A o \in objects : SizeOfVector(o) \in Nat \ {0}
        BY <1>1, WordIsPositive DEF IInv, TypeOK, ObjectType, SizeOfVector
      <4> QED BY <2>1, <4>1, <4>2, WordIsPositive
    <3>2. Left = HeapSize - base + 1
      BY <3>1 DEF Left
    <3>3. CASE base' < HeapSize
      <4>1. Left' = HeapSize - base' + 1
        BY <2>2, <3>1, <3>3
      <4>2. ASSUME NEW b \in Nat, NEW c \in Nat, NEW h \in Nat, b < c, c < h
            PROVE  /\ h - b + 1 \in Nat /\ h - c + 1 \in Nat
                   /\ h - c + 1 < h - b + 1
        BY <4>2
      <4> QED BY <2>1, <3>1, <3>2, <3>3, <4>1, <4>2 DEF LeftGetsLess
    <3>4. CASE ~(base' < HeapSize)
      <4>1. Left' = 1
        BY <2>2, <3>1, <3>4
      <4> QED BY <2>1, <3>1, <3>2, <4>1 DEF LeftGetsLess
    <3> QED BY <3>3, <3>4
  <2>5. CASE scan_end
    <3>1. pc = "scan" /\ pc' = "idle" /\ ~(base < HeapSize)
      BY <2>1, <2>5 DEF scan_end
    <3>2. Left = 1
      BY <3>1 DEF Left
    <3>3. Left' = 0
      BY <2>2, <3>1
    <3> QED BY <3>2, <3>3 DEF LeftGetsLess
  <2> QED BY <1>1, <2>3, <2>4, <2>5 DEF Work
<1> QED BY <1>1, Invariance, PTL DEF Spec
=============================================================================
