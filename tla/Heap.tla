-------------------------------- MODULE Heap --------------------------------
(***************************************************************************)
(* The managed heap of memory.c: a bump allocator for three kinds of       *)
(* object (cell_t, function_t, and the byte vectors of u8_new), whose      *)
(* collector is not written yet, and scan_heap, which must find every      *)
(* object again from nothing but what the objects say of themselves.       *)
(*                                                                         *)
(* Addresses are offsets in bytes from mem_sys_heap1; a word is as long as *)
(* a pointer and a cell_t two words.  scan_heap is not called by the       *)
(* program yet; here it may run between any two allocations.               *)
(***************************************************************************)
EXTENDS Integers, FiniteSets

CONSTANTS
  Word,       \* the size of a pointer
  HeapSize,   \* mem_sys_heap1_size: two pages
  Sizes       \* bound: the lengths asked for of byte vectors

IsMultiple(a) == \E n \in 0..a : a = n * Word    \* a lies on a word

ASSUME HeapAssumption ==
  /\ Word \in Nat \ {0}
  /\ HeapSize \in Nat \ {0} /\ IsMultiple(HeapSize)
  /\ Sizes \subseteq Nat \ {0}

CellSize == 2 * Word

(* Round up to a multiple of the word, for bytes > 0.  (Here and below a   *)
(* name with a suffix is a mistaken variant of the definition after it.)   *)
align_Down(bytes) == (bytes \div Word) * Word
align_Not(bytes)  == bytes
align(bytes)      == (((bytes - 1) \div Word) + 1) * Word

VARIABLES
  cur,      \* the first free byte
  no_gc,    \* the flag of set_no_gc and set_gc
  pc,       \* "idle", "alloc" (in mem_sys_safe_alloc), "scan" or "exited"
  want,     \* the request: [kind, bytes, asked], as the caller rounded it
  objects,  \* history: every object handed out, with its u8_data_size
  base      \* of scan_heap

vars == <<cur, no_gc, pc, want, objects, base>>

Kinds   == {"cell", "function", "u8"}
Nothing == [kind |-> "none", bytes |-> 0, asked |-> 0]

(* new(cell_t), new(function_t) and u8_new(n).                             *)
request(w) ==
  /\ pc = "idle"
  /\ pc' = "alloc"
  /\ want' = w
  /\ UNCHANGED <<cur, no_gc, objects, base>>

new_cell     == request([kind |-> "cell", bytes |-> CellSize, asked |-> 0])
new_function == request([kind |-> "function", bytes |-> 2 * CellSize, asked |-> 0])

WithHeader_None(n) == align(n)
WithHeader(n)      == align(n + 2 * Word)

u8_new(n) == request([kind |-> "u8", bytes |-> WithHeader(n), asked |-> n])

(* u8_new(0) exits before it allocates.                                    *)
u8_new_zero ==
  /\ pc = "idle"
  /\ pc' = "exited"
  /\ UNCHANGED <<cur, no_gc, want, objects, base>>

(* mem_sys_safe_alloc.  The macro gc() is empty: the second attempt, with  *)
(* no_gc set, sees the heap of the first and exits.                        *)
Fits_OffByOneWord == cur + align(want.bytes) <= HeapSize + Word
Fits              == cur + align(want.bytes) <= HeapSize

alloc ==
  /\ pc = "alloc" /\ Fits
  /\ cur' = cur + align(want.bytes)
  /\ objects' = objects \cup
       {[at |-> cur, kind |-> want.kind, size |-> align(want.bytes),
         len |-> IF want.kind = "u8" THEN want.bytes - CellSize ELSE 0,
         asked |-> want.asked]}
  /\ no_gc' = 0
  /\ pc' = "idle" /\ want' = Nothing
  /\ UNCHANGED base

alloc_retry_Unguarded ==     \* forgets set_no_gc
  /\ pc = "alloc" /\ ~Fits /\ no_gc = 0
  /\ want' = [want EXCEPT !.bytes = align(want.bytes)]
  /\ UNCHANGED <<cur, no_gc, pc, objects, base>>

alloc_retry ==
  /\ pc = "alloc" /\ ~Fits /\ no_gc = 0
  /\ no_gc' = 1
  /\ want' = [want EXCEPT !.bytes = align(want.bytes)]
  /\ UNCHANGED <<cur, pc, objects, base>>

alloc_exit ==
  /\ pc = "alloc" /\ ~Fits /\ no_gc = 1
  /\ pc' = "exited"
  /\ UNCHANGED <<cur, no_gc, want, objects, base>>

(***************************************************************************)
(* scan_heap.  Only the header of a byte vector has the tag U8VEC: the     *)
(* first word of any other object is another tag or a pointer, and memory  *)
(* that was never handed out is zero.  (Within the data of a byte vector   *)
(* anything could be found: ScanOnHeaders says that the scan never looks   *)
(* there.)                                                                 *)
(***************************************************************************)
U8VECP(o) == o.kind = "u8" /\ o.at = base

scan_start ==
  /\ pc = "idle"
  /\ pc' = "scan" /\ base' = 0
  /\ UNCHANGED <<cur, no_gc, want, objects>>

SizeOfVector_NoHeader(o)    == o.len
SizeOfVector_TwoHeaders(o)  == 2 * CellSize + o.len
SizeOfVector_Nothing(o)     == 0
SizeOfVector(o)             == CellSize + o.len

scan_step ==
  /\ pc = "scan" /\ base < HeapSize
  /\ \/ \E o \in objects : U8VECP(o) /\ base' = base + SizeOfVector(o)
     \/ (\A o \in objects : ~U8VECP(o)) /\ base' = base + CellSize
  /\ UNCHANGED <<cur, no_gc, pc, want, objects>>

scan_end ==
  /\ pc = "scan" /\ base >= HeapSize
  /\ pc' = "idle" /\ base' = 0
  /\ UNCHANGED <<cur, no_gc, want, objects>>

Init ==
  /\ cur = 0 /\ no_gc = 0
  /\ pc = "idle" /\ want = Nothing
  /\ objects = {} /\ base = 0

Work == alloc \/ alloc_retry \/ alloc_exit \/ scan_step \/ scan_end

Next == \/ new_cell \/ new_function \/ u8_new_zero
        \/ \E n \in Sizes : u8_new(n)
        \/ scan_start \/ Work

(* What has been called runs on.                                           *)
Spec == Init /\ [][Next]_vars /\ WF_vars(Work)

-----------------------------------------------------------------------------
ObjectType ==
  [at : Nat, kind : Kinds, size : Nat \ {0}, len : Nat, asked : Nat]

(* The types; cur stays in the heap and on a word, whatever is asked for.   *)
TypeOK ==
  /\ cur \in 0..HeapSize /\ IsMultiple(cur) /\ base \in Nat
  /\ no_gc \in {0, 1}
  /\ pc \in {"idle", "alloc", "scan", "exited"}
  /\ want \in [kind : Kinds, bytes : Nat \ {0}, asked : Nat] \cup {Nothing}
  /\ objects \subseteq ObjectType

(* Every object lies in the heap, below cur and on a word, and shares no   *)
(* byte with another one.                                                  *)
ObjectsDisjoint ==
  /\ cur <= HeapSize
  /\ \A o \in objects :
       /\ IsMultiple(o.at)
       /\ o.at + o.size <= cur
       /\ \A p \in objects : o # p => o.at + o.size <= p.at \/ p.at + p.size <= o.at

(* A byte vector has room for the bytes that were asked for, and what its  *)
(* header says of its length ends exactly where the object ends: the       *)
(* reader copies that many bytes into it, and scan_heap steps over it by   *)
(* the header alone.                                                       *)
BytesFit ==
  \A o \in objects :
    o.kind = "u8" => o.asked <= o.len /\ CellSize + o.len = o.size

(* scan_heap looks for a header only where there is one, or (the second    *)
(* half of a function_t) where no vector's data is, and steps over no      *)
(* object, although the objects need not be a multiple of a cell long.     *)
(* The word that it reads at base is in the heap, also when the free part  *)
(* of it is not a whole number of cells.                                   *)
ScanOnHeaders ==
  pc = "scan" =>
    /\ \A o \in objects :
         \/ base <= o.at
         \/ o.at + o.size <= base
         \/ o.kind = "function" /\ base = o.at + CellSize
    /\ base < HeapSize => base + Word <= HeapSize

ScanSkipsNothing ==
  [][pc = "scan" /\ pc' = "scan" =>
       \A o \in objects : ~(base < o.at /\ o.at < base')]_vars

(* A request is answered with an object or ends the process, for the       *)
(* second attempt is the last one; and scan_heap comes to the end of the   *)
(* heap.                                                                   *)
CallsReturn == pc \in {"alloc", "scan"} ~> pc \in {"idle", "exited"}
=============================================================================
