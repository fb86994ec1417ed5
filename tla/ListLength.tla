----------------------------- MODULE ListLength -----------------------------
(***************************************************************************)
(* proper_list_length of primitives.c, the test that every primitive and   *)
(* invoke put their operands through: two pointers walk down the list, the *)
(* runner twice as fast, until the runner finds the end, meets the slow    *)
(* one or has passed target_length cells.                                  *)
(*                                                                         *)
(* The heap is a function: cdr[c] is the CDR of the pair c, which is a     *)
(* pair again, nil_cell, some other atom, or NULL.  A behaviour is one     *)
(* call, on any heap, any argument and any target_length.                  *)
(***************************************************************************)
EXTENDS Integers, FiniteSets

CONSTANTS
  Pairs,       \* the cons cells of the heap
  MaxTarget    \* bound: the largest target_length (the callers use 0 to 3)

ASSUME ListLengthAssumption ==
  /\ IsFiniteSet(Pairs) /\ Pairs \cap {"nil", "atom", "NULL"} = {}
  /\ MaxTarget \in Nat

Cells == Pairs \cup {"nil", "atom", "NULL"}

VARIABLES
  cdr,       \* the heap, which the function does not write
  arg,       \* its argument
  target,    \* target_length
  lst, runner, length,   \* its locals
  pc,        \* "entry", "loop" or "done"
  result     \* what it returned, once pc is "done"

vars == <<cdr, arg, target, lst, runner, length, pc, result>>

PAIRP(c) == c \in Pairs

return(r) ==
  /\ pc' = "done"
  /\ result' = r
  /\ UNCHANGED <<cdr, arg, target, lst, runner, length>>

(* (A name with a suffix is a mistaken variant of the definition after it.)*)
(* The tests before the loop, in their order.                              *)
Entry ==
  /\ pc = "entry"
  /\ \/ target < 0 /\ return(-6)
     \/ target >= 0 /\ lst = "NULL" /\ return(-1)
     \/ target >= 0 /\ lst = "nil" /\ return(0)
     \/ target >= 0 /\ lst = "atom" /\ return(-3)
     \/ target >= 0 /\ PAIRP(lst) /\ cdr[lst] = "nil" /\ return(length)
     \/ /\ target >= 0 /\ PAIRP(lst) /\ cdr[lst] # "nil"
        /\ runner' = cdr[lst]
        /\ pc' = "loop"
        /\ UNCHANGED <<cdr, arg, target, lst, length, result>>

InLoop_Short == lst # "NULL" /\ runner # "NULL" /\ (target = 0 \/ length < target)
InLoop == lst # "NULL" /\ runner # "NULL" /\ (target = 0 \/ length <= target)

(* Both pointers step, and the runner once more if it can.                 *)
Advance_Together ==
  /\ runner' = cdr[runner] /\ length' = length + 1
  /\ lst' = cdr[lst]
  /\ UNCHANGED <<cdr, arg, target, pc, result>>

Advance_CountsOne ==
  /\ runner' = IF PAIRP(cdr[runner]) THEN cdr[cdr[runner]] ELSE cdr[runner]
  /\ length' = length + 1
  /\ lst' = cdr[lst]
  /\ UNCHANGED <<cdr, arg, target, pc, result>>

Advance_OnlyByTwo ==
  /\ PAIRP(cdr[runner])
  /\ runner' = cdr[cdr[runner]] /\ length' = length + 2
  /\ lst' = cdr[lst]
  /\ UNCHANGED <<cdr, arg, target, pc, result>>

Advance ==
  /\ IF PAIRP(cdr[runner])
     THEN runner' = cdr[cdr[runner]] /\ length' = length + 2
     ELSE runner' = cdr[runner] /\ length' = length + 1
  /\ lst' = cdr[lst]
  /\ UNCHANGED <<cdr, arg, target, pc, result>>

Loop ==
  /\ pc = "loop"
  /\ \/ InLoop /\ runner = lst /\ return(-2)
     \/ InLoop /\ runner # lst /\ PAIRP(runner) /\ Advance
     \/ InLoop /\ runner # lst /\ runner = "nil" /\ return(length)
     \/ InLoop /\ runner # lst /\ runner = "atom" /\ return(-4)
     \/ ~InLoop /\ target > 0 /\ length > target /\ return(0)
     \/ ~InLoop /\ ~(target > 0 /\ length > target) /\ return(-5)

Init ==
  /\ cdr \in [Pairs -> Cells]
  /\ arg \in Cells
  /\ target \in -1..MaxTarget
  /\ lst = arg /\ runner = arg /\ length = 1
  /\ pc = "entry" /\ result = 0

Next == Entry \/ Loop

Spec == Init /\ [][Next]_vars /\ WF_vars(Next)

-----------------------------------------------------------------------------
(* The argument after n CDRs, as far as there are pairs.                   *)
Tail ==
  LET T[n \in 0..Cardinality(Pairs)] ==
        IF n = 0 THEN arg ELSE IF PAIRP(T[n - 1]) THEN cdr[T[n - 1]] ELSE T[n - 1]
  IN  T

Cyclic == PAIRP(Tail[Cardinality(Pairs)])

(* The number of pairs before the end of a list that is not cyclic.        *)
NrPairs == Cardinality({n \in 0..Cardinality(Pairs) : PAIRP(Tail[n])})

End == Tail[NrPairs]

ProperList(n) == ~Cyclic /\ End = "nil" /\ NrPairs = n

TypeOK ==
  /\ cdr \in [Pairs -> Cells] /\ arg \in Cells
  /\ target \in -1..MaxTarget
  /\ lst \in Cells /\ runner \in Cells
  /\ length \in 1..(2 * Cardinality(Pairs) + 3)
  /\ pc \in {"entry", "loop", "done"}
  /\ result \in -6..(2 * Cardinality(Pairs) + 3)

(* Called without a target it tells the length of a proper list and every  *)
(* kind of improper one apart, as the table above it says.                 *)
LengthIsRight ==
  pc = "done" /\ target = 0 =>
    result = IF arg = "NULL" THEN -1
             ELSE IF arg = "atom" THEN -3
             ELSE IF Cyclic THEN -2
             ELSE IF End = "atom" THEN -4
             ELSE IF End = "NULL" THEN -5
             ELSE NrPairs

(* What the arity tests of the primitives rely on: asked for n operands it *)
(* answers n exactly if it was given a proper list of n.                   *)
ArityTestIsRight ==
  pc = "done" /\ target > 0 => (result = target <=> ProperList(target))

(* It returns on every heap, the cyclic ones included.                     *)
Returns == <>(pc = "done")
=============================================================================
