------------------------------- MODULE Handles -------------------------------
(***************************************************************************)
(* The handle stack of handles.c: the array of protected cells that a      *)
(* C function of the interpreter pushes a cell on before it calls          *)
(* something that may allocate, and pops when it has taken the cell back.  *)
(*                                                                         *)
(* The three statics of the file are one record, H:                        *)
(*   H.top   the index of the topmost handle, 0 when it equals `bottom';   *)
(*   H.slot  the content of every slot that a push can reach;              *)
(*   H.st    "ok", or how the process ended inside one of the functions:   *)
(*           "full" for the exit of handle_push, "assert" for the failed   *)
(*           assertion of handle_pop.                                      *)
(* A function applied to a stack that is not "ok" leaves it as it is.      *)
(*                                                                         *)
(* A content is an integer: NULL, UNINIT, or a positive number standing    *)
(* for a cell (the evaluator uses the position of the C frame on whose     *)
(* behalf the cell is protected).                                          *)
(***************************************************************************)
EXTENDS Integers, Sequences

CONSTANT HandleFrameSize   \* handle_frame_size: how many handles fit the block

ASSUME HandleFrameSizeAssumption == HandleFrameSize \in Nat \ {0}

NULL   == 0
UNINIT == -1    \* what malloc left in a slot that nobody has written yet

HandleStacks ==
  [top : 0..HandleFrameSize, slot : [0..HandleFrameSize -> Int],
   st  : {"ok", "full", "assert"}]

(* The fresh stack: a push increments before it writes, so slot 0, which   *)
(* `bottom' points to, is never written by any function of the file.       *)
init_handles ==
  [top |-> 0, slot |-> [i \in 0..HandleFrameSize |-> UNINIT], st |-> "ok"]

handle_push(H, content) ==
  IF H.st # "ok" THEN H
  ELSE IF H.top + 1 > HandleFrameSize
  THEN [H EXCEPT !.st = "full"]
  ELSE [top  |-> H.top + 1,
        slot |-> [H.slot EXCEPT ![H.top + 1] = content],
        st   |-> "ok"]

handle_pop(H, handle) ==
  IF H.st # "ok" THEN H
  ELSE IF handle # H.top
  THEN [H EXCEPT !.st = "assert"]
  ELSE [top  |-> H.top - 1,
        slot |-> [H.slot EXCEPT ![handle] = NULL],
        st   |-> "ok"]

handle_get(H, handle) == H.slot[handle]

handle_set(H, handle, value) ==
  IF H.st # "ok" THEN H ELSE [H EXCEPT !.slot[handle] = value]

get_mark(H) == H.top

pop_to_mark(H, mark) ==
  IF H.st # "ok" THEN H
  ELSE [top  |-> IF H.top > mark THEN mark ELSE H.top,
        slot |-> [i \in 0..HandleFrameSize |->
                    IF mark < i /\ i <= H.top THEN NULL ELSE H.slot[i]],
        st   |-> "ok"]

(* n pushes in a row of the same content, and the pops of all the handles  *)
(* in the sequence handles, first to last, in closed form.  (They are      *)
(* iterations of handle_push and of handle_pop: EvaluatorProofs.)          *)
push_n(H, content, n) ==
  IF H.st # "ok" THEN H
  ELSE IF H.top + n > HandleFrameSize
  THEN [H EXCEPT !.st = "full"]
  ELSE [top  |-> H.top + n,
        slot |-> [i \in 0..HandleFrameSize |->
                    IF H.top < i /\ i <= H.top + n THEN content ELSE H.slot[i]],
        st   |-> "ok"]

pop_all(H, handles) ==
  IF H.st # "ok" THEN H
  ELSE IF \E k \in 1..Len(handles) : handles[k] # H.top + 1 - k
  THEN [H EXCEPT !.st = "assert"]
  ELSE [top  |-> H.top - Len(handles),
        slot |-> [i \in 0..HandleFrameSize |->
                    IF H.top - Len(handles) < i /\ i <= H.top
                    THEN NULL ELSE H.slot[i]],
        st   |-> "ok"]

=============================================================================
