------------------------------ MODULE Evaluator ------------------------------
(***************************************************************************)
(* The control of the interpreter: the two drivers that read forms         *)
(* (load_lib_scm at boot, run_in_thread afterwards), evaluate, evargs,     *)
(* invoke and the primitives that evaluate calls, the handle stack they    *)
(* share, the evaluation level, the eval_stack list and the longjmp that   *)
(* abandons a form.                                                        *)
(*                                                                         *)
(* The C call stack is explicit: `stack' is a sequence of frames and a     *)
(* step runs the function of the topmost frame from one call of another    *)
(* modelled function to the next.  The program text and the heap are       *)
(* abstracted to what decides the control: a form is a nesting depth, an   *)
(* argument list is its length, a value is its class, and every choice     *)
(* that depends on the rest (is this symbol bound, is that operand a       *)
(* number) is nondeterministic.  The behaviours are those of every         *)
(* program whose forms and bodies respect the bounds.                      *)
(*                                                                         *)
(* A name with a suffix, as in Rest_Stuck, is a mistaken variant of the    *)
(* definition after it; nothing but the check of the properties uses it.   *)
(***************************************************************************)
EXTENDS Handles, FiniteSets

CONSTANTS
  Prims,      \* the primitives that a symbol of the program may be bound to
  MaxArgs,    \* MAX_LISP_ARGS of eval.c
  MaxItems,   \* bound: operands of a combination
  MaxBody,    \* bound: expressions of a function body
  FormNest,   \* bound: nesting depth of a form that is read
  BodyNest    \* bound: nesting depth of an expression in a function body

(* The primitives by the C function that implements them.  prim_setcar and *)
(* prim_setcdr have the same control, as have prim_plus and prim_mul.      *)
Setters     == {"set-car!", "set-cdr!"}
Adders      == {"+", "*"}
Dumpers     == {"dump_symtab", "dump_handles", "dump_roots"}
LibDefiners == {"definternal", "deflibrary"}
AllPrims    == Setters \cup Adders \cup Dumpers \cup LibDefiners \cup
               {"list", "cons", "length", "=", "-", "if", "lambda", "quote",
                "eq?", "define", "error"}

ASSUME ConstantsAssumption ==
  /\ Prims \subseteq AllPrims
  /\ MaxArgs \in Nat /\ MaxItems \in Nat /\ MaxBody \in Nat
  /\ FormNest \in Nat /\ BodyNest \in Nat

(* What a C function returns: NULL, or a cell of some class.  A primitive  *)
(* is its own class; "datum" is a symbol, a number or a string.  The names *)
(* of the two LibDefiners are bound in the environment `internal' only,    *)
(* where the library and the bodies of its functions are evaluated.        *)
Data      == {"C-NULL", "nil", "pair", "datum"}
Values    == Data \cup {"function"} \cup Prims
UserPrims == Prims \ LibDefiners
NoRet     == "none"

Ends == {"done", "exit", "crash", "assertion failed"}

VARIABLES
  stack,      \* the frames of the C functions that have not returned
  hs,         \* the handle stack, a record of module Handles
  ret,        \* the value in flight: just returned, or passed to invoke
  level,      \* __tl_eval_level
  evalStack,  \* eval_stack: the position of a frame of evaluate, 0 for NULL
  added,      \* history: the bindings this form has added to `toplevel'
  vm          \* "running", "printing" without end, or how the process ended

vars == <<stack, hs, ret, level, evalStack, added, vm>>

(***************************************************************************)
(* Frames.  pc names the function and, after the colon, the call it is     *)
(* suspended in; h holds its handle_t locals in the order of their pushes; *)
(* n is the number of operands, or of expressions of a body, still to      *)
(* evaluate (in run_in_thread, the local mark); nest bounds the nesting of *)
(* the text under it; next is the `next' of evaluate's eval_stack_t.       *)
(* base, a history field, is the top of the handle stack on entry.         *)
(***************************************************************************)
EvalPcs == {"evaluate", "evaluate:head", "evaluate:args", "evaluate:tail"}
BootPcs == {"load_lib_scm", "load_lib_scm:form"}
ReplPcs == {"run_in_thread", "run_in_thread:form"}

Pcs == EvalPcs \cup BootPcs \cup ReplPcs \cup Prims \cup
       {"evargs", "evargs:item", "invoke", "invoke:body",
        "list:first", "list:next", "set:first", "set:second",
        "cons:car", "cons:cdr", "length:list", "add:args", "minus:args",
        "equal:args", "if:pred", "if:branch", "eq?:one", "eq?:two",
        "define:value", "error:form"}

Top == stack[Len(stack)]

At(pc) == vm = "running" /\ Top.pc = pc

NewFrame(pc, n, nest, base) ==
  [pc |-> pc, h |-> <<>>, n |-> n, nest |-> nest, next |-> 0, base |-> base]

(***************************************************************************)
(* The topmost frame together with the handle stack, as it goes through a  *)
(* step: push and pop are the calls of handle_push and handle_pop.         *)
(* pop(x, <<2, 1>>) pops the second handle local, then the first.          *)
(***************************************************************************)
Cur == [f |-> Top, hs |-> hs]

push(x, n) ==
  [f  |-> [x.f EXCEPT !.h = x.f.h \o [k \in 1..n |-> x.hs.top + k]],
   hs |-> push_n(x.hs, Len(stack), n)]

pop(x, order) ==
  [f  |-> [x.f EXCEPT !.h = SubSeq(x.f.h, 1, Len(x.f.h) - Len(order))],
   hs |-> pop_all(x.hs, [k \in 1..Len(order) |-> x.f.h[order[k]]])]

(* The process ends; nothing of it is left but the reason.                 *)
Halt(reason) ==
  /\ vm' = reason
  /\ stack' = <<>>
  /\ ret' = NoRet
  /\ UNCHANGED <<hs, level, evalStack, added>>

(* The step goes on with the handle stack H, unless one of the handle      *)
(* functions it called has ended the process.                              *)
Survives(H) == H.st = "ok" /\ hs' = H /\ vm' = vm
Dies(H) ==
  \/ H.st = "full"   /\ Halt("exit")
  \/ H.st = "assert" /\ Halt("assertion failed")

(* The loop of pp_list goes round in a list that is tied into a circle.    *)
(* The process does not end and takes none of the model's steps any more.  *)
PrintsForever ==
  /\ vm' = "printing"
  /\ UNCHANGED <<stack, hs, ret, level, evalStack, added>>

(* pp and pp_list on a list that the program may have tied into a circle,  *)
(* through its CDRs or (a recursion that overflows the C stack) its CARs,  *)
(* or on one with a NULL in place of a tail.                               *)
PrintingFails == (Setters \cap Prims # {} /\ PrintsForever) \/ Halt("crash")

(* args = CDR(args), code = CDR(code): what is left after the next one.    *)
Rest_Stuck == Top.n
Rest == Top.n - 1

Callers == SubSeq(stack, 1, Len(stack) - 1)

(* Suspend the topmost frame in a call of evaluate (its prologue included) *)
(* or of another C function.                                               *)
Suspended(x, pc, n) == Append(Callers, [x.f EXCEPT !.pc = pc, !.n = n])

CallEvaluate_Unlinked(x, pc, n, nest) ==    \* forgets s.next = eval_stack
  \/ /\ Survives(x.hs)
     /\ stack' = Append(Suspended(x, pc, n),
                        NewFrame("evaluate", 0, nest, x.hs.top))
     /\ level' = level + 1
     /\ evalStack' = Len(stack) + 1
     /\ ret' = NoRet
     /\ UNCHANGED added
  \/ Dies(x.hs)

CallEvaluate(x, pc, n, nest) ==
  \/ /\ Survives(x.hs)
     /\ stack' = Append(Suspended(x, pc, n),
                        [NewFrame("evaluate", 0, nest, x.hs.top)
                           EXCEPT !.next = evalStack])
     /\ level' = level + 1
     /\ evalStack' = Len(stack) + 1
     /\ ret' = NoRet
     /\ UNCHANGED added
  \/ Dies(x.hs)

Call(x, pc, callee, arg) ==
  \/ /\ Survives(x.hs)
     /\ stack' = Append(Suspended(x, pc, 0),
                        NewFrame(callee, 0, x.f.nest, x.hs.top))
     /\ ret' = arg
     /\ UNCHANGED <<level, evalStack, added>>
  \/ Dies(x.hs)

(* The topmost function returns v; DRETURN if it is evaluate.              *)
Uses_DRETURN_TailOnly(pc) == pc = "evaluate:tail"
Uses_DRETURN_Always(pc)   == pc \in Pcs
Uses_DRETURN(pc)          == pc \in EvalPcs

Leaves(x, v) ==
  /\ Survives(x.hs)
  /\ stack' = Callers
  /\ ret' = v
  /\ IF Uses_DRETURN(x.f.pc)
     THEN /\ level' = level - 1
          /\ evalStack' = IF evalStack \in DOMAIN stack
                          THEN stack[evalStack].next ELSE UNINIT
     ELSE UNCHANGED <<level, evalStack>>

Return(x, v) ==
  \/ Leaves(x, v) /\ UNCHANGED added
  \/ Dies(x.hs)

(* GOTO_TOPLEVEL: longjmp into the driver.  load_lib_scm then returns 0    *)
(* and init_eval__safe exits; run_in_thread cleans up and prompts again.   *)
Unwound_Not(H, mark) == H
Unwound(H, mark)     == pop_to_mark(H, mark)

Throw(x) ==
  \/ stack[1].pc \in BootPcs /\ x.hs.st = "ok" /\ Halt("exit")
  \/ /\ stack[1].pc \in ReplPcs
     /\ x.hs.st = "ok"
     /\ stack' = <<[stack[1] EXCEPT !.pc = "run_in_thread"]>>
     /\ hs' = Unwound(x.hs, stack[1].n)
     /\ level' = 0
     /\ ret' = NoRet
     /\ UNCHANGED <<evalStack, added, vm>>
  \/ Dies(x.hs)

(***************************************************************************)
(* The drivers.  read_intern holds four handles per open parenthesis, one  *)
(* for a string outside of a list, and none when it returns.               *)
(***************************************************************************)
read_intern(x, held) ==
  [x EXCEPT !.hs = pop_all(push_n(x.hs, Len(stack) + 1, held),
                           [k \in 1..held |-> x.hs.top + held + 1 - k])]

Peaks(nest) == IF nest = 0 THEN {0, 1} ELSE {4 * nest}

(* The end of init_eval__safe and the beginning of run_in_thread, reached  *)
(* at the end of the file or at anything the reader cannot read.           *)
start_repl ==
  LET H == handle_push(hs, 1) IN
  \/ /\ Survives(H)
     /\ stack' = <<[NewFrame("run_in_thread", get_mark(H), 0, hs.top)
                      EXCEPT !.h = <<H.top>>]>>
     /\ evalStack' = 0
     /\ level' = 0
     /\ UNCHANGED <<ret, added>>
  \/ Dies(H)

load_lib_scm ==
  \/ /\ At("load_lib_scm")
     /\ \E nest \in 0..FormNest : \E held \in Peaks(nest) :
          CallEvaluate(read_intern(Cur, held), "load_lib_scm:form", 0, nest)
  \/ At("load_lib_scm") /\ start_repl
  \/ At("load_lib_scm:form") /\ ret = "C-NULL" /\ (Halt("exit") \/ PrintingFails)
  \/ /\ At("load_lib_scm:form") /\ ret # "C-NULL"
     /\ stack' = <<[Top EXCEPT !.pc = "load_lib_scm"]>>
     /\ ret' = NoRet /\ added' = 0
     /\ UNCHANGED <<hs, level, evalStack, vm>>

(* One round of the prompt.  The text under a NULL result is printed too.  *)
run_in_thread ==
  \/ /\ At("run_in_thread")
     /\ \E nest \in 0..FormNest : \E held \in Peaks(nest) :
          CallEvaluate(read_intern(Cur, held), "run_in_thread:form", Top.n, nest)
  \/ /\ At("run_in_thread")
     /\ LET H == pop(Cur, <<1>>).hs IN
        \/ H.st = "ok" /\ Halt("done")
        \/ Dies(H)
  \/ /\ At("run_in_thread:form")
     /\ stack' = <<[Top EXCEPT !.pc = "run_in_thread"]>>
     /\ ret' = NoRet /\ added' = 0
     /\ UNCHANGED <<hs, level, evalStack, vm>>
  \/ /\ At("run_in_thread:form")
     /\ ret \in {"C-NULL", "pair", "function"} /\ PrintingFails

(***************************************************************************)
(* evaluate, evargs and invoke.                                            *)
(***************************************************************************)
Operand == Top.nest - 1    \* the nesting of the parts of the text at hand

(* Whether the code at hand may be evaluated in `internal' or inside of    *)
(* it: a form of the library, or the body of one of its functions.         *)
InLibrary ==
  stack[1].pc \in BootPcs \/ \E i \in DOMAIN stack : stack[i].pc = "invoke:body"

(* The values of symbols, strings and numbers.                             *)
Bound == {"nil", "pair", "datum", "function"}
           \cup (IF InLibrary THEN Prims ELSE UserPrims)

evaluate ==
  \/ At("evaluate") /\ \E v \in Bound : Return(Cur, v)
  \/ At("evaluate") /\ Len(stack) > 2 /\ Return(Cur, "C-NULL")  \* exp is NULL
  \/ At("evaluate") /\ Throw(Cur)                \* undefined identifier
  \/ /\ At("evaluate") /\ Top.nest > 0
     /\ CallEvaluate(push(Cur, 1), "evaluate:head", 0, Operand)
  \/ /\ At("evaluate:head") /\ ret \in Prims
     /\ Call(pop(Cur, <<1>>), "evaluate:tail", ret, NoRet)
  \/ /\ At("evaluate:head") /\ ret = "function"
     /\ Call(push(pop(Cur, <<1>>), 1), "evaluate:args", "evargs", NoRet)
  \/ /\ At("evaluate:head") /\ ret \in Data
     /\ \/ Throw(pop(Cur, <<1>>))
        \/ ret # "C-NULL" /\ PrintingFails       \* undefun_error
  \/ /\ At("evaluate:args")
     /\ Call(pop(Cur, <<1>>), "evaluate:tail", "invoke", ret)
  \/ At("evaluate:tail") /\ Return(Cur, ret)

(* The order in which evargs pops: tail, head, then harray backwards.      *)
ArgHandles_Forward(n) == <<n, n - 1>> \o [k \in 1..(n - 2) |-> k]
ArgHandles(n)         == [k \in 1..n |-> n + 1 - k]

evargs ==
  \/ /\ At("evargs") /\ MaxItems > MaxArgs
     /\ Return(Cur, "C-NULL")
  \/ /\ At("evargs")
     /\ Return(pop(push(Cur, 2), <<2, 1>>), "nil")
  \/ /\ At("evargs")
     /\ \E k \in 1..MaxItems :
          /\ k <= MaxArgs
          /\ CallEvaluate(push(Cur, k), "evargs:item", k - 1, Operand)
  \/ /\ At("evargs:item") /\ Top.n > 0
     /\ CallEvaluate(Cur, "evargs:item", Rest, Operand)
  \/ /\ At("evargs:item") /\ Top.n = 0
     /\ Return(pop(push(Cur, 2), ArgHandles(Len(Top.h) + 2)), "pair")

(* ret is the list of arguments, which may be too long or too short.  A    *)
(* parameter may be a list that the reader could not read, that is NULL.   *)
invoke ==
  \/ At("invoke") /\ Return(Cur, "C-NULL")
  \/ At("invoke") /\ ret = "pair" /\ Halt("crash")
  \/ /\ At("invoke") /\ ret # "C-NULL"
     /\ \E k \in 1..MaxBody :
          CallEvaluate(push(Cur, 1), "invoke:body", k - 1, BodyNest)
  \/ /\ At("invoke:body") /\ Top.n > 0
     /\ CallEvaluate(Cur, "invoke:body", Rest, BodyNest)
  \/ /\ At("invoke:body") /\ Top.n = 0
     /\ Return(pop(Cur, <<1>>), ret)

(***************************************************************************)
(* The primitives.                                                         *)
(***************************************************************************)
prim_list ==
  \/ /\ At("list")
     /\ Return(pop(push(Cur, 2), <<2, 1>>), "nil")
  \/ /\ At("list")
     /\ \E k \in 1..MaxItems :
          CallEvaluate(push(Cur, 2), "list:first", k - 1, Operand)
  \/ /\ At("list:first") /\ Top.n > 0
     /\ CallEvaluate(push(Cur, 1), "list:next", Rest, Operand)
  \/ /\ At("list:first") /\ Top.n = 0
     /\ Return(pop(push(Cur, 1), <<3, 2, 1>>), "pair")
  \/ /\ At("list:next") /\ Top.n > 0
     /\ CallEvaluate(pop(push(Cur, 1), <<4>>), "list:next", Rest, Operand)
  \/ /\ At("list:next") /\ Top.n = 0
     /\ Return(pop(pop(push(Cur, 1), <<4>>), <<3, 2, 1>>), "pair")

(* prim_setcar and prim_setcdr.  PAIRP of NULL reads through it.           *)
prim_set ==
  \/ /\ \E p \in Setters : At(p)
     /\ Throw(Cur) \/ CallEvaluate(push(Cur, 1), "set:first", 0, Operand)
  \/ At("set:first") /\ ret = "C-NULL" /\ Halt("crash")
  \/ At("set:first") /\ ret \notin {"C-NULL", "pair"} /\ Throw(pop(Cur, <<1>>))
  \/ /\ At("set:first") /\ ret = "pair"
     /\ CallEvaluate(push(Cur, 1), "set:second", 0, Operand)
  \/ At("set:second") /\ Return(pop(Cur, <<2, 1>>), "pair")

prim_cons ==
  \/ /\ At("cons")
     /\ Throw(Cur) \/ CallEvaluate(push(Cur, 1), "cons:car", 0, Operand)
  \/ At("cons:car") /\ CallEvaluate(Cur, "cons:cdr", 0, Operand)
  \/ At("cons:cdr") /\ Return(pop(Cur, <<1>>), "pair")

prim_length ==
  \/ /\ At("length")
     /\ Throw(Cur) \/ CallEvaluate(Cur, "length:list", 0, Operand)
  \/ At("length:list") /\ ret \in {"nil", "pair"} /\ Return(Cur, "datum")
  \/ At("length:list") /\ ret # "nil" /\ Throw(Cur)

(* prim_plus and prim_mul, then prim_minus and prim_number_equals: all     *)
(* return NULL for operands that are not numbers, and prim_minus takes the *)
(* CAR of a list that may be nil.                                          *)
prim_plus_KeepsHandle ==
  \/ (\E p \in Adders : At(p)) /\ Call(Cur, "add:args", "evargs", NoRet)
  \/ At("add:args") /\ ret # "nil" /\ Return(Cur, "C-NULL")
  \/ At("add:args") /\ ret # "C-NULL" /\ Return(push(Cur, 1), "datum")

prim_plus ==
  \/ (\E p \in Adders : At(p)) /\ Call(Cur, "add:args", "evargs", NoRet)
  \/ At("add:args") /\ ret # "nil" /\ Return(Cur, "C-NULL")
  \/ /\ At("add:args") /\ ret # "C-NULL"
     /\ Return(pop(push(Cur, 1), <<1>>), "datum")

prim_minus ==
  \/ At("-") /\ Call(Cur, "minus:args", "evargs", NoRet)
  \/ At("minus:args") /\ ret # "nil" /\ Return(Cur, "C-NULL")
  \/ At("minus:args") /\ ret = "nil" /\ Halt("crash")
  \/ /\ At("minus:args") /\ ret = "pair"
     /\ Return(pop(push(Cur, 1), <<1>>), "datum")

prim_number_equals ==
  \/ At("=") /\ Call(Cur, "equal:args", "evargs", NoRet)
  \/ At("equal:args") /\ ret # "nil" /\ Return(Cur, "C-NULL")
  \/ At("equal:args") /\ ret # "C-NULL" /\ Return(Cur, "datum")

(* scheme_to_c_truth looks every atom but a string up as if it were a      *)
(* symbol: a datum may be true, may be an undefined identifier or, as the  *)
(* number 0, may reach vm_exit; a function is an undefined identifier, and *)
(* the error message prints it.                                            *)
prim_if ==
  \/ /\ At("if")
     /\ \/ Return(Cur, "C-NULL")
        \/ CallEvaluate(push(Cur, 1), "if:pred", 0, Operand)
  \/ At("if:pred") /\ ret = "C-NULL" /\ Return(pop(Cur, <<1>>), "C-NULL")
  \/ /\ At("if:pred") /\ ret \in {"nil", "pair", "datum"}
     /\ CallEvaluate(pop(Cur, <<1>>), "if:branch", 0, Operand)
  \/ At("if:pred") /\ ret \notin {"C-NULL", "nil", "pair"} /\ Throw(Cur)
  \/ At("if:pred") /\ ret = "datum" /\ Halt("exit")
  \/ At("if:pred") /\ ret = "function" /\ PrintingFails
  \/ At("if:branch") /\ Return(Cur, ret)

prim_lambda_PopsFirstFirst ==
  /\ At("lambda")
  /\ \/ Return(Cur, "C-NULL")
     \/ Return(pop(push(Cur, 2), <<1, 2>>), "function")

prim_lambda ==
  /\ At("lambda")
  /\ \/ Return(Cur, "C-NULL")
     \/ Return(pop(push(Cur, 2), <<2, 1>>), "function")

(* prim_definternal and prim_deflibrary, which go on as prim_lambda.       *)
prim_deflibrary ==
  /\ \E p \in LibDefiners : At(p)
  /\ \/ Halt("crash")                            \* no list to take a name from
     \/ Throw(Cur)
     \/ Return(Cur, "C-NULL")
     \/ Return(pop(push(Cur, 2), <<2, 1>>), "function")

prim_quote ==
  /\ At("quote")
  /\ Throw(Cur) \/ \E v \in Data : Return(Cur, v)

(* The test of the arity lets one operand through: n is 0 when the second  *)
(* one does not exist.                                                     *)
prim_eq ==
  \/ At("eq?") /\ Throw(Cur)
  \/ At("eq?") /\ \E n \in 0..1 : CallEvaluate(Cur, "eq?:one", n, Operand)
  \/ At("eq?:one") /\ Top.n = 1 /\ CallEvaluate(Cur, "eq?:two", 0, Operand)
  \/ At("eq?:one") /\ Top.n = 0 /\ Halt("crash")
  \/ At("eq?:two") /\ Return(Cur, "datum")

AtToplevel_OffByOne == level <= 2
AtToplevel          == level = 1

prim_define_BindsFirst ==    \* adds the binding before it has the value
  \/ At("define") /\ Throw(Cur)
  \/ /\ At("define") /\ AtToplevel
     /\ LET x == push(Cur, 1) IN
        /\ Survives(x.hs)
        /\ stack' = Append(Suspended(x, "define:value", 0),
                           [NewFrame("evaluate", 0, Operand, x.hs.top)
                              EXCEPT !.next = evalStack])
        /\ level' = level + 1 /\ evalStack' = Len(stack) + 1
        /\ ret' = NoRet /\ added' = added + 1
  \/ At("define:value") /\ Return(pop(Cur, <<1>>), "datum")

prim_define ==
  \/ At("define") /\ Throw(Cur)
  \/ At("define") /\ Halt("crash")               \* SYMBOLP of NULL
  \/ /\ At("define") /\ AtToplevel
     /\ CallEvaluate(push(Cur, 1), "define:value", 0, Operand)
  \/ /\ At("define:value")
     /\ LET x == pop(Cur, <<1>>) IN
        \/ Leaves(x, "datum") /\ added' = added + 1
        \/ Dies(x.hs)

prim_error ==
  \/ At("error") /\ Throw(Cur)
  \/ At("error") /\ Halt("crash")                \* STRINGP of NULL
  \/ At("error") /\ CallEvaluate(Cur, "error:form", 0, Operand)
  \/ At("error:form") /\ Throw(Cur)
  \/ At("error:form") /\ ret \in {"pair", "function"} /\ PrintingFails

(* dump_handles and dump_roots print what every slot holds, that of the    *)
(* bottom, which nobody writes, and lists under construction included.     *)
prim_dump ==
  /\ \E p \in Dumpers : At(p)
  /\ \/ Return(Cur, "nil")
     \/ Top.pc # "dump_symtab" /\ (PrintsForever \/ Halt("crash"))

(* Where a function runs that calls new or malloc_or_bail.                 *)
AllocPcs ==
  {"load_lib_scm", "run_in_thread", "evargs:item", "invoke", "list",
   "list:next", "cons", "length:list", "add:args",
   "minus:args", "lambda", "definternal", "deflibrary", "define:value"}

OutOfMemory == (\E pc \in AllocPcs : At(pc)) /\ Halt("exit")

Init ==
  /\ stack = <<NewFrame("load_lib_scm", 0, 0, 0)>>
  /\ hs = init_handles
  /\ ret = NoRet
  /\ level = 0 /\ evalStack = 0 /\ added = 0
  /\ vm = "running"

Primitive ==
  \/ prim_list \/ prim_set \/ prim_cons \/ prim_length \/ prim_plus
  \/ prim_minus \/ prim_number_equals \/ prim_if \/ prim_lambda
  \/ prim_deflibrary \/ prim_quote \/ prim_eq \/ prim_define
  \/ prim_error \/ prim_dump

Next == load_lib_scm \/ run_in_thread \/ evaluate \/ evargs \/ invoke
          \/ Primitive \/ OutOfMemory

(* The process runs on as long as it does not wait for the user.           *)
Fairness == WF_vars(~At("run_in_thread") /\ Next)

Spec == Init /\ [][Next]_vars /\ Fairness

-----------------------------------------------------------------------------
(***************************************************************************)
(* What must hold.                                                         *)
(***************************************************************************)
FrameType == [pc : Pcs, h : Seq(Nat), n : Nat, nest : Nat, next : Nat, base : Nat]

(* The types of the interpreter's state: no level below 0, no pointer of   *)
(* eval_stack that was never stored.                                       *)
TypeOK ==
  /\ stack \in Seq(FrameType)
  /\ hs \in HandleStacks
  /\ ret \in Values \cup {NoRet}
  /\ level \in Nat
  /\ evalStack \in Nat
  /\ added \in Nat
  /\ vm \in Ends \cup {"running", "printing"}
  /\ vm \in Ends <=> stack = <<>>

(* handle_pop's assertion, handle == top, never fails: every path through  *)
(* evaluate, evargs, invoke and the primitives pops what it pushed, last   *)
(* first, also on the early returns and after an error deep inside.        *)
NoAssertionFails == vm # "assertion failed"

(* The handles on the stack are those of the frames that have not returned *)
(* and no others: what a function holds is on the stack and still protects *)
(* what it put there, and nothing else is on it, so that no error and no   *)
(* early return leaks a handle that would bring "Out of handles!" closer.  *)
HandlesOwned ==
  vm = "running" =>
    /\ \A i \in DOMAIN stack : \A k \in DOMAIN stack[i].h :
         stack[i].h[k] \in 1..hs.top /\ hs.slot[stack[i].h[k]] = i
    /\ \A s \in 1..hs.top :
         /\ hs.slot[s] \in DOMAIN stack
         /\ \E k \in DOMAIN stack[hs.slot[s]].h : stack[hs.slot[s]].h[k] = s

EvalFrames == {i \in DOMAIN stack : stack[i].pc \in EvalPcs}

(* __tl_eval_level counts the evaluations in progress, after any number of *)
(* errors that left some of them by longjmp.                               *)
LevelIsDepth == vm = "running" => level = Cardinality(EvalFrames)

(* While a form is evaluated, eval_stack and the next pointers list the    *)
(* live frames of evaluate, innermost first, although an error leaves      *)
(* eval_stack pointing into the C stack that longjmp gave up.              *)
EvalStackLinked ==
  \A i \in EvalFrames :
    LET outer == {j \in EvalFrames : j < i} IN
    /\ (\A j \in EvalFrames : j <= i) => evalStack = i
    /\ \A j \in outer : (\A k \in outer : k <= j) => stack[i].next = j

(* "Can only define at toplevel": a binding is added to `toplevel' only by *)
(* a define that is the whole form, not by one in an operand or in the     *)
(* body of a function, whatever errors came before.                        *)
DefineOnlyAtToplevel ==
  [][added' > added => Len(stack) = 3 /\ stack[2].pc = "evaluate:tail"]_vars

(* A form that ends in an error has defined nothing in `toplevel': no step *)
(* leads back to the prompt from inside a form once it has added a binding *)
(* there.  (What definternal and deflibrary have bound stays.)             *)
FailedFormDefinesNothing ==
  [][Len(stack) > 1 /\ Len(stack') = 1 /\ stack'[1].pc = "run_in_thread"
       => added' = 0]_vars

(* A form that was read is being evaluated, or its result is printed.      *)
Forms == {"load_lib_scm:form", "run_in_thread:form"}
FormInProgress == stack # <<>> /\ stack[1].pc \in Forms

(* Every form is answered, with its value or an error, or ends the         *)
(* process, unless the printer meets a circle in what it prints: no other  *)
(* loop of the code goes on for ever, and a recursion without end runs out *)
(* of handles.                                                             *)
EveryFormAnswered == FormInProgress ~> (~FormInProgress \/ vm = "printing")

(* The interpreter implements the promise of module Repl.                  *)
phase ==
  IF stack = <<>> THEN "stopped"
  ELSE IF vm = "printing" THEN "printing"
  ELSE IF stack[1].pc \in BootPcs THEN "loading"
  ELSE IF stack[1].pc = "run_in_thread" THEN "ready"
  ELSE "evaluating"

R == INSTANCE Repl WITH phase <- phase, defs <- IF phase = "evaluating" THEN added ELSE 0

ReplSpec == R!Spec

(* "Rest Need to be a two-element list", of prim_eq (primitives.c:489):    *)
(* prim_eq goes on only with two operands.                                 *)
EqHasTwoOperands == At("eq?:one") => Top.n = 1
=============================================================================
