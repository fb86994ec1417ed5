----------------------------- MODULE Environment -----------------------------
(***************************************************************************)
(* The environments of environment.c and what the evaluator does with      *)
(* them: five global ones, a new one for every call of a function, inside  *)
(* the one its lambda was evaluated in, and find_value, which looks a      *)
(* symbol up in the environment of the code that runs and in the global    *)
(* ones in a fixed order.                                                  *)
(*                                                                         *)
(* An environ_t is a record of `envs': its parent, and its two parallel    *)
(* lists, `symbols' and `values', newest binding first.  A pointer to one  *)
(* is its position, 0 for NULL.  A value is a record [kind, env, syms]: a  *)
(* function has the environment and the parameters of its lambda, a        *)
(* primitive its name; what else a value is makes no difference here.      *)
(* (A name with a suffix is a mistaken variant of the definition after it.)*)
(***************************************************************************)
EXTENDS Naturals, Sequences, FiniteSets, SequencesExt

CONSTANTS
  Specials, Primitives, Internals,   \* the names the DECLARE macros bind
  Others,                            \* names that only programs bind
  ParamLists,                        \* bound: the parameters of functions
  BoundNames,                        \* bound: the names that definitions bind
  Kinds,                             \* bound: the kinds of value that are passed
  MaxCalls,                          \* bound: calls of functions
  MaxBindings,                       \* bound: define, deflibrary, definternal
  MaxOps                             \* bound: calls and bindings together

Symbols == Specials \cup Primitives \cup Internals \cup Others

ASSUME EnvironmentAssumption ==
  /\ ParamLists \subseteq Seq(Symbols) /\ BoundNames \subseteq Symbols
  /\ {MaxCalls, MaxBindings, MaxOps} \subseteq Nat
  /\ \A names \in {Specials, Primitives, Internals} : IsFiniteSet(names)

VARIABLES
  envs,     \* the environments, in the order of creation
  active,   \* the environments of the forms and calls in progress, innermost last
  held,     \* for each of them, the values its calls have returned to it
  phase,    \* "boot" (load_lib_scm), "repl", "exited" or "destroyed"
  freed,    \* how often free_environ has freed each environment
  op        \* history: what the last step did to the environments

vars == <<envs, active, held, phase, freed, op>>

(* The globals, in the order in which init_eval__safe creates them.        *)
special_forms == 1
toplevel      == 2
primitives    == 3
internal      == 4
lib           == 5
Globals       == 1..5

NULL         == [kind |-> "NULL", env |-> 0, syms |-> <<>>]
Undefined    == [kind |-> "error", env |-> 0, syms |-> <<>>]   \* undef_ident_error
Datum        == [kind |-> "datum", env |-> 0, syms |-> <<>>]
Primitive(s) == [kind |-> "primitive", env |-> 0, syms |-> <<s>>]

(* prim_lambda of a well formed list of parameters and a body.             *)
Lambda(e, ps) == [kind |-> "function", env |-> e, syms |-> ps]

-----------------------------------------------------------------------------
(* add_to_environment.  Memory cannot run out in it (malloc_or_bail).      *)
add_to_environment_AtTail(env, s, v) ==
  [env EXCEPT !.symbols = Append(@, s), !.values = Append(@, v)]

add_to_environment_NoNULL(env, s, v) ==
  [env EXCEPT !.symbols = <<s>> \o @,
              !.values = IF v = NULL THEN @ ELSE <<v>> \o @]

add_to_environment(env, s, v) ==
  [env EXCEPT !.symbols = <<s>> \o @, !.values = <<v>> \o @]

create_empty_environment == [parent |-> 0, symbols |-> <<>>, values |-> <<>>]

(* extend, for lists of the same length: one add_to_environment for each   *)
(* parameter, the first one first.                                         *)
extend(parent, new, syms, vals) ==
  [new EXCEPT !.parent = parent,
              !.symbols = Reverse(syms) \o @, !.values = Reverse(vals) \o @]

(* _value walks both lists at once and goes on with the parent; NULL when  *)
(* the symbol is not found, or found with the value NULL.                  *)
Index(env, s) == SelectInSeq(env.symbols, LAMBDA t : t = s)

value(es, e, s) ==
  LET _value[k \in 0..Len(es)] ==
        IF k = 0 THEN NULL
        ELSE LET i == Index(es[k], s)
             IN  IF i > 0 THEN es[k].values[i] ELSE _value[es[k].parent]
  IN  _value[e]

(* An environment and its ancestors.                                       *)
Chain(e) ==
  LET up[k \in 0..Len(envs)] == IF k = 0 THEN {} ELSE {k} \cup up[envs[k].parent]
  IN  up[e]

(* find_value: the first environment with a value that is not NULL.        *)
LookupOrder_ToplevelFirst(e) == <<special_forms, toplevel, e, lib, primitives>>
LookupOrder_LibraryFirst(e)  == <<special_forms, e, lib, toplevel, primitives>>
LookupOrder_LocalFirst(e)    == <<e, special_forms, toplevel, lib, primitives>>
LookupOrder(e)               == <<special_forms, e, toplevel, lib, primitives>>

find_value(es, e, s) ==
  LET i == SelectInSeq(LookupOrder(e), LAMBDA k : value(es, k, s) # NULL)
  IN  IF i = 0 THEN Undefined ELSE value(es, LookupOrder(e)[i], s)

-----------------------------------------------------------------------------
Declared(names) ==
  [parent |-> 0, symbols |-> SetToSeq(names),
   values |-> [i \in DOMAIN SetToSeq(names) |-> Primitive(SetToSeq(names)[i])]]

NoOp == [do |-> "none", env |-> 0, syms |-> <<>>, vals |-> <<>>]

(* init_eval__safe up to load_lib_scm, which evaluates its forms in        *)
(* `internal'.  (The bindings of nil, false and t, which boot makes in     *)
(* special_forms, are like those of the special forms.)                    *)
Globals_LibInside ==      \* the library environment inside the internal one
  <<Declared(Specials), create_empty_environment, Declared(Primitives),
    Declared(Internals), [create_empty_environment EXCEPT !.parent = internal]>>

Globals_Created ==
  <<Declared(Specials), create_empty_environment, Declared(Primitives),
    Declared(Internals), create_empty_environment>>

Init ==
  /\ envs = Globals_Created
  /\ active = <<internal>>
  /\ held = <<{}>>
  /\ phase = "boot"
  /\ freed = <<>>
  /\ op = NoOp

Running == phase \in {"boot", "repl"}
cur     == active[Len(active)]

(* What an expression may evaluate to in the current environment: a        *)
(* constant, NULL (from a malformed form), the value of a symbol, a new    *)
(* function, or what a call inside the expression has returned: the values *)
(* of the head and of several operands wait side by side until the         *)
(* expression needs them.  (The code drops them after it, here they stay   *)
(* until the form or the body ends.)                                       *)
Returned == held[Len(held)]

Available ==
  {Datum, NULL} \cup Returned
  \cup ({find_value(envs, cur, s) : s \in Symbols} \ {Undefined})
  \cup {Lambda(cur, ps) : ps \in ParamLists}

Passed == {v \in Available : v.kind \in Kinds}

(* Where the next form is evaluated: load_lib_scm passes `internal',       *)
(* run_in_thread NULL.                                                     *)
Base == IF phase = "boot" THEN <<internal>> ELSE <<0>>

(* The bounds.                                                             *)
Calls == Len(envs) - Cardinality(Globals)
Bindings ==
  Len(envs[toplevel].symbols) + Len(envs[lib].symbols) + Len(envs[internal].symbols)
    - Cardinality(Internals)

-----------------------------------------------------------------------------
(* invoke, with as many arguments as parameters; otherwise it gives NULL,  *)
(* which is Available anyway.                                              *)
invoke ==
  /\ Running /\ Calls < MaxCalls /\ Calls + Bindings < MaxOps
  /\ \E f \in Available :
       /\ f.kind = "function"
       /\ \E args \in [DOMAIN f.syms -> Passed] :
            /\ envs' = Append(envs, extend(f.env, create_empty_environment, f.syms, args))
            /\ op' = [do |-> "call", env |-> f.env, syms |-> f.syms, vals |-> args]
  /\ active' = Append(active, Len(envs'))
  /\ held' = Append(held, {})
  /\ UNCHANGED <<phase, freed>>

(* A call returns; the environment stays: a function that was made in it   *)
(* may have been returned, and nobody frees it.                            *)
return ==
  /\ Running /\ Len(active) > 1 /\ Calls + Bindings < MaxOps
  /\ \E v \in Available :
       held' = [Front(held) EXCEPT ![Len(held) - 1] = @ \cup ({v} \ {Datum, NULL})]
  /\ active' = Front(active)
  /\ op' = NoOp
  /\ UNCHANGED <<envs, phase, freed>>

(* A form ends, with a value or by GOTO_TOPLEVEL.  load_lib_scm ends the   *)
(* process when it was an error.                                           *)
form_ends ==
  /\ Running
  /\ \/ Len(active) = 1 /\ UNCHANGED phase
     \/ phase' = IF phase = "boot" THEN "exited" ELSE phase
  /\ active' = Base
  /\ held' = <<{}>>
  /\ op' = NoOp
  /\ UNCHANGED <<envs, freed>>

AddTo(e, s, v) ==
  /\ Bindings < MaxBindings /\ Calls + Bindings < MaxOps
  /\ envs' = [envs EXCEPT ![e] = add_to_environment(@, s, v)]
  /\ op' = [do |-> "bind", env |-> e, syms |-> <<s>>, vals |-> <<v>>]
  /\ UNCHANGED <<active, phase, freed>>

(* The whole form is a define: prim_define binds in `toplevel', whatever   *)
(* the value is.  Its own value is the symbol.                             *)
prim_define ==
  /\ Running /\ Len(active) = 1
  /\ \E s \in BoundNames, v \in Available : AddTo(toplevel, s, v)
  /\ held' = <<{}>>

(* prim_definternal and prim_deflibrary, at any depth, wherever their      *)
(* names are known: a function made as by lambda (or NULL, if it is        *)
(* malformed), inside `internal' when there is no environment.  They also  *)
(* take the name out of the text of the form: a form that runs again       *)
(* binds another name.                                                     *)
prim_definternal ==
  /\ Running
  /\ \E p \in Internals \cap {"definternal", "deflibrary"} :
       /\ Primitive(p) \in Available
       /\ \E s \in BoundNames,
             v \in {NULL} \cup {Lambda(IF cur = 0 THEN internal ELSE cur, ps) : ps \in ParamLists} :
            /\ AddTo(IF p = "definternal" THEN internal ELSE lib, s, v)
            /\ held' = [held EXCEPT ![Len(held)] = @ \cup ({v} \ {Datum, NULL})]

(* The whole library has been read.                                        *)
load_lib_scm ==
  /\ phase = "boot" /\ Len(active) = 1
  /\ phase' = "repl"
  /\ active' = <<0>>
  /\ held' = <<{}>>
  /\ op' = NoOp
  /\ UNCHANGED <<envs, freed>>

(* destroy_eval__safe, at the end of the input: destroy_env of each        *)
(* global, which frees the ancestors too.                                  *)
destroy_eval__safe ==
  /\ phase = "repl" /\ Len(active) = 1
  /\ phase' = "destroyed"
  /\ freed' = [e \in DOMAIN envs |-> Cardinality({g \in Globals : e \in Chain(g)})]
  /\ op' = NoOp
  /\ UNCHANGED <<envs, active, held>>

Next ==
  \/ invoke \/ return \/ form_ends
  \/ prim_define \/ prim_definternal
  \/ load_lib_scm \/ destroy_eval__safe

Spec == Init /\ [][Next]_vars

-----------------------------------------------------------------------------
(***************************************************************************)
(* What must hold.                                                         *)
(***************************************************************************)

(* The types; the two lists of an environment are equally long, which      *)
(* _value takes for granted; and an environment is older than those        *)
(* inside it, so that every search ends.                                   *)
TypeOK ==
  /\ \A e \in DOMAIN envs :
       /\ envs[e].parent \in 0..(e - 1)
       /\ envs[e].symbols \in Seq(Symbols)
       /\ Len(envs[e].values) = Len(envs[e].symbols)
  /\ Running => active # <<>> /\ \A i \in DOMAIN active : active[i] \in 0..Len(envs)
  /\ phase \in {"boot", "repl", "exited", "destroyed"}

(* The pairs of lists are scopes: a redefinition replaces the value, the   *)
(* parameters of a call are bound to its arguments, nothing else changes.  *)
Sc == INSTANCE Scopes WITH
  scopes <- [e \in DOMAIN envs |->
               [outer |-> envs[e].parent,
                bind  |-> [s \in Symbols |->
                             IF Index(envs[e], s) = 0 THEN <<>>
                             ELSE <<envs[e].values[Index(envs[e], s)]>>]]]

ScopesSpec == Sc!Spec

(* No program can give the name of a special form another meaning, by a    *)
(* parameter, a definition or a library function of that name.             *)
SpecialFormsFixed ==
  \A s \in Specials : \A e \in {0, internal} \cup (DOMAIN envs \ Globals) :
    find_value(envs, e, s) = Primitive(s)

(* Lexical scope: what a function has bound in the environments around it  *)
(* (with a value at all) means the same to it for ever, whatever is        *)
(* defined or called later; only definternal can change a global one of    *)
(* them.                                                                   *)
ClosuresKeepTheirMeaning ==
  [][envs'[internal] = envs[internal] =>
       \A e \in {internal} \cup (DOMAIN envs \ Globals), s \in Symbols :
         value(envs, e, s) # NULL => find_value(envs', e, s) = find_value(envs, e, s)]_envs

(* A definition at the prompt is what the name means in the next form,     *)
(* unless it names a special form or has no value, even where the library  *)
(* or a primitive has the name.                                            *)
DefineTakesEffect ==
  op.do = "bind" /\ op.env = toplevel /\ op.vals[1] # NULL /\ phase = "repl"
    /\ op.syms[1] \notin Specials
  => find_value(envs, 0, op.syms[1]) = op.vals[1]

(* At the end no environment is freed twice, and no environment of a call  *)
(* at all: destroy_env frees parents, so none of the globals may be inside *)
(* another.                                                                *)
FreedOnce ==
  phase = "destroyed" =>
    \A e \in DOMAIN freed : freed[e] = IF e \in Globals THEN 1 ELSE 0

(* "If S is defined in an env looked into earlier, it will override later  *)
(* environments" (eval.c:206): a symbol that the code around a function    *)
(* has bound is not looked up any further.                                 *)
EarlierOverrides ==
  \A e \in DOMAIN envs \ Globals, s \in Symbols \ Specials :
    (\E k \in Chain(e) : Index(envs[k], s) > 0)
      => find_value(envs, e, s) \in {value(envs, e, s), Undefined}
=============================================================================
