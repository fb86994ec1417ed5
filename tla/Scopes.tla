------------------------------- MODULE Scopes -------------------------------
(***************************************************************************)
(* What an environment is to a program: a scope, which maps some symbols   *)
(* to values, inside an outer scope.  A scope is made by a call, with all  *)
(* parameters bound at once; after that one binding at a time is added or  *)
(* replaced, and the scope stays inside the one it was made in.            *)
(***************************************************************************)
EXTENDS Naturals, Sequences, SequencesExt

CONSTANT Symbols

VARIABLES
  op,       \* the operation asked for: [do, env, syms, vals]
  scopes    \* the scopes made so far: [outer, bind]

vars == <<op, scopes>>

Unbound  == <<>>
Value(v) == <<v>>

(* A later parameter of the same name wins.                                *)
Meaning(syms, vals, s) ==
  LET i == SelectLastInSeq(syms, LAMBDA p : p = s)
  IN  IF i = 0 THEN Unbound ELSE Value(vals[i])

(* Some global scopes to begin with, none inside another.                  *)
Init == \A e \in DOMAIN scopes : scopes[e].outer = 0

Call ==
  /\ op'.do = "call"
  /\ scopes' = Append(scopes, [outer |-> op'.env,
                               bind  |-> [s \in Symbols |-> Meaning(op'.syms, op'.vals, s)]])

Bind ==
  /\ op'.do = "bind"
  /\ scopes' = [scopes EXCEPT ![op'.env].bind[op'.syms[1]] = Value(op'.vals[1])]

Other == op'.do = "none" /\ UNCHANGED scopes

Next == Call \/ Bind \/ Other

Spec == Init /\ [][Next]_vars
=============================================================================
