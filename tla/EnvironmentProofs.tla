-------------------------- MODULE EnvironmentProofs --------------------------
(***************************************************************************)
(* That the environments of the code are lexical scopes, and that lookup   *)
(* keeps special forms and closures what they are, for every set of names  *)
(* and any number of calls and definitions.                                *)
(***************************************************************************)
EXTENDS Environment, FiniteSetTheorems, SequenceTheorems, WellFoundedInduction, TLAPS

-----------------------------------------------------------------------------
(***************************************************************************)
(* Searches in sequences.                                                  *)
(***************************************************************************)
LEMMA LeastElement ==
  ASSUME NEW I \in SUBSET Nat, I # {}
  PROVE  \E i \in I : \A j \in I : i <= j
<1>1. PICK i \in I : \A j \in I : ~(<<j, i>> \in OpToRel(<, Nat))
  BY NatLessThanWellFounded, WFMin
<1>2. ASSUME NEW j \in I
      PROVE  i <= j
  <2>1. ~(<<j, i>> \in {ss \in Nat \X Nat : ss[1] < ss[2]})
    BY <1>1 DEF OpToRel
  <2> QED BY <2>1
<1> QED BY <1>2

LEMMA MinProperties ==
  ASSUME NEW I \in SUBSET Nat, I # {}
  PROVE  Min(I) \in I /\ \A j \in I : Min(I) <= j
BY LeastElement DEF Min

-----------------------------------------------------------------------------
(***************************************************************************)
(* The search through an environment and those around it.                  *)
(***************************************************************************)
(* An environment is younger than the one around it.                       *)
Ordered(es) == Len(es) \in Nat /\ \A e \in 1..Len(es) : es[e].parent \in 0..(e - 1)

(* What _value does at k, where f has what it does further out.            *)
At(es, s, f, k) ==
  IF k = 0 THEN NULL
  ELSE LET i == Index(es[k], s) IN IF i > 0 THEN es[k].values[i] ELSE f[es[k].parent]

LEMMA ValueExists ==
  ASSUME NEW es, NEW s, Ordered(es)
  PROVE  \E f : f = [k \in 0..Len(es) |-> At(es, s, f, k)]
<1> DEFINE Upto(n) == \E f : f = [k \in 0..n |-> At(es, s, f, k)]
           Bad     == {n \in 0..Len(es) : ~Upto(n)}
<1>1. Upto(0)
  <2> DEFINE f == [k \in 0..0 |-> NULL]
  <2>1. f = [k \in 0..0 |-> At(es, s, f, k)]
    BY DEF At
  <2> QED BY <2>1
<1>2. ASSUME NEW n \in 0..Len(es), n # 0, Upto(n - 1)
      PROVE  Upto(n)
  <2>1. PICK f : f = [k \in 0..(n - 1) |-> At(es, s, f, k)]
    BY <1>2
  <2> DEFINE g == [k \in 0..n |-> IF k = n THEN At(es, s, f, n) ELSE f[k]]
  <2>2. ASSUME NEW k \in 0..n
        PROVE  g[k] = At(es, s, g, k)
    <3>1. n \in Nat /\ n \in 1..Len(es)
      BY <1>2 DEF Ordered
    <3>2. CASE k = 0
      <4>1. k \in 0..(n - 1) /\ k # n
        BY <1>2, <3>1, <3>2
      <4>2. f[k] = At(es, s, f, k)
        BY <2>1, <4>1
      <4> QED BY <3>2, <4>1, <4>2 DEF At
    <3>3. CASE k # 0
      <4>1. k \in 1..Len(es) /\ es[k].parent \in 0..(k - 1)
        BY <3>1, <3>3 DEF Ordered
      <4>2. es[k].parent \in 0..(n - 1) /\ es[k].parent # n /\ es[k].parent \in 0..n
        BY <3>1, <4>1
      <4>3. g[es[k].parent] = f[es[k].parent]
        BY <4>2
      <4>4. At(es, s, g, k) = At(es, s, f, k)
        BY <4>3 DEF At
      <4>5. k # n => f[k] = At(es, s, f, k)
        <5>1. k # n => k \in 0..(n - 1)
          BY <3>1
        <5> QED BY <2>1, <5>1
      <4> QED BY <4>4, <4>5
    <3> QED BY <3>2, <3>3
  <2>3. g = [k \in 0..n |-> At(es, s, g, k)]
    BY <2>2
  <2> QED BY <2>3
<1>3. Bad = {}
  <2>1. SUFFICES ASSUME Bad # {} PROVE FALSE
    OBVIOUS
  <2>2. Bad \in SUBSET Nat
    BY DEF Ordered
  <2> HIDE DEF Upto
  <2>3. PICK n \in Bad : \A m \in Bad : n <= m
    BY <2>1, <2>2, LeastElement
  <2>4. n # 0 /\ n \in 0..Len(es) /\ ~Upto(n)
    BY <1>1, <2>3
  <2>5. n - 1 \in 0..Len(es) /\ ~(n <= n - 1)
    BY <2>4 DEF Ordered
  <2>6. Upto(n - 1)
    BY <2>3, <2>5
  <2> QED BY <1>2, <2>4, <2>6
<1>4. Len(es) \in 0..Len(es)
  BY DEF Ordered
<1> QED BY <1>3, <1>4

LEMMA ValueUnfolds ==
  ASSUME NEW es, NEW s, NEW e \in 0..Len(es), Ordered(es)
  PROVE  value(es, e, s) =
           IF e = 0 THEN NULL
           ELSE IF Index(es[e], s) > 0 THEN es[e].values[Index(es[e], s)]
           ELSE value(es, es[e].parent, s)
<1> DEFINE f == CHOOSE f : f = [k \in 0..Len(es) |-> At(es, s, f, k)]
<1>1. f = [k \in 0..Len(es) |-> At(es, s, f, k)]
  BY ValueExists
<1>2. \A k : value(es, k, s) = f[k]
  BY DEF value, At
<1>3. f[e] = At(es, s, f, e)
  BY <1>1
<1> QED BY <1>2, <1>3 DEF At

-----------------------------------------------------------------------------
(***************************************************************************)
(* Looking a symbol up.                                                    *)
(***************************************************************************)
LEMMA IndexProperties ==
  ASSUME NEW env, NEW s, Len(env.symbols) \in Nat
  PROVE  /\ Index(env, s) \in 0..Len(env.symbols)
         /\ Index(env, s) > 0 =>
              /\ env.symbols[Index(env, s)] = s
              /\ \A j \in 1..Len(env.symbols) : env.symbols[j] = s => Index(env, s) <= j
         /\ Index(env, s) = 0 => \A j \in 1..Len(env.symbols) : env.symbols[j] # s
<1> DEFINE I == {i \in 1..Len(env.symbols) : env.symbols[i] = s}
<1>1. Index(env, s) = IF I # {} THEN Min(I) ELSE 0
  BY DEF Index, SelectInSeq
<1>2. CASE I = {}
  BY <1>1, <1>2
<1>3. CASE I # {}
  <2>1. I \in SUBSET Nat
    OBVIOUS
  <2>2. Min(I) \in I /\ \A j \in I : Min(I) <= j
    BY <1>3, <2>1, MinProperties
  <2> QED BY <1>1, <1>3, <2>2
<1> QED BY <1>2, <1>3

(* The position of the only or first occurrence.                           *)
LEMMA IndexIs ==
  ASSUME NEW env, NEW s, Len(env.symbols) \in Nat, NEW i \in 1..Len(env.symbols),
         env.symbols[i] = s, \A j \in 1..(i - 1) : env.symbols[j] # s
  PROVE  Index(env, s) = i
<1>1. Index(env, s) # 0 /\ Index(env, s) \in 0..Len(env.symbols)
  BY IndexProperties
<1>2. Index(env, s) <= i /\ env.symbols[Index(env, s)] = s
  BY <1>1, IndexProperties
<1>3. ~(Index(env, s) \in 1..(i - 1))
  BY <1>2
<1> QED BY <1>1, <1>2, <1>3

LEMMA FindUnfolds ==
  ASSUME NEW es, NEW e, NEW s
  PROVE  find_value(es, e, s) =
           IF value(es, special_forms, s) # NULL THEN value(es, special_forms, s)
           ELSE IF value(es, e, s) # NULL THEN value(es, e, s)
           ELSE IF value(es, toplevel, s) # NULL THEN value(es, toplevel, s)
           ELSE IF value(es, lib, s) # NULL THEN value(es, lib, s)
           ELSE IF value(es, primitives, s) # NULL THEN value(es, primitives, s)
           ELSE Undefined
<1> DEFINE L == LookupOrder(e)
           I == {i \in 1..Len(L) : value(es, L[i], s) # NULL}
           i == SelectInSeq(L, LAMBDA k : value(es, k, s) # NULL)
<1>1. /\ Len(L) = 5 /\ L[1] = special_forms /\ L[2] = e /\ L[3] = toplevel /\ L[4] = lib
      /\ L[5] = primitives
  BY DEF LookupOrder
<1>2. i = IF I # {} THEN Min(I) ELSE 0
  BY DEF SelectInSeq
<1>3. find_value(es, e, s) = IF i = 0 THEN Undefined ELSE value(es, L[i], s)
  BY DEF find_value
<1> HIDE DEF L, i
<1>4. CASE I = {}
  <2>1. \A k \in 1..5 : value(es, L[k], s) = NULL
    BY <1>1, <1>4
  <2> QED BY <1>1, <1>2, <1>3, <1>4, <2>1
<1>5. CASE I # {}
  <2>1. I \in SUBSET Nat
    BY <1>1
  <2>2. Min(I) \in I /\ \A j \in I : Min(I) <= j
    BY <1>5, <2>1, MinProperties
  <2>3. i \in 1..5 /\ value(es, L[i], s) # NULL
    BY <1>1, <1>2, <1>5, <2>2
  <2>4. \A j \in 1..5 : j < i => value(es, L[j], s) = NULL
    BY <1>1, <1>2, <1>5, <2>2
  <2> QED BY <1>1, <1>3, <2>3, <2>4
<1> QED BY <1>4, <1>5

(* Environments that are left alone, with all those around them, go on to  *)
(* give what they gave.                                                    *)
LEMMA ValueStays ==
  ASSUME NEW es, NEW fs, NEW s, Ordered(es), Ordered(fs), Len(es) <= Len(fs),
         NEW C \in SUBSET (0..Len(es)),
         \A e \in C : e # 0 => fs[e] = es[e] /\ es[e].parent \in C
  PROVE  \A e \in C : value(fs, e, s) = value(es, e, s)
<1> DEFINE Bad == {e \in C : value(fs, e, s) # value(es, e, s)}
<1>1. SUFFICES ASSUME Bad # {} PROVE FALSE
  OBVIOUS
<1>2. Bad \in SUBSET Nat /\ Len(es) \in Nat /\ Len(fs) \in Nat
  <2>1. Len(es) \in Nat /\ Len(fs) \in Nat
    BY DEF Ordered
  <2>2. \A e \in C : e \in Nat
    BY <2>1
  <2>3. Bad \subseteq C
    OBVIOUS
  <2> QED BY <2>1, <2>2, <2>3
<1>3. PICK e \in Bad : \A d \in Bad : e <= d
  BY <1>1, <1>2, LeastElement
<1>4. e \in 0..Len(es) /\ e \in 0..Len(fs)
  BY <1>2
<1>5. CASE e = 0
  BY <1>3, <1>4, <1>5, ValueUnfolds
<1>6. CASE e # 0
  <2>1. fs[e] = es[e] /\ es[e].parent \in C
    BY <1>3, <1>6
  <2>2. es[e].parent \in 0..(e - 1)
    BY <1>4, <1>6 DEF Ordered
  <2>3. value(fs, es[e].parent, s) = value(es, es[e].parent, s)
    BY <1>3, <1>4, <2>1, <2>2
  <2> QED BY <1>3, <1>4, <1>6, <2>1, <2>3, ValueUnfolds
<1> QED BY <1>5, <1>6

-----------------------------------------------------------------------------
(***************************************************************************)
(* The inductive invariant.                                                *)
(***************************************************************************)
(* Where code runs, of n environments: in none, in the internal one, or in *)
(* that of a call.                                                         *)
CodeEnvs(n) == {0, internal} \cup 6..n

Values(n) ==
  {v \in [kind : {"NULL", "error", "datum", "primitive", "function"},
           env : 0..n, syms : Seq(Symbols)] : v.kind = "function" => v.env \in CodeEnvs(n)}

Environs(n) == [parent : CodeEnvs(n), symbols : Seq(Symbols), values : Seq(Values(n))]

EnvsOK ==
  /\ envs \in Seq(Environs(Len(envs))) /\ Len(envs) >= 5
  /\ \A e \in 1..Len(envs) : Len(envs[e].values) = Len(envs[e].symbols)
  /\ \A e \in 1..Len(envs) : IF e <= 5 THEN envs[e].parent = 0 ELSE envs[e].parent < e
  /\ envs[special_forms] = Declared(Specials)

RunOK ==
  /\ active \in Seq(CodeEnvs(Len(envs))) /\ (Running => active # <<>>)
  /\ held \in Seq(SUBSET Values(Len(envs))) /\ Len(held) = Len(active)
  /\ phase \in {"boot", "repl", "exited", "destroyed"}

(* What the last definition has bound is the newest binding.               *)
DefinitionIsNewest ==
  op.do = "bind" /\ op.env = toplevel =>
    /\ envs[toplevel].symbols # <<>>
    /\ envs[toplevel].symbols[1] = op.syms[1] /\ envs[toplevel].values[1] = op.vals[1]

IInv == EnvsOK /\ RunOK /\ DefinitionIsNewest /\ FreedOnce

-----------------------------------------------------------------------------
(***************************************************************************)
(* Types.                                                                  *)
(***************************************************************************)
LEMMA ValuesGrow ==
  ASSUME NEW m \in Nat, NEW n \in Nat, m <= n
  PROVE  /\ CodeEnvs(m) \subseteq CodeEnvs(n) /\ Values(m) \subseteq Values(n)
         /\ Environs(m) \subseteq Environs(n)
<1>1. CodeEnvs(m) \subseteq CodeEnvs(n) /\ 0..m \subseteq 0..n
  BY DEF CodeEnvs
<1>2. Values(m) \subseteq Values(n)
  BY <1>1 DEF Values
<1>3. Seq(Values(m)) \subseteq Seq(Values(n))
  BY <1>2, SeqMonotonic
<1> QED BY <1>1, <1>2, <1>3 DEF Environs

LEMMA SomeValues ==
  ASSUME NEW n \in Nat
  PROVE  /\ NULL \in Values(n) /\ Undefined \in Values(n) /\ Datum \in Values(n)
         /\ \A s \in Symbols : Primitive(s) \in Values(n)
         /\ \A e \in CodeEnvs(n), ps \in ParamLists :
              e \in 0..n => Lambda(e, ps) \in Values(n)
<1>1. <<>> \in Seq(Symbols) /\ \A s \in Symbols : <<s>> \in Seq(Symbols)
  OBVIOUS
<1> QED
  BY <1>1, EnvironmentAssumption DEF Values, NULL, Undefined, Datum, Primitive, Lambda

LEMMA EnvsFields ==
  ASSUME EnvsOK
  PROVE  /\ Len(envs) \in Nat /\ DOMAIN envs = 1..Len(envs) /\ Ordered(envs)
         /\ \A e \in 1..Len(envs) :
              /\ envs[e] \in Environs(Len(envs)) /\ envs[e].parent \in CodeEnvs(Len(envs))
              /\ envs[e].symbols \in Seq(Symbols) /\ envs[e].values \in Seq(Values(Len(envs)))
              /\ Len(envs[e].symbols) \in Nat /\ Len(envs[e].values) = Len(envs[e].symbols)
<1>1. Len(envs) \in Nat /\ DOMAIN envs = 1..Len(envs)
  BY DEF EnvsOK
<1>2. ASSUME NEW e \in 1..Len(envs)
      PROVE  /\ envs[e] \in Environs(Len(envs)) /\ envs[e].parent \in CodeEnvs(Len(envs))
             /\ envs[e].symbols \in Seq(Symbols) /\ envs[e].values \in Seq(Values(Len(envs)))
  <2>1. envs[e] \in Environs(Len(envs))
    BY DEF EnvsOK
  <2> QED BY <2>1 DEF Environs
<1>3. \A e \in 1..Len(envs) : envs[e].parent \in 0..(e - 1)
  BY <1>1, <1>2 DEF EnvsOK, CodeEnvs, internal
<1> QED BY <1>1, <1>2, <1>3 DEF Ordered, EnvsOK

LEMMA ValueType ==
  ASSUME EnvsOK, NEW s
  PROVE  \A e \in 0..Len(envs) : value(envs, e, s) \in Values(Len(envs))
<1> DEFINE Bad == {e \in 0..Len(envs) : value(envs, e, s) \notin Values(Len(envs))}
<1>1. SUFFICES ASSUME Bad # {} PROVE FALSE
  OBVIOUS
<1>2. Len(envs) \in Nat /\ Bad \in SUBSET Nat /\ Ordered(envs)
  BY EnvsFields
<1>3. PICK e \in Bad : \A d \in Bad : e <= d
  BY <1>1, <1>2, LeastElement
<1>4. CASE e = 0
  BY <1>2, <1>3, <1>4, ValueUnfolds, SomeValues
<1>5. CASE e # 0
  <2>1. e \in 1..Len(envs)
    BY <1>2, <1>3, <1>5
  <2> DEFINE i == Index(envs[e], s)
  <2>2. CASE i > 0
    <3>1. i \in 1..Len(envs[e].values) /\ envs[e].values \in Seq(Values(Len(envs)))
      BY <2>1, <2>2, EnvsFields, IndexProperties
    <3>2. envs[e].values[i] \in Values(Len(envs))
      BY <3>1
    <3> QED BY <1>2, <1>3, <1>5, <2>2, <3>2, ValueUnfolds
  <2>3. CASE ~(i > 0)
    <3>1. envs[e].parent \in 0..(e - 1)
      BY <1>2, <2>1 DEF Ordered
    <3>2. value(envs, envs[e].parent, s) \in Values(Len(envs))
      BY <1>2, <1>3, <2>1, <3>1
    <3> QED BY <1>2, <1>3, <1>5, <2>3, <3>2, ValueUnfolds
  <2> QED BY <2>2, <2>3
<1> QED BY <1>4, <1>5

LEMMA FindType ==
  ASSUME EnvsOK, NEW s, NEW e \in 0..Len(envs)
  PROVE  find_value(envs, e, s) \in Values(Len(envs))
<1>1. Len(envs) \in Nat /\ Len(envs) >= 5
  BY EnvsFields DEF EnvsOK
<1>2. \A g \in {special_forms, e, toplevel, lib, primitives} :
        value(envs, g, s) \in Values(Len(envs))
  BY <1>1, ValueType DEF special_forms, toplevel, lib, primitives
<1>3. Undefined \in Values(Len(envs))
  BY <1>1, SomeValues
<1> QED BY <1>2, <1>3, FindUnfolds

(* Where the program is, and what it may pass on there.                    *)
LEMMA RunFields ==
  ASSUME EnvsOK, RunOK, Running
  PROVE  /\ cur \in CodeEnvs(Len(envs)) /\ cur \in 0..Len(envs)
         /\ \A v \in Available : v \in Values(Len(envs))
<1>1. Len(envs) \in Nat /\ Len(envs) >= 5
  BY EnvsFields DEF EnvsOK
<1>2. CodeEnvs(Len(envs)) \subseteq 0..Len(envs)
  BY <1>1 DEF CodeEnvs, internal
<1>3. cur \in CodeEnvs(Len(envs))
  <2>1. active \in Seq(CodeEnvs(Len(envs))) /\ active # <<>>
    BY DEF RunOK
  <2>2. Len(active) \in 1..Len(active)
    BY <2>1
  <2> QED BY <2>1, <2>2 DEF cur
<1>4. ASSUME NEW v \in Available
      PROVE  v \in Values(Len(envs))
  <2>1. CASE v \in {Datum, NULL}
    BY <1>1, <2>1, SomeValues
  <2>4. CASE v \in Returned
    <3>1. Len(held) \in 1..Len(held) /\ held \in Seq(SUBSET Values(Len(envs)))
      BY DEF RunOK
    <3> QED BY <2>4, <3>1 DEF Returned
  <2>2. CASE v \in {find_value(envs, cur, s) : s \in Symbols}
    BY <1>2, <1>3, <2>2, FindType
  <2>3. CASE v \in {Lambda(cur, ps) : ps \in ParamLists}
    BY <1>1, <1>2, <1>3, <2>3, SomeValues
  <2> QED BY <2>1, <2>2, <2>3, <2>4 DEF Available
<1> QED BY <1>2, <1>3, <1>4

-----------------------------------------------------------------------------
(***************************************************************************)
(* What the steps make of the environments.                                *)
(***************************************************************************)
(* Each name is bound once, to the primitive of that name.                 *)
LEMMA DeclaredProperties ==
  ASSUME NEW names \in {Specials, Primitives, Internals}, NEW n \in Nat
  PROVE  LET d == Declared(names)
         IN  /\ d \in Environs(n) /\ d.parent = 0
             /\ Len(d.symbols) \in Nat /\ Len(d.values) = Len(d.symbols)
             /\ \A i \in 1..Len(d.symbols) :
                  d.symbols[i] \in names /\ d.values[i] = Primitive(d.symbols[i])
             /\ \A s \in names : \E i \in 1..Len(d.symbols) : d.symbols[i] = s
<1> DEFINE m == Cardinality(names)
           f == SetToSeq(names)
           g == [i \in DOMAIN f |-> Primitive(f[i])]
<1>1. IsFiniteSet(names) /\ names \subseteq Symbols
  BY EnvironmentAssumption DEF Symbols
<1>2. m \in Nat /\ ExistsBijection(1..m, names)
  BY <1>1, FS_CardinalityType
<1>3. f \in [1..m -> names] /\ IsInjective(f)
  <2>1. \E h \in [1..m -> names] : IsInjective(h)
    BY <1>2 DEF ExistsBijection, Bijection, Injection
  <2> QED BY <2>1 DEF SetToSeq
<1>4. f \in Surjection(1..m, names)
  <2>1. f \in Injection(1..m, names)
    BY <1>3 DEF Injection
  <2>2. IsFiniteSet(1..m) /\ Cardinality(1..m) = m
    BY <1>2, FS_Interval
  <2> QED BY <1>1, <2>1, <2>2, FS_Injection
<1>5. \A s \in names : \E i \in 1..m : f[i] = s
  BY <1>3, <1>4 DEF Surjection
<1> HIDE DEF f
<1>6. f \in Seq(Symbols) /\ Len(f) = m /\ DOMAIN f = 1..m
  BY <1>1, <1>2, <1>3
<1>7. \A i \in 1..m : Primitive(f[i]) \in Values(n)
  BY <1>1, <1>3, SomeValues
<1>8. g \in Seq(Values(n)) /\ Len(g) = m /\ \A i \in 1..m : g[i] = Primitive(f[i])
  BY <1>2, <1>6, <1>7
<1>9. Declared(names) = [parent |-> 0, symbols |-> f, values |-> g]
  BY DEF Declared, f
<1> HIDE DEF g
<1>10. Declared(names) \in Environs(n)
  BY <1>6, <1>8, <1>9 DEF Environs, CodeEnvs
<1> QED BY <1>2, <1>3, <1>5, <1>6, <1>8, <1>9, <1>10

LEMMA InitIInv == Init => IInv
<1> SUFFICES ASSUME Init PROVE IInv
  OBVIOUS
<1> DEFINE E == create_empty_environment
<1>1. /\ envs = <<Declared(Specials), E, Declared(Primitives), Declared(Internals), E>>
      /\ active = <<internal>> /\ held = << {} >> /\ phase = "boot" /\ op = NoOp
  BY DEF Init, Globals_Created
<1>2. E \in Environs(5) /\ E.parent = 0 /\ Len(E.values) = Len(E.symbols)
  <2>1. <<>> \in Seq(Symbols) /\ <<>> \in Seq(Values(5))
    OBVIOUS
  <2> QED BY <2>1 DEF create_empty_environment, Environs, CodeEnvs
<1>3. \A names \in {Specials, Primitives, Internals} :
        LET d == Declared(names)
        IN  d \in Environs(5) /\ d.parent = 0 /\ Len(d.values) = Len(d.symbols)
  BY DeclaredProperties
<1> HIDE DEF E
<1>4. envs \in Seq(Environs(5)) /\ Len(envs) = 5
  BY <1>1, <1>2, <1>3
<1>5. \A e \in 1..5 : envs[e].parent = 0 /\ Len(envs[e].values) = Len(envs[e].symbols)
  BY <1>1, <1>2, <1>3
<1>6. EnvsOK
  BY <1>1, <1>4, <1>5 DEF EnvsOK, special_forms
<1>7. RunOK
  <2>1. internal \in CodeEnvs(5) /\ NULL \in Values(5)
    BY SomeValues DEF CodeEnvs
  <2>2. active \in Seq(CodeEnvs(5)) /\ active # <<>>
    BY <1>1, <2>1
  <2>3. held \in Seq(SUBSET Values(5)) /\ Len(held) = Len(active)
    BY <1>1
  <2> QED BY <1>1, <1>4, <2>2, <2>3 DEF RunOK
<1> QED BY <1>1, <1>6, <1>7 DEF IInv, DefinitionIsNewest, FreedOnce, NoOp

LEMMA ReverseProperties ==
  ASSUME NEW S, NEW s \in Seq(S)
  PROVE  /\ Reverse(s) \in Seq(S) /\ Len(Reverse(s)) = Len(s)
         /\ \A i \in 1..Len(s) : Reverse(s)[i] = s[Len(s) + 1 - i]
<1>1. \A i \in 1..Len(s) : Len(s) - i + 1 \in 1..Len(s) /\ Len(s) - i + 1 = Len(s) + 1 - i
  OBVIOUS
<1>2. Reverse(s) = [i \in 1..Len(s) |-> s[Len(s) - i + 1]]
  BY DEF Reverse
<1> QED BY <1>1, <1>2

LEMMA ExtendEmpty ==
  ASSUME NEW S, NEW V, NEW P, NEW e \in P, NEW syms \in Seq(S), NEW vals \in Seq(V)
  PROVE  LET new == extend(e, create_empty_environment, syms, vals)
         IN  /\ new \in [parent : P, symbols : Seq(S), values : Seq(V)]
             /\ new.parent = e /\ new.symbols = Reverse(syms) /\ new.values = Reverse(vals)
<1> DEFINE ss == Reverse(syms)  vs == Reverse(vals)
           E  == create_empty_environment
<1>1. ss \in Seq(S) /\ vs \in Seq(V)
  BY ReverseProperties
<1>2. ss \o <<>> = ss /\ vs \o <<>> = vs
  BY <1>1, ConcatEmptySeq
<1>3. E \in [parent : {0}, symbols : {<<>>}, values : {<<>>}]
  BY DEF create_empty_environment
<1>4. extend(e, E, syms, vals)
        = [E EXCEPT !.parent = e, !.symbols = ss \o E.symbols, !.values = vs \o E.values]
  BY DEF extend
<1> HIDE DEF ss, vs, E
<1>5. E.symbols = <<>> /\ E.values = <<>>
  BY <1>3
<1>6. extend(e, E, syms, vals) = [E EXCEPT !.parent = e, !.symbols = ss, !.values = vs]
  BY <1>2, <1>4, <1>5, Zenon
<1>7. /\ extend(e, E, syms, vals) \in [parent : P, symbols : Seq(S), values : Seq(V)]
      /\ extend(e, E, syms, vals).parent = e
      /\ extend(e, E, syms, vals).symbols = ss /\ extend(e, E, syms, vals).values = vs
  BY <1>1, <1>3, <1>6
<1> QED BY <1>7 DEF ss, vs, E

(* A call makes an environment of its own, and changes no other.           *)
LEMMA CallMakesOne ==
  ASSUME EnvsOK, RunOK, invoke
  PROVE  \E f \in Available : \E args \in [DOMAIN f.syms -> Passed] :
           \E new \in Environs(Len(envs) + 1) :
               /\ envs' = Append(envs, new) /\ new.parent = f.env
               /\ new.symbols = Reverse(f.syms) /\ new.values = Reverse(args)
               /\ op' = [do |-> "call", env |-> f.env, syms |-> f.syms, vals |-> args]
               /\ f.syms \in Seq(Symbols) /\ args \in Seq(Values(Len(envs) + 1)) /\ Len(args) = Len(f.syms)
               /\ f.env \in CodeEnvs(Len(envs)) /\ f.env \in 0..Len(envs)
<1>1. /\ Running /\ \E f \in Available : f.kind = "function" /\
           \E args \in [DOMAIN f.syms -> Passed] :
            /\ envs' = Append(envs, extend(f.env, create_empty_environment, f.syms, args))
            /\ op' = [do |-> "call", env |-> f.env, syms |-> f.syms, vals |-> args]
  BY DEF invoke
<1>2. PICK f \in Available : f.kind = "function" /\
           \E args \in [DOMAIN f.syms -> Passed] :
            /\ envs' = Append(envs, extend(f.env, create_empty_environment, f.syms, args))
            /\ op' = [do |-> "call", env |-> f.env, syms |-> f.syms, vals |-> args]
  BY <1>1
<1>3. PICK args \in [DOMAIN f.syms -> Passed] :
            /\ envs' = Append(envs, extend(f.env, create_empty_environment, f.syms, args))
            /\ op' = [do |-> "call", env |-> f.env, syms |-> f.syms, vals |-> args]
  BY <1>2
<1>4. Len(envs) \in Nat
  BY EnvsFields
<1>5. f \in Values(Len(envs)) /\ \A v \in Passed : v \in Values(Len(envs) + 1)
  <2>1. \A v \in Available : v \in Values(Len(envs))
    BY <1>1, RunFields
  <2>2. Values(Len(envs)) \subseteq Values(Len(envs) + 1)
    BY <1>4, ValuesGrow
  <2> QED BY <2>1, <2>2 DEF Passed
<1>6. f.syms \in Seq(Symbols) /\ f.env \in CodeEnvs(Len(envs)) /\ f.env \in 0..Len(envs)
  BY <1>2, <1>5 DEF Values
<1>7. args \in [1..Len(f.syms) -> Values(Len(envs) + 1)]
  BY <1>5, <1>6
<1>8. args \in Seq(Values(Len(envs) + 1)) /\ Len(args) = Len(f.syms)
  BY <1>6, <1>7
<1> DEFINE new == extend(f.env, create_empty_environment, f.syms, args)
<1>9. new \in Environs(Len(envs) + 1)
  <2>1. f.env \in CodeEnvs(Len(envs) + 1)
    BY <1>4, <1>6, ValuesGrow
  <2>2. new \in [parent : CodeEnvs(Len(envs) + 1), symbols : Seq(Symbols),
                 values : Seq(Values(Len(envs) + 1))]
    BY <1>6, <1>8, <2>1, ExtendEmpty
  <2> QED BY <2>2 DEF Environs
<1>10. new.parent = f.env /\ new.symbols = Reverse(f.syms) /\ new.values = Reverse(args)
  BY <1>6, <1>8, ExtendEmpty
<1> HIDE DEF new
<1>11. envs' = Append(envs, new)
  BY <1>3 DEF new
<1> QED BY <1>3, <1>6, <1>8, <1>9, <1>10, <1>11

(* A binding changes one of the environments of definitions, in front.     *)
LEMMA AddToChangesOne ==
  ASSUME EnvsOK, NEW e \in {toplevel, internal, lib}, NEW s \in Symbols,
         NEW v \in Values(Len(envs)), AddTo(e, s, v)
  PROVE  /\ envs' \in Seq(Environs(Len(envs))) /\ Len(envs') = Len(envs)
         /\ \A d \in 1..Len(envs) : d # e => envs'[d] = envs[d]
         /\ envs'[e].parent = envs[e].parent
         /\ envs'[e].symbols = <<s>> \o envs[e].symbols
         /\ envs'[e].values = <<v>> \o envs[e].values
<1> DEFINE new == add_to_environment(envs[e], s, v)
<1>1. Len(envs) \in Nat /\ e \in 1..Len(envs) /\ envs \in Seq(Environs(Len(envs)))
  BY EnvsFields DEF EnvsOK, toplevel, internal, lib
<1>2. /\ envs[e] \in [parent : CodeEnvs(Len(envs)), symbols : Seq(Symbols),
                      values : Seq(Values(Len(envs)))]
      /\ envs[e].symbols \in Seq(Symbols) /\ envs[e].values \in Seq(Values(Len(envs)))
  BY <1>1, EnvsFields DEF Environs
<1> DEFINE ss == <<s>> \o envs[e].symbols
           vs == <<v>> \o envs[e].values
<1>3. ss \in Seq(Symbols) /\ vs \in Seq(Values(Len(envs)))
  BY <1>2
<1>4. new = [envs[e] EXCEPT !.symbols = ss, !.values = vs]
  BY DEF add_to_environment
<1>5. envs' = [envs EXCEPT ![e] = new]
  BY DEF AddTo
<1> HIDE DEF ss, vs, new
<1>6. /\ new \in [parent : CodeEnvs(Len(envs)), symbols : Seq(Symbols),
                  values : Seq(Values(Len(envs)))]
      /\ new.parent = envs[e].parent /\ new.symbols = ss /\ new.values = vs
  BY <1>2, <1>3, <1>4
<1>7. new \in Environs(Len(envs))
  BY <1>6 DEF Environs
<1>8. /\ envs' \in Seq(Environs(Len(envs))) /\ Len(envs') = Len(envs)
      /\ \A d \in 1..Len(envs) : d # e => envs'[d] = envs[d]
      /\ envs'[e] = new
  BY <1>1, <1>5, <1>7, ExceptSeq
<1> QED BY <1>6, <1>8 DEF ss, vs

LEMMA AddToPreserves ==
  ASSUME IInv, Running, NEW e \in {toplevel, internal, lib}, NEW s \in Symbols,
         NEW v \in Values(Len(envs)), AddTo(e, s, v),
         held' \in Seq(SUBSET Values(Len(envs))), Len(held') = Len(active)
  PROVE  IInv'
<1>1. /\ Len(envs) \in Nat /\ Len(envs) >= 5 /\ e \in 1..Len(envs) /\ e # special_forms
      /\ Len(envs[e].symbols) \in Nat /\ Len(envs[e].values) = Len(envs[e].symbols)
      /\ envs[e].symbols \in Seq(Symbols) /\ envs[e].values \in Seq(Values(Len(envs)))
  <2>1. Len(envs) \in Nat /\ Len(envs) >= 5 /\ e \in 1..Len(envs) /\ e # special_forms
    BY EnvsFields DEF IInv, EnvsOK, toplevel, internal, lib, special_forms
  <2> QED BY <2>1, EnvsFields DEF IInv
<1>2. /\ envs' \in Seq(Environs(Len(envs))) /\ Len(envs') = Len(envs)
      /\ \A d \in 1..Len(envs) : d # e => envs'[d] = envs[d]
      /\ envs'[e].parent = envs[e].parent
      /\ envs'[e].symbols = <<s>> \o envs[e].symbols
      /\ envs'[e].values = <<v>> \o envs[e].values
  BY AddToChangesOne DEF IInv
<1>3. /\ Len(envs'[e].values) = Len(envs'[e].symbols) /\ envs'[e].symbols # <<>>
      /\ envs'[e].symbols[1] = s /\ envs'[e].values[1] = v
  BY <1>1, <1>2
<1>4. EnvsOK'
  <2>1. ASSUME NEW d \in 1..Len(envs)
        PROVE  /\ Len(envs'[d].values) = Len(envs'[d].symbols)
               /\ IF d <= 5 THEN envs'[d].parent = 0 ELSE envs'[d].parent < d
    BY <1>2, <1>3 DEF IInv, EnvsOK
  <2>2. special_forms \in 1..Len(envs)
    BY <1>1 DEF special_forms
  <2>3. envs'[special_forms] = Declared(Specials)
    BY <1>1, <1>2, <2>2 DEF IInv, EnvsOK
  <2> QED BY <1>1, <1>2, <2>1, <2>3 DEF EnvsOK
<1>5. RunOK'
  BY <1>2 DEF AddTo, IInv, RunOK, Running
<1>6. DefinitionIsNewest'
  <2>1. op' = [do |-> "bind", env |-> e, syms |-> <<s>>, vals |-> <<v>>]
    BY DEF AddTo
  <2>2. op'.env = e /\ op'.syms[1] = s /\ op'.vals[1] = v
    BY <2>1
  <2> QED BY <1>3, <2>2 DEF DefinitionIsNewest
<1>7. FreedOnce'
  BY DEF AddTo, Running, FreedOnce
<1> QED BY <1>4, <1>5, <1>6, <1>7 DEF IInv

LEMMA invoke_Preserves ==
  ASSUME IInv, invoke
  PROVE  IInv'
<1> DEFINE n == Len(envs) + 1
<1>1. PICK f \in Available : \E args \in [DOMAIN f.syms -> Passed] : \E new \in Environs(n) :
               /\ envs' = Append(envs, new) /\ new.parent = f.env
               /\ new.symbols = Reverse(f.syms) /\ new.values = Reverse(args)
               /\ f.syms \in Seq(Symbols) /\ args \in Seq(Values(n)) /\ Len(args) = Len(f.syms)
               /\ f.env \in 0..Len(envs)
  BY CallMakesOne DEF IInv
<1>2. PICK args \in [DOMAIN f.syms -> Passed], new \in Environs(n) :
               /\ envs' = Append(envs, new) /\ new.parent = f.env
               /\ new.symbols = Reverse(f.syms) /\ new.values = Reverse(args)
               /\ f.syms \in Seq(Symbols) /\ args \in Seq(Values(n)) /\ Len(args) = Len(f.syms)
               /\ f.env \in 0..Len(envs)
  BY <1>1
<1>3. Len(envs) \in Nat /\ Len(envs) >= 5
  BY EnvsFields DEF IInv, EnvsOK
<1>4. CodeEnvs(Len(envs)) \subseteq CodeEnvs(n) /\ Environs(Len(envs)) \subseteq Environs(n)
  BY <1>3, ValuesGrow
<1>5. /\ envs' \in Seq(Environs(n)) /\ Len(envs') = n /\ envs'[n] = new
      /\ \A e \in 1..Len(envs) : envs'[e] = envs[e]
  <2>1. envs \in Seq(Environs(n))
    BY <1>4, SeqMonotonic DEF IInv, EnvsOK
  <2> QED BY <1>2, <2>1
<1>6. EnvsOK'
  <2>1. ASSUME NEW e \in 1..n
        PROVE  /\ Len(envs'[e].values) = Len(envs'[e].symbols)
               /\ IF e <= 5 THEN envs'[e].parent = 0 ELSE envs'[e].parent < e
    <3>1. CASE e = n
      <4>1. Len(new.values) = Len(new.symbols)
        BY <1>2, ReverseProperties
      <4> QED BY <1>2, <1>3, <1>5, <3>1, <4>1
    <3>2. CASE e # n
      <4>1. e \in 1..Len(envs)
        BY <1>3, <3>2
      <4> QED BY <1>5, <4>1 DEF IInv, EnvsOK
    <3> QED BY <3>1, <3>2
  <2>2. envs'[special_forms] = Declared(Specials)
    BY <1>3, <1>5 DEF IInv, EnvsOK, special_forms
  <2> QED BY <1>3, <1>5, <2>1, <2>2 DEF EnvsOK
<1>7. RunOK'
  <2>1. active' = Append(active, n) /\ held' = Append(held, {}) /\ phase' = phase
    BY <1>5 DEF invoke
  <2>2. active \in Seq(CodeEnvs(n)) /\ n \in CodeEnvs(n)
    BY <1>3, <1>4, SeqMonotonic DEF IInv, RunOK, CodeEnvs
  <2>3. active' \in Seq(CodeEnvs(n)) /\ active' # <<>>
    BY <2>1, <2>2
  <2>4. held' \in Seq(SUBSET Values(n)) /\ Len(held') = Len(active')
    <3>1. held \in Seq(SUBSET Values(n)) /\ Len(held) = Len(active)
      <4>1. SUBSET Values(Len(envs)) \subseteq SUBSET Values(n)
        BY <1>3, ValuesGrow
      <4> QED BY <4>1, SeqMonotonic DEF IInv, RunOK
    <3> QED BY <2>1, <2>2, <3>1
  <2> QED BY <1>5, <2>1, <2>3, <2>4 DEF IInv, RunOK
<1>8. DefinitionIsNewest' /\ FreedOnce'
  <2>1. op'.do = "call"
    BY DEF invoke
  <2> QED BY <2>1 DEF invoke, Running, DefinitionIsNewest, FreedOnce
<1> QED BY <1>6, <1>7, <1>8 DEF IInv

(* The steps that change no environment.                                   *)
LEMMA AlonePreserves ==
  ASSUME IInv, UNCHANGED envs, RunOK', op' = NoOp, FreedOnce'
  PROVE  IInv'
<1>1. EnvsOK'
  BY DEF IInv, EnvsOK
<1> QED BY <1>1 DEF IInv, DefinitionIsNewest, NoOp

LEMMA return_Preserves ==
  ASSUME IInv, return
  PROVE  IInv'
<1>1. /\ active' = Front(active) /\ Len(active) > 1 /\ op' = NoOp
      /\ \E v \in Available :
           held' = [Front(held) EXCEPT ![Len(held) - 1] = @ \cup ({v} \ {Datum, NULL})]
      /\ Running /\ UNCHANGED <<envs, phase, freed>>
  BY DEF return
<1>2. /\ active' \in Seq(CodeEnvs(Len(envs))) /\ active' # <<>>
      /\ Len(active') = Len(active) - 1
  <2>1. active \in Seq(CodeEnvs(Len(envs)))
    BY DEF IInv, RunOK
  <2>2. active' = SubSeq(active, 1, Len(active) - 1)
    BY <1>1, <2>1 DEF Front
  <2>3. Len(active) \in Nat /\ Len(active) - 1 \in 1..Len(active)
    BY <1>1, <2>1
  <2>4. active' \in Seq(CodeEnvs(Len(envs))) /\ Len(active') = Len(active) - 1
    BY <2>1, <2>2, <2>3
  <2> QED BY <2>3, <2>4
<1>3. held' \in Seq(SUBSET Values(Len(envs))) /\ Len(held') = Len(active')
  <2> DEFINE V == SUBSET Values(Len(envs))
             m == Len(held) - 1
             f == SubSeq(held, 1, m)
  <2>1. held \in Seq(V) /\ Len(held) = Len(active) /\ m \in 1..Len(held)
    BY <1>1 DEF IInv, RunOK
  <2>2. PICK v \in Available :
          held' = [Front(held) EXCEPT ![Len(held) - 1] = @ \cup ({v} \ {Datum, NULL})]
    BY <1>1
  <2>3. held' = [f EXCEPT ![m] = @ \cup ({v} \ {Datum, NULL})]
    BY <2>2 DEF Front
  <2>4. v \in Values(Len(envs))
    BY <1>1, <2>2, RunFields DEF IInv
  <2> HIDE DEF m
  <2>5. f \in Seq(V) /\ Len(f) = m /\ m \in 1..Len(f) /\ f[m] \in V
    BY <2>1
  <2> HIDE DEF f
  <2>6. held' = [f EXCEPT ![m] = f[m] \cup ({v} \ {Datum, NULL})]
    BY <2>3
  <2>7. f[m] \cup ({v} \ {Datum, NULL}) \in V
    BY <2>4, <2>5
  <2> HIDE DEF V
  <2>8. held' \in Seq(V) /\ Len(held') = m
    BY <2>5, <2>6, <2>7, ExceptSeq
  <2> QED BY <1>2, <2>1, <2>8 DEF V, m
<1>4. RunOK'
  BY <1>1, <1>2, <1>3 DEF IInv, RunOK
<1>5. FreedOnce'
  BY <1>1 DEF IInv, FreedOnce
<1> QED BY <1>1, <1>4, <1>5, AlonePreserves

(* Between forms, one environment is active, and nothing has been returned.*)
LEMMA AtBasePreserves ==
  ASSUME IInv, UNCHANGED <<envs, freed>>, op' = NoOp, held' = << {} >>,
         active' \in {<<internal>>, << 0 >>}, phase' \in {"boot", "repl", "exited"}
  PROVE  IInv'
<1>1. Len(envs) \in Nat
  BY EnvsFields DEF IInv
<1>2. /\ <<internal>> \in Seq(CodeEnvs(Len(envs))) /\ <<0>> \in Seq(CodeEnvs(Len(envs)))
      /\ <<internal>> # <<>> /\ <<0>> # <<>> /\ Len(<<internal>>) = 1 /\ Len(<<0>>) = 1
  BY DEF CodeEnvs
<1>3. RunOK'
  <2>1. active' \in Seq(CodeEnvs(Len(envs'))) /\ active' # <<>> /\ Len(active') = 1
    BY <1>2
  <2>2. held' \in Seq(SUBSET Values(Len(envs'))) /\ Len(held') = 1
    OBVIOUS
  <2> QED BY <2>1, <2>2 DEF RunOK
<1>4. FreedOnce'
  BY DEF FreedOnce
<1> QED BY <1>3, <1>4, AlonePreserves

LEMMA form_ends_Preserves ==
  ASSUME IInv, form_ends
  PROVE  IInv'
<1>1. active' \in {<<internal>>, <<0>>} /\ phase' \in {"boot", "repl", "exited"}
  BY DEF form_ends, Base, Running
<1> QED BY <1>1, AtBasePreserves DEF form_ends

LEMMA load_lib_scm_Preserves ==
  ASSUME IInv, load_lib_scm
  PROVE  IInv'
BY AtBasePreserves DEF load_lib_scm

LEMMA prim_define_Preserves ==
  ASSUME IInv, prim_define
  PROVE  IInv'
<1>1. PICK s \in BoundNames, v \in Available : AddTo(toplevel, s, v)
  BY DEF prim_define
<1>2. Running /\ Len(active) = 1
  BY DEF prim_define
<1>3. s \in Symbols /\ v \in Values(Len(envs))
  BY <1>2, EnvironmentAssumption, RunFields DEF IInv
<1>4. held' \in Seq(SUBSET Values(Len(envs))) /\ Len(held') = Len(active)
  <2>1. held' = << {} >>
    BY DEF prim_define
  <2> QED BY <1>2, <2>1
<1> QED BY <1>1, <1>2, <1>3, <1>4, AddToPreserves

LEMMA prim_definternal_Binds ==
  ASSUME EnvsOK, RunOK, prim_definternal
  PROVE  \E e \in {internal, lib}, s \in Symbols, v \in Values(Len(envs)) :
           AddTo(e, s, v) /\ held' = [held EXCEPT ![Len(held)] = @ \cup ({v} \ {Datum, NULL})]
<1>1. PICK p \in Internals \cap {"definternal", "deflibrary"}, s \in BoundNames,
           v \in {NULL} \cup {Lambda(IF cur = 0 THEN internal ELSE cur, ps) : ps \in ParamLists} :
        /\ AddTo(IF p = "definternal" THEN internal ELSE lib, s, v)
        /\ held' = [held EXCEPT ![Len(held)] = @ \cup ({v} \ {Datum, NULL})]
  BY DEF prim_definternal
<1>2. Running /\ Len(envs) \in Nat /\ Len(envs) >= 5
  BY EnvsFields DEF prim_definternal, EnvsOK
<1>3. /\ (IF cur = 0 THEN internal ELSE cur) \in CodeEnvs(Len(envs))
      /\ (IF cur = 0 THEN internal ELSE cur) \in 0..Len(envs)
  BY <1>2, RunFields DEF CodeEnvs, internal
<1>4. s \in Symbols /\ v \in Values(Len(envs))
  BY <1>1, <1>2, <1>3, EnvironmentAssumption, SomeValues
<1> QED BY <1>1, <1>4

LEMMA prim_definternal_Preserves ==
  ASSUME IInv, prim_definternal
  PROVE  IInv'
<1>1. PICK e \in {internal, lib}, s \in Symbols, v \in Values(Len(envs)) :
        AddTo(e, s, v) /\ held' = [held EXCEPT ![Len(held)] = @ \cup ({v} \ {Datum, NULL})]
  BY prim_definternal_Binds DEF IInv
<1>2. Running
  BY DEF prim_definternal
<1>3. held' \in Seq(SUBSET Values(Len(envs))) /\ Len(held') = Len(active)
  <2> DEFINE V == SUBSET Values(Len(envs))
  <2>1. held \in Seq(V) /\ Len(held) = Len(active) /\ Len(held) \in 1..Len(held)
    BY <1>2 DEF IInv, RunOK
  <2>2. held[Len(held)] \cup ({v} \ {Datum, NULL}) \in V
    BY <2>1
  <2>3. held' = [held EXCEPT ![Len(held)] = held[Len(held)] \cup ({v} \ {Datum, NULL})]
    BY <1>1
  <2> HIDE DEF V
  <2> QED BY <2>1, <2>2, <2>3, ExceptSeq DEF V
<1> QED BY <1>1, <1>2, <1>3, AddToPreserves

(* An environment that is not inside another is the only one of its chain. *)
ChainAt(f, k) == IF k = 0 THEN {} ELSE {k} \cup f[envs[k].parent]

LEMMA ChainExists ==
  ASSUME Ordered(envs)
  PROVE  \E f : f = [k \in 0..Len(envs) |-> ChainAt(f, k)]
<1> DEFINE Upto(n) == \E f : f = [k \in 0..n |-> ChainAt(f, k)]
           Bad     == {n \in 0..Len(envs) : ~Upto(n)}
<1>1. Upto(0)
  <2> DEFINE f == [k \in 0..0 |-> {}]
  <2>1. f = [k \in 0..0 |-> ChainAt(f, k)]
    BY DEF ChainAt
  <2> QED BY <2>1
<1>2. ASSUME NEW n \in 0..Len(envs), n # 0, Upto(n - 1)
      PROVE  Upto(n)
  <2>1. PICK f : f = [k \in 0..(n - 1) |-> ChainAt(f, k)]
    BY <1>2
  <2> DEFINE g == [k \in 0..n |-> IF k = n THEN ChainAt(f, n) ELSE f[k]]
  <2>2. ASSUME NEW k \in 0..n
        PROVE  g[k] = ChainAt(g, k)
    <3>1. n \in Nat /\ n \in 1..Len(envs)
      BY <1>2 DEF Ordered
    <3>2. CASE k = 0
      <4>1. k \in 0..(n - 1) /\ k # n
        BY <1>2, <3>1, <3>2
      <4>2. f[k] = ChainAt(f, k)
        BY <2>1, <4>1
      <4> QED BY <3>2, <4>1, <4>2 DEF ChainAt
    <3>3. CASE k # 0
      <4>1. k \in 1..Len(envs) /\ envs[k].parent \in 0..(k - 1)
        BY <3>1, <3>3 DEF Ordered
      <4>2. envs[k].parent \in 0..(n - 1) /\ envs[k].parent # n /\ envs[k].parent \in 0..n
        BY <3>1, <4>1
      <4>3. g[envs[k].parent] = f[envs[k].parent]
        BY <4>2
      <4>4. ChainAt(g, k) = ChainAt(f, k)
        BY <4>3 DEF ChainAt
      <4>5. k # n => f[k] = ChainAt(f, k)
        <5>1. k # n => k \in 0..(n - 1)
          BY <3>1
        <5> QED BY <2>1, <5>1
      <4> QED BY <4>4, <4>5
    <3> QED BY <3>2, <3>3
  <2>3. g = [k \in 0..n |-> ChainAt(g, k)]
    BY <2>2
  <2> QED BY <2>3
<1>3. Bad = {}
  <2>1. SUFFICES ASSUME Bad # {} PROVE FALSE
    OBVIOUS
  <2>2. Bad \in SUBSET Nat
    BY DEF Ordered
  <2> HIDE DEF Upto
  <2>3. PICK n \in Bad : \A m \in Bad : n <= m
    BY <2>1, <2>2, LeastElement
  <2>4. n # 0 /\ n \in 0..Len(envs) /\ ~Upto(n)
    BY <1>1, <2>3
  <2>5. n - 1 \in 0..Len(envs) /\ ~(n <= n - 1)
    BY <2>4 DEF Ordered
  <2>6. Upto(n - 1)
    BY <2>3, <2>5
  <2> QED BY <1>2, <2>4, <2>6
<1>4. Len(envs) \in 0..Len(envs)
  BY DEF Ordered
<1> QED BY <1>3, <1>4

LEMMA ChainOfOutermost ==
  ASSUME Ordered(envs), NEW e \in 1..Len(envs), envs[e].parent = 0
  PROVE  Chain(e) = {e}
<1> DEFINE f == CHOOSE f : f = [k \in 0..Len(envs) |-> ChainAt(f, k)]
<1>1. f = [k \in 0..Len(envs) |-> ChainAt(f, k)]
  BY ChainExists
<1>2. \A k : Chain(k) = f[k]
  BY DEF Chain, ChainAt
<1>3. 0 \in 0..Len(envs) /\ e \in 0..Len(envs) /\ e # 0
  BY DEF Ordered
<1>4. f[0] = ChainAt(f, 0) /\ f[e] = ChainAt(f, e)
  BY <1>1, <1>3
<1> HIDE DEF f
<1> QED BY <1>2, <1>3, <1>4 DEF ChainAt

LEMMA destroy_eval__safe_Preserves ==
  ASSUME IInv, destroy_eval__safe
  PROVE  IInv'
<1>1. /\ phase' = "destroyed" /\ op' = NoOp /\ UNCHANGED <<envs, active, held>>
      /\ freed' = [e \in DOMAIN envs |-> Cardinality({g \in Globals : e \in Chain(g)})]
  BY DEF destroy_eval__safe
<1>2. \A g \in Globals : Chain(g) = {g}
  <2>1. \A g \in Globals : g \in 1..Len(envs) /\ envs[g].parent = 0 /\ Ordered(envs)
    BY EnvsFields DEF Globals, IInv, EnvsOK
  <2> QED BY <2>1, ChainOfOutermost
<1>3. ASSUME NEW e \in DOMAIN freed'
      PROVE  freed'[e] = IF e \in Globals THEN 1 ELSE 0
  <2>1. freed'[e] = Cardinality({g \in Globals : e \in Chain(g)})
    BY <1>1, <1>3
  <2>2. {g \in Globals : e \in Chain(g)} = IF e \in Globals THEN {e} ELSE {}
    BY <1>2
  <2> QED BY <2>1, <2>2, FS_EmptySet, FS_Singleton
<1>4. FreedOnce'
  BY <1>3 DEF FreedOnce
<1>5. RunOK'
  BY <1>1 DEF IInv, RunOK, Running
<1> QED BY <1>1, <1>4, <1>5, AlonePreserves

LEMMA StepIInv ==
  ASSUME IInv, [Next]_vars
  PROVE  IInv'
<1>1. CASE invoke
  BY <1>1, invoke_Preserves
<1>2. CASE return
  BY <1>2, return_Preserves
<1>3. CASE form_ends
  BY <1>3, form_ends_Preserves
<1>4. CASE prim_define
  BY <1>4, prim_define_Preserves
<1>5. CASE prim_definternal
  BY <1>5, prim_definternal_Preserves
<1>6. CASE load_lib_scm
  BY <1>6, load_lib_scm_Preserves
<1>7. CASE destroy_eval__safe
  BY <1>7, destroy_eval__safe_Preserves
<1>8. CASE UNCHANGED vars
  BY <1>8 DEF vars, IInv, EnvsOK, RunOK, Running, DefinitionIsNewest, FreedOnce
<1> QED BY <1>1, <1>2, <1>3, <1>4, <1>5, <1>6, <1>7, <1>8 DEF Next

LEMMA Invariance == Spec => []IInv
BY InitIInv, StepIInv, PTL DEF Spec

-----------------------------------------------------------------------------
(***************************************************************************)
(* What follows from the invariant.                                        *)
(***************************************************************************)
(* The lists of an environment are equally long, environments are younger  *)
(* than those around them, and only those that exist are active.           *)
THEOREM TypeCorrect == Spec => []TypeOK
<1>1. IInv => TypeOK
  <2> SUFFICES ASSUME IInv PROVE TypeOK
    OBVIOUS
  <2>1. Len(envs) \in Nat /\ Len(envs) >= 5 /\ DOMAIN envs = 1..Len(envs)
    BY EnvsFields DEF IInv, EnvsOK
  <2>2. \A e \in DOMAIN envs :
          /\ envs[e].parent \in 0..(e - 1) /\ envs[e].symbols \in Seq(Symbols)
          /\ Len(envs[e].values) = Len(envs[e].symbols)
    BY <2>1, EnvsFields DEF IInv, Ordered
  <2>3. CodeEnvs(Len(envs)) \subseteq 0..Len(envs)
    BY <2>1 DEF CodeEnvs, internal
  <2>4. \A i \in DOMAIN active : active[i] \in 0..Len(envs)
    BY <2>3 DEF IInv, RunOK
  <2> QED BY <2>2, <2>4 DEF TypeOK, IInv, RunOK
<1> QED BY <1>1, Invariance, PTL

(* The special forms are bound for ever, and nothing else is with them.    *)
LEMMA SpecialValue ==
  ASSUME NEW es, NEW s, Ordered(es), Len(es) >= 5, es[special_forms] = Declared(Specials)
  PROVE  value(es, special_forms, s) = IF s \in Specials THEN Primitive(s) ELSE NULL
<1> DEFINE d == Declared(Specials)
           i == Index(d, s)
<1>1. /\ Len(d.symbols) \in Nat /\ d.parent = 0
      /\ \A j \in 1..Len(d.symbols) :
           d.symbols[j] \in Specials /\ d.values[j] = Primitive(d.symbols[j])
      /\ \A t \in Specials : \E j \in 1..Len(d.symbols) : d.symbols[j] = t
  BY DeclaredProperties
<1>2. special_forms \in 0..Len(es) /\ special_forms # 0 /\ 0 \in 0..Len(es)
  BY DEF special_forms, Ordered
<1> HIDE DEF d, i
<1>3. /\ i \in 0..Len(d.symbols)
      /\ i > 0 => d.symbols[i] = s
      /\ i = 0 => \A j \in 1..Len(d.symbols) : d.symbols[j] # s
  BY <1>1, IndexProperties DEF i
<1>4. value(es, special_forms, s) = IF i > 0 THEN d.values[i] ELSE value(es, 0, s)
  BY <1>1, <1>2, ValueUnfolds DEF d, i
<1>5. value(es, 0, s) = NULL
  BY <1>2, ValueUnfolds
<1> QED BY <1>1, <1>3, <1>4, <1>5

LEMMA ValuesDiffer == \A s : Primitive(s) # NULL
BY DEF Primitive, NULL

(* No definition, parameter or library function takes the name of a        *)
(* special form, whatever the names and however many calls: find_value     *)
(* starts with `special_forms', which nobody changes.                      *)
THEOREM SpecialFormsAreFixed == Spec => []SpecialFormsFixed
<1>1. IInv => SpecialFormsFixed
  <2> SUFFICES ASSUME IInv, NEW s \in Specials,
                      NEW e \in {0, internal} \cup (DOMAIN envs \ Globals)
               PROVE  find_value(envs, e, s) = Primitive(s)
    BY DEF SpecialFormsFixed
  <2>1. Ordered(envs) /\ Len(envs) >= 5 /\ envs[special_forms] = Declared(Specials)
    BY EnvsFields DEF IInv, EnvsOK
  <2>2. value(envs, special_forms, s) = Primitive(s)
    BY <2>1, SpecialValue
  <2> QED BY <2>2, ValuesDiffer, FindUnfolds
<1> QED BY <1>1, Invariance, PTL

(* What prim_define has bound last at the prompt is what its name means    *)
(* there: the newest binding hides the older ones in `toplevel', and       *)
(* `toplevel' hides the library and the primitives.                        *)
THEOREM DefinitionsTakeEffect == Spec => []DefineTakesEffect
<1>1. IInv => DefineTakesEffect
  <2> DEFINE s == op.syms[1]
             v == op.vals[1]
  <2> SUFFICES ASSUME IInv, op.do = "bind", op.env = toplevel, v # NULL, s \notin Specials
               PROVE  find_value(envs, 0, s) = v
    BY DEF DefineTakesEffect
  <2>1. Ordered(envs) /\ Len(envs) >= 5 /\ envs[special_forms] = Declared(Specials)
    BY EnvsFields DEF IInv, EnvsOK
  <2>2. value(envs, special_forms, s) = NULL
    BY <2>1, SpecialValue
  <2>3. 0 \in 0..Len(envs) /\ toplevel \in 0..Len(envs) /\ toplevel # 0
        /\ toplevel \in 1..Len(envs)
    BY <2>1 DEF toplevel, Ordered
  <2>4. value(envs, 0, s) = NULL
    BY <2>1, <2>3, ValueUnfolds
  <2> DEFINE top == envs[toplevel]
  <2>5. /\ Len(top.symbols) \in Nat /\ top.symbols # <<>> /\ top.symbols \in Seq(Symbols)
        /\ top.symbols[1] = s /\ top.values[1] = v
    BY <2>3, EnvsFields DEF IInv, DefinitionIsNewest
  <2> HIDE DEF top, s, v
  <2>6. 1 \in 1..Len(top.symbols)
    BY <2>5
  <2>7. \A j \in 1..(1 - 1) : top.symbols[j] # s
    OBVIOUS
  <2>8. Index(top, s) = 1
    BY <2>5, <2>6, <2>7, IndexIs
  <2>9. value(envs, toplevel, s) = v
    BY <2>1, <2>3, <2>5, <2>8, ValueUnfolds DEF top
  <2> QED BY <2>2, <2>4, <2>9, FindUnfolds
<1> QED BY <1>1, Invariance, PTL

(* destroy_eval__safe frees each of the five globals once, and no          *)
(* environment of a call: none of the globals is ever inside another.      *)
THEOREM EnvironmentsAreFreedOnce == Spec => []FreedOnce
<1>1. IInv => FreedOnce
  BY DEF IInv
<1> QED BY <1>1, Invariance, PTL

-----------------------------------------------------------------------------
(***************************************************************************)
(* Lexical scope.                                                          *)
(***************************************************************************)
(* A step leaves all environments alone, or adds one, or binds in one.     *)
LEMMA StepCases ==
  ASSUME IInv, Next
  PROVE  \/ invoke
         \/ \E e \in {toplevel, internal, lib}, s \in Symbols, v \in Values(Len(envs)) :
              AddTo(e, s, v)
         \/ op' = NoOp /\ UNCHANGED envs
<1>1. CASE prim_define
  <2>1. PICK s \in BoundNames, v \in Available : AddTo(toplevel, s, v)
    BY <1>1 DEF prim_define
  <2>2. s \in Symbols /\ v \in Values(Len(envs))
    BY <1>1, EnvironmentAssumption, RunFields DEF IInv, prim_define
  <2> QED BY <2>1, <2>2
<1>2. CASE prim_definternal
  BY <1>2, prim_definternal_Binds DEF IInv
<1> QED
  BY <1>1, <1>2 DEF Next, return, form_ends, load_lib_scm, destroy_eval__safe

(* The environments where code runs are inside one another, and only a     *)
(* definternal changes one of them.                                        *)
LEMMA CodeEnvsStay ==
  ASSUME IInv, Next, envs'[internal] = envs[internal]
  PROVE  /\ Len(envs) <= Len(envs')
         /\ CodeEnvs(Len(envs)) \in SUBSET (0..Len(envs))
         /\ \A e \in CodeEnvs(Len(envs)) :
              e # 0 => envs'[e] = envs[e] /\ envs[e].parent \in CodeEnvs(Len(envs))
<1>1. Len(envs) \in Nat /\ Len(envs) >= 5 /\ envs \in Seq(Environs(Len(envs)))
  BY EnvsFields DEF IInv, EnvsOK
<1>2. CodeEnvs(Len(envs)) \in SUBSET (0..Len(envs))
  BY <1>1 DEF CodeEnvs, internal
<1>3. \A e \in CodeEnvs(Len(envs)) : e # 0 => envs[e].parent \in CodeEnvs(Len(envs))
  BY <1>1, <1>2, EnvsFields DEF IInv
<1>4. Len(envs) <= Len(envs') /\ \A e \in CodeEnvs(Len(envs)) : e # 0 => envs'[e] = envs[e]
  <2>1. CASE invoke
    <3>1. PICK f \in Available : \E args \in [DOMAIN f.syms -> Passed] :
                 \E new \in Environs(Len(envs) + 1) : envs' = Append(envs, new)
      BY <2>1, CallMakesOne DEF IInv
    <3>2. PICK new \in Environs(Len(envs) + 1) : envs' = Append(envs, new)
      BY <3>1
    <3>3. Len(envs') = Len(envs) + 1 /\ \A e \in 1..Len(envs) : envs'[e] = envs[e]
      BY <1>1, <3>2, AppendProperties
    <3> QED BY <1>1, <1>2, <3>3
  <2>2. CASE \E e \in {toplevel, internal, lib}, s \in Symbols, v \in Values(Len(envs)) :
               AddTo(e, s, v)
    <3>1. PICK e \in {toplevel, internal, lib}, s \in Symbols, v \in Values(Len(envs)) :
            AddTo(e, s, v)
      BY <2>2
    <3>2. Len(envs') = Len(envs) /\ \A d \in 1..Len(envs) : d # e => envs'[d] = envs[d]
      BY <3>1, AddToChangesOne DEF IInv
    <3>3. ASSUME NEW d \in CodeEnvs(Len(envs)), d # 0
          PROVE  envs'[d] = envs[d]
      BY <1>2, <3>2, <3>3 DEF CodeEnvs, internal, toplevel, lib
    <3> QED BY <1>1, <3>2, <3>3
  <2>3. CASE op' = NoOp /\ UNCHANGED envs
    BY <1>1, <2>3
  <2> QED BY <2>1, <2>2, <2>3, StepCases
<1> QED BY <1>2, <1>3, <1>4

(* Whatever is defined and called later, however deep: what the scopes     *)
(* around the code of a function bind keeps its meaning there.             *)
THEOREM ClosuresAreLexical == Spec => ClosuresKeepTheirMeaning
<1> DEFINE Keeps ==
      envs'[internal] = envs[internal] =>
        \A e \in {internal} \cup (DOMAIN envs \ Globals), s \in Symbols :
          value(envs, e, s) # NULL => find_value(envs', e, s) = find_value(envs, e, s)
<1>1. IInv => Ordered(envs)
  BY EnvsFields DEF IInv
<1>2. ASSUME IInv, IInv', Ordered(envs)', [Next]_vars
      PROVE  [Keeps]_envs
  <2> SUFFICES ASSUME Next, envs'[internal] = envs[internal],
                      NEW e \in {internal} \cup (DOMAIN envs \ Globals), NEW s \in Symbols,
                      value(envs, e, s) # NULL
               PROVE  find_value(envs', e, s) = find_value(envs, e, s)
    BY <1>2 DEF vars
  <2>1. /\ Ordered(envs) /\ Len(envs) >= 5 /\ envs[special_forms] = Declared(Specials)
        /\ DOMAIN envs = 1..Len(envs) /\ Len(envs) \in Nat
    BY <1>2, EnvsFields DEF IInv, EnvsOK
  <2>2. Ordered(envs') /\ Len(envs') >= 5 /\ envs'[special_forms] = Declared(Specials)
    BY <1>2 DEF IInv, EnvsOK
  <2>3. value(envs', special_forms, s) = value(envs, special_forms, s)
    BY <2>1, <2>2, SpecialValue
  <2>4. e \in CodeEnvs(Len(envs))
    BY <2>1 DEF CodeEnvs, Globals
  <2>5. value(envs', e, s) = value(envs, e, s)
    BY <1>2, <2>1, <2>2, <2>4, CodeEnvsStay, ValueStays
  <2> QED BY <2>3, <2>5, FindUnfolds
<1> QED BY <1>1, <1>2, Invariance, PTL DEF Spec, ClosuresKeepTheirMeaning

-----------------------------------------------------------------------------
(***************************************************************************)
(* The environments implement the scopes of module Scopes.                 *)
(***************************************************************************)
Bound(env, s) ==
  IF Index(env, s) = 0 THEN <<>> ELSE <<env.values[Index(env, s)]>>
Scope(env)    == [outer |-> env.parent, bind |-> [s \in Symbols |-> Bound(env, s)]]
ScopesOf(es)  == [e \in DOMAIN es |-> Scope(es[e])]

LEMMA MaxProperties ==
  ASSUME NEW n \in Nat, NEW I \in SUBSET (1..n), I # {}
  PROVE  Max(I) \in I /\ \A j \in I : j <= Max(I)
<1> DEFINE J == {n - i : i \in I}
<1>1. J \in SUBSET Nat /\ J # {}
  <2>1. \A i \in I : i \in 1..n
    OBVIOUS
  <2>2. \A i \in I : n - i \in Nat
    BY <2>1
  <2> QED BY <2>2
<1>2. PICK m \in J : \A j \in J : m <= j
  BY <1>1, LeastElement
<1>3. PICK i \in I : m = n - i
  BY <1>2
<1>4. \A j \in I : n - i <= n - j
  BY <1>2, <1>3
<1>5. \A j \in I : j <= i
  <2>1. i \in 1..n /\ \A j \in I : j \in 1..n
    OBVIOUS
  <2> QED BY <1>4, <2>1
<1> QED BY <1>5 DEF Max

(* The first occurrence in the reversed list is the last in the list.      *)
LEMMA CallBound ==
  ASSUME NEW V, NEW syms \in Seq(Symbols), NEW args \in Seq(V), Len(args) = Len(syms), NEW s,
         NEW env, env.symbols = Reverse(syms), env.values = Reverse(args)
  PROVE  Bound(env, s) = Sc!Meaning(syms, args, s)
<1> DEFINE I == {i \in 1..Len(syms) : syms[i] = s}
           n == Len(syms)
           m == IF I # {} THEN Max(I) ELSE 0
<1>1. Sc!Meaning(syms, args, s) = IF m = 0 THEN <<>> ELSE <<args[m]>>
  BY DEF Sc!Unbound, Sc!Value, Sc!Meaning, Sc!SelectLastInSeq, Sc!Max, Max
<1>2. /\ n \in Nat /\ Len(env.symbols) = n
      /\ \A i \in 1..n : env.symbols[i] = syms[n + 1 - i] /\ env.values[i] = args[n + 1 - i]
  BY ReverseProperties
<1>3. CASE I = {}
  <2>1. \A j \in 1..n : env.symbols[j] # s
    <3>1. \A j \in 1..n : n + 1 - j \in 1..n
      BY <1>2
    <3> QED BY <1>2, <1>3, <3>1
  <2>2. Index(env, s) = 0
    BY <1>2, <2>1, IndexProperties
  <2> QED BY <1>1, <1>3, <2>2 DEF Bound
<1>4. CASE I # {}
  <2>1. m \in I /\ \A j \in I : j <= m
    BY <1>2, <1>4, MaxProperties
  <2> HIDE DEF m
  <2>2. n + 1 - m \in 1..n /\ n + 1 - (n + 1 - m) = m
    BY <1>2, <2>1
  <2>3. env.symbols[n + 1 - m] = s /\ env.values[n + 1 - m] = args[m]
    BY <1>2, <2>1, <2>2
  <2>4. ASSUME NEW j \in 1..((n + 1 - m) - 1)
        PROVE  env.symbols[j] # s
    <3>1. j \in 1..n /\ n + 1 - j \in 1..n /\ ~(n + 1 - j <= m)
      BY <1>2, <2>1
    <3> QED BY <1>2, <2>1, <3>1
  <2>5. Index(env, s) = n + 1 - m
    BY <1>2, <2>2, <2>3, <2>4, IndexIs
  <2>6. m # 0 /\ n + 1 - m # 0
    BY <2>1, <2>2
  <2> QED BY <1>1, <2>3, <2>5, <2>6 DEF Bound
<1> QED BY <1>3, <1>4

(* The sequence q with x before it.                                        *)
Before(x, q, r) == Len(r) = Len(q) + 1 /\ r[1] = x /\ \A j \in 2..(Len(q) + 1) : r[j] = q[j - 1]

(* The two lists of an environment belong together.                        *)
Paired(env) == Len(env.symbols) \in Nat /\ Len(env.values) = Len(env.symbols)

(* As old, with v for s.                                                   *)
Rebound(old, new, s, v) == \A t : Bound(new, t) = IF t = s THEN <<v>> ELSE Bound(old, t)

LEMMA ConcatBefore ==
  ASSUME NEW S, NEW q \in Seq(S), NEW x \in S
  PROVE  Before(x, q, <<x>> \o q)
BY DEF Before

(* The new binding hides older ones of the same name, and no others.       *)
LEMMA BindBound ==
  ASSUME NEW old, NEW new, NEW s, NEW v, Paired(old),
         Before(s, old.symbols, new.symbols), Before(v, old.values, new.values)
  PROVE  Rebound(old, new, s, v)
<1> SUFFICES ASSUME NEW t
             PROVE  Bound(new, t) = IF t = s THEN <<v>> ELSE Bound(old, t)
  BY DEF Rebound
<1> DEFINE n == Len(old.symbols)
           i == Index(old, t)
<1>1. /\ n \in Nat /\ Len(new.symbols) = n + 1 /\ Len(new.symbols) \in Nat
      /\ new.symbols[1] = s /\ new.values[1] = v
      /\ \A j \in 2..(n + 1) :
           new.symbols[j] = old.symbols[j - 1] /\ new.values[j] = old.values[j - 1]
  BY DEF Before, Paired
<1>2. CASE t = s
  <2>1. 1 \in 1..Len(new.symbols) /\ \A j \in 1..(1 - 1) : new.symbols[j] # t
    BY <1>1
  <2>2. Index(new, t) = 1
    BY <1>1, <1>2, <2>1, IndexIs
  <2> QED BY <1>1, <1>2, <2>2 DEF Bound
<1>3. CASE t # s
  <2>1. /\ i \in 0..n
        /\ i > 0 => old.symbols[i] = t /\ \A j \in 1..n : old.symbols[j] = t => i <= j
        /\ i = 0 => \A j \in 1..n : old.symbols[j] # t
    BY <1>1, IndexProperties
  <2> HIDE DEF i
  <2>2. CASE i = 0
    <3>1. \A j \in 1..(n + 1) : j = 1 \/ (j \in 2..(n + 1) /\ j - 1 \in 1..n)
      BY <1>1
    <3>2. \A j \in 1..(n + 1) : new.symbols[j] # t
      BY <1>1, <1>3, <2>1, <2>2, <3>1
    <3> DEFINE k == Index(new, t)
    <3>3. k \in 0..(n + 1) /\ (k > 0 => new.symbols[k] = t)
      BY <1>1, IndexProperties
    <3> HIDE DEF k
    <3>4. k = 0
      BY <1>1, <3>2, <3>3
    <3>5. Index(new, t) = 0
      BY <3>4 DEF k
    <3> QED BY <1>3, <2>2, <3>5 DEF Bound, i
  <2>3. CASE i > 0
    <3>1. i + 1 \in 2..(n + 1) /\ i + 1 \in 1..Len(new.symbols) /\ (i + 1) - 1 = i
      BY <1>1, <2>1, <2>3
    <3>2. new.symbols[i + 1] = t /\ new.values[i + 1] = old.values[i]
      BY <1>1, <2>1, <2>3, <3>1
    <3>3. ASSUME NEW j \in 1..((i + 1) - 1)
          PROVE  new.symbols[j] # t
      <4>1. CASE j = 1
        BY <1>1, <1>3, <4>1
      <4>2. CASE j # 1
        <5>1. j \in 2..(n + 1) /\ j - 1 \in 1..n /\ ~(i <= j - 1)
          BY <1>1, <2>1, <3>1, <4>2
        <5> QED BY <1>1, <2>1, <2>3, <5>1
      <4> QED BY <4>1, <4>2
    <3>4. Index(new, t) = i + 1
      BY <1>1, <3>1, <3>2, <3>3, IndexIs
    <3>5. i # 0 /\ i + 1 # 0
      BY <2>1, <2>3
    <3> QED BY <1>3, <3>2, <3>4, <3>5 DEF Bound, i
  <2> QED BY <2>1, <2>2, <2>3
<1> QED BY <1>2, <1>3

LEMMA SequenceIs == ASSUME NEW S, NEW q \in Seq(S) PROVE q = [i \in 1..Len(q) |-> q[i]]
OBVIOUS

LEMMA CallImplementsCall ==
  ASSUME IInv, invoke
  PROVE  ScopesOf(envs') = Append(ScopesOf(envs),
           [outer |-> op'.env, bind |-> [s \in Symbols |-> Sc!Meaning(op'.syms, op'.vals, s)]])
<1> DEFINE n == Len(envs)
<1>1. PICK f \in Available : \E args \in [DOMAIN f.syms -> Passed] :
           \E new \in Environs(n + 1) :
               /\ envs' = Append(envs, new) /\ new.parent = f.env
               /\ new.symbols = Reverse(f.syms) /\ new.values = Reverse(args)
               /\ op' = [do |-> "call", env |-> f.env, syms |-> f.syms, vals |-> args]
               /\ f.syms \in Seq(Symbols) /\ args \in Seq(Values(n + 1)) /\ Len(args) = Len(f.syms)
  BY CallMakesOne DEF IInv
<1>2. PICK args \in [DOMAIN f.syms -> Passed], new \in Environs(n + 1) :
               /\ envs' = Append(envs, new) /\ new.parent = f.env
               /\ new.symbols = Reverse(f.syms) /\ new.values = Reverse(args)
               /\ op' = [do |-> "call", env |-> f.env, syms |-> f.syms, vals |-> args]
               /\ f.syms \in Seq(Symbols) /\ args \in Seq(Values(n + 1)) /\ Len(args) = Len(f.syms)
  BY <1>1
<1>3. op'.env = new.parent /\ op'.syms = f.syms /\ op'.vals = args
  BY <1>2
<1>4. \A s : Bound(new, s) = Sc!Meaning(f.syms, args, s)
  BY <1>2, CallBound
<1> DEFINE made == [outer |-> op'.env,
                    bind  |-> [s \in Symbols |-> Sc!Meaning(op'.syms, op'.vals, s)]]
<1>5. Scope(new) = made
  BY <1>3, <1>4 DEF Scope
<1>6. n \in Nat /\ DOMAIN envs = 1..n /\ envs \in Seq(Environs(n))
  BY EnvsFields DEF IInv, EnvsOK
<1>7. DOMAIN envs' = 1..(n + 1) /\ envs'[n + 1] = new /\ \A e \in 1..n : envs'[e] = envs[e]
  BY <1>2, <1>6
<1>8. ScopesOf(envs) = [e \in 1..n |-> Scope(envs[e])]
  BY <1>6 DEF ScopesOf
<1>9. ScopesOf(envs') = [e \in 1..(n + 1) |-> IF e = n + 1 THEN made ELSE Scope(envs[e])]
  <2>1. \A e \in 1..(n + 1) : e # n + 1 => e \in 1..n
    BY <1>6
  <2> HIDE DEF made
  <2> QED BY <1>5, <1>7, <2>1 DEF ScopesOf
<1> HIDE DEF made
<1>10. Append([e \in 1..n |-> Scope(envs[e])], made)
         = [e \in 1..(n + 1) |-> IF e = n + 1 THEN made ELSE Scope(envs[e])]
  <2> DEFINE q == [e \in 1..n |-> Scope(envs[e])]
             S == {Scope(envs[e]) : e \in 1..n}
  <2>1. q \in Seq(S) /\ Len(q) = n
    BY <1>6
  <2>2. \A e \in 1..n : e # n + 1 /\ q[e] = Scope(envs[e])
    BY <1>6
  <2>3. /\ Len(Append(q, made)) = n + 1 /\ Append(q, made) \in Seq(S \cup {made})
        /\ \A e \in 1..(n + 1) : Append(q, made)[e] = IF e = n + 1 THEN made ELSE Scope(envs[e])
    <3> HIDE DEF S
    <3>1. q \in Seq(S \cup {made})
      BY <2>1, SeqMonotonic
    <3> HIDE DEF q
    <3>2. \A e \in 1..(n + 1) : Append(q, made)[e] = IF e = n + 1 THEN made ELSE q[e]
      BY <1>6, <2>1, <3>1
    <3>3. \A e \in 1..(n + 1) : e # n + 1 => e \in 1..n
      BY <1>6
    <3> QED BY <1>6, <2>1, <2>2, <3>1, <3>2, <3>3
  <2> HIDE DEF q, S
  <2>4. Append(q, made) = [e \in 1..(n + 1) |-> Append(q, made)[e]]
    BY <2>3, SequenceIs
  <2>5. Append(q, made) = [e \in 1..(n + 1) |-> IF e = n + 1 THEN made ELSE Scope(envs[e])]
    BY <2>3, <2>4
  <2> QED BY <2>5 DEF q
<1> QED BY <1>8, <1>9, <1>10 DEF made

LEMMA ScopeExcept ==
  ASSUME NEW o, NEW b, NEW x
  PROVE  [[outer |-> o, bind |-> b] EXCEPT !.bind = x] = [outer |-> o, bind |-> x]
<1> DEFINE r == [outer |-> o, bind |-> b]
           q == [r EXCEPT !.bind = x]
           z == [outer |-> o, bind |-> x]
<1>1. r \in [outer : {o}, bind : {b}] /\ z \in [outer : {o}, bind : {x}]
  OBVIOUS
<1> HIDE DEF r, z
<1>2. q \in [outer : {o}, bind : {x}]
  BY <1>1
<1> HIDE DEF q
<1>3. \A u, w \in [outer : {o}, bind : {x}] : u = w
  OBVIOUS
<1>4. q = z
  BY <1>1, <1>2, <1>3
<1> QED BY <1>4 DEF q, r, z

LEMMA ExceptPath ==
  ASSUME NEW f, NEW e, NEW s, NEW y
  PROVE  [f EXCEPT ![e].bind[s] = y]
           = [f EXCEPT ![e] = [f[e] EXCEPT !.bind = [f[e].bind EXCEPT ![s] = y]]]
OBVIOUS

LEMMA BindImplementsBind ==
  ASSUME IInv, NEW e \in {toplevel, internal, lib}, NEW s \in Symbols,
         NEW v \in Values(Len(envs)), AddTo(e, s, v)
  PROVE  ScopesOf(envs') = [ScopesOf(envs) EXCEPT ![op'.env].bind[op'.syms[1]] = <<op'.vals[1]>>]
<1> DEFINE n == Len(envs)
<1>1. /\ n \in Nat /\ n >= 5 /\ DOMAIN envs = 1..n /\ e \in 1..n
      /\ envs[e].symbols \in Seq(Symbols) /\ envs[e].values \in Seq(Values(n))
      /\ Len(envs[e].values) = Len(envs[e].symbols)
  <2>1. n \in Nat /\ n >= 5 /\ DOMAIN envs = 1..n /\ e \in 1..n
    BY EnvsFields DEF IInv, EnvsOK, toplevel, internal, lib
  <2> QED BY <2>1, EnvsFields DEF IInv
<1>2. /\ envs' \in Seq(Environs(n)) /\ Len(envs') = n
      /\ \A d \in 1..n : d # e => envs'[d] = envs[d]
      /\ envs'[e].parent = envs[e].parent
      /\ envs'[e].symbols = <<s>> \o envs[e].symbols
      /\ envs'[e].values = <<v>> \o envs[e].values
  BY AddToChangesOne DEF IInv
<1>3. op'.env = e /\ op'.syms[1] = s /\ op'.vals[1] = v
  <2>1. op' = [do |-> "bind", env |-> e, syms |-> <<s>>, vals |-> <<v>>]
    BY DEF AddTo
  <2> QED BY <2>1
<1> DEFINE old == envs[e]
           new == envs'[e]
<1>4. Rebound(old, new, s, v)
  <2> HIDE DEF old, new, n
  <2>1. Paired(old)
    BY <1>1 DEF old, Paired
  <2>2. Before(s, old.symbols, new.symbols)
    BY <1>1, <1>2, ConcatBefore DEF old, new
  <2>3. Before(v, old.values, new.values)
    BY <1>1, <1>2, ConcatBefore DEF old, new, n
  <2> QED BY <2>1, <2>2, <2>3, BindBound
<1>5. Scope(new) = [Scope(old) EXCEPT !.bind = [Scope(old).bind EXCEPT ![s] = <<v>>]]
  <2> HIDE DEF old, new, n
  <2> DEFINE b == [t \in Symbols |-> Bound(old, t)]
             c == [b EXCEPT ![s] = <<v>>]
  <2>1. [t \in Symbols |-> Bound(new, t)] = c
    BY <1>4 DEF Rebound
  <2>2. Scope(old) = [outer |-> old.parent, bind |-> b] /\ Scope(old).bind = b
    BY DEF Scope
  <2>3. Scope(new) = [outer |-> old.parent, bind |-> c]
    <3>1. new.parent = old.parent
      BY <1>2 DEF old, new
    <3> QED BY <2>1, <3>1 DEF Scope
  <2> HIDE DEF b, c
  <2>4. Scope(new) = [Scope(old) EXCEPT !.bind = c]
    BY <2>2, <2>3, ScopeExcept
  <2> QED BY <2>2, <2>4 DEF c
<1>6. DOMAIN envs' = 1..n
  BY <1>2
<1>7. ScopesOf(envs') = [d \in 1..n |-> IF d = e THEN Scope(new) ELSE Scope(envs[d])]
  <2>1. \A d \in 1..n : Scope(envs'[d]) = IF d = e THEN Scope(new) ELSE Scope(envs[d])
    BY <1>2
  <2> QED BY <1>6, <2>1 DEF ScopesOf
<1>8. ScopesOf(envs) = [d \in 1..n |-> Scope(envs[d])]
  BY <1>1 DEF ScopesOf
<1> HIDE DEF old, new
<1>9. ScopesOf(envs') = [ScopesOf(envs) EXCEPT ![e] = Scope(new)]
  BY <1>1, <1>7, <1>8
<1>10. ScopesOf(envs)[e] = Scope(old)
  BY <1>1, <1>8 DEF old
<1>11. ScopesOf(envs')
         = [ScopesOf(envs) EXCEPT ![e] = [ScopesOf(envs)[e] EXCEPT
              !.bind = [ScopesOf(envs)[e].bind EXCEPT ![s] = <<v>>]]]
  BY <1>5, <1>9, <1>10
<1>12. ScopesOf(envs') = [ScopesOf(envs) EXCEPT ![e].bind[s] = <<v>>]
  BY <1>11, ExceptPath
<1> QED BY <1>3, <1>12

(* Every step is a step of Scopes, or none: a call makes one scope with    *)
(* all its parameters bound, a definition replaces one meaning in one      *)
(* scope, and whatever else the evaluator does leaves the scopes alone.    *)
THEOREM EnvironmentsAreScopes == Spec => ScopesSpec
<1> DEFINE mapped == ScopesOf(envs)
<1>1. Init => Sc!Init
  <2> SUFFICES ASSUME Init PROVE Sc!Init
    OBVIOUS
  <2>1. \A e \in DOMAIN envs : envs[e].parent = 0
    <3>1. \A d \in {Declared(Specials), Declared(Primitives), Declared(Internals)} : d.parent = 0
      BY DEF Declared
    <3>2. create_empty_environment.parent = 0
      BY DEF create_empty_environment
    <3> QED BY <3>1, <3>2 DEF Init, Globals_Created
  <2> QED BY <2>1 DEF Sc!Init
<1>2. ASSUME IInv, [Next]_vars
      PROVE  [Sc!Next]_(Sc!vars)
  <2>1. CASE invoke
    <3>1. op'.do = "call"
      BY <2>1 DEF invoke
    <3> QED
      BY <1>2, <2>1, <3>1, CallImplementsCall DEF Sc!Next, Sc!Call, Sc!Unbound, Sc!Value, ScopesOf, Scope, Bound
  <2>2. CASE \E e \in {toplevel, internal, lib}, s \in Symbols, v \in Values(Len(envs)) :
               AddTo(e, s, v)
    <3>1. PICK e \in {toplevel, internal, lib}, s \in Symbols, v \in Values(Len(envs)) :
            AddTo(e, s, v)
      BY <2>2
    <3>2. op'.do = "bind"
      BY <3>1 DEF AddTo
    <3> QED
      BY <1>2, <3>1, <3>2, BindImplementsBind
      DEF Sc!Next, Sc!Bind, Sc!Unbound, Sc!Value, ScopesOf, Scope, Bound
  <2>3. CASE op' = NoOp /\ UNCHANGED envs
    BY <2>3 DEF Sc!Next, Sc!Other, NoOp
  <2>4. CASE UNCHANGED vars
    BY <2>4 DEF vars, Sc!vars
  <2> QED BY <1>2, <2>1, <2>2, <2>3, <2>4, StepCases
<1> QED BY <1>1, <1>2, Invariance, PTL DEF Spec, ScopesSpec, Sc!Spec
=============================================================================
