---------------------------- MODULE SymtabProofs ----------------------------
(***************************************************************************)
(* That a name has one symbol for as long as the program runs, and that    *)
(* every string has one owner, for every set of primitives, every text and *)
(* any number of allocations.                                              *)
(***************************************************************************)
EXTENDS Symtab, FiniteSetTheorems, SequenceTheorems, WellFoundedInduction, TLAPS

-----------------------------------------------------------------------------
(***************************************************************************)
(* Searches in sequences.                                                  *)
(***************************************************************************)
LEMMA MinProperties ==
  ASSUME NEW I \in SUBSET Nat, I # {}
  PROVE  Min(I) \in I /\ \A j \in I : Min(I) <= j
<1>1. PICK i \in I : \A j \in I : ~(<<j, i>> \in OpToRel(<, Nat))
  BY NatLessThanWellFounded, WFMin
<1>2. ASSUME NEW j \in I
      PROVE  i <= j
  <2>1. ~(<<j, i>> \in {ss \in Nat \X Nat : ss[1] < ss[2]})
    BY <1>1 DEF OpToRel
  <2> QED BY <2>1
<1> QED BY <1>2 DEF Min

(* The table holds one entry of the name, and lookup finds it.             *)
LEMMA LookupFinds ==
  ASSUME NEW t, NEW ss, NEW n, Len(t) \in Nat, NEW k \in 1..Len(t),
         ss[t[k].string].text = n,
         \A j \in 1..Len(t) : ss[t[j].string].text = n => j = k
  PROVE  lookup(t, ss, n) = t[k].cell
<1> DEFINE I == {j \in 1..Len(t) : ss[t[j].string].text = n}
<1>1. I = {k}
  OBVIOUS
<1>2. Min(I) = k
  BY <1>1, MinProperties
<1> QED BY <1>1, <1>2 DEF lookup, SelectInSeq

LEMMA LookupMisses ==
  ASSUME NEW t, NEW ss, NEW n, Len(t) \in Nat,
         \A j \in 1..Len(t) : ss[t[j].string].text # n
  PROVE  lookup(t, ss, n) = 0
<1> DEFINE I == {j \in 1..Len(t) : ss[t[j].string].text = n}
<1>1. I = {}
  OBVIOUS
<1> QED BY <1>1 DEF lookup, SelectInSeq

-----------------------------------------------------------------------------
(***************************************************************************)
(* The inductive invariant.                                                *)
(***************************************************************************)
Texts   == ToSet(StaticNames) \cup PrimNames \cup Names
Strings == [text : Texts, frees : Nat]
Entries(n) == [string : 1..n, cell : Nat \ {0}]

Types ==
  /\ strings \in Seq(Strings) /\ Len(strings) >= 3
  /\ tab \in Seq(Entries(Len(strings)))
  /\ prims \in Seq(1..Len(strings))
  /\ tok \in {Nothing} \cup [type : {"symbol", "string"}, payload : 1..Len(strings)]
  /\ phase \in {"declaring", "loading", "reading", "ended", "destroyed"}
  /\ lost \subseteq 1..Len(strings)

(* Cells are numbered from the tail of the table, where the static symbols *)
(* are for as long as there is a table.                                    *)
Table ==
  /\ \A k \in 1..Len(tab) : tab[k].cell = Len(tab) + 1 - k
  /\ \A j, k \in 1..Len(tab) :
       strings[tab[j].string].text = strings[tab[k].string].text => j = k
  /\ phase # "destroyed" =>
       Len(tab) >= 3 /\ \A i \in 1..3 : tab[Len(tab) + 1 - i].string = i

(* While the primitives are declared, nothing else has a string; their     *)
(* strings are in the table; and only an input that is read has tokens.    *)
Declared ==
  /\ phase = "declaring" =>
       /\ tok = Nothing
       /\ Len(strings) = Len(prims) + 3
       /\ \A i \in 1..3 : strings[i].text = StaticNames[i]
       /\ \A i \in 1..Len(prims) : strings[i + 3].text = SetToSeq(PrimNames)[i]
  /\ \A k \in 1..Len(prims) : \E j \in 1..Len(tab) : tab[j].string = prims[k]
  /\ phase \notin {"loading", "reading"} => tok = Nothing

One(b)      == IF b THEN 1 ELSE 0
Named(t, i) == \E k \in 1..Len(t) : t[k].string = i

Owned ==
  \A i \in 1..Len(strings) :
    /\ i <= 3 => strings[i].frees = 0 /\ tok.payload # i /\ i \notin lost
    /\ i > 3 => One(Named(tab, i)) + One(tok.payload = i) + One(i \in lost) + strings[i].frees = 1

IInv == Types /\ Table /\ Declared /\ Owned

-----------------------------------------------------------------------------
(***************************************************************************)
(* intern.                                                                 *)
(***************************************************************************)
LEMMA Pushed ==
  ASSUME NEW E, NEW t \in Seq(E), NEW e \in E
  PROVE  /\ <<e>> \o t \in Seq(E) /\ Len(<<e>> \o t) = Len(t) + 1
         /\ (<<e>> \o t)[1] = e
         /\ \A k \in 1..Len(t) : (<<e>> \o t)[k + 1] = t[k]
         /\ \A k \in 2..(Len(t) + 1) : (<<e>> \o t)[k] = t[k - 1]
OBVIOUS

LEMMA EntriesGrow ==
  ASSUME NEW m \in Nat, NEW n \in Nat, m <= n, NEW t \in Seq(Entries(m))
  PROVE  t \in Seq(Entries(n))
<1>1. Entries(m) \subseteq Entries(n)
  BY DEF Entries
<1> QED BY <1>1, SeqMonotonic

LEMMA StringFields ==
  ASSUME NEW ss \in Seq(Strings), NEW i \in 1..Len(ss)
  PROVE  ss[i] \in Strings /\ ss[i].text \in Texts /\ ss[i].frees \in Nat
<1>1. ss[i] \in Strings
  OBVIOUS
<1> QED BY <1>1 DEF Strings

LEMMA EntryFields ==
  ASSUME NEW m, NEW t \in Seq(Entries(m)), NEW k \in 1..Len(t)
  PROVE  t[k].string \in 1..m /\ t[k].cell \in Nat /\ t[k].cell # 0
<1>1. t[k] \in Entries(m)
  OBVIOUS
<1> QED BY <1>1 DEF Entries

LEMMA Freed ==
  ASSUME NEW ss \in Seq(Strings), NEW s \in 1..Len(ss)
  PROVE  LET fs == free_malloced(ss, s)
         IN  /\ fs \in Seq(Strings) /\ Len(fs) = Len(ss)
             /\ \A i \in 1..Len(ss) : /\ fs[i].text = ss[i].text
                                      /\ fs[i].frees = ss[i].frees + One(i = s)
<1> DEFINE fs == free_malloced(ss, s)
<1>1. \A i \in 1..Len(ss) : ss[i].text \in Texts /\ ss[i].frees \in Nat /\ ss[i] \in Strings
  BY StringFields
<1>2. \A i \in 1..Len(ss) : fs[i] = IF i = s THEN [ss[s] EXCEPT !.frees = ss[s].frees + 1] ELSE ss[i]
  BY DEF free_malloced
<1>3. [ss[s] EXCEPT !.frees = ss[s].frees + 1] \in Strings
  BY <1>1 DEF Strings
<1>4. fs \in Seq(Strings) /\ Len(fs) = Len(ss)
  BY <1>3 DEF free_malloced
<1>5. ASSUME NEW i \in 1..Len(ss)
      PROVE  fs[i].text = ss[i].text /\ fs[i].frees = ss[i].frees + One(i = s)
  BY <1>1, <1>2 DEF Strings, One
<1> QED BY <1>4, <1>5

(* What is there of the program before and while s is interned, where ss   *)
(* are its strings, the new one among them.                                *)
Interning(s, ss) ==
  /\ ss \in Seq(Strings) /\ Len(ss) >= Len(strings) /\ s \in 1..Len(ss)
  /\ \A i \in 1..Len(strings) : ss[i].text = strings[i].text
  /\ phase # "destroyed" /\ phase' # "destroyed"

(* There is one string the table keeps more, or one that is freed; the     *)
(* entries that are there stay, one further down.                          *)
Interned(s, ss) ==
  /\ strings' \in Seq(Strings) /\ Len(strings') = Len(ss)
  /\ \A i \in 1..Len(ss) : strings'[i].text = ss[i].text
  /\ tab' \in Seq(Entries(Len(ss))) /\ Table'
  /\ \A i \in 1..Len(ss) : Named(tab, i) => Named(tab', i)
  /\ \A i \in 1..Len(ss) :
       One(Named(tab', i)) + strings'[i].frees = One(Named(tab, i)) + ss[i].frees + One(i = s)

LEMMA InternNew ==
  ASSUME NEW s, NEW ss, Types, Table, Interning(s, ss),
         lookup(tab, ss, ss[s].text) = 0, push(s, NewCell), strings' = ss
  PROVE  Interned(s, ss) /\ Named(tab', s)
<1> DEFINE n == Len(tab)
           e == [string |-> s, cell |-> n + 1]
<1>1. /\ n \in Nat /\ Len(ss) \in Nat /\ Len(strings) \in Nat /\ tab \in Seq(Entries(Len(ss)))
      /\ s \in 1..Len(ss)
  BY EntriesGrow DEF Types, Interning
<1>2. e \in Entries(Len(ss))
  BY <1>1 DEF Entries
<1>3. /\ tab' \in Seq(Entries(Len(ss))) /\ Len(tab') = n + 1 /\ tab'[1] = e
      /\ \A k \in 1..n : tab'[k + 1] = tab[k]
      /\ \A k \in 2..(n + 1) : tab'[k] = tab[k - 1]
  BY <1>1, <1>2, Pushed DEF push, NewCell
<1>4. \A k \in 1..n : tab[k].string \in 1..Len(strings) /\ tab[k].cell # 0
  BY EntryFields DEF Types
<1>5. ASSUME NEW k \in 1..n
      PROVE  ss[tab[k].string].text # ss[s].text
  <2>1. SUFFICES ASSUME ss[tab[k].string].text = ss[s].text PROVE FALSE
    OBVIOUS
  <2>2. ASSUME NEW j \in 1..n, ss[tab[j].string].text = ss[s].text
        PROVE  j = k
    <3>1. strings[tab[j].string].text = strings[tab[k].string].text
      BY <1>4, <2>1, <2>2 DEF Interning
    <3> QED BY <3>1 DEF Table
  <2>3. lookup(tab, ss, ss[s].text) = tab[k].cell
    BY <1>1, <2>1, <2>2, LookupFinds
  <2> QED BY <1>4, <2>3
<1>6. Table'
  <2>1. ASSUME NEW k \in 1..(n + 1)
        PROVE  tab'[k].cell = n + 2 - k
    <3>1. CASE k = 1
      BY <1>1, <1>3, <3>1
    <3>2. CASE k # 1
      <4>1. k \in 2..(n + 1) /\ k - 1 \in 1..n
        BY <1>1, <3>2
      <4>2. tab[k - 1].cell = n + 1 - (k - 1)
        BY <4>1 DEF Table
      <4> QED BY <1>1, <1>3, <4>1, <4>2
    <3> QED BY <3>1, <3>2
  <2>2. ASSUME NEW j \in 1..(n + 1), NEW k \in 1..(n + 1),
               strings'[tab'[j].string].text = strings'[tab'[k].string].text
        PROVE  j = k
    <3>1. CASE j = 1 /\ k # 1
      <4>1. k \in 2..(n + 1) /\ k - 1 \in 1..n
        BY <1>1, <3>1
      <4> QED BY <1>3, <1>5, <2>2, <3>1, <4>1
    <3>2. CASE j # 1 /\ k = 1
      <4>1. j \in 2..(n + 1) /\ j - 1 \in 1..n
        BY <1>1, <3>2
      <4> QED BY <1>3, <1>5, <2>2, <3>2, <4>1
    <3>3. CASE j # 1 /\ k # 1
      <4>1. /\ j \in 2..(n + 1) /\ j - 1 \in 1..n
            /\ k \in 2..(n + 1) /\ k - 1 \in 1..n
        BY <1>1, <3>3
      <4>2. ss[tab[j - 1].string].text = ss[tab[k - 1].string].text
        BY <1>3, <2>2, <4>1
      <4>3. j - 1 = k - 1
        BY <1>4, <4>1, <4>2 DEF Table, Interning
      <4> QED BY <4>1, <4>3
    <3> QED BY <3>1, <3>2, <3>3
  <2>3. n + 1 >= 3 /\ \A i \in 1..3 : tab'[n + 2 - i].string = i
    <3>1. n >= 3 /\ \A i \in 1..3 : tab[n + 1 - i].string = i
      BY DEF Table, Interning
    <3>2. \A i \in 1..3 : n + 2 - i \in 2..(n + 1) /\ n + 2 - i - 1 = n + 1 - i
      BY <1>1, <3>1
    <3>3. ASSUME NEW i \in 1..3
          PROVE  tab'[n + 2 - i].string = i
      <4>1. tab'[n + 2 - i] = tab[n + 2 - i - 1]
        BY <1>3, <3>2
      <4>2. tab'[n + 2 - i] = tab[n + 1 - i]
        BY <3>2, <4>1
      <4> QED BY <3>1, <4>2
    <3> QED BY <1>1, <3>1, <3>3
  <2> QED BY <1>1, <1>3, <2>1, <2>2, <2>3 DEF Table
<1>7. ASSUME NEW i \in 1..Len(ss)
      PROVE  Named(tab', i) <=> Named(tab, i) \/ i = s
  <2>1. ASSUME Named(tab, i) PROVE Named(tab', i)
    <3>1. PICK k \in 1..n : tab[k].string = i
      BY <2>1 DEF Named
    <3>2. k + 1 \in 1..(n + 1) /\ tab'[k + 1].string = i
      BY <1>1, <1>3, <3>1
    <3> QED BY <1>3, <3>2 DEF Named
  <2>2. i = s => Named(tab', i)
    <3>1. 1 \in 1..(n + 1)
      BY <1>1
    <3> QED BY <1>3, <3>1 DEF Named
  <2>3. ASSUME Named(tab', i) PROVE Named(tab, i) \/ i = s
    <3>1. PICK k \in 1..(n + 1) : tab'[k].string = i
      BY <1>3, <2>3 DEF Named
    <3>2. CASE k = 1
      BY <1>3, <3>1, <3>2
    <3>3. CASE k # 1
      <4>1. k \in 2..(n + 1) /\ k - 1 \in 1..n
        BY <1>1, <3>3
      <4> QED BY <1>3, <3>1, <4>1 DEF Named
    <3> QED BY <3>2, <3>3
  <2> QED BY <2>1, <2>2, <2>3
<1>8. ~Named(tab, s)
  BY <1>5 DEF Named
<1>9. ASSUME NEW i \in 1..Len(ss)
      PROVE  One(Named(tab', i)) + strings'[i].frees = One(Named(tab, i)) + ss[i].frees + One(i = s)
  <2>1. ss[i].frees \in Nat
    BY StringFields DEF Interning
  <2>2. One(Named(tab', i)) = One(Named(tab, i)) + One(i = s)
    BY <1>7, <1>8 DEF One
  <2> QED BY <2>1, <2>2 DEF One
<1> QED BY <1>1, <1>3, <1>6, <1>7, <1>9 DEF Interned, Interning

LEMMA InternKnown ==
  ASSUME NEW s, NEW ss, Types, Table, Interning(s, ss),
         strings' = free_malloced(ss, s), UNCHANGED tab
  PROVE  Interned(s, ss)
<1>1. /\ Len(ss) \in Nat /\ Len(strings) \in Nat /\ tab \in Seq(Entries(Len(ss)))
      /\ s \in 1..Len(ss) /\ ss \in Seq(Strings)
  BY EntriesGrow DEF Types, Interning
<1>2. /\ strings' \in Seq(Strings) /\ Len(strings') = Len(ss)
      /\ \A i \in 1..Len(ss) : /\ strings'[i].text = ss[i].text
                               /\ strings'[i].frees = ss[i].frees + One(i = s)
  BY <1>1, Freed
<1>3. \A k \in 1..Len(tab) : tab[k].string \in 1..Len(strings)
  BY EntryFields DEF Types
<1>4. Table'
  <2>1. \A k \in 1..Len(tab) : strings'[tab[k].string].text = strings[tab[k].string].text
    BY <1>1, <1>2, <1>3 DEF Interning
  <2> QED BY <2>1 DEF Table, Interning
<1>5. \A i \in 1..Len(ss) : Named(tab', i) <=> Named(tab, i)
  BY DEF Named
<1>6. ASSUME NEW i \in 1..Len(ss)
      PROVE  One(Named(tab', i)) + strings'[i].frees = One(Named(tab, i)) + ss[i].frees + One(i = s)
  <2>1. ss[i].frees \in Nat
    BY <1>1, StringFields
  <2>2. One(Named(tab', i)) = One(Named(tab, i))
    BY <1>5 DEF One
  <2> QED BY <1>2, <2>1, <2>2 DEF One
<1> QED BY <1>1, <1>2, <1>4, <1>5, <1>6 DEF Interned

LEMMA InternProperties ==
  ASSUME NEW s, NEW ss, Types, Table, Interning(s, ss), intern(s, ss)
  PROVE  Interned(s, ss)
BY InternNew, InternKnown DEF intern

-----------------------------------------------------------------------------
(***************************************************************************)
(* The steps.                                                              *)
(***************************************************************************)
LEMMA StaticProperties ==
  /\ Static = 1..3 /\ Len(StaticNames) = 3
  /\ \A i \in 1..3 : StaticNames[i] \in Texts /\ StaticNames[i] \notin PrimNames
<1>1. Static = 1..3 /\ Len(StaticNames) = 3
  BY DEF Static, StaticNames
<1>2. \A i \in 1..3 : StaticNames[i] \in Texts
  BY <1>1 DEF Texts, ToSet, Static
<1> QED BY <1>1, <1>2, SymtabAssumption DEF Static

(* The order in which the primitives are declared has each of them once.   *)
LEMMA PrimOrder ==
  /\ Cardinality(PrimNames) \in Nat
  /\ SetToSeq(PrimNames) \in [1..Cardinality(PrimNames) -> PrimNames]
  /\ \A i, j \in 1..Cardinality(PrimNames) :
       SetToSeq(PrimNames)[i] = SetToSeq(PrimNames)[j] => i = j
<1> DEFINE n == Cardinality(PrimNames)
<1>1. n \in Nat /\ ExistsBijection(1..n, PrimNames)
  BY SymtabAssumption, FS_CardinalityType
<1>2. \E f \in [1..n -> PrimNames] : IsInjective(f)
  BY <1>1 DEF ExistsBijection, Bijection, Injection
<1>3. SetToSeq(PrimNames) \in [1..n -> PrimNames] /\ IsInjective(SetToSeq(PrimNames))
  BY <1>2 DEF SetToSeq
<1> QED BY <1>1, <1>3 DEF IsInjective

LEMMA Allocated ==
  ASSUME NEW n \in Texts, Types
  PROVE  LET ss == Append(strings, String(n))
         IN  /\ ss \in Seq(Strings) /\ Len(ss) = Len(strings) + 1
             /\ \A i \in 1..Len(strings) : ss[i] = strings[i]
             /\ ss[Len(strings) + 1] = String(n)
             /\ ~Named(tab, Len(strings) + 1)
<1>1. strings \in Seq(Strings) /\ String(n) \in Strings
  BY DEF Types, Strings, String
<1>2. \A k \in 1..Len(tab) : tab[k].string \in 1..Len(strings)
  BY EntryFields DEF Types
<1>3. ~Named(tab, Len(strings) + 1)
  BY <1>1, <1>2 DEF Named
<1> QED BY <1>1, <1>3

LEMMA InitIInv == Init => IInv
<1> SUFFICES ASSUME Init PROVE IInv
  OBVIOUS
<1>1. /\ Len(strings) = 3 /\ strings \in Seq(Strings)
      /\ \A i \in 1..3 : strings[i] = String(StaticNames[i])
  <2>1. /\ strings = [i \in 1..3 |-> String(StaticNames[i])]
        /\ \A i \in 1..3 : String(StaticNames[i]) \in Strings
    BY StaticProperties DEF Init, Strings, String
  <2>2. strings \in [1..3 -> Strings]
    BY <2>1
  <2> QED BY <2>1, <2>2
<1>2. /\ Len(tab) = 3 /\ tab \in Seq(Entries(3))
      /\ \A k \in 1..3 : tab[k] = [string |-> 4 - k, cell |-> 4 - k]
  <2> DEFINE es == [i \in 1..3 |-> [string |-> i, cell |-> i]]
  <2>1. Len(es) = 3 /\ tab = Reverse(es)
    BY StaticProperties DEF Init
  <2>2. tab = [k \in 1..3 |-> es[4 - k]]
    BY <2>1 DEF Reverse
  <2>3. \A k \in 1..3 : tab[k] = [string |-> 4 - k, cell |-> 4 - k]
    BY <2>2
  <2>4. \A k \in 1..3 : [string |-> 4 - k, cell |-> 4 - k] \in Entries(3)
    BY DEF Entries
  <2> QED BY <2>2, <2>3, <2>4
<1>3. /\ prims = <<>> /\ Len(prims) = 0 /\ prims \in Seq(1..3)
      /\ tok = Nothing /\ phase = "declaring" /\ lost = {}
  BY DEF Init
<1>4. Types
  BY <1>1, <1>2, <1>3 DEF Types
<1>5. Table
  <2>1. \A j \in 1..3, k \in 1..3 : StaticNames[4 - j] = StaticNames[4 - k] => j = k
    BY DEF StaticNames
  <2>2. \A k \in 1..3 : strings[tab[k].string].text = StaticNames[4 - k]
    BY <1>1, <1>2 DEF String
  <2> QED BY <1>2, <2>1, <2>2 DEF Table
<1>6. Declared
  BY <1>1, <1>3 DEF Declared, String
<1>7. Owned
  BY <1>1, <1>3 DEF Owned, String, Nothing
<1> QED BY <1>4, <1>5, <1>6, <1>7 DEF IInv

(* A step that leaves the table, the names of the strings and those of the *)
(* primitives as they are.                                                 *)
LEMMA AlonePreserves ==
  ASSUME IInv, UNCHANGED <<tab, prims>>, phase # "destroyed", phase' # "destroyed",
         strings' \in Seq(Strings), Len(strings') >= Len(strings),
         \A i \in 1..Len(strings) : strings'[i].text = strings[i].text,
         Types', Owned', phase' = "declaring" => UNCHANGED <<strings, tok, phase>>,
         phase' \notin {"loading", "reading"} => tok' = Nothing
  PROVE  IInv'
<1>1. \A k \in 1..Len(tab) : tab[k].string \in 1..Len(strings)
  BY EntryFields DEF IInv, Types
<1>2. Table'
  <2>1. \A k \in 1..Len(tab) : strings'[tab'[k].string].text = strings[tab[k].string].text
    BY <1>1
  <2> QED BY <2>1 DEF IInv, Table
<1>3. Declared'
  BY DEF IInv, Declared
<1> QED BY <1>2, <1>3 DEF IInv

LEMMA DECLARE_Preserves ==
  ASSUME IInv, DECLARE
  PROVE  IInv'
<1> DEFINE n  == Len(strings) + 1
           p  == SetToSeq(PrimNames)[Len(prims) + 1]
           ss == Append(strings, String(p))
<1>1. /\ phase = "declaring" /\ tok = Nothing /\ UNCHANGED <<tok, lost>>
      /\ Len(strings) = Len(prims) + 3 /\ Len(prims) < Cardinality(PrimNames)
      /\ Len(prims) \in Nat /\ Len(strings) \in Nat /\ prims \in Seq(1..Len(strings))
      /\ intern(n, ss) /\ prims' = Append(prims, n)
      /\ phase' \in {"declaring", "loading"}
  BY DEF DECLARE, IInv, Types, Declared, NewString
<1>2. Len(prims) + 1 \in 1..Cardinality(PrimNames) /\ p \in PrimNames
  BY <1>1, PrimOrder
<1>3. p \in Texts
  BY <1>2 DEF Texts
<1>4. /\ ss \in Seq(Strings) /\ Len(ss) = n /\ \A i \in 1..Len(strings) : ss[i] = strings[i]
      /\ ss[n] = String(p) /\ ~Named(tab, n)
  BY <1>3, Allocated DEF IInv
<1>5. Interning(n, ss)
  BY <1>1, <1>4 DEF Interning
<1>6. lookup(tab, ss, p) = 0
  <2>1. ASSUME NEW k \in 1..Len(tab)
        PROVE  ss[tab[k].string].text # p
    <3>1. tab[k].string \in 1..Len(strings)
      BY EntryFields DEF IInv, Types
    <3>2. CASE tab[k].string <= 3
      <4>1. tab[k].string \in 1..3
        BY <3>1, <3>2
      <4>2. \A i \in 1..3 : strings[i].text = StaticNames[i]
        BY <1>1, Zenon DEF IInv, Declared
      <4>3. ss[tab[k].string].text = StaticNames[tab[k].string]
        BY <1>4, <3>1, <4>1, <4>2
      <4> QED BY <1>2, <4>1, <4>3, StaticProperties
    <3>3. CASE tab[k].string > 3
      <4> DEFINE i == tab[k].string - 3
      <4>1. i \in 1..Len(prims) /\ i + 3 = tab[k].string
        BY <1>1, <3>1, <3>3
      <4>2. strings[tab[k].string].text = SetToSeq(PrimNames)[i]
        BY <1>1, <4>1 DEF IInv, Declared
      <4>3. i \in 1..Cardinality(PrimNames) /\ i # Len(prims) + 1
        BY <1>1, <1>2, <4>1, PrimOrder
      <4> QED BY <1>2, <1>4, <3>1, <4>2, <4>3, PrimOrder
    <3> QED BY <1>1, <3>1, <3>2, <3>3
  <2>2. Len(tab) \in Nat
    BY DEF IInv, Types
  <2> QED BY <2>1, <2>2, LookupMisses
<1>7. lookup(tab, ss, ss[n].text) = 0
  BY <1>4, <1>6 DEF String
<1>8. push(n, NewCell) /\ strings' = ss
  BY <1>1, <1>7 DEF intern
<1>9. Interned(n, ss) /\ Named(tab', n)
  BY <1>5, <1>7, <1>8, InternNew DEF IInv
<1>10. /\ prims' \in Seq(1..n) /\ Len(prims') = Len(prims) + 1
       /\ \A k \in 1..Len(prims) : prims'[k] = prims[k]
       /\ prims'[Len(prims) + 1] = n
  <2>1. 1..Len(strings) \subseteq 1..n /\ n \in 1..n
    BY <1>1
  <2>2. prims \in Seq(1..n)
    BY <1>1, <2>1, SeqMonotonic
  <2> QED BY <1>1, <2>1, <2>2
<1>11. Types'
  BY <1>1, <1>4, <1>8, <1>9, <1>10 DEF IInv, Types, Interned, Nothing
<1>12. Declared'
  <2>1. ASSUME NEW i \in 1..(Len(prims) + 1)
        PROVE  strings'[i + 3].text = SetToSeq(PrimNames)[i]
    <3>1. CASE i = Len(prims) + 1
      BY <1>1, <1>4, <1>8, <3>1 DEF String
    <3>2. CASE i # Len(prims) + 1
      <4>1. i \in 1..Len(prims) /\ i + 3 \in 1..Len(strings)
        BY <1>1, <3>2
      <4> QED BY <1>1, <1>4, <1>8, <4>1 DEF IInv, Declared
    <3> QED BY <3>1, <3>2
  <2>2. \A i \in 1..3 : strings'[i].text = StaticNames[i]
    <3>1. \A i \in 1..3 : i \in 1..Len(strings)
      BY <1>1
    <3> QED BY <1>1, <1>4, <1>8, <3>1 DEF IInv, Declared
  <2>3. ASSUME NEW k \in 1..(Len(prims) + 1)
        PROVE  Named(tab', prims'[k])
    <3>1. CASE k = Len(prims) + 1
      BY <1>9, <1>10, <3>1
    <3>2. CASE k # Len(prims) + 1
      <4>1. k \in 1..Len(prims)
        BY <1>1, <3>2
      <4>2. Named(tab, prims[k])
        BY <4>1 DEF IInv, Declared, Named
      <4>3. prims[k] \in 1..Len(ss)
        BY <1>1, <1>4, <4>1
      <4>4. Named(tab', prims[k])
        BY <1>9, <4>2, <4>3 DEF Interned
      <4> QED BY <1>10, <4>1, <4>4
    <3> QED BY <3>1, <3>2
  <2>4. \A k \in 1..Len(prims') : \E j \in 1..Len(tab') : tab'[j].string = prims'[k]
    BY <1>10, <2>3 DEF Named
  <2>5. tok' = Nothing /\ phase' \in {"declaring", "loading"}
    BY <1>1
  <2>6. Len(strings') = Len(prims') + 3
    BY <1>1, <1>4, <1>8, <1>10
  <2>7. \A i \in 1..Len(prims') : strings'[i + 3].text = SetToSeq(PrimNames)[i]
    BY <1>10, <2>1
  <2> QED BY <2>2, <2>4, <2>5, <2>6, <2>7 DEF Declared, Nothing
<1>13. Owned'
  <2>1. ASSUME NEW i \in 1..n, i # n
        PROVE  /\ i \in 1..Len(strings) /\ strings'[i].frees = strings[i].frees
               /\ One(Named(tab', i)) = One(Named(tab, i))
    <3>1. i \in 1..Len(strings) /\ strings'[i] = strings[i]
      BY <1>1, <1>4, <1>8, <2>1
    <3>2. strings[i].frees \in Nat
      BY <3>1, StringFields DEF IInv, Types
    <3>3. One(Named(tab', i)) + strings'[i].frees = One(Named(tab, i)) + ss[i].frees + One(i = n)
      BY <1>4, <1>9, <2>1 DEF Interned
    <3> QED BY <1>8, <2>1, <3>1, <3>2, <3>3 DEF One
  <2>2. One(Named(tab', n)) + strings'[n].frees = 1
    BY <1>4, <1>8, <1>9 DEF One, String
  <2>3. n > 3 /\ n \notin lost /\ tok.payload = 0
    BY <1>1 DEF IInv, Types, Nothing
  <2> QED
    <3>1. ASSUME NEW i \in 1..n, i # n
          PROVE  /\ i <= 3 => strings'[i].frees = 0 /\ tok.payload # i /\ i \notin lost
                 /\ i > 3 => One(Named(tab', i)) + One(tok.payload = i) + One(i \in lost)
                               + strings'[i].frees = 1
      BY <2>1, <3>1 DEF IInv, Owned
    <3>2. One(Named(tab', n)) + One(tok.payload = n) + One(n \in lost) + strings'[n].frees = 1
      BY <1>1, <1>4, <1>8, <2>2, <2>3 DEF One, String
    <3> QED BY <1>1, <1>4, <1>8, <2>3, <3>1, <3>2 DEF Owned
<1> QED BY <1>9, <1>11, <1>12, <1>13 DEF IInv, Interned

(* A new string of a token, whoever owns it then.                          *)
LEMMA get_token_Preserves ==
  ASSUME NEW n \in Names, NEW type \in {"symbol", "string"},
         IInv, get_token(type, n) \/ get_token_eof(n)
  PROVE  IInv'
<1> DEFINE m == Len(strings) + 1
<1>1. n \in Texts
  BY DEF Texts
<1>2. /\ phase \in {"loading", "reading"} /\ tok = Nothing /\ UNCHANGED <<tab, prims>>
      /\ strings' = Append(strings, String(n))
      /\ phase' \in {"loading", "reading", "ended"}
  BY DEF get_token, get_token_eof, Reads, EndInput
<1>3. \/ tok' = [type |-> type, payload |-> m] /\ lost' = lost
      \/ tok' = Nothing /\ lost' = lost \cup {m}
  BY <1>2 DEF get_token, get_token_eof, NewString
<1>4. /\ strings' \in Seq(Strings) /\ Len(strings') = m
      /\ \A i \in 1..Len(strings) : strings'[i] = strings[i]
      /\ strings'[m] = String(n) /\ ~Named(tab, m)
  BY <1>1, <1>2, Allocated DEF IInv
<1>5. Len(strings) \in Nat /\ Len(strings) >= 3 /\ lost \subseteq 1..Len(strings)
  BY DEF IInv, Types
<1>6. Types'
  <2>1. tab' \in Seq(Entries(m))
    BY <1>2, <1>5, EntriesGrow DEF IInv, Types
  <2>2. prims' \in Seq(1..m)
    <3>1. 1..Len(strings) \subseteq 1..m
      BY <1>5
    <3> QED BY <1>2, <3>1, SeqMonotonic DEF IInv, Types
  <2>3. lost' \subseteq 1..m
    <3>1. 1..Len(strings) \subseteq 1..m /\ m \in 1..m
      BY <1>5
    <3> QED BY <1>3, <1>5, <3>1
  <2>4. tok' \in {Nothing} \cup [type : {"symbol", "string"}, payload : 1..m]
    BY <1>3, <1>5
  <2> QED BY <1>2, <1>4, <1>5, <2>1, <2>2, <2>3, <2>4 DEF Types
<1>7. Owned'
  <2>1. ASSUME NEW i \in 1..m, i # m
        PROVE  /\ i <= 3 => strings'[i].frees = 0 /\ tok'.payload # i /\ i \notin lost'
               /\ i > 3 => One(Named(tab', i)) + One(tok'.payload = i) + One(i \in lost')
                             + strings'[i].frees = 1
    <3>1. i \in 1..Len(strings)
      BY <1>5, <2>1
    <3>2. /\ strings'[i].frees = strings[i].frees
          /\ tok.payload # i /\ tok'.payload # i /\ (i \in lost' <=> i \in lost)
      BY <1>2, <1>3, <1>4, <2>1, <3>1 DEF Nothing
    <3>3. One(tok'.payload = i) = One(tok.payload = i) /\ One(i \in lost') = One(i \in lost)
      BY <3>2 DEF One
    <3> QED BY <1>2, <3>1, <3>2, <3>3 DEF IInv, Owned
  <2>2. One(Named(tab', m)) + One(tok'.payload = m) + One(m \in lost') + strings'[m].frees = 1
    BY <1>2, <1>3, <1>4, <1>5 DEF One, Nothing, String
  <2>3. m > 3
    BY <1>5
  <2> QED BY <1>4, <2>1, <2>2, <2>3 DEF Owned
<1>8. phase' \notin {"loading", "reading"} => tok' = Nothing
  BY <1>2 DEF get_token, get_token_eof, EndInput
<1> QED BY <1>2, <1>4, <1>5, <1>6, <1>7, <1>8, AlonePreserves

LEMMA end_of_input_Preserves ==
  ASSUME IInv, end_of_input
  PROVE  IInv'
<1>1. /\ phase \in {"loading", "reading"} /\ phase' \in {"reading", "ended"}
      /\ UNCHANGED <<tab, strings, prims, tok, lost>>
      /\ tok = Nothing
  BY DEF end_of_input, Reads, EndInput
<1>2. Types'
  BY <1>1 DEF IInv, Types
<1>3. Owned'
  BY <1>1 DEF IInv, Owned
<1>4. strings \in Seq(Strings) /\ Len(strings) \in Nat
  BY DEF IInv, Types
<1> QED BY <1>1, <1>2, <1>3, <1>4, AlonePreserves

(* The token is in hand: its payload is no static string, and nobody else  *)
(* has it.                                                                 *)
LEMMA PayloadProperties ==
  ASSUME IInv, tok.type \in {"symbol", "string"}
  PROVE  /\ tok.payload \in 1..Len(strings) /\ tok.payload > 3
         /\ phase \in {"loading", "reading"}
<1>1. tok # Nothing
  BY DEF Nothing
<1>2. tok \in [type : {"symbol", "string"}, payload : 1..Len(strings)]
  BY <1>1 DEF IInv, Types
<1>3. tok.payload \in 1..Len(strings) /\ Len(strings) \in Nat
  BY <1>2 DEF IInv, Types
<1> QED BY <1>1, <1>3 DEF IInv, Owned, Declared

(* The payload of the token has gone to the table or has been freed.       *)
LEMMA OwnedWithoutToken ==
  ASSUME IInv, tok' = Nothing, lost' = lost, Len(strings') = Len(strings),
         tok.payload \in 1..Len(strings), tok.payload > 3,
         \A i \in 1..Len(strings) :
           One(Named(tab', i)) + strings'[i].frees
             = One(Named(tab, i)) + strings[i].frees + One(i = tok.payload),
         \A i \in 1..3 : strings'[i].frees = strings[i].frees,
         \A i \in 1..Len(strings) : strings'[i].frees \in Nat
  PROVE  Owned'
<1> SUFFICES ASSUME NEW i \in 1..Len(strings)
             PROVE  /\ i <= 3 => strings'[i].frees = 0 /\ tok'.payload # i /\ i \notin lost'
                    /\ i > 3 => One(Named(tab', i)) + One(tok'.payload = i) + One(i \in lost')
                                  + strings'[i].frees = 1
  BY DEF Owned
<1>1. Len(strings) \in Nat /\ Len(strings) >= 3 /\ strings[i].frees \in Nat
  BY StringFields DEF IInv, Types
<1>2. tok'.payload = 0 /\ i # 0 /\ i \in Nat
  BY <1>1 DEF Nothing
<1>3. One(tok'.payload = i) = 0 /\ One(tok.payload = i) = One(i = tok.payload)
  BY <1>2 DEF One
<1>4. /\ One(i = tok.payload) \in Nat /\ One(i \in lost) \in Nat
      /\ One(Named(tab, i)) \in Nat /\ One(Named(tab', i)) \in Nat
  BY DEF One
<1>5. i <= 3 => strings[i].frees = 0 /\ i \notin lost
  BY DEF IInv, Owned
<1>6. i > 3 => One(Named(tab, i)) + One(tok.payload = i) + One(i \in lost) + strings[i].frees = 1
  BY DEF IInv, Owned
<1>7. One(Named(tab', i)) + strings'[i].frees
        = One(Named(tab, i)) + strings[i].frees + One(tok.payload = i)
  BY <1>3
<1>8. /\ i <= 3 => strings'[i].frees = strings[i].frees
      /\ strings'[i].frees \in Nat /\ i \in Nat /\ i # 0
  BY <1>1
<1>9. i > 3 => One(Named(tab', i)) + One(i \in lost) + strings'[i].frees = 1
  <2> DEFINE a == One(Named(tab, i))  b == One(Named(tab', i))
             l == One(i \in lost)     t == One(tok.payload = i)
             f == strings[i].frees    g == strings'[i].frees
  <2>1. /\ a \in Nat /\ b \in Nat /\ l \in Nat /\ t \in Nat /\ f \in Nat /\ g \in Nat
        /\ b + g = a + f + t
        /\ i > 3 => a + t + l + f = 1
    BY <1>1, <1>3, <1>4, <1>6, <1>7, <1>8
  <2> HIDE DEF a, b, l, t, f, g
  <2>2. i > 3 => b + l + g = 1
    BY <2>1
  <2> QED BY <2>2 DEF b, l, g
<1> QED BY <1>2, <1>3, <1>4, <1>5, <1>8, <1>9

LEMMA read_symbol_Preserves ==
  ASSUME IInv, read_symbol
  PROVE  IInv'
<1> DEFINE p == tok.payload
<1>1. /\ tok.type = "symbol" /\ intern(p, strings) /\ tok' = Nothing
      /\ UNCHANGED <<prims, phase, lost>>
  BY DEF read_symbol
<1>2. p \in 1..Len(strings) /\ p > 3 /\ phase \in {"loading", "reading"}
  BY <1>1, PayloadProperties
<1>3. strings \in Seq(Strings) /\ Len(strings) \in Nat /\ Len(strings) >= 3
  BY DEF IInv, Types
<1>4. Interning(p, strings)
  BY <1>1, <1>2, <1>3 DEF Interning
<1>5. Interned(p, strings)
  BY <1>1, <1>4, InternProperties DEF IInv
<1>6. /\ strings' \in Seq(Strings) /\ Len(strings') = Len(strings)
      /\ \A i \in 1..Len(strings) : strings'[i].text = strings[i].text
      /\ tab' \in Seq(Entries(Len(strings))) /\ Table'
      /\ \A i \in 1..Len(strings) : Named(tab, i) => Named(tab', i)
  BY <1>5 DEF Interned
<1>7. Types'
  BY <1>1, <1>3, <1>6 DEF IInv, Types
<1>8. Declared'
  <2>1. \A k \in 1..Len(prims) : prims[k] \in 1..Len(strings)
    BY DEF IInv, Types
  <2>2. \A k \in 1..Len(prims) : Named(tab, prims[k])
    BY DEF IInv, Declared, Named
  <2>3. \A k \in 1..Len(prims) : Named(tab', prims[k])
    BY <1>6, <2>1, <2>2
  <2> QED BY <1>1, <1>2, <2>3 DEF Declared, Named
<1>9. Owned'
  <2>1. \A i \in 1..Len(strings) : strings'[i].frees \in Nat
    BY <1>6, StringFields
  <2>2. ASSUME NEW i \in 1..3
        PROVE  strings'[i].frees = strings[i].frees
    <3>1. i \in 1..Len(strings) /\ i # p
      BY <1>2, <1>3
    <3>2. /\ strings'[i].frees \in Nat /\ strings[i].frees \in Nat
          /\ One(Named(tab', i)) + strings'[i].frees
               = One(Named(tab, i)) + strings[i].frees + One(i = p)
      BY <1>3, <1>5, <2>1, <3>1, StringFields DEF Interned
    <3>3. Named(tab, i)
      <4>1. Len(tab) \in Nat /\ Len(tab) >= 3 /\ tab[Len(tab) + 1 - i].string = i
        BY <1>2 DEF IInv, Types, Table
      <4>2. Len(tab) + 1 - i \in 1..Len(tab)
        BY <4>1
      <4> QED BY <4>1, <4>2 DEF Named
    <3>4. One(Named(tab, i)) = 1 /\ One(Named(tab', i)) = 1 /\ One(i = p) = 0
      BY <1>6, <3>1, <3>3 DEF One
    <3> QED BY <3>2, <3>4
  <2> QED BY <1>1, <1>2, <1>5, <1>6, <2>1, <2>2, OwnedWithoutToken DEF Interned
<1> QED BY <1>6, <1>7, <1>8, <1>9 DEF IInv

LEMMA read_string_Preserves ==
  ASSUME IInv, read_string
  PROVE  IInv'
<1> DEFINE p == tok.payload
<1>1. /\ tok.type = "string" /\ strings' = free_malloced(strings, p) /\ tok' = Nothing
      /\ UNCHANGED <<tab, prims, phase, lost>>
  BY DEF read_string
<1>2. p \in 1..Len(strings) /\ p > 3 /\ phase \in {"loading", "reading"}
  BY <1>1, PayloadProperties
<1>3. strings \in Seq(Strings) /\ Len(strings) \in Nat /\ Len(strings) >= 3
  BY DEF IInv, Types
<1>4. /\ strings' \in Seq(Strings) /\ Len(strings') = Len(strings)
      /\ \A i \in 1..Len(strings) : strings'[i].text = strings[i].text
      /\ \A i \in 1..Len(strings) : strings'[i].frees = strings[i].frees + One(i = p)
  BY <1>1, <1>2, <1>3, Freed
<1>5. Types'
  BY <1>1, <1>3, <1>4 DEF IInv, Types
<1>6. Owned'
  <2>1. \A i \in 1..Len(strings) : strings'[i].frees \in Nat /\ strings[i].frees \in Nat
    BY <1>3, <1>4, StringFields
  <2>2. ASSUME NEW i \in 1..Len(strings)
        PROVE  One(Named(tab', i)) + strings'[i].frees
                 = One(Named(tab, i)) + strings[i].frees + One(i = p)
    <3>1. One(Named(tab', i)) = One(Named(tab, i)) /\ One(Named(tab, i)) \in Nat /\ One(i = p) \in Nat
      BY <1>1 DEF One
    <3> QED BY <1>4, <2>1, <3>1
  <2>3. \A i \in 1..3 : strings'[i].frees = strings[i].frees
    <3>1. \A i \in 1..3 : i \in 1..Len(strings) /\ i # p
      BY <1>2, <1>3
    <3> QED BY <1>4, <2>1, <3>1 DEF One
  <2> QED BY <1>1, <1>2, <1>4, <2>1, <2>2, <2>3, OwnedWithoutToken
<1> QED BY <1>1, <1>2, <1>3, <1>4, <1>5, <1>6, AlonePreserves

(* The entries of a string: one, or none.                                  *)
LEMMA OwnersProperties ==
  ASSUME IInv, NEW i, NEW K \in SUBSET (DOMAIN tab), \A k \in K : tab[k].string = i
  PROVE  \/ K = {} /\ Cardinality(K) = 0
         \/ \E k \in 1..Len(tab) : K = {k} /\ Cardinality(K) = 1
<1>1. DOMAIN tab = 1..Len(tab)
  BY DEF IInv, Types
<1>2. \A j, k \in K : j = k
  BY <1>1 DEF IInv, Table
<1>3. CASE K = {}
  BY <1>3, FS_EmptySet
<1>4. CASE K # {}
  <2>1. PICK k \in K : TRUE
    BY <1>4
  <2>2. K = {k} /\ k \in 1..Len(tab)
    BY <1>1, <1>2, <2>1
  <2> QED BY <2>2, FS_Singleton
<1> QED BY <1>3, <1>4

LEMMA destroy_Preserves ==
  ASSUME IInv, destroy
  PROVE  IInv'
<1> DEFINE K(i) == {k \in DOMAIN tab : tab[k].string = i /\ freeable_symbol(tab[k])}
<1>1. /\ phase = "ended" /\ phase' = "destroyed" /\ tab' = <<>> /\ prims' = <<>>
      /\ tok = Nothing /\ UNCHANGED <<tok, lost>>
      /\ strings' = [i \in DOMAIN strings |-> [strings[i] EXCEPT !.frees = @ + Cardinality(K(i))]]
  BY DEF destroy, IInv, Declared
<1>2. /\ strings \in Seq(Strings) /\ Len(strings) \in Nat /\ Len(strings) >= 3
      /\ DOMAIN strings = 1..Len(strings) /\ DOMAIN tab = 1..Len(tab) /\ Len(tab) \in Nat
  BY DEF IInv, Types
<1>3. ASSUME NEW i \in 1..Len(strings)
      PROVE  Cardinality(K(i)) = IF i > 3 /\ Named(tab, i) THEN 1 ELSE 0
  <2>1. \/ K(i) = {} /\ Cardinality(K(i)) = 0
        \/ \E k \in 1..Len(tab) : K(i) = {k} /\ Cardinality(K(i)) = 1
    BY OwnersProperties
  <2>2. ASSUME NEW k \in 1..Len(tab), tab[k].string = i
        PROVE  freeable_symbol(tab[k]) <=> i > 3
    <3>1. tab[k].cell = Len(tab) + 1 - k
      BY DEF IInv, Table
    <3>2. Len(tab) >= 3 /\ \A c \in 1..3 : tab[Len(tab) + 1 - c].string = c
      BY <1>1 DEF IInv, Table
    <3>3. ASSUME i <= 3 PROVE tab[k].cell \in 1..3
      <4> DEFINE m == Len(tab) + 1 - i
      <4>1. i \in 1..3 /\ m \in 1..Len(tab) /\ tab[m].string = i
        BY <1>2, <3>2, <3>3
      <4>2. m = k
        BY <2>2, <4>1 DEF IInv, Table
      <4> QED BY <1>2, <3>1, <4>1, <4>2
    <3>4. ASSUME tab[k].cell \in 1..3 PROVE i <= 3
      <4>1. Len(tab) + 1 - tab[k].cell = k
        BY <1>2, <3>1
      <4> QED BY <2>2, <3>2, <3>4, <4>1
    <3> QED BY <3>3, <3>4, StaticProperties DEF freeable_symbol
  <2>3. i > 3 /\ Named(tab, i) <=> K(i) # {}
    BY <1>2, <2>2 DEF Named
  <2> QED BY <2>1, <2>3
<1>4. /\ strings' \in Seq(Strings) /\ Len(strings') = Len(strings)
      /\ \A i \in 1..Len(strings) :
           strings'[i].frees = strings[i].frees + (IF i > 3 /\ Named(tab, i) THEN 1 ELSE 0)
  <2>1. ASSUME NEW i \in 1..Len(strings)
        PROVE  /\ strings'[i] \in Strings
               /\ strings'[i].frees = strings[i].frees + (IF i > 3 /\ Named(tab, i) THEN 1 ELSE 0)
    <3>1. strings[i] \in Strings /\ strings[i].frees \in Nat
      BY <1>2, StringFields
    <3>2. strings'[i] = [strings[i] EXCEPT !.frees = strings[i].frees + Cardinality(K(i))]
      BY <1>1, <1>2
    <3> QED BY <1>3, <3>1, <3>2 DEF Strings
  <2>2. strings' \in [1..Len(strings) -> Strings]
    BY <1>1, <1>2, <2>1
  <2> QED BY <1>2, <2>1, <2>2
<1>5. \A i : ~Named(tab', i)
  <2>1. Len(<<>>) = 0
    OBVIOUS
  <2> QED BY <1>1, <2>1 DEF Named
<1>6. Types'
  <2>1. <<>> \in Seq(Entries(Len(strings))) /\ <<>> \in Seq(1..Len(strings))
    OBVIOUS
  <2> QED BY <1>1, <1>2, <1>4, <2>1 DEF IInv, Types
<1>7. Table' /\ Declared'
  <2>1. Len(tab') = 0 /\ Len(prims') = 0
    BY <1>1
  <2> QED BY <1>1, <2>1 DEF Table, Declared
<1>8. Owned'
  <2>1. ASSUME NEW i \in 1..Len(strings)
        PROVE  /\ i <= 3 => strings'[i].frees = 0 /\ tok'.payload # i /\ i \notin lost'
               /\ i > 3 => One(Named(tab', i)) + One(tok'.payload = i) + One(i \in lost')
                             + strings'[i].frees = 1
    <3>1. strings[i].frees \in Nat
      BY <1>2, StringFields
    <3>2. ASSUME i <= 3
          PROVE  strings'[i].frees = 0 /\ tok'.payload # i /\ i \notin lost'
      <4>1. strings[i].frees = 0 /\ tok.payload # i /\ i \notin lost
        BY <3>2 DEF IInv, Owned
      <4>2. ~(i > 3)
        BY <1>2, <3>2
      <4>3. strings'[i].frees = strings[i].frees + 0
        BY <1>4, <4>2
      <4> QED BY <1>1, <4>1, <4>3
    <3>3. ASSUME i > 3
          PROVE  One(Named(tab', i)) + One(tok'.payload = i) + One(i \in lost')
                   + strings'[i].frees = 1
      <4>1. One(Named(tab, i)) + One(tok.payload = i) + One(i \in lost) + strings[i].frees = 1
        BY <3>3 DEF IInv, Owned
      <4>2. One(tok'.payload = i) = One(tok.payload = i) /\ One(i \in lost') = One(i \in lost)
        BY <1>1
      <4>3. strings'[i].frees = strings[i].frees + One(Named(tab, i)) /\ One(Named(tab', i)) = 0
        BY <1>4, <1>5, <3>3 DEF One
      <4>4. One(tok.payload = i) \in Nat /\ One(i \in lost) \in Nat /\ One(Named(tab, i)) \in Nat
        BY DEF One
      <4> DEFINE a == One(Named(tab, i))  t == One(tok.payload = i)  l == One(i \in lost)
                 f == strings[i].frees    g == strings'[i].frees
      <4>5. /\ a \in Nat /\ t \in Nat /\ l \in Nat /\ f \in Nat
            /\ a + t + l + f = 1 /\ g = f + a
        BY <3>1, <4>1, <4>3, <4>4
      <4> HIDE DEF a, t, l, f, g
      <4>6. 0 + t + l + g = 1
        BY <4>5
      <4> QED BY <4>2, <4>3, <4>6 DEF t, l, g
    <3> QED BY <3>2, <3>3
  <2> QED BY <1>4, <2>1 DEF Owned
<1> QED BY <1>6, <1>7, <1>8 DEF IInv

LEMMA StepIInv == IInv /\ [Next]_vars => IInv'
<1> SUFFICES ASSUME IInv, [Next]_vars PROVE IInv'
  OBVIOUS
<1>1. CASE \E n \in Names : get_token("symbol", n) \/ get_token("string", n) \/ get_token_eof(n)
  BY <1>1, get_token_Preserves
<1>2. CASE UNCHANGED vars
  <2>1. UNCHANGED <<tab, strings, prims, tok, phase, lost>>
    BY <1>2 DEF vars
  <2>2. Types' /\ Table' /\ Declared'
    BY <2>1 DEF IInv, Types, Table, Declared
  <2>3. Owned'
    BY <2>1 DEF IInv, Owned
  <2> QED BY <2>2, <2>3 DEF IInv
<1> QED
  BY <1>1, <1>2, DECLARE_Preserves, end_of_input_Preserves, read_symbol_Preserves,
     read_string_Preserves, destroy_Preserves DEF Next

LEMMA Invariance == Spec => []IInv
BY InitIInv, StepIInv, PTL DEF Spec

-----------------------------------------------------------------------------
(***************************************************************************)
(* What follows.                                                           *)
(***************************************************************************)

(* The types; a token with a payload is never confused with one that has   *)
(* none; and the cells of the table are numbered from its tail.            *)
THEOREM TypeCorrect == Spec => []TypeOK
<1>1. IInv => TypeOK
  <2> SUFFICES ASSUME IInv PROVE TypeOK
    OBVIOUS
  <2>1. DOMAIN strings = 1..Len(strings)
    BY DEF IInv, Types
  <2>2. \A i \in 1..Len(strings) : strings[i].frees \in Nat
    BY StringFields DEF IInv, Types
  <2>3. tok = Nothing \/ (tok.type \in {"symbol", "string"} /\ tok.payload \in 1..Len(strings))
    BY DEF IInv, Types
  <2>4. \A k \in DOMAIN tab : tab[k].cell = Len(tab) + 1 - k
    <3>1. DOMAIN tab = 1..Len(tab)
      BY DEF IInv, Types
    <3> QED BY <3>1, Zenon DEF IInv, Table
  <2> QED BY <2>1, <2>2, <2>3, <2>4 DEF IInv, Types, TypeOK, Entries
<1> QED BY <1>1, Invariance, PTL

(* eq? compares addresses: a name has one symbol, however often and        *)
(* wherever the program reads it, and a symbol has one name.               *)
THEOREM NamesAreUnique == Spec => []OneCellPerName
<1>1. IInv => OneCellPerName
  <2> SUFFICES ASSUME IInv PROVE OneCellPerName
    OBVIOUS
  <2>a. DOMAIN tab = 1..Len(tab)
    BY DEF IInv, Types
  <2> SUFFICES ASSUME NEW i \in 1..Len(tab), NEW j \in 1..Len(tab), i # j
               PROVE  /\ strings[tab[i].string].text # strings[tab[j].string].text
                      /\ tab[i].cell # tab[j].cell
    BY <2>a, Zenon DEF OneCellPerName
  <2>1. tab[i].cell = Len(tab) + 1 - i /\ tab[j].cell = Len(tab) + 1 - j /\ Len(tab) \in Nat
    BY DEF IInv, Table, Types
  <2>2. tab[i].cell # tab[j].cell
    BY <2>1
  <2> QED BY <2>2 DEF IInv, Table
<1> QED BY <1>1, Invariance, PTL

(* Nobody frees a name that a symbol or a primitive still prints.          *)
THEOREM NamesAreAlive == Spec => []NamesAlive
<1>1. IInv => NamesAlive
  <2> SUFFICES ASSUME IInv PROVE NamesAlive
    OBVIOUS
  <2>1. ASSUME NEW k \in 1..Len(tab)
        PROVE  strings[tab[k].string].frees = 0
    <3> DEFINE i == tab[k].string
    <3>1. i \in 1..Len(strings) /\ Len(strings) \in Nat /\ strings[i].frees \in Nat
      BY EntryFields, StringFields DEF IInv, Types
    <3>2. One(Named(tab, i)) = 1 /\ One(tok.payload = i) \in Nat /\ One(i \in lost) \in Nat
      BY DEF One, Named
    <3>3. i <= 3 => strings[i].frees = 0
      BY <3>1 DEF IInv, Owned
    <3>4. i > 3 => One(Named(tab, i)) + One(tok.payload = i) + One(i \in lost) + strings[i].frees = 1
      BY <3>1 DEF IInv, Owned
    <3>5. i > 3 => strings[i].frees = 0
      <4> DEFINE t == One(tok.payload = i)  l == One(i \in lost)  f == strings[i].frees
      <4>1. t \in Nat /\ l \in Nat /\ f \in Nat /\ (i > 3 => 1 + t + l + f = 1)
        BY <3>1, <3>2, <3>4
      <4> HIDE DEF t, l, f
      <4>2. i > 3 => f = 0
        BY <4>1
      <4> QED BY <4>2 DEF f
    <3> QED BY <3>1, <3>3, <3>5
  <2>2. \A k \in 1..Len(prims) : \E j \in 1..Len(tab) : tab[j].string = prims[k]
    BY DEF IInv, Declared
  <2>3. DOMAIN tab = 1..Len(tab) /\ DOMAIN prims = 1..Len(prims)
    BY DEF IInv, Types
  <2> QED BY <2>1, <2>2, <2>3 DEF NamesAlive
<1> QED BY <1>1, Invariance, PTL

(* "We also need to free or steal the payload part" (reader.c:33): every   *)
(* string that was ever allocated has one owner or was freed once, but for *)
(* the payloads that came with TOKEN_OK_EOF, which read_intern drops and   *)
(* nobody has any more (reader.c:22-25); and no static one was freed.      *)
THEOREM PayloadsHaveOneOwner == Spec => []PayloadsFreedOrStolen
<1>1. IInv => PayloadsFreedOrStolen
  <2> SUFFICES ASSUME IInv, NEW i \in 1..Len(strings)
               PROVE  IF i \in 1..3 THEN strings[i].frees = 0
                      ELSE Cardinality(Owners(i)) + (IF tok.payload = i THEN 1 ELSE 0)
                             + (IF i \in lost THEN 1 ELSE 0) + strings[i].frees = 1
    BY StaticProperties DEF IInv, Types, PayloadsFreedOrStolen
  <2>1. Cardinality(Owners(i)) = One(Named(tab, i))
    <3>1. Owners(i) \in SUBSET (DOMAIN tab) /\ \A k \in Owners(i) : tab[k].string = i
      BY DEF Owners
    <3>2. \/ Owners(i) = {} /\ Cardinality(Owners(i)) = 0
          \/ \E k \in 1..Len(tab) : Owners(i) = {k} /\ Cardinality(Owners(i)) = 1
      BY <3>1, OwnersProperties
    <3>3. Owners(i) # {} <=> Named(tab, i)
      BY DEF Owners, Named, IInv, Types
    <3> QED BY <3>2, <3>3 DEF One
  <2>2. i <= 3 <=> i \in 1..3
    BY DEF IInv, Types
  <2>3. ~(i <= 3) => i > 3
    BY DEF IInv, Types
  <2> QED BY <2>1, <2>2, <2>3 DEF IInv, Owned, One
<1> QED BY <1>1, Invariance, PTL

(* An entry put in front of the table hides none of those behind it.       *)
LEMMA PushStays ==
  ASSUME IInv, IInv', NEW s \in 1..Len(strings'), push(s, NewCell),
         \A i \in 1..Len(strings) : strings'[i].text = strings[i].text,
         Len(strings') >= Len(strings)
  PROVE  \A k \in DOMAIN tab :
           lookup(tab', strings', strings[tab[k].string].text) = tab[k].cell
<1> DEFINE n == Len(tab)
           e == [string |-> s, cell |-> n + 1]
<1>1. /\ n \in Nat /\ DOMAIN tab = 1..n /\ tab \in Seq(Entries(Len(strings')))
      /\ e \in Entries(Len(strings'))
  <2>1. /\ n \in Nat /\ DOMAIN tab = 1..n /\ Len(strings') \in Nat /\ Len(strings) \in Nat
        /\ tab \in Seq(Entries(Len(strings)))
    BY DEF IInv, Types
  <2>2. tab \in Seq(Entries(Len(strings')))
    BY <2>1, EntriesGrow
  <2> QED BY <2>1, <2>2 DEF Entries
<1>2. Len(tab') = n + 1 /\ \A k \in 1..n : tab'[k + 1] = tab[k]
  BY <1>1, Pushed DEF push, NewCell
<1>3. ASSUME NEW k \in 1..n
      PROVE  lookup(tab', strings', strings[tab[k].string].text) = tab[k].cell
  <2>1. tab[k].string \in 1..Len(strings)
    BY EntryFields DEF IInv, Types
  <2>2. k + 1 \in 1..Len(tab') /\ tab'[k + 1] = tab[k] /\ Len(tab') \in Nat
    BY <1>1, <1>2
  <2>3. strings'[tab'[k + 1].string].text = strings[tab[k].string].text
    BY <2>1, <2>2
  <2>4. \A j \in 1..Len(tab') :
          strings'[tab'[j].string].text = strings[tab[k].string].text => j = k + 1
    BY <2>2, <2>3 DEF IInv, Table
  <2> DEFINE m == k + 1
             name == strings[tab[k].string].text
  <2>5. /\ Len(tab') \in Nat /\ m \in 1..Len(tab') /\ strings'[tab'[m].string].text = name
        /\ \A j \in 1..Len(tab') : strings'[tab'[j].string].text = name => j = m
    BY <2>2, <2>3, <2>4
  <2> HIDE DEF m, name
  <2>6. lookup(tab', strings', name) = tab'[m].cell
    BY <2>5, LookupFinds
  <2> QED BY <2>2, <2>6 DEF m, name
<1> QED BY <1>1, <1>3

(* A symbol that a program has got stays the symbol of its name.           *)
THEOREM SymbolsAreStable == Spec => SymbolsStay
<1> DEFINE A == phase' # "destroyed" =>
                  \A k \in DOMAIN tab :
                    lookup(tab', strings', strings[tab[k].string].text) = tab[k].cell
<1>1. IInv /\ IInv' /\ [Next]_vars => [A]_tab
  <2> SUFFICES ASSUME IInv, IInv', [Next]_vars, tab' # tab, phase' # "destroyed"
               PROVE  A
    OBVIOUS
  <2>1. strings \in Seq(Strings) /\ Len(strings) \in Nat /\ strings' \in Seq(Strings)
    BY DEF IInv, Types
  <2>2. CASE DECLARE
    <3>1. PICK n \in Texts : intern(NewString, Append(strings, String(n)))
      <4>1. Len(prims) + 1 \in 1..Cardinality(PrimNames)
        BY <2>2, PrimOrder DEF DECLARE, IInv, Types
      <4>2. SetToSeq(PrimNames)[Len(prims) + 1] \in Texts
        BY <4>1, PrimOrder DEF Texts
      <4> QED BY <2>2, <4>2 DEF DECLARE
    <3>2. push(NewString, NewCell) /\ strings' = Append(strings, String(n))
      BY <3>1 DEF intern
    <3>3. /\ Len(strings') = Len(strings) + 1
          /\ \A i \in 1..Len(strings) : strings'[i].text = strings[i].text
      BY <3>2, Allocated DEF IInv
    <3>4. Len(strings) + 1 \in 1..Len(strings') /\ Len(strings') >= Len(strings)
      BY <2>1, <3>3
    <3> QED BY <3>2, <3>3, <3>4, PushStays DEF NewString
  <2>3. CASE read_symbol
    <3>1. push(tok.payload, NewCell) /\ strings' = strings
      BY <2>3 DEF read_symbol, intern
    <3>2. tok.payload \in 1..Len(strings')
      BY <2>3, <3>1, PayloadProperties DEF read_symbol
    <3> QED BY <2>1, <3>1, <3>2, PushStays
  <2> QED
    BY <2>2, <2>3 DEF Next, get_token, get_token_eof, end_of_input, read_string, destroy, vars
<1> QED BY <1>1, Invariance, PTL DEF Spec, SymbolsStay
=============================================================================
