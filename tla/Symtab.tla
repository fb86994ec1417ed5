------------------------------- MODULE Symtab -------------------------------
(***************************************************************************)
(* The symbol table of symbol.c, and who owns a name: the tokenizer and    *)
(* the DECLARE macros allocate the string, intern keeps it for a new       *)
(* symbol and frees it for a known one, a primitive goes on using the      *)
(* string that it was declared with, and free_symtab frees what the table  *)
(* has kept, but not the three symbols of bootstrap.c, which are static.   *)
(*                                                                         *)
(* A string is its position in `strings', in the order of allocation, a    *)
(* cell a number.  Comparing 256 characters compares whole names: the      *)
(* tokenizer makes no longer ones.  (A name with a suffix is a mistaken    *)
(* variant of the definition after it.)                                    *)
(***************************************************************************)
EXTENDS Naturals, Sequences, FiniteSets, SequencesExt

CONSTANTS
  PrimNames,     \* the names of the primitives, each declared once
  Names,         \* bound: the symbols and the strings that programs contain
  MaxStrings     \* bound: allocations

StaticNames == <<"NIL", "FALSE", "T">>      \* nil_s, false_s and t_s

ASSUME SymtabAssumption ==
  /\ MaxStrings \in Nat
  /\ IsFiniteSet(PrimNames)
  /\ \A i \in DOMAIN StaticNames : StaticNames[i] \notin PrimNames

VARIABLES
  tab,       \* the table, newest entry first: [string, cell]
  strings,   \* [text, frees]: what every string contains, how often it was freed
  prims,     \* the strings that the primitives have as their names
  tok,       \* the payload of the token that the reader has got, or nothing
  phase,     \* "declaring", "loading" (the library), "reading" (the standard
             \* input), "ended" or "destroyed"
  lost       \* history: the payloads that went with the last token of an input

vars == <<tab, strings, prims, tok, phase, lost>>

Nothing     == [type |-> "none", payload |-> 0]
Static      == DOMAIN StaticNames      \* their strings, and their cells
String(n)   == [text |-> n, frees |-> 0]
NewString   == Len(strings) + 1
NewCell     == Len(tab) + 1            \* new(cell_t): one for each entry

free_malloced(ss, string) == [ss EXCEPT ![string].frees = @ + 1]

-----------------------------------------------------------------------------
(* _lookup walks the table from its head; 0 stands for NULL.               *)
lookup_AfterHead(t, ss, n) ==
  LET i == SelectInSeq(t, LAMBDA entry : ss[entry.string].text = n)
  IN  IF i < 2 THEN 0 ELSE t[i].cell

lookup(t, ss, n) ==
  LET i == SelectInSeq(t, LAMBDA entry : ss[entry.string].text = n)
  IN  IF i = 0 THEN 0 ELSE t[i].cell

push(string, cell) == tab' = <<[string |-> string, cell |-> cell]>> \o tab

(* intern(string), where ss has the string.                                *)
intern_Replaces(string, ss) ==      \* a new symbol, although there is one
  /\ push(string, NewCell)
  /\ strings' = ss

intern_FreesNot(string, ss) ==
  /\ strings' = ss
  /\ IF lookup(tab, ss, ss[string].text) = 0
     THEN push(string, NewCell)
     ELSE UNCHANGED tab

intern_FreesBoth(string, ss) ==
  /\ strings' = free_malloced(ss, string)
  /\ IF lookup(tab, ss, ss[string].text) = 0
     THEN push(string, NewCell)
     ELSE UNCHANGED tab

intern(string, ss) ==
  \/ /\ lookup(tab, ss, ss[string].text) = 0
     /\ push(string, NewCell)
     /\ strings' = ss
  \/ /\ lookup(tab, ss, ss[string].text) # 0
     /\ strings' = free_malloced(ss, string)
     /\ UNCHANGED tab

(* boot.                                                                   *)
Init ==
  /\ strings = [i \in Static |-> String(StaticNames[i])]
  /\ tab = Reverse([i \in Static |-> [string |-> i, cell |-> i]])
  /\ prims = <<>>
  /\ tok = Nothing
  /\ phase = "declaring"
  /\ lost = {}

(* DECLARE_NAMED_SPECIAL, DECLARE_NAMED_PRIMITIVE, DECLARE_NAMED_INTERNAL. *)
DECLARE ==
  /\ phase = "declaring"
  /\ Len(prims) < Cardinality(PrimNames)
  /\ intern(NewString, Append(strings, String(SetToSeq(PrimNames)[Len(prims) + 1])))
  /\ prims' = Append(prims, NewString)
  /\ phase' = IF Len(prims') = Cardinality(PrimNames) THEN "loading" ELSE phase
  /\ UNCHANGED <<tok, lost>>

Reads    == phase \in {"loading", "reading"} /\ tok = Nothing
EndInput == phase' = IF phase = "loading" THEN "reading" ELSE "ended"

(* get_token: the payload of a symbol or of a string.                      *)
get_token_NoPayload(type, n) ==
  /\ Reads /\ Len(strings) < MaxStrings
  /\ strings' = Append(strings, String(n))
  /\ tok' = [type |-> type, payload |-> 0]
  /\ UNCHANGED <<tab, prims, phase, lost>>

get_token(type, n) ==
  /\ Reads /\ Len(strings) < MaxStrings
  /\ strings' = Append(strings, String(n))
  /\ tok' = [type |-> type, payload |-> NewString]
  /\ UNCHANGED <<tab, prims, phase, lost>>

(* get_token of a symbol that ends with the input: TOKEN_OK_EOF, which the *)
(* readers take for no token at all.                                       *)
get_token_eof(n) ==
  /\ Reads /\ Len(strings) < MaxStrings
  /\ strings' = Append(strings, String(n))
  /\ lost' = lost \cup {NewString}
  /\ EndInput
  /\ UNCHANGED <<tab, prims, tok>>

(* NO_TOKEN; or an error, or a parenthesis too many, which end the input   *)
(* all the same.                                                           *)
end_of_input ==
  /\ Reads
  /\ EndInput
  /\ UNCHANGED <<tab, strings, prims, tok, lost>>

(* A symbol in read_intern or read_list_intern: intern steals or frees.    *)
read_symbol ==
  /\ tok.type = "symbol"
  /\ intern(tok.payload, strings)
  /\ tok' = Nothing
  /\ UNCHANGED <<prims, phase, lost>>

(* A string: its characters are copied to the heap, free_token_payload.    *)
read_string ==
  /\ tok.type = "string"
  /\ strings' = free_malloced(strings, tok.payload)
  /\ tok' = Nothing
  /\ UNCHANGED <<tab, prims, phase, lost>>

freeable_symbol_Always(entry) == TRUE
freeable_symbol(entry)        == entry.cell \notin Static

(* destroy_eval__safe: the primitives go, but not their names, and then    *)
(* free_symtab.                                                            *)
destroy ==
  /\ phase = "ended"
  /\ strings' = [i \in DOMAIN strings |->
       [strings[i] EXCEPT !.frees = @ +
          Cardinality({k \in DOMAIN tab : tab[k].string = i /\ freeable_symbol(tab[k])})]]
  /\ tab' = <<>> /\ prims' = <<>>
  /\ phase' = "destroyed"
  /\ UNCHANGED <<tok, lost>>

Next ==
  \/ DECLARE
  \/ \E n \in Names : get_token("symbol", n) \/ get_token("string", n) \/ get_token_eof(n)
  \/ end_of_input
  \/ read_symbol \/ read_string
  \/ destroy

Spec == Init /\ [][Next]_vars

-----------------------------------------------------------------------------
(***************************************************************************)
(* What must hold.                                                         *)
(***************************************************************************)

(* The types; a token with a payload is never confused with one that has   *)
(* none; and the table holds all symbols that were made, the last one at   *)
(* its head (a symbol's cell is its number).                               *)
TypeOK ==
  /\ tab \in Seq([string : DOMAIN strings, cell : Nat \ {0}])
  /\ \A k \in DOMAIN tab : tab[k].cell = Len(tab) + 1 - k
  /\ \A i \in DOMAIN strings : strings[i].frees \in Nat
  /\ prims \in Seq(DOMAIN strings)
  /\ tok = Nothing \/ (tok.type \in {"symbol", "string"} /\ tok.payload \in DOMAIN strings)
  /\ phase \in {"declaring", "loading", "reading", "ended", "destroyed"}

(* eq? compares addresses, so a name has one symbol, and no two names the  *)
(* same.                                                                   *)
OneCellPerName ==
  \A i, j \in DOMAIN tab :
    \/ i = j
    \/ /\ strings[tab[i].string].text # strings[tab[j].string].text
       /\ tab[i].cell # tab[j].cell

(* A symbol that a program has got stays the symbol of its name: there is  *)
(* no step but the end of the program after which the name is looked up    *)
(* to another cell.                                                        *)
SymbolsStay ==
  [][phase' # "destroyed" =>
       \A k \in DOMAIN tab :
         lookup(tab', strings', strings[tab[k].string].text) = tab[k].cell]_tab

(* Printing follows the names of symbols and of primitives: none of them   *)
(* has been freed, however often the name was read again.                  *)
NamesAlive ==
  /\ \A k \in DOMAIN tab : strings[tab[k].string].frees = 0
  /\ \A k \in DOMAIN prims : strings[prims[k]].frees = 0

(* "We also need to free or steal the payload part" (reader.c:33): a       *)
(* string that is still allocated is the name of one symbol, or the        *)
(* payload of the token in hand, or went with a last token; one that is    *)
(* not is freed once.  The static ones are never freed.                    *)
Owners(i) == {k \in DOMAIN tab : tab[k].string = i}

PayloadsFreedOrStolen ==
  \A i \in DOMAIN strings :
    IF i \in Static THEN strings[i].frees = 0
    ELSE Cardinality(Owners(i)) + (IF tok.payload = i THEN 1 ELSE 0)
           + (IF i \in lost THEN 1 ELSE 0) + strings[i].frees = 1
=============================================================================
