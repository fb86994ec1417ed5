-------------------------------- MODULE Reader --------------------------------
(***************************************************************************)
(* read_intern and read_list_intern of reader.c on the tokens of module    *)
(* Tokenizer, called by load_lib_scm for the library and by run_in_thread  *)
(* at the prompt, and pp of cell.c, which prints what was read.            *)
(*                                                                         *)
(* The C stack is the sequence `frames' of the calls of read_list_intern;  *)
(* the cells they build are in `heap', and the handles have contents.  A   *)
(* pair or an atom is a position in heap.  Only the cells of the form that *)
(* is read are kept: a new form begins with an empty heap, and a symbol is *)
(* interned as the name it has (module Symtab has the table).  What        *)
(* evaluate does with a form is in module Evaluator; here it returns, or   *)
(* fails, with the handles that it was called with.                        *)
(*                                                                         *)
(* The input is typed while it is read: a character comes when the stream  *)
(* has no more, or the end does.                                           *)
(***************************************************************************)
EXTENDS Tokenizer, Handles

CONSTANT MaxText    \* bound: characters of the library, and of what is typed

ASSUME ReaderAssumption == MaxText \in Nat

VARIABLES
  coming,   \* how many characters may come still; 0 at the end of the input
  rpc,      \* who waits for a token: "read_intern" or "list"; then "form"
            \* in the driver; "ended" or "exited"
  driver,   \* "load_lib_scm" or "run_in_thread"
  frames,   \* the calls of read_list_intern, outermost first
  heap,     \* the cells of the form
  hs,       \* the handle stack
  form,     \* what read_intern has returned
  said      \* history: the tokens of the form, one sequence per open list

readerVars == <<coming, rpc, driver, frames, heap, hs, form, said>>
vars == <<tokenizerVars, readerVars>>

nil == -2      \* nil_cell
OLD == -3      \* in a handle: a form of before, which nobody looks at

Values == {NULL, nil} \cup 1..Len(heap)

(* A token as it is printed.  A pair is a cell without an atom.            *)
Written(t) == IF t.type = "TOKEN_NUMBER" THEN [t EXCEPT !.text = <<>>] ELSE t

Pair_NoTail == [atom |-> NoToken, car |-> UNINIT, cdr |-> UNINIT]
Pair        == [atom |-> NoToken, car |-> UNINIT, cdr |-> nil]
Atom(t)     == [atom |-> Written(t), car |-> NULL, cdr |-> NULL]

PAIRP(h, v) == v > 0 /\ h[v].atom = NoToken

LPAREN == Token("TOKEN_LPAREN", <<"(">>, 0)
RPAREN == Token("TOKEN_RPAREN", <<")">>, 0)
CNULL  == Token("C-NULL", <<>>, 0)

(* pp, pp_list and print_cell: the tokens that are printed for v.          *)
pp(h, v) ==
  LET print[c \in {NULL, nil} \cup DOMAIN h] ==
        LET members == print[h[c].car].pp \o print[h[c].cdr].pp_list
            one     == IF c = NULL THEN <<CNULL>>
                       ELSE IF c = nil THEN <<LPAREN, RPAREN>>
                       ELSE IF PAIRP(h, c) THEN <<LPAREN>> \o members \o <<RPAREN>>
                       ELSE <<h[c].atom>>
        IN  [pp      |-> one,
             pp_list |-> IF c = nil THEN <<>>
                         ELSE IF PAIRP(h, c) THEN members
                         ELSE <<Token(".", <<>>, 0)>> \o one]
  IN  print[v].pp

-----------------------------------------------------------------------------
Top == Last(frames)

(* The handles of a new call, all NULL, and the call.                      *)
NewFrame(H) ==
  [current |-> NULL, first |-> NULL, temp |-> NULL, last |-> NULL,
   hcurrent |-> H.top + 1, hfirst |-> H.top + 2, htemp |-> H.top + 3, hlast |-> H.top + 4]

(* Before the pair of an element is allocated, and before a number or a    *)
(* string is: what is handled, in the order of the calls.                  *)
Handled(H, f) ==
  handle_set(handle_set(handle_set(H, f.hfirst, f.first), f.htemp, f.temp), f.hlast, f.last)

HandledAll_NotFirst(H, f) ==
  handle_set(handle_set(H, f.hcurrent, f.current), f.hlast, f.last)
HandledAll(H, f) ==
  handle_set(handle_set(handle_set(H, f.hcurrent, f.current), f.hfirst, f.first),
             f.hlast, f.last)

Reloaded(f, H) ==
  [f EXCEPT !.last = handle_get(H, f.hlast), !.first = handle_get(H, f.hfirst)]

LOCAL_POP_HANDLES_Forward(f) == pop_all(hs, <<f.hcurrent, f.hfirst, f.htemp, f.hlast>>)
LOCAL_POP_HANDLES(f)         == pop_all(hs, <<f.hlast, f.htemp, f.hfirst, f.hcurrent>>)

(* The cell of an atom; intern gives a symbol that there is already.       *)
WithAtom(h, t) ==
  IF t.type = "TOKEN_SYMBOL" /\ \E i \in DOMAIN h : h[i].atom = Written(t)
  THEN [h |-> h, cell |-> CHOOSE i \in DOMAIN h : h[i].atom = Written(t)]
  ELSE [h |-> Append(h, Atom(t)), cell |-> Len(h) + 1]

IsAtom(t) == t.type \in {"TOKEN_SYMBOL", "TOKEN_NUMBER", "TOKEN_STRING"}

(* Without memory, or without a free handle.                               *)
Exits ==
  /\ rpc' = "exited"
  /\ UNCHANGED <<tokenizerVars, coming, driver, frames, heap, hs, form, said>>

Asks_for_token ==
  Calls_get_token /\ UNCHANGED <<stream, coming, driver>>

(* read_intern returns to the driver.                                      *)
Reads(v) ==
  /\ rpc' = "form" /\ form' = v
  /\ UNCHANGED <<tokenizerVars, coming, driver>>

(* A call of read_list_intern, from read_intern or from a list.            *)
CallList(callers, H, h) ==
  /\ hs' = push_n(H, NULL, 4)
  /\ heap' = h /\ UNCHANGED form
  /\ IF hs'.st = "ok"
     THEN /\ rpc' = "list" /\ Asks_for_token
          /\ frames' = Append(callers, NewFrame(H))
          /\ said' = Append(IF callers = <<>> THEN <<<<>>>> ELSE said, <<>>)
     ELSE /\ rpc' = "exited" /\ frames' = callers
          /\ UNCHANGED <<tokenizerVars, coming, driver, said>>

(***************************************************************************)
(* read_intern: a token that does not open a list is the form.             *)
(***************************************************************************)
read_intern ==
  /\ rpc = "read_intern" /\ tpc = "returned"
  /\ \/ /\ ret # "TOKEN_OK" \/ tok.type = "TOKEN_RPAREN"
        /\ Reads(NULL) /\ UNCHANGED <<frames, heap, hs, said>>
     \/ ret = "TOKEN_OK" /\ tok.type = "TOKEN_LPAREN" /\ CallList(<<>>, hs, heap)
     \/ /\ ret = "TOKEN_OK" /\ IsAtom(tok)
        /\ LET a == WithAtom(heap, tok) IN heap' = a.h /\ Reads(a.cell)
        /\ hs' = IF tok.type = "TOKEN_STRING"
                 THEN handle_pop(handle_push(hs, form'), hs.top + 1) ELSE hs
        /\ hs'.st = "ok"
        /\ said' = <<<<Written(tok)>>>>
        /\ UNCHANGED frames
     \/ ret = "TOKEN_OK" /\ IsAtom(tok) /\ Exits

(***************************************************************************)
(* read_list_intern: the rest of a round, once the token is there.         *)
(***************************************************************************)
(* The list returns v, and the round of the list around it goes on.        *)
ReturnList(v, H) ==
  LET n == Len(frames) - 1 IN
  /\ hs' = H
  /\ said' = Append(Front(Front(said)),
                    Last(Front(said)) \o (IF v = NULL THEN <<CNULL>>
                                          ELSE <<LPAREN>> \o Last(said) \o <<RPAREN>>))
  /\ \/ n = 0 /\ Reads(v) /\ frames' = <<>> /\ UNCHANGED heap
     \/ /\ n > 0
        /\ heap' = [heap EXCEPT ![frames[n].current].car = v]
        /\ frames' = [Front(frames) EXCEPT ![n].last = frames[n].current]
        /\ Asks_for_token /\ UNCHANGED <<rpc, form>>

(* The pair of an element, behind the last one or as the first one.        *)
Linked(h, f) == IF f.last = NULL THEN h ELSE [h EXCEPT ![f.last].cdr = Len(h)]

WithPair_LosesFirst(f, pair) == [f EXCEPT !.current = pair, !.first = pair]
WithPair(f, pair) ==
  [f EXCEPT !.current = pair, !.first = IF f.last = NULL THEN pair ELSE @]

Asks_in_list(f, h, H) ==
  /\ frames' = Append(Front(frames), f) /\ heap' = h /\ hs' = H
  /\ said' = Append(Front(said), Append(Last(said), Written(tok)))
  /\ Asks_for_token /\ UNCHANGED <<rpc, form>>

(* A round with a token that is not a parenthesis, nor an error.           *)
Element ==
  LET pair == Len(heap) + 1
      H    == Handled(hs, Top)
      f    == WithPair(Reloaded(Top, H), pair)
      h    == Linked(Append(heap, Pair), f)
      a    == WithAtom(h, tok)
      h2   == [a.h EXCEPT ![pair].car = a.cell]
      H2   == HandledAll(H, f)
      H3   == IF tok.type = "TOKEN_STRING" THEN handle_set(H2, f.htemp, a.cell) ELSE H2
      done == [f EXCEPT !.temp = a.cell, !.last = pair]
  IN  IF tok.type = "TOKEN_SYMBOL"
      THEN Asks_in_list(done, h2, H)
      ELSE Asks_in_list([Reloaded(f, H3) EXCEPT !.temp = a.cell,
                                                !.last = handle_get(H3, f.hcurrent)], h2, H3)

ListError_ReadsOn ==      \* the end of the input is taken for a line to come
  \/ ret = "NO_TOKEN" /\ Asks_for_token /\ UNCHANGED <<rpc, frames, heap, hs, form, said>>
  \/ ret \notin {"TOKEN_OK", "NO_TOKEN"} /\ ReturnList(NULL, LOCAL_POP_HANDLES(Top))
ListError == ret # "TOKEN_OK" /\ ReturnList(NULL, LOCAL_POP_HANDLES(Top))

read_list_intern ==
  /\ rpc = "list" /\ tpc = "returned"
  /\ \/ ListError
     \/ /\ ret = "TOKEN_OK" /\ tok.type = "TOKEN_RPAREN"
        /\ ReturnList(IF Top.last = NULL THEN nil ELSE Top.first, LOCAL_POP_HANDLES(Top))
     \/ /\ ret = "TOKEN_OK" /\ tok.type = "TOKEN_LPAREN"
        /\ LET H == Handled(hs, Top)
               f == WithPair(Reloaded(Top, H), Len(heap) + 1)
           IN  CallList(Append(Front(frames), f), H, Linked(Append(heap, Pair), f))
     \/ ret = "TOKEN_OK" /\ IsAtom(tok) /\ Element
     \/ ret = "TOKEN_OK" /\ tok.type # "TOKEN_RPAREN" /\ Exits

(***************************************************************************)
(* The drivers.                                                            *)
(***************************************************************************)
Reads_next == rpc' = "read_intern" /\ heap' = <<>> /\ form' = NULL /\ said' = <<>>

(* evaluate fails for good at boot.                                        *)
load_lib_scm ==
  /\ driver = "load_lib_scm" /\ rpc = "form"
  /\ \/ form # NULL /\ Reads_next /\ Asks_for_token /\ UNCHANGED <<frames, hs>>
     \/ form # NULL /\ Exits
     \/ /\ form = NULL      \* the library is loaded: run_in_thread is called
        /\ driver' = "run_in_thread" /\ hs' = handle_push(hs, NULL)
        /\ stream' = make_filestream(<<>>) /\ coming' = MaxText
        /\ Reads_next /\ Calls_get_token /\ UNCHANGED frames

(* A value, no value or a longjmp: the next form is read.                  *)
run_in_thread ==
  /\ driver = "run_in_thread" /\ rpc = "form"
  /\ \/ /\ form # NULL
        /\ hs' = handle_set(hs, 1, OLD)
        /\ Reads_next /\ Asks_for_token /\ UNCHANGED frames
     \/ /\ form = NULL
        /\ rpc' = "ended" /\ hs' = handle_pop(hs, 1)
        /\ UNCHANGED <<tokenizerVars, coming, driver, frames, heap, form, said>>

-----------------------------------------------------------------------------
Reading == rpc \in {"read_intern", "list"} /\ tpc \notin {"returned", "exited"}

(* The next character of the input, or its end.                            *)
Comes ==
  /\ Reading /\ Unread(stream) = <<>> /\ coming > 0
  /\ \/ \E c \in Chars : stream' = [stream EXCEPT !.text = <<c>>] /\ coming' = coming - 1
     \/ coming' = 0 /\ UNCHANGED stream
  /\ UNCHANGED <<tpc, first, buf, tok, ret, rpc, driver, frames, heap, hs, form, said>>

get_token_step ==
  /\ Reading /\ (Unread(stream) # <<>> \/ coming = 0)
  /\ Tokenize /\ UNCHANGED readerVars

Init ==
  /\ stream = make_filestream(<<>>) /\ coming = MaxText
  /\ tpc = "get_token" /\ first = "none" /\ buf = <<>> /\ tok = NoToken /\ ret = "none"
  /\ rpc = "read_intern" /\ driver = "load_lib_scm"
  /\ frames = <<>> /\ heap = <<>> /\ hs = init_handles /\ form = NULL /\ said = <<>>

Next ==
  Comes \/ get_token_step \/ read_intern \/ read_list_intern \/ load_lib_scm \/ run_in_thread

(* A file or a session is finite, and all of it arrives.                   *)
Spec == Init /\ [][Next]_vars /\ WF_vars(Next)

-----------------------------------------------------------------------------
Base == IF driver = "run_in_thread" THEN 1 ELSE 0

(* The types; and a pair's car is what malloc left only while the element  *)
(* is a list that is being read, so that pp never looks at it.             *)
TypeOK ==
  /\ TokenizerTypeOK /\ coming \in 0..MaxText
  /\ rpc \in {"read_intern", "list", "form", "ended", "exited"}
  /\ driver \in {"load_lib_scm", "run_in_thread"}
  /\ hs \in HandleStacks /\ form \in Values
  /\ \A i \in 1..Len(heap) :
       heap[i].car \in Values \cup {UNINIT} /\ heap[i].cdr \in Values
  /\ rpc = "list" \/ (rpc = "form" /\ form # NULL) =>
       \A c \in 1..Len(heap) : PAIRP(heap, c) /\ heap[c].car = UNINIT =>
         \E i \in 1..(Len(frames) - 1) : frames[i].current = c
  /\ \A i \in 1..Len(frames) : \A v \in {"current", "first", "temp", "last"} :
       frames[i][v] \in Values
  /\ (rpc = "list") = (frames # <<>>) \/ rpc = "exited"
  /\ Len(said) \in 0..Len(frames) + 1

(* Every call of the reader has its four handles, one call above the       *)
(* other, and an error on the way leaves none behind: no pop is out of     *)
(* order, and at the prompt and when a form is there, the handles are      *)
(* those of the driver.                                                    *)
HandlesFollowLists ==
  /\ hs.st # "assert"
  /\ hs.top = (IF rpc = "ended" THEN 0 ELSE Base + 4 * Len(frames))
  /\ \A i \in 1..Len(frames) : frames[i].hlast = Base + 4 * i

(* What is printed of a form is what was read, token by token: nothing is  *)
(* lost, moved or tied into a circle when cells come back from the handles.*)
(* Only a nested list with an error is missing: NULL is in its place.      *)
FormIsItsText == rpc = "form" /\ form # NULL => pp(heap, form) = Last(said)

(* The cells that the garbage collector would find from the handles.       *)
Reachable(H, h) ==
  LET reach[n \in 0..Len(h)] ==
        IF n = 0 THEN {H.slot[i] : i \in 1..H.top} \cap DOMAIN h
        ELSE (reach[n - 1] \cup {h[i].car : i \in reach[n - 1]}
                           \cup {h[i].cdr : i \in reach[n - 1]}) \cap DOMAIN h
  IN  reach[Len(h)]

(* "first, last, current handled" (reader.c:146): when a number or a       *)
(* string of a list is allocated, all that was read of the list before is  *)
(* reachable from the handles.  (The lists around it need not be: a list   *)
(* does not handle its new pair before it calls itself.)                   *)
OwnListHandled ==
  [][rpc = "list" /\ tpc = "returned" /\ tok.type \in {"TOKEN_NUMBER", "TOKEN_STRING"}
       /\ rpc' = "list" /\ Len(frames') = Len(frames) =>
     {Last(frames').first, Last(frames').last} \subseteq Reachable(hs', heap')]_vars

(* The input ends the process, whatever it is.                             *)
EveryInputEnds == <>(rpc \in {"ended", "exited"} \/ tpc = "exited")

(* "set up a mini-repl here that aborts on any error" (bootstrap.c:84).    *)
LoadAbortsOnError ==
  [][driver = "load_lib_scm" /\ driver' = "run_in_thread" => ret \notin Errors]_vars
=============================================================================
