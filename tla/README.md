# tonsai-scheme in TLA+

A model of the interpreter in `src/src`, the TLC runs that check it on small
instances, and the theorems about it that TLAPS proves for every instance.
`PROJECT.json` relates every definition to the lines it models; this file says
what the parts are, what is checked, why the bounds are enough, what is proved,
and what comes next.

## 1. Inventory

tonsai-scheme is one process with one thread: a tree-walking Scheme evaluator
written against an interface for a moving collector (`handles.c`) that does not
exist yet (`gc()` in `memory.c:50` is an empty macro). Errors are `longjmp`s.

| Component (files) | State | Operations | Works with |
|---|---|---|---|
| handle stack (`handles.c`) | `bottom`, `top`, `handle_frame_size`, the slots | `handle_push`, `handle_pop` (asserts `handle == top`), `handle_get/set`, `get_mark`, `pop_to_mark`, an iterator | every function that allocates |
| evaluator (`eval.c`) | `__tl_eval_level`, `eval_stack`, the five global environments | `evaluate`, `evargs`, `invoke`, `find_value`, `init_eval__safe` | recursion with itself and the primitives; leaves by `GOTO_TOPLEVEL` |
| primitives (`primitives.c`) | none of their own; `toplevel`, `lib`, `internal` | 22 primitives, `proper_list_length`, `list_of`, `scheme_to_c_truth`, the error functions | called by `evaluate`, call `evaluate` and `evargs` |
| prompt (`threads.c`, `tlisp.c`) | one handle and the mark above it | read, evaluate, print; the target of `longjmp` | reader, evaluator, printer |
| bootstrap (`bootstrap.c`) | the first environments, the static cells | `boot`, `load_lib_scm` (a second driver, with its own `setjmp`) | reader, evaluator |
| managed heap (`memory.c`) | `cur`, `top`, `no_gc` | `mem_sys_safe_alloc`, `u8_new`, `scan_heap`, set up and tear down | all who allocate |
| reader (`reader.c`) | four handles per open parenthesis, the list as far as it is read | `read_intern`, `read_list_intern` | tokenizer, symbol table, heap |
| tokenizer (`token.c`) | the array of the token's characters and its index | `get_token`, which ends in `read_plus_minus`, `readsymbol`, `readnumber` or `readstring` | a stream; whoever owns the payload |
| streams (`t_stream.c`, `filestream.c`, `stringstream.c`) | stdio's position and pushed back character; a copy of the string and an index | `stream_getc`, `stream_ungetc` (flush, close) | stdin, a file, a string |
| environments (`environment.c`) | parallel lists of symbols and values, a parent | add, extend, look up | evaluator, primitives |
| symbol table (`symbol.c`) | a list of symbols | `intern`, `lookup` | reader |
| printer (`cell.c`, `function.c`, `util.c`) | none | `pretty_print`, the dumps | prompt, error functions |
| `liveness.c` | none | nothing calls it | nobody |

What is hard here is not concurrency. It is that three pieces of global state
(handle stack, level, `eval_stack`) must at every moment mirror the C stack,
that the C stack is made by mutual recursion over whatever the user typed, and
that an error may throw any part of it away. A wrong pop shows up as a failed
assertion in an unrelated function later on; a lost one as "Out of handles!"
many forms later; a wrong level as a `define` that is refused, or accepted in the
wrong place, for the rest of the session. The tests of the repository
(`src/test/test_primitives.c`, `src/dev-tools`) run single forms from a fresh start and
see none of this.

What makes each component correct:

* handle stack: push and pop alternate as brackets do; nothing is written
  outside of the block; unwinding restores what was there at the mark.
* evaluator and primitives: the handles on the stack are those of the frames on
  the C stack, the level is the number of evaluations, `eval_stack` is the list
  of them, all after any history of errors; every evaluation ends, if only
  because the handles run out (the printing of its result need not).
* prompt and bootstrap: one answer per form; a form that fails has defined
  nothing; no prompt before the library is loaded; `define` only at toplevel.
* `proper_list_length`: right on every list, returns on cyclic ones.
* heap: objects are disjoint, aligned, big enough; the scan steps from header to
  header.
* tokenizer, streams: the tokens cover the text, none of it skipped or read
  twice; nothing is stored outside of the array; a number has its value or
  is refused (the last is not so, see Findings).
* reader: the cells of a form print as the text that was read; four handles
  per open list, after errors too; an allocation finds the list in the handles;
  every input ends, inside lists as well; errors end the loading of the
  library (they do not, see Findings).
* environments: the innermost binding wins, inner ones never change outer ones.
* symbol table: one cell per name, names are freed once.

The hazards, each at its line and with the properties that would catch it, are
in `PROJECT.json`.

## 2. The modules

```
Handles <- Evaluator -> Repl        (Evaluator implements Repl: ReplSpec)
               ^
        EvaluatorProofs
Heap <- HeapProofs
ListLength <- ListLengthProofs
Environment -> Scopes               (Environment implements Scopes: ScopesSpec)
     ^
EnvironmentProofs, MCEnvironment    (the lists of parameters in the runs)
Symtab <- SymtabProofs
Streams <- Tokenizer <- TokenLoop   (the tokenizer called by a program of its own)
               ^
Handles  <-  Reader                 (the tokenizer called by the readers of lists)

Tokenizer <- TokenizerProofs <- TokenLoopProofs -> TokenLoop
Reader, TokenizerProofs <- ReaderProofs
```

**Handles** has the functions of `handles.c` as operators on a record
`[top, slot, st]`; `top` counts from `bottom`, so a push makes slot `top + 1` the
top one and slot 0 is never written, as in the code. `st` says whether the
process went on after the call, left with "Out of handles!", or failed the
assertion. `push_n` and `pop_all` are a row of pushes and of pops in closed form
(recursion would keep the module from the prover); theorems `PushIterates` and
`PopIterates` of `EvaluatorProofs` show that they are nothing but iterations.

**Evaluator** is the interpreter. `stack` is the C stack: one frame per active
call of a driver, of `evaluate`, `evargs`, `invoke` or a primitive. A frame has a
program counter (`"cons:car"` is `prim_cons` waiting for the first of its two
calls of `evaluate`), its `handle_t` locals, how many operands or expressions are left, the
nesting depth of its text, and, for `evaluate`, the `next` of its
`eval_stack_t`. A step runs the topmost function from one call of a modelled
function to the next, so everything it does on the way (its pops, its early return, the
decrement of `DRETURN`) is in one action:

| Code | Action or operator |
|---|---|
| prologue of `evaluate` | `CallEvaluate` (level, `eval_stack`, the new frame) |
| `DRETURN` | `Leaves`, when the function that returns is `evaluate` |
| `GOTO_TOPLEVEL`, `fast_error` and the other error functions | `Throw`: to `load_lib_scm`, which ends the process, or to `run_in_thread`, with `pop_to_mark` and level 0 |
| `load_lib_scm`, `run_in_thread` | actions of these names |
| `evaluate`, `evargs`, `invoke` | actions of these names, a disjunct for every stretch between two calls |
| the primitives | `prim_list`, `prim_set` (`set-car!`, `set-cdr!`), `prim_plus` (`+`, `*`), `prim_deflibrary` (and `definternal`), `prim_dump` (the three dumps), the rest one each |
| exits of `malloc_or_bail`, `mem_sys_safe_alloc` | `OutOfMemory`, where the topmost function allocates |
| `handle_push` and `handle_pop` in any of them | `push`, `pop`: the frame's locals and the handle stack together |

Data is abstract. A form is a depth, an argument list its length, a value its
class (NULL, nil, pair, function, one of the primitives, or "datum" for
symbols, numbers and strings), and what depends on the rest is
nondeterministic: whether a symbol is bound and to what class, which branch
`if` takes, whether an arity is right. The model so has at least the control paths
of every program whose nesting and lengths are within the bounds. `base`, `added`
and the contents of the slots (the position of the frame that pushed) are
history: no guard reads them.

Reading and printing appear where they touch this state: `read_intern` pushes
and pops four handles per level of nesting, so a deep form can exhaust the
handles. `set-car!` and `set-cdr!` can tie a list into a circle, and the loop of
`pp_list` (`cell.c:70`) goes round in it for ever. Then the form is not answered
and the process does not end: `vm` becomes `"printing"`, the stack stays as
it is, and no step of the model is possible any more (`PrintsForever`). A circle
through CARs is a recursion that overflows the C stack, and a NULL in place
of a tail is read through: both are the end `"crash"`.

**Repl** is what the loop promises: load, then read, evaluate and answer, one
form at a time; at most one definition per form; none by a form that failed. An evaluation comes to its end
(`Finish`) with an answer, an error, the end of the process or `PrintForever`, after which
nothing is promised any more. `Evaluator` implements it under a refinement mapping that takes `phase` from the
bottom frame and `defs` from `added`.

**Heap** is the allocator with requests for cells, functions and byte vectors,
and `scan_heap` a step at a time. The empty `gc()` is taken as it is: the second
attempt of `mem_sys_safe_alloc` sees the same heap and exits.

**ListLength** is `proper_list_length`, a transition per round of its loop, on
every heap of `Pairs` (every cyclic and improper list among them).

**Environment** is `environment.c` with the evaluator around it: the five global
environments as `init_eval__safe` fills them, forms and calls in progress
(`active`), `lambda` capturing the current environment, `invoke` making one
inside the captured one, `define`, `definternal` and `deflibrary`, the end of the
library, `destroy_eval__safe`. Environments are the parallel lists of the code;
`value` walks them and `find_value` the fixed order of environments, as in
the code, with NULL standing for "not found" as well as for a value. Forms are
abstract: an expression may evaluate to anything in `Available`, among it the value of every
symbol and what any call in it has returned: the code holds the value of the head of a
combination and those of its operands side by side (`evaluate`, `evargs`), so several
closures can come out of the calls that made them before one of them is called.
`held` keeps them until the form or the body ends, which is longer than the code does,
and so leaves out none of its steps. `op`, the last operation on environments, is history.

**Scopes** is what they promise: a scope maps symbols to values and lies in another
scope; a call makes one with all parameters bound at once, later bindings are replaced one
at a time. `Environment` implements it: the first occurrence of a symbol in the
lists is its binding.

**Symtab** is `symbol.c` and the life of a name: allocated by the
tokenizer or a `DECLARE` macro, stolen or freed by `intern`, used by the
primitives, freed by `free_symtab` unless it is static. Strings are numbered and
remember how often they were freed. `lost` is history: the payload of a last token
(`TOKEN_OK_EOF`) that the reader drops. `PayloadsFreedOrStolen` exempts these: they
are neither freed nor taken over, which is what the code does (see Findings).

**Streams** has `stream_getc` and `stream_ungetc` as operators on a record that is
either kind of stream: a file takes one character back (what stdio guarantees),
a string as many as it gave, over the ones that it gave. A string stream
whose memory is larger than its string gives the NUL behind it, too, and then what
`malloc` left there: any characters.

**Tokenizer** is `get_token`. A step reads one character in the function that
`tpc` names (`zero` is the lookahead behind a `0`); `buf` is the array up to the
index, with `UNSET` where an unknown character has moved the index on
and nothing was stored. What such a cell contains is what the C stack held: a
number that begins with it may have any value. `i_val` is what is left of the long that
`strtol` returns, for ints and longs of any width. The functions that the switch of
`get_token` ends in are actions; which one is next is in `Continues`.

**TokenLoop** calls it as `dev-tools/test_token.c` does. The text is made up by
`Comes` when a character is asked for, so a run covers all texts up to its
bound; `start` remembers what was unread when the call began.

**Reader** composes `Tokenizer`, `Streams` and `Handles`: `frames` is the C stack of
calls of `read_list_intern`, with its four locals and its four handles, `heap`
the cells of the form, and the slots of the handle stack contain
cells here. A step runs from one token to the next: for an atom in a list
that is `Element` (handles set, the pair allocated, locals loaded back, the pair
linked, the atom allocated, locals loaded back again), for a nested list
`CallList`, for the end of one and for an error in one `ReturnList`, with what the
list around it does with the result. `pp` is `cell.c`: the tokens that are
printed. `load_lib_scm` and `run_in_thread` ask for form after form; what
`evaluate` does in between is in `Evaluator`. `said` remembers the tokens of the
form.

| Code | Action or operator |
|---|---|
| `LOCAL_POP_HANDLES` | `LOCAL_POP_HANDLES`, in the order of the macro |
| `handle_set` before an allocation | `Handled` (before a pair), `HandledAll` (before an atom) |
| `handle_get` after it | `Reloaded` |
| `last->slot2.cdr = current`, `first = current` | `Linked`, `WithPair` |
| every `return NULL` for an error of the tokenizer | `ListError` |
| no memory, no handle | `Exits` |

The names with a suffix (`Rest_Stuck`) are mistaken variants of a definition: each
shows that a property does break when the code is changed that way.

## 3. Runs

| Run | States | Shows |
|---|---|---|
| `evaluator` | 909 592 | type invariant, no failed assertion, handles owned by live frames, level and `eval_stack` agree with the C stack, `define` only at toplevel, failed forms define nothing in `toplevel` (what `definternal` and `deflibrary` bound stays): with nine primitives, in forms whose operands are forms and in bodies, at boot and at the prompt |
| `evaluator_live` | 49 059 | with all twenty primitives: every form is answered, ends the process, or is printing a circle for ever, and nothing else goes on for ever; `Evaluator` implements `Repl`, its fairness included, with the same exception |
| `list_length` | 218 542 | right result for every list, exact arity test, returns |
| `heap` | 17 282 | allocator and scan for every mix of objects until the heap is full |
| `environment` | 174 804 | redefinition, parameters of the same name and with the name of a special form, NULL arguments and values, closures, calls inside each other or one after the other: scope is lexical, special forms cannot be redefined, a definition takes effect, the lists implement `Scopes`, tear down frees once |
| `symtab` | 135 910 | one symbol per name for ever, names alive while used, every string owned once and freed once, except payloads that come with `TOKEN_OK_EOF`, which nobody owns |
| `token_loop` | 560 678 | the tokens cover the text, the array is not overrun, both limits of an int are accepted and the next number beyond each is refused, every text ends |
| `reader` | 230 195 | handles follow the nesting through every error, a form prints as its text, lists are in the handles when an atom is allocated, every input ends |
| `eq_arity` | violation | `prim_eq` accepts one operand, where its comment asks for two |
| `environment_null` | violation | a symbol bound to NULL is looked up further out |
| `number_value` | violation | a number far out of range is read as another one |
| `load_errors` | violation | an error of the tokenizer in the library ends its loading as if it were complete |

**Bounds.** `HandleFrameSize` is 128 in the program (1024 bytes). The interesting
cases are a push that finds the block full anywhere in a nest of calls, and several
evaluations above each other that hold handles; a few levels of recursion bring
both about in a small block. The same states could not be reached with 128 in any
time; the theorems have no bound.

In `evaluator` the block has 9 slots, because a form of `FormNest` 2, whose operands are
combinations themselves, takes 8 while it is read, above the one of `run_in_thread`: it
can just be read, and is then evaluated with primitives inside of primitives. There are
nine of them, with which the state space is small enough and every way to use handles
occurs: pushed and popped around one call (`cons`, `if`, `define`), for two operands in a row
(`set-cdr!`), for as many operands as there are (`list`, with `MaxItems` 3), after
`evargs` (`+`), without a call (`lambda`, `definternal`), and left to the error that throws
them away (`error`). The other eleven use handles as one of these does or not at all; they
are in `evaluator_live`, where there are all twenty, with forms of nest 1 and 5 slots. `BodyNest` bounds one
body, but a body may call a function, so recursion is bounded by the handles alone, as in
the program. Bodies have one expression (`MaxBody`) in the first run and up to two in the
second. The list of operands that is too long for `evargs` (16 in the program)
occurs in both, because `MaxItems` is larger than `MaxArgs`.

`HeapSize` 104 with words of 8 is not a multiple of a cell, so the scan
overshoots; sizes 1, 8 and 9 lie on both sides of a word. Four pairs make every
shape of cycle with a tail that the two pointers of `proper_list_length` can
tell apart, and targets up to 3 are those of the callers.

In `Environment` one ordinary name is enough to be bound in every environment at
once (it is a primitive's, too), beside that of a special form. The functions have the
ordinary name twice as their parameters, or the name of the special form once
(`MCParamLists`; no parameter or one in `environment_null`). Two calls give a
closure inside a closure, two definitions a redefinition; `MaxOps` 3
leaves out only both twice (a call does not return any more when it is reached, since no
other operation on environments could follow). What is passed is a datum or NULL; functions
are passed on as results and by definitions. `Symtab` has
seven allocations beyond the static names (`MaxStrings` 10), two for primitives,
so a name is read new, again, and as a static or primitive's name in either
order, in both inputs.

`MAX_TOKEN_LENGTH` is 256 in the program. With 3 in `TokenLoop`, a text of five
characters has tokens that fill the array exactly, ones that are one
too long, and unknown characters that use the array up, followed by every kind
of token. Ints go from -8 to 7 and longs from -32 to 31 there: with the digits
0, 7, 8 and 9 and a sign in front there are numbers at no limit, at each limit (7 and -8, accepted),
right beyond each (8 and -9, refused), and beyond a long. `Reader` needs only short tokens (2) and seven characters: nesting in
three lists and an error at every place, with 13 handles, which three lists fill
to the last one at the prompt and the fourth finds full.

**Ends.** The process really ends (end of the input, errors at boot, exhaustion),
so the runs do not check deadlock; that it does not end early is what
`EveryFormAnswered` and `ReplSpec` check. While a circle is printed (`vm = "printing"`) the
process has not ended; it takes none of the model's steps, and both properties name this
state.

**Fairness.** `Evaluator` is weakly fair to all of its steps except at the
prompt: a single thread runs on unless it waits for the user. Nothing is
assumed about the choices within: fairness does not make a symbol be bound or a
recursion stop. A loop without end in the program is a recursion, `invoke` holds a
handle for each call, and so it ends with "Out of handles!". Printing a circle is the
one loop that does not end, and not counted as an end: the form stays in progress
for ever, and `EveryFormAnswered` and the `WF` of `Repl` hold because they admit
this one exception by name. `Heap` is fair to the function that has been called, not to its callers.
`TokenLoop` and `Reader` are fair to everything: a text is finite and arrives, and the
loops call for tokens until one ends them. Where a text ends is a choice.

## 4. Proofs

**EvaluatorProofs** proves, for every `HandleFrameSize`, set of primitives and
bound:

* `Invariance`: `Spec => []Inv`;
* `TypeCorrect`, `HandlePopNeverAsserts`, `NoHandleLeaks`,
  `LevelCountsEvaluations`, `EvalStackIsTheCallChain`: the five invariants of
  run `evaluator`;
* `DefineIsAtToplevel` and `ErrorsDefineNothing`: its two action properties;
* `InterpreterIsRepl`: the safety part of the refinement `ReplSpec`, initial states to
  initial states and every step to a step of `Repl` or to none;
* `StackIsBounded`: the modelled C functions called and not returned from are at most
  (4 * `BodyNest` + 4) * `HandleFrameSize` + 4 * `FormNest` + 5: a recursion of the program
  without end uses up the handles, not the C stack (the printer's own recursion is
  not among them);
* `EvaluationsEnd`: no form is evaluated for ever. Every step while a form is in progress makes
  `Rank` smaller in an order without infinite descent; the last one may be the step to
  `"printing"`.

None of the five invariants is inductive. That the next pop finds its handle on top needs
that the frame's locals are the *last* pushed, which after a return is a fact about
the frame below, and so on down to the driver. `Inv` therefore says (`Tidy`)
that the frames tile the handle stack: frame i owns the slots from its `base` to
its edge in order, the base of the next is the edge of this one, the top is the edge
of the topmost frame, and every slot belongs to one frame. `FramesOK` adds how
many handles each program counter holds (`HeldCount`), that only the first
frame is a driver's and that its mark is its own handle, which is what makes
`pop_to_mark` right. `Linked` states the `eval_stack` list for every pair
of frames of `evaluate` with none between them, since a return uncovers the
pair below. `level` is the cardinality of the set of such frames. All of this holds while a
circle is printed, too: nothing has been unwound then.

The argument goes along three layers. `PushGood`, `PopGood` and
`ReadInternGood` say that a frame and the handle stack stay tidy in the
course of a step (`Good`). `CallEvaluatePreserves`, `CallPreserves`,
`ReturnPreserves`, `ThrowPreserves`, `AlonePreserves` and `HaltPreserves` say
that each way to end a step re-establishes `Inv`. Then there is one lemma per
function of the program (`prim_list_Preserves` ...), which only has to follow
the function's pushes and pops. The assumptions are the two of the modules: the block has room
for at least one handle, and the bounds are natural numbers.

The theorems about definitions need a second invariant, `Definitions`: a frame
of `define` lies right above an `evaluate` that waits in its tail; one that has its
value to bind is the third frame, because it was called at level 1 and the level is the number of
evaluations (`LevelIsDepth`); and once `added` is not 0, the form has only the
return of its `evaluate` left, so that nothing can throw any more. That no other step
binds anything is a lemma for each function again. `InterpreterIsRepl` follows from these two
theorems and from what each function does to the bottom frame.

The module begins with what the operators of `Handles` return (`PushProperties`,
`PopProperties`, `UnwindProperties`) and with the theorems that `push_n` and `pop_all`
are iterations of the code's functions (`PushIterates`, `PopIterates`: the result for
n + 1 is one more call on the result for n). `ReaderProofs` needs only rows of
four of them and has lemmas of its own (`FourPushed`, `FourPopped`).

**ListLengthProofs** proves, for every finite set of pairs and every target,
`TypeCorrect`, `LengthsAreRight` and `ArityTestsAreRight`, the three invariants of run
`list_length`. `TypeOK` is the hard one, since it says that the loop stops
on a circle: nothing bounds `length` there but the two pointers' meeting. The proof
follows one walk along the CDRs, a function on the natural numbers that is
shown to exist by the least counterexample (`LeastElement`). A walk that never
leaves the pairs meets one of them twice within as many steps as there are pairs
(`Repeats`, the pigeonhole), goes in rounds from then on (`Rounds`), and so has a position k
with the same pair at k and at 2k + 1 (`TheyMeet`): hare and
tortoise. The inductive `IInv` says that `lst` and `runner` are at the
positions k and 2k + 1 and have not met earlier (`Chasing`). A walk that does leave the
pairs ends at one place (`Ends`, `EndExists`), which is the length that the other two
theorems compare with. Assumed is only that the set of pairs is finite.

**HeapProofs** proves for every word size, every heap of whole words and
all sizes asked for: `TypeCorrect` (`cur` stays within the heap, on the boundary of a word), `AllocationIsSound` (disjoint, aligned,
inside the heap, large enough), `VectorsFit` (a byte vector holds what was asked for,
and its header says where it ends), `ScanIsSound`, `ScanIsComplete`. The inductive
invariant adds that the objects tile the heap from 0 to `cur`, that sizes are
whole words, and that the scan is at the beginning of an object, in the middle
of a function, or past `cur`. `CallsAreBounded` is the safety half of `CallsReturn`.

**EnvironmentProofs** proves, for all finite sets of special forms, primitives and
internal functions, all parameter lists and any number of calls and definitions:
`TypeCorrect`, `SpecialFormsAreFixed`, `DefinitionsTakeEffect`,
`EnvironmentsAreFreedOnce`, `ClosuresAreLexical` and, whole, the refinement
`EnvironmentsAreScopes`. The inductive invariant is
`EnvsOK /\ RunOK /\ DefinitionIsNewest /\ FreedOnce`. `EnvsOK` says that the two
lists of an environment are equally long, that a parent is older than its child and
that `special_forms` is as `init_eval__safe` left it. Without the order of parents no
search need end, and `value`, a recursive function over parents, need not even
exist: `ValueExists` shows by the least counterexample that it does, and
`ValueUnfolds` is from then on all that is used of it. Closures and running code
have environments that exist (`RunOK`). That what `define` bound last is the
*first* in the list of `toplevel` (`DefinitionIsNewest`) is what makes the theorem
about definitions follow from a search from the front. `ClosuresAreLexical` compares a
search before a step with one after it, along the chain of environments around
the code (`ChainExists`), in which nothing changes.
For the refinement, first occurrences in a list of parameters are turned into
the one function from parameters to values that `Scopes` binds, and a definition
in front of a list into a replacement.

**SymtabProofs** proves, for every set of primitives and names and any number of
allocations, `TypeCorrect` (the cells of the table are numbered without gaps from its tail), `NamesAreUnique`, `NamesAreAlive`,
`PayloadsHaveOneOwner` and `SymbolsAreStable`. Uniqueness alone is inductive only
together with where the cells are: `Table` says that cells are numbered from the
tail and that the static names are at the tail until the table is destroyed, `Declared` that
the macros make the only strings there are before anything is read, in the order of
the primitives, and `Owned` that each string that is not static is in exactly one of four places: the
reader's token, the table, lost with the last token of an input, or freed once. The assumptions are that the set of primitives
is finite and that none has a static symbol's name.

**TokenizerProofs** has the lemmas about `token.c` that its two callers share:
`Bounds` says how much of the array each function may find in use when it is called or
its loop goes round (`Room`), and that a token which has come back leaves room for its
`'\0'` (`TokenFits`). `TokenizeInBounds`, `CallInBounds` and `IdleInBounds` say that
each function, each call and each step of others preserves it. The only assumption
about the array is that `MAX_TOKEN_LENGTH` is at least 2 (it is 256):
`read_plus_minus` stores two characters before anything compares the length.
It has also what streams leave unread (`stream_getc` takes the first character of it,
`stream_ungetc` gives it back, in either kind of stream, where there is room for it) and the invariant `Types`: before
a token begins the array contains only gaps, `*tok` is empty until `get_token`
returns, and a number without gaps has the cut value and the return code that
belong to its characters. `TokenizeMoves` is about progress: a step of
`get_token` takes a character for good or is nearer to the end of the call, so no
parenthesis goes back and forth.

**TokenLoopProofs** concludes, whatever the text: `StaysInBuffer`, that no function stores outside of
its array; `TypeCorrect` (a token exists only when `get_token` has returned, and until its
first character is known the array contains gaps only); `NumbersAreRead` (`IntsAreRead`, for every width of an int and a long), from
arithmetic about `strtol` and the cut; and `TokensAreTheText` (`TokensCoverText`).
For the last the invariant `Covered` says at every character where
reading stands: what was unread when the call began is blanks, then what the
function has taken so far, then what is unread now. The text arrives while
it is read, at its end, so an arrival extends both sides.
`LoopIsBounded` is the safety half of `EveryTextEnds`.

**ReaderProofs** proves for every size of the handle block and every text
`HandlesAreNested`: `HandlesFollowLists` of run `reader`. That property only says
where a call's last handle is, and the four pops need all of them; the inductive
`IInv` adds that the calls of `read_list_intern` lie one above the other, four handles
each, above those of the driver (`Nested`), that the top is exactly where they end,
and that the block is full only when the process has left. There are lemmas for a call
(`CallListPreserves`), for a return, with a value or after an error
(`ReturnListPreserves`), for what a list does with an element, and one per function.
`StaysInBuffer` is there once more, for the tokenizer under the reader.

The second part is `FormsAreTheirText` (`FormIsItsText`), with `TypeCorrect` on the
way: a CAR that `malloc` left is only in a pair whose element a list further out still waits
for, never in a finished form or where `pp` looks. The invariant `RInv` is about a heap that is half linked, with a
list in every call of `read_list_intern`, and what a pair prints as is a recursion over the cells,
which cannot be followed by induction here. So the proof writes notes `g` beside
the pairs: for each its list, the text before it in the list, and the text of the list. `PairRight` says how the notes of
neighbours go together, locally, and `HeapRight` that they do so in the whole
heap, but for the pairs that still wait for their CAR (`UNINIT`, what `malloc` left). The
innermost list either rests between two elements (`Rests`) or waits for one
(`Waiting`); the lists around it all wait (`Known`), and their pairs are older, so
that adding a cell or linking one changes the notes of the innermost list only. `PrinterExists` shows that
there is a function with the recursion of `pp`, and `PrintersAgree` that there is only one,
by the least counterexample, since no pair is its own descendant; and `ppIsText`
that it is then the text of the notes.

`OwnListIsHandled` (`OwnListHandled`) is the third part: `Reachable` is again a
recursive function that has to be shown to exist (`ReachesExists`), it contains whatever
a handle holds (`RootsReached`), and `HandledAll` has put the first and the last pair into the
handles of the call. The last part, `SessionIsBounded`, is the safety half of
`EveryInputEnds`: it weighs the characters to come, those of the stream, the open lists and
the call in progress against each other, for a token that opens a list leaves
more to do than there was, except that it has been read.

**Steps are bounded.** A liveness property says that something is not put off for ever and that
the process does not stand still before. Fairness is the
second half. The first half is a safety property, and proved for all
five liveness properties of the runs: a natural number, `Left`, that every step makes
smaller, or, for an evaluation, a word of such numbers.

| Theorem | Steps at most | Property |
|---|---|---|
| `StepsAreBounded` (`ListLengthProofs`) | 2 * pairs + 5 in a call | `Returns` |
| `CallsAreBounded` (`HeapProofs`) | 2 for a request; heap size + 1 for a scan | `CallsReturn` |
| `LoopIsBounded` (`TokenLoopProofs`) | 8 * `MaxText` + 2 | `EveryTextEnds` |
| `SessionIsBounded` (`ReaderProofs`) | 32 * `MaxText` + 6 | `EveryInputEnds` |
| `EvaluationsEnd` (`EvaluatorProofs`) | finitely many in a form | `EveryFormAnswered` |

`EvaluationsEnd` needs more than a count, since the body of a function is evaluated
again at every call. `Rank` has one number for each frame, what that
function still has to do (`WorkOf`). A call leaves the caller less and puts a frame above; a return
takes the topmost one away: the words decrease lexicographically. That order is
well-founded only because the words have a bounded length (`Limit` positions for the frames, and a last one that only
the step to `"printing"` lowers), and that is
`Shallow`: above a frame there is room for `Reserve` frames, and a call leaves
less of it, as it goes to a part of the text (`nest`), to another kind of function
on the same text (`KindOf`), or into the body of a function, for which
`invoke` has taken a handle (`base`). The loop of the prompt itself does not
end, and starts again from a higher rank; so does that of `load_lib_scm`.

**Only model-checked:** the liveness properties themselves (`EveryFormAnswered`, `CallsReturn`,
`Returns`, `EveryTextEnds`, `EveryInputEnds`, and what `ReplSpec` says about fairness), since
`ENABLED` is out of the installed provers' reach. All invariants and
action properties of the passing runs are theorems. The
library's theorems for induction take an operator as a parameter, which the
provers cannot instantiate. Recursion over numbers can be dealt with
nevertheless: `NatLessThanWellFounded` and `WFMin` give a least counterexample (`LeastElement`),
and a recursive function is shown to exist for every bound before anything is
said of its values.

## 5. Findings

* `prim_eq` tests its arity with `!proper_list_length(rest, 2)`
  (`primitives.c:490`): one operand passes, and the second is read through
  nil. The other primitives compare the result with the arity.
* A binding with the value NULL does not override later environments, against
  the comment above `find_value` (`eval.c:206-207`):
  `((lambda (length) length) (lambda))` is the primitive.
* `readnumber` cuts the value of `strtol` to 32 bits and only then looks for an
  overflow (`token.c:262`), by comparing with the two limits: 4294967297 is read as
  1, and what does not fit in a long as -1 or 0, where `token.h:24` says "integer value of
  input". Up to one beyond the limits the test is right (`IntsAreRead`).
* An error of the tokenizer looks to `load_lib_scm` like the end of the file
  (`bootstrap.c:92`): the library counts as loaded with the rest of it
  unread, against "aborts on any error" (`bootstrap.c:84`). In a nested list the error
  leaves NULL in the place of the list, and reading goes on (`reader.c:128`).

Observed, without a run of its own:

* The handle block is overrun by one slot. `init_handles` allocates
  `handle_frame_size` slots and sets `top = bottom` (`handles.c:18`); `handle_push` refuses
  only when `top - bottom` has reached `handle_frame_size` and else increments `top` before
  anything is stored (`handles.c:26-33`), so slot 0 is never used and the last handle of a
  full stack lies right behind the block. `Handles` takes that slot for memory.
* Printing a value that was tied into a circle never ends (`cell.c:70`), and the form is
  never answered: the exception in `EveryFormAnswered` and `ReplSpec`. A NULL in place of a
  tail is read through.
* `proper_list_length` gives a list shorter than `target_length` its own length, where the
  comment (`primitives.c:53-55`) says 0; the callers that compare are right all the same
  (`ArityTestIsRight`).
* A symbol or number that is the last thing in its input comes with `TOKEN_OK_EOF`, which
  `read_intern` takes for a failure (`reader.c:23`): it is dropped, a symbol with its payload
  (`lost` in `Symtab`).
* A list handles neither its new pair nor, at first, its first one when it calls itself
  (`reader.c:128`). While `gc()` is empty nothing can be lost by it; `OwnListHandled` says what
  is handled when an atom is allocated.

## 6. Not modelled, and the plan

Not modelled on purpose: layout of printed text; `mmap` and `munmap`; the
debug builds (`EVAL_DEBUG`, `MEM_DEBUG`); `liveness.c`, which nothing uses; the
test programs. Whether the handles protect *enough* for a collector (`prim_cons`
keeps its new pair in a local while it evaluates) cannot matter while `gc()` is empty; the
model checks the handles that there are.

Not modelled for other reasons: the printing of functions and primitives
(layout only); `stream_flush` and `stream_close`, whose state nobody reads.

What is left of the plan, in order:

1. **HandleBlock**: `handles.c` as a machine of its own with addresses, for the
   slot at the end of the block (`handles.c:26`) and the iterator's slot 0.
2. **Interp**: `Evaluator` with concrete text and values for a small language,
   shown to implement `Evaluator`, with `Environment` in place of the class
   of a symbol.
