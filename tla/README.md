# The Alpha compiler in TLA+

`alphac` compiles the Alpha language to the byte code of the Alpha virtual
machine. The repository holds it four times, each stage a copy of the one
before with something added: `lexical_analyzer`, `syntactic_analyzer`,
`IR_generation` and `BC_generation`. The last one is the whole compiler, and line
numbers below are its own unless a stage is named. Where an earlier stage does
something of its own (two scanners side by side, a verdict without code,
temporaries that are symbols), it has a module of its own.

The compiler is one sequential process: nothing runs concurrently, nothing
survives it but its output files, and what it does next is decided by the next
token. What is hard is the *history*. Every semantic action of the grammar
changes a handful of globals (the symbol table, three offset counters, the
parity of a scope counter, three stacks, a growing array of quads and the lists
of the jumps in it that wait for a label), and each relies on what other actions
left there, for any nesting of blocks, functions, branches and loops. The models
therefore let TLC write the program being compiled: at each state any token
sequence that the grammar allows may come next.

## Components

| Component | State | Operations | What makes it correct |
|---|---|---|---|
| Symbol table (`symtable.c`, `symlist.c`) | bucket array and its size, `scopes[]` and its size, the entries (`name`, `scope`, `isActive`, `func_is_open`) | put (with growth), contains, get, lookup at a scope, in the closest scope, of the open function; deactivate a scope | two indexes over one set of entries agree; nothing is lost by growth; a lookup never finds a closed block's name, and finds the right one of several |
| Parser, declarations and control flow (`parser.y`, `stack.c`) | `current_scope`, `scope_space_counter`, offsets, `block_stack`, `function_offset_stack`, `arguments_list`, the semantic stack | one action per production | a variable of another function is refused and no other; slots are distinct; each jump is patched once, by its owner; break, continue and return only where they belong |
| Parser, expressions | quads, `t_list`/`f_list`, temporaries | one action per operator, call and member | a short-circuit jump reaches the right operand; a temporary is not reused while it is alive; arguments arrive in order |
| Intermediate code (`intermediate_code.c`) | `quads`, `curr_quad` | `emit`, `patch_label`, `merge_lists`, `create_temp_symbol`, ... | called by the parser; see there |
| Target code (`tcode_generation.c`, `arraylist.c`) | instructions, tables of constants and functions | `make_operand`, one generator per opcode | one instruction per quad, so labels stay right; table indexes denote what was put in, however the tables grow |
| Bytecode writer (`abc_writer.c`) | the file | `write_abc` | who reads the file finds the program in it |
| Driver (`main`) | `IR_GEN_FAILED`, files | compile, then write | no output after an error; generation ends |
| Scanner (`scanner.l`) | `state`, `comment_stack` | one rule per pattern | comments nest, strings end, nothing inside a comment is a token |
| Lexical analyzers (`lexical_analyzer`: `custom_scanner.c`, `scanner.l`) | lexeme, state, look-ahead, `comment_block`, stack, queue | a character; a rule | the two agree; every text is read to its end |
| Syntactic analyzer (`syntactic_analyzer/parser.y`, its table) | `current_scope`, `global_only`, `block_stack`, `nameless_func_count`, `ERROR_FLAG` | one action per production | refuses a program if and only if it breaks a rule |
| IR stage (`IR_generation/parser.y`, its table) | entries, temporaries among them, offsets, `temp_var_counter` | one action per production | a result in a temporary is there when it is used; places have no gaps |

The scanner hands tokens to the parser, which calls the symbol table and emits
quads; when `yyparse` is done, the target code reads the quads and the entries
they point to; the writer writes the tables. The symbol table is shared: by
scope (which names are visible), by function (`func_is_open`, `address_list`)
and by frame (`offset`, `space`).

## Modules

| Module | What it is |
|---|---|
| `Symbols` | What each lookup of the symbol table means, as operators on the sequence of all entries in order of creation. |
| `Scoping` | Abstract specification: what is visible in which open scope and which functions are open. No hash table, no lists. |
| `SymTable` | The hash table and the scope lists as the C code keeps them. Growth is one step per node moved. Its environment makes the calls of `parser.y`, in the orders the grammar allows. |
| `SymTableProofs` | The theorems about the two indexes of `SymTable` and its growth, what its lookups find, and that it implements `Scoping`. |
| `Parser` | The semantic actions for declarations, blocks, functions, branches and loops, and the state they share. |
| `ParserProofs` | The theorems about what `Parser` declares: bindings and functions, slots, names. |
| `ParserJumpProofs` | Those about its labels and jumps; extends the one before. |
| `Machine` | External: what the virtual machine does with a quad, as far as the code generator's use of it shows. |
| `Expressions` | The semantic actions for expressions, the quads they emit, and the direct execution these are compared with. |
| `ExpressionsProofs` | The theorems about its items and its lists of jumps. |
| `Translation` | Abstract specification: a program is read, then translated statement by statement into code of the same meaning. No tables, no operands. |
| `TargetCode` | Quads to instructions, tables and a file, and the driver between them. |
| `TargetCodeProofs` | The theorems about `TargetCode`, among them that it implements `Translation`. |
| `CustomScanner` | The hand-written scanner, a character per step. |
| `CustomScannerProofs` | The theorems about it. |
| `FlexScanner` | The flex scanner as a function of a text, and the comparison of the two. |
| `Syntactic` | The first analyzer: its table, its actions, and the rules its verdict is held against. |
| `SyntacticProofs` | The theorems about it. |
| `Temporaries` | The IR stage: places and temporaries, with functions inside expressions. |
| `TemporariesProofs` | The theorems about it. |
| `MCSymTable`, `MCParser`, `MCExpressions`, `MCTargetCode`, `MCScanner`, `MCSyntactic`, `MCTemporaries` | Instances for TLC. |

`SymTable` and `Parser` meet in `Symbols`. `SymTable` shows that walking chains
and lists computes what `Symbols` says (`AnswersRight`, `GetIsNewest`), as long
as the bucket array has not grown (fewer than 509 entries) and `scopes[]` covers
the nesting; `Parser` then calls the operators of `Symbols` where `parser.y`
calls the table. Programs beyond these limits are studied in `SymTable` alone,
where the limits are constants and small: `Parser`, `Syntactic` and `Temporaries` have
no limit on `scopes[]`, and say nothing of programs that nest deeper than it reaches.

### Symbols and entries

An entry is its position in the order of creation and 0 is NULL, so that a
pointer comparison is a comparison of numbers and "newest" is "largest".
Fields that no modelled action reads are left out.

### SymTable

`buckets[b]` is a chain, head first; `scopes[s]` a list, head first. `Hash` is
any function from names to numbers and `BucketSizes` any sequence of sizes: the
509, 1021, ... of the code are one instance. `SymTable_put` either inserts or,
at `binding_count == size`, starts `increase_buckets`; then `MoveNode` and
`NextRow` are the two loops and `FinishGrowth` frees the old array and makes the
insertion that waited. The parser calls nothing in between (`Ready`).
`nest` and `header` record, per open block, whether it is the body of a function:
they are the part of the grammar that orders the calls. `Shadowing` says which
programs are considered: functions with fresh names only, names that may hide
those of outer scopes, or any (the errors "redefinition of function" and
"already declared as a variable" do not stop the binding).
Indexing `scopes[]` past its end is undefined; the model stops there (`crashed`).

### Parser

`ctx` is the part of bison's semantic stack that matters: a frame per
construct whose end has not been read, holding the quad numbers (`$1`, `$3`,
`$5`) that its last action will use and the break and continue lists of the
statements read so far. An action is a reduction or a mid-rule action, together
with those that necessarily follow it at once: `function_definition`, for
example, is the `}` of the body, `function_body` and `function_definition`.
Conditions are constants or, with the feature "code", a `-1`, which costs a quad
and a temporary; this is what moves labels and offsets around.

Errors go to `yyerror`, which sets `IR_GEN_FAILED`, and parsing goes on. The
errors that bison itself finds and its recovery are not modelled.

Some state exists for the properties only: `fn` in an entry is the function it
was declared in; `patch`, `why` and `at` in a quad say whether its label is owed
and to which construct.

### Expressions

`stack` is bison's semantic stack for the statement that is being read: `Expr`
records, each with the nonterminal it has been reduced to. An action takes the
topmost items and leaves one, which lets TLC build every expression tree within
the bounds in the order bison reduces it. Code generation threads a record of the
quads, the temporaries taken and the `Expr` at hand through the helpers
(`backpatch_tf_lists`, `emit_if_table_item`, `make_call`, ...), in the order in
which `parser.y` calls them.

The reference is not another compiler but the program itself: `worlds` holds, for
every start of the variables, what the part read so far has done when executed
directly, `live` whether the part being read is reached, and `val` in each item
what it evaluated to. `CodeComputes` runs the finished quads on `Machine` and
compares variables, tables, calls and the returned value. Values are numbers with
false, true, nil and tables coded above the others. A variable is read when the
operator it belongs to is applied, which is what emitting operands by name means;
`a - a++` is therefore 1, not 0, on both sides.

`CodeComputes` does not hold of the whole language. Four constructs are miscompiled,
so each has a feature or a bound that leaves it out; with any of them admitted,
the same runs fail:

- `pending_operand`: an arithmetic operator on the result of `and` or `or`.
  `check_arith_expr` looks at the type only, and `a and b` has the type of `a`:
  `(a and b) + 1` adds 1 to `a` and leaves the jumps of the `and` without a label;
- `pending_left`: a comparison whose left operand still has jumps. They get
  their value after the code of the right operand (`parser.y:241`), which is skipped;
- `step_item`: `++` and `--` of table elements (`parser.y:427`) pass table, key
  and value in another order than an assignment does;
- `MaxMethodArgs > 1`: `x..f(a, b)` calls `f` with `x` and the last argument only
  (`parser.y:718`).

No doc or comment says otherwise; they are hazards in `PROJECT.json`.

### TargetCode

`phase` is where `main` is: parsing, generating, done, or stopped by an assertion
of `make_operand` (`crashed`). While parsing, `Statement` emits a quad of
`Templates`, and `FunctionStart` and `FunctionEnd` are `function_prefix` and
`function_definition`: they emit the jump around a function and patch it, and
write its address and, later, its number of locals into its entry. `Error` sets
`IR_GEN_FAILED`, and `EndOfInput` ends the program. `Abort` is `YYABORT` (an ERROR token, a
comment that was never closed) in the middle of functions: `main` asks
`IR_GEN_FAILED` only, so generation follows. `Generate` is one round of
`generate_final_instructions`, with the one to three calls of `make_operand` in
the order of the generator; `Write` is `write_abc`.

All arrays (`quads`, `instructions`, the tables) are array lists with their
allocated size, which `insert_arraylist` and `expand_quads` enlarge alike. Strings, names and library
functions are numbers; a user function is its entry in `funcs`. An instruction
denotes a meaning through the tables (`CodeMeaning`), a quad does so by itself
(`QuadMeaning`), and the two sequences of meanings are what `Translation` is
about. `Loaded` reads a file back as the format says, numbers having no width.
`create_temp_symbol` leaves the space of a temporary as `malloc` returned it:
`TempSpaces` says what that may be. With `"garbage"` the switch in `make_operand`
runs into its assertion, which `EndsEventually` counts as an end.

### CustomScanner and FlexScanner

`Read` is one round of the loop in `gettoken2`: a character, new or given back
(`look_ahead`), a state function, and, when it completes a token, the round of
`tokenize` that deals with it. The file is made up as it is read, so TLC tries
every text over the characters of an input kind. `comment_block` and `stack` are the flag and the
stack of the nested comments; `lexeme` overflows at `MAX_LEXEME`. Both scanners have
the same states for strings and their escapes.

`CommentsNest` holds this stack against the text. `Brackets` are the pairs `/*` and
`*/` in it, every other one of pairs that overlap; `Unclosed` are the opening ones
after which there are always more opening than closing brackets. The stack has one
line for each of them, the one it stands on. This is asked of texts that hide no bracket
(`Plain`): a string or a line comment can, and which ones do is a question of
lexing, not of nesting. `AgreesWithFlex` compares those.

`FlexScanner` does the same by the rules of `scanner.l`: at each place, the
longest match, and of equal ones the first; then the action. `AgreesWithFlex`
compares tokens, lines, comments and failures when `CustomScanner` is done. The
two really part in five cases, which `Act` and `Scan` collect in `odd`: `1.` at the
end of a number; a newline in a string; `//` or a quote in a block comment; a
quote in a line comment; an underscore outside of identifiers. Nothing in the
repository says which of the two would be right.

### Syntactic

A frame per construct being read: block, loop, header of a loop, function,
assignment or call whose left part has been read and put by. An expression is
the names in it. `lvalue`, `primary`, `insert_variable` and `call` return what
the actions of those names do; as there, an entry may be new and in no table
yet, and may be freed when it is refused, even if the table holds it (`freed`).
`Break`, `Return`, `idlist_fails`, `NamedFunction` and `FunctionEnd` are the
rules on loops and functions, with the lookup by name that closes a function; a
function that is written as the operand of an operator is refused at its end. Left
out: an assignment as operand of an operator, which has the type of its right side
(`parser.y:250`).

`broken` says what the rules say, told from the frames alone: which function's body
an entry and a use lie in, which construct is innermost. `VerdictRight` compares
it with `ERROR_FLAG`, and says that no entry of the table is freed. It leaves out
programs that have done something `Confusing`, where the code follows other
rules: `::x` while a local `x` is visible, `global_only` set by a name that was
read in between, a global function as operand inside a block, and a formal after
the first with the name of a function of the program (`ConfusingFormals`). A refused program begins nothing new, which loses
nothing as both flags stay.

### Temporaries

The grammar is cut down to what gives variables a place or a temporary a value:
`lvalue` (`x`, `local x` and `::x` are `Variable`, `LocalVariable` and `GlobalVariable`),
`primary`, binary arithmetic, `x++`, assignment, calls of a name with up to one argument,
blocks, and named functions with up to one argument. Left out by name: table items, members and
tables, constants, library functions, anonymous functions, calls of calls and methods,
branches and loops, `and`, `or`, `not` and comparisons. Therefore `Fail` in
`handle_expr_op_expr` is about functions only, of the operands that
`check_arith_expr` refuses, and a local may have any name.

`ctx` holds the bodies and blocks being read and, in each, the operands of the
expression being read there. Temporaries are entries `@t0`, `@t1`, ... of the
scope they are needed in (`create_temp_symbol`), found again by name. Every quad
that gives symbols a value goes through `Written`, which marks the operands
whose value is overwritten (`lost`). A function is a statement or an operand;
its statements reset `temp_var_counter`, and what follows it in the expression
around reuses names. `spoiled` marks the operands read before such a function:
those `OperandsKept` gives up, as the code does overwrite them: in
`f(a + b, (function () { ; }), c + d)` both sums are in `@t0`. Quads and jumps are left out.

## Runs

| Run | Properties | Shows |
|---|---|---|
| `symtable_scopes` | `AnswersRight`, `GetIsNewest`, `NoGhosts`, `LastOpenIsInnermost`, `ImplementsScoping` | Without growth the table answers every lookup as `Symbols` says and implements `Scoping`, for any shadowing. |
| `symtable_growth` | `TypeOK`, `NothingLost`, `LookupsAgree` | Two growths, with other entries before, between and after: nothing lost. |
| `symtable_last_open` | `LastOpenIsInnermost` | *Violated* with growth. See below. |
| `parser_scopes` | `TypeOK`, `AccessRule`, `OpenIffNested`, `BoundOnce`, `ActiveScopes`, `SlotsDistinct`, `FrameSize` | Which variables are visible or refused, which functions are open, and where in which frame each variable lives. |
| `parser_jumps` | `PatchedOnce`, `NoDanglingJump`, `BlockStackMatchesNesting`, `JumpsReachOwner` | Functions, `while`, `for`, `if`. |
| `parser_stray_break` | `BreaksHaveLoops` | *Violated.* |
| `expr_logic` | `CodeComputes`, `JumpsHeldOnce` | Two kinds of programs. `Logic`: `and`, `or`, `not`, comparisons, assignments inside each other. `Memory`: arithmetic, increments, elements, assignments; several statements, so that temporaries are reused. |
| `expr_calls` | `TypeOK`, `CodeComputes` | Calls, methods, table constructors, calls of their results. |
| `target_code` | `TypeOK`, `EntriesUsedOnce`, `FileMeansProgram`, `FunctionsAreSkipped`, `ImplementsTranslation`, `EndsEventually` | Each quad becomes one instruction with its meaning, for good; the file has the program in it, its functions skipped by whoever comes along; generation ends. |
| `scanner` | `TypeOK`, `CommentsNest`, `AgreesWithFlex`, `ScansToTheEnd` | The hand-written scanner returns what the flex scanner returns, has the brackets on its stack that the text leaves open, and always ends. |
| `syntactic` | `TypeOK`, `VerdictRight`, `OpenIffNested` | A program is refused exactly when it breaks a rule; the open functions are those being read. |
| `temporaries` | `TypeOK`, `OperandsKept`, `SlotsFill`, `OperandsReachable` | Functions inside expressions take away neither operands nor places, and reach no value of a function around them. |

The violated ones:

- `symtable_last_open`. `increase_buckets` reverses the order of equal names in
  a chain, after which `SymTable_get` returns the oldest binding. When a function
  with the name of an outer one ends, `parser.y:953` closes the outer one. The
  program is legal (a name of an outer scope is hidden by an inner function).
- `parser_stray_break`. `for_statement` does not pop the `LOOP` that `for_prefix`
  pushed: later a `break` outside of every loop is accepted. In the same way a
  `for` in a function leaves `FUNC_BLOCK` behind, and a `return` outside of every
  function reads through NULL (`crashed` in the model).

`BlockStackMatchesNesting` and `NoDanglingJump` are therefore stated up to the end
of the first `for` (`NoForEnded`); after it they fail for the reason just given.

Only an insertion expands `scopes[]`; ten nested blocks with nothing declared in
them make the lookups read past its end (`crashed` in `SymTable`).
`SymTable_put` also does not refuse an active name, which `symtable.h:91` promises.
No caller relies on it: `BoundOnce` holds of the parser as it is.

### Bounds

`MaxEntries`, `MaxDepth` and `MaxQuads` are guards of the actions that create
something, so that each run is finite; a branch or loop that was begun can
always be completed. `TempNames` and `AnonymousNames` of `Parser`, and
`TempNames` of `Temporaries`, are longer than the other bounds let a program of
these runs need: their guards never hold anything back.

- The table: 4 entries and names that share buckets in some sizes and not in
  others. A wrong answer needs two entries of one name in one chain and a
  third in another scope. Sizes 1, 2, 3 grow twice within these bounds, and depth
  3 (4 without growth) reaches past a table of 3 scopes, in both ways: with and
  without something declared in the deepest block.
- Scopes: two functions inside each other with a block between them and 4
  entries besides the library function is where a reused scope could be taken
  for the old one.
- Frames, in the same run: a local before, in and after a nested function, with
  the temporaries of assignments between.
- Jumps: depth 5 nests a branch in a loop in a loop in a function; 8 quads are
  two `while` loops, or a `for` with a `while` around or in it, with breaks and
  continues.
- Expressions (`MaxItems`): 3 operands per program, in one statement or several
  (2 operators and any number of unary ones), which is where one operator's result
  is the left or the right operand of another. `Logic` has two variables and 10
  quads, `Memory` a variable, a table and 5 quads, `Calls` a table and 4 quads. Variables start
  as 0 or 1, so both ways of each test are taken; arithmetic is modulo 4 to keep
  them few.
- Target code: the first quad is any of 23, with every opcode and every kind of
  operand, the others any of 9 (`Followers`): at most 3 from both, functions
  counted as one. A table entry made twice or misread needs two quads with the
  same constant, a wrong function two of one name (`Names = {1}`); arrays grow by
  2 (`ExpandSize`), so every one that matters grows between two uses.
- Scanners: every text of at most 7 characters of comments, strings and lines, of
  at most 9 of comment brackets alone (one comment inside another, both closed,
  is 8), and of at most 4 of two kinds of tokens, which is the longest operator, a
  character that decides where it ends, and what it is given back to.
  `MAX_LEXEME = 9` is no shorter than any text; `an` is the keyword.
- Syntactic: three kinds of programs (`Programs`), over a name and that of a library
  function: 3 entries in 3 constructs, one of them an assignment or call; 2 entries
  in 3 constructs with loops too; one entry and 5 constructs, 4 of them loops. A
  wrong verdict needs a variable, a function between it and its use, and maybe a
  closed block that had the name; or a loop that has ended in another one. The
  four `AnonymousNames` are more than the functions that can be open in any of them,
  so this bound holds nothing back. Functions have at most two formals: one checks
  a formal against the one before and against the library.
- Temporaries: 5 entries, 3 constructs and 2 operands. An operand is lost with one
  temporary outside and one inside of a function. `local x` and `::x` are written
  while there are fewer than 4 entries (`MaxQualified`): two functions inside each
  other and a variable of each, or a local, the global it hides and what is reached past it.

`Refusable` (`Syntactic`), the stop after an error (`TargetCode!HasRoom`,
`Temporaries!Next`) and `Stopped` (`Syntactic`) end programs whose verdict no
longer changes.

### Fairness

Two specifications state fairness, for loops that nothing but the compiler
itself could hold up: `FairSpec` of `TargetCode` has weak fairness of
`Generate \/ Write`, the loop of `generate_final_instructions` and what `main`
does after it; `Spec` of `CustomScanner` has that of `Read`, the loop of `tokenize`,
whose file ends. Parsing has none: the program is the environment's and may end
anywhere. `EndsEventually` and `ScansToTheEnd` say that each loop makes progress
in every round: a character given back and never dropped, or a quad that is
looked at again, would keep it busy for ever.

Deadlock is checked everywhere: `Stopped`, `Terminated`, `Returned` and `Abort` are
the states and steps after which the compiler really does nothing more.

## Proofs

`SymTableProofs`, for every hash function, sequence of bucket sizes, set of
names and bound:

- `TypeCorrect`: `Spec => []TypeOK`;
- `NeverLosesEntries`: `Spec => []NothingLost`;
- `LookupsNeverDisagree`: `Spec => []LookupsAgree`.

The assumptions are those of `SymTable`: `Hash` maps names to naturals, there is
at least one bucket size and none is 0, `scopes[]` starts with at least one list.
The inductive invariant is `IInv == TypeOK /\ NothingLost`. `NothingLost` alone
is not inductive: a lookup in an array of the wrong size would not find what is
there, so the size must be known to be that of `level`, before and during
growth. It is about every step of growth, not only its end: an entry
is in the new array or in a chain of the old one that the loop has yet to reach.
There is a lemma per step (`InsertStep`, `PutStep`, `MoveNodeStep`,
`NextRowStep`, `FinishGrowthStep`, `LeaveBlockStep`), and `StepHolds` splits
`Next` over them. `LookupsAgree` needs no induction of its own: `WalkFinds` says
that a walk over a list finds an element if one passes the test, and
`IndexesAgree` that under `IInv` both walks test the same entries.

In the same module, for the same and any shadowing of functions:

- `ClosedScopesStayClosed`: `Spec => []NoGhosts`;
- `WalksFindTheRightEntry`: `Spec => []AnswersRight`;
- `GetFindsTheNewest`: `NeverGrows => (Spec => []GetIsNewest)`;
- `ReturnsReachTheInnermost`: `NeverGrows => (Spec => []LastOpenIsInnermost)`;
- `ScopingIsImplemented`: `NeverGrows => (Spec => ImplementsScoping)`, the refinement.

`TempsAssumption` joins the assumptions: names of temporaries begin with `@`, as
no identifier does. `NeverGrows` says that there is one array, or that its size
exceeds the bound on entries (in the code: fewer than 509 names). It is necessary: the run
`symtable_last_open` shows what growth does to chains, and with them to the last
three properties. The first two hold in the middle of growth as well.

The inductive invariant of the first two is `OInv`. It adds to `IInv` that
scope lists ascend in age (`ListsAscend`), that chains descend in the first array
(`ChainsDescend`), that the header is that of a
function there is (`HeaderKnown`) and that an insertion waiting for growth still
fits the nest (`PendingFits`). `NoGhosts` is part of it: that a new binding is in an
open scope depends on where the parser is when it is made. The walks are recursive functions, and what they
return follows from the order of the list and the entries that pass the test
(`EntryAtScopeRight`, `ClosestScopeRight`, `OpenFuncRight`, `OpenedSinceRight`, `GetRight`).
The other three need `RInv`: the table is in its first array, and the functions that are
open are those of the stack of blocks, each younger than those around it and in
the scope outside of its body (`OpensKnown`, `OpensInOrder`, `OpensAreNested`). That makes the
newest active binding of the name of the innermost function that function
itself (`LeaveCloses`), although its name may be bound outside. The refinement
takes each call (`PutEffect`, `LeaveEffect`) to the step of `Scoping` of that
name (`PutMaps`, `StepMaps`).

`ParserProofs` and `ParserJumpProofs` are about every set of names, features and bound.
The only assumption is `NamesAssumption`: names of temporaries and of anonymous functions
are none of the program's (`@`, `$`), and the library has no function twice.

| Theorem | Property |
|---|---|
| `BindingsMirrorTheNest` | `Nested`, the invariant below |
| `OnlyScopesAroundAreActive` | `ActiveScopes` |
| `OpenFunctionsAreTheNest` | `OpenIffNested` |
| `AccessMeansOwner` | `AccessRule` |
| `FramesFitTheirLocals` | `Framed`, the invariant below |
| `SlotsAreDistinct` | `SlotsDistinct` |
| `FrameSizesAreRight` | `FrameSize` |
| `NamesAreBoundApart` | `Bound`, the invariant below |
| `NamesAreBoundOnce` | `BoundOnce` |
| `JumpsAreOwedOnce` | `Ledgered`, the invariant below |
| `LabelsArePatchedOnce` | `PatchedOnce` |
| `JumpsWaitInTheirLoops` | `Mapped`, the invariant below |
| `BlockStackIsTheNest` | `BlockStackMatchesNesting` |
| `NoJumpIsForgotten` | `NoDanglingJump` |
| `JumpsReachTheirOwners` | `JumpsReachOwner` |
| `TypeCorrect` | `TypeOK` |

These are all properties of its passing runs. None of them is inductive. The
invariants were checked by TLC on the constants of the two runs before they were
proved, and each stands on the one before:

- `Nested` relates entries to frames. The semantic stack is well formed
  (`Shaped`); each frame of a function header or body holds an open, active entry
  whose scope is the number of blocks around it, inner ones are newer, and no other
  entry is open (`Mirrors`); what is active and older than an open function is not
  inside it, what is younger is, temporaries apart, which are of scope 0
  (`OlderOutside`, `YoungerInside`); an active binding knows the newest function that was open when it
  was made (`OwnersKnown`). From this the access check, which looks at scopes and
  ages only, finds the owner. `StepKinds` sorts the actions into those that put
  bindings and change nothing else of this (`Steady`) and the others, with lemmas of their own:
  `ReturnNested`, `BlockOpens`, `BlockCloses`, `HeaderOpens`, `FormalNested`,
  `BodyOpens`, `FunctionCloses`. In `BodyCloses` the name of the function that ends
  is looked up when its body has been hidden, and found to be its own.
- `Framed` relates offsets to locals: slots are apart and global ones below the
  next; the locals of the innermost function are as many as the counter says, those of a function around as
  many as `function_offset_stack` has saved, those of a closed one as its entry
  has recorded; `scope_space_counter` is odd in bodies and even in headers.
  `GlobalPut` and `LocalPut` are about one more variable, `HeaderFramed`,
  `BodyFramed` and `DefinitionFramed` about the three steps of a function.
- `Bound` says, for as long as there was no error, that the library is where it
  was and nothing else has its names, that active bindings of a name of the
  program are in different scopes, and arguments read so far are different. The
  checks it rests on are not the same in any two actions (`VariableBound`,
  `AssignmentBound`, `FormalBound`, `HeaderBound`), and that for formals takes the newest binding
  of a name for the library's: `LibraryFound` says why it is.
- `Ledgered` is the ledger of jumps: a frame owes the labels its own construct
  has to fill in and those in its lists, an open function those of its returns
  and of the jump around it; no label is owed twice, all that are owed are open,
  and none leads behind the quads. `PatchFills` and `EmitFills` are about one operation, `Settle`,
  `SettleFrames` and `SettleFunction` about the debts of a construct that ends.
- `Mapped` says where a jump is owed: breaks and continues in lists inside the
  loop they leave and no other (`Sent`, `Heard`), returns in the list of their function
  (`Returning`); and until the first `for` ends, `block_stack` is the nest (`Tracks`), only
  frames in loops hold lists (`Looped`), and every open jump is owed by someone
  (`Covers`). `EveryMove` sorts the actions by what they do to frames and lists, and
  `MoveRelayed`, `SentStep`, `HeardStep`, `TracksMove`, `LoopedStep`, `NothingForgotten` and
  `ReturningStep` carry the parts over. `EndsAre` says what the
  steps that end a loop or a body patch, and `EveryEndDelivers` that these are the
  jumps out of it.

The labels are numbers of quads and frames are places in `ctx`; both come back
when a construct has ended. The history variables `why` and `at` therefore say
which jump is whose only among those emitted since the loop began (`i > cx[d].q[1]` in `Heard`).

`TargetCodeProofs`, for every set of names, templates, followers, spaces that
`malloc` may leave, growth step and bound:

- `TypeCorrect`: `Spec => []TypeOK`;
- `EntriesHaveUses`: `Spec => []EntriesUsedOnce`;
- `CodeIsTranslation`: `Spec => ImplementsTranslation`, the refinement;
- `FileIsProgram`: `Spec => []FileMeansProgram`;
- `FunctionsSkipped`: `Spec => []FunctionsAreSkipped`.

The assumptions are `ExpandAssumption` (arrays grow by at least one) and
`TemplatesAssumption` (templates are quads as `emit` takes them). `TypeOK` says that the
arrays fit, but not that an operand's number is in its table, so neither it
nor `EntriesUsedOnce` is inductive. The inductive invariant adds three facts:
functions have increasing addresses below the number of quads (`FuncsInOrder`),
quads mention functions there are (`QuadsKnown`), and instructions mention
entries there are, in tables without duplicates (`TablesServe`). The argument:

- `Enter` and `SameFunction`: what is searched for in a table is in it
  afterwards, once, under the number returned. Functions are compared by name and address, and
  as the addresses are in order, that identifies a function.
- `OneTable`, `OperandMade`, `ThreeOperands`: `make_operand` changes one table at
  most, at its end; hence an operand made before denotes what it denoted
  (`Keeps`), also those of the same instruction.
- `OwnGenerator`: each opcode finds its own generator at its place in the table of
  another file; `Generated` follows, group of opcodes by group: the instruction means
  what the quad means.
- One lemma per action shows that it keeps `Inductive` (`StatementKeeps`,
  `FunctionStartKeeps`, `FunctionEndKeeps`, `RoundKeeps`, `OthersKeep`); patching
  (`Patched`) changes no operand.
- The file: `InstructionWritten` and `FunctionWritten` read back the words of one
  record, `Joining` a row of records, and `FileParts` finds each part behind
  the lengths of those before it; `ReadBack` concludes that who reads `write_abc`
  gets the tables and the instructions. The invariant `Served` (each instruction
  made so far means its quad, and a file there is still what `write_abc` would
  write) makes that the meaning of the program.
- Functions: the invariant `Bracketed` says that the address of a function is that of its
  `funcstart` behind a jump, and that this jump goes behind its `funcend` unless the
  function is open. `EndBrackets` needs that addresses differ, as patching
  must not touch another function's jump; `NumberOfFunction` turns the meaning
  of an operand back into its number, as no function is entered twice.
- `RoundTranslates`: a round appends the meaning of the next quad and changes
  none before; every other step changes the source while there is no code, or nothing.

`CustomScannerProofs`, for every set of characters, length of files and of
lexemes, and every text:

- `ScannerTyped`: `Spec => []TypeOK`;
- `CommentsNested`: `Spec => []CommentsNest`.

What `CommentsNest` says of the text is restricted by `Plain`, in the theorem as in
the run; that the flag means an open bracket and that stacked lines ascend
holds of every text.

The assumptions are `InputsAssumption` (neither the end of the file nor the empty
`look_ahead` is a character) and `LexemeAssumption` (`MAX_LEXEME` is a number). `TypeOK` bounds
the line number by the newlines that can have been read, which is not inductive: a
newline given back is counted when it is read again. `Reading` says where that
can happen, namely between tokens only, and that the end of the file is met once
inside a token. `Tokenized` is about the tokens: their lines, what was begun and
not closed in a comment, and the brackets on the stack. `StatesSound`
goes through the state functions once; what is needed of a round afterwards is
`Sound`.

Nesting needs a second invariant, `Matched`. Its part `Following` says that the
scanner is between the two characters of a bracket if and only if the text is: in the state
for `/` or `*`, or with this character put back (`Begun`), which is why `/*/` does not
close what it opens. `Placed` says what the stack is, and that every open bracket
has as many open ones from it on as there are more opening than closing brackets
(`Balanced`), without which nothing would say that the *last* one is closed. The text grows
by one character: `BracketsGrow`, `UnclosedGrows` and `LinesGrow` are about that,
and `PlacedOn`, `PlacedOpened` and `PlacedClosed` about the three things it can do to
the stack. `StatesMarking` gives the state functions' view of the same, and
`SameTextMatched` and `LongerTextMatched` bring the two together.

`TemporariesProofs`, for every set of names and bound, with functions nested in
expressions, blocks and functions in any way:

- `TemporariesTyped`: `Spec => []TypeOK`;
- `OperandsStay`: `Spec => []OperandsKept`;
- `PlacesFill`: `Spec => []SlotsFill`;
- `OperandsOwn`: `Spec => []OperandsReachable`.

The only assumption is `NamesAssumption`: names of temporaries are none of the
program's. The inductive invariant `Inv` was checked by TLC first. Its parts:

- `Framed`: frame `i` begins at scope `i - 1`, and its function is that of the
  frame around it or an open one of the frame's scope, younger than all that is
  further out. It makes what `close_function` finds by name the right one (`ClosedIs`).
- `Scoped`: what is active at a scope belongs to the function of the frame there.
  A name is looked up from the inside to the outside, but a variable it finds may belong to a
  function around; only `SymTable_open_func` tells, and `Reachable` says that
  it tells right.
- `Held`: a computed operand is the symbol `@t`*c* of its own frame's scope, and
  *c* is not above the counter unless something inside has ended a statement, or
  will have when it is left (`Overtaken`). Hence a new
  temporary is another symbol: it is in another scope, or has a higher number. This is
  not said by `OperandsKept`, which only speaks of what has been overwritten.
- `ReadLast`: an lvalue that has just been read is what its name means, so that the
  second lookup, in `primary`, finds it again; or it is global. With `::x` that lookup
  may find a local `x` and refuse it, but it never lets another function's variable pass.
- `Counted`, `Placed`, `AllFilled`: the counter and the stack of saved offsets say
  how functions are nested, an offset is the number of places given in that
  function, and the places of every function have no gaps. The counter of a
  function around waits in `function_offset_stack` at its depth.

There is a lemma per action (`LvalueStep`, ..., `FunctionEndStep`); `FramedPut`,
`FramedPush`, `FramedPop` and their like carry one part over one kind of change.

`SyntacticProofs`, for every set of names, library, and bound on programs, with
functions, blocks, loops, calls and assignments in one another in any way:

- `SyntacticTyped`: `Spec => []TypeOK`;
- `OpenFunctionsAreRead`: `Spec => []OpenIffNested`;
- `VerdictIsRight`: `Spec => []VerdictRight`.

The assumptions are `LibAssumption` (the library has no function twice) and
`NamesAssumption` (an identifier is not empty and has no `$`, so none is the name
of an anonymous function). `VerdictRight` says nothing of why the code finds what the
rules mean. The inductive invariant `Inv` does; it was checked by TLC first:

- `Tracks`: `block_stack` is the nest of loops and functions, and `Numbered`: an
  anonymous function has the number of those around it. With them `Break`,
  `Return` and the name `FunctionEnd` looks up are about the frames.
- `Scoped`: active entries are in scopes that are being read, those of an inner scope are
  younger, and a name is bound once in a scope. So the first entry found going outwards is
  the youngest, which the rules go by, and it is in the body of a frame if and only if its scope is.
- `Opened`: the function of a frame has its entry just outside of the body, active and
  open (`HasEntry`), or was refused as its name was taken there (`WasTaken`).
  `FoundIs` concludes that closing a function by name finds its own entry, or none that is open.
- `PutsAside`: an lvalue that is put by until the right side or the arguments have been
  read still means what it did (`Kept`), whatever functions were read in between.
- `Lawful` holds only of programs accepted so far: every function has an entry,
  and names of the library are nothing else. The code may take the
  newest binding of a name for the library's, which is right for no other programs.

The verdict of each operation is a lemma: `LvalueIs`, `PrimaryIs`, `InsertIs`,
`CallIs`, `BreakIs`, `ReturnIs` and `FormalsRight` say that it reports an error if and only
if the rule is broken; they rest on `Bindings` (which entries a name can mean), `LibraryIs` and
`MeantIs`. There is one lemma per action (`UseVariableStep`, ..., `FunctionEndStep`);
`InPlace`, `Quiet` and `Follows` are the ends that actions have in common.

`ExpressionsProofs`, for every set of programs (names, tables, features), of literals
and keys, and every bound:

- `TypeCorrect`: `Spec => []TypeOK`;
- `JumpsHeld`: `Careful => (Spec => []JumpsHeldOnce)`.

`BoundsAssumption` says that the numbers of arguments are naturals. `Careful` says that
no program has the feature `pending_operand`: arithmetic on an `and` or `or` drops
its lists (hazard `parser.y:182`), and their jumps are then in no list. Nothing else is left out;
comparisons whose left operand has jumps (`pending_left`) and `step_item` are miscompiled
as well, but lose no jump. Both invariants were checked by TLC first:

- `Shapes` is `TypeOK` with what it leaves unsaid. An `expr` has both lists or
  none, an operator that waits for its right operand has the list it passes on
  (`ItemOK`); records and sequences have their fields and lengths, and a label is at
  most two quads behind the end.
- `Holding` is `JumpsHeldOnce` item by item: the open jumps are the union of the
  lists on the stack, each list has a jump once, and no two items share one. A
  reduction is about the items it takes and those below (`SplitOne`, `SplitTwo`,
  `ReducedHolding`).

The helpers have a lemma each, of the form that whatever jumps waited before
wait afterwards, but those in the lists that were patched (`Patched`, `Settle`), and with
those just emitted (`Open`, `Listed`): `Fresh`, `Fetch`, `MemberItem`, `CallCode`. There is one
lemma per action (`LvalueStep`, ..., `BodyStep`), put together in `Stepping`.

Left to TLC: `AgreesWithFlex` and `CodeComputes`. `FlexScanner` is recursive and so out of the
prover's reach, as are liveness, `ENABLED` and induction over data: no theorem
is about what a recursive function computes in general, and the executions
`CodeComputes` compares are such functions.

## Plan

In this order:

1. `Symbols`, `Scoping`, `SymTable` and their proofs: done.
2. `Parser`, core of the semantic actions: done.
3. `Expressions` and `Machine`: done. Left: library functions and strings.
4. `TargetCode`, `Translation`, the driver, and their proofs: done.
5. `CustomScanner` and `FlexScanner`: done.
6. `Syntactic` and `Temporaries`: done. Left: the jumps of the IR stage, where they
   differ from `Parser`, its tables and members, and anonymous functions.
7. Error productions of the grammar in `Parser`, and what they leave behind.
8. Proofs: all safety properties but `AgreesWithFlex` and `CodeComputes`, and the
   refinements: done.

## Not modelled

- `SymTable_remove`, `SymTable_map` and `SymTable_append_addresslist` have no
  caller; `SymTable_free` runs last.
- Printing (`print_scopes`, `write_quads_to_file`, `print_tcode`, the messages),
  options and the byte widths of the output are I/O.
- Error recovery of bison: `yyerror` has set `IR_GEN_FAILED` by then, so only
  later messages depend on it.
- The scanner of the IR stage is identical to that of the last one, whose rules
  are those of `FlexScanner` without its queue.
- The IR stage's jumps, short circuits and constants, which `Parser` and
  `Expressions` follow in their later form; its tables, members, library and
  anonymous functions.
- Memory is never exhausted. Names are model values or numbers: the hash of a
  string is any function of it.
