------------------------------- MODULE Parser -------------------------------
(* The semantic actions of BC_generation/parser.y for declarations, blocks,   *)
(* functions, branches and loops, with the compiler state they share: the     *)
(* symbol table, the scope counters, the frame offsets, the stack of loops    *)
(* and function blocks, and the quads with the lists of labels to patch.      *)
(*                                                                             *)
(* ctx is the part of bison's semantic stack that holds a statement's         *)
(* surroundings, outermost first; an action is the reduction (or mid-rule     *)
(* action) it is named after, together with those that can only follow it at  *)
(* once.  A frame holds the semantic values of the symbols already read in q  *)
(* and the break and continue lists ($$->b_list, $$->c_list) in b and c; the  *)
(* NULL that many statements return has the effect of empty lists.            *)
(*                                                                             *)
(* Quads are numbered from 0, so quad i is quads[i + 1].  Expressions are     *)
(* those that decide control or scoping only: the rest of the expression      *)
(* grammar emits straight-line quads.                                         *)
EXTENDS Integers, Sequences, SequencesExt, FiniteSetsExt

CONSTANTS Var,       \* names a program uses for variables and arguments
          Fun,       \* names it uses for functions
          Lib,       \* names of library functions
          TempNames, \* bound: the names temporaries can get, in order
          AnonymousNames, \* bound: those anonymous functions can get
          Features,  \* the statements the program may use
          MaxQuads,  \* bound: quads before a statement that emits
          MaxEntries,\* bound: entries before a declaration
          MaxDepth   \* bound: length of ctx before a nested statement

Names == ToSet(Lib) \union Var \union Fun

\* Identifiers begin with a letter (scanner.l:74), names of temporaries with "@"
\* (intermediate_code.c:215) and those of anonymous functions with "$"
\* (symtable.c:69).
ASSUME NamesAssumption ==
  /\ Lib \in Seq(ToSet(Lib)) /\ IsInjective(Lib)
  /\ TempNames \in Seq(ToSet(TempNames))
  /\ AnonymousNames \in Seq(ToSet(AnonymousNames))
  /\ Names \intersect (ToSet(TempNames) \union ToSet(AnonymousNames)) = {}
  /\ ToSet(TempNames) \intersect ToSet(AnonymousNames) = {}

VARIABLES entries, current_scope, scope_space_counter, offset,
          function_offset_stack, block_stack, quads, temp_var_counter,
          nameless_func_count, arguments_list, IR_GEN_FAILED,
          ctx, status

tables == <<entries, current_scope, scope_space_counter, offset,
            function_offset_stack, block_stack, arguments_list,
            nameless_func_count>>
vars == <<tables, quads, temp_var_counter, IR_GEN_FAILED, ctx, status>>

Sym == INSTANCE Symbols
-----------------------------------------------------------------------------
(* The semantic stack *)

Frame(kind, q, b, c) == [kind |-> kind, q |-> q, b |-> b, c |-> c]
Top == Last(ctx)
Below == ctx[Len(ctx) - 1]
Push(f) == ctx' = Append(ctx, f)

Lists == {"program", "block", "body"}
LoopBodies == {"while_body", "for_body"}

\* Where the parser is ready for a statement, and where it has just read one.
AtStatement == status = "parsing" /\ Top.kind \in Lists \union LoopBodies
                                                    \union {"if_then", "if_else"}
AfterStatement(kind) == /\ status = "parsing" /\ Top.kind = "stmt"
                        /\ Below.kind = kind

\* May a statement of this sort, emitting up to n quads, start here?
Start(feature, n) == /\ AtStatement /\ feature \in Features
                     /\ Len(ctx) < MaxDepth /\ Len(quads) + n <= MaxQuads

Statement(b, c) == Push(Frame("stmt", <<>>, b, c))
NULL_Statement == Statement(<<>>, <<>>)

\* The n frames that make up a statement are replaced by its value.
Reduce(n, b, c) ==
  ctx' = Append(SubSeq(ctx, 1, Len(ctx) - n), Frame("stmt", <<>>, b, c))

\* The innermost function whose body is being parsed (its entry), 0 outside.
Bodies == {i \in DOMAIN ctx : ctx[i].kind = "body"}
CurrentFunction == IF Bodies = {} THEN 0 ELSE ctx[Max(Bodies)].q[1]

\* The loops and function bodies around this point (their frames), and the
\* innermost loop within the function, or 0.
Around(cx) == {i \in DOMAIN cx : cx[i].kind \in LoopBodies \union {"body"}}
CurrentLoop == IF Around(ctx) = {} \/ ctx[Max(Around(ctx))].kind = "body" THEN 0
               ELSE Max(Around(ctx))
-----------------------------------------------------------------------------
(* Quads and label lists *)

next_quad == Len(quads)

\* why and at say what a jump was emitted for: "break" out of and "continue" of
\* the loop of frame at, "return" from the function at, back to the step of a
\* "for".  patch says whether a jump waits for its label.
Quad(op, label) == [op |-> op, label |-> label, patch |-> "none",
                    why |-> "", at |-> 0]
Hole(op) == [Quad(op, 0) EXCEPT !.patch = "open"]
Owed(why, at) == [Hole("jump") EXCEPT !.why = why, !.at = at]

\* A mutant: only an empty list is replaced by the other one.
merge_lists_first(l1, l2) == IF l1 = <<>> THEN l2 ELSE l1

merge_lists(l1, l2) == l1 \o l2

\* patch_list on the quads numbered in the sequence l
Patch(qs, l, label) ==
  [i \in DOMAIN qs |->
     LET hits == {j \in DOMAIN l : l[j] = i - 1}
     IN  IF hits = {} THEN qs[i]
         ELSE [qs[i] EXCEPT !.label = label,
                 !.patch = IF @ = "open" /\ Cardinality(hits) = 1
                           THEN "once" ELSE "again"]]
-----------------------------------------------------------------------------
(* Stacks, scope spaces, offsets and symbols *)

\* A mutant: the top is read and left in place.
stack_pop_peek(stack) == stack

stack_pop(stack) == IF stack = <<>> THEN stack ELSE Front(stack)

Space == IF scope_space_counter = 1 THEN "program_variable"
         ELSE IF scope_space_counter % 2 = 0 THEN "formal_argument"
         ELSE "function_local"

\* A mutant: the space stays what it was.
enter_scope_space_not == UNCHANGED scope_space_counter

enter_scope_space == scope_space_counter' = scope_space_counter + 1

\* A mutant: the locals of the function around go on where the nested one's end.
restore_curr_scope_offset_not(counter, n) == offset

\* The offsets in the space that counter says; the program's is never restored.
restore_curr_scope_offset(counter, n) ==
  IF counter = 1 THEN offset ELSE [offset EXCEPT !["function_local"] = n]

\* A mutant: reset_function_locals_offset is left out.
argument_offsets_kept(n) == [offset EXCEPT !["formal_argument"] = @ + n]

\* ArgList_to_SymTable on n arguments, then reset_function_locals_offset
argument_offsets(n) == [offset EXCEPT !["formal_argument"] = @ + n,
                                      !["function_local"] = 0]

\* fn records the function the entry belongs to.
Entry(n, s, type, fn) ==
  [name |-> n, scope |-> s, isActive |-> TRUE,
   func_is_open |-> type = "USERFUNC", type |-> type, space |-> "unset",
   offset |-> 0, taddress |-> 0, address_list |-> <<>>, fn |-> fn]

is_variable(k) == entries[k].type \in {"GLOBAL", "LOCAL", "FORMAL"}

\* lvalue: the variable n is put in the current scope and given a slot.
WithVariable(n) ==
  Append(entries,
    [Entry(n, current_scope, IF current_scope = 0 THEN "GLOBAL" ELSE "LOCAL",
           CurrentFunction) EXCEPT !.space = Space, !.offset = offset[Space]])
inc_curr_scope_offset == [offset EXCEPT ![Space] = @ + 1]

Declare(n) == /\ Len(entries) < MaxEntries
              /\ entries' = WithVariable(n) /\ offset' = inc_curr_scope_offset

closest(n) == Sym!ClosestScope(entries, n, current_scope)

\* primary, assignment: the variable belongs to a function around this one.
cannot_access(k) == /\ entries[k].scope # 0 /\ is_variable(k)
                    /\ Sym!OpenedSince(entries, k, current_scope)

TempName(i) == TempNames[i + 1]

\* create_temp_symbol, in a table es with offsets os: space is never set, and
\* the slot always a global one.
create_temp_symbol(es, os) ==
  /\ temp_var_counter < Len(TempNames)
  /\ temp_var_counter' = temp_var_counter + 1
  /\ IF Sym!Contains(es, TempName(temp_var_counter), 0)
     THEN entries' = es /\ offset' = os
     ELSE /\ Len(es) < MaxEntries
          /\ entries' = Append(es,
                [Entry(TempName(temp_var_counter), 0, "LOCAL", 0)
                   EXCEPT !.offset = os["program_variable"]])
          /\ offset' = [os EXCEPT !["program_variable"] = @ + 1]

Init ==
  /\ entries = [k \in 1..Len(Lib) |-> Entry(Lib[k], 0, "LIBFUNC", 0)]
  /\ current_scope = 0
  /\ scope_space_counter = 1
  /\ offset = [program_variable |-> 0, function_local |-> 0, formal_argument |-> 0]
  /\ function_offset_stack = <<>> /\ block_stack = <<>>
  /\ quads = <<>> /\ temp_var_counter = 0
  /\ nameless_func_count = 0 /\ arguments_list = <<>>
  /\ IR_GEN_FAILED = FALSE
  /\ ctx = <<Frame("program", <<>>, <<>>, <<>>)>>
  /\ status = "parsing"
-----------------------------------------------------------------------------
(* Statement lists and expression statements *)

all_statements ==
  /\ \E l \in Lists : AfterStatement(l)
  /\ ctx' = Append(SubSeq(ctx, 1, Len(ctx) - 2),
                   [Below EXCEPT !.b = merge_lists(@, Top.b),
                                 !.c = merge_lists(@, Top.c)])
  /\ temp_var_counter' = 0
  /\ UNCHANGED <<tables, quads, IR_GEN_FAILED, status>>

\* statement: SEMICOLON.  It is not subject to the bounds, so that a branch or a
\* loop can always be completed.
empty_statement ==
  /\ AtStatement
  /\ NULL_Statement
  /\ UNCHANGED <<tables, quads, temp_var_counter, IR_GEN_FAILED, status>>

\* program: reached at the end of the input
program ==
  /\ status = "parsing" /\ Top.kind = "program"
  /\ status' = IF IR_GEN_FAILED THEN "aborted" ELSE "done"
  /\ UNCHANGED <<tables, quads, temp_var_counter, IR_GEN_FAILED, ctx>>

ExpressionDone == UNCHANGED <<current_scope, scope_space_counter,
  function_offset_stack, block_stack, arguments_list, nameless_func_count,
  status>>

\* n;
UseVariable(n) ==
  /\ Start("use", 0)
  /\ IF closest(n) = 0
     THEN Declare(n) /\ UNCHANGED IR_GEN_FAILED
     ELSE /\ IR_GEN_FAILED' = (IR_GEN_FAILED \/ cannot_access(closest(n)))
          /\ UNCHANGED <<entries, offset>>
  /\ NULL_Statement
  /\ UNCHANGED <<quads, temp_var_counter>> /\ ExpressionDone

\* A mutant: the library is not looked at.
LocalVariable_library(n) ==
  /\ Start("local", 0)
  /\ IF Sym!EntryAtScope(entries, n, current_scope) # 0
     THEN UNCHANGED <<entries, offset>> ELSE Declare(n)
  /\ NULL_Statement
  /\ UNCHANGED <<quads, temp_var_counter, IR_GEN_FAILED>> /\ ExpressionDone

\* local n;
LocalVariable(n) ==
  /\ Start("local", 0)
  /\ LET here == Sym!EntryAtScope(entries, n, current_scope)
         library == \E k \in {Sym!EntryAtScope(entries, n, 0)} \ {0} :
                      entries[k].type = "LIBFUNC"
     IN  /\ IR_GEN_FAILED' = \/ IR_GEN_FAILED \/ library
                             \/ here # 0 /\ cannot_access(here)
         /\ IF library \/ here # 0 THEN UNCHANGED <<entries, offset>>
            ELSE Declare(n)
  /\ NULL_Statement
  /\ UNCHANGED <<quads, temp_var_counter>> /\ ExpressionDone

\* ::n;  The access check looks n up by name, from the current scope.
GlobalVariable(n) ==
  /\ Start("global", 0)
  /\ IR_GEN_FAILED' = \/ IR_GEN_FAILED
                      \/ ~Sym!Contains(entries, n, 0)
                      \/ cannot_access(closest(n))
  /\ NULL_Statement
  /\ UNCHANGED <<entries, offset, quads, temp_var_counter>> /\ ExpressionDone

\* n = 1;  An error stops no code.
Assignment(n) ==
  /\ Start("assign", 2)
  /\ IF closest(n) = 0
     THEN /\ create_temp_symbol(WithVariable(n), inc_curr_scope_offset)
          /\ UNCHANGED IR_GEN_FAILED
     ELSE /\ create_temp_symbol(entries, offset)
          /\ IR_GEN_FAILED' = \/ IR_GEN_FAILED
                              \/ ~is_variable(closest(n))
                              \/ cannot_access(closest(n))
  /\ quads' = quads \o <<Quad("assign", 0), Quad("assign", 0)>>
  /\ NULL_Statement
  /\ ExpressionDone
-----------------------------------------------------------------------------
(* Blocks and functions *)

block_open ==
  /\ Start("block", 0)
  /\ current_scope' = current_scope + 1
  /\ Push(Frame("block", <<>>, <<>>, <<>>))
  /\ UNCHANGED <<entries, scope_space_counter, offset, function_offset_stack,
                 block_stack, arguments_list, nameless_func_count, quads,
                 temp_var_counter, IR_GEN_FAILED, status>>

\* A mutant: the scope number is decreased too early.
block_close_early ==
  /\ status = "parsing" /\ Top.kind = "block"
  /\ entries' = Sym!Deactivate(entries, current_scope - 1)
  /\ current_scope' = current_scope - 1
  /\ Reduce(1, Top.b, Top.c)
  /\ UNCHANGED <<scope_space_counter, offset, function_offset_stack, block_stack,
                 arguments_list, nameless_func_count, quads, temp_var_counter,
                 IR_GEN_FAILED, status>>

block_close ==
  /\ status = "parsing" /\ Top.kind = "block"
  /\ entries' = Sym!Deactivate(entries, current_scope)
  /\ current_scope' = current_scope - 1
  /\ Reduce(1, Top.b, Top.c)
  /\ UNCHANGED <<scope_space_counter, offset, function_offset_stack, block_stack,
                 arguments_list, nameless_func_count, quads, temp_var_counter,
                 IR_GEN_FAILED, status>>

\* function_name: an error that does not keep the name from being bound
name_taken(n) ==
  \/ Sym!Contains(entries, n, current_scope)
  \/ \E k \in {Sym!Get(entries, n)} \ {0} : entries[k].type = "LIBFUNC"

AnonymousName(i) == AnonymousNames[i + 1]

function_prefix(n, named) ==
  /\ Start("function", 2) /\ Len(entries) < MaxEntries
  /\ IR_GEN_FAILED' = (IR_GEN_FAILED \/ (named /\ name_taken(n)))
  /\ nameless_func_count' = nameless_func_count + (IF named THEN 0 ELSE 1)
  /\ entries' = Append(entries,
        [Entry(n, current_scope, "USERFUNC", CurrentFunction)
           EXCEPT !.address_list = <<next_quad>>, !.taddress = next_quad + 1])
  /\ quads' = quads \o <<Hole("jump"), Quad("funcstart", 0)>>
  /\ function_offset_stack' = Append(function_offset_stack, offset[Space])
  /\ enter_scope_space
  /\ offset' = [offset EXCEPT !["formal_argument"] = 0]
  /\ Push(Frame("func", <<Len(entries) + 1>>, <<>>, <<>>))
  /\ UNCHANGED <<current_scope, block_stack, arguments_list, temp_var_counter,
                 status>>

\* idlist and other_id: one argument
formal(n) ==
  /\ status = "parsing" /\ Top.kind = "func"
  /\ Len(entries) + Len(arguments_list) < MaxEntries
  /\ LET library == /\ Sym!Contains(entries, n, 0)
                    /\ entries[Sym!Get(entries, n)].type = "LIBFUNC"
         again == n \in ToSet(arguments_list)
     IN  /\ IR_GEN_FAILED' = (IR_GEN_FAILED \/ library \/ again)
         /\ arguments_list' = IF again THEN arguments_list
                              ELSE Append(arguments_list, n)
  /\ UNCHANGED <<entries, current_scope, scope_space_counter, offset,
                 function_offset_stack, block_stack, nameless_func_count, quads,
                 temp_var_counter, ctx, status>>

\* function_arguments, and the "{" of the body
function_arguments ==
  /\ status = "parsing" /\ Top.kind = "func"
  /\ block_stack' = Append(block_stack, "FUNC_BLOCK")
  /\ entries' = entries \o
        [i \in DOMAIN arguments_list |->
           [Entry(arguments_list[i], current_scope + 1, "FORMAL", Top.q[1])
              EXCEPT !.space = Space, !.offset = offset[Space] + i - 1]]
  /\ arguments_list' = <<>>
  /\ enter_scope_space
  /\ offset' = argument_offsets(Len(arguments_list))
  /\ current_scope' = current_scope + 1
  /\ ctx' = [ctx EXCEPT ![Len(ctx)].kind = "body"]
  /\ UNCHANGED <<function_offset_stack, nameless_func_count, quads,
                 temp_var_counter, IR_GEN_FAILED, status>>

\* A mutant: the function stays open.
close_function_not(es, f) == es

close_function(es, f) == [es EXCEPT ![Sym!Get(es, es[f].name)].func_is_open = FALSE]

\* The "}" of the body, function_body and function_definition
function_definition ==
  /\ status = "parsing" /\ Top.kind = "body"
  /\ LET f == Top.q[1]
         hidden == Sym!Deactivate(entries, current_scope)
         sized == [hidden EXCEPT ![f].offset = offset[Space]]
         returns == Tail(entries[f].address_list)
         ended == Append(Patch(quads, returns, next_quad), Quad("funcend", 0))
     IN  /\ entries' = close_function(sized, f)
         /\ quads' = Patch(ended, <<Head(entries[f].address_list)>>, next_quad + 1)
  /\ scope_space_counter' = scope_space_counter - 2
  /\ offset' = restore_curr_scope_offset(scope_space_counter - 2,
                                         Last(function_offset_stack))
  /\ function_offset_stack' = stack_pop(function_offset_stack)
  /\ block_stack' = stack_pop(block_stack)
  /\ current_scope' = current_scope - 1
  /\ Reduce(1, <<>>, <<>>)
  /\ UNCHANGED <<arguments_list, nameless_func_count, temp_var_counter,
                 IR_GEN_FAILED, status>>

\* return;  The label goes into the open function's list, behind its head.
return ==
  /\ Start("return", 2)
  /\ IF "FUNC_BLOCK" \notin ToSet(block_stack)
     THEN /\ quads' = Append(quads, Quad("ret", 0))
          /\ IR_GEN_FAILED' = TRUE
          /\ NULL_Statement /\ UNCHANGED <<entries, status>>
     ELSE LET f == Sym!OpenFunc(entries, current_scope)
          IN  IF f = 0
              THEN status' = "crashed" /\ UNCHANGED <<entries, quads, IR_GEN_FAILED, ctx>>
              ELSE /\ entries' = [entries EXCEPT ![f].address_list =
                                    InsertAt(@, 2, next_quad + 1)]
                   /\ quads' = quads \o <<Quad("ret", 0),
                                          Owed("return", CurrentFunction)>>
                   /\ NULL_Statement /\ UNCHANGED <<IR_GEN_FAILED, status>>
  /\ UNCHANGED <<current_scope, scope_space_counter, offset,
                 function_offset_stack, block_stack, arguments_list,
                 nameless_func_count, temp_var_counter>>
-----------------------------------------------------------------------------
(* Branches and loops.  Their conditions and steps are constants or, where    *)
(* code is 1, a "-1": one quad and one temporary.                              *)

Codes == IF "code" \in Features THEN {0, 1} ELSE {0}
Code(code) == [i \in 1..code |-> Quad("uminus", 0)]
Temps(code) == IF code = 0 THEN UNCHANGED <<entries, offset, temp_var_counter>>
               ELSE create_temp_symbol(entries, offset)

ControlDone == UNCHANGED <<current_scope, scope_space_counter,
  function_offset_stack, arguments_list, nameless_func_count, IR_GEN_FAILED,
  status>>

\* A test whose true jump skips the open jump taken when it fails.
Test(code) == Code(code) \o <<Quad("if_eq", next_quad + code + 2), Hole("jump")>>
FalseJump(code) == next_quad + code + 1

if_prefix(code) ==
  /\ Start("if", 2 + code)
  /\ quads' = quads \o Test(code)
  /\ Temps(code)
  /\ Push(Frame("if_then", <<FalseJump(code)>>, <<>>, <<>>))
  /\ UNCHANGED block_stack /\ ControlDone

if_without_else ==
  /\ AfterStatement("if_then")
  /\ quads' = Patch(quads, Below.q, next_quad)
  /\ Reduce(2, Top.b, Top.c)
  /\ UNCHANGED block_stack /\ Temps(0) /\ ControlDone

else_prefix ==
  /\ AfterStatement("if_then") /\ "else" \in Features
  /\ quads' = Append(quads, Hole("jump"))
  /\ ctx' = Append(SubSeq(ctx, 1, Len(ctx) - 2),
                   Frame("if_else", Append(Below.q, next_quad), Top.b, Top.c))
  /\ UNCHANGED block_stack /\ Temps(0) /\ ControlDone

if_else ==
  /\ AfterStatement("if_else")
  /\ quads' = Patch(Patch(quads, <<Below.q[1]>>, Below.q[2] + 1),
                    <<Below.q[2]>>, next_quad)
  /\ Reduce(2, merge_lists(Below.b, Top.b), merge_lists(Below.c, Top.c))
  /\ UNCHANGED block_stack /\ Temps(0) /\ ControlDone

\* while_start and while_condition
while_start(code) ==
  /\ Start("while", 2 + code)
  /\ block_stack' = Append(block_stack, "LOOP")
  /\ quads' = quads \o Test(code)
  /\ Temps(code)
  /\ Push(Frame("while_body", <<next_quad, FalseJump(code)>>, <<>>, <<>>))
  /\ ControlDone

\* A mutant: the targets of break and continue are swapped.
while_statement_swapped ==
  /\ AfterStatement("while_body")
  /\ LET start == Below.q[1]
         end == next_quad + 1
         looped == Append(quads, Quad("jump", start))
     IN  quads' = Patch(Patch(looped, <<Below.q[2]>> \o Top.c, end), Top.b, start)
  /\ block_stack' = stack_pop(block_stack)
  /\ Reduce(2, <<>>, <<>>)
  /\ Temps(0) /\ ControlDone

while_statement ==
  /\ AfterStatement("while_body")
  /\ LET start == Below.q[1]
         end == next_quad + 1
         looped == Append(quads, Quad("jump", start))
     IN  quads' = Patch(Patch(looped, <<Below.q[2]>> \o Top.b, end), Top.c, start)
  /\ block_stack' = stack_pop(block_stack)
  /\ Reduce(2, <<>>, <<>>)
  /\ Temps(0) /\ ControlDone

\* A mutant: the second N is left out.
for_prefix_once(code, step) ==
  /\ Start("for", 3 + code + step)
  /\ block_stack' = Append(block_stack, "LOOP")
  /\ quads' = quads \o Code(code) \o <<Hole("if_eq"), Hole("jump")>> \o Code(step)
  /\ Temps(code + step)
  /\ LET enter == next_quad + code
     IN  Push(Frame("for_body", <<next_quad, enter, enter + 1, enter + 1>>, <<>>, <<>>))
  /\ ControlDone

\* for_prefix, the first N, the step and the second N: q holds the quads of the
\* test, of its jump in, of the jump out and of the jump back to the test.
for_prefix(code, step) ==
  /\ Start("for", 3 + code + step)
  /\ block_stack' = Append(block_stack, "LOOP")
  /\ quads' = quads \o Code(code) \o <<Hole("if_eq"), Hole("jump")>>
                    \o Code(step) \o <<Hole("jump")>>
  /\ Temps(code + step)
  /\ LET enter == next_quad + code
     IN  Push(Frame("for_body",
                    <<next_quad, enter, enter + 1, enter + 2 + step>>, <<>>, <<>>))
  /\ ControlDone

\* The third N and for_statement.  Nothing is popped from block_stack.
for_statement ==
  /\ AfterStatement("for_body")
  /\ LET test == Below.q[1]
         enter == Below.q[2]
         out == Below.q[3]
         back == Below.q[4]
         closed == Append(quads, Owed("for", 0))
         entered == Patch(closed, <<enter>>, back + 1)
         left == Patch(entered, <<out>> \o Top.b, next_quad + 1)
         tested == Patch(left, <<back>>, test)
     IN  quads' = Patch(tested, <<next_quad>> \o Top.c, out + 1)
  /\ Reduce(2, <<>>, <<>>)
  /\ UNCHANGED block_stack /\ Temps(0) /\ ControlDone

break_or_continue(kind) ==
  /\ Start(kind, 1)
  /\ IF block_stack = <<>> \/ Last(block_stack) # "LOOP"
     THEN IR_GEN_FAILED' = TRUE /\ NULL_Statement /\ UNCHANGED quads
     ELSE /\ quads' = Append(quads, Owed(kind, CurrentLoop))
          /\ IF kind = "break" THEN Statement(<<next_quad>>, <<>>)
             ELSE Statement(<<>>, <<next_quad>>)
          /\ UNCHANGED IR_GEN_FAILED
  /\ UNCHANGED <<tables, temp_var_counter, status>>

Terminated == status # "parsing" /\ UNCHANGED vars

Next ==
  \/ all_statements \/ empty_statement \/ program
  \/ \E n \in Var : UseVariable(n) \/ LocalVariable(n) \/ GlobalVariable(n)
                      \/ Assignment(n) \/ formal(n)
  \/ block_open \/ block_close
  \/ \E n \in Fun : function_prefix(n, TRUE)
  \/ /\ nameless_func_count < Len(AnonymousNames)
     /\ function_prefix(AnonymousName(nameless_func_count), FALSE)
  \/ function_arguments \/ function_definition \/ return
  \/ \E code \in Codes : if_prefix(code) \/ while_start(code)
  \/ if_without_else \/ else_prefix \/ if_else \/ while_statement
  \/ \E code, step \in Codes : code + step < 2 /\ for_prefix(code, step)
  \/ for_statement
  \/ \E kind \in {"break", "continue"} : break_or_continue(kind)
  \/ Terminated

Spec == Init /\ [][Next]_vars
-----------------------------------------------------------------------------
(* Properties *)

\* The shapes of the compiler's state.
TypeOK ==
  /\ \A k \in DOMAIN entries :
       /\ entries[k].type \in {"GLOBAL", "LOCAL", "FORMAL", "USERFUNC", "LIBFUNC"}
       /\ entries[k].space \in DOMAIN offset \union {"unset"}
       /\ entries[k].scope \in Nat /\ entries[k].offset \in Nat
       /\ entries[k].fn \in 0..Len(entries)
  /\ current_scope \in Nat /\ scope_space_counter \in Nat \ {0}
  /\ offset \in [{"program_variable", "function_local", "formal_argument"} -> Nat]
  /\ function_offset_stack \in Seq(Nat)
  /\ block_stack \in Seq({"LOOP", "FUNC_BLOCK"})
  /\ \A i \in DOMAIN quads : quads[i].label \in 0..(Len(quads) + 2)
  /\ temp_var_counter \in Nat /\ nameless_func_count \in Nat
  /\ arguments_list \in Seq(Var)
  /\ IR_GEN_FAILED \in BOOLEAN
  /\ ctx # <<>> /\ ctx[1].kind = "program"
  /\ status \in {"parsing", "done", "aborted", "crashed"}

\* A variable that can be found is refused ("cannot access this variable")
\* exactly when it belongs to another function than the one being parsed:
\* however functions and blocks were opened, closed and reopened before.
AccessRule ==
  AtStatement =>
    \A k \in DOMAIN entries :
      (entries[k].isActive /\ is_variable(k) /\ entries[k].scope \in 1..current_scope)
        => (cannot_access(k) <=> entries[k].fn # CurrentFunction)

\* The functions marked open are those whose bodies surround this point, and
\* the "last open function" is the innermost of them.
OpenIffNested ==
  AtStatement => /\ Sym!Opened(entries) = {ctx[i].q[1] : i \in Bodies}
                 /\ Sym!OpenFunc(entries, current_scope) = CurrentFunction

\* In a program without errors a name is bound at most once in each scope, and
\* never hides a library function.
BoundOnce ==
  ~IR_GEN_FAILED =>
    \A n \in Names :
      /\ \A s \in 0..(current_scope + 1) : Cardinality(Sym!ActiveAt(entries, n, s)) <= 1
      /\ n \in ToSet(Lib) => Cardinality(Sym!Active(entries, n)) = 1

\* Only the bindings of the blocks around this point are active.
ActiveScopes ==
  /\ current_scope = Cardinality({i \in DOMAIN ctx : ctx[i].kind \in {"block", "body"}})
  /\ \A k \in DOMAIN entries : entries[k].isActive => entries[k].scope <= current_scope

\* Two variables that can be alive together never share a slot: not two of the
\* program (its temporaries included), nor two formals or two locals of one
\* function, whatever functions were nested in it.
Slot(k) == LET global == entries[k].space \in {"program_variable", "unset"}
           IN  <<IF global THEN 0 ELSE entries[k].fn,
                 IF global THEN "program_variable" ELSE entries[k].space,
                 entries[k].offset>>
Variables == {k \in DOMAIN entries : is_variable(k)}

SlotsDistinct == \A k, l \in Variables : k # l => Slot(k) # Slot(l)

\* When a function is closed, the number of locals recorded for it (the size of
\* its frame) is the number of locals declared in it, in all its blocks.
FrameSize ==
  \A f \in DOMAIN entries :
    (entries[f].type = "USERFUNC" /\ ~entries[f].func_is_open) =>
      entries[f].offset = Cardinality({k \in Variables :
        entries[k].fn = f /\ entries[k].space = "function_local"})

\* intermediate_code.c:493: no label is patched twice, which patch_label's
\* assertion would stop at only if the first label was not 0.
PatchedOnce == \A i \in DOMAIN quads : quads[i].patch # "again"

\* for_statement leaves its LOOP on block_stack, so the next two can only hold
\* until it has been reached for the first time.
NoForEnded == \A i \in DOMAIN quads : quads[i].why # "for"

\* A program that compiles has no jump left whose target was never filled in.
NoDanglingJump ==
  (status = "done" /\ NoForEnded) => \A i \in DOMAIN quads : quads[i].patch # "open"

\* What a step that ends a loop or a body has to do for the jumps out of it.
Targets(kind, at, from, label) ==
  \A i \in DOMAIN quads :
    (i > from /\ quads[i].why = kind /\ quads[i].at = at) => quads'[i].label = label

EndsDeliver ==
  \A d \in DOMAIN ctx :
    LET q == ctx[d].q
        closed == d = Len(ctx') /\ ctx'[d].kind = "stmt"
    IN  /\ (ctx[d].kind = "while_body" /\ closed) =>
             /\ Targets("break", d, q[1], Len(quads'))
             /\ Targets("continue", d, q[1], q[1])
        /\ (ctx[d].kind = "for_body" /\ closed) =>
             /\ Targets("break", d, q[1], Len(quads'))
             /\ Targets("continue", d, q[1], q[3] + 1)
        /\ (ctx[d].kind = "body" /\ closed) =>
             Targets("return", q[1], entries[q[1]].taddress, Len(quads') - 1)

\* Every break and continue reaches the loop written around it, and every
\* return the end of its own function: through any nesting of blocks, branches
\* and functions the lists deliver each label to the construct that closes.
JumpsReachOwner == [][EndsDeliver]_vars

\* The stack of loops and function blocks mirrors the nesting of the program,
\* so "inside a loop" and "inside a function" mean what they say.
Position(cx, i) == Cardinality({j \in Around(cx) : j <= i})
Mark(kind) == IF kind = "body" THEN "FUNC_BLOCK" ELSE "LOOP"
Tracks(stack, cx) ==
  /\ Len(stack) = Cardinality(Around(cx))
  /\ \A i \in Around(cx) : stack[Position(cx, i)] = Mark(cx[i].kind)

BlockStackMatchesNesting == NoForEnded => Tracks(block_stack, ctx)

\* parser.y:159 "cannot BREAK outside of a loop": a break that is accepted has
\* a loop around it.
BreaksHaveLoops ==
  \A i \in DOMAIN quads : quads[i].why = "break" => quads[i].at # 0
=============================================================================
