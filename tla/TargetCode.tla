------------------------------ MODULE TargetCode ------------------------------
(* From quads to the bytecode file: libs/tcode_generation.c, libs/arraylist.c *)
(* and libs/abc_writer.c, driven by main of parser.y.  The parser appends     *)
(* quads; when it is done, each quad becomes one instruction, whose constant  *)
(* operands are numbers of entries of four tables that fill up on the way;    *)
(* then tables and instructions are written out.                              *)
(*                                                                             *)
(* Strings, names and library functions are numbers.                          *)
EXTENDS Integers, Sequences, SequencesExt, FiniteSetsExt

CONSTANTS Names,       \* names of user functions
          Templates,   \* quads that statements emit, as [op, result, arg1, arg2]
          Followers,   \* bound: those of them that a program has after its first
          ExpandSize,  \* EXPAND_SIZE and EXPAND_SIZE_T
          TempSpaces,  \* what malloc may leave in the space of a temporary
          MaxStatements \* bound: quads from Templates and functions, together

ASSUME ExpandAssumption == ExpandSize \in Nat \ {0}

VARIABLES
  phase,        \* "parse", "generate", "done" or "crashed"
  funcs,        \* the SymbolTableEntry records of user functions
  open,         \* numbers in funcs of the functions not ended yet
  quads,        \* quads[0 .. curr_quad - 1], and their allocated size
  temp_space,   \* space of the temporary, "" before there is one
  IR_GEN_FAILED,
  tables,       \* const_strings, const_numbers, userfunctions, libfuncs_used
  instructions,
  current_processed_quad,
  file          \* what write_abc has written

vars == <<phase, funcs, open, quads, temp_space, IR_GEN_FAILED, tables,
          instructions, current_processed_quad, file>>
-----------------------------------------------------------------------------
(* Array lists *)

create_arraylist == [element |-> <<>>, max_size |-> 0]

resize_arraylist(a) == [a EXCEPT !.max_size = @ + ExpandSize]

\* A mutant: an array list with one free place left is taken for full.
insert_arraylist_tight(a, x) ==
  LET room == IF Len(a.element) > a.max_size THEN resize_arraylist(a) ELSE a
  IN  [room EXCEPT !.element = Append(@, x)]

insert_arraylist(a, x) ==
  LET room == IF Len(a.element) >= a.max_size THEN resize_arraylist(a) ELSE a
  IN  [room EXCEPT !.element = Append(@, x)]
-----------------------------------------------------------------------------
(* Expressions and quads *)

ExprType == {"var", "table_item", "program_func", "library_func", "arith_expr",
             "bool_expr", "assign_expr", "new_table", "const_num", "const_bool",
             "const_string", "nil"}
Stored == {"assign_expr", "var", "table_item", "arith_expr", "bool_expr",
           "new_table"}
Space == {"program_variable", "function_local", "formal_argument"}

\* value: an offset, a constant, or the number of a function
Expr == [type : ExprType, space : Space \union {"", "temporary"}, value : Int]

NULL == [type |-> "NULL", space |-> "", value |-> 0]
lvalue_expr(f) == [type |-> "program_func", space |-> "", value |-> f]
create_numeric_expr(n) == [type |-> "const_num", space |-> "", value |-> n]

Opcode == <<"assign", "add", "sub", "mul", "div", "mod", "uminus",
            "if_eq", "if_noteq", "if_lesseq", "if_greatereq", "if_less",
            "if_greater", "jump", "call", "param", "ret", "getretval",
            "funcstart", "funcend", "tablecreate", "tablegetelem",
            "tablesetelem", "and", "or", "not">>
Opcodes == ToSet(SubSeq(Opcode, 1, 23))

Quad == [op : Opcodes, result : Expr \union {NULL}, arg1 : Expr \union {NULL},
         arg2 : Expr \union {NULL}, label : Nat, line : Nat]

ASSUME TemplatesAssumption ==
  \A t \in Templates : /\ t.op \in Opcodes
                       /\ {t.result, t.arg1, t.arg2} \subseteq Expr \union {NULL}

curr_quad == Len(quads.element)

QuadOf(t, label, line) ==
  [op |-> t.op, result |-> t.result, arg1 |-> t.arg1, arg2 |-> t.arg2,
   label |-> label, line |-> line]

\* emit: the array of quads grows as an array list does (expand_quads)
emit(qs, t, label, line) == insert_arraylist(qs, QuadOf(t, label, line))

Jump == [op |-> "jump", result |-> NULL, arg1 |-> NULL, arg2 |-> NULL]
Bracket(op, f) == [op |-> op, result |-> NULL, arg1 |-> lvalue_expr(f),
                   arg2 |-> NULL]

patch_label(qs, n, label) == [qs EXCEPT !.element[n + 1].label = label]
-----------------------------------------------------------------------------
(* Operands *)

VMopcode == <<"assign", "add", "sub", "mul", "div", "mod", "if_eq", "if_noteq",
              "if_lesseq", "if_greatereq", "if_less", "if_greater", "jump",
              "call", "pusharg", "enterfunc", "funcend", "tablecreate",
              "tablegetelem", "tablesetelem", "nop">>
VMarg_type == <<"label", "global", "formal", "local", "number", "string", "bool",
                "nil", "userfunc", "libfunc", "retval", "undefined">>

VMarg == [type : ToSet(VMarg_type), val : Int]
Instruction == [opcode : ToSet(VMopcode), result : VMarg, arg1 : VMarg,
                arg2 : VMarg, srcLine : Nat]

Arg(t, v) == [type |-> t, val |-> v]
reset_operand == Arg("undefined", 0)
make_retvaloperand == Arg("retval", 0)

\* The number of x in table a, which is about to get it if it has no match.
NumberIn(a, matches) ==
  IF matches = {} THEN Len(a.element) ELSE Min(matches) - 1
Entered(a, matches, x) == IF matches = {} THEN insert_arraylist(a, x) ELSE a

\* A mutant: the search for a constant leaves out the first one.
Same_unsearched(a, x) == {i \in DOMAIN a.element : i > 1 /\ a.element[i] = x}

\* consts_newstring, consts_newnumber, libfuncs_newused
Same(a, x) == {i \in DOMAIN a.element : a.element[i] = x}

\* A mutant: functions are told apart by their names.
userfuncs_newfunc_name(a, f) ==
  {i \in DOMAIN a.element : funcs[a.element[i]].name = funcs[f].name}

\* Two functions may have one name: the address tells them apart.
userfuncs_newfunc(a, f) ==
  {i \in DOMAIN a.element : /\ funcs[a.element[i]].name = funcs[f].name
                            /\ funcs[a.element[i]].taddress = funcs[f].taddress}

SpaceOf(e) == IF e.space = "temporary" THEN temp_space ELSE e.space

VMspace(space) == CASE space = "program_variable" -> "global"
                    [] space = "function_local" -> "local"
                    [] space = "formal_argument" -> "formal"

\* assert(0) at the end of the switch over the space of a variable
OperandFails(e) == e.type \in Stored /\ SpaceOf(e) \notin Space

\* make_operand: the operand, and what it does to the tables
make_operand(T, e) ==
  CASE e.type = "NULL" -> reset_operand
    [] e.type \in Stored -> Arg(VMspace(SpaceOf(e)), e.value)
    [] e.type = "const_bool" -> Arg("bool", e.value)
    [] e.type = "nil" -> Arg("nil", 0)
    [] e.type = "const_string" ->
         Arg("string", NumberIn(T.strings, Same(T.strings, e.value)))
    [] e.type = "const_num" ->
         Arg("number", NumberIn(T.numbers, Same(T.numbers, e.value)))
    [] e.type = "program_func" ->
         Arg("userfunc", NumberIn(T.userfuncs, userfuncs_newfunc(T.userfuncs, e.value)))
    [] e.type = "library_func" ->
         Arg("libfunc", NumberIn(T.libfuncs, Same(T.libfuncs, e.value)))

TablesAfter(T, e) ==
  CASE e.type = "const_string" ->
         [T EXCEPT !.strings = Entered(@, Same(@, e.value), e.value)]
    [] e.type = "const_num" ->
         [T EXCEPT !.numbers = Entered(@, Same(@, e.value), e.value)]
    [] e.type = "program_func" ->
         [T EXCEPT !.userfuncs = Entered(@, userfuncs_newfunc(@, e.value), e.value)]
    [] e.type = "library_func" ->
         [T EXCEPT !.libfuncs = Entered(@, Same(@, e.value), e.value)]
    [] OTHER -> T
-----------------------------------------------------------------------------
(* Instructions *)

\* A mutant: two neighbours change places.
generators_swapped == <<"assign", "add", "sub", "mul", "div", "mod", "uminus",
  "if_eq", "if_noteq", "if_lesseq", "if_greatereq", "if_less", "if_greater",
  "jump", "call", "param", "getretval", "ret", "funcstart", "funcend",
  "tablecreate", "tablegetelem", "tablesetelem", "nop">>

\* The table of functions, indexed by the opcode of a quad
generators == <<"assign", "add", "sub", "mul", "div", "mod", "uminus",
  "if_eq", "if_noteq", "if_lesseq", "if_greatereq", "if_less", "if_greater",
  "jump", "call", "param", "ret", "getretval", "funcstart", "funcend",
  "tablecreate", "tablegetelem", "tablesetelem", "nop">>

GeneratorOf(q) == generators[CHOOSE i \in DOMAIN Opcode : Opcode[i] = q.op]

Renamed == [uminus |-> "mul", param |-> "pusharg", funcstart |-> "enterfunc",
            ret |-> "assign", getretval |-> "assign"]
OpcodeOf(g) == IF g \in DOMAIN Renamed THEN Renamed[g] ELSE g

Relational == ToSet(SubSeq(VMopcode, 7, 12))

\* What generate_g passes to make_operand, in that order
Operands(g, q) ==
  CASE g \in {"jump", "nop"} -> <<NULL, NULL, NULL>>
    [] g \in {"call", "param", "funcstart", "funcend"} -> <<q.arg1, NULL, NULL>>
    [] g \in {"ret", "getretval"} -> <<q.result, NULL, NULL>>
    [] g \in Relational -> <<q.arg1, q.arg2, NULL>>
    [] g = "uminus" -> <<q.arg1, create_numeric_expr(-1), q.result>>
    [] OTHER -> <<q.arg1, q.arg2, q.result>>

After(T, o) == TablesAfter(TablesAfter(TablesAfter(T, o[1]), o[2]), o[3])

\* Where the three operands go
Placed(g, q, x, y, z) ==
  CASE g \in {"jump"} \union Relational ->
         [result |-> Arg("label", q.label), arg1 |-> x, arg2 |-> y]
    [] g \in {"funcstart", "funcend"} ->
         [result |-> x, arg1 |-> reset_operand, arg2 |-> reset_operand]
    [] g = "ret" ->
         [result |-> make_retvaloperand, arg1 |-> x, arg2 |-> reset_operand]
    [] g = "getretval" ->
         [result |-> x, arg1 |-> make_retvaloperand, arg2 |-> reset_operand]
    [] OTHER -> [result |-> z, arg1 |-> x, arg2 |-> y]

generate(T, q) ==
  LET g == GeneratorOf(q)
      o == Operands(g, q)
      T1 == TablesAfter(T, o[1])
      p == Placed(g, q, make_operand(T, o[1]), make_operand(T1, o[2]),
                  make_operand(TablesAfter(T1, o[2]), o[3]))
  IN  [opcode |-> OpcodeOf(g), result |-> p.result, arg1 |-> p.arg1,
       arg2 |-> p.arg2, srcLine |-> q.line]
-----------------------------------------------------------------------------
(* The file *)

MagicNumber == 253876718

Counted(s) == <<Len(s)>> \o s

\* The records are written one after the other, each as n words.
Joined(n, records) ==
  [k \in 1..(n * Len(records)) |-> records[((k - 1) \div n) + 1][((k - 1) % n) + 1]]

\* A mutant: the operands in the order they are made in.
write_instruction_made(t) ==
  LET Operand(a) == <<SelectInSeq(VMarg_type, LAMBDA x : x = a.type), a.val>>
  IN  <<SelectInSeq(VMopcode, LAMBDA x : x = t.opcode)>>
      \o Operand(t.arg1) \o Operand(t.arg2) \o Operand(t.result)

write_instruction(t) ==
  LET Operand(a) == <<SelectInSeq(VMarg_type, LAMBDA x : x = a.type), a.val>>
  IN  <<SelectInSeq(VMopcode, LAMBDA x : x = t.opcode)>>
      \o Operand(t.result) \o Operand(t.arg1) \o Operand(t.arg2)

write_function(f) == <<funcs[f].taddress, funcs[f].offset, funcs[f].name>>

write_abc ==
  LET code == instructions.element
      userfuncs == tables.userfuncs.element
  IN  <<MagicNumber>> \o Counted(tables.strings.element)
      \o Counted(tables.numbers.element)
      \o <<Len(userfuncs)>>
      \o Joined(3, [i \in DOMAIN userfuncs |-> write_function(userfuncs[i])])
      \o Counted(tables.libfuncs.element)
      \o <<Len(code)>> \o [i \in DOMAIN code |-> code[i].srcLine]
      \o Joined(7, [i \in DOMAIN code |-> write_instruction(code[i])])

\* What a reader of the format makes of a file
Loaded(f) ==
  LET List(p) == SubSeq(f, p + 1, p + f[p])
      numbers == 3 + f[2]
      functions == numbers + 1 + f[numbers]
      libfuncs == functions + 1 + 3 * f[functions]
      code == libfuncs + 1 + f[libfuncs]
      Function(p) == [taddress |-> f[p], offset |-> f[p + 1], name |-> f[p + 2]]
      Operand(p) == Arg(VMarg_type[f[p]], f[p + 1])
      Decoded(p, line) ==
        [opcode |-> VMopcode[f[p]], result |-> Operand(p + 1),
         arg1 |-> Operand(p + 3), arg2 |-> Operand(p + 5), srcLine |-> line]
  IN  [strings |-> List(2), numbers |-> List(numbers), libfuncs |-> List(libfuncs),
       userfuncs |-> [i \in 1..f[functions] |-> Function(functions + 3 * i - 2)],
       code |-> [i \in 1..f[code] |->
                   Decoded(code + f[code] + 7 * i - 6, f[code + i])]]
-----------------------------------------------------------------------------
(* What operands mean, in an expression and in an instruction *)

Meant(kind, v) == [kind |-> kind, value |-> v, function |-> <<>>]
MeantFunction(f) == [kind |-> "userfunc", value |-> f.taddress,
                     function |-> <<f.name, f.offset>>]

MeaningOf(e) ==
  CASE e.type = "NULL" -> Meant("undefined", 0)
    [] e.type \in Stored /\ ~OperandFails(e) -> Meant(VMspace(SpaceOf(e)), e.value)
    [] e.type \in Stored /\ OperandFails(e) -> Meant("nowhere", e.value)
    [] e.type = "const_bool" -> Meant("bool", e.value)
    [] e.type = "nil" -> Meant("nil", 0)
    [] e.type = "const_string" -> Meant("string", e.value)
    [] e.type = "const_num" -> Meant("number", e.value)
    [] e.type = "program_func" -> MeantFunction(funcs[e.value])
    [] e.type = "library_func" -> Meant("libfunc", e.value)

Denoted(C, a) ==
  CASE a.type = "string" -> Meant("string", C.strings[a.val + 1])
    [] a.type = "number" -> Meant("number", C.numbers[a.val + 1])
    [] a.type = "libfunc" -> Meant("libfunc", C.libfuncs[a.val + 1])
    [] a.type = "userfunc" -> MeantFunction(C.userfuncs[a.val + 1])
    [] OTHER -> Meant(a.type, a.val)

\* A quad takes its operands from where its opcode says and puts its result
\* into another; a branch, a function bracket and a return have theirs
\* elsewhere.
QuadMeaning(q) ==
  LET x == MeaningOf(q.arg1)
      y == MeaningOf(q.arg2)
      z == MeaningOf(q.result)
      to == Meant("label", q.label)
      none == Meant("undefined", 0)
      returned == Meant("retval", 0)
      Is(op, into, left, right) == [opcode |-> op, result |-> into, arg1 |-> left,
                                    arg2 |-> right, line |-> q.line]
  IN  CASE q.op = "uminus" -> Is("mul", z, x, Meant("number", -1))
        [] q.op = "jump" -> Is("jump", to, none, none)
        [] q.op \in Relational -> Is(q.op, to, x, y)
        [] q.op = "call" -> Is("call", none, x, none)
        [] q.op = "param" -> Is("pusharg", none, x, none)
        [] q.op = "ret" -> Is("assign", returned, z, none)
        [] q.op = "getretval" -> Is("assign", z, returned, none)
        [] q.op = "funcstart" -> Is("enterfunc", x, none, none)
        [] q.op = "funcend" -> Is("funcend", x, none, none)
        [] OTHER -> Is(q.op, z, x, y)

CodeMeaning(C, t) ==
  [opcode |-> t.opcode, result |-> Denoted(C, t.result),
   arg1 |-> Denoted(C, t.arg1), arg2 |-> Denoted(C, t.arg2), line |-> t.srcLine]

Constants ==
  [strings |-> tables.strings.element, numbers |-> tables.numbers.element,
   libfuncs |-> tables.libfuncs.element,
   userfuncs |-> [i \in DOMAIN tables.userfuncs.element |->
                    funcs[tables.userfuncs.element[i]]]]

Source == [i \in 1..curr_quad |-> QuadMeaning(quads.element[i])]
Code == [i \in DOMAIN instructions.element |->
           CodeMeaning(Constants, instructions.element[i])]
-----------------------------------------------------------------------------
Init ==
  /\ phase = "parse"
  /\ funcs = <<>> /\ open = <<>>
  /\ quads = create_arraylist
  /\ temp_space = ""
  /\ IR_GEN_FAILED = FALSE
  /\ tables = [strings |-> create_arraylist, numbers |-> create_arraylist,
               userfuncs |-> create_arraylist, libfuncs |-> create_arraylist]
  /\ instructions = create_arraylist /\ current_processed_quad = 0
  /\ file = <<>>

\* What follows an error makes no difference: nothing is generated.
HasRoom == /\ curr_quad < MaxStatements + 2 * Len(funcs) - Len(open)
           /\ ~IR_GEN_FAILED

Labels(t) == IF t.op \in Relational \union {"jump"} THEN {0, curr_quad + 1} ELSE {0}

Temporary(t) == "temporary" \in {t.result.space, t.arg1.space, t.arg2.space}

\* create_temp_symbol leaves the space of a temporary as malloc returned it.
\* A statement emits a quad; only functions there are can be operands.
Statement(t) ==
  /\ phase = "parse" /\ HasRoom
  /\ curr_quad > 0 => t \in Followers
  /\ \A e \in {t.result, t.arg1, t.arg2} :
       e.type = "program_func" => e.value \in DOMAIN funcs
  /\ \E label \in Labels(t) : quads' = emit(quads, t, label, curr_quad + 1)
  /\ IF Temporary(t) /\ temp_space = "" THEN temp_space' \in TempSpaces
     ELSE UNCHANGED temp_space
  /\ UNCHANGED <<phase, funcs, open, IR_GEN_FAILED, tables,
                 instructions, current_processed_quad, file>>

\* A mutant: the address is taken before the jump around the function.
function_prefix_early(n, left) ==
  LET f == Len(funcs) + 1
      jump == emit(quads, Jump, 0, curr_quad + 1)
  IN  /\ funcs' = Append(funcs, [name |-> n, taddress |-> curr_quad, offset |-> left])
      /\ quads' = emit(jump, Bracket("funcstart", f), 0, curr_quad + 2)
      /\ open' = Append(open, f)

\* left: what malloc left in its offset
function_prefix(n, left) ==
  LET f == Len(funcs) + 1
      jump == emit(quads, Jump, 0, curr_quad + 1)
  IN  /\ funcs' = Append(funcs, [name |-> n, taddress |-> curr_quad + 1,
                                 offset |-> left])
      /\ quads' = emit(jump, Bracket("funcstart", f), 0, curr_quad + 2)
      /\ open' = Append(open, f)

FunctionStart(n) ==
  /\ phase = "parse" /\ HasRoom
  /\ \E left \in {0, 9} : function_prefix(n, left)
  /\ UNCHANGED <<phase, temp_space, IR_GEN_FAILED, tables, instructions,
                 current_processed_quad, file>>

\* A mutant: the jump around the function goes to its end.
function_definition_short(size) ==
  LET f == Last(open)
      ended == patch_label(quads, funcs[f].taddress - 1, curr_quad)
  IN  /\ funcs' = [funcs EXCEPT ![f].offset = size]
      /\ quads' = emit(ended, Bracket("funcend", f), 0, curr_quad + 1)

function_definition(size) ==
  LET f == Last(open)
      ended == emit(quads, Bracket("funcend", f), 0, curr_quad + 1)
  IN  /\ funcs' = [funcs EXCEPT ![f].offset = size]
      /\ quads' = patch_label(ended, funcs[f].taddress - 1, curr_quad + 1)

\* size: how many locals the body turned out to have
FunctionEnd(size) ==
  /\ phase = "parse" /\ open # <<>>
  /\ function_definition(size)
  /\ open' = Front(open)
  /\ UNCHANGED <<phase, temp_space, IR_GEN_FAILED, tables, instructions,
                 current_processed_quad, file>>

\* yyerror, check_arith_expr: parsing goes on
Error ==
  /\ phase = "parse" /\ ~IR_GEN_FAILED
  /\ IR_GEN_FAILED' = TRUE
  /\ UNCHANGED <<phase, funcs, open, quads, temp_space, tables,
                 instructions, current_processed_quad, file>>

\* main: only IR_GEN_FAILED is asked
AfterParse ==
  /\ phase' = IF IR_GEN_FAILED THEN "done" ELSE "generate"
  /\ UNCHANGED <<funcs, open, quads, temp_space, IR_GEN_FAILED, tables, instructions,
                 current_processed_quad, file>>

EndOfInput == phase = "parse" /\ open = <<>> /\ AfterParse

\* An ERROR token, or a comment that was never closed: YYABORT
Abort == phase = "parse" /\ open # <<>> /\ AfterParse

\* A mutant: a jump without a target is to be looked at again.
generate_final_instruction_waits(q) ==
  IF q.op = "jump" /\ q.label = 0
  THEN UNCHANGED <<tables, instructions, current_processed_quad>>
  ELSE /\ tables' = After(tables, Operands(GeneratorOf(q), q))
       /\ instructions' = insert_arraylist(instructions, generate(tables, q))
       /\ current_processed_quad' = current_processed_quad + 1

\* One round of generate_final_instructions
generate_final_instruction(q) ==
  /\ tables' = After(tables, Operands(GeneratorOf(q), q))
  /\ instructions' = insert_arraylist(instructions, generate(tables, q))
  /\ current_processed_quad' = current_processed_quad + 1

Generate ==
  /\ phase = "generate" /\ current_processed_quad < curr_quad
  /\ LET q == quads.element[current_processed_quad + 1]
         o == Operands(GeneratorOf(q), q)
     IN  IF \E i \in 1..3 : OperandFails(o[i])
         THEN /\ phase' = "crashed"
              /\ UNCHANGED <<tables, instructions, current_processed_quad>>
         ELSE generate_final_instruction(q) /\ UNCHANGED phase
  /\ UNCHANGED <<funcs, open, quads, temp_space, IR_GEN_FAILED, file>>

Write ==
  /\ phase = "generate" /\ current_processed_quad = curr_quad
  /\ file' = write_abc
  /\ phase' = "done"
  /\ UNCHANGED <<funcs, open, quads, temp_space, IR_GEN_FAILED, tables,
                 instructions, current_processed_quad>>

Stopped == phase \in {"done", "crashed"} /\ UNCHANGED vars

Next ==
  \/ \E t \in Templates : Statement(t)
  \/ \E n \in Names : FunctionStart(n)
  \/ \E size \in 0..1 : FunctionEnd(size)
  \/ Error \/ EndOfInput \/ Abort \/ Generate \/ Write \/ Stopped

Spec == Init /\ [][Next]_vars

\* Nothing but the program itself can hold up these two loops.
FairSpec == Spec /\ WF_vars(Generate \/ Write)
-----------------------------------------------------------------------------
(* Properties *)

TableNames == {"strings", "numbers", "userfuncs", "libfuncs"}
SymbolTableEntry == [name : Names, taddress : Nat, offset : Nat]
ArrayList(S) == [element : Seq(S), max_size : Nat]
Fits(a) == Len(a.element) <= a.max_size

\* Every list holds what it should and never more than was allocated for it
\* (insert_arraylist, emit), and there is never more code than quads.
TypeOK ==
  /\ phase \in {"parse", "generate", "done", "crashed"}
  /\ funcs \in Seq(SymbolTableEntry)
  /\ open \in Seq(Nat) /\ \A i \in DOMAIN open : open[i] \in DOMAIN funcs
  /\ quads \in ArrayList(Quad) /\ Fits(quads)
  /\ temp_space \in TempSpaces \union {""}
  /\ IR_GEN_FAILED \in BOOLEAN
  /\ tables \in [TableNames -> ArrayList(Int)]
  /\ \A t \in TableNames : Fits(tables[t])
  /\ instructions \in ArrayList(Instruction) /\ Fits(instructions)
  /\ current_processed_quad = Len(instructions.element)
  /\ current_processed_quad <= curr_quad

\* An entry of a constant table is made once and by someone: no two entries
\* are the same constant or the same function, and each is the operand of an
\* instruction made so far (consts_newstring and its sisters).
EntriesUsedOnce ==
  /\ \A t \in DOMAIN tables : IsInjective(tables[t].element)
  /\ \A used \in {<<"string", "strings">>, <<"number", "numbers">>,
                   <<"userfunc", "userfuncs">>, <<"libfunc", "libfuncs">>} :
       \A i \in DOMAIN tables[used[2]].element :
          \E c \in DOMAIN instructions.element :
             LET t == instructions.element[c]
             IN  Arg(used[1], i - 1) \in {t.result, t.arg1, t.arg2}

Translation == INSTANCE Translation WITH source <- Source, code <- Code

\* Quad by quad the code gets the meaning of the program, under labels that
\* were made for quads, and whatever is entered into the tables later, no
\* instruction changes its meaning (generate_final_instructions).
ImplementsTranslation == Translation!Spec

\* Whoever reads the file finds the whole program in it, with the addresses
\* and sizes of its functions as they were in the end (write_abc).
FileMeansProgram ==
  file # <<>> =>
    LET loaded == Loaded(file)
    IN  [i \in DOMAIN loaded.code |-> CodeMeaning(loaded, loaded.code[i])] = Source

\* In the file of a program whose functions have all ended, a function is at its
\* address, and whoever comes along before it jumps past its end
\* (function_prefix, function_definition).
FunctionsAreSkipped ==
  file # <<>> /\ open = <<>> =>
    LET loaded == Loaded(file)
        At(a) == loaded.code[a + 1]
    IN  \A f \in DOMAIN loaded.userfuncs :
          LET address == loaded.userfuncs[f].taddress
              before == At(address - 1)
              Brackets(op, t) == t.opcode = op /\ t.result = Arg("userfunc", f - 1)
          IN  /\ Brackets("enterfunc", At(address))
              /\ before.opcode = "jump"
              /\ Brackets("funcend", At(before.result.val - 1))

\* Once parsing is over, a file is written or make_operand has failed.
EndsEventually == phase = "generate" ~> phase \in {"done", "crashed"}
=============================================================================
