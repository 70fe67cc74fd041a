----------------------------- MODULE Temporaries -----------------------------
(* The IR stage: the actions of IR_generation/parser.y that give variables a  *)
(* place and intermediate results a temporary.  Here temporaries are symbols   *)
(* of the scope they are needed in, named @t0, @t1, ... from the start of each *)
(* statement, and may be needed while a function written inside the expression *)
(* is read.  Jumps and their labels are left to Parser, of which this stage    *)
(* has an earlier copy.  A program with an error in it is given no code, and is *)
(* not followed further.                                                       *)
(*                                                                             *)
(* Quads are not kept, only what they do to the results held in temporaries.  *)
(* An entry is known by its position in entries; the table has not grown: its  *)
(* chains have the newest binding first.                                       *)
EXTENDS Naturals, Sequences, FiniteSets, SequencesExt, FiniteSetsExt

CONSTANTS Var,        \* names a program uses for variables and arguments
          Fun,        \* names it uses for functions
          MaxEntries, \* bound: entries, temporaries included
          MaxQualified, \* bound: entries from which on no name has local or ::
          MaxFrames,  \* bound: nesting of bodies and blocks
          MaxOperands \* bound: operands an expression holds at once

\* Bound: more than these are not needed in a statement.
TempNames == <<"@t0", "@t1", "@t2", "@t3", "@t4", "@t5">>

\* No name a program may use has an @ in it.
ASSUME NamesAssumption ==
  /\ Var \union Fun \union ToSet(TempNames) \subseteq STRING
  /\ (Var \union Fun) \cap ToSet(TempNames) = {}

VARIABLES entries, current_scope, scope_space_counter, offset,
          function_offset_stack, temp_var_counter, IR_GEN_FAILED,
          ctx \* the bodies and blocks that are being read, innermost last

places == <<scope_space_counter, offset, function_offset_stack>>
vars == <<entries, current_scope, places, temp_var_counter,
          IR_GEN_FAILED, ctx>>
-----------------------------------------------------------------------------
(* Bodies, blocks and the expressions read in them                            *)

\* fn is the function whose body or argument list this is in, 0 outside of all;
\* operands are those of the expression being read, in the order of its text;
\* ended says that a statement has ended in it.
Frame(kind, fn) == [kind |-> kind, fn |-> fn, operands |-> <<>>, ended |-> FALSE]
Top == Last(ctx)
fn == Top.fn
operands == Top.operands

\* An operand is an lvalue or a value and its symbol (0: a dummy_e).  computed
\* says that a quad has left it there, and lost that another quad has written
\* there since.  spoiled says that a function with statements in it has been
\* read since, in the same expression.
Operand(kind, sym, computed) ==
  [kind |-> kind, sym |-> sym, computed |-> computed, lost |-> FALSE, spoiled |-> FALSE]
Dummy == Operand("value", 0, FALSE)

Holding(c, s) == [c EXCEPT ![Len(c)].operands = s]
Operands(s) == ctx' = Holding(ctx, s)
Without(n) == SubSeq(operands, 1, Len(operands) - n)
Nth(i) == operands[Len(operands) - i]    \* the last is Nth(0)
-----------------------------------------------------------------------------
(* The symbol table                                                            *)

\* in is the function it belongs to
Entry(n, s, type, in) ==
  [name |-> n, scope |-> s, type |-> type, isActive |-> TRUE,
   func_is_open |-> type = "USERFUNC", space |-> "unset", offset |-> 0, in |-> in]

ActiveAt(n, s) ==
  {k \in DOMAIN entries :
     entries[k].name = n /\ entries[k].scope = s /\ entries[k].isActive}

SymTable_contains(n, s) == ActiveAt(n, s) # {}
SymTable_get(n) ==
  LET all == UNION {ActiveAt(n, s) : s \in 0..current_scope}
  IN  IF all = {} THEN 0 ELSE Max(all)
SymTable_get_entry_at_scope(n, s) ==
  IF SymTable_contains(n, s) THEN Min(ActiveAt(n, s)) ELSE 0

\* Outwards from scope s, the global scope included
SymTable_get_closest_scope(n, s) ==
  LET scopes == {t \in 0..s : SymTable_contains(n, t)}
  IN  IF scopes = {} THEN 0 ELSE SymTable_get_entry_at_scope(n, Max(scopes))

\* A mutant: the scope of the entry itself is passed over.
SymTable_open_func_outside(k, max_scope) ==
  \E f \in DOMAIN entries :
    /\ entries[f].func_is_open
    /\ entries[f].scope \in (entries[k].scope + 1)..max_scope

SymTable_open_func(k, max_scope) ==
  \E f \in DOMAIN entries :
    /\ entries[f].func_is_open
    /\ \/ entries[f].scope = entries[k].scope /\ f >= k
       \/ entries[f].scope \in (entries[k].scope + 1)..max_scope

SymList_deactivate(s) ==
  [k \in DOMAIN entries |->
     [entries[k] EXCEPT !.isActive = @ /\ entries[k].scope # s]]

IsFunction(k) == entries[k].type = "USERFUNC"
-----------------------------------------------------------------------------
(* Places                                                                      *)

get_curr_scope_space(counter) ==
  IF counter = 1 THEN "program_variable"
  ELSE IF counter % 2 = 0 THEN "formal_argument" ELSE "function_local"

Space == get_curr_scope_space(scope_space_counter)
get_curr_scope_offset == offset[Space]

\* A mutant: the variables of a function go on from those of one inside it.
restore_curr_scope_offset_not(counter, n) == offset
restore_curr_scope_offset(counter, n) ==
  [offset EXCEPT ![get_curr_scope_space(counter)] = n]

\* lvalue: the variable n in the current scope
VariableEntry(n) ==
  [Entry(n, current_scope, IF current_scope = 0 THEN "GLOBAL" ELSE "LOCAL", fn)
     EXCEPT !.space = Space, !.offset = get_curr_scope_offset]
-----------------------------------------------------------------------------
(* Temporaries                                                                 *)

new_temp_name == TempNames[temp_var_counter + 1]

\* A mutant: temporaries are symbols of the global scope.
temp_scope_global == 0
temp_scope == current_scope

\* create_temp_symbol: the symbol, and the entries with it
Temp ==
  IF SymTable_contains(new_temp_name, temp_scope) THEN SymTable_get(new_temp_name)
  ELSE Len(entries) + 1
WithTemp ==
  IF SymTable_contains(new_temp_name, temp_scope) THEN entries
  ELSE Append(entries, Entry(new_temp_name, temp_scope, "TEMP", fn))

\* emit: quads that give the symbols S a value
Overwrite(o, S) == [o EXCEPT !.lost = @ \/ (o.computed /\ o.sym \in S)]
Written(S) ==
  [i \in DOMAIN ctx |-> [ctx[i] EXCEPT !.operands =
     [j \in DOMAIN ctx[i].operands |-> Overwrite(ctx[i].operands[j], S)]]]

NewTemp == entries' = WithTemp /\ temp_var_counter' = temp_var_counter + 1

\* The last n operands have been used; a new temporary holds the result.  S are
\* the symbols written besides.
Compute(n, S) ==
  LET after == Written(S \union {Temp})
      left == SubSeq(Last(after).operands, 1, Len(operands) - n)
  IN  /\ NewTemp
      /\ ctx' = Holding(after, Append(left, Operand("value", Temp, TRUE)))

Fail(error) == IR_GEN_FAILED' = (IR_GEN_FAILED \/ error)
-----------------------------------------------------------------------------
Init ==
  /\ entries = <<>>
  /\ current_scope = 0
  /\ scope_space_counter = 1
  /\ offset = [s \in {"program_variable", "function_local", "formal_argument"} |-> 0]
  /\ function_offset_stack = <<>>
  /\ temp_var_counter = 0
  /\ IR_GEN_FAILED = FALSE
  /\ ctx = <<Frame("program", 0)>>

CanRead == /\ Top.kind # "header"
           /\ Len(operands) < MaxOperands /\ Len(entries) < MaxEntries
CanCompute == Len(entries) < MaxEntries /\ temp_var_counter < Len(TempNames)

\* lvalue: the symbol that was found for the name n or, if there is none, a new
\* one.  It is left on the stack for what follows it, or made a value.
lvalue(n, found) ==
  /\ CanRead
  /\ n \in Fun => found # 0    \* bound: such a name is defined first
  /\ Operands(Append(operands, Operand("lvalue", IF found = 0 THEN Len(entries) + 1
                                                 ELSE found, FALSE)))
  /\ IF found # 0 THEN UNCHANGED <<entries, offset>>
     ELSE /\ entries' = Append(entries, VariableEntry(n))
          /\ offset' = [offset EXCEPT ![Space] = @ + 1]
  /\ UNCHANGED <<current_scope, scope_space_counter, function_offset_stack,
                 temp_var_counter, IR_GEN_FAILED>>

\* lvalue: ID
Variable(n) == lvalue(n, SymTable_get_closest_scope(n, current_scope))

\* lvalue: LOCAL ID.  There is no library function whose name this could be.
LocalVariable(n) == lvalue(n, SymTable_get_entry_at_scope(n, current_scope))

\* lvalue: DOUBLE_COLON ID
GlobalVariable(n) ==
  LET found == SymTable_get_entry_at_scope(n, 0)
  IN  \/ found # 0 /\ lvalue(n, found)
      \/ /\ found = 0 /\ CanRead
         /\ Operands(Append(operands, Dummy))
         /\ Fail(TRUE)
         /\ UNCHANGED <<entries, current_scope, places, temp_var_counter>>

\* What the name of symbol k is looked up as where an lvalue is used
Looked(k) == SymTable_get_closest_scope(entries[k].name, current_scope)
NoAccess(k) == entries[k].scope # 0 /\ SymTable_open_func(k, current_scope)

\* primary: lvalue
primary ==
  LET o == Nth(0)
      refused == ~IsFunction(Looked(o.sym)) /\ NoAccess(Looked(o.sym))
  IN  /\ operands # <<>> /\ o.kind = "lvalue"
      /\ Operands(Append(Without(1), IF refused THEN Dummy ELSE [o EXCEPT !.kind = "value"]))
      /\ Fail(refused)
      /\ UNCHANGED <<entries, current_scope, places, temp_var_counter>>

Values(n) == Len(operands) >= n /\ \A i \in 0..(n - 1) : Nth(i).kind = "value"

\* expression ADDITION expression and its like: check_arith_expr goes on.  Of the
\* operands that it refuses there are only functions here.
handle_expr_op_expr ==
  /\ Values(2) /\ CanCompute
  /\ Compute(2, {})
  /\ Fail(IsFunction(Nth(0).sym) \/ IsFunction(Nth(1).sym))
  /\ UNCHANGED <<current_scope, places>>

\* lvalue INCREMENT
postfix_step ==
  LET x == Nth(0).sym
      refused == ~IsFunction(Looked(x)) /\ NoAccess(Looked(x))
  IN  /\ operands # <<>> /\ Nth(0).kind = "lvalue" /\ CanCompute
      /\ Fail(refused \/ IsFunction(x))
      /\ IF refused
         THEN NewTemp /\ Operands(Append(Without(1), Dummy))
         ELSE Compute(1, {x})
      /\ UNCHANGED <<current_scope, places>>

\* lvalue ASSIGNMENT expression: errors are reported, and code emitted still
assignment_expression ==
  LET x == Nth(1).sym
  IN  /\ Values(1) /\ Len(operands) >= 2 /\ Nth(1).kind = "lvalue" /\ CanCompute
      /\ Compute(2, {x})
      /\ Fail(IsFunction(Looked(x)) \/ NoAccess(Looked(x)))
      /\ UNCHANGED <<current_scope, places>>

\* lvalue callsuffix with n arguments
call(n) ==
  LET f == Nth(n).sym
      refused == ~IsFunction(Looked(f)) /\ NoAccess(Looked(f))
  IN  /\ Values(n) /\ Len(operands) > n /\ Nth(n).kind = "lvalue" /\ CanCompute
      /\ IF refused
         THEN /\ Operands(Append(Without(n + 1), Dummy))
              /\ UNCHANGED <<entries, temp_var_counter>>
         ELSE Compute(n + 1, {})
      /\ Fail(refused)
      /\ UNCHANGED <<current_scope, places>>

\* all_statements: a statement has been read, an expression or nothing.
Ended(c) == [c EXCEPT ![Len(c)].operands = <<>>, ![Len(c)].ended = TRUE]

Statement ==
  /\ Top.kind # "header" /\ Values(Len(operands)) /\ Len(operands) <= 1
  /\ temp_var_counter' = 0
  /\ ctx' = Ended(ctx)
  /\ UNCHANGED <<entries, current_scope, places, IR_GEN_FAILED>>
-----------------------------------------------------------------------------
(* Blocks and functions                                                        *)

BlockStart ==
  /\ Top.kind # "header" /\ operands = <<>> /\ Len(ctx) < MaxFrames
  /\ current_scope' = current_scope + 1
  /\ ctx' = Append(ctx, Frame("block", fn))
  /\ UNCHANGED <<entries, places, temp_var_counter, IR_GEN_FAILED>>

BlockEnd ==
  /\ Top.kind = "block" /\ operands = <<>>
  /\ entries' = SymList_deactivate(current_scope)
  /\ current_scope' = current_scope - 1
  /\ temp_var_counter' = 0
  /\ ctx' = Ended(Front(ctx))
  /\ UNCHANGED <<places, IR_GEN_FAILED>>

\* function_prefix.  A function is a statement, or in parentheses an operand.
function_prefix(n) ==
  LET f == Len(entries) + 1
      taken == SymTable_contains(n, current_scope)
  IN  /\ Top.kind # "header" /\ CanRead /\ Len(ctx) < MaxFrames
      /\ entries' = Append(entries, Entry(n, current_scope, "USERFUNC", fn))
      /\ Fail(taken)
      /\ function_offset_stack' = Append(function_offset_stack, get_curr_scope_offset)
      /\ scope_space_counter' = scope_space_counter + 1
      /\ offset' = [offset EXCEPT !["formal_argument"] = 0]
      /\ ctx' = Append(ctx, Frame("header", f))
      /\ UNCHANGED <<current_scope, temp_var_counter>>

\* function_arguments, and the brace of the body.  Arguments get no place.
function_arguments(formals) ==
  /\ Top.kind = "header"
  /\ entries' = entries \o [i \in DOMAIN formals |->
                              Entry(formals[i], current_scope + 1, "FORMAL", fn)]
  /\ scope_space_counter' = scope_space_counter + 1
  /\ offset' = [offset EXCEPT !["function_local"] = 0]
  /\ current_scope' = current_scope + 1
  /\ ctx' = Append(Front(ctx), Frame("body", fn))
  /\ UNCHANGED <<function_offset_stack, temp_var_counter, IR_GEN_FAILED>>

\* A mutant: the oldest open function is closed.
close_function_first(es, n) ==
  CHOOSE k \in DOMAIN es : es[k].func_is_open /\ \A j \in 1..(k - 1) : ~es[j].func_is_open

\* The function that SymTable_get finds by the name n, the body being left
close_function(es, n) == Max({k \in DOMAIN es : es[k].name = n /\ es[k].isActive})

Spoil(s) == [i \in DOMAIN s |-> [s[i] EXCEPT !.spoiled = TRUE]]

\* function_body and function_definition
FunctionEnd(as_operand) ==
  LET f == Top.fn
      left == SymList_deactivate(current_scope)
      closed == close_function(left, entries[f].name)
      around == ctx[Len(ctx) - 1]
      counter == scope_space_counter - 2
  IN  /\ Top.kind = "body" /\ operands = <<>>
      /\ as_operand => Len(around.operands) < MaxOperands
      /\ ~as_operand => around.operands = <<>>
      /\ entries' = [k \in DOMAIN left |->
                       [left[k] EXCEPT
                          !.offset = IF k = f THEN get_curr_scope_offset ELSE @,
                          !.func_is_open = @ /\ k # closed]]
      /\ current_scope' = current_scope - 1
      /\ scope_space_counter' = counter
      /\ offset' = restore_curr_scope_offset(counter, Last(function_offset_stack))
      /\ function_offset_stack' = Front(function_offset_stack)
      /\ ctx' = IF ~as_operand THEN Ended(Front(ctx))
                ELSE [Front(ctx) EXCEPT ![Len(ctx) - 1].operands =
                        Append(IF Top.ended THEN Spoil(@) ELSE @, Operand("value", f, FALSE))]
      /\ temp_var_counter' = IF as_operand THEN temp_var_counter ELSE 0
      /\ UNCHANGED IR_GEN_FAILED

\* terminal: ERROR.  yyparse ends, wherever it is.
Abort == UNCHANGED vars
-----------------------------------------------------------------------------
Read ==
  \/ \E n \in Var \union Fun : Variable(n)
  \/ /\ Len(entries) < MaxQualified
     /\ \E n \in Var \union Fun : LocalVariable(n) \/ GlobalVariable(n)
  \/ primary \/ handle_expr_op_expr \/ postfix_step \/ assignment_expression
  \/ \E n \in 0..1 : call(n)
  \/ Statement
  \/ BlockStart \/ BlockEnd
  \/ \E n \in Fun : function_prefix(n)
  \/ \E formals \in {<<>>} \union {<<n>> : n \in Var} : function_arguments(formals)
  \/ \E as_operand \in BOOLEAN : FunctionEnd(as_operand)

Next == (~IR_GEN_FAILED /\ Read) \/ Abort

Spec == Init /\ [][Next]_vars
-----------------------------------------------------------------------------
(* Properties                                                                  *)

Symbol == [name : STRING, scope : Nat, type : {"GLOBAL", "LOCAL", "FORMAL", "USERFUNC", "TEMP"},
           isActive : BOOLEAN, func_is_open : BOOLEAN, offset : Nat, in : Nat,
           space : {"unset", "program_variable", "function_local", "formal_argument"}]

Bodies == {i \in DOMAIN ctx : ctx[i].kind = "body"}

\* The counters say how the construct being read is nested, and the functions
\* that are open are those whose headers or bodies are being read.
TypeOK ==
  /\ entries \in Seq(Symbol)
  /\ current_scope = Cardinality({i \in DOMAIN ctx : ctx[i].kind \in {"block", "body"}})
  /\ scope_space_counter = 1 + 2 * Cardinality(Bodies) + IF Top.kind = "header" THEN 1 ELSE 0
  /\ Len(function_offset_stack)
       = Cardinality({i \in DOMAIN ctx : ctx[i].kind \in {"header", "body"}})
  /\ {k \in DOMAIN entries : entries[k].func_is_open}
       = {ctx[i].fn : i \in {j \in DOMAIN ctx : ctx[j].kind \in {"header", "body"}}}

\* An operand in a temporary is what was computed, while the rest of its
\* expression is read, the bodies of functions in it included: the counter
\* starts again in each statement of such a body (parser.y:108), but the symbols
\* are others (create_temp_symbol).  What follows such a body may overwrite it.
OperandsKept ==
  \A i \in DOMAIN ctx : \A j \in DOMAIN ctx[i].operands :
    LET o == ctx[i].operands[j]
    IN  o.lost => o.spoiled

\* The variables of a function, and those of the program, have the places
\* 0, 1, 2, ... of their own space, none shared and none skipped, whatever
\* functions are read between their declarations (restore_curr_scope_offset).
Variables(f) == {k \in DOMAIN entries : entries[k].in = f /\ entries[k].space # "unset"}
SlotsFill ==
  \A f \in {0} \union {k \in DOMAIN entries : IsFunction(k)} :
    /\ {entries[k].offset : k \in Variables(f)} = 0..(Cardinality(Variables(f)) - 1)
    /\ \A k \in Variables(f) :
         entries[k].space = IF f = 0 THEN "program_variable" ELSE "function_local"

\* No value that is computed with belongs to a function around this one: a
\* name that means its variable is refused, and none of its temporaries is
\* used (SymTable_open_func, create_temp_symbol).
OperandsReachable ==
  \A i \in DOMAIN ctx : \A j \in DOMAIN ctx[i].operands :
    LET o == ctx[i].operands[j]
    IN  o.kind = "value" /\ o # Dummy /\ ~IsFunction(o.sym)
          => entries[o.sym].in = ctx[i].fn \/ entries[o.sym].scope = 0
=============================================================================
