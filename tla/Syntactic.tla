------------------------------ MODULE Syntactic ------------------------------
(* The syntactic analyzer: the actions of syntactic_analyzer/parser.y over    *)
(* its own copy of the symbol table.  It generates nothing: all it says of a   *)
(* program is whether it keeps the rules about names, functions and loops.     *)
(*                                                                             *)
(* An expression is read as the names in it are; operators and constants do    *)
(* nothing.  The table has not grown, so its chains have the newest binding    *)
(* first (SymTable says what growth does).  An entry is known by its position  *)
(* in entries, 0 stands for NULL.                                              *)
EXTENDS Naturals, Sequences, FiniteSets, SequencesExt, FiniteSetsExt

CONSTANTS Name,       \* names a program uses, among them those of
          Lib,        \* library functions, in the order they are put
          AnonymousNames, \* bound: the names anonymous functions can get
          Programs    \* kinds of programs, as their bounds: entries put after
                      \* those, and the nesting of what is being read, with
                      \* loops and with assignments and calls among that
                      \* ([entries, frames, loops, put_by])

ASSUME LibAssumption == Lib \in Seq(Name) /\ IsInjective(Lib)

\* No name of a program is empty or has a $ in it.
ASSUME NamesAssumption ==
  /\ Name \subseteq STRING /\ "" \notin Name
  /\ AnonymousNames \in Seq(STRING) /\ Name \cap ToSet(AnonymousNames) = {}

VARIABLES
  program,             \* the kind of program
  entries,             \* the SymbolTableEntry records, in the order they are put
  current_scope,
  global_only,         \* the last lvalue was ::x
  nameless_func_count,
  block_stack,
  ERROR_FLAG,
  freed,               \* an entry of the table has been freed
  frames,              \* what is being read, innermost last
  broken,              \* history: the program has broken a rule
  confused             \* history: it has done something Confusing

table == <<entries, nameless_func_count, freed>>
vars == <<program, table, current_scope, global_only, block_stack, ERROR_FLAG,
          frames, broken, confused>>
-----------------------------------------------------------------------------
(* The symbol table *)

NewestOf(S) == IF S = {} THEN 0 ELSE Max(S)
OldestOf(S) == IF S = {} THEN 0 ELSE Min(S)

Active(n) == {k \in DOMAIN entries : entries[k].name = n /\ entries[k].isActive}
ActiveAt(n, s) == {k \in Active(n) : entries[k].scope = s}

SymTable_contains(n, s) == ActiveAt(n, s) # {}
SymTable_get(n) == NewestOf(Active(n))
SymTable_get_entry_at_scope(n, s) == OldestOf(ActiveAt(n, s))

\* Outwards from scope s, but never to the global scope
SymTable_get_closest_scope(n, s) ==
  LET visible == {t \in 1..s : SymTable_contains(n, t)}
  IN  IF visible = {} THEN 0 ELSE SymTable_get_entry_at_scope(n, Max(visible))

\* A mutant: the functions of entry k's own scope are passed over.
SymTable_open_func_outside(k, max_scope) ==
  \E f \in DOMAIN entries :
     /\ entries[f].func_is_open
     /\ entries[f].scope \in (entries[k].scope + 1)..max_scope

\* A function is open that comes after entry k, in its scope or further in.
SymTable_open_func(k, max_scope) ==
  \E f \in DOMAIN entries :
     /\ entries[f].func_is_open
     /\ \/ entries[f].scope = entries[k].scope /\ f >= k
        \/ entries[f].scope \in (entries[k].scope + 1)..max_scope

create_SymbolTableEntry(n, type, s) ==
  [name |-> n, type |-> type, scope |-> s, isActive |-> TRUE,
   func_is_open |-> type = "USERFUNC"]

SymTable_put(e) == Append(entries, e)

SymTable_init_lib_functions ==
  [i \in DOMAIN Lib |-> create_SymbolTableEntry(Lib[i], "LIBFUNC", 0)]

SymList_deactivate(s) ==
  [k \in DOMAIN entries |->
     IF entries[k].scope = s THEN [entries[k] EXCEPT !.isActive = FALSE]
     ELSE entries[k]]

IsFunction(k) == entries[k].type \in {"USERFUNC", "LIBFUNC"}
IsLibrary(n) == SymTable_contains(n, 0) /\ entries[SymTable_get(n)].type = "LIBFUNC"
-----------------------------------------------------------------------------
(* lvalue.  Its value is a new entry that is in no table yet (at = 0), one     *)
(* that is, or NULL.                                                           *)

NULL == [name |-> "", at |-> 0, only |-> FALSE]
New(n) == [name |-> n, at |-> 0, only |-> FALSE]
Old(n, k, only) == [name |-> n, at |-> k, only |-> only]

SymbolType == IF current_scope = 0 THEN "GLOBAL" ELSE "LOCAL"
Variable(n) == create_SymbolTableEntry(n, SymbolType, current_scope)

\* What reading an lvalue does: its value, the entries, the flag, and whether
\* it is an error
Read(value, es, flag, error) ==
  [value |-> value, es |-> es, flag |-> flag, error |-> error]

lvalue(how, n) ==
  CASE how = "ID" -> Read(New(n), entries, FALSE, FALSE)
    [] how = "LOCAL" ->
         IF SymTable_contains(n, current_scope)
         THEN Read(Old(n, SymTable_get(n), FALSE), entries, FALSE, FALSE)
         ELSE IF IsLibrary(n) THEN Read(NULL, entries, FALSE, TRUE)
         ELSE Read(NULL, SymTable_put(Variable(n)), FALSE, FALSE)
    [] how = "DOUBLE_COLON" ->
         IF SymTable_contains(n, 0)
         THEN Read(Old(n, SymTable_get_entry_at_scope(n, 0), TRUE), entries, TRUE, FALSE)
         ELSE Read(NULL, entries, global_only, TRUE)
-----------------------------------------------------------------------------
(* What is done with the value v of an lvalue that has just been read, or was  *)
(* read before the rest of its expression: the entries, whether it is an       *)
(* error, and whether the entry is freed.                                      *)

Done(es, error, free) == [es |-> es, error |-> error, free |-> free]
Nothing == Done(entries, FALSE, FALSE)
Put(v) == Done(SymTable_put(Variable(v.name)), FALSE, FALSE)
Refused == Done(entries, TRUE, FALSE)

Closest(v) == SymTable_get_closest_scope(v.name, current_scope - 1)

\* primary: lvalue; only is what global_only has just become
primary(v, only) ==
  CASE v = NULL \/ SymTable_contains(v.name, current_scope) -> Nothing
    [] OTHER ->
       IF current_scope = 0 THEN Put(v)
       ELSE IF Closest(v) = 0 /\ ~only
       THEN IF SymTable_contains(v.name, 0) THEN Nothing ELSE Put(v)
       ELSE IF ~only /\ SymTable_open_func(Closest(v), current_scope) THEN Refused
       ELSE Nothing

\* Its type is FUNC_TYPE.  A name that only the global scope has is given no
\* type when it is read inside a block: $$ is what the parser left there.
primary_is_function(v, only) ==
  /\ v # NULL /\ SymTable_get(v.name) # 0 /\ IsFunction(SymTable_get(v.name))
  /\ SymTable_contains(v.name, current_scope) \/ only \/ Closest(v) # 0

\* insert_variable.  Where the access is refused, the entry is freed, be it in
\* the table or not.
insert_variable(v, only) ==
  CASE v = NULL -> Nothing
    [] v # NULL /\ SymTable_contains(v.name, current_scope) ->
         Done(entries, IsFunction(SymTable_get_entry_at_scope(v.name, current_scope)),
              FALSE)
    [] OTHER ->
       IF current_scope = 0 THEN Put(v)
       ELSE IF Closest(v) = 0 /\ ~only
       THEN IF SymTable_contains(v.name, 0)
            THEN Done(entries, IsFunction(SymTable_get_entry_at_scope(v.name, 0)), FALSE)
            ELSE Put(v)
       ELSE IF ~only /\ SymTable_open_func(Closest(v), current_scope)
       THEN Done(entries, TRUE, v.at # 0)
       ELSE Done(entries, SymTable_get(v.name) # 0 /\ IsFunction(SymTable_get(v.name)),
                 FALSE)

\* call: lvalue callsuffix
call(v) ==
  LET curr == SymTable_get_closest_scope(v.name, current_scope)
  IN  CASE v = NULL -> Nothing
        [] OTHER ->
           IF curr = 0
           THEN IF SymTable_get_entry_at_scope(v.name, 0) = 0 THEN Put(v) ELSE Nothing
           ELSE Done(entries, ~IsFunction(curr) /\ SymTable_open_func(curr, current_scope),
                     FALSE)
-----------------------------------------------------------------------------
(* The rules, told from what is being read and not from the open functions.   *)

\* A frame is a construct that has begun: first is the last entry outside of
\* it (for a function with an entry, that entry), value an lvalue put by.
Frame(kind, first, put, value) ==
  [kind |-> kind, first |-> first, put |-> put, value |-> value]

Kinds(K) == {i \in DOMAIN frames : frames[i].kind \in K}
Bodies == Kinds({"function"})
Top == IF frames = <<>> THEN "program" ELSE Last(frames).kind

\* The innermost binding of n, and whether a function lies between it and here
Visible(n) ==
  IF Active(n) = {} THEN 0
  ELSE LET innermost == Max({entries[k].scope : k \in Active(n)})
       IN  NewestOf(ActiveAt(n, innermost))
Hidden(k) == entries[k].scope > 0 /\ \E i \in Bodies : frames[i].first >= k

Meant(v) == IF v.at # 0 THEN v.at ELSE Visible(v.name)
BreaksUse(v) == Meant(v) # 0 /\ Hidden(Meant(v))
BreaksChange(v) == Meant(v) # 0 /\ (Hidden(Meant(v)) \/ IsFunction(Meant(v)))
BreaksOperand(v) == Meant(v) # 0 /\ (Hidden(Meant(v)) \/ IsFunction(Meant(v)))
BreaksCall(v) == Meant(v) # 0 /\ Hidden(Meant(v)) /\ ~IsFunction(Meant(v))

BreaksName(how, n) ==
  \/ how = "LOCAL" /\ ~SymTable_contains(n, current_scope) /\ n \in ToSet(Lib)
  \/ how = "DOUBLE_COLON" /\ ~SymTable_contains(n, 0)

\* The code looks the name behind :: up again, and may find another variable of
\* that name; and it takes the flag for that of the variable that is changed,
\* which a name read in between has set.
Confusing(v, only) ==
  /\ v # NULL
  /\ \/ v.only # only
     \/ v.only /\ \E k \in Active(v.name) : entries[k].scope > 0

\* The operand of an operator is a function, which the code cannot tell.
ConfusingOperand(v, only) ==
  \/ Confusing(v, only)
  \/ v # NULL /\ BreaksOperand(v) /\ ~Hidden(Meant(v)) /\ ~primary_is_function(v, only)
-----------------------------------------------------------------------------
Init ==
  /\ program \in Programs
  /\ entries = SymTable_init_lib_functions
  /\ current_scope = 0
  /\ global_only = FALSE
  /\ nameless_func_count = 0
  /\ block_stack = <<>>
  /\ ERROR_FLAG = FALSE
  /\ freed = FALSE
  /\ frames = <<>>
  /\ broken = FALSE /\ confused = FALSE

\* Bound: a program that is refused already ends what it has begun.
Refusable == ~(ERROR_FLAG /\ broken)
HasRoomFor(n) == Len(entries) + n <= Len(Lib) + program.entries /\ Refusable
HasRoom == HasRoomFor(1)
CanNest == Len(frames) < program.frames /\ Refusable
AtStatement == Top \in {"program", "block", "function", "loop"}

Verdict(error, wrong) ==
  ERROR_FLAG' = (ERROR_FLAG \/ error) /\ broken' = (broken \/ wrong)

Push(f) == frames' = Append(frames, f)
Pop == frames' = Front(frames)

\* An lvalue that is used at once, maybe as the operand of an operator; one
\* that is stepped; and a member, of which the lvalue is read and nothing more.
UseVariable(how, n, operand) ==
  LET read == lvalue(how, n)
      v == read.value
      done == primary(v, read.flag)
  IN  /\ HasRoom
      /\ entries' = IF v = NULL THEN read.es ELSE done.es
      /\ global_only' = read.flag
      /\ Verdict(\/ read.error \/ done.error
                 \/ operand /\ primary_is_function(v, read.flag),
                 \/ BreaksName(how, n)
                 \/ v # NULL /\ IF operand THEN BreaksOperand(v) ELSE BreaksUse(v))
      /\ confused' = (confused \/ (operand /\ ConfusingOperand(v, read.flag)))
      /\ UNCHANGED <<current_scope, nameless_func_count, block_stack, freed, frames>>

StepVariable(how, n) ==
  LET read == lvalue(how, n)
      done == insert_variable(read.value, read.flag)
  IN  /\ HasRoom
      /\ entries' = IF read.value = NULL THEN read.es ELSE done.es
      /\ global_only' = read.flag
      /\ freed' = (freed \/ done.free)
      /\ Verdict(read.error \/ done.error,
                 BreaksName(how, n) \/ (read.value # NULL /\ BreaksChange(read.value)))
      /\ confused' = (confused \/ Confusing(read.value, read.flag))
      /\ UNCHANGED <<current_scope, nameless_func_count, block_stack, frames>>

Member(how, n) ==
  LET read == lvalue(how, n)
  IN  /\ HasRoom
      /\ entries' = read.es
      /\ global_only' = read.flag
      /\ Verdict(read.error, BreaksName(how, n))
      /\ UNCHANGED <<current_scope, nameless_func_count, block_stack, freed, frames,
                     confused>>

\* lvalue ASSIGNMENT expression, lvalue callsuffix: the lvalue is read first,
\* and put by until the rest has been read.
PutBy(kind, how, n) ==
  LET read == lvalue(how, n)
  IN  /\ HasRoom /\ CanNest
      /\ Cardinality(Kinds({"assignment", "call"})) < program.put_by
      /\ Push(Frame(kind, Len(entries), FALSE, read.value))
      /\ entries' = read.es
      /\ global_only' = read.flag
      /\ Verdict(read.error, BreaksName(how, n))
      /\ UNCHANGED <<current_scope, nameless_func_count, block_stack, freed, confused>>

AssignmentStart(how, n) == PutBy("assignment", how, n)
CallStart(how, n) == PutBy("call", how, n)

AssignmentEnd ==
  LET v == Last(frames).value
      done == insert_variable(v, global_only)
  IN  /\ Top = "assignment" /\ Pop
      /\ entries' = done.es
      /\ freed' = (freed \/ done.free)
      /\ Verdict(done.error, v # NULL /\ BreaksChange(v))
      /\ confused' = (confused \/ Confusing(v, global_only))
      /\ UNCHANGED <<current_scope, global_only, nameless_func_count, block_stack>>

CallEnd ==
  LET v == Last(frames).value
      done == call(v)
  IN  /\ Top = "call" /\ Pop
      /\ entries' = done.es
      /\ Verdict(done.error, v # NULL /\ BreaksCall(v))
      /\ confused' = (confused \/ (v # NULL /\ Confusing(v, v.only)))
      /\ UNCHANGED <<current_scope, global_only, nameless_func_count, block_stack,
                     freed>>
-----------------------------------------------------------------------------
(* Blocks and loops *)

block_end ==
  /\ entries' = SymList_deactivate(current_scope)
  /\ current_scope' = current_scope - 1

BlockStart ==
  /\ AtStatement /\ CanNest
  /\ Push(Frame("block", Len(entries), FALSE, NULL))
  /\ current_scope' = current_scope + 1
  /\ UNCHANGED <<table, global_only, block_stack, ERROR_FLAG, broken, confused>>

BlockEnd ==
  /\ Top = "block" /\ Pop
  /\ block_end
  /\ UNCHANGED <<nameless_func_count, freed, global_only, block_stack, ERROR_FLAG,
                 broken, confused>>

\* WHILE or FOR; what is in its parentheses comes next, then its statement, here
\* always a block.
LoopStart ==
  /\ AtStatement /\ CanNest
  /\ Cardinality(Kinds({"header", "loop"})) < program.loops
  /\ block_stack' = Append(block_stack, "LOOP")
  /\ Push(Frame("header", Len(entries), FALSE, NULL))
  /\ UNCHANGED <<table, current_scope, global_only, ERROR_FLAG, broken, confused>>

LoopBody ==
  /\ Top = "header"
  /\ frames' = Append(Front(frames), Frame("loop", Len(entries), FALSE, NULL))
  /\ current_scope' = current_scope + 1
  /\ UNCHANGED <<table, global_only, block_stack, ERROR_FLAG, broken, confused>>

\* A mutant: only the top is looked at, nothing is removed.
stack_pop_peek(stack) == stack
stack_pop(stack) == Front(stack)

LoopEnd ==
  /\ Top = "loop" /\ Pop
  /\ block_end
  /\ block_stack' = stack_pop(block_stack)
  /\ UNCHANGED <<nameless_func_count, freed, global_only, ERROR_FLAG, broken, confused>>

loop_on_top == block_stack # <<>> /\ Last(block_stack) = "LOOP"

\* BREAK and CONTINUE
Break ==
  /\ AtStatement
  /\ LET around == Kinds({"function", "loop"})
     IN  Verdict(~loop_on_top, around = {} \/ frames[Max(around)].kind # "loop")
  /\ UNCHANGED <<table, current_scope, global_only, block_stack, frames, confused>>

\* stack_lookup
Return ==
  /\ AtStatement
  /\ Verdict("FUNC_BLOCK" \notin ToSet(block_stack), Bodies = {})
  /\ UNCHANGED <<table, current_scope, global_only, block_stack, frames, confused>>
-----------------------------------------------------------------------------
(* Functions *)

\* idlist: its arguments, at most two here, are put by in arguments_list last
\* first, each once.
arguments_list(formals) ==
  LET last == Reverse(formals)
  IN  IF IsInjective(last) THEN last ELSE <<last[1]>>

\* The first may not have the name of a library function, the others not that
\* of any function.
idlist_fails(formals) ==
  \/ formals # <<>> /\ IsLibrary(formals[1])
  \/ \E i \in 2..Len(formals) :
       SymTable_contains(formals[i], 0) /\ IsFunction(SymTable_get(formals[i]))
  \/ ~IsInjective(formals)

BreaksFormals(formals) ==
  ToSet(formals) \cap ToSet(Lib) # {} \/ ~IsInjective(formals)

\* A formal after the first has the name of a function of the program, which
\* the code refuses as if it were the library's.
ConfusingFormals(formals) ==
  \E i \in 2..Len(formals) :
     SymTable_contains(formals[i], 0) /\ entries[SymTable_get(formals[i])].type = "USERFUNC"

\* ArgList_to_SymTable
ArgList_to_SymTable(es, formals) ==
  LET list == arguments_list(formals)
  IN  es \o [i \in DOMAIN list |->
               create_SymbolTableEntry(list[i], "FORMAL", current_scope + 1)]

AnonymousName(i) == AnonymousNames[i + 1]

\* The header of a function and the brace of its body
FunctionStart(n, formals, taken) ==
  LET bound == SymTable_put(create_SymbolTableEntry(n, "USERFUNC", current_scope))
      wrong == idlist_fails(formals) \/ taken
  IN  /\ HasRoomFor(1 + Len(formals)) /\ CanNest
      /\ block_stack' = Append(block_stack, "FUNC_BLOCK")
      /\ entries' = IF taken THEN entries ELSE ArgList_to_SymTable(bound, formals)
      /\ current_scope' = current_scope + 1
      /\ Push(Frame("function", Len(entries) + IF taken THEN 0 ELSE 1, ~taken, New(n)))
      /\ Verdict(wrong, taken \/ BreaksFormals(formals))
      /\ confused' = (confused \/ ConfusingFormals(formals))
      /\ UNCHANGED <<freed, global_only>>

NamedFunction(n, formals) ==
  /\ FunctionStart(n, formals,
                   \/ SymTable_contains(n, current_scope)
                   \/ SymTable_get(n) # 0 /\ entries[SymTable_get(n)].type = "LIBFUNC")
  /\ UNCHANGED nameless_func_count

AnonymousFunction(formals) ==
  /\ nameless_func_count < Len(AnonymousNames)
  /\ FunctionStart(AnonymousName(nameless_func_count), formals, FALSE)
  /\ nameless_func_count' = nameless_func_count + 1

\* A mutant: the name of the next anonymous function is taken.
nameless_after_close_next == nameless_func_count
nameless_after_close == nameless_func_count - 1

IsAnonymous(f) == f.value.name \in ToSet(AnonymousNames)

CountAtEnd(f) == IF IsAnonymous(f) THEN nameless_after_close ELSE nameless_func_count
NameAtEnd(f) == IF IsAnonymous(f) THEN AnonymousName(CountAtEnd(f)) ELSE f.value.name

\* What SymTable_get finds by the name of f, the body of f being left already
FoundAtEnd(f) ==
  NewestOf({k \in Active(NameAtEnd(f)) : entries[k].scope # current_scope})

\* operand: what has been defined, in parentheses, is the operand of an operator.
FunctionEnd(operand) ==
  LET f == Last(frames)
  IN  /\ Top = "function" /\ Pop
      /\ entries' = [SymList_deactivate(current_scope) EXCEPT
                       ![FoundAtEnd(f)].func_is_open = FALSE]
      /\ current_scope' = current_scope - 1
      /\ block_stack' = stack_pop(block_stack)
      /\ nameless_func_count' = CountAtEnd(f)
      /\ Verdict(operand, operand)
      /\ UNCHANGED <<freed, global_only, confused>>
-----------------------------------------------------------------------------
\* Bound: a function has at most two formals.
Formals == UNION {[1..n -> Name] : n \in 0..2}

Step ==
  \/ \E how \in {"ID", "LOCAL", "DOUBLE_COLON"}, n \in Name :
       \/ \E operand \in BOOLEAN : UseVariable(how, n, operand)
       \/ StepVariable(how, n) \/ Member(how, n)
       \/ AssignmentStart(how, n) \/ CallStart(how, n)
  \/ AssignmentEnd \/ CallEnd
  \/ BlockStart \/ BlockEnd \/ LoopStart \/ LoopBody \/ LoopEnd
  \/ Break \/ Return
  \/ \E formals \in Formals :
       AnonymousFunction(formals) \/ \E n \in Name : NamedFunction(n, formals)
  \/ \E operand \in BOOLEAN : FunctionEnd(operand)

\* A program is followed up to the first thing Confusing that it does; with an
\* entry of the table freed, the code could do anything.
Stopped == (freed \/ confused) /\ UNCHANGED vars

Next == (~freed /\ ~confused /\ Step /\ UNCHANGED program) \/ Stopped

Spec == Init /\ [][Next]_vars
-----------------------------------------------------------------------------
(* Properties *)

Entry == [name : STRING, type : {"GLOBAL", "LOCAL", "FORMAL", "USERFUNC", "LIBFUNC"},
          scope : Nat, isActive : BOOLEAN, func_is_open : BOOLEAN]

\* The scope is the number of blocks that are open, the stack has the loops and
\* functions that are being read, and the lookup that closes a function finds
\* one.
TypeOK ==
  /\ entries \in Seq(Entry)
  /\ current_scope = Cardinality(Kinds({"block", "loop", "function"}))
  /\ global_only \in BOOLEAN /\ freed \in BOOLEAN
  /\ ERROR_FLAG \in BOOLEAN /\ broken \in BOOLEAN /\ confused \in BOOLEAN
  /\ nameless_func_count = Cardinality({i \in Bodies : IsAnonymous(frames[i])})
  /\ Len(block_stack) = Cardinality(Kinds({"header", "loop", "function"}))
  /\ Top = "function" => FoundAtEnd(Last(frames)) # 0

\* The verdict is right (ERROR_FLAG): a program that has done nothing Confusing
\* is refused if and only if it has broken a rule, and what is in the table is
\* not freed.
VerdictRight == ~confused => ERROR_FLAG = broken /\ ~freed

\* The open functions are those whose bodies are being read, whatever has been
\* bound to their names meanwhile and whoever has used their numbers before
\* (function_definition).
OpenIffNested ==
  {k \in DOMAIN entries : entries[k].func_is_open}
    = {frames[i].first : i \in {j \in Bodies : frames[j].put}}
=============================================================================
