---------------------------- MODULE Expressions ----------------------------
(* The semantic actions of BC_generation/parser.y for expressions: the quads  *)
(* they emit, the temporaries they take and the lists of true and false jumps *)
(* they pass up the tree.                                                      *)
(*                                                                             *)
(* stack is the part of bison's semantic stack that belongs to the statement  *)
(* being read.  Its items are Expr records with the nonterminal they have     *)
(* been reduced to; any expression tree can be read, since bison reduces      *)
(* operands before operators and parentheses undo all priorities.             *)
(*                                                                             *)
(* Beside the compiler, the program is executed directly while it is read:    *)
(* worlds says what it has done for each initial memory, live whether the     *)
(* part being read is reached at all, and an item's val what it evaluated to. *)
(* A variable is read when the operator it is an operand of is applied.       *)
(*                                                                             *)
(* Reading stops at the first error: yyerror leaves no output to speak of.    *)
(*                                                                             *)
(* Three features are there to be left out where code is right only without    *)
(* them: "pending_operand" (arithmetic on an and or or), "pending_left"       *)
(* (comparisons whose left operand has jumps that wait), "step_item" (++ and  *)
(* -- of elements of tables); likewise a MaxMethodArgs above 1.                *)
(*                                                                             *)
(* The statements are the body of a function that only uses global variables  *)
(* and the function func.                                                      *)
EXTENDS Machine, FiniteSetsExt

CONSTANTS Programs,   \* kinds of programs, each a record of
                      \*   var       names of variables,
                      \*   table     those of them that hold a table at first,
                      \*   features  operators it may use (see Allowed),
                      \*   quads     bound: quads before an operator
          Literals,   \* constants a program uses
          MaxArgs,    \* bound: arguments and elements
          MaxMethodArgs, \* bound: arguments of a method call
          MaxItems    \* bound: operands of all statements

ASSUME BoundsAssumption == MaxArgs \in Nat /\ MaxMethodArgs \in Nat

VARIABLES program, \* the kind that this one is of
          stack, quads, temp_var_counter, IR_GEN_FAILED, worlds, live,
          items, status

code == <<quads, temp_var_counter>>
execution == <<worlds, live>>
vars == <<program, stack, code, IR_GEN_FAILED, execution, items, status>>

Var == program.var
Table == program.table
Features == program.features
-----------------------------------------------------------------------------
(* Worlds: one for each way the variables may start *)

TempNames == <<"@t0", "@t1", "@t2", "@t3", "@t4", "@t5", "@t6", "@t7", "@t8",
               "@t9", "@t10", "@t11">>
Starts == [Var \ Table -> {0, 1}]

World(start) ==
  [mem |-> [n \in Var \union ToSet(TempNames) \union {"retval"} |->
              IF n \in Table THEN 200 ELSE IF n \in DOMAIN start THEN start[n] ELSE Nil],
   tables |-> <<[Empty EXCEPT ![0] = 1]>>,
   calls |-> <<>>, args |-> <<>>, pc |-> 0]

\* What a program can be seen to do.
Visible(w) == <<[n \in Var \union {"retval"} |-> w.mem[n]], w.tables, w.calls>>
-----------------------------------------------------------------------------
(* Expr records *)

NoValue == [s \in Starts |-> Nil]
create_expr(type) ==
  [type |-> type, kind |-> "expr", sym |-> "", const |-> Nil, index |-> <<>>,
   t_list |-> <<>>, f_list |-> <<>>, val |-> NoValue, mask |-> live]

As(kind, e) == [e EXCEPT !.kind = kind]
IsConst(e) == e.type \in {"const_num_e", "const_bool_e", "nil_e", "program_func_e"}
Pending(e) == e.f_list # <<>>

\* The operand that make_operand will find, and the value it has in a world.
Operand(e) == IF IsConst(e) THEN Const(e.const) ELSE Cell(e.sym)
Read(e, s) == IF Pending(e) THEN e.val[s]
              ELSE IF IsConst(e) THEN e.const
              ELSE IF e.sym \in Var THEN worlds[s].mem[e.sym]
              ELSE e.val[s]
Element(e, s) == GetElem(worlds[s], Read([e EXCEPT !.type = "var_e"], s),
                         Read(e.index[1], s))
-----------------------------------------------------------------------------
(* Code generation threads a state g: the quads, the temporaries taken, and   *)
(* the expression worked on.                                                   *)

Code(e) == [quads |-> quads, temps |-> temp_var_counter, e |-> e]
next_quad(g) == Len(g.quads)
None == Const(Nil)

Quad(op, arg1, arg2, result, label) ==
  [op |-> op, arg1 |-> arg1, arg2 |-> arg2, result |-> result, label |-> label,
   patch |-> "none"]
Emit(g, quad) == [g EXCEPT !.quads = Append(@, quad)]
Jump(g, label) == Emit(g, Quad("jump", None, None, None, label))
Hole(quad) == [quad EXCEPT !.patch = "open"]
JumpHole(g) == Emit(g, Hole(Quad("jump", None, None, None, 0)))

SetLabel(q, label) ==
  [q EXCEPT !.label = label, !.patch = IF @ = "open" THEN "once" ELSE "again"]
patch_list(g, l, label) ==
  [g EXCEPT !.quads =
     [i \in DOMAIN @ |-> IF i - 1 \in ToSet(l) THEN SetLabel(@[i], label) ELSE @[i]]]

\* create_temp_symbol for an Expr of this type, which g works on next
NewTemp(g, type, val) ==
  [g EXCEPT !.temps = @ + 1,
            !.e = [create_expr(type) EXCEPT !.sym = TempNames[g.temps + 1],
                                            !.val = val]]

\* A mutant: the list of false jumps is patched to where the true ones go.
backpatch_tf_lists_swapped(g) ==
  IF ~Pending(g.e) THEN g
  ELSE LET r == NewTemp(g, "bool_expr_e", g.e.val)
           t == patch_list(r, g.e.f_list, next_quad(g))
           u == Emit(t, Quad("assign", Const(True), None, Operand(r.e), 0))
           v == Jump(u, next_quad(u) + 2)
           w == patch_list(v, g.e.t_list, next_quad(v))
       IN  Emit(w, Quad("assign", Const(False), None, Operand(r.e), 0))

backpatch_tf_lists(g) ==
  IF ~Pending(g.e) THEN g
  ELSE LET r == NewTemp(g, "bool_expr_e", g.e.val)
           t == patch_list(r, g.e.t_list, next_quad(g))
           u == Emit(t, Quad("assign", Const(True), None, Operand(r.e), 0))
           v == Jump(u, next_quad(u) + 2)
           w == patch_list(v, g.e.f_list, next_quad(v))
       IN  Emit(w, Quad("assign", Const(False), None, Operand(r.e), 0))

emit_if_table_item(g) ==
  IF g.e.type # "table_item_e" THEN g
  ELSE LET r == NewTemp(g, "var_e", [s \in Starts |-> Element(g.e, s)])
       IN  Emit(r, Quad("tablegetelem", Cell(g.e.sym), Operand(g.e.index[1]),
                        Operand(r.e), 0))

\* A jump on the truth of g.e, to label, or to be patched
TestTrue(g, label) ==
  Emit(g, Quad("if_eq", Operand(g.e), Const(True), None, label))
TestHole(g) == Emit(g, Hole(Quad("if_eq", Operand(g.e), Const(True), None, 0)))

\* An operand of and, or, not that has no lists of its own is tested here.
WithLists(g) ==
  IF Pending(g.e) THEN g
  ELSE LET n == next_quad(g)
       IN  [JumpHole(TestHole(g)) EXCEPT
              !.e = [g.e EXCEPT !.t_list = <<n>>, !.f_list = <<n + 1>>,
                                !.val = [s \in Starts |-> Boolean(Truth(Read(g.e, s)))]]]
-----------------------------------------------------------------------------
(* Steps *)

Init ==
  /\ program \in Programs
  /\ stack = <<>> /\ quads = <<>> /\ temp_var_counter = 0
  /\ IR_GEN_FAILED = FALSE
  /\ worlds = [s \in Starts |-> World(s)] /\ live = [s \in Starts |-> TRUE]
  /\ items = 0 /\ status = "reading"

Reading(n) == status = "reading" /\ ~IR_GEN_FAILED /\ Len(stack) >= n
Allowed(f) == f \in Features /\ Len(quads) < program.quads
Item(i) == stack[Len(stack) - i + 1]
Kinds(n, ks) == \A i \in 1..n : Item(i).kind \in ks

\* The n topmost items are reduced to g.e, and g's code has been emitted.
Reduced(n, g) ==
  /\ stack' = Append(SubSeq(stack, 1, Len(stack) - n), g.e)
  /\ quads' = g.quads /\ temp_var_counter' = g.temps
  /\ UNCHANGED <<items, status>>
Accept == UNCHANGED IR_GEN_FAILED
Error(n) == /\ IR_GEN_FAILED' = TRUE
            /\ stack' = Append(SubSeq(stack, 1, Len(stack) - n), create_expr("dummy_e"))
            /\ UNCHANGED <<code, execution, items, status>>

NoEffect == UNCHANGED execution
\* Where it is reached, the part just read takes each world to After of it.
Effect(After(_)) ==
  /\ worlds' = [s \in Starts |-> IF live[s] THEN After(s) ELSE worlds[s]]
  /\ UNCHANGED live

Operands == Reading(0) /\ items < MaxItems
Read1 == items' = items + 1 /\ UNCHANGED <<status, code, execution>> /\ Accept

lvalue_ID(n) ==
  /\ Operands
  /\ stack' = Append(stack, As("lvalue",
       IF n = "func" THEN [create_expr("program_func_e") EXCEPT !.sym = n,
                                                                !.const = Function]
       ELSE [create_expr("var_e") EXCEPT !.sym = n]))
  /\ Read1

LiteralType(c) == CASE c \in {True, False} -> "const_bool_e"
                    [] c = Nil -> "nil_e"
                    [] OTHER -> "const_num_e"
constant(c) ==
  /\ Operands
  /\ stack' = Append(stack, [create_expr(LiteralType(c)) EXCEPT !.const = c])
  /\ Read1

\* A mutant: an element of a table is not fetched.
primary_unfetched ==
  /\ Reading(1) /\ Kinds(1, {"lvalue", "call"})
  /\ Reduced(1, [Code(Item(1)) EXCEPT !.e = As("expr", @)])
  /\ NoEffect /\ Accept

\* primary: lvalue, call
primary ==
  /\ Reading(1) /\ Kinds(1, {"lvalue", "call"})
  /\ LET g == emit_if_table_item(Code(Item(1)))
     IN  Reduced(1, [g EXCEPT !.e = As("expr", @)])
  /\ NoEffect /\ Accept
-----------------------------------------------------------------------------
(* Arithmetic *)

check_arith_expr(e) ==
  e.type \notin {"const_bool_e", "const_string_e", "nil_e", "new_table_e",
                 "program_func_e", "library_func_e", "bool_expr_e"}

\* May this operand have its jumps unresolved?
Settled(e, f) == Pending(e) => f \in Features

\* expression op expression
arithmetic(op) ==
  /\ Allowed(op) /\ Reading(2) /\ Kinds(2, {"expr"})
  /\ Settled(Item(1), "pending_operand") /\ Settled(Item(2), "pending_operand")
  /\ IF ~check_arith_expr(Item(1)) \/ ~check_arith_expr(Item(2)) THEN Error(2)
     ELSE LET left == Item(2)
              right == Item(1)
              g == NewTemp(Code(left), "arith_expr_e",
                     [s \in Starts |-> Compute(op, Read(left, s), Read(right, s))])
          IN  /\ Reduced(2, Emit(g, Quad(op, Operand(left), Operand(right),
                                         Operand(g.e), 0)))
              /\ NoEffect /\ Accept

\* terminal: - expression
uminus ==
  /\ Allowed("uminus") /\ Reading(1) /\ Kinds(1, {"expr"})
  /\ Settled(Item(1), "pending_operand")
  /\ IF ~check_arith_expr(Item(1)) THEN Error(1)
     ELSE LET g == NewTemp(Code(Item(1)), "arith_expr_e",
                     [s \in Starts |-> Compute("sub", 0, Read(Item(1), s))])
          IN  /\ Reduced(1, Emit(g, Quad("uminus", Operand(Item(1)), None,
                                         Operand(g.e), 0)))
              /\ NoEffect /\ Accept

\* Does an item stand for an element of a table?
IsItem(e) == e.type = "table_item_e"
Plus(op, v) == Compute(op, v, 1)
StoreItem(e, s, v) ==
  SetElem(worlds[s], Read([e EXCEPT !.type = "var_e"], s), Read(e.index[1], s), v)
StoreVar(e, s, v) == [worlds[s] EXCEPT !.mem[e.sym] = v]

\* ++lvalue, --lvalue.  The operands of tablesetelem are not in the order that
\* an assignment has them in.
prefix_step(op) ==
  /\ Allowed("step") /\ Reading(1) /\ Kinds(1, {"lvalue"})
  /\ IsItem(Item(1)) => "step_item" \in Features
  /\ LET lv == Item(1)
         one == Const(1)
     IN  IF ~check_arith_expr(lv) THEN Error(1)
         ELSE IF IsItem(lv)
         THEN LET g == emit_if_table_item(Code(lv))
                  o == Operand(g.e)
                  h == Emit(g, Quad(op, o, one, o, 0))
                  k == Emit(h, Quad("tablesetelem", Cell(lv.sym),
                                    Operand(lv.index[1]), o, 0))
                  new == [s \in Starts |-> Plus(op, Element(lv, s))]
              IN  /\ Reduced(1, [k EXCEPT !.e.val = new])
                  /\ Effect(LAMBDA s : StoreItem(lv, s, new[s])) /\ Accept
         ELSE LET new == [s \in Starts |-> Plus(op, Read(lv, s))]
                  h == Emit(Code(lv), Quad(op, Operand(lv), one, Operand(lv), 0))
                  g == NewTemp(h, "arith_expr_e", new)
              IN  /\ Reduced(1, Emit(g, Quad("assign", Operand(lv), None,
                                             Operand(g.e), 0)))
                  /\ Effect(LAMBDA s : StoreVar(lv, s, new[s])) /\ Accept

\* A mutant: the old value is taken after the variable has been changed.
postfix_step_late(op) ==
  /\ Allowed("step") /\ Reading(1) /\ Kinds(1, {"lvalue"})
  /\ ~IsItem(Item(1)) /\ check_arith_expr(Item(1))
  /\ LET lv == Item(1)
         was == [s \in Starts |-> Read(lv, s)]
         g == NewTemp(Code(lv), "var_e", was)
         i == Emit(g, Quad(op, Operand(lv), Const(1), Operand(lv), 0))
     IN  /\ Reduced(1, Emit(i, Quad("assign", Operand(lv), None, Operand(g.e), 0)))
         /\ Effect(LAMBDA s : StoreVar(lv, s, Plus(op, was[s]))) /\ Accept

\* lvalue++, lvalue--
postfix_step(op) ==
  /\ Allowed("step") /\ Reading(1) /\ Kinds(1, {"lvalue"})
  /\ IsItem(Item(1)) => "step_item" \in Features
  /\ LET lv == Item(1)
         one == Const(1)
     IN  IF ~check_arith_expr(lv) THEN Error(1)
         ELSE IF IsItem(lv)
         THEN LET was == [s \in Starts |-> Element(lv, s)]
                  g == NewTemp(Code(lv), "var_e", was)
                  h == emit_if_table_item([g EXCEPT !.e = lv])
                  v == Operand(h.e)
                  i == Emit(h, Quad("assign", v, None, Operand(g.e), 0))
                  j == Emit(i, Quad(op, v, one, v, 0))
                  k == Emit(j, Quad("tablesetelem", Cell(lv.sym),
                                    Operand(lv.index[1]), v, 0))
              IN  /\ Reduced(1, [k EXCEPT !.e = g.e])
                  /\ Effect(LAMBDA s : StoreItem(lv, s, Plus(op, was[s]))) /\ Accept
         ELSE LET was == [s \in Starts |-> Read(lv, s)]
                  g == NewTemp(Code(lv), "var_e", was)
                  i == Emit(g, Quad("assign", Operand(lv), None, Operand(g.e), 0))
              IN  /\ Reduced(1, Emit(i, Quad(op, Operand(lv), one, Operand(lv), 0)))
                  /\ Effect(LAMBDA s : StoreVar(lv, s, Plus(op, was[s]))) /\ Accept
-----------------------------------------------------------------------------
(* Comparisons and logic *)

\* The tail of a comparison: both operands get a value, then come the two jumps.
CompareTail(op) ==
  LET left == backpatch_tf_lists(Code(Item(2)))
      right == backpatch_tf_lists([left EXCEPT !.e = Item(1)])
      n == next_quad(right)
      test == Emit(right, Hole(Quad(op, Operand(left.e), Operand(right.e), None, 0)))
      result == [create_expr("bool_expr_e") EXCEPT
                   !.t_list = <<n>>, !.f_list = <<n + 1>>,
                   !.val = [s \in Starts |->
                              Boolean(Holds(op, Read(Item(2), s), Read(Item(1), s)))]]
  IN  /\ Reduced(2, [JumpHole(test) EXCEPT !.e = result])
      /\ NoEffect /\ Accept

comparison(op) ==
  /\ Allowed(op) /\ Reading(2) /\ Kinds(2, {"expr"})
  /\ Settled(Item(2), "pending_left")
  /\ IF ~check_arith_expr(Item(1)) \/ ~check_arith_expr(Item(2)) THEN Error(2)
     ELSE CompareTail(op)

check_matching_expr(e1, e2) ==
  LET Types(t, u) == {e1.type, e2.type} = {t, u}
  IN  \/ e1.type = "var_e" \/ e2.type = "var_e"
      \/ e1.type = e2.type
      \/ Types("arith_expr_e", "const_num_e")
      \/ Types("bool_expr_e", "const_bool_e")

equality(op) ==
  /\ Allowed(op) /\ Reading(2) /\ Kinds(2, {"expr"})
  /\ Settled(Item(2), "pending_left")
  /\ IF ~check_matching_expr(Item(2), Item(1)) THEN Error(2)
     ELSE CompareTail(op)

\* The part read next is reached only where the left operand is true (or false).
Branch(e, taken) ==
  /\ live' = [s \in Starts |-> live[s] /\ (Truth(Read(e, s)) <=> taken)]
  /\ UNCHANGED worlds
Rejoin(mask) == live' = mask /\ UNCHANGED worlds

\* expression AND M: the mid-rule action.  The item keeps, as its mask, where
\* the operator itself is reached.
and_prefix ==
  /\ Allowed("and") /\ Reading(1) /\ Kinds(1, {"expr"})
  /\ LET e == Item(1)
         truth == [e EXCEPT !.val = [s \in Starts |-> Boolean(Truth(Read(e, s)))],
                            !.mask = live]
         g == patch_list(Code(e), e.t_list, Len(quads))
         h == JumpHole(TestTrue(g, next_quad(g) + 2))
     IN  /\ Reduced(1, IF Pending(e) THEN [g EXCEPT !.e = As("and", truth)]
                       ELSE [h EXCEPT !.e = As("and",
                               [truth EXCEPT !.f_list = <<next_quad(g) + 1>>])])
         /\ Branch(e, TRUE) /\ Accept

or_prefix ==
  /\ Allowed("or") /\ Reading(1) /\ Kinds(1, {"expr"})
  /\ LET e == Item(1)
         truth == [e EXCEPT !.val = [s \in Starts |-> Boolean(Truth(Read(e, s)))],
                            !.mask = live]
         g == patch_list(Code(e), e.f_list, Len(quads))
         h == TestHole(g)
     IN  /\ Reduced(1, IF e.t_list # <<>> THEN [g EXCEPT !.e = As("or", truth)]
                       ELSE [Jump(h, next_quad(h) + 1) EXCEPT !.e = As("or",
                               [truth EXCEPT !.t_list = <<next_quad(g)>>])])
         /\ Branch(e, FALSE) /\ Accept

\* A mutant: the false jumps of the left operand are forgotten.
and_expression_right ==
  /\ Reading(2) /\ Item(2).kind = "and" /\ Item(1).kind = "expr"
  /\ LET left == Item(2)
         g == WithLists(Code(Item(1)))
     IN  /\ Reduced(2, [g EXCEPT !.e = [left EXCEPT
             !.kind = "expr", !.t_list = g.e.t_list, !.f_list = g.e.f_list,
             !.val = [s \in Starts |-> IF Truth(left.val[s]) THEN g.e.val[s] ELSE False]]])
         /\ Rejoin(left.mask) /\ Accept

\* expression AND M expression.  The result is the left operand's Expr.
and_expression ==
  /\ Reading(2) /\ Item(2).kind = "and" /\ Item(1).kind = "expr"
  /\ LET left == Item(2)
         g == WithLists(Code(Item(1)))
     IN  /\ Reduced(2, [g EXCEPT !.e = [left EXCEPT
             !.kind = "expr", !.t_list = g.e.t_list,
             !.f_list = left.f_list \o g.e.f_list,
             !.val = [s \in Starts |-> IF Truth(left.val[s]) THEN g.e.val[s] ELSE False]]])
         /\ Rejoin(left.mask) /\ Accept

or_expression ==
  /\ Reading(2) /\ Item(2).kind = "or" /\ Item(1).kind = "expr"
  /\ LET left == Item(2)
         g == WithLists(Code(Item(1)))
     IN  /\ Reduced(2, [g EXCEPT !.e = [left EXCEPT
             !.kind = "expr", !.t_list = left.t_list \o g.e.t_list,
             !.f_list = g.e.f_list,
             !.val = [s \in Starts |-> IF Truth(left.val[s]) THEN True ELSE g.e.val[s]]]])
         /\ Rejoin(left.mask) /\ Accept

\* expr_transformable_to_bool: new_table_e has no constant to tell here.
Transformable(e) == IsConst(e) \/ e.type = "new_table_e"

not_expression ==
  /\ Allowed("not") /\ Reading(1) /\ Kinds(1, {"expr"})
  /\ LET g == WithLists(Code(Item(1)))
         type == IF Transformable(g.e) THEN "const_bool_e" ELSE "bool_expr_e"
     IN  Reduced(1, [g EXCEPT !.e = [create_expr(type) EXCEPT
             !.const = IF IsConst(g.e) THEN Boolean(~Truth(g.e.const)) ELSE False,
             !.f_list = g.e.t_list, !.t_list = g.e.f_list,
             !.val = [s \in Starts |-> Boolean(~Truth(g.e.val[s]))]]])
  /\ NoEffect /\ Accept
-----------------------------------------------------------------------------
(* Assignment, members, calls and tables *)

assignment ==
  /\ Allowed("assign") /\ Reading(2)
  /\ Item(2).kind = "lvalue" /\ Item(1).kind = "expr"
  /\ IF Item(2).sym = "func" THEN Error(2)
     ELSE LET lv == Item(2)
              g == backpatch_tf_lists(Code(Item(1)))
              new == [s \in Starts |-> Read(Item(1), s)]
              o == Operand(g.e)
          IN  IF IsItem(lv)
              THEN LET h == Emit(g, Quad("tablesetelem", o, Operand(lv.index[1]),
                                         Cell(lv.sym), 0))
                       k == emit_if_table_item([h EXCEPT !.e = lv])
                       stored == [s \in Starts |->
                                    LET w == StoreItem(lv, s, new[s])
                                    IN  GetElem(w, Read([lv EXCEPT !.type = "var_e"], s),
                                                Read(lv.index[1], s))]
                   IN  /\ Reduced(2, [k EXCEPT !.e.type = "assign_expr_e",
                                              !.e.val = stored])
                       /\ Effect(LAMBDA s : StoreItem(lv, s, new[s])) /\ Accept
              ELSE LET h == Emit(g, Quad("assign", o, None, Operand(lv), 0))
                       k == NewTemp(h, "assign_expr_e", new)
                   IN  /\ Reduced(2, Emit(k, Quad("assign", Operand(lv), None,
                                                  Operand(k.e), 0)))
                       /\ Effect(LAMBDA s : StoreVar(lv, s, new[s])) /\ Accept

TableItem(g, index) ==
  [g EXCEPT !.e = [create_expr("table_item_e") EXCEPT
      !.kind = "lvalue", !.sym = g.e.sym, !.index = <<index>>,
      !.val = [s \in Starts |-> Read(g.e, s)]]]
member_item(g, index) == TableItem(emit_if_table_item(g), index)
Name(k) == [create_expr("const_num_e") EXCEPT !.const = k]

\* lvalue . ID, call . ID
member_name(k) ==
  /\ Allowed("member") /\ Reading(1) /\ Kinds(1, {"lvalue", "call"})
  /\ IF Item(1).sym = "func" THEN Error(1)
     ELSE /\ Reduced(1, member_item(Code(Item(1)), Name(k)))
          /\ NoEffect /\ Accept

\* lvalue [ expression ], call [ expression ]
member_index ==
  /\ Allowed("index") /\ Reading(2)
  /\ Item(2).kind \in {"lvalue", "call"} /\ Item(1).kind = "expr"
  /\ IF Item(2).sym = "func" THEN Error(2)
     ELSE LET g == backpatch_tf_lists(Code(Item(1)))
          IN  /\ Reduced(2, member_item([g EXCEPT !.e = Item(2)], g.e))
              /\ NoEffect /\ Accept

\* argument, and the first expression of an indexedelem
argument ==
  /\ Features \intersect {"call", "method", "list", "indexed"} # {}
  /\ Reading(1) /\ Kinds(1, {"expr"})
  /\ LET g == backpatch_tf_lists(Code(Item(1)))
     IN  Reduced(1, [g EXCEPT !.e = As("arg", @)])
  /\ NoEffect /\ Accept

\* The n arguments on the stack, last one first
rev_elist(n) == [i \in 1..n |-> Item(i)]

\* A mutant: the arguments are pushed in the order they were written in.
make_call_unreversed(g, rev) ==
  LET func == emit_if_table_item(g)
      params == [func EXCEPT !.quads = @ \o
        [i \in DOMAIN rev |-> Quad("param", Operand(rev[Len(rev) + 1 - i]), None, None, 0)]]
      called == Emit(params, Quad("call", Operand(func.e), None, None, 0))
      r == NewTemp(called, "var_e",
             [s \in Starts |-> Call(worlds[s], Nil, <<>>).mem["retval"]])
      done == Emit(r, Quad("getretval", None, None, Operand(r.e), 0))
  IN  [done EXCEPT !.e = As("call", @)]

make_call(g, rev) ==
  LET func == emit_if_table_item(g)
      params == [func EXCEPT !.quads = @ \o
        [i \in DOMAIN rev |-> Quad("param", Operand(rev[i]), None, None, 0)]]
      called == Emit(params, Quad("call", Operand(func.e), None, None, 0))
      r == NewTemp(called, "var_e",
             [s \in Starts |-> Call(worlds[s], Nil, <<>>).mem["retval"]])
      done == Emit(r, Quad("getretval", None, None, Operand(r.e), 0))
  IN  [done EXCEPT !.e = As("call", @)]

Values(es, s) == [i \in DOMAIN es |-> Read(es[i], s)]
ValueOf(e, s) == IF IsItem(e) THEN Element(e, s) ELSE Read(e, s)

\* lvalue ( elist ), call ( elist )
call(n) ==
  /\ Allowed("call") /\ Reading(n + 1) /\ Kinds(n, {"arg"})
  /\ Item(n + 1).kind \in {"lvalue", "call"}
  /\ LET f == Item(n + 1)
     IN  /\ Reduced(n + 1, make_call(emit_if_table_item(Code(f)), rev_elist(n)))
         /\ Effect(LAMBDA s : Call(worlds[s], ValueOf(f, s),
                                   Reverse(Values(rev_elist(n), s))))
  /\ Accept

\* lvalue .. ID ( elist ): the object becomes the first argument, by being
\* linked behind the first element of the reversed list.  Nothing is checked of
\* the object; here it is no function, whose frame slot make_operand would read.
method_call(n, k) ==
  /\ Allowed("method") /\ Reading(n + 1) /\ Kinds(n, {"arg"})
  /\ Item(n + 1).kind = "lvalue" /\ Item(n + 1).sym # "func"
  /\ LET object == emit_if_table_item(Code(Item(n + 1)))
         f == emit_if_table_item(member_item(object, Name(k)))
         rev == SubSeq(rev_elist(n), 1, IF n = 0 THEN 0 ELSE 1)
     IN  /\ Reduced(n + 1, make_call(f, Append(rev, object.e)))
         /\ Effect(LAMBDA s :
              LET t == ValueOf(Item(n + 1), s)
              IN  Call(worlds[s], GetElem(worlds[s], t, k),
                       <<t>> \o Reverse(Values(rev_elist(n), s))))
  /\ Accept

\* object_definition: a table is made, then filled.  pairs holds the key and
\* the value of each element, in order.
Fill(r, pairs) ==
  [r EXCEPT !.quads = @ \o
     [i \in DOMAIN pairs |-> Quad("tablesetelem", Operand(pairs[i].value),
                                  Operand(pairs[i].key), Operand(r.e), 0)]]
Object(n, pairs) ==
  LET r == NewTemp(Code(Name(0)), "new_table_e",
             [s \in Starts |-> LastTable(NewTable(worlds[s]))])
      made == Emit(r, Quad("tablecreate", Operand(r.e), None, None, 0))
      \* Of elements with the same key, the last one stays.
      Filled(s) ==
        [k \in Keys |->
           LET same == {i \in DOMAIN pairs : Read(pairs[i].key, s) = k}
           IN  IF same = {} THEN Nil ELSE Read(pairs[Max(same)].value, s)]
  IN  /\ Reduced(n, Fill(made, pairs))
      /\ Effect(LAMBDA s : [worlds[s] EXCEPT !.tables = Append(@, Filled(s))]) /\ Accept

\* [ elist ]
object_list(n) ==
  /\ Allowed("list") /\ Reading(n) /\ Kinds(n, {"arg"})
  /\ Object(n, [i \in 1..n |-> [key |-> Name(i - 1), value |-> Reverse(rev_elist(n))[i]]])

\* [ {key : value}, ... ]
object_indexed(n) ==
  /\ Allowed("indexed") /\ Reading(2 * n) /\ Kinds(2 * n, {"arg"})
  /\ LET es == Reverse(rev_elist(2 * n))
     IN  Object(2 * n, [i \in 1..n |-> [key |-> es[2 * i - 1], value |-> es[2 * i]]])
-----------------------------------------------------------------------------
(* Statements *)

\* all_statements, after expression ;
statement ==
  /\ Reading(1) /\ Len(stack) = 1 /\ Kinds(1, {"expr"})
  /\ quads' = backpatch_tf_lists(Code(Item(1))).quads
  /\ stack' = <<>> /\ temp_var_counter' = 0
  /\ UNCHANGED <<items, status>> /\ NoEffect /\ Accept

\* return expression ; as the last statement of the body.  The function's end
\* patches the jump to the quad that follows it.
return ==
  /\ Reading(1) /\ Len(stack) = 1 /\ Kinds(1, {"expr"})
  /\ LET g == backpatch_tf_lists(Code(Item(1)))
         h == Emit(g, Quad("ret", None, None, Operand(g.e), 0))
     IN  quads' = Jump(h, next_quad(h) + 1).quads
  /\ stack' = <<>> /\ temp_var_counter' = 0
  /\ status' = "done" /\ UNCHANGED items
  /\ Effect(LAMBDA s : [worlds[s] EXCEPT !.mem["retval"] = Read(Item(1), s)])
  /\ Accept

\* The input ends before the statement does: a syntax error, and bison drops
\* what is on its stack.
syntax_error ==
  /\ Reading(1) /\ IR_GEN_FAILED' = TRUE /\ stack' = <<>>
  /\ UNCHANGED <<code, execution, items, status>>

\* The end of the body, without a return
function_body ==
  /\ Reading(0) /\ stack = <<>> /\ status' = "done"
  /\ UNCHANGED <<stack, code, IR_GEN_FAILED, execution, items>>

Ended == (status = "done" \/ IR_GEN_FAILED) /\ UNCHANGED vars

Parse ==
  \/ \E n \in Var \union {"func"} : lvalue_ID(n)
  \/ \E c \in Literals : constant(c)
  \/ primary \/ uminus \/ not_expression \/ assignment
  \/ \E op \in {"add", "sub", "mul", "div", "mod"} : arithmetic(op)
  \/ \E op \in {"add", "sub"} : prefix_step(op) \/ postfix_step(op)
  \/ \E op \in {"if_less", "if_lesseq", "if_greater", "if_greatereq"} : comparison(op)
  \/ \E op \in {"if_eq", "if_noteq"} : equality(op)
  \/ and_prefix \/ or_prefix
  \/ and_expression \/ or_expression
  \/ argument \/ member_index
  \/ \E k \in Keys : member_name(k)
  \/ \E n \in 0..MaxArgs : call(n) \/ object_list(n)
  \/ \E n \in 0..MaxMethodArgs, k \in Keys : method_call(n, k)
  \/ \E n \in 1..MaxArgs : object_indexed(n)
  \/ statement \/ return \/ function_body \/ syntax_error
  \/ Ended

Next == Parse /\ UNCHANGED program

Spec == Init /\ [][Next]_vars
-----------------------------------------------------------------------------
(* Properties *)

\* The shapes of the state: only items that wait for an operand or an operator
\* are on the stack, and the records keep to the types of Expr and Quad.
TypeOK ==
  /\ \A i \in DOMAIN stack :
       /\ stack[i].kind \in {"lvalue", "call", "expr", "arg", "and", "or"}
       /\ Pending(stack[i]) => stack[i].kind \in {"expr", "and", "or"}
       /\ Len(stack[i].index) <= 1 /\ (IsItem(stack[i]) => stack[i].kind = "lvalue")
  /\ \A i \in DOMAIN quads : quads[i].label \in 0..(Len(quads) + 2)
  /\ temp_var_counter \in Nat
  /\ \A s \in Starts : worlds[s].args = <<>> /\ live[s] \in BOOLEAN
  /\ status \in {"reading", "done"}

\* The quads of a program do what the program says: run from any memory, they
\* leave the same variables and tables, make the same calls with the same
\* arguments, and return the same value as direct execution, and they end.
CodeComputes ==
  status = "done" =>
    \A s \in Starts :
      LET w == Run(World(s), quads)
      IN  w.pc = Len(quads) /\ Visible(w) = Visible(worlds[s])

\* The jumps that wait for a label are those in the lists of the items on the
\* stack, each of them once; an operator that loses a list, or patches it and
\* passes it on, breaks this.
Owes(e) == CASE e.kind = "and" -> e.f_list
             [] e.kind = "or" -> e.t_list
             [] OTHER -> e.t_list \o e.f_list
Places == UNION {{<<i, j>> : j \in DOMAIN Owes(stack[i])} : i \in DOMAIN stack}
JumpAt(p) == Owes(stack[p[1]])[p[2]]
JumpsHeldOnce ==
  ~IR_GEN_FAILED =>
    /\ {JumpAt(p) : p \in Places} =
         {i - 1 : i \in {j \in DOMAIN quads : quads[j].patch = "open"}}
    /\ \A p, q \in Places : JumpAt(p) = JumpAt(q) => p = q
    /\ \A i \in DOMAIN quads : quads[i].patch # "again"
=============================================================================
