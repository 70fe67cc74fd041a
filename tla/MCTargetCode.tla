----------------------------- MODULE MCTargetCode -----------------------------
(* Quads of every opcode and operands of every kind, with constants that occur *)
(* more than once.                                                             *)
EXTENDS TargetCode

E(type, v) == [type |-> type, space |-> "", value |-> v]
V(type, space, v) == [type |-> type, space |-> space, value |-> v]
T(op, result, arg1, arg2) == [op |-> op, result |-> result, arg1 |-> arg1,
                              arg2 |-> arg2]

Global == V("var", "program_variable", 0)
Local == V("var", "function_local", 1)
Formal == V("table_item", "formal_argument", 0)
Temp == V("arith_expr", "temporary", 1)
One == E("const_num", 1)
Text == E("const_string", 1)
OtherText == E("const_string", 0)

MCTemplates ==
  {T("assign", Global, Text, NULL), T("add", Temp, Global, One),
   T("sub", Local, Local, One), T("mul", Temp, One, create_numeric_expr(-1)),
   T("div", Global, Temp, Formal), T("mod", Temp, One, One),
   T("uminus", Temp, One, NULL), T("if_eq", NULL, Global, E("const_bool", 1)),
   T("if_noteq", NULL, Text, OtherText), T("if_lesseq", NULL, Local, One),
   T("if_greatereq", NULL, Formal, Global), T("if_less", NULL, One, E("nil", 0)),
   T("if_greater", NULL, Global, One), Jump,
   T("call", NULL, E("library_func", 1), NULL),
   T("call", NULL, E("program_func", 1), NULL),
   T("param", NULL, E("program_func", 2), NULL),
   T("param", NULL, E("library_func", 0), NULL),
   T("ret", OtherText, NULL, NULL), T("getretval", Global, NULL, NULL),
   T("tablecreate", NULL, V("new_table", "program_variable", 0), NULL),
   T("tablegetelem", Local, Formal, Text),
   T("tablesetelem", Formal, Global, OtherText)}

MCFollowers ==
  {T("assign", Global, Text, NULL), T("add", Temp, Global, One),
   T("uminus", Temp, One, NULL), T("if_eq", NULL, Global, E("const_bool", 1)),
   T("call", NULL, E("library_func", 1), NULL),
   T("call", NULL, E("program_func", 1), NULL),
   T("param", NULL, E("program_func", 2), NULL),
   T("ret", OtherText, NULL, NULL),
   T("tablesetelem", Formal, Global, OtherText)}
=============================================================================
