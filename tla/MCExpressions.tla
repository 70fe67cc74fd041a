--------------------------- MODULE MCExpressions ---------------------------
(* Instances of Expressions small enough for TLC: the programs of each run    *)
(* use the operators its question is about.                                    *)
EXTENDS Expressions

\* 100 and 101 are false and true, 102 is nil.
Zero == {0}

Logic == [var |-> {"a", "b"}, table |-> {}, quads |-> 10,
          features |-> {"and", "or", "not", "if_less", "if_eq", "assign"}]
Memory == [var |-> {"a", "t"}, table |-> {"t"}, quads |-> 5,
           features |-> {"sub", "uminus", "step", "assign", "member"}]
Calls == [var |-> {"t"}, table |-> {"t"}, quads |-> 4,
          features |-> {"call", "method", "list", "indexed", "index"}]

LogicAndMemory == {Logic, Memory}
OnlyCalls == {Calls}
=============================================================================
