----------------------------- MODULE MCSyntactic -----------------------------
(* Three kinds of programs small enough for TLC: many names in a few          *)
(* constructs, loops among them, and loops in each other with hardly a name.   *)
EXTENDS Syntactic

OneLibrary == <<"print">>
Anonymous == <<"$0", "$1", "$2", "$3">>

Names == [entries |-> 3, frames |-> 3, loops |-> 0, put_by |-> 1]
Mixed == [entries |-> 2, frames |-> 3, loops |-> 3, put_by |-> 1]
Loops == [entries |-> 1, frames |-> 5, loops |-> 4, put_by |-> 0]
AnyKind == {Names, Mixed, Loops}
=============================================================================
