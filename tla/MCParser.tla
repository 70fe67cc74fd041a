------------------------------ MODULE MCParser ------------------------------
(* Instances of Parser small enough for TLC: each run allows the statements   *)
(* its question is about.                                                      *)
EXTENDS Parser

OneLibrary == <<"print">>
NoLibrary == <<>>
Temporaries == <<"@t0", "@t1", "@t2", "@t3", "@t4", "@t5">>
Anonymous == <<"$0", "$1", "$2", "$3">>
=============================================================================
