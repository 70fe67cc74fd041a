------------------------------ MODULE MCScanner ------------------------------
(* Four kinds of files: comments inside each other; comments, strings and     *)
(* lines; tokens of all kinds, with words and with operators.                 *)
EXTENDS FlexScanner

MCInputs == {[chars |-> {"/", "*", "a"}, size |-> 9],
             [chars |-> {"/", "*", "\n", "\"", "a"}, size |-> 7],
             [chars |-> {"a", "1", ".", "=", "\"", "\\", "n", " ", "\n", "@", "_"},
              size |-> 4],
             [chars |-> {"+", "-", "<", ">", "=", "!", ":", ".", "*", "/", "%", "(",
                         "]", ";", "1"}, size |-> 4]}
MCKeywords == {<<"a", "n">>}
=============================================================================
