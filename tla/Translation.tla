----------------------------- MODULE Translation -----------------------------
(* What the code generator promises: it reads a whole program and then turns  *)
(* it, one statement after the other, into code with the same meaning, which  *)
(* it never changes again.                                                     *)
EXTENDS Naturals, Sequences

VARIABLES source, \* the meanings of the program's quads, in their order
          code    \* the meanings of the instructions made so far

Init == source = <<>> /\ code = <<>>

\* More of the program is read, or an earlier jump learns where it goes.
Read == code = <<>> /\ source' # source /\ UNCHANGED code

Translate ==
  /\ Len(code) < Len(source)
  /\ code' = Append(code, source[Len(code) + 1])
  /\ UNCHANGED source

Next == Read \/ Translate
Spec == Init /\ [][Next]_<<source, code>>
=============================================================================
