------------------------------- MODULE Machine -------------------------------
(* What the quads mean: the part of the Alpha virtual machine that the code   *)
(* generator counts on, as far as its own use of each opcode shows.           *)
(*                                                                             *)
(* Values are coded as numbers, so that any two can be compared.  A world is  *)
(* the memory (variables, temporaries and the returned value), the tables     *)
(* made so far, the calls made so far, and the arguments pushed for the next  *)
(* one.                                                                        *)
EXTENDS Integers, Sequences, SequencesExt

CONSTANTS Keys,   \* the keys of tables: 0, 1, ...
          Modulus \* bound: arithmetic is modulo this number

False == 100
True == 101
Nil == 102
Function == 300

IsNumber(v) == v < 100
IsTable(v) == v \in 200..299
Truth(v) == v \notin {0, False, Nil}
Boolean(b) == IF b THEN True ELSE False

\* if_eq: with a boolean, anything is compared by its truth
Equal(v, w) == IF {v, w} \intersect {True, False} # {} THEN Truth(v) = Truth(w)
               ELSE v = w

Holds(op, v, w) == CASE op = "if_eq" -> Equal(v, w)
                     [] op = "if_noteq" -> ~Equal(v, w)
                     [] op = "if_less" -> v < w
                     [] op = "if_lesseq" -> v <= w
                     [] op = "if_greater" -> v > w
                     [] op = "if_greatereq" -> v >= w

Compute(op, v, w) ==
  IF ~IsNumber(v) \/ ~IsNumber(w) THEN Nil
  ELSE (CASE op = "add" -> v + w
          [] op = "sub" -> v - w
          [] op = "mul" -> v * w
          [] op = "div" -> IF w = 0 THEN 0 ELSE v \div w
          [] op = "mod" -> IF w = 0 THEN 0 ELSE v % w) % Modulus

Empty == [k \in Keys |-> Nil]
NewTable(w) == [w EXCEPT !.tables = Append(@, Empty)]
LastTable(w) == 199 + Len(w.tables)

GetElem(w, t, k) ==
  IF IsTable(t) /\ k \in Keys THEN w.tables[t - 199][k] ELSE Nil
SetElem(w, t, k, v) ==
  IF IsTable(t) /\ k \in Keys THEN [w EXCEPT !.tables[t - 199][k] = v] ELSE w

\* A call is recorded and returns a value of its own.
Call(w, f, args) ==
  LET calls == Append(w.calls, <<f, args>>)
  IN  [w EXCEPT !.calls = calls, !.mem["retval"] = Len(calls) % Modulus]

\* Operands: a constant or a cell of the memory
Const(c) == [cell |-> "", value |-> c]
Cell(n) == [cell |-> n, value |-> 0]
Of(w, o) == IF o.cell = "" THEN o.value ELSE w.mem[o.cell]

\* One quad.  The argument pushed last is the first one.
Execute(w, q) ==
  LET x == Of(w, q.arg1)
      y == Of(w, q.arg2)
      next == [w EXCEPT !.pc = @ + 1]
      Put(n, v) == [next EXCEPT !.mem[n] = v]
  IN  CASE q.op = "assign" -> Put(q.result.cell, x)
        [] q.op \in {"add", "sub", "mul", "div", "mod"} ->
             Put(q.result.cell, Compute(q.op, x, y))
        [] q.op = "uminus" -> Put(q.result.cell, Compute("sub", 0, x))
        [] q.op = "jump" -> [w EXCEPT !.pc = q.label]
        [] q.op = "param" -> [next EXCEPT !.args = Append(@, x)]
        [] q.op = "call" -> [Call(next, x, Reverse(w.args)) EXCEPT !.args = <<>>]
        [] q.op = "getretval" -> Put(q.result.cell, w.mem["retval"])
        [] q.op = "ret" -> Put("retval", Of(w, q.result))
        [] q.op = "tablecreate" ->
             [NewTable(next) EXCEPT !.mem[q.arg1.cell] = LastTable(NewTable(w))]
        [] q.op = "tablegetelem" -> Put(q.result.cell, GetElem(w, x, y))
        [] q.op = "tablesetelem" -> SetElem(next, Of(w, q.result), y, x)
        [] OTHER -> IF Holds(q.op, x, y) THEN [w EXCEPT !.pc = q.label] ELSE next

\* The world after running the quads qs from their start, all jumps being
\* forward ones.
Run(w, qs) ==
  FoldLeft(LAMBDA v, i : IF v.pc = i - 1 THEN Execute(v, qs[i]) ELSE v,
           [w EXCEPT !.pc = 0], [i \in DOMAIN qs |-> i])
=============================================================================
