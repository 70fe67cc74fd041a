--------------------------- MODULE TargetCodeProofs ---------------------------
(* For every program, whatever its quads and functions: the arrays of the      *)
(* target code hold what they should, every constant is entered into its table *)
(* once, and code generation implements Translation, that is, each quad gets    *)
(* an instruction of the same meaning, which later entries never change.  What *)
(* is written is read back as it was, and functions are jumped past.           *)
EXTENDS TargetCode, SequenceTheorems, TLAPS

-----------------------------------------------------------------------------
(* Array lists *)

\* Inserting appends the element, and there was room for it or is now.
LEMMA Insert ==
  ASSUME NEW S, NEW a \in ArrayList(S), Fits(a), NEW x \in S
  PROVE  /\ insert_arraylist(a, x) \in ArrayList(S)
         /\ Fits(insert_arraylist(a, x))
         /\ insert_arraylist(a, x).element = Append(a.element, x)
<1> DEFINE room == IF Len(a.element) >= a.max_size THEN resize_arraylist(a) ELSE a
           b == [room EXCEPT !.element = Append(@, x)]
<1>1. ExpandSize \in Nat /\ ExpandSize > 0
  BY ExpandAssumption
<1>2. a.element \in Seq(S) /\ a.max_size \in Nat /\ Len(a.element) <= a.max_size
  BY DEF ArrayList, Fits
<1>3. room \in ArrayList(S) /\ room.element = a.element /\ room.max_size > Len(a.element)
  BY <1>1, <1>2 DEF ArrayList, resize_arraylist
<1>4. b \in ArrayList(S) /\ b.element = Append(a.element, x) /\ b.max_size = room.max_size
  <2> HIDE DEF room
  <2>1. Append(a.element, x) \in Seq(S)
    BY <1>2
  <2>2. \A c \in ArrayList(S) : \A y :
          c.max_size \in Nat /\ [c EXCEPT !.element = y] = [element |-> y, max_size |-> c.max_size]
    BY DEF ArrayList
  <2>3. room.max_size \in Nat /\ b = [element |-> Append(a.element, x), max_size |-> room.max_size]
    BY <1>3, <2>2
  <2> QED BY <2>1, <2>3 DEF ArrayList
<1>5. Len(b.element) = Len(a.element) + 1
  BY <1>2, <1>4
<1>6. insert_arraylist(a, x) = b
  BY DEF insert_arraylist
<1>7. Fits(b)
  <2>1. room.max_size \in Nat /\ Len(a.element) \in Nat
    BY <1>2, <1>3 DEF ArrayList
  <2> QED BY <2>1, <1>3, <1>4, <1>5 DEF Fits
<1> QED BY <1>4, <1>6, <1>7

\* The least of a set with one element is that element.
LEMMA MinOfOne ==
  ASSUME NEW M \in SUBSET Int, M # {}, \A i, j \in M : i = j
  PROVE  Min(M) \in M
<1>1. PICK i \in M : TRUE
  OBVIOUS
<1>2. \A j \in M : i <= j
  BY <1>1
<1> QED BY <1>1, <1>2 DEF Min

\* A constant that is looked for in a table without duplicates is in it
\* afterwards, under the number that is returned, and all else is as it was.
LEMMA Enter ==
  ASSUME NEW a \in ArrayList(Int), Fits(a), IsInjective(a.element), NEW x \in Int
  PROVE  LET b == Entered(a, Same(a, x), x)
             n == NumberIn(a, Same(a, x))
         IN  /\ b \in ArrayList(Int) /\ Fits(b) /\ IsInjective(b.element)
             /\ n \in Nat /\ n + 1 \in DOMAIN b.element /\ b.element[n + 1] = x
             /\ Len(a.element) <= Len(b.element)
             /\ \A i \in DOMAIN a.element : b.element[i] = a.element[i]
             /\ \A i \in DOMAIN b.element : i \in DOMAIN a.element \/ i = n + 1
<1> DEFINE M == Same(a, x)
           b == Entered(a, M, x)
           n == NumberIn(a, M)
<1>1. a.element \in Seq(Int)
  BY DEF ArrayList
<1>2. M \in SUBSET Int /\ M \subseteq DOMAIN a.element /\ \A i \in M : a.element[i] = x
  BY <1>1 DEF Same
<1>3. \A i, j \in M : i = j
  BY <1>2 DEF IsInjective
<1>4. CASE M = {}
  <2>1. b = insert_arraylist(a, x) /\ n = Len(a.element)
    BY <1>4 DEF Entered, NumberIn
  <2>2. /\ b \in ArrayList(Int) /\ Fits(b)
        /\ b.element = Append(a.element, x)
    BY <2>1, Insert
  <2>3. \A i \in DOMAIN a.element : a.element[i] # x
    BY <1>4 DEF Same
  <2>4. /\ Len(b.element) = Len(a.element) + 1 /\ b.element[n + 1] = x
        /\ DOMAIN b.element = 1..(Len(a.element) + 1)
        /\ DOMAIN a.element = 1..Len(a.element)
        /\ \A i \in DOMAIN a.element : b.element[i] = a.element[i]
    BY <1>1, <2>1, <2>2
  <2>5. Len(a.element) \in Nat
    BY <1>1
  <2>6. IsInjective(b.element)
    <3> SUFFICES ASSUME NEW i \in DOMAIN b.element, NEW j \in DOMAIN b.element,
                        b.element[i] = b.element[j]
                 PROVE  i = j
      BY DEF IsInjective
    <3>1. \A k \in DOMAIN b.element : k \in DOMAIN a.element \/ k = n + 1
      BY <2>1, <2>4, <2>5
    <3>2. CASE i \in DOMAIN a.element /\ j \in DOMAIN a.element
      BY <2>4, <3>2 DEF IsInjective
    <3>3. CASE i = n + 1 /\ j \in DOMAIN a.element
      BY <2>3, <2>4, <3>3
    <3>4. CASE i \in DOMAIN a.element /\ j = n + 1
      BY <2>3, <2>4, <3>4
    <3> QED BY <3>1, <3>2, <3>3, <3>4
  <2> QED BY <2>1, <2>2, <2>4, <2>5, <2>6
<1>5. CASE M # {}
  <2>1. b = a /\ n = Min(M) - 1
    BY <1>5 DEF Entered, NumberIn
  <2>2. Min(M) \in M
    BY <1>2, <1>3, <1>5, MinOfOne
  <2>3. Min(M) \in 1..Len(a.element) /\ DOMAIN a.element = 1..Len(a.element)
        /\ Len(a.element) \in Nat
    BY <1>1, <1>2, <2>2
  <2>4. n \in Nat /\ n + 1 = Min(M)
    BY <2>1, <2>3
  <2> QED BY <1>2, <2>1, <2>2, <2>3, <2>4
<1> QED BY <1>4, <1>5
-----------------------------------------------------------------------------
(* Tables and operands *)

\* What the numbers of operands stand for, once the tables are T
ConstantsOf(T) ==
  [strings |-> T.strings.element, numbers |-> T.numbers.element,
   libfuncs |-> T.libfuncs.element,
   userfuncs |-> [i \in DOMAIN T.userfuncs.element |-> funcs[T.userfuncs.element[i]]]]

\* Tables without duplicates, of functions that there are
Good(T) ==
  /\ T \in [TableNames -> ArrayList(Int)]
  /\ \A t \in TableNames : Fits(T[t]) /\ IsInjective(T[t].element)
  /\ \A i \in DOMAIN T.userfuncs.element : T.userfuncs.element[i] \in DOMAIN funcs

\* U has the entries of T, under the numbers they have there.
Extends(T, U) ==
  \A t \in TableNames :
    /\ Len(T[t].element) <= Len(U[t].element)
    /\ \A i \in DOMAIN T[t].element : U[t].element[i] = T[t].element[i]

TableOf(kind) == CASE kind = "string" -> "strings" [] kind = "number" -> "numbers"
                   [] kind = "libfunc" -> "libfuncs" [] kind = "userfunc" -> "userfuncs"
Kinds == {"string", "number", "libfunc", "userfunc"}

\* Operand a has an entry in T, if it needs one.
InRange(T, a) ==
  a.type \in Kinds => a.val + 1 \in DOMAIN T[TableOf(a.type)].element

\* The entries of U that T does not have are those of the operands in A.
NewIn(T, U, A) ==
  \A kind \in Kinds : \A i \in DOMAIN U[TableOf(kind)].element :
    i \in DOMAIN T[TableOf(kind)].element \/ Arg(kind, i - 1) \in A

\* No two functions have one address.
FuncsApart ==
  \A f, g \in DOMAIN funcs : funcs[f].taddress = funcs[g].taddress => f = g

\* An expression that an operand can be made of
Known(e) == /\ e \in Expr \union {NULL}
            /\ ~OperandFails(e)
            /\ e.type = "program_func" => e.value \in DOMAIN funcs

\* Name and address together tell functions apart as their numbers would.
LEMMA SameFunction ==
  ASSUME FuncsApart, NEW T, Good(T), NEW f \in DOMAIN funcs
  PROVE  userfuncs_newfunc(T.userfuncs, f) = Same(T.userfuncs, f)
BY DEF userfuncs_newfunc, Same, Good, FuncsApart

\* If only table t changes, to b, which has the entries of T[t] and one more at
\* most, under number n, then what is good of T is so of the tables after that.
LEMMA OneTable ==
  ASSUME NEW T, Good(T), NEW kind \in Kinds, NEW x \in Int,
         kind = "userfunc" => x \in DOMAIN funcs
  PROVE  LET t == TableOf(kind)
             b == Entered(T[t], Same(T[t], x), x)
             n == NumberIn(T[t], Same(T[t], x))
             U == [T EXCEPT ![t] = b]
         IN  /\ Good(U) /\ Extends(T, U) /\ n \in Nat
             /\ n + 1 \in DOMAIN U[t].element /\ U[t].element[n + 1] = x
             /\ NewIn(T, U, {Arg(kind, n)})
<1> DEFINE t == TableOf(kind)
           b == Entered(T[t], Same(T[t], x), x)
           n == NumberIn(T[t], Same(T[t], x))
           U == [T EXCEPT ![t] = b]
<1>1. t \in TableNames /\ T[t] \in ArrayList(Int) /\ Fits(T[t]) /\ IsInjective(T[t].element)
  BY DEF Good, Kinds, TableOf, TableNames
<1>2. /\ b \in ArrayList(Int) /\ Fits(b) /\ IsInjective(b.element)
      /\ n \in Nat /\ n + 1 \in DOMAIN b.element /\ b.element[n + 1] = x
      /\ Len(T[t].element) <= Len(b.element)
      /\ \A i \in DOMAIN T[t].element : b.element[i] = T[t].element[i]
      /\ \A i \in DOMAIN b.element : i \in DOMAIN T[t].element \/ i = n + 1
  BY <1>1, Enter
<1>3. U \in [TableNames -> ArrayList(Int)] /\ U[t] = b
      /\ \A u \in TableNames : u # t => U[u] = T[u]
  BY <1>1, <1>2 DEF Good
<1>4. Good(U)
  <2>1. \A u \in TableNames : Fits(U[u]) /\ IsInjective(U[u].element)
    BY <1>2, <1>3 DEF Good
  <2>2. \A i \in DOMAIN U.userfuncs.element : U.userfuncs.element[i] \in DOMAIN funcs
    <3>1. CASE t = "userfuncs"
      <4>1. x \in DOMAIN funcs
        BY <3>1 DEF TableOf, Kinds
      <4>2. U.userfuncs = b /\ T.userfuncs = T[t]
        BY <1>3, <3>1
      <4> QED BY <1>2, <4>1, <4>2 DEF Good
    <3>2. CASE t # "userfuncs"
      BY <1>3, <3>2 DEF Good, TableNames
    <3> QED BY <3>1, <3>2
  <2> QED BY <1>3, <2>1, <2>2 DEF Good
<1>5. Extends(T, U)
  <2> SUFFICES ASSUME NEW u \in TableNames
               PROVE  /\ Len(T[u].element) <= Len(U[u].element)
                      /\ \A i \in DOMAIN T[u].element : U[u].element[i] = T[u].element[i]
    BY DEF Extends
  <2>1. CASE u = t
    BY <1>2, <1>3, <2>1
  <2>2. CASE u # t
    <3>1. T[u].element \in Seq(Int) /\ U[u] = T[u]
      BY <1>3, <2>2 DEF Good, ArrayList
    <3> QED BY <3>1
  <2> QED BY <2>1, <2>2
<1>6. NewIn(T, U, {Arg(kind, n)})
  <2> SUFFICES ASSUME NEW k \in Kinds, NEW i \in DOMAIN U[TableOf(k)].element,
                      i \notin DOMAIN T[TableOf(k)].element
               PROVE  Arg(k, i - 1) = Arg(kind, n)
    BY DEF NewIn
  <2>1. TableOf(k) \in TableNames
    BY DEF Kinds, TableOf, TableNames
  <2>2. TableOf(k) = t
    BY <1>3, <2>1
  <2>3. k = kind
    BY <2>2 DEF Kinds, TableOf
  <2>4. i = n + 1
    BY <1>2, <1>3, <2>2
  <2> QED BY <1>2, <2>3, <2>4
<1> QED BY <1>2, <1>3, <1>4, <1>5, <1>6

\* The kinds of operands there are
LEMMA KindsOfOperands ==
  ToSet(VMarg_type) = {"label", "global", "formal", "local", "number", "string",
                       "bool", "nil", "userfunc", "libfunc", "retval", "undefined"}
BY DEF ToSet, VMarg_type

\* The parts of an operand
LEMMA ArgTyped ==
  ASSUME NEW k \in ToSet(VMarg_type), NEW v \in Int
  PROVE  Arg(k, v) \in VMarg /\ Arg(k, v).type = k /\ Arg(k, v).val = v
BY DEF Arg, VMarg

\* An operand that needs no table leaves the tables as they are.
LEMMA PlainOperand ==
  ASSUME NEW T, Good(T), NEW a \in VMarg, a.type \notin Kinds
  PROVE  /\ Extends(T, T) /\ InRange(T, a) /\ NewIn(T, T, {a})
         /\ Denoted(ConstantsOf(T), a) = Meant(a.type, a.val)
<1>1. \A t \in TableNames : T[t].element \in Seq(Int)
  BY DEF Good, ArrayList
<1>2. Extends(T, T)
  BY <1>1 DEF Extends
<1> QED BY <1>2 DEF InRange, NewIn, Denoted, Kinds

\* An operand is the number of the expression's value in the tables after it,
\* and means there what the expression means.
LEMMA OperandMade ==
  ASSUME FuncsApart, NEW T, Good(T), NEW e, Known(e)
  PROVE  LET a == make_operand(T, e)
             U == TablesAfter(T, e)
         IN  /\ a \in VMarg /\ Good(U) /\ Extends(T, U) /\ InRange(U, a)
             /\ NewIn(T, U, {a})
             /\ Denoted(ConstantsOf(U), a) = MeaningOf(e)
<1> DEFINE a == make_operand(T, e)
           U == TablesAfter(T, e)
           x == e.value
           In(kind) == /\ U = [T EXCEPT ![TableOf(kind)] =
                                 Entered(T[TableOf(kind)], Same(T[TableOf(kind)], x), x)]
                       /\ a = Arg(kind, NumberIn(T[TableOf(kind)], Same(T[TableOf(kind)], x)))
<1>1. x \in Int /\ e.type \in ExprType \union {"NULL"}
  <2>1. CASE e \in Expr
    BY <2>1 DEF Expr
  <2>2. CASE e = NULL
    <3>1. NULL.value = 0 /\ NULL.type = "NULL"
      BY DEF NULL
    <3>2. e.value = 0 /\ e.type = "NULL"
      BY <2>2, <3>1
    <3> QED BY <3>2
  <2>3. e \in Expr \/ e = NULL
    BY DEF Known
  <2> QED BY <2>1, <2>2, <2>3
<1>2. ASSUME NEW kind \in Kinds, In(kind), kind = "userfunc" => x \in DOMAIN funcs
      PROVE  /\ a \in VMarg /\ Good(U) /\ Extends(T, U) /\ InRange(U, a)
             /\ NewIn(T, U, {a})
             /\ a.type = kind /\ a.val + 1 \in DOMAIN U[TableOf(kind)].element
             /\ U[TableOf(kind)].element[a.val + 1] = x
  <2> DEFINE n == NumberIn(T[TableOf(kind)], Same(T[TableOf(kind)], x))
             V == [T EXCEPT ![TableOf(kind)] =
                     Entered(T[TableOf(kind)], Same(T[TableOf(kind)], x), x)]
  <2>0. /\ Good(V) /\ Extends(T, V) /\ n \in Nat
        /\ n + 1 \in DOMAIN V[TableOf(kind)].element
        /\ V[TableOf(kind)].element[n + 1] = x
        /\ NewIn(T, V, {Arg(kind, n)})
    <3>1. x \in Int
      BY <1>1
    <3>2. kind = "userfunc" => x \in DOMAIN funcs
      BY <1>2
    <3> HIDE DEF a, U, x
    <3> QED BY <3>1, <3>2, OneTable
  <2>1. /\ Good(U) /\ Extends(T, U) /\ n \in Nat
        /\ n + 1 \in DOMAIN U[TableOf(kind)].element
        /\ U[TableOf(kind)].element[n + 1] = x
        /\ NewIn(T, U, {Arg(kind, n)})
    <3>1. U = V
      BY <1>2
    <3> HIDE DEF U, V, n
    <3> QED BY <2>0, <3>1
  <2>2. kind \in ToSet(VMarg_type)
    BY KindsOfOperands DEF Kinds
  <2>3. a = Arg(kind, n) /\ a \in VMarg /\ a.type = kind /\ a.val = n
    BY <1>2, <2>1, <2>2, ArgTyped
  <2> QED BY <2>1, <2>3 DEF InRange
<1>3. ASSUME U = T, a \in VMarg, a.type \notin Kinds, MeaningOf(e) = Meant(a.type, a.val)
      PROVE  /\ a \in VMarg /\ Good(U) /\ Extends(T, U) /\ InRange(U, a)
             /\ NewIn(T, U, {a})
             /\ Denoted(ConstantsOf(U), a) = MeaningOf(e)
  BY <1>3, PlainOperand
<1>4. CASE e.type = "const_string"
  <2>1. In("string")
    BY <1>4 DEF make_operand, TablesAfter, TableOf, Stored
  <2>2. Denoted(ConstantsOf(U), a) = Meant("string", U.strings.element[a.val + 1])
    BY <1>2, <2>1 DEF Denoted, ConstantsOf, Kinds
  <2>3. MeaningOf(e) = Meant("string", x)
    BY <1>4 DEF MeaningOf, Stored
  <2> QED BY <1>2, <2>1, <2>2, <2>3 DEF Kinds, TableOf
<1>5. CASE e.type = "const_num"
  <2>1. In("number")
    BY <1>5 DEF make_operand, TablesAfter, TableOf, Stored
  <2>2. Denoted(ConstantsOf(U), a) = Meant("number", U.numbers.element[a.val + 1])
    BY <1>2, <2>1 DEF Denoted, ConstantsOf, Kinds
  <2>3. MeaningOf(e) = Meant("number", x)
    BY <1>5 DEF MeaningOf, Stored
  <2> QED BY <1>2, <2>1, <2>2, <2>3 DEF Kinds, TableOf
<1>6. CASE e.type = "library_func"
  <2>1. In("libfunc")
    BY <1>6 DEF make_operand, TablesAfter, TableOf, Stored
  <2>2. Denoted(ConstantsOf(U), a) = Meant("libfunc", U.libfuncs.element[a.val + 1])
    BY <1>2, <2>1 DEF Denoted, ConstantsOf, Kinds
  <2>3. MeaningOf(e) = Meant("libfunc", x)
    BY <1>6 DEF MeaningOf, Stored
  <2> QED BY <1>2, <2>1, <2>2, <2>3 DEF Kinds, TableOf
<1>7. CASE e.type = "program_func"
  <2>1. x \in DOMAIN funcs
    BY <1>7 DEF Known
  <2>2. userfuncs_newfunc(T.userfuncs, x) = Same(T.userfuncs, x)
    BY <2>1, SameFunction
  <2>3. In("userfunc")
    BY <1>7, <2>2 DEF make_operand, TablesAfter, TableOf, Stored
  <2>4. a.type = "userfunc" /\ a.val + 1 \in DOMAIN U.userfuncs.element
        /\ U.userfuncs.element[a.val + 1] = x
    BY <1>2, <2>1, <2>3 DEF Kinds, TableOf
  <2>5. Denoted(ConstantsOf(U), a) = MeantFunction(ConstantsOf(U).userfuncs[a.val + 1])
    BY <2>4 DEF Denoted
  <2>6. ConstantsOf(U).userfuncs[a.val + 1] = funcs[x]
    BY <2>4 DEF ConstantsOf
  <2>7. MeaningOf(e) = MeantFunction(funcs[x])
    BY <1>7 DEF MeaningOf, Stored
  <2> QED BY <1>2, <2>1, <2>3, <2>5, <2>6, <2>7 DEF Kinds
<1>8. CASE e.type = "NULL"
  <2>1. U = T /\ a = Arg("undefined", 0) /\ MeaningOf(e) = Meant("undefined", 0)
    BY <1>8 DEF make_operand, TablesAfter, MeaningOf, Stored, reset_operand
  <2>2. "undefined" \in ToSet(VMarg_type)
    BY KindsOfOperands
  <2> QED BY <1>3, <2>1, <2>2, ArgTyped DEF Kinds
<1>9. CASE e.type = "const_bool"
  <2>1. U = T /\ a = Arg("bool", x) /\ MeaningOf(e) = Meant("bool", x)
    BY <1>9 DEF make_operand, TablesAfter, MeaningOf, Stored
  <2>2. "bool" \in ToSet(VMarg_type)
    BY KindsOfOperands
  <2> QED BY <1>1, <1>3, <2>1, <2>2, ArgTyped DEF Kinds
<1>10. CASE e.type = "nil"
  <2>1. U = T /\ a = Arg("nil", 0) /\ MeaningOf(e) = Meant("nil", 0)
    BY <1>10 DEF make_operand, TablesAfter, MeaningOf, Stored
  <2>2. "nil" \in ToSet(VMarg_type)
    BY KindsOfOperands
  <2> QED BY <1>3, <2>1, <2>2, ArgTyped DEF Kinds
<1>11. CASE e.type \in Stored
  <2>1. SpaceOf(e) \in Space
    BY <1>11 DEF Known, OperandFails
  <2>2. VMspace(SpaceOf(e)) \in {"global", "local", "formal"}
    BY <2>1 DEF Space, VMspace
  <2>3. U = T /\ a = Arg(VMspace(SpaceOf(e)), x)
        /\ MeaningOf(e) = Meant(VMspace(SpaceOf(e)), x)
    BY <1>11 DEF make_operand, TablesAfter, MeaningOf, Stored, Known
  <2>4. VMspace(SpaceOf(e)) \in ToSet(VMarg_type)
    BY <2>2, KindsOfOperands
  <2> QED BY <1>1, <1>3, <2>2, <2>3, <2>4, ArgTyped DEF Kinds
<1> QED
  BY <1>1, <1>4, <1>5, <1>6, <1>7, <1>8, <1>9, <1>10, <1>11 DEF ExprType, Stored
-----------------------------------------------------------------------------
(* Instructions *)

\* The opcodes of quads, in the order of enum Opcode
LEMMA OpcodesAre ==
  Opcodes = {"assign", "add", "sub", "mul", "div", "mod", "uminus",
             "if_eq", "if_noteq", "if_lesseq", "if_greatereq", "if_less",
             "if_greater", "jump", "call", "param", "ret", "getretval",
             "funcstart", "funcend", "tablecreate", "tablegetelem",
             "tablesetelem"}
<1>1. Opcode \in Seq({Opcode[i] : i \in 1..26}) /\ Len(Opcode) = 26
  <2>1. Len(Opcode) = 26 /\ DOMAIN Opcode = 1..26
    BY DEF Opcode
  <2>3. Opcode = [i \in 1..26 |-> Opcode[i]]
    BY <2>1 DEF Opcode
  <2>4. Opcode \in [1..26 -> {Opcode[i] : i \in 1..26}]
    BY <2>3
  <2> QED BY <2>1, <2>4, SeqDef
<1>2. SubSeq(Opcode, 1, 23) = [i \in 1..23 |-> Opcode[i]]
  BY <1>1
<1>3. Opcodes = {Opcode[i] : i \in 1..23}
  BY <1>2 DEF Opcodes, ToSet
<1> QED BY <1>3 DEF Opcode

\* The opcodes of branches, from if_eq to if_greater
LEMMA RelationalAre ==
  Relational = {"if_eq", "if_noteq", "if_lesseq", "if_greatereq", "if_less",
                "if_greater"}
<1>1. VMopcode \in Seq({VMopcode[i] : i \in 1..21}) /\ Len(VMopcode) = 21
  <2>1. Len(VMopcode) = 21 /\ DOMAIN VMopcode = 1..21
    BY DEF VMopcode
  <2>3. VMopcode = [i \in 1..21 |-> VMopcode[i]]
    BY <2>1 DEF VMopcode
  <2>4. VMopcode \in [1..21 -> {VMopcode[i] : i \in 1..21}]
    BY <2>3
  <2> QED BY <2>1, <2>4, SeqDef
<1>2. SubSeq(VMopcode, 7, 12) = [i \in 1..6 |-> VMopcode[i + 6]]
  BY <1>1
<1>3. Relational = {VMopcode[i + 6] : i \in 1..6}
  BY <1>2 DEF Relational, ToSet
<1> QED BY <1>3 DEF VMopcode

\* The opcodes of instructions
LEMMA InstructionsAre ==
  ToSet(VMopcode) =
    {"assign", "add", "sub", "mul", "div", "mod", "if_eq", "if_noteq",
     "if_lesseq", "if_greatereq", "if_less", "if_greater", "jump", "call",
     "pusharg", "enterfunc", "funcend", "tablecreate", "tablegetelem",
     "tablesetelem", "nop"}
BY DEF ToSet, VMopcode

\* Each opcode finds its own generator in the table.
LEMMA OwnGenerator ==
  ASSUME NEW q, q.op \in Opcodes
  PROVE  GeneratorOf(q) = q.op
<1>1. PICK k \in 1..23 : Opcode[k] = q.op
  BY OpcodesAre DEF Opcode
<1>2. DOMAIN Opcode = 1..26 /\ \A i, j \in 1..26 : Opcode[i] = Opcode[j] => i = j
  BY DEF Opcode
<1>3. (CHOOSE i \in DOMAIN Opcode : Opcode[i] = q.op) = k
  BY <1>1, <1>2
<1>4. \A i \in 1..23 : generators[i] = Opcode[i]
  BY DEF generators, Opcode
<1> QED BY <1>1, <1>3, <1>4 DEF GeneratorOf

\* What is denoted stays what it is when tables get more entries.
LEMMA Keeps ==
  ASSUME NEW T, Good(T), NEW U, Good(U), Extends(T, U), NEW a \in VMarg, InRange(T, a)
  PROVE  InRange(U, a) /\ Denoted(ConstantsOf(U), a) = Denoted(ConstantsOf(T), a)
<1>1. CASE a.type \in Kinds
  <2> DEFINE t == TableOf(a.type)
             n == a.val + 1
  <2>1. t \in TableNames /\ n \in DOMAIN T[t].element
    BY <1>1 DEF Kinds, TableOf, TableNames, InRange
  <2>2. T[t].element \in Seq(Int) /\ U[t].element \in Seq(Int)
    BY <2>1 DEF Good, ArrayList
  <2>3. Len(T[t].element) <= Len(U[t].element) /\ U[t].element[n] = T[t].element[n]
    BY <2>1 DEF Extends
  <2>4. n \in DOMAIN U[t].element
    BY <2>1, <2>2, <2>3
  <2>5. InRange(U, a)
    BY <2>4 DEF InRange
  <2>6. Denoted(ConstantsOf(U), a) = Denoted(ConstantsOf(T), a)
    <3>1. CASE a.type = "string"
      BY <2>3, <3>1 DEF TableOf, Denoted, ConstantsOf
    <3>2. CASE a.type = "number"
      BY <2>3, <3>2 DEF TableOf, Denoted, ConstantsOf
    <3>3. CASE a.type = "libfunc"
      BY <2>3, <3>3 DEF TableOf, Denoted, ConstantsOf
    <3>4. CASE a.type = "userfunc"
      <4>1. t = "userfuncs"
        BY <3>4 DEF TableOf
      <4>2. ConstantsOf(U).userfuncs[n] = ConstantsOf(T).userfuncs[n]
        BY <2>1, <2>3, <2>4, <4>1 DEF ConstantsOf
      <4> QED BY <3>4, <4>2 DEF Denoted
    <3> QED BY <1>1, <3>1, <3>2, <3>3, <3>4 DEF Kinds
  <2> QED BY <2>5, <2>6
<1>2. CASE a.type \notin Kinds
  BY <1>2, PlainOperand
<1> QED BY <1>1, <1>2

\* More entries, and then more again
LEMMA ExtendsOn ==
  ASSUME NEW T, Good(T), NEW U, Good(U), NEW V, Good(V), Extends(T, U), Extends(U, V)
  PROVE  Extends(T, V)
<1> SUFFICES ASSUME NEW t \in TableNames
             PROVE  /\ Len(T[t].element) <= Len(V[t].element)
                    /\ \A i \in DOMAIN T[t].element : V[t].element[i] = T[t].element[i]
  BY DEF Extends
<1>1. T[t].element \in Seq(Int) /\ U[t].element \in Seq(Int) /\ V[t].element \in Seq(Int)
  BY DEF Good, ArrayList
<1>2. /\ Len(T[t].element) <= Len(U[t].element) /\ Len(U[t].element) <= Len(V[t].element)
      /\ \A i \in DOMAIN T[t].element : U[t].element[i] = T[t].element[i]
      /\ \A i \in DOMAIN U[t].element : V[t].element[i] = U[t].element[i]
  BY DEF Extends
<1>3. \A i \in DOMAIN T[t].element : i \in DOMAIN U[t].element
  BY <1>1, <1>2
<1>4. \A i \in DOMAIN T[t].element : V[t].element[i] = T[t].element[i]
  BY <1>2, <1>3
<1>5. Len(T[t].element) <= Len(V[t].element)
  <2>1. Len(T[t].element) \in Nat /\ Len(U[t].element) \in Nat /\ Len(V[t].element) \in Nat
    BY <1>1
  <2>2. \A i, j, k \in Nat : i <= j /\ j <= k => i <= k
    OBVIOUS
  <2>3. Len(T[t].element) <= Len(U[t].element) /\ Len(U[t].element) <= Len(V[t].element)
    BY <1>2
  <2> QED BY <2>1, <2>2, <2>3
<1> QED BY <1>4, <1>5

\* New entries, and then more new entries
LEMMA NewInOn ==
  ASSUME NEW T, NEW U, NEW V, NEW A, NEW B, NewIn(T, U, A), NewIn(U, V, B)
  PROVE  NewIn(T, V, A \union B)
BY DEF NewIn

\* Operands that need no table may be forgotten.
LEMMA NewInLess ==
  ASSUME NEW T, NEW U, NEW A, NEW B, NewIn(T, U, A),
         \A a \in A : a \in B \/ a.type \notin Kinds
  PROVE  NewIn(T, U, B)
BY DEF NewIn, Arg

\* Three operands are made one after the other; entries that are made for one
\* change nothing about those before.
LEMMA ThreeOperands ==
  ASSUME FuncsApart, NEW T, Good(T), NEW x, Known(x), NEW y, Known(y), NEW z, Known(z)
  PROVE  LET T1 == TablesAfter(T, x)
             T2 == TablesAfter(T1, y)
             U == TablesAfter(T2, z)
             a == make_operand(T, x)
             b == make_operand(T1, y)
             c == make_operand(T2, z)
         IN  /\ a \in VMarg /\ b \in VMarg /\ c \in VMarg
             /\ Good(U) /\ Extends(T, U)
             /\ InRange(U, a) /\ InRange(U, b) /\ InRange(U, c)
             /\ Denoted(ConstantsOf(U), a) = MeaningOf(x)
             /\ Denoted(ConstantsOf(U), b) = MeaningOf(y)
             /\ Denoted(ConstantsOf(U), c) = MeaningOf(z)
             /\ NewIn(T, U, {a, b, c})
<1> DEFINE T1 == TablesAfter(T, x)
           T2 == TablesAfter(T1, y)
           U == TablesAfter(T2, z)
           a == make_operand(T, x)
           b == make_operand(T1, y)
           c == make_operand(T2, z)
<1>1. /\ a \in VMarg /\ Good(T1) /\ Extends(T, T1) /\ InRange(T1, a)
      /\ NewIn(T, T1, {a}) /\ Denoted(ConstantsOf(T1), a) = MeaningOf(x)
  BY OperandMade
<1> HIDE DEF T1, a
<1>2. /\ b \in VMarg /\ Good(T2) /\ Extends(T1, T2) /\ InRange(T2, b)
      /\ NewIn(T1, T2, {b}) /\ Denoted(ConstantsOf(T2), b) = MeaningOf(y)
  BY <1>1, OperandMade
<1> HIDE DEF T2, b
<1>3. /\ c \in VMarg /\ Good(U) /\ Extends(T2, U) /\ InRange(U, c)
      /\ NewIn(T2, U, {c}) /\ Denoted(ConstantsOf(U), c) = MeaningOf(z)
  BY <1>2, OperandMade
<1> HIDE DEF U, c
<1>4. Extends(T1, U) /\ Extends(T, U)
  <2>1. Extends(T1, U)
    BY <1>1, <1>2, <1>3, ExtendsOn
  <2> QED BY <1>1, <1>3, <2>1, ExtendsOn
<1>5. InRange(U, a) /\ Denoted(ConstantsOf(U), a) = MeaningOf(x)
  BY <1>1, <1>3, <1>4, Keeps
<1>6. InRange(U, b) /\ Denoted(ConstantsOf(U), b) = MeaningOf(y)
  BY <1>2, <1>3, Keeps
<1>7. NewIn(T, U, {a, b, c})
  <2>1. NewIn(T, T2, {a} \union {b})
    BY <1>1, <1>2, NewInOn
  <2>2. NewIn(T, U, ({a} \union {b}) \union {c})
    BY <1>3, <2>1, NewInOn
  <2>3. ({a} \union {b}) \union {c} = {a, b, c}
    OBVIOUS
  <2> QED BY <2>2, <2>3
<1> QED BY <1>1, <1>2, <1>3, <1>4, <1>5, <1>6, <1>7 DEF T1, T2, U, a, b, c
\* The instruction of a quad means what the quad means; its operands are in the
\* tables, whose new entries are all its own.
LEMMA Generated ==
  ASSUME FuncsApart, NEW T, Good(T), NEW q \in Quad,
         \A i \in 1..3 : Known(Operands(GeneratorOf(q), q)[i])
  PROVE  LET U == After(T, Operands(GeneratorOf(q), q))
             t == generate(T, q)
         IN  /\ t \in Instruction /\ Good(U) /\ Extends(T, U)
             /\ InRange(U, t.result) /\ InRange(U, t.arg1) /\ InRange(U, t.arg2)
             /\ CodeMeaning(ConstantsOf(U), t) = QuadMeaning(q)
             /\ NewIn(T, U, {t.result, t.arg1, t.arg2})
<1> DEFINE g == GeneratorOf(q)
           o == Operands(g, q)
           T1 == TablesAfter(T, o[1])
           T2 == TablesAfter(T1, o[2])
           U == TablesAfter(T2, o[3])
           a == make_operand(T, o[1])
           b == make_operand(T1, o[2])
           c == make_operand(T2, o[3])
           p == Placed(g, q, a, b, c)
           t == generate(T, q)
           C == ConstantsOf(U)
           Plain == {"assign", "add", "sub", "mul", "div", "mod", "tablecreate",
                     "tablegetelem", "tablesetelem"}
           Done == /\ t \in Instruction
                   /\ InRange(U, t.result) /\ InRange(U, t.arg1) /\ InRange(U, t.arg2)
                   /\ CodeMeaning(C, t) = QuadMeaning(q)
                   /\ NewIn(T, U, {t.result, t.arg1, t.arg2})
<1>1. g = q.op /\ q.op \in Opcodes /\ q.label \in Nat /\ q.line \in Nat
  BY OwnGenerator DEF Quad
<1>2. /\ a \in VMarg /\ b \in VMarg /\ c \in VMarg
      /\ Good(U) /\ Extends(T, U)
      /\ InRange(U, a) /\ InRange(U, b) /\ InRange(U, c)
      /\ Denoted(C, a) = MeaningOf(o[1])
      /\ Denoted(C, b) = MeaningOf(o[2])
      /\ Denoted(C, c) = MeaningOf(o[3])
      /\ NewIn(T, U, {a, b, c})
  <2>1. Known(o[1]) /\ Known(o[2]) /\ Known(o[3])
    OBVIOUS
  <2> HIDE DEF o
  <2> QED BY <2>1, ThreeOperands
<1>3. U = After(T, o)
  BY DEF After
<1>4. t = [opcode |-> OpcodeOf(g), result |-> p.result, arg1 |-> p.arg1,
           arg2 |-> p.arg2, srcLine |-> q.line]
  BY DEF generate
<1>5. /\ o[1] = NULL => a = reset_operand
      /\ o[2] = NULL => b = reset_operand
      /\ o[3] = NULL => c = reset_operand
  <2>1. \A V : make_operand(V, NULL) = reset_operand
    <3>1. NULL.type = "NULL"
      BY DEF NULL
    <3> QED BY <3>1 DEF make_operand, Stored
  <2> QED BY <2>1
<1>6. /\ \A n \in Int : Arg("label", n) \in VMarg /\ Arg("label", n).type = "label"
                        /\ Arg("label", n).val = n
      /\ reset_operand \in VMarg /\ reset_operand.type = "undefined"
      /\ reset_operand.val = 0
      /\ make_retvaloperand \in VMarg /\ make_retvaloperand.type = "retval"
      /\ make_retvaloperand.val = 0
  BY KindsOfOperands, ArgTyped DEF reset_operand, make_retvaloperand
<1>7. ASSUME NEW r \in VMarg, r.type \notin Kinds
      PROVE  InRange(U, r) /\ Denoted(C, r) = Meant(r.type, r.val)
  BY <1>2, <1>7, PlainOperand
<1>8. Arg("label", q.label) \in VMarg /\ Arg("label", q.label).type = "label"
      /\ Arg("label", q.label).val = q.label /\ InRange(U, Arg("label", q.label))
      /\ Denoted(C, Arg("label", q.label)) = Meant("label", q.label)
  BY <1>1, <1>6, <1>7 DEF Kinds
<1>9. /\ InRange(U, reset_operand) /\ Denoted(C, reset_operand) = Meant("undefined", 0)
      /\ InRange(U, make_retvaloperand)
      /\ Denoted(C, make_retvaloperand) = Meant("retval", 0)
  BY <1>6, <1>7 DEF Kinds
\* It is enough to look at where the operands go.
<1>10. ASSUME NEW x, NEW y, NEW z, NEW op \in ToSet(VMopcode),
              p = [result |-> x, arg1 |-> y, arg2 |-> z], OpcodeOf(g) = op,
              \A r \in {x, y, z} : r \in VMarg /\ InRange(U, r),
              \A r \in {a, b, c} : r \in {x, y, z} \/ r = reset_operand,
              QuadMeaning(q) = [opcode |-> op, result |-> Denoted(C, x),
                                arg1 |-> Denoted(C, y), arg2 |-> Denoted(C, z),
                                line |-> q.line]
       PROVE  Done
  <2> HIDE DEF t, p, a, b, c, C, U, g
  <2>1. t = [opcode |-> op, result |-> x, arg1 |-> y, arg2 |-> z, srcLine |-> q.line]
    BY <1>4, <1>10
  <2>2. t \in Instruction
    BY <1>1, <1>10, <2>1 DEF Instruction
  <2>3. CodeMeaning(C, t) = QuadMeaning(q)
    BY <1>10, <2>1 DEF CodeMeaning
  <2>4. \A r \in {a, b, c} : r \in {x, y, z} \/ r.type \notin Kinds
    BY <1>6, <1>10 DEF Kinds
  <2>5. NewIn(T, U, {x, y, z})
    BY <1>2, <2>4, NewInLess
  <2> QED BY <1>10, <2>1, <2>2, <2>3, <2>5
<1>11. ASSUME q.op = "jump"
       PROVE  Done
  <2>1. o = <<NULL, NULL, NULL>> /\ OpcodeOf(g) = "jump"
    BY <1>1, <1>11, RelationalAre DEF Operands, OpcodeOf, Renamed
  <2>2. a = reset_operand /\ b = reset_operand /\ c = reset_operand
    BY <1>5, <2>1
  <2>3. p = [result |-> Arg("label", q.label), arg1 |-> a, arg2 |-> b]
    BY <1>1, <1>11, RelationalAre DEF Placed
  <2>4. QuadMeaning(q) = [opcode |-> "jump", result |-> Meant("label", q.label),
          arg1 |-> Meant("undefined", 0), arg2 |-> Meant("undefined", 0), line |-> q.line]
    BY <1>11, RelationalAre DEF QuadMeaning
  <2>5. "jump" \in ToSet(VMopcode)
    BY InstructionsAre
  <2>7. o[1] = NULL /\ o[2] = NULL /\ o[3] = NULL
    BY <2>1
  <2> HIDE DEF Done, t, p, a, b, c, C, U, T1, T2, g, o
  <2>8. QuadMeaning(q) = [opcode |-> "jump", result |-> Denoted(C, Arg("label", q.label)),
          arg1 |-> Denoted(C, a), arg2 |-> Denoted(C, b), line |-> q.line]
    BY <1>2, <1>8, <1>9, <2>1, <2>2, <2>4, <2>7
  <2>9. \A r \in {Arg("label", q.label), a, b} : r \in VMarg /\ InRange(U, r)
    BY <1>2, <1>6, <1>8, <1>9
  <2>10. \A r \in {a, b, c} : r \in {Arg("label", q.label), a, b} \/ r = reset_operand
    BY <2>2
  <2> QED BY <1>10, <2>1, <2>3, <2>5, <2>8, <2>9, <2>10
<1>12. ASSUME q.op \in Relational
       PROVE  Done
  <2>1. o = <<q.arg1, q.arg2, NULL>> /\ OpcodeOf(g) = q.op
    BY <1>1, <1>12, RelationalAre DEF Operands, OpcodeOf, Renamed
  <2>2. c = reset_operand
    BY <1>5, <2>1
  <2>3. p = [result |-> Arg("label", q.label), arg1 |-> a, arg2 |-> b]
    BY <1>1, <1>12, RelationalAre DEF Placed
  <2>4. QuadMeaning(q) = [opcode |-> q.op, result |-> Meant("label", q.label),
          arg1 |-> MeaningOf(q.arg1), arg2 |-> MeaningOf(q.arg2), line |-> q.line]
    BY <1>12, RelationalAre DEF QuadMeaning
  <2>5. q.op \in ToSet(VMopcode)
    BY <1>12, InstructionsAre, RelationalAre
  <2>7. o[1] = q.arg1 /\ o[2] = q.arg2 /\ o[3] = NULL
    BY <2>1
  <2> HIDE DEF Done, t, p, a, b, c, C, U, T1, T2, g, o
  <2>8. QuadMeaning(q) = [opcode |-> q.op, result |-> Denoted(C, Arg("label", q.label)),
          arg1 |-> Denoted(C, a), arg2 |-> Denoted(C, b), line |-> q.line]
    BY <1>2, <1>8, <1>9, <2>1, <2>2, <2>4, <2>7
  <2>9. \A r \in {Arg("label", q.label), a, b} : r \in VMarg /\ InRange(U, r)
    BY <1>2, <1>6, <1>8, <1>9
  <2>10. \A r \in {a, b, c} : r \in {Arg("label", q.label), a, b} \/ r = reset_operand
    BY <2>2
  <2> QED BY <1>10, <2>1, <2>3, <2>5, <2>8, <2>9, <2>10
<1>13. ASSUME q.op = "call"
       PROVE  Done
  <2>1. o = <<q.arg1, NULL, NULL>> /\ OpcodeOf(g) = "call"
    BY <1>1, <1>13, RelationalAre DEF Operands, OpcodeOf, Renamed
  <2>2. b = reset_operand /\ c = reset_operand
    BY <1>5, <2>1
  <2>3. p = [result |-> c, arg1 |-> a, arg2 |-> b]
    BY <1>1, <1>13, RelationalAre DEF Placed
  <2>4. QuadMeaning(q) = [opcode |-> "call", result |-> Meant("undefined", 0),
          arg1 |-> MeaningOf(q.arg1), arg2 |-> Meant("undefined", 0), line |-> q.line]
    BY <1>13, RelationalAre DEF QuadMeaning
  <2>5. "call" \in ToSet(VMopcode)
    BY InstructionsAre
  <2>7. o[1] = q.arg1 /\ o[2] = NULL /\ o[3] = NULL
    BY <2>1
  <2> HIDE DEF Done, t, p, a, b, c, C, U, T1, T2, g, o
  <2>8. QuadMeaning(q) = [opcode |-> "call", result |-> Denoted(C, c),
          arg1 |-> Denoted(C, a), arg2 |-> Denoted(C, b), line |-> q.line]
    BY <1>2, <1>8, <1>9, <2>1, <2>2, <2>4, <2>7
  <2>9. \A r \in {c, a, b} : r \in VMarg /\ InRange(U, r)
    BY <1>2, <1>6, <1>8, <1>9
  <2>10. \A r \in {a, b, c} : r \in {c, a, b} \/ r = reset_operand
    BY <2>2
  <2> QED BY <1>10, <2>1, <2>3, <2>5, <2>8, <2>9, <2>10
<1>14. ASSUME q.op = "param"
       PROVE  Done
  <2>1. o = <<q.arg1, NULL, NULL>> /\ OpcodeOf(g) = "pusharg"
    BY <1>1, <1>14, RelationalAre DEF Operands, OpcodeOf, Renamed
  <2>2. b = reset_operand /\ c = reset_operand
    BY <1>5, <2>1
  <2>3. p = [result |-> c, arg1 |-> a, arg2 |-> b]
    BY <1>1, <1>14, RelationalAre DEF Placed
  <2>4. QuadMeaning(q) = [opcode |-> "pusharg", result |-> Meant("undefined", 0),
          arg1 |-> MeaningOf(q.arg1), arg2 |-> Meant("undefined", 0), line |-> q.line]
    BY <1>14, RelationalAre DEF QuadMeaning
  <2>5. "pusharg" \in ToSet(VMopcode)
    BY InstructionsAre
  <2>7. o[1] = q.arg1 /\ o[2] = NULL /\ o[3] = NULL
    BY <2>1
  <2> HIDE DEF Done, t, p, a, b, c, C, U, T1, T2, g, o
  <2>8. QuadMeaning(q) = [opcode |-> "pusharg", result |-> Denoted(C, c),
          arg1 |-> Denoted(C, a), arg2 |-> Denoted(C, b), line |-> q.line]
    BY <1>2, <1>8, <1>9, <2>1, <2>2, <2>4, <2>7
  <2>9. \A r \in {c, a, b} : r \in VMarg /\ InRange(U, r)
    BY <1>2, <1>6, <1>8, <1>9
  <2>10. \A r \in {a, b, c} : r \in {c, a, b} \/ r = reset_operand
    BY <2>2
  <2> QED BY <1>10, <2>1, <2>3, <2>5, <2>8, <2>9, <2>10
<1>15. ASSUME q.op = "funcstart"
       PROVE  Done
  <2>1. o = <<q.arg1, NULL, NULL>> /\ OpcodeOf(g) = "enterfunc"
    BY <1>1, <1>15, RelationalAre DEF Operands, OpcodeOf, Renamed
  <2>2. b = reset_operand /\ c = reset_operand
    BY <1>5, <2>1
  <2>3. p = [result |-> a, arg1 |-> reset_operand, arg2 |-> reset_operand]
    BY <1>1, <1>15, RelationalAre DEF Placed
  <2>4. QuadMeaning(q) = [opcode |-> "enterfunc", result |-> MeaningOf(q.arg1),
          arg1 |-> Meant("undefined", 0), arg2 |-> Meant("undefined", 0), line |-> q.line]
    BY <1>15, RelationalAre DEF QuadMeaning
  <2>5. "enterfunc" \in ToSet(VMopcode)
    BY InstructionsAre
  <2>7. o[1] = q.arg1 /\ o[2] = NULL /\ o[3] = NULL
    BY <2>1
  <2> HIDE DEF Done, t, p, a, b, c, C, U, T1, T2, g, o
  <2>8. QuadMeaning(q) = [opcode |-> "enterfunc", result |-> Denoted(C, a),
          arg1 |-> Denoted(C, reset_operand), arg2 |-> Denoted(C, reset_operand), line |-> q.line]
    BY <1>2, <1>8, <1>9, <2>1, <2>2, <2>4, <2>7
  <2>9. \A r \in {a, reset_operand, reset_operand} : r \in VMarg /\ InRange(U, r)
    BY <1>2, <1>6, <1>8, <1>9
  <2>10. \A r \in {a, b, c} : r \in {a, reset_operand, reset_operand} \/ r = reset_operand
    BY <2>2
  <2> QED BY <1>10, <2>1, <2>3, <2>5, <2>8, <2>9, <2>10
<1>16. ASSUME q.op = "funcend"
       PROVE  Done
  <2>1. o = <<q.arg1, NULL, NULL>> /\ OpcodeOf(g) = "funcend"
    BY <1>1, <1>16, RelationalAre DEF Operands, OpcodeOf, Renamed
  <2>2. b = reset_operand /\ c = reset_operand
    BY <1>5, <2>1
  <2>3. p = [result |-> a, arg1 |-> reset_operand, arg2 |-> reset_operand]
    BY <1>1, <1>16, RelationalAre DEF Placed
  <2>4. QuadMeaning(q) = [opcode |-> "funcend", result |-> MeaningOf(q.arg1),
          arg1 |-> Meant("undefined", 0), arg2 |-> Meant("undefined", 0), line |-> q.line]
    BY <1>16, RelationalAre DEF QuadMeaning
  <2>5. "funcend" \in ToSet(VMopcode)
    BY InstructionsAre
  <2>7. o[1] = q.arg1 /\ o[2] = NULL /\ o[3] = NULL
    BY <2>1
  <2> HIDE DEF Done, t, p, a, b, c, C, U, T1, T2, g, o
  <2>8. QuadMeaning(q) = [opcode |-> "funcend", result |-> Denoted(C, a),
          arg1 |-> Denoted(C, reset_operand), arg2 |-> Denoted(C, reset_operand), line |-> q.line]
    BY <1>2, <1>8, <1>9, <2>1, <2>2, <2>4, <2>7
  <2>9. \A r \in {a, reset_operand, reset_operand} : r \in VMarg /\ InRange(U, r)
    BY <1>2, <1>6, <1>8, <1>9
  <2>10. \A r \in {a, b, c} : r \in {a, reset_operand, reset_operand} \/ r = reset_operand
    BY <2>2
  <2> QED BY <1>10, <2>1, <2>3, <2>5, <2>8, <2>9, <2>10
<1>17. ASSUME q.op = "ret"
       PROVE  Done
  <2>1. o = <<q.result, NULL, NULL>> /\ OpcodeOf(g) = "assign"
    BY <1>1, <1>17, RelationalAre DEF Operands, OpcodeOf, Renamed
  <2>2. b = reset_operand /\ c = reset_operand
    BY <1>5, <2>1
  <2>3. p = [result |-> make_retvaloperand, arg1 |-> a, arg2 |-> reset_operand]
    BY <1>1, <1>17, RelationalAre DEF Placed
  <2>4. QuadMeaning(q) = [opcode |-> "assign", result |-> Meant("retval", 0),
          arg1 |-> MeaningOf(q.result), arg2 |-> Meant("undefined", 0), line |-> q.line]
    BY <1>17, RelationalAre DEF QuadMeaning
  <2>5. "assign" \in ToSet(VMopcode)
    BY InstructionsAre
  <2>7. o[1] = q.result /\ o[2] = NULL /\ o[3] = NULL
    BY <2>1
  <2> HIDE DEF Done, t, p, a, b, c, C, U, T1, T2, g, o
  <2>8. QuadMeaning(q) = [opcode |-> "assign", result |-> Denoted(C, make_retvaloperand),
          arg1 |-> Denoted(C, a), arg2 |-> Denoted(C, reset_operand), line |-> q.line]
    BY <1>2, <1>8, <1>9, <2>1, <2>2, <2>4, <2>7
  <2>9. \A r \in {make_retvaloperand, a, reset_operand} : r \in VMarg /\ InRange(U, r)
    BY <1>2, <1>6, <1>8, <1>9
  <2>10. \A r \in {a, b, c} : r \in {make_retvaloperand, a, reset_operand} \/ r = reset_operand
    BY <2>2
  <2> QED BY <1>10, <2>1, <2>3, <2>5, <2>8, <2>9, <2>10
<1>18. ASSUME q.op = "getretval"
       PROVE  Done
  <2>1. o = <<q.result, NULL, NULL>> /\ OpcodeOf(g) = "assign"
    BY <1>1, <1>18, RelationalAre DEF Operands, OpcodeOf, Renamed
  <2>2. b = reset_operand /\ c = reset_operand
    BY <1>5, <2>1
  <2>3. p = [result |-> a, arg1 |-> make_retvaloperand, arg2 |-> reset_operand]
    BY <1>1, <1>18, RelationalAre DEF Placed
  <2>4. QuadMeaning(q) = [opcode |-> "assign", result |-> MeaningOf(q.result),
          arg1 |-> Meant("retval", 0), arg2 |-> Meant("undefined", 0), line |-> q.line]
    BY <1>18, RelationalAre DEF QuadMeaning
  <2>5. "assign" \in ToSet(VMopcode)
    BY InstructionsAre
  <2>7. o[1] = q.result /\ o[2] = NULL /\ o[3] = NULL
    BY <2>1
  <2> HIDE DEF Done, t, p, a, b, c, C, U, T1, T2, g, o
  <2>8. QuadMeaning(q) = [opcode |-> "assign", result |-> Denoted(C, a),
          arg1 |-> Denoted(C, make_retvaloperand), arg2 |-> Denoted(C, reset_operand), line |-> q.line]
    BY <1>2, <1>8, <1>9, <2>1, <2>2, <2>4, <2>7
  <2>9. \A r \in {a, make_retvaloperand, reset_operand} : r \in VMarg /\ InRange(U, r)
    BY <1>2, <1>6, <1>8, <1>9
  <2>10. \A r \in {a, b, c} : r \in {a, make_retvaloperand, reset_operand} \/ r = reset_operand
    BY <2>2
  <2> QED BY <1>10, <2>1, <2>3, <2>5, <2>8, <2>9, <2>10
<1>19. ASSUME q.op = "uminus"
       PROVE  Done
  <2>1. o = <<q.arg1, create_numeric_expr(-1), q.result>> /\ OpcodeOf(g) = "mul"
    BY <1>1, <1>19, RelationalAre DEF Operands, OpcodeOf, Renamed
  <2>3. p = [result |-> c, arg1 |-> a, arg2 |-> b]
    BY <1>1, <1>19, RelationalAre DEF Placed
  <2>4. QuadMeaning(q) = [opcode |-> "mul", result |-> MeaningOf(q.result),
          arg1 |-> MeaningOf(q.arg1), arg2 |-> Meant("number", -1), line |-> q.line]
    BY <1>19, RelationalAre DEF QuadMeaning
  <2>5. "mul" \in ToSet(VMopcode)
    BY InstructionsAre
  <2>6. MeaningOf(create_numeric_expr(-1)) = Meant("number", -1)
    <3>1. create_numeric_expr(-1).type = "const_num" /\ create_numeric_expr(-1).value = -1
      BY DEF create_numeric_expr
    <3> QED BY <3>1 DEF MeaningOf, Stored
  <2>7. o[1] = q.arg1 /\ o[2] = create_numeric_expr(-1) /\ o[3] = q.result
    BY <2>1
  <2> HIDE DEF Done, t, p, a, b, c, C, U, T1, T2, g, o
  <2>8. QuadMeaning(q) = [opcode |-> "mul", result |-> Denoted(C, c),
          arg1 |-> Denoted(C, a), arg2 |-> Denoted(C, b), line |-> q.line]
    BY <1>2, <1>8, <1>9, <2>1, <2>4, <2>6, <2>7
  <2>9. \A r \in {c, a, b} : r \in VMarg /\ InRange(U, r)
    BY <1>2, <1>6, <1>8, <1>9
  <2>10. \A r \in {a, b, c} : r \in {c, a, b} \/ r = reset_operand
    OBVIOUS
  <2> QED BY <1>10, <2>1, <2>3, <2>5, <2>8, <2>9, <2>10
<1>20. ASSUME q.op \in Plain
       PROVE  Done
  <2>1. o = <<q.arg1, q.arg2, q.result>> /\ OpcodeOf(g) = q.op
    BY <1>1, <1>20, RelationalAre DEF Operands, OpcodeOf, Renamed
  <2>3. p = [result |-> c, arg1 |-> a, arg2 |-> b]
    BY <1>1, <1>20, RelationalAre DEF Placed
  <2>4. QuadMeaning(q) = [opcode |-> q.op, result |-> MeaningOf(q.result),
          arg1 |-> MeaningOf(q.arg1), arg2 |-> MeaningOf(q.arg2), line |-> q.line]
    BY <1>20, RelationalAre DEF QuadMeaning
  <2>5. q.op \in ToSet(VMopcode)
    BY <1>20, InstructionsAre, RelationalAre
  <2>7. o[1] = q.arg1 /\ o[2] = q.arg2 /\ o[3] = q.result
    BY <2>1
  <2> HIDE DEF Done, t, p, a, b, c, C, U, T1, T2, g, o
  <2>8. QuadMeaning(q) = [opcode |-> q.op, result |-> Denoted(C, c),
          arg1 |-> Denoted(C, a), arg2 |-> Denoted(C, b), line |-> q.line]
    BY <1>2, <1>8, <1>9, <2>1, <2>4, <2>7
  <2>9. \A r \in {c, a, b} : r \in VMarg /\ InRange(U, r)
    BY <1>2, <1>6, <1>8, <1>9
  <2>10. \A r \in {a, b, c} : r \in {c, a, b} \/ r = reset_operand
    OBVIOUS
  <2> QED BY <1>10, <2>1, <2>3, <2>5, <2>8, <2>9, <2>10
<1>21. Done
  <2> HIDE DEF Done, g
  <2> QED BY <1>1, <1>11, <1>12, <1>13, <1>14, <1>15, <1>16, <1>17, <1>18, <1>19, <1>20,
             OpcodesAre, RelationalAre
<1>22. Good(U) /\ Extends(T, U)
  BY <1>2
<1> HIDE DEF U, t
<1> QED BY <1>3, <1>21, <1>22 DEF t
-----------------------------------------------------------------------------
(* The inductive invariant                                                     *)

\* A function's address is the number of a quad there is, above those of the
\* functions that began before it.
FuncsInOrder ==
  /\ \A f \in DOMAIN funcs : funcs[f].taddress < curr_quad
  /\ \A f, g \in DOMAIN funcs : f < g => funcs[f].taddress < funcs[g].taddress

\* The functions among the operands of q are in F.
FunctionsIn(q, F) ==
  \A e \in {q.result, q.arg1, q.arg2} : e.type = "program_func" => e.value \in F

QuadsKnown == \A i \in DOMAIN quads.element : FunctionsIn(quads.element[i], DOMAIN funcs)

\* The tables are good and have all that instructions refer to; there are no
\* instructions before parsing is over.
TablesServe ==
  /\ Good(tables)
  /\ \A c \in DOMAIN instructions.element :
       LET t == instructions.element[c]
       IN  InRange(tables, t.result) /\ InRange(tables, t.arg1) /\ InRange(tables, t.arg2)
  /\ phase = "parse" => instructions.element = <<>>

Inductive == TypeOK /\ FuncsInOrder /\ QuadsKnown /\ TablesServe /\ EntriesUsedOnce

\* In order, addresses are apart.
LEMMA Apart ==
  ASSUME TypeOK, FuncsInOrder
  PROVE  FuncsApart
<1> SUFFICES ASSUME NEW f \in DOMAIN funcs, NEW g \in DOMAIN funcs,
                    funcs[f].taddress = funcs[g].taddress
             PROVE  f = g
  BY DEF FuncsApart
<1>0. funcs \in Seq(SymbolTableEntry)
  BY DEF TypeOK
<1>1. f \in Nat /\ g \in Nat /\ funcs[f].taddress \in Nat /\ funcs[g].taddress \in Nat
  <2>1. f \in 1..Len(funcs) /\ g \in 1..Len(funcs)
    BY <1>0
  <2>2. /\ funcs[f] \in SymbolTableEntry
        /\ funcs[g] \in SymbolTableEntry
    BY <1>0, <2>1, ElementOfSeq
  <2> QED BY <2>1, <2>2 DEF SymbolTableEntry
<1>2. ~(f < g) /\ ~(g < f)
  BY <1>1 DEF FuncsInOrder
<1> QED BY <1>1, <1>2

\* A quad is appended to the array, for which there is room.
LEMMA Emitted ==
  ASSUME NEW t, t.op \in Opcodes,
         {t.result, t.arg1, t.arg2} \subseteq Expr \union {NULL},
         NEW label \in Nat, NEW line \in Nat, NEW qs \in ArrayList(Quad), Fits(qs)
  PROVE  /\ emit(qs, t, label, line) \in ArrayList(Quad)
         /\ Fits(emit(qs, t, label, line))
         /\ emit(qs, t, label, line).element = Append(qs.element, QuadOf(t, label, line))
<1>1. QuadOf(t, label, line) \in Quad
  BY DEF QuadOf, Quad
<1> QED BY <1>1, Insert DEF emit

\* The quads around a function: a jump has no operands, a bracket has the
\* function.
LEMMA Bracketing ==
  ASSUME NEW f \in Nat, NEW op \in {"funcstart", "funcend"}
  PROVE  /\ Jump.op \in Opcodes /\ {Jump.result, Jump.arg1, Jump.arg2} \subseteq Expr \union {NULL}
         /\ \A e \in {Jump.result, Jump.arg1, Jump.arg2} : e.type = "NULL"
         /\ LET t == Bracket(op, f)
            IN  /\ t.op \in Opcodes
                /\ {t.result, t.arg1, t.arg2} \subseteq Expr \union {NULL}
                /\ \A e \in {t.result, t.arg1, t.arg2} :
                     e.type = "program_func" => e.value = f
<1>1. lvalue_expr(f) \in Expr /\ lvalue_expr(f).value = f
  BY DEF lvalue_expr, Expr, ExprType
<1>2. NULL.type = "NULL"
  BY DEF NULL
<1>3. Jump.op \in Opcodes /\ op \in Opcodes
  BY OpcodesAre DEF Jump
<1>4. Jump.result = NULL /\ Jump.arg1 = NULL /\ Jump.arg2 = NULL
  BY DEF Jump
<1>5. Bracket(op, f).op = op /\ Bracket(op, f).result = NULL
      /\ Bracket(op, f).arg1 = lvalue_expr(f) /\ Bracket(op, f).arg2 = NULL
  BY DEF Bracket
<1> QED BY <1>1, <1>2, <1>3, <1>4, <1>5

\* Before anything is read, the invariant holds.
LEMMA AtFirst == Init => Inductive
<1> SUFFICES ASSUME Init
             PROVE  Inductive
  OBVIOUS
<1>1. \A S : create_arraylist \in ArrayList(S) /\ Fits(create_arraylist)
             /\ create_arraylist.element = <<>> /\ IsInjective(create_arraylist.element)
             /\ Len(create_arraylist.element) = 0 /\ DOMAIN create_arraylist.element = {}
  BY DEF create_arraylist, ArrayList, Fits, IsInjective
<1>2. DOMAIN tables = TableNames /\ \A t \in TableNames : tables[t] = create_arraylist
  <2>1. tables = [strings |-> create_arraylist, numbers |-> create_arraylist,
                  userfuncs |-> create_arraylist, libfuncs |-> create_arraylist]
    BY DEF Init
  <2>2. /\ tables["strings"] = create_arraylist /\ tables["numbers"] = create_arraylist
        /\ tables["userfuncs"] = create_arraylist /\ tables["libfuncs"] = create_arraylist
    BY <2>1
  <2>3. DOMAIN tables = TableNames
    BY <2>1 DEF TableNames
  <2> QED BY <2>2, <2>3 DEF TableNames
<1>3. tables \in [TableNames -> ArrayList(Int)]
  <2>1. tables = [t \in TableNames |-> tables[t]]
    <3>1. tables = [t \in DOMAIN tables |-> tables[t]]
      BY DEF Init
    <3> QED BY <1>2, <3>1
  <2> QED BY <1>1, <1>2, <2>1
<1>4. TypeOK
  <2>1. /\ quads = create_arraylist /\ instructions = create_arraylist
        /\ funcs = <<>> /\ open = <<>> /\ current_processed_quad = 0
    BY DEF Init
  <2>2. /\ quads \in ArrayList(Quad) /\ Fits(quads) /\ curr_quad = 0
        /\ instructions \in ArrayList(Instruction) /\ Fits(instructions)
        /\ Len(instructions.element) = 0
    <3>1. create_arraylist \in ArrayList(Quad) /\ create_arraylist \in ArrayList(Instruction)
      BY <1>1
    <3>2. Fits(create_arraylist) /\ Len(create_arraylist.element) = 0
      BY <1>1
    <3> QED BY <2>1, <3>1, <3>2 DEF curr_quad
  <2>3. \A t \in TableNames : Fits(tables[t])
    BY <1>1, <1>2
  <2>4. /\ funcs \in Seq(SymbolTableEntry)
        /\ open \in Seq(Nat) /\ \A i \in DOMAIN open : open[i] \in DOMAIN funcs
    BY <2>1
  <2>5. /\ phase \in {"parse", "generate", "done", "crashed"}
        /\ temp_space \in TempSpaces \union {""} /\ IR_GEN_FAILED \in BOOLEAN
    BY DEF Init
  <2>6. current_processed_quad = Len(instructions.element)
        /\ current_processed_quad <= curr_quad
    BY <2>1, <2>2
  <2> QED BY <1>3, <2>2, <2>3, <2>4, <2>5, <2>6 DEF TypeOK
<1>5. FuncsInOrder /\ QuadsKnown
  <2>1. DOMAIN funcs = {} /\ DOMAIN quads.element = {}
    <3>1. funcs = <<>> /\ quads = create_arraylist
      BY DEF Init
    <3> QED BY <1>1, <3>1
  <2> QED BY <2>1 DEF FuncsInOrder, QuadsKnown
<1>6. \A t \in TableNames : DOMAIN tables[t].element = {}
  BY <1>1, <1>2
<1>7. DOMAIN tables.userfuncs.element = {} /\ DOMAIN instructions.element = {}
  BY <1>1, <1>6 DEF TableNames, Init
<1>8. TablesServe
  BY <1>1, <1>2, <1>3, <1>7 DEF TablesServe, Good, Init
<1>9. EntriesUsedOnce
  BY <1>1, <1>2, <1>3, <1>6 DEF EntriesUsedOnce, TableNames
<1> QED BY <1>4, <1>5, <1>8, <1>9 DEF Inductive
-----------------------------------------------------------------------------
(* The parser's steps                                                          *)

\* What types say of the arrays, in parts
LEMMA Typed ==
  ASSUME TypeOK
  PROVE  /\ quads \in ArrayList(Quad) /\ Fits(quads) /\ quads.element \in Seq(Quad)
         /\ curr_quad = Len(quads.element) /\ curr_quad \in Nat
         /\ instructions \in ArrayList(Instruction) /\ Fits(instructions)
         /\ instructions.element \in Seq(Instruction)
         /\ current_processed_quad = Len(instructions.element)
         /\ current_processed_quad \in Nat /\ current_processed_quad <= curr_quad
         /\ DOMAIN funcs = 1..Len(funcs) /\ Len(funcs) \in Nat
         /\ \A f \in DOMAIN funcs : funcs[f] \in SymbolTableEntry /\ funcs[f].taddress \in Nat
         /\ open \in Seq(Nat) /\ \A i \in DOMAIN open : open[i] \in DOMAIN funcs
<1>1. /\ quads \in ArrayList(Quad) /\ Fits(quads)
      /\ instructions \in ArrayList(Instruction) /\ Fits(instructions)
      /\ current_processed_quad = Len(instructions.element)
      /\ current_processed_quad <= curr_quad
      /\ funcs \in Seq(SymbolTableEntry)
      /\ open \in Seq(Nat) /\ \A i \in DOMAIN open : open[i] \in DOMAIN funcs
  BY DEF TypeOK
<1>2. quads.element \in Seq(Quad) /\ instructions.element \in Seq(Instruction)
  BY <1>1 DEF ArrayList
<1>3. curr_quad = Len(quads.element) /\ curr_quad \in Nat
      /\ Len(instructions.element) \in Nat
  BY <1>2 DEF curr_quad
<1>4. DOMAIN funcs = 1..Len(funcs) /\ Len(funcs) \in Nat
  BY <1>1
<1>5. \A f \in DOMAIN funcs : funcs[f] \in SymbolTableEntry
  BY <1>1, <1>4, ElementOfSeq
<1> QED BY <1>1, <1>2, <1>3, <1>4, <1>5 DEF SymbolTableEntry

\* Where no tables and instructions change, they serve on.
LEMMA Unmoved ==
  ASSUME TablesServe, EntriesUsedOnce, UNCHANGED <<tables, instructions>>,
         phase' = "parse" => phase = "parse", DOMAIN funcs \subseteq DOMAIN funcs'
  PROVE  TablesServe' /\ EntriesUsedOnce'
<1>1. EntriesUsedOnce'
  BY DEF EntriesUsedOnce
<1>2. Good(tables)'
  <2>1. \A i \in DOMAIN tables.userfuncs.element :
          tables.userfuncs.element[i] \in DOMAIN funcs'
    BY DEF TablesServe, Good
  <2> QED BY <2>1 DEF TablesServe, Good
<1>3. TablesServe'
  BY <1>2 DEF TablesServe, InRange, TableOf
<1> QED BY <1>1, <1>3

\* A quad more, whose functions there are
LEMMA OneMore ==
  ASSUME NEW s \in Seq(Quad), NEW F, \A i \in DOMAIN s : FunctionsIn(s[i], F),
         NEW q \in Quad, FunctionsIn(q, F)
  PROVE  LET r == Append(s, q)
         IN  /\ Len(r) = Len(s) + 1
             /\ \A i \in DOMAIN r : FunctionsIn(r[i], F)
<1>1. Len(Append(s, q)) = Len(s) + 1 /\ Append(s, q)[Len(s) + 1] = q
  OBVIOUS
<1>2. \A i \in DOMAIN Append(s, q) :
        (i \in DOMAIN s /\ Append(s, q)[i] = s[i]) \/ i = Len(s) + 1
  OBVIOUS
<1> QED BY <1>1, <1>2

\* Only the label of a quad is patched.
LEMMA Patched ==
  ASSUME NEW qs \in ArrayList(Quad), Fits(qs), NEW n \in Int, NEW label \in Nat
  PROVE  LET ps == patch_label(qs, n, label)
         IN  /\ ps \in ArrayList(Quad) /\ Fits(ps)
             /\ Len(ps.element) = Len(qs.element)
             /\ DOMAIN ps.element = DOMAIN qs.element
             /\ \A i \in DOMAIN qs.element :
                  /\ ps.element[i].result = qs.element[i].result
                  /\ ps.element[i].arg1 = qs.element[i].arg1
                  /\ ps.element[i].arg2 = qs.element[i].arg2
                  /\ ps.element[i].op = qs.element[i].op
                  /\ ps.element[i].label = IF i = n + 1 THEN label ELSE qs.element[i].label
<1> DEFINE s == qs.element
           r == [s EXCEPT ![n + 1].label = label]
           ps == patch_label(qs, n, label)
<1>1. s \in Seq(Quad) /\ qs.max_size \in Nat /\ Len(s) <= qs.max_size
  BY DEF ArrayList, Fits
<1>2. ps = [qs EXCEPT !.element = r]
  BY DEF patch_label
<1>3. ps.element = r /\ ps.max_size = qs.max_size
  BY <1>2 DEF ArrayList
<1>4. \A q \in Quad : [q EXCEPT !.label = label] \in Quad
  BY DEF Quad
<1>5. r \in Seq(Quad) /\ Len(r) = Len(s) /\ DOMAIN r = DOMAIN s
  <2>1. DOMAIN r = DOMAIN s /\ DOMAIN s = 1..Len(s) /\ Len(s) \in Nat
    BY <1>1
  <2>2. \A i \in DOMAIN s : r[i] \in Quad
    BY <1>1, <1>4
  <2>3. r = [i \in 1..Len(s) |-> r[i]]
    BY <2>1
  <2> HIDE DEF r
  <2>4. r \in [1..Len(s) -> Quad]
    BY <2>1, <2>2, <2>3
  <2> QED BY <2>1, <2>4, SeqDef
<1>6. ASSUME NEW i \in DOMAIN s
      PROVE  /\ r[i].result = s[i].result /\ r[i].arg1 = s[i].arg1
             /\ r[i].arg2 = s[i].arg2 /\ r[i].op = s[i].op
             /\ r[i].label = IF i = n + 1 THEN label ELSE s[i].label
  <2>1. s[i] \in Quad
    BY <1>1
  <2>2. r[i] = IF i = n + 1 THEN [s[i] EXCEPT !.label = label] ELSE s[i]
    BY <1>1
  <2> QED BY <2>1, <2>2 DEF Quad
<1>7. ps \in ArrayList(Quad)
  <2>1. ps = [element |-> r, max_size |-> qs.max_size]
    BY <1>2 DEF ArrayList
  <2> HIDE DEF r, ps
  <2> QED BY <1>1, <1>5, <2>1 DEF ArrayList
<1> QED BY <1>1, <1>3, <1>5, <1>6, <1>7 DEF Fits

\* A statement emits a quad whose functions there are.
LEMMA StatementKeeps ==
  ASSUME Inductive, NEW t \in Templates, Statement(t)
  PROVE  Inductive'
<1>1. PICK label \in Labels(t) : quads' = emit(quads, t, label, curr_quad + 1)
  BY DEF Statement
<1>2. quads \in ArrayList(Quad) /\ Fits(quads) /\ curr_quad \in Nat
      /\ quads.element \in Seq(Quad) /\ curr_quad = Len(quads.element)
  BY Typed DEF Inductive
<1>3. label \in Nat /\ curr_quad + 1 \in Nat
  BY <1>2 DEF Labels
<1>4. t.op \in Opcodes /\ {t.result, t.arg1, t.arg2} \subseteq Expr \union {NULL}
  BY TemplatesAssumption
<1> DEFINE q == QuadOf(t, label, curr_quad + 1)
<1>5. quads' \in ArrayList(Quad) /\ Fits(quads')
      /\ quads'.element = Append(quads.element, q)
  BY <1>1, <1>2, <1>3, <1>4, Emitted DEF Inductive
<1>6. q \in Quad /\ FunctionsIn(q, DOMAIN funcs)
  <2>1. \A e \in {t.result, t.arg1, t.arg2} :
          e.type = "program_func" => e.value \in DOMAIN funcs
    BY DEF Statement
  <2> QED BY <1>3, <1>4, <2>1 DEF QuadOf, Quad, FunctionsIn
<1>7. UNCHANGED <<phase, funcs, open, IR_GEN_FAILED, tables, instructions,
                  current_processed_quad>>
  BY DEF Statement
<1>8. QuadsKnown' /\ curr_quad' = curr_quad + 1
  <2>1. \A i \in DOMAIN quads.element : FunctionsIn(quads.element[i], DOMAIN funcs)
    BY DEF Inductive, QuadsKnown
  <2> HIDE DEF q
  <2>2. /\ Len(quads'.element) = Len(quads.element) + 1
        /\ \A i \in DOMAIN quads'.element : FunctionsIn(quads'.element[i], DOMAIN funcs)
    BY <1>2, <1>5, <1>6, <2>1, OneMore
  <2>3. funcs' = funcs
    BY <1>7
  <2> QED BY <1>2, <2>2, <2>3 DEF QuadsKnown, curr_quad
<1>9. FuncsInOrder'
  <2>2. \A f \in DOMAIN funcs : funcs[f].taddress \in Nat
    BY Typed DEF Inductive
  <2>3. FuncsInOrder /\ funcs' = funcs
    BY <1>7 DEF Inductive
  <2> QED BY <1>2, <1>8, <2>2, <2>3 DEF FuncsInOrder
<1>10. TypeOK'
  <2>1. temp_space' \in TempSpaces \union {""}
    BY DEF Statement, Inductive, TypeOK
  <2>2. IR_GEN_FAILED' \in BOOLEAN
    BY <1>7 DEF Inductive, TypeOK
  <2>3. current_processed_quad' <= curr_quad'
    BY <1>2, <1>7, <1>8, Typed DEF Inductive
  <2> QED BY <1>5, <1>7, <2>1, <2>2, <2>3 DEF Inductive, TypeOK
<1>11. TablesServe' /\ EntriesUsedOnce'
  BY <1>7, Unmoved DEF Inductive
<1> QED BY <1>8, <1>9, <1>10, <1>11 DEF Inductive

\* A function comes with two quads, and its address is that of the second.
LEMMA StartMakes ==
  ASSUME Inductive, NEW n \in Names, FunctionStart(n)
  PROVE  LET f == Len(funcs) + 1
             F == 1..f
             q1 == QuadOf(Jump, 0, curr_quad + 1)
             q2 == QuadOf(Bracket("funcstart", f), 0, curr_quad + 2)
         IN  /\ quads' \in ArrayList(Quad) /\ Fits(quads')
             /\ quads'.element = Append(Append(quads.element, q1), q2)
             /\ q1 \in Quad /\ FunctionsIn(q1, F) /\ q2 \in Quad /\ FunctionsIn(q2, F)
             /\ DOMAIN funcs' = F /\ funcs' \in Seq(SymbolTableEntry) /\ f \in F
             /\ funcs'[f].taddress = curr_quad + 1
             /\ \A g \in DOMAIN funcs : g \in F /\ funcs'[g] = funcs[g]
             /\ open' = Append(open, f)
             /\ UNCHANGED <<phase, temp_space, IR_GEN_FAILED, tables, instructions,
                            current_processed_quad>>
<1> DEFINE f == Len(funcs) + 1
           F == 1..f
           q1 == QuadOf(Jump, 0, curr_quad + 1)
           q2 == QuadOf(Bracket("funcstart", f), 0, curr_quad + 2)
           jump == emit(quads, Jump, 0, curr_quad + 1)
<1>1. PICK left \in {0, 9} : function_prefix(n, left)
  BY DEF FunctionStart
<1> DEFINE e == [name |-> n, taddress |-> curr_quad + 1, offset |-> left]
<1>2. funcs' = Append(funcs, e) /\ open' = Append(open, f)
      /\ quads' = emit(jump, Bracket("funcstart", f), 0, curr_quad + 2)
  BY <1>1 DEF function_prefix
<1>3. /\ TypeOK /\ quads \in ArrayList(Quad) /\ Fits(quads)
      /\ quads.element \in Seq(Quad) /\ curr_quad \in Nat /\ curr_quad = Len(quads.element)
      /\ DOMAIN funcs = 1..Len(funcs) /\ Len(funcs) \in Nat
      /\ funcs \in Seq(SymbolTableEntry)
      /\ open \in Seq(Nat) /\ \A i \in DOMAIN open : open[i] \in DOMAIN funcs
      /\ \A g \in DOMAIN funcs : funcs[g].taddress \in Nat
  BY Typed DEF Inductive, TypeOK
<1>4. UNCHANGED <<phase, temp_space, IR_GEN_FAILED, tables, instructions,
                  current_processed_quad>>
  BY DEF FunctionStart
<1>5. /\ jump \in ArrayList(Quad) /\ Fits(jump) /\ jump.element = Append(quads.element, q1)
      /\ q1 \in Quad /\ FunctionsIn(q1, F)
  <2>1. Jump.op \in Opcodes /\ {Jump.result, Jump.arg1, Jump.arg2} \subseteq Expr \union {NULL}
        /\ \A x \in {Jump.result, Jump.arg1, Jump.arg2} : x.type = "NULL"
    BY <1>3, Bracketing
  <2>2. q1 \in Quad /\ FunctionsIn(q1, F)
    BY <1>3, <2>1 DEF QuadOf, Quad, FunctionsIn
  <2>3. curr_quad + 1 \in Nat /\ 0 \in Nat
    BY <1>3
  <2>4. quads \in ArrayList(Quad) /\ Fits(quads)
    BY <1>3
  <2> HIDE DEF F
  <2> QED BY <2>1, <2>2, <2>3, <2>4, Emitted
<1>6. /\ quads' \in ArrayList(Quad) /\ Fits(quads')
      /\ quads'.element = Append(Append(quads.element, q1), q2)
      /\ q2 \in Quad /\ FunctionsIn(q2, F)
  <2> DEFINE t == Bracket("funcstart", f)
  <2>1. /\ t.op \in Opcodes /\ {t.result, t.arg1, t.arg2} \subseteq Expr \union {NULL}
        /\ \A x \in {t.result, t.arg1, t.arg2} : x.type = "program_func" => x.value = f
    <3>1. f \in Nat
      BY <1>3
    <3> HIDE DEF f
    <3> QED BY <3>1, Bracketing
  <2>2. q2 \in Quad /\ FunctionsIn(q2, F)
    <3>1. f \in F
      BY <1>3
    <3> HIDE DEF F, t, f
    <3> QED BY <1>3, <2>1, <3>1 DEF QuadOf, Quad, FunctionsIn, t
  <2>3. curr_quad + 2 \in Nat /\ 0 \in Nat
    BY <1>3
  <2> HIDE DEF jump, t, q1
  <2>4. quads' = emit(jump, t, 0, curr_quad + 2)
    BY <1>2 DEF t
  <2>5. /\ quads' \in ArrayList(Quad) /\ Fits(quads')
        /\ quads'.element = Append(jump.element, QuadOf(t, 0, curr_quad + 2))
    <3>1. jump \in ArrayList(Quad) /\ Fits(jump)
      BY <1>5
    <3> QED BY <2>1, <2>3, <2>4, <3>1, Emitted
  <2>6. q2 = QuadOf(t, 0, curr_quad + 2)
    BY DEF t
  <2> HIDE DEF q2
  <2> QED BY <1>5, <2>2, <2>5, <2>6
<1>7. DOMAIN funcs' = F /\ funcs' \in Seq(SymbolTableEntry) /\ f \in F
      /\ funcs'[f].taddress = curr_quad + 1
      /\ \A g \in DOMAIN funcs : g \in F /\ funcs'[g] = funcs[g]
  <2>1. e \in SymbolTableEntry
    BY <1>3 DEF SymbolTableEntry
  <2>2. e.taddress = curr_quad + 1
    OBVIOUS
  <2> HIDE DEF e
  <2> QED BY <1>2, <1>3, <2>1, <2>2
<1> QED BY <1>2, <1>4, <1>5, <1>6, <1>7

\* The invariant covers the new function and its quads.
LEMMA FunctionStartKeeps ==
  ASSUME Inductive, NEW n \in Names, FunctionStart(n)
  PROVE  Inductive'
<1> DEFINE f == Len(funcs) + 1
           F == 1..f
           q1 == QuadOf(Jump, 0, curr_quad + 1)
           q2 == QuadOf(Bracket("funcstart", f), 0, curr_quad + 2)
<1>1. /\ quads' \in ArrayList(Quad) /\ Fits(quads')
      /\ quads'.element = Append(Append(quads.element, q1), q2)
      /\ q1 \in Quad /\ FunctionsIn(q1, F) /\ q2 \in Quad /\ FunctionsIn(q2, F)
      /\ DOMAIN funcs' = F /\ funcs' \in Seq(SymbolTableEntry) /\ f \in F
      /\ funcs'[f].taddress = curr_quad + 1
      /\ \A g \in DOMAIN funcs : g \in F /\ funcs'[g] = funcs[g]
      /\ open' = Append(open, f)
      /\ UNCHANGED <<phase, temp_space, IR_GEN_FAILED, tables, instructions,
              current_processed_quad>>
  BY StartMakes
<1>2. /\ TypeOK /\ quads \in ArrayList(Quad) /\ Fits(quads)
      /\ quads.element \in Seq(Quad) /\ curr_quad \in Nat /\ curr_quad = Len(quads.element)
      /\ DOMAIN funcs = 1..Len(funcs) /\ Len(funcs) \in Nat
      /\ funcs \in Seq(SymbolTableEntry)
      /\ open \in Seq(Nat) /\ \A i \in DOMAIN open : open[i] \in DOMAIN funcs
      /\ \A g \in DOMAIN funcs : funcs[g].taddress \in Nat
  BY Typed DEF Inductive, TypeOK
<1>3. QuadsKnown' /\ curr_quad' = curr_quad + 2
  <2>1. \A i \in DOMAIN quads.element : FunctionsIn(quads.element[i], F)
    <3>1. \A i \in DOMAIN quads.element : FunctionsIn(quads.element[i], DOMAIN funcs)
      BY DEF Inductive, QuadsKnown
    <3> QED BY <1>1, <3>1 DEF FunctionsIn
  <2> HIDE DEF q1, q2, F
  <2>2. /\ Len(Append(quads.element, q1)) = curr_quad + 1
        /\ Append(quads.element, q1) \in Seq(Quad)
        /\ \A i \in DOMAIN Append(quads.element, q1) :
             FunctionsIn(Append(quads.element, q1)[i], F)
    BY <1>2, <1>1, <2>1, OneMore
  <2> DEFINE s == Append(quads.element, q1)
  <2> HIDE DEF s
  <2>3. /\ Len(Append(s, q2)) = Len(s) + 1
        /\ \A i \in DOMAIN Append(s, q2) : FunctionsIn(Append(s, q2)[i], F)
    BY <1>1, <2>2, OneMore DEF s
  <2>4. quads'.element = Append(s, q2) /\ DOMAIN funcs' = F
    BY <1>1 DEF s
  <2>5. curr_quad' = curr_quad + 2
    BY <1>2, <2>2, <2>3, <2>4 DEF curr_quad, s
  <2> QED BY <2>3, <2>4, <2>5 DEF QuadsKnown
<1>4. FuncsInOrder'
  <2>1. /\ \A g \in DOMAIN funcs : funcs[g].taddress < curr_quad
        /\ \A g, h \in DOMAIN funcs : g < h => funcs[g].taddress < funcs[h].taddress
    BY DEF Inductive, FuncsInOrder
  <2>2. funcs'[f].taddress = curr_quad + 1
    BY <1>1
  <2>3. \A g \in DOMAIN funcs' : (g \in DOMAIN funcs /\ g < f) \/ g = f
    BY <1>2, <1>1
  <2>4. \A g \in DOMAIN funcs' : funcs'[g].taddress < curr_quad'
    BY <1>2, <1>1, <1>3, <2>1, <2>2, <2>3
  <2>5. ASSUME NEW g \in DOMAIN funcs', NEW h \in DOMAIN funcs', g < h
        PROVE  funcs'[g].taddress < funcs'[h].taddress
    <3>1. g \in DOMAIN funcs /\ g < f
      <4>1. g \in Nat /\ h \in Nat /\ f \in Nat /\ h <= f
        BY <1>2, <2>3
      <4>2. g # f
        BY <2>5, <4>1
      <4> QED BY <2>3, <4>2
    <3>2. CASE h \in DOMAIN funcs
      BY <1>1, <2>1, <2>5, <3>1, <3>2
    <3>3. CASE h = f
      BY <1>2, <1>1, <2>1, <2>2, <3>1, <3>3
    <3> QED BY <2>3, <3>2, <3>3
  <2> QED BY <2>4, <2>5 DEF FuncsInOrder
<1>5. TypeOK'
  <2>1. open' \in Seq(Nat) /\ \A i \in DOMAIN open' : open'[i] \in DOMAIN funcs'
    BY <1>1, <1>2
  <2>2. IR_GEN_FAILED' \in BOOLEAN
    BY <1>1 DEF Inductive, TypeOK
  <2>3. current_processed_quad' <= curr_quad'
    BY <1>2, <1>1, <1>3, Typed
  <2> HIDE DEF q1, q2, F, f
  <2> QED BY <1>1, <2>1, <2>2, <2>3 DEF Inductive, TypeOK
<1>6. TablesServe' /\ EntriesUsedOnce'
  <2>1. DOMAIN funcs \subseteq DOMAIN funcs'
    BY <1>1
  <2> QED BY <1>1, <2>1, Unmoved DEF Inductive
<1> QED BY <1>3, <1>4, <1>5, <1>6 DEF Inductive

\* A function that ends gets its size and a bracket, and the jump around it a
\* target.
LEMMA EndMakes ==
  ASSUME Inductive, NEW size \in 0..1, FunctionEnd(size)
  PROVE  LET f == Last(open)
             q == QuadOf(Bracket("funcend", f), 0, curr_quad + 1)
             s == Append(quads.element, q)
         IN  /\ f \in DOMAIN funcs /\ f \in Nat
             /\ quads' \in ArrayList(Quad) /\ Fits(quads')
             /\ Len(quads'.element) = Len(s) /\ DOMAIN quads'.element = DOMAIN s
             /\ \A i \in DOMAIN s :
                  /\ quads'.element[i].result = s[i].result
                  /\ quads'.element[i].arg1 = s[i].arg1
                  /\ quads'.element[i].arg2 = s[i].arg2
                  /\ quads'.element[i].op = s[i].op
                  /\ quads'.element[i].label =
                       IF i = funcs[f].taddress THEN curr_quad + 1 ELSE s[i].label
             /\ q \in Quad /\ FunctionsIn(q, DOMAIN funcs)
             /\ funcs' \in Seq(SymbolTableEntry) /\ DOMAIN funcs' = DOMAIN funcs
             /\ \A g \in DOMAIN funcs : funcs'[g].taddress = funcs[g].taddress
             /\ open' \in Seq(Nat) /\ Len(open') = Len(open) - 1 /\ Len(open) \in Nat
             /\ \A i \in 1..(Len(open) - 1) : open'[i] = open[i]
             /\ UNCHANGED <<phase, temp_space, IR_GEN_FAILED, tables, instructions,
                            current_processed_quad>>
<1> DEFINE f == Last(open)
           q == QuadOf(Bracket("funcend", f), 0, curr_quad + 1)
           s == Append(quads.element, q)
           F == DOMAIN funcs
           ended == emit(quads, Bracket("funcend", f), 0, curr_quad + 1)
<1>1. /\ funcs' = [funcs EXCEPT ![f].offset = size]
      /\ quads' = patch_label(ended, funcs[f].taddress - 1, curr_quad + 1)
      /\ open' = Front(open) /\ open # <<>>
  BY DEF FunctionEnd, function_definition
<1>2. /\ TypeOK /\ quads \in ArrayList(Quad) /\ Fits(quads)
      /\ quads.element \in Seq(Quad) /\ curr_quad \in Nat /\ curr_quad = Len(quads.element)
      /\ F = 1..Len(funcs) /\ Len(funcs) \in Nat
      /\ funcs \in Seq(SymbolTableEntry)
      /\ open \in Seq(Nat) /\ \A i \in DOMAIN open : open[i] \in F
      /\ \A g \in F : funcs[g] \in SymbolTableEntry /\ funcs[g].taddress \in Nat
  BY Typed DEF Inductive, TypeOK
<1>3. f \in F /\ f \in Nat
  <2>1. Len(open) \in Nat \ {0}
    BY <1>1, <1>2
  <2>2. Len(open) \in DOMAIN open
    BY <1>2, <2>1
  <2> QED BY <1>2, <2>2 DEF Last
<1>4. UNCHANGED <<phase, temp_space, IR_GEN_FAILED, tables, instructions,
                  current_processed_quad>>
  BY DEF FunctionEnd
<1>5. /\ ended \in ArrayList(Quad) /\ Fits(ended) /\ ended.element = Append(quads.element, q)
      /\ q \in Quad /\ FunctionsIn(q, F)
  <2> DEFINE t == Bracket("funcend", f)
  <2>1. /\ t.op \in Opcodes /\ {t.result, t.arg1, t.arg2} \subseteq Expr \union {NULL}
        /\ \A x \in {t.result, t.arg1, t.arg2} : x.type = "program_func" => x.value = f
    <3> HIDE DEF f
    <3> QED BY <1>3, Bracketing
  <2>2. q \in Quad /\ FunctionsIn(q, F)
    <3>1. curr_quad + 1 \in Nat /\ 0 \in Nat
      BY <1>2
    <3> HIDE DEF F, t, f
    <3>2. QuadOf(t, 0, curr_quad + 1) \in Quad
      BY <2>1, <3>1 DEF QuadOf, Quad
    <3>3. FunctionsIn(QuadOf(t, 0, curr_quad + 1), F)
      BY <1>3, <2>1 DEF QuadOf, FunctionsIn
    <3> QED BY <3>2, <3>3 DEF t
  <2>3. curr_quad + 1 \in Nat /\ 0 \in Nat
    BY <1>2
  <2> HIDE DEF t
  <2>4. /\ emit(quads, t, 0, curr_quad + 1) \in ArrayList(Quad)
        /\ Fits(emit(quads, t, 0, curr_quad + 1))
        /\ emit(quads, t, 0, curr_quad + 1).element
             = Append(quads.element, QuadOf(t, 0, curr_quad + 1))
    <3>1. quads \in ArrayList(Quad) /\ Fits(quads)
      BY <1>2
    <3> QED BY <2>1, <2>3, <3>1, Emitted
  <2> QED BY <2>2, <2>4 DEF t
<1>6. /\ quads' \in ArrayList(Quad) /\ Fits(quads')
      /\ Len(quads'.element) = Len(ended.element)
      /\ DOMAIN quads'.element = DOMAIN ended.element
      /\ \A i \in DOMAIN ended.element :
           /\ quads'.element[i].result = ended.element[i].result
           /\ quads'.element[i].arg1 = ended.element[i].arg1
           /\ quads'.element[i].arg2 = ended.element[i].arg2
           /\ quads'.element[i].op = ended.element[i].op
           /\ quads'.element[i].label =
                IF i = funcs[f].taddress THEN curr_quad + 1 ELSE ended.element[i].label
  <2>1. funcs[f].taddress - 1 \in Int /\ curr_quad + 1 \in Nat
    BY <1>2, <1>3
  <2>2. funcs[f].taddress - 1 + 1 = funcs[f].taddress
    BY <1>2, <1>3
  <2> DEFINE n == funcs[f].taddress - 1
             ps == patch_label(ended, n, curr_quad + 1)
  <2> HIDE DEF ended, f
  <2>3. /\ ps \in ArrayList(Quad) /\ Fits(ps)
        /\ Len(ps.element) = Len(ended.element)
        /\ DOMAIN ps.element = DOMAIN ended.element
        /\ \A i \in DOMAIN ended.element :
             /\ ps.element[i].result = ended.element[i].result
             /\ ps.element[i].arg1 = ended.element[i].arg1
             /\ ps.element[i].arg2 = ended.element[i].arg2
             /\ ps.element[i].op = ended.element[i].op
             /\ ps.element[i].label =
                  IF i = n + 1 THEN curr_quad + 1 ELSE ended.element[i].label
    <3> HIDE DEF n
    <3>1. ended \in ArrayList(Quad) /\ Fits(ended) /\ n \in Int /\ curr_quad + 1 \in Nat
      BY <1>5, <2>1 DEF n
    <3> QED BY <3>1, Patched
  <2>4. quads' = ps /\ n + 1 = funcs[f].taddress
    BY <1>1, <2>2
  <2> HIDE DEF ps, n
  <2> QED BY <2>3, <2>4
<1>7. /\ funcs' \in Seq(SymbolTableEntry) /\ DOMAIN funcs' = F
      /\ \A g \in F : funcs'[g].taddress = funcs[g].taddress
  <2> HIDE DEF f
  <2>1. DOMAIN funcs' = F
    BY <1>1
  <2>2. \A e \in SymbolTableEntry :
          /\ [e EXCEPT !.offset = size] \in SymbolTableEntry
          /\ [e EXCEPT !.offset = size].taddress = e.taddress
    BY DEF SymbolTableEntry
  <2>3. \A g \in F : funcs'[g] \in {funcs[g], [funcs[g] EXCEPT !.offset = size]}
    BY <1>1
  <2>4. \A g \in F : funcs'[g] \in SymbolTableEntry /\ funcs'[g].taddress = funcs[g].taddress
    BY <1>2, <2>2, <2>3
  <2>5. funcs' = [g \in F |-> funcs'[g]]
    BY <1>1
  <2>6. funcs' \in [1..Len(funcs) -> SymbolTableEntry]
    <3>1. funcs' \in [F -> SymbolTableEntry]
      BY <2>4, <2>5
    <3> QED BY <1>2, <3>1
  <2>7. funcs' \in Seq(SymbolTableEntry)
    <3>1. Len(funcs) \in Nat
      BY <1>2
    <3> QED BY <2>6, <3>1, SeqDef
  <2> QED BY <2>1, <2>4, <2>7
<1>8. /\ open' \in Seq(Nat) /\ Len(open') = Len(open) - 1 /\ Len(open) \in Nat
      /\ \A i \in 1..(Len(open) - 1) : open'[i] = open[i]
  <2>1. open' = SubSeq(open, 1, Len(open) - 1) /\ Len(open) \in Nat \ {0}
    BY <1>1, <1>2 DEF Front
  <2>2. DOMAIN open = 1..Len(open) /\ \A i \in 1..(Len(open) - 1) : open[i] \in Nat
    BY <1>2, <2>1
  <2>3. /\ open' \in Seq(Nat) /\ Len(open') = Len(open) - 1
        /\ \A i \in 1..(Len(open) - 1) : open'[i] = open[i]
    <3>1. 1 \in Int /\ Len(open) - 1 \in Int
      BY <2>1
    <3>2. /\ SubSeq(open, 1, Len(open) - 1) \in Seq(Nat)
          /\ Len(SubSeq(open, 1, Len(open) - 1))
               = IF 1 <= Len(open) - 1 THEN Len(open) - 1 - 1 + 1 ELSE 0
          /\ \A i \in 1..(Len(open) - 1 - 1 + 1) :
               SubSeq(open, 1, Len(open) - 1)[i] = open[1 + i - 1]
      BY <2>2, <3>1, SubSeqProperties
    <3>3. Len(open) - 1 - 1 + 1 = Len(open) - 1 /\ (~(1 <= Len(open) - 1) => Len(open) - 1 = 0)
      <4>1. \A n \in Nat \ {0} : n - 1 - 1 + 1 = n - 1 /\ (~(1 <= n - 1) => n - 1 = 0)
        OBVIOUS
      <4>2. Len(open) \in Nat \ {0}
        BY <2>1
      <4> QED BY <4>1, <4>2
    <3>4. \A i \in 1..(Len(open) - 1) : 1 + i - 1 = i
      OBVIOUS
    <3>5. \A i \in 1..(Len(open) - 1) : open'[i] = open[i]
      BY <2>1, <3>2, <3>3, <3>4
    <3>6. open' \in Seq(Nat) /\ Len(open') = Len(open) - 1
      BY <2>1, <3>2, <3>3
    <3> QED BY <3>5, <3>6
  <2> QED BY <2>1, <2>3
<1>9. s = ended.element
  BY <1>5
<1>10. /\ Len(quads'.element) = Len(s) /\ DOMAIN quads'.element = DOMAIN s
       /\ \A i \in DOMAIN s :
            /\ quads'.element[i].result = s[i].result
            /\ quads'.element[i].arg1 = s[i].arg1
            /\ quads'.element[i].arg2 = s[i].arg2
            /\ quads'.element[i].op = s[i].op
            /\ quads'.element[i].label =
                 IF i = funcs[f].taddress THEN curr_quad + 1 ELSE s[i].label
  <2> HIDE DEF s, ended, f
  <2> QED BY <1>6, <1>9
<1> HIDE DEF q, ended, f, s
<1> QED BY <1>3, <1>4, <1>5, <1>6, <1>7, <1>8, <1>10 DEF f, q, s

\* The invariant covers the bracket; the patched jump has the operands it had.
LEMMA FunctionEndKeeps ==
  ASSUME Inductive, NEW size \in 0..1, FunctionEnd(size)
  PROVE  Inductive'
<1> DEFINE f == Last(open)
           q == QuadOf(Bracket("funcend", f), 0, curr_quad + 1)
           s == Append(quads.element, q)
<1>1. /\ f \in DOMAIN funcs /\ f \in Nat
      /\ quads' \in ArrayList(Quad) /\ Fits(quads')
      /\ Len(quads'.element) = Len(s) /\ DOMAIN quads'.element = DOMAIN s
      /\ \A i \in DOMAIN s :
           /\ quads'.element[i].result = s[i].result
           /\ quads'.element[i].arg1 = s[i].arg1
           /\ quads'.element[i].arg2 = s[i].arg2
           /\ quads'.element[i].op = s[i].op
           /\ quads'.element[i].label =
                IF i = funcs[f].taddress THEN curr_quad + 1 ELSE s[i].label
      /\ q \in Quad /\ FunctionsIn(q, DOMAIN funcs)
      /\ funcs' \in Seq(SymbolTableEntry) /\ DOMAIN funcs' = DOMAIN funcs
      /\ \A g \in DOMAIN funcs : funcs'[g].taddress = funcs[g].taddress
      /\ open' \in Seq(Nat) /\ Len(open') = Len(open) - 1 /\ Len(open) \in Nat
      /\ \A i \in 1..(Len(open) - 1) : open'[i] = open[i]
      /\ UNCHANGED <<phase, temp_space, IR_GEN_FAILED, tables, instructions,
                     current_processed_quad>>
  BY EndMakes
<1>2. /\ TypeOK /\ quads \in ArrayList(Quad) /\ Fits(quads)
      /\ quads.element \in Seq(Quad) /\ curr_quad \in Nat /\ curr_quad = Len(quads.element)
      /\ DOMAIN funcs = 1..Len(funcs) /\ Len(funcs) \in Nat
      /\ funcs \in Seq(SymbolTableEntry)
      /\ open \in Seq(Nat) /\ \A i \in DOMAIN open : open[i] \in DOMAIN funcs
      /\ \A g \in DOMAIN funcs : funcs[g] \in SymbolTableEntry /\ funcs[g].taddress \in Nat
  BY Typed DEF Inductive, TypeOK
<1>3. QuadsKnown' /\ curr_quad' = curr_quad + 1
  <2>1. \A i \in DOMAIN quads.element : FunctionsIn(quads.element[i], DOMAIN funcs)
    BY DEF Inductive, QuadsKnown
  <2> HIDE DEF q
  <2>2. /\ Len(s) = curr_quad + 1
        /\ \A i \in DOMAIN s : FunctionsIn(s[i], DOMAIN funcs)
    BY <1>2, <1>1, <2>1, OneMore
  <2>3. \A i \in DOMAIN quads'.element : FunctionsIn(quads'.element[i], DOMAIN funcs)
    <3> SUFFICES ASSUME NEW i \in DOMAIN quads'.element
                 PROVE  FunctionsIn(quads'.element[i], DOMAIN funcs)
      OBVIOUS
    <3> DEFINE r == quads'.element[i]
    <3> HIDE DEF s, f
    <3>1. /\ i \in DOMAIN s
          /\ r.result = s[i].result /\ r.arg1 = s[i].arg1 /\ r.arg2 = s[i].arg2
      BY <1>1
    <3>2. FunctionsIn(s[i], DOMAIN funcs)
      BY <2>2, <3>1
    <3> HIDE DEF r
    <3>3. FunctionsIn(r, DOMAIN funcs)
      BY <3>1, <3>2 DEF FunctionsIn
    <3> QED BY <3>3 DEF r
  <2>4. curr_quad' = curr_quad + 1 /\ DOMAIN funcs' = DOMAIN funcs
    <3> HIDE DEF s, f
    <3> QED BY <1>1, <2>2 DEF curr_quad
  <2> QED BY <2>3, <2>4 DEF QuadsKnown
<1>4. FuncsInOrder'
  <2>1. /\ \A g \in DOMAIN funcs : funcs[g].taddress < curr_quad
        /\ \A g, h \in DOMAIN funcs : g < h => funcs[g].taddress < funcs[h].taddress
    BY DEF Inductive, FuncsInOrder
  <2>2. \A g \in DOMAIN funcs : funcs[g].taddress < curr_quad'
    BY <1>2, <1>3, <2>1
  <2>3. DOMAIN funcs' = DOMAIN funcs
        /\ \A g \in DOMAIN funcs : funcs'[g].taddress = funcs[g].taddress
    BY <1>1
  <2> QED BY <2>1, <2>2, <2>3 DEF FuncsInOrder
<1>5. TypeOK'
  <2>1. open' \in Seq(Nat) /\ \A i \in DOMAIN open' : open'[i] \in DOMAIN funcs'
    <3> HIDE DEF q, f, s
    <3>1. /\ open' \in Seq(Nat) /\ Len(open') = Len(open) - 1 /\ Len(open) \in Nat
          /\ \A i \in 1..(Len(open) - 1) : open'[i] = open[i]
      BY <1>1
    <3>2. DOMAIN open' = 1..(Len(open) - 1) /\ DOMAIN open = 1..Len(open)
      BY <1>2, <3>1
    <3>3. \A i \in DOMAIN open' : i \in DOMAIN open /\ open'[i] = open[i]
      BY <3>1, <3>2
    <3> QED BY <1>1, <1>2, <3>3
  <2>2. IR_GEN_FAILED' \in BOOLEAN
    BY <1>1 DEF Inductive, TypeOK
  <2>3. current_processed_quad' <= curr_quad'
    BY <1>2, <1>1, <1>3, Typed
  <2> HIDE DEF q, f, s
  <2> QED BY <1>1, <2>1, <2>2, <2>3 DEF Inductive, TypeOK
<1>6. TablesServe' /\ EntriesUsedOnce'
  <2>1. DOMAIN funcs \subseteq DOMAIN funcs'
    BY <1>1
  <2> QED BY <1>1, <2>1, Unmoved DEF Inductive
<1> QED BY <1>3, <1>4, <1>5, <1>6 DEF Inductive

\* What leaves quads, functions, tables and instructions alone
LEMMA OthersKeep ==
  ASSUME Inductive,
         UNCHANGED <<funcs, open, quads, temp_space, tables, instructions,
                     current_processed_quad>>,
         phase' = "parse" => phase = "parse",
         phase' \in {"parse", "generate", "done", "crashed"},
         IR_GEN_FAILED' \in BOOLEAN
  PROVE  Inductive'
<1>1. TypeOK'
  BY DEF Inductive, TypeOK, curr_quad
<1>2. FuncsInOrder' /\ QuadsKnown'
  BY DEF Inductive, FuncsInOrder, QuadsKnown, curr_quad
<1>3. TablesServe' /\ EntriesUsedOnce'
  BY Unmoved DEF Inductive
<1> QED BY <1>1, <1>2, <1>3 DEF Inductive
-----------------------------------------------------------------------------
(* Generation                                                                  *)

\* Whatever a quad's instruction is made of is known.
LEMMA OperandsKnown ==
  ASSUME NEW q \in Quad, FunctionsIn(q, DOMAIN funcs), NEW i \in 1..3,
         ~OperandFails(Operands(GeneratorOf(q), q)[i])
  PROVE  Known(Operands(GeneratorOf(q), q)[i])
<1> DEFINE o == Operands(GeneratorOf(q), q)
           minus == create_numeric_expr(-1)
<1>1. o[i] \in {q.arg1, q.arg2, q.result, NULL, minus}
  <2>1. o \in {<<NULL, NULL, NULL>>, <<q.arg1, NULL, NULL>>, <<q.result, NULL, NULL>>,
               <<q.arg1, q.arg2, NULL>>, <<q.arg1, minus, q.result>>,
               <<q.arg1, q.arg2, q.result>>}
    <3> HIDE DEF minus
    <3> QED BY DEF Operands, minus
  <2> HIDE DEF o, minus
  <2> QED BY <2>1
<1>2. minus \in Expr /\ minus.type = "const_num"
  BY DEF create_numeric_expr, Expr, ExprType
<1>3. NULL.type = "NULL"
  BY DEF NULL
<1>4. {q.arg1, q.arg2, q.result} \subseteq Expr \union {NULL}
  BY DEF Quad
<1>5. \A e \in {q.arg1, q.arg2, q.result, NULL, minus} :
        /\ e \in Expr \union {NULL}
        /\ e.type = "program_func" => e.value \in DOMAIN funcs
  <2> HIDE DEF minus
  <2> QED BY <1>2, <1>3, <1>4 DEF FunctionsIn
<1> HIDE DEF o, minus
<1> QED BY <1>1, <1>5 DEF Known, o

\* A round of the loop that make_operand survives
Round ==
  /\ Generate
  /\ LET q == quads.element[current_processed_quad + 1]
     IN  \A i \in 1..3 : ~OperandFails(Operands(GeneratorOf(q), q)[i])

\* What it makes of the next quad
LEMMA RoundMakes ==
  ASSUME Inductive, Round
  PROVE  LET q == quads.element[current_processed_quad + 1]
             t == generate(tables, q)
         IN  /\ q \in Quad /\ t \in Instruction
             /\ Good(tables) /\ Good(tables') /\ Extends(tables, tables')
             /\ InRange(tables', t.result) /\ InRange(tables', t.arg1)
             /\ InRange(tables', t.arg2)
             /\ CodeMeaning(ConstantsOf(tables'), t) = QuadMeaning(q)
             /\ NewIn(tables, tables', {t.result, t.arg1, t.arg2})
             /\ instructions' \in ArrayList(Instruction) /\ Fits(instructions')
             /\ instructions'.element = Append(instructions.element, t)
             /\ current_processed_quad' = current_processed_quad + 1
             /\ current_processed_quad + 1 \in 1..curr_quad
             /\ UNCHANGED <<phase, funcs, open, quads, temp_space, IR_GEN_FAILED>>
<1> DEFINE q == quads.element[current_processed_quad + 1]
           t == generate(tables, q)
<1>1. /\ quads.element \in Seq(Quad) /\ curr_quad = Len(quads.element) /\ curr_quad \in Nat
      /\ instructions \in ArrayList(Instruction) /\ Fits(instructions)
      /\ current_processed_quad \in Nat
  BY Typed DEF Inductive
<1>2. current_processed_quad + 1 \in 1..curr_quad
  BY <1>1 DEF Round, Generate
<1>3. q \in Quad
  BY <1>1, <1>2, ElementOfSeq
<1>4. /\ tables' = After(tables, Operands(GeneratorOf(q), q))
      /\ instructions' = insert_arraylist(instructions, t)
      /\ current_processed_quad' = current_processed_quad + 1
      /\ UNCHANGED <<phase, funcs, open, quads, temp_space, IR_GEN_FAILED>>
  BY DEF Round, Generate, generate_final_instruction
<1>5. FuncsApart /\ Good(tables)
  BY Apart DEF Inductive, TablesServe
<1>6. \A i \in 1..3 : Known(Operands(GeneratorOf(q), q)[i])
  <2>1. FunctionsIn(q, DOMAIN funcs)
    BY <1>1, <1>2 DEF Inductive, QuadsKnown
  <2>2. \A i \in 1..3 : ~OperandFails(Operands(GeneratorOf(q), q)[i])
    BY DEF Round
  <2> HIDE DEF q
  <2> QED BY <1>3, <2>1, <2>2, OperandsKnown
<1> HIDE DEF q
<1>7. /\ t \in Instruction /\ Good(tables') /\ Extends(tables, tables')
      /\ InRange(tables', t.result) /\ InRange(tables', t.arg1) /\ InRange(tables', t.arg2)
      /\ CodeMeaning(ConstantsOf(tables'), t) = QuadMeaning(q)
      /\ NewIn(tables, tables', {t.result, t.arg1, t.arg2})
  BY <1>3, <1>4, <1>5, <1>6, Generated
<1> HIDE DEF t
<1>8. /\ instructions' \in ArrayList(Instruction) /\ Fits(instructions')
      /\ instructions'.element = Append(instructions.element, t)
  BY <1>1, <1>4, <1>7, Insert
<1> QED BY <1>2, <1>3, <1>4, <1>5, <1>7, <1>8 DEF q, t

\* The instruction refers to entries that there are, and the new ones are its own.
LEMMA RoundKeeps ==
  ASSUME Inductive, Round
  PROVE  Inductive'
<1> DEFINE q == quads.element[current_processed_quad + 1]
           t == generate(tables, q)
           s == instructions.element
<1>1. /\ t \in Instruction /\ Good(tables) /\ Good(tables') /\ Extends(tables, tables')
      /\ InRange(tables', t.result) /\ InRange(tables', t.arg1) /\ InRange(tables', t.arg2)
      /\ NewIn(tables, tables', {t.result, t.arg1, t.arg2})
      /\ instructions' \in ArrayList(Instruction) /\ Fits(instructions')
      /\ instructions'.element = Append(s, t)
      /\ current_processed_quad' = current_processed_quad + 1
      /\ current_processed_quad + 1 \in 1..curr_quad
      /\ UNCHANGED <<phase, funcs, open, quads, temp_space, IR_GEN_FAILED>>
  BY RoundMakes
<1>2. s \in Seq(Instruction) /\ current_processed_quad = Len(s) /\ curr_quad \in Nat
  BY Typed DEF Inductive
<1> HIDE DEF t
<1>3. /\ Append(s, t)[Len(s) + 1] = t /\ Len(s) + 1 \in DOMAIN Append(s, t)
      /\ Len(Append(s, t)) = Len(s) + 1
      /\ \A c \in DOMAIN s : c \in DOMAIN Append(s, t) /\ Append(s, t)[c] = s[c]
      /\ \A c \in DOMAIN Append(s, t) : c \in DOMAIN s \/ c = Len(s) + 1
  BY <1>1, <1>2
<1>4. TypeOK'
  <2>1. tables' \in [TableNames -> ArrayList(Int)] /\ \A k \in TableNames : Fits(tables'[k])
    BY <1>1 DEF Good
  <2>2. IR_GEN_FAILED' \in BOOLEAN
    BY <1>1 DEF Inductive, TypeOK
  <2>3. current_processed_quad' = Len(instructions'.element)
        /\ current_processed_quad' <= curr_quad'
    BY <1>1, <1>2, <1>3 DEF curr_quad
  <2> QED BY <1>1, <2>1, <2>2, <2>3 DEF Inductive, TypeOK
<1>5. FuncsInOrder' /\ QuadsKnown'
  BY <1>1 DEF Inductive, FuncsInOrder, QuadsKnown, curr_quad
<1>6. TablesServe'
  <2>1. Good(tables)'
    BY <1>1 DEF Good
  <2>2. ASSUME NEW c \in DOMAIN instructions'.element
        PROVE  LET r == instructions'.element[c]
               IN  /\ InRange(tables', r.result) /\ InRange(tables', r.arg1)
                   /\ InRange(tables', r.arg2)
    <3>1. CASE c \in DOMAIN s
      <4>1. s[c] \in Instruction /\ instructions'.element[c] = s[c]
        BY <1>1, <1>2, <1>3, <3>1
      <4>2. s[c].result \in VMarg /\ s[c].arg1 \in VMarg /\ s[c].arg2 \in VMarg
        BY <4>1 DEF Instruction
      <4>3. /\ InRange(tables, s[c].result) /\ InRange(tables, s[c].arg1)
            /\ InRange(tables, s[c].arg2)
        BY <3>1 DEF Inductive, TablesServe
      <4>4. /\ InRange(tables', s[c].result) /\ InRange(tables', s[c].arg1)
            /\ InRange(tables', s[c].arg2)
        BY <1>1, <4>2, <4>3, Keeps
      <4> QED BY <4>1, <4>4
    <3>2. CASE c = Len(s) + 1
      BY <1>1, <1>3, <3>2
    <3> QED BY <1>1, <1>3, <3>1, <3>2
  <2>3. phase' = "generate"
    BY <1>1 DEF Round, Generate
  <2> QED BY <2>1, <2>2, <2>3 DEF TablesServe, InRange, TableOf
<1>7. EntriesUsedOnce'
  <2>1. \A k \in DOMAIN tables' : IsInjective(tables'[k].element)
    BY <1>1 DEF Good
  <2>2. ASSUME NEW kind \in Kinds, NEW i \in DOMAIN tables'[TableOf(kind)].element
        PROVE  \E c \in DOMAIN instructions'.element :
                 LET r == instructions'.element[c]
                 IN  Arg(kind, i - 1) \in {r.result, r.arg1, r.arg2}
    <3>1. CASE i \in DOMAIN tables[TableOf(kind)].element
      <4>1. <<kind, TableOf(kind)>> \in {<<"string", "strings">>, <<"number", "numbers">>,
                   <<"userfunc", "userfuncs">>, <<"libfunc", "libfuncs">>}
        BY DEF Kinds, TableOf
      <4>2. PICK c \in DOMAIN s : Arg(kind, i - 1) \in {s[c].result, s[c].arg1, s[c].arg2}
        BY <3>1, <4>1 DEF Inductive, EntriesUsedOnce
      <4> QED BY <1>1, <1>3, <4>2
    <3>2. CASE i \notin DOMAIN tables[TableOf(kind)].element
      <4>1. Arg(kind, i - 1) \in {t.result, t.arg1, t.arg2}
        BY <1>1, <3>2 DEF NewIn
      <4> QED BY <1>1, <1>3, <4>1
    <3> QED BY <3>1, <3>2
  <2>3. \A used \in {<<"string", "strings">>, <<"number", "numbers">>,
                     <<"userfunc", "userfuncs">>, <<"libfunc", "libfuncs">>} :
          used[1] \in Kinds /\ used[2] = TableOf(used[1])
    BY DEF Kinds, TableOf
  <2> QED BY <2>1, <2>2, <2>3 DEF EntriesUsedOnce
<1> QED BY <1>4, <1>5, <1>6, <1>7 DEF Inductive
-----------------------------------------------------------------------------
(* The theorems                                                                *)

\* A step is one of a parser that goes on, one of the generator, or nothing but
\* a change of phase.
LEMMA StepsAre ==
  ASSUME Inductive, [Next]_vars
  PROVE  \/ \E t \in Templates : Statement(t)
         \/ \E n \in Names : FunctionStart(n)
         \/ \E size \in 0..1 : FunctionEnd(size)
         \/ Round
         \/ /\ UNCHANGED <<funcs, open, quads, temp_space, tables, instructions,
                           current_processed_quad>>
            /\ phase' = "parse" => phase = "parse"
            /\ phase' \in {"parse", "generate", "done", "crashed"}
            /\ IR_GEN_FAILED' \in BOOLEAN
<1> DEFINE Others ==
       /\ UNCHANGED <<funcs, open, quads, temp_space, tables, instructions,
                      current_processed_quad>>
       /\ phase' = "parse" => phase = "parse"
       /\ phase' \in {"parse", "generate", "done", "crashed"}
       /\ IR_GEN_FAILED' \in BOOLEAN
<1>1. phase \in {"parse", "generate", "done", "crashed"} /\ IR_GEN_FAILED \in BOOLEAN
  BY DEF Inductive, TypeOK
<1>2. ASSUME Error PROVE Others
  BY <1>1, <1>2 DEF Error
<1>3. ASSUME EndOfInput \/ Abort PROVE Others
  BY <1>1, <1>3 DEF EndOfInput, Abort, AfterParse
<1>4. ASSUME Write PROVE Others
  BY <1>1, <1>4 DEF Write
<1>5. ASSUME Generate PROVE Round \/ Others
  <2> DEFINE q == quads.element[current_processed_quad + 1]
  <2>1. CASE \E i \in 1..3 : OperandFails(Operands(GeneratorOf(q), q)[i])
    <3>1. phase' = "crashed" /\ UNCHANGED <<tables, instructions, current_processed_quad>>
          /\ UNCHANGED <<funcs, open, quads, temp_space, IR_GEN_FAILED>>
      BY <1>5, <2>1 DEF Generate
    <3> QED BY <1>1, <3>1
  <2>2. CASE \A i \in 1..3 : ~OperandFails(Operands(GeneratorOf(q), q)[i])
    BY <1>5, <2>2 DEF Round
  <2> QED BY <2>1, <2>2
<1>6. ASSUME Stopped \/ UNCHANGED vars PROVE Others
  BY <1>1, <1>6 DEF Stopped, vars
<1> HIDE DEF Others
<1>7. \/ \E t \in Templates : Statement(t)
      \/ \E n \in Names : FunctionStart(n)
      \/ \E size \in 0..1 : FunctionEnd(size)
      \/ Round \/ Others
  BY <1>2, <1>3, <1>4, <1>5, <1>6 DEF Next
<1> QED BY <1>7 DEF Others

\* Every step keeps the invariant.
LEMMA Inductiveness == Inductive /\ [Next]_vars => Inductive'
<1> SUFFICES ASSUME Inductive, [Next]_vars
             PROVE  Inductive'
  OBVIOUS
<1> QED BY StepsAre, StatementKeeps, FunctionStartKeeps, FunctionEndKeeps, RoundKeeps,
           OthersKeep

\* So it always holds.
LEMMA Always == Spec => []Inductive
BY AtFirst, Inductiveness, PTL DEF Spec

\* In every program's translation the array lists hold what they should, within
\* what was allocated for them (insert_arraylist, emit).
THEOREM TypeCorrect == Spec => []TypeOK
<1>1. Inductive => TypeOK
  BY DEF Inductive
<1> QED BY <1>1, Always, PTL

\* However often constants and functions occur, each has one entry, and there is
\* none that no instruction refers to (consts_newstring and its sisters).
THEOREM EntriesHaveUses == Spec => []EntriesUsedOnce
<1>1. Inductive => EntriesUsedOnce
  BY DEF Inductive
<1> QED BY <1>1, Always, PTL
-----------------------------------------------------------------------------
(* The refinement                                                              *)

\* There is no code while the parser is at work.
LEMMA NothingYet ==
  ASSUME Inductive, phase = "parse"
  PROVE  Code = <<>>
<1>1. instructions.element = <<>>
  BY DEF Inductive, TablesServe
<1>2. DOMAIN Code = {}
  BY <1>1 DEF Code
<1> QED BY <1>1 DEF Code

\* The program stays what it is when nothing is added to it.
LEMMA SameSource ==
  ASSUME UNCHANGED <<funcs, quads, temp_space>>
  PROVE  Source' = Source
BY DEF Source, curr_quad, QuadMeaning, MeaningOf, MeantFunction, OperandFails, SpaceOf

\* The code stays what it is when neither it nor the tables change.
LEMMA SameCode ==
  ASSUME UNCHANGED <<funcs, tables, instructions>>
  PROVE  Code' = Code
BY DEF Code, Constants

\* As long as the tables only get more entries, instructions keep their meaning.
LEMMA MeaningKept ==
  ASSUME NEW T, Good(T), NEW U, Good(U), Extends(T, U), NEW t \in Instruction,
         InRange(T, t.result), InRange(T, t.arg1), InRange(T, t.arg2)
  PROVE  CodeMeaning(ConstantsOf(U), t) = CodeMeaning(ConstantsOf(T), t)
<1>1. t.result \in VMarg /\ t.arg1 \in VMarg /\ t.arg2 \in VMarg
  BY DEF Instruction
<1>2. /\ Denoted(ConstantsOf(U), t.result) = Denoted(ConstantsOf(T), t.result)
      /\ Denoted(ConstantsOf(U), t.arg1) = Denoted(ConstantsOf(T), t.arg1)
      /\ Denoted(ConstantsOf(U), t.arg2) = Denoted(ConstantsOf(T), t.arg2)
  BY <1>1, Keeps
<1> QED BY <1>2 DEF CodeMeaning

\* A round of the loop appends an instruction with the meaning of the next quad.
LEMMA RoundTranslates ==
  ASSUME Inductive, Round
  PROVE  Translation!Translate
<1> DEFINE n == current_processed_quad
           q == quads.element[n + 1]
           t == generate(tables, q)
           s == instructions.element
           C == ConstantsOf(tables)
           D == ConstantsOf(tables')
           x == QuadMeaning(q)
<1>1. /\ q \in Quad /\ t \in Instruction
      /\ Good(tables) /\ Good(tables') /\ Extends(tables, tables')
      /\ CodeMeaning(D, t) = x
      /\ instructions'.element = Append(s, t)
      /\ n + 1 \in 1..curr_quad
      /\ UNCHANGED <<funcs, quads, temp_space>>
  BY RoundMakes
<1>2. s \in Seq(Instruction) /\ n = Len(s) /\ n \in Nat /\ curr_quad \in Nat
      /\ DOMAIN s = 1..n
  BY Typed DEF Inductive
<1> HIDE DEF n, q, t, s, x, C, D
<1>3. Source' = Source
  BY <1>1, SameSource
<1>4. DOMAIN Source = 1..curr_quad /\ Source[n + 1] = x
  BY <1>1 DEF Source, q, x
<1>5. Len(Source) = curr_quad
  BY <1>2, <1>4 DEF Source
<1>6. Constants = C /\ Constants' = D
  BY <1>1 DEF Constants, ConstantsOf, C, D
<1>7. Code = [i \in 1..n |-> CodeMeaning(C, s[i])]
  BY <1>2, <1>6 DEF Code, s
<1>8. Code' = [i \in 1..(n + 1) |-> CodeMeaning(D, Append(s, t)[i])]
  <2>1. DOMAIN Append(s, t) = 1..(n + 1)
    BY <1>1, <1>2
  <2> QED BY <1>1, <1>6, <2>1 DEF Code
<1>9. \A i \in 1..n : CodeMeaning(D, Append(s, t)[i]) = CodeMeaning(C, s[i])
  <2> SUFFICES ASSUME NEW i \in 1..n
               PROVE  CodeMeaning(D, s[i]) = CodeMeaning(C, s[i])
    BY <1>1, <1>2
  <2>1. s[i] \in Instruction
    BY <1>2
  <2>2. /\ InRange(tables, s[i].result) /\ InRange(tables, s[i].arg1)
        /\ InRange(tables, s[i].arg2)
    BY <1>2 DEF Inductive, TablesServe, s
  <2> QED BY <1>1, <2>1, <2>2, MeaningKept DEF C, D
<1>10. CodeMeaning(D, Append(s, t)[n + 1]) = x
  BY <1>1, <1>2
<1>11. Len(Code) = n /\ Code' = Append(Code, x)
  <2> DEFINE S == {CodeMeaning(C, s[i]) : i \in 1..n} \union {x}
             r == [i \in 1..n |-> CodeMeaning(C, s[i])]
             r1 == [i \in 1..(n + 1) |-> CodeMeaning(D, Append(s, t)[i])]
  <2>1. r \in Seq(S) /\ Len(r) = n
    BY <1>2, IsASeq
  <2>2. \A i \in 1..(n + 1) : CodeMeaning(D, Append(s, t)[i]) \in S
    <3>1. \A i \in 1..(n + 1) : i \in 1..n \/ i = n + 1
      BY <1>2
    <3> QED BY <1>9, <1>10, <3>1
  <2>3. r1 \in Seq(S) /\ Len(r1) = n + 1
    BY <1>2, <2>2, IsASeq
  <2>4. Append(r, x) \in Seq(S) /\ Len(Append(r, x)) = n + 1
        /\ Append(r, x)[n + 1] = x /\ \A i \in 1..n : Append(r, x)[i] = r[i]
    <3> HIDE DEF r
    <3>1. x \in S
      OBVIOUS
    <3> HIDE DEF S
    <3> QED BY <1>2, <2>1, <3>1
  <2>5. \A i \in 1..(n + 1) : r1[i] = Append(r, x)[i]
    <3>1. \A i \in 1..(n + 1) : i \in 1..n \/ i = n + 1
      BY <1>2
    <3>2. \A i \in 1..n : r1[i] = Append(r, x)[i]
      BY <1>2, <1>9, <2>4
    <3>3. r1[n + 1] = Append(r, x)[n + 1]
      BY <1>2, <1>10, <2>4
    <3> QED BY <3>1, <3>2, <3>3
  <2>6. r1 = Append(r, x)
    <3> HIDE DEF r, r1, S
    <3> QED BY <2>3, <2>4, <2>5, SeqEqual
  <2> QED BY <1>7, <1>8, <2>1, <2>6
<1>12. n < curr_quad
  BY <1>1, <1>2
<1> QED BY <1>3, <1>4, <1>5, <1>11, <1>12 DEF Translation!Translate

\* Code generation implements Translation: quad by quad the code gets the meaning
\* of the program, and no entry made later changes an instruction's meaning
\* (generate_final_instructions).
THEOREM CodeIsTranslation == Spec => ImplementsTranslation
<1>1. Init => Translation!Init
  <2> SUFFICES ASSUME Init
               PROVE  Source = <<>> /\ Code = <<>>
    BY DEF Translation!Init
  <2>1. quads.element = <<>> /\ phase = "parse"
    BY DEF Init, create_arraylist
  <2>2. curr_quad = 0
    BY <2>1 DEF curr_quad
  <2>3. Source = <<>>
    BY <2>2 DEF Source
  <2>4. Code = <<>>
    BY <2>1, AtFirst, NothingYet
  <2> QED BY <2>3, <2>4
<1>2. Inductive /\ [Next]_vars => [Translation!Next]_<<Source, Code>>
  <2> SUFFICES ASSUME Inductive, [Next]_vars
               PROVE  Translation!Next \/ (Source' = Source /\ Code' = Code)
    OBVIOUS
  <2>1. ASSUME phase = "parse", UNCHANGED <<tables, instructions>>
        PROVE  Translation!Read \/ (Source' = Source /\ Code' = Code)
    <3>1. Code = <<>>
      BY <2>1, NothingYet
    <3>2. instructions'.element = <<>>
      BY <2>1 DEF Inductive, TablesServe
    <3>3. Code' = <<>>
      BY <3>2 DEF Code
    <3> QED BY <3>1, <3>3 DEF Translation!Read
  <2>2. CASE \E t \in Templates : Statement(t)
    BY <2>1, <2>2 DEF Statement, Translation!Next
  <2>3. CASE \E n \in Names : FunctionStart(n)
    BY <2>1, <2>3 DEF FunctionStart, Translation!Next
  <2>4. CASE \E size \in 0..1 : FunctionEnd(size)
    BY <2>1, <2>4 DEF FunctionEnd, Translation!Next
  <2>5. CASE Round
    BY <2>5, RoundTranslates DEF Translation!Next
  <2>6. CASE UNCHANGED <<funcs, open, quads, temp_space, tables, instructions,
                         current_processed_quad>>
    BY <2>6, SameSource, SameCode
  <2> QED BY <2>2, <2>3, <2>4, <2>5, <2>6, StepsAre
<1> QED BY <1>1, <1>2, Always, PTL DEF Spec, ImplementsTranslation, Translation!Spec
-----------------------------------------------------------------------------
(* The file                                                                    *)

\* The place of word j of record i, when records have n words
Place(n, i, j) == n * (i - 1) + j

\* The n words of each of m records are in W; s has them one after the other.
Words(W, n, m, r) == \A i \in 1..m : \A j \in 1..n : r[i][j] \in W
InARow(s, n, m, r) == \A i \in 1..m : \A j \in 1..n : s[Place(n, i, j)] = r[i][j]

\* Records of n words are found where n times as many words say.
LEMMA Joining ==
  ASSUME NEW W, NEW n \in {3, 7}, NEW r, NEW m \in Nat, Len(r) = m,
         Words(W, n, m, r)
  PROVE  /\ Joined(n, r) \in Seq(W) /\ Len(Joined(n, r)) = n * m
         /\ InARow(Joined(n, r), n, m, r)
<1> DEFINE w(k) == r[((k - 1) \div n) + 1][((k - 1) % n) + 1]
<1>1. n * m \in Nat
  OBVIOUS
<1>2. \A k \in 1..(n * m) : ((k - 1) \div n) + 1 \in 1..m /\ ((k - 1) % n) + 1 \in 1..n
  <2>1. CASE n = 3
    BY <2>1
  <2>2. CASE n = 7
    BY <2>2
  <2> QED BY <2>1, <2>2
<1>3. \A i \in 1..m : \A j \in 1..n :
        /\ n * (i - 1) + j \in 1..(n * m)
        /\ ((n * (i - 1) + j - 1) \div n) + 1 = i /\ ((n * (i - 1) + j - 1) % n) + 1 = j
  <2>1. CASE n = 3
    BY <2>1
  <2>2. CASE n = 7
    BY <2>2
  <2> QED BY <2>1, <2>2
<1>4. \A k \in 1..(n * m) : w(k) \in W
  BY <1>2 DEF Words
<1>5. Joined(n, r) = [k \in 1..(n * m) |-> w(k)]
  BY DEF Joined
<1>6. Joined(n, r) \in Seq(W) /\ Len(Joined(n, r)) = n * m
  <2> HIDE DEF w
  <2>1. [k \in 1..(n * m) |-> w(k)] \in Seq(W)
    BY <1>1, <1>4, IsASeq
  <2> QED BY <1>1, <1>5, <2>1
<1>7. ASSUME NEW i \in 1..m, NEW j \in 1..n
      PROVE  Joined(n, r)[Place(n, i, j)] = r[i][j]
  <2> DEFINE k == n * (i - 1) + j
  <2>1. k \in 1..(n * m) /\ ((k - 1) \div n) + 1 = i /\ ((k - 1) % n) + 1 = j
    BY <1>3
  <2> HIDE DEF k
  <2>2. Joined(n, r)[k] = w(k)
    BY <1>5, <2>1
  <2>3. w(k) = r[i][j]
    BY <2>1
  <2> QED BY <2>2, <2>3 DEF k, Place
<1> QED BY <1>6, <1>7 DEF InARow

\* The code of an opcode or of a kind of operand is where it is found in its list.
LEMMA Coded ==
  /\ \A k \in ToSet(VMarg_type) :
       LET c == SelectInSeq(VMarg_type, LAMBDA x : x = k)
       IN  c \in Nat /\ VMarg_type[c] = k
  /\ \A k \in ToSet(VMopcode) :
       LET c == SelectInSeq(VMopcode, LAMBDA x : x = k)
       IN  c \in Nat /\ VMopcode[c] = k
<1>1. DOMAIN VMarg_type = 1..12 /\ Len(VMarg_type) = 12
      /\ \A i, j \in 1..12 : VMarg_type[i] = VMarg_type[j] => i = j
  BY DEF VMarg_type
<1>2. DOMAIN VMopcode = 1..21 /\ Len(VMopcode) = 21
      /\ \A i, j \in 1..21 : VMopcode[i] = VMopcode[j] => i = j
  BY DEF VMopcode
<1>3. ASSUME NEW s, NEW n \in Nat, DOMAIN s = 1..n, Len(s) = n,
             \A i, j \in 1..n : s[i] = s[j] => i = j, NEW k \in ToSet(s)
      PROVE  LET c == SelectInSeq(s, LAMBDA x : x = k)
             IN  c \in Nat /\ s[c] = k
  <2> DEFINE M == {i \in 1..Len(s) : s[i] = k}
  <2>1. PICK i \in 1..n : s[i] = k
    BY <1>3 DEF ToSet
  <2>2. M \in SUBSET Int /\ M # {} /\ \A i1, i2 \in M : i1 = i2
    BY <1>3, <2>1
  <2>3. Min(M) \in M
    BY <2>2, MinOfOne
  <2>4. SelectInSeq(s, LAMBDA x : x = k) = Min(M)
    BY <2>2 DEF SelectInSeq
  <2>5. Min(M) \in Nat /\ s[Min(M)] = k
    BY <1>3, <2>3
  <2> QED BY <2>4, <2>5
<1>4. ASSUME NEW k \in ToSet(VMarg_type)
      PROVE  LET c == SelectInSeq(VMarg_type, LAMBDA x : x = k)
             IN  c \in Nat /\ VMarg_type[c] = k
  BY <1>1, <1>3
<1>5. ASSUME NEW k \in ToSet(VMopcode)
      PROVE  LET c == SelectInSeq(VMopcode, LAMBDA x : x = k)
             IN  c \in Nat /\ VMopcode[c] = k
  BY <1>2, <1>3
<1> QED BY <1>4, <1>5

\* What is written behind s is found behind it, and s where it was.
LEMMA Behind ==
  ASSUME NEW W, NEW s \in Seq(W), NEW t \in Seq(W)
  PROVE  /\ s \o t \in Seq(W) /\ Len(s \o t) = Len(s) + Len(t)
         /\ \A i \in 1..Len(s) : (s \o t)[i] = s[i]
         /\ \A i \in 1..Len(t) : (s \o t)[Len(s) + i] = t[i]
<1>1. Len(s) \in Nat /\ Len(t) \in Nat
  OBVIOUS
<1>2. /\ s \o t \in Seq(W) /\ Len(s \o t) = Len(s) + Len(t)
      /\ \A i \in 1 .. Len(s) + Len(t) :
           (s \o t)[i] = IF i <= Len(s) THEN s[i] ELSE t[i - Len(s)]
  BY ConcatProperties
<1>3. \A i \in 1..Len(s) : (s \o t)[i] = s[i]
  BY <1>1, <1>2
<1>4. ASSUME NEW i \in 1..Len(t)
      PROVE  (s \o t)[Len(s) + i] = t[i]
  <2> DEFINE k == Len(s) + i
  <2>1. k \in 1 .. Len(s) + Len(t) /\ ~(k <= Len(s)) /\ k - Len(s) = i
    BY <1>1
  <2> HIDE DEF k
  <2>2. (s \o t)[k] = t[i]
    BY <1>2, <2>1
  <2> QED BY <2>2 DEF k
<1> QED BY <1>2, <1>3, <1>4

\* The words of an instruction, and what they say
LEMMA InstructionWritten ==
  ASSUME NEW t \in Instruction
  PROVE  LET w == write_instruction(t)
             Operand(i) == Arg(VMarg_type[w[i]], w[i + 1])
         IN  /\ Len(w) = 7 /\ \A j \in 1..7 : w[j] \in Int
             /\ VMopcode[w[1]] = t.opcode
             /\ Operand(2) = t.result /\ Operand(4) = t.arg1 /\ Operand(6) = t.arg2
<1> DEFINE c == SelectInSeq(VMopcode, LAMBDA x : x = t.opcode)
           k(a) == SelectInSeq(VMarg_type, LAMBDA x : x = a.type)
           w == write_instruction(t)
<1>1. t.opcode \in ToSet(VMopcode) /\ t.result \in VMarg /\ t.arg1 \in VMarg /\ t.arg2 \in VMarg
  BY DEF Instruction
<1>2. c \in Nat /\ VMopcode[c] = t.opcode
  BY <1>1, Coded
<1>3. ASSUME NEW a \in VMarg
      PROVE  k(a) \in Nat /\ a.val \in Int /\ Arg(VMarg_type[k(a)], a.val) = a
  <2>1. a.type \in ToSet(VMarg_type) /\ a.val \in Int /\ a = [type |-> a.type, val |-> a.val]
    BY DEF VMarg
  <2>2. k(a) \in Nat /\ VMarg_type[k(a)] = a.type
    BY <2>1, Coded
  <2> QED BY <2>1, <2>2 DEF Arg
<1>4. w = <<c>> \o <<k(t.result), t.result.val>> \o <<k(t.arg1), t.arg1.val>>
          \o <<k(t.arg2), t.arg2.val>>
  BY DEF write_instruction
<1> HIDE DEF c, k, w
<1>5. ASSUME NEW x \in Int, NEW y \in Int, NEW u \in Int, NEW v \in Int,
             NEW p \in Int, NEW q \in Int, NEW r \in Int
      PROVE  LET s == <<x>> \o <<y, u>> \o <<v, p>> \o <<q, r>>
             IN  /\ Len(s) = 7 /\ s[1] = x /\ s[2] = y /\ s[3] = u
                 /\ s[4] = v /\ s[5] = p /\ s[6] = q /\ s[7] = r
  <2> DEFINE a == <<x>>
             b == <<y, u>>
             d == <<v, p>>
             e == <<q, r>>
  <2>1. /\ a \in Seq(Int) /\ Len(a) = 1 /\ a[1] = x
        /\ b \in Seq(Int) /\ Len(b) = 2 /\ b[1] = y /\ b[2] = u
        /\ d \in Seq(Int) /\ Len(d) = 2 /\ d[1] = v /\ d[2] = p
        /\ e \in Seq(Int) /\ Len(e) = 2 /\ e[1] = q /\ e[2] = r
    OBVIOUS
  <2> HIDE DEF a, b, d, e
  <2>2. ASSUME NEW s \in Seq(Int), NEW z \in Seq(Int), Len(z) = 2
        PROVE  /\ s \o z \in Seq(Int) /\ Len(s \o z) = Len(s) + 2
               /\ \A i \in 1..Len(s) : (s \o z)[i] = s[i]
               /\ (s \o z)[Len(s) + 1] = z[1] /\ (s \o z)[Len(s) + 2] = z[2]
    <3>1. /\ s \o z \in Seq(Int) /\ Len(s \o z) = Len(s) + Len(z)
          /\ \A i \in 1..Len(s) : (s \o z)[i] = s[i]
          /\ \A i \in 1..Len(z) : (s \o z)[Len(s) + i] = z[i]
      BY Behind
    <3>2. 1 \in 1..Len(z) /\ 2 \in 1..Len(z)
      BY <2>2
    <3> QED BY <2>2, <3>1, <3>2
  <2>3. PICK ab : ab = a \o b
    OBVIOUS
  <2>4. PICK abd : abd = ab \o d
    OBVIOUS
  <2>5. PICK s : s = abd \o e
    OBVIOUS
  <2>6. /\ ab \in Seq(Int) /\ Len(ab) = Len(a) + 2
        /\ \A i \in 1..Len(a) : ab[i] = a[i]
        /\ ab[Len(a) + 1] = b[1] /\ ab[Len(a) + 2] = b[2]
    BY <2>1, <2>2, <2>3
  <2>7. Len(ab) = 3 /\ ab[1] = x /\ ab[2] = y /\ ab[3] = u
    BY <2>1, <2>6
  <2>8. /\ abd \in Seq(Int) /\ Len(abd) = Len(ab) + 2
        /\ \A i \in 1..Len(ab) : abd[i] = ab[i]
        /\ abd[Len(ab) + 1] = d[1] /\ abd[Len(ab) + 2] = d[2]
    <3>1. ab \in Seq(Int) /\ d \in Seq(Int) /\ Len(d) = 2
      BY <2>1, <2>6
    <3> QED BY <3>1, <2>2, <2>4
  <2>9. Len(abd) = 5 /\ abd[1] = x /\ abd[2] = y /\ abd[3] = u /\ abd[4] = v /\ abd[5] = p
    BY <2>1, <2>7, <2>8
  <2>10. /\ s \in Seq(Int) /\ Len(s) = Len(abd) + 2
         /\ \A i \in 1..Len(abd) : s[i] = abd[i]
         /\ s[Len(abd) + 1] = e[1] /\ s[Len(abd) + 2] = e[2]
    <3>1. abd \in Seq(Int) /\ e \in Seq(Int) /\ Len(e) = 2
      BY <2>1, <2>8
    <3> QED BY <3>1, <2>2, <2>5
  <2>11. /\ Len(s) = 7 /\ s[1] = x /\ s[2] = y /\ s[3] = u
         /\ s[4] = v /\ s[5] = p /\ s[6] = q /\ s[7] = r
    BY <2>1, <2>9, <2>10
  <2>12. s = <<x>> \o <<y, u>> \o <<v, p>> \o <<q, r>>
    BY <2>3, <2>4, <2>5 DEF a, b, d, e
  <2> QED BY <2>11, <2>12
<1>6. /\ Len(w) = 7 /\ w[1] = c /\ w[2] = k(t.result) /\ w[3] = t.result.val
      /\ w[4] = k(t.arg1) /\ w[5] = t.arg1.val /\ w[6] = k(t.arg2) /\ w[7] = t.arg2.val
  BY <1>1, <1>2, <1>3, <1>4, <1>5
<1>7. \A j \in 1..7 : w[j] \in Int
  <2>1. w[1] \in Int /\ w[2] \in Int /\ w[3] \in Int /\ w[4] \in Int /\ w[5] \in Int
        /\ w[6] \in Int /\ w[7] \in Int
    BY <1>1, <1>2, <1>3, <1>6
  <2> QED BY <2>1
<1> QED BY <1>1, <1>2, <1>3, <1>6, <1>7 DEF w

\* The words of a function
LEMMA FunctionWritten ==
  ASSUME NEW f, funcs[f] \in SymbolTableEntry
  PROVE  LET w == write_function(f)
         IN  /\ Len(w) = 3 /\ \A j \in 1..3 : w[j] \in Nat \union Names
             /\ [taddress |-> w[1], offset |-> w[2], name |-> w[3]] = funcs[f]
<1>1. /\ funcs[f].name \in Names /\ funcs[f].taddress \in Nat /\ funcs[f].offset \in Nat
      /\ funcs[f] = [taddress |-> funcs[f].taddress, offset |-> funcs[f].offset,
                     name |-> funcs[f].name]
  BY DEF SymbolTableEntry
<1>2. LET w == write_function(f)
      IN Len(w) = 3 /\ w[1] = funcs[f].taddress /\ w[2] = funcs[f].offset /\ w[3] = funcs[f].name
  BY DEF write_function
<1>3. \A j \in 1..3 : j = 1 \/ j = 2 \/ j = 3
  OBVIOUS
<1> QED BY <1>1, <1>2, <1>3

\* The words behind place p of f are those of s.
Has(f, p, s) == p + Len(s) <= Len(f) /\ \A i \in 1..Len(s) : f[p + i] = s[i]

\* What is in a file stays there when more is written behind it.
LEMMA Written ==
  ASSUME NEW W, NEW f \in Seq(W), NEW t \in Seq(W)
  PROVE  /\ f \o t \in Seq(W) /\ Len(f \o t) = Len(f) + Len(t) /\ Has(f \o t, Len(f), t)
         /\ \A p \in Nat : \A s \in Seq(W) : Has(f, p, s) => Has(f \o t, p, s)
<1>1. /\ f \o t \in Seq(W) /\ Len(f \o t) = Len(f) + Len(t)
      /\ \A i \in 1..Len(f) : (f \o t)[i] = f[i]
      /\ \A i \in 1..Len(t) : (f \o t)[Len(f) + i] = t[i]
  BY Behind
<1>2. Len(f) \in Nat /\ Len(t) \in Nat
  OBVIOUS
<1>3. Has(f \o t, Len(f), t)
  BY <1>1, <1>2 DEF Has
<1>4. ASSUME NEW p \in Nat, NEW s \in Seq(W), Has(f, p, s)
      PROVE  Has(f \o t, p, s)
  <2>1. Len(s) \in Nat
    OBVIOUS
  <2>2. p + Len(s) <= Len(f \o t)
    BY <1>1, <1>2, <1>4, <2>1 DEF Has
  <2>3. ASSUME NEW i \in 1..Len(s)
        PROVE  (f \o t)[p + i] = s[i]
    <3> DEFINE k == p + i
    <3>1. k \in 1..Len(f) /\ f[k] = s[i]
      BY <1>2, <1>4, <2>1 DEF Has
    <3> HIDE DEF k
    <3>2. (f \o t)[k] = f[k]
      BY <1>1, <3>1
    <3> QED BY <3>1, <3>2 DEF k
  <2> QED BY <2>2, <2>3 DEF Has
<1> QED BY <1>1, <1>3, <1>4

\* t is s behind its length.
Counts(t, s) == Len(t) = Len(s) + 1 /\ t[1] = Len(s) /\ \A i \in 1..Len(s) : t[1 + i] = s[i]

\* The parts of a file, one after the other
FileOf(M, A, B, m, U, L, n, N, C) ==
  <<M>> \o Counted(A) \o Counted(B) \o <<m>> \o U \o Counted(L) \o <<n>> \o N \o C

\* A list is written behind its length.
LEMMA CountedIs ==
  ASSUME NEW W, Nat \subseteq W, NEW s \in Seq(W)
  PROVE  Counted(s) \in Seq(W) /\ Counts(Counted(s), s)
<1> DEFINE h == <<Len(s)>>
<1>1. h \in Seq(W) /\ Len(h) = 1 /\ h[1] = Len(s) /\ Len(s) \in Nat
  <2>1. Len(s) \in Nat
    OBVIOUS
  <2>2. Len(s) \in W
    BY <2>1
  <2> QED BY <2>1, <2>2
<1> HIDE DEF h
<1>2. /\ h \o s \in Seq(W) /\ Len(h \o s) = Len(h) + Len(s)
      /\ \A i \in 1..Len(h) : (h \o s)[i] = h[i]
      /\ \A i \in 1..Len(s) : (h \o s)[Len(h) + i] = s[i]
  <2>1. h \in Seq(W)
    BY <1>1
  <2> QED BY <2>1, Behind
<1>3. Counted(s) = h \o s
  BY DEF Counted, h
<1> QED BY <1>1, <1>2, <1>3 DEF Counts

\* s can be read in f behind place p: its length comes first.
Listed(f, p, s) == f[p + 1] = Len(s) /\ Has(f, p + 1, s)

\* A list behind its length is read so.
LEMMA ListAt ==
  ASSUME NEW W, NEW f \in Seq(W), NEW p \in Nat, NEW s \in Seq(W), NEW t \in Seq(W),
         Counts(t, s), Has(f, p, t)
  PROVE  Listed(f, p, s)
<1>1. Len(s) \in Nat /\ Len(f) \in Nat
  OBVIOUS
<1>2. f[p + 1] = t[1] /\ p + (Len(s) + 1) <= Len(f)
  BY <1>1 DEF Has, Counts
<1>3. ASSUME NEW i \in 1..Len(s)
      PROVE  f[(p + 1) + i] = s[i]
  <2>1. 1 + i \in 1..Len(t) /\ t[1 + i] = s[i]
    BY <1>1 DEF Counts
  <2>2. f[p + (1 + i)] = t[1 + i]
    BY <2>1 DEF Has
  <2>3. p + (1 + i) = (p + 1) + i
    BY <1>1
  <2> QED BY <2>1, <2>2, <2>3
<1>4. f[p + 1] = Len(s)
  BY <1>2 DEF Counts
<1>5. Has(f, p + 1, s)
  BY <1>1, <1>2, <1>3 DEF Has
<1> QED BY <1>4, <1>5 DEF Listed

\* Where the lengths of the parts of a file are, each told by those before it
Places(A, B, U, L, b, u, l, k) ==
  b = 3 + Len(A) /\ u = b + 1 + Len(B) /\ l = u + 1 + Len(U) /\ k = l + 1 + Len(L)

\* A file that has its parts there
PartsAt(F, b, u, l, k, A, B, m, U, L, n, N, C) ==
  /\ F[2] = Len(A) /\ Has(F, 2, A) /\ F[b] = Len(B) /\ Has(F, b, B)
  /\ F[u] = m /\ Has(F, u, U) /\ F[l] = Len(L) /\ Has(F, l, L)
  /\ F[k] = n /\ Has(F, k, N) /\ Has(F, k + Len(N), C)

\* A file has its parts where the lengths before them say.
LEMMA FileParts ==
  ASSUME NEW W, Nat \subseteq W, NEW M \in W, NEW A \in Seq(W), NEW B \in Seq(W),
         NEW m \in W, NEW U \in Seq(W), NEW L \in Seq(W), NEW n \in W, NEW N \in Seq(W),
         NEW C \in Seq(W), NEW F, F = FileOf(M, A, B, m, U, L, n, N, C),
         NEW b, NEW u, NEW l, NEW k, Places(A, B, U, L, b, u, l, k)
  PROVE  F \in Seq(W) /\ PartsAt(F, b, u, l, k, A, B, m, U, L, n, N, C)
<1>1. b = 3 + Len(A) /\ u = b + 1 + Len(B) /\ l = u + 1 + Len(U) /\ k = l + 1 + Len(L)
  BY DEF Places
<1>2. Len(A) \in Nat /\ Len(B) \in Nat /\ Len(U) \in Nat /\ Len(L) \in Nat /\ Len(N) \in Nat
      /\ b \in Nat /\ u \in Nat /\ l \in Nat /\ k \in Nat
  BY <1>1
<1>3. \A x \in W : <<x>> \in Seq(W) /\ Len(<<x>>) = 1 /\ <<x>>[1] = x
  OBVIOUS
<1>4. \A s \in Seq(W) : Counted(s) \in Seq(W) /\ Counts(Counted(s), s)
  BY CountedIs
<1> DEFINE Into(f, g) == \A p \in Nat : \A s \in Seq(W) : Has(f, p, s) => Has(g, p, s)
<1>5. ASSUME NEW f \in Seq(W), NEW t \in Seq(W), NEW g, g = f \o t
      PROVE  g \in Seq(W) /\ Len(g) = Len(f) + Len(t) /\ Has(g, Len(f), t) /\ Into(f, g)
  BY <1>5, Written
<1> HIDE DEF Into
<1>6. PICK a1, b1, l1, m1, n1 : a1 = Counted(A) /\ b1 = Counted(B) /\ l1 = Counted(L)
                                /\ m1 = <<m>> /\ n1 = <<n>>
  OBVIOUS
<1>7. /\ a1 \in Seq(W) /\ Counts(a1, A) /\ b1 \in Seq(W) /\ Counts(b1, B)
      /\ l1 \in Seq(W) /\ Counts(l1, L)
  BY <1>4, <1>6
<1>8. m1 \in Seq(W) /\ Len(m1) = 1 /\ m1[1] = m /\ n1 \in Seq(W) /\ Len(n1) = 1 /\ n1[1] = n
  BY <1>3, <1>6
<1>9. PICK F1 : F1 = <<M>>
  OBVIOUS
<1>10. PICK F2 : F2 = F1 \o a1
  OBVIOUS
<1>11. PICK F3 : F3 = F2 \o b1
  OBVIOUS
<1>12. PICK F4 : F4 = F3 \o m1
  OBVIOUS
<1>13. PICK F5 : F5 = F4 \o U
  OBVIOUS
<1>14. PICK F6 : F6 = F5 \o l1
  OBVIOUS
<1>15. PICK F7 : F7 = F6 \o n1
  OBVIOUS
<1>16. PICK F8 : F8 = F7 \o N
  OBVIOUS
<1>17. F = F8 \o C
  BY <1>6, <1>9, <1>10, <1>11, <1>12, <1>13, <1>14, <1>15, <1>16 DEF FileOf
<1>18. F1 \in Seq(W) /\ Len(F1) = 1
  BY <1>3, <1>9
<1>19. /\ a1 \in Seq(W) /\ b1 \in Seq(W) /\ m1 \in Seq(W) /\ U \in Seq(W) /\ l1 \in Seq(W)
      /\ n1 \in Seq(W) /\ N \in Seq(W) /\ C \in Seq(W)
  BY <1>7, <1>8
<1>20. F2 \in Seq(W) /\ Len(F2) = Len(F1) + Len(a1) /\ Has(F2, Len(F1), a1) /\ Into(F1, F2)
  <2>1. F1 \in Seq(W)
    BY <1>18
  <2> QED BY <1>10, <1>5, <1>19, <2>1
<1>21. F3 \in Seq(W) /\ Len(F3) = Len(F2) + Len(b1) /\ Has(F3, Len(F2), b1) /\ Into(F2, F3)
  <2>1. F2 \in Seq(W)
    BY <1>20
  <2> QED BY <1>11, <1>5, <1>19, <2>1
<1>22. F4 \in Seq(W) /\ Len(F4) = Len(F3) + Len(m1) /\ Has(F4, Len(F3), m1) /\ Into(F3, F4)
  <2>1. F3 \in Seq(W)
    BY <1>21
  <2> QED BY <1>12, <1>5, <1>19, <2>1
<1>23. F5 \in Seq(W) /\ Len(F5) = Len(F4) + Len(U) /\ Has(F5, Len(F4), U) /\ Into(F4, F5)
  <2>1. F4 \in Seq(W)
    BY <1>22
  <2> QED BY <1>13, <1>5, <1>19, <2>1
<1>24. F6 \in Seq(W) /\ Len(F6) = Len(F5) + Len(l1) /\ Has(F6, Len(F5), l1) /\ Into(F5, F6)
  <2>1. F5 \in Seq(W)
    BY <1>23
  <2> QED BY <1>14, <1>5, <1>19, <2>1
<1>25. F7 \in Seq(W) /\ Len(F7) = Len(F6) + Len(n1) /\ Has(F7, Len(F6), n1) /\ Into(F6, F7)
  <2>1. F6 \in Seq(W)
    BY <1>24
  <2> QED BY <1>15, <1>5, <1>19, <2>1
<1>26. F8 \in Seq(W) /\ Len(F8) = Len(F7) + Len(N) /\ Has(F8, Len(F7), N) /\ Into(F7, F8)
  <2>1. F7 \in Seq(W)
    BY <1>25
  <2> QED BY <1>16, <1>5, <1>19, <2>1
<1>27. F \in Seq(W) /\ Len(F) = Len(F8) + Len(C) /\ Has(F, Len(F8), C) /\ Into(F8, F)
  <2>1. F8 \in Seq(W)
    BY <1>26
  <2> QED BY <1>17, <1>5, <1>19, <2>1
<1>28. /\ Into(F7, F) /\ Into(F6, F) /\ Into(F5, F) /\ Into(F4, F) /\ Into(F3, F) /\ Into(F2, F)
  BY <1>21, <1>22, <1>23, <1>24, <1>25, <1>26, <1>27 DEF Into
<1>29. /\ Len(F1) = 1 /\ Len(F2) = 2 + Len(A) /\ Len(F3) = 3 + Len(A) + Len(B) /\ Len(F4) = u
      /\ Len(F5) = u + Len(U) /\ Len(F6) = l + Len(L) /\ Len(F7) = k /\ Len(F8) = k + Len(N)
  <2>1. Len(a1) = Len(A) + 1 /\ Len(b1) = Len(B) + 1 /\ Len(l1) = Len(L) + 1
    BY <1>7 DEF Counts
  <2> QED BY <1>2, <1>1, <2>1, <1>8, <1>18, <1>20, <1>21, <1>22, <1>23, <1>24, <1>25, <1>26
<1>30. /\ Len(F1) \in Nat /\ Len(F2) \in Nat /\ Len(F3) \in Nat /\ Len(F4) \in Nat /\ Len(F5) \in Nat
      /\ Len(F6) \in Nat /\ Len(F7) \in Nat /\ Len(F8) \in Nat
  BY <1>2, <1>29
<1>31. /\ Has(F, Len(F1), a1) /\ Has(F, Len(F2), b1) /\ Has(F, Len(F3), m1) /\ Has(F, Len(F4), U)
      /\ Has(F, Len(F5), l1) /\ Has(F, Len(F6), n1) /\ Has(F, Len(F7), N) /\ Has(F, Len(F8), C)
  BY <1>19, <1>20, <1>21, <1>22, <1>23, <1>24, <1>25, <1>26, <1>27, <1>28, <1>30 DEF Into
<1>32. /\ F \in Seq(W) /\ Has(F, 1, a1) /\ Has(F, 2 + Len(A), b1)
       /\ Has(F, 3 + Len(A) + Len(B), m1) /\ Has(F, u, U) /\ Has(F, u + Len(U), l1)
       /\ Has(F, l + Len(L), n1) /\ Has(F, k, N) /\ Has(F, k + Len(N), C)
  BY <1>27, <1>29, <1>31
<1>33. F[2] = Len(A) /\ Has(F, 2, A)
  <2>1. Listed(F, 1, A)
    BY <1>7, <1>32, ListAt
  <2> QED BY <2>1 DEF Listed
<1>34. F[b] = Len(B) /\ Has(F, b, B)
  <2> DEFINE p == 2 + Len(A)
  <2>1. p \in Nat /\ Has(F, p, b1)
    BY <1>2, <1>32
  <2> HIDE DEF p
  <2>2. Listed(F, p, B)
    BY <2>1, <1>7, <1>32, ListAt
  <2>3. p + 1 = b
    BY <1>2, <1>1 DEF p
  <2> QED BY <2>2, <2>3 DEF Listed
<1>35. F[l] = Len(L) /\ Has(F, l, L)
  <2> DEFINE p == u + Len(U)
  <2>1. p \in Nat /\ Has(F, p, l1)
    BY <1>2, <1>32
  <2> HIDE DEF p
  <2>2. Listed(F, p, L)
    BY <2>1, <1>7, <1>32, ListAt
  <2>3. p + 1 = l
    BY <1>2, <1>1 DEF p
  <2> QED BY <2>2, <2>3 DEF Listed
<1>36. F[u] = m /\ F[k] = n
  <2>1. F[3 + Len(A) + Len(B) + 1] = m
    <3>1. Has(F, 3 + Len(A) + Len(B), m1) /\ 1 \in 1..Len(m1) /\ m1[1] = m
      BY <1>8, <1>32
    <3> QED BY <3>1 DEF Has
  <2>2. F[l + Len(L) + 1] = n
    <3>1. Has(F, l + Len(L), n1) /\ 1 \in 1..Len(n1) /\ n1[1] = n
      BY <1>8, <1>32
    <3> QED BY <3>1 DEF Has
  <2>3. 3 + Len(A) + Len(B) + 1 = u /\ l + Len(L) + 1 = k
    BY <1>2, <1>1
  <2> QED BY <2>1, <2>2, <2>3
<1> QED BY <1>32, <1>33, <1>34, <1>35, <1>36 DEF PartsAt

\* What is written in a file, number or name
Word == Int \union Names

\* A list that is at p can be read from there.
LEMMA ListRead ==
  ASSUME NEW W, NEW f \in Seq(W), NEW p \in Nat, NEW s \in Seq(W), Has(f, p, s)
  PROVE  SubSeq(f, p + 1, p + Len(s)) = s
<1> DEFINE r == SubSeq(f, p + 1, p + Len(s))
<1>1. Len(s) \in Nat /\ Len(f) \in Nat
  OBVIOUS
<1>2. \A i \in 1..Len(s) : f[p + i] = s[i]
  BY DEF Has
<1>3. \A i \in (p + 1)..(p + Len(s)) : f[i] \in W
  <2> SUFFICES ASSUME NEW i \in (p + 1)..(p + Len(s))
               PROVE  f[i] \in W
    OBVIOUS
  <2>1. i \in 1..Len(f)
    BY <1>1 DEF Has
  <2> QED BY <2>1
<1>4. p + 1 \in Int /\ p + Len(s) \in Int
  BY <1>1
<1>5. /\ r \in Seq(W)
      /\ Len(r) = IF p + 1 <= p + Len(s) THEN p + Len(s) - (p + 1) + 1 ELSE 0
      /\ \A i \in 1..(p + Len(s) - (p + 1) + 1) : r[i] = f[p + 1 + i - 1]
  BY <1>3, <1>4, SubSeqProperties
<1> HIDE DEF r
<1>6. Len(r) = Len(s)
  BY <1>1, <1>5
<1>7. ASSUME NEW i \in 1..Len(s)
      PROVE  r[i] = s[i]
  <2>1. i \in 1..(p + Len(s) - (p + 1) + 1) /\ p + 1 + i - 1 = p + i
    BY <1>1
  <2> QED BY <1>2, <1>5, <2>1
<1>8. r = s
  BY <1>5, <1>6, <1>7, SeqEqual
<1> QED BY <1>8 DEF r

\* Who reads the file that is written finds the tables and the instructions in it.
LEMMA ReadBack ==
  ASSUME Inductive
  PROVE  LET loaded == Loaded(write_abc)
         IN  /\ loaded.strings = tables.strings.element
             /\ loaded.numbers = tables.numbers.element
             /\ loaded.libfuncs = tables.libfuncs.element
             /\ loaded.userfuncs = [i \in DOMAIN tables.userfuncs.element |->
                                      funcs[tables.userfuncs.element[i]]]
             /\ loaded.code = instructions.element
<1> DEFINE A == tables.strings.element
           B == tables.numbers.element
           fs == tables.userfuncs.element
           L == tables.libfuncs.element
           code == instructions.element
           m == Len(fs)
           n == Len(code)
           us == [i \in DOMAIN fs |-> write_function(fs[i])]
           cs == [i \in DOMAIN code |-> write_instruction(code[i])]
           U == Joined(3, us)
           N == [i \in DOMAIN code |-> code[i].srcLine]
           C == Joined(7, cs)
           F == write_abc
           b == 3 + Len(A)
           u == b + 1 + Len(B)
           l == u + 1 + Len(U)
           k == l + 1 + Len(L)
<1>1. /\ A \in Seq(Int) /\ B \in Seq(Int) /\ fs \in Seq(Int) /\ L \in Seq(Int)
      /\ \A i \in DOMAIN fs : fs[i] \in DOMAIN funcs
  <2>1. /\ tables.strings \in ArrayList(Int) /\ tables.numbers \in ArrayList(Int)
        /\ tables.userfuncs \in ArrayList(Int) /\ tables.libfuncs \in ArrayList(Int)
    BY DEF Inductive, TypeOK, TableNames
  <2> QED BY <2>1 DEF ArrayList, Inductive, TablesServe, Good
<1>2. code \in Seq(Instruction) /\ funcs \in Seq(SymbolTableEntry)
  BY DEF Inductive, TypeOK, ArrayList
<1>3. m \in Nat /\ n \in Nat /\ DOMAIN fs = 1..m /\ DOMAIN code = 1..n
  BY <1>1, <1>2
<1>4. A \in Seq(Word) /\ B \in Seq(Word) /\ L \in Seq(Word)
  BY <1>1 DEF Word
<1>5. Nat \subseteq Word /\ Int \subseteq Word /\ MagicNumber \in Word /\ m \in Word /\ n \in Word
  BY <1>3 DEF Word, MagicNumber
<1> HIDE DEF A, B, fs, L, code, m, n
<1>6. \A i \in 1..m : LET w == us[i]
                      IN  /\ Len(w) = 3 /\ \A j \in 1..3 : w[j] \in Word
                          /\ [taddress |-> w[1], offset |-> w[2], name |-> w[3]] = funcs[fs[i]]
  <2> SUFFICES ASSUME NEW i \in 1..m
               PROVE  LET w == write_function(fs[i])
                      IN  /\ Len(w) = 3 /\ \A j \in 1..3 : w[j] \in Word
                          /\ [taddress |-> w[1], offset |-> w[2], name |-> w[3]] = funcs[fs[i]]
    BY <1>3
  <2>1. funcs[fs[i]] \in SymbolTableEntry
    <3>1. fs[i] \in DOMAIN funcs
      BY <1>1, <1>3
    <3> QED BY <1>2, <3>1
  <2>2. LET w == write_function(fs[i])
        IN  /\ Len(w) = 3 /\ \A j \in 1..3 : w[j] \in Nat \union Names
            /\ [taddress |-> w[1], offset |-> w[2], name |-> w[3]] = funcs[fs[i]]
    BY <2>1, FunctionWritten
  <2>3. Nat \union Names \subseteq Word
    BY DEF Word
  <2> QED BY <2>2, <2>3
<1>7. \A i \in 1..n : LET w == cs[i]
                          Operand(j) == Arg(VMarg_type[w[j]], w[j + 1])
                      IN  /\ Len(w) = 7 /\ \A j \in 1..7 : w[j] \in Word
                          /\ VMopcode[w[1]] = code[i].opcode
                          /\ Operand(2) = code[i].result /\ Operand(4) = code[i].arg1
                          /\ Operand(6) = code[i].arg2
  <2> SUFFICES ASSUME NEW i \in 1..n
               PROVE  LET w == write_instruction(code[i])
                          Operand(j) == Arg(VMarg_type[w[j]], w[j + 1])
                      IN  /\ Len(w) = 7 /\ \A j \in 1..7 : w[j] \in Word
                          /\ VMopcode[w[1]] = code[i].opcode
                          /\ Operand(2) = code[i].result /\ Operand(4) = code[i].arg1
                          /\ Operand(6) = code[i].arg2
    BY <1>3
  <2>1. code[i] \in Instruction
    BY <1>2, <1>3
  <2> QED BY <1>5, <2>1, InstructionWritten
<1>8. /\ U \in Seq(Word) /\ Len(U) = 3 * m
      /\ \A i \in 1..m : \A j \in 1..3 : U[Place(3, i, j)] = us[i][j]
  <2>1. Len(us) = m
    BY <1>3
  <2> HIDE DEF us
  <2>2. Words(Word, 3, m, us)
    BY <1>6 DEF Words
  <2>3. U \in Seq(Word) /\ Len(U) = 3 * m /\ InARow(U, 3, m, us)
    BY <1>3, <2>1, <2>2, Joining
  <2> QED BY <2>3 DEF InARow
<1>9. /\ C \in Seq(Word) /\ Len(C) = 7 * n
      /\ \A i \in 1..n : \A j \in 1..7 : C[Place(7, i, j)] = cs[i][j]
  <2>1. Len(cs) = n
    BY <1>3
  <2> HIDE DEF cs
  <2>2. Words(Word, 7, n, cs)
    BY <1>7 DEF Words
  <2>3. C \in Seq(Word) /\ Len(C) = 7 * n /\ InARow(C, 7, n, cs)
    BY <1>3, <2>1, <2>2, Joining
  <2> QED BY <2>3 DEF InARow
<1>10. N \in Seq(Word) /\ Len(N) = n /\ \A i \in 1..n : N[i] = code[i].srcLine
  <2>1. \A i \in 1..n : code[i].srcLine \in Word
    <3> SUFFICES ASSUME NEW i \in 1..n
                 PROVE  code[i].srcLine \in Word
      OBVIOUS
    <3>1. code[i] \in Instruction
      BY <1>2, <1>3
    <3> QED BY <1>5, <3>1 DEF Instruction
  <2>2. N = [i \in 1..n |-> code[i].srcLine]
    BY <1>3
  <2>3. [i \in 1..n |-> code[i].srcLine] \in Seq(Word)
    BY <1>3, <2>1, IsASeq
  <2> QED BY <1>3, <2>2, <2>3
<1>11. F = FileOf(MagicNumber, A, B, m, U, L, n, N, C)
  BY DEF write_abc, FileOf, A, B, fs, L, code, m, n
<1> HIDE DEF us, cs, U, N, C, F
<1>12. Places(A, B, U, L, b, u, l, k)
  BY DEF Places
<1> HIDE DEF b, u, l, k
<1>13. /\ F \in Seq(Word)
       /\ F[2] = Len(A) /\ Has(F, 2, A) /\ F[b] = Len(B) /\ Has(F, b, B)
       /\ F[u] = m /\ Has(F, u, U) /\ F[l] = Len(L) /\ Has(F, l, L)
       /\ F[k] = n /\ Has(F, k, N) /\ Has(F, k + Len(N), C)
  <2>1. U \in Seq(Word) /\ N \in Seq(Word) /\ C \in Seq(Word)
    BY <1>8, <1>9, <1>10
  <2>2. PartsAt(F, b, u, l, k, A, B, m, U, L, n, N, C) /\ F \in Seq(Word)
    BY <1>4, <1>5, <1>11, <1>12, <2>1, FileParts
  <2> QED BY <2>2 DEF PartsAt
<1>14. /\ Len(A) \in Nat /\ Len(B) \in Nat /\ Len(U) \in Nat /\ Len(L) \in Nat /\ Len(N) \in Nat
       /\ b \in Nat /\ u \in Nat /\ l \in Nat /\ k \in Nat
  BY <1>4, <1>8, <1>10 DEF b, u, l, k
<1>15. /\ 3 + F[2] = b /\ b + 1 + F[b] = u /\ u + 1 + 3 * F[u] = l /\ l + 1 + F[l] = k
  BY <1>8, <1>13 DEF b, u, l, k
<1> DEFINE Operand(p) == Arg(VMarg_type[F[p]], F[p + 1])
           Function(p) == [taddress |-> F[p], offset |-> F[p + 1], name |-> F[p + 2]]
           Decoded(p, line) == [opcode |-> VMopcode[F[p]], result |-> Operand(p + 1),
                                arg1 |-> Operand(p + 3), arg2 |-> Operand(p + 5),
                                srcLine |-> line]
           loaded == Loaded(F)
<1>16. /\ loaded.strings = SubSeq(F, 2 + 1, 2 + F[2])
       /\ loaded.numbers = SubSeq(F, b + 1, b + F[b])
       /\ loaded.libfuncs = SubSeq(F, l + 1, l + F[l])
       /\ loaded.userfuncs = [i \in 1..F[u] |-> Function(u + 3 * i - 2)]
       /\ loaded.code = [i \in 1..F[k] |-> Decoded(k + F[k] + 7 * i - 6, F[k + i])]
  BY <1>15 DEF Loaded
<1>17. loaded.strings = A /\ loaded.numbers = B /\ loaded.libfuncs = L
  <2>1. SubSeq(F, 2 + 1, 2 + Len(A)) = A
    BY <1>4, <1>13, ListRead
  <2>2. SubSeq(F, b + 1, b + Len(B)) = B
    BY <1>4, <1>13, <1>14, ListRead
  <2>3. SubSeq(F, l + 1, l + Len(L)) = L
    BY <1>4, <1>13, <1>14, ListRead
  <2> QED BY <1>13, <1>16, <2>1, <2>2, <2>3
<1>18. \A i \in 1..m : Function(u + 3 * i - 2) = funcs[fs[i]]
  <2> SUFFICES ASSUME NEW i \in 1..m
               PROVE  Function(u + 3 * i - 2) = funcs[fs[i]]
    OBVIOUS
  <2>1. ASSUME NEW j \in 1..3
        PROVE  F[u + (3 * (i - 1) + j)] = us[i][j]
    <3>1. 3 * (i - 1) + j \in 1..Len(U)
      BY <1>3, <1>8
    <3>2. F[u + (3 * (i - 1) + j)] = U[Place(3, i, j)]
      BY <1>13, <3>1 DEF Has, Place
    <3> QED BY <1>8, <3>2
  <2>2. /\ u + (3 * (i - 1) + 1) = u + 3 * i - 2 /\ u + (3 * (i - 1) + 2) = u + 3 * i - 2 + 1
        /\ u + (3 * (i - 1) + 3) = u + 3 * i - 2 + 2
    BY <1>3, <1>14
  <2>3. F[u + (3 * (i - 1) + 1)] = us[i][1] /\ F[u + (3 * (i - 1) + 2)] = us[i][2]
        /\ F[u + (3 * (i - 1) + 3)] = us[i][3]
    BY <2>1
  <2>4. Function(u + 3 * i - 2) = [taddress |-> us[i][1], offset |-> us[i][2], name |-> us[i][3]]
    BY <2>2, <2>3
  <2> QED BY <1>6, <2>4
<1>19. \A i \in 1..n : Decoded(k + n + 7 * i - 6, F[k + i]) = code[i]
  <2> SUFFICES ASSUME NEW i \in 1..n
               PROVE  Decoded(k + n + 7 * i - 6, F[k + i]) = code[i]
    OBVIOUS
  <2> DEFINE p == k + n + 7 * i - 6
             w == cs[i]
  <2>1. ASSUME NEW j \in 1..7
        PROVE  F[p + (j - 1)] = w[j]
    <3>1. 7 * (i - 1) + j \in 1..Len(C)
      BY <1>3, <1>9
    <3>2. F[k + Len(N) + (7 * (i - 1) + j)] = C[Place(7, i, j)]
      BY <1>13, <3>1 DEF Has, Place
    <3>3. k + Len(N) + (7 * (i - 1) + j) = p + (j - 1)
      <4>1. k \in Int /\ n \in Int /\ i \in Int /\ j \in Int /\ Len(N) = n
        BY <1>3, <1>10, <1>14
      <4> QED BY <4>1
    <3> QED BY <1>9, <3>2, <3>3
  <2>2. p \in Int
    BY <1>3, <1>14
  <2> HIDE DEF p, w
  <2>3. /\ F[p] = w[1] /\ F[p + 1] = w[2] /\ F[p + 1 + 1] = w[3] /\ F[p + 3] = w[4]
        /\ F[p + 3 + 1] = w[5] /\ F[p + 5] = w[6] /\ F[p + 5 + 1] = w[7]
    <3>1. /\ F[p + (1 - 1)] = w[1] /\ F[p + (2 - 1)] = w[2] /\ F[p + (3 - 1)] = w[3]
          /\ F[p + (4 - 1)] = w[4] /\ F[p + (5 - 1)] = w[5] /\ F[p + (6 - 1)] = w[6]
          /\ F[p + (7 - 1)] = w[7]
      BY <2>1
    <3>2. /\ p + (1 - 1) = p /\ p + (2 - 1) = p + 1 /\ p + (3 - 1) = p + 1 + 1
          /\ p + (4 - 1) = p + 3 /\ p + (5 - 1) = p + 3 + 1 /\ p + (6 - 1) = p + 5
          /\ p + (7 - 1) = p + 5 + 1
      BY <2>2
    <3> QED BY <3>1, <3>2
  <2>4. F[k + i] = code[i].srcLine
    <3>1. F[k + i] = N[i]
      BY <1>10, <1>13 DEF Has
    <3> QED BY <1>10, <3>1
  <2>5. /\ VMopcode[w[1]] = code[i].opcode
        /\ Arg(VMarg_type[w[2]], w[3]) = code[i].result
        /\ Arg(VMarg_type[w[4]], w[5]) = code[i].arg1
        /\ Arg(VMarg_type[w[6]], w[7]) = code[i].arg2
    <3>1. /\ Arg(VMarg_type[w[2]], w[2 + 1]) = code[i].result
          /\ Arg(VMarg_type[w[4]], w[4 + 1]) = code[i].arg1
          /\ Arg(VMarg_type[w[6]], w[6 + 1]) = code[i].arg2
          /\ VMopcode[w[1]] = code[i].opcode
      BY <1>7 DEF w
    <3> QED BY <3>1
  <2>6. Decoded(p, F[k + i]) =
          [opcode |-> code[i].opcode, result |-> code[i].result, arg1 |-> code[i].arg1,
           arg2 |-> code[i].arg2, srcLine |-> code[i].srcLine]
    BY <2>3, <2>4, <2>5
  <2>7. code[i] \in Instruction
    BY <1>2, <1>3
  <2>8. code[i] = [opcode |-> code[i].opcode, result |-> code[i].result, arg1 |-> code[i].arg1,
                   arg2 |-> code[i].arg2, srcLine |-> code[i].srcLine]
    BY <2>7 DEF Instruction
  <2> QED BY <2>6, <2>8 DEF p
<1> HIDE DEF loaded, Decoded, Function
<1>20. loaded.userfuncs = [i \in DOMAIN fs |-> funcs[fs[i]]]
  <2>1. loaded.userfuncs = [i \in 1..m |-> Function(u + 3 * i - 2)]
    BY <1>13, <1>16
  <2> QED BY <1>3, <1>18, <2>1
<1>21. loaded.code = code
  <2>1. loaded.code = [i \in 1..n |-> Decoded(k + n + 7 * i - 6, F[k + i])]
    BY <1>13, <1>16
  <2>2. loaded.code = [i \in 1..n |-> code[i]]
    BY <1>19, <2>1
  <2> QED BY <1>2, <1>3, <2>2
<1> QED BY <1>17, <1>20, <1>21 DEF A, B, fs, L, code, F, loaded

\* What code there is says what the quads say that it was made from; a file is
\* written when it says all, and holds it ever after.
Served ==
  /\ \A i \in 1..current_processed_quad : Code[i] = Source[i]
  /\ file # <<>> => phase = "done" /\ file = write_abc /\ Code = Source

\* Code has an element for each quad that is done.
LEMMA CodeDone ==
  ASSUME Inductive
  PROVE  /\ DOMAIN Code = 1..current_processed_quad /\ Len(Code) = current_processed_quad
         /\ Code = [i \in 1..current_processed_quad |-> Code[i]]
         /\ DOMAIN Source = 1..curr_quad /\ Len(Source) = curr_quad
         /\ Source = [i \in 1..curr_quad |-> Source[i]]
<1>1. instructions.element \in Seq(Instruction)
      /\ current_processed_quad = Len(instructions.element) /\ curr_quad \in Nat
  BY Typed DEF Inductive
<1>2. DOMAIN instructions.element = 1..current_processed_quad /\ current_processed_quad \in Nat
  BY <1>1
<1>3. Code = [i \in 1..current_processed_quad |-> CodeMeaning(Constants, instructions.element[i])]
  BY <1>2 DEF Code
<1>4. DOMAIN Code = 1..current_processed_quad /\ Len(Code) = current_processed_quad
      /\ Code = [i \in 1..current_processed_quad |-> Code[i]]
  BY <1>2, <1>3
<1>5. DOMAIN Source = 1..curr_quad /\ Len(Source) = curr_quad
      /\ Source = [i \in 1..curr_quad |-> Source[i]]
  BY <1>1 DEF Source
<1> QED BY <1>4, <1>5

\* A round adds the meaning of one more quad.
LEMMA RoundServes ==
  ASSUME Inductive, Served, Round
  PROVE  Served'
<1> DEFINE n == current_processed_quad
<1>1. Source' = Source /\ Code' = Append(Code, Source[n + 1])
  <2>1. Translation!Translate
    BY RoundTranslates
  <2> QED BY <2>1, CodeDone DEF Translation!Translate
<1>2. n' = n + 1 /\ n \in Nat /\ phase = "generate" /\ file' = file
  <2>1. n' = n + 1
    BY RoundMakes
  <2>2. n \in Nat
    BY Typed DEF Inductive
  <2> QED BY <2>1, <2>2 DEF Round, Generate
<1>3. Code = [i \in 1..n |-> Code[i]] /\ Len(Code) = n
  BY CodeDone
<1> HIDE DEF n
<1>4. /\ \A i \in 1..n : Append(Code, Source[n + 1])[i] = Code[i]
      /\ Append(Code, Source[n + 1])[n + 1] = Source[n + 1]
  <2> DEFINE S == {Code[i] : i \in 1..n} \union {Source[n + 1]}
  <2>1. PICK c, x : c = Code /\ x = Source[n + 1]
    OBVIOUS
  <2>2. c \in Seq(S)
    <3>1. \A i \in 1..n : Code[i] \in S
      OBVIOUS
    <3> HIDE DEF S
    <3>2. [i \in 1..n |-> Code[i]] \in Seq(S)
      BY <1>2, <3>1, IsASeq
    <3> QED BY <1>3, <2>1, <3>2
  <2>3. x \in S
    BY <2>1
  <2> HIDE DEF S
  <2>4. Len(c) = n
    BY <1>3, <2>1
  <2>5. (\A i \in 1..n : Append(c, x)[i] = c[i]) /\ Append(c, x)[n + 1] = x
    BY <1>2, <2>2, <2>3, <2>4
  <2> QED BY <2>1, <2>5
<1>5. \A i \in 1..n' : Code'[i] = Source'[i]
  <2>1. \A i \in 1..n' : i \in 1..n \/ i = n + 1
    BY <1>2
  <2>2. \A i \in 1..n : Code[i] = Source[i]
    BY DEF Served, n
  <2> QED BY <1>1, <1>4, <2>1, <2>2
<1>6. file' = <<>>
  BY <1>2 DEF Served
<1> QED BY <1>5, <1>6 DEF Served, n

\* Nothing of what is written changes with what is left alone.
LEMMA SameFile ==
  ASSUME UNCHANGED <<funcs, tables, instructions>>
  PROVE  write_abc' = write_abc
BY DEF write_abc, write_function

\* Steps other than rounds leave the code, and a file once it is there.
LEMMA Serves == Inductive /\ Served /\ [Next]_vars => Served'
<1> SUFFICES ASSUME Inductive, Served, [Next]_vars
             PROVE  Served'
  OBVIOUS
<1>1. ASSUME phase = "parse", UNCHANGED <<file, instructions, current_processed_quad>>
      PROVE  Served'
  <2>1. instructions.element = <<>>
    BY <1>1 DEF Inductive, TablesServe
  <2>2. current_processed_quad = 0
    BY <2>1, Typed DEF Inductive
  <2>3. 1..current_processed_quad' = {}
    BY <1>1, <2>2
  <2>4. file' = <<>>
    BY <1>1 DEF Served
  <2> QED BY <2>3, <2>4 DEF Served
<1>2. CASE \E t \in Templates : Statement(t)
  BY <1>1, <1>2 DEF Statement
<1>3. CASE \E n \in Names : FunctionStart(n)
  BY <1>1, <1>3 DEF FunctionStart
<1>4. CASE \E size \in 0..1 : FunctionEnd(size)
  BY <1>1, <1>4 DEF FunctionEnd
<1>5. CASE Error \/ EndOfInput \/ Abort
  BY <1>1, <1>5 DEF Error, EndOfInput, Abort, AfterParse
<1>6. CASE Round
  BY <1>6, RoundServes
<1>7. ASSUME UNCHANGED <<funcs, open, quads, temp_space, tables, instructions,
                         current_processed_quad>>
      PROVE  Code' = Code /\ Source' = Source /\ write_abc' = write_abc
             /\ \A i \in 1..current_processed_quad' : Code'[i] = Source'[i]
  <2>1. Code' = Code /\ Source' = Source /\ write_abc' = write_abc
    BY <1>7, SameCode, SameSource, SameFile
  <2>2. \A i \in 1..current_processed_quad : Code[i] = Source[i]
    BY DEF Served
  <2> QED BY <1>7, <2>1, <2>2
<1>8. CASE Generate /\ ~Round
  <2>1. /\ UNCHANGED <<funcs, open, quads, temp_space, tables, instructions,
                       current_processed_quad>>
        /\ phase = "generate" /\ file' = file
    <3> DEFINE q == quads.element[current_processed_quad + 1]
    <3>1. \E i \in 1..3 : OperandFails(Operands(GeneratorOf(q), q)[i])
      BY <1>8 DEF Round
    <3> QED BY <1>8, <3>1 DEF Generate
  <2>2. file' = <<>>
    BY <2>1 DEF Served
  <2> QED BY <1>7, <2>1, <2>2 DEF Served
<1>9. CASE Write
  <2>1. /\ UNCHANGED <<funcs, open, quads, temp_space, tables, instructions,
                       current_processed_quad>>
        /\ phase' = "done" /\ file' = write_abc /\ current_processed_quad = curr_quad
    BY <1>9 DEF Write
  <2>2. Code = Source
    <3>1. \A i \in 1..curr_quad : Code[i] = Source[i]
      BY <2>1 DEF Served
    <3>2. Code = [i \in 1..curr_quad |-> Code[i]] /\ Source = [i \in 1..curr_quad |-> Source[i]]
      BY <2>1, CodeDone
    <3> QED BY <3>1, <3>2
  <2> QED BY <1>7, <2>1, <2>2 DEF Served
<1>10. CASE Stopped \/ UNCHANGED vars
  <2>1. /\ UNCHANGED <<funcs, open, quads, temp_space, tables, instructions,
                       current_processed_quad>>
        /\ UNCHANGED <<phase, file>>
    BY <1>10 DEF Stopped, vars
  <2> QED BY <1>7, <2>1 DEF Served
<1> QED BY <1>2, <1>3, <1>4, <1>5, <1>6, <1>8, <1>9, <1>10 DEF Next

\* So it always holds.
LEMMA AlwaysServed == Spec => []Served
<1>1. Init => Served
  <2> SUFFICES ASSUME Init
               PROVE  Served
    OBVIOUS
  <2>1. file = <<>> /\ current_processed_quad = 0
    BY DEF Init
  <2>2. 1..current_processed_quad = {}
    BY <2>1
  <2> QED BY <2>1, <2>2 DEF Served
<1> QED BY <1>1, Always, Serves, PTL DEF Spec

\* Who reads the file finds each quad's meaning in it.
LEMMA FileSays ==
  ASSUME Inductive, Served, file # <<>>
  PROVE  LET loaded == Loaded(file)
         IN  /\ loaded.code = instructions.element /\ Code = Source
             /\ loaded.userfuncs = Constants.userfuncs
             /\ \A t : CodeMeaning(loaded, t) = CodeMeaning(Constants, t)
<1> DEFINE loaded == Loaded(file)
<1>1. file = write_abc /\ Code = Source
  BY DEF Served
<1>2. /\ loaded.strings = tables.strings.element
      /\ loaded.numbers = tables.numbers.element
      /\ loaded.libfuncs = tables.libfuncs.element
      /\ loaded.userfuncs = [i \in DOMAIN tables.userfuncs.element |->
                               funcs[tables.userfuncs.element[i]]]
      /\ loaded.code = instructions.element
  BY <1>1, ReadBack
<1> HIDE DEF loaded
<1>3. /\ loaded.strings = Constants.strings /\ loaded.numbers = Constants.numbers
      /\ loaded.libfuncs = Constants.libfuncs /\ loaded.userfuncs = Constants.userfuncs
  BY <1>2 DEF Constants
<1>4. ASSUME NEW a PROVE Denoted(loaded, a) = Denoted(Constants, a)
  BY <1>3 DEF Denoted
<1>5. \A t : CodeMeaning(loaded, t) = CodeMeaning(Constants, t)
  BY <1>4 DEF CodeMeaning
<1> QED BY <1>1, <1>2, <1>3, <1>5 DEF loaded

\* The file holds the whole program: who reads it finds the meaning of every quad,
\* with the addresses and sizes of the functions as they were in the end (write_abc).
THEOREM FileIsProgram == Spec => []FileMeansProgram
<1>1. Inductive /\ Served => FileMeansProgram
  <2> SUFFICES ASSUME Inductive, Served, file # <<>>
               PROVE  LET loaded == Loaded(file)
                      IN  [i \in DOMAIN loaded.code |-> CodeMeaning(loaded, loaded.code[i])]
                            = Source
    BY DEF FileMeansProgram
  <2> DEFINE loaded == Loaded(file)
  <2>1. /\ loaded.code = instructions.element /\ Code = Source
        /\ \A t : CodeMeaning(loaded, t) = CodeMeaning(Constants, t)
    BY FileSays
  <2> HIDE DEF loaded
  <2>2. [i \in DOMAIN loaded.code |-> CodeMeaning(loaded, loaded.code[i])] = Code
    BY <2>1 DEF Code
  <2> QED BY <2>1, <2>2 DEF loaded
<1> QED BY <1>1, Always, AlwaysServed, PTL
-----------------------------------------------------------------------------
(* Functions                                                                   *)

\* The address of a function is that of a quad that opens it, behind a jump.
Opened(f) ==
  LET a == funcs[f].taddress
  IN  /\ a \in 1..(curr_quad - 1)
      /\ quads.element[a].op = "jump"
      /\ quads.element[a + 1].op = "funcstart" /\ quads.element[a + 1].arg1 = lvalue_expr(f)

\* That jump goes behind a quad that closes it.
Closed(f) ==
  LET l == quads.element[funcs[f].taddress].label
  IN  /\ l \in 1..curr_quad
      /\ quads.element[l].op = "funcend" /\ quads.element[l].arg1 = lvalue_expr(f)

\* So it is for every function, once it is no longer open.
Bracketed ==
  \A f \in DOMAIN funcs : Opened(f) /\ ((\E i \in DOMAIN open : open[i] = f) \/ Closed(f))

\* More quads, and other labels, leave a function where it is.
LEMMA OpenedKept ==
  ASSUME NEW f, Opened(f), curr_quad \in Nat, curr_quad' \in Nat, curr_quad <= curr_quad',
         funcs'[f].taddress = funcs[f].taddress,
         \A i \in 1..curr_quad : /\ quads'.element[i].op = quads.element[i].op
                                 /\ quads'.element[i].arg1 = quads.element[i].arg1
  PROVE  Opened(f)'
<1>1. PICK a : a = funcs[f].taddress
  OBVIOUS
<1>2. /\ a \in 1..(curr_quad - 1) /\ quads.element[a].op = "jump"
      /\ quads.element[a + 1].op = "funcstart" /\ quads.element[a + 1].arg1 = lvalue_expr(f)
  BY <1>1 DEF Opened
<1>3. a \in 1..curr_quad /\ a + 1 \in 1..curr_quad /\ a \in 1..(curr_quad' - 1)
  <2>1. PICK m, n : m = curr_quad /\ n = curr_quad'
    OBVIOUS
  <2>2. m \in Nat /\ n \in Nat /\ m <= n /\ a \in 1..(m - 1)
    BY <1>2, <2>1
  <2>3. a \in 1..m /\ a + 1 \in 1..m /\ a \in 1..(n - 1)
    BY <2>2
  <2> QED BY <2>1, <2>3
<1>4. /\ quads'.element[a].op = "jump" /\ quads'.element[a + 1].op = "funcstart"
      /\ quads'.element[a + 1].arg1 = lvalue_expr(f)
  BY <1>2, <1>3
<1>5. lvalue_expr(f)' = lvalue_expr(f)
  BY DEF lvalue_expr
<1> QED BY <1>1, <1>3, <1>4, <1>5 DEF Opened

\* A closed one stays closed as long as its own jump keeps its label.
LEMMA ClosedKept ==
  ASSUME NEW f, Closed(f), curr_quad \in Nat, curr_quad' \in Nat, curr_quad <= curr_quad',
         funcs'[f].taddress = funcs[f].taddress,
         quads'.element[funcs[f].taddress].label = quads.element[funcs[f].taddress].label,
         \A i \in 1..curr_quad : /\ quads'.element[i].op = quads.element[i].op
                                 /\ quads'.element[i].arg1 = quads.element[i].arg1
  PROVE  Closed(f)'
<1>1. PICK l : l = quads.element[funcs[f].taddress].label
  OBVIOUS
<1>2. /\ l \in 1..curr_quad
      /\ quads.element[l].op = "funcend" /\ quads.element[l].arg1 = lvalue_expr(f)
  BY <1>1 DEF Closed
<1>3. l = quads'.element[funcs'[f].taddress].label
  BY <1>1
<1>4. l \in 1..curr_quad'
  BY <1>2
<1>5. quads'.element[l].op = "funcend" /\ quads'.element[l].arg1 = lvalue_expr(f)
  BY <1>2
<1> QED BY <1>3, <1>4, <1>5 DEF Closed, lvalue_expr

\* A quad that a statement emits belongs to no function's brackets.
LEMMA StatementBrackets ==
  ASSUME Inductive, Bracketed, NEW t \in Templates, Statement(t)
  PROVE  Bracketed'
<1>1. PICK label \in Labels(t) : quads' = emit(quads, t, label, curr_quad + 1)
  BY DEF Statement
<1>2. quads \in ArrayList(Quad) /\ Fits(quads) /\ curr_quad \in Nat
      /\ quads.element \in Seq(Quad) /\ curr_quad = Len(quads.element)
      /\ DOMAIN funcs = 1..Len(funcs)
  BY Typed DEF Inductive
<1>3. label \in Nat /\ curr_quad + 1 \in Nat
  BY <1>2 DEF Labels
<1>4. t.op \in Opcodes /\ {t.result, t.arg1, t.arg2} \subseteq Expr \union {NULL}
  BY TemplatesAssumption
<1> DEFINE q == QuadOf(t, label, curr_quad + 1)
<1>5. quads'.element = Append(quads.element, q)
  BY <1>1, <1>2, <1>3, <1>4, Emitted
<1> HIDE DEF q
<1>6. curr_quad' = curr_quad + 1 /\ curr_quad' \in Nat
      /\ \A i \in 1..curr_quad : quads'.element[i] = quads.element[i]
  BY <1>2, <1>5 DEF curr_quad
<1>7. UNCHANGED <<funcs, open>>
  BY DEF Statement
<1>8. ASSUME NEW f \in DOMAIN funcs
      PROVE  Opened(f)' /\ ((\E i \in DOMAIN open : open[i] = f) \/ Closed(f)')
  <2>1. Opened(f) /\ ((\E i \in DOMAIN open : open[i] = f) \/ Closed(f))
    BY DEF Bracketed
  <2>2. Opened(f)'
    BY <1>2, <1>6, <1>7, <2>1, OpenedKept
  <2>3. funcs[f].taddress \in 1..curr_quad
    BY <1>2, <2>1 DEF Opened
  <2>4. Closed(f) => Closed(f)'
    BY <1>2, <1>6, <1>7, <2>3, ClosedKept
  <2> QED BY <2>1, <2>2, <2>4
<1> QED BY <1>7, <1>8 DEF Bracketed

\* A function that starts has its jump and its first bracket, and is open.
LEMMA StartBrackets ==
  ASSUME Inductive, Bracketed, NEW n \in Names, FunctionStart(n)
  PROVE  Bracketed'
<1>1. PICK f : f = Len(funcs) + 1
  OBVIOUS
<1> DEFINE F == 1..f
           q1 == QuadOf(Jump, 0, curr_quad + 1)
           q2 == QuadOf(Bracket("funcstart", f), 0, curr_quad + 2)
<1>2. /\ quads'.element = Append(Append(quads.element, q1), q2)
      /\ q1 \in Quad /\ q2 \in Quad
      /\ DOMAIN funcs' = F /\ funcs'[f].taddress = curr_quad + 1
      /\ \A g \in DOMAIN funcs : g \in F /\ funcs'[g] = funcs[g]
      /\ open' = Append(open, f)
  BY <1>1, StartMakes
<1>3. /\ quads.element \in Seq(Quad) /\ curr_quad \in Nat /\ curr_quad = Len(quads.element)
      /\ DOMAIN funcs = 1..Len(funcs) /\ Len(funcs) \in Nat /\ open \in Seq(Nat)
  BY Typed DEF Inductive
<1>4. q1.op = "jump" /\ q2.op = "funcstart" /\ q2.arg1 = lvalue_expr(f)
  BY DEF QuadOf, Jump, Bracket
<1> HIDE DEF q1, q2
<1>5. /\ Len(quads'.element) = curr_quad + 2
      /\ \A i \in 1..curr_quad : quads'.element[i] = quads.element[i]
      /\ quads'.element[curr_quad + 1] = q1 /\ quads'.element[curr_quad + 2] = q2
  <2> DEFINE s == Append(quads.element, q1)
  <2>1. s \in Seq(Quad) /\ Len(s) = curr_quad + 1
        /\ (\A i \in 1..curr_quad : s[i] = quads.element[i]) /\ s[curr_quad + 1] = q1
    BY <1>2, <1>3
  <2>2. quads'.element = Append(s, q2)
    BY <1>2
  <2> HIDE DEF s
  <2>3. Len(Append(s, q2)) = curr_quad + 2 /\ Append(s, q2)[curr_quad + 2] = q2
        /\ \A i \in 1..(curr_quad + 1) : Append(s, q2)[i] = s[i]
    BY <1>2, <1>3, <2>1
  <2> QED BY <1>3, <2>1, <2>2, <2>3
<1>6. curr_quad' = curr_quad + 2 /\ curr_quad' \in Nat
  BY <1>3, <1>5 DEF curr_quad
<1>7. /\ \A i \in DOMAIN open : i \in DOMAIN open' /\ open'[i] = open[i]
      /\ \E i \in DOMAIN open' : open'[i] = f
  <2>1. f \in Nat
    BY <1>1, <1>3
  <2>2. Len(open) + 1 \in DOMAIN Append(open, f) /\ Append(open, f)[Len(open) + 1] = f
        /\ \A i \in DOMAIN open : i \in DOMAIN Append(open, f) /\ Append(open, f)[i] = open[i]
    BY <1>3, <2>1
  <2> QED BY <1>2, <2>2
<1>8. Opened(f)'
  <2>1. curr_quad + 1 \in 1..(curr_quad' - 1) /\ curr_quad + 1 + 1 = curr_quad + 2
    BY <1>3, <1>6
  <2>2. /\ funcs'[f].taddress = curr_quad + 1
        /\ quads'.element[curr_quad + 1].op = "jump"
        /\ quads'.element[curr_quad + 1 + 1].op = "funcstart"
        /\ quads'.element[curr_quad + 1 + 1].arg1 = lvalue_expr(f)
    BY <1>2, <1>4, <1>5, <2>1
  <2>3. lvalue_expr(f)' = lvalue_expr(f)
    BY DEF lvalue_expr
  <2> QED BY <2>1, <2>2, <2>3 DEF Opened
<1>9. ASSUME NEW g \in DOMAIN funcs
      PROVE  Opened(g)' /\ ((\E i \in DOMAIN open' : open'[i] = g) \/ Closed(g)')
  <2>1. Opened(g) /\ ((\E i \in DOMAIN open : open[i] = g) \/ Closed(g))
    BY DEF Bracketed
  <2>2. funcs'[g].taddress = funcs[g].taddress /\ curr_quad <= curr_quad'
    BY <1>2, <1>3, <1>6
  <2>3. Opened(g)'
    BY <1>3, <1>5, <1>6, <2>1, <2>2, OpenedKept
  <2>4. funcs[g].taddress \in 1..curr_quad
    BY <1>3, <2>1 DEF Opened
  <2>5. Closed(g) => Closed(g)'
    BY <1>3, <1>5, <1>6, <2>2, <2>4, ClosedKept
  <2> QED BY <1>7, <2>1, <2>3, <2>5
<1>10. \A g \in DOMAIN funcs' : g \in DOMAIN funcs \/ g = f
  BY <1>1, <1>2, <1>3
<1> HIDE DEF F
<1> QED BY <1>7, <1>8, <1>9, <1>10 DEF Bracketed

\* A function that ends has its other bracket, and its jump goes behind that; no
\* other function's jump is touched.
LEMMA EndBrackets ==
  ASSUME Inductive, Bracketed, NEW size \in 0..1, FunctionEnd(size)
  PROVE  Bracketed'
<1>1. PICK f : f = Last(open)
  OBVIOUS
<1> DEFINE q == QuadOf(Bracket("funcend", f), 0, curr_quad + 1)
           s == Append(quads.element, q)
<1>2. /\ f \in DOMAIN funcs
      /\ Len(quads'.element) = Len(s)
      /\ \A i \in DOMAIN s :
           /\ quads'.element[i].arg1 = s[i].arg1 /\ quads'.element[i].op = s[i].op
           /\ quads'.element[i].label =
                IF i = funcs[f].taddress THEN curr_quad + 1 ELSE s[i].label
      /\ q \in Quad /\ DOMAIN funcs' = DOMAIN funcs
      /\ \A g \in DOMAIN funcs : funcs'[g].taddress = funcs[g].taddress
      /\ open' \in Seq(Nat) /\ Len(open') = Len(open) - 1 /\ Len(open) \in Nat
      /\ \A i \in 1..(Len(open) - 1) : open'[i] = open[i]
  BY <1>1, EndMakes
<1>3. /\ quads.element \in Seq(Quad) /\ curr_quad \in Nat /\ curr_quad = Len(quads.element)
      /\ open \in Seq(Nat) /\ FuncsApart
  BY Typed, Apart DEF Inductive
<1>4. q.op = "funcend" /\ q.arg1 = lvalue_expr(f)
  BY DEF QuadOf, Bracket
<1>5. f = open[Len(open)]
  BY <1>1 DEF Last
<1> HIDE DEF q
<1>6. /\ Len(s) = curr_quad + 1 /\ DOMAIN s = 1..(curr_quad + 1) /\ s[curr_quad + 1] = q
      /\ \A i \in 1..curr_quad : i \in DOMAIN s /\ s[i] = quads.element[i]
  BY <1>2, <1>3
<1> HIDE DEF s
<1>7. curr_quad' = curr_quad + 1 /\ curr_quad' \in Nat /\ curr_quad <= curr_quad'
  BY <1>2, <1>3, <1>6 DEF curr_quad
<1>8. /\ \A i \in 1..curr_quad :
           /\ quads'.element[i].op = quads.element[i].op
           /\ quads'.element[i].arg1 = quads.element[i].arg1
           /\ i # funcs[f].taddress => quads'.element[i].label = quads.element[i].label
      /\ funcs[f].taddress \in 1..curr_quad =>
           quads'.element[funcs[f].taddress].label = curr_quad + 1
      /\ quads'.element[curr_quad + 1].op = "funcend"
      /\ quads'.element[curr_quad + 1].arg1 = lvalue_expr(f)
  <2>1. \A i \in 1..curr_quad : i \in DOMAIN s /\ s[i] = quads.element[i]
    BY <1>6
  <2>2. curr_quad + 1 \in DOMAIN s /\ s[curr_quad + 1] = q
    BY <1>3, <1>6
  <2> QED BY <1>2, <1>4, <2>1, <2>2
<1>9. ASSUME NEW g \in DOMAIN funcs
      PROVE  /\ Opened(g)' /\ funcs[g].taddress \in 1..curr_quad
             /\ funcs'[g].taddress = funcs[g].taddress
  <2>1. Opened(g)
    BY DEF Bracketed
  <2>2. funcs[g].taddress \in 1..curr_quad
    BY <1>3, <2>1 DEF Opened
  <2> QED BY <1>2, <1>3, <1>7, <1>8, <2>1, <2>2, OpenedKept
<1>10. Closed(f)'
  <2>1. quads'.element[funcs'[f].taddress].label = curr_quad + 1
    BY <1>2, <1>8, <1>9
  <2>2. curr_quad + 1 \in 1..curr_quad'
    BY <1>3, <1>7
  <2>3. lvalue_expr(f)' = lvalue_expr(f)
    BY DEF lvalue_expr
  <2> QED BY <1>8, <2>1, <2>2, <2>3 DEF Closed
<1>11. ASSUME NEW g \in DOMAIN funcs, g # f
      PROVE  (\E i \in DOMAIN open' : open'[i] = g) \/ Closed(g)'
  <2>1. CASE \E i \in DOMAIN open : open[i] = g
    <3>1. PICK i \in DOMAIN open : open[i] = g
      BY <2>1
    <3>2. DOMAIN open = 1..Len(open) /\ DOMAIN open' = 1..(Len(open) - 1)
      BY <1>2, <1>3
    <3>3. i # Len(open)
      BY <1>11, <1>5, <3>1
    <3>4. i \in 1..(Len(open) - 1)
      BY <1>2, <3>1, <3>2, <3>3
    <3> QED BY <1>2, <3>1, <3>2, <3>4
  <2>2. CASE Closed(g)
    <3>1. funcs[g].taddress # funcs[f].taddress
      BY <1>2, <1>3, <1>11 DEF FuncsApart
    <3>2. quads'.element[funcs[g].taddress].label = quads.element[funcs[g].taddress].label
      BY <1>8, <1>9, <3>1
    <3> QED BY <1>3, <1>7, <1>8, <1>9, <2>2, <3>2, ClosedKept
  <2> QED BY <2>1, <2>2 DEF Bracketed
<1> QED BY <1>2, <1>9, <1>10, <1>11 DEF Bracketed

\* Nothing else has to do with the brackets of functions.
LEMMA BracketsKept == Inductive /\ Bracketed /\ [Next]_vars => Bracketed'
<1> SUFFICES ASSUME Inductive, Bracketed, [Next]_vars
             PROVE  Bracketed'
  OBVIOUS
<1>1. ASSUME UNCHANGED <<funcs, open, quads>>
      PROVE  Bracketed'
  BY <1>1 DEF Bracketed, Opened, Closed, curr_quad, lvalue_expr
<1>2. CASE Round
  <2>1. UNCHANGED <<funcs, open, quads>>
    BY <1>2, RoundMakes
  <2> QED BY <1>1, <2>1
<1> QED BY <1>1, <1>2, StepsAre, StatementBrackets, StartBrackets, EndBrackets

\* So it always holds.
LEMMA AlwaysBracketed == Spec => []Bracketed
<1>1. Init => Bracketed
  <2> SUFFICES ASSUME Init
               PROVE  Bracketed
    OBVIOUS
  <2>1. funcs = <<>>
    BY DEF Init
  <2>2. DOMAIN funcs = {}
    BY <2>1
  <2> QED BY <2>2 DEF Bracketed
<1> QED BY <1>1, Always, BracketsKept, PTL DEF Spec

\* Only a user function denotes one, only a label a label.
LEMMA KindKept ==
  ASSUME NEW C, NEW a \in VMarg
  PROVE  /\ Denoted(C, a).kind = a.type
         /\ a.type = "userfunc" => Denoted(C, a) = MeantFunction(C.userfuncs[a.val + 1])
         /\ a.type = "label" => Denoted(C, a) = Meant("label", a.val)
<1>1. \A v : Meant(a.type, v).kind = a.type
  BY DEF Meant
<1>2. \A f : MeantFunction(f).kind = "userfunc"
  BY DEF MeantFunction
<1>3. CASE a.type = "string"
  BY <1>1, <1>3 DEF Denoted
<1>4. CASE a.type = "number"
  BY <1>1, <1>4 DEF Denoted
<1>5. CASE a.type = "libfunc"
  BY <1>1, <1>5 DEF Denoted
<1>6. CASE a.type = "userfunc"
  BY <1>2, <1>6 DEF Denoted
<1>7. CASE a.type \notin {"string", "number", "libfunc", "userfunc"}
  BY <1>1, <1>7 DEF Denoted
<1> QED BY <1>3, <1>4, <1>5, <1>6, <1>7

\* An operand that means the function of an entry is the number of that entry.
LEMMA NumberOfFunction ==
  ASSUME Inductive, NEW i \in DOMAIN tables.userfuncs.element, NEW a \in VMarg,
         InRange(tables, a),
         Denoted(Constants, a) = MeantFunction(funcs[tables.userfuncs.element[i]])
  PROVE  a = Arg("userfunc", i - 1)
<1> DEFINE fs == tables.userfuncs.element
           j == a.val + 1
<1>1. a.type = "userfunc" /\ a.val \in Int /\ a = [type |-> a.type, val |-> a.val]
  <2>1. MeantFunction(funcs[fs[i]]).kind = "userfunc"
    BY DEF MeantFunction
  <2> QED BY <2>1, KindKept DEF VMarg
<1>2. /\ tables.userfuncs \in ArrayList(Int) /\ IsInjective(fs)
      /\ \A k \in DOMAIN fs : fs[k] \in DOMAIN funcs
  BY DEF Inductive, TablesServe, Good, TableNames
<1>3. DOMAIN fs = 1..Len(fs) /\ Len(fs) \in Nat
  BY <1>2 DEF ArrayList
<1>4. j \in DOMAIN fs
  BY <1>1 DEF InRange, TableOf, Kinds
<1>5. Constants.userfuncs[j] = funcs[fs[j]]
  BY <1>4 DEF Constants
<1>6. MeantFunction(funcs[fs[j]]) = MeantFunction(funcs[fs[i]])
  BY <1>1, <1>5, KindKept
<1>7. funcs[fs[j]].taddress = funcs[fs[i]].taddress
  <2>1. \A f : MeantFunction(f).value = f.taddress
    BY DEF MeantFunction
  <2> QED BY <1>6, <2>1
<1>8. fs[j] = fs[i]
  BY <1>2, <1>4, <1>7, Apart DEF FuncsApart, Inductive
<1>9. j = i
  BY <1>2, <1>4, <1>8 DEF IsInjective
<1>10. a.val = i - 1
  BY <1>1, <1>3, <1>9
<1> QED BY <1>1, <1>10 DEF Arg

\* What the quads around functions mean
LEMMA MeaningOfBrackets ==
  ASSUME NEW q, NEW f
  PROVE  /\ q.op = "jump" =>
              /\ QuadMeaning(q).opcode = "jump"
              /\ QuadMeaning(q).result = Meant("label", q.label)
         /\ q.op = "funcstart" /\ q.arg1 = lvalue_expr(f) =>
              /\ QuadMeaning(q).opcode = "enterfunc"
              /\ QuadMeaning(q).result = MeantFunction(funcs[f])
         /\ q.op = "funcend" /\ q.arg1 = lvalue_expr(f) =>
              /\ QuadMeaning(q).opcode = "funcend"
              /\ QuadMeaning(q).result = MeantFunction(funcs[f])
<1>1. MeaningOf(lvalue_expr(f)) = MeantFunction(funcs[f])
  <2>1. lvalue_expr(f).type = "program_func" /\ lvalue_expr(f).value = f
    BY DEF lvalue_expr
  <2> QED BY <2>1 DEF MeaningOf, Stored
<1>2. ASSUME q.op = "jump"
      PROVE  QuadMeaning(q).opcode = "jump" /\ QuadMeaning(q).result = Meant("label", q.label)
  BY <1>2 DEF QuadMeaning
<1>3. ASSUME q.op = "funcstart", q.arg1 = lvalue_expr(f)
      PROVE  /\ QuadMeaning(q).opcode = "enterfunc"
             /\ QuadMeaning(q).result = MeantFunction(funcs[f])
  BY <1>1, <1>3, RelationalAre DEF QuadMeaning
<1>4. ASSUME q.op = "funcend", q.arg1 = lvalue_expr(f)
      PROVE  /\ QuadMeaning(q).opcode = "funcend"
             /\ QuadMeaning(q).result = MeantFunction(funcs[f])
  BY <1>1, <1>4, RelationalAre DEF QuadMeaning
<1> QED BY <1>2, <1>3, <1>4

\* What the instruction of each quad means, once all have one
LEMMA InstructionMeans ==
  ASSUME Inductive, Code = Source, NEW i \in 1..curr_quad
  PROVE  LET t == instructions.element[i]
         IN  /\ t \in Instruction /\ t.result \in VMarg /\ InRange(tables, t.result)
             /\ t.opcode = QuadMeaning(quads.element[i]).opcode
             /\ Denoted(Constants, t.result) = QuadMeaning(quads.element[i]).result
<1> DEFINE t == instructions.element[i]
<1>1. i \in DOMAIN instructions.element
  <2>1. DOMAIN Code = DOMAIN instructions.element
    BY DEF Code
  <2> QED BY <2>1, CodeDone
<1>2. t \in Instruction
  BY <1>1, Typed DEF Inductive
<1>3. t.result \in VMarg
  BY <1>2 DEF Instruction
<1>4. InRange(tables, t.result)
  BY <1>1 DEF Inductive, TablesServe
<1>5. CodeMeaning(Constants, t) = QuadMeaning(quads.element[i])
  <2>1. Code[i] = CodeMeaning(Constants, t)
    BY <1>1 DEF Code
  <2>2. Source[i] = QuadMeaning(quads.element[i])
    BY DEF Source
  <2> QED BY <2>1, <2>2
<1>6. CodeMeaning(Constants, t).opcode = t.opcode
      /\ CodeMeaning(Constants, t).result = Denoted(Constants, t.result)
  BY DEF CodeMeaning
<1> QED BY <1>2, <1>3, <1>4, <1>5, <1>6

\* In the file of a program whose functions have all ended each function is at its
\* address, and the jump before it leads past its end (function_prefix,
\* function_definition).
THEOREM FunctionsSkipped == Spec => []FunctionsAreSkipped
<1>1. Inductive /\ Served /\ Bracketed => FunctionsAreSkipped
  <2> SUFFICES ASSUME Inductive, Served, Bracketed, file # <<>>, open = <<>>,
                      NEW i \in DOMAIN Loaded(file).userfuncs
               PROVE  LET loaded == Loaded(file)
                          At(x) == loaded.code[x + 1]
                          address == loaded.userfuncs[i].taddress
                          before == At(address - 1)
                          Brackets(op, t) == t.opcode = op /\ t.result = Arg("userfunc", i - 1)
                      IN  /\ Brackets("enterfunc", At(address))
                          /\ before.opcode = "jump"
                          /\ Brackets("funcend", At(before.result.val - 1))
    BY DEF FunctionsAreSkipped
  <2> DEFINE loaded == Loaded(file)
             fs == tables.userfuncs.element
             code == instructions.element
             f == fs[i]
  <2>1. loaded.code = code /\ Code = Source /\ loaded.userfuncs = Constants.userfuncs
    BY FileSays
  <2>2. loaded.userfuncs = [k \in DOMAIN fs |-> funcs[fs[k]]]
    BY <2>1 DEF Constants
  <2>3. i \in DOMAIN fs /\ loaded.userfuncs[i] = funcs[f]
    BY <2>2
  <2>4. f \in DOMAIN funcs
    BY <2>3 DEF Inductive, TablesServe, Good
  <2>5. Opened(f) /\ Closed(f)
    BY <2>4 DEF Bracketed
  <2>6. PICK a : a = funcs[f].taddress
    OBVIOUS
  <2>7. PICK l : l = quads.element[a].label
    OBVIOUS
  <2>8. /\ a \in 1..(curr_quad - 1) /\ quads.element[a].op = "jump"
        /\ quads.element[a + 1].op = "funcstart" /\ quads.element[a + 1].arg1 = lvalue_expr(f)
    BY <2>5, <2>6 DEF Opened
  <2>9. /\ l \in 1..curr_quad
        /\ quads.element[l].op = "funcend" /\ quads.element[l].arg1 = lvalue_expr(f)
    BY <2>5, <2>6, <2>7 DEF Closed
  <2>10. a \in 1..curr_quad /\ a + 1 \in 1..curr_quad /\ a - 1 + 1 = a /\ l - 1 + 1 = l
    <3>1. curr_quad \in Nat
      BY Typed DEF Inductive
    <3> QED BY <2>8, <2>9, <3>1
  <2> HIDE DEF f, fs, code, loaded
  <2>11. code[a + 1].opcode = "enterfunc" /\ code[a + 1].result = Arg("userfunc", i - 1)
    <3>1. /\ code[a + 1].result \in VMarg /\ InRange(tables, code[a + 1].result)
          /\ code[a + 1].opcode = "enterfunc"
          /\ Denoted(Constants, code[a + 1].result) = MeantFunction(funcs[f])
      BY <2>1, <2>8, <2>10, InstructionMeans, MeaningOfBrackets DEF code
    <3> QED BY <2>3, <3>1, NumberOfFunction DEF f, fs
  <2>12. code[l].opcode = "funcend" /\ code[l].result = Arg("userfunc", i - 1)
    <3>1. /\ code[l].result \in VMarg /\ InRange(tables, code[l].result)
          /\ code[l].opcode = "funcend"
          /\ Denoted(Constants, code[l].result) = MeantFunction(funcs[f])
      BY <2>1, <2>9, InstructionMeans, MeaningOfBrackets DEF code
    <3> QED BY <2>3, <3>1, NumberOfFunction DEF f, fs
  <2>13. code[a].opcode = "jump" /\ code[a].result.val = l
    <3>1. /\ code[a].result \in VMarg /\ code[a].opcode = "jump"
          /\ Denoted(Constants, code[a].result) = Meant("label", l)
      BY <2>1, <2>7, <2>8, <2>10, InstructionMeans, MeaningOfBrackets DEF code
    <3>2. Meant("label", l).kind = "label"
      BY DEF Meant
    <3>3. Meant("label", code[a].result.val) = Meant("label", l)
      BY <3>1, <3>2, KindKept
    <3>4. \A v : Meant("label", v).value = v
      BY DEF Meant
    <3> QED BY <3>1, <3>3, <3>4
  <2>14. loaded.userfuncs[i].taddress = a
    BY <2>3, <2>6
  <2> QED BY <2>1, <2>10, <2>11, <2>12, <2>13, <2>14 DEF loaded
<1> QED BY <1>1, Always, AlwaysServed, AlwaysBracketed, PTL
-----------------------------------------------------------------------------
=============================================================================
