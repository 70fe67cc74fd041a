-------------------------- MODULE ExpressionsProofs --------------------------
(* For every program, whatever its operators and operands: the items on the   *)
(* stack and the quads keep their shapes, and the jumps that wait for a label *)
(* are those of the lists on the stack, each of them once, as long as         *)
(* arithmetic is not applied to an and or or.                                  *)
EXTENDS Expressions, SequenceTheorems, TLAPS

-----------------------------------------------------------------------------
(* The inductive invariants *)

IsSeq(s) == Len(s) \in Nat /\ s = [i \in 1..Len(s) |-> s[i]]

\* The records that the program works with.  What an item evaluates to, and
\* the operands of a quad, matter to no jump.
IsExpr(e) ==
  /\ e \in [type : {e.type}, kind : {e.kind}, sym : {e.sym}, const : {e.const},
            index : {e.index}, t_list : {e.t_list}, f_list : {e.f_list},
            val : {e.val}, mask : {e.mask}]
  /\ IsSeq(e.t_list) /\ IsSeq(e.f_list)
  /\ \A s \in Starts : e.mask[s] \in BOOLEAN
IsQuad(q) ==
  q \in [op : {q.op}, arg1 : {q.arg1}, arg2 : {q.arg2}, result : {q.result},
         label : {q.label}, patch : {q.patch}]
IsWorld(w) ==
  /\ w \in [mem : {w.mem}, tables : {w.tables}, calls : {w.calls},
            args : {w.args}, pc : {w.pc}]
  /\ w.args = <<>>

\* An operand passes both lists up or none, and only an operator that waits for
\* its right operand has made use of one of them.
ItemOK(e) ==
  /\ IsExpr(e)
  /\ e.kind \in {"lvalue", "call", "expr", "arg", "and", "or"}
  /\ e.kind \in {"lvalue", "call", "arg"} => e.t_list = <<>> /\ e.f_list = <<>>
  /\ e.kind = "expr" => (e.t_list = <<>> <=> e.f_list = <<>>)
  /\ e.kind = "and" => e.f_list # <<>>
  /\ e.kind = "or" => e.t_list # <<>>
  /\ Len(e.index) <= 1
  /\ IsItem(e) => e.kind = "lvalue"

\* The quads made so far, and the temporaries taken.
CodeOK(g) ==
  /\ g \in [quads : {g.quads}, temps : {g.temps}, e : {g.e}]
  /\ IsSeq(g.quads) /\ g.temps \in Nat
  /\ \A i \in 1..Len(g.quads) :
       IsQuad(g.quads[i]) /\ g.quads[i].label \in 0..(Len(g.quads) + 2)

ExecutionOK ==
  /\ worlds = [s \in Starts |-> worlds[s]] /\ \A s \in Starts : IsWorld(worlds[s])
  /\ \A s \in Starts : live[s] \in BOOLEAN

Shapes ==
  /\ IsSeq(stack) /\ \A i \in 1..Len(stack) : ItemOK(stack[i])
  /\ CodeOK(Code(<<>>)) /\ ExecutionOK
  /\ status \in {"reading", "done"}

\* held are the jumps of the quads qs that wait for a label.
OpenJumps(qs) == {i - 1 : i \in {j \in 1..Len(qs) : qs[j].patch = "open"}}
Waits(g, held) ==
  OpenJumps(g.quads) = held /\ \A i \in 1..Len(g.quads) : g.quads[i].patch # "again"

ListOf(l) == {l[j] : j \in 1..Len(l)}
Once(l) == \A j, k \in 1..Len(l) : l[j] = l[k] => j = k
Jumps(e) == ListOf(Owes(e))

\* The jumps of all items but the n topmost.
Below(n) == UNION {Jumps(stack[i]) : i \in 1..(Len(stack) - n)}
Holding ==
  ~IR_GEN_FAILED =>
    /\ Waits(Code(<<>>), Below(0))
    /\ \A i \in 1..Len(stack) : Once(Owes(stack[i]))
    /\ \A i, j \in 1..Len(stack) : i # j => Jumps(stack[i]) \intersect Jumps(stack[j]) = {}

\* No program applies arithmetic to an and or or.
Careful == \A p \in Programs : "pending_operand" \notin p.features
-----------------------------------------------------------------------------
(* Sequences of anything *)

LEMMA AsSeq ==
  ASSUME NEW s, IsSeq(s)
  PROVE  s \in Seq(ListOf(s)) /\ Len(s) \in Nat /\ DOMAIN s = 1..Len(s)
<1>1. Len(s) \in Nat /\ s = [i \in 1..Len(s) |-> s[i]]
  BY DEF IsSeq
<1>2. s \in [1..Len(s) -> ListOf(s)]
  BY <1>1 DEF ListOf
<1>3. s \in Seq(ListOf(s))
  BY <1>1, <1>2, SeqDef
<1>4. DOMAIN s = 1..Len(s)
  BY <1>1
<1> QED BY <1>1, <1>3, <1>4

LEMMA ToIsSeq ==
  ASSUME NEW S, NEW s \in Seq(S)
  PROVE  IsSeq(s)
<1>1. Len(s) \in Nat /\ DOMAIN s = 1..Len(s) /\ s \in [1..Len(s) -> S]
  BY LenProperties
<1>2. s = [i \in 1..Len(s) |-> s[i]]
  BY <1>1
<1> QED BY <1>1, <1>2 DEF IsSeq

LEMMA Appended ==
  ASSUME NEW s, IsSeq(s), NEW x
  PROVE  /\ IsSeq(Append(s, x)) /\ Len(Append(s, x)) = Len(s) + 1
         /\ \A i \in 1..Len(s) : Append(s, x)[i] = s[i]
         /\ Append(s, x)[Len(s) + 1] = x
<1> DEFINE S == ListOf(s) \union {x}
<1>1. s \in Seq(S) /\ x \in S
  <2>1. s \in Seq(ListOf(s)) /\ ListOf(s) \subseteq S
    BY AsSeq
  <2> HIDE DEF S
  <2>2. s \in Seq(S)
    BY <2>1, SeqMonotonic
  <2>3. x \in S
    BY DEF S
  <2> QED BY <2>2, <2>3
<1> HIDE DEF S
<1>2. Append(s, x) \in Seq(S)
  BY <1>1
<1>3. IsSeq(Append(s, x))
  BY <1>2, ToIsSeq
<1>4. /\ Len(Append(s, x)) = Len(s) + 1
      /\ \A i \in 1..Len(s) : Append(s, x)[i] = s[i]
      /\ Append(s, x)[Len(s) + 1] = x
  BY <1>1
<1> QED BY <1>3, <1>4

LEMMA Joined ==
  ASSUME NEW s, NEW t, IsSeq(s), IsSeq(t)
  PROVE  /\ IsSeq(s \o t) /\ Len(s \o t) = Len(s) + Len(t)
         /\ \A i \in 1..Len(s) : (s \o t)[i] = s[i]
         /\ \A i \in 1..Len(t) : (s \o t)[Len(s) + i] = t[i]
<1> DEFINE S == ListOf(s) \union ListOf(t)
<1>1. s \in Seq(S) /\ t \in Seq(S)
  <2>1. s \in Seq(ListOf(s)) /\ ListOf(s) \subseteq S
    BY AsSeq
  <2>2. t \in Seq(ListOf(t)) /\ ListOf(t) \subseteq S
    BY AsSeq
  <2> HIDE DEF S
  <2> QED BY <2>1, <2>2, SeqMonotonic
<1> HIDE DEF S
<1>2. s \o t \in Seq(S)
  BY <1>1, ConcatProperties
<1>3. IsSeq(s \o t)
  BY <1>2, ToIsSeq
<1>4. /\ Len(s \o t) = Len(s) + Len(t) /\ Len(s) \in Nat /\ Len(t) \in Nat
      /\ \A i \in 1..(Len(s) + Len(t)) :
           (s \o t)[i] = IF i <= Len(s) THEN s[i] ELSE t[i - Len(s)]
  BY <1>1, ConcatProperties, LenProperties
<1>5. \A i \in 1..Len(s) : (s \o t)[i] = s[i]
  BY <1>4
<1>6. \A i \in 1..Len(t) : (s \o t)[Len(s) + i] = t[i]
  <2> TAKE i \in 1..Len(t)
  <2>1. Len(s) + i \in 1..(Len(s) + Len(t)) /\ ~(Len(s) + i <= Len(s))
        /\ Len(s) + i - Len(s) = i
    BY <1>4
  <2> QED BY <1>4, <2>1
<1> QED BY <1>3, <1>4, <1>5, <1>6

LEMMA Cut ==
  ASSUME NEW s, IsSeq(s), NEW n \in 0..Len(s)
  PROVE  /\ IsSeq(SubSeq(s, 1, n)) /\ Len(SubSeq(s, 1, n)) = n
         /\ \A i \in 1..n : SubSeq(s, 1, n)[i] = s[i]
<1>1. s \in Seq(ListOf(s)) /\ Len(s) \in Nat
  BY AsSeq
<1>2. SubSeq(s, 1, n) \in Seq(ListOf(s))
  <2>1. \A i \in 1..n : s[i] \in ListOf(s)
    BY <1>1 DEF ListOf
  <2> QED BY <1>1, <2>1
<1>3. IsSeq(SubSeq(s, 1, n))
  BY <1>2, ToIsSeq
<1>4. Len(SubSeq(s, 1, n)) = n /\ \A i \in 1..n : SubSeq(s, 1, n)[i] = s[i]
  BY <1>1
<1> QED BY <1>3, <1>4

LEMMA OneOf ==
  ASSUME NEW x
  PROVE  IsSeq(<<x>>) /\ Len(<<x>>) = 1 /\ <<x>>[1] = x /\ <<x>> # <<>>
<1>1. <<x>> \in Seq({x})
  OBVIOUS
<1>2. IsSeq(<<x>>)
  BY <1>1, ToIsSeq
<1> QED BY <1>2

LEMMA NoneOf == IsSeq(<<>>) /\ Len(<<>>) = 0
<1>1. <<>> \in Seq({})
  OBVIOUS
<1>2. IsSeq(<<>>)
  BY <1>1, ToIsSeq
<1> QED BY <1>2

LEMMA EmptyIs ==
  ASSUME NEW s, IsSeq(s)
  PROVE  s = <<>> <=> Len(s) = 0
<1>1. s \in Seq(ListOf(s))
  BY AsSeq
<1> QED BY <1>1, EmptySeq
-----------------------------------------------------------------------------
(* Lists of jumps *)

LEMMA ListOfNone == ListOf(<<>>) = {} /\ Once(<<>>)
  BY NoneOf DEF ListOf, Once

LEMMA ListOfOne ==
  ASSUME NEW x
  PROVE  ListOf(<<x>>) = {x} /\ Once(<<x>>)
<1>1. Len(<<x>>) = 1 /\ <<x>>[1] = x /\ 1..1 = {1}
  BY OneOf
<1>2. ListOf(<<x>>) = {x}
  BY <1>1 DEF ListOf
<1>3. Once(<<x>>)
  BY <1>1 DEF Once
<1> QED BY <1>2, <1>3

LEMMA ListOfJoined ==
  ASSUME NEW s, NEW t, IsSeq(s), IsSeq(t)
  PROVE  /\ ListOf(s \o t) = ListOf(s) \union ListOf(t)
         /\ Once(s) /\ Once(t) /\ ListOf(s) \intersect ListOf(t) = {} => Once(s \o t)
         /\ Once(s \o t) => Once(s) /\ Once(t) /\ ListOf(s) \intersect ListOf(t) = {}
<1>1. /\ IsSeq(s \o t) /\ Len(s \o t) = Len(s) + Len(t)
      /\ \A i \in 1..Len(s) : (s \o t)[i] = s[i]
      /\ \A i \in 1..Len(t) : (s \o t)[Len(s) + i] = t[i]
      /\ Len(s) \in Nat /\ Len(t) \in Nat
  BY Joined, AsSeq
<1>2. \A i \in 1..(Len(s) + Len(t)) :
        i \in 1..Len(s) \/ (i - Len(s) \in 1..Len(t) /\ i = Len(s) + (i - Len(s)))
  BY <1>1
<1>3. \A i \in 1..Len(s) : i \in 1..(Len(s) + Len(t))
  BY <1>1
<1>4. \A i \in 1..Len(t) : Len(s) + i \in 1..(Len(s) + Len(t))
  BY <1>1
<1>5. ListOf(s \o t) = ListOf(s) \union ListOf(t)
  <2>1. ListOf(s \o t) \subseteq ListOf(s) \union ListOf(t)
    <3>1. ASSUME NEW i \in 1..Len(s \o t)
          PROVE  (s \o t)[i] \in ListOf(s) \union ListOf(t)
      <4>1. i \in 1..Len(s) => (s \o t)[i] \in ListOf(s)
        BY <1>1 DEF ListOf
      <4>2. i - Len(s) \in 1..Len(t) /\ i = Len(s) + (i - Len(s))
            => (s \o t)[i] \in ListOf(t)
        BY <1>1 DEF ListOf
      <4> QED BY <1>1, <1>2, <4>1, <4>2
    <3> QED BY <3>1 DEF ListOf
  <2>2. ListOf(s) \subseteq ListOf(s \o t)
    BY <1>1, <1>3 DEF ListOf
  <2>3. ListOf(t) \subseteq ListOf(s \o t)
    BY <1>1, <1>4 DEF ListOf
  <2> QED BY <2>1, <2>2, <2>3
<1>6. ASSUME Once(s), Once(t), ListOf(s) \intersect ListOf(t) = {}
      PROVE  Once(s \o t)
  <2>1. ASSUME NEW i \in 1..Len(s \o t), NEW j \in 1..Len(s \o t), (s \o t)[i] = (s \o t)[j]
        PROVE  i = j
    <3>1. CASE i \in 1..Len(s) /\ j \in 1..Len(s)
      BY <1>1, <1>6, <2>1, <3>1 DEF Once
    <3>2. CASE i - Len(s) \in 1..Len(t) /\ i = Len(s) + (i - Len(s))
               /\ j - Len(s) \in 1..Len(t) /\ j = Len(s) + (j - Len(s))
      <4>1. t[i - Len(s)] = t[j - Len(s)]
        BY <1>1, <2>1, <3>2
      <4>2. i - Len(s) = j - Len(s)
        BY <1>6, <3>2, <4>1 DEF Once
      <4> QED BY <3>2, <4>2
    <3>3. CASE i \in 1..Len(s) /\ j - Len(s) \in 1..Len(t) /\ j = Len(s) + (j - Len(s))
      <4>1. s[i] = t[j - Len(s)]
        BY <1>1, <2>1, <3>3
      <4> QED BY <1>6, <3>3, <4>1 DEF ListOf
    <3>4. CASE j \in 1..Len(s) /\ i - Len(s) \in 1..Len(t) /\ i = Len(s) + (i - Len(s))
      <4>1. s[j] = t[i - Len(s)]
        BY <1>1, <2>1, <3>4
      <4> QED BY <1>6, <3>4, <4>1 DEF ListOf
    <3> QED BY <1>1, <1>2, <3>1, <3>2, <3>3, <3>4
  <2> QED BY <2>1 DEF Once
<1>7. ASSUME Once(s \o t)
      PROVE  Once(s) /\ Once(t) /\ ListOf(s) \intersect ListOf(t) = {}
  <2>1. \A i, j \in 1..(Len(s) + Len(t)) : (s \o t)[i] = (s \o t)[j] => i = j
    BY <1>1, <1>7 DEF Once
  <2>2. Once(s)
    BY <1>1, <1>3, <2>1 DEF Once
  <2>3. Once(t)
    <3>1. ASSUME NEW i \in 1..Len(t), NEW j \in 1..Len(t), t[i] = t[j]
          PROVE  i = j
      <4>1. Len(s) + i = Len(s) + j
        BY <1>1, <1>4, <2>1, <3>1
      <4> QED BY <1>1, <4>1
    <3> QED BY <3>1 DEF Once
  <2>4. ASSUME NEW i \in 1..Len(s), NEW j \in 1..Len(t), s[i] = t[j]
        PROVE  FALSE
    <3>1. i = Len(s) + j
      BY <1>1, <1>3, <1>4, <2>1, <2>4
    <3> QED BY <1>1, <3>1
  <2> QED BY <2>2, <2>3, <2>4 DEF ListOf
<1> QED BY <1>5, <1>6, <1>7
-----------------------------------------------------------------------------
(* Quads *)

LEMMA QuadIs ==
  ASSUME NEW op, NEW arg1, NEW arg2, NEW result, NEW label
  PROVE  LET q == Quad(op, arg1, arg2, result, label)
         IN  /\ IsQuad(q) /\ q.label = label /\ q.patch = "none"
             /\ IsQuad(Hole(q)) /\ Hole(q).label = label /\ Hole(q).patch = "open"
  BY DEF Quad, Hole, IsQuad

\* Emitting appends the quad.
LEMMA EmitIs ==
  ASSUME NEW g, CodeOK(g), NEW q, IsQuad(q), q.label \in 0..(Len(g.quads) + 3)
  PROVE  /\ CodeOK(Emit(g, q)) /\ Emit(g, q).e = g.e /\ Emit(g, q).temps = g.temps
         /\ Emit(g, q).quads = Append(g.quads, q)
         /\ Len(Emit(g, q).quads) = Len(g.quads) + 1
<1> DEFINE h == Emit(g, q)
<1>1. /\ g \in [quads : {g.quads}, temps : {g.temps}, e : {g.e}]
      /\ IsSeq(g.quads) /\ g.temps \in Nat /\ Len(g.quads) \in Nat
  BY DEF CodeOK, IsSeq
<1>3. h.quads = Append(g.quads, q) /\ h.temps = g.temps /\ h.e = g.e
      /\ h \in [quads : {h.quads}, temps : {h.temps}, e : {h.e}]
  BY <1>1 DEF Emit
<1> HIDE DEF h
<1>4. /\ IsSeq(h.quads) /\ Len(h.quads) = Len(g.quads) + 1
      /\ \A i \in 1..Len(g.quads) : h.quads[i] = g.quads[i]
      /\ h.quads[Len(g.quads) + 1] = q
  BY <1>1, <1>3, Appended
<1>5. ASSUME NEW i \in 1..Len(h.quads)
      PROVE  IsQuad(h.quads[i]) /\ h.quads[i].label \in 0..(Len(h.quads) + 2)
  <2>1. CASE i \in 1..Len(g.quads)
    <3>1. h.quads[i] = g.quads[i] /\ IsQuad(g.quads[i])
          /\ g.quads[i].label \in 0..(Len(g.quads) + 2)
      BY <1>4, <2>1 DEF CodeOK
    <3> QED BY <1>1, <1>4, <3>1
  <2>2. CASE i = Len(g.quads) + 1
    BY <1>1, <1>4, <2>2
  <2> QED BY <1>1, <1>4, <2>1, <2>2
<1>6. CodeOK(h)
  BY <1>1, <1>3, <1>4, <1>5 DEF CodeOK
<1> QED BY <1>3, <1>4, <1>6 DEF h

\* The jumps that wait have been emitted.
LEMMA HeldWithin ==
  ASSUME NEW g, CodeOK(g), NEW held, Waits(g, held)
  PROVE  /\ \A n \in held : n \in 0..(Len(g.quads) - 1)
         /\ \A n \in Nat : n >= Len(g.quads) => n \notin held
<1>1. held = OpenJumps(g.quads) /\ Len(g.quads) \in Nat
  BY DEF Waits, CodeOK, IsSeq
<1>2. ASSUME NEW n \in held PROVE n \in 0..(Len(g.quads) - 1)
  <2>1. PICK i \in 1..Len(g.quads) : n = i - 1
    BY <1>1 DEF OpenJumps
  <2> QED BY <1>1, <2>1
<1>3. ASSUME NEW n \in Nat, n >= Len(g.quads) PROVE n \notin held
  BY <1>1, <1>2, <1>3
<1> QED BY <1>2, <1>3

LEMMA EmitWaits ==
  ASSUME NEW g, CodeOK(g), NEW held, Waits(g, held), NEW q, IsQuad(q),
         q.label \in 0..(Len(g.quads) + 3)
  PROVE  /\ q.patch = "none" => Waits(Emit(g, q), held)
         /\ q.patch = "open" => Waits(Emit(g, q), held \union {Len(g.quads)})
<1> DEFINE h == Emit(g, q)
<1>1. h.quads = Append(g.quads, q) /\ IsSeq(g.quads) /\ Len(g.quads) \in Nat
  BY EmitIs DEF CodeOK, IsSeq
<1>2. /\ Len(h.quads) = Len(g.quads) + 1
      /\ \A i \in 1..Len(g.quads) : h.quads[i] = g.quads[i]
      /\ h.quads[Len(g.quads) + 1] = q
  BY <1>1, Appended
<1> HIDE DEF h
<1>3. \A i \in 1..Len(h.quads) : i \in 1..Len(g.quads) \/ i = Len(g.quads) + 1
  BY <1>1, <1>2
<1>4. \A i \in 1..Len(g.quads) : i \in 1..Len(h.quads)
  BY <1>1, <1>2
<1>5. held = OpenJumps(g.quads) /\ \A i \in 1..Len(g.quads) : g.quads[i].patch # "again"
  BY DEF Waits
<1>6. Len(g.quads) + 1 \in 1..Len(h.quads) /\ Len(g.quads) + 1 - 1 = Len(g.quads)
  BY <1>1, <1>2
<1>7. ASSUME q.patch = "none" PROVE Waits(h, held)
  <2>1. OpenJumps(h.quads) = OpenJumps(g.quads)
    <3>1. {j \in 1..Len(h.quads) : h.quads[j].patch = "open"}
            = {j \in 1..Len(g.quads) : g.quads[j].patch = "open"}
      BY <1>2, <1>3, <1>4, <1>7
    <3> QED BY <3>1 DEF OpenJumps
  <2>2. \A i \in 1..Len(h.quads) : h.quads[i].patch # "again"
    BY <1>2, <1>3, <1>5, <1>7
  <2> QED BY <1>5, <2>1, <2>2 DEF Waits
<1>8. ASSUME q.patch = "open" PROVE Waits(h, held \union {Len(g.quads)})
  <2>1. OpenJumps(h.quads) = OpenJumps(g.quads) \union {Len(g.quads)}
    <3>1. {j \in 1..Len(h.quads) : h.quads[j].patch = "open"}
            = {j \in 1..Len(g.quads) : g.quads[j].patch = "open"} \union {Len(g.quads) + 1}
      BY <1>2, <1>3, <1>4, <1>6, <1>8
    <3> DEFINE J == {j \in 1..Len(g.quads) : g.quads[j].patch = "open"}
    <3>2. {i - 1 : i \in J \union {Len(g.quads) + 1}}
            = {i - 1 : i \in J} \union {Len(g.quads)}
      <4>1. ASSUME NEW i \in J \union {Len(g.quads) + 1}
            PROVE  i - 1 \in {k - 1 : k \in J} \union {Len(g.quads)}
        <5> HIDE DEF J
        <5> QED BY <1>6
      <4>2. {k - 1 : k \in J} \subseteq {i - 1 : i \in J \union {Len(g.quads) + 1}}
        <5> HIDE DEF J
        <5> QED OBVIOUS
      <4>3. Len(g.quads) \in {i - 1 : i \in J \union {Len(g.quads) + 1}}
        <5> HIDE DEF J
        <5>1. Len(g.quads) + 1 \in J \union {Len(g.quads) + 1}
          OBVIOUS
        <5>2. PICK i \in J \union {Len(g.quads) + 1} : i = Len(g.quads) + 1
          BY <5>1
        <5>3. i - 1 = Len(g.quads)
          BY <1>6, <5>2
        <5> QED BY <5>3
      <4> HIDE DEF J
      <4> QED BY <4>1, <4>2, <4>3
    <3> QED BY <3>1, <3>2 DEF OpenJumps
  <2>2. \A i \in 1..Len(h.quads) : h.quads[i].patch # "again"
    BY <1>2, <1>3, <1>5, <1>8
  <2> QED BY <1>5, <2>1, <2>2 DEF Waits
<1> QED BY <1>7, <1>8 DEF h

\* A quad that is complete, with a label not too far ahead
LEMMA Plain ==
  ASSUME NEW g, CodeOK(g), NEW op, NEW arg1, NEW arg2, NEW result,
         NEW label \in 0..(Len(g.quads) + 3)
  PROVE  LET h == Emit(g, Quad(op, arg1, arg2, result, label))
         IN  /\ CodeOK(h) /\ h.e = g.e /\ h.temps = g.temps
             /\ Len(h.quads) = Len(g.quads) + 1
             /\ \A held : Waits(g, held) => Waits(h, held)
<1> DEFINE q == Quad(op, arg1, arg2, result, label)
<1>1. IsQuad(q) /\ q.label = label /\ q.patch = "none"
  BY QuadIs
<1> HIDE DEF q
<1>2. /\ CodeOK(Emit(g, q)) /\ Emit(g, q).e = g.e /\ Emit(g, q).temps = g.temps
      /\ Len(Emit(g, q).quads) = Len(g.quads) + 1
  BY <1>1, EmitIs
<1>3. ASSUME NEW held, Waits(g, held) PROVE Waits(Emit(g, q), held)
  BY <1>1, <1>3, EmitWaits
<1> QED BY <1>2, <1>3 DEF q

\* A jump that waits for its label
LEMMA Open ==
  ASSUME NEW g, CodeOK(g), NEW op, NEW arg1, NEW arg2, NEW result
  PROVE  LET h == Emit(g, Hole(Quad(op, arg1, arg2, result, 0)))
         IN  /\ CodeOK(h) /\ h.e = g.e /\ h.temps = g.temps
             /\ Len(h.quads) = Len(g.quads) + 1
             /\ \A held : Waits(g, held) => Waits(h, held \union {Len(g.quads)})
<1> DEFINE q == Hole(Quad(op, arg1, arg2, result, 0))
<1>1. IsQuad(q) /\ q.label = 0 /\ q.patch = "open"
  BY QuadIs
<1> HIDE DEF q
<1>2. 0 \in 0..(Len(g.quads) + 3)
  BY DEF CodeOK, IsSeq
<1>3. /\ CodeOK(Emit(g, q)) /\ Emit(g, q).e = g.e /\ Emit(g, q).temps = g.temps
      /\ Len(Emit(g, q).quads) = Len(g.quads) + 1
  BY <1>1, <1>2, EmitIs
<1>4. ASSUME NEW held, Waits(g, held)
      PROVE  Waits(Emit(g, q), held \union {Len(g.quads)})
  BY <1>1, <1>2, <1>4, EmitWaits
<1> QED BY <1>3, <1>4 DEF q

\* Patching a list of waiting jumps takes them from those that wait.
LEMMA Patched ==
  ASSUME NEW g, CodeOK(g), NEW l, IsSeq(l), NEW label \in 0..(Len(g.quads) + 2)
  PROVE  LET h == patch_list(g, l, label)
         IN  /\ CodeOK(h) /\ h.e = g.e /\ h.temps = g.temps
             /\ Len(h.quads) = Len(g.quads)
             /\ \A held : Waits(g, held) /\ ListOf(l) \subseteq held
                  => Waits(h, held \ ListOf(l))
<1> DEFINE h == patch_list(g, l, label)
           new == [i \in 1..Len(g.quads) |->
                     IF i - 1 \in ListOf(l) THEN SetLabel(g.quads[i], label)
                     ELSE g.quads[i]]
<1>1. /\ g \in [quads : {g.quads}, temps : {g.temps}, e : {g.e}]
      /\ IsSeq(g.quads) /\ g.temps \in Nat /\ Len(g.quads) \in Nat
      /\ DOMAIN g.quads = 1..Len(g.quads)
  BY AsSeq DEF CodeOK
<1>2. ToSet(l) = ListOf(l)
  BY AsSeq DEF ToSet, ListOf
<1>3. h = [g EXCEPT !.quads = new]
  BY <1>1, <1>2 DEF patch_list
<1>4. h.quads = new /\ h.temps = g.temps /\ h.e = g.e
      /\ h \in [quads : {h.quads}, temps : {h.temps}, e : {h.e}]
  <2> HIDE DEF new, h
  <2> QED BY <1>1, <1>3
<1>5. IsSeq(new) /\ Len(new) = Len(g.quads)
  <2> DEFINE R == {new[i] : i \in 1..Len(g.quads)}
  <2>1. new \in [1..Len(g.quads) -> R]
    OBVIOUS
  <2> HIDE DEF new, R
  <2>2. new \in Seq(R)
    BY <1>1, <2>1, SeqDef
  <2>3. Len(new) = Len(g.quads)
    BY <1>1, <2>1, <2>2, LenProperties
  <2> QED BY <2>2, <2>3, ToIsSeq
<1>6. ASSUME NEW i \in 1..Len(g.quads)
      PROVE  /\ IsQuad(h.quads[i]) /\ h.quads[i].label \in 0..(Len(g.quads) + 2)
             /\ i - 1 \notin ListOf(l) => h.quads[i] = g.quads[i]
             /\ i - 1 \in ListOf(l) => h.quads[i].patch =
                  IF g.quads[i].patch = "open" THEN "once" ELSE "again"
  <2>1. IsQuad(g.quads[i]) /\ g.quads[i].label \in 0..(Len(g.quads) + 2)
    BY DEF CodeOK
  <2>2. /\ IsQuad(SetLabel(g.quads[i], label)) /\ SetLabel(g.quads[i], label).label = label
        /\ SetLabel(g.quads[i], label).patch =
             IF g.quads[i].patch = "open" THEN "once" ELSE "again"
    BY <2>1 DEF SetLabel, IsQuad
  <2>3. h.quads[i] = IF i - 1 \in ListOf(l) THEN SetLabel(g.quads[i], label)
                     ELSE g.quads[i]
    BY <1>4
  <2> HIDE DEF h
  <2> QED BY <2>1, <2>2, <2>3
<1> HIDE DEF h, new
<1>7. Len(h.quads) = Len(g.quads)
  BY <1>4, <1>5
<1>8. CodeOK(h)
  BY <1>1, <1>4, <1>5, <1>6, <1>7 DEF CodeOK
<1>9. ASSUME NEW held, Waits(g, held), ListOf(l) \subseteq held
      PROVE  Waits(h, held \ ListOf(l))
  <2>1. held = OpenJumps(g.quads) /\ \A i \in 1..Len(g.quads) : g.quads[i].patch # "again"
    BY <1>9 DEF Waits
  <2>2. ASSUME NEW i \in 1..Len(g.quads), i - 1 \in ListOf(l)
        PROVE  g.quads[i].patch = "open"
    <3>1. i - 1 \in OpenJumps(g.quads)
      BY <1>9, <2>1, <2>2
    <3>2. PICK j \in 1..Len(g.quads) : i - 1 = j - 1 /\ g.quads[j].patch = "open"
      BY <3>1 DEF OpenJumps
    <3>3. i = j
      BY <1>1, <3>2
    <3> QED BY <3>2, <3>3
  <2>3. ASSUME NEW i \in 1..Len(g.quads)
        PROVE  /\ h.quads[i].patch # "again"
               /\ h.quads[i].patch = "open"
                    <=> g.quads[i].patch = "open" /\ i - 1 \notin ListOf(l)
    BY <1>6, <2>1, <2>2
  <2>4. OpenJumps(h.quads) = OpenJumps(g.quads) \ ListOf(l)
    <3>1. OpenJumps(h.quads) \subseteq OpenJumps(g.quads) \ ListOf(l)
      BY <1>7, <2>3 DEF OpenJumps
    <3>2. OpenJumps(g.quads) \ ListOf(l) \subseteq OpenJumps(h.quads)
      BY <1>7, <2>3 DEF OpenJumps
    <3> QED BY <3>1, <3>2
  <2> QED BY <1>7, <2>1, <2>3, <2>4 DEF Waits
<1> QED BY <1>4, <1>7, <1>8, <1>9 DEF h
-----------------------------------------------------------------------------
(* Expr records *)

LEMMA Created ==
  ASSUME NEW type, ExecutionOK
  PROVE  LET e == create_expr(type)
         IN  /\ IsExpr(e) /\ e.type = type /\ e.kind = "expr" /\ e.sym = ""
             /\ e.t_list = <<>> /\ e.f_list = <<>> /\ e.index = <<>> /\ e.mask = live
<1> DEFINE e == create_expr(type)
<1>1. /\ e \in [type : {e.type}, kind : {e.kind}, sym : {e.sym}, const : {e.const},
                index : {e.index}, t_list : {e.t_list}, f_list : {e.f_list},
                val : {e.val}, mask : {e.mask}]
      /\ e.type = type /\ e.kind = "expr" /\ e.sym = ""
      /\ e.t_list = <<>> /\ e.f_list = <<>> /\ e.index = <<>> /\ e.mask = live
  BY DEF create_expr
<1> HIDE DEF e
<1>2. IsSeq(e.t_list) /\ IsSeq(e.f_list) /\ \A s \in Starts : e.mask[s] \in BOOLEAN
  BY <1>1, NoneOf DEF ExecutionOK
<1> QED BY <1>1, <1>2 DEF IsExpr, e

\* What an item without lists is.
Plainly(e) ==
  /\ IsExpr(e) /\ e.t_list = <<>> /\ e.f_list = <<>> /\ Len(e.index) <= 1

LEMMA CreatedPlainly ==
  ASSUME NEW type, ExecutionOK
  PROVE  Plainly(create_expr(type))
<1> DEFINE e == create_expr(type)
<1>1. IsExpr(e) /\ e.t_list = <<>> /\ e.f_list = <<>> /\ e.index = <<>>
  BY Created
<1> HIDE DEF e
<1>2. Len(e.index) = 0
  BY <1>1, NoneOf
<1>3. Plainly(e)
  BY <1>1, <1>2 DEF Plainly
<1> QED BY <1>3 DEF e

\* A place where an item without lists may stand
LEMMA PlainItem ==
  ASSUME NEW e, Plainly(e), e.kind \in {"lvalue", "call", "expr", "arg"},
         IsItem(e) => e.kind = "lvalue"
  PROVE  ItemOK(e) /\ Jumps(e) = {} /\ Once(Owes(e))
<1>1. e.t_list \o e.f_list = <<>>
  <2>1. Len(<<>> \o <<>>) = 0 /\ IsSeq(<<>> \o <<>>)
    BY NoneOf, Joined
  <2> QED BY <2>1, EmptyIs DEF Plainly
<1>2. Owes(e) = <<>>
  BY <1>1 DEF Owes
<1>3. Jumps(e) = {} /\ Once(Owes(e))
  BY <1>2, ListOfNone DEF Jumps
<1>4. ItemOK(e)
  BY DEF ItemOK, Plainly
<1> QED BY <1>3, <1>4

LEMMA ItemPlainly ==
  ASSUME NEW e, ItemOK(e), e.kind \in {"lvalue", "call", "arg"} \/ (e.kind = "expr" /\ ~Pending(e))
  PROVE  Plainly(e) /\ Jumps(e) = {} /\ Once(Owes(e))
<1>1. e.t_list = <<>> /\ e.f_list = <<>>
  BY DEF ItemOK, Pending
<1>2. Plainly(e)
  BY <1>1 DEF ItemOK, Plainly
<1> QED BY <1>2, PlainItem DEF ItemOK

LEMMA AsIs ==
  ASSUME NEW e, IsExpr(e), NEW kind
  PROVE  LET d == As(kind, e)
         IN  /\ IsExpr(d) /\ d.kind = kind /\ d.type = e.type /\ d.sym = e.sym
             /\ d.index = e.index /\ d.t_list = e.t_list /\ d.f_list = e.f_list
             /\ d.mask = e.mask
  BY DEF As, IsExpr

LEMMA AsPlainly ==
  ASSUME NEW e, Plainly(e), NEW kind
  PROVE  Plainly(As(kind, e)) /\ As(kind, e).kind = kind /\ As(kind, e).type = e.type
  BY AsIs DEF Plainly

\* The jumps of an expr are those in both of its lists.
LEMMA ExprJumps ==
  ASSUME NEW e, IsExpr(e), e.kind \notin {"and", "or"}
  PROVE  /\ Jumps(e) = ListOf(e.t_list) \union ListOf(e.f_list)
         /\ Once(Owes(e)) <=> /\ Once(e.t_list) /\ Once(e.f_list)
                              /\ ListOf(e.t_list) \intersect ListOf(e.f_list) = {}
<1>1. Owes(e) = e.t_list \o e.f_list
  BY DEF Owes
<1>2. IsSeq(e.t_list) /\ IsSeq(e.f_list)
  BY DEF IsExpr
<1> QED BY <1>1, <1>2, ListOfJoined DEF Jumps
-----------------------------------------------------------------------------
(* Code for parts of expressions *)

\* A new temporary takes no code.
LEMMA Fresh ==
  ASSUME NEW g, CodeOK(g), ExecutionOK, NEW type, NEW val
  PROVE  LET h == NewTemp(g, type, val)
         IN  /\ CodeOK(h) /\ h.quads = g.quads /\ Plainly(h.e)
             /\ h.e.kind = "expr" /\ h.e.type = type
             /\ \A held : Waits(g, held) => Waits(h, held)
<1> DEFINE c == create_expr(type)
           e == [c EXCEPT !.sym = TempNames[g.temps + 1], !.val = val]
           h == NewTemp(g, type, val)
<1>1. IsExpr(c) /\ c.type = type /\ c.kind = "expr" /\ Plainly(c)
  BY Created, CreatedPlainly
<1> HIDE DEF c
<1>2. IsExpr(e) /\ e.type = type /\ e.kind = "expr" /\ Plainly(e)
  BY <1>1 DEF IsExpr, Plainly
<1> HIDE DEF e
<1>3. h = [g EXCEPT !.temps = @ + 1, !.e = e]
  BY DEF NewTemp, e, c
<1> HIDE DEF h
<1>4. /\ h \in [quads : {h.quads}, temps : {h.temps}, e : {h.e}]
      /\ h.quads = g.quads /\ h.temps = g.temps + 1 /\ h.e = e
  BY <1>3 DEF CodeOK
<1>5. CodeOK(h)
  BY <1>4 DEF CodeOK
<1>6. \A held : Waits(g, held) => Waits(h, held)
  BY <1>4 DEF Waits
<1> QED BY <1>2, <1>4, <1>5, <1>6 DEF h

\* What is worked on takes no code either.
LEMMA WorkOn ==
  ASSUME NEW g, CodeOK(g), NEW e
  PROVE  LET h == [g EXCEPT !.e = e]
         IN  /\ CodeOK(h) /\ h.quads = g.quads /\ h.e = e
             /\ \A held : Waits(g, held) => Waits(h, held)
<1> DEFINE h == [g EXCEPT !.e = e]
<1>1. /\ h \in [quads : {h.quads}, temps : {h.temps}, e : {h.e}]
      /\ h.quads = g.quads /\ h.temps = g.temps /\ h.e = e
  BY DEF CodeOK
<1> HIDE DEF h
<1>2. CodeOK(h)
  BY <1>1 DEF CodeOK
<1>3. \A held : Waits(g, held) => Waits(h, held)
  BY <1>1 DEF Waits
<1> QED BY <1>1, <1>2, <1>3 DEF h

LEMMA StartCode ==
  ASSUME CodeOK(Code(<<>>)), NEW e
  PROVE  /\ CodeOK(Code(e)) /\ Code(e).e = e /\ Code(e).quads = quads
         /\ \A held : Waits(Code(<<>>), held) => Waits(Code(e), held)
<1>1. /\ Code(e) \in [quads : {quads}, temps : {temp_var_counter}, e : {e}]
      /\ Code(e).quads = quads /\ Code(e).temps = temp_var_counter /\ Code(e).e = e
      /\ Code(<<>>).quads = quads /\ Code(<<>>).temps = temp_var_counter
  BY DEF Code
<1>2. CodeOK(Code(e))
  BY <1>1 DEF CodeOK
<1>3. \A held : Waits(Code(<<>>), held) => Waits(Code(e), held)
  BY <1>1 DEF Waits
<1> QED BY <1>1, <1>2, <1>3

LEMMA JumpIs ==
  ASSUME NEW g, CodeOK(g), NEW label \in 0..(Len(g.quads) + 3)
  PROVE  LET h == Jump(g, label)
         IN  /\ CodeOK(h) /\ h.e = g.e /\ Len(h.quads) = Len(g.quads) + 1
             /\ \A held : Waits(g, held) => Waits(h, held)
  BY Plain DEF Jump

\* A value is made of an operand that has lists: these jumps wait no more.
LEMMA Settle ==
  ASSUME NEW g, CodeOK(g), ExecutionOK, ItemOK(g.e), g.e.kind = "expr"
  PROVE  LET h == backpatch_tf_lists(g)
         IN  /\ CodeOK(h) /\ Plainly(h.e) /\ h.e.kind = "expr" /\ ItemOK(h.e)
             /\ \A held : Waits(g, held) /\ Jumps(g.e) \subseteq held /\ Once(Owes(g.e))
                  => Waits(h, held \ Jumps(g.e))
<1>1. CASE ~Pending(g.e)
  <2>1. backpatch_tf_lists(g) = g
    BY <1>1 DEF backpatch_tf_lists
  <2>2. Plainly(g.e) /\ Jumps(g.e) = {}
    BY <1>1, ItemPlainly
  <2>3. \A held : Waits(g, held) => Waits(g, held \ {})
    <3>1. \A held : held \ {} = held
      OBVIOUS
    <3> QED BY <3>1
  <2> QED BY <2>1, <2>2, <2>3
<1>2. CASE Pending(g.e)
  <2> DEFINE r == NewTemp(g, "bool_expr_e", g.e.val)
             t == patch_list(r, g.e.t_list, Len(g.quads))
             u == Emit(t, Quad("assign", Const(True), None, Operand(r.e), 0))
             v == Jump(u, Len(u.quads) + 2)
             w == patch_list(v, g.e.f_list, Len(v.quads))
             x == Emit(w, Quad("assign", Const(False), None, Operand(r.e), 0))
             T == ListOf(g.e.t_list)
             F == ListOf(g.e.f_list)
  <2>0. IsSeq(g.e.t_list) /\ IsSeq(g.e.f_list) /\ IsExpr(g.e)
    BY DEF ItemOK, IsExpr
  <2>1. /\ CodeOK(r) /\ r.quads = g.quads /\ Plainly(r.e)
        /\ r.e.kind = "expr" /\ r.e.type = "bool_expr_e"
        /\ \A held : Waits(g, held) => Waits(r, held)
    BY Fresh
  <2>2. backpatch_tf_lists(g) = x
    BY <1>2 DEF backpatch_tf_lists, next_quad
  <2> HIDE DEF r
  <2>3. /\ CodeOK(t) /\ t.e = r.e /\ Len(t.quads) = Len(g.quads)
        /\ \A held : Waits(r, held) /\ T \subseteq held => Waits(t, held \ T)
    <3>1. Len(g.quads) \in 0..(Len(r.quads) + 2) /\ Len(r.quads) = Len(g.quads)
      BY <2>1 DEF CodeOK, IsSeq
    <3> QED BY <2>0, <2>1, <3>1, Patched
  <2> HIDE DEF t
  <2>4. /\ CodeOK(u) /\ u.e = t.e /\ Len(u.quads) = Len(t.quads) + 1
        /\ \A held : Waits(t, held) => Waits(u, held)
    <3>1. 0 \in 0..(Len(t.quads) + 3)
      BY <2>3 DEF CodeOK, IsSeq
    <3> QED BY <2>3, <3>1, Plain
  <2> HIDE DEF u
  <2>5. /\ CodeOK(v) /\ v.e = u.e /\ Len(v.quads) = Len(u.quads) + 1
        /\ \A held : Waits(u, held) => Waits(v, held)
    <3>1. Len(u.quads) + 2 \in 0..(Len(u.quads) + 3)
      BY <2>4 DEF CodeOK, IsSeq
    <3> QED BY <2>4, <3>1, JumpIs
  <2> HIDE DEF v
  <2>6. /\ CodeOK(w) /\ w.e = v.e /\ Len(w.quads) = Len(v.quads)
        /\ \A held : Waits(v, held) /\ F \subseteq held => Waits(w, held \ F)
    <3>1. Len(v.quads) \in 0..(Len(v.quads) + 2)
      BY <2>5 DEF CodeOK, IsSeq
    <3> QED BY <2>0, <2>5, <3>1, Patched
  <2> HIDE DEF w
  <2>7. /\ CodeOK(x) /\ x.e = w.e /\ \A held : Waits(w, held) => Waits(x, held)
    <3>1. 0 \in 0..(Len(w.quads) + 3)
      BY <2>6 DEF CodeOK, IsSeq
    <3> QED BY <2>6, <3>1, Plain
  <2> HIDE DEF x
  <2>8. x.e = r.e
    BY <2>3, <2>4, <2>5, <2>6, <2>7
  <2>9. ItemOK(x.e)
    BY <2>1, <2>8, PlainItem DEF IsItem
  <2>10. ASSUME NEW held, Waits(g, held), Jumps(g.e) \subseteq held, Once(Owes(g.e))
         PROVE  Waits(x, held \ Jumps(g.e))
    <3>1. Jumps(g.e) = T \union F /\ T \intersect F = {}
      BY <2>0, <2>10, ExprJumps
    <3>2. Waits(t, held \ T) /\ F \subseteq held \ T
      BY <2>1, <2>3, <2>10, <3>1
    <3> HIDE DEF T, F
    <3>3. Waits(v, held \ T)
      BY <2>4, <2>5, <3>2
    <3>4. Waits(x, (held \ T) \ F)
      BY <2>6, <2>7, <3>2, <3>3
    <3>5. (held \ T) \ F = held \ Jumps(g.e)
      BY <3>1
    <3> QED BY <3>4, <3>5
  <2> QED BY <2>1, <2>2, <2>7, <2>8, <2>9, <2>10
<1> QED BY <1>1, <1>2

\* An element of a table is fetched.
LEMMA Fetch ==
  ASSUME NEW g, CodeOK(g), ExecutionOK, Plainly(g.e)
  PROVE  LET h == emit_if_table_item(g)
         IN  /\ CodeOK(h) /\ Plainly(h.e) /\ ~IsItem(h.e)
             /\ ~IsItem(g.e) => h = g
             /\ IsItem(g.e) => h.e.kind = "expr"
             /\ \A held : Waits(g, held) => Waits(h, held)
<1>1. CASE ~IsItem(g.e)
  BY <1>1 DEF emit_if_table_item, IsItem
<1>2. CASE IsItem(g.e)
  <2> DEFINE r == NewTemp(g, "var_e", [s \in Starts |-> Element(g.e, s)])
             x == Emit(r, Quad("tablegetelem", Cell(g.e.sym), Operand(g.e.index[1]),
                               Operand(r.e), 0))
  <2>1. /\ CodeOK(r) /\ Plainly(r.e) /\ r.e.kind = "expr" /\ r.e.type = "var_e"
        /\ \A held : Waits(g, held) => Waits(r, held)
    BY Fresh
  <2>2. emit_if_table_item(g) = x
    BY <1>2 DEF emit_if_table_item, IsItem
  <2> HIDE DEF r
  <2>3. /\ CodeOK(x) /\ x.e = r.e /\ \A held : Waits(r, held) => Waits(x, held)
    <3>1. 0 \in 0..(Len(r.quads) + 3)
      BY <2>1 DEF CodeOK, IsSeq
    <3> QED BY <2>1, <3>1, Plain
  <2> HIDE DEF x
  <2> QED BY <1>2, <2>1, <2>2, <2>3 DEF IsItem
<1> QED BY <1>1, <1>2

\* An operand without lists is tested, which gives it some.
LEMMA Listed ==
  ASSUME NEW g, CodeOK(g), ItemOK(g.e), g.e.kind = "expr"
  PROVE  LET h == WithLists(g)
         IN  /\ CodeOK(h) /\ ItemOK(h.e) /\ h.e.kind = "expr"
             /\ h.e.t_list # <<>> /\ h.e.f_list # <<>>
             /\ \A held : Waits(g, held) /\ Jumps(g.e) \subseteq held /\ Once(Owes(g.e))
                  => /\ Waits(h, held \union Jumps(h.e)) /\ Once(Owes(h.e))
                     /\ Jumps(h.e) \intersect held = Jumps(g.e)
<1>1. CASE Pending(g.e)
  <2>1. WithLists(g) = g
    BY <1>1 DEF WithLists
  <2>2. g.e.f_list # <<>> /\ g.e.t_list # <<>>
    BY <1>1 DEF Pending, ItemOK
  <2>3. ASSUME NEW held, Waits(g, held), Jumps(g.e) \subseteq held
        PROVE  Waits(g, held \union Jumps(g.e)) /\ Jumps(g.e) \intersect held = Jumps(g.e)
    <3>1. held \union Jumps(g.e) = held
      BY <2>3
    <3> QED BY <2>3, <3>1
  <2> QED BY <2>1, <2>2, <2>3
<1>2. CASE ~Pending(g.e)
  <2> DEFINE n == Len(g.quads)
             t == TestHole(g)
             j == JumpHole(t)
             truth == [s \in Starts |-> Boolean(Truth(Read(g.e, s)))]
             d == [g.e EXCEPT !.t_list = <<n>>, !.f_list = <<n + 1>>, !.val = truth]
             h == [j EXCEPT !.e = d]
  <2>0. n \in Nat
    BY DEF CodeOK, IsSeq
  <2>1. /\ CodeOK(t) /\ t.e = g.e /\ Len(t.quads) = n + 1
        /\ \A held : Waits(g, held) => Waits(t, held \union {n})
    BY Open DEF TestHole
  <2> HIDE DEF t
  <2>2. /\ CodeOK(j) /\ j.e = g.e
        /\ \A held : Waits(t, held) => Waits(j, held \union {n + 1})
    BY <2>1, Open DEF JumpHole
  <2>3. h = WithLists(g)
    BY <1>2 DEF WithLists, next_quad, t
  <2> HIDE DEF j
  <2>4. /\ CodeOK(h) /\ h.e = d /\ \A held : Waits(j, held) => Waits(h, held)
    <3> HIDE DEF d
    <3> QED BY <2>2, WorkOn
  <2> HIDE DEF h
  <2>5. /\ d \in [type : {d.type}, kind : {d.kind}, sym : {d.sym}, const : {d.const},
                  index : {d.index}, t_list : {d.t_list}, f_list : {d.f_list},
                  val : {d.val}, mask : {d.mask}]
        /\ d.kind = "expr" /\ d.t_list = <<n>> /\ d.f_list = <<n + 1>>
        /\ d.type = g.e.type /\ d.index = g.e.index /\ d.mask = g.e.mask
    <3> HIDE DEF n, truth
    <3> QED BY DEF ItemOK, IsExpr
  <2> HIDE DEF d, truth
  <2>6. IsSeq(d.t_list) /\ d.t_list # <<>> /\ IsSeq(d.f_list) /\ d.f_list # <<>>
    BY <2>5, OneOf
  <2>7. IsExpr(d)
    BY <2>5, <2>6 DEF ItemOK, IsExpr
  <2>8. ItemOK(d)
    BY <2>5, <2>6, <2>7 DEF ItemOK, IsItem
  <2>9. Jumps(g.e) = {}
    BY <1>2, ItemPlainly
  <2>10. Jumps(d) = {n, n + 1} /\ Once(Owes(d))
    <3>1. ListOf(d.t_list) = {n} /\ ListOf(d.f_list) = {n + 1}
          /\ Once(d.t_list) /\ Once(d.f_list)
      BY <2>5, ListOfOne
    <3>2. {n} \intersect {n + 1} = {}
      BY <2>0
    <3> QED BY <2>5, <2>7, <3>1, <3>2, ExprJumps
  <2>11. ASSUME NEW held, Waits(g, held)
         PROVE  Waits(h, held \union Jumps(d)) /\ Jumps(d) \intersect held = {}
    <3>1. Waits(h, (held \union {n}) \union {n + 1})
      BY <2>1, <2>2, <2>4, <2>11
    <3>2. (held \union {n}) \union {n + 1} = held \union Jumps(d)
      BY <2>10
    <3>3. n \notin held /\ n + 1 \notin held
      BY <2>0, <2>11, HeldWithin DEF n
    <3> QED BY <2>10, <3>1, <3>2, <3>3
  <2> QED BY <2>3, <2>4, <2>5, <2>6, <2>8, <2>9, <2>10, <2>11
<1> QED BY <1>1, <1>2
-----------------------------------------------------------------------------
(* Reductions *)

\* An item on the stack
LEMMA ItemIs ==
  ASSUME IsSeq(stack), NEW n \in Nat, Len(stack) >= n, NEW i \in 1..n
  PROVE  Len(stack) - i + 1 \in 1..Len(stack) /\ Item(i) = stack[Len(stack) - i + 1]
<1>1. Len(stack) \in Nat
  BY DEF IsSeq
<1> QED BY <1>1 DEF Item

LEMMA ItemShape ==
  ASSUME Shapes, NEW n \in Nat, Len(stack) >= n, NEW i \in 1..n
  PROVE  ItemOK(Item(i))
<1>1. Len(stack) - i + 1 \in 1..Len(stack) /\ Item(i) = stack[Len(stack) - i + 1]
  BY ItemIs DEF Shapes
<1> QED BY <1>1 DEF Shapes

\* What a reduction makes of the state, direct execution aside
Comes(n, g) ==
  /\ stack' = Append(SubSeq(stack, 1, Len(stack) - n), g.e)
  /\ quads' = g.quads /\ temp_var_counter' = g.temps /\ status' = status

LEMMA ReducedComes ==
  ASSUME NEW n, NEW g, Reduced(n, g)
  PROVE  Comes(n, g)
  BY DEF Reduced, Comes

\* The stack after a reduction
LEMMA ReducedStack ==
  ASSUME IsSeq(stack), NEW n \in Nat, Len(stack) >= n, NEW e,
         stack' = Append(SubSeq(stack, 1, Len(stack) - n), e)
  PROVE  /\ IsSeq(stack') /\ Len(stack') = Len(stack) - n + 1
         /\ \A i \in 1..(Len(stack) - n) : stack'[i] = stack[i]
         /\ stack'[Len(stack) - n + 1] = e
         /\ \A i \in 1..Len(stack') : i \in 1..(Len(stack) - n) \/ i = Len(stack) - n + 1
         /\ \A i \in 1..(Len(stack) - n) : i \in 1..Len(stack)
<1> DEFINE m == Len(stack) - n
           s == SubSeq(stack, 1, m)
<1>1. Len(stack) \in Nat /\ m \in 0..Len(stack)
  BY DEF IsSeq
<1> HIDE DEF m
<1>2. IsSeq(s) /\ Len(s) = m /\ \A i \in 1..m : s[i] = stack[i]
  BY <1>1, Cut
<1>3. stack' = Append(s, e)
  BY DEF m
<1> HIDE DEF s
<1>4. /\ IsSeq(Append(s, e)) /\ Len(Append(s, e)) = m + 1
      /\ \A i \in 1..m : Append(s, e)[i] = s[i]
      /\ Append(s, e)[m + 1] = e
  BY <1>2, Appended
<1>5. \A i \in 1..(m + 1) : i \in 1..m \/ i = m + 1
  BY <1>1
<1>6. \A i \in 1..m : i \in 1..Len(stack)
  BY <1>1
<1> QED BY <1>2, <1>3, <1>4, <1>5, <1>6 DEF m

LEMMA SameStarts ==
  ASSUME program' = program
  PROVE  Starts' = Starts
  BY DEF Starts, Var, Table

\* A reduction to an item of the right shape, with code of the right shape
LEMMA ReducedShapes ==
  ASSUME Shapes, program' = program, NEW n \in Nat, Len(stack) >= n,
         NEW g, CodeOK(g), ItemOK(g.e), Comes(n, g), ExecutionOK'
  PROVE  Shapes'
<1>1. /\ stack' = Append(SubSeq(stack, 1, Len(stack) - n), g.e)
      /\ quads' = g.quads /\ temp_var_counter' = g.temps /\ status' = status
  BY DEF Comes
<1>2. IsSeq(stack)
  BY DEF Shapes
<1>3. /\ IsSeq(stack') /\ Len(stack') = Len(stack) - n + 1
      /\ \A i \in 1..(Len(stack) - n) : stack'[i] = stack[i]
      /\ stack'[Len(stack) - n + 1] = g.e
      /\ \A i \in 1..Len(stack') : i \in 1..(Len(stack) - n) \/ i = Len(stack) - n + 1
      /\ \A i \in 1..(Len(stack) - n) : i \in 1..Len(stack)
  BY <1>1, <1>2, ReducedStack
<1>4. ASSUME NEW i \in 1..Len(stack') PROVE ItemOK(stack'[i])
  BY <1>3 DEF Shapes
<1>5. \A i \in (1..Len(stack))' : ItemOK(stack[i])'
  BY <1>4 DEF Starts, Var, Table, ItemOK, IsExpr, IsItem, IsSeq
<1>6. CodeOK(Code(<<>>))'
  <2> DEFINE c == [quads |-> quads', temps |-> temp_var_counter', e |-> <<>>]
  <2>1. c.quads = g.quads /\ c.temps = g.temps
        /\ c \in [quads : {c.quads}, temps : {c.temps}, e : {c.e}]
    BY <1>1
  <2> HIDE DEF c
  <2>2. CodeOK(c)
    BY <2>1 DEF CodeOK
  <2> QED BY <2>2 DEF c, CodeOK, Code, IsQuad, IsSeq
<1> QED BY <1>1, <1>3, <1>5, <1>6 DEF Shapes, IsSeq

\* The jumps below the items that are reduced
LEMMA SplitOne ==
  ASSUME Shapes, Holding, ~IR_GEN_FAILED, Len(stack) >= 1
  PROVE  /\ Below(0) = Below(1) \union Jumps(Item(1))
         /\ Below(1) \intersect Jumps(Item(1)) = {}
         /\ Once(Owes(Item(1))) /\ Waits(Code(<<>>), Below(0))
<1> DEFINE m == Len(stack)
<1>1. m \in Nat /\ Item(1) = stack[m] /\ m \in 1..m
  BY DEF Shapes, IsSeq, Item
<1>2. \A i \in 1..m : i \in 1..(m - 1) \/ i = m
  BY <1>1
<1>3. \A i \in 1..(m - 1) : i \in 1..m /\ i # m
  BY <1>1
<1>4. 1..(m - 0) = 1..m
  BY <1>1
<1>5. Below(0) = UNION {Jumps(stack[i]) : i \in 1..m}
  BY <1>4 DEF Below
<1>6. Below(1) = UNION {Jumps(stack[i]) : i \in 1..(m - 1)}
  BY DEF Below
<1>7. /\ Once(Owes(stack[m])) /\ Waits(Code(<<>>), Below(0))
      /\ \A i, j \in 1..m : i # j => Jumps(stack[i]) \intersect Jumps(stack[j]) = {}
  BY <1>1 DEF Holding
<1> HIDE DEF m
<1>8. Below(0) = Below(1) \union Jumps(stack[m])
  BY <1>1, <1>2, <1>3, <1>5, <1>6
<1>9. Below(1) \intersect Jumps(stack[m]) = {}
  BY <1>1, <1>3, <1>6, <1>7
<1> QED BY <1>1, <1>7, <1>8, <1>9

LEMMA SplitTwo ==
  ASSUME Shapes, Holding, ~IR_GEN_FAILED, Len(stack) >= 2
  PROVE  /\ Below(0) = (Below(2) \union Jumps(Item(2))) \union Jumps(Item(1))
         /\ Below(2) \intersect Jumps(Item(1)) = {}
         /\ Below(2) \intersect Jumps(Item(2)) = {}
         /\ Jumps(Item(1)) \intersect Jumps(Item(2)) = {}
         /\ Once(Owes(Item(1))) /\ Once(Owes(Item(2))) /\ Waits(Code(<<>>), Below(0))
<1> DEFINE m == Len(stack)
<1>1. m \in Nat /\ Item(1) = stack[m] /\ m \in 1..m
      /\ Item(2) = stack[m - 1] /\ m - 1 \in 1..(m - 1) /\ m - 1 \in 1..m /\ m - 1 # m
  <2>1. m \in Nat
    BY DEF Shapes, IsSeq
  <2>2. m - 1 + 1 = m /\ m - 2 + 1 = m - 1 /\ m \in 1..m /\ m - 1 \in 1..(m - 1)
        /\ m - 1 \in 1..m /\ m - 1 # m
    BY <2>1
  <2>3. Item(1) = stack[m] /\ Item(2) = stack[m - 1]
    BY <2>2 DEF Item
  <2> QED BY <2>1, <2>2, <2>3
<1>2. \A i \in 1..(m - 1) : i \in 1..(m - 2) \/ i = m - 1
  BY <1>1
<1>3. \A i \in 1..(m - 2) : i \in 1..(m - 1) /\ i \in 1..m /\ i # m - 1
  BY <1>1
<1>4. Below(1) = UNION {Jumps(stack[i]) : i \in 1..(m - 1)}
  BY DEF Below
<1>5. Below(2) = UNION {Jumps(stack[i]) : i \in 1..(m - 2)}
  BY DEF Below
<1>6. /\ Below(0) = Below(1) \union Jumps(Item(1))
      /\ Below(1) \intersect Jumps(Item(1)) = {}
      /\ Once(Owes(Item(1))) /\ Waits(Code(<<>>), Below(0))
  BY <1>1, SplitOne
<1>7. /\ Once(Owes(stack[m - 1]))
      /\ \A i, j \in 1..m : i # j => Jumps(stack[i]) \intersect Jumps(stack[j]) = {}
  BY <1>1 DEF Holding
<1> HIDE DEF m
<1>8. Below(1) = Below(2) \union Jumps(stack[m - 1])
  BY <1>1, <1>2, <1>3, <1>4, <1>5
<1>9. Below(2) \intersect Jumps(stack[m - 1]) = {}
  BY <1>1, <1>3, <1>5, <1>7
<1> QED BY <1>1, <1>6, <1>7, <1>8, <1>9

\* Items without jumps can be left out.
LEMMA SplitNone ==
  ASSUME Shapes, NEW n \in Nat, Len(stack) >= n, \A i \in 1..n : Jumps(Item(i)) = {}
  PROVE  Below(0) = Below(n)
<1> DEFINE m == Len(stack)
<1>1. m \in Nat
  BY DEF Shapes, IsSeq
<1>2. 1..(m - 0) = 1..m
  BY <1>1
<1>3. Below(0) = UNION {Jumps(stack[i]) : i \in 1..m}
  BY <1>2 DEF Below
<1>4. Below(n) = UNION {Jumps(stack[i]) : i \in 1..(m - n)}
  BY DEF Below
<1>5. ASSUME NEW i \in 1..m PROVE i \in 1..(m - n) \/ Jumps(stack[i]) = {}
  <2>1. CASE i \notin 1..(m - n)
    <3>1. m - i + 1 \in 1..n /\ m - (m - i + 1) + 1 = i
      BY <1>1, <2>1
    <3>2. Item(m - i + 1) = stack[i]
      BY <3>1 DEF Item
    <3> QED BY <3>1, <3>2
  <2> QED BY <2>1
<1>6. \A i \in 1..(m - n) : i \in 1..m
  BY <1>1
<1> HIDE DEF m
<1> QED BY <1>3, <1>4, <1>5, <1>6

\* A reduction to an item whose jumps wait, beside those below it
LEMMA ReducedHolding ==
  ASSUME Shapes, Holding, ~IR_GEN_FAILED, NEW n \in Nat, Len(stack) >= n,
         NEW g, Comes(n, g), Once(Owes(g.e)),
         Jumps(g.e) \intersect Below(n) = {}, Waits(g, Below(n) \union Jumps(g.e))
  PROVE  Holding'
<1> DEFINE m == Len(stack) - n
<1>1. /\ stack' = Append(SubSeq(stack, 1, Len(stack) - n), g.e)
      /\ quads' = g.quads
  BY DEF Comes
<1>2. IsSeq(stack) /\ Len(stack) \in Nat
  BY DEF Shapes, IsSeq
<1>3. /\ IsSeq(stack') /\ Len(stack') = m + 1
      /\ \A i \in 1..m : stack'[i] = stack[i]
      /\ stack'[m + 1] = g.e
      /\ \A i \in 1..(m + 1) : i \in 1..m \/ i = m + 1
      /\ \A i \in 1..m : i \in 1..Len(stack)
      /\ m \in Nat
  <2>1. m \in Nat
    BY <1>2
  <2>2. /\ IsSeq(stack') /\ Len(stack') = m + 1
        /\ \A i \in 1..m : stack'[i] = stack[i]
        /\ stack'[m + 1] = g.e
        /\ \A i \in 1..Len(stack') : i \in 1..m \/ i = m + 1
        /\ \A i \in 1..m : i \in 1..Len(stack)
    BY <1>1, <1>2, ReducedStack
  <2> HIDE DEF m
  <2> QED BY <2>1, <2>2
<1>4. Below(n) = UNION {Jumps(stack[i]) : i \in 1..m}
  BY DEF Below
<1>5. /\ \A i \in 1..Len(stack) : Once(Owes(stack[i]))
      /\ \A i, j \in 1..Len(stack) : i # j => Jumps(stack[i]) \intersect Jumps(stack[j]) = {}
  BY DEF Holding
<1> HIDE DEF m
<1>6. \A i \in 1..m : i \in 1..(m + 1) /\ i # m + 1
  BY <1>3
<1>7. m + 1 \in 1..(m + 1)
  BY <1>3
<1> DEFINE J(i) == Jumps(stack'[i])
           below == UNION {J(i) : i \in 1..(m + 1)}
<1>8. \A i \in 1..m : J(i) = Jumps(stack[i])
  BY <1>3
<1>9. J(m + 1) = Jumps(g.e)
  BY <1>3
<1> HIDE DEF J
<1>10. below = Below(n) \union Jumps(g.e)
  BY <1>3, <1>4, <1>6, <1>7, <1>8, <1>9
<1> HIDE DEF below
<1>11. \A i \in 1..(m + 1) : Once(Owes(stack'[i]))
  BY <1>3, <1>5
<1>12. ASSUME NEW i \in 1..(m + 1), NEW j \in 1..(m + 1), i # j
       PROVE  J(i) \intersect J(j) = {}
  <2>1. CASE i \in 1..m /\ j \in 1..m
    BY <1>3, <1>5, <1>8, <1>12, <2>1
  <2>2. CASE i \in 1..m /\ j = m + 1
    <3>1. J(i) \subseteq Below(n)
      BY <1>4, <1>8, <2>2
    <3> QED BY <1>9, <2>2, <3>1
  <2>3. CASE j \in 1..m /\ i = m + 1
    <3>1. J(j) \subseteq Below(n)
      BY <1>4, <1>8, <2>3
    <3> QED BY <1>9, <2>3, <3>1
  <2> QED BY <1>3, <1>12, <2>1, <2>2, <2>3
<1>13. OpenJumps(quads') = below /\ \A i \in 1..Len(quads') : quads'[i].patch # "again"
  BY <1>1, <1>10 DEF Waits
<1>14. Below(0)' = below
  <2>1. 1..(Len(stack') - 0) = 1..(m + 1)
    BY <1>3
  <2>2. Below(0)' = UNION {Jumps(stack'[i]) : i \in 1..(Len(stack') - 0)}
    BY DEF Below, Jumps, ListOf, Owes
  <2> QED BY <2>1, <2>2 DEF below, J
<1>15. Waits(Code(<<>>), Below(0))'
  <2>1. Code(<<>>)'.quads = quads'
    BY DEF Code
  <2> QED BY <1>13, <1>14, <2>1 DEF Waits, OpenJumps
<1>16. \A i \in 1..Len(stack') : Once(Owes(stack'[i]))
  BY <1>3, <1>11
<1>17. \A i, j \in 1..Len(stack') : i # j => Jumps(stack'[i]) \intersect Jumps(stack'[j]) = {}
  BY <1>3, <1>12 DEF J
<1> QED BY <1>15, <1>16, <1>17 DEF Holding, Once, Owes, Jumps, ListOf

\* A reduction to an item without jumps, when those of the operands wait no more
LEMMA PlainResult ==
  ASSUME Shapes, program' = program, ~IR_GEN_FAILED, NEW n \in Nat, Len(stack) >= n,
         NEW g, CodeOK(g), Plainly(g.e), g.e.kind \in {"lvalue", "call", "expr", "arg"},
         IsItem(g.e) => g.e.kind = "lvalue", Comes(n, g), ExecutionOK'
  PROVE  Shapes' /\ (Holding /\ Waits(g, Below(n)) => Holding')
<1>1. ItemOK(g.e) /\ Jumps(g.e) = {} /\ Once(Owes(g.e))
  BY PlainItem
<1>2. Shapes'
  BY <1>1, ReducedShapes
<1>3. ASSUME Holding, Waits(g, Below(n)) PROVE Holding'
  <2>1. Below(n) \union Jumps(g.e) = Below(n) /\ Jumps(g.e) \intersect Below(n) = {}
    BY <1>1
  <2>2. Waits(g, Below(n) \union Jumps(g.e))
    BY <1>3, <2>1
  <2> QED BY <1>1, <1>3, <2>1, <2>2, ReducedHolding
<1> QED BY <1>2, <1>3

\* Operands without jumps leave the others to wait.
LEMMA PlainOperands ==
  ASSUME Shapes, Holding, ~IR_GEN_FAILED, NEW n \in Nat, Len(stack) >= n,
         \A i \in 1..n : Jumps(Item(i)) = {}
  PROVE  Waits(Code(<<>>), Below(n))
<1>1. Below(0) = Below(n)
  BY SplitNone
<1>2. Waits(Code(<<>>), Below(0))
  BY DEF Holding
<1> QED BY <1>1, <1>2

LEMMA PlainOperand ==
  ASSUME Shapes, Holding, ~IR_GEN_FAILED, Len(stack) >= 1, Jumps(Item(1)) = {}
  PROVE  Waits(Code(<<>>), Below(1))
<1>1. \A i \in 1..1 : Jumps(Item(i)) = {}
  <2>1. \A i \in 1..1 : i = 1
    OBVIOUS
  <2> QED BY <2>1
<1> QED BY <1>1, PlainOperands

\* The state of direct execution
LEMMA NothingDone ==
  ASSUME Shapes, program' = program, UNCHANGED execution
  PROVE  ExecutionOK'
<1>1. worlds' = worlds /\ live' = live /\ Starts' = Starts
  BY SameStarts DEF execution
<1> QED BY <1>1 DEF Shapes, ExecutionOK, IsWorld

LEMMA Done ==
  ASSUME Shapes, program' = program, live' = live,
         worlds' = [s \in Starts |-> worlds'[s]], \A s \in Starts : IsWorld(worlds'[s])
  PROVE  ExecutionOK'
<1>1. Starts' = Starts
  BY SameStarts
<1> QED BY <1>1 DEF Shapes, ExecutionOK, IsWorld

LEMMA Branched ==
  ASSUME Shapes, program' = program, worlds' = worlds,
         \A s \in Starts : live'[s] \in BOOLEAN
  PROVE  ExecutionOK'
<1>1. Starts' = Starts
  BY SameStarts
<1> QED BY <1>1 DEF Shapes, ExecutionOK, IsWorld

LEMMA Worlds ==
  ASSUME NEW w, IsWorld(w)
  PROVE  /\ IsWorld(NewTable(w))
         /\ \A t, k, v : IsWorld(SetElem(w, t, k, v))
         /\ \A f, args : IsWorld(Call(w, f, args))
         /\ \A n, v : IsWorld([w EXCEPT !.mem[n] = v])
<1>1. IsWorld(NewTable(w))
  BY DEF IsWorld, NewTable
<1>2. ASSUME NEW t, NEW k, NEW v PROVE IsWorld(SetElem(w, t, k, v))
  <2>1. IsWorld([w EXCEPT !.tables[t - 199][k] = v])
    BY DEF IsWorld
  <2> QED BY <2>1 DEF SetElem
<1>3. ASSUME NEW f, NEW args PROVE IsWorld(Call(w, f, args))
  BY DEF IsWorld, Call
<1>4. ASSUME NEW n, NEW v PROVE IsWorld([w EXCEPT !.mem[n] = v])
  BY DEF IsWorld
<1> QED BY <1>1, <1>2, <1>3, <1>4
-----------------------------------------------------------------------------
(* Steps *)

\* What each step keeps
Keeps == Shapes' /\ (Holding => Holding')

LEMMA ErrorStep ==
  ASSUME Shapes, program' = program, NEW n \in Nat, Len(stack) >= n, Error(n)
  PROVE  Keeps
<1> DEFINE g == Code(create_expr("dummy_e"))
<1>1. /\ IR_GEN_FAILED' = TRUE
      /\ stack' = Append(SubSeq(stack, 1, Len(stack) - n), create_expr("dummy_e"))
      /\ UNCHANGED <<quads, temp_var_counter, items, status>> /\ UNCHANGED execution
  BY DEF Error, code
<1>2. CodeOK(g) /\ g.e = create_expr("dummy_e") /\ g.quads = quads
      /\ g.temps = temp_var_counter
  BY StartCode DEF Shapes, Code
<1>3. Comes(n, g)
  BY <1>1, <1>2 DEF Comes
<1>4. ItemOK(g.e)
  <2>1. LET e == create_expr("dummy_e")
        IN  Plainly(e) /\ e.kind = "expr" /\ e.type = "dummy_e"
    BY Created, CreatedPlainly DEF Shapes
  <2> QED BY <1>2, <2>1, PlainItem DEF IsItem
<1>5. ExecutionOK'
  BY <1>1, NothingDone
<1> HIDE DEF g
<1>6. Shapes'
  BY <1>2, <1>3, <1>4, <1>5, ReducedShapes
<1> QED BY <1>1, <1>6 DEF Keeps, Holding

\* Reading an operand
LEMMA PushStep ==
  ASSUME Shapes, program' = program, ~IR_GEN_FAILED, NEW e, Plainly(e),
         e.kind \in {"expr", "lvalue"}, ~IsItem(e),
         stack' = Append(stack, e), Read1
  PROVE  Keeps
<1> DEFINE g == Code(e)
<1>1. IsSeq(stack) /\ Len(stack) \in Nat /\ stack \in Seq(ListOf(stack))
  BY AsSeq DEF Shapes
<1>2. SubSeq(stack, 1, Len(stack) - 0) = stack
  BY <1>1
<1>3. /\ UNCHANGED <<quads, temp_var_counter, status>> /\ UNCHANGED execution
      /\ IR_GEN_FAILED' = FALSE
  BY DEF Read1, code, Accept
<1>4. /\ CodeOK(g) /\ g.e = e /\ g.quads = quads /\ g.temps = temp_var_counter
      /\ \A held : Waits(Code(<<>>), held) => Waits(g, held)
  BY StartCode DEF Shapes, Code
<1>5. ExecutionOK'
  BY <1>3, NothingDone
<1> HIDE DEF g
<1>6. Comes(0, g)
  BY <1>2, <1>3, <1>4 DEF Comes
<1>7. Waits(Code(<<>>), Below(0)) => Waits(g, Below(0))
  BY <1>4
<1>8. Holding => Waits(Code(<<>>), Below(0))
  BY DEF Holding
<1> QED BY <1>1, <1>4, <1>5, <1>6, <1>7, <1>8, PlainResult DEF Keeps

LEMMA LvalueStep ==
  ASSUME Shapes, program' = program, NEW n, lvalue_ID(n)
  PROVE  Keeps
<1> DEFINE c == create_expr("program_func_e")
           d == create_expr("var_e")
           e == IF n = "func" THEN [c EXCEPT !.sym = n, !.const = Function]
                ELSE [d EXCEPT !.sym = n]
<1>1. /\ ~IR_GEN_FAILED /\ Read1 /\ stack' = Append(stack, As("lvalue", e))
  BY DEF lvalue_ID, Operands, Reading
<1>2. Plainly(c) /\ Plainly(d) /\ c.type = "program_func_e" /\ d.type = "var_e"
  BY Created, CreatedPlainly DEF Shapes
<1> HIDE DEF c, d
<1>3. Plainly(e) /\ e.type # "table_item_e"
  BY <1>2 DEF Plainly, IsExpr
<1> HIDE DEF e
<1>4. Plainly(As("lvalue", e)) /\ As("lvalue", e).kind = "lvalue" /\ ~IsItem(As("lvalue", e))
  BY <1>3, AsPlainly DEF IsItem
<1> QED BY <1>1, <1>4, PushStep

LEMMA ConstantStep ==
  ASSUME Shapes, program' = program, NEW c, constant(c)
  PROVE  Keeps
<1> DEFINE d == create_expr(LiteralType(c))
           e == [d EXCEPT !.const = c]
<1>1. /\ ~IR_GEN_FAILED /\ Read1 /\ stack' = Append(stack, e)
  BY DEF constant, Operands, Reading
<1>2. LiteralType(c) # "table_item_e"
  BY DEF LiteralType
<1>3. Plainly(d) /\ d.type = LiteralType(c) /\ d.kind = "expr"
  BY Created, CreatedPlainly DEF Shapes
<1> HIDE DEF d
<1>4. Plainly(e) /\ e.type = d.type /\ e.kind = "expr"
  BY <1>3 DEF Plainly, IsExpr
<1> HIDE DEF e
<1> QED BY <1>1, <1>2, <1>3, <1>4, PushStep DEF IsItem

\* The topmost item
LEMMA Topmost ==
  ASSUME Shapes, Len(stack) >= 1
  PROVE  ItemOK(Item(1))
<1>1. 1 \in 1..1
  OBVIOUS
<1> QED BY <1>1, ItemShape

LEMMA TopmostTwo ==
  ASSUME Shapes, Len(stack) >= 2
  PROVE  ItemOK(Item(1)) /\ ItemOK(Item(2))
<1>1. 1 \in 1..2 /\ 2 \in 1..2
  OBVIOUS
<1> QED BY <1>1, ItemShape

LEMMA KindOne ==
  ASSUME NEW ks, Kinds(1, ks)
  PROVE  Item(1).kind \in ks
  BY DEF Kinds

LEMMA KindTwo ==
  ASSUME NEW ks, Kinds(2, ks)
  PROVE  Item(1).kind \in ks /\ Item(2).kind \in ks
  BY DEF Kinds

LEMMA PrimaryStep ==
  ASSUME Shapes, program' = program, primary
  PROVE  Keeps
<1> DEFINE e == Item(1)
           c == Code(e)
           g == emit_if_table_item(c)
           h == [g EXCEPT !.e = As("expr", g.e)]
<1>1. /\ ~IR_GEN_FAILED /\ Len(stack) >= 1 /\ e.kind \in {"lvalue", "call"}
      /\ Reduced(1, h) /\ UNCHANGED execution
  BY KindOne DEF primary, Reading, NoEffect
<1>2. ItemOK(e) /\ Plainly(e) /\ Jumps(e) = {}
  BY <1>1, Topmost, ItemPlainly
<1>3. /\ CodeOK(c) /\ c.e = e
      /\ \A held : Waits(Code(<<>>), held) => Waits(c, held)
  BY StartCode DEF Shapes
<1> HIDE DEF c
<1>4. /\ CodeOK(g) /\ Plainly(g.e) /\ ~IsItem(g.e)
      /\ \A held : Waits(c, held) => Waits(g, held)
  BY <1>2, <1>3, Fetch DEF Shapes
<1> HIDE DEF g
<1>5. /\ CodeOK(h) /\ h.e = As("expr", g.e)
      /\ \A held : Waits(g, held) => Waits(h, held)
  BY <1>4, WorkOn
<1>6. Plainly(h.e) /\ h.e.kind = "expr" /\ ~IsItem(h.e)
  BY <1>4, <1>5, AsPlainly DEF IsItem
<1> HIDE DEF h
<1>7. Holding => Waits(h, Below(1))
  <2>1. Holding => Waits(Code(<<>>), Below(1))
    BY <1>1, <1>2, PlainOperand
  <2> QED BY <1>3, <1>4, <1>5, <2>1
<1>8. ExecutionOK'
  BY <1>1, NothingDone
<1>9. Comes(1, h)
  BY <1>1, ReducedComes
<1> QED BY <1>1, <1>5, <1>6, <1>7, <1>8, <1>9, PlainResult DEF Keeps
-----------------------------------------------------------------------------
(* Arithmetic *)

\* A quad that computes a new temporary
LEMMA NewResult ==
  ASSUME Shapes, program' = program, ~IR_GEN_FAILED, NEW n \in Nat, Len(stack) >= n,
         NEW e, NEW type, type # "table_item_e", NEW val, NEW op, NEW arg1, NEW arg2,
         LET g == NewTemp(Code(e), type, val)
         IN  Reduced(n, Emit(g, Quad(op, arg1, arg2, Operand(g.e), 0))),
         UNCHANGED execution
  PROVE  /\ Shapes'
         /\ Holding /\ (\A i \in 1..n : Jumps(Item(i)) = {}) => Holding'
<1> DEFINE c == Code(e)
           g == NewTemp(c, type, val)
           h == Emit(g, Quad(op, arg1, arg2, Operand(g.e), 0))
<1>1. Comes(n, h)
  BY ReducedComes
<1>2. CodeOK(c) /\ \A held : Waits(Code(<<>>), held) => Waits(c, held)
  BY StartCode DEF Shapes
<1> HIDE DEF c
<1>3. /\ CodeOK(g) /\ Plainly(g.e) /\ g.e.kind = "expr" /\ g.e.type = type
      /\ \A held : Waits(c, held) => Waits(g, held)
  BY <1>2, Fresh DEF Shapes
<1> HIDE DEF g
<1>4. 0 \in 0..(Len(g.quads) + 3)
  BY <1>3 DEF CodeOK, IsSeq
<1>5. CodeOK(h) /\ h.e = g.e /\ \A held : Waits(g, held) => Waits(h, held)
  BY <1>3, <1>4, Plain
<1> HIDE DEF h
<1>6. ExecutionOK'
  BY NothingDone
<1>7. ASSUME Holding, \A i \in 1..n : Jumps(Item(i)) = {}
      PROVE  Waits(h, Below(n))
  BY <1>2, <1>3, <1>5, <1>7, PlainOperands
<1> QED BY <1>1, <1>3, <1>5, <1>6, <1>7, PlainResult DEF IsItem

\* Arithmetic keeps the shapes, and the jumps if there are none to lose.
LEMMA ArithmeticStep ==
  ASSUME Shapes, program' = program, NEW op, arithmetic(op)
  PROVE  Shapes' /\ (Holding /\ "pending_operand" \notin Features => Holding')
<1>1. /\ ~IR_GEN_FAILED /\ Len(stack) >= 2
      /\ Item(1).kind \in {"expr"} /\ Item(2).kind \in {"expr"}
      /\ Settled(Item(1), "pending_operand") /\ Settled(Item(2), "pending_operand")
  BY KindTwo DEF arithmetic, Reading
<1>2. CASE Error(2)
  BY <1>1, <1>2, ErrorStep DEF Keeps
<1>3. CASE ~Error(2)
  <2> DEFINE val == [s \in Starts |-> Compute(op, Read(Item(2), s), Read(Item(1), s))]
             g == NewTemp(Code(Item(2)), "arith_expr_e", val)
  <2>1. /\ Reduced(2, Emit(g, Quad(op, Operand(Item(2)), Operand(Item(1)), Operand(g.e), 0)))
        /\ UNCHANGED execution
    BY <1>3 DEF arithmetic, NoEffect
  <2> HIDE DEF val
  <2>2. /\ Shapes'
        /\ Holding /\ (\A i \in 1..2 : Jumps(Item(i)) = {}) => Holding'
    BY <1>1, <2>1, NewResult
  <2>3. ASSUME "pending_operand" \notin Features, NEW i \in 1..2
        PROVE  Jumps(Item(i)) = {}
    <3>1. i = 1 \/ i = 2
      OBVIOUS
    <3>2. ItemOK(Item(1)) /\ ItemOK(Item(2)) /\ ~Pending(Item(1)) /\ ~Pending(Item(2))
      BY <1>1, <2>3, TopmostTwo DEF Settled
    <3>3. Jumps(Item(1)) = {} /\ Jumps(Item(2)) = {}
      BY <1>1, <3>2, ItemPlainly
    <3> QED BY <3>1, <3>3
  <2> QED BY <2>2, <2>3
<1> QED BY <1>2, <1>3

LEMMA UminusStep ==
  ASSUME Shapes, program' = program, uminus
  PROVE  Shapes' /\ (Holding /\ "pending_operand" \notin Features => Holding')
<1>1. /\ ~IR_GEN_FAILED /\ Len(stack) >= 1
      /\ Item(1).kind \in {"expr"} /\ Settled(Item(1), "pending_operand")
  BY KindOne DEF uminus, Reading
<1>2. CASE Error(1)
  BY <1>1, <1>2, ErrorStep DEF Keeps
<1>3. CASE ~Error(1)
  <2> DEFINE val == [s \in Starts |-> Compute("sub", 0, Read(Item(1), s))]
             g == NewTemp(Code(Item(1)), "arith_expr_e", val)
  <2>1. /\ Reduced(1, Emit(g, Quad("uminus", Operand(Item(1)), None, Operand(g.e), 0)))
        /\ UNCHANGED execution
    BY <1>3 DEF uminus, NoEffect
  <2> HIDE DEF val
  <2>2. /\ Shapes'
        /\ Holding /\ (\A i \in 1..1 : Jumps(Item(i)) = {}) => Holding'
    BY <1>1, <2>1, NewResult
  <2>3. ASSUME "pending_operand" \notin Features, NEW i \in 1..1
        PROVE  Jumps(Item(i)) = {}
    <3>1. i = 1
      OBVIOUS
    <3>2. ItemOK(Item(1)) /\ ~Pending(Item(1))
      BY <1>1, <2>3, Topmost DEF Settled
    <3> QED BY <1>1, <3>1, <3>2, ItemPlainly
  <2> QED BY <2>2, <2>3
<1> QED BY <1>2, <1>3

LEMMA Valued ==
  ASSUME NEW g, CodeOK(g), Plainly(g.e), NEW val
  PROVE  LET h == [g EXCEPT !.e.val = val]
         IN  /\ CodeOK(h) /\ h.quads = g.quads /\ Plainly(h.e)
             /\ h.e.kind = g.e.kind /\ h.e.type = g.e.type
             /\ \A held : Waits(g, held) => Waits(h, held)
<1> DEFINE d == [g.e EXCEPT !.val = val]
           h == [g EXCEPT !.e = d]
<1>1. Plainly(d) /\ d.kind = g.e.kind /\ d.type = g.e.type
  BY DEF Plainly, IsExpr
<1> HIDE DEF d
<1>2. /\ CodeOK(h) /\ h.quads = g.quads /\ h.e = d
      /\ \A held : Waits(g, held) => Waits(h, held)
  BY WorkOn
<1>3. h = [g EXCEPT !.e.val = val]
  BY DEF d, CodeOK
<1> HIDE DEF h
<1> QED BY <1>1, <1>2, <1>3

\* A quad whose jump, if it is one, has its label
LEMMA Adding ==
  ASSUME NEW g, CodeOK(g), NEW op, NEW arg1, NEW arg2, NEW result
  PROVE  LET h == Emit(g, Quad(op, arg1, arg2, result, 0))
         IN  /\ CodeOK(h) /\ h.e = g.e /\ Len(h.quads) = Len(g.quads) + 1
             /\ \A held : Waits(g, held) => Waits(h, held)
<1>1. 0 \in 0..(Len(g.quads) + 3)
  BY DEF CodeOK, IsSeq
<1> QED BY <1>1, Plain

LEMMA StoredItem ==
  ASSUME Shapes, program' = program, NEW e, NEW new,
         live' = live,
         worlds' = [s \in Starts |-> IF live[s] THEN StoreItem(e, s, new[s]) ELSE worlds[s]]
  PROVE  ExecutionOK'
<1>2. ASSUME NEW s \in Starts PROVE IsWorld(worlds[s]) /\ IsWorld(StoreItem(e, s, new[s]))
  <2>1. IsWorld(worlds[s])
    BY DEF Shapes, ExecutionOK
  <2> QED BY <2>1, Worlds DEF StoreItem
<1>3. worlds' = [s \in Starts |-> worlds'[s]] /\ \A s \in Starts : IsWorld(worlds'[s])
  BY <1>2
<1> QED BY <1>3, Done

LEMMA StoredVar ==
  ASSUME Shapes, program' = program, NEW e, NEW new,
         live' = live,
         worlds' = [s \in Starts |-> IF live[s] THEN StoreVar(e, s, new[s]) ELSE worlds[s]]
  PROVE  ExecutionOK'
<1>2. ASSUME NEW s \in Starts PROVE IsWorld(worlds[s]) /\ IsWorld(StoreVar(e, s, new[s]))
  <2>1. IsWorld(worlds[s])
    BY DEF Shapes, ExecutionOK
  <2> QED BY <2>1, Worlds DEF StoreVar
<1>3. worlds' = [s \in Starts |-> worlds'[s]] /\ \A s \in Starts : IsWorld(worlds'[s])
  BY <1>2
<1> QED BY <1>3, Done

\* An lvalue's step is kept if no jump is emitted for it.
LEMMA OneResult ==
  ASSUME Shapes, program' = program, ~IR_GEN_FAILED, Len(stack) >= 1,
         Jumps(Item(1)) = {}, NEW g, CodeOK(g), Plainly(g.e), g.e.kind = "expr",
         ~IsItem(g.e), \A held : Waits(Code(<<>>), held) => Waits(g, held),
         Reduced(1, g), ExecutionOK'
  PROVE  Keeps
<1>1. Comes(1, g)
  BY ReducedComes
<1>2. Holding => Waits(g, Below(1))
  BY PlainOperand
<1> QED BY <1>1, <1>2, PlainResult DEF Keeps

LEMMA PrefixStep ==
  ASSUME Shapes, program' = program, NEW op, prefix_step(op)
  PROVE  Keeps
<1> DEFINE lv == Item(1)
           c == Code(lv)
<1>1. /\ ~IR_GEN_FAILED /\ Len(stack) >= 1 /\ lv.kind \in {"lvalue"}
  BY KindOne DEF prefix_step, Reading
<1>2. ItemOK(lv) /\ Plainly(lv) /\ Jumps(lv) = {}
  BY <1>1, Topmost, ItemPlainly
<1>3. CodeOK(c) /\ c.e = lv /\ \A held : Waits(Code(<<>>), held) => Waits(c, held)
  BY StartCode DEF Shapes
<1>4. CASE Error(1)
  BY <1>1, <1>4, ErrorStep
<1>5. CASE ~Error(1) /\ IsItem(lv)
  <2> DEFINE g == emit_if_table_item(c)
             o == Operand(g.e)
             h == Emit(g, Quad(op, o, Const(1), o, 0))
             k == Emit(h, Quad("tablesetelem", Cell(lv.sym), Operand(lv.index[1]), o, 0))
             new == [s \in Starts |-> Plus(op, Element(lv, s))]
             r == [k EXCEPT !.e.val = new]
  <2>1. /\ Reduced(1, r) /\ live' = live
        /\ worlds' = [s \in Starts |-> IF live[s] THEN StoreItem(lv, s, new[s]) ELSE worlds[s]]
    BY <1>5 DEF prefix_step, Effect
  <2> HIDE DEF new
  <2>2. ExecutionOK'
    BY <2>1, StoredItem
  <2> HIDE DEF c
  <2>3. /\ CodeOK(g) /\ Plainly(g.e) /\ ~IsItem(g.e) /\ g.e.kind = "expr"
        /\ \A held : Waits(c, held) => Waits(g, held)
    BY <1>2, <1>3, <1>5, Fetch DEF Shapes
  <2> HIDE DEF g
  <2>4. CodeOK(h) /\ h.e = g.e /\ \A held : Waits(g, held) => Waits(h, held)
    BY <2>3, Adding
  <2> HIDE DEF h
  <2>5. CodeOK(k) /\ k.e = h.e /\ \A held : Waits(h, held) => Waits(k, held)
    BY <2>4, Adding
  <2> HIDE DEF k
  <2>6. /\ CodeOK(r) /\ Plainly(r.e) /\ r.e.kind = k.e.kind /\ r.e.type = k.e.type
        /\ \A held : Waits(k, held) => Waits(r, held)
    BY <2>3, <2>4, <2>5, Valued
  <2> HIDE DEF r
  <2>7. r.e.kind = "expr" /\ ~IsItem(r.e)
    BY <2>3, <2>4, <2>5, <2>6 DEF IsItem
  <2>8. \A held : Waits(Code(<<>>), held) => Waits(r, held)
    BY <1>3, <2>3, <2>4, <2>5, <2>6
  <2> QED BY <1>1, <1>2, <2>1, <2>2, <2>6, <2>7, <2>8, OneResult
<1>6. CASE ~Error(1) /\ ~IsItem(lv)
  <2> DEFINE new == [s \in Starts |-> Plus(op, Read(lv, s))]
             h == Emit(c, Quad(op, Operand(lv), Const(1), Operand(lv), 0))
             g == NewTemp(h, "arith_expr_e", new)
             r == Emit(g, Quad("assign", Operand(lv), None, Operand(g.e), 0))
  <2>1. /\ Reduced(1, r) /\ live' = live
        /\ worlds' = [s \in Starts |-> IF live[s] THEN StoreVar(lv, s, new[s]) ELSE worlds[s]]
    BY <1>6 DEF prefix_step, Effect
  <2> HIDE DEF new
  <2>2. ExecutionOK'
    BY <2>1, StoredVar
  <2> HIDE DEF c
  <2>3. CodeOK(h) /\ \A held : Waits(c, held) => Waits(h, held)
    BY <1>3, Adding
  <2> HIDE DEF h
  <2>4. /\ CodeOK(g) /\ Plainly(g.e) /\ g.e.kind = "expr" /\ g.e.type = "arith_expr_e"
        /\ \A held : Waits(h, held) => Waits(g, held)
    BY <2>3, Fresh DEF Shapes
  <2> HIDE DEF g
  <2>5. CodeOK(r) /\ r.e = g.e /\ \A held : Waits(g, held) => Waits(r, held)
    BY <2>4, Adding
  <2> HIDE DEF r
  <2>6. Plainly(r.e) /\ r.e.kind = "expr" /\ ~IsItem(r.e)
    BY <2>4, <2>5 DEF IsItem
  <2>7. \A held : Waits(Code(<<>>), held) => Waits(r, held)
    BY <1>3, <2>3, <2>4, <2>5
  <2> QED BY <1>1, <1>2, <2>1, <2>2, <2>5, <2>6, <2>7, OneResult
<1> QED BY <1>4, <1>5, <1>6

LEMMA PostfixStep ==
  ASSUME Shapes, program' = program, NEW op, postfix_step(op)
  PROVE  Keeps
<1> DEFINE lv == Item(1)
           c == Code(lv)
<1>1. /\ ~IR_GEN_FAILED /\ Len(stack) >= 1 /\ lv.kind \in {"lvalue"}
  BY KindOne DEF postfix_step, Reading
<1>2. ItemOK(lv) /\ Plainly(lv) /\ Jumps(lv) = {}
  BY <1>1, Topmost, ItemPlainly
<1>3. CodeOK(c) /\ c.e = lv /\ \A held : Waits(Code(<<>>), held) => Waits(c, held)
  BY StartCode DEF Shapes
<1>4. CASE Error(1)
  BY <1>1, <1>4, ErrorStep
<1>5. CASE ~Error(1) /\ IsItem(lv)
  <2> DEFINE was == [s \in Starts |-> Element(lv, s)]
             g == NewTemp(c, "var_e", was)
             f == [g EXCEPT !.e = lv]
             h == emit_if_table_item(f)
             v == Operand(h.e)
             i == Emit(h, Quad("assign", v, None, Operand(g.e), 0))
             j == Emit(i, Quad(op, v, Const(1), v, 0))
             k == Emit(j, Quad("tablesetelem", Cell(lv.sym), Operand(lv.index[1]), v, 0))
             r == [k EXCEPT !.e = g.e]
             new == [s \in Starts |-> Plus(op, was[s])]
  <2>1. /\ Reduced(1, r) /\ live' = live
        /\ worlds' = [s \in Starts |-> IF live[s] THEN StoreItem(lv, s, Plus(op, was[s]))
                                      ELSE worlds[s]]
    BY <1>5 DEF postfix_step, Effect
  <2> HIDE DEF was
  <2>2. ExecutionOK'
    <3>1. /\ live' = live
          /\ worlds' = [s \in Starts |-> IF live[s] THEN StoreItem(lv, s, new[s]) ELSE worlds[s]]
      BY <2>1
    <3> HIDE DEF new
    <3> QED BY <3>1, StoredItem
  <2> HIDE DEF c
  <2>3. /\ CodeOK(g) /\ Plainly(g.e) /\ g.e.kind = "expr" /\ g.e.type = "var_e"
        /\ \A held : Waits(c, held) => Waits(g, held)
    BY <1>3, Fresh DEF Shapes
  <2> HIDE DEF g
  <2>4. CodeOK(f) /\ f.e = lv /\ \A held : Waits(g, held) => Waits(f, held)
    BY <2>3, WorkOn
  <2> HIDE DEF f
  <2>5. CodeOK(h) /\ \A held : Waits(f, held) => Waits(h, held)
    BY <1>2, <2>4, Fetch DEF Shapes
  <2> HIDE DEF h
  <2>6. CodeOK(i) /\ \A held : Waits(h, held) => Waits(i, held)
    BY <2>5, Adding
  <2> HIDE DEF i
  <2>7. CodeOK(j) /\ \A held : Waits(i, held) => Waits(j, held)
    BY <2>6, Adding
  <2> HIDE DEF j
  <2>8. CodeOK(k) /\ \A held : Waits(j, held) => Waits(k, held)
    BY <2>7, Adding
  <2> HIDE DEF k
  <2>9. CodeOK(r) /\ r.e = g.e /\ \A held : Waits(k, held) => Waits(r, held)
    BY <2>8, WorkOn
  <2> HIDE DEF r
  <2>10. \A held : Waits(Code(<<>>), held) => Waits(r, held)
    BY <1>3, <2>3, <2>4, <2>5, <2>6, <2>7, <2>8, <2>9
  <2>11. Plainly(r.e) /\ r.e.kind = "expr" /\ ~IsItem(r.e)
    BY <2>3, <2>9 DEF IsItem
  <2> QED BY <1>1, <1>2, <2>1, <2>2, <2>9, <2>10, <2>11, OneResult
<1>6. CASE ~Error(1) /\ ~IsItem(lv)
  <2> DEFINE was == [s \in Starts |-> Read(lv, s)]
             g == NewTemp(c, "var_e", was)
             i == Emit(g, Quad("assign", Operand(lv), None, Operand(g.e), 0))
             r == Emit(i, Quad(op, Operand(lv), Const(1), Operand(lv), 0))
             new == [s \in Starts |-> Plus(op, was[s])]
  <2>1. /\ Reduced(1, r) /\ live' = live
        /\ worlds' = [s \in Starts |-> IF live[s] THEN StoreVar(lv, s, Plus(op, was[s]))
                                      ELSE worlds[s]]
    BY <1>6 DEF postfix_step, Effect
  <2> HIDE DEF was
  <2>2. ExecutionOK'
    <3>1. /\ live' = live
          /\ worlds' = [s \in Starts |-> IF live[s] THEN StoreVar(lv, s, new[s]) ELSE worlds[s]]
      BY <2>1
    <3> HIDE DEF new
    <3> QED BY <3>1, StoredVar
  <2> HIDE DEF c
  <2>3. /\ CodeOK(g) /\ Plainly(g.e) /\ g.e.kind = "expr" /\ g.e.type = "var_e"
        /\ \A held : Waits(c, held) => Waits(g, held)
    BY <1>3, Fresh DEF Shapes
  <2> HIDE DEF g
  <2>4. CodeOK(i) /\ i.e = g.e /\ \A held : Waits(g, held) => Waits(i, held)
    BY <2>3, Adding
  <2> HIDE DEF i
  <2>5. CodeOK(r) /\ r.e = i.e /\ \A held : Waits(i, held) => Waits(r, held)
    BY <2>4, Adding
  <2> HIDE DEF r
  <2>6. Plainly(r.e) /\ r.e.kind = "expr" /\ ~IsItem(r.e)
    BY <2>3, <2>4, <2>5 DEF IsItem
  <2>7. \A held : Waits(Code(<<>>), held) => Waits(r, held)
    BY <1>3, <2>3, <2>4, <2>5
  <2> QED BY <1>1, <1>2, <2>1, <2>2, <2>5, <2>6, <2>7, OneResult
<1> QED BY <1>4, <1>5, <1>6
-----------------------------------------------------------------------------
(* Comparisons and logic *)

\* A reduction to an item of any kind
LEMMA Result ==
  ASSUME Shapes, program' = program, ~IR_GEN_FAILED, NEW n \in Nat, Len(stack) >= n,
         NEW g, CodeOK(g), ItemOK(g.e), Reduced(n, g), ExecutionOK',
         Holding => /\ Once(Owes(g.e)) /\ Jumps(g.e) \intersect Below(n) = {}
                    /\ Waits(g, Below(n) \union Jumps(g.e))
  PROVE  Keeps
<1>1. Comes(n, g)
  BY ReducedComes
<1>2. Shapes'
  BY <1>1, ReducedShapes
<1>3. Holding => Holding'
  BY <1>1, ReducedHolding
<1> QED BY <1>2, <1>3 DEF Keeps

\* An operand with one jump in each list, which follow each other
LEMMA TwoJumps ==
  ASSUME NEW n \in Nat, NEW e, IsExpr(e), e.kind = "expr", e.type # "table_item_e",
         Len(e.index) <= 1, e.t_list = <<n>>, e.f_list = <<n + 1>>
  PROVE  ItemOK(e) /\ Jumps(e) = {n, n + 1} /\ Once(Owes(e))
<1>1. e.t_list # <<>> /\ e.f_list # <<>>
  BY OneOf
<1>2. ItemOK(e)
  BY <1>1 DEF ItemOK, IsItem
<1>3. ListOf(e.t_list) = {n} /\ ListOf(e.f_list) = {n + 1}
      /\ Once(e.t_list) /\ Once(e.f_list)
  BY ListOfOne
<1>4. {n} \intersect {n + 1} = {}
  OBVIOUS
<1> QED BY <1>2, <1>3, <1>4, ExprJumps

LEMMA CompareStep ==
  ASSUME Shapes, program' = program, ~IR_GEN_FAILED, Len(stack) >= 2,
         Item(1).kind = "expr", Item(2).kind = "expr", NEW op, CompareTail(op)
  PROVE  Keeps
<1> DEFINE c == Code(Item(2))
           left == backpatch_tf_lists(c)
           d == [left EXCEPT !.e = Item(1)]
           right == backpatch_tf_lists(d)
           n == Len(right.quads)
           test == Emit(right, Hole(Quad(op, Operand(left.e), Operand(right.e), None, 0)))
           jump == JumpHole(test)
           val == [s \in Starts |-> Boolean(Holds(op, Read(Item(2), s), Read(Item(1), s)))]
           b == create_expr("bool_expr_e")
           e == [b EXCEPT !.t_list = <<n>>, !.f_list = <<n + 1>>, !.val = val]
           r == [jump EXCEPT !.e = e]
<1>1. Reduced(2, r) /\ UNCHANGED execution
  BY DEF CompareTail, NoEffect, next_quad
<1>2. ItemOK(Item(1)) /\ ItemOK(Item(2))
  BY TopmostTwo
<1>3. CodeOK(c) /\ c.e = Item(2) /\ \A held : Waits(Code(<<>>), held) => Waits(c, held)
  BY StartCode DEF Shapes
<1>4. /\ IsExpr(b) /\ b.kind = "expr" /\ b.type = "bool_expr_e" /\ Len(b.index) <= 1
  BY Created, CreatedPlainly DEF Shapes, Plainly
<1> HIDE DEF c, val, b
<1>5. /\ CodeOK(left)
      /\ \A held : Waits(c, held) /\ Jumps(Item(2)) \subseteq held /\ Once(Owes(Item(2)))
           => Waits(left, held \ Jumps(Item(2)))
  BY <1>2, <1>3, Settle DEF Shapes
<1> HIDE DEF left
<1>6. CodeOK(d) /\ d.e = Item(1) /\ \A held : Waits(left, held) => Waits(d, held)
  BY <1>5, WorkOn
<1> HIDE DEF d
<1>7. /\ CodeOK(right)
      /\ \A held : Waits(d, held) /\ Jumps(Item(1)) \subseteq held /\ Once(Owes(Item(1)))
           => Waits(right, held \ Jumps(Item(1)))
  BY <1>2, <1>6, Settle DEF Shapes
<1> HIDE DEF right
<1>8. n \in Nat
  BY <1>7 DEF CodeOK, IsSeq
<1>9. /\ CodeOK(test) /\ Len(test.quads) = n + 1
      /\ \A held : Waits(right, held) => Waits(test, held \union {n})
  BY <1>7, Open
<1> HIDE DEF test
<1>10. CodeOK(jump) /\ \A held : Waits(test, held) => Waits(jump, held \union {n + 1})
  BY <1>9, Open DEF JumpHole
<1> HIDE DEF jump
<1>11. /\ IsExpr(e) /\ e.kind = "expr" /\ e.type = "bool_expr_e"
       /\ Len(e.index) <= 1 /\ e.t_list = <<n>> /\ e.f_list = <<n + 1>>
  <2> HIDE DEF n
  <2>1. IsSeq(<<n>>) /\ IsSeq(<<n + 1>>)
    BY OneOf
  <2> QED BY <1>4, <2>1 DEF IsExpr
<1> HIDE DEF e
<1>12. ItemOK(e) /\ Jumps(e) = {n, n + 1} /\ Once(Owes(e))
  BY <1>8, <1>11, TwoJumps
<1>13. CodeOK(r) /\ r.e = e /\ \A held : Waits(jump, held) => Waits(r, held)
  BY <1>10, WorkOn
<1> HIDE DEF r
<1>14. ASSUME Holding
       PROVE  Jumps(e) \intersect Below(2) = {} /\ Waits(r, Below(2) \union Jumps(e))
  <2>1. /\ Below(0) = (Below(2) \union Jumps(Item(2))) \union Jumps(Item(1))
        /\ Below(2) \intersect Jumps(Item(1)) = {}
        /\ Below(2) \intersect Jumps(Item(2)) = {}
        /\ Jumps(Item(1)) \intersect Jumps(Item(2)) = {}
        /\ Once(Owes(Item(1))) /\ Once(Owes(Item(2))) /\ Waits(Code(<<>>), Below(0))
    BY <1>14, SplitTwo
  <2>2. Waits(left, Below(0) \ Jumps(Item(2)))
    BY <1>3, <1>5, <2>1
  <2>3. Below(0) \ Jumps(Item(2)) = Below(2) \union Jumps(Item(1))
    BY <2>1
  <2>4. Waits(right, (Below(2) \union Jumps(Item(1))) \ Jumps(Item(1)))
    BY <1>6, <1>7, <2>1, <2>2, <2>3
  <2>5. (Below(2) \union Jumps(Item(1))) \ Jumps(Item(1)) = Below(2)
    BY <2>1
  <2>6. Waits(right, Below(2))
    BY <2>4, <2>5
  <2>7. n \notin Below(2) /\ n + 1 \notin Below(2)
    BY <1>7, <1>8, <2>6, HeldWithin DEF n
  <2>8. Waits(r, (Below(2) \union {n}) \union {n + 1})
    BY <1>9, <1>10, <1>13, <2>6
  <2>9. (Below(2) \union {n}) \union {n + 1} = Below(2) \union Jumps(e)
    BY <1>12
  <2> QED BY <1>12, <2>7, <2>8, <2>9
<1>15. ExecutionOK'
  BY <1>1, NothingDone
<1> QED BY <1>1, <1>12, <1>13, <1>14, <1>15, Result

LEMMA ComparisonStep ==
  ASSUME Shapes, program' = program, NEW op, comparison(op)
  PROVE  Keeps
<1>1. /\ ~IR_GEN_FAILED /\ Len(stack) >= 2
      /\ Item(1).kind \in {"expr"} /\ Item(2).kind \in {"expr"}
  BY KindTwo DEF comparison, Reading
<1>2. Error(2) \/ CompareTail(op)
  BY DEF comparison
<1> QED BY <1>1, <1>2, ErrorStep, CompareStep

LEMMA EqualityStep ==
  ASSUME Shapes, program' = program, NEW op, equality(op)
  PROVE  Keeps
<1>1. /\ ~IR_GEN_FAILED /\ Len(stack) >= 2
      /\ Item(1).kind \in {"expr"} /\ Item(2).kind \in {"expr"}
  BY KindTwo DEF equality, Reading
<1>2. Error(2) \/ CompareTail(op)
  BY DEF equality
<1> QED BY <1>1, <1>2, ErrorStep, CompareStep

LEMMA NotStep ==
  ASSUME Shapes, program' = program, not_expression
  PROVE  Keeps
<1> DEFINE c == Code(Item(1))
           g == WithLists(c)
           type == IF Transformable(g.e) THEN "const_bool_e" ELSE "bool_expr_e"
           const == IF IsConst(g.e) THEN Boolean(~Truth(g.e.const)) ELSE False
           val == [s \in Starts |-> Boolean(~Truth(g.e.val[s]))]
           b == create_expr(type)
           e == [b EXCEPT !.const = const, !.f_list = g.e.t_list,
                          !.t_list = g.e.f_list, !.val = val]
           r == [g EXCEPT !.e = e]
<1>1. /\ ~IR_GEN_FAILED /\ Len(stack) >= 1 /\ Item(1).kind \in {"expr"}
      /\ Reduced(1, r) /\ UNCHANGED execution
  BY KindOne DEF not_expression, Reading, NoEffect
<1>2. ItemOK(Item(1))
  BY <1>1, Topmost
<1>3. CodeOK(c) /\ c.e = Item(1) /\ \A held : Waits(Code(<<>>), held) => Waits(c, held)
  BY StartCode DEF Shapes
<1>4. /\ IsExpr(b) /\ b.kind = "expr" /\ b.type # "table_item_e" /\ Len(b.index) <= 1
  <2>1. type # "table_item_e"
    OBVIOUS
  <2> HIDE DEF type
  <2>2. ExecutionOK
    BY DEF Shapes
  <2>3. Plainly(b)
    BY <2>2, CreatedPlainly
  <2>4. b.kind = "expr" /\ b.type = type
    BY <2>2, Created
  <2> HIDE DEF b
  <2> QED BY <2>1, <2>3, <2>4 DEF Plainly
<1> HIDE DEF c, type, const, val, b
<1>5. /\ CodeOK(g) /\ ItemOK(g.e) /\ g.e.kind = "expr"
      /\ g.e.t_list # <<>> /\ g.e.f_list # <<>>
      /\ \A held : Waits(c, held) /\ Jumps(Item(1)) \subseteq held /\ Once(Owes(Item(1)))
           => /\ Waits(g, held \union Jumps(g.e)) /\ Once(Owes(g.e))
              /\ Jumps(g.e) \intersect held = Jumps(Item(1))
  BY <1>1, <1>2, <1>3, Listed
<1> HIDE DEF g
<1>6. /\ IsExpr(e) /\ e.kind = "expr" /\ e.type # "table_item_e" /\ Len(e.index) <= 1
      /\ e.t_list = g.e.f_list /\ e.f_list = g.e.t_list
  <2>1. IsSeq(g.e.t_list) /\ IsSeq(g.e.f_list)
    BY <1>5 DEF ItemOK, IsExpr
  <2> QED BY <1>4, <2>1 DEF IsExpr
<1> HIDE DEF e
<1>7. ItemOK(e)
  BY <1>5, <1>6 DEF ItemOK, IsItem
<1>8. Jumps(e) = Jumps(g.e) /\ (Once(Owes(e)) <=> Once(Owes(g.e)))
  <2>1. /\ Jumps(e) = ListOf(e.t_list) \union ListOf(e.f_list)
        /\ Once(Owes(e)) <=> /\ Once(e.t_list) /\ Once(e.f_list)
                             /\ ListOf(e.t_list) \intersect ListOf(e.f_list) = {}
    BY <1>6, ExprJumps
  <2>2. /\ Jumps(g.e) = ListOf(g.e.t_list) \union ListOf(g.e.f_list)
        /\ Once(Owes(g.e)) <=> /\ Once(g.e.t_list) /\ Once(g.e.f_list)
                               /\ ListOf(g.e.t_list) \intersect ListOf(g.e.f_list) = {}
    BY <1>5, ExprJumps DEF ItemOK
  <2> QED BY <1>6, <2>1, <2>2
<1>9. CodeOK(r) /\ r.e = e /\ \A held : Waits(g, held) => Waits(r, held)
  BY <1>5, WorkOn
<1> HIDE DEF r
<1>10. ASSUME Holding
       PROVE  /\ Once(Owes(e)) /\ Jumps(e) \intersect Below(1) = {}
              /\ Waits(r, Below(1) \union Jumps(e))
  <2>1. /\ Below(0) = Below(1) \union Jumps(Item(1))
        /\ Below(1) \intersect Jumps(Item(1)) = {}
        /\ Once(Owes(Item(1))) /\ Waits(Code(<<>>), Below(0))
    BY <1>1, <1>10, SplitOne
  <2>2. /\ Waits(g, Below(0) \union Jumps(g.e)) /\ Once(Owes(g.e))
        /\ Jumps(g.e) \intersect Below(0) = Jumps(Item(1))
    BY <1>3, <1>5, <2>1
  <2>3. Below(0) \union Jumps(g.e) = Below(1) \union Jumps(e)
    BY <1>8, <2>1, <2>2
  <2>4. Jumps(e) \intersect Below(1) = {}
    BY <1>8, <2>1, <2>2
  <2>5. Waits(r, Below(0) \union Jumps(g.e))
    BY <1>9, <2>2
  <2> QED BY <1>8, <2>2, <2>3, <2>4, <2>5
<1>11. ExecutionOK'
  BY <1>1, NothingDone
<1> QED BY <1>1, <1>7, <1>9, <1>10, <1>11, Result

\* The mid-rule action of and: the left operand's true jumps get a label.
LEMMA AndPrefixStep ==
  ASSUME Shapes, program' = program, and_prefix
  PROVE  Keeps
<1> DEFINE e == Item(1)
           c == Code(e)
           val == [s \in Starts |-> Boolean(Truth(Read(e, s)))]
           truth == [e EXCEPT !.val = val, !.mask = live]
           g == patch_list(c, e.t_list, Len(quads))
           t == TestTrue(g, Len(g.quads) + 2)
           h == JumpHole(t)
           n == Len(g.quads)
           waits == [truth EXCEPT !.f_list = <<n + 1>>]
           x == IF Pending(e) THEN truth ELSE waits
           d == As("and", x)
           r == IF Pending(e) THEN [g EXCEPT !.e = d] ELSE [h EXCEPT !.e = d]
<1>1. /\ ~IR_GEN_FAILED /\ Len(stack) >= 1 /\ e.kind \in {"expr"}
      /\ Reduced(1, r) /\ Branch(e, TRUE)
  BY KindOne DEF and_prefix, Reading, next_quad
<1>2. ItemOK(e) /\ IsSeq(e.t_list) /\ IsSeq(e.f_list) /\ IsExpr(e)
  BY <1>1, Topmost DEF ItemOK, IsExpr
<1>3. /\ CodeOK(c) /\ c.e = e /\ c.quads = quads
      /\ \A held : Waits(Code(<<>>), held) => Waits(c, held)
  BY StartCode DEF Shapes
<1> HIDE DEF c, val
<1>4. /\ CodeOK(g) /\ n = Len(quads)
      /\ \A held : Waits(c, held) /\ ListOf(e.t_list) \subseteq held
           => Waits(g, held \ ListOf(e.t_list))
  <2>1. Len(quads) \in 0..(Len(c.quads) + 2)
    BY <1>3 DEF CodeOK, IsSeq
  <2> QED BY <1>2, <1>3, <2>1, Patched
<1>5. n \in Nat
  BY <1>4 DEF CodeOK, IsSeq
<1> HIDE DEF g
<1>6. CodeOK(t) /\ Len(t.quads) = n + 1 /\ \A held : Waits(g, held) => Waits(t, held)
  <2>1. Len(g.quads) + 2 \in 0..(Len(g.quads) + 3)
    BY <1>5
  <2> QED BY <1>4, <2>1, Plain DEF TestTrue
<1> HIDE DEF t
<1>7. CodeOK(h) /\ \A held : Waits(t, held) => Waits(h, held \union {n + 1})
  BY <1>6, Open DEF JumpHole
<1> HIDE DEF h
<1>8. /\ IsExpr(truth) /\ truth.t_list = e.t_list /\ truth.f_list = e.f_list
      /\ truth.type = e.type /\ truth.index = e.index
  <2>1. \A s \in Starts : live[s] \in BOOLEAN
    BY DEF Shapes, ExecutionOK
  <2> HIDE DEF e
  <2> QED BY <1>2, <2>1 DEF IsExpr
<1> HIDE DEF truth
<1>9. /\ IsExpr(waits) /\ waits.t_list = e.t_list /\ waits.f_list = <<n + 1>>
      /\ waits.type = e.type /\ waits.index = e.index
  <2> HIDE DEF n, e
  <2>1. IsSeq(<<n + 1>>)
    BY OneOf
  <2> QED BY <1>8, <2>1 DEF IsExpr
<1> HIDE DEF waits
<1>10. /\ IsExpr(x) /\ x.type = e.type /\ x.index = e.index /\ x.f_list # <<>>
       /\ x.f_list = IF Pending(e) THEN e.f_list ELSE <<n + 1>>
  BY <1>8, <1>9, OneOf DEF Pending
<1> HIDE DEF x
<1>11. /\ IsExpr(d) /\ d.kind = "and" /\ d.type = e.type /\ d.index = e.index
       /\ d.f_list = x.f_list
  BY <1>10, AsIs
<1> HIDE DEF d
<1>12. ItemOK(d)
  BY <1>1, <1>2, <1>10, <1>11 DEF ItemOK, IsItem
<1>13. Jumps(d) = ListOf(x.f_list) /\ (Once(Owes(d)) <=> Once(x.f_list))
  BY <1>11 DEF Owes, Jumps
<1>14. /\ CodeOK(r) /\ r.e = d
       /\ \A held : Waits(IF Pending(e) THEN g ELSE h, held) => Waits(r, held)
  BY <1>4, <1>7, WorkOn
<1> HIDE DEF r
<1>15. ASSUME Holding
       PROVE  /\ Once(Owes(d)) /\ Jumps(d) \intersect Below(1) = {}
              /\ Waits(r, Below(1) \union Jumps(d))
  <2>1. /\ Below(0) = Below(1) \union Jumps(e)
        /\ Below(1) \intersect Jumps(e) = {}
        /\ Once(Owes(e)) /\ Waits(Code(<<>>), Below(0))
    BY <1>1, <1>15, SplitOne
  <2>2. /\ Jumps(e) = ListOf(e.t_list) \union ListOf(e.f_list)
        /\ Once(e.f_list) /\ ListOf(e.t_list) \intersect ListOf(e.f_list) = {}
    BY <1>1, <1>2, <2>1, ExprJumps
  <2>3. Waits(g, Below(0) \ ListOf(e.t_list))
    BY <1>3, <1>4, <2>1, <2>2
  <2>4. Below(0) \ ListOf(e.t_list) = Below(1) \union ListOf(e.f_list)
    BY <2>1, <2>2
  <2>5. CASE Pending(e)
    BY <1>10, <1>13, <1>14, <2>1, <2>2, <2>3, <2>4, <2>5
  <2>6. CASE ~Pending(e)
    <3>1. ListOf(e.f_list) = {}
      BY <2>6, ListOfNone DEF Pending
    <3>2. Waits(g, Below(1))
      BY <2>3, <2>4, <3>1
    <3>3. n + 1 \notin Below(1)
      BY <1>4, <1>5, <3>2, HeldWithin DEF n
    <3>4. Jumps(d) = {n + 1} /\ Once(Owes(d))
      BY <1>10, <1>13, <2>6, ListOfOne
    <3>5. Waits(r, Below(1) \union {n + 1})
      BY <1>6, <1>7, <1>14, <2>6, <3>2
    <3> QED BY <3>3, <3>4, <3>5
  <2> QED BY <2>5, <2>6
<1>16. ExecutionOK'
  <2>1. /\ worlds' = worlds
        /\ live' = [s \in Starts |-> live[s] /\ (Truth(Read(e, s)) <=> TRUE)]
    BY <1>1 DEF Branch
  <2>2. \A s \in Starts : live'[s] \in BOOLEAN
    BY <2>1
  <2> QED BY <2>1, <2>2, Branched
<1> QED BY <1>1, <1>12, <1>14, <1>15, <1>16, Result

\* The mid-rule action of or: the left operand's false jumps get a label.
LEMMA OrPrefixStep ==
  ASSUME Shapes, program' = program, or_prefix
  PROVE  Keeps
<1> DEFINE e == Item(1)
           c == Code(e)
           val == [s \in Starts |-> Boolean(Truth(Read(e, s)))]
           truth == [e EXCEPT !.val = val, !.mask = live]
           g == patch_list(c, e.f_list, Len(quads))
           h == TestHole(g)
           j == Jump(h, Len(h.quads) + 1)
           n == Len(g.quads)
           waits == [truth EXCEPT !.t_list = <<n>>]
           pending == e.t_list # <<>>
           x == IF pending THEN truth ELSE waits
           d == As("or", x)
           r == IF pending THEN [g EXCEPT !.e = d] ELSE [j EXCEPT !.e = d]
<1>1. /\ ~IR_GEN_FAILED /\ Len(stack) >= 1 /\ e.kind \in {"expr"}
      /\ Reduced(1, r) /\ Branch(e, FALSE)
  BY KindOne DEF or_prefix, Reading, next_quad
<1>2. ItemOK(e) /\ IsSeq(e.t_list) /\ IsSeq(e.f_list) /\ IsExpr(e)
  BY <1>1, Topmost DEF ItemOK, IsExpr
<1>3. /\ CodeOK(c) /\ c.e = e /\ c.quads = quads
      /\ \A held : Waits(Code(<<>>), held) => Waits(c, held)
  BY StartCode DEF Shapes
<1> HIDE DEF c, val
<1>4. /\ CodeOK(g) /\ n = Len(quads)
      /\ \A held : Waits(c, held) /\ ListOf(e.f_list) \subseteq held
           => Waits(g, held \ ListOf(e.f_list))
  <2>1. Len(quads) \in 0..(Len(c.quads) + 2)
    BY <1>3 DEF CodeOK, IsSeq
  <2> QED BY <1>2, <1>3, <2>1, Patched
<1>5. n \in Nat
  BY <1>4 DEF CodeOK, IsSeq
<1> HIDE DEF g
<1>6. CodeOK(h) /\ \A held : Waits(g, held) => Waits(h, held \union {n})
  BY <1>4, Open DEF TestHole
<1> HIDE DEF h
<1>7. CodeOK(j) /\ \A held : Waits(h, held) => Waits(j, held)
  <2>1. Len(h.quads) + 1 \in 0..(Len(h.quads) + 3)
    BY <1>6 DEF CodeOK, IsSeq
  <2> QED BY <1>6, <2>1, JumpIs
<1> HIDE DEF j
<1>8. /\ IsExpr(truth) /\ truth.t_list = e.t_list /\ truth.f_list = e.f_list
      /\ truth.type = e.type /\ truth.index = e.index
  <2>1. \A s \in Starts : live[s] \in BOOLEAN
    BY DEF Shapes, ExecutionOK
  <2> HIDE DEF e
  <2> QED BY <1>2, <2>1 DEF IsExpr
<1> HIDE DEF truth
<1>9. /\ IsExpr(waits) /\ waits.t_list = <<n>>
      /\ waits.type = e.type /\ waits.index = e.index
  <2> HIDE DEF n, e
  <2>1. IsSeq(<<n>>)
    BY OneOf
  <2> QED BY <1>8, <2>1 DEF IsExpr
<1> HIDE DEF waits
<1>10. /\ IsExpr(x) /\ x.type = e.type /\ x.index = e.index /\ x.t_list # <<>>
       /\ x.t_list = IF pending THEN e.t_list ELSE <<n>>
  BY <1>8, <1>9, OneOf
<1> HIDE DEF x
<1>11. /\ IsExpr(d) /\ d.kind = "or" /\ d.type = e.type /\ d.index = e.index
       /\ d.t_list = x.t_list
  BY <1>10, AsIs
<1> HIDE DEF d
<1>12. ItemOK(d)
  BY <1>1, <1>2, <1>10, <1>11 DEF ItemOK, IsItem
<1>13. Jumps(d) = ListOf(x.t_list) /\ (Once(Owes(d)) <=> Once(x.t_list))
  BY <1>11 DEF Owes, Jumps
<1>14. /\ CodeOK(r) /\ r.e = d
       /\ \A held : Waits(IF pending THEN g ELSE j, held) => Waits(r, held)
  BY <1>4, <1>7, WorkOn
<1> HIDE DEF r
<1>15. ASSUME Holding
       PROVE  /\ Once(Owes(d)) /\ Jumps(d) \intersect Below(1) = {}
              /\ Waits(r, Below(1) \union Jumps(d))
  <2>1. /\ Below(0) = Below(1) \union Jumps(e)
        /\ Below(1) \intersect Jumps(e) = {}
        /\ Once(Owes(e)) /\ Waits(Code(<<>>), Below(0))
    BY <1>1, <1>15, SplitOne
  <2>2. /\ Jumps(e) = ListOf(e.t_list) \union ListOf(e.f_list)
        /\ Once(e.t_list) /\ ListOf(e.t_list) \intersect ListOf(e.f_list) = {}
    BY <1>1, <1>2, <2>1, ExprJumps
  <2>3. Waits(g, Below(0) \ ListOf(e.f_list))
    BY <1>3, <1>4, <2>1, <2>2
  <2>4. Below(0) \ ListOf(e.f_list) = Below(1) \union ListOf(e.t_list)
    BY <2>1, <2>2
  <2>5. CASE pending
    BY <1>10, <1>13, <1>14, <2>1, <2>2, <2>3, <2>4, <2>5
  <2>6. CASE ~pending
    <3>1. ListOf(e.t_list) = {}
      BY <2>6, ListOfNone
    <3>2. Waits(g, Below(1))
      BY <2>3, <2>4, <3>1
    <3>3. n \notin Below(1)
      BY <1>4, <1>5, <3>2, HeldWithin DEF n
    <3>4. Jumps(d) = {n} /\ Once(Owes(d))
      BY <1>10, <1>13, <2>6, ListOfOne
    <3>5. Waits(r, Below(1) \union {n})
      BY <1>6, <1>7, <1>14, <2>6, <3>2
    <3> QED BY <3>3, <3>4, <3>5
  <2> QED BY <2>5, <2>6
<1>16. ExecutionOK'
  <2>1. /\ worlds' = worlds
        /\ live' = [s \in Starts |-> live[s] /\ (Truth(Read(e, s)) <=> FALSE)]
    BY <1>1 DEF Branch
  <2>2. \A s \in Starts : live'[s] \in BOOLEAN
    BY <2>1
  <2> QED BY <2>1, <2>2, Branched
<1> QED BY <1>1, <1>12, <1>14, <1>15, <1>16, Result

\* The code of g, with another expression worked on
With(g, e) == [g EXCEPT !.e = e]

\* The lists of an and or or, from those of its operands
Combined(left, right, t_list, f_list) ==
  \/ left.kind = "and" /\ t_list = right.t_list /\ f_list = left.f_list \o right.f_list
  \/ left.kind = "or" /\ t_list = left.t_list \o right.t_list /\ f_list = right.f_list

LEMMA CombinedLists ==
  ASSUME NEW left, NEW right, NEW t_list, NEW f_list,
         Combined(left, right, t_list, f_list), IsSeq(left.t_list), IsSeq(left.f_list),
         IsSeq(right.t_list), IsSeq(right.f_list), right.t_list # <<>>, right.f_list # <<>>
  PROVE  /\ IsSeq(t_list) /\ IsSeq(f_list) /\ t_list # <<>> /\ f_list # <<>>
         /\ ListOf(t_list) \union ListOf(f_list)
              = Jumps(left) \union (ListOf(right.t_list) \union ListOf(right.f_list))
         /\ Once(Owes(left)) /\ Once(right.t_list) /\ Once(right.f_list)
            /\ ListOf(right.t_list) \intersect ListOf(right.f_list) = {}
            /\ Jumps(left) \intersect (ListOf(right.t_list) \union ListOf(right.f_list)) = {}
            => Once(t_list) /\ Once(f_list) /\ ListOf(t_list) \intersect ListOf(f_list) = {}
<1>1. ASSUME NEW s, IsSeq(s), NEW t, IsSeq(t), t # <<>>
      PROVE  IsSeq(s \o t) /\ s \o t # <<>>
  <2>1. IsSeq(s \o t) /\ Len(s \o t) = Len(s) + Len(t)
    BY <1>1, Joined
  <2>2. Len(t) # 0 /\ Len(t) \in Nat /\ Len(s) \in Nat
    BY <1>1, EmptyIs DEF IsSeq
  <2>3. Len(s \o t) # 0
    BY <2>1, <2>2
  <2> QED BY <2>1, <2>3, EmptyIs
<1>2. CASE left.kind = "and" /\ t_list = right.t_list /\ f_list = left.f_list \o right.f_list
  <2>1. Owes(left) = left.f_list /\ Jumps(left) = ListOf(left.f_list)
    BY <1>2 DEF Owes, Jumps
  <2>2. IsSeq(f_list) /\ f_list # <<>>
    BY <1>1, <1>2
  <2>3. /\ ListOf(f_list) = ListOf(left.f_list) \union ListOf(right.f_list)
        /\ Once(left.f_list) /\ Once(right.f_list)
           /\ ListOf(left.f_list) \intersect ListOf(right.f_list) = {} => Once(f_list)
    BY <1>2, ListOfJoined
  <2>4. t_list = right.t_list
    BY <1>2
  <2> QED BY <2>1, <2>2, <2>3, <2>4
<1>3. CASE left.kind = "or" /\ t_list = left.t_list \o right.t_list /\ f_list = right.f_list
  <2>1. Owes(left) = left.t_list /\ Jumps(left) = ListOf(left.t_list)
    BY <1>3 DEF Owes, Jumps
  <2>2. IsSeq(t_list) /\ t_list # <<>>
    BY <1>1, <1>3
  <2>3. /\ ListOf(t_list) = ListOf(left.t_list) \union ListOf(right.t_list)
        /\ Once(left.t_list) /\ Once(right.t_list)
           /\ ListOf(left.t_list) \intersect ListOf(right.t_list) = {} => Once(t_list)
    BY <1>3, ListOfJoined
  <2>4. f_list = right.f_list
    BY <1>3
  <2> QED BY <2>1, <2>2, <2>3, <2>4
<1> QED BY <1>2, <1>3 DEF Combined

\* The left operand's jumps join those of the right one.
LEMMA JoinStep ==
  ASSUME Shapes, program' = program, ~IR_GEN_FAILED, Len(stack) >= 2,
         Item(2).kind \in {"and", "or"}, Item(1).kind = "expr",
         NEW g, g = WithLists(Code(Item(1))), NEW t_list, NEW f_list,
         Combined(Item(2), g.e, t_list, f_list),
         NEW e, IsExpr(Item(2)) /\ IsSeq(t_list) /\ IsSeq(f_list) =>
                  /\ IsExpr(e) /\ e.kind = "expr" /\ e.t_list = t_list /\ e.f_list = f_list
                  /\ e.type = Item(2).type /\ e.index = Item(2).index,
         Reduced(2, With(g, e)), Rejoin(Item(2).mask)
  PROVE  Keeps
<1> DEFINE left == Item(2)
           c == Code(Item(1))
           r == With(g, e)
           T == ListOf(g.e.t_list)
           F == ListOf(g.e.f_list)
<1>1. /\ Reduced(2, r) /\ Rejoin(left.mask) /\ g = WithLists(c)
  OBVIOUS
<1>2. ItemOK(Item(1)) /\ ItemOK(left)
  BY TopmostTwo
<1>3. CodeOK(c) /\ c.e = Item(1) /\ \A held : Waits(Code(<<>>), held) => Waits(c, held)
  BY StartCode DEF Shapes
<1> HIDE DEF c
<1>4. /\ CodeOK(g) /\ ItemOK(g.e) /\ g.e.kind = "expr"
      /\ g.e.t_list # <<>> /\ g.e.f_list # <<>>
      /\ \A held : Waits(c, held) /\ Jumps(Item(1)) \subseteq held /\ Once(Owes(Item(1)))
           => /\ Waits(g, held \union Jumps(g.e)) /\ Once(Owes(g.e))
              /\ Jumps(g.e) \intersect held = Jumps(Item(1))
  <2> DEFINE w == WithLists(c)
  <2>1. /\ CodeOK(w) /\ ItemOK(w.e) /\ w.e.kind = "expr"
        /\ w.e.t_list # <<>> /\ w.e.f_list # <<>>
        /\ \A held : Waits(c, held) /\ Jumps(Item(1)) \subseteq held /\ Once(Owes(Item(1)))
             => /\ Waits(w, held \union Jumps(w.e)) /\ Once(Owes(w.e))
                /\ Jumps(w.e) \intersect held = Jumps(Item(1))
    <3>1. ItemOK(c.e) /\ c.e.kind = "expr"
      BY <1>2, <1>3
    <3>2. /\ CodeOK(w) /\ ItemOK(w.e) /\ w.e.kind = "expr"
          /\ w.e.t_list # <<>> /\ w.e.f_list # <<>>
          /\ \A held : Waits(c, held) /\ Jumps(c.e) \subseteq held /\ Once(Owes(c.e))
               => /\ Waits(w, held \union Jumps(w.e)) /\ Once(Owes(w.e))
                  /\ Jumps(w.e) \intersect held = Jumps(c.e)
      BY <1>3, <3>1, Listed
    <3> HIDE DEF w
    <3> QED BY <1>3, <3>2
  <2> HIDE DEF w
  <2>2. g = w
    BY <1>1 DEF w
  <2> QED BY <2>1, <2>2
<1>5. IsSeq(left.t_list) /\ IsSeq(left.f_list) /\ IsSeq(g.e.t_list) /\ IsSeq(g.e.f_list)
      /\ IsExpr(g.e) /\ IsExpr(left)
  BY <1>2, <1>4 DEF ItemOK, IsExpr
<1>7. /\ IsSeq(t_list) /\ IsSeq(f_list) /\ t_list # <<>> /\ f_list # <<>>
      /\ ListOf(t_list) \union ListOf(f_list) = Jumps(left) \union (T \union F)
      /\ Once(Owes(left)) /\ Once(g.e.t_list) /\ Once(g.e.f_list) /\ T \intersect F = {}
         /\ Jumps(left) \intersect (T \union F) = {}
         => Once(t_list) /\ Once(f_list) /\ ListOf(t_list) \intersect ListOf(f_list) = {}
  BY <1>4, <1>5, CombinedLists
<1>8. /\ IsExpr(e) /\ e.kind = "expr" /\ e.t_list = t_list /\ e.f_list = f_list
      /\ e.type = left.type /\ e.index = left.index
  BY <1>5, <1>7
<1>9. ItemOK(e)
  BY <1>2, <1>7, <1>8 DEF ItemOK, IsItem
<1>10. /\ Jumps(e) = Jumps(left) \union (T \union F)
       /\ Once(Owes(left)) /\ Once(g.e.t_list) /\ Once(g.e.f_list) /\ T \intersect F = {}
          /\ Jumps(left) \intersect (T \union F) = {} => Once(Owes(e))
  <2>1. /\ Jumps(e) = ListOf(t_list) \union ListOf(f_list)
        /\ Once(Owes(e)) <=> /\ Once(t_list) /\ Once(f_list)
                             /\ ListOf(t_list) \intersect ListOf(f_list) = {}
    BY <1>8, ExprJumps
  <2> QED BY <1>7, <2>1
<1>11. /\ Jumps(g.e) = T \union F
       /\ Once(Owes(g.e)) <=> Once(g.e.t_list) /\ Once(g.e.f_list) /\ T \intersect F = {}
  BY <1>4, <1>5, ExprJumps
<1> HIDE DEF T, F
<1>12. CodeOK(r) /\ r.e = e /\ \A held : Waits(g, held) => Waits(r, held)
  BY <1>4, WorkOn DEF With
<1> HIDE DEF r
<1>13. ASSUME Holding
       PROVE  /\ Once(Owes(e)) /\ Jumps(e) \intersect Below(2) = {}
              /\ Waits(r, Below(2) \union Jumps(e))
  <2>1. /\ Below(0) = (Below(2) \union Jumps(left)) \union Jumps(Item(1))
        /\ Below(2) \intersect Jumps(Item(1)) = {}
        /\ Below(2) \intersect Jumps(left) = {}
        /\ Jumps(Item(1)) \intersect Jumps(left) = {}
        /\ Once(Owes(Item(1))) /\ Once(Owes(left)) /\ Waits(Code(<<>>), Below(0))
    BY <1>13, SplitTwo
  <2>2. /\ Waits(g, Below(0) \union Jumps(g.e)) /\ Once(Owes(g.e))
        /\ Jumps(g.e) \intersect Below(0) = Jumps(Item(1))
    BY <1>3, <1>4, <2>1
  <2>3. Jumps(g.e) \intersect Below(2) = {} /\ Jumps(g.e) \intersect Jumps(left) = {}
    BY <2>1, <2>2
  <2>4. Jumps(e) = Jumps(left) \union Jumps(g.e)
    BY <1>10, <1>11
  <2>5. Jumps(e) \intersect Below(2) = {}
    BY <2>1, <2>3, <2>4
  <2>6. Below(0) \union Jumps(g.e) = Below(2) \union Jumps(e)
    BY <2>1, <2>2, <2>4
  <2>7. Once(Owes(e))
    BY <1>10, <1>11, <2>1, <2>2, <2>3
  <2>8. Waits(r, Below(0) \union Jumps(g.e))
    BY <1>12, <2>2
  <2> QED BY <2>5, <2>6, <2>7, <2>8
<1>14. ExecutionOK'
  <2>1. worlds' = worlds /\ \A s \in Starts : live'[s] \in BOOLEAN
    BY <1>1, <1>5 DEF Rejoin, IsExpr
  <2> QED BY <2>1, Branched
<1> QED BY <1>1, <1>9, <1>12, <1>13, <1>14, Result

LEMMA AndStep ==
  ASSUME Shapes, program' = program, and_expression
  PROVE  Keeps
<1> DEFINE left == Item(2)
           g == WithLists(Code(Item(1)))
           val == [s \in Starts |-> IF Truth(left.val[s]) THEN g.e.val[s] ELSE False]
           t_list == g.e.t_list
           f_list == left.f_list \o g.e.f_list
           e == [left EXCEPT !.kind = "expr", !.t_list = t_list, !.f_list = f_list,
                             !.val = val]
<1>1. /\ ~IR_GEN_FAILED /\ Len(stack) >= 2 /\ left.kind = "and" /\ Item(1).kind = "expr"
      /\ Reduced(2, With(g, e))
      /\ Rejoin(left.mask)
  BY DEF and_expression, Reading, With
<1> HIDE DEF val
<1>2. Combined(left, g.e, t_list, f_list)
  BY <1>1 DEF Combined
<1> HIDE DEF t_list, f_list
<1>3. IsExpr(left) /\ IsSeq(t_list) /\ IsSeq(f_list) =>
        /\ IsExpr(e) /\ e.kind = "expr" /\ e.t_list = t_list /\ e.f_list = f_list
        /\ e.type = left.type /\ e.index = left.index
  <2> HIDE DEF left
  <2> QED BY DEF IsExpr
<1> HIDE DEF e, g
<1>4. g = WithLists(Code(Item(1)))
  BY DEF g
<1> QED BY <1>1, <1>2, <1>3, <1>4, JoinStep

LEMMA OrStep ==
  ASSUME Shapes, program' = program, or_expression
  PROVE  Keeps
<1> DEFINE left == Item(2)
           g == WithLists(Code(Item(1)))
           val == [s \in Starts |-> IF Truth(left.val[s]) THEN True ELSE g.e.val[s]]
           t_list == left.t_list \o g.e.t_list
           f_list == g.e.f_list
           e == [left EXCEPT !.kind = "expr", !.t_list = t_list, !.f_list = f_list,
                             !.val = val]
<1>1. /\ ~IR_GEN_FAILED /\ Len(stack) >= 2 /\ left.kind = "or" /\ Item(1).kind = "expr"
      /\ Reduced(2, With(g, e))
      /\ Rejoin(left.mask)
  BY DEF or_expression, Reading, With
<1> HIDE DEF val
<1>2. Combined(left, g.e, t_list, f_list)
  BY <1>1 DEF Combined
<1> HIDE DEF t_list, f_list
<1>3. IsExpr(left) /\ IsSeq(t_list) /\ IsSeq(f_list) =>
        /\ IsExpr(e) /\ e.kind = "expr" /\ e.t_list = t_list /\ e.f_list = f_list
        /\ e.type = left.type /\ e.index = left.index
  <2> HIDE DEF left
  <2> QED BY DEF IsExpr
<1> HIDE DEF e, g
<1>4. g = WithLists(Code(Item(1)))
  BY DEF g
<1> QED BY <1>1, <1>2, <1>3, <1>4, JoinStep
-----------------------------------------------------------------------------
(* Assignments, members, calls and tables *)

\* The topmost item is made a value.
LEMMA SettledItem ==
  ASSUME Shapes, Len(stack) >= 1, Item(1).kind = "expr"
  PROVE  LET g == backpatch_tf_lists(Code(Item(1)))
         IN  /\ CodeOK(g) /\ Plainly(g.e) /\ g.e.kind = "expr" /\ ~IsItem(g.e)
             /\ \A held : /\ Waits(Code(<<>>), held) /\ Jumps(Item(1)) \subseteq held
                          /\ Once(Owes(Item(1)))
                          => Waits(g, held \ Jumps(Item(1)))
<1> DEFINE c == Code(Item(1))
           g == backpatch_tf_lists(c)
<1>1. CodeOK(c) /\ c.e = Item(1) /\ \A held : Waits(Code(<<>>), held) => Waits(c, held)
  BY StartCode DEF Shapes
<1>2. ItemOK(Item(1)) /\ ExecutionOK
  BY Topmost DEF Shapes
<1> HIDE DEF c
<1>3. /\ CodeOK(g) /\ Plainly(g.e) /\ g.e.kind = "expr" /\ ItemOK(g.e)
      /\ \A held : Waits(c, held) /\ Jumps(c.e) \subseteq held /\ Once(Owes(c.e))
           => Waits(g, held \ Jumps(c.e))
  BY <1>1, <1>2, Settle
<1> HIDE DEF g
<1>4. ~IsItem(g.e)
  BY <1>3 DEF ItemOK
<1>5. ASSUME NEW held, Waits(Code(<<>>), held), Jumps(Item(1)) \subseteq held,
             Once(Owes(Item(1)))
      PROVE  Waits(g, held \ Jumps(Item(1)))
  BY <1>1, <1>3, <1>5
<1> QED BY <1>3, <1>4, <1>5 DEF g, c

LEMMA SettledOne ==
  ASSUME Shapes, Holding, ~IR_GEN_FAILED, Len(stack) >= 1, Item(1).kind = "expr"
  PROVE  Waits(backpatch_tf_lists(Code(Item(1))), Below(1))
<1>1. /\ Below(0) = Below(1) \union Jumps(Item(1))
      /\ Below(1) \intersect Jumps(Item(1)) = {}
      /\ Once(Owes(Item(1))) /\ Waits(Code(<<>>), Below(0))
  BY SplitOne
<1>2. Below(0) \ Jumps(Item(1)) = Below(1) /\ Jumps(Item(1)) \subseteq Below(0)
  BY <1>1
<1>3. Waits(backpatch_tf_lists(Code(Item(1))), Below(0) \ Jumps(Item(1)))
  BY <1>1, <1>2, SettledItem
<1> QED BY <1>2, <1>3

LEMMA SettledTwo ==
  ASSUME Shapes, Holding, ~IR_GEN_FAILED, Len(stack) >= 2, Item(1).kind = "expr",
         Jumps(Item(2)) = {}
  PROVE  Waits(backpatch_tf_lists(Code(Item(1))), Below(2))
<1>1. /\ Below(0) = (Below(2) \union Jumps(Item(2))) \union Jumps(Item(1))
      /\ Below(2) \intersect Jumps(Item(1)) = {}
      /\ Once(Owes(Item(1))) /\ Waits(Code(<<>>), Below(0))
  BY SplitTwo
<1>2. Below(0) \ Jumps(Item(1)) = Below(2) /\ Jumps(Item(1)) \subseteq Below(0)
  BY <1>1
<1>3. Len(stack) >= 1
  BY DEF Shapes, IsSeq
<1>4. Waits(backpatch_tf_lists(Code(Item(1))), Below(0) \ Jumps(Item(1)))
  BY <1>1, <1>2, <1>3, SettledItem
<1> QED BY <1>2, <1>4

LEMMA TwoResult ==
  ASSUME Shapes, program' = program, ~IR_GEN_FAILED, Len(stack) >= 2,
         NEW g, CodeOK(g), Plainly(g.e), g.e.kind \in {"lvalue", "expr"},
         IsItem(g.e) => g.e.kind = "lvalue", Holding => Waits(g, Below(2)),
         Reduced(2, g), ExecutionOK'
  PROVE  Keeps
<1>1. Comes(2, g)
  BY ReducedComes
<1> QED BY <1>1, PlainResult DEF Keeps

LEMMA Retyped ==
  ASSUME NEW g, CodeOK(g), Plainly(g.e), NEW type, NEW val
  PROVE  LET h == [g EXCEPT !.e.type = type, !.e.val = val]
         IN  /\ CodeOK(h) /\ Plainly(h.e) /\ h.e.kind = g.e.kind /\ h.e.type = type
             /\ \A held : Waits(g, held) => Waits(h, held)
<1> DEFINE d == [g.e EXCEPT !.type = type, !.val = val]
           h == [g EXCEPT !.e = d]
<1>1. Plainly(d) /\ d.kind = g.e.kind /\ d.type = type
  BY DEF Plainly, IsExpr
<1> HIDE DEF d
<1>2. /\ CodeOK(h) /\ h.quads = g.quads /\ h.e = d
      /\ \A held : Waits(g, held) => Waits(h, held)
  BY WorkOn
<1>3. h = [g EXCEPT !.e.type = type, !.e.val = val]
  BY DEF d, CodeOK, Plainly, IsExpr
<1> HIDE DEF h
<1> QED BY <1>1, <1>2, <1>3

LEMMA AssignmentStep ==
  ASSUME Shapes, program' = program, assignment
  PROVE  Keeps
<1> DEFINE lv == Item(2)
           g == backpatch_tf_lists(Code(Item(1)))
           o == Operand(g.e)
           new == [s \in Starts |-> Read(Item(1), s)]
<1>1. /\ ~IR_GEN_FAILED /\ Len(stack) >= 2 /\ lv.kind = "lvalue" /\ Item(1).kind = "expr"
  BY DEF assignment, Reading
<1>2. Plainly(lv) /\ Jumps(lv) = {}
  BY <1>1, TopmostTwo, ItemPlainly
<1>3. Len(stack) >= 1
  BY <1>1 DEF Shapes, IsSeq
<1>4. CodeOK(g) /\ (Holding => Waits(g, Below(2)))
  BY <1>1, <1>2, <1>3, SettledItem, SettledTwo
<1>5. CASE Error(2)
  BY <1>1, <1>5, ErrorStep
<1>6. CASE ~Error(2) /\ IsItem(lv)
  <2> DEFINE h == Emit(g, Quad("tablesetelem", o, Operand(lv.index[1]), Cell(lv.sym), 0))
             f == [h EXCEPT !.e = lv]
             k == emit_if_table_item(f)
             stored == [s \in Starts |->
                          LET w == StoreItem(lv, s, new[s])
                          IN  GetElem(w, Read([lv EXCEPT !.type = "var_e"], s),
                                      Read(lv.index[1], s))]
             r == [k EXCEPT !.e.type = "assign_expr_e", !.e.val = stored]
  <2>1. /\ Reduced(2, r) /\ live' = live
        /\ worlds' = [s \in Starts |-> IF live[s] THEN StoreItem(lv, s, new[s]) ELSE worlds[s]]
    BY <1>6 DEF assignment, Effect
  <2> HIDE DEF new, stored, g
  <2>2. ExecutionOK'
    BY <2>1, StoredItem
  <2>3. CodeOK(h) /\ \A held : Waits(g, held) => Waits(h, held)
    BY <1>4, Adding
  <2> HIDE DEF h
  <2>4. CodeOK(f) /\ f.e = lv /\ \A held : Waits(h, held) => Waits(f, held)
    BY <2>3, WorkOn
  <2> HIDE DEF f
  <2>5. /\ CodeOK(k) /\ Plainly(k.e) /\ k.e.kind = "expr"
        /\ \A held : Waits(f, held) => Waits(k, held)
    BY <1>2, <1>6, <2>4, Fetch DEF Shapes
  <2> HIDE DEF k
  <2>6. /\ CodeOK(r) /\ Plainly(r.e) /\ r.e.kind = "expr" /\ r.e.type = "assign_expr_e"
        /\ \A held : Waits(k, held) => Waits(r, held)
    BY <2>5, Retyped
  <2> HIDE DEF r
  <2>7. Holding => Waits(r, Below(2))
    BY <1>4, <2>3, <2>4, <2>5, <2>6
  <2> QED BY <1>1, <2>1, <2>2, <2>6, <2>7, TwoResult DEF IsItem
<1>7. CASE ~Error(2) /\ ~IsItem(lv)
  <2> DEFINE h == Emit(g, Quad("assign", o, None, Operand(lv), 0))
             k == NewTemp(h, "assign_expr_e", new)
             r == Emit(k, Quad("assign", Operand(lv), None, Operand(k.e), 0))
  <2>1. /\ Reduced(2, r) /\ live' = live
        /\ worlds' = [s \in Starts |-> IF live[s] THEN StoreVar(lv, s, new[s]) ELSE worlds[s]]
    BY <1>7 DEF assignment, Effect
  <2> HIDE DEF new, g
  <2>2. ExecutionOK'
    BY <2>1, StoredVar
  <2>3. CodeOK(h) /\ \A held : Waits(g, held) => Waits(h, held)
    BY <1>4, Adding
  <2> HIDE DEF h
  <2>4. /\ CodeOK(k) /\ Plainly(k.e) /\ k.e.kind = "expr" /\ k.e.type = "assign_expr_e"
        /\ \A held : Waits(h, held) => Waits(k, held)
    BY <2>3, Fresh DEF Shapes
  <2> HIDE DEF k
  <2>5. CodeOK(r) /\ r.e = k.e /\ \A held : Waits(k, held) => Waits(r, held)
    BY <2>4, Adding
  <2> HIDE DEF r
  <2>6. Holding => Waits(r, Below(2))
    BY <1>4, <2>3, <2>4, <2>5
  <2>7. Plainly(r.e) /\ r.e.kind = "expr" /\ ~IsItem(r.e)
    BY <2>4, <2>5 DEF IsItem
  <2> QED BY <1>1, <2>1, <2>2, <2>5, <2>6, <2>7, TwoResult
<1> QED BY <1>5, <1>6, <1>7

\* An element of the table that g works on, itself an element perhaps
LEMMA MemberItem ==
  ASSUME NEW g, CodeOK(g), ExecutionOK, Plainly(g.e), NEW index
  PROVE  LET h == member_item(g, index)
         IN  /\ CodeOK(h) /\ Plainly(h.e) /\ h.e.kind = "lvalue"
             /\ \A held : Waits(g, held) => Waits(h, held)
<1> DEFINE f == emit_if_table_item(g)
           val == [s \in Starts |-> Read(f.e, s)]
           c == create_expr("table_item_e")
           d == [c EXCEPT !.kind = "lvalue", !.sym = f.e.sym, !.index = <<index>>, !.val = val]
           h == [f EXCEPT !.e = d]
<1>1. CodeOK(f) /\ \A held : Waits(g, held) => Waits(f, held)
  BY Fetch
<1>2. h = member_item(g, index)
  BY DEF member_item, TableItem
<1> HIDE DEF f, val
<1>3. Plainly(c)
  BY CreatedPlainly
<1> HIDE DEF c
<1>4. d.kind = "lvalue" /\ d.index = <<index>> /\ IsExpr(d)
      /\ d.t_list = <<>> /\ d.f_list = <<>>
  BY <1>3 DEF Plainly, IsExpr
<1> HIDE DEF d
<1>6. Plainly(d)
  <2>1. Len(d.index) = 1
    BY <1>4, OneOf
  <2> QED BY <1>4, <2>1 DEF Plainly
<1>5. CodeOK(h) /\ h.e = d /\ \A held : Waits(f, held) => Waits(h, held)
  BY <1>1, WorkOn
<1> HIDE DEF h
<1> QED BY <1>1, <1>2, <1>4, <1>5, <1>6

LEMMA MemberNameStep ==
  ASSUME Shapes, program' = program, NEW k, member_name(k)
  PROVE  Keeps
<1> DEFINE c == Code(Item(1))
           g == member_item(c, Name(k))
<1>1. /\ ~IR_GEN_FAILED /\ Len(stack) >= 1 /\ Item(1).kind \in {"lvalue", "call"}
  BY KindOne DEF member_name, Reading
<1>2. Plainly(Item(1)) /\ Jumps(Item(1)) = {}
  BY <1>1, Topmost, ItemPlainly
<1>3. CASE Error(1)
  BY <1>1, <1>3, ErrorStep
<1>4. CASE ~Error(1)
  <2>1. Reduced(1, g) /\ UNCHANGED execution
    BY <1>4 DEF member_name, NoEffect
  <2>2. CodeOK(c) /\ c.e = Item(1) /\ \A held : Waits(Code(<<>>), held) => Waits(c, held)
    BY StartCode DEF Shapes
  <2> HIDE DEF c
  <2>3. /\ CodeOK(g) /\ Plainly(g.e) /\ g.e.kind = "lvalue"
        /\ \A held : Waits(c, held) => Waits(g, held)
    BY <1>2, <2>2, MemberItem DEF Shapes
  <2> HIDE DEF g
  <2>4. Holding => Waits(g, Below(1))
    <3>1. Holding => Waits(Code(<<>>), Below(1))
      BY <1>1, <1>2, PlainOperand
    <3> QED BY <2>2, <2>3, <3>1
  <2>5. ExecutionOK' /\ Comes(1, g)
    BY <2>1, NothingDone, ReducedComes
  <2> QED BY <1>1, <2>3, <2>4, <2>5, PlainResult DEF Keeps
<1> QED BY <1>3, <1>4

LEMMA MemberIndexStep ==
  ASSUME Shapes, program' = program, member_index
  PROVE  Keeps
<1> DEFINE g == backpatch_tf_lists(Code(Item(1)))
           f == [g EXCEPT !.e = Item(2)]
           h == member_item(f, g.e)
<1>1. /\ ~IR_GEN_FAILED /\ Len(stack) >= 2 /\ Item(2).kind \in {"lvalue", "call"}
      /\ Item(1).kind = "expr"
  BY DEF member_index, Reading
<1>2. Plainly(Item(2)) /\ Jumps(Item(2)) = {}
  BY <1>1, TopmostTwo, ItemPlainly
<1>3. Len(stack) >= 1
  BY <1>1 DEF Shapes, IsSeq
<1>4. CASE Error(2)
  BY <1>1, <1>4, ErrorStep
<1>5. CASE ~Error(2)
  <2>1. Reduced(2, h) /\ UNCHANGED execution
    BY <1>5 DEF member_index, NoEffect
  <2>2. CodeOK(g) /\ (Holding => Waits(g, Below(2)))
    BY <1>1, <1>2, <1>3, SettledItem, SettledTwo
  <2> HIDE DEF g
  <2>3. CodeOK(f) /\ f.e = Item(2) /\ \A held : Waits(g, held) => Waits(f, held)
    BY <2>2, WorkOn
  <2> HIDE DEF f
  <2>4. /\ CodeOK(h) /\ Plainly(h.e) /\ h.e.kind = "lvalue"
        /\ \A held : Waits(f, held) => Waits(h, held)
    BY <1>2, <2>3, MemberItem DEF Shapes
  <2> HIDE DEF h
  <2>5. ExecutionOK'
    BY <2>1, NothingDone
  <2>6. Holding => Waits(h, Below(2))
    BY <2>2, <2>3, <2>4
  <2> QED BY <1>1, <2>1, <2>4, <2>5, <2>6, TwoResult
<1> QED BY <1>4, <1>5

LEMMA ArgumentStep ==
  ASSUME Shapes, program' = program, argument
  PROVE  Keeps
<1> DEFINE g == backpatch_tf_lists(Code(Item(1)))
           h == [g EXCEPT !.e = As("arg", g.e)]
<1>1. /\ ~IR_GEN_FAILED /\ Len(stack) >= 1 /\ Item(1).kind = "expr"
      /\ Reduced(1, h) /\ UNCHANGED execution
  <2>1. Item(1).kind \in {"expr"}
    BY KindOne DEF argument
  <2> QED BY <2>1 DEF argument, Reading, NoEffect
<1>2. /\ CodeOK(g) /\ Plainly(g.e) /\ ~IsItem(g.e)
      /\ Holding => Waits(g, Below(1))
  BY <1>1, SettledItem, SettledOne
<1> HIDE DEF g
<1>3. CodeOK(h) /\ h.e = As("arg", g.e) /\ \A held : Waits(g, held) => Waits(h, held)
  BY <1>2, WorkOn
<1>4. Plainly(h.e) /\ h.e.kind = "arg" /\ ~IsItem(h.e)
  BY <1>2, <1>3, AsPlainly DEF IsItem
<1> HIDE DEF h
<1>5. ExecutionOK' /\ Comes(1, h)
  BY <1>1, NothingDone, ReducedComes
<1>6. Holding => Waits(h, Below(1))
  BY <1>2, <1>3
<1> QED BY <1>1, <1>3, <1>4, <1>5, <1>6, PlainResult DEF Keeps

\* Several quads that are no jumps
LEMMA AddQuads ==
  ASSUME NEW g, CodeOK(g), NEW qs, IsSeq(qs),
         \A i \in 1..Len(qs) : IsQuad(qs[i]) /\ qs[i].label = 0 /\ qs[i].patch = "none"
  PROVE  LET h == [g EXCEPT !.quads = @ \o qs]
         IN  /\ CodeOK(h) /\ h.e = g.e
             /\ \A held : Waits(g, held) => Waits(h, held)
<1> DEFINE h == [g EXCEPT !.quads = @ \o qs]
           n == Len(g.quads)
           m == Len(qs)
<1>1. /\ g \in [quads : {g.quads}, temps : {g.temps}, e : {g.e}]
      /\ IsSeq(g.quads) /\ g.temps \in Nat /\ n \in Nat /\ m \in Nat
  BY DEF CodeOK, IsSeq
<1>2. /\ h.quads = g.quads \o qs /\ h.temps = g.temps /\ h.e = g.e
      /\ h \in [quads : {h.quads}, temps : {h.temps}, e : {h.e}]
  BY <1>1
<1> HIDE DEF h
<1>3. /\ IsSeq(h.quads) /\ Len(h.quads) = n + m
      /\ \A i \in 1..n : h.quads[i] = g.quads[i]
      /\ \A i \in 1..m : h.quads[n + i] = qs[i]
  BY <1>1, <1>2, Joined
<1>4. \A i \in 1..n : IsQuad(g.quads[i]) /\ g.quads[i].label \in 0..(n + 2)
  BY DEF CodeOK
<1> HIDE DEF n, m
<1>5. ASSUME NEW i \in 1..(n + m), i \notin 1..n
      PROVE  h.quads[i] = qs[i - n] /\ i - n \in 1..m
  <2>1. i - n \in 1..m /\ n + (i - n) = i
    BY <1>1, <1>5
  <2> QED BY <1>3, <2>1
<1>6. ASSUME NEW i \in 1..(n + m)
      PROVE  IsQuad(h.quads[i]) /\ h.quads[i].label \in 0..(n + m + 2)
  <2>1. CASE i \in 1..n
    <3>1. h.quads[i] = g.quads[i] /\ IsQuad(g.quads[i]) /\ g.quads[i].label \in 0..(n + 2)
      BY <1>3, <1>4, <2>1
    <3>2. \A l \in 0..(n + 2) : l \in 0..(n + m + 2)
      BY <1>1
    <3> QED BY <3>1, <3>2
  <2>2. CASE i \notin 1..n
    <3>1. IsQuad(h.quads[i]) /\ h.quads[i].label = 0
      BY <1>5, <2>2 DEF m
    <3>2. 0 \in 0..(n + m + 2)
      BY <1>1
    <3> QED BY <3>1, <3>2
  <2> QED BY <2>1, <2>2
<1>7. CodeOK(h)
  BY <1>1, <1>2, <1>3, <1>6 DEF CodeOK
<1>8. ASSUME NEW held, Waits(g, held) PROVE Waits(h, held)
  <2>1. held = OpenJumps(g.quads) /\ \A i \in 1..n : g.quads[i].patch # "again"
    BY <1>8 DEF Waits, n
  <2>2. \A i \in 1..(n + m) : i \notin 1..n => h.quads[i].patch = "none"
    BY <1>5 DEF m
  <2>3. \A i \in 1..n : i \in 1..(n + m)
    BY <1>1
  <2>4. {j \in 1..Len(h.quads) : h.quads[j].patch = "open"}
          = {j \in 1..Len(g.quads) : g.quads[j].patch = "open"}
    BY <1>3, <2>2, <2>3 DEF n
  <2>5. OpenJumps(h.quads) = OpenJumps(g.quads)
    BY <2>4 DEF OpenJumps
  <2>6. \A i \in 1..Len(h.quads) : h.quads[i].patch # "again"
    BY <1>3, <2>1, <2>2
  <2> QED BY <2>1, <2>5, <2>6 DEF Waits
<1> QED BY <1>2, <1>7, <1>8 DEF h

\* The code of a call
LEMMA CallCode ==
  ASSUME NEW g, CodeOK(g), ExecutionOK, Plainly(g.e), NEW rev, IsSeq(rev)
  PROVE  LET h == make_call(g, rev)
         IN  /\ CodeOK(h) /\ Plainly(h.e) /\ h.e.kind = "call" /\ ~IsItem(h.e)
             /\ \A held : Waits(g, held) => Waits(h, held)
<1> DEFINE func == emit_if_table_item(g)
           qs == [i \in DOMAIN rev |-> Quad("param", Operand(rev[i]), None, None, 0)]
           params == [func EXCEPT !.quads = @ \o qs]
           called == Emit(params, Quad("call", Operand(func.e), None, None, 0))
           value == [s \in Starts |-> Call(worlds[s], Nil, <<>>).mem["retval"]]
           r == NewTemp(called, "var_e", value)
           done == Emit(r, Quad("getretval", None, None, Operand(r.e), 0))
           h == [done EXCEPT !.e = As("call", done.e)]
<1>1. CodeOK(func) /\ \A held : Waits(g, held) => Waits(func, held)
  BY Fetch
<1>2. h = make_call(g, rev)
  BY DEF make_call
<1> HIDE DEF func, value
<1>3. IsSeq(qs) /\ \A i \in 1..Len(qs) : /\ IsQuad(qs[i]) /\ qs[i].label = 0
                                         /\ qs[i].patch = "none"
  <2>1. DOMAIN rev = 1..Len(rev) /\ Len(rev) \in Nat
    BY AsSeq
  <2>2. qs = [i \in 1..Len(rev) |-> Quad("param", Operand(rev[i]), None, None, 0)]
    BY <2>1
  <2>3. \A i \in 1..Len(rev) :
          LET q == Quad("param", Operand(rev[i]), None, None, 0)
          IN  IsQuad(q) /\ q.label = 0 /\ q.patch = "none"
    BY QuadIs
  <2>4. Len(qs) = Len(rev) /\ \A i \in 1..Len(rev) :
          qs[i] = Quad("param", Operand(rev[i]), None, None, 0)
    BY <2>1, <2>2
  <2>5. qs = [i \in 1..Len(qs) |-> qs[i]]
    BY <2>2, <2>4
  <2> HIDE DEF qs
  <2> QED BY <2>1, <2>3, <2>4, <2>5 DEF IsSeq
<1> HIDE DEF qs
<1>4. CodeOK(params) /\ \A held : Waits(func, held) => Waits(params, held)
  BY <1>1, <1>3, AddQuads
<1> HIDE DEF params
<1>5. CodeOK(called) /\ \A held : Waits(params, held) => Waits(called, held)
  BY <1>4, Adding
<1> HIDE DEF called
<1>6. /\ CodeOK(r) /\ Plainly(r.e) /\ r.e.type = "var_e"
      /\ \A held : Waits(called, held) => Waits(r, held)
  BY <1>5, Fresh
<1> HIDE DEF r
<1>7. CodeOK(done) /\ done.e = r.e /\ \A held : Waits(r, held) => Waits(done, held)
  BY <1>6, Adding
<1> HIDE DEF done
<1>8. CodeOK(h) /\ h.e = As("call", done.e) /\ \A held : Waits(done, held) => Waits(h, held)
  BY <1>7, WorkOn
<1>9. Plainly(h.e) /\ h.e.kind = "call" /\ ~IsItem(h.e)
  BY <1>6, <1>7, <1>8, AsPlainly DEF IsItem
<1> HIDE DEF h
<1> QED BY <1>1, <1>2, <1>4, <1>5, <1>6, <1>7, <1>8, <1>9

\* Where the part just read is reached, it takes each world to another one.
LEMMA Effected ==
  ASSUME Shapes, program' = program, live' = live, NEW new,
         worlds' = [s \in Starts |-> IF live[s] THEN new[s] ELSE worlds[s]],
         \A s \in Starts : IsWorld(new[s])
  PROVE  ExecutionOK'
<1>1. \A s \in Starts : IsWorld(worlds[s])
  BY DEF Shapes, ExecutionOK
<1>2. worlds' = [s \in Starts |-> worlds'[s]] /\ \A s \in Starts : IsWorld(worlds'[s])
  BY <1>1
<1> QED BY <1>2, Done

\* The arguments, and what is called with them, have no jumps.
LEMMA CallItems ==
  ASSUME Shapes, NEW n \in Nat, Len(stack) >= n + 1, Kinds(n, {"arg"}),
         Item(n + 1).kind \in {"lvalue", "call"}
  PROVE  /\ \A i \in 1..(n + 1) : Jumps(Item(i)) = {}
         /\ Plainly(Item(n + 1)) /\ IsSeq(rev_elist(n)) /\ Len(rev_elist(n)) = n
<1>1. \A i \in 1..(n + 1) : ItemOK(Item(i))
  BY ItemShape
<1>2. ASSUME NEW i \in 1..(n + 1) PROVE Item(i).kind \in {"lvalue", "call", "arg"}
  <2>1. CASE i \in 1..n
    BY <2>1 DEF Kinds
  <2>2. CASE i = n + 1
    BY <2>2
  <2> QED BY <2>1, <2>2
<1>3. \A i \in 1..(n + 1) : Jumps(Item(i)) = {} /\ Plainly(Item(i))
  BY <1>1, <1>2, ItemPlainly
<1>4. n + 1 \in 1..(n + 1)
  OBVIOUS
<1>5. IsSeq(rev_elist(n)) /\ Len(rev_elist(n)) = n
  BY DEF rev_elist, IsSeq
<1> QED BY <1>3, <1>4, <1>5

\* A call that takes its arguments and what is called from the stack
LEMMA CallResult ==
  ASSUME Shapes, program' = program, ~IR_GEN_FAILED, NEW n \in Nat, Len(stack) >= n + 1,
         \A i \in 1..(n + 1) : Jumps(Item(i)) = {},
         NEW g, CodeOK(g), Plainly(g.e), g.e.kind = "call", ~IsItem(g.e),
         \A held : Waits(Code(<<>>), held) => Waits(g, held),
         Reduced(n + 1, g), ExecutionOK'
  PROVE  Keeps
<1>1. Comes(n + 1, g) /\ n + 1 \in Nat
  BY ReducedComes
<1>2. Holding => Waits(g, Below(n + 1))
  BY <1>1, PlainOperands
<1> QED BY <1>1, <1>2, PlainResult DEF Keeps

LEMMA CallStep ==
  ASSUME Shapes, program' = program, NEW n \in Nat, call(n)
  PROVE  Keeps
<1> DEFINE c == Code(Item(n + 1))
           g == emit_if_table_item(c)
           h == make_call(g, rev_elist(n))
           new == [s \in Starts |-> Call(worlds[s], ValueOf(Item(n + 1), s),
                                        Reverse(Values(rev_elist(n), s)))]
<1>1. /\ ~IR_GEN_FAILED /\ Len(stack) >= n + 1 /\ Kinds(n, {"arg"})
      /\ Item(n + 1).kind \in {"lvalue", "call"} /\ Reduced(n + 1, h) /\ live' = live
  BY DEF call, Reading, Effect
<1>2. /\ \A i \in 1..(n + 1) : Jumps(Item(i)) = {}
      /\ Plainly(Item(n + 1)) /\ IsSeq(rev_elist(n))
  BY <1>1, CallItems
<1>3. worlds' = [s \in Starts |-> IF live[s] THEN new[s] ELSE worlds[s]]
  BY DEF call, Effect
<1>4. ASSUME NEW s \in Starts PROVE IsWorld(new[s])
  <2>1. IsWorld(worlds[s])
    BY DEF Shapes, ExecutionOK
  <2> QED BY <2>1, Worlds
<1> HIDE DEF new
<1>5. ExecutionOK'
  BY <1>1, <1>3, <1>4, Effected
<1>6. CodeOK(c) /\ c.e = Item(n + 1) /\ \A held : Waits(Code(<<>>), held) => Waits(c, held)
  BY StartCode DEF Shapes
<1> HIDE DEF c
<1>7. CodeOK(g) /\ Plainly(g.e) /\ \A held : Waits(c, held) => Waits(g, held)
  BY <1>2, <1>6, Fetch DEF Shapes
<1> HIDE DEF g
<1>8. /\ CodeOK(h) /\ Plainly(h.e) /\ h.e.kind = "call" /\ ~IsItem(h.e)
      /\ \A held : Waits(g, held) => Waits(h, held)
  BY <1>2, <1>7, CallCode DEF Shapes
<1> HIDE DEF h
<1>9. \A held : Waits(Code(<<>>), held) => Waits(h, held)
  BY <1>6, <1>7, <1>8
<1> QED BY <1>1, <1>2, <1>5, <1>8, <1>9, CallResult

LEMMA MethodStep ==
  ASSUME Shapes, program' = program, NEW n \in Nat, NEW k, method_call(n, k)
  PROVE  Keeps
<1> DEFINE c == Code(Item(n + 1))
           object == emit_if_table_item(c)
           m == member_item(object, Name(k))
           f == emit_if_table_item(m)
           rev == SubSeq(rev_elist(n), 1, IF n = 0 THEN 0 ELSE 1)
           es == Append(rev, object.e)
           h == make_call(f, es)
           new == [s \in Starts |->
                     LET t == ValueOf(Item(n + 1), s)
                     IN  Call(worlds[s], GetElem(worlds[s], t, k),
                              <<t>> \o Reverse(Values(rev_elist(n), s)))]
<1>1. /\ ~IR_GEN_FAILED /\ Len(stack) >= n + 1 /\ Kinds(n, {"arg"})
      /\ Item(n + 1).kind = "lvalue" /\ Reduced(n + 1, h) /\ live' = live
  BY DEF method_call, Reading, Effect
<1>2. /\ \A i \in 1..(n + 1) : Jumps(Item(i)) = {}
      /\ Plainly(Item(n + 1)) /\ IsSeq(rev_elist(n)) /\ Len(rev_elist(n)) = n
  BY <1>1, CallItems
<1>3. worlds' = [s \in Starts |-> IF live[s] THEN new[s] ELSE worlds[s]]
  BY DEF method_call, Effect
<1>4. ASSUME NEW s \in Starts PROVE IsWorld(new[s])
  <2>1. IsWorld(worlds[s])
    BY DEF Shapes, ExecutionOK
  <2> QED BY <2>1, Worlds
<1> HIDE DEF new
<1>5. ExecutionOK'
  BY <1>1, <1>3, <1>4, Effected
<1>6. CodeOK(c) /\ c.e = Item(n + 1) /\ \A held : Waits(Code(<<>>), held) => Waits(c, held)
  BY StartCode DEF Shapes
<1> HIDE DEF c
<1>7. CodeOK(object) /\ Plainly(object.e) /\ \A held : Waits(c, held) => Waits(object, held)
  BY <1>2, <1>6, Fetch DEF Shapes
<1>8. IsSeq(es)
  <2>1. (IF n = 0 THEN 0 ELSE 1) \in 0..n
    OBVIOUS
  <2>2. IsSeq(rev)
    BY <1>2, <2>1, Cut
  <2> HIDE DEF rev, object
  <2> QED BY <2>2, Appended
<1> HIDE DEF object, es
<1>9. CodeOK(m) /\ Plainly(m.e) /\ \A held : Waits(object, held) => Waits(m, held)
  BY <1>7, MemberItem DEF Shapes
<1> HIDE DEF m
<1>10. CodeOK(f) /\ Plainly(f.e) /\ \A held : Waits(m, held) => Waits(f, held)
  BY <1>9, Fetch DEF Shapes
<1> HIDE DEF f
<1>11. /\ CodeOK(h) /\ Plainly(h.e) /\ h.e.kind = "call" /\ ~IsItem(h.e)
       /\ \A held : Waits(f, held) => Waits(h, held)
  BY <1>8, <1>10, CallCode DEF Shapes
<1> HIDE DEF h
<1>12. \A held : Waits(Code(<<>>), held) => Waits(h, held)
  BY <1>6, <1>7, <1>9, <1>10, <1>11
<1> QED BY <1>1, <1>2, <1>5, <1>11, <1>12, CallResult

\* The code of a table that is made, then filled
LEMMA ObjectStep ==
  ASSUME Shapes, program' = program, ~IR_GEN_FAILED, NEW n \in Nat, Len(stack) >= n,
         Kinds(n, {"arg"}), NEW m \in Nat, NEW pairs, pairs = [i \in 1..m |-> pairs[i]],
         Object(n, pairs)
  PROVE  Keeps
<1> DEFINE c == Code(Name(0))
           val == [s \in Starts |-> LastTable(NewTable(worlds[s]))]
           r == NewTemp(c, "new_table_e", val)
           made == Emit(r, Quad("tablecreate", Operand(r.e), None, None, 0))
           qs == [i \in DOMAIN pairs |-> Quad("tablesetelem", Operand(pairs[i].value),
                                Operand(pairs[i].key), Operand(made.e), 0)]
           h == [made EXCEPT !.quads = @ \o qs]
           filled == [s \in Starts |-> [k \in Keys |->
             LET same == {i \in DOMAIN pairs : Read(pairs[i].key, s) = k}
             IN  IF same = {} THEN Nil ELSE Read(pairs[Max(same)].value, s)]]
           new == [s \in Starts |-> [worlds[s] EXCEPT !.tables = Append(@, filled[s])]]
<1>1. CodeOK(c) /\ \A held : Waits(Code(<<>>), held) => Waits(c, held)
  BY StartCode DEF Shapes
<1>2. /\ CodeOK(r) /\ Plainly(r.e) /\ r.e.kind = "expr" /\ r.e.type = "new_table_e"
      /\ \A held : Waits(c, held) => Waits(r, held)
  <2> HIDE DEF c, val
  <2> QED BY <1>1, Fresh DEF Shapes
<1>3. /\ CodeOK(made) /\ made.e = r.e /\ \A held : Waits(r, held) => Waits(made, held)
  <2> HIDE DEF r
  <2> QED BY <1>2, Adding
<1>4. Reduced(n, h) /\ live' = live
  BY <1>3 DEF Object, Fill, Effect
<1>5. worlds' = [s \in Starts |-> IF live[s] THEN new[s] ELSE worlds[s]]
  BY DEF Object, Effect
<1>6. ASSUME NEW s \in Starts PROVE IsWorld(new[s])
  <2>1. IsWorld(worlds[s])
    BY DEF Shapes, ExecutionOK
  <2> HIDE DEF filled
  <2> QED BY <2>1 DEF IsWorld
<1> HIDE DEF new
<1>7. ExecutionOK'
  BY <1>4, <1>5, <1>6, Effected
<1> HIDE DEF c, val, r, made
<1>8. /\ IsSeq(qs)
      /\ \A i \in 1..Len(qs) : IsQuad(qs[i]) /\ qs[i].label = 0 /\ qs[i].patch = "none"
  <2> DEFINE Q(i) == Quad("tablesetelem", Operand(pairs[i].value), Operand(pairs[i].key),
                          Operand(made.e), 0)
  <2>1. DOMAIN pairs = 1..m
    OBVIOUS
  <2>2. qs = [i \in 1..m |-> Q(i)]
    BY <2>1
  <2>3. \A i \in 1..m : IsQuad(Q(i)) /\ Q(i).label = 0 /\ Q(i).patch = "none"
    BY QuadIs
  <2> HIDE DEF Q
  <2>4. Len(qs) = m /\ \A i \in 1..m : qs[i] = Q(i)
    BY <2>1, <2>2
  <2>5. qs = [i \in 1..Len(qs) |-> qs[i]]
    BY <2>2, <2>4
  <2> HIDE DEF qs
  <2> QED BY <2>3, <2>4, <2>5 DEF IsSeq
<1> HIDE DEF qs
<1>9. CodeOK(h) /\ h.e = made.e /\ \A held : Waits(made, held) => Waits(h, held)
  BY <1>3, <1>8, AddQuads
<1> HIDE DEF h
<1>10. \A i \in 1..n : Jumps(Item(i)) = {}
  <2>1. \A i \in 1..n : ItemOK(Item(i)) /\ Item(i).kind = "arg"
    BY ItemShape DEF Kinds
  <2> QED BY <2>1, ItemPlainly
<1>11. Holding => Waits(h, Below(n))
  <2>1. Holding => Waits(Code(<<>>), Below(n))
    BY <1>10, PlainOperands
  <2> QED BY <1>1, <1>2, <1>3, <1>9, <2>1
<1>12. Plainly(h.e) /\ h.e.kind = "expr" /\ ~IsItem(h.e)
  BY <1>2, <1>3, <1>9 DEF IsItem
<1>13. Comes(n, h)
  BY <1>4, ReducedComes
<1> QED BY <1>7, <1>9, <1>11, <1>12, <1>13, PlainResult DEF Keeps

LEMMA ListStep ==
  ASSUME Shapes, program' = program, NEW n \in Nat, object_list(n)
  PROVE  Keeps
<1> DEFINE pairs == [i \in 1..n |-> [key |-> Name(i - 1), value |-> Reverse(rev_elist(n))[i]]]
<1>1. ~IR_GEN_FAILED /\ Len(stack) >= n /\ Kinds(n, {"arg"}) /\ Object(n, pairs)
  BY DEF object_list, Reading
<1>2. pairs = [i \in 1..n |-> pairs[i]]
  OBVIOUS
<1> HIDE DEF pairs
<1> QED BY <1>1, <1>2, ObjectStep

LEMMA IndexedStep ==
  ASSUME Shapes, program' = program, NEW n \in Nat, object_indexed(n)
  PROVE  Keeps
<1> DEFINE es == Reverse(rev_elist(2 * n))
           pairs == [i \in 1..n |-> [key |-> es[2 * i - 1], value |-> es[2 * i]]]
<1>1. ~IR_GEN_FAILED /\ Len(stack) >= 2 * n /\ Kinds(2 * n, {"arg"})
      /\ Object(2 * n, pairs)
  BY DEF object_indexed, Reading
<1>2. pairs = [i \in 1..n |-> pairs[i]] /\ 2 * n \in Nat
  OBVIOUS
<1> HIDE DEF pairs
<1> QED BY <1>1, <1>2, ObjectStep
-----------------------------------------------------------------------------
(* Statements *)

\* The end of a statement, of whatever kind
LEMMA Emptied ==
  ASSUME program' = program, NEW g, CodeOK(g), quads' = g.quads,
         temp_var_counter' \in Nat, stack' = <<>>, status' \in {"reading", "done"},
         ExecutionOK'
  PROVE  Shapes' /\ (IR_GEN_FAILED' \/ Waits(g, {}) => Holding')
<1>1. Len(stack') = 0 /\ IsSeq(stack') /\ 1..0 = {}
  BY NoneOf
<1> DEFINE c == [quads |-> quads', temps |-> temp_var_counter', e |-> <<>>]
<1>2. /\ c.quads = g.quads /\ c.temps = temp_var_counter'
      /\ c \in [quads : {c.quads}, temps : {c.temps}, e : {c.e}]
  OBVIOUS
<1> HIDE DEF c
<1>3. CodeOK(c)
  BY <1>2 DEF CodeOK
<1>4. CodeOK(Code(<<>>))'
  BY <1>3 DEF c, CodeOK, Code, IsQuad, IsSeq
<1>5. Shapes'
  BY <1>1, <1>4 DEF Shapes, IsSeq
<1>6. ASSUME Waits(g, {}) PROVE Holding'
  <2>1. Waits(c, {})
    BY <1>2, <1>6 DEF Waits
  <2>2. Below(0)' = {}
    <3>1. 1..(Len(stack') - 0) = {}
      BY <1>1
    <3>2. \A T : T = {} => UNION {Jumps(stack[i])' : i \in T} = {}
      OBVIOUS
    <3> QED BY <3>1, <3>2 DEF Below
  <2>3. Waits(Code(<<>>), Below(0))'
    BY <2>1, <2>2 DEF c, Waits, Code, OpenJumps
  <2>4. \A i \in 1..Len(stack') : FALSE
    BY <1>1
  <2> QED BY <2>3, <2>4 DEF Holding
<1>7. IR_GEN_FAILED' => Holding'
  BY DEF Holding
<1> QED BY <1>5, <1>6, <1>7

\* Nothing but the status changes.
LEMMA Idle ==
  ASSUME Shapes, status' \in {"reading", "done"},
         UNCHANGED <<program, stack, quads, temp_var_counter, IR_GEN_FAILED, worlds, live>>
  PROVE  Keeps
<1>1. Starts' = Starts
  BY SameStarts
<1>2. Shapes'
  BY <1>1 DEF Shapes, ExecutionOK, CodeOK, Code, ItemOK, IsExpr, IsQuad, IsWorld, IsSeq,
              IsItem
<1>3. stack' = stack /\ quads' = quads /\ IR_GEN_FAILED' = IR_GEN_FAILED
      /\ Len(stack') = Len(stack)
  OBVIOUS
<1>4. \A i : /\ Owes(stack[i])' = Owes(stack[i]) /\ Jumps(stack[i])' = Jumps(stack[i])
            /\ Once(Owes(stack[i]))' <=> Once(Owes(stack[i]))
  <2>1. \A i : Owes(stack[i])' = Owes(stack[i])
    BY <1>3 DEF Owes
  <2>3. \A i : Jumps(stack[i])' = Jumps(stack[i])
    BY <1>3, <2>1 DEF Jumps, ListOf
  <2>4. \A i : Once(Owes(stack[i]))' <=> Once(Owes(stack[i]))
    BY <1>3, <2>1 DEF Once
  <2> QED BY <2>1, <2>3, <2>4
<1>5. Below(0)' = Below(0) /\ OpenJumps(quads)' = OpenJumps(quads)
  BY <1>3, <1>4 DEF Below, OpenJumps
<1>6. Holding => Holding'
  BY <1>3, <1>4, <1>5 DEF Holding, Waits, Code
<1> QED BY <1>2, <1>6 DEF Keeps

LEMMA BelowAll ==
  ASSUME Len(stack) = 1
  PROVE  Below(1) = {}
<1>1. 1..(Len(stack) - 1) = {}
  OBVIOUS
<1>2. \A T : T = {} => UNION {Jumps(stack[i]) : i \in T} = {}
  OBVIOUS
<1> QED BY <1>1, <1>2 DEF Below

LEMMA StatementStep ==
  ASSUME Shapes, program' = program, statement
  PROVE  Keeps
<1> DEFINE g == backpatch_tf_lists(Code(Item(1)))
<1>1. /\ ~IR_GEN_FAILED /\ Len(stack) = 1 /\ Item(1).kind \in {"expr"}
      /\ quads' = g.quads /\ stack' = <<>> /\ temp_var_counter' = 0
      /\ UNCHANGED status /\ UNCHANGED execution
  BY KindOne DEF statement, Reading, NoEffect
<1>2. Len(stack) >= 1
  BY <1>1
<1>3. CodeOK(g) /\ (Holding => Waits(g, {}))
  BY <1>1, <1>2, SettledItem, SettledOne, BelowAll
<1> HIDE DEF g
<1>4. ExecutionOK' /\ status' \in {"reading", "done"} /\ temp_var_counter' \in Nat
  BY <1>1, NothingDone DEF Shapes
<1> QED BY <1>1, <1>3, <1>4, Emptied DEF Keeps

LEMMA ReturnStep ==
  ASSUME Shapes, program' = program, return
  PROVE  Keeps
<1> DEFINE g == backpatch_tf_lists(Code(Item(1)))
           h == Emit(g, Quad("ret", None, None, Operand(g.e), 0))
           j == Jump(h, Len(h.quads) + 1)
           new == [s \in Starts |-> [worlds[s] EXCEPT !.mem["retval"] = Read(Item(1), s)]]
<1>1. /\ ~IR_GEN_FAILED /\ Len(stack) = 1 /\ Item(1).kind \in {"expr"}
      /\ quads' = j.quads /\ stack' = <<>> /\ temp_var_counter' = 0
      /\ status' = "done" /\ live' = live
  BY KindOne DEF return, Reading, Effect, next_quad
<1>2. Len(stack) >= 1
  BY <1>1
<1>3. worlds' = [s \in Starts |-> IF live[s] THEN new[s] ELSE worlds[s]]
  BY DEF return, Effect
<1>4. ASSUME NEW s \in Starts PROVE IsWorld(new[s])
  <2>1. IsWorld(worlds[s])
    BY DEF Shapes, ExecutionOK
  <2> QED BY <2>1, Worlds
<1> HIDE DEF new
<1>5. ExecutionOK'
  BY <1>1, <1>3, <1>4, Effected
<1>6. CodeOK(g) /\ (Holding => Waits(g, {}))
  BY <1>1, <1>2, SettledItem, SettledOne, BelowAll
<1> HIDE DEF g
<1>7. CodeOK(h) /\ \A held : Waits(g, held) => Waits(h, held)
  BY <1>6, Adding
<1> HIDE DEF h
<1>8. CodeOK(j) /\ \A held : Waits(h, held) => Waits(j, held)
  <2>1. Len(h.quads) + 1 \in 0..(Len(h.quads) + 3)
    BY <1>7 DEF CodeOK, IsSeq
  <2> QED BY <1>7, <2>1, JumpIs
<1> HIDE DEF j
<1>9. Holding => Waits(j, {})
  BY <1>6, <1>7, <1>8
<1>10. temp_var_counter' \in Nat
  BY <1>1
<1> QED BY <1>1, <1>5, <1>8, <1>9, <1>10, Emptied DEF Keeps

LEMMA SyntaxErrorStep ==
  ASSUME Shapes, program' = program, syntax_error
  PROVE  Keeps
<1> DEFINE g == Code(<<>>)
<1>1. /\ IR_GEN_FAILED' /\ stack' = <<>> /\ UNCHANGED <<quads, temp_var_counter, status>>
      /\ UNCHANGED execution
  BY DEF syntax_error, code
<1>2. CodeOK(g) /\ g.quads = quads /\ g.temps = temp_var_counter
  BY DEF Shapes, Code
<1>3. ExecutionOK' /\ status' \in {"reading", "done"}
  BY <1>1, NothingDone DEF Shapes
<1>4. temp_var_counter' \in Nat
  BY <1>1, <1>2 DEF CodeOK
<1> HIDE DEF g
<1> QED BY <1>1, <1>2, <1>3, <1>4, Emptied DEF Keeps

LEMMA BodyStep ==
  ASSUME Shapes, program' = program, function_body
  PROVE  Keeps
<1>1. /\ UNCHANGED <<stack, quads, temp_var_counter, IR_GEN_FAILED, worlds, live>>
      /\ status' = "done"
  BY DEF function_body, code, execution
<1> QED BY <1>1, Idle
-----------------------------------------------------------------------------
(* The inductive invariants hold *)

LEMMA Starting ==
  ASSUME Init
  PROVE  Shapes /\ Holding
<1>1. /\ stack = <<>> /\ quads = <<>> /\ temp_var_counter = 0 /\ status = "reading"
      /\ worlds = [s \in Starts |-> World(s)] /\ live = [s \in Starts |-> TRUE]
  BY DEF Init
<1>2. Len(<<>>) = 0 /\ IsSeq(<<>>) /\ 1..0 = {}
  BY NoneOf
<1>3. ExecutionOK
  <2>1. ASSUME NEW s \in Starts PROVE IsWorld(World(s))
    BY DEF IsWorld, World
  <2> HIDE DEF World
  <2> QED BY <1>1, <2>1 DEF ExecutionOK
<1>4. CodeOK(Code(<<>>)) /\ Code(<<>>).quads = <<>>
  <2> DEFINE c == Code(<<>>)
  <2>1. /\ c.quads = <<>> /\ c.temps = 0
        /\ c \in [quads : {c.quads}, temps : {c.temps}, e : {c.e}]
    BY <1>1 DEF Code
  <2> HIDE DEF c
  <2>2. CodeOK(c)
    BY <1>2, <2>1 DEF CodeOK
  <2> QED BY <2>1, <2>2 DEF c
<1>5. Shapes
  BY <1>1, <1>2, <1>3, <1>4 DEF Shapes
<1>6. Below(0) = {}
  <2>1. 1..(Len(stack) - 0) = {}
    BY <1>1, <1>2
  <2>2. \A T : T = {} => UNION {Jumps(stack[i]) : i \in T} = {}
    OBVIOUS
  <2> QED BY <2>1, <2>2 DEF Below
<1>7. Waits(Code(<<>>), {})
  BY <1>2, <1>4 DEF Waits, OpenJumps
<1>8. Holding
  BY <1>1, <1>2, <1>6, <1>7 DEF Holding
<1> QED BY <1>5, <1>8

\* Every step keeps the shapes, and the jumps unless arithmetic drops them.
LEMMA Stepping ==
  ASSUME Shapes, [Next]_vars
  PROVE  /\ Shapes' /\ program' = program
         /\ Holding /\ "pending_operand" \notin Features => Holding'
<1>1. CASE UNCHANGED vars
  <2>1. /\ UNCHANGED <<program, stack, quads, temp_var_counter, IR_GEN_FAILED, worlds, live>>
        /\ UNCHANGED status
    BY <1>1 DEF vars, code, execution
  <2>2. status' \in {"reading", "done"}
    BY <2>1 DEF Shapes
  <2> QED BY <2>1, <2>2, Idle DEF Keeps
<1>2. CASE Next
  <2>0. program' = program /\ Parse
    BY <1>2 DEF Next
  <2>1. CASE \E n \in Var \union {"func"} : lvalue_ID(n)
    BY <2>0, <2>1, LvalueStep DEF Keeps
  <2>2. CASE \E c \in Literals : constant(c)
    BY <2>0, <2>2, ConstantStep DEF Keeps
  <2>3. CASE primary
    BY <2>0, <2>3, PrimaryStep DEF Keeps
  <2>4. CASE uminus
    BY <2>0, <2>4, UminusStep
  <2>5. CASE not_expression
    BY <2>0, <2>5, NotStep DEF Keeps
  <2>6. CASE assignment
    BY <2>0, <2>6, AssignmentStep DEF Keeps
  <2>7. CASE \E op \in {"add", "sub", "mul", "div", "mod"} : arithmetic(op)
    BY <2>0, <2>7, ArithmeticStep
  <2>8. CASE \E op \in {"add", "sub"} : prefix_step(op) \/ postfix_step(op)
    BY <2>0, <2>8, PrefixStep, PostfixStep DEF Keeps
  <2>9. CASE \E op \in {"if_less", "if_lesseq", "if_greater", "if_greatereq"} : comparison(op)
    BY <2>0, <2>9, ComparisonStep DEF Keeps
  <2>10. CASE \E op \in {"if_eq", "if_noteq"} : equality(op)
    BY <2>0, <2>10, EqualityStep DEF Keeps
  <2>11. CASE and_prefix \/ or_prefix
    BY <2>0, <2>11, AndPrefixStep, OrPrefixStep DEF Keeps
  <2>12. CASE and_expression \/ or_expression
    BY <2>0, <2>12, AndStep, OrStep DEF Keeps
  <2>13. CASE argument \/ member_index
    BY <2>0, <2>13, ArgumentStep, MemberIndexStep DEF Keeps
  <2>14. CASE \E k \in Keys : member_name(k)
    BY <2>0, <2>14, MemberNameStep DEF Keeps
  <2>15. CASE \E n \in 0..MaxArgs : call(n) \/ object_list(n)
    <3>1. \A n \in 0..MaxArgs : n \in Nat
      BY BoundsAssumption
    <3> QED BY <2>0, <2>15, <3>1, CallStep, ListStep DEF Keeps
  <2>16. CASE \E n \in 0..MaxMethodArgs, k \in Keys : method_call(n, k)
    <3>1. \A n \in 0..MaxMethodArgs : n \in Nat
      BY BoundsAssumption
    <3> QED BY <2>0, <2>16, <3>1, MethodStep DEF Keeps
  <2>17. CASE \E n \in 1..MaxArgs : object_indexed(n)
    <3>1. \A n \in 1..MaxArgs : n \in Nat
      BY BoundsAssumption
    <3> QED BY <2>0, <2>17, <3>1, IndexedStep DEF Keeps
  <2>18. CASE statement \/ return
    BY <2>0, <2>18, StatementStep, ReturnStep DEF Keeps
  <2>19. CASE function_body \/ syntax_error
    BY <2>0, <2>19, BodyStep, SyntaxErrorStep DEF Keeps
  <2>20. CASE Ended
    BY <1>1, <2>20 DEF Ended
  <2> QED BY <2>0, <2>1, <2>2, <2>3, <2>4, <2>5, <2>6, <2>7, <2>8, <2>9, <2>10, <2>11,
             <2>12, <2>13, <2>14, <2>15, <2>16, <2>17, <2>18, <2>19, <2>20 DEF Parse
<1> QED BY <1>1, <1>2
-----------------------------------------------------------------------------
(* What they say *)

LEMMA ShapesType ==
  ASSUME Shapes
  PROVE  TypeOK
<1>1. DOMAIN stack = 1..Len(stack) /\ DOMAIN quads = 1..Len(quads)
  <2>1. IsSeq(stack) /\ IsSeq(quads)
    BY DEF Shapes, CodeOK, Code
  <2> QED BY <2>1, AsSeq
<1>2. ASSUME NEW i \in DOMAIN stack
      PROVE  /\ stack[i].kind \in {"lvalue", "call", "expr", "arg", "and", "or"}
             /\ Pending(stack[i]) => stack[i].kind \in {"expr", "and", "or"}
             /\ Len(stack[i].index) <= 1 /\ (IsItem(stack[i]) => stack[i].kind = "lvalue")
  <2>1. ItemOK(stack[i])
    BY <1>1 DEF Shapes
  <2> QED BY <2>1 DEF ItemOK, Pending
<1>3. \A i \in DOMAIN quads : quads[i].label \in 0..(Len(quads) + 2)
  BY <1>1 DEF Shapes, CodeOK, Code
<1>4. temp_var_counter \in Nat
  BY DEF Shapes, CodeOK, Code
<1>5. \A s \in Starts : worlds[s].args = <<>> /\ live[s] \in BOOLEAN
  BY DEF Shapes, ExecutionOK, IsWorld
<1> QED BY <1>2, <1>3, <1>4, <1>5 DEF Shapes, TypeOK

LEMMA OwesIs ==
  ASSUME NEW e, ItemOK(e)
  PROVE  DOMAIN Owes(e) = 1..Len(Owes(e))
<1>1. IsSeq(e.t_list) /\ IsSeq(e.f_list)
  BY DEF ItemOK, IsExpr
<1>2. IsSeq(Owes(e))
  BY <1>1, Joined DEF Owes
<1> QED BY <1>2, AsSeq

LEMMA HoldingOnce ==
  ASSUME Shapes, Holding
  PROVE  JumpsHeldOnce
<1> SUFFICES ASSUME ~IR_GEN_FAILED
             PROVE  /\ {JumpAt(p) : p \in Places} =
                         {i - 1 : i \in {j \in DOMAIN quads : quads[j].patch = "open"}}
                    /\ \A p, q \in Places : JumpAt(p) = JumpAt(q) => p = q
                    /\ \A i \in DOMAIN quads : quads[i].patch # "again"
  BY DEF JumpsHeldOnce
<1>1. /\ DOMAIN stack = 1..Len(stack) /\ DOMAIN quads = 1..Len(quads)
      /\ Len(stack) \in Nat
  <2>1. IsSeq(stack) /\ IsSeq(quads)
    BY DEF Shapes, CodeOK, Code
  <2> QED BY <2>1, AsSeq
<1>2. \A i \in 1..Len(stack) : DOMAIN Owes(stack[i]) = 1..Len(Owes(stack[i]))
  BY OwesIs DEF Shapes
<1>3. /\ OpenJumps(quads) = Below(0) /\ \A i \in 1..Len(quads) : quads[i].patch # "again"
      /\ \A i \in 1..Len(stack) : Once(Owes(stack[i]))
      /\ \A i, j \in 1..Len(stack) : i # j => Jumps(stack[i]) \intersect Jumps(stack[j]) = {}
  BY DEF Holding, Waits, Code
<1>4. ASSUME NEW p \in Places
      PROVE  /\ p = <<p[1], p[2]>> /\ p[1] \in 1..Len(stack)
             /\ p[2] \in 1..Len(Owes(stack[p[1]])) /\ JumpAt(p) \in Jumps(stack[p[1]])
  <2>1. PICK i \in 1..Len(stack) : p \in {<<i, j>> : j \in DOMAIN Owes(stack[i])}
    BY <1>1 DEF Places
  <2>2. PICK j \in DOMAIN Owes(stack[i]) : p = <<i, j>>
    BY <2>1
  <2>3. p[1] = i /\ p[2] = j /\ j \in 1..Len(Owes(stack[i]))
    BY <1>2, <2>1, <2>2
  <2>4. JumpAt(p) \in Jumps(stack[i])
    BY <2>3 DEF JumpAt, Jumps, ListOf
  <2> QED BY <2>2, <2>3, <2>4
<1>5. {JumpAt(p) : p \in Places} = Below(0)
  <2>1. ASSUME NEW p \in Places PROVE JumpAt(p) \in Below(0)
    <3>1. 1..(Len(stack) - 0) = 1..Len(stack)
      BY <1>1
    <3> QED BY <1>4, <3>1 DEF Below
  <2>2. ASSUME NEW n \in Below(0) PROVE n \in {JumpAt(p) : p \in Places}
    <3>1. 1..(Len(stack) - 0) = 1..Len(stack)
      BY <1>1
    <3>2. PICK i \in 1..Len(stack) : n \in Jumps(stack[i])
      BY <3>1 DEF Below
    <3>3. PICK j \in 1..Len(Owes(stack[i])) : n = Owes(stack[i])[j]
      BY <3>2 DEF Jumps, ListOf
    <3>4. <<i, j>> \in Places
      <4>1. <<i, j>> \in {<<i, k>> : k \in DOMAIN Owes(stack[i])}
        BY <1>2, <3>3
      <4> QED BY <1>1, <4>1 DEF Places
    <3>5. JumpAt(<<i, j>>) = n
      BY <3>3 DEF JumpAt
    <3> QED BY <3>4, <3>5
  <2> QED BY <2>1, <2>2
<1>6. ASSUME NEW p \in Places, NEW q \in Places, JumpAt(p) = JumpAt(q)
      PROVE  p = q
  <2>1. /\ p = <<p[1], p[2]>> /\ p[1] \in 1..Len(stack)
        /\ p[2] \in 1..Len(Owes(stack[p[1]])) /\ JumpAt(p) \in Jumps(stack[p[1]])
        /\ q = <<q[1], q[2]>> /\ q[1] \in 1..Len(stack)
        /\ q[2] \in 1..Len(Owes(stack[q[1]])) /\ JumpAt(q) \in Jumps(stack[q[1]])
    BY <1>4
  <2>2. p[1] = q[1]
    BY <1>3, <1>6, <2>1
  <2>3. Once(Owes(stack[p[1]])) /\ Owes(stack[p[1]])[p[2]] = Owes(stack[p[1]])[q[2]]
    BY <1>3, <1>6, <2>1, <2>2 DEF JumpAt
  <2>4. p[2] = q[2]
    BY <2>1, <2>2, <2>3 DEF Once
  <2> QED BY <2>1, <2>2, <2>4
<1> QED BY <1>1, <1>3, <1>5, <1>6 DEF OpenJumps

\* The stack, the quads, the temporaries and direct execution keep their types,
\* whatever the programs, their literals and the bounds are.
THEOREM TypeCorrect == Spec => []TypeOK
<1>1. Init => Shapes
  BY Starting
<1>2. Shapes /\ [Next]_vars => Shapes'
  BY Stepping
<1>3. Shapes => TypeOK
  BY ShapesType
<1> QED BY <1>1, <1>2, <1>3, PTL DEF Spec

\* As long as no program applies arithmetic to an and or or, every jump that
\* waits for its label is in one list on the stack, once, and none is patched
\* twice, whatever the operators and operands of the expressions.
THEOREM JumpsHeld ==
  ASSUME Careful
  PROVE  Spec => []JumpsHeldOnce
<1> DEFINE Inv == Shapes /\ Holding /\ program \in Programs
<1>1. Init => Inv
  BY Starting DEF Init
<1>2. Inv /\ [Next]_vars => Inv'
  <2> SUFFICES ASSUME Inv, [Next]_vars PROVE Inv'
    OBVIOUS
  <2>1. "pending_operand" \notin Features
    BY DEF Careful, Features
  <2> QED BY <2>1, Stepping
<1>3. Inv => JumpsHeldOnce
  BY HoldingOnce
<1> HIDE DEF Inv
<1> QED BY <1>1, <1>2, <1>3, PTL DEF Spec
=============================================================================
