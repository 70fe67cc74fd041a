-------------------------- MODULE TemporariesProofs --------------------------
(* For every program of the IR stage, whatever its names and however its      *)
(* functions and expressions nest: what an expression holds in a temporary is  *)
(* kept while the rest of it is read, no operand belongs to a function around, *)
(* and the variables of each function fill the places of its own space.        *)
EXTENDS Temporaries, FiniteSetTheorems, SequenceTheorems,
        WellFoundedInduction, TLAPS

-----------------------------------------------------------------------------
(* The least and the greatest of a set of numbers: what a walk along a list   *)
(* stops at, and what the definitions of the lookups in Symbols choose.       *)

\* A set of numbers has a least element, which Min chooses.
LEMMA MinIsFirst ==
  ASSUME NEW S, S \subseteq Nat, S # {}
  PROVE  Min(S) \in S /\ \A y \in S : Min(S) <= y
<1>1. \E x \in S : \A y \in S : ~(<<y, x>> \in OpToRel(<, Nat))
  BY NatLessThanWellFounded, WFMin
<1>2. PICK x \in S : \A y \in S : ~(<<y, x>> \in OpToRel(<, Nat))
  BY <1>1
<1>3. ASSUME NEW y \in S PROVE x <= y
  <2>1. x \in Nat /\ y \in Nat /\ <<y, x>> \in Nat \X Nat
    OBVIOUS
  <2>2. ~(y < x)
    BY <1>2, <2>1 DEF OpToRel
  <2> QED BY <2>1, <2>2
<1> QED BY <1>3 DEF Min

\* A bounded set of numbers has a greatest element, which Max chooses.
LEMMA MaxIsLast ==
  ASSUME NEW n \in Nat, NEW S, S \subseteq 0..n, S # {}
  PROVE  Max(S) \in S /\ \A y \in S : Max(S) >= y
<1> DEFINE T == {n - y : y \in S}
<1>1. T \subseteq Nat /\ T # {}
  OBVIOUS
<1>2. Min(T) \in T /\ \A z \in T : Min(T) <= z
  BY <1>1, MinIsFirst
<1>3. PICK x \in S : Min(T) = n - x
  BY <1>2
<1>4. ASSUME NEW y \in S PROVE x >= y
  <2>1. n - y \in T /\ x \in Nat /\ y \in Nat
    OBVIOUS
  <2>2. n - x <= n - y
    BY <1>2, <1>3, <2>1
  <2> HIDE DEF T
  <2> QED BY <2>1, <2>2
<1> QED BY <1>4 DEF Max

\* The member of a set of numbers that exceeds no other is its minimum.
LEMMA MinIs ==
  ASSUME NEW S, S \subseteq Nat, NEW x \in S, \A y \in S : x <= y
  PROVE  Min(S) = x
<1>1. Min(S) \in S /\ Min(S) <= x
  BY MinIsFirst
<1>2. x <= Min(S) /\ x \in Nat /\ Min(S) \in Nat
  BY <1>1
<1> QED BY <1>1, <1>2

\* The member of a set of numbers that no other exceeds is its maximum.
LEMMA MaxIs ==
  ASSUME NEW S, S \subseteq Nat, NEW x \in S, \A y \in S : x >= y
  PROVE  Max(S) = x
<1>1. x \in Nat /\ S \subseteq 0..x
  OBVIOUS
<1>2. Max(S) \in S /\ Max(S) >= x
  BY <1>1, MaxIsLast
<1>3. x >= Max(S) /\ Max(S) \in Nat
  BY <1>2
<1> QED BY <1>1, <1>2, <1>3
-----------------------------------------------------------------------------
(* The inductive invariant, of the entries es, the frames cx and the rest. *)

Calls == {"header", "body"}
OperandType == [kind : {"lvalue", "value"}, sym : Nat, computed : BOOLEAN,
                lost : BOOLEAN, spoiled : BOOLEAN]
FrameType == [kind : {"program", "block", "header", "body"}, fn : Nat,
              operands : Seq(OperandType), ended : BOOLEAN]
Innermost(cx) == cx[Len(cx)]

\* The frame at position i begins at scope i - 1.  The function it is in is the
\* one of the frame around, or a younger one of that frame's scope that is open,
\* and everything put since is further in.  Only such functions are open.
Framed(es, cx) ==
  /\ cx \in Seq(FrameType) /\ Len(cx) >= 1
  /\ cx[1].kind = "program" /\ cx[1].fn = 0
  /\ \A i \in 1..Len(cx) : cx[i].fn \in 0..Len(es)
  /\ \A i \in 2..Len(cx) : cx[i].kind # "program"
  /\ \A i \in 1..Len(cx) : cx[i].kind = "header" => i = Len(cx) /\ cx[i].operands = <<>>
  /\ \A i \in 2..Len(cx) : cx[i].kind = "block" => cx[i].fn = cx[i - 1].fn
  /\ \A i \in 2..Len(cx) : cx[i].kind \in Calls =>
       /\ cx[i].fn \in DOMAIN es
       /\ es[cx[i].fn].type = "USERFUNC" /\ es[cx[i].fn].in = cx[i - 1].fn
       /\ es[cx[i].fn].scope = i - 2
       /\ es[cx[i].fn].isActive /\ es[cx[i].fn].func_is_open
       /\ \A k \in DOMAIN es : k > cx[i].fn => es[k].scope >= i - 1
  /\ \A k \in DOMAIN es : es[k].func_is_open =>
       \E i \in 2..Len(cx) : cx[i].kind \in Calls /\ cx[i].fn = k

\* What is active belongs to the function of the frame at its scope, and what
\* is further in is younger.
Scoped(es, cx, s) ==
  /\ s = Len(cx) - IF Innermost(cx).kind = "header" THEN 2 ELSE 1
  /\ \A k \in DOMAIN es : es[k].in \in 0..(k - 1)
  /\ \A k \in DOMAIN es : es[k].isActive =>
       es[k].scope <= s /\ cx[es[k].scope + 1].fn = es[k].in
  /\ \A j, k \in DOMAIN es :
       j < k /\ es[j].isActive /\ es[k].isActive => es[j].scope <= es[k].scope

\* Since something was computed in frame i, a statement has ended in a frame
\* inside of it, or will have before that frame is left.
Overtaken(cx, i) ==
  \E j \in (i + 1)..Len(cx) : cx[j].ended \/ cx[j].operands # <<>>

\* The operand o of frame i, where t temporaries have been used.
OperandKept(o, es, cx, i, t, failed) ==
  /\ o.sym = 0 => failed /\ o = Dummy
  /\ o.sym # 0 => o.sym \in DOMAIN es
  /\ o.kind = "lvalue" => /\ o.sym # 0 /\ ~o.computed
                          /\ es[o.sym].name \in Var \union Fun
  /\ o.kind = "value" /\ o.sym # 0 /\ es[o.sym].type # "USERFUNC"
       => es[o.sym].in = cx[i].fn \/ es[o.sym].scope = 0
  /\ o.computed => /\ o.sym # 0 /\ es[o.sym].scope = i - 1
                   /\ ~o.spoiled => \E c \in 1..Len(TempNames) :
                        es[o.sym].name = TempNames[c] /\ (c <= t \/ Overtaken(cx, i))
  /\ o.lost => o.spoiled

Held(es, cx, t, failed) ==
  \A i \in 1..Len(cx) : \A j \in 1..Len(cx[i].operands) :
    OperandKept(cx[i].operands[j], es, cx, i, t, failed)

\* An lvalue that was read last is still what its name means, or global; no
\* statement has ended among parameters.
ReadLast ==
  /\ operands # <<>> /\ Nth(0).kind = "lvalue" =>
       Looked(Nth(0).sym) = Nth(0).sym \/ entries[Nth(0).sym].scope = 0
  /\ Top.kind = "header" => ~Top.ended

\* The frames of K among the first n.
Count(cx, K, n) == Cardinality({i \in 1..n : cx[i].kind \in K})

\* The space of the variables of function f
SpaceOf(f) == IF f = 0 THEN "program_variable" ELSE "function_local"

\* The places taken by the variables of function f
PlacesOf(es, f) == {k \in DOMAIN es : es[k].in = f /\ es[k].space # "unset"}
Filled(es, f) ==
  /\ {es[k].offset : k \in PlacesOf(es, f)} = 0..(Cardinality(PlacesOf(es, f)) - 1)
  /\ \A k \in PlacesOf(es, f) :
       es[k].space = SpaceOf(f)

\* The counter and the saved places say how the functions being read are nested.
Counted(cx, counter, saved) ==
  /\ counter = 1 + 2 * Count(cx, {"body"}, Len(cx))
                 + IF Innermost(cx).kind = "header" THEN 1 ELSE 0
  /\ saved \in Seq(Nat) /\ Len(saved) = Count(cx, Calls, Len(cx))
  /\ \A i \in 1..Len(cx) : (cx[i].fn = 0) <=> (Count(cx, Calls, i) = 0)

\* The next place of the function that is being read, and the saved ones of
\* those around.
Placed(es, cx, off, saved) ==
  /\ off \in [{"program_variable", "function_local", "formal_argument"} -> Nat]
  /\ \A i \in 2..Len(cx) : cx[i].kind \in Calls =>
       saved[Count(cx, Calls, i)] = Cardinality(PlacesOf(es, cx[i - 1].fn))
  /\ Innermost(cx).kind = "header" => PlacesOf(es, Innermost(cx).fn) = {}
  /\ Innermost(cx).kind # "header" =>
       off[SpaceOf(Innermost(cx).fn)] = Cardinality(PlacesOf(es, Innermost(cx).fn))

AllFilled(es) ==
  /\ \A k \in DOMAIN es : es[k].type = "USERFUNC" => es[k].space = "unset"
  /\ \A f \in {0} \union {k \in DOMAIN es : es[k].type = "USERFUNC"} : Filled(es, f)

Inv ==
  /\ entries \in Seq(Symbol) /\ temp_var_counter \in 0..Len(TempNames)
  /\ IR_GEN_FAILED \in BOOLEAN
  /\ Framed(entries, ctx) /\ Scoped(entries, ctx, current_scope)
  /\ Held(entries, ctx, temp_var_counter, IR_GEN_FAILED)
  /\ ReadLast
  /\ Counted(ctx, scope_space_counter, function_offset_stack)
  /\ Placed(entries, ctx, offset, function_offset_stack) /\ AllFilled(entries)

-----------------------------------------------------------------------------
(* Frames and entries, as the actions change them. *)

\* The same constructs are being read; a header may have become a body.
SameShape(cx, dx) ==
  /\ dx \in Seq(FrameType) /\ Len(dx) = Len(cx)
  /\ \A i \in 1..Len(cx) :
       /\ dx[i].fn = cx[i].fn
       /\ dx[i].kind = cx[i].kind \/ (cx[i].kind = "header" /\ dx[i].kind = "body")
       /\ cx[i].kind = "header" => dx[i].operands = <<>>

\* ns are the entries es and others, put at scope s in function f.
Puts(es, ns, s, f) ==
  /\ ns \in Seq(Symbol) /\ Len(ns) >= Len(es)
  /\ \A k \in 1..Len(es) : ns[k] = es[k]
  /\ \A k \in (Len(es) + 1)..Len(ns) :
       ns[k].scope = s /\ ns[k].in = f /\ ns[k].isActive

\* The entries es have become ns, and none has changed its name, its function
\* or its scope.
Same(es, ns) ==
  /\ ns \in Seq(Symbol) /\ Len(ns) = Len(es)
  /\ \A k \in 1..Len(es) :
       /\ ns[k].name = es[k].name /\ ns[k].type = es[k].type
       /\ ns[k].scope = es[k].scope /\ ns[k].in = es[k].in /\ ns[k].space = es[k].space

\* Entries and frames are sequences.
LEMMA Sequences ==
  ASSUME NEW es \in Seq(Symbol), NEW cx \in Seq(FrameType)
  PROVE  /\ Len(es) \in Nat /\ DOMAIN es = 1..Len(es) /\ Len(cx) \in Nat
         /\ DOMAIN cx = 1..Len(cx)
         /\ \A k \in 1..Len(es) : es[k] \in Symbol
         /\ \A i \in 1..Len(cx) : cx[i] \in FrameType
BY ElementOfSeq, LenProperties

\* What is left without the last.
LEMMA FrontIs ==
  ASSUME NEW T, NEW s \in Seq(T), Len(s) >= 1
  PROVE  /\ Front(s) \in Seq(T) /\ Len(Front(s)) = Len(s) - 1
         /\ \A i \in 1..(Len(s) - 1) : Front(s)[i] = s[i]
         /\ Last(s) = s[Len(s)] /\ Last(s) \in T
<1>1. Len(s) \in Nat /\ Len(s) \in 1..Len(s) /\ Len(s) - 1 \in 0..Len(s)
  BY LenProperties
<1>2. /\ SubSeq(s, 1, Len(s) - 1) \in Seq(T)
      /\ Len(SubSeq(s, 1, Len(s) - 1)) = Len(s) - 1
      /\ \A i \in 1..(Len(s) - 1) : SubSeq(s, 1, Len(s) - 1)[i] = s[i]
  <2> DEFINE m == Len(s) - 1
  <2>1. m \in Nat /\ m + 1 = Len(s) /\ \A i \in 1..m : i \in 1..Len(s)
    BY <1>1
  <2> HIDE DEF m
  <2>2. /\ SubSeq(s, 1, m) \in Seq(T) /\ Len(SubSeq(s, 1, m)) = m
        /\ \A i \in 1..m : SubSeq(s, 1, m)[i] = s[i]
    BY <2>1
  <2> QED BY <2>2 DEF m
<1>3. s[Len(s)] \in T
  BY <1>1, ElementOfSeq
<1> QED BY <1>2, <1>3 DEF Front, Last

\* What the fields of an entry are.
LEMMA Fields ==
  ASSUME NEW es \in Seq(Symbol), NEW k \in 1..Len(es)
  PROVE  /\ es[k].name \in STRING /\ es[k].scope \in Nat /\ es[k].in \in Nat
         /\ es[k].offset \in Nat /\ es[k].isActive \in BOOLEAN
         /\ es[k].func_is_open \in BOOLEAN
<1>1. es[k] \in Symbol
  BY ElementOfSeq
<1> QED BY <1>1 DEF Symbol

\* The operands of the innermost frame are replaced.
LEMMA HoldingIs ==
  ASSUME NEW cx \in Seq(FrameType), Len(cx) >= 1, NEW q \in Seq(OperandType)
  PROVE  LET dx == Holding(cx, q)
         IN  /\ dx \in Seq(FrameType) /\ Len(dx) = Len(cx)
             /\ \A i \in 1..Len(cx) :
                  /\ dx[i].kind = cx[i].kind /\ dx[i].fn = cx[i].fn
                  /\ dx[i].ended = cx[i].ended
                  /\ dx[i].operands = IF i = Len(cx) THEN q ELSE cx[i].operands
<1> DEFINE n == Len(cx)
           g == [cx[n] EXCEPT !.operands = q]
           dx == [cx EXCEPT ![n] = g]
<1>1. n \in 1..n /\ cx[n] \in FrameType /\ n \in Nat
  BY Sequences, ElementOfSeq, LenProperties
<1>2. /\ g \in FrameType /\ g.kind = cx[n].kind /\ g.fn = cx[n].fn
      /\ g.ended = cx[n].ended /\ g.operands = q
  BY <1>1 DEF FrameType
<1> HIDE DEF g, n
<1>3. /\ dx \in Seq(FrameType) /\ Len(dx) = Len(cx)
      /\ \A i \in 1..Len(cx) : dx[i] = IF i = n THEN g ELSE cx[i]
  BY <1>1, <1>2, ExceptSeq DEF n
<1>4. Holding(cx, q) = dx
  BY DEF Holding, g, n
<1> HIDE DEF dx
<1>5. ASSUME NEW i \in 1..Len(cx)
      PROVE  /\ dx[i].kind = cx[i].kind /\ dx[i].fn = cx[i].fn
             /\ dx[i].ended = cx[i].ended
             /\ dx[i].operands = IF i = Len(cx) THEN q ELSE cx[i].operands
  <2>1. CASE i = n
    BY <1>2, <1>3, <2>1 DEF n
  <2>2. CASE i # n
    BY <1>3, <2>2 DEF n
  <2> QED BY <2>1, <2>2
<1> QED BY <1>3, <1>4, <1>5

\* What is put where the frames are, and opens no function, leaves them framed.
LEMMA FramedPut ==
  ASSUME NEW es \in Seq(Symbol), NEW cx, Framed(es, cx),
         NEW dx, SameShape(cx, dx),
         NEW ns, NEW s \in Nat, s >= Len(cx) - 1, NEW f, Puts(es, ns, s, f),
         \A k \in (Len(es) + 1)..Len(ns) : ~ns[k].func_is_open
  PROVE  Framed(ns, dx)
<1>1. /\ cx \in Seq(FrameType) /\ Len(cx) >= 1 /\ cx[1].kind = "program" /\ cx[1].fn = 0
      /\ \A i \in 1..Len(cx) : cx[i].fn \in 0..Len(es)
      /\ \A i \in 2..Len(cx) : cx[i].kind # "program"
      /\ \A i \in 1..Len(cx) : cx[i].kind = "header" => i = Len(cx) /\ cx[i].operands = <<>>
      /\ \A i \in 2..Len(cx) : cx[i].kind = "block" => cx[i].fn = cx[i - 1].fn
  BY DEF Framed
<1>2. dx \in Seq(FrameType) /\ Len(dx) = Len(cx) /\ Len(cx) \in Nat
  BY <1>1, Sequences DEF SameShape
<1>a. \A i \in 1..Len(cx) : dx[i].fn = cx[i].fn
  BY DEF SameShape
<1>b. ASSUME NEW i \in 1..Len(cx)
      PROVE  /\ dx[i].kind \in Calls <=> cx[i].kind \in Calls
             /\ dx[i].kind = "block" => cx[i].kind = "block"
             /\ dx[i].kind = "program" <=> cx[i].kind = "program"
             /\ dx[i].kind = "header" => cx[i].kind = "header" /\ dx[i].operands = <<>>
  BY <1>b DEF SameShape, Calls
<1>3. /\ ns \in Seq(Symbol) /\ Len(ns) >= Len(es) /\ Len(es) \in Nat /\ Len(ns) \in Nat
      /\ DOMAIN es = 1..Len(es) /\ DOMAIN ns = 1..Len(ns)
      /\ \A k \in 1..Len(es) : ns[k] = es[k]
      /\ \A k \in (Len(es) + 1)..Len(ns) : ns[k].scope = s
  BY Sequences, LenProperties DEF Puts
<1>4. ASSUME NEW i \in 2..Len(cx), cx[i].kind \in Calls
      PROVE  /\ cx[i].fn \in DOMAIN ns
             /\ ns[cx[i].fn].type = "USERFUNC" /\ ns[cx[i].fn].in = cx[i - 1].fn
             /\ ns[cx[i].fn].scope = i - 2
             /\ ns[cx[i].fn].isActive /\ ns[cx[i].fn].func_is_open
             /\ \A k \in DOMAIN ns : k > cx[i].fn => ns[k].scope >= i - 1
  <2>1. /\ cx[i].fn \in DOMAIN es
        /\ es[cx[i].fn].type = "USERFUNC" /\ es[cx[i].fn].in = cx[i - 1].fn
        /\ es[cx[i].fn].scope = i - 2
        /\ es[cx[i].fn].isActive /\ es[cx[i].fn].func_is_open
        /\ \A k \in DOMAIN es : k > cx[i].fn => es[k].scope >= i - 1
    BY <1>4 DEF Framed
  <2>2. ASSUME NEW k \in DOMAIN ns, k > cx[i].fn PROVE ns[k].scope >= i - 1
    <3>1. CASE k \in DOMAIN es
      BY <1>3, <2>1, <2>2, <3>1
    <3>2. CASE k \notin DOMAIN es
      <4>1. ns[k].scope = s
        BY <1>3, <3>2
      <4> QED BY <1>2, <4>1
    <3> QED BY <3>1, <3>2
  <2>3. cx[i].fn \in DOMAIN ns /\ ns[cx[i].fn] = es[cx[i].fn]
    BY <1>3, <2>1
  <2> QED BY <2>1, <2>2, <2>3
<1>5. ASSUME NEW k \in DOMAIN ns, ns[k].func_is_open
      PROVE  \E i \in 2..Len(cx) : cx[i].kind \in Calls /\ cx[i].fn = k
  <2>1. k \in DOMAIN es /\ ns[k] = es[k]
    BY <1>3, <1>5
  <2> QED BY <1>5, <2>1 DEF Framed
<1>6. \A i \in 2..Len(cx) : i \in 1..Len(cx) /\ i - 1 \in 1..Len(cx)
  BY <1>2
<1>7. 1 \in 1..Len(cx)
  BY <1>1, <1>2
<1>8. ASSUME NEW i \in 2..Len(dx), dx[i].kind \in Calls
      PROVE  /\ dx[i].fn \in DOMAIN ns
             /\ ns[dx[i].fn].type = "USERFUNC" /\ ns[dx[i].fn].in = dx[i - 1].fn
             /\ ns[dx[i].fn].scope = i - 2
             /\ ns[dx[i].fn].isActive /\ ns[dx[i].fn].func_is_open
             /\ \A k \in DOMAIN ns : k > dx[i].fn => ns[k].scope >= i - 1
  <2>1. i \in 2..Len(cx) /\ i \in 1..Len(cx) /\ i - 1 \in 1..Len(cx)
    BY <1>2, <1>6
  <2>2. dx[i].fn = cx[i].fn /\ dx[i - 1].fn = cx[i - 1].fn /\ cx[i].kind \in Calls
    BY <1>8, <1>a, <1>b, <2>1
  <2> QED BY <1>4, <2>1, <2>2
<1>9. ASSUME NEW k \in DOMAIN ns, ns[k].func_is_open
      PROVE  \E i \in 2..Len(dx) : dx[i].kind \in Calls /\ dx[i].fn = k
  <2>1. PICK i \in 2..Len(cx) : cx[i].kind \in Calls /\ cx[i].fn = k
    BY <1>5, <1>9
  <2>2. i \in 2..Len(dx) /\ i \in 1..Len(cx)
    BY <1>2, <1>6
  <2>3. dx[i].fn = k /\ dx[i].kind \in Calls
    BY <1>a, <1>b, <2>1, <2>2
  <2> QED BY <2>2, <2>3
<1>10. /\ \A i \in 1..Len(dx) : dx[i].fn \in 0..Len(ns)
       /\ \A i \in 1..Len(dx) : dx[i].kind = "header" => i = Len(dx) /\ dx[i].operands = <<>>
  <2> SUFFICES ASSUME NEW i \in 1..Len(cx)
               PROVE  /\ dx[i].fn \in 0..Len(ns)
                      /\ dx[i].kind = "header" => i = Len(dx) /\ dx[i].operands = <<>>
    BY <1>2
  <2>1. dx[i].fn = cx[i].fn /\ cx[i].fn \in 0..Len(es)
    BY <1>1, <1>a
  <2>2. dx[i].fn \in 0..Len(ns)
    BY <1>3, <2>1
  <2> QED BY <1>1, <1>2, <1>b, <2>2
<1>11. /\ \A i \in 2..Len(dx) : dx[i].kind # "program"
       /\ \A i \in 2..Len(dx) : dx[i].kind = "block" => dx[i].fn = dx[i - 1].fn
  <2> SUFFICES ASSUME NEW i \in 2..Len(cx)
               PROVE  /\ dx[i].kind # "program"
                      /\ dx[i].kind = "block" => dx[i].fn = dx[i - 1].fn
    BY <1>2
  <2> QED BY <1>1, <1>6, <1>a, <1>b
<1>12. /\ dx \in Seq(FrameType) /\ Len(dx) >= 1
       /\ dx[1].kind = "program" /\ dx[1].fn = 0
  BY <1>1, <1>2, <1>7, <1>a, <1>b
<1> QED BY Zenon, <1>8, <1>9, <1>10, <1>11, <1>12 DEF Framed

\* What is put in the innermost block or body is active there.
LEMMA ScopedPut ==
  ASSUME NEW es \in Seq(Symbol), NEW cx, Framed(es, cx), NEW s, Scoped(es, cx, s),
         NEW dx, SameShape(cx, dx), Innermost(dx).kind # "header",
         NEW t, t = Len(dx) - 1, NEW ns, Puts(es, ns, t, Innermost(cx).fn)
  PROVE  Scoped(ns, dx, t)
<1>1. /\ cx \in Seq(FrameType) /\ Len(cx) >= 1 /\ Len(cx) \in Nat /\ s <= Len(cx) - 1
      /\ s \in Int
      /\ \A k \in DOMAIN es : es[k].in \in 0..(k - 1)
      /\ \A k \in DOMAIN es : es[k].isActive =>
           es[k].scope <= s /\ cx[es[k].scope + 1].fn = es[k].in
      /\ \A j, k \in DOMAIN es :
           j < k /\ es[j].isActive /\ es[k].isActive => es[j].scope <= es[k].scope
  BY Sequences DEF Framed, Scoped
<1>2. Len(dx) = Len(cx) /\ \A i \in 1..Len(cx) : dx[i].fn = cx[i].fn
  BY <1>1, Sequences DEF SameShape
<1>3. /\ ns \in Seq(Symbol) /\ Len(ns) >= Len(es) /\ Len(es) \in Nat /\ Len(ns) \in Nat
      /\ DOMAIN es = 1..Len(es) /\ DOMAIN ns = 1..Len(ns)
      /\ \A k \in 1..Len(es) : ns[k] = es[k]
      /\ \A k \in (Len(es) + 1)..Len(ns) :
           ns[k].scope = t /\ ns[k].in = cx[Len(cx)].fn /\ ns[k].isActive
  BY Sequences, LenProperties DEF Puts, Innermost
<1>4. \A k \in 1..Len(es) : es[k].scope \in Nat
  BY Fields
<1>5. Len(cx) \in 1..Len(cx) /\ t + 1 = Len(cx) /\ s <= t
  BY <1>1, <1>2
<1>6. cx[Len(cx)].fn \in 0..Len(es)
  BY <1>5 DEF Framed
<1>7. ASSUME NEW k \in DOMAIN ns PROVE ns[k].in \in 0..(k - 1)
  <2>1. CASE k \in DOMAIN es
    BY <1>1, <1>3, <2>1
  <2>2. CASE k \notin DOMAIN es
    <3>1. ns[k].in \in 0..Len(es) /\ k > Len(es)
      BY <1>3, <1>6, <2>2
    <3> QED BY <1>3, <3>1
  <2> QED BY <2>1, <2>2
<1>8. ASSUME NEW k \in DOMAIN ns, ns[k].isActive
      PROVE  ns[k].scope <= t /\ dx[ns[k].scope + 1].fn = ns[k].in
  <2>1. CASE k \in DOMAIN es
    <3>1. es[k].scope \in 0..s /\ cx[es[k].scope + 1].fn = es[k].in /\ ns[k] = es[k]
      BY <1>1, <1>3, <1>4, <1>8, <2>1
    <3>2. es[k].scope + 1 \in 1..Len(cx) /\ es[k].scope <= t
      BY <1>1, <1>5, <3>1
    <3> QED BY <1>2, <3>1, <3>2
  <2>2. CASE k \notin DOMAIN es
    <3>1. ns[k].scope = t /\ ns[k].in = cx[Len(cx)].fn
      BY <1>3, <2>2
    <3> QED BY <1>1, <1>2, <1>5, <3>1
  <2> QED BY <2>1, <2>2
<1>9. ASSUME NEW j \in DOMAIN ns, NEW k \in DOMAIN ns, j < k, ns[j].isActive, ns[k].isActive
      PROVE  ns[j].scope <= ns[k].scope
  <2>1. CASE k \in DOMAIN es
    <3>1. j \in DOMAIN es /\ ns[j] = es[j] /\ ns[k] = es[k]
      BY <1>3, <1>9, <2>1
    <3> QED BY <1>1, <1>9, <2>1, <3>1
  <2>2. CASE k \notin DOMAIN es
    <3>1. ns[k].scope = t
      BY <1>3, <2>2
    <3> QED BY <1>8, <1>9, <3>1
  <2> QED BY <2>1, <2>2
<1> QED BY <1>7, <1>8, <1>9 DEF Scoped

\* The frame fr begins in the innermost one of cx: a block, or a function that
\* the last of the entries ns is.
Begins(es, ns, cx, fr) ==
  /\ fr.operands = <<>>
  /\ \/ fr.kind = "block" /\ fr.fn = Innermost(cx).fn /\ Len(ns) = Len(es)
     \/ /\ fr.kind = "header" /\ fr.fn = Len(ns) /\ Len(ns) = Len(es) + 1
        /\ ns[Len(ns)].type = "USERFUNC" /\ ns[Len(ns)].func_is_open

\* A block begins, or a function, with its entry.
LEMMA FramedPush ==
  ASSUME NEW es \in Seq(Symbol), NEW cx, Framed(es, cx), Innermost(cx).kind # "header",
         NEW ns, Puts(es, ns, Len(cx) - 1, Innermost(cx).fn),
         NEW fr \in FrameType, Begins(es, ns, cx, fr)
  PROVE  Framed(ns, Append(cx, fr))
<1> DEFINE dx == Append(cx, fr)
           n == Len(cx)
<1>1. /\ cx \in Seq(FrameType) /\ n \in Nat /\ n >= 1 /\ cx[1].kind = "program" /\ cx[1].fn = 0
      /\ \A i \in 1..n : cx[i].fn \in 0..Len(es)
      /\ \A i \in 2..n : cx[i].kind # "program"
      /\ \A i \in 1..n : cx[i].kind = "header" => i = n /\ cx[i].operands = <<>>
      /\ \A i \in 2..n : cx[i].kind = "block" => cx[i].fn = cx[i - 1].fn
  BY Sequences DEF Framed
<1>2. dx \in Seq(FrameType) /\ Len(dx) = n + 1 /\ dx[n + 1] = fr /\ \A i \in 1..n : dx[i] = cx[i]
  BY <1>1, AppendProperties
<1>3. /\ ns \in Seq(Symbol) /\ Len(ns) >= Len(es) /\ Len(es) \in Nat /\ Len(ns) \in Nat
      /\ DOMAIN es = 1..Len(es) /\ DOMAIN ns = 1..Len(ns)
      /\ \A k \in 1..Len(es) : ns[k] = es[k]
      /\ \A k \in (Len(es) + 1)..Len(ns) :
           ns[k].scope = n - 1 /\ ns[k].in = cx[n].fn /\ ns[k].isActive
  BY Sequences, LenProperties DEF Puts, Innermost
<1>4. cx[n].kind # "header" /\ 1 \in 1..n /\ n \in 1..n
  BY <1>1 DEF Innermost
<1>5. \/ fr.kind = "block" /\ fr.fn = cx[n].fn /\ Len(ns) = Len(es)
      \/ /\ fr.kind = "header" /\ fr.fn = Len(ns) /\ Len(ns) = Len(es) + 1
         /\ ns[Len(ns)].type = "USERFUNC" /\ ns[Len(ns)].func_is_open
  BY DEF Begins, Innermost
<1> HIDE DEF dx, n
<1>6. ASSUME NEW i \in 2..Len(dx), dx[i].kind \in Calls
      PROVE  /\ dx[i].fn \in DOMAIN ns
             /\ ns[dx[i].fn].type = "USERFUNC" /\ ns[dx[i].fn].in = dx[i - 1].fn
             /\ ns[dx[i].fn].scope = i - 2
             /\ ns[dx[i].fn].isActive /\ ns[dx[i].fn].func_is_open
             /\ \A k \in DOMAIN ns : k > dx[i].fn => ns[k].scope >= i - 1
  <2>1. CASE i \in 2..n
    <3>1. i \in 1..n /\ i - 1 \in 1..n
      BY <1>1, <2>1
    <3>2. dx[i] = cx[i] /\ dx[i - 1] = cx[i - 1]
      BY <1>2, <3>1
    <3>3. /\ cx[i].fn \in DOMAIN es
          /\ es[cx[i].fn].type = "USERFUNC" /\ es[cx[i].fn].in = cx[i - 1].fn
          /\ es[cx[i].fn].scope = i - 2
          /\ es[cx[i].fn].isActive /\ es[cx[i].fn].func_is_open
          /\ \A k \in DOMAIN es : k > cx[i].fn => es[k].scope >= i - 1
      BY <1>6, <2>1, <3>2 DEF Framed, n
    <3>4. ASSUME NEW k \in DOMAIN ns, k > cx[i].fn PROVE ns[k].scope >= i - 1
      <4>1. CASE k \in DOMAIN es
        BY <1>3, <3>3, <3>4, <4>1
      <4>2. CASE k \notin DOMAIN es
        <5>1. ns[k].scope = n - 1
          BY <1>3, <4>2
        <5> QED BY <1>1, <3>1, <5>1
      <4> QED BY <4>1, <4>2
    <3>5. cx[i].fn \in DOMAIN ns /\ ns[cx[i].fn] = es[cx[i].fn]
      BY <1>3, <3>3
    <3> QED BY <3>2, <3>3, <3>4, <3>5
  <2>2. CASE i \notin 2..n
    <3>1. i = n + 1 /\ i - 1 = n
      BY <1>1, <1>2, <2>2
    <3>2. dx[i] = fr /\ dx[i - 1] = cx[n]
      BY <1>2, <1>4, <3>1
    <3>3. /\ fr.fn = Len(ns) /\ Len(ns) = Len(es) + 1
          /\ ns[Len(ns)].type = "USERFUNC" /\ ns[Len(ns)].func_is_open
      BY <1>5, <1>6, <3>2 DEF Calls
    <3>4. Len(ns) \in (Len(es) + 1)..Len(ns) /\ Len(ns) \in 1..Len(ns)
      BY <1>3, <3>3
    <3>5. ns[Len(ns)].scope = n - 1 /\ ns[Len(ns)].in = cx[n].fn /\ ns[Len(ns)].isActive
      BY <1>3, <3>4
    <3>6. \A k \in DOMAIN ns : ~(k > fr.fn)
      BY <1>3, <3>3
    <3> QED BY <1>1, <1>3, <3>1, <3>2, <3>3, <3>4, <3>5, <3>6
  <2> QED BY <2>1, <2>2
<1>7. ASSUME NEW k \in DOMAIN ns, ns[k].func_is_open
      PROVE  \E i \in 2..Len(dx) : dx[i].kind \in Calls /\ dx[i].fn = k
  <2>1. CASE k \in DOMAIN es
    <3>1. PICK i \in 2..n : cx[i].kind \in Calls /\ cx[i].fn = k
      BY <1>3, <1>7, <2>1 DEF Framed, n
    <3>2. i \in 2..Len(dx) /\ dx[i] = cx[i]
      BY <1>1, <1>2
    <3> QED BY <3>1, <3>2
  <2>2. CASE k \notin DOMAIN es
    <3>a. Len(ns) # Len(es)
      BY <1>3, <2>2
    <3>b. fr.kind = "header" /\ fr.fn = Len(ns) /\ Len(ns) = Len(es) + 1
      BY Zenon, <1>5, <3>a
    <3>c. k = Len(ns)
      BY <1>3, <2>2, <3>b
    <3>1. k = Len(ns) /\ fr.kind = "header" /\ fr.fn = k
      BY <3>b, <3>c
    <3>2. n + 1 \in 2..Len(dx) /\ dx[n + 1] = fr
      BY <1>1, <1>2
    <3> QED BY <3>1, <3>2 DEF Calls
  <2> QED BY <2>1, <2>2
<1>8. fr.fn \in 0..Len(ns) /\ fr.kind # "program" /\ (fr.kind = "block" => fr.fn = cx[n].fn)
  <2>1. CASE fr.kind = "block" /\ fr.fn = cx[n].fn /\ Len(ns) = Len(es)
    <3>1. fr.fn \in 0..Len(es)
      BY <1>1, <1>4, <2>1
    <3> QED BY <2>1, <3>1
  <2>2. CASE fr.kind = "header" /\ fr.fn = Len(ns)
    <3>1. Len(ns) \in 0..Len(ns)
      BY <1>3
    <3> QED BY <2>2, <3>1
  <2> QED BY Zenon, <1>5, <2>1, <2>2
<1>9. /\ \A i \in 1..Len(dx) : dx[i].fn \in 0..Len(ns)
      /\ \A i \in 1..Len(dx) : dx[i].kind = "header" => i = Len(dx) /\ dx[i].operands = <<>>
  <2> SUFFICES ASSUME NEW i \in 1..Len(dx)
               PROVE  /\ dx[i].fn \in 0..Len(ns)
                      /\ dx[i].kind = "header" => i = Len(dx) /\ dx[i].operands = <<>>
    OBVIOUS
  <2>1. CASE i \in 1..n
    <3>1. dx[i] = cx[i] /\ cx[i].fn \in 0..Len(es) /\ cx[i].kind # "header"
      BY <1>1, <1>2, <1>4, <2>1
    <3>2. cx[i].fn \in 0..Len(ns)
      BY <1>3, <3>1
    <3> QED BY <3>1, <3>2
  <2>2. CASE i \notin 1..n
    <3>1. i = Len(dx) /\ dx[i] = fr
      BY <1>1, <1>2, <2>2
    <3>2. fr.operands = <<>>
      BY DEF Begins
    <3> QED BY <1>8, <3>1, <3>2
  <2> QED BY <2>1, <2>2
<1>10. /\ \A i \in 2..Len(dx) : dx[i].kind # "program"
       /\ \A i \in 2..Len(dx) : dx[i].kind = "block" => dx[i].fn = dx[i - 1].fn
  <2> SUFFICES ASSUME NEW i \in 2..Len(dx)
               PROVE  /\ dx[i].kind # "program"
                      /\ dx[i].kind = "block" => dx[i].fn = dx[i - 1].fn
    OBVIOUS
  <2>1. CASE i \in 2..n
    <3>1. i \in 1..n /\ i - 1 \in 1..n
      BY <1>1, <2>1
    <3> QED BY <1>1, <1>2, <2>1, <3>1
  <2>2. CASE i \notin 2..n
    <3>1. i = n + 1 /\ i - 1 = n
      BY <1>1, <1>2, <2>2
    <3>2. dx[i] = fr /\ dx[i - 1] = cx[n]
      BY <1>2, <1>4, <3>1
    <3> QED BY <1>8, <3>2
  <2> QED BY <2>1, <2>2
<1>11. /\ dx \in Seq(FrameType) /\ Len(dx) >= 1
       /\ dx[1].kind = "program" /\ dx[1].fn = 0
  BY <1>1, <1>2, <1>4
<1>12. Framed(ns, dx)
  BY Zenon, <1>6, <1>7, <1>9, <1>10, <1>11 DEF Framed
<1> QED BY <1>12 DEF dx

\* The entry of a function that begins is in the block around it, which is still
\* the innermost to put entries in.
LEMMA ScopedPush ==
  ASSUME NEW es \in Seq(Symbol), NEW cx, Framed(es, cx), Innermost(cx).kind # "header",
         NEW s, Scoped(es, cx, s), NEW ns, Puts(es, ns, Len(cx) - 1, Innermost(cx).fn),
         NEW fr \in FrameType, NEW t,
         t = Len(cx) - IF fr.kind = "header" THEN 1 ELSE 0
  PROVE  Scoped(ns, Append(cx, fr), t)
<1> DEFINE dx == Append(cx, fr)
           n == Len(cx)
<1>1. /\ cx \in Seq(FrameType) /\ n >= 1 /\ n \in Nat /\ s = n - 1
      /\ \A k \in DOMAIN es : es[k].in \in 0..(k - 1)
      /\ \A k \in DOMAIN es : es[k].isActive =>
           es[k].scope <= s /\ cx[es[k].scope + 1].fn = es[k].in
      /\ \A j, k \in DOMAIN es :
           j < k /\ es[j].isActive /\ es[k].isActive => es[j].scope <= es[k].scope
  BY Sequences DEF Framed, Scoped
<1>2. dx \in Seq(FrameType) /\ Len(dx) = n + 1 /\ dx[n + 1] = fr /\ \A i \in 1..n : dx[i] = cx[i]
  BY <1>1, AppendProperties
<1>3. /\ ns \in Seq(Symbol) /\ Len(ns) >= Len(es) /\ Len(es) \in Nat /\ Len(ns) \in Nat
      /\ DOMAIN es = 1..Len(es) /\ DOMAIN ns = 1..Len(ns)
      /\ \A k \in 1..Len(es) : ns[k] = es[k]
      /\ \A k \in (Len(es) + 1)..Len(ns) :
           ns[k].scope = n - 1 /\ ns[k].in = cx[n].fn /\ ns[k].isActive
  BY Sequences, LenProperties DEF Puts, Innermost
<1>4. \A k \in 1..Len(es) : es[k].scope \in Nat
  BY Fields
<1>5. n \in 1..n /\ cx[n].fn \in 0..Len(es)
  BY <1>1 DEF Framed
<1>t. t = Len(dx) - (IF Innermost(dx).kind = "header" THEN 2 ELSE 1) /\ s <= t
  <2>1. Innermost(dx) = fr
    BY <1>2 DEF Innermost
  <2>2. CASE fr.kind = "header"
    BY <1>1, <1>2, <2>1, <2>2
  <2>3. CASE fr.kind # "header"
    BY <1>1, <1>2, <2>1, <2>3
  <2> QED BY <2>2, <2>3
<1> HIDE DEF dx, n
<1>6. ASSUME NEW k \in DOMAIN ns PROVE ns[k].in \in 0..(k - 1)
  <2>1. CASE k \in DOMAIN es
    BY <1>1, <1>3, <2>1
  <2>2. CASE k \notin DOMAIN es
    <3>1. ns[k].in \in 0..Len(es) /\ k > Len(es)
      BY <1>3, <1>5, <2>2
    <3> QED BY <1>3, <3>1
  <2> QED BY <2>1, <2>2
<1>7. ASSUME NEW k \in DOMAIN ns, ns[k].isActive
      PROVE  ns[k].scope <= s /\ dx[ns[k].scope + 1].fn = ns[k].in
  <2>1. CASE k \in DOMAIN es
    <3>1. es[k].scope \in 0..s /\ cx[es[k].scope + 1].fn = es[k].in /\ ns[k] = es[k]
      BY <1>1, <1>3, <1>4, <1>7, <2>1
    <3>2. es[k].scope + 1 \in 1..n
      BY <1>1, <3>1
    <3> QED BY <1>2, <3>1, <3>2
  <2>2. CASE k \notin DOMAIN es
    <3>1. ns[k].scope = n - 1 /\ ns[k].in = cx[n].fn
      BY <1>3, <2>2
    <3>2. ns[k].scope + 1 = n /\ dx[n] = cx[n]
      BY <1>1, <1>2, <1>5, <3>1
    <3> QED BY <1>1, <3>1, <3>2
  <2> QED BY <2>1, <2>2
<1>8. ASSUME NEW j \in DOMAIN ns, NEW k \in DOMAIN ns, j < k, ns[j].isActive, ns[k].isActive
      PROVE  ns[j].scope <= ns[k].scope
  <2>1. CASE k \in DOMAIN es
    <3>1. j \in DOMAIN es /\ ns[j] = es[j] /\ ns[k] = es[k]
      BY <1>3, <1>8, <2>1
    <3> QED BY <1>1, <1>8, <2>1, <3>1
  <2>2. CASE k \notin DOMAIN es
    <3>1. ns[k].scope = s
      BY <1>1, <1>3, <2>2
    <3> QED BY <1>7, <1>8, <3>1
  <2> QED BY <2>1, <2>2
<1>9. ASSUME NEW k \in DOMAIN ns, ns[k].isActive
      PROVE  ns[k].scope <= t /\ dx[ns[k].scope + 1].fn = ns[k].in
  <2>1. ns[k].scope \in Nat
    BY <1>3, Fields
  <2>2. ns[k].scope <= s /\ dx[ns[k].scope + 1].fn = ns[k].in
    BY <1>7, <1>9
  <2>3. t \in Int /\ s \in Int /\ s <= t
    BY <1>1, <1>2, <1>t
  <2> QED BY <2>1, <2>2, <2>3
<1>10. Scoped(ns, dx, t)
  BY <1>t, <1>6, <1>8, <1>9 DEF Scoped
<1> QED BY <1>10 DEF dx

\* The innermost construct of cx, a block or a body, has been left, with
\* whatever dx has read: its entries are not active, its function is not open.
Shorter(cx, dx) ==
  /\ dx \in Seq(FrameType) /\ Len(cx) >= 2 /\ Len(dx) = Len(cx) - 1
  /\ \A i \in 1..Len(dx) : dx[i].kind = cx[i].kind /\ dx[i].fn = cx[i].fn

Leaves(es, ns, cx) ==
  /\ Innermost(cx).kind \in {"block", "body"}
  /\ Same(es, ns)
  /\ \A k \in 1..Len(es) :
       /\ ns[k].isActive <=> es[k].isActive /\ es[k].scope # Len(cx) - 1
       /\ ns[k].func_is_open <=>
            es[k].func_is_open /\ ~(Innermost(cx).kind = "body" /\ k = Innermost(cx).fn)

\* What is around a block or body remains as it was.
LEMMA FramedPop ==
  ASSUME NEW es \in Seq(Symbol), NEW cx, Framed(es, cx), NEW dx, Shorter(cx, dx),
         NEW ns, Leaves(es, ns, cx)
  PROVE  Framed(ns, dx)
<1> DEFINE n == Len(cx)
<1>1. /\ cx \in Seq(FrameType) /\ n \in Nat /\ cx[1].kind = "program" /\ cx[1].fn = 0
      /\ \A i \in 1..n : cx[i].fn \in 0..Len(es)
      /\ \A i \in 2..n : cx[i].kind # "program"
      /\ \A i \in 1..n : cx[i].kind = "header" => i = n /\ cx[i].operands = <<>>
      /\ \A i \in 2..n : cx[i].kind = "block" => cx[i].fn = cx[i - 1].fn
      /\ \A i \in 2..n : cx[i].kind \in Calls =>
           /\ cx[i].fn \in DOMAIN es
           /\ es[cx[i].fn].type = "USERFUNC" /\ es[cx[i].fn].in = cx[i - 1].fn
           /\ es[cx[i].fn].scope = i - 2
           /\ es[cx[i].fn].isActive /\ es[cx[i].fn].func_is_open
           /\ \A k \in DOMAIN es : k > cx[i].fn => es[k].scope >= i - 1
      /\ \A k \in DOMAIN es : es[k].func_is_open =>
           \E i \in 2..n : cx[i].kind \in Calls /\ cx[i].fn = k
  BY Sequences DEF Framed
<1>2. /\ dx \in Seq(FrameType) /\ n >= 2 /\ Len(dx) = n - 1
      /\ \A i \in 1..Len(dx) : dx[i].kind = cx[i].kind /\ dx[i].fn = cx[i].fn
  BY DEF Shorter
<1>3. /\ ns \in Seq(Symbol) /\ Len(ns) = Len(es) /\ Len(es) \in Nat
      /\ DOMAIN es = 1..Len(es) /\ DOMAIN ns = 1..Len(ns)
      /\ \A k \in 1..Len(es) : /\ ns[k].type = es[k].type /\ ns[k].scope = es[k].scope
                               /\ ns[k].in = es[k].in
  BY Sequences, LenProperties DEF Leaves, Same
<1>4. /\ cx[n].kind \in {"block", "body"}
      /\ \A k \in 1..Len(es) :
           /\ ns[k].isActive <=> es[k].isActive /\ es[k].scope # n - 1
           /\ ns[k].func_is_open <=>
                es[k].func_is_open /\ ~(cx[n].kind = "body" /\ k = cx[n].fn)
  BY DEF Leaves, Innermost
<1> HIDE DEF n
<1>5. n \in 2..n
  BY <1>1, <1>2
<1>6. ASSUME NEW i \in 2..Len(dx), dx[i].kind \in Calls
      PROVE  /\ dx[i].fn \in DOMAIN ns
             /\ ns[dx[i].fn].type = "USERFUNC" /\ ns[dx[i].fn].in = dx[i - 1].fn
             /\ ns[dx[i].fn].scope = i - 2
             /\ ns[dx[i].fn].isActive /\ ns[dx[i].fn].func_is_open
             /\ \A k \in DOMAIN ns : k > dx[i].fn => ns[k].scope >= i - 1
  <2>1. /\ i \in 2..n /\ i \in 1..Len(dx) /\ i - 1 \in 1..Len(dx) /\ i # n
        /\ n \in Nat
    BY <1>1, <1>2
  <2>2. dx[i].fn = cx[i].fn /\ dx[i - 1].fn = cx[i - 1].fn /\ cx[i].kind \in Calls
    BY <1>2, <1>6, <2>1
  <2>3. /\ cx[i].fn \in DOMAIN es
        /\ es[cx[i].fn].type = "USERFUNC" /\ es[cx[i].fn].in = cx[i - 1].fn
        /\ es[cx[i].fn].scope = i - 2
        /\ es[cx[i].fn].isActive /\ es[cx[i].fn].func_is_open
        /\ \A k \in DOMAIN es : k > cx[i].fn => es[k].scope >= i - 1
    BY <1>1, <2>1, <2>2
  <2>4. es[cx[i].fn].scope # n - 1
    BY <2>1, <2>3
  <2>5. cx[n].kind = "body" => cx[i].fn # cx[n].fn
    <3>1. SUFFICES ASSUME cx[n].kind = "body", cx[i].fn = cx[n].fn PROVE FALSE
      OBVIOUS
    <3>2. es[cx[n].fn].scope = n - 2
      BY <1>1, <1>5, <3>1 DEF Calls
    <3>3. i - 2 = n - 2
      BY <2>3, <3>1, <3>2
    <3> QED BY <2>1, <3>3
  <2>6. ns[cx[i].fn].isActive /\ ns[cx[i].fn].func_is_open
    BY <1>3, <1>4, <2>3, <2>4, <2>5
  <2>7. \A k \in DOMAIN ns : k > cx[i].fn => ns[k].scope >= i - 1
    BY <1>3, <2>3
  <2> QED BY <1>3, <2>2, <2>3, <2>6, <2>7
<1>7. ASSUME NEW k \in DOMAIN ns, ns[k].func_is_open
      PROVE  \E i \in 2..Len(dx) : dx[i].kind \in Calls /\ dx[i].fn = k
  <2>1. k \in DOMAIN es /\ es[k].func_is_open /\ ~(cx[n].kind = "body" /\ k = cx[n].fn)
    BY <1>3, <1>4, <1>7
  <2>2. PICK i \in 2..n : cx[i].kind \in Calls /\ cx[i].fn = k
    BY <1>1, <2>1
  <2>3. i # n
    BY <1>4, <2>1, <2>2 DEF Calls
  <2>4. i \in 2..Len(dx) /\ i \in 1..Len(dx)
    BY <1>1, <1>2, <2>2, <2>3
  <2> QED BY <1>2, <2>2, <2>4
<1>8. ASSUME NEW i \in 1..Len(dx)
      PROVE  dx[i].fn \in 0..Len(ns) /\ dx[i].kind # "header"
  <2>1. i \in 1..n /\ i # n
    BY <1>1, <1>2
  <2>2. cx[i].fn \in 0..Len(es) /\ cx[i].kind # "header"
    BY <1>1, <2>1
  <2> QED BY <1>2, <1>3, <2>2
<1>9. /\ \A i \in 2..Len(dx) : dx[i].kind # "program"
      /\ \A i \in 2..Len(dx) : dx[i].kind = "block" => dx[i].fn = dx[i - 1].fn
  <2> SUFFICES ASSUME NEW i \in 2..Len(dx)
               PROVE  /\ dx[i].kind # "program"
                      /\ dx[i].kind = "block" => dx[i].fn = dx[i - 1].fn
    OBVIOUS
  <2>1. i \in 2..n /\ i \in 1..Len(dx) /\ i - 1 \in 1..Len(dx)
    BY <1>1, <1>2
  <2>2. /\ dx[i].kind = cx[i].kind /\ dx[i].fn = cx[i].fn /\ dx[i - 1].fn = cx[i - 1].fn
    BY <1>2, <2>1
  <2>3. cx[i].kind # "program" /\ (cx[i].kind = "block" => cx[i].fn = cx[i - 1].fn)
    BY <1>1, <2>1
  <2> QED BY <2>2, <2>3
<1>10. /\ dx \in Seq(FrameType) /\ Len(dx) >= 1
       /\ dx[1].kind = "program" /\ dx[1].fn = 0
  <2>1. 1 \in 1..Len(dx)
    BY <1>1, <1>2
  <2> QED BY <1>1, <1>2, <2>1
<1>11. \A i \in 1..Len(dx) : dx[i].fn \in 0..Len(ns)
  BY <1>8
<1>12. \A i \in 1..Len(dx) : dx[i].kind = "header" => i = Len(dx) /\ dx[i].operands = <<>>
  BY <1>8
<1> QED BY Zenon, <1>6, <1>7, <1>9, <1>10, <1>11, <1>12 DEF Framed

\* What is active around a block or body remains so.
LEMMA ScopedPop ==
  ASSUME NEW es \in Seq(Symbol), NEW cx, Framed(es, cx), NEW s, Scoped(es, cx, s),
         NEW dx, Shorter(cx, dx), NEW ns, Leaves(es, ns, cx)
  PROVE  Scoped(ns, dx, s - 1) /\ s = Len(cx) - 1
<1> DEFINE n == Len(cx)
<1>1. /\ cx \in Seq(FrameType) /\ n \in Nat
      /\ \A i \in 1..n : cx[i].kind = "header" => i = n
      /\ \A k \in DOMAIN es : es[k].in \in 0..(k - 1)
      /\ \A k \in DOMAIN es : es[k].isActive =>
           es[k].scope <= s /\ cx[es[k].scope + 1].fn = es[k].in
      /\ \A j, k \in DOMAIN es :
           j < k /\ es[j].isActive /\ es[k].isActive => es[j].scope <= es[k].scope
  BY Sequences DEF Framed, Scoped
<1>2. /\ dx \in Seq(FrameType) /\ n >= 2 /\ Len(dx) = n - 1
      /\ \A i \in 1..Len(dx) : dx[i].kind = cx[i].kind /\ dx[i].fn = cx[i].fn
  BY DEF Shorter
<1>3. /\ DOMAIN es = 1..Len(es) /\ DOMAIN ns = 1..Len(es)
      /\ \A k \in 1..Len(es) : ns[k].scope = es[k].scope /\ ns[k].in = es[k].in
  BY Sequences, LenProperties DEF Leaves, Same
<1>4. \A k \in 1..Len(es) : ns[k].isActive => es[k].isActive /\ es[k].scope # n - 1
  BY DEF Leaves
<1>5. s = n - 1
  BY DEF Scoped, Leaves
<1>6. \A k \in 1..Len(es) : es[k].scope \in Nat
  BY Fields
<1> HIDE DEF n
<1>7. Innermost(dx).kind # "header"
  <2>1. Len(dx) \in 1..Len(dx) /\ Len(dx) \in 1..n /\ Len(dx) # n
    BY <1>1, <1>2
  <2> QED BY <1>1, <1>2, <2>1 DEF Innermost
<1>8. s - 1 = Len(dx) - (IF Innermost(dx).kind = "header" THEN 2 ELSE 1)
  BY <1>1, <1>2, <1>5, <1>7
<1>9. ASSUME NEW k \in DOMAIN ns, ns[k].isActive
      PROVE  ns[k].scope <= s - 1 /\ dx[ns[k].scope + 1].fn = ns[k].in
  <2>1. es[k].isActive /\ es[k].scope # n - 1 /\ es[k].scope \in Nat
    BY <1>3, <1>4, <1>6, <1>9
  <2>2. es[k].scope <= s /\ cx[es[k].scope + 1].fn = es[k].in
    BY <1>1, <1>3, <2>1
  <2>3. es[k].scope <= s - 1 /\ es[k].scope + 1 \in 1..Len(dx)
    BY <1>1, <1>2, <1>5, <2>1, <2>2
  <2> QED BY <1>2, <1>3, <2>2, <2>3
<1>10. \A k \in DOMAIN ns : ns[k].in \in 0..(k - 1)
  BY <1>1, <1>3
<1>11. \A j, k \in DOMAIN ns :
         j < k /\ ns[j].isActive /\ ns[k].isActive => ns[j].scope <= ns[k].scope
  BY <1>1, <1>3, <1>4
<1>12. Scoped(ns, dx, s - 1)
  BY <1>8, <1>9, <1>10, <1>11 DEF Scoped
<1> QED BY <1>5, <1>12 DEF n

-----------------------------------------------------------------------------
(* Operands, as the actions change them. *)

\* The entries of es are still in ns: what an operand is of them has not changed.
Keeps(es, ns) ==
  \A k \in DOMAIN es :
    /\ k \in DOMAIN ns /\ ns[k].name = es[k].name /\ ns[k].type = es[k].type
    /\ ns[k].scope = es[k].scope /\ ns[k].in = es[k].in

\* The operand p is what has become of o.
From(p, o) ==
  /\ p.kind = o.kind /\ p.sym = o.sym /\ p.computed = o.computed
  /\ o.spoiled => p.spoiled
  /\ p.lost => p.spoiled

\* The last operands of the innermost frame have become new; others may have
\* been written to.
Results(cx, dx, new) ==
  /\ dx \in Seq(FrameType) /\ Len(dx) = Len(cx)
  /\ \A i \in 1..Len(cx) : dx[i].kind = cx[i].kind /\ dx[i].fn = cx[i].fn
                           /\ dx[i].ended = cx[i].ended
  /\ \A i \in 1..(Len(cx) - 1) : Len(dx[i].operands) = Len(cx[i].operands)
  /\ \A i \in 1..Len(cx) : \A j \in 1..Len(dx[i].operands) :
       \/ j \in 1..Len(cx[i].operands) /\ From(dx[i].operands[j], cx[i].operands[j])
       \/ i = Len(cx) /\ dx[i].operands[j] = new
  /\ Innermost(dx).operands # <<>> /\ Last(Innermost(dx).operands) = new

\* Entries that are put keep what the others are.
LEMMA PutsKeeps ==
  ASSUME NEW es \in Seq(Symbol), NEW ns, NEW s, NEW f, Puts(es, ns, s, f)
  PROVE  Keeps(es, ns)
<1>1. /\ DOMAIN es = 1..Len(es) /\ DOMAIN ns = 1..Len(ns) /\ Len(ns) >= Len(es)
      /\ Len(es) \in Nat /\ Len(ns) \in Nat /\ \A k \in 1..Len(es) : ns[k] = es[k]
  BY Sequences, LenProperties DEF Puts
<1> QED BY <1>1 DEF Keeps

\* Entries that are left keep it.
LEMMA SameKeeps ==
  ASSUME NEW es \in Seq(Symbol), NEW ns, Same(es, ns)
  PROVE  Keeps(es, ns)
<1>1. /\ DOMAIN es = 1..Len(es) /\ DOMAIN ns = 1..Len(es)
  BY Sequences, LenProperties DEF Same
<1> QED BY <1>1 DEF Keeps, Same

\* An operand is still kept when it has been spoiled, when a statement will have
\* ended since, or when more temporaries have been used and none has.
LEMMA StillKept ==
  ASSUME NEW es, NEW ns, Keeps(es, ns), NEW cx, NEW dx, NEW i, dx[i].fn = cx[i].fn,
         NEW t \in Nat, NEW u \in Nat, NEW failed,
         NEW o \in OperandType, OperandKept(o, es, cx, i, t, FALSE),
         NEW p \in OperandType, From(p, o),
         p.spoiled \/ Overtaken(dx, i) \/ (t <= u /\ ~Overtaken(cx, i))
  PROVE  OperandKept(p, ns, dx, i, u, failed)
<1>1. /\ o.sym # 0 /\ o.sym \in DOMAIN es
      /\ o.kind = "lvalue" => ~o.computed /\ es[o.sym].name \in Var \union Fun
      /\ o.kind = "value" /\ es[o.sym].type # "USERFUNC"
           => es[o.sym].in = cx[i].fn \/ es[o.sym].scope = 0
      /\ o.computed => es[o.sym].scope = i - 1
  BY DEF OperandKept
<1>2. /\ p.kind = o.kind /\ p.sym = o.sym /\ p.computed = o.computed
      /\ o.spoiled => p.spoiled
      /\ p.lost => p.spoiled
  BY DEF From
<1>3. /\ o.sym \in DOMAIN ns /\ ns[o.sym].name = es[o.sym].name
      /\ ns[o.sym].type = es[o.sym].type
      /\ ns[o.sym].scope = es[o.sym].scope /\ ns[o.sym].in = es[o.sym].in
  BY <1>1 DEF Keeps
<1>4. ASSUME p.computed, ~p.spoiled
      PROVE  \E c \in 1..Len(TempNames) :
               ns[p.sym].name = TempNames[c] /\ (c <= u \/ Overtaken(dx, i))
  <2>1. PICK c \in 1..Len(TempNames) :
          es[o.sym].name = TempNames[c] /\ (c <= t \/ Overtaken(cx, i))
    BY <1>2, <1>4 DEF OperandKept
  <2>2. ns[p.sym].name = TempNames[c]
    BY <1>2, <1>3, <2>1
  <2>3. CASE Overtaken(dx, i)
    BY <2>2, <2>3
  <2>4. CASE t <= u /\ ~Overtaken(cx, i)
    <3>0. c \in Nat
      OBVIOUS
    <3>1. c <= u
      BY <2>1, <2>4, <3>0
    <3> QED BY <2>2, <3>1
  <2> QED BY <1>4, <2>3, <2>4
<1>5. p.computed => ns[p.sym].scope = i - 1
  BY <1>1, <1>2, <1>3
<1>6. p.kind = "lvalue" => ~p.computed /\ ns[p.sym].name \in Var \union Fun
  BY <1>1, <1>2, <1>3
<1>7. p.kind = "value" /\ ns[p.sym].type # "USERFUNC"
           => ns[p.sym].in = dx[i].fn \/ ns[p.sym].scope = 0
  BY <1>1, <1>2, <1>3
<1>8. p.sym # 0 /\ p.sym \in DOMAIN ns
  BY <1>1, <1>2, <1>3
<1> QED BY <1>2, <1>4, <1>5, <1>6, <1>7, <1>8 DEF OperandKept

\* So are all those of an expression a part of which gives a result that is.
LEMMA HeldResult ==
  ASSUME NEW es \in Seq(Symbol), NEW ns, Keeps(es, ns), NEW cx, Framed(es, cx),
         NEW t \in Nat, NEW u \in Nat, t <= u, Held(es, cx, t, FALSE),
         NEW new \in OperandType, NEW dx, Results(cx, dx, new), NEW failed,
         OperandKept(new, ns, dx, Len(cx), u, failed)
  PROVE  Held(ns, dx, u, failed)
<1>1. cx \in Seq(FrameType) /\ Len(cx) \in Nat /\ Len(cx) >= 1
  BY Sequences DEF Framed
<1>2. /\ dx \in Seq(FrameType) /\ Len(dx) = Len(cx)
      /\ \A i \in 1..Len(cx) : dx[i].kind = cx[i].kind /\ dx[i].fn = cx[i].fn
                           /\ dx[i].ended = cx[i].ended
      /\ \A i \in 1..(Len(cx) - 1) : Len(dx[i].operands) = Len(cx[i].operands)
      /\ \A i \in 1..Len(cx) : \A j \in 1..Len(dx[i].operands) :
           \/ j \in 1..Len(cx[i].operands) /\ From(dx[i].operands[j], cx[i].operands[j])
           \/ i = Len(cx) /\ dx[i].operands[j] = new
      /\ dx[Len(cx)].operands # <<>>
  BY DEF Results, Innermost
<1>3. \A i \in 1..Len(cx) : /\ cx[i] \in FrameType /\ cx[i].operands \in Seq(OperandType)
                            /\ dx[i] \in FrameType /\ dx[i].operands \in Seq(OperandType)
  <2>1. \A i \in 1..Len(cx) : cx[i] \in FrameType /\ dx[i] \in FrameType
    BY <1>1, <1>2, ElementOfSeq
  <2> QED BY <2>1 DEF FrameType
<1>4. ASSUME NEW i \in 1..Len(cx), Overtaken(cx, i) PROVE Overtaken(dx, i)
  <2>1. PICK k \in (i + 1)..Len(cx) : cx[k].ended \/ cx[k].operands # <<>>
    BY <1>4 DEF Overtaken
  <2>2. k \in 1..Len(cx) /\ k \in (i + 1)..Len(dx)
    BY <1>1, <1>2
  <2>3. dx[k].ended \/ dx[k].operands # <<>>
    <3>1. CASE k = Len(cx)
      BY <1>2, <3>1
    <3>2. CASE k # Len(cx)
      <4>1. Len(dx[k].operands) = Len(cx[k].operands) /\ dx[k].ended = cx[k].ended
        BY <1>1, <1>2, <2>2, <3>2
      <4>2. cx[k].operands # <<>> => dx[k].operands # <<>>
        BY <1>3, <2>2, <4>1, EmptySeq
      <4> QED BY <2>1, <4>1, <4>2
    <3> QED BY <3>1, <3>2
  <2> QED BY <2>2, <2>3 DEF Overtaken
<1>5. ASSUME NEW i \in 1..Len(cx), NEW j \in 1..Len(dx[i].operands)
      PROVE  OperandKept(dx[i].operands[j], ns, dx, i, u, failed)
  <2>1. CASE i = Len(cx) /\ dx[i].operands[j] = new
    BY <2>1
  <2>2. CASE j \in 1..Len(cx[i].operands) /\ From(dx[i].operands[j], cx[i].operands[j])
    <3> DEFINE o == cx[i].operands[j]
               p == dx[i].operands[j]
    <3>1. OperandKept(o, es, cx, i, t, FALSE) /\ o \in OperandType
      BY <1>3, <2>2, ElementOfSeq DEF Held
    <3>2. p \in OperandType
      BY <1>3, ElementOfSeq
    <3>3. Overtaken(dx, i) \/ (t <= u /\ ~Overtaken(cx, i))
      BY <1>4
    <3>4. dx[i].fn = cx[i].fn
      BY <1>2
    <3>5. From(p, o)
      BY <2>2
    <3> HIDE DEF o, p
    <3>6. OperandKept(p, ns, dx, i, u, failed)
      BY Zenon, <3>1, <3>2, <3>3, <3>4, <3>5, StillKept
    <3> QED BY <3>6 DEF p
  <2> QED BY <1>2, <2>1, <2>2
<1> QED BY <1>2, <1>5 DEF Held

\* Some of the operands of cx have been written to.
Marks(cx, wx) ==
  /\ wx \in Seq(FrameType) /\ Len(wx) = Len(cx)
  /\ \A i \in 1..Len(cx) :
       /\ wx[i].kind = cx[i].kind /\ wx[i].fn = cx[i].fn /\ wx[i].ended = cx[i].ended
       /\ Len(wx[i].operands) = Len(cx[i].operands)
  /\ \A i \in 1..Len(cx) : \A j \in 1..Len(cx[i].operands) :
       From(wx[i].operands[j], cx[i].operands[j])

\* The first m operands and a result take the place of all.
LEMMA HoldingResult ==
  ASSUME NEW cx \in Seq(FrameType), Len(cx) >= 1, NEW wx, Marks(cx, wx),
         NEW m \in 0..Len(Innermost(wx).operands), NEW new \in OperandType
  PROVE  Results(cx, Holding(wx, Append(SubSeq(Innermost(wx).operands, 1, m), new)), new)
<1> DEFINE n == Len(cx)
           s == Innermost(wx).operands
           r == SubSeq(s, 1, m)
           q == Append(r, new)
           dx == Holding(wx, q)
<1>1. /\ wx \in Seq(FrameType) /\ Len(wx) = n /\ n \in Nat /\ n >= 1
      /\ \A i \in 1..n :
           /\ wx[i].kind = cx[i].kind /\ wx[i].fn = cx[i].fn /\ wx[i].ended = cx[i].ended
           /\ Len(wx[i].operands) = Len(cx[i].operands)
      /\ \A i \in 1..n : \A j \in 1..Len(cx[i].operands) :
           From(wx[i].operands[j], cx[i].operands[j])
  BY LenProperties DEF Marks
<1>2. s = wx[n].operands /\ n \in 1..n
  BY <1>1 DEF Innermost
<1>3. s \in Seq(OperandType) /\ Len(s) \in Nat
  <2>1. wx[n] \in FrameType
    BY <1>1, <1>2, ElementOfSeq
  <2> QED BY <1>2, <2>1, LenProperties DEF FrameType
<1>4. r \in Seq(OperandType) /\ Len(r) = m /\ m \in Nat /\ \A j \in 1..m : r[j] = s[j] /\ j \in 1..Len(s)
  BY <1>3, SubSeqProperties
<1>5. /\ q \in Seq(OperandType) /\ Len(q) = m + 1 /\ q[m + 1] = new /\ \A j \in 1..m : q[j] = r[j]
  BY <1>4, AppendProperties
<1> HIDE DEF r, q
<1>6. /\ dx \in Seq(FrameType) /\ Len(dx) = Len(wx)
      /\ \A i \in 1..Len(wx) :
           /\ dx[i].kind = wx[i].kind /\ dx[i].fn = wx[i].fn
           /\ dx[i].ended = wx[i].ended
           /\ dx[i].operands = IF i = Len(wx) THEN q ELSE wx[i].operands
  BY <1>1, <1>5, HoldingIs
<1> HIDE DEF dx, s, n
<1>7. dx[n].operands = q /\ \A i \in 1..n : i # n => dx[i].operands = wx[i].operands
  BY <1>1, <1>2, <1>6
<1>8. ASSUME NEW i \in 1..n
      PROVE  /\ dx[i].kind = cx[i].kind /\ dx[i].fn = cx[i].fn /\ dx[i].ended = cx[i].ended
  BY <1>1, <1>6
<1>9. ASSUME NEW i \in 1..(n - 1)
      PROVE  Len(dx[i].operands) = Len(cx[i].operands)
  <2>1. i \in 1..n /\ i # n
    BY <1>1
  <2> QED BY <1>1, <1>7, <2>1
<1>10. ASSUME NEW i \in 1..n, NEW j \in 1..Len(dx[i].operands)
       PROVE  \/ j \in 1..Len(cx[i].operands) /\ From(dx[i].operands[j], cx[i].operands[j])
              \/ i = n /\ dx[i].operands[j] = new
  <2>1. CASE i # n
    <3>1. dx[i].operands = wx[i].operands
      BY <1>7, <2>1
    <3>2. j \in 1..Len(cx[i].operands)
      BY <1>1, <3>1
    <3> QED BY <1>1, <3>1, <3>2
  <2>2. CASE i = n /\ j = m + 1
    BY <1>5, <1>7, <2>2
  <2>3. CASE i = n /\ j # m + 1
    <3>1. j \in 1..m
      BY <1>4, <1>5, <1>7, <2>3
    <3>2. dx[i].operands[j] = wx[n].operands[j] /\ j \in 1..Len(s)
      BY <1>2, <1>4, <1>5, <1>7, <2>3, <3>1
    <3>3. j \in 1..Len(cx[n].operands)
      BY <1>1, <1>2, <3>2
    <3> QED BY <1>1, <1>2, <2>3, <3>2, <3>3
  <2> QED BY <2>1, <2>2, <2>3
<1>11. Innermost(dx).operands # <<>> /\ Last(Innermost(dx).operands) = new
  <2>1. Innermost(dx).operands = q
    BY <1>1, <1>6, <1>7 DEF Innermost
  <2>2. q # <<>>
    BY <1>4, <1>5, EmptySeq
  <2> QED BY <1>4, <1>5, <2>1, <2>2 DEF Last
<1>12. Results(cx, dx, new)
  BY <1>1, <1>6, <1>8, <1>9, <1>10, <1>11 DEF Results, n
<1> QED BY <1>12 DEF dx, q, r, s

\* Nothing has been written to.
LEMMA NothingMarked ==
  ASSUME NEW es, NEW cx, Framed(es, cx), NEW t, Held(es, cx, t, FALSE)
  PROVE  Marks(cx, cx)
<1>1. cx \in Seq(FrameType) /\ Len(cx) \in Nat
  BY LenProperties DEF Framed
<1>2. ASSUME NEW i \in 1..Len(cx), NEW j \in 1..Len(cx[i].operands)
      PROVE  From(cx[i].operands[j], cx[i].operands[j])
  <2>1. OperandKept(cx[i].operands[j], es, cx, i, t, FALSE)
    BY DEF Held
  <2> QED BY <2>1 DEF OperandKept, From
<1> QED BY <1>1, <1>2 DEF Marks

\* Written marks the operands that hold one of the symbols S.
LEMMA WrittenMarks ==
  ASSUME NEW es, Framed(es, ctx), NEW t, Held(es, ctx, t, FALSE), NEW S,
         \A i \in 1..Len(ctx) : \A j \in 1..Len(ctx[i].operands) :
           ctx[i].operands[j].computed /\ ctx[i].operands[j].sym \in S
             => ctx[i].operands[j].spoiled
  PROVE  Marks(ctx, Written(S))
<1> DEFINE n == Len(ctx)
           w(i, j) == Overwrite(ctx[i].operands[j], S)
           ws(i) == [j \in DOMAIN ctx[i].operands |-> w(i, j)]
           f(i) == [ctx[i] EXCEPT !.operands = ws(i)]
           wx == [i \in DOMAIN ctx |-> f(i)]
<1>1. ctx \in Seq(FrameType) /\ n \in Nat /\ DOMAIN ctx = 1..n
  BY LenProperties DEF Framed
<1>2. Written(S) = wx
  BY DEF Written
<1>3. ASSUME NEW i \in 1..n
      PROVE  /\ ctx[i] \in FrameType /\ ctx[i].operands \in Seq(OperandType)
             /\ Len(ctx[i].operands) \in Nat
             /\ DOMAIN ctx[i].operands = 1..Len(ctx[i].operands)
  <2>1. ctx[i] \in FrameType
    BY <1>1, ElementOfSeq
  <2> QED BY <2>1, LenProperties DEF FrameType
<1>4. ASSUME NEW i \in 1..n, NEW j \in 1..Len(ctx[i].operands)
      PROVE  w(i, j) \in OperandType /\ From(w(i, j), ctx[i].operands[j])
  <2> DEFINE o == ctx[i].operands[j]
  <2>1. o \in OperandType
    BY <1>3, ElementOfSeq
  <2>2. (o.lost => o.spoiled) /\ (o.computed /\ o.sym \in S => o.spoiled)
    BY DEF Held, OperandKept
  <2>3. w(i, j) = [o EXCEPT !.lost = @ \/ (o.computed /\ o.sym \in S)]
    BY DEF Overwrite
  <2> HIDE DEF o, w
  <2>4. /\ w(i, j) \in OperandType /\ w(i, j).kind = o.kind /\ w(i, j).sym = o.sym
        /\ w(i, j).computed = o.computed /\ w(i, j).spoiled = o.spoiled
        /\ w(i, j).lost <=> o.lost \/ (o.computed /\ o.sym \in S)
    BY <2>1, <2>3 DEF OperandType
  <2> QED BY <2>2, <2>4 DEF From, o
<1> HIDE DEF w
<1>5. ASSUME NEW i \in 1..n
      PROVE  /\ ws(i) \in Seq(OperandType) /\ Len(ws(i)) = Len(ctx[i].operands)
             /\ \A j \in 1..Len(ctx[i].operands) : ws(i)[j] = w(i, j)
  <2>1. ws(i) = [j \in 1..Len(ctx[i].operands) |-> w(i, j)]
    BY <1>3
  <2>2. ws(i) \in [1..Len(ctx[i].operands) -> OperandType]
    BY <1>4, <2>1
  <2>3. Len(ctx[i].operands) \in Nat
    BY <1>3
  <2> HIDE DEF w, ws
  <2> QED BY <2>1, <2>2, <2>3
<1> HIDE DEF ws
<1>6. ASSUME NEW i \in 1..n
      PROVE  /\ f(i) \in FrameType /\ f(i).kind = ctx[i].kind /\ f(i).fn = ctx[i].fn
             /\ f(i).ended = ctx[i].ended /\ f(i).operands = ws(i)
  BY <1>3, <1>5 DEF FrameType
<1> HIDE DEF f
<1>7. wx \in Seq(FrameType) /\ Len(wx) = n /\ \A i \in 1..n : wx[i] = f(i)
  <2>1. wx = [i \in 1..n |-> f(i)]
    BY <1>1
  <2>2. wx \in [1..n -> FrameType]
    BY <1>6, <2>1
  <2> QED BY <1>1, <2>1, <2>2
<1> HIDE DEF wx
<1>8. ASSUME NEW i \in 1..n
      PROVE  /\ wx[i].kind = ctx[i].kind /\ wx[i].fn = ctx[i].fn /\ wx[i].ended = ctx[i].ended
             /\ Len(wx[i].operands) = Len(ctx[i].operands)
             /\ \A j \in 1..Len(ctx[i].operands) :
                  From(wx[i].operands[j], ctx[i].operands[j])
  BY <1>4, <1>5, <1>6, <1>7
<1> QED BY <1>2, <1>7, <1>8 DEF Marks, n

-----------------------------------------------------------------------------
(* Counting frames and places. *)

\* The frames counted are finitely many, and one more if the next is of K.
LEMMA CountStep ==
  ASSUME NEW cx, NEW K, NEW n \in Nat
  PROVE  /\ Count(cx, K, n) \in Nat /\ Count(cx, K, 0) = 0
         /\ Count(cx, K, n + 1) = Count(cx, K, n) + IF cx[n + 1].kind \in K THEN 1 ELSE 0
<1> DEFINE P == {i \in 1..n : cx[i].kind \in K}
           Q == {i \in 1..(n + 1) : cx[i].kind \in K}
<1>1. IsFiniteSet(P) /\ Cardinality(P) \in Nat
  <2>1. IsFiniteSet(1..n)
    BY FS_Interval
  <2> QED BY <2>1, FS_Subset, FS_CardinalityType
<1>a. Count(cx, K, n) = Cardinality(P) /\ Count(cx, K, n + 1) = Cardinality(Q)
  BY DEF Count
<1>b. Cardinality({i \in 1..0 : cx[i].kind \in K}) = 0
  <2>1. {i \in 1..0 : cx[i].kind \in K} = {}
    OBVIOUS
  <2> QED BY <2>1, FS_EmptySet
<1>2. ASSUME cx[n + 1].kind \in K PROVE Cardinality(Q) = Cardinality(P) + 1
  <2>1. Q = P \union {n + 1} /\ n + 1 \notin P
    BY <1>2
  <2> HIDE DEF P, Q
  <2> QED BY <1>1, <2>1, FS_AddElement
<1>3. ASSUME cx[n + 1].kind \notin K PROVE Cardinality(Q) = Cardinality(P)
  <2>1. Q = P
    BY <1>3
  <2> QED BY <2>1
<1>4. Count(cx, K, 0) = 0
  BY <1>b DEF Count
<1> HIDE DEF P, Q
<1> QED BY <1>1, <1>a, <1>2, <1>3, <1>4

\* A frame that is not of K does not count.
LEMMA CountOut ==
  ASSUME NEW cx, NEW K, NEW n \in Nat, cx[n + 1].kind \notin K
  PROVE  Count(cx, K, n + 1) = Count(cx, K, n) /\ Count(cx, K, n) \in Nat
<1>1. /\ Count(cx, K, n) \in Nat
      /\ Count(cx, K, n + 1) = Count(cx, K, n) + IF cx[n + 1].kind \in K THEN 1 ELSE 0
  BY CountStep
<1> QED BY <1>1

\* One of K does.
LEMMA CountIn ==
  ASSUME NEW cx, NEW K, NEW n \in Nat, cx[n + 1].kind \in K
  PROVE  Count(cx, K, n + 1) = Count(cx, K, n) + 1 /\ Count(cx, K, n) \in Nat
<1>1. /\ Count(cx, K, n) \in Nat
      /\ Count(cx, K, n + 1) = Count(cx, K, n) + IF cx[n + 1].kind \in K THEN 1 ELSE 0
  BY CountStep
<1> QED BY <1>1

\* Counting further counts no less.
LEMMA CountMore ==
  ASSUME NEW cx, NEW K, NEW n \in Nat, NEW m \in 0..n
  PROVE  Count(cx, K, m) <= Count(cx, K, n)
<1> DEFINE P == {i \in 1..m : cx[i].kind \in K}
           Q == {i \in 1..n : cx[i].kind \in K}
<1>1. IsFiniteSet(Q)
  <2>1. IsFiniteSet(1..n)
    BY FS_Interval
  <2> QED BY <2>1, FS_Subset
<1>2. P \subseteq Q
  OBVIOUS
<1> QED BY <1>1, <1>2, FS_Subset DEF Count

\* Frames of the same kinds count the same.
LEMMA CountSame ==
  ASSUME NEW cx, NEW dx, NEW K, NEW n \in Nat,
         \A i \in 1..n : dx[i].kind \in K <=> cx[i].kind \in K
  PROVE  Count(dx, K, n) = Count(cx, K, n)
<1>1. {i \in 1..n : dx[i].kind \in K} = {i \in 1..n : cx[i].kind \in K}
  OBVIOUS
<1> QED BY <1>1 DEF Count

\* The frame of a function or body is counted among them, and those before it
\* are fewer.
LEMMA CountedHere ==
  ASSUME NEW cx, NEW K, NEW n \in Nat, NEW i \in 1..n, cx[i].kind \in K
  PROVE  /\ Count(cx, K, i) \in 1..Count(cx, K, n)
         /\ Count(cx, K, i) = Count(cx, K, i - 1) + 1
<1>1. i - 1 \in Nat /\ (i - 1) + 1 = i /\ i \in 0..n
  OBVIOUS
<1>2. /\ Count(cx, K, i - 1) \in Nat /\ Count(cx, K, n) \in Nat
      /\ Count(cx, K, (i - 1) + 1) = Count(cx, K, i - 1)
           + IF cx[(i - 1) + 1].kind \in K THEN 1 ELSE 0
  BY <1>1, CountStep
<1>3. Count(cx, K, i) = Count(cx, K, i - 1) + 1
  BY <1>1, <1>2
<1>4. Count(cx, K, i) <= Count(cx, K, n)
  BY <1>1, CountMore
<1> QED BY <1>2, <1>3, <1>4

\* Where no parameters are being read, functions and bodies count the same, and
\* the counter tells whether there are any.
LEMMA SpaceIs ==
  ASSUME NEW es \in Seq(Symbol), NEW cx, Framed(es, cx), Innermost(cx).kind # "header",
         NEW counter, NEW saved, Counted(cx, counter, saved)
  PROVE  /\ get_curr_scope_space(counter) = SpaceOf(Innermost(cx).fn)
         /\ counter \in Nat
         /\ Count(cx, {"body"}, Len(cx)) = Count(cx, Calls, Len(cx))
<1> DEFINE n == Len(cx)
           b == Count(cx, {"body"}, n)
<1>1. /\ cx \in Seq(FrameType) /\ n \in Nat /\ n >= 1
      /\ \A i \in 1..n : cx[i].kind = "header" => i = n
  BY Sequences DEF Framed
<1>2. \A i \in 1..n : cx[i].kind # "header"
  BY <1>1 DEF Innermost
<1>3. \A i \in 1..n : cx[i].kind \in {"body"} <=> cx[i].kind \in Calls
  BY <1>2 DEF Calls
<1>4. b = Count(cx, Calls, n)
  <2>1. {i \in 1..n : cx[i].kind \in {"body"}} = {i \in 1..n : cx[i].kind \in Calls}
    BY <1>3
  <2> QED BY <2>1 DEF Count
<1>5. b \in Nat
  BY <1>1, CountStep
<1>6. counter = 1 + 2 * b
  BY <1>5 DEF Counted
<1>7. Innermost(cx).fn = 0 <=> b = 0
  BY <1>1, <1>4 DEF Counted, Innermost
<1> HIDE DEF b
<1>8. counter \in Nat /\ counter % 2 = 1 /\ (counter = 1 <=> b = 0)
  BY <1>5, <1>6
<1> QED BY <1>4, <1>7, <1>8 DEF get_curr_scope_space, SpaceOf, b

\* The functions around a function are others: the frame of a function is not
\* within that function, nor is one inside of it.
LEMMA OthersAround ==
  ASSUME NEW es \in Seq(Symbol), NEW cx, Framed(es, cx), NEW s, Scoped(es, cx, s),
         NEW i \in 2..Len(cx), cx[i].kind \in Calls, NEW m \in i..Len(cx)
  PROVE  cx[m].fn # cx[i - 1].fn
<1> DEFINE g == cx[i - 1].fn
           h == cx[i].fn
           J == {j \in i..m : cx[j].fn = g}
<1>1. /\ cx \in Seq(FrameType) /\ Len(cx) \in Nat
      /\ \A k \in 2..Len(cx) : cx[k].kind # "program"
      /\ \A k \in 2..Len(cx) : cx[k].kind = "block" => cx[k].fn = cx[k - 1].fn
      /\ \A k \in 2..Len(cx) : cx[k].kind \in Calls =>
           /\ cx[k].fn \in DOMAIN es
           /\ es[cx[k].fn].in = cx[k - 1].fn
           /\ es[cx[k].fn].scope = k - 2
           /\ \A l \in DOMAIN es : l > cx[k].fn => es[l].scope >= k - 1
  BY Sequences DEF Framed
<1>2. h \in DOMAIN es /\ es[h].in = g /\ es[h].scope = i - 2
  BY <1>1
<1>3. DOMAIN es = 1..Len(es) /\ Len(es) \in Nat
  BY Sequences
<1>4. g \in 0..(h - 1) /\ h \in Nat
  BY <1>2, <1>3 DEF Scoped
<1>5. SUFFICES ASSUME cx[m].fn = g PROVE FALSE
  OBVIOUS
<1>6. m \in J /\ J \subseteq Nat /\ i \in Nat /\ m <= Len(cx) /\ i >= 2
  BY <1>5
<1> DEFINE j == Min(J)
<1>7. j \in J /\ \A k \in J : k >= j
  BY <1>6, MinIsFirst
<1> HIDE DEF J, g, h, j
<1>8. j \in i..m /\ cx[j].fn = g
  BY <1>7 DEF J
<1>9. j # i
  BY <1>4, <1>8 DEF h
<1>10. j - 1 \in i..m /\ j \in 2..Len(cx) /\ j \in Nat
  BY <1>6, <1>8, <1>9
<1>11. cx[j - 1].fn # g
  <2>1. j - 1 \notin J
    BY <1>7, <1>10
  <2> QED BY <1>10, <2>1 DEF J
<1>12. cx[j].kind \in Calls
  <2>1. cx[j] \in FrameType
    BY <1>1, <1>6, <1>10, ElementOfSeq
  <2>2. cx[j].kind \in {"program", "block", "header", "body"}
    BY <2>1 DEF FrameType
  <2>3. cx[j].kind # "program" /\ cx[j].kind # "block"
    BY <1>1, <1>8, <1>10, <1>11
  <2> QED BY <2>2, <2>3 DEF Calls
<1>13. \A l \in DOMAIN es : l > g => es[l].scope >= j - 1
  BY <1>1, <1>8, <1>10, <1>12
<1>14. i - 2 >= j - 1
  BY <1>2, <1>4, <1>13
<1> QED BY <1>6, <1>8, <1>10, <1>14

\* No place is given, or changed.
Unplaced(es, ns) ==
  /\ \A k \in DOMAIN es :
       /\ k \in DOMAIN ns /\ ns[k].in = es[k].in /\ ns[k].type = es[k].type
       /\ ns[k].space = es[k].space
       /\ es[k].space # "unset" => ns[k].offset = es[k].offset
  /\ \A k \in DOMAIN ns : k \notin DOMAIN es => ns[k].space = "unset"

\* A function has finitely many places.
LEMMA PlacesFinite ==
  ASSUME NEW es \in Seq(Symbol), NEW f
  PROVE  IsFiniteSet(PlacesOf(es, f)) /\ Cardinality(PlacesOf(es, f)) \in Nat
<1>1. DOMAIN es = 1..Len(es) /\ Len(es) \in Nat
  BY Sequences
<1>2. IsFiniteSet(1..Len(es))
  BY <1>1, FS_Interval
<1>3. PlacesOf(es, f) \subseteq 1..Len(es)
  BY <1>1 DEF PlacesOf
<1> QED BY <1>2, <1>3, FS_Subset, FS_CardinalityType

\* They are those it had, when none is given.
LEMMA PlacesSame ==
  ASSUME NEW es, NEW ns, Unplaced(es, ns), NEW f
  PROVE  PlacesOf(ns, f) = PlacesOf(es, f) /\ (Filled(es, f) => Filled(ns, f))
<1>1. /\ \A k \in DOMAIN es :
           /\ k \in DOMAIN ns /\ ns[k].in = es[k].in /\ ns[k].space = es[k].space
           /\ es[k].space # "unset" => ns[k].offset = es[k].offset
      /\ \A k \in DOMAIN ns : k \notin DOMAIN es => ns[k].space = "unset"
  BY DEF Unplaced
<1>2. PlacesOf(ns, f) = PlacesOf(es, f)
  BY <1>1 DEF PlacesOf
<1>3. \A k \in PlacesOf(es, f) : ns[k].offset = es[k].offset /\ ns[k].space = es[k].space
  BY <1>1 DEF PlacesOf
<1>4. {ns[k].offset : k \in PlacesOf(es, f)} = {es[k].offset : k \in PlacesOf(es, f)}
  BY <1>3
<1> QED BY <1>2, <1>3, <1>4 DEF Filled

\* A function that begins has no places yet.
LEMMA NoPlaces ==
  ASSUME NEW es \in Seq(Symbol), \A k \in DOMAIN es : es[k].in \in 0..(k - 1),
         NEW f \in Nat, f >= Len(es), f # 0
  PROVE  PlacesOf(es, f) = {}
<1>1. DOMAIN es = 1..Len(es) /\ Len(es) \in Nat
  BY Sequences
<1>2. \A k \in DOMAIN es : es[k].in # f
  BY <1>1
<1> QED BY <1>2 DEF PlacesOf

\* Entries without a place leave the others' as they are.
LEMMA FilledNext ==
  ASSUME NEW es \in Seq(Symbol), NEW ns \in Seq(Symbol), Unplaced(es, ns),
         \A k \in DOMAIN es : es[k].in \in 0..(k - 1), AllFilled(es)
  PROVE  AllFilled(ns)
<1>1. /\ \A k \in DOMAIN es : /\ k \in DOMAIN ns /\ ns[k].type = es[k].type
                              /\ ns[k].space = es[k].space
      /\ \A k \in DOMAIN ns : k \notin DOMAIN es => ns[k].space = "unset"
  BY DEF Unplaced
<1>2. \A k \in DOMAIN es : es[k].type = "USERFUNC" => es[k].space = "unset"
  BY DEF AllFilled
<1>3. \A k \in DOMAIN ns : ns[k].type = "USERFUNC" => ns[k].space = "unset"
  BY <1>1, <1>2
<1>4. ASSUME NEW f \in {0} \union {k \in DOMAIN ns : ns[k].type = "USERFUNC"}
      PROVE  Filled(ns, f)
  <2>1. CASE f \in {0} \union {k \in DOMAIN es : es[k].type = "USERFUNC"}
    <3>1. Filled(es, f)
      BY <2>1 DEF AllFilled
    <3> QED BY <3>1, PlacesSame
  <2>2. CASE f \notin {0} \union {k \in DOMAIN es : es[k].type = "USERFUNC"}
    <3>1. f \in DOMAIN ns /\ f \notin DOMAIN es
      BY <1>1, <2>2
    <3>2. f \in Nat /\ f >= Len(es) /\ f # 0
      <4>1. /\ DOMAIN es = 1..Len(es) /\ DOMAIN ns = 1..Len(ns)
            /\ Len(es) \in Nat /\ Len(ns) \in Nat
        BY Sequences
      <4> QED BY <3>1, <4>1
    <3>3. PlacesOf(ns, f) = {}
      BY <3>2, NoPlaces, PlacesSame
    <3>4. Cardinality(PlacesOf(ns, f)) = 0
      BY <3>3, FS_EmptySet
    <3>5. 0..(0 - 1) = {}
      OBVIOUS
    <3> QED BY <3>3, <3>4, <3>5 DEF Filled
  <2> QED BY <2>1, <2>2
<1> QED BY <1>3, <1>4 DEF AllFilled

\* A variable takes the next place of the function it is in.
LEMMA FilledVariable ==
  ASSUME NEW es \in Seq(Symbol), \A k \in DOMAIN es : es[k].in \in 0..(k - 1),
         AllFilled(es), NEW v \in Symbol, v.type # "USERFUNC",
         NEW f, v.in = f, v.space = SpaceOf(f),
         v.offset = Cardinality(PlacesOf(es, f))
  PROVE  /\ AllFilled(Append(es, v))
         /\ \A g : Cardinality(PlacesOf(Append(es, v), g)) =
                     Cardinality(PlacesOf(es, g)) + IF g = f THEN 1 ELSE 0
<1> DEFINE ns == Append(es, v)
           n == Len(es) + 1
<1>1. /\ ns \in Seq(Symbol) /\ DOMAIN ns = 1..n /\ DOMAIN es = 1..Len(es)
      /\ Len(es) \in Nat /\ ns[n] = v /\ \A k \in 1..Len(es) : ns[k] = es[k]
  BY AppendProperties, Sequences
<1>2. v.space # "unset"
  BY DEF SpaceOf
<1> HIDE DEF ns
<1>3. PlacesOf(ns, f) = PlacesOf(es, f) \union {n} /\ n \notin PlacesOf(es, f)
  BY <1>1, <1>2 DEF PlacesOf
<1>4. \A g : g # f => PlacesOf(ns, g) = PlacesOf(es, g)
  BY <1>1 DEF PlacesOf
<1>5. /\ IsFiniteSet(PlacesOf(es, f)) /\ Cardinality(PlacesOf(es, f)) \in Nat
      /\ Cardinality(PlacesOf(ns, f)) = Cardinality(PlacesOf(es, f)) + 1
  <2>1. IsFiniteSet(PlacesOf(es, f)) /\ Cardinality(PlacesOf(es, f)) \in Nat
    BY PlacesFinite
  <2> DEFINE P == PlacesOf(es, f)
             Q == PlacesOf(ns, f)
  <2>2. IsFiniteSet(P) /\ Q = P \union {n} /\ n \notin P
    BY <1>3, <2>1
  <2> HIDE DEF P, Q, n
  <2>3. Cardinality(Q) = Cardinality(P) + 1
    BY <2>2, FS_AddElement
  <2> QED BY <2>1, <2>3 DEF P, Q
<1>6. \A g : Cardinality(PlacesOf(ns, g)) =
               Cardinality(PlacesOf(es, g)) + IF g = f THEN 1 ELSE 0
  <2> SUFFICES ASSUME NEW g
               PROVE  Cardinality(PlacesOf(ns, g)) =
                        Cardinality(PlacesOf(es, g)) + IF g = f THEN 1 ELSE 0
    OBVIOUS
  <2>1. CASE g = f
    BY <1>5, <2>1
  <2>2. CASE g # f
    <3>1. Cardinality(PlacesOf(es, g)) \in Nat
      BY PlacesFinite
    <3> QED BY <1>4, <2>2, <3>1
  <2> QED BY <2>1, <2>2
<1>7. \A g, k : k \in PlacesOf(es, g) => ns[k] = es[k]
  BY <1>1 DEF PlacesOf
<1>8. ASSUME NEW g, g # f, Filled(es, g) PROVE Filled(ns, g)
  <2>1. {ns[k].offset : k \in PlacesOf(es, g)} = {es[k].offset : k \in PlacesOf(es, g)}
    BY <1>7
  <2> QED BY <1>4, <1>7, <1>8, <2>1 DEF Filled
<1>9. ASSUME Filled(es, f) PROVE Filled(ns, f)
  <2> DEFINE c == Cardinality(PlacesOf(es, f))
  <2>1. {ns[k].offset : k \in PlacesOf(es, f)} = {es[k].offset : k \in PlacesOf(es, f)}
    BY <1>7
  <2>2. {ns[k].offset : k \in PlacesOf(ns, f)}
          = {ns[k].offset : k \in PlacesOf(es, f)} \union {ns[n].offset}
    BY <1>3
  <2>3. {es[k].offset : k \in PlacesOf(es, f)} = 0..(c - 1)
    BY <1>9 DEF Filled
  <2>4. {ns[k].offset : k \in PlacesOf(ns, f)} = 0..(c - 1) \union {c}
    BY <1>1, <2>1, <2>2, <2>3
  <2>5. c \in Nat /\ Cardinality(PlacesOf(ns, f)) = c + 1
    BY <1>5
  <2> HIDE DEF c
  <2>6. 0..(c - 1) \union {c} = 0..((c + 1) - 1)
    BY <2>5
  <2>7. \A k \in PlacesOf(ns, f) : ns[k].space = SpaceOf(f)
    <3>1. \A k \in PlacesOf(es, f) : es[k].space = SpaceOf(f)
      BY <1>9 DEF Filled
    <3> QED BY <1>1, <1>3, <1>7, <3>1
  <2> QED BY <2>4, <2>5, <2>6, <2>7 DEF Filled
<1>10. \A k \in DOMAIN ns : ns[k].type = "USERFUNC" => k \in DOMAIN es /\ ns[k] = es[k]
  BY <1>1
<1>11. AllFilled(ns)
  <2>1. \A k \in DOMAIN ns : ns[k].type = "USERFUNC" => ns[k].space = "unset"
    BY <1>10 DEF AllFilled
  <2>2. \A g \in {0} \union {k \in DOMAIN ns : ns[k].type = "USERFUNC"} : Filled(es, g)
    BY <1>10 DEF AllFilled
  <2> QED BY <1>8, <1>9, <2>1, <2>2 DEF AllFilled
<1> QED BY <1>6, <1>11 DEF ns

\* The frames dx are of the kinds and in the functions of cx.
SameKinds(cx, dx) ==
  /\ Len(dx) = Len(cx)
  /\ \A i \in 1..Len(cx) : dx[i].kind = cx[i].kind /\ dx[i].fn = cx[i].fn

\* Where only operands change, what is counted and saved is still so.
LEMMA CountedSame ==
  ASSUME NEW cx \in Seq(FrameType), Len(cx) >= 1, NEW dx, SameKinds(cx, dx),
         NEW counter, NEW saved, Counted(cx, counter, saved)
  PROVE  Counted(dx, counter, saved)
<1>1. /\ Len(dx) = Len(cx) /\ Len(cx) \in 1..Len(cx) /\ Len(cx) \in Nat
      /\ \A i \in 1..Len(cx) : dx[i].kind = cx[i].kind /\ dx[i].fn = cx[i].fn
  BY LenProperties DEF SameKinds
<1>2. ASSUME NEW K, NEW i \in 1..Len(cx) PROVE Count(dx, K, i) = Count(cx, K, i)
  <2>1. i \in Nat /\ \A j \in 1..i : j \in 1..Len(cx)
    BY <1>1
  <2>2. \A j \in 1..i : dx[j].kind \in K <=> cx[j].kind \in K
    BY <1>1, <2>1
  <2> QED BY <2>1, <2>2, CountSame
<1>3. counter = 1 + 2 * Count(dx, {"body"}, Len(dx))
                 + IF Innermost(dx).kind = "header" THEN 1 ELSE 0
  BY <1>1, <1>2 DEF Counted, Innermost
<1>4. saved \in Seq(Nat) /\ Len(saved) = Count(dx, Calls, Len(dx))
  BY <1>1, <1>2 DEF Counted
<1>5. \A i \in 1..Len(dx) : (dx[i].fn = 0) <=> (Count(dx, Calls, i) = 0)
  BY <1>1, <1>2 DEF Counted
<1> QED BY <1>3, <1>4, <1>5 DEF Counted

\* So are the counters of places, if no place was given.
LEMMA PlacedSame ==
  ASSUME NEW cx \in Seq(FrameType), Len(cx) >= 1, NEW dx, SameKinds(cx, dx),
         NEW es, NEW ns, Unplaced(es, ns), NEW off, NEW saved, Placed(es, cx, off, saved)
  PROVE  Placed(ns, dx, off, saved)
<1>1. /\ Len(dx) = Len(cx) /\ Len(cx) \in 1..Len(cx) /\ Len(cx) \in Nat
      /\ \A i \in 1..Len(cx) : dx[i].kind = cx[i].kind /\ dx[i].fn = cx[i].fn
  BY LenProperties DEF SameKinds
<1>2. ASSUME NEW i \in 1..Len(cx) PROVE Count(dx, Calls, i) = Count(cx, Calls, i)
  <2>1. i \in Nat /\ \A j \in 1..i : j \in 1..Len(cx)
    BY <1>1
  <2>2. \A j \in 1..i : dx[j].kind \in Calls <=> cx[j].kind \in Calls
    BY <1>1, <2>1
  <2> QED BY <2>1, <2>2, CountSame
<1>3. \A f : PlacesOf(ns, f) = PlacesOf(es, f)
  BY PlacesSame
<1>4. ASSUME NEW i \in 2..Len(dx), dx[i].kind \in Calls
      PROVE  saved[Count(dx, Calls, i)] = Cardinality(PlacesOf(ns, dx[i - 1].fn))
  <2>1. i \in 2..Len(cx) /\ i \in 1..Len(cx) /\ i - 1 \in 1..Len(cx)
    BY <1>1
  <2>2. cx[i].kind \in Calls /\ dx[i - 1].fn = cx[i - 1].fn
    BY <1>1, <1>4, <2>1
  <2> QED BY <1>2, <1>3, <2>1, <2>2 DEF Placed
<1>5. Innermost(dx).kind = Innermost(cx).kind /\ Innermost(dx).fn = Innermost(cx).fn
  BY <1>1 DEF Innermost
<1> QED BY <1>3, <1>4, <1>5 DEF Placed

\* A block begins.
LEMMA CountedBlock ==
  ASSUME NEW cx \in Seq(FrameType), Len(cx) >= 1, Innermost(cx).kind # "header",
         NEW fr \in FrameType, fr.kind = "block", fr.fn = Innermost(cx).fn,
         NEW counter, NEW saved, Counted(cx, counter, saved),
         NEW es, NEW off, Placed(es, cx, off, saved)
  PROVE  Counted(Append(cx, fr), counter, saved) /\ Placed(es, Append(cx, fr), off, saved)
<1> DEFINE dx == Append(cx, fr)
           n == Len(cx)
<1>1. /\ Len(dx) = n + 1 /\ dx[n + 1] = fr /\ \A i \in 1..n : dx[i] = cx[i]
      /\ n \in Nat /\ n >= 1
  BY AppendProperties, LenProperties
<1> HIDE DEF dx, n
<1>2. ASSUME NEW K, NEW i \in 1..n PROVE Count(dx, K, i) = Count(cx, K, i)
  <2>1. i \in Nat /\ \A j \in 1..i : j \in 1..n
    BY <1>1
  <2> QED BY <1>1, <2>1, CountSame
<1>3. ASSUME NEW K, "block" \notin K
      PROVE  Count(dx, K, n + 1) = Count(cx, K, n) /\ Count(cx, K, n) \in Nat
  <2>1. n \in 1..n /\ dx[n + 1].kind \notin K
    BY <1>1, <1>3
  <2>2. Count(dx, K, n) = Count(cx, K, n)
    BY <1>2, <2>1
  <2>3. Count(dx, K, n + 1) = Count(dx, K, n) /\ Count(dx, K, n) \in Nat
    BY <1>1, <2>1, CountOut
  <2> QED BY <2>2, <2>3
<1>4. Innermost(dx) = fr /\ Innermost(cx) = cx[n]
  BY <1>1 DEF Innermost, n
<1>5. /\ Count(dx, {"body"}, Len(dx)) = Count(cx, {"body"}, n)
      /\ Count(dx, Calls, Len(dx)) = Count(cx, Calls, n)
  BY <1>1, <1>3 DEF Calls
<1>6. counter = 1 + 2 * Count(dx, {"body"}, Len(dx))
                 + IF Innermost(dx).kind = "header" THEN 1 ELSE 0
  BY <1>4, <1>5 DEF Counted, n
<1>7. ASSUME NEW i \in 1..Len(dx)
      PROVE  (dx[i].fn = 0) <=> (Count(dx, Calls, i) = 0)
  <2>1. CASE i \in 1..n
    BY <1>1, <1>2, <2>1 DEF Counted, n
  <2>2. CASE i \notin 1..n
    <3>1. i = n + 1 /\ n \in 1..n
      BY <1>1, <2>2
    <3>2. (cx[n].fn = 0) <=> (Count(cx, Calls, n) = 0)
      BY <3>1 DEF Counted, n
    <3> QED BY <1>1, <1>4, <1>5, <3>1, <3>2
  <2> QED BY <2>1, <2>2
<1>8. Counted(dx, counter, saved)
  BY <1>5, <1>6, <1>7 DEF Counted, n
<1>9. ASSUME NEW i \in 2..Len(dx), dx[i].kind \in Calls
      PROVE  saved[Count(dx, Calls, i)] = Cardinality(PlacesOf(es, dx[i - 1].fn))
  <2>1. i # n + 1
    BY <1>1, <1>9 DEF Calls
  <2>2. i \in 2..n /\ i \in 1..n /\ i - 1 \in 1..n
    BY <1>1, <2>1
  <2>3. cx[i].kind \in Calls /\ dx[i - 1] = cx[i - 1]
    BY <1>1, <1>9, <2>2
  <2> QED BY <1>2, <2>2, <2>3 DEF Placed, n
<1>10. Placed(es, dx, off, saved)
  BY <1>4, <1>9 DEF Placed
<1> QED BY <1>8, <1>10 DEF dx

\* A block has ended.
LEMMA CountedUnblock ==
  ASSUME NEW cx \in Seq(FrameType), NEW es \in Seq(Symbol), Framed(es, cx),
         NEW dx, Shorter(cx, dx), Innermost(cx).kind = "block",
         NEW counter, NEW saved, Counted(cx, counter, saved),
         NEW off, Placed(es, cx, off, saved), NEW ns, Unplaced(es, ns)
  PROVE  Counted(dx, counter, saved) /\ Placed(ns, dx, off, saved)
<1> DEFINE n == Len(cx)
           m == n - 1
<1>1. /\ n \in Nat /\ n >= 2 /\ Len(dx) = m /\ m \in 1..n /\ n = m + 1 /\ m # n
      /\ \A i \in 1..m : dx[i].kind = cx[i].kind /\ dx[i].fn = cx[i].fn
  <2>1. n \in Nat /\ n >= 2 /\ Len(dx) = m
    BY LenProperties DEF Shorter
  <2>2. m \in 1..n /\ n = m + 1 /\ m # n
    BY <2>1
  <2> QED BY <2>1, <2>2 DEF Shorter
<1>2. ASSUME NEW K, NEW i \in 1..m PROVE Count(dx, K, i) = Count(cx, K, i)
  <2>1. i \in Nat /\ \A j \in 1..i : j \in 1..m
    BY <1>1
  <2>2. \A j \in 1..i : dx[j].kind \in K <=> cx[j].kind \in K
    BY <1>1, <2>1
  <2> QED BY <2>1, <2>2, CountSame
<1>3. Innermost(cx) = cx[n] /\ Innermost(dx) = dx[m]
  BY <1>1 DEF Innermost
<1>4. cx[n].fn = cx[m].fn /\ cx[m].kind # "header"
  <2>1. n \in 2..n
    BY <1>1
  <2> QED BY <1>1, <1>3, <2>1 DEF Framed
<1> HIDE DEF n, m
<1>5. ASSUME NEW K, "block" \notin K
      PROVE  Count(dx, K, m) = Count(cx, K, n) /\ Count(cx, K, n) \in Nat
  <2>1. m \in 1..m /\ cx[m + 1].kind \notin K
    BY <1>1, <1>3, <1>5
  <2>2. Count(dx, K, m) = Count(cx, K, m)
    BY <1>2, <2>1
  <2>3. Count(cx, K, m + 1) = Count(cx, K, m) /\ Count(cx, K, m) \in Nat
    BY <1>1, <2>1, CountOut
  <2> QED BY <1>1, <2>2, <2>3
<1>6. /\ Count(dx, {"body"}, m) = Count(cx, {"body"}, n)
      /\ Count(dx, Calls, m) = Count(cx, Calls, n)
  BY <1>5 DEF Calls
<1>7. m \in 1..m /\ dx[m].kind # "header" /\ dx[m].fn = cx[n].fn
  BY <1>1, <1>4
<1>8. counter = 1 + 2 * Count(dx, {"body"}, Len(dx))
                 + IF Innermost(dx).kind = "header" THEN 1 ELSE 0
  BY <1>1, <1>3, <1>6, <1>7 DEF Counted, n
<1>9. ASSUME NEW i \in 1..Len(dx)
      PROVE  (dx[i].fn = 0) <=> (Count(dx, Calls, i) = 0)
  <2>1. i \in 1..m /\ i \in 1..n
    BY <1>1
  <2> QED BY <1>1, <1>2, <2>1 DEF Counted, n
<1>10. Counted(dx, counter, saved)
  BY <1>1, <1>6, <1>8, <1>9 DEF Counted, n
<1>11. ASSUME NEW i \in 2..Len(dx), dx[i].kind \in Calls
       PROVE  saved[Count(dx, Calls, i)] = Cardinality(PlacesOf(ns, dx[i - 1].fn))
  <2>1. i \in 2..n /\ i \in 1..m /\ i - 1 \in 1..m
    BY <1>1
  <2>2. cx[i].kind \in Calls /\ dx[i - 1].fn = cx[i - 1].fn
    BY <1>1, <1>11, <2>1
  <2> QED BY <1>2, <2>1, <2>2, PlacesSame DEF Placed, n
<1>12. off[SpaceOf(Innermost(dx).fn)] = Cardinality(PlacesOf(ns, Innermost(dx).fn))
  BY <1>3, <1>7, PlacesSame DEF Placed
<1>13. Placed(ns, dx, off, saved)
  BY <1>3, <1>7, <1>11, <1>12 DEF Placed
<1> QED BY <1>10, <1>13

\* A function begins: the next place of the one around it is saved.
LEMMA CountedHeader ==
  ASSUME NEW es \in Seq(Symbol), NEW cx, Framed(es, cx), Innermost(cx).kind # "header",
         \A k \in DOMAIN es : es[k].in \in 0..(k - 1),
         NEW fr \in FrameType, fr.kind = "header", fr.fn >= Len(es), fr.fn # 0,
         NEW counter, NEW saved, Counted(cx, counter, saved),
         NEW ns, Unplaced(es, ns), NEW off, Placed(es, cx, off, saved)
  PROVE  LET dx == Append(cx, fr)
             after == Append(saved, off[get_curr_scope_space(counter)])
         IN  /\ Counted(dx, counter + 1, after)
             /\ Placed(ns, dx, [off EXCEPT !["formal_argument"] = 0], after)
<1> DEFINE dx == Append(cx, fr)
           n == Len(cx)
           v == off[get_curr_scope_space(counter)]
           after == Append(saved, v)
<1>1. /\ Len(dx) = n + 1 /\ dx[n + 1] = fr /\ \A i \in 1..n : dx[i] = cx[i]
      /\ n \in Nat /\ n >= 1 /\ n \in 1..n
  <2>1. cx \in Seq(FrameType) /\ n \in Nat /\ n >= 1
    BY LenProperties DEF Framed
  <2> QED BY <2>1, AppendProperties
<1>2. Innermost(dx) = fr /\ Innermost(cx) = cx[n]
  BY <1>1 DEF Innermost
<1>3. v \in Nat /\ v = Cardinality(PlacesOf(es, cx[n].fn)) /\ counter \in Nat
      /\ Count(cx, {"body"}, n) = Count(cx, Calls, n)
  <2>1. /\ get_curr_scope_space(counter) = SpaceOf(Innermost(cx).fn) /\ counter \in Nat
        /\ Count(cx, {"body"}, n) = Count(cx, Calls, n)
    BY SpaceIs
  <2>2. v = Cardinality(PlacesOf(es, cx[n].fn))
    BY <1>2, <2>1 DEF Placed
  <2>3. v \in Nat
    BY <2>2, PlacesFinite
  <2> QED BY <2>1, <2>2, <2>3
<1>4. saved \in Seq(Nat) /\ Len(saved) = Count(cx, Calls, n) /\ Len(saved) \in Nat
  BY LenProperties DEF Counted
<1>5. /\ after \in Seq(Nat) /\ Len(after) = Len(saved) + 1 /\ after[Len(saved) + 1] = v
      /\ \A i \in 1..Len(saved) : after[i] = saved[i]
  BY <1>3, <1>4, AppendProperties
<1> HIDE DEF dx, n, v, after
<1>6. ASSUME NEW K, NEW i \in 1..n PROVE Count(dx, K, i) = Count(cx, K, i)
  <2>1. i \in Nat /\ \A j \in 1..i : j \in 1..n
    BY <1>1
  <2> QED BY <1>1, <2>1, CountSame
<1>7. /\ Count(dx, {"body"}, n + 1) = Count(cx, {"body"}, n)
      /\ Count(dx, Calls, n + 1) = Count(cx, Calls, n) + 1
  <2>1. Count(dx, {"body"}, n + 1) = Count(dx, {"body"}, n)
    BY <1>1, CountOut
  <2>2. Count(dx, Calls, n + 1) = Count(dx, Calls, n) + 1
    BY <1>1, CountIn DEF Calls
  <2> QED BY <1>1, <1>6, <2>1, <2>2
<1>8. counter + 1 = 1 + 2 * Count(dx, {"body"}, Len(dx))
                 + IF Innermost(dx).kind = "header" THEN 1 ELSE 0
  <2>1. counter = 1 + 2 * Count(cx, {"body"}, n) + 0
    BY DEF Counted, n
  <2>2. Count(cx, {"body"}, n) \in Nat
    BY <1>1, CountStep
  <2> QED BY <1>1, <1>2, <1>7, <2>1, <2>2
<1>9. ASSUME NEW i \in 1..Len(dx)
      PROVE  (dx[i].fn = 0) <=> (Count(dx, Calls, i) = 0)
  <2>1. CASE i \in 1..n
    BY <1>1, <1>6, <2>1 DEF Counted, n
  <2>2. CASE i \notin 1..n
    <3>1. i = n + 1
      BY <1>1, <2>2
    <3>2. Count(dx, Calls, i) # 0
      BY <1>4, <1>7, <3>1
    <3> QED BY <1>1, <3>1, <3>2
  <2> QED BY <2>1, <2>2
<1>10. Counted(dx, counter + 1, after)
  BY <1>1, <1>4, <1>5, <1>7, <1>8, <1>9 DEF Counted
<1>11. ASSUME NEW i \in 2..Len(dx), dx[i].kind \in Calls
       PROVE  after[Count(dx, Calls, i)] = Cardinality(PlacesOf(ns, dx[i - 1].fn))
  <2>1. CASE i \in 1..n
    <3>1. i \in 2..n /\ i - 1 \in 1..n
      BY <1>1, <2>1
    <3>2. cx[i].kind \in Calls /\ dx[i - 1] = cx[i - 1]
      BY <1>1, <1>11, <2>1, <3>1
    <3>3. Count(cx, Calls, i) \in 1..Len(saved)
      BY <1>1, <1>4, <2>1, <3>2, CountedHere
    <3>4. saved[Count(cx, Calls, i)] = Cardinality(PlacesOf(es, cx[i - 1].fn))
      BY <3>1, <3>2 DEF Placed, n
    <3> QED BY <1>5, <1>6, <2>1, <3>2, <3>3, <3>4, PlacesSame
  <2>2. CASE i \notin 1..n
    <3>1. i = n + 1 /\ i - 1 = n
      BY <1>1, <2>2
    <3>2. dx[i - 1] = cx[n]
      BY <1>1, <3>1
    <3>3. Count(dx, Calls, i) = Len(saved) + 1
      BY <1>4, <1>7, <3>1
    <3> QED BY <1>3, <1>5, <3>2, <3>3, PlacesSame
  <2> QED BY <2>1, <2>2
<1>12. PlacesOf(ns, fr.fn) = {}
  <2>1. fr.fn \in Nat
    BY DEF FrameType
  <2> QED BY <2>1, NoPlaces, PlacesSame
<1>13. [off EXCEPT !["formal_argument"] = 0]
         \in [{"program_variable", "function_local", "formal_argument"} -> Nat]
  BY DEF Placed
<1>14. Placed(ns, dx, [off EXCEPT !["formal_argument"] = 0], after)
  BY <1>2, <1>11, <1>12, <1>13 DEF Placed
<1> QED BY <1>10, <1>14 DEF dx, v, after

\* The parameters have been read: a body begins with no places taken.
LEMMA CountedBody ==
  ASSUME NEW es \in Seq(Symbol), NEW cx, Framed(es, cx), Innermost(cx).kind = "header",
         NEW dx, Len(dx) = Len(cx), \A i \in 1..Len(cx) : dx[i].fn = cx[i].fn,
         \A i \in 1..(Len(cx) - 1) : dx[i].kind = cx[i].kind,
         Innermost(dx).kind = "body",
         NEW counter, NEW saved, Counted(cx, counter, saved),
         NEW ns, Unplaced(es, ns), NEW off, Placed(es, cx, off, saved)
  PROVE  /\ Counted(dx, counter + 1, saved)
         /\ Placed(ns, dx, [off EXCEPT !["function_local"] = 0], saved)
<1> DEFINE n == Len(cx)
           m == n - 1
<1>1. cx \in Seq(FrameType) /\ n \in Nat /\ n >= 1
  BY LenProperties DEF Framed
<1>2. n >= 2
  <2>1. n # 1
    BY DEF Framed, Innermost
  <2> QED BY <1>1, <2>1
<1>3. m \in Nat /\ m \in 1..n /\ n = m + 1 /\ n \in 2..n /\ n \in 1..n
  BY <1>1, <1>2
<1>4. cx[n].kind = "header" /\ dx[n].kind = "body" /\ dx[n].fn = cx[n].fn
  BY <1>3 DEF Innermost
<1>5. cx[n].fn # 0
  <2>1. cx[n].fn \in DOMAIN es
    BY <1>3, <1>4 DEF Framed, Calls
  <2> QED BY <2>1, Sequences
<1> HIDE DEF n, m
<1>6. \A i \in 1..n : dx[i].kind \in Calls <=> cx[i].kind \in Calls
  <2> SUFFICES ASSUME NEW i \in 1..n PROVE dx[i].kind \in Calls <=> cx[i].kind \in Calls
    OBVIOUS
  <2>1. CASE i = n
    BY <1>4, <2>1 DEF Calls
  <2>2. CASE i # n
    <3>1. i \in 1..(Len(cx) - 1)
      BY <1>1, <2>2 DEF n
    <3> QED BY <3>1
  <2> QED BY <2>1, <2>2
<1>7. ASSUME NEW i \in 1..n PROVE Count(dx, Calls, i) = Count(cx, Calls, i)
  <2>1. i \in Nat /\ \A j \in 1..i : j \in 1..n
    BY <1>1
  <2> QED BY <1>6, <2>1, CountSame
<1>8. /\ Count(dx, {"body"}, n) = Count(cx, {"body"}, n) + 1
      /\ Count(cx, {"body"}, n) \in Nat
  <2>1. \A i \in 1..m : dx[i].kind \in {"body"} <=> cx[i].kind \in {"body"}
    BY DEF m, n
  <2>2. Count(dx, {"body"}, m) = Count(cx, {"body"}, m)
    BY <1>3, <2>1, CountSame
  <2>3. Count(cx, {"body"}, m + 1) = Count(cx, {"body"}, m) /\ Count(cx, {"body"}, m) \in Nat
    BY <1>3, <1>4, CountOut
  <2>4. Count(dx, {"body"}, m + 1) = Count(dx, {"body"}, m) + 1
    BY <1>3, <1>4, CountIn
  <2> QED BY <1>3, <2>2, <2>3, <2>4
<1>9. counter + 1 = 1 + 2 * Count(dx, {"body"}, Len(dx))
                 + IF Innermost(dx).kind = "header" THEN 1 ELSE 0
  <2>1. counter = 1 + 2 * Count(cx, {"body"}, n) + 1
    BY DEF Counted, n
  <2> QED BY <1>8, <2>1 DEF n
<1>10. Counted(dx, counter + 1, saved)
  <2>1. saved \in Seq(Nat) /\ Len(saved) = Count(dx, Calls, Len(dx))
    BY <1>3, <1>7 DEF Counted, n
  <2>2. \A i \in 1..Len(dx) : (dx[i].fn = 0) <=> (Count(dx, Calls, i) = 0)
    BY <1>7 DEF Counted, n
  <2> QED BY <1>9, <2>1, <2>2 DEF Counted
<1>11. ASSUME NEW i \in 2..Len(dx), dx[i].kind \in Calls
       PROVE  saved[Count(dx, Calls, i)] = Cardinality(PlacesOf(ns, dx[i - 1].fn))
  <2>1. i \in 2..n /\ i \in 1..n /\ i - 1 \in 1..n
    BY <1>1 DEF n
  <2>2. cx[i].kind \in Calls /\ dx[i - 1].fn = cx[i - 1].fn
    BY <1>6, <1>11, <2>1 DEF n
  <2> QED BY <1>7, <2>1, <2>2, PlacesSame DEF Placed, n
<1>12. Cardinality(PlacesOf(ns, cx[n].fn)) = 0
  <2>1. PlacesOf(es, cx[n].fn) = {}
    BY DEF Placed, Innermost, n
  <2> QED BY <2>1, PlacesSame, FS_EmptySet
<1>13. /\ [off EXCEPT !["function_local"] = 0]
            \in [{"program_variable", "function_local", "formal_argument"} -> Nat]
       /\ [off EXCEPT !["function_local"] = 0]["function_local"] = 0
  BY DEF Placed
<1>14. Innermost(dx).fn = cx[n].fn
  BY <1>4 DEF Innermost, n
<1>15. SpaceOf(cx[n].fn) = "function_local"
  BY <1>5 DEF SpaceOf
<1>16. Placed(ns, dx, [off EXCEPT !["function_local"] = 0], saved)
  BY <1>11, <1>12, <1>13, <1>14, <1>15 DEF Placed
<1> QED BY <1>10, <1>16

\* A function ends: that around it goes on with the next of its places.
LEMMA CountedEnd ==
  ASSUME NEW es \in Seq(Symbol), NEW cx, Framed(es, cx), Innermost(cx).kind = "body",
         NEW dx, Shorter(cx, dx), NEW ns \in Seq(Symbol), Unplaced(es, ns), Framed(ns, dx),
         NEW counter, NEW saved, Counted(cx, counter, saved),
         NEW off, Placed(es, cx, off, saved)
  PROVE  /\ Counted(dx, counter - 2, Front(saved))
         /\ Placed(ns, dx, [off EXCEPT ![get_curr_scope_space(counter - 2)] = Last(saved)],
                   Front(saved))
<1> DEFINE n == Len(cx)
           m == n - 1
           before == Front(saved)
           space == get_curr_scope_space(counter - 2)
<1>1. /\ n \in Nat /\ n >= 2 /\ Len(dx) = m
      /\ \A i \in 1..m : dx[i].kind = cx[i].kind /\ dx[i].fn = cx[i].fn
  BY LenProperties DEF Shorter, Framed
<1>2. /\ m \in Nat /\ m \in 1..m /\ m \in 1..n /\ n = m + 1 /\ m # n /\ n \in 1..n
      /\ n \in 2..n
  BY <1>1
<1>3. Innermost(cx) = cx[n] /\ Innermost(dx) = dx[m]
  BY <1>1 DEF Innermost
<1>4. cx[n].kind = "body" /\ dx[m].kind # "header"
  <2>1. cx[m].kind # "header"
    BY <1>2 DEF Framed
  <2> QED BY <1>1, <1>2, <1>3, <2>1
<1>5. saved \in Seq(Nat) /\ Len(saved) = Count(cx, Calls, n)
  BY DEF Counted
<1> HIDE DEF n, m
<1>6. ASSUME NEW K, NEW i \in 1..m PROVE Count(dx, K, i) = Count(cx, K, i)
  <2>1. i \in Nat /\ \A j \in 1..i : j \in 1..m
    BY <1>2
  <2>2. \A j \in 1..i : dx[j].kind \in K <=> cx[j].kind \in K
    BY <1>1, <2>1
  <2> QED BY <2>1, <2>2, CountSame
<1>7. /\ Count(cx, {"body"}, n) = Count(dx, {"body"}, m) + 1
      /\ Count(cx, Calls, n) = Count(dx, Calls, m) + 1
      /\ Count(dx, {"body"}, m) \in Nat /\ Count(dx, Calls, m) \in Nat
  <2>1. Count(cx, {"body"}, m + 1) = Count(cx, {"body"}, m) + 1 /\ Count(cx, {"body"}, m) \in Nat
    BY <1>2, <1>4, CountIn
  <2>2. Count(cx, Calls, m + 1) = Count(cx, Calls, m) + 1 /\ Count(cx, Calls, m) \in Nat
    BY <1>2, <1>4, CountIn DEF Calls
  <2> QED BY <1>2, <1>6, <2>1, <2>2
<1>8. /\ before \in Seq(Nat) /\ Len(before) = Len(saved) - 1 /\ saved # <<>>
      /\ \A i \in 1..(Len(saved) - 1) : before[i] = saved[i]
      /\ Last(saved) = saved[Len(saved)] /\ Last(saved) \in Nat
  <2>1. Len(saved) \in Nat /\ Len(saved) >= 1
    BY <1>5, <1>7
  <2>2. saved # <<>> /\ Len(saved) \in 1..Len(saved)
    BY <2>1, EmptySeq
  <2>3. /\ before \in Seq(Nat) /\ Len(before) = Len(saved) - 1
        /\ \A i \in 1..(Len(saved) - 1) : before[i] = saved[i]
    BY <1>5, <2>1, FrontIs
  <2>4. Last(saved) = saved[Len(saved)] /\ Last(saved) \in Nat
    BY <1>5, <2>1, FrontIs
  <2> QED BY <2>2, <2>3, <2>4
<1>9. counter - 2 = 1 + 2 * Count(dx, {"body"}, Len(dx))
                 + IF Innermost(dx).kind = "header" THEN 1 ELSE 0
  <2>1. counter = 1 + 2 * Count(cx, {"body"}, n) + 0
    BY <1>3, <1>4 DEF Counted, n
  <2> QED BY <1>1, <1>3, <1>4, <1>7, <2>1
<1>10. ASSUME NEW i \in 1..Len(dx)
       PROVE  (dx[i].fn = 0) <=> (Count(dx, Calls, i) = 0)
  <2>1. i \in 1..m /\ i \in 1..n
    BY <1>1, <1>2
  <2> QED BY <1>1, <1>6, <2>1 DEF Counted, n
<1>11. Counted(dx, counter - 2, before)
  <2>1. Len(before) = Count(dx, Calls, Len(dx))
    BY <1>1, <1>5, <1>7, <1>8
  <2> QED BY <1>8, <1>9, <1>10, <2>1 DEF Counted
<1>12. ASSUME NEW i \in 2..Len(dx), dx[i].kind \in Calls
       PROVE  before[Count(dx, Calls, i)] = Cardinality(PlacesOf(ns, dx[i - 1].fn))
  <2>1. i \in 2..n /\ i \in 1..m /\ i - 1 \in 1..m
    BY <1>1, <1>2
  <2>2. cx[i].kind \in Calls /\ dx[i - 1].fn = cx[i - 1].fn
    BY <1>1, <1>12, <2>1
  <2>3. Count(dx, Calls, i) \in 1..Count(dx, Calls, m)
    BY <1>2, <1>12, <2>1, CountedHere
  <2>4. Count(dx, Calls, i) \in 1..(Len(saved) - 1)
    BY <1>5, <1>7, <2>3
  <2>5. saved[Count(cx, Calls, i)] = Cardinality(PlacesOf(es, cx[i - 1].fn))
    BY <2>1, <2>2 DEF Placed, n
  <2>6. before[Count(dx, Calls, i)] = saved[Count(cx, Calls, i)]
    BY <1>6, <1>8, <2>1, <2>4
  <2> QED BY <2>2, <2>5, <2>6, PlacesSame
<1>13. Last(saved) = Cardinality(PlacesOf(ns, dx[m].fn))
  <2>1. saved[Count(cx, Calls, n)] = Cardinality(PlacesOf(es, cx[n - 1].fn))
    BY <1>2, <1>4 DEF Placed, Calls, n
  <2>2. cx[n - 1].fn = dx[m].fn
    BY <1>1, <1>2 DEF m
  <2> QED BY <1>5, <1>8, <2>1, <2>2, PlacesSame
<1>14. space = SpaceOf(dx[m].fn)
  BY <1>3, <1>4, <1>11, SpaceIs
<1>15. SpaceOf(dx[m].fn) \in {"program_variable", "function_local", "formal_argument"}
  BY DEF SpaceOf
<1> HIDE DEF space, before
<1>16. /\ [off EXCEPT ![space] = Last(saved)]
            \in [{"program_variable", "function_local", "formal_argument"} -> Nat]
       /\ [off EXCEPT ![space] = Last(saved)][SpaceOf(dx[m].fn)] = Last(saved)
  BY <1>8, <1>14, <1>15 DEF Placed
<1>17. Placed(ns, dx, [off EXCEPT ![space] = Last(saved)], before)
  BY <1>3, <1>4, <1>12, <1>13, <1>16 DEF Placed
<1> QED BY <1>11, <1>17 DEF space, before

-----------------------------------------------------------------------------
(* The steps.  Those that leave a result and no more come first. *)

\* The frame being read is the innermost.
LEMMA TopIs ==
  ASSUME Inv
  PROVE  /\ ctx \in Seq(FrameType) /\ Len(ctx) \in Nat /\ Len(ctx) >= 1
         /\ Len(ctx) \in 1..Len(ctx)
         /\ Top = Innermost(ctx) /\ Top = ctx[Len(ctx)] /\ Top \in FrameType
         /\ fn = ctx[Len(ctx)].fn /\ operands = ctx[Len(ctx)].operands
         /\ operands \in Seq(OperandType) /\ Len(operands) \in Nat
         /\ \A i \in 1..Len(operands) : operands[i] \in OperandType
<1>1. ctx \in Seq(FrameType) /\ Len(ctx) \in Nat /\ Len(ctx) >= 1
  BY LenProperties DEF Inv, Framed
<1>2. Len(ctx) \in 1..Len(ctx)
  BY <1>1
<1>3. Top = ctx[Len(ctx)] /\ Top = Innermost(ctx)
  BY DEF Top, Last, Innermost
<1>4. Top \in FrameType
  BY <1>1, <1>2, <1>3, ElementOfSeq
<1>5. operands \in Seq(OperandType)
  BY <1>4 DEF operands, FrameType
<1>6. Len(operands) \in Nat /\ \A i \in 1..Len(operands) : operands[i] \in OperandType
  BY <1>5, LenProperties, ElementOfSeq
<1> QED BY <1>1, <1>2, <1>3, <1>4, <1>5, <1>6 DEF fn, operands

\* Names of temporaries are different ones, and none of a program's.
LEMMA TempNamesAre ==
  /\ Len(TempNames) = 6
  /\ \A i \in 1..6 : TempNames[i] \in STRING /\ TempNames[i] \notin Var \union Fun
  /\ \A i, j \in 1..6 : TempNames[i] = TempNames[j] => i = j
<1>1. /\ Len(TempNames) = 6 /\ DOMAIN TempNames = 1..6
      /\ TempNames[1] = "@t0" /\ TempNames[2] = "@t1" /\ TempNames[3] = "@t2"
      /\ TempNames[4] = "@t3" /\ TempNames[5] = "@t4" /\ TempNames[6] = "@t5"
  BY DEF TempNames
<1> HIDE DEF TempNames
<1>2. \A i \in 1..6 : i = 1 \/ i = 2 \/ i = 3 \/ i = 4 \/ i = 5 \/ i = 6
  OBVIOUS
<1>3. \A i \in 1..6 : TempNames[i] \in ToSet(TempNames)
  BY <1>1 DEF ToSet
<1>4. \A i \in 1..6 : TempNames[i] \notin Var \union Fun
  BY <1>3, NamesAssumption
<1>5. \A i \in 1..6 : TempNames[i] \in STRING
  BY <1>3, NamesAssumption
<1>6. \A i, j \in 1..6 : TempNames[i] = TempNames[j] => i = j
  BY <1>1, <1>2
<1> QED BY <1>1, <1>4, <1>5, <1>6

\* The temporary of a result is a symbol of the scope being read, new or of an
\* earlier statement, with the next name.
LEMMA TempIs ==
  ASSUME Inv, Top.kind # "header", CanCompute
  PROVE  /\ current_scope = Len(ctx) - 1
         /\ Puts(entries, WithTemp, current_scope, fn)
         /\ Unplaced(entries, WithTemp)
         /\ \A k \in (Len(entries) + 1)..Len(WithTemp) : ~WithTemp[k].func_is_open
         /\ Temp \in DOMAIN WithTemp /\ Temp # 0
         /\ WithTemp[Temp].name = TempNames[temp_var_counter + 1]
         /\ WithTemp[Temp].scope = current_scope /\ WithTemp[Temp].in = fn
         /\ temp_var_counter + 1 \in 1..6
<1> DEFINE n == new_temp_name
<1>1. /\ entries \in Seq(Symbol) /\ DOMAIN entries = 1..Len(entries) /\ Len(entries) \in Nat
      /\ \A k \in 1..Len(entries) : entries[k].scope \in Nat
  BY Sequences, Fields DEF Inv
<1>2. /\ current_scope = Len(ctx) - 1 /\ current_scope \in Nat
      /\ \A k \in DOMAIN entries : entries[k].isActive =>
           entries[k].scope <= current_scope /\ ctx[entries[k].scope + 1].fn = entries[k].in
      /\ \A j, k \in DOMAIN entries :
           j < k /\ entries[j].isActive /\ entries[k].isActive
             => entries[j].scope <= entries[k].scope
  BY TopIs DEF Inv, Scoped
<1>3. temp_var_counter + 1 \in 1..6 /\ n = TempNames[temp_var_counter + 1] /\ n \in STRING
  BY TempNamesAre DEF Inv, CanCompute, new_temp_name
<1>4. fn \in Nat /\ fn = ctx[Len(ctx)].fn
  BY TopIs DEF FrameType
<1> HIDE DEF n
<1>5. CASE SymTable_contains(n, current_scope)
  <2> DEFINE all == UNION {ActiveAt(n, s) : s \in 0..current_scope}
  <2>1. WithTemp = entries /\ Temp = SymTable_get(n)
    BY <1>5 DEF WithTemp, Temp, temp_scope, n
  <2>2. PICK k0 \in DOMAIN entries :
          entries[k0].name = n /\ entries[k0].scope = current_scope /\ entries[k0].isActive
    BY <1>5 DEF SymTable_contains, ActiveAt
  <2>3. \A k \in all : /\ k \in DOMAIN entries /\ entries[k].name = n /\ entries[k].isActive
    BY DEF ActiveAt
  <2>4. k0 \in all
    <3>1. k0 \in ActiveAt(n, current_scope)
      BY <2>2 DEF ActiveAt
    <3>2. current_scope \in 0..current_scope
      BY <1>2
    <3> QED BY <3>1, <3>2
  <2> HIDE DEF all
  <2>5. all \subseteq 0..Len(entries) /\ all # {}
    BY <1>1, <2>3, <2>4
  <2>6. Max(all) \in all /\ Max(all) >= k0
    BY <1>1, <2>4, <2>5, MaxIsLast
  <2>7. Temp = Max(all)
    BY <2>1, <2>5 DEF SymTable_get, all
  <2>8. /\ Temp \in DOMAIN entries /\ entries[Temp].name = n /\ entries[Temp].isActive
        /\ Temp >= k0
    BY <2>3, <2>6, <2>7
  <2>9. entries[Temp].scope = current_scope
    <3>1. CASE Temp = k0
      BY <2>2, <3>1
    <3>2. CASE Temp # k0
      <4>1. k0 < Temp
        BY <1>1, <2>2, <2>8, <3>2
      <4>2. entries[k0].scope <= entries[Temp].scope /\ entries[Temp].scope <= current_scope
        BY <1>2, <2>2, <2>8, <4>1
      <4> QED BY <1>1, <1>2, <2>2, <2>8, <4>2
    <3> QED BY <3>1, <3>2
  <2>10. entries[Temp].in = fn
    <3>1. ctx[entries[Temp].scope + 1].fn = entries[Temp].in
      BY <1>2, <2>8
    <3>2. entries[Temp].scope + 1 = Len(ctx)
      BY <1>2, <2>9, TopIs
    <3> QED BY <1>4, <3>1, <3>2
  <2>11. Temp # 0
    BY <1>1, <2>8
  <2>12. Puts(entries, WithTemp, current_scope, fn)
    BY <1>1, <2>1 DEF Puts
  <2>13. Unplaced(entries, WithTemp)
    BY <2>1 DEF Unplaced
  <2>14. \A k \in (Len(entries) + 1)..Len(WithTemp) : ~WithTemp[k].func_is_open
    BY <1>1, <2>1
  <2> QED BY <1>2, <1>3, <2>1, <2>8, <2>9, <2>10, <2>11, <2>12, <2>13, <2>14
<1>6. CASE ~SymTable_contains(n, current_scope)
  <2> DEFINE e == Entry(n, current_scope, "TEMP", fn)
             m == Len(entries) + 1
  <2>1. WithTemp = Append(entries, e) /\ Temp = m
    BY <1>6 DEF WithTemp, Temp, temp_scope, n
  <2>2. /\ e \in Symbol /\ e.name = n /\ e.scope = current_scope /\ e.in = fn
        /\ e.isActive /\ ~e.func_is_open /\ e.space = "unset"
    BY <1>2, <1>3, <1>4 DEF Entry, Symbol
  <2> HIDE DEF e
  <2>3. /\ WithTemp \in Seq(Symbol) /\ Len(WithTemp) = m /\ WithTemp[m] = e
        /\ \A k \in 1..Len(entries) : WithTemp[k] = entries[k]
    BY <1>1, <2>1, <2>2, AppendProperties
  <2>4. /\ DOMAIN WithTemp = 1..m /\ m \in 1..m /\ m # 0
        /\ \A k \in (Len(entries) + 1)..m : k = m
    BY <1>1, <2>3, LenProperties
  <2>5. Puts(entries, WithTemp, current_scope, fn)
    BY <1>1, <2>2, <2>3, <2>4 DEF Puts
  <2>6. Unplaced(entries, WithTemp)
    <3>1. \A k \in DOMAIN entries : k \in DOMAIN WithTemp /\ WithTemp[k] = entries[k]
      BY <1>1, <2>3, <2>4
    <3>2. \A k \in DOMAIN WithTemp : k \notin DOMAIN entries => WithTemp[k] = e
      BY <1>1, <2>3, <2>4
    <3> QED BY <2>2, <3>1, <3>2 DEF Unplaced
  <2>7. \A k \in (Len(entries) + 1)..Len(WithTemp) : ~WithTemp[k].func_is_open
    BY <2>2, <2>3, <2>4
  <2> QED BY <1>2, <1>3, <2>1, <2>2, <2>3, <2>4, <2>5, <2>6, <2>7
<1> QED BY <1>5, <1>6

\* No parameters are being read in the frames of an expression.
LEMMA NoHeader ==
  ASSUME Inv, Top.kind # "header"
  PROVE  /\ \A i \in 1..Len(ctx) : ctx[i].kind # "header"
         /\ current_scope = Len(ctx) - 1 /\ current_scope \in Nat
<1>1. /\ \A i \in 1..Len(ctx) : ctx[i].kind = "header" => i = Len(ctx)
      /\ Top = ctx[Len(ctx)] /\ Innermost(ctx) = Top
  BY TopIs DEF Inv, Framed
<1>2. current_scope = Len(ctx) - 1
  BY <1>1, TopIs DEF Inv, Scoped
<1>3. current_scope \in Nat
  BY <1>2, TopIs
<1> QED BY <1>1, <1>2, <1>3

\* A result of an expression, with what has been put for it, keeps the frames and
\* what is held.
LEMMA ResultFrames ==
  ASSUME Inv, IR_GEN_FAILED = FALSE, Top.kind # "header",
         NEW new \in OperandType, Results(ctx, ctx', new),
         Puts(entries, entries', current_scope, fn),
         \A k \in (Len(entries) + 1)..Len(entries') : ~entries'[k].func_is_open,
         temp_var_counter' \in temp_var_counter..Len(TempNames),
         IR_GEN_FAILED' \in BOOLEAN,
         OperandKept(new, entries', ctx', Len(ctx), temp_var_counter', IR_GEN_FAILED'),
         UNCHANGED <<current_scope, scope_space_counter, function_offset_stack>>
  PROVE  /\ entries' \in Seq(Symbol) /\ temp_var_counter' \in 0..Len(TempNames)
         /\ Framed(entries', ctx') /\ Scoped(entries', ctx', current_scope')
         /\ Held(entries', ctx', temp_var_counter', IR_GEN_FAILED')
         /\ Counted(ctx', scope_space_counter', function_offset_stack')
         /\ SameKinds(ctx, ctx')
         /\ operands' # <<>> /\ Nth(0)' = new /\ Top'.kind # "header"
<1>1. /\ ctx \in Seq(FrameType) /\ Len(ctx) \in Nat /\ Len(ctx) >= 1
      /\ fn = Innermost(ctx).fn
  BY TopIs DEF fn
<1>2. /\ entries \in Seq(Symbol) /\ Framed(entries, ctx)
      /\ Scoped(entries, ctx, current_scope)
      /\ Held(entries, ctx, temp_var_counter, FALSE)
      /\ Counted(ctx, scope_space_counter, function_offset_stack)
      /\ temp_var_counter \in 0..Len(TempNames)
  BY DEF Inv
<1>4. /\ \A i \in 1..Len(ctx) : ctx[i].kind # "header"
      /\ current_scope = Len(ctx) - 1 /\ current_scope \in Nat
  BY NoHeader
<1>5. /\ ctx' \in Seq(FrameType) /\ Len(ctx') = Len(ctx)
      /\ \A i \in 1..Len(ctx) : ctx'[i].kind = ctx[i].kind /\ ctx'[i].fn = ctx[i].fn
      /\ Innermost(ctx').operands # <<>> /\ Last(Innermost(ctx').operands) = new
  BY DEF Results
<1>6. SameShape(ctx, ctx') /\ SameKinds(ctx, ctx')
  BY <1>4, <1>5 DEF SameShape, SameKinds
<1>7. Innermost(ctx').kind # "header"
  BY <1>1, <1>4, <1>5 DEF Innermost
<1>8. entries' \in Seq(Symbol) /\ Keeps(entries, entries')
  BY <1>2, PutsKeeps DEF Puts
<1>9. Framed(entries', ctx')
  BY <1>2, <1>4, <1>6, FramedPut
<1>10. Scoped(entries', ctx', current_scope')
  <2>1. Puts(entries, entries', current_scope, Innermost(ctx).fn)
    BY <1>1
  <2>2. current_scope = Len(ctx') - 1
    BY <1>4, <1>5
  <2> QED BY <1>2, <1>6, <1>7, <2>1, <2>2, ScopedPut
<1>11. /\ temp_var_counter \in Nat /\ temp_var_counter' \in Nat
       /\ temp_var_counter <= temp_var_counter' /\ temp_var_counter' \in 0..Len(TempNames)
  BY <1>2, TempNamesAre
<1>12. Held(entries', ctx', temp_var_counter', IR_GEN_FAILED')
  BY <1>2, <1>8, <1>11, HeldResult
<1>13. operands' # <<>> /\ Nth(0)' = new /\ Top'.kind # "header"
  <2>0. Top'.kind # "header"
    BY <1>7 DEF Top, Last, Innermost
  <2>1. operands' = Innermost(ctx').operands
    BY DEF operands, Top, Last, Innermost
  <2>2. Last(operands') = new /\ operands' # <<>>
    BY <1>5, <2>1
  <2>3. operands' \in Seq(OperandType) /\ Len(operands') \in Nat
    <3>1. Innermost(ctx') \in FrameType
      <4>1. Len(ctx') \in 1..Len(ctx')
        BY <1>1, <1>5
      <4> QED BY <1>5, <4>1, ElementOfSeq DEF Innermost
    <3> QED BY <2>1, <3>1, LenProperties DEF FrameType
  <2>4. Nth(0)' = operands'[Len(operands') - 0]
    BY DEF Nth
  <2>5. Len(operands') - 0 = Len(operands')
    BY <2>3
  <2> QED BY <2>0, <2>2, <2>4, <2>5 DEF Last
<1>14. Counted(ctx', scope_space_counter', function_offset_stack')
  BY <1>1, <1>2, <1>6, CountedSame
<1> QED BY <1>6, <1>8, <1>9, <1>10, <1>11, <1>12, <1>13, <1>14

\* A value, with what has been put for it, keeps the invariant.
LEMMA ResultStep ==
  ASSUME Inv, IR_GEN_FAILED = FALSE, Top.kind # "header",
         NEW new \in OperandType, new.kind = "value", Results(ctx, ctx', new),
         Puts(entries, entries', current_scope, fn), Unplaced(entries, entries'),
         \A k \in (Len(entries) + 1)..Len(entries') : ~entries'[k].func_is_open,
         temp_var_counter' \in temp_var_counter..Len(TempNames),
         IR_GEN_FAILED' \in BOOLEAN,
         OperandKept(new, entries', ctx', Len(ctx), temp_var_counter', IR_GEN_FAILED'),
         UNCHANGED <<current_scope, places>>
  PROVE  Inv'
<1>1. /\ ctx \in Seq(FrameType) /\ Len(ctx) >= 1
      /\ entries \in Seq(Symbol) /\ \A k \in DOMAIN entries : entries[k].in \in 0..(k - 1)
      /\ Placed(entries, ctx, offset, function_offset_stack) /\ AllFilled(entries)
  BY TopIs DEF Inv, Scoped
<1>2. /\ offset' = offset /\ function_offset_stack' = function_offset_stack
      /\ UNCHANGED <<current_scope, scope_space_counter, function_offset_stack>>
  BY DEF places
<1>3. /\ entries' \in Seq(Symbol) /\ temp_var_counter' \in 0..Len(TempNames)
      /\ Framed(entries', ctx') /\ Scoped(entries', ctx', current_scope')
      /\ Held(entries', ctx', temp_var_counter', IR_GEN_FAILED')
      /\ Counted(ctx', scope_space_counter', function_offset_stack')
      /\ SameKinds(ctx, ctx')
      /\ operands' # <<>> /\ Nth(0)' = new /\ Top'.kind # "header"
  BY <1>2, ResultFrames
<1>4. ReadLast'
  BY <1>3 DEF ReadLast
<1>5. Placed(entries', ctx', offset', function_offset_stack')
  BY <1>1, <1>2, <1>3, PlacedSame
<1>6. AllFilled(entries')
  BY <1>1, <1>3, FilledNext
<1> QED BY <1>3, <1>4, <1>5, <1>6 DEF Inv

\* So does one that nothing has been written for but the last operands.
LEMMA PlainStep ==
  ASSUME Inv, IR_GEN_FAILED = FALSE, Top.kind # "header",
         NEW n \in 0..Len(operands), NEW new \in OperandType, new.kind = "value",
         Operands(Append(Without(n), new)),
         Puts(entries, entries', current_scope, fn), Unplaced(entries, entries'),
         \A k \in (Len(entries) + 1)..Len(entries') : ~entries'[k].func_is_open,
         temp_var_counter' \in temp_var_counter..Len(TempNames),
         IR_GEN_FAILED' \in BOOLEAN,
         OperandKept(new, entries', ctx', Len(ctx), temp_var_counter', IR_GEN_FAILED'),
         UNCHANGED <<current_scope, places>>
  PROVE  Inv'
<1>1. /\ ctx \in Seq(FrameType) /\ Len(ctx) >= 1 /\ Innermost(ctx).operands = operands
      /\ Len(operands) \in Nat
  BY TopIs DEF operands
<1>2. Marks(ctx, ctx)
  BY NothingMarked DEF Inv
<1> DEFINE m == Len(operands) - n
<1>3. m \in 0..Len(Innermost(ctx).operands)
  BY <1>1
<1>4. ctx' = Holding(ctx, Append(SubSeq(Innermost(ctx).operands, 1, m), new))
  BY <1>1 DEF Operands, Without
<1> HIDE DEF m
<1>5. Results(ctx, ctx', new)
  BY <1>1, <1>2, <1>3, <1>4, HoldingResult
<1> QED BY <1>5, ResultStep

\* A result in a temporary, when variables of the program are written as well.
LEMMA ComputeStep ==
  ASSUME Inv, IR_GEN_FAILED = FALSE, Top.kind # "header", CanCompute,
         NEW n \in 0..Len(operands), NEW S,
         \A x \in S : x \in DOMAIN entries /\ entries[x].name \in Var \union Fun,
         Compute(n, S), IR_GEN_FAILED' \in BOOLEAN, UNCHANGED <<current_scope, places>>
  PROVE  Inv'
<1> DEFINE T == S \union {Temp}
           new == Operand("value", Temp, TRUE)
           t == temp_var_counter
<1>1. /\ current_scope = Len(ctx) - 1
      /\ Puts(entries, WithTemp, current_scope, fn)
      /\ Unplaced(entries, WithTemp)
      /\ \A k \in (Len(entries) + 1)..Len(WithTemp) : ~WithTemp[k].func_is_open
      /\ Temp \in DOMAIN WithTemp /\ Temp # 0
      /\ WithTemp[Temp].name = TempNames[t + 1]
      /\ WithTemp[Temp].scope = current_scope /\ WithTemp[Temp].in = fn
      /\ t + 1 \in 1..6
  BY TempIs
<1>2. /\ ctx \in Seq(FrameType) /\ Len(ctx) \in Nat /\ Len(ctx) >= 1 /\ Len(ctx) \in 1..Len(ctx)
      /\ fn = ctx[Len(ctx)].fn /\ operands = ctx[Len(ctx)].operands
      /\ Len(operands) \in Nat
  BY TopIs
<1>3. /\ entries \in Seq(Symbol) /\ DOMAIN entries = 1..Len(entries)
      /\ Held(entries, ctx, t, FALSE) /\ Framed(entries, ctx) /\ t \in Nat
  <2>1. /\ entries \in Seq(Symbol) /\ Held(entries, ctx, t, FALSE) /\ Framed(entries, ctx)
        /\ t \in 0..Len(TempNames)
    BY DEF Inv
  <2>2. DOMAIN entries = 1..Len(entries)
    BY <2>1, LenProperties
  <2>3. t \in Nat
    BY <2>1
  <2> QED BY <2>1, <2>2, <2>3
<1>4. ASSUME NEW i \in 1..Len(ctx), NEW j \in 1..Len(ctx[i].operands),
             ctx[i].operands[j].computed, ctx[i].operands[j].sym \in T
      PROVE  ctx[i].operands[j].spoiled
  <2> DEFINE o == ctx[i].operands[j]
  <2>1. OperandKept(o, entries, ctx, i, t, FALSE)
    BY <1>3 DEF Held
  <2>2. SUFFICES ASSUME ~o.spoiled PROVE FALSE
    OBVIOUS
  <2>3. o.sym \in DOMAIN entries /\ entries[o.sym].scope = i - 1
    BY <1>4, <2>1 DEF OperandKept
  <2>4. PICK c \in 1..Len(TempNames) :
          entries[o.sym].name = TempNames[c] /\ (c <= t \/ Overtaken(ctx, i))
    BY <1>4, <2>1, <2>2 DEF OperandKept
  <2>5. o.sym \notin S
    BY <2>4, TempNamesAre
  <2>6. o.sym = Temp
    BY <1>4, <2>5
  <2> HIDE DEF o
  <2>7. WithTemp[Temp] = entries[Temp]
    BY <1>1, <1>3, <2>3, <2>6 DEF Puts
  <2>8. i - 1 = Len(ctx) - 1
    BY <1>1, <2>3, <2>6, <2>7
  <2>9. c = t + 1
    <3>1. TempNames[c] = TempNames[t + 1]
      BY <1>1, <2>4, <2>6, <2>7
    <3>2. c \in 1..6
      BY TempNamesAre
    <3> QED BY <1>1, <3>1, <3>2, TempNamesAre
  <2>10. Overtaken(ctx, i)
    BY <1>3, <2>4, <2>9
  <2> QED BY <1>2, <2>8, <2>10 DEF Overtaken
<1>5. Marks(ctx, Written(T))
  BY <1>3, <1>4, WrittenMarks
<1>6. new \in OperandType /\ new.kind = "value"
  <2>1. Temp \in Nat
    <3>1. WithTemp \in Seq(Symbol)
      BY <1>1 DEF Puts
    <3> QED BY <1>1, <3>1, LenProperties
  <2> QED BY <2>1 DEF Operand, OperandType
<1> DEFINE wx == Written(T)
           m == Len(operands) - n
<1>7. wx \in Seq(FrameType) /\ Len(wx) = Len(ctx) /\ Len(Innermost(wx).operands) = Len(operands)
  BY <1>2, <1>5 DEF Marks, Innermost
<1>8. Last(wx) = Innermost(wx) /\ m \in 0..Len(Innermost(wx).operands)
  BY <1>2, <1>7 DEF Last, Innermost
<1>9. /\ entries' = WithTemp /\ temp_var_counter' = t + 1
      /\ ctx' = Holding(wx, Append(SubSeq(Innermost(wx).operands, 1, m), new))
  BY <1>8 DEF Compute, NewTemp
<1>10. Results(ctx, ctx', new)
  <2> HIDE DEF wx, m, new
  <2> QED BY <1>2, <1>5, <1>6, <1>8, <1>9, HoldingResult DEF wx
<1>11. OperandKept(new, entries', ctx', Len(ctx), temp_var_counter', IR_GEN_FAILED')
  <2>1. /\ new.sym = Temp /\ new.computed /\ ~new.lost /\ new.kind = "value"
    BY DEF Operand
  <2>2. ctx'[Len(ctx)].fn = fn
    BY <1>2, <1>10 DEF Results
  <2>3. t + 1 \in 1..Len(TempNames) /\ t + 1 <= t + 1
    BY <1>1, <1>3, TempNamesAre
  <2> HIDE DEF new
  <2> QED BY <1>1, <1>9, <2>1, <2>2, <2>3 DEF OperandKept
<1>12. temp_var_counter' \in temp_var_counter..Len(TempNames)
  BY <1>1, <1>3, <1>9, TempNamesAre
<1> HIDE DEF new, T
<1>13. /\ Puts(entries, entries', current_scope, fn) /\ Unplaced(entries, entries')
       /\ \A k \in (Len(entries) + 1)..Len(entries') : ~entries'[k].func_is_open
  BY <1>1, <1>9
<1> QED BY <1>6, <1>10, <1>11, <1>12, <1>13, ResultStep

\* The closest symbol of a name has that name and is active; when there is none,
\* no active entry from the current scope outwards has it.
LEMMA ClosestIs ==
  ASSUME entries \in Seq(Symbol), NEW s \in Nat, NEW n
  PROVE  LET k == SymTable_get_closest_scope(n, s)
         IN  /\ k # 0 => k \in DOMAIN entries /\ entries[k].name = n /\ entries[k].isActive
             /\ k = 0 => \A t \in 0..s : ActiveAt(n, t) = {}
<1> DEFINE scopes == {t \in 0..s : SymTable_contains(n, t)}
           k == SymTable_get_closest_scope(n, s)
<1>1. DOMAIN entries = 1..Len(entries) /\ Len(entries) \in Nat
  BY Sequences
<1>2. CASE scopes = {}
  <2>1. k = 0
    BY <1>2 DEF SymTable_get_closest_scope
  <2>2. \A t \in 0..s : ActiveAt(n, t) = {}
    BY <1>2 DEF SymTable_contains
  <2> QED BY <2>1, <2>2
<1>3. CASE scopes # {}
  <2>1. scopes \subseteq 0..s
    OBVIOUS
  <2>2. Max(scopes) \in scopes
    <3> HIDE DEF scopes
    <3> QED BY <1>3, <2>1, MaxIsLast
  <2> DEFINE A == ActiveAt(n, Max(scopes))
  <2>3. SymTable_contains(n, Max(scopes))
    BY <2>2
  <2>4. A # {} /\ A \subseteq DOMAIN entries
    BY <2>3 DEF SymTable_contains, ActiveAt
  <2>5. k = Min(A)
    BY <1>3, <2>3 DEF SymTable_get_closest_scope, SymTable_get_entry_at_scope
  <2>6. A \subseteq Nat
    BY <1>1, <2>4
  <2>7. Min(A) \in A
    <3> HIDE DEF A
    <3> QED BY <2>4, <2>6, MinIsFirst
  <2>8. k \in DOMAIN entries /\ entries[k].name = n /\ entries[k].isActive
    BY <2>5, <2>7 DEF ActiveAt
  <2>9. k # 0
    BY <1>1, <2>8
  <2> QED BY <2>8, <2>9
<1> QED BY <1>2, <1>3

\* The name of a variable that is read for the first time is then what it means.
LEMMA NewIsClosest ==
  ASSUME entries \in Seq(Symbol), current_scope \in Nat, NEW n,
         ActiveAt(n, current_scope) = {},
         NEW v \in Symbol, v.name = n, v.scope = current_scope, v.isActive,
         entries' = Append(entries, v), current_scope' = current_scope
  PROVE  SymTable_get_closest_scope(n, current_scope)' = Len(entries) + 1
<1> DEFINE m == Len(entries) + 1
           s == current_scope
           found(t) == {k \in DOMAIN entries' :
                          entries'[k].name = n /\ entries'[k].scope = t /\ entries'[k].isActive}
           scopes == {t \in 0..s : found(t) # {}}
<1>1. /\ DOMAIN entries' = 1..m /\ DOMAIN entries = 1..Len(entries) /\ Len(entries) \in Nat
      /\ entries'[m] = v /\ \A k \in 1..Len(entries) : entries'[k] = entries[k]
  BY AppendProperties, Sequences
<1>2. \A k \in DOMAIN entries :
        ~(entries[k].name = n /\ entries[k].scope = s /\ entries[k].isActive)
  BY DEF ActiveAt
<1>3. found(s) = {m}
  <2>1. m \in found(s)
    BY <1>1
  <2>2. ASSUME NEW k \in found(s) PROVE k = m
    <3>1. k \in DOMAIN entries' /\ entries'[k].name = n /\ entries'[k].scope = s
          /\ entries'[k].isActive
      OBVIOUS
    <3>2. k \notin DOMAIN entries
      BY <1>1, <1>2, <3>1
    <3> QED BY <1>1, <3>1, <3>2
  <2> QED BY <2>1, <2>2
<1>4. s \in scopes /\ scopes \subseteq 0..s /\ scopes \subseteq Nat /\ \A t \in scopes : s >= t
  <2>1. s \in 0..s
    OBVIOUS
  <2> HIDE DEF found, s
  <2>2. s \in scopes
    BY <1>3, <2>1
  <2>3. scopes \subseteq 0..s
    OBVIOUS
  <2> HIDE DEF scopes
  <2>4. s \in Nat
    BY DEF s
  <2> QED BY <2>2, <2>3, <2>4
<1> HIDE DEF found
<1>5. Max(scopes) = s
  <2> HIDE DEF scopes
  <2> QED BY <1>4, MaxIs
<1>6. Min(found(s)) = m
  <2>1. m \in Nat
    BY <1>1
  <2> HIDE DEF m
  <2>2. {m} \subseteq Nat /\ m \in {m} /\ \A y \in {m} : m <= y
    BY <2>1
  <2>3. Min({m}) = m
    BY <2>2, MinIs
  <2> QED BY <1>3, <2>3
<1>7. \A t : ActiveAt(n, t)' = found(t)
  BY DEF ActiveAt, found
<1>8. \A t : SymTable_contains(n, t)' <=> found(t) # {}
  BY <1>7 DEF SymTable_contains
<1>9. {t \in 0..s : SymTable_contains(n, t)'} = scopes
  BY <1>8
<1>10. SymTable_get_entry_at_scope(n, s)' = m
  BY <1>3, <1>6, <1>7, <1>8 DEF SymTable_get_entry_at_scope
<1>11. scopes # {}
  BY <1>4
<1> HIDE DEF scopes, m
<1> QED BY <1>5, <1>9, <1>10, <1>11 DEF SymTable_get_closest_scope, m

\* A variable that is declared takes the next place, and moves no other function's.
LEMMA PlacedVariable ==
  ASSUME NEW es \in Seq(Symbol), NEW cx, Framed(es, cx), Innermost(cx).kind # "header",
         NEW s, Scoped(es, cx, s), NEW off, NEW saved, Placed(es, cx, off, saved),
         AllFilled(es), NEW v \in Symbol, v.type # "USERFUNC", v.in = Innermost(cx).fn,
         v.space = SpaceOf(v.in), v.offset = off[v.space],
         NEW dx, SameKinds(cx, dx)
  PROVE  /\ Placed(Append(es, v), dx, [off EXCEPT ![v.space] = @ + 1], saved)
         /\ AllFilled(Append(es, v))
<1> DEFINE f == Innermost(cx).fn
           ns == Append(es, v)
           up == [off EXCEPT ![v.space] = @ + 1]
           n == Len(cx)
<1>1. /\ cx \in Seq(FrameType) /\ n \in Nat /\ n >= 1 /\ n \in 1..n /\ f = cx[n].fn
      /\ \A k \in DOMAIN es : es[k].in \in 0..(k - 1)
  BY Sequences DEF Framed, Scoped, Innermost
<1>2. off[SpaceOf(f)] = Cardinality(PlacesOf(es, f))
  BY DEF Placed
<1>3. /\ AllFilled(ns)
      /\ \A g : Cardinality(PlacesOf(ns, g)) =
                  Cardinality(PlacesOf(es, g)) + IF g = f THEN 1 ELSE 0
  BY <1>1, <1>2, FilledVariable
<1>4. /\ Len(dx) = n /\ \A i \in 1..n : dx[i].kind = cx[i].kind /\ dx[i].fn = cx[i].fn
  BY DEF SameKinds
<1> HIDE DEF ns, n
<1>5. Innermost(dx).kind # "header" /\ Innermost(dx).fn = f
  BY <1>1, <1>4 DEF Innermost, n
<1>6. /\ up \in [{"program_variable", "function_local", "formal_argument"} -> Nat]
      /\ up[SpaceOf(f)] = off[SpaceOf(f)] + 1
  <2>1. SpaceOf(f) \in {"program_variable", "function_local", "formal_argument"}
    BY DEF SpaceOf
  <2> QED BY <2>1 DEF Placed
<1>7. ASSUME NEW i \in 2..Len(dx), dx[i].kind \in Calls
      PROVE  saved[Count(dx, Calls, i)] = Cardinality(PlacesOf(ns, dx[i - 1].fn))
  <2>1. i \in 2..n /\ i \in 1..n /\ i - 1 \in 1..n /\ n \in i..n
    BY <1>1, <1>4
  <2>2. cx[i].kind \in Calls /\ dx[i - 1].fn = cx[i - 1].fn
    BY <1>4, <1>7, <2>1
  <2>3. cx[i - 1].fn # f
    BY <1>1, <2>1, <2>2, OthersAround DEF n
  <2>4. saved[Count(cx, Calls, i)] = Cardinality(PlacesOf(es, cx[i - 1].fn))
    BY <2>1, <2>2 DEF Placed, n
  <2>5. Count(dx, Calls, i) = Count(cx, Calls, i)
    <3>1. i \in Nat /\ \A j \in 1..i : j \in 1..n
      BY <1>1, <2>1
    <3>2. \A j \in 1..i : dx[j].kind \in Calls <=> cx[j].kind \in Calls
      BY <1>4, <3>1
    <3> QED BY <3>1, <3>2, CountSame
  <2>6. Cardinality(PlacesOf(ns, cx[i - 1].fn)) = Cardinality(PlacesOf(es, cx[i - 1].fn))
    <3>1. Cardinality(PlacesOf(es, cx[i - 1].fn)) \in Nat
      BY PlacesFinite
    <3> QED BY <1>3, <2>3, <3>1
  <2> QED BY <2>2, <2>4, <2>5, <2>6
<1>8. up[SpaceOf(f)] = Cardinality(PlacesOf(ns, f))
  BY <1>2, <1>3, <1>6
<1> HIDE DEF up, f
<1>9. Placed(ns, dx, up, saved)
  BY <1>5, <1>6, <1>7, <1>8 DEF Placed
<1> QED BY <1>3, <1>9 DEF ns, up

\* lvalue: the symbol it leaves is what its name means, or global.
LEMMA LvalueStep ==
  ASSUME Inv, IR_GEN_FAILED = FALSE, NEW n \in Var \union Fun, NEW found, lvalue(n, found),
         found # 0 => /\ found \in DOMAIN entries /\ entries[found].name = n
                      /\ \/ SymTable_get_closest_scope(n, current_scope) = found
                         \/ entries[found].scope = 0,
         found = 0 => ActiveAt(n, current_scope) = {}
  PROVE  Inv'
<1>0. PICK sym : sym = IF found = 0 THEN Len(entries) + 1 ELSE found
  OBVIOUS
<1> DEFINE new == Operand("lvalue", sym, FALSE)
<1>1. /\ Top.kind # "header" /\ IR_GEN_FAILED' = FALSE
      /\ temp_var_counter' = temp_var_counter /\ current_scope' = current_scope
      /\ UNCHANGED <<current_scope, scope_space_counter, function_offset_stack>>
      /\ ctx' = Holding(ctx, Append(operands, new))
  BY <1>0 DEF lvalue, CanRead, Operands
<1>2. /\ entries \in Seq(Symbol) /\ DOMAIN entries = 1..Len(entries) /\ Len(entries) \in Nat
      /\ temp_var_counter \in 0..Len(TempNames)
  BY Sequences DEF Inv
<1>3. /\ current_scope = Len(ctx) - 1 /\ current_scope \in Nat
  BY <1>1, NoHeader
<1>4. /\ ctx \in Seq(FrameType) /\ Len(ctx) >= 1 /\ Len(ctx) \in Nat /\ Len(ctx) \in 1..Len(ctx)
      /\ Innermost(ctx).operands = operands /\ Innermost(ctx).kind # "header"
      /\ operands \in Seq(OperandType) /\ Len(operands) \in Nat
      /\ fn = Innermost(ctx).fn /\ fn \in Nat
  BY <1>1, TopIs DEF operands, fn, FrameType
<1>5. /\ found # 0 => found \in DOMAIN entries /\ entries[found].name = n
      /\ found = 0 => ActiveAt(n, current_scope) = {}
  OBVIOUS
<1>6. new \in OperandType /\ sym \in Nat /\ sym # 0
  <2>1. sym \in Nat /\ sym # 0
    BY <1>0, <1>2, <1>5
  <2> QED BY <2>1 DEF Operand, OperandType
<1>7. new.kind = "lvalue" /\ new.sym = sym /\ ~new.computed /\ ~new.lost
  BY DEF Operand
<1> HIDE DEF new
<1>8. Results(ctx, ctx', new)
  <2>1. Marks(ctx, ctx)
    BY NothingMarked DEF Inv
  <2>2. SubSeq(operands, 1, Len(operands)) = operands
    BY <1>4, SubSeqFull
  <2>3. Len(operands) \in 0..Len(operands)
    BY <1>4
  <2>4. ctx' = Holding(ctx, Append(SubSeq(Innermost(ctx).operands, 1, Len(operands)), new))
    BY <1>1, <1>4, <2>2
  <2> QED BY <1>4, <1>6, <2>1, <2>3, <2>4, HoldingResult
<1>9. /\ temp_var_counter' \in temp_var_counter..Len(TempNames) /\ IR_GEN_FAILED' \in BOOLEAN
  <2>1. temp_var_counter \in temp_var_counter..6
    BY <1>2, TempNamesAre
  <2> QED BY <1>1, <2>1, TempNamesAre
<1>10. /\ Framed(entries, ctx) /\ Scoped(entries, ctx, current_scope)
       /\ Counted(ctx, scope_space_counter, function_offset_stack)
       /\ Placed(entries, ctx, offset, function_offset_stack) /\ AllFilled(entries)
  BY DEF Inv
<1>11. ASSUME sym \in DOMAIN entries', entries'[sym].name = n
       PROVE  OperandKept(new, entries', ctx', Len(ctx), temp_var_counter', IR_GEN_FAILED')
  BY <1>6, <1>7, <1>11 DEF OperandKept
<1>12. CASE found # 0
  <2>1. entries' = entries /\ offset' = offset /\ sym = found
    BY <1>0, <1>12 DEF lvalue
  <2>2. OperandKept(new, entries', ctx', Len(ctx), temp_var_counter', IR_GEN_FAILED')
    BY <1>5, <1>11, <1>12, <2>1
  <2>3. /\ Puts(entries, entries', current_scope, fn) /\ Unplaced(entries, entries')
        /\ \A k \in (Len(entries) + 1)..Len(entries') : ~entries'[k].func_is_open
    BY <1>2, <2>1 DEF Puts, Unplaced
  <2>4. /\ entries' \in Seq(Symbol) /\ temp_var_counter' \in 0..Len(TempNames)
        /\ Framed(entries', ctx') /\ Scoped(entries', ctx', current_scope')
        /\ Held(entries', ctx', temp_var_counter', IR_GEN_FAILED')
        /\ Counted(ctx', scope_space_counter', function_offset_stack')
        /\ SameKinds(ctx, ctx')
        /\ operands' # <<>> /\ Nth(0)' = new /\ Top'.kind # "header"
    BY <1>1, <1>6, <1>8, <1>9, <2>2, <2>3, ResultFrames
  <2>5. \/ SymTable_get_closest_scope(entries[sym].name, current_scope)' = sym
        \/ entries'[sym].scope = 0
    <3>1. SymTable_get_closest_scope(n, current_scope)'
            = SymTable_get_closest_scope(n, current_scope)
      BY <1>1, <2>1 DEF SymTable_get_closest_scope, SymTable_contains,
         SymTable_get_entry_at_scope, ActiveAt
    <3>2. entries'[sym].name = n
      BY <1>5, <1>12, <2>1
    <3> QED BY <1>12, <2>1, <3>1, <3>2
  <2>6. ReadLast'
    BY <1>7, <2>4, <2>5 DEF ReadLast, Looked
  <2>7. Placed(entries', ctx', offset', function_offset_stack')
    BY <1>1, <1>4, <1>10, <2>1, <2>3, <2>4, PlacedSame
  <2>8. AllFilled(entries')
    BY <1>10, <2>1
  <2> QED BY <1>9, <2>4, <2>6, <2>7, <2>8 DEF Inv
<1>13. CASE found = 0
  <2> DEFINE v == VariableEntry(n)
  <2>1. entries' = Append(entries, v) /\ offset' = [offset EXCEPT ![Space] = @ + 1]
        /\ sym = Len(entries) + 1
    BY <1>0, <1>13 DEF lvalue
  <2>2. Space = SpaceOf(fn)
    BY <1>2, <1>4, <1>10, SpaceIs DEF Space
  <2> DEFINE type == IF current_scope = 0 THEN "GLOBAL" ELSE "LOCAL"
             e == Entry(n, current_scope, type, fn)
  <2>a. type \in {"GLOBAL", "LOCAL"}
    OBVIOUS
  <2>b. v = [e EXCEPT !.space = Space, !.offset = offset[Space]]
    BY DEF VariableEntry, get_curr_scope_offset
  <2> HIDE DEF type, v
  <2>3. n \in STRING /\ offset[Space] \in Nat
        /\ Space \in {"program_variable", "function_local"}
    <3>1. n \in STRING
      BY NamesAssumption
    <3>2. Space \in {"program_variable", "function_local"}
      BY <2>2 DEF SpaceOf
    <3> QED BY <1>10, <3>1, <3>2 DEF Placed
  <2>4. v \in Symbol
    BY <1>3, <1>4, <2>a, <2>b, <2>3 DEF Entry, Symbol
  <2>5. /\ v.name = n /\ v.scope = current_scope /\ v.isActive /\ ~v.func_is_open
        /\ v.in = fn /\ v.type # "USERFUNC" /\ v.space = Space /\ v.offset = offset[Space]
    BY <2>a, <2>b DEF Entry
  <2>6. /\ entries' \in Seq(Symbol) /\ Len(entries') = sym /\ entries'[sym] = v
        /\ \A k \in 1..Len(entries) : entries'[k] = entries[k]
        /\ \A k \in (Len(entries) + 1)..Len(entries') : k = sym
        /\ sym \in DOMAIN entries'
    BY <1>2, <2>1, <2>4, AppendProperties, LenProperties
  <2>7. OperandKept(new, entries', ctx', Len(ctx), temp_var_counter', IR_GEN_FAILED')
    BY <1>11, <2>5, <2>6
  <2>8. /\ Puts(entries, entries', current_scope, fn)
        /\ \A k \in (Len(entries) + 1)..Len(entries') : ~entries'[k].func_is_open
    BY <1>2, <2>1, <2>5, <2>6 DEF Puts
  <2>9. /\ temp_var_counter' \in 0..Len(TempNames)
        /\ Framed(entries', ctx') /\ Scoped(entries', ctx', current_scope')
        /\ Held(entries', ctx', temp_var_counter', IR_GEN_FAILED')
        /\ Counted(ctx', scope_space_counter', function_offset_stack')
        /\ SameKinds(ctx, ctx')
        /\ operands' # <<>> /\ Nth(0)' = new /\ Top'.kind # "header"
    BY <1>1, <1>6, <1>8, <1>9, <2>7, <2>8, ResultFrames
  <2>10. SymTable_get_closest_scope(entries[sym].name, current_scope)' = sym
    <3>1. SymTable_get_closest_scope(n, current_scope)' = sym
      BY <1>1, <1>2, <1>3, <1>5, <1>13, <2>1, <2>5, <2>4, NewIsClosest
    <3>2. entries'[sym].name = n
      BY <2>5, <2>6
    <3> QED BY <2>1, <3>1, <3>2
  <2>11. ReadLast'
    BY <1>7, <2>9, <2>10 DEF ReadLast, Looked
  <2>12. Placed(entries', ctx', offset', function_offset_stack') /\ AllFilled(entries')
    <3>1. /\ Placed(Append(entries, v), ctx', [offset EXCEPT ![v.space] = @ + 1],
                    function_offset_stack)
          /\ AllFilled(Append(entries, v))
      BY <1>2, <1>4, <1>10, <2>2, <2>5, <2>4, <2>9, PlacedVariable
    <3> QED BY <1>1, <2>1, <2>5, <3>1
  <2> QED BY <1>9, <2>6, <2>9, <2>11, <2>12 DEF Inv
<1> QED BY <1>12, <1>13

\* Where an operand has been read no parameters are being read.
LEMMA NotHeader ==
  ASSUME Inv, operands # <<>>
  PROVE  Top.kind # "header"
BY TopIs DEF Inv, Framed

\* What SymTable_open_func does not refuse is global, or of the function being
\* read: of the functions between, the outermost is open.
LEMMA Reachable ==
  ASSUME Inv, Top.kind # "header", NEW k \in DOMAIN entries, entries[k].isActive,
         ~NoAccess(k)
  PROVE  entries[k].in = fn \/ entries[k].scope = 0
<1> DEFINE n == Len(ctx)
           p == entries[k].scope
           g == entries[k].in
           J == {j \in (p + 1)..n : ctx[j].fn # g}
<1>1. SUFFICES ASSUME p # 0, g # fn PROVE FALSE
  OBVIOUS
<1>2. /\ entries \in Seq(Symbol) /\ DOMAIN entries = 1..Len(entries) /\ Len(entries) \in Nat
      /\ p \in Nat
  <2>1. entries \in Seq(Symbol)
    BY DEF Inv
  <2> QED BY <2>1, Sequences, Fields
<1>3. current_scope = n - 1 /\ current_scope \in Nat
  BY NoHeader
<1>4. /\ ctx \in Seq(FrameType) /\ n \in Nat /\ n >= 1 /\ fn = ctx[n].fn
  BY TopIs
<1>5. p <= current_scope /\ ctx[p + 1].fn = g
  BY DEF Inv, Scoped
<1>6. Framed(entries, ctx)
  BY DEF Inv
<1>7. n \in J /\ J \subseteq Nat
  BY <1>1, <1>2, <1>3, <1>4, <1>5
<1> DEFINE j == Min(J)
<1>8. j \in J /\ \A y \in J : y >= j
  BY <1>7, MinIsFirst
<1> HIDE DEF j, n, p, g
<1>9. j \in (p + 1)..n /\ ctx[j].fn # g /\ j # p + 1
  BY <1>5, <1>8
<1>10. j \in Nat /\ j - 1 \in (p + 1)..n /\ j \in 2..n /\ j - 1 \notin J
  BY <1>2, <1>4, <1>8, <1>9
<1>11. ctx[j - 1].fn = g
  BY <1>10
<1> HIDE DEF J
<1>12. ctx[j].kind \in Calls
  <2>1. ctx[j] \in FrameType
    BY <1>2, <1>4, <1>9, ElementOfSeq DEF n
  <2>2. ctx[j].kind \in {"program", "block", "header", "body"}
    BY <2>1 DEF FrameType
  <2>3. ctx[j].kind # "program" /\ (ctx[j].kind = "block" => ctx[j].fn = ctx[j - 1].fn)
    BY <1>6, <1>10 DEF Framed, n
  <2> QED BY <1>9, <1>11, <2>2, <2>3 DEF Calls
<1> DEFINE f == ctx[j].fn
<1>13. /\ f \in DOMAIN entries /\ entries[f].scope = j - 2 /\ entries[f].func_is_open
       /\ \A l \in DOMAIN entries : l > f => entries[l].scope >= j - 1
  BY <1>6, <1>10, <1>12 DEF Framed, n
<1> HIDE DEF f
<1>14. j - 2 >= p /\ j - 2 <= current_scope
  BY <1>2, <1>3, <1>4, <1>9, <1>10
<1>15. CASE j - 2 = p
  <2>1. f >= k
    <3>1. ~(k > f)
      BY <1>13, <1>15, <1>2, <1>10 DEF p
    <3> QED BY <1>2, <1>13, <3>1
  <2>2. SymTable_open_func(k, current_scope)
    BY <1>13, <1>15, <2>1 DEF SymTable_open_func, p
  <2> QED BY <1>1, <2>2 DEF NoAccess, p
<1>16. CASE j - 2 # p
  <2>1. entries[f].scope \in (entries[k].scope + 1)..current_scope
    BY <1>2, <1>3, <1>10, <1>13, <1>14, <1>16 DEF p
  <2>2. SymTable_open_func(k, current_scope)
    BY <1>13, <2>1 DEF SymTable_open_func
  <2> QED BY <1>1, <2>2 DEF NoAccess, p
<1> QED BY <1>15, <1>16

\* What a failure leaves is no operand.
LEMMA DummyKept ==
  ASSUME NEW es, NEW cx, NEW i, NEW t
  PROVE  OperandKept(Dummy, es, cx, i, t, TRUE) /\ Dummy \in OperandType /\ Dummy.kind = "value"
<1>1. /\ Dummy.sym = 0 /\ Dummy.kind = "value" /\ ~Dummy.computed /\ ~Dummy.lost
      /\ Dummy \in OperandType
  BY DEF Dummy, Operand, OperandType
<1> HIDE DEF Dummy
<1> QED BY <1>1 DEF OperandKept

\* lvalue: ID.  Nothing of that name is closer.
LEMMA VariableStep ==
  ASSUME Inv, IR_GEN_FAILED = FALSE, NEW n \in Var \union Fun, Variable(n)
  PROVE  Inv'
<1>1. PICK found : found = SymTable_get_closest_scope(n, current_scope)
  OBVIOUS
<1>2. lvalue(n, found)
  BY <1>1 DEF Variable
<1>3. /\ entries \in Seq(Symbol) /\ current_scope \in Nat
      /\ current_scope \in 0..current_scope
  <2>1. Top.kind # "header" /\ entries \in Seq(Symbol)
    BY <1>2 DEF lvalue, CanRead, Inv
  <2>2. current_scope \in Nat
    BY <2>1, NoHeader
  <2> QED BY <2>1, <2>2
<1>4. /\ found # 0 => found \in DOMAIN entries /\ entries[found].name = n
      /\ found = 0 => ActiveAt(n, current_scope) = {}
  BY <1>1, <1>3, ClosestIs
<1> QED BY <1>1, <1>2, <1>4, LvalueStep

\* What SymTable_get_entry_at_scope finds
LEMMA EntryAtScopeIs ==
  ASSUME entries \in Seq(Symbol), NEW n, NEW s
  PROVE  LET k == SymTable_get_entry_at_scope(n, s)
         IN  /\ k # 0 => /\ SymTable_contains(n, s)
                         /\ k \in DOMAIN entries /\ entries[k].name = n /\ entries[k].scope = s
             /\ k = 0 => ActiveAt(n, s) = {}
<1> DEFINE A == ActiveAt(n, s)
           k == SymTable_get_entry_at_scope(n, s)
<1>1. DOMAIN entries = 1..Len(entries) /\ Len(entries) \in Nat
  BY Sequences
<1>2. CASE A = {}
  BY <1>2 DEF SymTable_get_entry_at_scope, SymTable_contains
<1>3. CASE A # {}
  <2>1. SymTable_contains(n, s)
    BY <1>3 DEF SymTable_contains
  <2>2. k = Min(A)
    BY <2>1 DEF SymTable_get_entry_at_scope
  <2>3. A \subseteq Nat
    BY <1>1 DEF ActiveAt
  <2>4. Min(A) \in A
    <3> HIDE DEF A
    <3> QED BY <1>3, <2>3, MinIsFirst
  <2>5. k \in DOMAIN entries /\ entries[k].name = n /\ entries[k].scope = s
    BY <2>2, <2>4 DEF ActiveAt
  <2>6. k # 0
    BY <1>1, <2>5
  <2> QED BY <2>1, <2>5, <2>6
<1> QED BY <1>2, <1>3

\* lvalue: LOCAL ID.  A name bound in the current scope is found there from it.
LEMMA LocalVariableStep ==
  ASSUME Inv, IR_GEN_FAILED = FALSE, NEW n \in Var \union Fun, LocalVariable(n)
  PROVE  Inv'
<1>1. PICK found, s : found = SymTable_get_entry_at_scope(n, current_scope) /\ s = current_scope
  OBVIOUS
<1>2. lvalue(n, found)
  BY <1>1 DEF LocalVariable
<1>3. entries \in Seq(Symbol) /\ s \in Nat
  <2>1. Top.kind # "header" /\ entries \in Seq(Symbol)
    BY <1>2 DEF lvalue, CanRead, Inv
  <2>2. current_scope \in Nat
    BY <2>1, NoHeader
  <2> QED BY <1>1, <2>1, <2>2
<1>4. /\ found # 0 => /\ SymTable_contains(n, s)
                      /\ found \in DOMAIN entries /\ entries[found].name = n
      /\ found = 0 => ActiveAt(n, current_scope) = {}
  BY <1>1, <1>3, EntryAtScopeIs
<1>5. ASSUME found # 0
      PROVE  SymTable_get_closest_scope(n, current_scope) = found
  <2> DEFINE scopes == {t \in 0..s : SymTable_contains(n, t)}
  <2>1. s \in scopes /\ scopes \subseteq Nat /\ \A t \in scopes : s >= t
    BY <1>3, <1>4, <1>5
  <2>2. Max(scopes) = s /\ scopes # {}
    <3> HIDE DEF scopes
    <3> QED BY <2>1, MaxIs
  <2>3. SymTable_get_closest_scope(n, s) = SymTable_get_entry_at_scope(n, s)
    BY <2>2 DEF SymTable_get_closest_scope
  <2> QED BY <1>1, <2>3
<1> QED BY <1>2, <1>4, <1>5, LvalueStep

\* lvalue: DOUBLE_COLON ID
LEMMA GlobalVariableStep ==
  ASSUME Inv, IR_GEN_FAILED = FALSE, NEW n \in Var \union Fun, GlobalVariable(n)
  PROVE  Inv'
<1>1. PICK found : found = SymTable_get_entry_at_scope(n, 0)
  OBVIOUS
<1>2. CASE found # 0
  <2>1. lvalue(n, found)
    BY <1>1, <1>2 DEF GlobalVariable
  <2>2. found \in DOMAIN entries /\ entries[found].name = n /\ entries[found].scope = 0
    <3>1. entries \in Seq(Symbol)
      BY DEF Inv
    <3> QED BY <1>1, <1>2, <3>1, EntryAtScopeIs
  <2> QED BY <1>2, <2>1, <2>2, LvalueStep
<1>3. CASE found = 0
  <2>1. /\ Top.kind # "header" /\ Operands(Append(operands, Dummy)) /\ Fail(TRUE)
        /\ entries' = entries /\ temp_var_counter' = temp_var_counter
        /\ UNCHANGED <<current_scope, places>>
    BY <1>1, <1>3 DEF GlobalVariable, CanRead
  <2>2. IR_GEN_FAILED' = TRUE /\ IR_GEN_FAILED' \in BOOLEAN
    BY <2>1 DEF Fail
  <2>3. operands \in Seq(OperandType) /\ Len(operands) \in Nat
    BY TopIs
  <2>4. Operands(Append(Without(0), Dummy)) /\ 0 \in 0..Len(operands)
    <3>1. Without(0) = operands
      BY <2>3, SubSeqFull DEF Without
    <3> QED BY <2>1, <2>3, <3>1
  <2>5. /\ entries \in Seq(Symbol) /\ DOMAIN entries = 1..Len(entries) /\ Len(entries) \in Nat
        /\ temp_var_counter \in 0..Len(TempNames)
    BY Sequences DEF Inv
  <2>6. /\ Puts(entries, entries', current_scope, fn) /\ Unplaced(entries, entries')
        /\ \A k \in (Len(entries) + 1)..Len(entries') : ~entries'[k].func_is_open
    BY <2>1, <2>5 DEF Puts, Unplaced
  <2>7. temp_var_counter' \in temp_var_counter..Len(TempNames)
    <3>1. temp_var_counter \in temp_var_counter..6
      BY <2>5, TempNamesAre
    <3> QED BY <2>1, <3>1, TempNamesAre
  <2>8. /\ OperandKept(Dummy, entries', ctx', Len(ctx), temp_var_counter', IR_GEN_FAILED')
        /\ Dummy \in OperandType /\ Dummy.kind = "value"
    BY <2>2, DummyKept
  <2> QED BY <2>1, <2>2, <2>4, <2>6, <2>7, <2>8, PlainStep
<1> QED BY <1>2, <1>3

\* primary: an lvalue is what it was read as, unless it is refused.
LEMMA PrimaryStep ==
  ASSUME Inv, IR_GEN_FAILED = FALSE, primary
  PROVE  Inv'
<1> DEFINE o == Nth(0)
           refused == ~IsFunction(Looked(o.sym)) /\ NoAccess(Looked(o.sym))
           new == IF refused THEN Dummy ELSE [o EXCEPT !.kind = "value"]
<1>1. /\ operands # <<>> /\ o.kind = "lvalue"
      /\ Operands(Append(Without(1), new))
      /\ IR_GEN_FAILED' = refused
      /\ entries' = entries /\ temp_var_counter' = temp_var_counter
      /\ UNCHANGED <<current_scope, places>>
  BY DEF primary, Fail
<1>2. Top.kind # "header"
  BY <1>1, NotHeader
<1>3. /\ ctx \in Seq(FrameType) /\ Len(ctx) \in Nat /\ Len(ctx) >= 1 /\ Len(ctx) \in 1..Len(ctx)
      /\ fn = ctx[Len(ctx)].fn /\ operands = ctx[Len(ctx)].operands
      /\ operands \in Seq(OperandType) /\ Len(operands) \in Nat
      /\ \A i \in 1..Len(operands) : operands[i] \in OperandType
  BY TopIs
<1>4. Len(operands) \in 1..Len(operands) /\ 1 \in 0..Len(operands)
  <2>1. Len(operands) # 0
    BY <1>1, <1>3, EmptySeq
  <2> QED BY <1>3, <2>1
<1>5. o = operands[Len(operands)] /\ o \in OperandType
  BY <1>3, <1>4 DEF Nth
<1>6. OperandKept(o, entries, ctx, Len(ctx), temp_var_counter, FALSE)
  BY <1>3, <1>4, <1>5 DEF Inv, Held
<1>7. /\ o.sym # 0 /\ o.sym \in DOMAIN entries /\ ~o.computed /\ (o.lost => o.spoiled)
  BY <1>1, <1>6 DEF OperandKept
<1>8. Looked(o.sym) = o.sym \/ entries[o.sym].scope = 0
  BY <1>1 DEF Inv, ReadLast
<1>9. /\ entries \in Seq(Symbol) /\ DOMAIN entries = 1..Len(entries) /\ Len(entries) \in Nat
      /\ temp_var_counter \in 0..Len(TempNames)
  BY Sequences DEF Inv
<1>10. Looked(o.sym) = o.sym => entries[o.sym].isActive
  <2>1. current_scope \in Nat
    BY <1>2, NoHeader
  <2>2. ASSUME Looked(o.sym) = o.sym
        PROVE  SymTable_get_closest_scope(entries[o.sym].name, current_scope) = o.sym
    BY <2>2 DEF Looked
  <2> QED BY <1>7, <1>9, <2>1, <2>2, ClosestIs
<1>11. /\ Puts(entries, entries', current_scope, fn) /\ Unplaced(entries, entries')
       /\ \A k \in (Len(entries) + 1)..Len(entries') : ~entries'[k].func_is_open
  BY <1>1, <1>9 DEF Puts, Unplaced
<1>12. temp_var_counter' \in temp_var_counter..Len(TempNames)
  <2>1. temp_var_counter \in temp_var_counter..6
    BY <1>9, TempNamesAre
  <2> QED BY <1>1, <2>1, TempNamesAre
<1>a. refused \in BOOLEAN
  OBVIOUS
<1> HIDE DEF o, refused
<1>13. CASE refused
  <2>1. new = Dummy /\ IR_GEN_FAILED' = TRUE
    BY <1>1, <1>13
  <2>2. /\ OperandKept(Dummy, entries', ctx', Len(ctx), temp_var_counter', IR_GEN_FAILED')
        /\ Dummy \in OperandType /\ Dummy.kind = "value"
    BY <2>1, DummyKept
  <2>3. Operands(Append(Without(1), Dummy)) /\ IR_GEN_FAILED' \in BOOLEAN
    BY <1>1, <2>1
  <2> QED BY <1>1, <1>2, <1>4, <1>11, <1>12, <2>2, <2>3, PlainStep
<1>14. CASE ~refused
  <2> DEFINE v == [o EXCEPT !.kind = "value"]
  <2>1. new = v /\ IR_GEN_FAILED' \in BOOLEAN
    BY <1>1, <1>a, <1>14
  <2>2. /\ v \in OperandType /\ v.kind = "value" /\ v.sym = o.sym /\ v.computed = o.computed
        /\ v.lost = o.lost /\ v.spoiled = o.spoiled
    BY <1>5 DEF OperandType
  <2> HIDE DEF v
  <2>3. Operands(Append(Without(1), v))
    BY <1>1, <2>1
  <2>4. ctx'[Len(ctx)].fn = ctx[Len(ctx)].fn
    <3>1. ctx' = Holding(ctx, Append(Without(1), v))
      BY <2>3 DEF Operands
    <3>2. Append(Without(1), v) \in Seq(OperandType)
      <4>1. SubSeq(operands, 1, Len(operands) - 1) \in Seq(OperandType)
        BY <1>3, <1>4, FrontIs DEF Front
      <4> QED BY <2>2, <4>1, AppendProperties DEF Without
    <3> QED BY <1>3, <3>1, <3>2, HoldingIs
  <2>5. entries[o.sym].type # "USERFUNC"
          => entries[o.sym].in = ctx[Len(ctx)].fn \/ entries[o.sym].scope = 0
    <3>1. SUFFICES ASSUME entries[o.sym].type # "USERFUNC"
                   PROVE  entries[o.sym].in = fn \/ entries[o.sym].scope = 0
      BY <1>3
    <3>2. CASE Looked(o.sym) = o.sym
      <4>1. ~NoAccess(o.sym)
        BY <1>14, <3>1, <3>2 DEF refused, IsFunction
      <4> QED BY <1>2, <1>7, <1>10, <3>2, <4>1, Reachable
    <3> QED BY <1>8, <3>2
  <2>6. OperandKept(v, entries', ctx', Len(ctx), temp_var_counter', IR_GEN_FAILED')
    BY <1>1, <1>7, <2>2, <2>4, <2>5 DEF OperandKept
  <2> QED BY <1>1, <1>2, <1>4, <1>11, <1>12, <2>1, <2>2, <2>3, <2>6, PlainStep
<1> QED BY <1>13, <1>14

\* The operands of the expression being read are kept, and lvalues among them
\* are symbols of the program's own.
LEMMA NthKept ==
  ASSUME Inv, IR_GEN_FAILED = FALSE, NEW i \in 0..(Len(operands) - 1)
  PROVE  /\ Nth(i) \in OperandType
         /\ OperandKept(Nth(i), entries, ctx, Len(ctx), temp_var_counter, FALSE)
         /\ Nth(i).kind = "lvalue" =>
              Nth(i).sym \in DOMAIN entries /\ entries[Nth(i).sym].name \in Var \union Fun
<1>1. /\ Len(ctx) \in 1..Len(ctx) /\ operands = ctx[Len(ctx)].operands
      /\ Len(operands) \in Nat /\ \A j \in 1..Len(operands) : operands[j] \in OperandType
  BY TopIs
<1>2. Len(operands) - i \in 1..Len(operands)
  BY <1>1
<1>3. Nth(i) = operands[Len(operands) - i]
  BY DEF Nth
<1>4. OperandKept(Nth(i), entries, ctx, Len(ctx), temp_var_counter, FALSE)
  BY <1>1, <1>2, <1>3 DEF Inv, Held
<1>5. Nth(i).kind = "lvalue" =>
        Nth(i).sym \in DOMAIN entries /\ entries[Nth(i).sym].name \in Var \union Fun
  BY <1>4 DEF OperandKept
<1> QED BY <1>1, <1>2, <1>3, <1>4, <1>5

\* expression ADDITION expression
LEMMA ExprStep ==
  ASSUME Inv, IR_GEN_FAILED = FALSE, handle_expr_op_expr
  PROVE  Inv'
<1>1. /\ CanCompute /\ Compute(2, {}) /\ UNCHANGED <<current_scope, places>>
      /\ Len(operands) >= 2
  BY DEF handle_expr_op_expr, Values
<1>2. IR_GEN_FAILED' \in BOOLEAN
  BY DEF handle_expr_op_expr, Fail
<1>3. operands # <<>> /\ 2 \in 0..Len(operands)
  <2>1. Len(operands) \in Nat /\ operands \in Seq(OperandType)
    BY TopIs
  <2> QED BY <1>1, <2>1, EmptySeq
<1>4. Top.kind # "header"
  BY <1>3, NotHeader
<1>5. PICK S : S = {}
  OBVIOUS
<1>6. Compute(2, S) /\ \A x \in S : x \in DOMAIN entries /\ entries[x].name \in Var \union Fun
  BY <1>1, <1>5
<1> QED BY <1>1, <1>2, <1>3, <1>4, <1>6, ComputeStep

\* lvalue ASSIGNMENT expression
LEMMA AssignmentStep ==
  ASSUME Inv, IR_GEN_FAILED = FALSE, assignment_expression
  PROVE  Inv'
<1>1. /\ CanCompute /\ Compute(2, {Nth(1).sym}) /\ UNCHANGED <<current_scope, places>>
      /\ Len(operands) >= 2 /\ Nth(1).kind = "lvalue"
  BY DEF assignment_expression
<1>2. IR_GEN_FAILED' \in BOOLEAN
  BY DEF assignment_expression, Fail
<1>3. operands # <<>> /\ 2 \in 0..Len(operands) /\ 1 \in 0..(Len(operands) - 1)
  <2>1. Len(operands) \in Nat /\ operands \in Seq(OperandType)
    BY TopIs
  <2> QED BY <1>1, <2>1, EmptySeq
<1>4. Top.kind # "header"
  BY <1>3, NotHeader
<1>5. \A x \in {Nth(1).sym} : x \in DOMAIN entries /\ entries[x].name \in Var \union Fun
  BY <1>1, <1>3, NthKept
<1> QED BY <1>1, <1>2, <1>3, <1>4, <1>5, ComputeStep

\* A temporary that is made for nothing.
LEMMA NewTempStep ==
  ASSUME Inv, IR_GEN_FAILED = FALSE, IR_GEN_FAILED' = TRUE, Top.kind # "header",
         CanCompute, NEW n \in 0..Len(operands), Operands(Append(Without(n), Dummy)), NewTemp,
         UNCHANGED <<current_scope, places>>
  PROVE  Inv'
<1>1. /\ Puts(entries, WithTemp, current_scope, fn) /\ Unplaced(entries, WithTemp)
      /\ \A k \in (Len(entries) + 1)..Len(WithTemp) : ~WithTemp[k].func_is_open
      /\ temp_var_counter + 1 \in 1..6
  BY TempIs
<1>2. entries' = WithTemp /\ temp_var_counter' = temp_var_counter + 1
  BY DEF NewTemp
<1>3. temp_var_counter' \in temp_var_counter..Len(TempNames)
  <2>1. temp_var_counter \in 0..6
    BY TempNamesAre DEF Inv
  <2> QED BY <1>1, <1>2, <2>1, TempNamesAre
<1>4. /\ OperandKept(Dummy, entries', ctx', Len(ctx), temp_var_counter', IR_GEN_FAILED')
      /\ Dummy \in OperandType /\ Dummy.kind = "value" /\ IR_GEN_FAILED' \in BOOLEAN
  BY DummyKept
<1>5. /\ Puts(entries, entries', current_scope, fn) /\ Unplaced(entries, entries')
      /\ \A k \in (Len(entries) + 1)..Len(entries') : ~entries'[k].func_is_open
  BY <1>1, <1>2
<1> QED BY <1>3, <1>4, <1>5, PlainStep

\* lvalue INCREMENT
LEMMA PostfixStep ==
  ASSUME Inv, IR_GEN_FAILED = FALSE, postfix_step
  PROVE  Inv'
<1> DEFINE x == Nth(0).sym
           refused == ~IsFunction(Looked(x)) /\ NoAccess(Looked(x))
<1>1. /\ CanCompute /\ UNCHANGED <<current_scope, places>>
      /\ operands # <<>> /\ Nth(0).kind = "lvalue"
      /\ IR_GEN_FAILED' = (IR_GEN_FAILED \/ refused \/ IsFunction(x))
      /\ IF refused THEN NewTemp /\ Operands(Append(Without(1), Dummy))
         ELSE Compute(1, {x})
  BY DEF postfix_step, Fail
<1>2. IR_GEN_FAILED' \in BOOLEAN /\ (refused => IR_GEN_FAILED' = TRUE)
  BY <1>1
<1>3. 1 \in 0..Len(operands) /\ 0 \in 0..(Len(operands) - 1)
  <2>1. Len(operands) \in Nat /\ operands \in Seq(OperandType)
    BY TopIs
  <2>2. Len(operands) # 0
    BY <1>1, <2>1, EmptySeq
  <2> QED BY <2>1, <2>2
<1>4. Top.kind # "header"
  BY <1>1, NotHeader
<1>5. \A y \in {x} : y \in DOMAIN entries /\ entries[y].name \in Var \union Fun
  BY <1>1, <1>3, NthKept
<1> HIDE DEF x, refused
<1>6. CASE refused
  <2>1. NewTemp /\ Operands(Append(Without(1), Dummy)) /\ IR_GEN_FAILED' = TRUE
    BY <1>1, <1>2, <1>6
  <2> QED BY <1>1, <1>3, <1>4, <2>1, NewTempStep
<1>7. CASE ~refused
  <2>1. Compute(1, {x})
    BY <1>1, <1>7
  <2> QED BY <1>1, <1>2, <1>3, <1>4, <1>5, <2>1, ComputeStep
<1> QED BY <1>6, <1>7

\* lvalue callsuffix
LEMMA CallStep ==
  ASSUME Inv, IR_GEN_FAILED = FALSE, NEW n \in 0..1, call(n)
  PROVE  Inv'
<1> DEFINE f == Nth(n).sym
           refused == ~IsFunction(Looked(f)) /\ NoAccess(Looked(f))
<1>1. /\ CanCompute /\ UNCHANGED <<current_scope, places>> /\ Len(operands) > n
      /\ IR_GEN_FAILED' = (IR_GEN_FAILED \/ refused)
      /\ IF refused
         THEN /\ Operands(Append(Without(n + 1), Dummy))
              /\ UNCHANGED <<entries, temp_var_counter>>
         ELSE Compute(n + 1, {})
  BY DEF call, Fail
<1>2. IR_GEN_FAILED' \in BOOLEAN /\ (refused => IR_GEN_FAILED' = TRUE)
  BY <1>1
<1>3. operands # <<>> /\ n + 1 \in 0..Len(operands)
  <2>1. Len(operands) \in Nat /\ operands \in Seq(OperandType)
    BY TopIs
  <2>2. Len(operands) # 0
    BY <1>1, <2>1
  <2> QED BY <1>1, <2>1, <2>2, EmptySeq
<1>4. Top.kind # "header"
  BY <1>3, NotHeader
<1>5. /\ entries \in Seq(Symbol) /\ DOMAIN entries = 1..Len(entries) /\ Len(entries) \in Nat
      /\ temp_var_counter \in 0..Len(TempNames)
  BY Sequences DEF Inv
<1> HIDE DEF f, refused
<1>6. CASE refused
  <2>1. /\ Operands(Append(Without(n + 1), Dummy)) /\ IR_GEN_FAILED' = TRUE
        /\ entries' = entries /\ temp_var_counter' = temp_var_counter
    BY <1>1, <1>2, <1>6
  <2>2. /\ OperandKept(Dummy, entries', ctx', Len(ctx), temp_var_counter', IR_GEN_FAILED')
        /\ Dummy \in OperandType /\ Dummy.kind = "value" /\ IR_GEN_FAILED' \in BOOLEAN
    BY <2>1, DummyKept
  <2>3. /\ Puts(entries, entries', current_scope, fn) /\ Unplaced(entries, entries')
        /\ \A k \in (Len(entries) + 1)..Len(entries') : ~entries'[k].func_is_open
    BY <1>5, <2>1 DEF Puts, Unplaced
  <2>4. temp_var_counter' \in temp_var_counter..Len(TempNames)
    <3>1. temp_var_counter \in temp_var_counter..6
      BY <1>5, TempNamesAre
    <3> QED BY <2>1, <3>1, TempNamesAre
  <2> QED BY <1>1, <1>3, <1>4, <2>1, <2>2, <2>3, <2>4, PlainStep
<1>7. CASE ~refused
  <2>1. PICK S : S = {}
    OBVIOUS
  <2>2. Compute(n + 1, S) /\ \A y \in S : y \in DOMAIN entries /\ entries[y].name \in Var \union Fun
    BY <1>1, <1>7, <2>1
  <2> QED BY <1>1, <1>2, <1>3, <1>4, <2>2, ComputeStep
<1> QED BY <1>6, <1>7

-----------------------------------------------------------------------------
(* The steps that begin and end statements, blocks and functions. *)

\* The frames dx that hold operands have not changed, and statements have ended
\* in them, or t temporaries have been used and then u.
Moved(cx, dx, t, u) ==
  \A i \in 1..Len(dx) : dx[i].operands # <<>> =>
    /\ i \in 1..Len(cx) /\ dx[i].fn = cx[i].fn /\ dx[i].operands = cx[i].operands
    /\ Overtaken(dx, i) \/ (t <= u /\ ~Overtaken(cx, i))

\* What is held in the frames that have not changed is still kept.
LEMMA HeldMove ==
  ASSUME NEW es, NEW ns, Keeps(es, ns), NEW cx \in Seq(FrameType), NEW dx \in Seq(FrameType),
         NEW t \in Nat, NEW u \in Nat, Held(es, cx, t, FALSE), NEW failed,
         Moved(cx, dx, t, u)
  PROVE  Held(ns, dx, u, failed)
<1>1. SUFFICES ASSUME NEW i \in 1..Len(dx), NEW j \in 1..Len(dx[i].operands)
               PROVE  OperandKept(dx[i].operands[j], ns, dx, i, u, failed)
  BY DEF Held
<1>2. dx[i].operands # <<>>
  <2>1. SUFFICES ASSUME dx[i].operands = <<>> PROVE FALSE
    OBVIOUS
  <2>2. j \in 1..Len(<<>>)
    BY <2>1
  <2> QED BY <2>2, EmptySeq
<1>3. /\ i \in 1..Len(cx) /\ dx[i].fn = cx[i].fn /\ dx[i].operands = cx[i].operands
      /\ Overtaken(dx, i) \/ (t <= u /\ ~Overtaken(cx, i))
  BY <1>2 DEF Moved
<1> DEFINE o == cx[i].operands[j]
<1>4. o \in OperandType
  <2>1. cx[i] \in FrameType
    BY <1>3, ElementOfSeq
  <2>2. cx[i].operands \in Seq(OperandType)
    BY <2>1 DEF FrameType
  <2> QED BY <1>3, <2>2, ElementOfSeq
<1>5. OperandKept(o, es, cx, i, t, FALSE)
  BY <1>3 DEF Held
<1>6. From(o, o)
  BY <1>5 DEF OperandKept, From
<1> HIDE DEF o
<1>7. OperandKept(o, ns, dx, i, u, failed)
  BY <1>3, <1>4, <1>5, <1>6, StillKept
<1> QED BY <1>3, <1>7 DEF o

\* The entries as they are, and whatever frame they are in.
LEMMA Unchanged ==
  ASSUME NEW es \in Seq(Symbol), NEW s, NEW f
  PROVE  Puts(es, es, s, f) /\ Unplaced(es, es) /\ Keeps(es, es)
         /\ \A k \in (Len(es) + 1)..Len(es) : FALSE
<1>1. DOMAIN es = 1..Len(es) /\ Len(es) \in Nat
  BY Sequences
<1> QED BY <1>1 DEF Puts, Unplaced, Keeps

\* A statement has ended in the innermost frame.
LEMMA EndedIs ==
  ASSUME NEW cx \in Seq(FrameType), Len(cx) >= 1
  PROVE  LET dx == Ended(cx)
         IN  /\ dx \in Seq(FrameType) /\ Len(dx) = Len(cx)
             /\ \A i \in 1..Len(cx) : dx[i].kind = cx[i].kind /\ dx[i].fn = cx[i].fn
             /\ \A i \in 1..Len(cx) : i # Len(cx) => dx[i] = cx[i]
             /\ dx[Len(cx)].operands = <<>> /\ dx[Len(cx)].ended
<1> DEFINE n == Len(cx)
           g == [cx[n] EXCEPT !.operands = <<>>, !.ended = TRUE]
           dx == [cx EXCEPT ![n] = g]
<1>1. n \in 1..n /\ cx[n] \in FrameType /\ n \in Nat
  BY Sequences, ElementOfSeq, LenProperties
<1>2. /\ g \in FrameType /\ g.kind = cx[n].kind /\ g.fn = cx[n].fn
      /\ g.operands = <<>> /\ g.ended
  <2>1. <<>> \in Seq(OperandType)
    BY EmptySeq
  <2> QED BY <1>1, <2>1 DEF FrameType
<1>3. Ended(cx) = dx
  <2>1. DOMAIN cx = 1..n
    BY LenProperties
  <2> QED BY <1>1, <2>1 DEF Ended
<1> HIDE DEF g, n
<1>4. /\ dx \in Seq(FrameType) /\ Len(dx) = Len(cx)
      /\ \A i \in 1..Len(cx) : dx[i] = IF i = n THEN g ELSE cx[i]
  BY <1>1, <1>2, ExceptSeq DEF n
<1> HIDE DEF dx
<1>5. dx[n] = g /\ \A i \in 1..Len(cx) : i # n => dx[i] = cx[i]
  BY <1>1, <1>4 DEF n
<1>6. \A i \in 1..Len(cx) : dx[i].kind = cx[i].kind /\ dx[i].fn = cx[i].fn
  BY <1>2, <1>5
<1> QED BY <1>2, <1>3, <1>4, <1>5, <1>6 DEF n

\* A statement has been read.
LEMMA StatementStep ==
  ASSUME Inv, IR_GEN_FAILED = FALSE, Statement
  PROVE  Inv'
<1>1. /\ Top.kind # "header" /\ temp_var_counter' = 0 /\ ctx' = Ended(ctx)
      /\ entries' = entries /\ current_scope' = current_scope
      /\ scope_space_counter' = scope_space_counter
      /\ offset' = offset /\ function_offset_stack' = function_offset_stack
      /\ IR_GEN_FAILED' = IR_GEN_FAILED
  BY DEF Statement, places
<1>2. /\ ctx \in Seq(FrameType) /\ Len(ctx) \in Nat /\ Len(ctx) >= 1 /\ Len(ctx) \in 1..Len(ctx)
      /\ fn = Innermost(ctx).fn
  BY TopIs DEF fn
<1>3. /\ ctx' \in Seq(FrameType) /\ Len(ctx') = Len(ctx)
      /\ \A i \in 1..Len(ctx) : ctx'[i].kind = ctx[i].kind /\ ctx'[i].fn = ctx[i].fn
      /\ \A i \in 1..Len(ctx) : i # Len(ctx) => ctx'[i] = ctx[i]
      /\ ctx'[Len(ctx)].operands = <<>> /\ ctx'[Len(ctx)].ended
  BY <1>1, <1>2, EndedIs
<1>4. /\ entries \in Seq(Symbol) /\ Framed(entries, ctx) /\ Scoped(entries, ctx, current_scope)
      /\ Held(entries, ctx, temp_var_counter, FALSE)
      /\ Counted(ctx, scope_space_counter, function_offset_stack)
      /\ Placed(entries, ctx, offset, function_offset_stack) /\ AllFilled(entries)
      /\ temp_var_counter \in 0..Len(TempNames)
  BY DEF Inv
<1>5. /\ \A i \in 1..Len(ctx) : ctx[i].kind # "header"
      /\ current_scope = Len(ctx) - 1 /\ current_scope \in Nat
  BY <1>1, NoHeader
<1>6. SameShape(ctx, ctx') /\ SameKinds(ctx, ctx')
  BY <1>3, <1>5 DEF SameShape, SameKinds
<1>7. /\ Puts(entries, entries, current_scope, Innermost(ctx).fn) /\ Unplaced(entries, entries)
      /\ Keeps(entries, entries) /\ \A k \in (Len(entries) + 1)..Len(entries) : FALSE
  BY <1>4, Unchanged
<1>8. Innermost(ctx').kind # "header" /\ current_scope = Len(ctx') - 1
  BY <1>2, <1>3, <1>5 DEF Innermost
<1>9. Framed(entries, ctx')
  BY <1>4, <1>5, <1>6, <1>7, FramedPut
<1>10. Scoped(entries, ctx', current_scope)
  BY <1>4, <1>6, <1>7, <1>8, ScopedPut
<1>11. Held(entries, ctx', 0, FALSE)
  <2>1. ASSUME NEW i \in 1..Len(ctx'), ctx'[i].operands # <<>>
        PROVE  /\ i \in 1..Len(ctx) /\ ctx'[i].fn = ctx[i].fn /\ ctx'[i].operands = ctx[i].operands
               /\ Overtaken(ctx', i)
    <3>1. i \in 1..Len(ctx) /\ i # Len(ctx)
      BY <1>3, <2>1
    <3>2. Len(ctx) \in (i + 1)..Len(ctx')
      BY <1>2, <1>3, <3>1
    <3> QED BY <1>3, <3>1, <3>2 DEF Overtaken
  <2>2. Moved(ctx, ctx', temp_var_counter, 0)
    BY <2>1 DEF Moved
  <2>3. temp_var_counter \in Nat /\ 0 \in Nat
    BY <1>4
  <2> QED BY <1>2, <1>3, <1>4, <1>7, <2>2, <2>3, HeldMove
<1>12. ReadLast'
  <2>1. operands' = <<>> /\ Top'.kind # "header"
    BY <1>3, <1>8 DEF operands, Top, Last, Innermost
  <2> QED BY <2>1 DEF ReadLast
<1>13. Counted(ctx', scope_space_counter, function_offset_stack)
  BY <1>2, <1>4, <1>6, CountedSame
<1>14. Placed(entries, ctx', offset, function_offset_stack)
  BY <1>2, <1>4, <1>6, <1>7, PlacedSame
<1>15. 0 \in 0..Len(TempNames)
  BY TempNamesAre
<1> QED BY <1>1, <1>4, <1>9, <1>10, <1>11, <1>12, <1>13, <1>14, <1>15 DEF Inv

\* A construct begins in the innermost one.
LEMMA PushMoved ==
  ASSUME NEW cx \in Seq(FrameType), NEW fr \in FrameType, fr.operands = <<>>,
         NEW t \in Nat
  PROVE  Moved(cx, Append(cx, fr), t, t)
<1> DEFINE dx == Append(cx, fr)
           n == Len(cx)
<1>1. n \in Nat /\ Len(dx) = n + 1 /\ dx[n + 1] = fr /\ \A i \in 1..n : dx[i] = cx[i]
  BY AppendProperties, LenProperties
<1> HIDE DEF dx
<1>2. ASSUME NEW i \in 1..Len(dx), dx[i].operands # <<>>
      PROVE  /\ i \in 1..n /\ dx[i] = cx[i]
             /\ Overtaken(cx, i) => Overtaken(dx, i)
  <2>1. i \in 1..n /\ dx[i] = cx[i]
    BY <1>1, <1>2
  <2>2. ASSUME Overtaken(cx, i) PROVE Overtaken(dx, i)
    <3>1. PICK j \in (i + 1)..n : cx[j].ended \/ cx[j].operands # <<>>
      BY <2>2 DEF Overtaken
    <3>2. j \in 1..n /\ j \in (i + 1)..Len(dx)
      BY <1>1, <2>1, <3>1
    <3>3. dx[j].ended \/ dx[j].operands # <<>>
      BY <1>1, <3>1, <3>2
    <3> QED BY <3>2, <3>3 DEF Overtaken
  <2> QED BY <2>1, <2>2
<1>3. Moved(cx, dx, t, t)
  BY <1>2 DEF Moved
<1> QED BY <1>3 DEF dx

\* A statement has ended with the innermost construct.
LEMMA PopMoved ==
  ASSUME NEW cx \in Seq(FrameType), Len(cx) >= 2, NEW t \in Nat
  PROVE  LET dx == Ended(Front(cx))
         IN  /\ Shorter(cx, dx) /\ Moved(cx, dx, t, 0)
             /\ Innermost(dx).operands = <<>>
<1> DEFINE fx == Front(cx)
           dx == Ended(fx)
<1>1. /\ Len(cx) \in Nat /\ fx \in Seq(FrameType) /\ Len(fx) = Len(cx) - 1
      /\ \A i \in 1..(Len(cx) - 1) : fx[i] = cx[i]
  BY Sequences, FrontIs
<1> HIDE DEF fx
<1>2. Len(fx) >= 1 /\ Len(fx) \in 1..Len(fx) /\ Len(fx) \in Nat
  BY <1>1
<1>3. /\ dx \in Seq(FrameType) /\ Len(dx) = Len(fx)
      /\ \A i \in 1..Len(fx) : dx[i].kind = fx[i].kind /\ dx[i].fn = fx[i].fn
      /\ \A i \in 1..Len(fx) : i # Len(fx) => dx[i] = fx[i]
      /\ dx[Len(fx)].operands = <<>> /\ dx[Len(fx)].ended
  BY <1>1, <1>2, EndedIs
<1> HIDE DEF dx
<1>4. \A i \in 1..Len(fx) : fx[i] = cx[i] /\ i \in 1..Len(cx)
  BY <1>1
<1>5. Shorter(cx, dx)
  BY <1>1, <1>3, <1>4 DEF Shorter
<1>6. ASSUME NEW i \in 1..Len(dx), dx[i].operands # <<>>
      PROVE  i \in 1..Len(cx) /\ dx[i] = cx[i] /\ Overtaken(dx, i)
  <2>1. i \in 1..Len(fx) /\ i # Len(fx)
    BY <1>3, <1>6
  <2>2. Len(fx) \in (i + 1)..Len(dx)
    BY <1>2, <1>3, <2>1
  <2> QED BY <1>3, <1>4, <2>1, <2>2 DEF Overtaken
<1>7. Moved(cx, dx, t, 0)
  BY <1>6 DEF Moved
<1>8. Innermost(dx).operands = <<>>
  BY <1>3 DEF Innermost
<1> QED BY <1>5, <1>7, <1>8 DEF dx, fx

\* A block begins.
LEMMA BlockStartStep ==
  ASSUME Inv, IR_GEN_FAILED = FALSE, BlockStart
  PROVE  Inv'
<1> DEFINE fr == Frame("block", fn)
<1>1. /\ Top.kind # "header" /\ ctx' = Append(ctx, fr)
      /\ entries' = entries /\ current_scope' = current_scope + 1
      /\ scope_space_counter' = scope_space_counter
      /\ offset' = offset /\ function_offset_stack' = function_offset_stack
      /\ temp_var_counter' = temp_var_counter /\ IR_GEN_FAILED' = IR_GEN_FAILED
  BY DEF BlockStart, places
<1>2. /\ ctx \in Seq(FrameType) /\ Len(ctx) \in Nat /\ Len(ctx) >= 1 /\ Len(ctx) \in 1..Len(ctx)
      /\ fn = Innermost(ctx).fn /\ Top = Innermost(ctx) /\ Top \in FrameType
  BY TopIs DEF fn
<1>3. /\ fr \in FrameType /\ fr.kind = "block" /\ fr.fn = Innermost(ctx).fn
      /\ fr.operands = <<>>
  <2>1. <<>> \in Seq(OperandType) /\ fn \in Nat
    BY <1>2, EmptySeq DEF FrameType
  <2> QED BY <1>2, <2>1 DEF Frame, FrameType
<1> HIDE DEF fr
<1>4. /\ entries \in Seq(Symbol) /\ Framed(entries, ctx) /\ Scoped(entries, ctx, current_scope)
      /\ Held(entries, ctx, temp_var_counter, FALSE)
      /\ Counted(ctx, scope_space_counter, function_offset_stack)
      /\ Placed(entries, ctx, offset, function_offset_stack) /\ AllFilled(entries)
      /\ temp_var_counter \in 0..Len(TempNames)
  BY DEF Inv
<1>5. current_scope = Len(ctx) - 1 /\ Innermost(ctx).kind # "header"
  BY <1>1, <1>2, NoHeader
<1>6. /\ Puts(entries, entries, Len(ctx) - 1, Innermost(ctx).fn) /\ Keeps(entries, entries)
  BY <1>4, Unchanged
<1>7. Begins(entries, entries, ctx, fr)
  BY <1>3 DEF Begins
<1>8. Framed(entries, Append(ctx, fr))
  BY <1>3, <1>4, <1>5, <1>6, <1>7, FramedPush
<1>9. Scoped(entries, Append(ctx, fr), current_scope + 1)
  <2>1. current_scope + 1 = Len(ctx) - (IF fr.kind = "header" THEN 1 ELSE 0)
    BY <1>2, <1>3, <1>5
  <2> QED BY <1>3, <1>4, <1>5, <1>6, <2>1, ScopedPush
<1>10. Append(ctx, fr) \in Seq(FrameType) /\ Innermost(Append(ctx, fr)) = fr
  BY <1>2, <1>3, AppendProperties DEF Innermost
<1>11. Held(entries, Append(ctx, fr), temp_var_counter, FALSE)
  <2>1. temp_var_counter \in Nat
    BY <1>4
  <2>2. Moved(ctx, Append(ctx, fr), temp_var_counter, temp_var_counter)
    BY <1>2, <1>3, <2>1, PushMoved
  <2> QED BY <1>2, <1>4, <1>6, <1>10, <2>1, <2>2, HeldMove
<1>12. /\ Counted(Append(ctx, fr), scope_space_counter, function_offset_stack)
       /\ Placed(entries, Append(ctx, fr), offset, function_offset_stack)
  BY <1>2, <1>3, <1>4, <1>5, CountedBlock
<1>13. ReadLast'
  <2>1. Innermost(ctx') = fr
    BY <1>1, <1>10
  <2>2. operands' = <<>> /\ Top'.kind # "header"
    BY <1>1, <1>2, <1>3, <1>10, <2>1, FrontIs DEF operands, Top, Last, Innermost
  <2> QED BY <2>2 DEF ReadLast
<1> QED BY <1>1, <1>4, <1>8, <1>9, <1>11, <1>12, <1>13 DEF Inv

\* The entries of scope s are left; nothing else of the entries changes.
LEMMA LeftIs ==
  ASSUME entries \in Seq(Symbol), NEW s
  PROVE  LET left == SymList_deactivate(s)
         IN  /\ Same(entries, left)
             /\ \A k \in 1..Len(entries) :
                  /\ left[k].isActive <=> entries[k].isActive /\ entries[k].scope # s
                  /\ left[k].func_is_open = entries[k].func_is_open
                  /\ left[k].offset = entries[k].offset
                  /\ left[k] \in Symbol
<1> DEFINE left == SymList_deactivate(s)
<1>1. DOMAIN entries = 1..Len(entries) /\ Len(entries) \in Nat
      /\ \A k \in 1..Len(entries) : entries[k] \in Symbol
  BY Sequences
<1>2. ASSUME NEW k \in 1..Len(entries)
      PROVE  /\ left[k] \in Symbol
             /\ left[k].name = entries[k].name /\ left[k].type = entries[k].type
             /\ left[k].scope = entries[k].scope /\ left[k].in = entries[k].in
             /\ left[k].space = entries[k].space
             /\ left[k].isActive <=> entries[k].isActive /\ entries[k].scope # s
             /\ left[k].func_is_open = entries[k].func_is_open
             /\ left[k].offset = entries[k].offset
  <2> DEFINE e == entries[k]
  <2>1. e \in Symbol
    BY <1>1
  <2>2. (e.isActive /\ e.scope # s) \in BOOLEAN
    OBVIOUS
  <2>3. left[k] = [e EXCEPT !.isActive = @ /\ e.scope # s]
    BY <1>1 DEF SymList_deactivate
  <2> QED BY <2>1, <2>2, <2>3 DEF Symbol
<1>3. left = [k \in 1..Len(entries) |-> left[k]]
  BY <1>1 DEF SymList_deactivate
<1> HIDE DEF left
<1>4. left \in Seq(Symbol) /\ Len(left) = Len(entries)
  <2>1. left \in [1..Len(entries) -> Symbol]
    BY <1>2, <1>3
  <2> QED BY <1>1, <2>1, LenProperties, IsASeq
<1>5. Same(entries, left)
  BY <1>2, <1>4 DEF Same
<1> QED BY <1>2, <1>5 DEF left

\* A block ends.
LEMMA BlockEndStep ==
  ASSUME Inv, IR_GEN_FAILED = FALSE, BlockEnd
  PROVE  Inv'
<1>1. /\ Top.kind = "block" /\ entries' = SymList_deactivate(current_scope)
      /\ current_scope' = current_scope - 1 /\ temp_var_counter' = 0
      /\ ctx' = Ended(Front(ctx))
      /\ scope_space_counter' = scope_space_counter
      /\ offset' = offset /\ function_offset_stack' = function_offset_stack
      /\ IR_GEN_FAILED' = IR_GEN_FAILED
  BY DEF BlockEnd, places
<1>2. /\ ctx \in Seq(FrameType) /\ Len(ctx) \in Nat /\ Len(ctx) >= 1 /\ Len(ctx) \in 1..Len(ctx)
      /\ Top = Innermost(ctx)
  BY TopIs
<1>3. /\ entries \in Seq(Symbol) /\ Framed(entries, ctx) /\ Scoped(entries, ctx, current_scope)
      /\ Held(entries, ctx, temp_var_counter, FALSE)
      /\ Counted(ctx, scope_space_counter, function_offset_stack)
      /\ Placed(entries, ctx, offset, function_offset_stack) /\ AllFilled(entries)
      /\ temp_var_counter \in 0..Len(TempNames)
  BY DEF Inv
<1>4. current_scope = Len(ctx) - 1
  BY <1>1, NoHeader
<1>5. Len(ctx) >= 2
  <2>1. ctx[1].kind = "program" /\ ctx[Len(ctx)].kind = "block"
    BY <1>1, <1>2, <1>3 DEF Framed, Innermost
  <2>2. Len(ctx) # 1
    BY <2>1
  <2>3. Len(ctx) \in Nat /\ Len(ctx) >= 1
    BY <1>2
  <2> QED BY <2>2, <2>3
<1> DEFINE left == SymList_deactivate(current_scope)
           dx == Ended(Front(ctx))
<1>6. /\ Shorter(ctx, dx) /\ Moved(ctx, dx, temp_var_counter, 0)
      /\ Innermost(dx).operands = <<>> /\ temp_var_counter \in Nat
  BY <1>2, <1>3, <1>5, PopMoved
<1>7. /\ Same(entries, left)
      /\ \A k \in 1..Len(entries) :
           /\ left[k].isActive <=> entries[k].isActive /\ entries[k].scope # Len(ctx) - 1
           /\ left[k].func_is_open = entries[k].func_is_open
           /\ left[k].offset = entries[k].offset
  BY <1>3, <1>4, LeftIs
<1> HIDE DEF left, dx
<1>8. /\ DOMAIN entries = 1..Len(entries) /\ DOMAIN left = 1..Len(entries)
      /\ left \in Seq(Symbol) /\ dx \in Seq(FrameType)
  BY <1>3, <1>6, <1>7, Sequences, LenProperties DEF Same, Shorter
<1>9. Leaves(entries, left, ctx) /\ Keeps(entries, left)
  BY <1>1, <1>2, <1>3, <1>7, SameKeeps DEF Leaves
<1>10. Unplaced(entries, left)
  BY <1>7, <1>8 DEF Unplaced, Same
<1>11. Framed(left, dx) /\ Scoped(left, dx, current_scope - 1)
  BY <1>3, <1>6, <1>9, FramedPop, ScopedPop
<1>12. Held(left, dx, 0, FALSE)
  BY <1>2, <1>3, <1>6, <1>8, <1>9, HeldMove
<1>13. /\ Counted(dx, scope_space_counter, function_offset_stack)
       /\ Placed(left, dx, offset, function_offset_stack)
  BY <1>1, <1>2, <1>3, <1>6, <1>10, CountedUnblock
<1>14. AllFilled(left)
  BY <1>3, <1>8, <1>10, FilledNext DEF Scoped
<1>15. ReadLast'
  <2>1. Len(dx) >= 1 /\ Last(dx) = Innermost(dx) /\ \A i \in 1..Len(dx) : dx[i].kind = ctx[i].kind
    <3>1. Len(dx) = Len(ctx) - 1 /\ \A i \in 1..Len(dx) : dx[i].kind = ctx[i].kind
      BY <1>6 DEF Shorter
    <3>2. Len(dx) >= 1
      BY <1>2, <1>5, <3>1
    <3>3. Last(dx) = dx[Len(dx)]
      BY <1>8, <3>2, FrontIs
    <3> QED BY <3>1, <3>2, <3>3 DEF Innermost
  <2>2. Len(dx) \in 1..Len(ctx) /\ Len(dx) # Len(ctx) /\ Len(dx) \in 1..Len(dx)
    BY <1>2, <1>5, <1>6 DEF Shorter
  <2>3. Innermost(dx).kind # "header"
    BY <1>3, <2>1, <2>2 DEF Framed, Innermost
  <2>4. operands' = <<>> /\ Top'.kind # "header"
    BY <1>1, <1>6, <2>1, <2>3 DEF operands, Top, dx
  <2> QED BY <2>4 DEF ReadLast
<1>16. 0 \in 0..Len(TempNames)
  BY TempNamesAre
<1>17. entries' = left /\ ctx' = dx
  BY <1>1 DEF left, dx
<1> QED BY <1>1, <1>3, <1>8, <1>11, <1>12, <1>13, <1>14, <1>15, <1>16, <1>17 DEF Inv

\* The entry of a function, or of an argument, is put where it belongs.
LEMMA EntryIs ==
  ASSUME NEW n \in Var \union Fun, NEW s \in Nat, NEW type \in {"USERFUNC", "FORMAL"},
         NEW f \in Nat
  PROVE  LET e == Entry(n, s, type, f)
         IN  /\ e \in Symbol /\ e.scope = s /\ e.in = f /\ e.isActive /\ e.type = type
             /\ e.space = "unset"
             /\ e.func_is_open <=> type = "USERFUNC"
<1>1. n \in STRING
  BY NamesAssumption
<1> QED BY <1>1 DEF Entry, Symbol

\* One more entry has no place, and is put in the innermost construct.
LEMMA OneMore ==
  ASSUME NEW es \in Seq(Symbol), NEW e \in Symbol, e.space = "unset", e.isActive
  PROVE  LET ns == Append(es, e)
         IN  /\ Puts(es, ns, e.scope, e.in) /\ Unplaced(es, ns) /\ Keeps(es, ns)
             /\ ns \in Seq(Symbol) /\ Len(ns) = Len(es) + 1 /\ ns[Len(ns)] = e
<1> DEFINE ns == Append(es, e)
<1>1. /\ ns \in Seq(Symbol) /\ Len(ns) = Len(es) + 1 /\ Len(es) \in Nat
      /\ \A k \in 1..Len(es) : ns[k] = es[k]
      /\ ns[Len(es) + 1] = e
  BY AppendProperties, LenProperties
<1>2. DOMAIN es = 1..Len(es) /\ DOMAIN ns = 1..(Len(es) + 1)
  BY <1>1, LenProperties
<1> HIDE DEF ns
<1>3. \A k \in (Len(es) + 1)..Len(ns) : ns[k] = e
  BY <1>1
<1>4. Puts(es, ns, e.scope, e.in)
  BY <1>1, <1>3 DEF Puts
<1>5. \A k \in DOMAIN ns : k \notin DOMAIN es => ns[k] = e
  BY <1>1, <1>2
<1>6. \A k \in DOMAIN es : k \in DOMAIN ns /\ ns[k] = es[k]
  BY <1>1, <1>2
<1>7. Unplaced(es, ns)
  BY <1>5, <1>6 DEF Unplaced
<1>8. Keeps(es, ns)
  BY <1>6 DEF Keeps
<1> QED BY <1>1, <1>4, <1>7, <1>8 DEF ns

\* The header of a function begins.
LEMMA PrefixStep ==
  ASSUME Inv, IR_GEN_FAILED = FALSE, NEW n \in Fun, function_prefix(n)
  PROVE  Inv'
<1> DEFINE e == Entry(n, current_scope, "USERFUNC", fn)
           ns == Append(entries, e)
           fr == Frame("header", Len(entries) + 1)
           saved == Append(function_offset_stack, offset[get_curr_scope_space(scope_space_counter)])
           off == [offset EXCEPT !["formal_argument"] = 0]
<1>1. /\ Top.kind # "header" /\ entries' = ns
      /\ Fail(SymTable_contains(n, current_scope))
      /\ current_scope' = current_scope /\ temp_var_counter' = temp_var_counter
      /\ scope_space_counter' = scope_space_counter + 1
      /\ function_offset_stack' = saved /\ offset' = off
      /\ ctx' = Append(ctx, fr)
  BY DEF function_prefix, get_curr_scope_offset, Space
<1>2. /\ ctx \in Seq(FrameType) /\ Len(ctx) \in Nat /\ Len(ctx) >= 1 /\ Len(ctx) \in 1..Len(ctx)
      /\ fn = Innermost(ctx).fn /\ Top = Innermost(ctx) /\ Top \in FrameType
  BY TopIs DEF fn
<1>3. /\ entries \in Seq(Symbol) /\ Framed(entries, ctx) /\ Scoped(entries, ctx, current_scope)
      /\ Held(entries, ctx, temp_var_counter, FALSE)
      /\ Counted(ctx, scope_space_counter, function_offset_stack)
      /\ Placed(entries, ctx, offset, function_offset_stack) /\ AllFilled(entries)
      /\ temp_var_counter \in 0..Len(TempNames) /\ Len(entries) \in Nat
  BY LenProperties DEF Inv
<1>4. /\ current_scope = Len(ctx) - 1 /\ current_scope \in Nat
      /\ Innermost(ctx).kind # "header"
  BY <1>1, <1>2, NoHeader
<1>5. fn \in Nat
  BY <1>2 DEF fn, FrameType
<1>6. /\ fr \in FrameType /\ fr.kind = "header" /\ fr.fn = Len(entries) + 1
      /\ fr.operands = <<>> /\ fr.ended = FALSE
  <2>1. <<>> \in Seq(OperandType) /\ Len(entries) + 1 \in Nat
    BY <1>3, EmptySeq
  <2> QED BY <2>1 DEF Frame, FrameType
<1>7. /\ e \in Symbol /\ e.scope = current_scope /\ e.in = fn /\ e.isActive /\ e.type = "USERFUNC"
      /\ e.space = "unset" /\ e.func_is_open
  BY <1>4, <1>5, EntryIs
<1> HIDE DEF e, fr
<1>8. /\ Puts(entries, ns, Len(ctx) - 1, Innermost(ctx).fn)
      /\ Unplaced(entries, ns) /\ Keeps(entries, ns)
      /\ ns \in Seq(Symbol) /\ Len(ns) = Len(entries) + 1 /\ ns[Len(ns)] = e
  BY <1>2, <1>3, <1>4, <1>7, OneMore
<1> HIDE DEF ns
<1>9. Begins(entries, ns, ctx, fr)
  BY <1>6, <1>7, <1>8 DEF Begins
<1>10. Framed(ns, Append(ctx, fr))
  BY <1>3, <1>4, <1>6, <1>8, <1>9, FramedPush
<1>11. Scoped(ns, Append(ctx, fr), current_scope)
  <2>1. current_scope = Len(ctx) - (IF fr.kind = "header" THEN 1 ELSE 0)
    BY <1>2, <1>4, <1>6
  <2> QED BY <1>3, <1>4, <1>6, <1>8, <2>1, ScopedPush
<1>12. /\ Append(ctx, fr) \in Seq(FrameType) /\ Innermost(Append(ctx, fr)) = fr
       /\ Len(Append(ctx, fr)) >= 1
  BY <1>2, <1>6, AppendProperties DEF Innermost
<1>13. \A failed : Held(ns, Append(ctx, fr), temp_var_counter, failed)
  <2>1. temp_var_counter \in Nat
    BY <1>3
  <2>2. Moved(ctx, Append(ctx, fr), temp_var_counter, temp_var_counter)
    BY <1>2, <1>6, <2>1, PushMoved
  <2> QED BY <1>2, <1>3, <1>8, <1>12, <2>1, <2>2, HeldMove
<1>14. /\ Counted(Append(ctx, fr), scope_space_counter + 1, saved)
       /\ Placed(ns, Append(ctx, fr), off, saved)
  <2>1. \A k \in DOMAIN entries : entries[k].in \in 0..(k - 1)
    BY <1>3 DEF Scoped
  <2>2. fr.fn >= Len(entries) /\ fr.fn # 0
    BY <1>3, <1>6
  <2> QED BY <1>3, <1>4, <1>6, <1>8, <2>1, <2>2, CountedHeader
<1>15. AllFilled(ns)
  BY <1>3, <1>8, FilledNext DEF Scoped
<1>16. ReadLast'
  <2>1. Last(Append(ctx, fr)) = fr
    BY <1>12, FrontIs DEF Innermost
  <2>2. operands' = <<>> /\ ~Top'.ended
    BY <1>1, <1>6, <2>1 DEF operands, Top
  <2> QED BY <2>2 DEF ReadLast
<1>17. IR_GEN_FAILED' \in BOOLEAN
  BY <1>1 DEF Fail, SymTable_contains
<1> HIDE DEF saved, off
<1> QED BY <1>1, <1>3, <1>8, <1>10, <1>11, <1>13, <1>14, <1>15, <1>16, <1>17 DEF Inv

\* The arguments are put where they belong, and have no place.
LEMMA FormalsAre ==
  ASSUME entries \in Seq(Symbol), NEW formals \in Seq(Var), NEW s \in Nat, NEW f \in Nat
  PROVE  LET ns == entries \o [i \in DOMAIN formals |-> Entry(formals[i], s, "FORMAL", f)]
         IN  /\ Puts(entries, ns, s, f) /\ Unplaced(entries, ns) /\ Keeps(entries, ns)
             /\ ns \in Seq(Symbol)
             /\ \A k \in (Len(entries) + 1)..Len(ns) : ~ns[k].func_is_open
<1> DEFINE q == [i \in DOMAIN formals |-> Entry(formals[i], s, "FORMAL", f)]
           ns == entries \o q
           m == Len(entries)
<1>1. DOMAIN formals = 1..Len(formals) /\ Len(formals) \in Nat
      /\ m \in Nat /\ DOMAIN entries = 1..m
  BY LenProperties
<1>2. ASSUME NEW i \in 1..Len(formals)
      PROVE  /\ q[i] \in Symbol /\ q[i].scope = s /\ q[i].in = f /\ q[i].isActive
             /\ q[i].space = "unset" /\ ~q[i].func_is_open
  <2>1. formals[i] \in Var \union Fun
    BY ElementOfSeq
  <2>2. q[i] = Entry(formals[i], s, "FORMAL", f)
    BY <1>1
  <2> HIDE DEF q
  <2> DEFINE e == Entry(formals[i], s, "FORMAL", f)
  <2>3. /\ e \in Symbol /\ e.scope = s /\ e.in = f /\ e.isActive
        /\ e.space = "unset"
        /\ e.func_is_open <=> "FORMAL" = "USERFUNC"
    BY <2>1, EntryIs
  <2> HIDE DEF e
  <2>4. e.func_is_open \in BOOLEAN
    BY <2>3 DEF Symbol
  <2>5. q[i] = e
    BY <2>2 DEF e
  <2> QED BY <2>3, <2>4, <2>5
<1>3. q \in Seq(Symbol) /\ Len(q) = Len(formals)
  <2>1. q = [i \in 1..Len(formals) |-> q[i]]
    BY <1>1
  <2> HIDE DEF q
  <2>2. q \in [1..Len(formals) -> Symbol]
    BY <1>2, <2>1
  <2> QED BY <1>1, <2>2, LenProperties, IsASeq
<1> HIDE DEF q
<1>4. /\ ns \in Seq(Symbol) /\ Len(ns) = m + Len(q)
      /\ \A k \in 1..m : ns[k] = entries[k]
      /\ \A k \in (m + 1)..Len(ns) : ns[k] = q[k - m]
  <2>1. /\ ns \in Seq(Symbol) /\ Len(ns) = m + Len(q)
        /\ \A i \in 1..(m + Len(q)) : ns[i] = IF i <= m THEN entries[i] ELSE q[i - m]
    BY <1>3, ConcatProperties
  <2>2. Len(q) \in Nat /\ m \in Nat
    BY <1>1, <1>3
  <2> HIDE DEF ns, m
  <2> QED BY <2>1, <2>2
<1> HIDE DEF ns, m
<1>5. ASSUME NEW k \in (m + 1)..Len(ns)
      PROVE  /\ ns[k].scope = s /\ ns[k].in = f /\ ns[k].isActive
             /\ ns[k].space = "unset" /\ ~ns[k].func_is_open
  <2>1. k - m \in 1..Len(formals) /\ ns[k] = q[k - m]
    BY <1>1, <1>3, <1>4
  <2> QED BY <1>2, <2>1
<1>6. Len(ns) \in Nat /\ Len(ns) >= m /\ DOMAIN ns = 1..Len(ns)
  BY <1>1, <1>3, <1>4, LenProperties
<1>7. /\ \A k \in DOMAIN ns : k \notin DOMAIN entries => k \in (m + 1)..Len(ns)
      /\ \A k \in DOMAIN entries : k \in DOMAIN ns /\ ns[k] = entries[k]
  BY <1>1, <1>4, <1>6
<1>8. Puts(entries, ns, s, f)
  BY <1>4, <1>5, <1>6 DEF Puts, m
<1>9. Unplaced(entries, ns)
  BY <1>5, <1>7 DEF Unplaced
<1>10. Keeps(entries, ns)
  BY <1>7 DEF Keeps
<1> QED BY <1>4, <1>5, <1>8, <1>9, <1>10 DEF ns, m, q

\* The arguments of a function, and its body, begin.
LEMMA ArgumentsStep ==
  ASSUME Inv, IR_GEN_FAILED = FALSE, NEW formals \in Seq(Var), function_arguments(formals)
  PROVE  Inv'
<1> DEFINE s == current_scope + 1
           ns == entries \o [i \in DOMAIN formals |-> Entry(formals[i], s, "FORMAL", fn)]
           fr == Frame("body", fn)
           fx == Front(ctx)
           dx == Append(fx, fr)
           off == [offset EXCEPT !["function_local"] = 0]
<1>1. /\ Top.kind = "header" /\ entries' = ns /\ ctx' = dx
      /\ current_scope' = s /\ temp_var_counter' = temp_var_counter
      /\ scope_space_counter' = scope_space_counter + 1
      /\ function_offset_stack' = function_offset_stack /\ offset' = off
      /\ IR_GEN_FAILED' = IR_GEN_FAILED
  BY DEF function_arguments
<1>2. /\ ctx \in Seq(FrameType) /\ Len(ctx) \in Nat /\ Len(ctx) >= 1 /\ Len(ctx) \in 1..Len(ctx)
      /\ fn = Innermost(ctx).fn /\ Top = Innermost(ctx) /\ Top \in FrameType
  BY TopIs DEF fn
<1>3. /\ entries \in Seq(Symbol) /\ Framed(entries, ctx) /\ Scoped(entries, ctx, current_scope)
      /\ Held(entries, ctx, temp_var_counter, FALSE)
      /\ Counted(ctx, scope_space_counter, function_offset_stack)
      /\ Placed(entries, ctx, offset, function_offset_stack) /\ AllFilled(entries)
      /\ temp_var_counter \in 0..Len(TempNames)
  BY DEF Inv
<1>4. fn \in Nat /\ Innermost(ctx).kind = "header"
  BY <1>1, <1>2 DEF fn, FrameType
<1>5. /\ Innermost(ctx).operands = <<>> /\ Innermost(ctx).ended \in BOOLEAN
      /\ ~Innermost(ctx).ended
      /\ \A i \in 1..Len(ctx) : ctx[i].kind = "header" => i = Len(ctx)
  <2>1. \A i \in 1..Len(ctx) : ctx[i].kind = "header" => i = Len(ctx) /\ ctx[i].operands = <<>>
    BY <1>3 DEF Framed
  <2>2. ~Innermost(ctx).ended
    BY <1>2, <1>4 DEF Inv, ReadLast
  <2>3. Innermost(ctx).ended \in BOOLEAN
    BY <1>2 DEF FrameType
  <2> QED BY <1>2, <1>4, <2>1, <2>2, <2>3 DEF Innermost
<1>6. Len(ctx) >= 2
  <2>1. ctx[1].kind = "program" /\ ctx[Len(ctx)].kind = "header"
    BY <1>3, <1>4 DEF Framed, Innermost
  <2>2. Len(ctx) # 1
    BY <2>1
  <2>3. Len(ctx) \in Nat /\ Len(ctx) >= 1
    BY <1>2
  <2>4. \A m \in Nat : m >= 1 /\ m # 1 => m >= 2
    OBVIOUS
  <2> QED BY <2>2, <2>3, <2>4
<1>7. s = Len(ctx) - 1 /\ s \in Nat
  BY <1>2, <1>3, <1>4, <1>6 DEF Scoped
<1>8. /\ fr \in FrameType /\ fr.kind = "body" /\ fr.fn = fn /\ fr.operands = <<>>
  <2>1. <<>> \in Seq(OperandType)
    BY EmptySeq
  <2> QED BY <1>4, <2>1 DEF Frame, FrameType
<1> HIDE DEF fr, s
<1>9. /\ Puts(entries, ns, s, fn) /\ Unplaced(entries, ns) /\ Keeps(entries, ns)
      /\ ns \in Seq(Symbol)
      /\ \A k \in (Len(entries) + 1)..Len(ns) : ~ns[k].func_is_open
  BY <1>3, <1>4, <1>7, FormalsAre
<1> HIDE DEF ns
<1>10. /\ fx \in Seq(FrameType) /\ Len(fx) = Len(ctx) - 1 /\ \A i \in 1..(Len(ctx) - 1) : fx[i] = ctx[i]
  BY <1>2, FrontIs
<1> HIDE DEF fx
<1>11. /\ dx \in Seq(FrameType) /\ Len(dx) = Len(ctx) /\ dx[Len(ctx)] = fr
       /\ \A i \in 1..(Len(ctx) - 1) : dx[i] = ctx[i]
  <2>1. /\ dx \in Seq(FrameType) /\ Len(dx) = Len(fx) + 1 /\ dx[Len(fx) + 1] = fr
        /\ \A i \in 1..Len(fx) : dx[i] = fx[i]
    BY <1>8, <1>10, AppendProperties
  <2> HIDE DEF dx
  <2> QED BY <1>2, <1>10, <2>1
<1> HIDE DEF dx
<1>12. \A i \in 1..Len(ctx) : i # Len(ctx) => i \in 1..(Len(ctx) - 1)
  BY <1>2
<1>13. /\ \A i \in 1..Len(ctx) : dx[i].fn = ctx[i].fn
       /\ \A i \in 1..(Len(ctx) - 1) : dx[i].kind = ctx[i].kind
       /\ Innermost(dx).kind = "body"
  <2>1. ctx[Len(ctx)].fn = fn
    BY <1>2 DEF Innermost
  <2> QED BY <1>8, <1>11, <1>12, <2>1 DEF Innermost
<1>14. SameShape(ctx, dx)
  <2>1. ASSUME NEW i \in 1..Len(ctx)
        PROVE  /\ dx[i].kind = ctx[i].kind \/ (ctx[i].kind = "header" /\ dx[i].kind = "body")
               /\ ctx[i].kind = "header" => dx[i].operands = <<>>
    <3>1. CASE i = Len(ctx)
      BY <1>4, <1>8, <1>11, <3>1 DEF Innermost
    <3>2. CASE i # Len(ctx)
      BY <1>5, <1>11, <1>12, <3>2
    <3> QED BY <3>1, <3>2
  <2> QED BY <1>11, <1>13, <2>1 DEF SameShape
<1>15. Framed(ns, dx)
  <2>1. s >= Len(ctx) - 1
    BY <1>2, <1>7
  <2> QED BY <1>3, <1>7, <1>9, <1>14, <2>1, FramedPut
<1>16. Scoped(ns, dx, s)
  <2>1. Puts(entries, ns, s, Innermost(ctx).fn) /\ s = Len(dx) - 1 /\ Innermost(dx).kind # "header"
    BY <1>2, <1>7, <1>9, <1>11, <1>13
  <2> QED BY <1>3, <1>14, <2>1, ScopedPut
<1>17. Held(ns, dx, temp_var_counter, FALSE)
  <2>1. temp_var_counter \in Nat
    BY <1>3
  <2>2. ASSUME NEW i \in 1..Len(dx), dx[i].operands # <<>>
        PROVE  i \in 1..Len(ctx) /\ dx[i] = ctx[i] /\ (Overtaken(ctx, i) => Overtaken(dx, i))
    <3>1. i \in 1..Len(ctx) /\ i # Len(ctx) /\ dx[i] = ctx[i]
      BY <1>8, <1>11, <1>12, <2>2
    <3>2. ASSUME Overtaken(ctx, i) PROVE Overtaken(dx, i)
      <4>1. PICK j \in (i + 1)..Len(ctx) : ctx[j].ended \/ ctx[j].operands # <<>>
        BY <3>2 DEF Overtaken
      <4>2. j # Len(ctx)
        BY <1>5, <4>1 DEF Innermost
      <4>3. j \in 1..(Len(ctx) - 1) /\ j \in (i + 1)..Len(dx)
        BY <1>2, <1>11, <3>1, <4>1, <4>2
      <4>4. dx[j].ended \/ dx[j].operands # <<>>
        BY <1>11, <4>1, <4>3
      <4> QED BY <4>3, <4>4 DEF Overtaken
    <3> QED BY <3>1, <3>2
  <2>3. Moved(ctx, dx, temp_var_counter, temp_var_counter)
    BY <2>1, <2>2 DEF Moved
  <2> QED BY <1>2, <1>3, <1>9, <1>11, <2>1, <2>3, HeldMove
<1>18. /\ Counted(dx, scope_space_counter + 1, function_offset_stack)
       /\ Placed(ns, dx, off, function_offset_stack)
  BY <1>3, <1>4, <1>9, <1>11, <1>13, CountedBody
<1>19. AllFilled(ns)
  BY <1>3, <1>9, FilledNext DEF Scoped
<1>20. ReadLast'
  <2>1. Last(dx) = fr
    BY <1>2, <1>11, FrontIs
  <2>2. operands' = <<>> /\ Top'.kind # "header"
    BY <1>1, <1>8, <2>1 DEF operands, Top
  <2> QED BY <2>2 DEF ReadLast
<1> HIDE DEF off
<1> QED BY <1>1, <1>3, <1>9, <1>15, <1>16, <1>17, <1>18, <1>19, <1>20 DEF Inv

\* The function found by its name when its body has been left is that function.
LEMMA ClosedIs ==
  ASSUME Inv, Top.kind = "body"
  PROVE  /\ fn \in 1..Len(entries) /\ entries[fn].type = "USERFUNC"
         /\ close_function(SymList_deactivate(current_scope), entries[fn].name) = fn
<1> DEFINE left == SymList_deactivate(current_scope)
           n == Len(ctx)
           S == {k \in DOMAIN left : left[k].name = entries[fn].name /\ left[k].isActive}
<1>1. /\ ctx \in Seq(FrameType) /\ n \in Nat /\ n >= 1 /\ n \in 1..n
      /\ fn = ctx[n].fn /\ ctx[n].kind = "body"
  BY TopIs
<1>2. /\ entries \in Seq(Symbol) /\ Framed(entries, ctx) /\ Scoped(entries, ctx, current_scope)
  BY DEF Inv
<1>3. current_scope = n - 1
  BY NoHeader
<1>4. n >= 2
  <2>1. ctx[1].kind = "program"
    BY <1>2 DEF Framed
  <2>2. n # 1
    BY <1>1, <2>1
  <2> HIDE DEF n
  <2> QED BY <1>1, <2>2
<1>5. /\ Same(entries, left)
      /\ \A k \in 1..Len(entries) :
           left[k].isActive <=> entries[k].isActive /\ entries[k].scope # n - 1
  BY <1>2, <1>3, LeftIs
<1>6. n \in 2..n /\ ctx[n].kind \in Calls
  BY <1>1, <1>4 DEF Calls
<1> HIDE DEF left, n
<1>7. /\ DOMAIN entries = 1..Len(entries) /\ DOMAIN left = 1..Len(entries)
      /\ Len(entries) \in Nat /\ \A k \in 1..Len(entries) : left[k].name = entries[k].name
  BY <1>2, <1>5, Sequences, LenProperties DEF Same
<1>8. /\ fn \in 1..Len(entries)
      /\ entries[fn].type = "USERFUNC" /\ entries[fn].isActive
      /\ entries[fn].scope = n - 2
      /\ \A k \in DOMAIN entries : k > fn => entries[k].scope >= n - 1
  <2>1. /\ ctx[n].fn \in DOMAIN entries
        /\ entries[ctx[n].fn].type = "USERFUNC" /\ entries[ctx[n].fn].isActive
        /\ entries[ctx[n].fn].scope = n - 2
        /\ \A k \in DOMAIN entries : k > ctx[n].fn => entries[k].scope >= n - 1
    BY <1>2, <1>6 DEF Framed, n
  <2> QED BY <1>1, <1>7, <2>1
<1>9. fn \in S
  <2>1. entries[fn].scope # n - 1
    BY <1>1, <1>8
  <2> QED BY <1>5, <1>7, <1>8, <2>1
<1>10. ASSUME NEW k \in S PROVE fn >= k
  <2>1. k \in 1..Len(entries) /\ entries[k].isActive /\ entries[k].scope # n - 1
    BY <1>5, <1>7
  <2>2. entries[k].scope <= n - 1 /\ entries[k].scope \in Nat
    BY <1>2, <1>3, <1>7, <2>1, Fields DEF Scoped
  <2>3. ~(entries[k].scope >= n - 1)
    BY <1>1, <2>1, <2>2
  <2> QED BY <1>7, <1>8, <2>1, <2>3
<1>11. S \subseteq Nat
  BY <1>7
<1> HIDE DEF S
<1>12. Max(S) = fn
  BY <1>9, <1>10, <1>11, MaxIs
<1> QED BY <1>8, <1>12 DEF close_function, S, left

\* A body is left, with its function, which is given the number of its places.
LEMMA LeftFunction ==
  ASSUME Inv, Top.kind = "body"
  PROVE  LET left == SymList_deactivate(current_scope)
             ns == [k \in DOMAIN left |->
                      [left[k] EXCEPT
                         !.offset = IF k = fn THEN get_curr_scope_offset ELSE @,
                         !.func_is_open = @ /\ k # close_function(left, entries[fn].name)]]
         IN  Leaves(entries, ns, ctx) /\ Unplaced(entries, ns)
<1> DEFINE left == SymList_deactivate(current_scope)
           p == get_curr_scope_offset
           ns == [k \in DOMAIN left |->
                    [left[k] EXCEPT
                       !.offset = IF k = fn THEN get_curr_scope_offset ELSE @,
                       !.func_is_open = @ /\ k # close_function(left, entries[fn].name)]]
<1>1. /\ fn \in 1..Len(entries) /\ entries[fn].type = "USERFUNC"
      /\ close_function(left, entries[fn].name) = fn
  BY ClosedIs
<1>2. /\ entries \in Seq(Symbol) /\ AllFilled(entries)
      /\ Placed(entries, ctx, offset, function_offset_stack)
      /\ Top = Innermost(ctx) /\ fn = Innermost(ctx).fn
      /\ current_scope = Len(ctx) - 1
  BY TopIs, NoHeader DEF Inv, fn
<1>3. p \in Nat
  <2>1. Space \in {"program_variable", "function_local", "formal_argument"}
    BY DEF Space, get_curr_scope_space
  <2> QED BY <1>2, <2>1 DEF Placed, get_curr_scope_offset
<1>4. /\ Same(entries, left)
      /\ \A k \in 1..Len(entries) :
           /\ left[k].isActive <=> entries[k].isActive /\ entries[k].scope # Len(ctx) - 1
           /\ left[k].func_is_open = entries[k].func_is_open
           /\ left[k].offset = entries[k].offset
           /\ left[k] \in Symbol
  BY <1>2, LeftIs
<1> HIDE DEF left, p
<1>5. /\ DOMAIN entries = 1..Len(entries) /\ DOMAIN left = 1..Len(entries) /\ Len(entries) \in Nat
      /\ \A k \in 1..Len(entries) :
           /\ left[k].name = entries[k].name /\ left[k].type = entries[k].type
           /\ left[k].scope = entries[k].scope /\ left[k].in = entries[k].in
           /\ left[k].space = entries[k].space
  BY <1>2, <1>4, Sequences, LenProperties DEF Same
<1>6. ASSUME NEW k \in 1..Len(entries)
      PROVE  ns[k] = [left[k] EXCEPT !.offset = IF k = fn THEN p ELSE @,
                                     !.func_is_open = @ /\ k # fn]
  BY <1>1, <1>5 DEF p
<1>7. ASSUME NEW k \in 1..Len(entries)
      PROVE  /\ ns[k] \in Symbol
             /\ ns[k].name = left[k].name /\ ns[k].type = left[k].type
             /\ ns[k].scope = left[k].scope /\ ns[k].in = left[k].in
             /\ ns[k].space = left[k].space /\ ns[k].isActive = left[k].isActive
             /\ ns[k].func_is_open <=> left[k].func_is_open /\ k # fn
             /\ k # fn => ns[k].offset = left[k].offset
  <2> DEFINE e == left[k]
             b == e.func_is_open /\ k # fn
             o == IF k = fn THEN p ELSE e.offset
  <2>1. e \in Symbol
    BY <1>4
  <2>2. b \in BOOLEAN /\ o \in Nat
    BY <1>3, <2>1 DEF Symbol
  <2>3. ns[k] = [e EXCEPT !.offset = o, !.func_is_open = b]
    BY <1>6
  <2>4. (k # fn => o = e.offset) /\ (b <=> left[k].func_is_open /\ k # fn)
    OBVIOUS
  <2> HIDE DEF ns, b, o
  <2> QED BY <2>1, <2>2, <2>3, <2>4 DEF Symbol
<1>8. DOMAIN ns = 1..Len(entries) /\ ns = [k \in 1..Len(entries) |-> ns[k]]
  BY <1>5
<1> HIDE DEF ns
<1>9. ns \in Seq(Symbol) /\ Len(ns) = Len(entries)
  <2>1. ns \in [1..Len(entries) -> Symbol]
    BY <1>7, <1>8
  <2> QED BY <1>5, <2>1, LenProperties, IsASeq
<1>10. Same(entries, ns)
  BY <1>5, <1>7, <1>9 DEF Same
<1>11. Leaves(entries, ns, ctx)
  BY <1>2, <1>4, <1>7, <1>10 DEF Leaves
<1>12. Unplaced(entries, ns)
  <2>1. ASSUME NEW k \in DOMAIN entries
        PROVE  /\ k \in DOMAIN ns /\ ns[k].in = entries[k].in /\ ns[k].type = entries[k].type
               /\ ns[k].space = entries[k].space
               /\ entries[k].space # "unset" => ns[k].offset = entries[k].offset
    <3>1. entries[k].space # "unset" => k # fn
      BY <1>1, <1>2, <1>5 DEF AllFilled
    <3> QED BY <1>4, <1>5, <1>7, <1>8, <3>1
  <2> QED BY <1>5, <1>8, <2>1 DEF Unplaced
<1> QED BY <1>11, <1>12 DEF ns, left

\* The frames when the function f has been read in an expression
WithOperand(cx, f) ==
  [Front(cx) EXCEPT ![Len(cx) - 1].operands =
     Append(IF Innermost(cx).ended THEN Spoil(@) ELSE @, Operand("value", f, FALSE))]

\* A function is an operand of the expression around it; what that expression
\* holds is spoiled if statements have ended in the function.
LEMMA HeldOperand ==
  ASSUME NEW es, NEW ns, Keeps(es, ns), NEW cx \in Seq(FrameType), Len(cx) >= 2,
         Innermost(cx).operands = <<>>, NEW t \in Nat, Held(es, cx, t, FALSE),
         NEW f, f \in DOMAIN ns, f \in Nat, f # 0, ns[f].type = "USERFUNC"
  PROVE  LET dx == WithOperand(cx, f)
         IN  /\ Shorter(cx, dx) /\ Held(ns, dx, t, FALSE)
             /\ Innermost(dx).operands # <<>>
             /\ Last(Innermost(dx).operands) = Operand("value", f, FALSE)
<1> DEFINE ended == Innermost(cx).ended
           m == Len(cx) - 1
           q == cx[m].operands
           r == IF ended THEN Spoil(q) ELSE q
           new == Operand("value", f, FALSE)
           fx == Front(cx)
           s == Append(r, new)
           dx == Holding(fx, s)
<1>1. /\ Len(cx) \in Nat /\ fx \in Seq(FrameType) /\ Len(fx) = m /\ m \in Nat /\ m >= 1
      /\ \A i \in 1..m : fx[i] = cx[i]
      /\ m \in 1..m /\ m + 1 = Len(cx) /\ m \in 1..Len(cx)
  <2>1. Len(cx) \in Nat /\ Len(cx) >= 1
    BY LenProperties
  <2>2. /\ fx \in Seq(FrameType) /\ Len(fx) = m
        /\ \A i \in 1..m : fx[i] = cx[i]
    BY <2>1, FrontIs
  <2> HIDE DEF fx
  <2> QED BY <2>1, <2>2
<1>w. WithOperand(cx, f) = dx
  <2>1. fx[Len(cx) - 1].operands = q
    BY <1>1
  <2>2. WithOperand(cx, f) = [fx EXCEPT ![m].operands = s]
    BY <2>1 DEF WithOperand
  <2> HIDE DEF s, fx, m
  <2> QED BY <1>1, <2>2 DEF Holding
<1> HIDE DEF fx, m, q
<1>2. /\ q \in Seq(OperandType) /\ DOMAIN q = 1..Len(q) /\ Len(q) \in Nat
      /\ \A j \in 1..Len(q) : q[j] \in OperandType
  <2>1. cx[m] \in FrameType /\ q = cx[m].operands
    BY <1>1, ElementOfSeq DEF q
  <2>2. q \in Seq(OperandType)
    BY <2>1 DEF FrameType
  <2> QED BY <2>2, LenProperties, ElementOfSeq
<1>3. ASSUME NEW j \in 1..Len(q)
      PROVE  /\ OperandKept(q[j], es, cx, m, t, FALSE)
             /\ q[j].lost => q[j].spoiled
  BY <1>1, <1>3 DEF Held, OperandKept, q
<1>4. /\ r \in Seq(OperandType) /\ Len(r) = Len(q)
      /\ \A j \in 1..Len(q) : /\ r[j] \in OperandType /\ From(r[j], q[j])
                              /\ ended => r[j].spoiled
  <2>1. CASE ended
    <3>1. r = [j \in 1..Len(q) |-> [q[j] EXCEPT !.spoiled = TRUE]]
      BY <1>2, <2>1 DEF Spoil
    <3>2. ASSUME NEW j \in 1..Len(q)
          PROVE  r[j] \in OperandType /\ From(r[j], q[j]) /\ r[j].spoiled
      <4>1. r[j] = [q[j] EXCEPT !.spoiled = TRUE] /\ q[j] \in OperandType
        BY <1>2, <3>1
      <4> QED BY <4>1 DEF OperandType, From
    <3> HIDE DEF r
    <3>3. r \in [1..Len(q) -> OperandType]
      BY <3>1, <3>2
    <3> QED BY <1>2, <3>2, <3>3, LenProperties, IsASeq
  <2>2. CASE ~ended
    <3>1. r = q
      BY <2>2
    <3> QED BY <1>2, <1>3, <2>2, <3>1 DEF From
  <2> QED BY <2>1, <2>2
<1>5. /\ new \in OperandType /\ new.sym = f /\ new.kind = "value"
      /\ new.computed = FALSE /\ new.lost = FALSE
  BY DEF Operand, OperandType
<1> HIDE DEF r, new
<1>6. /\ s \in Seq(OperandType) /\ Len(s) = Len(q) + 1 /\ s[Len(q) + 1] = new
      /\ \A j \in 1..Len(q) : s[j] = r[j]
  BY <1>4, <1>5, AppendProperties
<1> HIDE DEF s
<1>7. /\ dx \in Seq(FrameType) /\ Len(dx) = m
      /\ \A i \in 1..m : /\ dx[i].kind = fx[i].kind /\ dx[i].fn = fx[i].fn
                         /\ dx[i].ended = fx[i].ended
                         /\ dx[i].operands = IF i = m THEN s ELSE fx[i].operands
  <2>1. Len(fx) >= 1 /\ Len(fx) = m
    BY <1>1
  <2>2. /\ dx \in Seq(FrameType) /\ Len(dx) = Len(fx)
        /\ \A i \in 1..Len(fx) :
             /\ dx[i].kind = fx[i].kind /\ dx[i].fn = fx[i].fn
             /\ dx[i].ended = fx[i].ended
             /\ dx[i].operands = IF i = Len(fx) THEN s ELSE fx[i].operands
    BY <1>1, <1>6, <2>1, HoldingIs
  <2> HIDE DEF dx
  <2> QED BY <2>1, <2>2
<1> HIDE DEF dx
<1>8. s # <<>> /\ Last(s) = new
  <2>1. Len(s) >= 1 /\ Len(s) = Len(q) + 1
    BY <1>2, <1>6
  <2>2. Last(s) = s[Len(s)]
    BY <1>6, <2>1, FrontIs
  <2>3. s # <<>>
    <3>1. SUFFICES ASSUME s = <<>> PROVE FALSE
      OBVIOUS
    <3>2. Len(s) = 0
      BY <3>1
    <3> QED BY <2>1, <3>2
  <2> QED BY <1>6, <2>1, <2>2, <2>3
<1>9. Shorter(cx, dx)
  BY <1>1, <1>7 DEF Shorter, m
<1>10. ASSUME NEW i \in 1..Len(dx), NEW j \in 1..Len(dx[i].operands)
       PROVE  OperandKept(dx[i].operands[j], ns, dx, i, t, FALSE)
  <2>0. i \in 1..m /\ dx[i].fn = cx[i].fn /\ i \in 1..Len(cx)
    BY <1>1, <1>7
  <2>1. CASE i # m
    <3>1. dx[i].operands = cx[i].operands /\ j \in 1..Len(cx[i].operands)
      BY <1>1, <1>7, <2>0, <2>1
    <3>2. m \in (i + 1)..Len(dx) /\ dx[m].operands # <<>>
      BY <1>1, <1>7, <1>8, <2>0, <2>1
    <3>3. Overtaken(dx, i)
      BY <3>2 DEF Overtaken
    <3> DEFINE o == cx[i].operands[j]
    <3>4. o \in OperandType /\ OperandKept(o, es, cx, i, t, FALSE)
      <4>1. cx[i] \in FrameType
        BY <2>0, ElementOfSeq
      <4>2. cx[i].operands \in Seq(OperandType)
        BY <4>1 DEF FrameType
      <4> QED BY <2>0, <3>1, <4>2, ElementOfSeq DEF Held
    <3>5. From(o, o)
      BY <3>4 DEF From, OperandKept
    <3> HIDE DEF o
    <3>6. OperandKept(o, ns, dx, i, t, FALSE)
      BY <2>0, <3>3, <3>4, <3>5, StillKept
    <3> QED BY <3>1, <3>6 DEF o
  <2>2. CASE i = m
    <3>1. dx[i].operands = s /\ j \in 1..(Len(q) + 1)
      BY <1>6, <1>7, <2>0, <2>2
    <3>2. CASE j \in 1..Len(q)
      <4> DEFINE o == q[j]
                 p == r[j]
      <4>1. /\ o \in OperandType /\ OperandKept(o, es, cx, i, t, FALSE)
            /\ p \in OperandType /\ From(p, o) /\ (ended => p.spoiled)
        BY <1>2, <1>3, <1>4, <2>2, <3>2
      <4>2. ~ended => ~Overtaken(cx, i)
        <5>1. SUFFICES ASSUME ~ended, NEW k \in (i + 1)..Len(cx),
                              cx[k].ended \/ cx[k].operands # <<>>
                       PROVE FALSE
          BY DEF Overtaken
        <5>2. k = Len(cx)
          BY <1>1, <2>2
        <5> QED BY <5>1, <5>2 DEF Innermost
      <4> HIDE DEF o, p, ended
      <4>3. OperandKept(p, ns, dx, i, t, FALSE)
        <5>1. CASE ended
          BY <2>0, <4>1, <5>1, StillKept
        <5>2. CASE ~ended
          <6>1. t <= t /\ ~Overtaken(cx, i)
            BY <4>2, <5>2
          <6> QED BY <2>0, <4>1, <6>1, StillKept
        <5> QED BY <5>1, <5>2
      <4> QED BY <1>6, <3>1, <3>2, <4>3 DEF p
    <3>3. CASE j \notin 1..Len(q)
      <4>1. dx[i].operands[j] = new
        BY <1>2, <1>6, <3>1, <3>3
      <4>2. OperandKept(new, ns, dx, i, t, FALSE)
        BY <1>5 DEF OperandKept
      <4> QED BY <4>1, <4>2
    <3> QED BY <3>2, <3>3
  <2> QED BY <2>1, <2>2
<1>11. Held(ns, dx, t, FALSE)
  BY <1>10 DEF Held
<1>12. Innermost(dx).operands = s
  BY <1>1, <1>7 DEF Innermost
<1> QED BY <1>8, <1>9, <1>11, <1>12, <1>w DEF new

\* The body of a function is left, whatever becomes of its value.
LEMMA BodyLeft ==
  ASSUME Inv, IR_GEN_FAILED = FALSE, NEW as_operand \in BOOLEAN, FunctionEnd(as_operand),
         NEW dx, Shorter(ctx, dx)
  PROVE  /\ entries' \in Seq(Symbol) /\ Keeps(entries, entries')
         /\ Framed(entries', dx) /\ Scoped(entries', dx, current_scope')
         /\ Counted(dx, scope_space_counter', function_offset_stack')
         /\ Placed(entries', dx, offset', function_offset_stack') /\ AllFilled(entries')
         /\ IR_GEN_FAILED' = FALSE /\ Innermost(dx).kind # "header"
<1> DEFINE left == SymList_deactivate(current_scope)
           ns == [k \in DOMAIN left |->
                    [left[k] EXCEPT
                       !.offset = IF k = fn THEN get_curr_scope_offset ELSE @,
                       !.func_is_open = @ /\ k # close_function(left, entries[fn].name)]]
<1>1. /\ Top.kind = "body" /\ entries' = ns /\ current_scope' = current_scope - 1
      /\ scope_space_counter' = scope_space_counter - 2
      /\ offset' = [offset EXCEPT ![get_curr_scope_space(scope_space_counter - 2)]
                                    = Last(function_offset_stack)]
      /\ function_offset_stack' = Front(function_offset_stack)
      /\ IR_GEN_FAILED' = FALSE
  BY DEF FunctionEnd, fn, restore_curr_scope_offset
<1>2. /\ entries \in Seq(Symbol) /\ Framed(entries, ctx) /\ Scoped(entries, ctx, current_scope)
      /\ Counted(ctx, scope_space_counter, function_offset_stack)
      /\ Placed(entries, ctx, offset, function_offset_stack) /\ AllFilled(entries)
      /\ Top = Innermost(ctx)
  BY TopIs DEF Inv
<1>3. Leaves(entries, ns, ctx) /\ Unplaced(entries, ns)
  BY <1>1, LeftFunction
<1> HIDE DEF ns
<1>4. ns \in Seq(Symbol) /\ Keeps(entries, ns)
  BY <1>2, <1>3, SameKeeps DEF Leaves, Same
<1>5. Framed(ns, dx) /\ Scoped(ns, dx, current_scope - 1)
  BY <1>2, <1>3, FramedPop, ScopedPop
<1>6. /\ Counted(dx, scope_space_counter - 2, Front(function_offset_stack))
      /\ Placed(ns, dx, [offset EXCEPT ![get_curr_scope_space(scope_space_counter - 2)]
                                         = Last(function_offset_stack)],
                Front(function_offset_stack))
  BY <1>1, <1>2, <1>3, <1>4, <1>5, CountedEnd
<1>7. AllFilled(ns)
  BY <1>2, <1>3, <1>4, FilledNext DEF Scoped
<1>8. Innermost(dx).kind # "header"
  <2>1. /\ ctx \in Seq(FrameType) /\ Len(ctx) \in Nat
        /\ \A i \in 1..Len(ctx) : ctx[i].kind = "header" => i = Len(ctx)
    BY <1>2, LenProperties DEF Framed
  <2>2. /\ Len(ctx) >= 2 /\ Len(dx) = Len(ctx) - 1
        /\ \A i \in 1..Len(dx) : dx[i].kind = ctx[i].kind
    BY DEF Shorter
  <2>3. Len(dx) \in 1..Len(dx) /\ Len(dx) \in 1..Len(ctx) /\ Len(dx) # Len(ctx)
    BY <2>1, <2>2
  <2> QED BY <2>1, <2>2, <2>3 DEF Innermost
<1> QED BY <1>1, <1>4, <1>5, <1>6, <1>7, <1>8

\* A function ends.
LEMMA FunctionEndStep ==
  ASSUME Inv, IR_GEN_FAILED = FALSE, NEW as_operand \in BOOLEAN, FunctionEnd(as_operand)
  PROVE  Inv'
<1>1. /\ Top.kind = "body" /\ operands = <<>>
      /\ temp_var_counter' = IF as_operand THEN temp_var_counter ELSE 0
  BY DEF FunctionEnd
<1>2. /\ ctx \in Seq(FrameType) /\ Len(ctx) \in Nat /\ Len(ctx) >= 1 /\ Len(ctx) \in 1..Len(ctx)
      /\ Top = Innermost(ctx) /\ Innermost(ctx).kind = "body" /\ Innermost(ctx).operands = <<>>
  BY <1>1, TopIs DEF operands
<1>3. /\ Held(entries, ctx, temp_var_counter, FALSE) /\ ctx[1].kind = "program"
      /\ temp_var_counter \in 0..Len(TempNames) /\ temp_var_counter \in Nat
      /\ entries \in Seq(Symbol)
  <2>1. /\ Held(entries, ctx, temp_var_counter, FALSE) /\ Framed(entries, ctx)
        /\ temp_var_counter \in 0..Len(TempNames) /\ entries \in Seq(Symbol)
    BY DEF Inv
  <2>2. ctx[1].kind = "program"
    BY <2>1 DEF Framed
  <2>3. \A m : m \in 0..Len(TempNames) => m \in Nat
    OBVIOUS
  <2> QED BY <2>1, <2>2, <2>3
<1>4. Len(ctx) >= 2
  <2>1. Len(ctx) # 1
    BY <1>2, <1>3 DEF Innermost
  <2>2. \A m \in Nat : m >= 1 /\ m # 1 => m >= 2
    OBVIOUS
  <2> QED BY <1>2, <2>1, <2>2
<1>5. CASE ~as_operand
  <2> DEFINE dx == Ended(Front(ctx))
  <2>1. ctx' = dx /\ temp_var_counter' = 0
    BY <1>1, <1>5 DEF FunctionEnd
  <2>2. /\ Shorter(ctx, dx) /\ Moved(ctx, dx, temp_var_counter, 0)
        /\ Innermost(dx).operands = <<>>
    BY <1>2, <1>3, <1>4, PopMoved
  <2> HIDE DEF dx
  <2>3. /\ entries' \in Seq(Symbol) /\ Keeps(entries, entries')
        /\ Framed(entries', dx) /\ Scoped(entries', dx, current_scope')
        /\ Counted(dx, scope_space_counter', function_offset_stack')
        /\ Placed(entries', dx, offset', function_offset_stack') /\ AllFilled(entries')
        /\ IR_GEN_FAILED' = FALSE /\ Innermost(dx).kind # "header"
    BY <2>2, BodyLeft
  <2>4. Held(entries', dx, 0, FALSE)
    <3>1. PICK ns : ns = entries'
      OBVIOUS
    <3>2. PICK t : t = temp_var_counter
      OBVIOUS
    <3>3. Keeps(entries, ns) /\ dx \in Seq(FrameType) /\ Moved(ctx, dx, t, 0)
          /\ Held(entries, ctx, t, FALSE) /\ t \in Nat
      BY <1>3, <2>2, <2>3, <3>1, <3>2 DEF Shorter
    <3>4. Held(ns, dx, 0, FALSE)
      BY <1>2, <3>3, HeldMove
    <3> QED BY <3>1, <3>4
  <2>5. ReadLast'
    <3>1. Len(dx) >= 1 /\ dx \in Seq(FrameType)
      BY <1>2, <1>4, <2>2 DEF Shorter
    <3>2. Last(dx) = Innermost(dx)
      BY <3>1, FrontIs DEF Innermost
    <3>3. operands' = <<>> /\ Top'.kind # "header"
      BY <2>1, <2>2, <2>3, <3>2 DEF operands, Top
    <3> QED BY <3>3 DEF ReadLast
  <2>6. 0 \in 0..Len(TempNames)
    BY TempNamesAre
  <2> QED BY <2>1, <2>3, <2>4, <2>5, <2>6 DEF Inv
<1>6. CASE as_operand
  <2> DEFINE dx == WithOperand(ctx, fn)
  <2>1. ctx' = dx /\ temp_var_counter' = temp_var_counter
    BY <1>1, <1>2, <1>6 DEF FunctionEnd, fn, WithOperand
  <2>2. /\ fn \in 1..Len(entries) /\ entries[fn].type = "USERFUNC"
        /\ DOMAIN entries = 1..Len(entries)
    BY <1>1, <1>3, ClosedIs, Sequences
  <2>3. Shorter(ctx, dx)
    <3>1. Keeps(entries, entries)
      BY <1>3, Unchanged
    <3>2. fn \in DOMAIN entries /\ fn \in Nat /\ fn # 0
      BY <2>2
    <3> QED BY <1>2, <1>3, <1>4, <2>2, <3>1, <3>2, HeldOperand
  <2> HIDE DEF dx
  <2>4. /\ entries' \in Seq(Symbol) /\ Keeps(entries, entries')
        /\ Framed(entries', dx) /\ Scoped(entries', dx, current_scope')
        /\ Counted(dx, scope_space_counter', function_offset_stack')
        /\ Placed(entries', dx, offset', function_offset_stack') /\ AllFilled(entries')
        /\ IR_GEN_FAILED' = FALSE /\ Innermost(dx).kind # "header"
    BY <2>3, BodyLeft
  <2>5. /\ Held(entries', dx, temp_var_counter, FALSE)
        /\ Innermost(dx).operands # <<>> /\ Last(Innermost(dx).operands) = Operand("value", fn, FALSE)
    <3>1. PICK ns : ns = entries'
      OBVIOUS
    <3>2. PICK f : f = fn
      OBVIOUS
    <3>3. /\ Keeps(entries, ns) /\ f \in DOMAIN ns /\ f \in Nat /\ f # 0
          /\ ns[f].type = "USERFUNC"
      <4>1. Keeps(entries, ns) /\ f \in DOMAIN entries /\ f \in Nat /\ f # 0
            /\ entries[f].type = "USERFUNC"
        BY <2>2, <2>4, <3>1, <3>2
      <4> QED BY <4>1 DEF Keeps
    <3>4. /\ Held(ns, dx, temp_var_counter, FALSE)
          /\ Innermost(dx).operands # <<>>
          /\ Last(Innermost(dx).operands) = Operand("value", f, FALSE)
      BY <1>2, <1>3, <1>4, <3>2, <3>3, HeldOperand DEF dx
    <3> QED BY <3>1, <3>2, <3>4
  <2>6. ReadLast'
    <3>1. Len(dx) >= 1 /\ dx \in Seq(FrameType)
      BY <1>2, <1>4, <2>3 DEF Shorter
    <3>2. Last(dx) = Innermost(dx) /\ Len(dx) \in 1..Len(dx)
      <4>1. Last(dx) = dx[Len(dx)]
        BY <3>1, FrontIs
      <4>2. Len(dx) \in Nat
        BY <3>1, LenProperties
      <4> QED BY <3>1, <4>1, <4>2 DEF Innermost
    <3>3. operands' = Innermost(dx).operands /\ Top'.kind # "header"
      BY <2>1, <2>4, <3>2 DEF operands, Top
    <3>4. Nth(0)' = Operand("value", fn, FALSE)
      <4> DEFINE z == Innermost(dx).operands
      <4>1. z \in Seq(OperandType)
        <5>1. Innermost(dx) \in FrameType
          BY <3>1, <3>2, ElementOfSeq DEF Innermost
        <5> QED BY <5>1 DEF FrameType
      <4>2. Nth(0)' = z[Len(z) - 0] /\ Len(z) \in Nat
        BY <3>3, <4>1, LenProperties DEF Nth
      <4>3. Last(z) = z[Len(z)]
        BY DEF Last
      <4> HIDE DEF z
      <4>4. Nth(0)' = z[Len(z)]
        BY <4>2
      <4> QED BY <2>5, <4>3, <4>4 DEF z
    <3>5. Nth(0)'.kind = "value"
      BY <3>4 DEF Operand
    <3> QED BY <3>3, <3>5 DEF ReadLast
  <2> QED BY <1>3, <2>1, <2>4, <2>5, <2>6 DEF Inv
<1> QED BY <1>5, <1>6

-----------------------------------------------------------------------------
(* The theorems. *)

\* Nothing has been read.
LEMMA InitInv == Init => Inv
<1> SUFFICES ASSUME Init PROVE Inv
  OBVIOUS
<1> DEFINE fr == Frame("program", 0)
<1>1. /\ entries = <<>> /\ current_scope = 0 /\ scope_space_counter = 1
      /\ offset = [s \in {"program_variable", "function_local", "formal_argument"} |-> 0]
      /\ function_offset_stack = <<>> /\ temp_var_counter = 0 /\ IR_GEN_FAILED = FALSE
      /\ ctx = <<fr>>
  BY DEF Init
<1>2. /\ fr \in FrameType /\ fr.kind = "program" /\ fr.fn = 0 /\ fr.operands = <<>>
  <2>1. <<>> \in Seq(OperandType)
    BY EmptySeq
  <2> QED BY <2>1 DEF Frame, FrameType
<1> HIDE DEF fr
<1>3. ctx \in Seq(FrameType) /\ Len(ctx) = 1 /\ ctx[1] = fr /\ Innermost(ctx) = fr
  BY <1>1, <1>2 DEF Innermost
<1>4. entries \in Seq(Symbol) /\ Len(entries) = 0 /\ DOMAIN entries = {}
  BY <1>1, EmptySeq
<1>5. 0 \in 0..Len(TempNames)
  BY TempNamesAre
<1>6. Framed(entries, ctx)
  <2>1. /\ \A i \in 1..Len(ctx) : i = 1 /\ ctx[i] = fr
        /\ \A i \in 2..Len(ctx) : FALSE
    BY <1>3
  <2>2. \A i \in 1..Len(ctx) : ctx[i].fn \in 0..Len(entries) /\ ctx[i].kind # "header"
    BY <1>2, <1>4, <2>1
  <2> QED BY <1>2, <1>3, <1>4, <2>1, <2>2 DEF Framed
<1>7. Scoped(entries, ctx, current_scope)
  BY <1>1, <1>2, <1>3, <1>4 DEF Scoped
<1>8. Held(entries, ctx, temp_var_counter, IR_GEN_FAILED)
  <2>1. \A i \in 1..Len(ctx) : ctx[i].operands = <<>>
    BY <1>2, <1>3
  <2>2. \A j \in 1..Len(<<>>) : FALSE
    OBVIOUS
  <2> QED BY <2>1, <2>2 DEF Held
<1>9. ReadLast
  <2>1. Top = fr
    BY <1>3 DEF Top, Last
  <2> QED BY <1>2, <2>1 DEF ReadLast, operands
<1>10. \A K : {"program"} \cap K = {} => Count(ctx, K, 1) = 0 /\ Count(ctx, K, Len(ctx)) = 0
  <2> SUFFICES ASSUME NEW K, {"program"} \cap K = {}
               PROVE  Count(ctx, K, 1) = 0
    BY <1>3
  <2>1. ctx[0 + 1].kind \notin K
    BY <1>2, <1>3
  <2>2. Count(ctx, K, 0 + 1) = Count(ctx, K, 0) /\ Count(ctx, K, 0) = 0
    BY <2>1, CountOut, CountStep
  <2> QED BY <2>2
<1>11. Counted(ctx, scope_space_counter, function_offset_stack)
  <2>1. Count(ctx, {"body"}, Len(ctx)) = 0 /\ Count(ctx, Calls, Len(ctx)) = 0
        /\ Count(ctx, Calls, 1) = 0
    BY <1>10 DEF Calls
  <2>2. function_offset_stack \in Seq(Nat) /\ Len(function_offset_stack) = 0
    BY <1>1
  <2>3. scope_space_counter = 1 + 2 * 0 + (IF Innermost(ctx).kind = "header" THEN 1 ELSE 0)
    BY <1>1, <1>2, <1>3
  <2>4. \A i \in 1..Len(ctx) : ctx[i].fn = 0 /\ Count(ctx, Calls, i) = 0
    BY <1>2, <1>3, <2>1
  <2> QED BY <2>1, <2>2, <2>3, <2>4 DEF Counted
<1>12. \A f : PlacesOf(entries, f) = {}
  BY <1>4 DEF PlacesOf
<1>13. Cardinality({}) = 0
  BY FS_EmptySet
<1>14. Placed(entries, ctx, offset, function_offset_stack)
  <2>1. offset \in [{"program_variable", "function_local", "formal_argument"} -> Nat]
    BY <1>1
  <2>2. \A i \in 2..Len(ctx) : FALSE
    BY <1>3
  <2>3. offset[SpaceOf(0)] = 0
    BY <1>1 DEF SpaceOf
  <2>4. /\ Innermost(ctx).kind # "header" /\ Innermost(ctx).fn = 0
        /\ Cardinality(PlacesOf(entries, 0)) = 0
    BY <1>2, <1>3, <1>12, <1>13
  <2> QED BY <2>1, <2>2, <2>3, <2>4 DEF Placed
<1>15. AllFilled(entries)
  <2>1. \A f : Filled(entries, f)
    <3> SUFFICES ASSUME NEW f PROVE Filled(entries, f)
      OBVIOUS
    <3>1. {entries[k].offset : k \in PlacesOf(entries, f)} = {}
      BY <1>12
    <3>2. Cardinality(PlacesOf(entries, f)) = 0
      BY <1>12, <1>13
    <3>3. 0..(0 - 1) = {}
      OBVIOUS
    <3> QED BY <1>12, <3>1, <3>2, <3>3 DEF Filled
  <2> QED BY <1>4, <2>1 DEF AllFilled
<1> QED BY <1>1, <1>4, <1>5, <1>6, <1>7, <1>8, <1>9, <1>11, <1>14, <1>15 DEF Inv

\* Whatever is read next.
LEMMA ReadStep ==
  ASSUME Inv, IR_GEN_FAILED = FALSE, Read
  PROVE  Inv'
<1>1. CASE \E n \in Var \union Fun : Variable(n) \/ LocalVariable(n) \/ GlobalVariable(n)
  BY <1>1, VariableStep, LocalVariableStep, GlobalVariableStep
<1>2. CASE primary
  BY <1>2, PrimaryStep
<1>3. CASE handle_expr_op_expr
  BY <1>3, ExprStep
<1>4. CASE postfix_step
  BY <1>4, PostfixStep
<1>5. CASE assignment_expression
  BY <1>5, AssignmentStep
<1>6. CASE \E n \in 0..1 : call(n)
  BY <1>6, CallStep
<1>7. CASE Statement
  BY <1>7, StatementStep
<1>8. CASE BlockStart
  BY <1>8, BlockStartStep
<1>9. CASE BlockEnd
  BY <1>9, BlockEndStep
<1>10. CASE \E n \in Fun : function_prefix(n)
  BY <1>10, PrefixStep
<1>11. CASE \E formals \in {<<>>} \union {<<n>> : n \in Var} : function_arguments(formals)
  <2>1. PICK formals \in {<<>>} \union {<<n>> : n \in Var} : function_arguments(formals)
    BY <1>11
  <2>2. <<>> \in Seq(Var) /\ \A n \in Var : <<n>> \in Seq(Var)
    OBVIOUS
  <2>3. formals \in Seq(Var)
    BY Zenon, <2>2
  <2> QED BY <2>1, <2>3, ArgumentsStep
<1>12. CASE \E as_operand \in BOOLEAN : FunctionEnd(as_operand)
  BY <1>12, FunctionEndStep
<1> QED BY Zenon, <1>1, <1>2, <1>3, <1>4, <1>5, <1>6, <1>7, <1>8, <1>9, <1>10, <1>11, <1>12 DEF Read

\* The invariant is inductive.
LEMMA NextInv == Inv /\ [Next]_vars => Inv'
<1> SUFFICES ASSUME Inv, [Next]_vars PROVE Inv'
  OBVIOUS
<1>1. CASE UNCHANGED vars
  <2>1. /\ entries' = entries /\ current_scope' = current_scope
        /\ scope_space_counter' = scope_space_counter /\ offset' = offset
        /\ function_offset_stack' = function_offset_stack
        /\ temp_var_counter' = temp_var_counter /\ IR_GEN_FAILED' = IR_GEN_FAILED
        /\ ctx' = ctx
    BY <1>1 DEF vars, places
  <2>2. ReadLast'
    <3>1. Top' = Top /\ operands' = operands /\ Nth(0)' = Nth(0)
      BY <2>1 DEF operands, Top, Nth
    <3>2. Looked(Nth(0).sym)' = Looked(Nth(0).sym)
      <4>1. \A n, s : ActiveAt(n, s)' = ActiveAt(n, s)
        BY <2>1 DEF ActiveAt
      <4>2. \A n, s : SymTable_get_closest_scope(n, s)' = SymTable_get_closest_scope(n, s)
        BY <4>1 DEF SymTable_get_closest_scope, SymTable_contains, SymTable_get_entry_at_scope
      <4> QED BY <2>1, <3>1, <4>2 DEF Looked
    <3>3. entries'[Nth(0)'.sym] = entries[Nth(0).sym]
      BY <2>1, <3>1
    <3> QED BY Zenon, <3>1, <3>2, <3>3 DEF Inv, ReadLast
  <2> QED BY <2>1, <2>2 DEF Inv
<1>2. CASE ~IR_GEN_FAILED /\ Read
  <2>1. IR_GEN_FAILED = FALSE
    BY <1>2 DEF Inv
  <2> QED BY <1>2, <2>1, ReadStep
<1> QED BY <1>1, <1>2 DEF Next, Abort

\* The frames of blocks and bodies are those inside the first, but a header.
LEMMA ScopesCounted ==
  ASSUME Inv
  PROVE  current_scope = Cardinality({i \in DOMAIN ctx : ctx[i].kind \in {"block", "body"}})
<1> DEFINE n == Len(ctx)
           S == {i \in DOMAIN ctx : ctx[i].kind \in {"block", "body"}}
           m == IF Innermost(ctx).kind = "header" THEN n - 1 ELSE n
<1>1. /\ ctx \in Seq(FrameType) /\ n \in Nat /\ n >= 1 /\ DOMAIN ctx = 1..n
      /\ \A i \in 1..n : ctx[i] \in FrameType
      /\ ctx[1].kind = "program" /\ \A i \in 2..n : ctx[i].kind # "program"
      /\ \A i \in 1..n : ctx[i].kind = "header" => i = n
      /\ current_scope = n - (IF Innermost(ctx).kind = "header" THEN 2 ELSE 1)
  BY Sequences DEF Inv, Framed, Scoped
<1>2. \A i \in 1..n : ctx[i].kind \in {"program", "block", "header", "body"}
  BY <1>1 DEF FrameType
<1> HIDE DEF n
<1>3. S = 2..m
  <2>1. ASSUME NEW i \in 1..n
        PROVE  ctx[i].kind \in {"block", "body"} <=> i \in 2..m
    <3>1. CASE i = 1
      BY <1>1, <3>1
    <3>2. CASE i # 1 /\ ctx[i].kind = "header"
      <4>1. i = n
        BY <1>1, <3>2
      <4>2. m = n - 1
        BY <3>2, <4>1 DEF Innermost, n
      <4> QED BY <1>1, <3>2, <4>1, <4>2
    <3>3. CASE i # 1 /\ ctx[i].kind # "header"
      <4>1. i \in 2..n
        BY <1>1, <3>3
      <4>2. ctx[i].kind \in {"block", "body"}
        BY <1>1, <1>2, <3>3, <4>1
      <4>3. i = n => m = n
        BY <3>3 DEF Innermost, n
      <4>4. m = n \/ m = n - 1
        OBVIOUS
      <4> HIDE DEF m
      <4>5. i \in 2..m
        BY <1>1, <4>1, <4>3, <4>4
      <4> QED BY <4>2, <4>5
    <3> QED BY <3>1, <3>2, <3>3
  <2>2. m \in Int /\ m <= n
    BY <1>1
  <2> HIDE DEF m
  <2>3. \A i \in 2..m : i \in 1..n
    BY <1>1, <2>2
  <2> QED BY <1>1, <2>1, <2>3
<1>4. m \in Nat /\ m >= 1 /\ current_scope = m - 1
  <2>1. CASE Innermost(ctx).kind = "header"
    <3>1. n # 1
      BY <1>1, <2>1 DEF Innermost, n
    <3> QED BY <1>1, <2>1, <3>1
  <2>2. CASE Innermost(ctx).kind # "header"
    BY <1>1, <2>2
  <2> QED BY <2>1, <2>2
<1> HIDE DEF m, S
<1>5. Cardinality(2..m) = m - 1
  <2>1. 2 \in Int /\ m \in Int
    BY <1>4
  <2>2. Cardinality(2..m) = IF 2 > m THEN 0 ELSE m - 2 + 1
    BY <2>1, FS_Interval
  <2> QED BY <1>4, <2>2
<1> QED BY <1>3, <1>4, <1>5 DEF S

\* What holds in every state that satisfies the invariant
LEMMA InvTyped == Inv => TypeOK
<1> SUFFICES ASSUME Inv PROVE TypeOK
  OBVIOUS
<1>1. /\ entries \in Seq(Symbol) /\ Framed(entries, ctx)
      /\ Counted(ctx, scope_space_counter, function_offset_stack)
      /\ DOMAIN ctx = 1..Len(ctx) /\ Top = Innermost(ctx)
  BY TopIs, LenProperties DEF Inv
<1>2. Cardinality(Bodies) = Count(ctx, {"body"}, Len(ctx))
  <2>1. Bodies = {i \in 1..Len(ctx) : ctx[i].kind \in {"body"}}
    BY <1>1 DEF Bodies
  <2> QED BY <2>1 DEF Count
<1>3. scope_space_counter = 1 + 2 * Cardinality(Bodies) + IF Top.kind = "header" THEN 1 ELSE 0
  BY <1>1, <1>2 DEF Counted
<1>4. Len(function_offset_stack)
        = Cardinality({i \in DOMAIN ctx : ctx[i].kind \in {"header", "body"}})
  BY <1>1 DEF Counted, Count, Calls
<1>5. {k \in DOMAIN entries : entries[k].func_is_open}
        = {ctx[i].fn : i \in {j \in DOMAIN ctx : ctx[j].kind \in {"header", "body"}}}
  <2>1. \A i \in DOMAIN ctx : ctx[i].kind \in Calls => i \in 2..Len(ctx)
    <3>1. Len(ctx) \in Nat /\ ctx[1].kind \notin Calls
      BY <1>1, TopIs DEF Framed, Calls
    <3>2. \A i \in 1..Len(ctx) : i # 1 => i \in 2..Len(ctx)
      BY <3>1
    <3> QED BY <1>1, <3>1, <3>2
  <2>2. \A i \in 2..Len(ctx) : i \in DOMAIN ctx
    BY <1>1, TopIs
  <2>3. \A i \in 2..Len(ctx) : ctx[i].kind \in Calls =>
          ctx[i].fn \in DOMAIN entries /\ entries[ctx[i].fn].func_is_open
    BY <1>1 DEF Framed
  <2>4. \A k \in DOMAIN entries : entries[k].func_is_open =>
          \E i \in 2..Len(ctx) : ctx[i].kind \in Calls /\ ctx[i].fn = k
    BY <1>1 DEF Framed
  <2> DEFINE A == {k \in DOMAIN entries : entries[k].func_is_open}
             B == {ctx[i].fn : i \in {j \in DOMAIN ctx : ctx[j].kind \in Calls}}
  <2>5. A \subseteq B
    BY <2>2, <2>4
  <2>6. B \subseteq A
    BY <2>1, <2>3
  <2> QED BY <2>5, <2>6 DEF Calls
<1> QED BY <1>1, <1>3, <1>4, <1>5, ScopesCounted DEF TypeOK

\* The counters of the IR stage say how the program being read is nested, and
\* the functions open in the table are those being read (parser.y:553-640).
THEOREM TemporariesTyped == Spec => []TypeOK
<1> QED BY InitInv, NextInv, InvTyped, PTL DEF Spec

\* What an expression holds in a temporary is not written to while the rest of
\* the expression is read, unless a function with statements is read in it
\* (create_temp_symbol, parser.y:108).
THEOREM OperandsStay == Spec => []OperandsKept
<1>1. Inv => OperandsKept
  <2> SUFFICES ASSUME Inv, NEW i \in DOMAIN ctx, NEW j \in DOMAIN ctx[i].operands,
                      ctx[i].operands[j].lost
               PROVE  ctx[i].operands[j].spoiled
    BY DEF OperandsKept
  <2>1. /\ ctx \in Seq(FrameType) /\ DOMAIN ctx = 1..Len(ctx) /\ ctx[i] \in FrameType
    BY TopIs, LenProperties, ElementOfSeq
  <2>2. ctx[i].operands \in Seq(OperandType)
    BY <2>1 DEF FrameType
  <2>3. DOMAIN ctx[i].operands = 1..Len(ctx[i].operands)
    BY <2>2, LenProperties
  <2>4. OperandKept(ctx[i].operands[j], entries, ctx, i, temp_var_counter, IR_GEN_FAILED)
    BY <2>1, <2>3 DEF Inv, Held
  <2> QED BY <2>4 DEF OperandKept
<1> QED BY <1>1, InitInv, NextInv, PTL DEF Spec

\* The variables of each function, and of the program, take the places 0, 1, 2
\* and so on of their own space (restore_curr_scope_offset).
THEOREM PlacesFill == Spec => []SlotsFill
<1>1. Inv => SlotsFill
  <2> SUFFICES ASSUME Inv, NEW f \in {0} \union {k \in DOMAIN entries : IsFunction(k)}
               PROVE  /\ {entries[k].offset : k \in Variables(f)}
                           = 0..(Cardinality(Variables(f)) - 1)
                      /\ \A k \in Variables(f) :
                           entries[k].space = IF f = 0 THEN "program_variable" ELSE "function_local"
    BY DEF SlotsFill
  <2>1. Filled(entries, f)
    BY DEF Inv, AllFilled, IsFunction
  <2>2. Variables(f) = PlacesOf(entries, f)
    BY DEF Variables, PlacesOf
  <2> QED BY <2>1, <2>2 DEF Filled, SpaceOf
<1> QED BY <1>1, InitInv, NextInv, PTL DEF Spec

\* No value that is computed with is a variable or a temporary of a function
\* around the one it is computed in (SymTable_open_func, create_temp_symbol).
THEOREM OperandsOwn == Spec => []OperandsReachable
<1>1. Inv => OperandsReachable
  <2> DEFINE o(i, j) == ctx[i].operands[j]
  <2> SUFFICES ASSUME Inv, NEW i \in DOMAIN ctx, NEW j \in DOMAIN ctx[i].operands,
                      o(i, j).kind = "value", o(i, j) # Dummy, ~IsFunction(o(i, j).sym)
               PROVE  \/ entries[o(i, j).sym].in = ctx[i].fn
                      \/ entries[o(i, j).sym].scope = 0
    BY DEF OperandsReachable
  <2>1. /\ ctx \in Seq(FrameType) /\ DOMAIN ctx = 1..Len(ctx) /\ ctx[i] \in FrameType
    BY TopIs, LenProperties, ElementOfSeq
  <2>2. ctx[i].operands \in Seq(OperandType)
    BY <2>1 DEF FrameType
  <2>3. DOMAIN ctx[i].operands = 1..Len(ctx[i].operands)
    BY <2>2, LenProperties
  <2>4. OperandKept(o(i, j), entries, ctx, i, temp_var_counter, IR_GEN_FAILED)
    BY <2>1, <2>3 DEF Inv, Held
  <2>5. o(i, j).sym # 0
    BY <2>4 DEF OperandKept
  <2> QED BY <2>4, <2>5 DEF OperandKept, IsFunction
<1> QED BY <1>1, InitInv, NextInv, PTL DEF Spec
=============================================================================
