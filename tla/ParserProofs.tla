---------------------------- MODULE ParserProofs -----------------------------
(* For every program, whatever its names and however deep it nests: the      *)
(* bindings the parser keeps mirror the blocks and functions around the      *)
(* point it has reached, so that access is refused to the variables of other *)
(* functions, and only to them; no two variables that can be alive together  *)
(* share a slot, and the size recorded for a function's frame counts its     *)
(* locals; and in a program without errors no name is bound twice in a scope. *)
EXTENDS Parser, FiniteSetTheorems, SequenceTheorems, WellFoundedInduction, TLAPS

-----------------------------------------------------------------------------
(* The least and the greatest of a set of numbers: what a walk along a list   *)
(* stops at, and what the definitions of the lookups in Symbols choose.       *)

\* A set of numbers has a least element, which Min chooses.
LEMMA MinIsFirst ==
  ASSUME NEW S, S \subseteq Nat, S # {}
  PROVE  Min(S) \in S /\ \A y \in S : Min(S) <= y
<1>1. \E x \in S : \A y \in S : ~(<<y, x>> \in OpToRel(<, Nat))
  BY NatLessThanWellFounded, WFMin
<1>2. PICK x \in S : \A y \in S : ~(<<y, x>> \in OpToRel(<, Nat))
  BY <1>1
<1>3. ASSUME NEW y \in S PROVE x <= y
  <2>1. x \in Nat /\ y \in Nat /\ <<y, x>> \in Nat \X Nat
    OBVIOUS
  <2>2. ~(y < x)
    BY <1>2, <2>1 DEF OpToRel
  <2> QED BY <2>1, <2>2
<1> QED BY <1>3 DEF Min

\* A bounded set of numbers has a greatest element, which Max chooses.
LEMMA MaxIsLast ==
  ASSUME NEW n \in Nat, NEW S, S \subseteq 0..n, S # {}
  PROVE  Max(S) \in S /\ \A y \in S : Max(S) >= y
<1> DEFINE T == {n - y : y \in S}
<1>1. T \subseteq Nat /\ T # {}
  OBVIOUS
<1>2. Min(T) \in T /\ \A z \in T : Min(T) <= z
  BY <1>1, MinIsFirst
<1>3. PICK x \in S : Min(T) = n - x
  BY <1>2
<1>4. ASSUME NEW y \in S PROVE x >= y
  <2>1. n - y \in T /\ x \in Nat /\ y \in Nat
    OBVIOUS
  <2>2. n - x <= n - y
    BY <1>2, <1>3, <2>1
  <2> HIDE DEF T
  <2> QED BY <2>1, <2>2
<1> QED BY <1>4 DEF Max

\* The member of a set of numbers that exceeds no other is its minimum.
LEMMA MinIs ==
  ASSUME NEW S, S \subseteq Nat, NEW x \in S, \A y \in S : x <= y
  PROVE  Min(S) = x
<1>1. Min(S) \in S /\ Min(S) <= x
  BY MinIsFirst
<1>2. x <= Min(S) /\ x \in Nat /\ Min(S) \in Nat
  BY <1>1
<1> QED BY <1>1, <1>2

\* The member of a set of numbers that no other exceeds is its maximum.
LEMMA MaxIs ==
  ASSUME NEW S, S \subseteq Nat, NEW x \in S, \A y \in S : x >= y
  PROVE  Max(S) = x
<1>1. x \in Nat /\ S \subseteq 0..x
  OBVIOUS
<1>2. Max(S) \in S /\ Max(S) >= x
  BY <1>1, MaxIsLast
<1>3. x >= Max(S) /\ Max(S) \in Nat
  BY <1>2
<1> QED BY <1>1, <1>2, <1>3
-----------------------------------------------------------------------------
(* The semantic stack *)

Kinds == {"program", "stmt", "block", "func", "body", "while_body", "for_body",
          "if_then", "if_else"}
FrameType == [kind : Kinds, q : Seq(Nat), b : Seq(Nat), c : Seq(Nat)]

\* How many quads, or entries, a frame holds in q.
Arity(kind) == CASE kind \in {"func", "body", "if_then"} -> 1
                 [] kind \in {"if_else", "while_body"} -> 2
                 [] kind = "for_body" -> 4
                 [] OTHER -> 0

\* The input is at the bottom; a statement just read, or a header that is being
\* read, can only be on top.
Shaped(cx) ==
  /\ cx \in Seq(FrameType) /\ Len(cx) > 0 /\ cx[1].kind = "program"
  /\ \A i \in 2..Len(cx) : cx[i].kind # "program"
  /\ \A i \in 1..(Len(cx) - 1) : cx[i].kind \notin {"stmt", "func"}
  /\ \A i \in DOMAIN cx : Len(cx[i].q) = Arity(cx[i].kind)

\* The frames of the open blocks, and of the functions being defined.
Opening(cx) == {i \in DOMAIN cx : cx[i].kind \in {"block", "body"}}
Defining(cx) == {i \in DOMAIN cx : cx[i].kind \in {"body", "func"}}
Outside(cx, i) == {j \in Opening(cx) : j < i}
Level(cx, i) == Cardinality({j \in Defining(cx) : j <= i})

\* The n frames on top have been replaced by g; nothing below them changes.
Replaced(cx, r, n, g) ==
  /\ r \in Seq(FrameType) /\ n \in 0..Len(cx) /\ Len(r) = Len(cx) - n + 1
  /\ r[Len(r)] = g
  /\ \A i \in 1..(Len(cx) - n) : r[i] = cx[i]

\* What is pushed is the input only at the bottom, and covers neither a
\* statement nor a header.
Fitting(cx, n, g) == /\ (g.kind = "program") <=> ~(n < Len(cx))
                     /\ n = 0 => cx[Len(cx)].kind \notin {"stmt", "func"}

SameNest(cx, r) ==
  /\ Opening(r) = Opening(cx) /\ Defining(r) = Defining(cx)
  /\ \A i \in Defining(cx) : r[i].kind = cx[i].kind /\ r[i].q = cx[i].q

Nesting == {"block", "body", "func"}

\* Popping n frames and pushing one replaces them.
LEMMA PopPush ==
  ASSUME NEW cx \in Seq(FrameType), NEW n \in 0..Len(cx), NEW g \in FrameType
  PROVE  Replaced(cx, Append(SubSeq(cx, 1, Len(cx) - n), g), n, g)
<1> DEFINE s == SubSeq(cx, 1, Len(cx) - n)
<1>1. /\ s \in Seq(FrameType) /\ Len(s) = Len(cx) - n
      /\ \A i \in 1..(Len(cx) - n) : s[i] = cx[i]
  OBVIOUS
<1> HIDE DEF s
<1>2. /\ Append(s, g) \in Seq(FrameType) /\ Len(Append(s, g)) = Len(cx) - n + 1
      /\ Append(s, g)[Len(cx) - n + 1] = g
      /\ \A i \in 1..(Len(cx) - n) : Append(s, g)[i] = cx[i]
  BY <1>1
<1> QED BY <1>2 DEF Replaced, s

\* Pushing a frame replaces none.
LEMMA PushReplaces ==
  ASSUME NEW cx \in Seq(FrameType), NEW g \in FrameType
  PROVE  Replaced(cx, Append(cx, g), 0, g)
<1>1. /\ Append(cx, g) \in Seq(FrameType) /\ Len(Append(cx, g)) = Len(cx) + 1
      /\ Append(cx, g)[Len(cx) + 1] = g
      /\ \A i \in 1..Len(cx) : Append(cx, g)[i] = cx[i]
  OBVIOUS
<1> QED BY <1>1 DEF Replaced

\* The shape is kept when what is pushed is not a second input, and covers
\* neither a statement nor a header.
LEMMA ShapeKept ==
  ASSUME NEW cx, Shaped(cx), NEW r, NEW n, NEW g, Replaced(cx, r, n, g),
         Fitting(cx, n, g), Len(g.q) = Arity(g.kind)
  PROVE  Shaped(r)
<1>1. /\ Len(cx) \in Nat \ {0} /\ n \in 0..Len(cx) /\ Len(r) = Len(cx) - n + 1
      /\ DOMAIN r = 1..Len(r) /\ DOMAIN cx = 1..Len(cx)
  BY DEF Shaped, Replaced
<1>2. r[1].kind = "program"
  <2>1. CASE ~(n < Len(cx))
    <3>1. Len(r) = 1
      BY <1>1, <2>1
    <3> QED BY <2>1, <3>1 DEF Replaced, Fitting
  <2>2. CASE n < Len(cx)
    <3>1. 1 \in 1..(Len(cx) - n)
      BY <1>1, <2>2
    <3> QED BY <3>1 DEF Shaped, Replaced
  <2> QED BY <2>1, <2>2
<1>3. ASSUME NEW i \in 2..Len(r) PROVE r[i].kind # "program"
  <2>1. CASE i = Len(r)
    BY <1>1, <2>1 DEF Replaced, Fitting
  <2>2. CASE i # Len(r)
    <3>1. i \in 1..(Len(cx) - n) /\ i \in 2..Len(cx)
      BY <1>1, <2>2
    <3> QED BY <3>1 DEF Shaped, Replaced
  <2> QED BY <2>1, <2>2
<1>4. ASSUME NEW i \in 1..(Len(r) - 1) PROVE r[i].kind \notin {"stmt", "func"}
  <2>1. i \in 1..(Len(cx) - n) /\ r[i] = cx[i] /\ i \in 1..Len(cx)
    BY <1>1 DEF Replaced
  <2>2. CASE i < Len(cx)
    <3>1. i \in 1..(Len(cx) - 1)
      BY <1>1, <2>1, <2>2
    <3> QED BY <2>1, <3>1 DEF Shaped
  <2>3. CASE ~(i < Len(cx))
    <3>0. i \in Int /\ Len(cx) \in Int /\ i <= Len(cx)
      BY <1>1, <2>1
    <3>1. i = Len(cx)
      BY <3>0, <2>3
    <3>2. n = 0
      BY <1>1, <2>1, <2>3
    <3> QED BY <2>1, <3>1, <3>2 DEF Fitting
  <2> QED BY <2>2, <2>3
<1>5. ASSUME NEW i \in DOMAIN r PROVE Len(r[i].q) = Arity(r[i].kind)
  <2>1. i = Len(r) \/ (i \in 1..(Len(cx) - n) /\ i \in DOMAIN cx)
    BY <1>1
  <2> QED BY <2>1 DEF Shaped, Replaced
<1> QED BY <1>1, <1>2, <1>3, <1>4, <1>5 DEF Shaped, Replaced

\* Frames that neither open a block nor define a function come and go without
\* changing the nest.
LEMMA NestKept ==
  ASSUME NEW cx, Shaped(cx), NEW r, NEW n, NEW g, Replaced(cx, r, n, g),
         g.kind \notin Nesting,
         \A i \in (Len(cx) - n + 1)..Len(cx) : cx[i].kind \notin Nesting
  PROVE  SameNest(cx, r)
<1>1. /\ Len(cx) \in Nat \ {0} /\ n \in 0..Len(cx) /\ Len(r) = Len(cx) - n + 1
      /\ DOMAIN r = 1..Len(r) /\ DOMAIN cx = 1..Len(cx)
  BY DEF Shaped, Replaced
<1>2. \A i \in DOMAIN r : i = Len(r) \/ (i \in 1..(Len(cx) - n) /\ i \in DOMAIN cx)
  BY <1>1
<1>3. \A i \in DOMAIN cx : i \in (Len(cx) - n + 1)..Len(cx)
                             \/ (i \in 1..(Len(cx) - n) /\ i \in DOMAIN r)
  BY <1>1
<1>4. /\ r[Len(r)].kind \notin Nesting
      /\ \A i \in 1..(Len(cx) - n) : r[i] = cx[i]
  BY DEF Replaced
<1> QED BY <1>2, <1>3, <1>4 DEF SameNest, Opening, Defining, Nesting

\* A statement that joins the list below it does not change the nest either.
LEMMA NestMerged ==
  ASSUME NEW cx, Shaped(cx), NEW r, NEW g, Replaced(cx, r, 2, g),
         cx[Len(cx)].kind \notin Nesting,
         g.kind = cx[Len(cx) - 1].kind, g.q = cx[Len(cx) - 1].q
  PROVE  SameNest(cx, r)
<1>1. /\ Len(cx) \in Nat \ {0, 1} /\ Len(r) = Len(cx) - 1
      /\ DOMAIN r = 1..Len(r) /\ DOMAIN cx = 1..Len(cx)
  BY DEF Shaped, Replaced
<1>2. \A i \in DOMAIN cx : i = Len(cx) \/ i \in DOMAIN r
  BY <1>1
<1>3. \A i \in DOMAIN r : i \in DOMAIN cx /\ i # Len(cx)
  BY <1>1
<1>4. ASSUME NEW i \in DOMAIN r PROVE r[i].kind = cx[i].kind /\ r[i].q = cx[i].q
  <2>1. i = Len(r) \/ i \in 1..(Len(cx) - 2)
    BY <1>1
  <2>2. Len(r) = Len(cx) - 1
    BY <1>1
  <2> QED BY <2>1, <2>2 DEF Replaced
<1> QED BY <1>2, <1>3, <1>4 DEF SameNest, Opening, Defining, Nesting

\* Changing the frame on top, or pushing one, changes the nest there only.
LEMMA TopNest ==
  ASSUME NEW cx, Shaped(cx), NEW r, NEW n \in {0, 1}, NEW g, Replaced(cx, r, n, g)
  PROVE  LET m == Len(r)
         IN  /\ m \in DOMAIN r /\ r[m] = g /\ m \in Nat \ {0}
             /\ Opening(r) = (Opening(cx) \ {m})
                               \union (IF g.kind \in {"block", "body"} THEN {m} ELSE {})
             /\ Defining(r) = (Defining(cx) \ {m})
                               \union (IF g.kind \in {"body", "func"} THEN {m} ELSE {})
             /\ \A i \in DOMAIN r : i \in Nat /\ i <= m /\ Outside(r, i) = Outside(cx, i)
             /\ \A i \in DOMAIN r : i # m => i \in DOMAIN cx /\ r[i] = cx[i]
             /\ \A i \in DOMAIN cx : i \in Nat /\ i <= m /\ i \in DOMAIN r
             /\ Outside(r, m) = Opening(cx) \ {m}
             /\ n = 0 => m \notin DOMAIN cx
             /\ n = 1 => m = Len(cx)
<1> DEFINE m == Len(r)
<1>1. /\ Len(cx) \in Nat \ {0} /\ m \in Nat \ {0} /\ DOMAIN r = 1..m
      /\ DOMAIN cx = 1..Len(cx) /\ r[m] = g
      /\ m = Len(cx) - n + 1
  BY DEF Shaped, Replaced
<1>2. /\ \A i \in 1..(m - 1) : r[i] = cx[i]
      /\ n = 0 => m = Len(cx) + 1
      /\ n = 1 => m = Len(cx)
  <2>1. \A i \in 1..(m - 1) : i \in 1..(Len(cx) - n)
    BY <1>1
  <2> QED BY <1>1, <2>1 DEF Replaced
<1> HIDE DEF m
<1>3. /\ \A i \in DOMAIN r : i \in Nat /\ i <= m
      /\ \A i \in DOMAIN r : i # m => i \in DOMAIN cx /\ r[i] = cx[i]
      /\ \A i \in DOMAIN cx : i \in Nat /\ i <= m /\ i \in DOMAIN r \union {m}
      /\ m \in DOMAIN r /\ r[m] = g
  <2>1. ASSUME NEW i \in DOMAIN r PROVE i \in Nat /\ i <= m
    BY <1>1
  <2>2. ASSUME NEW i \in DOMAIN r, i # m PROVE i \in DOMAIN cx /\ r[i] = cx[i]
    <3>1. i \in 1..(m - 1)
      BY <1>1, <2>2
    <3> QED BY <1>1, <1>2, <3>1
  <2>3. ASSUME NEW i \in DOMAIN cx PROVE i \in Nat /\ i <= m /\ i \in DOMAIN r
    BY <1>1
  <2> QED BY <1>1, <2>1, <2>2, <2>3
<1>4. \A i \in DOMAIN cx : i # m => i \in DOMAIN r /\ r[i] = cx[i]
  BY <1>3
<1>5. /\ Opening(r) = (Opening(cx) \ {m})
                        \union (IF g.kind \in {"block", "body"} THEN {m} ELSE {})
      /\ Defining(r) = (Defining(cx) \ {m})
                        \union (IF g.kind \in {"body", "func"} THEN {m} ELSE {})
  BY <1>3, <1>4 DEF Opening, Defining
<1>6. ASSUME NEW i \in DOMAIN r PROVE Outside(r, i) = Outside(cx, i)
  <2>1. \A j \in DOMAIN r \union DOMAIN cx : j < i => j # m
    BY <1>3
  <2> QED BY <1>3, <1>4, <2>1 DEF Outside, Opening
<1>7. Outside(r, m) = Opening(cx) \ {m}
  <2>1. \A j \in DOMAIN cx : j < m <=> j # m
    BY <1>1, <1>3
  <2> QED BY <1>3, <1>6, <2>1 DEF Outside, Opening
<1>8. n = 0 => m \notin DOMAIN cx
  BY <1>1, <1>2
<1>9. \A i \in DOMAIN cx : i \in DOMAIN r
  BY <1>3
<1> QED BY <1>1, <1>2, <1>3, <1>5, <1>6, <1>7, <1>8, <1>9 DEF m

\* The nest of a stack is finite.
LEMMA NestFinite ==
  ASSUME NEW cx, Shaped(cx)
  PROVE  /\ IsFiniteSet(Opening(cx)) /\ IsFiniteSet(Defining(cx))
         /\ Cardinality(Opening(cx)) \in Nat /\ Cardinality(Defining(cx)) \in Nat
         /\ \A i : IsFiniteSet(Outside(cx, i)) /\ Cardinality(Outside(cx, i)) \in Nat
<1>1. IsFiniteSet(1..Len(cx)) /\ DOMAIN cx = 1..Len(cx)
  BY FS_Interval DEF Shaped
<1>2. IsFiniteSet(Opening(cx)) /\ IsFiniteSet(Defining(cx))
  BY <1>1, FS_Subset DEF Opening, Defining
<1>3. ASSUME NEW i PROVE IsFiniteSet(Outside(cx, i))
  BY <1>2, FS_Subset DEF Outside
<1> QED BY <1>2, <1>3, FS_CardinalityType

\* A block around this point is outside fewer blocks than there are.
LEMMA OutsideFewer ==
  ASSUME NEW cx, Shaped(cx), NEW i \in Opening(cx)
  PROVE  Cardinality(Outside(cx, i)) < Cardinality(Opening(cx))
<1>1. i \notin Outside(cx, i) /\ Outside(cx, i) \subseteq Opening(cx)
  <2>1. i \in Nat
    BY DEF Shaped, Opening
  <2> QED BY <2>1 DEF Outside
<1> QED BY <1>1, NestFinite, FS_Subset
-----------------------------------------------------------------------------
(* The bindings and the nest *)

VariableTypes == {"GLOBAL", "LOCAL", "FORMAL"}
Spaces == {"program_variable", "function_local", "formal_argument"}
AllNames == Names \union ToSet(TempNames) \union ToSet(AnonymousNames)
EntryType ==
  [name : AllNames, scope : Nat, isActive : BOOLEAN, func_is_open : BOOLEAN,
   type : VariableTypes \union {"USERFUNC", "LIBFUNC"},
   space : Spaces \union {"unset"}, offset : Nat, taddress : Nat,
   address_list : Seq(Nat), fn : Nat]

IsTemp(e) == e.name \in ToSet(TempNames)

\* Each frame that defines a function holds an entry that is open and active,
\* in the scope around it; inner functions are newer; no other entry is open.
Mirrors(es, s, cx) ==
  /\ s = Cardinality(Opening(cx))
  /\ \A i \in Defining(cx) :
       LET f == cx[i].q[1]
       IN  /\ f \in DOMAIN es /\ es[f].func_is_open /\ es[f].isActive
           /\ es[f].scope = Cardinality(Outside(cx, i))
           /\ cx[i].kind = "func" => f = Len(es)
  /\ \A i, j \in Defining(cx) : i < j => cx[i].q[1] < cx[j].q[1]
  /\ \A f \in DOMAIN es : es[f].func_is_open => \E i \in Defining(cx) : cx[i].q[1] = f

\* No entry is opened, closed or hidden; those that are added are not open.
Follows(es, es2) ==
  /\ DOMAIN es \subseteq DOMAIN es2
  /\ \A k \in DOMAIN es : /\ es2[k].func_is_open = es[k].func_is_open
                          /\ es2[k].isActive = es[k].isActive
                          /\ es2[k].scope = es[k].scope
  /\ \A k \in DOMAIN es2 : k \notin DOMAIN es => ~es2[k].func_is_open

\* A step that keeps the nest, and opens and closes nothing, keeps the mirror.
LEMMA MirrorsKept ==
  ASSUME NEW es, NEW s, NEW cx, Mirrors(es, s, cx), NEW es2, NEW r,
         SameNest(cx, r), Follows(es, es2),
         (\E i \in Defining(cx) : cx[i].kind = "func") => Len(es2) = Len(es)
  PROVE  Mirrors(es2, s, r)
<1>1. \A i : Outside(r, i) = Outside(cx, i)
  BY DEF Outside, SameNest
<1>2. s = Cardinality(Opening(r))
  BY DEF Mirrors, SameNest
<1>3. ASSUME NEW i \in Defining(r)
      PROVE  LET f == r[i].q[1]
             IN  /\ f \in DOMAIN es2 /\ es2[f].func_is_open /\ es2[f].isActive
                 /\ es2[f].scope = Cardinality(Outside(r, i))
                 /\ r[i].kind = "func" => f = Len(es2)
  <2>1. i \in Defining(cx) /\ r[i].q = cx[i].q /\ r[i].kind = cx[i].kind
    BY DEF SameNest
  <2> QED BY <1>1, <2>1 DEF Mirrors, Follows
<1>4. \A i, j \in Defining(r) : i < j => r[i].q[1] < r[j].q[1]
  BY DEF Mirrors, SameNest
<1>5. ASSUME NEW f \in DOMAIN es2, es2[f].func_is_open
      PROVE  \E i \in Defining(r) : r[i].q[1] = f
  <2>1. f \in DOMAIN es /\ es[f].func_is_open
    BY <1>5 DEF Follows
  <2> QED BY <2>1 DEF Mirrors, SameNest
<1> QED BY <1>2, <1>3, <1>4, <1>5 DEF Mirrors

\* "{" puts a block on top, and the scope number goes up with it.
LEMMA MirrorsBlock ==
  ASSUME NEW es, NEW s, NEW cx, Shaped(cx), Mirrors(es, s, cx), NEW r, NEW g,
         Replaced(cx, r, 0, g), g.kind = "block"
  PROVE  Mirrors(es, s + 1, r)
<1> DEFINE m == Len(r)
<1>1. /\ Opening(r) = Opening(cx) \union {m} /\ Defining(r) = Defining(cx)
      /\ m \notin Opening(cx)
      /\ \A i \in Defining(cx) : r[i] = cx[i] /\ Outside(r, i) = Outside(cx, i)
  <2>1. m \notin DOMAIN cx /\ m \notin Opening(cx) /\ m \notin Defining(cx)
    BY TopNest DEF Opening, Defining
  <2>2. Opening(r) = Opening(cx) \union {m} /\ Defining(r) = Defining(cx)
    <3>1. /\ Opening(r) = (Opening(cx) \ {m})
                            \union (IF g.kind \in {"block", "body"} THEN {m} ELSE {})
          /\ Defining(r) = (Defining(cx) \ {m})
                            \union (IF g.kind \in {"body", "func"} THEN {m} ELSE {})
      BY TopNest
    <3> HIDE DEF m
    <3> QED BY <2>1, <3>1
  <2>3. \A i \in Defining(cx) : i \in DOMAIN r /\ i # m
    BY <2>1, <2>2 DEF Defining
  <2> QED BY <2>1, <2>2, <2>3, TopNest
<1> HIDE DEF m
<1>2. s + 1 = Cardinality(Opening(r))
  <2>1. Cardinality(Opening(cx) \union {m}) = Cardinality(Opening(cx)) + 1
    BY <1>1, NestFinite, FS_AddElement
  <2> QED BY <1>1, <2>1 DEF Mirrors
<1> QED BY <1>1, <1>2 DEF Mirrors

\* "}" takes the block away, and hides what was in its scope: no function that
\* is being defined.
LEMMA MirrorsUnblock ==
  ASSUME NEW es, NEW s, NEW cx, Shaped(cx), Mirrors(es, s, cx), NEW r, NEW g,
         Replaced(cx, r, 1, g), g.kind = "stmt", cx[Len(cx)].kind = "block",
         NEW es2, DOMAIN es2 = DOMAIN es, Len(es2) = Len(es),
         \A k \in DOMAIN es : /\ es2[k].func_is_open = es[k].func_is_open
                              /\ es2[k].scope = es[k].scope
                              /\ es[k].scope # s => es2[k].isActive = es[k].isActive
  PROVE  Mirrors(es2, s - 1, r)
<1> DEFINE m == Len(cx)
<1>1. /\ Opening(r) = Opening(cx) \ {m} /\ Defining(r) = Defining(cx)
      /\ m \in Opening(cx) /\ m = Len(r)
      /\ \A i \in Defining(cx) : r[i] = cx[i] /\ Outside(r, i) = Outside(cx, i)
  <2>1. m = Len(r) /\ m \in DOMAIN cx /\ m \in Opening(cx) /\ m \notin Defining(cx)
    BY TopNest DEF Opening, Defining, Shaped
  <2>2. Opening(r) = Opening(cx) \ {m} /\ Defining(r) = Defining(cx)
    <3>1. /\ Opening(r) = (Opening(cx) \ {Len(r)})
                            \union (IF g.kind \in {"block", "body"} THEN {Len(r)} ELSE {})
          /\ Defining(r) = (Defining(cx) \ {Len(r)})
                            \union (IF g.kind \in {"body", "func"} THEN {Len(r)} ELSE {})
      BY TopNest
    <3> HIDE DEF m
    <3> QED BY <2>1, <3>1
  <2>3. \A i \in Defining(cx) : i \in DOMAIN r /\ i # m
    BY <2>1, <2>2 DEF Defining
  <2> QED BY <2>1, <2>2, <2>3, TopNest
<1> HIDE DEF m
<1>2. s - 1 = Cardinality(Opening(r)) /\ s = Cardinality(Opening(cx))
  <2>1. Cardinality(Opening(cx) \ {m}) = Cardinality(Opening(cx)) - 1
    BY <1>1, NestFinite, FS_RemoveElement
  <2> QED BY <1>1, <2>1 DEF Mirrors
<1>3. ASSUME NEW i \in Defining(cx) PROVE Cardinality(Outside(cx, i)) # s
  <2>1. i \in DOMAIN r /\ Outside(cx, i) \subseteq Opening(cx)
    BY <1>1 DEF Defining, Outside
  <2>2. m \notin Outside(cx, i)
    <3>1. i <= m /\ i \in Nat /\ m \in Nat
      BY <1>1, <2>1, TopNest
    <3> QED BY <3>1 DEF Outside
  <2>3. Cardinality(Outside(cx, i)) <= Cardinality(Opening(r))
    <3>1. Outside(cx, i) \subseteq Opening(r) /\ IsFiniteSet(Opening(r))
      BY <1>1, <2>1, <2>2, NestFinite, FS_Subset
    <3> QED BY <3>1, FS_Subset
  <2> QED BY <1>2, <2>3, NestFinite
<1>4. ASSUME NEW i \in Defining(r)
      PROVE  LET f == r[i].q[1]
             IN  /\ f \in DOMAIN es2 /\ es2[f].func_is_open /\ es2[f].isActive
                 /\ es2[f].scope = Cardinality(Outside(r, i))
                 /\ r[i].kind = "func" => f = Len(es2)
  <2>1. i \in Defining(cx) /\ r[i] = cx[i] /\ Outside(r, i) = Outside(cx, i)
    BY <1>1
  <2> QED BY <1>3, <2>1 DEF Mirrors
<1>5. ASSUME NEW f \in DOMAIN es2, es2[f].func_is_open
      PROVE  \E i \in Defining(r) : r[i].q[1] = f
  BY <1>1, <1>5 DEF Mirrors
<1>6. \A i, j \in Defining(r) : i < j => r[i].q[1] < r[j].q[1]
  BY <1>1 DEF Mirrors
<1> QED BY <1>2, <1>4, <1>5, <1>6 DEF Mirrors

\* A function name puts a header on top, which holds the entry of the function.
LEMMA MirrorsHeader ==
  ASSUME NEW es \in Seq(EntryType), NEW s, NEW cx, Shaped(cx), Mirrors(es, s, cx),
         NEW r, NEW g, Replaced(cx, r, 0, g), g.kind = "func", g.q[1] = Len(es) + 1,
         \A i \in Defining(cx) : cx[i].kind = "body",
         NEW e \in EntryType, e.func_is_open, e.isActive, e.scope = s
  PROVE  Mirrors(Append(es, e), s, r)
<1> DEFINE m == Len(r)
           k == Len(es) + 1
           es2 == Append(es, e)
<1>1. /\ Opening(r) = Opening(cx) /\ Defining(r) = Defining(cx) \union {m}
      /\ r[m] = g /\ m \in Nat /\ Outside(r, m) = Opening(cx)
      /\ \A i \in Defining(cx) : i \in Nat /\ i < m /\ r[i] = cx[i]
                                 /\ Outside(r, i) = Outside(cx, i)
  <2>1. m \notin DOMAIN cx /\ m \notin Opening(cx) /\ m \notin Defining(cx)
    BY TopNest DEF Opening, Defining
  <2>2. Opening(r) = Opening(cx) /\ Defining(r) = Defining(cx) \union {m}
    <3>1. /\ Opening(r) = (Opening(cx) \ {m})
                            \union (IF g.kind \in {"block", "body"} THEN {m} ELSE {})
          /\ Defining(r) = (Defining(cx) \ {m})
                            \union (IF g.kind \in {"body", "func"} THEN {m} ELSE {})
      BY TopNest
    <3> HIDE DEF m
    <3> QED BY <2>1, <3>1
  <2>3. \A i \in Defining(cx) : i \in DOMAIN r /\ i # m
    BY <2>1, <2>2 DEF Defining
  <2>4. r[m] = g /\ m \in Nat /\ Outside(r, m) = Opening(cx) \ {m}
    BY TopNest
  <2>5. \A i \in Defining(cx) : i \in Nat /\ i <= m /\ r[i] = cx[i]
                                /\ Outside(r, i) = Outside(cx, i)
    BY <2>3, TopNest
  <2> HIDE DEF m
  <2> QED BY <2>1, <2>2, <2>3, <2>4, <2>5
<1> HIDE DEF m
<1>2. /\ Len(es2) = k /\ k \in Nat /\ DOMAIN es2 = DOMAIN es \union {k} /\ es2[k] = e
      /\ \A f \in DOMAIN es : f \in Nat /\ f < k /\ es2[f] = es[f]
  OBVIOUS
<1> HIDE DEF k, es2
<1>3. s = Cardinality(Opening(r))
  BY <1>1 DEF Mirrors
<1>4. ASSUME NEW i \in Defining(r)
      PROVE  LET f == r[i].q[1]
             IN  /\ f \in DOMAIN es2 /\ es2[f].func_is_open /\ es2[f].isActive
                 /\ es2[f].scope = Cardinality(Outside(r, i))
                 /\ r[i].kind = "func" => f = Len(es2)
  <2>1. CASE i = m
    <3>1. r[i].q[1] = k
      BY <1>1, <2>1 DEF k
    <3> QED BY <1>1, <1>2, <1>3, <2>1, <3>1
  <2>2. CASE i \in Defining(cx)
    <3>1. /\ cx[i].q[1] \in DOMAIN es /\ es[cx[i].q[1]].func_is_open
          /\ es[cx[i].q[1]].isActive
          /\ es[cx[i].q[1]].scope = Cardinality(Outside(cx, i))
      BY <2>2 DEF Mirrors
    <3>2. r[i].kind # "func"
      BY <1>1, <2>2
    <3> QED BY <1>1, <1>2, <2>2, <3>1, <3>2
  <2> QED BY <1>1, <2>1, <2>2
<1>5. ASSUME NEW i \in Defining(r), NEW j \in Defining(r), i < j
      PROVE  r[i].q[1] < r[j].q[1]
  <2>1. i \in Defining(cx)
    BY <1>1, <1>5
  <2>2. CASE j = m
    <3>1. cx[i].q[1] \in DOMAIN es
      BY <2>1 DEF Mirrors
    <3> QED BY <1>1, <1>2, <2>1, <2>2, <3>1 DEF k
  <2>3. CASE j \in Defining(cx)
    BY <1>1, <1>5, <2>1, <2>3 DEF Mirrors
  <2> QED BY <1>1, <2>2, <2>3
<1>6. ASSUME NEW f \in DOMAIN es2, es2[f].func_is_open
      PROVE  \E i \in Defining(r) : r[i].q[1] = f
  <2>1. CASE f = k
    BY <1>1, <2>1 DEF k
  <2>2. CASE f \in DOMAIN es
    BY <1>1, <1>2, <1>6, <2>2 DEF Mirrors
  <2> QED BY <1>2, <2>1, <2>2
<1>7. Mirrors(es2, s, r)
  BY <1>3, <1>4, <1>5, <1>6 DEF Mirrors
<1> QED BY <1>7 DEF es2

\* The "{" of a body turns the header into the frame of a block.
LEMMA MirrorsBody ==
  ASSUME NEW es, NEW s, NEW cx, Shaped(cx), Mirrors(es, s, cx), NEW r, NEW g,
         Replaced(cx, r, 1, g), g.kind = "body", cx[Len(cx)].kind = "func",
         g.q = cx[Len(cx)].q, NEW es2, Follows(es, es2)
  PROVE  Mirrors(es2, s + 1, r)
<1> DEFINE m == Len(cx)
<1>1. /\ Opening(r) = Opening(cx) \union {m} /\ Defining(r) = Defining(cx)
      /\ m \notin Opening(cx)
      /\ \A i \in Defining(cx) : /\ r[i].q = cx[i].q /\ r[i].kind # "func"
                                 /\ Outside(r, i) = Outside(cx, i)
  <2>1. m = Len(r) /\ m \in DOMAIN cx /\ m \notin Opening(cx) /\ m \in Defining(cx)
    BY TopNest DEF Opening, Defining, Shaped
  <2>2. Opening(r) = Opening(cx) \union {m} /\ Defining(r) = Defining(cx)
    <3>1. /\ Opening(r) = (Opening(cx) \ {Len(r)})
                            \union (IF g.kind \in {"block", "body"} THEN {Len(r)} ELSE {})
          /\ Defining(r) = (Defining(cx) \ {Len(r)})
                            \union (IF g.kind \in {"body", "func"} THEN {Len(r)} ELSE {})
      BY TopNest
    <3> HIDE DEF m
    <3> QED BY <2>1, <3>1
  <2>3. ASSUME NEW i \in Defining(cx), i # m PROVE r[i] = cx[i] /\ cx[i].kind # "func"
    <3>1. i \in DOMAIN r
      BY <2>2 DEF Defining
    <3>2. i \in DOMAIN cx /\ r[i] = cx[i] /\ i \in 1..(Len(cx) - 1)
      BY <2>1, <2>3, <3>1, TopNest DEF Shaped
    <3> QED BY <3>2 DEF Shaped
  <2>4. r[m] = g
    BY <2>1, TopNest
  <2>5. \A i \in Defining(cx) : Outside(r, i) = Outside(cx, i)
    BY <2>2, TopNest DEF Defining
  <2> QED BY <2>1, <2>2, <2>3, <2>4, <2>5
<1> HIDE DEF m
<1>2. s + 1 = Cardinality(Opening(r))
  <2>1. Cardinality(Opening(cx) \union {m}) = Cardinality(Opening(cx)) + 1
    BY <1>1, NestFinite, FS_AddElement
  <2> QED BY <1>1, <2>1 DEF Mirrors
<1>3. ASSUME NEW i \in Defining(r)
      PROVE  LET f == r[i].q[1]
             IN  /\ f \in DOMAIN es2 /\ es2[f].func_is_open /\ es2[f].isActive
                 /\ es2[f].scope = Cardinality(Outside(r, i))
                 /\ r[i].kind = "func" => f = Len(es2)
  BY <1>1 DEF Mirrors, Follows
<1>4. \A i, j \in Defining(r) : i < j => r[i].q[1] < r[j].q[1]
  BY <1>1 DEF Mirrors
<1>5. ASSUME NEW f \in DOMAIN es2, es2[f].func_is_open
      PROVE  \E i \in Defining(r) : r[i].q[1] = f
  BY <1>1, <1>5 DEF Mirrors, Follows
<1> QED BY <1>2, <1>3, <1>4, <1>5 DEF Mirrors

\* What the "}" of the body of f leaves as it was.
Leaves(es, es2, s, f) ==
  /\ DOMAIN es2 = DOMAIN es /\ Len(es2) = Len(es) /\ DOMAIN es \subseteq Nat
  /\ \A k \in DOMAIN es :
       /\ k # f => es2[k].func_is_open = es[k].func_is_open
       /\ k = f => ~es2[k].func_is_open
       /\ es2[k].scope = es[k].scope
       /\ es[k].scope # s => es2[k].isActive = es[k].isActive

\* The "}" of a body closes its function and no other.
LEMMA MirrorsUnbody ==
  ASSUME NEW es, NEW s, NEW cx, Shaped(cx), Mirrors(es, s, cx), NEW r, NEW g,
         Replaced(cx, r, 1, g), g.kind = "stmt", cx[Len(cx)].kind = "body",
         NEW es2, Leaves(es, es2, s, cx[Len(cx)].q[1])
  PROVE  Mirrors(es2, s - 1, r)
<1> DEFINE m == Len(cx)
<1>0. /\ DOMAIN es2 = DOMAIN es /\ Len(es2) = Len(es) /\ DOMAIN es \subseteq Nat
      /\ \A k \in DOMAIN es :
           /\ k # cx[m].q[1] => es2[k].func_is_open = es[k].func_is_open
           /\ k = cx[m].q[1] => ~es2[k].func_is_open
           /\ es2[k].scope = es[k].scope
           /\ es[k].scope # s => es2[k].isActive = es[k].isActive
  BY DEF Leaves
<1>1. /\ Opening(r) = Opening(cx) \ {m} /\ Defining(r) = Defining(cx) \ {m}
      /\ m \in Opening(cx) /\ m \in Defining(cx) /\ m = Len(r)
      /\ \A i \in Defining(r) : r[i] = cx[i] /\ Outside(r, i) = Outside(cx, i)
                                /\ i \in Nat /\ i < m /\ m \in Nat
  <2>1. m = Len(r) /\ m \in DOMAIN cx /\ m \in Opening(cx) /\ m \in Defining(cx) /\ m \in Nat
    BY TopNest DEF Opening, Defining, Shaped
  <2>2. Opening(r) = Opening(cx) \ {m} /\ Defining(r) = Defining(cx) \ {m}
    <3>1. /\ Opening(r) = (Opening(cx) \ {Len(r)})
                            \union (IF g.kind \in {"block", "body"} THEN {Len(r)} ELSE {})
          /\ Defining(r) = (Defining(cx) \ {Len(r)})
                            \union (IF g.kind \in {"body", "func"} THEN {Len(r)} ELSE {})
      BY TopNest
    <3> HIDE DEF m
    <3> QED BY <2>1, <3>1
  <2>3. \A i \in Defining(r) : i \in DOMAIN r /\ i # m
    BY <2>2 DEF Defining
  <2>4. \A i \in Defining(r) : r[i] = cx[i] /\ Outside(r, i) = Outside(cx, i)
                               /\ i \in Nat /\ i <= m
    BY <2>1, <2>3, TopNest
  <2> HIDE DEF m
  <2> QED BY <2>1, <2>2, <2>3, <2>4
<1>9. cx[m].q[1] \in DOMAIN es
  BY <1>1 DEF Mirrors
<1> DEFINE h == cx[m].q[1]
<1> HIDE DEF m
<1>2. s - 1 = Cardinality(Opening(r)) /\ s = Cardinality(Opening(cx))
  <2>1. Cardinality(Opening(cx) \ {m}) = Cardinality(Opening(cx)) - 1
    BY <1>1, NestFinite, FS_RemoveElement
  <2> QED BY <1>1, <2>1 DEF Mirrors
<1>3. ASSUME NEW i \in Defining(r) PROVE Cardinality(Outside(cx, i)) # s
  <2>1. Outside(cx, i) \subseteq Opening(cx)
    BY DEF Outside
  <2>2. m \notin Outside(cx, i)
    BY <1>1 DEF Outside
  <2>3. Cardinality(Outside(cx, i)) <= Cardinality(Opening(r))
    <3>1. Outside(cx, i) \subseteq Opening(r) /\ IsFiniteSet(Opening(r))
      BY <1>1, <2>1, <2>2, NestFinite, FS_Subset
    <3> QED BY <3>1, FS_Subset
  <2> QED BY <1>2, <2>3, NestFinite
<1>4. ASSUME NEW i \in Defining(r)
      PROVE  LET f == r[i].q[1]
             IN  /\ f \in DOMAIN es2 /\ es2[f].func_is_open /\ es2[f].isActive
                 /\ es2[f].scope = Cardinality(Outside(r, i))
                 /\ r[i].kind = "func" => f = Len(es2)
  <2>1. i \in Defining(cx) /\ r[i] = cx[i] /\ Outside(r, i) = Outside(cx, i)
    BY <1>1
  <2>2. cx[i].q[1] # h
    <3>1. cx[i].q[1] < cx[m].q[1]
      BY <1>1, <2>1 DEF Mirrors
    <3>2. cx[i].q[1] \in Nat /\ cx[m].q[1] \in Nat
      BY <1>0, <1>1, <2>1 DEF Mirrors
    <3> QED BY <3>1, <3>2
  <2>3. /\ cx[i].q[1] \in DOMAIN es /\ es[cx[i].q[1]].func_is_open
        /\ es[cx[i].q[1]].isActive
        /\ es[cx[i].q[1]].scope = Cardinality(Outside(cx, i))
        /\ cx[i].kind = "func" => cx[i].q[1] = Len(es)
    BY <2>1 DEF Mirrors
  <2>4. es2[cx[i].q[1]].func_is_open /\ es2[cx[i].q[1]].isActive
    BY <1>0, <1>3, <2>1, <2>2, <2>3 DEF m
  <2> QED BY <1>0, <2>1, <2>3, <2>4
<1>5. ASSUME NEW f \in DOMAIN es2, es2[f].func_is_open
      PROVE  \E i \in Defining(r) : r[i].q[1] = f
  <2>1. f \in DOMAIN es /\ es[f].func_is_open /\ f # h
    BY <1>0, <1>5 DEF m
  <2>2. PICK i \in Defining(cx) : cx[i].q[1] = f
    BY <2>1 DEF Mirrors
  <2>3. i \in Defining(r)
    BY <1>1, <2>1, <2>2
  <2> QED BY <1>1, <2>2, <2>3
<1>6. \A i, j \in Defining(r) : i < j => r[i].q[1] < r[j].q[1]
  BY <1>1 DEF Mirrors
<1> QED BY <1>2, <1>4, <1>5, <1>6 DEF Mirrors
-----------------------------------------------------------------------------
(* The order of the bindings *)

\* f is the newest function that was open when k was bound, and still is.
Newest(es, k, f) ==
  /\ f = 0 \/ (f \in DOMAIN es /\ es[f].func_is_open /\ f < k)
  /\ \A g \in DOMAIN es : (es[g].func_is_open /\ g < k) => g <= f

TempsOutermost(es) ==
  \A k \in DOMAIN es : IsTemp(es[k]) => /\ es[k].scope = 0 /\ es[k].type = "LOCAL"
                                        /\ es[k].space = "unset"

OpenAreFunctions(es) ==
  \A k \in DOMAIN es : es[k].func_is_open => es[k].type = "USERFUNC" /\ ~IsTemp(es[k])

\* What an open function is younger than is not inside it.
OlderOutside(es) ==
  \A f, k \in DOMAIN es :
    (es[f].func_is_open /\ es[k].isActive /\ k < f) => es[k].scope <= es[f].scope

\* What was bound since a function was opened is inside it.
YoungerInside(es) ==
  \A f, k \in DOMAIN es :
    (es[f].func_is_open /\ es[k].isActive /\ f < k) =>
      es[f].scope < es[k].scope \/ IsTemp(es[k])

\* Every binding that can be found knows the function it was made in.
OwnersKnown(es) ==
  \A k \in DOMAIN es :
    (es[k].isActive /\ ~IsTemp(es[k]) /\ es[k].type # "LIBFUNC") =>
      Newest(es, k, es[k].fn)

Ordered(es) ==
  /\ es \in Seq(EntryType)
  /\ \A k \in DOMAIN es : es[k].fn < k
  /\ TempsOutermost(es) /\ OpenAreFunctions(es)
  /\ OlderOutside(es) /\ YoungerInside(es) /\ OwnersKnown(es)

Like(e2, e) == /\ e2.name = e.name /\ e2.scope = e.scope /\ e2.isActive = e.isActive
               /\ e2.func_is_open = e.func_is_open /\ e2.type = e.type
               /\ e2.space = e.space /\ e2.offset = e.offset /\ e2.fn = e.fn

TempEntry(e) == /\ IsTemp(e) /\ e.scope = 0 /\ e.type = "LOCAL" /\ e.space = "unset"
                /\ e.fn = 0 /\ ~e.func_is_open
Binds(e, s, f) == /\ ~IsTemp(e) /\ e.type \in VariableTypes /\ e.scope = s /\ e.fn = f
                  /\ ~e.func_is_open

\* What was there stays; what is added are variables of scope s, made in the
\* function f, and temporaries.
Adds(es, es2, s, f) ==
  /\ es2 \in Seq(EntryType) /\ Len(es) <= Len(es2)
  /\ \A k \in DOMAIN es : Like(es2[k], es[k])
  /\ \A k \in (Len(es) + 1)..Len(es2) : TempEntry(es2[k]) \/ Binds(es2[k], s, f)

\* f is the innermost function that is open, and s is inside it.
Innermost(es, s, f) ==
  /\ f = 0 \/ (f \in DOMAIN es /\ es[f].func_is_open)
  /\ \A g \in DOMAIN es : es[g].func_is_open => g <= f /\ es[g].scope < s

\* Adding is following.
LEMMA AddsFollows ==
  ASSUME NEW es \in Seq(EntryType), NEW es2, NEW s, NEW f, Adds(es, es2, s, f)
  PROVE  /\ Follows(es, es2)
         /\ \A k \in DOMAIN es2 : k \in DOMAIN es
              \/ (k \in (Len(es) + 1)..Len(es2) /\ \A j \in DOMAIN es : j < k)
<1>1. /\ Len(es) \in Nat /\ Len(es2) \in Nat /\ DOMAIN es = 1..Len(es)
      /\ DOMAIN es2 = 1..Len(es2) /\ Len(es) <= Len(es2)
  BY DEF Adds
<1>2. ASSUME NEW k \in DOMAIN es2
      PROVE  k \in DOMAIN es
               \/ (k \in (Len(es) + 1)..Len(es2) /\ \A j \in DOMAIN es : j < k)
  BY <1>1
<1>3. DOMAIN es \subseteq DOMAIN es2
  BY <1>1
<1>4. \A k \in DOMAIN es2 : k \notin DOMAIN es => ~es2[k].func_is_open
  BY <1>2 DEF Adds, TempEntry, Binds
<1> QED BY <1>2, <1>3, <1>4 DEF Follows, Adds, Like

\* New variables and temporaries leave the order as it is.
LEMMA OrderedAdds ==
  ASSUME NEW es, Ordered(es), NEW s \in Nat, NEW f \in Nat, Innermost(es, s, f),
         NEW es2, Adds(es, es2, s, f)
  PROVE  Ordered(es2)
<1>1. /\ es \in Seq(EntryType) /\ es2 \in Seq(EntryType)
      /\ \A k \in DOMAIN es2 : k \in Nat \ {0}
      /\ \A k \in DOMAIN es : k \in DOMAIN es2 /\ Like(es2[k], es[k])
  BY AddsFollows DEF Ordered, Adds, Follows
<1>2. ASSUME NEW k \in DOMAIN es2, k \notin DOMAIN es
      PROVE  /\ TempEntry(es2[k]) \/ Binds(es2[k], s, f)
             /\ \A j \in DOMAIN es : j < k
  BY <1>1, <1>2, AddsFollows DEF Adds
<1>3. \A k \in DOMAIN es2 : es2[k].func_is_open => k \in DOMAIN es
  BY <1>2 DEF TempEntry, Binds
<1>4. \A k \in DOMAIN es2 : es2[k].fn < k
  <2> TAKE k \in DOMAIN es2
  <2>1. CASE k \in DOMAIN es
    BY <1>1, <2>1 DEF Ordered, Like
  <2>2. CASE k \notin DOMAIN es
    <3>1. f < k
      BY <1>1, <1>2, <2>2 DEF Innermost
    <3> QED BY <1>1, <1>2, <2>2, <3>1 DEF TempEntry, Binds
  <2> QED BY <2>1, <2>2
<1>5. TempsOutermost(es2)
  <2> SUFFICES ASSUME NEW k \in DOMAIN es2, IsTemp(es2[k])
               PROVE  es2[k].scope = 0 /\ es2[k].type = "LOCAL" /\ es2[k].space = "unset"
    BY DEF TempsOutermost
  <2>1. CASE k \in DOMAIN es
    BY <1>1, <2>1 DEF Ordered, TempsOutermost, Like, IsTemp
  <2>2. CASE k \notin DOMAIN es
    BY <1>2, <2>2 DEF TempEntry, Binds
  <2> QED BY <2>1, <2>2
<1>6. OpenAreFunctions(es2)
  BY <1>1, <1>3 DEF Ordered, OpenAreFunctions, Like, IsTemp
<1>7. OlderOutside(es2)
  <2> SUFFICES ASSUME NEW g \in DOMAIN es2, NEW k \in DOMAIN es2,
                      es2[g].func_is_open, es2[k].isActive, k < g
               PROVE  es2[k].scope <= es2[g].scope
    BY DEF OlderOutside
  <2>1. g \in DOMAIN es /\ k \in DOMAIN es
    <3>1. g \in DOMAIN es
      BY <1>3
    <3>2. k \notin DOMAIN es => g < k
      BY <1>2, <3>1
    <3> QED BY <1>1, <3>1, <3>2
  <2> QED BY <1>1, <2>1 DEF Ordered, OlderOutside, Like
<1>8. YoungerInside(es2)
  <2> SUFFICES ASSUME NEW g \in DOMAIN es2, NEW k \in DOMAIN es2,
                      es2[g].func_is_open, es2[k].isActive, g < k
               PROVE  es2[g].scope < es2[k].scope \/ IsTemp(es2[k])
    BY DEF YoungerInside
  <2>1. g \in DOMAIN es /\ es[g].func_is_open /\ es2[g].scope = es[g].scope
    BY <1>1, <1>3 DEF Like
  <2>2. CASE k \in DOMAIN es
    BY <1>1, <2>1, <2>2 DEF Ordered, YoungerInside, Like, IsTemp
  <2>3. CASE k \notin DOMAIN es
    BY <1>2, <2>1, <2>3 DEF TempEntry, Binds, Innermost
  <2> QED BY <2>2, <2>3
<1>9. OwnersKnown(es2)
  <2> SUFFICES ASSUME NEW k \in DOMAIN es2, es2[k].isActive, ~IsTemp(es2[k]),
                      es2[k].type # "LIBFUNC"
               PROVE  Newest(es2, k, es2[k].fn)
    BY DEF OwnersKnown
  <2>1. CASE k \in DOMAIN es
    <3>1. Newest(es, k, es[k].fn) /\ es2[k].fn = es[k].fn
      BY <1>1, <2>1 DEF Ordered, OwnersKnown, Like, IsTemp
    <3> QED BY <1>1, <1>3, <3>1 DEF Newest, Like
  <2>2. CASE k \notin DOMAIN es
    <3>1. es2[k].fn = f /\ (f \in DOMAIN es => f < k)
      BY <1>2, <2>2 DEF TempEntry, Binds
    <3>2. f = 0 \/ (f \in DOMAIN es2 /\ es2[f].func_is_open /\ f < k)
      BY <1>1, <3>1 DEF Innermost, Like
    <3>3. \A g \in DOMAIN es2 : es2[g].func_is_open => g <= f
      BY <1>1, <1>3 DEF Innermost, Like
    <3> QED BY <3>1, <3>2, <3>3 DEF Newest
  <2> QED BY <2>1, <2>2
<1> QED BY <1>1, <1>4, <1>5, <1>6, <1>7, <1>8, <1>9 DEF Ordered

\* A function name opens a function inside all those that are open.
LEMMA OrderedOpens ==
  ASSUME NEW es, Ordered(es), NEW s \in Nat, NEW f \in Nat, Innermost(es, s, f),
         \A k \in DOMAIN es : es[k].isActive => es[k].scope <= s,
         NEW e \in EntryType, e.func_is_open, e.type = "USERFUNC", ~IsTemp(e),
         e.scope = s, e.fn = f
  PROVE  Ordered(Append(es, e))
<1> DEFINE es2 == Append(es, e)
           m == Len(es) + 1
<1>1. /\ es \in Seq(EntryType) /\ es2 \in Seq(EntryType) /\ m \in Nat \ {0}
      /\ DOMAIN es2 = DOMAIN es \union {m} /\ es2[m] = e /\ m \notin DOMAIN es
      /\ \A k \in DOMAIN es : k \in Nat \ {0} /\ k < m /\ es2[k] = es[k]
  BY DEF Ordered
<1> HIDE DEF es2, m
<1>2. /\ \A k \in DOMAIN es2 : k \in Nat \ {0} /\ (k = m \/ (k \in DOMAIN es /\ k < m))
      /\ f < m
  BY <1>1 DEF Innermost
<1>3. \A k \in DOMAIN es2 : es2[k].fn < k
  <2>1. \A k \in DOMAIN es : es2[k].fn < k
    BY <1>1 DEF Ordered
  <2>2. es2[m].fn < m
    BY <1>1, <1>2
  <2> QED BY <1>2, <2>1, <2>2
<1>4. TempsOutermost(es2) /\ OpenAreFunctions(es2)
  <2>1. /\ \A k \in DOMAIN es2 : k # m => k \in DOMAIN es /\ es2[k] = es[k]
        /\ es2[m] = e
    BY <1>1
  <2> QED BY <2>1 DEF Ordered, TempsOutermost, OpenAreFunctions
<1>5. OlderOutside(es2)
  <2> SUFFICES ASSUME NEW g \in DOMAIN es2, NEW k \in DOMAIN es2,
                      es2[g].func_is_open, es2[k].isActive, k < g
               PROVE  es2[k].scope <= es2[g].scope
    BY DEF OlderOutside
  <2>1. k \in DOMAIN es /\ es2[k] = es[k]
    BY <1>1, <1>2
  <2>2. CASE g = m
    BY <1>1, <2>1, <2>2
  <2>3. CASE g \in DOMAIN es
    BY <1>1, <2>1, <2>3 DEF Ordered, OlderOutside
  <2> QED BY <1>1, <2>2, <2>3
<1>6. YoungerInside(es2)
  <2> SUFFICES ASSUME NEW g \in DOMAIN es2, NEW k \in DOMAIN es2,
                      es2[g].func_is_open, es2[k].isActive, g < k
               PROVE  es2[g].scope < es2[k].scope \/ IsTemp(es2[k])
    BY DEF YoungerInside
  <2>1. g \in DOMAIN es /\ es2[g] = es[g]
    BY <1>1, <1>2
  <2>2. CASE k = m
    BY <1>1, <2>1, <2>2 DEF Innermost
  <2>3. CASE k \in DOMAIN es
    BY <1>1, <2>1, <2>3 DEF Ordered, YoungerInside
  <2> QED BY <1>1, <2>2, <2>3
<1>7. OwnersKnown(es2)
  <2> SUFFICES ASSUME NEW k \in DOMAIN es2, es2[k].isActive, ~IsTemp(es2[k]),
                      es2[k].type # "LIBFUNC"
               PROVE  Newest(es2, k, es2[k].fn)
    BY DEF OwnersKnown
  <2>1. CASE k \in DOMAIN es
    <3>1. Newest(es, k, es[k].fn) /\ es2[k] = es[k] /\ k < m /\ k \in Nat
      BY <1>1, <2>1 DEF Ordered, OwnersKnown
    <3>2. \A g \in DOMAIN es2 : g < k => g \in DOMAIN es /\ es2[g] = es[g]
      BY <1>1, <3>1
    <3>3. \A g \in DOMAIN es : g \in DOMAIN es2 /\ es2[g] = es[g]
      BY <1>1
    <3> QED BY <3>1, <3>2, <3>3 DEF Newest
  <2>2. CASE k = m
    <3>1. \A g \in DOMAIN es2 : g < k => g \in DOMAIN es /\ es2[g] = es[g]
      BY <1>1, <1>2, <2>2
    <3>2. \A g \in DOMAIN es : g \in DOMAIN es2 /\ es2[g] = es[g] /\ g < k
      BY <1>1, <2>2
    <3> QED BY <1>1, <2>2, <3>1, <3>2 DEF Newest, Innermost
  <2> QED BY <1>1, <2>1, <2>2
<1>8. Ordered(es2)
  BY <1>1, <1>3, <1>4, <1>5, <1>6, <1>7 DEF Ordered
<1> QED BY <1>8 DEF es2

\* What hiding bindings, and closing f, may change.
Hides(es, es2, f) ==
  /\ es2 \in Seq(EntryType) /\ DOMAIN es2 = DOMAIN es
  /\ \A k \in DOMAIN es :
       /\ es2[k].name = es[k].name /\ es2[k].scope = es[k].scope
       /\ es2[k].type = es[k].type /\ es2[k].space = es[k].space
       /\ es2[k].fn = es[k].fn
       /\ es2[k].isActive => es[k].isActive
       /\ k # f => /\ es2[k].func_is_open = es[k].func_is_open
                   /\ es2[k].offset = es[k].offset
  /\ f \in DOMAIN es => ~es2[f].func_is_open

\* Hiding bindings, and closing the innermost function when all that is younger
\* has been hidden, leaves the others in order.
LEMMA OrderedHides ==
  ASSUME NEW es, Ordered(es), NEW f \in Nat, NEW es2, Hides(es, es2, f),
         \A g \in DOMAIN es : es[g].func_is_open /\ f # 0 => g <= f,
         \A k \in DOMAIN es : es2[k].isActive /\ f # 0 /\ f < k => IsTemp(es[k])
  PROVE  Ordered(es2)
<1>1. /\ es2 \in Seq(EntryType) /\ DOMAIN es2 = DOMAIN es
      /\ \A k \in DOMAIN es : k \in Nat \ {0} /\ (IsTemp(es2[k]) <=> IsTemp(es[k]))
      /\ \A k \in DOMAIN es : es2[k].func_is_open => es[k].func_is_open
  BY DEF Ordered, Hides, IsTemp
<1>2. \A k \in DOMAIN es2 : es2[k].fn < k
  BY <1>1 DEF Ordered, Hides
<1>3. TempsOutermost(es2)
  BY <1>1 DEF Ordered, TempsOutermost, Hides
<1>4. OpenAreFunctions(es2)
  BY <1>1 DEF Ordered, OpenAreFunctions, Hides
<1>5. OlderOutside(es2)
  BY <1>1 DEF Ordered, OlderOutside, Hides
<1>6. YoungerInside(es2)
  BY <1>1 DEF Ordered, YoungerInside, Hides
<1>7. OwnersKnown(es2)
  <2> SUFFICES ASSUME NEW k \in DOMAIN es2, es2[k].isActive, ~IsTemp(es2[k]),
                      es2[k].type # "LIBFUNC"
               PROVE  Newest(es2, k, es2[k].fn)
    BY DEF OwnersKnown
  <2>1. Newest(es, k, es[k].fn) /\ es2[k].fn = es[k].fn /\ k \in DOMAIN es
    BY <1>1 DEF Ordered, OwnersKnown, Hides
  <2>2. \A g \in DOMAIN es2 : (es2[g].func_is_open /\ g < k) => g <= es2[k].fn
    BY <1>1, <2>1 DEF Newest
  <2>3. es[k].fn = f => es[k].fn = 0
    <3>1. f # 0 => ~(f < k)
      BY <1>1, <2>1
    <3>2. es[k].fn = 0 \/ es[k].fn < k
      BY <2>1 DEF Newest
    <3> QED BY <3>1, <3>2
  <2>4. es2[k].fn = 0 \/ (es2[k].fn \in DOMAIN es2 /\ es2[es2[k].fn].func_is_open
                            /\ es2[k].fn < k)
    BY <1>1, <2>1, <2>3 DEF Newest, Hides
  <2> QED BY <2>2, <2>4 DEF Newest
<1> QED BY <1>1, <1>2, <1>3, <1>4, <1>5, <1>6, <1>7 DEF Ordered
-----------------------------------------------------------------------------
(* What the statements do to the stack and the quads *)

QuadType == [op : {"assign", "jump", "funcstart", "funcend", "ret", "uminus", "if_eq"},
             label : Nat, patch : {"none", "open", "once", "again"},
             why : {"", "return", "for", "break", "continue"}, at : Nat]

Stacked == Shaped(ctx) /\ quads \in Seq(QuadType)

\* How many values each kind of frame holds.
LEMMA ArityIs ==
  /\ Arity("stmt") = 0 /\ Arity("block") = 0 /\ Arity("func") = 1 /\ Arity("body") = 1
  /\ Arity("if_then") = 1 /\ Arity("if_else") = 2 /\ Arity("while_body") = 2
  /\ Arity("for_body") = 4 /\ Arity("program") = 0
BY DEF Arity

\* Frames and quads are what they are made of.
LEMMA FrameIs ==
  ASSUME NEW kind \in Kinds, NEW q \in Seq(Nat), NEW b \in Seq(Nat), NEW c \in Seq(Nat)
  PROVE  /\ Frame(kind, q, b, c) \in FrameType
         /\ Frame(kind, q, b, c).kind = kind /\ Frame(kind, q, b, c).q = q
         /\ Frame(kind, q, b, c).b = b /\ Frame(kind, q, b, c).c = c
BY DEF Frame, FrameType

\* Quads of each sort are quads.
LEMMA QuadIs ==
  /\ \A op \in {"assign", "jump", "funcstart", "funcend", "ret", "uminus", "if_eq"} :
       \A label \in Nat : Quad(op, label) \in QuadType
  /\ \A op \in {"jump", "if_eq"} : Hole(op) \in QuadType
  /\ \A why \in {"return", "for", "break", "continue"} : \A at \in Nat :
       Owed(why, at) \in QuadType
BY DEF Quad, Hole, Owed, QuadType

\* Patching changes labels, not the number of quads.
LEMMA PatchIs ==
  ASSUME NEW qs \in Seq(QuadType), NEW l, NEW label \in Nat
  PROVE  /\ Patch(qs, l, label) \in Seq(QuadType) /\ Len(Patch(qs, l, label)) = Len(qs)
         /\ \A i \in DOMAIN qs : Patch(qs, l, label)[i].label \in {qs[i].label, label}
<1> DEFINE p == Patch(qs, l, label)
           hits(i) == {j \in DOMAIN l : l[j] = i - 1}
<1>1. p = [i \in DOMAIN qs |->
             IF hits(i) = {} THEN qs[i]
             ELSE [qs[i] EXCEPT !.label = label,
                     !.patch = IF @ = "open" /\ Cardinality(hits(i)) = 1
                               THEN "once" ELSE "again"]]
  BY DEF Patch
<1>2. DOMAIN qs = 1..Len(qs) /\ Len(qs) \in Nat /\ DOMAIN p = DOMAIN qs
  <2>1. DOMAIN p = DOMAIN qs
    <3> HIDE DEF p, hits
    <3> QED BY <1>1
  <2>2. DOMAIN qs = 1..Len(qs) /\ Len(qs) \in Nat
    OBVIOUS
  <2> QED BY <2>1, <2>2
<1>3. ASSUME NEW i \in DOMAIN qs
      PROVE  p[i] \in QuadType /\ p[i].label \in {qs[i].label, label}
  <2> DEFINE patch == IF qs[i].patch = "open" /\ Cardinality(hits(i)) = 1
                      THEN "once" ELSE "again"
  <2>1. p[i] = IF hits(i) = {} THEN qs[i]
               ELSE [qs[i] EXCEPT !.label = label, !.patch = patch]
    BY <1>1
  <2>2. qs[i] \in QuadType /\ patch \in {"once", "again"}
    OBVIOUS
  <2> HIDE DEF p, hits, patch
  <2>3. [qs[i] EXCEPT !.label = label, !.patch = patch] \in QuadType
    BY <2>2 DEF QuadType
  <2>4. [qs[i] EXCEPT !.label = label, !.patch = patch].label = label
    BY <2>2 DEF QuadType
  <2> QED BY <2>1, <2>2, <2>3, <2>4
<1> HIDE DEF p
<1>4. p \in Seq(QuadType) /\ Len(p) = Len(qs)
  <2>1. p \in [1..Len(qs) -> QuadType]
    <3>1. p = [i \in DOMAIN p |-> p[i]]
      BY <1>1 DEF p
    <3> QED BY <1>2, <1>3, <3>1
  <2> QED BY <1>2, <2>1
<1> QED BY <1>3, <1>4 DEF p

\* A frame that is pushed where a statement may start.
LEMMA PushSteady ==
  ASSUME Shaped(ctx), AtStatement, NEW g \in FrameType, Push(g),
         g.kind \notin Nesting \union {"program"}, Len(g.q) = Arity(g.kind)
  PROVE  Shaped(ctx') /\ SameNest(ctx, ctx')
<1>1. Replaced(ctx, ctx', 0, g)
  BY PushReplaces DEF Shaped, Push
<1>2. Fitting(ctx, 0, g)
  <2>1. ctx[Len(ctx)].kind \notin {"stmt", "func"}
    BY DEF AtStatement, Top, Last, Lists, LoopBodies
  <2>2. 0 < Len(ctx)
    BY DEF Shaped
  <2> QED BY <2>1, <2>2 DEF Fitting
<1>3. Shaped(ctx')
  BY <1>1, <1>2, ShapeKept
<1>4. \A i \in (Len(ctx) - 0 + 1)..Len(ctx) : ctx[i].kind \notin Nesting
  BY DEF Shaped
<1>5. SameNest(ctx, ctx')
  BY <1>1, <1>4, NestKept
<1> QED BY <1>3, <1>5

\* A statement is complete: it and the frame it belongs to are its value.
LEMMA ReduceSteady ==
  ASSUME Shaped(ctx), NEW k \in {"if_then", "if_else", "while_body", "for_body"},
         AfterStatement(k), NEW g \in FrameType, g.kind \notin Nesting \union {"program"},
         Len(g.q) = Arity(g.kind), ctx' = Append(SubSeq(ctx, 1, Len(ctx) - 2), g)
  PROVE  Shaped(ctx') /\ SameNest(ctx, ctx')
<1>1. /\ Len(ctx) \in Nat \ {0} /\ ctx[Len(ctx)].kind = "stmt" /\ ctx[1].kind = "program"
      /\ ctx[Len(ctx) - 1].kind = k
  BY DEF Shaped, AfterStatement, Top, Below, Last
<1>2. Len(ctx) # 1
  BY <1>1
<1>3. Len(ctx) # 2
  <2> SUFFICES ASSUME Len(ctx) = 2 PROVE FALSE
    OBVIOUS
  <2>1. ctx[1].kind = k
    BY <1>1
  <2> QED BY <1>1, <2>1
<1>4. 2 \in 0..Len(ctx) /\ 2 < Len(ctx)
  BY <1>1, <1>2, <1>3
<1>5. Replaced(ctx, ctx', 2, g)
  BY <1>4, PopPush DEF Shaped
<1>6. Fitting(ctx, 2, g)
  BY <1>4 DEF Fitting
<1>7. Shaped(ctx')
  BY <1>5, <1>6, ShapeKept
<1>8. \A i \in (Len(ctx) - 2 + 1)..Len(ctx) : ctx[i].kind \notin Nesting
  <2>1. \A i \in (Len(ctx) - 2 + 1)..Len(ctx) : i = Len(ctx) - 1 \/ i = Len(ctx)
    BY <1>1
  <2> QED BY <1>1, <2>1 DEF Nesting
<1>9. SameNest(ctx, ctx')
  BY <1>5, <1>8, NestKept
<1> QED BY <1>7, <1>9

\* A statement joins the list it belongs to.
LEMMA ListSteady ==
  ASSUME Shaped(ctx), all_statements
  PROVE  Shaped(ctx') /\ SameNest(ctx, ctx')
<1> DEFINE g == [Below EXCEPT !.b = merge_lists(@, Top.b), !.c = merge_lists(@, Top.c)]
<1>1. PICK k \in Lists : AfterStatement(k)
  BY DEF all_statements
<1>2. /\ Len(ctx) \in Nat \ {0} /\ ctx[Len(ctx)].kind = "stmt" /\ ctx[1].kind = "program"
      /\ ctx[Len(ctx) - 1].kind = k
  BY <1>1 DEF Shaped, AfterStatement, Top, Below, Last
<1>3. Len(ctx) # 1
  BY <1>2
<1>4. 2 \in 0..Len(ctx) /\ Len(ctx) - 1 \in DOMAIN ctx /\ Len(ctx) \in DOMAIN ctx
  BY <1>2, <1>3 DEF Shaped
<1>5. Top \in FrameType /\ Below \in FrameType
  BY <1>4 DEF Shaped, Top, Below, Last
<1>6. /\ g \in FrameType /\ g.kind = Below.kind /\ g.q = Below.q
      /\ Below = ctx[Len(ctx) - 1]
  <2>1. /\ merge_lists(Below.b, Top.b) \in Seq(Nat)
        /\ merge_lists(Below.c, Top.c) \in Seq(Nat)
    BY <1>5 DEF merge_lists, FrameType
  <2> QED BY <1>5, <2>1 DEF FrameType, Below
<1>7. ctx' = Append(SubSeq(ctx, 1, Len(ctx) - 2), g)
  BY DEF all_statements
<1> HIDE DEF g
<1>8. Replaced(ctx, ctx', 2, g)
  BY <1>4, <1>6, <1>7, PopPush DEF Shaped
<1>9. Fitting(ctx, 2, g)
  <2>1. CASE 2 < Len(ctx)
    <3>1. Len(ctx) - 1 \in 2..Len(ctx)
      BY <1>2, <2>1
    <3> QED BY <1>6, <2>1, <3>1 DEF Fitting, Shaped
  <2>2. CASE ~(2 < Len(ctx))
    <3>1. Below.kind = "program"
      <4>1. Len(ctx) \in Int /\ 2 <= Len(ctx)
        BY <1>4
      <4>2. \A x \in Int : (2 <= x /\ ~(2 < x)) => x = 2
        OBVIOUS
      <4>4. Len(ctx) = 2
        BY <4>1, <4>2, <2>2, Zenon
      <4>3. Below = ctx[1]
        BY <1>6, <4>4
      <4> QED BY <1>2, <4>3
    <3> QED BY <1>6, <2>2, <3>1 DEF Fitting
  <2> QED BY <2>1, <2>2
<1>10. Len(g.q) = Arity(g.kind)
  BY <1>4, <1>6 DEF Shaped
<1>11. Shaped(ctx')
  BY <1>8, <1>9, <1>10, ShapeKept
<1>12. SameNest(ctx, ctx')
  BY <1>2, <1>6, <1>8, NestMerged DEF Nesting
<1> QED BY <1>11, <1>12
-----------------------------------------------------------------------------
(* What surrounds the point the parser has reached *)

\* No binding of an inner block is left over.
Fits(es, s) == \A k \in DOMAIN es : es[k].isActive => es[k].scope <= s

\* A function keeps the list its "funcstart" jump heads.
Addressed(es) == \A k \in DOMAIN es : es[k].type = "USERFUNC" => es[k].address_list # <<>>

\* The bindings, in order, mirror the blocks and functions around this point.
Nested ==
  /\ Stacked
  /\ Ordered(entries) /\ Fits(entries, current_scope) /\ Addressed(entries)
  /\ Mirrors(entries, current_scope, ctx)
  /\ offset \in [Spaces -> Nat]
  /\ function_offset_stack \in Seq(Nat)
  /\ Len(function_offset_stack) = Cardinality(Defining(ctx))
  /\ temp_var_counter \in Nat /\ nameless_func_count \in Nat
  /\ arguments_list \in Seq(Var)
  /\ arguments_list # <<>> => Top.kind = "func"

\* Outside a header, the functions being defined are those whose bodies are
\* open, and CurrentFunction is the innermost.
LEMMA CurrentIs ==
  ASSUME Nested, Top.kind # "func"
  PROVE  /\ Bodies = Defining(ctx)
         /\ CurrentFunction \in Nat /\ current_scope \in Nat
         /\ Innermost(entries, current_scope, CurrentFunction)
         /\ CurrentFunction = 0 => Defining(ctx) = {}
         /\ Defining(ctx) = {} => CurrentFunction = 0
         /\ Defining(ctx) # {} => /\ Max(Bodies) \in Defining(ctx)
                                  /\ CurrentFunction = ctx[Max(Bodies)].q[1]
                                  /\ \A i \in Defining(ctx) : Max(Bodies) >= i
<1>1. /\ Shaped(ctx) /\ Ordered(entries) /\ Mirrors(entries, current_scope, ctx)
      /\ DOMAIN ctx = 1..Len(ctx) /\ Len(ctx) \in Nat \ {0}
      /\ DOMAIN entries \subseteq Nat \ {0}
  BY DEF Nested, Stacked, Shaped, Ordered
<1>2. ASSUME NEW i \in DOMAIN ctx PROVE ctx[i].kind # "func"
  <2>1. CASE i \in 1..(Len(ctx) - 1)
    BY <1>1, <2>1 DEF Shaped
  <2>2. CASE i \notin 1..(Len(ctx) - 1)
    <3>1. i = Len(ctx)
      BY <1>1, <2>2
    <3> QED BY <3>1 DEF Top, Last
  <2> QED BY <2>1, <2>2
<1>3. Bodies = Defining(ctx)
  BY <1>2 DEF Bodies, Defining
<1>4. current_scope = Cardinality(Opening(ctx)) /\ current_scope \in Nat
  BY <1>1, NestFinite DEF Mirrors
<1>5. CASE Defining(ctx) = {}
  <2>1. CurrentFunction = 0
    BY <1>3, <1>5 DEF CurrentFunction
  <2>2. \A g \in DOMAIN entries : ~entries[g].func_is_open
    BY <1>1, <1>5 DEF Mirrors
  <2> QED BY <1>3, <1>4, <1>5, <2>1, <2>2 DEF Innermost
<1>6. CASE Defining(ctx) # {}
  <2> DEFINE m == Max(Bodies)
  <2>1. m \in Defining(ctx) /\ \A i \in Defining(ctx) : m >= i
    <3>1. Defining(ctx) \subseteq 0..Len(ctx)
      BY <1>1 DEF Defining
    <3> QED BY <1>1, <1>3, <1>6, <3>1, MaxIsLast
  <2>2. CurrentFunction = ctx[m].q[1]
    BY <1>3, <1>6 DEF CurrentFunction
  <2>3. Defining(ctx) \subseteq Nat /\ Defining(ctx) \subseteq Opening(ctx)
    BY <1>1, <1>2 DEF Defining, Opening
  <2> HIDE DEF m
  <2>4. /\ CurrentFunction \in DOMAIN entries /\ CurrentFunction \in Nat \ {0}
        /\ entries[CurrentFunction].func_is_open
    BY <1>1, <2>1, <2>2 DEF Mirrors
  <2>5. ASSUME NEW g \in DOMAIN entries, entries[g].func_is_open
        PROVE  g <= CurrentFunction /\ entries[g].scope < current_scope
    <3>1. PICK i \in Defining(ctx) : ctx[i].q[1] = g
      BY <1>1, <2>5 DEF Mirrors
    <3>2. g <= CurrentFunction
      <4>1. CASE i = m
        BY <1>1, <2>2, <3>1, <4>1
      <4>2. CASE i # m
        <5>1. i < m
          BY <2>1, <2>3, <4>2
        <5>2. g < CurrentFunction
          BY <1>1, <2>1, <2>2, <3>1, <5>1 DEF Mirrors
        <5> QED BY <1>1, <2>4, <5>2
      <4> QED BY <4>1, <4>2
    <3>3. entries[g].scope = Cardinality(Outside(ctx, i))
      BY <1>1, <3>1 DEF Mirrors
    <3>4. Cardinality(Outside(ctx, i)) < current_scope
      BY <1>1, <1>4, <2>3, OutsideFewer
    <3> QED BY <3>2, <3>3, <3>4
  <2>6. Innermost(entries, current_scope, CurrentFunction)
    BY <2>4, <2>5 DEF Innermost
  <2> QED BY <1>3, <1>4, <1>6, <2>1, <2>2, <2>4, <2>6 DEF m
<1> QED BY <1>5, <1>6

\* A statement may start outside headers only.
LEMMA StartsOutside ==
  ASSUME AtStatement PROVE Top.kind # "func" /\ Top.kind # "stmt"
BY DEF AtStatement, Lists, LoopBodies
-----------------------------------------------------------------------------
(* What the statements do to the bindings *)

Bump(os, space) == [os EXCEPT ![space] = @ + 1]

\* One variable is bound here, in the current space; one temporary is.
BindsHere(es, os, es2, os2) ==
  \E e \in EntryType : /\ es2 = Append(es, e) /\ os2 = Bump(os, Space)
                       /\ Binds(e, current_scope, CurrentFunction)
                       /\ e.space = Space /\ e.offset = os[Space]
BindsTemp(es, os, es2, os2) ==
  \E e \in EntryType : /\ es2 = Append(es, e) /\ os2 = Bump(os, "program_variable")
                       /\ TempEntry(e) /\ e.offset = os["program_variable"]
Puts(es, os, es2, os2) == \/ es2 = es /\ os2 = os
                          \/ BindsHere(es, os, es2, os2)
                          \/ BindsTemp(es, os, es2, os2)

\* What a statement, or a part of one, that opens and closes no block and no
\* function does.
SteadyTables ==
  /\ \E es, os : Puts(entries, offset, es, os) /\ Puts(es, os, entries', offset')
  /\ temp_var_counter' \in Nat
  /\ UNCHANGED <<current_scope, scope_space_counter, function_offset_stack,
                 arguments_list, nameless_func_count>>
SteadyStack == Top.kind # "func" /\ Shaped(ctx') /\ SameNest(ctx, ctx')
Steady == SteadyTables /\ SteadyStack /\ quads' \in Seq(QuadType)

\* A name of the program is none of a temporary or of an anonymous function.
LEMMA NamesApart ==
  /\ \A n \in Names : n \in AllNames /\ n \notin ToSet(TempNames)
  /\ \A i \in Nat : i < Len(TempNames) => TempName(i) \in ToSet(TempNames)
  /\ \A i \in Nat : i < Len(AnonymousNames) =>
       /\ AnonymousName(i) \in ToSet(AnonymousNames)
       /\ AnonymousName(i) \in AllNames /\ AnonymousName(i) \notin ToSet(TempNames)
       /\ AnonymousName(i) \notin Names
  /\ Var \subseteq Names /\ Fun \subseteq Names /\ ToSet(TempNames) \subseteq AllNames
<1>1. ASSUME NEW T, NEW q \in Seq(T), NEW i \in Nat, i < Len(q)
      PROVE  q[i + 1] \in ToSet(q)
  <2>1. i + 1 \in DOMAIN q
    BY <1>1
  <2> QED BY <2>1 DEF ToSet
<1>2. ASSUME NEW i \in Nat, i < Len(TempNames)
      PROVE  TempName(i) \in ToSet(TempNames)
  BY <1>1, <1>2, NamesAssumption DEF TempName
<1>3. ASSUME NEW i \in Nat, i < Len(AnonymousNames)
      PROVE  AnonymousName(i) \in ToSet(AnonymousNames)
  BY <1>1, <1>3, NamesAssumption DEF AnonymousName
<1> QED BY <1>2, <1>3, NamesAssumption DEF AllNames, Names

\* The current space is one of the three.
LEMMA SpaceIs == Space \in Spaces
BY DEF Space, Spaces

\* A new entry is what it is made of: open when it is that of a function.
LEMMA EntryIs ==
  ASSUME NEW n \in AllNames, NEW s \in Nat, NEW f \in Nat,
         NEW type \in VariableTypes \union {"USERFUNC", "LIBFUNC"}
  PROVE  /\ Entry(n, s, type, f) \in EntryType
         /\ Entry(n, s, type, f).name = n /\ Entry(n, s, type, f).scope = s
         /\ Entry(n, s, type, f).type = type /\ Entry(n, s, type, f).fn = f
         /\ Entry(n, s, type, f).space = "unset" /\ Entry(n, s, type, f).isActive
         /\ type = "USERFUNC" => Entry(n, s, type, f).func_is_open
         /\ type # "USERFUNC" => ~Entry(n, s, type, f).func_is_open
<1> DEFINE open == type = "USERFUNC"
           e == [name |-> n, scope |-> s, isActive |-> TRUE, func_is_open |-> open,
                 type |-> type, space |-> "unset", offset |-> 0, taddress |-> 0,
                 address_list |-> <<>>, fn |-> f]
<1>1. open \in BOOLEAN /\ (type = "USERFUNC" => open) /\ (type # "USERFUNC" => ~open)
  OBVIOUS
<1>2. Entry(n, s, type, f) = e
  BY DEF Entry
<1> HIDE DEF open
<1>3. <<>> \in Seq(Nat)
  OBVIOUS
<1>4. e \in EntryType
  BY <1>1, <1>3 DEF EntryType
<1>5. /\ e.name = n /\ e.scope = s /\ e.type = type /\ e.fn = f /\ e.space = "unset"
      /\ e.isActive /\ e.func_is_open = open
  OBVIOUS
<1> HIDE DEF e
<1>6. /\ type = "USERFUNC" => e.func_is_open
      /\ type # "USERFUNC" => ~e.func_is_open
  BY <1>1, <1>5, Zenon
<1> QED BY <1>2, <1>4, <1>5, <1>6

\* A variable of the program is put in the current scope, space and function.
LEMMA VariablePut ==
  ASSUME Nested, Top.kind # "func", NEW n \in Var
  PROVE  BindsHere(entries, offset, WithVariable(n), inc_curr_scope_offset)
<1> DEFINE type == IF current_scope = 0 THEN "GLOBAL" ELSE "LOCAL"
           made == Entry(n, current_scope, type, CurrentFunction)
           e == [made EXCEPT !.space = Space, !.offset = offset[Space]]
<1>1. n \in AllNames /\ n \notin ToSet(TempNames) /\ type \in VariableTypes
  BY NamesApart DEF VariableTypes
<1>2. offset[Space] \in Nat /\ Space \in Spaces
  BY SpaceIs DEF Nested
<1>3. CurrentFunction \in Nat /\ current_scope \in Nat
  BY CurrentIs
<1> HIDE DEF type
<1>5. /\ made \in EntryType /\ made.name = n /\ made.type = type
      /\ made.scope = current_scope /\ made.fn = CurrentFunction
      /\ ~made.func_is_open
  BY <1>1, <1>3, EntryIs DEF VariableTypes
<1> HIDE DEF made
<1>4. /\ e \in EntryType /\ e.name = n /\ e.type = type /\ e.scope = current_scope
      /\ e.fn = CurrentFunction /\ e.space = Space /\ e.offset = offset[Space]
      /\ ~e.func_is_open
  BY <1>2, <1>5 DEF EntryType
<1>6. WithVariable(n) = Append(entries, e)
  BY DEF WithVariable, type, made
<1>7. inc_curr_scope_offset = Bump(offset, Space)
  BY DEF inc_curr_scope_offset, Bump
<1> HIDE DEF e
<1> QED BY <1>1, <1>4, <1>6, <1>7 DEF BindsHere, Binds, IsTemp

\* A temporary is put in the outermost scope, or found there.
LEMMA TemporaryIs ==
  ASSUME temp_var_counter \in Nat, NEW es, NEW os, os["program_variable"] \in Nat,
         create_temp_symbol(es, os)
  PROVE  /\ \/ entries' = es /\ offset' = os
            \/ BindsTemp(es, os, entries', offset')
         /\ temp_var_counter' \in Nat
<1>1. CASE entries' = es /\ offset' = os
  BY <1>1 DEF create_temp_symbol
<1>2. CASE ~(entries' = es /\ offset' = os)
  <2> DEFINE n == TempName(temp_var_counter)
             made == Entry(n, 0, "LOCAL", 0)
             e == [made EXCEPT !.offset = os["program_variable"]]
  <2>1. entries' = Append(es, e) /\ offset' = Bump(os, "program_variable")
    BY <1>2 DEF create_temp_symbol, Bump
  <2>2. n \in ToSet(TempNames) /\ n \in AllNames
    BY NamesApart DEF create_temp_symbol
  <2> HIDE DEF n
  <2>4. /\ made \in EntryType /\ made.name = n /\ made.scope = 0 /\ made.type = "LOCAL"
        /\ made.space = "unset" /\ made.fn = 0 /\ ~made.func_is_open
    BY <2>2, EntryIs DEF VariableTypes
  <2> HIDE DEF made
  <2>3. /\ e \in EntryType /\ e.name = n /\ e.scope = 0 /\ e.type = "LOCAL"
        /\ e.space = "unset" /\ e.fn = 0 /\ ~e.func_is_open
        /\ e.offset = os["program_variable"]
    BY <2>4 DEF EntryType
  <2> HIDE DEF e
  <2>5. BindsTemp(es, os, entries', offset')
    BY <2>1, <2>2, <2>3 DEF BindsTemp, TempEntry, IsTemp
  <2> QED BY <2>5 DEF create_temp_symbol
<1> QED BY <1>1, <1>2

\* Either is a put.
LEMMA TemporaryPut ==
  ASSUME temp_var_counter \in Nat, NEW es, NEW os, os["program_variable"] \in Nat,
         create_temp_symbol(es, os)
  PROVE  Puts(es, os, entries', offset') /\ temp_var_counter' \in Nat
BY TemporaryIs DEF Puts

\* The bindings are left alone.
LEMMA KeptTables ==
  ASSUME UNCHANGED <<entries, offset, current_scope, scope_space_counter,
                     function_offset_stack, arguments_list, nameless_func_count>>,
         temp_var_counter' \in Nat
  PROVE  SteadyTables
BY DEF SteadyTables, Puts

\* One step of a put is a put.
LEMMA OnePut ==
  ASSUME Puts(entries, offset, entries', offset'),
         UNCHANGED <<current_scope, scope_space_counter, function_offset_stack,
                     arguments_list, nameless_func_count>>,
         temp_var_counter' \in Nat
  PROVE  SteadyTables
<1>1. Puts(entries, offset, entries, offset)
  BY DEF Puts
<1> QED BY <1>1 DEF SteadyTables

\* The frames of a statement and of what it belongs to.
LEMMA AfterIs ==
  ASSUME Shaped(ctx), NEW k, AfterStatement(k)
  PROVE  /\ Len(ctx) \in Nat /\ 1 < Len(ctx) /\ Top = ctx[Len(ctx)]
         /\ Top \in FrameType /\ Below \in FrameType /\ Top.kind = "stmt"
         /\ Below.kind = k /\ Len(Below.q) = Arity(k) /\ Below = ctx[Len(ctx) - 1]
<1>1. /\ Len(ctx) \in Nat \ {0} /\ ctx[Len(ctx)].kind = "stmt" /\ ctx[1].kind = "program"
      /\ Below = ctx[Len(ctx) - 1] /\ Top = ctx[Len(ctx)] /\ Below.kind = k
  BY DEF Shaped, AfterStatement, Top, Below, Last
<1>2. Len(ctx) # 1
  BY <1>1
<1>3. Len(ctx) - 1 \in DOMAIN ctx /\ Len(ctx) \in DOMAIN ctx /\ 1 < Len(ctx)
  BY <1>1, <1>2 DEF Shaped
<1> QED BY <1>1, <1>3 DEF Shaped

\* The code of conditions and steps.
LEMMA CodeIs ==
  ASSUME NEW code \in Nat
  PROVE  Code(code) \in Seq(QuadType) /\ Len(Code(code)) = code
<1>1. Quad("uminus", 0) \in QuadType
  BY QuadIs
<1> QED BY <1>1 DEF Code

\* A test is two quads, or three, and its false jump is the last of them.
LEMMA TestIs ==
  ASSUME NEW code \in Nat, quads \in Seq(QuadType)
  PROVE  /\ Test(code) \in Seq(QuadType) /\ Len(Test(code)) = code + 2
         /\ quads \o Test(code) \in Seq(QuadType)
         /\ Len(quads \o Test(code)) = Len(quads) + code + 2
<1>1. /\ Quad("if_eq", next_quad + code + 2) \in QuadType /\ Hole("jump") \in QuadType
  <2>1. next_quad + code + 2 \in Nat
    BY DEF next_quad
  <2> QED BY <2>1, QuadIs
<1>2. Code(code) \in Seq(QuadType) /\ Len(Code(code)) = code
  BY CodeIs
<1>3. Test(code) \in Seq(QuadType) /\ Len(Test(code)) = code + 2
  BY <1>1, <1>2 DEF Test
<1> HIDE DEF Test
<1> QED BY <1>3

\* The temporary of a condition.
LEMMA TempsSteady ==
  ASSUME Nested, NEW code \in Nat, Temps(code),
         UNCHANGED <<current_scope, scope_space_counter, function_offset_stack,
                     arguments_list, nameless_func_count>>
  PROVE  SteadyTables
<1>1. temp_var_counter \in Nat /\ offset["program_variable"] \in Nat
  BY DEF Nested, Spaces
<1>2. CASE code = 0
  BY <1>1, <1>2, KeptTables DEF Temps
<1>3. CASE code # 0
  <2>1. create_temp_symbol(entries, offset)
    BY <1>3 DEF Temps
  <2> QED BY <1>1, <2>1, TemporaryPut, OnePut
<1> QED BY <1>2, <1>3

\* A statement that is one symbol is pushed as its value.
LEMMA ValueSteady ==
  ASSUME Nested, AtStatement, NEW b \in Seq(Nat), NEW c \in Seq(Nat), Statement(b, c)
  PROVE  SteadyStack
<1> DEFINE nil == <<>>
           g == Frame("stmt", nil, b, c)
<1>2. Push(g) /\ nil \in Seq(Nat) /\ Len(nil) = 0
  BY DEF Statement
<1> HIDE DEF nil
<1>1. g \in FrameType /\ g.kind = "stmt" /\ g.q = nil
  <2>1. "stmt" \in Kinds /\ nil \in Seq(Nat)
    BY <1>2 DEF Kinds
  <2>2. /\ Frame("stmt", nil, b, c) \in FrameType
        /\ Frame("stmt", nil, b, c).kind = "stmt" /\ Frame("stmt", nil, b, c).q = nil
    BY ONLY <2>1, FrameIs, b \in Seq(Nat), c \in Seq(Nat)
  <2> QED BY <2>2
<1> HIDE DEF g
<1>3. Len(g.q) = Arity(g.kind)
  BY <1>1, <1>2, ArityIs
<1>4. g.kind \notin Nesting \union {"program"}
  BY <1>1 DEF Nesting
<1> QED BY <1>1, <1>2, <1>3, <1>4, PushSteady, StartsOutside DEF SteadyStack, Nested, Stacked

\* ... and a condition as the frame of its branch or loop.
LEMMA PrefixSteady ==
  ASSUME Nested, AtStatement, NEW k \in {"if_then", "while_body", "for_body"},
         NEW q \in Seq(Nat), Len(q) = Arity(k), Push(Frame(k, q, <<>>, <<>>))
  PROVE  SteadyStack
<1> DEFINE nil == <<>>
           g == Frame(k, q, nil, nil)
<1>2. Push(g) /\ nil \in Seq(Nat)
  OBVIOUS
<1> HIDE DEF nil
<1>1. g \in FrameType /\ g.kind = k /\ g.q = q
  <2>1. k \in Kinds
    BY DEF Kinds
  <2> QED BY <1>2, <2>1, FrameIs
<1> HIDE DEF g
<1>4. g.kind \notin Nesting \union {"program"}
  BY <1>1 DEF Nesting
<1> QED BY <1>1, <1>2, <1>4, PushSteady, StartsOutside DEF SteadyStack, Nested, Stacked

\* A branch or a loop that is complete is its value, or an "if" goes on.
LEMMA CompletedSteady ==
  ASSUME Nested, NEW k \in {"if_then", "if_else", "while_body", "for_body"},
         AfterStatement(k), NEW k2 \in {"stmt", "if_else"}, NEW q \in Seq(Nat),
         Len(q) = Arity(k2), NEW b \in Seq(Nat), NEW c \in Seq(Nat),
         ctx' = Append(SubSeq(ctx, 1, Len(ctx) - 2), Frame(k2, q, b, c))
  PROVE  SteadyStack
<1> DEFINE g == Frame(k2, q, b, c)
<1>1. g \in FrameType /\ g.kind = k2 /\ g.q = q
  <2>1. k2 \in Kinds
    BY DEF Kinds
  <2> QED BY <2>1, FrameIs
<1>2. ctx' = Append(SubSeq(ctx, 1, Len(ctx) - 2), g)
  OBVIOUS
<1> HIDE DEF g
<1>3. g.kind \notin Nesting \union {"program"}
  BY <1>1 DEF Nesting
<1>4. Shaped(ctx)
  BY DEF Nested, Stacked
<1>5. Top.kind # "func"
  BY <1>4, AfterIs
<1> QED BY <1>1, <1>2, <1>3, <1>4, <1>5, ReduceSteady DEF SteadyStack
-----------------------------------------------------------------------------
(* The statements that open and close nothing *)

\* What Nested says of the types.
LEMMA NestedTypes ==
  ASSUME Nested
  PROVE  /\ Shaped(ctx) /\ quads \in Seq(QuadType) /\ next_quad \in Nat
         /\ temp_var_counter \in Nat /\ offset \in [Spaces -> Nat]
         /\ offset["program_variable"] \in Nat
BY DEF Nested, Stacked, next_quad, Spaces

\* A list, an empty statement and the end of the input put nothing.
LEMMA PlainSteady ==
  ASSUME Nested, all_statements \/ empty_statement \/ program
  PROVE  Steady
<1>1. CASE all_statements
  <2>1. Top.kind # "func"
    <3>1. \E k \in Lists : AfterStatement(k)
      BY <1>1 DEF all_statements
    <3> QED BY <3>1 DEF AfterStatement
  <2>2. SteadyStack
    BY <1>1, <2>1, ListSteady, NestedTypes DEF SteadyStack
  <2>3. SteadyTables
    BY <1>1, KeptTables DEF all_statements, tables
  <2> QED BY <1>1, <2>2, <2>3, NestedTypes DEF Steady, all_statements
<1>2. CASE empty_statement
  <2>1. SteadyStack
    <3>1. <<>> \in Seq(Nat)
      OBVIOUS
    <3> QED BY <1>2, <3>1, ValueSteady DEF empty_statement, NULL_Statement
  <2>2. SteadyTables
    BY <1>2, KeptTables, NestedTypes DEF empty_statement, tables
  <2> QED BY <1>2, <2>1, <2>2, NestedTypes DEF Steady, empty_statement
<1>3. CASE program
  <2>1. SteadyStack
    BY <1>3, NestedTypes DEF program, SteadyStack, SameNest
  <2>2. SteadyTables
    BY <1>3, KeptTables, NestedTypes DEF program, tables
  <2> QED BY <1>3, <2>1, <2>2, NestedTypes DEF Steady, program
<1> QED BY <1>1, <1>2, <1>3

\* A use of a variable, and a local or global one.
LEMMA VariableSteady ==
  ASSUME Nested, NEW n \in Var, UseVariable(n) \/ LocalVariable(n) \/ GlobalVariable(n)
  PROVE  Steady
<1>1. AtStatement /\ NULL_Statement /\ ExpressionDone
      /\ UNCHANGED <<quads, temp_var_counter>>
  BY DEF UseVariable, LocalVariable, GlobalVariable, Start
<1>2. UNCHANGED <<entries, offset>> \/ Declare(n)
  BY DEF UseVariable, LocalVariable, GlobalVariable
<1>3. Puts(entries, offset, entries', offset')
  <2>1. CASE UNCHANGED <<entries, offset>>
    BY <2>1 DEF Puts
  <2>2. CASE Declare(n)
    BY <1>1, <2>2, VariablePut, StartsOutside DEF Declare, Puts
  <2> QED BY <1>2, <2>1, <2>2
<1>4. SteadyTables
  BY <1>1, <1>3, OnePut, NestedTypes DEF ExpressionDone
<1>5. SteadyStack
  <2>1. <<>> \in Seq(Nat)
    OBVIOUS
  <2> QED BY <1>1, <2>1, ValueSteady DEF NULL_Statement
<1> QED BY <1>1, <1>4, <1>5, NestedTypes DEF Steady

\* An assignment puts its variable, when it is new, and a temporary.
LEMMA AssignmentSteady ==
  ASSUME Nested, NEW n \in Var, Assignment(n)
  PROVE  Steady
<1>1. AtStatement /\ NULL_Statement /\ ExpressionDone
  BY DEF Assignment, Start
<1>2. SteadyStack
  <2>1. <<>> \in Seq(Nat)
    OBVIOUS
  <2> QED BY <1>1, <2>1, ValueSteady DEF NULL_Statement
<1>3. SteadyTables
  <2>1. CASE closest(n) = 0
    <3> DEFINE es == WithVariable(n)
               os == inc_curr_scope_offset
    <3>1. Puts(entries, offset, es, os)
      BY <1>1, VariablePut, StartsOutside DEF Puts
    <3>2. os["program_variable"] \in Nat
      BY NestedTypes, SpaceIs DEF inc_curr_scope_offset, Spaces
    <3>3. create_temp_symbol(es, os)
      BY <2>1 DEF Assignment
    <3> HIDE DEF es, os
    <3>4. Puts(es, os, entries', offset') /\ temp_var_counter' \in Nat
      BY <3>2, <3>3, TemporaryPut, NestedTypes
    <3> QED BY <1>1, <3>1, <3>4 DEF SteadyTables, ExpressionDone
  <2>2. CASE closest(n) # 0
    <3>1. create_temp_symbol(entries, offset)
      BY <2>2 DEF Assignment
    <3> QED BY <1>1, <3>1, TemporaryPut, OnePut, NestedTypes DEF ExpressionDone
  <2> QED BY <2>1, <2>2
<1>4. quads' \in Seq(QuadType)
  <2>1. Quad("assign", 0) \in QuadType
    BY QuadIs
  <2> QED BY <2>1, NestedTypes DEF Assignment
<1> QED BY <1>2, <1>3, <1>4 DEF Steady

\* A condition opens a branch.
LEMMA IfSteady ==
  ASSUME Nested, NEW code \in {0, 1}, if_prefix(code)
  PROVE  Steady
<1>1. AtStatement /\ Temps(code) /\ ControlDone
  BY DEF if_prefix, Start
<1>2. SteadyTables
  BY <1>1, TempsSteady DEF ControlDone
<1>3. SteadyStack
  <2> DEFINE q == <<FalseJump(code)>>
  <2>1. q \in Seq(Nat) /\ Len(q) = 1
    BY NestedTypes DEF FalseJump
  <2>2. Push(Frame("if_then", q, <<>>, <<>>))
    BY DEF if_prefix
  <2> HIDE DEF q
  <2>3. Len(q) = Arity("if_then")
    BY <2>1, ArityIs
  <2> QED BY <1>1, <2>1, <2>2, <2>3, PrefixSteady
<1>4. quads' \in Seq(QuadType)
  BY TestIs, NestedTypes DEF if_prefix
<1> QED BY <1>2, <1>3, <1>4 DEF Steady

\* A statement completes the branch, or the branch goes on behind "else".
LEMMA BranchSteady ==
  ASSUME Nested, if_without_else \/ else_prefix \/ if_else
  PROVE  Steady
<1>1. SteadyTables
  BY KeptTables, NestedTypes DEF if_without_else, else_prefix, if_else, Temps, ControlDone
<1>2. CASE if_without_else
  <2>1. AfterStatement("if_then") /\ Reduce(2, Top.b, Top.c)
    BY <1>2 DEF if_without_else
  <2>2. Top.b \in Seq(Nat) /\ Top.c \in Seq(Nat)
    BY <2>1, NestedTypes, AfterIs DEF FrameType
  <2>3. <<>> \in Seq(Nat) /\ Len(<<>>) = Arity("stmt")
    BY ArityIs
  <2>4. SteadyStack
    BY <2>1, <2>2, <2>3, CompletedSteady DEF Reduce
  <2>5. quads' \in Seq(QuadType)
    BY <1>2, PatchIs, NestedTypes DEF if_without_else
  <2> QED BY <1>1, <2>4, <2>5 DEF Steady
<1>3. CASE else_prefix
  <2>1. AfterStatement("if_then")
    BY <1>3 DEF else_prefix
  <2>2. /\ Top.b \in Seq(Nat) /\ Top.c \in Seq(Nat) /\ Below.q \in Seq(Nat)
        /\ Len(Below.q) = 1
    BY <2>1, NestedTypes, AfterIs, ArityIs DEF FrameType
  <2> DEFINE q == Append(Below.q, next_quad)
  <2>3. q \in Seq(Nat) /\ Len(q) = 2
    <3>0. Below.q \in Seq(Nat) /\ next_quad \in Nat
      BY <2>2, NestedTypes
    <3>1. q \in Seq(Nat) /\ Len(q) = Len(Below.q) + 1
      BY <3>0, AppendProperties
    <3> QED BY <2>2, <3>1
  <2>4. ctx' = Append(SubSeq(ctx, 1, Len(ctx) - 2), Frame("if_else", q, Top.b, Top.c))
    BY <1>3 DEF else_prefix
  <2> HIDE DEF q
  <2>5. Len(q) = Arity("if_else")
    BY <2>3, ArityIs
  <2>6. SteadyStack
    BY <2>1, <2>2, <2>3, <2>4, <2>5, CompletedSteady
  <2>7. quads' \in Seq(QuadType)
    BY <1>3, QuadIs, NestedTypes DEF else_prefix
  <2> QED BY <1>1, <2>6, <2>7 DEF Steady
<1>4. CASE if_else
  <2> DEFINE b == merge_lists(Below.b, Top.b)
             c == merge_lists(Below.c, Top.c)
  <2>1. AfterStatement("if_else") /\ Reduce(2, b, c)
    BY <1>4 DEF if_else
  <2>2. /\ b \in Seq(Nat) /\ c \in Seq(Nat) /\ Below.q \in Seq(Nat) /\ Len(Below.q) = 2
    <3>1. /\ Below.b \in Seq(Nat) /\ Below.c \in Seq(Nat) /\ Below.q \in Seq(Nat)
          /\ Top.b \in Seq(Nat) /\ Top.c \in Seq(Nat) /\ Len(Below.q) = 2
      BY <2>1, NestedTypes, AfterIs, ArityIs DEF FrameType
    <3>2. b \in Seq(Nat) /\ c \in Seq(Nat)
      BY <3>1 DEF merge_lists
    <3> QED BY <3>1, <3>2
  <2> HIDE DEF b, c
  <2>3. <<>> \in Seq(Nat) /\ Len(<<>>) = Arity("stmt")
    BY ArityIs
  <2>4. SteadyStack
    BY <2>1, <2>2, <2>3, CompletedSteady DEF Reduce
  <2>5. quads' \in Seq(QuadType)
    <3>1. Below.q[2] \in Nat /\ Below.q[2] + 1 \in Nat
      BY <2>2
    <3>2. Patch(quads, <<Below.q[1]>>, Below.q[2] + 1) \in Seq(QuadType)
      BY <3>1, PatchIs, NestedTypes
    <3> QED BY <1>4, <3>2, PatchIs, NestedTypes DEF if_else
  <2> QED BY <1>1, <2>4, <2>5 DEF Steady
<1> QED BY <1>2, <1>3, <1>4

\* The head of a loop.
LEMMA LoopHeadSteady ==
  ASSUME Nested, NEW code \in {0, 1}, NEW step \in {0, 1},
         while_start(code) \/ for_prefix(code, step)
  PROVE  Steady
<1>1. next_quad \in Nat /\ code \in Nat /\ step \in Nat /\ code + step \in Nat
  BY NestedTypes
<1>2. CASE while_start(code)
  <2>1. AtStatement /\ Temps(code) /\ ControlDone
    BY <1>2 DEF while_start, Start
  <2>2. SteadyTables
    BY <1>1, <2>1, TempsSteady DEF ControlDone
  <2>3. SteadyStack
    <3> DEFINE q == <<next_quad, FalseJump(code)>>
    <3>1. q \in Seq(Nat) /\ Len(q) = 2
      BY <1>1 DEF FalseJump
    <3>2. Push(Frame("while_body", q, <<>>, <<>>))
      BY <1>2 DEF while_start
    <3> HIDE DEF q
    <3>3. Len(q) = Arity("while_body")
      BY <3>1, ArityIs
    <3> QED BY <2>1, <3>1, <3>2, <3>3, PrefixSteady
  <2>4. quads' \in Seq(QuadType)
    BY <1>1, <1>2, TestIs, NestedTypes DEF while_start
  <2> QED BY <2>2, <2>3, <2>4 DEF Steady
<1>3. CASE for_prefix(code, step)
  <2>1. AtStatement /\ Temps(code + step) /\ ControlDone
    BY <1>3 DEF for_prefix, Start
  <2>2. SteadyTables
    BY <1>1, <2>1, TempsSteady DEF ControlDone
  <2>3. SteadyStack
    <3> DEFINE enter == next_quad + code
               q == <<next_quad, enter, enter + 1, enter + 2 + step>>
    <3>1. q \in Seq(Nat) /\ Len(q) = 4
      <4>1. enter \in Nat /\ enter + 1 \in Nat /\ enter + 2 + step \in Nat
        BY <1>1
      <4> HIDE DEF enter
      <4> QED BY <1>1, <4>1
    <3>2. Push(Frame("for_body", q, <<>>, <<>>))
      BY <1>3 DEF for_prefix
    <3> HIDE DEF q
    <3>3. Len(q) = Arity("for_body")
      BY <3>1, ArityIs
    <3> QED BY <2>1, <3>1, <3>2, <3>3, PrefixSteady
  <2>4. quads' \in Seq(QuadType)
    <3>1. /\ Code(code) \in Seq(QuadType) /\ Code(step) \in Seq(QuadType)
          /\ Hole("if_eq") \in QuadType /\ Hole("jump") \in QuadType
      BY <1>1, CodeIs, QuadIs
    <3> QED BY <1>3, <3>1, NestedTypes DEF for_prefix
  <2> QED BY <2>2, <2>3, <2>4 DEF Steady
<1> QED BY <1>2, <1>3

\* The end of a loop.
LEMMA LoopEndSteady ==
  ASSUME Nested, while_statement \/ for_statement
  PROVE  Steady
<1>1. SteadyTables
  BY KeptTables, NestedTypes DEF while_statement, for_statement, Temps, ControlDone
<1>2. <<>> \in Seq(Nat) /\ Len(<<>>) = Arity("stmt")
  BY ArityIs
<1>3. CASE while_statement
  <2>1. AfterStatement("while_body") /\ Reduce(2, <<>>, <<>>)
    BY <1>3 DEF while_statement
  <2>2. SteadyStack
    BY <1>2, <2>1, CompletedSteady DEF Reduce
  <2>3. quads' \in Seq(QuadType)
    <3>1. Below.q \in Seq(Nat) /\ Len(Below.q) = 2
      BY <2>1, NestedTypes, AfterIs, ArityIs DEF FrameType
    <3> DEFINE start == Below.q[1]
               end == next_quad + 1
               looped == Append(quads, Quad("jump", start))
    <3>2. start \in Nat /\ end \in Nat
      BY <3>1, NestedTypes
    <3>3. quads' = Patch(Patch(looped, <<Below.q[2]>> \o Top.b, end), Top.c, start)
      BY <1>3 DEF while_statement
    <3> HIDE DEF start, end
    <3>4. looped \in Seq(QuadType)
      <4>1. Quad("jump", start) \in QuadType
        BY <3>2, QuadIs
      <4> QED BY <4>1, NestedTypes
    <3> HIDE DEF looped
    <3>5. Patch(looped, <<Below.q[2]>> \o Top.b, end) \in Seq(QuadType)
      BY <3>2, <3>4, PatchIs
    <3> QED BY <3>2, <3>3, <3>5, PatchIs
  <2> QED BY <1>1, <2>2, <2>3 DEF Steady
<1>4. CASE for_statement
  <2>1. AfterStatement("for_body") /\ Reduce(2, <<>>, <<>>)
    BY <1>4 DEF for_statement
  <2>2. SteadyStack
    BY <1>2, <2>1, CompletedSteady DEF Reduce
  <2>3. quads' \in Seq(QuadType)
    <3>1. Below.q \in Seq(Nat) /\ Len(Below.q) = 4
      BY <2>1, NestedTypes, AfterIs, ArityIs DEF FrameType
    <3> DEFINE test == Below.q[1]
               enter == Below.q[2]
               out == Below.q[3]
               back == Below.q[4]
               closed == Append(quads, Owed("for", 0))
               entered == Patch(closed, <<enter>>, back + 1)
               left == Patch(entered, <<out>> \o Top.b, next_quad + 1)
               tested == Patch(left, <<back>>, test)
    <3>2. test \in Nat /\ out + 1 \in Nat /\ back + 1 \in Nat /\ next_quad + 1 \in Nat
      <4>1. 1 \in DOMAIN Below.q /\ 3 \in DOMAIN Below.q /\ 4 \in DOMAIN Below.q
        BY <3>1
      <4>2. test \in Nat /\ out \in Nat /\ back \in Nat
        BY <3>1, <4>1
      <4> HIDE DEF test, out, back
      <4> QED BY <4>2, NestedTypes
    <3>3. quads' = Patch(tested, <<next_quad>> \o Top.c, out + 1)
      BY <1>4 DEF for_statement
    <3>4. closed \in Seq(QuadType)
      BY QuadIs, NestedTypes
    <3> HIDE DEF test, enter, out, back, closed
    <3>5. entered \in Seq(QuadType)
      BY <3>2, <3>4, PatchIs
    <3> HIDE DEF entered
    <3>6. left \in Seq(QuadType)
      BY <3>2, <3>5, PatchIs
    <3> HIDE DEF left
    <3>7. tested \in Seq(QuadType)
      BY <3>2, <3>6, PatchIs
    <3> HIDE DEF tested
    <3> QED BY <3>2, <3>3, <3>7, PatchIs
  <2> QED BY <1>1, <2>2, <2>3 DEF Steady
<1> QED BY <1>3, <1>4

\* A jump out of a loop, or to its step.
LEMMA JumpSteady ==
  ASSUME Nested, NEW kind \in {"break", "continue"}, break_or_continue(kind)
  PROVE  Steady
<1>1. AtStatement
  BY DEF break_or_continue, Start
<1>2. SteadyTables
  BY KeptTables, NestedTypes DEF break_or_continue, tables
<1>3. <<>> \in Seq(Nat) /\ <<next_quad>> \in Seq(Nat)
  BY NestedTypes
<1>4. SteadyStack
  <2>1. \E b, c \in Seq(Nat) : Statement(b, c)
    BY <1>3 DEF break_or_continue, NULL_Statement
  <2> QED BY <1>1, <2>1, ValueSteady
<1>5. quads' \in Seq(QuadType)
  <2>1. CurrentLoop \in Nat
    <3> DEFINE around == Around(ctx)
    <3>1. DOMAIN ctx = 1..Len(ctx) /\ Len(ctx) \in Nat
      BY NestedTypes DEF Shaped
    <3>2. around \subseteq 0..Len(ctx) /\ around \subseteq Nat
      BY <3>1 DEF Around
    <3>3. CurrentLoop = IF around = {} \/ ctx[Max(around)].kind = "body" THEN 0
                        ELSE Max(around)
      BY DEF CurrentLoop
    <3> HIDE DEF around
    <3>4. ASSUME around # {} PROVE Max(around) \in Nat
      <4>1. Max(around) \in around
        BY <3>1, <3>2, <3>4, MaxIsLast
      <4> QED BY <3>2, <4>1, Zenon
    <3> QED BY <3>3, <3>4
  <2>2. Owed(kind, CurrentLoop) \in QuadType
    BY <2>1, QuadIs
  <2>3. quads' = quads \/ quads' = Append(quads, Owed(kind, CurrentLoop))
    BY DEF break_or_continue
  <2> QED BY <2>2, <2>3, NestedTypes
<1> QED BY <1>2, <1>4, <1>5 DEF Steady

\* What one put leaves in place, and what it adds.
LEMMA PutAdds ==
  ASSUME NEW es \in Seq(EntryType), NEW os \in [Spaces -> Nat], NEW es2, NEW os2,
         Puts(es, os, es2, os2), current_scope \in Nat
  PROVE  /\ Adds(es, es2, current_scope, CurrentFunction)
         /\ os2 \in [Spaces -> Nat]
         /\ \A k \in DOMAIN es : k \in DOMAIN es2 /\ es2[k] = es[k]
         /\ \A k \in DOMAIN es2 : k \notin DOMAIN es =>
              /\ es2[k].type \in VariableTypes /\ es2[k].scope <= current_scope
              /\ es2[k].scope \in Nat /\ ~es2[k].func_is_open
<1>1. CASE es2 = es /\ os2 = os
  <2>1. Adds(es, es, current_scope, CurrentFunction)
    BY DEF Adds, Like
  <2> QED BY <1>1, <2>1
<1>2. ASSUME NEW e \in EntryType, NEW space \in Spaces, es2 = Append(es, e),
             os2 = Bump(os, space),
             TempEntry(e) \/ Binds(e, current_scope, CurrentFunction)
      PROVE  /\ Adds(es, es2, current_scope, CurrentFunction)
             /\ os2 \in [Spaces -> Nat]
             /\ \A k \in DOMAIN es : k \in DOMAIN es2 /\ es2[k] = es[k]
             /\ \A k \in DOMAIN es2 : k \notin DOMAIN es =>
                  /\ es2[k].type \in VariableTypes /\ es2[k].scope <= current_scope
                  /\ es2[k].scope \in Nat /\ ~es2[k].func_is_open
  <2> DEFINE m == Len(es) + 1
  <2>1. /\ es2 \in Seq(EntryType) /\ Len(es2) = m /\ m \in Nat /\ Len(es) \in Nat
        /\ DOMAIN es2 = DOMAIN es \union {m} /\ es2[m] = e
        /\ \A k \in DOMAIN es : es2[k] = es[k]
    BY <1>2
  <2>2. Len(es) <= Len(es2) /\ \A k \in (Len(es) + 1)..Len(es2) : k = m
    BY <2>1
  <2>3. /\ e.type \in VariableTypes /\ e.scope <= current_scope /\ e.scope \in Nat
        /\ ~e.func_is_open
    BY <1>2 DEF TempEntry, Binds, VariableTypes
  <2> HIDE DEF m
  <2>4. Adds(es, es2, current_scope, CurrentFunction)
    BY <1>2, <2>1, <2>2 DEF Adds, Like
  <2>5. os2 \in [Spaces -> Nat]
    BY <1>2 DEF Bump
  <2>6. ASSUME NEW k \in DOMAIN es2, k \notin DOMAIN es PROVE es2[k] = e
    BY <2>1, <2>6
  <2> QED BY <2>1, <2>3, <2>4, <2>5, <2>6
<1>3. CASE BindsHere(es, os, es2, os2)
  BY <1>2, <1>3, SpaceIs DEF BindsHere
<1>4. CASE BindsTemp(es, os, es2, os2)
  <2>1. "program_variable" \in Spaces
    BY DEF Spaces
  <2> QED BY <1>2, <1>4, <2>1 DEF BindsTemp
<1> QED BY <1>1, <1>3, <1>4 DEF Puts

\* A put keeps what is known of the bindings, whether or not the stack has
\* moved to r meanwhile.
LEMMA PutKeeps ==
  ASSUME NEW es, NEW os \in [Spaces -> Nat], NEW cx, NEW r, NEW es2, NEW os2,
         Ordered(es), Fits(es, current_scope), Addressed(es),
         Innermost(es, current_scope, CurrentFunction), Mirrors(es, current_scope, cx),
         current_scope \in Nat, CurrentFunction \in Nat,
         \A i \in Defining(cx) : cx[i].kind # "func", SameNest(cx, r),
         Puts(es, os, es2, os2)
  PROVE  /\ Ordered(es2) /\ Fits(es2, current_scope) /\ Addressed(es2)
         /\ Innermost(es2, current_scope, CurrentFunction)
         /\ Mirrors(es2, current_scope, r) /\ os2 \in [Spaces -> Nat]
<1>0. es \in Seq(EntryType)
  BY DEF Ordered
<1>1. /\ Adds(es, es2, current_scope, CurrentFunction) /\ os2 \in [Spaces -> Nat]
      /\ \A k \in DOMAIN es : k \in DOMAIN es2 /\ es2[k] = es[k]
      /\ \A k \in DOMAIN es2 : k \notin DOMAIN es =>
              /\ es2[k].type \in VariableTypes /\ es2[k].scope <= current_scope
              /\ es2[k].scope \in Nat /\ ~es2[k].func_is_open
  BY <1>0, PutAdds
<1>2. Ordered(es2)
  BY <1>1, OrderedAdds
<1>3. Fits(es2, current_scope)
  BY <1>1 DEF Fits
<1>4. Addressed(es2)
  BY <1>1 DEF Addressed, VariableTypes
<1>5. Innermost(es2, current_scope, CurrentFunction)
  BY <1>1 DEF Innermost
<1>6. Follows(es, es2)
  BY <1>0, <1>1, AddsFollows
<1>7. Mirrors(es2, current_scope, r)
  BY <1>6, MirrorsKept
<1> QED BY <1>1, <1>2, <1>3, <1>4, <1>5, <1>7

\* The nest is itself.
LEMMA SameNestSelf ==
  ASSUME NEW cx PROVE SameNest(cx, cx)
BY DEF SameNest

\* The statements that open and close nothing keep the mirror.
LEMMA SteadyNested ==
  ASSUME Nested, Steady
  PROVE  Nested'
<1>1. PICK es, os : Puts(entries, offset, es, os) /\ Puts(es, os, entries', offset')
  BY DEF Steady, SteadyTables
<1>2. /\ current_scope \in Nat /\ CurrentFunction \in Nat
      /\ Innermost(entries, current_scope, CurrentFunction)
      /\ \A i \in Defining(ctx) : ctx[i].kind # "func"
  <2>1. Top.kind # "func"
    BY DEF Steady, SteadyStack
  <2> QED BY <2>1, CurrentIs DEF Bodies
<1>3. /\ Ordered(entries) /\ Fits(entries, current_scope) /\ Addressed(entries)
      /\ Mirrors(entries, current_scope, ctx) /\ offset \in [Spaces -> Nat]
  BY DEF Nested
<1>4. /\ Ordered(es) /\ Fits(es, current_scope) /\ Addressed(es)
      /\ Innermost(es, current_scope, CurrentFunction)
      /\ Mirrors(es, current_scope, ctx) /\ os \in [Spaces -> Nat]
  BY <1>1, <1>2, <1>3, SameNestSelf, PutKeeps
<1>5. SameNest(ctx, ctx') /\ Shaped(ctx')
  BY DEF Steady, SteadyStack
<1>6. /\ Ordered(entries') /\ Fits(entries', current_scope) /\ Addressed(entries')
      /\ Mirrors(entries', current_scope, ctx') /\ offset' \in [Spaces -> Nat]
  BY <1>1, <1>2, <1>4, <1>5, PutKeeps
<1>7. Stacked'
  BY <1>5 DEF Steady, Stacked
<1>8. arguments_list = <<>>
  BY DEF Nested, Steady, SteadyStack
<1>9. UNCHANGED <<current_scope, function_offset_stack, arguments_list,
                  nameless_func_count>> /\ temp_var_counter' \in Nat
  BY DEF Steady, SteadyTables
<1>10. Cardinality(Defining(ctx')) = Cardinality(Defining(ctx))
  BY <1>5 DEF SameNest
<1> QED BY <1>6, <1>7, <1>8, <1>9, <1>10 DEF Nested

\* What the type of a table says of its entries.
LEMMA EntriesAre ==
  ASSUME NEW es \in Seq(EntryType)
  PROVE  /\ Len(es) \in Nat /\ DOMAIN es = 1..Len(es)
         /\ \A k \in DOMAIN es :
              /\ k \in Nat \ {0} /\ k <= Len(es) /\ es[k] \in EntryType
              /\ es[k].scope \in Nat /\ es[k].fn \in Nat /\ es[k].offset \in Nat
              /\ es[k].name \in AllNames /\ es[k].address_list \in Seq(Nat)
              /\ es[k].type \in VariableTypes \union {"USERFUNC", "LIBFUNC"}
<1>1. Len(es) \in Nat /\ DOMAIN es = 1..Len(es)
  OBVIOUS
<1>2. ASSUME NEW k \in DOMAIN es
      PROVE  k \in Nat \ {0} /\ k <= Len(es) /\ es[k] \in EntryType
  BY <1>1
<1>3. ASSUME NEW e \in EntryType
      PROVE  /\ e.scope \in Nat /\ e.fn \in Nat /\ e.offset \in Nat
             /\ e.name \in AllNames /\ e.address_list \in Seq(Nat)
             /\ e.type \in VariableTypes \union {"USERFUNC", "LIBFUNC"}
  BY DEF EntryType
<1> QED BY <1>1, <1>2, <1>3

\* Symbols takes its maximum from the same place.
LEMMA SymMax == \A S : Sym!Max(S) = Max(S)
BY DEF Sym!Max, Max

\* The last open function is the one whose body is being parsed, and those
\* that are open are those around this point.
LEMMA OpenIsCurrent ==
  ASSUME Nested, Top.kind # "func"
  PROVE  /\ Sym!Opened(entries) = {ctx[i].q[1] : i \in Bodies}
         /\ Sym!OpenFunc(entries, current_scope) = CurrentFunction
<1>1. /\ Innermost(entries, current_scope, CurrentFunction) /\ Bodies = Defining(ctx)
      /\ current_scope \in Nat
  BY CurrentIs
<1>2. /\ Mirrors(entries, current_scope, ctx) /\ OlderOutside(entries)
      /\ DOMAIN entries \subseteq Nat \ {0} /\ entries \in Seq(EntryType)
      /\ \A k \in DOMAIN entries : entries[k].scope \in Nat
  <2>1. Mirrors(entries, current_scope, ctx) /\ OlderOutside(entries)
        /\ entries \in Seq(EntryType)
    BY DEF Nested, Ordered
  <2> QED BY <2>1, EntriesAre
<1>3. Sym!Opened(entries) = {ctx[i].q[1] : i \in Bodies}
  BY <1>1, <1>2 DEF Mirrors, Sym!Opened
<1> DEFINE around == {k \in Sym!Opened(entries) : entries[k].scope <= current_scope}
           scopes == {entries[k].scope : k \in around}
           top == Max(scopes)
           newest == {k \in around : entries[k].scope = top}
<1>4. Sym!OpenFunc(entries, current_scope) =
        IF around = {} THEN 0 ELSE IF newest = {} THEN 0 ELSE Max(newest)
  BY SymMax DEF Sym!OpenFunc, Sym!NewestOf
<1>5. \A g \in DOMAIN entries : entries[g].func_is_open => g \in around
  BY <1>1, <1>2 DEF Innermost, Sym!Opened
<1>6. \A g \in around : g \in DOMAIN entries /\ entries[g].func_is_open
  BY DEF Sym!Opened
<1>7. CASE CurrentFunction = 0
  <2>1. around = {}
    BY <1>1, <1>2, <1>6, <1>7 DEF Innermost
  <2> QED BY <1>3, <1>4, <1>7, <2>1
<1>8. CASE CurrentFunction # 0
  <2> DEFINE f == CurrentFunction
  <2>1. f \in around /\ f \in DOMAIN entries /\ entries[f].func_is_open
    BY <1>1, <1>5, <1>8 DEF Innermost
  <2>2. \A g \in around : g <= f /\ g \in Nat
    BY <1>1, <1>2, <1>6 DEF Innermost
  <2> HIDE DEF around, f
  <2>3. ASSUME NEW g \in around PROVE entries[g].scope <= entries[f].scope
    <3>1. entries[g].isActive
      BY <1>2, <1>6 DEF Mirrors
    <3>2. CASE g = f
      BY <1>2, <2>1, <3>2
    <3>3. CASE g < f
      BY <1>2, <1>6, <2>1, <3>1, <3>3 DEF OlderOutside
    <3>4. g = f \/ g < f
      <4>1. g \in Nat /\ f \in Nat /\ g <= f
        BY <2>1, <2>2
      <4> QED BY <4>1
    <3> QED BY <3>2, <3>3, <3>4
  <2>4. top = entries[f].scope
    <3>1. entries[f].scope \in scopes
      BY <2>1
    <3>2. scopes \subseteq Nat
      BY <1>2, <1>6
    <3>3. \A y \in scopes : entries[f].scope >= y
      BY <1>2, <1>6, <2>1, <2>3
    <3> HIDE DEF scopes
    <3> QED BY <3>1, <3>2, <3>3, MaxIs
  <2> HIDE DEF top
  <2>5. Max(newest) = f
    <3>1. f \in newest /\ newest \subseteq Nat /\ \A g \in newest : f >= g
      BY <2>1, <2>2, <2>4
    <3> HIDE DEF newest, f
    <3> QED BY <3>1, MaxIs
  <2>6. around # {} /\ newest # {}
    BY <2>1, <2>4
  <2> HIDE DEF around, newest
  <2> QED BY <1>3, <1>4, <2>5, <2>6 DEF f
<1> QED BY <1>7, <1>8

\* Behind the first label of a list there is place for another.
LEMMA InsertIs ==
  ASSUME NEW l \in Seq(Nat), l # <<>>, NEW x \in Nat
  PROVE  /\ InsertAt(l, 2, x) \in Seq(Nat) /\ InsertAt(l, 2, x) # <<>>
         /\ Len(InsertAt(l, 2, x)) = Len(l) + 1
<1> DEFINE n == Len(l) + 1
           at(j) == IF j < 2 THEN l[j] ELSE IF j = 2 THEN x ELSE l[j - 1]
           r == [j \in 1..n |-> at(j)]
<1>1. Len(l) \in Nat \ {0} /\ n \in Nat /\ n > 0
  BY EmptySeq
<1>2. ASSUME NEW j \in 1..n PROVE at(j) \in Nat
  <2>1. CASE j = 2
    BY <2>1
  <2>2. CASE j < 2
    <3>1. j \in 1..Len(l)
      BY <1>1, <2>2
    <3> QED BY <2>2, <3>1
  <2>3. CASE j > 2
    <3>1. j - 1 \in 1..Len(l)
      BY <1>1, <2>3
    <3> QED BY <2>3, <3>1
  <2> QED BY <1>1, <2>1, <2>2, <2>3
<1> HIDE DEF at
<1>3. r \in [1..n -> Nat]
  BY <1>2
<1> HIDE DEF r, n
<1>4. r \in Seq(Nat) /\ Len(r) = n
  BY <1>1, <1>3
<1>5. InsertAt(l, 2, x) = r
  BY DEF InsertAt, r, n, at
<1>6. r # <<>>
  BY <1>1, <1>4
<1> QED BY <1>4, <1>5, <1>6 DEF n

\* What a step leaves alone when it changes no table, quad or frame.
LEMMA StutterNested ==
  ASSUME Nested, UNCHANGED <<entries, current_scope, offset, function_offset_stack,
                             arguments_list, nameless_func_count, quads,
                             temp_var_counter, ctx>>
  PROVE  Nested'
BY DEF Nested, Stacked, Top

\* A return puts its jump into the list of the open function.
LEMMA ReturnNested ==
  ASSUME Nested, return
  PROVE  Nested'
<1>1. AtStatement /\ Top.kind # "func"
  BY StartsOutside DEF return, Start
<1>2. <<>> \in Seq(Nat)
  OBVIOUS
<1>3. CASE "FUNC_BLOCK" \notin ToSet(block_stack)
  <2>1. /\ quads' = Append(quads, Quad("ret", 0)) /\ NULL_Statement
        /\ UNCHANGED <<entries, offset, current_scope, scope_space_counter,
                       function_offset_stack, arguments_list,
                       nameless_func_count, temp_var_counter>>
    BY <1>3 DEF return
  <2>2. SteadyTables
    BY <2>1, KeptTables, NestedTypes
  <2>3. SteadyStack
    BY <1>1, <1>2, <2>1, ValueSteady DEF NULL_Statement
  <2>4. quads' \in Seq(QuadType)
    <3>1. Quad("ret", 0) \in QuadType
      BY QuadIs
    <3> QED BY <2>1, <3>1, NestedTypes
  <2>5. Steady
    BY <2>2, <2>3, <2>4 DEF Steady
  <2> QED BY <2>5, SteadyNested
<1> DEFINE f == Sym!OpenFunc(entries, current_scope)
<1>4. CASE "FUNC_BLOCK" \in ToSet(block_stack) /\ f = 0
  BY <1>4, StutterNested DEF return
<1>5. CASE "FUNC_BLOCK" \in ToSet(block_stack) /\ f # 0
  <2>1. /\ entries' = [entries EXCEPT ![f].address_list = InsertAt(@, 2, next_quad + 1)]
        /\ quads' = quads \o <<Quad("ret", 0), Owed("return", CurrentFunction)>>
        /\ NULL_Statement
        /\ UNCHANGED <<offset, current_scope, scope_space_counter,
                       function_offset_stack, arguments_list,
                       nameless_func_count, temp_var_counter>>
    BY <1>5 DEF return
  <2>2. /\ f = CurrentFunction /\ f \in DOMAIN entries /\ f \in Nat
        /\ entries[f].func_is_open
        /\ current_scope \in Nat /\ Innermost(entries, current_scope, f)
        /\ \A i \in Defining(ctx) : ctx[i].kind # "func"
    BY <1>1, <1>5, CurrentIs, OpenIsCurrent DEF Innermost, Bodies
  <2>3. /\ entries \in Seq(EntryType) /\ Ordered(entries) /\ Addressed(entries)
        /\ Fits(entries, current_scope) /\ Mirrors(entries, current_scope, ctx)
        /\ entries[f].type = "USERFUNC"
    BY <2>2 DEF Nested, Ordered, OpenAreFunctions
  <2> HIDE DEF f
  <2> DEFINE l == InsertAt(entries[f].address_list, 2, next_quad + 1)
  <2>4. l \in Seq(Nat) /\ l # <<>>
    <3>1. entries[f].address_list \in Seq(Nat) /\ entries[f].address_list # <<>>
      BY <2>2, <2>3, EntriesAre DEF Addressed
    <3>2. next_quad + 1 \in Nat
      BY NestedTypes
    <3> QED BY <3>1, <3>2, InsertIs
  <2>5. entries' = [entries EXCEPT ![f].address_list = l]
    BY <2>1 DEF f
  <2> HIDE DEF l
  <2>6. /\ entries' \in Seq(EntryType) /\ Len(entries') = Len(entries)
        /\ DOMAIN entries' = DOMAIN entries
        /\ \A k \in DOMAIN entries : Like(entries'[k], entries[k])
        /\ \A k \in DOMAIN entries :
             entries'[k].address_list \in {entries[k].address_list, l}
    <3> DEFINE e == [entries[f] EXCEPT !.address_list = l]
    <3>1. /\ e \in EntryType /\ Like(e, entries[f]) /\ e.address_list = l
      <4>1. entries[f] \in EntryType
        BY <2>2, <2>3, EntriesAre
      <4> QED BY <2>4, <4>1 DEF EntryType, Like
    <3>2. entries' = [entries EXCEPT ![f] = e]
      BY <2>5
    <3> HIDE DEF e
    <3>3. /\ entries' \in Seq(EntryType) /\ Len(entries') = Len(entries)
          /\ DOMAIN entries' = DOMAIN entries /\ entries'[f] = e
          /\ \A k \in DOMAIN entries : k # f => entries'[k] = entries[k]
      BY <2>2, <2>3, <3>1, <3>2
    <3> QED BY <3>1, <3>3 DEF Like
  <2>7. Adds(entries, entries', current_scope, f)
    <3>1. Len(entries) <= Len(entries') /\ (Len(entries) + 1)..Len(entries') = {}
      BY <2>3, <2>6
    <3> QED BY <2>6, <3>1 DEF Adds
  <2>8. Ordered(entries') /\ Follows(entries, entries')
    BY <2>2, <2>3, <2>7, OrderedAdds, AddsFollows
  <2>9. Fits(entries', current_scope) /\ Addressed(entries')
    BY <2>3, <2>4, <2>6 DEF Fits, Addressed, Like
  <2>10. SteadyStack
    BY <1>1, <1>2, <2>1, ValueSteady DEF NULL_Statement
  <2>11. Mirrors(entries', current_scope, ctx')
    BY <2>2, <2>3, <2>8, <2>10, MirrorsKept DEF SteadyStack
  <2>12. quads' \in Seq(QuadType)
    <3>1. Quad("ret", 0) \in QuadType /\ Owed("return", CurrentFunction) \in QuadType
      BY <2>2, QuadIs
    <3> QED BY <2>1, <3>1, NestedTypes
  <2>13. Stacked' /\ Cardinality(Defining(ctx')) = Cardinality(Defining(ctx))
    BY <2>10, <2>12 DEF SteadyStack, Stacked, SameNest
  <2>14. arguments_list = <<>>
    BY <1>1 DEF Nested
  <2> QED BY <2>1, <2>8, <2>9, <2>11, <2>13, <2>14 DEF Nested
<1> QED BY <1>3, <1>4, <1>5
-----------------------------------------------------------------------------
(* The steps that open and close blocks and functions *)

\* A frame on top that defines no function leaves those that are defined alone.
LEMMA TopDefines ==
  ASSUME NEW cx, Shaped(cx), NEW r, NEW n \in {0, 1}, NEW g, Replaced(cx, r, n, g),
         n = 1 => cx[Len(cx)].kind \notin {"body", "func"}, g.kind \notin {"body", "func"}
  PROVE  Defining(r) = Defining(cx) /\ \A i \in Defining(cx) : r[i] = cx[i]
<1> DEFINE m == Len(r)
<1>1. /\ Defining(r) = (Defining(cx) \ {m})
                         \union (IF g.kind \in {"body", "func"} THEN {m} ELSE {})
      /\ \A i \in DOMAIN r : i # m => i \in DOMAIN cx /\ r[i] = cx[i]
      /\ n = 0 => m \notin DOMAIN cx
      /\ n = 1 => m = Len(cx)
  BY TopNest
<1> HIDE DEF m
<1>2. m \notin Defining(cx)
  BY <1>1 DEF Defining
<1>3. Defining(r) = Defining(cx)
  BY <1>1, <1>2
<1>4. \A i \in Defining(cx) : i \in DOMAIN r /\ i # m
  BY <1>2, <1>3 DEF Defining
<1> QED BY <1>1, <1>3, <1>4

\* "{" begins a block.
LEMMA BlockOpens ==
  ASSUME Nested, block_open
  PROVE  /\ Nested'
         /\ Defining(ctx') = Defining(ctx) /\ \A i \in Defining(ctx) : ctx'[i] = ctx[i]
<1> DEFINE g == Frame("block", <<>>, <<>>, <<>>)
<1>1. AtStatement /\ Top.kind # "func" /\ Top.kind # "stmt" /\ Push(g)
  BY StartsOutside DEF block_open, Start
<1>2. g \in FrameType /\ g.kind = "block" /\ Len(g.q) = Arity(g.kind)
  <2>1. g \in FrameType /\ g.kind = "block" /\ g.q = <<>>
    BY DEF Frame, FrameType, Kinds
  <2> HIDE DEF g
  <2> QED BY <2>1, ArityIs
<1> HIDE DEF g
<1>3. Shaped(ctx) /\ Replaced(ctx, ctx', 0, g)
  BY <1>1, <1>2, NestedTypes, PushReplaces DEF Shaped, Push
<1>4. Shaped(ctx')
  <2>1. Fitting(ctx, 0, g)
    BY <1>1, <1>2, <1>3 DEF Fitting, Shaped, Top, Last
  <2> QED BY <1>2, <1>3, <2>1, ShapeKept
<1>5. Defining(ctx') = Defining(ctx) /\ \A i \in Defining(ctx) : ctx'[i] = ctx[i]
  BY <1>2, <1>3, TopDefines
<1>6. /\ current_scope' = current_scope + 1 /\ current_scope \in Nat
      /\ UNCHANGED <<entries, offset, function_offset_stack, arguments_list,
                     nameless_func_count, quads, temp_var_counter>>
  BY <1>1, CurrentIs DEF block_open
<1>7. Mirrors(entries', current_scope', ctx')
  BY <1>2, <1>3, <1>6, MirrorsBlock DEF Nested
<1>8. Fits(entries', current_scope')
  <2>1. entries \in Seq(EntryType)
    BY DEF Nested, Ordered
  <2> QED BY <1>6, <2>1, EntriesAre DEF Nested, Fits
<1>9. arguments_list = <<>>
  BY <1>1 DEF Nested
<1>10. Nested'
  BY <1>4, <1>5, <1>6, <1>7, <1>8, <1>9 DEF Nested, Stacked
<1> QED BY <1>5, <1>10

\* What the "}" of a block or a body hides.
LEMMA HiddenIs ==
  ASSUME NEW es \in Seq(EntryType), NEW s \in Nat
  PROVE  LET hidden == Sym!Deactivate(es, s)
         IN  /\ hidden \in Seq(EntryType) /\ DOMAIN hidden = DOMAIN es
             /\ Len(hidden) = Len(es)
             /\ \A k \in DOMAIN es :
                  /\ hidden[k].name = es[k].name /\ hidden[k].scope = es[k].scope
                  /\ hidden[k].type = es[k].type /\ hidden[k].space = es[k].space
                  /\ hidden[k].fn = es[k].fn /\ hidden[k].offset = es[k].offset
                  /\ hidden[k].func_is_open = es[k].func_is_open
                  /\ hidden[k].address_list = es[k].address_list
                  /\ hidden[k].taddress = es[k].taddress
                  /\ es[k].scope # s => hidden[k] = es[k]
                  /\ es[k].scope = s => ~hidden[k].isActive
<1> DEFINE hidden == Sym!Deactivate(es, s)
<1>1. /\ hidden = [k \in DOMAIN es |-> IF es[k].scope = s
                                       THEN [es[k] EXCEPT !.isActive = FALSE] ELSE es[k]]
  BY DEF Sym!Deactivate
<1>2. DOMAIN es = 1..Len(es) /\ Len(es) \in Nat
  BY EntriesAre
<1> HIDE DEF hidden
<1>3. ASSUME NEW k \in DOMAIN es
      PROVE  /\ hidden[k] \in EntryType
             /\ hidden[k].name = es[k].name /\ hidden[k].scope = es[k].scope
             /\ hidden[k].type = es[k].type /\ hidden[k].space = es[k].space
             /\ hidden[k].fn = es[k].fn /\ hidden[k].offset = es[k].offset
             /\ hidden[k].func_is_open = es[k].func_is_open
             /\ hidden[k].address_list = es[k].address_list
             /\ hidden[k].taddress = es[k].taddress
             /\ es[k].scope # s => hidden[k] = es[k]
             /\ es[k].scope = s => ~hidden[k].isActive
  <2>1. es[k] \in EntryType
    BY EntriesAre
  <2>2. hidden[k] = IF es[k].scope = s THEN [es[k] EXCEPT !.isActive = FALSE] ELSE es[k]
    BY <1>1
  <2>3. CASE es[k].scope = s
    <3>1. hidden[k] = [es[k] EXCEPT !.isActive = FALSE]
      BY <2>2, <2>3
    <3> QED BY <2>1, <2>3, <3>1 DEF EntryType
  <2>4. CASE es[k].scope # s
    BY <2>1, <2>2, <2>4
  <2> QED BY <2>3, <2>4
<1>4. DOMAIN hidden = DOMAIN es
  BY <1>1
<1>5. hidden \in [1..Len(es) -> EntryType]
  <2>1. hidden = [k \in DOMAIN es |-> hidden[k]]
    BY <1>1
  <2> QED BY <1>2, <1>3, <2>1
<1>6. hidden \in Seq(EntryType) /\ Len(hidden) = Len(es)
  BY <1>2, <1>5
<1> QED BY <1>3, <1>4, <1>6 DEF hidden

\* A frame on top that is replaced by a statement.
LEMMA TopReduced ==
  ASSUME Shaped(ctx), Top.kind \in {"block", "body"}, NEW b \in Seq(Nat),
         NEW c \in Seq(Nat), Reduce(1, b, c)
  PROVE  LET g == Frame("stmt", <<>>, b, c)
         IN  /\ g \in FrameType /\ g.kind = "stmt" /\ Replaced(ctx, ctx', 1, g)
             /\ Shaped(ctx') /\ Top'.kind = "stmt" /\ ctx[Len(ctx)] = Top
<1> DEFINE nil == <<>>
           g == Frame("stmt", nil, b, c)
<1>1. nil \in Seq(Nat) /\ Len(nil) = 0
  OBVIOUS
<1>2. ctx' = Append(SubSeq(ctx, 1, Len(ctx) - 1), g)
  BY DEF Reduce
<1> HIDE DEF nil
<1>3. g \in FrameType /\ g.kind = "stmt" /\ g.q = nil
  <2>1. "stmt" \in Kinds /\ nil \in Seq(Nat)
    BY <1>1 DEF Kinds
  <2>2. /\ Frame("stmt", nil, b, c) \in FrameType
        /\ Frame("stmt", nil, b, c).kind = "stmt" /\ Frame("stmt", nil, b, c).q = nil
    BY ONLY <2>1, FrameIs, b \in Seq(Nat), c \in Seq(Nat)
  <2> QED BY <2>2
<1> HIDE DEF g
<1>4. Len(ctx) \in Nat /\ 1 < Len(ctx) /\ ctx[Len(ctx)] = Top
  <2>1. ctx[1].kind = "program" /\ ctx[Len(ctx)] = Top /\ Len(ctx) \in Nat \ {0}
    BY DEF Shaped, Top, Last
  <2>2. Len(ctx) # 1
    BY <2>1
  <2> QED BY <2>1, <2>2
<1>5. Replaced(ctx, ctx', 1, g)
  BY <1>2, <1>3, <1>4, PopPush DEF Shaped
<1>6. Fitting(ctx, 1, g)
  BY <1>3, <1>4 DEF Fitting
<1>7. Len(g.q) = Arity(g.kind)
  BY <1>1, <1>3, ArityIs
<1>8. Shaped(ctx')
  BY <1>5, <1>6, <1>7, ShapeKept
<1>9. Top'.kind = "stmt"
  BY <1>3, <1>5 DEF Top, Last, Replaced
<1> QED BY <1>3, <1>4, <1>5, <1>8, <1>9 DEF g, nil

\* "}" ends a block and hides its bindings.
LEMMA BlockCloses ==
  ASSUME Nested, block_close
  PROVE  /\ Nested' /\ Hides(entries, entries', 0)
         /\ Defining(ctx') = Defining(ctx) /\ \A i \in Defining(ctx) : ctx'[i] = ctx[i]
         /\ Top'.kind # "func"
<1>1. /\ Top.kind = "block" /\ Reduce(1, Top.b, Top.c)
      /\ entries' = Sym!Deactivate(entries, current_scope)
      /\ current_scope' = current_scope - 1
      /\ UNCHANGED <<offset, function_offset_stack, arguments_list,
                     nameless_func_count, quads, temp_var_counter>>
  BY DEF block_close
<1>2. /\ current_scope \in Nat /\ entries \in Seq(EntryType) /\ Ordered(entries)
      /\ Shaped(ctx) /\ Mirrors(entries, current_scope, ctx)
      /\ Fits(entries, current_scope) /\ Addressed(entries)
  BY <1>1, CurrentIs DEF Nested, Ordered, Stacked
<1>3. Top.b \in Seq(Nat) /\ Top.c \in Seq(Nat)
  <2>1. Top \in FrameType
    BY <1>2 DEF Shaped, Top, Last
  <2> QED BY <2>1 DEF FrameType
<1> DEFINE g == Frame("stmt", <<>>, Top.b, Top.c)
<1>4. /\ g.kind = "stmt" /\ Replaced(ctx, ctx', 1, g) /\ Shaped(ctx')
      /\ Top'.kind = "stmt" /\ ctx[Len(ctx)] = Top
  BY <1>1, <1>2, <1>3, TopReduced
<1> HIDE DEF g
<1>5. Defining(ctx') = Defining(ctx) /\ \A i \in Defining(ctx) : ctx'[i] = ctx[i]
  BY <1>1, <1>2, <1>4, TopDefines
<1>6. /\ entries' \in Seq(EntryType) /\ DOMAIN entries' = DOMAIN entries
      /\ Len(entries') = Len(entries)
      /\ \A k \in DOMAIN entries :
           /\ entries'[k].name = entries[k].name /\ entries'[k].scope = entries[k].scope
           /\ entries'[k].type = entries[k].type /\ entries'[k].space = entries[k].space
           /\ entries'[k].fn = entries[k].fn /\ entries'[k].offset = entries[k].offset
           /\ entries'[k].func_is_open = entries[k].func_is_open
           /\ entries'[k].address_list = entries[k].address_list
           /\ entries[k].scope # current_scope => entries'[k] = entries[k]
           /\ entries[k].scope = current_scope => ~entries'[k].isActive
  BY <1>1, <1>2, HiddenIs
<1>7. Hides(entries, entries', 0)
  <2>1. 0 \notin DOMAIN entries
    BY <1>2, EntriesAre
  <2> QED BY <1>6, <2>1 DEF Hides
<1>8. Ordered(entries')
  BY <1>2, <1>7, OrderedHides
<1>9. Fits(entries', current_scope')
  <2> SUFFICES ASSUME NEW k \in DOMAIN entries, entries'[k].isActive
               PROVE  entries'[k].scope <= current_scope - 1
    BY <1>1, <1>6 DEF Fits
  <2>1. /\ entries[k].scope # current_scope /\ entries[k].scope <= current_scope
        /\ entries[k].scope \in Nat /\ entries'[k].scope = entries[k].scope
    BY <1>2, <1>6, EntriesAre DEF Fits
  <2> QED BY <1>2, <2>1
<1>10. Addressed(entries')
  BY <1>2, <1>6 DEF Addressed
<1>11. Mirrors(entries', current_scope', ctx')
  <2>1. \A k \in DOMAIN entries :
           /\ entries'[k].func_is_open = entries[k].func_is_open
           /\ entries'[k].scope = entries[k].scope
           /\ entries[k].scope # current_scope => entries'[k].isActive = entries[k].isActive
    BY <1>6
  <2>2. /\ Shaped(ctx) /\ Mirrors(entries, current_scope, ctx)
        /\ Replaced(ctx, ctx', 1, g) /\ g.kind = "stmt"
        /\ ctx[Len(ctx)].kind = "block"
        /\ DOMAIN entries' = DOMAIN entries /\ Len(entries') = Len(entries)
    BY <1>1, <1>2, <1>4, <1>6
  <2>3. Mirrors(entries', current_scope - 1, ctx')
    BY <2>1, <2>2, MirrorsUnblock
  <2> QED BY <1>1, <2>3
<1>12. arguments_list = <<>>
  BY <1>1 DEF Nested
<1>13. Nested'
  BY <1>1, <1>4, <1>5, <1>8, <1>9, <1>10, <1>11, <1>12 DEF Nested, Stacked
<1> QED BY <1>4, <1>5, <1>7, <1>13

\* What a function name does: it puts the entry of an open function and a header.
Heads(e) ==
  /\ e \in EntryType /\ entries' = Append(entries, e)
  /\ e.type = "USERFUNC" /\ e.func_is_open /\ e.isActive /\ ~IsTemp(e)
  /\ e.scope = current_scope /\ e.fn = CurrentFunction
  /\ \E g \in FrameType : /\ g.kind = "func" /\ g.q[1] = Len(entries) + 1
                          /\ Replaced(ctx, ctx', 0, g)

\* A function name: its entry is put, and a header is on top.
LEMMA HeaderOpens ==
  ASSUME Nested, NEW n \in AllNames, n \notin ToSet(TempNames), NEW named \in BOOLEAN,
         function_prefix(n, named)
  PROVE  Nested' /\ Top'.kind = "func" /\ \E e : Heads(e)
<1>1. /\ AtStatement /\ Top.kind # "func" /\ Top.kind # "stmt"
      /\ Push(Frame("func", <<Len(entries) + 1>>, <<>>, <<>>))
      /\ function_offset_stack' = Append(function_offset_stack, offset[Space])
      /\ offset' = [offset EXCEPT !["formal_argument"] = 0]
      /\ nameless_func_count' = nameless_func_count + (IF named THEN 0 ELSE 1)
      /\ quads' = quads \o <<Hole("jump"), Quad("funcstart", 0)>>
      /\ UNCHANGED <<current_scope, arguments_list, temp_var_counter>>
  BY StartsOutside DEF function_prefix, Start
<1>2. /\ entries \in Seq(EntryType) /\ Ordered(entries) /\ Shaped(ctx)
      /\ Mirrors(entries, current_scope, ctx) /\ Fits(entries, current_scope)
      /\ Addressed(entries) /\ offset \in [Spaces -> Nat]
      /\ function_offset_stack \in Seq(Nat)
      /\ Len(function_offset_stack) = Cardinality(Defining(ctx))
      /\ nameless_func_count \in Nat
  BY DEF Nested, Ordered, Stacked
<1>3. /\ current_scope \in Nat /\ CurrentFunction \in Nat
      /\ Innermost(entries, current_scope, CurrentFunction)
      /\ \A i \in Defining(ctx) : ctx[i].kind = "body"
  BY <1>1, CurrentIs DEF Bodies
<1> DEFINE made == Entry(n, current_scope, "USERFUNC", CurrentFunction)
           e == [made EXCEPT !.address_list = <<next_quad>>, !.taddress = next_quad + 1]
           g == Frame("func", <<Len(entries) + 1>>, <<>>, <<>>)
<1>4. entries' = Append(entries, e)
  BY DEF function_prefix
<1>5. /\ e \in EntryType /\ e.type = "USERFUNC" /\ e.func_is_open /\ e.isActive
      /\ ~IsTemp(e) /\ e.scope = current_scope /\ e.fn = CurrentFunction
      /\ e.address_list # <<>>
  <2>1. /\ made \in EntryType /\ made.name = n /\ made.type = "USERFUNC"
        /\ made.scope = current_scope /\ made.fn = CurrentFunction
        /\ made.func_is_open /\ made.isActive
    BY <1>3, EntryIs
  <2> HIDE DEF made
  <2>2. <<next_quad>> \in Seq(Nat) /\ <<next_quad>> # <<>> /\ next_quad + 1 \in Nat
    BY NestedTypes
  <2> QED BY <2>1, <2>2 DEF EntryType, IsTemp
<1>6. g \in FrameType /\ g.kind = "func" /\ g.q[1] = Len(entries) + 1 /\ Len(g.q) = 1
  <2> DEFINE q == <<Len(entries) + 1>>
             nil == <<>>
  <2>1. q \in Seq(Nat) /\ q[1] = Len(entries) + 1 /\ Len(q) = 1
    BY <1>2, EntriesAre
  <2>2. nil \in Seq(Nat)
    OBVIOUS
  <2> HIDE DEF q, nil
  <2>3. Frame("func", q, nil, nil) \in FrameType /\ Frame("func", q, nil, nil).q = q
        /\ Frame("func", q, nil, nil).kind = "func"
    <3>1. "func" \in Kinds /\ q \in Seq(Nat)
      BY <2>1 DEF Kinds
    <3> QED BY ONLY <2>2, <3>1, FrameIs
  <2> QED BY <2>1, <2>3 DEF q, nil
<1>7. Push(g)
  BY <1>1
<1> HIDE DEF e, g, made
<1>8. Replaced(ctx, ctx', 0, g)
  BY <1>2, <1>6, <1>7, PushReplaces DEF Shaped, Push
<1>9. Shaped(ctx')
  <2>1. Fitting(ctx, 0, g)
    BY <1>1, <1>2, <1>6 DEF Fitting, Shaped, Top, Last
  <2>2. Len(g.q) = Arity(g.kind)
    BY <1>6, ArityIs
  <2> QED BY <1>2, <1>8, <2>1, <2>2, ShapeKept
<1>10. Top'.kind = "func"
  BY <1>6, <1>8 DEF Replaced, Top, Last
<1>11. Ordered(entries')
  BY <1>2, <1>3, <1>4, <1>5, OrderedOpens DEF Fits
<1>12. Mirrors(entries', current_scope', ctx')
  BY <1>1, <1>2, <1>3, <1>4, <1>5, <1>6, <1>8, MirrorsHeader
<1>13. Fits(entries', current_scope') /\ Addressed(entries')
  <2>1. /\ DOMAIN entries' = DOMAIN entries \union {Len(entries) + 1}
        /\ entries'[Len(entries) + 1] = e
        /\ \A k \in DOMAIN entries : entries'[k] = entries[k]
    BY <1>2, <1>4, <1>5
  <2> QED BY <1>1, <1>2, <1>3, <1>5, <2>1 DEF Fits, Addressed
<1>14. /\ function_offset_stack' \in Seq(Nat)
       /\ Len(function_offset_stack') = Cardinality(Defining(ctx'))
  <2>1. offset[Space] \in Nat
    BY <1>2, SpaceIs
  <2>2. /\ function_offset_stack' \in Seq(Nat)
        /\ Len(function_offset_stack') = Len(function_offset_stack) + 1
    BY <1>1, <1>2, <2>1
  <2>3. Defining(ctx') = Defining(ctx) \union {Len(ctx')} /\ Len(ctx') \notin Defining(ctx)
    <3>1. /\ Defining(ctx') = (Defining(ctx) \ {Len(ctx')})
               \union (IF g.kind \in {"body", "func"} THEN {Len(ctx')} ELSE {})
          /\ Len(ctx') \notin DOMAIN ctx
      BY <1>2, <1>6, <1>8, TopNest
    <3>2. Len(ctx') \notin Defining(ctx)
      BY <3>1 DEF Defining
    <3> QED BY <1>6, <3>1, <3>2
  <2>4. Cardinality(Defining(ctx')) = Cardinality(Defining(ctx)) + 1
    BY <1>2, <2>3, NestFinite, FS_AddElement
  <2> QED BY <1>2, <2>2, <2>4
<1>15. quads' \in Seq(QuadType)
  <2>1. Hole("jump") \in QuadType /\ Quad("funcstart", 0) \in QuadType
    BY QuadIs
  <2> QED BY <1>1, <2>1, NestedTypes
<1>16. offset' \in [Spaces -> Nat] /\ nameless_func_count' \in Nat
  <2>1. offset' \in [Spaces -> Nat]
    BY <1>1, <1>2
  <2>2. CASE named
    BY <1>1, <1>2, <2>1, <2>2
  <2>3. CASE ~named
    BY <1>1, <1>2, <2>1, <2>3
  <2> QED BY <2>2, <2>3
<1>17. Nested'
  BY <1>1, <1>9, <1>10, <1>11, <1>12, <1>13, <1>14, <1>15, <1>16 DEF Nested, Stacked
<1>18. Heads(e)
  BY <1>4, <1>5, <1>6, <1>8 DEF Heads
<1> QED BY <1>10, <1>17, <1>18

\* One argument of a header.
LEMMA FormalNested ==
  ASSUME Nested, NEW n \in Var, formal(n)
  PROVE  Nested'
<1>1. /\ Top.kind = "func" /\ arguments_list \in Seq(Var)
      /\ arguments_list' = arguments_list \/ arguments_list' = Append(arguments_list, n)
      /\ UNCHANGED <<entries, current_scope, offset, function_offset_stack,
                     nameless_func_count, quads, temp_var_counter, ctx>>
  BY DEF formal, Nested
<1>2. arguments_list' \in Seq(Var)
  BY <1>1
<1> QED BY <1>1, <1>2 DEF Nested, Stacked, Top

\* The arguments of a header are put one by one, in the scope of the body.
LEMMA FormalsPut ==
  ASSUME Nested, Top.kind = "func", function_arguments
  PROVE  /\ entries' \in Seq(EntryType)
         /\ Len(entries') = Len(entries) + Len(arguments_list)
         /\ \A k \in DOMAIN entries : k \in DOMAIN entries' /\ entries'[k] = entries[k]
         /\ \A k \in DOMAIN entries' : k \notin DOMAIN entries =>
              LET i == k - Len(entries)
                  e == entries'[k]
              IN  /\ i \in DOMAIN arguments_list /\ e.name = arguments_list[i]
                  /\ Binds(e, current_scope + 1, Top.q[1]) /\ e.type = "FORMAL"
                  /\ e.space = Space /\ e.offset = offset[Space] + i - 1
<1> DEFINE f == Top.q[1]
           made(i) == Entry(arguments_list[i], current_scope + 1, "FORMAL", f)
           arg(i) == [made(i) EXCEPT !.space = Space, !.offset = offset[Space] + i - 1]
           args == [i \in DOMAIN arguments_list |-> arg(i)]
<1>1. /\ entries \in Seq(EntryType) /\ arguments_list \in Seq(Var)
      /\ Shaped(ctx) /\ Mirrors(entries, current_scope, ctx)
      /\ offset \in [Spaces -> Nat] /\ offset[Space] \in Nat /\ Space \in Spaces
  BY SpaceIs DEF Nested, Ordered, Stacked
<1>2. current_scope \in Nat
  BY <1>1, NestFinite DEF Mirrors
<1>3. f \in Nat
  <2>1. Top = ctx[Len(ctx)] /\ Len(ctx) \in DOMAIN ctx
    BY <1>1 DEF Shaped, Top, Last
  <2>2. f \in DOMAIN entries
    BY <1>1, <2>1 DEF Mirrors, Defining
  <2> QED BY <1>1, <2>2, EntriesAre
<1>4. entries' = entries \o args
  BY DEF function_arguments
<1> HIDE DEF f
<1>5. ASSUME NEW i \in DOMAIN arguments_list
      PROVE  /\ arg(i) \in EntryType /\ arg(i).name = arguments_list[i]
             /\ Binds(arg(i), current_scope + 1, f) /\ arg(i).type = "FORMAL"
             /\ arg(i).space = Space /\ arg(i).offset = offset[Space] + i - 1
  <2>1. arguments_list[i] \in Var /\ i \in Nat \ {0}
    BY <1>1
  <2>2. arguments_list[i] \in AllNames /\ arguments_list[i] \notin ToSet(TempNames)
    BY <2>1, NamesApart
  <2>3. "FORMAL" \in VariableTypes /\ current_scope + 1 \in Nat
    BY <1>2 DEF VariableTypes
  <2>4. /\ made(i) \in EntryType /\ made(i).name = arguments_list[i]
        /\ made(i).scope = current_scope + 1 /\ made(i).type = "FORMAL"
        /\ made(i).fn = f /\ ~made(i).func_is_open
    BY <1>3, <2>2, <2>3, EntryIs
  <2>5. offset[Space] + i - 1 \in Nat
    BY <1>1, <2>1
  <2> HIDE DEF made
  <2>6. /\ arg(i) \in EntryType /\ arg(i).name = arguments_list[i]
        /\ arg(i).scope = current_scope + 1 /\ arg(i).type = "FORMAL"
        /\ arg(i).fn = f /\ ~arg(i).func_is_open
        /\ arg(i).space = Space /\ arg(i).offset = offset[Space] + i - 1
    BY <1>1, <2>4, <2>5 DEF EntryType
  <2> HIDE DEF arg
  <2> QED BY <2>2, <2>3, <2>6 DEF Binds, IsTemp
<1> HIDE DEF arg
<1>6. /\ args \in Seq(EntryType) /\ Len(args) = Len(arguments_list)
      /\ \A i \in DOMAIN arguments_list : args[i] = arg(i)
      /\ DOMAIN arguments_list = 1..Len(arguments_list) /\ Len(arguments_list) \in Nat
  <2>1. DOMAIN arguments_list = 1..Len(arguments_list) /\ Len(arguments_list) \in Nat
    BY <1>1
  <2>2. args \in [1..Len(arguments_list) -> EntryType]
    BY <1>5, <2>1
  <2>3. \A i \in DOMAIN arguments_list : args[i] = arg(i)
    OBVIOUS
  <2> HIDE DEF args
  <2>4. args \in Seq(EntryType) /\ Len(args) = Len(arguments_list)
    BY <2>1, <2>2
  <2> QED BY <2>1, <2>3, <2>4
<1> HIDE DEF args
<1>7. /\ entries' \in Seq(EntryType)
      /\ Len(entries') = Len(entries) + Len(arguments_list)
      /\ \A k \in DOMAIN entries : k \in DOMAIN entries' /\ entries'[k] = entries[k]
  <2>1. /\ entries \o args \in Seq(EntryType)
        /\ Len(entries \o args) = Len(entries) + Len(args)
        /\ \A k \in 1..Len(entries) : (entries \o args)[k] = entries[k]
    <3>1. entries \in Seq(EntryType) /\ args \in Seq(EntryType)
      BY <1>1, <1>6
    <3> QED BY ONLY <3>1
  <2>2. entries' \in Seq(EntryType) /\ Len(entries') = Len(entries) + Len(arguments_list)
    BY <1>4, <1>6, <2>1
  <2>3. ASSUME NEW k \in DOMAIN entries
        PROVE  k \in DOMAIN entries' /\ entries'[k] = entries[k]
    <3>1. k \in 1..Len(entries) /\ Len(entries) \in Nat
      BY <1>1, EntriesAre
    <3>2. k \in DOMAIN entries'
      BY <1>6, <2>2, <3>1, EntriesAre
    <3> QED BY <1>4, <2>1, <3>1, <3>2
  <2> QED BY <2>2, <2>3
<1>8. ASSUME NEW k \in DOMAIN entries', k \notin DOMAIN entries
      PROVE  k - Len(entries) \in DOMAIN arguments_list
             /\ entries'[k] = arg(k - Len(entries))
  <2>1. k \in (Len(entries) + 1)..(Len(entries) + Len(args)) /\ Len(entries) \in Nat
    BY <1>1, <1>6, <1>7, <1>8, EntriesAre
  <2>2. k - Len(entries) \in DOMAIN arguments_list
    BY <1>6, <2>1
  <2>3. entries'[k] = args[k - Len(entries)]
    BY <1>1, <1>4, <1>6, <2>1, ConcatProperties
  <2> QED BY <1>6, <2>2, <2>3
<1> QED BY <1>5, <1>7, <1>8 DEF f

\* The "{" of the body: its function is around this point from here on.
LEMMA BodyOpens ==
  ASSUME Nested, function_arguments
  PROVE  /\ Nested' /\ Top'.kind = "body" /\ Top'.q = Top.q
         /\ Len(ctx') = Len(ctx) /\ Defining(ctx') = Defining(ctx)
         /\ \A i \in Defining(ctx) : ctx'[i].q = ctx[i].q
<1>1. /\ Top.kind = "func" /\ arguments_list' = <<>>
      /\ current_scope' = current_scope + 1
      /\ offset' = argument_offsets(Len(arguments_list))
      /\ ctx' = [ctx EXCEPT ![Len(ctx)].kind = "body"]
      /\ UNCHANGED <<function_offset_stack, nameless_func_count, quads,
                     temp_var_counter>>
  BY DEF function_arguments
<1>2. /\ entries \in Seq(EntryType) /\ Ordered(entries) /\ Shaped(ctx)
      /\ Mirrors(entries, current_scope, ctx) /\ Fits(entries, current_scope)
      /\ Addressed(entries) /\ offset \in [Spaces -> Nat]
      /\ arguments_list \in Seq(Var)
  BY DEF Nested, Ordered, Stacked
<1>3. current_scope \in Nat /\ current_scope = Cardinality(Opening(ctx))
  BY <1>2, NestFinite DEF Mirrors
<1> DEFINE m == Len(ctx)
           f == Top.q[1]
           g == [ctx[m] EXCEPT !.kind = "body"]
<1>4. /\ Top = ctx[m] /\ m \in DOMAIN ctx /\ ctx[m] \in FrameType /\ m \in Nat
      /\ m \in Defining(ctx) /\ ctx[m].kind = "func" /\ DOMAIN ctx = 1..m
      /\ Len(ctx[m].q) = 1
  <2>1. Top = ctx[m] /\ m \in DOMAIN ctx /\ ctx[m] \in FrameType /\ m \in Nat
        /\ DOMAIN ctx = 1..m
    BY <1>2 DEF Shaped, Top, Last
  <2> QED BY <1>1, <1>2, <2>1, ArityIs DEF Shaped, Defining
<1>5. g \in FrameType /\ g.kind = "body" /\ g.q = ctx[m].q
  BY <1>4 DEF FrameType, Kinds
<1>6. /\ Replaced(ctx, ctx', 1, g) /\ Len(ctx') = Len(ctx)
      /\ \A i \in DOMAIN ctx : i # m => ctx'[i] = ctx[i]
      /\ ctx'[m] = g
  <2>1. ctx' = [ctx EXCEPT ![m] = g]
    BY <1>1
  <2> HIDE DEF g
  <2>2. /\ ctx' \in Seq(FrameType) /\ Len(ctx') = m /\ ctx'[m] = g
        /\ \A i \in DOMAIN ctx : i # m => ctx'[i] = ctx[i]
    BY <1>2, <1>4, <1>5, <2>1 DEF Shaped
  <2>3. 1 \in 0..Len(ctx) /\ Len(ctx') = Len(ctx) - 1 + 1
    BY <1>4, <2>2
  <2>4. \A i \in 1..(Len(ctx) - 1) : i \in DOMAIN ctx /\ i # m
    BY <1>4
  <2> HIDE DEF m
  <2> QED BY <2>2, <2>3, <2>4 DEF Replaced, m
<1> HIDE DEF g
<1>7. Shaped(ctx')
  <2>1. Fitting(ctx, 1, g)
    <3>1. 1 < Len(ctx)
      <4>1. Len(ctx) # 1
        BY <1>2, <1>4 DEF Shaped
      <4> QED BY <1>4, <4>1
    <3> QED BY <1>5, <3>1 DEF Fitting
  <2>2. Len(g.q) = Arity(g.kind)
    BY <1>4, <1>5, ArityIs
  <2> QED BY <1>2, <1>6, <2>1, <2>2, ShapeKept
<1>8. Defining(ctx') = Defining(ctx) /\ \A i \in Defining(ctx) : ctx'[i].q = ctx[i].q
  <2>1. DOMAIN ctx' = DOMAIN ctx
    BY <1>1
  <2>2. \A i \in DOMAIN ctx : ctx'[i].q = ctx[i].q
    BY <1>5, <1>6
  <2>3. \A i \in DOMAIN ctx : ctx'[i].kind = ctx[i].kind \/ i = m
    BY <1>6
  <2> QED BY <1>4, <1>5, <1>6, <2>1, <2>2, <2>3 DEF Defining
<1>9. /\ Top'.kind = "body" /\ Top'.q = Top.q
  <2>1. Top' = ctx'[Len(ctx)]
    BY <1>6 DEF Top, Last
  <2> QED BY <1>4, <1>5, <1>6, <2>1
<1>10. /\ f \in DOMAIN entries /\ entries[f].func_is_open /\ f = Len(entries) /\ f \in Nat
       /\ entries[f].scope = Cardinality(Outside(ctx, m))
  <2>1. /\ f \in DOMAIN entries /\ entries[f].func_is_open /\ f = Len(entries)
        /\ entries[f].scope = Cardinality(Outside(ctx, m))
    BY <1>2, <1>4 DEF Mirrors
  <2> QED BY <1>2, <2>1, EntriesAre
<1> HIDE DEF m, f
<1>11. Innermost(entries, current_scope + 1, f)
  <2> SUFFICES ASSUME NEW h \in DOMAIN entries, entries[h].func_is_open
               PROVE  h <= f /\ entries[h].scope < current_scope + 1
    BY <1>10 DEF Innermost
  <2>1. h <= f
    BY <1>2, <1>10, EntriesAre
  <2>2. PICK i \in Defining(ctx) : ctx[i].q[1] = h
    BY <1>2 DEF Mirrors
  <2>3. entries[h].scope = Cardinality(Outside(ctx, i))
    BY <1>2, <2>2 DEF Mirrors
  <2>4. Cardinality(Outside(ctx, i)) <= Cardinality(Opening(ctx))
    <3>1. Outside(ctx, i) \subseteq Opening(ctx)
      BY DEF Outside
    <3> QED BY <1>2, <3>1, NestFinite, FS_Subset
  <2> QED BY <1>2, <1>3, <2>1, <2>3, <2>4, NestFinite
<1>12. /\ entries' \in Seq(EntryType)
       /\ Len(entries') = Len(entries) + Len(arguments_list)
       /\ \A k \in DOMAIN entries : k \in DOMAIN entries' /\ entries'[k] = entries[k]
       /\ \A k \in DOMAIN entries' : k \notin DOMAIN entries =>
            Binds(entries'[k], current_scope + 1, f)
  BY <1>1, FormalsPut DEF f
<1>13. Adds(entries, entries', current_scope + 1, f)
  <2>1. Len(entries) <= Len(entries')
    BY <1>2, <1>12
  <2>2. \A k \in (Len(entries) + 1)..Len(entries') : k \in DOMAIN entries' /\ k \notin DOMAIN entries
    BY <1>2, <1>12, EntriesAre
  <2> QED BY <1>12, <2>1, <2>2 DEF Adds, Like
<1>14. Ordered(entries') /\ Follows(entries, entries')
  <2>1. current_scope + 1 \in Nat
    BY <1>3
  <2> QED BY <1>2, <1>10, <1>11, <1>13, <2>1, OrderedAdds, AddsFollows
<1>15. Fits(entries', current_scope')
  <2> SUFFICES ASSUME NEW k \in DOMAIN entries', entries'[k].isActive
               PROVE  entries'[k].scope <= current_scope + 1
    BY <1>1 DEF Fits
  <2>1. CASE k \in DOMAIN entries
    <3>1. entries[k].scope <= current_scope /\ entries[k].scope \in Nat
          /\ entries'[k].scope = entries[k].scope
      BY <1>2, <1>12, <2>1, EntriesAre DEF Fits
    <3> QED BY <1>3, <3>1
  <2>2. CASE k \notin DOMAIN entries
    BY <1>3, <1>12, <2>2 DEF Binds
  <2> QED BY <2>1, <2>2
<1>16. Addressed(entries')
  BY <1>2, <1>12 DEF Addressed, Binds, VariableTypes
<1>17. Mirrors(entries', current_scope', ctx')
  <2>1. Mirrors(entries', current_scope + 1, ctx')
    BY <1>2, <1>4, <1>5, <1>6, <1>14, MirrorsBody DEF m
  <2> QED BY <1>1, <2>1
<1>18. offset' \in [Spaces -> Nat]
  <2>1. Len(arguments_list) \in Nat
    BY <1>2
  <2> QED BY <1>1, <1>2, <2>1 DEF argument_offsets, Spaces
<1>19. Nested'
  BY <1>1, <1>7, <1>8, <1>14, <1>15, <1>16, <1>17, <1>18 DEF Nested, Stacked
<1> QED BY <1>6, <1>8, <1>9, <1>19

\* The function whose body ends here, and what is known of it.
LEMMA ClosingIs ==
  ASSUME Nested, Top.kind = "body"
  PROVE  LET f == Top.q[1]
         IN  /\ f = CurrentFunction /\ f \in DOMAIN entries /\ f \in Nat \ {0}
             /\ entries[f].func_is_open /\ entries[f].isActive
             /\ entries[f].type = "USERFUNC" /\ ~IsTemp(entries[f])
             /\ entries[f].scope \in Nat /\ current_scope = entries[f].scope + 1
             /\ Innermost(entries, current_scope, f)
             /\ Len(ctx) \in Defining(ctx)
<1> DEFINE m == Len(ctx)
           f == Top.q[1]
<1>1. /\ Shaped(ctx) /\ Mirrors(entries, current_scope, ctx) /\ Ordered(entries)
      /\ entries \in Seq(EntryType)
  BY DEF Nested, Ordered, Stacked
<1>2. /\ Top = ctx[m] /\ m \in Defining(ctx) /\ DOMAIN ctx = 1..m /\ m \in Nat
      /\ ctx[m].kind = "body"
  BY <1>1 DEF Shaped, Top, Last, Defining
<1>3. /\ Innermost(entries, current_scope, CurrentFunction)
      /\ Max(Bodies) \in Defining(ctx) /\ CurrentFunction = ctx[Max(Bodies)].q[1]
      /\ \A i \in Defining(ctx) : Max(Bodies) >= i
  BY <1>2, CurrentIs
<1> HIDE DEF m
<1>4. Max(Bodies) = m
  <2>1. \A i \in Defining(ctx) : i \in Nat /\ i <= m
    BY <1>2 DEF Defining
  <2>2. Max(Bodies) \in Nat /\ Max(Bodies) <= m /\ Max(Bodies) >= m
    BY <1>2, <1>3, <2>1
  <2> QED BY <1>2, <2>2
<1>5. f = CurrentFunction /\ f \in DOMAIN entries /\ entries[f].func_is_open
      /\ entries[f].isActive
  <2>1. f \in DOMAIN entries /\ entries[f].func_is_open /\ entries[f].isActive
    BY <1>1, <1>2 DEF Mirrors
  <2> QED BY <1>2, <1>3, <1>4, <2>1
<1>6. f \in Nat \ {0} /\ entries[f].type = "USERFUNC" /\ ~IsTemp(entries[f])
      /\ entries[f].scope \in Nat
  BY <1>1, <1>5, EntriesAre DEF Ordered, OpenAreFunctions
<1>7. current_scope = entries[f].scope + 1
  <2>1. entries[f].scope = Cardinality(Outside(ctx, m))
    BY <1>1, <1>2 DEF Mirrors
  <2>2. Opening(ctx) = Outside(ctx, m) \union {m} /\ m \notin Outside(ctx, m)
    <3>1. m \in Opening(ctx) /\ \A i \in Opening(ctx) : i \in Nat /\ (i = m \/ i < m)
      BY <1>2 DEF Opening, Defining
    <3>2. \A i \in Outside(ctx, m) : i \in Opening(ctx) /\ i < m
      BY DEF Outside
    <3>3. m \notin Outside(ctx, m)
      BY <1>2, <3>2
    <3>4. \A i \in Opening(ctx) : i = m \/ i \in Outside(ctx, m)
      BY <3>1 DEF Outside
    <3> QED BY <3>1, <3>2, <3>3, <3>4
  <2>3. Cardinality(Opening(ctx)) = Cardinality(Outside(ctx, m)) + 1
    <3>1. IsFiniteSet(Outside(ctx, m))
      BY <1>1, NestFinite
    <3> QED BY <2>2, <3>1, FS_AddElement
  <2> QED BY <1>1, <2>1, <2>3 DEF Mirrors
<1> QED BY <1>2, <1>3, <1>5, <1>6, <1>7 DEF m

\* "}" ends a body: its bindings are hidden, and it is its own function, looked
\* up by name, that is closed.
LEMMA BodyCloses ==
  ASSUME Nested, function_definition
  PROVE  LET f == Top.q[1]
         IN  /\ entries' \in Seq(EntryType) /\ Hides(entries, entries', f)
             /\ Len(entries') = Len(entries)
             /\ entries'[f].offset = offset[Space]
             /\ \A k \in DOMAIN entries :
                  /\ entries'[k].address_list = entries[k].address_list
                  /\ entries'[k].taddress = entries[k].taddress
                  /\ entries[k].scope # current_scope =>
                       entries'[k].isActive = entries[k].isActive
                  /\ entries'[k].isActive => /\ entries[k].scope # current_scope
                                             /\ f < k => IsTemp(entries[k])
<1> DEFINE f == Top.q[1]
           hidden == Sym!Deactivate(entries, current_scope)
           sized == [hidden EXCEPT ![f].offset = offset[Space]]
           g == Sym!Get(sized, sized[f].name)
<1>1. Top.kind = "body" /\ entries' = [sized EXCEPT ![g].func_is_open = FALSE]
  BY DEF function_definition, close_function
<1>2. /\ entries \in Seq(EntryType) /\ Ordered(entries)
      /\ Fits(entries, current_scope) /\ offset \in [Spaces -> Nat]
      /\ offset[Space] \in Nat
  BY SpaceIs DEF Nested, Ordered
<1>3. /\ f \in DOMAIN entries /\ f \in Nat \ {0} /\ entries[f].func_is_open
      /\ entries[f].isActive /\ ~IsTemp(entries[f])
      /\ entries[f].scope \in Nat /\ current_scope = entries[f].scope + 1
  BY <1>1, ClosingIs
<1> HIDE DEF f
<1>4. /\ hidden \in Seq(EntryType) /\ DOMAIN hidden = DOMAIN entries
      /\ Len(hidden) = Len(entries)
      /\ \A k \in DOMAIN entries :
           /\ hidden[k].name = entries[k].name /\ hidden[k].scope = entries[k].scope
           /\ hidden[k].type = entries[k].type /\ hidden[k].space = entries[k].space
           /\ hidden[k].fn = entries[k].fn /\ hidden[k].offset = entries[k].offset
           /\ hidden[k].func_is_open = entries[k].func_is_open
           /\ hidden[k].address_list = entries[k].address_list
           /\ hidden[k].taddress = entries[k].taddress
           /\ entries[k].scope # current_scope => hidden[k] = entries[k]
           /\ entries[k].scope = current_scope => ~hidden[k].isActive
  BY <1>2, <1>3, HiddenIs
<1> HIDE DEF hidden
<1>5. /\ sized \in Seq(EntryType) /\ DOMAIN sized = DOMAIN entries
      /\ Len(sized) = Len(entries) /\ sized[f].offset = offset[Space]
      /\ sized[f] = [hidden[f] EXCEPT !.offset = offset[Space]]
      /\ \A k \in DOMAIN entries : k # f => sized[k] = hidden[k]
  <2> DEFINE e == [hidden[f] EXCEPT !.offset = offset[Space]]
  <2>1. hidden[f] \in EntryType
    BY <1>3, <1>4, EntriesAre
  <2>2. e \in EntryType /\ e.offset = offset[Space]
    BY <1>2, <2>1 DEF EntryType
  <2>3. sized = [hidden EXCEPT ![f] = e]
    OBVIOUS
  <2> HIDE DEF sized, e
  <2>4. /\ sized \in Seq(EntryType) /\ DOMAIN sized = DOMAIN hidden
        /\ Len(sized) = Len(hidden) /\ sized[f] = e
        /\ \A k \in DOMAIN hidden : k # f => sized[k] = hidden[k]
    BY <1>3, <1>4, <2>2, <2>3
  <2> QED BY <1>4, <2>2, <2>4 DEF e
<1> HIDE DEF sized
<1>6. ASSUME NEW k \in DOMAIN entries
      PROVE  /\ sized[k].name = entries[k].name /\ sized[k].scope = entries[k].scope
             /\ sized[k].type = entries[k].type /\ sized[k].space = entries[k].space
             /\ sized[k].fn = entries[k].fn
             /\ k # f => sized[k].offset = entries[k].offset
             /\ sized[k].func_is_open = entries[k].func_is_open
             /\ sized[k].address_list = entries[k].address_list
             /\ sized[k].taddress = entries[k].taddress
             /\ entries[k].scope # current_scope =>
                  sized[k].isActive = entries[k].isActive
             /\ entries[k].scope = current_scope => ~sized[k].isActive
  <2>1. CASE k # f
    BY <1>4, <1>5, <2>1
  <2>2. CASE k = f
    <3>0. entries[f].scope # current_scope
      BY <1>3
    <3>1. hidden[f] \in EntryType /\ hidden[f] = entries[f]
      BY <1>3, <1>4, <3>0, EntriesAre
    <3> DEFINE x == offset[Space]
    <3>2. sized[f] = [hidden[f] EXCEPT !.offset = x]
      BY <1>5
    <3> HIDE DEF x
    <3>3. /\ sized[f].name = hidden[f].name /\ sized[f].scope = hidden[f].scope
          /\ sized[f].type = hidden[f].type /\ sized[f].space = hidden[f].space
          /\ sized[f].fn = hidden[f].fn /\ sized[f].isActive = hidden[f].isActive
          /\ sized[f].func_is_open = hidden[f].func_is_open
          /\ sized[f].address_list = hidden[f].address_list
          /\ sized[f].taddress = hidden[f].taddress
      BY <3>1, <3>2 DEF EntryType
    <3> QED BY <2>2, <3>0, <3>1, <3>3
  <2> QED BY <2>1, <2>2
<1>7. ASSUME NEW k \in DOMAIN entries, sized[k].isActive, f < k
      PROVE  IsTemp(entries[k])
  <2>1. entries[k].scope # current_scope /\ entries[k].isActive
    BY <1>6, <1>7
  <2>2. entries[k].scope <= current_scope
    BY <1>2, <2>1 DEF Fits
  <2>3. entries[f].scope < entries[k].scope \/ IsTemp(entries[k])
    BY <1>2, <1>3, <1>7, <2>1 DEF Ordered, YoungerInside
  <2> QED BY <1>2, <1>3, <2>1, <2>2, <2>3, EntriesAre
<1>8. g = f
  <2> DEFINE S == Sym!Active(sized, sized[f].name)
  <2>1. g = IF S = {} THEN 0 ELSE Max(S)
    BY SymMax DEF Sym!Get, Sym!NewestOf
  <2>2. S = {k \in DOMAIN entries : sized[k].name = sized[f].name /\ sized[k].isActive}
    BY <1>5 DEF Sym!Active
  <2>3. f \in S
    <3>1. entries[f].scope # current_scope
      BY <1>3
    <3> QED BY <1>3, <1>6, <2>2, <3>1
  <2>4. S \subseteq Nat
    BY <1>2, <2>2, EntriesAre
  <2>5. ASSUME NEW k \in S PROVE f >= k
    <3>1. k \in DOMAIN entries /\ k \in Nat /\ entries[k].name = entries[f].name
      BY <1>3, <1>6, <2>2, <2>4
    <3>2. ~(f < k)
      BY <1>3, <1>7, <2>2, <3>1 DEF IsTemp
    <3> QED BY <1>3, <3>1, <3>2
  <2> HIDE DEF S, g
  <2>6. Max(S) = f
    BY <2>3, <2>4, <2>5, MaxIs
  <2> QED BY <2>1, <2>3, <2>6
<1> HIDE DEF g
<1>9. /\ entries' \in Seq(EntryType) /\ DOMAIN entries' = DOMAIN entries
      /\ Len(entries') = Len(entries)
      /\ entries'[f] = [sized[f] EXCEPT !.func_is_open = FALSE]
      /\ \A k \in DOMAIN entries : k # f => entries'[k] = sized[k]
  <2> DEFINE e == [sized[f] EXCEPT !.func_is_open = FALSE]
  <2>1. sized[f] \in EntryType
    BY <1>3, <1>5, EntriesAre
  <2>2. e \in EntryType
    BY <2>1 DEF EntryType
  <2>3. entries' = [sized EXCEPT ![f] = e]
    BY <1>1, <1>8
  <2> HIDE DEF e
  <2>4. /\ entries' \in Seq(EntryType) /\ DOMAIN entries' = DOMAIN sized
        /\ Len(entries') = Len(sized) /\ entries'[f] = e
        /\ \A k \in DOMAIN sized : k # f => entries'[k] = sized[k]
    BY <1>3, <1>5, <2>2, <2>3
  <2> QED BY <1>5, <2>4 DEF e
<1>10. /\ \A k \in DOMAIN entries :
           /\ entries'[k].name = sized[k].name /\ entries'[k].scope = sized[k].scope
           /\ entries'[k].type = sized[k].type /\ entries'[k].space = sized[k].space
           /\ entries'[k].fn = sized[k].fn /\ entries'[k].offset = sized[k].offset
           /\ k # f => entries'[k].func_is_open = sized[k].func_is_open
           /\ entries'[k].isActive = sized[k].isActive
           /\ entries'[k].address_list = sized[k].address_list
           /\ entries'[k].taddress = sized[k].taddress
       /\ ~entries'[f].func_is_open
  <2>1. sized[f] \in EntryType
    BY <1>3, <1>5, EntriesAre
  <2>2. /\ entries'[f].name = sized[f].name /\ entries'[f].scope = sized[f].scope
        /\ entries'[f].type = sized[f].type /\ entries'[f].space = sized[f].space
        /\ entries'[f].fn = sized[f].fn /\ entries'[f].offset = sized[f].offset
        /\ entries'[f].isActive = sized[f].isActive
        /\ entries'[f].address_list = sized[f].address_list
        /\ entries'[f].taddress = sized[f].taddress
        /\ ~entries'[f].func_is_open
    BY <1>9, <2>1 DEF EntryType
  <2> QED BY <1>9, <2>2
<1>11. ASSUME NEW k \in DOMAIN entries
       PROVE  /\ entries'[k].name = entries[k].name /\ entries'[k].scope = entries[k].scope
              /\ entries'[k].type = entries[k].type /\ entries'[k].space = entries[k].space
              /\ entries'[k].fn = entries[k].fn
              /\ k # f => /\ entries'[k].func_is_open = entries[k].func_is_open
                          /\ entries'[k].offset = entries[k].offset
              /\ entries'[k].address_list = entries[k].address_list
              /\ entries'[k].taddress = entries[k].taddress
              /\ entries[k].scope # current_scope =>
                   entries'[k].isActive = entries[k].isActive
              /\ entries[k].scope = current_scope => ~entries'[k].isActive
              /\ entries'[k].isActive => sized[k].isActive
  BY <1>6, <1>10
<1>12. Hides(entries, entries', f)
  BY <1>9, <1>10, <1>11 DEF Hides
<1>13. entries'[f].offset = offset[Space]
  BY <1>3, <1>5, <1>10
<1> QED BY <1>7, <1>9, <1>11, <1>12, <1>13 DEF f

\* ... so that the function around it is current again.
LEMMA FunctionCloses ==
  ASSUME Nested, function_definition
  PROVE  /\ Nested' /\ Top'.kind = "stmt" /\ Len(ctx') = Len(ctx)
         /\ Defining(ctx') = Defining(ctx) \ {Len(ctx)}
         /\ \A i \in Defining(ctx') : ctx'[i] = ctx[i] /\ i < Len(ctx)
<1> DEFINE f == Top.q[1]
           n == Last(function_offset_stack)
<1>1. /\ Top.kind = "body" /\ Reduce(1, <<>>, <<>>)
      /\ current_scope' = current_scope - 1
      /\ offset' = restore_curr_scope_offset(scope_space_counter - 2, n)
      /\ function_offset_stack' = stack_pop(function_offset_stack)
      /\ UNCHANGED <<arguments_list, nameless_func_count, temp_var_counter>>
  BY DEF function_definition
<1>2. /\ Shaped(ctx) /\ Mirrors(entries, current_scope, ctx) /\ Ordered(entries)
      /\ entries \in Seq(EntryType) /\ Fits(entries, current_scope)
      /\ Addressed(entries) /\ offset \in [Spaces -> Nat]
      /\ function_offset_stack \in Seq(Nat)
      /\ Len(function_offset_stack) = Cardinality(Defining(ctx))
  BY DEF Nested, Ordered, Stacked
<1>3. /\ f \in DOMAIN entries /\ f \in Nat \ {0} /\ entries[f].scope \in Nat
      /\ current_scope = entries[f].scope + 1
      /\ Innermost(entries, current_scope, f) /\ Len(ctx) \in Defining(ctx)
  BY <1>1, ClosingIs
<1>4. /\ entries' \in Seq(EntryType) /\ Hides(entries, entries', f)
      /\ Len(entries') = Len(entries)
      /\ \A k \in DOMAIN entries :
           /\ entries'[k].address_list = entries[k].address_list
           /\ entries[k].scope # current_scope =>
                entries'[k].isActive = entries[k].isActive
           /\ entries'[k].isActive => /\ entries[k].scope # current_scope
                                      /\ f < k => IsTemp(entries[k])
  BY BodyCloses
<1> HIDE DEF f, n
<1> DEFINE g == Frame("stmt", <<>>, <<>>, <<>>)
<1>5. /\ g.kind = "stmt" /\ Replaced(ctx, ctx', 1, g) /\ Shaped(ctx')
      /\ Top'.kind = "stmt" /\ ctx[Len(ctx)] = Top
  <2>1. <<>> \in Seq(Nat)
    OBVIOUS
  <2> QED BY <1>1, <1>2, <2>1, TopReduced
<1> HIDE DEF g
<1>6. /\ Defining(ctx') = Defining(ctx) \ {Len(ctx)} /\ Len(ctx') = Len(ctx)
      /\ \A i \in Defining(ctx') : ctx'[i] = ctx[i] /\ i < Len(ctx)
  <2> DEFINE m == Len(ctx)
  <2>1. /\ m = Len(ctx')
        /\ Defining(ctx') = (Defining(ctx) \ {Len(ctx')})
               \union (IF g.kind \in {"body", "func"} THEN {Len(ctx')} ELSE {})
        /\ \A i \in DOMAIN ctx' : i # Len(ctx') => ctx'[i] = ctx[i]
        /\ \A i \in DOMAIN ctx' : i \in Nat /\ i <= Len(ctx') /\ Len(ctx') \in Nat
    BY <1>2, <1>5, TopNest
  <2>2. Defining(ctx') = Defining(ctx) \ {m}
    BY <1>5, <2>1
  <2>3. \A i \in Defining(ctx') : i \in DOMAIN ctx' /\ i # m
    BY <2>2 DEF Defining
  <2> HIDE DEF m
  <2>4. \A i \in Defining(ctx') : ctx'[i] = ctx[i] /\ i < m
    BY <2>1, <2>3 DEF m
  <2> QED BY <2>1, <2>2, <2>4 DEF m
<1>7. Ordered(entries')
  BY <1>2, <1>3, <1>4, OrderedHides DEF Innermost
<1>8. Fits(entries', current_scope')
  <2> SUFFICES ASSUME NEW k \in DOMAIN entries, entries'[k].isActive
               PROVE  entries'[k].scope <= current_scope - 1
    BY <1>1, <1>4 DEF Fits, Hides
  <2>1. /\ entries[k].scope # current_scope /\ entries[k].scope <= current_scope
        /\ entries[k].scope \in Nat /\ entries'[k].scope = entries[k].scope
    BY <1>2, <1>4, EntriesAre DEF Fits, Hides
  <2> QED BY <1>3, <2>1
<1>9. Addressed(entries')
  BY <1>2, <1>4 DEF Addressed, Hides
<1>10. Mirrors(entries', current_scope', ctx')
  <2>1. \A k \in DOMAIN entries :
           /\ k # ctx[Len(ctx)].q[1] =>
                entries'[k].func_is_open = entries[k].func_is_open
           /\ k = ctx[Len(ctx)].q[1] => ~entries'[k].func_is_open
           /\ entries'[k].scope = entries[k].scope
           /\ entries[k].scope # current_scope => entries'[k].isActive = entries[k].isActive
    BY <1>4, <1>5 DEF Hides, f
  <2>2. DOMAIN entries' = DOMAIN entries /\ DOMAIN entries \subseteq Nat
    BY <1>2, <1>4, EntriesAre DEF Hides
  <2>3. Leaves(entries, entries', current_scope, ctx[Len(ctx)].q[1])
    BY <1>4, <2>1, <2>2 DEF Leaves
  <2>4. Mirrors(entries', current_scope - 1, ctx')
    BY <1>1, <1>2, <1>5, <2>3, MirrorsUnbody
  <2> QED BY <1>1, <2>4
<1>11. /\ function_offset_stack' \in Seq(Nat)
       /\ Len(function_offset_stack') = Cardinality(Defining(ctx'))
       /\ n \in Nat
  <2>1. Cardinality(Defining(ctx')) = Cardinality(Defining(ctx)) - 1
    <3>1. IsFiniteSet(Defining(ctx))
      BY <1>2, NestFinite
    <3>2. Cardinality(Defining(ctx) \ {Len(ctx)}) = Cardinality(Defining(ctx)) - 1
      BY <1>3, <3>1, FS_RemoveElement
    <3> QED BY <1>6, <3>2
  <2>2. Len(function_offset_stack) \in Nat \ {0}
    BY <1>2, <1>3, NestFinite, FS_EmptySet
  <2>3. function_offset_stack # <<>>
    BY <1>2, <2>2
  <2>4. function_offset_stack' = Front(function_offset_stack)
    BY <1>1, <2>3 DEF stack_pop
  <2>5. /\ Front(function_offset_stack) \in Seq(Nat) /\ n \in Nat
        /\ Len(Front(function_offset_stack)) = Len(function_offset_stack) - 1
    BY <1>2, <2>2 DEF Front, Last, n
  <2> QED BY <1>2, <2>1, <2>4, <2>5
<1>12. offset' \in [Spaces -> Nat]
  BY <1>1, <1>2, <1>11 DEF restore_curr_scope_offset
<1>13. quads' \in Seq(QuadType)
  <2>1. \E qs, l1, l2 : /\ qs = Append(Patch(quads, l1, next_quad), Quad("funcend", 0))
                        /\ quads' = Patch(qs, l2, next_quad + 1)
    BY DEF function_definition
  <2>2. PICK l1, l2 :
          quads' = Patch(Append(Patch(quads, l1, next_quad), Quad("funcend", 0)),
                         l2, next_quad + 1)
    BY <2>1
  <2>3. Quad("funcend", 0) \in QuadType /\ next_quad \in Nat /\ next_quad + 1 \in Nat
    BY QuadIs, NestedTypes
  <2>4. Patch(quads, l1, next_quad) \in Seq(QuadType)
    BY <2>3, NestedTypes, PatchIs
  <2>5. Append(Patch(quads, l1, next_quad), Quad("funcend", 0)) \in Seq(QuadType)
    BY <2>3, <2>4
  <2> QED BY <2>2, <2>3, <2>5, PatchIs
<1>14. arguments_list = <<>>
  BY <1>1 DEF Nested
<1>15. Nested'
  BY <1>1, <1>5, <1>7, <1>8, <1>9, <1>10, <1>11, <1>12, <1>13, <1>14 DEF Nested, Stacked
<1> QED BY <1>5, <1>6, <1>15
-----------------------------------------------------------------------------
(* The mirror is an invariant *)

\* At first there is the library, in the outermost scope.
LEMMA LibraryIs ==
  ASSUME Init
  PROVE  /\ entries \in Seq(EntryType) /\ Len(entries) = Len(Lib)
         /\ \A k \in DOMAIN entries :
              /\ k \in DOMAIN Lib /\ entries[k].name = Lib[k] /\ Lib[k] \in Names
              /\ entries[k].type = "LIBFUNC" /\ entries[k].scope = 0
              /\ entries[k].fn = 0 /\ entries[k].isActive /\ ~entries[k].func_is_open
              /\ ~IsTemp(entries[k])
<1>1. Lib \in Seq(ToSet(Lib)) /\ Len(Lib) \in Nat /\ DOMAIN Lib = 1..Len(Lib)
  BY NamesAssumption
<1> DEFINE e(k) == Entry(Lib[k], 0, "LIBFUNC", 0)
<1>2. ASSUME NEW k \in DOMAIN Lib
      PROVE  /\ e(k) \in EntryType /\ e(k).name = Lib[k] /\ Lib[k] \in Names
             /\ e(k).type = "LIBFUNC" /\ e(k).scope = 0 /\ e(k).fn = 0 /\ e(k).isActive
             /\ ~e(k).func_is_open /\ ~IsTemp(e(k))
  <2>1. Lib[k] \in Names
    BY <1>1 DEF Names
  <2>2. Lib[k] \in AllNames /\ Lib[k] \notin ToSet(TempNames)
    BY <2>1, NamesApart
  <2> QED BY <2>1, <2>2, EntryIs DEF IsTemp
<1>3. entries = [k \in 1..Len(Lib) |-> e(k)]
  BY DEF Init
<1> HIDE DEF e
<1>4. entries \in [1..Len(Lib) -> EntryType]
  BY <1>1, <1>2, <1>3
<1>5. /\ entries \in Seq(EntryType) /\ Len(entries) = Len(Lib)
      /\ DOMAIN entries = DOMAIN Lib
  BY <1>1, <1>4
<1>6. \A k \in DOMAIN entries : k \in DOMAIN Lib /\ entries[k] = e(k)
  BY <1>1, <1>3, <1>5
<1> QED BY <1>2, <1>5, <1>6

\* At first there is no block and no function.
LEMMA NestedInit == Init => Nested
<1> SUFFICES ASSUME Init PROVE Nested
  OBVIOUS
<1> DEFINE g == Frame("program", <<>>, <<>>, <<>>)
<1>1. ctx = <<g>> /\ current_scope = 0 /\ temp_var_counter = 0
      /\ nameless_func_count = 0 /\ arguments_list = <<>>
      /\ function_offset_stack = <<>> /\ quads = <<>>
  BY DEF Init
<1>2. offset \in [Spaces -> Nat]
  BY DEF Init, Spaces
<1>3. g \in FrameType /\ g.kind = "program" /\ Len(g.q) = Arity(g.kind)
  <2>1. g \in FrameType /\ g.kind = "program" /\ g.q = <<>>
    BY DEF Frame, FrameType, Kinds
  <2> HIDE DEF g
  <2> QED BY <2>1, ArityIs
<1> HIDE DEF g
<1>4. ctx \in Seq(FrameType) /\ Len(ctx) = 1 /\ ctx[1] = g /\ DOMAIN ctx = {1}
  BY <1>1, <1>3
<1>5. Shaped(ctx)
  BY <1>3, <1>4 DEF Shaped
<1>6. Opening(ctx) = {} /\ Defining(ctx) = {}
  BY <1>3, <1>4 DEF Opening, Defining
<1>7. Cardinality(Opening(ctx)) = 0 /\ Cardinality(Defining(ctx)) = 0
  BY <1>6, FS_EmptySet
<1>8. /\ entries \in Seq(EntryType)
      /\ \A k \in DOMAIN entries :
              /\ entries[k].type = "LIBFUNC" /\ entries[k].scope = 0
              /\ entries[k].fn = 0 /\ ~entries[k].func_is_open
              /\ ~IsTemp(entries[k]) /\ k \in Nat \ {0}
  BY LibraryIs, EntriesAre
<1>9. Ordered(entries)
  BY <1>8 DEF Ordered, TempsOutermost, OpenAreFunctions, OlderOutside, YoungerInside,
              OwnersKnown
<1>10. Fits(entries, current_scope) /\ Addressed(entries)
  BY <1>1, <1>8 DEF Fits, Addressed
<1>11. Mirrors(entries, current_scope, ctx)
  BY <1>1, <1>6, <1>7, <1>8 DEF Mirrors
<1>12. quads \in Seq(QuadType) /\ arguments_list \in Seq(Var)
  BY <1>1
<1>13. function_offset_stack \in Seq(Nat) /\ Len(function_offset_stack) = 0
  BY <1>1
<1> QED BY <1>1, <1>2, <1>5, <1>7, <1>9, <1>10, <1>11, <1>12, <1>13 DEF Nested, Stacked

\* Which steps there are: those that open and close nothing, and the others.
LEMMA StepKinds ==
  ASSUME Nested, [Next]_vars
  PROVE  \/ Steady \/ return \/ (\E n \in Var : formal(n))
         \/ block_open \/ block_close
         \/ \E n \in AllNames, named \in BOOLEAN :
              /\ n \notin ToSet(TempNames)
              /\ named => n \in Names
              /\ ~named => n \in ToSet(AnonymousNames)
              /\ function_prefix(n, named)
         \/ function_arguments \/ function_definition
         \/ UNCHANGED vars
<1>1. ASSUME all_statements \/ empty_statement \/ program PROVE Steady
  BY <1>1, PlainSteady
<1>2. ASSUME NEW n \in Var, UseVariable(n) \/ LocalVariable(n) \/ GlobalVariable(n)
      PROVE  Steady
  BY <1>2, VariableSteady
<1>3. ASSUME NEW n \in Var, Assignment(n) PROVE Steady
  BY <1>3, AssignmentSteady
<1>4. Codes \subseteq {0, 1}
  BY DEF Codes
<1>5. ASSUME NEW code \in Codes, if_prefix(code) \/ while_start(code) PROVE Steady
  BY <1>4, <1>5, IfSteady, LoopHeadSteady
<1>6. ASSUME NEW code \in Codes, NEW step \in Codes, for_prefix(code, step) PROVE Steady
  BY <1>4, <1>6, LoopHeadSteady
<1>7. ASSUME if_without_else \/ else_prefix \/ if_else PROVE Steady
  BY <1>7, BranchSteady
<1>8. ASSUME while_statement \/ for_statement PROVE Steady
  BY <1>8, LoopEndSteady
<1>9. ASSUME NEW kind \in {"break", "continue"}, break_or_continue(kind) PROVE Steady
  BY <1>9, JumpSteady
<1>10. ASSUME NEW n \in Fun, function_prefix(n, TRUE)
       PROVE  \E name \in AllNames, named \in BOOLEAN :
                /\ name \notin ToSet(TempNames)
                /\ named => name \in Names
                /\ ~named => name \in ToSet(AnonymousNames)
                /\ function_prefix(name, named)
  BY <1>10, NamesApart
<1>11. ASSUME nameless_func_count < Len(AnonymousNames),
              function_prefix(AnonymousName(nameless_func_count), FALSE)
       PROVE  \E name \in AllNames, named \in BOOLEAN :
                /\ name \notin ToSet(TempNames)
                /\ named => name \in Names
                /\ ~named => name \in ToSet(AnonymousNames)
                /\ function_prefix(name, named)
  <2>1. nameless_func_count \in Nat
    BY DEF Nested
  <2>2. /\ AnonymousName(nameless_func_count) \in AllNames
        /\ AnonymousName(nameless_func_count) \notin ToSet(TempNames)
        /\ AnonymousName(nameless_func_count) \in ToSet(AnonymousNames)
    BY <1>11, <2>1, NamesApart
  <2> QED BY <1>11, <2>2
<1>12. Terminated => UNCHANGED vars
  BY DEF Terminated
<1> QED BY <1>1, <1>2, <1>3, <1>5, <1>6, <1>7, <1>8, <1>9, <1>10, <1>11, <1>12 DEF Next

\* Every step keeps the mirror.
LEMMA NestedStep == Nested /\ [Next]_vars => Nested'
<1> SUFFICES ASSUME Nested, [Next]_vars PROVE Nested'
  OBVIOUS
<1>1. CASE Steady
  BY <1>1, SteadyNested
<1>2. CASE return
  BY <1>2, ReturnNested
<1>3. ASSUME NEW n \in Var, formal(n) PROVE Nested'
  BY <1>3, FormalNested
<1>4. CASE block_open
  BY <1>4, BlockOpens
<1>5. CASE block_close
  BY <1>5, BlockCloses
<1>6. ASSUME NEW n \in AllNames, NEW named \in BOOLEAN, n \notin ToSet(TempNames),
             function_prefix(n, named)
      PROVE  Nested'
  BY <1>6, HeaderOpens
<1>7. CASE function_arguments
  BY <1>7, BodyOpens
<1>8. CASE function_definition
  BY <1>8, FunctionCloses
<1>9. CASE UNCHANGED vars
  BY <1>9, StutterNested DEF vars, tables
<1> QED BY <1>1, <1>2, <1>3, <1>4, <1>5, <1>6, <1>7, <1>8, <1>9, StepKinds
-----------------------------------------------------------------------------
(* What holds of every program *)

\* The bindings mirror the nest from beginning to end.
THEOREM BindingsMirrorTheNest == Spec => []Nested
<1>1. Init => Nested
  BY NestedInit
<1>2. Nested /\ [Next]_vars => Nested'
  BY NestedStep
<1> QED BY <1>1, <1>2, PTL DEF Spec

\* Only the bindings of the blocks around the point the parser has reached can
\* be found (block_close and function_definition hide the others).
THEOREM OnlyScopesAroundAreActive == Spec => []ActiveScopes
<1>1. Nested => ActiveScopes
  <2> SUFFICES ASSUME Nested PROVE ActiveScopes
    OBVIOUS
  <2>1. Mirrors(entries, current_scope, ctx) /\ Fits(entries, current_scope)
    BY DEF Nested
  <2>2. current_scope = Cardinality(Opening(ctx))
    BY <2>1 DEF Mirrors
  <2>3. Opening(ctx) = {i \in DOMAIN ctx : ctx[i].kind \in {"block", "body"}}
    BY DEF Opening
  <2> QED BY <2>1, <2>2, <2>3 DEF ActiveScopes, Fits
<1> QED BY <1>1, BindingsMirrorTheNest, PTL

\* Where a statement starts, the open functions are those around it, and the
\* "last open function" of return is the innermost.
THEOREM OpenFunctionsAreTheNest == Spec => []OpenIffNested
<1>1. Nested => OpenIffNested
  <2> SUFFICES ASSUME Nested, AtStatement
               PROVE  /\ Sym!Opened(entries) = {ctx[i].q[1] : i \in Bodies}
                      /\ Sym!OpenFunc(entries, current_scope) = CurrentFunction
    BY DEF OpenIffNested
  <2> QED BY StartsOutside, OpenIsCurrent
<1> QED BY <1>1, BindingsMirrorTheNest, PTL

\* The access check of primary and assignment refuses a variable exactly when
\* it belongs to another function than the innermost: SymTable_open_func finds
\* a function opened since the variable was bound.
LEMMA AccessIsRight ==
  ASSUME Nested, AtStatement, NEW k \in DOMAIN entries, entries[k].isActive,
         is_variable(k), entries[k].scope \in 1..current_scope
  PROVE  cannot_access(k) <=> entries[k].fn # CurrentFunction
<1> DEFINE c == CurrentFunction
<1>1. /\ Innermost(entries, current_scope, c) /\ c \in Nat /\ current_scope \in Nat
  BY StartsOutside, CurrentIs
<1>2. /\ OpenAreFunctions(entries) /\ OlderOutside(entries) /\ YoungerInside(entries)
      /\ TempsOutermost(entries) /\ OwnersKnown(entries)
      /\ DOMAIN entries \subseteq Nat \ {0}
      /\ \A f \in DOMAIN entries : entries[f].scope \in Nat
  <2>1. Ordered(entries)
    BY DEF Nested
  <2> QED BY <2>1, EntriesAre DEF Ordered
<1> HIDE DEF c
<1>3. ~IsTemp(entries[k])
  BY <1>2 DEF TempsOutermost
<1>4. Newest(entries, k, entries[k].fn)
  BY <1>2, <1>3 DEF OwnersKnown, is_variable
<1>5. ~entries[k].func_is_open
  BY <1>2 DEF OpenAreFunctions, is_variable
<1>6. ASSUME cannot_access(k) PROVE entries[k].fn # c
  <2>1. PICK f \in Sym!Opened(entries) :
           \/ entries[f].scope = entries[k].scope /\ f >= k
           \/ entries[f].scope \in (entries[k].scope + 1)..current_scope
    BY <1>6 DEF cannot_access, Sym!OpenedSince
  <2>2. f \in DOMAIN entries /\ entries[f].func_is_open
    BY DEF Sym!Opened
  <2>3. f # k
    BY <1>5, <2>2
  <2>4. entries[f].scope >= entries[k].scope
    BY <1>2, <2>1, <2>2
  <2>5. f < k => FALSE
    BY <1>2, <1>3, <2>2, <2>4 DEF YoungerInside
  <2>6. k < f /\ f <= c
    BY <1>1, <1>2, <2>2, <2>3, <2>5 DEF Innermost
  <2> QED BY <1>1, <1>2, <1>4, <2>2, <2>6 DEF Newest
<1>7. ASSUME entries[k].fn # c PROVE cannot_access(k)
  <2>1. c # 0
    BY <1>1, <1>2, <1>4, <1>7 DEF Newest, Innermost
  <2>2. c \in DOMAIN entries /\ entries[c].func_is_open /\ c # k
    BY <1>1, <1>5, <2>1 DEF Innermost
  <2>3. ~(c < k)
    <3> SUFFICES ASSUME c < k PROVE FALSE
      OBVIOUS
    <3>1. c <= entries[k].fn
      BY <1>4, <2>2 DEF Newest
    <3>2. entries[k].fn # 0
      BY <1>1, <2>1, <3>1
    <3>3. entries[k].fn <= c /\ entries[k].fn \in Nat
      BY <1>1, <1>2, <1>4, <3>2 DEF Newest, Innermost
    <3> QED BY <1>1, <1>7, <3>1, <3>3
  <2>4. k < c
    BY <1>2, <2>2, <2>3
  <2>5. entries[k].scope <= entries[c].scope /\ entries[c].scope < current_scope
    BY <1>1, <1>2, <2>2, <2>4 DEF OlderOutside, Innermost
  <2>6. \/ entries[c].scope = entries[k].scope /\ c >= k
        \/ entries[c].scope \in (entries[k].scope + 1)..current_scope
    BY <1>1, <1>2, <2>2, <2>4, <2>5
  <2>7. Sym!OpenedSince(entries, k, current_scope)
    BY <2>2, <2>6 DEF Sym!OpenedSince, Sym!Opened
  <2>8. entries[k].scope # 0
    OBVIOUS
  <2> QED BY <2>7, <2>8 DEF cannot_access
<1> QED BY <1>6, <1>7 DEF c

\* Access is refused exactly to the variables of the functions around.
THEOREM AccessMeansOwner == Spec => []AccessRule
<1>1. Nested => AccessRule
  BY AccessIsRight DEF AccessRule
<1> QED BY <1>1, BindingsMirrorTheNest, PTL

-----------------------------------------------------------------------------
(* For every program: no two variables that can be alive together share a    *)
(* slot, and the size recorded for a function's frame counts its locals,     *)
(* whatever functions were nested in it; and in a program without errors no  *)
(* name is bound twice in a scope.                                           *)

VariablesOf(es) == {k \in DOMAIN es : es[k].type \in VariableTypes}
Open(es) == {k \in DOMAIN es : es[k].func_is_open}

\* The locals of function f number n, and each has a slot among the first n.
Locals(es, f) == {k \in VariablesOf(es) : es[k].fn = f /\ es[k].space = "function_local"}
Counted(es, f, n) == /\ Cardinality(Locals(es, f)) = n
                     /\ \A k \in Locals(es, f) : es[k].offset < n

\* Where the entry e lives.
Global(e) == e.space \in {"program_variable", "unset"}
SlotOf(e) == <<IF Global(e) THEN 0 ELSE e.fn,
               IF Global(e) THEN "program_variable" ELSE e.space, e.offset>>

SlotsApart(es) == \A k, l \in VariablesOf(es) : k # l => SlotOf(es[k]) # SlotOf(es[l])
GlobalsBelow(es, n) == \A k \in VariablesOf(es) : Global(es[k]) => es[k].offset < n
ClosedCounted(es) ==
  \A f \in DOMAIN es : (es[f].type = "USERFUNC" /\ ~es[f].func_is_open) =>
                         Counted(es, f, es[f].offset)

\* What the stack of offsets keeps for an open function is the number of locals
\* its surrounding function had when it was opened.
Rank(es, f) == Cardinality({g \in Open(es) : g <= f})
Saved(es, stack) ==
  \A f \in Open(es) : es[f].fn # 0 => Counted(es, es[f].fn, stack[Rank(es, f)])

Slotted(es, globals, stack) == /\ SlotsApart(es) /\ GlobalsBelow(es, globals)
                               /\ ClosedCounted(es) /\ Saved(es, stack)

\* The innermost open function has n locals so far.
Deepest(es, f) == f \in Open(es) /\ \A g \in Open(es) : g <= f
Counts(es, n) == \A f \in Open(es) : Deepest(es, f) => Counted(es, f, n)

Header == Top.kind = "func"

\* The slots handed out, and the counters they are handed out from.
Framed ==
  /\ Slotted(entries, offset["program_variable"], function_offset_stack)
  /\ Cardinality(Open(entries)) = Len(function_offset_stack)
  /\ scope_space_counter = 2 * Len(function_offset_stack) + (IF Header THEN 0 ELSE 1)
  /\ Header => offset["formal_argument"] = 0
  /\ ~Header => Counts(entries, offset["function_local"])
-----------------------------------------------------------------------------
(* Slots, when entries change *)

\* The variables keep their functions and slots; no function is opened.
SameSlots(es, es2) ==
  /\ VariablesOf(es2) = VariablesOf(es)
  /\ \A k \in VariablesOf(es) : /\ es2[k].fn = es[k].fn /\ es2[k].space = es[k].space
                                /\ es2[k].offset = es[k].offset

\* What depends on the slots only.
LEMMA SlotsSame ==
  ASSUME NEW es, NEW es2, SameSlots(es, es2)
  PROVE  /\ SlotsApart(es) => SlotsApart(es2)
         /\ \A n : GlobalsBelow(es, n) => GlobalsBelow(es2, n)
         /\ \A f : Locals(es2, f) = Locals(es, f)
         /\ \A f, n : Counted(es, f, n) => Counted(es2, f, n)
<1>1. \A k \in VariablesOf(es) : /\ Global(es2[k]) <=> Global(es[k])
                                 /\ SlotOf(es2[k]) = SlotOf(es[k])
  BY DEF SameSlots, Global, SlotOf
<1>2. ASSUME NEW f PROVE Locals(es2, f) = Locals(es, f)
  BY DEF SameSlots, Locals
<1>3. ASSUME NEW f, NEW n, Counted(es, f, n) PROVE Counted(es2, f, n)
  <2>1. \A k \in Locals(es, f) : k \in VariablesOf(es)
    BY DEF Locals
  <2> QED BY <1>2, <1>3, <2>1 DEF SameSlots, Counted
<1>4. SlotsApart(es) => SlotsApart(es2)
  BY <1>1 DEF SameSlots, SlotsApart
<1>5. \A n : GlobalsBelow(es, n) => GlobalsBelow(es2, n)
  BY <1>1 DEF SameSlots, GlobalsBelow
<1> QED BY <1>2, <1>3, <1>4, <1>5

\* One more entry.
LEMMA AppendIs ==
  ASSUME NEW es \in Seq(EntryType), NEW e \in EntryType
  PROVE  LET es2 == Append(es, e)
             m == Len(es) + 1
         IN  /\ es2 \in Seq(EntryType) /\ DOMAIN es2 = DOMAIN es \union {m}
             /\ m \notin DOMAIN es /\ m \in Nat \ {0} /\ es2[m] = e
             /\ \A k \in DOMAIN es : es2[k] = es[k] /\ k < m
             /\ e.type \in VariableTypes => VariablesOf(es2) = VariablesOf(es) \union {m}
             /\ e.type \notin VariableTypes => VariablesOf(es2) = VariablesOf(es)
             /\ e.func_is_open => Open(es2) = Open(es) \union {m}
             /\ ~e.func_is_open => Open(es2) = Open(es)
<1> DEFINE es2 == Append(es, e)
           m == Len(es) + 1
<1>1. /\ es2 \in Seq(EntryType) /\ DOMAIN es2 = DOMAIN es \union {m}
      /\ m \notin DOMAIN es /\ m \in Nat \ {0} /\ es2[m] = e
      /\ \A k \in DOMAIN es : es2[k] = es[k] /\ k < m
  OBVIOUS
<1> HIDE DEF es2, m
<1>2. /\ e.type \in VariableTypes => VariablesOf(es2) = VariablesOf(es) \union {m}
      /\ e.type \notin VariableTypes => VariablesOf(es2) = VariablesOf(es)
  BY <1>1 DEF VariablesOf
<1>3. /\ e.func_is_open => Open(es2) = Open(es) \union {m}
      /\ ~e.func_is_open => Open(es2) = Open(es)
  BY <1>1 DEF Open
<1> QED BY <1>1, <1>2, <1>3 DEF es2, m

\* The sets that are counted are finite.
LEMMA SlotsFinite ==
  ASSUME NEW es \in Seq(EntryType)
  PROVE  /\ IsFiniteSet(VariablesOf(es)) /\ IsFiniteSet(Open(es))
         /\ \A f : IsFiniteSet(Locals(es, f))
<1>1. IsFiniteSet(DOMAIN es)
  BY EntriesAre, FS_Interval
<1>2. /\ VariablesOf(es) \subseteq DOMAIN es /\ Open(es) \subseteq DOMAIN es
      /\ \A f : Locals(es, f) \subseteq DOMAIN es
  BY DEF VariablesOf, Open, Locals
<1> QED BY <1>1, <1>2, FS_Subset

\* A variable with a new slot keeps the slots apart.
LEMMA NewSlotApart ==
  ASSUME NEW es \in Seq(EntryType), NEW e \in EntryType, e.type \in VariableTypes,
         SlotsApart(es), \A k \in VariablesOf(es) : SlotOf(es[k]) # SlotOf(e)
  PROVE  SlotsApart(Append(es, e))
<1> DEFINE es2 == Append(es, e)
           m == Len(es) + 1
<1>1. /\ VariablesOf(es2) = VariablesOf(es) \union {m} /\ es2[m] = e
      /\ \A k \in DOMAIN es : es2[k] = es[k]
  BY AppendIs
<1>2. VariablesOf(es) \subseteq DOMAIN es
  BY DEF VariablesOf
<1> HIDE DEF es2, m
<1>3. SlotsApart(es2)
  BY <1>1, <1>2 DEF SlotsApart
<1> QED BY <1>3 DEF es2

\* A variable of the program, or a temporary, takes the next global slot.
LEMMA GlobalPut ==
  ASSUME NEW es \in Seq(EntryType), NEW e \in EntryType, NEW n \in Nat, NEW stack,
         e.type \in VariableTypes, ~e.func_is_open, Global(e), e.offset = n,
         Slotted(es, n, stack)
  PROVE  LET es2 == Append(es, e)
         IN  /\ Slotted(es2, n + 1, stack) /\ Open(es2) = Open(es)
             /\ \A f, c : Counted(es, f, c) => Counted(es2, f, c)
<1> DEFINE es2 == Append(es, e)
           m == Len(es) + 1
<1>1. /\ es2 \in Seq(EntryType) /\ DOMAIN es2 = DOMAIN es \union {m} /\ es2[m] = e
      /\ VariablesOf(es2) = VariablesOf(es) \union {m} /\ Open(es2) = Open(es)
      /\ \A k \in DOMAIN es : es2[k] = es[k]
  BY AppendIs
<1>2. VariablesOf(es) \subseteq DOMAIN es /\ Open(es) \subseteq DOMAIN es
  BY DEF VariablesOf, Open
<1>3. ASSUME NEW k \in VariablesOf(es) PROVE SlotOf(es[k]) # SlotOf(e)
  <2>1. SlotOf(e) = <<0, "program_variable", n>>
    BY DEF SlotOf
  <2>2. CASE Global(es[k])
    <3>1. es[k].offset < n /\ es[k].offset \in Nat
      BY <1>2, <2>2, EntriesAre DEF Slotted, GlobalsBelow
    <3>2. SlotOf(es[k]) = <<0, "program_variable", es[k].offset>>
      BY <2>2 DEF SlotOf
    <3> QED BY <2>1, <3>1, <3>2
  <2>3. CASE ~Global(es[k])
    <3>1. SlotOf(es[k])[2] = es[k].space /\ es[k].space # "program_variable"
      BY <2>3 DEF SlotOf, Global
    <3> QED BY <2>1, <3>1
  <2> QED BY <2>2, <2>3
<1>4. SlotsApart(es2)
  BY <1>3, NewSlotApart DEF Slotted
<1> HIDE DEF es2, m
<1>5. GlobalsBelow(es2, n + 1)
  <2> SUFFICES ASSUME NEW k \in VariablesOf(es2), Global(es2[k])
               PROVE  es2[k].offset < n + 1
    BY DEF GlobalsBelow
  <2>1. CASE k = m
    BY <1>1, <2>1
  <2>2. CASE k \in VariablesOf(es)
    <3>1. es[k].offset < n /\ es[k].offset \in Nat
      BY <1>1, <1>2, <2>2, EntriesAre DEF Slotted, GlobalsBelow
    <3> QED BY <1>1, <1>2, <2>2, <3>1
  <2> QED BY <1>1, <2>1, <2>2
<1>6. ASSUME NEW f PROVE Locals(es2, f) = Locals(es, f)
  BY <1>1, <1>2 DEF Locals, Global
<1>7. ASSUME NEW f, NEW c, Counted(es, f, c) PROVE Counted(es2, f, c)
  <2>1. \A k \in Locals(es, f) : es2[k] = es[k]
    BY <1>1, <1>2 DEF Locals
  <2> QED BY <1>6, <1>7, <2>1 DEF Counted
<1>8. ClosedCounted(es2)
  <2> SUFFICES ASSUME NEW f \in DOMAIN es2, es2[f].type = "USERFUNC", ~es2[f].func_is_open
               PROVE  Counted(es2, f, es2[f].offset)
    BY DEF ClosedCounted
  <2>1. f # m
    BY <1>1 DEF VariableTypes
  <2> QED BY <1>1, <1>7, <2>1 DEF Slotted, ClosedCounted
<1>9. Saved(es2, stack)
  <2> SUFFICES ASSUME NEW f \in Open(es2), es2[f].fn # 0
               PROVE  Counted(es2, es2[f].fn, stack[Rank(es2, f)])
    BY DEF Saved
  <2>1. Rank(es2, f) = Rank(es, f)
    BY <1>1 DEF Rank
  <2>2. es2[f] = es[f] /\ f \in Open(es)
    BY <1>1, <1>2
  <2> QED BY <1>7, <2>1, <2>2 DEF Slotted, Saved
<1>10. Slotted(es2, n + 1, stack)
  BY <1>4, <1>5, <1>8, <1>9 DEF Slotted
<1> QED BY <1>1, <1>7, <1>10 DEF es2

\* A local takes the next slot of the innermost function.
LEMMA LocalPut ==
  ASSUME NEW es \in Seq(EntryType), NEW e \in EntryType, NEW n \in Nat, NEW globals,
         NEW stack, e.type \in VariableTypes, ~e.func_is_open,
         e.space = "function_local", e.fn # 0, e.offset = n,
         Deepest(es, e.fn), Counted(es, e.fn, n), Slotted(es, globals, stack),
         \A k \in DOMAIN es : es[k].fn < k
  PROVE  LET es2 == Append(es, e)
         IN  /\ Slotted(es2, globals, stack) /\ Open(es2) = Open(es)
             /\ Counted(es2, e.fn, n + 1)
<1> DEFINE es2 == Append(es, e)
           m == Len(es) + 1
           c == e.fn
<1>1. /\ es2 \in Seq(EntryType) /\ DOMAIN es2 = DOMAIN es \union {m} /\ es2[m] = e
      /\ VariablesOf(es2) = VariablesOf(es) \union {m} /\ Open(es2) = Open(es)
      /\ \A k \in DOMAIN es : es2[k] = es[k]
      /\ m \notin DOMAIN es
  BY AppendIs
<1>2. VariablesOf(es) \subseteq DOMAIN es /\ Open(es) \subseteq DOMAIN es
  BY DEF VariablesOf, Open
<1>3. ASSUME NEW k \in VariablesOf(es) PROVE SlotOf(es[k]) # SlotOf(e)
  <2>1. SlotOf(e) = <<c, "function_local", n>>
    BY DEF SlotOf, Global
  <2>2. CASE Global(es[k])
    <3>1. SlotOf(es[k]) = <<0, "program_variable", es[k].offset>>
      BY <2>2 DEF SlotOf
    <3> QED BY <2>1, <3>1
  <2>3. CASE ~Global(es[k])
    <3>1. SlotOf(es[k]) = <<es[k].fn, es[k].space, es[k].offset>>
      BY <2>3 DEF SlotOf
    <3>2. (es[k].fn = c /\ es[k].space = "function_local") => es[k].offset < n
      BY DEF Counted, Locals
    <3>3. es[k].offset \in Nat
      BY <1>2, EntriesAre
    <3> QED BY <2>1, <3>1, <3>2, <3>3
  <2> QED BY <2>2, <2>3
<1>4. SlotsApart(es2)
  BY <1>3, NewSlotApart DEF Slotted
<1> HIDE DEF es2, m
<1>5. GlobalsBelow(es2, globals)
  BY <1>1, <1>2 DEF Slotted, GlobalsBelow, Global
<1>6. ASSUME NEW f, NEW q, f # c, Counted(es, f, q) PROVE Counted(es2, f, q)
  <2>1. Locals(es2, f) = Locals(es, f)
    BY <1>1, <1>2, <1>6 DEF Locals
  <2>2. \A k \in Locals(es, f) : es2[k] = es[k]
    BY <1>1, <1>2 DEF Locals
  <2> QED BY <1>6, <2>1, <2>2 DEF Counted
<1>7. Counted(es2, c, n + 1)
  <2>1. Locals(es2, c) = Locals(es, c) \union {m} /\ m \notin Locals(es, c)
    BY <1>1, <1>2 DEF Locals
  <2>2. Cardinality(Locals(es2, c)) = n + 1
    BY <2>1, SlotsFinite, FS_AddElement DEF Counted
  <2>3. ASSUME NEW k \in Locals(es2, c) PROVE es2[k].offset < n + 1
    <3>1. CASE k = m
      BY <1>1, <3>1
    <3>2. CASE k \in Locals(es, c)
      <4>1. es[k].offset < n /\ es2[k] = es[k] /\ k \in DOMAIN es
        BY <1>1, <1>2, <3>2 DEF Counted, Locals
      <4>2. es[k].offset \in Nat
        BY <4>1, EntriesAre
      <4> QED BY <4>1, <4>2
    <3> QED BY <2>1, <3>1, <3>2
  <2> QED BY <2>2, <2>3 DEF Counted
<1>8. ClosedCounted(es2)
  <2> SUFFICES ASSUME NEW f \in DOMAIN es2, es2[f].type = "USERFUNC", ~es2[f].func_is_open
               PROVE  Counted(es2, f, es2[f].offset)
    BY DEF ClosedCounted
  <2>1. f # m
    BY <1>1 DEF VariableTypes
  <2>2. f # c
    BY <1>1, <2>1 DEF Deepest, Open
  <2>3. es2[f] = es[f] /\ f \in DOMAIN es
    BY <1>1, <2>1
  <2> QED BY <1>6, <2>2, <2>3 DEF Slotted, ClosedCounted
<1>9. Saved(es2, stack)
  <2> SUFFICES ASSUME NEW f \in Open(es2), es2[f].fn # 0
               PROVE  Counted(es2, es2[f].fn, stack[Rank(es2, f)])
    BY DEF Saved
  <2>1. Rank(es2, f) = Rank(es, f)
    BY <1>1 DEF Rank
  <2>2. es2[f] = es[f] /\ f \in Open(es)
    BY <1>1, <1>2
  <2>3. es[f].fn # c
    <3>1. es[f].fn < f /\ f <= c /\ es[f].fn \in Nat /\ f \in Nat /\ c \in Nat
      BY <1>2, <2>2, EntriesAre DEF Deepest
    <3> QED BY <3>1
  <2> QED BY <1>6, <2>1, <2>2, <2>3 DEF Slotted, Saved
<1>10. Slotted(es2, globals, stack)
  BY <1>4, <1>5, <1>8, <1>9 DEF Slotted
<1> QED BY <1>1, <1>7, <1>10 DEF es2
-----------------------------------------------------------------------------
(* Slots, step by step *)

\* Where statements start, and where they end, the current space is that of the
\* innermost function's locals, or the program's.
LEMMA SpaceOfCurrent ==
  ASSUME Nested, Framed, ~Header
  PROVE  /\ CurrentFunction = 0 => Space = "program_variable"
         /\ CurrentFunction # 0 => /\ Space = "function_local"
                                   /\ scope_space_counter - 2 \in Nat
                                   /\ Deepest(entries, CurrentFunction)
                                   /\ Len(function_offset_stack) > 0
         /\ offset["program_variable"] \in Nat /\ offset["function_local"] \in Nat
<1>1. /\ Innermost(entries, current_scope, CurrentFunction)
      /\ Cardinality(Open(entries)) = Len(function_offset_stack)
      /\ scope_space_counter = 2 * Len(function_offset_stack) + 1
      /\ function_offset_stack \in Seq(Nat) /\ offset \in [Spaces -> Nat]
      /\ entries \in Seq(EntryType)
  BY CurrentIs DEF Header, Framed, Nested, Ordered
<1>2. offset["program_variable"] \in Nat /\ offset["function_local"] \in Nat
  BY <1>1 DEF Spaces
<1> DEFINE d == Len(function_offset_stack)
<1>3. d \in Nat /\ IsFiniteSet(Open(entries))
  BY <1>1, SlotsFinite
<1> HIDE DEF d
<1>4. ASSUME CurrentFunction = 0 PROVE Space = "program_variable"
  <2>1. \A g \in DOMAIN entries : g \in Nat \ {0}
    BY <1>1, EntriesAre
  <2>2. Open(entries) = {}
    BY <1>1, <1>4, <2>1 DEF Open, Innermost
  <2>3. d = 0
    BY <1>1, <1>3, <2>2, FS_EmptySet DEF d
  <2>4. scope_space_counter = 1
    BY <1>1, <2>3 DEF d
  <2> QED BY <2>4 DEF Space
<1>5. ASSUME CurrentFunction # 0
      PROVE  /\ Space = "function_local" /\ scope_space_counter - 2 \in Nat
             /\ Deepest(entries, CurrentFunction) /\ d > 0
  <2>1. Deepest(entries, CurrentFunction)
    BY <1>1, <1>5 DEF Innermost, Deepest, Open
  <2>2. Open(entries) # {}
    BY <2>1 DEF Deepest
  <2>3. Cardinality(Open(entries)) # 0
    BY <1>3, <2>2, FS_EmptySet
  <2>4. d > 0
    BY <1>1, <1>3, <2>3 DEF d
  <2>5. scope_space_counter = 2 * d + 1
    BY <1>1 DEF d
  <2>6. scope_space_counter # 1 /\ scope_space_counter % 2 = 1
        /\ scope_space_counter - 2 \in Nat
    BY <1>3, <2>4, <2>5
  <2> QED BY <2>1, <2>4, <2>6 DEF Space
<1> QED BY <1>2, <1>4, <1>5 DEF d

\* A put takes the next slot of its space.
LEMMA PutFrames ==
  ASSUME NEW es, NEW os \in [Spaces -> Nat], NEW es2, NEW os2, NEW stack,
         Ordered(es), Innermost(es, current_scope, CurrentFunction),
         CurrentFunction = 0 => Space = "program_variable",
         CurrentFunction # 0 => Space = "function_local",
         Slotted(es, os["program_variable"], stack),
         Counts(es, os["function_local"]), Puts(es, os, es2, os2)
  PROVE  /\ Slotted(es2, os2["program_variable"], stack)
         /\ Counts(es2, os2["function_local"]) /\ Open(es2) = Open(es)
<1>1. /\ es \in Seq(EntryType) /\ os["program_variable"] \in Nat
      /\ os["function_local"] \in Nat /\ \A k \in DOMAIN es : es[k].fn < k
      /\ OpenAreFunctions(es)
  BY DEF Ordered, Spaces
<1>2. ASSUME NEW e \in EntryType, es2 = Append(es, e), os2 = Bump(os, "program_variable"),
             e.type \in VariableTypes, ~e.func_is_open, Global(e),
             e.offset = os["program_variable"]
      PROVE  /\ Slotted(es2, os2["program_variable"], stack)
             /\ Counts(es2, os2["function_local"]) /\ Open(es2) = Open(es)
  <2>1. /\ os2["program_variable"] = os["program_variable"] + 1
        /\ os2["function_local"] = os["function_local"]
    BY <1>2 DEF Bump, Spaces
  <2>2. /\ Slotted(es2, os2["program_variable"], stack) /\ Open(es2) = Open(es)
        /\ \A f, c : Counted(es, f, c) => Counted(es2, f, c)
    BY <1>1, <1>2, <2>1, GlobalPut
  <2> QED BY <2>1, <2>2 DEF Counts, Deepest
<1>3. ASSUME NEW e \in EntryType, es2 = Append(es, e), os2 = Bump(os, "function_local"),
             e.type \in VariableTypes, ~e.func_is_open, e.space = "function_local",
             e.fn = CurrentFunction, CurrentFunction # 0,
             e.offset = os["function_local"]
      PROVE  /\ Slotted(es2, os2["program_variable"], stack)
             /\ Counts(es2, os2["function_local"]) /\ Open(es2) = Open(es)
  <2>1. /\ os2["program_variable"] = os["program_variable"]
        /\ os2["function_local"] = os["function_local"] + 1
    BY <1>3 DEF Bump, Spaces
  <2>2. Deepest(es, e.fn)
    BY <1>3 DEF Innermost, Deepest, Open
  <2>3. Counted(es, e.fn, os["function_local"])
    BY <2>2 DEF Counts, Deepest
  <2>4. /\ Slotted(es2, os2["program_variable"], stack) /\ Open(es2) = Open(es)
        /\ Counted(es2, e.fn, os2["function_local"])
    BY <1>1, <1>3, <2>1, <2>2, <2>3, LocalPut
  <2>5. ASSUME NEW f, Deepest(es, f) PROVE f = e.fn
    <3>1. \A g \in Open(es) : g \in Nat
      BY <1>1, EntriesAre DEF Open
    <3> QED BY <2>2, <2>5, <3>1 DEF Deepest
  <2> QED BY <2>4, <2>5 DEF Counts, Deepest
<1>4. CASE es2 = es /\ os2 = os
  BY <1>4
<1>5. CASE BindsHere(es, os, es2, os2)
  <2>1. PICK e \in EntryType : /\ es2 = Append(es, e) /\ os2 = Bump(os, Space)
                               /\ Binds(e, current_scope, CurrentFunction)
                               /\ e.space = Space /\ e.offset = os[Space]
    BY <1>5 DEF BindsHere
  <2>2. e.type \in VariableTypes /\ ~e.func_is_open /\ e.fn = CurrentFunction
    BY <2>1 DEF Binds
  <2>3. CASE CurrentFunction = 0
    BY <1>2, <2>1, <2>2, <2>3 DEF Global
  <2>4. CASE CurrentFunction # 0
    BY <1>3, <2>1, <2>2, <2>4
  <2> QED BY <2>3, <2>4
<1>6. CASE BindsTemp(es, os, es2, os2)
  <2>1. PICK e \in EntryType :
               /\ es2 = Append(es, e) /\ os2 = Bump(os, "program_variable")
               /\ TempEntry(e) /\ e.offset = os["program_variable"]
    BY <1>6 DEF BindsTemp
  <2>2. e.type \in VariableTypes /\ ~e.func_is_open /\ Global(e)
    BY <2>1 DEF TempEntry, Global, VariableTypes
  <2> QED BY <1>2, <2>1, <2>2
<1> QED BY <1>4, <1>5, <1>6 DEF Puts

\* A statement that opens and closes nothing takes the slots in turn.
LEMMA SteadyFramed ==
  ASSUME Nested, Framed, Steady
  PROVE  Framed'
<1>1. PICK es, os : Puts(entries, offset, es, os) /\ Puts(es, os, entries', offset')
  BY DEF Steady, SteadyTables
<1>2. ~Header /\ Shaped(ctx') /\ SameNest(ctx, ctx') /\ Shaped(ctx)
  BY DEF Steady, SteadyStack, Header, Nested, Stacked
<1>3. /\ current_scope \in Nat /\ CurrentFunction \in Nat
      /\ Innermost(entries, current_scope, CurrentFunction)
      /\ \A i \in Defining(ctx) : ctx[i].kind # "func"
  BY <1>2, CurrentIs DEF Header, Bodies
<1>4. /\ Ordered(entries) /\ Fits(entries, current_scope) /\ Addressed(entries)
      /\ Mirrors(entries, current_scope, ctx) /\ offset \in [Spaces -> Nat]
  BY DEF Nested
<1>5. /\ Ordered(es) /\ os \in [Spaces -> Nat]
      /\ Innermost(es, current_scope, CurrentFunction)
  BY <1>1, <1>3, <1>4, SameNestSelf, PutKeeps
<1>6. /\ CurrentFunction = 0 => Space = "program_variable"
      /\ CurrentFunction # 0 => Space = "function_local"
  BY <1>2, SpaceOfCurrent
<1>7. /\ Slotted(entries, offset["program_variable"], function_offset_stack)
      /\ Counts(entries, offset["function_local"])
  BY <1>2 DEF Framed
<1>8. /\ Slotted(es, os["program_variable"], function_offset_stack)
      /\ Counts(es, os["function_local"]) /\ Open(es) = Open(entries)
  BY <1>1, <1>3, <1>4, <1>6, <1>7, PutFrames
<1>9. /\ Slotted(entries', offset'["program_variable"], function_offset_stack)
      /\ Counts(entries', offset'["function_local"]) /\ Open(entries') = Open(es)
  BY <1>1, <1>5, <1>6, <1>8, PutFrames
<1>10. UNCHANGED <<scope_space_counter, function_offset_stack>>
  BY DEF Steady, SteadyTables
<1>11. ~Header'
  <2> SUFFICES ASSUME ctx'[Len(ctx')].kind = "func" PROVE FALSE
    BY DEF Header, Top, Last
  <2>1. Len(ctx') \in DOMAIN ctx'
    BY <1>2 DEF Shaped
  <2>2. Len(ctx') \in Defining(ctx)
    BY <1>2, <2>1 DEF SameNest, Defining
  <2> QED BY <1>2, <1>3, <2>2 DEF SameNest
<1> QED BY <1>2, <1>8, <1>9, <1>10, <1>11 DEF Framed

\* The entries keep their slots, and the open functions stay open.
SlotsKept(es, es2) ==
  /\ DOMAIN es2 = DOMAIN es
  /\ \A k \in DOMAIN es : /\ es2[k].type = es[k].type /\ es2[k].space = es[k].space
                          /\ es2[k].fn = es[k].fn /\ es2[k].offset = es[k].offset
                          /\ es2[k].func_is_open = es[k].func_is_open

\* A step that hands out no slot.
LEMMA KeptFramed ==
  ASSUME Framed, SlotsKept(entries, entries'),
         UNCHANGED <<offset, function_offset_stack, scope_space_counter>>,
         Header' <=> Header
  PROVE  Framed'
<1>1. SameSlots(entries, entries')
  BY DEF SlotsKept, SameSlots, VariablesOf
<1>2. Open(entries') = Open(entries)
  BY DEF SlotsKept, Open
<1>3. \A f, n : Counted(entries, f, n) => Counted(entries', f, n)
  BY <1>1, SlotsSame
<1>4. ClosedCounted(entries')
  BY <1>3 DEF Framed, Slotted, ClosedCounted, SlotsKept
<1>5. Saved(entries', function_offset_stack)
  <2>1. \A f \in Open(entries) : /\ Rank(entries', f) = Rank(entries, f)
                                 /\ entries'[f].fn = entries[f].fn
    BY <1>2 DEF Rank, SlotsKept, Open
  <2> QED BY <1>2, <1>3, <2>1 DEF Framed, Slotted, Saved
<1>6. Slotted(entries', offset["program_variable"], function_offset_stack)
  BY <1>1, <1>4, <1>5, SlotsSame DEF Framed, Slotted
<1>7. \A n : Counts(entries, n) => Counts(entries', n)
  BY <1>2, <1>3 DEF Counts, Deepest
<1> QED BY <1>2, <1>6, <1>7 DEF Framed

\* What "{", "}", return and an argument leave in place.
LEMMA BlockFramed ==
  ASSUME Nested, Framed, block_open \/ block_close
  PROVE  Framed'
<1>1. UNCHANGED <<offset, function_offset_stack, scope_space_counter>>
  BY DEF block_open, block_close
<1>2. CASE block_open
  <2>1. ~Header /\ entries' = entries
    BY <1>2, StartsOutside DEF block_open, Start, Header
  <2>2. Top'.kind = "block"
    <3>1. ctx' = Append(ctx, Frame("block", <<>>, <<>>, <<>>)) /\ ctx \in Seq(FrameType)
      BY <1>2 DEF block_open, Push, Nested, Stacked, Shaped
    <3>2. Frame("block", <<>>, <<>>, <<>>).kind = "block"
      BY DEF Frame
    <3> HIDE DEF Frame
    <3> QED BY <3>1, <3>2 DEF Top, Last
  <2>3. SlotsKept(entries, entries')
    BY <2>1 DEF SlotsKept
  <2> QED BY <1>1, <2>1, <2>2, <2>3, KeptFramed DEF Header
<1>3. CASE block_close
  <2>1. Hides(entries, entries', 0) /\ ~Header' /\ ~Header /\ entries \in Seq(EntryType)
    BY <1>3, BlockCloses DEF block_close, Header, Nested, Ordered
  <2>2. \A k \in DOMAIN entries : k # 0
    BY <2>1, EntriesAre
  <2>3. SlotsKept(entries, entries')
    BY <2>1, <2>2 DEF Hides, SlotsKept
  <2> QED BY <1>1, <2>1, <2>3, KeptFramed
<1> QED BY <1>2, <1>3

\* A return puts a label in a list.
LEMMA ReturnFramed ==
  ASSUME Nested, Framed, return
  PROVE  Framed'
<1>1. /\ ~Header /\ UNCHANGED <<offset, function_offset_stack, scope_space_counter>>
      /\ entries \in Seq(EntryType) /\ ctx \in Seq(FrameType)
  BY StartsOutside DEF return, Start, Header, Nested, Ordered, Stacked, Shaped
<1>2. \/ entries' = entries
      \/ \E f, l : entries' = [entries EXCEPT ![f].address_list = l]
  BY DEF return
<1>3. ASSUME NEW f, NEW l, entries' = [entries EXCEPT ![f].address_list = l]
      PROVE  SlotsKept(entries, entries')
  <2>1. \A k \in DOMAIN entries : entries[k] \in EntryType
    BY <1>1, EntriesAre
  <2> QED BY <1>3, <2>1 DEF SlotsKept, EntryType
<1>4. SlotsKept(entries, entries')
  BY <1>2, <1>3 DEF SlotsKept
<1>5. ~Header'
  <2>1. ctx' = ctx \/ ctx' = Append(ctx, Frame("stmt", <<>>, <<>>, <<>>))
    BY DEF return, NULL_Statement, Statement, Push
  <2>2. Frame("stmt", <<>>, <<>>, <<>>).kind = "stmt"
    BY DEF Frame
  <2> HIDE DEF Frame
  <2> QED BY <1>1, <2>1, <2>2 DEF Header, Top, Last
<1> QED BY <1>1, <1>4, <1>5, KeptFramed

\* A function name: the locals of the function around it are saved.
LEMMA HeaderFramed ==
  ASSUME Nested, Framed, NEW n \in AllNames, n \notin ToSet(TempNames),
         NEW named \in BOOLEAN, function_prefix(n, named)
  PROVE  Framed'
<1>1. /\ ~Header /\ function_offset_stack' = Append(function_offset_stack, offset[Space])
      /\ offset' = [offset EXCEPT !["formal_argument"] = 0]
      /\ scope_space_counter' = scope_space_counter + 1
  BY StartsOutside DEF function_prefix, Start, Header, enter_scope_space
<1>2. /\ entries \in Seq(EntryType) /\ offset \in [Spaces -> Nat]
      /\ function_offset_stack \in Seq(Nat) /\ offset[Space] \in Nat
  BY SpaceIs DEF Nested, Ordered
<1>3. Header'
  BY HeaderOpens DEF Header
<1>4. PICK e : Heads(e)
  BY HeaderOpens
<1> DEFINE m == Len(entries) + 1
           d == Len(function_offset_stack)
<1>5. /\ entries' \in Seq(EntryType) /\ DOMAIN entries' = DOMAIN entries \union {m}
      /\ m \notin DOMAIN entries /\ m \in Nat \ {0} /\ entries'[m] = e
      /\ \A k \in DOMAIN entries : entries'[k] = entries[k] /\ k < m
      /\ VariablesOf(entries') = VariablesOf(entries)
      /\ Open(entries') = Open(entries) \union {m}
  <2>1. e \in EntryType /\ entries' = Append(entries, e) /\ e.func_is_open
        /\ e.type \notin VariableTypes
    BY <1>4 DEF Heads, VariableTypes
  <2> QED BY <1>2, <2>1, AppendIs
<1>6. /\ VariablesOf(entries) \subseteq DOMAIN entries
      /\ Open(entries) \subseteq DOMAIN entries
  BY DEF VariablesOf, Open
<1>7. /\ Len(function_offset_stack') = d + 1 /\ function_offset_stack'[d + 1] = offset[Space]
      /\ \A i \in 1..d : function_offset_stack'[i] = function_offset_stack[i]
      /\ d \in Nat
  BY <1>1, <1>2
<1> HIDE DEF m
<1>8. /\ IsFiniteSet(Open(entries)) /\ Cardinality(Open(entries)) = d
  BY <1>2, SlotsFinite DEF Framed
<1> HIDE DEF d
<1>9. Cardinality(Open(entries')) = d + 1
  BY <1>5, <1>6, <1>8, FS_AddElement
<1>10. SameSlots(entries, entries')
  BY <1>5, <1>6 DEF SameSlots
<1>11. \A f, c : Counted(entries, f, c) => Counted(entries', f, c)
  BY <1>10, SlotsSame
<1>12. ClosedCounted(entries')
  <2> SUFFICES ASSUME NEW f \in DOMAIN entries', entries'[f].type = "USERFUNC",
                      ~entries'[f].func_is_open
               PROVE  Counted(entries', f, entries'[f].offset)
    BY DEF ClosedCounted
  <2>1. f # m
    BY <1>4, <1>5 DEF Heads
  <2> QED BY <1>5, <1>11, <2>1 DEF Framed, Slotted, ClosedCounted
<1>13. Saved(entries', function_offset_stack')
  <2> SUFFICES ASSUME NEW f \in Open(entries'), entries'[f].fn # 0
               PROVE  Counted(entries', entries'[f].fn,
                              function_offset_stack'[Rank(entries', f)])
    BY DEF Saved
  <2>1. CASE f = m
    <3>1. {g \in Open(entries') : g <= f} = Open(entries')
      BY <1>5, <1>6, <2>1
    <3>2. Rank(entries', f) = d + 1
      BY <1>9, <3>1 DEF Rank
    <3>3. entries'[f].fn = CurrentFunction
      BY <1>4, <1>5, <2>1 DEF Heads
    <3>4. Counted(entries, CurrentFunction, offset[Space])
      BY <1>1, <3>3, SpaceOfCurrent DEF Framed, Counts, Deepest
    <3> QED BY <1>7, <1>11, <3>2, <3>3, <3>4
  <2>2. CASE f # m
    <3>1. f \in Open(entries) /\ entries'[f] = entries[f] /\ f < m
      BY <1>5, <1>6, <2>2
    <3>2. {g \in Open(entries') : g <= f} = {g \in Open(entries) : g <= f}
      <4>1. ~(m <= f)
        BY <1>2, <1>5, <1>6, <3>1, EntriesAre
      <4> QED BY <1>5, <4>1
    <3>3. Rank(entries', f) = Rank(entries, f)
      BY <3>2 DEF Rank
    <3>4. Rank(entries, f) \in 1..d
      <4> DEFINE S == {g \in Open(entries) : g <= f}
      <4>1. S \subseteq Open(entries) /\ f \in S
        BY <1>2, <1>6, <3>1, EntriesAre
      <4>2. IsFiniteSet(S) /\ Cardinality(S) <= Cardinality(Open(entries))
        BY <1>8, <4>1, FS_Subset
      <4>3. Cardinality(S) \in Nat /\ Cardinality(S) # 0
        BY <4>1, <4>2, FS_EmptySet, FS_CardinalityType
      <4>4. Rank(entries, f) = Cardinality(S)
        BY DEF Rank
      <4> HIDE DEF S
      <4> QED BY <1>7, <1>8, <4>2, <4>3, <4>4
    <3>5. Counted(entries, entries[f].fn, function_offset_stack[Rank(entries, f)])
      BY <3>1 DEF Framed, Slotted, Saved
    <3> QED BY <1>7, <1>11, <3>1, <3>3, <3>4, <3>5
  <2> QED BY <2>1, <2>2
<1>14. offset'["program_variable"] = offset["program_variable"]
       /\ offset'["formal_argument"] = 0
  BY <1>1, <1>2 DEF Spaces
<1>15. Slotted(entries', offset'["program_variable"], function_offset_stack')
  BY <1>10, <1>12, <1>13, <1>14, SlotsSame DEF Framed, Slotted
<1>16. scope_space_counter' = 2 * Len(function_offset_stack')
  BY <1>1, <1>7 DEF Framed, d
<1>17. Cardinality(Open(entries')) = Len(function_offset_stack')
  BY <1>7, <1>9
<1> QED BY <1>3, <1>14, <1>15, <1>16, <1>17 DEF Framed

\* What a header says of its function: it is the newest entry.
LEMMA HeaderIs ==
  ASSUME Nested, Header
  PROVE  /\ Top.q[1] = Len(entries) /\ Top.q[1] \in Open(entries)
         /\ entries \in Seq(EntryType) /\ \A k \in DOMAIN entries : entries[k].fn < k
<1>1. /\ Shaped(ctx) /\ Mirrors(entries, current_scope, ctx) /\ entries \in Seq(EntryType)
      /\ \A k \in DOMAIN entries : entries[k].fn < k
  BY DEF Nested, Ordered, Stacked
<1>2. Top = ctx[Len(ctx)] /\ Len(ctx) \in DOMAIN ctx
  BY <1>1 DEF Shaped, Top, Last
<1>3. Len(ctx) \in Defining(ctx) /\ ctx[Len(ctx)].kind = "func"
  BY <1>2 DEF Header, Defining
<1>4. /\ Top.q[1] \in DOMAIN entries /\ entries[Top.q[1]].func_is_open
      /\ Top.q[1] = Len(entries)
  BY <1>1, <1>2, <1>3 DEF Mirrors
<1> QED BY <1>1, <1>4 DEF Open

\* The formals are put in slots of their own; the locals start from the first.
LEMMA BodyFramed ==
  ASSUME Nested, Framed, function_arguments
  PROVE  Framed'
<1> DEFINE f == Top.q[1]
           n == Len(entries)
<1>1. /\ Header /\ scope_space_counter' = scope_space_counter + 1
      /\ offset' = argument_offsets(Len(arguments_list))
      /\ UNCHANGED function_offset_stack
  BY DEF function_arguments, enter_scope_space, Header
<1>2. /\ f = n /\ f \in Open(entries) /\ entries \in Seq(EntryType)
      /\ \A k \in DOMAIN entries : entries[k].fn < k
  BY <1>1, HeaderIs
<1>3. /\ n \in Nat /\ DOMAIN entries = 1..n /\ f \in Nat \ {0}
      /\ offset \in [Spaces -> Nat] /\ function_offset_stack \in Seq(Nat)
      /\ \A k \in DOMAIN entries : k \in Nat \ {0} /\ k <= n /\ entries[k].fn \in Nat
  BY <1>2, EntriesAre DEF Open, Nested
<1> HIDE DEF f, n
<1>4. Space = "formal_argument"
  <2>1. scope_space_counter = 2 * Len(function_offset_stack)
        /\ Len(function_offset_stack) \in Nat
    BY <1>1, <1>3 DEF Framed
  <2>2. scope_space_counter # 1 /\ scope_space_counter % 2 = 0
    BY <2>1
  <2> QED BY <2>2 DEF Space
<1>5. offset[Space] = 0
  BY <1>1, <1>4 DEF Framed
<1>6. /\ entries' \in Seq(EntryType)
      /\ \A k \in DOMAIN entries : k \in DOMAIN entries' /\ entries'[k] = entries[k]
      /\ \A k \in DOMAIN entries' : k \notin DOMAIN entries =>
              LET i == k - Len(entries)
                  e == entries'[k]
              IN  /\ i \in DOMAIN arguments_list /\ e.name = arguments_list[i]
                  /\ Binds(e, current_scope + 1, Top.q[1]) /\ e.type = "FORMAL"
                  /\ e.space = Space /\ e.offset = offset[Space] + i - 1
  BY <1>1, FormalsPut DEF Header
<1>7. ASSUME NEW k \in DOMAIN entries', k \notin DOMAIN entries
      PROVE  /\ entries'[k].fn = f /\ entries'[k].type = "FORMAL"
             /\ entries'[k].space = "formal_argument" /\ ~entries'[k].func_is_open
             /\ entries'[k].offset = k - n - 1 /\ k \in Nat
  <2>1. k \in Nat
    BY <1>6, EntriesAre
  <2>2. /\ entries'[k].offset = 0 + (k - n) - 1
        /\ Binds(entries'[k], current_scope + 1, f) /\ entries'[k].type = "FORMAL"
        /\ entries'[k].space = "formal_argument"
    BY <1>4, <1>5, <1>6, <1>7 DEF f, n
  <2> QED BY <1>3, <2>1, <2>2 DEF Binds
<1>8. /\ VariablesOf(entries) \subseteq DOMAIN entries
      /\ Open(entries) \subseteq DOMAIN entries
      /\ \A k \in VariablesOf(entries') : /\ k \in DOMAIN entries'
                                          /\ k \in DOMAIN entries => k \in VariablesOf(entries)
      /\ \A k \in VariablesOf(entries) : k \in VariablesOf(entries')
  BY <1>6 DEF VariablesOf, Open
<1>9. SlotsApart(entries')
  <2>1. ASSUME NEW k \in DOMAIN entries', k \notin DOMAIN entries
        PROVE  SlotOf(entries'[k]) = <<f, "formal_argument", k - n - 1>>
    BY <1>7, <2>1 DEF SlotOf, Global
  <2>2. ASSUME NEW k \in VariablesOf(entries), NEW l \in DOMAIN entries',
               l \notin DOMAIN entries
        PROVE  SlotOf(entries'[k]) # SlotOf(entries'[l])
    <3>1. entries'[k] = entries[k] /\ entries[k].fn # f
      BY <1>2, <1>3, <1>6, <1>8
    <3>2. SlotOf(entries[k])[1] # f
      BY <1>3, <3>1 DEF SlotOf
    <3> QED BY <2>1, <2>2, <3>1, <3>2
  <2>3. ASSUME NEW k \in DOMAIN entries', NEW l \in DOMAIN entries',
               k \notin DOMAIN entries, l \notin DOMAIN entries, k # l
        PROVE  SlotOf(entries'[k]) # SlotOf(entries'[l])
    <3>1. k - n - 1 # l - n - 1
      BY <1>3, <1>7, <2>3
    <3> QED BY <2>1, <2>3, <3>1
  <2>4. ASSUME NEW k \in VariablesOf(entries), NEW l \in VariablesOf(entries), k # l
        PROVE  SlotOf(entries'[k]) # SlotOf(entries'[l])
    BY <1>6, <1>8, <2>4 DEF Framed, Slotted, SlotsApart
  <2> QED BY <1>8, <2>2, <2>3, <2>4 DEF SlotsApart
<1>10. GlobalsBelow(entries', offset'["program_variable"])
  <2>1. offset'["program_variable"] = offset["program_variable"]
    BY <1>1, <1>3 DEF argument_offsets, Spaces
  <2>2. \A k \in VariablesOf(entries') : Global(entries'[k]) => k \in VariablesOf(entries)
    BY <1>7, <1>8 DEF Global
  <2> QED BY <1>6, <1>8, <2>1, <2>2 DEF Framed, Slotted, GlobalsBelow
<1>11. ASSUME NEW g PROVE Locals(entries', g) = Locals(entries, g)
  <2>1. \A k \in VariablesOf(entries') :
          entries'[k].space = "function_local" => k \in VariablesOf(entries)
    BY <1>7, <1>8
  <2> QED BY <1>6, <1>8, <2>1 DEF Locals
<1>12. ASSUME NEW g, NEW c, Counted(entries, g, c) PROVE Counted(entries', g, c)
  <2>1. \A k \in Locals(entries, g) : entries'[k] = entries[k]
    BY <1>6, <1>8 DEF Locals
  <2> QED BY <1>11, <1>12, <2>1 DEF Counted
<1>13. ClosedCounted(entries')
  BY <1>6, <1>7, <1>12 DEF Framed, Slotted, ClosedCounted
<1>14. Open(entries') = Open(entries)
  BY <1>6, <1>7 DEF Open
<1>15. Saved(entries', function_offset_stack')
  <2>1. \A g \in Open(entries) : /\ Rank(entries', g) = Rank(entries, g)
                                 /\ entries'[g] = entries[g]
    BY <1>6, <1>8, <1>14 DEF Rank
  <2> QED BY <1>1, <1>12, <1>14, <2>1 DEF Framed, Slotted, Saved
<1>16. Counts(entries', offset'["function_local"])
  <2>1. offset'["function_local"] = 0
    BY <1>1, <1>3 DEF argument_offsets, Spaces
  <2>2. Locals(entries', f) = {}
    <3>1. \A k \in VariablesOf(entries) : entries[k].fn # f
      BY <1>2, <1>3, <1>8
    <3> QED BY <1>11, <3>1 DEF Locals
  <2>3. Counted(entries', f, 0)
    BY <2>2, FS_EmptySet DEF Counted
  <2>4. ASSUME NEW g \in Open(entries), Deepest(entries', g) PROVE g = f
    BY <1>2, <1>3, <1>8, <1>14, <2>4 DEF Deepest
  <2> QED BY <1>14, <2>1, <2>3, <2>4 DEF Counts
<1>17. ~Header'
  BY BodyOpens DEF Header
<1>18. Slotted(entries', offset'["program_variable"], function_offset_stack')
  BY <1>9, <1>10, <1>13, <1>15 DEF Slotted
<1>19. scope_space_counter' = 2 * Len(function_offset_stack') + 1
  BY <1>1 DEF Framed
<1> QED BY <1>1, <1>14, <1>16, <1>17, <1>18, <1>19 DEF Framed

\* An argument read takes no slot yet.
LEMMA FormalFramed ==
  ASSUME Framed, NEW n \in Var, formal(n)
  PROVE  Framed'
<1>1. UNCHANGED <<entries, offset, function_offset_stack, scope_space_counter, ctx>>
  BY DEF formal
<1> QED BY <1>1 DEF Framed, Header, Top

\* "}" ends a body: the size of its frame is recorded, and the function around
\* it goes on where it was.
LEMMA DefinitionFramed ==
  ASSUME Nested, Framed, function_definition
  PROVE  Framed'
<1> DEFINE f == Top.q[1]
           d == Len(function_offset_stack)
<1>1. /\ Top.kind = "body" /\ ~Header
      /\ scope_space_counter' = scope_space_counter - 2
      /\ offset' = restore_curr_scope_offset(scope_space_counter - 2,
                                             Last(function_offset_stack))
      /\ function_offset_stack' = stack_pop(function_offset_stack)
  BY DEF function_definition, Header
<1>2. /\ entries \in Seq(EntryType) /\ OwnersKnown(entries)
      /\ offset \in [Spaces -> Nat] /\ function_offset_stack \in Seq(Nat)
      /\ DOMAIN entries \subseteq Nat \ {0}
  BY EntriesAre DEF Nested, Ordered
<1>3. /\ f = CurrentFunction /\ f \in DOMAIN entries /\ f \in Nat \ {0}
      /\ entries[f].func_is_open /\ entries[f].isActive
      /\ entries[f].type = "USERFUNC" /\ ~IsTemp(entries[f])
      /\ Innermost(entries, current_scope, f)
  BY <1>1, ClosingIs
<1>4. /\ entries' \in Seq(EntryType) /\ Hides(entries, entries', f)
      /\ entries'[f].offset = offset[Space]
  BY BodyCloses
<1>5. ~Header'
  BY FunctionCloses DEF Header
<1>6. Space = "function_local" /\ Deepest(entries, f) /\ d > 0
  BY <1>1, <1>3, SpaceOfCurrent
<1> HIDE DEF f
<1>7. /\ IsFiniteSet(Open(entries)) /\ Cardinality(Open(entries)) = d /\ d \in Nat
      /\ Open(entries) \subseteq DOMAIN entries
  <2>1. Cardinality(Open(entries)) = d
    BY DEF Framed
  <2>2. d \in Nat
    BY <1>2
  <2>3. IsFiniteSet(Open(entries))
    BY <1>2, SlotsFinite
  <2>4. Open(entries) \subseteq DOMAIN entries
    BY DEF Open
  <2> QED BY <2>1, <2>2, <2>3, <2>4
<1>8. scope_space_counter = 2 * d + 1
  BY <1>1 DEF Framed
<1>9. /\ Len(function_offset_stack') = d - 1
      /\ \A i \in 1..(d - 1) : function_offset_stack'[i] = function_offset_stack[i]
      /\ Last(function_offset_stack) = function_offset_stack[d]
  <2>1. function_offset_stack # <<>>
    BY <1>6
  <2>2. function_offset_stack' = SubSeq(function_offset_stack, 1, d - 1)
    BY <1>1, <2>1 DEF stack_pop, Front
  <2> QED BY <1>2, <1>6, <1>7, <2>2 DEF Last
<1> HIDE DEF d
<1>10. /\ Open(entries') = Open(entries) \ {f} /\ f \in Open(entries)
       /\ Cardinality(Open(entries')) = d - 1
  <2>1. Open(entries') = Open(entries) \ {f}
    BY <1>3, <1>4 DEF Open, Hides
  <2>2. f \in Open(entries)
    BY <1>3 DEF Open
  <2> QED BY <1>7, <2>1, <2>2, FS_RemoveElement
<1>11. \A g \in Open(entries') : g < f /\ g \in Nat \ {0} /\ g \in Open(entries)
  <2> SUFFICES ASSUME NEW g \in Open(entries') PROVE g < f /\ g \in Nat \ {0}
    BY <1>10
  <2> QED BY <1>2, <1>3, <1>6, <1>7, <1>10 DEF Deepest
<1>12. SameSlots(entries, entries')
  BY <1>3, <1>4 DEF Hides, SameSlots, VariablesOf, VariableTypes
<1>13. \A g, c : Counted(entries, g, c) => Counted(entries', g, c)
  BY <1>12, SlotsSame
<1>14. Counted(entries, f, offset[Space])
  BY <1>1, <1>6, <1>10 DEF Framed, Counts
<1>15. ClosedCounted(entries')
  <2> SUFFICES ASSUME NEW g \in DOMAIN entries', entries'[g].type = "USERFUNC",
                      ~entries'[g].func_is_open
               PROVE  Counted(entries', g, entries'[g].offset)
    BY DEF ClosedCounted
  <2>1. CASE g = f
    BY <1>4, <1>13, <1>14, <2>1
  <2>2. CASE g # f
    <3>1. /\ g \in DOMAIN entries /\ entries[g].type = "USERFUNC"
          /\ ~entries[g].func_is_open /\ entries'[g].offset = entries[g].offset
      BY <1>4, <2>2 DEF Hides
    <3> QED BY <1>13, <3>1 DEF Framed, Slotted, ClosedCounted
  <2> QED BY <2>1, <2>2
<1>16. ASSUME NEW g \in Open(entries')
       PROVE  Rank(entries', g) = Rank(entries, g) /\ Rank(entries, g) \in 1..(d - 1)
  <2> DEFINE S == {h \in Open(entries) : h <= g}
  <2>1. {h \in Open(entries') : h <= g} = S
    <3>1. ~(f <= g)
      BY <1>3, <1>11
    <3> QED BY <1>10, <3>1
  <2>2. S \subseteq Open(entries') /\ g \in S
    BY <1>11, <2>1
  <2>3. IsFiniteSet(Open(entries'))
    BY <1>4, SlotsFinite
  <2>4. IsFiniteSet(S) /\ Cardinality(S) <= d - 1
    BY <1>10, <2>2, <2>3, FS_Subset
  <2>5. Cardinality(S) \in Nat /\ Cardinality(S) # 0
    BY <2>2, <2>4, FS_EmptySet, FS_CardinalityType
  <2>6. Rank(entries', g) = Cardinality(S) /\ Rank(entries, g) = Cardinality(S)
    BY <2>1 DEF Rank
  <2> HIDE DEF S
  <2> QED BY <1>7, <2>4, <2>5, <2>6
<1>17. Saved(entries', function_offset_stack')
  <2> SUFFICES ASSUME NEW g \in Open(entries'), entries'[g].fn # 0
               PROVE  Counted(entries', entries'[g].fn,
                              function_offset_stack'[Rank(entries', g)])
    BY DEF Saved
  <2>1. g \in Open(entries) /\ entries'[g].fn = entries[g].fn
    BY <1>4, <1>7, <1>11 DEF Hides
  <2>2. Counted(entries, entries[g].fn, function_offset_stack[Rank(entries, g)])
    BY <2>1 DEF Framed, Slotted, Saved
  <2> QED BY <1>9, <1>13, <1>16, <2>1, <2>2
<1>18. offset'["program_variable"] = offset["program_variable"]
  BY <1>1, <1>2 DEF restore_curr_scope_offset, Spaces
<1>19. Slotted(entries', offset'["program_variable"], function_offset_stack')
  BY <1>12, <1>15, <1>17, <1>18, SlotsSame DEF Framed, Slotted
<1>20. Counts(entries', offset'["function_local"])
  <2> SUFFICES ASSUME NEW g \in Open(entries'), Deepest(entries', g)
               PROVE  Counted(entries', g, offset'["function_local"])
    BY DEF Counts
  <2>1. d - 1 # 0
    <3>1. 1..(d - 1) # {}
      BY <1>16
    <3> QED BY <1>7, <3>1
  <2>2. scope_space_counter - 2 # 1
    BY <1>6, <1>7, <1>8, <2>1 DEF d
  <2>3. offset'["function_local"] = function_offset_stack[d]
    BY <1>1, <1>2, <1>9, <2>2 DEF restore_curr_scope_offset, Spaces
  <2>4. Rank(entries, f) = d
    <3>1. {h \in Open(entries) : h <= f} = Open(entries)
      BY <1>6 DEF Deepest
    <3> QED BY <1>7, <3>1 DEF Rank
  <2>5. Newest(entries, f, entries[f].fn)
    BY <1>2, <1>3 DEF OwnersKnown
  <2>6. g <= entries[f].fn
    BY <1>11, <2>5 DEF Newest, Open
  <2>7. entries[f].fn # 0
    BY <1>11, <2>6
  <2>8. entries[f].fn \in Open(entries')
    BY <1>2, <1>3, <1>10, <2>5, <2>7 DEF Newest, Open
  <2>9. entries[f].fn = g
    BY <1>11, <2>6, <2>8 DEF Deepest
  <2>10. Counted(entries, g, function_offset_stack[d])
    BY <1>10, <2>4, <2>7, <2>9 DEF Framed, Slotted, Saved
  <2> QED BY <1>13, <2>3, <2>10
<1>21. scope_space_counter' = 2 * Len(function_offset_stack') + 1
  BY <1>1, <1>7, <1>8, <1>9
<1>22. Cardinality(Open(entries')) = Len(function_offset_stack')
  BY <1>9, <1>10
<1> QED BY <1>5, <1>19, <1>20, <1>21, <1>22 DEF Framed
-----------------------------------------------------------------------------
(* What holds of every program *)

\* At first there are no variables and no open functions.
LEMMA FramedInit == Init => Framed
<1> SUFFICES ASSUME Init PROVE Framed
  OBVIOUS
<1>1. /\ scope_space_counter = 1 /\ function_offset_stack = <<>>
      /\ ctx = <<Frame("program", <<>>, <<>>, <<>>)>>
  BY DEF Init
<1>2. ~Header
  <2>1. Frame("program", <<>>, <<>>, <<>>).kind = "program"
    BY DEF Frame
  <2> HIDE DEF Frame
  <2> QED BY <1>1, <2>1 DEF Header, Top, Last
<1>3. VariablesOf(entries) = {} /\ Open(entries) = {}
  BY LibraryIs DEF VariablesOf, VariableTypes, Open
<1>4. Slotted(entries, offset["program_variable"], function_offset_stack)
  <2>1. SlotsApart(entries) /\ GlobalsBelow(entries, offset["program_variable"])
    BY <1>3 DEF SlotsApart, GlobalsBelow
  <2>2. ClosedCounted(entries)
    BY LibraryIs DEF ClosedCounted
  <2>3. Saved(entries, function_offset_stack)
    BY <1>3 DEF Saved
  <2> QED BY <2>1, <2>2, <2>3 DEF Slotted
<1>5. Counts(entries, offset["function_local"])
  BY <1>3 DEF Counts
<1>6. Cardinality(Open(entries)) = 0 /\ Len(function_offset_stack) = 0
  BY <1>1, <1>3, FS_EmptySet
<1> QED BY <1>1, <1>2, <1>4, <1>5, <1>6 DEF Framed

\* Every step keeps the slots and the counters.
LEMMA FramedStep == Nested /\ Framed /\ [Next]_vars => Framed'
<1> SUFFICES ASSUME Nested, Framed, [Next]_vars PROVE Framed'
  OBVIOUS
<1>1. CASE Steady
  BY <1>1, SteadyFramed
<1>2. CASE return
  BY <1>2, ReturnFramed
<1>3. ASSUME NEW n \in Var, formal(n) PROVE Framed'
  BY <1>3, FormalFramed
<1>4. CASE block_open \/ block_close
  BY <1>4, BlockFramed
<1>5. ASSUME NEW n \in AllNames, NEW named \in BOOLEAN, n \notin ToSet(TempNames),
             function_prefix(n, named)
      PROVE  Framed'
  BY <1>5, HeaderFramed
<1>6. CASE function_arguments
  BY <1>6, BodyFramed
<1>7. CASE function_definition
  BY <1>7, DefinitionFramed
<1>8. CASE UNCHANGED vars
  BY <1>8 DEF vars, tables, Framed, Header, Top
<1> QED BY <1>1, <1>2, <1>3, <1>4, <1>5, <1>6, <1>7, <1>8, StepKinds

\* The slots and the counters fit each other from beginning to end.
THEOREM FramesFitTheirLocals == Spec => []Framed
<1>1. Init => Framed
  BY FramedInit
<1>2. Nested /\ Framed /\ [Next]_vars => Framed'
  BY FramedStep
<1> QED BY <1>1, <1>2, BindingsMirrorTheNest, PTL DEF Spec

\* No two variables of the program, no two formals and no two locals of one
\* function share a slot (enter_scope_space and restore_curr_scope_offset around
\* nested functions).
THEOREM SlotsAreDistinct == Spec => []SlotsDistinct
<1>1. Framed => SlotsDistinct
  <2> SUFFICES ASSUME Framed PROVE SlotsDistinct
    OBVIOUS
  <2>1. Variables = VariablesOf(entries)
    BY DEF Variables, VariablesOf, is_variable, VariableTypes
  <2>2. \A k \in DOMAIN entries : Slot(k) = SlotOf(entries[k])
    BY DEF Slot, SlotOf, Global
  <2>3. SlotsApart(entries)
    BY DEF Framed, Slotted
  <2>4. VariablesOf(entries) \subseteq DOMAIN entries
    BY DEF VariablesOf
  <2> QED BY <2>1, <2>2, <2>3, <2>4 DEF SlotsDistinct, SlotsApart
<1> QED BY <1>1, FramesFitTheirLocals, PTL

\* The number of locals recorded for a closed function, the size of its frame,
\* is the number declared in all its blocks.
THEOREM FrameSizesAreRight == Spec => []FrameSize
<1>1. Framed => FrameSize
  <2> SUFFICES ASSUME Framed, NEW f \in DOMAIN entries, entries[f].type = "USERFUNC",
                      ~entries[f].func_is_open
               PROVE  entries[f].offset = Cardinality({k \in Variables :
                        entries[k].fn = f /\ entries[k].space = "function_local"})
    BY DEF FrameSize
  <2>1. Variables = VariablesOf(entries)
    BY DEF Variables, VariablesOf, is_variable, VariableTypes
  <2>2. Counted(entries, f, entries[f].offset)
    BY DEF Framed, Slotted, ClosedCounted
  <2>3. {k \in Variables : entries[k].fn = f /\ entries[k].space = "function_local"}
          = Locals(entries, f)
    BY <2>1 DEF Locals
  <2> QED BY <2>2, <2>3 DEF Counted
<1> QED BY <1>1, FramesFitTheirLocals, PTL
-----------------------------------------------------------------------------
(* One binding of a name in a scope *)

\* The functions of the library stay where they were put first ...
LibraryKept(es) ==
  \A k \in DOMAIN Lib : /\ k \in DOMAIN es /\ es[k].name = Lib[k] /\ es[k].isActive
                        /\ es[k].scope = 0 /\ es[k].type = "LIBFUNC"

\* ... nothing else has their names, ...
LibraryAlone(es) == \A k \in DOMAIN es : es[k].name \in ToSet(Lib) => k \in DOMAIN Lib

\* ... and no name of the program can be found twice in one scope.
OnePerScope(es) ==
  \A k, l \in DOMAIN es :
    (/\ es[k].isActive /\ es[l].isActive /\ es[k].name \in Names
     /\ es[k].name = es[l].name /\ es[k].scope = es[l].scope) => k = l

\* The arguments read so far are different names, none of the library.
ArgumentsApart == /\ \A i, j \in DOMAIN arguments_list :
                       arguments_list[i] = arguments_list[j] => i = j
                  /\ \A i \in DOMAIN arguments_list : arguments_list[i] \notin ToSet(Lib)

\* A binding made where there is none of that name.
FreshIn(es, e) ==
  e.name \in Names =>
    /\ e.name \notin ToSet(Lib)
    /\ \A k \in DOMAIN es : es[k].isActive /\ es[k].name = e.name => es[k].scope # e.scope

Unique(es) == LibraryAlone(es) /\ OnePerScope(es)

Bound == /\ LibraryKept(entries)
         /\ IR_GEN_FAILED \in BOOLEAN
         /\ ~IR_GEN_FAILED => Unique(entries) /\ ArgumentsApart

\* Symbols takes its minimum from the same place as well.
LEMMA SymMin == \A S : Sym!Min(S) = Min(S)
BY DEF Sym!Min, Min

\* SymTable_get_entry_at_scope finds an entry when there is one.
LEMMA NoneAtScope ==
  ASSUME NEW es \in Seq(EntryType), NEW n, NEW s, Sym!EntryAtScope(es, n, s) = 0
  PROVE  Sym!ActiveAt(es, n, s) = {}
<1> DEFINE A == Sym!ActiveAt(es, n, s)
<1>1. A \subseteq Nat \ {0}
  <2>1. A \subseteq DOMAIN es
    BY DEF Sym!ActiveAt, Sym!Active
  <2> QED BY <2>1, EntriesAre
<1>2. A # {} => Sym!EntryAtScope(es, n, s) = Min(A)
  BY SymMin DEF Sym!EntryAtScope, Sym!OldestOf
<1> HIDE DEF A
<1>3. A # {} => Min(A) \in A
  BY <1>1, MinIsFirst
<1> QED BY <1>1, <1>2, <1>3 DEF A

\* SymTable_get_closest_scope finds an entry when one can be found at all.
LEMMA NoneAround ==
  ASSUME NEW es \in Seq(EntryType), NEW s \in Nat, Fits(es, s), NEW n,
         Sym!ClosestScope(es, n, s) = 0
  PROVE  Sym!Active(es, n) = {}
<1> DEFINE visible == {k \in Sym!Active(es, n) : es[k].scope <= s}
           T == {es[k].scope : k \in visible}
<1>1. \A k \in Sym!Active(es, n) : k \in DOMAIN es /\ es[k].scope \in Nat /\ es[k].scope <= s
  BY EntriesAre DEF Sym!Active, Fits
<1>2. visible = Sym!Active(es, n) /\ T \subseteq 0..s
  BY <1>1
<1>3. ASSUME visible # {} PROVE FALSE
  <2>1. T # {}
    BY <1>3
  <2>2. Max(T) \in T
    <3> HIDE DEF T
    <3> QED BY <1>2, <2>1, MaxIsLast
  <2>3. Sym!ClosestScope(es, n, s) = Sym!EntryAtScope(es, n, Max(T))
    BY <1>3, SymMax DEF Sym!ClosestScope
  <2>4. Sym!ActiveAt(es, n, Max(T)) = {}
    BY <2>3, NoneAtScope
  <2>5. PICK k \in visible : es[k].scope = Max(T)
    BY <2>2
  <2>6. k \in Sym!ActiveAt(es, n, Max(T))
    BY <2>5 DEF Sym!ActiveAt
  <2> QED BY <2>4, <2>6
<1> QED BY <1>2, <1>3

\* A library function that nothing else is named like is found, by any lookup.
LEMMA LibraryFound ==
  ASSUME NEW es \in Seq(EntryType), LibraryKept(es), LibraryAlone(es), NEW n \in ToSet(Lib)
  PROVE  \E k \in DOMAIN es :
           /\ Sym!Active(es, n) = {k} /\ Sym!ActiveAt(es, n, 0) = {k}
           /\ es[k].type = "LIBFUNC" /\ k \in Nat \ {0}
           /\ Sym!Get(es, n) = k /\ Sym!EntryAtScope(es, n, 0) = k
           /\ Sym!Contains(es, n, 0)
<1>1. PICK k \in DOMAIN Lib : Lib[k] = n
  BY DEF ToSet
<1>2. /\ k \in DOMAIN es /\ es[k].name = n /\ es[k].isActive /\ es[k].scope = 0
      /\ es[k].type = "LIBFUNC"
  BY <1>1 DEF LibraryKept
<1>3. ASSUME NEW l \in DOMAIN es, es[l].name = n PROVE l = k
  <2>1. l \in DOMAIN Lib /\ Lib[l] = n
    BY <1>3 DEF LibraryKept, LibraryAlone
  <2> QED BY <1>1, <2>1, NamesAssumption DEF IsInjective
<1>4. Sym!Active(es, n) = {k} /\ Sym!ActiveAt(es, n, 0) = {k}
  BY <1>2, <1>3 DEF Sym!Active, Sym!ActiveAt
<1>5. k \in Nat \ {0}
  BY <1>2, EntriesAre
<1>6. Max({k}) = k /\ Min({k}) = k
  <2> DEFINE S == {k}
  <2>1. S \subseteq Nat /\ k \in S /\ \A y \in S : k >= y /\ k <= y
    BY <1>5
  <2> HIDE DEF S
  <2>2. Max(S) = k
    BY <2>1, MaxIs
  <2>3. Min(S) = k
    BY <2>1, MinIs
  <2> QED BY <2>2, <2>3 DEF S
<1>7. Sym!Get(es, n) = k /\ Sym!EntryAtScope(es, n, 0) = k
  BY <1>4, <1>6, SymMax, SymMin DEF Sym!Get, Sym!NewestOf, Sym!EntryAtScope, Sym!OldestOf
<1> QED BY <1>2, <1>4, <1>5, <1>7 DEF Sym!Contains

\* Appending a fresh binding keeps what there is unique.
LEMMA AppendUnique ==
  ASSUME NEW es \in Seq(EntryType), NEW e \in EntryType, FreshIn(es, e)
  PROVE  /\ LibraryKept(es) => LibraryKept(Append(es, e))
         /\ Unique(es) => Unique(Append(es, e))
<1> DEFINE es2 == Append(es, e)
           m == Len(es) + 1
<1>1. /\ DOMAIN es2 = DOMAIN es \union {m} /\ m \notin DOMAIN es /\ es2[m] = e
      /\ \A k \in DOMAIN es : es2[k] = es[k]
  BY EntriesAre
<1>2. ToSet(Lib) \subseteq Names
  BY DEF Names
<1> HIDE DEF es2, m
<1>3. LibraryKept(es) => LibraryKept(es2)
  BY <1>1 DEF LibraryKept
<1>4. LibraryAlone(es) => LibraryAlone(es2)
  BY <1>1, <1>2 DEF LibraryAlone, FreshIn
<1>5. ASSUME OnePerScope(es), NEW k \in DOMAIN es2, NEW l \in DOMAIN es2,
             es2[k].isActive, es2[l].isActive, es2[k].name \in Names,
             es2[k].name = es2[l].name, es2[k].scope = es2[l].scope
      PROVE  k = l
  BY <1>1, <1>5 DEF OnePerScope, FreshIn
<1>6. OnePerScope(es) => OnePerScope(es2)
  BY <1>5 DEF OnePerScope
<1> QED BY <1>3, <1>4, <1>6 DEF Unique, es2

\* What was put stays, and nothing is revived: the steps that add nothing.
LEMMA KeptBound ==
  ASSUME Bound, DOMAIN entries' = DOMAIN entries,
         \A k \in DOMAIN entries :
           /\ entries'[k].name = entries[k].name /\ entries'[k].scope = entries[k].scope
           /\ entries'[k].type = entries[k].type
           /\ entries'[k].isActive => entries[k].isActive
           /\ entries[k].scope = 0 => entries'[k].isActive = entries[k].isActive,
         arguments_list' = arguments_list, IR_GEN_FAILED' \in BOOLEAN,
         IR_GEN_FAILED => IR_GEN_FAILED'
  PROVE  Bound'
<1>1. LibraryKept(entries')
  BY DEF Bound, LibraryKept
<1>2. LibraryAlone(entries) => LibraryAlone(entries')
  BY DEF LibraryAlone
<1>3. OnePerScope(entries) => OnePerScope(entries')
  BY DEF OnePerScope
<1>4. ArgumentsApart => ArgumentsApart'
  BY DEF ArgumentsApart
<1> QED BY <1>1, <1>2, <1>3, <1>4 DEF Bound, Unique

\* A table made from the one there was, with its arguments, is bound likewise.
LEMMA PutBound ==
  ASSUME Bound, LibraryKept(entries'), ~IR_GEN_FAILED' => Unique(entries'),
         arguments_list' = arguments_list, IR_GEN_FAILED' \in BOOLEAN,
         IR_GEN_FAILED => IR_GEN_FAILED'
  PROVE  Bound'
BY DEF Bound, ArgumentsApart

\* A temporary has no name a program can use.
LEMMA TempUnique ==
  ASSUME temp_var_counter \in Nat, NEW es \in Seq(EntryType), NEW os,
         os["program_variable"] \in Nat, create_temp_symbol(es, os)
  PROVE  /\ LibraryKept(es) => LibraryKept(entries')
         /\ Unique(es) => Unique(entries')
<1>1. CASE entries' = es
  BY <1>1
<1>2. CASE BindsTemp(es, os, entries', offset')
  <2>1. PICK e \in EntryType : entries' = Append(es, e) /\ TempEntry(e)
    BY <1>2 DEF BindsTemp
  <2>2. FreshIn(es, e)
    BY <2>1, NamesApart DEF FreshIn, TempEntry, IsTemp
  <2> QED BY <2>1, <2>2, AppendUnique
<1> QED BY <1>1, <1>2, TemporaryIs

\* The variable that is put has the name that was read.
LEMMA VariableNamed ==
  ASSUME Nested, Top.kind # "func", NEW n \in Var
  PROVE  \E e \in EntryType : /\ WithVariable(n) = Append(entries, e)
                              /\ e.name = n /\ e.scope = current_scope
<1> DEFINE made == Entry(n, current_scope,
                         IF current_scope = 0 THEN "GLOBAL" ELSE "LOCAL", CurrentFunction)
           x == [made EXCEPT !.space = Space, !.offset = offset[Space]]
<1>1. PICK e \in EntryType : /\ WithVariable(n) = Append(entries, e)
                             /\ Binds(e, current_scope, CurrentFunction)
  BY VariablePut DEF BindsHere
<1>2. WithVariable(n) = Append(entries, x)
  BY DEF WithVariable
<1>3. /\ n \in AllNames /\ current_scope \in Nat /\ CurrentFunction \in Nat
      /\ entries \in Seq(EntryType)
  BY NamesApart, CurrentIs DEF Nested, Ordered
<1>4. made \in EntryType /\ made.name = n
  BY <1>3, EntryIs DEF VariableTypes
<1> HIDE DEF made
<1>5. x.name = n
  BY <1>4 DEF EntryType
<1> HIDE DEF x
<1>6. e = x
  <2>1. Append(entries, e)[Len(entries) + 1] = e /\ Append(entries, x)[Len(entries) + 1] = x
    BY <1>3
  <2> QED BY <1>1, <1>2, <2>1
<1> QED BY <1>1, <1>5, <1>6 DEF Binds

\* A variable that could not be found is fresh.
LEMMA VariableFresh ==
  ASSUME Nested, Top.kind # "func", NEW n \in Var,
         n \notin ToSet(Lib), Sym!ActiveAt(entries, n, current_scope) = {}
  PROVE  /\ LibraryKept(entries) => LibraryKept(WithVariable(n))
         /\ Unique(entries) => Unique(WithVariable(n))
         /\ WithVariable(n) \in Seq(EntryType)
<1>1. entries \in Seq(EntryType)
  BY DEF Nested, Ordered
<1>2. PICK e \in EntryType : /\ WithVariable(n) = Append(entries, e)
                             /\ e.name = n /\ e.scope = current_scope
  BY VariableNamed
<1>3. FreshIn(entries, e)
  BY <1>2 DEF FreshIn, Sym!ActiveAt, Sym!Active
<1>4. Append(entries, e) \in Seq(EntryType)
  BY <1>1
<1> QED BY <1>1, <1>2, <1>3, <1>4, AppendUnique

\* The lookup of a use of a variable finds library functions, and whatever else
\* is bound in this scope.
LEMMA ClosestFresh ==
  ASSUME Nested, Bound, Top.kind # "func", NEW n \in Var, closest(n) = 0
  PROVE  n \notin ToSet(Lib) /\ Sym!ActiveAt(entries, n, current_scope) = {}
<1>1. /\ entries \in Seq(EntryType) /\ Fits(entries, current_scope) /\ current_scope \in Nat
  BY CurrentIs DEF Nested, Ordered
<1>2. Sym!Active(entries, n) = {}
  BY <1>1, NoneAround DEF closest
<1>3. n \notin ToSet(Lib)
  <2> SUFFICES ASSUME NEW k \in DOMAIN Lib, Lib[k] = n PROVE FALSE
    BY DEF ToSet
  <2>1. k \in DOMAIN entries /\ entries[k].name = n /\ entries[k].isActive
    BY DEF Bound, LibraryKept
  <2> QED BY <1>2, <2>1 DEF Sym!Active
<1> QED BY <1>2, <1>3 DEF Sym!ActiveAt

\* A use of a variable, a local or a global one
LEMMA VariableBound ==
  ASSUME Nested, Bound, NEW n \in Var,
         UseVariable(n) \/ LocalVariable(n) \/ GlobalVariable(n),
         IR_GEN_FAILED' \in BOOLEAN, IR_GEN_FAILED => IR_GEN_FAILED'
  PROVE  Bound'
<1>1. AtStatement /\ Top.kind # "func" /\ arguments_list' = arguments_list
  BY StartsOutside DEF UseVariable, LocalVariable, GlobalVariable, Start, ExpressionDone
<1>2. CASE entries' = entries
  BY <1>1, <1>2, PutBound DEF Bound
<1>3. CASE entries' = WithVariable(n) /\ UseVariable(n) /\ closest(n) = 0
  BY <1>1, <1>3, ClosestFresh, VariableFresh, PutBound DEF Bound
<1>4. CASE /\ entries' = WithVariable(n) /\ LocalVariable(n)
           /\ Sym!EntryAtScope(entries, n, current_scope) = 0
           /\ ~(\E k \in {Sym!EntryAtScope(entries, n, 0)} \ {0} : entries[k].type = "LIBFUNC")
  <2>1. entries \in Seq(EntryType)
    BY DEF Nested, Ordered
  <2>2. Sym!ActiveAt(entries, n, current_scope) = {}
    BY <1>4, <2>1, NoneAtScope
  <2>3. ASSUME n \in ToSet(Lib), Unique(entries) PROVE FALSE
    <3>1. PICK k \in DOMAIN entries : /\ Sym!EntryAtScope(entries, n, 0) = k
                                      /\ k \in Nat \ {0} /\ entries[k].type = "LIBFUNC"
      BY <2>1, <2>3, LibraryFound DEF Bound, Unique
    <3> QED BY <1>4, <3>1
  <2>4. LibraryKept(entries')
    <3>1. PICK e \in EntryType : WithVariable(n) = Append(entries, e)
      BY <1>1, VariableNamed
    <3>2. /\ DOMAIN entries \subseteq DOMAIN entries'
          /\ \A k \in DOMAIN entries : entries'[k] = entries[k]
      BY <1>4, <2>1, <3>1
    <3> QED BY <3>2 DEF Bound, LibraryKept
  <2>5. ~IR_GEN_FAILED' => Unique(entries')
    BY <1>1, <1>4, <2>2, <2>3, VariableFresh DEF Bound
  <2> QED BY <1>1, <2>4, <2>5, PutBound
<1> QED BY <1>2, <1>3, <1>4 DEF UseVariable, LocalVariable, GlobalVariable, Declare

\* An assignment
LEMMA AssignmentBound ==
  ASSUME Nested, Bound, NEW n \in Var, Assignment(n),
         IR_GEN_FAILED' \in BOOLEAN, IR_GEN_FAILED => IR_GEN_FAILED'
  PROVE  Bound'
<1>1. AtStatement /\ Top.kind # "func" /\ arguments_list' = arguments_list
  BY StartsOutside DEF Assignment, Start, ExpressionDone
<1>2. /\ temp_var_counter \in Nat /\ entries \in Seq(EntryType)
      /\ offset["program_variable"] \in Nat
  BY NestedTypes DEF Nested, Ordered
<1>3. CASE closest(n) = 0
  <2> DEFINE es == WithVariable(n)
             os == inc_curr_scope_offset
  <2>1. os["program_variable"] \in Nat
    BY NestedTypes, SpaceIs DEF inc_curr_scope_offset, Spaces
  <2>2. create_temp_symbol(es, os)
    BY <1>3 DEF Assignment
  <2>3. /\ LibraryKept(entries) => LibraryKept(es)
        /\ Unique(entries) => Unique(es)
        /\ es \in Seq(EntryType)
    BY <1>1, <1>3, ClosestFresh, VariableFresh
  <2> HIDE DEF es, os
  <2>4. /\ LibraryKept(es) => LibraryKept(entries')
        /\ Unique(es) => Unique(entries')
    BY <1>2, <2>1, <2>2, <2>3, TempUnique
  <2> QED BY <1>1, <2>3, <2>4, PutBound DEF Bound
<1>4. CASE closest(n) # 0
  <2>1. create_temp_symbol(entries, offset)
    BY <1>4 DEF Assignment
  <2>2. /\ LibraryKept(entries) => LibraryKept(entries')
        /\ Unique(entries) => Unique(entries')
    BY <1>2, <2>1, TempUnique
  <2> QED BY <1>1, <2>2, PutBound DEF Bound
<1> QED BY <1>3, <1>4

\* "return" adds no binding, and neither do the ends of blocks and bodies.
LEMMA ClosingBound ==
  ASSUME Nested, Bound, return \/ block_close \/ function_definition,
         IR_GEN_FAILED' \in BOOLEAN, IR_GEN_FAILED => IR_GEN_FAILED'
  PROVE  Bound'
<1>1. entries \in Seq(EntryType) /\ current_scope \in Nat
  <2>1. entries \in Seq(EntryType) /\ Shaped(ctx) /\ Mirrors(entries, current_scope, ctx)
    BY DEF Nested, Ordered, Stacked
  <2> QED BY <2>1, NestFinite DEF Mirrors
<1>2. CASE return
  <2>1. arguments_list' = arguments_list
    BY <1>2 DEF return
  <2>2. /\ DOMAIN entries' = DOMAIN entries
        /\ \A k \in DOMAIN entries :
             /\ entries'[k].name = entries[k].name /\ entries'[k].scope = entries[k].scope
             /\ entries'[k].type = entries[k].type
             /\ entries'[k].isActive = entries[k].isActive
    <3>1. CASE entries' = entries
      BY <3>1
    <3>2. CASE entries' # entries
      <4>1. PICK f, l : entries' = [entries EXCEPT ![f].address_list = l]
        BY <1>2, <3>2 DEF return
      <4>2. DOMAIN entries' = DOMAIN entries
        BY <4>1
      <4>3. ASSUME NEW k \in DOMAIN entries
            PROVE  /\ entries'[k].name = entries[k].name /\ entries'[k].scope = entries[k].scope
                   /\ entries'[k].type = entries[k].type
                   /\ entries'[k].isActive = entries[k].isActive
        <5>1. entries[k] \in EntryType
          <6>1. k \in 1..Len(entries)
            BY <1>1, LenProperties
          <6> QED BY <1>1, <6>1, ElementOfSeq
        <5>2. \/ entries'[k] = entries[k]
              \/ entries'[k] = [entries[k] EXCEPT !.address_list = l]
          BY <4>1
        <5> QED BY <5>1, <5>2 DEF EntryType
      <4> QED BY <4>2, <4>3
    <3> QED BY <3>1, <3>2
  <2> QED BY <2>1, <2>2, KeptBound
<1>3. CASE block_close
  <2>1. /\ arguments_list' = arguments_list /\ Top.kind = "block"
        /\ entries' = Sym!Deactivate(entries, current_scope)
    BY <1>3 DEF block_close
  <2>2. current_scope # 0
    <3>1. Shaped(ctx) /\ current_scope = Cardinality(Opening(ctx))
      BY DEF Nested, Stacked, Mirrors
    <3>2. Len(ctx) \in Opening(ctx)
      BY <2>1, <3>1 DEF Opening, Shaped, Top, Last
    <3>3. /\ Cardinality(Outside(ctx, Len(ctx))) < current_scope
          /\ Cardinality(Outside(ctx, Len(ctx))) \in Nat
      BY <3>1, <3>2, OutsideFewer, NestFinite
    <3> QED BY <3>3
  <2>3. /\ DOMAIN entries' = DOMAIN entries
        /\ \A k \in DOMAIN entries :
             /\ entries'[k].name = entries[k].name /\ entries'[k].scope = entries[k].scope
             /\ entries'[k].type = entries[k].type
             /\ entries[k].scope # current_scope => entries'[k] = entries[k]
             /\ entries[k].scope = current_scope => ~entries'[k].isActive
    BY <1>1, <2>1, HiddenIs
  <2> QED BY <2>1, <2>2, <2>3, KeptBound
<1>4. CASE function_definition
  <2>1. arguments_list' = arguments_list /\ Top.kind = "body"
    BY <1>4 DEF function_definition
  <2>2. current_scope # 0
    <3>1. entries[Top.q[1]].scope \in Nat /\ current_scope = entries[Top.q[1]].scope + 1
      BY <2>1, ClosingIs
    <3> QED BY <3>1
  <2>3. /\ Hides(entries, entries', Top.q[1])
        /\ \A k \in DOMAIN entries :
             entries[k].scope # current_scope => entries'[k].isActive = entries[k].isActive
    BY <1>4, BodyCloses
  <2>4. /\ DOMAIN entries' = DOMAIN entries
        /\ \A k \in DOMAIN entries :
             /\ entries'[k].name = entries[k].name /\ entries'[k].scope = entries[k].scope
             /\ entries'[k].type = entries[k].type
             /\ entries'[k].isActive => entries[k].isActive
    BY <2>3 DEF Hides
  <2> QED BY <2>1, <2>2, <2>3, <2>4, KeptBound
<1> QED BY <1>2, <1>3, <1>4

\* One argument of a header: twice, or with the name of a library function, it is
\* an error.
LEMMA FormalBound ==
  ASSUME Nested, Bound, NEW n \in Var, formal(n),
         IR_GEN_FAILED' \in BOOLEAN, IR_GEN_FAILED => IR_GEN_FAILED'
  PROVE  Bound'
<1>1. /\ entries' = entries /\ entries \in Seq(EntryType) /\ arguments_list \in Seq(Var)
      /\ LibraryKept(entries)
  BY DEF formal, Nested, Ordered, Bound
<1>2. ASSUME ~IR_GEN_FAILED'
      PROVE  Unique(entries) /\ ArgumentsApart'
  <2>1. Unique(entries) /\ ArgumentsApart
    BY <1>2 DEF Bound
  <2>2. /\ n \notin ToSet(arguments_list) /\ arguments_list' = Append(arguments_list, n)
        /\ ~(Sym!Contains(entries, n, 0) /\ entries[Sym!Get(entries, n)].type = "LIBFUNC")
    BY <1>2 DEF formal
  <2>3. n \notin ToSet(Lib)
    BY <1>1, <2>1, <2>2, LibraryFound DEF Unique
  <2>4. ArgumentsApart'
    <3>1. /\ DOMAIN arguments_list' = DOMAIN arguments_list \union {Len(arguments_list) + 1}
          /\ arguments_list'[Len(arguments_list) + 1] = n
          /\ \A i \in DOMAIN arguments_list : arguments_list'[i] = arguments_list[i]
      BY <1>1, <2>2
    <3>2. \A i \in DOMAIN arguments_list : arguments_list[i] # n
      BY <2>2 DEF ToSet
    <3> QED BY <2>1, <2>3, <3>1, <3>2 DEF ArgumentsApart
  <2> QED BY <2>1, <2>4
<1> QED BY <1>1, <1>2 DEF Bound

\* A function name is new in its scope, or it is an error.
LEMMA HeaderBound ==
  ASSUME Nested, Bound, NEW n \in AllNames, NEW named \in BOOLEAN,
         n \notin ToSet(TempNames), named \/ n \notin Names, function_prefix(n, named),
         IR_GEN_FAILED' \in BOOLEAN, IR_GEN_FAILED => IR_GEN_FAILED'
  PROVE  Bound'
<1>1. /\ entries \in Seq(EntryType) /\ arguments_list' = arguments_list
  BY DEF function_prefix, Nested, Ordered
<1> DEFINE made == Entry(n, current_scope, "USERFUNC", CurrentFunction)
           x == [made EXCEPT !.address_list = <<next_quad>>, !.taddress = next_quad + 1]
<1>2. entries' = Append(entries, x)
  BY DEF function_prefix
<1>3. x \in EntryType /\ x.name = n /\ x.scope = current_scope
  <2>1. current_scope \in Nat /\ CurrentFunction \in Nat
    BY StartsOutside, CurrentIs DEF function_prefix, Start
  <2>2. made \in EntryType /\ made.name = n /\ made.scope = current_scope
    BY <2>1, EntryIs
  <2> HIDE DEF made
  <2>3. next_quad + 1 \in Nat /\ <<next_quad>> \in Seq(Nat)
    BY NestedTypes
  <2> QED BY <2>2, <2>3 DEF EntryType
<1> HIDE DEF x
<1>4. LibraryKept(entries')
  <2>1. /\ DOMAIN entries \subseteq DOMAIN entries'
        /\ \A k \in DOMAIN entries : entries'[k] = entries[k]
    BY <1>1, <1>2
  <2> QED BY <2>1 DEF Bound, LibraryKept
<1>5. ASSUME ~IR_GEN_FAILED' PROVE Unique(entries')
  <2>1. Unique(entries) /\ LibraryKept(entries)
    BY <1>5 DEF Bound
  <2>2. named => ~name_taken(n)
    BY <1>5 DEF function_prefix
  <2>3. FreshIn(entries, x)
    <3> SUFFICES ASSUME named, n \in Names
                 PROVE  /\ n \notin ToSet(Lib)
                        /\ \A k \in DOMAIN entries :
                             entries[k].isActive /\ entries[k].name = n
                               => entries[k].scope # current_scope
      BY <1>3 DEF FreshIn
    <3>1. Sym!ActiveAt(entries, n, current_scope) = {}
      BY <2>2 DEF name_taken, Sym!Contains
    <3>2. ~(\E k \in {Sym!Get(entries, n)} \ {0} : entries[k].type = "LIBFUNC")
      BY <2>2 DEF name_taken
    <3>3. n \notin ToSet(Lib)
      <4> SUFFICES ASSUME n \in ToSet(Lib) PROVE FALSE
        OBVIOUS
      <4>1. PICK k \in DOMAIN entries : /\ Sym!Get(entries, n) = k /\ k \in Nat \ {0}
                                        /\ entries[k].type = "LIBFUNC"
        BY <1>1, <2>1, LibraryFound DEF Unique
      <4> QED BY <3>2, <4>1
    <3> QED BY <3>1, <3>3 DEF Sym!ActiveAt, Sym!Active
  <2> QED BY <1>1, <1>2, <1>3, <2>1, <2>3, AppendUnique
<1> QED BY <1>1, <1>4, <1>5, PutBound

\* The arguments are put in the scope of the body, where nothing is bound yet.
LEMMA BodyBound ==
  ASSUME Nested, Bound, function_arguments
  PROVE  Bound'
<1>1. /\ Top.kind = "func" /\ arguments_list' = <<>> /\ IR_GEN_FAILED' = IR_GEN_FAILED
  BY DEF function_arguments
<1>2. /\ entries \in Seq(EntryType) /\ Fits(entries, current_scope) /\ current_scope \in Nat
      /\ arguments_list \in Seq(Var)
  <2>1. entries \in Seq(EntryType) /\ Shaped(ctx) /\ Mirrors(entries, current_scope, ctx)
    BY DEF Nested, Ordered, Stacked
  <2> QED BY <2>1, NestFinite DEF Mirrors, Nested
<1>3. /\ entries' \in Seq(EntryType)
      /\ \A k \in DOMAIN entries : k \in DOMAIN entries' /\ entries'[k] = entries[k]
      /\ \A k \in DOMAIN entries' : k \notin DOMAIN entries =>
           /\ k - Len(entries) \in DOMAIN arguments_list
           /\ entries'[k].name = arguments_list[k - Len(entries)]
           /\ Binds(entries'[k], current_scope + 1, Top.q[1])
  BY <1>1, FormalsPut
<1>4. LibraryKept(entries')
  BY <1>3 DEF Bound, LibraryKept
<1>5. ASSUME ~IR_GEN_FAILED PROVE Unique(entries')
  <2>1. LibraryAlone(entries) /\ OnePerScope(entries) /\ ArgumentsApart
    BY <1>5 DEF Bound, Unique
  <2>2. LibraryAlone(entries')
    BY <1>3, <2>1 DEF LibraryAlone, ArgumentsApart
  <2>3. ASSUME NEW k \in DOMAIN entries', k \notin DOMAIN entries,
               NEW l \in DOMAIN entries', entries'[l].isActive,
               entries'[k].name = entries'[l].name, entries'[k].scope = entries'[l].scope
        PROVE  k = l
    <3>1. entries'[k].scope = current_scope + 1
      BY <1>3, <2>3 DEF Binds
    <3>2. l \notin DOMAIN entries
      <4> SUFFICES ASSUME l \in DOMAIN entries PROVE FALSE
        OBVIOUS
      <4>1. entries[l].scope <= current_scope /\ entries[l].scope = current_scope + 1
        BY <1>2, <1>3, <2>3, <3>1 DEF Fits
      <4> QED BY <1>2, <4>1
    <3>3. k - Len(entries) = l - Len(entries)
      BY <1>3, <2>1, <2>3, <3>2 DEF ArgumentsApart
    <3>4. k \in Nat /\ l \in Nat /\ Len(entries) \in Nat
      BY <1>2, <1>3, EntriesAre
    <3> QED BY <3>3, <3>4
  <2>4. OnePerScope(entries')
    BY <1>3, <2>1, <2>3 DEF OnePerScope
  <2> QED BY <2>2, <2>4 DEF Unique
<1>6. ArgumentsApart'
  BY <1>1 DEF ArgumentsApart
<1> QED BY <1>1, <1>4, <1>5, <1>6 DEF Bound

\* Errors are never taken back.
LEMMA FailureStays ==
  ASSUME IR_GEN_FAILED \in BOOLEAN, [Next]_vars
  PROVE  IR_GEN_FAILED' \in BOOLEAN /\ (IR_GEN_FAILED => IR_GEN_FAILED')
<1>1. CASE UNCHANGED IR_GEN_FAILED
  BY <1>1
<1>2. ASSUME NEW n \in Var,
             UseVariable(n) \/ LocalVariable(n) \/ GlobalVariable(n) \/ Assignment(n)
               \/ formal(n)
      PROVE  IR_GEN_FAILED' \in BOOLEAN /\ (IR_GEN_FAILED => IR_GEN_FAILED')
  BY <1>2, Zenon DEF UseVariable, LocalVariable, GlobalVariable, Assignment, formal
<1>3. ASSUME NEW n, NEW named \in BOOLEAN, function_prefix(n, named)
      PROVE  IR_GEN_FAILED' \in BOOLEAN /\ (IR_GEN_FAILED => IR_GEN_FAILED')
  BY <1>3, Zenon DEF function_prefix
<1>4. CASE return
  BY <1>4 DEF return
<1>5. ASSUME NEW kind \in {"break", "continue"}, break_or_continue(kind)
      PROVE  IR_GEN_FAILED' \in BOOLEAN /\ (IR_GEN_FAILED => IR_GEN_FAILED')
  BY <1>5 DEF break_or_continue
<1>6. CASE all_statements \/ empty_statement \/ program \/ block_open \/ block_close
             \/ function_arguments \/ function_definition \/ Terminated
  BY <1>1, <1>6 DEF all_statements, empty_statement, program, block_open, block_close,
                    function_arguments, function_definition, Terminated, vars
<1>7. ASSUME NEW code \in Codes, NEW step \in Codes,
             if_prefix(code) \/ while_start(code) \/ for_prefix(code, step)
      PROVE  UNCHANGED IR_GEN_FAILED
  BY <1>7 DEF if_prefix, while_start, for_prefix, ControlDone
<1>8. CASE if_without_else \/ else_prefix \/ if_else \/ while_statement \/ for_statement
  BY <1>1, <1>8 DEF if_without_else, else_prefix, if_else, while_statement, for_statement,
                    ControlDone
<1>9. CASE UNCHANGED vars
  BY <1>1, <1>9 DEF vars
<1> QED BY <1>1, <1>2, <1>3, <1>4, <1>5, <1>6, <1>7, <1>8, <1>9 DEF Next

\* The steps that bind at most a temporary
LEMMA PlainBound ==
  ASSUME Nested, Bound, arguments_list' = arguments_list,
         entries' = entries \/ create_temp_symbol(entries, offset),
         IR_GEN_FAILED' \in BOOLEAN, IR_GEN_FAILED => IR_GEN_FAILED'
  PROVE  Bound'
<1>1. /\ temp_var_counter \in Nat /\ entries \in Seq(EntryType)
      /\ offset["program_variable"] \in Nat
  BY NestedTypes DEF Nested, Ordered
<1>2. /\ LibraryKept(entries) => LibraryKept(entries')
      /\ Unique(entries) => Unique(entries')
  BY <1>1, TempUnique
<1> QED BY <1>2, PutBound DEF Bound

\* Every step keeps the names apart.
LEMMA BoundStep == Nested /\ Bound /\ [Next]_vars => Bound'
<1> SUFFICES ASSUME Nested, Bound, [Next]_vars PROVE Bound'
  OBVIOUS
<1>1. IR_GEN_FAILED' \in BOOLEAN /\ (IR_GEN_FAILED => IR_GEN_FAILED')
  BY FailureStays DEF Bound
<1>2. ASSUME NEW n \in Var,
             UseVariable(n) \/ LocalVariable(n) \/ GlobalVariable(n) \/ Assignment(n)
               \/ formal(n)
      PROVE  Bound'
  BY <1>1, <1>2, VariableBound, AssignmentBound, FormalBound
<1>3. ASSUME NEW n \in Fun, function_prefix(n, TRUE) PROVE Bound'
  BY <1>1, <1>3, HeaderBound, NamesApart
<1>4. ASSUME nameless_func_count < Len(AnonymousNames),
             function_prefix(AnonymousName(nameless_func_count), FALSE)
      PROVE  Bound'
  <2>1. nameless_func_count \in Nat
    BY DEF Nested
  <2> DEFINE n == AnonymousName(nameless_func_count)
  <2>2. n \in AllNames /\ n \notin ToSet(TempNames) /\ n \notin Names
    BY <1>4, <2>1, NamesApart
  <2>3. function_prefix(n, FALSE)
    BY <1>4
  <2> HIDE DEF n
  <2> QED BY <1>1, <2>2, <2>3, HeaderBound
<1>5. CASE return \/ block_close \/ function_definition
  BY <1>1, <1>5, ClosingBound
<1>6. CASE function_arguments
  BY <1>6, BodyBound
<1>7. CASE all_statements \/ empty_statement \/ program \/ block_open \/ Terminated
             \/ UNCHANGED vars
  <2>1. entries' = entries /\ arguments_list' = arguments_list
    BY <1>7 DEF all_statements, empty_statement, program, block_open, Terminated, vars,
                tables
  <2> QED BY <1>1, <2>1, PlainBound
<1>8. ASSUME NEW kind \in {"break", "continue"}, break_or_continue(kind)
      PROVE  Bound'
  <2>1. entries' = entries /\ arguments_list' = arguments_list
    BY <1>8 DEF break_or_continue, tables
  <2> QED BY <1>1, <2>1, PlainBound
<1>9. ASSUME NEW code, Temps(code), ControlDone PROVE Bound'
  <2>1. /\ arguments_list' = arguments_list
        /\ entries' = entries \/ create_temp_symbol(entries, offset)
    BY <1>9 DEF Temps, ControlDone
  <2> QED BY <1>1, <2>1, PlainBound
<1>10. ASSUME NEW code \in Codes, NEW step \in Codes,
              if_prefix(code) \/ while_start(code) \/ for_prefix(code, step)
       PROVE  Bound'
  BY <1>9, <1>10 DEF if_prefix, while_start, for_prefix
<1>11. CASE if_without_else \/ else_prefix \/ if_else \/ while_statement \/ for_statement
  BY <1>9, <1>11 DEF if_without_else, else_prefix, if_else, while_statement, for_statement
<1> QED BY <1>2, <1>3, <1>4, <1>5, <1>6, <1>7, <1>8, <1>10, <1>11 DEF Next

\* At first there is the library alone.
LEMMA BoundInit == Init => Bound
<1> SUFFICES ASSUME Init PROVE Bound
  OBVIOUS
<1>1. /\ entries \in Seq(EntryType) /\ Len(entries) = Len(Lib)
      /\ \A k \in DOMAIN entries :
           /\ k \in DOMAIN Lib /\ entries[k].name = Lib[k] /\ entries[k].type = "LIBFUNC"
           /\ entries[k].scope = 0 /\ entries[k].isActive
  BY LibraryIs
<1>2. DOMAIN entries = DOMAIN Lib
  <2>1. DOMAIN Lib = 1..Len(Lib)
    BY NamesAssumption
  <2> QED BY <1>1, <2>1
<1>3. LibraryKept(entries) /\ LibraryAlone(entries)
  BY <1>1, <1>2 DEF LibraryKept, LibraryAlone
<1>4. OnePerScope(entries)
  BY <1>1, <1>2, NamesAssumption DEF OnePerScope, IsInjective
<1>5. arguments_list = <<>> /\ IR_GEN_FAILED \in BOOLEAN
  BY DEF Init
<1>6. ArgumentsApart
  BY <1>5 DEF ArgumentsApart
<1> QED BY <1>3, <1>4, <1>5, <1>6 DEF Bound, Unique

\* The bindings of a program without errors are apart from beginning to end.
THEOREM NamesAreBoundApart == Spec => []Bound
<1>1. Init => Bound
  BY BoundInit
<1>2. Nested /\ Bound /\ [Next]_vars => Bound'
  BY BoundStep
<1> QED BY <1>1, <1>2, BindingsMirrorTheNest, PTL DEF Spec

\* A set without two members has at most one.
LEMMA AtMostOne ==
  ASSUME NEW S, \A x, y \in S : x = y
  PROVE  Cardinality(S) <= 1
<1>1. CASE S = {}
  BY <1>1, FS_EmptySet
<1>2. ASSUME NEW x \in S PROVE Cardinality(S) <= 1
  <2>1. S = {x}
    OBVIOUS
  <2> QED BY <2>1, FS_Singleton
<1> QED BY <1>1, <1>2

\* Without an error, no name is bound twice in a scope, and the name of a library
\* function nowhere else: the checks of variables, functions and arguments
\* together keep every lookup from having to choose.
THEOREM NamesAreBoundOnce == Spec => []BoundOnce
<1>1. Nested /\ Bound => BoundOnce
  <2> SUFFICES ASSUME Nested, Bound, ~IR_GEN_FAILED, NEW n \in Names
               PROVE  /\ \A s \in 0..(current_scope + 1) :
                           Cardinality(Sym!ActiveAt(entries, n, s)) <= 1
                      /\ n \in ToSet(Lib) => Cardinality(Sym!Active(entries, n)) = 1
    BY DEF BoundOnce
  <2>1. /\ entries \in Seq(EntryType) /\ LibraryKept(entries)
        /\ LibraryAlone(entries) /\ OnePerScope(entries)
    BY DEF Nested, Ordered, Bound, Unique
  <2>2. ASSUME NEW s PROVE Cardinality(Sym!ActiveAt(entries, n, s)) <= 1
    <3>1. \A k, l \in Sym!ActiveAt(entries, n, s) : k = l
      BY <2>1 DEF OnePerScope, Sym!ActiveAt, Sym!Active
    <3> QED BY <3>1, AtMostOne
  <2>3. ASSUME n \in ToSet(Lib) PROVE Cardinality(Sym!Active(entries, n)) = 1
    <3>1. PICK k : Sym!Active(entries, n) = {k}
      BY <2>1, <2>3, LibraryFound
    <3> QED BY <3>1, FS_Singleton
  <2> QED BY <2>2, <2>3
<1> QED BY <1>1, NamesAreBoundApart, BindingsMirrorTheNest, PTL
=============================================================================
