-------------------------- MODULE ParserJumpProofs ---------------------------
(* For every program: each jump that waits for its label is owed by exactly  *)
(* one list (of a statement, a branch, a loop or an open function), so no    *)
(* label is ever patched twice; breaks, continues and returns reach the end  *)
(* of their own loop or function; and none is forgotten.                     *)
EXTENDS ParserProofs

\* The quads that wait for a label, by number.
Unfilled(qs) == {x \in 0..(Len(qs) - 1) : qs[x + 1].patch = "open"}
NoneAgain(qs) == \A i \in DOMAIN qs : qs[i].patch # "again"
Bounded(qs, n) == \A i \in DOMAIN qs : qs[i].label <= n

\* The jumps the frame g has to see patched: those of its own construct, and
\* those in its break and continue lists.
Debts(g) == CASE g.kind = "if_then" -> {g.q[1]}
              [] g.kind = "if_else" -> {g.q[1], g.q[2]}
              [] g.kind = "while_body" -> {g.q[2]}
              [] g.kind = "for_body" -> {g.q[2], g.q[3], g.q[4]}
              [] OTHER -> {}
DebtsApart(g) ==
  /\ g.kind = "if_else" => g.q[1] # g.q[2]
  /\ g.kind = "for_body" => g.q[2] # g.q[3] /\ g.q[2] # g.q[4] /\ g.q[3] # g.q[4]
Owes(g) == Debts(g) \union ToSet(g.b) \union ToSet(g.c)
OwesOnce(g) ==
  /\ DebtsApart(g) /\ IsInjective(g.b) /\ IsInjective(g.c)
  /\ Debts(g) \intersect ToSet(g.b) = {} /\ Debts(g) \intersect ToSet(g.c) = {}
  /\ ToSet(g.b) \intersect ToSet(g.c) = {}

\* What each frame and each open function owes is unfilled, and owed by it alone.
Ledger(cx, es, qs) ==
  /\ \A i \in DOMAIN cx : OwesOnce(cx[i]) /\ Owes(cx[i]) \subseteq Unfilled(qs)
  /\ \A f \in Open(es) : /\ IsInjective(es[f].address_list)
                         /\ ToSet(es[f].address_list) \subseteq Unfilled(qs)
  /\ \A i, j \in DOMAIN cx : i # j => Owes(cx[i]) \intersect Owes(cx[j]) = {}
  /\ \A f, g \in Open(es) :
       f # g => ToSet(es[f].address_list) \intersect ToSet(es[g].address_list) = {}
  /\ \A i \in DOMAIN cx, f \in Open(es) :
       Owes(cx[i]) \intersect ToSet(es[f].address_list) = {}

\* Loops start at quads there are.
Starts(cx, n) == \A i \in DOMAIN cx : cx[i].kind \in LoopBodies => cx[i].q[1] <= n

Ledgered == /\ Ledger(ctx, entries, quads) /\ NoneAgain(quads)
            /\ Bounded(quads, Len(quads)) /\ Starts(ctx, Len(quads))

\* Every jump that waits is owed by a frame or by an open function.
Covers(cx, es, qs) ==
  \A x \in Unfilled(qs) : \/ \E i \in DOMAIN cx : x \in Owes(cx[i])
                          \/ \E f \in Open(es) : x \in ToSet(es[f].address_list)

\* Branches, loops and bodies hold no lists of their own: a statement's lists
\* are handed on only when it joins a list, a block or an "else".
Listless(g) == ToSet(g.b) = {} /\ ToSet(g.c) = {}
Bare(cx) == \A i \in DOMAIN cx :
              cx[i].kind \in LoopBodies \union {"if_then", "body"} => Listless(cx[i])

\* A step after which every jump is owed if every jump was.
CoverKept == Bare(ctx) /\ Covers(ctx, entries, quads) => Covers(ctx', entries', quads')
-----------------------------------------------------------------------------
(* Lists of labels *)

\* The members of short lists, and of two lists that are merged.
LEMMA ListsAre ==
  /\ ToSet(<<>>) = {} /\ IsInjective(<<>>) /\ <<>> \in Seq(Nat)
  /\ \A x : ToSet(<<x>>) = {x} /\ IsInjective(<<x>>)
  /\ \A x \in Nat : <<x>> \in Seq(Nat)
<1>1. \A x : DOMAIN <<x>> = {1} /\ <<x>>[1] = x
  OBVIOUS
<1>2. DOMAIN <<>> = {}
  OBVIOUS
<1>3. \A x : ToSet(<<x>>) = {x} /\ IsInjective(<<x>>)
  BY <1>1 DEF ToSet, IsInjective
<1>4. ToSet(<<>>) = {} /\ IsInjective(<<>>)
  BY <1>2 DEF ToSet, IsInjective
<1> QED BY <1>3, <1>4

\* Lists that share no label merge into one without repetitions.
LEMMA MergeOnce ==
  ASSUME NEW l1 \in Seq(Nat), NEW l2 \in Seq(Nat)
  PROVE  /\ l1 \o l2 \in Seq(Nat) /\ ToSet(l1 \o l2) = ToSet(l1) \union ToSet(l2)
         /\ (IsInjective(l1) /\ IsInjective(l2) /\ ToSet(l1) \intersect ToSet(l2) = {})
              => IsInjective(l1 \o l2)
<1> DEFINE m == l1 \o l2
           n == Len(l1)
           k == Len(l2)
<1>1. /\ m \in Seq(Nat) /\ Len(m) = n + k /\ n \in Nat /\ k \in Nat
      /\ DOMAIN m = 1..(n + k) /\ DOMAIN l1 = 1..n /\ DOMAIN l2 = 1..k
      /\ \A i \in 1..n : m[i] = l1[i]
      /\ \A i \in 1..k : m[n + i] = l2[i]
  BY ConcatProperties
<1> HIDE DEF m, n, k
<1>2. \A i \in 1..(n + k) : i \in 1..n \/ (i - n \in 1..k /\ i = n + (i - n))
  BY <1>1
<1>3. \A i \in 1..(n + k) : (i \in 1..n /\ m[i] = l1[i])
                              \/ (i - n \in 1..k /\ m[i] = l2[i - n])
  BY <1>1, <1>2
<1>4. ToSet(m) = ToSet(l1) \union ToSet(l2)
  <2>1. \A i \in 1..n : i \in 1..(n + k)
    BY <1>1
  <2>2. \A i \in 1..k : n + i \in 1..(n + k)
    BY <1>1
  <2>3. ToSet(m) \subseteq ToSet(l1) \union ToSet(l2)
    BY <1>1, <1>3 DEF ToSet
  <2>4. ToSet(l1) \subseteq ToSet(m)
    BY <1>1, <2>1 DEF ToSet
  <2>5. ToSet(l2) \subseteq ToSet(m)
    BY <1>1, <2>2 DEF ToSet
  <2> QED BY <2>3, <2>4, <2>5
<1>5. ASSUME IsInjective(l1), IsInjective(l2), ToSet(l1) \intersect ToSet(l2) = {}
      PROVE  IsInjective(m)
  <2> SUFFICES ASSUME NEW i \in 1..(n + k), NEW j \in 1..(n + k), m[i] = m[j]
               PROVE  i = j
    BY <1>1 DEF IsInjective
  <2>1. \A x \in 1..n, y \in 1..k : l1[x] # l2[y]
    BY <1>1, <1>5 DEF ToSet
  <2>2. CASE i \in 1..n /\ j \in 1..n
    BY <1>1, <1>5, <2>2 DEF IsInjective
  <2>3. CASE i - n \in 1..k /\ m[i] = l2[i - n] /\ j - n \in 1..k /\ m[j] = l2[j - n]
    <3>1. i - n = j - n
      BY <1>1, <1>5, <2>3 DEF IsInjective
    <3> QED BY <1>1, <3>1
  <2> QED BY <1>1, <1>3, <2>1, <2>2, <2>3
<1> QED BY <1>1, <1>4, <1>5 DEF m
-----------------------------------------------------------------------------
(* Quads that wait for their labels *)

\* The quads that wait are those marked open, by their numbers.
LEMMA UnfilledIs ==
  ASSUME NEW qs \in Seq(QuadType)
  PROVE  /\ \A x \in Unfilled(qs) : x \in Nat /\ x < Len(qs) /\ x + 1 \in DOMAIN qs
                                    /\ qs[x + 1].patch = "open"
         /\ \A i \in DOMAIN qs : qs[i].patch = "open" => i - 1 \in Unfilled(qs)
<1>1. Len(qs) \in Nat /\ DOMAIN qs = 1..Len(qs)
  OBVIOUS
<1>2. \A i \in DOMAIN qs : i - 1 \in 0..(Len(qs) - 1) /\ i = (i - 1) + 1
  BY <1>1
<1>3. \A x \in 0..(Len(qs) - 1) : x \in Nat /\ x < Len(qs) /\ x + 1 \in DOMAIN qs
  BY <1>1
<1> QED BY <1>2, <1>3 DEF Unfilled

\* Patching labels that wait, each once, fills them and no others.
LEMMA PatchFills ==
  ASSUME NEW qs \in Seq(QuadType), NEW l \in Seq(Nat), IsInjective(l),
         ToSet(l) \subseteq Unfilled(qs), NEW label \in Nat
  PROVE  LET p == Patch(qs, l, label)
         IN  /\ p \in Seq(QuadType) /\ Len(p) = Len(qs)
             /\ Unfilled(p) = Unfilled(qs) \ ToSet(l)
             /\ NoneAgain(qs) => NoneAgain(p)
             /\ \A n \in Nat : (Bounded(qs, n) /\ label <= n) => Bounded(p, n)
<1> DEFINE p == Patch(qs, l, label)
           hits(i) == {j \in DOMAIN l : l[j] = i - 1}
<1>1. /\ p \in Seq(QuadType) /\ Len(p) = Len(qs)
      /\ \A i \in DOMAIN qs : p[i].label \in {qs[i].label, label}
  BY PatchIs
<1>2. /\ DOMAIN p = DOMAIN qs /\ DOMAIN qs = 1..Len(qs) /\ Len(qs) \in Nat
  <2> HIDE DEF p
  <2> QED BY <1>1
<1>3. \A i \in DOMAIN qs :
        p[i] = IF hits(i) = {} THEN qs[i]
               ELSE [qs[i] EXCEPT !.label = label,
                       !.patch = IF @ = "open" /\ Cardinality(hits(i)) = 1
                                 THEN "once" ELSE "again"]
  BY DEF Patch
<1>4. ASSUME NEW i \in DOMAIN qs
      PROVE  /\ i - 1 \notin ToSet(l) => p[i] = qs[i]
             /\ i - 1 \in ToSet(l) => p[i].patch = "once"
  <2>1. CASE i - 1 \notin ToSet(l)
    <3>1. hits(i) = {}
      BY <2>1 DEF ToSet
    <3> QED BY <1>3, <2>1, <3>1
  <2>2. CASE i - 1 \in ToSet(l)
    <3>1. PICK j \in DOMAIN l : l[j] = i - 1
      BY <2>2 DEF ToSet
    <3>2. hits(i) = {j}
      BY <3>1 DEF IsInjective
    <3>3. Cardinality(hits(i)) = 1
      BY <3>2, FS_Singleton
    <3>4. qs[i].patch = "open"
      <4>1. i - 1 \in Unfilled(qs) /\ i = (i - 1) + 1
        BY <1>2, <2>2
      <4> QED BY <4>1 DEF Unfilled
    <3>5. hits(i) # {} /\ qs[i] \in QuadType
      BY <3>2
    <3> HIDE DEF hits, p
    <3>6. p[i] = [qs[i] EXCEPT !.label = label, !.patch = "once"]
      BY <1>3, <3>3, <3>4, <3>5
    <3>7. [qs[i] EXCEPT !.label = label, !.patch = "once"].patch = "once"
      BY <3>5 DEF QuadType
    <3> QED BY <2>2, <3>6, <3>7
  <2> QED BY <2>1, <2>2
<1> HIDE DEF p, hits
<1>5. Unfilled(p) = Unfilled(qs) \ ToSet(l)
  <2>1. \A x \in 0..(Len(qs) - 1) : x + 1 \in DOMAIN qs /\ (x + 1) - 1 = x
    BY <1>2
  <2>2. ASSUME NEW x \in 0..(Len(qs) - 1)
        PROVE  p[x + 1].patch = "open" <=> (qs[x + 1].patch = "open" /\ x \notin ToSet(l))
    BY <1>4, <2>1
  <2> QED BY <1>1, <2>2 DEF Unfilled
<1>6. NoneAgain(qs) => NoneAgain(p)
  BY <1>2, <1>4 DEF NoneAgain
<1>7. \A n \in Nat : (Bounded(qs, n) /\ label <= n) => Bounded(p, n)
  BY <1>1, <1>2 DEF Bounded
<1> QED BY <1>1, <1>5, <1>6, <1>7 DEF p

\* Quads that are emitted wait for their labels behind those there were.
LEMMA EmitFills ==
  ASSUME NEW qs \in Seq(QuadType), NEW new \in Seq(QuadType)
  PROVE  LET p == qs \o new
         IN  /\ p \in Seq(QuadType) /\ Len(p) = Len(qs) + Len(new)
             /\ Unfilled(p) = Unfilled(qs) \union {Len(qs) + x : x \in Unfilled(new)}
             /\ (NoneAgain(qs) /\ NoneAgain(new)) => NoneAgain(p)
             /\ \A n \in Nat : (Bounded(qs, n) /\ Bounded(new, n)) => Bounded(p, n)
<1> DEFINE p == qs \o new
           n == Len(qs)
           k == Len(new)
<1>1. /\ p \in Seq(QuadType) /\ Len(p) = n + k /\ n \in Nat /\ k \in Nat
      /\ DOMAIN p = 1..(n + k) /\ DOMAIN qs = 1..n /\ DOMAIN new = 1..k
      /\ \A i \in 1..n : p[i] = qs[i]
      /\ \A i \in 1..k : p[n + i] = new[i]
  BY ConcatProperties
<1> HIDE DEF p, n, k
<1>2. \A i \in 1..(n + k) : (i \in 1..n /\ p[i] = qs[i])
                              \/ (i - n \in 1..k /\ p[i] = new[i - n])
  <2>1. \A i \in 1..(n + k) : i \in 1..n \/ (i - n \in 1..k /\ i = n + (i - n))
    BY <1>1
  <2> QED BY <1>1, <2>1
<1>3. Unfilled(p) = Unfilled(qs) \union {n + x : x \in Unfilled(new)}
  <2>1. Unfilled(p) = {x \in 0..(n + k - 1) : p[x + 1].patch = "open"}
    BY <1>1 DEF Unfilled
  <2>2. Unfilled(qs) = {x \in 0..(n - 1) : qs[x + 1].patch = "open"}
    BY DEF Unfilled, n
  <2>3. Unfilled(new) = {x \in 0..(k - 1) : new[x + 1].patch = "open"}
    BY DEF Unfilled, k
  <2>4. ASSUME NEW x \in 0..(n - 1)
        PROVE  x \in 0..(n + k - 1) /\ p[x + 1] = qs[x + 1]
    BY <1>1
  <2>5. ASSUME NEW x \in 0..(k - 1)
        PROVE  n + x \in 0..(n + k - 1) /\ p[(n + x) + 1] = new[x + 1]
    <3>1. x + 1 \in 1..k /\ (n + x) + 1 = n + (x + 1) /\ n + x \in 0..(n + k - 1)
      BY <1>1
    <3> QED BY <1>1, <3>1
  <2>6. ASSUME NEW y \in 0..(n + k - 1)
        PROVE  y \in 0..(n - 1) \/ (y - n \in 0..(k - 1) /\ n + (y - n) = y)
    BY <1>1
  <2>7. \A y \in Unfilled(p) : y \in Unfilled(qs) \/ \E x \in Unfilled(new) : y = n + x
    <3> SUFFICES ASSUME NEW y \in Unfilled(p), y \notin Unfilled(qs)
                 PROVE  y - n \in Unfilled(new) /\ y = n + (y - n)
      OBVIOUS
    <3>1. y \in 0..(n + k - 1) /\ p[y + 1].patch = "open"
      BY <2>1
    <3>2. y \notin 0..(n - 1)
      BY <2>2, <2>4, <3>1
    <3>3. y - n \in 0..(k - 1) /\ n + (y - n) = y
      BY <2>6, <3>1, <3>2
    <3>4. p[y + 1] = new[(y - n) + 1]
      BY <2>5, <3>3
    <3> QED BY <2>3, <3>1, <3>3, <3>4
  <2>8. Unfilled(qs) \subseteq Unfilled(p)
    BY <2>1, <2>2, <2>4
  <2>9. \A x \in Unfilled(new) : n + x \in Unfilled(p)
    BY <2>1, <2>3, <2>5
  <2> QED BY <2>7, <2>8, <2>9
<1>4. (NoneAgain(qs) /\ NoneAgain(new)) => NoneAgain(p)
  BY <1>1, <1>2 DEF NoneAgain
<1>5. \A m \in Nat : (Bounded(qs, m) /\ Bounded(new, m)) => Bounded(p, m)
  BY <1>1, <1>2 DEF Bounded
<1> QED BY <1>1, <1>3, <1>4, <1>5 DEF p, n, k
-----------------------------------------------------------------------------
(* The ledger *)

\* The n frames on top are replaced by g, and the list of function h may change.
\* What they owed (the pool) is paid, or owed by g or h from now on, together
\* with quads that are fresh.
Settles(cx, es, qs, n, g, es2, h, qs2, pool, paid, fresh) ==
  /\ OwesOnce(g)
  /\ \A f \in Open(es2) : f # h => /\ f \in Open(es)
                                   /\ es2[f].address_list = es[f].address_list
  /\ h \in Open(es2) => IsInjective(es2[h].address_list)
  /\ \A x \in pool : \/ \E i \in DOMAIN cx : i > Len(cx) - n /\ x \in Owes(cx[i])
                     \/ h \in Open(es) /\ x \in ToSet(es[h].address_list)
  /\ paid \subseteq pool /\ Owes(g) \subseteq (pool \ paid) \union fresh
  /\ h \in Open(es2) =>
       /\ ToSet(es2[h].address_list) \subseteq (pool \ paid) \union fresh
       /\ Owes(g) \intersect ToSet(es2[h].address_list) = {}
  /\ fresh \intersect Unfilled(qs) = {} /\ fresh \subseteq Unfilled(qs2)
  /\ Unfilled(qs) \ paid \subseteq Unfilled(qs2)

\* A step that settles the ledger keeps it.
LEMMA Settle ==
  ASSUME NEW cx \in Seq(FrameType), NEW es, NEW qs, Ledger(cx, es, qs),
         NEW r, NEW n, NEW g, Replaced(cx, r, n, g),
         NEW es2, NEW h, NEW qs2, NEW pool, NEW paid, NEW fresh,
         Settles(cx, es, qs, n, g, es2, h, qs2, pool, paid, fresh)
  PROVE  Ledger(r, es2, qs2)
<1> USE DEF Settles
<1> DEFINE m == Len(r)
           list(f) == ToSet(es[f].address_list)
           list2(f) == ToSet(es2[f].address_list)
<1>1. /\ DOMAIN r = 1..m /\ m \in Nat \ {0} /\ m = Len(cx) - n + 1 /\ r[m] = g
      /\ DOMAIN cx = 1..Len(cx) /\ Len(cx) \in Nat /\ n \in 0..Len(cx)
      /\ \A i \in DOMAIN r : i # m => i \in DOMAIN cx /\ r[i] = cx[i] /\ ~(i > Len(cx) - n)
  BY DEF Replaced
<1>2. pool \subseteq Unfilled(qs)
  BY DEF Ledger
<1> HIDE DEF m
<1>3. ASSUME NEW i \in DOMAIN r, i # m
      PROVE  Owes(r[i]) \intersect pool = {} /\ Owes(r[i]) \subseteq Unfilled(qs)
             /\ OwesOnce(r[i])
  <2>1. i \in DOMAIN cx /\ r[i] = cx[i] /\ ~(i > Len(cx) - n)
    BY <1>1, <1>3
  <2>2. \A j \in DOMAIN cx : j > Len(cx) - n => Owes(cx[i]) \intersect Owes(cx[j]) = {}
    BY <2>1 DEF Ledger
  <2>3. h \in Open(es) => Owes(cx[i]) \intersect list(h) = {}
    BY <2>1 DEF Ledger
  <2>4. Owes(cx[i]) \subseteq Unfilled(qs) /\ OwesOnce(cx[i])
    BY <2>1 DEF Ledger
  <2> HIDE DEF Owes
  <2> QED BY <2>1, <2>2, <2>3, <2>4
<1>4. ASSUME NEW f \in Open(es2), f # h
      PROVE  /\ list2(f) \intersect pool = {} /\ list2(f) \subseteq Unfilled(qs)
             /\ IsInjective(es2[f].address_list)
             /\ f \in Open(es) /\ list2(f) = list(f)
  <2>1. f \in Open(es) /\ es2[f].address_list = es[f].address_list
    BY <1>4
  <2>2. list(f) \subseteq Unfilled(qs) /\ IsInjective(es[f].address_list)
    BY <2>1 DEF Ledger
  <2>3. h \in Open(es) => list(h) \intersect list(f) = {}
    BY <1>4, <2>1 DEF Ledger
  <2>4. \A j \in DOMAIN cx : Owes(cx[j]) \intersect list(f) = {}
    BY <2>1 DEF Ledger
  <2> HIDE DEF Owes
  <2> QED BY <2>1, <2>2, <2>3, <2>4
<1>5. ASSUME NEW S, S \subseteq Unfilled(qs), S \intersect pool = {}
      PROVE  S \subseteq Unfilled(qs2) /\ S \intersect fresh = {}
  BY <1>5
<1>6. (pool \ paid) \union fresh \subseteq Unfilled(qs2)
  BY <1>2
<1>7. \A i \in DOMAIN r : OwesOnce(r[i]) /\ Owes(r[i]) \subseteq Unfilled(qs2)
  <2> HIDE DEF Owes, OwesOnce
  <2>1. ASSUME NEW i \in DOMAIN r, i # m
        PROVE  OwesOnce(r[i]) /\ Owes(r[i]) \subseteq Unfilled(qs2)
    BY <1>3, <1>5, <2>1
  <2> QED BY <1>1, <1>6, <2>1
<1>8. \A f \in Open(es2) : /\ IsInjective(es2[f].address_list)
                           /\ list2(f) \subseteq Unfilled(qs2)
  <2>1. ASSUME NEW f \in Open(es2), f # h
        PROVE  IsInjective(es2[f].address_list) /\ list2(f) \subseteq Unfilled(qs2)
    <3>1. IsInjective(es2[f].address_list)
      BY <1>4, <2>1
    <3>2. list2(f) \subseteq Unfilled(qs2)
      BY <1>4, <1>5, <2>1
    <3> QED BY <3>1, <3>2
  <2> QED BY <1>6, <2>1
<1>9. \A i, j \in DOMAIN r : i # j => Owes(r[i]) \intersect Owes(r[j]) = {}
  <2> HIDE DEF Owes
  <2>1. ASSUME NEW i \in DOMAIN r, i # m PROVE Owes(r[i]) \intersect Owes(g) = {}
    BY <1>3, <1>5, <2>1
  <2>2. ASSUME NEW i \in DOMAIN r, NEW j \in DOMAIN r, i # m, j # m, i # j
        PROVE  Owes(r[i]) \intersect Owes(r[j]) = {}
    <3>1. /\ i \in DOMAIN cx /\ j \in DOMAIN cx /\ r[i] = cx[i] /\ r[j] = cx[j]
      BY <1>1, <2>2
    <3> QED BY <2>2, <3>1 DEF Ledger
  <2> QED BY <1>1, <2>1, <2>2
<1>10. \A f, k \in Open(es2) : f # k => list2(f) \intersect list2(k) = {}
  <2>1. ASSUME NEW f \in Open(es2), f # h, h \in Open(es2)
        PROVE  list2(f) \intersect list2(h) = {}
    <3>1. list2(f) \intersect pool = {} /\ list2(f) \intersect fresh = {}
      BY <1>4, <1>5, <2>1
    <3> QED BY <2>1, <3>1
  <2>2. ASSUME NEW f \in Open(es2), NEW k \in Open(es2), f # h, k # h, f # k
        PROVE  list2(f) \intersect list2(k) = {}
    BY <1>4, <2>2 DEF Ledger
  <2> QED BY <2>1, <2>2
<1>11. \A i \in DOMAIN r, f \in Open(es2) : Owes(r[i]) \intersect list2(f) = {}
  <2> HIDE DEF Owes
  <2>1. ASSUME NEW i \in DOMAIN r, i # m, h \in Open(es2)
        PROVE  Owes(r[i]) \intersect list2(h) = {}
    <3>1. Owes(r[i]) \intersect pool = {} /\ Owes(r[i]) \intersect fresh = {}
      BY <1>3, <1>5, <2>1
    <3> QED BY <2>1, <3>1
  <2>2. ASSUME NEW f \in Open(es2), f # h PROVE Owes(g) \intersect list2(f) = {}
    <3>1. list2(f) \intersect pool = {} /\ list2(f) \intersect fresh = {}
      BY <1>4, <1>5, <2>2
    <3> QED BY <3>1
  <2>3. ASSUME NEW i \in DOMAIN r, i # m, NEW f \in Open(es2), f # h
        PROVE  Owes(r[i]) \intersect list2(f) = {}
    <3>1. i \in DOMAIN cx /\ r[i] = cx[i]
      BY <1>1, <2>3
    <3>2. f \in Open(es) /\ list2(f) = list(f)
      BY <1>4, <2>3
    <3> QED BY <3>1, <3>2 DEF Ledger
  <2> QED BY <1>1, <2>1, <2>2, <2>3
<1> QED BY <1>7, <1>8, <1>9, <1>10, <1>11 DEF Ledger

\* The open functions are those there were, with their lists.
OpenKept ==
  /\ entries' \in Seq(EntryType)
  /\ \A f \in Open(entries') : /\ f \in Open(entries)
                               /\ entries'[f].address_list = entries[f].address_list
                               /\ entries'[f].taddress = entries[f].taddress
  /\ Open(entries) \subseteq Open(entries')

\* What a step does to the quads: it fills those that are paid for, leaves the
\* others, and emits fresh ones.
Fills(paid, fresh) ==
  /\ quads' \in Seq(QuadType) /\ Len(quads) <= Len(quads')
  /\ NoneAgain(quads') /\ Bounded(quads', Len(quads'))
  /\ Unfilled(quads') = (Unfilled(quads) \ paid) \union fresh
  /\ \A x \in fresh : x >= Len(quads)

\* What the frames taken away, and function h, owed is paid, or owed by g or by
\* h; so is what is fresh.
Hands(n, g, h, paid, fresh) ==
  /\ \A f \in Open(entries) : f # h =>
       f \in Open(entries') /\ entries'[f].address_list = entries[f].address_list
  /\ LET handed == IF h \in Open(entries') THEN ToSet(entries'[h].address_list) ELSE {}
     IN  /\ h \in Open(entries) => ToSet(entries[h].address_list) \subseteq paid \union handed
         /\ fresh \subseteq Owes(g) \union handed
  /\ Bare(ctx) => \A i \in DOMAIN ctx :
       i > Len(ctx) - n => Owes(ctx[i]) \subseteq paid \union Owes(g)

\* Then no jump is forgotten.
LEMMA NothingForgotten ==
  ASSUME NEW n, NEW g, ctx \in Seq(FrameType), Replaced(ctx, ctx', n, g),
         NEW paid, NEW fresh, Fills(paid, fresh), NEW h, Hands(n, g, h, paid, fresh)
  PROVE  CoverKept
<1> DEFINE handed == IF h \in Open(entries') THEN ToSet(entries'[h].address_list) ELSE {}
<1>0. /\ \A f \in Open(entries) : f # h =>
           f \in Open(entries') /\ entries'[f].address_list = entries[f].address_list
      /\ h \in Open(entries) => ToSet(entries[h].address_list) \subseteq paid \union handed
      /\ fresh \subseteq Owes(g) \union handed
      /\ Bare(ctx) => \A i \in DOMAIN ctx :
           i > Len(ctx) - n => Owes(ctx[i]) \subseteq paid \union Owes(g)
      /\ handed # {} => h \in Open(entries') /\ handed = ToSet(entries'[h].address_list)
  BY DEF Hands
<1> HIDE DEF handed
<1> SUFFICES ASSUME Bare(ctx), Covers(ctx, entries, quads), NEW x \in Unfilled(quads')
             PROVE  \/ \E i \in DOMAIN ctx' : x \in Owes(ctx'[i])
                    \/ \E f \in Open(entries') : x \in ToSet(entries'[f].address_list)
  BY DEF CoverKept, Covers
<1> HIDE DEF Owes, Unfilled, Open
<1>1. /\ Len(ctx') \in DOMAIN ctx' /\ ctx'[Len(ctx')] = g
      /\ \A i \in DOMAIN ctx : i > Len(ctx) - n \/ (i \in DOMAIN ctx' /\ ctx'[i] = ctx[i])
  BY DEF Replaced
<1>2. CASE x \in Owes(g) \union handed
  BY <1>0, <1>1, <1>2
<1>3. CASE x \in Unfilled(quads) \ paid
  <2>1. CASE \E i \in DOMAIN ctx : x \in Owes(ctx[i])
    BY <1>0, <1>1, <1>2, <1>3, <2>1
  <2>2. CASE \E f \in Open(entries) : x \in ToSet(entries[f].address_list)
    BY <1>0, <1>2, <1>3, <2>2
  <2> QED BY <1>3, <2>1, <2>2 DEF Covers
<1>4. x \in fresh \/ x \in Unfilled(quads) \ paid
  BY DEF Fills
<1> QED BY <1>0, <1>2, <1>3, <1>4

\* The stack, the quads and the ledger are what they should be.
LEMMA LedgerTypes ==
  ASSUME Nested, Ledgered
  PROVE  /\ Shaped(ctx) /\ ctx \in Seq(FrameType) /\ quads \in Seq(QuadType)
         /\ Len(quads) \in Nat /\ next_quad = Len(quads)
         /\ entries \in Seq(EntryType) /\ Len(ctx) \in Nat \ {0} /\ DOMAIN ctx = 1..Len(ctx)
         /\ Top = ctx[Len(ctx)] /\ Top \in FrameType
         /\ Ledger(ctx, entries, quads) /\ NoneAgain(quads)
         /\ Bounded(quads, Len(quads)) /\ Starts(ctx, Len(quads))
         /\ \A x \in Unfilled(quads) : x \in Nat /\ x < Len(quads)
<1>1. /\ Shaped(ctx) /\ ctx \in Seq(FrameType) /\ quads \in Seq(QuadType)
      /\ entries \in Seq(EntryType)
  BY DEF Nested, Stacked, Shaped, Ordered
<1>2. Len(ctx) \in Nat \ {0} /\ DOMAIN ctx = 1..Len(ctx) /\ Top = ctx[Len(ctx)]
  BY <1>1 DEF Shaped, Top, Last
<1>3. Top \in FrameType
  BY <1>1, <1>2
<1>4. Len(quads) \in Nat
  BY <1>1
<1>5. \A x \in Unfilled(quads) : x \in Nat /\ x < Len(quads)
  BY <1>1, UnfilledIs
<1> QED BY <1>1, <1>2, <1>3, <1>4, <1>5 DEF Ledgered, next_quad

\* Loops go on starting at quads there are.
LEMMA StartsKept ==
  ASSUME Nested, Ledgered, NEW n, NEW g, Replaced(ctx, ctx', n, g),
         Len(quads) <= Len(quads'), quads' \in Seq(QuadType),
         g.kind \in LoopBodies => g.q[1] <= Len(quads')
  PROVE  Starts(ctx', Len(quads'))
<1>0. /\ ctx \in Seq(FrameType) /\ Shaped(ctx) /\ Starts(ctx, Len(quads))
      /\ Len(quads) \in Nat /\ Len(quads') \in Nat
  BY LedgerTypes
<1> SUFFICES ASSUME NEW i \in DOMAIN ctx', ctx'[i].kind \in LoopBodies
             PROVE  ctx'[i].q[1] <= Len(quads')
  BY DEF Starts
<1>1. CASE i = Len(ctx')
  BY <1>1 DEF Replaced
<1>2. CASE i # Len(ctx')
  <2>1. i \in DOMAIN ctx /\ ctx'[i] = ctx[i]
    BY <1>0, <1>2 DEF Replaced
  <2>2. ctx[i].q[1] <= Len(quads)
    BY <1>0, <2>1 DEF Starts
  <2>3. ctx[i].q[1] \in Nat
    <3>1. ctx[i] \in FrameType
      BY <1>0, <2>1
    <3>2. Arity(ctx[i].kind) \in {2, 4}
      BY <2>1, ArityIs DEF LoopBodies
    <3>3. Len(ctx[i].q) = Arity(ctx[i].kind)
      BY <1>0, <2>1 DEF Shaped
    <3>4. ctx[i].q \in Seq(Nat)
      BY <3>1 DEF FrameType
    <3>5. Len(ctx[i].q) >= 1
      BY <3>2, <3>3
    <3> HIDE DEF FrameType
    <3> QED BY <3>4, <3>5
  <2> QED BY <1>0, <2>1, <2>2, <2>3
<1> QED BY <1>1, <1>2

\* A step that changes frames and quads only.
LEMMA SettleFrames ==
  ASSUME Nested, Ledgered, NEW n, NEW g \in FrameType, Replaced(ctx, ctx', n, g),
         OwesOnce(g), OpenKept, NEW pool, NEW paid, NEW fresh, Fills(paid, fresh),
         \A x \in pool : \E i \in DOMAIN ctx : i > Len(ctx) - n /\ x \in Owes(ctx[i]),
         paid \subseteq pool, Owes(g) \subseteq (pool \ paid) \union fresh,
         g.kind \in LoopBodies => g.q[1] <= Len(quads'), fresh \subseteq Owes(g),
         Bare(ctx) => \A i \in DOMAIN ctx :
           i > Len(ctx) - n => Owes(ctx[i]) \subseteq paid \union Owes(g)
  PROVE  Ledgered' /\ CoverKept
<1>1. /\ ctx \in Seq(FrameType) /\ Shaped(ctx) /\ Ledger(ctx, entries, quads)
      /\ Starts(ctx, Len(quads)) /\ Len(quads) \in Nat
      /\ \A x \in Unfilled(quads) : x \in Nat /\ x < Len(quads)
  BY LedgerTypes
<1>2. /\ quads' \in Seq(QuadType) /\ Len(quads) <= Len(quads') /\ NoneAgain(quads')
      /\ Bounded(quads', Len(quads')) /\ Unfilled(quads) \ paid \subseteq Unfilled(quads')
      /\ fresh \subseteq Unfilled(quads') /\ \A x \in fresh : x >= Len(quads)
  BY DEF Fills
<1>3. fresh \intersect Unfilled(quads) = {}
  <2>1. \A x \in fresh : ~(x < Len(quads))
    <3>1. \A x \in Unfilled(quads') : x \in Nat
      BY <1>2, UnfilledIs
    <3> QED BY <1>1, <1>2, <3>1
  <2> QED BY <1>1, <2>1
<1>4. 0 \notin Open(entries')
  BY EntriesAre DEF OpenKept, Open
<1>5. \A f \in Open(entries') : f # 0 => /\ f \in Open(entries)
                                         /\ entries'[f].address_list = entries[f].address_list
  BY DEF OpenKept
<1>6. Ledger(ctx', entries', quads')
  <2> HIDE DEF Owes, OwesOnce, Ledger, Replaced
  <2>1. Settles(ctx, entries, quads, n, g, entries', 0, quads', pool, paid, fresh)
    BY <1>1, <1>2, <1>3, <1>4, <1>5 DEF Settles
  <2> HIDE DEF Unfilled, Open
  <2> QED BY <1>1, <2>1, Settle
<1>7. Starts(ctx', Len(quads'))
  BY <1>2, StartsKept
<1>8. CoverKept
  <2>1. \A f \in Open(entries) : f # 0 =>
          f \in Open(entries') /\ entries'[f].address_list = entries[f].address_list
    BY DEF OpenKept
  <2>2. 0 \notin Open(entries)
    BY <1>4 DEF OpenKept
  <2>3. Hands(n, g, 0, paid, fresh)
    <3> HIDE DEF Owes, Bare, Open
    <3> QED BY <1>4, <2>1, <2>2 DEF Hands
  <2> HIDE DEF Owes, Replaced, Bare, Open
  <2> QED BY <1>1, <2>3, NothingForgotten
<1> QED BY <1>2, <1>6, <1>7, <1>8 DEF Ledgered

\* The statements that open and close nothing leave the lists of functions.
LEMMA SteadyOpen ==
  ASSUME Nested, Steady
  PROVE  OpenKept
<1>1. PICK es, os : Puts(entries, offset, es, os) /\ Puts(es, os, entries', offset')
  BY DEF Steady, SteadyTables
<1>2. /\ current_scope \in Nat /\ entries \in Seq(EntryType) /\ offset \in [Spaces -> Nat]
  BY CurrentIs DEF Steady, SteadyStack, Nested, Ordered
<1>3. /\ es \in Seq(EntryType) /\ os \in [Spaces -> Nat]
      /\ \A k \in DOMAIN entries : k \in DOMAIN es /\ es[k] = entries[k]
      /\ \A k \in DOMAIN es : k \notin DOMAIN entries => ~es[k].func_is_open
  BY <1>1, <1>2, PutAdds DEF Adds
<1>4. /\ entries' \in Seq(EntryType)
      /\ \A k \in DOMAIN es : k \in DOMAIN entries' /\ entries'[k] = es[k]
      /\ \A k \in DOMAIN entries' : k \notin DOMAIN es => ~entries'[k].func_is_open
  BY <1>1, <1>2, <1>3, PutAdds DEF Adds
<1> QED BY <1>3, <1>4 DEF OpenKept, Open
-----------------------------------------------------------------------------
(* Emitting and patching, step by step *)

\* Quads none of which was patched twice, and whose labels are at most n.
Sound(qs, n) == qs \in Seq(QuadType) /\ NoneAgain(qs) /\ Bounded(qs, n)

\* A bound on the labels may be raised.
LEMMA SoundGrows ==
  ASSUME NEW qs, NEW n \in Nat, NEW m \in Nat, n <= m, Sound(qs, n)
  PROVE  Sound(qs, m)
<1>1. \A i \in DOMAIN qs : qs[i].label \in Nat
  <2>1. \A i \in DOMAIN qs : qs[i] \in QuadType
    BY DEF Sound
  <2> QED BY <2>1 DEF QuadType
<1> QED BY <1>1 DEF Sound, Bounded

\* What quads of each sort wait for.
LEMMA QuadFields ==
  /\ \A op, label : Quad(op, label).patch = "none" /\ Quad(op, label).label = label
  /\ \A op : Hole(op).patch = "open" /\ Hole(op).label = 0
  /\ \A why, at : Owed(why, at).patch = "open" /\ Owed(why, at).label = 0
BY DEF Quad, Hole, Owed

\* One quad, and two.
LEMMA OneQuad ==
  ASSUME NEW q \in QuadType, q.patch # "again", NEW n \in Nat, q.label <= n
  PROVE  /\ Sound(<<q>>, n) /\ Len(<<q>>) = 1
         /\ Unfilled(<<q>>) = IF q.patch = "open" THEN {0} ELSE {}
<1>1. <<q>> \in Seq(QuadType) /\ Len(<<q>>) = 1 /\ DOMAIN <<q>> = {1} /\ <<q>>[1] = q
  OBVIOUS
<1>2. NoneAgain(<<q>>) /\ Bounded(<<q>>, n)
  BY <1>1 DEF NoneAgain, Bounded
<1>3. 0..(1 - 1) = {0} /\ 0 + 1 = 1
  OBVIOUS
<1>4. Unfilled(<<q>>) = IF q.patch = "open" THEN {0} ELSE {}
  BY <1>1, <1>3 DEF Unfilled
<1> QED BY <1>1, <1>2, <1>4 DEF Sound

\* Quads that are emitted keep the program sound, and wait with the others.
LEMMA EmitSound ==
  ASSUME NEW qs, NEW new, NEW n \in Nat, Sound(qs, n), Sound(new, n)
  PROVE  /\ Sound(qs \o new, n) /\ Len(qs \o new) = Len(qs) + Len(new)
         /\ Unfilled(qs \o new) = Unfilled(qs) \union {Len(qs) + x : x \in Unfilled(new)}
BY EmitFills DEF Sound

\* So does one quad.
LEMMA AppendSound ==
  ASSUME NEW qs, NEW n \in Nat, Sound(qs, n), NEW q \in QuadType, q.patch # "again",
         q.label <= n
  PROVE  /\ Sound(Append(qs, q), n) /\ Len(Append(qs, q)) = Len(qs) + 1
         /\ Unfilled(Append(qs, q)) =
              Unfilled(qs) \union (IF q.patch = "open" THEN {Len(qs)} ELSE {})
<1>1. Sound(<<q>>, n) /\ Len(<<q>>) = 1 /\ Unfilled(<<q>>) = IF q.patch = "open" THEN {0} ELSE {}
  BY OneQuad
<1>2. qs \in Seq(QuadType) /\ Len(qs) \in Nat
  BY DEF Sound
<1>3. Append(qs, q) = qs \o <<q>>
  BY <1>2
<1>4. /\ Sound(qs \o <<q>>, n) /\ Len(qs \o <<q>>) = Len(qs) + 1
      /\ Unfilled(qs \o <<q>>) = Unfilled(qs) \union {Len(qs) + x : x \in Unfilled(<<q>>)}
  BY <1>1, EmitSound
<1>5. {Len(qs) + x : x \in Unfilled(<<q>>)} = IF q.patch = "open" THEN {Len(qs)} ELSE {}
  <2> DEFINE k == Len(qs)
             u == Unfilled(<<q>>)
  <2>1. k \in Nat /\ u = IF q.patch = "open" THEN {0} ELSE {}
    BY <1>1, <1>2
  <2> HIDE DEF k, u
  <2>2. {k + x : x \in u} = IF q.patch = "open" THEN {k} ELSE {}
    BY <2>1
  <2> QED BY <2>2 DEF k, u
<1> QED BY <1>3, <1>4, <1>5

\* Two quads alone are sound, and those that are open wait.
LEMMA TwoQuads ==
  ASSUME NEW a \in QuadType, a.patch # "again", NEW b \in QuadType, b.patch # "again",
         NEW n \in Nat, a.label <= n, b.label <= n
  PROVE  /\ Sound(<<a, b>>, n) /\ Len(<<a, b>>) = 2
         /\ Unfilled(<<a, b>>) = (IF a.patch = "open" THEN {0} ELSE {})
                                   \union (IF b.patch = "open" THEN {1} ELSE {})
<1>1. /\ Sound(<<a>>, n) /\ Len(<<a>>) = 1
      /\ Unfilled(<<a>>) = IF a.patch = "open" THEN {0} ELSE {}
  BY OneQuad
<1>2. <<a, b>> = Append(<<a>>, b)
  OBVIOUS
<1>3. /\ Sound(Append(<<a>>, b), n) /\ Len(Append(<<a>>, b)) = Len(<<a>>) + 1
      /\ Unfilled(Append(<<a>>, b)) =
           Unfilled(<<a>>) \union (IF b.patch = "open" THEN {Len(<<a>>)} ELSE {})
  BY <1>1, AppendSound
<1> QED BY <1>1, <1>2, <1>3

\* Filling labels of waiting quads, each once, keeps the program sound.
LEMMA PatchSound ==
  ASSUME NEW qs, NEW n \in Nat, Sound(qs, n), NEW l \in Seq(Nat), IsInjective(l),
         ToSet(l) \subseteq Unfilled(qs), NEW label \in Nat, label <= n
  PROVE  /\ Sound(Patch(qs, l, label), n) /\ Len(Patch(qs, l, label)) = Len(qs)
         /\ Unfilled(Patch(qs, l, label)) = Unfilled(qs) \ ToSet(l)
BY PatchFills DEF Sound

\* So does filling one of them.
LEMMA PatchOne ==
  ASSUME NEW qs, NEW n \in Nat, Sound(qs, n), NEW x \in Nat, x \in Unfilled(qs),
         NEW label \in Nat, label <= n
  PROVE  LET p == Patch(qs, <<x>>, label)
         IN  Sound(p, n) /\ Len(p) = Len(qs) /\ Unfilled(p) = Unfilled(qs) \ {x}
<1> DEFINE l == <<x>>
<1>1. l \in Seq(Nat) /\ IsInjective(l) /\ ToSet(l) = {x}
  BY ListsAre
<1> HIDE DEF l
<1>2. /\ Sound(Patch(qs, l, label), n) /\ Len(Patch(qs, l, label)) = Len(qs)
      /\ Unfilled(Patch(qs, l, label)) = Unfilled(qs) \ ToSet(l)
  BY <1>1, PatchSound
<1> QED BY <1>1, <1>2 DEF l

\* So does filling one and then a list without it.
LEMMA PatchMore ==
  ASSUME NEW qs, NEW n \in Nat, Sound(qs, n), NEW x \in Nat, x \in Unfilled(qs),
         NEW l \in Seq(Nat), IsInjective(l), ToSet(l) \subseteq Unfilled(qs) \ {x},
         NEW label \in Nat, label <= n
  PROVE  LET p == Patch(qs, <<x>> \o l, label)
         IN  /\ Sound(p, n) /\ Len(p) = Len(qs)
             /\ Unfilled(p) = Unfilled(qs) \ ({x} \union ToSet(l))
<1> DEFINE k == <<x>>
           m == k \o l
<1>1. k \in Seq(Nat) /\ IsInjective(k) /\ ToSet(k) = {x}
  BY ListsAre
<1> HIDE DEF k
<1>2. m \in Seq(Nat) /\ IsInjective(m) /\ ToSet(m) = {x} \union ToSet(l)
  BY <1>1, MergeOnce
<1> HIDE DEF m
<1>3. /\ Sound(Patch(qs, m, label), n) /\ Len(Patch(qs, m, label)) = Len(qs)
      /\ Unfilled(Patch(qs, m, label)) = Unfilled(qs) \ ToSet(m)
  BY <1>2, PatchSound
<1> QED BY <1>2, <1>3 DEF m, k

\* The quads so far.
LEMMA SoundSoFar ==
  ASSUME Nested, Ledgered
  PROVE  /\ Sound(quads, Len(quads)) /\ Len(quads) \in Nat
         /\ \A n \in Nat : Len(quads) <= n => Sound(quads, n)
         /\ \A x \in Unfilled(quads) : x \in Nat /\ x < Len(quads)
<1>1. Sound(quads, Len(quads)) /\ Len(quads) \in Nat
  BY LedgerTypes DEF Sound
<1> QED BY <1>1, SoundGrows, LedgerTypes

\* What is emitted and patched fills what is paid, and leaves what is fresh.
LEMMA SoundFills ==
  ASSUME Nested, Ledgered, NEW paid, NEW fresh, Sound(quads', Len(quads')),
         Len(quads) <= Len(quads'),
         Unfilled(quads') = (Unfilled(quads) \ paid) \union fresh,
         \A x \in fresh : x >= Len(quads)
  PROVE  Fills(paid, fresh)
BY DEF Sound, Fills

\* A step that leaves the quads alone fills none.
LEMMA NothingFilled ==
  ASSUME Nested, Ledgered, UNCHANGED quads
  PROVE  Fills({}, {})
BY SoundSoFar, SoundFills

\* Frames that owe nothing of their own.
LEMMA PlainOwes ==
  ASSUME NEW kind \in Kinds \ {"if_then", "if_else", "while_body", "for_body"},
         NEW q \in Seq(Nat), NEW b \in Seq(Nat), NEW c \in Seq(Nat),
         IsInjective(b), IsInjective(c), ToSet(b) \intersect ToSet(c) = {}
  PROVE  LET g == Frame(kind, q, b, c)
         IN  /\ Owes(g) = ToSet(b) \union ToSet(c) /\ OwesOnce(g)
             /\ g.kind \notin LoopBodies /\ g \in FrameType /\ g.kind = kind
<1> DEFINE g == Frame(kind, q, b, c)
<1>1. g \in FrameType /\ g.kind = kind /\ g.b = b /\ g.c = c
  BY FrameIs
<1> HIDE DEF g
<1>2. Debts(g) = {} /\ DebtsApart(g) /\ g.kind \notin LoopBodies
  BY <1>1 DEF Debts, DebtsApart, LoopBodies
<1>3. Owes(g) = ToSet(b) \union ToSet(c) /\ OwesOnce(g)
  BY <1>1, <1>2 DEF Owes, OwesOnce
<1> QED BY <1>1, <1>2, <1>3 DEF g

\* The value of a statement owes what is in its lists.
LEMMA ValueOwes ==
  ASSUME NEW b \in Seq(Nat), NEW c \in Seq(Nat), IsInjective(b), IsInjective(c),
         ToSet(b) \intersect ToSet(c) = {}
  PROVE  LET g == Frame("stmt", <<>>, b, c)
         IN  /\ Owes(g) = ToSet(b) \union ToSet(c) /\ OwesOnce(g)
             /\ g.kind \notin LoopBodies /\ g \in FrameType /\ g.kind = "stmt"
<1> DEFINE kind == "stmt"
           q == <<>>
           g == Frame(kind, q, b, c)
<1>1. kind \in Kinds \ {"if_then", "if_else", "while_body", "for_body"} /\ q \in Seq(Nat)
  BY DEF Kinds
<1> HIDE DEF kind, q
<1>2. /\ Owes(g) = ToSet(b) \union ToSet(c) /\ OwesOnce(g)
      /\ g.kind \notin LoopBodies /\ g \in FrameType /\ g.kind = kind
  BY <1>1, PlainOwes
<1> QED BY <1>2 DEF kind, q

\* A frame that owes nothing is pushed, and nothing is patched.
LEMMA QuietPush ==
  ASSUME Nested, Ledgered, OpenKept, NEW kind \in {"stmt", "block"},
         Push(Frame(kind, <<>>, <<>>, <<>>)), Fills({}, {})
  PROVE  Ledgered' /\ CoverKept
<1> DEFINE nil == <<>>
           g == Frame(kind, nil, nil, nil)
<1>1. nil \in Seq(Nat) /\ ToSet(nil) = {} /\ IsInjective(nil)
  BY ListsAre
<1>2. ctx' = Append(ctx, g)
  BY DEF Push
<1> HIDE DEF nil
<1>3. Owes(g) = {} /\ OwesOnce(g) /\ g.kind \notin LoopBodies /\ g \in FrameType
  <2>1. kind \in Kinds \ {"if_then", "if_else", "while_body", "for_body"}
    BY DEF Kinds
  <2> QED BY <1>1, <2>1, PlainOwes
<1> HIDE DEF g
<1>4. ctx \in Seq(FrameType)
  BY LedgerTypes
<1>5. Replaced(ctx, ctx', 0, g)
  BY <1>2, <1>3, <1>4, PushReplaces
<1>6. /\ \A x \in {} : \E i \in DOMAIN ctx : i > Len(ctx) - 0 /\ x \in Owes(ctx[i])
      /\ \A i \in DOMAIN ctx : ~(i > Len(ctx) - 0)
  BY <1>4
<1> QED BY <1>3, <1>5, <1>6, SettleFrames
-----------------------------------------------------------------------------
(* Statements that owe nothing, and lists of statements *)

\* A step that changes no frame, entry or quad.
LEMMA StutterLedgered ==
  ASSUME Ledgered, UNCHANGED <<entries, ctx, quads>>
  PROVE  Ledgered' /\ CoverKept
<1>1. Ledgered'
  BY DEF Ledgered
<1>2. CoverKept
  BY DEF CoverKept
<1> QED BY <1>1, <1>2

\* Statements that emit quads without labels, or none.
LEMMA PlainLedgered ==
  ASSUME Nested, Ledgered, empty_statement \/ \E n \in Var : UseVariable(n)
           \/ LocalVariable(n) \/ GlobalVariable(n) \/ Assignment(n)
  PROVE  Ledgered' /\ CoverKept
<1>1. Steady
  BY PlainSteady, VariableSteady, AssignmentSteady
<1>2. OpenKept
  BY <1>1, SteadyOpen
<1>3. NULL_Statement
  BY DEF empty_statement, UseVariable, LocalVariable, GlobalVariable, Assignment
<1>4. UNCHANGED quads \/ quads' = quads \o <<Quad("assign", 0), Quad("assign", 0)>>
  BY DEF empty_statement, UseVariable, LocalVariable, GlobalVariable, Assignment
<1>5. ASSUME quads' = quads \o <<Quad("assign", 0), Quad("assign", 0)>>
      PROVE  Fills({}, {})
  <2> DEFINE q == Quad("assign", 0)
             n == Len(quads) + 2
  <2>1. q \in QuadType /\ q.patch = "none" /\ q.label = 0
    BY QuadIs, QuadFields
  <2>2. n \in Nat /\ Len(quads) <= n /\ Sound(quads, n)
    BY SoundSoFar
  <2> HIDE DEF q, n
  <2>3. Sound(<<q, q>>, n) /\ Len(<<q, q>>) = 2 /\ Unfilled(<<q, q>>) = {}
    BY <2>1, <2>2, TwoQuads
  <2>4. /\ Sound(quads \o <<q, q>>, n) /\ Len(quads \o <<q, q>>) = Len(quads) + 2
        /\ Unfilled(quads \o <<q, q>>) = Unfilled(quads)
    <3>1. /\ Sound(quads \o <<q, q>>, n)
          /\ Len(quads \o <<q, q>>) = Len(quads) + Len(<<q, q>>)
          /\ Unfilled(quads \o <<q, q>>) =
               Unfilled(quads) \union {Len(quads) + x : x \in Unfilled(<<q, q>>)}
      BY <2>2, <2>3, EmitSound
    <3>2. Len(quads \o <<q, q>>) = Len(quads) + 2
      BY <2>3, <3>1
    <3>3. Unfilled(quads \o <<q, q>>) = Unfilled(quads)
      BY <2>3, <3>1
    <3> QED BY <3>1, <3>2, <3>3
  <2>5. quads' = quads \o <<q, q>>
    BY <1>5 DEF q
  <2>6. Len(quads') = n
    BY <2>4, <2>5 DEF n
  <2>7. Sound(quads', Len(quads')) /\ Unfilled(quads') = Unfilled(quads)
    BY <2>4, <2>5, <2>6
  <2>8. Len(quads) <= Len(quads')
    BY <2>2, <2>6
  <2> QED BY <2>7, <2>8, SoundFills
<1>6. Fills({}, {})
  BY <1>4, <1>5, NothingFilled
<1>7. Push(Frame("stmt", <<>>, <<>>, <<>>))
  BY <1>3 DEF NULL_Statement, Statement
<1> QED BY <1>2, <1>6, <1>7, QuietPush

\* A statement just read, and what it belongs to, share no debts.
LEMMA PairOwes ==
  ASSUME Nested, Ledgered, NEW k, AfterStatement(k)
  PROVE  /\ Len(ctx) \in Nat /\ 1 < Len(ctx) /\ 2 \in 0..Len(ctx) /\ ctx \in Seq(FrameType)
         /\ Top \in FrameType /\ Below \in FrameType /\ Top.kind = "stmt" /\ Below.kind = k
         /\ Len(Below.q) = Arity(k) /\ Below = ctx[Len(ctx) - 1]
         /\ OwesOnce(Top) /\ OwesOnce(Below)
         /\ Owes(Top) = ToSet(Top.b) \union ToSet(Top.c)
         /\ Owes(Top) \intersect Owes(Below) = {}
         /\ Owes(Top) \subseteq Unfilled(quads) /\ Owes(Below) \subseteq Unfilled(quads)
         /\ \A x \in Owes(Top) \union Owes(Below) :
              \E i \in DOMAIN ctx : i > Len(ctx) - 2 /\ x \in Owes(ctx[i])
         /\ k \in LoopBodies => Below.q[1] <= Len(quads)
         /\ \A i \in DOMAIN ctx : i > Len(ctx) - 2 => ctx[i] = Top \/ ctx[i] = Below
         /\ (Bare(ctx) /\ k \in LoopBodies \union {"if_then", "body"})
              => Owes(Below) = Debts(Below)
<1>1. /\ Len(ctx) \in Nat /\ 1 < Len(ctx) /\ Top = ctx[Len(ctx)]
      /\ Top \in FrameType /\ Below \in FrameType /\ Top.kind = "stmt"
      /\ Below.kind = k /\ Len(Below.q) = Arity(k) /\ Below = ctx[Len(ctx) - 1]
      /\ DOMAIN ctx = 1..Len(ctx)
  BY AfterIs, LedgerTypes
<1>2. /\ Len(ctx) \in DOMAIN ctx /\ Len(ctx) - 1 \in DOMAIN ctx /\ 2 \in 0..Len(ctx)
      /\ Len(ctx) # Len(ctx) - 1 /\ Len(ctx) > Len(ctx) - 2 /\ Len(ctx) - 1 > Len(ctx) - 2
  <2>1. \A n \in Nat : 1 < n => /\ n \in 1..n /\ n - 1 \in 1..n /\ 2 \in 0..n
                                /\ n # n - 1 /\ n > n - 2 /\ n - 1 > n - 2
    OBVIOUS
  <2> QED BY <1>1, <2>1
<1>3. Ledger(ctx, entries, quads) /\ Starts(ctx, Len(quads)) /\ ctx \in Seq(FrameType)
  BY LedgerTypes
<1>4. /\ OwesOnce(Top) /\ OwesOnce(Below) /\ Owes(Top) \intersect Owes(Below) = {}
      /\ Owes(Top) \subseteq Unfilled(quads) /\ Owes(Below) \subseteq Unfilled(quads)
  <2> HIDE DEF Owes, OwesOnce
  <2> QED BY <1>1, <1>2, <1>3 DEF Ledger
<1>5. Debts(Top) = {}
  BY <1>1 DEF Debts
<1>6. \A x \in Owes(Top) \union Owes(Below) :
        \E i \in DOMAIN ctx : i > Len(ctx) - 2 /\ x \in Owes(ctx[i])
  <2> HIDE DEF Owes
  <2>1. \A x \in Owes(Top) : \E i \in DOMAIN ctx : i > Len(ctx) - 2 /\ x \in Owes(ctx[i])
    BY <1>1, <1>2
  <2>2. \A x \in Owes(Below) : \E i \in DOMAIN ctx : i > Len(ctx) - 2 /\ x \in Owes(ctx[i])
    BY <1>1, <1>2
  <2> QED BY <2>1, <2>2
<1>7. Owes(Top) = ToSet(Top.b) \union ToSet(Top.c)
  BY <1>5 DEF Owes
<1>8. k \in LoopBodies => Below.q[1] <= Len(quads)
  BY <1>1, <1>2, <1>3 DEF Starts
<1>9. \A i \in DOMAIN ctx : i > Len(ctx) - 2 => ctx[i] = Top \/ ctx[i] = Below
  <2>1. \A n \in Nat : \A i \in 1..n : i > n - 2 => i = n \/ i = n - 1
    OBVIOUS
  <2>2. \A i \in DOMAIN ctx : i > Len(ctx) - 2 => i = Len(ctx) \/ i = Len(ctx) - 1
    BY <1>1, <2>1
  <2> QED BY <1>1, <2>2
<1>10. (Bare(ctx) /\ k \in LoopBodies \union {"if_then", "body"})
         => Owes(Below) = Debts(Below)
  <2>1. (Bare(ctx) /\ k \in LoopBodies \union {"if_then", "body"}) => Listless(Below)
    BY <1>1, <1>2 DEF Bare
  <2> QED BY <2>1, ListsAre DEF Listless, Owes
<1> QED BY <1>1, <1>2, <1>3, <1>4, <1>6, <1>7, <1>8, <1>9, <1>10

\* The lists of two frames that share no debts merge.
LEMMA MergeOwes ==
  ASSUME NEW g \in FrameType, NEW h \in FrameType, OwesOnce(g), OwesOnce(h),
         Owes(g) \intersect Owes(h) = {}
  PROVE  LET b == merge_lists(g.b, h.b)
             c == merge_lists(g.c, h.c)
         IN  /\ b \in Seq(Nat) /\ c \in Seq(Nat) /\ IsInjective(b) /\ IsInjective(c)
             /\ ToSet(b) = ToSet(g.b) \union ToSet(h.b)
             /\ ToSet(c) = ToSet(g.c) \union ToSet(h.c)
             /\ ToSet(b) \intersect ToSet(c) = {}
             /\ Debts(g) \intersect ToSet(b) = {} /\ Debts(g) \intersect ToSet(c) = {}
<1>1. g.b \in Seq(Nat) /\ g.c \in Seq(Nat) /\ h.b \in Seq(Nat) /\ h.c \in Seq(Nat)
  BY DEF FrameType
<1> DEFINE b == merge_lists(g.b, h.b)
           c == merge_lists(g.c, h.c)
<1>2. /\ IsInjective(g.b) /\ IsInjective(g.c) /\ IsInjective(h.b) /\ IsInjective(h.c)
      /\ ToSet(g.b) \intersect ToSet(g.c) = {} /\ ToSet(h.b) \intersect ToSet(h.c) = {}
      /\ Debts(g) \intersect ToSet(g.b) = {} /\ Debts(g) \intersect ToSet(g.c) = {}
  BY DEF OwesOnce
<1>3. /\ ToSet(g.b) \intersect ToSet(h.b) = {} /\ ToSet(g.c) \intersect ToSet(h.c) = {}
      /\ ToSet(g.b) \intersect ToSet(h.c) = {} /\ ToSet(g.c) \intersect ToSet(h.b) = {}
      /\ Debts(g) \intersect ToSet(h.b) = {} /\ Debts(g) \intersect ToSet(h.c) = {}
  BY DEF Owes
<1>4. /\ b \in Seq(Nat) /\ ToSet(b) = ToSet(g.b) \union ToSet(h.b) /\ IsInjective(b)
  BY <1>1, <1>2, <1>3, MergeOnce DEF merge_lists
<1>5. /\ c \in Seq(Nat) /\ ToSet(c) = ToSet(g.c) \union ToSet(h.c) /\ IsInjective(c)
  BY <1>1, <1>2, <1>3, MergeOnce DEF merge_lists
<1> HIDE DEF b, c
<1>6. /\ ToSet(b) \intersect ToSet(c) = {}
      /\ Debts(g) \intersect ToSet(b) = {} /\ Debts(g) \intersect ToSet(c) = {}
  BY <1>2, <1>3, <1>4, <1>5
<1> QED BY <1>4, <1>5, <1>6 DEF b, c

\* A statement joins the list it belongs to, and hands it its debts.
LEMMA ListLedgered ==
  ASSUME Nested, Ledgered, all_statements
  PROVE  Ledgered' /\ CoverKept
<1> DEFINE b == merge_lists(Below.b, Top.b)
           c == merge_lists(Below.c, Top.c)
           g == [Below EXCEPT !.b = b, !.c = c]
<1>1. PICK k \in Lists : AfterStatement(k)
  BY DEF all_statements
<1>2. /\ ctx \in Seq(FrameType) /\ 2 \in 0..Len(ctx)
      /\ Top \in FrameType /\ Below \in FrameType /\ Below.kind = k
      /\ OwesOnce(Top) /\ OwesOnce(Below)
      /\ Owes(Top) = ToSet(Top.b) \union ToSet(Top.c)
      /\ Owes(Below) \intersect Owes(Top) = {}
      /\ \A x \in Owes(Top) \union Owes(Below) :
           \E i \in DOMAIN ctx : i > Len(ctx) - 2 /\ x \in Owes(ctx[i])
      /\ \A i \in DOMAIN ctx : i > Len(ctx) - 2 => ctx[i] = Top \/ ctx[i] = Below
  BY <1>1, PairOwes
<1>3. /\ b \in Seq(Nat) /\ c \in Seq(Nat) /\ IsInjective(b) /\ IsInjective(c)
      /\ ToSet(b) = ToSet(Below.b) \union ToSet(Top.b)
      /\ ToSet(c) = ToSet(Below.c) \union ToSet(Top.c)
      /\ ToSet(b) \intersect ToSet(c) = {}
  BY <1>2, MergeOwes
<1>4. ctx' = Append(SubSeq(ctx, 1, Len(ctx) - 2), g)
  BY DEF all_statements
<1> HIDE DEF b, c
<1>5. /\ g \in FrameType /\ g.kind = k /\ g.b = b /\ g.c = c
  BY <1>2, <1>3 DEF FrameType
<1>6. Debts(Below) = {}
  BY <1>2 DEF Debts, Lists
<1> HIDE DEF g
<1>7. Debts(g) = {} /\ DebtsApart(g) /\ g.kind \notin LoopBodies
  BY <1>5 DEF Debts, DebtsApart, Lists, LoopBodies
<1>8. OwesOnce(g)
  BY <1>3, <1>5, <1>7 DEF OwesOnce
<1>9. /\ Owes(g) \subseteq ((Owes(Top) \union Owes(Below)) \ {}) \union {}
      /\ Owes(Top) \subseteq {} \union Owes(g) /\ Owes(Below) \subseteq {} \union Owes(g)
  <2>1. Owes(g) = ToSet(b) \union ToSet(c)
    BY <1>5, <1>7 DEF Owes
  <2>2. ToSet(Below.b) \union ToSet(Below.c) = Owes(Below)
    BY <1>6 DEF Owes
  <2> QED BY <1>2, <1>3, <2>1, <2>2
<1>10. Replaced(ctx, ctx', 2, g)
  BY <1>2, <1>4, <1>5, PopPush
<1>11. OpenKept /\ Fills({}, {})
  BY SteadyOpen, PlainSteady, NothingFilled DEF all_statements
<1>12. {} \subseteq Owes(Top) \union Owes(Below) /\ {} \subseteq Owes(g)
  OBVIOUS
<1>13. \A i \in DOMAIN ctx : i > Len(ctx) - 2 => Owes(ctx[i]) \subseteq {} \union Owes(g)
  BY <1>2, <1>9
<1> HIDE DEF Owes
<1> QED BY <1>2, <1>5, <1>7, <1>8, <1>9, <1>10, <1>11, <1>12, <1>13, SettleFrames
-----------------------------------------------------------------------------
(* Blocks, branches and jumps *)

\* A step that leaves the entries alone keeps the open functions.
LEMMA SameOpen ==
  ASSUME Nested, UNCHANGED entries
  PROVE  OpenKept
BY NestedTypes DEF OpenKept, Nested, Ordered

\* The frame on top and its debts.
LEMMA TopOwes ==
  ASSUME Nested, Ledgered
  PROVE  /\ OwesOnce(Top) /\ Owes(Top) \subseteq Unfilled(quads)
         /\ \A x \in Owes(Top) : \E i \in DOMAIN ctx : i > Len(ctx) - 1 /\ x \in Owes(ctx[i])
         /\ \A i \in DOMAIN ctx : i > Len(ctx) - 1 => ctx[i] = Top
<1>1. /\ Ledger(ctx, entries, quads) /\ Len(ctx) \in Nat \ {0} /\ DOMAIN ctx = 1..Len(ctx)
      /\ Top = ctx[Len(ctx)]
  BY LedgerTypes
<1>2. /\ Len(ctx) \in DOMAIN ctx /\ Len(ctx) > Len(ctx) - 1
      /\ \A i \in DOMAIN ctx : i > Len(ctx) - 1 => i = Len(ctx)
  <2>1. \A n \in Nat \ {0} : n \in 1..n /\ n > n - 1 /\ \A i \in 1..n : i > n - 1 => i = n
    OBVIOUS
  <2> QED BY <1>1, <2>1
<1> HIDE DEF Owes, OwesOnce
<1> QED BY <1>1, <1>2 DEF Ledger

\* "{" and "}" of a block: what was owed inside it is owed by it.
LEMMA BlockLedgered ==
  ASSUME Nested, Ledgered, block_open \/ block_close
  PROVE  Ledgered' /\ CoverKept
<1>1. CASE block_open
  <2>1. /\ Push(Frame("block", <<>>, <<>>, <<>>)) /\ UNCHANGED entries /\ UNCHANGED quads
    BY <1>1 DEF block_open
  <2> QED BY <2>1, SameOpen, NothingFilled, QuietPush
<1>2. CASE block_close
  <2>1. /\ Top.kind = "block" /\ UNCHANGED quads /\ Reduce(1, Top.b, Top.c)
        /\ entries' = Sym!Deactivate(entries, current_scope)
    BY <1>2 DEF block_close
  <2> DEFINE g == Frame("stmt", <<>>, Top.b, Top.c)
  <2>3. Top \in FrameType /\ Top.b \in Seq(Nat) /\ Top.c \in Seq(Nat)
    BY LedgerTypes DEF FrameType
  <2>4. Replaced(ctx, ctx', 1, g)
    BY <2>1, <2>3, TopReduced, NestedTypes
  <2>5. OpenKept
    <3>1. entries \in Seq(EntryType) /\ current_scope \in Nat
      BY <2>1, LedgerTypes, CurrentIs
    <3> QED BY <2>1, <3>1, HiddenIs DEF OpenKept, Open
  <2>6. /\ OwesOnce(Top) /\ Owes(Top) \subseteq Unfilled(quads)
        /\ \A x \in Owes(Top) : \E i \in DOMAIN ctx : i > Len(ctx) - 1 /\ x \in Owes(ctx[i])
        /\ \A i \in DOMAIN ctx : i > Len(ctx) - 1 => ctx[i] = Top
    BY TopOwes
  <2>7. /\ Owes(g) = ToSet(Top.b) \union ToSet(Top.c) /\ OwesOnce(g)
        /\ g.kind \notin LoopBodies /\ g \in FrameType
    <3>1. IsInjective(Top.b) /\ IsInjective(Top.c) /\ ToSet(Top.b) \intersect ToSet(Top.c) = {}
      BY <2>6 DEF OwesOnce
    <3> QED BY <2>3, <3>1, ValueOwes
  <2> HIDE DEF g
  <2>8. /\ Owes(g) \subseteq (Owes(Top) \ {}) \union {} /\ {} \subseteq Owes(g)
        /\ \A i \in DOMAIN ctx : i > Len(ctx) - 1 => Owes(ctx[i]) \subseteq {} \union Owes(g)
    <3>1. ToSet(Top.b) \union ToSet(Top.c) = Owes(Top)
      BY <2>1 DEF Owes, Debts
    <3> QED BY <2>6, <2>7, <3>1
  <2>9. Fills({}, {}) /\ {} \subseteq Owes(Top)
    BY <2>1, NothingFilled
  <2> HIDE DEF Owes
  <2> QED BY <2>4, <2>5, <2>6, <2>7, <2>8, <2>9, SettleFrames
<1> QED BY <1>1, <1>2

\* The head of a branch or a loop owes the jumps it emits.
LEMMA HeadPush ==
  ASSUME Nested, Ledgered, OpenKept, NEW k \in {"if_then", "while_body", "for_body"},
         NEW q \in Seq(Nat), Push(Frame(k, q, <<>>, <<>>)), NEW fresh, Fills({}, fresh),
         Debts(Frame(k, q, <<>>, <<>>)) = fresh, DebtsApart(Frame(k, q, <<>>, <<>>)),
         q[1] <= Len(quads')
  PROVE  Ledgered' /\ CoverKept
<1> DEFINE nil == <<>>
           g == Frame(k, q, nil, nil)
<1>1. nil \in Seq(Nat) /\ ToSet(nil) = {} /\ IsInjective(nil)
  BY ListsAre
<1>2. ctx' = Append(ctx, g) /\ Debts(g) = fresh /\ DebtsApart(g)
  BY DEF Push
<1> HIDE DEF nil
<1>3. g \in FrameType /\ g.kind = k /\ g.q = q /\ g.b = nil /\ g.c = nil
  <2>1. k \in Kinds
    BY DEF Kinds
  <2> QED BY <1>1, <2>1, FrameIs
<1> HIDE DEF g
<1>4. Owes(g) = Debts(g) /\ OwesOnce(g)
  BY <1>1, <1>2, <1>3 DEF Owes, OwesOnce
<1>5. Replaced(ctx, ctx', 0, g)
  BY <1>2, <1>3, PushReplaces, LedgerTypes
<1>6. /\ \A x \in {} : \E i \in DOMAIN ctx : i > Len(ctx) - 0 /\ x \in Owes(ctx[i])
      /\ {} \subseteq {} /\ Owes(g) \subseteq ({} \ {}) \union fresh
      /\ fresh \subseteq Owes(g) /\ \A i \in DOMAIN ctx : ~(i > Len(ctx) - 0)
  BY <1>2, <1>4, LedgerTypes
<1>7. g.kind \in LoopBodies => g.q[1] <= Len(quads')
  BY <1>3
<1> DEFINE none == {}
<1>8. /\ \A x \in none : \E i \in DOMAIN ctx : i > Len(ctx) - 0 /\ x \in Owes(ctx[i])
      /\ none \subseteq none /\ Owes(g) \subseteq (none \ none) \union fresh
      /\ fresh \subseteq Owes(g) /\ Fills(none, fresh)
      /\ Bare(ctx) => \A i \in DOMAIN ctx :
           i > Len(ctx) - 0 => Owes(ctx[i]) \subseteq none \union Owes(g)
  BY <1>6
<1> HIDE DEF none
<1>9. g \in FrameType /\ OwesOnce(g)
  BY <1>3, <1>4
<1> HIDE DEF Owes, OwesOnce, Bare
<1> QED BY <1>5, <1>7, <1>8, <1>9, SettleFrames

\* A branch or a loop that is complete pays for its jumps.
LEMMA Completed ==
  ASSUME Nested, Ledgered, OpenKept, NEW k, AfterStatement(k), NEW g \in FrameType,
         ctx' = Append(SubSeq(ctx, 1, Len(ctx) - 2), g), OwesOnce(g),
         g.kind \notin LoopBodies, NEW paid, paid \subseteq Owes(Top) \union Owes(Below),
         NEW fresh, Fills(paid, fresh),
         Owes(g) \subseteq ((Owes(Top) \union Owes(Below)) \ paid) \union fresh,
         fresh \subseteq Owes(g),
         Bare(ctx) => Owes(Top) \union Owes(Below) \subseteq paid \union Owes(g)
  PROVE  Ledgered' /\ CoverKept
<1>1. /\ 2 \in 0..Len(ctx) /\ ctx \in Seq(FrameType)
      /\ \A x \in Owes(Top) \union Owes(Below) :
              \E i \in DOMAIN ctx : i > Len(ctx) - 2 /\ x \in Owes(ctx[i])
      /\ \A i \in DOMAIN ctx : i > Len(ctx) - 2 => ctx[i] = Top \/ ctx[i] = Below
  BY PairOwes
<1>2. Replaced(ctx, ctx', 2, g)
  BY <1>1, PopPush
<1> HIDE DEF Owes
<1>3. Bare(ctx) => \A i \in DOMAIN ctx :
        i > Len(ctx) - 2 => Owes(ctx[i]) \subseteq paid \union Owes(g)
  BY <1>1
<1> QED BY <1>1, <1>2, <1>3, SettleFrames

\* What a test emits waits at its false jump.
LEMMA TestSound ==
  ASSUME Nested, Ledgered, NEW code \in {0, 1}
  PROVE  LET p == quads \o Test(code)
         IN  /\ Sound(p, Len(p)) /\ Len(p) = Len(quads) + code + 2
             /\ Unfilled(p) = Unfilled(quads) \union {FalseJump(code)}
             /\ FalseJump(code) \in Nat /\ FalseJump(code) >= Len(quads)
<1> DEFINE n == Len(quads) + code + 2
           u == Quad("uminus", 0)
           a == Quad("if_eq", next_quad + code + 2)
           h == Hole("jump")
           k == Len(quads)
           cs == Code(code)
<1>1. /\ k \in Nat /\ n \in Nat /\ k <= n /\ Sound(quads, k) /\ next_quad = k
      /\ n = k + code + 2
  BY SoundSoFar DEF next_quad
<1>2. /\ a \in QuadType /\ a.patch = "none" /\ a.label = n
      /\ h \in QuadType /\ h.patch = "open" /\ h.label = 0
      /\ u \in QuadType /\ u.patch = "none" /\ u.label = 0
  BY <1>1, QuadIs, QuadFields
<1>3. cs \in Seq(QuadType) /\ Len(cs) = code /\ \A i \in DOMAIN cs : cs[i] = u
  BY CodeIs DEF Code
<1>4. Test(code) = cs \o <<a, h>> /\ FalseJump(code) = k + code + 1
  BY <1>1 DEF Test, FalseJump
<1>5. Sound(quads, n)
  BY <1>1, SoundGrows
<1> HIDE DEF n, u, a, h, k, cs
<1>6. Sound(cs, n) /\ Unfilled(cs) = {}
  <2>1. NoneAgain(cs) /\ Bounded(cs, n)
    BY <1>1, <1>2, <1>3 DEF NoneAgain, Bounded
  <2>2. \A x \in Unfilled(cs) : x + 1 \in DOMAIN cs /\ cs[x + 1].patch = "open"
    BY <1>3, UnfilledIs
  <2> QED BY <1>2, <1>3, <2>1, <2>2 DEF Sound
<1>7. Sound(<<a, h>>, n) /\ Len(<<a, h>>) = 2 /\ Unfilled(<<a, h>>) = {1}
  <2>1. a.label <= n /\ h.label <= n /\ a.patch # "again" /\ h.patch # "again"
    BY <1>1, <1>2
  <2>2. /\ Sound(<<a, h>>, n) /\ Len(<<a, h>>) = 2
        /\ Unfilled(<<a, h>>) = (IF a.patch = "open" THEN {0} ELSE {})
                                   \union (IF h.patch = "open" THEN {1} ELSE {})
    BY <1>1, <1>2, <2>1, TwoQuads
  <2> QED BY <1>2, <2>2
<1> DEFINE t == cs \o <<a, h>>
<1>8. /\ Sound(t, n) /\ Len(t) = code + 2 /\ Unfilled(t) = {code + 1}
  <2>1. /\ Sound(t, n) /\ Len(t) = Len(cs) + Len(<<a, h>>)
        /\ Unfilled(t) = Unfilled(cs) \union {Len(cs) + x : x \in Unfilled(<<a, h>>)}
    BY <1>1, <1>6, <1>7, EmitSound
  <2>2. {code + x : x \in {1}} = {code + 1}
    OBVIOUS
  <2>3. Unfilled(t) = {} \union {code + x : x \in {1}}
    BY <1>3, <1>6, <1>7, <2>1
  <2>4. Len(t) = code + 2
    BY <1>3, <1>7, <2>1
  <2> QED BY <2>1, <2>2, <2>3, <2>4
<1> HIDE DEF t
<1>9. /\ Sound(quads \o t, n) /\ Len(quads \o t) = n
      /\ Unfilled(quads \o t) = Unfilled(quads) \union {k + code + 1}
  <2>1. /\ Sound(quads \o t, n) /\ Len(quads \o t) = Len(quads) + Len(t)
        /\ Unfilled(quads \o t) = Unfilled(quads) \union {Len(quads) + x : x \in Unfilled(t)}
    BY <1>1, <1>5, <1>8, EmitSound
  <2>2. Len(quads) = k
    BY DEF k
  <2>3. {k + x : x \in {code + 1}} = {k + (code + 1)} /\ k + (code + 1) = k + code + 1
    BY <1>1
  <2>4. Len(quads \o t) = n
    BY <1>1, <1>8, <2>1, <2>2
  <2>5. {Len(quads) + x : x \in Unfilled(t)} = {k + code + 1}
    BY <1>8, <2>2, <2>3
  <2> QED BY <2>1, <2>4, <2>5
<1>10. FalseJump(code) \in Nat /\ FalseJump(code) >= k
  BY <1>1, <1>4
<1>11. Test(code) = t
  BY <1>4 DEF t
<1> QED BY <1>4, <1>9, <1>10, <1>11 DEF n, k

\* The heads of branches and of "while" loops.
LEMMA TestLedgered ==
  ASSUME Nested, Ledgered, NEW code \in {0, 1}, if_prefix(code) \/ while_start(code)
  PROVE  Ledgered' /\ CoverKept
<1> DEFINE x == FalseJump(code)
<1>1. quads' = quads \o Test(code)
  BY DEF if_prefix, while_start
<1>2. /\ Sound(quads', Len(quads')) /\ Len(quads') = Len(quads) + code + 2
      /\ Unfilled(quads') = Unfilled(quads) \union {x} /\ x \in Nat /\ x >= Len(quads)
  BY <1>1, TestSound
<1>3. Len(quads) \in Nat /\ next_quad = Len(quads)
  BY SoundSoFar DEF next_quad
<1>4. Len(quads) <= Len(quads') /\ x <= Len(quads')
  <2>1. x = Len(quads) + code + 1
    BY <1>3 DEF FalseJump
  <2> QED BY <1>2, <1>3, <2>1
<1> HIDE DEF x
<1>5. Fills({}, {x})
  BY <1>2, <1>4, SoundFills
<1>6. OpenKept
  <2>1. Steady
    <3>1. 0 \in {0, 1}
      OBVIOUS
    <3> QED BY <3>1, IfSteady, LoopHeadSteady
  <2> QED BY <2>1, SteadyOpen
<1>7. CASE if_prefix(code)
  <2> DEFINE k == "if_then"
             q == <<x>>
             g == Frame(k, q, <<>>, <<>>)
  <2>1. q \in Seq(Nat) /\ q[1] = x /\ k \in {"if_then", "while_body", "for_body"}
    BY <1>2
  <2>2. Push(Frame(k, q, <<>>, <<>>))
    BY <1>7 DEF if_prefix, x
  <2>3. g.kind = "if_then" /\ g.q = <<x>>
    BY DEF Frame
  <2>4. Debts(g) = {x} /\ DebtsApart(g)
    BY <2>3 DEF Debts, DebtsApart
  <2> HIDE DEF k, q
  <2> QED BY <1>4, <1>5, <1>6, <2>1, <2>2, <2>4, HeadPush
<1>8. CASE while_start(code)
  <2> DEFINE k == "while_body"
             q == <<next_quad, x>>
             g == Frame(k, q, <<>>, <<>>)
  <2>1. q \in Seq(Nat) /\ q[1] = next_quad /\ k \in {"if_then", "while_body", "for_body"}
    BY <1>2, <1>3
  <2>2. Push(Frame(k, q, <<>>, <<>>))
    BY <1>8 DEF while_start, x
  <2>3. g.kind = "while_body" /\ g.q = <<next_quad, x>>
    BY DEF Frame
  <2>4. Debts(g) = {x} /\ DebtsApart(g)
    BY <2>3 DEF Debts, DebtsApart
  <2> HIDE DEF k, q
  <2> QED BY <1>3, <1>4, <1>5, <1>6, <2>1, <2>2, <2>4, HeadPush
<1> QED BY <1>7, <1>8

\* A statement completes its branch: the false jump is patched, or goes on to
\* the "else", with a jump over it.
LEMMA BranchLedgered ==
  ASSUME Nested, Ledgered, if_without_else \/ else_prefix \/ if_else
  PROVE  Ledgered' /\ CoverKept
<1> DEFINE n == Len(quads)
           b == Top.b
           c == Top.c
<1>1. OpenKept
  BY BranchSteady, SteadyOpen
<1>2. /\ Sound(quads, n) /\ n \in Nat /\ next_quad = n
      /\ \A x \in Unfilled(quads) : x \in Nat /\ x < n
  BY SoundSoFar DEF next_quad
<1>3. \E k \in {"if_then", "if_else"} : AfterStatement(k)
  BY DEF if_without_else, else_prefix, if_else
<1>4. /\ OwesOnce(Top) /\ OwesOnce(Below) /\ Top \in FrameType /\ Below \in FrameType
      /\ Owes(Top) = ToSet(b) \union ToSet(c)
      /\ Owes(Top) \intersect Owes(Below) = {}
      /\ Owes(Top) \subseteq Unfilled(quads) /\ Owes(Below) \subseteq Unfilled(quads)
  BY <1>3, PairOwes
<1>5. /\ b \in Seq(Nat) /\ c \in Seq(Nat) /\ IsInjective(b) /\ IsInjective(c)
      /\ ToSet(b) \intersect ToSet(c) = {}
  BY <1>4 DEF FrameType, OwesOnce
<1> HIDE DEF b, c
<1>6. CASE if_without_else
  <2> DEFINE q == Below.q
             x == Below.q[1]
             g == Frame("stmt", <<>>, b, c)
             k == "if_then"
  <2>1. /\ AfterStatement(k) /\ quads' = Patch(quads, q, n)
        /\ ctx' = Append(SubSeq(ctx, 1, Len(ctx) - 2), g)
    BY <1>2, <1>6 DEF if_without_else, Reduce, b, c
  <2>2. Below.kind = "if_then" /\ Len(q) = Arity(k)
    BY <2>1, PairOwes
  <2>3. Arity(k) = 1
    BY ArityIs
  <2>4. q \in Seq(Nat)
    BY <1>4 DEF FrameType
  <2>5. Debts(Below) = {x}
    BY <2>2 DEF Debts
  <2>6. x \in Owes(Below)
    BY <2>5 DEF Owes
  <2> HIDE DEF q, k
  <2>7. ToSet(q) = {x} /\ IsInjective(q)
    <3>1. DOMAIN q = {1}
      BY <2>2, <2>3, <2>4
    <3> QED BY <3>1 DEF ToSet, IsInjective, q
  <2>8. /\ Sound(quads', n) /\ Len(quads') = n /\ Unfilled(quads') = Unfilled(quads) \ {x}
    BY <1>2, <1>4, <2>1, <2>4, <2>6, <2>7, PatchSound
  <2>9. Fills({x}, {})
    <3>1. Len(quads) <= Len(quads')
      BY <1>2, <2>8
    <3> QED BY <2>8, <3>1, SoundFills
  <2>10. Owes(g) = Owes(Top) /\ OwesOnce(g) /\ g.kind \notin LoopBodies /\ g \in FrameType
    BY <1>4, <1>5, ValueOwes
  <2> HIDE DEF g, x
  <2>11. /\ {x} \subseteq Owes(Top) \union Owes(Below)
         /\ Owes(g) \subseteq ((Owes(Top) \union Owes(Below)) \ {x}) \union {}
         /\ {} \subseteq Owes(g)
         /\ Bare(ctx) => Owes(Top) \union Owes(Below) \subseteq {x} \union Owes(g)
    <3>1. Bare(ctx) => Owes(Below) = Debts(Below)
      BY <2>1, PairOwes DEF k
    <3> QED BY <1>4, <2>5, <2>6, <2>10, <3>1
  <2> QED BY <1>1, <2>1, <2>9, <2>10, <2>11, Completed
<1>7. CASE else_prefix
  <2> DEFINE q == Below.q
             x == Below.q[1]
             r == Append(q, n)
             g == Frame("if_else", r, b, c)
             h == Hole("jump")
             k == "if_then"
  <2>1. /\ AfterStatement(k) /\ quads' = Append(quads, h)
        /\ ctx' = Append(SubSeq(ctx, 1, Len(ctx) - 2), g)
    BY <1>2, <1>7 DEF else_prefix, b, c
  <2>2. Below.kind = "if_then" /\ Len(q) = Arity(k)
    BY <2>1, PairOwes
  <2>3. Arity(k) = 1
    BY ArityIs
  <2>4. q \in Seq(Nat)
    BY <1>4 DEF FrameType
  <2>5. Debts(Below) = {x}
    BY <2>2 DEF Debts
  <2>6. x \in Owes(Below)
    BY <2>5 DEF Owes
  <2>7. h \in QuadType /\ h.patch = "open" /\ h.label = 0
    BY QuadIs, QuadFields
  <2> HIDE DEF q, k
  <2>8. Len(q) = 1
    BY <2>2, <2>3
  <2>9. r \in Seq(Nat) /\ r[1] = x /\ r[2] = n
    BY <1>2, <2>4, <2>8 DEF q
  <2> HIDE DEF h, r
  <2>10. /\ Sound(quads', n + 1) /\ Len(quads') = n + 1
         /\ Unfilled(quads') = Unfilled(quads) \union {n}
    <3>1. n + 1 \in Nat /\ Sound(quads, n + 1) /\ h.label <= n + 1 /\ h.patch # "again"
      BY <1>2, <2>7, SoundGrows
    <3>2. Sound(Append(quads, h), n + 1) /\ Len(Append(quads, h)) = Len(quads) + 1
          /\ Unfilled(Append(quads, h)) =
              Unfilled(quads) \union (IF h.patch = "open" THEN {Len(quads)} ELSE {})
      BY <2>7, <3>1, AppendSound
    <3> QED BY <2>1, <2>7, <3>2
  <2>11. Fills({}, {n})
    <3>1. Len(quads) <= Len(quads') /\ Sound(quads', Len(quads'))
      BY <1>2, <2>10
    <3> QED BY <1>2, <2>10, <3>1, SoundFills
  <2>12. /\ g \in FrameType /\ g.kind = "if_else" /\ g.q = r /\ g.b = b /\ g.c = c
    <3>1. "if_else" \in Kinds
      BY DEF Kinds
    <3> QED BY <1>5, <2>9, <3>1, FrameIs
  <2> HIDE DEF g
  <2>13. x # n /\ x \notin Owes(Top) /\ n \notin Owes(Top)
    BY <1>2, <1>4, <2>6
  <2>14. Debts(g) = {x, n} /\ DebtsApart(g)
    BY <2>9, <2>12, <2>13 DEF Debts, DebtsApart
  <2>15. Owes(g) = {x, n} \union Owes(Top) /\ g.kind \notin LoopBodies
    BY <1>4, <2>12, <2>14 DEF Owes, LoopBodies
  <2>16. OwesOnce(g)
    BY <1>4, <1>5, <2>12, <2>13, <2>14 DEF OwesOnce
  <2> HIDE DEF x
  <2>17. /\ {} \subseteq Owes(Top) \union Owes(Below)
         /\ Owes(g) \subseteq ((Owes(Top) \union Owes(Below)) \ {}) \union {n}
         /\ {n} \subseteq Owes(g)
         /\ Bare(ctx) => Owes(Top) \union Owes(Below) \subseteq {} \union Owes(g)
    <3>1. Bare(ctx) => Owes(Below) = Debts(Below)
      BY <2>1, PairOwes DEF k
    <3> QED BY <2>5, <2>6, <2>15, <3>1 DEF x
  <2> QED BY <1>1, <2>1, <2>11, <2>12, <2>15, <2>16, <2>17, Completed
<1>8. CASE if_else
  <2> DEFINE x == Below.q[1]
             y == Below.q[2]
             b2 == merge_lists(Below.b, b)
             c2 == merge_lists(Below.c, c)
             g == Frame("stmt", <<>>, b2, c2)
             p == Patch(quads, <<x>>, y + 1)
  <2>1. /\ AfterStatement("if_else") /\ quads' = Patch(p, <<y>>, n)
        /\ ctx' = Append(SubSeq(ctx, 1, Len(ctx) - 2), g)
    BY <1>2, <1>8 DEF if_else, Reduce, b, c
  <2>2. Below.kind = "if_else"
    BY <2>1 DEF AfterStatement
  <2>3. Debts(Below) = {x, y} /\ x # y
    BY <1>4, <2>2 DEF Debts, DebtsApart, OwesOnce
  <2>4. x \in Owes(Below) /\ y \in Owes(Below)
    BY <2>3 DEF Owes
  <2>5. x \in Unfilled(quads) /\ y \in Unfilled(quads) /\ x \in Nat /\ y \in Nat /\ y + 1 <= n
    BY <1>2, <1>4, <2>4
  <2> HIDE DEF x, y
  <2>6. /\ Sound(p, n) /\ Len(p) = n /\ Unfilled(p) = Unfilled(quads) \ {x}
    <3>1. y + 1 \in Nat
      BY <2>5
    <3> QED BY <1>2, <2>5, <3>1, PatchOne
  <2> HIDE DEF p
  <2>7. /\ Sound(quads', n) /\ Len(quads') = n /\ Unfilled(quads') = Unfilled(quads) \ {x, y}
    <3>1. y \in Unfilled(p)
      BY <2>3, <2>5, <2>6
    <3>2. Sound(Patch(p, <<y>>, n), n) /\ Len(Patch(p, <<y>>, n)) = Len(p)
          /\ Unfilled(Patch(p, <<y>>, n)) = Unfilled(p) \ {y}
      BY <1>2, <2>5, <2>6, <3>1, PatchOne
    <3> QED BY <2>1, <2>6, <3>1, <3>2
  <2>8. Fills({x, y}, {})
    <3>1. Len(quads) <= Len(quads')
      BY <1>2, <2>7
    <3> QED BY <2>7, <3>1, SoundFills
  <2>9. /\ b2 \in Seq(Nat) /\ c2 \in Seq(Nat) /\ IsInjective(b2) /\ IsInjective(c2)
        /\ ToSet(b2) = ToSet(Below.b) \union ToSet(b)
        /\ ToSet(c2) = ToSet(Below.c) \union ToSet(c)
        /\ ToSet(b2) \intersect ToSet(c2) = {}
        /\ {x, y} \intersect ToSet(b2) = {} /\ {x, y} \intersect ToSet(c2) = {}
    <3>1. Owes(Below) \intersect Owes(Top) = {}
      BY <1>4
    <3> QED BY <1>4, <2>3, <3>1, MergeOwes DEF b, c
  <2> HIDE DEF b2, c2
  <2>10. /\ Owes(g) = ToSet(b2) \union ToSet(c2) /\ OwesOnce(g)
         /\ g.kind \notin LoopBodies /\ g \in FrameType
    BY <2>9, ValueOwes
  <2> HIDE DEF g
  <2>11. /\ {x, y} \subseteq Owes(Top) \union Owes(Below)
         /\ Owes(g) \subseteq ((Owes(Top) \union Owes(Below)) \ {x, y}) \union {}
         /\ {} \subseteq Owes(g)
         /\ Owes(Top) \union Owes(Below) \subseteq {x, y} \union Owes(g)
    <3>1. {x, y} \union ToSet(Below.b) \union ToSet(Below.c) = Owes(Below)
      BY <2>3 DEF Owes
    <3> QED BY <1>4, <2>4, <2>9, <2>10, <3>1
  <2> DEFINE k == "if_else"
  <2>12. AfterStatement(k)
    BY <2>1
  <2> DEFINE paid == {x, y}
  <2>13. /\ paid \subseteq Owes(Top) \union Owes(Below) /\ Fills(paid, {})
         /\ Owes(g) \subseteq ((Owes(Top) \union Owes(Below)) \ paid) \union {}
         /\ {} \subseteq Owes(g)
         /\ Bare(ctx) => Owes(Top) \union Owes(Below) \subseteq paid \union Owes(g)
    BY <2>8, <2>11
  <2> HIDE DEF k, paid
  <2> QED BY <1>1, <2>1, <2>10, <2>12, <2>13, Completed
<1> QED BY <1>6, <1>7, <1>8
-----------------------------------------------------------------------------
(* Loops *)

\* Straight-line code waits for nothing.
LEMMA CodeSound ==
  ASSUME NEW code \in {0, 1}, NEW n \in Nat
  PROVE  Sound(Code(code), n) /\ Len(Code(code)) = code /\ Unfilled(Code(code)) = {}
<1> DEFINE u == Quad("uminus", 0)
           cs == Code(code)
<1>1. u \in QuadType /\ u.patch = "none" /\ u.label = 0
  BY QuadIs, QuadFields
<1>2. cs \in Seq(QuadType) /\ Len(cs) = code /\ \A i \in DOMAIN cs : cs[i] = u
  BY CodeIs DEF Code
<1> HIDE DEF u, cs
<1>3. NoneAgain(cs) /\ Bounded(cs, n)
  BY <1>1, <1>2 DEF NoneAgain, Bounded
<1>4. \A x \in Unfilled(cs) : x + 1 \in DOMAIN cs /\ cs[x + 1].patch = "open"
  BY <1>2, UnfilledIs
<1>5. Unfilled(cs) = {}
  BY <1>1, <1>2, <1>4
<1> QED BY <1>2, <1>3, <1>5 DEF Sound, cs

\* The end of a "while" loop pays for its false jump, its breaks and continues.
LEMMA WhileLedgered ==
  ASSUME Nested, Ledgered, while_statement
  PROVE  Ledgered' /\ CoverKept
<1> DEFINE n == Len(quads)
           b == Top.b
           c == Top.c
           start == Below.q[1]
           x == Below.q[2]
           jump == Quad("jump", start)
           looped == Append(quads, jump)
           p == Patch(looped, <<x>> \o b, n + 1)
           nil == <<>>
           g == Frame("stmt", nil, nil, nil)
           paid == {x} \union ToSet(b) \union ToSet(c)
<1>1. OpenKept
  BY LoopEndSteady, SteadyOpen
<1>2. /\ n \in Nat /\ n + 1 \in Nat /\ n <= n + 1 /\ Sound(quads, n + 1) /\ next_quad = n
  BY SoundSoFar DEF next_quad
<1>3. /\ AfterStatement("while_body") /\ quads' = Patch(p, c, start)
      /\ ctx' = Append(SubSeq(ctx, 1, Len(ctx) - 2), g)
  BY <1>2 DEF while_statement, Reduce
<1>4. /\ OwesOnce(Top) /\ OwesOnce(Below) /\ Top \in FrameType /\ Below \in FrameType
      /\ Owes(Top) = ToSet(b) \union ToSet(c)
      /\ Owes(Top) \intersect Owes(Below) = {} /\ Below.kind = "while_body"
      /\ Owes(Top) \subseteq Unfilled(quads) /\ Owes(Below) \subseteq Unfilled(quads)
      /\ Len(Below.q) = Arity("while_body")
  BY <1>3, PairOwes
<1>5. start <= n
  BY <1>3, PairOwes DEF LoopBodies
<1>6. start \in Nat
  <2>1. Below.q \in Seq(Nat)
    BY <1>4 DEF FrameType
  <2>2. Arity("while_body") = 2
    BY ArityIs
  <2>3. 1 \in DOMAIN Below.q
    BY <1>4, <2>1, <2>2
  <2> QED BY <2>1, <2>3
<1>7. /\ b \in Seq(Nat) /\ c \in Seq(Nat) /\ IsInjective(b) /\ IsInjective(c)
      /\ ToSet(b) \intersect ToSet(c) = {}
  BY <1>4 DEF FrameType, OwesOnce
<1>8. Debts(Below) = {x}
  BY <1>4 DEF Debts
<1>9. x \in Owes(Below)
  BY <1>8 DEF Owes
<1>10. x \in Unfilled(quads) /\ x \in Nat
  BY <1>4, <1>9, SoundSoFar
<1>11. jump \in QuadType /\ jump.patch = "none" /\ jump.label = start
  BY <1>6, QuadIs, QuadFields
<1> HIDE DEF jump, start, x, b, c, nil
<1>12. Sound(looped, n + 1) /\ Len(looped) = n + 1 /\ Unfilled(looped) = Unfilled(quads)
  <2>1. jump.patch # "again" /\ jump.label <= n + 1
    BY <1>2, <1>5, <1>6, <1>11
  <2> QED BY <1>2, <1>11, <2>1, AppendSound
<1> HIDE DEF looped
<1>13. /\ Sound(p, n + 1) /\ Len(p) = n + 1
       /\ Unfilled(p) = Unfilled(quads) \ ({x} \union ToSet(b))
  <2>1. ToSet(b) \subseteq Unfilled(looped) \ {x} /\ x \in Unfilled(looped)
    BY <1>4, <1>9, <1>10, <1>12
  <2> QED BY <1>2, <1>7, <1>10, <1>12, <2>1, PatchMore
<1> HIDE DEF p
<1>14. /\ Sound(quads', n + 1) /\ Len(quads') = n + 1 /\ Unfilled(quads') = Unfilled(quads) \ paid
  <2>1. ToSet(c) \subseteq Unfilled(p) /\ start <= n + 1
    BY <1>2, <1>4, <1>5, <1>6, <1>7, <1>9, <1>13
  <2>2. /\ Sound(Patch(p, c, start), n + 1) /\ Len(Patch(p, c, start)) = Len(p)
        /\ Unfilled(Patch(p, c, start)) = Unfilled(p) \ ToSet(c)
    BY <1>2, <1>6, <1>7, <1>13, <2>1, PatchSound
  <2> QED BY <1>3, <1>13, <2>2
<1>15. Fills(paid, {})
  <2>1. Len(quads) <= Len(quads') /\ Sound(quads', Len(quads'))
    BY <1>2, <1>14
  <2> HIDE DEF paid
  <2> QED BY <1>14, <2>1, SoundFills
<1>16. nil \in Seq(Nat) /\ ToSet(nil) = {} /\ IsInjective(nil)
  BY ListsAre DEF nil
<1>17. Owes(g) = {} /\ OwesOnce(g) /\ g.kind \notin LoopBodies /\ g \in FrameType
  <2>1. Frame("stmt", <<>>, nil, nil) = g
    BY DEF nil
  <2> QED BY <1>16, <2>1, ValueOwes
<1> HIDE DEF g
<1>18. /\ paid \subseteq Owes(Top) \union Owes(Below)
       /\ Owes(g) \subseteq ((Owes(Top) \union Owes(Below)) \ paid) \union {}
       /\ {} \subseteq Owes(g)
       /\ Bare(ctx) => Owes(Top) \union Owes(Below) \subseteq paid \union Owes(g)
  <2>1. Bare(ctx) => Owes(Below) = Debts(Below)
    BY <1>3, PairOwes DEF LoopBodies
  <2> QED BY <1>4, <1>8, <1>9, <1>17, <2>1
<1> HIDE DEF paid
<1> QED BY <1>1, <1>3, <1>15, <1>17, <1>18, Completed

\* The head of a "for" loop owes the jump in, the jump out and the jump back.
LEMMA ForHeadLedgered ==
  ASSUME Nested, Ledgered, NEW code \in {0, 1}, NEW step \in {0, 1}, for_prefix(code, step)
  PROVE  Ledgered' /\ CoverKept
<1> DEFINE n == Len(quads)
           m == n + code + step + 3
           enter == n + code
           a == Hole("if_eq")
           h == Hole("jump")
           p1 == quads \o Code(code)
           p2 == p1 \o <<a, h>>
           p3 == p2 \o Code(step)
           fresh == {enter, enter + 1, enter + 2 + step}
           k == "for_body"
           q == <<n, enter, enter + 1, enter + 2 + step>>
           g == Frame(k, q, <<>>, <<>>)
<1>1. OpenKept
  BY LoopHeadSteady, SteadyOpen
<1>2. n \in Nat /\ m \in Nat /\ n <= m /\ Sound(quads, n) /\ next_quad = n
  BY SoundSoFar DEF next_quad
<1>3. quads' = p3 \o <<h>> /\ Push(Frame(k, q, <<>>, <<>>))
  BY <1>2 DEF for_prefix
<1>4. /\ a \in QuadType /\ a.patch = "open" /\ a.label = 0
      /\ h \in QuadType /\ h.patch = "open" /\ h.label = 0
  BY QuadIs, QuadFields
<1>5. Sound(quads, m)
  BY <1>2, SoundGrows
<1>6. /\ enter \in Nat /\ enter >= n /\ enter + 1 \in Nat /\ enter + 2 + step \in Nat
      /\ enter = n + code /\ m = enter + 3 + step
  BY <1>2
<1>7. g.kind = "for_body" /\ g.q = q
  BY DEF Frame
<1>8. Debts(g) = fresh /\ DebtsApart(g)
  <2>1. q[2] = enter /\ q[3] = enter + 1 /\ q[4] = enter + 2 + step
    OBVIOUS
  <2>2. enter # enter + 1 /\ enter # enter + 2 + step /\ enter + 1 # enter + 2 + step
    BY <1>6
  <2> HIDE DEF q, enter, g
  <2> QED BY <1>7, <2>1, <2>2 DEF Debts, DebtsApart
<1>9. q \in Seq(Nat) /\ q[1] = n
  BY <1>2, <1>6
<1> HIDE DEF n, m, a, h, g, q, enter
<1>10. /\ Sound(p1, m) /\ Len(p1) = enter /\ Unfilled(p1) = Unfilled(quads)
  <2>1. Sound(Code(code), m) /\ Len(Code(code)) = code /\ Unfilled(Code(code)) = {}
    BY <1>2, CodeSound
  <2>2. /\ Sound(p1, m) /\ Len(p1) = Len(quads) + Len(Code(code))
        /\ Unfilled(p1) = Unfilled(quads) \union {Len(quads) + x : x \in Unfilled(Code(code))}
    BY <1>2, <1>5, <2>1, EmitSound
  <2>3. Len(quads) = n
    BY DEF n
  <2>4. Len(p1) = enter
    BY <1>6, <2>1, <2>2, <2>3
  <2> QED BY <2>1, <2>2, <2>4
<1> HIDE DEF p1
<1>11. /\ Sound(p2, m) /\ Len(p2) = enter + 2
       /\ Unfilled(p2) = Unfilled(quads) \union {enter, enter + 1}
  <2> DEFINE new == <<a, h>>
  <2>1. a.label <= m /\ h.label <= m /\ a.patch # "again" /\ h.patch # "again"
    BY <1>2, <1>4
  <2>2. Sound(new, m) /\ Len(new) = 2 /\ Unfilled(new) = {0, 1}
    <3>1. /\ Sound(<<a, h>>, m) /\ Len(<<a, h>>) = 2
          /\ Unfilled(<<a, h>>) = (IF a.patch = "open" THEN {0} ELSE {})
                                     \union (IF h.patch = "open" THEN {1} ELSE {})
      BY <1>2, <1>4, <2>1, TwoQuads
    <3> QED BY <1>4, <3>1
  <2> HIDE DEF new
  <2>3. /\ Sound(p1 \o new, m) /\ Len(p1 \o new) = Len(p1) + Len(new)
        /\ Unfilled(p1 \o new) = Unfilled(p1) \union {Len(p1) + x : x \in Unfilled(new)}
    BY <1>2, <1>10, <2>2, EmitSound
  <2>4. {enter + x : x \in {0, 1}} = {enter, enter + 1}
    BY <1>6
  <2>5. Unfilled(p1 \o new) = Unfilled(quads) \union {enter + x : x \in {0, 1}}
    BY <1>10, <2>2, <2>3
  <2>6. Len(p1 \o new) = enter + 2
    BY <1>10, <2>2, <2>3
  <2> QED BY <2>3, <2>4, <2>5, <2>6 DEF new
<1> HIDE DEF p2
<1>12. /\ Sound(p3, m) /\ Len(p3) = enter + 2 + step
       /\ Unfilled(p3) = Unfilled(quads) \union {enter, enter + 1}
  <2>1. Sound(Code(step), m) /\ Len(Code(step)) = step /\ Unfilled(Code(step)) = {}
    BY <1>2, CodeSound
  <2>2. /\ Sound(p3, m) /\ Len(p3) = Len(p2) + Len(Code(step))
        /\ Unfilled(p3) = Unfilled(p2) \union {Len(p2) + x : x \in Unfilled(Code(step))}
    BY <1>2, <1>11, <2>1, EmitSound
  <2>3. Len(p3) = enter + 2 + step
    BY <1>11, <2>1, <2>2
  <2> QED BY <1>11, <2>1, <2>2, <2>3
<1> HIDE DEF p3
<1>13. /\ Sound(quads', m) /\ Len(quads') = m /\ Unfilled(quads') = Unfilled(quads) \union fresh
  <2>1. h.label <= m /\ h.patch # "again"
    BY <1>2, <1>4
  <2> DEFINE new == <<h>>
  <2>2. Sound(new, m) /\ Len(new) = 1 /\ Unfilled(new) = {0}
    <3>1. Sound(<<h>>, m) /\ Len(<<h>>) = 1
          /\ Unfilled(<<h>>) = IF h.patch = "open" THEN {0} ELSE {}
      BY <1>2, <1>4, <2>1, OneQuad
    <3> QED BY <1>4, <3>1
  <2>3. quads' = p3 \o new
    BY <1>3
  <2> HIDE DEF new
  <2>4. /\ Sound(p3 \o new, m) /\ Len(p3 \o new) = Len(p3) + Len(new)
        /\ Unfilled(p3 \o new) = Unfilled(p3) \union {Len(p3) + x : x \in Unfilled(new)}
    BY <1>2, <1>12, <2>2, EmitSound
  <2> DEFINE l == enter + 2 + step
  <2>5. {l + x : x \in {0}} = {l}
    BY <1>6
  <2>6. Unfilled(p3 \o new) = Unfilled(p3) \union {l + x : x \in {0}}
    BY <1>12, <2>2, <2>4
  <2>7. Len(p3 \o new) = m
    <3>1. Len(p3 \o new) = (enter + 2 + step) + 1
      BY <1>12, <2>2, <2>4
    <3> QED BY <1>6, <3>1
  <2> QED BY <1>12, <2>3, <2>4, <2>5, <2>6, <2>7
<1>14. Fills({}, fresh)
  <2>1. Len(quads) <= Len(quads') /\ Sound(quads', Len(quads'))
    BY <1>2, <1>13 DEF n
  <2>2. \A x \in fresh : x >= Len(quads)
    BY <1>2, <1>6 DEF n
  <2> QED BY <1>13, <2>1, <2>2, SoundFills
<1>15. k \in {"if_then", "while_body", "for_body"} /\ q[1] <= Len(quads')
  BY <1>2, <1>9, <1>13
<1>16. Debts(Frame(k, q, <<>>, <<>>)) = fresh /\ DebtsApart(Frame(k, q, <<>>, <<>>))
  BY <1>8 DEF g
<1> HIDE DEF k, fresh
<1> QED BY <1>1, <1>3, <1>9, <1>14, <1>15, <1>16, HeadPush

\* The end of a "for" loop pays for its three jumps, the one it emits back to
\* the step, its breaks and its continues.
LEMMA ForEndLedgered ==
  ASSUME Nested, Ledgered, for_statement
  PROVE  Ledgered' /\ CoverKept
<1> DEFINE n == Len(quads)
           m == n + 1
           b == Top.b
           c == Top.c
           test == Below.q[1]
           enter == Below.q[2]
           out == Below.q[3]
           back == Below.q[4]
           first == out + 1
           body == back + 1
           jump == Owed("for", 0)
           closed == Append(quads, jump)
           entered == Patch(closed, <<enter>>, body)
           left == Patch(entered, <<out>> \o b, m)
           tested == Patch(left, <<back>>, test)
           nil == <<>>
           g == Frame("stmt", nil, nil, nil)
           paid == {enter, out, back} \union ToSet(b) \union ToSet(c)
<1>1. OpenKept
  BY LoopEndSteady, SteadyOpen
<1>2. /\ n \in Nat /\ m \in Nat /\ m = n + 1 /\ n <= m /\ Sound(quads, m) /\ next_quad = n
      /\ \A x \in Unfilled(quads) : x \in Nat /\ x < n
  BY SoundSoFar DEF next_quad
<1>3. /\ AfterStatement("for_body") /\ quads' = Patch(tested, <<n>> \o c, first)
      /\ ctx' = Append(SubSeq(ctx, 1, Len(ctx) - 2), g)
  BY <1>2 DEF for_statement, Reduce
<1>4. /\ OwesOnce(Top) /\ OwesOnce(Below) /\ Top \in FrameType /\ Below \in FrameType
      /\ Owes(Top) = ToSet(b) \union ToSet(c)
      /\ Owes(Top) \intersect Owes(Below) = {} /\ Below.kind = "for_body"
      /\ Owes(Top) \subseteq Unfilled(quads) /\ Owes(Below) \subseteq Unfilled(quads)
      /\ Len(Below.q) = Arity("for_body")
  BY <1>3, PairOwes
<1>5. test <= n
  BY <1>3, PairOwes DEF LoopBodies
<1>6. test \in Nat
  <2>1. Below.q \in Seq(Nat)
    BY <1>4 DEF FrameType
  <2>2. Arity("for_body") = 4
    BY ArityIs
  <2>3. 1 \in DOMAIN Below.q
    BY <1>4, <2>1, <2>2
  <2> QED BY <2>1, <2>3
<1>7. /\ b \in Seq(Nat) /\ c \in Seq(Nat) /\ IsInjective(b) /\ IsInjective(c)
      /\ ToSet(b) \intersect ToSet(c) = {}
  BY <1>4 DEF FrameType, OwesOnce
<1>8. /\ Debts(Below) = {enter, out, back} /\ enter # out /\ enter # back /\ out # back
  BY <1>4 DEF Debts, DebtsApart, OwesOnce
<1>9. enter \in Owes(Below) /\ out \in Owes(Below) /\ back \in Owes(Below)
  BY <1>8 DEF Owes
<1> HIDE DEF test, enter, out, back, b, c
<1>10. /\ enter \in Unfilled(quads) /\ enter \in Nat
       /\ out \in Unfilled(quads) /\ out \in Nat /\ first \in Nat /\ first <= m
       /\ back \in Unfilled(quads) /\ back \in Nat /\ body \in Nat /\ body <= m
       /\ n \notin Unfilled(quads) /\ test <= m
  <2>1. enter \in Unfilled(quads) /\ out \in Unfilled(quads) /\ back \in Unfilled(quads)
    BY <1>4, <1>9
  <2>2. enter \in Nat /\ out \in Nat /\ out < n /\ back \in Nat /\ back < n
    BY <1>2, <2>1
  <2>3. n \notin Unfilled(quads)
    BY <1>2
  <2>4. first \in Nat /\ first <= m /\ body \in Nat /\ body <= m /\ test <= m
    <3> HIDE DEF n
    <3> QED BY <1>2, <1>5, <1>6, <2>2
  <2> QED BY <2>1, <2>2, <2>3, <2>4
<1>11. jump \in QuadType /\ jump.patch = "open" /\ jump.label = 0
  <2>1. 0 \in Nat
    OBVIOUS
  <2> QED BY <2>1, QuadIs, QuadFields
<1> HIDE DEF jump, nil, n, m, first, body
<1>12. /\ Sound(closed, m) /\ Len(closed) = m
       /\ Unfilled(closed) = Unfilled(quads) \union {n}
  <2>1. jump.patch # "again" /\ jump.label <= m
    BY <1>2, <1>11
  <2>2. Len(quads) = n
    BY DEF n
  <2>3. /\ Sound(closed, m) /\ Len(closed) = Len(quads) + 1
        /\ Unfilled(closed) =
             Unfilled(quads) \union (IF jump.patch = "open" THEN {Len(quads)} ELSE {})
    BY <1>2, <1>11, <2>1, AppendSound
  <2> QED BY <1>2, <1>11, <2>2, <2>3
<1> HIDE DEF closed
<1>13. /\ Sound(entered, m) /\ Len(entered) = m
       /\ Unfilled(entered) = (Unfilled(quads) \union {n}) \ {enter}
  <2>1. enter \in Unfilled(closed)
    BY <1>10, <1>12
  <2>2. /\ Sound(entered, m) /\ Len(entered) = Len(closed)
        /\ Unfilled(entered) = Unfilled(closed) \ {enter}
    BY <1>2, <1>10, <1>12, <2>1, PatchOne
  <2> QED BY <1>12, <2>2
<1> HIDE DEF entered
<1>14. /\ Sound(left, m) /\ Len(left) = m
       /\ Unfilled(left) = (Unfilled(quads) \union {n}) \ ({enter, out} \union ToSet(b))
  <2>1. out \in Unfilled(entered) /\ ToSet(b) \subseteq Unfilled(entered) \ {out}
    BY <1>4, <1>8, <1>9, <1>10, <1>13
  <2>2. /\ Sound(left, m) /\ Len(left) = Len(entered)
        /\ Unfilled(left) = Unfilled(entered) \ ({out} \union ToSet(b))
    BY <1>2, <1>7, <1>10, <1>13, <2>1, PatchMore
  <2> QED BY <1>13, <2>2
<1> HIDE DEF left
<1>15. /\ Sound(tested, m) /\ Len(tested) = m
       /\ Unfilled(tested) = (Unfilled(quads) \union {n})
                                \ ({enter, out, back} \union ToSet(b))
  <2>1. back \in Unfilled(left)
    BY <1>4, <1>8, <1>9, <1>10, <1>14
  <2>2. /\ Sound(tested, m) /\ Len(tested) = Len(left)
        /\ Unfilled(tested) = Unfilled(left) \ {back}
    BY <1>2, <1>6, <1>10, <1>14, <2>1, PatchOne
  <2> QED BY <1>14, <2>2
<1> HIDE DEF tested
<1>16. /\ Sound(quads', m) /\ Len(quads') = m
       /\ Unfilled(quads') = Unfilled(quads) \ paid
  <2>1. n \in Unfilled(tested) /\ ToSet(c) \subseteq Unfilled(tested) \ {n}
    <3>1. n \notin ToSet(b) /\ n \notin ToSet(c) /\ n \notin {enter, out, back}
      BY <1>4, <1>10
    <3> QED BY <1>4, <1>7, <1>9, <1>15, <3>1
  <2> DEFINE r == Patch(tested, <<n>> \o c, first)
  <2>2. /\ Sound(r, m) /\ Len(r) = Len(tested)
        /\ Unfilled(r) = Unfilled(tested) \ ({n} \union ToSet(c))
    <3>1. /\ n \in Nat /\ m \in Nat /\ Sound(tested, m) /\ c \in Seq(Nat) /\ IsInjective(c)
          /\ first \in Nat /\ first <= m
      BY <1>2, <1>7, <1>10, <1>15
    <3> HIDE DEF g, paid
    <3> QED BY <2>1, <3>1, PatchMore
  <2> HIDE DEF r
  <2>3. quads' = r
    BY <1>3 DEF r
  <2>4. n \notin Unfilled(quads)
    BY <1>10
  <2> QED BY <1>15, <2>2, <2>3, <2>4
<1>17. Fills(paid, {})
  <2>1. Len(quads) <= Len(quads') /\ Sound(quads', Len(quads'))
    BY <1>2, <1>16 DEF n
  <2> HIDE DEF paid
  <2> QED BY <1>16, <2>1, SoundFills
<1>18. nil \in Seq(Nat) /\ ToSet(nil) = {} /\ IsInjective(nil)
  BY ListsAre DEF nil
<1>19. Owes(g) = {} /\ OwesOnce(g) /\ g.kind \notin LoopBodies /\ g \in FrameType
  <2>1. Frame("stmt", <<>>, nil, nil) = g
    BY DEF nil
  <2> QED BY <1>18, <2>1, ValueOwes
<1> HIDE DEF g
<1>20. /\ paid \subseteq Owes(Top) \union Owes(Below)
       /\ Owes(g) \subseteq ((Owes(Top) \union Owes(Below)) \ paid) \union {}
       /\ {} \subseteq Owes(g)
       /\ Bare(ctx) => Owes(Top) \union Owes(Below) \subseteq paid \union Owes(g)
  <2>1. Bare(ctx) => Owes(Below) = Debts(Below)
    BY <1>3, PairOwes DEF LoopBodies
  <2> QED BY <1>4, <1>8, <1>9, <1>19, <2>1
<1> HIDE DEF paid
<1> QED BY <1>1, <1>3, <1>17, <1>19, <1>20, Completed
-----------------------------------------------------------------------------
(* Jumps out of loops, and returns *)

\* A statement that owes one jump, which is fresh.
LEMMA JumpPush ==
  ASSUME Nested, Ledgered, OpenKept, NEW b \in Seq(Nat), NEW c \in Seq(Nat),
         IsInjective(b), IsInjective(c), ToSet(b) \intersect ToSet(c) = {},
         Statement(b, c), NEW fresh, Fills({}, fresh), ToSet(b) \union ToSet(c) = fresh
  PROVE  Ledgered' /\ CoverKept
<1> DEFINE g == Frame("stmt", <<>>, b, c)
<1>1. /\ Owes(g) = ToSet(b) \union ToSet(c) /\ OwesOnce(g)
      /\ g.kind \notin LoopBodies /\ g \in FrameType
  BY ValueOwes
<1>2. ctx' = Append(ctx, g)
  BY DEF Statement, Push
<1> HIDE DEF g
<1>3. Replaced(ctx, ctx', 0, g)
  BY <1>1, <1>2, PushReplaces, LedgerTypes
<1>4. /\ \A x \in {} : \E i \in DOMAIN ctx : i > Len(ctx) - 0 /\ x \in Owes(ctx[i])
      /\ {} \subseteq {} /\ Owes(g) \subseteq ({} \ {}) \union fresh
      /\ fresh \subseteq Owes(g) /\ \A i \in DOMAIN ctx : ~(i > Len(ctx) - 0)
  BY <1>1, LedgerTypes
<1> QED BY <1>1, <1>3, <1>4, SettleFrames

\* The loop around this point is a frame.
LEMMA CurrentLoopIs ==
  ASSUME Nested
  PROVE  CurrentLoop \in Nat
<1> DEFINE around == Around(ctx)
<1>1. DOMAIN ctx = 1..Len(ctx) /\ Len(ctx) \in Nat
  BY NestedTypes DEF Shaped
<1>2. around \subseteq 0..Len(ctx) /\ around \subseteq Nat
  BY <1>1 DEF Around
<1>3. CurrentLoop = IF around = {} \/ ctx[Max(around)].kind = "body" THEN 0
                    ELSE Max(around)
  BY DEF CurrentLoop
<1> HIDE DEF around
<1>4. ASSUME around # {} PROVE Max(around) \in Nat
  <2>1. Max(around) \in around
    BY <1>1, <1>2, <1>4, MaxIsLast
  <2> QED BY <1>2, <2>1, Zenon
<1> QED BY <1>3, <1>4

\* A break or a continue owes its jump; one outside of loops emits none.
LEMMA JumpLedgered ==
  ASSUME Nested, Ledgered, NEW kind \in {"break", "continue"}, break_or_continue(kind)
  PROVE  Ledgered' /\ CoverKept
<1> DEFINE n == Len(quads)
           jump == Owed(kind, CurrentLoop)
<1>1. OpenKept
  BY JumpSteady, SteadyOpen
<1>2. n \in Nat /\ n + 1 \in Nat /\ n <= n + 1 /\ Sound(quads, n + 1) /\ next_quad = n
  BY SoundSoFar DEF next_quad
<1>3. \/ NULL_Statement /\ UNCHANGED quads
      \/ /\ quads' = Append(quads, jump)
         /\ Statement(<<n>>, <<>>) \/ Statement(<<>>, <<n>>)
  BY <1>2 DEF break_or_continue
<1>4. CASE NULL_Statement /\ UNCHANGED quads
  <2>1. Push(Frame("stmt", <<>>, <<>>, <<>>))
    BY <1>4 DEF NULL_Statement, Statement
  <2> QED BY <1>1, <1>4, <2>1, NothingFilled, QuietPush
<1>5. CASE /\ quads' = Append(quads, jump)
           /\ Statement(<<n>>, <<>>) \/ Statement(<<>>, <<n>>)
  <2>1. jump.patch = "open" /\ jump.label = 0
    BY QuadFields
  <2>2. jump \in QuadType
    BY CurrentLoopIs, QuadIs
  <2> HIDE DEF jump, n
  <2>3. /\ Sound(quads', n + 1) /\ Len(quads') = n + 1
        /\ Unfilled(quads') = Unfilled(quads) \union {n}
    <3>1. jump.patch # "again" /\ jump.label <= n + 1
      BY <1>2, <2>1
    <3>2. /\ Sound(Append(quads, jump), n + 1) /\ Len(Append(quads, jump)) = Len(quads) + 1
          /\ Unfilled(Append(quads, jump)) =
               Unfilled(quads) \union (IF jump.patch = "open" THEN {Len(quads)} ELSE {})
      BY <1>2, <2>2, <3>1, AppendSound
    <3>3. Len(quads) = n
      BY DEF n
    <3> QED BY <1>5, <2>1, <3>2, <3>3
  <2>4. Fills({}, {n})
    <3>1. Len(quads) <= Len(quads') /\ Sound(quads', Len(quads'))
      BY <1>2, <2>3 DEF n
    <3>2. n >= Len(quads)
      BY <1>2 DEF n
    <3> QED BY <2>3, <3>1, <3>2, SoundFills
  <2> DEFINE one == <<n>>
             nil == <<>>
  <2>5. /\ one \in Seq(Nat) /\ IsInjective(one) /\ ToSet(one) = {n}
        /\ nil \in Seq(Nat) /\ IsInjective(nil) /\ ToSet(nil) = {}
    BY <1>2, ListsAre
  <2>6. Statement(one, nil) \/ Statement(nil, one)
    BY <1>5
  <2> HIDE DEF one, nil
  <2>7. /\ ToSet(one) \intersect ToSet(nil) = {} /\ ToSet(nil) \intersect ToSet(one) = {}
        /\ ToSet(one) \union ToSet(nil) = {n}
        /\ ToSet(nil) \union ToSet(one) = {n}
    BY <2>5
  <2>8. CASE Statement(one, nil)
    BY <1>1, <2>4, <2>5, <2>7, <2>8, JumpPush
  <2>9. CASE Statement(nil, one)
    BY <1>1, <2>4, <2>5, <2>7, <2>9, JumpPush
  <2> QED BY <2>6, <2>8, <2>9
<1> QED BY <1>3, <1>4, <1>5

\* A step that changes the list of function h, too.
LEMMA SettleFunction ==
  ASSUME Nested, Ledgered, NEW n, NEW g, Replaced(ctx, ctx', n, g),
         g.kind \notin LoopBodies, NEW h, NEW pool, NEW paid, NEW fresh, Fills(paid, fresh),
         Settles(ctx, entries, quads, n, g, entries', h, quads', pool, paid, fresh),
         Hands(n, g, h, paid, fresh)
  PROVE  Ledgered' /\ CoverKept
<1>1. ctx \in Seq(FrameType) /\ Ledger(ctx, entries, quads)
  BY LedgerTypes
<1>2. Ledger(ctx', entries', quads')
  BY <1>1, Settle
<1>3. /\ quads' \in Seq(QuadType) /\ Len(quads) <= Len(quads') /\ NoneAgain(quads')
      /\ Bounded(quads', Len(quads'))
  BY DEF Fills
<1>4. Starts(ctx', Len(quads'))
  BY <1>3, StartsKept
<1>5. CoverKept
  BY <1>1, NothingForgotten
<1> QED BY <1>2, <1>3, <1>4, <1>5 DEF Ledgered

\* Quads that are fresh were not there, and the lists of the open functions are
\* lists of quads that wait.
LEMMA FreshIs ==
  ASSUME Nested, Ledgered
  PROVE  /\ \A x \in Unfilled(quads) : x # Len(quads) /\ x # Len(quads) + 1
         /\ \A f \in Open(entries) :
              /\ f \in DOMAIN entries /\ entries[f] \in EntryType
              /\ entries[f].address_list \in Seq(Nat) /\ entries[f].address_list # <<>>
              /\ IsInjective(entries[f].address_list)
              /\ ToSet(entries[f].address_list) \subseteq Unfilled(quads)
<1>1. /\ Ledger(ctx, entries, quads) /\ Len(quads) \in Nat
      /\ \A x \in Unfilled(quads) : x \in Nat /\ x < Len(quads)
      /\ entries \in Seq(EntryType)
  BY LedgerTypes
<1>2. \A f \in Open(entries) : f \in DOMAIN entries /\ entries[f].func_is_open
  BY DEF Open
<1>3. \A f \in Open(entries) : /\ entries[f] \in EntryType
                               /\ entries[f].address_list \in Seq(Nat)
  BY <1>1, <1>2, EntriesAre
<1>4. \A f \in Open(entries) : entries[f].address_list # <<>>
  BY <1>2 DEF Nested, Ordered, OpenAreFunctions, Addressed
<1> QED BY <1>1, <1>2, <1>3, <1>4 DEF Ledger

\* A list is its first label and the others.
LEMMA SplitOnce ==
  ASSUME NEW l \in Seq(Nat), l # <<>>, IsInjective(l)
  PROVE  /\ Head(l) \in Nat /\ Tail(l) \in Seq(Nat) /\ IsInjective(Tail(l))
         /\ ToSet(l) = {Head(l)} \union ToSet(Tail(l)) /\ Head(l) \notin ToSet(Tail(l))
<1> DEFINE t == Tail(l)
           n == Len(l)
<1>1. /\ n \in Nat \ {0} /\ DOMAIN l = 1..n /\ Head(l) = l[1] /\ l[1] \in Nat
      /\ t \in Seq(Nat) /\ DOMAIN t = 1..(n - 1) /\ \A i \in 1..(n - 1) : t[i] = l[i + 1]
  BY EmptySeq, HeadTailProperties
<1> HIDE DEF t, n
<1>2. \A i \in 1..n : i = 1 \/ (i - 1 \in 1..(n - 1) /\ (i - 1) + 1 = i)
  BY <1>1
<1>3. \A i \in 1..(n - 1) : i + 1 \in 1..n /\ i + 1 # 1
  BY <1>1
<1>4. ToSet(l) = {l[1]} \union ToSet(t)
  <2>1. ToSet(l) \subseteq {l[1]} \union ToSet(t)
    <3>1. \A i \in 1..n : l[i] = l[1] \/ (i - 1 \in DOMAIN t /\ l[i] = t[i - 1])
      BY <1>1, <1>2
    <3>2. \A j \in DOMAIN t : t[j] \in ToSet(t)
      BY DEF ToSet
    <3>3. \A i \in DOMAIN l : l[i] \in {l[1]} \union ToSet(t)
      BY <1>1, <3>1, <3>2
    <3> QED BY <3>3 DEF ToSet
  <2>2. ToSet(t) \subseteq ToSet(l)
    BY <1>1, <1>3 DEF ToSet
  <2>3. l[1] \in ToSet(l)
    <3>1. 1 \in 1..n
      BY <1>1
    <3> QED BY <1>1, <3>1 DEF ToSet
  <2> QED BY <2>1, <2>2, <2>3
<1>5. l[1] \notin ToSet(t)
  <2> SUFFICES ASSUME l[1] \in ToSet(t) PROVE FALSE
    OBVIOUS
  <2>1. PICK i \in 1..(n - 1) : t[i] = l[1]
    BY <1>1 DEF ToSet
  <2>2. l[i + 1] = l[1] /\ i + 1 \in DOMAIN l /\ 1 \in DOMAIN l
    BY <1>1, <1>3, <2>1
  <2>3. i + 1 = 1
    BY <2>2 DEF IsInjective
  <2> QED BY <1>3, <2>3
<1>6. IsInjective(t)
  <2> SUFFICES ASSUME NEW i \in 1..(n - 1), NEW j \in 1..(n - 1), t[i] = t[j]
               PROVE  i = j
    BY <1>1 DEF IsInjective
  <2>1. l[i + 1] = l[j + 1] /\ i + 1 \in DOMAIN l /\ j + 1 \in DOMAIN l
    BY <1>1, <1>3
  <2>2. i + 1 = j + 1
    BY <2>1 DEF IsInjective
  <2> QED BY <1>1, <2>2
<1> QED BY <1>1, <1>4, <1>5, <1>6 DEF t

\* A list with a label behind its first.
LEMMA InsertOnce ==
  ASSUME NEW l \in Seq(Nat), l # <<>>, IsInjective(l), NEW x \in Nat, x \notin ToSet(l)
  PROVE  /\ InsertAt(l, 2, x) \in Seq(Nat) /\ IsInjective(InsertAt(l, 2, x))
         /\ ToSet(InsertAt(l, 2, x)) = ToSet(l) \union {x}
<1> DEFINE h == <<Head(l)>>
           t == Tail(l)
           o == <<x>>
<1>1. /\ SubSeq(l, 1, 2 - 1) = h /\ SubSeq(l, 2, Len(l)) = t /\ h \in Seq(Nat) /\ t \in Seq(Nat)
      /\ Head(l) \in Nat
  <2>1. Len(l) \in Nat \ {0} /\ Head(l) = l[1] /\ l[1] \in Nat /\ t \in Seq(Nat)
    BY EmptySeq, HeadTailProperties
  <2>2. SubSeq(l, 2, Len(l)) = t
    BY TailIsSubSeq
  <2>3. SubSeq(l, 1, 1) = <<l[1]>>
    <3>1. 1 \in 1..Len(l) /\ 1 \in 1..Len(l)
      BY <2>1
    <3>2. SubSeq(l, 1, 1) = <<l[1]>> \o SubSeq(l, 1 + 1, 1)
      BY <3>1, SubSeqRecursiveFirst
    <3>3. SubSeq(l, 1 + 1, 1) = <<>>
      BY SubSeqEmpty
    <3>4. <<l[1]>> \in Seq(Nat)
      BY <2>1
    <3> QED BY <3>2, <3>3, <3>4, ConcatEmptySeq
  <2>4. 2 - 1 = 1
    OBVIOUS
  <2>5. <<l[1]>> \in Seq(Nat)
    BY <2>1
  <2> QED BY <2>1, <2>2, <2>3, <2>4, <2>5
<1>2. /\ ToSet(l) = {Head(l)} \union ToSet(t) /\ Head(l) \notin ToSet(t) /\ IsInjective(t)
  BY SplitOnce
<1>3. /\ ToSet(h) = {Head(l)} /\ IsInjective(h)
      /\ ToSet(o) = {x} /\ IsInjective(o) /\ o \in Seq(Nat)
  BY ListsAre
<1>4. InsertAt(l, 2, x) = (h \o o) \o t
  BY <1>1 DEF InsertAt
<1> HIDE DEF h, t, o
<1>5. h \o o \in Seq(Nat) /\ ToSet(h \o o) = {Head(l), x} /\ IsInjective(h \o o)
  <2>1. ToSet(h) \intersect ToSet(o) = {}
    BY <1>2, <1>3
  <2>2. h \o o \in Seq(Nat) /\ ToSet(h \o o) = ToSet(h) \union ToSet(o) /\ IsInjective(h \o o)
    BY <1>1, <1>3, <2>1, MergeOnce
  <2> QED BY <1>3, <2>2
<1> DEFINE ho == h \o o
<1> HIDE DEF ho
<1>6. /\ ho \o t \in Seq(Nat) /\ ToSet(ho \o t) = {Head(l), x} \union ToSet(t)
      /\ IsInjective(ho \o t)
  <2>1. ToSet(ho) \intersect ToSet(t) = {} /\ ho \in Seq(Nat) /\ IsInjective(ho)
        /\ ToSet(ho) = {Head(l), x}
    BY <1>2, <1>5 DEF ho
  <2> QED BY <1>1, <1>2, <2>1, MergeOnce
<1> QED BY <1>2, <1>4, <1>6 DEF ho
-----------------------------------------------------------------------------
(* The steps that change the lists of functions *)

\* A list that changes is that of one function.
LEMMA ListChanged ==
  ASSUME NEW es \in Seq(EntryType), NEW f \in DOMAIN es, NEW l \in Seq(Nat)
  PROVE  LET es2 == [es EXCEPT ![f].address_list = l]
         IN  /\ es2 \in Seq(EntryType) /\ Open(es2) = Open(es)
             /\ es2[f].address_list = l
             /\ \A k \in DOMAIN es : k # f => es2[k].address_list = es[k].address_list
<1> DEFINE e == [es[f] EXCEPT !.address_list = l]
           es2 == [es EXCEPT ![f] = e]
<1>1. e \in EntryType /\ e.address_list = l /\ e.func_is_open = es[f].func_is_open
  <2>1. es[f] \in EntryType
    BY EntriesAre
  <2> QED BY <2>1 DEF EntryType
<1>2. [es EXCEPT ![f].address_list = l] = es2
  OBVIOUS
<1> HIDE DEF e
<1>3. /\ es2 \in Seq(EntryType) /\ DOMAIN es2 = DOMAIN es /\ es2[f] = e
      /\ \A k \in DOMAIN es : k # f => es2[k] = es[k]
  BY <1>1
<1> HIDE DEF es2
<1>4. Open(es2) = Open(es)
  BY <1>1, <1>3 DEF Open
<1> QED BY <1>1, <1>2, <1>3, <1>4

\* A return puts its jump into the list of the innermost function.
LEMMA ReturnLedgered ==
  ASSUME Nested, Ledgered, return
  PROVE  Ledgered' /\ CoverKept
<1> DEFINE n == Len(quads)
           f == Sym!OpenFunc(entries, current_scope)
           nil == <<>>
           g == Frame("stmt", nil, nil, nil)
           ret == Quad("ret", 0)
           jump == Owed("return", CurrentFunction)
<1>1. AtStatement /\ Top.kind # "func" /\ entries \in Seq(EntryType)
  BY StartsOutside, LedgerTypes DEF return, Start
<1>2. n \in Nat /\ n + 1 \in Nat /\ n + 2 \in Nat /\ next_quad = n
  BY SoundSoFar DEF next_quad
<1>3. CurrentFunction \in Nat
  BY <1>1, CurrentIs
<1>4. /\ ret \in QuadType /\ ret.patch = "none" /\ ret.label = 0
      /\ jump \in QuadType /\ jump.patch = "open" /\ jump.label = 0
  BY <1>3, QuadIs, QuadFields
<1>5. CASE "FUNC_BLOCK" \notin ToSet(block_stack)
  <2>1. quads' = Append(quads, ret) /\ NULL_Statement /\ UNCHANGED entries
    BY <1>5 DEF return
  <2> HIDE DEF ret, n
  <2>2. Fills({}, {})
    <3>1. n + 1 \in Nat /\ Sound(quads, n + 1) /\ ret.label <= n + 1 /\ ret.patch # "again"
      BY <1>2, <1>4, SoundSoFar DEF n
    <3>2. /\ Sound(Append(quads, ret), n + 1) /\ Len(Append(quads, ret)) = Len(quads) + 1
          /\ Unfilled(Append(quads, ret)) =
               Unfilled(quads) \union (IF ret.patch = "open" THEN {Len(quads)} ELSE {})
      BY <1>4, <3>1, AppendSound
    <3>3. Sound(quads', Len(quads')) /\ Len(quads) <= Len(quads')
      BY <1>2, <2>1, <3>2 DEF n
    <3> QED BY <1>4, <2>1, <3>2, <3>3, SoundFills
  <2>3. Push(Frame("stmt", <<>>, <<>>, <<>>))
    BY <2>1 DEF NULL_Statement, Statement
  <2> QED BY <2>1, <2>2, <2>3, SameOpen, QuietPush
<1>6. CASE "FUNC_BLOCK" \in ToSet(block_stack) /\ f = 0
  BY <1>6, StutterLedgered DEF return
<1>7. CASE "FUNC_BLOCK" \in ToSet(block_stack) /\ f # 0
  <2> DEFINE x == n + 1
             l == entries[f].address_list
             l2 == InsertAt(l, 2, x)
             new == <<ret, jump>>
             es2 == [entries EXCEPT ![f].address_list = l2]
  <2>1. /\ entries' = es2 /\ quads' = quads \o new /\ ctx' = Append(ctx, g)
    BY <1>2, <1>7 DEF return, NULL_Statement, Statement, Push
  <2>2. f \in Open(entries) /\ f \in DOMAIN entries
    BY <1>1, <1>7, CurrentIs, OpenIsCurrent DEF Innermost, Open
  <2> HIDE DEF f, n, ret, jump, g
  <2>3. /\ l \in Seq(Nat) /\ l # <<>> /\ IsInjective(l) /\ ToSet(l) \subseteq Unfilled(quads)
        /\ x \notin Unfilled(quads)
    BY <2>2, FreshIs DEF n
  <2> HIDE DEF l
  <2>4. x \in Nat /\ x \notin ToSet(l)
    BY <1>2, <2>3
  <2> HIDE DEF x
  <2>5. l2 \in Seq(Nat) /\ IsInjective(l2) /\ ToSet(l2) = ToSet(l) \union {x}
    BY <2>3, <2>4, InsertOnce
  <2> HIDE DEF l2
  <2>6. /\ es2 \in Seq(EntryType) /\ Open(es2) = Open(entries) /\ es2[f].address_list = l2
        /\ \A k \in DOMAIN entries : k # f => es2[k].address_list = entries[k].address_list
    BY <1>1, <2>2, <2>5, ListChanged
  <2> HIDE DEF es2
  <2>7. /\ Sound(quads', n + 2) /\ Len(quads') = n + 2
        /\ Unfilled(quads') = Unfilled(quads) \union {x}
    <3> DEFINE m == n + 2
    <3>1. m \in Nat /\ Sound(quads, m) /\ Len(quads) = n /\ x = n + 1 /\ m = n + 2
      BY <1>2, SoundSoFar DEF n, x
    <3> HIDE DEF m
    <3>2. ret.label <= m /\ jump.label <= m /\ ret.patch # "again" /\ jump.patch # "again"
      BY <1>4, <3>1
    <3>3. Sound(new, m) /\ Len(new) = 2 /\ Unfilled(new) = {1}
      <4>1. /\ Sound(<<ret, jump>>, m) /\ Len(<<ret, jump>>) = 2
            /\ Unfilled(<<ret, jump>>) = (IF ret.patch = "open" THEN {0} ELSE {})
                                            \union (IF jump.patch = "open" THEN {1} ELSE {})
        BY <1>4, <3>1, <3>2, TwoQuads
      <4> QED BY <1>4, <4>1
    <3> HIDE DEF new
    <3>4. /\ Sound(quads \o new, m) /\ Len(quads \o new) = Len(quads) + Len(new)
          /\ Unfilled(quads \o new) = Unfilled(quads) \union {Len(quads) + y : y \in Unfilled(new)}
      BY <3>1, <3>3, EmitSound
    <3>5. {n + y : y \in {1}} = {x}
      BY <3>1
    <3>6. Unfilled(quads \o new) = Unfilled(quads) \union {n + y : y \in {1}}
      BY <3>1, <3>3, <3>4
    <3>7. Len(quads \o new) = m
      BY <3>1, <3>3, <3>4
    <3> QED BY <2>1, <3>4, <3>5, <3>6, <3>7 DEF m
  <2>8. Fills({}, {x})
    <3>1. Len(quads) <= Len(quads') /\ Sound(quads', Len(quads')) /\ x >= Len(quads)
      BY <1>2, <2>7 DEF n, x
    <3> QED BY <2>7, <3>1, SoundFills
  <2>9. Owes(g) = {} /\ OwesOnce(g) /\ g.kind \notin LoopBodies /\ g \in FrameType
    <3>1. nil \in Seq(Nat) /\ ToSet(nil) = {} /\ IsInjective(nil) /\ nil = <<>>
      BY ListsAre
    <3>2. g = Frame("stmt", <<>>, nil, nil)
      BY DEF g
    <3> HIDE DEF nil
    <3> QED BY <3>1, <3>2, ValueOwes
  <2>10. Replaced(ctx, ctx', 0, g)
    BY <2>1, <2>9, PushReplaces, LedgerTypes
  <2>11. \A k \in Open(entries) : k \in DOMAIN entries
    BY DEF Open
  <2>12. Settles(ctx, entries, quads, 0, g, es2, f, quads', ToSet(l), {}, {x})
    <3>1. \A k \in Open(es2) : k # f => /\ k \in Open(entries)
                                       /\ es2[k].address_list = entries[k].address_list
      BY <2>6, <2>11
    <3>2. IsInjective(es2[f].address_list)
      BY <2>5, <2>6
    <3>3. \A y \in ToSet(l) : f \in Open(entries) /\ y \in ToSet(entries[f].address_list)
      BY <2>2 DEF l
    <3>4. ToSet(es2[f].address_list) \subseteq (ToSet(l) \ {}) \union {x}
      BY <2>5, <2>6
    <3>5. {x} \intersect Unfilled(quads) = {} /\ {x} \subseteq Unfilled(quads')
          /\ Unfilled(quads) \ {} \subseteq Unfilled(quads')
      BY <2>3, <2>7
    <3> HIDE DEF Owes, OwesOnce, Unfilled, Open
    <3> QED BY <2>9, <3>1, <3>2, <3>3, <3>4, <3>5 DEF Settles
  <2>13. Settles(ctx, entries, quads, 0, g, entries', f, quads', ToSet(l), {}, {x})
    BY <2>1, <2>12
  <2>14. Hands(0, g, f, {}, {x})
    <3>1. \A i \in DOMAIN ctx : ~(i > Len(ctx) - 0)
      BY LedgerTypes
    <3>2. \A k \in Open(entries) : k # f => /\ k \in Open(es2)
                                           /\ es2[k].address_list = entries[k].address_list
      BY <2>6, <2>11
    <3>3. f \in Open(es2) /\ ToSet(es2[f].address_list) = ToSet(entries[f].address_list) \union {x}
      BY <2>2, <2>5, <2>6 DEF l
    <3> HIDE DEF Owes, Open
    <3> QED BY <2>1, <3>1, <3>2, <3>3 DEF Hands
  <2> QED BY <2>8, <2>9, <2>10, <2>13, <2>14, SettleFunction
<1> QED BY <1>5, <1>6, <1>7

\* A function name emits the jump over its function, which heads its list.
LEMMA HeaderLedgered ==
  ASSUME Nested, Ledgered, NEW name \in AllNames, name \notin ToSet(TempNames),
         NEW named \in BOOLEAN, function_prefix(name, named)
  PROVE  Ledgered' /\ CoverKept
<1> DEFINE n == Len(quads)
           h == Len(entries) + 1
           made == Entry(name, current_scope, "USERFUNC", CurrentFunction)
           e == [made EXCEPT !.address_list = <<n>>, !.taddress = n + 1]
           nil == <<>>
           q == <<h>>
           g == Frame("func", q, nil, nil)
           jump == Hole("jump")
           start == Quad("funcstart", 0)
           new == <<jump, start>>
<1>1. AtStatement /\ Top.kind # "func" /\ entries \in Seq(EntryType)
  BY StartsOutside, LedgerTypes DEF function_prefix, Start
<1>2. n \in Nat /\ n + 1 \in Nat /\ n + 2 \in Nat /\ next_quad = n
  BY SoundSoFar DEF next_quad
<1>3. CurrentFunction \in Nat /\ current_scope \in Nat
  BY <1>1, CurrentIs
<1>4. /\ start \in QuadType /\ start.patch = "none" /\ start.label = 0
      /\ jump \in QuadType /\ jump.patch = "open" /\ jump.label = 0
  <2>1. 0 \in Nat
    OBVIOUS
  <2> QED BY <2>1, QuadIs, QuadFields
<1>5. entries' = Append(entries, e) /\ quads' = quads \o new /\ ctx' = Append(ctx, g)
  BY <1>2 DEF function_prefix, Push
<1>6. e \in EntryType /\ e.address_list = <<n>> /\ e.func_is_open
  <2>1. made \in EntryType /\ made.func_is_open
    BY <1>3, EntryIs
  <2> HIDE DEF made
  <2>2. <<n>> \in Seq(Nat)
    BY <1>2
  <2> QED BY <1>2, <2>1, <2>2 DEF EntryType
<1> HIDE DEF e, made, jump, start
<1>7. /\ entries' \in Seq(EntryType) /\ Open(entries') = Open(entries) \union {h}
      /\ h \notin DOMAIN entries /\ entries'[h] = e
      /\ \A k \in DOMAIN entries : entries'[k] = entries[k]
  BY <1>1, <1>5, <1>6, AppendIs
<1>8. h \in Nat
  BY <1>1, EntriesAre
<1> HIDE DEF h, n
<1>9. /\ Sound(quads', n + 2) /\ Len(quads') = n + 2
      /\ Unfilled(quads') = Unfilled(quads) \union {n}
  <2> DEFINE m == n + 2
  <2>1. m \in Nat /\ Sound(quads, m) /\ Len(quads) = n /\ m = n + 2
    BY <1>2, SoundSoFar DEF n
  <2> HIDE DEF m
  <2>2. start.label <= m /\ jump.label <= m /\ start.patch # "again" /\ jump.patch # "again"
    BY <1>4, <2>1
  <2>3. Sound(new, m) /\ Len(new) = 2 /\ Unfilled(new) = {0}
    <3>1. /\ Sound(<<jump, start>>, m) /\ Len(<<jump, start>>) = 2
          /\ Unfilled(<<jump, start>>) = (IF jump.patch = "open" THEN {0} ELSE {})
                                            \union (IF start.patch = "open" THEN {1} ELSE {})
      BY <1>4, <2>1, <2>2, TwoQuads
    <3> QED BY <1>4, <3>1
  <2> HIDE DEF new
  <2>4. /\ Sound(quads \o new, m) /\ Len(quads \o new) = Len(quads) + Len(new)
        /\ Unfilled(quads \o new) = Unfilled(quads) \union {Len(quads) + y : y \in Unfilled(new)}
    BY <2>1, <2>3, EmitSound
  <2>5. {n + y : y \in {0}} = {n}
    BY <1>2
  <2>6. Unfilled(quads \o new) = Unfilled(quads) \union {n + y : y \in {0}}
    BY <2>1, <2>3, <2>4
  <2>7. Len(quads \o new) = m
    BY <2>1, <2>3, <2>4
  <2> QED BY <1>5, <2>4, <2>5, <2>6, <2>7 DEF m
<1>10. Fills({}, {n})
  <2>1. Len(quads) <= Len(quads') /\ Sound(quads', Len(quads')) /\ n >= Len(quads)
    BY <1>2, <1>9 DEF n
  <2> QED BY <1>9, <2>1, SoundFills
<1>11. /\ nil \in Seq(Nat) /\ ToSet(nil) = {} /\ IsInjective(nil) /\ q \in Seq(Nat)
       /\ ToSet(<<n>>) = {n} /\ IsInjective(<<n>>)
  BY <1>8, ListsAre
<1> HIDE DEF nil, q
<1>12. Owes(g) = {} /\ OwesOnce(g) /\ g.kind \notin LoopBodies /\ g \in FrameType
  <2> DEFINE k == "func"
  <2>1. k \in Kinds \ {"if_then", "if_else", "while_body", "for_body"}
    BY DEF Kinds
  <2> HIDE DEF k
  <2>2. LET f == Frame(k, q, nil, nil)
        IN  Owes(f) = {} /\ OwesOnce(f) /\ f.kind \notin LoopBodies /\ f \in FrameType
    BY <1>11, <2>1, PlainOwes
  <2> QED BY <2>2 DEF k
<1> HIDE DEF g
<1>13. Replaced(ctx, ctx', 0, g)
  BY <1>5, <1>12, PushReplaces, LedgerTypes
<1>14. Settles(ctx, entries, quads, 0, g, entries', h, quads', {}, {}, {n})
  <2>1. \A k \in Open(entries) : k \in DOMAIN entries
    BY DEF Open
  <2>2. \A k \in Open(entries') : k # h => /\ k \in Open(entries)
                                          /\ entries'[k].address_list = entries[k].address_list
    BY <1>7, <2>1
  <2>3. entries'[h].address_list = <<n>>
    BY <1>6, <1>7
  <2>4. IsInjective(entries'[h].address_list) /\ ToSet(entries'[h].address_list) = {n}
    BY <1>11, <2>3
  <2>5. {n} \intersect Unfilled(quads) = {} /\ {n} \subseteq Unfilled(quads')
        /\ Unfilled(quads) \ {} \subseteq Unfilled(quads')
    BY <1>9, FreshIs DEF n
  <2> HIDE DEF Owes, OwesOnce, Unfilled, Open
  <2> QED BY <1>12, <2>2, <2>4, <2>5 DEF Settles
<1>15. Hands(0, g, h, {}, {n})
  <2>1. \A i \in DOMAIN ctx : ~(i > Len(ctx) - 0)
    BY LedgerTypes
  <2>2. \A k \in Open(entries) : /\ k # h /\ k \in Open(entries')
                                 /\ entries'[k].address_list = entries[k].address_list
    BY <1>7 DEF Open
  <2>3. h \in Open(entries') /\ ToSet(entries'[h].address_list) = {n}
    BY <1>6, <1>7, <1>11
  <2> HIDE DEF Owes, Open
  <2> QED BY <2>1, <2>2, <2>3 DEF Hands
<1> QED BY <1>10, <1>12, <1>13, <1>14, <1>15, SettleFunction

\* The "{" of a body: its frame owes what its header did.
LEMMA BodyLedgered ==
  ASSUME Nested, Ledgered, function_arguments
  PROVE  Ledgered' /\ CoverKept
<1> DEFINE m == Len(ctx)
           g == [ctx[m] EXCEPT !.kind = "body"]
<1>1. Top.kind = "func" /\ UNCHANGED quads /\ ctx' = [ctx EXCEPT ![Len(ctx)].kind = "body"]
  BY DEF function_arguments
<1>2. /\ ctx \in Seq(FrameType) /\ m \in Nat \ {0} /\ DOMAIN ctx = 1..m /\ Top = ctx[m]
      /\ Top \in FrameType /\ entries \in Seq(EntryType)
  BY LedgerTypes
<1>3. /\ g \in FrameType /\ g.kind = "body" /\ g.q = Top.q /\ g.b = Top.b /\ g.c = Top.c
  BY <1>2 DEF FrameType, Kinds
<1>4. Replaced(ctx, ctx', 1, g)
  <2>1. ctx' = [ctx EXCEPT ![m] = g]
    BY <1>1
  <2> HIDE DEF g
  <2>2. m \in DOMAIN ctx
    BY <1>2
  <2>3. /\ ctx' \in Seq(FrameType) /\ Len(ctx') = m /\ ctx'[m] = g
        /\ \A i \in DOMAIN ctx : i # m => ctx'[i] = ctx[i]
    BY <1>2, <1>3, <2>1, <2>2
  <2>4. 1 \in 0..m /\ m = m - 1 + 1 /\ \A i \in 1..(m - 1) : i \in 1..m /\ i # m
    <3>1. \A x \in Nat \ {0} :
             1 \in 0..x /\ x = x - 1 + 1 /\ \A i \in 1..(x - 1) : i \in 1..x /\ i # x
      OBVIOUS
    <3>2. m \in Nat \ {0}
      BY <1>2
    <3> HIDE DEF m
    <3> QED BY <3>1, <3>2
  <2>5. Len(ctx) = m
    OBVIOUS
  <2> HIDE DEF m
  <2> QED BY <1>2, <2>3, <2>4, <2>5 DEF Replaced
<1> HIDE DEF g, m
<1>5. /\ OwesOnce(Top) /\ Owes(Top) \subseteq Unfilled(quads)
      /\ \A x \in Owes(Top) : \E i \in DOMAIN ctx : i > Len(ctx) - 1 /\ x \in Owes(ctx[i])
      /\ \A i \in DOMAIN ctx : i > Len(ctx) - 1 => ctx[i] = Top
  BY TopOwes
<1>6. /\ Debts(g) = {} /\ DebtsApart(g) /\ g.kind \notin LoopBodies
  BY <1>3 DEF Debts, DebtsApart, LoopBodies
<1>7. OwesOnce(g)
  BY <1>3, <1>5, <1>6 DEF OwesOnce
<1>8. /\ Owes(g) \subseteq (Owes(Top) \ {}) \union {} /\ {} \subseteq Owes(Top)
      /\ {} \subseteq Owes(g)
      /\ \A i \in DOMAIN ctx : i > Len(ctx) - 1 => Owes(ctx[i]) \subseteq {} \union Owes(g)
  <2>1. Owes(g) = Owes(Top)
    BY <1>1, <1>3, <1>6 DEF Owes, Debts
  <2> HIDE DEF Owes
  <2> QED BY <1>5, <2>1
<1>9. Fills({}, {})
  BY <1>1, NothingFilled
<1>10. OpenKept
  <2>1. /\ entries' \in Seq(EntryType)
        /\ \A k \in DOMAIN entries : k \in DOMAIN entries' /\ entries'[k] = entries[k]
        /\ \A k \in DOMAIN entries' : k \notin DOMAIN entries => ~entries'[k].func_is_open
    BY <1>1, FormalsPut DEF Binds
  <2> QED BY <2>1 DEF OpenKept, Open
<1> HIDE DEF Owes
<1> QED BY <1>3, <1>4, <1>5, <1>6, <1>7, <1>8, <1>9, <1>10, SettleFrames

\* The "}" of a body patches the list of its function: the returns, and the
\* jump over it.
LEMMA DefinitionLedgered ==
  ASSUME Nested, Ledgered, function_definition
  PROVE  Ledgered' /\ CoverKept
<1> DEFINE n == Len(quads)
           m == n + 1
           f == Top.q[1]
           l == entries[f].address_list
           head == Head(l)
           rest == Tail(l)
           returned == Patch(quads, rest, n)
           end == Quad("funcend", 0)
           ended == Append(returned, end)
           nil == <<>>
           g == Frame("stmt", nil, nil, nil)
<1>1. /\ Top.kind = "body" /\ next_quad = n
      /\ quads' = Patch(ended, <<head>>, m) /\ Reduce(1, nil, nil)
  BY DEF function_definition, next_quad
<1>2. /\ n \in Nat /\ m \in Nat /\ n <= m /\ m = n + 1 /\ Sound(quads, n) /\ Sound(quads, m)
      /\ \A x \in Unfilled(quads) : x \in Nat /\ x < n
  BY SoundSoFar
<1>3. f \in DOMAIN entries /\ entries[f].func_is_open
  BY <1>1, ClosingIs
<1>4. f \in Open(entries)
  BY <1>3 DEF Open
<1>5. /\ entries' \in Seq(EntryType) /\ Hides(entries, entries', f)
      /\ \A k \in DOMAIN entries : entries'[k].address_list = entries[k].address_list
  BY BodyCloses
<1> HIDE DEF f
<1>6. /\ l \in Seq(Nat) /\ l # <<>> /\ IsInjective(l) /\ ToSet(l) \subseteq Unfilled(quads)
  BY <1>4, FreshIs
<1>7. /\ nil \in Seq(Nat) /\ ToSet(nil) = {} /\ IsInjective(nil) /\ nil = <<>>
  BY ListsAre
<1> HIDE DEF l
<1>8. /\ head \in Nat /\ rest \in Seq(Nat) /\ IsInjective(rest)
      /\ ToSet(l) = {head} \union ToSet(rest) /\ head \notin ToSet(rest)
  BY <1>6, SplitOnce
<1>9. end \in QuadType /\ end.patch = "none" /\ end.label = 0
  <2>1. 0 \in Nat
    OBVIOUS
  <2> QED BY <2>1, QuadIs, QuadFields
<1> HIDE DEF head, rest, end, n, m, nil
<1>10. /\ Sound(returned, m) /\ Len(returned) = n
       /\ Unfilled(returned) = Unfilled(quads) \ ToSet(rest)
  <2>1. ToSet(rest) \subseteq Unfilled(quads)
    BY <1>6, <1>8
  <2>2. /\ Sound(returned, m) /\ Len(returned) = Len(quads)
        /\ Unfilled(returned) = Unfilled(quads) \ ToSet(rest)
    BY <1>2, <1>8, <2>1, PatchSound
  <2>3. Len(quads) = n
    BY DEF n
  <2> QED BY <2>2, <2>3
<1> HIDE DEF returned
<1>11. /\ Sound(ended, m) /\ Len(ended) = m /\ Unfilled(ended) = Unfilled(quads) \ ToSet(rest)
  <2>1. end.patch # "again" /\ end.label <= m
    BY <1>2, <1>9
  <2>2. /\ Sound(ended, m) /\ Len(ended) = Len(returned) + 1
        /\ Unfilled(ended) = Unfilled(returned)
                               \union (IF end.patch = "open" THEN {Len(returned)} ELSE {})
    BY <1>2, <1>9, <1>10, <2>1, AppendSound
  <2>3. Len(ended) = m
    BY <1>2, <1>10, <2>2
  <2> QED BY <1>9, <1>10, <2>2, <2>3
<1> HIDE DEF ended
<1>12. /\ Sound(quads', m) /\ Len(quads') = m /\ Unfilled(quads') = Unfilled(quads) \ ToSet(l)
  <2>1. head \in Unfilled(ended) /\ m <= m
    BY <1>2, <1>6, <1>8, <1>11
  <2> DEFINE p == Patch(ended, <<head>>, m)
  <2>2. Sound(p, m) /\ Len(p) = Len(ended) /\ Unfilled(p) = Unfilled(ended) \ {head}
    BY <1>2, <1>8, <1>11, <2>1, PatchOne
  <2>3. quads' = p
    BY <1>1
  <2> HIDE DEF p
  <2>4. Unfilled(p) = Unfilled(quads) \ ToSet(l)
    BY <1>8, <1>11, <2>2
  <2> QED BY <1>11, <2>2, <2>3, <2>4
<1>13. Fills(ToSet(l), {})
  <2>1. Len(quads) <= Len(quads') /\ Sound(quads', Len(quads'))
    BY <1>2, <1>12 DEF n
  <2> QED BY <1>12, <2>1, SoundFills
<1>14. /\ Owes(g) = {} /\ OwesOnce(g) /\ g.kind \notin LoopBodies /\ Replaced(ctx, ctx', 1, g)
  <2>1. g = Frame("stmt", <<>>, nil, nil)
    BY <1>7
  <2>2. Owes(g) = {} /\ OwesOnce(g) /\ g.kind \notin LoopBodies
    BY <1>7, <2>1, ValueOwes
  <2>3. Replaced(ctx, ctx', 1, g)
    BY <1>1, <1>7, <2>1, TopReduced, NestedTypes
  <2> QED BY <2>2, <2>3
<1> HIDE DEF g
<1>15. Settles(ctx, entries, quads, 1, g, entries', f, quads', ToSet(l), ToSet(l), {})
  <2>1. \A k \in Open(entries') : /\ k # f /\ k \in Open(entries)
                                  /\ entries'[k].address_list = entries[k].address_list
    BY <1>3, <1>5 DEF Open, Hides
  <2>2. \A x \in ToSet(l) : f \in Open(entries) /\ x \in ToSet(entries[f].address_list)
    BY <1>4 DEF l
  <2>3. {} \intersect Unfilled(quads) = {} /\ Unfilled(quads) \ ToSet(l) \subseteq Unfilled(quads')
    BY <1>12
  <2> HIDE DEF Owes, OwesOnce, Unfilled, Open
  <2> QED BY <1>14, <2>1, <2>2, <2>3 DEF Settles
<1>16. Hands(1, g, f, ToSet(l), {})
  <2>1. \A k \in Open(entries) : k # f => /\ k \in Open(entries')
                                         /\ entries'[k].address_list = entries[k].address_list
    BY <1>5 DEF Open, Hides
  <2>2. ASSUME Bare(ctx) PROVE Owes(Top) = {}
    <3>1. Listless(Top)
      BY <1>1, <2>2, LedgerTypes DEF Bare
    <3>2. Debts(Top) = {}
      BY <1>1 DEF Debts
    <3> QED BY <3>1, <3>2, ListsAre DEF Listless, Owes
  <2>3. \A i \in DOMAIN ctx : i > Len(ctx) - 1 => ctx[i] = Top
    BY TopOwes
  <2> HIDE DEF Owes, Open
  <2> QED BY <2>1, <2>2, <2>3 DEF Hands, l
<1> QED BY <1>13, <1>14, <1>15, <1>16, SettleFunction
-----------------------------------------------------------------------------
(* What holds of every program *)

\* At first nothing is owed.
LEMMA LedgeredInit == Init => Ledgered
<1> SUFFICES ASSUME Init PROVE Ledgered
  OBVIOUS
<1>1. Open(entries) = {}
  BY LibraryIs DEF Open
<1> DEFINE nil == <<>>
           k == "program"
           g == Frame(k, nil, nil, nil)
<1>2. ctx = <<g>> /\ quads = <<>>
  BY DEF Init
<1>3. nil \in Seq(Nat) /\ ToSet(nil) = {} /\ IsInjective(nil)
  BY ListsAre
<1>4. k \in Kinds \ {"if_then", "if_else", "while_body", "for_body"}
  BY DEF Kinds
<1> HIDE DEF nil, k
<1>5. Owes(g) = {} /\ OwesOnce(g) /\ g.kind \notin LoopBodies
  BY <1>3, <1>4, PlainOwes
<1> HIDE DEF g
<1>6. DOMAIN ctx = {1} /\ ctx[1] = g
  BY <1>2
<1>7. Ledger(ctx, entries, quads)
  <2> HIDE DEF Owes, OwesOnce
  <2> QED BY <1>1, <1>5, <1>6 DEF Ledger
<1>8. DOMAIN quads = {}
  BY <1>2
<1>9. NoneAgain(quads) /\ Bounded(quads, Len(quads)) /\ Starts(ctx, Len(quads))
  BY <1>5, <1>6, <1>8 DEF NoneAgain, Bounded, Starts
<1> QED BY <1>7, <1>9 DEF Ledgered

\* Every step settles what it owes.
LEMMA LedgeredStep == Nested /\ Ledgered /\ [Next]_vars => Ledgered' /\ CoverKept
<1> SUFFICES ASSUME Nested, Ledgered, [Next]_vars PROVE Ledgered' /\ CoverKept
  OBVIOUS
<1>1. CASE all_statements
  BY <1>1, ListLedgered
<1>2. CASE empty_statement
  BY <1>2, PlainLedgered
<1>3. CASE program
  BY <1>3, StutterLedgered DEF program, tables
<1>4. ASSUME NEW n \in Var, UseVariable(n) \/ LocalVariable(n) \/ GlobalVariable(n)
                              \/ Assignment(n) \/ formal(n)
      PROVE  Ledgered' /\ CoverKept
  <2>1. CASE formal(n)
    BY <2>1, StutterLedgered DEF formal
  <2> QED BY <1>4, <2>1, PlainLedgered
<1>5. CASE block_open \/ block_close
  BY <1>5, BlockLedgered
<1>6. ASSUME NEW n \in Fun, function_prefix(n, TRUE)
      PROVE  Ledgered' /\ CoverKept
  <2>1. n \in AllNames /\ n \notin ToSet(TempNames) /\ TRUE \in BOOLEAN
    BY NamesApart
  <2> QED BY <1>6, <2>1, HeaderLedgered
<1>7. CASE /\ nameless_func_count < Len(AnonymousNames)
           /\ function_prefix(AnonymousName(nameless_func_count), FALSE)
  <2>1. nameless_func_count \in Nat /\ FALSE \in BOOLEAN
    BY DEF Nested
  <2>2. /\ AnonymousName(nameless_func_count) \in AllNames
        /\ AnonymousName(nameless_func_count) \notin ToSet(TempNames)
    BY <1>7, <2>1, NamesApart
  <2> HIDE DEF AnonymousName
  <2> QED BY <1>7, <2>1, <2>2, HeaderLedgered
<1>8. CASE function_arguments \/ function_definition \/ return
  BY <1>8, BodyLedgered, DefinitionLedgered, ReturnLedgered
<1>9. ASSUME NEW code \in Codes, if_prefix(code) \/ while_start(code)
      PROVE  Ledgered' /\ CoverKept
  <2>1. code \in {0, 1}
    BY DEF Codes
  <2> QED BY <1>9, <2>1, TestLedgered
<1>10. CASE if_without_else \/ else_prefix \/ if_else \/ while_statement
  BY <1>10, BranchLedgered, WhileLedgered
<1>11. ASSUME NEW code \in Codes, NEW step \in Codes, for_prefix(code, step)
       PROVE  Ledgered' /\ CoverKept
  <2>1. code \in {0, 1} /\ step \in {0, 1}
    BY DEF Codes
  <2> QED BY <1>11, <2>1, ForHeadLedgered
<1>12. CASE for_statement
  BY <1>12, ForEndLedgered
<1>13. ASSUME NEW kind \in {"break", "continue"}, break_or_continue(kind)
       PROVE  Ledgered' /\ CoverKept
  BY <1>13, JumpLedgered
<1>14. CASE Terminated \/ UNCHANGED vars
  BY <1>14, StutterLedgered DEF Terminated, vars, tables
<1> QED BY <1>1, <1>2, <1>3, <1>4, <1>5, <1>6, <1>7, <1>8, <1>9, <1>10, <1>11, <1>12,
           <1>13, <1>14 DEF Next

\* Each jump that waits for its label is in one list of one construct, from
\* beginning to end.
THEOREM JumpsAreOwedOnce == Spec => []Ledgered
<1>1. Init => Nested /\ Ledgered
  BY NestedInit, LedgeredInit
<1>2. Nested /\ Ledgered /\ [Next]_vars => (Nested /\ Ledgered)'
  BY NestedStep, LedgeredStep
<1> QED BY <1>1, <1>2, PTL DEF Spec

\* No label is patched twice (patch_label, intermediate_code.c:493).
THEOREM LabelsArePatchedOnce == Spec => []PatchedOnce
<1>1. Ledgered => PatchedOnce
  BY DEF Ledgered, NoneAgain, PatchedOnce
<1> QED BY <1>1, JumpsAreOwedOnce, PTL

-----------------------------------------------------------------------------
(* For every program: the stack of loops and function blocks mirrors the     *)
(* nest, every break, continue and return is handed to the construct it is   *)
(* written in and reaches it, and a program that compiles has no jump left   *)
(* whose target was never filled in.  With that, the type of all its state.  *)

Marked == LoopBodies \union {"body"}
Marks == {"LOOP", "FUNC_BLOCK"}
-----------------------------------------------------------------------------
(* The stack of loops and function blocks *)

\* A member on top of a set of positions is counted last.
LEMMA CountOnTop ==
  ASSUME NEW A, A \subseteq Nat, IsFiniteSet(A), NEW m \in Nat, \A i \in A : i < m
  PROVE  LET B == A \union {m}
         IN  /\ Cardinality(A) \in Nat
             /\ IsFiniteSet(B) /\ Cardinality(B) = Cardinality(A) + 1
             /\ \A i \in A : /\ {j \in B : j <= i} = {j \in A : j <= i}
                             /\ Cardinality({j \in A : j <= i}) \in 1..Cardinality(A)
             /\ {j \in B : j <= m} = B
<1> DEFINE B == A \union {m}
<1>1. m \notin A
  OBVIOUS
<1>2. Cardinality(A) \in Nat /\ IsFiniteSet(B) /\ Cardinality(B) = Cardinality(A) + 1
  BY <1>1, FS_AddElement, FS_CardinalityType
<1>3. ASSUME NEW i \in A
      PROVE  /\ {j \in B : j <= i} = {j \in A : j <= i}
             /\ Cardinality({j \in A : j <= i}) \in 1..Cardinality(A)
  <2> DEFINE C == {j \in A : j <= i}
  <2>1. {j \in B : j <= i} = C
    OBVIOUS
  <2>2. C \subseteq A /\ i \in C
    OBVIOUS
  <2> HIDE DEF C
  <2>3. IsFiniteSet(C) /\ Cardinality(C) <= Cardinality(A)
    BY <2>2, FS_Subset
  <2>4. Cardinality(C) \in Nat /\ Cardinality(C) # 0
    BY <2>2, <2>3, FS_CardinalityType, FS_EmptySet
  <2>5. Cardinality(C) \in 1..Cardinality(A)
    BY <1>2, <2>3, <2>4
  <2> QED BY <2>1, <2>5 DEF C
<1>4. {j \in B : j <= m} = B
  <2>1. \A j \in B : j <= m
    OBVIOUS
  <2> QED BY <2>1, Zenon
<1> QED BY <1>2, <1>3, <1>4

\* The loops and bodies of a stack are among its frames.
LEMMA AroundIs ==
  ASSUME NEW cx \in Seq(FrameType)
  PROVE  /\ Len(cx) \in Nat /\ DOMAIN cx = 1..Len(cx) /\ IsFiniteSet(Around(cx))
         /\ Around(cx) \subseteq 1..Len(cx) /\ Around(cx) \subseteq Nat
<1>1. Len(cx) \in Nat /\ DOMAIN cx = 1..Len(cx)
  OBVIOUS
<1>2. Around(cx) \subseteq 1..Len(cx)
  BY <1>1 DEF Around
<1>3. IsFiniteSet(1..Len(cx))
  BY <1>1, FS_Interval
<1> QED BY <1>1, <1>2, <1>3, FS_Subset

\* The loops and bodies around r, and cx, differ by the frame m on top of r only.
SameMarks(cx, r) == /\ Around(r) = Around(cx)
                    /\ \A i \in Around(cx) : r[i].kind = cx[i].kind
MarkAdded(cx, r, m) == /\ m \in Nat /\ Around(r) = Around(cx) \union {m}
                       /\ \A i \in Around(cx) : i < m /\ r[i].kind = cx[i].kind

\* The same marks are tracked by the same stack,
LEMMA TracksSame ==
  ASSUME NEW cx, NEW r, SameMarks(cx, r), NEW stack, Tracks(stack, cx)
  PROVE  Tracks(stack, r)
BY DEF SameMarks, Tracks, Position

\* one that is entered is pushed,
LEMMA TracksPush ==
  ASSUME NEW cx \in Seq(FrameType), NEW r, NEW m, MarkAdded(cx, r, m),
         NEW stack \in Seq(Marks), Tracks(stack, cx), NEW mark \in Marks,
         mark = Mark(r[m].kind)
  PROVE  Tracks(Append(stack, mark), r)
<1> DEFINE A == Around(cx)
           s == Append(stack, mark)
<1>1. IsFiniteSet(A) /\ A \subseteq Nat
  BY AroundIs
<1>2. m \in Nat /\ \A i \in A : i < m
  BY DEF MarkAdded
<1>3. Around(r) = A \union {m} /\ \A i \in A : r[i].kind = cx[i].kind
  BY DEF MarkAdded
<1>4. Len(stack) = Cardinality(A) /\ \A i \in A : stack[Position(cx, i)] = Mark(cx[i].kind)
  BY DEF Tracks
<1>5. \A i : Position(cx, i) = Cardinality({j \in A : j <= i})
  BY DEF Position
<1>6. \A i : Position(r, i) = Cardinality({j \in A \union {m} : j <= i})
  BY <1>3 DEF Position
<1>7. /\ Len(s) = Len(stack) + 1 /\ s[Len(stack) + 1] = mark
      /\ \A i \in 1..Len(stack) : s[i] = stack[i]
  OBVIOUS
<1> HIDE DEF A, s
<1>8. /\ Cardinality(A) \in Nat
      /\ Cardinality(A \union {m}) = Cardinality(A) + 1
      /\ \A i \in A : /\ {j \in A \union {m} : j <= i} = {j \in A : j <= i}
                      /\ Cardinality({j \in A : j <= i}) \in 1..Cardinality(A)
      /\ {j \in A \union {m} : j <= m} = A \union {m}
  BY <1>1, <1>2, CountOnTop
<1>9. \A i \in A : Position(r, i) = Position(cx, i) /\ Position(cx, i) \in 1..Cardinality(A)
  BY <1>5, <1>6, <1>8
<1>10. Position(r, m) = Cardinality(A) + 1
  BY <1>6, <1>8
<1>11. Len(s) = Cardinality(Around(r))
  BY <1>3, <1>4, <1>7, <1>8
<1>12. ASSUME NEW i \in Around(r) PROVE s[Position(r, i)] = Mark(r[i].kind)
  <2>1. CASE i \in A
    <3>1. s[Position(cx, i)] = stack[Position(cx, i)]
      BY <1>4, <1>7, <1>9, <2>1
    <3> QED BY <1>3, <1>4, <1>9, <2>1, <3>1
  <2>2. CASE i = m
    BY <1>4, <1>7, <1>10, <2>2
  <2> QED BY <1>3, <2>1, <2>2
<1> QED BY <1>11, <1>12 DEF Tracks, s

\* and one that is left is popped.
LEMMA TracksPop ==
  ASSUME NEW cx, NEW r \in Seq(FrameType), NEW m, MarkAdded(r, cx, m),
         NEW stack \in Seq(Marks), Tracks(stack, cx)
  PROVE  Tracks(stack_pop(stack), r)
<1> DEFINE A == Around(r)
           s == stack_pop(stack)
<1>1. IsFiniteSet(A) /\ A \subseteq Nat
  BY AroundIs
<1>2. m \in Nat /\ \A i \in A : i < m
  BY DEF MarkAdded
<1>3. Around(cx) = A \union {m} /\ \A i \in A : r[i].kind = cx[i].kind
  BY DEF MarkAdded
<1>4. /\ Len(stack) = Cardinality(A \union {m})
      /\ \A i \in A : stack[Position(cx, i)] = Mark(cx[i].kind)
  BY <1>3 DEF Tracks
<1>5. \A i : Position(r, i) = Cardinality({j \in A : j <= i})
  BY DEF Position
<1>6. \A i : Position(cx, i) = Cardinality({j \in A \union {m} : j <= i})
  BY <1>3 DEF Position
<1> HIDE DEF A, s
<1>7. /\ Cardinality(A) \in Nat
      /\ Cardinality(A \union {m}) = Cardinality(A) + 1
      /\ \A i \in A : /\ {j \in A \union {m} : j <= i} = {j \in A : j <= i}
                      /\ Cardinality({j \in A : j <= i}) \in 1..Cardinality(A)
  BY <1>1, <1>2, CountOnTop
<1>8. \A i \in A : Position(r, i) = Position(cx, i) /\ Position(r, i) \in 1..Cardinality(A)
  BY <1>5, <1>6, <1>7
<1>9. Len(stack) = Cardinality(A) + 1
  BY <1>4, <1>7
<1>10. Len(s) = Cardinality(A) /\ \A i \in 1..Cardinality(A) : s[i] = stack[i]
  <2>1. stack # <<>>
    BY <1>7, <1>9
  <2>2. s = SubSeq(stack, 1, Len(stack) - 1)
    BY <2>1 DEF s, stack_pop, Front
  <2>3. s = SubSeq(stack, 1, Cardinality(A))
    BY <1>7, <1>9, <2>2
  <2> QED BY <1>7, <1>9, <2>3
<1>11. ASSUME NEW i \in A PROVE s[Position(r, i)] = Mark(r[i].kind)
  BY <1>3, <1>4, <1>8, <1>10
<1> QED BY <1>10, <1>11 DEF Tracks, A, s

\* What is on top of the stack is the innermost of them.
LEMMA TracksTop ==
  ASSUME NEW cx \in Seq(FrameType), NEW stack \in Seq(Marks), Tracks(stack, cx),
         stack # <<>>
  PROVE  /\ Around(cx) # {} /\ Max(Around(cx)) \in Around(cx)
         /\ \A i \in Around(cx) : i <= Max(Around(cx))
         /\ Last(stack) = Mark(cx[Max(Around(cx))].kind)
<1> DEFINE A == Around(cx)
           m == Max(A)
<1>1. /\ IsFiniteSet(A) /\ A \subseteq Nat /\ Len(cx) \in Nat /\ A \subseteq 0..Len(cx)
  BY AroundIs
<1>2. Len(stack) \in Nat /\ Len(stack) # 0 /\ Last(stack) = stack[Len(stack)]
  BY DEF Last
<1>3. Len(stack) = Cardinality(A)
  BY DEF Tracks
<1>4. A # {}
  BY <1>2, <1>3, FS_EmptySet
<1>5. m \in A /\ \A i \in A : i <= m
  <2> HIDE DEF A
  <2> QED BY <1>1, <1>4, MaxIsLast
<1>6. {j \in A : j <= m} = A
  BY <1>5
<1>7. Position(cx, m) = Cardinality(A)
  BY <1>6 DEF Position
<1>8. stack[Position(cx, m)] = Mark(cx[m].kind)
  BY <1>5 DEF Tracks
<1> QED BY <1>2, <1>3, <1>4, <1>5, <1>7, <1>8
-----------------------------------------------------------------------------
(* What is emitted, and what for *)

\* The quads p go on from the quads qs with quads emitted for the reasons S.
Emits(qs, p, S) ==
  /\ p \in Seq(QuadType) /\ Len(qs) <= Len(p)
  /\ \A i \in DOMAIN qs : p[i].why = qs[i].why /\ p[i].at = qs[i].at
  /\ \A i \in DOMAIN p : i > Len(qs) => p[i].why \in S

\* Quads go on from themselves, for any reasons, and for more of them.
LEMMA EmitsSelf ==
  ASSUME NEW qs \in Seq(QuadType)
  PROVE  /\ \A S : Emits(qs, qs, S)
         /\ \A p, S, T : Emits(qs, p, S) /\ S \subseteq T => Emits(qs, p, T)
<1>1. Len(qs) \in Nat /\ DOMAIN qs = 1..Len(qs)
  OBVIOUS
<1> QED BY <1>1 DEF Emits

\* What is emitted in turn is emitted.
LEMMA EmitsMore ==
  ASSUME NEW qs \in Seq(QuadType), NEW p, NEW S, Emits(qs, p, S),
         NEW new \in Seq(QuadType), \A j \in DOMAIN new : new[j].why \in S
  PROVE  Emits(qs, p \o new, S)
<1> DEFINE r == p \o new
<1>1. p \in Seq(QuadType) /\ Len(qs) <= Len(p) /\ Len(qs) \in Nat /\ Len(p) \in Nat
  BY DEF Emits
<1>2. /\ r \in Seq(QuadType) /\ Len(r) = Len(p) + Len(new) /\ Len(new) \in Nat
      /\ DOMAIN r = 1..Len(r) /\ DOMAIN p = 1..Len(p) /\ DOMAIN qs = 1..Len(qs)
      /\ \A i \in DOMAIN p : r[i] = p[i]
      /\ \A i \in DOMAIN r : i > Len(p) => r[i] = new[i - Len(p)] /\ i - Len(p) \in DOMAIN new
  BY <1>1
<1> HIDE DEF r
<1>3. \A i \in DOMAIN qs : r[i].why = qs[i].why /\ r[i].at = qs[i].at
  BY <1>1, <1>2 DEF Emits
<1>4. \A i \in DOMAIN r : i > Len(qs) => r[i].why \in S
  <2>1. ASSUME NEW i \in DOMAIN r, i > Len(qs) PROVE r[i].why \in S
    <3>1. CASE i <= Len(p)
      BY <1>1, <1>2, <2>1, <3>1 DEF Emits
    <3>2. CASE i > Len(p)
      BY <1>2, <3>2
    <3> QED BY <1>1, <1>2, <3>1, <3>2
  <2> QED BY <2>1
<1>5. Len(qs) <= Len(r)
  BY <1>1, <1>2
<1> QED BY <1>2, <1>3, <1>4, <1>5 DEF Emits, r

\* So is one quad.
LEMMA EmitsOne ==
  ASSUME NEW qs \in Seq(QuadType), NEW p, NEW S, Emits(qs, p, S),
         NEW q \in QuadType, q.why \in S
  PROVE  Emits(qs, Append(p, q), S)
<1>1. <<q>> \in Seq(QuadType) /\ \A j \in DOMAIN <<q>> : <<q>>[j].why \in S
  OBVIOUS
<1>2. Emits(qs, p \o <<q>>, S)
  BY <1>1, EmitsMore
<1>3. p \o <<q>> = Append(p, q)
  BY DEF Emits
<1> QED BY <1>2, <1>3

\* Patching a list of labels changes the label of the quads in it, and leaves
\* what every quad was emitted for.
LEMMA PatchLabels ==
  ASSUME NEW qs \in Seq(QuadType), NEW l, NEW label \in Nat
  PROVE  LET p == Patch(qs, l, label)
         IN  /\ p \in Seq(QuadType) /\ Len(p) = Len(qs)
             /\ \A i \in DOMAIN qs :
                  /\ p[i].why = qs[i].why /\ p[i].at = qs[i].at
                  /\ i - 1 \in ToSet(l) => p[i].label = label
                  /\ i - 1 \notin ToSet(l) => p[i].label = qs[i].label
<1> DEFINE p == Patch(qs, l, label)
           hits(i) == {j \in DOMAIN l : l[j] = i - 1}
<1>1. p \in Seq(QuadType) /\ Len(p) = Len(qs)
  BY PatchIs
<1>2. ASSUME NEW i \in DOMAIN qs
      PROVE  /\ p[i].why = qs[i].why /\ p[i].at = qs[i].at
             /\ i - 1 \in ToSet(l) => p[i].label = label
             /\ i - 1 \notin ToSet(l) => p[i].label = qs[i].label
  <2> DEFINE patch == IF qs[i].patch = "open" /\ Cardinality(hits(i)) = 1
                      THEN "once" ELSE "again"
  <2>1. p[i] = IF hits(i) = {} THEN qs[i]
               ELSE [qs[i] EXCEPT !.label = label, !.patch = patch]
    BY DEF Patch
  <2>2. qs[i] \in QuadType
    OBVIOUS
  <2>3. i - 1 \in ToSet(l) <=> hits(i) # {}
    BY DEF ToSet
  <2> HIDE DEF p, hits, patch
  <2>4. [qs[i] EXCEPT !.label = label, !.patch = patch].label = label
    BY <2>2 DEF QuadType
  <2>5. /\ [qs[i] EXCEPT !.label = label, !.patch = patch].why = qs[i].why
        /\ [qs[i] EXCEPT !.label = label, !.patch = patch].at = qs[i].at
    BY <2>2 DEF QuadType
  <2> QED BY <2>1, <2>3, <2>4, <2>5
<1> HIDE DEF p
<1> QED BY <1>1, <1>2 DEF p

\* So patching what is emitted leaves it emitted.
LEMMA EmitsPatch ==
  ASSUME NEW qs \in Seq(QuadType), NEW p, NEW S, Emits(qs, p, S),
         NEW l, NEW label \in Nat
  PROVE  Emits(qs, Patch(p, l, label), S)
<1> DEFINE r == Patch(p, l, label)
<1>1. p \in Seq(QuadType) /\ Len(qs) <= Len(p) /\ Len(qs) \in Nat /\ Len(p) \in Nat
  BY DEF Emits
<1>2. /\ r \in Seq(QuadType) /\ Len(r) = Len(p)
      /\ \A i \in DOMAIN p : r[i].why = p[i].why /\ r[i].at = p[i].at
  BY <1>1, PatchLabels
<1> HIDE DEF r
<1>3. DOMAIN r = DOMAIN p /\ DOMAIN p = 1..Len(p) /\ DOMAIN qs = 1..Len(qs)
  BY <1>1, <1>2
<1> QED BY <1>1, <1>2, <1>3 DEF Emits, r

\* What the quads of each sort are emitted for.
LEMMA ReasonsAre ==
  /\ \A op, label : Quad(op, label).why = "" /\ Quad(op, label).at = 0
  /\ \A op : Hole(op).why = ""
  /\ \A why, at : Owed(why, at).why = why /\ Owed(why, at).at = at
BY DEF Quad, Hole, Owed

\* One quad, and two, are sequences.
LEMMA ShortQuads ==
  ASSUME NEW a \in QuadType, NEW b \in QuadType
  PROVE  /\ <<a>> \in Seq(QuadType) /\ <<a, b>> \in Seq(QuadType)
         /\ \A p \in Seq(QuadType) : p \o <<a>> = Append(p, a)
OBVIOUS

\* Two quads are emitted as one after the other.
LEMMA EmitsTwo ==
  ASSUME NEW qs \in Seq(QuadType), NEW p, NEW S, Emits(qs, p, S),
         NEW a \in QuadType, a.why \in S, NEW b \in QuadType, b.why \in S
  PROVE  Emits(qs, p \o <<a, b>>, S)
<1>1. Emits(qs, Append(p, a), S)
  BY EmitsOne
<1>2. Emits(qs, Append(Append(p, a), b), S)
  BY <1>1, EmitsOne
<1>3. Append(Append(p, a), b) = p \o <<a, b>>
  BY DEF Emits
<1> QED BY <1>2, <1>3

\* Straight-line code, and tests, are emitted for no jump of the program's.
LEMMA CodeEmits ==
  ASSUME NEW qs \in Seq(QuadType), NEW p, Emits(qs, p, {""}), NEW code \in {0, 1}
  PROVE  Emits(qs, p \o Code(code), {""})
<1>1. Code(code) \in Seq(QuadType)
  BY CodeIs
<1>2. \A j \in DOMAIN Code(code) : Code(code)[j].why \in {""}
  <2>1. Code(code) = [i \in 1..code |-> Quad("uminus", 0)]
    BY DEF Code
  <2>2. Quad("uminus", 0).why = ""
    BY ReasonsAre
  <2> QED BY <2>1, <2>2
<1> QED BY <1>1, <1>2, EmitsMore

\* The quads of a test are for no break, continue or return.
LEMMA TestEmits ==
  ASSUME Nested, NEW code \in {0, 1}
  PROVE  Emits(quads, quads \o Test(code), {""})
<1> DEFINE cs == Code(code)
           a == Quad("if_eq", next_quad + code + 2)
           h == Hole("jump")
<1>1. quads \in Seq(QuadType) /\ next_quad + code + 2 \in Nat
  BY NestedTypes
<1>2. a \in QuadType /\ h \in QuadType /\ a.why = "" /\ h.why = ""
  BY <1>1, QuadIs, ReasonsAre
<1>3. Test(code) = cs \o <<a, h>>
  BY DEF Test
<1>4. cs \in Seq(QuadType)
  BY CodeIs
<1>5. Emits(quads, quads \o cs, {""})
  BY <1>1, EmitsSelf, CodeEmits
<1> HIDE DEF cs, a, h
<1>6. Emits(quads, (quads \o cs) \o <<a, h>>, {""})
  <2>1. a.why \in {""} /\ h.why \in {""}
    BY <1>2
  <2> QED BY <1>1, <1>2, <1>5, <2>1, EmitsTwo
<1>7. (quads \o cs) \o <<a, h>> = quads \o (cs \o <<a, h>>)
  <2> DEFINE t == <<a, h>>
  <2>1. t \in Seq(QuadType)
    BY <1>2, ShortQuads
  <2> HIDE DEF t
  <2>2. (quads \o cs) \o t = quads \o (cs \o t)
    BY <1>1, <1>4, <2>1
  <2> QED BY <2>2 DEF t
<1> QED BY <1>3, <1>6, <1>7

\* What a step emits, for no jump of the program's.
NoReason == Emits(quads, quads', {""})

\* Expressions and tests, headers, and the ends of branches and of bodies.
LEMMA StraightEmits ==
  ASSUME Nested,
         \/ UNCHANGED quads
         \/ \E n \in Var : Assignment(n)
         \/ \E n, named : function_prefix(n, named)
         \/ \E code \in {0, 1} : if_prefix(code) \/ while_start(code)
         \/ \E code, step \in {0, 1} : for_prefix(code, step)
  PROVE  NoReason
<1>1. quads \in Seq(QuadType) /\ Emits(quads, quads, {""})
  BY NestedTypes, EmitsSelf
<1>2. CASE UNCHANGED quads
  BY <1>1, <1>2 DEF NoReason
<1>3. CASE \E n \in Var : Assignment(n)
  <2> DEFINE q == Quad("assign", 0)
  <2>1. quads' = quads \o <<q, q>>
    BY <1>3 DEF Assignment
  <2>2. q \in QuadType /\ q.why = ""
    BY QuadIs, ReasonsAre
  <2> HIDE DEF q
  <2>3. q.why \in {""}
    BY <2>2
  <2>4. Emits(quads, quads \o <<q, q>>, {""})
    BY <1>1, <2>2, <2>3, EmitsTwo
  <2> QED BY <2>1, <2>4 DEF NoReason
<1>4. CASE \E n, named : function_prefix(n, named)
  <2> DEFINE a == Hole("jump")
             q == Quad("funcstart", 0)
  <2>1. quads' = quads \o <<a, q>>
    BY <1>4 DEF function_prefix
  <2>2. a \in QuadType /\ q \in QuadType /\ a.why = "" /\ q.why = ""
    BY QuadIs, ReasonsAre
  <2> HIDE DEF a, q
  <2>3. a.why \in {""} /\ q.why \in {""}
    BY <2>2
  <2>4. Emits(quads, quads \o <<a, q>>, {""})
    BY <1>1, <2>2, <2>3, EmitsTwo
  <2> QED BY <2>1, <2>4 DEF NoReason
<1>5. CASE \E code \in {0, 1} : if_prefix(code) \/ while_start(code)
  <2>1. PICK code \in {0, 1} : if_prefix(code) \/ while_start(code)
    BY <1>5
  <2>2. quads' = quads \o Test(code)
    BY <2>1 DEF if_prefix, while_start
  <2> QED BY <2>2, TestEmits DEF NoReason
<1>6. CASE \E code, step \in {0, 1} : for_prefix(code, step)
  <2>1. PICK code \in {0, 1}, step \in {0, 1} : for_prefix(code, step)
    BY <1>6
  <2> DEFINE a == Hole("if_eq")
             h == Hole("jump")
  <2>2. quads' = quads \o Code(code) \o <<a, h>> \o Code(step) \o <<h>>
    BY <2>1 DEF for_prefix
  <2>3. a \in QuadType /\ h \in QuadType /\ a.why = "" /\ h.why = ""
    BY QuadIs, ReasonsAre
  <2>4. Emits(quads, quads \o Code(code), {""})
    BY <1>1, CodeEmits
  <2> HIDE DEF a, h
  <2>5. a.why \in {""} /\ h.why \in {""}
    BY <2>3
  <2>6. Emits(quads, quads \o Code(code) \o <<a, h>>, {""})
    BY <1>1, <2>3, <2>4, <2>5, EmitsTwo
  <2>7. Emits(quads, quads \o Code(code) \o <<a, h>> \o Code(step), {""})
    BY <1>1, <2>6, CodeEmits
  <2> DEFINE p == quads \o Code(code) \o <<a, h>> \o Code(step)
  <2>8. p \in Seq(QuadType)
    BY <2>7 DEF Emits
  <2>9. Emits(quads, p, {""})
    BY <2>7
  <2>10. quads' = p \o <<h>>
    BY <2>2
  <2> HIDE DEF p
  <2>11. quads' = Append(p, h)
    BY <2>3, <2>8, <2>10, ShortQuads
  <2> QED BY <1>1, <2>3, <2>5, <2>9, <2>11, EmitsOne DEF NoReason
<1> QED BY <1>2, <1>3, <1>4, <1>5, <1>6
-----------------------------------------------------------------------------
(* How the stack moves *)

\* The innermost loop around position p of a stack, within its function, or 0.
LoopOf(cx, p) ==
  LET around == {i \in Around(cx) : i <= p}
  IN  IF around = {} \/ cx[Max(around)].kind = "body" THEN 0 ELSE Max(around)

\* What is emitted is no jump out of a loop, nor to its next round; and it is a
\* return only where one is written.
Quiet == Emits(quads, quads', {"", "for"})
Returns == return /\ Emits(quads, quads', {"", "return"})

\* What a step does to the frames, the stack of loops and function blocks and
\* the quads.  A frame without lists, or with a jump it has just emitted, is
\* pushed; a loop or a body is entered; frames are joined to the one they
\* belong to, which takes over their lists; a loop or a body is left.
Rests == UNCHANGED <<ctx, block_stack, quads>>
Pushes == /\ UNCHANGED block_stack /\ (Quiet \/ Returns)
          /\ \E g \in FrameType : /\ Replaced(ctx, ctx', 0, g) /\ Listless(g)
                                  /\ g.kind \notin Marked
EntersLoop == /\ block_stack' = Append(block_stack, "LOOP") /\ Quiet
              /\ \E g \in FrameType : /\ Replaced(ctx, ctx', 0, g) /\ Listless(g)
                                      /\ g.kind \in LoopBodies /\ g.q[1] = Len(quads)
EntersBody == /\ block_stack' = Append(block_stack, "FUNC_BLOCK") /\ UNCHANGED quads
              /\ Top.kind = "func"
              /\ \E g \in FrameType : /\ Replaced(ctx, ctx', 1, g) /\ g.kind = "body"
                                      /\ g.b = Top.b /\ g.c = Top.c
JumpsOut ==
  /\ UNCHANGED block_stack /\ block_stack # <<>> /\ Last(block_stack) = "LOOP"
  /\ \E kind \in {"break", "continue"}, g \in FrameType :
       /\ Replaced(ctx, ctx', 0, g) /\ g.kind = "stmt"
       /\ quads' = Append(quads, Owed(kind, CurrentLoop))
       /\ ToSet(g.b) = IF kind = "break" THEN {Len(quads)} ELSE {}
       /\ ToSet(g.c) = IF kind = "break" THEN {} ELSE {Len(quads)}

\* The frame joined, or left, is the n-th from the top; a statement is on it.
Joined(n, g) ==
  /\ Replaced(ctx, ctx', n, g) /\ n \in {1, 2}
  /\ n = 2 => Top.kind = "stmt"
  /\ \A x \in ToSet(g.b) : \E i \in DOMAIN ctx : i > Len(ctx) - n /\ x \in ToSet(ctx[i].b)
  /\ \A x \in ToSet(g.c) : \E i \in DOMAIN ctx : i > Len(ctx) - n /\ x \in ToSet(ctx[i].c)
  /\ \A i \in DOMAIN ctx : (i > Len(ctx) - n /\ ctx[i].kind # "if_then") =>
       ToSet(ctx[i].b) \subseteq ToSet(g.b) /\ ToSet(ctx[i].c) \subseteq ToSet(g.c)
Joins == /\ UNCHANGED block_stack /\ Quiet
         /\ \E n \in {1, 2}, g \in FrameType :
              LET base == ctx[Len(ctx) - n + 1]
              IN  /\ Joined(n, g) /\ g.kind \notin LoopBodies \union {"if_then", "func"}
                  /\ base.kind \notin LoopBodies
                  /\ (g.kind = "body") <=> (base.kind = "body")

\* Every label of list l has been patched.
Reached(l, label) == \A x \in ToSet(l) : quads'[x + 1].label = label

LeavesLoop ==
  /\ Quiet /\ Top.kind = "stmt" /\ Below.kind \in LoopBodies
  /\ \E g \in FrameType : Replaced(ctx, ctx', 2, g) /\ g.kind = "stmt" /\ Listless(g)
  /\ \/ block_stack' = stack_pop(block_stack)
     \/ UNCHANGED block_stack /\ \E i \in DOMAIN quads' : quads'[i].why = "for"
  /\ Reached(Top.b, Len(quads'))
  /\ Reached(Top.c, IF Below.kind = "while_body" THEN Below.q[1] ELSE Below.q[3] + 1)
LeavesBody ==
  /\ Emits(quads, quads', {""}) /\ Top.kind = "body"
  /\ \E g \in FrameType : Replaced(ctx, ctx', 1, g) /\ g.kind = "stmt" /\ Listless(g)
  /\ block_stack' = stack_pop(block_stack)
  /\ Reached(Tail(entries[Top.q[1]].address_list), Len(quads') - 1)

\* Frames that are pushed without lists.
LEMMA PushIs ==
  ASSUME Nested, NEW kind \in Kinds, NEW q \in Seq(Nat), NEW b \in Seq(Nat),
         NEW c \in Seq(Nat), Push(Frame(kind, q, b, c))
  PROVE  LET g == Frame(kind, q, b, c)
         IN  /\ g \in FrameType /\ Replaced(ctx, ctx', 0, g)
             /\ g.kind = kind /\ g.q = q /\ g.b = b /\ g.c = c
             /\ b = <<>> /\ c = <<>> => Listless(g)
<1> DEFINE g == Frame(kind, q, b, c)
<1>1. g \in FrameType /\ g.kind = kind /\ g.q = q /\ g.b = b /\ g.c = c
  BY FrameIs
<1>2. ctx' = Append(ctx, g) /\ ctx \in Seq(FrameType)
  BY NestedTypes DEF Push, Shaped
<1> HIDE DEF g
<1>3. Replaced(ctx, ctx', 0, g)
  BY <1>1, <1>2, PushReplaces
<1>4. ToSet(<<>>) = {}
  BY ListsAre
<1> QED BY <1>1, <1>3, <1>4 DEF Listless, g

\* Emitting nothing, or for no jump, is quiet.
LEMMA NoReasonQuiet ==
  ASSUME Nested, NoReason
  PROVE  Quiet
<1>1. {""} \subseteq {"", "for"}
  OBVIOUS
<1> QED BY <1>1, NestedTypes, EmitsSelf DEF NoReason, Quiet

\* Statements that are one symbol, blocks, headers and branches push a frame
\* without lists.
LEMMA PushSteps ==
  ASSUME Nested,
         \/ empty_statement \/ block_open \/ return
         \/ \E n \in Var : UseVariable(n) \/ LocalVariable(n) \/ GlobalVariable(n)
                             \/ Assignment(n)
         \/ \E n, named : function_prefix(n, named)
         \/ \E code \in {0, 1} : if_prefix(code)
  PROVE  Pushes \/ Rests
<1> DEFINE nil == <<>>
<1>1. nil \in Seq(Nat) /\ nil = <<>>
  BY ListsAre
<1>2. NULL_Statement => Push(Frame("stmt", nil, nil, nil))
  BY DEF NULL_Statement, Statement
<1> HIDE DEF nil
<1>3. ASSUME UNCHANGED block_stack, Quiet \/ Returns,
             NEW kind \in {"stmt", "block", "func", "if_then"},
             NEW q \in Seq(Nat), Push(Frame(kind, q, nil, nil))
      PROVE  Pushes
  <2> DEFINE g == Frame(kind, q, nil, nil)
  <2>1. kind \in Kinds /\ kind \notin Marked
    BY DEF Kinds, Marked, LoopBodies
  <2>2. /\ g \in FrameType /\ Replaced(ctx, ctx', 0, g) /\ g.kind = kind
        /\ nil = <<>> /\ nil = <<>> => Listless(g)
    <3>1. Push(Frame(kind, q, nil, nil)) /\ nil \in Seq(Nat) /\ q \in Seq(Nat)
      BY <1>1, <1>3
    <3> QED BY <2>1, <3>1, PushIs
  <2>3. Listless(g)
    BY <1>1, <2>2
  <2> HIDE DEF g
  <2> QED BY <1>3, <2>1, <2>2, <2>3 DEF Pushes
<1>4. CASE empty_statement \/ \E n \in Var : UseVariable(n) \/ LocalVariable(n)
                                               \/ GlobalVariable(n) \/ Assignment(n)
  <2>1. UNCHANGED block_stack /\ NULL_Statement
    BY <1>4 DEF empty_statement, UseVariable, LocalVariable, GlobalVariable, Assignment,
                ExpressionDone, tables
  <2>2. UNCHANGED quads \/ \E n \in Var : Assignment(n)
    BY <1>4 DEF empty_statement, UseVariable, LocalVariable, GlobalVariable
  <2>3. Quiet
    BY <2>2, StraightEmits, NoReasonQuiet
  <2> QED BY <1>1, <1>2, <1>3, <2>1, <2>3
<1>5. CASE block_open
  <2>1. UNCHANGED block_stack /\ UNCHANGED quads /\ Push(Frame("block", nil, nil, nil))
    BY <1>1, <1>5 DEF block_open
  <2>2. Quiet
    BY <2>1, StraightEmits, NoReasonQuiet
  <2> QED BY <1>1, <1>3, <2>1, <2>2
<1>6. CASE \E n, named : function_prefix(n, named)
  <2> DEFINE q == <<Len(entries) + 1>>
  <2>1. UNCHANGED block_stack /\ Push(Frame("func", q, nil, nil))
    BY <1>1, <1>6 DEF function_prefix
  <2>2. q \in Seq(Nat)
    <3>1. entries \in Seq(EntryType)
      BY DEF Nested, Ordered
    <3>2. Len(entries) + 1 \in Nat
      BY <3>1
    <3> QED BY <3>2
  <2>3. Quiet
    BY <1>6, StraightEmits, NoReasonQuiet
  <2> HIDE DEF q
  <2> QED BY <1>3, <2>1, <2>2, <2>3
<1>7. CASE \E code \in {0, 1} : if_prefix(code)
  <2>1. PICK code \in {0, 1} : if_prefix(code)
    BY <1>7
  <2> DEFINE q == <<FalseJump(code)>>
  <2>2. UNCHANGED block_stack /\ Push(Frame("if_then", q, nil, nil))
    BY <1>1, <2>1 DEF if_prefix
  <2>3. q \in Seq(Nat)
    <3>1. FalseJump(code) \in Nat
      BY NestedTypes DEF FalseJump
    <3> QED BY <3>1
  <2>4. Quiet
    BY <1>7, StraightEmits, NoReasonQuiet
  <2> HIDE DEF q
  <2> QED BY <1>3, <2>2, <2>3, <2>4
<1>8. CASE return
  <2> DEFINE ret == Quad("ret", 0)
             jump == Owed("return", CurrentFunction)
             S == {"", "return"}
  <2>1. Top.kind # "func" /\ UNCHANGED block_stack
    BY <1>8, StartsOutside DEF return, Start
  <2>2. CurrentFunction \in Nat
    BY <2>1, CurrentIs
  <2>3. ret \in QuadType /\ jump \in QuadType /\ ret.why \in S /\ jump.why \in S
    BY <2>2, QuadIs, ReasonsAre
  <2>4. quads \in Seq(QuadType) /\ Emits(quads, quads, S)
    BY NestedTypes, EmitsSelf
  <2>5. \/ Rests
        \/ NULL_Statement /\ quads' = Append(quads, ret)
        \/ NULL_Statement /\ quads' = quads \o <<ret, jump>>
    BY <1>8, <2>1 DEF return, Rests
  <2> HIDE DEF ret, jump, S
  <2>6. Emits(quads, Append(quads, ret), S) /\ Emits(quads, quads \o <<ret, jump>>, S)
    BY <2>3, <2>4, EmitsOne, EmitsTwo
  <2>7. Rests \/ (NULL_Statement /\ Returns)
    BY <1>8, <2>5, <2>6 DEF Returns, S
  <2> QED BY <1>1, <1>2, <1>3, <2>1, <2>7
<1> QED BY <1>4, <1>5, <1>6, <1>7, <1>8

\* The heads of loops, the "{" of a body, and jumps out of loops.
LEMMA EnterSteps ==
  ASSUME Nested,
         \/ \E code \in {0, 1} : while_start(code)
         \/ \E code, step \in {0, 1} : for_prefix(code, step)
  PROVE  EntersLoop
<1> DEFINE nil == <<>>
<1>1. nil \in Seq(Nat) /\ nil = <<>>
  BY ListsAre
<1>2. next_quad = Len(quads) /\ next_quad \in Nat
  BY NestedTypes DEF next_quad
<1> HIDE DEF nil
<1>3. ASSUME block_stack' = Append(block_stack, "LOOP"), NEW kind \in LoopBodies,
             NEW q \in Seq(Nat), q[1] = next_quad, Push(Frame(kind, q, nil, nil))
      PROVE  EntersLoop
  <2> DEFINE g == Frame(kind, q, nil, nil)
  <2>1. kind \in Kinds
    BY DEF Kinds, LoopBodies
  <2>2. /\ g \in FrameType /\ Replaced(ctx, ctx', 0, g) /\ g.kind = kind /\ g.q = q
        /\ nil = <<>> /\ nil = <<>> => Listless(g)
    <3>1. Push(Frame(kind, q, nil, nil)) /\ nil \in Seq(Nat) /\ q \in Seq(Nat)
      BY <1>1, <1>3
    <3> QED BY <2>1, <3>1, PushIs
  <2>3. Listless(g)
    BY <1>1, <2>2
  <2>4. Quiet
    BY StraightEmits, NoReasonQuiet
  <2>5. g.q[1] = Len(quads)
    BY <1>2, <1>3, <2>2
  <2>6. g.kind \in LoopBodies
    BY <2>2
  <2> HIDE DEF g
  <2> QED BY <1>3, <2>2, <2>3, <2>4, <2>5, <2>6 DEF EntersLoop
<1>4. CASE \E code \in {0, 1} : while_start(code)
  <2>1. PICK code \in {0, 1} : while_start(code)
    BY <1>4
  <2> DEFINE q == <<next_quad, FalseJump(code)>>
  <2>2. /\ block_stack' = Append(block_stack, "LOOP")
        /\ Push(Frame("while_body", q, nil, nil))
    BY <1>1, <2>1 DEF while_start
  <2>3. q \in Seq(Nat) /\ q[1] = next_quad
    <3>1. FalseJump(code) \in Nat
      BY <1>2 DEF FalseJump
    <3> HIDE DEF next_quad, FalseJump
    <3> QED BY <1>2, <3>1
  <2>4. "while_body" \in LoopBodies
    BY DEF LoopBodies
  <2> HIDE DEF q
  <2> QED BY <1>3, <2>2, <2>3, <2>4
<1>5. CASE \E code, step \in {0, 1} : for_prefix(code, step)
  <2>1. PICK code \in {0, 1}, step \in {0, 1} : for_prefix(code, step)
    BY <1>5
  <2> DEFINE enter == next_quad + code
             q == <<next_quad, enter, enter + 1, enter + 2 + step>>
  <2>2. /\ block_stack' = Append(block_stack, "LOOP")
        /\ Push(Frame("for_body", q, nil, nil))
    BY <1>1, <2>1 DEF for_prefix
  <2>3. q \in Seq(Nat) /\ q[1] = next_quad
    <3>1. enter \in Nat /\ enter + 1 \in Nat /\ enter + 2 + step \in Nat
      BY <1>2
    <3> HIDE DEF next_quad, enter
    <3> QED BY <1>2, <3>1
  <2>4. "for_body" \in LoopBodies
    BY DEF LoopBodies
  <2> HIDE DEF q
  <2> QED BY <1>3, <2>2, <2>3, <2>4
<1> QED BY <1>4, <1>5

\* The "{" of a body puts its mark on the stack.
LEMMA BodyStep ==
  ASSUME Nested, function_arguments
  PROVE  EntersBody
<1> DEFINE g == [Top EXCEPT !.kind = "body"]
<1>1. /\ Len(ctx) \in Nat \ {0} /\ Top = ctx[Len(ctx)] /\ Top \in FrameType
      /\ ctx \in Seq(FrameType) /\ Len(ctx) \in DOMAIN ctx
  BY NestedTypes DEF Shaped, Top, Last
<1>2. /\ block_stack' = Append(block_stack, "FUNC_BLOCK") /\ UNCHANGED quads
      /\ Top.kind = "func" /\ ctx' = [ctx EXCEPT ![Len(ctx)].kind = "body"]
  BY DEF function_arguments
<1>3. g \in FrameType /\ g.kind = "body" /\ g.b = Top.b /\ g.c = Top.c
  BY <1>1 DEF FrameType, Kinds
<1>4. ctx' = [ctx EXCEPT ![Len(ctx)] = g]
  BY <1>1, <1>2
<1> HIDE DEF g
<1>5. Replaced(ctx, ctx', 1, g)
  BY <1>1, <1>3, <1>4 DEF Replaced
<1> QED BY <1>2, <1>3, <1>5 DEF EntersBody

\* A break or continue puts its jump into the list of its statement, or is an
\* error and an empty statement.
LEMMA JumpSteps ==
  ASSUME Nested, NEW kind \in {"break", "continue"}, break_or_continue(kind)
  PROVE  JumpsOut \/ Pushes
<1> DEFINE n == Len(quads)
           nil == <<>>
           one == <<n>>
<1>1. n \in Nat /\ next_quad = n /\ UNCHANGED block_stack
  BY NestedTypes DEF next_quad, break_or_continue, tables
<1>2. \/ NULL_Statement /\ UNCHANGED quads
      \/ /\ quads' = Append(quads, Owed(kind, CurrentLoop))
         /\ block_stack # <<>> /\ Last(block_stack) = "LOOP"
         /\ IF kind = "break" THEN Statement(one, nil) ELSE Statement(nil, one)
  BY <1>1 DEF break_or_continue
<1>3. /\ nil \in Seq(Nat) /\ nil = <<>> /\ ToSet(nil) = {}
      /\ one \in Seq(Nat) /\ ToSet(one) = {n}
  BY <1>1, ListsAre
<1> HIDE DEF nil, one
<1>4. CASE NULL_Statement /\ UNCHANGED quads
  <2> DEFINE g == Frame("stmt", nil, nil, nil)
  <2>1. Push(g)
    BY <1>3, <1>4 DEF NULL_Statement, Statement
  <2>2. "stmt" \in Kinds /\ "stmt" \notin Marked
    BY DEF Kinds, Marked, LoopBodies
  <2>3. /\ g \in FrameType /\ Replaced(ctx, ctx', 0, g) /\ g.kind = "stmt"
        /\ nil = <<>> /\ nil = <<>> => Listless(g)
    <3>1. "stmt" \in Kinds /\ nil \in Seq(Nat)
      BY <1>3, <2>2
    <3> QED BY <2>1, <3>1, PushIs
  <2>4. Listless(g)
    BY <1>3, <2>3
  <2>5. Quiet
    BY <1>4, StraightEmits, NoReasonQuiet
  <2> HIDE DEF g
  <2> QED BY <1>1, <2>2, <2>3, <2>4, <2>5 DEF Pushes
<1>5. CASE /\ quads' = Append(quads, Owed(kind, CurrentLoop))
           /\ block_stack # <<>> /\ Last(block_stack) = "LOOP"
           /\ IF kind = "break" THEN Statement(one, nil) ELSE Statement(nil, one)
  <2> DEFINE b == IF kind = "break" THEN one ELSE nil
             c == IF kind = "break" THEN nil ELSE one
             g == Frame("stmt", nil, b, c)
  <2>1. b \in Seq(Nat) /\ c \in Seq(Nat)
    BY <1>3
  <2>2. /\ ToSet(b) = IF kind = "break" THEN {n} ELSE {}
        /\ ToSet(c) = IF kind = "break" THEN {} ELSE {n}
    BY <1>3
  <2>3. Push(g)
    <3>1. Statement(b, c)
      BY <1>5
    <3> HIDE DEF b, c
    <3> QED BY <1>3, <3>1 DEF Statement
  <2>4. "stmt" \in Kinds
    BY DEF Kinds
  <2> HIDE DEF b, c
  <2>5. /\ g \in FrameType /\ Replaced(ctx, ctx', 0, g) /\ g.kind = "stmt"
        /\ g.b = b /\ g.c = c
    <3>1. nil \in Seq(Nat)
      BY <1>3
    <3>2. Push(Frame("stmt", nil, b, c))
      BY <1>3, <2>3
    <3>3. /\ Frame("stmt", nil, b, c) \in FrameType
          /\ Replaced(ctx, ctx', 0, Frame("stmt", nil, b, c))
          /\ Frame("stmt", nil, b, c).kind = "stmt"
          /\ Frame("stmt", nil, b, c).b = b /\ Frame("stmt", nil, b, c).c = c
      BY <2>1, <2>4, <3>1, <3>2, PushIs
    <3> QED BY <1>3, <3>3
  <2>6. /\ ToSet(g.b) = IF kind = "break" THEN {Len(quads)} ELSE {}
        /\ ToSet(g.c) = IF kind = "break" THEN {} ELSE {Len(quads)}
    BY <2>2, <2>5
  <2> HIDE DEF g
  <2> QED BY <1>1, <1>5, <2>5, <2>6 DEF JumpsOut
<1> QED BY <1>2, <1>4, <1>5

\* A statement is joined to the frame of kind k below it.
LEMMA JoinTwo ==
  ASSUME Nested, NEW k, AfterStatement(k), k \notin LoopBodies, UNCHANGED block_stack,
         Quiet, NEW g \in FrameType, ctx' = Append(SubSeq(ctx, 1, Len(ctx) - 2), g),
         g.kind \notin LoopBodies \union {"if_then", "func"},
         (g.kind = "body") <=> (k = "body"),
         ToSet(g.b) \subseteq ToSet(Below.b) \union ToSet(Top.b),
         ToSet(g.c) \subseteq ToSet(Below.c) \union ToSet(Top.c),
         ToSet(Top.b) \subseteq ToSet(g.b), ToSet(Top.c) \subseteq ToSet(g.c),
         k # "if_then" => /\ ToSet(Below.b) \subseteq ToSet(g.b)
                          /\ ToSet(Below.c) \subseteq ToSet(g.c)
  PROVE  Joins
<1> DEFINE m == Len(ctx)
<1>1. /\ m \in Nat /\ 1 < m /\ Top = ctx[m] /\ Below = ctx[m - 1]
      /\ Top.kind = "stmt" /\ Below.kind = k /\ ctx \in Seq(FrameType) /\ 2 \in 0..m
  <2>1. Shaped(ctx) /\ ctx \in Seq(FrameType)
    BY NestedTypes DEF Shaped
  <2>2. /\ Len(ctx) \in Nat /\ 1 < Len(ctx) /\ Top = ctx[Len(ctx)]
        /\ Top.kind = "stmt" /\ Below.kind = k /\ Below = ctx[Len(ctx) - 1]
    BY <2>1, AfterIs
  <2> QED BY <2>1, <2>2
<1>2. Replaced(ctx, ctx', 2, g)
  BY <1>1, PopPush
<1>3. DOMAIN ctx = 1..m
  BY <1>1
<1>4. m - 1 \in DOMAIN ctx /\ m \in DOMAIN ctx /\ m - 1 > m - 2 /\ m > m - 2 /\ m - 2 + 1 = m - 1
  BY <1>1, <1>3
<1>5. \A i \in DOMAIN ctx : i > m - 2 => i = m \/ i = m - 1
  BY <1>1, <1>3
<1> HIDE DEF m
<1>6. /\ \A x \in ToSet(g.b) : \E i \in DOMAIN ctx : i > m - 2 /\ x \in ToSet(ctx[i].b)
      /\ \A x \in ToSet(g.c) : \E i \in DOMAIN ctx : i > m - 2 /\ x \in ToSet(ctx[i].c)
  BY <1>1, <1>4
<1>7. \A i \in DOMAIN ctx : (i > m - 2 /\ ctx[i].kind # "if_then") =>
        ToSet(ctx[i].b) \subseteq ToSet(g.b) /\ ToSet(ctx[i].c) \subseteq ToSet(g.c)
  BY <1>1, <1>5
<1>8. Joined(2, g)
  BY <1>1, <1>2, <1>6, <1>7 DEF Joined, m
<1>9. ctx[m - 2 + 1].kind = k
  BY <1>1, <1>4
<1> QED BY <1>8, <1>9 DEF Joins, m

\* The lists of two frames that are merged.
LEMMA MergedAre ==
  ASSUME NEW g \in FrameType, NEW h \in FrameType
  PROVE  LET b == merge_lists(g.b, h.b)
             c == merge_lists(g.c, h.c)
         IN  /\ b \in Seq(Nat) /\ ToSet(b) = ToSet(g.b) \union ToSet(h.b)
             /\ c \in Seq(Nat) /\ ToSet(c) = ToSet(g.c) \union ToSet(h.c)
<1>1. /\ g.b \in Seq(Nat) /\ g.c \in Seq(Nat) /\ h.b \in Seq(Nat) /\ h.c \in Seq(Nat)
  BY DEF FrameType
<1> QED BY <1>1, MergeOnce DEF merge_lists

\* The value of a statement is made of its lists.
LEMMA ValueIs ==
  ASSUME NEW b \in Seq(Nat), NEW c \in Seq(Nat)
  PROVE  LET g == Frame("stmt", <<>>, b, c)
         IN  /\ g \in FrameType /\ g.kind = "stmt" /\ g.b = b /\ g.c = c
             /\ g.kind \notin LoopBodies \union {"if_then", "func"}
<1> DEFINE nil == <<>>
           k == "stmt"
<1>1. k \in Kinds /\ nil \in Seq(Nat) /\ k \notin LoopBodies \union {"if_then", "func"}
  BY ListsAre DEF Kinds, LoopBodies
<1> HIDE DEF nil, k
<1>2. LET g == Frame(k, nil, b, c)
      IN  /\ g \in FrameType /\ g.kind = k /\ g.b = b /\ g.c = c
          /\ g.kind \notin LoopBodies \union {"if_then", "func"}
  BY <1>1, FrameIs
<1> QED BY <1>2 DEF nil, k

\* Statements join their list, their block or their branch.
LEMMA JoinSteps ==
  ASSUME Nested, Ledgered,
         all_statements \/ block_close \/ if_without_else \/ else_prefix \/ if_else
  PROVE  Joins
<1>2. /\ Top \in FrameType /\ Top.b \in Seq(Nat) /\ Top.c \in Seq(Nat)
  BY LedgerTypes DEF FrameType
<1>3. quads \in Seq(QuadType) /\ Emits(quads, quads, {""}) /\ next_quad \in Nat
  BY NestedTypes, EmitsSelf
<1>4. CASE all_statements
  <2>1. PICK k \in Lists : AfterStatement(k)
    BY <1>4 DEF all_statements
  <2> DEFINE b == merge_lists(Below.b, Top.b)
             c == merge_lists(Below.c, Top.c)
             g == [Below EXCEPT !.b = b, !.c = c]
  <2>2. /\ UNCHANGED block_stack /\ UNCHANGED quads
        /\ ctx' = Append(SubSeq(ctx, 1, Len(ctx) - 2), g)
    BY <1>4 DEF all_statements, tables
  <2>3. Below \in FrameType /\ Below.kind = k
    BY <2>1, PairOwes
  <2>4. /\ b \in Seq(Nat) /\ ToSet(b) = ToSet(Below.b) \union ToSet(Top.b)
        /\ c \in Seq(Nat) /\ ToSet(c) = ToSet(Below.c) \union ToSet(Top.c)
    BY <1>2, <2>3, MergedAre
  <2> HIDE DEF b, c
  <2>5. g \in FrameType /\ g.kind = k /\ g.b = b /\ g.c = c
    BY <2>3, <2>4 DEF FrameType
  <2>6. k \notin LoopBodies \union {"if_then", "func"}
    BY DEF Lists, LoopBodies
  <2>7. Quiet
    BY <2>2, StraightEmits, NoReasonQuiet
  <2> HIDE DEF g
  <2> QED BY <2>1, <2>2, <2>4, <2>5, <2>6, <2>7, JoinTwo
<1>5. CASE block_close
  <2> DEFINE g == Frame("stmt", <<>>, Top.b, Top.c)
             m == Len(ctx)
  <2>1. /\ UNCHANGED block_stack /\ UNCHANGED quads /\ Top.kind = "block"
        /\ Reduce(1, Top.b, Top.c)
    BY <1>5 DEF block_close
  <2>2. g \in FrameType /\ g.kind = "stmt" /\ Replaced(ctx, ctx', 1, g)
    BY <1>2, <2>1, NestedTypes, TopReduced
  <2>4. g.b = Top.b /\ g.c = Top.c
    BY <1>2, ValueIs
  <2>5. m \in Nat \ {0} /\ DOMAIN ctx = 1..m /\ Top = ctx[m]
    BY LedgerTypes
  <2>6. m \in DOMAIN ctx /\ m > m - 1 /\ \A i \in DOMAIN ctx : i > m - 1 => i = m
    BY <2>5
  <2>7. m - 1 + 1 = m
    BY <2>5
  <2>8. Quiet
    BY <2>1, StraightEmits, NoReasonQuiet
  <2> HIDE DEF g, m
  <2>9. /\ \A x \in ToSet(g.b) : \E i \in DOMAIN ctx : i > m - 1 /\ x \in ToSet(ctx[i].b)
        /\ \A x \in ToSet(g.c) : \E i \in DOMAIN ctx : i > m - 1 /\ x \in ToSet(ctx[i].c)
        /\ \A i \in DOMAIN ctx : (i > m - 1 /\ ctx[i].kind # "if_then") =>
             ToSet(ctx[i].b) \subseteq ToSet(g.b) /\ ToSet(ctx[i].c) \subseteq ToSet(g.c)
    BY <2>4, <2>5, <2>6
  <2>10. Joined(1, g)
    BY <2>2, <2>9 DEF Joined, m
  <2>11. ctx[m - 1 + 1].kind = "block"
    BY <2>1, <2>5, <2>7
  <2> QED BY <2>1, <2>2, <2>8, <2>10, <2>11 DEF Joins, LoopBodies, m
<1>6. CASE if_without_else
  <2> DEFINE g == Frame("stmt", <<>>, Top.b, Top.c)
  <2>1. /\ UNCHANGED block_stack /\ AfterStatement("if_then")
        /\ quads' = Patch(quads, Below.q, next_quad)
        /\ ctx' = Append(SubSeq(ctx, 1, Len(ctx) - 2), g)
    BY <1>6 DEF if_without_else, Reduce
  <2>3. /\ g \in FrameType /\ g.kind = "stmt" /\ g.b = Top.b /\ g.c = Top.c
        /\ g.kind \notin LoopBodies \union {"if_then", "func"}
    BY <1>2, ValueIs
  <2>4. Quiet
    BY <1>3, <2>1, EmitsPatch, NoReasonQuiet DEF NoReason
  <2> HIDE DEF g
  <2>5. "if_then" \notin LoopBodies
    BY DEF LoopBodies
  <2> QED BY <2>1, <2>3, <2>4, <2>5, JoinTwo
<1>7. CASE else_prefix
  <2> DEFINE q == Append(Below.q, next_quad)
             g == Frame("if_else", q, Top.b, Top.c)
  <2>1. /\ UNCHANGED block_stack /\ AfterStatement("if_then")
        /\ quads' = Append(quads, Hole("jump"))
        /\ ctx' = Append(SubSeq(ctx, 1, Len(ctx) - 2), g)
    BY <1>7 DEF else_prefix
  <2>2. "if_else" \in Kinds
    BY DEF Kinds
  <2>3. q \in Seq(Nat)
    <3>1. Below \in FrameType
      BY <2>1, PairOwes
    <3>2. Below.q \in Seq(Nat)
      BY <3>1 DEF FrameType
    <3>3. next_quad \in Nat
      BY <1>3
    <3> HIDE DEF next_quad
    <3> QED BY <3>2, <3>3
  <2> HIDE DEF q
  <2>4. g \in FrameType /\ g.kind = "if_else" /\ g.b = Top.b /\ g.c = Top.c
    BY <1>2, <2>2, <2>3, FrameIs
  <2>5. Quiet
    <3>1. Hole("jump") \in QuadType /\ Hole("jump").why \in {""}
      BY QuadIs, ReasonsAre
    <3> QED BY <1>3, <2>1, <3>1, EmitsOne, NoReasonQuiet DEF NoReason
  <2> HIDE DEF g
  <2>6. g.kind \notin LoopBodies \union {"if_then", "func"} /\ "if_then" \notin LoopBodies
    BY <2>4 DEF LoopBodies
  <2> QED BY <2>1, <2>4, <2>5, <2>6, JoinTwo
<1>8. CASE if_else
  <2> DEFINE b == merge_lists(Below.b, Top.b)
             c == merge_lists(Below.c, Top.c)
             g == Frame("stmt", <<>>, b, c)
             l == <<Below.q[1]>>
             l2 == <<Below.q[2]>>
  <2>1. /\ UNCHANGED block_stack /\ AfterStatement("if_else")
        /\ quads' = Patch(Patch(quads, l, Below.q[2] + 1), l2, next_quad)
        /\ ctx' = Append(SubSeq(ctx, 1, Len(ctx) - 2), g)
    BY <1>8 DEF if_else, Reduce
  <2>3. Below \in FrameType /\ Below.kind = "if_else" /\ Len(Below.q) = Arity("if_else")
    BY <2>1, PairOwes
  <2>4. /\ b \in Seq(Nat) /\ ToSet(b) = ToSet(Below.b) \union ToSet(Top.b)
        /\ c \in Seq(Nat) /\ ToSet(c) = ToSet(Below.c) \union ToSet(Top.c)
    BY <1>2, <2>3, MergedAre
  <2> HIDE DEF b, c
  <2>5. /\ g \in FrameType /\ g.kind = "stmt" /\ g.b = b /\ g.c = c
        /\ g.kind \notin LoopBodies \union {"if_then", "func"}
    BY <2>4, ValueIs
  <2>6. Quiet
    <3>1. Below.q \in Seq(Nat)
      BY <2>3 DEF FrameType
    <3>2. Len(Below.q) = 2
      BY <2>3, ArityIs
    <3>3. Below.q[2] + 1 \in Nat
      BY <3>1, <3>2
    <3> HIDE DEF l, l2
    <3>4. Emits(quads, Patch(quads, l, Below.q[2] + 1), {""})
      BY <1>3, <3>3, EmitsPatch
    <3> QED BY <1>3, <2>1, <3>4, EmitsPatch, NoReasonQuiet DEF NoReason
  <2> HIDE DEF g
  <2> DEFINE k == "if_else"
  <2>7. k \notin LoopBodies /\ k # "body" /\ AfterStatement(k) /\ g.kind # "body"
    BY <2>1, <2>5 DEF LoopBodies
  <2> HIDE DEF k
  <2>8. /\ ToSet(g.b) = ToSet(Below.b) \union ToSet(Top.b)
        /\ ToSet(g.c) = ToSet(Below.c) \union ToSet(Top.c)
    BY <2>4, <2>5
  <2> QED BY <2>1, <2>5, <2>6, <2>7, <2>8, JoinTwo
<1> QED BY <1>4, <1>5, <1>6, <1>7, <1>8

\* The labels patched, by number.
LEMMA PatchReaches ==
  ASSUME NEW qs \in Seq(QuadType), NEW l, NEW label \in Nat
  PROVE  LET p == Patch(qs, l, label)
         IN  /\ p \in Seq(QuadType) /\ Len(p) = Len(qs) /\ DOMAIN p = DOMAIN qs
             /\ \A x \in Nat : x + 1 \in DOMAIN qs =>
                  /\ x \in ToSet(l) => p[x + 1].label = label
                  /\ x \notin ToSet(l) => p[x + 1].label = qs[x + 1].label
<1> DEFINE p == Patch(qs, l, label)
<1>1. /\ p \in Seq(QuadType) /\ Len(p) = Len(qs)
      /\ \A i \in DOMAIN qs : /\ i - 1 \in ToSet(l) => p[i].label = label
                              /\ i - 1 \notin ToSet(l) => p[i].label = qs[i].label
  BY PatchLabels
<1>2. \A x \in Nat : (x + 1) - 1 = x
  OBVIOUS
<1> HIDE DEF p
<1>3. DOMAIN p = DOMAIN qs
  BY <1>1
<1> QED BY <1>1, <1>2, <1>3 DEF p

\* What is known of the labels when a loop ends.
LEMMA LoopEndIs ==
  ASSUME Nested, Ledgered, NEW k \in LoopBodies, AfterStatement(k)
  PROVE  /\ Top.b \in Seq(Nat) /\ Top.c \in Seq(Nat) /\ Below.kind = k /\ Top.kind = "stmt"
         /\ Below.q \in Seq(Nat) /\ Len(Below.q) = Arity(k)
         /\ ToSet(Top.b) \intersect ToSet(Top.c) = {}
         /\ \A x \in Debts(Below) : x \in Nat /\ x \notin ToSet(Top.b) /\ x \notin ToSet(Top.c)
         /\ \A x \in ToSet(Top.b) \union ToSet(Top.c) :
              x \in Nat /\ x < Len(quads) /\ x + 1 \in DOMAIN quads
<1>1. /\ OwesOnce(Top) /\ Top \in FrameType /\ Below \in FrameType
      /\ Top.kind = "stmt" /\ Below.kind = k /\ Len(Below.q) = Arity(k)
      /\ Owes(Top) = ToSet(Top.b) \union ToSet(Top.c)
      /\ Owes(Top) \intersect Owes(Below) = {}
      /\ Owes(Top) \subseteq Unfilled(quads) /\ Owes(Below) \subseteq Unfilled(quads)
  BY PairOwes
<1>2. /\ Top.b \in Seq(Nat) /\ Top.c \in Seq(Nat) /\ Below.q \in Seq(Nat)
  BY <1>1 DEF FrameType
<1>3. ToSet(Top.b) \intersect ToSet(Top.c) = {}
  BY <1>1 DEF OwesOnce
<1>4. Debts(Below) \subseteq Owes(Below)
  BY DEF Owes
<1>5. \A x \in Unfilled(quads) : x \in Nat /\ x < Len(quads) /\ x + 1 \in DOMAIN quads
  BY LedgerTypes, UnfilledIs
<1> QED BY <1>1, <1>2, <1>3, <1>4, <1>5

\* The frames of a loop that ends are its value.
LEMMA LoopReplaced ==
  ASSUME Nested, NEW k, AfterStatement(k), Reduce(2, <<>>, <<>>)
  PROVE  \E g \in FrameType : Replaced(ctx, ctx', 2, g) /\ g.kind = "stmt" /\ Listless(g)
<1> DEFINE nil == <<>>
           g == Frame("stmt", <<>>, nil, nil)
<1>1. nil \in Seq(Nat) /\ ToSet(nil) = {}
  BY ListsAre
<1>2. ctx' = Append(SubSeq(ctx, 1, Len(ctx) - 2), g)
  BY DEF Reduce
<1> HIDE DEF nil
<1>3. g \in FrameType /\ g.kind = "stmt" /\ g.b = nil /\ g.c = nil
  BY <1>1, ValueIs
<1> HIDE DEF g
<1>4. ctx \in Seq(FrameType) /\ Len(ctx) \in Nat /\ 1 < Len(ctx)
  BY NestedTypes, AfterIs DEF Shaped
<1>5. 2 \in 0..Len(ctx)
  BY <1>4
<1>6. Replaced(ctx, ctx', 2, g)
  BY <1>2, <1>3, <1>4, <1>5, PopPush
<1> QED BY <1>1, <1>3, <1>6 DEF Listless

\* The end of a "while": breaks go behind it, and continues to its test.
LEMMA WhileLeaves ==
  ASSUME Nested, Ledgered, while_statement
  PROVE  LeavesLoop
<1> DEFINE n == Len(quads)
           b == Top.b
           c == Top.c
           start == Below.q[1]
           y == Below.q[2]
           jump == Quad("jump", start)
           looped == Append(quads, jump)
           l == <<y>> \o b
           p == Patch(looped, l, n + 1)
<1>1. quads \in Seq(QuadType)
  BY NestedTypes
<1>2. n \in Nat /\ n + 1 \in Nat /\ DOMAIN quads = 1..n
  BY <1>1
<1>3. next_quad = n
  BY DEF next_quad
<1>4. /\ AfterStatement("while_body") /\ quads' = Patch(p, c, start)
      /\ Reduce(2, <<>>, <<>>) /\ block_stack' = stack_pop(block_stack)
  BY <1>3 DEF while_statement
<1> DEFINE k == "while_body"
<1>5. k \in LoopBodies /\ AfterStatement(k) /\ Arity(k) = 2
  BY <1>4, ArityIs DEF LoopBodies
<1> HIDE DEF k
<1>6. /\ b \in Seq(Nat) /\ c \in Seq(Nat) /\ Below.kind = k /\ Top.kind = "stmt"
      /\ Below.q \in Seq(Nat) /\ Len(Below.q) = 2
      /\ ToSet(b) \intersect ToSet(c) = {}
      /\ \A x \in ToSet(b) \union ToSet(c) : x \in Nat /\ x < n /\ x + 1 \in DOMAIN quads
  BY <1>5, LoopEndIs
<1>7. start \in Nat /\ y \in Nat
  BY <1>6
<1>8. jump \in QuadType /\ jump.why \in {""}
  BY <1>7, QuadIs, ReasonsAre
<1> HIDE DEF jump, start, y, b, c
<1>9. ToSet(l) = {y} \union ToSet(b)
  <2> DEFINE one == <<y>>
  <2>1. one \in Seq(Nat) /\ ToSet(one) = {y}
    BY <1>7, ListsAre
  <2> HIDE DEF one
  <2>2. ToSet(one \o b) = ToSet(one) \union ToSet(b)
    BY <1>6, <2>1, MergeOnce
  <2> QED BY <2>1, <2>2 DEF one
<1> HIDE DEF l
<1>10. Len(quads) = n
  OBVIOUS
<1> HIDE DEF n
<1>11. /\ looped \in Seq(QuadType) /\ Len(looped) = n + 1
      /\ \A x \in Nat : x + 1 \in DOMAIN quads => x + 1 \in DOMAIN looped
  <2>1. looped \in Seq(QuadType) /\ Len(looped) = Len(quads) + 1
    <3>1. jump \in QuadType
      BY <1>8
    <3> QED BY <1>1, <3>1
  <2>2. Len(looped) = n + 1
    BY <1>10, <2>1
  <2> HIDE DEF looped
  <2>3. DOMAIN looped = 1..(n + 1)
    BY <2>1, <2>2
  <2> QED BY <1>2, <2>1, <2>2, <2>3
<1>12. Emits(quads, looped, {""})
  <2>1. Emits(quads, quads, {""})
    BY <1>1, EmitsSelf
  <2> QED BY <1>1, <1>8, EmitsOne, <2>1
<1> HIDE DEF looped
<1>13. /\ p \in Seq(QuadType) /\ Len(p) = Len(looped) /\ DOMAIN p = DOMAIN looped
       /\ \A x \in Nat : x + 1 \in DOMAIN looped => (x \in ToSet(l) => p[x + 1].label = n + 1)
  BY <1>11, <1>2, PatchReaches
<1>14. Emits(quads, p, {""})
  BY <1>1, <1>12, <1>2, EmitsPatch
<1> HIDE DEF p
<1>15. /\ quads' \in Seq(QuadType) /\ Len(quads') = Len(p)
       /\ \A x \in Nat : x + 1 \in DOMAIN p =>
            /\ x \in ToSet(c) => quads'[x + 1].label = start
            /\ x \notin ToSet(c) => quads'[x + 1].label = p[x + 1].label
  BY <1>4, <1>7, <1>13, PatchReaches
<1>16. Quiet
  <2>1. Emits(quads, quads', {""})
    BY <1>1, <1>4, <1>7, <1>14, EmitsPatch
  <2> QED BY <2>1, NoReasonQuiet DEF NoReason
<1>17. Len(quads') = n + 1
  BY <1>11, <1>13, <1>15
<1>18. Reached(b, Len(quads'))
  <2>1. ASSUME NEW x \in ToSet(b) PROVE quads'[x + 1].label = n + 1
    <3>1. x \in Nat /\ x + 1 \in DOMAIN looped /\ x \notin ToSet(c) /\ x \in ToSet(l)
      BY <1>6, <1>9, <1>11, <2>1
    <3> QED BY <1>13, <1>15, <3>1
  <2> QED BY <1>17, <2>1 DEF Reached
<1>19. Reached(c, start)
  <2>1. ASSUME NEW x \in ToSet(c) PROVE quads'[x + 1].label = start
    <3>1. x \in Nat /\ x + 1 \in DOMAIN looped
      BY <1>6, <1>11, <2>1
    <3> QED BY <1>13, <1>15, <2>1, <3>1
  <2> QED BY <2>1 DEF Reached
<1>20. \E g \in FrameType : Replaced(ctx, ctx', 2, g) /\ g.kind = "stmt" /\ Listless(g)
  BY <1>4, LoopReplaced
<1> QED BY <1>4, <1>5, <1>6, <1>16, <1>18, <1>19, <1>20 DEF LeavesLoop, b, c, start, k

\* A label in front of a list.
LEMMA ConsIs ==
  ASSUME NEW x \in Nat, NEW l \in Seq(Nat)
  PROVE  ToSet(<<x>> \o l) = {x} \union ToSet(l)
<1> DEFINE one == <<x>>
<1>1. one \in Seq(Nat) /\ ToSet(one) = {x}
  BY ListsAre
<1> HIDE DEF one
<1>2. ToSet(one \o l) = ToSet(one) \union ToSet(l)
  BY <1>1, MergeOnce
<1> QED BY <1>1, <1>2 DEF one

\* The quads of the four jumps of a "for", and those behind two of them.
LEMMA FourAre ==
  ASSUME NEW q \in Seq(Nat), Len(q) = 4
  PROVE  /\ q[1] \in Nat /\ q[2] \in Nat /\ q[3] \in Nat /\ q[4] \in Nat
         /\ q[4] + 1 \in Nat /\ q[3] + 1 \in Nat
<1>1. \A i \in 1..Len(q) : q[i] \in Nat
  BY ElementOfSeq
<1>2. q[1] \in Nat /\ q[2] \in Nat /\ q[3] \in Nat /\ q[4] \in Nat
  BY <1>1
<1>3. \A x \in Nat : x + 1 \in Nat
  OBVIOUS
<1> QED BY <1>2, <1>3

\* The end of a "for": breaks go behind it, and continues to its step.
LEMMA ForLeaves ==
  ASSUME Nested, Ledgered, for_statement
  PROVE  LeavesLoop
<1> DEFINE n == Len(quads)
           b == Top.b
           c == Top.c
           test == Below.q[1]
           enter == Below.q[2]
           out == Below.q[3]
           back == Below.q[4]
           jump == Owed("for", 0)
           closed == Append(quads, jump)
           l1 == <<enter>>
           l2 == <<out>> \o b
           l3 == <<back>>
           l4 == <<n>> \o c
           entered == Patch(closed, l1, back + 1)
           left == Patch(entered, l2, n + 1)
           tested == Patch(left, l3, test)
           S == {"for"}
           k == "for_body"
<1>1. quads \in Seq(QuadType)
  BY NestedTypes
<1>2. n \in Nat /\ n + 1 \in Nat /\ DOMAIN quads = 1..n
  BY <1>1
<1>3. next_quad = n
  BY DEF next_quad
<1>4. /\ AfterStatement(k) /\ quads' = Patch(tested, l4, out + 1)
      /\ Reduce(2, <<>>, <<>>) /\ UNCHANGED block_stack
  BY <1>3 DEF for_statement
<1>5. k \in LoopBodies /\ Arity(k) = 4 /\ k # "while_body"
  BY ArityIs DEF LoopBodies
<1> HIDE DEF k
<1>6. /\ b \in Seq(Nat) /\ c \in Seq(Nat) /\ Below.kind = k /\ Top.kind = "stmt"
      /\ Below.q \in Seq(Nat) /\ Len(Below.q) = 4
      /\ ToSet(b) \intersect ToSet(c) = {}
      /\ \A x \in Debts(Below) : x \notin ToSet(b) /\ x \notin ToSet(c)
      /\ \A x \in ToSet(b) \union ToSet(c) : x \in Nat /\ x < n /\ x + 1 \in DOMAIN quads
  BY <1>4, <1>5, LoopEndIs
<1>7. /\ test \in Nat /\ enter \in Nat /\ out \in Nat /\ back \in Nat
      /\ back + 1 \in Nat /\ out + 1 \in Nat
  <2>1. Below.q \in Seq(Nat) /\ Len(Below.q) = 4
    BY <1>6
  <2> QED BY <2>1, FourAre
<1>8. back \notin ToSet(b)
  <2>1. Debts(Below) = {enter, out, back}
    BY <1>6 DEF Debts, k
  <2> QED BY <1>6, <2>1
<1>9. jump \in QuadType /\ jump.why = "for" /\ jump.why \in S
  BY QuadIs, ReasonsAre
<1>10. Len(quads) = n
  OBVIOUS
<1> HIDE DEF jump, test, enter, out, back, b, c, n, S
<1>11. /\ ToSet(l2) = {out} \union ToSet(b) /\ ToSet(l3) = {back}
       /\ ToSet(l4) = {n} \union ToSet(c)
  BY <1>2, <1>6, <1>7, ConsIs, ListsAre
<1> HIDE DEF l1, l2, l3, l4
<1>12. /\ closed \in Seq(QuadType) /\ Len(closed) = n + 1 /\ closed[n + 1] = jump
       /\ DOMAIN closed = 1..(n + 1)
  <2>1. jump \in QuadType
    BY <1>9
  <2>2. closed \in Seq(QuadType) /\ Len(closed) = Len(quads) + 1 /\ closed[Len(quads) + 1] = jump
    BY <1>1, <2>1
  <2> HIDE DEF closed
  <2>3. Len(closed) = n + 1 /\ closed[n + 1] = jump
    BY <1>10, <2>2
  <2> QED BY <2>2, <2>3
<1>13. Emits(quads, closed, S)
  <2>1. Emits(quads, quads, S)
    BY <1>1, EmitsSelf
  <2> QED BY <1>1, <1>9, <2>1, EmitsOne
<1> HIDE DEF closed
<1>14. Emits(closed, closed, S)
  BY <1>12, EmitsSelf
<1>15. /\ entered \in Seq(QuadType) /\ Len(entered) = Len(closed)
       /\ DOMAIN entered = DOMAIN closed
  BY <1>7, <1>12, PatchReaches
<1>16. Emits(quads, entered, S) /\ Emits(closed, entered, S)
  BY <1>1, <1>7, <1>12, <1>13, <1>14, EmitsPatch
<1> HIDE DEF entered
<1>17. /\ left \in Seq(QuadType) /\ Len(left) = Len(entered) /\ DOMAIN left = DOMAIN entered
       /\ \A x \in Nat : x + 1 \in DOMAIN entered =>
            (x \in ToSet(l2) => left[x + 1].label = n + 1)
  BY <1>2, <1>15, PatchReaches
<1>18. Emits(quads, left, S) /\ Emits(closed, left, S)
  BY <1>1, <1>2, <1>12, <1>16, EmitsPatch
<1> HIDE DEF left
<1>19. /\ tested \in Seq(QuadType) /\ Len(tested) = Len(left) /\ DOMAIN tested = DOMAIN left
       /\ \A x \in Nat : x + 1 \in DOMAIN left =>
            (x \notin ToSet(l3) => tested[x + 1].label = left[x + 1].label)
  BY <1>7, <1>17, PatchReaches
<1>20. Emits(quads, tested, S) /\ Emits(closed, tested, S)
  BY <1>1, <1>7, <1>12, <1>18, EmitsPatch
<1> HIDE DEF tested
<1>21. /\ quads' \in Seq(QuadType) /\ Len(quads') = Len(tested)
       /\ \A x \in Nat : x + 1 \in DOMAIN tested =>
            /\ x \in ToSet(l4) => quads'[x + 1].label = out + 1
            /\ x \notin ToSet(l4) => quads'[x + 1].label = tested[x + 1].label
  BY <1>4, <1>7, <1>19, PatchReaches
<1>22. Emits(quads, quads', S) /\ Emits(closed, quads', S)
  BY <1>1, <1>4, <1>7, <1>12, <1>20, EmitsPatch
<1>23. Quiet
  <2>1. S \subseteq {"", "for"}
    BY DEF S
  <2> QED BY <1>1, <1>22, <2>1, EmitsSelf DEF Quiet
<1>24. Len(quads') = n + 1
  BY <1>12, <1>15, <1>17, <1>19, <1>21
<1>25. \E i \in DOMAIN quads' : quads'[i].why = "for"
  <2>1. n + 1 \in DOMAIN closed /\ n + 1 \in DOMAIN quads'
    BY <1>2, <1>12, <1>21, <1>24
  <2>2. quads'[n + 1].why = closed[n + 1].why
    BY <1>22, <2>1 DEF Emits
  <2> QED BY <1>9, <1>12, <2>1, <2>2
<1>26. \A x \in ToSet(b) \union ToSet(c) :
         /\ x \in Nat /\ x # n /\ x + 1 \in DOMAIN closed /\ x + 1 \in DOMAIN entered
         /\ x + 1 \in DOMAIN left /\ x + 1 \in DOMAIN tested
  BY <1>2, <1>6, <1>12, <1>15, <1>17, <1>19
<1>27. Reached(b, Len(quads'))
  <2>1. ASSUME NEW x \in ToSet(b) PROVE quads'[x + 1].label = n + 1
    <3>1. x \in ToSet(l2) /\ x \notin ToSet(l3) /\ x \notin ToSet(l4)
      BY <1>6, <1>8, <1>11, <1>26, <2>1
    <3> QED BY <1>17, <1>19, <1>21, <1>26, <2>1, <3>1
  <2> QED BY <1>24, <2>1 DEF Reached
<1>28. Reached(c, out + 1)
  <2>1. ASSUME NEW x \in ToSet(c) PROVE quads'[x + 1].label = out + 1
    <3>1. x \in ToSet(l4)
      BY <1>11, <2>1
    <3> QED BY <1>21, <1>26, <2>1, <3>1
  <2> QED BY <2>1 DEF Reached
<1>29. \E g \in FrameType : Replaced(ctx, ctx', 2, g) /\ g.kind = "stmt" /\ Listless(g)
  BY <1>4, LoopReplaced
<1> QED BY <1>4, <1>5, <1>6, <1>23, <1>25, <1>27, <1>28, <1>29 DEF LeavesLoop, b, c, out

\* The "}" of a body: its returns go to its "funcend".
LEMMA BodyLeaves ==
  ASSUME Nested, Ledgered, function_definition
  PROVE  LeavesBody
<1> DEFINE n == Len(quads)
           f == Top.q[1]
           list == entries[f].address_list
           returns == Tail(list)
           heads == <<Head(list)>>
           end == Quad("funcend", 0)
           reached == Patch(quads, returns, n)
           ended == Append(reached, end)
           S == {""}
           nil == <<>>
           g == Frame("stmt", <<>>, nil, nil)
<1>1. quads \in Seq(QuadType)
  BY NestedTypes
<1>2. n \in Nat /\ n + 1 \in Nat /\ DOMAIN quads = 1..n /\ (n + 1) - 1 = n
  BY <1>1
<1>3. next_quad = n
  BY DEF next_quad
<1>4. /\ Top.kind = "body" /\ quads' = Patch(ended, heads, n + 1)
      /\ Reduce(1, nil, nil) /\ block_stack' = stack_pop(block_stack)
  BY <1>3 DEF function_definition
<1>5. f \in Open(entries)
  BY <1>4, ClosingIs DEF Open
<1>6. /\ list \in Seq(Nat) /\ list # <<>> /\ IsInjective(list)
      /\ ToSet(list) \subseteq Unfilled(quads)
  BY <1>5, FreshIs
<1>7. end \in QuadType /\ end.why \in S
  BY QuadIs, ReasonsAre
<1>8. Len(quads) = n
  OBVIOUS
<1>9. nil \in Seq(Nat) /\ ToSet(nil) = {}
  BY ListsAre
<1> HIDE DEF f, list, end, n, S, nil
<1>10. /\ Head(list) \in Nat /\ ToSet(list) = {Head(list)} \union ToSet(returns)
       /\ Head(list) \notin ToSet(returns) /\ returns \in Seq(Nat)
  BY <1>6, SplitOnce
<1>11. ToSet(heads) = {Head(list)}
  BY <1>10, ListsAre
<1>12. \A x \in ToSet(returns) : x \in Nat /\ x + 1 \in DOMAIN quads /\ x \notin ToSet(heads)
  <2>1. \A x \in Unfilled(quads) : x \in Nat /\ x + 1 \in DOMAIN quads
    BY <1>1, UnfilledIs
  <2> QED BY <1>6, <1>10, <1>11, <2>1
<1> HIDE DEF returns, heads
<1>13. /\ reached \in Seq(QuadType) /\ Len(reached) = Len(quads)
       /\ DOMAIN reached = DOMAIN quads
       /\ \A x \in Nat : x + 1 \in DOMAIN quads => (x \in ToSet(returns) => reached[x + 1].label = n)
  BY <1>1, <1>2, PatchReaches
<1>14. Emits(quads, reached, S)
  <2>1. Emits(quads, quads, S)
    BY <1>1, EmitsSelf
  <2> QED BY <1>1, <1>2, <2>1, EmitsPatch
<1> HIDE DEF reached
<1>15. /\ ended \in Seq(QuadType) /\ Len(ended) = n + 1
       /\ \A i \in DOMAIN reached : ended[i] = reached[i] /\ i \in DOMAIN ended
  <2>1. end \in QuadType
    BY <1>7
  <2>2. /\ ended \in Seq(QuadType) /\ Len(ended) = Len(reached) + 1
        /\ \A i \in DOMAIN reached : ended[i] = reached[i] /\ i \in DOMAIN ended
    BY <1>13, <2>1
  <2> HIDE DEF ended
  <2>3. Len(ended) = n + 1
    BY <1>8, <1>13, <2>2
  <2> QED BY <2>2, <2>3
<1>16. Emits(quads, ended, S)
  BY <1>1, <1>7, <1>14, EmitsOne
<1> HIDE DEF ended
<1>17. /\ quads' \in Seq(QuadType) /\ Len(quads') = Len(ended)
       /\ \A x \in Nat : x + 1 \in DOMAIN ended =>
            (x \notin ToSet(heads) => quads'[x + 1].label = ended[x + 1].label)
  BY <1>2, <1>4, <1>15, PatchReaches
<1>18. Emits(quads, quads', S)
  BY <1>1, <1>2, <1>4, <1>16, EmitsPatch
<1>19. Len(quads') - 1 = n
  BY <1>2, <1>15, <1>17
<1>20. Reached(returns, Len(quads') - 1)
  <2>1. ASSUME NEW x \in ToSet(returns) PROVE quads'[x + 1].label = n
    <3>1. x \in Nat /\ x + 1 \in DOMAIN quads /\ x \notin ToSet(heads)
      BY <1>12, <2>1
    <3>2. x + 1 \in DOMAIN reached /\ x + 1 \in DOMAIN ended
      BY <1>13, <1>15, <3>1
    <3> QED BY <1>13, <1>15, <1>17, <2>1, <3>1, <3>2
  <2> QED BY <1>19, <2>1 DEF Reached
<1>21. g \in FrameType /\ g.kind = "stmt" /\ g.b = nil /\ g.c = nil
  BY <1>9, ValueIs
<1>22. Replaced(ctx, ctx', 1, g)
  <2>1. Reduce(1, nil, nil) /\ Shaped(ctx) /\ Top.kind \in {"block", "body"}
    BY <1>4, NestedTypes
  <2> QED BY <1>9, <2>1, TopReduced
<1> HIDE DEF g
<1>23. Listless(g)
  BY <1>9, <1>21 DEF Listless
<1> QED BY <1>4, <1>18, <1>20, <1>21, <1>22, <1>23 DEF LeavesBody, returns, list, f, S

\* How every step moves the stack.
Moves == \/ Rests \/ Pushes \/ EntersLoop \/ EntersBody \/ JumpsOut \/ Joins
         \/ LeavesLoop \/ LeavesBody

\* Every step is one of these moves.
LEMMA EveryMove ==
  ASSUME Nested, Ledgered, [Next]_vars
  PROVE  Moves
<1>1. Codes \subseteq {0, 1}
  BY DEF Codes
<1>2. ASSUME all_statements \/ block_close \/ if_without_else \/ else_prefix \/ if_else
      PROVE  Moves
  BY <1>2, JoinSteps DEF Moves
<1>3. ASSUME \/ empty_statement \/ block_open \/ return
             \/ \E n \in Var : UseVariable(n) \/ LocalVariable(n) \/ GlobalVariable(n)
                                 \/ Assignment(n)
             \/ \E n, named : function_prefix(n, named)
      PROVE  Moves
  BY <1>3, PushSteps DEF Moves
<1>4. ASSUME NEW code \in Codes, if_prefix(code) PROVE Moves
  BY <1>1, <1>4, PushSteps DEF Moves
<1>5. ASSUME program \/ (\E n \in Var : formal(n)) \/ Terminated \/ UNCHANGED vars
      PROVE  Moves
  BY <1>5 DEF program, formal, Terminated, vars, tables, Rests, Moves
<1>6. ASSUME NEW code \in Codes, while_start(code) PROVE Moves
  BY <1>1, <1>6, EnterSteps DEF Moves
<1>7. ASSUME NEW code \in Codes, NEW step \in Codes, for_prefix(code, step) PROVE Moves
  BY <1>1, <1>7, EnterSteps DEF Moves
<1>8. ASSUME function_arguments PROVE Moves
  BY <1>8, BodyStep DEF Moves
<1>9. ASSUME NEW kind \in {"break", "continue"}, break_or_continue(kind) PROVE Moves
  BY <1>9, JumpSteps DEF Moves
<1>10. ASSUME while_statement \/ for_statement PROVE Moves
  BY <1>10, WhileLeaves, ForLeaves DEF Moves
<1>11. ASSUME function_definition PROVE Moves
  BY <1>11, BodyLeaves DEF Moves
<1> HIDE DEF Moves
<1> QED BY <1>2, <1>3, <1>4, <1>5, <1>6, <1>7, <1>8, <1>9, <1>10, <1>11 DEF Next
-----------------------------------------------------------------------------
(* The loops around each frame *)

\* The innermost loop around a frame is the frame itself, none, or that around
\* the frame below.
LEMMA LoopOfIs ==
  ASSUME NEW cx \in Seq(FrameType), NEW p \in 0..Len(cx)
  PROVE  /\ LoopOf(cx, p) \in 0..p
         /\ LoopOf(cx, p) # 0 => cx[LoopOf(cx, p)].kind \in LoopBodies
         /\ p # 0 => LoopOf(cx, p) = IF cx[p].kind \in LoopBodies THEN p
                                     ELSE IF cx[p].kind = "body" THEN 0
                                     ELSE LoopOf(cx, p - 1)
<1> DEFINE A(q) == {i \in Around(cx) : i <= q}
<1>1. /\ Len(cx) \in Nat /\ DOMAIN cx = 1..Len(cx) /\ p \in Nat
      /\ Around(cx) \subseteq 1..Len(cx) /\ Around(cx) \subseteq Nat
  BY AroundIs
<1>2. \A q : LoopOf(cx, q) = IF A(q) = {} \/ cx[Max(A(q))].kind = "body" THEN 0
                             ELSE Max(A(q))
  BY DEF LoopOf
<1>3. A(p) \subseteq 1..p
  BY <1>1
<1>4. \A i \in A(p) : cx[i].kind \in LoopBodies \union {"body"}
  BY DEF Around
<1>5. p # 0 /\ cx[p].kind \in LoopBodies \union {"body"} => p \in A(p)
  BY <1>1 DEF Around
<1>6. p # 0 /\ cx[p].kind \notin LoopBodies \union {"body"} => A(p) = A(p - 1)
  <2>1. ASSUME p # 0, cx[p].kind \notin LoopBodies \union {"body"}
        PROVE  \A i \in Around(cx) : i <= p <=> i <= p - 1
    <3>1. p \notin Around(cx)
      BY <2>1 DEF Around
    <3> QED BY <1>1, <2>1, <3>1
  <2> QED BY <2>1
<1> HIDE DEF A
<1>7. A(p) # {} => Max(A(p)) \in A(p) /\ \A y \in A(p) : Max(A(p)) >= y
  <2>1. A(p) \subseteq 0..p
    BY <1>1, <1>3
  <2> QED BY <1>1, <2>1, MaxIsLast
<1>8. LoopOf(cx, p) \in 0..p
  BY <1>1, <1>2, <1>3, <1>7
<1>9. LoopOf(cx, p) # 0 => cx[LoopOf(cx, p)].kind \in LoopBodies
  BY <1>2, <1>4, <1>7
<1>10. p # 0 /\ cx[p].kind \in LoopBodies \union {"body"} => A(p) # {} /\ Max(A(p)) = p
  BY <1>1, <1>3, <1>5, <1>7
<1>11. ASSUME p # 0
       PROVE  LoopOf(cx, p) = IF cx[p].kind \in LoopBodies THEN p
                              ELSE IF cx[p].kind = "body" THEN 0
                              ELSE LoopOf(cx, p - 1)
  <2>1. "body" \notin LoopBodies
    BY DEF LoopBodies
  <2>2. CASE cx[p].kind \in LoopBodies
    BY <1>2, <1>10, <1>11, <2>1, <2>2
  <2>3. CASE cx[p].kind = "body"
    BY <1>2, <1>10, <1>11, <2>1, <2>3
  <2>4. CASE cx[p].kind \notin LoopBodies \union {"body"}
    BY <1>2, <1>6, <1>11, <2>4
  <2> QED BY <2>2, <2>3, <2>4
<1> QED BY <1>8, <1>9, <1>11

\* What is below the frame on top keeps the loops around it.
LEMMA Shifted ==
  ASSUME NEW cx \in Seq(FrameType), NEW r, NEW n, NEW g, Replaced(cx, r, n, g)
  PROVE  LET m == Len(r)
         IN  /\ m \in Nat \ {0} /\ m = Len(cx) - n + 1 /\ r \in Seq(FrameType)
             /\ r[m] = g /\ DOMAIN r = 1..m /\ n \in 0..Len(cx)
             /\ \A i \in DOMAIN r : i # m => i < m /\ i \in DOMAIN cx /\ r[i] = cx[i]
             /\ \A i \in DOMAIN cx : i < m => i \in DOMAIN r
             /\ Around(r) = {i \in Around(cx) : i < m}
                              \union (IF g.kind \in Marked THEN {m} ELSE {})
             /\ \A p \in 0..(m - 1) : LoopOf(r, p) = LoopOf(cx, p)
             /\ LoopOf(r, m) = IF g.kind \in LoopBodies THEN m
                               ELSE IF g.kind = "body" THEN 0 ELSE LoopOf(cx, m - 1)
<1> DEFINE m == Len(r)
<1>1. /\ m \in Nat \ {0} /\ m = Len(cx) - n + 1 /\ r \in Seq(FrameType)
      /\ r[m] = g /\ DOMAIN r = 1..m /\ n \in 0..Len(cx)
  BY DEF Replaced
<1>2. DOMAIN cx = 1..Len(cx) /\ Len(cx) \in Nat
  OBVIOUS
<1>3. \A i \in DOMAIN r : i # m => i < m /\ i \in DOMAIN cx /\ r[i] = cx[i]
  <2>1. \A i \in 1..(Len(cx) - n) : r[i] = cx[i]
    BY DEF Replaced
  <2> HIDE DEF m
  <2>2. \A i \in 1..m : i # m => i < m /\ i \in 1..Len(cx) /\ i \in 1..(Len(cx) - n)
    BY <1>1, <1>2
  <2> QED BY <1>1, <1>2, <2>1, <2>2
<1>4. \A i \in DOMAIN cx : i < m => i \in DOMAIN r
  BY <1>1, <1>2
<1> HIDE DEF m
<1>5. m \in DOMAIN r
  BY <1>1
<1>6. Around(r) = {i \in Around(cx) : i < m} \union (IF g.kind \in Marked THEN {m} ELSE {})
  BY <1>1, <1>2, <1>3, <1>4, <1>5 DEF Around, Marked
<1>7. \A i \in Around(cx) : i \in Nat
  BY <1>2 DEF Around
<1>8. ASSUME NEW p \in 0..(m - 1) PROVE LoopOf(r, p) = LoopOf(cx, p)
  <2> DEFINE A == {i \in Around(cx) : i <= p}
             B == {i \in Around(r) : i <= p}
  <2>1. A = B
    BY <1>1, <1>6, <1>7
  <2>2. A # {} => Max(A) \in A
    <3>1. A \subseteq 0..p /\ p \in Nat
      BY <1>1, <1>7
    <3> HIDE DEF A
    <3> QED BY <3>1, MaxIsLast
  <2>3. \A i \in A : r[i] = cx[i]
    BY <1>1, <1>2, <1>3, <1>4, <1>7 DEF Around
  <2>4. /\ LoopOf(cx, p) = IF A = {} \/ cx[Max(A)].kind = "body" THEN 0 ELSE Max(A)
        /\ LoopOf(r, p) = IF B = {} \/ r[Max(B)].kind = "body" THEN 0 ELSE Max(B)
    BY DEF LoopOf
  <2> HIDE DEF A, B
  <2> QED BY <2>1, <2>2, <2>3, <2>4
<1>9. LoopOf(r, m) = IF g.kind \in LoopBodies THEN m
                     ELSE IF g.kind = "body" THEN 0 ELSE LoopOf(cx, m - 1)
  <2>1. LoopOf(r, m) = IF r[m].kind \in LoopBodies THEN m
                       ELSE IF r[m].kind = "body" THEN 0 ELSE LoopOf(r, m - 1)
    <3>1. m \in 0..Len(r) /\ m # 0
      BY <1>1 DEF m
    <3> QED BY <1>1, <3>1, LoopOfIs
  <2>2. LoopOf(r, m - 1) = LoopOf(cx, m - 1)
    BY <1>1, <1>8
  <2> QED BY <1>1, <2>1, <2>2
<1> QED BY <1>1, <1>3, <1>4, <1>6, <1>8, <1>9 DEF m

-----------------------------------------------------------------------------
(* Jumps out of loops and the lists that hold them *)

\* The break lists, and the continue lists, of the frames.
Breaks(cx) == [i \in DOMAIN cx |-> ToSet(cx[i].b)]
Continues(cx) == [i \in DOMAIN cx |-> ToSet(cx[i].c)]

\* What is in the lists L jumps out of the loop around the frame,
Sent(L, cx, qs, why) ==
  \A j \in DOMAIN cx : \A x \in L[j] : qs[x + 1].why = why /\ qs[x + 1].at = LoopOf(cx, j)
\* and a jump out of a loop is in a list inside it.
Heard(L, cx, qs, why) ==
  \A d \in DOMAIN cx, i \in DOMAIN qs :
    (cx[d].kind \in LoopBodies /\ i > cx[d].q[1] /\ qs[i].at = d /\ qs[i].why = why) =>
      \E j \in DOMAIN cx : j > d /\ i - 1 \in L[j]

\* The frame on top takes over the lists of those it replaces, or a jump that has
\* just been emitted; what is dropped belongs to no loop that remains.
Relays(L, h, why) ==
  LET m == Len(ctx')
  IN  /\ \A x \in h :
           \/ \E i \in DOMAIN ctx : i >= m /\ x \in L[i] /\ LoopOf(ctx, i) = LoopOf(ctx', m)
           \/ /\ x + 1 \in DOMAIN quads' /\ quads'[x + 1].why = why
              /\ quads'[x + 1].at = LoopOf(ctx', m) /\ LoopOf(ctx', m) = CurrentLoop
              /\ block_stack # <<>> /\ Last(block_stack) = "LOOP"
      /\ \A i \in DOMAIN ctx : i >= m =>
           \A x \in L[i] : x \in h \/ LoopOf(ctx, i) \notin 1..(m - 1)
      /\ \A i \in DOMAIN quads' :
           (i > Len(quads) /\ quads'[i].why = why) => i - 1 \in h

\* The lists are those of the frames, and the labels in them are of quads.
ListsOf(L, cx, qs) == \A j \in DOMAIN cx : \A x \in L[j] : x \in Nat /\ x + 1 \in DOMAIN qs

\* Lists that are relayed hold jumps out of the loop around them.
LEMMA SentStep ==
  ASSUME ctx \in Seq(FrameType), quads \in Seq(QuadType),
         NEW n, NEW g, Replaced(ctx, ctx', n, g), NEW S, Emits(quads, quads', S),
         NEW L, NEW M, NEW h, NEW why, ListsOf(L, ctx, quads),
         M[Len(ctx')] = h, \A i \in DOMAIN ctx' : i # Len(ctx') => M[i] = L[i],
         Relays(L, h, why), Sent(L, ctx, quads, why)
  PROVE  Sent(M, ctx', quads', why)
<1> DEFINE m == Len(ctx')
<1>1. /\ m \in Nat \ {0} /\ DOMAIN ctx' = 1..m
      /\ \A i \in DOMAIN ctx' : i # m => i < m /\ i \in DOMAIN ctx /\ ctx'[i] = ctx[i]
      /\ \A p \in 0..(m - 1) : LoopOf(ctx', p) = LoopOf(ctx, p)
  BY Shifted
<1>2. \A x \in Nat : x + 1 \in DOMAIN quads =>
        quads'[x + 1].why = quads[x + 1].why /\ quads'[x + 1].at = quads[x + 1].at
  BY DEF Emits
<1>3. \A x \in h :
           \/ \E i \in DOMAIN ctx : i >= m /\ x \in L[i] /\ LoopOf(ctx, i) = LoopOf(ctx', m)
           \/ /\ x + 1 \in DOMAIN quads' /\ quads'[x + 1].why = why
              /\ quads'[x + 1].at = LoopOf(ctx', m)
  BY DEF Relays
<1> HIDE DEF m
<1>4. ASSUME NEW j \in DOMAIN ctx', NEW x \in M[j]
      PROVE  quads'[x + 1].why = why /\ quads'[x + 1].at = LoopOf(ctx', j)
  <2>1. CASE j # m
    <3>1. j \in DOMAIN ctx /\ x \in L[j] /\ LoopOf(ctx', j) = LoopOf(ctx, j)
      BY <1>1, <2>1 DEF m
    <3>2. x \in Nat /\ x + 1 \in DOMAIN quads
      BY <3>1 DEF ListsOf
    <3>3. quads[x + 1].why = why /\ quads[x + 1].at = LoopOf(ctx, j)
      BY <3>1 DEF Sent
    <3> QED BY <1>2, <3>1, <3>2, <3>3
  <2>2. CASE j = m
    <3>1. x \in h
      BY <2>2 DEF m
    <3>2. CASE \E i \in DOMAIN ctx : i >= m /\ x \in L[i] /\ LoopOf(ctx, i) = LoopOf(ctx', m)
      <4>1. PICK i \in DOMAIN ctx : x \in L[i] /\ LoopOf(ctx, i) = LoopOf(ctx', m)
        BY <3>2
      <4>2. x \in Nat /\ x + 1 \in DOMAIN quads
        BY <4>1 DEF ListsOf
      <4>3. quads[x + 1].why = why /\ quads[x + 1].at = LoopOf(ctx, i)
        BY <4>1 DEF Sent
      <4> QED BY <1>2, <2>2, <4>1, <4>2, <4>3
    <3> QED BY <1>3, <2>2, <3>1, <3>2
  <2> QED BY <2>1, <2>2
<1> QED BY <1>4 DEF Sent

\* And a jump that was in a list inside its loop still is.
LEMMA HeardStep ==
  ASSUME ctx \in Seq(FrameType), quads \in Seq(QuadType),
         NEW n, NEW g, Replaced(ctx, ctx', n, g), NEW S, Emits(quads, quads', S),
         NEW L, NEW M, NEW h, NEW why,
         M[Len(ctx')] = h, \A i \in DOMAIN ctx' : i # Len(ctx') => M[i] = L[i],
         g.kind \in LoopBodies => h = {} /\ g.q[1] = Len(quads),
         Relays(L, h, why), Sent(L, ctx, quads, why), Heard(L, ctx, quads, why)
  PROVE  Heard(M, ctx', quads', why)
<1> DEFINE m == Len(ctx')
<1>1. /\ m \in Nat \ {0} /\ DOMAIN ctx' = 1..m /\ ctx'[m] = g
      /\ \A i \in DOMAIN ctx' : i # m => i < m /\ i \in DOMAIN ctx /\ ctx'[i] = ctx[i]
      /\ \A i \in DOMAIN ctx : i < m => i \in DOMAIN ctx'
  BY Shifted
<1>2. /\ \A i \in DOMAIN quads : quads'[i].why = quads[i].why /\ quads'[i].at = quads[i].at
      /\ quads' \in Seq(QuadType)
  BY DEF Emits
<1>3. /\ \A i \in DOMAIN ctx : i >= m =>
           \A x \in L[i] : x \in h \/ LoopOf(ctx, i) \notin 1..(m - 1)
      /\ \A i \in DOMAIN quads' :
           (i > Len(quads) /\ quads'[i].why = why) => i - 1 \in h
  BY DEF Relays
<1>4. DOMAIN ctx = 1..Len(ctx) /\ Len(ctx) \in Nat
  OBVIOUS
<1>5. /\ DOMAIN quads = 1..Len(quads) /\ Len(quads) \in Nat
      /\ DOMAIN quads' = 1..Len(quads') /\ Len(quads') \in Nat
  BY <1>2
<1>6. M[m] = h /\ \A i \in DOMAIN ctx' : i # m => M[i] = L[i]
  OBVIOUS
<1> HIDE DEF m
<1>7. ASSUME NEW d \in DOMAIN ctx', NEW i \in DOMAIN quads',
             ctx'[d].kind \in LoopBodies, i > ctx'[d].q[1], quads'[i].at = d,
             quads'[i].why = why
      PROVE  \E j \in DOMAIN ctx' : j > d /\ i - 1 \in M[j]
  <2>1. m \in DOMAIN ctx'
    BY <1>1
  <2>2. CASE i > Len(quads)
    <3>1. i - 1 \in h
      BY <1>3, <1>7, <2>2
    <3>2. d # m
      BY <1>1, <1>7, <3>1
    <3>3. d < m
      BY <1>1, <3>2
    <3> QED BY <1>6, <2>1, <3>1, <3>3
  <2>3. CASE ~(i > Len(quads))
    <3>1. i \in DOMAIN quads
      BY <1>5, <2>3
    <3>2. d # m
      BY <1>1, <1>5, <1>7, <2>3
    <3>3. d < m /\ d \in DOMAIN ctx /\ ctx'[d] = ctx[d]
      BY <1>1, <3>2
    <3>4. quads[i].at = d /\ quads[i].why = why
      BY <1>2, <1>7, <3>1
    <3>5. PICK j \in DOMAIN ctx : j > d /\ i - 1 \in L[j]
      BY <1>7, <3>1, <3>3, <3>4 DEF Heard
    <3>6. CASE j < m
      <4>1. j \in DOMAIN ctx' /\ j # m
        BY <1>1, <1>4, <3>6
      <4> QED BY <1>6, <3>5, <4>1
    <3>7. CASE ~(j < m)
      <4>1. j >= m
        BY <1>1, <1>4, <3>7
      <4>2. (i - 1) + 1 = i
        BY <1>5
      <4>3. LoopOf(ctx, j) = d
        BY <3>4, <3>5, <4>2 DEF Sent
      <4>4. d \in 1..(m - 1)
        BY <1>1, <1>4, <3>3
      <4>5. i - 1 \in h
        BY <1>3, <3>5, <4>1, <4>3, <4>4
      <4> QED BY <1>6, <2>1, <3>3, <4>5
    <3> QED BY <3>6, <3>7
  <2> QED BY <2>2, <2>3
<1> QED BY <1>7 DEF Heard

\* The heads of loops, branches and functions hold no lists.
HeadsBare(cx) ==
  \A i \in DOMAIN cx :
    cx[i].kind \in LoopBodies \union {"if_then", "func"} => Listless(cx[i])

\* What a step does to the lists of both kinds.
Relayed ==
  \E n, S : \E g \in FrameType :
    /\ Replaced(ctx, ctx', n, g) /\ Emits(quads, quads', S)
    /\ g.kind \in LoopBodies \union {"if_then", "func"} => Listless(g)
    /\ g.kind \in LoopBodies => g.q[1] = Len(quads)
    /\ Relays(Breaks(ctx), ToSet(g.b), "break")
    /\ Relays(Continues(ctx), ToSet(g.c), "continue")

\* The frames replaced are those from the place of the new one on.
LEMMA PlacesAre ==
  ASSUME Nested, NEW n, NEW g, Replaced(ctx, ctx', n, g)
  PROVE  /\ ctx \in Seq(FrameType) /\ quads \in Seq(QuadType) /\ Len(quads) \in Nat
         /\ Len(ctx) \in Nat \ {0} /\ DOMAIN ctx = 1..Len(ctx) /\ n \in 0..Len(ctx)
         /\ Len(ctx) \in DOMAIN ctx /\ Top = ctx[Len(ctx)]
         /\ Len(ctx') = Len(ctx) - n + 1 /\ Len(ctx') \in Nat \ {0}
         /\ \A i \in DOMAIN ctx : i >= Len(ctx') <=> i > Len(ctx) - n
         /\ n = 0 => \A i \in DOMAIN ctx : ~(i >= Len(ctx'))
         /\ n = 1 => /\ Len(ctx') = Len(ctx)
                     /\ \A i \in DOMAIN ctx : i >= Len(ctx') => i = Len(ctx)
         /\ n = 2 => /\ Len(ctx') = Len(ctx) - 1 /\ Len(ctx) - 1 \in DOMAIN ctx
                     /\ \A i \in DOMAIN ctx : i >= Len(ctx') =>
                          i = Len(ctx) \/ i = Len(ctx) - 1
<1>1. Shaped(ctx) /\ quads \in Seq(QuadType)
  BY NestedTypes
<1>2. ctx \in Seq(FrameType) /\ Len(ctx) > 0
  BY <1>1 DEF Shaped
<1>3. Len(quads) \in Nat
  BY <1>1
<1>4. Len(ctx) \in Nat \ {0} /\ DOMAIN ctx = 1..Len(ctx)
  BY <1>2
<1>5. Top = ctx[Len(ctx)]
  BY <1>2 DEF Top, Last
<1>6. n \in 0..Len(ctx) /\ Len(ctx') = Len(ctx) - n + 1
  BY DEF Replaced
<1> DEFINE len == Len(ctx)
           m == Len(ctx')
<1>7. len \in Nat \ {0} /\ n \in 0..len /\ m = len - n + 1 /\ DOMAIN ctx = 1..len
  BY <1>4, <1>6
<1> HIDE DEF len, m
<1>8. /\ len \in DOMAIN ctx /\ m \in Nat \ {0}
      /\ \A i \in DOMAIN ctx : i >= m <=> i > len - n
      /\ n = 0 => \A i \in DOMAIN ctx : ~(i >= m)
      /\ n = 1 => /\ m = len
                  /\ \A i \in DOMAIN ctx : i >= m => i = len
      /\ n = 2 => /\ m = len - 1 /\ len - 1 \in DOMAIN ctx
                  /\ \A i \in DOMAIN ctx : i >= m => i = len \/ i = len - 1
  BY <1>7
<1> QED BY <1>1, <1>2, <1>3, <1>4, <1>5, <1>6, <1>8 DEF len, m

\* Nothing of a kind is emitted, and what is dropped belongs to no loop that
\* remains.
LEMMA DropsAll ==
  ASSUME NEW S, Emits(quads, quads', S), NEW why, why \notin S, NEW L,
         \A i \in DOMAIN ctx : i >= Len(ctx') =>
           \A x \in L[i] : LoopOf(ctx, i) \notin 1..(Len(ctx') - 1)
  PROVE  Relays(L, {}, why)
<1>1. \A i \in DOMAIN quads' : ~(i > Len(quads) /\ quads'[i].why = why)
  BY DEF Emits
<1> QED BY <1>1 DEF Relays

\* What a frame without lists contributes.
LEMMA NoLists ==
  /\ \A g : Listless(g) => ToSet(g.b) = {} /\ ToSet(g.c) = {}
  /\ \A cx : \A i \in DOMAIN cx : /\ Breaks(cx)[i] = ToSet(cx[i].b)
                                  /\ Continues(cx)[i] = ToSet(cx[i].c)
BY DEF Listless, Breaks, Continues

\* Frames that are pushed without lists, and those of bodies.
LEMMA PushRelayed ==
  ASSUME Nested, HeadsBare(ctx), Pushes \/ EntersLoop \/ EntersBody
  PROVE  Relayed
<1> DEFINE B == Breaks(ctx)
           C == Continues(ctx)
<1>1. ASSUME Pushes \/ EntersLoop PROVE Relayed
  <2>1. PICK g \in FrameType :
          /\ Replaced(ctx, ctx', 0, g) /\ Listless(g)
          /\ g.kind \in LoopBodies => g.q[1] = Len(quads)
    BY <1>1 DEF Pushes, EntersLoop, Marked
  <2>2. PICK S : Emits(quads, quads', S) /\ "break" \notin S /\ "continue" \notin S
    <3>1. "break" \notin {"", "for"} /\ "continue" \notin {"", "for"}
      OBVIOUS
    <3>2. "break" \notin {"", "return"} /\ "continue" \notin {"", "return"}
      OBVIOUS
    <3> QED BY <1>1, <3>1, <3>2 DEF Pushes, EntersLoop, Quiet, Returns
  <2> HIDE DEF B, C
  <2>3. \A i \in DOMAIN ctx : ~(i >= Len(ctx'))
    BY <2>1, PlacesAre
  <2>4. Relays(B, {}, "break") /\ Relays(C, {}, "continue")
    BY <2>1, <2>2, <2>3, DropsAll
  <2>5. ToSet(g.b) = {} /\ ToSet(g.c) = {}
    BY <2>1, NoLists
  <2> QED BY <2>1, <2>2, <2>4, <2>5 DEF Relayed, B, C
<1>2. ASSUME EntersBody PROVE Relayed
  <2> DEFINE S == {""}
  <2>1. PICK g \in FrameType : /\ Replaced(ctx, ctx', 1, g) /\ g.kind = "body"
                               /\ g.b = Top.b /\ g.c = Top.c
    BY <1>2 DEF EntersBody
  <2>2. Emits(quads, quads', S)
    <3>1. quads' = quads
      BY <1>2 DEF EntersBody
    <3>2. quads \in Seq(QuadType)
      BY NestedTypes
    <3>3. Emits(quads, quads, S)
      BY <3>2, EmitsSelf
    <3> QED BY <3>1, <3>3
  <2>3. "break" \notin S /\ "continue" \notin S
    OBVIOUS
  <2>4. g.kind \notin LoopBodies \union {"if_then", "func"}
    BY <2>1 DEF LoopBodies
  <2> HIDE DEF S, B, C
  <2>5. /\ Len(ctx) \in DOMAIN ctx /\ Top = ctx[Len(ctx)]
        /\ \A i \in DOMAIN ctx : i >= Len(ctx') => i = Len(ctx)
    BY <2>1, PlacesAre
  <2>6. Listless(Top)
    BY <1>2, <2>5 DEF HeadsBare, EntersBody
  <2>7. ToSet(g.b) = {} /\ ToSet(g.c) = {}
    BY <2>1, <2>6, NoLists
  <2>8. \A i \in DOMAIN ctx : i >= Len(ctx') => B[i] = {} /\ C[i] = {}
    BY <2>1, <2>5, <2>7, NoLists DEF B, C
  <2>9. Relays(B, {}, "break") /\ Relays(C, {}, "continue")
    BY <2>2, <2>3, <2>8, DropsAll
  <2> QED BY <2>1, <2>2, <2>4, <2>7, <2>9 DEF Relayed, B, C
<1> QED BY <1>1, <1>2

\* The innermost loop around a statement is that around what it belongs to.
LEMMA LoopsAtTop ==
  ASSUME Nested
  PROVE  /\ LoopOf(ctx, Len(ctx)) = CurrentLoop
         /\ Top.kind \in LoopBodies => LoopOf(ctx, Len(ctx)) = Len(ctx)
         /\ Top.kind = "body" => LoopOf(ctx, Len(ctx)) = 0
         /\ Top.kind \notin Marked =>
              LoopOf(ctx, Len(ctx)) = LoopOf(ctx, Len(ctx) - 1)
         /\ Len(ctx) > 1 /\ Below.kind \in LoopBodies =>
              LoopOf(ctx, Len(ctx) - 1) = Len(ctx) - 1
<1>1. /\ ctx \in Seq(FrameType) /\ Len(ctx) \in Nat \ {0} /\ Top = ctx[Len(ctx)]
      /\ DOMAIN ctx = 1..Len(ctx)
  <2>1. Shaped(ctx)
    BY NestedTypes
  <2>2. ctx \in Seq(FrameType) /\ Len(ctx) > 0
    BY <2>1 DEF Shaped
  <2>3. Len(ctx) \in Nat \ {0} /\ DOMAIN ctx = 1..Len(ctx)
    BY <2>2
  <2> QED BY <2>2, <2>3 DEF Top, Last
<1>2. \A i \in Around(ctx) : i <= Len(ctx)
  BY <1>1 DEF Around
<1>3. {i \in Around(ctx) : i <= Len(ctx)} = Around(ctx)
  BY <1>2
<1>4. LoopOf(ctx, Len(ctx)) = CurrentLoop
  BY <1>3 DEF LoopOf, CurrentLoop
<1>5. Len(ctx) \in 0..Len(ctx) /\ Len(ctx) - 1 \in 0..Len(ctx) /\ Len(ctx) # 0
  BY <1>1
<1>6. LoopOf(ctx, Len(ctx)) = IF Top.kind \in LoopBodies THEN Len(ctx)
                              ELSE IF Top.kind = "body" THEN 0
                              ELSE LoopOf(ctx, Len(ctx) - 1)
  BY <1>1, <1>5, LoopOfIs
<1>7. Len(ctx) > 1 /\ Below.kind \in LoopBodies => LoopOf(ctx, Len(ctx) - 1) = Len(ctx) - 1
  <2>1. Below = ctx[Len(ctx) - 1]
    BY DEF Below
  <2>2. Len(ctx) > 1 => Len(ctx) - 1 # 0
    BY <1>1
  <2> QED BY <1>1, <1>5, <2>1, <2>2, LoopOfIs
<1>8. "body" \notin LoopBodies
  BY DEF LoopBodies
<1> QED BY <1>4, <1>6, <1>7, <1>8 DEF Marked

\* A jump that is emitted goes into the list of its kind.
LEMMA JumpRelays ==
  ASSUME Nested, NEW g, Replaced(ctx, ctx', 0, g), g.kind = "stmt",
         NEW kind, quads' = Append(quads, Owed(kind, CurrentLoop)),
         Owed(kind, CurrentLoop) \in QuadType,
         block_stack # <<>>, Last(block_stack) = "LOOP", NEW L, NEW why,
         NEW h, h = IF why = kind THEN {Len(quads)} ELSE {}
  PROVE  Relays(L, h, why)
<1> DEFINE q == Owed(kind, CurrentLoop)
           m == Len(ctx')
<1>1. /\ ctx \in Seq(FrameType) /\ quads \in Seq(QuadType) /\ Len(quads) \in Nat
      /\ m = Len(ctx) - 0 + 1 /\ Len(ctx) \in Nat \ {0}
      /\ \A i \in DOMAIN ctx : ~(i >= m)
  BY PlacesAre
<1>2. q.why = kind /\ q.at = CurrentLoop
  BY ReasonsAre
<1>3. LoopOf(ctx', m) = CurrentLoop
  <2>1. g.kind \notin LoopBodies /\ g.kind # "body"
    BY DEF LoopBodies
  <2>2. LoopOf(ctx', m) = LoopOf(ctx, m - 1)
    BY <1>1, <2>1, Shifted
  <2>3. m - 1 = Len(ctx)
    BY <1>1
  <2> QED BY <2>2, <2>3, LoopsAtTop
<1> HIDE DEF q, m
<1>4. /\ DOMAIN quads' = 1..(Len(quads) + 1)
      /\ quads'[Len(quads) + 1] = q
  BY <1>1 DEF q
<1>5. \A i \in DOMAIN quads' : i > Len(quads) => i = Len(quads) + 1
  BY <1>1, <1>4
<1>6. Len(quads) + 1 \in DOMAIN quads' /\ (Len(quads) + 1) - 1 = Len(quads)
  BY <1>1, <1>4
<1>7. \A x \in h : x = Len(quads) /\ why = kind
  OBVIOUS
<1>8. \A x \in h : /\ x + 1 \in DOMAIN quads' /\ quads'[x + 1].why = why
                   /\ quads'[x + 1].at = LoopOf(ctx', m)
  BY <1>2, <1>3, <1>4, <1>6, <1>7
<1>9. \A i \in DOMAIN quads' : (i > Len(quads) /\ quads'[i].why = why) => i - 1 \in h
  BY <1>2, <1>4, <1>5, <1>6
<1> QED BY <1>1, <1>3, <1>8, <1>9 DEF Relays, m

\* A jump out of a loop is in the list of its statement.
LEMMA JumpRelayed ==
  ASSUME Nested, JumpsOut
  PROVE  Relayed
<1>1. PICK kind \in {"break", "continue"}, g \in FrameType :
        /\ Replaced(ctx, ctx', 0, g) /\ g.kind = "stmt"
        /\ quads' = Append(quads, Owed(kind, CurrentLoop))
        /\ ToSet(g.b) = IF kind = "break" THEN {Len(quads)} ELSE {}
        /\ ToSet(g.c) = IF kind = "break" THEN {} ELSE {Len(quads)}
  BY DEF JumpsOut
<1>2. block_stack # <<>> /\ Last(block_stack) = "LOOP"
  BY DEF JumpsOut
<1>3. Owed(kind, CurrentLoop) \in QuadType
  BY <1>1, QuadIs, CurrentLoopIs
<1>4. Relays(Breaks(ctx), ToSet(g.b), "break")
  BY <1>1, <1>2, <1>3, JumpRelays
<1>5. ToSet(g.c) = IF "continue" = kind THEN {Len(quads)} ELSE {}
  BY <1>1
<1>6. Relays(Continues(ctx), ToSet(g.c), "continue")
  BY <1>1, <1>2, <1>3, <1>5, JumpRelays
<1>7. Emits(quads, quads', {kind})
  <2>1. quads \in Seq(QuadType)
    BY NestedTypes
  <2>2. Emits(quads, quads, {kind})
    BY <2>1, EmitsSelf
  <2>3. Owed(kind, CurrentLoop).why \in {kind}
    BY ReasonsAre
  <2> QED BY <1>1, <1>3, <2>1, <2>2, <2>3, EmitsOne
<1>8. g.kind \notin LoopBodies \union {"if_then", "func"}
  BY <1>1 DEF LoopBodies
<1> QED BY <1>1, <1>4, <1>6, <1>7, <1>8 DEF Relayed

\* Frames that are joined belong to one loop, and none of their lists is lost.
LEMMA JoinRelays ==
  ASSUME Nested, Quiet, NEW L, NEW h, NEW why \in {"break", "continue"},
         \A x \in h : \E i \in DOMAIN ctx : i >= Len(ctx') /\ x \in L[i],
         \A i \in DOMAIN ctx : i >= Len(ctx') =>
           L[i] \subseteq h /\ LoopOf(ctx, i) = LoopOf(ctx', Len(ctx'))
  PROVE  Relays(L, h, why)
<1> DEFINE S == {"", "for"}
<1>1. Emits(quads, quads', S) /\ why \notin S
  BY DEF Quiet
<1> HIDE DEF S
<1>2. \A i \in DOMAIN quads' : ~(i > Len(quads) /\ quads'[i].why = why)
  BY <1>1 DEF Emits
<1> QED BY <1>2 DEF Relays

\* So lists are joined.
LEMMA JoinRelayed ==
  ASSUME Nested, HeadsBare(ctx), Joins
  PROVE  Relayed
<1> DEFINE B == Breaks(ctx)
           C == Continues(ctx)
           m == Len(ctx')
           S == {"", "for"}
<1>1. PICK n \in {1, 2}, g \in FrameType :
        /\ Joined(n, g) /\ g.kind \notin LoopBodies \union {"if_then", "func"}
        /\ ctx[Len(ctx) - n + 1].kind \notin LoopBodies
        /\ (g.kind = "body") <=> (ctx[Len(ctx) - n + 1].kind = "body")
  BY DEF Joins
<1>2. Replaced(ctx, ctx', n, g) /\ (n = 2 => Top.kind = "stmt")
  <2>1. Joined(n, g)
    BY <1>1
  <2> QED BY <2>1 DEF Joined
<1>3. /\ ctx \in Seq(FrameType) /\ Len(ctx) \in Nat \ {0} /\ DOMAIN ctx = 1..Len(ctx)
      /\ m = Len(ctx) - n + 1 /\ m \in Nat \ {0}
      /\ \A i \in DOMAIN ctx : i >= m <=> i > Len(ctx) - n
      /\ n = 1 => m = Len(ctx) /\ \A i \in DOMAIN ctx : i >= m => i = Len(ctx)
      /\ n = 2 => /\ m = Len(ctx) - 1
                  /\ \A i \in DOMAIN ctx : i >= m => i = Len(ctx) \/ i = Len(ctx) - 1
  BY <1>1, <1>2, PlacesAre
<1>4. Quiet /\ Emits(quads, quads', S)
  BY DEF Joins, Quiet
<1> HIDE DEF m, S, B, C
<1>5. LoopOf(ctx', m) = IF g.kind = "body" THEN 0 ELSE LoopOf(ctx, m - 1)
  BY <1>1, <1>2, <1>3, Shifted DEF m
<1>6. LoopOf(ctx, m) = LoopOf(ctx', m)
  <2>1. m \in 0..Len(ctx) /\ m # 0
    BY <1>1, <1>3
  <2>2. LoopOf(ctx, m) = IF ctx[m].kind \in LoopBodies THEN m
                         ELSE IF ctx[m].kind = "body" THEN 0 ELSE LoopOf(ctx, m - 1)
    BY <1>3, <2>1, LoopOfIs
  <2> QED BY <1>1, <1>3, <1>5, <2>2
<1>7. \A i \in DOMAIN ctx : i >= m => LoopOf(ctx, i) = LoopOf(ctx', m)
  <2>1. CASE n = 1
    BY <1>3, <1>6, <2>1
  <2>2. CASE n = 2
    <3>1. "stmt" \notin Marked
      BY DEF Marked, LoopBodies
    <3>2. LoopOf(ctx, Len(ctx)) = LoopOf(ctx, m)
      BY <1>2, <1>3, <2>2, <3>1, LoopsAtTop
    <3> QED BY <1>3, <1>6, <2>2, <3>2
  <2> QED BY <1>1, <2>1, <2>2
<1>8. \A i \in DOMAIN ctx : B[i] = ToSet(ctx[i].b) /\ C[i] = ToSet(ctx[i].c)
  BY NoLists DEF B, C
<1>9. \A i \in DOMAIN ctx : i >= m => B[i] \subseteq ToSet(g.b) /\ C[i] \subseteq ToSet(g.c)
  <2>1. ASSUME NEW i \in DOMAIN ctx, i >= m
        PROVE  B[i] \subseteq ToSet(g.b) /\ C[i] \subseteq ToSet(g.c)
    <3>1. CASE ctx[i].kind = "if_then"
      <4>1. Listless(ctx[i])
        BY <3>1 DEF HeadsBare
      <4>2. ToSet(ctx[i].b) = {} /\ ToSet(ctx[i].c) = {}
        BY <4>1, NoLists
      <4>3. B[i] = {} /\ C[i] = {}
        BY <1>8, <2>1, <4>2
      <4> QED BY <4>3
    <3>2. CASE ctx[i].kind # "if_then"
      <4>1. Joined(n, g)
        BY <1>1
      <4>2. i > Len(ctx) - n
        BY <1>3, <2>1
      <4>3. /\ ToSet(ctx[i].b) \subseteq ToSet(g.b)
            /\ ToSet(ctx[i].c) \subseteq ToSet(g.c)
        BY <2>1, <3>2, <4>1, <4>2, Zenon DEF Joined
      <4> QED BY <1>8, <4>3
    <3> QED BY <3>1, <3>2
  <2> QED BY <2>1
<1>10. /\ \A x \in ToSet(g.b) : \E i \in DOMAIN ctx : i >= m /\ x \in B[i]
       /\ \A x \in ToSet(g.c) : \E i \in DOMAIN ctx : i >= m /\ x \in C[i]
  BY <1>1, <1>3, <1>8 DEF Joined
<1>11. Relays(B, ToSet(g.b), "break")
  BY <1>4, <1>7, <1>9, <1>10, JoinRelays DEF m
<1>12. Relays(C, ToSet(g.c), "continue")
  BY <1>4, <1>7, <1>9, <1>10, JoinRelays DEF m
<1> QED BY <1>1, <1>2, <1>4, <1>11, <1>12 DEF Relayed, B, C

\* What a loop or a body that ends drops belongs to itself.
LEMMA LeaveRelayed ==
  ASSUME Nested, HeadsBare(ctx), LeavesLoop \/ LeavesBody
  PROVE  Relayed
<1> DEFINE B == Breaks(ctx)
           C == Continues(ctx)
           m == Len(ctx')
<1>1. PICK n \in {1, 2}, g \in FrameType :
        /\ Replaced(ctx, ctx', n, g) /\ g.kind = "stmt" /\ Listless(g)
        /\ n = 2 => Top.kind = "stmt" /\ Below.kind \in LoopBodies
        /\ n = 1 => Top.kind = "body"
  <2>1. CASE LeavesLoop
    <3>1. PICK g \in FrameType : /\ Replaced(ctx, ctx', 2, g) /\ g.kind = "stmt"
                                 /\ Listless(g)
      BY <2>1 DEF LeavesLoop
    <3>2. Top.kind = "stmt" /\ Below.kind \in LoopBodies
      BY <2>1 DEF LeavesLoop
    <3>3. 2 \in {1, 2} /\ 2 # 1
      OBVIOUS
    <3> QED BY <3>1, <3>2, <3>3, Zenon
  <2>2. CASE LeavesBody
    <3>1. PICK g \in FrameType : /\ Replaced(ctx, ctx', 1, g) /\ g.kind = "stmt"
                                 /\ Listless(g)
      BY <2>2 DEF LeavesBody
    <3>2. Top.kind = "body"
      BY <2>2 DEF LeavesBody
    <3>3. 1 \in {1, 2} /\ 1 # 2
      OBVIOUS
    <3> QED BY <3>1, <3>2, <3>3, Zenon
  <2> QED BY <2>1, <2>2
<1>2. \E S : Emits(quads, quads', S) /\ "break" \notin S /\ "continue" \notin S
  <2>1. "break" \notin {"", "for"} /\ "continue" \notin {"", "for"}
    OBVIOUS
  <2>2. "break" \notin {""} /\ "continue" \notin {""}
    OBVIOUS
  <2> QED BY <2>1, <2>2 DEF LeavesLoop, LeavesBody, Quiet
<1>3. PICK S : Emits(quads, quads', S) /\ "break" \notin S /\ "continue" \notin S
  BY <1>2
<1>4. ToSet(g.b) = {} /\ ToSet(g.c) = {}
  BY <1>1, NoLists
<1>5. g.kind \notin LoopBodies \union {"if_then", "func"}
  BY <1>1 DEF LoopBodies
<1>6. /\ Len(ctx) \in Nat \ {0} /\ m \in Nat \ {0} /\ DOMAIN ctx = 1..Len(ctx)
      /\ m = Len(ctx) - n + 1 /\ n \in 0..Len(ctx) /\ Top = ctx[Len(ctx)]
      /\ n = 1 => m = Len(ctx) /\ \A i \in DOMAIN ctx : i >= m => i = Len(ctx)
      /\ n = 2 => /\ m = Len(ctx) - 1 /\ Len(ctx) - 1 \in DOMAIN ctx
                  /\ \A i \in DOMAIN ctx : i >= m => i = Len(ctx) \/ i = Len(ctx) - 1
  BY <1>1, PlacesAre
<1> HIDE DEF m, B, C
<1>7. \A i \in DOMAIN ctx : i >= m => LoopOf(ctx, i) \notin 1..(m - 1)
  <2>1. CASE n = 1
    <3>1. LoopOf(ctx, Len(ctx)) = 0
      BY <1>1, <2>1, LoopsAtTop
    <3> QED BY <1>6, <2>1, <3>1
  <2>2. CASE n = 2
    <3>1. "stmt" \notin Marked
      BY DEF Marked, LoopBodies
    <3>2. Len(ctx) > 1
      BY <1>6, <2>2
    <3>3. LoopOf(ctx, Len(ctx)) = m /\ LoopOf(ctx, Len(ctx) - 1) = m
      BY <1>1, <1>6, <2>2, <3>1, <3>2, LoopsAtTop
    <3>4. m \notin 1..(m - 1)
      BY <1>6
    <3> QED BY <1>6, <2>2, <3>3, <3>4
  <2> QED BY <1>1, <2>1, <2>2
<1>8. Relays(B, {}, "break") /\ Relays(C, {}, "continue")
  BY <1>3, <1>7, DropsAll DEF m
<1> QED BY <1>1, <1>3, <1>4, <1>5, <1>8 DEF Relayed, B, C

\* Every step moves the lists, or leaves the frames, the stack and the quads.
LEMMA MoveRelayed ==
  ASSUME Nested, HeadsBare(ctx), Moves
  PROVE  Relayed \/ Rests
<1>1. Pushes \/ EntersLoop \/ EntersBody => Relayed
  BY PushRelayed
<1>2. JumpsOut => Relayed
  BY JumpRelayed
<1>3. Joins => Relayed
  BY JoinRelayed
<1>4. LeavesLoop \/ LeavesBody => Relayed
  BY LeaveRelayed
<1> QED BY <1>1, <1>2, <1>3, <1>4, Zenon DEF Moves

\* Breaks and continues are in lists inside the loop they belong to, and nowhere
\* else.
Delivered(cx, qs) ==
  /\ HeadsBare(cx)
  /\ Sent(Breaks(cx), cx, qs, "break") /\ Sent(Continues(cx), cx, qs, "continue")
  /\ Heard(Breaks(cx), cx, qs, "break") /\ Heard(Continues(cx), cx, qs, "continue")

\* The labels in the lists of frames are of quads.
LEMMA ListsAreOfQuads ==
  ASSUME Nested, Ledgered
  PROVE  ListsOf(Breaks(ctx), ctx, quads) /\ ListsOf(Continues(ctx), ctx, quads)
<1>1. quads \in Seq(QuadType)
  BY NestedTypes
<1>2. \A x \in Unfilled(quads) : x \in Nat /\ x + 1 \in DOMAIN quads
  BY <1>1, UnfilledIs
<1>3. \A j \in DOMAIN ctx : Owes(ctx[j]) \subseteq Unfilled(quads)
  BY DEF Ledgered, Ledger
<1>4. \A j \in DOMAIN ctx : /\ Breaks(ctx)[j] \subseteq Unfilled(quads)
                            /\ Continues(ctx)[j] \subseteq Unfilled(quads)
  <2>1. \A g : ToSet(g.b) \subseteq Owes(g) /\ ToSet(g.c) \subseteq Owes(g)
    BY DEF Owes
  <2> QED BY <1>3, <2>1, NoLists
<1>5. \A j \in DOMAIN ctx : \A x \in Breaks(ctx)[j] : x \in Nat /\ x + 1 \in DOMAIN quads
  BY <1>2, <1>4
<1>6. \A j \in DOMAIN ctx : \A x \in Continues(ctx)[j] : x \in Nat /\ x + 1 \in DOMAIN quads
  BY <1>2, <1>4
<1> QED BY <1>5, <1>6 DEF ListsOf

\* The lists of the frames after a step: the new one's, and those below.
LEMMA ListsAfter ==
  ASSUME ctx \in Seq(FrameType), NEW n, NEW g, Replaced(ctx, ctx', n, g)
  PROVE  LET m == Len(ctx')
         IN  /\ Breaks(ctx')[m] = ToSet(g.b) /\ Continues(ctx')[m] = ToSet(g.c)
             /\ \A i \in DOMAIN ctx' : i # m => /\ Breaks(ctx')[i] = Breaks(ctx)[i]
                                                /\ Continues(ctx')[i] = Continues(ctx)[i]
<1> DEFINE m == Len(ctx')
<1>1. /\ m \in DOMAIN ctx' /\ ctx'[m] = g
      /\ \A i \in DOMAIN ctx' : i # m => i \in DOMAIN ctx /\ ctx'[i] = ctx[i]
  <2>1. /\ m \in Nat \ {0} /\ DOMAIN ctx' = 1..m /\ ctx'[m] = g
        /\ \A i \in DOMAIN ctx' : i # m => i \in DOMAIN ctx /\ ctx'[i] = ctx[i]
    BY Shifted
  <2> QED BY <2>1
<1> HIDE DEF m
<1>2. /\ \A i \in DOMAIN ctx' : /\ Breaks(ctx')[i] = ToSet(ctx'[i].b)
                                /\ Continues(ctx')[i] = ToSet(ctx'[i].c)
      /\ \A i \in DOMAIN ctx : /\ Breaks(ctx)[i] = ToSet(ctx[i].b)
                               /\ Continues(ctx)[i] = ToSet(ctx[i].c)
  BY NoLists
<1>3. Breaks(ctx')[m] = ToSet(g.b) /\ Continues(ctx')[m] = ToSet(g.c)
  BY <1>1, <1>2
<1>4. \A i \in DOMAIN ctx' : i # m => /\ Breaks(ctx')[i] = Breaks(ctx)[i]
                                      /\ Continues(ctx')[i] = Continues(ctx)[i]
  BY <1>1, <1>2
<1> QED BY <1>3, <1>4 DEF m

\* Every step goes on delivering.
LEMMA DeliveredStep ==
  ASSUME Nested, Ledgered, Delivered(ctx, quads), Moves
  PROVE  Delivered(ctx', quads')
<1>1. CASE Rests
  BY <1>1, Zenon DEF Rests
<1>2. ASSUME Relayed PROVE Delivered(ctx', quads')
  <2>1. PICK n, S : \E g \in FrameType :
          /\ Replaced(ctx, ctx', n, g) /\ Emits(quads, quads', S)
          /\ g.kind \in LoopBodies \union {"if_then", "func"} => Listless(g)
          /\ g.kind \in LoopBodies => g.q[1] = Len(quads)
          /\ Relays(Breaks(ctx), ToSet(g.b), "break")
          /\ Relays(Continues(ctx), ToSet(g.c), "continue")
    BY <1>2, Zenon DEF Relayed
  <2>2. PICK g \in FrameType :
          /\ Replaced(ctx, ctx', n, g) /\ Emits(quads, quads', S)
          /\ g.kind \in LoopBodies \union {"if_then", "func"} => Listless(g)
          /\ g.kind \in LoopBodies => g.q[1] = Len(quads)
          /\ Relays(Breaks(ctx), ToSet(g.b), "break")
          /\ Relays(Continues(ctx), ToSet(g.c), "continue")
    BY <2>1, Zenon
  <2>3. ctx \in Seq(FrameType) /\ quads \in Seq(QuadType)
    BY <2>2, PlacesAre
  <2>4. /\ Breaks(ctx')[Len(ctx')] = ToSet(g.b)
        /\ Continues(ctx')[Len(ctx')] = ToSet(g.c)
        /\ \A i \in DOMAIN ctx' : i # Len(ctx') => Breaks(ctx')[i] = Breaks(ctx)[i]
        /\ \A i \in DOMAIN ctx' : i # Len(ctx') => Continues(ctx')[i] = Continues(ctx)[i]
    BY <2>2, <2>3, ListsAfter
  <2>5. ListsOf(Breaks(ctx), ctx, quads) /\ ListsOf(Continues(ctx), ctx, quads)
    BY ListsAreOfQuads
  <2>6. /\ Sent(Breaks(ctx), ctx, quads, "break") /\ Heard(Breaks(ctx), ctx, quads, "break")
        /\ Sent(Continues(ctx), ctx, quads, "continue")
        /\ Heard(Continues(ctx), ctx, quads, "continue")
    BY DEF Delivered
  <2>7. Sent(Breaks(ctx'), ctx', quads', "break")
    BY <2>2, <2>3, <2>4, <2>5, <2>6, SentStep
  <2>8. Sent(Continues(ctx'), ctx', quads', "continue")
    BY <2>2, <2>3, <2>4, <2>5, <2>6, SentStep
  <2>9. /\ g.kind \in LoopBodies => ToSet(g.b) = {} /\ g.q[1] = Len(quads)
        /\ g.kind \in LoopBodies => ToSet(g.c) = {} /\ g.q[1] = Len(quads)
    BY <2>2, NoLists
  <2>10. Heard(Breaks(ctx'), ctx', quads', "break")
    BY <2>2, <2>3, <2>4, <2>6, <2>9, HeardStep
  <2>11. Heard(Continues(ctx'), ctx', quads', "continue")
    BY <2>2, <2>3, <2>4, <2>6, <2>9, HeardStep
  <2>12. HeadsBare(ctx')
    <3>1. /\ ctx'[Len(ctx')] = g
          /\ \A i \in DOMAIN ctx' : i # Len(ctx') => i \in DOMAIN ctx /\ ctx'[i] = ctx[i]
      BY <2>2, <2>3, Shifted
    <3>2. \A i \in DOMAIN ctx :
            ctx[i].kind \in LoopBodies \union {"if_then", "func"} => Listless(ctx[i])
      BY DEF Delivered, HeadsBare
    <3> DEFINE K == LoopBodies \union {"if_then", "func"}
    <3>3. /\ g.kind \in K => Listless(g)
          /\ \A i \in DOMAIN ctx : ctx[i].kind \in K => Listless(ctx[i])
      BY <2>2, <3>2
    <3> HIDE DEF K
    <3>4. \A i \in DOMAIN ctx' : ctx'[i].kind \in K => Listless(ctx'[i])
      BY <3>1, <3>3, Zenon
    <3> QED BY <3>4 DEF HeadsBare, K
  <2> QED BY <2>7, <2>8, <2>10, <2>11, <2>12 DEF Delivered
<1>3. HeadsBare(ctx)
  BY DEF Delivered
<1> QED BY <1>1, <1>2, <1>3, MoveRelayed

-----------------------------------------------------------------------------
(* The stack of loops and function blocks, and jumps that would be forgotten *)

\* A frame that has lists is inside a loop.
Looped(cx) == \A i \in DOMAIN cx : LoopOf(cx, i) = 0 => Listless(cx[i])

\* Until a "for" has ended, the stack mirrors the nest, and every jump is owed.
Traced ==
  NoForEnded => /\ Tracks(block_stack, ctx) /\ Looped(ctx)
                /\ Covers(ctx, entries, quads)

\* Jumps out of loops are accepted only inside of one, as long as the stack
\* mirrors the nest.
LEMMA InsideLoop ==
  ASSUME Nested, block_stack \in Seq(Marks), Tracks(block_stack, ctx),
         block_stack # <<>>, Last(block_stack) = "LOOP"
  PROVE  CurrentLoop # 0
<1>1. ctx \in Seq(FrameType)
  <2>1. Shaped(ctx)
    BY NestedTypes
  <2> QED BY <2>1 DEF Shaped
<1>2. /\ Around(ctx) # {} /\ Max(Around(ctx)) \in Around(ctx)
      /\ Last(block_stack) = Mark(ctx[Max(Around(ctx))].kind)
  BY <1>1, TracksTop
<1>3. ctx[Max(Around(ctx))].kind # "body"
  BY <1>2 DEF Mark
<1>4. CurrentLoop = Max(Around(ctx))
  BY <1>2, <1>3 DEF CurrentLoop
<1>5. Around(ctx) \subseteq 1..Len(ctx)
  BY <1>1, AroundIs
<1>6. Max(Around(ctx)) # 0
  BY <1>2, <1>5
<1> QED BY <1>4, <1>6

\* So only frames inside a loop get lists.
LEMMA LoopedStep ==
  ASSUME Nested, Relayed, Looped(ctx), block_stack \in Seq(Marks),
         Tracks(block_stack, ctx)
  PROVE  Looped(ctx')
<1>1. PICK n, S : \E g \in FrameType :
        /\ Replaced(ctx, ctx', n, g)
        /\ Relays(Breaks(ctx), ToSet(g.b), "break")
        /\ Relays(Continues(ctx), ToSet(g.c), "continue")
  BY Zenon DEF Relayed
<1>2. PICK g \in FrameType :
        /\ Replaced(ctx, ctx', n, g)
        /\ Relays(Breaks(ctx), ToSet(g.b), "break")
        /\ Relays(Continues(ctx), ToSet(g.c), "continue")
  BY <1>1, Zenon
<1>3. ctx \in Seq(FrameType)
  BY <1>2, PlacesAre
<1> DEFINE m == Len(ctx')
<1>4. /\ m \in Nat \ {0} /\ ctx'[m] = g /\ DOMAIN ctx' = 1..m
      /\ \A i \in DOMAIN ctx' : i # m => i < m /\ i \in DOMAIN ctx /\ ctx'[i] = ctx[i]
      /\ \A p \in 0..(m - 1) : LoopOf(ctx', p) = LoopOf(ctx, p)
  BY <1>2, <1>3, Shifted
<1>5. block_stack # <<>> /\ Last(block_stack) = "LOOP" => CurrentLoop # 0
  BY InsideLoop
<1>6. \A i \in DOMAIN ctx : LoopOf(ctx, i) = 0 => Breaks(ctx)[i] = {} /\ Continues(ctx)[i] = {}
  BY NoLists DEF Looped
<1>7. ASSUME LoopOf(ctx', m) = 0 PROVE Listless(g)
  <2>1. \A x \in ToSet(g.b) : FALSE
    BY <1>2, <1>5, <1>6, <1>7 DEF Relays
  <2>2. \A x \in ToSet(g.c) : FALSE
    BY <1>2, <1>5, <1>6, <1>7 DEF Relays
  <2> QED BY <2>1, <2>2 DEF Listless
<1> HIDE DEF m
<1>8. ASSUME NEW i \in DOMAIN ctx', LoopOf(ctx', i) = 0 PROVE Listless(ctx'[i])
  <2>1. CASE i = m
    BY <1>4, <1>7, <1>8, <2>1
  <2>2. CASE i # m
    <3>1. i \in DOMAIN ctx /\ ctx'[i] = ctx[i] /\ i \in 0..(m - 1)
      BY <1>4, <2>2
    <3>2. LoopOf(ctx, i) = 0
      BY <1>4, <1>8, <3>1
    <3> QED BY <3>1, <3>2 DEF Looped
  <2> QED BY <2>1, <2>2
<1> QED BY <1>8 DEF Looped

\* The loops and bodies around the point a step reaches.
LEMMA AroundAfter ==
  ASSUME Nested, NEW n, NEW g, Replaced(ctx, ctx', n, g),
         NEW gone, gone = {i \in Around(ctx) : i >= Len(ctx')}
  PROVE  /\ (gone = {} /\ g.kind \notin Marked) => SameMarks(ctx, ctx')
         /\ (gone = {} /\ g.kind \in Marked) => MarkAdded(ctx, ctx', Len(ctx'))
         /\ (gone = {Len(ctx')} /\ g.kind = "body" /\ ctx[Len(ctx')].kind = "body")
              => SameMarks(ctx, ctx')
         /\ (gone = {Len(ctx')} /\ g.kind \notin Marked)
              => MarkAdded(ctx', ctx, Len(ctx'))
<1> DEFINE m == Len(ctx')
           below == {i \in Around(ctx) : i < m}
<1>1. /\ ctx \in Seq(FrameType) /\ DOMAIN ctx = 1..Len(ctx) /\ Len(ctx) \in Nat
  BY PlacesAre
<1>2. /\ m \in Nat \ {0} /\ ctx'[m] = g
      /\ \A i \in DOMAIN ctx' : i # m => i < m /\ i \in DOMAIN ctx /\ ctx'[i] = ctx[i]
      /\ \A i \in DOMAIN ctx : i < m => i \in DOMAIN ctx'
      /\ Around(ctx') = below \union (IF g.kind \in Marked THEN {m} ELSE {})
  BY <1>1, Shifted
<1>3. \A i \in Around(ctx) : i \in DOMAIN ctx /\ i \in Nat
  BY <1>1 DEF Around
<1> HIDE DEF m
<1>4. \A i \in below : i \in DOMAIN ctx' /\ i < m /\ i # m /\ ctx'[i] = ctx[i]
  BY <1>2, <1>3
<1>5. Around(ctx) = below \union gone /\ below \intersect gone = {}
  BY <1>2, <1>3 DEF m
<1> HIDE DEF below
<1>6. "body" \in Marked
  BY DEF Marked
<1>7. gone = {} /\ g.kind \notin Marked => SameMarks(ctx, ctx')
  BY <1>2, <1>4, <1>5 DEF SameMarks
<1>8. gone = {} /\ g.kind \in Marked => MarkAdded(ctx, ctx', m)
  BY <1>2, <1>4, <1>5 DEF MarkAdded
<1>9. (gone = {m} /\ g.kind = "body" /\ ctx[m].kind = "body") => SameMarks(ctx, ctx')
  BY <1>2, <1>4, <1>5, <1>6 DEF SameMarks
<1>10. gone = {m} /\ g.kind \notin Marked => MarkAdded(ctx', ctx, m)
  BY <1>2, <1>4, <1>5 DEF MarkAdded
<1> QED BY <1>7, <1>8, <1>9, <1>10 DEF m

\* The stack stays a stack of marks.
LEMMA StackIs ==
  ASSUME block_stack \in Seq(Marks), Moves
  PROVE  block_stack' \in Seq(Marks)
<1>1. \A s \in Seq(Marks) : s # <<>> => SubSeq(s, 1, Len(s) - 1) \in Seq(Marks)
  OBVIOUS
<1>2. stack_pop(block_stack) \in Seq(Marks)
  BY <1>1 DEF stack_pop, Front
<1>3. \A s \in Seq(Marks), x \in Marks : Append(s, x) \in Seq(Marks)
  OBVIOUS
<1>4. "LOOP" \in Marks /\ "FUNC_BLOCK" \in Marks
  BY DEF Marks
<1>5. \/ UNCHANGED block_stack \/ block_stack' = Append(block_stack, "LOOP")
      \/ block_stack' = Append(block_stack, "FUNC_BLOCK")
      \/ block_stack' = stack_pop(block_stack)
  BY Zenon DEF Moves, Rests, Pushes, EntersLoop, EntersBody, JumpsOut, Joins, LeavesLoop,
               LeavesBody
<1> QED BY <1>2, <1>3, <1>4, <1>5

\* What a "for" has left behind stays in the quads.
LEMMA ForsStay ==
  ASSUME Nested, Moves, NoForEnded'
  PROVE  NoForEnded
<1>1. ASSUME NEW S, Emits(quads, quads', S) PROVE NoForEnded
  <2>1. \A i \in DOMAIN quads : i \in DOMAIN quads' /\ quads'[i].why = quads[i].why
    <3>1. /\ quads' \in Seq(QuadType) /\ Len(quads) <= Len(quads')
          /\ \A i \in DOMAIN quads : quads'[i].why = quads[i].why
      BY <1>1 DEF Emits
    <3>2. quads \in Seq(QuadType)
      BY NestedTypes
    <3>3. Len(quads) \in Nat /\ Len(quads') \in Nat
      BY <3>1, <3>2
    <3>4. DOMAIN quads = 1..Len(quads) /\ DOMAIN quads' = 1..Len(quads')
      BY <3>1, <3>2
    <3> QED BY <3>1, <3>3, <3>4
  <2> QED BY <2>1 DEF NoForEnded
<1>2. ASSUME UNCHANGED quads PROVE NoForEnded
  BY <1>2 DEF NoForEnded
<1>3. ASSUME JumpsOut PROVE NoForEnded
  <2>1. JumpsOut => Relayed
    BY JumpRelayed
  <2>2. \E S : Emits(quads, quads', S)
    BY <1>3, <2>1, Zenon DEF Relayed
  <2> QED BY <1>1, <2>2
<1>4. Pushes \/ EntersLoop \/ Joins \/ LeavesLoop \/ LeavesBody => \E S : Emits(quads, quads', S)
  BY Zenon DEF Pushes, EntersLoop, Joins, LeavesLoop, LeavesBody, Quiet, Returns
<1>5. Rests \/ EntersBody => UNCHANGED quads
  BY DEF Rests, EntersBody
<1> QED BY <1>1, <1>2, <1>3, <1>4, <1>5 DEF Moves

\* As long as no "for" ends, every step moves the stack with the nest.
LEMMA TracksMove ==
  ASSUME Nested, block_stack \in Seq(Marks), Tracks(block_stack, ctx), Moves, NoForEnded'
  PROVE  Tracks(block_stack', ctx')
<1> DEFINE m == Len(ctx')
           gone == {i \in Around(ctx) : i >= Len(ctx')}
<1>1. ctx \in Seq(FrameType) /\ \A i \in Around(ctx) : i \in DOMAIN ctx /\ ctx[i].kind \in Marked
  <2>1. Shaped(ctx)
    BY NestedTypes
  <2> QED BY <2>1 DEF Shaped, Around, Marked
<1>2. \A i \in DOMAIN ctx : ctx[i].kind \in Marked => i \in Around(ctx)
  BY DEF Around, Marked
<1>3. "stmt" \notin Marked /\ "func" \notin Marked /\ "body" \in Marked
  BY DEF Marked, LoopBodies
<1>4. \A k \in LoopBodies : k \in Marked /\ Mark(k) = "LOOP"
  BY DEF Marked, Mark, LoopBodies
<1>5. Mark("body") = "FUNC_BLOCK" /\ "LOOP" \in Marks /\ "FUNC_BLOCK" \in Marks
  BY DEF Mark, Marks
<1>6. ASSUME SameMarks(ctx, ctx'), UNCHANGED block_stack
      PROVE  Tracks(block_stack', ctx')
  BY <1>6, TracksSame
<1>7. ASSUME NEW g, Replaced(ctx, ctx', 0, g) PROVE gone = {}
  BY <1>1, <1>7, PlacesAre
<1>8. ASSUME NEW g, Replaced(ctx, ctx', 1, g), g.kind \notin Marked \/ Top.kind = "func"
      PROVE  gone = IF Top.kind \in Marked THEN {m} ELSE {}
  <2>1. /\ m = Len(ctx) /\ Len(ctx) \in DOMAIN ctx /\ Top = ctx[Len(ctx)]
        /\ Len(ctx) \in Nat
        /\ \A i \in DOMAIN ctx : i >= m => i = Len(ctx)
    BY <1>8, PlacesAre
  <2>2. m >= m
    BY <2>1
  <2>3. \A i : i \in gone <=> i \in Around(ctx) /\ i >= m
    OBVIOUS
  <2> HIDE DEF m, gone
  <2> QED BY <1>1, <1>2, <2>1, <2>2, <2>3
<1>9. CASE Rests
  BY <1>9 DEF Rests
<1>10. CASE Pushes
  <2>1. PICK g \in FrameType : Replaced(ctx, ctx', 0, g) /\ g.kind \notin Marked
    BY <1>10 DEF Pushes
  <2>2. SameMarks(ctx, ctx')
    BY <1>7, <2>1, AroundAfter
  <2> QED BY <1>6, <1>10, <2>2 DEF Pushes
<1>11. CASE EntersLoop
  <2>1. PICK g \in FrameType : Replaced(ctx, ctx', 0, g) /\ g.kind \in LoopBodies
    BY <1>11 DEF EntersLoop
  <2>2. MarkAdded(ctx, ctx', m)
    BY <1>4, <1>7, <2>1, AroundAfter
  <2>3. ctx'[m] = g
    BY <2>1 DEF Replaced
  <2>4. "LOOP" = Mark(ctx'[m].kind)
    BY <1>4, <2>1, <2>3
  <2>5. block_stack' = Append(block_stack, "LOOP")
    BY <1>11 DEF EntersLoop
  <2> HIDE DEF m
  <2>6. Tracks(Append(block_stack, "LOOP"), ctx')
    BY <1>1, <1>5, <2>2, <2>4, TracksPush
  <2> QED BY <2>5, <2>6
<1>12. CASE EntersBody
  <2>1. PICK g \in FrameType : Replaced(ctx, ctx', 1, g) /\ g.kind = "body"
    BY <1>12 DEF EntersBody
  <2>2. Top.kind = "func"
    BY <1>12 DEF EntersBody
  <2>3. gone = {}
    BY <1>3, <1>8, <2>1, <2>2
  <2>4. MarkAdded(ctx, ctx', m)
    BY <1>3, <2>1, <2>3, AroundAfter
  <2>5. ctx'[m] = g
    BY <2>1 DEF Replaced
  <2>6. "FUNC_BLOCK" = Mark(ctx'[m].kind)
    BY <1>5, <2>1, <2>5
  <2>7. block_stack' = Append(block_stack, "FUNC_BLOCK")
    BY <1>12 DEF EntersBody
  <2> HIDE DEF m
  <2>8. Tracks(Append(block_stack, "FUNC_BLOCK"), ctx')
    BY <1>1, <1>5, <2>4, <2>6, TracksPush
  <2> QED BY <2>7, <2>8
<1>13. CASE JumpsOut
  <2>1. PICK g \in FrameType : Replaced(ctx, ctx', 0, g) /\ g.kind = "stmt"
    BY <1>13 DEF JumpsOut
  <2>2. SameMarks(ctx, ctx')
    BY <1>3, <1>7, <2>1, AroundAfter
  <2> QED BY <1>6, <1>13, <2>2 DEF JumpsOut
<1>14. CASE Joins
  <2>1. PICK n \in {1, 2}, g \in FrameType :
          /\ Joined(n, g) /\ g.kind \notin LoopBodies \union {"if_then", "func"}
          /\ ctx[Len(ctx) - n + 1].kind \notin LoopBodies
          /\ (g.kind = "body") <=> (ctx[Len(ctx) - n + 1].kind = "body")
    BY <1>14 DEF Joins
  <2>2. Replaced(ctx, ctx', n, g) /\ (n = 2 => Top.kind = "stmt")
    <3>1. Joined(n, g)
      BY <2>1
    <3> QED BY <3>1 DEF Joined
  <2>3. /\ m = Len(ctx) - n + 1 /\ Top = ctx[Len(ctx)]
        /\ Len(ctx) \in Nat /\ Len(ctx) \in DOMAIN ctx
        /\ n = 1 => m = Len(ctx) /\ \A i \in DOMAIN ctx : i >= m => i = Len(ctx)
        /\ n = 2 => /\ m = Len(ctx) - 1 /\ Len(ctx) - 1 \in DOMAIN ctx
                    /\ \A i \in DOMAIN ctx : i >= m => i = Len(ctx) \/ i = Len(ctx) - 1
    BY <2>1, <2>2, PlacesAre
  <2>4. \A i : i \in gone <=> i \in Around(ctx) /\ i >= m
    OBVIOUS
  <2>5. g.kind \in Marked <=> g.kind = "body"
    BY <2>1 DEF Marked
  <2>6. ctx[m].kind \in Marked <=> ctx[m].kind = "body"
    BY <2>1, <2>3 DEF Marked
  <2>7. (g.kind = "body") <=> (ctx[m].kind = "body")
    BY <2>1, <2>3
  <2>8. m \in DOMAIN ctx /\ m >= m /\ \A i \in Around(ctx) : i >= m => i = m
    <3>1. CASE n = 1
      BY <1>1, <2>3, <3>1
    <3>2. CASE n = 2
      BY <1>1, <1>3, <2>2, <2>3, <3>2
    <3> QED BY <2>1, <3>1, <3>2
  <2> HIDE DEF gone
  <2>9. gone = IF ctx[m].kind = "body" THEN {m} ELSE {}
    <3> HIDE DEF m
    <3> QED BY <1>1, <1>2, <2>4, <2>6, <2>8
  <2>10. SameMarks(ctx, ctx')
    BY <2>2, <2>5, <2>7, <2>9, AroundAfter DEF gone
  <2> QED BY <1>6, <1>14, <2>10 DEF Joins
<1>15. CASE LeavesLoop
  <2>1. PICK g \in FrameType : Replaced(ctx, ctx', 2, g) /\ g.kind = "stmt"
    BY <1>15 DEF LeavesLoop
  <2>2. Top.kind = "stmt" /\ Below.kind \in LoopBodies /\ Below = ctx[Len(ctx) - 1]
    BY <1>15 DEF LeavesLoop, Below
  <2>3. /\ m = Len(ctx) - 1 /\ Top = ctx[Len(ctx)] /\ Len(ctx) \in Nat
        /\ Len(ctx) - 1 \in DOMAIN ctx /\ Len(ctx) \in DOMAIN ctx
        /\ \A i \in DOMAIN ctx : i >= m => i = Len(ctx) \/ i = Len(ctx) - 1
    BY <2>1, PlacesAre
  <2>4. \A i : i \in gone <=> i \in Around(ctx) /\ i >= m
    OBVIOUS
  <2>5. m \in Around(ctx) /\ m >= m /\ Len(ctx) \notin Around(ctx)
    BY <1>1, <1>2, <1>3, <1>4, <2>2, <2>3
  <2> HIDE DEF gone
  <2>6. gone = {m}
    <3> HIDE DEF m
    <3> QED BY <1>1, <2>3, <2>4, <2>5
  <2>7. MarkAdded(ctx', ctx, m)
    BY <1>3, <2>1, <2>6, AroundAfter DEF gone
  <2>8. block_stack' = stack_pop(block_stack)
    BY <1>15 DEF LeavesLoop, NoForEnded
  <2>9. ctx' \in Seq(FrameType)
    BY <2>1 DEF Replaced
  <2> QED BY <2>7, <2>8, <2>9, TracksPop
<1>16. CASE LeavesBody
  <2>1. PICK g \in FrameType : Replaced(ctx, ctx', 1, g) /\ g.kind = "stmt"
    BY <1>16 DEF LeavesBody
  <2>2. Top.kind = "body"
    BY <1>16 DEF LeavesBody
  <2>3. gone = {m}
    BY <1>3, <1>8, <2>1, <2>2
  <2>4. MarkAdded(ctx', ctx, m)
    BY <1>3, <2>1, <2>3, AroundAfter
  <2>5. block_stack' = stack_pop(block_stack)
    BY <1>16 DEF LeavesBody
  <2>6. ctx' \in Seq(FrameType)
    BY <2>1 DEF Replaced
  <2> QED BY <2>4, <2>5, <2>6, TracksPop
<1> QED BY <1>9, <1>10, <1>11, <1>12, <1>13, <1>14, <1>15, <1>16 DEF Moves

\* Every step keeps the stack and the jumps in view.
LEMMA TracedStep ==
  ASSUME Nested, Ledgered, Delivered(ctx, quads), block_stack \in Seq(Marks), Traced,
         [Next]_vars
  PROVE  Traced' /\ block_stack' \in Seq(Marks) /\ Delivered(ctx', quads')
<1>1. Moves
  BY EveryMove
<1>2. HeadsBare(ctx)
  BY DEF Delivered
<1>3. ASSUME NoForEnded'
      PROVE  Tracks(block_stack', ctx') /\ Looped(ctx') /\ Covers(ctx', entries', quads')
  <2>1. NoForEnded
    BY <1>1, <1>3, ForsStay
  <2>2. Tracks(block_stack, ctx) /\ Looped(ctx) /\ Covers(ctx, entries, quads)
    BY <2>1 DEF Traced
  <2>3. Tracks(block_stack', ctx')
    BY <1>1, <1>3, <2>2, TracksMove
  <2>4. Looped(ctx')
    <3>1. CASE Rests
      BY <2>2, <3>1 DEF Rests
    <3>2. CASE Relayed
      BY <2>2, <3>2, LoopedStep
    <3> QED BY <1>1, <1>2, <3>1, <3>2, MoveRelayed
  <2>5. Bare(ctx)
    <3>1. ctx \in Seq(FrameType)
      <4>1. Shaped(ctx)
        BY NestedTypes
      <4> QED BY <4>1 DEF Shaped
    <3>2. ASSUME NEW i \in DOMAIN ctx, ctx[i].kind = "body" PROVE Listless(ctx[i])
      <4>1. i \in 0..Len(ctx) /\ i # 0
        BY <3>1
      <4>2. "body" \notin LoopBodies
        BY DEF LoopBodies
      <4>3. LoopOf(ctx, i) = 0
        BY <3>1, <3>2, <4>1, <4>2, LoopOfIs
      <4> QED BY <2>2, <4>3 DEF Looped
    <3> QED BY <1>2, <3>2 DEF Bare, HeadsBare
  <2>6. CoverKept
    BY LedgeredStep
  <2>7. Covers(ctx', entries', quads')
    BY <2>2, <2>5, <2>6 DEF CoverKept
  <2> QED BY <2>3, <2>4, <2>7
<1>4. Traced'
  BY <1>3 DEF Traced
<1> QED BY <1>1, <1>4, StackIs, DeliveredStep

\* When a program has been accepted, the input is all that is left.
Finished == status = "done" => Top.kind = "program"

\* Only the end of the input ends a program.
LEMMA FinishedStep ==
  ASSUME Finished, [Next]_vars
  PROVE  Finished'
<1>1. ASSUME UNCHANGED vars PROVE Finished'
  BY <1>1 DEF vars, Finished, Top
<1>2. ASSUME program PROVE Finished'
  BY <1>2 DEF program, Finished, Top
<1>3. ASSUME return PROVE status' # "done"
  BY <1>3 DEF return, Start, AtStatement
<1>4. ASSUME \/ all_statements \/ empty_statement \/ block_open \/ block_close
             \/ function_arguments \/ function_definition
             \/ if_without_else \/ else_prefix \/ if_else \/ while_statement
             \/ for_statement
      PROVE  status' # "done"
  BY <1>4 DEF all_statements, empty_statement, block_open, block_close,
              function_arguments, function_definition, if_without_else, else_prefix,
              if_else, while_statement, for_statement, Start, AtStatement,
              AfterStatement, ControlDone
<1>5. ASSUME NEW n, UseVariable(n) \/ LocalVariable(n) \/ GlobalVariable(n)
                      \/ Assignment(n) \/ formal(n)
      PROVE  status' # "done"
  BY <1>5 DEF UseVariable, LocalVariable, GlobalVariable, Assignment, formal, Start,
              AtStatement, ExpressionDone
<1>6. ASSUME NEW n, NEW named, function_prefix(n, named)
      PROVE  status' # "done"
  BY <1>6 DEF function_prefix, Start, AtStatement
<1>7. ASSUME NEW code, NEW step, if_prefix(code) \/ while_start(code) \/ for_prefix(code, step)
      PROVE  status' # "done"
  BY <1>7 DEF if_prefix, while_start, for_prefix, Start, AtStatement, ControlDone
<1>8. ASSUME NEW kind, break_or_continue(kind)
      PROVE  status' # "done"
  BY <1>8 DEF break_or_continue, Start, AtStatement
<1>9. status' # "done" => Finished'
  BY DEF Finished
<1> QED
  BY <1>1, <1>2, <1>3, <1>4, <1>5, <1>6, <1>7, <1>8, <1>9 DEF Next, Terminated

\* When the parser is back at the input, no function is open and nothing else is
\* on its stack.
LEMMA AtTheEnd ==
  ASSUME Nested, Top.kind = "program"
  PROVE  DOMAIN ctx = {1} /\ ctx[1] = Top /\ Open(entries) = {}
<1>1. Shaped(ctx) /\ Mirrors(entries, current_scope, ctx)
  BY DEF Nested, Stacked
<1>2. /\ ctx \in Seq(FrameType) /\ Len(ctx) > 0
      /\ \A i \in 2..Len(ctx) : ctx[i].kind # "program"
  BY <1>1 DEF Shaped
<1>3. Len(ctx) \in Nat \ {0} /\ DOMAIN ctx = 1..Len(ctx)
  BY <1>2
<1>4. Top = ctx[Len(ctx)]
  BY <1>2 DEF Top, Last
<1>5. Len(ctx) = 1
  BY <1>2, <1>3, <1>4
<1>6. DOMAIN ctx = {1} /\ ctx[1] = Top
  BY <1>3, <1>4, <1>5
<1>7. Defining(ctx) = {}
  BY <1>6 DEF Defining
<1>8. Open(entries) = {}
  BY <1>1, <1>7 DEF Mirrors, Open
<1> QED BY <1>6, <1>8

-----------------------------------------------------------------------------
(* Returns *)

\* A return from an open function is in its list, behind the jump over it.
Returning(es, qs) ==
  \A f \in Open(es), i \in DOMAIN qs :
    (i > es[f].taddress /\ qs[i].why = "return" /\ qs[i].at = f) =>
      i - 1 \in ToSet(Tail(es[f].address_list))

\* A label that is inserted behind the first is among those behind the first.
LEMMA InsertTail ==
  ASSUME NEW l \in Seq(Nat), l # <<>>, IsInjective(l), NEW x \in Nat, x \notin ToSet(l)
  PROVE  ToSet(Tail(InsertAt(l, 2, x))) = ToSet(Tail(l)) \union {x}
<1> DEFINE r == InsertAt(l, 2, x)
<1>1. r \in Seq(Nat) /\ IsInjective(r) /\ ToSet(r) = ToSet(l) \union {x}
  BY InsertOnce
<1>2. r # <<>>
  BY InsertIs
<1>3. Head(r) = Head(l)
  <2> DEFINE n == Len(l) + 1
             at(j) == IF j < 2 THEN l[j] ELSE IF j = 2 THEN x ELSE l[j - 1]
  <2>1. r = [j \in 1..n |-> at(j)]
    BY DEF InsertAt
  <2>2. 1 \in 1..n
    BY EmptySeq
  <2>3. r[1] = l[1]
    BY <2>1, <2>2
  <2> HIDE DEF r
  <2>4. Head(r) = r[1] /\ Head(l) = l[1]
    BY <1>1, <1>2, HeadTailProperties
  <2> QED BY <2>3, <2>4
<1> HIDE DEF r
<1>4. ToSet(r) = {Head(r)} \union ToSet(Tail(r)) /\ Head(r) \notin ToSet(Tail(r))
  BY <1>1, <1>2, SplitOnce
<1>5. ToSet(l) = {Head(l)} \union ToSet(Tail(l)) /\ Head(l) \notin ToSet(Tail(l))
  BY SplitOnce
<1>6. x # Head(l)
  BY <1>5
<1>7. ToSet(Tail(r)) = ToSet(r) \ {Head(r)}
  BY <1>4
<1> QED BY <1>1, <1>3, <1>5, <1>6, <1>7 DEF r

\* The functions that are open were open, and their lists are what they were.
StillOpen ==
  \A f \in Open(entries') : /\ f \in Open(entries)
                            /\ entries'[f].address_list = entries[f].address_list
                            /\ entries'[f].taddress = entries[f].taddress

\* Only a return, and a function name, change the open functions.
LEMMA OpenStays ==
  ASSUME Nested, \/ Steady \/ (\E n \in Var : formal(n)) \/ block_open \/ block_close
                 \/ function_arguments \/ function_definition \/ UNCHANGED vars
  PROVE  StillOpen
<1>1. entries \in Seq(EntryType)
  BY DEF Nested, Ordered
<1>2. OpenKept => StillOpen
  BY DEF OpenKept, StillOpen
<1>3. CASE Steady
  BY <1>2, <1>3, SteadyOpen
<1>4. CASE (\E n \in Var : formal(n)) \/ block_open \/ UNCHANGED vars
  <2>1. UNCHANGED entries
    BY <1>4 DEF formal, block_open, vars, tables
  <2> QED BY <1>2, <2>1, SameOpen
<1>5. CASE block_close
  <2>1. Top.kind = "block" /\ entries' = Sym!Deactivate(entries, current_scope)
    BY <1>5 DEF block_close
  <2>2. current_scope \in Nat
    BY <2>1, CurrentIs
  <2> QED BY <1>1, <2>1, <2>2, HiddenIs DEF StillOpen, Open
<1>6. CASE function_arguments
  <2>1. Top.kind = "func"
    BY <1>6 DEF function_arguments
  <2>2. /\ \A k \in DOMAIN entries : entries'[k] = entries[k]
        /\ \A k \in DOMAIN entries' : k \notin DOMAIN entries => ~entries'[k].func_is_open
    BY <1>6, <2>1, FormalsPut DEF Binds
  <2> QED BY <2>2 DEF StillOpen, Open
<1>7. CASE function_definition
  <2> DEFINE f == Top.q[1]
  <2>1. /\ Hides(entries, entries', f)
        /\ \A k \in DOMAIN entries : /\ entries'[k].address_list = entries[k].address_list
                                     /\ entries'[k].taddress = entries[k].taddress
    BY <1>7, BodyCloses
  <2>2. f \in DOMAIN entries
    BY <1>7, ClosingIs DEF function_definition
  <2> HIDE DEF f
  <2>3. /\ DOMAIN entries' = DOMAIN entries /\ ~entries'[f].func_is_open
        /\ \A k \in DOMAIN entries : k # f =>
             entries'[k].func_is_open = entries[k].func_is_open
    BY <2>1, <2>2 DEF Hides
  <2> QED BY <2>1, <2>2, <2>3 DEF StillOpen, Open
<1> QED BY <1>3, <1>4, <1>5, <1>6, <1>7

\* Only a return emits one.
LEMMA NoReturn ==
  ASSUME Nested, Moves, ~return
  PROVE  \E S : Emits(quads, quads', S) /\ "return" \notin S
<1>1. quads \in Seq(QuadType)
  BY NestedTypes
<1>2. ASSUME UNCHANGED quads PROVE \E S : Emits(quads, quads', S) /\ "return" \notin S
  <2> DEFINE S == {""}
  <2>1. Emits(quads, quads, S)
    BY <1>1, EmitsSelf
  <2>2. "return" \notin S
    OBVIOUS
  <2> HIDE DEF S
  <2> QED BY <1>2, <2>1, <2>2
<1>3. CASE Rests \/ EntersBody
  BY <1>2, <1>3 DEF Rests, EntersBody
<1>4. CASE Pushes \/ EntersLoop \/ Joins \/ LeavesLoop
  <2>1. Quiet
    BY <1>4 DEF Pushes, EntersLoop, Joins, LeavesLoop, Returns
  <2>2. "return" \notin {"", "for"}
    OBVIOUS
  <2> QED BY <2>1, <2>2 DEF Quiet
<1>5. CASE LeavesBody
  <2>1. "return" \notin {""}
    OBVIOUS
  <2> QED BY <1>5, <2>1 DEF LeavesBody
<1>6. CASE JumpsOut
  <2>1. PICK kind \in {"break", "continue"} : quads' = Append(quads, Owed(kind, CurrentLoop))
    BY <1>6 DEF JumpsOut
  <2> DEFINE S == {kind}
             q == Owed(kind, CurrentLoop)
  <2>2. q \in QuadType /\ q.why \in S /\ "return" \notin S
    BY <2>1, QuadIs, CurrentLoopIs, ReasonsAre
  <2>3. Emits(quads, quads, S)
    BY <1>1, EmitsSelf
  <2> HIDE DEF S, q
  <2>4. Emits(quads, Append(quads, q), S)
    BY <1>1, <2>2, <2>3, EmitsOne
  <2> QED BY <2>1, <2>2, <2>4 DEF q
<1> QED BY <1>3, <1>4, <1>5, <1>6 DEF Moves

\* So the other steps leave the lists of returns.
LEMMA ReturningKept ==
  ASSUME quads \in Seq(QuadType), Returning(entries, quads), StillOpen,
         NEW S, Emits(quads, quads', S), "return" \notin S
  PROVE  Returning(entries', quads')
<1>1. /\ quads' \in Seq(QuadType)
      /\ \A i \in DOMAIN quads : quads'[i].why = quads[i].why /\ quads'[i].at = quads[i].at
      /\ \A i \in DOMAIN quads' : i > Len(quads) => quads'[i].why # "return"
  BY DEF Emits
<1>2. \A i \in DOMAIN quads' : i > Len(quads) \/ i \in DOMAIN quads
  <2>1. DOMAIN quads' = 1..Len(quads') /\ Len(quads') \in Nat
    BY <1>1
  <2>2. DOMAIN quads = 1..Len(quads) /\ Len(quads) \in Nat
    OBVIOUS
  <2> QED BY <2>1, <2>2
<1>3. ASSUME NEW f \in Open(entries'), NEW i \in DOMAIN quads',
             i > entries'[f].taddress, quads'[i].why = "return", quads'[i].at = f
      PROVE  i - 1 \in ToSet(Tail(entries'[f].address_list))
  <2>1. i \in DOMAIN quads
    BY <1>1, <1>2, <1>3
  <2>2. quads[i].why = "return" /\ quads[i].at = f
    BY <1>1, <1>3, <2>1
  <2>3. /\ f \in Open(entries) /\ entries'[f].address_list = entries[f].address_list
        /\ entries'[f].taddress = entries[f].taddress
    BY DEF StillOpen
  <2>4. i > entries[f].taddress
    BY <1>3, <2>3
  <2>5. i - 1 \in ToSet(Tail(entries[f].address_list))
    BY <2>1, <2>2, <2>3, <2>4 DEF Returning
  <2> QED BY <2>3, <2>5
<1> QED BY <1>3 DEF Returning

\* A return joins the list of the function it is written in.
LEMMA ReturningReturns ==
  ASSUME Nested, Ledgered, Returning(entries, quads), return
  PROVE  Returning(entries', quads')
<1> DEFINE n == Len(quads)
           f == Sym!OpenFunc(entries, current_scope)
           ret == Quad("ret", 0)
           jump == Owed("return", CurrentFunction)
<1>1. AtStatement /\ Top.kind # "func" /\ entries \in Seq(EntryType)
  BY StartsOutside, LedgerTypes DEF return, Start
<1>2. n \in Nat /\ next_quad = n /\ quads \in Seq(QuadType)
  BY SoundSoFar, NestedTypes DEF next_quad
<1>3. CurrentFunction \in Nat /\ f = CurrentFunction
  BY <1>1, CurrentIs, OpenIsCurrent
<1>4. ret \in QuadType /\ jump \in QuadType /\ ret.why = "" /\ jump.why = "return" /\ jump.at = f
  BY <1>3, QuadIs, ReasonsAre
<1>5. CASE "FUNC_BLOCK" \notin ToSet(block_stack)
  <2> DEFINE S == {""}
  <2>1. quads' = Append(quads, ret) /\ UNCHANGED entries
    BY <1>5 DEF return
  <2>2. StillOpen
    BY <2>1 DEF StillOpen
  <2>3. Emits(quads, quads, S)
    BY <1>2, EmitsSelf
  <2>4. ret.why \in S /\ "return" \notin S
    BY <1>4
  <2> HIDE DEF S, ret
  <2>5. Emits(quads, Append(quads, ret), S)
    BY <1>2, <1>4, <2>3, <2>4, EmitsOne
  <2>6. Emits(quads, quads', S)
    BY <2>1, <2>5
  <2> QED BY <1>2, <2>2, <2>4, <2>6, ReturningKept
<1>6. CASE "FUNC_BLOCK" \in ToSet(block_stack) /\ f = 0
  <2>1. UNCHANGED entries /\ UNCHANGED quads
    BY <1>6 DEF return
  <2> QED BY <2>1 DEF Returning
<1>7. CASE "FUNC_BLOCK" \in ToSet(block_stack) /\ f # 0
  <2> DEFINE x == n + 1
             l == entries[f].address_list
             l2 == InsertAt(l, 2, x)
             es2 == [entries EXCEPT ![f].address_list = l2]
  <2>1. entries' = es2 /\ quads' = quads \o <<ret, jump>>
    BY <1>2, <1>7 DEF return
  <2>2. f \in Open(entries) /\ f \in DOMAIN entries
    BY <1>1, <1>7, CurrentIs, OpenIsCurrent DEF Innermost, Open
  <2>3. entries[f] \in EntryType
    BY <1>1, <2>2, EntriesAre
  <2> HIDE DEF f, n, ret, jump
  <2>4. /\ l \in Seq(Nat) /\ l # <<>> /\ IsInjective(l) /\ ToSet(l) \subseteq Unfilled(quads)
        /\ x \notin Unfilled(quads)
    BY <2>2, FreshIs DEF n
  <2>5. es2[f].taddress = entries[f].taddress
    BY <1>1, <2>2, <2>3 DEF EntryType
  <2>6. \A k \in DOMAIN entries : k # f => es2[k] = entries[k]
    BY <1>1
  <2> HIDE DEF l
  <2>7. x \in Nat /\ x \notin ToSet(l)
    BY <1>2, <2>4
  <2> HIDE DEF x
  <2>8. l2 \in Seq(Nat)
    BY <2>4, <2>7, InsertOnce
  <2>9. ToSet(Tail(l2)) = ToSet(Tail(l)) \union {x}
    BY <2>4, <2>7, InsertTail
  <2> HIDE DEF l2
  <2>10. Open(es2) = Open(entries) /\ es2[f].address_list = l2
    BY <1>1, <2>2, <2>8, ListChanged
  <2> HIDE DEF es2
  <2>11. /\ DOMAIN quads = 1..n /\ DOMAIN quads' = 1..(n + 2)
         /\ \A i \in 1..n : quads'[i] = quads[i]
         /\ quads'[n + 1] = ret /\ quads'[n + 2] = jump
    <3>1. quads \in Seq(QuadType) /\ n = Len(quads) /\ n \in Nat
      BY <1>2 DEF n
    <3>2. quads' = quads \o <<ret, jump>>
      BY <2>1
    <3> QED BY <3>1, <3>2
  <2>12. ASSUME NEW k \in Open(es2), NEW i \in DOMAIN quads',
                i > es2[k].taddress, quads'[i].why = "return", quads'[i].at = k
         PROVE  i - 1 \in ToSet(Tail(es2[k].address_list))
    <3>1. k \in Open(entries) /\ k \in DOMAIN entries
      BY <2>10 DEF Open
    <3>2. es2[k].taddress = entries[k].taddress
      BY <2>5, <2>6, <3>1
    <3>3. ToSet(Tail(entries[k].address_list)) \subseteq ToSet(Tail(es2[k].address_list))
      BY <2>6, <2>9, <2>10, <3>1 DEF l
    <3>4. CASE i \in 1..n
      <4>1. quads[i].why = "return" /\ quads[i].at = k /\ i > entries[k].taddress
            /\ i \in DOMAIN quads
        BY <2>11, <2>12, <3>2, <3>4
      <4> QED BY <3>1, <3>3, <4>1 DEF Returning
    <3>5. CASE i = n + 1
      BY <1>4, <2>11, <2>12, <3>5
    <3>6. CASE i = n + 2
      <4>1. k = f
        BY <1>4, <2>11, <2>12, <3>6
      <4>2. i - 1 = x
        BY <1>2, <3>6 DEF x
      <4> QED BY <2>9, <2>10, <4>1, <4>2
    <3> QED BY <1>2, <2>11, <3>4, <3>5, <3>6
  <2> QED BY <2>1, <2>12 DEF Returning
<1> QED BY <1>5, <1>6, <1>7

\* A function that has just been opened has no returns yet.
LEMMA ReturningHeader ==
  ASSUME Nested, Returning(entries, quads), NEW name, NEW named,
         function_prefix(name, named)
  PROVE  Returning(entries', quads')
<1> DEFINE n == Len(quads)
           h == Len(entries) + 1
           e == [Entry(name, current_scope, "USERFUNC", CurrentFunction)
                   EXCEPT !.address_list = <<n>>, !.taddress = n + 1]
           jump == Hole("jump")
           start == Quad("funcstart", 0)
<1>1. entries \in Seq(EntryType) /\ quads \in Seq(QuadType) /\ n \in Nat
  BY NestedTypes DEF Nested, Ordered
<1>2. entries' = Append(entries, e) /\ quads' = quads \o <<jump, start>>
  BY DEF function_prefix, next_quad
<1>3. e.taddress = n + 1
  BY DEF Entry
<1>4. jump.why = "" /\ start.why = ""
  BY ReasonsAre
<1> HIDE DEF e, jump, start
<1>5. /\ \A k \in DOMAIN entries : entries'[k] = entries[k]
      /\ entries'[h] = e /\ DOMAIN entries' = DOMAIN entries \union {h}
  BY <1>1, <1>2
<1>6. /\ DOMAIN quads = 1..n /\ DOMAIN quads' = 1..(n + 2)
      /\ \A i \in 1..n : quads'[i] = quads[i]
      /\ quads'[n + 1] = jump /\ quads'[n + 2] = start
  BY <1>1, <1>2
<1> HIDE DEF n, h
<1>7. ASSUME NEW k \in Open(entries'), NEW i \in DOMAIN quads',
             i > entries'[k].taddress, quads'[i].why = "return", quads'[i].at = k
      PROVE  i - 1 \in ToSet(Tail(entries'[k].address_list))
  <2>1. i \in 1..n
    <3>1. i # n + 1 /\ i # n + 2
      BY <1>4, <1>6, <1>7
    <3> QED BY <1>1, <1>6, <3>1
  <2>2. quads[i].why = "return" /\ quads[i].at = k /\ i \in DOMAIN quads
    BY <1>6, <1>7, <2>1
  <2>3. k # h
    <3>1. CASE k = h
      BY <1>1, <1>3, <1>5, <1>7, <2>1, <3>1
    <3> QED BY <3>1
  <2>4. k \in DOMAIN entries /\ entries'[k] = entries[k]
    BY <1>5, <2>3 DEF Open
  <2>5. k \in Open(entries)
    BY <2>4 DEF Open
  <2>6. i > entries[k].taddress
    BY <1>7, <2>4
  <2>7. i - 1 \in ToSet(Tail(entries[k].address_list))
    BY <2>2, <2>5, <2>6 DEF Returning
  <2> QED BY <2>4, <2>7
<1> QED BY <1>7 DEF Returning

\* Every step goes on delivering returns.
LEMMA ReturningStep ==
  ASSUME Nested, Ledgered, Returning(entries, quads), [Next]_vars
  PROVE  Returning(entries', quads')
<1>1. CASE return
  BY <1>1, ReturningReturns
<1>2. ASSUME NEW name, NEW named, function_prefix(name, named)
      PROVE  Returning(entries', quads')
  BY <1>2, ReturningHeader
<1>3. ASSUME \/ Steady \/ (\E n \in Var : formal(n)) \/ block_open \/ block_close
             \/ function_arguments \/ function_definition \/ UNCHANGED vars,
             ~return
      PROVE  Returning(entries', quads')
  <2>1. StillOpen
    BY <1>3, OpenStays
  <2>2. PICK S : Emits(quads, quads', S) /\ "return" \notin S
    BY <1>3, EveryMove, NoReturn
  <2>3. quads \in Seq(QuadType)
    BY NestedTypes
  <2> QED BY <2>1, <2>2, <2>3, ReturningKept
<1> QED BY <1>1, <1>2, <1>3, StepKinds

\* Loops and jumps are where they belong, all along.
Mapped == /\ Nested /\ Ledgered /\ Delivered(ctx, quads)
          /\ Returning(entries, quads)
          /\ block_stack \in Seq(Marks) /\ Traced /\ Finished

\* At first there is no loop and no jump,
LEMMA MappedInit == Init => Mapped
<1> SUFFICES ASSUME Init PROVE Mapped
  OBVIOUS
<1> DEFINE nil == <<>>
           k == "program"
           g == Frame(k, nil, nil, nil)
<1>1. ctx = <<g>> /\ quads = <<>> /\ block_stack = <<>> /\ status = "parsing"
  BY DEF Init
<1>2. nil \in Seq(Nat) /\ ToSet(nil) = {}
  BY ListsAre
<1>3. k \in Kinds /\ k \notin LoopBodies \union {"if_then", "func", "body"}
  BY DEF Kinds, LoopBodies
<1> HIDE DEF nil, k
<1>4. g \in FrameType /\ g.kind = k /\ g.b = nil /\ g.c = nil
  BY <1>2, <1>3, FrameIs
<1>5. Listless(g)
  BY <1>2, <1>4 DEF Listless
<1> HIDE DEF g
<1>6. DOMAIN ctx = {1} /\ ctx[1] = g
  BY <1>1
<1>7. Around(ctx) = {}
  BY <1>3, <1>4, <1>6 DEF Around
<1>8. \A i \in DOMAIN ctx : Listless(ctx[i])
  BY <1>5, <1>6
<1>9. DOMAIN quads = {} /\ Len(quads) = 0
  BY <1>1
<1>10. Delivered(ctx, quads)
  <2>1. HeadsBare(ctx) /\ Looped(ctx)
    BY <1>8 DEF HeadsBare, Looped
  <2>2. \A i \in DOMAIN ctx : Breaks(ctx)[i] = {} /\ Continues(ctx)[i] = {}
    BY <1>8, NoLists
  <2>3. \A L : (\A i \in DOMAIN ctx : L[i] = {}) =>
          \A why : Sent(L, ctx, quads, why) /\ Heard(L, ctx, quads, why)
    BY <1>9 DEF Sent, Heard
  <2> QED BY <2>1, <2>2, <2>3 DEF Delivered
<1>11. Traced
  <2>1. Tracks(block_stack, ctx)
    <3>1. Len(block_stack) = Cardinality(Around(ctx))
      BY <1>1, <1>7, FS_EmptySet
    <3> QED BY <1>7, <3>1 DEF Tracks
  <2>2. Looped(ctx)
    BY <1>8 DEF Looped
  <2>3. Unfilled(quads) = {}
    BY <1>9 DEF Unfilled
  <2> QED BY <2>1, <2>2, <2>3 DEF Traced, Covers
<1>12. block_stack \in Seq(Marks) /\ Finished
  BY <1>1 DEF Finished
<1>13. Returning(entries, quads)
  BY <1>9 DEF Returning
<1> QED BY <1>10, <1>11, <1>12, <1>13, NestedInit, LedgeredInit DEF Mapped

\* and every step keeps them where they belong.
LEMMA MappedStep == Mapped /\ [Next]_vars => Mapped'
<1> SUFFICES ASSUME Mapped, [Next]_vars PROVE Mapped'
  OBVIOUS
<1>1. /\ Nested /\ Ledgered /\ Delivered(ctx, quads) /\ block_stack \in Seq(Marks)
      /\ Traced /\ Finished /\ Returning(entries, quads)
  BY DEF Mapped
<1>2. Nested' /\ Ledgered'
  BY <1>1, NestedStep, LedgeredStep
<1>3. Traced' /\ block_stack' \in Seq(Marks) /\ Delivered(ctx', quads')
  BY <1>1, TracedStep
<1>4. Finished'
  BY <1>1, FinishedStep
<1>5. Returning(entries', quads')
  BY <1>1, ReturningStep
<1> QED BY <1>2, <1>3, <1>4, <1>5 DEF Mapped

\* Which step ends a loop or a body.
LEMMA EndsAre ==
  ASSUME Nested, Moves, NEW d \in DOMAIN ctx, ctx[d].kind \in Marked,
         d = Len(ctx'), ctx'[d].kind = "stmt"
  PROVE  \/ LeavesLoop /\ d = Len(ctx) - 1 /\ ctx[d] = Below
         \/ LeavesBody /\ d = Len(ctx) /\ ctx[d] = Top
<1>1. \A g, n : Replaced(ctx, ctx', n, g) => g.kind = "stmt"
  BY DEF Replaced
<1>2. "stmt" \notin Marked /\ "stmt" \notin LoopBodies /\ "stmt" # "body"
  BY DEF Marked, LoopBodies
<1>3. ASSUME Rests PROVE FALSE
  BY <1>2, <1>3 DEF Rests
<1>4. ASSUME \E g : Replaced(ctx, ctx', 0, g) PROVE FALSE
  <2>1. \A i \in DOMAIN ctx : ~(i >= Len(ctx'))
    BY <1>4, PlacesAre
  <2>2. Len(ctx') \in Nat
    BY <1>4, PlacesAre
  <2>3. ~(d >= Len(ctx'))
    BY <2>1
  <2> QED BY <2>2, <2>3
<1>5. Pushes \/ EntersLoop \/ JumpsOut => \E g : Replaced(ctx, ctx', 0, g)
  BY Zenon DEF Pushes, EntersLoop, JumpsOut
<1>6. ASSUME EntersBody PROVE FALSE
  <2>1. PICK g \in FrameType : Replaced(ctx, ctx', 1, g) /\ g.kind = "body"
    BY <1>6 DEF EntersBody
  <2> QED BY <1>1, <1>2, <2>1
<1>7. ASSUME Joins PROVE FALSE
  <2>1. PICK n \in {1, 2}, g \in FrameType :
          /\ Joined(n, g) /\ ctx[Len(ctx) - n + 1].kind \notin LoopBodies
          /\ (g.kind = "body") <=> (ctx[Len(ctx) - n + 1].kind = "body")
    BY <1>7 DEF Joins
  <2>2. Replaced(ctx, ctx', n, g)
    <3>1. Joined(n, g)
      BY <2>1
    <3> QED BY <3>1 DEF Joined
  <2>3. d = Len(ctx) - n + 1
    BY <2>2, PlacesAre
  <2>4. ctx[d].kind \notin LoopBodies /\ ctx[d].kind # "body"
    BY <1>1, <1>2, <2>1, <2>2, <2>3
  <2> QED BY <2>4 DEF Marked
<1>8. ASSUME LeavesLoop PROVE d = Len(ctx) - 1 /\ ctx[d] = Below
  <2>1. PICK g \in FrameType : Replaced(ctx, ctx', 2, g)
    BY <1>8 DEF LeavesLoop
  <2>2. d = Len(ctx) - 1
    BY <2>1, PlacesAre
  <2> QED BY <2>2 DEF Below
<1>9. ASSUME LeavesBody PROVE d = Len(ctx) /\ ctx[d] = Top
  <2>1. PICK g \in FrameType : Replaced(ctx, ctx', 1, g)
    BY <1>9 DEF LeavesBody
  <2> QED BY <2>1, PlacesAre
<1> QED BY <1>3, <1>4, <1>5, <1>6, <1>7, <1>8, <1>9 DEF Moves

\* The end of a loop delivers its breaks and continues.
LEMMA LoopDelivers ==
  ASSUME Mapped, LeavesLoop, NEW d \in DOMAIN ctx, d = Len(ctx) - 1, ctx[d] = Below
  PROVE  LET q == ctx[d].q
         IN  /\ Targets("break", d, q[1], Len(quads'))
             /\ Targets("continue", d, q[1], IF ctx[d].kind = "while_body" THEN q[1] ELSE q[3] + 1)
<1> DEFINE q == ctx[d].q
           back == IF ctx[d].kind = "while_body" THEN q[1] ELSE q[3] + 1
<1>1. Nested /\ Delivered(ctx, quads)
  BY DEF Mapped
<1>2. /\ DOMAIN ctx = 1..Len(ctx) /\ Len(ctx) \in Nat \ {0} /\ Top = ctx[Len(ctx)]
      /\ quads \in Seq(QuadType)
  <2>1. PICK g : Replaced(ctx, ctx', 2, g)
    BY DEF LeavesLoop
  <2> QED BY <1>1, <2>1, PlacesAre
<1>3. /\ ctx[d].kind \in LoopBodies /\ Reached(Top.b, Len(quads'))
      /\ Reached(Top.c, back)
  BY DEF LeavesLoop
<1>4. \A j \in DOMAIN ctx : j > d => j = Len(ctx)
  BY <1>2
<1>5. Breaks(ctx)[Len(ctx)] = ToSet(Top.b) /\ Continues(ctx)[Len(ctx)] = ToSet(Top.c)
  BY <1>2, NoLists
<1>6. \A i \in DOMAIN quads : (i - 1) + 1 = i
  BY <1>2
<1> HIDE DEF back
<1>7. ASSUME NEW i \in DOMAIN quads, i > q[1], quads[i].at = d, quads[i].why = "break"
      PROVE  quads'[i].label = Len(quads')
  <2>1. i - 1 \in ToSet(Top.b)
    <3>1. Heard(Breaks(ctx), ctx, quads, "break")
      BY <1>1 DEF Delivered
    <3>2. \E j \in DOMAIN ctx : j > d /\ i - 1 \in Breaks(ctx)[j]
      BY <1>3, <1>7, <3>1 DEF Heard
    <3> QED BY <1>4, <1>5, <3>2
  <2>2. quads'[(i - 1) + 1].label = Len(quads')
    BY <1>3, <2>1 DEF Reached
  <2> QED BY <1>6, <2>2
<1>8. ASSUME NEW i \in DOMAIN quads, i > q[1], quads[i].at = d, quads[i].why = "continue"
      PROVE  quads'[i].label = back
  <2>1. i - 1 \in ToSet(Top.c)
    <3>1. Heard(Continues(ctx), ctx, quads, "continue")
      BY <1>1 DEF Delivered
    <3>2. \E j \in DOMAIN ctx : j > d /\ i - 1 \in Continues(ctx)[j]
      BY <1>3, <1>8, <3>1 DEF Heard
    <3> QED BY <1>4, <1>5, <3>2
  <2>2. quads'[(i - 1) + 1].label = back
    BY <1>3, <2>1 DEF Reached
  <2> QED BY <1>6, <2>2
<1> QED BY <1>7, <1>8 DEF Targets, back

\* The end of a body delivers its returns.
LEMMA BodyDelivers ==
  ASSUME Mapped, LeavesBody
  PROVE  LET f == Top.q[1]
         IN  Targets("return", f, entries[f].taddress, Len(quads') - 1)
<1> DEFINE f == Top.q[1]
<1>1. /\ Nested /\ Returning(entries, quads) /\ Top.kind = "body"
      /\ Reached(Tail(entries[f].address_list), Len(quads') - 1)
  BY DEF Mapped, LeavesBody
<1>2. f \in Open(entries)
  BY <1>1, ClosingIs DEF Open
<1>3. quads \in Seq(QuadType)
  BY <1>1, NestedTypes
<1>4. \A i \in DOMAIN quads : (i - 1) + 1 = i
  BY <1>3
<1> HIDE DEF f
<1>5. ASSUME NEW i \in DOMAIN quads, i > entries[f].taddress, quads[i].why = "return",
             quads[i].at = f
      PROVE  quads'[i].label = Len(quads') - 1
  <2>1. i - 1 \in ToSet(Tail(entries[f].address_list))
    BY <1>1, <1>2, <1>5 DEF Returning
  <2>2. quads'[(i - 1) + 1].label = Len(quads') - 1
    BY <1>1, <2>1 DEF Reached
  <2> QED BY <1>4, <2>2
<1> QED BY <1>5 DEF Targets, f

\* So a step that ends a loop or a body delivers the jumps out of it.
LEMMA EveryEndDelivers ==
  ASSUME Mapped, [Next]_vars
  PROVE  EndsDeliver
<1>1. Nested /\ Moves
  BY EveryMove DEF Mapped
<1>2. ASSUME NEW d \in DOMAIN ctx, ctx[d].kind \in LoopBodies,
             d = Len(ctx'), ctx'[d].kind = "stmt"
      PROVE  LET q == ctx[d].q
             IN  /\ Targets("break", d, q[1], Len(quads'))
                 /\ Targets("continue", d, q[1],
                            IF ctx[d].kind = "while_body" THEN q[1] ELSE q[3] + 1)
  <2>1. ctx[d].kind \in Marked /\ ctx[d].kind # "body"
    BY <1>2 DEF Marked, LoopBodies
  <2>2. LeavesLoop /\ d = Len(ctx) - 1 /\ ctx[d] = Below
    BY <1>1, <1>2, <2>1, EndsAre DEF LeavesBody
  <2> QED BY <2>2, LoopDelivers
<1>3. ASSUME NEW d \in DOMAIN ctx, ctx[d].kind = "body",
             d = Len(ctx'), ctx'[d].kind = "stmt"
      PROVE  LET q == ctx[d].q
             IN  Targets("return", q[1], entries[q[1]].taddress, Len(quads') - 1)
  <2>1. ctx[d].kind \in Marked /\ ctx[d].kind \notin LoopBodies
    BY <1>3 DEF Marked, LoopBodies
  <2>2. LeavesBody /\ ctx[d] = Top
    BY <1>1, <1>3, <2>1, EndsAre DEF LeavesLoop
  <2> QED BY <2>2, BodyDelivers
<1>4. "while_body" \in LoopBodies /\ "for_body" \in LoopBodies /\ "for_body" # "while_body"
  BY DEF LoopBodies
<1> QED BY <1>2, <1>3, <1>4 DEF EndsDeliver

-----------------------------------------------------------------------------
(* What holds of every program *)

\* Each break and continue waits in a list inside the loop it leaves, from
\* beginning to end.
THEOREM JumpsWaitInTheirLoops == Spec => []Mapped
BY MappedInit, MappedStep, PTL DEF Spec

\* Until a "for" has ended, block_stack mirrors the loops and bodies around the
\* point the parser has reached (for_statement leaves its mark on it).
THEOREM BlockStackIsTheNest == Spec => []BlockStackMatchesNesting
<1>1. Mapped => BlockStackMatchesNesting
  BY DEF Mapped, Traced, BlockStackMatchesNesting
<1> QED BY <1>1, JumpsWaitInTheirLoops, PTL

\* When a program without a finished "for" has been accepted, every jump has its
\* label.
THEOREM NoJumpIsForgotten == Spec => []NoDanglingJump
<1>1. ASSUME Mapped, status = "done", NoForEnded
      PROVE  \A i \in DOMAIN quads : quads[i].patch # "open"
  <2>1. Nested /\ Top.kind = "program" /\ Looped(ctx) /\ Covers(ctx, entries, quads)
    BY <1>1 DEF Mapped, Finished, Traced
  <2>2. DOMAIN ctx = {1} /\ ctx[1] = Top /\ Open(entries) = {}
    BY <2>1, AtTheEnd
  <2>3. ctx \in Seq(FrameType) /\ quads \in Seq(QuadType) /\ Len(ctx) \in Nat /\ 1 \in 0..Len(ctx)
    <3>1. Shaped(ctx) /\ quads \in Seq(QuadType)
      BY <2>1, NestedTypes
    <3>2. ctx \in Seq(FrameType) /\ Len(ctx) > 0
      BY <3>1 DEF Shaped
    <3>3. Len(ctx) \in Nat
      BY <3>2
    <3> QED BY <3>1, <3>2, <3>3
  <2>4. LoopOf(ctx, 1) = 0
    <3>1. Around(ctx) = {}
      BY <2>1, <2>2 DEF Around, LoopBodies
    <3> QED BY <3>1 DEF LoopOf
  <2>5. Listless(Top)
    <3>1. Looped(ctx) /\ 1 \in DOMAIN ctx
      BY <2>1, <2>2
    <3>2. Listless(ctx[1])
      BY <2>4, <3>1 DEF Looped
    <3> QED BY <2>2, <3>2
  <2>6. Debts(Top) = {}
    BY <2>1 DEF Debts
  <2>7. Owes(Top) = {}
    BY <2>5, <2>6 DEF Owes, Listless
  <2> HIDE DEF Owes
  <2>8. Unfilled(quads) = {}
    BY <2>1, <2>2, <2>7 DEF Covers
  <2> QED BY <2>3, <2>8, UnfilledIs
<1>2. Mapped => NoDanglingJump
  BY <1>1 DEF NoDanglingJump
<1> QED BY <1>2, JumpsWaitInTheirLoops, PTL

\* Every step that ends a loop sends its breaks behind it and its continues to its
\* next round, and every step that ends a body sends its returns to its "funcend":
\* those of this loop or body, whatever is nested in it.
THEOREM JumpsReachTheirOwners == Spec => JumpsReachOwner
<1>1. Mapped /\ [Next]_vars => EndsDeliver
  BY EveryEndDelivers
<1> QED BY <1>1, JumpsWaitInTheirLoops, PTL DEF Spec, JumpsReachOwner

\* What status can say
Running == status \in {"parsing", "done", "aborted", "crashed"}

\* Only the end of the input and a "return" outside functions end parsing.
LEMMA StatusStays ==
  ASSUME Running, [Next]_vars
  PROVE  Running'
<1>1. CASE UNCHANGED status
  BY <1>1 DEF Running
<1>2. CASE program
  BY <1>2 DEF program, Running
<1>3. CASE return
  BY <1>1, <1>3 DEF return, Running
<1>4. ASSUME NEW n \in Var,
             UseVariable(n) \/ LocalVariable(n) \/ GlobalVariable(n) \/ Assignment(n)
               \/ formal(n)
      PROVE  UNCHANGED status
  BY <1>4 DEF UseVariable, LocalVariable, GlobalVariable, Assignment, formal,
              ExpressionDone
<1>5. ASSUME NEW n, NEW named \in BOOLEAN, function_prefix(n, named)
      PROVE  UNCHANGED status
  BY <1>5 DEF function_prefix
<1>6. ASSUME NEW kind \in {"break", "continue"}, break_or_continue(kind)
      PROVE  UNCHANGED status
  BY <1>6 DEF break_or_continue
<1>7. CASE all_statements \/ empty_statement \/ block_open \/ block_close
             \/ function_arguments \/ function_definition \/ Terminated
  BY <1>1, <1>7 DEF all_statements, empty_statement, block_open, block_close,
                    function_arguments, function_definition, Terminated, vars
<1>8. ASSUME NEW code \in Codes, NEW step \in Codes,
             if_prefix(code) \/ while_start(code) \/ for_prefix(code, step)
      PROVE  UNCHANGED status
  BY <1>8 DEF if_prefix, while_start, for_prefix, ControlDone
<1>9. CASE if_without_else \/ else_prefix \/ if_else \/ while_statement \/ for_statement
  BY <1>1, <1>9 DEF if_without_else, else_prefix, if_else, while_statement, for_statement,
                    ControlDone
<1>10. CASE UNCHANGED vars
  BY <1>1, <1>10 DEF vars
<1> QED BY <1>1, <1>2, <1>3, <1>4, <1>5, <1>6, <1>7, <1>8, <1>9, <1>10 DEF Next

\* The space counter goes up by two for each function, by one in its header.
LEMMA CounterIs ==
  ASSUME Nested, Framed
  PROVE  scope_space_counter \in Nat \ {0}
<1> DEFINE n == Len(function_offset_stack)
<1>1. n \in Nat /\ n = Cardinality(Defining(ctx)) /\ Shaped(ctx)
  BY DEF Nested, Stacked
<1>2. scope_space_counter = 2 * n + (IF Header THEN 0 ELSE 1)
  BY DEF Framed
<1> HIDE DEF n
<1>3. ASSUME Header PROVE n # 0
  <2>1. Len(ctx) \in Defining(ctx)
    BY <1>1, <1>3 DEF Header, Defining, Shaped, Top, Last
  <2>2. IsFiniteSet(Defining(ctx)) /\ Defining(ctx) # {}
    BY <1>1, <2>1, NestFinite
  <2> QED BY <1>1, <2>2, FS_EmptySet
<1> QED BY <1>1, <1>2, <1>3

\* Whatever the program, the compiler's state keeps its form: every entry has a
\* scope, a space and an owner, no jump leads behind the quads, and there is
\* always the input at the bottom of the stack.
THEOREM TypeCorrect == Spec => []TypeOK
<1>1. ASSUME Mapped, Framed, Bound, Running PROVE TypeOK
  <2>1. /\ Shaped(ctx) /\ quads \in Seq(QuadType) /\ Ordered(entries)
        /\ entries \in Seq(EntryType) /\ Mirrors(entries, current_scope, ctx)
        /\ offset \in [Spaces -> Nat] /\ function_offset_stack \in Seq(Nat)
        /\ temp_var_counter \in Nat /\ nameless_func_count \in Nat
        /\ arguments_list \in Seq(Var) /\ block_stack \in Seq(Marks)
        /\ Bounded(quads, Len(quads)) /\ IR_GEN_FAILED \in BOOLEAN
    BY <1>1 DEF Mapped, Nested, Stacked, Ordered, Ledgered, Bound
  <2>2. ASSUME NEW k \in DOMAIN entries
        PROVE  /\ entries[k].type \in {"GLOBAL", "LOCAL", "FORMAL", "USERFUNC", "LIBFUNC"}
               /\ entries[k].space \in DOMAIN offset \union {"unset"}
               /\ entries[k].scope \in Nat /\ entries[k].offset \in Nat
               /\ entries[k].fn \in 0..Len(entries)
    <3>1. entries[k] \in EntryType /\ k \in Nat /\ k <= Len(entries) /\ Len(entries) \in Nat
      BY <2>1, EntriesAre
    <3>2. entries[k].fn < k /\ entries[k].fn \in Nat
      BY <2>1, EntriesAre DEF Ordered
    <3>3. entries[k].space \in DOMAIN offset \union {"unset"}
      BY <2>1, <3>1 DEF EntryType
    <3>4. /\ entries[k].type \in {"GLOBAL", "LOCAL", "FORMAL", "USERFUNC", "LIBFUNC"}
          /\ entries[k].scope \in Nat /\ entries[k].offset \in Nat
      BY <3>1 DEF EntryType, VariableTypes
    <3> QED BY <3>1, <3>2, <3>3, <3>4
  <2>3. current_scope \in Nat
    BY <2>1, NestFinite DEF Mirrors
  <2>4. scope_space_counter \in Nat \ {0}
    BY <1>1, CounterIs DEF Mapped
  <2>5. offset \in [{"program_variable", "function_local", "formal_argument"} -> Nat]
    BY <2>1 DEF Spaces
  <2>6. block_stack \in Seq({"LOOP", "FUNC_BLOCK"})
    BY <2>1 DEF Marks
  <2>7. ASSUME NEW i \in DOMAIN quads PROVE quads[i].label \in 0..(Len(quads) + 2)
    <3>1. quads[i] \in QuadType /\ quads[i].label <= Len(quads) /\ Len(quads) \in Nat
      BY <2>1, <2>7 DEF Bounded
    <3>2. quads[i].label \in Nat
      BY <3>1 DEF QuadType
    <3> QED BY <3>1, <3>2
  <2>8. ctx # <<>> /\ ctx[1].kind = "program"
    BY <2>1 DEF Shaped
  <2>9. status \in {"parsing", "done", "aborted", "crashed"}
    BY <1>1 DEF Running
  <2> QED BY <2>1, <2>2, <2>3, <2>4, <2>5, <2>6, <2>7, <2>8, <2>9 DEF TypeOK
<1>2. Init => Running
  BY DEF Init, Running
<1>3. Running /\ [Next]_vars => Running'
  BY StatusStays
<1>4. Spec => []Running
  BY <1>2, <1>3, PTL DEF Spec
<1> QED BY <1>1, <1>4, JumpsWaitInTheirLoops, FramesFitTheirLocals, NamesAreBoundApart, PTL
=============================================================================
