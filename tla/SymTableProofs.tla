--------------------------- MODULE SymTableProofs ----------------------------
(* For every hash function, every list of bucket sizes and every program:    *)
(* the symbol table is well typed and never loses an entry, not even while   *)
(* its bucket array is being grown, and its two indexes answer alike.  Each  *)
(* lookup returns the binding its definition in Symbols names, and never one *)
(* of a block that has been closed.  As long as the bucket array has not     *)
(* grown, the table implements Scoping.                                      *)
EXTENDS SymTable, SequenceTheorems, WellFoundedInduction, TLAPS

-----------------------------------------------------------------------------
(* The least and the greatest of a set of numbers: what a walk along a list   *)
(* stops at, and what the definitions of the lookups in Symbols choose.       *)

\* A set of numbers has a least element, which Min chooses.
LEMMA MinIsFirst ==
  ASSUME NEW S, S \subseteq Nat, S # {}
  PROVE  Min(S) \in S /\ \A y \in S : Min(S) <= y
<1>1. \E x \in S : \A y \in S : ~(<<y, x>> \in OpToRel(<, Nat))
  BY NatLessThanWellFounded, WFMin
<1>2. PICK x \in S : \A y \in S : ~(<<y, x>> \in OpToRel(<, Nat))
  BY <1>1
<1>3. ASSUME NEW y \in S PROVE x <= y
  <2>1. x \in Nat /\ y \in Nat /\ <<y, x>> \in Nat \X Nat
    OBVIOUS
  <2>2. ~(y < x)
    BY <1>2, <2>1 DEF OpToRel
  <2> QED BY <2>1, <2>2
<1> QED BY <1>3 DEF Min

\* A bounded set of numbers has a greatest element, which Max chooses.
LEMMA MaxIsLast ==
  ASSUME NEW n \in Nat, NEW S, S \subseteq 0..n, S # {}
  PROVE  Max(S) \in S /\ \A y \in S : Max(S) >= y
<1> DEFINE T == {n - y : y \in S}
<1>1. T \subseteq Nat /\ T # {}
  OBVIOUS
<1>2. Min(T) \in T /\ \A z \in T : Min(T) <= z
  BY <1>1, MinIsFirst
<1>3. PICK x \in S : Min(T) = n - x
  BY <1>2
<1>4. ASSUME NEW y \in S PROVE x >= y
  <2>1. n - y \in T /\ x \in Nat /\ y \in Nat
    OBVIOUS
  <2>2. n - x <= n - y
    BY <1>2, <1>3, <2>1
  <2> HIDE DEF T
  <2> QED BY <2>1, <2>2
<1> QED BY <1>4 DEF Max

\* The member of a set of numbers that exceeds no other is its minimum.
LEMMA MinIs ==
  ASSUME NEW S, S \subseteq Nat, NEW x \in S, \A y \in S : x <= y
  PROVE  Min(S) = x
<1>1. Min(S) \in S /\ Min(S) <= x
  BY MinIsFirst
<1>2. x <= Min(S) /\ x \in Nat /\ Min(S) \in Nat
  BY <1>1
<1> QED BY <1>1, <1>2

\* The member of a set of numbers that no other exceeds is its maximum.
LEMMA MaxIs ==
  ASSUME NEW S, S \subseteq Nat, NEW x \in S, \A y \in S : x >= y
  PROVE  Max(S) = x
<1>1. x \in Nat /\ S \subseteq 0..x
  OBVIOUS
<1>2. Max(S) \in S /\ Max(S) >= x
  BY <1>1, MaxIsLast
<1>3. x >= Max(S) /\ Max(S) \in Nat
  BY <1>2
<1> QED BY <1>1, <1>2, <1>3
-----------------------------------------------------------------------------
(* Sequences as chains and lists. *)

\* Pushing a node at the head of a chain adds that node and loses none.
LEMMA PushRange ==
  ASSUME NEW k \in Nat, NEW l \in Seq(Nat)
  PROVE  <<k>> \o l \in Seq(Nat) /\ Range(<<k>> \o l) = {k} \union Range(l)
<1> DEFINE m == <<k>> \o l
<1>1. m \in Seq(Nat) /\ Len(m) = Len(l) + 1 /\ m[1] = k
  OBVIOUS
<1>2. \A i \in 1..Len(l) : m[i + 1] = l[i]
  OBVIOUS
<1>3. Range(m) \subseteq {k} \union Range(l)
  <2> SUFFICES ASSUME NEW i \in DOMAIN m PROVE m[i] \in {k} \union Range(l)
    BY DEF Range
  <2>1. CASE i = 1
    BY <1>1, <2>1
  <2>2. CASE i # 1
    <3>1. i - 1 \in 1..Len(l) /\ (i - 1) + 1 = i
      BY <1>1, <2>2
    <3> QED BY <1>2, <3>1 DEF Range
  <2> QED BY <2>1, <2>2
<1>4. {k} \union Range(l) \subseteq Range(m)
  <2>1. k \in Range(m)
    BY <1>1 DEF Range
  <2>2. ASSUME NEW i \in 1..Len(l) PROVE l[i] \in Range(m)
    <3>1. i + 1 \in DOMAIN m
      BY <1>1
    <3> QED BY <1>2, <3>1 DEF Range
  <2> QED BY <2>1, <2>2 DEF Range
<1> QED BY <1>1, <1>3, <1>4

\* Appending an entry to a scope's list adds that entry and loses none.
LEMMA AppendRange ==
  ASSUME NEW k \in Nat, NEW l \in Seq(Nat)
  PROVE  Append(l, k) \in Seq(Nat) /\ Range(Append(l, k)) = {k} \union Range(l)
<1> DEFINE m == Append(l, k)
<1>1. m \in Seq(Nat) /\ Len(m) = Len(l) + 1 /\ m[Len(m)] = k
  OBVIOUS
<1>2. \A i \in 1..Len(l) : m[i] = l[i]
  OBVIOUS
<1>3. \A i \in DOMAIN m : i \in 1..Len(l) \/ i = Len(m)
  BY <1>1
<1> QED BY <1>1, <1>2, <1>3 DEF Range

\* Taking the head off a chain loses the head only.
LEMMA TailRange ==
  ASSUME NEW l \in Seq(Nat), l # <<>>
  PROVE  /\ Head(l) \in Nat /\ Tail(l) \in Seq(Nat)
         /\ Range(l) = {Head(l)} \union Range(Tail(l))
<1> DEFINE m == Tail(l)
<1>1. m \in Seq(Nat) /\ Len(m) = Len(l) - 1 /\ Head(l) = l[1] /\ Head(l) \in Nat
      /\ Len(l) >= 1
  OBVIOUS
<1>2. \A i \in 1..Len(m) : m[i] = l[i + 1]
  OBVIOUS
<1>3. ASSUME NEW i \in DOMAIN l PROVE l[i] \in {Head(l)} \union Range(m)
  <2>1. CASE i = 1
    BY <1>1, <2>1
  <2>2. CASE i # 1
    <3>1. i - 1 \in 1..Len(m) /\ (i - 1) + 1 = i
      BY <1>1, <2>2
    <3> QED BY <1>2, <3>1 DEF Range
  <2> QED BY <2>1, <2>2
<1>4. ASSUME NEW i \in DOMAIN m PROVE m[i] \in Range(l)
  <2>1. i \in 1..Len(m) /\ i + 1 \in DOMAIN l
    BY <1>1
  <2> QED BY <1>2, <2>1 DEF Range
<1>5. Head(l) \in Range(l)
  BY <1>1 DEF Range
<1> QED BY <1>1, <1>3, <1>4, <1>5 DEF Range

\* A name hashes into the bucket array, whatever its size.
LEMMA IndexInRange ==
  ASSUME NEW n \in Name, NEW l \in DOMAIN BucketSizes
  PROVE  /\ BucketSizes[l] \in Nat \ {0}
         /\ Index(n, l) \in 0..(BucketSizes[l] - 1)
<1>1. BucketSizes[l] \in Nat \ {0}
  BY SizesAssumption
<1>2. Hash[n] \in Nat
  BY HashAssumption
<1>3. \A a \in Nat, b \in Nat \ {0} : a % b \in 0..(b - 1)
  BY Z3
<1> QED BY <1>1, <1>2, <1>3 DEF Index
-----------------------------------------------------------------------------
(* The inductive invariant: NothingLost as it stands, on well-typed states.  *)
(* While the array grows, NothingLost itself says what is still to be moved. *)

IInv == TypeOK /\ NothingLost

\* Every entry is in its chain; what holds once no node is left to be moved.
Chained == \A k \in DOMAIN entries :
             k \in Range(buckets[Index(entries[k].name, level)])

\* What TypeOK says of one entry.
LEMMA EntryType ==
  ASSUME TypeOK, NEW k \in DOMAIN entries
  PROVE  /\ k \in Nat /\ entries[k] \in Binding
         /\ entries[k].name \in Name /\ entries[k].scope \in Nat
<1>1. k \in Nat /\ entries[k] \in Binding
  BY DEF TypeOK
<1> QED BY <1>1 DEF Binding

\* The insertion that ends a SymTable_put, grown table or not.
LEMMA InsertStep ==
  ASSUME IInv, Chained, NEW e \in Binding, Insert(e),
         level' = level, pending' = <<>>, old' = <<>>, row' \in Nat,
         nest' = nest, crashed' = crashed
  PROVE  IInv'
<1> DEFINE k == Len(entries) + 1
           b == Index(e.name, level)
           size == IF e.scope >= scopes_size
                   THEN scopes_size + 4 * (e.scope + 1 - scopes_size)
                   ELSE scopes_size
           wide == [t \in 0..(size - 1) |->
                      IF t < scopes_size THEN scopes[t] ELSE <<>>]
<1> USE DEF IInv
<1>1. /\ e.name \in Name /\ e.scope \in Nat /\ e.func_is_open \in BOOLEAN
      /\ level \in DOMAIN BucketSizes /\ k \in Nat \ {0}
  BY DEF Binding, TypeOK
<1>2. b \in 0..(BucketSizes[level] - 1) /\ BucketSizes[level] \in Nat \ {0}
  BY <1>1, IndexInRange
<1>3. /\ entries' = Append(entries, e)
      /\ buckets' = [buckets EXCEPT ![b] = <<k>> \o @]
      /\ scopes' = [wide EXCEPT ![e.scope] = Append(@, k)]
      /\ scopes_size' = size
      /\ header' = IF e.func_is_open THEN k ELSE header
  BY DEF Insert, scope_insert
<1>4. /\ entries' \in Seq(Binding)
      /\ DOMAIN entries' = (DOMAIN entries) \union {k}
      /\ k \notin DOMAIN entries
      /\ entries'[k] = e
      /\ \A j \in DOMAIN entries : entries'[j] = entries[j] /\ j \in Nat
  <2>1. entries \in Seq(Binding) /\ entries' = Append(entries, e)
    BY <1>3 DEF TypeOK
  <2>2. entries' \in Seq(Binding) /\ Len(entries') = k /\ entries'[k] = e
    BY <2>1
  <2>3. DOMAIN entries = 1..Len(entries) /\ DOMAIN entries' = 1..k /\ Len(entries) \in Nat
    BY <2>1, <2>2
  <2>4. \A j \in 1..Len(entries) : entries'[j] = entries[j]
    BY <2>1
  <2> QED BY <2>2, <2>3, <2>4
<1>5. /\ buckets' \in [0..(BucketSizes[level] - 1) -> Seq(Nat)]
      /\ Range(buckets'[b]) = {k} \union Range(buckets[b])
      /\ \A c \in DOMAIN buckets : c # b => buckets'[c] = buckets[c]
      /\ DOMAIN buckets' = DOMAIN buckets
  <2>1. buckets \in [0..(BucketSizes[level] - 1) -> Seq(Nat)] /\ buckets[b] \in Seq(Nat)
    BY <1>2 DEF TypeOK
  <2>2. <<k>> \o buckets[b] \in Seq(Nat)
        /\ Range(<<k>> \o buckets[b]) = {k} \union Range(buckets[b])
    BY <1>1, <2>1, PushRange
  <2> HIDE DEF b, k
  <2> QED BY <1>2, <1>3, <2>1, <2>2
<1>6. /\ size \in Nat \ {0} /\ size >= scopes_size /\ e.scope < size
      /\ DOMAIN wide = 0..(size - 1)
      /\ wide \in [0..(size - 1) -> Seq(Nat)]
      /\ DOMAIN scopes = 0..(scopes_size - 1) /\ DOMAIN scopes \subseteq DOMAIN wide
      /\ \A t \in DOMAIN scopes : wide[t] = scopes[t]
      /\ \A t \in DOMAIN wide : t \notin DOMAIN scopes => wide[t] = <<>>
  <2>1. size \in Nat \ {0} /\ size >= scopes_size /\ e.scope < size
    <3>1. scopes_size \in Nat \ {0} /\ e.scope \in Nat
      BY <1>1 DEF TypeOK
    <3> HIDE DEF IInv, wide, b, k
    <3> QED BY ONLY <3>1 DEF size
  <2>2. scopes \in [0..(scopes_size - 1) -> Seq(Nat)] /\ scopes_size \in Nat
    BY DEF TypeOK
  <2> HIDE DEF size
  <2> QED BY <2>1, <2>2
<1>7. /\ scopes' \in [0..(size - 1) -> Seq(Nat)]
      /\ e.scope \in DOMAIN scopes'
      /\ DOMAIN scopes' = DOMAIN wide
      /\ Range(scopes'[e.scope]) = {k} \union Range(wide[e.scope])
      /\ \A t \in DOMAIN wide : t # e.scope => scopes'[t] = wide[t]
  <2>1. e.scope \in DOMAIN wide /\ wide[e.scope] \in Seq(Nat)
    BY <1>1, <1>6
  <2>2. Append(wide[e.scope], k) \in Seq(Nat)
        /\ Range(Append(wide[e.scope], k)) = {k} \union Range(wide[e.scope])
    BY <1>1, <2>1, AppendRange
  <2> HIDE DEF wide, size, k
  <2> QED BY <1>3, <1>6, <2>1, <2>2
<1>8. TypeOK'
  <2>1. header' \in Nat
    BY <1>1, <1>3 DEF TypeOK
  <2>2. pending' \in Seq(Binding) /\ Len(pending') <= 1 /\ ~growing'
    BY DEF growing
  <2> HIDE DEF wide, size, k, b
  <2> QED BY <1>3, <1>4, <1>5, <1>6, <1>7, <2>1, <2>2 DEF TypeOK
<1>9. NothingLost'
  <2> HIDE DEF k, b, size, wide
  <2>1. ASSUME NEW j \in DOMAIN entries'
        PROVE  j \in Range(buckets'[Index(entries'[j].name, level')])
    <3>1. CASE j = k
      BY <1>4, <1>5, <3>1 DEF b
    <3>2. CASE j # k
      <4>0. j \in DOMAIN entries /\ entries'[j] = entries[j]
        BY <1>4, <3>2
      <4>1. /\ j \in DOMAIN entries /\ entries'[j] = entries[j]
            /\ entries[j].name \in Name
        BY <4>0, EntryType
      <4>2. j \in Range(buckets[Index(entries[j].name, level)])
            /\ Index(entries[j].name, level) \in DOMAIN buckets
        BY <1>1, <4>1, IndexInRange DEF Chained, TypeOK
      <4> QED BY <1>5, <4>1, <4>2
    <3> QED BY <3>1, <3>2
  <2>2. ASSUME NEW j \in DOMAIN entries'
        PROVE  /\ entries'[j].scope \in DOMAIN scopes'
               /\ j \in Range(scopes'[entries'[j].scope])
    <3>1. CASE j = k
      BY <1>4, <1>7, <3>1
    <3>2. CASE j # k
      <4>1. j \in DOMAIN entries /\ entries'[j] = entries[j]
        BY <1>4, <3>2
      <4>2. entries[j].scope \in DOMAIN scopes /\ j \in Range(scopes[entries[j].scope])
        BY <4>1 DEF NothingLost
      <4> QED BY <1>6, <1>7, <4>1, <4>2
    <3> QED BY <3>1, <3>2
  <2>3. ASSUME NEW c \in DOMAIN buckets', NEW j \in Range(buckets'[c])
        PROVE  j \in DOMAIN entries' /\ Index(entries'[j].name, level') = c
    <3>1. CASE c = b /\ j = k
      BY <1>4, <3>1 DEF b
    <3>2. CASE c # b \/ j # k
      <4>1. c \in DOMAIN buckets /\ j \in Range(buckets[c])
        BY <1>5, <3>2
      <4>2. j \in DOMAIN entries /\ Index(entries[j].name, level) = c
        BY <4>1 DEF NothingLost
      <4> QED BY <1>4, <4>2
    <3> QED BY <3>1, <3>2
  <2>4. ASSUME NEW t \in DOMAIN scopes', NEW j \in Range(scopes'[t])
        PROVE  j \in DOMAIN entries' /\ entries'[j].scope = t
    <3>1. CASE t = e.scope /\ j = k
      BY <1>4, <3>1
    <3>2. CASE t # e.scope \/ j # k
      <4>1. t \in DOMAIN wide /\ j \in Range(wide[t])
        BY <1>7, <3>2
      <4>2. t \in DOMAIN scopes /\ j \in Range(scopes[t])
        BY <1>6, <4>1 DEF Range
      <4>3. j \in DOMAIN entries /\ entries[j].scope = t
        BY <4>2 DEF NothingLost
      <4> QED BY <1>4, <4>3
    <3> QED BY <3>1, <3>2
  <2>5. DOMAIN old' = {}
    OBVIOUS
  <2> QED BY <2>1, <2>2, <2>3, <2>4, <2>5 DEF NothingLost, Filed
<1> QED BY <1>8, <1>9

\* A SymTable_put of one of the parser's names.
LEMMA PutStep ==
  ASSUME IInv, ~growing, NEW n \in Name, NEW s \in Nat, NEW f \in BOOLEAN,
         SymTable_put(n, s, f), nest' = nest, crashed' = crashed
  PROVE  IInv'
<1> DEFINE e == [name |-> n, scope |-> s, isActive |-> TRUE, func_is_open |-> f]
<1>1. e \in Binding
  BY DEF Binding
<1>2. pending = <<>> /\ old = <<>> /\ row \in Nat
  BY DEF growing, IInv, TypeOK
<1>3. CASE Full
  <2>1. StartGrowth(e)
    BY <1>3 DEF SymTable_put
  <2>2. /\ entries' = entries /\ level' = level + 1 /\ old' = buckets /\ row' = 0
        /\ buckets' = NoBuckets(level + 1) /\ pending' = <<e>>
        /\ scopes' = scopes /\ scopes_size' = scopes_size /\ header' = header
    BY <2>1 DEF StartGrowth
  <2>3. level + 1 \in DOMAIN BucketSizes /\ level + 1 > 1 /\ (level + 1) - 1 = level
    BY <1>3, SizesAssumption DEF Full, IInv, TypeOK
  <2>4. buckets' \in [0..(BucketSizes[level + 1] - 1) -> Seq(Nat)]
    BY <2>2 DEF NoBuckets
  <2>5. growing' /\ pending' \in Seq(Binding) /\ Len(pending') <= 1
    <3> HIDE DEF e
    <3> QED BY <1>1, <2>2 DEF growing
  <2>6. TypeOK'
    <3> HIDE DEF e
    <3> QED BY <2>2, <2>3, <2>4, <2>5 DEF IInv, TypeOK
  <2>7. NothingLost'
    <3>1. ASSUME NEW k \in DOMAIN entries
          PROVE  \E c \in DOMAIN old' : c >= row' /\ k \in Range(old'[c])
      <4>1. Index(entries[k].name, level) \in DOMAIN buckets
        BY EntryType, IndexInRange DEF IInv, TypeOK
      <4>2. k \in Range(buckets[Index(entries[k].name, level)])
        BY DEF IInv, NothingLost, Filed
      <4>3. \A c \in DOMAIN buckets : c >= 0
        BY DEF IInv, TypeOK
      <4> QED BY <2>2, <4>1, <4>2, <4>3
    <3>2. \A c \in DOMAIN buckets' : Range(buckets'[c]) = {}
      BY <2>2 DEF NoBuckets, Range
    <3>3. \A c \in DOMAIN old' : Range(old'[c]) \subseteq DOMAIN entries
      BY <2>2 DEF IInv, NothingLost
    <3> HIDE DEF e
    <3> QED BY <2>2, <2>5, <3>1, <3>2, <3>3 DEF IInv, NothingLost, Filed
  <2> QED BY <2>6, <2>7 DEF IInv
<1>4. CASE ~Full
  <2>1. /\ Insert(e) /\ level' = level
        /\ pending' = <<>> /\ old' = <<>> /\ row' \in Nat
    BY <1>2, <1>4 DEF SymTable_put
  <2>2. Chained
    BY DEF Chained, IInv, NothingLost, Filed
  <2> HIDE DEF e
  <2> QED BY <1>1, <2>1, <2>2, InsertStep
<1> QED BY <1>3, <1>4

\* One node moves from the old array to the new one.
LEMMA MoveNodeStep ==
  ASSUME IInv, MoveNode
  PROVE  IInv'
<1> DEFINE k == Head(old[row])
           b == Index(entries[k].name, level)
<1>1. /\ growing /\ row \in DOMAIN old /\ old[row] # <<>>
      /\ buckets' = [buckets EXCEPT ![b] = <<k>> \o @]
      /\ old' = [old EXCEPT ![row] = Tail(@)]
      /\ entries' = entries /\ level' = level /\ scopes' = scopes
      /\ scopes_size' = scopes_size /\ row' = row /\ pending' = pending
      /\ nest' = nest /\ header' = header /\ crashed' = crashed /\ growing'
  BY DEF MoveNode, growing
<1>2. /\ old \in [0..(BucketSizes[level - 1] - 1) -> Seq(Nat)]
      /\ old[row] \in Seq(Nat) /\ level > 1
      /\ DOMAIN old = 0..(BucketSizes[level - 1] - 1)
  BY <1>1 DEF IInv, TypeOK
<1>3. /\ k \in Nat /\ Tail(old[row]) \in Seq(Nat)
      /\ Range(old[row]) = {k} \union Range(Tail(old[row]))
  BY <1>1, <1>2, TailRange
<1>4. k \in DOMAIN entries
  BY <1>1, <1>3 DEF IInv, NothingLost
<1>5. b \in DOMAIN buckets /\ buckets[b] \in Seq(Nat)
  BY <1>4, EntryType, IndexInRange DEF IInv, TypeOK
<1>6. /\ <<k>> \o buckets[b] \in Seq(Nat)
      /\ Range(<<k>> \o buckets[b]) = {k} \union Range(buckets[b])
  BY <1>3, <1>5, PushRange
<1> HIDE DEF k, b
<1>7. /\ buckets' \in [0..(BucketSizes[level] - 1) -> Seq(Nat)]
      /\ Range(buckets'[b]) = {k} \union Range(buckets[b])
      /\ \A c \in DOMAIN buckets : c # b => buckets'[c] = buckets[c]
      /\ DOMAIN buckets' = DOMAIN buckets
  BY <1>1, <1>5, <1>6 DEF IInv, TypeOK
<1>8. /\ old' \in [0..(BucketSizes[level - 1] - 1) -> Seq(Nat)]
      /\ Range(old[row]) = {k} \union Range(old'[row])
      /\ \A c \in DOMAIN old : c # row => old'[c] = old[c]
      /\ DOMAIN old' = DOMAIN old
  BY <1>1, <1>2, <1>3
<1>9. TypeOK'
  BY <1>1, <1>2, <1>7, <1>8 DEF IInv, TypeOK
<1>10. NothingLost'
  <2>1. ASSUME NEW j \in DOMAIN entries PROVE Filed(j)'
    <3>1. CASE j = k
      BY <1>1, <1>7, <3>1 DEF Filed, b
    <3>2. CASE j # k /\ j \in Range(buckets[Index(entries[j].name, level)])
      <4>1. Index(entries[j].name, level) \in DOMAIN buckets
        BY EntryType, IndexInRange DEF IInv, TypeOK
      <4> QED BY <1>1, <1>7, <3>2, <4>1 DEF Filed
    <3>3. CASE j # k /\ \E c \in DOMAIN old : c >= row /\ j \in Range(old[c])
      BY <1>1, <1>8, <3>3 DEF Filed
    <3> QED BY <3>1, <3>2, <3>3 DEF IInv, NothingLost, Filed
  <2>2. ASSUME NEW c \in DOMAIN buckets', NEW j \in Range(buckets'[c])
        PROVE  j \in DOMAIN entries /\ Index(entries[j].name, level) = c
    <3>1. CASE c = b /\ j = k
      BY <1>4, <3>1 DEF b
    <3>2. CASE c # b \/ j # k
      BY <1>7, <3>2 DEF IInv, NothingLost
    <3> QED BY <3>1, <3>2
  <2>3. \A c \in DOMAIN old' : Range(old'[c]) \subseteq DOMAIN entries
    BY <1>8 DEF IInv, NothingLost
  <2> QED BY <1>1, <2>1, <2>2, <2>3 DEF IInv, NothingLost
<1> QED BY <1>9, <1>10 DEF IInv

\* An emptied chain is passed over.
LEMMA NextRowStep ==
  ASSUME IInv, NextRow
  PROVE  IInv'
<1>1. /\ growing /\ row \in DOMAIN old /\ old[row] = <<>> /\ row' = row + 1
      /\ entries' = entries /\ level' = level /\ buckets' = buckets
      /\ scopes' = scopes /\ scopes_size' = scopes_size /\ old' = old
      /\ pending' = pending /\ nest' = nest /\ header' = header
      /\ crashed' = crashed /\ growing'
  BY DEF NextRow, growing
<1>2. old \in [0..(BucketSizes[level - 1] - 1) -> Seq(Nat)] /\ row \in Nat
  BY <1>1 DEF IInv, TypeOK
<1>3. TypeOK'
  BY <1>1, <1>2 DEF IInv, TypeOK
<1>4. ASSUME NEW c \in DOMAIN old, c >= row, Range(old[c]) # {}
      PROVE  c >= row'
  <2>1. c # row
    BY <1>1, <1>4 DEF Range
  <2>2. c \in Int /\ row \in Int
    BY <1>2
  <2> QED BY <1>1, <1>4, <2>1, <2>2
<1>5. NothingLost'
  BY <1>1, <1>4 DEF IInv, NothingLost, Filed
<1> QED BY <1>3, <1>5 DEF IInv

\* The old array is empty: every entry is in its new chain.
LEMMA FinishedIsChained ==
  ASSUME IInv, FinishGrowth
  PROVE  Chained
<1>1. growing /\ row \notin DOMAIN old
  BY DEF FinishGrowth
<1>2. \A c \in DOMAIN old : ~(c >= row)
  <2>1. row \in Nat /\ level - 1 \in DOMAIN BucketSizes
        /\ DOMAIN old = 0..(BucketSizes[level - 1] - 1)
    BY <1>1, SizesAssumption DEF IInv, TypeOK
  <2>2. BucketSizes[level - 1] \in Nat
    BY <2>1, SizesAssumption
  <2> QED BY <1>1, <2>1, <2>2
<1> QED BY <1>2 DEF Chained, IInv, NothingLost, Filed

\* The insertion that growth was for.
LEMMA FinishGrowthStep ==
  ASSUME IInv, FinishGrowth
  PROVE  IInv'
<1>1. /\ growing /\ Insert(pending[1])
      /\ pending' = <<>> /\ old' = <<>> /\ row' \in Nat
      /\ level' = level /\ nest' = nest /\ crashed' = crashed
  BY DEF FinishGrowth
<1>2. pending[1] \in Binding
  BY <1>1 DEF growing, IInv, TypeOK
<1> QED BY <1>1, <1>2, FinishedIsChained, InsertStep

\* Hiding a scope and closing a function change flags only.
LEMMA LeaveBlockStep ==
  ASSUME IInv, LeaveBlock
  PROVE  IInv'
<1>1. CASE current_scope >= scopes_size
  <2>1. UNCHANGED table /\ UNCHANGED <<nest, header>> /\ crashed' = TRUE
    BY <1>1 DEF LeaveBlock, Crash
  <2> QED BY <2>1 DEF IInv, TypeOK, NothingLost, Filed, growing, table
<1>2. CASE ~(current_scope >= scopes_size)
  <2> DEFINE gone == [k \in DOMAIN entries |->
                        IF k \in Range(scopes[current_scope])
                        THEN [entries[k] EXCEPT !.isActive = FALSE]
                        ELSE entries[k]]
             f == nest[Len(nest)]
             g == SymTable_get(gone, entries[f].name)
  <2>1. /\ entries' = IF f = 0 THEN gone ELSE [gone EXCEPT ![g].func_is_open = FALSE]
        /\ nest # <<>> /\ nest' = SubSeq(nest, 1, Len(nest) - 1)
        /\ ~growing /\ pending' = pending
        /\ level' = level /\ buckets' = buckets /\ scopes' = scopes
        /\ scopes_size' = scopes_size /\ old' = old /\ row' = row
        /\ header' = header /\ crashed' = crashed
    <3>1. g = SymTable_get(gone, entries[nest[Len(nest)]].name)
      OBVIOUS
    <3> QED BY <1>2, <3>1 DEF LeaveBlock, Ready, close_function
  <2>2. DOMAIN gone = DOMAIN entries
    OBVIOUS
  <2>3. ASSUME NEW k \in DOMAIN entries
        PROVE  /\ gone[k] \in Binding
               /\ gone[k].name = entries[k].name /\ gone[k].scope = entries[k].scope
    <3>1. entries[k] \in Binding
      BY EntryType DEF IInv
    <3> QED BY <3>1 DEF Binding
  <2> HIDE DEF gone, g
  <2>4. DOMAIN entries' = DOMAIN entries
    BY <2>1, <2>2
  <2>5. ASSUME NEW k \in DOMAIN entries
        PROVE  /\ entries'[k] \in Binding
               /\ entries'[k].name = entries[k].name
               /\ entries'[k].scope = entries[k].scope
    <3>1. entries'[k] = gone[k] \/ entries'[k] = [gone[k] EXCEPT !.func_is_open = FALSE]
      BY <2>1, <2>2
    <3> QED BY <2>3, <3>1 DEF Binding
  <2>6. entries' \in Seq(Binding)
    <3>1. /\ Len(entries) \in Nat /\ DOMAIN entries = 1..Len(entries)
      BY DEF IInv, TypeOK
    <3>2. entries' = [k \in 1..Len(entries) |-> entries'[k]]
      BY <2>1, <2>2, <2>4, <3>1 DEF gone
    <3> QED BY <2>5, <3>1, <3>2
  <2>7. nest' \in Seq(Nat)
    BY <2>1 DEF IInv, TypeOK
  <2>8. TypeOK'
    <3>1. TypeOK
      BY DEF IInv
    <3>2. growing' = growing
      BY <2>1 DEF growing
    <3> HIDE DEF IInv
    <3> QED BY <2>1, <2>6, <2>7, <3>1, <3>2 DEF TypeOK
  <2>9. NothingLost'
    BY <2>1, <2>4, <2>5 DEF IInv, NothingLost, Filed, growing
  <2> QED BY <2>8, <2>9 DEF IInv
<1> QED BY <1>1, <1>2

\* The empty table satisfies the invariant.
LEMMA InitHolds == Init => IInv
<1> SUFFICES ASSUME Init PROVE IInv
  OBVIOUS
<1>1. BucketSizes[1] \in Nat \ {0} /\ 1 \in DOMAIN BucketSizes
  BY SizesAssumption
<1>2. /\ buckets \in [0..(BucketSizes[1] - 1) -> Seq(Nat)]
      /\ \A b \in DOMAIN buckets : Range(buckets[b]) = {}
  BY DEF Init, NoBuckets, Range
<1>3. /\ scopes \in [0..(InitialScopes - 1) -> Seq(Nat)]
      /\ \A s \in DOMAIN scopes : Range(scopes[s]) = {}
  BY DEF Init, Range
<1>4. TypeOK
  BY <1>1, <1>2, <1>3, ScopesAssumption DEF Init, TypeOK, growing
<1>5. NothingLost
  BY <1>2, <1>3 DEF Init, NothingLost
<1> QED BY <1>4, <1>5 DEF IInv

\* Every call of the parser, and every step of a growth, keeps the invariant.
LEMMA StepHolds == IInv /\ [Next]_vars => IInv'
<1> SUFFICES ASSUME IInv, [Next]_vars PROVE IInv'
  OBVIOUS
<1>1. current_scope \in Nat /\ current_scope + 1 \in Nat
  BY DEF current_scope, IInv, TypeOK
<1>2. ASSUME NEW n \in Var, Identifier(n) PROVE IInv'
  <2>1. CASE current_scope >= scopes_size
    BY <1>2, <2>1 DEF Identifier, Crash, table, IInv, TypeOK, NothingLost, Filed, growing
  <2>2. CASE ~(current_scope >= scopes_size)
    BY <1>1, <1>2, <2>2, PutStep DEF Identifier, Ready, Name
  <2> QED BY <2>1, <2>2
<1>3. ASSUME NEW n \in Var, LocalIdentifier(n) PROVE IInv'
  BY <1>1, <1>3, PutStep DEF LocalIdentifier, Ready, Name
<1>4. ASSUME NEW n \in Var, Formal(n) PROVE IInv'
  <2>1. /\ ~growing /\ n \in Name /\ nest' = nest /\ crashed' = crashed
        /\ SymTable_put(n, current_scope + 1, FALSE)
    BY <1>4 DEF Formal, Ready, Name
  <2> HIDE DEF current_scope
  <2> QED BY <1>1, <2>1, PutStep
<1>5. ASSUME NEW n \in Temp, create_temp_symbol(n) PROVE IInv'
  BY <1>5, PutStep DEF create_temp_symbol, Ready, Name
<1>6. ASSUME NEW f \in Fun, FunctionName(f) PROVE IInv'
  BY <1>1, <1>6, PutStep DEF FunctionName, Ready, Name
<1>7. CASE EnterBlock
  <2>1. nest' \in Seq(Nat) /\ header' \in Nat
    BY <1>7 DEF EnterBlock, IInv, TypeOK
  <2> QED BY <1>7, <2>1 DEF EnterBlock, table, IInv, TypeOK, NothingLost, Filed, growing
<1>8. CASE UNCHANGED vars
  BY <1>8 DEF vars, table, IInv, TypeOK, NothingLost, Filed, growing
<1> QED BY <1>2, <1>3, <1>4, <1>5, <1>6, <1>7, <1>8, MoveNodeStep, NextRowStep,
           FinishGrowthStep, LeaveBlockStep DEF Next, Stopped

\* The variables of the table always have the shapes the C types give them;
\* in particular the bucket array always has the size that is recorded for it.
THEOREM TypeCorrect == Spec => []TypeOK
<1>1. IInv => TypeOK
  BY DEF IInv
<1> QED BY <1>1, InitHolds, StepHolds, PTL DEF Spec

\* No entry is ever lost from a chain or a list, and none is in a wrong one,
\* through every interleaving of insertions, growth and block exits.
THEOREM NeverLosesEntries == Spec => []NothingLost
<1>1. IInv => NothingLost
  BY DEF IInv
<1> QED BY <1>1, InitHolds, StepHolds, PTL DEF Spec

-----------------------------------------------------------------------------
(* The lookups. *)

\* The chain and the list of a name's bindings have a hit at the same time.
LEMMA IndexesAgree == IInv => LookupsAgree
<1> SUFFICES ASSUME IInv, ~growing, NEW n \in Name
    PROVE  /\ SymTable_get(entries, n) = 0 <=> Sym!Active(entries, n) = {}
           /\ \A s \in DOMAIN scopes :
                /\ SymTable_contains(n, s) <=> Sym!Contains(entries, n, s)
                /\ SymTable_contains(n, s) <=> SymTable_get_entry_at_scope(n, s) # 0
  BY DEF LookupsAgree
<1> DEFINE chain == buckets[Index(n, level)]
<1>1. Index(n, level) \in DOMAIN buckets /\ chain \in Seq(Nat)
  BY IndexInRange DEF IInv, TypeOK
<1>2. ASSUME NEW k PROVE (k \in Range(chain) /\ Live(k, n)) <=> k \in Sym!Active(entries, n)
  <2>1. k \in Range(chain) => k \in DOMAIN entries
    BY <1>1 DEF IInv, NothingLost
  <2>2. k \in DOMAIN entries => k \in Range(buckets[Index(entries[k].name, level)])
    BY DEF IInv, NothingLost, Filed
  <2> QED BY <2>1, <2>2 DEF Live, Sym!Active
<1> HIDE DEF chain
<1>3. SymTable_get(entries, n) = 0 <=> Sym!Active(entries, n) = {}
  <2> DEFINE hits == {i \in DOMAIN chain : Live(chain[i], n)}
  <2>1. SymTable_get(entries, n) = IF hits = {} THEN 0 ELSE chain[Min(hits)]
    BY DEF SymTable_get, First, chain, Live
  <2>2. CASE hits = {}
    BY <1>2, <2>1, <2>2 DEF Range
  <2>3. CASE hits # {}
    <3>1. Min(hits) \in hits
      <4>1. hits \subseteq Nat
        BY <1>1
      <4> HIDE DEF hits
      <4> QED BY <2>3, <4>1, MinIsFirst
    <3>2. chain[Min(hits)] \in Sym!Active(entries, n)
      BY <1>2, <3>1 DEF Range
    <3>3. \A k \in Sym!Active(entries, n) : k # 0
      BY EntryType DEF Sym!Active, IInv, TypeOK
    <3> QED BY <2>1, <2>3, <3>2, <3>3
  <2> QED BY <2>2, <2>3
<1>4. ASSUME NEW s \in DOMAIN scopes
      PROVE  /\ SymTable_contains(n, s) <=> Sym!Contains(entries, n, s)
             /\ SymTable_contains(n, s) <=> SymTable_get_entry_at_scope(n, s) # 0
  <2>1. SymTable_contains(n, s) <=> Sym!Contains(entries, n, s)
    <3>1. SymTable_contains(n, s)
            <=> \E k : k \in Range(chain) /\ Live(k, n) /\ entries[k].scope = s
      BY DEF SymTable_contains, chain
    <3>2. Sym!Contains(entries, n, s)
            <=> \E k : k \in Sym!Active(entries, n) /\ entries[k].scope = s
      BY DEF Sym!Contains, Sym!ActiveAt
    <3> QED BY <1>2, <3>1, <3>2
  <2> DEFINE hits == {i \in DOMAIN scopes[s] : Live(scopes[s][i], n)}
  <2>2. scopes[s] \in Seq(Nat) /\ s < scopes_size /\ ~(s >= scopes_size)
    BY DEF IInv, TypeOK
  <2>3. SymTable_get_entry_at_scope(n, s) = IF hits = {} THEN 0 ELSE scopes[s][Min(hits)]
    BY <2>2 DEF SymTable_get_entry_at_scope, First
  <2>4. CASE hits = {}
    <3>1. ~Sym!Contains(entries, n, s)
      BY <2>4 DEF Sym!Contains, Sym!ActiveAt, Sym!Active, IInv, NothingLost, Range, Live
    <3> QED BY <2>1, <2>3, <2>4, <3>1
  <2>5. CASE hits # {}
    <3>1. Min(hits) \in hits
      <4>1. hits \subseteq Nat
        BY <2>2
      <4> HIDE DEF hits
      <4> QED BY <2>5, <4>1, MinIsFirst
    <3> DEFINE k == scopes[s][Min(hits)]
    <3>2. k \in DOMAIN entries /\ entries[k].scope = s /\ Live(k, n)
      BY <3>1 DEF IInv, NothingLost, Range
    <3>3. Sym!Contains(entries, n, s) /\ k # 0
      BY <3>2, EntryType DEF Sym!Contains, Sym!ActiveAt, Sym!Active, Live, IInv, TypeOK
    <3> QED BY <2>1, <2>3, <2>5, <3>3
  <2> QED BY <2>1, <2>4, <2>5
<1> QED BY <1>3, <1>4

\* Whenever no growth is under way, the hash chains and the scope lists answer
\* every lookup alike, and find what was declared and only that.
THEOREM LookupsNeverDisagree == Spec => []LookupsAgree
<1> QED BY InitHolds, StepHolds, IndexesAgree, PTL DEF Spec

-----------------------------------------------------------------------------
(* What the lookups of the symbol table return, for every hash function and   *)
(* every program: the binding their definitions in Symbols name, and never    *)
(* one of a block that has been closed.  As long as the bucket array has not  *)
(* grown, the table implements Scoping.                                       *)

-----------------------------------------------------------------------------
(* Ordered lists, and the hits in them. *)

Ascending(l) == \A i, j \in DOMAIN l : i < j => l[i] < l[j]
Descending(l) == \A i, j \in DOMAIN l : i < j => l[i] > l[j]

\* The first hit in an ascending list is the oldest of the hits.
LEMMA FirstIsOldest ==
  ASSUME NEW l \in Seq(Nat), Ascending(l), NEW H, H \subseteq DOMAIN l, H # {}
  PROVE  l[Min(H)] = Min({l[i] : i \in H})
<1> DEFINE S == {l[i] : i \in H}
           m == Min(H)
<1>1. H \subseteq Nat
  OBVIOUS
<1>2. m \in H /\ \A i \in H : m <= i
  BY <1>1, MinIsFirst
<1>3. S \subseteq Nat /\ l[m] \in S
  BY <1>2
<1>4. ASSUME NEW i \in H PROVE l[m] <= l[i]
  <2>1. m = i \/ m < i
    BY <1>1, <1>2
  <2>2. l[m] \in Nat /\ l[i] \in Nat /\ i \in DOMAIN l /\ m \in DOMAIN l
    BY <1>2
  <2> HIDE DEF m
  <2> QED BY <2>1, <2>2 DEF Ascending
<1>5. \A y \in S : l[m] <= y
  BY <1>4
<1> HIDE DEF S, m
<1>6. Min(S) = l[m]
  BY <1>3, <1>5, MinIs
<1> QED BY <1>6 DEF S, m

\* The last hit in an ascending list is the newest of the hits.
LEMMA LastIsNewest ==
  ASSUME NEW l \in Seq(Nat), Ascending(l), NEW H, H \subseteq DOMAIN l, H # {}
  PROVE  Max(H) \in H /\ l[Max(H)] = Max({l[i] : i \in H})
<1> DEFINE S == {l[i] : i \in H}
           m == Max(H)
<1>1. Len(l) \in Nat /\ H \subseteq 0..Len(l)
  OBVIOUS
<1>2. m \in H /\ \A i \in H : m >= i
  BY <1>1, MaxIsLast
<1>3. S \subseteq Nat /\ l[m] \in S
  BY <1>2
<1>4. ASSUME NEW i \in H PROVE l[m] >= l[i]
  <2>1. m = i \/ i < m
    BY <1>1, <1>2
  <2>2. l[m] \in Nat /\ l[i] \in Nat /\ i \in DOMAIN l /\ m \in DOMAIN l
    BY <1>2
  <2> HIDE DEF m
  <2> QED BY <2>1, <2>2 DEF Ascending
<1>5. \A y \in S : l[m] >= y
  BY <1>4
<1> HIDE DEF S, m
<1>6. Max(S) = l[m]
  BY <1>3, <1>5, MaxIs
<1> QED BY <1>2, <1>6 DEF S, m

\* The first hit in a descending chain is the newest of the hits.
LEMMA FirstIsNewest ==
  ASSUME NEW l \in Seq(Nat), Descending(l), NEW H, H \subseteq DOMAIN l, H # {}
  PROVE  l[Min(H)] = Max({l[i] : i \in H})
<1> DEFINE S == {l[i] : i \in H}
           m == Min(H)
<1>1. H \subseteq Nat
  OBVIOUS
<1>2. m \in H /\ \A i \in H : m <= i
  BY <1>1, MinIsFirst
<1>3. S \subseteq Nat /\ l[m] \in S
  BY <1>2
<1>4. ASSUME NEW i \in H PROVE l[m] >= l[i]
  <2>1. m = i \/ m < i
    BY <1>1, <1>2
  <2>2. l[m] \in Nat /\ l[i] \in Nat /\ i \in DOMAIN l /\ m \in DOMAIN l
    BY <1>2
  <2> HIDE DEF m
  <2> QED BY <2>1, <2>2 DEF Descending
<1>5. \A y \in S : l[m] >= y
  BY <1>4
<1> HIDE DEF S, m
<1>6. Max(S) = l[m]
  BY <1>3, <1>5, MaxIs
<1> QED BY <1>6 DEF S, m
\* What is left of a stack when its top is taken off.
LEMMA FrontOf ==
  ASSUME NEW S, NEW s \in Seq(S), s # <<>>
  PROVE  LET r == SubSeq(s, 1, Len(s) - 1)
         IN  r \in Seq(S) /\ Len(r) = Len(s) - 1 /\ \A i \in 1..Len(r) : r[i] = s[i]
<1>1. Len(s) \in Nat \ {0} /\ \A i \in 1..(Len(s) - 1) : s[i] \in S
  OBVIOUS
<1>2. 1 \in Int /\ Len(s) - 1 \in Int
  BY <1>1
<1> DEFINE n == Len(s) - 1
           r == SubSeq(s, 1, n)
<1>3. /\ r \in Seq(S) /\ Len(r) = IF 1 <= n THEN n - 1 + 1 ELSE 0
      /\ \A i \in 1..(n - 1 + 1) : r[i] = s[1 + i - 1]
  BY <1>1, <1>2, SubSeqProperties
<1>4. n \in Nat
  BY <1>1
<1> HIDE DEF n, r
<1>5. Len(r) = n /\ \A i \in 1..n : r[i] = s[i]
  BY <1>3, <1>4
<1> QED BY <1>3, <1>5 DEF n, r

-----------------------------------------------------------------------------
(* The order of the lists and what the scopes of the entries can be.          *)

\* Lists of scopes are appended to.
ListsAscend == \A s \in DOMAIN scopes : Ascending(scopes[s])

\* Chains are pushed at the head, and only growth turns them round.
ChainsDescend == level = 1 => \A b \in DOMAIN buckets : Descending(buckets[b])

\* header is NULL or an entry.
HeaderKnown == header \in 0..Len(entries)

\* The innermost scope there is: that of the formals while a header is read.
Inner == IF header = 0 THEN current_scope ELSE current_scope + 1

\* What may be put now: names in the innermost scope, those of functions
\* outside of headers, and temporaries in the outermost scope.
Fits(e) ==
  /\ e.isActive
  /\ \/ e.scope = Inner /\ (e.func_is_open => header = 0 /\ e.name \in Fun)
     \/ e.scope = 0 /\ e.name \in Temp /\ header = 0 /\ ~e.func_is_open

\* The insertion that waits for growth is still one that may be made.
PendingFits == growing => Fits(pending[1])

OInv == IInv /\ ListsAscend /\ ChainsDescend /\ HeaderKnown /\ PendingFits /\ NoGhosts

\* An entry is put: what Insert does, after growth or without it.
Put(e) ==
  /\ Insert(e)
  /\ e \in Binding /\ Fits(e) /\ Chained
  /\ level' = level /\ pending' = <<>> /\ old' = <<>> /\ row' \in Nat
  /\ nest' = nest /\ crashed' = crashed

\* A step of growth, a crash, or nothing: what is declared stays as it is.
Internal ==
  /\ entries' = entries /\ scopes' = scopes /\ scopes_size' = scopes_size
  /\ nest' = nest /\ header' = header
  /\ level' \in {level, level + 1} /\ (level' = level /\ level = 1 => buckets' = buckets)
  /\ growing' => \/ growing /\ pending' = pending
                 \/ ~growing /\ pending' # <<>> /\ Fits(pending'[1])
  /\ crashed => crashed'

\* A block is left and, when it was a body, its function closed.
Leave ==
  /\ Ready /\ header = 0 /\ nest # <<>> /\ current_scope < scopes_size
  /\ LeaveBlock

\* A SymTable_put is one of the first two.
LEMMA PutIs ==
  ASSUME IInv, ~growing, NEW n \in Name, NEW s \in Nat, NEW f \in BOOLEAN,
         SymTable_put(n, s, f), nest' = nest, crashed' = crashed,
         \/ s = Inner /\ (f => header = 0 /\ n \in Fun)
         \/ s = 0 /\ n \in Temp /\ header = 0 /\ ~f
  PROVE  LET e == [name |-> n, scope |-> s, isActive |-> TRUE, func_is_open |-> f]
         IN  e \in Binding /\ IF Full THEN Internal /\ header' = header ELSE Put(e)
<1> DEFINE e == [name |-> n, scope |-> s, isActive |-> TRUE, func_is_open |-> f]
<1>1. e \in Binding /\ Fits(e)
  BY DEF Binding, Fits
<1>2. pending = <<>> /\ old = <<>> /\ row \in Nat /\ level \in Nat
  BY SizesAssumption DEF growing, IInv, TypeOK
<1>3. CASE Full
  <2>1. StartGrowth(e)
    BY <1>3 DEF SymTable_put
  <2>2. /\ entries' = entries /\ level' = level + 1 /\ pending' = <<e>>
        /\ scopes' = scopes /\ scopes_size' = scopes_size /\ header' = header
    BY <2>1 DEF StartGrowth
  <2> HIDE DEF e
  <2>3. pending' # <<>> /\ pending'[1] = e
    BY <2>2
  <2>4. level' # level
    BY <1>2, <2>2
  <2> QED BY <1>1, <1>3, <2>2, <2>3, <2>4 DEF Internal, e
<1>4. CASE ~Full
  <2>1. Insert(e) /\ level' = level /\ old' = old /\ row' = row /\ pending' = pending
    BY <1>4 DEF SymTable_put
  <2>2. Chained
    BY DEF Chained, IInv, NothingLost, Filed
  <2> HIDE DEF e
  <2> QED BY <1>1, <1>2, <1>4, <2>1, <2>2 DEF Put, e
<1> QED BY <1>3, <1>4

\* A SymTable_put into the innermost scope, or of a temporary into the
\* outermost, inserts its entry or starts a growth that holds it back.
LEMMA PutKinds ==
  ASSUME IInv, ~growing, NEW n \in Name, NEW s \in Nat, NEW f \in BOOLEAN,
         SymTable_put(n, s, f), nest' = nest, crashed' = crashed,
         \/ s = Inner /\ (f => header = 0 /\ n \in Fun)
         \/ s = 0 /\ n \in Temp /\ header = 0 /\ ~f
  PROVE  (\E e \in Binding : Put(e)) \/ Internal
BY PutIs

\* What a step can do: put an entry, enter or leave a block, or nothing that a
\* program can see.
LEMMA StepKinds ==
  ASSUME IInv, PendingFits, [Next]_vars
  PROVE  \/ \E e \in Binding : Put(e)
         \/ Internal
         \/ EnterBlock
         \/ Leave
<1>0. current_scope \in Nat /\ current_scope + 1 \in Nat /\ scopes_size \in Nat /\ level \in Nat
  BY SizesAssumption DEF current_scope, IInv, TypeOK
<1>1. ASSUME UNCHANGED table, nest' = nest, header' = header, crashed => crashed'
      PROVE  Internal
  BY <1>1 DEF Internal, table, growing
<1>2. ASSUME NEW n \in Var, Identifier(n)
      PROVE  (\E e \in Binding : Put(e)) \/ Internal
  <2>1. CASE current_scope >= scopes_size
    BY <1>1, <1>2, <2>1 DEF Identifier, Crash
  <2>2. CASE ~(current_scope >= scopes_size)
    <3>1. /\ ~growing /\ n \in Name /\ nest' = nest /\ crashed' = crashed
          /\ SymTable_put(n, current_scope, FALSE) /\ current_scope = Inner
      BY <1>2, <2>2 DEF Identifier, Ready, Name, Inner
    <3> QED BY <1>0, <3>1, PutKinds
  <2> QED BY <2>1, <2>2
<1>3. ASSUME NEW n \in Var, LocalIdentifier(n)
      PROVE  (\E e \in Binding : Put(e)) \/ Internal
  <2>1. /\ ~growing /\ n \in Name /\ nest' = nest /\ crashed' = crashed
        /\ SymTable_put(n, current_scope, FALSE) /\ current_scope = Inner
    BY <1>3 DEF LocalIdentifier, Ready, Name, Inner
  <2> QED BY <1>0, <2>1, PutKinds
<1>4. ASSUME NEW n \in Var, Formal(n)
      PROVE  (\E e \in Binding : Put(e)) \/ Internal
  <2>1. /\ ~growing /\ n \in Name /\ nest' = nest /\ crashed' = crashed
        /\ SymTable_put(n, current_scope + 1, FALSE) /\ current_scope + 1 = Inner
    BY <1>4 DEF Formal, Ready, Name, Inner
  <2> QED BY <1>0, <2>1, PutKinds
<1>5. ASSUME NEW n \in Temp, create_temp_symbol(n)
      PROVE  (\E e \in Binding : Put(e)) \/ Internal
  BY <1>5, PutKinds DEF create_temp_symbol, Ready, Name
<1>6. ASSUME NEW f \in Fun, FunctionName(f)
      PROVE  (\E e \in Binding : Put(e)) \/ Internal
  <2>1. /\ ~growing /\ f \in Name /\ nest' = nest /\ crashed' = crashed
        /\ SymTable_put(f, current_scope, TRUE) /\ current_scope = Inner /\ header = 0
    BY <1>6 DEF FunctionName, Ready, Name, Inner
  <2> QED BY <1>0, <2>1, PutKinds
<1>7. CASE MoveNode
  <2>1. /\ growing /\ pending' = pending /\ level' = level
        /\ entries' = entries /\ scopes' = scopes /\ scopes_size' = scopes_size
        /\ nest' = nest /\ header' = header /\ crashed' = crashed
    BY <1>7 DEF MoveNode
  <2>2. level # 1
    BY <2>1 DEF IInv, TypeOK
  <2> QED BY <2>1, <2>2 DEF Internal
<1>8. CASE NextRow
  BY <1>8 DEF NextRow, Internal
<1>9. CASE FinishGrowth
  <2>1. /\ growing /\ row \notin DOMAIN old /\ Insert(pending[1])
        /\ pending' = <<>> /\ old' = <<>> /\ row' \in Nat
        /\ level' = level /\ nest' = nest /\ crashed' = crashed
    BY <1>9 DEF FinishGrowth
  <2>2. pending[1] \in Binding
    BY <2>1 DEF growing, IInv, TypeOK
  <2>3. Fits(pending[1])
    BY <2>1 DEF PendingFits
  <2>4. Chained
    BY <1>9, FinishedIsChained
  <2> QED BY <2>1, <2>2, <2>3, <2>4 DEF Put
<1>10. CASE LeaveBlock
  <2>1. CASE current_scope >= scopes_size
    BY <1>1, <1>10, <2>1 DEF LeaveBlock, Crash
  <2>2. CASE ~(current_scope >= scopes_size)
    BY <1>0, <1>10, <2>2 DEF Leave, LeaveBlock
  <2> QED BY <2>1, <2>2
<1>11. CASE UNCHANGED vars
  BY <1>1, <1>11 DEF vars
<1> QED BY <1>2, <1>3, <1>4, <1>5, <1>6, <1>7, <1>8, <1>9, <1>10, <1>11 DEF Next, Stopped

\* The list of a scope, also of one that scopes[] has no room for yet.
ListOf(s) == IF s \in DOMAIN scopes THEN scopes[s] ELSE <<>>

\* What an insertion changes: one entry more, last in its list.
LEMMA PutEffect ==
  ASSUME IInv, NEW e \in Binding, Put(e)
  PROVE  LET k == Len(entries) + 1 IN
         /\ k \in Nat \ {0} /\ k \notin DOMAIN entries
         /\ Len(entries') = k
         /\ DOMAIN entries' = (DOMAIN entries) \union {k}
         /\ entries'[k] = e
         /\ \A j \in DOMAIN entries : entries'[j] = entries[j] /\ j \in Nat /\ j < k
         /\ DOMAIN scopes \subseteq DOMAIN scopes'
         /\ \A s \in DOMAIN scopes' :
              scopes'[s] = IF s = e.scope THEN Append(ListOf(s), k) ELSE ListOf(s)
         /\ header' = IF e.func_is_open THEN k ELSE header
         /\ scopes_size' \in Nat /\ scopes_size' >= scopes_size
<1> DEFINE k == Len(entries) + 1
           size == IF e.scope >= scopes_size
                   THEN scopes_size + 4 * (e.scope + 1 - scopes_size)
                   ELSE scopes_size
           wide == [t \in 0..(size - 1) |->
                      IF t < scopes_size THEN scopes[t] ELSE <<>>]
<1>1. /\ entries' = Append(entries, e)
      /\ scopes' = [wide EXCEPT ![e.scope] = Append(@, k)]
      /\ scopes_size' = size
      /\ header' = IF e.func_is_open THEN k ELSE header
  BY DEF Put, Insert, scope_insert
<1>2. e.scope \in Nat /\ scopes_size \in Nat \ {0}
  BY DEF Binding, IInv, TypeOK
<1>3. size \in Nat \ {0} /\ size >= scopes_size /\ e.scope < size
  BY <1>2
<1>4. DOMAIN scopes = 0..(scopes_size - 1)
  BY DEF IInv, TypeOK
<1> HIDE DEF size
<1>5. /\ DOMAIN wide = 0..(size - 1) /\ DOMAIN scopes \subseteq DOMAIN wide
      /\ \A t \in DOMAIN wide : wide[t] = ListOf(t)
      /\ e.scope \in DOMAIN wide
  BY <1>2, <1>3, <1>4 DEF ListOf
<1> HIDE DEF wide
<1>6. /\ DOMAIN scopes' = DOMAIN wide
      /\ \A s \in DOMAIN wide :
           scopes'[s] = IF s = e.scope THEN Append(ListOf(s), k) ELSE ListOf(s)
  <2> HIDE DEF k
  <2> QED BY <1>1, <1>5
<1>7. /\ k \in Nat \ {0} /\ k \notin DOMAIN entries
      /\ Len(entries') = k
      /\ DOMAIN entries' = (DOMAIN entries) \union {k}
      /\ entries'[k] = e
      /\ \A j \in DOMAIN entries : entries'[j] = entries[j] /\ j \in Nat /\ j < k
  <2>1. entries \in Seq(Binding)
    BY DEF IInv, TypeOK
  <2>2. entries' \in Seq(Binding) /\ Len(entries') = k /\ entries'[k] = e
    BY <1>1, <2>1
  <2>3. DOMAIN entries = 1..Len(entries) /\ DOMAIN entries' = 1..k /\ Len(entries) \in Nat
    BY <2>1, <2>2
  <2>4. \A j \in 1..Len(entries) : entries'[j] = entries[j]
    BY <1>1, <2>1
  <2> QED BY <2>2, <2>3, <2>4
<1> HIDE DEF k
<1> QED BY <1>1, <1>3, <1>5, <1>6, <1>7 DEF k

\* A number above all of a list's can be appended to it, or pushed in front.
LEMMA AppendAscends ==
  ASSUME NEW l \in Seq(Nat), Ascending(l), NEW k \in Nat, \A i \in DOMAIN l : l[i] < k
  PROVE  Ascending(Append(l, k))
<1> DEFINE m == Append(l, k)
<1>1. DOMAIN m = 1..(Len(l) + 1) /\ m[Len(l) + 1] = k /\ \A i \in DOMAIN l : m[i] = l[i]
  OBVIOUS
<1>2. DOMAIN l = 1..Len(l) /\ Len(l) \in Nat
  OBVIOUS
<1> HIDE DEF m
<1>3. ASSUME NEW i \in DOMAIN m, NEW j \in DOMAIN m, i < j PROVE m[i] < m[j]
  <2>1. i \in DOMAIN l
    BY <1>1, <1>2, <1>3
  <2>2. CASE j \in DOMAIN l
    BY <1>1, <1>3, <2>1, <2>2 DEF Ascending
  <2>3. CASE j \notin DOMAIN l
    BY <1>1, <1>2, <2>1, <2>3
  <2> QED BY <2>2, <2>3
<1> QED BY <1>3 DEF Ascending, m

\* A new head that is larger than every node leaves a chain descending.
LEMMA PushDescends ==
  ASSUME NEW l \in Seq(Nat), Descending(l), NEW k \in Nat, \A i \in DOMAIN l : l[i] < k
  PROVE  Descending(<<k>> \o l)
<1> DEFINE m == <<k>> \o l
<1>1. /\ DOMAIN m = 1..(Len(l) + 1) /\ m[1] = k
      /\ \A i \in 2..(Len(l) + 1) : i - 1 \in DOMAIN l /\ m[i] = l[i - 1]
  OBVIOUS
<1>2. Len(l) \in Nat /\ \A i \in DOMAIN l : l[i] \in Nat
  OBVIOUS
<1> HIDE DEF m
<1>3. ASSUME NEW i \in DOMAIN m, NEW j \in DOMAIN m, i < j PROVE m[i] > m[j]
  <2>1. j \in 2..(Len(l) + 1)
    BY <1>1, <1>2, <1>3
  <2>2. CASE i = 1
    BY <1>1, <1>2, <2>1, <2>2
  <2>3. CASE i # 1
    <3>1. i \in 2..(Len(l) + 1) /\ i - 1 < j - 1
      BY <1>1, <1>2, <1>3, <2>3
    <3> QED BY <1>1, <2>1, <3>1 DEF Descending
  <2> QED BY <2>2, <2>3
<1> QED BY <1>3 DEF Descending, m

\* An insertion keeps lists and chains in order and puts nothing out of scope.
LEMMA PutOrders ==
  ASSUME OInv, IInv', NEW e \in Binding, Put(e)
  PROVE  OInv'
<1> DEFINE k == Len(entries) + 1
           b == Index(e.name, level)
<1>1. /\ k \in Nat \ {0} /\ k \notin DOMAIN entries
      /\ Len(entries') = k
      /\ DOMAIN entries' = (DOMAIN entries) \union {k}
      /\ entries'[k] = e
      /\ \A j \in DOMAIN entries : entries'[j] = entries[j] /\ j \in Nat /\ j < k
      /\ DOMAIN scopes \subseteq DOMAIN scopes'
      /\ \A s \in DOMAIN scopes' :
           scopes'[s] = IF s = e.scope THEN Append(ListOf(s), k) ELSE ListOf(s)
      /\ header' = IF e.func_is_open THEN k ELSE header
  BY PutEffect DEF OInv
<1>2. /\ buckets' = [buckets EXCEPT ![b] = <<k>> \o @] /\ level' = level
      /\ nest' = nest /\ crashed' = crashed /\ current_scope' = current_scope
      /\ pending' = <<>> /\ Fits(e)
  BY DEF Put, Insert, current_scope
<1> HIDE DEF k
<1>3. ListsAscend'
  <2> SUFFICES ASSUME NEW s \in DOMAIN scopes' PROVE Ascending(scopes'[s])
    BY DEF ListsAscend
  <2>1. ListOf(s) \in Seq(Nat) /\ Ascending(ListOf(s)) /\ \A i \in DOMAIN ListOf(s) : ListOf(s)[i] < k
    <3>1. CASE s \in DOMAIN scopes
      <4>1. scopes[s] \in Seq(Nat) /\ Ascending(scopes[s])
        BY <3>1 DEF OInv, ListsAscend, IInv, TypeOK
      <4>2. \A i \in DOMAIN scopes[s] : scopes[s][i] \in DOMAIN entries
        BY <3>1 DEF OInv, IInv, NothingLost, Range
      <4> QED BY <1>1, <3>1, <4>1, <4>2 DEF ListOf
    <3>2. CASE s \notin DOMAIN scopes
      BY <3>2 DEF ListOf, Ascending
    <3> QED BY <3>1, <3>2
  <2>2. Ascending(Append(ListOf(s), k))
    BY <1>1, <2>1, AppendAscends
  <2> QED BY <1>1, <2>1, <2>2
<1>4. ChainsDescend'
  <2> SUFFICES ASSUME level = 1, NEW c \in DOMAIN buckets' PROVE Descending(buckets'[c])
    BY <1>2 DEF ChainsDescend
  <2>1. DOMAIN buckets' = DOMAIN buckets
    BY <1>2
  <2>2. buckets[c] \in Seq(Nat) /\ Descending(buckets[c])
    BY <2>1 DEF OInv, ChainsDescend, IInv, TypeOK
  <2>3. \A i \in DOMAIN buckets[c] : buckets[c][i] \in DOMAIN entries
    BY <2>1 DEF OInv, IInv, NothingLost, Range
  <2>4. \A i \in DOMAIN buckets[c] : buckets[c][i] < k
    BY <1>1, <2>3
  <2>5. Descending(<<k>> \o buckets[c])
    BY <1>1, <2>2, <2>4, PushDescends
  <2> HIDE DEF b
  <2> QED BY <1>2, <2>1, <2>2, <2>5
<1>5. HeaderKnown'
  BY <1>1 DEF OInv, HeaderKnown, IInv, TypeOK, k
<1>6. PendingFits'
  BY <1>2 DEF PendingFits, growing
<1>7. NoGhosts'
  <2> SUFFICES ASSUME ~crashed, NEW j \in DOMAIN entries', entries'[j].isActive
               PROVE  \/ entries'[j].scope <= current_scope
                      \/ header' # 0 /\ header' < j /\ entries'[j].scope = current_scope + 1
    BY <1>2 DEF NoGhosts
  <2>1. CASE j = k
    <3>1. header # 0 => header < k
      <4>1. header \in 0..Len(entries) /\ Len(entries) \in Nat
        BY DEF OInv, HeaderKnown, IInv, TypeOK
      <4> QED BY <4>1 DEF k
    <3>2. entries'[j] = e
      BY <1>1, <2>1
    <3>3. current_scope \in Nat
      BY DEF OInv, IInv, TypeOK, current_scope
    <3>4. CASE header = 0
      BY <1>2, <3>2, <3>3, <3>4 DEF Fits, Inner
    <3>5. CASE header # 0
      <4>1. e.scope = current_scope + 1 /\ header' = header
        BY <1>1, <1>2, <3>5 DEF Fits, Inner
      <4> QED BY <2>1, <3>1, <3>2, <3>5, <4>1
    <3> QED BY <3>4, <3>5
  <2>2. CASE j \in DOMAIN entries
    <3>1. \/ entries[j].scope <= current_scope
          \/ header # 0 /\ header < j /\ entries[j].scope = current_scope + 1
      BY <1>1, <2>2 DEF OInv, NoGhosts
    <3>2. header # 0 => header' = header
      BY <1>1, <1>2 DEF Fits
    <3> QED BY <1>1, <2>2, <3>1, <3>2
  <2> QED BY <1>1, <2>1, <2>2
<1> QED BY <1>3, <1>4, <1>5, <1>6, <1>7 DEF OInv

\* Growth moves no entry between lists, and whatever it does to the chains, the
\* array is no longer the first one.
LEMMA InternalOrders ==
  ASSUME OInv, IInv', Internal
  PROVE  OInv'
<1>1. current_scope' = current_scope
  BY DEF Internal, current_scope
<1>2. ListsAscend' /\ HeaderKnown' /\ NoGhosts'
  BY <1>1 DEF Internal, OInv, ListsAscend, HeaderKnown, NoGhosts
<1>3. ChainsDescend'
  <2>1. level \in Nat /\ level # 0
    <3>1. DOMAIN BucketSizes = 1..Len(BucketSizes) /\ Len(BucketSizes) \in Nat
      BY SizesAssumption
    <3>2. level \in DOMAIN BucketSizes
      BY DEF OInv, IInv, TypeOK
    <3> QED BY <3>1, <3>2
  <2> QED BY <2>1 DEF Internal, OInv, ChainsDescend
<1>4. PendingFits'
  BY <1>1 DEF Internal, OInv, PendingFits, Fits, Inner
<1> QED BY <1>2, <1>3, <1>4 DEF OInv

\* Entering a block, the formals of a header become part of it.
LEMMA EnterOrders ==
  ASSUME OInv, IInv', EnterBlock
  PROVE  OInv'
<1>1. /\ ~growing /\ nest' = Append(nest, header) /\ header' = 0 /\ UNCHANGED table
      /\ crashed' = crashed
  BY DEF EnterBlock, Ready
<1>2. current_scope' = current_scope + 1 /\ current_scope \in Nat
  BY <1>1 DEF current_scope, OInv, IInv, TypeOK
<1>3. ListsAscend' /\ ChainsDescend' /\ ~growing'
  BY <1>1 DEF table, OInv, ListsAscend, ChainsDescend, growing
<1>4. HeaderKnown'
  BY <1>1 DEF table, OInv, IInv, TypeOK, HeaderKnown
<1>5. NoGhosts'
  <2> SUFFICES ASSUME ~crashed, NEW j \in DOMAIN entries, entries[j].isActive
               PROVE  entries[j].scope <= current_scope + 1
    BY <1>1, <1>2 DEF NoGhosts, table
  <2>1. entries[j].scope \in Nat
    BY EntryType DEF OInv, IInv
  <2> QED BY <1>2, <2>1 DEF OInv, NoGhosts
<1> QED BY <1>3, <1>4, <1>5 DEF OInv, PendingFits

\* What leaving a block changes: the entries of its scope cannot be used any
\* more, and at most one function is closed.
LEMMA LeaveEffect ==
  ASSUME IInv, Leave
  PROVE  /\ DOMAIN entries' = DOMAIN entries
         /\ \A k \in DOMAIN entries :
              /\ entries'[k].name = entries[k].name /\ entries'[k].scope = entries[k].scope
              /\ entries'[k].isActive <=>
                   entries[k].isActive /\ entries[k].scope # current_scope
         /\ nest[Len(nest)] = 0 =>
              \A k \in DOMAIN entries : entries'[k].func_is_open = entries[k].func_is_open
         /\ nest' = SubSeq(nest, 1, Len(nest) - 1) /\ Len(nest) \in Nat \ {0}
         /\ current_scope' = current_scope - 1
         /\ header = 0 /\ header' = 0 /\ ~growing /\ pending' = pending
         /\ level' = level /\ buckets' = buckets
         /\ scopes' = scopes /\ scopes_size' = scopes_size /\ crashed' = crashed
<1> DEFINE gone == [k \in DOMAIN entries |->
                      IF k \in Range(scopes[current_scope])
                      THEN [entries[k] EXCEPT !.isActive = FALSE]
                      ELSE entries[k]]
           f == nest[Len(nest)]
           g == SymTable_get(gone, entries[f].name)
<1>1. /\ entries' = IF f = 0 THEN gone ELSE [gone EXCEPT ![g].func_is_open = FALSE]
      /\ nest # <<>> /\ nest' = SubSeq(nest, 1, Len(nest) - 1)
      /\ ~growing /\ pending' = pending /\ level' = level /\ buckets' = buckets
      /\ scopes' = scopes /\ scopes_size' = scopes_size
      /\ header = 0 /\ header' = header /\ crashed' = crashed
  <2>1. ~(current_scope >= scopes_size)
    BY DEF Leave, IInv, TypeOK, current_scope
  <2>2. g = SymTable_get(gone, entries[nest[Len(nest)]].name)
    OBVIOUS
  <2> QED BY <2>1, <2>2 DEF Leave, LeaveBlock, Ready, close_function
<1>2. Len(nest) \in Nat \ {0} /\ current_scope' = current_scope - 1
  <2>1. nest \in Seq(Nat) /\ Len(nest) \in Nat \ {0}
    BY <1>1 DEF IInv, TypeOK
  <2>2. Len(SubSeq(nest, 1, Len(nest) - 1)) = Len(nest) - 1
    BY <2>1, <1>1, FrontOf
  <2> QED BY <1>1, <2>1, <2>2 DEF current_scope
<1>3. current_scope \in DOMAIN scopes
  BY <1>2 DEF Leave, IInv, TypeOK, current_scope
<1>4. ASSUME NEW k \in DOMAIN entries
      PROVE  /\ gone[k] \in Binding
             /\ gone[k].name = entries[k].name /\ gone[k].scope = entries[k].scope
             /\ gone[k].isActive <=> entries[k].isActive /\ entries[k].scope # current_scope
             /\ gone[k].func_is_open = entries[k].func_is_open
  <2>1. entries[k] \in Binding
    BY EntryType DEF IInv
  <2>2. k \in Range(scopes[current_scope]) <=> entries[k].scope = current_scope
    BY <1>3 DEF IInv, NothingLost
  <2> QED BY <2>1, <2>2 DEF Binding
<1>5. DOMAIN gone = DOMAIN entries
  OBVIOUS
<1> HIDE DEF gone, g
<1>6. DOMAIN entries' = DOMAIN entries
  BY <1>1, <1>5
<1>7. ASSUME NEW k \in DOMAIN entries
      PROVE  /\ entries'[k].name = gone[k].name
             /\ entries'[k].scope = gone[k].scope
             /\ entries'[k].isActive = gone[k].isActive
             /\ f = 0 => entries'[k] = gone[k]
  <2>1. entries'[k] = gone[k] \/ entries'[k] = [gone[k] EXCEPT !.func_is_open = FALSE]
    BY <1>1, <1>5
  <2> QED BY <1>1, <1>4, <2>1 DEF Binding
<1> QED BY <1>1, <1>2, <1>4, <1>6, <1>7

\* Leaving a block files nothing and moves nothing: lists and chains keep
\* their order, and no binding of the scope that is left stays active.
LEMMA LeaveOrders ==
  ASSUME OInv, IInv', Leave
  PROVE  OInv'
<1>1. /\ DOMAIN entries' = DOMAIN entries
      /\ \A k \in DOMAIN entries :
           /\ entries'[k].scope = entries[k].scope
           /\ entries'[k].isActive <=>
                entries[k].isActive /\ entries[k].scope # current_scope
      /\ current_scope' = current_scope - 1
      /\ header = 0 /\ header' = 0 /\ ~growing /\ pending' = pending
      /\ level' = level /\ buckets' = buckets /\ scopes' = scopes /\ crashed' = crashed
  BY LeaveEffect DEF OInv
<1>2. ListsAscend' /\ ChainsDescend'
  BY <1>1 DEF OInv, ListsAscend, ChainsDescend
<1>3. HeaderKnown'
  BY <1>1 DEF HeaderKnown, IInv, TypeOK
<1>4. PendingFits'
  BY <1>1 DEF PendingFits, growing
<1>5. NoGhosts'
  <2> SUFFICES ASSUME ~crashed, NEW j \in DOMAIN entries, entries'[j].isActive
               PROVE  entries[j].scope <= current_scope - 1
    BY <1>1 DEF NoGhosts
  <2>1. entries[j].scope \in Nat /\ current_scope \in Nat
    <3>1. TypeOK
      BY DEF OInv, IInv
    <3>2. entries[j].scope \in Nat
      BY <3>1, EntryType
    <3>3. current_scope \in Nat
      BY <3>1 DEF TypeOK, current_scope
    <3> QED BY <3>2, <3>3
  <2>2. entries[j].scope <= current_scope /\ entries[j].scope # current_scope
    BY <1>1 DEF OInv, NoGhosts
  <2> QED BY <2>1, <2>2
<1> QED BY <1>2, <1>3, <1>4, <1>5 DEF OInv

\* The empty table is ordered.
LEMMA OrderInit == Init => OInv
<1> SUFFICES ASSUME Init PROVE OInv
  OBVIOUS
<1>1. IInv
  BY InitHolds
<1>2. entries = <<>> /\ header = 0 /\ pending = <<>> /\ DOMAIN entries = {}
  BY DEF Init
<1>3. \A s \in DOMAIN scopes : scopes[s] = <<>>
  BY DEF Init
<1>4. \A b \in DOMAIN buckets : buckets[b] = <<>>
  BY DEF Init, NoBuckets
<1>5. ListsAscend /\ ChainsDescend
  BY <1>3, <1>4 DEF ListsAscend, ChainsDescend, Ascending, Descending
<1> QED BY <1>1, <1>2, <1>5 DEF OInv, HeaderKnown, PendingFits, growing, NoGhosts

\* Every step keeps the lists ascending and the chains of a table that does
\* not grow descending, and makes no ghost.
LEMMA OrderStep == OInv /\ [Next]_vars => OInv'
<1> SUFFICES ASSUME OInv, [Next]_vars PROVE OInv'
  OBVIOUS
<1>1. IInv'
  BY StepHolds DEF OInv
<1>2. \/ \E e \in Binding : Put(e)
      \/ Internal \/ EnterBlock \/ Leave
  BY StepKinds DEF OInv
<1> QED BY <1>1, <1>2, PutOrders, InternalOrders, EnterOrders, LeaveOrders

\* What a closed block declared is never found again: through every order of
\* calls, and in the middle of growth too, an entry that is active belongs to a
\* scope that is open or to the header being read.
THEOREM ClosedScopesStayClosed == Spec => []NoGhosts
<1>1. OInv => NoGhosts
  BY DEF OInv
<1> QED BY <1>1, OrderInit, OrderStep, PTL DEF Spec
-----------------------------------------------------------------------------
(* What the walks return. *)

\* Symbols takes its extrema from a copy of FiniteSetsExt of its own.
LEMMA SymExtrema ==
  ASSUME NEW S
  PROVE  Sym!Max(S) = Max(S) /\ Sym!Min(S) = Min(S)
BY DEF Sym!Max, Sym!Min, Max, Min

\* A scope's list holds exactly the entries of that scope.
LEMMA ListHolds ==
  ASSUME IInv, NEW s \in DOMAIN scopes
  PROVE  /\ s \in Nat /\ s < scopes_size /\ scopes[s] \in Seq(Nat)
         /\ \A k : k \in DOMAIN entries /\ entries[k].scope = s
                     <=> \E i \in DOMAIN scopes[s] : scopes[s][i] = k
<1>1. s \in Nat /\ s < scopes_size /\ scopes[s] \in Seq(Nat)
  BY DEF IInv, TypeOK
<1>2. \A k : k \in DOMAIN entries /\ entries[k].scope = s <=> k \in Range(scopes[s])
  BY DEF IInv, NothingLost
<1> QED BY <1>1, <1>2 DEF Range

\* The walk along one scope's list.
LEMMA EntryAtScopeRight ==
  ASSUME IInv, ListsAscend, NEW n \in Name, NEW s \in DOMAIN scopes
  PROVE  SymTable_get_entry_at_scope(n, s) = Sym!EntryAtScope(entries, n, s)
<1> DEFINE H == {i \in DOMAIN scopes[s] : Live(scopes[s][i], n)}
           A == Sym!ActiveAt(entries, n, s)
<1>1. SymTable_get_entry_at_scope(n, s) = IF H = {} THEN 0 ELSE scopes[s][Min(H)]
  <2>1. ~(s >= scopes_size)
    BY ListHolds DEF IInv, TypeOK
  <2> QED BY <2>1 DEF SymTable_get_entry_at_scope, First
<1>2. A = {scopes[s][i] : i \in H}
  BY ListHolds DEF Sym!ActiveAt, Sym!Active, Live
<1>3. Sym!EntryAtScope(entries, n, s) = IF A = {} THEN 0 ELSE Min(A)
  BY SymExtrema DEF Sym!EntryAtScope, Sym!OldestOf
<1>4. H # {} => scopes[s][Min(H)] = Min({scopes[s][i] : i \in H})
  <2>1. scopes[s] \in Seq(Nat) /\ Ascending(scopes[s]) /\ H \subseteq DOMAIN scopes[s]
    BY ListHolds DEF ListsAscend
  <2> HIDE DEF H
  <2> QED BY <2>1, FirstIsOldest
<1> QED BY <1>1, <1>2, <1>3, <1>4

\* The walk outwards over the scopes that are open.
LEMMA ClosestScopeRight ==
  ASSUME IInv, ListsAscend, NEW n \in Name, current_scope < scopes_size
  PROVE  SymTable_get_closest_scope(n, current_scope)
           = Sym!ClosestScope(entries, n, current_scope)
<1> DEFINE has == {t \in 0..current_scope : \E k \in Range(scopes[t]) : Live(k, n)}
           V == {k \in Sym!Active(entries, n) : entries[k].scope <= current_scope}
           S == {entries[k].scope : k \in V}
<1>1. /\ current_scope \in Nat /\ 0..current_scope \subseteq DOMAIN scopes
      /\ \A t \in 0..current_scope : t <= current_scope
  BY DEF IInv, TypeOK, current_scope
<1>2. has = S
  <2>1. ASSUME NEW t \in has PROVE t \in S
    <3>1. PICK k \in Range(scopes[t]) : Live(k, n)
      OBVIOUS
    <3>2. k \in DOMAIN entries /\ entries[k].scope = t
      BY <1>1, <3>1 DEF IInv, NothingLost
    <3> QED BY <1>1, <3>1, <3>2 DEF Sym!Active, Live
  <2>2. ASSUME NEW k \in V PROVE entries[k].scope \in has
    <3>1. k \in DOMAIN entries /\ Live(k, n) /\ entries[k].scope \in Nat
      BY EntryType DEF IInv, Sym!Active, Live
    <3>2. entries[k].scope \in 0..current_scope
      BY <1>1, <3>1
    <3>3. k \in Range(scopes[entries[k].scope])
      BY <3>1 DEF IInv, NothingLost
    <3> QED BY <3>1, <3>2, <3>3
  <2> QED BY <2>1, <2>2
<1>3. has = {} <=> V = {}
  BY <1>2
<1>4. has # {} => Max(has) \in DOMAIN scopes
  <2> HIDE DEF has
  <2>1. has \subseteq 0..current_scope
    BY DEF has
  <2> QED BY <1>1, <2>1, MaxIsLast
<1>5. SymTable_get_closest_scope(n, current_scope)
        = IF has = {} THEN 0 ELSE SymTable_get_entry_at_scope(n, Max(has))
  BY DEF SymTable_get_closest_scope
<1>6. Sym!ClosestScope(entries, n, current_scope)
        = IF V = {} THEN 0 ELSE Sym!EntryAtScope(entries, n, Max(S))
  BY SymExtrema DEF Sym!ClosestScope
<1> HIDE DEF has, V, S
<1> QED BY <1>2, <1>3, <1>4, <1>5, <1>6, EntryAtScopeRight

\* The walk for the function that is being parsed.
LEMMA OpenFuncRight ==
  ASSUME IInv, ListsAscend, current_scope < scopes_size
  PROVE  SymTable_get_open_func(current_scope) = Sym!OpenFunc(entries, current_scope)
<1> DEFINE opens(t) == {i \in DOMAIN scopes[t] : entries[scopes[t][i]].func_is_open}
           has == {t \in 0..current_scope : opens(t) # {}}
           A == {k \in Sym!Opened(entries) : entries[k].scope <= current_scope}
           S == {entries[k].scope : k \in A}
           T(t) == {k \in A : entries[k].scope = t}
<1>1. current_scope \in Nat /\ 0..current_scope \subseteq DOMAIN scopes
  BY DEF IInv, TypeOK, current_scope
<1>2. ASSUME NEW t \in 0..current_scope
      PROVE  T(t) = {scopes[t][i] : i \in opens(t)}
  <2>1. t \in DOMAIN scopes /\ t <= current_scope
    BY <1>1
  <2> QED BY <2>1, ListHolds DEF Sym!Opened
<1>3. has = S
  <2>1. ASSUME NEW k \in A PROVE entries[k].scope \in 0..current_scope
    BY <1>1, EntryType DEF IInv, Sym!Opened
  <2> QED BY <1>2, <2>1
<1>4. has # {} => Max(has) \in has
  <2> HIDE DEF has
  <2>1. has \subseteq 0..current_scope
    BY DEF has
  <2> QED BY <1>1, <2>1, MaxIsLast
<1>5. SymTable_get_open_func(current_scope)
        = IF has = {} THEN 0 ELSE scopes[Max(has)][Max(opens(Max(has)))]
  BY DEF SymTable_get_open_func
<1>6. Sym!OpenFunc(entries, current_scope)
        = IF A = {} THEN 0 ELSE Sym!NewestOf(T(Max(S)))
  <2>1. Sym!OpenFunc(entries, current_scope)
          = IF A = {} THEN 0 ELSE Sym!NewestOf(T(Sym!Max(S)))
    BY DEF Sym!OpenFunc
  <2>2. Sym!Max(S) = Max(S)
    BY SymExtrema
  <2> HIDE DEF A, S, T
  <2> QED BY <2>1, <2>2
<1>7. A = {} <=> S = {}
  OBVIOUS
<1>8. ASSUME NEW t \in has
      PROVE  scopes[t][Max(opens(t))] = Sym!NewestOf(T(t))
  <2>1. t \in 0..current_scope /\ t \in DOMAIN scopes /\ opens(t) # {}
    BY <1>1
  <2>2. /\ scopes[t] \in Seq(Nat) /\ Ascending(scopes[t])
        /\ opens(t) \subseteq DOMAIN scopes[t]
    BY <2>1, ListHolds DEF ListsAscend
  <2>3. T(t) = {scopes[t][i] : i \in opens(t)}
    BY <1>2, <2>1
  <2>4. T(t) # {}
    BY <2>1, <2>3
  <2> HIDE DEF opens, T
  <2>5. scopes[t][Max(opens(t))] = Max({scopes[t][i] : i \in opens(t)})
    BY <2>1, <2>2, LastIsNewest
  <2> QED BY <2>3, <2>4, <2>5, SymExtrema DEF Sym!NewestOf
<1> HIDE DEF has, A, S, T, opens
<1> QED BY <1>3, <1>4, <1>5, <1>6, <1>7, <1>8

\* The walk that decides whether a function lies between a binding and its use.
LEMMA OpenedSinceRight ==
  ASSUME IInv, ListsAscend, current_scope < scopes_size,
         NEW k \in DOMAIN entries, entries[k].scope <= current_scope
  PROVE  SymTable_open_func(k, current_scope)
           <=> Sym!OpenedSince(entries, k, current_scope)
<1> DEFINE s == entries[k].scope
           opens(t, i) == entries[scopes[t][i]].func_is_open
           here == \E j \in DOMAIN scopes[s] : \E i \in j..Len(scopes[s]) :
                     scopes[s][j] = k /\ opens(s, i)
           inner == \E t \in (s + 1)..current_scope :
                      \E i \in DOMAIN scopes[t] : opens(t, i)
<1>1. /\ current_scope \in Nat /\ 0..current_scope \subseteq DOMAIN scopes
      /\ s \in Nat /\ s \in 0..current_scope
  BY EntryType DEF IInv, TypeOK, current_scope
<1>2. SymTable_open_func(k, current_scope) <=> here \/ inner
  BY DEF SymTable_open_func
<1>3. here <=> \E f \in Sym!Opened(entries) : entries[f].scope = s /\ f >= k
  <2>1. s \in DOMAIN scopes
    BY <1>1
  <2>2. scopes[s] \in Seq(Nat) /\ Ascending(scopes[s])
    BY <2>1, ListHolds DEF ListsAscend
  <2>3. ASSUME here
        PROVE  \E f \in Sym!Opened(entries) : entries[f].scope = s /\ f >= k
    <3>0. PICK j \in DOMAIN scopes[s] : \E i \in j..Len(scopes[s]) :
                 scopes[s][j] = k /\ opens(s, i)
      BY <2>3
    <3>1. PICK i \in j..Len(scopes[s]) : scopes[s][j] = k /\ opens(s, i)
      BY <3>0
    <3>2. i \in DOMAIN scopes[s] /\ (i = j \/ j < i)
      BY <2>2
    <3>3. scopes[s][i] \in DOMAIN entries /\ entries[scopes[s][i]].scope = s
      BY <2>1, <3>2, ListHolds
    <3>4. scopes[s][i] >= k
      <4>1. scopes[s][i] \in Nat /\ scopes[s][j] \in Nat
        <5>1. i \in 1..Len(scopes[s]) /\ j \in 1..Len(scopes[s])
          BY <2>2, <3>2, LenProperties
        <5> QED BY <2>2, <5>1, ElementOfSeq
      <4>2. scopes[s][i] = k \/ scopes[s][j] < scopes[s][i]
        BY <2>2, <3>1, <3>2 DEF Ascending
      <4> QED BY <3>1, <4>1, <4>2
    <3> QED BY <3>1, <3>3, <3>4 DEF Sym!Opened
  <2>4. ASSUME NEW f \in Sym!Opened(entries), entries[f].scope = s, f >= k
        PROVE  here
    <3>1. PICK j \in DOMAIN scopes[s] : scopes[s][j] = k
      BY <2>1, ListHolds
    <3>2. f \in DOMAIN entries /\ entries[f].func_is_open /\ f \in Nat /\ k \in Nat
      BY EntryType DEF Sym!Opened, IInv
    <3>3. PICK i \in DOMAIN scopes[s] : scopes[s][i] = f
      BY <2>1, <2>4, <3>2, ListHolds
    <3>4. i \in j..Len(scopes[s])
      <4>1. ~(i < j)
        <5>1. i < j => f < k
          BY <2>2, <3>1, <3>3 DEF Ascending
        <5> QED BY <2>4, <3>2, <5>1
      <4> QED BY <2>2, <4>1
    <3> QED BY <3>1, <3>2, <3>3, <3>4
  <2> QED BY <2>3, <2>4
<1>4. inner <=> \E f \in Sym!Opened(entries) : entries[f].scope \in (s + 1)..current_scope
  <2>1. \A t \in (s + 1)..current_scope : t \in DOMAIN scopes
    BY <1>1
  <2>2. ASSUME NEW t \in (s + 1)..current_scope, NEW i \in DOMAIN scopes[t], opens(t, i)
        PROVE  \E f \in Sym!Opened(entries) : entries[f].scope \in (s + 1)..current_scope
    <3>1. scopes[t][i] \in DOMAIN entries /\ entries[scopes[t][i]].scope = t
      BY <2>1, ListHolds
    <3> QED BY <2>2, <3>1 DEF Sym!Opened
  <2>3. ASSUME NEW f \in Sym!Opened(entries), entries[f].scope \in (s + 1)..current_scope
        PROVE  inner
    <3>1. f \in DOMAIN entries /\ entries[f].func_is_open
      BY DEF Sym!Opened
    <3>2. PICK i \in DOMAIN scopes[entries[f].scope] : scopes[entries[f].scope][i] = f
      BY <2>1, <2>3, <3>1, ListHolds
    <3> QED BY <2>3, <3>1, <3>2
  <2> QED BY <2>2, <2>3
<1>5. Sym!OpenedSince(entries, k, current_scope)
        <=> \E f \in Sym!Opened(entries) :
              \/ entries[f].scope = s /\ f >= k
              \/ entries[f].scope \in (s + 1)..current_scope
  BY DEF Sym!OpenedSince
<1> HIDE DEF here, inner, s
<1> QED BY <1>2, <1>3, <1>4, <1>5

\* The four walks over the scope lists, together.
LEMMA WalksAnswerRight == OInv => AnswersRight
BY EntryAtScopeRight, ClosestScopeRight, OpenFuncRight, OpenedSinceRight
   DEF OInv, AnswersRight

\* Every walk over the scope lists returns what its definition in Symbols says:
\* the oldest binding of the innermost scope, the newest open function, whether
\* a function opened since.  Growth makes no difference to these.
THEOREM WalksFindTheRightEntry == Spec => []AnswersRight
<1> QED BY OrderInit, OrderStep, WalksAnswerRight, PTL DEF Spec

\* The walk along a hash chain that has never been turned round, whatever the
\* flags of the entries are when it is made.
LEMMA GetRight ==
  ASSUME IInv, ChainsDescend, level = 1, NEW n \in Name,
         NEW es, DOMAIN es = DOMAIN entries,
         \A k \in DOMAIN entries : es[k].name = entries[k].name
  PROVE  SymTable_get(es, n) = Sym!Get(es, n)
<1> DEFINE chain == buckets[Index(n, level)]
           H == {i \in DOMAIN chain : es[chain[i]].name = n /\ es[chain[i]].isActive}
           A == Sym!Active(es, n)
<1>1. Index(n, level) \in DOMAIN buckets
  BY IndexInRange DEF IInv, TypeOK
<1>2. chain \in Seq(Nat) /\ Descending(chain)
  BY <1>1 DEF ChainsDescend, IInv, TypeOK
<1>3. A = {chain[i] : i \in H}
  <2>1. ASSUME NEW k \in A PROVE \E i \in H : chain[i] = k
    <3>1. /\ k \in DOMAIN entries /\ entries[k].name = n
          /\ es[k].name = n /\ es[k].isActive
      BY DEF Sym!Active
    <3>2. k \in Range(chain)
      BY <3>1 DEF IInv, NothingLost, Filed, TypeOK
    <3> QED BY <3>1, <3>2 DEF Range
  <2>2. ASSUME NEW i \in H PROVE chain[i] \in A
    BY <1>1 DEF IInv, NothingLost, Range, Sym!Active
  <2> QED BY <2>1, <2>2
<1>4. SymTable_get(es, n) = IF H = {} THEN 0 ELSE chain[Min(H)]
  BY DEF SymTable_get, First
<1>5. Sym!Get(es, n) = IF A = {} THEN 0 ELSE Max(A)
  BY SymExtrema DEF Sym!Get, Sym!NewestOf
<1>6. H # {} => chain[Min(H)] = Max({chain[i] : i \in H})
  <2> HIDE DEF chain
  <2>1. H \subseteq DOMAIN chain
    OBVIOUS
  <2> QED BY <1>2, <2>1, FirstIsNewest
<1> HIDE DEF chain, H, A
<1> QED BY <1>3, <1>4, <1>5, <1>6

-----------------------------------------------------------------------------
(* Tables that never grow: there is one size only, or no program has more     *)
(* entries than the first.  Growth turns chains round, and with them which    *)
(* binding SymTable_get finds; what follows does not hold without this.       *)

NeverGrows == Len(BucketSizes) = 1 \/ MaxEntries \in 0..BucketSizes[1]

FirstLevel == level = 1 /\ ~growing

\* A table whose first array is never full, or is the only one, keeps it.
LEMMA StaysFirst ==
  ASSUME NeverGrows
  PROVE  /\ Init => FirstLevel
         /\ IInv /\ FirstLevel /\ [Next]_vars => FirstLevel'
<1>1. Init => FirstLevel
  BY DEF Init, FirstLevel, growing
<1>2. ASSUME IInv, FirstLevel, [Next]_vars PROVE FirstLevel'
  <2>1. Len(entries) < MaxEntries => ~Full
    <3>1. BucketSizes[1] \in Nat /\ Len(BucketSizes) \in Nat /\ Len(entries) \in Nat
      BY SizesAssumption DEF IInv, TypeOK
    <3>2. CASE Len(BucketSizes) = 1
      BY <1>2, <3>1, <3>2 DEF Full, FirstLevel
    <3>3. CASE MaxEntries \in 0..BucketSizes[1]
      BY <1>2, <3>1, <3>3 DEF Full, FirstLevel
    <3> QED BY <3>2, <3>3 DEF NeverGrows
  <2>2. ASSUME NEW n, NEW s, NEW f, SymTable_put(n, s, f) PROVE FirstLevel'
    BY <1>2, <2>1, <2>2 DEF SymTable_put, FirstLevel, growing
  <2>3. CASE UNCHANGED table
    BY <1>2, <2>3 DEF FirstLevel, growing, table
  <2> QED BY <1>2, <2>2, <2>3
        DEF Next, Identifier, LocalIdentifier, Formal, create_temp_symbol, FunctionName,
            EnterBlock, LeaveBlock, Crash, Stopped, vars, MoveNode, NextRow, FinishGrowth,
            FirstLevel, growing
<1> QED BY <1>1, <1>2

\* In a table that never grows, SymTable_get returns the newest active binding
\* of a name.
THEOREM GetFindsTheNewest == NeverGrows => (Spec => []GetIsNewest)
<1> SUFFICES ASSUME NeverGrows PROVE Spec => []GetIsNewest
  OBVIOUS
<1>1. OInv /\ FirstLevel => GetIsNewest
  BY GetRight DEF OInv, FirstLevel, GetIsNewest
<1>2. OInv => IInv
  BY DEF OInv
<1> QED BY <1>1, <1>2, OrderInit, OrderStep, StaysFirst, PTL DEF Spec
-----------------------------------------------------------------------------
(* The functions that are open are those whose bodies or headers are being    *)
(* read, each in the scope around its own.                                    *)

\* The function whose body is the i-th block, or whose header follows them.
OpenAt(i) == IF i <= Len(nest) THEN nest[i] ELSE header
Levels == 1..(Len(nest) + 1)

\* A binding made since then that has the function's name is further inside.
Innermost(i) == \A k \in DOMAIN entries :
                  k > OpenAt(i) /\ entries[k].isActive =>
                    entries[k].scope >= i \/ entries[k].name \in Temp

OpensKnown == \A i \in Levels :
                OpenAt(i) # 0 =>
                  /\ OpenAt(i) \in DOMAIN entries
                  /\ entries[OpenAt(i)].scope = i - 1
                  /\ entries[OpenAt(i)].isActive
                  /\ entries[OpenAt(i)].name \in Fun
                  /\ Innermost(i)

OpensInOrder == \A i, j \in Levels : i < j /\ OpenAt(j) # 0 => OpenAt(i) < OpenAt(j)

OpensAreNested == \A k \in DOMAIN entries :
                    entries[k].func_is_open <=> \E i \in Levels : OpenAt(i) = k

RInv == OInv /\ FirstLevel /\ OpensKnown /\ OpensInOrder /\ OpensAreNested

\* The levels are those of the stack of blocks and the header above it.
LEMMA LevelsType ==
  ASSUME IInv
  PROVE  /\ Len(nest) \in Nat /\ current_scope = Len(nest) /\ header \in Nat
         /\ \A i \in Levels : i \in Nat \ {0} /\ OpenAt(i) \in Nat
         /\ \A i \in 1..Len(nest) : OpenAt(i) = nest[i] /\ i \in Levels
         /\ OpenAt(Len(nest) + 1) = header /\ Len(nest) + 1 \in Levels
         /\ \A i \in Levels : i \in 1..Len(nest) \/ i = Len(nest) + 1
<1>1. nest \in Seq(Nat) /\ Len(nest) \in Nat /\ header \in Nat
  BY DEF IInv, TypeOK
<1>2. \A i \in Levels : i \in 1..Len(nest) \/ i = Len(nest) + 1
  BY <1>1 DEF Levels
<1>3. \A i \in 1..Len(nest) : OpenAt(i) = nest[i] /\ i \in Levels /\ nest[i] \in Nat
  BY <1>1 DEF Levels, OpenAt
<1>4. OpenAt(Len(nest) + 1) = header /\ Len(nest) + 1 \in Levels
  BY <1>1 DEF Levels, OpenAt
<1> QED BY <1>1, <1>2, <1>3, <1>4 DEF current_scope

\* An insertion keeps the record of open functions: only a function name
\* becomes the header, and it is newer than every open function.
LEMMA PutNests ==
  ASSUME RInv, OInv', FirstLevel', NEW e \in Binding, Put(e)
  PROVE  RInv'
<1> DEFINE k == Len(entries) + 1
<1>1. /\ k \in Nat \ {0} /\ k \notin DOMAIN entries
      /\ DOMAIN entries' = (DOMAIN entries) \union {k}
      /\ entries'[k] = e
      /\ \A j \in DOMAIN entries : entries'[j] = entries[j] /\ j \in Nat /\ j < k
      /\ header' = IF e.func_is_open THEN k ELSE header
  BY PutEffect DEF OInv, RInv
<1>2. nest' = nest /\ Levels' = Levels /\ Fits(e) /\ e.scope \in Nat
  BY DEF Put, Levels, Binding
<1>3. /\ Len(nest) \in Nat /\ current_scope = Len(nest) /\ header \in Nat
      /\ \A i \in Levels : i \in Nat \ {0} /\ OpenAt(i) \in Nat
      /\ \A i \in 1..Len(nest) : OpenAt(i) = nest[i] /\ i \in Levels
      /\ OpenAt(Len(nest) + 1) = header /\ Len(nest) + 1 \in Levels
      /\ \A i \in Levels : i \in 1..Len(nest) \/ i = Len(nest) + 1
  BY LevelsType DEF RInv, OInv
<1> HIDE DEF k
<1>m. PICK top \in Nat : top = Len(nest) + 1
  BY <1>3
<1>4. /\ \A i \in 1..Len(nest) : OpenAt(i)' = OpenAt(i)
      /\ OpenAt(top)' = IF e.func_is_open THEN k ELSE header
  BY <1>1, <1>2, <1>3, <1>m DEF OpenAt
<1>5. e.func_is_open =>
        header = 0 /\ e.scope = Len(nest) /\ e.name \in Fun /\ e.isActive
  BY <1>2, <1>3 DEF Fits, Inner
<1>6. ASSUME NEW i \in Levels, OpenAt(i) # 0
      PROVE  /\ OpenAt(i)' = OpenAt(i) /\ OpenAt(i) \in DOMAIN entries
             /\ e.scope >= i \/ e.name \in Temp
  <2>1. OpenAt(i)' = OpenAt(i)
    <3>1. CASE i \in 1..Len(nest)
      BY <1>4, <3>1
    <3>2. CASE i = top
      <4>1. header # 0
        BY <1>3, <1>6, <1>m, <3>2
      <4>2. ~e.func_is_open
        BY <1>5, <4>1
      <4> QED BY <1>3, <1>4, <1>m, <3>2, <4>2
    <3> QED BY <1>3, <1>m, <3>1, <3>2
  <2>2. OpenAt(i) \in DOMAIN entries
    BY <1>6 DEF RInv, OpensKnown
  <2>3. e.scope >= i \/ e.name \in Temp
    <3>1. CASE e.scope = Inner
      BY <1>3, <1>6, <3>1 DEF Inner
    <3>2. CASE e.scope # Inner
      BY <1>2, <3>2 DEF Fits
    <3> QED BY <3>1, <3>2
  <2> QED BY <2>1, <2>2, <2>3
<1>7. ASSUME NEW i \in Levels, OpenAt(i)' # OpenAt(i)
      PROVE  i = Len(nest) + 1 /\ OpenAt(i)' = k /\ e.func_is_open /\ OpenAt(i) = 0
  <2>1. i = top
    BY <1>3, <1>4, <1>7, <1>m
  <2>2. e.func_is_open
    BY <1>3, <1>4, <1>7, <1>m, <2>1
  <2> QED BY <1>3, <1>4, <1>5, <1>m, <2>1, <2>2
<1>8. OpensKnown'
  <2> SUFFICES ASSUME NEW i \in Levels, OpenAt(i)' # 0
               PROVE  /\ OpenAt(i)' \in DOMAIN entries'
                      /\ entries'[OpenAt(i)'].scope = i - 1
                      /\ entries'[OpenAt(i)'].isActive
                      /\ entries'[OpenAt(i)'].name \in Fun
                      /\ Innermost(i)'
    BY <1>2 DEF OpensKnown
  <2>1. CASE OpenAt(i)' = OpenAt(i)
    <3>1. /\ OpenAt(i) \in DOMAIN entries /\ entries[OpenAt(i)].scope = i - 1
          /\ entries[OpenAt(i)].isActive /\ entries[OpenAt(i)].name \in Fun
          /\ Innermost(i)
      BY <2>1 DEF RInv, OpensKnown
    <3>2. Innermost(i)'
      <4> SUFFICES ASSUME NEW j \in DOMAIN entries', j > OpenAt(i), entries'[j].isActive
                   PROVE  entries'[j].scope >= i \/ entries'[j].name \in Temp
        BY <2>1 DEF Innermost
      <4>1. CASE j = k
        BY <1>1, <1>6, <2>1, <4>1
      <4>2. CASE j # k
        BY <1>1, <3>1, <4>2 DEF Innermost
      <4> QED BY <4>1, <4>2
    <3> QED BY <1>1, <2>1, <3>1, <3>2
  <2>2. CASE OpenAt(i)' # OpenAt(i)
    <3>1. i = Len(nest) + 1 /\ OpenAt(i)' = k /\ e.func_is_open
      BY <1>7, <2>2
    <3>2. Innermost(i)'
      BY <1>1, <3>1 DEF Innermost
    <3> QED BY <1>1, <1>3, <1>5, <3>1, <3>2
  <2> QED BY <2>1, <2>2
<1>9. OpensInOrder'
  <2> SUFFICES ASSUME NEW i \in Levels, NEW j \in Levels, i < j, OpenAt(j)' # 0
               PROVE  OpenAt(i)' < OpenAt(j)'
    BY <1>2 DEF OpensInOrder
  <2>1. OpenAt(i)' = OpenAt(i)
    BY <1>3, <1>7
  <2>2. CASE OpenAt(j)' = OpenAt(j)
    BY <2>1, <2>2 DEF RInv, OpensInOrder
  <2>3. CASE OpenAt(j)' # OpenAt(j)
    <3>1. OpenAt(j)' = k
      BY <1>7, <2>3
    <3>2. OpenAt(i) < k
      BY <1>1, <1>3, <1>6
    <3> QED BY <2>1, <3>1, <3>2
  <2> QED BY <2>2, <2>3
<1>10. OpensAreNested'
  <2> SUFFICES ASSUME NEW j \in DOMAIN entries'
               PROVE  entries'[j].func_is_open <=> \E i \in Levels : OpenAt(i)' = j
    BY <1>2 DEF OpensAreNested
  <2>1. CASE j = k
    <3>1. e.func_is_open => OpenAt(top)' = k
      BY <1>4
    <3>2. ~e.func_is_open => \A i \in Levels : OpenAt(i)' # k
      <4> SUFFICES ASSUME ~e.func_is_open, NEW i \in Levels PROVE OpenAt(i)' # k
        OBVIOUS
      <4>1. OpenAt(i)' = OpenAt(i)
        BY <1>7
      <4>2. OpenAt(i) = 0 \/ OpenAt(i) \in DOMAIN entries
        BY <1>6
      <4> QED BY <1>1, <4>1, <4>2
    <3>3. top \in Levels
      BY <1>3, <1>m
    <3> QED BY <1>1, <2>1, <3>1, <3>2, <3>3
  <2>2. CASE j # k
    <3>1. j \in DOMAIN entries /\ entries'[j] = entries[j] /\ j # 0
      <4>1. j \in DOMAIN entries /\ entries'[j] = entries[j]
        BY <1>1, <2>2
      <4>2. DOMAIN entries = 1..Len(entries)
        BY DEF RInv, OInv, IInv, TypeOK
      <4> QED BY <4>1, <4>2
    <3>2. \A i \in Levels : OpenAt(i)' = j <=> OpenAt(i) = j
      BY <1>7, <2>2, <3>1
    <3> QED BY <3>1, <3>2 DEF RInv, OpensAreNested
  <2> QED BY <2>1, <2>2
<1> QED BY <1>8, <1>9, <1>10 DEF RInv

\* Entering a block moves the header to the stack of blocks, nothing more.
LEMMA EnterNests ==
  ASSUME RInv, OInv', FirstLevel', EnterBlock
  PROVE  RInv'
<1>1. nest' = Append(nest, header) /\ header' = 0 /\ entries' = entries
  BY DEF EnterBlock, table
<1>2. /\ Len(nest) \in Nat /\ header \in Nat /\ nest \in Seq(Nat)
      /\ \A i \in Levels : i \in Nat \ {0} /\ OpenAt(i) \in Nat
      /\ \A i \in Levels : i \in 1..Len(nest) \/ i = Len(nest) + 1
  BY LevelsType DEF RInv, OInv, IInv, TypeOK
<1>3. Len(nest') = Len(nest) + 1 /\ \A i \in Levels : OpenAt(i)' = OpenAt(i)
  BY <1>1, <1>2 DEF OpenAt
<1>m. PICK top \in Nat : top = Len(nest) + 2
  BY <1>2
<1>4. Levels' = Levels \union {top} /\ OpenAt(top)' = 0
  BY <1>1, <1>2, <1>3, <1>m DEF Levels, OpenAt
<1>5. \A i \in Levels' : OpenAt(i)' # 0 => i \in Levels
  <2> SUFFICES ASSUME NEW i \in Levels', i \notin Levels PROVE OpenAt(i)' = 0
    OBVIOUS
  <2>1. i = top
    BY <1>4
  <2> QED BY <1>4, <2>1
<1>6. OpensKnown'
  <2> SUFFICES ASSUME NEW i \in Levels, OpenAt(i) # 0
               PROVE  /\ OpenAt(i) \in DOMAIN entries
                      /\ entries[OpenAt(i)].scope = i - 1
                      /\ entries[OpenAt(i)].isActive
                      /\ entries[OpenAt(i)].name \in Fun
                      /\ Innermost(i)'
    BY <1>1, <1>3, <1>5 DEF OpensKnown
  <2>1. Innermost(i)' <=> Innermost(i)
    BY <1>1, <1>3 DEF Innermost
  <2> QED BY <2>1 DEF RInv, OpensKnown
<1>7. OpensInOrder'
  <2> SUFFICES ASSUME NEW i \in Levels', NEW j \in Levels', i < j, OpenAt(j)' # 0
               PROVE  OpenAt(i)' < OpenAt(j)'
    BY DEF OpensInOrder
  <2>1. j \in Levels
    BY <1>5
  <2>2. i \in Levels
    BY <1>2, <1>4, <1>m, <2>1
  <2> QED BY <1>3, <2>1, <2>2 DEF RInv, OpensInOrder
<1>8. OpensAreNested'
  <2>1. \A k \in DOMAIN entries : k # 0
    BY DEF RInv, OInv, IInv, TypeOK
  <2>2. \A k \in DOMAIN entries :
          (\E i \in Levels' : OpenAt(i)' = k) <=> \E i \in Levels : OpenAt(i) = k
    BY <1>3, <1>4, <1>5, <2>1
  <2> QED BY <1>1, <2>2 DEF RInv, OpensAreNested
<1> QED BY <1>6, <1>7, <1>8 DEF RInv

\* The function that is closed is the one whose body is left: looked up by its
\* name, it is the newest active binding of it.
LEMMA LeaveCloses ==
  ASSUME RInv, Leave
  PROVE  \A k \in DOMAIN entries :
           entries'[k].func_is_open <=> entries[k].func_is_open /\ k # nest[Len(nest)]
<1> DEFINE f == nest[Len(nest)]
<1>1. /\ Len(nest) \in Nat \ {0} /\ header = 0
      /\ f = 0 => \A k \in DOMAIN entries : entries'[k].func_is_open = entries[k].func_is_open
  BY LeaveEffect DEF RInv, OInv
<1>2. \A k \in DOMAIN entries : k # 0 /\ k \in Nat /\ entries[k] \in Binding
  BY DEF RInv, OInv, IInv, TypeOK
<1>3. CASE f = 0
  BY <1>1, <1>2, <1>3
<1>4. CASE f # 0
  <2> DEFINE gone == [k \in DOMAIN entries |->
                        IF k \in Range(scopes[current_scope])
                        THEN [entries[k] EXCEPT !.isActive = FALSE]
                        ELSE entries[k]]
             n == entries[f].name
             g == SymTable_get(gone, n)
  <2>1. entries' = [gone EXCEPT ![g].func_is_open = FALSE]
    <3>1. ~(current_scope >= scopes_size)
      BY DEF Leave, RInv, OInv, IInv, TypeOK, current_scope
    <3>2. g = SymTable_get(gone, entries[nest[Len(nest)]].name)
      OBVIOUS
    <3> QED BY <1>4, <3>1, <3>2 DEF Leave, LeaveBlock, close_function
  <2>2. current_scope \in DOMAIN scopes /\ current_scope = Len(nest)
    BY <1>1 DEF Leave, RInv, OInv, IInv, TypeOK, current_scope
  <2>3. ASSUME NEW k \in DOMAIN entries
        PROVE  /\ gone[k] \in Binding /\ gone[k].name = entries[k].name
               /\ gone[k].isActive <=> entries[k].isActive /\ entries[k].scope # Len(nest)
               /\ gone[k].func_is_open = entries[k].func_is_open
    <3>1. k \in Range(scopes[current_scope]) <=> entries[k].scope = current_scope
      BY <2>2 DEF RInv, OInv, IInv, NothingLost
    <3> QED BY <1>2, <2>2, <3>1 DEF Binding
  <2>4. DOMAIN gone = DOMAIN entries
    OBVIOUS
  <2>5. /\ f \in DOMAIN entries /\ entries[f].scope = Len(nest) - 1
        /\ entries[f].isActive /\ n \in Fun
        /\ \A k \in DOMAIN entries : k > f /\ entries[k].isActive =>
              entries[k].scope >= Len(nest) \/ entries[k].name \in Temp
    <3>1. Len(nest) \in Levels /\ OpenAt(Len(nest)) = f
      BY <1>1, LevelsType DEF RInv, OInv
    <3> QED BY <1>4, <3>1 DEF RInv, OpensKnown, Innermost
  <2> HIDE DEF gone, n, g, f
  <2>6. g = f
    <3>1. n \in Name /\ n \notin Temp
      BY <2>5, TempsAssumption DEF Name
    <3>2. g = Sym!Get(gone, n)
      BY <2>3, <2>4, <3>1, GetRight DEF RInv, OInv, FirstLevel, g
    <3> DEFINE A == Sym!Active(gone, n)
    <3>3. f \in A
      BY <1>1, <2>3, <2>4, <2>5 DEF Sym!Active, n
    <3>4. A \subseteq Nat
      BY <1>2, <2>4 DEF Sym!Active
    <3>5. ASSUME NEW k \in A PROVE f >= k
      <4>1. /\ k \in DOMAIN entries /\ entries[k].name = n /\ entries[k].isActive
            /\ entries[k].scope # Len(nest)
        BY <2>3, <2>4 DEF Sym!Active
      <4>2. entries[k].scope <= Len(nest) /\ entries[k].scope \in Nat
        <5>1. ~crashed
          BY DEF Leave, Ready
        <5> QED BY <1>1, <1>2, <2>2, <4>1, <5>1 DEF RInv, OInv, NoGhosts, Binding
      <4>3. ~(k > f)
        BY <1>1, <2>5, <3>1, <4>1, <4>2
      <4> QED BY <1>2, <2>5, <4>1, <4>3
    <3> HIDE DEF A
    <3>6. Max(A) = f
      BY <3>3, <3>4, <3>5, MaxIs
    <3>7. Sym!Get(gone, n) = IF A = {} THEN 0 ELSE Max(A)
      BY SymExtrema DEF Sym!Get, Sym!NewestOf, A
    <3> QED BY <3>2, <3>3, <3>6, <3>7
  <2> QED BY <2>1, <2>3, <2>4, <2>5, <2>6 DEF Binding, f
<1> QED BY <1>3, <1>4

\* Leaving a block takes one level, and its function, if any, is closed.
LEMMA LeaveNests ==
  ASSUME RInv, OInv', FirstLevel', Leave
  PROVE  RInv'
<1>1. /\ DOMAIN entries' = DOMAIN entries
      /\ \A k \in DOMAIN entries :
           /\ entries'[k].name = entries[k].name /\ entries'[k].scope = entries[k].scope
           /\ entries'[k].isActive <=>
                entries[k].isActive /\ entries[k].scope # current_scope
      /\ nest' = SubSeq(nest, 1, Len(nest) - 1) /\ Len(nest) \in Nat \ {0}
      /\ header = 0 /\ header' = 0
  BY LeaveEffect DEF RInv, OInv
<1>2. /\ current_scope = Len(nest)
      /\ \A i \in Levels : i \in Nat \ {0} /\ OpenAt(i) \in Nat
      /\ \A i \in 1..Len(nest) : OpenAt(i) = nest[i] /\ i \in Levels
      /\ OpenAt(Len(nest) + 1) = 0 /\ Len(nest) + 1 \in Levels
      /\ \A i \in Levels : i \in 1..Len(nest) \/ i = Len(nest) + 1
  BY <1>1, LevelsType DEF RInv, OInv
<1>3. Len(nest') = Len(nest) - 1 /\ \A i \in 1..(Len(nest) - 1) : nest'[i] = nest[i]
  <2>1. nest \in Seq(Nat) /\ nest # <<>>
    BY <1>1 DEF RInv, OInv, IInv, TypeOK
  <2> QED BY <1>1, <2>1, FrontOf
<1>4. Levels' = 1..Len(nest)
  BY <1>1, <1>3 DEF Levels
<1>m. PICK top \in Nat : top = Len(nest)
  BY <1>1
<1>5. /\ \A i \in 1..(Len(nest) - 1) : OpenAt(i)' = OpenAt(i) /\ i \in Levels
      /\ OpenAt(top)' = 0
      /\ \A i \in Levels' : OpenAt(i)' # 0 => i \in 1..(Len(nest) - 1)
  <2>1. \A i \in 1..(Len(nest) - 1) : OpenAt(i)' = OpenAt(i) /\ i \in Levels
    <3> SUFFICES ASSUME NEW i \in 1..(Len(nest) - 1) PROVE OpenAt(i)' = OpenAt(i) /\ i \in Levels
      OBVIOUS
    <3>1. i \in 1..Len(nest) /\ i <= Len(nest) /\ i <= Len(nest) - 1
      BY <1>1
    <3> QED BY <1>2, <1>3, <3>1 DEF OpenAt
  <2>2. OpenAt(top)' = 0
    <3>1. ~(Len(nest) <= Len(nest) - 1)
      BY <1>1
    <3> QED BY <1>1, <1>3, <1>m, <3>1 DEF OpenAt
  <2>3. \A i \in Levels' : i = Len(nest) \/ i \in 1..(Len(nest) - 1)
    BY <1>1, <1>4
  <2>4. ASSUME NEW i \in Levels', i \notin 1..(Len(nest) - 1) PROVE OpenAt(i)' = 0
    <3>1. i = top
      BY <1>m, <2>3, <2>4
    <3> QED BY <2>2, <3>1
  <2> QED BY <2>1, <2>2, <2>4
<1>6. OpensKnown'
  <2> SUFFICES ASSUME NEW i \in 1..(Len(nest) - 1), OpenAt(i) # 0
               PROVE  /\ OpenAt(i) \in DOMAIN entries
                      /\ entries'[OpenAt(i)].scope = i - 1
                      /\ entries'[OpenAt(i)].isActive
                      /\ entries'[OpenAt(i)].name \in Fun
                      /\ Innermost(i)'
    BY <1>1, <1>5 DEF OpensKnown
  <2>1. /\ OpenAt(i) \in DOMAIN entries /\ entries[OpenAt(i)].scope = i - 1
        /\ entries[OpenAt(i)].isActive /\ entries[OpenAt(i)].name \in Fun
        /\ Innermost(i)
    BY <1>5 DEF RInv, OpensKnown
  <2>2. Innermost(i)'
    BY <1>1, <1>5, <2>1 DEF Innermost
  <2>3. i - 1 # current_scope
    BY <1>1, <1>2
  <2> QED BY <1>1, <2>1, <2>2, <2>3
<1>7. OpensInOrder'
  <2> SUFFICES ASSUME NEW i \in Levels', NEW j \in Levels', i < j, OpenAt(j)' # 0
               PROVE  OpenAt(i)' < OpenAt(j)'
    BY DEF OpensInOrder
  <2>1. j \in 1..(Len(nest) - 1) /\ i \in 1..(Len(nest) - 1)
    BY <1>1, <1>4, <1>5
  <2> QED BY <1>5, <2>1 DEF RInv, OpensInOrder
<1>8. OpensAreNested'
  <2> SUFFICES ASSUME NEW k \in DOMAIN entries
               PROVE  entries'[k].func_is_open <=> \E i \in Levels' : OpenAt(i)' = k
    BY <1>1 DEF OpensAreNested
  <2>0. k # 0
    BY DEF RInv, OInv, IInv, TypeOK
  <2>1. entries'[k].func_is_open <=> entries[k].func_is_open /\ k # nest[Len(nest)]
    BY LeaveCloses
  <2>2. entries[k].func_is_open <=> \E i \in Levels : OpenAt(i) = k
    BY DEF RInv, OpensAreNested
  <2>3. ASSUME NEW i \in Levels, OpenAt(i) = k, k # nest[Len(nest)]
        PROVE  \E j \in Levels' : OpenAt(j)' = k
    <3>1. i \in 1..(Len(nest) - 1)
      BY <1>1, <1>2, <2>0, <2>3
    <3> QED BY <1>1, <1>4, <1>5, <2>3, <3>1
  <2>4. ASSUME NEW j \in Levels', OpenAt(j)' = k
        PROVE  j \in Levels /\ OpenAt(j) = k /\ k # nest[Len(nest)]
    <3>1. j \in 1..(Len(nest) - 1) /\ j \in Levels /\ OpenAt(j) = k
      BY <1>5, <2>0, <2>4
    <3>2. OpenAt(Len(nest)) # 0 => OpenAt(j) < OpenAt(Len(nest))
      BY <1>1, <1>2, <3>1 DEF RInv, OpensInOrder
    <3>3. OpenAt(Len(nest)) = nest[Len(nest)] /\ OpenAt(Len(nest)) \in Nat /\ OpenAt(j) \in Nat
      BY <1>1, <1>2, <3>1
    <3> QED BY <2>0, <3>1, <3>2, <3>3
  <2> QED BY <2>1, <2>2, <2>3, <2>4
<1> QED BY <1>6, <1>7, <1>8 DEF RInv

\* Nothing is open in the empty table.
LEMMA NestsInit == NeverGrows /\ Init => RInv
<1> SUFFICES ASSUME NeverGrows, Init PROVE RInv
  OBVIOUS
<1>1. OInv /\ FirstLevel
  BY OrderInit, StaysFirst
<1>2. nest = <<>> /\ header = 0 /\ DOMAIN entries = {}
  BY DEF Init
<1>3. Levels = {1} /\ OpenAt(1) = 0
  BY <1>2 DEF Levels, OpenAt
<1>4. \A i \in Levels : OpenAt(i) = 0
  BY <1>3
<1> QED BY <1>1, <1>2, <1>4 DEF RInv, OpensKnown, OpensInOrder, OpensAreNested

\* Every step of a table that never grows keeps the open functions nested.
LEMMA NestsStep == NeverGrows /\ RInv /\ [Next]_vars => RInv'
<1> SUFFICES ASSUME NeverGrows, RInv, [Next]_vars PROVE RInv'
  OBVIOUS
<1>1. OInv' /\ FirstLevel'
  BY OrderStep, StaysFirst DEF RInv, OInv
<1>2. CASE Internal
  <2>1. entries' = entries /\ nest' = nest /\ header' = header
    BY <1>2 DEF Internal
  <2>2. Levels' = Levels /\ \A i \in Levels : OpenAt(i)' = OpenAt(i)
    BY <2>1 DEF Levels, OpenAt
  <2>3. \A i \in Levels : Innermost(i)' = Innermost(i)
    BY <2>1, <2>2 DEF Innermost
  <2> QED BY <1>1, <2>1, <2>2, <2>3 DEF RInv, OpensKnown, OpensInOrder, OpensAreNested
<1>3. \/ \E e \in Binding : Put(e)
      \/ Internal \/ EnterBlock \/ Leave
  BY StepKinds DEF RInv, OInv
<1> QED BY <1>1, <1>2, <1>3, PutNests, EnterNests, LeaveNests

\* The newest open function is the one that SymTable_get_open_func finds, and
\* the last in nest.
LEMMA LastOpenFollows == RInv => LastOpenIsInnermost
<1> SUFFICES ASSUME RInv, header = 0, current_scope < scopes_size
             PROVE  SymTable_get_open_func(current_scope) = Sym!NewestOf(Range(nest))
  BY DEF LastOpenIsInnermost
<1> DEFINE O == Sym!Opened(entries)
           S == {entries[k].scope : k \in O}
<1>1. /\ Len(nest) \in Nat /\ current_scope = Len(nest) /\ nest \in Seq(Nat)
      /\ \A i \in Levels : i \in Nat \ {0} /\ OpenAt(i) \in Nat
      /\ \A i \in 1..Len(nest) : OpenAt(i) = nest[i] /\ i \in Levels
      /\ OpenAt(Len(nest) + 1) = 0
      /\ \A i \in Levels : i \in 1..Len(nest) \/ i = Len(nest) + 1
  BY LevelsType DEF RInv, OInv, IInv, TypeOK
<1>2. \A k \in DOMAIN entries : k \in Nat \ {0} /\ k \in 0..Len(entries) /\ entries[k].scope \in Nat
  <2>1. DOMAIN entries = 1..Len(entries) /\ Len(entries) \in Nat
    BY DEF RInv, OInv, IInv, TypeOK
  <2> QED BY <2>1, EntryType DEF RInv, OInv, IInv
<1>3. \A k \in O : k \in DOMAIN entries /\ \E i \in 1..Len(nest) : nest[i] = k
  BY <1>1, <1>2 DEF Sym!Opened, RInv, OpensAreNested
<1>4. \A i \in 1..Len(nest) : nest[i] # 0 =>
        nest[i] \in O /\ entries[nest[i]].scope = i - 1
  BY <1>1 DEF Sym!Opened, RInv, OpensKnown, OpensAreNested
<1>5. \A k \in O : entries[k].scope <= current_scope
  BY <1>1, <1>3, <1>4, <1>2
<1>6. SymTable_get_open_func(current_scope) = Sym!OpenFunc(entries, current_scope)
  BY OpenFuncRight DEF RInv, OInv
<1>7. Sym!OpenFunc(entries, current_scope)
        = IF O = {} THEN 0
          ELSE Sym!NewestOf({k \in O : entries[k].scope = Sym!Max(S)})
  <2>1. O = {k \in O : entries[k].scope <= current_scope}
    BY <1>5
  <2> HIDE DEF O
  <2> QED BY <2>1 DEF Sym!OpenFunc, O
<1>8. Range(nest) \subseteq Nat /\ \A x \in Range(nest) : x = 0 \/ x \in O
  BY <1>1, <1>4 DEF Range
<1> HIDE DEF O, S
<1>9. CASE O = {}
  <2>1. Sym!NewestOf(Range(nest)) = 0
    <3>1. CASE Range(nest) = {}
      BY <3>1 DEF Sym!NewestOf
    <3>2. CASE Range(nest) # {}
      <4>1. Range(nest) = {0}
        BY <1>8, <1>9, <3>2
      <4>2. Max({0}) = 0
        BY MaxIs
      <4> QED BY <4>1, <4>2, SymExtrema DEF Sym!NewestOf
    <3> QED BY <3>1, <3>2
  <2> QED BY <1>6, <1>7, <1>9, <2>1
<1>10. CASE O # {}
  <2> DEFINE F == Max(O)
  <2>1. F \in O /\ \A k \in O : F >= k
    <3>1. Len(entries) \in Nat /\ O \subseteq 0..Len(entries)
      BY <1>2, <1>3 DEF RInv, OInv, IInv, TypeOK
    <3> QED BY <1>10, <3>1, MaxIsLast
  <2> HIDE DEF F
  <2>2. PICK i \in 1..Len(nest) : nest[i] = F
    BY <1>3, <2>1
  <2>3. entries[F].scope = i - 1 /\ F # 0 /\ F \in Nat
    BY <1>2, <1>3, <1>4, <2>1, <2>2
  <2>4. ASSUME NEW k \in O PROVE entries[k].scope < i - 1 \/ k = F
    <3>1. PICK j \in 1..Len(nest) : nest[j] = k
      BY <1>3
    <3>2. entries[k].scope = j - 1 /\ k # 0 /\ k \in Nat
      BY <1>2, <1>3, <1>4, <3>1
    <3>3. CASE j = i
      BY <2>2, <3>1, <3>3
    <3>4. CASE i < j
      <4>1. F < k
        BY <1>1, <2>2, <3>1, <3>2, <3>4 DEF RInv, OpensInOrder
      <4> QED BY <2>1, <2>3, <3>2, <4>1
    <3>5. CASE j < i
      BY <3>2, <3>5
    <3> QED BY <3>3, <3>4, <3>5
  <2>5. Max(S) = i - 1
    <3>1. S \subseteq Nat /\ i - 1 \in S
      BY <1>2, <1>3, <2>1, <2>3 DEF S
    <3>2. \A s \in S : i - 1 >= s
      <4> SUFFICES ASSUME NEW k \in O PROVE i - 1 >= entries[k].scope
        BY DEF S
      <4>1. entries[k].scope \in Nat
        BY <1>2, <1>3
      <4> QED BY <2>3, <2>4, <4>1
    <3> QED BY <3>1, <3>2, MaxIs
  <2>6. {k \in O : entries[k].scope = Max(S)} = {F}
    <3>1. ASSUME NEW k \in O, entries[k].scope = i - 1 PROVE k = F
      BY <2>4, <3>1
    <3> QED BY <2>1, <2>3, <2>5, <3>1
  <2>7. Max({F}) = F
    <3>1. {F} \subseteq Nat /\ \A y \in {F} : F >= y
      BY <2>3
    <3> QED BY <3>1, MaxIs
  <2>8. Sym!OpenFunc(entries, current_scope) = F
    <3>1. Sym!Max(S) = Max(S) /\ Sym!Max({F}) = Max({F})
      BY SymExtrema
    <3>2. Sym!NewestOf({F}) = F
      BY <2>7, <3>1 DEF Sym!NewestOf
    <3> QED BY <1>7, <1>10, <2>6, <3>1, <3>2
  <2>9. Sym!NewestOf(Range(nest)) = F
    <3>1. F \in Range(nest)
      BY <1>1, <2>2 DEF Range
    <3>2. \A x \in Range(nest) : F >= x
      BY <1>8, <2>1, <2>3
    <3>3. Max(Range(nest)) = F
      BY <1>8, <3>1, <3>2, MaxIs
    <3> QED BY <3>1, <3>3, SymExtrema DEF Sym!NewestOf
  <2> QED BY <1>6, <2>8, <2>9
<1> QED BY <1>9, <1>10

\* A return statement is added to the function whose body is being parsed
\* ("Get last open function", parser.y:142), and what is closed when a body ends
\* is that function: in a table that never grows, whatever is shadowed.
THEOREM ReturnsReachTheInnermost == NeverGrows => (Spec => []LastOpenIsInnermost)
<1> SUFFICES ASSUME NeverGrows PROVE Spec => []LastOpenIsInnermost
  OBVIOUS
<1> QED BY NestsInit, NestsStep, LastOpenFollows, PTL DEF Spec

-----------------------------------------------------------------------------
(* The refinement: what Scoping calls nameOf, visible and opened, and how each *)
(* step of the table changes them.                                            *)

NameOf == [k \in DOMAIN entries |-> entries[k].name]
Depth == current_scope + IF header = 0 THEN 1 ELSE 2
Visible == [s \in 1..Depth |->
              {k \in DOMAIN entries : entries[k].isActive /\ entries[k].scope = s - 1}]
Opened == Sym!Opened(entries)

\* The mapping yields a state of Scoping.
Mapped == /\ NameOf \in Seq(Name) /\ Len(NameOf) = Len(entries) /\ Len(entries) \in Nat
          /\ Depth \in Nat \ {0} /\ Visible \in Seq(SUBSET (DOMAIN entries))
          /\ Len(Visible) = Depth /\ DOMAIN Visible = 1..Depth
          /\ Depth = Inner + 1

\* The types of what the table shows of Scoping.
LEMMA MappingType == RInv => Mapped
<1> SUFFICES ASSUME RInv PROVE Mapped
  OBVIOUS
<1>1. /\ entries \in Seq(Binding) /\ Len(entries) \in Nat /\ DOMAIN entries = 1..Len(entries)
      /\ current_scope \in Nat /\ header \in Nat
  BY DEF RInv, OInv, IInv, TypeOK, current_scope
<1>2. NameOf \in Seq(Name) /\ Len(NameOf) = Len(entries)
  <2>1. NameOf \in [1..Len(entries) -> Name]
    <3>1. \A k \in 1..Len(entries) : entries[k].name \in Name
      BY <1>1, EntryType DEF RInv, OInv, IInv
    <3> QED BY <1>1, <3>1 DEF NameOf
  <2> QED BY <1>1, <2>1
<1>3. Depth \in Nat \ {0} /\ Depth = Inner + 1
  BY <1>1 DEF Depth, Inner
<1>4. Visible \in [1..Depth -> SUBSET (DOMAIN entries)]
  BY DEF Visible
<1> HIDE DEF Depth
<1> QED BY <1>1, <1>2, <1>3, <1>4 DEF Mapped

\* A binding is visible exactly when it is active: none is out of scope.
LEMMA BoundIs ==
  ASSUME RInv, NEW n, NEW s \in 1..Depth
  PROVE  Scopes!Bound(n, s) <=> Sym!ActiveAt(entries, n, s - 1) # {}
<1>1. Scopes!Bound(n, s) <=> \E k \in Visible[s] : NameOf[k] = n
  BY DEF Scopes!Bound, Visible, NameOf, Depth
<1> QED BY <1>1 DEF Visible, NameOf, Sym!ActiveAt, Sym!Active

\* An insertion binds one name more, in the scope it is put in.
LEMMA PutMaps ==
  ASSUME RInv, RInv', ~crashed, NEW e \in Binding, Put(e)
  PROVE  /\ NameOf' = Append(NameOf, e.name)
         /\ ~e.func_is_open =>
              /\ Visible' = [Visible EXCEPT ![e.scope + 1] = @ \union {Len(NameOf) + 1}]
              /\ Opened' = Opened
         /\ e.func_is_open =>
              /\ Visible' = [Visible EXCEPT ![Len(Visible)] = @ \union {Len(NameOf) + 1}]
                              \o <<{}>>
              /\ Opened' = Opened \union {Len(NameOf) + 1}
<1> DEFINE k == Len(entries) + 1
<1>1. /\ k \in Nat \ {0} /\ k \notin DOMAIN entries
      /\ Len(entries') = k
      /\ DOMAIN entries' = (DOMAIN entries) \union {k}
      /\ entries'[k] = e
      /\ \A j \in DOMAIN entries : entries'[j] = entries[j] /\ j \in Nat /\ j < k
      /\ header' = IF e.func_is_open THEN k ELSE header
  BY PutEffect DEF RInv, OInv
<1>2. /\ NameOf \in Seq(Name) /\ Len(NameOf) + 1 = k
      /\ Depth \in Nat \ {0} /\ DOMAIN Visible = 1..Depth /\ Len(Visible) = Depth
      /\ Visible \in Seq(SUBSET (DOMAIN entries)) /\ Depth = Inner + 1
      /\ NameOf' \in Seq(Name) /\ Len(NameOf') = k
      /\ Depth' \in Nat \ {0} /\ DOMAIN Visible' = 1..Depth'
      /\ Visible' \in Seq(SUBSET (DOMAIN entries')) /\ Len(Visible') = Depth'
  <2>1. Mapped
    BY MappingType
  <2>2. Mapped'
    BY MappingType, PTL
  <2> QED BY <1>1, <2>1, <2>2 DEF Mapped
<1>3. /\ nest' = nest /\ current_scope' = current_scope /\ Fits(e) /\ e.isActive
      /\ current_scope \in Nat /\ header \in Nat /\ e.scope \in Nat /\ e.name \in Name
      /\ e.func_is_open \in BOOLEAN
  BY DEF Put, Fits, current_scope, Binding, RInv, OInv, IInv, TypeOK
<1> HIDE DEF k
<1>4. NameOf' = Append(NameOf, e.name)
  <2>1. /\ Append(NameOf, e.name) \in Seq(Name) /\ Len(Append(NameOf, e.name)) = k
        /\ Append(NameOf, e.name)[k] = e.name
        /\ \A j \in 1..Len(NameOf) : Append(NameOf, e.name)[j] = NameOf[j]
    BY <1>2, <1>3
  <2>2. ASSUME NEW j \in 1..k PROVE NameOf'[j] = Append(NameOf, e.name)[j]
    <3>1. CASE j = k
      BY <1>1, <2>1, <3>1 DEF NameOf
    <3>2. CASE j # k
      <4>1. j \in 1..Len(NameOf) /\ j \in DOMAIN entries
        <5>1. DOMAIN entries = 1..Len(entries) /\ Len(entries) \in Nat /\ k = Len(entries) + 1
          BY DEF RInv, OInv, IInv, TypeOK, k
        <5> QED BY <1>2, <3>2, <5>1
      <4> QED BY <1>1, <2>1, <4>1 DEF NameOf
    <3> QED BY <3>1, <3>2
  <2> QED BY <1>2, <2>1, <2>2, SeqEqual
<1>5. \A s \in 1..Depth :
        {j \in DOMAIN entries' : entries'[j].isActive /\ entries'[j].scope = s - 1}
          = IF s = e.scope + 1 THEN Visible[s] \union {k} ELSE Visible[s]
  <2> SUFFICES ASSUME NEW s \in 1..Depth
               PROVE  {j \in DOMAIN entries' : entries'[j].isActive /\ entries'[j].scope = s - 1}
                        = IF s = e.scope + 1 THEN Visible[s] \union {k} ELSE Visible[s]
    OBVIOUS
  <2>1. Visible[s] = {j \in DOMAIN entries : entries[j].isActive /\ entries[j].scope = s - 1}
    BY DEF Visible
  <2>2. e.scope = s - 1 <=> s = e.scope + 1
    BY <1>2, <1>3
  <2> QED BY <1>1, <1>3, <2>1, <2>2
<1>6. CASE ~e.func_is_open
  <2>1. Depth' = Depth
    BY <1>1, <1>3, <1>6 DEF Depth
  <2>2. Visible' = [s \in 1..Depth |->
          {j \in DOMAIN entries' : entries'[j].isActive /\ entries'[j].scope = s - 1}]
    BY <2>1 DEF Visible
  <2>3. Visible' = [Visible EXCEPT ![e.scope + 1] = @ \union {k}]
    BY <1>2, <1>5, <2>2
  <2>4. Opened' = Opened
    BY <1>1, <1>6 DEF Opened, Sym!Opened
  <2> QED BY <1>2, <1>4, <1>6, <2>3, <2>4
<1>7. CASE e.func_is_open
  <2>1. header = 0 /\ e.scope = Inner /\ Inner = current_scope
    BY <1>3, <1>7 DEF Fits, Inner
  <2>2. Depth = current_scope + 1 /\ Depth' = Depth + 1 /\ e.scope + 1 = Depth
    BY <1>1, <1>3, <1>7, <2>1 DEF Depth
  <2>3. Visible' = [s \in 1..(Depth + 1) |->
          {j \in DOMAIN entries' : entries'[j].isActive /\ entries'[j].scope = s - 1}]
    BY <2>2 DEF Visible
  <2>4. {j \in DOMAIN entries' : entries'[j].isActive /\ entries'[j].scope = (Depth + 1) - 1} = {}
    <3> SUFFICES ASSUME NEW j \in DOMAIN entries', entries'[j].isActive
                 PROVE  entries'[j].scope # (Depth + 1) - 1
      OBVIOUS
    <3>1. j = k => entries'[j].scope = Depth - 1
      BY <1>1, <1>2, <2>2, <1>3
    <3>2. j # k => entries'[j].scope <= current_scope /\ entries'[j].scope \in Nat
      <4> SUFFICES ASSUME j # k PROVE entries'[j].scope <= current_scope /\ entries'[j].scope \in Nat
        OBVIOUS
      <4>1. j \in DOMAIN entries /\ entries'[j] = entries[j]
        BY <1>1
      <4>2. entries[j].scope \in Nat
        BY <4>1, EntryType DEF RInv, OInv, IInv
      <4> QED BY <2>1, <4>1, <4>2 DEF RInv, OInv, NoGhosts
    <3> QED BY <1>2, <1>3, <2>2, <3>1, <3>2
  <2> DEFINE W == [Visible EXCEPT ![Depth] = @ \union {k}]
             D == DOMAIN entries'
  <2>5. /\ W \in Seq(SUBSET D) /\ Len(W) = Depth
        /\ \A s \in 1..Depth : W[s] = IF s = Depth THEN Visible[s] \union {k} ELSE Visible[s]
    <3>1. W \in [1..Depth -> SUBSET D]
      BY <1>1, <1>2
    <3>2. \A s \in 1..Depth : W[s] = IF s = Depth THEN Visible[s] \union {k} ELSE Visible[s]
      BY <1>2
    <3>3. Depth \in Nat
      BY <1>2
    <3> HIDE DEF D, W
    <3>4. W \in Seq(SUBSET D) /\ Len(W) = Depth
      BY <3>1, <3>3
    <3> QED BY <3>2, <3>4
  <2>6. W \o <<{}>> \in Seq(SUBSET D) /\ Len(W \o <<{}>>) = Depth + 1
        /\ (W \o <<{}>>)[Depth + 1] = {}
        /\ \A s \in 1..Depth : (W \o <<{}>>)[s] = W[s]
    <3> HIDE DEF W, D
    <3>1. <<{}>> \in Seq(SUBSET D)
      OBVIOUS
    <3> QED BY <1>2, <2>5, <3>1
  <2>7. \A s \in 1..(Depth + 1) : Visible'[s] = (W \o <<{}>>)[s]
    <3> SUFFICES ASSUME NEW s \in 1..(Depth + 1) PROVE Visible'[s] = (W \o <<{}>>)[s]
      OBVIOUS
    <3> HIDE DEF W, D
    <3>1. CASE s = Depth + 1
      BY <2>3, <2>4, <2>6, <3>1
    <3>2. CASE s \in 1..Depth
      <4>1. s = e.scope + 1 <=> s = Depth
        BY <2>2
      <4>2. Visible'[s] = IF s = Depth THEN Visible[s] \union {k} ELSE Visible[s]
        <5>1. s \in 1..(Depth + 1)
          OBVIOUS
        <5>2. Visible'[s] = {j \in DOMAIN entries' :
                               entries'[j].isActive /\ entries'[j].scope = s - 1}
          BY <2>3, <5>1
        <5> QED BY <1>5, <3>2, <4>1, <5>2
      <4> QED BY <2>5, <2>6, <3>2, <4>2
    <3>3. Depth \in Nat
      BY <1>2
    <3>4. s = Depth + 1 \/ s \in 1..Depth
      BY <3>3
    <3> QED BY <3>1, <3>2, <3>4
  <2>8. Visible' = W \o <<{}>>
    <3> HIDE DEF W
    <3> QED BY <1>2, <2>2, <2>6, <2>7, SeqEqual
  <2>9. Opened' = Opened \union {k}
    BY <1>1, <1>7 DEF Opened, Sym!Opened
  <2> QED BY <1>2, <1>4, <1>7, <2>8, <2>9
<1> QED BY <1>3, <1>6, <1>7

\* What the parser finds before it puts a name.
LEMMA ContainsRight ==
  ASSUME RInv, NEW n \in Name, NEW s
  PROVE  SymTable_contains(n, s) <=> Sym!ActiveAt(entries, n, s) # {}
<1>1. Index(n, level) \in DOMAIN buckets
  BY IndexInRange DEF RInv, OInv, IInv, TypeOK
<1>2. ASSUME NEW k, k \in Range(buckets[Index(n, level)]) PROVE k \in DOMAIN entries
  BY <1>1, <1>2 DEF RInv, OInv, IInv, NothingLost
<1>3. ASSUME NEW k \in DOMAIN entries, entries[k].name = n
      PROVE  k \in Range(buckets[Index(n, level)])
  BY <1>3 DEF RInv, FirstLevel, OInv, IInv, NothingLost, Filed
<1> QED BY <1>2, <1>3 DEF SymTable_contains, Live, Sym!ActiveAt, Sym!Active

\* A lookup in one scope that finds nothing says that nothing is there.
LEMMA EntryAtIs ==
  ASSUME RInv, NEW n \in Name, NEW s \in Nat, SymTable_get_entry_at_scope(n, s) = 0
  PROVE  Sym!ActiveAt(entries, n, s) = {}
<1>1. CASE s \in DOMAIN scopes
  <2> DEFINE A == Sym!ActiveAt(entries, n, s)
  <2>1. SymTable_get_entry_at_scope(n, s) = Sym!EntryAtScope(entries, n, s)
    BY <1>1, EntryAtScopeRight DEF RInv, OInv
  <2>2. Sym!EntryAtScope(entries, n, s) = IF A = {} THEN 0 ELSE Min(A)
    BY SymExtrema DEF Sym!EntryAtScope, Sym!OldestOf
  <2>3. A \subseteq Nat /\ 0 \notin A
    BY DEF Sym!ActiveAt, Sym!Active, RInv, OInv, IInv, TypeOK
  <2>4. A # {} => Min(A) \in A
    BY <2>3, MinIsFirst
  <2> HIDE DEF A
  <2>5. A = {}
    BY <2>1, <2>2, <2>3, <2>4
  <2> QED BY <2>5 DEF A
<1>2. CASE s \notin DOMAIN scopes
  BY <1>2 DEF Sym!ActiveAt, Sym!Active, RInv, OInv, IInv, NothingLost
<1> QED BY <1>1, <1>2

\* A lookup outwards that finds nothing says that nothing is bound in any
\* scope of the program.
LEMMA ClosestIs ==
  ASSUME RInv, NEW n \in Name, current_scope < scopes_size,
         SymTable_get_closest_scope(n, current_scope) = 0,
         NEW s \in 0..current_scope
  PROVE  Sym!ActiveAt(entries, n, s) = {}
<1> DEFINE has == {t \in 0..current_scope : \E k \in Range(scopes[t]) : Live(k, n)}
<1>1. /\ current_scope \in Nat /\ 0..current_scope \subseteq DOMAIN scopes
      /\ has \subseteq 0..current_scope
  BY DEF RInv, OInv, IInv, TypeOK, current_scope
<1>2. SymTable_get_closest_scope(n, current_scope)
        = IF has = {} THEN 0 ELSE SymTable_get_entry_at_scope(n, Max(has))
  BY DEF SymTable_get_closest_scope
<1>3. CASE has = {}
  <2> SUFFICES ASSUME NEW k \in Sym!ActiveAt(entries, n, s) PROVE FALSE
    OBVIOUS
  <2>1. k \in DOMAIN entries /\ Live(k, n) /\ entries[k].scope = s
    BY DEF Sym!ActiveAt, Sym!Active, Live
  <2>2. k \in Range(scopes[s])
    BY <2>1 DEF RInv, OInv, IInv, NothingLost
  <2>3. s \in has
    BY <2>1, <2>2
  <2> QED BY <1>3, <2>3
<1>4. CASE has # {}
  <2>1. Max(has) \in has
    <3> HIDE DEF has
    <3> QED BY <1>1, <1>4, MaxIsLast
  <2>2. PICK k \in Range(scopes[Max(has)]) : Live(k, n)
    BY <2>1
  <2>3. k \in DOMAIN entries /\ entries[k].scope = Max(has) /\ Max(has) \in Nat
    BY <1>1, <2>1, <2>2 DEF RInv, OInv, IInv, NothingLost
  <2>4. k \in Sym!ActiveAt(entries, n, Max(has))
    BY <2>2, <2>3 DEF Sym!ActiveAt, Sym!Active, Live
  <2>5. SymTable_get_entry_at_scope(n, Max(has)) = 0
    BY <1>2, <1>4
  <2> HIDE DEF has
  <2> QED BY <2>3, <2>4, <2>5, EntryAtIs
<1> QED BY <1>3, <1>4

\* In a table that never grows, a SymTable_put puts.
LEMMA PutPuts ==
  ASSUME RInv, FirstLevel', Ready, NEW n \in Name, NEW s \in Nat, NEW f \in BOOLEAN,
         SymTable_put(n, s, f), nest' = nest, crashed' = crashed,
         \/ s = Inner /\ (f => header = 0 /\ n \in Fun)
         \/ s = 0 /\ n \in Temp /\ header = 0 /\ ~f
  PROVE  /\ ~crashed
         /\ \E e \in Binding : Put(e) /\ e.name = n /\ e.scope = s /\ e.func_is_open = f
<1> DEFINE e == [name |-> n, scope |-> s, isActive |-> TRUE, func_is_open |-> f]
<1>1. ~growing /\ ~crashed
  BY DEF Ready
<1>2. ~Full
  <2>1. level = 1 /\ level' = 1
    BY DEF FirstLevel, RInv
  <2>2. Full => level' = level + 1
    BY DEF SymTable_put, StartGrowth
  <2> QED BY <2>1, <2>2
<1>3. e \in Binding /\ IF Full THEN Internal /\ header' = header ELSE Put(e)
  BY <1>1, PutIs DEF RInv, OInv
<1>4. e.name = n /\ e.scope = s /\ e.func_is_open = f
  OBVIOUS
<1> HIDE DEF e
<1> QED BY <1>1, <1>2, <1>3, <1>4

\* The name is bound in the innermost scope, or a temporary in the outermost.
LEMMA BindMaps ==
  ASSUME RInv, RInv', Ready, NEW n \in Name, NEW s \in Nat,
         SymTable_put(n, s, FALSE), nest' = nest, crashed' = crashed,
         s = Inner \/ (s = 0 /\ n \in Temp /\ header = 0)
  PROVE  /\ NameOf' = Append(NameOf, n) /\ Opened' = Opened
         /\ Visible' = [Visible EXCEPT ![s + 1] = @ \union {Len(NameOf) + 1}]
<1>1. PICK e \in Binding : Put(e) /\ e.name = n /\ e.scope = s /\ e.func_is_open = FALSE
  BY PutPuts DEF RInv
<1>2. ~crashed
  BY DEF Ready
<1> QED BY <1>1, <1>2, PutMaps

\* Leaving a block takes the innermost scope off, and closes the function whose
\* body it was.
LEMMA LeaveMaps ==
  ASSUME RInv, RInv', Leave
  PROVE  Scopes!Leave
<1>1. /\ DOMAIN entries' = DOMAIN entries
      /\ \A k \in DOMAIN entries :
           /\ entries'[k].name = entries[k].name /\ entries'[k].scope = entries[k].scope
           /\ entries'[k].isActive <=>
                entries[k].isActive /\ entries[k].scope # current_scope
      /\ Len(nest) \in Nat \ {0} /\ current_scope' = current_scope - 1
      /\ header = 0 /\ header' = 0
  BY LeaveEffect DEF RInv, OInv
<1>2. Mapped /\ Mapped'
  <2>1. Mapped
    BY MappingType
  <2>2. Mapped'
    BY MappingType, PTL
  <2> QED BY <2>1, <2>2
<1>3. current_scope = Len(nest) /\ Depth = Len(nest) + 1 /\ Depth' = Len(nest)
  BY <1>1 DEF Depth, current_scope
<1>4. NameOf' = NameOf
  BY <1>1 DEF NameOf
<1>5. Visible' = SubSeq(Visible, 1, Len(Visible) - 1)
  <2> DEFINE F == SubSeq(Visible, 1, Len(Visible) - 1)
             D == DOMAIN entries
  <2>1. /\ Visible \in Seq(SUBSET D) /\ Visible # <<>> /\ Len(Visible) = Len(nest) + 1
        /\ Visible' \in Seq(SUBSET D) /\ Len(Visible') = Len(nest)
    BY <1>1, <1>2, <1>3 DEF Mapped
  <2>2. /\ F \in Seq(SUBSET D) /\ Len(F) = Len(Visible) - 1
        /\ \A i \in 1..Len(F) : F[i] = Visible[i]
    <3> HIDE DEF D
    <3> QED BY <2>1, FrontOf
  <2>3. Len(F) = Len(nest)
    BY <1>1, <2>1, <2>2
  <2>4. ASSUME NEW s \in 1..Len(nest) PROVE Visible'[s] = F[s]
    <3>1. s \in 1..Depth /\ s \in 1..Depth' /\ s - 1 # current_scope
      BY <1>1, <1>3
    <3>2. Visible'[s] = {k \in D : entries'[k].isActive /\ entries'[k].scope = s - 1}
      BY <1>1, <3>1 DEF Visible
    <3>3. Visible[s] = {k \in D : entries[k].isActive /\ entries[k].scope = s - 1}
      BY <3>1 DEF Visible
    <3>4. Visible'[s] = Visible[s]
      BY <1>1, <3>1, <3>2, <3>3
    <3> QED BY <2>2, <2>3, <3>4
  <2> HIDE DEF F, D
  <2>5. Visible' = F
    BY <2>1, <2>2, <2>3, <2>4, SeqEqual
  <2> QED BY <2>5 DEF F
<1>6. Opened' = Opened \/ (Opened # {} /\ Opened' = Opened \ {Max(Opened)})
  <2> DEFINE f == nest[Len(nest)]
  <2>1. Opened' = Opened \ {f}
    BY <1>1, LeaveCloses DEF Opened, Sym!Opened
  <2>2. /\ \A i \in 1..Len(nest) : OpenAt(i) = nest[i] /\ i \in Levels /\ nest[i] \in Nat
        /\ \A i \in Levels : i \in 1..Len(nest) \/ i = Len(nest) + 1
        /\ OpenAt(Len(nest) + 1) = 0 /\ Len(nest) \in 1..Len(nest)
    BY <1>1, LevelsType DEF RInv, OInv
  <2>3. \A k \in DOMAIN entries : k \in Nat \ {0}
    BY DEF RInv, OInv, IInv, TypeOK
  <2>4. CASE f = 0
    BY <2>1, <2>3, <2>4 DEF Opened, Sym!Opened
  <2>5. CASE f # 0
    <3>1. f \in Opened
      BY <2>2, <2>5 DEF RInv, OpensKnown, OpensAreNested, Opened, Sym!Opened
    <3>2. ASSUME NEW k \in Opened PROVE f >= k
      <4>1. k \in DOMAIN entries /\ \E i \in Levels : OpenAt(i) = k
        BY DEF RInv, OpensAreNested, Opened, Sym!Opened
      <4>2. PICK i \in 1..Len(nest) : nest[i] = k
        BY <2>2, <2>3, <4>1
      <4>3. i = Len(nest) \/ i < Len(nest)
        BY <1>1
      <4>4. i < Len(nest) => k < f
        BY <2>2, <2>5, <4>2 DEF RInv, OpensInOrder
      <4> QED BY <2>2, <4>2, <4>3, <4>4
    <3>3. Opened \subseteq Nat
      BY <2>3 DEF Opened, Sym!Opened
    <3> HIDE DEF f
    <3>4. Max(Opened) = f
      BY <3>1, <3>2, <3>3, MaxIs
    <3> QED BY <2>1, <3>1, <3>4
  <2> QED BY <2>4, <2>5
<1>7. Len(Visible) > 1
  BY <1>1, <1>2, <1>3 DEF Mapped
<1>8. Scopes!Max(Opened) = Max(Opened)
  BY DEF Scopes!Max, Max
<1> QED BY <1>4, <1>5, <1>6, <1>7, <1>8 DEF Scopes!Leave, NameOf, Visible, Opened, Depth

\* A block that is no body opens a scope; the scope of a body is open since the
\* name of its function was read.
LEMMA EnterMaps ==
  ASSUME RInv, RInv', EnterBlock
  PROVE  Scopes!Enter \/ UNCHANGED <<NameOf, Visible, Opened>>
<1>1. /\ nest' = Append(nest, header) /\ header' = 0 /\ entries' = entries /\ ~crashed
      /\ nest \in Seq(Nat) /\ header \in Nat
  BY DEF EnterBlock, Ready, table, RInv, OInv, IInv, TypeOK
<1>2. current_scope' = current_scope + 1 /\ current_scope \in Nat
  BY <1>1 DEF current_scope
<1>3. NameOf' = NameOf /\ Opened' = Opened
  BY <1>1 DEF NameOf, Opened, Sym!Opened
<1>4. CASE header # 0
  <2>1. Depth' = Depth
    BY <1>1, <1>2, <1>4 DEF Depth
  <2> QED BY <1>1, <1>3, <2>1 DEF Visible
<1>5. CASE header = 0
  <2>1. Depth = current_scope + 1 /\ Depth' = Depth + 1 /\ Depth \in Nat
    BY <1>1, <1>2, <1>5 DEF Depth
  <2> DEFINE W == Append(Visible, {})
             D == DOMAIN entries
  <2>2. /\ Visible \in Seq(SUBSET D) /\ Len(Visible) = Depth
        /\ Visible' \in Seq(SUBSET D) /\ Len(Visible') = Depth + 1
    <3>1. Mapped
      BY MappingType
    <3>2. Mapped'
      BY MappingType, PTL
    <3> QED BY <1>1, <2>1, <3>1, <3>2 DEF Mapped
  <2>3. /\ W \in Seq(SUBSET D) /\ Len(W) = Depth + 1 /\ W[Depth + 1] = {}
        /\ \A s \in 1..Depth : W[s] = Visible[s]
    <3> HIDE DEF D
    <3>1. {} \in SUBSET D
      OBVIOUS
    <3> QED BY <2>1, <2>2, <3>1
  <2>4. ASSUME NEW s \in 1..(Depth + 1) PROVE Visible'[s] = W[s]
    <3>1. Visible'[s] = {k \in D : entries[k].isActive /\ entries[k].scope = s - 1}
      BY <1>1, <2>1 DEF Visible
    <3>2. CASE s \in 1..Depth
      <4>1. Visible[s] = {k \in D : entries[k].isActive /\ entries[k].scope = s - 1}
        BY <3>2 DEF Visible
      <4> QED BY <2>3, <3>1, <3>2, <4>1
    <3>3. CASE s = Depth + 1
      <4>1. ASSUME NEW k \in D, entries[k].isActive PROVE entries[k].scope # s - 1
        <5>1. entries[k].scope <= current_scope /\ entries[k].scope \in Nat
          BY <1>1, <1>5, <4>1, EntryType DEF RInv, OInv, NoGhosts, IInv
        <5> QED BY <1>2, <2>1, <3>3, <5>1
      <4>2. Visible'[s] = {}
        BY <3>1, <4>1
      <4> HIDE DEF W, D
      <4> QED BY <2>3, <3>3, <4>2
    <3>4. s = Depth + 1 \/ s \in 1..Depth
      BY <2>1
    <3> HIDE DEF W, D
    <3> QED BY <3>2, <3>3, <3>4
  <2> HIDE DEF W, D
  <2>5. Visible' = W
    BY <2>2, <2>3, <2>4, SeqEqual
  <2> QED BY <1>3, <2>5 DEF W, Scopes!Enter, NameOf, Visible, Opened, Depth
<1> QED BY <1>4, <1>5

\* Every step of the table is a step of Scoping, or changes nothing there.
LEMMA StepMaps == NeverGrows /\ RInv /\ RInv' /\ [Next]_vars => [Scopes!Next]_(Scopes!vars)
<1> SUFFICES ASSUME NeverGrows, RInv, RInv', [Next]_vars PROVE [Scopes!Next]_(Scopes!vars)
  OBVIOUS
<1>0. /\ current_scope \in Nat /\ scopes_size \in Nat /\ header \in Nat
      /\ Depth \in Nat \ {0} /\ Depth = Inner + 1
      /\ Len(Visible) = Depth /\ DOMAIN Visible = 1..Depth
  <2>1. Mapped
    BY MappingType
  <2> QED BY <2>1 DEF Mapped, RInv, OInv, IInv, TypeOK, current_scope
<1>1. ASSUME UNCHANGED <<NameOf, Visible, Opened>> PROVE UNCHANGED Scopes!vars
  BY <1>1 DEF Scopes!vars, NameOf, Visible, Opened, Depth
<1>2. ASSUME UNCHANGED table, nest' = nest, header' = header
      PROVE  UNCHANGED <<NameOf, Visible, Opened>>
  BY <1>2 DEF NameOf, Visible, Opened, Sym!Opened, Depth, current_scope, table
<1>3. ASSUME NEW n \in Var, Identifier(n)
      PROVE  Scopes!Use(n) \/ UNCHANGED <<NameOf, Visible, Opened>>
  <2>1. CASE current_scope >= scopes_size
    BY <1>2, <1>3, <2>1 DEF Identifier, Crash
  <2>2. CASE ~(current_scope >= scopes_size)
    <3>1. /\ n \in Name /\ Ready /\ header = 0 /\ current_scope < scopes_size
          /\ SymTable_get_closest_scope(n, current_scope) = 0
          /\ SymTable_put(n, current_scope, FALSE)
          /\ nest' = nest /\ crashed' = crashed /\ current_scope = Inner
      <4>1. current_scope < scopes_size /\ n \in Name
        BY <1>0, <2>2 DEF Name
      <4> QED BY <1>3, <2>2, <4>1 DEF Identifier, Inner
    <3>2. \A s \in 1..Depth : ~Scopes!Bound(n, s)
      <4> SUFFICES ASSUME NEW s \in 1..Depth PROVE ~Scopes!Bound(n, s)
        OBVIOUS
      <4>1. s - 1 \in 0..current_scope
        BY <1>0, <3>1
      <4> QED BY <3>1, <4>1, ClosestIs, BoundIs
    <3>3. /\ NameOf' = Append(NameOf, n) /\ Opened' = Opened
          /\ Visible' = [Visible EXCEPT ![current_scope + 1] = @ \union {Len(NameOf) + 1}]
      BY <1>0, <3>1, BindMaps
    <3>4. current_scope + 1 = Len(Visible)
      BY <1>0, <3>1
    <3>5. \A s \in DOMAIN Visible : ~(\E k \in Visible[s] : NameOf[k] = n)
      BY <1>0, <3>2 DEF Scopes!Bound, NameOf, Visible, Depth
    <3>6. Visible' = [Visible EXCEPT ![Len(Visible)] = @ \union {Len(NameOf) + 1}]
      BY <3>3, <3>4
    <3> QED BY <3>3, <3>5, <3>6
            DEF Scopes!Use, Scopes!Bound, Scopes!Bind, Scopes!Fresh,
                NameOf, Visible, Opened, Depth
  <2> QED BY <2>1, <2>2
<1>4. ASSUME NEW n \in Name, NEW s \in Nat, Ready, SymTable_put(n, s, FALSE),
             nest' = nest, crashed' = crashed, s = Inner,
             Sym!ActiveAt(entries, n, s) = {}
      PROVE  Scopes!Local(n)
  <2>1. s + 1 = Len(Visible) /\ s + 1 \in 1..Depth /\ (s + 1) - 1 = s
    BY <1>0, <1>4
  <2>2. ~(\E k \in Visible[s + 1] : NameOf[k] = n)
    <3>1. ~Scopes!Bound(n, s + 1)
      BY <1>4, <2>1, BoundIs
    <3> QED BY <3>1 DEF Scopes!Bound, NameOf, Visible, Depth
  <2>3. /\ NameOf' = Append(NameOf, n) /\ Opened' = Opened
        /\ Visible' = [Visible EXCEPT ![s + 1] = @ \union {Len(NameOf) + 1}]
    BY <1>4, BindMaps
  <2>4. /\ ~(\E k \in Visible[Len(Visible)] : NameOf[k] = n)
        /\ Visible' = [Visible EXCEPT ![Len(Visible)] = @ \union {Len(NameOf) + 1}]
    BY <2>1, <2>2, <2>3
  <2> QED BY <2>3, <2>4
          DEF Scopes!Local, Scopes!Bound, Scopes!Bind, Scopes!Fresh,
              NameOf, Visible, Opened, Depth
<1>5. ASSUME NEW n \in Var, LocalIdentifier(n) PROVE Scopes!Local(n)
  <2>1. /\ n \in Name /\ Ready /\ SymTable_put(n, current_scope, FALSE)
        /\ nest' = nest /\ crashed' = crashed /\ current_scope = Inner
        /\ SymTable_get_entry_at_scope(n, current_scope) = 0
    BY <1>5 DEF LocalIdentifier, Name, Inner
  <2>2. Sym!ActiveAt(entries, n, current_scope) = {}
    BY <1>0, <2>1, EntryAtIs
  <2> QED BY <1>0, <1>4, <2>1, <2>2
<1>6. ASSUME NEW n \in Var, Formal(n) PROVE Scopes!Local(n)
  <2>1. /\ n \in Name /\ Ready /\ SymTable_put(n, current_scope + 1, FALSE)
        /\ nest' = nest /\ crashed' = crashed /\ current_scope + 1 = Inner
        /\ ~SymTable_contains(n, current_scope + 1)
    BY <1>6 DEF Formal, Name, Inner
  <2>2. Sym!ActiveAt(entries, n, current_scope + 1) = {}
    BY <2>1, ContainsRight
  <2>3. \E s \in Nat : /\ s = Inner /\ SymTable_put(n, s, FALSE)
                       /\ Sym!ActiveAt(entries, n, s) = {}
    <3>1. current_scope + 1 \in Nat
      BY <1>0
    <3> QED BY <3>1, <2>1, <2>2
  <2> QED BY <1>4, <2>1, <2>3
<1>7. ASSUME NEW n \in Temp, create_temp_symbol(n) PROVE Scopes!Temporary(n)
  <2>1. /\ n \in Name /\ Ready /\ SymTable_put(n, 0, FALSE) /\ header = 0
        /\ nest' = nest /\ crashed' = crashed /\ ~SymTable_contains(n, 0)
    BY <1>7 DEF create_temp_symbol, Name
  <2>2. ~Scopes!Bound(n, 1)
    <3>1. 1 \in 1..Depth /\ 1 - 1 = 0
      BY <1>0
    <3> QED BY <2>1, <3>1, ContainsRight, BoundIs
  <2>3. /\ NameOf' = Append(NameOf, n) /\ Opened' = Opened
        /\ Visible' = [Visible EXCEPT ![0 + 1] = @ \union {Len(NameOf) + 1}]
    BY <2>1, BindMaps
  <2>4. /\ Visible' = [Visible EXCEPT ![1] = @ \union {Len(NameOf) + 1}]
        /\ ~(\E k \in Visible[1] : NameOf[k] = n)
    <3>1. 0 + 1 = 1
      OBVIOUS
    <3>2. ~(\E k \in Visible[1] : NameOf[k] = n)
      BY <2>2 DEF Scopes!Bound, NameOf, Visible, Depth
    <3> QED BY <2>3, <3>1, <3>2
  <2> QED BY <2>3, <2>4
          DEF Scopes!Temporary, Scopes!Bound, Scopes!Bind, Scopes!Fresh,
              NameOf, Visible, Opened, Depth
<1>8. ASSUME NEW f \in Fun, FunctionName(f) PROVE Scopes!Open(f)
  <2>1. /\ f \in Name /\ Ready /\ SymTable_put(f, current_scope, TRUE) /\ header = 0
        /\ nest' = nest /\ crashed' = crashed /\ current_scope = Inner
    BY <1>8 DEF FunctionName, Name, Inner
  <2>2. /\ ~crashed
        /\ \E e \in Binding : Put(e) /\ e.name = f /\ e.scope = current_scope
                              /\ e.func_is_open = TRUE
    BY <1>0, <2>1, PutPuts DEF RInv
  <2>3. /\ NameOf' = Append(NameOf, f) /\ Opened' = Opened \union {Len(NameOf) + 1}
        /\ Visible' = [Visible EXCEPT ![Len(Visible)] = @ \union {Len(NameOf) + 1}] \o <<{}>>
    BY <2>2, PutMaps
  <2> QED BY <2>3 DEF Scopes!Open, Scopes!Fresh, NameOf, Visible, Opened, Depth
<1>9. ASSUME LeaveBlock PROVE Scopes!Leave \/ UNCHANGED <<NameOf, Visible, Opened>>
  <2>1. CASE current_scope >= scopes_size
    BY <1>2, <1>9, <2>1 DEF LeaveBlock, Crash
  <2>2. CASE ~(current_scope >= scopes_size)
    <3>1. Leave
      BY <1>0, <1>9, <2>2 DEF Leave, LeaveBlock
    <3> QED BY <3>1, LeaveMaps
  <2> QED BY <2>1, <2>2
<1>10. ~MoveNode /\ ~NextRow /\ ~FinishGrowth
  BY DEF MoveNode, NextRow, FinishGrowth, RInv, FirstLevel
<1>11. ASSUME UNCHANGED vars PROVE UNCHANGED <<NameOf, Visible, Opened>>
  BY <1>2, <1>11 DEF vars
<1> QED BY <1>1, <1>3, <1>5, <1>6, <1>7, <1>8, <1>9, <1>10, <1>11, EnterMaps
        DEF Next, Stopped, Scopes!Next

\* The empty table is the initial state of Scoping.
LEMMA InitMaps == Init => Scopes!Init
<1> SUFFICES ASSUME Init PROVE Scopes!Init
  OBVIOUS
<1>1. /\ entries = <<>> /\ nest = <<>> /\ header = 0 /\ DOMAIN entries = {}
      /\ current_scope = 0
  BY DEF Init, current_scope
<1>2. NameOf = <<>> /\ Opened = {}
  BY <1>1 DEF NameOf, Opened, Sym!Opened
<1>3. Depth = 1
  BY <1>1 DEF Depth
<1>4. Visible = <<{}>>
  BY <1>1, <1>3 DEF Visible
<1> QED BY <1>2, <1>4 DEF Scopes!Init, NameOf, Visible, Opened, Depth

\* A table that never grows implements scoping: each call of the parser changes
\* what is visible and what is open as Scoping says, for every program, every
\* shadowing of functions and every hash function.
THEOREM ScopingIsImplemented == NeverGrows => (Spec => ImplementsScoping)
<1> SUFFICES ASSUME NeverGrows PROVE Spec => ImplementsScoping
  OBVIOUS
<1>1. Init => RInv
  BY NestsInit
<1>2. RInv /\ [Next]_vars => RInv'
  BY NestsStep
<1>3. RInv /\ RInv' /\ [Next]_vars => [Scopes!Next]_(Scopes!vars)
  BY StepMaps
<1> QED BY <1>1, <1>2, <1>3, InitMaps, PTL DEF Spec, ImplementsScoping, Scopes!Spec
=============================================================================
