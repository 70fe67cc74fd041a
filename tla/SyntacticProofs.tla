--------------------------- MODULE SyntacticProofs ---------------------------
(* For every program, whatever its names and however it nests: the syntactic  *)
(* analyzer refuses it if and only if it breaks a rule, and the functions open *)
(* in its table are those whose bodies are being read.                         *)
EXTENDS Syntactic, FiniteSetTheorems, SequenceTheorems,
        WellFoundedInduction, TLAPS

-----------------------------------------------------------------------------
(* The least and the greatest of a set of numbers: what a walk along a list   *)
(* stops at, and what the definitions of the lookups in Symbols choose.       *)

\* A set of numbers has a least element, which Min chooses.
LEMMA MinIsFirst ==
  ASSUME NEW S, S \subseteq Nat, S # {}
  PROVE  Min(S) \in S /\ \A y \in S : Min(S) <= y
<1>1. \E x \in S : \A y \in S : ~(<<y, x>> \in OpToRel(<, Nat))
  BY NatLessThanWellFounded, WFMin
<1>2. PICK x \in S : \A y \in S : ~(<<y, x>> \in OpToRel(<, Nat))
  BY <1>1
<1>3. ASSUME NEW y \in S PROVE x <= y
  <2>1. x \in Nat /\ y \in Nat /\ <<y, x>> \in Nat \X Nat
    OBVIOUS
  <2>2. ~(y < x)
    BY <1>2, <2>1 DEF OpToRel
  <2> QED BY <2>1, <2>2
<1> QED BY <1>3 DEF Min

\* A bounded set of numbers has a greatest element, which Max chooses.
LEMMA MaxIsLast ==
  ASSUME NEW n \in Nat, NEW S, S \subseteq 0..n, S # {}
  PROVE  Max(S) \in S /\ \A y \in S : Max(S) >= y
<1> DEFINE T == {n - y : y \in S}
<1>1. T \subseteq Nat /\ T # {}
  OBVIOUS
<1>2. Min(T) \in T /\ \A z \in T : Min(T) <= z
  BY <1>1, MinIsFirst
<1>3. PICK x \in S : Min(T) = n - x
  BY <1>2
<1>4. ASSUME NEW y \in S PROVE x >= y
  <2>1. n - y \in T /\ x \in Nat /\ y \in Nat
    OBVIOUS
  <2>2. n - x <= n - y
    BY <1>2, <1>3, <2>1
  <2> HIDE DEF T
  <2> QED BY <2>1, <2>2
<1> QED BY <1>4 DEF Max

\* The member of a set of numbers that exceeds no other is its minimum.
LEMMA MinIs ==
  ASSUME NEW S, S \subseteq Nat, NEW x \in S, \A y \in S : x <= y
  PROVE  Min(S) = x
<1>1. Min(S) \in S /\ Min(S) <= x
  BY MinIsFirst
<1>2. x <= Min(S) /\ x \in Nat /\ Min(S) \in Nat
  BY <1>1
<1> QED BY <1>1, <1>2

\* The member of a set of numbers that no other exceeds is its maximum.
LEMMA MaxIs ==
  ASSUME NEW S, S \subseteq Nat, NEW x \in S, \A y \in S : x >= y
  PROVE  Max(S) = x
<1>1. x \in Nat /\ S \subseteq 0..x
  OBVIOUS
<1>2. Max(S) \in S /\ Max(S) >= x
  BY <1>1, MaxIsLast
<1>3. x >= Max(S) /\ Max(S) \in Nat
  BY <1>2
<1> QED BY <1>1, <1>2, <1>3
-----------------------------------------------------------------------------
(* The inductive invariant, of the entries es and the frames fr. *)

\* Frames with a scope, those on block_stack, and lvalues that are put by
Scopes == {"block", "loop", "function"}
Blocks == {"header", "loop", "function"}
PutAsides == {"assignment", "call"}
Value == [name : STRING, at : Nat, only : BOOLEAN] \union {NULL}
FrameType == [kind : Scopes \union Blocks \union PutAsides, first : Nat, put : BOOLEAN,
              value : Value]

\* The frames of K among the first n, and the anonymous functions among them
Count(fr, K, n) == Cardinality({i \in 1..n : fr[i].kind \in K})
Nameless(fr, i) == fr[i].kind = "function" /\ IsAnonymous(fr[i])
CountNameless(fr, n) == Cardinality({i \in 1..n : Nameless(fr, i)})

\* The scope frame i begins, and the one that is being read
Depth(fr, i) == Count(fr, Scopes, i)
Here(fr) == Depth(fr, Len(fr))

\* Blocks and loops are statements.
Nested(es, fr) ==
  /\ fr \in Seq(FrameType)
  /\ \A i \in 1..Len(fr) : fr[i].first <= Len(es)
  /\ \A i \in 2..Len(fr) :
       fr[i].kind \in {"block", "header", "loop"} => fr[i - 1].kind \in Scopes

\* The stack has an element for every loop and function that is being read.
Mark(kind) == IF kind = "function" THEN "FUNC_BLOCK" ELSE "LOOP"
Marks == {"LOOP", "FUNC_BLOCK"}
Tracks(bs, fr) ==
  /\ bs \in Seq(Marks) /\ Len(bs) = Count(fr, Blocks, Len(fr))
  /\ \A i \in 1..Len(fr) : fr[i].kind \in Blocks => bs[Count(fr, Blocks, i)] = Mark(fr[i].kind)
  /\ \A c \in 1..Len(bs) :
       \E i \in 1..Len(fr) : fr[i].kind \in Blocks /\ Count(fr, Blocks, i) = c

\* An anonymous function has its number among those around it.
Numbered(fr, n) ==
  /\ n = CountNameless(fr, Len(fr))
  /\ \A i \in 1..Len(fr) : Nameless(fr, i) =>
       /\ fr[i].put
       /\ fr[i].value.name = AnonymousName(CountNameless(fr, i - 1))

\* Active entries are in the scopes being read, younger ones further in; what is
\* in the scope of a frame or further in is what has been put since it began.  A
\* name is bound once in a scope.
Scoped(es, fr) ==
  /\ es \in Seq(Entry)
  /\ \A k \in DOMAIN es : es[k].isActive => es[k].scope <= Here(fr)
  /\ \A j, k \in DOMAIN es :
       j < k /\ es[j].isActive /\ es[k].isActive => es[j].scope <= es[k].scope
  /\ \A j, k \in DOMAIN es :
       /\ es[j].isActive /\ es[k].isActive /\ es[j].scope = es[k].scope
       /\ es[j].name = es[k].name /\ es[j].name \in Name
       => j = k
  /\ \A i \in 1..Len(fr) : fr[i].kind \in Scopes =>
       \A k \in DOMAIN es : es[k].isActive =>
         (k > fr[i].first <=> es[k].scope >= Depth(fr, i))

\* The function of frame i has an entry outside of its body.
HasEntry(es, fr, i) ==
  /\ fr[i].first \in DOMAIN es
  /\ es[fr[i].first].name = fr[i].value.name /\ es[fr[i].first].type = "USERFUNC"
  /\ es[fr[i].first].scope = Depth(fr, i) - 1
  /\ es[fr[i].first].isActive /\ es[fr[i].first].func_is_open

\* It was refused: its name was bound there, or to a library function.
WasTaken(es, fr, i) ==
  \E k \in 1..fr[i].first :
    /\ es[k].isActive /\ es[k].name = fr[i].value.name
    /\ \/ es[k].scope = Depth(fr, i) - 1
       \/ /\ es[k].type = "LIBFUNC"
          /\ \A j \in (k + 1)..fr[i].first :
               ~(es[j].isActive /\ es[j].name = fr[i].value.name)

Opened(es, fr) ==
  /\ \A i \in 1..Len(fr) : fr[i].kind = "function" =>
       IF fr[i].put THEN HasEntry(es, fr, i) ELSE WasTaken(es, fr, i)
  /\ \A k \in DOMAIN es : es[k].func_is_open =>
       \E i \in 1..Len(fr) : fr[i].kind = "function" /\ fr[i].put /\ fr[i].first = k

\* The library is where it was put, and there is no other.
Libraries(es) ==
  /\ \A i \in 1..Len(Lib) :
       /\ i \in DOMAIN es /\ es[i].name = Lib[i] /\ es[i].type = "LIBFUNC"
       /\ es[i].scope = 0 /\ es[i].isActive
  /\ \A k \in DOMAIN es : es[k].type = "LIBFUNC" => k <= Len(Lib)

\* An lvalue read in scope s is still what it was.
Kept(v, es, s) ==
  \/ v = NULL
  \/ /\ v.name \in Name /\ v.only \in BOOLEAN /\ v.at \in Nat
     /\ v.at = 0 => ~v.only
     /\ v.at # 0 => /\ v.at \in DOMAIN es /\ es[v.at].isActive /\ es[v.at].name = v.name
                    /\ es[v.at].scope = IF v.only THEN 0 ELSE s

PutsAside(es, fr) ==
  \A i \in 1..Len(fr) : fr[i].kind \in PutAsides => Kept(fr[i].value, es, Depth(fr, i))

\* As long as the program is accepted, every function has an entry, and names of
\* the library are nothing else.
Lawful(es, fr) ==
  /\ \A i \in 1..Len(fr) : fr[i].kind = "function" => fr[i].put
  /\ \A k \in DOMAIN es :
       es[k].isActive /\ es[k].name \in ToSet(Lib) => es[k].type = "LIBFUNC"

Flags == /\ global_only \in BOOLEAN /\ freed \in BOOLEAN /\ ERROR_FLAG \in BOOLEAN
         /\ broken \in BOOLEAN /\ confused \in BOOLEAN

Inv ==
  /\ Flags
  /\ Nested(entries, frames) /\ Tracks(block_stack, frames)
  /\ Numbered(frames, nameless_func_count)
  /\ current_scope = Here(frames)
  /\ Scoped(entries, frames) /\ Opened(entries, frames) /\ Libraries(entries)
  /\ PutsAside(entries, frames)
  /\ ~confused /\ ~(ERROR_FLAG /\ broken) => Lawful(entries, frames)
  /\ VerdictRight

-----------------------------------------------------------------------------
(* Frames and how many there are of a kind. *)

\* Entries and frames are sequences.
LEMMA Sequences ==
  ASSUME NEW T, NEW s \in Seq(T)
  PROVE  Len(s) \in Nat /\ DOMAIN s = 1..Len(s) /\ \A k \in 1..Len(s) : s[k] \in T
BY ElementOfSeq, LenProperties

\* What the fields of an entry are.
LEMMA Fields ==
  ASSUME NEW es \in Seq(Entry), NEW k \in 1..Len(es)
  PROVE  /\ es[k].name \in STRING /\ es[k].scope \in Nat
         /\ es[k].isActive \in BOOLEAN /\ es[k].func_is_open \in BOOLEAN
<1>1. es[k] \in Entry
  BY ElementOfSeq
<1> QED BY <1>1 DEF Entry

\* The frames counted are finitely many, and one more if the next is of K.
LEMMA CountStep ==
  ASSUME NEW fr, NEW K, NEW n \in Nat
  PROVE  /\ Count(fr, K, n) \in Nat /\ Count(fr, K, 0) = 0
         /\ Count(fr, K, n + 1) = Count(fr, K, n) + IF fr[n + 1].kind \in K THEN 1 ELSE 0
<1> DEFINE P == {i \in 1..n : fr[i].kind \in K}
           Q == {i \in 1..(n + 1) : fr[i].kind \in K}
<1>1. IsFiniteSet(P) /\ Cardinality(P) \in Nat
  <2>1. IsFiniteSet(1..n)
    BY FS_Interval
  <2> QED BY <2>1, FS_Subset, FS_CardinalityType
<1>2. Count(fr, K, n) = Cardinality(P) /\ Count(fr, K, n + 1) = Cardinality(Q)
  BY DEF Count
<1>3. Count(fr, K, 0) = 0
  <2>1. {i \in 1..0 : fr[i].kind \in K} = {}
    OBVIOUS
  <2> QED BY <2>1, FS_EmptySet DEF Count
<1>4. ASSUME fr[n + 1].kind \in K PROVE Cardinality(Q) = Cardinality(P) + 1
  <2>1. Q = P \union {n + 1} /\ n + 1 \notin P
    BY <1>4
  <2> HIDE DEF P, Q
  <2> QED BY <1>1, <2>1, FS_AddElement
<1>5. ASSUME fr[n + 1].kind \notin K PROVE Cardinality(Q) = Cardinality(P)
  <2>1. Q = P
    BY <1>5
  <2> QED BY <2>1
<1> HIDE DEF P, Q
<1> QED BY <1>1, <1>2, <1>3, <1>4, <1>5

\* The same for anonymous functions.
LEMMA NamelessStep ==
  ASSUME NEW fr, NEW n \in Nat
  PROVE  /\ CountNameless(fr, n) \in Nat /\ CountNameless(fr, 0) = 0
         /\ CountNameless(fr, n + 1)
              = CountNameless(fr, n) + IF Nameless(fr, n + 1) THEN 1 ELSE 0
<1> DEFINE P == {i \in 1..n : Nameless(fr, i)}
           Q == {i \in 1..(n + 1) : Nameless(fr, i)}
<1>1. IsFiniteSet(P) /\ Cardinality(P) \in Nat
  <2>1. IsFiniteSet(1..n)
    BY FS_Interval
  <2> QED BY <2>1, FS_Subset, FS_CardinalityType
<1>2. CountNameless(fr, n) = Cardinality(P) /\ CountNameless(fr, n + 1) = Cardinality(Q)
  BY DEF CountNameless
<1>3. CountNameless(fr, 0) = 0
  <2>1. {i \in 1..0 : Nameless(fr, i)} = {}
    OBVIOUS
  <2> QED BY <2>1, FS_EmptySet DEF CountNameless
<1>4. ASSUME Nameless(fr, n + 1) PROVE Cardinality(Q) = Cardinality(P) + 1
  <2>1. Q = P \union {n + 1} /\ n + 1 \notin P
    BY <1>4
  <2> HIDE DEF P, Q
  <2> QED BY <1>1, <2>1, FS_AddElement
<1>5. ASSUME ~Nameless(fr, n + 1) PROVE Cardinality(Q) = Cardinality(P)
  <2>1. Q = P
    BY <1>5
  <2> QED BY <2>1
<1> HIDE DEF P, Q
<1> QED BY <1>1, <1>2, <1>3, <1>4, <1>5

\* Counting further counts no less.
LEMMA CountMore ==
  ASSUME NEW fr, NEW K, NEW n \in Nat, NEW m \in 0..n
  PROVE  Count(fr, K, m) <= Count(fr, K, n)
<1> DEFINE P == {i \in 1..m : fr[i].kind \in K}
           Q == {i \in 1..n : fr[i].kind \in K}
<1>1. IsFiniteSet(Q)
  <2>1. IsFiniteSet(1..n)
    BY FS_Interval
  <2> QED BY <2>1, FS_Subset
<1>2. P \subseteq Q
  OBVIOUS
<1> QED BY <1>1, <1>2, FS_Subset DEF Count

\* A frame of K is counted, and those before it are fewer.
LEMMA CountedHere ==
  ASSUME NEW fr, NEW K, NEW n \in Nat, NEW i \in 1..n, fr[i].kind \in K
  PROVE  /\ Count(fr, K, i) \in 1..Count(fr, K, n)
         /\ \A m \in 0..(i - 1) : Count(fr, K, m) < Count(fr, K, i)
<1>1. i - 1 \in Nat /\ (i - 1) + 1 = i /\ i \in 0..n
  OBVIOUS
<1>2. /\ Count(fr, K, i - 1) \in Nat /\ Count(fr, K, n) \in Nat
      /\ Count(fr, K, (i - 1) + 1) = Count(fr, K, i - 1)
           + IF fr[(i - 1) + 1].kind \in K THEN 1 ELSE 0
  BY <1>1, CountStep
<1>3. Count(fr, K, i) = Count(fr, K, i - 1) + 1
  BY <1>1, <1>2
<1>4. Count(fr, K, i) <= Count(fr, K, n)
  BY <1>1, CountMore
<1>5. ASSUME NEW m \in 0..(i - 1) PROVE Count(fr, K, m) < Count(fr, K, i)
  <2>1. Count(fr, K, m) <= Count(fr, K, i - 1) /\ m \in Nat
    BY <1>1, CountMore
  <2>2. Count(fr, K, m) \in Nat
    BY <2>1, CountStep
  <2> QED BY <1>2, <1>3, <2>1, <2>2
<1> QED BY <1>2, <1>3, <1>4, <1>5

\* gr are the frames fr and one more.
Extended(fr, gr) ==
  /\ fr \in Seq(FrameType) /\ gr \in Seq(FrameType) /\ Len(gr) = Len(fr) + 1
  /\ \A i \in 1..Len(fr) : gr[i] = fr[i]

\* The frame that is more counts as one, the others as they did.
LEMMA ExtendedCounts ==
  ASSUME NEW fr, NEW gr, Extended(fr, gr), NEW K
  PROVE  /\ \A i \in 0..Len(fr) : Count(gr, K, i) = Count(fr, K, i) /\ Count(fr, K, i) \in Nat
         /\ Count(gr, K, Len(gr))
              = Count(fr, K, Len(fr)) + IF gr[Len(gr)].kind \in K THEN 1 ELSE 0
<1>1. Len(fr) \in Nat /\ Len(gr) = Len(fr) + 1 /\ \A i \in 1..Len(fr) : gr[i] = fr[i]
  BY Sequences DEF Extended
<1>2. ASSUME NEW i \in 0..Len(fr)
      PROVE  Count(gr, K, i) = Count(fr, K, i) /\ Count(fr, K, i) \in Nat
  <2>1. {j \in 1..i : gr[j].kind \in K} = {j \in 1..i : fr[j].kind \in K}
    BY <1>1
  <2>2. Count(gr, K, i) = Count(fr, K, i)
    BY <2>1 DEF Count
  <2> QED BY <1>1, <2>2, CountStep
<1>3. Count(gr, K, Len(fr) + 1)
        = Count(gr, K, Len(fr)) + IF gr[Len(fr) + 1].kind \in K THEN 1 ELSE 0
  <2>1. \A n \in Nat :
          Count(gr, K, n + 1) = Count(gr, K, n) + IF gr[n + 1].kind \in K THEN 1 ELSE 0
    BY CountStep
  <2> QED BY <1>1, <2>1
<1>4. Count(gr, K, Len(fr)) = Count(fr, K, Len(fr))
  BY <1>1, <1>2
<1> QED BY <1>1, <1>2, <1>3, <1>4

\* So for anonymous functions.
LEMMA ExtendedNameless ==
  ASSUME NEW fr, NEW gr, Extended(fr, gr)
  PROVE  /\ \A i \in 0..Len(fr) :
              CountNameless(gr, i) = CountNameless(fr, i) /\ CountNameless(fr, i) \in Nat
         /\ \A i \in 1..Len(fr) : Nameless(gr, i) <=> Nameless(fr, i)
         /\ CountNameless(gr, Len(gr))
              = CountNameless(fr, Len(fr)) + IF Nameless(gr, Len(gr)) THEN 1 ELSE 0
<1>1. Len(fr) \in Nat /\ Len(gr) = Len(fr) + 1 /\ \A i \in 1..Len(fr) : gr[i] = fr[i]
  BY Sequences DEF Extended
<1>2. \A i \in 1..Len(fr) : Nameless(gr, i) <=> Nameless(fr, i)
  BY <1>1 DEF Nameless
<1>3. ASSUME NEW i \in 0..Len(fr)
      PROVE  CountNameless(gr, i) = CountNameless(fr, i) /\ CountNameless(fr, i) \in Nat
  <2>1. {j \in 1..i : Nameless(gr, j)} = {j \in 1..i : Nameless(fr, j)}
    BY <1>1, <1>2
  <2>2. CountNameless(gr, i) = CountNameless(fr, i)
    BY <2>1 DEF CountNameless
  <2> QED BY <1>1, <2>2, NamelessStep
<1>4. CountNameless(gr, Len(fr) + 1)
        = CountNameless(gr, Len(fr)) + IF Nameless(gr, Len(fr) + 1) THEN 1 ELSE 0
  BY <1>1, NamelessStep
<1>5. CountNameless(gr, Len(fr)) = CountNameless(fr, Len(fr))
  BY <1>1, <1>3
<1> QED BY <1>1, <1>2, <1>3, <1>4, <1>5

\* A frame is pushed.
LEMMA PushedIs ==
  ASSUME NEW fr \in Seq(FrameType), NEW f \in FrameType
  PROVE  /\ Extended(fr, Append(fr, f))
         /\ Append(fr, f)[Len(fr) + 1] = f /\ Len(Append(fr, f)) = Len(fr) + 1
BY AppendProperties DEF Extended

\* A frame is popped.
LEMMA PoppedIs ==
  ASSUME NEW T, NEW s \in Seq(T), s # <<>>
  PROVE  /\ Front(s) \in Seq(T) /\ Len(s) = Len(Front(s)) + 1
         /\ \A i \in 1..Len(Front(s)) : s[i] = Front(s)[i]
         /\ Last(s) = s[Len(s)] /\ Last(s) \in T /\ Len(s) >= 1
<1>1. Len(s) \in Nat /\ Len(s) \in 1..Len(s) /\ Len(s) - 1 \in 0..Len(s)
  BY LenProperties, EmptySeq
<1>2. /\ SubSeq(s, 1, Len(s) - 1) \in Seq(T)
      /\ Len(SubSeq(s, 1, Len(s) - 1)) = Len(s) - 1
      /\ \A i \in 1..(Len(s) - 1) : SubSeq(s, 1, Len(s) - 1)[i] = s[i]
  <2> DEFINE m == Len(s) - 1
  <2>1. m \in Nat /\ m + 1 = Len(s) /\ \A i \in 1..m : i \in 1..Len(s)
    BY <1>1
  <2> HIDE DEF m
  <2>2. /\ SubSeq(s, 1, m) \in Seq(T) /\ Len(SubSeq(s, 1, m)) = m
        /\ \A i \in 1..m : SubSeq(s, 1, m)[i] = s[i]
    BY <2>1
  <2> QED BY <2>2 DEF m
<1>3. s[Len(s)] \in T
  BY <1>1, ElementOfSeq
<1> QED BY <1>1, <1>2, <1>3 DEF Front, Last

\* The scopes of frames, when one is added or taken away.
LEMMA Depths ==
  ASSUME NEW fr, NEW gr, Extended(fr, gr)
  PROVE  /\ \A i \in 1..Len(fr) : Depth(gr, i) = Depth(fr, i) /\ Depth(fr, i) \in 0..Here(fr)
         /\ \A i \in 1..Len(fr) : fr[i].kind \in Scopes => Depth(fr, i) >= 1
         /\ Here(fr) \in Nat /\ Depth(gr, Len(gr)) = Here(gr)
         /\ Here(gr) = Here(fr) + IF gr[Len(gr)].kind \in Scopes THEN 1 ELSE 0
<1>1. Len(fr) \in Nat
  BY Sequences DEF Extended
<1>2. /\ \A i \in 0..Len(fr) : Count(gr, Scopes, i) = Count(fr, Scopes, i)
                               /\ Count(fr, Scopes, i) \in Nat
      /\ Count(gr, Scopes, Len(gr))
           = Count(fr, Scopes, Len(fr)) + IF gr[Len(gr)].kind \in Scopes THEN 1 ELSE 0
  BY ExtendedCounts
<1>3. ASSUME NEW i \in 1..Len(fr)
      PROVE  /\ Count(fr, Scopes, i) <= Count(fr, Scopes, Len(fr))
             /\ fr[i].kind \in Scopes => Count(fr, Scopes, i) >= 1
  <2>1. i \in 0..Len(fr)
    BY <1>1
  <2>2. Count(fr, Scopes, i) <= Count(fr, Scopes, Len(fr))
    BY <1>1, <2>1, CountMore
  <2>3. fr[i].kind \in Scopes => Count(fr, Scopes, i) \in 1..Count(fr, Scopes, Len(fr))
    BY <1>1, CountedHere
  <2> QED BY <2>2, <2>3
<1>4. Len(fr) \in 0..Len(fr) /\ \A i \in 1..Len(fr) : i \in 0..Len(fr)
  BY <1>1
<1> QED BY <1>2, <1>3, <1>4 DEF Depth, Here

\* The same, of frames as they are.
LEMMA Around ==
  ASSUME NEW fr \in Seq(FrameType)
  PROVE  /\ Len(fr) \in Nat /\ Here(fr) \in Nat
         /\ \A i \in 1..Len(fr) : Depth(fr, i) \in 0..Here(fr)
         /\ \A i \in 1..Len(fr) : fr[i].kind \in Scopes => Depth(fr, i) >= 1
         /\ \A j \in 1..Len(fr) : fr[j].kind \in Scopes =>
              \A i \in 1..(j - 1) : Depth(fr, i) < Depth(fr, j)
<1>1. Len(fr) \in Nat
  BY Sequences
<1>2. Here(fr) \in Nat
  BY <1>1, CountStep DEF Here, Depth
<1>3. ASSUME NEW i \in 1..Len(fr)
      PROVE  /\ Depth(fr, i) \in 0..Here(fr)
             /\ fr[i].kind \in Scopes => /\ Depth(fr, i) >= 1
                                         /\ \A j \in 1..(i - 1) : Depth(fr, j) < Depth(fr, i)
  <2>1. i \in Nat /\ i \in 0..Len(fr) /\ \A j \in 1..(i - 1) : j \in 0..(i - 1)
    BY <1>1
  <2>2. Count(fr, Scopes, i) <= Count(fr, Scopes, Len(fr)) /\ Count(fr, Scopes, i) \in Nat
    <3>1. Count(fr, Scopes, i) <= Count(fr, Scopes, Len(fr))
      BY <1>1, <2>1, CountMore
    <3>2. Count(fr, Scopes, i) \in Nat
      BY <2>1, CountStep
    <3> QED BY <3>1, <3>2
  <2>3. fr[i].kind \in Scopes =>
          /\ Count(fr, Scopes, i) \in 1..Count(fr, Scopes, Len(fr))
          /\ \A m \in 0..(i - 1) : Count(fr, Scopes, m) < Count(fr, Scopes, i)
    BY <1>1, CountedHere
  <2> QED BY <1>2, <2>1, <2>2, <2>3 DEF Depth, Here
<1> QED BY <1>1, <1>2, <1>3

-----------------------------------------------------------------------------
(* The entries, as frames and entries change. *)

\* ns are the entries es and others, put in scope s, where their names are free.
Puts(es, ns, s) ==
  /\ ns \in Seq(Entry) /\ Len(ns) >= Len(es)
  /\ \A k \in 1..Len(es) : ns[k] = es[k]
  /\ \A k \in (Len(es) + 1)..Len(ns) :
       /\ ns[k].scope = s
       /\ \A j \in 1..Len(ns) :
            ns[j].isActive /\ ns[j].scope = s /\ ns[j].name = ns[k].name
              /\ ns[j].name \in Name => j = k

\* None of them is a function.
Variables(es, ns) ==
  \A k \in (Len(es) + 1)..Len(ns) : ~ns[k].func_is_open /\ ns[k].type # "LIBFUNC"

\* ns are the entries es when scope s is left, and the function of entry g closed.
Leaves(es, ns, s, g) ==
  /\ ns \in Seq(Entry) /\ Len(ns) = Len(es)
  /\ \A k \in 1..Len(es) :
       /\ ns[k].name = es[k].name /\ ns[k].type = es[k].type /\ ns[k].scope = es[k].scope
       /\ ns[k].isActive <=> es[k].isActive /\ es[k].scope # s
       /\ ns[k].func_is_open <=> es[k].func_is_open /\ k # g

\* What is put is younger than the rest and further in.
LEMMA ScopedPut ==
  ASSUME NEW es, NEW fr \in Seq(FrameType), Scoped(es, fr), NEW ns, Puts(es, ns, Here(fr)),
         \A i \in 1..Len(fr) : fr[i].first <= Len(es)
  PROVE  Scoped(ns, fr)
<1> DEFINE n == Len(es)
           s == Here(fr)
<1>1. /\ es \in Seq(Entry) /\ ns \in Seq(Entry) /\ n \in Nat /\ Len(ns) \in Nat /\ Len(ns) >= n
      /\ DOMAIN es = 1..n /\ DOMAIN ns = 1..Len(ns) /\ s \in Nat /\ Len(fr) \in Nat
  BY Sequences, Around DEF Scoped, Puts
<1>2. /\ \A k \in 1..n : ns[k] = es[k]
      /\ \A k \in (n + 1)..Len(ns) :
           /\ ns[k].scope = s
           /\ \A j \in 1..Len(ns) :
                ns[j].isActive /\ ns[j].scope = s /\ ns[j].name = ns[k].name
                  /\ ns[j].name \in Name => j = k
  BY DEF Puts
<1>3. /\ \A k \in 1..n : es[k].isActive => es[k].scope <= s
      /\ \A j, k \in 1..n : j < k /\ es[j].isActive /\ es[k].isActive => es[j].scope <= es[k].scope
      /\ \A j, k \in 1..n :
           /\ es[j].isActive /\ es[k].isActive /\ es[j].scope = es[k].scope
           /\ es[j].name = es[k].name /\ es[j].name \in Name
           => j = k
      /\ \A i \in 1..Len(fr) : fr[i].kind \in Scopes =>
           \A k \in 1..n : es[k].isActive => (k > fr[i].first <=> es[k].scope >= Depth(fr, i))
  BY <1>1 DEF Scoped
<1> HIDE DEF s, n
<1>4. \A k \in 1..Len(ns) : k \in 1..n \/ k \in (n + 1)..Len(ns)
  BY <1>1
<1>5. ASSUME NEW k \in 1..Len(ns), ns[k].isActive PROVE ns[k].scope <= s
  BY <1>1, <1>2, <1>3, <1>4, <1>5
<1>6. ASSUME NEW j \in 1..Len(ns), NEW k \in 1..Len(ns), j < k, ns[j].isActive, ns[k].isActive
      PROVE  ns[j].scope <= ns[k].scope
  <2>1. CASE k \in 1..n
    <3>1. j \in 1..n
      BY <1>1, <1>6, <2>1
    <3> QED BY <1>2, <1>3, <1>6, <2>1, <3>1
  <2>2. CASE k \in (n + 1)..Len(ns)
    <3>1. ns[k].scope = s
      BY <1>2, <2>2
    <3> QED BY <1>5, <1>6, <3>1
  <2> QED BY <1>4, <2>1, <2>2
<1>7. ASSUME NEW j \in 1..Len(ns), NEW k \in 1..Len(ns), ns[j].isActive, ns[k].isActive,
             ns[j].scope = ns[k].scope, ns[j].name = ns[k].name, ns[j].name \in Name
      PROVE  j = k
  <2>1. CASE k \in (n + 1)..Len(ns)
    BY <1>2, <1>7, <2>1
  <2>2. CASE j \in (n + 1)..Len(ns)
    BY <1>2, <1>7, <2>2
  <2>3. CASE j \in 1..n /\ k \in 1..n
    BY <1>2, <1>3, <1>7, <2>3
  <2> QED BY <1>4, <2>1, <2>2, <2>3
<1>8. ASSUME NEW i \in 1..Len(fr), fr[i].kind \in Scopes, NEW k \in 1..Len(ns), ns[k].isActive
      PROVE  k > fr[i].first <=> ns[k].scope >= Depth(fr, i)
  <2>1. CASE k \in 1..n
    BY <1>2, <1>3, <1>8, <2>1
  <2>2. CASE k \in (n + 1)..Len(ns)
    <3>1. fr[i].first <= n /\ fr[i].first \in Nat
      <4>1. fr[i] \in FrameType
        BY Sequences
      <4> QED BY <4>1 DEF FrameType, n
    <3>2. ns[k].scope = s /\ Depth(fr, i) \in 0..s
      BY <1>2, <2>2, Around DEF s
    <3>3. k > n /\ k \in Nat
      BY <1>1, <2>2
    <3> QED BY <1>1, <3>1, <3>2, <3>3
  <2> QED BY <1>4, <2>1, <2>2
<1> QED BY <1>1, <1>5, <1>6, <1>7, <1>8 DEF Scoped, s

\* A new frame begins where all entries are outside of it.
LEMMA ScopedPush ==
  ASSUME NEW es, NEW fr, NEW gr, Extended(fr, gr), Scoped(es, fr),
         gr[Len(gr)].kind \in Scopes => gr[Len(gr)].first = Len(es)
  PROVE  Scoped(es, gr)
<1> DEFINE n == Len(es)
           m == Len(gr)
<1>1. /\ es \in Seq(Entry) /\ n \in Nat /\ DOMAIN es = 1..n
      /\ m = Len(fr) + 1 /\ Len(fr) \in Nat /\ \A i \in 1..Len(fr) : gr[i] = fr[i]
  BY Sequences DEF Scoped, Extended
<1>2. /\ \A i \in 1..Len(fr) : Depth(gr, i) = Depth(fr, i)
      /\ Here(fr) \in Nat /\ Depth(gr, m) = Here(gr)
      /\ Here(gr) = Here(fr) + IF gr[m].kind \in Scopes THEN 1 ELSE 0
  BY Depths
<1>3. /\ \A k \in 1..n : es[k].isActive => es[k].scope <= Here(fr)
      /\ \A k \in 1..n : es[k].scope \in Nat
  BY <1>1, Fields DEF Scoped
<1> HIDE DEF m, n
<1>4. ASSUME NEW k \in 1..n, es[k].isActive PROVE es[k].scope <= Here(gr)
  BY <1>2, <1>3, <1>4
<1>5. ASSUME NEW i \in 1..m, gr[i].kind \in Scopes, NEW k \in 1..n, es[k].isActive
      PROVE  k > gr[i].first <=> es[k].scope >= Depth(gr, i)
  <2>1. CASE i \in 1..Len(fr)
    BY <1>1, <1>2, <1>5, <2>1 DEF Scoped
  <2>2. CASE i = m
    <3>1. gr[i].first = n /\ Depth(gr, i) = Here(fr) + 1
      BY <1>2, <1>5, <2>2 DEF m, n
    <3>2. es[k].scope <= Here(fr) /\ es[k].scope \in Nat /\ k <= n /\ k \in Nat
      BY <1>1, <1>3, <1>5
    <3> QED BY <1>1, <1>2, <3>1, <3>2
  <2> QED BY <1>1, <2>1, <2>2
<1>6. /\ \A j, k \in DOMAIN es :
           j < k /\ es[j].isActive /\ es[k].isActive => es[j].scope <= es[k].scope
      /\ \A j, k \in DOMAIN es :
           /\ es[j].isActive /\ es[k].isActive /\ es[j].scope = es[k].scope
           /\ es[j].name = es[k].name /\ es[j].name \in Name
           => j = k
  BY DEF Scoped
<1> QED BY <1>1, <1>4, <1>5, <1>6 DEF Scoped, m

\* A frame without a scope ends.
LEMMA ScopedPop ==
  ASSUME NEW es, NEW fr, NEW gr, Extended(gr, fr), Scoped(es, fr),
         fr[Len(fr)].kind \notin Scopes
  PROVE  Scoped(es, gr)
<1>1. /\ Len(fr) = Len(gr) + 1 /\ Len(gr) \in Nat /\ \A i \in 1..Len(gr) : fr[i] = gr[i]
      /\ \A i \in 1..Len(gr) : i \in 1..Len(fr)
  BY Sequences DEF Extended
<1>2. /\ \A i \in 1..Len(gr) : Depth(fr, i) = Depth(gr, i)
      /\ Here(gr) \in Nat
      /\ Here(fr) = Here(gr)
  BY Depths
<1>3. ASSUME NEW i \in 1..Len(gr), gr[i].kind \in Scopes, NEW k \in DOMAIN es, es[k].isActive
      PROVE  k > gr[i].first <=> es[k].scope >= Depth(gr, i)
  <2>1. i \in 1..Len(fr) /\ fr[i] = gr[i] /\ Depth(fr, i) = Depth(gr, i)
    BY <1>1, <1>2
  <2> QED BY <1>3, <2>1 DEF Scoped
<1> QED BY <1>2, <1>3 DEF Scoped

\* A frame ends, and what was in its scope is hidden.
LEMMA ScopedLeave ==
  ASSUME NEW es, NEW fr, NEW gr, Extended(gr, fr), Scoped(es, fr),
         fr[Len(fr)].kind \in Scopes, NEW ns, NEW g, Leaves(es, ns, Here(fr), g)
  PROVE  Scoped(ns, gr)
<1> DEFINE n == Len(es)
           s == Here(fr)
<1>1. /\ Len(fr) = Len(gr) + 1 /\ Len(gr) \in Nat /\ \A i \in 1..Len(gr) : fr[i] = gr[i]
      /\ \A i \in 1..Len(gr) : i \in 1..Len(fr)
  BY Sequences DEF Extended
<1>2. /\ \A i \in 1..Len(gr) : Depth(fr, i) = Depth(gr, i)
      /\ Here(gr) \in Nat
      /\ s = Here(gr) + 1
  BY Depths
<1>3. /\ DOMAIN es = 1..n /\ DOMAIN ns = 1..n /\ ns \in Seq(Entry) /\ n \in Nat
      /\ \A k \in 1..n : es[k].scope \in Nat
  BY Sequences, Fields DEF Scoped, Leaves
<1>4. \A k \in 1..n :
       /\ ns[k].name = es[k].name /\ ns[k].scope = es[k].scope
       /\ ns[k].isActive <=> es[k].isActive /\ es[k].scope # s
  BY DEF Leaves
<1>5. /\ \A k \in 1..n : es[k].isActive => es[k].scope <= s
      /\ \A j, k \in 1..n : j < k /\ es[j].isActive /\ es[k].isActive => es[j].scope <= es[k].scope
      /\ \A j, k \in 1..n :
           /\ es[j].isActive /\ es[k].isActive /\ es[j].scope = es[k].scope
           /\ es[j].name = es[k].name /\ es[j].name \in Name
           => j = k
      /\ \A i \in 1..Len(fr) : fr[i].kind \in Scopes =>
           \A k \in 1..n : es[k].isActive => (k > fr[i].first <=> es[k].scope >= Depth(fr, i))
  BY <1>3 DEF Scoped
<1> HIDE DEF s, n
<1>6. ASSUME NEW k \in 1..n, ns[k].isActive PROVE ns[k].scope <= Here(gr)
  BY <1>2, <1>3, <1>4, <1>5, <1>6
<1>7. /\ \A j, k \in 1..n : j < k /\ ns[j].isActive /\ ns[k].isActive => ns[j].scope <= ns[k].scope
      /\ \A j, k \in 1..n :
           /\ ns[j].isActive /\ ns[k].isActive /\ ns[j].scope = ns[k].scope
           /\ ns[j].name = ns[k].name /\ ns[j].name \in Name
           => j = k
  BY <1>4, <1>5
<1>8. ASSUME NEW i \in 1..Len(gr), gr[i].kind \in Scopes, NEW k \in 1..n, ns[k].isActive
      PROVE  k > gr[i].first <=> ns[k].scope >= Depth(gr, i)
  <2>1. i \in 1..Len(fr) /\ fr[i] = gr[i] /\ Depth(fr, i) = Depth(gr, i)
    BY <1>1, <1>2
  <2>2. es[k].isActive /\ ns[k].scope = es[k].scope
    BY <1>4, <1>8
  <2> QED BY <1>5, <1>8, <2>1, <2>2
<1> QED BY <1>3, <1>6, <1>7, <1>8 DEF Scoped

\* The parts of the invariant that relate entries and frames
Tabled(es, fr) ==
  Nested(es, fr) /\ Scoped(es, fr) /\ Opened(es, fr) /\ Libraries(es) /\ PutsAside(es, fr)

\* What has been put by keeps its meaning where its entry is kept.
LEMMA KeptStill ==
  ASSUME NEW v, NEW es, NEW ns, NEW s, NEW t, Kept(v, es, s), t = s \/ v = NULL,
         DOMAIN es \subseteq DOMAIN ns,
         \A k \in DOMAIN es : es[k].isActive /\ es[k].scope \in {0, s} =>
           ns[k].isActive /\ ns[k].name = es[k].name /\ ns[k].scope = es[k].scope
  PROVE  Kept(v, ns, t)
<1>1. CASE v = NULL
  BY <1>1 DEF Kept
<1>2. CASE v # NULL
  <2>1. /\ v.name \in Name /\ v.only \in BOOLEAN /\ v.at \in Nat /\ t = s
        /\ v.at = 0 => ~v.only
        /\ v.at # 0 => /\ v.at \in DOMAIN es /\ es[v.at].isActive /\ es[v.at].name = v.name
                       /\ es[v.at].scope = IF v.only THEN 0 ELSE s
    BY <1>2 DEF Kept
  <2>2. v.at # 0 => /\ v.at \in DOMAIN ns /\ ns[v.at].isActive /\ ns[v.at].name = v.name
                    /\ ns[v.at].scope = IF v.only THEN 0 ELSE s
    BY <2>1
  <2> QED BY <2>1, <2>2 DEF Kept
<1> QED BY <1>1, <1>2

\* Variables are put.
LEMMA TabledPut ==
  ASSUME NEW es, NEW fr, Tabled(es, fr), NEW ns, Puts(es, ns, Here(fr)), Variables(es, ns)
  PROVE  Tabled(ns, fr)
<1> DEFINE n == Len(es)
<1>1. /\ fr \in Seq(FrameType) /\ Len(fr) \in Nat
      /\ \A i \in 1..Len(fr) : fr[i].first <= n /\ fr[i].first \in Nat
  <2>1. fr \in Seq(FrameType) /\ \A i \in 1..Len(fr) : fr[i].first <= n
    BY DEF Tabled, Nested
  <2>2. Len(fr) \in Nat /\ \A i \in 1..Len(fr) : fr[i] \in FrameType
    BY <2>1, Sequences
  <2> QED BY <2>1, <2>2 DEF FrameType
<1>2. Scoped(ns, fr)
  BY <1>1, ScopedPut DEF Tabled
<1>3. /\ n \in Nat /\ Len(ns) \in Nat /\ DOMAIN es = 1..n /\ DOMAIN ns = 1..Len(ns)
      /\ Len(ns) >= n /\ \A k \in 1..n : ns[k] = es[k]
      /\ \A k \in (n + 1)..Len(ns) : ~ns[k].func_is_open /\ ns[k].type # "LIBFUNC"
  BY Sequences DEF Tabled, Scoped, Puts, Variables
<1> HIDE DEF n
<1>4. \A k \in 1..Len(ns) : k \in 1..n \/ k \in (n + 1)..Len(ns)
  BY <1>3
<1>5. Nested(ns, fr)
  BY <1>1, <1>3 DEF Nested, Tabled
<1>6. Opened(ns, fr)
  <2>1. ASSUME NEW i \in 1..Len(fr), fr[i].kind = "function"
        PROVE  IF fr[i].put THEN HasEntry(ns, fr, i) ELSE WasTaken(ns, fr, i)
    <3>1. IF fr[i].put THEN HasEntry(es, fr, i) ELSE WasTaken(es, fr, i)
      BY <2>1 DEF Tabled, Opened
    <3>2. ASSUME HasEntry(es, fr, i) PROVE HasEntry(ns, fr, i)
      BY <1>3, <3>2 DEF HasEntry
    <3>3. ASSUME WasTaken(es, fr, i) PROVE WasTaken(ns, fr, i)
      <4>1. \A k \in 1..fr[i].first : ns[k] = es[k]
        BY <1>1, <1>3
      <4>2. \A k \in 1..fr[i].first : \A j \in (k + 1)..fr[i].first : ns[j] = es[j]
        BY <1>1, <1>3
      <4> QED BY <3>3, <4>1, <4>2 DEF WasTaken
    <3> QED BY <3>1, <3>2, <3>3
  <2>2. ASSUME NEW k \in DOMAIN ns, ns[k].func_is_open
        PROVE  \E i \in 1..Len(fr) : fr[i].kind = "function" /\ fr[i].put /\ fr[i].first = k
    <3>1. k \in DOMAIN es /\ es[k].func_is_open
      BY <1>3, <1>4, <2>2
    <3> QED BY <3>1 DEF Tabled, Opened
  <2> QED BY <2>1, <2>2 DEF Opened
<1>7. Libraries(ns)
  BY <1>3, <1>4 DEF Tabled, Libraries
<1>8. PutsAside(ns, fr)
  <2>1. ASSUME NEW i \in 1..Len(fr), fr[i].kind \in PutAsides
        PROVE  Kept(fr[i].value, ns, Depth(fr, i))
    <3>1. Kept(fr[i].value, es, Depth(fr, i))
      BY <2>1 DEF Tabled, PutsAside
    <3>2. DOMAIN es \subseteq DOMAIN ns /\ \A k \in DOMAIN es : ns[k] = es[k]
      BY <1>3
    <3> QED BY <3>1, <3>2, KeptStill
  <2> QED BY <2>1 DEF PutsAside
<1> QED BY <1>2, <1>5, <1>6, <1>7, <1>8 DEF Tabled

\* A construct begins that gives no function an entry.
LEMMA TabledPush ==
  ASSUME NEW es, NEW fr, Tabled(es, fr), NEW gr, Extended(fr, gr),
         NEW f, f = gr[Len(gr)], f.first = Len(es),
         f.kind \in {"block", "header", "loop"} => fr = <<>> \/ fr[Len(fr)].kind \in Scopes,
         f.kind = "function" => ~f.put /\ WasTaken(es, gr, Len(gr)),
         f.kind \in PutAsides => Kept(f.value, es, Here(fr))
  PROVE  Tabled(es, gr)
<1> DEFINE m == Len(gr)
<1>1. /\ m = Len(fr) + 1 /\ Len(fr) \in Nat /\ \A i \in 1..Len(fr) : gr[i] = fr[i]
      /\ fr \in Seq(FrameType) /\ gr \in Seq(FrameType)
  BY Sequences DEF Extended
<1>2. /\ \A i \in 1..Len(fr) : Depth(gr, i) = Depth(fr, i)
      /\ Here(fr) \in Nat /\ Depth(gr, m) = Here(gr)
      /\ Here(gr) = Here(fr) + IF gr[m].kind \in Scopes THEN 1 ELSE 0
  BY Depths
<1>3. Scoped(es, gr)
  BY ScopedPush DEF Tabled
<1>4. Len(es) \in Nat /\ DOMAIN es = 1..Len(es)
  BY Sequences DEF Tabled, Scoped
<1> HIDE DEF m
<1>5. \A i \in 1..m : i \in 1..Len(fr) \/ i = m
  BY <1>1
<1>6. Nested(es, gr)
  <2>1. ASSUME NEW i \in 1..m PROVE gr[i].first <= Len(es)
    <3>1. CASE i \in 1..Len(fr)
      BY <1>1, <3>1 DEF Tabled, Nested
    <3>2. CASE i = m
      BY <1>4, <3>2 DEF m
    <3> QED BY <1>5, <3>1, <3>2
  <2>2. ASSUME NEW i \in 2..m, gr[i].kind \in {"block", "header", "loop"}
        PROVE  gr[i - 1].kind \in Scopes
    <3>1. CASE i \in 1..Len(fr)
      <4>1. i \in 2..Len(fr) /\ i - 1 \in 1..Len(fr) /\ gr[i] = fr[i] /\ gr[i - 1] = fr[i - 1]
        BY <1>1, <3>1
      <4> QED BY <2>2, <4>1 DEF Tabled, Nested
    <3>2. CASE i = m
      <4>1. i - 1 = Len(fr) /\ Len(fr) \in 1..Len(fr) /\ fr # <<>>
        BY <1>1, <3>2, EmptySeq
      <4>2. gr[i - 1] = fr[Len(fr)]
        BY <1>1, <4>1
      <4> QED BY <2>2, <3>2, <4>1, <4>2 DEF m
    <3>3. i \in 1..m
      BY <1>1
    <3> QED BY <1>5, <3>1, <3>2, <3>3
  <2> QED BY <1>1, <2>1, <2>2 DEF Nested, m
<1>7. Opened(es, gr)
  <2>1. ASSUME NEW i \in 1..m, gr[i].kind = "function"
        PROVE  IF gr[i].put THEN HasEntry(es, gr, i) ELSE WasTaken(es, gr, i)
    <3>1. CASE i \in 1..Len(fr)
      <4>1. gr[i] = fr[i] /\ Depth(gr, i) = Depth(fr, i)
        BY <1>1, <1>2, <3>1
      <4>2. IF fr[i].put THEN HasEntry(es, fr, i) ELSE WasTaken(es, fr, i)
        BY <2>1, <3>1, <4>1 DEF Tabled, Opened
      <4> QED BY <4>1, <4>2 DEF HasEntry, WasTaken
    <3>2. CASE i = m
      BY <2>1, <3>2 DEF m
    <3> QED BY <1>5, <3>1, <3>2
  <2>2. ASSUME NEW k \in DOMAIN es, es[k].func_is_open
        PROVE  \E i \in 1..m : gr[i].kind = "function" /\ gr[i].put /\ gr[i].first = k
    <3>1. PICK i \in 1..Len(fr) : fr[i].kind = "function" /\ fr[i].put /\ fr[i].first = k
      BY <2>2 DEF Tabled, Opened
    <3>2. i \in 1..m /\ gr[i] = fr[i]
      BY <1>1
    <3> QED BY <3>1, <3>2
  <2> QED BY <2>1, <2>2 DEF Opened, m
<1>8. PutsAside(es, gr)
  <2>1. ASSUME NEW i \in 1..m, gr[i].kind \in PutAsides
        PROVE  Kept(gr[i].value, es, Depth(gr, i))
    <3>1. CASE i \in 1..Len(fr)
      <4>1. gr[i] = fr[i] /\ Depth(gr, i) = Depth(fr, i)
        BY <1>1, <1>2, <3>1
      <4> QED BY <2>1, <3>1, <4>1 DEF Tabled, PutsAside
    <3>2. CASE i = m
      <4>1. gr[m].kind \notin Scopes
        BY <2>1, <3>2 DEF Scopes, PutAsides
      <4>2. Depth(gr, i) = Here(fr)
        BY <1>2, <3>2, <4>1
      <4> QED BY <2>1, <3>2, <4>2 DEF m
    <3> QED BY <1>5, <3>1, <3>2
  <2> QED BY <2>1 DEF PutsAside, m
<1> QED BY <1>3, <1>6, <1>7, <1>8 DEF Tabled

\* A construct without a scope ends.
LEMMA TabledPop ==
  ASSUME NEW es, NEW fr, Tabled(es, fr), NEW gr, Extended(gr, fr),
         fr[Len(fr)].kind \notin Scopes
  PROVE  Tabled(es, gr)
<1>1. /\ Len(fr) = Len(gr) + 1 /\ Len(gr) \in Nat /\ \A i \in 1..Len(gr) : fr[i] = gr[i]
      /\ fr \in Seq(FrameType) /\ gr \in Seq(FrameType)
      /\ \A i \in 1..Len(gr) : i \in 1..Len(fr)
      /\ \A i \in 2..Len(gr) : i \in 2..Len(fr) /\ i - 1 \in 1..Len(gr) /\ i \in 1..Len(gr)
  BY Sequences DEF Extended
<1>2. \A i \in 1..Len(gr) : Depth(fr, i) = Depth(gr, i)
  BY Depths
<1>3. Scoped(es, gr)
  BY ScopedPop DEF Tabled
<1>4. Nested(es, gr)
  BY <1>1 DEF Tabled, Nested
<1>5. Opened(es, gr)
  <2>1. ASSUME NEW i \in 1..Len(gr), gr[i].kind = "function"
        PROVE  IF gr[i].put THEN HasEntry(es, gr, i) ELSE WasTaken(es, gr, i)
    <3>1. fr[i] = gr[i] /\ Depth(fr, i) = Depth(gr, i) /\ i \in 1..Len(fr)
      BY <1>1, <1>2
    <3>2. IF fr[i].put THEN HasEntry(es, fr, i) ELSE WasTaken(es, fr, i)
      BY <2>1, <3>1 DEF Tabled, Opened
    <3> QED BY <3>1, <3>2 DEF HasEntry, WasTaken
  <2>2. ASSUME NEW k \in DOMAIN es, es[k].func_is_open
        PROVE  \E i \in 1..Len(gr) : gr[i].kind = "function" /\ gr[i].put /\ gr[i].first = k
    <3>1. PICK i \in 1..Len(fr) : fr[i].kind = "function" /\ fr[i].put /\ fr[i].first = k
      BY <2>2 DEF Tabled, Opened
    <3>2. i # Len(fr)
      BY <3>1 DEF Scopes
    <3>3. i \in 1..Len(gr)
      BY <1>1, <3>2
    <3> QED BY <1>1, <3>1, <3>3
  <2> QED BY <2>1, <2>2 DEF Opened
<1>6. PutsAside(es, gr)
  <2>1. ASSUME NEW i \in 1..Len(gr), gr[i].kind \in PutAsides
        PROVE  Kept(gr[i].value, es, Depth(gr, i))
    <3>1. fr[i] = gr[i] /\ Depth(fr, i) = Depth(gr, i) /\ i \in 1..Len(fr)
      BY <1>1, <1>2
    <3> QED BY <2>1, <3>1 DEF Tabled, PutsAside
  <2> QED BY <2>1 DEF PutsAside
<1> QED BY <1>3, <1>4, <1>5, <1>6 DEF Tabled

\* A block, loop or function ends.  What it closes is its own entry, if it has
\* one, and else nothing that is open.
LEMMA TabledLeave ==
  ASSUME NEW es, NEW fr, Tabled(es, fr), NEW gr, Extended(gr, fr),
         NEW f, f = fr[Len(fr)], f.kind \in Scopes,
         NEW ns, NEW g, Leaves(es, ns, Here(fr), g),
         IF f.kind = "function" /\ f.put THEN g = f.first
         ELSE \A k \in DOMAIN es : es[k].func_is_open => k # g
  PROVE  Tabled(ns, gr)
<1> DEFINE n == Len(es)
           s == Here(fr)
           m == Len(fr)
<1>1. /\ m = Len(gr) + 1 /\ Len(gr) \in Nat /\ \A i \in 1..Len(gr) : fr[i] = gr[i]
      /\ fr \in Seq(FrameType) /\ gr \in Seq(FrameType)
      /\ \A i \in 1..Len(gr) : i \in 1..m
      /\ \A i \in 2..Len(gr) : i \in 2..m /\ i - 1 \in 1..Len(gr) /\ i \in 1..Len(gr)
  BY Sequences DEF Extended
<1>2. /\ \A i \in 1..Len(gr) : Depth(fr, i) = Depth(gr, i) /\ Depth(gr, i) \in 0..Here(gr)
      /\ \A i \in 1..Len(gr) : gr[i].kind \in Scopes => Depth(gr, i) >= 1
      /\ Here(gr) \in Nat /\ Depth(fr, m) = s /\ s = Here(gr) + 1
  BY Depths
<1>3. /\ es \in Seq(Entry) /\ n \in Nat /\ DOMAIN es = 1..n /\ DOMAIN ns = 1..n /\ Len(ns) = n
      /\ \A k \in 1..n : es[k].scope \in Nat
      /\ \A k \in 1..n :
           /\ ns[k].name = es[k].name /\ ns[k].type = es[k].type /\ ns[k].scope = es[k].scope
           /\ ns[k].isActive <=> es[k].isActive /\ es[k].scope # s
           /\ ns[k].func_is_open <=> es[k].func_is_open /\ k # g
  BY Sequences, Fields DEF Tabled, Scoped, Leaves
<1>4. Scoped(ns, gr)
  BY ScopedLeave DEF Tabled
<1>5. Nested(ns, gr)
  BY <1>1, <1>3 DEF Tabled, Nested
<1> HIDE DEF n, s, m
<1>6. ASSUME NEW i \in 1..Len(gr), gr[i].kind = "function", gr[i].put
      PROVE  HasEntry(ns, gr, i)
  <2>1. /\ fr[i] = gr[i] /\ Depth(fr, i) = Depth(gr, i) /\ i \in 1..m
        /\ Depth(gr, i) \in 0..Here(gr)
    BY <1>1, <1>2
  <2>2. HasEntry(es, fr, i)
    BY <1>6, <2>1 DEF Tabled, Opened, m
  <2>3. DEFINE k == fr[i].first
  <2>4. /\ k \in 1..n /\ es[k].name = fr[i].value.name /\ es[k].type = "USERFUNC"
        /\ es[k].scope = Depth(gr, i) - 1 /\ es[k].isActive /\ es[k].func_is_open
    BY <1>3, <2>1, <2>2 DEF HasEntry
  <2>5. k # g
    <3>1. CASE f.kind = "function" /\ f.put
      <4>1. HasEntry(es, fr, m) /\ g = f.first
        <5>1. m \in 1..m
          BY <1>1
        <5> QED BY <3>1, <5>1 DEF Tabled, Opened, m
      <4>2. es[g].scope = Depth(fr, m) - 1
        BY <4>1 DEF HasEntry, m
      <4> QED BY <1>2, <2>1, <2>4, <4>2
    <3>2. CASE ~(f.kind = "function" /\ f.put)
      BY <1>3, <2>4, <3>2
    <3> QED BY <3>1, <3>2
  <2>6. es[k].scope # s
    BY <1>2, <2>1, <2>4
  <2> QED BY <1>3, <2>1, <2>4, <2>5, <2>6 DEF HasEntry
<1>7. ASSUME NEW i \in 1..Len(gr), gr[i].kind = "function", ~gr[i].put
      PROVE  WasTaken(ns, gr, i)
  <2>1. /\ fr[i] = gr[i] /\ Depth(fr, i) = Depth(gr, i) /\ i \in 1..m
        /\ Depth(gr, i) \in 0..Here(gr) /\ Depth(gr, i) >= 1
    BY <1>1, <1>2, <1>7 DEF Scopes
  <2>2. WasTaken(es, fr, i)
    BY <1>7, <2>1 DEF Tabled, Opened, m
  <2>3. fr[i].first \in Nat /\ fr[i].first <= n
    <3>1. fr[i] \in FrameType /\ fr[i].first <= n
      BY <1>1, <2>1, Sequences DEF Tabled, Nested, n, m
    <3> QED BY <3>1 DEF FrameType
  <2>4. PICK k \in 1..fr[i].first :
          /\ es[k].isActive /\ es[k].name = fr[i].value.name
          /\ \/ es[k].scope = Depth(fr, i) - 1
             \/ /\ es[k].type = "LIBFUNC"
                /\ \A j \in (k + 1)..fr[i].first :
                     ~(es[j].isActive /\ es[j].name = fr[i].value.name)
    BY <2>2 DEF WasTaken
  <2>5. k \in 1..n /\ \A j \in (k + 1)..fr[i].first : j \in 1..n
    BY <1>3, <2>3
  <2>6. CASE es[k].scope = Depth(fr, i) - 1
    <3>1. es[k].scope # s
      BY <1>2, <2>1, <2>6
    <3>2. /\ ns[k].isActive /\ ns[k].name = gr[i].value.name
          /\ ns[k].scope = Depth(gr, i) - 1 /\ k \in 1..gr[i].first
      BY <1>3, <2>1, <2>4, <2>5, <2>6, <3>1
    <3> QED BY <3>2 DEF WasTaken
  <2>7. CASE /\ es[k].type = "LIBFUNC"
             /\ \A j \in (k + 1)..fr[i].first :
                  ~(es[j].isActive /\ es[j].name = fr[i].value.name)
    <3>1. es[k].scope = 0
      <4>1. k <= Len(Lib) /\ k \in 1..Len(Lib)
        <5>1. k <= Len(Lib)
          BY <1>3, <2>5, <2>7 DEF Tabled, Libraries
        <5>2. Len(Lib) \in Nat
          BY LibAssumption, Sequences
        <5> QED BY <2>5, <5>1, <5>2
      <4> QED BY <4>1 DEF Tabled, Libraries
    <3>2. es[k].scope # s
      BY <1>2, <3>1
    <3>3. ns[k].isActive /\ ns[k].name = gr[i].value.name /\ ns[k].type = "LIBFUNC"
      BY <1>3, <2>1, <2>4, <2>5, <2>7, <3>2
    <3>4. \A j \in (k + 1)..gr[i].first : ~(ns[j].isActive /\ ns[j].name = gr[i].value.name)
      BY <1>3, <2>1, <2>5, <2>7
    <3>5. k \in 1..gr[i].first
      BY <2>1
    <3> QED BY <3>3, <3>4, <3>5 DEF WasTaken
  <2> QED BY <2>4, <2>6, <2>7
<1>8. ASSUME NEW k \in DOMAIN ns, ns[k].func_is_open
      PROVE  \E i \in 1..Len(gr) : gr[i].kind = "function" /\ gr[i].put /\ gr[i].first = k
  <2>1. k \in DOMAIN es /\ es[k].func_is_open /\ k # g
    BY <1>3, <1>8
  <2>2. PICK i \in 1..m : fr[i].kind = "function" /\ fr[i].put /\ fr[i].first = k
    BY <2>1 DEF Tabled, Opened, m
  <2>3. i # m
    BY <2>1, <2>2 DEF m
  <2>4. i \in 1..Len(gr)
    BY <1>1, <2>3
  <2> QED BY <1>1, <2>2, <2>4
<1>9. Opened(ns, gr)
  BY <1>6, <1>7, <1>8 DEF Opened
<1>10. Libraries(ns)
  <2>1. s # 0
    BY <1>2
  <2> QED BY <1>3, <2>1 DEF Tabled, Libraries
<1>11. PutsAside(ns, gr)
  <2>1. ASSUME NEW i \in 1..Len(gr), gr[i].kind \in PutAsides
        PROVE  Kept(gr[i].value, ns, Depth(gr, i))
    <3>1. fr[i] = gr[i] /\ Depth(fr, i) = Depth(gr, i) /\ i \in 1..m /\ Depth(gr, i) \in 0..Here(gr)
      BY <1>1, <1>2
    <3>2. Kept(gr[i].value, es, Depth(gr, i))
      BY <2>1, <3>1 DEF Tabled, PutsAside, m
    <3>3. DOMAIN es \subseteq DOMAIN ns
          /\ \A k \in DOMAIN es : es[k].isActive /\ es[k].scope \in {0, Depth(gr, i)} =>
               ns[k].isActive /\ ns[k].name = es[k].name /\ ns[k].scope = es[k].scope
      BY <1>2, <1>3, <3>1
    <3> QED BY <3>2, <3>3, KeptStill
  <2> QED BY <2>1 DEF PutsAside
<1> QED BY <1>4, <1>5, <1>9, <1>10, <1>11 DEF Tabled

\* A function begins that is given an entry.
LEMMA TabledFunction ==
  ASSUME NEW es, NEW fr, Tabled(es, fr), NEW gr, Extended(fr, gr),
         NEW ns, Puts(es, ns, Here(fr)), Len(ns) = Len(es) + 1,
         NEW f, f = gr[Len(gr)], f.kind = "function", f.put, f.first = Len(ns),
         NEW e, e = ns[Len(ns)], e.name = f.value.name, e.type = "USERFUNC",
         e.isActive, e.func_is_open
  PROVE  Tabled(ns, gr)
<1> DEFINE n == Len(es)
           m == Len(gr)
<1>1. /\ m = Len(fr) + 1 /\ Len(fr) \in Nat /\ \A i \in 1..Len(fr) : gr[i] = fr[i]
      /\ fr \in Seq(FrameType) /\ gr \in Seq(FrameType)
  BY Sequences DEF Extended
<1>2. /\ \A i \in 1..Len(fr) : Depth(gr, i) = Depth(fr, i)
      /\ Here(fr) \in Nat /\ Depth(gr, m) = Here(gr)
      /\ Here(gr) = Here(fr) + 1
  BY Depths DEF Scopes
<1>3. /\ n \in Nat /\ DOMAIN es = 1..n /\ DOMAIN ns = 1..(n + 1) /\ Len(ns) = n + 1
      /\ \A k \in 1..n : ns[k] = es[k]
      /\ ns[n + 1].scope = Here(fr)
  BY Sequences DEF Tabled, Scoped, Puts
<1>a. \A i \in 1..Len(fr) : fr[i].first <= n /\ fr[i].first \in Nat
  <2>1. \A i \in 1..Len(fr) : fr[i] \in FrameType
    BY <1>1, Sequences
  <2>2. \A i \in 1..Len(fr) : fr[i].first <= n
    BY DEF Tabled, Nested
  <2> QED BY <2>1, <2>2 DEF FrameType
<1>4. Scoped(ns, gr)
  <2>1. Scoped(ns, fr)
    BY <1>1, <1>a, ScopedPut DEF Tabled
  <2> QED BY <2>1, ScopedPush
<1> HIDE DEF n, m
<1>5. \A i \in 1..m : i \in 1..Len(fr) \/ i = m
  BY <1>1
<1>6. Nested(ns, gr)
  <2>1. ASSUME NEW i \in 1..m PROVE gr[i].first <= Len(ns)
    <3>1. CASE i \in 1..Len(fr)
      BY <1>1, <1>3, <1>a, <3>1
    <3>2. CASE i = m
      BY <1>3, <3>2 DEF m
    <3> QED BY <1>5, <3>1, <3>2
  <2>2. ASSUME NEW i \in 2..m, gr[i].kind \in {"block", "header", "loop"}
        PROVE  gr[i - 1].kind \in Scopes
    <3>1. i # m
      BY <2>2 DEF m
    <3>2. i \in 2..Len(fr) /\ i - 1 \in 1..Len(fr) /\ i \in 1..Len(fr)
      BY <1>1, <3>1
    <3> QED BY <1>1, <2>2, <3>2 DEF Tabled, Nested
  <2> QED BY <1>1, <2>1, <2>2 DEF Nested, m
<1>7. Opened(ns, gr)
  <2>1. ASSUME NEW i \in 1..m, gr[i].kind = "function"
        PROVE  IF gr[i].put THEN HasEntry(ns, gr, i) ELSE WasTaken(ns, gr, i)
    <3>1. CASE i \in 1..Len(fr)
      <4>1. gr[i] = fr[i] /\ Depth(gr, i) = Depth(fr, i)
        BY <1>1, <1>2, <3>1
      <4>2. IF fr[i].put THEN HasEntry(es, fr, i) ELSE WasTaken(es, fr, i)
        BY <2>1, <3>1, <4>1 DEF Tabled, Opened
      <4>3. ASSUME HasEntry(es, fr, i) PROVE HasEntry(ns, gr, i)
        BY <1>3, <4>1, <4>3 DEF HasEntry
      <4>4. ASSUME WasTaken(es, fr, i) PROVE WasTaken(ns, gr, i)
        <5>1. \A k \in 1..fr[i].first : ns[k] = es[k]
          BY <1>3, <1>a, <3>1
        <5>2. \A k \in 1..fr[i].first : \A j \in (k + 1)..fr[i].first : ns[j] = es[j]
          BY <1>3, <1>a, <3>1
        <5> QED BY <4>1, <4>4, <5>1, <5>2 DEF WasTaken
      <4> QED BY <4>1, <4>2, <4>3, <4>4
    <3>2. CASE i = m
      <4>1. /\ gr[i].first = n + 1 /\ ns[n + 1] = e /\ Depth(gr, i) - 1 = Here(fr)
        BY <1>2, <1>3, <3>2 DEF m
      <4>2. HasEntry(ns, gr, i)
        BY <1>3, <3>2, <4>1 DEF HasEntry, m
      <4> QED BY <3>2, <4>2 DEF m
    <3> QED BY <1>5, <3>1, <3>2
  <2>2. ASSUME NEW k \in DOMAIN ns, ns[k].func_is_open
        PROVE  \E i \in 1..m : gr[i].kind = "function" /\ gr[i].put /\ gr[i].first = k
    <3>1. CASE k \in 1..n
      <4>1. PICK i \in 1..Len(fr) : fr[i].kind = "function" /\ fr[i].put /\ fr[i].first = k
        BY <1>3, <2>2, <3>1 DEF Tabled, Opened
      <4>2. i \in 1..m /\ gr[i] = fr[i]
        BY <1>1
      <4> QED BY <4>1, <4>2
    <3>2. CASE k = n + 1
      <4>1. m \in 1..m
        BY <1>1
      <4> QED BY <1>3, <3>2, <4>1 DEF m
    <3> QED BY <1>3, <3>1, <3>2
  <2> QED BY <2>1, <2>2 DEF Opened, m
<1>8. Libraries(ns)
  <2>1. \A k \in DOMAIN ns : k \in DOMAIN es \/ ns[k].type # "LIBFUNC"
    BY <1>3
  <2> QED BY <1>3, <2>1 DEF Tabled, Libraries
<1>9. PutsAside(ns, gr)
  <2>1. ASSUME NEW i \in 1..m, gr[i].kind \in PutAsides
        PROVE  Kept(gr[i].value, ns, Depth(gr, i))
    <3>1. i # m
      BY <2>1 DEF m, PutAsides
    <3>2. i \in 1..Len(fr) /\ gr[i] = fr[i] /\ Depth(gr, i) = Depth(fr, i)
      BY <1>1, <1>2, <1>5, <3>1
    <3>3. Kept(gr[i].value, es, Depth(gr, i))
      BY <2>1, <3>2 DEF Tabled, PutsAside
    <3>4. DOMAIN es \subseteq DOMAIN ns /\ \A k \in DOMAIN es : ns[k] = es[k]
      BY <1>3
    <3> QED BY <3>3, <3>4, KeptStill
  <2> QED BY <2>1 DEF PutsAside, m
<1> QED BY <1>4, <1>6, <1>7, <1>8, <1>9 DEF Tabled

-----------------------------------------------------------------------------
(* The stack of loops and functions, and the numbers of anonymous ones. *)

\* The places on the stack of frames, when one is added or taken away.
LEMMA Places ==
  ASSUME NEW fr, NEW gr, Extended(fr, gr)
  PROVE  /\ \A i \in 1..Len(fr) :
              /\ Count(gr, Blocks, i) = Count(fr, Blocks, i)
              /\ fr[i].kind \in Blocks => Count(fr, Blocks, i) \in 1..Count(fr, Blocks, Len(fr))
         /\ Count(fr, Blocks, Len(fr)) \in Nat
         /\ Count(gr, Blocks, Len(gr))
              = Count(fr, Blocks, Len(fr)) + IF gr[Len(gr)].kind \in Blocks THEN 1 ELSE 0
<1>1. Len(fr) \in Nat
  BY Sequences DEF Extended
<1>2. /\ \A i \in 0..Len(fr) : Count(gr, Blocks, i) = Count(fr, Blocks, i)
                               /\ Count(fr, Blocks, i) \in Nat
      /\ Count(gr, Blocks, Len(gr))
           = Count(fr, Blocks, Len(fr)) + IF gr[Len(gr)].kind \in Blocks THEN 1 ELSE 0
  BY ExtendedCounts
<1>3. \A i \in 1..Len(fr) : fr[i].kind \in Blocks =>
        Count(fr, Blocks, i) \in 1..Count(fr, Blocks, Len(fr))
  BY <1>1, CountedHere
<1>4. Len(fr) \in 0..Len(fr) /\ \A i \in 1..Len(fr) : i \in 0..Len(fr)
  BY <1>1
<1> QED BY <1>2, <1>3, <1>4

\* A construct that is not on the stack begins.
LEMMA TracksBeside ==
  ASSUME NEW fr, NEW gr, Extended(fr, gr), NEW bs, Tracks(bs, fr),
         gr[Len(gr)].kind \notin Blocks
  PROVE  Tracks(bs, gr)
<1>1. /\ Len(gr) = Len(fr) + 1 /\ Len(fr) \in Nat /\ \A i \in 1..Len(fr) : gr[i] = fr[i]
      /\ \A i \in 1..Len(gr) : i \in 1..Len(fr) \/ i = Len(gr)
      /\ \A i \in 1..Len(fr) : i \in 1..Len(gr)
  BY Sequences DEF Extended
<1>2. /\ \A i \in 1..Len(fr) : Count(gr, Blocks, i) = Count(fr, Blocks, i)
      /\ Count(gr, Blocks, Len(gr)) = Count(fr, Blocks, Len(fr))
  BY Places
<1>3. /\ bs \in Seq(Marks) /\ Len(bs) = Count(fr, Blocks, Len(fr))
      /\ \A i \in 1..Len(fr) : fr[i].kind \in Blocks =>
           bs[Count(fr, Blocks, i)] = Mark(fr[i].kind)
      /\ \A c \in 1..Len(bs) :
           \E i \in 1..Len(fr) : fr[i].kind \in Blocks /\ Count(fr, Blocks, i) = c
  BY DEF Tracks
<1>4. ASSUME NEW i \in 1..Len(gr), gr[i].kind \in Blocks
      PROVE  bs[Count(gr, Blocks, i)] = Mark(gr[i].kind)
  <2>1. i \in 1..Len(fr)
    BY <1>1, <1>4
  <2> QED BY <1>1, <1>2, <1>3, <1>4, <2>1
<1>5. ASSUME NEW c \in 1..Len(bs)
      PROVE  \E i \in 1..Len(gr) : gr[i].kind \in Blocks /\ Count(gr, Blocks, i) = c
  <2>1. PICK i \in 1..Len(fr) : fr[i].kind \in Blocks /\ Count(fr, Blocks, i) = c
    BY <1>3
  <2> QED BY <1>1, <1>2, <2>1
<1> QED BY <1>2, <1>3, <1>4, <1>5 DEF Tracks

\* It ends.
LEMMA TracksBesideEnds ==
  ASSUME NEW fr, NEW gr, Extended(gr, fr), NEW bs, Tracks(bs, fr),
         fr[Len(fr)].kind \notin Blocks
  PROVE  Tracks(bs, gr)
<1>1. /\ Len(fr) = Len(gr) + 1 /\ Len(gr) \in Nat /\ \A i \in 1..Len(gr) : fr[i] = gr[i]
      /\ \A i \in 1..Len(fr) : i \in 1..Len(gr) \/ i = Len(fr)
      /\ \A i \in 1..Len(gr) : i \in 1..Len(fr)
  BY Sequences DEF Extended
<1>2. /\ \A i \in 1..Len(gr) : Count(fr, Blocks, i) = Count(gr, Blocks, i)
      /\ Count(fr, Blocks, Len(fr)) = Count(gr, Blocks, Len(gr))
  BY Places
<1>3. /\ bs \in Seq(Marks) /\ Len(bs) = Count(fr, Blocks, Len(fr))
      /\ \A i \in 1..Len(fr) : fr[i].kind \in Blocks =>
           bs[Count(fr, Blocks, i)] = Mark(fr[i].kind)
      /\ \A c \in 1..Len(bs) :
           \E i \in 1..Len(fr) : fr[i].kind \in Blocks /\ Count(fr, Blocks, i) = c
  BY DEF Tracks
<1>4. ASSUME NEW i \in 1..Len(gr), gr[i].kind \in Blocks
      PROVE  bs[Count(gr, Blocks, i)] = Mark(gr[i].kind)
  BY <1>1, <1>2, <1>3, <1>4
<1>5. ASSUME NEW c \in 1..Len(bs)
      PROVE  \E i \in 1..Len(gr) : gr[i].kind \in Blocks /\ Count(gr, Blocks, i) = c
  <2>1. PICK i \in 1..Len(fr) : fr[i].kind \in Blocks /\ Count(fr, Blocks, i) = c
    BY <1>3
  <2>2. i \in 1..Len(gr)
    BY <1>1, <2>1
  <2> QED BY <1>1, <1>2, <2>1, <2>2
<1> QED BY <1>2, <1>3, <1>4, <1>5 DEF Tracks

\* A loop or function begins.
LEMMA TracksPush ==
  ASSUME NEW fr, NEW gr, Extended(fr, gr), NEW bs, Tracks(bs, fr),
         gr[Len(gr)].kind \in Blocks
  PROVE  Tracks(Append(bs, Mark(gr[Len(gr)].kind)), gr)
<1> DEFINE x == Mark(gr[Len(gr)].kind)
           cs == Append(bs, x)
           n == Count(fr, Blocks, Len(fr))
<1>1. /\ Len(gr) = Len(fr) + 1 /\ Len(fr) \in Nat /\ \A i \in 1..Len(fr) : gr[i] = fr[i]
      /\ \A i \in 1..Len(gr) : i \in 1..Len(fr) \/ i = Len(gr)
      /\ \A i \in 1..Len(fr) : i \in 1..Len(gr)
      /\ Len(gr) \in 1..Len(gr)
  BY Sequences DEF Extended
<1>2. /\ \A i \in 1..Len(fr) :
           /\ Count(gr, Blocks, i) = Count(fr, Blocks, i)
           /\ fr[i].kind \in Blocks => Count(fr, Blocks, i) \in 1..n
      /\ n \in Nat /\ Count(gr, Blocks, Len(gr)) = n + 1
  BY Places
<1>3. /\ bs \in Seq(Marks) /\ Len(bs) = n
      /\ \A i \in 1..Len(fr) : fr[i].kind \in Blocks =>
           bs[Count(fr, Blocks, i)] = Mark(fr[i].kind)
      /\ \A c \in 1..Len(bs) :
           \E i \in 1..Len(fr) : fr[i].kind \in Blocks /\ Count(fr, Blocks, i) = c
  BY DEF Tracks
<1>4. x \in Marks
  BY DEF Mark, Marks
<1> HIDE DEF x, n
<1>5. /\ cs \in Seq(Marks) /\ Len(cs) = n + 1 /\ cs[n + 1] = x
      /\ \A c \in 1..n : cs[c] = bs[c]
  BY <1>3, <1>4, AppendProperties
<1> HIDE DEF cs
<1>6. ASSUME NEW i \in 1..Len(gr), gr[i].kind \in Blocks
      PROVE  cs[Count(gr, Blocks, i)] = Mark(gr[i].kind)
  <2>1. CASE i \in 1..Len(fr)
    <3>1. fr[i].kind \in Blocks /\ gr[i] = fr[i]
      BY <1>1, <1>6, <2>1
    <3>2. Count(gr, Blocks, i) = Count(fr, Blocks, i) /\ Count(fr, Blocks, i) \in 1..n
      BY <1>2, <2>1, <3>1
    <3> QED BY <1>3, <1>5, <2>1, <3>1, <3>2
  <2>2. CASE i = Len(gr)
    BY <1>2, <1>5, <2>2 DEF x
  <2> QED BY <1>1, <2>1, <2>2
<1>7. ASSUME NEW c \in 1..Len(cs)
      PROVE  \E i \in 1..Len(gr) : gr[i].kind \in Blocks /\ Count(gr, Blocks, i) = c
  <2>1. CASE c \in 1..n
    <3>1. PICK i \in 1..Len(fr) : fr[i].kind \in Blocks /\ Count(fr, Blocks, i) = c
      BY <1>3, <2>1
    <3> QED BY <1>1, <1>2, <3>1
  <2>2. CASE c = n + 1
    BY <1>1, <1>2, <2>2
  <2> QED BY <1>2, <1>5, <2>1, <2>2
<1> QED BY <1>2, <1>5, <1>6, <1>7 DEF Tracks, cs, x

\* A loop or function ends.
LEMMA TracksPop ==
  ASSUME NEW fr, NEW gr, Extended(gr, fr), NEW bs, Tracks(bs, fr),
         fr[Len(fr)].kind \in Blocks
  PROVE  /\ Tracks(Front(bs), gr) /\ bs = Append(Front(bs), Mark(fr[Len(fr)].kind))
         /\ bs # <<>>
<1> DEFINE n == Count(gr, Blocks, Len(gr))
           cs == Front(bs)
<1>1. /\ Len(fr) = Len(gr) + 1 /\ Len(gr) \in Nat /\ \A i \in 1..Len(gr) : fr[i] = gr[i]
      /\ \A i \in 1..Len(fr) : i \in 1..Len(gr) \/ i = Len(fr)
      /\ \A i \in 1..Len(gr) : i \in 1..Len(fr)
      /\ Len(fr) \in 1..Len(fr)
  BY Sequences DEF Extended
<1>2. /\ \A i \in 1..Len(gr) :
           /\ Count(fr, Blocks, i) = Count(gr, Blocks, i)
           /\ gr[i].kind \in Blocks => Count(gr, Blocks, i) \in 1..n
      /\ n \in Nat /\ Count(fr, Blocks, Len(fr)) = n + 1
  BY Places
<1>3. /\ bs \in Seq(Marks) /\ Len(bs) = n + 1
      /\ \A i \in 1..Len(fr) : fr[i].kind \in Blocks =>
           bs[Count(fr, Blocks, i)] = Mark(fr[i].kind)
      /\ \A c \in 1..Len(bs) :
           \E i \in 1..Len(fr) : fr[i].kind \in Blocks /\ Count(fr, Blocks, i) = c
  BY <1>2 DEF Tracks
<1> HIDE DEF n
<1>4. bs # <<>>
  BY <1>2, <1>3
<1>5. /\ cs \in Seq(Marks) /\ Len(bs) = Len(cs) + 1 /\ \A c \in 1..Len(cs) : bs[c] = cs[c]
      /\ Last(bs) = bs[Len(bs)]
  BY <1>3, <1>4, PoppedIs
<1>6. Len(cs) = n /\ bs[n + 1] = Mark(fr[Len(fr)].kind) /\ Len(cs) \in Nat
  <2>1. Len(cs) \in Nat
    BY <1>5, Sequences
  <2>2. n \in Nat /\ Len(bs) = n + 1 /\ Len(bs) = Len(cs) + 1
    BY <1>2, <1>3, <1>5
  <2>3. Len(cs) = n
    BY ONLY <2>1, <2>2, SMTT(30)
  <2>4. fr[Len(fr)].kind \in Blocks /\ Len(fr) \in 1..Len(fr)
    BY <1>1
  <2>5. bs[Count(fr, Blocks, Len(fr))] = Mark(fr[Len(fr)].kind)
    BY <1>3, <2>4
  <2> QED BY <1>2, <2>1, <2>3, <2>5
<1> HIDE DEF cs
<1>7. ASSUME NEW i \in 1..Len(gr), gr[i].kind \in Blocks
      PROVE  cs[Count(gr, Blocks, i)] = Mark(gr[i].kind)
  <2>1. Count(gr, Blocks, i) \in 1..n /\ fr[i] = gr[i] /\ i \in 1..Len(fr)
        /\ Count(fr, Blocks, i) = Count(gr, Blocks, i)
    BY <1>1, <1>2, <1>7
  <2> QED BY <1>3, <1>5, <1>6, <1>7, <2>1
<1>8. ASSUME NEW c \in 1..Len(cs)
      PROVE  \E i \in 1..Len(gr) : gr[i].kind \in Blocks /\ Count(gr, Blocks, i) = c
  <2>1. c \in 1..Len(bs) /\ c \in 1..n
    BY <1>2, <1>3, <1>6
  <2>2. PICK i \in 1..Len(fr) : fr[i].kind \in Blocks /\ Count(fr, Blocks, i) = c
    BY <1>3, <2>1
  <2>3. i # Len(fr)
    BY <1>2, <2>1, <2>2
  <2>4. i \in 1..Len(gr)
    BY <1>1, <2>3
  <2> QED BY <1>1, <1>2, <2>2, <2>4
<1>9. Tracks(cs, gr)
  BY <1>5, <1>6, <1>7, <1>8 DEF Tracks, n
<1>10. bs = Append(cs, Mark(fr[Len(fr)].kind))
  <2>1. Mark(fr[Len(fr)].kind) \in Marks
    BY DEF Mark, Marks
  <2> DEFINE x == Mark(fr[Len(fr)].kind)
             ds == Append(cs, x)
  <2> HIDE DEF x
  <2>2. /\ ds \in Seq(Marks) /\ Len(ds) = n + 1 /\ ds[n + 1] = x
        /\ \A c \in 1..n : ds[c] = cs[c]
    BY <1>5, <1>6, <2>1, AppendProperties DEF x
  <2>3. \A c \in 1..(n + 1) : ds[c] = bs[c]
    BY <1>2, <1>5, <1>6, <2>2 DEF x
  <2> HIDE DEF ds
  <2>4. bs = ds
    BY <1>3, <2>2, <2>3, SeqEqual
  <2> QED BY <2>4 DEF ds, x
<1> QED BY <1>4, <1>9, <1>10 DEF cs

\* A construct that is no anonymous function begins.
LEMMA NumberedBeside ==
  ASSUME NEW fr, NEW gr, Extended(fr, gr), NEW n, Numbered(fr, n), ~Nameless(gr, Len(gr))
  PROVE  Numbered(gr, n)
<1>1. /\ Len(gr) = Len(fr) + 1 /\ Len(fr) \in Nat /\ \A i \in 1..Len(fr) : gr[i] = fr[i]
      /\ \A i \in 1..Len(gr) : i \in 1..Len(fr) \/ i = Len(gr)
      /\ \A i \in 1..Len(fr) : i - 1 \in 0..Len(fr)
  BY Sequences DEF Extended
<1>2. /\ \A i \in 0..Len(fr) : CountNameless(gr, i) = CountNameless(fr, i)
      /\ \A i \in 1..Len(fr) : Nameless(gr, i) <=> Nameless(fr, i)
      /\ CountNameless(gr, Len(gr)) = CountNameless(fr, Len(fr))
  <2>1. CountNameless(fr, Len(fr)) \in Nat
    BY <1>1, NamelessStep
  <2> QED BY <2>1, ExtendedNameless
<1>3. ASSUME NEW i \in 1..Len(gr), Nameless(gr, i)
      PROVE  gr[i].put /\ gr[i].value.name = AnonymousName(CountNameless(gr, i - 1))
  <2>1. i \in 1..Len(fr)
    BY <1>1, <1>3
  <2>2. gr[i] = fr[i] /\ Nameless(fr, i) /\ CountNameless(gr, i - 1) = CountNameless(fr, i - 1)
    BY <1>1, <1>2, <1>3, <2>1
  <2> QED BY <2>1, <2>2 DEF Numbered
<1> QED BY <1>2, <1>3 DEF Numbered

\* An anonymous function begins.
LEMMA NumberedPush ==
  ASSUME NEW fr, NEW gr, Extended(fr, gr), NEW n, Numbered(fr, n), Nameless(gr, Len(gr)),
         gr[Len(gr)].put, gr[Len(gr)].value.name = AnonymousName(n)
  PROVE  Numbered(gr, n + 1)
<1>1. /\ Len(gr) = Len(fr) + 1 /\ Len(fr) \in Nat /\ \A i \in 1..Len(fr) : gr[i] = fr[i]
      /\ \A i \in 1..Len(gr) : i \in 1..Len(fr) \/ i = Len(gr)
      /\ \A i \in 1..Len(fr) : i - 1 \in 0..Len(fr)
      /\ Len(gr) - 1 = Len(fr) /\ Len(fr) \in 0..Len(fr)
  BY Sequences DEF Extended
<1>2. /\ \A i \in 0..Len(fr) : CountNameless(gr, i) = CountNameless(fr, i)
      /\ \A i \in 1..Len(fr) : Nameless(gr, i) <=> Nameless(fr, i)
      /\ CountNameless(gr, Len(gr)) = CountNameless(fr, Len(fr)) + 1
  BY ExtendedNameless
<1>3. ASSUME NEW i \in 1..Len(gr), Nameless(gr, i)
      PROVE  gr[i].put /\ gr[i].value.name = AnonymousName(CountNameless(gr, i - 1))
  <2>1. CASE i \in 1..Len(fr)
    <3>1. gr[i] = fr[i] /\ Nameless(fr, i) /\ CountNameless(gr, i - 1) = CountNameless(fr, i - 1)
      BY <1>1, <1>2, <1>3, <2>1
    <3> QED BY <2>1, <3>1 DEF Numbered
  <2>2. CASE i = Len(gr)
    <3>1. CountNameless(gr, i - 1) = n
      BY <1>1, <1>2, <2>2 DEF Numbered
    <3> QED BY <2>2, <3>1
  <2> QED BY <1>1, <2>1, <2>2
<1> QED BY <1>2, <1>3 DEF Numbered

\* A construct ends; if it is an anonymous function, it is that of the last number.
LEMMA NumberedPop ==
  ASSUME NEW fr, NEW gr, Extended(gr, fr), NEW n, Numbered(fr, n)
  PROVE  /\ ~Nameless(fr, Len(fr)) => Numbered(gr, n)
         /\ Nameless(fr, Len(fr)) =>
              /\ Numbered(gr, n - 1) /\ fr[Len(fr)].put
              /\ fr[Len(fr)].value.name = AnonymousName(n - 1)
<1>1. /\ Len(fr) = Len(gr) + 1 /\ Len(gr) \in Nat /\ \A i \in 1..Len(gr) : fr[i] = gr[i]
      /\ \A i \in 1..Len(gr) : i \in 1..Len(fr) /\ i - 1 \in 0..Len(gr)
      /\ Len(fr) - 1 = Len(gr) /\ Len(gr) \in 0..Len(gr) /\ Len(fr) \in 1..Len(fr)
  BY Sequences DEF Extended
<1>2. /\ \A i \in 0..Len(gr) : CountNameless(fr, i) = CountNameless(gr, i)
      /\ \A i \in 1..Len(gr) : Nameless(fr, i) <=> Nameless(gr, i)
      /\ CountNameless(fr, Len(fr))
           = CountNameless(gr, Len(gr)) + IF Nameless(fr, Len(fr)) THEN 1 ELSE 0
      /\ CountNameless(gr, Len(gr)) \in Nat
  BY <1>1, ExtendedNameless
<1>3. ASSUME NEW i \in 1..Len(gr), Nameless(gr, i)
      PROVE  gr[i].put /\ gr[i].value.name = AnonymousName(CountNameless(gr, i - 1))
  <2>1. /\ fr[i] = gr[i] /\ Nameless(fr, i) /\ CountNameless(fr, i - 1) = CountNameless(gr, i - 1)
        /\ i \in 1..Len(fr)
    BY <1>1, <1>2, <1>3
  <2> QED BY <2>1 DEF Numbered
<1>4. CASE Nameless(fr, Len(fr))
  <2>1. CountNameless(gr, Len(gr)) = n - 1
    BY <1>2, <1>4 DEF Numbered
  <2>2. /\ fr[Len(fr)].put
        /\ fr[Len(fr)].value.name = AnonymousName(CountNameless(fr, Len(fr) - 1))
    BY <1>1, <1>4 DEF Numbered
  <2>3. CountNameless(fr, Len(fr) - 1) = n - 1
    BY <1>1, <1>2, <2>1
  <2> QED BY <1>3, <1>4, <2>1, <2>2, <2>3 DEF Numbered
<1>5. CASE ~Nameless(fr, Len(fr))
  <2>1. CountNameless(gr, Len(gr)) = n
    BY <1>2, <1>5 DEF Numbered
  <2> QED BY <1>3, <1>5, <2>1 DEF Numbered
<1> QED BY <1>4, <1>5

\* There is a function on the stack if one is being read.
LEMMA ReturnIs ==
  ASSUME frames \in Seq(FrameType), Tracks(block_stack, frames)
  PROVE  "FUNC_BLOCK" \in ToSet(block_stack) <=> Bodies # {}
<1>1. /\ block_stack \in Seq(Marks) /\ Len(block_stack) = Count(frames, Blocks, Len(frames))
      /\ \A i \in 1..Len(frames) : frames[i].kind \in Blocks =>
           block_stack[Count(frames, Blocks, i)] = Mark(frames[i].kind)
      /\ \A c \in 1..Len(block_stack) :
           \E i \in 1..Len(frames) : frames[i].kind \in Blocks /\ Count(frames, Blocks, i) = c
  BY DEF Tracks
<1>2. \A k : Mark(k) = "FUNC_BLOCK" <=> k = "function"
  BY DEF Mark
<1>3. DOMAIN block_stack = 1..Len(block_stack)
  BY <1>1, Sequences
<1>4. ASSUME "FUNC_BLOCK" \in ToSet(block_stack) PROVE Bodies # {}
  <2>1. PICK c \in 1..Len(block_stack) : block_stack[c] = "FUNC_BLOCK"
    BY <1>3, <1>4 DEF ToSet
  <2>2. PICK i \in 1..Len(frames) : frames[i].kind \in Blocks /\ Count(frames, Blocks, i) = c
    BY <1>1
  <2>3. frames[i].kind = "function"
    BY <1>1, <1>2, <2>1, <2>2
  <2>4. i \in DOMAIN frames
    BY Sequences
  <2> QED BY <2>3, <2>4 DEF Bodies, Kinds
<1>5. ASSUME Bodies # {} PROVE "FUNC_BLOCK" \in ToSet(block_stack)
  <2>1. PICK i \in DOMAIN frames : frames[i].kind = "function"
    BY <1>5 DEF Bodies, Kinds
  <2>2. i \in 1..Len(frames) /\ Len(frames) \in Nat /\ frames[i].kind \in Blocks
    BY <2>1, Sequences DEF Blocks
  <2>3. /\ Count(frames, Blocks, i) \in 1..Len(block_stack)
        /\ block_stack[Count(frames, Blocks, i)] = "FUNC_BLOCK"
    BY <1>1, <1>2, <2>1, <2>2, CountedHere
  <2> QED BY <1>3, <2>3 DEF ToSet
<1> QED BY <1>4, <1>5

\* The top of the stack is a loop where the innermost loop or function is a loop.
LEMMA BreakIs ==
  ASSUME Nested(entries, frames), Tracks(block_stack, frames), AtStatement
  PROVE  LET around == Kinds({"function", "loop"})
         IN  ~loop_on_top <=> around = {} \/ frames[Max(around)].kind # "loop"
<1> DEFINE around == Kinds({"function", "loop"})
           K == Kinds(Blocks)
           n == Len(frames)
           b == Len(block_stack)
<1>1. frames \in Seq(FrameType) /\ n \in Nat /\ DOMAIN frames = 1..n
  BY Sequences DEF Nested
<1>2. /\ block_stack \in Seq(Marks) /\ b = Count(frames, Blocks, n) /\ b \in Nat
      /\ \A i \in 1..n : frames[i].kind \in Blocks =>
           block_stack[Count(frames, Blocks, i)] = Mark(frames[i].kind)
      /\ \A c \in 1..b :
           \E i \in 1..n : frames[i].kind \in Blocks /\ Count(frames, Blocks, i) = c
  BY Sequences DEF Tracks
<1>3. /\ \A i : i \in K <=> i \in 1..n /\ frames[i].kind \in Blocks
      /\ \A i : i \in around <=> i \in 1..n /\ frames[i].kind \in {"function", "loop"}
      /\ around \subseteq K
  BY <1>1 DEF Kinds, Blocks
<1>4. \A k \in Blocks : Mark(k) = "LOOP" <=> k # "function"
  BY DEF Mark
<1> HIDE DEF around, K, n, b
<1>5. CASE b = 0
  <2>1. block_stack = <<>>
    BY <1>2, <1>5, EmptySeq DEF b
  <2>2. \A i \in 1..n : frames[i].kind \notin Blocks
    <3> SUFFICES ASSUME NEW i \in 1..n, frames[i].kind \in Blocks PROVE FALSE
      OBVIOUS
    <3>1. Count(frames, Blocks, i) \in 1..Count(frames, Blocks, n)
      BY <1>1, CountedHere
    <3> QED BY <1>2, <1>5, <3>1
  <2>3. around = {}
    BY <1>3, <2>2
  <2>4. ~loop_on_top
    BY <2>1 DEF loop_on_top
  <2> QED BY <2>3, <2>4 DEF around
<1>6. CASE b > 0
  <2>1. PICK m \in 1..n : frames[m].kind \in Blocks /\ Count(frames, Blocks, m) = b
    <3>1. b \in 1..b
      BY <1>2, <1>6
    <3> QED BY <1>2, <3>1
  <2>2. \A i \in K : i <= m
    <3> SUFFICES ASSUME NEW i \in K, i > m PROVE FALSE
      BY <1>1, <1>3, <2>1
    <3>1. i \in 1..n /\ frames[i].kind \in Blocks /\ m \in 0..(i - 1)
      BY <1>1, <1>3, <2>1
    <3>2. /\ Count(frames, Blocks, i) \in 1..Count(frames, Blocks, n)
          /\ \A l \in 0..(i - 1) : Count(frames, Blocks, l) < Count(frames, Blocks, i)
      BY <1>1, <3>1, CountedHere
    <3>3. Count(frames, Blocks, m) < Count(frames, Blocks, i)
      BY <3>1, <3>2
    <3> QED BY <1>2, <2>1, <3>2, <3>3
  <2>3. frames[m].kind # "header"
    <3> SUFFICES ASSUME frames[m].kind = "header" PROVE FALSE
      OBVIOUS
    <3> DEFINE J == {j \in (m + 1)..n : frames[j].kind \in Scopes}
    <3>1. frames[n].kind \in Scopes /\ n # m
      <4>1. frames # <<>>
        BY <1>1, <2>1, EmptySeq DEF n
      <4>2. Top = Last(frames).kind
        BY <4>1 DEF Top
      <4>3. Last(frames) = frames[n]
        BY DEF Last, n
      <4>4. frames[n].kind \in {"program", "block", "function", "loop"}
        BY <4>2, <4>3 DEF AtStatement
      <4>5. frames[n] \in FrameType
        BY <1>1, <2>1, Sequences DEF n
      <4>6. frames[n].kind # "program"
        BY <4>5 DEF FrameType, Scopes, Blocks, PutAsides
      <4> QED BY <4>4, <4>6 DEF Scopes
    <3>2. n \in J /\ J \subseteq Nat
      BY <1>1, <2>1, <3>1
    <3>3. PICK j : j = Min(J)
      OBVIOUS
    <3>4. j \in J /\ \A i \in J : j <= i
      BY <3>2, <3>3, MinIsFirst
    <3>5. j \in (m + 1)..n /\ frames[j].kind \in Scopes
      BY <3>4
    <3>6. frames[j].kind \notin Blocks
      <4>1. j \in 1..n /\ ~(j <= m)
        BY <1>1, <2>1, <3>5
      <4> QED BY <1>3, <2>2, <4>1
    <3>7. frames[j].kind = "block" /\ j \in 2..n
      BY <1>1, <2>1, <3>5, <3>6 DEF Scopes, Blocks
    <3>8. frames[j - 1].kind \in Scopes
      BY <3>7 DEF Nested, n
    <3>9. j - 1 # m
      BY <3>8 DEF Scopes
    <3>10. j - 1 \in J
      BY <1>1, <2>1, <3>5, <3>8, <3>9
    <3> HIDE DEF J
    <3>11. j <= j - 1
      BY <3>4, <3>10
    <3> QED BY <1>1, <3>7, <3>11
  <2>4. frames[m].kind \in {"function", "loop"} /\ m \in around
    BY <1>3, <2>1, <2>3 DEF Blocks
  <2>5. Max(around) = m
    <3>1. around \subseteq Nat /\ \A i \in around : m >= i
      BY <1>1, <1>3, <2>1, <2>2
    <3> QED BY <2>4, <3>1, MaxIs
  <2>6. loop_on_top <=> Mark(frames[m].kind) = "LOOP"
    <3>1. block_stack # <<>> /\ Last(block_stack) = block_stack[b]
      <4>1. block_stack # <<>>
        BY <1>6, EmptySeq DEF b
      <4> QED BY <4>1 DEF Last, b
    <3>2. block_stack[b] = Mark(frames[m].kind)
      BY <1>2, <2>1
    <3> QED BY <3>1, <3>2 DEF loop_on_top
  <2>7. loop_on_top <=> frames[m].kind = "loop"
    BY <1>4, <2>1, <2>4, <2>6
  <2> QED BY <2>4, <2>5, <2>7 DEF around
<1> QED BY <1>2, <1>5, <1>6

-----------------------------------------------------------------------------
(* What the lookups find. *)

\* Entries that are active and have the name n.
LEMMA ActiveIs ==
  ASSUME Scoped(entries, frames), NEW n
  PROVE  /\ Active(n) \subseteq 0..Len(entries) /\ Len(entries) \in Nat
         /\ \A k \in Active(n) :
              /\ k \in DOMAIN entries /\ k \in Nat /\ k >= 1
              /\ entries[k].isActive /\ entries[k].name = n /\ entries[k].scope \in Nat
<1>1. /\ entries \in Seq(Entry) /\ Len(entries) \in Nat /\ DOMAIN entries = 1..Len(entries)
      /\ \A k \in 1..Len(entries) : entries[k].scope \in Nat
  BY Sequences, Fields DEF Scoped
<1> QED BY <1>1 DEF Active

\* SymTable_get finds the youngest, which is the innermost.
LEMMA GetIs ==
  ASSUME Scoped(entries, frames), current_scope = Here(frames), NEW n
  PROVE  /\ SymTable_get(n) = 0 <=> Active(n) = {}
         /\ SymTable_get(n) # 0 =>
              /\ SymTable_get(n) \in Active(n)
              /\ entries[SymTable_get(n)].scope <= current_scope
              /\ \A k \in Active(n) : /\ k <= SymTable_get(n)
                                      /\ entries[k].scope <= entries[SymTable_get(n)].scope
<1>1. CASE Active(n) = {}
  BY <1>1 DEF SymTable_get, NewestOf
<1>2. CASE Active(n) # {}
  <2>1. SymTable_get(n) = Max(Active(n))
    BY <1>2 DEF SymTable_get, NewestOf
  <2>2. PICK g : g = SymTable_get(n)
    OBVIOUS
  <2>3. g \in Active(n) /\ \A k \in Active(n) : g >= k
    BY <1>2, <2>1, <2>2, MaxIsLast, ActiveIs
  <2>4. g # 0 /\ entries[g].scope <= current_scope
    BY <2>3, ActiveIs DEF Scoped
  <2>5. ASSUME NEW k \in Active(n) PROVE k <= g /\ entries[k].scope <= entries[g].scope
    <3>1. /\ k \in Nat /\ g \in Nat /\ k <= g /\ entries[k].scope \in Nat
          /\ k \in DOMAIN entries /\ g \in DOMAIN entries
          /\ entries[k].isActive /\ entries[g].isActive
      BY <2>3, ActiveIs
    <3>2. k < g => entries[k].scope <= entries[g].scope
      BY <3>1 DEF Scoped
    <3> QED BY <3>1, <3>2
  <2> QED BY <1>2, <2>2, <2>3, <2>4, <2>5
<1> QED BY <1>1, <1>2

\* A name is bound once in a scope, and that binding is found.
LEMMA AtScopeIs ==
  ASSUME Scoped(entries, frames), NEW n \in Name, NEW k \in Active(n),
         NEW s, s = entries[k].scope
  PROVE  ActiveAt(n, s) = {k} /\ SymTable_get_entry_at_scope(n, s) = k
         /\ NewestOf(ActiveAt(n, s)) = k /\ SymTable_contains(n, s)
<1>1. \A j \in Active(n) : entries[j].scope = s => j = k
  BY ActiveIs DEF Scoped
<1>2. ActiveAt(n, s) = {k}
  BY <1>1 DEF ActiveAt
<1>3. k \in Nat
  BY ActiveIs
<1>4. Max({k}) = k /\ Min({k}) = k
  BY <1>3, MaxIs, MinIs
<1> QED BY <1>2, <1>4 DEF SymTable_get_entry_at_scope, SymTable_contains, NewestOf, OldestOf

\* Where a name is bound at all.
LEMMA ContainsIs ==
  ASSUME NEW n, NEW s
  PROVE  SymTable_contains(n, s) <=> \E k \in Active(n) : entries[k].scope = s
BY DEF SymTable_contains, ActiveAt

\* Looking outwards finds the innermost binding, unless it is global.
LEMMA ClosestIs ==
  ASSUME Scoped(entries, frames), current_scope = Here(frames), current_scope \in Nat,
         NEW n \in Name,
         NEW s, s = current_scope \/ (s = current_scope - 1
                                      /\ ~SymTable_contains(n, current_scope))
  PROVE  SymTable_get_closest_scope(n, s)
           = IF SymTable_get(n) # 0 /\ entries[SymTable_get(n)].scope > 0
             THEN SymTable_get(n) ELSE 0
<1>1. PICK g : g = SymTable_get(n)
  OBVIOUS
<1> DEFINE visible == {t \in 1..s : SymTable_contains(n, t)}
<1>2. /\ g = 0 <=> Active(n) = {}
      /\ g # 0 => /\ g \in Active(n) /\ entries[g].scope <= current_scope
                  /\ \A k \in Active(n) : entries[k].scope <= entries[g].scope
  BY <1>1, GetIs
<1>3. \A k \in Active(n) : entries[k].scope \in Nat
  BY ActiveIs
<1>4. \A t : SymTable_contains(n, t) <=> \E k \in Active(n) : entries[k].scope = t
  BY ContainsIs
<1>5. CASE g # 0 /\ entries[g].scope > 0
  <2>1. PICK t : t = entries[g].scope
    OBVIOUS
  <2>2. t \in Nat /\ t > 0 /\ t <= current_scope /\ SymTable_contains(n, t)
    BY <1>2, <1>3, <1>4, <1>5, <2>1
  <2>3. t \in 1..s
    BY <2>2
  <2>4. t \in visible /\ visible \subseteq Nat /\ \A u \in visible : t >= u
    <3>1. \A u \in visible : \E k \in Active(n) : entries[k].scope = u
      BY <1>4
    <3> QED BY <1>2, <1>5, <2>1, <2>2, <2>3, <3>1
  <2> HIDE DEF visible
  <2>5. Max(visible) = t /\ visible # {}
    BY <2>4, MaxIs
  <2>6. SymTable_get_entry_at_scope(n, t) = g
    BY <1>2, <1>5, <2>1, AtScopeIs
  <2> QED BY <1>1, <1>5, <2>5, <2>6 DEF SymTable_get_closest_scope, visible
<1>6. CASE ~(g # 0 /\ entries[g].scope > 0)
  <2>1. visible = {}
    <3> SUFFICES ASSUME NEW t \in 1..s, SymTable_contains(n, t) PROVE FALSE
      OBVIOUS
    <3>1. PICK k \in Active(n) : entries[k].scope = t
      BY <1>4
    <3>2. g # 0 /\ entries[k].scope <= entries[g].scope /\ t >= 1 /\ t \in Int
      BY <1>2, <3>1
    <3>3. entries[g].scope \in Nat
      BY <1>2, <1>3, <3>2
    <3> QED BY <1>6, <3>1, <3>2, <3>3
  <2> QED BY <1>1, <1>6, <2>1 DEF SymTable_get_closest_scope
<1> QED BY <1>5, <1>6

\* The rules mean the same binding.
LEMMA VisibleIs ==
  ASSUME Scoped(entries, frames), current_scope = Here(frames), NEW n \in Name
  PROVE  Visible(n) = SymTable_get(n)
<1>1. PICK g : g = SymTable_get(n)
  OBVIOUS
<1>2. /\ g = 0 <=> Active(n) = {}
      /\ g # 0 => /\ g \in Active(n)
                  /\ \A k \in Active(n) : entries[k].scope <= entries[g].scope
  BY <1>1, GetIs
<1>3. CASE Active(n) = {}
  BY <1>1, <1>2, <1>3 DEF Visible
<1>4. CASE Active(n) # {}
  <2> DEFINE S == {entries[k].scope : k \in Active(n)}
  <2>1. S \subseteq Nat /\ entries[g].scope \in S /\ \A t \in S : entries[g].scope >= t
    BY <1>2, <1>4, ActiveIs
  <2> HIDE DEF S
  <2>2. Max(S) = entries[g].scope
    BY <2>1, MaxIs
  <2>3. NewestOf(ActiveAt(n, entries[g].scope)) = g
    BY <1>2, <1>4, AtScopeIs
  <2> QED BY <1>1, <1>4, <2>2, <2>3 DEF Visible, S
<1> QED BY <1>3, <1>4

\* Where every function has an entry, the search for an open function finds
\* one if and only if a body lies between an entry and here.
LEMMA HiddenIs ==
  ASSUME frames \in Seq(FrameType), Scoped(entries, frames), Opened(entries, frames),
         current_scope = Here(frames),
         \A i \in 1..Len(frames) : frames[i].kind = "function" => frames[i].put,
         NEW k \in DOMAIN entries, entries[k].isActive
  PROVE  /\ Hidden(k) <=> entries[k].scope > 0 /\ SymTable_open_func(k, current_scope)
         /\ entries[k].scope = current_scope => ~Hidden(k)
<1> DEFINE s == entries[k].scope
<1>1. /\ entries \in Seq(Entry) /\ DOMAIN entries = 1..Len(entries) /\ Len(entries) \in Nat
      /\ DOMAIN frames = 1..Len(frames) /\ s \in Nat /\ k \in Nat
      /\ \A j \in DOMAIN entries : entries[j].scope \in Nat
  BY Sequences, Fields DEF Scoped
<1>2. \A i : i \in Bodies <=> i \in 1..Len(frames) /\ frames[i].kind = "function"
  BY <1>1 DEF Bodies, Kinds
<1>3. ASSUME NEW i \in Bodies
      PROVE  /\ i \in 1..Len(frames) /\ HasEntry(entries, frames, i)
             /\ k > frames[i].first <=> s >= Depth(frames, i)
             /\ Depth(frames, i) \in 1..current_scope /\ current_scope \in Nat
             /\ frames[i].first \in DOMAIN entries /\ frames[i].first \in Nat
             /\ entries[frames[i].first].scope = Depth(frames, i) - 1
             /\ entries[frames[i].first].func_is_open
  <2>1. i \in 1..Len(frames) /\ frames[i].kind = "function" /\ frames[i].put
    BY <1>2
  <2>2. frames[i].kind \in Scopes
    BY <2>1 DEF Scopes
  <2>3. HasEntry(entries, frames, i)
    BY <2>1 DEF Opened
  <2>4. k > frames[i].first <=> s >= Depth(frames, i)
    BY <2>1, <2>2 DEF Scoped
  <2>5. Depth(frames, i) \in 0..current_scope /\ Depth(frames, i) >= 1 /\ current_scope \in Nat
    BY <2>1, <2>2, Around
  <2> QED BY <1>1, <2>1, <2>3, <2>4, <2>5 DEF HasEntry
<1> HIDE DEF s
<1>4. ASSUME NEW i \in Bodies, frames[i].first >= k, s > 0
      PROVE  SymTable_open_func(k, current_scope)
  <2>1. PICK f \in DOMAIN entries : f = frames[i].first
    BY <1>3
  <2>2. s <= entries[f].scope /\ entries[f].scope \in 0..current_scope /\ f >= k
        /\ entries[f].func_is_open
    <3>1. ~(k > frames[i].first)
      BY <1>1, <1>3, <1>4
    <3>2. s < Depth(frames, i) /\ Depth(frames, i) \in 1..current_scope
      BY <1>1, <1>3, <3>1
    <3> QED BY <1>1, <1>3, <1>4, <2>1, <3>2
  <2>3. entries[f].scope = s \/ entries[f].scope \in (s + 1)..current_scope
    BY <1>1, <2>2
  <2> QED BY <2>2, <2>3 DEF SymTable_open_func, s
<1>5. ASSUME SymTable_open_func(k, current_scope)
      PROVE  \E i \in Bodies : frames[i].first >= k
  <2>1. PICK f \in DOMAIN entries :
          /\ entries[f].func_is_open
          /\ entries[f].scope = s \/ entries[f].scope \in (s + 1)..current_scope
    BY <1>5 DEF SymTable_open_func, s
  <2>2. PICK i \in 1..Len(frames) :
          frames[i].kind = "function" /\ frames[i].put /\ frames[i].first = f
    BY <2>1 DEF Opened
  <2>3. i \in Bodies
    BY <1>2, <2>2
  <2>4. entries[f].scope = Depth(frames, i) - 1 /\ Depth(frames, i) \in Nat
    BY <1>3, <2>2, <2>3
  <2>5. ~(s >= Depth(frames, i))
    BY <1>1, <2>1, <2>4
  <2>6. ~(k > frames[i].first) /\ frames[i].first \in Nat
    BY <1>3, <2>3, <2>5
  <2> QED BY <1>1, <2>3, <2>6
<1>6. ASSUME s = current_scope, NEW i \in Bodies PROVE ~(frames[i].first >= k)
  BY <1>1, <1>3, <1>6
<1> QED BY <1>4, <1>5, <1>6 DEF Hidden, s

\* The parts of the invariant that the rules about names rest on
Ready == Tabled(entries, frames) /\ current_scope = Here(frames)

\* What holds of the bindings of a name, g being the one that SymTable_get finds.
LEMMA Bindings ==
  ASSUME Ready, NEW n \in Name, NEW g, g = SymTable_get(n)
  PROVE  /\ current_scope \in Nat
         /\ g = 0 <=> Active(n) = {}
         /\ g # 0 => /\ g \in Active(n) /\ g \in DOMAIN entries
                     /\ entries[g].isActive /\ entries[g].name = n
                     /\ entries[g].scope \in 0..current_scope
         /\ SymTable_contains(n, current_scope) <=> g # 0 /\ entries[g].scope = current_scope
         /\ SymTable_contains(n, current_scope)
              => SymTable_get_entry_at_scope(n, current_scope) = g
         /\ SymTable_get_closest_scope(n, current_scope)
              = IF g # 0 /\ entries[g].scope > 0 THEN g ELSE 0
         /\ ~SymTable_contains(n, current_scope) =>
              SymTable_get_closest_scope(n, current_scope - 1)
                = IF g # 0 /\ entries[g].scope > 0 THEN g ELSE 0
         /\ g = 0 => ~SymTable_contains(n, 0)
         /\ g # 0 /\ entries[g].scope = 0
              => SymTable_contains(n, 0) /\ SymTable_get_entry_at_scope(n, 0) = g
         /\ SymTable_contains(n, 0) <=> SymTable_get_entry_at_scope(n, 0) # 0
         /\ Visible(n) = g
<1>1. /\ Scoped(entries, frames) /\ current_scope = Here(frames) /\ frames \in Seq(FrameType)
  BY DEF Ready, Tabled, Nested
<1>2. current_scope \in Nat
  BY <1>1, Around
<1>3. /\ g = 0 <=> Active(n) = {}
      /\ g # 0 => /\ g \in Active(n) /\ entries[g].scope <= current_scope
                  /\ \A k \in Active(n) : entries[k].scope <= entries[g].scope
  BY <1>1, GetIs
<1>4. \A k \in Active(n) : /\ k \in DOMAIN entries /\ k \in Nat /\ k >= 1
                           /\ entries[k].isActive /\ entries[k].name = n
                           /\ entries[k].scope \in Nat
  BY <1>1, ActiveIs
<1>5. \A t : SymTable_contains(n, t) <=> \E k \in Active(n) : entries[k].scope = t
  BY ContainsIs
<1>6. \A k \in Active(n) : SymTable_get_entry_at_scope(n, entries[k].scope) = k
  BY <1>1, AtScopeIs
<1>7. SymTable_contains(n, current_scope) <=> g # 0 /\ entries[g].scope = current_scope
  <2>1. ASSUME NEW k \in Active(n), entries[k].scope = current_scope
        PROVE  g # 0 /\ entries[g].scope = current_scope
    BY <1>2, <1>3, <1>4, <2>1
  <2> QED BY <1>3, <1>5, <2>1
<1>8. /\ SymTable_get_closest_scope(n, current_scope)
           = IF g # 0 /\ entries[g].scope > 0 THEN g ELSE 0
      /\ ~SymTable_contains(n, current_scope) =>
           SymTable_get_closest_scope(n, current_scope - 1)
             = IF g # 0 /\ entries[g].scope > 0 THEN g ELSE 0
  BY <1>1, <1>2, ClosestIs
<1>9. SymTable_contains(n, 0) <=> SymTable_get_entry_at_scope(n, 0) # 0
  <2>1. CASE SymTable_contains(n, 0)
    <3>1. PICK k \in Active(n) : entries[k].scope = 0
      BY <1>5, <2>1
    <3>2. SymTable_get_entry_at_scope(n, 0) = k /\ k # 0
      BY <1>4, <1>6, <3>1
    <3> QED BY <2>1, <3>2
  <2>2. CASE ~SymTable_contains(n, 0)
    BY <2>2 DEF SymTable_contains, SymTable_get_entry_at_scope, OldestOf
  <2> QED BY <2>1, <2>2
<1>10. Visible(n) = g
  BY <1>1, VisibleIs
<1>11. g # 0 => entries[g].scope \in 0..current_scope
  BY <1>2, <1>3, <1>4
<1>12. g = 0 => ~SymTable_contains(n, 0)
  BY <1>3, <1>5
<1>13. g # 0 /\ entries[g].scope = 0
         => SymTable_contains(n, 0) /\ SymTable_get_entry_at_scope(n, 0) = g
  BY <1>3, <1>5, <1>6
<1>14. SymTable_contains(n, current_scope)
         => SymTable_get_entry_at_scope(n, current_scope) = g
  BY <1>3, <1>6, <1>7
<1> QED BY <1>2, <1>3, <1>4, <1>7, <1>8, <1>9, <1>10, <1>11, <1>12, <1>13, <1>14

\* The names of the library are bound to its functions, where the program keeps
\* the rules; globally they are bound always.
LEMMA LibraryIs ==
  ASSUME Ready, NEW n \in Name
  PROVE  /\ n \in ToSet(Lib) => SymTable_contains(n, 0)
         /\ Lawful(entries, frames) => (IsLibrary(n) <=> n \in ToSet(Lib))
         /\ Lawful(entries, frames) /\ n \in ToSet(Lib) =>
              SymTable_get(n) # 0 /\ entries[SymTable_get(n)].type = "LIBFUNC"
<1>1. PICK g : g = SymTable_get(n)
  OBVIOUS
<1>2. /\ g = 0 => ~SymTable_contains(n, 0)
      /\ g # 0 => /\ g \in Active(n) /\ g \in DOMAIN entries
                  /\ entries[g].isActive /\ entries[g].name = n
  BY <1>1, Bindings
<1>3. Libraries(entries) /\ entries \in Seq(Entry) /\ DOMAIN entries = 1..Len(entries)
  BY Sequences DEF Ready, Tabled, Scoped
<1>4. Lib \in Seq(Name) /\ DOMAIN Lib = 1..Len(Lib)
  BY LibAssumption, Sequences
<1>5. ASSUME n \in ToSet(Lib) PROVE SymTable_contains(n, 0)
  <2>1. PICK i \in 1..Len(Lib) : Lib[i] = n
    BY <1>4, <1>5 DEF ToSet
  <2>2. i \in DOMAIN entries /\ entries[i].name = n /\ entries[i].scope = 0 /\ entries[i].isActive
    BY <1>3, <2>1 DEF Libraries
  <2>3. i \in Active(n)
    BY <2>2 DEF Active
  <2> QED BY <2>2, <2>3, ContainsIs
<1>6. ASSUME Lawful(entries, frames), n \in ToSet(Lib)
      PROVE  g # 0 /\ entries[g].type = "LIBFUNC"
  BY <1>2, <1>5, <1>6 DEF Lawful
<1>7. ASSUME IsLibrary(n) PROVE n \in ToSet(Lib)
  <2>1. SymTable_contains(n, 0) /\ entries[g].type = "LIBFUNC"
    BY <1>1, <1>7 DEF IsLibrary
  <2>2. g # 0 /\ g \in 1..Len(Lib) /\ entries[g].name = n
    BY <1>2, <1>3, <2>1 DEF Libraries
  <2>3. Lib[g] = n
    BY <1>3, <2>2 DEF Libraries
  <2> QED BY <1>4, <2>2, <2>3 DEF ToSet
<1> QED BY <1>1, <1>5, <1>6, <1>7 DEF IsLibrary

\* es are the entries, or the entries and a new variable.
Stays(es) ==
  \/ es = entries
  \/ \E n \in Name :
       /\ es = SymTable_put(Variable(n))
       /\ ~SymTable_contains(n, current_scope)
       /\ Lawful(entries, frames) => n \notin ToSet(Lib)

\* A variable is put where its name is free.
LEMMA StaysPuts ==
  ASSUME Ready, NEW es, Stays(es)
  PROVE  /\ Puts(entries, es, Here(frames)) /\ Variables(entries, es)
         /\ Lawful(entries, frames) => Lawful(es, frames)
         /\ es \in Seq(Entry) /\ Len(es) \in {Len(entries), Len(entries) + 1}
         /\ \A k \in (Len(entries) + 1)..Len(es) :
              Lawful(entries, frames) => es[k].name \notin ToSet(Lib)
<1>1. /\ entries \in Seq(Entry) /\ Len(entries) \in Nat /\ DOMAIN entries = 1..Len(entries)
      /\ Scoped(entries, frames) /\ current_scope = Here(frames) /\ current_scope \in Nat
  BY Sequences, Around DEF Ready, Tabled, Scoped, Nested
<1>2. CASE es = entries
  BY <1>1, <1>2 DEF Puts, Variables
<1>3. ASSUME NEW n \in Name, es = SymTable_put(Variable(n)),
             ~SymTable_contains(n, current_scope),
             Lawful(entries, frames) => n \notin ToSet(Lib)
      PROVE  /\ Puts(entries, es, Here(frames)) /\ Variables(entries, es)
             /\ Lawful(entries, frames) => Lawful(es, frames)
             /\ es \in Seq(Entry) /\ Len(es) \in {Len(entries), Len(entries) + 1}
             /\ \A k \in (Len(entries) + 1)..Len(es) :
                  Lawful(entries, frames) => es[k].name \notin ToSet(Lib)
  <2> DEFINE m == Len(entries)
  <2>1. PICK e : e = Variable(n)
    OBVIOUS
  <2>2. /\ e \in Entry /\ e.name = n /\ e.scope = current_scope /\ ~e.func_is_open
        /\ e.type # "LIBFUNC" /\ e.isActive
    BY <1>1, <2>1, NamesAssumption
    DEF Variable, create_SymbolTableEntry, SymbolType, Entry
  <2>3. /\ es \in Seq(Entry) /\ Len(es) = m + 1 /\ es[m + 1] = e
        /\ \A k \in 1..m : es[k] = entries[k]
    BY <1>1, <1>3, <2>1, <2>2, AppendProperties DEF SymTable_put
  <2>4. /\ DOMAIN es = 1..(m + 1)
        /\ \A k \in 1..(m + 1) : k \in 1..m \/ k = m + 1
        /\ \A k \in (m + 1)..Len(es) : k = m + 1
    BY <1>1, <2>3, Sequences
  <2>5. ASSUME NEW j \in 1..m, entries[j].isActive, entries[j].scope = current_scope
        PROVE  entries[j].name # n
    BY <1>1, <1>3, <2>5, ContainsIs DEF Active
  <2>6. Puts(entries, es, Here(frames))
    <3>1. ASSUME NEW k \in (m + 1)..Len(es), NEW j \in 1..Len(es),
                 es[j].isActive, es[j].scope = Here(frames), es[j].name = es[k].name
          PROVE  j = k
      <4>1. k = m + 1 /\ es[k] = e
        BY <2>3, <2>4
      <4>2. j \in 1..m => es[j] = entries[j]
        BY <2>3
      <4> QED BY <1>1, <2>2, <2>3, <2>4, <2>5, <3>1, <4>1, <4>2
    <3>2. ASSUME NEW k \in (m + 1)..Len(es) PROVE es[k].scope = Here(frames)
      BY <1>1, <2>2, <2>3, <2>4
    <3> QED BY <1>1, <2>3, <3>1, <3>2 DEF Puts
  <2>7. Variables(entries, es)
    BY <2>2, <2>3, <2>4 DEF Variables
  <2>8. ASSUME Lawful(entries, frames) PROVE Lawful(es, frames)
    <3>1. ASSUME NEW k \in DOMAIN es, es[k].isActive, es[k].name \in ToSet(Lib)
          PROVE  es[k].type = "LIBFUNC"
      <4>1. CASE k \in 1..m
        BY <1>1, <2>3, <2>8, <3>1, <4>1 DEF Lawful
      <4>2. CASE k = m + 1
        BY <1>3, <2>2, <2>3, <2>8, <3>1, <4>2
      <4> QED BY <2>4, <4>1, <4>2
    <3> QED BY <2>8, <3>1 DEF Lawful
  <2>9. \A k \in (m + 1)..Len(es) : Lawful(entries, frames) => es[k].name \notin ToSet(Lib)
    BY <1>3, <2>2, <2>3, <2>4
  <2> QED BY <2>3, <2>6, <2>7, <2>8, <2>9
<1> QED BY <1>2, <1>3 DEF Stays

\* Where a variable is put, its name is not one of the library's.
LEMMA PutStays ==
  ASSUME Ready, NEW n \in Name, ~SymTable_contains(n, current_scope),
         ~SymTable_contains(n, 0)
  PROVE  Stays(SymTable_put(Variable(n)))
BY LibraryIs DEF Stays

-----------------------------------------------------------------------------
(* What is said of a name. *)

\* v is an lvalue that has been read in this scope.
Held(v) == v # NULL /\ v \in Value /\ Kept(v, entries, current_scope)

\* Its fields
LEMMA HeldIs ==
  ASSUME NEW v, Held(v)
  PROVE  /\ v.name \in Name /\ v.only \in BOOLEAN /\ v.at \in Nat
         /\ v.at = 0 => ~v.only
         /\ v.at # 0 => /\ v.at \in Active(v.name)
                        /\ entries[v.at].scope = IF v.only THEN 0 ELSE current_scope
BY DEF Held, Kept, Active

\* What it means is what is found, unless a local variable is taken for ::x.
LEMMA MeantIs ==
  ASSUME Ready, NEW v, Held(v), NEW g, g = SymTable_get(v.name)
  PROVE  /\ v.only => Meant(v) # 0 /\ ~Hidden(Meant(v)) /\ SymTable_contains(v.name, 0)
         /\ ~(v.only /\ \E k \in Active(v.name) : entries[k].scope > 0) =>
              /\ Meant(v) = g
              /\ v.only => g # 0 /\ entries[g].scope = 0
<1>1. /\ v.name \in Name /\ v.only \in BOOLEAN /\ v.at \in Nat
      /\ v.at = 0 => ~v.only
      /\ v.at # 0 => /\ v.at \in Active(v.name)
                     /\ entries[v.at].scope = IF v.only THEN 0 ELSE current_scope
  BY HeldIs
<1>2. /\ Visible(v.name) = g /\ current_scope \in Nat
      /\ g = 0 <=> Active(v.name) = {}
      /\ g # 0 => g \in Active(v.name) /\ entries[g].scope \in 0..current_scope
      /\ SymTable_contains(v.name, current_scope) => g # 0 /\ entries[g].scope = current_scope
  BY <1>1, Bindings
<1>3. \A j, k \in Active(v.name) : entries[j].scope = entries[k].scope => j = k
  <2>1. Scoped(entries, frames)
    BY DEF Ready, Tabled
  <2>2. \A k \in Active(v.name) : k \in DOMAIN entries /\ entries[k].isActive
                                  /\ entries[k].name = v.name
    BY <2>1, ActiveIs
  <2> QED BY <1>1, <2>1, <2>2 DEF Scoped
<1>4. \A k \in Active(v.name) : SymTable_contains(v.name, entries[k].scope)
  BY ContainsIs
<1>5. ASSUME v.only
      PROVE  Meant(v) # 0 /\ ~Hidden(Meant(v)) /\ SymTable_contains(v.name, 0)
  <2>1. v.at # 0 /\ v.at \in Active(v.name) /\ entries[v.at].scope = 0
    BY <1>1, <1>5
  <2>2. Meant(v) = v.at
    BY <2>1 DEF Meant
  <2> QED BY <1>4, <2>1, <2>2 DEF Hidden
<1>6. ASSUME ~(v.only /\ \E k \in Active(v.name) : entries[k].scope > 0)
      PROVE  Meant(v) = g /\ (v.only => g # 0 /\ entries[g].scope = 0)
  <2>1. CASE v.at = 0
    BY <1>1, <1>2, <2>1 DEF Meant
  <2>2. CASE v.at # 0
    <3>1. Meant(v) = v.at /\ v.at \in Active(v.name) /\ g # 0 /\ g \in Active(v.name)
      BY <1>1, <1>2, <2>2 DEF Meant
    <3>2. CASE v.only
      <4>1. entries[v.at].scope = 0 /\ entries[g].scope = 0
        BY <1>1, <1>2, <1>6, <2>2, <3>1, <3>2
      <4> QED BY <1>3, <3>1, <4>1
    <3>3. CASE ~v.only
      <4>1. entries[v.at].scope = current_scope
        BY <1>1, <2>2, <3>3
      <4>2. entries[g].scope = current_scope
        BY <1>2, <1>4, <3>1, <4>1
      <4> QED BY <1>3, <3>1, <3>3, <4>1, <4>2
    <3> QED BY <1>1, <3>2, <3>3
  <2> QED BY <2>1, <2>2
<1> QED BY <1>5, <1>6

\* The same, with what the search for open functions says of it.
LEMMA MeantOpen ==
  ASSUME Ready, Lawful(entries, frames), NEW k \in DOMAIN entries, entries[k].isActive
  PROVE  /\ Hidden(k) <=> entries[k].scope > 0 /\ SymTable_open_func(k, current_scope)
         /\ entries[k].scope = current_scope => ~Hidden(k)
BY HiddenIs DEF Ready, Tabled, Nested, Lawful

\* What a primary expression does, without CASE
LEMMA PrimaryDoes ==
  ASSUME NEW v, NEW only \in BOOLEAN
  PROVE  primary(v, only) =
           IF v = NULL \/ SymTable_contains(v.name, current_scope) THEN Nothing
           ELSE IF current_scope = 0 THEN Put(v)
           ELSE IF Closest(v) = 0 /\ ~only
           THEN IF SymTable_contains(v.name, 0) THEN Nothing ELSE Put(v)
           ELSE IF ~only /\ SymTable_open_func(Closest(v), current_scope) THEN Refused
           ELSE Nothing
BY Zenon DEF primary

\* What a change of a variable does, without CASE
LEMMA InsertDoes ==
  ASSUME NEW v, NEW only \in BOOLEAN
  PROVE  insert_variable(v, only) =
           IF v = NULL THEN Nothing
           ELSE IF SymTable_contains(v.name, current_scope)
           THEN Done(entries,
                     IsFunction(SymTable_get_entry_at_scope(v.name, current_scope)), FALSE)
           ELSE IF current_scope = 0 THEN Put(v)
           ELSE IF Closest(v) = 0 /\ ~only
           THEN IF SymTable_contains(v.name, 0)
                THEN Done(entries, IsFunction(SymTable_get_entry_at_scope(v.name, 0)), FALSE)
                ELSE Put(v)
           ELSE IF ~only /\ SymTable_open_func(Closest(v), current_scope)
           THEN Done(entries, TRUE, v.at # 0)
           ELSE Done(entries, SymTable_get(v.name) # 0 /\ IsFunction(SymTable_get(v.name)),
                     FALSE)
<1>1. CASE v = NULL
  BY <1>1, Zenon DEF insert_variable
<1>2. CASE v # NULL /\ SymTable_contains(v.name, current_scope)
  BY <1>2, Zenon DEF insert_variable
<1>3. CASE v # NULL /\ ~SymTable_contains(v.name, current_scope)
  BY <1>3, Zenon DEF insert_variable
<1> QED BY <1>1, <1>2, <1>3, Zenon

\* What a call does, without CASE
LEMMA CallDoes ==
  ASSUME NEW v, v # NULL, NEW curr, curr = SymTable_get_closest_scope(v.name, current_scope)
  PROVE  call(v) =
           IF curr = 0
           THEN IF SymTable_get_entry_at_scope(v.name, 0) = 0 THEN Put(v) ELSE Nothing
           ELSE Done(entries, ~IsFunction(curr) /\ SymTable_open_func(curr, current_scope),
                     FALSE)
BY Zenon DEF call

\* Reading an lvalue finds it, or tells rightly that it is not there.
LEMMA LvalueIs ==
  ASSUME Ready, global_only \in BOOLEAN,
         NEW how \in {"ID", "LOCAL", "DOUBLE_COLON"}, NEW n \in Name,
         NEW read, read = lvalue(how, n)
  PROVE  /\ Stays(read.es) /\ read.flag \in BOOLEAN /\ read.error \in BOOLEAN
         /\ BreaksName(how, n) \in BOOLEAN
         /\ read.value \in Value
         /\ read.value # NULL =>
              Held(read.value) /\ read.es = entries /\ read.flag = read.value.only
         /\ Lawful(entries, frames) => (read.error <=> BreaksName(how, n))
<1>1. PICK g : g = SymTable_get(n)
  OBVIOUS
<1>2. /\ current_scope \in Nat
      /\ g # 0 => g \in Active(n) /\ entries[g].scope \in 0..current_scope
      /\ SymTable_contains(n, current_scope) <=> g # 0 /\ entries[g].scope = current_scope
  BY <1>1, Bindings
<1>3. n \in STRING /\ n # ""
  BY NamesAssumption
<1>4. BreaksName(how, n) \in BOOLEAN /\ Stays(entries)
  BY DEF BreaksName, Stays
<1>5. NULL \in Value /\ NULL.name = ""
  BY DEF NULL, Value
<1>6. ASSUME NEW k \in Nat, NEW only \in BOOLEAN,
             k = 0 => ~only,
             k # 0 => k \in Active(n) /\ entries[k].scope = IF only THEN 0 ELSE current_scope
      PROVE  Held(Old(n, k, only)) /\ Old(n, k, only).only = only
  <2>1. PICK v : v = Old(n, k, only)
    OBVIOUS
  <2>2. v.name = n /\ v.at = k /\ v.only = only /\ v \in Value
    BY <1>3, <2>1 DEF Old, Value
  <2>3. v # NULL
    BY <1>3, <1>5, <2>2
  <2>4. k # 0 => k \in DOMAIN entries /\ entries[k].isActive /\ entries[k].name = n
    BY <1>6 DEF Active
  <2> QED BY <1>6, <2>1, <2>2, <2>3, <2>4 DEF Held, Kept
<1>7. New(n) = Old(n, 0, FALSE)
  BY DEF New, Old
<1>8. CASE how = "ID"
  <2>1. read = Read(New(n), entries, FALSE, FALSE)
    BY <1>8, Zenon DEF lvalue
  <2>2. read.value = New(n) /\ read.es = entries /\ read.flag = FALSE /\ read.error = FALSE
    BY <2>1 DEF Read
  <2>3. Held(New(n)) /\ New(n).only = FALSE
    BY <1>6, <1>7
  <2>4. ~BreaksName(how, n)
    BY <1>8 DEF BreaksName
  <2> QED BY <1>4, <2>2, <2>3, <2>4 DEF Held
<1>9. CASE how = "LOCAL"
  <2>1. read = IF SymTable_contains(n, current_scope)
               THEN Read(Old(n, g, FALSE), entries, FALSE, FALSE)
               ELSE IF IsLibrary(n) THEN Read(NULL, entries, FALSE, TRUE)
               ELSE Read(NULL, SymTable_put(Variable(n)), FALSE, FALSE)
    BY <1>1, <1>9, Zenon DEF lvalue
  <2>2. BreaksName(how, n) <=> ~SymTable_contains(n, current_scope) /\ n \in ToSet(Lib)
    BY <1>9 DEF BreaksName
  <2>3. CASE SymTable_contains(n, current_scope)
    <3>1. /\ read.value = Old(n, g, FALSE) /\ read.es = entries /\ read.flag = FALSE
          /\ read.error = FALSE
      BY <2>1, <2>3 DEF Read
    <3>2. g \in Nat
      BY <1>2, <2>3, ActiveIs DEF Ready, Tabled
    <3>3. Held(Old(n, g, FALSE)) /\ Old(n, g, FALSE).only = FALSE
      BY <1>2, <1>6, <2>3, <3>2
    <3> QED BY <1>4, <2>2, <2>3, <3>1, <3>3 DEF Held
  <2>4. CASE ~SymTable_contains(n, current_scope) /\ IsLibrary(n)
    <3>1. read.value = NULL /\ read.es = entries /\ read.flag = FALSE /\ read.error = TRUE
      BY <2>1, <2>4 DEF Read
    <3>2. Lawful(entries, frames) => n \in ToSet(Lib)
      BY <2>4, LibraryIs
    <3> QED BY <1>4, <1>5, <2>2, <2>4, <3>1, <3>2
  <2>5. CASE ~SymTable_contains(n, current_scope) /\ ~IsLibrary(n)
    <3>1. /\ read.value = NULL /\ read.es = SymTable_put(Variable(n)) /\ read.flag = FALSE
          /\ read.error = FALSE
      BY <2>1, <2>5 DEF Read
    <3>2. Lawful(entries, frames) => n \notin ToSet(Lib)
      BY <2>5, LibraryIs
    <3>3. Stays(SymTable_put(Variable(n)))
      BY <2>5, <3>2 DEF Stays
    <3> QED BY <1>4, <1>5, <2>2, <2>5, <3>1, <3>2, <3>3
  <2> QED BY <2>3, <2>4, <2>5
<1>10. CASE how = "DOUBLE_COLON"
  <2>1. read = IF SymTable_contains(n, 0)
               THEN Read(Old(n, SymTable_get_entry_at_scope(n, 0), TRUE), entries, TRUE, FALSE)
               ELSE Read(NULL, entries, global_only, TRUE)
    BY <1>10, Zenon DEF lvalue
  <2>2. BreaksName(how, n) <=> ~SymTable_contains(n, 0)
    BY <1>10 DEF BreaksName
  <2>3. CASE SymTable_contains(n, 0)
    <3>1. PICK k \in Active(n) : entries[k].scope = 0
      BY <2>3, ContainsIs
    <3>2. Scoped(entries, frames)
      BY DEF Ready, Tabled
    <3>3. SymTable_get_entry_at_scope(n, 0) = k /\ k \in Nat /\ k # 0
      BY <3>1, <3>2, AtScopeIs, ActiveIs
    <3>4. /\ read.value = Old(n, k, TRUE) /\ read.es = entries /\ read.flag = TRUE
          /\ read.error = FALSE
      <4>1. read = Read(Old(n, k, TRUE), entries, TRUE, FALSE)
        BY <2>1, <2>3, <3>3, Zenon
      <4> QED BY <4>1 DEF Read
    <3>5. Held(Old(n, k, TRUE)) /\ Old(n, k, TRUE).only = TRUE
      BY <1>6, <3>1, <3>3
    <3> QED BY <1>4, <2>2, <2>3, <3>4, <3>5 DEF Held
  <2>4. CASE ~SymTable_contains(n, 0)
    <3>1. /\ read.value = NULL /\ read.es = entries /\ read.flag = global_only
          /\ read.error = TRUE
      BY <2>1, <2>4 DEF Read
    <3> QED BY <1>4, <1>5, <2>2, <2>4, <3>1
  <2> QED BY <2>3, <2>4
<1> QED BY <1>8, <1>9, <1>10

\* Where a variable is put, it is one whose name is free.
LEMMA PutIs ==
  ASSUME Ready, NEW v, Held(v), ~SymTable_contains(v.name, current_scope),
         current_scope = 0 \/ ~SymTable_contains(v.name, 0)
  PROVE  /\ Stays(Put(v).es) /\ Put(v).error = FALSE /\ Put(v).free = FALSE
<1>1. v.name \in Name
  BY HeldIs
<1>2. Stays(SymTable_put(Variable(v.name)))
  BY <1>1, PutStays
<1>3. /\ Put(v).es = SymTable_put(Variable(v.name)) /\ Put(v).error = FALSE
      /\ Put(v).free = FALSE
  BY DEF Put, Done
<1> QED BY <1>2, <1>3

\* What the other outcomes are
LEMMA Outcomes ==
  /\ Stays(Nothing.es) /\ Nothing.error = FALSE /\ Nothing.free = FALSE
  /\ Stays(Refused.es) /\ Refused.error = TRUE /\ Refused.free = FALSE
  /\ \A error, free \in BOOLEAN : /\ Stays(Done(entries, error, free).es)
                                  /\ Done(entries, error, free).error = error
                                  /\ Done(entries, error, free).free = free
BY DEF Nothing, Refused, Done, Stays

\* A use is refused if and only if it breaks the rule; the type of an operand is
\* known unless it is confusing.
LEMMA PrimaryIs ==
  ASSUME Ready, NEW v, Held(v), NEW done, done = primary(v, v.only)
  PROVE  /\ Stays(done.es) /\ done.error \in BOOLEAN
         /\ Lawful(entries, frames) =>
              /\ done.error <=> BreaksUse(v)
              /\ ~ConfusingOperand(v, v.only) =>
                   (done.error \/ primary_is_function(v, v.only) <=> BreaksOperand(v))
<1>1. PICK g : g = SymTable_get(v.name)
  OBVIOUS
<1>2. v.name \in Name /\ v.only \in BOOLEAN /\ v # NULL
  BY HeldIs DEF Held
<1>3. /\ current_scope \in Nat
      /\ g # 0 => /\ g \in DOMAIN entries /\ entries[g].isActive
                  /\ entries[g].scope \in 0..current_scope
      /\ SymTable_contains(v.name, current_scope) <=> g # 0 /\ entries[g].scope = current_scope
      /\ ~SymTable_contains(v.name, current_scope) =>
           SymTable_get_closest_scope(v.name, current_scope - 1)
             = IF g # 0 /\ entries[g].scope > 0 THEN g ELSE 0
      /\ g = 0 => ~SymTable_contains(v.name, 0)
      /\ g # 0 /\ entries[g].scope = 0 => SymTable_contains(v.name, 0)
  BY <1>1, <1>2, Bindings
<1>4. ~SymTable_contains(v.name, current_scope) =>
        Closest(v) = IF g # 0 /\ entries[g].scope > 0 THEN g ELSE 0
  BY <1>3 DEF Closest
<1>5. /\ v.only => Meant(v) # 0 /\ ~Hidden(Meant(v)) /\ SymTable_contains(v.name, 0)
      /\ ~(v.only /\ \E k \in Active(v.name) : entries[k].scope > 0) => Meant(v) = g
  BY <1>1, MeantIs
<1>6. done = IF SymTable_contains(v.name, current_scope) THEN Nothing
             ELSE IF current_scope = 0 THEN Put(v)
             ELSE IF Closest(v) = 0 /\ ~v.only
             THEN IF SymTable_contains(v.name, 0) THEN Nothing ELSE Put(v)
             ELSE IF ~v.only /\ SymTable_open_func(Closest(v), current_scope) THEN Refused
             ELSE Nothing
  BY <1>2, PrimaryDoes, Zenon
<1>7. Lawful(entries, frames) /\ g # 0 =>
        /\ Hidden(g) <=> entries[g].scope > 0 /\ SymTable_open_func(g, current_scope)
        /\ entries[g].scope = current_scope => ~Hidden(g)
  BY <1>3, MeantOpen
<1>8. BreaksUse(v) <=> Meant(v) # 0 /\ Hidden(Meant(v))
  BY DEF BreaksUse
<1>9. /\ Stays(done.es) /\ done.error \in BOOLEAN
      /\ Lawful(entries, frames) => (done.error <=> BreaksUse(v))
  <2>1. CASE SymTable_contains(v.name, current_scope)
    <3>1. Stays(done.es) /\ done.error = FALSE
      BY <1>6, <2>1, Outcomes
    <3>2. Lawful(entries, frames) => ~BreaksUse(v)
      BY <1>2, <1>3, <1>5, <1>7, <1>8, <2>1
    <3> QED BY <3>1, <3>2
  <2>2. CASE ~SymTable_contains(v.name, current_scope) /\ current_scope = 0
    <3>1. done = Put(v)
      BY <1>6, <2>2
    <3>2. g = 0 /\ ~v.only
      BY <1>2, <1>3, <1>5, <2>2
    <3> QED BY <1>5, <1>8, <2>2, <3>1, <3>2, PutIs
  <2>3. CASE /\ ~SymTable_contains(v.name, current_scope) /\ current_scope # 0
             /\ Closest(v) = 0 /\ ~v.only
    <3>1. Meant(v) = g /\ (g # 0 => entries[g].scope = 0)
      BY <1>3, <1>4, <1>5, <2>3
    <3>2. Lawful(entries, frames) => ~BreaksUse(v)
      BY <1>7, <1>8, <3>1
    <3>3. done = IF SymTable_contains(v.name, 0) THEN Nothing ELSE Put(v)
      BY <1>6, <2>3
    <3>4. Stays(done.es) /\ done.error = FALSE
      BY <2>3, <3>3, Outcomes, PutIs
    <3> QED BY <3>2, <3>4
  <2>4. CASE ~SymTable_contains(v.name, current_scope) /\ current_scope # 0 /\ v.only
    <3>1. done = Nothing
      BY <1>6, <2>4
    <3> QED BY <1>5, <1>8, <2>4, <3>1, Outcomes
  <2>5. CASE /\ ~SymTable_contains(v.name, current_scope) /\ current_scope # 0
             /\ ~v.only /\ Closest(v) # 0
    <3>1. Closest(v) = g /\ g # 0 /\ entries[g].scope > 0 /\ Meant(v) = g
      BY <1>4, <1>5, <2>5
    <3>2. done = IF SymTable_open_func(g, current_scope) THEN Refused ELSE Nothing
      BY <1>6, <2>5, <3>1
    <3>3. Stays(done.es) /\ (done.error <=> SymTable_open_func(g, current_scope))
          /\ done.error \in BOOLEAN
      BY <3>2, Outcomes
    <3> QED BY <1>7, <1>8, <3>1, <3>3
  <2> QED BY <1>2, <2>1, <2>2, <2>3, <2>4, <2>5
<1>10. ASSUME Lawful(entries, frames), ~ConfusingOperand(v, v.only)
       PROVE  done.error \/ primary_is_function(v, v.only) <=> BreaksOperand(v)
  <2>1. ~(v.only /\ \E k \in Active(v.name) : entries[k].scope > 0)
    BY <1>2, <1>10 DEF ConfusingOperand, Confusing
  <2>2. Meant(v) = g
    BY <1>5, <2>1
  <2>3. BreaksOperand(v) /\ ~Hidden(Meant(v)) => primary_is_function(v, v.only)
    BY <1>2, <1>10 DEF ConfusingOperand
  <2>4. primary_is_function(v, v.only) => g # 0 /\ IsFunction(g)
    BY <1>1 DEF primary_is_function
  <2> QED BY <1>8, <1>9, <1>10, <2>2, <2>3, <2>4 DEF BreaksOperand
<1> QED BY <1>9, <1>10

\* A change is refused if and only if it breaks the rule, unless it is confusing;
\* then an entry of the table is not freed.
LEMMA InsertIs ==
  ASSUME Ready, NEW v, Held(v), NEW only \in BOOLEAN, ~Confusing(v, only),
         NEW done, done = insert_variable(v, only)
  PROVE  /\ Stays(done.es) /\ done.free = FALSE /\ done.error \in BOOLEAN
         /\ Lawful(entries, frames) => (done.error <=> BreaksChange(v))
<1>1. PICK g : g = SymTable_get(v.name)
  OBVIOUS
<1>2. /\ v.name \in Name /\ v.only \in BOOLEAN /\ v # NULL /\ only = v.only
      /\ v.at # 0 /\ ~v.only =>
           v.at \in Active(v.name) /\ entries[v.at].scope = current_scope
      /\ ~(v.only /\ \E k \in Active(v.name) : entries[k].scope > 0)
  BY HeldIs DEF Held, Confusing
<1>3. /\ current_scope \in Nat
      /\ g # 0 => /\ g \in DOMAIN entries /\ entries[g].isActive
                  /\ entries[g].scope \in 0..current_scope
      /\ SymTable_contains(v.name, current_scope) <=> g # 0 /\ entries[g].scope = current_scope
      /\ SymTable_contains(v.name, current_scope)
           => SymTable_get_entry_at_scope(v.name, current_scope) = g
      /\ ~SymTable_contains(v.name, current_scope) =>
           SymTable_get_closest_scope(v.name, current_scope - 1)
             = IF g # 0 /\ entries[g].scope > 0 THEN g ELSE 0
      /\ g = 0 => ~SymTable_contains(v.name, 0)
      /\ g # 0 /\ entries[g].scope = 0
           => SymTable_contains(v.name, 0) /\ SymTable_get_entry_at_scope(v.name, 0) = g
  BY <1>1, <1>2, Bindings
<1>4. ~SymTable_contains(v.name, current_scope) =>
        /\ Closest(v) = IF g # 0 /\ entries[g].scope > 0 THEN g ELSE 0
        /\ v.at # 0 => v.only
  <2>1. v.at # 0 /\ ~v.only => SymTable_contains(v.name, current_scope)
    BY <1>2, ContainsIs
  <2> QED BY <1>2, <1>3, <2>1 DEF Closest
<1>5. Meant(v) = g /\ (v.only => g # 0 /\ entries[g].scope = 0)
  BY <1>1, <1>2, MeantIs
<1>6. done = IF SymTable_contains(v.name, current_scope)
             THEN Done(entries,
                       IsFunction(SymTable_get_entry_at_scope(v.name, current_scope)), FALSE)
             ELSE IF current_scope = 0 THEN Put(v)
             ELSE IF Closest(v) = 0 /\ ~only
             THEN IF SymTable_contains(v.name, 0)
                  THEN Done(entries, IsFunction(SymTable_get_entry_at_scope(v.name, 0)),
                            FALSE)
                  ELSE Put(v)
             ELSE IF ~only /\ SymTable_open_func(Closest(v), current_scope)
             THEN Done(entries, TRUE, v.at # 0)
             ELSE Done(entries, g # 0 /\ IsFunction(g), FALSE)
  BY <1>1, <1>2, InsertDoes, Zenon
<1>7. Lawful(entries, frames) /\ g # 0 =>
        /\ Hidden(g) <=> entries[g].scope > 0 /\ SymTable_open_func(g, current_scope)
        /\ entries[g].scope = current_scope => ~Hidden(g)
  BY <1>3, MeantOpen
<1>8. BreaksChange(v) <=> g # 0 /\ (Hidden(g) \/ IsFunction(g))
  BY <1>5 DEF BreaksChange
<1>9. IsFunction(g) \in BOOLEAN /\ (g # 0 /\ IsFunction(g)) \in BOOLEAN
  BY DEF IsFunction
<1>10. CASE SymTable_contains(v.name, current_scope)
  <2>1. done = Done(entries, IsFunction(g), FALSE)
    BY <1>3, <1>6, <1>10, Zenon
  <2>2. Stays(done.es) /\ done.free = FALSE /\ (done.error <=> IsFunction(g))
        /\ done.error \in BOOLEAN
    BY <1>9, <2>1, Outcomes
  <2> QED BY <1>3, <1>7, <1>8, <1>10, <2>2
<1>11. CASE ~SymTable_contains(v.name, current_scope) /\ current_scope = 0
  <2>1. done = Put(v)
    BY <1>6, <1>11, Zenon
  <2>2. g = 0
    BY <1>3, <1>11
  <2> QED BY <1>8, <1>11, <2>1, <2>2, PutIs
<1>12. CASE /\ ~SymTable_contains(v.name, current_scope) /\ current_scope # 0
            /\ Closest(v) = 0 /\ ~only
  <2>1. done = IF SymTable_contains(v.name, 0)
               THEN Done(entries, IsFunction(SymTable_get_entry_at_scope(v.name, 0)), FALSE)
               ELSE Put(v)
    BY <1>6, <1>12, Zenon
  <2>2. g # 0 => entries[g].scope = 0
    BY <1>3, <1>4, <1>12
  <2>3. CASE g = 0
    <3>1. done = Put(v) /\ ~SymTable_contains(v.name, 0)
      BY <1>3, <2>1, <2>3, Zenon
    <3> QED BY <1>8, <1>12, <2>3, <3>1, PutIs
  <2>4. CASE g # 0
    <3>1. done = Done(entries, IsFunction(g), FALSE)
      BY <1>3, <2>1, <2>2, <2>4, Zenon
    <3>2. Stays(done.es) /\ done.free = FALSE /\ (done.error <=> IsFunction(g))
          /\ done.error \in BOOLEAN
      BY <1>9, <3>1, Outcomes
    <3> QED BY <1>7, <1>8, <2>2, <2>4, <3>2
  <2> QED BY <2>3, <2>4
<1>13. CASE ~SymTable_contains(v.name, current_scope) /\ current_scope # 0 /\ only
  <2>1. done = Done(entries, g # 0 /\ IsFunction(g), FALSE)
    BY <1>6, <1>13, Zenon
  <2>2. Stays(done.es) /\ done.free = FALSE /\ (done.error <=> g # 0 /\ IsFunction(g))
        /\ done.error \in BOOLEAN
    BY <1>9, <2>1, Outcomes
  <2>3. g # 0 /\ entries[g].scope = 0
    BY <1>2, <1>5, <1>13
  <2>4. Lawful(entries, frames) => ~Hidden(g)
    BY <1>7, <2>3
  <2> QED BY <1>8, <2>2, <2>4
<1>14. CASE /\ ~SymTable_contains(v.name, current_scope) /\ current_scope # 0
            /\ Closest(v) # 0 /\ ~only
  <2>1. Closest(v) = g /\ g # 0 /\ entries[g].scope > 0 /\ v.at = 0
    BY <1>2, <1>4, <1>14
  <2>2. CASE SymTable_open_func(g, current_scope)
    <3>1. done = Done(entries, TRUE, v.at # 0)
      BY <1>6, <1>14, <2>1, <2>2, Zenon
    <3>2. Stays(done.es) /\ done.free = (v.at # 0) /\ done.error = TRUE
      BY <3>1, Outcomes
    <3> QED BY <1>7, <1>8, <2>1, <2>2, <3>2
  <2>3. CASE ~SymTable_open_func(g, current_scope)
    <3>1. done = Done(entries, g # 0 /\ IsFunction(g), FALSE)
      BY <1>6, <1>14, <2>1, <2>3, Zenon
    <3>2. Stays(done.es) /\ done.free = FALSE /\ (done.error <=> g # 0 /\ IsFunction(g))
          /\ done.error \in BOOLEAN
      BY <1>9, <3>1, Outcomes
    <3> QED BY <1>7, <1>8, <2>1, <2>3, <3>2
  <2> QED BY <2>2, <2>3
<1> QED BY <1>10, <1>11, <1>12, <1>13, <1>14

\* A call is refused if and only if it breaks the rule, unless it is confusing.
LEMMA CallIs ==
  ASSUME Ready, NEW v, Held(v), ~Confusing(v, v.only), NEW done, done = call(v)
  PROVE  /\ Stays(done.es) /\ done.error \in BOOLEAN
         /\ Lawful(entries, frames) => (done.error <=> BreaksCall(v))
<1>1. PICK g : g = SymTable_get(v.name)
  OBVIOUS
<1>2. /\ v.name \in Name /\ v.only \in BOOLEAN /\ v # NULL
      /\ ~(v.only /\ \E k \in Active(v.name) : entries[k].scope > 0)
  BY HeldIs DEF Held, Confusing
<1>3. PICK curr : curr = SymTable_get_closest_scope(v.name, current_scope)
  OBVIOUS
<1>4. /\ current_scope \in Nat
      /\ g # 0 => /\ g \in DOMAIN entries /\ entries[g].isActive
                  /\ entries[g].scope \in 0..current_scope
      /\ SymTable_contains(v.name, current_scope) <=> g # 0 /\ entries[g].scope = current_scope
      /\ curr = IF g # 0 /\ entries[g].scope > 0 THEN g ELSE 0
      /\ g = 0 => ~SymTable_contains(v.name, 0)
      /\ g # 0 /\ entries[g].scope = 0 => SymTable_contains(v.name, 0)
      /\ SymTable_contains(v.name, 0) <=> SymTable_get_entry_at_scope(v.name, 0) # 0
  BY <1>1, <1>2, <1>3, Bindings
<1>5. Meant(v) = g
  BY <1>1, <1>2, MeantIs
<1>6. done = IF curr = 0
             THEN IF SymTable_get_entry_at_scope(v.name, 0) = 0 THEN Put(v) ELSE Nothing
             ELSE Done(entries, ~IsFunction(curr) /\ SymTable_open_func(curr, current_scope),
                       FALSE)
  BY <1>2, <1>3, CallDoes, Zenon
<1>7. Lawful(entries, frames) /\ g # 0 =>
        (Hidden(g) <=> entries[g].scope > 0 /\ SymTable_open_func(g, current_scope))
  BY <1>4, MeantOpen
<1>8. BreaksCall(v) <=> g # 0 /\ Hidden(g) /\ ~IsFunction(g)
  BY <1>5 DEF BreaksCall
<1>9. (~IsFunction(curr) /\ SymTable_open_func(curr, current_scope)) \in BOOLEAN
  BY DEF IsFunction, SymTable_open_func
<1>10. CASE curr = 0
  <2>1. g # 0 => entries[g].scope = 0
    BY <1>4, <1>10
  <2>2. CASE g = 0
    <3>1. done = Put(v) /\ ~SymTable_contains(v.name, 0)
          /\ ~SymTable_contains(v.name, current_scope)
      BY <1>4, <1>6, <1>10, <2>2
    <3> QED BY <1>8, <2>2, <3>1, PutIs
  <2>3. CASE g # 0
    <3>1. done = Nothing
      BY <1>4, <1>6, <1>10, <2>1, <2>3
    <3>2. Lawful(entries, frames) => ~BreaksCall(v)
      BY <1>7, <1>8, <2>1, <2>3
    <3>3. Stays(done.es) /\ done.error = FALSE
      BY <3>1, Outcomes
    <3> QED BY <3>2, <3>3
  <2> QED BY <2>2, <2>3
<1>11. CASE curr # 0
  <2>1. curr = g /\ g # 0 /\ entries[g].scope > 0
    BY <1>4, <1>11
  <2>2. done = Done(entries, ~IsFunction(curr) /\ SymTable_open_func(curr, current_scope),
                    FALSE)
    BY <1>6, <1>11, Zenon
  <2>3. Stays(done.es) /\ done.error \in BOOLEAN
        /\ (done.error <=> ~IsFunction(curr) /\ SymTable_open_func(curr, current_scope))
    BY <1>9, <2>2, Outcomes
  <2> QED BY <1>7, <1>8, <2>1, <2>3
<1> QED BY <1>10, <1>11

\* Whatever is confused, a variable is put where its name is free.
LEMMA InsertAny ==
  ASSUME Ready, NEW v, v = NULL \/ Held(v), NEW only \in BOOLEAN,
         NEW done, done = insert_variable(v, only)
  PROVE  /\ Stays(done.es) /\ done.free \in BOOLEAN /\ done.error \in BOOLEAN
         /\ v = NULL => done.free = FALSE /\ done.error = FALSE
<1>1. CASE v = NULL
  <2>1. done = Nothing
    BY <1>1, InsertDoes, Zenon
  <2> QED BY <2>1, Outcomes
<1>2. CASE v # NULL /\ SymTable_contains(v.name, current_scope)
  <2>1. done = Done(entries,
                    IsFunction(SymTable_get_entry_at_scope(v.name, current_scope)), FALSE)
    BY <1>2, InsertDoes, Zenon
  <2>2. IsFunction(SymTable_get_entry_at_scope(v.name, current_scope)) \in BOOLEAN
    BY DEF IsFunction
  <2> QED BY <1>2, <2>1, <2>2, Outcomes
<1>3. CASE v # NULL /\ ~SymTable_contains(v.name, current_scope)
  <2>1. done = IF current_scope = 0 THEN Put(v)
               ELSE IF Closest(v) = 0 /\ ~only
               THEN IF SymTable_contains(v.name, 0)
                    THEN Done(entries, IsFunction(SymTable_get_entry_at_scope(v.name, 0)),
                              FALSE)
                    ELSE Put(v)
               ELSE IF ~only /\ SymTable_open_func(Closest(v), current_scope)
               THEN Done(entries, TRUE, v.at # 0)
               ELSE Done(entries, SymTable_get(v.name) # 0 /\ IsFunction(SymTable_get(v.name)),
                         FALSE)
    BY <1>3, InsertDoes, Zenon
  <2>2. /\ IsFunction(SymTable_get_entry_at_scope(v.name, 0)) \in BOOLEAN
        /\ (SymTable_get(v.name) # 0 /\ IsFunction(SymTable_get(v.name))) \in BOOLEAN
        /\ (v.at # 0) \in BOOLEAN
    BY DEF IsFunction
  <2>3. CASE current_scope = 0 \/ (Closest(v) = 0 /\ ~only /\ ~SymTable_contains(v.name, 0))
    <3>1. done = Put(v)
      BY <2>1, <2>3, Zenon
    <3>2. Held(v)
      BY <1>3
    <3> QED BY <1>3, <2>3, <3>1, <3>2, PutIs
  <2>4. CASE ~(\/ current_scope = 0
               \/ Closest(v) = 0 /\ ~only /\ ~SymTable_contains(v.name, 0))
    <3>1. \E error, free \in BOOLEAN : done = Done(entries, error, free)
      BY <2>1, <2>2, <2>4, Zenon
    <3>2. PICK error \in BOOLEAN, free \in BOOLEAN : done = Done(entries, error, free)
      BY <3>1, Zenon
    <3> QED BY <1>3, <3>2, Outcomes
  <2> QED BY <2>3, <2>4
<1> QED BY <1>1, <1>2, <1>3

\* So where it is called.
LEMMA CallAny ==
  ASSUME Ready, NEW v, v = NULL \/ Held(v), NEW done, done = call(v)
  PROVE  /\ Stays(done.es) /\ done.error \in BOOLEAN
         /\ v = NULL => done.error = FALSE
<1>1. CASE v = NULL
  <2>1. done = Nothing
    BY <1>1, Zenon DEF call
  <2> QED BY <2>1, Outcomes
<1>2. CASE v # NULL
  <2>1. PICK curr : curr = SymTable_get_closest_scope(v.name, current_scope)
    OBVIOUS
  <2>2. done = IF curr = 0
               THEN IF SymTable_get_entry_at_scope(v.name, 0) = 0 THEN Put(v) ELSE Nothing
               ELSE Done(entries,
                         ~IsFunction(curr) /\ SymTable_open_func(curr, current_scope), FALSE)
    BY <1>2, <2>1, CallDoes, Zenon
  <2>3. (~IsFunction(curr) /\ SymTable_open_func(curr, current_scope)) \in BOOLEAN
    BY DEF IsFunction, SymTable_open_func
  <2>4. CASE curr # 0
    <3>1. done = Done(entries, ~IsFunction(curr) /\ SymTable_open_func(curr, current_scope),
                      FALSE)
      BY <2>2, <2>4, Zenon
    <3> QED BY <1>2, <2>3, <3>1, Outcomes
  <2>5. CASE curr = 0 /\ SymTable_get_entry_at_scope(v.name, 0) # 0
    <3>1. done = Nothing
      BY <2>2, <2>5, Zenon
    <3> QED BY <1>2, <3>1, Outcomes
  <2>6. CASE curr = 0 /\ SymTable_get_entry_at_scope(v.name, 0) = 0
    <3>1. done = Put(v) /\ Held(v)
      BY <1>2, <2>2, <2>6, Zenon
    <3>2. PICK g : g = SymTable_get(v.name)
      OBVIOUS
    <3>3. v.name \in Name
      BY <3>1, HeldIs
    <3>4. /\ current_scope \in Nat
          /\ g # 0 => entries[g].scope \in 0..current_scope
          /\ SymTable_contains(v.name, current_scope)
               <=> g # 0 /\ entries[g].scope = current_scope
          /\ curr = IF g # 0 /\ entries[g].scope > 0 THEN g ELSE 0
          /\ g # 0 /\ entries[g].scope = 0 => SymTable_contains(v.name, 0)
          /\ SymTable_contains(v.name, 0) <=> SymTable_get_entry_at_scope(v.name, 0) # 0
      BY <2>1, <3>2, <3>3, Bindings
    <3>5. ~SymTable_contains(v.name, current_scope) /\ ~SymTable_contains(v.name, 0)
      BY <2>6, <3>4
    <3> QED BY <1>2, <3>1, <3>5, PutIs
  <2> QED BY <2>4, <2>5, <2>6
<1> QED BY <1>1, <1>2

-----------------------------------------------------------------------------
(* The steps *)

\* A step keeps the invariant that keeps the relation of entries, frames and
\* stack, and whose verdict is right where the rules have been kept so far.
LEMMA Follows ==
  ASSUME Inv, ~confused, ~freed, NEW e \in BOOLEAN, NEW w \in BOOLEAN,
         ERROR_FLAG' = (ERROR_FLAG \/ e), broken' = (broken \/ w),
         confused' \in BOOLEAN, freed' \in BOOLEAN, global_only' \in BOOLEAN,
         Tabled(entries', frames'), Tracks(block_stack', frames'),
         Numbered(frames', nameless_func_count'), current_scope' = Here(frames'),
         ~confused' => ~freed',
         Lawful(entries, frames) /\ ~confused' =>
           /\ e <=> w
           /\ ~e => Lawful(entries', frames')
  PROVE  Inv'
<1>1. Flags /\ VerdictRight /\ (~confused /\ ~(ERROR_FLAG /\ broken) => Lawful(entries, frames))
  BY DEF Inv
<1>2. ERROR_FLAG \in BOOLEAN /\ broken \in BOOLEAN /\ ERROR_FLAG = broken
  BY <1>1 DEF Flags, VerdictRight
<1>3. Flags'
  BY <1>2 DEF Flags
<1>4. VerdictRight'
  <2>1. CASE broken
    BY <1>2, <2>1 DEF VerdictRight
  <2>2. CASE ~broken
    BY <1>1, <1>2, <2>2 DEF VerdictRight
  <2> QED BY <2>1, <2>2
<1>5. ASSUME ~confused', ~(ERROR_FLAG' /\ broken') PROVE Lawful(entries', frames')
  <2>1. ~ERROR_FLAG /\ ~broken
    BY <1>2, <1>5
  <2>2. Lawful(entries, frames)
    BY <1>1, <2>1
  <2>3. ~e
    BY <1>5, <2>2
  <2> QED BY <1>5, <2>2, <2>3
<1> QED BY <1>3, <1>4, <1>5 DEF Inv, Tabled

\* What the invariant is for a step
LEMMA Holds ==
  ASSUME Inv
  PROVE  /\ Ready /\ Flags /\ Tracks(block_stack, frames)
         /\ Numbered(frames, nameless_func_count)
         /\ Tabled(entries, frames) /\ current_scope = Here(frames)
         /\ frames \in Seq(FrameType) /\ current_scope \in Nat
         /\ entries \in Seq(Entry) /\ Len(entries) \in Nat /\ DOMAIN entries = 1..Len(entries)
<1>1. Ready /\ Nested(entries, frames) /\ Scoped(entries, frames)
  BY DEF Inv, Ready, Tabled
<1>2. frames \in Seq(FrameType) /\ entries \in Seq(Entry)
  BY <1>1 DEF Nested, Scoped
<1> QED BY <1>1, <1>2, Around, Sequences DEF Inv, Ready

\* Variables are put while the same is being read.
LEMMA StaysTabled ==
  ASSUME Inv, NEW es, Stays(es)
  PROVE  /\ Tabled(es, frames)
         /\ Lawful(entries, frames) => Lawful(es, frames)
BY Holds, StaysPuts, TabledPut DEF Ready

\* A step that changes nothing but the entries, and the flags
LEMMA InPlace ==
  ASSUME Inv, ~confused, ~freed, NEW e \in BOOLEAN, NEW w \in BOOLEAN,
         ERROR_FLAG' = (ERROR_FLAG \/ e), broken' = (broken \/ w),
         confused' \in BOOLEAN, freed' \in BOOLEAN, global_only' \in BOOLEAN,
         Stays(entries'),
         UNCHANGED <<current_scope, nameless_func_count, block_stack, frames>>,
         ~confused' => ~freed',
         Lawful(entries, frames) /\ ~confused' => (e <=> w)
  PROVE  Inv'
<1>1. /\ Tabled(entries', frames)
      /\ Lawful(entries, frames) => Lawful(entries', frames)
  BY StaysTabled
<1>2. /\ Tracks(block_stack, frames) /\ Numbered(frames, nameless_func_count)
      /\ current_scope = Here(frames)
  BY Holds
<1> QED BY <1>1, <1>2, Follows

\* An lvalue is used.
LEMMA UseVariableStep ==
  ASSUME Inv, ~confused, ~freed,
         NEW how \in {"ID", "LOCAL", "DOUBLE_COLON"}, NEW n \in Name,
         NEW operand \in BOOLEAN, UseVariable(how, n, operand)
  PROVE  Inv'
<1>1. PICK read : read = lvalue(how, n)
  OBVIOUS
<1>2. PICK v : v = read.value
  OBVIOUS
<1>3. PICK done : done = primary(v, read.flag)
  OBVIOUS
<1> DEFINE e == \/ read.error \/ done.error
                \/ operand /\ primary_is_function(v, read.flag)
           w == \/ BreaksName(how, n)
                \/ v # NULL /\ IF operand THEN BreaksOperand(v) ELSE BreaksUse(v)
<1>4. /\ entries' = IF v = NULL THEN read.es ELSE done.es
      /\ global_only' = read.flag
      /\ Verdict(e, w)
      /\ confused' = (confused \/ (operand /\ ConfusingOperand(v, read.flag)))
      /\ UNCHANGED <<current_scope, nameless_func_count, block_stack, freed, frames>>
  BY <1>1, <1>2, <1>3 DEF UseVariable
<1>5. /\ Ready /\ Flags
  BY Holds
<1>6. /\ Stays(read.es) /\ read.flag \in BOOLEAN /\ read.error \in BOOLEAN
      /\ BreaksName(how, n) \in BOOLEAN
      /\ v # NULL => Held(v) /\ read.flag = v.only
      /\ Lawful(entries, frames) => (read.error <=> BreaksName(how, n))
  BY <1>1, <1>2, <1>5, LvalueIs DEF Flags
<1>7. /\ done.error \in BOOLEAN /\ primary_is_function(v, read.flag) \in BOOLEAN
      /\ BreaksUse(v) \in BOOLEAN /\ BreaksOperand(v) \in BOOLEAN
      /\ ConfusingOperand(v, read.flag) \in BOOLEAN
  <2>1. v = NULL => done.error = FALSE
    BY <1>3, <1>6, PrimaryDoes, Outcomes
  <2>2. v # NULL => done.error \in BOOLEAN
    BY <1>3, <1>5, <1>6, PrimaryIs
  <2> QED BY <2>1, <2>2
      DEF primary_is_function, BreaksUse, BreaksOperand, ConfusingOperand, Confusing
<1>8. Stays(entries')
  BY <1>3, <1>4, <1>5, <1>6, PrimaryIs
<1>9. ASSUME Lawful(entries, frames), ~confused' PROVE e <=> w
  <2>1. CASE v = NULL
    <3>1. done.error = FALSE
      BY <1>3, <1>6, <2>1, PrimaryDoes, Outcomes
    <3>2. ~primary_is_function(v, read.flag)
      BY <2>1 DEF primary_is_function
    <3> QED BY <1>6, <1>9, <2>1, <3>1, <3>2
  <2>2. CASE v # NULL
    <3>1. /\ done.error <=> BreaksUse(v)
          /\ ~ConfusingOperand(v, read.flag) =>
               (done.error \/ primary_is_function(v, read.flag) <=> BreaksOperand(v))
      BY <1>3, <1>5, <1>6, <1>9, <2>2, PrimaryIs
    <3>2. operand => ~ConfusingOperand(v, read.flag)
      BY <1>4, <1>9
    <3>3. read.error <=> BreaksName(how, n)
      BY <1>6, <1>9
    <3> HIDE <1>4, <1>6
    <3> QED BY <2>2, <3>1, <3>2, <3>3
  <2> QED BY <2>1, <2>2
<1>10. e \in BOOLEAN /\ w \in BOOLEAN
  BY <1>6, <1>7
<1>11. ERROR_FLAG' = (ERROR_FLAG \/ e) /\ broken' = (broken \/ w)
  BY <1>4 DEF Verdict
<1> HIDE DEF e, w
<1>12. confused' \in BOOLEAN /\ freed' \in BOOLEAN /\ global_only' \in BOOLEAN /\ ~freed'
  BY <1>4, <1>5, <1>6, <1>7 DEF Flags
<1> QED BY <1>4, <1>8, <1>9, <1>10, <1>11, <1>12, InPlace

\* An lvalue is stepped.
LEMMA StepVariableStep ==
  ASSUME Inv, ~confused, ~freed,
         NEW how \in {"ID", "LOCAL", "DOUBLE_COLON"}, NEW n \in Name, StepVariable(how, n)
  PROVE  Inv'
<1>1. PICK read : read = lvalue(how, n)
  OBVIOUS
<1>2. PICK v : v = read.value
  OBVIOUS
<1>3. PICK done : done = insert_variable(v, read.flag)
  OBVIOUS
<1> DEFINE e == read.error \/ done.error
           w == BreaksName(how, n) \/ (v # NULL /\ BreaksChange(v))
<1>4. /\ entries' = IF v = NULL THEN read.es ELSE done.es
      /\ global_only' = read.flag
      /\ freed' = (freed \/ done.free)
      /\ Verdict(e, w)
      /\ confused' = (confused \/ Confusing(v, read.flag))
      /\ UNCHANGED <<current_scope, nameless_func_count, block_stack, frames>>
  BY <1>1, <1>2, <1>3 DEF StepVariable
<1>5. Ready /\ Flags
  BY Holds
<1>6. /\ Stays(read.es) /\ read.flag \in BOOLEAN /\ read.error \in BOOLEAN
      /\ BreaksName(how, n) \in BOOLEAN
      /\ v # NULL => Held(v) /\ read.es = entries
      /\ Lawful(entries, frames) => (read.error <=> BreaksName(how, n))
  BY <1>1, <1>2, <1>5, LvalueIs DEF Flags
<1>7. /\ Stays(done.es) /\ done.error \in BOOLEAN /\ done.free \in BOOLEAN
      /\ v = NULL => done.error = FALSE /\ done.free = FALSE
  BY <1>3, <1>5, <1>6, InsertAny
<1>8. /\ BreaksChange(v) \in BOOLEAN /\ Confusing(v, read.flag) \in BOOLEAN
  BY DEF BreaksChange, Confusing
<1>9. ~confused' => ~done.free /\ (Lawful(entries, frames) => (e <=> w))
  <2>1. CASE v = NULL
    BY <1>6, <1>7, <2>1
  <2>2. ASSUME v # NULL, ~confused'
        PROVE  ~done.free /\ (Lawful(entries, frames) => (e <=> w))
    <3>1. ~Confusing(v, read.flag)
      BY <1>4, <2>2
    <3>2. /\ done.free = FALSE
          /\ Lawful(entries, frames) => (done.error <=> BreaksChange(v))
      BY <1>3, <1>5, <1>6, <2>2, <3>1, InsertIs
    <3>3. Lawful(entries, frames) => (read.error <=> BreaksName(how, n))
      BY <1>6
    <3> HIDE <1>4, <1>6
    <3> QED BY <2>2, <3>2, <3>3
  <2> QED BY <2>1, <2>2
<1>10. e \in BOOLEAN /\ w \in BOOLEAN
  BY <1>6, <1>7, <1>8
<1>11. ERROR_FLAG' = (ERROR_FLAG \/ e) /\ broken' = (broken \/ w)
  BY <1>4 DEF Verdict
<1> HIDE DEF e, w
<1>12. /\ confused' \in BOOLEAN /\ freed' \in BOOLEAN /\ global_only' \in BOOLEAN
       /\ ~confused' => ~freed'
  BY <1>4, <1>5, <1>6, <1>7, <1>8, <1>9 DEF Flags
<1>13. Stays(entries')
  BY <1>4, <1>6, <1>7
<1> QED BY <1>4, <1>9, <1>10, <1>11, <1>12, <1>13, InPlace

\* A member is read.
LEMMA MemberStep ==
  ASSUME Inv, ~confused, ~freed,
         NEW how \in {"ID", "LOCAL", "DOUBLE_COLON"}, NEW n \in Name, Member(how, n)
  PROVE  Inv'
<1>1. PICK read : read = lvalue(how, n)
  OBVIOUS
<1>2. /\ entries' = read.es /\ global_only' = read.flag
      /\ ERROR_FLAG' = (ERROR_FLAG \/ read.error)
      /\ broken' = (broken \/ BreaksName(how, n))
      /\ UNCHANGED <<current_scope, nameless_func_count, block_stack, freed, frames,
                     confused>>
  BY <1>1 DEF Member, Verdict
<1>3. Ready /\ Flags
  BY Holds
<1>4. /\ Stays(read.es) /\ read.flag \in BOOLEAN /\ read.error \in BOOLEAN
      /\ BreaksName(how, n) \in BOOLEAN
      /\ Lawful(entries, frames) => (read.error <=> BreaksName(how, n))
  BY <1>1, <1>3, LvalueIs DEF Flags
<1>5. confused' \in BOOLEAN /\ freed' \in BOOLEAN /\ global_only' \in BOOLEAN /\ ~freed'
  BY <1>2, <1>3, <1>4 DEF Flags
<1> QED BY <1>2, <1>4, <1>5, InPlace

\* The frames, when a construct begins and when one ends
LEMMA FramePushed ==
  ASSUME Inv, NEW f, f \in FrameType, NEW gr, gr = Append(frames, f)
  PROVE  /\ Extended(frames, gr) /\ gr[Len(gr)] = f
         /\ Here(gr) = current_scope + IF f.kind \in Scopes THEN 1 ELSE 0
         /\ Depth(gr, Len(gr)) = Here(gr)
         /\ f.kind # "function" => Numbered(gr, nameless_func_count)
         /\ f.kind \in Blocks => Tracks(Append(block_stack, Mark(f.kind)), gr)
         /\ f.kind \notin Blocks => Tracks(block_stack, gr)
<1>1. /\ frames \in Seq(FrameType) /\ current_scope = Here(frames)
      /\ Numbered(frames, nameless_func_count) /\ Tracks(block_stack, frames)
  BY Holds
<1>2. Extended(frames, gr) /\ gr[Len(gr)] = f
  BY <1>1, PushedIs
<1>3. /\ Here(gr) = current_scope + IF f.kind \in Scopes THEN 1 ELSE 0
      /\ Depth(gr, Len(gr)) = Here(gr)
  BY <1>1, <1>2, Depths
<1>4. f.kind # "function" => Numbered(gr, nameless_func_count)
  BY <1>1, <1>2, NumberedBeside DEF Nameless
<1>5. f.kind \in Blocks => Tracks(Append(block_stack, Mark(f.kind)), gr)
  BY <1>1, <1>2, TracksPush
<1>6. f.kind \notin Blocks => Tracks(block_stack, gr)
  BY <1>1, <1>2, TracksBeside
<1> QED BY <1>2, <1>3, <1>4, <1>5, <1>6

\* The last frame, what it is, and what is left without it
LEMMA FramePopped ==
  ASSUME Inv, Top # "program", NEW f, f = Last(frames), NEW gr, gr = Front(frames)
  PROVE  /\ Extended(gr, frames) /\ frames[Len(frames)] = f /\ f \in FrameType
         /\ f.kind = Top /\ Len(frames) \in 1..Len(frames)
         /\ current_scope = Here(gr) + IF f.kind \in Scopes THEN 1 ELSE 0
         /\ Here(gr) \in Nat /\ Depth(frames, Len(frames)) = current_scope
         /\ f.kind # "function" => Numbered(gr, nameless_func_count)
         /\ f.kind \in Blocks => Tracks(Front(block_stack), gr)
         /\ f.kind \notin Blocks => Tracks(block_stack, gr)
<1>1. /\ frames \in Seq(FrameType) /\ current_scope = Here(frames)
      /\ Numbered(frames, nameless_func_count) /\ Tracks(block_stack, frames)
  BY Holds
<1>2. frames # <<>> /\ f.kind = Top
  BY DEF Top
<1>3. /\ gr \in Seq(FrameType) /\ Len(frames) = Len(gr) + 1
      /\ \A i \in 1..Len(gr) : frames[i] = gr[i]
      /\ frames[Len(frames)] = f /\ f \in FrameType /\ Len(frames) >= 1
  BY <1>1, <1>2, PoppedIs
<1>4. Extended(gr, frames) /\ Len(frames) \in 1..Len(frames)
  BY <1>1, <1>3, Sequences DEF Extended
<1>5. /\ current_scope = Here(gr) + IF f.kind \in Scopes THEN 1 ELSE 0
      /\ Here(gr) \in Nat /\ Depth(frames, Len(frames)) = current_scope
  BY <1>1, <1>3, <1>4, Depths
<1>6. f.kind # "function" => Numbered(gr, nameless_func_count)
  BY <1>1, <1>3, <1>4, NumberedPop DEF Nameless
<1>7. f.kind \in Blocks => Tracks(Front(block_stack), gr)
  BY <1>1, <1>3, <1>4, TracksPop
<1>8. f.kind \notin Blocks => Tracks(block_stack, gr)
  BY <1>1, <1>3, <1>4, TracksBesideEnds
<1> QED BY <1>2, <1>3, <1>4, <1>5, <1>6, <1>7, <1>8

\* An lvalue is put by.
LEMMA PutByStep ==
  ASSUME Inv, ~confused, ~freed, NEW kind \in PutAsides,
         NEW how \in {"ID", "LOCAL", "DOUBLE_COLON"}, NEW n \in Name, PutBy(kind, how, n)
  PROVE  Inv'
<1>1. PICK read : read = lvalue(how, n)
  OBVIOUS
<1>2. PICK f : f = Frame(kind, Len(entries), FALSE, read.value)
  OBVIOUS
<1>3. /\ frames' = Append(frames, f) /\ entries' = read.es /\ global_only' = read.flag
      /\ ERROR_FLAG' = (ERROR_FLAG \/ read.error)
      /\ broken' = (broken \/ BreaksName(how, n))
      /\ UNCHANGED <<current_scope, nameless_func_count, block_stack, freed, confused>>
  BY <1>1, <1>2 DEF PutBy, Push, Verdict
<1>4. /\ Ready /\ Flags /\ Tabled(entries, frames) /\ Len(entries) \in Nat
      /\ current_scope = Here(frames) /\ current_scope \in Nat
  BY Holds
<1>5. /\ Stays(read.es) /\ read.flag \in BOOLEAN /\ read.error \in BOOLEAN
      /\ BreaksName(how, n) \in BOOLEAN /\ read.value \in Value
      /\ read.value # NULL => Held(read.value)
      /\ Lawful(entries, frames) => (read.error <=> BreaksName(how, n))
  BY <1>1, <1>4, LvalueIs DEF Flags
<1>6. /\ f.kind = kind /\ f.first = Len(entries) /\ f.value = read.value /\ f \in FrameType
  BY <1>2, <1>4, <1>5 DEF Frame, FrameType
<1>7. f.kind \notin Scopes /\ f.kind \notin Blocks /\ f.kind # "function"
  BY <1>6 DEF PutAsides, Scopes, Blocks
<1>8. /\ Extended(frames, frames') /\ frames'[Len(frames')] = f
      /\ Here(frames') = current_scope
      /\ Numbered(frames', nameless_func_count) /\ Tracks(block_stack, frames')
  <2>1. /\ Extended(frames, frames') /\ frames'[Len(frames')] = f
        /\ Here(frames') = current_scope + IF f.kind \in Scopes THEN 1 ELSE 0
        /\ f.kind # "function" => Numbered(frames', nameless_func_count)
        /\ f.kind \notin Blocks => Tracks(block_stack, frames')
    BY <1>3, <1>6, FramePushed
  <2> QED BY <1>4, <1>7, <2>1
<1>9. Kept(f.value, entries, Here(frames))
  BY <1>4, <1>5, <1>6 DEF Held, Kept
<1>10. Tabled(entries, frames')
  <2>1. f.kind \notin {"block", "header", "loop"}
    BY <1>6 DEF PutAsides
  <2> QED BY <1>4, <1>6, <1>7, <1>8, <1>9, <2>1, TabledPush
<1>11. /\ Puts(entries, entries', Here(frames)) /\ Variables(entries, entries')
       /\ Lawful(entries, frames) => Lawful(entries', frames)
  BY <1>3, <1>4, <1>5, StaysPuts
<1>12. Tabled(entries', frames')
  BY <1>4, <1>8, <1>10, <1>11, TabledPut
<1>13. ASSUME Lawful(entries, frames) PROVE Lawful(entries', frames')
  <2>1. Lawful(entries', frames)
    BY <1>11, <1>13
  <2>2. /\ Len(frames') = Len(frames) + 1 /\ Len(frames) \in Nat
        /\ \A i \in 1..Len(frames) : frames'[i] = frames[i]
    BY <1>8, Sequences DEF Extended
  <2>3. ASSUME NEW i \in 1..Len(frames'), frames'[i].kind = "function"
        PROVE  frames'[i].put
    BY <1>7, <1>8, <2>1, <2>2, <2>3 DEF Lawful
  <2> QED BY <2>1, <2>3 DEF Lawful
<1>14. confused' \in BOOLEAN /\ freed' \in BOOLEAN /\ global_only' \in BOOLEAN /\ ~freed'
  BY <1>3, <1>4, <1>5 DEF Flags
<1> QED BY <1>3, <1>4, <1>5, <1>8, <1>12, <1>13, <1>14, Follows

\* What is put by is still what it was when the rest has been read.
LEMMA PutByIs ==
  ASSUME Inv, Top \in PutAsides, NEW v, v = Last(frames).value
  PROVE  v = NULL \/ Held(v)
<1>1. Top # "program"
  BY DEF PutAsides
<1>2. PICK f : f = Last(frames)
  OBVIOUS
<1>3. /\ frames[Len(frames)] = f /\ f \in FrameType /\ f.kind = Top
      /\ Len(frames) \in 1..Len(frames) /\ Depth(frames, Len(frames)) = current_scope
  BY <1>1, <1>2, FramePopped
<1>4. PutsAside(entries, frames)
  BY DEF Inv
<1>5. Kept(v, entries, current_scope)
  BY <1>2, <1>3, <1>4 DEF PutsAside
<1>6. v \in Value
  BY <1>2, <1>3 DEF FrameType
<1> QED BY <1>5, <1>6 DEF Held

\* The construct that an lvalue was put by for ends.
LEMMA PutBack ==
  ASSUME Inv, ~confused, ~freed, NEW e \in BOOLEAN, NEW w \in BOOLEAN,
         ERROR_FLAG' = (ERROR_FLAG \/ e), broken' = (broken \/ w),
         confused' \in BOOLEAN, freed' \in BOOLEAN, Stays(entries'),
         Top \in PutAsides, frames' = Front(frames),
         UNCHANGED <<current_scope, global_only, nameless_func_count, block_stack>>,
         ~confused' => ~freed',
         Lawful(entries, frames) /\ ~confused' => (e <=> w)
  PROVE  Inv'
<1>1. Top # "program"
  BY DEF PutAsides
<1>2. PICK f : f = Last(frames)
  OBVIOUS
<1>3. f.kind = Top /\ frames[Len(frames)] = f
  BY <1>1, <1>2, FramePopped
<1>4. f.kind \notin Scopes /\ f.kind \notin Blocks /\ f.kind # "function"
  BY <1>3 DEF PutAsides, Scopes, Blocks
<1>5. Flags /\ current_scope \in Nat
  BY Holds
<1>6. /\ Extended(frames', frames) /\ current_scope = Here(frames') /\ Here(frames') \in Nat
      /\ Numbered(frames', nameless_func_count) /\ Tracks(block_stack, frames')
  BY <1>1, <1>2, <1>4, FramePopped
<1>7. /\ Tabled(entries', frames)
      /\ Lawful(entries, frames) => Lawful(entries', frames)
  BY StaysTabled
<1>8. Tabled(entries', frames')
  BY <1>3, <1>4, <1>6, <1>7, TabledPop
<1>9. ASSUME Lawful(entries, frames) PROVE Lawful(entries', frames')
  <2>1. Lawful(entries', frames)
    BY <1>7, <1>9
  <2>2. \A i \in 1..Len(frames') : i \in 1..Len(frames) /\ frames[i] = frames'[i]
    BY <1>6, Sequences DEF Extended
  <2> QED BY <2>1, <2>2 DEF Lawful
<1>10. global_only' \in BOOLEAN
  BY <1>5 DEF Flags
<1> QED BY <1>6, <1>8, <1>9, <1>10, Follows

\* An assignment ends.
LEMMA AssignmentEndStep ==
  ASSUME Inv, ~confused, ~freed, AssignmentEnd
  PROVE  Inv'
<1>1. PICK v : v = Last(frames).value
  OBVIOUS
<1>2. PICK done : done = insert_variable(v, global_only)
  OBVIOUS
<1> DEFINE w == v # NULL /\ BreaksChange(v)
<1>3. /\ Top = "assignment" /\ frames' = Front(frames)
      /\ entries' = done.es
      /\ freed' = (freed \/ done.free)
      /\ ERROR_FLAG' = (ERROR_FLAG \/ done.error) /\ broken' = (broken \/ w)
      /\ confused' = (confused \/ Confusing(v, global_only))
      /\ UNCHANGED <<current_scope, global_only, nameless_func_count, block_stack>>
  BY <1>1, <1>2 DEF AssignmentEnd, Pop, Verdict
<1>4. Ready /\ Flags
  BY Holds
<1>5. Top \in PutAsides /\ (v = NULL \/ Held(v))
  BY <1>1, <1>3, PutByIs DEF PutAsides
<1>6. /\ Stays(done.es) /\ done.error \in BOOLEAN /\ done.free \in BOOLEAN
      /\ v = NULL => done.error = FALSE /\ done.free = FALSE
  BY <1>2, <1>4, <1>5, InsertAny DEF Flags
<1>7. BreaksChange(v) \in BOOLEAN /\ Confusing(v, global_only) \in BOOLEAN
  BY DEF BreaksChange, Confusing
<1>8. ~confused' => ~done.free /\ (Lawful(entries, frames) => (done.error <=> w))
  <2>1. CASE v = NULL
    BY <1>6, <2>1
  <2>2. ASSUME v # NULL, ~confused'
        PROVE  ~done.free /\ (Lawful(entries, frames) => (done.error <=> w))
    <3>1. ~Confusing(v, global_only)
      BY <1>3, <2>2
    <3>2. /\ done.free = FALSE
          /\ Lawful(entries, frames) => (done.error <=> BreaksChange(v))
      BY <1>2, <1>4, <1>5, <2>2, <3>1, InsertIs DEF Flags
    <3> HIDE <1>3
    <3> QED BY <2>2, <3>2
  <2> QED BY <2>1, <2>2
<1>9. w \in BOOLEAN
  BY <1>7
<1> HIDE DEF w
<1>10. confused' \in BOOLEAN /\ freed' \in BOOLEAN /\ (~confused' => ~freed')
  BY <1>3, <1>4, <1>6, <1>7, <1>8 DEF Flags
<1>11. Stays(entries')
  BY <1>3, <1>6
<1> QED BY <1>3, <1>5, <1>6, <1>8, <1>9, <1>10, <1>11, PutBack

\* A call ends.
LEMMA CallEndStep ==
  ASSUME Inv, ~confused, ~freed, CallEnd
  PROVE  Inv'
<1>1. PICK v : v = Last(frames).value
  OBVIOUS
<1>2. PICK done : done = call(v)
  OBVIOUS
<1> DEFINE w == v # NULL /\ BreaksCall(v)
<1>3. /\ Top = "call" /\ frames' = Front(frames)
      /\ entries' = done.es
      /\ ERROR_FLAG' = (ERROR_FLAG \/ done.error) /\ broken' = (broken \/ w)
      /\ confused' = (confused \/ (v # NULL /\ Confusing(v, v.only)))
      /\ UNCHANGED <<current_scope, global_only, nameless_func_count, block_stack, freed>>
  BY <1>1, <1>2 DEF CallEnd, Pop, Verdict
<1>4. Ready /\ Flags
  BY Holds
<1>5. Top \in PutAsides /\ (v = NULL \/ Held(v))
  BY <1>1, <1>3, PutByIs DEF PutAsides
<1>6. /\ Stays(done.es) /\ done.error \in BOOLEAN
      /\ v = NULL => done.error = FALSE
  BY <1>2, <1>4, <1>5, CallAny
<1>7. BreaksCall(v) \in BOOLEAN /\ Confusing(v, v.only) \in BOOLEAN
  BY DEF BreaksCall, Confusing
<1>8. Lawful(entries, frames) /\ ~confused' => (done.error <=> w)
  <2>1. CASE v = NULL
    BY <1>6, <2>1
  <2>2. ASSUME v # NULL, ~confused', Lawful(entries, frames) PROVE done.error <=> w
    <3>1. ~Confusing(v, v.only)
      BY <1>3, <2>2
    <3>2. done.error <=> BreaksCall(v)
      BY <1>2, <1>4, <1>5, <2>2, <3>1, CallIs
    <3> HIDE <1>3
    <3> QED BY <2>2, <3>2
  <2> QED BY <2>1, <2>2
<1>9. w \in BOOLEAN
  BY <1>7
<1> HIDE DEF w
<1>10. confused' \in BOOLEAN /\ freed' \in BOOLEAN /\ ~freed'
  BY <1>3, <1>4, <1>7 DEF Flags
<1>11. Stays(entries')
  BY <1>3, <1>6
<1> QED BY <1>3, <1>5, <1>6, <1>8, <1>9, <1>10, <1>11, PutBack

-----------------------------------------------------------------------------
(* Blocks, loops and functions *)

\* A function on an interval is a sequence.
LEMMA OfLength ==
  ASSUME NEW T, NEW n \in Nat, NEW s, DOMAIN s = 1..n, s = [i \in 1..n |-> s[i]],
         \A i \in 1..n : s[i] \in T
  PROVE  s \in Seq(T) /\ Len(s) = n
<1>1. s \in [1..n -> T]
  OBVIOUS
<1>2. s \in Seq(T)
  BY <1>1, SeqDef
<1>3. Len(s) \in Nat /\ DOMAIN s = 1..Len(s)
  BY <1>2, LenProperties
<1>4. Len(s) = n
  BY <1>3
<1> QED BY <1>2, <1>4

\* What is left when the scope is, and the function of entry g closed, if any.
LEMMA Deactivated ==
  ASSUME Inv, NEW g, NEW ns,
         \/ g = 0 /\ ns = SymList_deactivate(current_scope)
         \/ /\ g \in DOMAIN entries
            /\ ns = [SymList_deactivate(current_scope) EXCEPT ![g].func_is_open = FALSE]
  PROVE  Leaves(entries, ns, Here(frames), g)
<1> DEFINE ds == SymList_deactivate(current_scope)
           n == Len(entries)
<1>1. /\ entries \in Seq(Entry) /\ n \in Nat /\ DOMAIN entries = 1..n
      /\ current_scope = Here(frames)
  BY Holds
<1>2. \A k \in 1..n : entries[k] \in Entry
  BY <1>1, ElementOfSeq
<1>3. ds = [k \in 1..n |-> IF entries[k].scope = current_scope
                            THEN [entries[k] EXCEPT !.isActive = FALSE] ELSE entries[k]]
  BY <1>1 DEF SymList_deactivate
<1>4. ASSUME NEW k \in 1..n
      PROVE  /\ ds[k] \in Entry /\ ds[k].name = entries[k].name /\ ds[k].type = entries[k].type
             /\ ds[k].scope = entries[k].scope
             /\ ds[k].isActive <=> entries[k].isActive /\ entries[k].scope # current_scope
             /\ ds[k].func_is_open = entries[k].func_is_open
  <2>1. entries[k] \in Entry
    BY <1>2
  <2>2. CASE entries[k].scope = current_scope
    <3>1. ds[k] = [entries[k] EXCEPT !.isActive = FALSE]
      BY <1>3, <2>2
    <3> QED BY <2>1, <2>2, <3>1 DEF Entry
  <2>3. CASE entries[k].scope # current_scope
    <3>1. ds[k] = entries[k]
      BY <1>3, <2>3
    <3> QED BY <2>1, <2>3, <3>1 DEF Entry
  <2> QED BY <2>2, <2>3
<1>5. DOMAIN ds = 1..n
  BY <1>3
<1> HIDE DEF ds
<1>6. ASSUME NEW k \in 1..n
      PROVE  /\ ns[k] \in Entry /\ ns[k].name = ds[k].name /\ ns[k].type = ds[k].type
             /\ ns[k].scope = ds[k].scope /\ ns[k].isActive = ds[k].isActive
             /\ ns[k].func_is_open <=> ds[k].func_is_open /\ k # g
  <2>1. CASE k = g
    <3>1. ns[k] = [ds[k] EXCEPT !.func_is_open = FALSE]
      <4>1. ns = [ds EXCEPT ![g].func_is_open = FALSE]
        BY <1>1, <2>1 DEF ds
      <4> QED BY <1>5, <2>1, <4>1
    <3> QED BY <1>4, <2>1, <3>1 DEF Entry
  <2>2. CASE k # g
    <3>1. ns[k] = ds[k]
      BY <1>1, <1>5, <2>2 DEF ds
    <3> QED BY <1>4, <2>2, <3>1
  <2> QED BY <2>1, <2>2
<1>7. DOMAIN ns = 1..n /\ ns = [k \in 1..n |-> ns[k]]
  <2>1. CASE ns = ds
    BY <1>3, <1>5, <2>1
  <2>2. CASE ns = [ds EXCEPT ![g].func_is_open = FALSE]
    BY <1>5, <2>2
  <2> QED BY <2>1, <2>2 DEF ds
<1>8. ns \in Seq(Entry) /\ Len(ns) = n
  <2>1. \A k \in 1..n : ns[k] \in Entry
    BY <1>6
  <2> QED BY <1>1, <1>7, <2>1, OfLength
<1>9. ASSUME NEW k \in 1..n
      PROVE  /\ ns[k].name = entries[k].name /\ ns[k].type = entries[k].type
             /\ ns[k].scope = entries[k].scope
             /\ ns[k].isActive <=> entries[k].isActive /\ entries[k].scope # Here(frames)
             /\ ns[k].func_is_open <=> entries[k].func_is_open /\ k # g
  BY <1>1, <1>4, <1>6
<1> QED BY <1>8, <1>9 DEF Leaves

\* What is lawful stays so where entries are hidden and a frame is gone.
LEMMA LawfulLeave ==
  ASSUME NEW es, NEW fr, Lawful(es, fr), NEW gr, Extended(gr, fr), es \in Seq(Entry),
         NEW ns, NEW s, NEW g, Leaves(es, ns, s, g)
  PROVE  Lawful(ns, gr)
<1>1. \A i \in 1..Len(gr) : i \in 1..Len(fr) /\ fr[i] = gr[i]
  BY Sequences DEF Extended
<1>2. /\ DOMAIN es = 1..Len(es) /\ DOMAIN ns = 1..Len(es)
      /\ \A k \in 1..Len(es) : /\ ns[k].name = es[k].name /\ ns[k].type = es[k].type
                               /\ ns[k].isActive => es[k].isActive
  BY Sequences DEF Leaves
<1> QED BY <1>1, <1>2 DEF Lawful

\* What is lawful stays so where a frame is pushed that is no function without
\* an entry.
LEMMA LawfulPush ==
  ASSUME NEW es, NEW fr, Lawful(es, fr), NEW gr, Extended(fr, gr),
         gr[Len(gr)].kind = "function" => gr[Len(gr)].put
  PROVE  Lawful(es, gr)
<1>1. /\ Len(gr) = Len(fr) + 1 /\ Len(fr) \in Nat
      /\ \A i \in 1..Len(fr) : gr[i] = fr[i]
      /\ \A i \in 1..Len(gr) : i \in 1..Len(fr) \/ i = Len(gr)
  BY Sequences DEF Extended
<1>2. ASSUME NEW i \in 1..Len(gr), gr[i].kind = "function" PROVE gr[i].put
  BY <1>1, <1>2 DEF Lawful
<1> QED BY <1>2 DEF Lawful

\* A step that is no error and does not touch the flags
LEMMA Quiet ==
  ASSUME Inv, ~confused, ~freed,
         UNCHANGED <<global_only, freed, confused, ERROR_FLAG, broken>>,
         Tabled(entries', frames'), Tracks(block_stack', frames'),
         Numbered(frames', nameless_func_count'), current_scope' = Here(frames'),
         Lawful(entries, frames) => Lawful(entries', frames')
  PROVE  Inv'
<1>1. Flags
  BY Holds
<1>2. ERROR_FLAG' = (ERROR_FLAG \/ FALSE) /\ broken' = (broken \/ FALSE)
  BY <1>1 DEF Flags
<1>3. confused' \in BOOLEAN /\ freed' \in BOOLEAN /\ global_only' \in BOOLEAN /\ ~freed'
  BY <1>1 DEF Flags
<1> QED BY <1>2, <1>3, Follows

\* What a statement is part of has a scope.
LEMMA StatementIs ==
  ASSUME Inv, AtStatement
  PROVE  frames = <<>> \/ frames[Len(frames)].kind \in Scopes
<1>1. CASE frames # <<>>
  <2>1. Top = frames[Len(frames)].kind
    BY <1>1 DEF Top, Last
  <2>2. frames[Len(frames)] \in FrameType
    <3>1. frames \in Seq(FrameType)
      BY Holds
    <3>2. Len(frames) \in 1..Len(frames)
      BY <1>1, <3>1, LenProperties, EmptySeq
    <3> QED BY <3>1, <3>2, ElementOfSeq
  <2>3. frames[Len(frames)].kind # "program"
    BY <2>2 DEF FrameType, Scopes, Blocks, PutAsides
  <2> QED BY <2>1, <2>3 DEF AtStatement, Scopes
<1> QED BY <1>1

\* A frame without an lvalue is one.
LEMMA FrameIs ==
  ASSUME NEW kind \in Scopes \union Blocks, NEW first \in Nat
  PROVE  LET f == Frame(kind, first, FALSE, NULL)
         IN  f \in FrameType /\ f.kind = kind /\ f.first = first /\ f.put = FALSE
<1>1. NULL \in Value
  BY DEF Value
<1> HIDE DEF NULL
<1> QED BY <1>1 DEF Frame, FrameType

\* A block begins.
LEMMA BlockStartStep ==
  ASSUME Inv, ~confused, ~freed, BlockStart
  PROVE  Inv'
<1>1. PICK f : f = Frame("block", Len(entries), FALSE, NULL)
  OBVIOUS
<1>2. /\ AtStatement /\ frames' = Append(frames, f) /\ current_scope' = current_scope + 1
      /\ UNCHANGED <<entries, nameless_func_count, freed, global_only, block_stack,
                     ERROR_FLAG, broken, confused>>
  BY <1>1 DEF BlockStart, Push, table
<1>3. /\ Tabled(entries, frames) /\ Len(entries) \in Nat
  BY Holds
<1>4. f \in FrameType /\ f.kind = "block" /\ f.first = Len(entries)
  BY <1>1, <1>3, FrameIs DEF Scopes
<1>5. /\ f.kind \in Scopes /\ f.kind \notin Blocks /\ f.kind # "function"
      /\ f.kind \notin PutAsides
  BY <1>4 DEF Scopes, Blocks, PutAsides
<1>6. /\ Extended(frames, frames') /\ frames'[Len(frames')] = f
      /\ Here(frames') = current_scope'
      /\ Numbered(frames', nameless_func_count) /\ Tracks(block_stack, frames')
  BY <1>2, <1>4, <1>5, FramePushed
<1>7. Tabled(entries, frames')
  <2>1. frames = <<>> \/ frames[Len(frames)].kind \in Scopes
    BY <1>2, StatementIs
  <2> QED BY <1>3, <1>4, <1>5, <1>6, <2>1, TabledPush
<1>8. Lawful(entries, frames) => Lawful(entries, frames')
  BY <1>5, <1>6, LawfulPush
<1> QED BY <1>2, <1>6, <1>7, <1>8, Quiet

\* A block ends.
LEMMA BlockEndStep ==
  ASSUME Inv, ~confused, ~freed, BlockEnd
  PROVE  Inv'
<1>1. PICK f : f = Last(frames)
  OBVIOUS
<1>2. /\ Top = "block" /\ frames' = Front(frames)
      /\ entries' = SymList_deactivate(current_scope) /\ current_scope' = current_scope - 1
      /\ UNCHANGED <<nameless_func_count, freed, global_only, block_stack, ERROR_FLAG,
                     broken, confused>>
  BY DEF BlockEnd, Pop, block_end
<1>3. /\ Tabled(entries, frames) /\ entries \in Seq(Entry) /\ DOMAIN entries = 1..Len(entries)
  BY Holds
<1>4. /\ Extended(frames', frames) /\ frames[Len(frames)] = f /\ f.kind = "block"
      /\ current_scope = Here(frames') + IF f.kind \in Scopes THEN 1 ELSE 0
      /\ Here(frames') \in Nat
      /\ f.kind # "function" => Numbered(frames', nameless_func_count)
      /\ f.kind \notin Blocks => Tracks(block_stack, frames')
  BY <1>1, <1>2, FramePopped
<1>5. f.kind \in Scopes /\ f.kind \notin Blocks /\ f.kind # "function"
  BY <1>4 DEF Scopes, Blocks
<1>6. Leaves(entries, entries', Here(frames), 0)
  BY <1>2, Deactivated
<1>7. Tabled(entries', frames')
  <2>1. \A k \in DOMAIN entries : entries[k].func_is_open => k # 0
    BY <1>3
  <2> QED BY <1>3, <1>4, <1>5, <1>6, <2>1, TabledLeave
<1>8. Lawful(entries, frames) => Lawful(entries', frames')
  BY <1>3, <1>4, <1>6, LawfulLeave
<1>9. current_scope' = Here(frames')
  BY <1>2, <1>4, <1>5
<1> QED BY <1>2, <1>4, <1>5, <1>7, <1>8, <1>9, Quiet

\* A loop begins.
LEMMA LoopStartStep ==
  ASSUME Inv, ~confused, ~freed, LoopStart
  PROVE  Inv'
<1>1. PICK f : f = Frame("header", Len(entries), FALSE, NULL)
  OBVIOUS
<1>2. /\ AtStatement /\ frames' = Append(frames, f) /\ block_stack' = Append(block_stack, "LOOP")
      /\ UNCHANGED <<entries, nameless_func_count, freed, global_only, current_scope,
                     ERROR_FLAG, broken, confused>>
  BY <1>1 DEF LoopStart, Push, table
<1>3. /\ Tabled(entries, frames) /\ Len(entries) \in Nat /\ current_scope \in Nat
  BY Holds
<1>4. f \in FrameType /\ f.kind = "header" /\ f.first = Len(entries)
  BY <1>1, <1>3, FrameIs DEF Blocks
<1>5. /\ f.kind \notin Scopes /\ f.kind \in Blocks /\ f.kind # "function"
      /\ f.kind \notin PutAsides /\ Mark(f.kind) = "LOOP"
  BY <1>4 DEF Scopes, Blocks, PutAsides, Mark
<1>6. /\ Extended(frames, frames') /\ frames'[Len(frames')] = f
      /\ Here(frames') = current_scope + IF f.kind \in Scopes THEN 1 ELSE 0
      /\ f.kind # "function" => Numbered(frames', nameless_func_count)
      /\ f.kind \in Blocks => Tracks(Append(block_stack, Mark(f.kind)), frames')
  BY <1>2, <1>4, FramePushed
<1>7. Tabled(entries, frames')
  <2>1. frames = <<>> \/ frames[Len(frames)].kind \in Scopes
    BY <1>2, StatementIs
  <2> QED BY <1>3, <1>4, <1>5, <1>6, <2>1, TabledPush
<1>8. Lawful(entries, frames) => Lawful(entries, frames')
  BY <1>5, <1>6, LawfulPush
<1>9. Here(frames') = current_scope' /\ Tracks(block_stack', frames')
  BY <1>2, <1>3, <1>5, <1>6
<1> QED BY <1>2, <1>5, <1>6, <1>7, <1>8, <1>9, Quiet

\* What is in the parentheses of a loop ends, and its body begins.
LEMMA LoopBodyStep ==
  ASSUME Inv, ~confused, ~freed, LoopBody
  PROVE  Inv'
<1>1. PICK f : f = Frame("loop", Len(entries), FALSE, NULL)
  OBVIOUS
<1>2. PICK h : h = Last(frames)
  OBVIOUS
<1>3. PICK gr : gr = Front(frames)
  OBVIOUS
<1>4. /\ Top = "header" /\ frames' = Append(gr, f) /\ current_scope' = current_scope + 1
      /\ UNCHANGED <<entries, nameless_func_count, freed, global_only, block_stack,
                     ERROR_FLAG, broken, confused>>
  BY <1>1, <1>3 DEF LoopBody, table
<1>5. /\ Tabled(entries, frames) /\ Len(entries) \in Nat
      /\ frames \in Seq(FrameType) /\ Tracks(block_stack, frames)
  BY Holds
<1>6. /\ Extended(gr, frames) /\ frames[Len(frames)] = h /\ h.kind = "header"
      /\ current_scope = Here(gr) + IF h.kind \in Scopes THEN 1 ELSE 0
      /\ Here(gr) \in Nat
      /\ h.kind # "function" => Numbered(gr, nameless_func_count)
      /\ h.kind \in Blocks => Tracks(Front(block_stack), gr)
  BY <1>2, <1>3, <1>4, FramePopped
<1>7. h.kind \notin Scopes /\ h.kind \in Blocks /\ h.kind # "function" /\ Mark(h.kind) = "LOOP"
  BY <1>6 DEF Scopes, Blocks, Mark
<1>8. f \in FrameType /\ f.kind = "loop" /\ f.first = Len(entries)
  BY <1>1, <1>5, FrameIs DEF Scopes
<1>9. /\ f.kind \in Scopes /\ f.kind \in Blocks /\ f.kind # "function"
      /\ f.kind \notin PutAsides /\ Mark(f.kind) = "LOOP"
  BY <1>8 DEF Scopes, Blocks, PutAsides, Mark
<1>10. Extended(gr, frames') /\ frames'[Len(frames')] = f
  <2>1. gr \in Seq(FrameType)
    BY <1>6 DEF Extended
  <2> QED BY <1>4, <1>8, <2>1, PushedIs
<1>11. Tabled(entries, gr)
  BY <1>5, <1>6, <1>7, TabledPop
<1>12. gr = <<>> \/ gr[Len(gr)].kind \in Scopes
  <2>1. CASE gr # <<>>
    <3>1. /\ Len(gr) \in 1..Len(gr) /\ Len(frames) = Len(gr) + 1 /\ Len(gr) \in Nat
          /\ \A i \in 1..Len(gr) : frames[i] = gr[i]
      BY <1>6, <2>1, LenProperties, EmptySeq DEF Extended
    <3>2. Len(frames) \in 2..Len(frames) /\ Len(frames) - 1 = Len(gr)
      BY <3>1
    <3>3. frames[Len(frames) - 1].kind \in Scopes
      BY <1>5, <1>6, <3>2 DEF Tabled, Nested
    <3> QED BY <3>1, <3>2, <3>3
  <2> QED BY <2>1
<1>13. Tabled(entries, frames')
  BY <1>8, <1>9, <1>10, <1>11, <1>12, TabledPush
<1>14. Tracks(block_stack, frames')
  <2>1. Tracks(Front(block_stack), gr)
    BY <1>6, <1>7
  <2>2. block_stack = Append(Front(block_stack), "LOOP")
    BY <1>5, <1>6, <1>7, TracksPop
  <2>3. Tracks(Append(Front(block_stack), "LOOP"), frames')
    BY <1>9, <1>10, <2>1, TracksPush
  <2> QED BY <2>2, <2>3
<1>15. Numbered(frames', nameless_func_count)
  <2>1. Numbered(gr, nameless_func_count)
    BY <1>6, <1>7
  <2>2. ~Nameless(frames', Len(frames'))
    BY <1>9, <1>10 DEF Nameless
  <2> QED BY <1>10, <2>1, <2>2, NumberedBeside
<1>16. current_scope' = Here(frames')
  <2>1. Here(frames') = Here(gr) + 1
    BY <1>9, <1>10, Depths
  <2> QED BY <1>4, <1>6, <1>7, <2>1
<1>17. ASSUME Lawful(entries, frames) PROVE Lawful(entries, frames')
  <2>1. Lawful(entries, gr)
    <3>1. \A i \in 1..Len(gr) : i \in 1..Len(frames) /\ frames[i] = gr[i]
      BY <1>6, Sequences DEF Extended
    <3> QED BY <1>17, <3>1 DEF Lawful
  <2> QED BY <1>9, <1>10, <2>1, LawfulPush
<1> QED BY <1>4, <1>13, <1>14, <1>15, <1>16, <1>17, Quiet

\* A loop ends.
LEMMA LoopEndStep ==
  ASSUME Inv, ~confused, ~freed, LoopEnd
  PROVE  Inv'
<1>1. PICK f : f = Last(frames)
  OBVIOUS
<1>2. /\ Top = "loop" /\ frames' = Front(frames)
      /\ entries' = SymList_deactivate(current_scope) /\ current_scope' = current_scope - 1
      /\ block_stack' = Front(block_stack)
      /\ UNCHANGED <<nameless_func_count, freed, global_only, ERROR_FLAG, broken, confused>>
  BY DEF LoopEnd, Pop, block_end, stack_pop
<1>3. /\ Tabled(entries, frames) /\ entries \in Seq(Entry) /\ DOMAIN entries = 1..Len(entries)
  BY Holds
<1>4. /\ Extended(frames', frames) /\ frames[Len(frames)] = f /\ f.kind = "loop"
      /\ current_scope = Here(frames') + IF f.kind \in Scopes THEN 1 ELSE 0
      /\ Here(frames') \in Nat
      /\ f.kind # "function" => Numbered(frames', nameless_func_count)
      /\ f.kind \in Blocks => Tracks(Front(block_stack), frames')
  BY <1>1, <1>2, FramePopped
<1>5. f.kind \in Scopes /\ f.kind \in Blocks /\ f.kind # "function"
  BY <1>4 DEF Scopes, Blocks
<1>6. Leaves(entries, entries', Here(frames), 0)
  BY <1>2, Deactivated
<1>7. Tabled(entries', frames')
  <2>1. \A k \in DOMAIN entries : entries[k].func_is_open => k # 0
    BY <1>3
  <2> QED BY <1>3, <1>4, <1>5, <1>6, <2>1, TabledLeave
<1>8. Lawful(entries, frames) => Lawful(entries', frames')
  BY <1>3, <1>4, <1>6, LawfulLeave
<1>9. current_scope' = Here(frames') /\ Tracks(block_stack', frames')
  BY <1>2, <1>4, <1>5
<1> QED BY <1>2, <1>4, <1>5, <1>7, <1>8, <1>9, Quiet

\* break and continue
LEMMA BreakStep ==
  ASSUME Inv, ~confused, ~freed, Break
  PROVE  Inv'
<1> DEFINE e == ~loop_on_top
           w == LET around == Kinds({"function", "loop"})
                IN  around = {} \/ frames[Max(around)].kind # "loop"
<1>1. /\ AtStatement /\ Verdict(e, w)
      /\ UNCHANGED <<entries, nameless_func_count, freed, current_scope, global_only,
                     block_stack, frames, confused>>
  BY DEF Break, table
<1>2. Nested(entries, frames) /\ Tracks(block_stack, frames) /\ Flags
  BY DEF Inv
<1>3. e <=> w
  BY <1>1, <1>2, BreakIs
<1>4. e \in BOOLEAN /\ w \in BOOLEAN
  BY DEF loop_on_top
<1> HIDE DEF e, w
<1>5. ERROR_FLAG' = (ERROR_FLAG \/ e) /\ broken' = (broken \/ w)
  BY <1>1 DEF Verdict
<1>6. confused' \in BOOLEAN /\ freed' \in BOOLEAN /\ global_only' \in BOOLEAN /\ ~freed'
  BY <1>1, <1>2 DEF Flags
<1>7. Stays(entries')
  BY <1>1 DEF Stays
<1> QED BY <1>1, <1>3, <1>4, <1>5, <1>6, <1>7, InPlace

\* return
LEMMA ReturnStep ==
  ASSUME Inv, ~confused, ~freed, Return
  PROVE  Inv'
<1> DEFINE e == "FUNC_BLOCK" \notin ToSet(block_stack)
           w == Bodies = {}
<1>1. /\ Verdict(e, w)
      /\ UNCHANGED <<entries, nameless_func_count, freed, current_scope, global_only,
                     block_stack, frames, confused>>
  BY DEF Return, table
<1>2. frames \in Seq(FrameType) /\ Tracks(block_stack, frames) /\ Flags
  BY Holds
<1>3. e <=> w
  BY <1>2, ReturnIs
<1>4. e \in BOOLEAN /\ w \in BOOLEAN
  OBVIOUS
<1> HIDE DEF e, w
<1>5. ERROR_FLAG' = (ERROR_FLAG \/ e) /\ broken' = (broken \/ w)
  BY <1>1 DEF Verdict
<1>6. confused' \in BOOLEAN /\ freed' \in BOOLEAN /\ global_only' \in BOOLEAN /\ ~freed'
  BY <1>1, <1>2 DEF Flags
<1>7. Stays(entries')
  BY <1>1 DEF Stays
<1> QED BY <1>1, <1>3, <1>4, <1>5, <1>6, <1>7, InPlace

\* The arguments that are put by are some of those written, each once.
LEMMA ArgumentsAre ==
  ASSUME NEW formals \in Formals, NEW list, list = arguments_list(formals)
  PROVE  /\ list \in Seq(Name) /\ DOMAIN list = 1..Len(list) /\ Len(list) \in Nat
         /\ \A i, j \in 1..Len(list) : list[i] = list[j] => i = j
         /\ \A i \in 1..Len(list) : list[i] \in ToSet(formals)
<1>1. PICK m \in 0..2 : formals \in [1..m -> Name]
  BY DEF Formals
<1>2. formals \in Seq(Name) /\ Len(formals) = m
  <2>1. /\ DOMAIN formals = 1..m /\ formals = [i \in 1..m |-> formals[i]]
        /\ \A i \in 1..m : formals[i] \in Name
    BY <1>1
  <2> QED BY <2>1, OfLength
<1>3. PICK last : last = Reverse(formals)
  OBVIOUS
<1>4. last = [i \in 1..m |-> formals[(m - i) + 1]]
  BY <1>2, <1>3 DEF Reverse
<1>5. \A i \in 1..m : (m - i) + 1 \in 1..m
  BY <1>1
<1>6. /\ DOMAIN last = 1..m /\ last = [i \in 1..m |-> last[i]]
      /\ \A i \in 1..m : last[i] \in Name /\ last[i] \in ToSet(formals)
  <2>1. \A i \in 1..m : formals[i] \in Name /\ formals[i] \in ToSet(formals)
    BY <1>1 DEF ToSet
  <2> QED BY <1>4, <1>5, <2>1
<1>7. last \in Seq(Name) /\ Len(last) = m
  BY <1>1, <1>6, OfLength
<1>8. CASE IsInjective(last)
  <2>1. list = last
    BY <1>3, <1>8 DEF arguments_list
  <2> QED BY <1>1, <1>6, <1>7, <1>8, <2>1 DEF IsInjective
<1>9. CASE ~IsInjective(last)
  <2>1. list = <<last[1]>>
    BY <1>3, <1>9 DEF arguments_list
  <2>2. 1 \in 1..m
    BY <1>1, <1>6, <1>9 DEF IsInjective
  <2>3. last[1] \in Name /\ last[1] \in ToSet(formals)
    BY <1>6, <2>2
  <2>4. list \in Seq(Name) /\ Len(list) = 1 /\ list[1] = last[1] /\ DOMAIN list = 1..1
    BY <2>1, <2>3
  <2> QED BY <2>3, <2>4
<1> QED BY <1>8, <1>9

\* The formals are put in the scope of the body, where nothing is bound yet.
LEMMA FormalsPut ==
  ASSUME NEW es, NEW formals \in Formals, NEW ns, ns = ArgList_to_SymTable(es, formals),
         es \in Seq(Entry), current_scope \in Nat,
         \A k \in 1..Len(es) : es[k].isActive => es[k].scope # current_scope + 1
  PROVE  /\ Puts(es, ns, current_scope + 1) /\ Variables(es, ns)
         /\ \A k \in (Len(es) + 1)..Len(ns) : ns[k].name \in ToSet(formals)
<1>1. PICK list : list = arguments_list(formals)
  OBVIOUS
<1>2. /\ list \in Seq(Name) /\ DOMAIN list = 1..Len(list) /\ Len(list) \in Nat
      /\ \A i, j \in 1..Len(list) : list[i] = list[j] => i = j
      /\ \A i \in 1..Len(list) : list[i] \in ToSet(formals)
  BY <1>1, ArgumentsAre
<1> DEFINE s == current_scope + 1
           n == Len(es)
           m == Len(list)
           new == [i \in 1..m |-> create_SymbolTableEntry(list[i], "FORMAL", s)]
<1>3. ns = es \o new
  BY <1>1, <1>2 DEF ArgList_to_SymTable
<1>4. ASSUME NEW i \in 1..m
      PROVE  /\ new[i] \in Entry /\ new[i].name = list[i] /\ new[i].scope = s
             /\ new[i].type = "FORMAL" /\ new[i].func_is_open = FALSE
  <2>1. list[i] \in STRING
    BY <1>2, ElementOfSeq, NamesAssumption
  <2>2. s \in Nat
    OBVIOUS
  <2>3. new[i] = [name |-> list[i], type |-> "FORMAL", scope |-> s, isActive |-> TRUE,
                  func_is_open |-> FALSE]
    BY DEF create_SymbolTableEntry
  <2> HIDE DEF s, new
  <2> QED BY <2>1, <2>2, <2>3 DEF Entry
<1>5. DOMAIN new = 1..m /\ new = [i \in 1..m |-> new[i]]
  OBVIOUS
<1> HIDE DEF new
<1>6. new \in Seq(Entry) /\ Len(new) = m
  <2>1. m \in Nat /\ \A i \in 1..m : new[i] \in Entry
    BY <1>2, <1>4
  <2> HIDE DEF m
  <2> QED BY <1>5, <2>1, OfLength
<1>7. /\ ns \in Seq(Entry) /\ Len(ns) = n + m /\ n \in Nat
      /\ \A k \in 1..n : ns[k] = es[k]
      /\ \A k \in (n + 1)..Len(ns) : k - n \in 1..m /\ ns[k] = new[k - n]
  <2>1. ns \in Seq(Entry) /\ Len(ns) = n + m /\ n \in Nat
    <3>1. es \o new \in Seq(Entry) /\ Len(es \o new) = Len(es) + Len(new) /\ Len(es) \in Nat
      BY <1>6, ConcatProperties, LenProperties
    <3> QED BY <1>3, <1>6, <3>1
  <2>2. \A k \in 1..(n + m) : ns[k] = IF k <= n THEN es[k] ELSE new[k - n]
    BY <1>2, <1>3, <1>6, <2>1
  <2> QED BY <1>2, <2>1, <2>2
<1>8. ASSUME NEW k \in (n + 1)..Len(ns)
      PROVE  /\ ns[k].name = list[k - n] /\ ns[k].scope = s /\ k - n \in 1..m
             /\ ns[k].type = "FORMAL" /\ ns[k].func_is_open = FALSE
  BY <1>4, <1>7
<1>9. ASSUME NEW k \in (n + 1)..Len(ns), NEW j \in 1..Len(ns), ns[j].isActive,
             ns[j].scope = s, ns[j].name = ns[k].name
      PROVE  j = k
  <2>1. j \notin 1..n
    BY <1>7, <1>9
  <2>2. j \in (n + 1)..Len(ns)
    BY <1>2, <1>7, <2>1
  <2>3. list[j - n] = list[k - n] /\ j - n \in 1..m /\ k - n \in 1..m
    BY <1>8, <1>9, <2>2
  <2>4. j - n = k - n
    BY <1>2, <2>3
  <2> QED BY <1>2, <1>7, <2>2, <2>4
<1>10. Len(ns) >= n
  BY <1>2, <1>7
<1> HIDE DEF s
<1>11. Puts(es, ns, s)
  BY <1>7, <1>8, <1>9, <1>10 DEF Puts
<1>12. Variables(es, ns)
  BY <1>8 DEF Variables
<1>13. \A k \in (n + 1)..Len(ns) : ns[k].name \in ToSet(formals)
  BY <1>2, <1>8
<1> QED BY <1>11, <1>12, <1>13 DEF s

\* As long as the rules are kept, formals are refused if and only if they break
\* one.
LEMMA FormalsRight ==
  ASSUME Inv, NEW formals \in Formals, Lawful(entries, frames),
         ~ConfusingFormals(formals)
  PROVE  idlist_fails(formals) <=> BreaksFormals(formals)
<1>1. PICK n \in 0..2 : formals \in [1..n -> Name]
  BY DEF Formals
<1>2. /\ Len(formals) = n /\ DOMAIN formals = 1..n
      /\ ToSet(formals) = {formals[i] : i \in 1..n}
      /\ formals # <<>> <=> n > 0
  <2>1. formals \in Seq(Name) /\ Len(formals) = n
    BY <1>1, OfLength
  <2> QED BY <1>1, <2>1, EmptySeq DEF ToSet
<1>3. ASSUME NEW i \in 1..n
      PROVE  IsLibrary(formals[i]) <=> formals[i] \in ToSet(Lib)
  BY <1>1, <1>3, LibraryIs, Holds
<1>4. ASSUME NEW i \in 2..n
      PROVE  SymTable_contains(formals[i], 0) /\ IsFunction(SymTable_get(formals[i]))
               <=> formals[i] \in ToSet(Lib)
  <2>1. ~(SymTable_contains(formals[i], 0)
            /\ entries[SymTable_get(formals[i])].type = "USERFUNC")
    BY <1>2, <1>4 DEF ConfusingFormals
  <2>2. IsLibrary(formals[i]) <=> formals[i] \in ToSet(Lib)
    BY <1>3, <1>4
  <2> QED BY <2>1, <2>2 DEF IsLibrary, IsFunction
<1>5. ToSet(formals) \cap ToSet(Lib) # {}
        <=> \E i \in 1..n : formals[i] \in ToSet(Lib)
  BY <1>2
<1>6. (\E i \in 1..n : formals[i] \in ToSet(Lib))
        <=> \/ n > 0 /\ formals[1] \in ToSet(Lib)
            \/ \E i \in 2..n : formals[i] \in ToSet(Lib)
  BY <1>1
<1>7. idlist_fails(formals)
        <=> \/ n > 0 /\ formals[1] \in ToSet(Lib)
            \/ \E i \in 2..n : formals[i] \in ToSet(Lib)
            \/ ~IsInjective(formals)
  BY <1>1, <1>2, <1>3, <1>4 DEF idlist_fails
<1> QED BY <1>5, <1>6, <1>7 DEF BreaksFormals

\* A function begins; its name is bound where it is free.
LEMMA FunctionStartStep ==
  ASSUME Inv, ~confused, ~freed, NEW n \in STRING, NEW formals \in Formals,
         NEW taken \in BOOLEAN, FunctionStart(n, formals, taken),
         Numbered(frames', nameless_func_count'),
         taken => \/ SymTable_contains(n, current_scope)
                  \/ SymTable_get(n) # 0 /\ entries[SymTable_get(n)].type = "LIBFUNC",
         ~taken => /\ n \in Name => ~SymTable_contains(n, current_scope)
                   /\ Lawful(entries, frames) => n \notin ToSet(Lib)
  PROVE  Inv'
<1> DEFINE m == Len(entries)
<1>1. PICK f : f = Frame("function", m + IF taken THEN 0 ELSE 1, ~taken, New(n))
  OBVIOUS
<1>2. PICK e : e = create_SymbolTableEntry(n, "USERFUNC", current_scope)
  OBVIOUS
<1>3. PICK bound : bound = SymTable_put(e)
  OBVIOUS
<1>4. /\ block_stack' = Append(block_stack, "FUNC_BLOCK")
      /\ entries' = IF taken THEN entries ELSE ArgList_to_SymTable(bound, formals)
      /\ current_scope' = current_scope + 1
      /\ frames' = Append(frames, f)
      /\ Verdict(idlist_fails(formals) \/ taken, taken \/ BreaksFormals(formals))
      /\ confused' = (confused \/ ConfusingFormals(formals))
      /\ UNCHANGED <<freed, global_only>>
  BY <1>1, <1>2, <1>3 DEF FunctionStart, Push
<1>5. /\ Flags /\ Tabled(entries, frames) /\ entries \in Seq(Entry) /\ m \in Nat
      /\ DOMAIN entries = 1..m /\ current_scope \in Nat /\ current_scope = Here(frames)
      /\ Scoped(entries, frames)
  BY Holds DEF Tabled
<1>6. /\ f \in FrameType /\ f.kind = "function" /\ f.put = ~taken /\ f.value.name = n
      /\ f.first = m + IF taken THEN 0 ELSE 1
  <2>1. New(n) \in Value /\ New(n).name = n
    BY DEF New, Value
  <2>2. m + (IF taken THEN 0 ELSE 1) \in Nat
    BY <1>5
  <2>3. "function" \in Scopes
    BY DEF Scopes
  <2> HIDE DEF m
  <2> QED BY <1>1, <2>1, <2>2, <2>3 DEF Frame, FrameType
<1>7. f.kind \in Scopes /\ f.kind \in Blocks /\ Mark(f.kind) = "FUNC_BLOCK"
  BY <1>6 DEF Scopes, Blocks, Mark
<1>8. /\ Extended(frames, frames') /\ frames'[Len(frames')] = f
      /\ Here(frames') = current_scope + 1 /\ Depth(frames', Len(frames')) = Here(frames')
      /\ Tracks(block_stack', frames')
  <2>1. /\ Extended(frames, frames') /\ frames'[Len(frames')] = f
        /\ Here(frames') = current_scope + IF f.kind \in Scopes THEN 1 ELSE 0
        /\ Depth(frames', Len(frames')) = Here(frames')
        /\ f.kind \in Blocks => Tracks(Append(block_stack, Mark(f.kind)), frames')
    BY <1>4, <1>6, FramePushed
  <2> QED BY <1>4, <1>7, <2>1
<1> HIDE DEF m
<1>9. ASSUME taken PROVE Tabled(entries', frames')
  <2>1. entries' = entries /\ f.first = m /\ ~f.put
    <3>1. entries' = entries
      BY <1>4, <1>9
    <3>2. f.first = m
      BY <1>5, <1>6, <1>9
    <3>3. ~f.put
      BY <1>6, <1>9
    <3> QED BY <3>1, <3>2, <3>3
  <2>2. PICK k \in Active(n) :
          \/ entries[k].scope = current_scope
          \/ entries[k].type = "LIBFUNC" /\ \A j \in Active(n) : j <= k
    <3>1. CASE SymTable_contains(n, current_scope)
      BY <3>1, ContainsIs
    <3>2. CASE SymTable_get(n) # 0 /\ entries[SymTable_get(n)].type = "LIBFUNC"
      BY <1>5, <3>2, GetIs
    <3> QED BY <1>9, <3>1, <3>2
  <2>3. k \in 1..m /\ entries[k].isActive /\ entries[k].name = n /\ k \in Nat
    BY <1>5, ActiveIs
  <2>4. ASSUME entries[k].type = "LIBFUNC", \A j \in Active(n) : j <= k,
               NEW j \in (k + 1)..m
        PROVE  ~(entries[j].isActive /\ entries[j].name = n)
    <3>1. j \in DOMAIN entries /\ ~(j <= k)
      BY <1>5, <2>3
    <3>2. j \notin Active(n)
      BY <2>4, <3>1
    <3> QED BY <3>1, <3>2 DEF Active
  <2>5. Depth(frames', Len(frames')) - 1 = current_scope
    BY <1>5, <1>8
  <2>6. WasTaken(entries, frames', Len(frames'))
    BY <1>6, <1>8, <2>1, <2>2, <2>3, <2>4, <2>5 DEF WasTaken
  <2>7. /\ f.kind \notin {"block", "header", "loop"} /\ f.kind \notin PutAsides
    BY <1>6 DEF PutAsides
  <2> QED BY <1>5, <1>8, <2>1, <2>6, <2>7, TabledPush DEF m
<1>10. ASSUME ~taken
       PROVE  /\ Tabled(entries', frames')
              /\ Lawful(entries, frames) /\ ~BreaksFormals(formals) =>
                   Lawful(entries', frames')
  <2>1. entries' = ArgList_to_SymTable(bound, formals) /\ f.first = m + 1 /\ f.put
    BY <1>4, <1>5, <1>6, <1>10
  <2>2. /\ e \in Entry /\ e.name = n /\ e.type = "USERFUNC" /\ e.scope = current_scope
        /\ e.isActive /\ e.func_is_open
    BY <1>2, <1>5 DEF create_SymbolTableEntry, Entry
  <2>3. /\ bound \in Seq(Entry) /\ Len(bound) = m + 1 /\ bound[m + 1] = e
        /\ \A k \in 1..m : bound[k] = entries[k]
    BY <1>3, <1>5, <2>2, AppendProperties DEF SymTable_put, m
  <2>4. ASSUME NEW j \in 1..m, entries[j].isActive, entries[j].scope = current_scope,
               entries[j].name = n, n \in Name
        PROVE  FALSE
    <3>1. ~SymTable_contains(n, current_scope)
      BY <1>10, <2>4
    <3> QED BY <1>5, <2>4, <3>1, ContainsIs DEF Active
  <2>5. Puts(entries, bound, Here(frames))
    <3>1. ASSUME NEW j \in 1..(m + 1), bound[j].isActive, bound[j].scope = current_scope,
                 bound[j].name = n, bound[j].name \in Name
          PROVE  j = m + 1
      BY <1>5, <2>3, <2>4, <3>1
    <3>2. \A k \in (m + 1)..(m + 1) : k = m + 1
      BY <1>5
    <3> QED BY <1>5, <2>2, <2>3, <3>1, <3>2 DEF Puts, m
  <2>6. Tabled(bound, frames')
    BY <1>5, <1>6, <1>8, <2>1, <2>2, <2>3, <2>5, TabledFunction DEF m
  <2>7. ASSUME NEW k \in 1..Len(bound), bound[k].isActive
        PROVE  bound[k].scope # current_scope + 1
    <3>1. Scoped(bound, frames') /\ DOMAIN bound = 1..Len(bound)
      BY <2>3, <2>6, Sequences DEF Tabled
    <3>2. Len(frames') \in 1..Len(frames')
      BY <1>8, Sequences DEF Extended
    <3>3. k > f.first <=> bound[k].scope >= current_scope + 1
      BY <1>7, <1>8, <2>7, <3>1, <3>2 DEF Scoped
    <3>4. k \in Nat /\ ~(k > f.first) /\ bound[k].scope \in Nat
      BY <1>5, <2>1, <2>3, Fields
    <3> QED BY <1>5, <3>3, <3>4
  <2>8. /\ Puts(bound, entries', Here(frames')) /\ Variables(bound, entries')
        /\ \A k \in (Len(bound) + 1)..Len(entries') : entries'[k].name \in ToSet(formals)
    BY <1>5, <1>8, <2>1, <2>3, <2>7, FormalsPut
  <2>9. Tabled(entries', frames')
    BY <2>6, <2>8, TabledPut
  <2>10. ASSUME Lawful(entries, frames), ~BreaksFormals(formals)
         PROVE  Lawful(entries', frames')
    <3>1. Lawful(entries, frames')
      BY <1>8, <2>1, <2>10, LawfulPush
    <3>2. ToSet(formals) \cap ToSet(Lib) = {} /\ n \notin ToSet(Lib)
      BY <1>10, <2>10 DEF BreaksFormals
    <3>3. /\ entries' \in Seq(Entry) /\ Len(entries') \in Nat /\ DOMAIN entries' = 1..Len(entries')
          /\ \A k \in 1..(m + 1) : entries'[k] = bound[k]
      BY <2>3, <2>8, Sequences DEF Puts
    <3>4. ASSUME NEW k \in DOMAIN entries', entries'[k].isActive,
                 entries'[k].name \in ToSet(Lib)
          PROVE  entries'[k].type = "LIBFUNC"
      <4>1. CASE k \in 1..m
        <5>1. entries'[k] = entries[k]
          BY <1>5, <2>3, <3>3, <4>1
        <5> QED BY <1>5, <2>10, <3>4, <4>1, <5>1 DEF Lawful
      <4>2. CASE k = m + 1
        BY <1>5, <2>2, <2>3, <3>2, <3>3, <3>4, <4>2
      <4>3. CASE k \in (Len(bound) + 1)..Len(entries')
        BY <2>8, <3>2, <3>4, <4>3
      <4>4. k \in 1..m \/ k = m + 1 \/ k \in (Len(bound) + 1)..Len(entries')
        BY <1>5, <2>3, <3>3
      <4> QED BY <4>1, <4>2, <4>3, <4>4
    <3> QED BY <3>1, <3>4 DEF Lawful
  <2> QED BY <2>9, <2>10
<1> DEFINE wrong == idlist_fails(formals) \/ taken
           breaks == taken \/ BreaksFormals(formals)
<1>11. /\ ERROR_FLAG' = (ERROR_FLAG \/ wrong) /\ broken' = (broken \/ breaks)
       /\ wrong \in BOOLEAN /\ breaks \in BOOLEAN
       /\ idlist_fails(formals) \in BOOLEAN /\ BreaksFormals(formals) \in BOOLEAN
  BY <1>4 DEF Verdict, idlist_fails, BreaksFormals
<1>12. Lawful(entries, frames) /\ ~confused' =>
         (idlist_fails(formals) <=> BreaksFormals(formals))
  BY <1>4, FormalsRight
<1>13. Lawful(entries, frames) /\ ~confused' =>
         /\ wrong <=> breaks
         /\ ~wrong => Lawful(entries', frames')
  BY <1>10, <1>11, <1>12
<1>14. Tabled(entries', frames')
  BY <1>9, <1>10
<1>15. confused' \in BOOLEAN /\ freed' \in BOOLEAN /\ global_only' \in BOOLEAN /\ ~freed'
  BY <1>4, <1>5 DEF Flags, ConfusingFormals
<1> HIDE DEF wrong, breaks
<1>16. current_scope' = Here(frames')
  BY <1>4, <1>8
<1> QED BY <1>8, <1>11, <1>13, <1>14, <1>15, <1>16, Follows

\* The frame of a function that begins
LEMMA FunctionFrame ==
  ASSUME Inv, NEW n \in STRING, NEW formals \in Formals, NEW taken \in BOOLEAN,
         FunctionStart(n, formals, taken)
  PROVE  /\ Extended(frames, frames')
         /\ frames'[Len(frames')].kind = "function" /\ frames'[Len(frames')].put = ~taken
         /\ frames'[Len(frames')].value.name = n
<1>1. PICK f : f = Frame("function", Len(entries) + IF taken THEN 0 ELSE 1, ~taken, New(n))
  OBVIOUS
<1>2. frames' = Append(frames, f)
  BY <1>1 DEF FunctionStart, Push
<1>3. frames \in Seq(FrameType) /\ Len(entries) \in Nat
  BY Holds
<1>4. /\ f \in FrameType /\ f.kind = "function" /\ f.put = ~taken /\ f.value.name = n
  <2>1. New(n) \in Value /\ New(n).name = n
    BY DEF New, Value
  <2>2. Len(entries) + (IF taken THEN 0 ELSE 1) \in Nat
    BY <1>3
  <2>3. "function" \in Scopes
    BY DEF Scopes
  <2> QED BY <1>1, <2>1, <2>2, <2>3 DEF Frame, FrameType
<1> QED BY <1>2, <1>3, <1>4, PushedIs

\* A function with a name begins.
LEMMA NamedFunctionStep ==
  ASSUME Inv, ~confused, ~freed, NEW n \in Name, NEW formals \in Formals,
         NamedFunction(n, formals)
  PROVE  Inv'
<1> DEFINE taken == \/ SymTable_contains(n, current_scope)
                    \/ SymTable_get(n) # 0 /\ entries[SymTable_get(n)].type = "LIBFUNC"
<1>1. /\ FunctionStart(n, formals, taken) /\ UNCHANGED nameless_func_count
      /\ taken \in BOOLEAN /\ n \in STRING
  BY NamesAssumption DEF NamedFunction, SymTable_contains
<1>2. Ready /\ Numbered(frames, nameless_func_count)
  BY Holds
<1>3. Lawful(entries, frames) /\ n \in ToSet(Lib) => taken
  BY <1>2, LibraryIs
<1>4. taken => \/ SymTable_contains(n, current_scope)
               \/ SymTable_get(n) # 0 /\ entries[SymTable_get(n)].type = "LIBFUNC"
  OBVIOUS
<1>5. ~taken => ~SymTable_contains(n, current_scope)
  OBVIOUS
<1> HIDE DEF taken
<1>6. /\ Extended(frames, frames') /\ frames'[Len(frames')].value.name = n
  BY <1>1, FunctionFrame
<1>7. ~Nameless(frames', Len(frames'))
  BY <1>6, NamesAssumption DEF Nameless, IsAnonymous
<1>8. Numbered(frames', nameless_func_count')
  BY <1>1, <1>2, <1>6, <1>7, NumberedBeside
<1> QED BY <1>1, <1>3, <1>4, <1>5, <1>8, FunctionStartStep

\* A function without a name begins.
LEMMA AnonymousFunctionStep ==
  ASSUME Inv, ~confused, ~freed, NEW formals \in Formals, AnonymousFunction(formals)
  PROVE  Inv'
<1>1. PICK n : n = AnonymousName(nameless_func_count)
  OBVIOUS
<1>2. /\ FunctionStart(n, formals, FALSE) /\ nameless_func_count < Len(AnonymousNames)
      /\ nameless_func_count' = nameless_func_count + 1
  BY <1>1 DEF AnonymousFunction
<1>3. Numbered(frames, nameless_func_count) /\ frames \in Seq(FrameType)
  BY Holds
<1>4. nameless_func_count \in Nat
  BY <1>3, NamelessStep, Sequences DEF Numbered
<1>5. n \in STRING /\ n \in ToSet(AnonymousNames)
  <2>1. nameless_func_count + 1 \in 1..Len(AnonymousNames)
    <3>1. Len(AnonymousNames) \in Nat
      BY NamesAssumption, LenProperties
    <3> QED BY <1>2, <1>4, <3>1
  <2>2. DOMAIN AnonymousNames = 1..Len(AnonymousNames) /\ n = AnonymousNames[nameless_func_count + 1]
    BY <1>1, NamesAssumption, LenProperties DEF AnonymousName
  <2>3. n \in STRING
    BY <2>1, <2>2, NamesAssumption, ElementOfSeq
  <2> QED BY <2>1, <2>2, <2>3 DEF ToSet
<1>6. n \notin Name /\ n \notin ToSet(Lib)
  <2>1. ToSet(Lib) \subseteq Name
    BY LibAssumption, Sequences DEF ToSet
  <2> QED BY <1>5, <2>1, NamesAssumption
<1>7. /\ Extended(frames, frames') /\ frames'[Len(frames')].kind = "function"
      /\ frames'[Len(frames')].put /\ frames'[Len(frames')].value.name = n
  BY <1>2, <1>5, FunctionFrame
<1>8. Nameless(frames', Len(frames'))
  BY <1>5, <1>7 DEF Nameless, IsAnonymous
<1>9. Numbered(frames', nameless_func_count')
  BY <1>1, <1>2, <1>3, <1>7, <1>8, NumberedPush
<1> QED BY <1>2, <1>5, <1>6, <1>9, FunctionStartStep

\* The function that ends is the one that is found by its name.
LEMMA FoundIs ==
  ASSUME Inv, Top = "function", NEW f, f = Last(frames)
  PROVE  /\ Numbered(Front(frames), CountAtEnd(f))
         /\ FoundAtEnd(f) \in DOMAIN entries /\ FoundAtEnd(f) # 0
         /\ IF f.put THEN FoundAtEnd(f) = f.first ELSE ~entries[FoundAtEnd(f)].func_is_open
<1> DEFINE n == Len(frames)
<1>1. PICK gr : gr = Front(frames)
  OBVIOUS
<1>2. /\ Extended(gr, frames) /\ frames[n] = f /\ f \in FrameType /\ f.kind = "function"
      /\ n \in 1..n /\ Depth(frames, n) = current_scope
  <2>1. Top # "program"
    OBVIOUS
  <2> QED BY <1>1, <2>1, FramePopped
<1>3. /\ Numbered(frames, nameless_func_count) /\ Scoped(entries, frames)
      /\ Opened(entries, frames) /\ current_scope \in Nat /\ current_scope = Here(frames)
      /\ entries \in Seq(Entry) /\ Len(entries) \in Nat /\ DOMAIN entries = 1..Len(entries)
      /\ frames \in Seq(FrameType)
  BY Holds DEF Tabled
<1>4. Numbered(gr, CountAtEnd(f)) /\ NameAtEnd(f) = f.value.name
  <2>1. Nameless(frames, n) <=> IsAnonymous(f)
    BY <1>2 DEF Nameless
  <2>2. /\ ~Nameless(frames, n) => Numbered(gr, nameless_func_count)
        /\ Nameless(frames, n) =>
             /\ Numbered(gr, nameless_func_count - 1)
             /\ frames[n].value.name = AnonymousName(nameless_func_count - 1)
    BY <1>2, <1>3, NumberedPop
  <2> QED BY <1>2, <2>1, <2>2 DEF CountAtEnd, NameAtEnd, nameless_after_close
<1> DEFINE S == {k \in Active(NameAtEnd(f)) : entries[k].scope # current_scope}
<1>5. \A k : k \in S <=> /\ k \in DOMAIN entries /\ entries[k].isActive
                         /\ entries[k].name = f.value.name /\ entries[k].scope # current_scope
  BY <1>4 DEF Active
<1>6. ASSUME NEW k \in DOMAIN entries, entries[k].isActive
      PROVE  /\ k > f.first <=> entries[k].scope >= current_scope
             /\ entries[k].scope <= current_scope /\ entries[k].scope \in Nat /\ k \in Nat
             /\ f.first \in Nat
  <2>1. k > f.first <=> entries[k].scope >= current_scope
    BY <1>2, <1>3, <1>6 DEF Scoped, Scopes
  <2>2. entries[k].scope <= current_scope
    BY <1>3, <1>6 DEF Scoped
  <2>3. entries[k].scope \in Nat /\ k \in Nat
    BY <1>3, <1>6, Fields
  <2>4. f.first \in Nat
    BY <1>2 DEF FrameType
  <2> QED BY <2>1, <2>2, <2>3, <2>4
<1>7. FoundAtEnd(f) = NewestOf(S)
  BY DEF FoundAtEnd
<1> HIDE DEF S
<1>8. \A k \in S : k <= f.first /\ k \in Nat
  <2> SUFFICES ASSUME NEW k \in S PROVE k <= f.first /\ k \in Nat
    OBVIOUS
  <2>1. k \in DOMAIN entries /\ entries[k].isActive /\ entries[k].scope # current_scope
    BY <1>5
  <2>2. /\ k > f.first <=> entries[k].scope >= current_scope
        /\ entries[k].scope <= current_scope /\ entries[k].scope \in Nat /\ k \in Nat
        /\ f.first \in Nat
    BY <1>6, <2>1
  <2> QED BY <1>3, <2>1, <2>2
<1>9. CASE f.put
  <2>1. HasEntry(entries, frames, n)
    BY <1>2, <1>3, <1>9 DEF Opened
  <2>2. f.first \in S
    BY <1>2, <1>3, <1>5, <2>1 DEF HasEntry
  <2>3. S \subseteq Nat /\ \A k \in S : f.first >= k
    BY <1>8, <2>2
  <2>4. Max(S) = f.first
    BY <2>2, <2>3, MaxIs
  <2>5. FoundAtEnd(f) = f.first /\ f.first \in DOMAIN entries
    BY <1>5, <1>7, <2>2, <2>4 DEF NewestOf
  <2> QED BY <1>1, <1>3, <1>4, <1>9, <2>5
<1>10. CASE ~f.put
  <2>1. WasTaken(entries, frames, n)
    BY <1>2, <1>3, <1>10 DEF Opened
  <2>2. PICK k \in 1..f.first :
          /\ entries[k].isActive /\ entries[k].name = f.value.name
          /\ \/ entries[k].scope = current_scope - 1
             \/ /\ entries[k].type = "LIBFUNC"
                /\ \A j \in (k + 1)..f.first :
                     ~(entries[j].isActive /\ entries[j].name = f.value.name)
    BY <1>2, <2>1 DEF WasTaken
  <2>3. k \in DOMAIN entries /\ k \in Nat /\ f.first \in Nat
    <3>1. f.first \in Nat /\ f.first <= Len(entries)
      <4>1. Nested(entries, frames)
        BY DEF Inv
      <4> QED BY <1>2, <4>1 DEF Nested, FrameType
    <3> QED BY <1>3, <2>2, <3>1
  <2>4. k \in S
    <3>1. ~(k > f.first)
      BY <2>2, <2>3
    <3>2. entries[k].scope # current_scope
      BY <1>3, <1>6, <2>2, <2>3, <3>1
    <3> QED BY <1>5, <2>2, <2>3, <3>2
  <2>5. PICK g : g = Max(S)
    OBVIOUS
  <2>6. g \in S /\ \A j \in S : g >= j
    <3>1. S \subseteq 0..f.first
      BY <1>8, <2>3
    <3> QED BY <2>3, <2>4, <2>5, <3>1, MaxIsLast
  <2>7. FoundAtEnd(f) = g /\ g \in DOMAIN entries /\ g # 0
    BY <1>3, <1>5, <1>7, <2>4, <2>5, <2>6 DEF NewestOf
  <2>8. /\ entries[g].isActive /\ entries[g].name = f.value.name
        /\ entries[g].scope # current_scope /\ entries[g].scope \in Nat
        /\ entries[g].scope <= current_scope /\ g \in Nat /\ g <= f.first /\ g >= k
    BY <1>5, <1>6, <1>8, <2>4, <2>6
  <2>9. ASSUME entries[g].func_is_open PROVE FALSE
    <3>1. PICK i \in 1..n : frames[i].kind = "function" /\ frames[i].put /\ frames[i].first = g
      BY <1>3, <2>7, <2>9 DEF Opened
    <3>2. HasEntry(entries, frames, i)
      BY <1>3, <3>1 DEF Opened
    <3>3. entries[g].type = "USERFUNC" /\ entries[g].scope = Depth(frames, i) - 1
      BY <3>1, <3>2 DEF HasEntry
    <3>4. i \in 1..(n - 1)
      BY <1>2, <1>10, <3>1
    <3>5. Depth(frames, i) < current_scope /\ Depth(frames, i) \in 0..current_scope
      BY <1>2, <1>3, <3>1, <3>4, Around DEF Scopes
    <3>6. CASE entries[k].scope = current_scope - 1
      <4>1. entries[k].scope <= entries[g].scope
        <5>1. CASE k = g
          BY <2>8, <5>1
        <5>2. CASE k < g
          BY <1>3, <2>2, <2>3, <2>7, <2>8, <5>2 DEF Scoped
        <5> QED BY <2>3, <2>8, <5>1, <5>2
      <4> QED BY <1>3, <2>8, <3>3, <3>5, <3>6, <4>1
    <3>7. CASE /\ entries[k].type = "LIBFUNC"
               /\ \A j \in (k + 1)..f.first :
                    ~(entries[j].isActive /\ entries[j].name = f.value.name)
      <4>1. g \notin (k + 1)..f.first
        BY <2>8, <3>7
      <4>2. g = k
        BY <2>3, <2>8, <4>1
      <4> QED BY <3>3, <3>7, <4>2
    <3> QED BY <2>2, <3>6, <3>7
  <2> QED BY <1>1, <1>4, <1>10, <2>7, <2>9
<1> QED BY <1>9, <1>10

\* A function ends.
LEMMA FunctionEndStep ==
  ASSUME Inv, ~confused, ~freed, NEW operand \in BOOLEAN, FunctionEnd(operand)
  PROVE  Inv'
<1>1. PICK f : f = Last(frames)
  OBVIOUS
<1>2. PICK g : g = FoundAtEnd(f)
  OBVIOUS
<1>3. /\ Top = "function" /\ frames' = Front(frames)
      /\ entries' = [SymList_deactivate(current_scope) EXCEPT ![g].func_is_open = FALSE]
      /\ current_scope' = current_scope - 1
      /\ block_stack' = Front(block_stack)
      /\ nameless_func_count' = CountAtEnd(f)
      /\ ERROR_FLAG' = (ERROR_FLAG \/ operand) /\ broken' = (broken \/ operand)
      /\ UNCHANGED <<freed, global_only, confused>>
  BY <1>1, <1>2 DEF FunctionEnd, Pop, stack_pop, Verdict
<1>4. /\ Tabled(entries, frames) /\ entries \in Seq(Entry) /\ DOMAIN entries = 1..Len(entries)
  BY Holds
<1>5. /\ Extended(frames', frames) /\ frames[Len(frames)] = f /\ f.kind = "function"
      /\ current_scope = Here(frames') + IF f.kind \in Scopes THEN 1 ELSE 0
      /\ Here(frames') \in Nat
      /\ f.kind \in Blocks => Tracks(Front(block_stack), frames')
  <2>1. Top # "program"
    BY <1>3
  <2> QED BY <1>1, <1>3, <2>1, FramePopped
<1>6. f.kind \in Scopes /\ f.kind \in Blocks
  BY <1>5 DEF Scopes, Blocks
<1>7. /\ Numbered(frames', nameless_func_count') /\ g \in DOMAIN entries
      /\ IF f.put THEN g = f.first ELSE ~entries[g].func_is_open
  BY <1>1, <1>2, <1>3, FoundIs
<1>8. Leaves(entries, entries', Here(frames), g)
  BY <1>3, <1>7, Deactivated
<1>9. Tabled(entries', frames')
  <2>1. IF f.kind = "function" /\ f.put THEN g = f.first
        ELSE \A k \in DOMAIN entries : entries[k].func_is_open => k # g
    BY <1>5, <1>7
  <2> QED BY <1>4, <1>5, <1>6, <1>8, <2>1, TabledLeave
<1>10. Lawful(entries, frames) => Lawful(entries', frames')
  BY <1>4, <1>5, <1>8, LawfulLeave
<1>11. current_scope' = Here(frames') /\ Tracks(block_stack', frames')
  BY <1>3, <1>5, <1>6
<1>12. confused' \in BOOLEAN /\ freed' \in BOOLEAN /\ global_only' \in BOOLEAN /\ ~freed'
  BY <1>3, Holds DEF Flags
<1> QED BY <1>3, <1>7, <1>9, <1>10, <1>11, <1>12, Follows

-----------------------------------------------------------------------------
(* The invariant and the properties *)

\* Nothing has been read, and there is the library only.
LEMMA InitInv == Init => Inv
<1> SUFFICES ASSUME Init PROVE Inv
  OBVIOUS
<1>1. /\ entries = SymTable_init_lib_functions /\ current_scope = 0
      /\ nameless_func_count = 0 /\ block_stack = <<>> /\ frames = <<>>
      /\ global_only = FALSE /\ ERROR_FLAG = FALSE /\ freed = FALSE
      /\ broken = FALSE /\ confused = FALSE
  BY DEF Init
<1>2. frames \in Seq(FrameType) /\ Len(frames) = 0 /\ DOMAIN frames = {}
  BY <1>1
<1>3. Here(frames) = 0 /\ Count(frames, Blocks, Len(frames)) = 0
      /\ CountNameless(frames, Len(frames)) = 0
  BY <1>2, CountStep, NamelessStep DEF Here, Depth
<1>4. Lib \in Seq(Name) /\ DOMAIN Lib = 1..Len(Lib) /\ Len(Lib) \in Nat
      /\ \A i, j \in 1..Len(Lib) : Lib[i] = Lib[j] => i = j
  BY LibAssumption, Sequences DEF IsInjective
<1>5. ASSUME NEW i \in 1..Len(Lib)
      PROVE  /\ entries[i] \in Entry /\ entries[i].name = Lib[i] /\ entries[i].scope = 0
             /\ entries[i].type = "LIBFUNC" /\ entries[i].isActive
             /\ entries[i].func_is_open = FALSE
  <2>1. Lib[i] \in STRING
    BY <1>4, ElementOfSeq, NamesAssumption
  <2>2. entries[i] = [name |-> Lib[i], type |-> "LIBFUNC", scope |-> 0, isActive |-> TRUE,
                      func_is_open |-> FALSE]
    BY <1>1, <1>4 DEF SymTable_init_lib_functions, create_SymbolTableEntry
  <2> QED BY <2>1, <2>2 DEF Entry
<1>6. entries \in Seq(Entry) /\ Len(entries) = Len(Lib) /\ DOMAIN entries = 1..Len(Lib)
  <2>1. DOMAIN entries = 1..Len(Lib) /\ entries = [i \in 1..Len(Lib) |-> entries[i]]
    BY <1>1, <1>4 DEF SymTable_init_lib_functions
  <2>2. \A i \in 1..Len(Lib) : entries[i] \in Entry
    BY <1>5
  <2>3. Len(Lib) \in Nat
    BY <1>4
  <2> HIDE <1>1
  <2> QED BY <2>1, <2>2, <2>3, OfLength
<1>7. \A k \in DOMAIN entries :
         /\ entries[k].name = Lib[k] /\ entries[k].scope = 0 /\ entries[k].type = "LIBFUNC"
         /\ ~entries[k].func_is_open
  <2>1. \A i \in 1..Len(Lib) :
          /\ entries[i].name = Lib[i] /\ entries[i].scope = 0 /\ entries[i].type = "LIBFUNC"
          /\ ~entries[i].func_is_open
    BY <1>5
  <2> QED BY <1>6, <2>1
<1>8. Nested(entries, frames)
  BY <1>2 DEF Nested
<1>9. Tracks(block_stack, frames)
  <2>1. block_stack \in Seq(Marks) /\ Len(block_stack) = 0
    BY <1>1
  <2> QED BY <1>2, <1>3, <2>1 DEF Tracks
<1>10. Numbered(frames, nameless_func_count)
  BY <1>1, <1>2, <1>3 DEF Numbered
<1>11. Scoped(entries, frames)
  <2>1. \A j, k \in DOMAIN entries : entries[j].name = entries[k].name => j = k
    BY <1>4, <1>6, <1>7
  <2>2. \A k \in DOMAIN entries : entries[k].scope = 0 /\ k \in Nat
    BY <1>6, <1>7
  <2>3. entries \in Seq(Entry)
    BY <1>6
  <2> QED BY <1>2, <1>3, <2>1, <2>2, <2>3 DEF Scoped
<1>12. Opened(entries, frames)
  BY <1>2, <1>7 DEF Opened
<1>13. Libraries(entries)
  <2>1. \A i \in 1..Len(Lib) :
          /\ entries[i].name = Lib[i] /\ entries[i].type = "LIBFUNC"
          /\ entries[i].scope = 0 /\ entries[i].isActive
    BY <1>5
  <2>2. \A k \in DOMAIN entries : k <= Len(Lib)
    BY <1>4, <1>6
  <2>3. \A i \in 1..Len(Lib) : i \in DOMAIN entries
    BY <1>6
  <2> QED BY <2>1, <2>2, <2>3 DEF Libraries
<1>14. PutsAside(entries, frames)
  BY <1>2 DEF PutsAside
<1>15. Lawful(entries, frames)
  BY <1>2, <1>7 DEF Lawful
<1>16. Flags /\ VerdictRight
  BY <1>1 DEF Flags, VerdictRight
<1> QED BY <1>1, <1>3, <1>8, <1>9, <1>10, <1>11, <1>12, <1>13, <1>14, <1>15, <1>16 DEF Inv

\* Every step keeps the invariant.
LEMMA NextInv == Inv /\ [Next]_vars => Inv'
<1> SUFFICES ASSUME Inv, [Next]_vars PROVE Inv'
  OBVIOUS
<1>1. CASE UNCHANGED vars
  <2>1. UNCHANGED <<entries, nameless_func_count, freed, current_scope, global_only,
                    block_stack, ERROR_FLAG, frames, broken, confused>>
    BY <1>1 DEF vars, table
  <2> QED BY <2>1 DEF Inv, Flags, VerdictRight
<1>2. CASE ~freed /\ ~confused /\ Step
  <2>1. ASSUME NEW how \in {"ID", "LOCAL", "DOUBLE_COLON"}, NEW n \in Name,
               \/ \E operand \in BOOLEAN : UseVariable(how, n, operand)
               \/ StepVariable(how, n) \/ Member(how, n)
               \/ AssignmentStart(how, n) \/ CallStart(how, n)
        PROVE  Inv'
    <3>1. ASSUME NEW operand \in BOOLEAN, UseVariable(how, n, operand) PROVE Inv'
      BY <1>2, <3>1, UseVariableStep
    <3>2. CASE StepVariable(how, n)
      BY <1>2, <3>2, StepVariableStep
    <3>3. CASE Member(how, n)
      BY <1>2, <3>3, MemberStep
    <3>4. CASE AssignmentStart(how, n)
      BY <1>2, <3>4, PutByStep DEF AssignmentStart, PutAsides
    <3>5. CASE CallStart(how, n)
      BY <1>2, <3>5, PutByStep DEF CallStart, PutAsides
    <3> QED BY <2>1, <3>1, <3>2, <3>3, <3>4, <3>5
  <2>2. CASE AssignmentEnd
    BY <1>2, <2>2, AssignmentEndStep
  <2>3. CASE CallEnd
    BY <1>2, <2>3, CallEndStep
  <2>4. CASE BlockStart
    BY <1>2, <2>4, BlockStartStep
  <2>5. CASE BlockEnd
    BY <1>2, <2>5, BlockEndStep
  <2>6. CASE LoopStart
    BY <1>2, <2>6, LoopStartStep
  <2>7. CASE LoopBody
    BY <1>2, <2>7, LoopBodyStep
  <2>8. CASE LoopEnd
    BY <1>2, <2>8, LoopEndStep
  <2>9. CASE Break
    BY <1>2, <2>9, BreakStep
  <2>10. CASE Return
    BY <1>2, <2>10, ReturnStep
  <2>11. ASSUME NEW formals \in Formals, AnonymousFunction(formals) PROVE Inv'
    BY <1>2, <2>11, AnonymousFunctionStep
  <2>12. ASSUME NEW formals \in Formals, NEW n \in Name, NamedFunction(n, formals) PROVE Inv'
    BY <1>2, <2>12, NamedFunctionStep
  <2>13. ASSUME NEW operand \in BOOLEAN, FunctionEnd(operand) PROVE Inv'
    BY <1>2, <2>13, FunctionEndStep
  <2> QED BY <1>2, <2>1, <2>2, <2>3, <2>4, <2>5, <2>6, <2>7, <2>8, <2>9, <2>10, <2>11,
             <2>12, <2>13 DEF Step
<1> QED BY <1>1, <1>2 DEF Next, Stopped

\* So it always holds.
LEMMA Invariant == Spec => []Inv
BY InitInv, NextInv, PTL DEF Spec

\* The counters of scopes, of anonymous functions and of the stack agree with
\* what is being read, and whoever ends a function finds one by its name
\* (function_definition): get_entry never returns NULL there.
THEOREM SyntacticTyped == Spec => []TypeOK
<1>1. Inv => TypeOK
  <2> SUFFICES ASSUME Inv PROVE TypeOK
    OBVIOUS
  <2>1. /\ Flags /\ Tracks(block_stack, frames) /\ Numbered(frames, nameless_func_count)
        /\ current_scope = Here(frames) /\ frames \in Seq(FrameType) /\ entries \in Seq(Entry)
    BY Holds
  <2>2. DOMAIN frames = 1..Len(frames)
    BY <2>1, Sequences
  <2>3. current_scope = Cardinality(Kinds({"block", "loop", "function"}))
    BY <2>1, <2>2 DEF Here, Depth, Count, Kinds, Scopes
  <2>4. Len(block_stack) = Cardinality(Kinds({"header", "loop", "function"}))
    BY <2>1, <2>2 DEF Tracks, Count, Kinds, Blocks
  <2>5. nameless_func_count = Cardinality({i \in Bodies : IsAnonymous(frames[i])})
    <3>1. {i \in Bodies : IsAnonymous(frames[i])} = {i \in 1..Len(frames) : Nameless(frames, i)}
      BY <2>2 DEF Bodies, Kinds, Nameless
    <3> QED BY <2>1, <3>1 DEF Numbered, CountNameless
  <2>6. Top = "function" => FoundAtEnd(Last(frames)) # 0
    BY FoundIs
  <2> QED BY <2>1, <2>3, <2>4, <2>5, <2>6 DEF TypeOK, Flags
<1> QED BY <1>1, Invariant, PTL

\* The functions whose bodies are being read are those that are open in the table,
\* whatever has been bound to their names meanwhile (function_definition).
THEOREM OpenFunctionsAreRead == Spec => []OpenIffNested
<1>1. Inv => OpenIffNested
  <2> SUFFICES ASSUME Inv PROVE OpenIffNested
    OBVIOUS
  <2>1. /\ Opened(entries, frames) /\ frames \in Seq(FrameType)
        /\ DOMAIN frames = 1..Len(frames)
    BY Holds, Sequences DEF Tabled
  <2>2. \A i : i \in Bodies <=> i \in 1..Len(frames) /\ frames[i].kind = "function"
    BY <2>1 DEF Bodies, Kinds
  <2>3. ASSUME NEW i \in Bodies, frames[i].put
        PROVE  frames[i].first \in DOMAIN entries /\ entries[frames[i].first].func_is_open
    BY <2>1, <2>2, <2>3 DEF Opened, HasEntry
  <2>4. ASSUME NEW k \in DOMAIN entries, entries[k].func_is_open
        PROVE  \E i \in Bodies : frames[i].put /\ frames[i].first = k
    BY <2>1, <2>2, <2>4 DEF Opened
  <2> QED BY <2>3, <2>4 DEF OpenIffNested
<1> QED BY <1>1, Invariant, PTL

\* Whatever a program does, as long as it is nothing Confusing it has been refused
\* (ERROR_FLAG) if and only if it has broken a rule, and no entry of the table has
\* been freed.
THEOREM VerdictIsRight == Spec => []VerdictRight
BY Invariant, PTL DEF Inv
=============================================================================
