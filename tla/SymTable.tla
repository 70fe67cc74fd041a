------------------------------ MODULE SymTable ------------------------------
(* The symbol table of BC_generation/libs/symtable.c and symlist.c: every     *)
(* SymbolTableEntry is reachable twice, through the chain of its hash bucket  *)
(* and through the list of its scope.  The actions are the calls parser.y     *)
(* makes, in the orders its grammar allows.  A SymTable_put that has to grow  *)
(* the bucket array moves one node per step of increase_buckets' loop.        *)
EXTENDS Naturals, Sequences, Functions, FiniteSetsExt

CONSTANTS Var,           \* names of variables and formal arguments
          Fun,           \* names of functions
          Temp,          \* names of compiler temporaries
          Hash,          \* SymTable_hash
          BucketSizes,   \* INITIAL_BUCKETS and the sizes it grows to
          InitialScopes, \* INITIAL_SCOPES
          Shadowing,     \* whose name a function may take: "none", "outer", "any"
          MaxEntries,    \* bound: entries created
          MaxDepth       \* bound: nesting of blocks

Name == Var \union Fun \union Temp

ASSUME HashAssumption == Hash \in [Name -> Nat]
ASSUME SizesAssumption == /\ BucketSizes \in Seq(Nat \ {0})
                          /\ BucketSizes # <<>>
ASSUME ScopesAssumption == InitialScopes \in Nat \ {0}
\* The name of a temporary begins with "@", as that of no identifier does.
ASSUME TempsAssumption == Temp \intersect (Var \union Fun) = {}

VARIABLES entries, \* the SymbolTableEntry records, in order of creation
          level,   \* size = BucketSizes[level]
          buckets, \* buckets[b]: the chain of bucket b, head first
          scopes,  \* scopes[s]: the list of scope s, head first
          scopes_size,
          old,     \* the bucket array increase_buckets is emptying
          row,     \* its loop variable i
          pending, \* the insertion that waits for it, if any
          nest,    \* per open block: the function whose body it is, or 0
          header,  \* the function whose arguments are being read, or 0
          crashed  \* scopes[] was indexed past scopes_size

table == <<entries, level, buckets, scopes, scopes_size, old, row, pending>>
vars == <<table, nest, header, crashed>>

Sym == INSTANCE Symbols

current_scope == Len(nest)
growing == pending # <<>>
Index(n, l) == Hash[n] % BucketSizes[l]
NoBuckets(l) == [b \in 0..(BucketSizes[l] - 1) |-> <<>>]

Init == /\ entries = <<>>
        /\ level = 1
        /\ buckets = NoBuckets(1)
        /\ scopes_size = InitialScopes
        /\ scopes = [s \in 0..(InitialScopes - 1) |-> <<>>]
        /\ old = <<>> /\ row = 0 /\ pending = <<>>
        /\ nest = <<>> /\ header = 0 /\ crashed = FALSE
-----------------------------------------------------------------------------
(* Lookups, by the structure each of them walks. *)

\* The first element of a chain or list that passes the test, or 0.
First(list, Test(_)) ==
  LET hits == {i \in DOMAIN list : Test(list[i])}
  IN  IF hits = {} THEN 0 ELSE list[Min(hits)]

Live(k, n) == entries[k].name = n /\ entries[k].isActive

SymTable_contains(n, s) ==
  \E k \in Range(buckets[Index(n, level)]) : Live(k, n) /\ entries[k].scope = s

\* es: the entries as they are when the chain is walked
SymTable_get(es, n) ==
  First(buckets[Index(n, level)],
        LAMBDA k : es[k].name = n /\ es[k].isActive)

SymTable_get_entry_at_scope(n, s) ==
  IF s >= scopes_size THEN 0 ELSE First(scopes[s], LAMBDA k : Live(k, n))

SymTable_get_closest_scope(n, s) ==
  LET has == {t \in 0..s : \E k \in Range(scopes[t]) : Live(k, n)}
  IN  IF has = {} THEN 0 ELSE SymTable_get_entry_at_scope(n, Max(has))

SymTable_get_open_func(s) ==
  LET opens(t) == {i \in DOMAIN scopes[t] : entries[scopes[t][i]].func_is_open}
      has == {t \in 0..s : opens(t) # {}}
  IN  IF has = {} THEN 0 ELSE scopes[Max(has)][Max(opens(Max(has)))]

SymTable_open_func(k, s) ==
  LET list == scopes[entries[k].scope]
      opens(l, i) == entries[l[i]].func_is_open
  IN  \/ \E j \in DOMAIN list : \E i \in j..Len(list) : list[j] = k /\ opens(list, i)
      \/ \E t \in (entries[k].scope + 1)..s :
           \E i \in DOMAIN scopes[t] : opens(scopes[t], i)
-----------------------------------------------------------------------------
(* SymTable_put *)

\* A mutant: the new node goes in front of its scope's list.
scope_insert_front(s, k) ==
  /\ s < scopes_size
  /\ scopes' = [scopes EXCEPT ![s] = <<k>> \o @] /\ scopes_size' = scopes_size

\* k goes to the end of the list of scope s, and the scopes table is expanded
\* first if s is outside it.
scope_insert(s, k) ==
  LET size == IF s >= scopes_size
              THEN scopes_size + 4 * (s + 1 - scopes_size) ELSE scopes_size
      wide == [t \in 0..(size - 1) |-> IF t < scopes_size THEN scopes[t] ELSE <<>>]
  IN  /\ scopes' = [wide EXCEPT ![s] = Append(@, k)]
      /\ scopes_size' = size

\* Mutants: the node goes to the tail of its chain; its bucket is computed for
\* the size the table had at first.
Insert_tail(e) ==
  LET k == Len(entries) + 1
  IN  /\ entries' = Append(entries, e)
      /\ buckets' = [buckets EXCEPT ![Index(e.name, level)] = Append(@, k)]
      /\ scope_insert(e.scope, k)
      /\ header' = IF e.func_is_open THEN k ELSE header

Insert_stale(e) ==
  LET k == Len(entries) + 1
  IN  /\ entries' = Append(entries, e)
      /\ buckets' = [buckets EXCEPT ![Index(e.name, 1)] = <<k>> \o @]
      /\ scope_insert(e.scope, k)
      /\ header' = IF e.func_is_open THEN k ELSE header

\* The node at the head of its chain.  function_name keeps the new entry.
Insert(e) ==
  LET k == Len(entries) + 1
      b == Index(e.name, level)
  IN  /\ entries' = Append(entries, e)
      /\ buckets' = [buckets EXCEPT ![b] = <<k>> \o @]
      /\ scope_insert(e.scope, k)
      /\ header' = IF e.func_is_open THEN k ELSE header

\* A mutant: the new array is allocated with the old size.
StartGrowth_small(e) ==
  /\ level' = level + 1
  /\ buckets' = NoBuckets(level)
  /\ old' = buckets /\ row' = 0 /\ pending' = <<e>>
  /\ UNCHANGED <<entries, scopes, scopes_size, header>>

StartGrowth(e) ==
  /\ level' = level + 1
  /\ buckets' = NoBuckets(level + 1)
  /\ old' = buckets
  /\ row' = 0
  /\ pending' = <<e>>
  /\ UNCHANGED <<entries, scopes, scopes_size, header>>

Full == Len(entries) = BucketSizes[level] /\ level < Len(BucketSizes)

SymTable_put(n, s, is_func) ==
  LET e == [name |-> n, scope |-> s, isActive |-> TRUE, func_is_open |-> is_func]
  IN  /\ Len(entries) < MaxEntries
      /\ IF Full THEN StartGrowth(e)
         ELSE Insert(e) /\ UNCHANGED <<level, old, row, pending>>

\* A mutant: the moved node is not linked to the chain it joins.
MoveNode_unlinked ==
  /\ growing /\ row \in DOMAIN old /\ old[row] # <<>>
  /\ buckets' = [buckets EXCEPT
                   ![Index(entries[Head(old[row])].name, level)] = <<Head(old[row])>>]
  /\ old' = [old EXCEPT ![row] = Tail(@)]
  /\ UNCHANGED <<entries, level, scopes, scopes_size, row, pending, nest, header,
                 crashed>>

\* The head of chain old[row] becomes the head of its new chain.
MoveNode ==
  /\ growing /\ row \in DOMAIN old /\ old[row] # <<>>
  /\ LET k == Head(old[row])
         b == Index(entries[k].name, level)
     IN  buckets' = [buckets EXCEPT ![b] = <<k>> \o @]
  /\ old' = [old EXCEPT ![row] = Tail(@)]
  /\ UNCHANGED <<entries, level, scopes, scopes_size, row, pending, nest, header,
                 crashed>>

NextRow ==
  /\ growing /\ row \in DOMAIN old /\ old[row] = <<>>
  /\ row' = row + 1
  /\ UNCHANGED <<entries, level, buckets, scopes, scopes_size, old, pending,
                 nest, header, crashed>>

FinishGrowth ==
  /\ growing /\ row \notin DOMAIN old
  /\ Insert(pending[1])
  /\ pending' = <<>> /\ old' = <<>> /\ row' = 0
  /\ UNCHANGED <<level, nest, crashed>>
-----------------------------------------------------------------------------
(* The calls parser.y makes. *)

Ready == ~growing /\ ~crashed
Crash == crashed' = TRUE /\ UNCHANGED <<table, nest, header>>

\* lvalue: ID
Identifier(n) ==
  /\ Ready /\ header = 0
  /\ IF current_scope >= scopes_size THEN Crash
     ELSE /\ SymTable_get_closest_scope(n, current_scope) = 0
          /\ SymTable_put(n, current_scope, FALSE)
          /\ UNCHANGED <<nest, crashed>>

\* lvalue: LOCAL ID
LocalIdentifier(n) ==
  /\ Ready /\ header = 0
  /\ SymTable_get_entry_at_scope(n, current_scope) = 0
  /\ SymTable_put(n, current_scope, FALSE)
  /\ UNCHANGED <<nest, crashed>>

create_temp_symbol(n) ==
  /\ Ready /\ header = 0
  /\ ~SymTable_contains(n, 0)
  /\ SymTable_put(n, 0, FALSE)
  /\ UNCHANGED <<nest, crashed>>

\* function_name: ID.  A name that is taken is reported, and bound all the same.
FunctionName(f) ==
  /\ Ready /\ header = 0
  /\ current_scope < MaxDepth
  /\ \/ Shadowing = "any"
     \/ Shadowing = "outer" /\ ~SymTable_contains(f, current_scope)
     \/ SymTable_get(entries, f) = 0
  /\ SymTable_put(f, current_scope, TRUE)
  /\ UNCHANGED <<nest, crashed>>

\* A mutant: the argument goes to the scope the function is defined in.
Formal_outside(n) ==
  /\ Ready /\ header # 0
  /\ ~SymTable_contains(n, current_scope)
  /\ SymTable_put(n, current_scope, FALSE)
  /\ UNCHANGED <<nest, crashed>>

\* ArgList_to_SymTable, for one argument of the list
Formal(n) ==
  /\ Ready /\ header # 0
  /\ ~SymTable_contains(n, current_scope + 1)
  /\ SymTable_put(n, current_scope + 1, FALSE)
  /\ UNCHANGED <<nest, crashed>>

\* block: "{", a function's body when a header has just been read
EnterBlock ==
  /\ Ready /\ current_scope < MaxDepth
  /\ nest' = Append(nest, header) /\ header' = 0
  /\ UNCHANGED <<table, crashed>>

\* Mutants: the scope that is entered again is deactivated instead of the one
\* that is left; the function is looked up before its body's names are hidden.
LeaveBlock_outer ==
  /\ Ready /\ header = 0 /\ nest # <<>> /\ current_scope < scopes_size
  /\ entries' = [k \in DOMAIN entries |->
                   IF entries[k].scope = current_scope - 1
                   THEN [entries[k] EXCEPT !.isActive = FALSE] ELSE entries[k]]
  /\ nest' = SubSeq(nest, 1, Len(nest) - 1)
  /\ UNCHANGED <<level, buckets, scopes, scopes_size, old, row, pending, header,
                 crashed>>

LeaveBlock_early ==
  /\ Ready /\ header = 0 /\ nest # <<>> /\ current_scope < scopes_size
  /\ LET f == nest[Len(nest)]
     IN  entries' = [k \in DOMAIN entries |->
           [entries[k] EXCEPT
              !.isActive = @ /\ k \notin Range(scopes[current_scope]),
              !.func_is_open = @ /\ (f = 0 \/ k # SymTable_get(entries, entries[f].name))]]
  /\ nest' = SubSeq(nest, 1, Len(nest) - 1)
  /\ UNCHANGED <<level, buckets, scopes, scopes_size, old, row, pending, header,
                 crashed>>

\* function_definition: the function is looked up by its name.
close_function(es, f) ==
  [es EXCEPT ![SymTable_get(es, entries[f].name)].func_is_open = FALSE]

\* block: "}", then function_definition when the block was a body
LeaveBlock ==
  /\ Ready /\ header = 0 /\ nest # <<>>
  /\ IF current_scope >= scopes_size THEN Crash
     ELSE LET gone == [k \in DOMAIN entries |->
                         IF k \in Range(scopes[current_scope])
                         THEN [entries[k] EXCEPT !.isActive = FALSE]
                         ELSE entries[k]]
              f == nest[Len(nest)]
          IN  /\ entries' = IF f = 0 THEN gone ELSE close_function(gone, f)
              /\ nest' = SubSeq(nest, 1, Len(nest) - 1)
              /\ UNCHANGED <<level, buckets, scopes, scopes_size, old, row, pending,
                             header, crashed>>

Stopped == crashed /\ UNCHANGED vars

Next == \/ MoveNode \/ NextRow \/ FinishGrowth
        \/ \E n \in Var : Identifier(n) \/ LocalIdentifier(n) \/ Formal(n)
        \/ \E n \in Temp : create_temp_symbol(n)
        \/ \E f \in Fun : FunctionName(f)
        \/ EnterBlock \/ LeaveBlock
        \/ Stopped

Spec == Init /\ [][Next]_vars
-----------------------------------------------------------------------------
(* Properties *)

Binding == [name : Name, scope : Nat, isActive : BOOLEAN, func_is_open : BOOLEAN]

\* The variables hold values of the C types; the bucket array has the size
\* that level says, and the scopes table is an array.
TypeOK ==
  /\ entries \in Seq(Binding)
  /\ level \in DOMAIN BucketSizes
  /\ buckets \in [0..(BucketSizes[level] - 1) -> Seq(Nat)]
  /\ scopes_size \in Nat \ {0}
  /\ scopes \in [0..(scopes_size - 1) -> Seq(Nat)]
  /\ pending \in Seq(Binding) /\ Len(pending) <= 1
  /\ IF growing THEN level > 1 /\ old \in [0..(BucketSizes[level - 1] - 1) -> Seq(Nat)]
     ELSE old = <<>>
  /\ row \in Nat
  /\ nest \in Seq(Nat) /\ header \in Nat
  /\ crashed \in BOOLEAN

\* No entry is ever lost: whatever was put is in the chain its name hashes to
\* (or, while increase_buckets runs, still in a chain it has yet to empty) and
\* in the list of its scope, and no structure holds anything that does not
\* belong there.
Filed(k) ==
  \/ k \in Range(buckets[Index(entries[k].name, level)])
  \/ growing /\ \E b \in DOMAIN old : b >= row /\ k \in Range(old[b])

NothingLost ==
  /\ \A k \in DOMAIN entries :
       /\ Filed(k)
       /\ entries[k].scope \in DOMAIN scopes
       /\ k \in Range(scopes[entries[k].scope])
  /\ \A b \in DOMAIN buckets : \A k \in Range(buckets[b]) :
       k \in DOMAIN entries /\ Index(entries[k].name, level) = b
  /\ \A b \in DOMAIN old : Range(old[b]) \subseteq DOMAIN entries
  /\ \A s \in DOMAIN scopes : \A k \in Range(scopes[s]) :
       k \in DOMAIN entries /\ entries[k].scope = s

\* The two indexes never disagree: a lookup that walks a hash chain
\* (SymTable_contains, SymTable_get) finds a binding exactly when the one that
\* walks scope lists does, and both find what was really declared.
LookupsAgree ==
  ~growing =>
    \A n \in Name :
      /\ SymTable_get(entries, n) = 0 <=> Sym!Active(entries, n) = {}
      /\ \A s \in DOMAIN scopes :
           /\ SymTable_contains(n, s) <=> Sym!Contains(entries, n, s)
           /\ SymTable_contains(n, s) <=> SymTable_get_entry_at_scope(n, s) # 0

\* Each lookup returns the entry its definition in Symbols names: the oldest of
\* the innermost scope, the newest open function, and so on.
AnswersRight ==
  (~growing /\ current_scope < scopes_size) =>
    /\ \A n \in Name :
         /\ SymTable_get_closest_scope(n, current_scope)
              = Sym!ClosestScope(entries, n, current_scope)
         /\ \A s \in DOMAIN scopes :
              SymTable_get_entry_at_scope(n, s) = Sym!EntryAtScope(entries, n, s)
    /\ SymTable_get_open_func(current_scope) = Sym!OpenFunc(entries, current_scope)
    /\ \A k \in DOMAIN entries :
         entries[k].scope <= current_scope =>
           (SymTable_open_func(k, current_scope)
              <=> Sym!OpenedSince(entries, k, current_scope))

\* SymTable_get returns the newest active binding of the name, in the chain as
\* in any table that has not grown.
GetIsNewest ==
  ~growing => \A n \in Name : SymTable_get(entries, n) = Sym!Get(entries, n)

\* What a closed block declared can never be found again, however its scope
\* number is reused: active entries are in open scopes, or are the formals of
\* the header being read.
NoGhosts ==
  ~crashed =>
    \A k \in DOMAIN entries :
      entries[k].isActive =>
        \/ entries[k].scope <= current_scope
        \/ header # 0 /\ header < k /\ entries[k].scope = current_scope + 1

\* parser.y:142 "Get last open function": the function a return statement is
\* added to is the one whose body is being parsed.
LastOpenIsInnermost ==
  (~growing /\ header = 0 /\ current_scope < scopes_size) =>
    SymTable_get_open_func(current_scope) = Sym!NewestOf(Range(nest))

Scopes == INSTANCE Scoping WITH
  nameOf <- [k \in DOMAIN entries |-> entries[k].name],
  visible <- [s \in 1..(current_scope + IF header = 0 THEN 1 ELSE 2) |->
                {k \in DOMAIN entries :
                   entries[k].isActive /\ entries[k].scope = s - 1}],
  opened <- Sym!Opened(entries)

\* The table implements scoping: every call of the parser changes what is
\* visible and what is open as Scoping says, and growth changes neither.
ImplementsScoping == Scopes!Spec
=============================================================================
