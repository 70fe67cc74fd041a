------------------------------ MODULE Symbols ------------------------------
(* What the symbol table's lookups mean, read off the sequence of all the    *)
(* SymbolTableEntry records in the order they were created.  An entry is     *)
(* known by its position in that sequence; 0 stands for NULL.  SymTable      *)
(* shows that walking the buckets and the scope lists computes the same      *)
(* answers; Parser uses these operators wherever parser.y makes the call.    *)
EXTENDS Naturals, Sequences, FiniteSetsExt

NewestOf(S) == IF S = {} THEN 0 ELSE Max(S)
OldestOf(S) == IF S = {} THEN 0 ELSE Min(S)

Active(es, n) == {k \in DOMAIN es : es[k].name = n /\ es[k].isActive}
ActiveAt(es, n, s) == {k \in Active(es, n) : es[k].scope = s}
Opened(es) == {k \in DOMAIN es : es[k].func_is_open}

\* SymTable_contains
Contains(es, n, s) == ActiveAt(es, n, s) # {}

\* SymTable_get: chains are pushed at the head, so the last one put comes first
Get(es, n) == NewestOf(Active(es, n))

\* SymTable_get_entry_at_scope: scope lists are appended to, so the first one
\* put comes first
EntryAtScope(es, n, s) == OldestOf(ActiveAt(es, n, s))

\* SymTable_get_closest_scope: outwards from scope s
ClosestScope(es, n, s) ==
  LET visible == {k \in Active(es, n) : es[k].scope <= s}
  IN  IF visible = {} THEN 0
      ELSE EntryAtScope(es, n, Max({es[k].scope : k \in visible}))

\* SymTable_get_open_func: outwards from scope s, last put first
OpenFunc(es, s) ==
  LET around == {k \in Opened(es) : es[k].scope <= s}
  IN  IF around = {} THEN 0
      ELSE LET top == Max({es[k].scope : k \in around})
           IN  NewestOf({k \in around : es[k].scope = top})

\* A mutant: the rest of the entry's own scope is not looked at.
OpenedSince_inner(es, k, s) == \E f \in Opened(es) : es[f].scope \in (es[k].scope + 1)..s

\* SymTable_open_func: does a function open between entry k and scope s?
OpenedSince(es, k, s) ==
  \E f \in Opened(es) :
     \/ es[f].scope = es[k].scope /\ f >= k
     \/ es[f].scope \in (es[k].scope + 1)..s

\* SymList_deactivate on the list of scope s
Deactivate(es, s) ==
  [k \in DOMAIN es |->
     IF es[k].scope = s THEN [es[k] EXCEPT !.isActive = FALSE] ELSE es[k]]
=============================================================================
