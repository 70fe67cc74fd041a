------------------------------ MODULE Scoping ------------------------------
(* What the compiler needs of its symbol table: a stack of scopes, each with *)
(* the bindings visible in it, and the functions whose bodies are still      *)
(* open, the innermost of which is the one that closes.  Nothing here says   *)
(* how bindings are found.  SymTable is shown to implement this module.      *)
EXTENDS Naturals, Sequences, FiniteSets, FiniteSetsExt

CONSTANTS Var,   \* names of variables and formal arguments
          Fun,   \* names of functions
          Temp   \* names of compiler temporaries

VARIABLES nameOf,  \* nameOf[k]: the name of the k-th binding made
          visible, \* visible[s + 1]: the bindings of scope s that can be used
          opened   \* bindings of the functions that are being defined

vars == <<nameOf, visible, opened>>

Fresh == Len(nameOf) + 1
Bound(n, s) == \E k \in visible[s] : nameOf[k] = n

Init == nameOf = <<>> /\ visible = <<{}>> /\ opened = {}

\* n is bound in the scope at position s of the stack.
Bind(n, s) == /\ nameOf' = Append(nameOf, n)
              /\ visible' = [visible EXCEPT ![s] = @ \union {Fresh}]

\* A use of a name nobody bound binds it in the innermost scope.
Use(n) == /\ \A s \in DOMAIN visible : ~Bound(n, s)
          /\ Bind(n, Len(visible))
          /\ UNCHANGED opened

\* "local n" binds n in the innermost scope unless that scope has it.
Local(n) == /\ ~Bound(n, Len(visible))
            /\ Bind(n, Len(visible))
            /\ UNCHANGED opened

\* A temporary lives in the outermost scope.
Temporary(n) == ~Bound(n, 1) /\ Bind(n, 1) /\ UNCHANGED opened

\* A function is bound where it is defined and is open from then on; its
\* formals are bound one scope further in.
Open(f) == /\ nameOf' = Append(nameOf, f)
           /\ visible' = [visible EXCEPT ![Len(visible)] = @ \union {Fresh}]
                           \o <<{}>>
           /\ opened' = opened \union {Fresh}

Enter == visible' = Append(visible, {}) /\ UNCHANGED <<nameOf, opened>>

\* Leaving a scope hides its bindings; leaving a body closes its function.
Leave == /\ Len(visible) > 1
         /\ visible' = SubSeq(visible, 1, Len(visible) - 1)
         /\ \/ opened' = opened
            \/ opened # {} /\ opened' = opened \ {Max(opened)}
         /\ UNCHANGED nameOf

Next == \/ \E n \in Var : Use(n) \/ Local(n)
        \/ \E n \in Temp : Temporary(n)
        \/ \E f \in Fun : Open(f)
        \/ Enter \/ Leave

Spec == Init /\ [][Next]_vars
=============================================================================
