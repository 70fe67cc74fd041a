----------------------------- MODULE MCSymTable -----------------------------
(* Instances of SymTable small enough for TLC.                                *)
EXTENDS SymTable

\* Names that share buckets in some sizes and not in others.
SmallHash == [n \in Name |->
                CASE n = "x" -> 2 [] n = "y" -> 4 [] n = "f" -> 6 [] OTHER -> 7]

NoGrowth == <<2>>       \* the largest size is never exceeded
TwoGrowths == <<1, 2, 3>>
=============================================================================
