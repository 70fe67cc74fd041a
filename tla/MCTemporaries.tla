---------------------------- MODULE MCTemporaries ----------------------------
(* An instance of Temporaries small enough for TLC. *)
EXTENDS Temporaries
=============================================================================
