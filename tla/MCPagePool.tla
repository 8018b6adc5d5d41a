----------------------------- MODULE MCPagePool -----------------------------
(* Model-checking instance of PagePool. *)
EXTENDS PagePool
=============================================================================
