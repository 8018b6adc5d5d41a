----------------------------- MODULE MCMetaPage -----------------------------
(* Model-checking instance of MetaPage. *)
EXTENDS MetaPage
=============================================================================
