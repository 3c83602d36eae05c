----------------------------- MODULE MCViewCache -----------------------------
(* Small instances of ViewCache. *)
EXTENDS ViewCache
=============================================================================
