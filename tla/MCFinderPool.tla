----------------------------- MODULE MCFinderPool -----------------------------
(* Small instances of FinderPool for TLC.  Callers and finders are model   *)
(* values; liveness is checked, so no symmetry is declared.                *)
EXTENDS FinderPool
===============================================================================
