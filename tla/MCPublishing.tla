----------------------------- MODULE MCPublishing -----------------------------
(* Small instances of Publishing for TLC.                                  *)
EXTENDS Publishing, TLC

Interchangeable == Permutations(Tweet) \cup Permutations(Worker)
===============================================================================
