----------------------------- MODULE MCTakRegistry -----------------------------
(* TakRegistry for TLC.  Requests are interchangeable.                     *)
EXTENDS TakRegistry, TLC

Symmetric == Permutations(Requests)
================================================================================
