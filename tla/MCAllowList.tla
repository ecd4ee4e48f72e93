------------------------------ MODULE MCAllowList ------------------------------
(* AllowList for TLC.  The worker threads are interchangeable.             *)
EXTENDS AllowList, TLC

Symmetric == Permutations(Workers)
================================================================================
