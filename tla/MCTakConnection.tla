---------------------------- MODULE MCTakConnection ----------------------------
(* TakConnection for TLC: worker threads are interchangeable, the event    *)
(* loop is not.                                                            *)
EXTENDS TakConnection, TLC

Workers == Permutations(Producers \ {EventLoop})
================================================================================
