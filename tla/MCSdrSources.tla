------------------------------ MODULE MCSdrSources ------------------------------
(* SdrSources for TLC: a table of two radio systems.                       *)
EXTENDS SdrSources

CONSTANTS k1

MCOrder == <<"A", "B">>
================================================================================
