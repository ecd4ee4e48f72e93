-------------------------- MODULE MCLocationPipeline --------------------------
(* LocationPipeline for TLC: the event loop hears P25 radios and both APRS *)
(* feeds the same stations, or only the APRS feeds hear anything.          *)
EXTENDS LocationPipeline, TLC

CONSTANTS p25, aprs

MCHeard == [f \in Feeds |-> IF f = EventLoop THEN {p25} ELSE {aprs}]
MCHeardAprs == [f \in Feeds |-> IF f = EventLoop THEN {} ELSE Radios]

\* the two APRS feeds, the places and the servers are interchangeable
Symmetric ==
  Permutations(Feeds \ {EventLoop}) \cup Permutations(Places) \cup Permutations(Servers)
\* and the radios, when they are heard by the same feeds
SymmetricAprs == Symmetric \cup Permutations(Radios)
================================================================================
