------------------------------- MODULE MCConsole --------------------------------
(* Console for TLC.                                                        *)
EXTENDS Console

CONSTANTS s1

Server == [id |-> s1, enabled |-> TRUE, manager |-> "connected", row |-> "connecting",
           rowError |-> None, error |-> None, cert |-> "good"]
Well == [disk |-> "ok", ram |-> "ok", cpu |-> "ok", temp |-> "ok", installed |-> TRUE, system |-> TRUE,
         decoder |-> TRUE, heard |-> TRUE, idle |-> FALSE, servers |-> {Server}, observed |-> TRUE, approved |-> TRUE]
MCWorlds == {
  Well,
  [Well EXCEPT !.idle = TRUE],
  [Well EXCEPT !.idle = TRUE, !.heard = FALSE],
  [Well EXCEPT !.disk = "warning"],
  [Well EXCEPT !.disk = "critical", !.decoder = FALSE],
  [Well EXCEPT !.servers = {[Server EXCEPT !.manager = "error", !.error = "refused"]}]}

\* algorithms of the registry with a name (0x84), with a letter in it (0xAA), without a name,
\* and one that is not of the registry
MCAlgids == {132, 170, 131, 134, 16}
================================================================================
