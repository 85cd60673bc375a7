------------------------------- MODULE MCServer -------------------------------
(* Server on a few workers, connections and two addresses.  c4 has an       *)
(* address of its own, the others share one.                                *)
EXTENDS Server

CONSTANTS c1, c2, c3, c4, ipA, ipB

MCConns  == {c1, c2, c3, c4}   \* three of one address: workers + 1 of them
MCFew    == {c1, c2, c4}       \* for the temporal properties
MCIps    == {ipA, ipB}
MCPeer   == [c \in Conns |-> IF c = c4 THEN ipB ELSE ipA]
===============================================================================
