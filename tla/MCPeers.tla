------------------------------ MODULE MCPeers --------------------------------
(***************************************************************************)
(* An instance of Peers: two connections with one node, which has          *)
(* reconnected, and one that the node itself dials.                        *)
(***************************************************************************)
EXTENDS Peers

MCConn == {"c1", "c2", "c3"}
MCRemote == [c \in MCConn |-> IF c = "c3" THEN "y" ELSE "x"]
=============================================================================
