--------------------------- MODULE MCTunnelManager ---------------------------
(* Three applications competing for two ports, and two connections.  No      *)
(* symmetry: the run also checks a liveness property.                        *)
EXTENDS TunnelManager
=============================================================================
