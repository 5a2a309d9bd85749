--------------------------- MODULE MCTunnelManager ---------------------------
(* The instance of TunnelManager for TLC. *)
EXTENDS TunnelManager
=============================================================================
