----------------------------- MODULE MCMeshNode -----------------------------
(* An instance of MeshNode for TLC: one secret of each mesh. *)
EXTENDS MeshNode

CONSTANTS Tailscale, NetBird, ts, nb

MCKindOf == [s \in Secrets |-> IF s = ts THEN Tailscale ELSE NetBird]
=============================================================================
