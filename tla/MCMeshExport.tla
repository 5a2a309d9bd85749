---------------------------- MODULE MCMeshExport ----------------------------
(* Instances of MeshExport for TLC, with a claim of its source that TLC    *)
(* refutes.                                                                *)
EXTENDS MeshExport

(* "Used to surface a failing export through mesh_errmsg rather than       *)
(* leaving it silently dead" (comment on LastError()): an export that      *)
(* IsActive() reports has a goroutine that accepts.                        *)
NotSilentlyDead == listening => acceptor # "exited"
=============================================================================
