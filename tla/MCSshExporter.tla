---------------------------- MODULE MCSshExporter ----------------------------
(* An instance of SshExporter for TLC. *)
EXTENDS SshExporter
=============================================================================
