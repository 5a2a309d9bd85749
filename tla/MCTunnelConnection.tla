-------------------------- MODULE MCTunnelConnection --------------------------
(* Instances of TunnelConnection for TLC, with documented claims about SSH *)
(* imports that TLC refutes.                                               *)
EXTENDS TunnelConnection

(* libssh2 sessions are not thread-safe (ssh_exporter.hpp): the accept     *)
(* loop and the forwarding threads never call into one session together.   *)
SessionExclusive ==
  \A t, u \in Clients \cup {Worker} : InLibssh2(t) /\ InLibssh2(u) => t = u

(* A port in use is an error of tunnel_create (troubleshooting guide): a   *)
(* create that succeeds has bound the local port itself.                   *)
CreatedMeansListening ==
  [][~created /\ created' => port = "us"]_vars

(* A tunnel closes cleanly (HLD): Close() neither shuts down nor closes a  *)
(* descriptor that Connect() closed.                                       *)
SocketClosedOnce == obj["socket"] # "misused"

(* Shutting the socket down unblocks the workers promptly (comment in      *)
(* Close()): the joins end, whatever the server does.                      *)
CloseUnblocksWorkers == CloseReturns
=============================================================================
