---------------------------- MODULE MeshForwarder ----------------------------
(***************************************************************************)
(* MeshForwarder: one import over a mesh network.  Start() brings the node *)
(* up, listens on local_port and probes the listener; AcceptLoop() dials   *)
(* the mesh for every client and starts a Pump() thread; Close() stops and *)
(* joins them.                                                             *)
(*                                                                         *)
(* A dial in the Go shim makes a socket pair.  One end is the stream the   *)
(* pump reads and writes; the other is joined to the mesh connection by a  *)
(* bridge of two copying goroutines, one per direction, which outlive the  *)
(* call and belong to nobody on the C++ side.                              *)
(*                                                                         *)
(* All sockets of a pump are blocking, so a send ends when the other side  *)
(* reads.  Bytes are not kept: whether a side still sends, has finished or *)
(* was reset is.  mu_ has no variable: AcceptLoop takes it for one push,   *)
(* Close only after it joined AcceptLoop, and tunnels() reads attributes   *)
(* of registered handles only, which nobody is closing (see                *)
(* TeardownOutsideRegistry in TunnelManager).                              *)
(***************************************************************************)
EXTENDS Naturals

CONSTANTS
  Clients,            \* connections to the local port, each with its pump thread
  Owner,              \* the thread in Start(), later in Close() and the destructor
  Acceptor,           \* accept_thread_
  NoClient

Threads == Clients \cup {Owner, Acceptor}

ASSUME ThreadsAssumption ==
  /\ Owner \notin Clients /\ Acceptor \notin Clients /\ Owner # Acceptor
  /\ NoClient \notin Clients

VARIABLES
  running,            \* running_
  listen_sock,        \* the member listen_sock_ is valid
  listener,           \* the socket it refers to
  workers,            \* workers_
  cur,                \* the connection AcceptLoop is dialling for
  conn,               \* conn[c]: our socket to client c
  client,             \* client[c]: "sending", "fin" or "reset", as seen on conn[c]
  stream,             \* stream[c]: the C end of the socket pair
  up, down,           \* the goroutines copying stream -> mesh and mesh -> stream
  peer,               \* peer[c]: whether the peer still sends
  calls,              \* Close() calls the owner still has to finish
  pc

listen_vars == <<running, listen_sock, listener>>
list_vars == <<workers, cur>>
client_vars == <<conn, client>>
bridge_vars == <<up, down, peer>>
vars == <<listen_vars, list_vars, client_vars, stream, bridge_vars, calls, pc>>

StartPoints == {"ensure_up", "listen", "probe"}
ClosePoints == {"stop", "join_acceptor", "join_workers", "close_listener"}
OwnerPoints == StartPoints \cup {"up"} \cup ClosePoints \cup {"gone"}
AcceptPoints == {"none", "loop", "accepted", "dial", "push", "exited"}
PumpPoints == {"none", "pump", "client", "to_mesh", "mesh", "to_client", "close",
               "exited"}

TypeOK ==
  /\ running \in BOOLEAN /\ listen_sock \in BOOLEAN
  /\ listener \in {"none", "open", "closed", "misused"}
  /\ workers \subseteq Clients /\ cur \in Clients \cup {NoClient}
  /\ conn \in [Clients -> {"none", "queued", "open", "closed", "misused"}]
  /\ client \in [Clients -> {"sending", "fin", "reset"}]
  /\ stream \in [Clients -> {"none", "open", "shut", "closed", "misused"}]
  /\ up \in [Clients -> {"none", "copying", "done"}]
  /\ down \in [Clients -> {"none", "copying", "done"}]
  /\ peer \in [Clients -> {"sending", "fin"}]
  /\ calls \in 0 .. 2
  /\ pc \in [Threads -> OwnerPoints \cup AcceptPoints \cup PumpPoints]
  /\ pc[Owner] \in OwnerPoints /\ pc[Acceptor] \in AcceptPoints
  /\ \A c \in Clients : pc[c] \in PumpPoints

Init ==
  /\ running = FALSE /\ listen_sock = FALSE /\ listener = "none"
  /\ workers = {} /\ cur = NoClient
  /\ conn = [c \in Clients |-> "none"]
  /\ client = [c \in Clients |-> "sending"]
  /\ stream = [c \in Clients |-> "none"]
  /\ up = [c \in Clients |-> "none"] /\ down = [c \in Clients |-> "none"]
  /\ peer = [c \in Clients |-> "sending"]
  /\ calls = 0
  /\ pc = [t \in Threads |-> IF t = Owner THEN "ensure_up" ELSE "none"]
-----------------------------------------------------------------------------
At(t, p) == pc[t] = p
Goto(t, p) == pc' = [pc EXCEPT ![t] = p]
Set(f, c, v) == [f EXCEPT ![c] = v]

(* CloseSocketHandle() on a descriptor that is open, or no longer is. *)
Closed(state) == IF state \in {"open", "queued", "shut"} THEN "closed" ELSE "misused"

(* The bridge still holds its end of the pair and the mesh connection. *)
BridgeOpen(c) == up[c] = "copying" \/ down[c] = "copying"

(* An exception unwinds to ~MeshForwarder(), which calls Close(). *)
Throw(n) == Goto(Owner, "stop") /\ calls' = n
-----------------------------------------------------------------------------
(* Start(). *)

EnsureUp ==
  /\ At(Owner, "ensure_up") /\ Goto(Owner, "listen")
  /\ UNCHANGED <<listen_vars, list_vars, client_vars, stream, bridge_vars, calls>>

(* The node does not come up, the port is in use, listen() fails, or the   *)
(* probe never gets through.  The socket of a failed bind() is closed on   *)
(* the way, before the member is set.                                      *)
StartThrows ==
  /\ pc[Owner] \in StartPoints /\ Throw(1)
  /\ UNCHANGED <<listen_vars, list_vars, client_vars, stream, bridge_vars>>

Listen ==
  /\ At(Owner, "listen")
  /\ listener' = "open" /\ listen_sock' = TRUE /\ running' = TRUE
  /\ pc' = [pc EXCEPT ![Owner] = "probe", ![Acceptor] = "loop"]
  /\ UNCHANGED <<list_vars, client_vars, stream, bridge_vars, calls>>

(* The probe is a client of the listener that hangs up at once. *)
Probe(c) ==
  /\ At(Owner, "probe") /\ conn[c] = "none" /\ Goto(Owner, "up")
  /\ conn' = Set(conn, c, "queued") /\ client' = Set(client, c, "fin")
  /\ UNCHANGED <<listen_vars, list_vars, stream, bridge_vars, calls>>

StartNext == EnsureUp \/ StartThrows \/ Listen \/ \E c \in Clients : Probe(c)
-----------------------------------------------------------------------------
(* AcceptLoop(). *)

(* Mutant: an error of select() or accept() ends the loop. *)
LeaveLoopOnError ==
  /\ At(Acceptor, "loop") /\ Goto(Acceptor, "exited")
  /\ UNCHANGED <<listen_vars, list_vars, client_vars, stream, bridge_vars, calls>>

(* running_ went false.  Nobody there, or an error of select() or          *)
(* accept(), only means another turn.  The listener is left to Close().    *)
LeaveLoop ==
  /\ At(Acceptor, "loop") /\ ~running /\ Goto(Acceptor, "exited")
  /\ UNCHANGED <<listen_vars, list_vars, client_vars, stream, bridge_vars, calls>>

Accept(c) ==
  /\ At(Acceptor, "loop") /\ running /\ conn[c] = "queued"
  /\ conn' = Set(conn, c, "open") /\ cur' = c
  /\ Goto(Acceptor, "accepted")
  /\ UNCHANGED <<listen_vars, workers, client, stream, bridge_vars, calls>>

AcceptedTooLate ==
  /\ At(Acceptor, "accepted") /\ ~running
  /\ conn' = Set(conn, cur, Closed(conn[cur])) /\ cur' = NoClient
  /\ Goto(Acceptor, "exited")
  /\ UNCHANGED <<listen_vars, workers, client, stream, bridge_vars, calls>>

StillWanted ==
  /\ At(Acceptor, "accepted") /\ running /\ Goto(Acceptor, "dial")
  /\ UNCHANGED <<listen_vars, list_vars, client_vars, stream, bridge_vars, calls>>

(* backend_->Dial(): the shim has made the pair, reached the peer and      *)
(* started the bridge when it returns.                                     *)
Dial ==
  /\ At(Acceptor, "dial") /\ Goto(Acceptor, "push")
  /\ stream' = Set(stream, cur, "open")
  /\ up' = Set(up, cur, "copying") /\ down' = Set(down, cur, "copying")
  /\ UNCHANGED <<listen_vars, list_vars, client_vars, peer, calls>>

(* Mutant: forgets the client of a failed dial. *)
DialFailsKeepsClient ==
  /\ At(Acceptor, "dial") /\ cur' = NoClient /\ Goto(Acceptor, "loop")
  /\ UNCHANGED <<listen_vars, workers, client_vars, stream, bridge_vars, calls>>

(* The shim closed both ends of its pair; only the client is left. *)
DialFails ==
  /\ At(Acceptor, "dial")
  /\ conn' = Set(conn, cur, Closed(conn[cur])) /\ cur' = NoClient
  /\ Goto(Acceptor, "loop")
  /\ UNCHANGED <<listen_vars, workers, client, stream, bridge_vars, calls>>

(* Mutant: the pump thread is detached instead of kept. *)
StartPumpDetached ==
  /\ At(Acceptor, "push")
  /\ cur' = NoClient
  /\ pc' = [pc EXCEPT ![cur] = "pump", ![Acceptor] = "loop"]
  /\ UNCHANGED <<listen_vars, workers, client_vars, stream, bridge_vars, calls>>

StartPump ==
  /\ At(Acceptor, "push")
  /\ workers' = workers \cup {cur} /\ cur' = NoClient
  /\ pc' = [pc EXCEPT ![cur] = "pump", ![Acceptor] = "loop"]
  /\ UNCHANGED <<listen_vars, client_vars, stream, bridge_vars, calls>>

AcceptNext ==
  \/ LeaveLoop \/ (\E c \in Clients : Accept(c)) \/ AcceptedTooLate \/ StillWanted
  \/ Dial \/ DialFails \/ StartPump
-----------------------------------------------------------------------------
(* Pump() on thread c. *)

PumpStep(c, from, to) ==
  /\ At(c, from) /\ Goto(c, to)
  /\ UNCHANGED <<listen_vars, list_vars, client_vars, bridge_vars, calls>>

(* running_ went false, or select() failed. *)
PumpStopped(c) == PumpStep(c, "pump", "close") /\ UNCHANGED stream

(* Mutant: the loop does not look at running_. *)
ReadableForever(c) ==
  /\ \E side \in {"client", "mesh"} : PumpStep(c, "pump", side)
  /\ UNCHANGED stream

(* select() found a side readable: the client first, then the stream. *)
Readable(c) ==
  /\ running
  /\ \E side \in {"client", "mesh"} : PumpStep(c, "pump", side)
  /\ UNCHANGED stream

(* Bytes of the client are read, to be sent into the stream. *)
RecvClient(c) == client[c] # "reset" /\ PumpStep(c, "client", "to_mesh") /\ UNCHANGED stream

(* n == 0: let the peer see EOF, then break. *)
ClientEof(c) ==
  /\ client[c] = "fin" /\ PumpStep(c, "client", "close")
  /\ stream' = Set(stream, c, "shut")

(* n < 0. *)
ClientReset(c) == client[c] = "reset" /\ PumpStep(c, "client", "close") /\ UNCHANGED stream

(* The bridge, or the client, reads: SendAll() comes back. *)
SendMesh(c) ==
  /\ BridgeOpen(c) /\ \E to \in {"mesh", "pump"} : PumpStep(c, "to_mesh", to)
  /\ UNCHANGED stream
SendClient(c) == client[c] # "reset" /\ PumpStep(c, "to_client", "pump") /\ UNCHANGED stream

(* SendAll() fails: the other end is gone. *)
SendFails(c) ==
  /\ \/ PumpStep(c, "to_mesh", "close") /\ ~BridgeOpen(c)
     \/ PumpStep(c, "to_client", "close") /\ client[c] = "reset"
  /\ UNCHANGED stream

(* It looks at running_ between two partial sends only. *)
SendAborted(c) ==
  /\ ~running /\ \E from \in {"to_mesh", "to_client"} : PumpStep(c, from, "close")
  /\ UNCHANGED stream

RecvMesh(c) == PumpStep(c, "mesh", "to_client") /\ UNCHANGED stream

(* n == 0: ShutdownWrite() on the client, then break. *)
MeshEof(c) == down[c] = "done" /\ PumpStep(c, "mesh", "close") /\ UNCHANGED stream

(* Both descriptors are closed, whatever ended the loop. *)
PumpCloses(c) ==
  /\ At(c, "close") /\ Goto(c, "exited")
  /\ conn' = Set(conn, c, Closed(conn[c])) /\ stream' = Set(stream, c, Closed(stream[c]))
  /\ UNCHANGED <<listen_vars, list_vars, client, bridge_vars, calls>>

PumpNext(c) ==
  \/ PumpStopped(c) \/ Readable(c) \/ RecvClient(c) \/ ClientEof(c) \/ ClientReset(c)
  \/ SendFails(c) \/ RecvMesh(c) \/ MeshEof(c) \/ PumpCloses(c)
-----------------------------------------------------------------------------
(* bridge(): two goroutines; when both are done, both ends are closed. *)

BridgeStep(c) ==
  UNCHANGED <<listen_vars, list_vars, client_vars, stream, calls, pc>>

(* Mutant: one goroutine copies mesh -> stream and then stream -> mesh. *)
CopyUpAfterDown(c) ==
  /\ up[c] = "copying" /\ down[c] = "done" /\ stream[c] \in {"shut", "closed"}
  /\ up' = Set(up, c, "done")
  /\ BridgeStep(c) /\ UNCHANGED <<down, peer>>

(* stream -> mesh ends with the EOF of the stream; CloseWrite() shows it   *)
(* to the peer.                                                            *)
CopyUp(c) ==
  /\ up[c] = "copying" /\ stream[c] \in {"shut", "closed"}
  /\ up' = Set(up, c, "done")
  /\ BridgeStep(c) /\ UNCHANGED <<down, peer>>

(* mesh -> stream ends with the EOF of the peer; CloseWrite() shows it to  *)
(* the pump.                                                               *)
CopyDown(c) ==
  /\ down[c] = "copying" /\ peer[c] = "fin"
  /\ down' = Set(down, c, "done")
  /\ BridgeStep(c) /\ UNCHANGED <<up, peer>>

(* A copy that has bytes to write to somebody who is gone ends too. *)
CopyFails(c) ==
  /\ \/ up[c] = "copying" /\ peer[c] = "fin" /\ up' = Set(up, c, "done") /\ down' = down
     \/ down[c] = "copying" /\ stream[c] = "closed" /\ down' = Set(down, c, "done") /\ up' = up
  /\ BridgeStep(c) /\ UNCHANGED peer

BridgeNext(c) == CopyUp(c) \/ CopyDown(c) \/ CopyFails(c)
-----------------------------------------------------------------------------
(* Close(), run once by the manager or twice with the destructor's call.   *)

CallClose ==
  /\ At(Owner, "up") /\ Throw(2)
  /\ UNCHANGED <<listen_vars, list_vars, client_vars, stream, bridge_vars>>

CloseStop ==
  /\ At(Owner, "stop") /\ Goto(Owner, "join_acceptor")
  /\ running' = FALSE
  /\ UNCHANGED <<listen_sock, listener, list_vars, client_vars, stream, bridge_vars, calls>>

CloseJoinAcceptor ==
  /\ At(Owner, "join_acceptor") /\ pc[Acceptor] \in {"none", "exited"}
  /\ Goto(Owner, "join_workers")
  /\ UNCHANGED <<listen_vars, list_vars, client_vars, stream, bridge_vars, calls>>

CloseJoinWorkers ==
  /\ At(Owner, "join_workers") /\ \A c \in workers : At(c, "exited")
  /\ workers' = {}
  /\ Goto(Owner, "close_listener")
  /\ UNCHANGED <<listen_vars, cur, client_vars, stream, bridge_vars, calls>>

(* Mutant: the member keeps the number of the closed descriptor. *)
CloseListenerKeepsMember ==
  /\ At(Owner, "close_listener")
  /\ listener' = IF listen_sock THEN Closed(listener) ELSE listener
  /\ conn' = [c \in Clients |-> IF conn[c] = "queued" THEN "closed" ELSE conn[c]]
  /\ calls' = calls - 1 /\ Goto(Owner, IF calls = 1 THEN "gone" ELSE "stop")
  /\ UNCHANGED <<running, listen_sock, list_vars, client, stream, bridge_vars>>

(* The kernel drops what is still in the backlog with the listener. *)
CloseListener ==
  /\ At(Owner, "close_listener")
  /\ listener' = IF listen_sock THEN Closed(listener) ELSE listener
  /\ listen_sock' = FALSE
  /\ conn' = [c \in Clients |-> IF conn[c] = "queued" THEN "closed" ELSE conn[c]]
  /\ calls' = calls - 1 /\ Goto(Owner, IF calls = 1 THEN "gone" ELSE "stop")
  /\ UNCHANGED <<running, list_vars, client, stream, bridge_vars>>

CloseNext == CloseStop \/ CloseJoinAcceptor \/ CloseJoinWorkers \/ CloseListener
-----------------------------------------------------------------------------
(* The clients of the local port, and the peers on the mesh. *)

ClientDials(c) ==
  /\ listener = "open" /\ conn[c] = "none"
  /\ conn' = Set(conn, c, "queued")
  /\ UNCHANGED <<listen_vars, list_vars, client, stream, bridge_vars, calls, pc>>

ClientEnds(c) ==
  /\ conn[c] \in {"queued", "open"} /\ client[c] # "reset"
  /\ \E how \in {"fin", "reset"} : how # client[c] /\ client' = Set(client, c, how)
  /\ UNCHANGED <<listen_vars, list_vars, conn, stream, bridge_vars, calls, pc>>

PeerEnds(c) ==
  /\ BridgeOpen(c) /\ peer[c] = "sending"
  /\ peer' = Set(peer, c, "fin")
  /\ BridgeStep(c) /\ UNCHANGED <<up, down>>

(* A peer that saw our EOF ends its side too. *)
PeerAnswersEof(c) == up[c] = "done" /\ PeerEnds(c)

Environment(c) == ClientDials(c) \/ ClientEnds(c) \/ PeerEnds(c)

Terminated == At(Owner, "gone") /\ UNCHANGED vars
-----------------------------------------------------------------------------
Next ==
  \/ StartNext \/ AcceptNext \/ CallClose \/ CloseNext
  \/ \E c \in Clients : \/ PumpNext(c) \/ SendMesh(c) \/ SendClient(c) \/ SendAborted(c)
                        \/ BridgeNext(c) \/ Environment(c)
  \/ Terminated

Spec == Init /\ [][Next]_vars

(* Threads and goroutines run; a dial ends, the shim bounds it by 30 s.    *)
(* Clients and peers owe us nothing.                                       *)
Fairness ==
  /\ WF_vars(AcceptNext) /\ WF_vars(CloseNext)
  /\ \A c \in Clients : WF_vars(PumpNext(c)) /\ WF_vars(CopyUp(c))
                        /\ WF_vars(CopyDown(c))

FairSpec == Spec /\ Fairness

(* Clients and peers that read what they are sent, and peers that hang up  *)
(* when we have.                                                           *)
CooperativeSpec ==
  /\ FairSpec
  /\ \A c \in Clients : /\ WF_vars(up[c] = "copying" /\ SendMesh(c)) /\ WF_vars(SendClient(c))
                        /\ WF_vars(PeerAnswersEof(c))
-----------------------------------------------------------------------------
(* Properties. *)

Stopped(t) == pc[t] \in {"none", "exited"}

(* No descriptor is closed twice, by Close() called twice or by a pump and *)
(* the accept loop: the number may be somebody else's by then.             *)
ClosedOnce ==
  /\ listener # "misused"
  /\ \A c \in Clients : conn[c] # "misused" /\ stream[c] # "misused"

(* When Close() is over, however far Start() came, every thread is joined  *)
(* and every descriptor of ours is closed.                                 *)
CloseLeavesNothing ==
  At(Owner, "gone") =>
    /\ \A t \in Threads \ {Owner} : Stopped(t)
    /\ listener # "open"
    /\ \A c \in Clients : conn[c] \in {"none", "closed"} /\ stream[c] \in {"none", "closed"}

(* An accepted client, and the stream dialled for it, always belong to the *)
(* accept loop or to a pump that Close() will join.                        *)
NoOrphanSocket ==
  \A c \in Clients :
    conn[c] = "open" \/ stream[c] \in {"open", "shut"} => cur = c \/ (c \in workers /\ ~Stopped(c))

(* IsActive() is the truth: while running_ is set somebody accepts, which  *)
(* neither a failed accept nor a failed dial changes.                      *)
ActiveMeansListening ==
  running => listener = "open" /\ ~Stopped(Acceptor)

(* Close() returns, if clients and peers read what is sent to them. *)
CloseReturns == At(Owner, "stop") ~> At(Owner, "gone")

(* The bridge of a closed stream goes away with its mesh connection, if    *)
(* the peer hangs up when it sees the end of the stream.                   *)
BridgeEnds ==
  \A c \in Clients : stream[c] = "closed" ~> ~BridgeOpen(c)
=============================================================================
