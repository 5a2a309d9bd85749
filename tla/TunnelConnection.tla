--------------------------- MODULE TunnelConnection ---------------------------
(***************************************************************************)
(* TunnelConnection: one `ssh -L` import, as TunnelManager::CreateTunnel   *)
(* drives it.  The owner connects, authenticates, starts the worker thread *)
(* and probes the local port; the worker listens on that port, opens an    *)
(* SSH channel per accepted client and starts a forwarding thread for it;  *)
(* Close() stops and joins them and frees the session.                     *)
(*                                                                         *)
(* The session stays in blocking mode and no lock guards it: a thread at   *)
(* pc "open", "write", "read" or "free" is inside a libssh2 call, and the  *)
(* first three return when the server answers or the transport is down.    *)
(* What concurrent calls do to libssh2 itself is not modelled.             *)
(*                                                                         *)
(* forward_threads_mutex_ has no variable: the worker takes it for one     *)
(* push, and Close() takes it only after it joined the worker.             *)
(***************************************************************************)
EXTENDS Naturals

CONSTANTS
  Clients,            \* connections to the local port, each with its forwarding thread
  Owner,              \* the thread in CreateTunnel(), later in Close() and the destructor
  Worker,             \* worker_thread_
  NoClient

Threads == Clients \cup {Owner, Worker}

ASSUME ThreadsAssumption ==
  /\ Owner \notin Clients /\ Worker \notin Clients /\ Owner # Worker
  /\ NoClient \notin Clients

VARIABLES
  is_running, is_connected,
  ptr,                \* the members ssh_socket_ and session_ that are set
  obj,                \* obj[r]: the resource such a member refers to
  transport,          \* the TCP connection to the SSH server: "up" or "down"
  shut,               \* Close() shut its sending side down
  port,               \* who listens on local_port: "nobody", "us" or "stranger"
  conn,               \* conn[c]: the socket of client connection c
  chan,               \* chan[c]: its SSH channel
  forward_threads,
  cur,                \* the connection the worker is opening a channel for
  status,             \* attributes_.status
  created,            \* CreateTunnel reported success
  calls,              \* Close() calls the owner still has to finish
  pc

res_vars == <<ptr, obj, transport, shut>>
conn_vars == <<port, conn, chan, forward_threads, cur>>
vars == <<is_running, is_connected, res_vars, conn_vars, status, created, calls, pc>>

Resources == {"socket", "session"}
ConnectPoints == {"connect", "init", "handshake", "auth", "start"}
ClosePoints == {"stop", "shutdown", "join_worker", "join_forward", "release"}
OwnerPoints == ConnectPoints \cup {"test", "up", "gone"} \cup ClosePoints
WorkerPoints == {"none", "listen", "loop", "accepted", "open", "leave", "exited"}
ForwardPoints == {"none", "pump", "write", "read", "send", "cleanup", "free", "exited"}

TypeOK ==
  /\ is_running \in BOOLEAN /\ is_connected \in BOOLEAN
  /\ shut \in BOOLEAN /\ created \in BOOLEAN
  /\ ptr \subseteq Resources
  /\ obj \in [Resources -> {"none", "live", "freed", "misused"}]
  /\ transport \in {"up", "down"}
  /\ port \in {"nobody", "us", "stranger"}
  /\ conn \in [Clients -> {"none", "queued", "open", "closed"}]
  /\ chan \in [Clients -> {"none", "open", "freed", "misused"}]
  /\ forward_threads \subseteq Clients
  /\ cur \in Clients \cup {NoClient}
  /\ status \in {"none", "Connected", "Authenticated", "Starting", "Listening", "Error",
                 "Stopped", "Closed"}
  /\ calls \in 0 .. 2
  /\ pc \in [Threads -> OwnerPoints \cup WorkerPoints \cup ForwardPoints]
  /\ pc[Owner] \in OwnerPoints /\ pc[Worker] \in WorkerPoints
  /\ \A c \in Clients : pc[c] \in ForwardPoints

Init ==
  /\ is_running = FALSE /\ is_connected = FALSE
  /\ ptr = {} /\ obj = [r \in Resources |-> "none"]
  /\ transport = "up" /\ shut = FALSE
  /\ port \in {"nobody", "stranger"}
  /\ conn = [c \in Clients |-> "none"]
  /\ chan = [c \in Clients |-> "none"]
  /\ forward_threads = {} /\ cur = NoClient
  /\ status = "none" /\ created = FALSE /\ calls = 0
  /\ pc = [t \in Threads |-> IF t = Owner THEN "connect" ELSE "none"]
-----------------------------------------------------------------------------
At(t, p) == pc[t] = p
Goto(t, p) == pc' = [pc EXCEPT ![t] = p]

New(r) ==
  /\ ptr' = ptr \cup {r}
  /\ obj' = [obj EXCEPT ![r] = "live"]

(* Using or freeing a descriptor or a pointer that was freed before. *)
Freed(state) == IF state \in {"live", "open"} THEN "freed" ELSE "misused"
Used(state) == IF state = "live" THEN state ELSE "misused"

(* The exception unwinds to ~TunnelConnection(), which calls Close(). *)
Throw(n) == Goto(Owner, "stop") /\ calls' = n
-----------------------------------------------------------------------------
(* CreateTunnel(): Connect(), Authenticate*(), StartWorker(),              *)
(* TestTunnelConnection().                                                 *)

ConnectSocket ==
  /\ At(Owner, "connect") /\ Goto(Owner, "init")
  /\ New("socket")
  /\ UNCHANGED <<is_running, is_connected, transport, shut, conn_vars, status, created, calls>>

(* Parameters rejected, host not resolved, or nobody answers. *)
ConnectFails ==
  /\ At(Owner, "connect") /\ Throw(1)
  /\ UNCHANGED <<is_running, is_connected, res_vars, conn_vars, status, created>>

SessionInit ==
  /\ At(Owner, "init") /\ Goto(Owner, "handshake")
  /\ New("session")
  /\ UNCHANGED <<is_running, is_connected, transport, shut, conn_vars, status, created, calls>>

(* Connect() closes ssh_socket_, but the member keeps its value. *)
ConnectClosesSocket ==
  /\ pc[Owner] \in {"init", "handshake"} /\ Throw(1)
  /\ obj' = [obj EXCEPT !["socket"] = Freed(@)]
  /\ UNCHANGED <<is_running, is_connected, ptr, transport, shut, conn_vars, status, created>>

Handshake ==
  /\ At(Owner, "handshake") /\ transport = "up" /\ Goto(Owner, "auth")
  /\ is_connected' = TRUE
  /\ status' = "Connected"
  /\ UNCHANGED <<is_running, res_vars, conn_vars, created, calls>>

Authenticate ==
  /\ At(Owner, "auth") /\ transport = "up" /\ Goto(Owner, "start")
  /\ status' = "Authenticated"
  /\ UNCHANGED <<is_running, is_connected, res_vars, conn_vars, created, calls>>

AuthenticateFails ==
  /\ At(Owner, "auth") /\ Throw(1)
  /\ UNCHANGED <<is_running, is_connected, res_vars, conn_vars, status, created>>

StartWorker ==
  /\ At(Owner, "start")
  /\ is_running' = TRUE
  /\ pc' = [pc EXCEPT ![Owner] = "test", ![Worker] = "listen"]
  /\ UNCHANGED <<is_connected, res_vars, conn_vars, status, created, calls>>

(* TestTunnelConnection: a connect to 127.0.0.1:local_port succeeded.  It  *)
(* reaches whoever listens there; the worker will accept it like any       *)
(* client, c.                                                              *)
ProbeConnects(c) ==
  /\ At(Owner, "test") /\ Goto(Owner, "up")
  /\ conn[c] = "none" /\ port = "us"
  /\ conn' = [conn EXCEPT ![c] = "queued"]
  /\ created' = TRUE
  /\ UNCHANGED <<is_running, is_connected, res_vars, port, chan, forward_threads, cur,
                 status, calls>>

ProbeReachesStranger ==
  /\ At(Owner, "test") /\ Goto(Owner, "up")
  /\ port = "stranger"
  /\ created' = TRUE
  /\ UNCHANGED <<is_running, is_connected, res_vars, conn_vars, status, calls>>

(* The timeout: CreateTunnel calls Close() itself, then throws. *)
TestTimesOut ==
  /\ At(Owner, "test") /\ Throw(2)
  /\ UNCHANGED <<is_running, is_connected, res_vars, conn_vars, status, created>>

CreateNext ==
  \/ ConnectSocket \/ ConnectFails \/ SessionInit \/ ConnectClosesSocket \/ Handshake
  \/ Authenticate \/ AuthenticateFails \/ StartWorker
  \/ \E c \in Clients : ProbeConnects(c)
  \/ ProbeReachesStranger \/ TestTimesOut
-----------------------------------------------------------------------------
(* WorkerFunction(). *)

Listen ==
  /\ At(Worker, "listen") /\ port = "nobody"
  /\ Goto(Worker, "loop")
  /\ port' = "us" /\ status' = "Listening"
  /\ UNCHANGED <<is_running, is_connected, res_vars, conn, chan, forward_threads, cur, created,
                 calls>>

(* socket(), bind() or listen() failed: the thread ends, is_running_ stays. *)
ListenFails ==
  /\ At(Worker, "listen") /\ Goto(Worker, "exited")
  /\ status' = "Error"
  /\ UNCHANGED <<is_running, is_connected, res_vars, conn_vars, created, calls>>

LeaveLoop ==
  /\ At(Worker, "loop") /\ ~is_running
  /\ Goto(Worker, "leave")
  /\ UNCHANGED <<is_running, is_connected, res_vars, conn_vars, status, created, calls>>

(* select() or accept() failed: leave the loop, is_running_ stays. *)
LoopFails ==
  /\ At(Worker, "loop") /\ Goto(Worker, "leave")
  /\ UNCHANGED <<is_running, is_connected, res_vars, conn_vars, status, created, calls>>

Accept(c) ==
  /\ At(Worker, "loop") /\ is_running /\ conn[c] = "queued"
  /\ conn' = [conn EXCEPT ![c] = "open"] /\ cur' = c
  /\ Goto(Worker, "accepted")
  /\ UNCHANGED <<is_running, is_connected, res_vars, port, chan, forward_threads, status,
                 created, calls>>

(* is_running_ is read again before the channel is opened. *)
AcceptedTooLate ==
  /\ At(Worker, "accepted") /\ ~is_running
  /\ conn' = [conn EXCEPT ![cur] = "closed"] /\ cur' = NoClient
  /\ Goto(Worker, "leave")
  /\ UNCHANGED <<is_running, is_connected, res_vars, port, chan, forward_threads, status,
                 created, calls>>

DirectTcpip ==
  /\ At(Worker, "accepted") /\ is_running
  /\ Goto(Worker, "open")
  /\ UNCHANGED <<is_running, is_connected, res_vars, conn_vars, status, created, calls>>

(* Mutant: detaches the forwarding thread. *)
ChannelOpenedDetached ==
  /\ At(Worker, "open") /\ transport = "up"
  /\ chan' = [chan EXCEPT ![cur] = "open"]
  /\ pc' = [pc EXCEPT ![Worker] = "loop", ![cur] = "pump"]
  /\ cur' = NoClient
  /\ UNCHANGED <<is_running, is_connected, res_vars, port, conn, forward_threads, status, created,
                 calls>>

(* The channel is open: start ForwardData() on a tracked thread. *)
ChannelOpened ==
  /\ At(Worker, "open") /\ transport = "up"
  /\ chan' = [chan EXCEPT ![cur] = "open"]
  /\ forward_threads' = forward_threads \cup {cur}
  /\ pc' = [pc EXCEPT ![Worker] = "loop", ![cur] = "pump"]
  /\ cur' = NoClient
  /\ UNCHANGED <<is_running, is_connected, res_vars, port, conn, status, created, calls>>

(* Mutant: forgets the client's socket. *)
ChannelRefusedKeepsClient ==
  /\ At(Worker, "open")
  /\ cur' = NoClient
  /\ Goto(Worker, "loop")
  /\ UNCHANGED <<is_running, is_connected, res_vars, port, conn, chan, forward_threads, status,
                 created, calls>>

(* No channel: the server refused it, or the transport is down. *)
ChannelRefused ==
  /\ At(Worker, "open")
  /\ conn' = [conn EXCEPT ![cur] = "closed"] /\ cur' = NoClient
  /\ Goto(Worker, "loop")
  /\ UNCHANGED <<is_running, is_connected, res_vars, port, chan, forward_threads, status,
                 created, calls>>

(* CloseSocket(port) resets the connections nobody accepted. *)
WorkerExit ==
  /\ At(Worker, "leave") /\ Goto(Worker, "exited")
  /\ port' = "nobody"
  /\ conn' = [c \in Clients |-> IF conn[c] = "queued" THEN "closed" ELSE conn[c]]
  /\ status' = "Stopped"
  /\ UNCHANGED <<is_running, is_connected, res_vars, chan, forward_threads, cur, created, calls>>
-----------------------------------------------------------------------------
(* ForwardData() for connection c. *)

ForwardStep(c, from, to) ==
  /\ At(c, from) /\ Goto(c, to)
  /\ UNCHANGED <<is_running, is_connected, res_vars, conn_vars, status, created, calls>>

ForwardStopped(c) == ~is_running /\ ForwardStep(c, "pump", "cleanup")

(* select() and recv(): nothing, some bytes, or end of file and errors. *)
RecvClient(c) ==
  /\ is_running
  /\ \E to \in {"read", "write", "cleanup"} : ForwardStep(c, "pump", to)

(* Mutant: takes an error of the channel for "no data yet". *)
ChannelFailsRetries(c) == \E p \in {"write", "read"} : ForwardStep(c, p, "pump")

(* libssh2_channel_write and libssh2_channel_read: the server lets them    *)
(* through, or they fail.                                                  *)
ChannelWrite(c) == transport = "up" /\ ForwardStep(c, "write", "read")
ChannelRead(c) ==
  /\ transport = "up"
  /\ \E to \in {"send", "pump", "cleanup"} : ForwardStep(c, "read", to)
ChannelFails(c) == \E p \in {"write", "read"} : ForwardStep(c, p, "cleanup")

(* send() to the client's non-blocking socket: any error ends it. *)
SendClient(c) == \E to \in {"pump", "cleanup"} : ForwardStep(c, "send", to)

CloseClient(c) ==
  /\ At(c, "cleanup") /\ Goto(c, "free")
  /\ conn' = [conn EXCEPT ![c] = "closed"]
  /\ UNCHANGED <<is_running, is_connected, res_vars, port, chan, forward_threads, cur,
                 status, created, calls>>

ChannelFree(c) ==
  /\ At(c, "free") /\ Goto(c, "exited")
  /\ chan' = [chan EXCEPT ![c] = Freed(@)]
  /\ UNCHANGED <<is_running, is_connected, res_vars, port, conn, forward_threads, cur,
                 status, created, calls>>
-----------------------------------------------------------------------------
(* Close(): called by the manager and again by the destructor. *)

CallClose ==
  /\ At(Owner, "up") /\ Throw(2)
  /\ UNCHANGED <<is_running, is_connected, res_vars, conn_vars, status, created>>

CloseStop ==
  /\ At(Owner, "stop") /\ Goto(Owner, "shutdown")
  /\ is_running' = FALSE
  /\ UNCHANGED <<is_connected, res_vars, conn_vars, status, created, calls>>

(* Mutant: joins without shutting the socket down first. *)
NoShutdown ==
  /\ At(Owner, "shutdown") /\ Goto(Owner, "join_worker")
  /\ UNCHANGED <<is_running, is_connected, res_vars, conn_vars, status, created, calls>>

ShutdownWrite ==
  /\ At(Owner, "shutdown") /\ Goto(Owner, "join_worker")
  /\ IF "socket" \in ptr
     THEN obj' = [obj EXCEPT !["socket"] = Used(@)] /\ shut' = TRUE
     ELSE UNCHANGED <<obj, shut>>
  /\ UNCHANGED <<is_running, is_connected, ptr, transport, conn_vars, status, created, calls>>

CloseJoinWorker ==
  /\ At(Owner, "join_worker") /\ Goto(Owner, "join_forward")
  /\ pc[Worker] \in {"none", "exited"}
  /\ UNCHANGED <<is_running, is_connected, res_vars, conn_vars, status, created, calls>>

(* Mutant: frees the session without joining the forwarding threads. *)
NoJoinForward ==
  /\ At(Owner, "join_forward") /\ Goto(Owner, "release")
  /\ UNCHANGED <<is_running, is_connected, res_vars, conn_vars, status, created, calls>>

CloseJoinForward ==
  /\ At(Owner, "join_forward") /\ Goto(Owner, "release")
  /\ \A c \in forward_threads : At(c, "exited")
  /\ forward_threads' = {}
  /\ UNCHANGED <<is_running, is_connected, res_vars, port, conn, chan, cur, status, created,
                 calls>>

(* Disconnect (bounded by 5s) and free the session, close the socket. *)
CloseRelease ==
  /\ At(Owner, "release")
  /\ ptr' = {}
  /\ obj' = [r \in Resources |-> IF r \in ptr THEN Freed(obj[r]) ELSE obj[r]]
  /\ is_connected' = FALSE /\ status' = "Closed"
  /\ calls' = calls - 1
  /\ Goto(Owner, IF calls = 1 THEN "gone" ELSE "stop")
  /\ UNCHANGED <<is_running, transport, shut, conn_vars, created>>

CloseNext ==
  \/ CloseStop \/ ShutdownWrite \/ CloseJoinWorker \/ CloseJoinForward \/ CloseRelease
-----------------------------------------------------------------------------
(* The environment. *)

Dial(c) ==
  /\ conn[c] = "none" /\ port = "us"
  /\ conn' = [conn EXCEPT ![c] = "queued"]
  /\ UNCHANGED <<is_running, is_connected, res_vars, port, chan, forward_threads, cur,
                 status, created, calls, pc>>

(* The server or the network ends the connection ... *)
TransportDrops ==
  /\ transport = "up" /\ obj["socket"] = "live"
  /\ transport' = "down"
  /\ UNCHANGED <<is_running, is_connected, ptr, obj, shut, conn_vars, status, created, calls, pc>>

(* ... which is how a server answers the end of our side, if it does. *)
ServerHangsUp == shut /\ TransportDrops

Terminated == At(Owner, "gone") /\ UNCHANGED vars

(* What a thread does by itself, and what it does when the server replies. *)
WorkerNext ==
  \/ Listen \/ ListenFails \/ LeaveLoop \/ AcceptedTooLate \/ DirectTcpip \/ WorkerExit
  \/ \E c \in Clients : Accept(c)

ForwardNext(c) ==
  \/ ForwardStopped(c) \/ RecvClient(c) \/ SendClient(c) \/ CloseClient(c) \/ ChannelFree(c)

ServerReplies ==
  \/ ChannelOpened \/ ChannelRefused
  \/ \E c \in Clients : ChannelWrite(c) \/ ChannelRead(c) \/ ChannelFails(c)

Next ==
  \/ CreateNext \/ CallClose \/ CloseNext \/ WorkerNext \/ ServerReplies
  \/ \E c \in Clients : ForwardNext(c) \/ Dial(c)
  \/ LoopFails \/ TransportDrops \/ Terminated

Spec == Init /\ [][Next]_vars

(* Every thread runs, and once the transport is down the libssh2 call it   *)
(* is in fails.  Nothing is assumed of the SSH server.                     *)
Fairness ==
  /\ WF_vars(CloseNext) /\ WF_vars(WorkerNext)
  /\ WF_vars(transport = "down" /\ ChannelRefused)
  /\ \A c \in Clients : WF_vars(ForwardNext(c)) /\ WF_vars(transport = "down" /\ ChannelFails(c))

FairSpec == Spec /\ Fairness

(* A server that hangs up when we do. *)
CooperativeSpec == FairSpec /\ WF_vars(ServerHangsUp)
-----------------------------------------------------------------------------
(* Properties. *)

Stopped(t) == pc[t] \in {"none", "exited"}
InLibssh2(t) == pc[t] \in {"open", "write", "read", "free"}

(* The joins come before the session is freed: no thread is inside libssh2 *)
(* with a session or a channel that is gone.                               *)
NoUseAfterFree ==
  /\ \A t \in Clients \cup {Worker} : InLibssh2(t) => obj["session"] = "live"
  /\ \A c \in Clients : InLibssh2(c) => chan[c] = "open"

(* When Close() is over, however far the create came, every thread is      *)
(* joined and no socket, session or channel is left.                       *)
CloseLeavesNothing ==
  At(Owner, "gone") =>
    /\ \A t \in Clients \cup {Worker} : Stopped(t)
    /\ ptr = {} /\ \A r \in Resources : obj[r] # "live"
    /\ port # "us"
    /\ \A c \in Clients : conn[c] \in {"none", "closed"} /\ chan[c] \in {"none", "freed"}

(* No client socket is orphaned: one that was accepted belongs to the      *)
(* worker or to a running forwarding thread that Close() will join.        *)
NoOrphanSocket ==
  \A c \in Clients : conn[c] = "open" => cur = c \/ (c \in forward_threads /\ ~Stopped(c))

(* A lost SSH connection ends every forwarding thread: the blocked libssh2 *)
(* call fails, and no error is taken for a reason to go on.                *)
DropEndsForwarding ==
  \A c \in Clients : transport = "down" /\ ~Stopped(c) ~> Stopped(c)

(* Close() always returns.  It needs a server that hangs up. *)
CloseReturns == At(Owner, "stop") ~> At(Owner, "gone")
=============================================================================
