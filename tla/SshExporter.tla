----------------------------- MODULE SshExporter -----------------------------
(***************************************************************************)
(* SshExporter: one `ssh -R` export.  Start() asks the SSH server for a    *)
(* listener and spawns the accept thread; every inbound channel gets a     *)
(* worker thread that runs Pump(); Close() stops and joins them all before *)
(* it frees what they shared.                                              *)
(*                                                                         *)
(* The threads share one libssh2 session, which is not thread-safe, and    *)
(* three mutexes: session_mu_ around every libssh2 call once threads       *)
(* exist, workers_mu_ around the vector of workers, mu_ around attrs_.     *)
(* A thread at pc "lock_x" is waiting for a mutex, at pc "x" it owns it.   *)
(*                                                                         *)
(* Each select() with a timeout is the choice of what it may report, and   *)
(* payloads are reduced to "some bytes are read but not yet written".      *)
(***************************************************************************)
EXTENDS Naturals

CONSTANTS
  Workers,            \* inbound channels, each with its worker thread
  Owner,              \* the thread in Start(), later in Close() and ~SshExporter()
  Acceptor,           \* accept_thread_
  NoThread

Threads == Workers \cup {Owner, Acceptor}

ASSUME ThreadsAssumption ==
  /\ Owner \notin Workers /\ Acceptor \notin Workers /\ Owner # Acceptor
  /\ NoThread \notin Threads

VARIABLES
  running,            \* running_
  ptr,                \* the members ssh_socket_, session_, listener_ that are set
  obj,                \* obj[r]: the resource such a member refers to
  blocking,           \* the session's blocking mode
  transport,          \* the TCP connection under the session: "up" or "down"
  chan,               \* chan[w]: the channel of inbound connection w
  local,              \* local[w]: the socket to the exported service
  unsent,             \* the connections with bytes received, not yet on the channel
  workers,            \* workers_
  finished,           \* ReapFinishedWorkers' local vector
  pending,            \* Close's local vector
  cur,                \* the channel the accept loop is starting a worker for
  status, error,      \* attrs_.status, attrs_.error_message
  lock,               \* lock[m]: the thread owning mutex m
  calls,              \* Close() calls the owner still has to finish
  pc

res_vars == <<ptr, obj, blocking, transport>>
conn_vars == <<chan, local, unsent>>
list_vars == <<workers, finished, pending, cur>>
attr_vars == <<status, error>>
vars == <<running, res_vars, conn_vars, list_vars, attr_vars, lock, calls, pc>>

Mutexes == {"session_mu", "workers_mu", "mu"}
Resources == {"socket", "session", "listener"}

(* <<mutex, waiting for it, inside>> *)
Sections ==
  {<<"session_mu", "lock_accept", "accept">>, <<"session_mu", "lock_write", "write">>,
   <<"session_mu", "lock_read", "read">>,     <<"session_mu", "lock_eof", "eof">>,
   <<"session_mu", "lock_free", "free">>,     <<"session_mu", "lock_cancel", "cancel">>,
   <<"workers_mu", "lock_reap", "reap">>,     <<"workers_mu", "lock_push", "push">>,
   <<"workers_mu", "lock_swap", "swap">>,     <<"mu", "lock_dial", "dial_args">>,
   <<"mu", "lock_error", "error">>,           <<"mu", "lock_publish", "publish">>,
   <<"mu", "lock_status", "status">>}

StartPoints == {"probe", "dial", "fits", "init", "handshake", "auth", "listen", "configure",
                "lock_publish", "publish", "run", "spawn"}
ClosePoints == {"stop", "join_accept", "lock_swap", "swap", "join_workers", "lock_cancel",
                "cancel", "disconnect", "lock_status", "status"}
OwnerPoints == StartPoints \cup {"up"} \cup ClosePoints \cup {"gone"}
AcceptPoints == {"none", "loop", "lock_accept", "accept", "lock_reap", "reap", "join",
                 "lock_push", "push", "lock_error", "error", "drop", "exited"}
WorkerPoints == {"none", "lock_dial", "dial_args", "dial", "lock_error", "error", "pump",
                 "write_loop", "lock_write", "write", "lock_read", "read", "send", "lock_eof",
                 "eof", "lock_free", "free", "ending", "exited"}

TypeOK ==
  /\ running \in BOOLEAN /\ blocking \in BOOLEAN
  /\ ptr \subseteq Resources
  /\ obj \in [Resources -> {"none", "live", "freed", "misused"}]
  /\ transport \in {"up", "down"}
  /\ chan \in [Workers -> {"none", "queued", "accepted", "freed", "misused"}]
  /\ local \in [Workers -> {"none", "open", "closed"}]
  /\ unsent \subseteq Workers
  /\ workers \subseteq Workers /\ finished \subseteq Workers /\ pending \subseteq Workers
  /\ cur \in Workers \cup {NoThread}
  /\ status \in {"Configuring", "Exporting", "Closed"}
  /\ error \in {"none", "backend", "files", "dropped"}
  /\ lock \in [Mutexes -> Threads \cup {NoThread}]
  /\ calls \in 0 .. 2
  /\ pc[Owner] \in OwnerPoints /\ pc[Acceptor] \in AcceptPoints
  /\ pc \in [Threads -> OwnerPoints \cup AcceptPoints \cup WorkerPoints]
  /\ \A w \in Workers : pc[w] \in WorkerPoints

Init ==
  /\ running = FALSE /\ blocking = TRUE /\ transport = "up"
  /\ ptr = {}
  /\ obj = [r \in Resources |-> "none"]
  /\ chan = [w \in Workers |-> "none"]
  /\ local = [w \in Workers |-> "none"]
  /\ unsent = {}
  /\ workers = {} /\ finished = {} /\ pending = {} /\ cur = NoThread
  /\ status = "Configuring" /\ error = "none"
  /\ lock = [m \in Mutexes |-> NoThread]
  /\ calls = 0
  /\ pc = [t \in Threads |-> IF t = Owner THEN "probe" ELSE "none"]
-----------------------------------------------------------------------------
At(t, p) == pc[t] = p
Goto(t, p) == pc' = [pc EXCEPT ![t] = p]
Unlock(m) == lock' = [lock EXCEPT ![m] = NoThread]

(* std::lock_guard on any of the three mutexes. *)
Acquire(t) ==
  /\ \E s \in Sections :
       /\ At(t, s[2])
       /\ lock[s[1]] = NoThread
       /\ lock' = [lock EXCEPT ![s[1]] = t]
       /\ Goto(t, s[3])
  /\ UNCHANGED <<running, res_vars, conn_vars, list_vars, attr_vars, calls>>

New(r) ==
  /\ ptr' = ptr \cup {r}
  /\ obj' = [obj EXCEPT ![r] = "live"]

Freed(state) == IF state \in {"live", "accepted", "queued"} THEN "freed" ELSE "misused"
-----------------------------------------------------------------------------
(* Start().  An exception leaves the destructor to call Close(); from the  *)
(* handshake on the code calls Close() itself before it throws.            *)

StartStep(from, to) ==
  /\ At(Owner, from) /\ Goto(Owner, to)
  /\ UNCHANGED <<running, conn_vars, list_vars, attr_vars, lock, calls>>

Throw(n) == Goto(Owner, "stop") /\ calls' = n

(* A step failed: nothing listens locally, or no SSH connection. *)
StartThrows ==
  /\ pc[Owner] \in {"probe", "dial"} /\ Throw(1)
  /\ UNCHANGED <<running, res_vars, conn_vars, list_vars, attr_vars, lock>>

ProbeLocalService == StartStep("probe", "dial") /\ UNCHANGED res_vars

DialSsh == StartStep("dial", "fits") /\ New("socket") /\ UNCHANGED <<blocking, transport>>

FitsInFdSet == StartStep("fits", "init") /\ UNCHANGED res_vars

SessionInit == StartStep("init", "handshake") /\ New("session") /\ UNCHANGED <<blocking, transport>>

(* Too many open files, or no session: close the socket here and throw. *)
StartClosesSocket ==
  /\ pc[Owner] \in {"fits", "init"} /\ Throw(1)
  /\ obj' = [obj EXCEPT !["socket"] = Freed(@)]
  /\ ptr' = ptr \ {"socket"}
  /\ UNCHANGED <<running, blocking, transport, conn_vars, list_vars, attr_vars, lock>>

Handshake == StartStep("handshake", "auth") /\ transport = "up" /\ UNCHANGED res_vars
Authenticate == StartStep("auth", "listen") /\ transport = "up" /\ UNCHANGED res_vars

ForwardListen ==
  /\ StartStep("listen", "configure") /\ transport = "up"
  /\ New("listener") /\ UNCHANGED <<blocking, transport>>

(* Handshake, authentication (agent auth always) or the forward request    *)
(* failed.                                                                 *)
StartCloses ==
  /\ pc[Owner] \in {"handshake", "auth", "listen"} /\ Throw(2)
  /\ UNCHANGED <<running, res_vars, conn_vars, list_vars, attr_vars, lock>>

(* The server granted the forward but did not report the bound port. *)
ForwardListenNoPort ==
  /\ At(Owner, "listen") /\ transport = "up"
  /\ New("listener") /\ Throw(2)
  /\ UNCHANGED <<running, blocking, transport, conn_vars, list_vars, attr_vars, lock>>

(* Mutant: the session stays in blocking mode. *)
StayBlocking == StartStep("configure", "lock_publish") /\ UNCHANGED res_vars

(* libssh2_keepalive_config, set_blocking(0), set_timeout(0) *)
SetNonBlocking ==
  /\ StartStep("configure", "lock_publish")
  /\ blocking' = FALSE /\ UNCHANGED <<ptr, obj, transport>>

Publish ==
  /\ At(Owner, "publish") /\ Goto(Owner, "run") /\ Unlock("mu")
  /\ status' = "Exporting"
  /\ UNCHANGED <<running, res_vars, conn_vars, list_vars, error, calls>>

SetRunning ==
  /\ At(Owner, "run") /\ Goto(Owner, "spawn")
  /\ running' = TRUE
  /\ UNCHANGED <<res_vars, conn_vars, list_vars, attr_vars, lock, calls>>

SpawnAcceptor ==
  /\ At(Owner, "spawn")
  /\ pc' = [pc EXCEPT ![Owner] = "up", ![Acceptor] = "loop"]
  /\ UNCHANGED <<running, res_vars, conn_vars, list_vars, attr_vars, lock, calls>>

StartNext ==
  \/ StartThrows \/ ProbeLocalService \/ DialSsh \/ FitsInFdSet \/ SessionInit
  \/ StartClosesSocket \/ Handshake \/ Authenticate \/ ForwardListen \/ StartCloses
  \/ ForwardListenNoPort \/ SetNonBlocking \/ Publish \/ SetRunning \/ SpawnAcceptor
-----------------------------------------------------------------------------
(* AcceptLoop().  The check of running_ before the select is subsumed by   *)
(* the one after it; the check for a null listener_ never fires, as        *)
(* NoUseAfterFree states.                                                  *)

AcceptTop ==
  /\ At(Acceptor, "loop")
  /\ Goto(Acceptor, IF running THEN "lock_accept" ELSE "exited")
  /\ UNCHANGED <<running, res_vars, conn_vars, list_vars, attr_vars, lock, calls>>

ForwardAccept(w) ==
  /\ At(Acceptor, "accept")
  /\ chan[w] = "queued"
  /\ chan' = [chan EXCEPT ![w] = "accepted"]
  /\ cur' = w
  /\ Unlock("session_mu") /\ Goto(Acceptor, "lock_reap")
  /\ UNCHANGED <<running, res_vars, local, unsent, workers, finished, pending, attr_vars, calls>>

NothingQueued == At(Acceptor, "accept") /\ \A w \in Workers : chan[w] # "queued"

(* No channel: EAGAIN from a non-blocking session, where a blocking one    *)
(* would wait.  A dead transport may look the same: forward_accept         *)
(* answers CHANNEL_UNKNOWN, and what keepalive_send returns is ignored.    *)
ForwardAcceptNone ==
  /\ NothingQueued /\ (blocking => transport = "down")
  /\ Unlock("session_mu") /\ Goto(Acceptor, "loop")
  /\ UNCHANGED <<running, res_vars, conn_vars, list_vars, attr_vars, calls>>

(* No channel, and libssh2 reports the dead transport: SOCKET_SEND,        *)
(* SOCKET_RECV or SOCKET_DISCONNECT.                                       *)
ForwardAcceptDropped ==
  /\ NothingQueued /\ transport = "down"
  /\ Unlock("session_mu") /\ Goto(Acceptor, "lock_error")
  /\ UNCHANGED <<running, res_vars, conn_vars, list_vars, attr_vars, calls>>

Done(w) == pc[w] \in {"ending", "exited"}

CollectFinished ==
  /\ At(Acceptor, "reap")
  /\ finished' = {w \in workers : Done(w)}
  /\ workers' = {w \in workers : ~Done(w)}
  /\ Unlock("workers_mu") /\ Goto(Acceptor, "join")
  /\ UNCHANGED <<running, res_vars, conn_vars, pending, cur, attr_vars, calls>>

(* Join what was collected, then start the worker of the new channel. *)
JoinFinishedAndSpawn ==
  /\ At(Acceptor, "join")
  /\ \A w \in finished : At(w, "exited")
  /\ finished' = {}
  /\ pc' = [pc EXCEPT ![cur] = "lock_dial", ![Acceptor] = "lock_push"]
  /\ UNCHANGED <<running, res_vars, conn_vars, workers, pending, cur, attr_vars, lock, calls>>

(* Mutant: the thread is detached instead of kept. *)
PushNobody ==
  /\ At(Acceptor, "push")
  /\ cur' = NoThread
  /\ Unlock("workers_mu") /\ Goto(Acceptor, "loop")
  /\ UNCHANGED <<running, res_vars, conn_vars, workers, finished, pending, attr_vars, calls>>

PushWorker ==
  /\ At(Acceptor, "push")
  /\ workers' = workers \cup {cur} /\ cur' = NoThread
  /\ Unlock("workers_mu") /\ Goto(Acceptor, "loop")
  /\ UNCHANGED <<running, res_vars, conn_vars, finished, pending, attr_vars, calls>>

RecordDropped ==
  /\ At(Acceptor, "error")
  /\ error' = "dropped"
  /\ Unlock("mu") /\ Goto(Acceptor, "drop")
  /\ UNCHANGED <<running, res_vars, conn_vars, list_vars, status, calls>>

(* Mutant: the accept loop ends, but the export still counts as active. *)
ExitOnDrop ==
  /\ At(Acceptor, "drop") /\ Goto(Acceptor, "exited")
  /\ UNCHANGED <<running, res_vars, conn_vars, list_vars, attr_vars, lock, calls>>

StopOnDrop ==
  /\ At(Acceptor, "drop") /\ Goto(Acceptor, "exited")
  /\ running' = FALSE
  /\ UNCHANGED <<res_vars, conn_vars, list_vars, attr_vars, lock, calls>>

AcceptNext ==
  \/ AcceptTop \/ ForwardAcceptNone \/ ForwardAcceptDropped
  \/ \E w \in Workers : ForwardAccept(w)
  \/ CollectFinished \/ JoinFinishedAndSpawn \/ PushWorker \/ RecordDropped \/ StopOnDrop
-----------------------------------------------------------------------------
(* Pump() on worker thread w. *)

CloseLocal(w) == local' = [local EXCEPT ![w] = IF @ = "open" THEN "closed" ELSE @]

(* A break out of the pump loop: close the local socket, then the channel. *)
Leave(w) == CloseLocal(w) /\ Goto(w, "lock_free")

CopyDialArgs(w) ==
  /\ At(w, "dial_args") /\ Unlock("mu") /\ Goto(w, "dial")
  /\ UNCHANGED <<running, res_vars, conn_vars, list_vars, attr_vars, calls>>

(* The exported service answers, refuses, or its socket does not fit the   *)
(* fd_set.                                                                 *)
DialLocalService(w) ==
  /\ At(w, "dial")
  /\ \E s \in {"none", "open"}, p \in {"pump", "lock_error"} :
       /\ s = "none" => p = "lock_error"
       /\ local' = [local EXCEPT ![w] = s]
       /\ Goto(w, p)
  /\ UNCHANGED <<running, res_vars, chan, unsent, list_vars, attr_vars, lock, calls>>

(* Mutant: a dead backend ends the export. *)
StopOnRefusal(w) ==
  /\ At(w, "error")
  /\ error' = IF local[w] = "open" THEN "files" ELSE "backend"
  /\ running' = FALSE
  /\ Unlock("mu") /\ Leave(w)
  /\ UNCHANGED <<res_vars, chan, unsent, list_vars, status, calls>>

RecordRefused(w) ==
  /\ At(w, "error")
  /\ error' = IF local[w] = "open" THEN "files" ELSE "backend"
  /\ Unlock("mu") /\ Leave(w)
  /\ UNCHANGED <<running, res_vars, chan, unsent, list_vars, status, calls>>

PumpStopped(w) ==
  /\ At(w, "pump") /\ ~running
  /\ Leave(w)
  /\ UNCHANGED <<running, res_vars, chan, unsent, list_vars, attr_vars, lock, calls>>

(* Mutant: sends end-of-file without session_mu_. *)
RecvLocalEofUnlocked(w) ==
  /\ At(w, "pump") /\ running
  /\ Goto(w, "lock_read") \/ Goto(w, "eof")
  /\ UNCHANGED <<running, res_vars, conn_vars, list_vars, attr_vars, lock, calls>>

(* select() and recv() on the local socket, no lock held. *)
RecvLocal(w) ==
  /\ At(w, "pump") /\ running
  /\ \/ Goto(w, "lock_read") /\ UNCHANGED <<local, unsent>>
     \/ Goto(w, "write_loop") /\ unsent' = unsent \cup {w} /\ UNCHANGED local
     \/ Goto(w, "lock_eof") /\ UNCHANGED <<local, unsent>>
     \/ Leave(w) /\ UNCHANGED unsent
  /\ UNCHANGED <<running, res_vars, chan, list_vars, attr_vars, lock, calls>>

(* Mutant: one write per recv, the rest of a short write is left over. *)
WriteOnce(w) ==
  /\ At(w, "write_loop")
  /\ Goto(w, "lock_write") \/ Goto(w, "lock_read")
  /\ UNCHANGED <<running, res_vars, conn_vars, list_vars, attr_vars, lock, calls>>

(* while (off < n && running_) *)
WriteLoop(w) ==
  /\ At(w, "write_loop")
  /\ Goto(w, IF w \in unsent /\ running THEN "lock_write" ELSE "lock_read")
  /\ UNCHANGED <<running, res_vars, conn_vars, list_vars, attr_vars, lock, calls>>

(* libssh2_channel_write: all of it, a part or EAGAIN, or an error. *)
ChannelWrite(w) ==
  /\ At(w, "write") /\ Unlock("session_mu")
  /\ \/ /\ unsent' \in {unsent, unsent \ {w}}
        /\ Goto(w, "write_loop") /\ UNCHANGED local
     \/ Leave(w) /\ UNCHANGED unsent
  /\ UNCHANGED <<running, res_vars, chan, list_vars, attr_vars, calls>>

(* libssh2_channel_read: data, EAGAIN, end of file or an error. *)
ChannelRead(w) ==
  /\ At(w, "read") /\ Unlock("session_mu")
  /\ \/ Goto(w, "send") /\ UNCHANGED local
     \/ Goto(w, "pump") /\ UNCHANGED local
     \/ Leave(w)
  /\ UNCHANGED <<running, res_vars, chan, unsent, list_vars, attr_vars, calls>>

(* SendAll() to the local service gets everything out or fails ... *)
SendLocal(w) ==
  /\ At(w, "send")
  /\ (Goto(w, "pump") /\ UNCHANGED local) \/ Leave(w)
  /\ UNCHANGED <<running, res_vars, chan, unsent, list_vars, attr_vars, lock, calls>>

(* ... and gives up within 50ms of running_ going false. *)
SendAborted(w) ==
  /\ At(w, "send") /\ ~running
  /\ Leave(w)
  /\ UNCHANGED <<running, res_vars, chan, unsent, list_vars, attr_vars, lock, calls>>

SendEof(w) ==
  /\ At(w, "eof") /\ Unlock("session_mu")
  /\ Leave(w)
  /\ UNCHANGED <<running, res_vars, chan, unsent, list_vars, attr_vars, calls>>

(* libssh2_channel_close, libssh2_channel_free; Pump() returns and the     *)
(* thread sets its done flag.  Either call may say EAGAIN, which nobody    *)
(* looks at: the channel then stays with the session.                      *)
ChannelFree(w) ==
  /\ At(w, "free")
  /\ chan' \in {chan, [chan EXCEPT ![w] = Freed(@)]}
  /\ Unlock("session_mu") /\ Goto(w, "ending")
  /\ UNCHANGED <<running, res_vars, local, unsent, list_vars, attr_vars, calls>>

ThreadExit(w) ==
  /\ At(w, "ending") /\ Goto(w, "exited")
  /\ UNCHANGED <<running, res_vars, conn_vars, list_vars, attr_vars, lock, calls>>

PumpNext(w) ==
  \/ CopyDialArgs(w) \/ DialLocalService(w) \/ RecordRefused(w) \/ PumpStopped(w)
  \/ RecvLocal(w) \/ WriteLoop(w) \/ ChannelWrite(w) \/ ChannelRead(w) \/ SendAborted(w)
  \/ SendEof(w) \/ ChannelFree(w) \/ ThreadExit(w)
-----------------------------------------------------------------------------
(* Close(), called by the manager and again by the destructor. *)

CallClose ==
  /\ At(Owner, "up") /\ Throw(2)
  /\ UNCHANGED <<running, res_vars, conn_vars, list_vars, attr_vars, lock>>

CloseStop ==
  /\ At(Owner, "stop") /\ Goto(Owner, "join_accept")
  /\ running' = FALSE
  /\ UNCHANGED <<res_vars, conn_vars, list_vars, attr_vars, lock, calls>>

CloseJoinAcceptor ==
  /\ At(Owner, "join_accept")
  /\ pc[Acceptor] \in {"none", "exited"}
  /\ Goto(Owner, "lock_swap")
  /\ UNCHANGED <<running, res_vars, conn_vars, list_vars, attr_vars, lock, calls>>

CloseSwapWorkers ==
  /\ At(Owner, "swap")
  /\ pending' = workers /\ workers' = {}
  /\ Unlock("workers_mu") /\ Goto(Owner, "join_workers")
  /\ UNCHANGED <<running, res_vars, conn_vars, finished, cur, attr_vars, calls>>

(* Mutant: does not wait for the workers. *)
CloseWithoutJoin ==
  /\ At(Owner, "join_workers")
  /\ pending' = {}
  /\ Goto(Owner, "lock_cancel")
  /\ UNCHANGED <<running, res_vars, conn_vars, workers, finished, cur, attr_vars, lock, calls>>

CloseJoinWorkers ==
  /\ At(Owner, "join_workers")
  /\ \A w \in pending : At(w, "exited")
  /\ pending' = {}
  /\ Goto(Owner, "lock_cancel")
  /\ UNCHANGED <<running, res_vars, conn_vars, workers, finished, cur, attr_vars, lock, calls>>

(* forward_cancel, which also drops the channels nobody accepted; it may   *)
(* still say EAGAIN at the 2s deadline, and then the session owns them.    *)
CloseCancelListener ==
  /\ At(Owner, "cancel") /\ Goto(Owner, "disconnect")
  /\ ptr' = ptr \ {"listener"}
  /\ \/ /\ "listener" \in ptr
        /\ obj' = [obj EXCEPT !["listener"] = Freed(@)]
        /\ chan' = [w \in Workers |-> IF chan[w] = "queued" THEN "freed" ELSE chan[w]]
     \/ UNCHANGED <<obj, chan>>
  /\ UNCHANGED <<running, blocking, transport, local, unsent, list_vars, attr_vars, lock, calls>>

(* Disconnect and free the session, with everything it still owns, then    *)
(* close the socket.                                                       *)
CloseFreeSession ==
  /\ At(Owner, "disconnect")
  /\ ptr' = {}
  /\ obj' = [r \in Resources |->
               IF r = "listener" THEN (IF "session" \in ptr /\ obj[r] = "live" THEN "freed" ELSE obj[r])
               ELSE IF r \in ptr THEN Freed(obj[r]) ELSE obj[r]]
  /\ chan' = [w \in Workers |->
                IF "session" \in ptr /\ chan[w] \in {"queued", "accepted"} THEN "freed" ELSE chan[w]]
  /\ blocking' = (blocking \/ "session" \in ptr)
  /\ Unlock("session_mu") /\ Goto(Owner, "lock_status")
  /\ UNCHANGED <<running, transport, local, unsent, list_vars, attr_vars, calls>>

CloseSetStatus ==
  /\ At(Owner, "status")
  /\ status' = "Closed"
  /\ calls' = calls - 1
  /\ Unlock("mu") /\ Goto(Owner, IF calls = 1 THEN "gone" ELSE "stop")
  /\ UNCHANGED <<running, res_vars, conn_vars, list_vars, error>>

CloseNext ==
  \/ CloseStop \/ CloseJoinAcceptor \/ CloseSwapWorkers \/ CloseJoinWorkers
  \/ CloseCancelListener \/ CloseFreeSession \/ CloseSetStatus
-----------------------------------------------------------------------------
(* The SSH server: opens channels, or goes away. *)

Inbound(w) ==
  /\ chan[w] = "none" /\ obj["listener"] = "live" /\ transport = "up"
  /\ chan' = [chan EXCEPT ![w] = "queued"]
  /\ UNCHANGED <<running, res_vars, local, unsent, list_vars, attr_vars, lock, calls, pc>>

TransportDrops ==
  /\ obj["socket"] = "live" /\ transport = "up"
  /\ transport' = "down"
  /\ UNCHANGED <<running, ptr, obj, blocking, conn_vars, list_vars, attr_vars, lock, calls, pc>>

Terminated == At(Owner, "gone") /\ UNCHANGED vars

Next ==
  \/ \E t \in Threads : Acquire(t)
  \/ StartNext \/ CallClose \/ CloseNext \/ AcceptNext
  \/ \E w \in Workers : PumpNext(w) \/ SendLocal(w) \/ Inbound(w)
  \/ TransportDrops \/ Terminated

Spec == Init /\ [][Next]_vars

(* Every thread keeps running, and each step of Start() succeeds or fails  *)
(* within its timeout.  Nothing is assumed of the server, of the peer, or  *)
(* of the local service: it may never drain its socket.  The accept loop   *)
(* gets session_mu_ if it is free again and again: a pump that found       *)
(* nothing to do sleeps 2ms without it, which is what that sleep is for.   *)
Fairness ==
  /\ \A t \in Threads : WF_vars(Acquire(t))
  /\ SF_vars(Acquire(Acceptor))
  /\ WF_vars(StartNext) /\ WF_vars(CloseNext) /\ WF_vars(AcceptNext)
  /\ \A w \in Workers : WF_vars(PumpNext(w))

FairSpec == Spec /\ Fairness
-----------------------------------------------------------------------------
(* Properties. *)

InsideSession == {"accept", "write", "read", "eof", "free", "cancel", "disconnect"}
StartCalls == {"handshake", "auth", "listen", "configure"}
InLibssh2(t) == pc[t] \in InsideSession \cup StartCalls

(* libssh2 sessions are not thread-safe: no two threads are ever inside it *)
(* at once, although Start() calls it without session_mu_.                 *)
SessionExclusive ==
  \A t, u \in Threads : InLibssh2(t) /\ InLibssh2(u) => t = u

(* No thread calls libssh2 on a session, a listener or a channel that was  *)
(* freed: Close() joins every thread before it frees anything.             *)
NoUseAfterFree ==
  /\ At(Acceptor, "accept") => "listener" \in ptr /\ obj["listener"] = "live"
  /\ \A t \in Threads \ {Owner} : InLibssh2(t) => obj["session"] = "live"
  /\ \A w \in Workers : InLibssh2(w) => chan[w] = "accepted"

(* The second Close(), from the destructor, frees nothing again.           *)
NoDoubleFree ==
  /\ \A r \in Resources : obj[r] # "misused"
  /\ \A w \in Workers : chan[w] # "misused"

Stopped(t) == pc[t] \in {"none", "exited"}

(* The TunnelHandle contract: when Close() is over, however Start() ended, *)
(* every thread is joined and no socket, session, listener or channel is   *)
(* left.                                                                   *)
CloseLeavesNothing ==
  At(Owner, "gone") =>
    /\ \A t \in Threads \ {Owner} : Stopped(t)
    /\ \A r \in Resources : obj[r] \in {"none", "freed"} /\ r \notin ptr
    /\ \A w \in Workers : chan[w] \in {"none", "freed"} /\ local[w] # "open"

(* The peer sees end-of-file only after every byte the service sent.       *)
EofAfterData ==
  \A w \in Workers : pc[w] \in {"lock_eof", "eof"} => w \notin unsent

(* A refusing backend or a full fd_set costs one connection, never the     *)
(* export: while the session is up, only Close() turns running_ off.       *)
StopsOnlyForCause ==
  [][running /\ ~running' => At(Owner, "stop") \/ transport = "down"]_vars

(* What a refused connection records, "the export is still listening", is  *)
(* true of every export that says so and was not closed.  It is not: the   *)
(* message of a worker that dialled during the drop overwrites the reason  *)
(* the accept loop gave.                                                   *)
StillListening == At(Owner, "up") /\ error = "backend" => running

(* Close() always returns, whatever the peers and the service do, and also *)
(* the one the destructor makes after Start() threw.                       *)
CloseReturns == At(Owner, "stop") ~> At(Owner, "gone")

(* A drop that libssh2 reports, however late and however rarely, ends the  *)
(* export: the pumps neither starve the accept loop of session_mu_ nor     *)
(* keep it from recording the error, and IsActive() turns false.           *)
ReportedDropStops ==
  SF_vars(ForwardAcceptDropped) => (transport = "down" /\ running ~> ~running)

(* The keepalive finds a dead session: every dropped session ends the      *)
(* export.  It does not: nothing looks at what the keepalive returns.      *)
DropIsNoticed == transport = "down" /\ running ~> ~running
=============================================================================
