-------------------------- MODULE SshExporterProofs --------------------------
(***************************************************************************)
(* Proofs, for any number of inbound connections, of the safety properties *)
(* of SshExporter.  The inductive invariant IInv says who owns the session *)
(* mutex, which threads may exist at each point of Start() and Close(),    *)
(* and what state the objects they share are in.  It is proved one actor   *)
(* at a time: the thread in Start(), the accept loop, a worker in Pump(),  *)
(* the thread in Close(), a lock, and the network.                         *)
(***************************************************************************)
EXTENDS SshExporter, TLAPS

(* The conjuncts of TypeOK. *)
PcType ==
  /\ pc \in [Threads -> OwnerPoints \cup AcceptPoints \cup WorkerPoints]
  /\ pc[Owner] \in OwnerPoints /\ pc[Acceptor] \in AcceptPoints
  /\ \A w \in Workers : pc[w] \in WorkerPoints

ObjType ==
  /\ ptr \subseteq Resources
  /\ obj \in [Resources -> {"none", "live", "freed", "misused"}]

ConnType ==
  /\ chan \in [Workers -> {"none", "queued", "accepted", "freed", "misused"}]
  /\ local \in [Workers -> {"none", "open", "closed"}]

ListType ==
  /\ unsent \subseteq Workers /\ workers \subseteq Workers
  /\ finished \subseteq Workers /\ pending \subseteq Workers

CurType == cur \in Workers \cup {NoThread}

EnumType ==
  /\ transport \in {"up", "down"}
  /\ status \in {"Configuring", "Exporting", "Closed"}
  /\ error \in {"none", "backend", "files", "dropped"}

FlagType == running \in BOOLEAN /\ blocking \in BOOLEAN

LockType == lock \in [Mutexes -> Threads \cup {NoThread}]

(* While Close() runs, the call in progress is counted. *)
CallsInv ==
  /\ calls \in 0 .. 2
  /\ pc[Owner] \in ClosePoints => calls # 0

JoinedAcceptor == {"lock_swap", "swap", "join_workers", "lock_cancel", "cancel", "disconnect",
                   "lock_status", "status", "gone"}
JoinedWorkers == {"lock_cancel", "cancel", "disconnect", "lock_status", "status", "gone"}
Released == {"lock_status", "status", "gone"}
Listening == {"configure", "lock_publish", "publish", "run", "spawn"}
HasCur == {"lock_reap", "reap", "join", "lock_push", "push"}

(* Whoever is inside libssh2 owns session_mu_, once there are threads. *)
LockInv ==
  \A t \in Threads : pc[t] \in InsideSession => lock["session_mu"] = t

(* Start() is alone; Close() past its joins is alone again. *)
StartAlone ==
  pc[Owner] \in StartPoints => \A t \in Threads \ {Owner} : pc[t] = "none"
AcceptorJoined == pc[Owner] \in JoinedAcceptor => Stopped(Acceptor)
WorkersJoined == pc[Owner] \in JoinedWorkers => \A w \in Workers : Stopped(w)

(* Every worker thread that may still run is where Close() will find it. *)
WorkersTracked ==
  \A w \in Workers : ~Stopped(w) => w \in workers \cup finished \cup pending \cup {cur}

ListsInUse ==
  /\ cur # NoThread <=> pc[Acceptor] \in HasCur
  /\ finished # {} => pc[Acceptor] = "join"
  /\ pending # {} => pc[Owner] = "join_workers"
  /\ pc[Owner] = "join_workers" => workers = {}

(* The members ssh_socket_, session_ and listener_, and what they refer to. *)
PtrInv ==
  /\ \A r \in Resources : obj[r] # "misused"
  /\ \A r \in {"socket", "session"} : r \in ptr <=> obj[r] = "live"
  /\ "listener" \in ptr => obj["listener"] = "live"
  /\ obj["listener"] = "live" => obj["session"] = "live"
  /\ obj["listener"] = "live" => "listener" \in ptr \/ pc[Owner] = "disconnect"

StartInv ==
  /\ pc[Owner] \in {"fits", "init"} => obj["socket"] = "live"
  /\ pc[Owner] \in {"handshake", "auth", "listen"} => obj["session"] = "live"
  /\ pc[Owner] \in Listening => "listener" \in ptr

ReleasedInv == pc[Owner] \in Released => \A r \in Resources : obj[r] # "live"

(* Running threads have what they use. *)
ThreadsHaveSession ==
  /\ ~Stopped(Acceptor) => "listener" \in ptr
  /\ \A w \in Workers : ~Stopped(w) => obj["session"] = "live"

ChanInv ==
  \A w \in Workers :
    /\ chan[w] # "misused"
    /\ ~Stopped(w) /\ pc[w] # "ending" => chan[w] = "accepted"
    /\ chan[w] \in {"none", "queued"} => pc[w] = "none"
    /\ chan[w] \in {"queued", "accepted"} => obj["session"] = "live"

CurInv ==
  pc[Acceptor] \in {"lock_reap", "reap", "join"} => chan[cur] = "accepted" /\ pc[cur] = "none"

LocalInv ==
  \A w \in Workers :
    /\ pc[w] \in {"none", "lock_dial", "dial_args", "dial"} => local[w] = "none"
    /\ pc[w] \in {"lock_free", "free", "ending", "exited"} => local[w] # "open"

(* Bytes are left over only by a write loop that saw running_ go false. *)
DataInv ==
  \A w \in unsent :
    /\ pc[w] \notin {"none", "lock_dial", "dial_args", "dial", "lock_eof", "eof"}
    /\ pc[w] \in {"lock_read", "read", "send", "pump"} => ~running

(* The accept loop gives up on a dead transport only. *)
DropInv == pc[Acceptor] \in {"lock_error", "error", "drop"} => transport = "down"

TypeParts ==
  /\ PcType /\ ObjType /\ ConnType /\ ListType /\ CurType /\ EnumType /\ FlagType /\ LockType

IInv ==
  /\ TypeParts /\ CallsInv /\ LockInv /\ StartAlone /\ AcceptorJoined /\ WorkersJoined
  /\ WorkersTracked /\ ListsInUse /\ PtrInv /\ StartInv /\ ReleasedInv /\ ThreadsHaveSession
  /\ ChanInv /\ CurInv /\ LocalInv /\ DataInv /\ DropInv

USE ThreadsAssumption
USE DEF At, Goto, Unlock, Threads, Stopped, res_vars, conn_vars, list_vars, attr_vars
-----------------------------------------------------------------------------
(* A step of Start() keeps the invariant. *)
LEMMA StartKeeps == ASSUME IInv, StartNext PROVE IInv'
<1> USE DEF IInv, TypeParts, StartNext, StartThrows, ProbeLocalService, DialSsh, FitsInFdSet, SessionInit,
  StartClosesSocket, Handshake, Authenticate, ForwardListen, StartCloses, ForwardListenNoPort,
  SetNonBlocking, Publish, SetRunning, SpawnAcceptor, StartStep, Throw, New, Freed
<1>1. PcType'
  BY DEF PcType, OwnerPoints, StartPoints, ClosePoints, AcceptPoints, WorkerPoints
<1>2. ObjType'
  <2>1. CASE DialSsh \/ SessionInit \/ ForwardListen \/ ForwardListenNoPort
    BY <2>1 DEF ObjType, Resources
  <2>2. CASE StartClosesSocket
    BY <2>2 DEF ObjType, Resources
  <2>3. CASE ~ (DialSsh \/ SessionInit \/ ForwardListen \/ ForwardListenNoPort \/ StartClosesSocket)
    <3>1. UNCHANGED <<ptr, obj>>  BY <2>3
    <3> QED  BY <3>1 DEF ObjType
  <2> QED  BY <2>1, <2>2, <2>3
<1>3. ConnType'
  BY DEF ConnType, PcType, OwnerPoints, StartPoints, ClosePoints, AcceptPoints, WorkerPoints
<1>4. ListType'  BY DEF ListType
<1>5. CurType'  BY DEF CurType
<1>6. EnumType'  BY DEF EnumType
<1>7. FlagType'  BY DEF FlagType
<1>8. LockType'  BY DEF LockType, PcType, Mutexes
<1>9. CallsInv'
  BY DEF CallsInv, PcType, OwnerPoints, StartPoints, ClosePoints, AcceptPoints, WorkerPoints
<1>10. LockInv'
  BY DEF LockInv, PcType, LockType, Mutexes, InsideSession, OwnerPoints, StartPoints,
    ClosePoints, AcceptPoints, WorkerPoints
<1>11. StartAlone'  BY DEF StartAlone, PcType, StartPoints, ClosePoints
<1>12. AcceptorJoined'
  BY DEF AcceptorJoined, PcType, StartAlone, JoinedAcceptor, StartPoints
<1>13. WorkersJoined'
  BY DEF WorkersJoined, PcType, StartAlone, WorkersTracked, ListsInUse, AcceptorJoined,
    JoinedWorkers, JoinedAcceptor, StartPoints, HasCur
<1>14. WorkersTracked'
  BY DEF WorkersTracked, PcType, ListsInUse, CurInv, CurType, HasCur
<1>15. ListsInUse'
  BY DEF ListsInUse, PcType, CurType, AcceptorJoined, StartAlone, HasCur, StartPoints,
    JoinedAcceptor
<1>16. PtrInv'
  BY DEF PtrInv, PcType, ObjType, StartInv, AcceptorJoined, Resources, Listening
<1>17. StartInv'
  BY DEF StartInv, PcType, ObjType, PtrInv, Resources, Listening, StartPoints
<1>18. ReleasedInv'  BY DEF ReleasedInv, PcType, ObjType, PtrInv, Resources, Released
<1>19. ThreadsHaveSession'
  BY DEF ThreadsHaveSession, PcType, ObjType, PtrInv, StartInv, StartAlone, AcceptorJoined,
    WorkersJoined, Resources, Listening, JoinedAcceptor, JoinedWorkers, StartPoints
<1>20. ChanInv'
  BY DEF ChanInv, PcType, ConnType, ObjType, PtrInv, CurInv, CurType, WorkersJoined,
    ThreadsHaveSession, Resources, JoinedWorkers
<1>21. CurInv'
  BY DEF CurInv, PcType, ConnType, CurType, ChanInv, ListsInUse, StartAlone, AcceptorJoined,
    JoinedAcceptor, HasCur, StartPoints
<1>22. LocalInv'  BY DEF LocalInv, PcType, ConnType, CurType
<1>23. DataInv'
  BY DEF DataInv, PcType, ListType, CurType, CurInv, StartAlone, StartPoints
<1>24. DropInv'
  BY DEF DropInv, PcType, FlagType, StartAlone, CurType, CurInv, OwnerPoints, StartPoints,
    ClosePoints, AcceptPoints, WorkerPoints
<1> HIDE DEF IInv, TypeParts
<1> QED  BY <1>1, <1>2, <1>3, <1>4, <1>5, <1>6, <1>7, <1>8, <1>9, <1>10, <1>11, <1>12, <1>13,
  <1>14, <1>15, <1>16, <1>17, <1>18, <1>19, <1>20, <1>21, <1>22, <1>23, <1>24 DEF IInv,
  TypeParts

(* A step of the accept loop keeps the invariant. *)
LEMMA AcceptKeeps == ASSUME IInv, AcceptNext PROVE IInv'
<1> USE DEF IInv, TypeParts, AcceptNext, AcceptTop, ForwardAcceptNone, ForwardAcceptDropped,
  NothingQueued, ForwardAccept, CollectFinished, JoinFinishedAndSpawn, PushWorker, RecordDropped, StopOnDrop, Done
<1>1. PcType'
  BY DEF PcType, CurType, ListsInUse, HasCur, OwnerPoints, StartPoints, ClosePoints,
    AcceptPoints, WorkerPoints
<1>2. ObjType'  BY DEF ObjType, Resources
<1>3. ConnType'
  BY DEF ConnType, PcType, OwnerPoints, StartPoints, ClosePoints, AcceptPoints, WorkerPoints
<1>4. ListType'
  <2>1. CASE CollectFinished  BY <2>1 DEF ListType
  <2> QED  BY <2>1 DEF ListType, CurType, ListsInUse, HasCur
<1>5. CurType'  BY DEF CurType
<1>6. EnumType'  BY DEF EnumType
<1>7. FlagType'  BY DEF FlagType
<1>8. LockType'  BY DEF LockType, PcType, Mutexes
<1>9. CallsInv'
  BY DEF CallsInv, PcType, OwnerPoints, StartPoints, ClosePoints, AcceptPoints, WorkerPoints
<1>10. LockInv'
  BY DEF LockInv, PcType, LockType, Mutexes, InsideSession, OwnerPoints, StartPoints,
    ClosePoints, AcceptPoints, WorkerPoints
<1>11. StartAlone'  BY DEF StartAlone, PcType, StartPoints, ClosePoints
<1>12. AcceptorJoined'
  BY DEF AcceptorJoined, PcType, StartAlone, JoinedAcceptor, StartPoints
<1>13. WorkersJoined'
  BY DEF WorkersJoined, PcType, StartAlone, WorkersTracked, ListsInUse, AcceptorJoined,
    JoinedWorkers, JoinedAcceptor, StartPoints, HasCur
<1>14. WorkersTracked'
  BY DEF WorkersTracked, PcType, ListsInUse, CurInv, CurType, HasCur
<1>15. ListsInUse'
  BY DEF ListsInUse, PcType, CurType, AcceptorJoined, StartAlone, HasCur, StartPoints,
    JoinedAcceptor
<1>16. PtrInv'  BY DEF PtrInv, PcType, CurType, ListsInUse, HasCur
<1>17. StartInv'
  BY DEF StartInv, PcType, ObjType, PtrInv, Resources, Listening, StartPoints
<1>18. ReleasedInv'  BY DEF ReleasedInv, PcType, ObjType, PtrInv, Resources, Released
<1>19. ThreadsHaveSession'
  BY DEF ThreadsHaveSession, PcType, ObjType, PtrInv, StartInv, StartAlone, AcceptorJoined,
    WorkersJoined, Resources, Listening, JoinedAcceptor, JoinedWorkers, StartPoints
<1>20. ChanInv'
  BY DEF ChanInv, PcType, ConnType, ObjType, PtrInv, CurInv, CurType, WorkersJoined,
    ThreadsHaveSession, Resources, JoinedWorkers
<1>21. CurInv'
  BY DEF CurInv, PcType, ConnType, CurType, ChanInv, ListsInUse, StartAlone, AcceptorJoined,
    JoinedAcceptor, HasCur, StartPoints
<1>22. LocalInv'  BY DEF LocalInv, PcType, CurType, CurInv, ListsInUse, HasCur
<1>23. DataInv'
  BY DEF DataInv, PcType, ListType, CurType, CurInv, StartAlone, StartPoints
<1>24. DropInv'
  BY DEF DropInv, PcType, FlagType, StartAlone, CurType, CurInv, OwnerPoints, StartPoints,
    ClosePoints, AcceptPoints, WorkerPoints
<1> HIDE DEF IInv, TypeParts
<1> QED  BY <1>1, <1>2, <1>3, <1>4, <1>5, <1>6, <1>7, <1>8, <1>9, <1>10, <1>11, <1>12, <1>13,
  <1>14, <1>15, <1>16, <1>17, <1>18, <1>19, <1>20, <1>21, <1>22, <1>23, <1>24 DEF IInv,
  TypeParts

(* A step of a worker in Pump() keeps the invariant. *)
LEMMA PumpKeeps == ASSUME IInv, NEW w \in Workers, PumpNext(w) \/ SendLocal(w) PROVE IInv'
<1> USE DEF IInv, TypeParts, PumpNext, CopyDialArgs, DialLocalService, RecordRefused,
  PumpStopped, RecvLocal, WriteLoop, ChannelWrite, ChannelRead, SendLocal, SendAborted, SendEof,
  ChannelFree, ThreadExit, Leave, CloseLocal, Freed
<1>1. PcType'
  BY DEF PcType, OwnerPoints, StartPoints, ClosePoints, AcceptPoints, WorkerPoints
<1>2. ObjType'  BY DEF ObjType, Resources
<1>3. ConnType'
  BY DEF ConnType, PcType, OwnerPoints, StartPoints, ClosePoints, AcceptPoints, WorkerPoints
<1>4. ListType'  BY DEF ListType
<1>5. CurType'  BY DEF CurType
<1>6. EnumType'  BY DEF EnumType
<1>7. FlagType'  BY DEF FlagType
<1>8. LockType'  BY DEF LockType, PcType, Mutexes
<1>9. CallsInv'
  BY DEF CallsInv, PcType, OwnerPoints, StartPoints, ClosePoints, AcceptPoints, WorkerPoints
<1>10. LockInv'
  BY DEF LockInv, PcType, LockType, Mutexes, InsideSession, OwnerPoints, StartPoints,
    ClosePoints, AcceptPoints, WorkerPoints
<1>11. StartAlone'  BY DEF StartAlone, PcType, StartPoints, ClosePoints
<1>12. AcceptorJoined'
  BY DEF AcceptorJoined, PcType, StartAlone, JoinedAcceptor, StartPoints
<1>13. WorkersJoined'
  BY DEF WorkersJoined, PcType, StartAlone, WorkersTracked, ListsInUse, AcceptorJoined,
    JoinedWorkers, JoinedAcceptor, StartPoints, HasCur
<1>14. WorkersTracked'
  BY DEF WorkersTracked, PcType, ListsInUse, CurInv, CurType, HasCur
<1>15. ListsInUse'
  BY DEF ListsInUse, PcType, CurType, AcceptorJoined, StartAlone, HasCur, StartPoints,
    JoinedAcceptor
<1>16. PtrInv'
  BY DEF PtrInv, PcType, ObjType, StartInv, AcceptorJoined, Resources, Listening
<1>17. StartInv'
  BY DEF StartInv, PcType, ObjType, PtrInv, Resources, Listening, StartPoints
<1>18. ReleasedInv'  BY DEF ReleasedInv, PcType, ObjType, PtrInv, Resources, Released
<1>19. ThreadsHaveSession'
  BY DEF ThreadsHaveSession, PcType, ObjType, PtrInv, StartInv, StartAlone, AcceptorJoined,
    WorkersJoined, Resources, Listening, JoinedAcceptor, JoinedWorkers, StartPoints
<1>20. ChanInv'
  BY DEF ChanInv, PcType, ConnType, ObjType, PtrInv, CurInv, CurType, WorkersJoined,
    ThreadsHaveSession, Resources, JoinedWorkers
<1>21. CurInv'
  BY DEF CurInv, PcType, ConnType, CurType, ChanInv, ListsInUse, StartAlone, AcceptorJoined,
    JoinedAcceptor, HasCur, StartPoints
<1>22. LocalInv'  BY DEF LocalInv, PcType, ConnType, CurType
<1>23. DataInv'
  BY DEF DataInv, PcType, ListType, CurType, CurInv, StartAlone, StartPoints
<1>24. DropInv'
  BY DEF DropInv, PcType, FlagType, StartAlone, CurType, CurInv, OwnerPoints, StartPoints,
    ClosePoints, AcceptPoints, WorkerPoints
<1> HIDE DEF IInv, TypeParts
<1> QED  BY <1>1, <1>2, <1>3, <1>4, <1>5, <1>6, <1>7, <1>8, <1>9, <1>10, <1>11, <1>12, <1>13,
  <1>14, <1>15, <1>16, <1>17, <1>18, <1>19, <1>20, <1>21, <1>22, <1>23, <1>24 DEF IInv,
  TypeParts

(* A step of Close() keeps the invariant. *)
LEMMA CloseKeeps == ASSUME IInv, CallClose \/ CloseNext PROVE IInv'
<1> USE DEF IInv, TypeParts, CallClose, Throw, CloseNext, CloseStop, CloseJoinAcceptor,
  CloseSwapWorkers, CloseJoinWorkers, CloseCancelListener, CloseFreeSession, CloseSetStatus, Freed
<1>1. PcType'
  BY DEF PcType, OwnerPoints, StartPoints, ClosePoints, AcceptPoints, WorkerPoints
<1>2. ObjType'
  <2>1. ptr' \subseteq Resources  BY DEF ObjType
  <2>2. CASE CloseFreeSession  BY <2>2 DEF ObjType
  <2>3. CASE CloseCancelListener  BY <2>3 DEF ObjType, Resources
  <2> QED  BY <2>1, <2>2, <2>3 DEF ObjType
<1>3. ConnType'
  BY DEF ConnType, PcType, OwnerPoints, StartPoints, ClosePoints, AcceptPoints, WorkerPoints
<1>4. ListType'  BY DEF ListType
<1>5. CurType'  BY DEF CurType
<1>6. EnumType'  BY DEF EnumType
<1>7. FlagType'  BY DEF FlagType
<1>8. LockType'  BY DEF LockType, PcType, Mutexes
<1>9. CallsInv'
  BY DEF CallsInv, PcType, OwnerPoints, StartPoints, ClosePoints, AcceptPoints, WorkerPoints
<1>10. LockInv'
  BY DEF LockInv, PcType, LockType, Mutexes, InsideSession, OwnerPoints, StartPoints,
    ClosePoints, AcceptPoints, WorkerPoints
<1>11. StartAlone'  BY DEF StartAlone, PcType, StartPoints, ClosePoints
<1>12. AcceptorJoined'
  BY DEF AcceptorJoined, PcType, StartAlone, JoinedAcceptor, StartPoints
<1>13. WorkersJoined'
  BY DEF WorkersJoined, PcType, StartAlone, WorkersTracked, ListsInUse, AcceptorJoined,
    JoinedWorkers, JoinedAcceptor, StartPoints, HasCur
<1>14. WorkersTracked'
  BY DEF WorkersTracked, PcType, ListsInUse, CurInv, CurType, HasCur
<1>15. ListsInUse'
  BY DEF ListsInUse, PcType, CurType, AcceptorJoined, StartAlone, HasCur, StartPoints,
    JoinedAcceptor
<1>16. PtrInv'
  BY DEF PtrInv, PcType, ObjType, StartInv, AcceptorJoined, Resources, Listening
<1>17. StartInv'
  BY DEF StartInv, PcType, ObjType, PtrInv, Resources, Listening, StartPoints
<1>18. ReleasedInv'  BY DEF ReleasedInv, PcType, ObjType, PtrInv, Resources, Released
<1>19. ThreadsHaveSession'
  BY DEF ThreadsHaveSession, PcType, ObjType, PtrInv, StartInv, StartAlone, AcceptorJoined,
    WorkersJoined, Resources, Listening, JoinedAcceptor, JoinedWorkers, StartPoints
<1>20. ChanInv'
  BY DEF ChanInv, PcType, ConnType, ObjType, PtrInv, CurInv, CurType, WorkersJoined,
    ThreadsHaveSession, Resources, JoinedWorkers
<1>21. CurInv'
  BY DEF CurInv, PcType, ConnType, CurType, ChanInv, ListsInUse, StartAlone, AcceptorJoined,
    JoinedAcceptor, HasCur, StartPoints
<1>22. LocalInv'  BY DEF LocalInv, PcType, ConnType, CurType
<1>23. DataInv'
  BY DEF DataInv, PcType, ListType, CurType, CurInv, StartAlone, StartPoints
<1>24. DropInv'
  BY DEF DropInv, PcType, FlagType, StartAlone, CurType, CurInv, OwnerPoints, StartPoints,
    ClosePoints, AcceptPoints, WorkerPoints
<1> HIDE DEF IInv, TypeParts
<1> QED  BY <1>1, <1>2, <1>3, <1>4, <1>5, <1>6, <1>7, <1>8, <1>9, <1>10, <1>11, <1>12, <1>13,
  <1>14, <1>15, <1>16, <1>17, <1>18, <1>19, <1>20, <1>21, <1>22, <1>23, <1>24 DEF IInv,
  TypeParts

(* Taking a mutex keeps the invariant. *)
LEMMA AcquireKeeps == ASSUME IInv, NEW t \in Threads, Acquire(t) PROVE IInv'
<1> USE DEF IInv, TypeParts, Acquire, Sections
<1>1. PcType'
  BY DEF PcType, OwnerPoints, StartPoints, ClosePoints, AcceptPoints, WorkerPoints
<1>2. ObjType'  BY DEF ObjType, Resources
<1>3. ConnType'
  BY DEF ConnType, PcType, OwnerPoints, StartPoints, ClosePoints, AcceptPoints, WorkerPoints
<1>4. ListType'  BY DEF ListType
<1>5. CurType'  BY DEF CurType
<1>6. EnumType'  BY DEF EnumType
<1>7. FlagType'  BY DEF FlagType
<1>8. LockType'  BY DEF LockType, PcType, Mutexes
<1>9. CallsInv'
  BY DEF CallsInv, PcType, OwnerPoints, StartPoints, ClosePoints, AcceptPoints, WorkerPoints
<1>10. LockInv'
  BY DEF LockInv, PcType, LockType, Mutexes, InsideSession, OwnerPoints, StartPoints,
    ClosePoints, AcceptPoints, WorkerPoints
<1>11. StartAlone'  BY DEF StartAlone, PcType, StartPoints, ClosePoints
<1>12. AcceptorJoined'
  BY DEF AcceptorJoined, PcType, StartAlone, JoinedAcceptor, StartPoints
<1>13. WorkersJoined'
  BY DEF WorkersJoined, PcType, StartAlone, WorkersTracked, ListsInUse, AcceptorJoined,
    JoinedWorkers, JoinedAcceptor, StartPoints, HasCur
<1>14. WorkersTracked'
  BY DEF WorkersTracked, PcType, ListsInUse, CurInv, CurType, HasCur
<1>15. ListsInUse'
  BY DEF ListsInUse, PcType, CurType, AcceptorJoined, StartAlone, HasCur, StartPoints,
    JoinedAcceptor
<1>16. PtrInv'
  BY DEF PtrInv, PcType, ObjType, StartInv, AcceptorJoined, Resources, Listening
<1>17. StartInv'
  BY DEF StartInv, PcType, ObjType, PtrInv, Resources, Listening, StartPoints
<1>18. ReleasedInv'  BY DEF ReleasedInv, PcType, ObjType, PtrInv, Resources, Released
<1>19. ThreadsHaveSession'
  BY DEF ThreadsHaveSession, PcType, ObjType, PtrInv, StartInv, StartAlone, AcceptorJoined,
    WorkersJoined, Resources, Listening, JoinedAcceptor, JoinedWorkers, StartPoints
<1>20. ChanInv'
  BY DEF ChanInv, PcType, ConnType, ObjType, PtrInv, CurInv, CurType, WorkersJoined,
    ThreadsHaveSession, Resources, JoinedWorkers
<1>21. CurInv'
  BY DEF CurInv, PcType, ConnType, CurType, ChanInv, ListsInUse, StartAlone, AcceptorJoined,
    JoinedAcceptor, HasCur, StartPoints
<1>22. LocalInv'  BY DEF LocalInv, PcType, ConnType, CurType
<1>23. DataInv'
  BY DEF DataInv, PcType, ListType, CurType, CurInv, StartAlone, StartPoints
<1>24. DropInv'
  BY DEF DropInv, PcType, FlagType, StartAlone, CurType, CurInv, OwnerPoints, StartPoints,
    ClosePoints, AcceptPoints, WorkerPoints
<1> HIDE DEF IInv, TypeParts
<1> QED  BY <1>1, <1>2, <1>3, <1>4, <1>5, <1>6, <1>7, <1>8, <1>9, <1>10, <1>11, <1>12, <1>13,
  <1>14, <1>15, <1>16, <1>17, <1>18, <1>19, <1>20, <1>21, <1>22, <1>23, <1>24 DEF IInv,
  TypeParts

(* What the SSH server does, and a stutter, keeps the invariant. *)
LEMMA EnvKeeps == ASSUME IInv, (\E w \in Workers : Inbound(w)) \/ TransportDrops \/ UNCHANGED vars PROVE IInv'
<1> USE DEF IInv, TypeParts, Inbound, TransportDrops, vars
<1>1. PcType'
  BY DEF PcType, OwnerPoints, StartPoints, ClosePoints, AcceptPoints, WorkerPoints
<1>2. ObjType'  BY DEF ObjType, Resources
<1>3. ConnType'
  BY DEF ConnType, PcType, OwnerPoints, StartPoints, ClosePoints, AcceptPoints, WorkerPoints
<1>4. ListType'  BY DEF ListType
<1>5. CurType'  BY DEF CurType
<1>6. EnumType'  BY DEF EnumType
<1>7. FlagType'  BY DEF FlagType
<1>8. LockType'  BY DEF LockType, PcType, Mutexes
<1>9. CallsInv'
  BY DEF CallsInv, PcType, OwnerPoints, StartPoints, ClosePoints, AcceptPoints, WorkerPoints
<1>10. LockInv'
  BY DEF LockInv, PcType, LockType, Mutexes, InsideSession, OwnerPoints, StartPoints,
    ClosePoints, AcceptPoints, WorkerPoints
<1>11. StartAlone'  BY DEF StartAlone, PcType, StartPoints, ClosePoints
<1>12. AcceptorJoined'
  BY DEF AcceptorJoined, PcType, StartAlone, JoinedAcceptor, StartPoints
<1>13. WorkersJoined'
  BY DEF WorkersJoined, PcType, StartAlone, WorkersTracked, ListsInUse, AcceptorJoined,
    JoinedWorkers, JoinedAcceptor, StartPoints, HasCur
<1>14. WorkersTracked'
  BY DEF WorkersTracked, PcType, ListsInUse, CurInv, CurType, HasCur
<1>15. ListsInUse'
  BY DEF ListsInUse, PcType, CurType, AcceptorJoined, StartAlone, HasCur, StartPoints,
    JoinedAcceptor
<1>16. PtrInv'
  BY DEF PtrInv, PcType, ObjType, StartInv, AcceptorJoined, Resources, Listening
<1>17. StartInv'
  BY DEF StartInv, PcType, ObjType, PtrInv, Resources, Listening, StartPoints
<1>18. ReleasedInv'  BY DEF ReleasedInv, PcType, ObjType, PtrInv, Resources, Released
<1>19. ThreadsHaveSession'
  BY DEF ThreadsHaveSession, PcType, ObjType, PtrInv, StartInv, StartAlone, AcceptorJoined,
    WorkersJoined, Resources, Listening, JoinedAcceptor, JoinedWorkers, StartPoints
<1>20. ChanInv'
  BY DEF ChanInv, PcType, ConnType, ObjType, PtrInv, CurInv, CurType, WorkersJoined,
    ThreadsHaveSession, Resources, JoinedWorkers
<1>21. CurInv'
  BY DEF CurInv, PcType, ConnType, CurType, ChanInv, ListsInUse, StartAlone, AcceptorJoined,
    JoinedAcceptor, HasCur, StartPoints
<1>22. LocalInv'  BY DEF LocalInv, PcType, ConnType, CurType
<1>23. DataInv'
  BY DEF DataInv, PcType, ListType, CurType, CurInv, StartAlone, StartPoints
<1>24. DropInv'
  BY DEF DropInv, PcType, FlagType, StartAlone, CurType, CurInv, OwnerPoints, StartPoints,
    ClosePoints, AcceptPoints, WorkerPoints
<1> HIDE DEF IInv, TypeParts
<1> QED  BY <1>1, <1>2, <1>3, <1>4, <1>5, <1>6, <1>7, <1>8, <1>9, <1>10, <1>11, <1>12, <1>13,
  <1>14, <1>15, <1>16, <1>17, <1>18, <1>19, <1>20, <1>21, <1>22, <1>23, <1>24 DEF IInv,
  TypeParts

-----------------------------------------------------------------------------
(* Init establishes the invariant. *)
LEMMA InitIInv == Init => IInv
<1> SUFFICES ASSUME Init PROVE IInv  OBVIOUS
<1> USE DEF Init
<1>1. PcType  BY DEF PcType, OwnerPoints, StartPoints, AcceptPoints, WorkerPoints
<1>2. ObjType /\ ConnType  BY DEF ObjType, ConnType
<1>3. ListType /\ CurType /\ EnumType /\ FlagType  BY DEF ListType, CurType, EnumType, FlagType
<1>4. LockType  BY DEF LockType
<1>5. CallsInv
  <2>1. pc[Owner] \notin ClosePoints  BY DEF ClosePoints
  <2> QED  BY <2>1 DEF CallsInv
<1>11. LockInv  BY DEF LockInv, InsideSession
<1>6. StartAlone /\ AcceptorJoined /\ WorkersJoined
  BY DEF StartAlone, AcceptorJoined, WorkersJoined, JoinedAcceptor, JoinedWorkers
<1>7. WorkersTracked /\ ListsInUse  BY DEF WorkersTracked, ListsInUse, HasCur
<1>8. PtrInv /\ StartInv /\ ReleasedInv
  BY DEF PtrInv, StartInv, ReleasedInv, Resources, Released, Listening
<1>9. ThreadsHaveSession /\ ChanInv  BY DEF ThreadsHaveSession, ChanInv
<1>10. CurInv /\ LocalInv /\ DataInv /\ DropInv  BY DEF CurInv, LocalInv, DataInv, DropInv
<1> QED
  BY <1>1, <1>2, <1>3, <1>4, <1>5, <1>6, <1>7, <1>8, <1>9, <1>10, <1>11
  DEF IInv, TypeParts

(* Every step keeps the invariant. *)
LEMMA NextIInv == IInv /\ [Next]_vars => IInv'
<1> SUFFICES ASSUME IInv, [Next]_vars PROVE IInv'  OBVIOUS
<1>1. CASE \E t \in Threads : Acquire(t)  BY <1>1, AcquireKeeps
<1>2. CASE StartNext  BY <1>2, StartKeeps
<1>3. CASE CallClose \/ CloseNext  BY <1>3, CloseKeeps
<1>4. CASE AcceptNext  BY <1>4, AcceptKeeps
<1>5. CASE \E w \in Workers : PumpNext(w) \/ SendLocal(w)  BY <1>5, PumpKeeps
<1>6. CASE (\E w \in Workers : Inbound(w)) \/ TransportDrops \/ UNCHANGED vars
  BY <1>6, EnvKeeps
<1> QED  BY <1>1, <1>2, <1>3, <1>4, <1>5, <1>6 DEF Next, Terminated

(* The inductive invariant holds in every reachable state. *)
THEOREM Invariance == Spec => []IInv
  BY InitIInv, NextIInv, PTL DEF Spec

(* The model is type-correct: in particular Close() is never called more   *)
(* often than the owner does, and the accept loop never starts a worker    *)
(* without a channel.                                                      *)
THEOREM TypeCorrect == Spec => []TypeOK
<1>1. IInv => TypeOK
  BY DEF IInv, TypeParts, TypeOK, PcType, ObjType, ConnType, ListType, CurType, EnumType,
    FlagType, LockType, CallsInv
<1> QED  BY <1>1, Invariance, PTL

(* session_mu_ does its job: no two threads are ever inside libssh2.       *)
THEOREM OneThreadInLibssh2 == Spec => []SessionExclusive
<1>1. IInv => SessionExclusive
  <2> SUFFICES ASSUME IInv, NEW t \in Threads, NEW u \in Threads, InLibssh2(t), InLibssh2(u)
               PROVE  t = u
    BY DEF SessionExclusive
  <2> USE DEF IInv, TypeParts, InLibssh2, InsideSession, StartCalls
  <2>1. CASE pc[Owner] \in StartCalls
    BY <2>1 DEF StartAlone, StartPoints
  <2>2. CASE pc[Owner] \notin StartCalls
    <3>1. \A x \in Threads \ {Owner} : pc[x] \notin StartCalls
      BY DEF PcType, AcceptPoints, WorkerPoints
    <3>2. pc[t] \in InsideSession /\ pc[u] \in InsideSession  BY <2>2, <3>1
    <3> QED  BY <3>2 DEF LockInv, PcType, LockType, Mutexes
  <2> QED  BY <2>1, <2>2
<1> QED  BY <1>1, Invariance, PTL

(* Nothing that was freed is used: Close() frees only when all threads are *)
(* joined, and joins every thread there is.                                *)
THEOREM FreedIsNotUsed == Spec => []NoUseAfterFree
<1>1. IInv => NoUseAfterFree
  <2> SUFFICES ASSUME IInv PROVE NoUseAfterFree  OBVIOUS
  <2> USE DEF IInv, TypeParts, InLibssh2, InsideSession, StartCalls
  <2>1. At(Acceptor, "accept") => "listener" \in ptr /\ obj["listener"] = "live"
    BY DEF ThreadsHaveSession, PtrInv
  <2>2. ASSUME NEW t \in Threads \ {Owner}, InLibssh2(t) PROVE obj["session"] = "live"
    BY <2>2 DEF ThreadsHaveSession, PtrInv
  <2>3. ASSUME NEW w \in Workers, InLibssh2(w) PROVE chan[w] = "accepted"
    BY <2>3 DEF ChanInv
  <2> QED  BY <2>1, <2>2, <2>3 DEF NoUseAfterFree
<1> QED  BY <1>1, Invariance, PTL

(* However often Close() runs, and wherever Start() gave up, nothing is    *)
(* freed twice.                                                            *)
THEOREM FreedOnce == Spec => []NoDoubleFree
<1>1. IInv => NoDoubleFree
  BY DEF IInv, PtrInv, ChanInv, NoDoubleFree
<1> QED  BY <1>1, Invariance, PTL

(* The TunnelHandle contract of Close(). *)
THEOREM CloseIsComplete == Spec => []CloseLeavesNothing
<1>1. IInv => CloseLeavesNothing
  <2> SUFFICES ASSUME IInv, At(Owner, "gone")
               PROVE  /\ \A t \in Threads \ {Owner} : Stopped(t)
                      /\ \A r \in Resources : obj[r] \in {"none", "freed"} /\ r \notin ptr
                      /\ \A w \in Workers : chan[w] \in {"none", "freed"} /\ local[w] # "open"
    BY DEF CloseLeavesNothing
  <2> USE DEF IInv, TypeParts
  <2>1. \A t \in Threads \ {Owner} : Stopped(t)
    BY DEF AcceptorJoined, WorkersJoined, JoinedAcceptor, JoinedWorkers
  <2>2. \A r \in Resources : obj[r] # "live"
    BY DEF ReleasedInv, Released
  <2>3. \A r \in Resources : obj[r] \in {"none", "freed"} /\ r \notin ptr
    BY <2>2 DEF ObjType, PtrInv, Resources
  <2>4. \A w \in Workers : chan[w] \in {"none", "freed"}
    BY <2>2 DEF ConnType, ChanInv, Resources
  <2>5. \A w \in Workers : local[w] # "open"
    BY <2>1 DEF LocalInv
  <2> QED  BY <2>1, <2>3, <2>4, <2>5
<1> QED  BY <1>1, Invariance, PTL

(* End-of-file never overtakes data. *)
THEOREM EofIsLast == Spec => []EofAfterData
<1>1. IInv => EofAfterData
  BY DEF IInv, DataInv, EofAfterData
<1> QED  BY <1>1, Invariance, PTL

(* One connection's failure never ends the export. *)
THEOREM OnlyCauseStops == Spec => StopsOnlyForCause
<1>1. IInv /\ [Next]_vars => [running /\ ~running' => At(Owner, "stop") \/ transport = "down"]_vars
  <2> SUFFICES ASSUME IInv, Next, running, ~running'
               PROVE  At(Owner, "stop") \/ transport = "down"
    OBVIOUS
  <2>1. CASE \E t \in Threads : Acquire(t)  BY <2>1 DEF Acquire
  <2>2. CASE StartNext
    BY <2>2 DEF StartNext, StartThrows, ProbeLocalService, DialSsh, FitsInFdSet, SessionInit,
      StartClosesSocket, Handshake, Authenticate, ForwardListen, StartCloses,
      ForwardListenNoPort, SetNonBlocking, Publish, SetRunning, SpawnAcceptor, StartStep
  <2>3. CASE CallClose \/ CloseNext
    BY <2>3 DEF CallClose, CloseNext, CloseStop, CloseJoinAcceptor, CloseSwapWorkers,
      CloseJoinWorkers, CloseCancelListener, CloseFreeSession, CloseSetStatus
  <2>4. CASE AcceptNext
    BY <2>4 DEF AcceptNext, AcceptTop, ForwardAcceptNone, ForwardAcceptDropped, NothingQueued,
      ForwardAccept, CollectFinished, JoinFinishedAndSpawn, PushWorker, RecordDropped, StopOnDrop, IInv, DropInv
  <2>5. CASE \E w \in Workers : PumpNext(w) \/ SendLocal(w)
    BY <2>5 DEF PumpNext, CopyDialArgs, DialLocalService, RecordRefused, PumpStopped, RecvLocal,
      WriteLoop, ChannelWrite, ChannelRead, SendLocal, SendAborted, SendEof, ChannelFree,
      ThreadExit
  <2>6. CASE (\E w \in Workers : Inbound(w)) \/ TransportDrops \/ Terminated
    BY <2>6 DEF Inbound, TransportDrops, Terminated, vars
  <2> QED  BY <2>1, <2>2, <2>3, <2>4, <2>5, <2>6 DEF Next
<1> QED  BY <1>1, Invariance, PTL DEF Spec, StopsOnlyForCause
=============================================================================
