----------------------- MODULE TunnelConnectionProofs -----------------------
(***************************************************************************)
(* Proofs, for any number of clients of the local port, of the safety      *)
(* properties of TunnelConnection: what is joined before what is freed,    *)
(* and that nothing is left over when Close() is done.                     *)
(***************************************************************************)
EXTENDS TunnelConnection, TLAPS

(* The conjuncts of TypeOK. *)
PcType ==
  /\ pc \in [Threads -> OwnerPoints \cup WorkerPoints \cup ForwardPoints]
  /\ pc[Owner] \in OwnerPoints /\ pc[Worker] \in WorkerPoints
  /\ \A c \in Clients : pc[c] \in ForwardPoints

ObjType ==
  /\ ptr \subseteq Resources
  /\ obj \in [Resources -> {"none", "live", "freed", "misused"}]

ConnType ==
  /\ conn \in [Clients -> {"none", "queued", "open", "closed"}]
  /\ chan \in [Clients -> {"none", "open", "freed", "misused"}]

CurType == forward_threads \subseteq Clients /\ cur \in Clients \cup {NoClient}

EnumType ==
  /\ transport \in {"up", "down"}
  /\ port \in {"nobody", "us", "stranger"}
  /\ status \in {"none", "Connected", "Authenticated", "Starting", "Listening", "Error",
                 "Stopped", "Closed"}

FlagType ==
  /\ is_running \in BOOLEAN /\ is_connected \in BOOLEAN
  /\ shut \in BOOLEAN /\ created \in BOOLEAN

(* While Close() runs, the call in progress is counted. *)
CallsInv ==
  /\ calls \in 0 .. 2
  /\ pc[Owner] \in ClosePoints => calls # 0

JoinedWorker == {"join_forward", "release", "gone"}
JoinedForward == {"release", "gone"}
Serving == {"loop", "accepted", "open", "leave"}
HasCur == {"accepted", "open"}

(* Connect() is alone; Close() past its joins is alone again. *)
StartAlone ==
  pc[Owner] \in ConnectPoints => \A t \in Clients \cup {Worker} : pc[t] = "none"
WorkerJoined == pc[Owner] \in JoinedWorker => Stopped(Worker)
ForwardJoined == pc[Owner] \in JoinedForward => \A c \in Clients : Stopped(c)

(* Close() will find every forwarding thread that may still run. *)
ForwardTracked == \A c \in Clients : ~Stopped(c) => c \in forward_threads

PortInv ==
  /\ port = "us" => pc[Worker] \in Serving
  /\ \A c \in Clients : conn[c] = "queued" => port = "us"

CurInv ==
  /\ cur # NoClient <=> pc[Worker] \in HasCur
  /\ cur # NoClient => conn[cur] = "open" /\ pc[cur] = "none" /\ chan[cur] = "none"

ConnInv ==
  \A c \in Clients :
    /\ conn[c] \in {"none", "queued"} => pc[c] = "none" /\ chan[c] = "none"
    /\ conn[c] = "open" => cur = c \/ (~Stopped(c) /\ pc[c] # "free")
    /\ pc[c] \notin {"none", "free", "exited"} => conn[c] = "open"

ChanInv ==
  \A c \in Clients : chan[c] # "misused" /\ (chan[c] = "open" <=> ~Stopped(c))

(* The members ssh_socket_ and session_, and what they refer to. *)
PtrInv ==
  /\ "session" \in ptr <=> obj["session"] = "live"
  /\ "socket" \notin ptr => obj["socket"] # "live"
  /\ pc[Owner] \in {"handshake", "auth", "start"} => obj["session"] = "live"
  /\ pc[Owner] = "gone" => ptr = {}

ThreadsHaveSession ==
  \A t \in Clients \cup {Worker} : ~Stopped(t) => obj["session"] = "live"

TypeParts == PcType /\ ObjType /\ ConnType /\ CurType /\ EnumType /\ FlagType

IInv ==
  /\ TypeParts /\ CallsInv /\ StartAlone /\ WorkerJoined /\ ForwardJoined /\ ForwardTracked
  /\ PortInv /\ CurInv /\ ConnInv /\ ChanInv /\ PtrInv /\ ThreadsHaveSession

USE ThreadsAssumption
USE DEF At, Goto, Threads, Stopped, res_vars, conn_vars
-----------------------------------------------------------------------------
(* A step of CreateTunnel() keeps the invariant. *)
LEMMA CreateKeeps ==
  ASSUME IInv, CreateNext
  PROVE  IInv'
<1> USE DEF IInv, TypeParts, CreateNext, ConnectSocket, ConnectFails, SessionInit, ConnectClosesSocket,
  Handshake, Authenticate, AuthenticateFails, StartWorker, ProbeConnects, ProbeReachesStranger,
  TestTimesOut, Throw, New, Freed
<1>1. PcType'
  BY DEF PcType, CurType, CurInv, HasCur, OwnerPoints, ConnectPoints, ClosePoints,
    WorkerPoints, ForwardPoints
<1>2. ObjType'  BY DEF ObjType, Resources
<1>3. ConnType'  BY DEF ConnType, CurType, CurInv, HasCur
<1>4. CurType'  BY DEF CurType, CurInv, HasCur
<1>5. EnumType'  BY DEF EnumType
<1>6. FlagType'  BY DEF FlagType
<1>7. CallsInv'
  BY DEF CallsInv, PcType, OwnerPoints, ConnectPoints, ClosePoints, WorkerPoints, ForwardPoints
<1>8. StartAlone'  BY DEF StartAlone, PcType, CurType, ConnectPoints, ClosePoints
<1>9. WorkerJoined'
  BY DEF WorkerJoined, PcType, StartAlone, CurType, JoinedWorker, ConnectPoints
<1>10. ForwardJoined'
  BY DEF ForwardJoined, PcType, StartAlone, ForwardTracked, WorkerJoined, CurType,
    JoinedForward, JoinedWorker, ConnectPoints
<1>11. ForwardTracked'  BY DEF ForwardTracked, PcType, CurType
<1>12. PortInv'
  BY DEF PortInv, PcType, ConnType, CurType, CurInv, StartAlone, Serving, HasCur, ConnectPoints
<1>13. CurInv'
  BY DEF CurInv, PcType, ConnType, CurType, ConnInv, StartAlone, HasCur, ConnectPoints
<1>14. ConnInv'  BY DEF ConnInv, PcType, ConnType, CurType, CurInv, HasCur
<1>15. ChanInv'  BY DEF ChanInv, PcType, ConnType, CurType, CurInv, HasCur
<1>16. PtrInv'  BY DEF PtrInv, PcType, ObjType, Resources
<1>17. ThreadsHaveSession'
  BY DEF ThreadsHaveSession, PcType, ObjType, PtrInv, StartAlone, WorkerJoined, ForwardJoined,
    CurType, CurInv, Resources, HasCur, ConnectPoints, JoinedWorker, JoinedForward
<1> HIDE DEF IInv, TypeParts
<1> QED  BY <1>1, <1>2, <1>3, <1>4, <1>5, <1>6, <1>7, <1>8, <1>9, <1>10, <1>11, <1>12, <1>13,
  <1>14, <1>15, <1>16, <1>17 DEF IInv, TypeParts

(* A step of the worker thread keeps the invariant. *)
LEMMA WorkerKeeps ==
  ASSUME IInv, WorkerNext \/ LoopFails \/ ChannelOpened \/ ChannelRefused
  PROVE  IInv'
<1> USE DEF IInv, TypeParts, WorkerNext, Listen, ListenFails, LeaveLoop, LoopFails,
  Accept, AcceptedTooLate, DirectTcpip, ChannelOpened, ChannelRefused, WorkerExit
<1>1. PcType'
  BY DEF PcType, CurType, CurInv, HasCur, OwnerPoints, ConnectPoints, ClosePoints,
    WorkerPoints, ForwardPoints
<1>2. ObjType'  BY DEF ObjType, Resources
<1>3. ConnType'  BY DEF ConnType, CurType, CurInv, HasCur
<1>4. CurType'  BY DEF CurType, CurInv, HasCur
<1>5. EnumType'  BY DEF EnumType
<1>6. FlagType'  BY DEF FlagType
<1>7. CallsInv'
  BY DEF CallsInv, PcType, OwnerPoints, ConnectPoints, ClosePoints, WorkerPoints, ForwardPoints
<1>8. StartAlone'  BY DEF StartAlone, PcType, CurType, ConnectPoints, ClosePoints
<1>9. WorkerJoined'
  BY DEF WorkerJoined, PcType, StartAlone, CurType, JoinedWorker, ConnectPoints
<1>10. ForwardJoined'
  BY DEF ForwardJoined, PcType, StartAlone, ForwardTracked, WorkerJoined, CurType,
    JoinedForward, JoinedWorker, ConnectPoints
<1>11. ForwardTracked'  BY DEF ForwardTracked, PcType, CurType
<1>12. PortInv'
  BY DEF PortInv, PcType, ConnType, CurType, CurInv, StartAlone, Serving, HasCur, ConnectPoints
<1>13. CurInv'
  BY DEF CurInv, PcType, ConnType, CurType, ConnInv, StartAlone, HasCur, ConnectPoints
<1>14. ConnInv'  BY DEF ConnInv, PcType, ConnType, CurType, CurInv, HasCur
<1>15. ChanInv'  BY DEF ChanInv, PcType, ConnType, CurType, CurInv, HasCur
<1>16. PtrInv'  BY DEF PtrInv, PcType, ObjType, Resources
<1>17. ThreadsHaveSession'
  BY DEF ThreadsHaveSession, PcType, ObjType, PtrInv, StartAlone, WorkerJoined, ForwardJoined,
    CurType, CurInv, Resources, HasCur, ConnectPoints, JoinedWorker, JoinedForward
<1> HIDE DEF IInv, TypeParts
<1> QED  BY <1>1, <1>2, <1>3, <1>4, <1>5, <1>6, <1>7, <1>8, <1>9, <1>10, <1>11, <1>12, <1>13,
  <1>14, <1>15, <1>16, <1>17 DEF IInv, TypeParts

(* A step of a forwarding thread keeps the invariant. *)
LEMMA ForwardKeeps ==
  ASSUME IInv, NEW c \in Clients,
         ForwardNext(c) \/ ChannelWrite(c) \/ ChannelRead(c) \/ ChannelFails(c)
  PROVE  IInv'
<1> USE DEF IInv, TypeParts, ForwardNext, ForwardStep, ForwardStopped, RecvClient,
  ChannelWrite, ChannelRead, ChannelFails, SendClient, CloseClient, ChannelFree, Freed
<1>1. PcType'
  BY DEF PcType, CurType, CurInv, HasCur, OwnerPoints, ConnectPoints, ClosePoints,
    WorkerPoints, ForwardPoints
<1>2. ObjType'  BY DEF ObjType, Resources
<1>3. ConnType'  BY DEF ConnType, CurType, CurInv, HasCur
<1>4. CurType'  BY DEF CurType, CurInv, HasCur
<1>5. EnumType'  BY DEF EnumType
<1>6. FlagType'  BY DEF FlagType
<1>7. CallsInv'
  BY DEF CallsInv, PcType, OwnerPoints, ConnectPoints, ClosePoints, WorkerPoints, ForwardPoints
<1>8. StartAlone'  BY DEF StartAlone, PcType, CurType, ConnectPoints, ClosePoints
<1>9. WorkerJoined'
  BY DEF WorkerJoined, PcType, StartAlone, CurType, JoinedWorker, ConnectPoints
<1>10. ForwardJoined'
  BY DEF ForwardJoined, PcType, StartAlone, ForwardTracked, WorkerJoined, CurType,
    JoinedForward, JoinedWorker, ConnectPoints
<1>11. ForwardTracked'  BY DEF ForwardTracked, PcType, CurType
<1>12. PortInv'
  BY DEF PortInv, PcType, ConnType, CurType, CurInv, StartAlone, Serving, HasCur, ConnectPoints
<1>13. CurInv'
  BY DEF CurInv, PcType, ConnType, CurType, ConnInv, StartAlone, HasCur, ConnectPoints
<1>14. ConnInv'  BY DEF ConnInv, PcType, ConnType, CurType, CurInv, HasCur
<1>15. ChanInv'  BY DEF ChanInv, PcType, ConnType, CurType, CurInv, HasCur
<1>16. PtrInv'  BY DEF PtrInv, PcType, ObjType, Resources
<1>17. ThreadsHaveSession'
  BY DEF ThreadsHaveSession, PcType, ObjType, PtrInv, StartAlone, WorkerJoined, ForwardJoined,
    CurType, CurInv, Resources, HasCur, ConnectPoints, JoinedWorker, JoinedForward
<1> HIDE DEF IInv, TypeParts
<1> QED  BY <1>1, <1>2, <1>3, <1>4, <1>5, <1>6, <1>7, <1>8, <1>9, <1>10, <1>11, <1>12, <1>13,
  <1>14, <1>15, <1>16, <1>17 DEF IInv, TypeParts

(* A step of Close() keeps the invariant. *)
LEMMA CloseKeeps ==
  ASSUME IInv, CallClose \/ CloseNext
  PROVE  IInv'
<1> USE DEF IInv, TypeParts, CallClose, Throw, CloseNext, CloseStop, ShutdownWrite,
  CloseJoinWorker, CloseJoinForward, CloseRelease, Freed, Used
<1>1. PcType'
  BY DEF PcType, CurType, CurInv, HasCur, OwnerPoints, ConnectPoints, ClosePoints,
    WorkerPoints, ForwardPoints
<1>2. ObjType'  BY DEF ObjType, Resources
<1>3. ConnType'  BY DEF ConnType, CurType, CurInv, HasCur
<1>4. CurType'  BY DEF CurType, CurInv, HasCur
<1>5. EnumType'  BY DEF EnumType
<1>6. FlagType'  BY DEF FlagType
<1>7. CallsInv'
  BY DEF CallsInv, PcType, OwnerPoints, ConnectPoints, ClosePoints, WorkerPoints, ForwardPoints
<1>8. StartAlone'  BY DEF StartAlone, PcType, CurType, ConnectPoints, ClosePoints
<1>9. WorkerJoined'
  BY DEF WorkerJoined, PcType, StartAlone, CurType, JoinedWorker, ConnectPoints
<1>10. ForwardJoined'
  BY DEF ForwardJoined, PcType, StartAlone, ForwardTracked, WorkerJoined, CurType,
    JoinedForward, JoinedWorker, ConnectPoints
<1>11. ForwardTracked'  BY DEF ForwardTracked, PcType, CurType
<1>12. PortInv'
  BY DEF PortInv, PcType, ConnType, CurType, CurInv, StartAlone, Serving, HasCur, ConnectPoints
<1>13. CurInv'
  BY DEF CurInv, PcType, ConnType, CurType, ConnInv, StartAlone, HasCur, ConnectPoints
<1>14. ConnInv'  BY DEF ConnInv, PcType, ConnType, CurType, CurInv, HasCur
<1>15. ChanInv'  BY DEF ChanInv, PcType, ConnType, CurType, CurInv, HasCur
<1>16. PtrInv'  BY DEF PtrInv, PcType, ObjType, Resources
<1>17. ThreadsHaveSession'
  BY DEF ThreadsHaveSession, PcType, ObjType, PtrInv, StartAlone, WorkerJoined, ForwardJoined,
    CurType, CurInv, Resources, HasCur, ConnectPoints, JoinedWorker, JoinedForward
<1> HIDE DEF IInv, TypeParts
<1> QED  BY <1>1, <1>2, <1>3, <1>4, <1>5, <1>6, <1>7, <1>8, <1>9, <1>10, <1>11, <1>12, <1>13,
  <1>14, <1>15, <1>16, <1>17 DEF IInv, TypeParts

(* A new client, a lost connection and a stutter keep the invariant. *)
LEMMA EnvKeeps ==
  ASSUME IInv, (\E c \in Clients : Dial(c)) \/ TransportDrops \/ UNCHANGED vars
  PROVE  IInv'
<1> USE DEF IInv, TypeParts, Dial, TransportDrops, vars
<1>1. PcType'
  BY DEF PcType, CurType, CurInv, HasCur, OwnerPoints, ConnectPoints, ClosePoints,
    WorkerPoints, ForwardPoints
<1>2. ObjType'  BY DEF ObjType, Resources
<1>3. ConnType'  BY DEF ConnType, CurType, CurInv, HasCur
<1>4. CurType'  BY DEF CurType, CurInv, HasCur
<1>5. EnumType'  BY DEF EnumType
<1>6. FlagType'  BY DEF FlagType
<1>7. CallsInv'
  BY DEF CallsInv, PcType, OwnerPoints, ConnectPoints, ClosePoints, WorkerPoints, ForwardPoints
<1>8. StartAlone'  BY DEF StartAlone, PcType, CurType, ConnectPoints, ClosePoints
<1>9. WorkerJoined'
  BY DEF WorkerJoined, PcType, StartAlone, CurType, JoinedWorker, ConnectPoints
<1>10. ForwardJoined'
  BY DEF ForwardJoined, PcType, StartAlone, ForwardTracked, WorkerJoined, CurType,
    JoinedForward, JoinedWorker, ConnectPoints
<1>11. ForwardTracked'  BY DEF ForwardTracked, PcType, CurType
<1>12. PortInv'
  BY DEF PortInv, PcType, ConnType, CurType, CurInv, StartAlone, Serving, HasCur, ConnectPoints
<1>13. CurInv'
  BY DEF CurInv, PcType, ConnType, CurType, ConnInv, StartAlone, HasCur, ConnectPoints
<1>14. ConnInv'  BY DEF ConnInv, PcType, ConnType, CurType, CurInv, HasCur
<1>15. ChanInv'  BY DEF ChanInv, PcType, ConnType, CurType, CurInv, HasCur
<1>16. PtrInv'  BY DEF PtrInv, PcType, ObjType, Resources
<1>17. ThreadsHaveSession'
  BY DEF ThreadsHaveSession, PcType, ObjType, PtrInv, StartAlone, WorkerJoined, ForwardJoined,
    CurType, CurInv, Resources, HasCur, ConnectPoints, JoinedWorker, JoinedForward
<1> HIDE DEF IInv, TypeParts
<1> QED  BY <1>1, <1>2, <1>3, <1>4, <1>5, <1>6, <1>7, <1>8, <1>9, <1>10, <1>11, <1>12, <1>13,
  <1>14, <1>15, <1>16, <1>17 DEF IInv, TypeParts

-----------------------------------------------------------------------------
(* Init establishes the invariant. *)
LEMMA InitIInv == Init => IInv
<1> SUFFICES ASSUME Init PROVE IInv  OBVIOUS
<1> USE DEF Init
<1>1. PcType  BY DEF PcType, OwnerPoints, ConnectPoints, WorkerPoints, ForwardPoints
<1>2. ObjType /\ ConnType  BY DEF ObjType, ConnType
<1>3. CurType /\ EnumType /\ FlagType  BY DEF CurType, EnumType, FlagType
<1>4. CallsInv
  <2>1. pc[Owner] \notin ClosePoints  BY DEF ClosePoints
  <2> QED  BY <2>1 DEF CallsInv
<1>5. StartAlone /\ WorkerJoined /\ ForwardJoined /\ ForwardTracked
  BY DEF StartAlone, WorkerJoined, ForwardJoined, ForwardTracked, JoinedWorker, JoinedForward
<1>6. PortInv /\ CurInv /\ ConnInv /\ ChanInv
  BY DEF PortInv, CurInv, ConnInv, ChanInv, HasCur
<1>7. PtrInv /\ ThreadsHaveSession  BY DEF PtrInv, ThreadsHaveSession, Resources
<1> QED  BY <1>1, <1>2, <1>3, <1>4, <1>5, <1>6, <1>7 DEF IInv, TypeParts

(* Every step keeps the invariant. *)
LEMMA NextIInv == IInv /\ [Next]_vars => IInv'
<1> SUFFICES ASSUME IInv, [Next]_vars PROVE IInv'  OBVIOUS
<1>1. CASE CreateNext  BY <1>1, CreateKeeps
<1>2. CASE CallClose \/ CloseNext  BY <1>2, CloseKeeps
<1>3. CASE WorkerNext \/ LoopFails \/ ChannelOpened \/ ChannelRefused  BY <1>3, WorkerKeeps
<1>4. CASE \E c \in Clients : ForwardNext(c) \/ ChannelWrite(c) \/ ChannelRead(c) \/ ChannelFails(c)
  BY <1>4, ForwardKeeps
<1>5. CASE (\E c \in Clients : Dial(c)) \/ TransportDrops \/ UNCHANGED vars  BY <1>5, EnvKeeps
<1> QED  BY <1>1, <1>2, <1>3, <1>4, <1>5 DEF Next, ServerReplies, Terminated

(* The inductive invariant holds in every reachable state. *)
THEOREM Invariance == Spec => []IInv
  BY InitIInv, NextIInv, PTL DEF Spec

(* The model is type-correct: in particular no forwarding thread is ever   *)
(* started for a connection that was not accepted.                         *)
THEOREM TypeCorrect == Spec => []TypeOK
<1>1. IInv => TypeOK
  BY DEF IInv, TypeParts, TypeOK, PcType, ObjType, ConnType, CurType, EnumType, FlagType,
    CallsInv
<1> QED  BY <1>1, Invariance, PTL

(* Close() joins before it frees: nothing that was freed is used. *)
THEOREM FreedIsNotUsed == Spec => []NoUseAfterFree
<1>1. IInv => NoUseAfterFree
  BY DEF IInv, TypeParts, NoUseAfterFree, InLibssh2, ThreadsHaveSession, ChanInv
<1> QED  BY <1>1, Invariance, PTL

(* When Close() is over nothing is left, however far the create came. *)
THEOREM CloseIsComplete == Spec => []CloseLeavesNothing
<1>1. IInv => CloseLeavesNothing
  <2> SUFFICES ASSUME IInv, At(Owner, "gone") PROVE CloseLeavesNothing
    BY DEF CloseLeavesNothing
  <2> USE DEF IInv, TypeParts
  <2>1. \A t \in Clients \cup {Worker} : Stopped(t)
    BY DEF WorkerJoined, ForwardJoined, JoinedWorker, JoinedForward
  <2>2. ptr = {} /\ \A r \in Resources : obj[r] # "live"
    BY DEF PtrInv, Resources
  <2>3. port # "us"
    BY <2>1 DEF PortInv, Serving
  <2>4. \A c \in Clients : conn[c] \in {"none", "closed"}
    BY <2>1, <2>3 DEF PortInv, ConnInv, ConnType, CurInv, HasCur, CurType
  <2>5. \A c \in Clients : chan[c] \in {"none", "freed"}
    BY <2>1 DEF ChanInv, ConnType
  <2> QED  BY <2>1, <2>2, <2>3, <2>4, <2>5 DEF CloseLeavesNothing
<1> QED  BY <1>1, Invariance, PTL

(* No accepted client socket is ever without an owner. *)
THEOREM SocketsHaveOwners == Spec => []NoOrphanSocket
<1>1. IInv => NoOrphanSocket
  BY DEF IInv, ConnInv, ForwardTracked, NoOrphanSocket
<1> QED  BY <1>1, Invariance, PTL
=============================================================================
