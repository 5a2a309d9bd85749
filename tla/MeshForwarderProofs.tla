------------------------ MODULE MeshForwarderProofs ------------------------
(***************************************************************************)
(* Proofs, for any number of clients of the local port, of the safety      *)
(* properties of MeshForwarder: descriptors are closed once, belong to     *)
(* somebody until then, and none is left when Close() is done.             *)
(***************************************************************************)
EXTENDS MeshForwarder, TLAPS

(* The conjuncts of TypeOK. *)
PcType ==
  /\ pc \in [Threads -> OwnerPoints \cup AcceptPoints \cup PumpPoints]
  /\ pc[Owner] \in OwnerPoints /\ pc[Acceptor] \in AcceptPoints
  /\ \A c \in Clients : pc[c] \in PumpPoints

SockType ==
  /\ conn \in [Clients -> {"none", "queued", "open", "closed", "misused"}]
  /\ stream \in [Clients -> {"none", "open", "shut", "closed", "misused"}]

EndType ==
  /\ client \in [Clients -> {"sending", "fin", "reset"}]
  /\ up \in [Clients -> {"none", "copying", "done"}]
  /\ down \in [Clients -> {"none", "copying", "done"}]
  /\ peer \in [Clients -> {"sending", "fin"}]

CurType == workers \subseteq Clients /\ cur \in Clients \cup {NoClient}

FlagType ==
  /\ running \in BOOLEAN /\ listen_sock \in BOOLEAN
  /\ listener \in {"none", "open", "closed", "misused"}

(* While Close() runs, the call in progress is counted. *)
CallsInv ==
  /\ calls \in 0 .. 2
  /\ pc[Owner] \in ClosePoints => calls # 0

Alone == {"ensure_up", "listen"}
JoinedAcceptor == {"join_workers", "close_listener", "gone"}
JoinedWorkers == {"close_listener", "gone"}
HasCur == {"accepted", "dial", "push"}

(* Start() is alone until it listens; Close() past its joins is alone.     *)
StartAlone ==
  pc[Owner] \in Alone =>
    listener = "none" /\ ~listen_sock /\ \A t \in Clients \cup {Acceptor} : pc[t] = "none"
AcceptorJoined == pc[Owner] \in JoinedAcceptor => Stopped(Acceptor)
WorkersJoined == pc[Owner] \in JoinedWorkers => \A c \in Clients : Stopped(c)

(* Close() will find every pump that may still run. *)
WorkersTracked == \A c \in Clients : ~Stopped(c) => c \in workers

(* running_ is set only between Listen and CloseStop, with an acceptor. *)
RunInv ==
  running => /\ listener = "open" /\ ~Stopped(Acceptor)
             /\ pc[Owner] \in {"probe", "up", "stop"}

(* The member listen_sock_, and the listener with its backlog. *)
ListenInv ==
  /\ listen_sock <=> listener = "open"
  /\ listener # "misused"
  /\ pc[Owner] \in {"probe", "up"} => listener = "open"
  /\ pc[Owner] = "gone" => listener # "open"
  /\ \A c \in Clients : conn[c] = "queued" => listener = "open"

CurInv ==
  /\ cur # NoClient <=> pc[Acceptor] \in HasCur
  /\ cur # NoClient => /\ conn[cur] = "open" /\ pc[cur] = "none"
                       /\ stream[cur] = IF pc[Acceptor] = "push" THEN "open" ELSE "none"

(* Who holds a client's descriptor and the stream dialled for it. *)
ConnInv ==
  \A c \in Clients :
    /\ conn[c] \in {"none", "queued"} => pc[c] = "none" /\ stream[c] = "none"
    /\ conn[c] = "open" => cur = c \/ ~Stopped(c)
    /\ stream[c] \in {"open", "shut"} => cur = c \/ ~Stopped(c)
    /\ ~Stopped(c) => conn[c] = "open" /\ stream[c] \in {"open", "shut"}
    /\ conn[c] # "misused" /\ stream[c] # "misused"

TypeParts == PcType /\ SockType /\ EndType /\ CurType /\ FlagType

IInv ==
  /\ TypeParts /\ CallsInv /\ StartAlone /\ AcceptorJoined /\ WorkersJoined /\ WorkersTracked
  /\ RunInv /\ ListenInv /\ CurInv /\ ConnInv

USE ThreadsAssumption
USE DEF At, Goto, Set, Threads, Stopped, listen_vars, list_vars, client_vars, bridge_vars
-----------------------------------------------------------------------------
(* A step of Start() keeps the invariant. *)
LEMMA StartKeeps ==
  ASSUME IInv, StartNext
  PROVE  IInv'
<1> USE DEF IInv, TypeParts, StartNext, EnsureUp, StartThrows, Listen, Probe, Throw
<1>1. PcType'
  BY DEF PcType, CurType, CurInv, HasCur, OwnerPoints, StartPoints, ClosePoints,
    AcceptPoints, PumpPoints
<1>2. SockType'  BY DEF SockType, CurType, CurInv, HasCur
<1>3. EndType'  BY DEF EndType, CurType, CurInv, HasCur
<1>4. CurType'  BY DEF CurType, CurInv, HasCur
<1>5. FlagType'  BY DEF FlagType
<1>6. CallsInv'
  BY DEF CallsInv, PcType, OwnerPoints, StartPoints, ClosePoints, AcceptPoints, PumpPoints
<1>7. StartAlone'
  BY DEF StartAlone, PcType, CurType, CurInv, HasCur, Alone, StartPoints
<1>8. AcceptorJoined'
  BY DEF AcceptorJoined, PcType, CurType, CurInv, HasCur, JoinedAcceptor, StartPoints
<1>9. WorkersJoined'
  BY DEF WorkersJoined, PcType, CurType, AcceptorJoined, WorkersTracked, JoinedWorkers,
    JoinedAcceptor, StartPoints
<1>10. WorkersTracked'  BY DEF WorkersTracked, PcType, CurType
<1>11. RunInv'
  BY DEF RunInv, FlagType, PcType, CurType, CurInv, HasCur, AcceptorJoined, JoinedAcceptor,
    StartPoints
<1>12. ListenInv'
  BY DEF ListenInv, PcType, SockType, CurType, CurInv, StartAlone, Alone, HasCur, StartPoints,
    FlagType
<1>13. CurInv'
  BY DEF CurInv, PcType, SockType, CurType, ConnInv, StartAlone, Alone, HasCur
<1>14. ConnInv'  BY DEF ConnInv, PcType, SockType, CurType, CurInv, HasCur
<1> HIDE DEF IInv, TypeParts
<1> QED  BY <1>1, <1>2, <1>3, <1>4, <1>5, <1>6, <1>7, <1>8, <1>9, <1>10, <1>11, <1>12, <1>13,
  <1>14 DEF IInv, TypeParts

(* A step of AcceptLoop() keeps the invariant. *)
LEMMA AcceptKeeps ==
  ASSUME IInv, AcceptNext
  PROVE  IInv'
<1> USE DEF IInv, TypeParts, AcceptNext, LeaveLoop, Accept, AcceptedTooLate, StillWanted, Dial, DialFails,
  StartPump, Closed
<1>1. PcType'
  BY DEF PcType, CurType, CurInv, HasCur, OwnerPoints, StartPoints, ClosePoints,
    AcceptPoints, PumpPoints
<1>2. SockType'  BY DEF SockType, CurType, CurInv, HasCur
<1>3. EndType'  BY DEF EndType, CurType, CurInv, HasCur
<1>4. CurType'  BY DEF CurType, CurInv, HasCur
<1>5. FlagType'  BY DEF FlagType
<1>6. CallsInv'
  BY DEF CallsInv, PcType, OwnerPoints, StartPoints, ClosePoints, AcceptPoints, PumpPoints
<1>7. StartAlone'
  BY DEF StartAlone, PcType, CurType, CurInv, HasCur, Alone, StartPoints
<1>8. AcceptorJoined'
  BY DEF AcceptorJoined, PcType, CurType, CurInv, HasCur, JoinedAcceptor, StartPoints
<1>9. WorkersJoined'
  BY DEF WorkersJoined, PcType, CurType, AcceptorJoined, WorkersTracked, JoinedWorkers,
    JoinedAcceptor, StartPoints
<1>10. WorkersTracked'  BY DEF WorkersTracked, PcType, CurType
<1>11. RunInv'
  BY DEF RunInv, FlagType, PcType, CurType, CurInv, HasCur, AcceptorJoined, JoinedAcceptor,
    StartPoints
<1>12. ListenInv'
  BY DEF ListenInv, PcType, SockType, CurType, CurInv, StartAlone, Alone, HasCur, StartPoints,
    FlagType
<1>13. CurInv'
  BY DEF CurInv, PcType, SockType, CurType, ConnInv, StartAlone, Alone, HasCur
<1>14. ConnInv'  BY DEF ConnInv, PcType, SockType, CurType, CurInv, HasCur
<1> HIDE DEF IInv, TypeParts
<1> QED  BY <1>1, <1>2, <1>3, <1>4, <1>5, <1>6, <1>7, <1>8, <1>9, <1>10, <1>11, <1>12, <1>13,
  <1>14 DEF IInv, TypeParts

(* A step of a Pump() keeps the invariant. *)
LEMMA PumpKeeps ==
  ASSUME IInv, NEW c \in Clients,
         PumpNext(c) \/ SendMesh(c) \/ SendClient(c) \/ SendAborted(c)
  PROVE  IInv'
<1> USE DEF IInv, TypeParts, PumpNext, PumpStep, PumpStopped, Readable, RecvClient, ClientEof, ClientReset,
  SendMesh, SendClient, SendFails, SendAborted, RecvMesh, MeshEof, PumpCloses, Closed
<1>1. PcType'
  BY DEF PcType, CurType, CurInv, HasCur, OwnerPoints, StartPoints, ClosePoints,
    AcceptPoints, PumpPoints
<1>2. SockType'  BY DEF SockType, CurType, CurInv, HasCur
<1>3. EndType'  BY DEF EndType, CurType, CurInv, HasCur
<1>4. CurType'  BY DEF CurType, CurInv, HasCur
<1>5. FlagType'  BY DEF FlagType
<1>6. CallsInv'
  BY DEF CallsInv, PcType, OwnerPoints, StartPoints, ClosePoints, AcceptPoints, PumpPoints
<1>7. StartAlone'
  BY DEF StartAlone, PcType, CurType, CurInv, HasCur, Alone, StartPoints
<1>8. AcceptorJoined'
  BY DEF AcceptorJoined, PcType, CurType, CurInv, HasCur, JoinedAcceptor, StartPoints
<1>9. WorkersJoined'
  BY DEF WorkersJoined, PcType, CurType, AcceptorJoined, WorkersTracked, JoinedWorkers,
    JoinedAcceptor, StartPoints
<1>10. WorkersTracked'  BY DEF WorkersTracked, PcType, CurType
<1>11. RunInv'
  BY DEF RunInv, FlagType, PcType, CurType, CurInv, HasCur, AcceptorJoined, JoinedAcceptor,
    StartPoints
<1>12. ListenInv'
  BY DEF ListenInv, PcType, SockType, CurType, CurInv, StartAlone, Alone, HasCur, StartPoints,
    FlagType
<1>13. CurInv'
  BY DEF CurInv, PcType, SockType, CurType, ConnInv, StartAlone, Alone, HasCur
<1>14. ConnInv'  BY DEF ConnInv, PcType, SockType, CurType, CurInv, HasCur
<1> HIDE DEF IInv, TypeParts
<1> QED  BY <1>1, <1>2, <1>3, <1>4, <1>5, <1>6, <1>7, <1>8, <1>9, <1>10, <1>11, <1>12, <1>13,
  <1>14 DEF IInv, TypeParts

(* A step of Close() keeps the invariant. *)
LEMMA CloseKeeps ==
  ASSUME IInv, CallClose \/ CloseNext
  PROVE  IInv'
<1> USE DEF IInv, TypeParts, CallClose, Throw, CloseNext, CloseStop, CloseJoinAcceptor, CloseJoinWorkers,
  CloseListener, Closed
<1>1. PcType'
  BY DEF PcType, CurType, CurInv, HasCur, OwnerPoints, StartPoints, ClosePoints,
    AcceptPoints, PumpPoints
<1>2. SockType'  BY DEF SockType, CurType, CurInv, HasCur
<1>3. EndType'  BY DEF EndType, CurType, CurInv, HasCur
<1>4. CurType'  BY DEF CurType, CurInv, HasCur
<1>5. FlagType'  BY DEF FlagType
<1>6. CallsInv'
  BY DEF CallsInv, PcType, OwnerPoints, StartPoints, ClosePoints, AcceptPoints, PumpPoints
<1>7. StartAlone'
  BY DEF StartAlone, PcType, CurType, CurInv, HasCur, Alone, StartPoints
<1>8. AcceptorJoined'
  BY DEF AcceptorJoined, PcType, CurType, CurInv, HasCur, JoinedAcceptor, StartPoints
<1>9. WorkersJoined'
  BY DEF WorkersJoined, PcType, CurType, AcceptorJoined, WorkersTracked, JoinedWorkers,
    JoinedAcceptor, StartPoints
<1>10. WorkersTracked'  BY DEF WorkersTracked, PcType, CurType
<1>11. RunInv'
  BY DEF RunInv, FlagType, PcType, CurType, CurInv, HasCur, AcceptorJoined, JoinedAcceptor,
    StartPoints
<1>12. ListenInv'
  BY DEF ListenInv, PcType, SockType, CurType, CurInv, StartAlone, Alone, HasCur, StartPoints,
    FlagType
<1>13. CurInv'
  BY DEF CurInv, PcType, SockType, CurType, ConnInv, StartAlone, Alone, HasCur
<1>14. ConnInv'  BY DEF ConnInv, PcType, SockType, CurType, CurInv, HasCur
<1> HIDE DEF IInv, TypeParts
<1> QED  BY <1>1, <1>2, <1>3, <1>4, <1>5, <1>6, <1>7, <1>8, <1>9, <1>10, <1>11, <1>12, <1>13,
  <1>14 DEF IInv, TypeParts

(* A step of a bridge, of a client or of a peer keeps the invariant. *)
LEMMA BridgeKeeps ==
  ASSUME IInv, NEW c \in Clients, BridgeNext(c) \/ Environment(c)
  PROVE  IInv'
<1> USE DEF IInv, TypeParts, BridgeNext, BridgeStep, CopyUp, CopyDown, CopyFails, Environment, ClientDials,
  ClientEnds, PeerEnds
<1>1. PcType'
  BY DEF PcType, CurType, CurInv, HasCur, OwnerPoints, StartPoints, ClosePoints,
    AcceptPoints, PumpPoints
<1>2. SockType'  BY DEF SockType, CurType, CurInv, HasCur
<1>3. EndType'  BY DEF EndType, CurType, CurInv, HasCur
<1>4. CurType'  BY DEF CurType, CurInv, HasCur
<1>5. FlagType'  BY DEF FlagType
<1>6. CallsInv'
  BY DEF CallsInv, PcType, OwnerPoints, StartPoints, ClosePoints, AcceptPoints, PumpPoints
<1>7. StartAlone'
  BY DEF StartAlone, PcType, CurType, CurInv, HasCur, Alone, StartPoints
<1>8. AcceptorJoined'
  BY DEF AcceptorJoined, PcType, CurType, CurInv, HasCur, JoinedAcceptor, StartPoints
<1>9. WorkersJoined'
  BY DEF WorkersJoined, PcType, CurType, AcceptorJoined, WorkersTracked, JoinedWorkers,
    JoinedAcceptor, StartPoints
<1>10. WorkersTracked'  BY DEF WorkersTracked, PcType, CurType
<1>11. RunInv'
  BY DEF RunInv, FlagType, PcType, CurType, CurInv, HasCur, AcceptorJoined, JoinedAcceptor,
    StartPoints
<1>12. ListenInv'
  BY DEF ListenInv, PcType, SockType, CurType, CurInv, StartAlone, Alone, HasCur, StartPoints,
    FlagType
<1>13. CurInv'
  BY DEF CurInv, PcType, SockType, CurType, ConnInv, StartAlone, Alone, HasCur
<1>14. ConnInv'  BY DEF ConnInv, PcType, SockType, CurType, CurInv, HasCur
<1> HIDE DEF IInv, TypeParts
<1> QED  BY <1>1, <1>2, <1>3, <1>4, <1>5, <1>6, <1>7, <1>8, <1>9, <1>10, <1>11, <1>12, <1>13,
  <1>14 DEF IInv, TypeParts

(* A stutter keeps the invariant. *)
LEMMA StutterKeeps ==
  ASSUME IInv, UNCHANGED vars
  PROVE  IInv'
<1> USE DEF IInv, TypeParts, vars
<1>1. PcType'
  BY DEF PcType, CurType, CurInv, HasCur, OwnerPoints, StartPoints, ClosePoints,
    AcceptPoints, PumpPoints
<1>2. SockType'  BY DEF SockType, CurType, CurInv, HasCur
<1>3. EndType'  BY DEF EndType, CurType, CurInv, HasCur
<1>4. CurType'  BY DEF CurType, CurInv, HasCur
<1>5. FlagType'  BY DEF FlagType
<1>6. CallsInv'
  BY DEF CallsInv, PcType, OwnerPoints, StartPoints, ClosePoints, AcceptPoints, PumpPoints
<1>7. StartAlone'
  BY DEF StartAlone, PcType, CurType, CurInv, HasCur, Alone, StartPoints
<1>8. AcceptorJoined'
  BY DEF AcceptorJoined, PcType, CurType, CurInv, HasCur, JoinedAcceptor, StartPoints
<1>9. WorkersJoined'
  BY DEF WorkersJoined, PcType, CurType, AcceptorJoined, WorkersTracked, JoinedWorkers,
    JoinedAcceptor, StartPoints
<1>10. WorkersTracked'  BY DEF WorkersTracked, PcType, CurType
<1>11. RunInv'
  BY DEF RunInv, FlagType, PcType, CurType, CurInv, HasCur, AcceptorJoined, JoinedAcceptor,
    StartPoints
<1>12. ListenInv'
  BY DEF ListenInv, PcType, SockType, CurType, CurInv, StartAlone, Alone, HasCur, StartPoints,
    FlagType
<1>13. CurInv'
  BY DEF CurInv, PcType, SockType, CurType, ConnInv, StartAlone, Alone, HasCur
<1>14. ConnInv'  BY DEF ConnInv, PcType, SockType, CurType, CurInv, HasCur
<1> HIDE DEF IInv, TypeParts
<1> QED  BY <1>1, <1>2, <1>3, <1>4, <1>5, <1>6, <1>7, <1>8, <1>9, <1>10, <1>11, <1>12, <1>13,
  <1>14 DEF IInv, TypeParts

-----------------------------------------------------------------------------
(* Init establishes the invariant. *)
LEMMA InitIInv == Init => IInv
<1> SUFFICES ASSUME Init PROVE IInv  OBVIOUS
<1> USE DEF Init
<1>1. PcType  BY DEF PcType, OwnerPoints, StartPoints, AcceptPoints, PumpPoints
<1>2. SockType /\ EndType /\ CurType /\ FlagType  BY DEF SockType, EndType, CurType, FlagType
<1>3. CallsInv
  <2>1. pc[Owner] \notin ClosePoints  BY DEF ClosePoints
  <2> QED  BY <2>1 DEF CallsInv
<1>4. StartAlone /\ AcceptorJoined /\ WorkersJoined /\ WorkersTracked
  BY DEF StartAlone, AcceptorJoined, WorkersJoined, WorkersTracked, JoinedAcceptor, JoinedWorkers
<1>5. RunInv /\ ListenInv /\ CurInv /\ ConnInv
  BY DEF RunInv, ListenInv, CurInv, ConnInv, HasCur
<1> QED  BY <1>1, <1>2, <1>3, <1>4, <1>5 DEF IInv, TypeParts

(* Every step keeps the invariant. *)
LEMMA NextIInv == IInv /\ [Next]_vars => IInv'
<1> SUFFICES ASSUME IInv, [Next]_vars PROVE IInv'  OBVIOUS
<1>1. CASE StartNext  BY <1>1, StartKeeps
<1>2. CASE AcceptNext  BY <1>2, AcceptKeeps
<1>3. CASE CallClose \/ CloseNext  BY <1>3, CloseKeeps
<1>4. CASE \E c \in Clients : PumpNext(c) \/ SendMesh(c) \/ SendClient(c) \/ SendAborted(c)
  BY <1>4, PumpKeeps
<1>5. CASE \E c \in Clients : BridgeNext(c) \/ Environment(c)  BY <1>5, BridgeKeeps
<1>6. CASE UNCHANGED vars  BY <1>6, StutterKeeps
<1> QED  BY <1>1, <1>2, <1>3, <1>4, <1>5, <1>6 DEF Next, Terminated

(* The inductive invariant holds in every reachable state. *)
THEOREM Invariance == Spec => []IInv
  BY InitIInv, NextIInv, PTL DEF Spec

(* The model is type-correct: no pump is recorded for nobody. *)
THEOREM TypeCorrect == Spec => []TypeOK
<1>1. IInv => TypeOK
  BY DEF IInv, TypeParts, TypeOK, PcType, SockType, EndType, CurType, FlagType, CallsInv
<1> QED  BY <1>1, Invariance, PTL

(* Pumps, AcceptLoop() and a repeated Close() never close a descriptor     *)
(* that is closed already.                                                 *)
THEOREM DescriptorsClosedOnce == Spec => []ClosedOnce
<1>1. IInv => ClosedOnce
  BY DEF IInv, ListenInv, ConnInv, ClosedOnce
<1> QED  BY <1>1, Invariance, PTL

(* When Close() is over nothing is left, however far Start() came. *)
THEOREM CloseIsComplete == Spec => []CloseLeavesNothing
<1>1. IInv => CloseLeavesNothing
  <2> SUFFICES ASSUME IInv, At(Owner, "gone") PROVE CloseLeavesNothing
    BY DEF CloseLeavesNothing
  <2> USE DEF IInv, TypeParts
  <2>1. \A t \in Clients \cup {Acceptor} : Stopped(t)
    BY DEF AcceptorJoined, WorkersJoined, JoinedAcceptor, JoinedWorkers
  <2>2. listener # "open"  BY DEF ListenInv
  <2>3. cur = NoClient  BY <2>1 DEF CurInv, HasCur
  <2>4. \A c \in Clients : conn[c] \in {"none", "closed"} /\ stream[c] \in {"none", "closed"}
    BY <2>1, <2>2, <2>3 DEF ListenInv, ConnInv, SockType
  <2> QED  BY <2>1, <2>2, <2>4 DEF CloseLeavesNothing
<1> QED  BY <1>1, Invariance, PTL

(* An accepted client and its stream are never without an owner. *)
THEOREM SocketsHaveOwners == Spec => []NoOrphanSocket
<1>1. IInv => NoOrphanSocket
  BY DEF IInv, ConnInv, WorkersTracked, NoOrphanSocket
<1> QED  BY <1>1, Invariance, PTL

(* An active import has a listener and a thread that accepts from it. *)
THEOREM ActiveIsListening == Spec => []ActiveMeansListening
<1>1. IInv => ActiveMeansListening
  BY DEF IInv, RunInv, ActiveMeansListening
<1> QED  BY <1>1, Invariance, PTL
=============================================================================
