-------------------------- MODULE MeshExportProofs --------------------------
(***************************************************************************)
(* Proofs about MeshExport, for any number of connections.  The argument:  *)
(* from the dial or the accept to the close, an open connection is either  *)
(* in the table that Close() empties or still has to pass track(), which   *)
(* looks at closed under the mutex the table is emptied under.             *)
(***************************************************************************)
EXTENDS MeshExport, TLAPS

FlagType == listening \in BOOLEAN /\ closed \in BOOLEAN /\ lastErr \in BOOLEAN

StateType ==
  /\ owner \in StartPoints \cup {"up"} \cup ClosePoints \cup {"gone"}
  /\ handle \in {0, TheHandle} /\ exports \subseteq {TheHandle}
  /\ ln \in {"none", "open", "closed"}
  /\ acceptor \in {"none", "accept", "broken", "shut", "exited"}

ConnType ==
  /\ conns \subseteq Ends /\ doomed \subseteq Ends
  /\ sock \in [Ends -> {"none", "queued", "open", "closed"}]
  /\ fin \subseteq Ends /\ copies \subseteq Ends
  /\ serve \in [Conns -> ServePoints]

TypeParts == FlagType /\ StateType /\ ConnType

CallsInv == calls \in 0 .. 2 /\ (owner \in ClosePoints => calls # 0)

(* What is published and who knows its handle, at each point of Start()    *)
(* and Close().                                                            *)
Published(p, h, x) == ln = p /\ handle = h /\ exports = x
Withdrawn == ln # "open" /\ handle = 0 /\ exports = {}

OwnerInv ==
  /\ owner \in {"ensure_up", "export"} => Published("none", 0, {})
  /\ owner = "own" => Published("open", 0, {TheHandle})
  /\ owner \in {"up", "unexport"} \/ listening => Published("open", TheHandle, {TheHandle})
  /\ owner = "close" /\ ~ listening => Withdrawn
  /\ owner \in {"mark", "close_ln"} => Published("open", 0, {})
  /\ owner = "close_conns" => Published("closed", 0, {})
  /\ owner \in {"return", "gone"} => Withdrawn
  /\ listening => owner \in {"up", "close"}
  /\ owner = "up" => listening

(* closed is set between taking the handle and closing the listener, and   *)
(* the table then stays empty.                                             *)
ClosedInv ==
  /\ closed => owner = "close_ln" \/ ln = "closed"
  /\ ln = "closed" \/ owner = "close_ln" => closed
  /\ closed => conns = {}
  /\ ~ closed => doomed = {}
  /\ \A e \in conns \cup doomed : sock[e] \in {"open", "closed"}

(* The ends of a connection at each point of its serve(). *)
ServeInv ==
  \A c \in Conns :
    /\ serve[c] # "none" => sock[Mesh(c)] \in {"open", "closed"}
    /\ serve[c] \in {"none", "track_mesh", "dial", "drop"} => sock[Local(c)] = "none"
    /\ serve[c] \in {"untrack", "done"} => sock[Mesh(c)] # "open" /\ sock[Local(c)] # "open"
    /\ serve[c] = "none" => sock[Mesh(c)] # "open"
    /\ serve[c] # "copy" => Mesh(c) \notin copies /\ Local(c) \notin copies

(* What Close() is going to close or would close now. *)
Reachable == IF closed THEN doomed ELSE conns

TrackedInv ==
  \A c \in Conns :
    /\ sock[Mesh(c)] = "open" => Mesh(c) \in Reachable \/ serve[c] = "track_mesh"
    /\ sock[Local(c)] = "open" => Local(c) \in Reachable \/ serve[c] = "track_local"

IInv == TypeParts /\ CallsInv /\ OwnerInv /\ ClosedInv /\ ServeInv /\ TrackedInv
-----------------------------------------------------------------------------
(* The two ends of a connection are all there is, and are never confused.  *)
LEMMA EndsAreEnds ==
  /\ \A c \in Conns : Mesh(c) \in Ends /\ Local(c) \in Ends
  /\ \A c, d \in Conns : Mesh(c) # Local(d) /\ (c # d => Mesh(c) # Mesh(d) /\ Local(c) # Local(d))
  /\ \A e \in Ends : /\ e[1] \in Conns
                     /\ IF e[2] = "mesh" THEN e = Mesh(e[1]) ELSE e = Local(e[1])
  /\ \A c \in Conns : Mesh(c)[1] = c /\ Mesh(c)[2] = "mesh" /\ Local(c)[1] = c /\ Local(c)[2] = "local"
BY DEF Ends, Mesh, Local

LEMMA InitIInv == Init => IInv
<1> SUFFICES ASSUME Init PROVE IInv
  OBVIOUS
<1>1. FlagType
  BY DEF Init, FlagType
<1>2. StateType
  BY DEF Init, StateType, StartPoints
<1>3. ConnType
  BY DEF Init, ConnType, ServePoints
<1>4. CallsInv
  BY DEF Init, CallsInv, ClosePoints
<1>5. OwnerInv /\ ClosedInv
  BY DEF Init, OwnerInv, ClosedInv, Published
<1>6. ServeInv /\ TrackedInv
  BY EndsAreEnds DEF Init, ServeInv, TrackedInv
<1> QED BY <1>1, <1>2, <1>3, <1>4, <1>5, <1>6 DEF IInv, TypeParts

(* The owner outside Exporter.Close(), which touches no connection.        *)
LEMMA OwnerKeeps ==
  ASSUME IInv, StartNext \/ CallClose \/ CloseTakesHandle \/ Unexport \/ ConnsClosed \/ CloseReturn
  PROVE  IInv'
<1> USE DEF IInv, TypeParts, StartNext, EnsureUp, StartThrows, Export, Own, CallClose,
            CloseTakesHandle, Unexport, ConnsClosed, CloseReturn, exporter_vars
<1>1. FlagType'
  BY DEF FlagType
<1>2. StateType'
  BY DEF StateType, StartPoints, ClosePoints
<1>3. ConnType'
  BY DEF ConnType
<1>4. CallsInv'
  BY DEF CallsInv, ClosePoints, StateType, StartPoints
<1>5. OwnerInv'
  BY DEF FlagType, OwnerInv, Published, Withdrawn
<1>6. ClosedInv'
  BY DEF OwnerInv, Published, Withdrawn, ClosedInv
<1>7. ServeInv' /\ TrackedInv'
  BY DEF ServeInv, TrackedInv, Reachable
<1> HIDE DEF IInv, TypeParts
<1> QED BY <1>1, <1>2, <1>3, <1>4, <1>5, <1>6, <1>7 DEF IInv, TypeParts

(* Exporter.Close(): the table is emptied, then listener and connections   *)
(* are closed.                                                             *)
LEMMA CloseKeeps ==
  ASSUME IInv, MarkClosed \/ CloseListener \/ \E e \in Ends : CloseConn(e)
  PROVE  IInv'
<1> USE DEF IInv, TypeParts, MarkClosed, CloseListener, CloseConn, cpp_vars
<1>1. FlagType'
  BY DEF FlagType
<1>2. StateType'
  BY DEF StateType, ClosePoints
<1>3. ConnType'
  BY DEF ConnType
<1>4. CallsInv'
  BY DEF CallsInv, ClosePoints
<1>5. OwnerInv'
  BY DEF OwnerInv, Published, Withdrawn
<1>6. ClosedInv'
  BY DEF OwnerInv, Published, ClosedInv, ConnType
<1>7. ServeInv'
  BY EndsAreEnds DEF ServeInv, ConnType, ClosedInv
<1>8. TrackedInv'
  BY EndsAreEnds DEF TrackedInv, Reachable, ConnType, OwnerInv, Published, ClosedInv
<1> HIDE DEF IInv, TypeParts
<1> QED BY <1>1, <1>2, <1>3, <1>4, <1>5, <1>6, <1>7, <1>8 DEF IInv, TypeParts

(* acceptLoop(), peers that dial, and ends that finish sending.            *)
LEMMA AcceptKeeps ==
  ASSUME IInv,
         \/ AcceptNext \/ AcceptFails \/ \E c \in Conns : Dial(c)
         \/ \E e \in Ends : CopyEnds(e) \/ CopyWriteFails(e) \/ Finishes(e)
  PROVE  IInv'
<1> USE DEF IInv, TypeParts, AcceptNext, Accept, AcceptFails, AcceptLoopEnds, Dial, CopyEnds,
            CopyWriteFails, CopyStep, Finishes, cpp_vars, exporter_vars
<1>1. FlagType'
  BY DEF FlagType
<1>2. StateType'
  BY DEF StateType
<1>3. ConnType'
  BY EndsAreEnds DEF ConnType, ServePoints
<1>4. CallsInv'
  BY DEF CallsInv
<1>5. OwnerInv'
  BY DEF OwnerInv, Published, Withdrawn
<1>6. ClosedInv'
  BY EndsAreEnds DEF ClosedInv, ConnType
<1>7. ServeInv'
  BY EndsAreEnds DEF ServeInv, ConnType
<1>8. TrackedInv'
  BY EndsAreEnds DEF TrackedInv, Reachable, ConnType, ServeInv
<1> HIDE DEF IInv, TypeParts
<1> QED BY <1>1, <1>2, <1>3, <1>4, <1>5, <1>6, <1>7, <1>8 DEF IInv, TypeParts

(* A step of serve(). *)
LEMMA ServeKeeps ==
  ASSUME IInv, NEW c \in Conns, ServeNext(c)
  PROVE  IInv'
<1> USE DEF IInv, TypeParts, ServeNext, ServeStep, TrackMesh, DialLocal, DialFails, Drop,
            TrackLocal, Copied, CloseBoth, Untrack, Track, cpp_vars
<1>1. FlagType'
  BY DEF FlagType
<1>2. StateType'
  BY DEF StateType
<1>3. ConnType'
  BY EndsAreEnds DEF ConnType, ServePoints
<1>4. CallsInv'
  BY DEF CallsInv
<1>5. OwnerInv'
  BY DEF OwnerInv, Published, Withdrawn
<1>6. ClosedInv'
  BY EndsAreEnds DEF ClosedInv, ConnType
<1>7. ServeInv'
  BY EndsAreEnds DEF ServeInv, ConnType
<1>8. TrackedInv'
  BY EndsAreEnds DEF TrackedInv, Reachable, ConnType, ServeInv
<1> HIDE DEF IInv, TypeParts
<1> QED BY <1>1, <1>2, <1>3, <1>4, <1>5, <1>6, <1>7, <1>8 DEF IInv, TypeParts

LEMMA NextIInv == IInv /\ [Next]_vars => IInv'
<1> SUFFICES ASSUME IInv, [Next]_vars PROVE IInv'
  OBVIOUS
<1>1. CASE \/ StartNext \/ CallClose \/ CloseTakesHandle \/ Unexport \/ ConnsClosed
           \/ CloseReturn
  BY <1>1, OwnerKeeps
<1>2. CASE MarkClosed \/ CloseListener \/ \E e \in Ends : CloseConn(e)
  BY <1>2, CloseKeeps
<1>3. CASE \/ AcceptNext \/ AcceptFails \/ \E c \in Conns : Dial(c)
           \/ \E e \in Ends : CopyEnds(e) \/ CopyWriteFails(e) \/ Finishes(e)
  BY <1>3, AcceptKeeps
<1>4. CASE \E c \in Conns : ServeNext(c)
  BY <1>4, ServeKeeps
<1>5. CASE UNCHANGED vars
  BY <1>5 DEF vars, cpp_vars, exporter_vars, IInv, TypeParts, FlagType, StateType, ConnType,
     CallsInv, OwnerInv, Published, Withdrawn, ClosedInv, ServeInv, TrackedInv, Reachable
<1> QED BY <1>1, <1>2, <1>3, <1>4, <1>5 DEF Next, CloseNext, Terminated

(* The inductive invariant holds in every reachable state. *)
THEOREM Invariance == Spec => []IInv
BY InitIInv, NextIInv, PTL DEF Spec

(* The model is type-correct. *)
THEOREM TypeCorrect == Spec => []TypeOK
<1>1. IInv => TypeOK
  <2> SUFFICES ASSUME IInv PROVE TypeOK
    OBVIOUS
  <2>1. calls \in 0 .. 2
    BY DEF IInv, CallsInv
  <2> QED BY <2>1 DEF IInv, TypeParts, FlagType, StateType, ConnType, TypeOK
<1> QED BY <1>1, Invariance, PTL

(* MeshExporter::Close(), after whatever part of Start(), leaves neither a *)
(* mesh listener nor a handle behind.                                      *)
THEOREM CloseWithdraws == Spec => []NothingPublished
<1>1. IInv => NothingPublished
  BY DEF IInv, OwnerInv, Withdrawn, NothingPublished
<1> QED BY <1>1, Invariance, PTL

(* Exporter.Close() misses no connection, however far serve() has come     *)
(* with it.                                                                *)
THEOREM CloseReachesAll == Spec => []NoneEscapesClose
<1>1. IInv => NoneEscapesClose
  BY EndsAreEnds DEF IInv, ClosedInv, TrackedInv, Reachable, NoneEscapesClose
<1> QED BY <1>1, Invariance, PTL

(* serve() closes a mesh connection only when both copies are done, when   *)
(* the local service refused it, or because of Close().                    *)
THEOREM HalfCloseIsHonoured == Spec => ResponseSurvivesEof
<1> DEFINE Spared(c) ==
      serve[c] # "none" /\ sock[Mesh(c)] = "open" /\ sock'[Mesh(c)] = "closed" =>
        closed \/ serve[c] = "drop" \/ copies \cap {Mesh(c), Local(c)} = {}
<1>1. ASSUME IInv, Next, NEW c \in Conns
      PROVE  Spared(c)
  <2>1. CASE UNCHANGED sock
    BY <2>1
  <2>2. CASE closed
    BY <2>2
  <2>3. ASSUME NEW d \in Conns, ServeNext(d), ~ closed
        PROVE  Spared(c)
    BY <1>1, <2>3, EndsAreEnds DEF IInv, TypeParts, ConnType, ServeInv, ServeNext, ServeStep, TrackMesh, DialLocal,
       DialFails, Drop, TrackLocal, Copied, CloseBoth, Untrack, Track
  <2>4. ASSUME NEW d \in Conns, Accept(d) \/ Dial(d)
        PROVE  Spared(c)
    BY <1>1, <2>4, EndsAreEnds DEF IInv, TypeParts, ConnType, Accept, Dial
  <2>5. CASE CloseListener \/ \E e \in Ends : CloseConn(e)
    BY <1>1, <2>5, EndsAreEnds DEF IInv, OwnerInv, Published, ClosedInv, CloseListener, CloseConn
  <2>6. \/ UNCHANGED sock \/ CloseListener \/ (\E e \in Ends : CloseConn(e))
        \/ \E d \in Conns : ServeNext(d) \/ Accept(d) \/ Dial(d)
    BY <1>1 DEF Next, StartNext, EnsureUp, StartThrows, Export, Own, CallClose, CloseNext,
       CloseTakesHandle, Unexport, MarkClosed, ConnsClosed, CloseReturn, AcceptNext, AcceptFails,
       AcceptLoopEnds, CopyEnds, CopyWriteFails, CopyStep, Finishes, Terminated, vars
  <2> QED BY <2>1, <2>2, <2>3, <2>4, <2>5, <2>6
<1>2. IInv /\ [Next]_vars => [\A c \in Conns : Spared(c)]_vars
  BY <1>1
<1> QED BY <1>2, Invariance, PTL DEF Spec, ResponseSurvivesEof
=============================================================================
