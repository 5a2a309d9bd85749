----------------------------- MODULE MeshExport -----------------------------
(***************************************************************************)
(* One local service published on the mesh: MeshExporter in C++, the       *)
(* node's table of exports in the Go shim, and the Exporter with its       *)
(* goroutines: one that accepts, one serve() per inbound connection, and   *)
(* two copies per served connection.                                       *)
(*                                                                         *)
(* The Exporter's mutex guards closed, conns and lastErr; what happens     *)
(* under it is one step.  A connection has a mesh end and a local end;     *)
(* bytes are not kept, only whether the other side has finished sending.   *)
(***************************************************************************)
EXTENDS Naturals

CONSTANTS
  Conns               \* inbound connections

Ends == Conns \X {"mesh", "local"}
Mesh(c) == <<c, "mesh">>
Local(c) == <<c, "local">>
Other(e) == IF e[2] = "mesh" THEN Local(e[1]) ELSE Mesh(e[1])

VARIABLES
  owner,              \* the thread in Start(), Close() and the destructor
  calls,              \* Close() calls it still has to finish
  listening,          \* listening_ (IsActive())
  handle,             \* export_handle_, in Close() the copy it took; 0: none
  exports,            \* the handles in the node's table
  ln,                 \* the mesh listener
  acceptor,           \* acceptLoop(); "broken" and "shut": Accept() failed, or ln was closed
  closed,             \* e.closed
  lastErr,            \* e.lastErr is set
  conns,              \* e.conns
  doomed,             \* the connections Close() found there
  sock,               \* sock[e]: the connection at end e
  fin,                \* the ends whose other side has finished sending
  copies,             \* the ends a copy is still reading from
  serve               \* serve[c]: where serve() of connection c is

cpp_vars == <<owner, calls, listening, handle>>
exporter_vars == <<ln, closed, lastErr, conns, doomed>>
vars == <<cpp_vars, exports, exporter_vars, acceptor, sock, fin, copies, serve>>

TheHandle == 1        \* nextExport counts from one

StartPoints == {"ensure_up", "export", "own"}
ClosePoints == {"close", "unexport", "mark", "close_ln", "close_conns", "return"}
ServePoints == {"none", "track_mesh", "dial", "drop", "track_local", "copy", "close", "untrack",
                "done"}

TypeOK ==
  /\ owner \in StartPoints \cup {"up"} \cup ClosePoints \cup {"gone"}
  /\ calls \in 0 .. 2
  /\ listening \in BOOLEAN /\ handle \in {0, TheHandle} /\ exports \subseteq {TheHandle}
  /\ ln \in {"none", "open", "closed"}
  /\ acceptor \in {"none", "accept", "broken", "shut", "exited"}
  /\ closed \in BOOLEAN /\ lastErr \in BOOLEAN
  /\ conns \subseteq Ends /\ doomed \subseteq Ends
  /\ sock \in [Ends -> {"none", "queued", "open", "closed"}]
  /\ fin \subseteq Ends /\ copies \subseteq Ends
  /\ serve \in [Conns -> ServePoints]

Init ==
  /\ owner = "ensure_up" /\ calls = 0 /\ listening = FALSE /\ handle = 0
  /\ exports = {} /\ ln = "none" /\ acceptor = "none"
  /\ closed = FALSE /\ lastErr = FALSE /\ conns = {} /\ doomed = {}
  /\ sock = [e \in Ends |-> "none"] /\ fin = {} /\ copies = {}
  /\ serve = [c \in Conns |-> "none"]
-----------------------------------------------------------------------------
(* MeshExporter::Start(). *)

EnsureUp ==
  /\ owner = "ensure_up" /\ owner' = "export"
  /\ UNCHANGED <<calls, listening, handle, exports, exporter_vars, acceptor, sock, fin, copies,
                 serve>>

(* The node does not come up, or it cannot listen on the mesh port: the    *)
(* exception unwinds to the destructor, which calls Close().               *)
StartThrows ==
  /\ owner \in {"ensure_up", "export"} /\ owner' = "close" /\ calls' = 1
  /\ UNCHANGED <<listening, handle, exports, exporter_vars, acceptor, sock, fin, copies, serve>>

(* Mutant: handles count from zero, which means none. *)
ExportCountsFromZero ==
  /\ owner = "export" /\ owner' = "own"
  /\ ln' = "open" /\ acceptor' = "accept" /\ exports' = {TheHandle - 1}
  /\ UNCHANGED <<calls, listening, handle, closed, lastErr, conns, doomed, sock, fin, copies,
                 serve>>

(* mesh_export(): listen, StartExport(), addExport(). *)
Export ==
  /\ owner = "export" /\ owner' = "own"
  /\ ln' = "open" /\ acceptor' = "accept" /\ exports' = {TheHandle}
  /\ UNCHANGED <<calls, listening, handle, closed, lastErr, conns, doomed, sock, fin, copies,
                 serve>>

(* Mutant: the handle is only kept once the address is known. *)
OwnAfterSelfJson ==
  /\ owner = "own" /\ owner' \in {"up", "close"} /\ calls' = IF owner' = "up" THEN 0 ELSE 1
  /\ listening' = (owner' = "up") /\ handle' = IF owner' = "up" THEN TheHandle ELSE 0
  /\ UNCHANGED <<exports, exporter_vars, acceptor, sock, fin, copies, serve>>

(* The handle is kept at once; asking for the address afterwards may fail  *)
(* but does not throw.                                                     *)
Own ==
  /\ owner = "own" /\ owner' = "up"
  /\ handle' = TheHandle /\ listening' = TRUE
  /\ UNCHANGED <<calls, exports, exporter_vars, acceptor, sock, fin, copies, serve>>

StartNext == EnsureUp \/ StartThrows \/ Export \/ Own
-----------------------------------------------------------------------------
(* acceptLoop(). *)

Accept(c) ==
  /\ acceptor = "accept" /\ ln = "open" /\ sock[Mesh(c)] = "queued"
  /\ sock' = [sock EXCEPT ![Mesh(c)] = "open"]
  /\ serve' = [serve EXCEPT ![c] = "track_mesh"]
  /\ UNCHANGED <<cpp_vars, exports, exporter_vars, acceptor, fin, copies>>

AcceptFails ==
  /\ acceptor = "accept"
  /\ acceptor' = IF ln = "closed" THEN "shut" ELSE "broken"
  /\ UNCHANGED <<cpp_vars, exports, exporter_vars, sock, fin, copies, serve>>

(* An error is recorded unless we closed the listener; the loop ends. *)
AcceptLoopEnds ==
  /\ acceptor \in {"broken", "shut"} /\ acceptor' = "exited"
  /\ lastErr' = (lastErr \/ ~closed)
  /\ UNCHANGED <<cpp_vars, exports, ln, closed, conns, doomed, sock, fin, copies, serve>>

AcceptNext == (\E c \in Conns : Accept(c)) \/ (ln = "closed" /\ AcceptFails) \/ AcceptLoopEnds
-----------------------------------------------------------------------------
(* serve() of connection c. *)

ServeStep(c, from, to) ==
  /\ serve[c] = from /\ serve' = [serve EXCEPT ![c] = to]
  /\ UNCHANGED <<cpp_vars, exports, ln, closed, doomed, acceptor, fin>>

(* Mutant: does not look at closed. *)
TrackAlways(e) == conns' = conns \cup {e} /\ sock' = [sock EXCEPT ![e] = "open"]

(* track(): a connection that comes after Close() is closed on the spot. *)
Track(e) ==
  IF closed THEN conns' = conns /\ sock' = [sock EXCEPT ![e] = "closed"]
            ELSE conns' = conns \cup {e} /\ sock' = [sock EXCEPT ![e] = "open"]

TrackMesh(c) ==
  /\ ServeStep(c, "track_mesh", "dial") /\ Track(Mesh(c))
  /\ UNCHANGED <<lastErr, copies>>

(* The local service answers; the connection is not tracked yet. *)
DialLocal(c) ==
  /\ ServeStep(c, "dial", "track_local") /\ sock' = [sock EXCEPT ![Local(c)] = "open"]
  /\ UNCHANGED <<lastErr, conns, copies>>

(* It does not: the reason is recorded, the listener stays. *)
DialFails(c) ==
  /\ ServeStep(c, "dial", "drop") /\ lastErr' = TRUE
  /\ UNCHANGED <<conns, sock, copies>>

Drop(c) ==
  /\ ServeStep(c, "drop", "untrack") /\ sock' = [sock EXCEPT ![Mesh(c)] = "closed"]
  /\ UNCHANGED <<lastErr, conns, copies>>

(* The local end is tracked and the two copies are started. *)
TrackLocal(c) ==
  /\ ServeStep(c, "track_local", "copy") /\ Track(Local(c))
  /\ copies' = copies \cup {Mesh(c), Local(c)}
  /\ UNCHANGED lastErr

(* Mutant: waits for one of the two copies. *)
CopiedOneWay(c) ==
  /\ Mesh(c) \notin copies \/ Local(c) \notin copies
  /\ ServeStep(c, "copy", "close")
  /\ UNCHANGED <<lastErr, conns, sock, copies>>

Copied(c) ==
  /\ Mesh(c) \notin copies /\ Local(c) \notin copies
  /\ ServeStep(c, "copy", "close")
  /\ UNCHANGED <<lastErr, conns, sock, copies>>

CloseBoth(c) ==
  /\ ServeStep(c, "close", "untrack")
  /\ sock' = [sock EXCEPT ![Mesh(c)] = "closed", ![Local(c)] = "closed"]
  /\ UNCHANGED <<lastErr, conns, copies>>

Untrack(c) ==
  /\ ServeStep(c, "untrack", "done") /\ conns' = conns \ {Mesh(c), Local(c)}
  /\ UNCHANGED <<lastErr, sock, copies>>

ServeNext(c) ==
  \/ TrackMesh(c) \/ DialLocal(c) \/ DialFails(c) \/ Drop(c) \/ TrackLocal(c) \/ Copied(c)
  \/ CloseBoth(c) \/ Untrack(c)

(* The copy reading from e ends, when e is closed or at its end, and shows *)
(* EOF at the other end.                                                   *)
CopyStep(e) ==
  /\ e \in copies /\ copies' = copies \ {e}
  /\ UNCHANGED <<cpp_vars, exports, exporter_vars, acceptor, sock, fin, serve>>

CopyEnds(e) == (sock[e] = "closed" \/ e \in fin) /\ CopyStep(e)

(* It also ends when it has bytes for an end that is closed. *)
CopyWriteFails(e) == sock[Other(e)] = "closed" /\ CopyStep(e)
-----------------------------------------------------------------------------
(* MeshExporter::Close(), and Exporter.Close() under it. *)

CallClose ==
  /\ owner = "up" /\ owner' = "close" /\ calls' = 2
  /\ UNCHANGED <<listening, handle, exports, exporter_vars, acceptor, sock, fin, copies, serve>>

(* Nothing to close, or the handle is taken for Unexport(). *)
CloseTakesHandle ==
  /\ owner = "close"
  /\ owner' = IF listening THEN "unexport" ELSE "return"
  /\ listening' = FALSE
  /\ UNCHANGED <<calls, handle, exports, exporter_vars, acceptor, sock, fin, copies, serve>>

(* mesh_unexport(): takeExport(). *)
Unexport ==
  /\ owner = "unexport"
  /\ owner' = IF handle \in exports THEN "mark" ELSE "return"
  /\ exports' = exports \ {handle} /\ handle' = 0
  /\ UNCHANGED <<calls, listening, exporter_vars, acceptor, sock, fin, copies, serve>>

MarkClosed ==
  /\ owner = "mark" /\ owner' = "close_ln"
  /\ closed' = TRUE /\ doomed' = conns /\ conns' = {}
  /\ UNCHANGED <<calls, listening, handle, exports, ln, lastErr, acceptor, sock, fin, copies,
                 serve>>

(* Connections nobody accepted go with the listener. *)
CloseListener ==
  /\ owner = "close_ln" /\ owner' = "close_conns" /\ ln' = "closed"
  /\ sock' = [e \in Ends |-> IF sock[e] = "queued" THEN "closed" ELSE sock[e]]
  /\ UNCHANGED <<calls, listening, handle, exports, closed, lastErr, conns, doomed, acceptor,
                 fin, copies, serve>>

CloseConn(e) ==
  /\ owner = "close_conns" /\ e \in doomed
  /\ doomed' = doomed \ {e} /\ sock' = [sock EXCEPT ![e] = "closed"]
  /\ UNCHANGED <<cpp_vars, exports, ln, closed, lastErr, conns, acceptor, fin, copies, serve>>

ConnsClosed ==
  /\ owner = "close_conns" /\ doomed = {} /\ owner' = "return"
  /\ UNCHANGED <<calls, listening, handle, exports, exporter_vars, acceptor, sock, fin, copies,
                 serve>>

CloseReturn ==
  /\ owner = "return" /\ calls' = calls - 1
  /\ owner' = IF calls = 1 THEN "gone" ELSE "close"
  /\ UNCHANGED <<listening, handle, exports, exporter_vars, acceptor, sock, fin, copies, serve>>

CloseNext ==
  \/ CloseTakesHandle \/ Unexport \/ MarkClosed \/ CloseListener
  \/ (\E e \in Ends : CloseConn(e)) \/ ConnsClosed \/ CloseReturn
-----------------------------------------------------------------------------
(* The peers on the mesh and the local service. *)

Dial(c) ==
  /\ ln = "open" /\ sock[Mesh(c)] = "none"
  /\ sock' = [sock EXCEPT ![Mesh(c)] = "queued"]
  /\ UNCHANGED <<cpp_vars, exports, exporter_vars, acceptor, fin, copies, serve>>

Finishes(e) ==
  /\ sock[e] = "open" /\ e \notin fin /\ fin' = fin \cup {e}
  /\ UNCHANGED <<cpp_vars, exports, exporter_vars, acceptor, sock, copies, serve>>

Terminated == owner = "gone" /\ UNCHANGED vars
-----------------------------------------------------------------------------
Next ==
  \/ StartNext \/ AcceptNext \/ (ln = "open" /\ AcceptFails) \/ CallClose \/ CloseNext
  \/ \E c \in Conns : ServeNext(c) \/ Dial(c)
  \/ \E e \in Ends : CopyEnds(e) \/ CopyWriteFails(e) \/ Finishes(e)
  \/ Terminated

Spec == Init /\ [][Next]_vars

(* Threads and goroutines run, and the dial of the local service comes     *)
(* back with an answer.  Peers and the service owe us nothing.             *)
Fairness ==
  /\ WF_vars(AcceptNext) /\ WF_vars(CloseNext)
  /\ \A c \in Conns : WF_vars(ServeNext(c))
  /\ \A e \in Ends : WF_vars(CopyEnds(e))

FairSpec == Spec /\ Fairness
-----------------------------------------------------------------------------
(* Properties. *)

(* However far Start() came, when Close() is over nothing is published:    *)
(* no listener without a handle to close it by, no handle left behind.     *)
NothingPublished ==
  owner = "gone" => ln # "open" /\ exports = {} /\ handle = 0 /\ ~listening

(* Close() races with connections that are being set up: one it did not    *)
(* find in conns was not tracked yet, and closes itself when it is.        *)
NoneEscapesClose ==
  closed =>
    /\ conns = {}
    /\ \A e \in Ends : sock[e] = "open" =>
         \/ e \in doomed
         \/ serve[e[1]] = (IF e[2] = "mesh" THEN "track_mesh" ELSE "track_local")

(* The end of a request does not end the connection: a served mesh         *)
(* connection is closed when both directions are done, when the service    *)
(* refused it, or by Close().                                              *)
ResponseSurvivesEof ==
  [][\A c \in Conns :
       serve[c] # "none" /\ sock[Mesh(c)] = "open" /\ sock'[Mesh(c)] = "closed" =>
         closed \/ serve[c] = "drop" \/ copies \cap {Mesh(c), Local(c)} = {}]_vars

(* Close() ends every connection, whatever peers and service do, and the   *)
(* goroutines that served them.                                            *)
CloseEndsServing ==
  owner = "mark" ~> /\ acceptor = "exited"
                    /\ \A c \in Conns : serve[c] \in {"none", "done"}
                    /\ \A e \in Ends : sock[e] \in {"none", "closed"}
=============================================================================
