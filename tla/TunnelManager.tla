---------------------------- MODULE TunnelManager ----------------------------
(***************************************************************************)
(* TunnelManager: the process-wide registry behind every pragma.           *)
(*                                                                         *)
(* Each DuckDB connection is a client thread that runs one operation at a  *)
(* time.  The map is guarded by tunnels_mutex, ids come from an atomic     *)
(* counter outside it, and the slow parts of an operation (a handle's      *)
(* Start and Close, which dial hosts and join threads) run with no lock    *)
(* held.  A client whose pc names a critical section and who does not own  *)
(* tunnels_mutex is waiting for it.                                        *)
(*                                                                         *)
(* A handle is what a TunnelHandle pointer refers to: an SSH import or     *)
(* export, a mesh import or export.  Only its contract is kept here: it    *)
(* comes up or fails, may die on its own, and Close tears it down and      *)
(* takes as long as it likes.                                              *)
(***************************************************************************)
EXTENDS Naturals

CONSTANTS
  Clients,            \* DuckDB connections calling the pragmas concurrently
  Handles,            \* the tunnel objects that may ever be constructed
  MaxTunnels,         \* bound on the ids handed out (int64_t in the code)
  NoClient, NoHandle

ASSUME ClientsAssumption == NoClient \notin Clients
ASSUME HandlesAssumption == NoHandle \notin Handles
ASSUME BoundAssumption == MaxTunnels \in Nat

Ids == 1 .. MaxTunnels

VARIABLES
  tunnels,            \* the map: id -> handle, NoHandle where absent
  next_tunnel_id,     \* std::atomic<int64_t>
  tunnels_mutex,      \* the client owning the lock, or NoClient
  handle,             \* handle[h]: the state of the tunnel object
  pc,                 \* pc[c]: what client c is doing
  op,                 \* op[c]: the Create* overload it is in
  arg,                \* arg[c]: the id it works on
  held,               \* held[c]: the shared_ptrs on its stack
  result,             \* result[c]: what its last operation returned
  listed,             \* listed[c]: the ids its last listing returned
  given               \* given[h]: history, the id h was constructed under

client_vars == <<pc, op, arg, held, result, listed>>
vars == <<tunnels, next_tunnel_id, tunnels_mutex, handle, given, client_vars>>

Creates == {"CreateTunnel", "CreateMeshTunnel", "CreateMeshExport", "CreateSshExport"}
Critical == {"insert", "port", "close", "close_all", "cleanup", "list", "lookup"}
Steps == Critical \cup {"idle", "start", "unwind", "teardown"}
HandleStates == {"unborn", "starting", "up", "dead", "closing", "closed"}
Results == {"none", "rejected", "threw", "id", "port", "no port", "not found",
            "closed", "rows", "contended", "active", "inactive"}

TypeOK ==
  /\ tunnels \in [Ids -> Handles \cup {NoHandle}]
  /\ next_tunnel_id \in 1 .. MaxTunnels + 1
  /\ tunnels_mutex \in Clients \cup {NoClient}
  /\ handle \in [Handles -> HandleStates]
  /\ pc \in [Clients -> Steps]
  /\ op \in [Clients -> Creates \cup {"none"}]
  /\ arg \in [Clients -> Ids \cup {0}]
  /\ held \in [Clients -> SUBSET Handles]
  /\ result \in [Clients -> Results]
  /\ listed \in [Clients -> SUBSET Ids]
  /\ given \in [Handles -> Ids \cup {0}]

Registered(h) == \E id \in Ids : tunnels[id] = h
RegisteredHandles == {h \in Handles : Registered(h)}
RegisteredIds == {id \in Ids : tunnels[id] # NoHandle}

Init ==
  /\ tunnels = [id \in Ids |-> NoHandle]
  /\ next_tunnel_id = 1
  /\ tunnels_mutex = NoClient
  /\ handle = [h \in Handles |-> "unborn"]
  /\ pc = [c \in Clients |-> "idle"]
  /\ op = [c \in Clients |-> "none"]
  /\ arg = [c \in Clients |-> 0]
  /\ held = [c \in Clients |-> {}]
  /\ result = [c \in Clients |-> "none"]
  /\ listed = [c \in Clients |-> {}]
  /\ given = [h \in Handles |-> 0]
-----------------------------------------------------------------------------
(* Client bookkeeping shared by the operations. *)

Goto(c, step) == pc' = [pc EXCEPT ![c] = step]

Begin(c, step, id) ==
  /\ pc[c] = "idle"
  /\ Goto(c, step)
  /\ arg' = [arg EXCEPT ![c] = id]
  /\ result' = [result EXCEPT ![c] = "none"]
  /\ listed' = [listed EXCEPT ![c] = {}]

Return(c, r) ==
  /\ Goto(c, "idle")
  /\ op' = [op EXCEPT ![c] = "none"]
  /\ arg' = [arg EXCEPT ![c] = 0]
  /\ result' = [result EXCEPT ![c] = r]

Inside(c, step) == pc[c] = step /\ tunnels_mutex = c
Unlock == tunnels_mutex' = NoClient

(* std::lock_guard<std::mutex> lock(tunnels_mutex), and a try_to_lock that *)
(* succeeds.                                                               *)
Acquire(c) ==
  /\ pc[c] \in Critical
  /\ tunnels_mutex = NoClient
  /\ tunnels_mutex' = c
  /\ UNCHANGED <<tunnels, next_tunnel_id, handle, given, client_vars>>
-----------------------------------------------------------------------------
(* Create*(): id, construct, Start() with no lock held, insert. *)

(* Mutant: the counter is read but not incremented. *)
GenerateTunnelIdStuck ==
  /\ next_tunnel_id <= MaxTunnels
  /\ UNCHANGED next_tunnel_id

(* return next_tunnel_id++ *)
GenerateTunnelId ==
  /\ next_tunnel_id <= MaxTunnels
  /\ next_tunnel_id' = next_tunnel_id + 1

(* CreateTunnel refuses auth_method 'agent' before it takes an id. *)
RejectAgent(c) ==
  /\ pc[c] = "idle"
  /\ result' = [result EXCEPT ![c] = "rejected"]
  /\ listed' = [listed EXCEPT ![c] = {}]
  /\ UNCHANGED <<tunnels, next_tunnel_id, tunnels_mutex, handle, given, pc, op, arg, held>>

Create(c, create, h) ==
  /\ handle[h] = "unborn"
  /\ Begin(c, "start", next_tunnel_id)
  /\ GenerateTunnelId
  /\ op' = [op EXCEPT ![c] = create]
  /\ held' = [held EXCEPT ![c] = {h}]
  /\ handle' = [handle EXCEPT ![h] = "starting"]
  /\ given' = [given EXCEPT ![h] = next_tunnel_id]
  /\ UNCHANGED <<tunnels, tunnels_mutex>>

Started(c, h) ==
  /\ pc[c] = "start" /\ h \in held[c]
  /\ handle' = [handle EXCEPT ![h] = "up"]
  /\ Goto(c, "insert")
  /\ UNCHANGED <<tunnels, next_tunnel_id, tunnels_mutex, given, op, arg, held, result, listed>>

(* Start threw: the handle is closed while the exception unwinds the stack. *)
StartThrew(c, h) ==
  /\ pc[c] = "start" /\ h \in held[c]
  /\ handle' = [handle EXCEPT ![h] = "closing"]
  /\ Goto(c, "unwind")
  /\ UNCHANGED <<tunnels, next_tunnel_id, tunnels_mutex, given, op, arg, held, result, listed>>

Unwound(c, h) ==
  /\ pc[c] = "unwind" /\ h \in held[c]
  /\ handle' = [handle EXCEPT ![h] = "closed"]
  /\ held' = [held EXCEPT ![c] = {}]
  /\ Return(c, "threw")
  /\ UNCHANGED <<tunnels, next_tunnel_id, tunnels_mutex, given, listed>>

(* tunnels[tunnel_id] = handle.  An SSH export goes on to ask for its port. *)
Insert(c, h) ==
  /\ Inside(c, "insert") /\ h \in held[c]
  /\ tunnels' = [tunnels EXCEPT ![arg[c]] = h]
  /\ held' = [held EXCEPT ![c] = {}]
  /\ Unlock
  /\ IF op[c] = "CreateSshExport"
     THEN Goto(c, "port") /\ UNCHANGED <<op, arg, result>>
     ELSE Return(c, "id")
  /\ UNCHANGED <<next_tunnel_id, handle, given, listed>>

(* Mutant: asks for the newest id instead of the client's own. *)
GetTunnelBoundPortOfNewest(c) ==
  /\ Inside(c, "port")
  /\ Unlock
  /\ Return(c, IF tunnels[next_tunnel_id - 1] = NoHandle THEN "no port" ELSE "port")
  /\ UNCHANGED <<tunnels, next_tunnel_id, handle, given, held, listed>>

(* GetTunnelBoundPort, called by the tunnel_export pragma after the create. *)
GetTunnelBoundPort(c) ==
  /\ Inside(c, "port")
  /\ Unlock
  /\ Return(c, IF tunnels[arg[c]] = NoHandle THEN "no port" ELSE "port")
  /\ UNCHANGED <<tunnels, next_tunnel_id, handle, given, held, listed>>
-----------------------------------------------------------------------------
(* CloseTunnel, CloseAllTunnels (also the destructor) and                  *)
(* CleanupInactiveTunnels: erase under the lock, Close() outside it.       *)

Call(c, step, id) ==
  /\ Begin(c, step, id)
  /\ UNCHANGED <<tunnels, next_tunnel_id, tunnels_mutex, handle, given, op, held>>

CloseTunnel(c, id) == Call(c, "close", id)
CloseAllTunnels(c) == Call(c, "close_all", 0)
CleanupInactiveTunnels(c) == Call(c, "cleanup", 0)

CloseMissing(c) ==
  /\ Inside(c, "close")
  /\ tunnels[arg[c]] = NoHandle
  /\ Unlock
  /\ Return(c, "not found")
  /\ UNCHANGED <<tunnels, next_tunnel_id, handle, given, held, listed>>

(* Mutant: copies the handles and forgets to erase them. *)
TakeOutWithoutErase(c, S) ==
  /\ held' = [held EXCEPT ![c] = {tunnels[id] : id \in S}]
  /\ Unlock
  /\ Goto(c, "teardown")
  /\ UNCHANGED <<tunnels, next_tunnel_id, handle, given, op, arg, result, listed>>

(* Mutant: keeps tunnels_mutex across the teardown. *)
TakeOutLocked(c, S) ==
  /\ held' = [held EXCEPT ![c] = {tunnels[id] : id \in S}]
  /\ tunnels' = [id \in Ids |-> IF id \in S THEN NoHandle ELSE tunnels[id]]
  /\ Goto(c, "teardown")
  /\ UNCHANGED <<tunnels_mutex, next_tunnel_id, handle, given, op, arg, result, listed>>

(* Move the handles registered under S from the map to the client's stack. *)
TakeOut(c, S) ==
  /\ held' = [held EXCEPT ![c] = {tunnels[id] : id \in S}]
  /\ tunnels' = [id \in Ids |-> IF id \in S THEN NoHandle ELSE tunnels[id]]
  /\ Unlock
  /\ Goto(c, "teardown")
  /\ UNCHANGED <<next_tunnel_id, handle, given, op, arg, result, listed>>

CloseFound(c) ==
  /\ Inside(c, "close")
  /\ tunnels[arg[c]] # NoHandle
  /\ TakeOut(c, {arg[c]})

CloseAllSnapshot(c) ==
  /\ Inside(c, "close_all")
  /\ TakeOut(c, RegisteredIds)

(* !IsActive(): the handle stopped doing its job. *)
CollectInactive(c) ==
  /\ Inside(c, "cleanup")
  /\ TakeOut(c, {id \in RegisteredIds : handle[tunnels[id]] # "up"})

(* The handles are closed one after the other. *)
BeginClose(c, h) ==
  /\ pc[c] = "teardown" /\ h \in held[c]
  /\ \A g \in held[c] : handle[g] # "closing"
  /\ handle' = [handle EXCEPT ![h] = "closing"]
  /\ UNCHANGED <<tunnels, next_tunnel_id, tunnels_mutex, given, client_vars>>

EndClose(c, h) ==
  /\ pc[c] = "teardown" /\ h \in held[c]
  /\ handle[h] = "closing"
  /\ handle' = [handle EXCEPT ![h] = "closed"]
  /\ held' = [held EXCEPT ![c] = @ \ {h}]
  /\ UNCHANGED <<tunnels, next_tunnel_id, tunnels_mutex, given, pc, op, arg, result, listed>>

(* Mutant: answers before the last Close() returned. *)
TornDownEarly(c) ==
  /\ pc[c] = "teardown"
  /\ held' = [held EXCEPT ![c] = {}]
  /\ Return(c, "closed")
  /\ UNCHANGED <<tunnels, next_tunnel_id, tunnels_mutex, handle, given, listed>>

TornDown(c) ==
  /\ pc[c] = "teardown" /\ held[c] = {}
  /\ Return(c, "closed")
  /\ UNCHANGED <<tunnels, next_tunnel_id, tunnels_mutex, handle, given, held, listed>>
-----------------------------------------------------------------------------
(* Reading the registry. *)

(* tunnels(): ListTunnels and ListTunnelsWithDetails. *)
ListTunnels(c) == Call(c, "list", 0)

ListContended(c) ==
  /\ pc[c] = "list" /\ tunnels_mutex \notin {NoClient, c}
  /\ Return(c, "contended")
  /\ UNCHANGED <<tunnels, next_tunnel_id, tunnels_mutex, handle, given, held, listed>>

ListRows(c) ==
  /\ Inside(c, "list")
  /\ listed' = [listed EXCEPT ![c] = RegisteredIds]
  /\ Unlock
  /\ Return(c, "rows")
  /\ UNCHANGED <<tunnels, next_tunnel_id, handle, given, held>>

(* IsTunnelActive, GetTunnelStatus, GetTunnelError. *)
Lookup(c, id) == Call(c, "lookup", id)

LookupAnswer(c) ==
  /\ Inside(c, "lookup")
  /\ LET h == tunnels[arg[c]]
     IN  Return(c, IF h = NoHandle THEN "not found"
                   ELSE IF handle[h] = "up" THEN "active" ELSE "inactive")
  /\ Unlock
  /\ UNCHANGED <<tunnels, next_tunnel_id, handle, given, held, listed>>

(* A session drops or a listener fails: IsActive() becomes false. *)
Die(h) ==
  /\ handle[h] = "up"
  /\ handle' = [handle EXCEPT ![h] = "dead"]
  /\ UNCHANGED <<tunnels, next_tunnel_id, tunnels_mutex, given, client_vars>>
-----------------------------------------------------------------------------
CreateStep(c) ==
  \/ \E h \in Handles, create \in Creates : Create(c, create, h)
  \/ \E h \in Handles : Started(c, h) \/ StartThrew(c, h) \/ Unwound(c, h) \/ Insert(c, h)
  \/ RejectAgent(c)
  \/ GetTunnelBoundPort(c)

CloseStep(c) ==
  \/ \E id \in Ids : CloseTunnel(c, id)
  \/ CloseAllTunnels(c) \/ CleanupInactiveTunnels(c)
  \/ CloseMissing(c) \/ CloseFound(c) \/ CloseAllSnapshot(c) \/ CollectInactive(c)
  \/ \E h \in Handles : BeginClose(c, h) \/ EndClose(c, h)
  \/ TornDown(c)

ReadStep(c) ==
  \/ ListTunnels(c) \/ ListContended(c) \/ ListRows(c)
  \/ \E id \in Ids : Lookup(c, id)
  \/ LookupAnswer(c)

Next ==
  \/ \E c \in Clients : Acquire(c) \/ CreateStep(c) \/ CloseStep(c) \/ ReadStep(c)
  \/ \E h \in Handles : Die(h)

Spec == Init /\ [][Next]_vars

(* A thread inside a critical section keeps running.                       *)
(* Nothing is assumed of Start() and Close(): a handle may hang in either. *)
CriticalBody(c) ==
  \/ \E h \in Handles : Insert(c, h)
  \/ GetTunnelBoundPort(c) \/ LookupAnswer(c) \/ ListRows(c)
  \/ CloseMissing(c) \/ CloseFound(c) \/ CloseAllSnapshot(c) \/ CollectInactive(c)

Fairness == \A c \in Clients : WF_vars(CriticalBody(c))

FairSpec == Spec /\ Fairness
-----------------------------------------------------------------------------
(* Properties. *)

Holds(c, h) == h \in held[c]
Live == {"starting", "up", "dead", "closing"}

(* No tunnel is lost: an object that may still own threads is reachable    *)
(* from the map or from the stack of the client creating or closing it.    *)
NoLeak ==
  \A h \in Handles :
    handle[h] \in Live => Registered(h) \/ \E c \in Clients : Holds(c, h)

(* Exactly one place refers to a tunnel at any time, so no two clients     *)
(* ever run Close() on one object and none closes a registered one.        *)
SoleOwner ==
  \A h \in Handles :
    /\ \A i, j \in Ids : tunnels[i] = h /\ tunnels[j] = h => i = j
    /\ \A c, d \in Clients : Holds(c, h) /\ Holds(d, h) => c = d
    /\ \A c \in Clients : Holds(c, h) => ~Registered(h)

(* Whoever holds tunnels_mutex reads attributes of registered handles, a   *)
(* call that waits for the handle's own mutex; a handle being torn down    *)
(* may keep that mutex while it joins threads, so none is registered.      *)
TeardownOutsideRegistry ==
  \A h \in Handles : Registered(h) => handle[h] \in {"up", "dead"}

(* tunnel_export reports remote_port 0 only for a tunnel that somebody     *)
(* else closed between the insert and the port lookup.                     *)
PortUnlessClosed ==
  [][\A c \in Clients : pc[c] = "port" /\ pc'[c] = "idle" /\ result'[c] = "no port" =>
       \A h \in Handles : given[h] = arg[c] =>
         handle[h] \in {"closing", "closed"} \/ \E d \in Clients : d # c /\ Holds(d, h)]_vars

(* tunnel_close answers 'closed' only when the teardown is complete, and   *)
(* 'not found' only for an id no open tunnel has.                          *)
CloseAnswersTruthfully ==
  [][\A c \in Clients : pc[c] # "idle" /\ pc'[c] = "idle" =>
       /\ result'[c] = "closed" /\ arg[c] # 0 =>
            \A h \in Handles : given[h] = arg[c] => handle[h] = "closed"
       /\ result'[c] = "not found" =>
            \A h \in Handles : given[h] = arg[c] => ~Registered(h)]_vars

(* The lock is always given back, even while some Close() hangs for ever.  *)
MutexReleased ==
  \A c \in Clients : tunnels_mutex = c ~> tunnels_mutex # c

(* Every step is a step of the abstract registry. *)
Life(h) ==
  IF handle[h] = "unborn" THEN "free"
  ELSE IF Registered(h) THEN "open"
  ELSE IF handle[h] = "closed" THEN "closed"
  ELSE IF handle[h] # "closing" /\ \E c \in Clients : Holds(c, h) /\ pc[c] \in {"start", "insert"}
       THEN "reserved" ELSE "closing"

Registry == INSTANCE TunnelRegistry
  WITH Tunnels <- Handles, Names <- Ids, life <- [h \in Handles |-> Life(h)], name <- given

RegistrySpec == Registry!Spec
=============================================================================
