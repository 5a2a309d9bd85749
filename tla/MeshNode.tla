------------------------------ MODULE MeshNode ------------------------------
(***************************************************************************)
(* How a call reaches its mesh node.  MeshLoader loads at most one of the  *)
(* bundled Go shims into the process and latches it; MeshBackendFromSecret *)
(* keeps one MeshBackend per secret; MeshBackend creates the node and      *)
(* brings it up the first time it is used, and passes operations on.       *)
(*                                                                         *)
(* A call is one pragma or table function: tunnel_mesh_activate names a    *)
(* mesh, everything else names a secret.  Calls run on threads of their    *)
(* own.  MeshLoader's mutex and the mutex of each backend are held across  *)
(* the steps they are held across in the code; an exception releases both. *)
(***************************************************************************)
EXTENDS Naturals, FiniteSets

CONSTANTS
  Kinds,              \* the meshes: tailscale and netbird
  Secrets,            \* secrets, with all their options
  KindOf,             \* KindOf[s]: the mesh of secret s
  Lingers,            \* the meshes whose library leaves a server running that did not come
                      \* up in time, until it is closed: tsnet does
  Calls,
  None

ASSUME KindsAssumption ==
  /\ KindOf \in [Secrets -> Kinds] /\ Lingers \subseteq Kinds
  /\ None \notin Kinds \cup Secrets \cup Calls /\ Kinds \cap Secrets = {}
  /\ IsFiniteSet(Calls)

VARIABLES
  compiled,           \* the shims this build bundles
  broken,             \* those of them with a missing symbol or another kind
  active_kind,        \* the latch, active_kind_
  loader,             \* who holds MeshLoader::mutex_
  mapped,             \* the shims, and Go runtimes, mapped into the process
  files,              \* the calls whose extracted file exists
  cache,              \* cache[s]: the backend of secret s, named after the call that made it
  mu, api, node, up,  \* of each backend: who holds mu_, the mesh of api_, node_ > 0, up_
  reg,                \* reg[s]: how many nodes the shim has for secret s
  servers,            \* servers[s]: how many servers of its mesh came up for them
  abandoned,          \* abandoned[s]: and how many did not, run on, and are never closed
  request,            \* request[t]: the mesh or secret call t names
  backend,            \* backend[t]: the backend it works with
  outcome,
  pc

build_vars == <<compiled, broken>>
loader_vars == <<active_kind, mapped, files>>
backend_vars == <<api, node, up, reg, servers, abandoned>>
call_vars == <<request, backend>>
vars == <<build_vars, loader_vars, loader, cache, mu, backend_vars, call_vars, outcome, pc>>

Points == {"idle", "lookup", "ensure_up", "activate", "check", "extract", "load", "resolve",
           "node", "up", "use", "op", "done"}
BackendPoints == {"ensure_up", "node", "up", "use", "op"}

TypeOK ==
  /\ compiled \subseteq Kinds /\ broken \subseteq compiled
  /\ active_kind \in Kinds \cup {None} /\ loader \in Calls \cup {None}
  /\ mapped \subseteq Kinds /\ files \subseteq Calls
  /\ cache \in [Secrets -> Calls \cup {None}]
  /\ mu \in [Calls -> Calls \cup {None}] /\ api \in [Calls -> Kinds \cup {None}]
  /\ node \in [Calls -> BOOLEAN] /\ up \in [Calls -> BOOLEAN]
  /\ {reg, servers, abandoned} \subseteq [Secrets -> 0 .. Cardinality(Calls)]
  /\ request \in [Calls -> Kinds \cup Secrets \cup {None}]
  /\ backend \in [Calls -> Calls \cup {None}]
  /\ outcome \in [Calls -> {"none", "ok", "failed"}]
  /\ pc \in [Calls -> Points]
  /\ \A t \in Calls : pc[t] \in BackendPoints => backend[t] # None

Init ==
  /\ compiled \in SUBSET Kinds /\ broken \in SUBSET compiled
  /\ active_kind = None /\ loader = None /\ mapped = {} /\ files = {}
  /\ cache = [s \in Secrets |-> None] /\ mu = [b \in Calls |-> None]
  /\ api = [b \in Calls |-> None] /\ reg = [s \in Secrets |-> 0]
  /\ servers = [s \in Secrets |-> 0] /\ abandoned = [s \in Secrets |-> 0]
  /\ node = [b \in Calls |-> FALSE] /\ up = [b \in Calls |-> FALSE]
  /\ request = [t \in Calls |-> None] /\ backend = [t \in Calls |-> None]
  /\ outcome = [t \in Calls |-> "none"] /\ pc = [t \in Calls |-> "idle"]
-----------------------------------------------------------------------------
Set(f, x, v) == [f EXCEPT ![x] = v]
Goto(t, from, to) == pc[t] = from /\ pc' = Set(pc, t, to)

Wanted(t) == IF request[t] \in Kinds THEN request[t] ELSE KindOf[request[t]]

(* The call ends and gives back whatever it holds. *)
Return(t, how) ==
  /\ pc' = Set(pc, t, "done") /\ outcome' = Set(outcome, t, how)
  /\ loader' = IF loader = t THEN None ELSE loader
  /\ mu' = [b \in Calls |-> IF mu[b] = t THEN None ELSE mu[b]]
-----------------------------------------------------------------------------
(* A user calls tunnel_mesh_activate, or anything that takes a secret. *)
Call(t, r) ==
  /\ Goto(t, "idle", IF r \in Kinds THEN "activate" ELSE "lookup")
  /\ request' = Set(request, t, r)
  /\ UNCHANGED <<build_vars, loader_vars, loader, cache, mu, backend_vars, backend, outcome>>

(* Mutant: a backend per call, as it was before there was a cache. *)
MeshBackendPerCall(t) ==
  /\ Goto(t, "lookup", "ensure_up")
  /\ cache' = Set(cache, request[t], t) /\ backend' = Set(backend, t, t)
  /\ UNCHANGED <<build_vars, loader_vars, loader, mu, backend_vars, request, outcome>>

(* Mutant: a secret that is not in the cache yet gives no backend. *)
MeshBackendMissed(t) ==
  /\ Goto(t, "lookup", "ensure_up")
  /\ cache' = Set(cache, request[t], t) /\ backend' = Set(backend, t, cache[request[t]])
  /\ UNCHANGED <<build_vars, loader_vars, loader, mu, backend_vars, request, outcome>>

(* The cached backend of the secret, or a new one, under cache_mu. *)
MeshBackendFromSecret(t) ==
  /\ Goto(t, "lookup", "ensure_up")
  /\ LET s == request[t]
         b == IF cache[s] = None THEN t ELSE cache[s]
     IN  cache' = Set(cache, s, b) /\ backend' = Set(backend, t, b)
  /\ UNCHANGED <<build_vars, loader_vars, loader, mu, backend_vars, request, outcome>>
-----------------------------------------------------------------------------
(* MeshBackend::EnsureUp(), all of it under mu_. *)

AlreadyUp(t) ==
  /\ Goto(t, "ensure_up", "use") /\ mu[backend[t]] = None /\ up[backend[t]]
  /\ UNCHANGED <<build_vars, loader_vars, loader, cache, mu, backend_vars, call_vars, outcome>>

LockUp(t) ==
  /\ Goto(t, "ensure_up", "activate") /\ mu[backend[t]] = None /\ ~up[backend[t]]
  /\ mu' = Set(mu, backend[t], t)
  /\ UNCHANGED <<build_vars, loader_vars, loader, cache, backend_vars, call_vars, outcome>>

(* node_new() and the options, unless an earlier call came this far. *)
NodeNew(t) ==
  /\ Goto(t, "node", "up")
  /\ node' = Set(node, backend[t], TRUE)
  /\ reg' = IF node[backend[t]] THEN reg ELSE Set(reg, request[t], reg[request[t]] + 1)
  /\ UNCHANGED <<build_vars, loader_vars, loader, cache, mu, api, up, servers, abandoned,
                 call_vars, outcome>>

(* mesh_up makes a server and it comes up; mu_ is released for the moment. *)
Up(t) ==
  /\ Goto(t, "up", "use")
  /\ up' = Set(up, backend[t], TRUE) /\ mu' = Set(mu, backend[t], None)
  /\ servers' = Set(servers, request[t], servers[request[t]] + 1)
  /\ UNCHANGED <<build_vars, loader_vars, loader, cache, api, node, reg, abandoned, call_vars,
                 outcome>>

(* There is no key or no directory for its state, so that no server is     *)
(* made, or one was made that does not linger.                             *)
UpRefused(t) ==
  /\ pc[t] = "up" /\ Return(t, "failed")
  /\ UNCHANGED <<build_vars, loader_vars, cache, backend_vars, call_vars>>

(* The server does not come up within the shim's 90 seconds.  The node     *)
(* stays for a retry, which makes another server; nobody closes this one.  *)
UpTimesOut(t) ==
  /\ pc[t] = "up" /\ Return(t, "failed") /\ Wanted(t) \in Lingers
  /\ abandoned' = Set(abandoned, request[t], abandoned[request[t]] + 1)
  /\ UNCHANGED <<build_vars, loader_vars, cache, api, node, up, reg, servers, call_vars>>
-----------------------------------------------------------------------------
(* Dial(), Export(), PeersJson() and SelfJson() take mu_ again; so does    *)
(* Unexport(), which has no EnsureUp() but a handle of a node that is up.  *)

(* Mutant: an operation that finds mu_ free brings the node up again first. *)
LockOpStartsOver(t) ==
  /\ Goto(t, "use", "ensure_up") /\ mu[backend[t]] = None
  /\ UNCHANGED <<build_vars, loader_vars, loader, cache, mu, backend_vars, call_vars, outcome>>

LockOp(t) ==
  /\ Goto(t, "use", "op") /\ mu[backend[t]] = None
  /\ mu' = Set(mu, backend[t], t)
  /\ UNCHANGED <<build_vars, loader_vars, loader, cache, backend_vars, call_vars, outcome>>

Operate(t) ==
  /\ pc[t] = "op" /\ \E how \in {"ok", "failed"} : Return(t, how)
  /\ UNCHANGED <<build_vars, loader_vars, cache, backend_vars, call_vars>>
-----------------------------------------------------------------------------
(* MeshLoader::Activate(), all of it under mutex_. *)

LockLoader(t) ==
  /\ Goto(t, "activate", "check") /\ loader = None /\ loader' = t
  /\ UNCHANGED <<build_vars, loader_vars, cache, mu, backend_vars, call_vars, outcome>>

NotCompiledIn(t) ==
  /\ pc[t] = "check" /\ Wanted(t) \notin compiled /\ Return(t, "failed")
  /\ UNCHANGED <<build_vars, loader_vars, cache, backend_vars, call_vars>>

(* api_ is handed out, to the pragma or to the backend. *)
Activated(t) ==
  IF request[t] \in Kinds
  THEN Return(t, "ok") /\ UNCHANGED api
  ELSE /\ pc' = Set(pc, t, "node") /\ loader' = None
       /\ api' = Set(api, backend[t], Wanted(t)) /\ UNCHANGED <<mu, outcome>>

(* Mutant: any latched mesh will do. *)
SameMeshUnchecked(t) ==
  /\ pc[t] = "check" /\ Wanted(t) \in compiled /\ active_kind # None /\ Activated(t)
  /\ UNCHANGED <<build_vars, loader_vars, cache, node, up, reg, servers, abandoned,
                 call_vars>>

SameMesh(t) ==
  /\ pc[t] = "check" /\ Wanted(t) \in compiled /\ active_kind = Wanted(t) /\ Activated(t)
  /\ UNCHANGED <<build_vars, loader_vars, cache, node, up, reg, servers, abandoned,
                 call_vars>>

OtherMesh(t) ==
  /\ pc[t] = "check" /\ Wanted(t) \in compiled /\ active_kind \notin {None, Wanted(t)}
  /\ Return(t, "failed")
  /\ UNCHANGED <<build_vars, loader_vars, cache, backend_vars, call_vars>>

FirstActivation(t) ==
  /\ Goto(t, "check", "extract") /\ Wanted(t) \in compiled /\ active_kind = None
  /\ UNCHANGED <<build_vars, loader_vars, loader, cache, mu, backend_vars, call_vars, outcome>>

ExtractShim(t) ==
  /\ Goto(t, "extract", "load") /\ files' = files \cup {t}
  /\ UNCHANGED <<build_vars, active_kind, mapped, loader, cache, mu, backend_vars, call_vars,
                 outcome>>

ExtractFails(t) ==
  /\ pc[t] = "extract" /\ Return(t, "failed")
  /\ UNCHANGED <<build_vars, loader_vars, cache, backend_vars, call_vars>>

LoadShim(t) ==
  /\ Goto(t, "load", "resolve") /\ mapped' = mapped \cup {Wanted(t)}
  /\ UNCHANGED <<build_vars, active_kind, files, loader, cache, mu, backend_vars, call_vars,
                 outcome>>

(* A library that does not load, a truncated one for instance, is removed. *)
LoadFails(t) ==
  /\ pc[t] = "load" /\ Return(t, "failed") /\ files' = files \ {t}
  /\ UNCHANGED <<build_vars, active_kind, mapped, cache, backend_vars, call_vars>>

(* A symbol is missing, or mesh_kind() reports another mesh: the shim      *)
(* stays mapped, since its Go runtime runs, and its file stays.            *)
ResolveFails(t) ==
  /\ pc[t] = "resolve" /\ Wanted(t) \in broken /\ Return(t, "failed")
  /\ UNCHANGED <<build_vars, loader_vars, cache, backend_vars, call_vars>>

(* The latch is set and the file removed. *)
Latch(t) ==
  /\ pc[t] = "resolve" /\ Wanted(t) \notin broken /\ Activated(t)
  /\ active_kind' = Wanted(t) /\ files' = files \ {t}
  /\ UNCHANGED <<build_vars, mapped, cache, node, up, reg, servers, abandoned,
                 call_vars>>
-----------------------------------------------------------------------------
BackendNext(t) ==
  \/ MeshBackendFromSecret(t) \/ AlreadyUp(t) \/ LockUp(t) \/ NodeNew(t) \/ Up(t)
  \/ UpRefused(t) \/ UpTimesOut(t)
  \/ LockOp(t) \/ Operate(t)

LoaderNext(t) ==
  \/ LockLoader(t) \/ NotCompiledIn(t) \/ SameMesh(t) \/ OtherMesh(t) \/ FirstActivation(t)
  \/ ExtractShim(t) \/ ExtractFails(t) \/ LoadShim(t) \/ LoadFails(t) \/ ResolveFails(t)
  \/ Latch(t)

Terminated == (\A t \in Calls : pc[t] = "done") /\ UNCHANGED vars

Next ==
  \/ \E t \in Calls : \/ BackendNext(t) \/ LoaderNext(t)
                      \/ \E r \in Kinds \cup Secrets : Call(t, r)
  \/ Terminated

Spec == Init /\ [][Next]_vars

(* A thread that can go on does: a free mutex is taken, and operations of  *)
(* the shim end, since it bounds mesh_up by 90 and mesh_dial by 30 seconds. *)
FairSpec == Spec /\ \A t \in Calls : WF_vars(BackendNext(t) \/ LoaderNext(t))
-----------------------------------------------------------------------------
(* Properties. *)

(* Single-mesh latch: whatever backend has an API, and whatever call came  *)
(* back with success, is of the one latched mesh, and its shim is mapped.  *)
(* Two Go runtimes never share the process, unless a shim of the build is  *)
(* unusable: that one is found out only when it is mapped.                 *)
OneMesh ==
  /\ \A b \in Calls : api[b] # None => api[b] = active_kind
  /\ \A t \in Calls : outcome[t] = "ok" => Wanted(t) = active_kind
  /\ active_kind # None => active_kind \in mapped \cap compiled
  /\ Cardinality(mapped \ broken) <= 1

(* One node per secret for the life of the process, however many calls     *)
(* use it at once and however many attempts to bring it up fail: one node  *)
(* of the shim and, servers of failed attempts aside, one of the mesh.     *)
OneNodePerSecret == \A s \in Secrets : reg[s] <= 1 /\ servers[s] <= 1

(* What mesh_backend.cpp says of it: "ONE node per secret, for the life of *)
(* the process."  A server that did not come up in time is not closed, and *)
(* the retry starts another one next to it.                                *)
OneServerPerSecret == \A s \in Secrets : servers[s] + abandoned[s] <= 1

(* Two mutexes, one taken under the other: no call waits for ever. *)
CallsReturn == \A t \in Calls : pc[t] # "idle" ~> pc[t] = "done"
=============================================================================
