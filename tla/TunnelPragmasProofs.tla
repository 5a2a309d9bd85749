------------------------- MODULE TunnelPragmasProofs -------------------------
(***************************************************************************)
(* Proofs about TunnelPragmas, for any connections, secrets, requests and  *)
(* number of LOADs.  The argument for the credentials: both lookups of a   *)
(* statement read one snapshot, which Return alone takes away, and a node  *)
(* in the cache has the options that its key is made of.  For the ports:   *)
(* what a path checks early, Start relies on much later, with req as the   *)
(* only link.  For the ids: a registry draws each one once.                *)
(***************************************************************************)
EXTENDS TunnelPragmas, FiniteSets, FiniteSetTheorems, TLAPS

PcType == pc \in [Connections -> {"idle", "route", "backend", "auth", "create", "start", "answer"}]
CallType ==
  /\ req \in [Connections -> Requests \cup {NoRequest}]
  /\ seen = [c \in Connections |-> seen[c]] /\ used = [c \in Connections |-> used[c]]
SecretType ==
  /\ secrets = [n \in Names |-> secrets[n]]
  /\ \A n \in Names : secrets[n].type \in {"none", "tunnel", "ssh_tunnel", "foreign"}
ManagerType ==
  /\ registry \in 0 .. MaxLoads /\ next_id \in 1 .. MaxId + 1
  /\ drawn \in [Connections -> [in : 0 .. MaxLoads, id : 0 .. MaxId]]
  /\ started \in Nat
  /\ \A e \in told : e \in [id : 1 .. MaxId, serial : 1 .. started]
  /\ \A t \in tunnels : t.id \in 1 .. next_id - 1 /\ t.serial \in 1 .. started

TypeParts == PcType /\ CallType /\ SecretType /\ ManagerType

(* A node in the cache has the options its key is made of.                 *)
CacheInv ==
  \A k \in DOMAIN cache : cache[k] = k[2] /\ k[2].via \in {"tailscale", "netbird"}

(* What a statement has been checked for when it comes to a point.         *)
PathInv ==
  \A c \in Connections :
    /\ pc[c] # "idle" => registry > 0 /\ req[c] \in Requests
    /\ pc[c] \in {"route", "auth", "create", "start"} => req[c].what \in {"import", "export"}
    /\ pc[c] # "idle" /\ req[c].what = "export" => ExportAccepts(req[c])
    /\ req[c].what = "export" /\ (pc[c] = "backend" \/ used[c].via \in {"tailscale", "netbird"}) =>
         WithDefaults(req[c]).remote_port # 0
    /\ pc[c] = "auth" => SecretMeshKind(c) = "none"

(* Credentials are there from the lookup to the end of the statement.      *)
UsedInv ==
  \A c \in Connections :
    /\ used[c].via \in {"none", "ssh", "tailscale", "netbird"}
    /\ pc[c] \in {"create", "start", "answer"} <=> used[c].via # "none"
    /\ used[c].via = "none" => used[c] = NoCredentials

(* Ids a connection has drawn from the registry of now are nobody else's.  *)
DrawnHere(c) == pc[c] = "start" /\ drawn[c].in = registry

DrawInv ==
  /\ \A c \in Connections : pc[c] = "start" => drawn[c].in <= registry /\ drawn[c].id # 0
  /\ \A c \in Connections : DrawnHere(c) =>
       /\ drawn[c].id < next_id
       /\ \A t \in tunnels : t.id # drawn[c].id
       /\ \A d \in Connections : DrawnHere(d) /\ drawn[d].id = drawn[c].id => c = d
  /\ \A t, u \in tunnels : t.id = u.id => t = u

(* Every start uses up an id of its own.                                   *)
Starting == {c \in Connections : pc[c] = "start"}

StartedInv ==
  /\ IsFiniteSet(Starting)
  /\ registry = 0 => started = 0 /\ Starting = {}
  /\ registry > 0 => started + Cardinality(Starting) + MaxId <= registry * MaxId + next_id - 1

IInv ==
  /\ TypeParts /\ CacheInv /\ PathInv /\ UsedInv /\ DrawInv /\ StartedInv
  /\ RunsOnItsSecret /\ PortsAsAsked

USE DEF secret_vars, manager_vars, call_vars, ghost_vars, Goto
-----------------------------------------------------------------------------
(* A mesh node is made with the options of the secret that was looked up,  *)
(* and a name without a tunnel secret makes none.                          *)
LEMMA MeshHonours ==
  ASSUME NEW c, NEW name, NEW r, NEW mesh,
         mesh = MeshOptions(LookupTunnelSecret(c, name).options), mesh.via # "none"
  PROVE  /\ name \in Names /\ mesh.via \in {"tailscale", "netbird"}
         /\ Honours(r, seen[c][name], mesh)
<1> DEFINE secret == LookupTunnelSecret(c, name)
<1>1. Lower(Get(secret.options, "backend")) \in {"tailscale", "netbird"}
  BY DEF MeshOptions, ParseMeshKind
<1>2. secret # NoSecret
  BY <1>1 DEF NoSecret, Get, Lower
<1>3. name \in Names /\ IsTunnelSecret(seen[c][name]) /\ secret = seen[c][name]
  BY <1>2 DEF LookupTunnelSecret
<1>4. mesh.via = Lower(Get(secret.options, "backend"))
  BY <1>1 DEF MeshOptions, ParseMeshKind
<1>5. \A k \in {"auth_key", "setup_key", "hostname", "tags", "groups", "control_url", "state_dir"} :
        mesh.with[k] = Get(secret.options, k)
  BY DEF MeshOptions
<1>6. /\ mesh.with.mgmt_url = Get(secret.options, "management_url")
      /\ mesh.with.ephemeral = (Get(secret.options, "ephemeral") \in {"true", "1"})
  BY DEF MeshOptions
<1> QED BY <1>1, <1>3, <1>4, <1>5, <1>6 DEF Honours

(* The SSH path takes the options of the secret it looked up; routing has  *)
(* looked at its backend if the statement named it.                        *)
LEMMA SshHonours ==
  ASSUME NEW c, NEW name, NEW r, NEW auth,
         LookupTunnelSecret(c, name) # NoSecret,
         auth = ConvertTunnelSecretToAuthParams(LookupTunnelSecret(c, name).options),
         r.secret # "" /\ HasMesh =>
           ParseMeshKind(Get(LookupTunnelSecret(c, name).options, "backend")) = "none"
  PROVE  name \in Names /\ Honours(r, seen[c][name], [via |-> "ssh", with |-> auth])
<1> DEFINE secret == LookupTunnelSecret(c, name)
<1>1. name \in Names /\ IsTunnelSecret(seen[c][name]) /\ secret = seen[c][name]
  BY DEF LookupTunnelSecret
<1>2. HasMesh /\ Lower(Get(secret.options, "backend")) \in {"tailscale", "netbird"} => r.secret = ""
  BY DEF ParseMeshKind
<1>3. \A k \in {"ssh_host", "ssh_user", "password", "private_key_path", "passphrase"} :
        auth[k] = Get(secret.options, k)
  <2>1. /\ auth.ssh_host = Get(secret.options, "ssh_host")
        /\ auth.ssh_user = Get(secret.options, "ssh_user")
        /\ auth.password = Get(secret.options, "password")
        /\ auth.private_key_path = Get(secret.options, "private_key_path")
        /\ auth.passphrase = Get(secret.options, "passphrase")
    BY Zenon DEF ConvertTunnelSecretToAuthParams
  <2> QED BY <2>1
<1>4. \A k \in {"ssh_port", "auth_method"} \cap DOMAIN secret.options :
        auth[k] = Get(secret.options, k)
  <2>1. "ssh_port" \in DOMAIN secret.options => auth.ssh_port = Get(secret.options, "ssh_port")
    BY Zenon DEF ConvertTunnelSecretToAuthParams, Get
  <2>2. "auth_method" \in DOMAIN secret.options =>
          auth.auth_method = Get(secret.options, "auth_method")
    BY Zenon DEF ConvertTunnelSecretToAuthParams, AuthMethod, Get
  <2> QED BY <2>1, <2>2
<1> QED BY <1>1, <1>2, <1>3, <1>4 DEF Honours

(* Port numbers, and what htons makes of an integer.                       *)
LEMMA PortNumbers ==
  /\ Ports \subseteq Int
  /\ \A p \in Int : p \in Ports <=> 1 <= p /\ p <= 65535
<1>1. Ports \subseteq Int
  BY SMT DEF Ports
<1>2. ASSUME NEW p \in Int PROVE p \in Ports <=> 1 <= p /\ p <= 65535
  BY SMT DEF Ports
<1> QED BY <1>1, <1>2, SMT

LEMMA SixteenBits ==
  ASSUME NEW n \in Int
  PROVE  /\ n % 65536 \in Int /\ 0 <= n % 65536 /\ n % 65536 <= 65535
         /\ 1 <= n /\ n <= 65535 => n % 65536 = n
BY SMT

(* An import that could start listens on a port, the one it asked for if   *)
(* that is one, and over SSH it is.                                        *)
LEMMA ImportPort ==
  ASSUME NEW r \in Requests, NEW credentials, CanStart(WithDefaults(r), credentials),
         r.what = "import"
  PROVE  /\ BoundPort(WithDefaults(r)) \in Ports
         /\ BoundPort(WithDefaults(r)) = r.local_port % 65536
         /\ r.local_port \in Ports => BoundPort(WithDefaults(r)) = r.local_port
         /\ credentials.via = "ssh" => r.local_port \in Ports /\ r.remote_port \in Ports
<1>1. r.local_port \in Int
  BY PragmaAssumption DEF IsRequest
<1>2. WithDefaults(r) = r
  BY DEF WithDefaults
<1>3. BoundPort(r) = r.local_port % 65536
  BY SMT DEF BoundPort
<1>6. CanStart(r, credentials)
  BY <1>2
<1>7. r.local_port \in Ports => r.local_port % 65536 = r.local_port
  BY <1>1, SixteenBits, PortNumbers, SMT
<1>4. CASE credentials.via # "ssh"
  <2>1. BoundPort(r) # 0
    BY <1>4, <1>6, Zenon DEF CanStart
  <2>2. r.local_port % 65536 \in Ports
    BY <1>1, <1>3, <2>1, SixteenBits, PortNumbers, SMT
  <2> QED BY <1>2, <1>3, <1>4, <1>7, <2>2
<1>5. CASE credentials.via = "ssh"
  <2>1. r.remote_port \in Ports /\ r.local_port \in Ports
    BY <1>5, <1>6, Zenon DEF CanStart, ValidateConnectionParameters
  <2>2. r.local_port % 65536 = r.local_port
    BY <1>1, <2>1, SixteenBits, PortNumbers, SMT
  <2> QED BY <1>2, <1>3, <1>7, <2>1, <2>2
<1> QED BY <1>4, <1>5

(* An export that was accepted listens on the port it asked for.           *)
LEMMA ExportPort ==
  ASSUME NEW r \in Requests, r.what = "export", ExportAccepts(r)
  PROVE  /\ r.local_port \in Ports /\ BoundPort(WithDefaults(r)) \in Ports
         /\ ~ r.given => BoundPort(WithDefaults(r)) = r.local_port
         /\ r.given /\ r.remote_port = 0 =>
              BoundPort(WithDefaults(r)) = ServerPort /\ WithDefaults(r).remote_port = 0
         /\ r.given /\ r.remote_port # 0 => BoundPort(WithDefaults(r)) = r.remote_port
<1>1. r.local_port \in Ports /\ r.remote_port \in Ports \cup {0} /\ ServerPort \in Ports
  BY PragmaAssumption DEF ExportAccepts
<1>2. \A p \in Ports : p # 0
  BY PortNumbers, SMT
<1>3. CASE ~ r.given
  <2>1. WithDefaults(r) = [r EXCEPT !.remote_port = r.local_port]
    BY <1>3 DEF WithDefaults
  <2>2. WithDefaults(r).remote_port = r.local_port /\ WithDefaults(r).what = "export"
    BY <2>1, PragmaAssumption DEF IsRequest
  <2> QED BY <1>1, <1>2, <1>3, <2>2 DEF BoundPort
<1>4. CASE r.given
  BY <1>1, <1>2, <1>4 DEF WithDefaults, BoundPort
<1> QED BY <1>3, <1>4
-----------------------------------------------------------------------------
(* Starting statements are counted: ids drawn bound what was started.      *)
LEMMA Bounds == MaxId \in Nat /\ MaxLoads \in Nat
BY PragmaAssumption

LEMMA SameStarting ==
  ASSUME IInv, UNCHANGED <<registry, next_id, started>>, Starting' \subseteq Starting
  PROVE  StartedInv'
<1>1. IsFiniteSet(Starting') /\ Cardinality(Starting') <= Cardinality(Starting)
      /\ Cardinality(Starting') \in Nat /\ Cardinality(Starting) \in Nat
  BY FS_Subset, FS_CardinalityType DEF IInv, StartedInv
<1>2. registry * MaxId \in Int /\ MaxId \in Nat
  BY Bounds DEF IInv, TypeParts, ManagerType
<1> QED BY <1>1, <1>2 DEF IInv, TypeParts, ManagerType, StartedInv

(* A secret is created, replaced or dropped. *)
LEMMA SecretsKeep ==
  ASSUME IInv, NEW n \in Names, DropSecret(n) \/ \E d \in Definitions[n] : CreateSecret(n, d)
  PROVE  IInv'
<1>1. UNCHANGED <<cache, manager_vars, call_vars, ghost_vars>>
  BY DEF DropSecret, CreateSecret
<1>2. SecretType'
  <2>1. CASE DropSecret(n)
    BY <2>1 DEF DropSecret, IInv, TypeParts, SecretType, NoSecret
  <2>2. ASSUME NEW d \in Definitions[n], CreateSecret(n, d)
        PROVE  SecretType'
    <3>1. d.type \in {"none", "tunnel", "ssh_tunnel", "foreign"}
      BY PragmaAssumption
    <3>2. PICK options : secrets' = [secrets EXCEPT ![n] = [type |-> d.type, options |-> options]]
      BY <2>2 DEF CreateSecret
    <3> QED BY <3>1, <3>2 DEF IInv, TypeParts, SecretType
  <2> QED BY <2>1, <2>2
<1>3. PcType' /\ CallType' /\ ManagerType' /\ CacheInv' /\ UsedInv' /\ DrawInv'
  BY <1>1 DEF IInv, TypeParts, PcType, CallType, ManagerType, CacheInv, UsedInv, DrawInv, DrawnHere
<1>4. PathInv'
  BY <1>1 DEF IInv, PathInv, SecretMeshKind, LookupTunnelSecret
<1>5. StartedInv'
  BY <1>1, SameStarting DEF Starting
<1>6. RunsOnItsSecret' /\ PortsAsAsked'
  BY <1>1 DEF IInv, RunsOnItsSecret, PortsAsAsked
<1> QED BY <1>2, <1>3, <1>4, <1>5, <1>6 DEF IInv, TypeParts

(* Tunnels are closed by id or all at once. *)
LEMMA CloseKeeps ==
  ASSUME IInv, CloseAllTunnels \/ \E id \in 1 .. MaxId : CloseTunnel(id)
  PROVE  IInv'
<1>1. tunnels' \subseteq tunnels /\ UNCHANGED <<secret_vars, registry, next_id, call_vars, ghost_vars>>
  BY DEF CloseAllTunnels, CloseTunnel
<1>2. TypeParts' /\ CacheInv' /\ UsedInv' /\ DrawInv'
  BY <1>1 DEF IInv, TypeParts, PcType, CallType, SecretType, ManagerType, CacheInv, UsedInv,
     DrawInv, DrawnHere
<1>3. PathInv'
  BY <1>1 DEF IInv, PathInv, SecretMeshKind, LookupTunnelSecret
<1>4. StartedInv'
  BY <1>1, SameStarting DEF Starting
<1>5. RunsOnItsSecret' /\ PortsAsAsked'
  BY <1>1 DEF IInv, RunsOnItsSecret, PortsAsAsked
<1> QED BY <1>2, <1>3, <1>4, <1>5 DEF IInv

(* Another LOAD: whatever was drawn was drawn elsewhere.                   *)
LEMMA LoadKeeps ==
  ASSUME IInv, RegisterTunnelFunctions
  PROVE  IInv'
<1>1. /\ registry' = registry + 1 /\ registry < MaxLoads /\ next_id' = 1 /\ tunnels' = {}
      /\ UNCHANGED <<secret_vars, call_vars, ghost_vars>>
  BY DEF RegisterTunnelFunctions
<1>2. registry \in Nat /\ MaxLoads \in Nat /\ MaxId \in Nat
  BY Bounds DEF IInv, TypeParts, ManagerType
<1>3. TypeParts' /\ CacheInv' /\ UsedInv'
  BY <1>1, <1>2 DEF IInv, TypeParts, PcType, CallType, SecretType, ManagerType, CacheInv, UsedInv
<1>4. DrawInv'
  BY <1>1, <1>2 DEF IInv, TypeParts, ManagerType, DrawInv, DrawnHere
<1>5. PathInv'
  <2>1. registry' > 0
    BY <1>1, <1>2
  <2> QED BY <1>1, <2>1, Zenon DEF IInv, PathInv, SecretMeshKind, LookupTunnelSecret
<1>6. StartedInv'
  <2>1. Starting' = Starting /\ IsFiniteSet(Starting) /\ Cardinality(Starting) \in Nat
    BY <1>1, FS_CardinalityType DEF Starting, IInv, StartedInv
  <2>2. registry' * MaxId = registry * MaxId + MaxId /\ registry * MaxId \in Int
    BY <1>1, <1>2
  <2>3. CASE registry = 0
    BY <1>1, <1>2, <2>1, <2>2, <2>3, FS_EmptySet DEF IInv, StartedInv
  <2>4. CASE registry > 0
    BY <1>1, <1>2, <2>1, <2>2, <2>4 DEF IInv, TypeParts, ManagerType, StartedInv
  <2> QED BY <1>2, <2>3, <2>4
<1>7. RunsOnItsSecret' /\ PortsAsAsked'
  BY <1>1 DEF IInv, RunsOnItsSecret, PortsAsAsked
<1> QED BY <1>3, <1>4, <1>5, <1>6, <1>7 DEF IInv

(* A statement is over, with rows or with an exception. *)
LEMMA ReturnKeeps ==
  ASSUME IInv, NEW c \in Connections, Return(c), UNCHANGED <<secret_vars, manager_vars, ghost_vars>>
  PROVE  IInv'
<1> USE DEF Return
<1>1. PcType' /\ SecretType' /\ CacheInv'
  BY DEF IInv, TypeParts, PcType, SecretType, CacheInv
<1>2. CallType'
  BY DEF IInv, TypeParts, CallType
<1>3. ManagerType'
  BY Bounds DEF IInv, TypeParts, ManagerType, NotDrawn
<1>4. PathInv'
  BY DEF IInv, TypeParts, PcType, CallType, PathInv, SecretMeshKind, LookupTunnelSecret, NoRequest
<1>5. UsedInv'
  BY DEF IInv, TypeParts, PcType, CallType, UsedInv, NoCredentials
<1>6. DrawInv'
  BY DEF IInv, TypeParts, PcType, ManagerType, DrawInv, DrawnHere
<1>7. StartedInv'
  BY SameStarting DEF Starting, IInv, TypeParts, PcType
<1>8. RunsOnItsSecret' /\ PortsAsAsked'
  BY DEF IInv, TypeParts, CallType, RunsOnItsSecret, PortsAsAsked
<1> QED BY <1>1, <1>2, <1>3, <1>4, <1>5, <1>6, <1>7, <1>8 DEF IInv, TypeParts

(* A statement begins, its arguments checked. *)
LEMMA StatementKeeps ==
  ASSUME IInv, NEW c \in Connections, NEW r \in Requests, Statement(c, r)
  PROVE  IInv'
<1> USE DEF Statement
<1>1. PcType' /\ SecretType' /\ CacheInv'
  BY DEF IInv, TypeParts, PcType, SecretType, CacheInv
<1>2. CallType'
  BY DEF IInv, TypeParts, CallType
<1>3. ManagerType'
  BY DEF IInv, TypeParts, ManagerType
<1>4. PathInv'
  <2>1. r.what \in {"import", "export", "self"}
    BY PragmaAssumption DEF IsRequest
  <2>2. used[c].via = "none"
    BY DEF IInv, UsedInv
  <2> QED BY <2>1, <2>2 DEF IInv, TypeParts, PcType, CallType, PathInv, SecretMeshKind,
             LookupTunnelSecret
<1>5. UsedInv'
  BY DEF IInv, TypeParts, PcType, UsedInv
<1>6. DrawInv'
  BY DEF IInv, TypeParts, PcType, DrawInv, DrawnHere
<1>7. StartedInv'
  BY SameStarting DEF Starting, IInv, TypeParts, PcType
<1>8. RunsOnItsSecret' /\ PortsAsAsked'
  BY DEF IInv, TypeParts, CallType, UsedInv, RunsOnItsSecret, PortsAsAsked
<1> QED BY <1>1, <1>2, <1>3, <1>4, <1>5, <1>6, <1>7, <1>8 DEF IInv, TypeParts

(* A step within a statement that finds nothing out about ids.             *)
LEMMA WithinStatement ==
  ASSUME IInv, NEW c \in Connections, pc[c] # "start",
         NEW to \in {"backend", "auth", "create", "answer"}, Goto(c, to),
         UNCHANGED <<secrets, manager_vars, req, seen, drawn, ghost_vars>>
  PROVE  PcType' /\ SecretType' /\ ManagerType' /\ DrawInv' /\ StartedInv' /\ PortsAsAsked'
<1>1. PcType' /\ SecretType' /\ ManagerType' /\ PortsAsAsked'
  BY DEF IInv, TypeParts, PcType, SecretType, ManagerType, PortsAsAsked
<1>2. DrawInv'
  BY DEF IInv, TypeParts, PcType, DrawInv, DrawnHere
<1>3. StartedInv'
  BY SameStarting DEF Starting, IInv, TypeParts, PcType
<1> QED BY <1>1, <1>2, <1>3

(* Routing, where it goes on. *)
LEMMA RouteKeeps ==
  ASSUME IInv, NEW c \in Connections, Route(c)
  PROVE  IInv'
<1>1. CASE Return(c)
  BY <1>1, ReturnKeeps DEF Route
<1>2. CASE ~ Return(c)
  <2>1. /\ pc[c] = "route" /\ UNCHANGED <<secret_vars, manager_vars, req, seen, used, drawn, ghost_vars>>
        /\ \/ Goto(c, "auth") /\ SecretMeshKind(c) = "none"
           \/ /\ Goto(c, "backend")
              /\ req[c].what = "export" => WithDefaults(req[c]).remote_port # 0
    <3>1. WithDefaults(req[c]).what = req[c].what
      <4>1. IsRequest(req[c])
        BY PragmaAssumption DEF IInv, PathInv, Route
      <4>2. ASSUME NEW r, IsRequest(r) PROVE WithDefaults(r).what = r.what
        BY <4>2 DEF WithDefaults, IsRequest
      <4> QED BY <4>1, <4>2
    <3> QED BY <1>2, <3>1 DEF Route
  <2>2. PcType' /\ SecretType' /\ ManagerType' /\ DrawInv' /\ StartedInv' /\ PortsAsAsked'
    BY <2>1, WithinStatement
  <2>3. CallType' /\ CacheInv' /\ RunsOnItsSecret'
    BY <2>1 DEF IInv, TypeParts, CallType, CacheInv, RunsOnItsSecret
  <2>4. PathInv'
    BY <2>1 DEF IInv, TypeParts, PcType, PathInv, SecretMeshKind, LookupTunnelSecret
  <2>5. UsedInv'
    BY <2>1 DEF IInv, TypeParts, PcType, UsedInv
  <2> QED BY <2>2, <2>3, <2>4, <2>5 DEF IInv, TypeParts
<1> QED BY <1>1, <1>2

(* A statement gets its credentials. *)
LEMMA CredentialsKeep ==
  ASSUME IInv, NEW c \in Connections, pc[c] \in {"auth", "backend"},
         Goto(c, IF req[c].what = "self" THEN "answer" ELSE "create"),
         UNCHANGED <<secrets, manager_vars, req, seen, drawn, ghost_vars>>, CacheInv',
         used' = [used EXCEPT ![c] = used'[c]],
         SecretName(req[c]) \in Names, Honours(req[c], seen[c][SecretName(req[c])], used'[c]),
         pc[c] = "auth" => used'[c].via = "ssh",
         pc[c] = "backend" => used'[c].via \in {"tailscale", "netbird"}
  PROVE  IInv'
<1>1. PcType' /\ SecretType' /\ ManagerType' /\ DrawInv' /\ StartedInv' /\ PortsAsAsked'
  BY WithinStatement
<1>2. CallType'
  BY DEF IInv, TypeParts, CallType
<1>3. \A d \in Connections : d # c => used'[d] = used[d]
  BY DEF IInv, TypeParts, CallType
<1>4. req[c].what \in {"import", "export", "self"} /\ req[c] \in Requests
  BY PragmaAssumption DEF IInv, PathInv, IsRequest
<1>5. UsedInv'
  BY <1>3 DEF IInv, TypeParts, PcType, UsedInv
<1>6. PathInv'
  BY <1>3, <1>4 DEF IInv, TypeParts, PcType, PathInv, SecretMeshKind, LookupTunnelSecret
<1>7. RunsOnItsSecret'
  BY <1>3 DEF IInv, RunsOnItsSecret
<1> QED BY <1>1, <1>2, <1>5, <1>6, <1>7 DEF IInv, TypeParts

(* The node of a mesh secret, from the cache or new. *)
LEMMA BackendKeeps ==
  ASSUME IInv, NEW c \in Connections, MeshBackendFromSecret(c)
  PROVE  IInv'
<1> DEFINE mesh == MeshOptions(LookupTunnelSecret(c, req[c].secret).options)
           key == CacheKey(req[c].secret, mesh)
<1>1. CASE req[c].secret = "" \/ mesh.via = "none"
  <2>1. Return(c) /\ UNCHANGED <<secret_vars, manager_vars, ghost_vars>>
    BY <1>1 DEF MeshBackendFromSecret
  <2> QED BY <2>1, ReturnKeeps
<1>2. CASE ~ (req[c].secret = "" \/ mesh.via = "none")
  <2> HIDE DEF mesh
  <2>1. /\ cache' = [k \in DOMAIN cache \cup {key} |-> IF k \in DOMAIN cache THEN cache[k] ELSE mesh]
        /\ used' = [used EXCEPT ![c] = cache'[key]]
        /\ Goto(c, IF req[c].what = "self" THEN "answer" ELSE "create") /\ pc[c] = "backend"
        /\ UNCHANGED <<secrets, manager_vars, req, seen, drawn, ghost_vars>>
    BY <1>2 DEF MeshBackendFromSecret, mesh
  <2>2. /\ SecretName(req[c]) = req[c].secret /\ req[c].secret \in Names
        /\ mesh.via \in {"tailscale", "netbird"}
        /\ Honours(req[c], seen[c][req[c].secret], mesh)
    BY <1>2, MeshHonours DEF SecretName, mesh
  <2>3. key[2] = mesh
    BY DEF CacheKey
  <2>4. CacheInv' /\ cache'[key] = mesh
    BY <2>1, <2>2, <2>3 DEF IInv, CacheInv
  <2> HIDE DEF key
  <2>5. used' = [used EXCEPT ![c] = used'[c]] /\ used'[c] = mesh
    BY <2>1, <2>4 DEF IInv, TypeParts, CallType
  <2>6. /\ SecretName(req[c]) \in Names
        /\ Honours(req[c], seen[c][SecretName(req[c])], used'[c])
        /\ used'[c].via \in {"tailscale", "netbird"}
    BY <2>2, <2>5
  <2> QED BY <2>1, <2>4, <2>5, <2>6, CredentialsKeep
<1> QED BY <1>1, <1>2

(* The credentials of an SSH secret. *)
LEMMA AuthKeeps ==
  ASSUME IInv, NEW c \in Connections, GetTunnelAuthParamsFromContext(c)
  PROVE  IInv'
<1> DEFINE secret == LookupTunnelSecret(c, SecretName(req[c]))
           auth == ConvertTunnelSecretToAuthParams(secret.options)
<1>1. CASE secret = NoSecret
  <2>1. Return(c) /\ UNCHANGED <<secret_vars, manager_vars, ghost_vars>>
    BY <1>1 DEF GetTunnelAuthParamsFromContext
  <2> QED BY <2>1, ReturnKeeps
<1>2. CASE secret # NoSecret
  <2>1. /\ pc[c] = "auth" /\ Goto(c, "create")
        /\ used' = [used EXCEPT ![c] = [via |-> "ssh", with |-> auth]]
        /\ UNCHANGED <<secrets, manager_vars, req, seen, drawn, ghost_vars>> /\ cache' = cache
    BY <1>2 DEF GetTunnelAuthParamsFromContext
  <2>2. req[c].secret # "" /\ HasMesh => ParseMeshKind(Get(secret.options, "backend")) = "none"
    BY <2>1 DEF IInv, PathInv, SecretMeshKind, SecretName
  <2>3. /\ SecretName(req[c]) \in Names
        /\ Honours(req[c], seen[c][SecretName(req[c])], [via |-> "ssh", with |-> auth])
    BY <1>2, <2>2, SshHonours
  <2>4. CacheInv' /\ req[c].what # "self"
    BY <2>1 DEF IInv, CacheInv, PathInv
  <2> HIDE DEF secret, auth
  <2>5. used' = [used EXCEPT ![c] = used'[c]] /\ used'[c] = [via |-> "ssh", with |-> auth]
    BY <2>1 DEF IInv, TypeParts, CallType
  <2>6. /\ Honours(req[c], seen[c][SecretName(req[c])], used'[c]) /\ used'[c].via = "ssh"
        /\ Goto(c, IF req[c].what = "self" THEN "answer" ELSE "create")
    BY <2>1, <2>3, <2>4, <2>5
  <2> QED BY <2>1, <2>3, <2>4, <2>5, <2>6, CredentialsKeep
<1> QED BY <1>1, <1>2

(* CreateTunnel draws an id of the registry of the moment. *)
LEMMA CreateKeeps ==
  ASSUME IInv, NEW c \in Connections, CreateTunnel(c)
  PROVE  IInv'
<1>1. CASE Return(c) /\ UNCHANGED manager_vars
  BY <1>1, ReturnKeeps DEF CreateTunnel
<1>2. CASE ~ (Return(c) /\ UNCHANGED manager_vars)
  <2>1. /\ pc[c] = "create" /\ Goto(c, "start") /\ next_id <= MaxId /\ next_id' = next_id + 1
        /\ drawn' = [drawn EXCEPT ![c] = [in |-> registry, id |-> next_id]]
        /\ UNCHANGED <<secret_vars, registry, tunnels, req, seen, used, ghost_vars>>
    BY <1>2 DEF CreateTunnel
  <2>2. next_id \in Nat /\ next_id > 0 /\ MaxId \in Nat /\ registry \in Nat
    BY Bounds DEF IInv, TypeParts, ManagerType
  <2>3. PcType' /\ CallType' /\ SecretType' /\ CacheInv' /\ RunsOnItsSecret' /\ PortsAsAsked'
    BY <2>1 DEF IInv, TypeParts, PcType, CallType, SecretType, CacheInv, RunsOnItsSecret,
       PortsAsAsked
  <2>4. /\ drawn' \in [Connections -> [in : 0 .. MaxLoads, id : 0 .. MaxId]]
        /\ drawn'[c].in = registry /\ drawn'[c].id = next_id
        /\ \A d \in Connections : d # c => drawn'[d] = drawn[d]
    BY <2>1, <2>2, Bounds DEF IInv, TypeParts, ManagerType
  <2>5. ManagerType'
    BY <2>1, <2>2, <2>4 DEF IInv, TypeParts, ManagerType
  <2>6. PathInv'
    BY <2>1 DEF IInv, TypeParts, PcType, PathInv, SecretMeshKind, LookupTunnelSecret
  <2>7. UsedInv'
    BY <2>1 DEF IInv, TypeParts, PcType, UsedInv
  <2>8. DrawInv'
    <3>1. \A t \in tunnels : t.id \in Int /\ t.id < next_id
      BY <2>2 DEF IInv, TypeParts, ManagerType
    <3>2. \A d \in Connections : drawn[d].id \in Nat /\ drawn[d].in \in Nat
      BY Bounds DEF IInv, TypeParts, ManagerType
    <3>3. \A d \in Connections : pc'[d] = "start" <=> (d = c \/ pc[d] = "start")
      BY <2>1 DEF IInv, TypeParts, PcType
    <3>4. \A d \in Connections : DrawnHere(d)' <=> (d = c \/ DrawnHere(d))
      BY <2>1, <2>4, <3>3 DEF DrawnHere
    <3> HIDE DEF DrawnHere
    <3> QED BY <2>1, <2>2, <2>4, <3>1, <3>2, <3>3, <3>4 DEF IInv, DrawInv
  <2>9. StartedInv'
    <3>1. Starting' = Starting \cup {c} /\ c \notin Starting
      BY <2>1 DEF Starting, IInv, TypeParts, PcType
    <3>2. /\ IsFiniteSet(Starting') /\ Cardinality(Starting') = Cardinality(Starting) + 1
          /\ Cardinality(Starting) \in Nat
      BY <3>1, FS_AddElement, FS_CardinalityType DEF IInv, StartedInv
    <3>3. registry > 0 /\ registry * MaxId \in Int /\ started \in Nat
      BY <2>1, <2>2 DEF IInv, PathInv, TypeParts, ManagerType
    <3> QED BY <2>1, <2>2, <3>2, <3>3 DEF IInv, StartedInv
  <2> QED BY <2>3, <2>5, <2>6, <2>7, <2>8, <2>9 DEF IInv, TypeParts
<1> QED BY <1>1, <1>2

(* A tunnel starts; in the registry of its id, or in none. *)
LEMMA StartKeeps ==
  ASSUME IInv, NEW c \in Connections, Start(c)
  PROVE  IInv'
<1>1. /\ pc[c] = "start" /\ CanStart(WithDefaults(req[c]), used[c]) /\ Return(c)
      /\ started' = started + 1 /\ UNCHANGED <<secret_vars, registry, next_id>>
      /\ told' = told \cup {[id |-> drawn[c].id, serial |-> started + 1]}
      /\ tunnels' = IF drawn[c].in = registry THEN tunnels \cup {Tunnel(c)} ELSE tunnels
  BY DEF Start
<1>2. started \in Nat /\ next_id \in Nat /\ MaxId \in Nat /\ registry \in Nat
  BY Bounds DEF IInv, TypeParts, ManagerType
<1>3. drawn[c].id \in 1 .. MaxId /\ (drawn[c].in = registry => drawn[c].id < next_id)
  BY <1>1, Bounds DEF IInv, TypeParts, ManagerType, DrawInv, DrawnHere
<1>4. /\ pc' = [pc EXCEPT ![c] = "idle"] /\ req' = [req EXCEPT ![c] = NoRequest]
      /\ seen' = [seen EXCEPT ![c] = Nothing] /\ used' = [used EXCEPT ![c] = NoCredentials]
      /\ drawn' = [drawn EXCEPT ![c] = NotDrawn]
  BY <1>1 DEF Return
<1>5. PcType' /\ SecretType' /\ CacheInv'
  BY <1>1, <1>4 DEF IInv, TypeParts, PcType, SecretType, CacheInv
<1>6. CallType'
  BY <1>4 DEF IInv, TypeParts, CallType
<1>7. Tunnel(c).id = drawn[c].id /\ Tunnel(c).serial = started + 1 /\ Tunnel(c).request = req[c]
      /\ Tunnel(c).secret = seen[c][SecretName(req[c])] /\ Tunnel(c).used = used[c]
      /\ Tunnel(c).port = BoundPort(WithDefaults(req[c]))
  BY DEF Tunnel
<1>8. ManagerType'
  <2>1. drawn' \in [Connections -> [in : 0 .. MaxLoads, id : 0 .. MaxId]]
    BY <1>4, Bounds DEF IInv, TypeParts, ManagerType, NotDrawn
  <2>2. \A e \in told' : e \in [id : 1 .. MaxId, serial : 1 .. started + 1]
    <3>1. \A e \in told : e \in [id : 1 .. MaxId, serial : 1 .. started + 1]
      BY <1>2 DEF IInv, TypeParts, ManagerType
    <3>2. [id |-> drawn[c].id, serial |-> started + 1] \in [id : 1 .. MaxId, serial : 1 .. started + 1]
      BY <1>2, <1>3
    <3> QED BY <1>1, <3>1, <3>2
  <2>3. \A t \in tunnels' : t.id \in 1 .. next_id - 1 /\ t.serial \in 1 .. started + 1
    <3>1. \A t \in tunnels : t.id \in 1 .. next_id - 1 /\ t.serial \in 1 .. started + 1
      BY <1>2 DEF IInv, TypeParts, ManagerType
    <3> QED BY <1>1, <1>2, <1>3, <1>7, <3>1
  <2> QED BY <1>1, <1>2, <2>1, <2>2, <2>3 DEF IInv, TypeParts, ManagerType
<1>9. PathInv'
  BY <1>1, <1>4 DEF IInv, TypeParts, PcType, CallType, PathInv, SecretMeshKind, LookupTunnelSecret,
     NoRequest
<1>10. UsedInv'
  BY <1>4 DEF IInv, TypeParts, PcType, CallType, UsedInv, NoCredentials
<1>11. DrawInv'
  <2>1. \A d \in Connections : pc'[d] = "start" <=> (d # c /\ pc[d] = "start")
    BY <1>4 DEF IInv, TypeParts, PcType
  <2>2. \A d \in Connections : d # c => drawn'[d] = drawn[d]
    BY <1>4 DEF IInv, TypeParts, ManagerType
  <2>3. \A d \in Connections : DrawnHere(d)' <=> (d # c /\ DrawnHere(d))
    BY <1>1, <2>1, <2>2 DEF DrawnHere
  <2>4. drawn[c].in = registry <=> DrawnHere(c)
    BY <1>1 DEF DrawnHere
  <2> QED BY <1>1, <1>7, <2>1, <2>2, <2>3, <2>4 DEF IInv, DrawInv
<1>12. StartedInv'
  <2>1. Starting' = Starting \ {c} /\ c \in Starting
    BY <1>1, <1>4 DEF Starting, IInv, TypeParts, PcType
  <2>2. /\ IsFiniteSet(Starting') /\ Cardinality(Starting') = Cardinality(Starting) - 1
        /\ Cardinality(Starting) \in Nat
    BY <2>1, FS_RemoveElement, FS_CardinalityType DEF IInv, StartedInv
  <2>3. registry > 0 /\ registry * MaxId \in Int
    BY <1>1, <1>2 DEF IInv, PathInv
  <2> QED BY <1>1, <1>2, <2>2, <2>3 DEF IInv, StartedInv
<1>13. RunsOnItsSecret'
  <2>1. used[c] # NoCredentials
    BY <1>1 DEF IInv, UsedInv, NoCredentials
  <2>2. Honours(Tunnel(c).request, Tunnel(c).secret, Tunnel(c).used)
    BY <1>7, <2>1 DEF IInv, RunsOnItsSecret
  <2> QED BY <1>1, <1>4, <2>2 DEF IInv, TypeParts, CallType, RunsOnItsSecret
<1>14. PortsAsAsked'
  <2> DEFINE r == req[c]
             t == Tunnel(c)
  <2>1. r \in Requests /\ r.what \in {"import", "export"} /\ (r.what = "export" => ExportAccepts(r))
    BY <1>1 DEF IInv, PathInv
  <2>2. used[c].via # "ssh" => used[c].via \in {"tailscale", "netbird"}
    BY <1>1 DEF IInv, UsedInv
  <2>3. r.what = "export" /\ used[c].via # "ssh" => WithDefaults(r).remote_port # 0
    BY <2>2 DEF IInv, PathInv
  <2>4. r.given \in BOOLEAN
    BY <2>1, PragmaAssumption DEF IsRequest
  <2>5. CASE r.what = "import"
    BY <1>1, <1>7, <2>1, <2>5, ImportPort DEF IInv, PortsAsAsked
  <2>6. CASE r.what = "export"
    BY <1>1, <1>7, <2>1, <2>3, <2>4, <2>6, ExportPort DEF IInv, PortsAsAsked
  <2> QED BY <2>1, <2>5, <2>6
<1> QED BY <1>5, <1>6, <1>8, <1>9, <1>10, <1>11, <1>12, <1>13, <1>14 DEF IInv, TypeParts
-----------------------------------------------------------------------------
LEMMA InitIInv == Init => IInv
<1> SUFFICES ASSUME Init PROVE IInv
  OBVIOUS
<1> USE DEF Init
<1>1. PcType /\ CallType /\ SecretType
  BY DEF PcType, CallType, SecretType, Nothing, NoSecret
<1>2. ManagerType
  BY Bounds DEF ManagerType, NotDrawn
<1>3. CacheInv /\ PathInv /\ DrawInv
  <2>1. DOMAIN cache = {}
    BY SMT
  <2>2. \A c \in Connections : pc[c] = "idle" /\ req[c].what = "self"
    BY DEF NoRequest
  <2>3. PathInv
    BY <2>2, Zenon DEF PathInv
  <2>4. DrawInv
    BY <2>2 DEF DrawInv, DrawnHere
  <2> QED BY <2>1, <2>3, <2>4 DEF CacheInv
<1>4. UsedInv /\ RunsOnItsSecret /\ PortsAsAsked
  BY DEF UsedInv, NoCredentials, RunsOnItsSecret, PortsAsAsked
<1>5. StartedInv
  <2>1. Starting = {}
    BY DEF Starting
  <2> QED BY <2>1, FS_EmptySet DEF StartedInv
<1> QED BY <1>1, <1>2, <1>3, <1>4, <1>5 DEF IInv, TypeParts

LEMMA NextIInv == IInv /\ [Next]_vars => IInv'
<1> SUFFICES ASSUME IInv, [Next]_vars PROVE IInv'
  OBVIOUS
<1>1. CASE RegisterTunnelFunctions \/ CloseAllTunnels \/ \E id \in 1 .. MaxId : CloseTunnel(id)
  BY <1>1, LoadKeeps, CloseKeeps
<1>2. CASE \E n \in Names : DropSecret(n) \/ \E d \in Definitions[n] : CreateSecret(n, d)
  BY <1>2, SecretsKeep
<1>3. CASE \E c \in Connections, r \in Requests : Statement(c, r)
  BY <1>3, StatementKeeps
<1>4. ASSUME NEW c \in Connections,
             \/ Route(c) \/ MeshBackendFromSecret(c) \/ GetTunnelAuthParamsFromContext(c)
             \/ CreateTunnel(c) \/ Start(c)
      PROVE  IInv'
  BY <1>4, RouteKeeps, BackendKeeps, AuthKeeps, CreateKeeps, StartKeeps
<1>5. ASSUME NEW c \in Connections, TunnelSelfBind(c) \/ StartFails(c)
      PROVE  IInv'
  BY <1>5, ReturnKeeps DEF TunnelSelfBind, StartFails
<1>6. CASE UNCHANGED vars
  <2>1. UNCHANGED <<secret_vars, manager_vars, call_vars, ghost_vars>>
    BY <1>6 DEF vars
  <2>2. TypeParts' /\ CacheInv' /\ UsedInv' /\ DrawInv'
    BY <2>1 DEF IInv, TypeParts, PcType, CallType, SecretType, ManagerType, CacheInv, UsedInv,
       DrawInv, DrawnHere
  <2>3. PathInv'
    BY <2>1 DEF IInv, PathInv, SecretMeshKind, LookupTunnelSecret
  <2>5. RunsOnItsSecret' /\ PortsAsAsked'
    BY <2>1 DEF IInv, RunsOnItsSecret, PortsAsAsked
  <2>4. StartedInv'
    BY <2>1, SameStarting DEF Starting
  <2> QED BY <2>2, <2>3, <2>4, <2>5 DEF IInv
<1> QED BY <1>1, <1>2, <1>3, <1>4, <1>5, <1>6 DEF Next

(* The inductive invariant holds in every reachable state. *)
THEOREM Invariance == Spec => []IInv
BY InitIInv, NextIInv, PTL DEF Spec
-----------------------------------------------------------------------------
(* No more tunnels are started than registries have ids.                   *)
LEMMA StartedBound == IInv => started \in 0 .. MaxId * MaxLoads
<1> SUFFICES ASSUME IInv PROVE started \in 0 .. MaxId * MaxLoads
  OBVIOUS
<1>1. /\ MaxId \in Nat /\ MaxLoads \in Nat /\ started \in Nat
      /\ registry \in 0 .. MaxLoads /\ next_id \in 1 .. MaxId + 1
  BY Bounds DEF IInv, TypeParts, ManagerType
<1>2. Cardinality(Starting) \in Nat
  BY FS_CardinalityType DEF IInv, StartedInv
<1>3. \A a, b, m \in Nat : a <= b => a * m <= m * b /\ a * m \in Nat /\ m * b \in Nat
  BY SMT
<1>4. registry * MaxId <= MaxId * MaxLoads /\ registry * MaxId \in Nat /\ MaxId * MaxLoads \in Nat
  BY <1>1, <1>3
<1>5. started <= MaxId * MaxLoads
  BY <1>1, <1>2, <1>4 DEF IInv, StartedInv
<1> QED BY <1>1, <1>4, <1>5

(* Every variable keeps its type: what a connection's statement, secrets,  *)
(* nodes and registries look like, the ids of tunnels are distinct, and    *)
(* no more tunnels start than the LOADs have ids for.                      *)
THEOREM TypeCorrect == Spec => []TypeOK
<1>1. IInv => TypeOK
  <2> SUFFICES ASSUME IInv PROVE TypeOK
    OBVIOUS
  <2>1. \A k \in DOMAIN cache : cache[k].via \in {"tailscale", "netbird"}
    BY DEF IInv, CacheInv
  <2>2. /\ \A c \in Connections : req[c] \in Requests \cup {NoRequest}
        /\ \A c \in Connections : used[c].via \in {"none", "ssh", "tailscale", "netbird"}
    BY DEF IInv, TypeParts, CallType, UsedInv
  <2>3. told \subseteq [id : 1 .. MaxId, serial : 1 .. started]
    BY DEF IInv, TypeParts, ManagerType
  <2>4. \A t, u \in tunnels : t.id = u.id => t = u
    BY DEF IInv, DrawInv
  <2> QED BY <2>1, <2>2, <2>3, <2>4, StartedBound
          DEF IInv, TypeParts, PcType, SecretType, ManagerType, TypeOK
<1> QED BY <1>1, Invariance, PTL

(* Whatever secrets are created, replaced and dropped meanwhile, a         *)
(* statement of tunnel_import, tunnel_export or tunnel_self goes on with   *)
(* the transport and the credentials of the tunnel secret it named, and    *)
(* so does its tunnel, for as long as it lives.                            *)
THEOREM SecretsResolveByName == Spec => []RunsOnItsSecret
<1>1. IInv => RunsOnItsSecret
  BY DEF IInv
<1> QED BY <1>1, Invariance, PTL

(* Whichever of the paths of tunnel_import and tunnel_export checked its   *)
(* arguments, a tunnel over SSH and every export listens on the port its   *)
(* statement asked for.  A mesh import, whose local_port nobody checks,    *)
(* listens on local_port modulo 65536, which is local_port only when that  *)
(* is a port.                                                              *)
THEOREM ListensWhereAsked == Spec => []PortsAsAsked
<1>1. IInv => PortsAsAsked
  BY DEF IInv
<1> QED BY <1>1, Invariance, PTL
-----------------------------------------------------------------------------
(* As long as there has been one LOAD, every id in use was drawn from its  *)
(* registry, and an id that was returned is not drawn again.               *)
ToldInv ==
  /\ \A c \in Connections : pc[c] = "start" => drawn[c].in = registry
  /\ \A e \in told : e.id < next_id /\ \A c \in Connections : pc[c] = "start" => drawn[c].id # e.id

OneLoadInv == registry <= 1 => ToldInv /\ IdsNameOneTunnel

(* A step that draws and starts nothing. *)
LEMMA IdsKeep ==
  ASSUME OneLoadInv, UNCHANGED <<registry, next_id, told>>, tunnels' \subseteq tunnels,
         \A c \in Connections : pc'[c] = "start" => pc[c] = "start" /\ drawn'[c] = drawn[c]
  PROVE  OneLoadInv'
BY DEF OneLoadInv, ToldInv, IdsNameOneTunnel

LEMMA OneLoadReturn ==
  ASSUME IInv, OneLoadInv, NEW c \in Connections, Return(c),
         UNCHANGED <<registry, next_id, told>>, tunnels' = tunnels
  PROVE  OneLoadInv'
<1>1. \A d \in Connections : pc'[d] = "start" => pc[d] = "start" /\ drawn'[d] = drawn[d]
  BY DEF Return, IInv, TypeParts, PcType, ManagerType
<1> QED BY <1>1, IdsKeep

(* The first LOAD: nothing was returned or drawn before it. *)
LEMMA OneLoadLoad ==
  ASSUME IInv, OneLoadInv, RegisterTunnelFunctions
  PROVE  OneLoadInv'
<1>1. /\ registry' = registry + 1 /\ tunnels' = {} /\ UNCHANGED <<call_vars, ghost_vars>>
  BY DEF RegisterTunnelFunctions
<1>2. SUFFICES ASSUME registry' <= 1 PROVE ToldInv' /\ IdsNameOneTunnel'
  BY DEF OneLoadInv
<1>3. registry = 0
  BY <1>1, <1>2 DEF IInv, TypeParts, ManagerType
<1>4. told = {} /\ \A c \in Connections : pc[c] # "start"
  BY <1>3 DEF IInv, TypeParts, ManagerType, StartedInv, PathInv
<1> QED BY <1>1, <1>4 DEF ToldInv, IdsNameOneTunnel

(* CreateTunnel draws an id above every one that was returned. *)
LEMMA OneLoadCreate ==
  ASSUME IInv, OneLoadInv, NEW c \in Connections, CreateTunnel(c)
  PROVE  OneLoadInv'
<1>1. CASE Return(c) /\ UNCHANGED manager_vars
  BY <1>1, OneLoadReturn DEF CreateTunnel
<1>2. CASE ~ (Return(c) /\ UNCHANGED manager_vars)
  <2>1. /\ Goto(c, "start") /\ next_id' = next_id + 1
        /\ drawn' = [drawn EXCEPT ![c] = [in |-> registry, id |-> next_id]]
        /\ UNCHANGED <<registry, tunnels, ghost_vars>>
    BY <1>2 DEF CreateTunnel
  <2>2. /\ drawn'[c].in = registry /\ drawn'[c].id = next_id
        /\ \A d \in Connections : d # c => drawn'[d] = drawn[d]
        /\ \A d \in Connections : pc'[d] = "start" <=> (d = c \/ pc[d] = "start")
    BY <2>1 DEF IInv, TypeParts, PcType, ManagerType
  <2>3. next_id \in Nat /\ \A e \in told : e.id \in Nat
    BY Bounds DEF IInv, TypeParts, ManagerType
  <2> QED BY <2>1, <2>2, <2>3 DEF OneLoadInv, ToldInv, IdsNameOneTunnel
<1> QED BY <1>1, <1>2

(* Start returns an id that was drawn once, and returned never. *)
LEMMA OneLoadStart ==
  ASSUME IInv, OneLoadInv, NEW c \in Connections, Start(c)
  PROVE  OneLoadInv'
<1>1. /\ pc[c] = "start" /\ Return(c) /\ UNCHANGED <<registry, next_id>>
      /\ told' = told \cup {[id |-> drawn[c].id, serial |-> started + 1]}
      /\ tunnels' = IF drawn[c].in = registry THEN tunnels \cup {Tunnel(c)} ELSE tunnels
  BY DEF Start
<1>2. SUFFICES ASSUME registry' <= 1 PROVE ToldInv' /\ IdsNameOneTunnel'
  BY DEF OneLoadInv
<1>3. ToldInv /\ IdsNameOneTunnel
  BY <1>1, <1>2 DEF OneLoadInv
<1>4. \A d \in Connections : pc'[d] = "start" => d # c /\ pc[d] = "start" /\ drawn'[d] = drawn[d]
  BY <1>1 DEF Return, IInv, TypeParts, PcType, ManagerType
<1>5. drawn[c].id < next_id /\ \A t \in tunnels : t.id # drawn[c].id
  BY <1>1, <1>3 DEF ToldInv, IInv, DrawInv, DrawnHere
<1>6. \A d \in Connections : pc'[d] = "start" => drawn'[d].id # drawn[c].id /\ drawn'[d].in = registry
  BY <1>1, <1>3, <1>4 DEF ToldInv, IInv, DrawInv, DrawnHere
<1>7. ToldInv'
  BY <1>1, <1>3, <1>4, <1>5, <1>6 DEF ToldInv
<1>8. IdsNameOneTunnel'
  <2>1. \A e \in told : e.id # drawn[c].id
    BY <1>1, <1>3 DEF ToldInv
  <2>2. Tunnel(c).id = drawn[c].id /\ Tunnel(c).serial = started + 1
    BY DEF Tunnel
  <2> QED BY <1>1, <1>3, <1>5, <2>1, <2>2 DEF IdsNameOneTunnel
<1> QED BY <1>7, <1>8

LEMMA OneLoadNext == IInv /\ OneLoadInv /\ [Next]_vars => OneLoadInv'
<1> SUFFICES ASSUME IInv, OneLoadInv, [Next]_vars PROVE OneLoadInv'
  OBVIOUS
<1>1. CASE RegisterTunnelFunctions
  BY <1>1, OneLoadLoad
<1>2. CASE CloseAllTunnels \/ \E id \in 1 .. MaxId : CloseTunnel(id)
  BY <1>2, IdsKeep DEF CloseAllTunnels, CloseTunnel
<1>3. CASE \E n \in Names : DropSecret(n) \/ \E d \in Definitions[n] : CreateSecret(n, d)
  BY <1>3, IdsKeep DEF DropSecret, CreateSecret
<1>4. ASSUME NEW c \in Connections, NEW r \in Requests, Statement(c, r)
      PROVE  OneLoadInv'
  <2>1. \A d \in Connections : pc'[d] = "start" => pc[d] = "start"
    BY <1>4 DEF Statement, IInv, TypeParts, PcType
  <2> QED BY <1>4, <2>1, IdsKeep DEF Statement
<1>5. ASSUME NEW c \in Connections,
             \/ Route(c) \/ MeshBackendFromSecret(c) \/ GetTunnelAuthParamsFromContext(c)
             \/ TunnelSelfBind(c) \/ StartFails(c)
      PROVE  OneLoadInv'
  <2>1. UNCHANGED <<registry, next_id, told, tunnels>>
    BY <1>5 DEF Route, MeshBackendFromSecret, GetTunnelAuthParamsFromContext, TunnelSelfBind,
       StartFails
  <2>2. CASE Return(c)
    BY <2>1, <2>2, OneLoadReturn
  <2>3. CASE ~ Return(c)
    <3>1. drawn' = drawn /\ \E to \in {"backend", "auth", "create", "answer"} : Goto(c, to)
      BY <1>5, <2>3 DEF Route, MeshBackendFromSecret, GetTunnelAuthParamsFromContext,
         TunnelSelfBind, StartFails
    <3>2. \A d \in Connections : pc'[d] = "start" => pc[d] = "start"
      BY <3>1 DEF IInv, TypeParts, PcType
    <3> QED BY <2>1, <3>1, <3>2, IdsKeep
  <2> QED BY <2>2, <2>3
<1>6. ASSUME NEW c \in Connections, CreateTunnel(c) \/ Start(c)
      PROVE  OneLoadInv'
  BY <1>6, OneLoadCreate, OneLoadStart
<1>7. CASE UNCHANGED vars
  BY <1>7, IdsKeep DEF vars
<1> QED BY <1>1, <1>2, <1>3, <1>4, <1>5, <1>6, <1>7 DEF Next

(* With one LOAD in the process, the id that a pragma returned stands for  *)
(* its tunnel or for none, however many statements draw ids at the same    *)
(* time and whichever fail: only the second RegisterTunnelFunctions, which *)
(* replaces g_tunnel_manager, makes ids ambiguous.                         *)
THEOREM OneLoadOneTunnel == Spec => [](registry <= 1 => IdsNameOneTunnel)
<1>1. Init => OneLoadInv
  BY DEF Init, OneLoadInv, ToldInv, IdsNameOneTunnel
<1>2. OneLoadInv => (registry <= 1 => IdsNameOneTunnel)
  BY DEF OneLoadInv
<1> QED BY <1>1, <1>2, OneLoadNext, Invariance, PTL DEF Spec
=============================================================================
