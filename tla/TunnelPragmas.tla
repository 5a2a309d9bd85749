---------------------------- MODULE TunnelPragmas ----------------------------
(***************************************************************************)
(* From a SQL statement to the arguments a tunnel is started with: tunnel  *)
(* secrets, how tunnel_import, tunnel_export and tunnel_self/tunnel_peers  *)
(* find theirs and which transport and credentials that gives, the checks  *)
(* of the arguments on each path, and the registry the tunnel goes to.     *)
(*                                                                         *)
(* DuckDB connections run one statement each at a time.  Meanwhile others  *)
(* create, replace and drop secrets, and another database of the process   *)
(* may LOAD the extension, which replaces the registry.  How a tunnel      *)
(* starts is in the modules of the transports; here it works or fails.     *)
(***************************************************************************)
EXTENDS Integers

CONSTANTS
  Connections,
  Names,              \* names of secrets, defined or not
  Definitions,        \* Definitions[n]: what users CREATE as n, [type, options]
  HasMesh,            \* whether the build bundles the meshes: ERPL_TUNNEL_HAS_MESH
  Requests,           \* arguments of pragmas and table functions, see Request
  ServerPort,         \* the port an SSH server picks when it is asked for any
  MaxId,              \* bound: tunnel ids a registry gives out
  MaxLoads            \* bound: databases of the process that LOAD the extension

KnownKeys ==
  {"backend", "ssh_host", "ssh_port", "ssh_user", "host", "user", "port", "password",
   "private_key_path", "passphrase", "auth_method", "auth_key", "setup_key", "hostname", "tags",
   "groups", "control_url", "management_url", "state_dir", "ephemeral"}

Ports == 1 .. 65535

(* given: whether remote_port was.  remote_host is only given or not.      *)
IsRequest(r) ==
  /\ r \in [what : {"import", "export", "self"}, secret : Names \cup {""},
            remote_host : BOOLEAN, given : BOOLEAN,
            remote_port : {r.remote_port}, local_port : {r.local_port}]
  /\ r.remote_port \in Int /\ r.local_port \in Int /\ (~ r.given => r.remote_port = 0)

ASSUME PragmaAssumption ==
  /\ MaxId \in Nat /\ MaxLoads \in Nat /\ "" \notin Names /\ ServerPort \in Ports
  /\ HasMesh \in BOOLEAN
  /\ \A n \in Names : \A d \in Definitions[n] : d.type \in {"tunnel", "ssh_tunnel", "foreign"}
  /\ \A r \in Requests : IsRequest(r)

VARIABLES
  secrets,            \* secrets[n]: the type and the options of the secret n
  registry,           \* which g_tunnel_manager this is; 0 before the first LOAD
  next_id,            \* its next_tunnel_id
  tunnels,            \* its tunnels, see Tunnel
  cache,              \* the backends of MeshBackendFromSecret: from keys to their options
  pc, req,            \* of each connection: where its statement is, and its arguments
  seen,               \* seen[c]: the secrets as the transaction of the statement sees them
  used,               \* used[c]: the transport and credentials the statement goes on with
  drawn,              \* drawn[c]: the registry and id its tunnel was given
  started,            \* serial number of the last tunnel started
  told                \* ids that were returned, with the tunnels they stand for

secret_vars == <<secrets, cache>>
manager_vars == <<registry, next_id, tunnels>>
call_vars == <<pc, req, seen, used, drawn>>
ghost_vars == <<started, told>>
vars == <<secret_vars, manager_vars, call_vars, ghost_vars>>

NoSecret == [type |-> "none", options |-> <<>>]
NoCredentials == [via |-> "none", with |-> <<>>]
NotDrawn == [in |-> 0, id |-> 0]
Nothing == [n \in Names |-> NoSecret]
NoRequest ==
  [what |-> "self", secret |-> "", remote_host |-> FALSE, given |-> FALSE, remote_port |-> 0,
   local_port |-> 0]

TypeOK ==
  /\ \A n \in Names : secrets[n].type \in {"none", "tunnel", "ssh_tunnel", "foreign"}
  /\ \A k \in DOMAIN cache : cache[k].via \in {"tailscale", "netbird"}
  /\ registry \in 0 .. MaxLoads /\ next_id \in 1 .. MaxId + 1
  /\ pc \in [Connections -> {"idle", "route", "backend", "auth", "create", "start", "answer"}]
  /\ \A c \in Connections : req[c] \in Requests \cup {NoRequest}
  /\ \A c \in Connections : used[c].via \in {"none", "ssh", "tailscale", "netbird"}
  /\ drawn \in [Connections -> [in : 0 .. MaxLoads, id : 0 .. MaxId]]
  /\ started \in 0 .. MaxId * MaxLoads
  /\ told \subseteq [id : 1 .. MaxId, serial : 1 .. started]
  /\ \A t \in tunnels : t.id \in 1 .. next_id - 1 /\ t.serial \in 1 .. started
  /\ \A t, u \in tunnels : t.id = u.id => t = u

Init ==
  /\ secrets = Nothing /\ cache = <<>>
  /\ registry = 0 /\ next_id = 1 /\ tunnels = {}
  /\ pc = [c \in Connections |-> "idle"] /\ req = [c \in Connections |-> NoRequest]
  /\ seen = [c \in Connections |-> Nothing] /\ used = [c \in Connections |-> NoCredentials]
  /\ drawn = [c \in Connections |-> NotDrawn]
  /\ started = 0 /\ told = {}
-----------------------------------------------------------------------------
(* Secrets. *)

Canonical(k) ==
  CASE k = "host" -> "ssh_host" [] k = "user" -> "ssh_user" [] k = "port" -> "ssh_port"
    [] OTHER -> k

(* The options a definition may give: where an alias and its canonical key *)
(* are both there, the one the unordered map yields last wins.             *)
Stored(given) ==
  LET keys == {Canonical(k) : k \in DOMAIN given}
      picks == {f \in [keys -> DOMAIN given] : \A k \in keys : Canonical(f[k]) = k}
  IN  {[k \in keys |-> given[f[k]]] : f \in picks}

(* CREATE (OR REPLACE) SECRET; an unknown key fails the statement.  The    *)
(* type may be another extension's.                                        *)
CreateSecret(n, given) ==
  /\ registry > 0 /\ DOMAIN given.options \subseteq KnownKeys
  /\ \E options \in Stored(given.options) :
       secrets' = [secrets EXCEPT ![n] = [type |-> given.type, options |-> options]]
  /\ UNCHANGED <<cache, manager_vars, call_vars, ghost_vars>>

DropSecret(n) ==
  /\ secrets[n] # NoSecret /\ secrets' = [secrets EXCEPT ![n] = NoSecret]
  /\ UNCHANGED <<cache, manager_vars, call_vars, ghost_vars>>

IsTunnelSecret(s) == s.type \in {"tunnel", "ssh_tunnel"}

(* What the transaction of c sees under a name: tunnel secrets alone.      *)
LookupTunnelSecret(c, name) ==
  IF name \in Names /\ IsTunnelSecret(seen[c][name]) THEN seen[c][name] ELSE NoSecret

Get(options, k) == IF k \in DOMAIN options THEN options[k] ELSE ""

Lower(s) ==
  CASE s = "Tailscale" -> "tailscale" [] s = "NetBird" -> "netbird" [] OTHER -> s

(* Mutant: the kind keeps the spelling of the secret.                      *)
ParseMeshKindAsSpelt(backend) ==
  IF Lower(backend) \in {"tailscale", "netbird"} THEN backend ELSE "none"

ParseMeshKind(backend) ==
  IF Lower(backend) \in {"tailscale", "netbird"} THEN Lower(backend) ELSE "none"

MeshOptions(options) ==
  [via |-> ParseMeshKind(Get(options, "backend")),
   with |-> [auth_key |-> Get(options, "auth_key"), setup_key |-> Get(options, "setup_key"),
             hostname |-> Get(options, "hostname"), tags |-> Get(options, "tags"),
             groups |-> Get(options, "groups"), control_url |-> Get(options, "control_url"),
             mgmt_url |-> Get(options, "management_url"), state_dir |-> Get(options, "state_dir"),
             ephemeral |-> Get(options, "ephemeral") \in {"true", "1"}]]

AuthMethod(options) ==
  IF "auth_method" \in DOMAIN options THEN options["auth_method"]
  ELSE IF Get(options, "password") # "" THEN "password"
  ELSE IF Get(options, "private_key_path") # "" THEN "key" ELSE "agent"

ConvertTunnelSecretToAuthParams(options) ==
  [ssh_host |-> Get(options, "ssh_host"), ssh_user |-> Get(options, "ssh_user"),
   ssh_port |-> IF "ssh_port" \in DOMAIN options THEN options["ssh_port"] ELSE 22,
   password |-> Get(options, "password"), private_key_path |-> Get(options, "private_key_path"),
   passphrase |-> Get(options, "passphrase"), auth_method |-> AuthMethod(options)]
-----------------------------------------------------------------------------
(* Statements. *)

(* The name the SSH path looks up when none is given.                      *)
SecretName(r) == IF r.secret = "" THEN "*" ELSE r.secret

ImportAccepts(r) == r.remote_host /\ r.remote_port # 0 /\ r.local_port # 0

ExportAccepts(r) ==
  r.local_port \in Ports /\ r.remote_port \in Ports \cup {0} /\ r.secret # ""

(* Mutant: a remote_port of 0 is taken for one left out.                   *)
WithZeroDefault(r) ==
  IF r.what = "export" /\ r.remote_port = 0 THEN [r EXCEPT !.remote_port = r.local_port] ELSE r

(* tunnel_export without remote_port publishes on the local port's number. *)
WithDefaults(r) ==
  IF r.what = "export" /\ ~ r.given THEN [r EXCEPT !.remote_port = r.local_port] ELSE r

Goto(c, label) == pc' = [pc EXCEPT ![c] = label]

(* The statement is over, with rows or with an exception.                  *)
Return(c) ==
  /\ Goto(c, "idle") /\ req' = [req EXCEPT ![c] = NoRequest]
  /\ seen' = [seen EXCEPT ![c] = Nothing] /\ used' = [used EXCEPT ![c] = NoCredentials]
  /\ drawn' = [drawn EXCEPT ![c] = NotDrawn]

Statement(c, r) ==
  /\ pc[c] = "idle" /\ registry > 0
  /\ r.what = "self" => HasMesh
  /\ r.what = "import" => ImportAccepts(r)
  /\ r.what = "export" => ExportAccepts(r)
  /\ req' = [req EXCEPT ![c] = r]
  /\ seen' = [seen EXCEPT ![c] = secrets]
  /\ Goto(c, IF r.what = "self" THEN "backend" ELSE "route")
  /\ UNCHANGED <<secret_vars, manager_vars, used, drawn, ghost_vars>>

(* The backend the secret asks for; a build without a mesh never asks, and *)
(* every secret falls through to the SSH path.                             *)
SecretMeshKind(c) ==
  IF req[c].secret = "" \/ ~ HasMesh THEN "none"
  ELSE ParseMeshKind(Get(LookupTunnelSecret(c, req[c].secret).options, "backend"))

(* By the secret's backend; a mesh takes no remote_host and allocates no   *)
(* ports.                                                                  *)
Route(c) ==
  /\ pc[c] = "route"
  /\ \/ SecretMeshKind(c) = "none" /\ Goto(c, "auth") /\ UNCHANGED <<req, seen, used, drawn>>
     \/ /\ SecretMeshKind(c) # "none"
        /\ LET r == WithDefaults(req[c])
           IN  IF r.what = "export" /\ (r.remote_host \/ r.remote_port = 0) THEN Return(c)
               ELSE Goto(c, "backend") /\ UNCHANGED <<req, seen, used, drawn>>
  /\ UNCHANGED <<secret_vars, manager_vars, ghost_vars>>

(* Mutant: the key of a node leaves one of its options out.                *)
ShortCacheKey(name, mesh) ==
  <<name, mesh.via, [k \in DOMAIN mesh.with \ {"ephemeral"} |-> mesh.with[k]]>>

CacheKey(name, mesh) == <<name, mesh>>

(* The second lookup of a mesh statement, and the cache of nodes.          *)
MeshBackendFromSecret(c) ==
  LET mesh == MeshOptions(LookupTunnelSecret(c, req[c].secret).options)
      key == CacheKey(req[c].secret, mesh)
  IN  /\ pc[c] = "backend"
      /\ IF req[c].secret = "" \/ mesh.via = "none"
         THEN Return(c) /\ UNCHANGED cache
         ELSE /\ cache' = [k \in DOMAIN cache \cup {key} |->
                            IF k \in DOMAIN cache THEN cache[k] ELSE mesh]
              /\ used' = [used EXCEPT ![c] = cache'[key]]
              /\ Goto(c, IF req[c].what = "self" THEN "answer" ELSE "create")
              /\ UNCHANGED <<req, seen, drawn>>
      /\ UNCHANGED <<secrets, manager_vars, ghost_vars>>

(* EnsureUp and the peers' status, which work or throw.                    *)
TunnelSelfBind(c) ==
  /\ pc[c] = "answer" /\ Return(c)
  /\ UNCHANGED <<secret_vars, manager_vars, ghost_vars>>

(* The second lookup of an SSH statement; a missing secret is an error.    *)
GetTunnelAuthParamsFromContext(c) ==
  LET secret == LookupTunnelSecret(c, SecretName(req[c]))
      auth == ConvertTunnelSecretToAuthParams(secret.options)
  IN  /\ pc[c] = "auth"
      /\ IF secret = NoSecret THEN Return(c)
         ELSE /\ used' = [used EXCEPT ![c] = [via |-> "ssh", with |-> auth]]
              /\ Goto(c, "create") /\ UNCHANGED <<req, seen, drawn>>
      /\ UNCHANGED <<secret_vars, manager_vars, ghost_vars>>
-----------------------------------------------------------------------------
(* Tunnels. *)

(* CreateTunnel turns agent authentication down before it draws an id.     *)
CreateTunnel(c) ==
  /\ pc[c] = "create"
  /\ IF req[c].what = "import" /\ used[c].via = "ssh" /\ used[c].with.auth_method = "agent"
     THEN Return(c) /\ UNCHANGED manager_vars
     ELSE /\ next_id <= MaxId /\ next_id' = next_id + 1
          /\ drawn' = [drawn EXCEPT ![c] = [in |-> registry, id |-> next_id]]
          /\ Goto(c, "start") /\ UNCHANGED <<registry, tunnels, req, seen, used>>
  /\ UNCHANGED <<secret_vars, ghost_vars>>

ValidateConnectionParameters(r, auth) ==
  /\ auth.ssh_host # "" /\ auth.ssh_user # "" /\ auth.ssh_port \in Ports
  /\ r.remote_port \in Ports /\ r.local_port \in Ports

(* Whether the import authenticates at all with these credentials.         *)
ImportAuth(auth) ==
  \/ auth.auth_method = "password" /\ auth.password # ""
  \/ auth.auth_method = "key" /\ auth.private_key_path # ""

(* An export tries the password whenever it does not use the key.          *)
ExportAuth(auth) ==
  /\ auth.auth_method # "agent"
  /\ \/ auth.auth_method = "key" /\ auth.private_key_path # ""
     \/ auth.password # ""

(* The port of the listener: htons takes 16 bits of it, an SSH server      *)
(* picks one for 0.                                                        *)
BoundPort(r) ==
  IF r.what = "import" THEN r.local_port % 65536
  ELSE IF r.remote_port = 0 THEN ServerPort ELSE r.remote_port

(* What may make Start succeed; a mesh import on port 0 fails its probe.   *)
CanStart(r, credentials) ==
  CASE credentials.via # "ssh" -> BoundPort(r) # 0
    [] credentials.via = "ssh" /\ r.what = "import" ->
         ValidateConnectionParameters(r, credentials.with) /\ ImportAuth(credentials.with)
    [] OTHER -> ExportAuth(credentials.with)

Tunnel(c) ==
  [id |-> drawn[c].id, serial |-> started + 1, request |-> req[c],
   secret |-> seen[c][SecretName(req[c])], used |-> used[c], port |-> BoundPort(WithDefaults(req[c]))]

(* The tunnel starts and is registered under its id.  A registry that was  *)
(* replaced meanwhile is freed memory: the process crashes there, and      *)
(* nothing follows, or the tunnel ends up in no registry.                  *)
Start(c) ==
  /\ pc[c] = "start" /\ CanStart(WithDefaults(req[c]), used[c])
  /\ started' = started + 1
  /\ tunnels' = IF drawn[c].in = registry THEN tunnels \cup {Tunnel(c)} ELSE tunnels
  /\ told' = told \cup {[id |-> drawn[c].id, serial |-> started + 1]}
  /\ Return(c) /\ UNCHANGED <<secret_vars, registry, next_id>>

StartFails(c) ==
  /\ pc[c] = "start" /\ Return(c)
  /\ UNCHANGED <<secret_vars, manager_vars, ghost_vars>>

CloseTunnel(id) ==
  /\ \E t \in tunnels : t.id = id
  /\ tunnels' = {t \in tunnels : t.id # id}
  /\ UNCHANGED <<secret_vars, registry, next_id, call_vars, ghost_vars>>

CloseAllTunnels ==
  /\ tunnels # {} /\ tunnels' = {}
  /\ UNCHANGED <<secret_vars, registry, next_id, call_vars, ghost_vars>>

(* A database LOADs the extension: g_tunnel_manager becomes a new manager, *)
(* and the destructor of the old one closes its tunnels.                   *)
RegisterTunnelFunctions ==
  /\ registry < MaxLoads /\ registry' = registry + 1
  /\ next_id' = 1 /\ tunnels' = {}
  /\ UNCHANGED <<secret_vars, call_vars, ghost_vars>>

Next ==
  \/ RegisterTunnelFunctions \/ CloseAllTunnels
  \/ \E id \in 1 .. MaxId : CloseTunnel(id)
  \/ \E n \in Names : DropSecret(n) \/ \E d \in Definitions[n] : CreateSecret(n, d)
  \/ \E c \in Connections, r \in Requests : Statement(c, r)
  \/ \E c \in Connections :
       \/ Route(c) \/ MeshBackendFromSecret(c) \/ GetTunnelAuthParamsFromContext(c)
       \/ TunnelSelfBind(c) \/ CreateTunnel(c) \/ Start(c) \/ StartFails(c)

Spec == Init /\ [][Next]_vars
-----------------------------------------------------------------------------
(* Secrets resolve by name, never by chance or default: from the moment a  *)
(* statement has its transport and credentials to the end of its tunnel,   *)
(* they are those of the tunnel secret it named, as that secret was when   *)
(* the statement began.  Both lookups agree, no node started for an older  *)
(* definition of the secret is reused, and a name that is missing or is    *)
(* another extension's opens nothing.  An import that names none gets the  *)
(* secret that is called "*", if there is one, over SSH whatever its       *)
(* backend: routing does not look at that one.  So does, in a build        *)
(* without a mesh, a statement that names a mesh secret.                   *)
Honours(r, secret, credentials) ==
  LET option(k) == Get(secret.options, k)
  IN  /\ IsTunnelSecret(secret)
      /\ \/ /\ credentials.via = Lower(option("backend"))
            /\ \A k \in {"auth_key", "setup_key", "hostname", "tags", "groups", "control_url",
                        "state_dir"} : credentials.with[k] = option(k)
            /\ credentials.with.mgmt_url = option("management_url")
            /\ credentials.with.ephemeral = (option("ephemeral") \in {"true", "1"})
         \/ /\ credentials.via = "ssh"
            /\ HasMesh /\ Lower(option("backend")) \in {"tailscale", "netbird"} => r.secret = ""
            /\ \A k \in {"ssh_host", "ssh_user", "password", "private_key_path", "passphrase"} :
                 credentials.with[k] = option(k)
            /\ \A k \in {"ssh_port", "auth_method"} \cap DOMAIN secret.options :
                 credentials.with[k] = option(k)

RunsOnItsSecret ==
  /\ \A c \in Connections : used[c] # NoCredentials =>
       /\ SecretName(req[c]) \in Names
       /\ Honours(req[c], seen[c][SecretName(req[c])], used[c])
  /\ \A t \in tunnels : Honours(t.request, t.secret, t.used)

(* Whatever path checked them, the ports of an SSH tunnel and of every     *)
(* export are ports, and every tunnel listens where the code says: the SSH *)
(* import on local_port, the mesh import on local_port modulo 65536, the   *)
(* same when that is a port, and the export on remote_port, which is       *)
(* local_port when it was left out and the server's choice, on SSH alone,  *)
(* when it was 0.                                                          *)
PortsAsAsked ==
  \A t \in tunnels :
    LET r == t.request
        mesh == t.used.via # "ssh"
    IN  /\ t.port \in Ports
        /\ r.what = "import" =>
             /\ t.port = r.local_port % 65536
             /\ ~ mesh => r.local_port \in Ports /\ r.remote_port \in Ports
             /\ r.local_port \in Ports => t.port = r.local_port
        /\ r.what = "export" =>
             /\ r.local_port \in Ports
             /\ CASE ~ r.given -> t.port = r.local_port
                  [] r.given /\ r.remote_port = 0 -> t.port = ServerPort /\ ~ mesh
                  [] OTHER -> t.port = r.remote_port

(* tunnel_import binds local_port, over a mesh as over SSH.  It does not:  *)
(* nothing on the mesh path checks that local_port is a port.              *)
ImportBindsLocalPort ==
  \A t \in tunnels : t.request.what = "import" => t.port = t.request.local_port

(* The registry is the process's: an id that a pragma returned stands for  *)
(* its tunnel or for none, whichever database asks.                        *)
IdsNameOneTunnel ==
  \A e \in told, t \in tunnels : t.id = e.id => t.serial = e.serial
=============================================================================
