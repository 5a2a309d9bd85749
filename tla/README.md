# Verification of erpl-tunnel

TLA+ models of the DuckDB extension *erpl_tunnel*, the TLC runs that check them on
small instances, and TLAPS proofs of the main safety properties for every instance.
`PROJECT.json` lists the parts, the runs, the source lines each definition stands
for, the hazards and the theorems. Paths below are relative to `src/`.

The extension opens tunnels from SQL. `tunnel_create` imports a remote port (like
`ssh -L`), `tunnel_export` publishes a local one (like `ssh -R`); both work over SSH
(libssh2) or over a mesh (Tailscale, NetBird) whose client is a Go library loaded at
run time. Almost everything that can go wrong is in the threads: each tunnel has an
accept thread and a thread per connection, all of them stopped and joined by
`Close()`, and the pragmas of several DuckDB connections run at once.

## 1. Inventory

| Part | Source | State | Operations | What makes it correct |
|---|---|---|---|---|
| Tunnel registry | `src/tunnel_manager.cpp` | map id → handle, its mutex, atomic id counter | create (4 kinds), close, close all, clean up inactive, list, look up, bound port | no tunnel lost, none closed twice, no teardown under the mutex, truthful answers |
| SSH export | `src/ssh_exporter.cpp` | socket, session, listener, worker list, attributes, three mutexes | `Start`, `AcceptLoop`, `Pump`, `ReapFinishedWorkers`, `Close` | one thread in libssh2, nothing used after it is freed, `Close` complete and finite, a drop noticed and explained, one bad connection harmless |
| SSH import | `src/tunnel_connection.cpp` | socket, session, flags, forwarding threads | `Connect`, authentication, `Start`, worker, forwarding, port probe, `Close` | the same, and that a created tunnel really listens |
| Mesh import | `src/mesh_forwarder.cpp`, `mesh_dial` in `shim/*/main.go` | listening socket, pumps, socket pairs, bridge goroutines | `Start`, `AcceptLoop`, `Pump`, bridge copies, `Close` | descriptors closed once and always, active means listening, bridges end |
| Mesh export | `src/mesh_exporter.cpp`, `mesh_export`/`mesh_unexport` in `shim/*/main.go`, `shim/meshpair/export.go` | the handle, the node's table, the Go `Exporter` with its set of connections | `Start`, `Close`, `acceptLoop`, `serve`, `track`, `untrack`, copies | nothing stays published, no connection escapes `Close`, half-close is honoured |
| Mesh loader and backend | `src/mesh_loader.cpp`, `src/mesh_backend.cpp` | the single-mesh latch, the cache of backends, node state, the servers behind it | `Activate`, `MeshBackendFromSecret`, `EnsureUp`, operations | one Go runtime, one node per secret, no operation on a node that is not up |
| Shim cache (Windows) | `src/mesh_loader.cpp` | a directory shared by all processes of a user | extract, reuse, replace, map | what is mapped is the whole shim, a lost race is survived, a good copy is kept |
| Socket helpers, stream pair | `src/include/socket_compat.hpp`, `shim/meshpair/` | none | send-all, dial, pair | part of the pumps that use them |
| Pragmas and secrets | `src/pragma_tunnel_*.cpp`, `src/tunnel_secret.cpp` | the secrets of the database, the backends made from them | look a secret up, route by its type, check arguments, create, export, close | a tunnel runs on the secret it was asked for, with the ports it was asked for |
| Extension entry | `src/tunnel_extension.cpp` | `g_tunnel_manager` | register everything, create the manager | an id names one tunnel for the life of the process |
| Listings, peer status | `src/scanner_tunnels.cpp`, `src/mesh_peers_json.cpp` | a cursor | list, parse | the registry's listing is modelled, the conversions are not |

How the parts interact. A pragma calls the registry on the thread of its DuckDB
connection. The registry constructs a handle, calls its `Start` with no lock held,
inserts it, and later moves it out of the map before it calls `Close`. A handle owns
its threads; it never calls back into the registry. Mesh handles share a backend, and
backends share the loader; the shim's goroutines share only sockets with the C++ side.

Hard behaviours: blocking calls that only a remote party can end, joins that wait for
them, sessions that are not thread-safe, teardown racing with connections that are
being accepted or dialled, partially completed starts, transports that drop silently,
half-closed connections, and answers that are stale when they are used. The
`hazards` list of `PROJECT.json` names each of them at its line, with the properties
that would catch it.

## 2. Modules

Each module models the control of its part (every state change, guard, early return
and error path, in order) and abstracts bytes, names and addresses. A program
counter per thread names the next step; a step is what happens between two points at
which another thread can observe something. Handlers of timeouts (`select` with a
timeout, `try_lock`) are choices of what they may report.

* **TunnelRegistry** — what the registry promises: a tunnel goes
  free → reserved → open → closing → closed, under a name no other tunnel ever gets.
* **TunnelManager** — the registry lock by lock. Variables are the members, plus per
  client its place, its result and the `shared_ptr`s on its stack (`held`). `given` is
  a history variable: the id a handle was constructed under. A handle is reduced to
  its contract: it starts or throws, may die by itself, and `Close` may take for ever.
  `RegistrySpec` is TunnelRegistry under the mapping `Life`.
* **SshExporter** — the owner, the accept thread and one worker per inbound channel,
  with `session_mu_`, `workers_mu_` and `mu_`. `lock_x` is waiting, `x` is inside.
  `obj` records what became of the socket, session and listener, `ptr` which members
  still refer to them; freeing a freed one makes it `misused`. A dead transport is
  reported by the accept call (`ForwardAcceptDropped`) or looks like an empty queue
  (`ForwardAcceptNone`); a channel whose non-blocking close or free says `EAGAIN`, which
  the code does not look at, stays with the session.
* **TunnelConnection** — the same for imports. The code has no session lock, and
  neither has the model: a thread at `open`, `write`, `read` or `free` is inside
  libssh2, and returns when the server answers or the transport is down. The loop that
  writes one buffer to a channel, with its short writes, is one such call: no property
  is about how far it got.
* **MeshForwarder** — the C++ threads of a mesh import and, per dialled stream, the
  two goroutines of the bridge.
* **MeshExport** — the C++ owner, the node's table of exports, the Go accept loop,
  `serve` and two copies per connection. What the code does under the Go mutex is one
  step; what it does outside (dials, closes) is interleaved.
* **MeshNode** — calls that activate a mesh or use a secret: the loader's latch under
  its mutex, the Unix extraction of the shim, the cache, `EnsureUp`, and the mutex
  released between `EnsureUp` and the operation. Every build (which shims are bundled,
  which of them are unusable) is an initial state. `servers` are the nodes running
  inside the shims and `abandoned` those that a failed `mesh_up` left behind: tsnet
  keeps the server it started (`Lingers`), netbird's embed stops it.
* **ShimCache** — several processes that extract a shim into the Windows cache: the
  look at the file that is there, the temporary file named after the process, the
  write that may fail or be cut short, the replacement that loses to another process,
  the re-check, the mapping. A process may be killed at any point and its id given to
  another one, which then finds the leftover under its own temporary name; the cache
  may start with a file of the wrong length. A mapped file cannot be replaced.
* **TunnelPragmas** — DuckDB connections that create and drop secrets, open and close
  tunnels, and load the extension. A request names a secret, asks for a direction and
  ports; the secret is found by name in the snapshot of the transaction (`seen`:
  DuckDB's catalog, external), routed by its backend, turned into a cached backend, and
  the tunnel is registered under the id drawn from the manager. `LOAD` replaces the
  manager. `HasMesh` is the build: without a mesh, a mesh secret falls through to the
  SSH path, and `tunnel_self` and `tunnel_peers` do not exist. A create that is still running in a manager that is gone is undefined
  behaviour, and the model admits both outcomes of the build: the process crashes, or
  the tunnel is in no registry.
* **MC\*** — instances for TLC and the claims that TLC refutes. **\*Proofs** — the
  theorems of a module.

External behaviour is assumed as follows. libssh2 calls on a live session succeed,
fail or, when non-blocking, ask to try again; once the transport is down they do not
block, and fail with a socket error or with another one; freeing a session frees its listener, and calls made concurrently
are not given a meaning (a run shows that they happen). A closed Go listener makes
`Accept` fail, and a closed connection makes its copies end. Peers, clients, local
services and SSH servers do as they please unless a specification says otherwise.

## 3. Runs

| Run | Question | Instance | Distinct states |
|---|---|---|---|
| `manager` | Can clients racing through the registry lose, share or double-close a tunnel, answer wrongly, or block each other? | 2 clients, 2 handles, 2 ids | 46 931 |
| `exporter` | Is an SSH export memory-safe, complete in its teardown, and alive? | 2 workers | 150 705 |
| `import` | Is an SSH import's teardown safe and complete, with a server that hangs up when we do? | 3 clients | 57 082 |
| `forwarder` | The same for mesh imports and their bridges | 2 clients | 205 607 |
| `mesh_export` | Does closing a mesh export reach every connection, however far it is set up? | 2 connections | 157 269 |
| `mesh_node` | Do concurrent first uses keep one mesh, one runtime and one node per secret? | 3 calls, 2 meshes, 2 secrets, every build | 179 661 |
| `shim_cache` | Can processes sharing the shim cache, some of them killed, load anything but the whole shim, or fail for having lost a race? | 2 process ids, 2 shims of sizes 1 and 2 | 273 265 |
| `pragmas` | Does a tunnel use the secret and the ports that the statement asked for, although secrets are replaced meanwhile? | 1 connection, names `a` and `*`, 10 requests, 1 id, 1 load | 332 609 |

The properties, in words:

* `manager`: `NoLeak` and `SoleOwner` — every live tunnel is in exactly one place, the
  map or one client's stack; `PortUnlessClosed`, `CloseAnswersTruthfully` — port 0,
  "closed" and "not found" mean what they say although the lock is released in
  between; `RegistrySpec` — refinement; `MutexReleased` — even when a `Close` hangs for
  ever.
* `exporter`: `SessionExclusive`, `NoUseAfterFree`, `CloseLeavesNothing` — from any partial `Start`, and with `Close` called again by the
  destructor; `EofAfterData` — end-of-file never overtakes unsent bytes;
  `StopsOnlyForCause` — a refusing service costs a connection, never the export;
  `ReportedDropStops` — a drop that libssh2 reports, however late, ends the export: the
  accept loop is not starved of a mutex on the way; `CloseReturns`.
* `import`: `NoUseAfterFree`, `CloseLeavesNothing`, `NoOrphanSocket`, `CloseReturns`,
  `DropEndsForwarding`.
* `forwarder`: `ClosedOnce`, `CloseLeavesNothing`, `NoOrphanSocket`,
  `ActiveMeansListening`, `CloseReturns`, `BridgeEnds`.
* `mesh_export`: `NothingPublished`, `NoneEscapesClose`, `ResponseSurvivesEof`,
  `CloseEndsServing`.
* `mesh_node`: `OneMesh` (one latched mesh, one Go runtime), `OneNodePerSecret` (two
  servers on one secret only where a failed start abandoned one), `CallsReturn`.
* `shim_cache`: `LoadsWholeShim` — what a process maps is the shim it carries;
  `LosesNoRace` — a process fails only for a reason of its own, never because another
  one was faster; `CacheKeepsShim` — a good copy in the cache is never spoilt, not by
  a process killed while it writes; `ExtractEnds`.
* `pragmas`: `RunsOnItsSecret` — a tunnel runs on the mesh and on every
  option that its name stood for when it was looked up, an import that names no secret
  on the one called `*`, over SSH, as every secret is in a build without a mesh;
  `PortsAsAsked` — the ports of an SSH tunnel and of every export are those of the
  statement, an export's remote port that is left out is the local one, and one that is
  0 is the server's choice, on SSH alone. A mesh import listens on its `local_port`
  modulo 65536.

Every module's type invariant is a theorem; `mesh_export`, `mesh_node` and `pragmas`
check theirs as well, because they say more than types (a call that works has a
backend, ids of registered tunnels are distinct).

**Claims that do not hold.** Each of these runs checks one statement of the
repository, and TLC finds a behaviour of the code that contradicts it.

| Run | The repository says | The code does |
|---|---|---|
| `import_session` | libssh2 sessions "are not thread-safe" (`src/include/ssh_exporter.hpp:16`) | the accept loop and every forwarding thread of an import call one session without a lock |
| `import_port` | a busy local port is an error (`docs/design/BRD.md:315`, troubleshooting guide) | the probe reaches whoever listens there, and the create succeeds |
| `forwarder_eof` | the peer sees EOF "rather than tearing the whole tunnel down mid-response" (`src/mesh_forwarder.cpp:141`) | the pump shuts the stream's write side and then leaves its loop, which closes both sockets |
| `reload` | the manager is the "Process-global registry of active tunnels; assigns ids" (`docs/design/HLD.md:122`) | every `LOAD` into the process makes a new manager, whose ids start at 1 again, and destroys the old one under the creates that still run in it |

Other disagreements met while modelling, without a run of their own. Those with a
name are definitions of the module, which TLC refutes when they are added to its cfg:

* `CloseUnblocksWorkers` (TunnelConnection): shutting the socket down in `Close`
  "unblocks them promptly" (`src/tunnel_connection.cpp:278`), but only the write side
  is shut; a thread in a blocking libssh2 call waits for the server, and the join with
  it (`:283`).
* `SocketClosedOnce` (TunnelConnection): teardown "must be idempotent"
  (`src/include/tunnel_handle.hpp:29`), but after a failed handshake the descriptor is
  closed, kept, and closed again by the destructor (`src/tunnel_connection.cpp:243`).
* `DropIsNoticed` (SshExporter): "A keepalive is mandatory", as without one "nobody
  notices a dead session" (`src/include/ssh_exporter.hpp:21-22`), but the result of the
  keepalive is ignored (`src/ssh_exporter.cpp:284`) and every failed accept but
  `SOCKET_*` polls on (`:300`): a dead session that answers `EAGAIN` or
  `CHANNEL_UNKNOWN` stays an active export for ever.
* `StillListening` (SshExporter): after a refused connection the export is "still
  listening" (`docs/guides/troubleshooting.md:98`, and the message itself,
  `src/ssh_exporter.cpp:253`), but a worker that dials during the drop records that
  message over the reason of an export that has stopped.
* `ImportBindsLocalPort` (TunnelPragmas): an import "binds 127.0.0.1:local_port"
  (`README.md:225`), but over a mesh nothing checks `local_port`, and the import listens
  on it modulo 65536 (`src/mesh_forwarder.cpp:47`).
* `NotSilentlyDead` (MeshExport): a failing export is surfaced, not left "silently
  dead" (`shim/meshpair/export.go:118`), but nothing reads the recorded error
  (`:56`), and the export stays listed as active.
* `OneServerPerSecret` (MeshNode): "ONE node per secret, for the life of the process."
  (`src/mesh_backend.cpp:222`), but after a `mesh_up` that timed out tsnet's server
  keeps running, and a retry starts a second one (`shim/ts/main.go:260`).
* `tunnels()` returns no rows when the registry's lock is taken for an instant
  (`src/tunnel_manager.cpp:191`); its cursor is in the bind data, so a prepared
  statement that is executed again yields none either.
* The status of an export still says it is exporting after its session dropped
  (`src/ssh_exporter.cpp:302`). An import stays active after its accept loop ended (`src/tunnel_connection.cpp:311`).
* "A missing secret is a HARD, actionable error" (`src/tunnel_connection.cpp:331`), but
  an import that names none looks up the name `*` (`src/include/tunnel_connection.hpp:199`),
  and a secret may be called that. It is then used over SSH even if it is a mesh
  secret, since routing takes an empty name for SSH (`src/mesh_backend.cpp:175`). The
  proof of `RunsOnItsSecret` needed this exception.
* Export and import treat one SSH secret differently: the export falls back to the
  password (`src/ssh_exporter.cpp:158-182`), the import does not
  (`src/tunnel_manager.cpp:51-67`); agent authentication is refused before a socket
  exists on import and after the handshake on export; only the import validates host,
  user and port.
* A shim that turns out unusable stays mapped, with its file on disk, and the other
  mesh may then be activated beside it (`src/mesh_loader.cpp:393`), which is why
  `OneMesh` excepts such shims.
* The second call of the two-call buffer contract may be told again that the buffer is
  too small when the status grew in between, and then reports an older error.
* Limits: descriptors of `FD_SETSIZE` or more in the mesh pump
  (`src/mesh_forwarder.cpp:128`), a thread object per connection until `Close`
  (`src/tunnel_connection.cpp:552`), a client that reads slowly is dropped on `EAGAIN`
  (`:608`), attributes written without a lock (`:500`).

**Bounds.** Two clients of the registry suffice for a race over one id and two handles
for confusing one with another; ids are bounded by `MaxTunnels`, which only ends the
creating. Two workers or connections are needed for threads to meet in a session, to
be reaped at different times and to be at different stages when `Close` comes; a third
client of an import adds one that is still queued. Three calls let one hold a lock,
one wait and one arrive, with two secrets of different meshes. Two process ids are
enough for a race over the cache and for one process to find what another left; shims
of two sizes make a leftover longer or shorter than what is written over it. One
connection is enough for `pragmas`, since secrets are replaced under it at any point;
the second name is the one that an import without a secret falls back to, a mesh secret
that has SSH credentials too, and the
requests cover both directions, a name left out, and ports that are absent, zero, in
range, and beyond it; secrets are SSH with password, key or neither, a tailnet with a
redefinition that changes a single option, and one of a foreign type. The run has `HasMesh = TRUE`; the build
without a mesh, whose paths are a part of these, is covered by the theorems, and the run
passes with `HasMesh = FALSE` too. `reload` needs a second connection and a second load. `Close` is called at
most twice, once explicitly and once by the destructor. No state constraint cuts any
run, and the invariants that are proved hold without these bounds.

**Fairness.** Threads and goroutines that can run do run. Beyond that:

* registry: bodies of critical sections only. Nothing is assumed of
  `Start` or `Close`, and a client may wait for the mutex for ever;
* export: the accept loop gets `session_mu_` if it is free again and again (strong
  fairness): a pump with nothing to do sleeps 2 ms without it, and that is what the
  sleep is for. Nothing is assumed of server, peers or local service, and the steps of
  `Start` end because each has a timeout. That libssh2 ever reports a drop is not
  assumed: `ReportedDropStops` is an implication from it (strong fairness of
  `ForwardAcceptDropped`), and without it TLC refutes `DropIsNoticed`;
* import, `FairSpec`: a blocked libssh2 call fails once the transport is down.
  `CooperativeSpec` adds a server that hangs up when we have; `CloseReturns` needs it,
  without it `CloseUnblocksWorkers` fails;
* mesh import: a dial ends, since the shim bounds it by 30 s. `CooperativeSpec` adds
  clients and peers that read what they are sent and peers that hang up after EOF. It
  is needed: the sockets are blocking, so a reader that stops reading holds up
  `Close`, and the bridge's downward copy waits for the peer;
* mesh export: the dial of the local service comes back. Nothing is assumed of peers
  or service, because closing a connection ends its copies;
* loader and backend: a free mutex is taken, and shim calls end (90 s for `mesh_up`,
  30 s for `mesh_dial`). The status calls behind `tunnel_self` and `tunnel_peers` have no
  such bound (`context.Background()`, `shim/ts/main.go:451`, `:477`): that they end is an
  assumption about tsnet's local client, and `CallsReturn` holds for them only under it;
* shim cache: a process that is not killed is scheduled, and file operations return.
  `pragmas` claims no liveness.

Deadlock is checked in every passing run; the only state a system may stop in is the
end of its owner, which is an explicit stuttering step (`Terminated`).

## 4. Proofs

All proofs hold for any number of clients, workers, handles and ids, from the named
assumptions on the constants (the special values are distinct from the sets they
stand beside; `MaxTunnels`, `MaxId` and `MaxLoads` are natural numbers; requests are
records of the form the pragmas parse; the calls of MeshNode are finitely many). Each module has an inductive
invariant `IInv`, a conjunction of named parts; one lemma per group of actions shows
that the group preserves it, and each theorem follows from `IInv`.

* **TunnelManagerProofs** — `SoleOwner` is not inductive: that `Insert` overwrites
  nothing needs that ids are never reused (`GivenInv`: every handle's id is below the
  counter and no two handles share one) and that a client still carries the id it drew
  (`HeldInv`, `ArgInv`). `MapInv` ties the map to handle states, `TeardownInv` what a
  closing client owes. Proved: `TypeCorrect`, `TunnelsAreNotLeaked`, `OneOwner`,
  `RegistryHoldsNoTeardown`, the action properties `PortReported` and
  `CloseTellsTheTruth` (the answer 'closed' comes from `TornDown` alone, where
  `TeardownInv` leaves nothing to close), and `ImplementsRegistry`, the refinement of
  TunnelRegistry.
* **SshExporterProofs** — the main parts say which program points each mutex covers
  (`LockInv`), that threads exist only between `run` and their join, that no channel
  outlives the join of its worker (`ChanInv`, `CurInv`), which members and resources
  are live at each point of `Start` and `Close` (`PtrInv`, `StartInv`, `ReleasedInv`),
  and that the accept loop gives up on a dead transport alone (`DropInv`). Proved:
  `TypeCorrect`, `OneThreadInLibssh2`, `FreedIsNotUsed`, `FreedOnce`, `CloseIsComplete`,
  `EofIsLast`, `OnlyCauseStops`.
* **TunnelConnectionProofs** — `TypeCorrect`, `FreedIsNotUsed`, `CloseIsComplete`,
  `SocketsHaveOwners`. `PtrInv` has to admit the socket that a failed handshake leaves
  behind (see `SocketClosedOnce`); the others say whose a client socket is at each point.
* **MeshForwarderProofs** — `TypeCorrect`, `DescriptorsClosedOnce`,
  `CloseIsComplete`, `SocketsHaveOwners`, `ActiveIsListening`. `ConnInv` says which
  descriptors exist at each point of a pump, `ListenInv` and `RunInv` tie the flag, the
  listener and the accept thread together.
* **ShimCacheProofs** — `TypeCorrect`, `WholeShims`, `NoRaceLost`, `ShimsStay` (an
  action property), for any processes and any shims. The code tells a good file by its
  length only; `LengthTells` says that this is enough, because nothing in the cache has
  a shim's length and other content. `TmpIsMine` says that the temporary file of a
  process is a prefix of its shim, and the whole of it before it is moved; `InPlace`
  that a process about to map, or refused a replacement by a competitor, finds the
  whole shim in place; `Images` that what is mapped is whole.

* **MeshExportProofs** — `NoneEscapesClose` holds because of where `track` looks at
  `closed`: `TrackedInv` says that an open end is either in the set that `Close` takes
  or at the point just before `track`, and `ClosedInv` that the set stays empty once
  `closed` is set. `OwnerInv` says what is published and who knows the handle at each
  point of `Start` and `Close`, `ServeInv` which ends exist at each point of `serve`.
  Proved: `TypeCorrect`, `CloseWithdraws`, `CloseReachesAll`, and `HalfCloseIsHonoured`
  (an action property): `serve` closes a mesh connection only when both copies are
  done, the dial failed or the exporter is closed.
* **MeshNodeProofs** — three arguments stacked on each other. The loader's mutex makes
  check and latch one (`LoaderInv`), so that what is mapped and usable is the latched
  mesh or the one being resolved (`LatchInv`), and every backend's api is of it
  (`ApiInv`). The cache ties a backend to the secret of the call that made it, for good
  (`CacheInv`). `mu_` keeps others out while a node comes up (`MuInv`), so that the
  shim's nodes and servers are what the flags of the one backend say (`CountInv`);
  `AbandonInv` bounds the servers left behind by the calls that are over. Proved:
  `TypeCorrect`, `SingleMesh`, `SingleNode`, for every build.
* **TunnelPragmasProofs** — with a mesh or without. `RunsOnItsSecret` is about two lookups, a cache and what
  a connection remembers: `CacheInv` says that a node has the options its key is made
  of, `PathInv` what a statement was checked for when it comes to a point (routing
  found no mesh before `auth`, an export on a mesh has a port), `UsedInv` between which
  points it has credentials. `PortsAsAsked` rests on `PathInv` and on what `htons`
  does to an integer (`SixteenBits`): `ListensWhereAsked` says of a mesh import no more
  than that it listens on `local_port` modulo 65536. `DrawInv` says that an id drawn from the present
  registry belongs to one connection and no tunnel; `StartedInv` counts starts against
  ids drawn. Proved: `TypeCorrect`, `SecretsResolveByName`, `ListensWhereAsked`, and
  `OneLoadOneTunnel`: as long as there has been one `LOAD`, a returned id stands for
  its tunnel or for none, so that the second `LOAD` is the only cause of what the run
  `reload` shows.

The proofs of TunnelPragmas changed the model in two places. The secret called `*` (see the disagreements
above) was an instance the run did not have and a step of `SshHonours` that would not
go through; the alternatives of `CanStart` overlapped for mesh imports, which TLC
resolves by their order and TLA+ does not.

Only model-checked: the liveness properties `MutexReleased`, `CloseReturns`,
`ReportedDropStops`, `DropEndsForwarding`, `BridgeEnds`, `CloseEndsServing`, `CallsReturn`
and `ExtractEnds`. They depend on fairness, which is beyond the prover. Every invariant,
every action property and the refinement that a passing run checks are theorems.

## 5. Not modelled

* What libssh2, tsnet and netbird/embed do inside, and the effect of data races on
  them or on attribute strings: the races on attributes are listed as hazards.
* Descriptor numbers (`FD_SETSIZE`), growth of the thread lists over an unbounded
  life, the Windows implementation of the stream pair.
* Redaction of secrets, the peers' JSON and the two-call buffer contract with the
  shim: sequential conversions.
* The other modules of a build without mesh support: TunnelManager's mesh creates, and
  the mesh modules, are not in it.
* In the cache: damage that keeps a file's length, which the code cannot see. In the
  pragmas: secrets whose fields run into each other in the cache key, which is a plain
  concatenation; the model takes it to be injective.
* The stand-alone SSH client, which is not part of the extension.

## 6. Plan

Done, in this order: TunnelManager with TunnelRegistry, SshExporter,
TunnelConnection, MeshForwarder, MeshExport, MeshNode, ShimCache, TunnelPragmas; the
proofs of all of them.

Next: an abstract specification of a tunnel handle (starts or fails, may die, closes
once, owns nothing afterwards) that the handle modules implement and TunnelManager
assumes, with the refinement proved.
