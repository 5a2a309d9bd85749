------------------------ MODULE TunnelManagerProofs ------------------------
(***************************************************************************)
(* Safety of the tunnel manager for any number of clients and tunnels.     *)
(*                                                                         *)
(* Neither NoLeak nor SoleOwner is inductive: that an insert replaces      *)
(* nothing follows from the freshness of ids, and that a handle has one    *)
(* owner from what each owner's pc says about the handle's state.  IInv    *)
(* records both.                                                           *)
(***************************************************************************)
EXTENDS TunnelManager, TLAPS

Creating == {"start", "insert", "unwind"}

(* What a client's program point says about the handles on its stack. *)
HeldInv ==
  \A c \in Clients : \A h \in held[c] :
    /\ pc[c] \in Creating \cup {"teardown"}
    /\ pc[c] = "start" => handle[h] = "starting"
    /\ pc[c] = "insert" => handle[h] \in {"up", "dead"}
    /\ pc[c] = "unwind" => handle[h] = "closing"
    /\ pc[c] = "teardown" => handle[h] \in {"up", "dead", "closing"}
    /\ pc[c] \in Creating => given[h] = arg[c] /\ \A g \in held[c] : g = h

(* What the map says about the handles in it. *)
MapInv ==
  \A id \in Ids : tunnels[id] # NoHandle =>
    /\ handle[tunnels[id]] \in {"up", "dead"}
    /\ given[tunnels[id]] = id

(* Ids are handed out once, and below the counter. *)
GivenInv ==
  \A h \in Handles :
    /\ handle[h] = "unborn" <=> given[h] = 0
    /\ given[h] < next_tunnel_id
    /\ \A g \in Handles : given[g] = given[h] /\ given[g] # 0 => g = h

(* Operations on one id have that id as their argument. *)
ArgInv ==
  \A c \in Clients :
    /\ pc[c] \in {"port", "close", "lookup"} => arg[c] \in Ids
    /\ pc[c] \in Creating \cup {"port"} => arg[c] < next_tunnel_id
    /\ pc[c] \in {"close_all", "cleanup"} => arg[c] = 0

(* A handle has one owner. *)
OwnerInv ==
  \A h \in Handles : \A c \in Clients : h \in held[c] =>
    /\ \A id \in Ids : tunnels[id] # h
    /\ \A d \in Clients : h \in held[d] => c = d

(* CloseTunnel(id) has on its stack whatever was given that id, until it   *)
(* has closed it.                                                          *)
TeardownInv ==
  \A c \in Clients : pc[c] = "teardown" /\ arg[c] # 0 =>
    /\ arg[c] < next_tunnel_id
    /\ \A h \in Handles : given[h] = arg[c] => h \in held[c] \/ handle[h] = "closed"

IInv == TypeOK /\ HeldInv /\ MapInv /\ GivenInv /\ ArgInv /\ OwnerInv /\ TeardownInv /\ NoLeak

USE ClientsAssumption, HandlesAssumption, BoundAssumption

LEMMA IdsAreNotZero == \A id \in Ids : id # 0
  BY DEF Ids

LEMMA InitIInv == Init => IInv
  BY DEF Init, IInv, TypeOK, HeldInv, MapInv, GivenInv, ArgInv, OwnerInv, TeardownInv, NoLeak,
         Ids, Steps, Critical, HandleStates, Results, Creates, Creating, Live

(* Each action keeps the types. *)
LEMMA TypeStep == IInv /\ [Next]_vars => TypeOK'
<1> SUFFICES ASSUME IInv, [Next]_vars PROVE TypeOK'
  OBVIOUS
<1> USE DEF Ids, Steps, Critical, HandleStates, Results, Creates
<1>0. TypeOK
  BY DEF IInv
<1>1. ASSUME NEW c \in Clients, Acquire(c) PROVE TypeOK'
  BY <1>0, <1>1 DEF TypeOK, Acquire, client_vars
<1>2. ASSUME NEW c \in Clients, CreateStep(c) PROVE TypeOK'
  <2>1. ASSUME NEW h \in Handles, NEW create \in Creates, Create(c, create, h) PROVE TypeOK'
    <3>1. next_tunnel_id \in Ids /\ next_tunnel_id' \in 1 .. MaxTunnels + 1
      <4>1. next_tunnel_id \in 1 .. MaxTunnels + 1
        BY <1>0 DEF TypeOK
      <4>2. next_tunnel_id <= MaxTunnels /\ next_tunnel_id' = next_tunnel_id + 1
        BY <2>1 DEF Create, GenerateTunnelId
      <4>3. QED
        BY <4>1, <4>2
    <3>2. arg' \in [Clients -> Ids \cup {0}] /\ given' \in [Handles -> Ids \cup {0}]
      BY <1>0, <2>1, <3>1 DEF TypeOK, Create, Begin
    <3>3. handle' \in [Handles -> HandleStates] /\ held' \in [Clients -> SUBSET Handles]
      BY <1>0, <2>1 DEF TypeOK, Create
    <3>4. /\ pc' \in [Clients -> Steps]
          /\ op' \in [Clients -> Creates \cup {"none"}]
          /\ result' \in [Clients -> Results]
          /\ listed' \in [Clients -> SUBSET Ids]
      BY <1>0, <2>1 DEF TypeOK, Create, Begin, Goto
    <3>5. QED
      BY <1>0, <2>1, <3>1, <3>2, <3>3, <3>4 DEF TypeOK, Create
  <2>2. ASSUME NEW h \in Handles, Started(c, h) PROVE TypeOK'
    BY <1>0, <2>2 DEF TypeOK, Started, Goto
  <2>3. ASSUME NEW h \in Handles, StartThrew(c, h) PROVE TypeOK'
    BY <1>0, <2>3 DEF TypeOK, StartThrew, Goto
  <2>4. ASSUME NEW h \in Handles, Unwound(c, h) PROVE TypeOK'
    BY <1>0, <2>4 DEF TypeOK, Unwound, Return, Goto
  <2>5. ASSUME NEW h \in Handles, Insert(c, h) PROVE TypeOK'
    BY <1>0, <2>5 DEF TypeOK, Insert, Inside, Unlock, Return, Goto
  <2>6. CASE RejectAgent(c)
    BY <1>0, <2>6 DEF TypeOK, RejectAgent
  <2>7. CASE GetTunnelBoundPort(c)
    BY <1>0, <2>7 DEF TypeOK, GetTunnelBoundPort, Inside, Unlock, Return, Goto
  <2>8. QED
    BY <1>2, <2>1, <2>2, <2>3, <2>4, <2>5, <2>6, <2>7 DEF CreateStep
<1>3. ASSUME NEW c \in Clients, CloseStep(c) PROVE TypeOK'
  <2>1. ASSUME NEW id \in Ids \cup {0}, NEW step \in Steps, Call(c, step, id) PROVE TypeOK'
    BY <1>0, <2>1 DEF TypeOK, Call, Begin, Goto
  <2>2. CASE CloseMissing(c)
    BY <1>0, <2>2 DEF TypeOK, CloseMissing, Inside, Unlock, Return, Goto
  <2>3. ASSUME NEW S \in SUBSET RegisteredIds, TakeOut(c, S) PROVE TypeOK'
    <3>1. {tunnels[id] : id \in S} \in SUBSET Handles
      <4>1. tunnels \in [Ids -> Handles \cup {NoHandle}]
        BY <1>0 DEF TypeOK
      <4>2. \A id \in S : id \in Ids /\ tunnels[id] # NoHandle
        BY DEF RegisteredIds
      <4>3. QED
        BY <4>1, <4>2
    <3>2. QED
      BY <1>0, <2>3, <3>1 DEF TypeOK, TakeOut, Unlock, Goto, RegisteredIds
  <2>4. CASE CloseFound(c)
    <3>1. arg[c] \in RegisteredIds
      BY <2>4 DEF CloseFound, Inside, RegisteredIds, IInv, ArgInv
    <3>2. QED
      BY <2>3, <2>4, <3>1 DEF CloseFound
  <2>5. CASE CloseAllSnapshot(c)
    BY <2>3, <2>5 DEF CloseAllSnapshot
  <2>6. CASE CollectInactive(c)
    BY <2>3, <2>6 DEF CollectInactive
  <2>7. ASSUME NEW h \in Handles, BeginClose(c, h) PROVE TypeOK'
    BY <1>0, <2>7 DEF TypeOK, BeginClose, client_vars
  <2>8. ASSUME NEW h \in Handles, EndClose(c, h) PROVE TypeOK'
    BY <1>0, <2>8 DEF TypeOK, EndClose
  <2>9. CASE TornDown(c)
    BY <1>0, <2>9 DEF TypeOK, TornDown, Return, Goto
  <2>10. QED
    BY <1>3, <2>1, <2>2, <2>4, <2>5, <2>6, <2>7, <2>8, <2>9
       DEF CloseStep, CloseTunnel, CloseAllTunnels, CleanupInactiveTunnels
<1>4. ASSUME NEW c \in Clients, ReadStep(c) PROVE TypeOK'
  <2>1. ASSUME NEW id \in Ids \cup {0}, NEW step \in Steps, Call(c, step, id) PROVE TypeOK'
    BY <1>0, <2>1 DEF TypeOK, Call, Begin, Goto
  <2>2. CASE ListContended(c)
    BY <1>0, <2>2 DEF TypeOK, ListContended, Return, Goto
  <2>3. CASE ListRows(c)
    BY <1>0, <2>3 DEF TypeOK, ListRows, Inside, Unlock, Return, Goto, RegisteredIds
  <2>4. CASE LookupAnswer(c)
    BY <1>0, <2>4 DEF TypeOK, LookupAnswer, Inside, Unlock, Return, Goto
  <2>5. QED
    BY <1>4, <2>1, <2>2, <2>3, <2>4 DEF ReadStep, ListTunnels, Lookup
<1>5. ASSUME NEW h \in Handles, Die(h) PROVE TypeOK'
  BY <1>0, <1>5 DEF TypeOK, Die, client_vars
<1>6. CASE UNCHANGED vars
  BY <1>0, <1>6 DEF TypeOK, vars, client_vars
<1>7. QED
  BY <1>1, <1>2, <1>3, <1>4, <1>5, <1>6 DEF Next

(* A client whose pc is not one of the holding points has an empty stack. *)
LEMMA EmptyStack ==
  ASSUME IInv, NEW c \in Clients, pc[c] \notin Creating \cup {"teardown"}
  PROVE  held[c] = {}
  BY DEF IInv, TypeOK, HeldInv

(* Steps that only move one client, with nothing on its stack, between    *)
(* points at which it holds nothing.                                      *)
LEMMA QuietStep ==
  ASSUME IInv, TypeOK',
         UNCHANGED <<tunnels, handle, given, held, next_tunnel_id>>,
         NEW c \in Clients, held[c] = {},
         NEW step, NEW id,
         pc' = [pc EXCEPT ![c] = step], arg' = [arg EXCEPT ![c] = id],
         step \notin Creating \cup {"port"},
         step # "teardown",
         step \in {"close", "lookup"} => id \in Ids,
         step \in {"close_all", "cleanup"} => id = 0
  PROVE  IInv'
<1>1. HeldInv'
  BY DEF IInv, TypeOK, HeldInv, Creating
<1>2. MapInv'
  BY DEF IInv, MapInv
<1>3. GivenInv'
  BY DEF IInv, GivenInv
<1>4. ArgInv'
  BY DEF IInv, TypeOK, ArgInv, Creating
<1>5. OwnerInv'
  BY DEF IInv, OwnerInv
<1>6. NoLeak'
  BY DEF IInv, NoLeak, Registered, Holds
<1>7. TeardownInv'
  BY DEF IInv, TypeOK, TeardownInv
<1>8. QED
  BY <1>1, <1>2, <1>3, <1>4, <1>5, <1>6, <1>7 DEF IInv

LEMMA CreateStepInv ==
  ASSUME IInv, TypeOK', NEW c \in Clients, NEW h \in Handles, NEW create \in Creates,
         Create(c, create, h)
  PROVE  IInv'
<1> USE DEF Create, Begin, Goto, GenerateTunnelId
<1>0. TypeOK /\ HeldInv /\ MapInv /\ GivenInv /\ ArgInv /\ OwnerInv /\ TeardownInv /\ NoLeak
  BY DEF IInv
<1>1. next_tunnel_id \in Nat /\ next_tunnel_id # 0 /\ next_tunnel_id' = next_tunnel_id + 1
  BY <1>0 DEF TypeOK
<1>2. held[c] = {} /\ \A d \in Clients : h \notin held[d]
  BY <1>0, EmptyStack DEF TypeOK, HeldInv, Creating
<1>3. \A id \in Ids : tunnels[id] # h
  BY <1>0 DEF MapInv
<1>4. HeldInv'
  BY <1>0, <1>1, <1>2 DEF TypeOK, HeldInv, Creating
<1>5. MapInv'
  BY <1>0, <1>3 DEF TypeOK, MapInv
<1>6. GivenInv'
  BY <1>0, <1>1 DEF TypeOK, GivenInv, Ids
<1>7. ArgInv'
  BY <1>0, <1>1 DEF TypeOK, ArgInv, Creating, Ids
<1>8. OwnerInv'
  BY <1>0, <1>2, <1>3 DEF TypeOK, OwnerInv
<1>9. NoLeak'
  BY <1>0, <1>2 DEF TypeOK, NoLeak, Registered, Holds
<1>10. TeardownInv'
  BY <1>0, <1>1, <1>2 DEF TypeOK, TeardownInv, GivenInv, Ids
<1>11. QED
  BY <1>4, <1>5, <1>6, <1>7, <1>8, <1>9, <1>10 DEF IInv

(* Start() returns or throws: only the state of the new handle changes. *)
LEMMA StartInv ==
  ASSUME IInv, TypeOK', NEW c \in Clients, NEW h \in Handles,
         Started(c, h) \/ StartThrew(c, h)
  PROVE  IInv'
<1> USE DEF Started, StartThrew, Goto
<1>0. TypeOK /\ HeldInv /\ MapInv /\ GivenInv /\ ArgInv /\ OwnerInv /\ TeardownInv /\ NoLeak
  BY DEF IInv
<1>1. h \in held[c] /\ handle[h] = "starting" /\ \A g \in held[c] : g = h
  BY <1>0 DEF HeldInv, Creating
<1>2. HeldInv'
  BY <1>0, <1>1 DEF TypeOK, HeldInv, OwnerInv, Creating
<1>3. MapInv'
  BY <1>0, <1>1 DEF TypeOK, MapInv
<1>4. GivenInv'
  BY <1>0, <1>1 DEF TypeOK, GivenInv
<1>5. ArgInv'
  BY <1>0, <1>1 DEF TypeOK, ArgInv, Creating
<1>6. OwnerInv'
  BY <1>0 DEF OwnerInv
<1>7. NoLeak'
  BY <1>0, <1>1 DEF TypeOK, NoLeak, Registered, Holds
<1>8. TeardownInv'
  BY <1>0, <1>1 DEF TypeOK, TeardownInv
<1>9. QED
  BY <1>2, <1>3, <1>4, <1>5, <1>6, <1>7, <1>8 DEF IInv

(* The destructor has closed a handle whose Start() threw. *)
LEMMA UnwoundInv ==
  ASSUME IInv, TypeOK', NEW c \in Clients, NEW h \in Handles, Unwound(c, h)
  PROVE  IInv'
<1> USE DEF Unwound, Return, Goto
<1>0. TypeOK /\ HeldInv /\ MapInv /\ GivenInv /\ ArgInv /\ OwnerInv /\ TeardownInv /\ NoLeak
  BY DEF IInv
<1>1. h \in held[c] /\ handle[h] = "closing" /\ \A g \in held[c] : g = h
  BY <1>0 DEF HeldInv, Creating
<1>2. HeldInv'
  BY <1>0, <1>1 DEF TypeOK, HeldInv, OwnerInv, Creating
<1>3. MapInv'
  BY <1>0, <1>1 DEF TypeOK, MapInv
<1>4. GivenInv'
  BY <1>0, <1>1 DEF TypeOK, GivenInv
<1>5. ArgInv'
  BY <1>0 DEF TypeOK, ArgInv, Creating
<1>6. OwnerInv'
  BY <1>0 DEF TypeOK, OwnerInv
<1>7. NoLeak'
  BY <1>0, <1>1 DEF TypeOK, NoLeak, Registered, Holds, Live
<1>8. TeardownInv'
  BY <1>0, <1>1 DEF TypeOK, TeardownInv
<1>9. QED
  BY <1>2, <1>3, <1>4, <1>5, <1>6, <1>7, <1>8 DEF IInv

(* The id is fresh, so the insert replaces nothing. *)
LEMMA InsertInv ==
  ASSUME IInv, TypeOK', NEW c \in Clients, NEW h \in Handles, Insert(c, h)
  PROVE  IInv'
<1> USE DEF Insert, Inside
<1>0. TypeOK /\ HeldInv /\ MapInv /\ GivenInv /\ ArgInv /\ OwnerInv /\ TeardownInv /\ NoLeak
  BY DEF IInv
<1>1. /\ h \in held[c] /\ handle[h] \in {"up", "dead"}
      /\ given[h] = arg[c] /\ \A g \in held[c] : g = h
  BY <1>0 DEF HeldInv, Creating
<1>2. arg[c] \in Ids /\ arg[c] # 0
  BY <1>0, <1>1 DEF TypeOK, GivenInv, Ids
<1>3. tunnels[arg[c]] = NoHandle
  <2> SUFFICES ASSUME tunnels[arg[c]] # NoHandle PROVE FALSE
    OBVIOUS
  <2>1. given[tunnels[arg[c]]] = given[h] /\ tunnels[arg[c]] \in Handles
    BY <1>0, <1>1, <1>2 DEF TypeOK, MapInv
  <2>2. tunnels[arg[c]] = h
    BY <1>0, <1>1, <1>2, <2>1 DEF GivenInv
  <2>3. QED
    BY <1>0, <1>1, <1>2, <2>2 DEF OwnerInv
<1>4. /\ tunnels' = [tunnels EXCEPT ![arg[c]] = h]
      /\ held' = [held EXCEPT ![c] = {}]
      /\ handle' = handle /\ given' = given /\ next_tunnel_id' = next_tunnel_id
      /\ \/ pc' = [pc EXCEPT ![c] = "port"] /\ arg' = arg
         \/ pc' = [pc EXCEPT ![c] = "idle"] /\ arg' = [arg EXCEPT ![c] = 0]
  BY DEF Return, Goto
<1> HIDE DEF Insert
<1>5. HeldInv'
  BY <1>0, <1>1, <1>4 DEF TypeOK, HeldInv, Creating
<1>6. MapInv'
  BY <1>0, <1>1, <1>2, <1>4 DEF TypeOK, MapInv
<1>7. GivenInv'
  BY <1>0, <1>4 DEF GivenInv
<1>8. ArgInv'
  <2>1. arg[c] < next_tunnel_id
    BY <1>0, <1>1 DEF GivenInv
  <2>2. QED
    BY <1>0, <1>2, <1>4, <2>1 DEF TypeOK, ArgInv, Creating
<1>9. OwnerInv'
  BY <1>0, <1>1, <1>2, <1>4 DEF TypeOK, OwnerInv
<1>10. NoLeak'
  BY <1>0, <1>1, <1>2, <1>3, <1>4 DEF TypeOK, NoLeak, Registered, Holds
<1>11. TeardownInv'
  BY <1>0, <1>1, <1>4 DEF TypeOK, TeardownInv
<1>12. QED
  BY <1>5, <1>6, <1>7, <1>8, <1>9, <1>10, <1>11 DEF IInv

(* Erasing under the lock moves ownership from the map to the client. *)
LEMMA TakeOutInv ==
  ASSUME IInv, TypeOK', NEW c \in Clients, NEW S \in SUBSET RegisteredIds, TakeOut(c, S),
         held[c] = {}, arg[c] # 0 => S = {arg[c]}
  PROVE  IInv'
<1> USE DEF TakeOut, Goto
<1>0. TypeOK /\ HeldInv /\ MapInv /\ GivenInv /\ ArgInv /\ OwnerInv /\ TeardownInv /\ NoLeak
  BY DEF IInv
<1>1. \A id \in S : /\ id \in Ids /\ tunnels[id] \in Handles
                     /\ handle[tunnels[id]] \in {"up", "dead"}
                     /\ given[tunnels[id]] = id
  BY <1>0 DEF RegisteredIds, TypeOK, MapInv
<1>2. /\ \A h \in held'[c] : \E id \in S : h = tunnels[id]
      /\ \A id \in S : tunnels[id] \in held'[c]
      /\ \A d \in Clients : d # c => held'[d] = held[d]
  BY <1>0 DEF TypeOK
<1>3. HeldInv'
  BY <1>0, <1>1, <1>2 DEF TypeOK, HeldInv, Creating
<1>4. MapInv'
  BY <1>0 DEF TypeOK, MapInv
<1>5. GivenInv'
  BY <1>0 DEF GivenInv
<1>6. ArgInv'
  BY <1>0 DEF TypeOK, ArgInv, Creating
<1>7. OwnerInv'
  <2>1. ASSUME NEW h \in Handles, NEW d \in Clients, h \in held'[d], NEW id \in Ids, tunnels'[id] = h
        PROVE  FALSE
    <3>1. tunnels[id] = h /\ id \notin S
      BY <1>0, <2>1 DEF TypeOK
    <3>2. CASE d = c
      BY <1>0, <1>1, <1>2, <2>1, <3>1, <3>2 DEF MapInv
    <3>3. CASE d # c
      BY <1>0, <1>2, <2>1, <3>1, <3>3 DEF OwnerInv
    <3>4. QED
      BY <3>2, <3>3
  <2>2. ASSUME NEW h \in Handles, NEW d \in Clients, NEW e \in Clients,
               h \in held'[d], h \in held'[e]
        PROVE  d = e
    <3>1. \A f \in Clients : h \in held'[c] /\ h \in held'[f] => f = c
      BY <1>0, <1>1, <1>2, <2>2 DEF OwnerInv
    <3>2. QED
      BY <1>0, <1>2, <2>2, <3>1 DEF OwnerInv
  <2>3. QED
    BY <2>1, <2>2 DEF OwnerInv
<1>8. NoLeak'
  <2> SUFFICES ASSUME NEW h \in Handles, handle[h] \in Live
               PROVE  (Registered(h))' \/ \E d \in Clients : h \in held'[d]
    BY DEF NoLeak, Holds
  <2>1. CASE Registered(h)
    <3>1. PICK id \in Ids : tunnels[id] = h
      BY <2>1 DEF Registered
    <3>2. CASE id \in S
      BY <1>2, <3>1, <3>2
    <3>3. CASE id \notin S
      BY <3>1, <3>3 DEF Registered
    <3>4. QED
      BY <3>2, <3>3
  <2>2. CASE \E d \in Clients : h \in held[d]
    BY <1>2, <2>2
  <2>3. QED
    BY <1>0, <2>1, <2>2 DEF NoLeak, Holds
<1>9. TeardownInv'
  <2>1. ASSUME arg[c] # 0 PROVE arg[c] < next_tunnel_id
    BY <1>0, <1>1, <2>1 DEF GivenInv
  <2>2. ASSUME arg[c] # 0, NEW h \in Handles, given[h] = arg[c] PROVE h \in held'[c]
    <3>1. arg[c] \in S
      BY <2>2
    <3>2. tunnels[arg[c]] \in Handles /\ given[tunnels[arg[c]]] = given[h] /\ given[h] # 0
      BY <1>1, <2>2, <3>1
    <3>3. tunnels[arg[c]] = h
      BY <1>0, <3>2 DEF GivenInv
    <3>4. QED
      BY <1>2, <3>1, <3>3
  <2>3. QED
    BY <1>0, <1>2, <2>1, <2>2 DEF TypeOK, TeardownInv
<1>10. QED
  BY <1>3, <1>4, <1>5, <1>6, <1>7, <1>8, <1>9 DEF IInv

(* One client closes a handle it took out. *)
LEMMA BeginCloseInv ==
  ASSUME IInv, TypeOK', NEW c \in Clients, NEW h \in Handles, BeginClose(c, h)
  PROVE  IInv'
<1> USE DEF BeginClose, client_vars
<1>0. TypeOK /\ HeldInv /\ MapInv /\ GivenInv /\ ArgInv /\ OwnerInv /\ TeardownInv /\ NoLeak
  BY DEF IInv
<1>1. h \in held[c] /\ handle[h] \in {"up", "dead", "closing"}
  BY <1>0 DEF HeldInv
<1>2. HeldInv'
  BY <1>0, <1>1 DEF TypeOK, HeldInv, OwnerInv, Creating
<1>3. MapInv'
  BY <1>0, <1>1 DEF TypeOK, MapInv, OwnerInv
<1>4. GivenInv'
  BY <1>0, <1>1 DEF TypeOK, GivenInv
<1>5. ArgInv'
  BY <1>0 DEF ArgInv
<1>6. OwnerInv'
  BY <1>0 DEF OwnerInv
<1>7. NoLeak'
  BY <1>0, <1>1 DEF TypeOK, NoLeak, Registered, Holds
<1>8. TeardownInv'
  BY <1>0, <1>1 DEF TypeOK, TeardownInv
<1>9. QED
  BY <1>2, <1>3, <1>4, <1>5, <1>6, <1>7, <1>8 DEF IInv

LEMMA EndCloseInv ==
  ASSUME IInv, TypeOK', NEW c \in Clients, NEW h \in Handles, EndClose(c, h)
  PROVE  IInv'
<1> USE DEF EndClose
<1>0. TypeOK /\ HeldInv /\ MapInv /\ GivenInv /\ ArgInv /\ OwnerInv /\ TeardownInv /\ NoLeak
  BY DEF IInv
<1>1. HeldInv'
  BY <1>0 DEF TypeOK, HeldInv, OwnerInv, Creating
<1>2. MapInv'
  BY <1>0 DEF TypeOK, MapInv, OwnerInv
<1>3. GivenInv'
  BY <1>0 DEF TypeOK, GivenInv
<1>4. ArgInv'
  BY <1>0 DEF ArgInv
<1>5. OwnerInv'
  BY <1>0 DEF TypeOK, OwnerInv
<1>6. NoLeak'
  BY <1>0 DEF TypeOK, NoLeak, Registered, Holds, Live
<1>7. TeardownInv'
  BY <1>0 DEF TypeOK, TeardownInv
<1>8. QED
  BY <1>1, <1>2, <1>3, <1>4, <1>5, <1>6, <1>7 DEF IInv

LEMMA DieInv ==
  ASSUME IInv, TypeOK', NEW h \in Handles, Die(h)
  PROVE  IInv'
<1> USE DEF Die, client_vars
<1>0. TypeOK /\ HeldInv /\ MapInv /\ GivenInv /\ ArgInv /\ OwnerInv /\ TeardownInv /\ NoLeak
  BY DEF IInv
<1>1. HeldInv'
  BY <1>0 DEF TypeOK, HeldInv, Creating
<1>2. MapInv'
  BY <1>0 DEF TypeOK, MapInv
<1>3. GivenInv'
  BY <1>0 DEF TypeOK, GivenInv
<1>4. ArgInv' /\ OwnerInv'
  BY <1>0 DEF ArgInv, OwnerInv
<1>5. NoLeak'
  BY <1>0 DEF TypeOK, NoLeak, Registered, Holds, Live
<1>6. TeardownInv'
  BY <1>0 DEF TypeOK, TeardownInv
<1>7. QED
  BY <1>1, <1>2, <1>3, <1>4, <1>5, <1>6 DEF IInv

LEMMA NextIInv == IInv /\ [Next]_vars => IInv'
<1> SUFFICES ASSUME IInv, [Next]_vars PROVE IInv'
  OBVIOUS
<1>0. TypeOK'
  BY TypeStep
<1>1. ASSUME NEW c \in Clients, NEW step \in {"close", "close_all", "cleanup", "list", "lookup"},
             NEW id, step \in {"close", "lookup"} => id \in Ids,
             step \in {"close_all", "cleanup"} => id = 0, Call(c, step, id)
      PROVE  IInv'
  <2>1. held[c] = {}
    BY <1>1, EmptyStack DEF Call, Begin, Creating
  <2>2. QED
    BY <1>0, <1>1, <2>1, QuietStep DEF Call, Begin, Goto, Creating
<1>2. ASSUME NEW c \in Clients, NEW r, Return(c, r), held[c] = {},
             UNCHANGED <<tunnels, handle, given, held, next_tunnel_id>>
      PROVE  IInv'
  BY <1>0, <1>2, QuietStep DEF Return, Goto, Creating
<1>3. ASSUME NEW c \in Clients, Acquire(c) \/ RejectAgent(c) PROVE IInv'
  BY <1>0, <1>3 DEF Acquire, RejectAgent, client_vars, IInv, HeldInv, MapInv, GivenInv,
                    ArgInv, OwnerInv, TeardownInv, NoLeak, Registered, Holds
<1>4. ASSUME NEW c \in Clients, CreateStep(c) PROVE IInv'
  <2>1. ASSUME GetTunnelBoundPort(c) PROVE IInv'
    BY <1>2, <2>1, EmptyStack DEF GetTunnelBoundPort, Inside, Creating
  <2>2. QED
    BY <1>0, <1>3, <1>4, <2>1, CreateStepInv, StartInv, UnwoundInv, InsertInv DEF CreateStep
<1>5. ASSUME NEW c \in Clients, CloseStep(c) PROVE IInv'
  <2>1. CASE CloseMissing(c)
    BY <1>2, <2>1, EmptyStack DEF CloseMissing, Inside, Creating
  <2>2. CASE CloseFound(c)
    <3>1. held[c] = {} /\ arg[c] \in RegisteredIds
      BY <2>2, EmptyStack DEF CloseFound, Inside, Creating, RegisteredIds, IInv, ArgInv
    <3>2. QED
      BY <1>0, <2>2, <3>1, TakeOutInv DEF CloseFound
  <2>3. CASE CloseAllSnapshot(c) \/ CollectInactive(c)
    <3>1. held[c] = {} /\ arg[c] = 0
      BY <2>3, EmptyStack DEF CloseAllSnapshot, CollectInactive, Inside, Creating, IInv, ArgInv
    <3>2. QED
      BY <1>0, <2>3, <3>1, TakeOutInv DEF CloseAllSnapshot, CollectInactive
  <2>4. CASE TornDown(c)
    BY <1>2, <2>4 DEF TornDown
  <2>5. QED
    BY <1>0, <1>1, <1>5, <2>1, <2>2, <2>3, <2>4, BeginCloseInv, EndCloseInv
       DEF CloseStep, CloseTunnel, CloseAllTunnels, CleanupInactiveTunnels
<1>6. ASSUME NEW c \in Clients, ReadStep(c) PROVE IInv'
  <2>1. CASE ListContended(c)
    BY <1>2, <2>1, EmptyStack DEF ListContended, Creating
  <2>2. CASE ListRows(c)
    BY <1>2, <2>2, EmptyStack DEF ListRows, Inside, Creating
  <2>3. CASE LookupAnswer(c)
    BY <1>2, <2>3, EmptyStack DEF LookupAnswer, Inside, Creating
  <2>4. QED
    BY <1>1, <1>6, <2>1, <2>2, <2>3 DEF ReadStep, ListTunnels, Lookup
<1>7. CASE UNCHANGED vars
  BY <1>7 DEF vars, client_vars, IInv, TypeOK, HeldInv, MapInv, GivenInv, ArgInv, OwnerInv,
              TeardownInv, NoLeak, Registered, Holds
<1>8. QED
  BY <1>0, <1>3, <1>4, <1>5, <1>6, <1>7, DieInv DEF Next

(* The inductive invariant holds in every reachable state. *)
THEOREM Invariance == Spec => []IInv
  BY InitIInv, NextIInv, PTL DEF Spec

(* Every variable keeps its type. *)
THEOREM TypeCorrect == Spec => []TypeOK
<1>1. IInv => TypeOK
  BY DEF IInv
<1>2. QED
  BY <1>1, Invariance, PTL

(* The manager never loses a tunnel whose threads may still run. *)
THEOREM TunnelsAreNotLeaked == Spec => []NoLeak
<1>1. IInv => NoLeak
  BY DEF IInv
<1>2. QED
  BY <1>1, Invariance, PTL

(* No tunnel is ever reachable from two places, so Close() is never run    *)
(* by two clients on one tunnel.                                           *)
THEOREM OneOwner == Spec => []SoleOwner
<1>1. IInv => SoleOwner
  BY DEF IInv, SoleOwner, OwnerInv, MapInv, Holds, Registered
<1>2. QED
  BY <1>1, Invariance, PTL

(* No registered tunnel is being torn down, so nobody holding              *)
(* tunnels_mutex waits for a teardown.                                     *)
THEOREM RegistryHoldsNoTeardown == Spec => []TeardownOutsideRegistry
<1>1. IInv => TeardownOutsideRegistry
  BY DEF IInv, MapInv, TeardownOutsideRegistry, Registered
<1>2. QED
  BY <1>1, Invariance, PTL

(* A client moves by its own steps alone. *)
LEMMA OwnStep ==
  ASSUME TypeOK, Next, NEW c \in Clients, pc'[c] # pc[c]
  PROVE  CreateStep(c) \/ CloseStep(c) \/ ReadStep(c)
<1>1. ASSUME NEW d \in Clients, d # c, CreateStep(d) \/ CloseStep(d) \/ ReadStep(d)
      PROVE  pc'[c] = pc[c]
  BY <1>1 DEF TypeOK, CreateStep, CloseStep, ReadStep, Create, Begin, Goto, Started,
     StartThrew, Unwound, Insert, RejectAgent, GetTunnelBoundPort, Call, CloseTunnel,
     CloseAllTunnels, CleanupInactiveTunnels, CloseMissing, CloseFound, CloseAllSnapshot,
     CollectInactive, TakeOut, BeginClose, EndClose, TornDown, ListTunnels, ListContended,
     ListRows, Lookup, LookupAnswer, Return, client_vars
<1>2. QED
  BY <1>1 DEF Next, Acquire, Die, client_vars

(* Only GetTunnelBoundPort ends the wait for a port. *)
LEMMA PortStep ==
  ASSUME TypeOK, Next, NEW c \in Clients, pc[c] = "port", pc'[c] = "idle", result'[c] = "no port"
  PROVE  tunnels[arg[c]] = NoHandle
<1>1. CreateStep(c) \/ CloseStep(c) \/ ReadStep(c)
  BY OwnStep
<1>2. GetTunnelBoundPort(c)
  BY <1>1 DEF TypeOK, CreateStep, CloseStep, ReadStep, Create, Begin, Started,
     StartThrew, Unwound, Insert, Inside, RejectAgent, Call, CloseTunnel,
     CloseAllTunnels, CleanupInactiveTunnels, CloseMissing, CloseFound, CloseAllSnapshot,
     CollectInactive, BeginClose, EndClose, TornDown, ListTunnels, ListContended,
     ListRows, Lookup, LookupAnswer, client_vars
<1>3. QED
  BY <1>2 DEF TypeOK, GetTunnelBoundPort, Return

(* 'closed' is the answer of TornDown alone; 'not found' comes from a look *)
(* at the map, by CloseTunnel or a reader.                                 *)
LEMMA AnswerStep ==
  ASSUME TypeOK, Next, NEW c \in Clients, pc[c] # "idle", pc'[c] = "idle"
  PROVE  /\ result'[c] = "closed" => TornDown(c)
         /\ result'[c] = "not found" =>
              pc[c] \in {"close", "lookup"} /\ tunnels[arg[c]] = NoHandle
<1>1. CreateStep(c) \/ CloseStep(c) \/ ReadStep(c)
  BY OwnStep
<1>2. CASE CreateStep(c)
  <2>1. result'[c] \in {"threw", "id", "port", "no port"}
    BY <1>2 DEF TypeOK, CreateStep, Create, Begin, Started, StartThrew, Unwound, Insert,
       RejectAgent, GetTunnelBoundPort, Return, Goto
  <2>2. QED
    BY <2>1
<1>3. CASE CloseStep(c)
  <2>1. CloseMissing(c) \/ TornDown(c)
    BY <1>3 DEF TypeOK, CloseStep, Call, Begin, CloseTunnel, CloseAllTunnels,
       CleanupInactiveTunnels, CloseFound, CloseAllSnapshot, CollectInactive, TakeOut, Goto,
       BeginClose, EndClose, client_vars
  <2>2. QED
    BY <2>1 DEF TypeOK, CloseMissing, TornDown, Inside, Return
<1>4. CASE ReadStep(c)
  <2>1. ListContended(c) \/ ListRows(c) \/ LookupAnswer(c)
    BY <1>4 DEF ReadStep, ListTunnels, Lookup, Call, Begin
  <2>2. QED
    BY <2>1 DEF TypeOK, ListContended, ListRows, LookupAnswer, Inside, Return
<1>5. QED
  BY <1>1, <1>2, <1>3, <1>4

(* A tunnel is registered under the id it was given or not at all. *)
LEMMA NotRegistered ==
  ASSUME IInv, NEW h \in Handles, NEW id, given[h] = id, tunnels[id] = NoHandle
  PROVE  ~Registered(h)
<1> SUFFICES ASSUME NEW i \in Ids, tunnels[i] = h PROVE FALSE
  BY DEF Registered
<1>1. given[h] = i
  BY DEF IInv, MapInv
<1>2. QED
  BY <1>1

(* A port of 0 is reported only for a tunnel somebody else closed. *)
THEOREM PortReported == Spec => PortUnlessClosed
<1> DEFINE A == \A c \in Clients : pc[c] = "port" /\ pc'[c] = "idle" /\ result'[c] = "no port" =>
                 \A h \in Handles : given[h] = arg[c] =>
                   handle[h] \in {"closing", "closed"} \/ \E d \in Clients : d # c /\ Holds(d, h)
<1>1. IInv /\ [Next]_vars => [A]_vars
  <2> SUFFICES ASSUME IInv, Next, NEW c \in Clients, pc[c] = "port", pc'[c] = "idle",
                      result'[c] = "no port", NEW h \in Handles, given[h] = arg[c]
               PROVE  handle[h] \in {"closing", "closed"} \/ \E d \in Clients : d # c /\ Holds(d, h)
    OBVIOUS
  <2>1. arg[c] \in Ids /\ held[c] = {}
    BY EmptyStack DEF IInv, ArgInv, Creating
  <2>2. tunnels[arg[c]] = NoHandle
    BY PortStep DEF IInv
  <2>3. handle[h] # "unborn"
    BY <2>1, IdsAreNotZero DEF IInv, GivenInv
  <2>4. ~Registered(h)
    BY <2>2, NotRegistered
  <2>5. QED
    BY <2>1, <2>3, <2>4 DEF IInv, TypeOK, HandleStates, NoLeak, Live, Holds
<1>2. QED
  BY <1>1, Invariance, PTL DEF Spec, PortUnlessClosed

(* tunnel_close says 'closed' after every tunnel of that id is, and 'not   *)
(* found' when the registry has none, with any number of other clients     *)
(* creating and closing meanwhile.                                         *)
THEOREM CloseTellsTheTruth == Spec => CloseAnswersTruthfully
<1> DEFINE A == \A c \in Clients : pc[c] # "idle" /\ pc'[c] = "idle" =>
                 /\ result'[c] = "closed" /\ arg[c] # 0 =>
                      \A h \in Handles : given[h] = arg[c] => handle[h] = "closed"
                 /\ result'[c] = "not found" =>
                      \A h \in Handles : given[h] = arg[c] => ~Registered(h)
<1>1. IInv /\ [Next]_vars => [A]_vars
  <2> SUFFICES ASSUME IInv, Next, NEW c \in Clients, pc[c] # "idle", pc'[c] = "idle",
                      NEW h \in Handles, given[h] = arg[c]
               PROVE  /\ result'[c] = "closed" /\ arg[c] # 0 => handle[h] = "closed"
                      /\ result'[c] = "not found" => ~Registered(h)
    OBVIOUS
  <2>1. ASSUME result'[c] = "closed", arg[c] # 0
        PROVE  handle[h] = "closed"
    BY <2>1, AnswerStep DEF IInv, TornDown, TeardownInv
  <2>2. ASSUME result'[c] = "not found"
        PROVE  ~Registered(h)
    BY <2>2, AnswerStep, NotRegistered DEF IInv
  <2>3. QED
    BY <2>1, <2>2
<1>2. QED
  BY <1>1, Invariance, PTL DEF Spec, CloseAnswersTruthfully
-----------------------------------------------------------------------------
(* Implementation of the abstract registry. *)

(* Where a handle is decides where the abstract tunnel is in its life. *)
Lives ==
  \A h \in Handles :
    /\ handle[h] = "unborn" => Life(h) = "free"
    /\ Registered(h) => Life(h) = "open"
    /\ handle[h] = "closed" => Life(h) = "closed"
    /\ \A c \in Clients : h \in held[c] =>
         Life(h) = IF pc[c] \in {"start", "insert"} THEN "reserved" ELSE "closing"

LEMMA LifeByPlace == IInv => Lives
<1> SUFFICES ASSUME IInv, NEW h \in Handles
             PROVE  /\ handle[h] = "unborn" => Life(h) = "free"
                    /\ Registered(h) => Life(h) = "open"
                    /\ handle[h] = "closed" => Life(h) = "closed"
                    /\ \A c \in Clients : h \in held[c] =>
                         Life(h) = IF pc[c] \in {"start", "insert"} THEN "reserved" ELSE "closing"
  BY DEF Lives
<1>1. Registered(h) => handle[h] \in {"up", "dead"}
  BY DEF IInv, MapInv, Registered
<1>2. ASSUME NEW c \in Clients, h \in held[c]
      PROVE  Life(h) = IF pc[c] \in {"start", "insert"} THEN "reserved" ELSE "closing"
  <2>1. ~Registered(h) /\ \A d \in Clients : h \in held[d] => d = c
    BY <1>2 DEF IInv, OwnerInv, Registered
  <2>2. /\ handle[h] \notin {"unborn", "closed"}
        /\ pc[c] \in {"start", "insert"} => handle[h] # "closing"
    BY <1>2 DEF IInv, HeldInv, Creating
  <2>3. QED
    BY <1>2, <2>1, <2>2 DEF Life, Holds
<1>3. QED
  BY <1>1, <1>2 DEF Life

LEMMA LifeByPlaceNext == IInv' => Lives'
  BY LifeByPlace, PTL

(* Steps after which every handle is where it was. *)
LEMMA SameLife ==
  ASSUME IInv, UNCHANGED <<tunnels, held>>,
         \A h \in Handles : \/ handle'[h] = handle[h]
                            \/ handle[h] \in Live \ {"closing"} /\ handle'[h] \in Live \ {"closing"}
                            \/ /\ handle[h] \in Live /\ handle'[h] \in Live
                               /\ ~ \E c \in Clients : h \in held[c] /\ pc[c] \in {"start", "insert"},
         \A c \in Clients : held[c] # {} =>
           (pc'[c] \in {"start", "insert"} <=> pc[c] \in {"start", "insert"})
  PROVE  [h \in Handles |-> Life(h)]' = [h \in Handles |-> Life(h)]
<1> SUFFICES ASSUME NEW h \in Handles PROVE Life(h)' = Life(h)
  OBVIOUS
<1>1. Registered(h)' <=> Registered(h)
  BY DEF Registered
<1>2. (\E c \in Clients : Holds(c, h) /\ pc[c] \in {"start", "insert"})'
        <=> \E c \in Clients : Holds(c, h) /\ pc[c] \in {"start", "insert"}
  BY DEF Holds
<1>3. QED
  BY <1>1, <1>2 DEF Life, Live, Holds

(* A handle nobody touched in a step keeps its place. *)
LEMMA UntouchedLife ==
  ASSUME NEW g \in Handles, handle'[g] = handle[g],
         \A id \in Ids : tunnels'[id] = g <=> tunnels[id] = g,
         \A d \in Clients : /\ g \in held'[d] <=> g \in held[d]
                            /\ g \in held[d] => pc'[d] = pc[d]
  PROVE  Life(g)' = Life(g)
<1>1. Registered(g)' <=> Registered(g)
  BY DEF Registered
<1>2. (\E d \in Clients : Holds(d, g) /\ pc[d] \in {"start", "insert"})'
        <=> \E d \in Clients : Holds(d, g) /\ pc[d] \in {"start", "insert"}
  BY DEF Holds
<1>3. QED
  BY <1>1, <1>2 DEF Life

LEMMA InitRegistry == Init => Registry!Init
<1> SUFFICES ASSUME Init PROVE Registry!Init
  OBVIOUS
<1>1. \A h \in Handles : Life(h) = "free"
  BY DEF Init, Life
<1>2. QED
  BY <1>1 DEF Init, Registry!Init

(* A step that moves one tunnel along its life. *)
LEMMA OneMoves ==
  ASSUME NEW h \in Handles, NEW b, Life(h)' = b,
         \A g \in Handles : g # h => Life(g)' = Life(g)
  PROVE  [g \in Handles |-> Life(g)]' = [[g \in Handles |-> Life(g)] EXCEPT ![h] = b]
  OBVIOUS

(* Each step of a create is a step of the registry or none. *)
LEMMA CreateRegistry ==
  ASSUME IInv, IInv', NEW c \in Clients, CreateStep(c)
  PROVE  [Registry!Next]_(Registry!vars)
<1> DEFINE L == [h \in Handles |-> Life(h)]
<1>0. TypeOK /\ TypeOK' /\ Lives /\ Lives'
  BY LifeByPlace, LifeByPlaceNext DEF IInv
<1>1. ASSUME L' = L, UNCHANGED given PROVE [Registry!Next]_(Registry!vars)
  BY <1>1 DEF Registry!vars
<1>2. ASSUME NEW create \in Creates, NEW h \in Handles, Create(c, create, h)
      PROVE  Registry!Next
  <2>1. next_tunnel_id \in Ids
    <3>1. next_tunnel_id \in 1 .. MaxTunnels + 1
      BY <1>0 DEF TypeOK
    <3>2. next_tunnel_id <= MaxTunnels
      BY <1>2 DEF Create, GenerateTunnelId
    <3>3. QED
      BY <3>1, <3>2 DEF Ids
  <2>2. \A g \in Handles : given[g] # next_tunnel_id
    <3>1. \A g \in Handles : given[g] < next_tunnel_id /\ given[g] \in Nat
      BY <1>0 DEF IInv, GivenInv, TypeOK, Ids
    <3>2. QED
      BY <2>1, <3>1 DEF Ids
  <2>3. Life(h) = "free" /\ Life(h)' = "reserved"
    <3>1. h \in held'[c] /\ pc'[c] = "start"
      BY <1>0, <1>2 DEF Create, Begin, Goto, TypeOK
    <3>2. Life(h)' = "reserved"
      BY <1>0, <3>1 DEF Lives
    <3>3. QED
      BY <1>0, <1>2, <3>2 DEF Create, Lives
  <2>4. ASSUME NEW g \in Handles, g # h PROVE Life(g)' = Life(g)
    <3>1. held[c] = {}
      BY <1>2, EmptyStack DEF Create, Begin, Creating
    <3>2. QED
      BY <1>0, <1>2, <2>4, <3>1, UntouchedLife DEF Create, Begin, Goto, TypeOK
  <2>5. L' = [L EXCEPT ![h] = "reserved"]
    BY <2>3, <2>4, OneMoves
  <2>6. Registry!Reserve(h, next_tunnel_id)
    BY <1>2, <2>2, <2>3, <2>5 DEF Registry!Reserve, Registry!Move, Create
  <2>7. QED
    BY <2>1, <2>6 DEF Registry!Next
<1>3. ASSUME NEW h \in Handles, Started(c, h) PROVE L' = L /\ UNCHANGED given
  <2>1. h \in held[c] /\ handle[h] = "starting" /\ \A g \in held[c] : g = h
    BY <1>3 DEF Started, IInv, HeldInv, Creating
  <2>2. QED
    BY <1>0, <1>3, <2>1, SameLife DEF Started, Goto, TypeOK, Live
<1>4. ASSUME NEW h \in Handles, StartThrew(c, h) PROVE Registry!Discard(h)
  <2>1. h \in held[c] /\ pc[c] = "start" /\ \A g \in held[c] : g = h
    BY <1>4 DEF StartThrew, IInv, HeldInv, Creating
  <2>2. Life(h) = "reserved" /\ Life(h)' = "closing"
    <3>1. h \in held'[c] /\ pc'[c] = "unwind"
      BY <1>0, <1>4 DEF StartThrew, Goto, TypeOK
    <3>2. QED
      BY <1>0, <2>1, <3>1 DEF Lives
  <2>3. \A g \in Handles : g # h => Life(g)' = Life(g)
    BY <1>0, <1>4, <2>1, UntouchedLife DEF StartThrew, Goto, TypeOK
  <2>4. QED
    BY <1>4, <2>2, <2>3, OneMoves DEF Registry!Discard, Registry!Move, StartThrew
<1>5. ASSUME NEW h \in Handles, Unwound(c, h) PROVE Registry!Finish(h)
  <2>1. h \in held[c] /\ pc[c] = "unwind" /\ \A g \in held[c] : g = h
    BY <1>5 DEF Unwound, IInv, HeldInv, Creating
  <2>2. Life(h) = "closing" /\ Life(h)' = "closed"
    <3>1. handle'[h] = "closed"
      BY <1>0, <1>5 DEF Unwound, TypeOK
    <3>2. QED
      BY <1>0, <2>1, <3>1 DEF Lives
  <2>3. \A g \in Handles : g # h => Life(g)' = Life(g)
    BY <1>0, <1>5, <2>1, UntouchedLife DEF Unwound, Return, Goto, TypeOK
  <2>4. QED
    BY <1>5, <2>2, <2>3, OneMoves DEF Registry!Finish, Registry!Move, Unwound
<1>6. ASSUME NEW h \in Handles, Insert(c, h) PROVE Registry!Publish(h)
  <2>1. /\ h \in held[c] /\ pc[c] = "insert" /\ \A g \in held[c] : g = h
        /\ given[h] = arg[c] /\ handle[h] # "unborn"
    BY <1>6 DEF Insert, Inside, IInv, HeldInv, Creating
  <2>2. arg[c] \in Ids
    BY <1>0, <2>1 DEF TypeOK, IInv, GivenInv
  <2>3. tunnels[arg[c]] \in {NoHandle, h}
    <3> SUFFICES ASSUME tunnels[arg[c]] # NoHandle PROVE tunnels[arg[c]] = h
      OBVIOUS
    <3>1. tunnels[arg[c]] \in Handles /\ given[tunnels[arg[c]]] = given[h] /\ given[h] # 0
      BY <1>0, <2>1, <2>2 DEF TypeOK, IInv, MapInv, GivenInv
    <3>2. QED
      BY <3>1 DEF IInv, GivenInv
  <2>4. Life(h) = "reserved" /\ Life(h)' = "open"
    <3>1. Registered(h)'
      BY <1>0, <1>6, <2>2 DEF Insert, Registered, TypeOK
    <3>2. QED
      BY <1>0, <2>1, <3>1 DEF Lives
  <2>5. ASSUME NEW g \in Handles, g # h PROVE Life(g)' = Life(g)
    <3>1. /\ tunnels' = [tunnels EXCEPT ![arg[c]] = h] /\ held' = [held EXCEPT ![c] = {}]
          /\ handle' = handle
          /\ pc' = [pc EXCEPT ![c] = "port"] \/ pc' = [pc EXCEPT ![c] = "idle"]
      BY <1>6 DEF Insert, Return, Goto
    <3>2. \A id \in Ids : tunnels'[id] = g <=> tunnels[id] = g
      BY <1>0, <2>2, <2>3, <2>5, <3>1 DEF TypeOK
    <3>3. \A d \in Clients : /\ g \in held'[d] <=> g \in held[d]
                             /\ g \in held[d] => pc'[d] = pc[d]
      BY <1>0, <2>1, <2>5, <3>1 DEF TypeOK
    <3>4. QED
      BY <3>1, <3>2, <3>3, UntouchedLife
  <2>6. QED
    BY <1>6, <2>4, <2>5, OneMoves DEF Registry!Publish, Registry!Move, Insert
<1>7. ASSUME GetTunnelBoundPort(c) PROVE L' = L /\ UNCHANGED given
  <2>1. held[c] = {}
    BY <1>7, EmptyStack DEF GetTunnelBoundPort, Inside, Creating
  <2>2. QED
    BY <1>0, <1>7, <2>1, SameLife DEF GetTunnelBoundPort, Return, Goto, TypeOK
<1>8. ASSUME RejectAgent(c) PROVE L' = L /\ UNCHANGED given
  BY <1>8, SameLife DEF RejectAgent
<1>9. QED
  BY <1>1, <1>2, <1>3, <1>4, <1>5, <1>6, <1>7, <1>8 DEF CreateStep, Registry!Next

(* Each step of a close is a step of the registry or none. *)
LEMMA CloseRegistry ==
  ASSUME IInv, IInv', NEW c \in Clients, CloseStep(c)
  PROVE  [Registry!Next]_(Registry!vars)
<1> DEFINE L == [h \in Handles |-> Life(h)]
<1>0. TypeOK /\ TypeOK' /\ Lives /\ Lives'
  BY LifeByPlace, LifeByPlaceNext DEF IInv
<1>1. ASSUME L' = L, UNCHANGED given PROVE [Registry!Next]_(Registry!vars)
  BY <1>1 DEF Registry!vars
<1>2. ASSUME NEW step \in {"close", "close_all", "cleanup"}, NEW id, Call(c, step, id)
      PROVE  L' = L /\ UNCHANGED given
  <2>1. held[c] = {}
    BY <1>2, EmptyStack DEF Call, Begin, Creating
  <2>2. QED
    BY <1>0, <1>2, <2>1, SameLife DEF Call, Begin, Goto, TypeOK
<1>3. ASSUME CloseMissing(c) PROVE L' = L /\ UNCHANGED given
  <2>1. held[c] = {}
    BY <1>3, EmptyStack DEF CloseMissing, Inside, Creating
  <2>2. QED
    BY <1>0, <1>3, <2>1, SameLife DEF CloseMissing, Return, Goto, TypeOK
<1>4. ASSUME TornDown(c) PROVE L' = L /\ UNCHANGED given
  BY <1>0, <1>4, SameLife DEF TornDown, Return, Goto, TypeOK
<1>5. ASSUME NEW h \in Handles, BeginClose(c, h) PROVE L' = L /\ UNCHANGED given
  <2>1. /\ h \in held[c] /\ pc[c] = "teardown" /\ handle[h] \in Live
        /\ \A d \in Clients : h \in held[d] => d = c
    BY <1>5 DEF BeginClose, IInv, HeldInv, OwnerInv, Live
  <2>2. QED
    BY <1>0, <1>5, <2>1, SameLife DEF BeginClose, client_vars, TypeOK, Live
<1>6. ASSUME NEW h \in Handles, EndClose(c, h) PROVE Registry!Finish(h)
  <2>1. Life(h) = "closing" /\ Life(h)' = "closed"
    <3>1. handle'[h] = "closed"
      BY <1>0, <1>6 DEF EndClose, TypeOK
    <3>2. QED
      BY <1>0, <1>6, <3>1 DEF Lives, EndClose
  <2>2. \A g \in Handles : g # h => Life(g)' = Life(g)
    BY <1>0, <1>6, UntouchedLife DEF EndClose, TypeOK
  <2>3. QED
    BY <1>6, <2>1, <2>2, OneMoves DEF Registry!Finish, Registry!Move, EndClose
<1>7. ASSUME NEW S \in SUBSET RegisteredIds, held[c] = {}, TakeOut(c, S)
      PROVE  Registry!Next
  <2> DEFINE T == {tunnels[id] : id \in S}
  <2>1. T \in SUBSET Handles /\ \A h \in T : Registered(h)
    BY <1>0 DEF RegisteredIds, TypeOK, Registered
  <2>2. \A h \in T : Life(h) = "open"
    BY <1>0, <2>1 DEF Lives
  <2>3. held'[c] = T /\ pc'[c] = "teardown"
    BY <1>0, <1>7 DEF TakeOut, Goto, TypeOK
  <2>4. \A h \in T : Life(h)' = "closing"
    BY <1>0, <2>1, <2>3 DEF Lives
  <2>5. ASSUME NEW g \in Handles, g \notin T PROVE Life(g)' = Life(g)
    <3>1. \A id \in Ids : tunnels'[id] = g <=> tunnels[id] = g
      BY <1>7, <2>5 DEF TakeOut
    <3>2. \A d \in Clients : /\ g \in held'[d] <=> g \in held[d]
                             /\ g \in held[d] => pc'[d] = pc[d]
      BY <1>0, <1>7, <2>3, <2>5 DEF TakeOut, Goto, TypeOK
    <3>3. QED
      BY <1>7, <3>1, <3>2, UntouchedLife DEF TakeOut
  <2>6. L' = [h \in Handles |-> IF h \in T THEN "closing" ELSE L[h]]
    BY <2>1, <2>4, <2>5
  <2>7. Registry!Take(T)
    BY <1>7, <2>1, <2>2, <2>6 DEF Registry!Take, TakeOut
  <2>8. QED
    BY <2>1, <2>7 DEF Registry!Next
<1>8. ASSUME CloseFound(c) \/ CloseAllSnapshot(c) \/ CollectInactive(c) PROVE Registry!Next
  <2>1. held[c] = {}
    BY <1>8, EmptyStack DEF CloseFound, CloseAllSnapshot, CollectInactive, Inside, Creating
  <2>2. CloseFound(c) => arg[c] \in RegisteredIds
    BY DEF CloseFound, Inside, RegisteredIds, IInv, ArgInv
  <2>3. QED
    BY <1>7, <1>8, <2>1, <2>2 DEF CloseFound, CloseAllSnapshot, CollectInactive
<1>9. QED
  BY <1>1, <1>2, <1>3, <1>4, <1>5, <1>6, <1>8
     DEF CloseStep, CloseTunnel, CloseAllTunnels, CleanupInactiveTunnels, Registry!Next

LEMMA NextRegistry == IInv /\ IInv' /\ [Next]_vars => [Registry!Next]_(Registry!vars)
<1> SUFFICES ASSUME IInv, IInv', [Next]_vars
             PROVE  [Registry!Next]_(Registry!vars)
  OBVIOUS
<1> DEFINE L == [h \in Handles |-> Life(h)]
<1>0. TypeOK
  BY DEF IInv
<1>1. ASSUME L' = L, UNCHANGED given PROVE [Registry!Next]_(Registry!vars)
  BY <1>1 DEF Registry!vars
<1>2. ASSUME NEW c \in Clients, Acquire(c) PROVE L' = L /\ UNCHANGED given
  BY <1>2, SameLife DEF Acquire, client_vars
<1>3. ASSUME NEW c \in Clients, ReadStep(c) PROVE L' = L /\ UNCHANGED given
  <2>1. held[c] = {}
    BY <1>3, EmptyStack DEF ReadStep, ListTunnels, Lookup, Call, Begin, ListContended,
                            ListRows, LookupAnswer, Inside, Creating
  <2>2. /\ UNCHANGED <<tunnels, held, handle, given>>
        /\ \A d \in Clients : d # c => pc'[d] = pc[d]
    BY <1>0, <1>3 DEF ReadStep, ListTunnels, Lookup, Call, Begin, Goto, ListContended,
                      ListRows, LookupAnswer, Return, TypeOK
  <2>3. QED
    BY <2>1, <2>2, SameLife
<1>4. ASSUME NEW h \in Handles, Die(h) PROVE L' = L /\ UNCHANGED given
  BY <1>0, <1>4, SameLife DEF Die, client_vars, TypeOK, Live
<1>5. CASE UNCHANGED vars
  BY <1>1, <1>5, SameLife DEF vars, client_vars
<1>6. QED
  BY <1>1, <1>2, <1>3, <1>4, <1>5, CreateRegistry, CloseRegistry DEF Next

(* The manager, with its threads, lock and map, implements the abstract    *)
(* registry.                                                               *)
THEOREM ImplementsRegistry == Spec => RegistrySpec
  BY InitRegistry, NextRegistry, Invariance, PTL DEF Spec, RegistrySpec, Registry!Spec
=============================================================================
