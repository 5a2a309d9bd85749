--------------------------- MODULE MeshNodeProofs ---------------------------
(***************************************************************************)
(* Proofs about MeshNode, for any number of calls, secrets and meshes.     *)
(* The argument has three parts: MeshLoader's mutex makes its calls set    *)
(* the latch once; the cache ties every backend to one secret for good;    *)
(* and mu_ keeps a second call out while a first one brings the node up.   *)
(***************************************************************************)
EXTENDS MeshNode, TLAPS, FiniteSetTheorems

LoaderPoints == {"check", "extract", "load", "resolve"}
UpPoints == {"activate", "check", "extract", "load", "resolve", "node", "up"}

PcType == pc \in [Calls -> Points] /\ outcome \in [Calls -> {"none", "ok", "failed"}]
LoaderType ==
  /\ compiled \subseteq Kinds /\ broken \subseteq compiled
  /\ active_kind \in Kinds \cup {None} /\ loader \in Calls \cup {None}
  /\ mapped \subseteq Kinds /\ files \subseteq Calls
CacheType ==
  /\ cache \in [Secrets -> Calls \cup {None}] /\ backend \in [Calls -> Calls \cup {None}]
  /\ request \in [Calls -> Kinds \cup Secrets \cup {None}]
BackendType == mu \in [Calls -> Calls \cup {None}] /\ api \in [Calls -> Kinds \cup {None}]
FlagType == node \in [Calls -> BOOLEAN] /\ up \in [Calls -> BOOLEAN]
CountType ==
  reg \in [Secrets -> Nat] /\ servers \in [Secrets -> Nat] /\ abandoned \in [Secrets -> Nat]

TypeParts == PcType /\ LoaderType /\ CacheType /\ BackendType /\ FlagType /\ CountType

(* A call names something from the moment it is made, and a secret where   *)
(* it works with a backend; it has an outcome when it is over.             *)
RequestInv ==
  \A t \in Calls :
    /\ pc[t] = "idle" <=> request[t] = None
    /\ pc[t] \in BackendPoints \cup {"lookup"} => request[t] \in Secrets
    /\ outcome[t] # "none" => pc[t] = "done"

(* A backend belongs to the secret of the call that made it, and calls on  *)
(* a secret work with its backend.                                         *)
CacheInv ==
  /\ \A s \in Secrets : cache[s] # None => request[cache[s]] = s
  /\ \A t \in Calls : request[t] \in Secrets /\ pc[t] # "lookup" =>
       backend[t] # None /\ backend[t] = cache[request[t]]
  /\ \A b \in Calls : node[b] \/ up[b] \/ api[b] # None =>
       request[b] \in Secrets /\ cache[request[b]] = b

(* MeshLoader: who is inside, and what that call has found out.            *)
LoaderInv ==
  \A t \in Calls :
    /\ pc[t] \in LoaderPoints => loader = t
    /\ pc[t] \in {"extract", "load", "resolve"} => active_kind = None /\ Wanted(t) \in compiled
    /\ pc[t] = "resolve" => Wanted(t) \in mapped

LatchInv ==
  /\ active_kind # None => active_kind \in mapped \cap compiled
  /\ \A k \in mapped \ broken : k = active_kind \/ \E t \in Calls : pc[t] = "resolve" /\ k = Wanted(t)

ApiInv ==
  /\ \A b \in Calls : api[b] # None => api[b] = active_kind /\ api[b] = KindOf[request[b]]
  /\ \A b \in Calls : up[b] => api[b] # None
  /\ \A t \in Calls : pc[t] \in {"node", "up", "use", "op"} => api[backend[t]] # None
  /\ \A t \in Calls : outcome[t] = "ok" => Wanted(t) = active_kind

(* mu_ is held while the node is brought up and during an operation.       *)
MuInv ==
  \A t \in Calls : request[t] \in Secrets =>
    /\ pc[t] \in UpPoints => mu[backend[t]] = t /\ ~ up[backend[t]]
    /\ pc[t] = "up" => node[backend[t]]
    /\ pc[t] = "op" => mu[backend[t]] = t

(* The shim has a node for a secret when the flags of its backend say so.  *)
CountInv ==
  \A s \in Secrets :
    /\ reg[s] = IF cache[s] # None /\ node[cache[s]] THEN 1 ELSE 0
    /\ servers[s] = IF cache[s] # None /\ up[cache[s]] THEN 1 ELSE 0

(* A call abandons one server at most, and is then over.                   *)
Done == {t \in Calls : pc[t] = "done"}
AbandonInv == \A s \in Secrets : abandoned[s] <= Cardinality(Done)

IInv ==
  /\ TypeParts /\ RequestInv /\ CacheInv /\ LoaderInv /\ LatchInv /\ ApiInv /\ MuInv
  /\ CountInv /\ AbandonInv

USE KindsAssumption
USE DEF Set, Goto, build_vars, loader_vars, backend_vars, call_vars
-----------------------------------------------------------------------------
(* Calls that are over stay over, so there are never fewer of them.        *)
LEMMA DoneIsFinite ==
  ASSUME NEW S, S \subseteq Calls
  PROVE  IsFiniteSet(S) /\ Cardinality(S) \in Nat /\ Cardinality(S) <= Cardinality(Calls)
BY FS_Subset, FS_CardinalityType

LEMMA MoreDone ==
  ASSUME IInv, Done \subseteq Done', UNCHANGED abandoned
  PROVE  AbandonInv'
<1>1. Done' \subseteq Calls
  BY DEF Done
<1>2. Cardinality(Done) <= Cardinality(Done') /\ Cardinality(Done) \in Nat /\ Cardinality(Done') \in Nat
  BY <1>1, FS_Subset, FS_CardinalityType
<1> QED BY <1>2 DEF IInv, TypeParts, CountType, AbandonInv

(* A call is made. *)
LEMMA CallKeeps ==
  ASSUME IInv, NEW t \in Calls, NEW r \in Kinds \cup Secrets, Call(t, r)
  PROVE  IInv'
<1> USE DEF IInv, TypeParts, Call
<1>1. TypeParts'
  BY DEF PcType, LoaderType, CacheType, BackendType, FlagType, CountType, Points
<1>2. RequestInv'
  BY DEF RequestInv, PcType, CacheType, BackendPoints
<1>3. CacheInv'
  BY DEF CacheInv, RequestInv, PcType
<1>4. LoaderInv'
  BY DEF LoaderInv, LoaderPoints, Wanted
<1>5. LatchInv'
  BY DEF LatchInv, Wanted
<1>6. ApiInv'
  BY DEF ApiInv, CacheInv, RequestInv, Wanted
<1>7. MuInv'
  BY DEF MuInv, RequestInv, UpPoints
<1>8. CountInv'
  BY DEF CountInv
<1>9. AbandonInv'
  BY MoreDone DEF Done, PcType
<1> HIDE DEF IInv, TypeParts
<1> QED BY <1>1, <1>2, <1>3, <1>4, <1>5, <1>6, <1>7, <1>8, <1>9 DEF IInv

(* The cache gives out a backend. *)
LEMMA LookupKeeps ==
  ASSUME IInv, NEW t \in Calls, MeshBackendFromSecret(t)
  PROVE  IInv'
<1> USE DEF IInv, TypeParts, MeshBackendFromSecret
<1>1. TypeParts'
  BY DEF PcType, LoaderType, CacheType, BackendType, FlagType, CountType, Points, RequestInv
<1>2. RequestInv'
  BY DEF RequestInv
<1>3. CacheInv'
  BY DEF CacheInv, CacheType
<1>4. LoaderInv'
  BY DEF LoaderInv, LoaderPoints, Wanted
<1>5. LatchInv'
  BY DEF LatchInv, Wanted
<1>6. ApiInv'
  BY DEF ApiInv, Wanted
<1>7. MuInv'
  BY DEF MuInv, UpPoints
<1>8. CountInv'
  BY DEF CountInv, CacheInv
<1>9. AbandonInv'
  BY MoreDone DEF Done, PcType
<1> HIDE DEF IInv, TypeParts
<1> QED BY <1>1, <1>2, <1>3, <1>4, <1>5, <1>6, <1>7, <1>8, <1>9 DEF IInv

(* A mutex is taken, or is not needed. *)
LEMMA LockKeeps ==
  ASSUME IInv, NEW t \in Calls, AlreadyUp(t) \/ LockUp(t) \/ LockOp(t)
  PROVE  IInv'
<1> USE DEF IInv, TypeParts, AlreadyUp, LockUp, LockOp
<1>1. TypeParts'
  BY DEF PcType, LoaderType, CacheType, BackendType, FlagType, CountType, Points
<1>2. RequestInv'
  BY DEF RequestInv, PcType, BackendPoints
<1>3. CacheInv'
  BY DEF CacheInv, PcType
<1>4. LoaderInv'
  BY DEF LoaderInv, PcType, LoaderPoints, Wanted
<1>5. LatchInv'
  BY DEF LatchInv, PcType, Wanted
<1>6. ApiInv'
  BY DEF ApiInv, CacheInv, RequestInv, PcType, CacheType, BackendPoints, Wanted
<1>7. MuInv'
  BY DEF MuInv, CacheInv, PcType, CacheType, BackendType, UpPoints
<1>8. CountInv'
  BY DEF CountInv
<1>9. AbandonInv'
  BY MoreDone DEF Done, PcType
<1> HIDE DEF IInv, TypeParts
<1> QED BY <1>1, <1>2, <1>3, <1>4, <1>5, <1>6, <1>7, <1>8, <1>9 DEF IInv

(* EnsureUp() makes the node and brings it up. *)
LEMMA UpKeeps ==
  ASSUME IInv, NEW t \in Calls, NodeNew(t) \/ Up(t)
  PROVE  IInv'
<1> USE DEF IInv, TypeParts, NodeNew, Up
<1>1. TypeParts'
  <2>1. PcType' /\ LoaderType' /\ CacheType' /\ BackendType'
    BY DEF PcType, LoaderType, CacheType, BackendType, Points
  <2>2. FlagType'
    BY DEF FlagType
  <2>3. CountType'
    BY DEF CountType
  <2> QED BY <2>1, <2>2, <2>3
<1>2. RequestInv'
  BY DEF RequestInv, PcType, BackendPoints
<1>3. CacheInv'
  BY DEF CacheInv, RequestInv, PcType, FlagType, BackendPoints
<1>4. LoaderInv'
  BY DEF LoaderInv, PcType, LoaderPoints, Wanted
<1>5. LatchInv'
  BY DEF LatchInv, PcType, Wanted
<1>6. ApiInv'
  BY DEF ApiInv, PcType, FlagType, Wanted
<1>7. MuInv'
  BY DEF MuInv, CacheInv, RequestInv, PcType, CacheType, BackendType, FlagType, UpPoints,
     BackendPoints
<1>8. CountInv'
  BY DEF CountInv, CacheInv, RequestInv, MuInv, CacheType, FlagType, CountType, UpPoints,
     BackendPoints
<1>9. AbandonInv'
  BY MoreDone DEF Done, PcType
<1> HIDE DEF IInv, TypeParts
<1> QED BY <1>1, <1>2, <1>3, <1>4, <1>5, <1>6, <1>7, <1>8, <1>9 DEF IInv

(* Activate() on its way to the latch. *)
LEMMA LoadKeeps ==
  ASSUME IInv, NEW t \in Calls, LockLoader(t) \/ FirstActivation(t) \/ ExtractShim(t) \/ LoadShim(t)
  PROVE  IInv'
<1> USE DEF IInv, TypeParts, LockLoader, FirstActivation, ExtractShim, LoadShim
<1>1. TypeParts'
  BY DEF PcType, LoaderType, CacheType, BackendType, FlagType, CountType, Points, RequestInv, Wanted
<1>2. RequestInv'
  BY DEF RequestInv, PcType, BackendPoints
<1>3. CacheInv'
  BY DEF CacheInv, PcType
<1>4. LoaderInv'
  BY DEF LoaderInv, PcType, LoaderPoints, Wanted
<1>5. LatchInv'
  BY DEF LatchInv, PcType, Wanted
<1>6. ApiInv'
  BY DEF ApiInv, PcType, Wanted
<1>7. MuInv'
  BY DEF MuInv, PcType, UpPoints
<1>8. CountInv'
  BY DEF CountInv
<1>9. AbandonInv'
  BY MoreDone DEF Done, PcType
<1> HIDE DEF IInv, TypeParts
<1> QED BY <1>1, <1>2, <1>3, <1>4, <1>5, <1>6, <1>7, <1>8, <1>9 DEF IInv

(* Activate() succeeds. *)
LEMMA LatchKeeps ==
  ASSUME IInv, NEW t \in Calls, SameMesh(t) \/ Latch(t)
  PROVE  IInv'
<1> USE DEF IInv, TypeParts, SameMesh, Latch, Activated, Return
<1>1. TypeParts'
  BY DEF PcType, LoaderType, CacheType, BackendType, FlagType, CountType, Points, RequestInv, Wanted
<1>2. RequestInv'
  BY DEF RequestInv, PcType, CacheType, BackendPoints
<1>3. CacheInv'
  BY DEF CacheInv, RequestInv, PcType, CacheType, BackendType
<1>4. LoaderInv'
  BY DEF LoaderInv, PcType, LoaderPoints
<1>5. LatchInv'
  BY DEF LatchInv, LoaderInv, LoaderType, LoaderPoints
<1>6. ApiInv'
  BY DEF ApiInv, CacheInv, LoaderInv, RequestInv, PcType, CacheType, BackendType, BackendPoints,
     Wanted
<1>7. MuInv'
  BY DEF MuInv, CacheInv, PcType, CacheType, UpPoints
<1>8. CountInv'
  BY DEF CountInv
<1>9. AbandonInv'
  BY MoreDone DEF Done, PcType
<1> HIDE DEF IInv, TypeParts
<1> QED BY <1>1, <1>2, <1>3, <1>4, <1>5, <1>6, <1>7, <1>8, <1>9 DEF IInv

(* A call ends, and leaves no server behind. *)
LEMMA ReturnKeeps ==
  ASSUME IInv, NEW t \in Calls, \/ UpRefused(t) \/ Operate(t) \/ NotCompiledIn(t) \/ OtherMesh(t)
         \/ ExtractFails(t) \/ LoadFails(t) \/ ResolveFails(t)
  PROVE  IInv'
<1> USE DEF IInv, TypeParts, UpRefused, Operate, NotCompiledIn, OtherMesh, ExtractFails, LoadFails,
             ResolveFails, Return
<1>1. TypeParts'
  BY DEF PcType, LoaderType, CacheType, BackendType, FlagType, CountType, Points
<1>2. RequestInv'
  BY DEF RequestInv, PcType, BackendPoints
<1>3. CacheInv'
  BY DEF CacheInv, PcType
<1>4. LoaderInv'
  BY DEF LoaderInv, PcType, LoaderPoints, Wanted
<1>5. LatchInv'
  BY DEF LatchInv, PcType, Wanted
<1>6. ApiInv'
  BY DEF ApiInv, CacheInv, RequestInv, PcType, CacheType, BackendPoints, Wanted
<1>7. MuInv'
  BY DEF MuInv, CacheInv, PcType, CacheType, UpPoints
<1>8. CountInv'
  BY DEF CountInv
<1>9. AbandonInv'
  BY MoreDone DEF Done, PcType
<1> HIDE DEF IInv, TypeParts
<1> QED BY <1>1, <1>2, <1>3, <1>4, <1>5, <1>6, <1>7, <1>8, <1>9 DEF IInv

(* A call ends and abandons a server. *)
LEMMA TimeoutKeeps ==
  ASSUME IInv, NEW t \in Calls, UpTimesOut(t)
  PROVE  IInv'
<1> USE DEF IInv, TypeParts, UpTimesOut, Return
<1>1. TypeParts'
  BY DEF PcType, LoaderType, CacheType, BackendType, FlagType, CountType, Points, RequestInv,
     BackendPoints
<1>2. RequestInv'
  BY DEF RequestInv, PcType, BackendPoints
<1>3. CacheInv'
  BY DEF CacheInv
<1>4. LoaderInv'
  BY DEF LoaderInv, LoaderPoints, Wanted
<1>5. LatchInv'
  BY DEF LatchInv, Wanted
<1>6. ApiInv'
  BY DEF ApiInv, Wanted
<1>7. MuInv'
  BY DEF MuInv, CacheInv, PcType, CacheType, UpPoints
<1>8. CountInv'
  BY DEF CountInv
<1>9. AbandonInv'
  <2>1. Done' = Done \cup {t} /\ t \notin Done
    BY DEF Done, PcType
  <2>2. Cardinality(Done') = Cardinality(Done) + 1 /\ Cardinality(Done) \in Nat
    BY <2>1, DoneIsFinite, FS_AddElement DEF Done
  <2> QED BY <2>2 DEF AbandonInv, CountType
<1> HIDE DEF IInv, TypeParts
<1> QED BY <1>1, <1>2, <1>3, <1>4, <1>5, <1>6, <1>7, <1>8, <1>9 DEF IInv
-----------------------------------------------------------------------------
LEMMA InitIInv == Init => IInv
<1> SUFFICES ASSUME Init PROVE IInv
  OBVIOUS
<1> USE DEF Init
<1>1. PcType /\ CacheType /\ BackendType /\ CountType
  BY DEF PcType, Points, CacheType, BackendType, CountType
<1>2. LoaderType /\ FlagType
  BY DEF LoaderType, FlagType
<1>3. RequestInv /\ CacheInv /\ LoaderInv /\ MuInv
  BY DEF RequestInv, CacheInv, LoaderInv, MuInv, BackendPoints, LoaderPoints, UpPoints
<1>4. LatchInv /\ ApiInv /\ CountInv
  BY DEF LatchInv, ApiInv, CountInv
<1>5. AbandonInv
  BY FS_EmptySet DEF AbandonInv, Done
<1> QED BY <1>1, <1>2, <1>3, <1>4, <1>5 DEF IInv, TypeParts

LEMMA NextIInv == IInv /\ [Next]_vars => IInv'
<1> SUFFICES ASSUME IInv, [Next]_vars PROVE IInv'
  OBVIOUS
<1>1. ASSUME NEW t \in Calls, NEW r \in Kinds \cup Secrets, Call(t, r)
      PROVE  IInv'
  BY <1>1, CallKeeps
<1>2. ASSUME NEW t \in Calls, BackendNext(t)
      PROVE  IInv'
  BY <1>2, LookupKeeps, LockKeeps, UpKeeps, ReturnKeeps, TimeoutKeeps DEF BackendNext
<1>3. ASSUME NEW t \in Calls, LoaderNext(t)
      PROVE  IInv'
  BY <1>3, LoadKeeps, LatchKeeps, ReturnKeeps DEF LoaderNext
<1>4. CASE UNCHANGED vars
  BY <1>4 DEF vars, IInv, TypeParts, PcType, LoaderType, CacheType, BackendType, FlagType,
     CountType, RequestInv, CacheInv, LoaderInv, LatchInv, ApiInv, MuInv, CountInv, AbandonInv,
     Done, Wanted
<1> QED BY <1>1, <1>2, <1>3, <1>4 DEF Next, Terminated

(* The inductive invariant holds in every reachable state. *)
THEOREM Invariance == Spec => []IInv
BY InitIInv, NextIInv, PTL DEF Spec

(* The model is type-correct: no call works without a backend, and no      *)
(* secret has more servers than there were calls.                          *)
THEOREM TypeCorrect == Spec => []TypeOK
<1>1. IInv => TypeOK
  <2> SUFFICES ASSUME IInv PROVE TypeOK
    OBVIOUS
  <2>1. Cardinality(Calls) \in Nat /\ Cardinality(Done) \in Nat
        /\ Cardinality(Done) <= Cardinality(Calls)
    BY DoneIsFinite DEF Done
  <2>2. Calls # {} => 1 <= Cardinality(Calls)
    BY <2>1, FS_EmptySet
  <2>3. \A s \in Secrets : cache[s] # None => Calls # {}
    BY DEF IInv, TypeParts, CacheType
  <2>4. ASSUME NEW s \in Secrets
        PROVE  {reg[s], servers[s], abandoned[s]} \subseteq 0 .. Cardinality(Calls)
    BY <2>1, <2>2, <2>3 DEF IInv, TypeParts, CountType, CountInv, AbandonInv
  <2>5. {reg, servers, abandoned} \subseteq [Secrets -> 0 .. Cardinality(Calls)]
    BY <2>4 DEF IInv, TypeParts, CountType
  <2>6. \A t \in Calls : pc[t] \in BackendPoints => backend[t] # None
    BY DEF IInv, RequestInv, CacheInv, BackendPoints
  <2> QED BY <2>5, <2>6 DEF IInv, TypeParts, PcType, LoaderType, CacheType, BackendType, FlagType,
             TypeOK
<1> QED BY <1>1, Invariance, PTL

(* However calls race for the first activation, one mesh is latched, and   *)
(* every backend and every successful call is of that mesh; a second Go    *)
(* runtime is mapped only for a shim that turns out unusable.              *)
THEOREM SingleMesh == Spec => []OneMesh
<1>1. IInv => OneMesh
  <2> SUFFICES ASSUME IInv PROVE OneMesh
    OBVIOUS
  <2>1. PICK k : mapped \ broken \subseteq {k}
    <3>1. CASE active_kind # None
      BY <3>1 DEF IInv, LatchInv, LoaderInv
    <3>2. CASE active_kind = None
      BY <3>2 DEF IInv, TypeParts, LoaderType, LatchInv, LoaderInv, LoaderPoints
    <3> QED BY <3>1, <3>2
  <2>2. Cardinality(mapped \ broken) <= 1
    <3>1. Cardinality({k}) = 1 /\ IsFiniteSet({k})
      BY FS_Singleton
    <3> QED BY <2>1, <3>1, FS_Subset
  <2> QED BY <2>2 DEF IInv, ApiInv, LatchInv, OneMesh
<1> QED BY <1>1, Invariance, PTL

(* However many calls use a secret at once, and however often bringing its *)
(* node up fails, MeshBackend makes one node, and one server that is up.   *)
THEOREM SingleNode == Spec => []OneNodePerSecret
<1>1. IInv => OneNodePerSecret
  BY DEF IInv, CountInv, OneNodePerSecret
<1> QED BY <1>1, Invariance, PTL
=============================================================================
