--------------------------- MODULE TunnelRegistry ---------------------------
(***************************************************************************)
(* What the tunnel manager promises its callers, without threads, locks or *)
(* a map: every tunnel goes once through one life, under a name that no    *)
(* other tunnel ever had, and whoever takes it out of the registry is the  *)
(* only one to tear it down.                                               *)
(*                                                                         *)
(* TunnelManager.tla is shown to implement this specification.             *)
(***************************************************************************)
EXTENDS Naturals

CONSTANTS
  Tunnels,            \* the tunnels that may ever be created
  Names               \* the ids they may be given

VARIABLES
  life,               \* life[t]: free, reserved, open, closing or closed
  name                \* name[t]: the id it was given, 0 before that

vars == <<life, name>>

Init ==
  /\ life = [t \in Tunnels |-> "free"]
  /\ name = [t \in Tunnels |-> 0]

Move(t, from, to) ==
  /\ life[t] = from
  /\ life' = [life EXCEPT ![t] = to]

(* A create reserves an id nobody else ever had. *)
Reserve(t, id) ==
  /\ \A u \in Tunnels : name[u] # id
  /\ Move(t, "free", "reserved")
  /\ name' = [name EXCEPT ![t] = id]

(* It becomes visible only once it is up ... *)
Publish(t) == Move(t, "reserved", "open") /\ UNCHANGED name

(* ... or is thrown away without ever having been visible. *)
Discard(t) == Move(t, "reserved", "closing") /\ UNCHANGED name

(* A close takes one open tunnel, a close-all or a clean-up a set of them, *)
(* in one step: nobody sees half of it.                                    *)
Take(S) ==
  /\ \A t \in S : life[t] = "open"
  /\ life' = [t \in Tunnels |-> IF t \in S THEN "closing" ELSE life[t]]
  /\ UNCHANGED name

Finish(t) == Move(t, "closing", "closed") /\ UNCHANGED name

Next ==
  \/ \E t \in Tunnels, id \in Names : Reserve(t, id)
  \/ \E t \in Tunnels : Publish(t) \/ Discard(t) \/ Finish(t)
  \/ \E S \in SUBSET Tunnels : Take(S)

Spec == Init /\ [][Next]_vars
=============================================================================
