--------------------------- MODULE MCMeshForwarder ---------------------------
(* Instances of MeshForwarder for TLC, with a claim of its source that TLC *)
(* refutes.                                                                *)
EXTENDS MeshForwarder

(* "The local client is done sending; let the peer see EOF rather than     *)
(* tearing the whole tunnel down mid-response" (comment in Pump()): the    *)
(* end of the request does not end the connection before the response.     *)
ResponseSurvivesEof ==
  [][\A c \in Clients :
       pc[c] = "client" /\ pc'[c] = "close" /\ client[c] = "fin" => down[c] = "done"]_vars
=============================================================================
