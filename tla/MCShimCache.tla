----------------------------- MODULE MCShimCache -----------------------------
(* An instance of ShimCache for TLC: two processes and two shims.          *)
EXTENDS ShimCache

CONSTANTS old, new

MCSize == [b \in Blobs |-> IF b = old THEN 1 ELSE 2]
=============================================================================
