----------------------------- MODULE MCCacheFill -----------------------------
(* Two requests that select the same variant and one that selects another, *)
(* with credentials or without.                                            *)
EXTENDS CacheFill

CONSTANTS r1, r2, r3, v1, v2

Wants == [r \in Reqs |-> IF r = r3 THEN v2 ELSE v1]
=============================================================================
