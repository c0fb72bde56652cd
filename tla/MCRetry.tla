------------------------------ MODULE MCRetry ------------------------------
(* The bounded instances of Retry that TLC checks.                          *)
EXTENDS Retry, TLC

Sym == Permutations(Requests) \cup Permutations(Backends)
=============================================================================
