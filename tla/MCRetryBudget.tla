---------------------------- MODULE MCRetryBudget ----------------------------
(* The bounded instances of RetryBudget that TLC checks.                    *)
EXTENDS RetryBudget, TLC

Sym == Permutations(Callers)
=============================================================================
