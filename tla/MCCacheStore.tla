---------------------------- MODULE MCCacheStore ----------------------------
(* Calls are interchangeable.                                              *)
EXTENDS CacheStore, TLC

Sym == Permutations(Tasks)

(* A restart before the first call leads to an initial state again, so     *)
(* nothing is lost when it is not followed.                                *)
CrashAfterACall == crashes > 0 => \E t \in Tasks : task[t].pc # "idle"
=============================================================================
