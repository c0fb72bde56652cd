----------------------------- MODULE MCRegistry -----------------------------
(* One static upstream and one behind a provider that uses the egress policy. *)
EXTENDS Registry

CONSTANTS s, e, a, b

Up(shape, n, servers) == [shape |-> shape, circuit |-> n, policy |-> n, servers |-> servers]
Kinds == [k \in {s, e} |-> IF k = s THEN "static" ELSE "egress"]

(* Both upstreams, the discovered one with a seed; new thresholds and servers *)
(* for pools that are kept, under the same egress policy or another, and   *)
(* the seed withdrawn; the static upstream removed and the discovered one  *)
(* rebuilt without a seed.                                                 *)
Base == [ups |-> [k \in {s, e} |-> Up(1, 1, IF k = s THEN {a} ELSE {b})], policy |-> 0]
Retune == [ups |-> [k \in {s, e} |-> Up(1, 2, IF k = s THEN {a, b} ELSE {})], policy |-> 0]
Move == [Retune EXCEPT !.policy = 1]
Rebuild == [ups |-> [k \in {s, e} |-> IF k = s THEN None ELSE Up(2, 1, {})], policy |-> 0]
Replies == {{}, {a}, {a, b}}
Moves == {Base, Move, Rebuild}
=============================================================================
