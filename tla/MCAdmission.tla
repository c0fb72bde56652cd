---------------------------- MODULE MCAdmission ----------------------------
(* Instances of Admission: every counter is bounded by the requests. *)
EXTENDS Admission, TLC

P(a, q) == [maxActive |-> a, maxPending |-> q]
Reloads == {P(1, 2), P(2, 0)}

Sym == Permutations(Reqs)
=============================================================================
