----------------------------- MODULE MCCircuit -----------------------------
(* Bounds for Circuit, and the fair specification its liveness is asked of. *)
EXTENDS Circuit

CONSTANTS
    MaxEpoch,   \* bound on the number of circuit generations
    MaxTime     \* bound on the clock

(* The bounds close on whole half-open periods: one is entered only when its *)
(* expiry lies within the clock and a further generation is left, so the   *)
(* bounds never keep the circuit in HALF_OPEN.                             *)
WithinBounds ==
    /\ now <= MaxTime /\ epoch <= MaxEpoch
    /\ phase = HALF_OPEN => halfOpenUntil <= MaxTime /\ epoch < MaxEpoch

MCNext == Next /\ WithinBounds'
MCSpec == Init /\ [][MCNext]_vars

(***************************************************************************)
(* Fairness.  The clock advances; requests keep arriving and an admitted   *)
(* claim is a few instructions away (the Go scheduler runs a runnable      *)
(* goroutine).  Nothing is assumed of admitted attempts: a stream may      *)
(* outlive any half-open period.                                           *)
(***************************************************************************)
Arrivals ==
    /\ WF_vars(Tick /\ WithinBounds')
    /\ \A r \in Reqs : WF_vars(Look(r) /\ WithinBounds') /\ WF_vars(Admit(r) /\ WithinBounds')

FairSpec == MCSpec /\ Arrivals
=============================================================================
