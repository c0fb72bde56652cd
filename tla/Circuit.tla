------------------------------ MODULE Circuit ------------------------------
(***************************************************************************)
(* The passive circuit breaker of one backend: internal/upstream/circuit.go *)
(* with the two-step claim of selectBackend (snapshot.go) that looks at it, *)
(* and the result calls of Pool (pool.go) that report to it.               *)
(*                                                                         *)
(* Every operation that takes circuit.mu is one atomic step.  The only     *)
(* unlocked accesses are loads of closedEpoch and fails; openLocked clears  *)
(* the gate before it changes anything else and closeLocked publishes it   *)
(* last, so a load that falls inside a critical section behaves as one     *)
(* before it (old gate) or waits for the mutex (gate 0).                   *)
(*                                                                         *)
(* A request looks with eligible(), may be overtaken, and then claims with *)
(* admit(): two steps.  It carries its admission (epoch, probe) until it   *)
(* reports success, failure or neither, at any later time or never.        *)
(***************************************************************************)
EXTENDS Integers, FiniteSets

CONSTANTS
    Reqs,           \* requests (goroutines) that may use the backend
    MaxFailsOpts,   \* max_fails values a reload may set
    TimeoutOpts,    \* fail_timeout values a reload may set, in clock ticks
    ProbesOpts      \* circuit_half_open_probes values a reload may set, <= 0 unlimited

ASSUME CircuitAssumption ==
    /\ IsFiniteSet(Reqs)
    /\ MaxFailsOpts \subseteq Int /\ MaxFailsOpts # {}
    /\ TimeoutOpts \subseteq Int /\ TimeoutOpts # {}
    /\ ProbesOpts \subseteq Int /\ ProbesOpts # {}

VARIABLES
    closedEpoch,    \* the gate: 0, or the epoch of the published CLOSED generation
    fails,          \* consecutive failures of the current generation
    phase,
    epoch,
    openUntil,
    halfOpenUntil,
    probesInFlight,
    maxFails, failTimeout, maxProbes,   \* the thresholds in force
    now,            \* the clock
    att,            \* what each request holds: its stage and its admission
    evidence        \* history: per generation, ordinary failures since its last ordinary success

gate == <<closedEpoch, fails, phase, epoch, openUntil, halfOpenUntil, probesInFlight>>
limits == <<maxFails, failTimeout, maxProbes>>
vars == <<gate, limits, now, att, evidence>>

CLOSED == "CLOSED"
OPEN == "OPEN"
HALF_OPEN == "HALF_OPEN"

(* A default used when fail_timeout is not positive (ten seconds). *)
DefaultFailTimeout == 1
AtLeastOne(n) == IF n < 1 THEN 1 ELSE n
PositiveTimeout(d) == IF d <= 0 THEN DefaultFailTimeout ELSE d

(***************************************************************************)
(* The stages of a request: outside selection; past the eligibility filter  *)
(* and chosen by the balancer; admitted and not yet reported.              *)
(***************************************************************************)
Idle == [stage |-> "idle", epoch |-> 0, probe |-> FALSE]
Chosen == [stage |-> "chosen", epoch |-> 0, probe |-> FALSE]
Admitted(e, p) == [stage |-> "admitted", epoch |-> e, probe |-> p]

InFlight == {r \in Reqs : att[r].stage = "admitted"}
Current == {r \in InFlight : att[r].epoch = epoch}
LiveProbes == {r \in Current : att[r].probe}

(* newCircuit: CLOSED at epoch 1, the gate published. *)
Init ==
    /\ closedEpoch = 1 /\ fails = 0 /\ phase = CLOSED /\ epoch = 1
    /\ openUntil = 0 /\ halfOpenUntil = 0 /\ probesInFlight = 0
    /\ maxFails \in {AtLeastOne(n) : n \in MaxFailsOpts}
    /\ failTimeout \in {PositiveTimeout(d) : d \in TimeoutOpts}
    /\ maxProbes \in ProbesOpts
    /\ now = 0
    /\ att = [r \in Reqs |-> Idle]
    /\ evidence = [e \in {1} |-> 0]

(***************************************************************************)
(* The locked transitions.                                                 *)
(***************************************************************************)
(* History of a new generation: nothing reported yet. *)
NewGeneration(ev) == [e \in 1..(epoch + 1) |-> IF e \in 1..epoch THEN ev[e] ELSE 0]

OpenLocked(ev) ==
    /\ closedEpoch' = 0
    /\ phase' = OPEN
    /\ openUntil' = now + failTimeout
    /\ probesInFlight' = 0
    /\ fails' = 0
    /\ epoch' = epoch + 1
    /\ evidence' = NewGeneration(ev)
    /\ UNCHANGED halfOpenUntil

CloseLocked(ev) ==
    /\ phase' = CLOSED
    /\ probesInFlight' = 0
    /\ openUntil' = 0 /\ halfOpenUntil' = 0
    /\ fails' = 0
    /\ epoch' = epoch + 1
    /\ closedEpoch' = epoch + 1
    /\ evidence' = NewGeneration(ev)

(* Mutant: the slot is never returned. *)
ReleaseProbeForgotten == UNCHANGED gate

ReleaseProbeLocked ==
    /\ probesInFlight' = IF probesInFlight > 0 THEN probesInFlight - 1 ELSE probesInFlight
    /\ UNCHANGED <<closedEpoch, fails, phase, epoch, openUntil, halfOpenUntil>>

(***************************************************************************)
(* Selection.                                                              *)
(***************************************************************************)
CooledDownAlways == TRUE      \* mutant
CooledDown == now >= openUntil
HalfOpenNeverOver == FALSE    \* mutant
HalfOpenOver == now >= halfOpenUntil
ProbeFree == maxProbes <= 0 \/ probesInFlight < maxProbes

eligible ==
    \/ closedEpoch # 0
    \/ phase = CLOSED
    \/ phase = OPEN /\ CooledDown
    \/ phase = HALF_OPEN /\ ProbeFree

(* The filter of selectBackend: the look before the claim. *)
Look(r) ==
    /\ att[r] = Idle
    /\ eligible
    /\ att' = [att EXCEPT ![r] = Chosen]
    /\ UNCHANGED <<gate, limits, now, evidence>>

Hand(r, e, p) == att' = [att EXCEPT ![r] = Admitted(e, p)]
Refuse(r) == att' = [att EXCEPT ![r] = Idle]

AdmitClosed(r) ==
    /\ closedEpoch # 0 \/ phase = CLOSED
    /\ Hand(r, IF closedEpoch # 0 THEN closedEpoch ELSE epoch, FALSE)
    /\ UNCHANGED <<gate, evidence>>

AdmitOpen(r) ==
    /\ closedEpoch = 0 /\ phase = OPEN
    /\ \/ /\ ~CooledDown
          /\ Refuse(r)
          /\ UNCHANGED gate
       \/ /\ CooledDown
          /\ phase' = HALF_OPEN
          /\ probesInFlight' = 1
          /\ halfOpenUntil' = now + failTimeout
          /\ Hand(r, epoch, TRUE)
          /\ UNCHANGED <<closedEpoch, fails, epoch, openUntil>>
    /\ UNCHANGED evidence

AdmitHalfOpen(r) ==
    /\ closedEpoch = 0 /\ phase = HALF_OPEN
    /\ \/ /\ HalfOpenOver
          /\ OpenLocked(evidence)
          /\ Refuse(r)
       \/ /\ ~HalfOpenOver /\ ~ProbeFree
          /\ Refuse(r)
          /\ UNCHANGED <<gate, evidence>>
       \/ /\ ~HalfOpenOver /\ ProbeFree
          /\ probesInFlight' = probesInFlight + 1
          /\ Hand(r, epoch, TRUE)
          /\ UNCHANGED <<closedEpoch, fails, phase, epoch, openUntil, halfOpenUntil, evidence>>

(* The claim.  A refused claim returns the request to selection. *)
Admit(r) ==
    /\ att[r].stage = "chosen"
    /\ AdmitClosed(r) \/ AdmitOpen(r) \/ AdmitHalfOpen(r)
    /\ UNCHANGED <<limits, now>>

(***************************************************************************)
(* Results.                                                                *)
(***************************************************************************)
(* A result of a generation that is over.  The mutants apply every result,    *)
(* and every probe's result, to the generation that is live.               *)
NeverStale(a) == FALSE
StaleIfOrdinary(a) == ~a.probe /\ a.epoch # epoch
IsStale(a) == a.epoch # epoch

(* Of a stale result, only a probe's touches the circuit. *)
StaleResult(a) ==
    IF a.probe THEN ReleaseProbeLocked ELSE UNCHANGED gate

(* History of an ordinary result, kept for the generation that admitted it. *)
Failed(a) == IF a.probe THEN evidence ELSE [evidence EXCEPT ![a.epoch] = @ + 1]
Succeeded(a) == IF a.probe THEN evidence ELSE [evidence EXCEPT ![a.epoch] = 0]

Success(r) ==
    LET a == att[r] IN
    /\ a.stage = "admitted"
    /\ \/ /\ ~a.probe /\ closedEpoch = a.epoch /\ fails = 0     \* the lock-free path
          /\ UNCHANGED gate
          /\ evidence' = Succeeded(a)
       \/ /\ IsStale(a)
          /\ StaleResult(a)
          /\ evidence' = Succeeded(a)
       \/ /\ ~IsStale(a) /\ a.probe
          /\ CloseLocked(evidence)
       \/ /\ ~(closedEpoch = a.epoch /\ fails = 0)
          /\ ~IsStale(a) /\ ~a.probe
          /\ fails' = 0
          /\ evidence' = Succeeded(a)
          /\ UNCHANGED <<closedEpoch, phase, epoch, openUntil, halfOpenUntil, probesInFlight>>
    /\ att' = [att EXCEPT ![r] = Idle]
    /\ UNCHANGED <<limits, now>>

TripsEarly == fails + 2 >= maxFails    \* mutant
Trips == fails + 1 >= maxFails

Failure(r) ==
    LET a == att[r] IN
    /\ a.stage = "admitted"
    /\ \/ /\ IsStale(a)
          /\ StaleResult(a)
          /\ evidence' = Failed(a)
       \/ /\ ~IsStale(a) /\ a.probe
          /\ OpenLocked(evidence)
       \/ /\ ~IsStale(a) /\ ~a.probe
          /\ phase # CLOSED \/ ~Trips
          /\ fails' = IF phase # CLOSED THEN fails ELSE fails + 1
          /\ evidence' = Failed(a)
          /\ UNCHANGED <<closedEpoch, phase, epoch, openUntil, halfOpenUntil, probesInFlight>>
       \/ /\ ~IsStale(a) /\ ~a.probe /\ phase = CLOSED
          /\ Trips
          /\ OpenLocked(Failed(a))
    /\ att' = [att EXCEPT ![r] = Idle]
    /\ UNCHANGED <<limits, now>>

(* releaseProbe: admitted, never reached the backend, no verdict. *)
ReleaseProbe(r) ==
    LET a == att[r] IN
    /\ a.stage = "admitted"
    /\ IF a.probe /\ ~IsStale(a) THEN ReleaseProbeLocked ELSE UNCHANGED gate
    /\ att' = [att EXCEPT ![r] = Idle]
    /\ UNCHANGED <<limits, now, evidence>>

(***************************************************************************)
(* From outside the request path.                                          *)
(***************************************************************************)
(* forceClose, called by the active health checker on a healthy transition. *)
ForceClose ==
    /\ ~(phase = CLOSED /\ fails = 0)
    /\ CloseLocked(evidence)
    /\ UNCHANGED <<limits, now, att>>

(* setLimits, called by a reload; accumulated state is left alone. *)
SetLimits(mf, ft, mp) ==
    /\ maxFails' = AtLeastOne(mf)
    /\ failTimeout' = PositiveTimeout(ft)
    /\ maxProbes' = mp
    /\ UNCHANGED <<gate, now, att, evidence>>

Tick ==
    /\ now' = now + 1
    /\ UNCHANGED <<gate, limits, att, evidence>>

Next ==
    \/ \E r \in Reqs : Look(r) \/ Admit(r) \/ Success(r) \/ Failure(r) \/ ReleaseProbe(r)
    \/ ForceClose
    \/ \E mf \in MaxFailsOpts, ft \in TimeoutOpts, mp \in ProbesOpts : SetLimits(mf, ft, mp)
    \/ Tick

Spec == Init /\ [][Next]_vars

-----------------------------------------------------------------------------
(***************************************************************************)
(* Properties.                                                             *)
(***************************************************************************)
Admissions == [stage : {"idle", "chosen", "admitted"}, epoch : Nat, probe : BOOLEAN]

(* Every variable has the type circuit.go declares; counters never go       *)
(* negative, thresholds are at least one.                                  *)
TypeOK ==
    /\ closedEpoch \in Nat /\ fails \in Nat /\ phase \in {CLOSED, OPEN, HALF_OPEN}
    /\ epoch \in Nat \ {0} /\ openUntil \in Nat /\ halfOpenUntil \in Nat
    /\ probesInFlight \in Nat
    /\ maxFails \in Nat \ {0} /\ failTimeout \in Nat \ {0} /\ maxProbes \in Int
    /\ now \in Nat
    /\ att \in [Reqs -> Admissions]
    /\ evidence \in [1..epoch -> Nat]

(* The gate answers both questions of the lock-free path: it is non-zero    *)
(* exactly while the circuit is CLOSED, and then it is the live epoch.     *)
GateIsCurrent == closedEpoch = IF phase = CLOSED THEN epoch ELSE 0

(* An admission of the live generation always fits the phase: none exists   *)
(* while OPEN (no request that looked earlier slips in after the trip),    *)
(* ordinary ones only while CLOSED, probes only while HALF_OPEN; and no    *)
(* admission comes from the future.  So a result whose epoch matches is    *)
(* always a result about the phase it is applied to.                       *)
AdmissionsFitPhase ==
    \A r \in InFlight :
        /\ att[r].epoch \in 1..epoch
        /\ att[r].epoch = epoch =>
              /\ phase # OPEN
              /\ att[r].probe <=> phase = HALF_OPEN

(* The failure count is exactly the run of ordinary failures reported by    *)
(* requests the live generation admitted: no stale success cleared it, no  *)
(* stale failure was counted, none was lost.                               *)
FailsAreCurrentEvidence == fails = evidence[epoch]

(* Every counted probe slot is held by a live probe of this generation: no  *)
(* result path leaks a slot.                                               *)
SlotsAreHeld == probesInFlight <= Cardinality(LiveProbes)

(* The circuit leaves CLOSED for OPEN only on max_fails consecutive failures *)
(* of its own generation, under the threshold in force at that moment.     *)
TripNeedsEvidence ==
    [][phase = CLOSED /\ phase' = OPEN => evidence'[epoch] >= maxFails]_vars

(* The backend returns to full rotation only by forceClose (which touches no *)
(* request) or by the success of a probe of this half-open period.         *)
RecoveryNeedsProof ==
    [][phase # CLOSED /\ phase' = CLOSED =>
          att' = att \/ \E r \in LiveProbes : att'[r] = Idle]_vars

(* Nothing but forceClose ends a cooldown early, and nothing moves its end. *)
CooldownHolds ==
    [][phase = OPEN =>
          \/ phase' = OPEN /\ openUntil' = openUntil
          \/ phase' = HALF_OPEN /\ now >= openUntil
          \/ phase' = CLOSED /\ att' = att]_vars

(* The gate eligible() reads is current, outstanding admissions fit the      *)
(* phase they were given in, and only results of the live generation were  *)
(* counted as failures: the inductive core of the circuit.                 *)
CircuitInv == TypeOK /\ GateIsCurrent /\ AdmissionsFitPhase /\ FailsAreCurrentEvidence

(* ADR 0017 and admit(): halfOpenUntil bounds HALF_OPEN itself; on expiry    *)
(* the circuit returns to OPEN regardless of probes still in flight.       *)
HalfOpenExpires == (phase = HALF_OPEN) ~> (phase # HALF_OPEN)

(* What the code guarantees instead: HALF_OPEN ends if every admitted        *)
(* attempt reports in the end.  The expiry is looked at in admit, behind a *)
(* filter that refuses while all probe slots are taken: without the        *)
(* antecedent a probe that never reports pins HALF_OPEN.                   *)
HalfOpenEnds == (\A r \in Reqs : r \in InFlight ~> r \notin InFlight) => HalfOpenExpires
=============================================================================
