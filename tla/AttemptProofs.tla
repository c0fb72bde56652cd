--------------------------- MODULE AttemptProofs ---------------------------
(***************************************************************************)
(* What an attempt goes through: the circuit breaker of its backend, for   *)
(* every set of requests, every set of thresholds and every run length;    *)
(* and the driver Pool.Do of internal/upstream/retry.go with its HTTP      *)
(* adapter, for every number of requests and backends, every cap and every *)
(* per-backend limit.                                                      *)
(***************************************************************************)
EXTENDS Circuit, Retry, FiniteSetTheorems, TLAPS

(* The initial state built by newCircuit satisfies the invariant. *)
LEMMA CircuitInitInv == Init => CircuitInv
  BY CircuitAssumption
  DEF Init, CircuitInv, TypeOK, GateIsCurrent, AdmissionsFitPhase, FailsAreCurrentEvidence,
      InFlight, Admissions, Idle, CLOSED, OPEN, HALF_OPEN, AtLeastOne, PositiveTimeout,
      DefaultFailTimeout

(* What opening or closing does, whatever the history it starts from: a new *)
(* generation with nothing reported, in which no request is in flight.     *)
LEMMA NewGenerationType ==
  ASSUME epoch \in Nat \ {0}, NEW ev \in [1..epoch -> Nat]
  PROVE  /\ NewGeneration(ev) \in [1..(epoch + 1) -> Nat]
         /\ NewGeneration(ev)[epoch + 1] = 0
  BY DEF NewGeneration

(* A request's admission changes at one place only. *)
LEMMA AttUpdate ==
  ASSUME att \in [Reqs -> Admissions], NEW r \in Reqs, NEW a \in Admissions,
         att' = [att EXCEPT ![r] = a]
  PROVE  /\ att' \in [Reqs -> Admissions]
         /\ att'[r] = a
         /\ \A q \in Reqs \ {r} : att'[q] = att[q]
  OBVIOUS

(* Leaving for a new generation preserves the invariant: every admission in *)
(* flight becomes an older one.                                            *)
LEMMA GenerationStep ==
  ASSUME CircuitInv, NEW ev \in [1..epoch -> Nat],
         OpenLocked(ev) \/ CloseLocked(ev),
         UNCHANGED <<limits, now>>,
         att' \in [Reqs -> Admissions],
         \A q \in Reqs : att'[q] = att[q] \/ att'[q] = Idle
  PROVE  CircuitInv'
<1>0. /\ epoch \in Nat \ {0} /\ now \in Nat /\ failTimeout \in Nat \ {0} /\ halfOpenUntil \in Nat
      /\ maxFails \in Nat \ {0} /\ maxProbes \in Int
  BY DEF CircuitInv, TypeOK
<1>1. TypeOK'
  <2>1. epoch' = epoch + 1 /\ evidence' = NewGeneration(ev)
    BY DEF OpenLocked, CloseLocked
  <2>2. evidence' \in [1..epoch' -> Nat]
    BY <1>0, <2>1, NewGenerationType
  <2>3. UNCHANGED <<maxFails, failTimeout, maxProbes, now>>
    BY DEF limits
  <2>4. /\ closedEpoch' \in Nat /\ openUntil' \in Nat /\ halfOpenUntil' \in Nat
        /\ fails' \in Nat /\ probesInFlight' \in Nat /\ phase' \in {CLOSED, OPEN, HALF_OPEN}
    BY <1>0 DEF OpenLocked, CloseLocked
  <2> QED BY SMTT(40), <1>0, <2>1, <2>2, <2>3, <2>4 DEF TypeOK
<1>2. GateIsCurrent'
  BY DEF CircuitInv, TypeOK, OpenLocked, CloseLocked, GateIsCurrent, CLOSED, OPEN, HALF_OPEN
<1>3. AdmissionsFitPhase'
  <2> SUFFICES ASSUME NEW q \in Reqs, att'[q].stage = "admitted"
               PROVE  att'[q].epoch \in 1..epoch' /\ att'[q].epoch # epoch'
    BY DEF AdmissionsFitPhase, InFlight
  <2>1. att'[q] = att[q]
    BY DEF Idle
  <2>2. att[q].epoch \in 1..epoch
    BY <2>1 DEF CircuitInv, AdmissionsFitPhase, InFlight
  <2>3. epoch' = epoch + 1 /\ epoch \in Nat
    BY DEF OpenLocked, CloseLocked, CircuitInv, TypeOK
  <2> QED BY <2>1, <2>2, <2>3
<1>4. FailsAreCurrentEvidence'
  BY NewGenerationType DEF CircuitInv, TypeOK, OpenLocked, CloseLocked, FailsAreCurrentEvidence
<1> QED BY <1>1, <1>2, <1>3, <1>4 DEF CircuitInv

(* A result of any kind preserves the invariant. *)
LEMMA SuccessStep ==
  ASSUME CircuitInv, NEW r \in Reqs, Success(r)
  PROVE  CircuitInv'
<1> DEFINE a == att[r]
<1>1. /\ a \in Admissions /\ a.stage = "admitted" /\ a.epoch \in 1..epoch
      /\ Idle \in Admissions /\ epoch \in Nat \ {0}
  BY DEF CircuitInv, TypeOK, Success, AdmissionsFitPhase, InFlight, Admissions, Idle
<1>2. /\ att' \in [Reqs -> Admissions]
      /\ att'[r] = Idle
      /\ \A q \in Reqs \ {r} : att'[q] = att[q]
  BY <1>1, AttUpdate DEF CircuitInv, TypeOK, Success
<1>3. CASE ~IsStale(a) /\ a.probe /\ CloseLocked(evidence)
  BY <1>2, <1>3, GenerationStep DEF Success, CircuitInv, TypeOK
<1>4. CASE ~(~IsStale(a) /\ a.probe /\ CloseLocked(evidence))
  <2>1. /\ UNCHANGED <<closedEpoch, phase, epoch, openUntil, halfOpenUntil, limits, now>>
        /\ evidence' = Succeeded(a)
        /\ probesInFlight' \in Nat
        /\ \/ fails' = fails /\ a.epoch # epoch
           \/ fails' = fails /\ fails = 0
           \/ fails' = fails /\ a.probe
           \/ fails' = 0 /\ a.epoch = epoch /\ ~a.probe
    BY <1>1, <1>4 DEF Success, IsStale, StaleResult, ReleaseProbeLocked, gate, CircuitInv, TypeOK
  <2>2. evidence' \in [1..epoch -> Nat]
    BY <1>1, <2>1 DEF Succeeded, CircuitInv, TypeOK
  <2>3. TypeOK'
    BY <1>2, <2>1, <2>2 DEF CircuitInv, TypeOK, limits
  <2>4. GateIsCurrent'
    BY <2>1 DEF CircuitInv, GateIsCurrent
  <2>5. AdmissionsFitPhase'
    BY <1>2, <2>1 DEF CircuitInv, AdmissionsFitPhase, InFlight, Idle
  <2>6. FailsAreCurrentEvidence'
    BY <1>1, <2>1 DEF CircuitInv, TypeOK, FailsAreCurrentEvidence, Succeeded
  <2> QED BY <2>3, <2>4, <2>5, <2>6 DEF CircuitInv
<1> QED BY <1>3, <1>4

LEMMA FailureStep ==
  ASSUME CircuitInv, NEW r \in Reqs, Failure(r)
  PROVE  CircuitInv'
<1> DEFINE a == att[r]
<1>1. /\ a \in Admissions /\ a.stage = "admitted" /\ a.epoch \in 1..epoch
      /\ Idle \in Admissions /\ epoch \in Nat \ {0}
  BY DEF CircuitInv, TypeOK, Failure, AdmissionsFitPhase, InFlight, Admissions, Idle
<1>2. /\ att' \in [Reqs -> Admissions]
      /\ att'[r] = Idle
      /\ \A q \in Reqs \ {r} : att'[q] = att[q]
  BY <1>1, AttUpdate DEF CircuitInv, TypeOK, Failure
<1>3. Failed(a) \in [1..epoch -> Nat] /\ evidence \in [1..epoch -> Nat]
  BY <1>1 DEF Failed, CircuitInv, TypeOK
<1>4. CASE OpenLocked(evidence) \/ OpenLocked(Failed(a))
  BY <1>2, <1>3, <1>4, GenerationStep DEF Failure
<1>5. CASE ~(OpenLocked(evidence) \/ OpenLocked(Failed(a)))
  <2>1. /\ UNCHANGED <<closedEpoch, phase, epoch, openUntil, halfOpenUntil, limits, now>>
        /\ evidence' = Failed(a)
        /\ probesInFlight' \in Nat
        /\ \/ fails' = fails /\ a.epoch # epoch
           \/ /\ a.epoch = epoch /\ ~a.probe
              /\ fails' = IF phase # CLOSED THEN fails ELSE fails + 1
    BY <1>1, <1>5 DEF Failure, IsStale, StaleResult, ReleaseProbeLocked, gate, CircuitInv, TypeOK
  <2>2. \/ fails' = fails /\ a.epoch # epoch
        \/ fails' = fails + 1 /\ a.epoch = epoch /\ ~a.probe
    BY <1>1, <2>1 DEF CircuitInv, TypeOK, AdmissionsFitPhase, InFlight
  <2>3. TypeOK'
    BY <1>2, <1>3, <2>1, <2>2 DEF CircuitInv, TypeOK, limits
  <2>4. GateIsCurrent'
    BY <2>1 DEF CircuitInv, GateIsCurrent
  <2>5. AdmissionsFitPhase'
    BY <1>2, <2>1 DEF CircuitInv, AdmissionsFitPhase, InFlight, Idle
  <2>6. FailsAreCurrentEvidence'
    BY <1>1, <2>1, <2>2 DEF CircuitInv, TypeOK, FailsAreCurrentEvidence, Failed
  <2> QED BY <2>3, <2>4, <2>5, <2>6 DEF CircuitInv
<1> QED BY <1>4, <1>5

LEMMA ReleaseStep ==
  ASSUME CircuitInv, NEW r \in Reqs, ReleaseProbe(r)
  PROVE  CircuitInv'
<1>1. Idle \in Admissions
  BY DEF Idle, Admissions
<1>2. /\ att' \in [Reqs -> Admissions]
      /\ att'[r] = Idle
      /\ \A q \in Reqs \ {r} : att'[q] = att[q]
  BY <1>1, AttUpdate DEF CircuitInv, TypeOK, ReleaseProbe
<1>3. /\ UNCHANGED <<closedEpoch, fails, phase, epoch, openUntil, halfOpenUntil, limits, now, evidence>>
      /\ probesInFlight' \in Nat
  BY DEF ReleaseProbe, ReleaseProbeLocked, gate, CircuitInv, TypeOK
<1>4. TypeOK'
  BY <1>2, <1>3 DEF CircuitInv, TypeOK, limits
<1>5. AdmissionsFitPhase'
  BY <1>2, <1>3 DEF CircuitInv, AdmissionsFitPhase, InFlight, Idle
<1> QED BY <1>3, <1>4, <1>5 DEF CircuitInv, GateIsCurrent, FailsAreCurrentEvidence

(* The claim preserves the invariant: an ordinary admission is stamped with *)
(* the live epoch, a probe only in HALF_OPEN.                              *)
LEMMA AdmitStep ==
  ASSUME CircuitInv, NEW r \in Reqs, Admit(r)
  PROVE  CircuitInv'
<1>1. /\ Idle \in Admissions /\ epoch \in Nat \ {0}
      /\ \A p \in BOOLEAN : Admitted(epoch, p) \in Admissions
  BY DEF Idle, Admissions, Admitted, CircuitInv, TypeOK
<1>2. CASE AdmitClosed(r)
  <2>1. phase = CLOSED /\ att' = [att EXCEPT ![r] = Admitted(epoch, FALSE)]
    BY <1>2 DEF AdmitClosed, Hand, CircuitInv, GateIsCurrent
  <2>2. /\ att' \in [Reqs -> Admissions] /\ att'[r] = Admitted(epoch, FALSE)
        /\ \A q \in Reqs \ {r} : att'[q] = att[q]
    BY <1>1, <2>1, AttUpdate DEF CircuitInv, TypeOK
  <2>3. UNCHANGED <<closedEpoch, fails, phase, epoch, openUntil, halfOpenUntil, probesInFlight, limits, now, evidence>>
    BY <1>2 DEF AdmitClosed, Admit, gate
  <2>4. TypeOK'
    BY <2>2, <2>3 DEF CircuitInv, TypeOK, limits
  <2>5. AdmissionsFitPhase'
    BY <1>1, <2>1, <2>2, <2>3 DEF CircuitInv, AdmissionsFitPhase, InFlight, Admitted, CLOSED, OPEN, HALF_OPEN
  <2> QED BY <2>3, <2>4, <2>5 DEF CircuitInv, GateIsCurrent, FailsAreCurrentEvidence
<1>3. CASE AdmitOpen(r)
  <2>1. CASE Refuse(r) /\ UNCHANGED gate
    <3>1. /\ att' \in [Reqs -> Admissions] /\ att'[r] = Idle
          /\ \A q \in Reqs \ {r} : att'[q] = att[q]
      BY <1>1, <2>1, AttUpdate DEF CircuitInv, TypeOK, Refuse
    <3>2. UNCHANGED <<closedEpoch, fails, phase, epoch, openUntil, halfOpenUntil, probesInFlight, limits, now, evidence>>
      BY <1>3, <2>1 DEF AdmitOpen, Admit, gate
    <3>3. TypeOK'
      BY <3>1, <3>2 DEF CircuitInv, TypeOK, limits
    <3>4. AdmissionsFitPhase'
      BY <3>1, <3>2 DEF CircuitInv, AdmissionsFitPhase, InFlight, Idle
    <3> QED BY <3>2, <3>3, <3>4 DEF CircuitInv, GateIsCurrent, FailsAreCurrentEvidence
  <2>2. CASE ~(Refuse(r) /\ UNCHANGED gate)
    <3>1. /\ phase = OPEN /\ phase' = HALF_OPEN /\ closedEpoch = 0
          /\ halfOpenUntil' = now + failTimeout /\ probesInFlight' = 1
          /\ att' = [att EXCEPT ![r] = Admitted(epoch, TRUE)]
          /\ UNCHANGED <<closedEpoch, fails, epoch, openUntil, limits, now, evidence>>
      BY <1>3, <2>2 DEF AdmitOpen, Admit, Hand
    <3>2. /\ att' \in [Reqs -> Admissions] /\ att'[r] = Admitted(epoch, TRUE)
          /\ \A q \in Reqs \ {r} : att'[q] = att[q]
      BY <1>1, <3>1, AttUpdate DEF CircuitInv, TypeOK
    <3>3. TypeOK'
      <4>1. phase' \in {CLOSED, OPEN, HALF_OPEN} /\ probesInFlight' \in Nat /\ halfOpenUntil' \in Nat
        BY <3>1 DEF CircuitInv, TypeOK
      <4>2. UNCHANGED <<closedEpoch, fails, epoch, openUntil, maxFails, failTimeout, maxProbes, now, evidence>>
        BY <3>1 DEF limits
      <4> QED BY <3>2, <4>1, <4>2 DEF CircuitInv, TypeOK
    <3>4. AdmissionsFitPhase'
      BY <1>1, <3>1, <3>2 DEF CircuitInv, AdmissionsFitPhase, InFlight, Admitted, CLOSED, OPEN, HALF_OPEN
    <3> QED BY <3>1, <3>3, <3>4 DEF CircuitInv, GateIsCurrent, FailsAreCurrentEvidence, CLOSED, OPEN, HALF_OPEN
  <2> QED BY <2>1, <2>2
<1>4. CASE AdmitHalfOpen(r)
  <2>1. CASE OpenLocked(evidence) /\ Refuse(r)
    <3>1. /\ att' \in [Reqs -> Admissions] /\ att'[r] = Idle
          /\ \A q \in Reqs \ {r} : att'[q] = att[q]
      BY <1>1, <2>1, AttUpdate DEF CircuitInv, TypeOK, Refuse
    <3> QED BY <2>1, <3>1, GenerationStep DEF Admit, CircuitInv, TypeOK
  <2>2. CASE Refuse(r) /\ UNCHANGED <<gate, evidence>>
    <3>1. /\ att' \in [Reqs -> Admissions] /\ att'[r] = Idle
          /\ \A q \in Reqs \ {r} : att'[q] = att[q]
      BY <1>1, <2>2, AttUpdate DEF CircuitInv, TypeOK, Refuse
    <3>2. UNCHANGED <<closedEpoch, fails, phase, epoch, openUntil, halfOpenUntil, probesInFlight, limits, now, evidence>>
      BY <2>2 DEF Admit, gate
    <3>3. TypeOK'
      BY <3>1, <3>2 DEF CircuitInv, TypeOK, limits
    <3>4. AdmissionsFitPhase'
      BY <3>1, <3>2 DEF CircuitInv, AdmissionsFitPhase, InFlight, Idle
    <3> QED BY <3>2, <3>3, <3>4 DEF CircuitInv, GateIsCurrent, FailsAreCurrentEvidence
  <2>3. CASE ~(OpenLocked(evidence) /\ Refuse(r)) /\ ~(Refuse(r) /\ UNCHANGED <<gate, evidence>>)
    <3>1. /\ phase = HALF_OPEN
          /\ probesInFlight' = probesInFlight + 1
          /\ att' = [att EXCEPT ![r] = Admitted(epoch, TRUE)]
          /\ UNCHANGED <<closedEpoch, fails, phase, epoch, openUntil, halfOpenUntil, limits, now, evidence>>
      BY <1>4, <2>3 DEF AdmitHalfOpen, Admit, Hand
    <3>2. /\ att' \in [Reqs -> Admissions] /\ att'[r] = Admitted(epoch, TRUE)
          /\ \A q \in Reqs \ {r} : att'[q] = att[q]
      BY <1>1, <3>1, AttUpdate DEF CircuitInv, TypeOK
    <3>3. TypeOK'
      <4>1. phase' \in {CLOSED, OPEN, HALF_OPEN} /\ probesInFlight' \in Nat /\ halfOpenUntil' \in Nat
        BY <3>1 DEF CircuitInv, TypeOK
      <4>2. UNCHANGED <<closedEpoch, fails, epoch, openUntil, maxFails, failTimeout, maxProbes, now, evidence>>
        BY <3>1 DEF limits
      <4> QED BY <3>2, <4>1, <4>2 DEF CircuitInv, TypeOK
    <3>4. AdmissionsFitPhase'
      BY <1>1, <3>1, <3>2 DEF CircuitInv, AdmissionsFitPhase, InFlight, Admitted, CLOSED, OPEN, HALF_OPEN
    <3> QED BY <3>1, <3>3, <3>4 DEF CircuitInv, GateIsCurrent, FailsAreCurrentEvidence
  <2> QED BY <1>4, <2>1, <2>2, <2>3 
<1> QED BY <1>2, <1>3, <1>4 DEF Admit

(* Every step of the circuit preserves the invariant. *)
LEMMA CircuitNextInv == CircuitInv /\ [Next]_vars => CircuitInv'
<1> SUFFICES ASSUME CircuitInv, [Next]_vars PROVE CircuitInv'
  OBVIOUS
<1>1. CASE UNCHANGED vars
  BY <1>1 DEF vars, gate, limits, CircuitInv, TypeOK, GateIsCurrent, AdmissionsFitPhase,
      FailsAreCurrentEvidence, InFlight
<1>2. ASSUME NEW r \in Reqs, Look(r) PROVE CircuitInv'
  <2>1. Chosen \in Admissions
    BY DEF Chosen, Admissions
  <2>2. /\ att' \in [Reqs -> Admissions] /\ att'[r] = Chosen
        /\ \A q \in Reqs \ {r} : att'[q] = att[q]
    BY <1>2, <2>1, AttUpdate DEF CircuitInv, TypeOK, Look
  <2>3. UNCHANGED <<closedEpoch, fails, phase, epoch, openUntil, halfOpenUntil, probesInFlight, limits, now, evidence>>
    BY <1>2 DEF Look, gate
  <2>4. TypeOK'
    BY <2>2, <2>3 DEF CircuitInv, TypeOK, limits
  <2>5. AdmissionsFitPhase'
    BY <2>2, <2>3 DEF CircuitInv, AdmissionsFitPhase, InFlight, Chosen
  <2> QED BY <2>3, <2>4, <2>5 DEF CircuitInv, GateIsCurrent, FailsAreCurrentEvidence
<1>3. ASSUME ForceClose PROVE CircuitInv'
  BY <1>3, GenerationStep DEF ForceClose, CircuitInv, TypeOK
<1>4. ASSUME NEW mf \in MaxFailsOpts, NEW ft \in TimeoutOpts, NEW mp \in ProbesOpts, SetLimits(mf, ft, mp)
      PROVE CircuitInv'
  BY <1>4, CircuitAssumption DEF SetLimits, gate, AtLeastOne, PositiveTimeout, DefaultFailTimeout,
      CircuitInv, TypeOK, GateIsCurrent, AdmissionsFitPhase, FailsAreCurrentEvidence, InFlight
<1>5. ASSUME Tick PROVE CircuitInv'
  BY <1>5 DEF Tick, gate, limits, CircuitInv, TypeOK, GateIsCurrent, AdmissionsFitPhase,
      FailsAreCurrentEvidence, InFlight
<1> QED
  BY <1>1, <1>2, <1>3, <1>4, <1>5, AdmitStep, SuccessStep, FailureStep, ReleaseStep DEF Next

(* circuit.go keeps its types, its gate, the fit of admissions to phases and *)
(* the failure count's evidence in every reachable state.                  *)
THEOREM CircuitInvariant == Spec => []CircuitInv
  BY CircuitInitInv, CircuitNextInv, PTL DEF Spec

(* A result whose epoch matches is always a result about the phase it is     *)
(* applied to: no admission of the live generation survives into OPEN.     *)
THEOREM CircuitAdmissions == Spec => []AdmissionsFitPhase
<1>1. CircuitInv => AdmissionsFitPhase
  BY DEF CircuitInv
<1> QED BY <1>1, CircuitInvariant, PTL

(* The failure count holds exactly the live generation's evidence. *)
THEOREM CircuitEvidence == Spec => []FailsAreCurrentEvidence
<1>1. CircuitInv => FailsAreCurrentEvidence
  BY DEF CircuitInv
<1> QED BY <1>1, CircuitInvariant, PTL

-----------------------------------------------------------------------------
(* Live probes are a finite set: their number is a natural number. *)
LEMMA LiveProbesFinite ==
  /\ IsFiniteSet(LiveProbes) /\ Cardinality(LiveProbes) \in Nat
  /\ IsFiniteSet(LiveProbes') /\ Cardinality(LiveProbes') \in Nat
<1>1. LiveProbes \subseteq Reqs /\ LiveProbes' \subseteq Reqs
  BY DEF LiveProbes, Current, InFlight
<1> QED BY <1>1, CircuitAssumption, FS_Subset, FS_CardinalityType

(* A step that leaves the epoch alone and moves one request to a place that *)
(* is not a probe of this generation takes at most that request away.      *)
LEMMA LiveProbesAfter ==
  ASSUME NEW r \in Reqs, epoch' = epoch,
         \A q \in Reqs \ {r} : att'[q] = att[q],
         att'[r].stage # "admitted" \/ ~att'[r].probe
  PROVE  /\ LiveProbes' = LiveProbes \ {r}
         /\ r \notin LiveProbes => Cardinality(LiveProbes') = Cardinality(LiveProbes)
         /\ r \in LiveProbes => Cardinality(LiveProbes') = Cardinality(LiveProbes) - 1
<1>1. LiveProbes' = LiveProbes \ {r}
  BY DEF LiveProbes, Current, InFlight
<1> QED BY <1>1, LiveProbesFinite, FS_RemoveElement

(* Admitting a probe adds exactly that request. *)
LEMMA LiveProbesAdmit ==
  ASSUME NEW r \in Reqs, att[r].stage = "chosen", epoch' = epoch,
         \A q \in Reqs \ {r} : att'[q] = att[q],
         att'[r] = Admitted(epoch, TRUE)
  PROVE  Cardinality(LiveProbes') = Cardinality(LiveProbes) + 1
<1>1. LiveProbes' = LiveProbes \cup {r} /\ r \notin LiveProbes
  BY DEF LiveProbes, Current, InFlight, Admitted
<1> QED BY <1>1, LiveProbesFinite, FS_AddElement

(* A request's own slot is the only one a result step moves. *)
LEMMA AttOthers ==
  ASSUME NEW r \in Reqs, CircuitInv,
         Success(r) \/ Failure(r) \/ ReleaseProbe(r) \/ Look(r) \/ Admit(r)
  PROVE  \A q \in Reqs \ {r} : att'[q] = att[q]
  BY DEF Success, Failure, ReleaseProbe, Look, Admit, AdmitClosed, AdmitOpen, AdmitHalfOpen,
         Hand, Refuse, CircuitInv, TypeOK

(* No step leaves a counted probe slot without a live probe behind it. *)
LEMMA SlotsNext == CircuitInv /\ SlotsAreHeld /\ [Next]_vars => SlotsAreHeld'
<1> SUFFICES ASSUME CircuitInv, SlotsAreHeld, [Next]_vars PROVE SlotsAreHeld'
  OBVIOUS
<1> USE LiveProbesFinite
<1>0. probesInFlight \in Nat /\ probesInFlight <= Cardinality(LiveProbes)
  BY DEF CircuitInv, TypeOK, SlotsAreHeld
<1>1. ASSUME probesInFlight' = 0 PROVE SlotsAreHeld'
  BY <1>1 DEF SlotsAreHeld
<1>2. ASSUME probesInFlight' = probesInFlight, LiveProbes' = LiveProbes PROVE SlotsAreHeld'
  BY <1>0, <1>2 DEF SlotsAreHeld
<1>3. CASE UNCHANGED vars
  BY <1>2, <1>3 DEF vars, gate, LiveProbes, Current, InFlight
<1>4. ASSUME NEW r \in Reqs, Look(r) PROVE SlotsAreHeld'
  <2>1. /\ att'[r].stage # "admitted" /\ r \notin LiveProbes /\ epoch' = epoch
        /\ probesInFlight' = probesInFlight
    BY <1>4 DEF Look, Chosen, Idle, LiveProbes, Current, InFlight, gate, CircuitInv, TypeOK
  <2>2. LiveProbes' = LiveProbes \ {r}
    BY <1>4, <2>1, AttOthers, LiveProbesAfter
  <2>3. LiveProbes' = LiveProbes
    BY <2>1, <2>2
  <2> QED BY <1>2, <2>1, <2>3
<1>5. ASSUME NEW r \in Reqs, Admit(r) PROVE SlotsAreHeld'
  <2>1. att[r].stage = "chosen" /\ r \notin LiveProbes
    BY <1>5 DEF Admit, LiveProbes, Current, InFlight
  <2>2. CASE OpenLocked(evidence)
    BY <1>1, <2>2 DEF OpenLocked
  <2>3. CASE UNCHANGED gate /\ (Refuse(r) \/ \E e \in Nat : Hand(r, e, FALSE))
    <3>1. att'[r].stage # "admitted" \/ ~att'[r].probe
      BY <2>3 DEF Refuse, Hand, Idle, Admitted, CircuitInv, TypeOK
    <3>2. epoch' = epoch /\ probesInFlight' = probesInFlight
      BY <2>3 DEF gate
    <3>3. LiveProbes' = LiveProbes \ {r}
      BY <1>5, <3>1, <3>2, AttOthers, LiveProbesAfter
    <3>4. LiveProbes' = LiveProbes
      BY <2>1, <3>3
    <3> QED BY <1>2, <3>2, <3>4
  <2>4. CASE /\ epoch' = epoch /\ Hand(r, epoch, TRUE)
             /\ probesInFlight' \in {1, probesInFlight + 1}
    <3>1. att'[r] = Admitted(epoch, TRUE)
      BY <2>4 DEF Hand, CircuitInv, TypeOK
    <3>2. Cardinality(LiveProbes') = Cardinality(LiveProbes) + 1
      BY <1>5, <2>1, <2>4, <3>1, AttOthers, LiveProbesAdmit
    <3> QED BY <1>0, <2>4, <3>2 DEF SlotsAreHeld
  <2>5. closedEpoch \in Nat /\ epoch \in Nat
    BY DEF CircuitInv, TypeOK
  <2>6. CASE AdmitClosed(r)
    BY <2>3, <2>5, <2>6 DEF AdmitClosed
  <2>7. CASE AdmitOpen(r)
    BY <2>3, <2>4, <2>7 DEF AdmitOpen
  <2>8. CASE AdmitHalfOpen(r)
    BY <2>2, <2>3, <2>4, <2>8 DEF AdmitHalfOpen
  <2> QED BY <1>5, <2>6, <2>7, <2>8 DEF Admit
<1>6. ASSUME NEW r \in Reqs, Success(r) \/ Failure(r) \/ ReleaseProbe(r) PROVE SlotsAreHeld'
  <2>1. att'[r].stage # "admitted"
    BY <1>6 DEF Success, Failure, ReleaseProbe, Idle, CircuitInv, TypeOK
  <2>2. CASE probesInFlight' = 0
    BY <1>1, <2>2
  <2>3. CASE /\ probesInFlight' = (IF probesInFlight > 0 THEN probesInFlight - 1 ELSE probesInFlight)
             /\ epoch' = epoch
    BY <1>0, <1>6, <2>1, <2>3, AttOthers, LiveProbesAfter DEF SlotsAreHeld
  <2>4. CASE probesInFlight' = probesInFlight /\ epoch' = epoch /\ r \notin LiveProbes
    BY <1>0, <1>6, <2>1, <2>4, AttOthers, LiveProbesAfter DEF SlotsAreHeld
  <2>5. \/ probesInFlight' = 0
        \/ ReleaseProbeLocked
        \/ UNCHANGED <<probesInFlight, epoch>> /\ r \notin LiveProbes
    BY <1>6 DEF Success, Failure, ReleaseProbe, OpenLocked, CloseLocked, StaleResult, IsStale,
       gate, LiveProbes, Current, InFlight
  <2> QED BY <2>2, <2>3, <2>4, <2>5 DEF ReleaseProbeLocked
<1>7. ASSUME ForceClose PROVE SlotsAreHeld'
  BY <1>1, <1>7 DEF ForceClose, CloseLocked
<1>8. ASSUME NEW mf \in MaxFailsOpts, NEW ft \in TimeoutOpts, NEW mp \in ProbesOpts, SetLimits(mf, ft, mp)
      PROVE SlotsAreHeld'
  BY <1>2, <1>8 DEF SetLimits, gate, LiveProbes, Current, InFlight
<1>9. ASSUME Tick PROVE SlotsAreHeld'
  BY <1>2, <1>9 DEF Tick, gate, LiveProbes, Current, InFlight
<1> QED
  BY <1>3, <1>4, <1>5, <1>6, <1>7, <1>8, <1>9 DEF Next

(* circuit.go leaks no probe slot on any result path. *)
THEOREM CircuitSlots == Spec => []SlotsAreHeld
<1>1. Init => SlotsAreHeld
  BY LiveProbesFinite DEF Init, SlotsAreHeld
<1> QED BY <1>1, CircuitInitInv, CircuitNextInv, SlotsNext, PTL DEF Spec

-----------------------------------------------------------------------------
(* The circuit trips only on max_fails consecutive failures of the live      *)
(* generation.                                                             *)
THEOREM CircuitTrip == Spec => TripNeedsEvidence
<1>1. CircuitInv /\ [Next]_vars =>
        [phase = CLOSED /\ phase' = OPEN => evidence'[epoch] >= maxFails]_vars
  <2> SUFFICES ASSUME CircuitInv, Next, phase = CLOSED, phase' = OPEN
               PROVE  evidence'[epoch] >= maxFails
    OBVIOUS
  <2>1. PICK r \in Reqs : Failure(r) /\ OpenLocked(Failed(att[r])) /\ Trips
                          /\ ~IsStale(att[r]) /\ ~att[r].probe
    <3> USE DEF CLOSED, OPEN, HALF_OPEN
    <3>1. PICK r \in Reqs : Failure(r)
      BY DEF Next, Look, Admit, AdmitClosed, AdmitOpen, AdmitHalfOpen, Success, ReleaseProbe,
         ForceClose, SetLimits, Tick, CloseLocked, StaleResult, ReleaseProbeLocked, gate
    <3>2. ~IsStale(att[r]) => ~att[r].probe
      BY <3>1 DEF Failure, CircuitInv, AdmissionsFitPhase, InFlight, IsStale
    <3> QED BY <3>1, <3>2 DEF Failure, StaleResult, ReleaseProbeLocked, gate
  <2>2. epoch \in Nat \ {0} /\ evidence \in [1..epoch -> Nat] /\ fails = evidence[epoch]
        /\ fails \in Nat /\ maxFails \in Nat
    BY DEF CircuitInv, TypeOK, FailsAreCurrentEvidence
  <2>3. Failed(att[r]) = [evidence EXCEPT ![epoch] = @ + 1]
    BY <2>1 DEF Failed, IsStale
  <2>4. evidence'[epoch] = Failed(att[r])[epoch]
    BY <2>1, <2>2 DEF OpenLocked, NewGeneration
  <2> QED BY <2>1, <2>2, <2>3, <2>4 DEF Trips
<1> QED BY <1>1, CircuitInitInv, CircuitNextInv, PTL DEF Spec, TripNeedsEvidence

(* The backend returns to rotation only on a probe of this half-open period, *)
(* or on the health checker's word.                                        *)
THEOREM CircuitRecovery == Spec => RecoveryNeedsProof
<1>1. CircuitInv /\ [Next]_vars =>
        [phase # CLOSED /\ phase' = CLOSED => att' = att \/ \E r \in LiveProbes : att'[r] = Idle]_vars
  <2> SUFFICES ASSUME CircuitInv, Next, phase # CLOSED, phase' = CLOSED, att' # att
               PROVE  \E r \in LiveProbes : att'[r] = Idle
    OBVIOUS
  <2>1. PICK r \in Reqs : Success(r) /\ ~IsStale(att[r]) /\ att[r].probe
    BY DEF Next, Look, Admit, AdmitClosed, AdmitOpen, AdmitHalfOpen, Success, Failure, ReleaseProbe,
       ForceClose, SetLimits, Tick, OpenLocked, CloseLocked, StaleResult, ReleaseProbeLocked, gate,
       CLOSED, OPEN, HALF_OPEN
  <2>2. r \in LiveProbes /\ att'[r] = Idle
    BY <2>1 DEF Success, LiveProbes, Current, InFlight, IsStale, CircuitInv, TypeOK
  <2> QED BY <2>2
<1> QED BY <1>1, CircuitInitInv, CircuitNextInv, PTL DEF Spec, RecoveryNeedsProof

(* Nothing but the health checker ends a cooldown early; nothing extends it. *)
THEOREM CircuitCooldown == Spec => CooldownHolds
<1>1. CircuitInv /\ [Next]_vars =>
        [phase = OPEN => \/ phase' = OPEN /\ openUntil' = openUntil
                         \/ phase' = HALF_OPEN /\ now >= openUntil
                         \/ phase' = CLOSED /\ att' = att]_vars
  <2> SUFFICES ASSUME CircuitInv, Next, phase = OPEN
               PROVE  \/ phase' = OPEN /\ openUntil' = openUntil
                      \/ phase' = HALF_OPEN /\ now >= openUntil
                      \/ phase' = CLOSED /\ att' = att
    OBVIOUS
  <2>1. \A r \in Reqs : att[r].stage = "admitted" => IsStale(att[r])
    BY DEF CircuitInv, AdmissionsFitPhase, InFlight, IsStale
  <2>2. ASSUME NEW r \in Reqs, Success(r) \/ Failure(r) \/ ReleaseProbe(r)
        PROVE  phase' = OPEN /\ openUntil' = openUntil
    BY <2>1, <2>2 DEF Success, Failure, ReleaseProbe, StaleResult, ReleaseProbeLocked, gate
  <2>3. ASSUME NEW r \in Reqs, Look(r) \/ Admit(r)
        PROVE  \/ phase' = OPEN /\ openUntil' = openUntil
               \/ phase' = HALF_OPEN /\ now >= openUntil
    BY <2>3 DEF Look, Admit, AdmitClosed, AdmitOpen, AdmitHalfOpen, CooledDown, gate,
       CLOSED, OPEN, HALF_OPEN
  <2>4. CASE ForceClose
    BY <2>4 DEF ForceClose, CloseLocked
  <2> QED BY <2>2, <2>3, <2>4 DEF Next, SetLimits, Tick, gate
<1> QED BY <1>1, CircuitInitInv, CircuitNextInv, PTL DEF Spec, CooldownHolds

-----------------------------------------------------------------------------
(***************************************************************************)
(* The driver.                                                             *)
(***************************************************************************)
Spots == {"idle", "again", "filter", "attempt", "failed", "body", "decide", "budget",
          "backoff", "stopped"}

(* The requests that hold a slot of a backend. *)
Holders(b) == {r \in Requests : OnBackend(r) /\ chosen[r] = b}

(* What the invariants say of one request, apart from the slots. *)
InTurn(r) ==
    /\ owed[r] = IF pc[r] \in {"attempt", "body"} THEN 1 ELSE 0
    /\ OnBackend(r) => chosen[r] \in Backends \ tried[r] /\ n[r] <= Cardinality(Backends)
    /\ avail[r] # {} => pc[r] = "filter" /\ avail[r] \cap tried[r] = {}
    /\ Trying(r) => n[r] = Cardinality(tried[r]) + 1
    /\ ~Trying(r) /\ pc[r] # "stopped" => n[r] = Cardinality(tried[r])
    /\ pc[r] = "idle" => n[r] = 0
    /\ cap[r] > 0 => n[r] <= cap[r] /\ (GoesAgain(r) => n[r] < cap[r])
    /\ GoesAgain(r) \/ n[r] > 1 => replayable[r]
    /\ Trying(r) \/ pc[r] \in {"decide", "budget"} => n[r] = paid[r] + 1
    /\ pc[r] \in {"idle", "backoff", "again"} => n[r] = paid[r]

RetryInv == RetryTypeOK /\ SlotsBalanced /\ \A r \in Requests : InTurn(r)

LEMMA RetryInvIs == RetryInv <=> NothingLeaks /\ AttemptsBounded /\ RetriesEarned
  BY DEF RetryInv, InTurn, NothingLeaks, VerdictsSettled, AttemptsBounded, RetriesEarned

-----------------------------------------------------------------------------
(* Slots.                                                                  *)
LEMMA SlotsKept ==
  ASSUME SlotsBalanced, inflight' = inflight,
         \A r \in Requests : /\ OnBackend(r)' <=> OnBackend(r)
                             /\ OnBackend(r) => chosen'[r] = chosen[r]
  PROVE  SlotsBalanced'
<1>1. \A b \in Backends : Holders(b)' = Holders(b)
  BY DEF Holders
<1> QED BY <1>1 DEF SlotsBalanced, Holders

LEMMA SlotTaken ==
  ASSUME SlotsBalanced, inflight \in [Backends -> Nat],
         NEW r \in Requests, NEW b \in Backends,
         ~OnBackend(r), OnBackend(r)', chosen'[r] = b,
         inflight' = [inflight EXCEPT ![b] = @ + 1],
         \A d \in Requests \ {r} : (OnBackend(d)' <=> OnBackend(d)) /\ chosen'[d] = chosen[d]
  PROVE  SlotsBalanced' /\ inflight' \in [Backends -> Nat]
<1>1. Holders(b)' = Holders(b) \cup {r} /\ r \notin Holders(b)
  BY DEF Holders
<1>2. \A c \in Backends \ {b} : Holders(c)' = Holders(c)
  BY DEF Holders
<1>3. \A c \in Backends : IsFiniteSet(Holders(c))
  BY SetsAssumption, FS_Subset DEF Holders
<1>4. Cardinality(Holders(b)') = Cardinality(Holders(b)) + 1
  BY <1>1, <1>3, FS_AddElement
<1>5. \A c \in Backends : inflight[c] = Cardinality(Holders(c))
  BY DEF SlotsBalanced, Holders
<1>6. \A c \in Backends : inflight'[c] = Cardinality(Holders(c)')
  BY <1>2, <1>4, <1>5
<1> QED BY <1>6 DEF SlotsBalanced, Holders

LEMMA SlotReturned ==
  ASSUME SlotsBalanced, inflight \in [Backends -> Nat],
         NEW r \in Requests, NEW b \in Backends,
         OnBackend(r), ~OnBackend(r)', chosen[r] = b,
         inflight' = [inflight EXCEPT ![b] = @ - 1],
         \A d \in Requests \ {r} : (OnBackend(d)' <=> OnBackend(d)) /\ chosen'[d] = chosen[d]
  PROVE  SlotsBalanced' /\ inflight' \in [Backends -> Nat]
<1>1. Holders(b)' = Holders(b) \ {r} /\ r \in Holders(b)
  BY DEF Holders
<1>2. \A c \in Backends \ {b} : Holders(c)' = Holders(c)
  BY DEF Holders
<1>3. \A c \in Backends : IsFiniteSet(Holders(c))
  BY SetsAssumption, FS_Subset DEF Holders
<1>4. Cardinality(Holders(b)') = Cardinality(Holders(b)) - 1
  BY <1>1, <1>3, FS_RemoveElement
<1>5. \A c \in Backends : inflight[c] = Cardinality(Holders(c))
  BY DEF SlotsBalanced, Holders
<1>6. Cardinality(Holders(b)') \in Nat
  BY <1>1, <1>3, FS_RemoveElement, FS_CardinalityType
<1>7. \A c \in Backends : inflight'[c] = Cardinality(Holders(c)')
  BY <1>2, <1>4, <1>5
<1>8. inflight' \in [Backends -> Nat]
  BY <1>4, <1>5, <1>6
<1> QED BY <1>7, <1>8 DEF SlotsBalanced, Holders

-----------------------------------------------------------------------------
(* A request's own facts survive the steps of the others. *)
Same(d) ==
    /\ pc'[d] = pc[d] /\ avail'[d] = avail[d] /\ chosen'[d] = chosen[d] /\ tried'[d] = tried[d]
    /\ n'[d] = n[d] /\ cap'[d] = cap[d] /\ replayable'[d] = replayable[d]
    /\ owed'[d] = owed[d] /\ paid'[d] = paid[d]

LEMMA OthersInTurn ==
  ASSUME NEW d \in Requests, InTurn(d), Same(d)
  PROVE  InTurn(d)' /\ (OnBackend(d)' <=> OnBackend(d))
  BY DEF InTurn, Same, OnBackend, Trying, GoesAgain

(* The tried set grows by one backend at a time and stays within them. *)
LEMMA TriedCount ==
  ASSUME NEW T \in SUBSET Backends
  PROVE  /\ Cardinality(T) \in Nat /\ Cardinality(Backends) \in Nat
         /\ \A b \in Backends \ T : /\ Cardinality(T \cup {b}) = Cardinality(T) + 1
                                    /\ Cardinality(T) + 1 <= Cardinality(Backends)
<1>1. IsFiniteSet(T) /\ IsFiniteSet(Backends)
  BY SetsAssumption, FS_Subset
<1>2. Cardinality(T) \in Nat /\ Cardinality(Backends) \in Nat
  BY <1>1, FS_CardinalityType
<1>3. ASSUME NEW b \in Backends \ T
      PROVE  /\ Cardinality(T \cup {b}) = Cardinality(T) + 1
             /\ Cardinality(T) + 1 <= Cardinality(Backends)
  <2>1. Cardinality(T \cup {b}) = Cardinality(T) + 1
    BY <1>1, FS_AddElement
  <2>2. Cardinality(T \cup {b}) <= Cardinality(Backends)
    <3>1. T \cup {b} \subseteq Backends
      OBVIOUS
    <3> QED BY <1>1, <3>1, FS_Subset
  <2> QED BY <2>1, <2>2
<1> QED BY <1>2, <1>3

LEMMA RetryInitInv == RetryInit => RetryInv
<1> SUFFICES ASSUME RetryInit PROVE RetryInv
  OBVIOUS
<1>1. Cardinality({}) = 0 /\ Cardinality(Backends) \in Nat
  BY FS_EmptySet, TriedCount
<1>2. RetryTypeOK
  BY LimitsAssumption DEF RetryInit, RetryTypeOK, NoResult, Errors, Reasons
<1>3. ASSUME NEW b \in Backends PROVE inflight[b] = Cardinality(Holders(b))
  <2>1. Holders(b) = {}
    BY DEF RetryInit, Holders, OnBackend
  <2> QED BY <1>1, <2>1 DEF RetryInit
<1>4. ASSUME NEW r \in Requests PROVE InTurn(r)
  <2>1. cap[r] \in Nat
    BY LimitsAssumption DEF RetryInit
  <2> QED BY <1>1, <2>1 DEF RetryInit, InTurn, OnBackend, Trying, GoesAgain
<1> QED BY <1>2, <1>3, <1>4 DEF RetryInv, SlotsBalanced, Holders

-----------------------------------------------------------------------------
(* Steps that neither take nor return a slot. *)
LEMMA QuietStep ==
  ASSUME RetryInv, NEW r \in Requests, RetryTypeOK', inflight' = inflight,
         \A d \in Requests \ {r} : Same(d), chosen'[r] = chosen[r],
         OnBackend(r)' <=> OnBackend(r), InTurn(r)'
  PROVE  RetryInv'
<1>1. \A d \in Requests : InTurn(d)' /\ (OnBackend(d)' <=> OnBackend(d)) /\ chosen'[d] = chosen[d]
  BY OthersInTurn DEF RetryInv, Same
<1>2. SlotsBalanced'
  BY <1>1, SlotsKept DEF RetryInv
<1> QED BY <1>1, <1>2 DEF RetryInv

LEMMA PickStep ==
  ASSUME RetryInv, NEW r \in Requests, Pick(r)
  PROVE  RetryInv'
<1>1. /\ RetryTypeOK /\ InTurn(r) /\ cap[r] \in Nat /\ n[r] \in Nat /\ paid[r] \in Nat
      /\ owed[r] \in Nat /\ tried[r] \in SUBSET Backends /\ Cardinality(tried[r]) \in Nat
  <2>1. RetryTypeOK /\ InTurn(r) /\ tried[r] \in SUBSET Backends /\ cap[r] \in Nat
    BY LimitsAssumption DEF RetryInv, RetryTypeOK
  <2> QED BY <2>1, TriedCount DEF RetryTypeOK
<1>2. RetryTypeOK'
  BY <1>1 DEF RetryTypeOK, Pick, Goes, request
<1>3. \A d \in Requests \ {r} : Same(d)
  BY <1>1 DEF RetryTypeOK, Pick, Goes, request, Same
<1>4. /\ pc[r] \in {"idle", "again"} /\ pc'[r] = "filter" /\ n'[r] = n[r] + 1 /\ avail'[r] = {}
      /\ UNCHANGED <<inflight, chosen, tried, cap, replayable, owed, paid>>
  BY <1>1 DEF RetryTypeOK, Pick, Goes, request
<1>5. InTurn(r)' /\ (OnBackend(r)' <=> OnBackend(r))
  BY <1>1, <1>4 DEF InTurn, OnBackend, Trying, GoesAgain
<1> QED BY <1>2, <1>3, <1>4, <1>5, QuietStep

LEMMA SelectStep ==
  ASSUME RetryInv, NEW r \in Requests, NEW b \in Backends, Filter(r, b) \/ LoseClaim(r, b)
  PROVE  RetryInv'
<1>1. RetryTypeOK /\ InTurn(r)
  BY DEF RetryInv
<1>2. RetryTypeOK'
  <2>1. PICK A \in SUBSET Backends : avail' = [avail EXCEPT ![r] = A]
    BY <1>1 DEF RetryTypeOK, Filter, LoseClaim
  <2>2. PICK L \in SUBSET Backends : look' = [look EXCEPT ![r] = L]
    <3>1. CASE Filter(r, b)
      BY <1>1, <3>1 DEF RetryTypeOK, Filter
    <3>2. CASE LoseClaim(r, b)
      BY <1>1, <3>2 DEF RetryTypeOK, LoseClaim
    <3> QED BY <3>1, <3>2
  <2>3. avail' \in [Requests -> SUBSET Backends] /\ look' \in [Requests -> SUBSET Backends]
    BY <1>1, <2>1, <2>2 DEF RetryTypeOK
  <2> QED BY <1>1, <2>3 DEF RetryTypeOK, Filter, LoseClaim, request
<1>3. \A d \in Requests \ {r} : Same(d)
  BY <1>1 DEF RetryTypeOK, Filter, LoseClaim, request, Same
<1>4. /\ avail'[r] \subseteq avail[r] \cup (Backends \ tried[r]) /\ pc[r] = "filter"
      /\ UNCHANGED <<pc, n, inflight, chosen, tried, cap, replayable, owed, paid>>
  BY <1>1 DEF RetryTypeOK, Filter, LoseClaim, Passes, request
<1>5. InTurn(r)' /\ (OnBackend(r)' <=> OnBackend(r))
  BY <1>1, <1>4 DEF InTurn, OnBackend, Trying, GoesAgain
<1> QED BY <1>2, <1>3, <1>4, <1>5, QuietStep

LEMMA ClaimStep ==
  ASSUME RetryInv, NEW r \in Requests, NEW b \in Backends, Claim(r, b)
  PROVE  RetryInv'
<1>1. /\ RetryTypeOK /\ SlotsBalanced /\ InTurn(r) /\ b \notin tried[r] /\ tried[r] \subseteq Backends
      /\ \A d \in Requests : InTurn(d)
  BY DEF RetryInv, RetryTypeOK, Claim, InTurn
<1>2. \A d \in Requests \ {r} : Same(d)
  BY <1>1 DEF RetryTypeOK, Claim, Goes, request, Same
<1>3. /\ pc[r] = "filter" /\ pc'[r] = "attempt" /\ chosen'[r] = b /\ avail'[r] = {}
      /\ owed'[r] = owed[r] + 1 /\ inflight' = [inflight EXCEPT ![b] = @ + 1]
      /\ UNCHANGED <<n, tried, cap, replayable, paid>>
  BY <1>1 DEF RetryTypeOK, Claim, Goes, request
<1>4. Cardinality(tried[r]) + 1 <= Cardinality(Backends)
  BY <1>1, TriedCount
<1>5. InTurn(r)'
  BY <1>1, <1>3, <1>4 DEF InTurn, OnBackend, Trying, GoesAgain
<1>6. \A d \in Requests \ {r} : InTurn(d)' /\ (OnBackend(d)' <=> OnBackend(d)) /\ chosen'[d] = chosen[d]
  BY <1>1, <1>2, OthersInTurn DEF Same
<1>7. ~OnBackend(r) /\ OnBackend(r)' /\ inflight \in [Backends -> Nat]
  BY <1>1, <1>3 DEF OnBackend, RetryTypeOK
<1>8. SlotsBalanced' /\ inflight' \in [Backends -> Nat]
  BY <1>1, <1>3, <1>6, <1>7, SlotTaken
<1>9. RetryTypeOK'
  BY <1>1, <1>8 DEF RetryTypeOK, Claim, Goes, request
<1> QED BY <1>5, <1>6, <1>8, <1>9 DEF RetryInv

-----------------------------------------------------------------------------
(* The adapter, up to the response or the failure. *)
LEMMA AttemptStep ==
  ASSUME RetryInv, NEW r \in Requests,
         RewindFails(r) \/ PrepareFails(r) \/ RoundTripFails(r) \/ Responds(r)
  PROVE  RetryInv'
<1>1. RetryTypeOK /\ InTurn(r) /\ owed[r] \in Nat
  BY DEF RetryInv, RetryTypeOK
<1>2. pc[r] = "attempt" /\ owed[r] = 1
  BY <1>1 DEF RewindFails, PrepareFails, RoundTripFails, Responds, InTurn
<1>3. CASE Responds(r)
  <2>1. RetryTypeOK'
    BY <1>1, <1>3 DEF RetryTypeOK, Responds, Goes, request, selection, Reasons
  <2>2. \A d \in Requests \ {r} : Same(d)
    BY <1>1, <1>3 DEF RetryTypeOK, Responds, Goes, request, selection, Same
  <2>3. /\ pc'[r] = "body"
        /\ UNCHANGED <<n, avail, inflight, chosen, tried, cap, replayable, owed, paid>>
    BY <1>1, <1>3 DEF RetryTypeOK, Responds, Goes, request, selection
  <2>4. InTurn(r)' /\ (OnBackend(r)' <=> OnBackend(r))
    BY <1>1, <1>2, <2>3 DEF InTurn, OnBackend, Trying, GoesAgain
  <2> QED BY <2>1, <2>2, <2>3, <2>4, QuietStep
<1>4. ASSUME NEW e \in Errors, NEW t \in BOOLEAN, Settled(r), Fails(r, e, t)
      PROVE  RetryInv'
  <2>1. RetryTypeOK'
    <3>1. owed' \in [Requests -> Nat]
      BY <1>1, <1>2, <1>4 DEF RetryTypeOK, Settled
    <3> QED BY <1>1, <1>4, <3>1 DEF RetryTypeOK, Fails, Goes, request, selection
  <2>2. \A d \in Requests \ {r} : Same(d)
    BY <1>1, <1>4 DEF RetryTypeOK, Fails, Settled, Goes, request, selection, Same
  <2>3. /\ pc'[r] = "failed" /\ owed'[r] = 0
        /\ UNCHANGED <<n, avail, inflight, chosen, tried, cap, replayable, paid>>
    BY <1>1, <1>2, <1>4 DEF RetryTypeOK, Fails, Settled, Goes, request, selection
  <2>4. InTurn(r)' /\ (OnBackend(r)' <=> OnBackend(r))
    BY <1>1, <1>2, <2>3 DEF InTurn, OnBackend, Trying, GoesAgain
  <2> QED BY <2>1, <2>2, <2>3, <2>4, QuietStep
<1> QED BY <1>3, <1>4 DEF RewindFails, PrepareFails, RoundTripFails, Errors

(* Do after a failure, up to the decision. *)
LEMMA SlotReleaseStep ==
  ASSUME RetryInv, NEW r \in Requests, ReleaseFailed(r) \/ BodyEnds(r)
  PROVE  RetryInv'
<1>1. /\ RetryTypeOK /\ SlotsBalanced /\ InTurn(r) /\ inflight \in [Backends -> Nat]
      /\ tried[r] \in SUBSET Backends /\ owed \in [Requests -> Nat]
      /\ pc \in [Requests -> Spots]
      /\ \A d \in Requests : InTurn(d)
  BY DEF RetryInv, RetryTypeOK, Spots
<1>2. OnBackend(r) /\ chosen[r] \in Backends /\ chosen[r] \notin tried[r]
  BY <1>1 DEF ReleaseFailed, BodyEnds, OnBackend, InTurn
<1>3. \A d \in Requests \ {r} : Same(d)
  BY <1>1 DEF RetryTypeOK, ReleaseFailed, BodyEnds, Settled, Goes, request, selection, Same
<1>4. \A d \in Requests \ {r} : InTurn(d)' /\ (OnBackend(d)' <=> OnBackend(d)) /\ chosen'[d] = chosen[d]
  BY <1>1, <1>3, OthersInTurn DEF Same
<1>5. /\ inflight' = [inflight EXCEPT ![chosen[r]] = @ - 1]
      /\ pc'[r] \in {"decide", "stopped"}
      /\ UNCHANGED <<chosen, n, avail, cap, replayable, paid>>
  BY <1>1 DEF ReleaseFailed, BodyEnds, Released, Goes, request, selection
<1>6. SlotsBalanced' /\ inflight' \in [Backends -> Nat]
  <2>1. ~OnBackend(r)'
    BY <1>5 DEF OnBackend
  <2> QED BY <1>1, <1>2, <1>4, <1>5, <2>1, SlotReturned
<1>7. CASE ReleaseFailed(r)
  <2>1. RetryTypeOK'
    BY <1>1, <1>2, <1>6, <1>7 DEF RetryTypeOK, ReleaseFailed, Goes, request, selection
  <2>2. /\ pc[r] = "failed" /\ pc'[r] = "decide" /\ tried'[r] = tried[r] \cup {chosen[r]}
        /\ owed'[r] = owed[r]
    BY <1>1, <1>7 DEF RetryTypeOK, ReleaseFailed, Goes
  <2>3. Cardinality(tried'[r]) = Cardinality(tried[r]) + 1
    BY <1>1, <1>2, <2>2, TriedCount
  <2>4. avail[r] = {}
    BY <1>1, <2>2 DEF InTurn
  <2>5. InTurn(r)'
    BY <1>1, <1>5, <2>2, <2>3, <2>4 DEF InTurn, OnBackend, Trying, GoesAgain
  <2> QED BY <1>4, <1>6, <2>1, <2>5 DEF RetryInv
<1>8. CASE BodyEnds(r)
  <2>1. owed[r] = 1 /\ owed'[r] = 0 /\ owed' \in [Requests -> Nat]
    BY <1>1, <1>8 DEF BodyEnds, Settled, InTurn
  <2>2. RetryTypeOK'
    BY <1>1, <1>6, <1>8, <2>1 DEF RetryTypeOK, BodyEnds, Goes, request, selection
  <2>3. pc[r] = "body" /\ pc'[r] = "stopped" /\ tried'[r] = tried[r]
    BY <1>1, <1>8 DEF RetryTypeOK, BodyEnds, Goes
  <2>4. InTurn(r)'
    BY <1>1, <1>5, <2>1, <2>3 DEF InTurn, OnBackend, Trying, GoesAgain
  <2> QED BY <1>4, <1>6, <2>2, <2>4 DEF RetryInv
<1> QED BY <1>7, <1>8

-----------------------------------------------------------------------------
(* The driver between two attempts, and where it gives up. *)
LEMMA DecideStep ==
  ASSUME RetryInv, NEW r \in Requests,
         \/ PickNothing(r) \/ Decide(r) \/ BudgetAllows(r) \/ BudgetDenies(r)
         \/ BackoffEnds(r) \/ BackoffOverruns(r)
  PROVE  RetryInv'
<1>1. /\ RetryTypeOK /\ InTurn(r) /\ cap[r] \in Nat /\ n[r] \in Nat /\ paid[r] \in Nat
      /\ paid \in [Requests -> Nat] /\ pc \in [Requests -> Spots] /\ stop \in [Requests -> Reasons]
  BY LimitsAssumption DEF RetryInv, RetryTypeOK, Spots
<1>2. UNCHANGED <<available, inflight, look, avail, chosen, tried, n, cap, replayable, expired,
                  result, lastErr, owed>>
  BY DEF PickNothing, Decide, BudgetAllows, BudgetDenies, BackoffEnds, BackoffOverruns,
     request, selection
<1>3. /\ pc[r] \in {"filter", "decide", "budget", "backoff"}
      /\ \E p \in {"stopped", "budget", "backoff", "again"} : pc' = [pc EXCEPT ![r] = p]
  BY DEF PickNothing, Decide, BudgetAllows, BudgetDenies, BackoffEnds, BackoffOverruns, Stops, Goes
<1>4. stop' \in [Requests -> Reasons]
  <2>1. Retryable(r) \in Reasons
    BY DEF Retryable, Reasons
  <2>2. stop' = stop \/ \E why \in Reasons : stop' = [stop EXCEPT ![r] = why]
    BY <2>1 DEF PickNothing, Decide, BudgetAllows, BudgetDenies, BackoffEnds, BackoffOverruns,
       Stops, Reasons
  <2> QED BY <1>1, <2>2
<1>5. /\ paid' \in [Requests -> Nat] /\ \A d \in Requests \ {r} : paid'[d] = paid[d]
      /\ pc[r] # "budget" => paid'[r] = paid[r]
      /\ pc'[r] = "backoff" => paid'[r] = paid[r] + 1
      /\ pc'[r] = "again" => pc[r] = "backoff"
      /\ pc'[r] = "backoff" => pc[r] = "budget"
  BY <1>1 DEF PickNothing, Decide, BudgetAllows, BudgetDenies, BackoffEnds, BackoffOverruns,
     Stops, Goes
<1>6. pc'[r] = "budget" => pc[r] = "decide" /\ replayable[r] /\ (cap[r] > 0 => n[r] < cap[r])
                           /\ paid'[r] = paid[r]
  <2>1. CASE Decide(r)
    <3>1. Retryable(r) = "none" => replayable[r] /\ ~(cap[r] > 0 /\ n[r] >= cap[r])
      BY DEF Retryable
    <3> QED BY <1>1, <2>1, <3>1 DEF Decide, Goes, Stops
  <2>2. CASE ~Decide(r)
    BY <1>1, <2>2 DEF PickNothing, BudgetAllows, BudgetDenies, BackoffEnds, BackoffOverruns,
       Stops, Goes
  <2> QED BY <2>1, <2>2
<1>7. RetryTypeOK'
  BY <1>1, <1>2, <1>3, <1>4, <1>5 DEF RetryTypeOK, Spots
<1>8. \A d \in Requests \ {r} : Same(d)
  BY <1>1, <1>2, <1>3, <1>5 DEF Same
<1>9. pc'[r] \in {"stopped", "budget", "backoff", "again"}
  BY <1>1, <1>3
<1>10. avail[r] = {}
  BY <1>1, <1>3 DEF InTurn, PickNothing, Decide, BudgetAllows, BudgetDenies, BackoffEnds, BackoffOverruns
<1>11. InTurn(r)' /\ (OnBackend(r)' <=> OnBackend(r))
  BY <1>1, <1>2, <1>3, <1>5, <1>6, <1>9, <1>10 DEF InTurn, OnBackend, Trying, GoesAgain
<1> QED BY <1>2, <1>7, <1>8, <1>11, QuietStep

(* Deadlines and availability touch nothing the requests count. *)
LEMMA OutsideStep ==
  ASSUME RetryInv,
         \/ \E r \in Requests : Expire(r)
         \/ \E b \in Backends : Turn(b)
         \/ UNCHANGED retryVars
  PROVE  RetryInv'
<1>1. RetryTypeOK
  BY DEF RetryInv
<1>2. UNCHANGED <<inflight, pc, look, avail, chosen, tried, n, cap, replayable, result, lastErr,
                  stop, owed, paid>>
  BY DEF Expire, Turn, retryVars, selection, request
<1>3. available' \in [Backends -> BOOLEAN] /\ expired' \in [Requests -> BOOLEAN]
  <2>1. CASE \E r \in Requests : Expire(r)
    BY <1>1, <2>1 DEF RetryTypeOK, Expire
  <2>2. CASE \E b \in Backends : Turn(b)
    <3>1. PICK b \in Backends : Turn(b)
      BY <2>2
    <3>2. available' = [available EXCEPT ![b] = ~available[b]] /\ expired' = expired
      BY <3>1 DEF Turn
    <3>3. (~available[b]) \in BOOLEAN
      OBVIOUS
    <3> QED BY <1>1, <3>2, <3>3 DEF RetryTypeOK
  <2>3. CASE UNCHANGED retryVars
    BY <1>1, <2>3 DEF RetryTypeOK, retryVars
  <2> QED BY <2>1, <2>2, <2>3
<1>4. RetryTypeOK'
  BY <1>1, <1>2, <1>3 DEF RetryTypeOK
<1>5. \A d \in Requests : InTurn(d)' /\ (OnBackend(d)' <=> OnBackend(d))
  BY <1>2, OthersInTurn DEF RetryInv, Same
<1>6. SlotsBalanced'
  BY <1>2, <1>5, SlotsKept DEF RetryInv
<1> QED BY <1>4, <1>5, <1>6 DEF RetryInv

LEMMA RetryNextInv == RetryInv /\ [RetryNext]_retryVars => RetryInv'
<1> SUFFICES ASSUME RetryInv, [RetryNext]_retryVars PROVE RetryInv'
  OBVIOUS
<1>1. ASSUME NEW r \in Requests, Driver(r) PROVE RetryInv'
  BY <1>1, PickStep, SelectStep, ClaimStep, SlotReleaseStep, DecideStep DEF Driver
<1>2. ASSUME NEW r \in Requests, Adapter(r) PROVE RetryInv'
  BY <1>2, AttemptStep, SlotReleaseStep DEF Adapter
<1> QED BY <1>1, <1>2, OutsideStep DEF RetryNext

LEMMA RetryInductive == RetrySpec => []RetryInv
  BY RetryInitInv, RetryNextInv, PTL DEF RetrySpec

(* Every slot and every verdict a request holds it gives back, exactly     *)
(* once, on every path through Pool.Do, the adapter and the body wrapper,  *)
(* whatever the other requests, the deadlines and the circuits do.         *)
THEOREM RetryNothingLeaks == RetrySpec => []NothingLeaks
<1>1. RetryInv => NothingLeaks
  BY RetryInvIs
<1> QED BY <1>1, RetryInductive, PTL

(* A request attempts no backend twice, and makes no more attempts than    *)
(* there are backends or than its cap allows.                              *)
THEOREM RetryAttemptsBounded == RetrySpec => []AttemptsBounded
<1>1. RetryInv => AttemptsBounded
  BY RetryInvIs
<1> QED BY <1>1, RetryInductive, PTL

(* Only a replayable request is attempted again, and every attempt after    *)
(* the first was paid for by one grant of the retry budget.                *)
THEOREM RetryRetriesEarned == RetrySpec => []RetriesEarned
<1>1. RetryInv => RetriesEarned
  BY RetryInvIs
<1> QED BY <1>1, RetryInductive, PTL
=============================================================================
