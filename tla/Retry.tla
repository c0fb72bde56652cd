-------------------------------- MODULE Retry --------------------------------
(***************************************************************************)
(* The retry driver Pool.Do (internal/upstream/retry.go), the selection of *)
(* a backend it starts every attempt with (selectBackend, snapshot.go) and *)
(* the HTTP adapter it drives (balancingTransport.RoundTrip,               *)
(* internal/handler/proxy.go, with the response body of upstream/body.go). *)
(*                                                                         *)
(* A request takes a slot of one backend at a time (Backend.inflight) and  *)
(* owes the circuit of that backend exactly one verdict.  Whether a        *)
(* backend may take traffic (its active health and its circuit) changes    *)
(* under the driver at any moment; it is an environment variable here and  *)
(* the subject of Circuit.  The retry budget says yes or no; it is the     *)
(* subject of RetryBudget.                                                 *)
(***************************************************************************)
EXTENDS Integers, FiniteSets

CONSTANTS Requests, Backends,
          NoBackend,     \* the zero Attempt, before the first selection
          MaxAttempts,   \* attempt caps requests may carry; 0 is "every backend once"
          PerBackend     \* max_active_per_backend; 0 is unlimited

ASSUME SetsAssumption == IsFiniteSet(Requests) /\ IsFiniteSet(Backends)
ASSUME NoBackendAssumption == NoBackend \notin Backends
ASSUME LimitsAssumption == MaxAttempts \subseteq Nat /\ PerBackend \in Nat

VARIABLES
    available,   \* Backend.available: active health and circuit agree
    inflight,    \* Backend.inflight
    pc,          \* where each request is
    look,        \* backends its selection has still to examine
    avail,       \* backends its selection found eligible
    chosen,      \* the backend of the current attempt
    tried,       \* backends it has already failed against
    n,           \* attempt number
    cap,         \* RetryRequest.MaxAttempts
    replayable,  \* RetryRequest.Replayable
    expired,     \* the retry deadline has passed
    result,      \* AttemptResult of the attempt that failed
    lastErr,     \* what Do would return
    stop,        \* StopReason
    owed,        \* verdicts owed to circuits for admitted attempts
    paid         \* retries the budget granted it

selection == <<look, avail>>
request == <<cap, replayable>>
retryVars == <<available, inflight, pc, selection, chosen, tried, n, request, expired,
               result, lastErr, stop, owed, paid>>

Errors == {"none", "upstream", "canceled", "rewind", "prepare"}
Reasons == {"none", "success", "not_retryable", "terminal_error",
            "cancelled", "attempts_exhausted", "deadline_exceeded",
            "budget_exhausted", "no_untried_backend"}
NoResult == [err |-> "none", terminal |-> FALSE]

RetryInit ==
    /\ available = [b \in Backends |-> TRUE]
    /\ inflight = [b \in Backends |-> 0]
    /\ pc = [r \in Requests |-> "idle"]
    /\ look = [r \in Requests |-> {}]
    /\ avail = [r \in Requests |-> {}]
    /\ chosen = [r \in Requests |-> NoBackend]
    /\ tried = [r \in Requests |-> {}]
    /\ n = [r \in Requests |-> 0]
    /\ cap \in [Requests -> MaxAttempts]
    /\ replayable \in [Requests -> BOOLEAN]
    /\ expired = [r \in Requests |-> FALSE]
    /\ result = [r \in Requests |-> NoResult]
    /\ lastErr = [r \in Requests |-> "none"]
    /\ stop = [r \in Requests |-> "none"]
    /\ owed = [r \in Requests |-> 0]
    /\ paid = [r \in Requests |-> 0]

Goes(r, place) == pc' = [pc EXCEPT ![r] = place]

Stops(r, reason) == Goes(r, "stopped") /\ stop' = [stop EXCEPT ![r] = reason]

Released(b) == inflight' = [inflight EXCEPT ![b] = @ - 1]

(* RecordAttempt: a success, a failure or a returned probe, for the        *)
(* admission of the current attempt.                                       *)
Settled(r) == owed' = [owed EXCEPT ![r] = @ - 1]

NotSettled(r) == UNCHANGED owed

-----------------------------------------------------------------------------
(* PickKeyed and selectBackend.  Every turn of the loop in Do starts here; *)
(* the filter examines the backends one after another.                     *)
Pick(r) ==
    /\ pc[r] \in {"idle", "again"}
    /\ n' = [n EXCEPT ![r] = @ + 1]
    /\ look' = [look EXCEPT ![r] = Backends]
    /\ avail' = [avail EXCEPT ![r] = {}]
    /\ Goes(r, "filter")
    /\ UNCHANGED <<available, inflight, chosen, tried, request, expired, result, lastErr,
                   stop, owed, paid>>

IsSaturated(b) == PerBackend > 0 /\ inflight[b] >= PerBackend

(* Mutant: a filter that forgets the tried set. *)
PassesThoughTried(r, b) == available[b] /\ ~IsSaturated(b)

Passes(r, b) == available[b] /\ b \notin tried[r] /\ ~IsSaturated(b)

Filter(r, b) ==
    /\ pc[r] = "filter"
    /\ b \in look[r]
    /\ look' = [look EXCEPT ![r] = @ \ {b}]
    /\ avail' = [avail EXCEPT ![r] = IF Passes(r, b) THEN @ \cup {b} ELSE @]
    /\ UNCHANGED <<available, inflight, pc, chosen, tried, n, request, expired, result,
                   lastErr, stop, owed, paid>>

(* The balancer's choice claims an admission and a slot ...                *)
Claim(r, b) ==
    /\ pc[r] = "filter"
    /\ look[r] = {}
    /\ b \in avail[r]
    /\ available[b]
    /\ inflight' = [inflight EXCEPT ![b] = @ + 1]
    /\ owed' = [owed EXCEPT ![r] = @ + 1]
    /\ chosen' = [chosen EXCEPT ![r] = b]
    /\ avail' = [avail EXCEPT ![r] = {}]
    /\ Goes(r, "attempt")
    /\ UNCHANGED <<available, look, tried, n, request, expired, result, lastErr, stop, paid>>

(* ... or loses the race for it, and the balancer chooses from the rest.   *)
LoseClaim(r, b) ==
    /\ pc[r] = "filter"
    /\ look[r] = {}
    /\ b \in avail[r]
    /\ ~available[b]
    /\ avail' = [avail EXCEPT ![r] = @ \ {b}]
    /\ UNCHANGED <<available, inflight, pc, look, chosen, tried, n, request, expired, result,
                   lastErr, stop, owed, paid>>

(* Nothing is left: Do reports the failure that started the sequence.      *)
PickNothing(r) ==
    /\ pc[r] = "filter"
    /\ look[r] = {} /\ avail[r] = {}
    /\ Stops(r, "no_untried_backend")
    /\ UNCHANGED <<available, inflight, selection, chosen, tried, n, request, expired, result,
                   lastErr, owed, paid>>

-----------------------------------------------------------------------------
(* The adapter: one attempt.                                               *)
Fails(r, err, terminal) ==
    /\ result' = [result EXCEPT ![r] = [err |-> err, terminal |-> terminal]]
    /\ Goes(r, "failed")
    /\ UNCHANGED <<available, inflight, selection, chosen, tried, n, request, expired,
                   lastErr, stop, paid>>

(* Mutant: a failed rewind without its verdict. *)
RewindFailsUnsettled(r) ==
    /\ pc[r] = "attempt" /\ n[r] > 1
    /\ NotSettled(r)
    /\ Fails(r, "rewind", TRUE)

(* A retry whose body cannot be rewound never reaches the backend.         *)
RewindFails(r) ==
    /\ pc[r] = "attempt" /\ n[r] > 1
    /\ Settled(r)
    /\ Fails(r, "rewind", TRUE)

PrepareFails(r) ==
    /\ pc[r] = "attempt"
    /\ Settled(r)
    /\ Fails(r, "prepare", TRUE)

(* A client's bad body and a backend identity mismatch are terminal.       *)
RoundTripFails(r) ==
    /\ pc[r] = "attempt"
    /\ Settled(r)
    /\ \/ \E terminal \in BOOLEAN : Fails(r, "upstream", terminal)
       \/ Fails(r, "canceled", FALSE)

(* A response keeps the slot, and its verdict waits for the body.          *)
Responds(r) ==
    /\ pc[r] = "attempt"
    /\ Goes(r, "body")
    /\ stop' = [stop EXCEPT ![r] = "success"]
    /\ UNCHANGED <<available, inflight, selection, chosen, tried, n, request, expired,
                   result, lastErr, owed, paid>>

(* The first of Read, Write and Close to see an outcome finishes it; later *)
(* ones find the sync.Once spent.                                          *)
BodyEnds(r) ==
    /\ pc[r] = "body"
    /\ Settled(r)
    /\ Released(chosen[r])
    /\ Goes(r, "stopped")
    /\ UNCHANGED <<available, selection, chosen, tried, n, request, expired, result, lastErr,
                   stop, paid>>

-----------------------------------------------------------------------------
(* Do after a failed attempt: the slot goes back, the backend is excluded. *)
ReleaseFailed(r) ==
    /\ pc[r] = "failed"
    /\ Released(chosen[r])
    /\ tried' = [tried EXCEPT ![r] = @ \cup {chosen[r]}]
    /\ lastErr' = [lastErr EXCEPT ![r] = result[r].err]
    /\ Goes(r, "decide")
    /\ UNCHANGED <<available, selection, chosen, n, request, expired, result, stop, owed, paid>>

HasUntried(r) == \E b \in Backends \ tried[r] : available[b]

(* Mutant: replayability not looked at. *)
RetryableUnsafely(r) ==
    IF result[r].terminal THEN "terminal_error"
    ELSE IF result[r].err = "canceled" THEN "cancelled"
    ELSE IF cap[r] > 0 /\ n[r] >= cap[r] THEN "attempts_exhausted"
    ELSE IF expired[r] THEN "deadline_exceeded"
    ELSE IF ~HasUntried(r) THEN "no_untried_backend"
    ELSE "none"

(* Retryable: the reason names the first condition that failed.            *)
Retryable(r) ==
    IF ~replayable[r] THEN "not_retryable"
    ELSE IF result[r].terminal THEN "terminal_error"
    ELSE IF result[r].err = "canceled" THEN "cancelled"
    ELSE IF cap[r] > 0 /\ n[r] >= cap[r] THEN "attempts_exhausted"
    ELSE IF expired[r] THEN "deadline_exceeded"
    ELSE IF ~HasUntried(r) THEN "no_untried_backend"
    ELSE "none"

Decide(r) ==
    /\ pc[r] = "decide"
    /\ IF Retryable(r) = "none" THEN Goes(r, "budget") /\ UNCHANGED stop
                                ELSE Stops(r, Retryable(r))
    /\ UNCHANGED <<available, inflight, selection, chosen, tried, n, request, expired, result,
                   lastErr, owed, paid>>

BudgetAllows(r) ==
    /\ pc[r] = "budget"
    /\ paid' = [paid EXCEPT ![r] = @ + 1]
    /\ Goes(r, "backoff")
    /\ UNCHANGED <<available, inflight, selection, chosen, tried, n, request, expired, result,
                   lastErr, stop, owed>>

BudgetDenies(r) ==
    /\ pc[r] = "budget"
    /\ Stops(r, "budget_exhausted")
    /\ UNCHANGED <<available, inflight, selection, chosen, tried, n, request, expired, result,
                   lastErr, owed, paid>>

(* The sleep ends, or it would end past the deadline or is cut by it.      *)
BackoffEnds(r) ==
    /\ pc[r] = "backoff"
    /\ Goes(r, "again")
    /\ UNCHANGED <<available, inflight, selection, chosen, tried, n, request, expired, result,
                   lastErr, stop, owed, paid>>

BackoffOverruns(r) ==
    /\ pc[r] = "backoff"
    /\ Stops(r, "deadline_exceeded")
    /\ UNCHANGED <<available, inflight, selection, chosen, tried, n, request, expired, result,
                   lastErr, owed, paid>>

-----------------------------------------------------------------------------
(* The environment: deadlines pass, health and circuits change.            *)
Expire(r) ==
    /\ ~expired[r] /\ pc[r] \notin {"idle", "stopped"}
    /\ expired' = [expired EXCEPT ![r] = TRUE]
    /\ UNCHANGED <<available, inflight, pc, selection, chosen, tried, n, request, result,
                   lastErr, stop, owed, paid>>

Turn(b) ==
    /\ available' = [available EXCEPT ![b] = ~@]
    /\ UNCHANGED <<inflight, pc, selection, chosen, tried, n, request, expired, result,
                   lastErr, stop, owed, paid>>

Adapter(r) ==
    RewindFails(r) \/ PrepareFails(r) \/ RoundTripFails(r) \/ Responds(r) \/ BodyEnds(r)

Driver(r) ==
    \/ Pick(r) \/ PickNothing(r) \/ ReleaseFailed(r) \/ Decide(r)
    \/ BudgetAllows(r) \/ BudgetDenies(r) \/ BackoffEnds(r) \/ BackoffOverruns(r)
    \/ \E b \in Backends : Filter(r, b) \/ Claim(r, b) \/ LoseClaim(r, b)

RetryNext ==
    \/ \E r \in Requests : Driver(r) \/ Adapter(r) \/ Expire(r)
    \/ \E b \in Backends : Turn(b)

RetrySpec == RetryInit /\ [][RetryNext]_retryVars

-----------------------------------------------------------------------------
(* Types of the variables.                                                 *)
RetryTypeOK ==
    /\ available \in [Backends -> BOOLEAN]
    /\ inflight \in [Backends -> Nat]
    /\ pc \in [Requests -> {"idle", "again", "filter", "attempt", "failed", "body", "decide",
                            "budget", "backoff", "stopped"}]
    /\ look \in [Requests -> SUBSET Backends]
    /\ avail \in [Requests -> SUBSET Backends]
    /\ chosen \in [Requests -> Backends \cup {NoBackend}]
    /\ tried \in [Requests -> SUBSET Backends]
    /\ n \in [Requests -> Nat]
    /\ cap \in [Requests -> MaxAttempts]
    /\ replayable \in [Requests -> BOOLEAN]
    /\ expired \in [Requests -> BOOLEAN]
    /\ result \in [Requests -> [err : Errors, terminal : BOOLEAN]]
    /\ lastErr \in [Requests -> Errors]
    /\ stop \in [Requests -> Reasons]
    /\ owed \in [Requests -> Nat]
    /\ paid \in [Requests -> Nat]

OnBackend(r) == pc[r] \in {"attempt", "failed", "body"}

(* Every slot a backend counts belongs to one attempt or response body,    *)
(* and every attempt holds one: Do and the body wrapper release exactly    *)
(* once between them.                                                      *)
SlotsBalanced ==
    \A b \in Backends :
        inflight[b] = Cardinality({r \in Requests : OnBackend(r) /\ chosen[r] = b})

(* Every admission a circuit gave out gets exactly one verdict, on every   *)
(* path of the adapter: a missing one would hold a half-open probe slot.   *)
VerdictsSettled ==
    \A r \in Requests : owed[r] = IF pc[r] \in {"attempt", "body"} THEN 1 ELSE 0

(* What a request holds it gives back: types, slots and verdicts, on every *)
(* path through Do, the adapter and the body wrapper.                      *)
NothingLeaks == RetryTypeOK /\ SlotsBalanced /\ VerdictsSettled

(* The turn of the loop in Do that a request is in: it is choosing or using *)
(* a backend, or it has earned another turn.                               *)
Trying(r) == pc[r] \in {"filter", "attempt", "failed", "body"}
GoesAgain(r) == pc[r] \in {"budget", "backoff", "again"}

(* No backend is tried twice by one request, whatever became available     *)
(* again meanwhile: every turn counted so far excluded one backend, so     *)
(* attempts never outnumber the backends or the cap.                       *)
AttemptsBounded ==
    \A r \in Requests :
        /\ OnBackend(r) => chosen[r] \in Backends \ tried[r] /\ n[r] <= Cardinality(Backends)
        /\ avail[r] # {} => pc[r] = "filter" /\ avail[r] \cap tried[r] = {}
        /\ Trying(r) => n[r] = Cardinality(tried[r]) + 1
        /\ ~Trying(r) /\ pc[r] # "stopped" => n[r] = Cardinality(tried[r])
        /\ pc[r] = "idle" => n[r] = 0
        /\ cap[r] > 0 => n[r] <= cap[r] /\ (GoesAgain(r) => n[r] < cap[r])

(* A turn after the first is for a request that may be sent again, and     *)
(* every one of them was paid for from the budget, once.                   *)
RetriesEarned ==
    \A r \in Requests :
        /\ GoesAgain(r) \/ n[r] > 1 => replayable[r]
        /\ Trying(r) \/ pc[r] \in {"decide", "budget"} => n[r] = paid[r] + 1
        /\ pc[r] \in {"idle", "backoff", "again"} => n[r] = paid[r]
=============================================================================
