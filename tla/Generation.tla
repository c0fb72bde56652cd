----------------------------- MODULE Generation -----------------------------
(***************************************************************************)
(* The handler generations of internal/server/server.go and the background *)
(* lease group of internal/background/group.go.  A reload stores a new     *)
(* generation and retires the one it replaces: the resources of the old    *)
(* one (backend connections, plugin runtimes, directory handles) are       *)
(* closed, and its secrets leave the redaction set, once the requests and  *)
(* the background operations that hold it are gone, or when the grace      *)
(* period ends.  Nothing but the atomics `inflight' and `retiring' orders  *)
(* a request that enters against the reload that retires, so the model     *)
(* takes one step per atomic operation.                                    *)
(*                                                                         *)
(* Two tasks exist for each slot in Slots: a request, and the background   *)
(* operation a request of that slot may have left behind.                  *)
(***************************************************************************)
EXTENDS Integers, FiniteSets

CONSTANTS Slots,      \* request slots; each also carries one operation
          LastGen     \* bound: generations published by one process

ASSUME SlotsAssumption == IsFiniteSet(Slots)
ASSUME LastGenAssumption == LastGen \in Nat \ {0}

VARIABLES
    live,        \* Server.handlers: the published generation
    inflight,    \* handlerGen.inflight
    retiring,    \* handlerGen.retiring
    drained,     \* handlerGen.drained is closed
    resources,   \* "open", or how doRetire closed them
    secrets,     \* where the redaction state of a generation is
    waiters,     \* goroutines of retireGen still waiting, per generation
    canceled,    \* Group.canceled
    pc, at,      \* a request: where it is, and the generation it loaded
    opc, opAt,   \* a background operation, likewise
    reload,      \* where the reload in progress is
    phase        \* the process: from "up" to "stopped"

requestVars == <<pc, at>>
operationVars == <<opc, opAt>>
retireVars == <<retiring, drained, resources, secrets, waiters, canceled>>
vars == <<live, inflight, retireVars, requestVars, operationVars, reload, phase>>

Gens == 1..LastGen

(* Steps in which a task is counted in inflight.                           *)
RequestCounted == {"counted", "using", "leaving", "backingOut"}
OperationCounted == {"admitting", "refused", "running", "leaving"}

(* Steps in which an operation holds Group.mu inside Acquire.              *)
InAcquire == {"admitting", "refused", "refusedCheck"}

(* Steps in which an operation is counted in Group.wg.                     *)
InWaitGroup == {"running", "leaving", "checking"}

Holders(g) ==
    {<<"request", s>> : s \in {t \in Slots : at[t] = g /\ pc[t] \in RequestCounted}}
    \cup {<<"operation", s>> : s \in {t \in Slots : opAt[t] = g /\ opc[t] \in OperationCounted}}

(* Tasks that execute handler code of g: the ones resources are kept for.  *)
Users(g) ==
    {<<"request", s>> : s \in {t \in Slots : at[t] = g /\ pc[t] = "using"}}
    \cup {<<"operation", s>> : s \in {t \in Slots : opAt[t] = g /\ opc[t] = "running"}}

Checkers(g) ==
    {s \in Slots : at[s] = g /\ pc[s] \in {"checking", "backOutCheck"}}
    \cup {s \in Slots : opAt[s] = g /\ opc[s] \in {"checking", "refusedCheck"}}

LockFree(g) == \A s \in Slots : ~(opAt[s] = g /\ opc[s] \in InAcquire)

Init ==
    /\ live = 1
    /\ inflight = [g \in Gens |-> 0]
    /\ retiring = [g \in Gens |-> FALSE]
    /\ drained = [g \in Gens |-> FALSE]
    /\ resources = [g \in Gens |-> "open"]
    /\ secrets = [g \in Gens |-> IF g = 1 THEN "active" ELSE "absent"]
    /\ waiters = [g \in Gens |-> {}]
    /\ canceled = [g \in Gens |-> FALSE]
    /\ pc = [s \in Slots |-> "idle"]
    /\ at = [s \in Slots |-> 1]
    /\ opc = [s \in Slots |-> "none"]
    /\ opAt = [s \in Slots |-> 1]
    /\ reload = "idle"
    /\ phase = "up"

-----------------------------------------------------------------------------
(* handlerGen.release: the decrement, then the look at retiring.           *)

(* Mutant: a release that does not count. *)
DecrementForgotten(g) == UNCHANGED inflight

Decremented(g) == inflight' = [inflight EXCEPT ![g] = @ - 1]

(* Mutant: a last release that does not signal. *)
SignalForgotten(g) == UNCHANGED drained

Signal(g) == drained' = [drained EXCEPT ![g] = @ \/ retiring[g]]

-----------------------------------------------------------------------------
(* Requests: acquireGen, the handler, and release.                         *)

Load(s) ==
    /\ pc[s] = "retrying" \/ (pc[s] = "idle" /\ phase \in {"up", "stopping"})
    /\ pc' = [pc EXCEPT ![s] = "loaded"]
    /\ at' = [at EXCEPT ![s] = live]
    /\ UNCHANGED <<live, inflight, retireVars, operationVars, reload, phase>>

Count(s) ==
    /\ pc[s] = "loaded"
    /\ inflight' = [inflight EXCEPT ![at[s]] = @ + 1]
    /\ pc' = [pc EXCEPT ![s] = "counted"]
    /\ UNCHANGED <<live, retireVars, at, operationVars, reload, phase>>

(* Mutant: no second look at retiring. *)
EnterAnyway(s) ==
    /\ pc[s] = "counted"
    /\ pc' = [pc EXCEPT ![s] = "using"]
    /\ UNCHANGED <<live, inflight, retireVars, at, operationVars, reload, phase>>

(* A retiring generation is released and the loop loads again.             *)
EnterOrBackOut(s) ==
    /\ pc[s] = "counted"
    /\ pc' = [pc EXCEPT ![s] = IF retiring[at[s]] THEN "backingOut" ELSE "using"]
    /\ UNCHANGED <<live, inflight, retireVars, at, operationVars, reload, phase>>

(* The handler returns; it does not while it is inside Group.Acquire.      *)
Finish(s) ==
    /\ pc[s] = "using"
    /\ opc[s] \notin InAcquire
    /\ pc' = [pc EXCEPT ![s] = "leaving"]
    /\ UNCHANGED <<live, inflight, retireVars, at, operationVars, reload, phase>>

(* A release inside acquireGen is followed by another turn of its loop.    *)
AfterRelease(s) == IF pc[s] \in {"leaving", "checking"} THEN "idle" ELSE "retrying"

LeaveRequest(s) ==
    /\ pc[s] \in {"leaving", "backingOut"}
    /\ Decremented(at[s])
    /\ pc' = [pc EXCEPT ![s] = CASE inflight[at[s]] # 1 -> AfterRelease(s)
                                [] pc[s] = "leaving"    -> "checking"
                                [] OTHER                -> "backOutCheck"]
    /\ UNCHANGED <<live, retireVars, at, operationVars, reload, phase>>

SignalRequest(s) ==
    /\ pc[s] \in {"checking", "backOutCheck"}
    /\ Signal(at[s])
    /\ pc' = [pc EXCEPT ![s] = AfterRelease(s)]
    /\ UNCHANGED <<live, inflight, retiring, resources, secrets, waiters, canceled,
                   at, operationVars, reload, phase>>

-----------------------------------------------------------------------------
(* Background operations: Group.Acquire with admitBackground as its Admit, *)
(* and the release function with handlerGen.release as its Done.           *)

(* Mutant: no look at canceled and the context. *)
AlwaysMayLease(g) == TRUE

MayLease(g) == ~canceled[g] /\ phase = "up"

Lease(s) ==
    /\ pc[s] = "using"
    /\ opc[s] = "none"
    /\ LockFree(at[s])
    /\ MayLease(at[s])
    /\ inflight' = [inflight EXCEPT ![at[s]] = @ + 1]
    /\ opc' = [opc EXCEPT ![s] = "admitting"]
    /\ opAt' = [opAt EXCEPT ![s] = at[s]]
    /\ UNCHANGED <<live, retireVars, requestVars, reload, phase>>

AdmitBackground(s) ==
    /\ opc[s] = "admitting"
    /\ opc' = [opc EXCEPT ![s] = IF retiring[opAt[s]] THEN "refused" ELSE "running"]
    /\ UNCHANGED <<live, inflight, retireVars, requestVars, opAt, reload, phase>>

Complete(s) ==
    /\ opc[s] = "running"
    /\ opc' = [opc EXCEPT ![s] = "leaving"]
    /\ UNCHANGED <<live, inflight, retireVars, requestVars, opAt, reload, phase>>

LeaveOperation(s) ==
    /\ opc[s] \in {"refused", "leaving"}
    /\ Decremented(opAt[s])
    /\ opc' = [opc EXCEPT ![s] =
                 CASE inflight[opAt[s]] # 1 -> "none"
                   [] opc[s] = "refused"    -> "refusedCheck"
                   [] OTHER                 -> "checking"]
    /\ UNCHANGED <<live, retireVars, requestVars, opAt, reload, phase>>

SignalOperation(s) ==
    /\ opc[s] \in {"refusedCheck", "checking"}
    /\ Signal(opAt[s])
    /\ opc' = [opc EXCEPT ![s] = "none"]
    /\ UNCHANGED <<live, inflight, retiring, resources, secrets, waiters, canceled,
                   requestVars, opAt, reload, phase>>

-----------------------------------------------------------------------------
(* A reload: Publish registers the secrets of the new generation, stores   *)
(* it, and retires the one it replaced.                                    *)

RegisterRedaction ==
    /\ reload = "idle"
    /\ phase = "up"
    /\ live < LastGen
    /\ secrets' = [secrets EXCEPT ![live + 1] = "active"]
    /\ reload' = "registered"
    /\ UNCHANGED <<live, inflight, retiring, drained, resources, waiters, canceled,
                   requestVars, operationVars, phase>>

StoreHandlers ==
    /\ reload = "registered"
    /\ live' = live + 1
    /\ reload' = "stored"
    /\ UNCHANGED <<inflight, retireVars, requestVars, operationVars, phase>>

StoreRetiring ==
    /\ reload = "stored"
    /\ retiring' = [retiring EXCEPT ![live - 1] = TRUE]
    /\ reload' = "retiring"
    /\ UNCHANGED <<live, inflight, drained, resources, secrets, waiters, canceled,
                   requestVars, operationVars, phase>>

(* doRetire, behind retireOnce: cancel the group (it needs Group.mu), then *)
(* close the resources.                                                    *)
DoRetire(g, mode) ==
    /\ LockFree(g)
    /\ canceled' = [canceled EXCEPT ![g] = TRUE]
    /\ resources' = [resources EXCEPT ![g] = mode]

IsIdle(g) == inflight[g] = 0

RetireNow ==
    LET g == live - 1 IN
    /\ reload = "retiring"
    /\ IsIdle(g)
    /\ DoRetire(g, "graceful")
    /\ secrets' = [secrets EXCEPT ![g] = "dropped"]
    /\ reload' = "idle"
    /\ UNCHANGED <<live, inflight, retiring, drained, waiters, requestVars, operationVars, phase>>

RetireLater ==
    LET g == live - 1 IN
    /\ reload = "retiring"
    /\ ~IsIdle(g)
    /\ waiters' = [waiters EXCEPT ![g] = {"transport", "redaction"}]
    /\ reload' = "idle"
    /\ UNCHANGED <<live, inflight, retiring, drained, resources, secrets, canceled,
                   requestVars, operationVars, phase>>

(* The two goroutines of retireGen, each with a timer of its own.          *)
TransportEnds(g, mode) ==
    /\ "transport" \in waiters[g]
    /\ DoRetire(g, mode)
    /\ waiters' = [waiters EXCEPT ![g] = @ \ {"transport"}]
    /\ UNCHANGED <<live, inflight, retiring, drained, secrets,
                   requestVars, operationVars, reload, phase>>

TransportDrains(g) == drained[g] /\ TransportEnds(g, "graceful")
TransportTimesOut(g) == TransportEnds(g, "forced")

RedactionEnds(g, where) ==
    /\ "redaction" \in waiters[g]
    /\ secrets' = [secrets EXCEPT ![g] = where]
    /\ waiters' = [waiters EXCEPT ![g] = @ \ {"redaction"}]
    /\ UNCHANGED <<live, inflight, retiring, drained, resources, canceled,
                   requestVars, operationVars, reload, phase>>

RedactionDrains(g) == drained[g] /\ RedactionEnds(g, "dropped")
(* Mutant: secrets unmasked by the timer. *)
RedactionDroppedOnTimeout(g) == RedactionEnds(g, "dropped")

RedactionTimesOut(g) == RedactionEnds(g, "tombstone")

-----------------------------------------------------------------------------
(* Shutdown: the process context ends, drain() shuts the listeners, then   *)
(* cancels and awaits the live generation's operations, then waits for the *)
(* goroutines above.                                                       *)

Stop ==
    /\ phase = "up"
    /\ reload = "idle"
    /\ phase' = "stopping"
    /\ UNCHANGED <<live, inflight, retireVars, requestVars, operationVars, reload>>

ShutdownAll ==
    /\ phase = "stopping"
    /\ phase' = "listenersDown"
    /\ UNCHANGED <<live, inflight, retireVars, requestVars, operationVars, reload>>

CancelLive ==
    /\ phase = "listenersDown"
    /\ LockFree(live)
    /\ canceled' = [canceled EXCEPT ![live] = TRUE]
    /\ phase' = "awaiting"
    /\ UNCHANGED <<live, inflight, retiring, drained, resources, secrets, waiters,
                   requestVars, operationVars, reload>>

Leased(g) == {s \in Slots : opAt[s] = g /\ opc[s] \in InWaitGroup}

WaitDrained ==
    /\ phase = "awaiting"
    /\ Leased(live) = {}
    /\ phase' = "quiet"
    /\ UNCHANGED <<live, inflight, retireVars, requestVars, operationVars, reload>>

(* Mutant: a wait without its deadline. *)
WaitForever == FALSE /\ UNCHANGED vars

WaitTimesOut ==
    /\ phase = "awaiting"
    /\ phase' = "overdue"
    /\ UNCHANGED <<live, inflight, retireVars, requestVars, operationVars, reload>>

Stopped ==
    /\ phase \in {"quiet", "overdue"}
    /\ \A g \in Gens : waiters[g] = {}
    /\ phase' = "stopped"
    /\ UNCHANGED <<live, inflight, retireVars, requestVars, operationVars, reload>>

-----------------------------------------------------------------------------
RequestStep(s) ==
    \/ Load(s) \/ Count(s) \/ EnterOrBackOut(s) \/ Finish(s)
    \/ LeaveRequest(s) \/ SignalRequest(s)

OperationStep(s) ==
    \/ Lease(s) \/ AdmitBackground(s) \/ Complete(s)
    \/ LeaveOperation(s) \/ SignalOperation(s)

ReloadStep ==
    \/ RegisterRedaction \/ StoreHandlers \/ StoreRetiring
    \/ RetireNow \/ RetireLater

WaiterStep(g) ==
    \/ TransportDrains(g) \/ TransportTimesOut(g)
    \/ RedactionDrains(g) \/ RedactionTimesOut(g)

ShutdownStep ==
    \/ Stop \/ ShutdownAll \/ CancelLive \/ WaitDrained \/ WaitTimesOut \/ Stopped

Next ==
    \/ \E s \in Slots : RequestStep(s) \/ OperationStep(s)
    \/ \E g \in Gens : WaiterStep(g)
    \/ ReloadStep
    \/ ShutdownStep

Spec == Init /\ [][Next]_vars

-----------------------------------------------------------------------------
(* The fairness of the Go scheduler and of the timers.  Code between two   *)
(* atomics runs on, the mutex is granted, timers fire; nothing is assumed  *)
(* of handlers and operations, which may never return.                     *)
Fairness ==
    /\ \A s \in Slots : WF_vars(AdmitBackground(s)) /\ WF_vars(LeaveOperation(s))
                        /\ WF_vars(SignalOperation(s))
    /\ \A g \in Gens : WF_vars(TransportTimesOut(g)) /\ WF_vars(RedactionTimesOut(g))
    /\ WF_vars(ShutdownAll) /\ WF_vars(CancelLive)
    /\ WF_vars(WaitTimesOut) /\ WF_vars(Stopped)

FairSpec == Spec /\ Fairness

-----------------------------------------------------------------------------
(* Types of the variables.                                                 *)
TypeOK ==
    /\ live \in Gens
    /\ inflight \in [Gens -> Nat]
    /\ retiring \in [Gens -> BOOLEAN]
    /\ drained \in [Gens -> BOOLEAN]
    /\ resources \in [Gens -> {"open", "graceful", "forced"}]
    /\ secrets \in [Gens -> {"absent", "active", "tombstone", "dropped"}]
    /\ waiters \in [Gens -> SUBSET {"transport", "redaction"}]
    /\ canceled \in [Gens -> BOOLEAN]
    /\ pc \in [Slots -> {"idle", "loaded", "counted", "using", "leaving", "checking",
                         "backingOut", "backOutCheck", "retrying"}]
    /\ at \in [Slots -> Gens]
    /\ opc \in [Slots -> {"none", "admitting", "refused", "refusedCheck",
                          "running", "leaving", "checking"}]
    /\ opAt \in [Slots -> Gens]
    /\ reload \in {"idle", "registered", "stored", "retiring"}
    /\ phase \in {"up", "stopping", "listenersDown", "awaiting",
                  "quiet", "overdue", "stopped"}

(* inflight is exactly the number of requests and operations between their *)
(* increment and their decrement, over every interleaving of acquireGen,   *)
(* admitBackground and release with a reload.                              *)
InflightCounts == \A g \in Gens : inflight[g] = Cardinality(Holders(g))

Masked(g) == secrets[g] \in {"active", "tombstone"}

(* No request and no operation enters a generation whose resources are     *)
(* closed or whose secrets are no longer redacted: an increment the        *)
(* retiring side missed is followed by a look that sees `retiring'         *)
(* (acquireGen, server.go:1033).                                           *)
EntersOpen ==
    [][\A g \in Gens : Users(g)' \ Users(g) # {} => resources[g] = "open" /\ Masked(g)]_vars

(* While a task executes in a generation, its resources are closed only on *)
(* the drain signal or at the end of the grace period, and its secrets are *)
(* dropped only on the drain signal: the shortcut of retireGen never takes *)
(* either from a task, and the timers never unmask a secret.               *)
TakenOnlyOnSignal ==
    \A g \in Gens : Users(g) # {} =>
        /\ resources[g] = "graceful" => drained[g]
        /\ ~Masked(g) => drained[g]

(* The drain signal is not lost: a generation with waiters that nobody     *)
(* holds is signalled, or the task that will signal it is about to.        *)
DrainNotLost ==
    \A g \in Gens : waiters[g] # {} /\ inflight[g] = 0 => drained[g] \/ Checkers(g) # {}

(* When Group.Wait reported a drained group to shutdown, no operation of   *)
(* the live generation runs and none starts later.                         *)
QuietIsQuiet == phase = "quiet" => Leased(live) = {}

(* Shutdown is never wedged: it ends though requests and operations never  *)
(* return.                                                                 *)
ShutdownCompletes == phase = "stopping" ~> phase = "stopped"

(* Resources closed as drained ("graceful") are not in use: "never closed  *)
(* while an old request is still executing" (server.go:417).               *)
GracefulMeansDrained == \A g \in Gens : resources[g] = "graceful" => Users(g) = {}
=============================================================================
