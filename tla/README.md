# A TLA+ verification project for Jul

Jul is a reverse proxy and application server written in Go. This directory
models the parts of it in which goroutines meet: who may send a request to a
backend, who may wait, who pays for a retry, when a configuration generation
that has been replaced may be torn down, which pools a reload leaves serving,
what the response cache may answer after a purge or a crash, and what a managed
write of the configuration may overwrite. TLC checks the models on small
instances, TLAPS proves the safety properties for every instance.

## 1. Inventory

The program's own logic is under `src/internal` (about 130 000 lines of Go
without tests). The parts, the state they keep and how they meet:

| Part | State | Operations | Meets |
| --- | --- | --- | --- |
| Circuit breaker, `upstream/circuit.go` | phase, epoch, failures, probe slots, lock-free gate | `eligible`, `admit`, `success`, `failure`, `releaseProbe`, `forceClose`, `setLimits` | selection looks and claims; adapters report; health checker closes; reload sets limits |
| Admission owner, `upstream/admission.go` | `active`, FIFO of waiters, policy | `Acquire`, `park`, `abandon`, `release`, `SetPolicy`, `Retire` | every proxied request, stream and connection; reload; pool close |
| Retry budget, `upstream/retry.go` | percentage, live window, two counters per window | `Primary`, `Allow`, `SetPercent`, `window` | the retry driver of every request; the clock; reload |
| Retry driver and selection, `upstream/retry.go`, `snapshot.go`, `backend.go` | `Backend.inflight`; per request: tried set, attempt number, last error | `Do`, `selectBackend`, `Retryable`, `hasUntried` | circuit, budget, adapters |
| HTTP adapter, `handler/proxy.go`, `upstream/body.go` | the retained slot and the verdict owed | the attempt closure, the body wrapper | driver, circuit |
| Handler generations, `server/server.go` | per generation: `inflight`, `retiring`, `drained`, resources, redaction state | `acquireGen`, `release`, `retireGen`, `doRetire`, `drain` | requests, background work, reload, shutdown |
| Background leases, `background/group.go` | `canceled`, `active`, wait group | `Acquire`, release, `Cancel`, `Wait` | generations, cache revalidation |
| Active health checker, `upstream/health.go` | verdict and streak per backend | `probeAll`, `probeOne` | circuit (`forceClose`), selection |
| Pools, registry, discovery, `upstream/pool.go`, `registry.go`, `discovery.go` | live and staged entries, backend sets, discovery epochs, refreshers | `Begin`, `For`, `Commit`, `Activate`, `Abort`, `CloseAll`, `UpdateTargets`, `StopDiscovery` | reload, providers, egress policy, health |
| Reload transaction, `server/reload_plan.go` | a plan with its phases | `Resolve` .. `PostCommit`, `Abort` | everything above, listeners, admin |
| Sharing retirement, `server/sharing_retirement.go`, `respwriter/exchange.go` | entries shared by generations | publish, retire, drain | reload |
| Cache fill and validation, `cache/fill.go`, `validate.go`, `revalidate.go` | the calls in flight per key and their waiters | `fillOrWait`, `leadFill`, `awaitFill`, `leadValidation`, `awaitValidation`, background refresh | requests, origin, store, purge |
| Cache store and purge, `cache/cache.go`, `memstore.go`, `diskstore.go`, `scoped_purge.go` | entries in two tiers, a generation record per key, fences, intents and tombstones on disk | lookup, publish, delete, evict, `InvalidateScope`, rehydrate | fills, admin purge, disk failures, crash |
| Config apply and managed baseline, `app/config_apply*.go`, `managed_baseline.go`, `adopt.go` | the file, a marker and a snapshot beside it, the drift status, the gate | apply, finalise, restore, adopt, assess drift, reconcile | admin API, reload, file watcher, external writers, crash |
| Planned restart, `app/planned_restart.go`, `config_apply_stage.go` | a marker and a backup beside the file | stage, promote, discard, refresh, reconcile | config apply, restart |
| Audit sink, listener cap, stream proxy | queue and file; accept cap; L4 listeners | enqueue, rotate, drain; resize; reload | admin API, reload |
| The rest | configuration data, HTTP handlers, admin API, WAF, metrics | mostly per request or pure | |

What is hard here is concurrency without one big lock. The hot paths order
themselves with single atomics and a look at a second one, limits change under
running requests, results come back to a circuit that has since moved through
several states, waits end by grant, timeout, cancellation and teardown at the
same moment, and a reload tears down what requests still use. `PROJECT.json`
lists these hazards one by one, at their lines, with the properties about them.

What makes each part correct: a circuit trips and recovers only on evidence of
its live generation; an admission owner counts every admitted request once and
its queue holds exactly the waiting ones; a budget never grants beyond its
allowance; a request returns every slot and every verdict; nobody enters a torn
down generation, and a generation is torn down under a request only when its
grace period ends; a reload leaves exactly the committed pools serving and no
answer for an earlier configuration reaches them; every request that waits for
another's origin request is answered; what a purge covers stays purged, across
late writes and restarts, and nothing newer is lost; a managed write never
discards an edit it has not seen, and a crash in the middle of one is
reconciled.

## 2. Modules

Every step that is atomic in the code (a critical section, one atomic
operation) is one action. Where code between two atomics matters, the process
has a program counter.

| Module | Models | How state and actions correspond |
| --- | --- | --- |
| `Circuit` | `circuit.go` for one backend, with the look-then-claim of `selectBackend` | Variables carry the names of the struct's fields. `Look` is `eligible()`, `Admit` is `admit()` in its three phases, `Success`/`Failure`/`ReleaseProbe` are the results with their staleness test, `SetLimits` and `ForceClose` are reload and health checker, `Tick` the clock. `evidence` is a history variable. |
| `Admission` | `admission.go` | `LoadLimit`/`FastPath`/`AtLimit` are the lock-free loop, `LoadPolicy`/`Park` the slow path, `Woken`/`GiveUp`/`Abandon` the ends of a wait, `Release`/`Decrement` the two halves of a release (the decrement is after the unlock), `SetPolicy`/`WakeOne`/`WakeDone` a reload, `Retire` the pool's close. `unearned` counts releases without a charge. |
| `Slots` | what `Admission` promises | A set of holders; entering needs room under a limit some policy sets (`Limits`). |
| `RetryBudget` | `Budget` of `retry.go` | A window is named by its epoch. `Begin`, `ReadClock`, `LoadWindow`, `CopyPrimaries`, `CopyRetries`, `Swap`/`LoseSwap` are `window()`; then `RecordPrimary`, or `ReadRetries`, `Compare`, `Claim`/`LoseClaim`. |
| `Retry` | `Pool.Do`, `selectBackend`, the HTTP adapter and its body wrapper | `Pick`/`Filter`/`Claim`/`LoseClaim`/`PickNothing` are one selection, the adapter's paths are `RewindFails`, `PrepareFails`, `RoundTripFails`, `Responds`, `BodyEnds`; the driver's are `ReleaseFailed`, `Decide`, `BudgetAllows`/`BudgetDenies`, `BackoffEnds`/`BackoffOverruns`. `owed` counts circuit verdicts still to be given. Circuit and health are `available`, which flips at any time; the budget says yes or no. No adapter of the repository sets `ResponseStarted`, so that case of `Retryable` does not appear. |
| `Generation` | `handlerGen` and its life in `server.go`, `Group` of `group.go` | One step per atomic of `acquireGen`, `release`, `admitBackground` and `retireGen`; the two goroutines of `retireGen` are the members of `waiters`; `Group.mu` is held by an operation inside `Acquire` (`LockFree`). Shutdown is `phase`. |
| `Registry` | `registry.go` with the parts of `Pool` it drives and the refreshers of `discovery.go`, as the handler factory calls them | `Begin`, `ForReused`/`ForFresh`, `Abort` are one build; `Commit` is `StoreLimits`, `RetuneBackends`, `SeedBackends` per kept pool and then `CommitSwap`, because refreshers run between these; `Activate` starts a refresher, which `Resolve`s without a lock and holds `discoveryMu` from `Apply` (epoch check, thresholds loaded) to `Store`. `Exit` is the end of a fenced refresher. `seen`, `serving` and `open` are history. |
| `CacheFill` | fill lock, shared validation and background refresh of one URL | `fills`/`calls` are the tables, `fill`/`call` the call each request leads. `Lookup`, `BeginFill`, `Recheck`, `FillStores`/`FillFails`/`Abandon`, `EndFill`, `Finish`, `StreamEnds` are a leader; `Wake`, `GiveUp`, `TimeOut`, `Woken` a waiter; `BeginValidate` .. `EndRevalidate`, `Joined`, `Leave` a validation; `Panic` unwinds. The store is what a lookup finds. |
| `CacheStore` | the two tiers of one key, purge and recovery | One action per critical section of `genMu` or of the disk's mutex: `Publish`, `Commit`/`Refuse`, `Restore`, `Undo`, `Check`, `Unstore`, `Drop` a publication with its write-through; `Lookup` (memory), `Screen` (the fences), `Probe`, `Read`, `Promote` a lookup; `Purge`/`PurgeAll`/`NotAccepted`, `Prepare`, `Wipe`, `Batch`, `Unlink`, `Close`, `Cancel`, `Retry` a purge; `Crowd` is a purge of other keys that pushes a fence out; `Crash` loses memory and rehydrates, and `Unreconciled` keeps the intents that could not be carried out. History: the purges and deletes so far with their cutoffs, which purges have `ended`, and the two events that `PurgeHolds` excepts, `rolled` and `passed`. |
| `Apply` | managed writes of the configuration file | `op` is the holder of `applyMu`, `fin` the finalizer of the transaction in flight, `drain` the deferred assessment. Hot apply is `Begin`, `Refresh`, `ReadFile`, `Assess`, `Admit`, `Verify`, `BeginWrite`, `Write`, `Submit`; its finalizer `Reload`, then `Restore`/`Rewind` or `Snapshot`/`Mark` with `Retry`, `Reread`, `Settle`, `ClearGate`. Staging adds `Backup`, `Prepare`, `Promote`, `Confirm`; discard and adoption have their own steps. `Edit` is the other writer of the file; `Crash`, `Recover` a restart. |
| `AttemptProofs` (of `Circuit` and `Retry`), `AdmissionProofs`, `RetryBudgetProofs`, `GenerationProofs`, `RegistryProofs`, `CacheFillProofs`, `CacheStoreProofs`, `ApplyProofs` | theorems | see section 5 |
| `MC*` | TLC instances | bounds, policies, symmetry, fair specifications |

`Circuit`, `RetryBudget` and `Retry` meet at the interfaces `Retry` abstracts:
`available` stands for `Circuit`'s `eligible` and `admit`, an admission there is
an `owed` verdict here, and the budget's answer is free. `CacheFill` and
`CacheStore` divide the cache in the same way: origin work that a purge overtook
is *fenced* in the first, and the second says why a fenced publication is
refused. In both, the program counters carry the code's order of steps, and a
write or a reload that fails is an alternative of its action.

## 3. Runs

Passing runs:

* `circuit` – two requests, two thresholds, probe allowances 0 (unlimited), 1
  and 2, four generations, four ticks. Stale results never count, admissions of
  the live generation fit its phase, trips and recoveries need evidence, the
  cooldown is kept, the lock-free gate is current, and HALF_OPEN ends if every
  admitted attempt reports.
* `admission` – four requests, two policies to reload between and the close of
  the pool: exact accounting, the queue's bound, and the refinement of `Slots`.
* `retry_budget` – two callers, three epochs that the clock shows in any order (so
  a skipped epoch, two rotations and a step back all happen), percentages 0 and
  100, the code's three free retries. Windows stay in order, every grant is within
  the allowance of its window, and neither a reload nor the clock gives spent
  retries back.
* `retry` – two requests, two backends, per-backend limit 1, attempt caps 0, 1
  and 2, all mixes of replayability, failures and availability.
* `generation` – two request slots, each with a background operation, two
  generations and shutdown, which completes though handlers never return.
* `registry` – one static upstream and one behind a provider that uses the
  egress policy, with servers to start from or without; three builds out of three configurations (retuned and moved to
  another egress policy, rebuilt, removed), each committed or aborted, then
  shutdown. A fenced refresher writes nothing, what serves is what was
  committed, every served pool has one refresher of the right egress
  generation, every discoverer has an owner, a failing provider empties nothing
  (when it fails at the first resolve the configured servers stay), and fenced
  refreshers end.
* `cache_fill` – two requests for one variant and one with credentials for
  another, an origin that varies or not, and one expiry, eviction, delete or
  purge. Leaders keep their slots; whoever is in a table is at work on the step that
  takes it out again, but for a leader that panicked at its second lookup (below);
  what a fill reports as stored is found; a burst costs one origin request, plus
  one for every waiter whose lock timeout fired; and all are answered without any
  lock timeout.
* `cache_store` – three calls of any kind on one key, room for one fence (so the
  second purge overflows the table, and a purge of other keys pushes the fence
  out), disk writes and unlinks that fail, an intent that cannot be written and a
  manifest that cannot be truncated after it, a cutoff the ledger refuses, one
  crash and a reconciliation that fails after it. Purges hold for lookups that
  begin after the purge has ended or consult the fences while it is in force, and
  for answers from disk once the purge is accepted; deletes hold, the catalog knows what is stored and counts
  its users, the tiers agree, a purge spares what is newer.
* `apply` – two requests of any kind, one live candidate and two that need a
  restart, two external edits, two failing writes, a failing reload, one crash.
  Unseen edits survive, drift is reported, an admitted request finds a settled
  baseline, the backup is what a discard must restore, crashes are reconciled,
  the gate reopens.

Runs that show where the code departs from what its documentation says (the
quotations are in `PROJECT.json`, `findings`):

* `generation_drain` – a release preempted between its two atomics signals a
  drain while a later request executes; its resources are closed under it. The
  schedule: A decrements to zero; B loads, counts, sees `retiring` unset and
  enters; the reload sets `retiring` and, seeing B, starts its waiters; A loads
  `retiring` and closes `drained`.
* `cache_store_rollback` – a disk-only publication that fails takes the key's
  generation back. The schedule: a lookup reads the old file; a publication
  raises the generation and starts to write; a purge is accepted, leaves the
  raised generation alone and unlinks the file; the write fails and the
  generation goes back; the lookup finds the generation it started from and
  promotes the purged entry. `PurgeHolds` of `cache_store` says that nothing
  else breaks a purge, but for one more case which only four calls reach and which
  the proof of `PurgeHolds` brought up (below).
* `apply_drift` – the finalizer of an apply reads the file; an operator edits it;
  the next request records drift; the finalizer records what it read and opens
  the gate; the request, whose author saw the edit as its base, is admitted and
  overwrites it without adoption. `KeepsEdits` of `apply` says that an edit the
  author did not see is never overwritten.

Further disagreements came up while modelling and have no run of their own. In
the upstream package:

* `eligible()` refuses a half-open circuit without a free probe slot and does not
  look at `halfOpenUntil`; only `admit()`, behind that filter, ends an expired
  HALF_OPEN. A probe that never reports keeps the backend out for good, although
  `circuit.go:209` says HALF_OPEN is bounded so that an outstanding probe cannot pin
  it, and ADR 0017, line 303, that it ends "regardless of probes still in flight".
  That promise is the formula `HalfOpenExpires`; TLC refutes it under `FairSpec` of
  `MCCircuit` with one request that trips the circuit, becomes its only probe and
  never reports. What does hold is `HalfOpenEnds`: if every admitted attempt
  reports in the end, HALF_OPEN ends.
* A late probe of an older half-open period frees a slot of the live one
  (`circuit.go:250`), so one probe too many may be out (ADR 0017, line 311).
  `SlotsAreHeld` is the half that holds: never more counted than out.
* `release` looks at the queue under the mutex and decrements after it
  (`admission.go:272`): a request that parks in between is overtaken by the next
  arrival, against `admission.go:46` ("strict FIFO, prevents barging").
* `abandon` takes a waiter that `Retire` has just marked for a granted one
  (`admission.go:232`) and releases a slot never charged; ADR 0017, line 628,
  excludes that. `Accounting` counts these releases (`unearned`) and shows that
  they occur only on a closed pool.
* `UpdateTargets` reads the circuit parameters before it stores the new set
  (`pool.go:380`); when `Commit` retunes in between, a new backend keeps the old
  thresholds, against `pool.go:204`.
* `Acquire` reads the limit before its compare-and-swap loop, so a request may be
  admitted above a limit a reload has just lowered; `admission.go:59` calls the
  excess over the limit non-increasing.
* `Allow` may claim a retry in a window that has been replaced after its totals
  were copied. Each window keeps its allowance (`GrantsWithinAllowance`), the
  trailing window of two epochs may exceed it by what was claimed that way;
  `retry.go:266` calls the budget exact under concurrency.
* `selectBackend` compares `inflight` with the per-backend limit in the filter and
  increments it after the claim: two selections may take the last place together
  (ADR 0017, line 617, bounds the count by the limit).
* When a reload adds servers to a discovered upstream whose provider has not
  answered yet, they are not used: the pool is kept and its pending set is the
  current one (`registry.go:273`), though `schema.go:806` calls them the seed
  "until the first successful resolution". On a new pool they are kept, where the
  log says "starting with empty pool" (`registry.go:371`).
* When `GetBody` fails on a retry, `Do` overwrites `lastErr` with the rewind error;
  `proxy.go:351` says the client gets the upstream failure that led to the retry.

In the cache:

* A panic in a leader's second lookup (`fill.go:143`) comes before the deferred
  release and leaves the call in the table until a purge detaches it; its waiters
  wait for their timeouts, though `fill.go:33` counts a panic among the ends they
  wake up on, `docs/cache.md:725` says they are released immediately, and
  `fill_test.go:886` expects an empty table once the handlers have returned.
  `CallsOwned` (its part `NoneStranded`) and `AllAnswered` name this one exception.
* A lookup reads memory (`cache.go:523`) and then asks which purges are incomplete
  (`cache.go:524`). A purge that was accepted before the lookup and ends between
  the two has reset `incompleteFenceGen` (`scoped_purge.go:342`), so the entry it
  has just removed is returned once more. ADR 0027, line 127, describes this gate as
  what keeps lookups from covered entries until the purge has finished.
  `PurgeHolds` is stated accordingly: a purge that had ended when memory was read,
  or is in force when the fences are consulted.
* A retried purge may complete although a file it covers is still there. The purge
  is cancelled before its batch; a publication raises the key's generation and is
  still writing; the retry passes over the key, because its generation is newer
  than the fence (`scoped_purge.go:2339`, `:2379`), releases the fence and completes
  the intent; a crash before the write ends brings the old file back. ADR 0027, line
  190, says that a retry "finishes removing the remaining `<= fenceGen` entries and
  releases the fence". The history variable `passed` marks this case: it is the
  second exception of `PurgeHolds`, next to `rolled`.
* A failed commit of a purge's intent does not leave resident entries unchanged
  (`docs/cache.md:1267`): the deletion goes on (`scoped_purge.go:1958`).
* A validation that ends with a stale-if-error answer, or a background refresh,
  may serve its own client content that a purge covers (`validate.go:157`).
* `validate.go:59` says the call is dropped before its waiters are released;
  the waiters of a validation that ends well are released first.

In config apply:

* A crash between the removal of the planned-restart marker and that of the
  backup in a discard (`planned_restart.go:837`), or before its mark, comes back
  as drift or as an inconsistent marker; a failed mark of a discard is not
  retried. `CrashRecovers` excludes discards.
* A rewind that cannot be written leaves the state *failed apply*, which does not
  block the next request, although `managed_baseline.go:727` takes the state to be
  transient. The proof of `CrashRecovers` found a schedule on which that matters: a
  stage then writes the file and can neither complete nor abort; the next stage
  records as its prior content what the status says
  (`config_apply_stage.go:363`), which the file no longer holds, and a crash before
  its rename is inconsistent. `CrashRecovers` says nothing while a *failed* status is
  left over from such a rewind.
* The drain after a transaction reads and records outside both mutexes
  (`config_apply_baseline.go:96`), so it may record an outdated reading; the
  history variable `outdated` marks these cases.
* An apply of the bytes the file already holds whose reload fails is marked
  inconsistent (`config_apply_restore.go:98`).
* The window between the comparison of the file with the request's base and its
  replacement contains the synced write of the marker; an edit inside that
  window is lost. `late` marks it: `KeepsEdits` is about all other edits.

### Bounds

Two requests let a late result meet a live one; the safety properties of the
circuit are proved for any number. Four requests let two hold, one wait and one
interfere, and overflow the bounded queue. Two request slots suffice for
the races between two atomics, which involve one task on each side and the
reload. Two generations suffice for `Generation` because a reload touches only
the generation it replaces and the one it publishes. Clock and epoch bounds of
`Circuit` close on whole half-open periods (`WithinBounds`), so they never
create or hide a stuck state. Three builds of the registry are a first commit,
a change and a change back (or an abort in between); one refresh per worker
suffices because a refresh carries nothing over to the next but the backend set.
In `CacheStore` three calls are a reader, a writer and a purge, or two purges and
one of the others; other keys only move the generation counter, and a crash before
the first call, which leads to an initial state again, is not followed. In `CacheFill`
one change (an expiry, a purge) separates two rounds of leading and waiting. In
`Apply` two requests let the second meet the finalizer of the first, and two
edits let a content come and go; a second crash starts from a state of the same
kind as the first. Requests, callers, calls and backends are symmetric; symmetry
is not used where liveness is checked.

### Fairness

`MCCircuit` assumes that the clock moves and that requests keep looking and
claiming (a claim is a few instructions after the look), and nothing of admitted
attempts: that they report is the antecedent of `HalfOpenEnds`, because transports
with timeouts do and long-lived streams do not. `Registry` assumes that refreshers
run and providers answer or fail; `CacheFill` that requests and the origin proceed, but not that any lock
timeout fires; `Apply` that the holder of the mutex, the reload, the finalizer
and the watcher proceed, and nothing about requests or edits. `Generation`
assumes that goroutines that are not blocked proceed, that mutexes are granted
and that timers fire; it assumes nothing of handlers and background operations.

## 4. What the properties rest on

Each module has a type invariant. The other properties relate counters to the
tasks that own them (`Accounting`, `SlotsBalanced`, `InflightCounts`,
`SlotsAreHeld`), results to the generation that asked for them
(`FailsAreCurrentEvidence`, `RecoveryNeedsProof`), one side of a race to the
other (`EntersOpen`, `DrainNotLost`, `GrantsWithinAllowance`), tables to those
who work for them (`LeadersHoldTheirSlots`, `NoneStranded`, `DiscoverersOwned`,
`PinsCounted`), or what is served or stored to what was ordered earlier
(`FenceHolds`, `PurgeHolds`, `DeleteHolds`, `PurgeSparesNewer`, `KeepsEdits`,
`CrashRecovers`).

The runs check the structural invariants of a module together with its types,
as one conjunction of named parts:

| Invariant | Parts |
| --- | --- |
| `CircuitInv` | `TypeOK`, `GateIsCurrent`, `AdmissionsFitPhase`, `FailsAreCurrentEvidence` |
| `AdmissionInv` | `TypeOK`, `QueueIsParked`, `Accounting` |
| `WindowsInOrder` (`RetryBudget`) | `TypeOK`, `WindowsAdvance`, `StaleReadsAreSafe`, `CarriesOnlyPrevious` |
| `NothingLeaks` (`Retry`) | `RetryTypeOK`, `SlotsBalanced`, `VerdictsSettled` |
| `RefreshersOwned` (`Registry`) | `TypeOK`, `OneRefresher`, `DiscoverersOwned` |
| `CallsOwned` (`CacheFill`) | `TypeOK`, `LeadersHoldTheirSlots`, `NoneStranded` |
| `CatalogExact` (`CacheStore`) | `TypeOK`, `CatalogComplete`, `PinsCounted` |
| `BasisIsSound` (`Apply`) | `TypeOK`, `GateIsHeld`, `AdmittedOnSettledBaseline`, `BackupIsBase` |

The type invariant of `Generation` is part of the invariant proved in
`GenerationProofs`. Every property of a passing run has a mutant, a plausible
slip in one definition, under which TLC finds it violated.

## 5. Proofs

The theorems hold for every set of requests, callers, backends, upstreams or
variants (finite where something is counted), for every set of policies, limits
or configurations a reload may install and for every value of the bounds, from
the assumptions stated in the modules. Apart from finiteness these say what the
code's types say: percentages are between 0 and 100, limits and policies are
integers (negative ones included where the code accepts them), a static upstream
has servers (a discovered one may have some, as a seed), and `None` (the nil of the code) is no
value of the other sets.

`AttemptProofs`, on circuits. The inductive invariant `CircuitInv` is the type invariant
with `GateIsCurrent`, `AdmissionsFitPhase`, `FailsAreCurrentEvidence` and
`SlotsAreHeld`. None is inductive alone: that a stale result is recognised
rests on admissions never coming from the future, and that the failure count is
the run of current failures rests on the admissions fitting the phase. The
action properties `TripNeedsEvidence`, `RecoveryNeedsProof` and `CooldownHolds`
follow from it step by step.

`AdmissionProofs`. `AdmissionInv` is the type invariant with `QueueIsParked`
and `Accounting`. The count is exact because a waiter is in the FIFO exactly
while it is parked and undecided, so a grant charges a request that is not
already charged. The proof goes action by action, adding or removing one
element of the set of charged requests. `QueueBounded` is inductive with it: a
request parks only below the `max_pending` it read, and that is one of the
policies'. `AdmissionImplementsSlots` maps the charged requests to the holders of
`Slots` and takes every step to a step or a stutter: the fast path enters below
the limit it read, a handoff replaces one holder by another, and after the pool's
close nothing more is claimed.

`RetryBudgetProofs`. `WindowsInOrder` is inductive as it stands. Its part
`StaleReadsAreSafe` is what the compare-and-swap loop needs: what a caller has
copied from a window is at most what that window counts now, because counters
only grow, and a caller about to claim compared against an allowance that can only
have risen since. `BudgetGrantsWithinAllowance` is then one arithmetic step: the
allowance is monotone in the first attempts. `BudgetNoFreshBurst` adds
(`Accounted`) that the counter of a window is all that was ever granted in its
epoch: a window is installed once, because a reading of the clock older than the
live window keeps that window, and nothing is counted in a window before it is
installed.

`AttemptProofs`, on retries. The three invariants together are inductive (`RetryInv`): the slots
of a backend are the requests on it, and `InTurn` says of one request what it
owes, what it has tried, and that attempts and grants are counted in step. That
no backend is tried twice bounds the attempts by the number of backends.

`RegistryProofs`. `Owned` says who may write to a pool. A refresher whose epoch
is the pool's works for a serving pool under the egress generation the pool was
last fenced for, at most one refresher per pool is current, a lock is never held
by a fenced one, and a staged entry has a pool of its own or the live one it
reuses. `FenceHolds` and `OneRefresher` follow; `DiscoverersOwned` adds the count
of open discoverers, step by step. `Serving` adds what the pools contain after
each of the three steps of a commit, with lemmas on what `Built` and `Replaced`
return; `ServingAsConfigured` is its value between builds. `KeepsLastGood`
follows from `Owned`, since an answer that is applied is not empty, and from what
`FirstSet` gives a new pool.

`CacheFillProofs`. `Owned` says which calls a request can have at each place of
the handler, and that whoever is in a table is there once, under its own key,
with an open fill or an unfinished validation, at one of the steps that lead to its
end (`Filling`, `Validating`) unless it panicked at the second lookup; only with
that is the late second
release of an abandoned fill harmless. `Storing` says that what a fill is about
to report is in the store. For `OneOriginRequest`, `Causes` and `Shared` say why
a fill ends without an entry and what a woken waiter can rely on, and `Alone`
that whoever asked, timed-out waiters apart, has stored its answer or still leads
the fill.

`CacheStoreProofs`. Each step is first described once: what it does to the call
(`TaskStep`, `Arrives`), to the key's record, memory and disk (`CatStep`, `OrderStep`)
and to the fences (`GuardStep`, `FenceStep`). The invariants are then kept by any
step so described. `Sound` joins the types, the shape of a call at each place, the
bounds of all numbers and the catalog, and is inductive alone; it gives
`CatalogExact`. `Newer` says that a purge's cutoff separates what began before it
from what began after, hence `PurgeSparesNewer`. `Ordered` chains the publications
under way: each knows the generation before its own, one whose body is only on disk
is the only holder of it until it is written, and no file lies between such a
publication and the one it may go back to; `TiersAgree` is one of its parts. For
`DeleteHolds` the generation alone is not enough, because it may go back: `Sealed`
are the generations that no chain of failed publications leads back to, and `Cut`
the deletes before which nothing unsealed was published. For `PurgeHolds`,
`Barriers` says who owns a fence and which cutoffs, up to the last one owed, the
fences, floors and purge of everything still know of. `Purged` says that whatever is somewhere
and began before a purge has a generation within its cutoff (`Cutoffs`), that a
cutoff in force is honoured by lookups or the key is past it, a durable one is in
the manifest or both key and file are past it, and what memory holds has outlived
the purges that ended (`Honoured`), that a lookup which missed memory is not
overtaken by an old entry (`Looked`), and that what a lookup found in memory
outlived the purges that had ended by then and is within the last cutoff if that
covers it (`Found`). A fence may be released
exactly because a scoped purge that is through has put the key past its cutoff; a
failed publication that takes the generation back (`rolled`) and a retry that passes
over a file (`passed`) are the two ways to lose that, and `Purged` asks for their
absence. The restart is the last case: what the intents in the manifest leave has
begun after the last durable purge, and an intent that could not be carried out is
still enforced, by a fence or by the floor.

`GenerationProofs`. `GenerationInv` joins the type invariant and the four safety
invariants with two orders the code keeps. `RetireOrder`: `retiring` is set
before anything waits for a generation or is taken from it, and no task refers
to a generation that is not yet published. `ShutdownOrder`: shutdown starts
between reloads, and once it has cancelled the live group no operation is inside
`Group.Acquire`. `EntersOpen` then rests on the second look of `acquireGen`: who
finds `retiring` unset finds nothing taken. `TakenOnlyOnSignal` rests on the
exact count (zero means nobody executes), `DrainNotLost` on the task that
brings the count to zero being the one that looks at `retiring`. The finding of
`generation_drain` is no contradiction: the signal itself may come too early, and
the theorem says what still holds then.

`ApplyProofs`. Four invariants, each on top of the one before. `Sound` says where
the holder of `applyMu` and the finalizer can be and what they carry (`OpShape`,
`FinShape`), who closed the gate and who may work meanwhile (`Gate`), that the
status is about the marker there is (`Baseline`), and that the backup is written
before the marker that needs it and removed after it (`Sidecars`); it gives
`BasisIsSound`. `Kept` adds `Known`, that candidates found anywhere were written by
Jul, and `Guarded`, that the file is what the last comparison before a write saw
until somebody edits it; it gives `KeepsEdits`. `Noted` adds that the status is
right or that an assessment which will make it right is on its way (`Right`,
`Coming`), with `Heard`: a reading that became outdated is followed by an event
nobody has taken; it gives `DriftIsReported`. `Safe` adds, for histories without an
edit, a crash, a discard that was cut short or an outdated drain (`Calm`), that the file is always one
which the marker and the planned-restart marker know of (`OnRecord`); with what
`Reconciled` and `PlanAfter` return for such files it gives `CrashRecovers`.

Every inductive invariant was model-checked on its run's instance before it was
proved.

Only model-checked: liveness (`HalfOpenEnds`, `ShutdownCompletes`,
`FencedEnds`, `AllAnswered`, `GateReopens`), which needs fairness and `ENABLED`. Every
invariant and every action property of a passing run is also a theorem.

## 6. Plan

Done: `Circuit`, `Admission` with `Slots`, `RetryBudget`, `Retry`, `Generation`,
`Registry`, `CacheFill`, `CacheStore` and `Apply`, modelled and their safety
properties proved.

Parts that could be modelled next: the phases of `ReloadPlan` with the fences of
`doReload`, composed with `Generation` and `Registry`; the streaks of `probeOne`
with `Circuit`'s `ForceClose`; the accept cap of `dynamic_conn_limit.go`; sharing
retirement; the audit sink.

## 7. Not modelled

Parsing, validation and comparison of configurations, the admin API's
projections, WAF evaluation, WASM hosting, routing, headers, metrics and logs:
per-request or pure code whose correctness is about data rather than about
order. Their components are listed in `PROJECT.json` with the reason. In the
modelled parts, durations are reduced to order (before or after a deadline),
errors to the classes the code branches on, and the balancers to a free choice.

Within the modelled parts: `Generation` leaves out the exit on a serve error
(`server.go:779`); `Registry` health checkers, affinity, duplicate addresses in a
backend set (`pool.go:397`) and the draining of a closed pool's connections;
`CacheFill` the rules of what may be stored or reused (an answer is storable or
not, an entry fresh, stale or expired); `CacheStore` the Vary index, tags, selectors that do not match, quotas
and open readers of disk files; `Apply` adopt-and-stage, the return of ownership
to the file, absent or unreadable files, failing removals, the idempotency
ledger and the history and audit records.

Of purges, `CacheStore` does not model: the coalescing of completed fences with one
selector (`scoped_purge.go:240`; the newest bars what the others do); cutover
fences, which leave no floor when they are evicted (`scoped_purge.go:282`), and
floors without a host (`scoped_purge.go:308`; they bar more keys, never fewer);
a high-water mark that cannot be written (`scoped_purge.go:2174`; the intent is in
the manifest, which a restart reads for its counter as well); unlinks that fail
while every file is wiped, which ADR 0027, line 157, reports as uncertain; the
refusal of a purge for lack of room in the manifest; and the retry of a purge whose
fence was evicted. Fences of other keys appear only as `Crowd`.

Of managed writes, `Apply` does not model: the ignored error of `AbortPrepared`
after a failed stage (`config_apply_stage.go:366`); the comparison of
`base_version` in an adoption (`adopt.go:317`) and the guards on the live and auth
generations (`config_apply.go:364`), so that it admits more than the code; and it
takes as one step the two reads at a restart, and a failed promotion with the
reconciliation after it (`config_apply_stage.go:421`, `planned_restart.go:945`,
`:975`).

The active health checker, listener cap, reload transaction, sharing retirement,
audit sink and stream proxy have state of their own and are not modelled yet.
