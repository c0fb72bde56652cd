------------------------------ MODULE Registry ------------------------------
(***************************************************************************)
(* The upstream pool registry under reloads: internal/upstream/registry.go *)
(* with the parts of Pool it drives (pool.go) and the discovery refreshers *)
(* (discovery.go), as the handler factory of internal/app calls them.      *)
(*                                                                         *)
(* One build is open at a time (the factory's mutex, the stream server's   *)
(* mutex): Begin, For per upstream, then Commit, SnapshotPools and Activate *)
(* or, after any failure or in a dry run, Abort.  Registry.mu is held inside *)
(* each of these and no refresher takes it, so the refreshers run between  *)
(* the steps of a Commit.                                                  *)
(*                                                                         *)
(* A refresher resolves without a lock, then holds discoveryMu from its    *)
(* epoch check to the store of the new backend set.  In between it loads   *)
(* the pool's circuit parameters, which Commit replaces without taking     *)
(* that mutex: the load and the store are two steps.                       *)
(***************************************************************************)
EXTENDS Integers, FiniteSets, Sequences

CONSTANTS
    Keys,       \* (name, scheme) pairs
    Kind,       \* Kind[k]: "static", "dns" (discovery by the resolver), "egress" (consul, kubernetes)
    Configs,    \* configurations a reload may bring: the upstreams (or None) and the egress policy
    Targets,    \* addresses a server list or a provider may name
    Answers,    \* what a provider may answer: an error or no target ({}), or targets
    None,
    MaxBuilds,  \* bound on the number of builds
    MaxRuns     \* bound on the refreshes of one worker

Upstream == [shape : Nat, circuit : Nat, policy : Nat, servers : SUBSET Targets]
Entries == [pool : Nat, shape : Nat, egress : Nat, reused : BOOLEAN, replace : BOOLEAN,
            targets : SUBSET Targets, disc : BOOLEAN, step : {"none", "stored", "retuned", "done"}]

ASSUME RegistryAssumption ==
    /\ IsFiniteSet(Keys) /\ IsFiniteSet(Targets) /\ Targets # {}
    /\ Kind \in [Keys -> {"static", "dns", "egress"}]
    /\ Configs \subseteq [ups : [Keys -> Upstream \cup {None}], policy : Nat]
    /\ None \notin Upstream /\ None \notin Entries /\ Answers \subseteq SUBSET Targets
    /\ \A c \in Configs, k \in Keys :
          c.ups[k] # None /\ Kind[k] = "static" => c.ups[k].servers # {}
    /\ MaxBuilds \in Nat /\ MaxRuns \in Nat

VARIABLES
    live,       \* live[k]: the pool that serves k and how it was built, or None
    staged,     \* the entries of the open build
    pools,      \* every pool ever built, by identity
    workers,    \* discovery refreshers, by identity
    build,      \* where the open build is
    cand,       \* the upstreams it configures
    stagedEgress,   \* the egress generation it is bound to
    egress,     \* the published egress generation and the policy it was compiled from
    builds,     \* builds begun; a new egress generation is named after its build
    serving,    \* history: the configuration of the last completed Commit
    view,       \* the fixed backend sets the published handler generation captured
    open        \* history: discoverers built and not closed

vars == <<live, staged, pools, workers, build, cand, stagedEgress, egress, builds, serving, view, open>>

Dynamic(k) == Kind[k] # "static"

(* A backend carries the thresholds its circuit runs with. *)
Built(addrs, cp) == {[addr |-> a, limits |-> cp] : a \in addrs}
Addrs(bs) == {b.addr : b \in bs}

(***************************************************************************)
(* The pool.                                                               *)
(***************************************************************************)
(* replaceBackends: a backend whose identity survives keeps its object, and  *)
(* with it the thresholds it runs with; the others are built with cp.      *)
Replaced(bs, addrs, cp) ==
    {b \in bs : b.addr \in addrs} \cup Built(addrs \ Addrs(bs), cp)

Locked(p) == \E w \in DOMAIN workers : workers[w].pool = p /\ workers[w].at = "locked"

(* StopDiscovery: the epoch moves on and results in flight are fenced.  seen *)
(* is the history of egress generations whose refreshers wrote since.      *)
Fence(pool, g) == [pool EXCEPT !.epoch = @ + 1, !.fence = g, !.seen = {}]
Closed(pool) == [Fence(pool, 0) EXCEPT !.closed = TRUE]

NewPool(k, up, addrs, g) ==
    [key |-> k, circuit |-> up.circuit, policy |-> up.policy, closed |-> FALSE,
     epoch |-> 0, fence |-> g, seen |-> {},
     backends |-> Built(addrs, up.circuit)]

NoEgress == [id |-> 0, policy |-> 0]
Init ==
    /\ live = [k \in Keys |-> None] /\ staged = [k \in Keys |-> None]
    /\ pools = << >> /\ workers = << >>
    /\ build = "idle" /\ cand = [k \in Keys |-> None]
    /\ stagedEgress = NoEgress /\ egress = [id |-> 1, policy |-> 0] /\ builds = 0
    /\ serving = [k \in Keys |-> None] /\ view = [k \in Keys |-> {}]
    /\ open = 0

(***************************************************************************)
(* Building.                                                               *)
(***************************************************************************)
(* Begin and SetEgressGeneration: a policy that is already published keeps   *)
(* its generation, any other one gets a new identity.                      *)
Begin(c) ==
    /\ build = "idle" /\ builds < MaxBuilds
    /\ build' = "staging" /\ cand' = c.ups
    /\ builds' = builds + 1
    /\ staged' = [k \in Keys |-> None]
    /\ stagedEgress' = IF c.policy = egress.policy THEN egress
                       ELSE [id |-> builds + 2, policy |-> c.policy]
    /\ UNCHANGED <<live, pools, workers, egress, serving, view, open>>

(* A finished build leaves nothing of its candidate behind. *)
Forgotten == cand' = [k \in Keys |-> None] /\ stagedEgress' = NoEgress

Wanted == {k \in Keys : cand[k] # None}
Reusable(k) == live[k] # None /\ live[k].shape = cand[k].shape
EgressGen(k) == IF Kind[k] = "egress" THEN stagedEgress.id ELSE 0

Entry(k, p, reused, replace, targets, disc) ==
    [pool |-> p, shape |-> cand[k].shape, egress |-> EgressGen(k), reused |-> reused,
     replace |-> replace, targets |-> targets, disc |-> disc, step |-> "none"]

(* Mutant: a kept pool keeps its refresher, whatever the egress policy. *)
NeverMoved(k) == FALSE
Moved(k) == Kind[k] = "egress" /\ live[k].egress # stagedEgress.id

(* The pool is kept; a changed egress generation brings its own discoverer,   *)
(* already asked once.                                                     *)
ForReused(k) ==
    /\ build = "staging" /\ k \in Wanted /\ staged[k] = None /\ Reusable(k)
    /\ \E ts \in IF Moved(k) THEN Answers ELSE {{}} :
          staged' = [staged EXCEPT ![k] = Entry(k, live[k].pool, TRUE, Moved(k), ts, Moved(k))]
    /\ open' = IF Moved(k) THEN open + 1 ELSE open
    /\ UNCHANGED <<live, pools, workers, build, cand, stagedEgress, egress, builds, serving, view>>

(* NewPool builds the configured servers; of a discovered upstream they are   *)
(* a seed, which the provider's first answer replaces if it names a target. *)
FirstSet(servers, answer) == IF answer = {} THEN servers ELSE answer

ForFresh(k) ==
    /\ build = "staging" /\ k \in Wanted /\ staged[k] = None /\ ~Reusable(k)
    /\ \E answer \in IF Dynamic(k) THEN Answers ELSE {{}} :
          pools' = Append(pools, NewPool(k, cand[k], FirstSet(cand[k].servers, answer), EgressGen(k)))
    /\ staged' = [staged EXCEPT ![k] = Entry(k, Len(pools) + 1, FALSE, FALSE, {}, Dynamic(k))]
    /\ open' = IF Dynamic(k) THEN open + 1 ELSE open
    /\ UNCHANGED <<live, workers, build, cand, stagedEgress, egress, builds, serving, view>>

(* A failed For, a later phase that fails, a lost compare-and-swap, or the   *)
(* end of a dry run.                                                       *)
Abort ==
    /\ build = "staging"
    /\ build' = "idle"
    /\ pools' = [p \in DOMAIN pools |->
          IF \E k \in Wanted : staged[k] # None /\ ~staged[k].reused /\ staged[k].pool = p
          THEN Closed(pools[p]) ELSE pools[p]]
    /\ open' = open - Cardinality({k \in Keys : staged[k] # None /\ staged[k].disc})
    /\ staged' = [k \in Keys |-> None]
    /\ Forgotten
    /\ UNCHANGED <<live, workers, egress, builds, serving, view>>

(***************************************************************************)
(* Commit.  For every kept pool, in any order: the parameters are stored,   *)
(* the breakers of the backends then in the set retuned, and the set       *)
(* replaced; then the pools that were not kept are closed and the staged   *)
(* ones become the live ones.                                              *)
(***************************************************************************)
Committing ==
    \/ build = "committing"
    \/ build = "staging" /\ \A k \in Wanted : staged[k] # None

Stepping(k, from, to) ==
    /\ Committing /\ staged[k] # None
    /\ staged[k].reused /\ staged[k].step = from
    /\ \A j \in Keys \ {k} : staged[j] # None => staged[j].step \in {"none", "done"}
    /\ staged' = [staged EXCEPT ![k].step = to]
    /\ build' = "committing"
    /\ UNCHANGED <<live, workers, cand, stagedEgress, egress, builds, serving, view, open>>

StoreLimits(k) ==
    /\ Stepping(k, "none", "stored")
    /\ pools' = [pools EXCEPT ![staged[k].pool].circuit = cand[k].circuit]

(* Mutant: only backends built later see the new thresholds. *)
NotRetuned(pool) == pool
Retuned(pool) == [pool EXCEPT !.backends = Built(Addrs(@), pool.circuit)]

RetuneBackends(k) ==
    /\ Stepping(k, "stored", "retuned")
    /\ pools' = [pools EXCEPT ![staged[k].pool] = Retuned(@)]

(* Mutant: the new provider's first answer is applied even if it failed. *)
SeededBlindly(pool, e, up) ==
    CASE e.replace -> LET f == Fence(pool, e.egress) IN
                         [f EXCEPT !.backends = Replaced(@, e.targets, pool.circuit)]
      [] ~e.replace /\ ~Dynamic(pool.key) ->
            [pool EXCEPT !.backends = Replaced(@, up.servers, pool.circuit)]
      [] OTHER -> pool
(* A kept pool's new backend set: the new provider's first answer when there *)
(* is one, the configured servers, or, for a refresher that goes on, none. *)
Seeded(pool, e, up) ==
    CASE e.replace -> LET f == Fence(pool, e.egress) IN
                         IF e.targets = {} THEN f
                         ELSE [f EXCEPT !.backends = Replaced(@, e.targets, pool.circuit)]
      [] ~e.replace /\ ~Dynamic(pool.key) ->
            [pool EXCEPT !.backends = Replaced(@, up.servers, pool.circuit)]
      [] OTHER -> pool

SeedBackends(k) ==
    /\ Stepping(k, "retuned", "done")
    /\ staged[k].replace => ~Locked(staged[k].pool)
    /\ pools' = [pools EXCEPT ![staged[k].pool] =
                    [Seeded(@, staged[k], cand[k]) EXCEPT !.policy = cand[k].policy]]

Kept == {staged[k].pool : k \in {j \in Keys : staged[j] # None}}
Dropped == {live[k].pool : k \in {j \in Keys : live[j] # None}} \ Kept

(* SnapshotPools.  The view of a discovered pool is the pool itself. *)
Captured(k, e, pool) == IF e = None \/ Dynamic(k) THEN {} ELSE Addrs(pool.backends)

ToActivate(entries) == {k \in Keys : entries[k] # None /\ entries[k].disc}

(* The swap; then, before any worker starts, the factory captures the         *)
(* handler generation's view and publishes the egress generation.          *)
CommitSwap ==
    /\ Committing
    /\ \A k \in Wanted : staged[k].reused => staged[k].step = "done"
    /\ \A p \in Dropped : ~Locked(p)
    /\ pools' = [p \in DOMAIN pools |-> IF p \in Dropped THEN Closed(pools[p]) ELSE pools[p]]
    /\ live' = staged
    /\ staged' = [k \in Keys |-> None]
    /\ serving' = cand
    /\ view' = [k \in Keys |-> Captured(k, staged[k], IF staged[k] = None THEN None ELSE pools[staged[k].pool])]
    /\ egress' = stagedEgress
    /\ build' = IF ToActivate(staged) = {} THEN "idle" ELSE "committed"
    /\ Forgotten
    /\ UNCHANGED <<workers, builds, open>>

Worker(k, p) ==
    [pool |-> p, epoch |-> pools[p].epoch + 1, egress |-> live[k].egress,
     at |-> "ready", targets |-> {}, cp |-> 0, runs |-> 0]

(* Activate: a refresher for every pool that came with a discoverer. *)
Activate(k) ==
    /\ build = "committed" /\ k \in ToActivate(live)
    /\ workers' = Append(workers, Worker(k, live[k].pool))
    /\ pools' = [pools EXCEPT ![live[k].pool].epoch = @ + 1]
    /\ live' = [live EXCEPT ![k] = [@ EXCEPT !.disc = FALSE, !.replace = FALSE, !.targets = {}]]
    /\ build' = IF ToActivate(live) = {k} THEN "idle" ELSE "committed"
    /\ UNCHANGED <<staged, cand, stagedEgress, egress, builds, serving, view, open>>

(* CloseAll, at shutdown: the reload loop has ended. *)
CloseAll ==
    /\ build = "idle" /\ builds > 0
    /\ LET ps == {live[k].pool : k \in {j \in Keys : live[j] # None}} IN
       /\ \A p \in ps : ~Locked(p)
       /\ pools' = [p \in DOMAIN pools |-> IF p \in ps THEN Closed(pools[p]) ELSE pools[p]]
    /\ live' = [k \in Keys |-> None] /\ serving' = [k \in Keys |-> None]
    /\ build' = "stopped"
    /\ UNCHANGED <<staged, workers, cand, stagedEgress, egress, builds, view, open>>

(***************************************************************************)
(* A discovery refresher.                                                  *)
(***************************************************************************)
Own(w) == pools[workers[w].pool]
Stale(w) == workers[w].at # "gone" /\ (workers[w].epoch # Own(w).epoch \/ Own(w).closed)

(* The provider answers, possibly long after it was asked.  An error or an   *)
(* empty answer, or a worker found to be fenced, changes nothing.          *)
Resolve(w) ==
    /\ workers[w].at = "ready" /\ workers[w].runs < MaxRuns
    /\ \E ts \in Answers :
          workers' = [workers EXCEPT ![w] =
              [workers[w] EXCEPT !.runs = @ + 1,
                                 !.at = IF ts # {} /\ workers[w].epoch = Own(w).epoch
                                        THEN "resolved" ELSE "ready",
                                 !.targets = IF workers[w].epoch = Own(w).epoch THEN ts ELSE {}]]
    /\ UNCHANGED <<live, staged, pools, build, cand, stagedEgress, egress, builds, serving, view, open>>

(* Mutant: the check made after the answer arrived is trusted. *)
CurrentUnchecked(w) == TRUE
Current(w) == workers[w].epoch = Own(w).epoch

(* applyDiscoveryTargets under discoveryMu: the check, the load of the       *)
(* circuit parameters ...                                                  *)
Apply(w) ==
    /\ workers[w].at = "resolved" /\ ~Locked(workers[w].pool)
    /\ workers' = [workers EXCEPT ![w] =
          IF Current(w) THEN [@ EXCEPT !.at = "locked", !.cp = Own(w).circuit]
          ELSE [@ EXCEPT !.at = "ready", !.targets = {}]]
    /\ UNCHANGED <<live, staged, pools, build, cand, stagedEgress, egress, builds, serving, view, open>>

(* ... and the store of the new set. *)
Store(w) ==
    /\ workers[w].at = "locked"
    /\ pools' = [pools EXCEPT ![workers[w].pool] =
          [Own(w) EXCEPT !.backends = Replaced(@, workers[w].targets, workers[w].cp),
                         !.seen = @ \cup {workers[w].egress}]]
    /\ workers' = [workers EXCEPT ![w] = [@ EXCEPT !.at = "ready", !.targets = {}, !.cp = 0]]
    /\ UNCHANGED <<live, staged, build, cand, stagedEgress, egress, builds, serving, view, open>>

(* The select of the loop: its context cancelled, or the pool done.  The     *)
(* discoverer is closed on the way out.                                    *)
Gone == [pool |-> 0, epoch |-> 0, egress |-> 0, at |-> "gone", targets |-> {}, cp |-> 0, runs |-> 0]
(* Mutant: only the end of the pool ends its refreshers. *)
ExitOnPoolDone(w) ==
    /\ workers[w].at = "ready" /\ Own(w).closed
    /\ workers' = [workers EXCEPT ![w] = Gone]
    /\ open' = open - 1
    /\ UNCHANGED <<live, staged, pools, build, cand, stagedEgress, egress, builds, serving, view>>
Exit(w) ==
    /\ workers[w].at = "ready" /\ Stale(w)
    /\ workers' = [workers EXCEPT ![w] = Gone]
    /\ open' = open - 1
    /\ UNCHANGED <<live, staged, pools, build, cand, stagedEgress, egress, builds, serving, view>>

Refresher(w) == Resolve(w) \/ Apply(w) \/ Store(w) \/ Exit(w)

Builder ==
    \/ \E c \in Configs : Begin(c)
    \/ \E k \in Keys : ForReused(k) \/ ForFresh(k)
    \/ Abort
    \/ \E k \in Keys : StoreLimits(k) \/ RetuneBackends(k) \/ SeedBackends(k)
    \/ CommitSwap \/ CloseAll
    \/ \E k \in Keys : Activate(k)

Next == Builder \/ \E w \in DOMAIN workers : Refresher(w)

Spec == Init /\ [][Next]_vars

(* Refreshers that can run do. *)
FairSpec == Spec /\ WF_vars(\E w \in DOMAIN workers : Apply(w) \/ Store(w) \/ Exit(w))

-----------------------------------------------------------------------------
(***************************************************************************)
(* Properties.                                                             *)
(***************************************************************************)
Backends == [addr : Targets, limits : Nat]

(* Every variable has its type, and no pool lists an address twice. *)
TypeOK ==
    /\ live \in [Keys -> Entries \cup {None}] /\ staged \in [Keys -> Entries \cup {None}]
    /\ \A p \in DOMAIN pools :
          /\ pools[p].backends \in SUBSET Backends
          /\ \A b, c \in pools[p].backends : b.addr = c.addr => b = c
    /\ build \in {"idle", "staging", "committing", "committed", "stopped"}
    /\ open \in Nat /\ builds \in 0..MaxBuilds /\ egress.id \in 1..(MaxBuilds + 1)

Settled == build \in {"idle", "staging"}

(* A refresher that has been fenced never writes: since a pool last changed   *)
(* its egress generation, only that generation's answers reached its       *)
(* backends, and a closed pool is written by nobody.                       *)
FenceHolds ==
    \A p \in DOMAIN pools :
        pools[p].seen \subseteq IF pools[p].closed THEN {} ELSE {pools[p].fence}

(* Between builds, and while another build is staged or thrown away, every    *)
(* key is served by an open pool with the shape, thresholds and policy of  *)
(* the configuration last committed; a static pool's backends are exactly  *)
(* the configured servers, each running with those thresholds.             *)
ServingAsConfigured ==
    Settled => \A k \in Keys :
        /\ live[k] = None <=> serving[k] = None
        /\ live[k] # None =>
              LET pool == pools[live[k].pool]
                  up == serving[k]
              IN /\ ~pool.closed /\ pool.key = k
                 /\ <<live[k].shape, pool.circuit, pool.policy>> = <<up.shape, up.circuit, up.policy>>
                 /\ ~Dynamic(k) => pool.backends = Built(up.servers, up.circuit)
                 /\ ~Dynamic(k) => view[k] = up.servers

Running(p) == {w \in DOMAIN workers : workers[w].pool = p /\ workers[w].at # "gone" /\ ~Stale(w)}

(* Between builds a discovered pool that serves has exactly one refresher,    *)
(* built under the egress policy its entry names, which is the published   *)
(* one; no other pool has any.                                             *)
OneRefresher ==
    build = "idle" =>
        \A p \in DOMAIN pools :
            LET ks == {k \in Keys : live[k] # None /\ live[k].pool = p /\ Dynamic(k)} IN
            /\ Cardinality(Running(p)) = Cardinality(ks)
            /\ \A k \in ks, w \in Running(p) :
                  /\ workers[w].egress = live[k].egress
                  /\ Kind[k] = "egress" => live[k].egress = egress.id

(* Every discoverer (and its HTTP transport) has an owner that will close it: *)
(* the open build, a pool about to be activated, or a running refresher.   *)
DiscoverersOwned ==
    open = Cardinality({k \in Keys : staged[k] # None /\ staged[k].disc})
         + Cardinality({k \in Keys : live[k] # None /\ live[k].disc})
         + Cardinality({w \in DOMAIN workers : workers[w].at # "gone"})

(* Nothing of a build or of discovery is left without an owner: the types,    *)
(* one refresher per served pool, an owner per discoverer.                 *)
RefreshersOwned == TypeOK /\ OneRefresher /\ DiscoverersOwned

(* Keep last good: no failed or empty answer, at start, at a refresh or under *)
(* a new egress policy, and no reload leaves a pool without backends that  *)
(* had some or was configured with some to start from.                     *)
KeepsLastGood ==
    [][/\ \A p \in DOMAIN pools : pools[p].backends # {} => pools'[p].backends # {}
       /\ \A p \in DOMAIN pools' \ DOMAIN pools :
             cand[pools'[p].key].servers # {} => pools'[p].backends # {}]_vars

(* Fenced refreshers end, and their discoverers with them: again and again    *)
(* there is none left.                                                     *)
FencedEnds == []<>(\A w \in DOMAIN workers : ~Stale(w))
=============================================================================
