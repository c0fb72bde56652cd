-------------------------- MODULE RegistryProofs --------------------------
(***************************************************************************)
(* The pool registry and its refreshers for every set of upstreams,        *)
(* configurations and provider answers, and any number of reloads.         *)
(***************************************************************************)
EXTENDS Registry, FiniteSetTheorems, TLAPS

Pool == [key : Keys, circuit : Nat, policy : Nat, closed : BOOLEAN, epoch : Nat, fence : Nat,
         seen : SUBSET Nat, backends : SUBSET Backends]
Refreshers == [pool : Nat, epoch : Nat, egress : Nat, at : {"ready", "resolved", "locked", "gone"},
               targets : SUBSET Targets, cp : Nat, runs : Nat]
Generations == [id : Nat, policy : Nat]

Types ==
    /\ live \in [Keys -> Entries \cup {None}] /\ staged \in [Keys -> Entries \cup {None}]
    /\ pools \in Seq(Pool) /\ workers \in Seq(Refreshers)
    /\ build \in {"idle", "staging", "committing", "committed", "stopped"}
    /\ cand \in [Keys -> Upstream \cup {None}] /\ serving \in [Keys -> Upstream \cup {None}]
    /\ stagedEgress \in Generations /\ egress \in Generations
    /\ builds \in 0..MaxBuilds /\ view \in [Keys -> SUBSET Targets] /\ open \in Int

-----------------------------------------------------------------------------
(* Who may write to a pool.                                                *)
Alive(w) == workers[w].at # "gone"
Currently(w) == workers[w].epoch = pools[workers[w].pool].epoch

(* Every refresher of the pool has been fenced. *)
NoCurrent(p) == \A w \in DOMAIN workers : workers[w].pool = p => workers[w].epoch < pools[p].epoch

HasCurrent(p) == \E w \in DOMAIN workers : Alive(w) /\ workers[w].pool = p /\ Currently(w)

Serves(p) == live[pools[p].key] # None /\ live[pools[p].key].pool = p

(* A refresher that is not fenced works for a serving pool, under the egress  *)
(* generation the pool was last fenced for, and a lock is never held by a  *)
(* fenced one.                                                             *)
WorkerOK(w) ==
    /\ ~Alive(w) => workers[w].pool = 0
    /\ Alive(w) =>
         /\ workers[w].pool \in DOMAIN pools
         /\ workers[w].epoch <= pools[workers[w].pool].epoch
         /\ Dynamic(pools[workers[w].pool].key)
         /\ Currently(w) => /\ ~pools[workers[w].pool].closed
                            /\ workers[w].egress = pools[workers[w].pool].fence
                            /\ Serves(workers[w].pool)
         /\ workers[w].at = "locked" => Currently(w)
         /\ workers[w].at \in {"resolved", "locked"} => workers[w].targets # {}

WorkersOK ==
    /\ \A w \in DOMAIN workers : WorkerOK(w)
    /\ \A v, w \in DOMAIN workers :
          Alive(v) /\ Alive(w) /\ workers[v].pool = workers[w].pool /\ Currently(v) /\ Currently(w) => v = w

(* The commit has already fenced the pool for the egress generation staged. *)
Refenced(k) == staged[k] # None /\ staged[k].replace /\ staged[k].step = "done"

LiveOK(k) ==
    live[k] # None =>
        /\ live[k].pool \in DOMAIN pools
        /\ pools[live[k].pool].key = k /\ ~pools[live[k].pool].closed
        /\ live[k].egress = IF Kind[k] = "egress" THEN egress.id ELSE 0
        /\ live[k].disc => build = "committed" /\ Dynamic(k) /\ NoCurrent(live[k].pool)
        /\ Refenced(k) \/ pools[live[k].pool].fence = live[k].egress
        /\ Dynamic(k) /\ ~live[k].disc /\ ~Refenced(k) => HasCurrent(live[k].pool)

StagedOK(k) ==
    staged[k] # None =>
        /\ build \in {"staging", "committing"} /\ cand[k] # None
        /\ staged[k].pool \in DOMAIN pools
        /\ pools[staged[k].pool].key = k /\ ~pools[staged[k].pool].closed
        /\ staged[k].egress = EgressGen(k) /\ staged[k].shape = cand[k].shape
        /\ staged[k].reused =>
              /\ live[k] # None /\ staged[k].pool = live[k].pool /\ staged[k].shape = live[k].shape
              /\ staged[k].disc = staged[k].replace
              /\ ~staged[k].replace => staged[k].egress = live[k].egress
        /\ ~staged[k].reused =>
              /\ live[k] # None => live[k].pool # staged[k].pool
              /\ ~staged[k].replace /\ staged[k].disc = Dynamic(k) /\ staged[k].step = "none"
        /\ ~staged[k].reused \/ Refenced(k) =>
              NoCurrent(staged[k].pool) /\ pools[staged[k].pool].fence = staged[k].egress
        /\ staged[k].replace => Dynamic(k)
        /\ build = "staging" => staged[k].step = "none"

BuildOK ==
    /\ build = "committing" => \A k \in Keys : cand[k] # None => staged[k] # None
    /\ \A k \in Keys : cand[k] # None /\ Kind[k] = "static" => cand[k].servers # {}
    /\ egress.id \in 1..(MaxBuilds + 1)
    /\ build \in {"staging", "committing"} => stagedEgress.id \in 1..(MaxBuilds + 1)

(* The pools themselves. *)
PoolOK(p) ==
    /\ \A b, c \in pools[p].backends : b.addr = c.addr => b = c
    /\ pools[p].seen \subseteq IF pools[p].closed THEN {} ELSE {pools[p].fence}

Owned ==
    /\ Types /\ WorkersOK /\ BuildOK
    /\ \A k \in Keys : LiveOK(k) /\ StagedOK(k)
    /\ \A p \in DOMAIN pools : PoolOK(p)

-----------------------------------------------------------------------------
(* What the pools serve.                                                   *)
Step(k) == IF staged[k] # None THEN staged[k].step ELSE "none"

LiveServes(k) ==
    /\ live[k] = None <=> serving[k] = None
    /\ live[k] # None =>
          LET pool == pools[live[k].pool]
              up == serving[k]
          IN /\ live[k].shape = up.shape
             /\ Step(k) = "none" => pool.circuit = up.circuit
             /\ Step(k) # "done" => pool.policy = up.policy
             /\ ~Dynamic(k) /\ Step(k) = "none" => pool.backends = Built(up.servers, up.circuit)
             /\ ~Dynamic(k) => view[k] = up.servers

StagedServes(k) ==
    staged[k] # None =>
        LET pool == pools[staged[k].pool]
            up == cand[k]
        IN /\ ~staged[k].reused \/ Step(k) # "none" => pool.circuit = up.circuit
           /\ ~staged[k].reused \/ Step(k) = "done" => pool.policy = up.policy
           /\ ~Dynamic(k) /\ Step(k) = "retuned" => pool.backends = Built(Addrs(pool.backends), up.circuit)
           /\ ~Dynamic(k) /\ (~staged[k].reused \/ Step(k) = "done") => pool.backends = Built(up.servers, up.circuit)

Serving == \A k \in Keys : LiveServes(k) /\ StagedServes(k)

-----------------------------------------------------------------------------
(* Backend sets.                                                           *)
Unique(bs) == \A b, c \in bs : b.addr = c.addr => b = c

LEMMA BuiltSet ==
  ASSUME NEW addrs \in SUBSET Targets, NEW cp \in Nat
  PROVE  /\ Built(addrs, cp) \in SUBSET Backends /\ Unique(Built(addrs, cp))
         /\ Addrs(Built(addrs, cp)) = addrs
<1>1. Built(addrs, cp) \in SUBSET Backends /\ Unique(Built(addrs, cp))
  BY DEF Built, Unique, Backends
<1>2. ASSUME NEW a \in addrs PROVE a \in Addrs(Built(addrs, cp))
  <2>1. [addr |-> a, limits |-> cp] \in Built(addrs, cp)
    BY DEF Built
  <2> QED BY <2>1 DEF Addrs
<1>3. ASSUME NEW a \in Addrs(Built(addrs, cp)) PROVE a \in addrs
  BY DEF Built, Addrs
<1> QED BY <1>1, <1>2, <1>3

LEMMA ReplacedSet ==
  ASSUME NEW bs \in SUBSET Backends, Unique(bs), NEW addrs \in SUBSET Targets, NEW cp \in Nat
  PROVE  /\ Replaced(bs, addrs, cp) \in SUBSET Backends /\ Unique(Replaced(bs, addrs, cp))
         /\ Addrs(Replaced(bs, addrs, cp)) = addrs
<1>1. Built(addrs \ Addrs(bs), cp) \in SUBSET Backends
  BY DEF Built, Backends
<1>2. Unique(Replaced(bs, addrs, cp))
  BY DEF Replaced, Built, Addrs, Unique
<1>3. ASSUME NEW a \in addrs PROVE a \in Addrs(Replaced(bs, addrs, cp))
  <2>1. CASE a \in Addrs(bs)
    BY <2>1 DEF Replaced, Addrs
  <2>2. CASE a \notin Addrs(bs)
    <3>1. [addr |-> a, limits |-> cp] \in Replaced(bs, addrs, cp)
      BY <2>2 DEF Replaced, Built
    <3> QED BY <3>1 DEF Addrs
  <2> QED BY <2>1, <2>2
<1>4. ASSUME NEW a \in Addrs(Replaced(bs, addrs, cp)) PROVE a \in addrs
  BY DEF Replaced, Built, Addrs
<1> QED BY <1>1, <1>2, <1>3, <1>4 DEF Replaced

(* A set that runs with cp throughout is the one built afresh. *)
LEMMA ReplacedUniform ==
  ASSUME NEW bs \in SUBSET Backends, NEW addrs \in SUBSET Targets, NEW cp \in Nat,
         bs = Built(Addrs(bs), cp)
  PROVE  Replaced(bs, addrs, cp) = Built(addrs, cp)
<1>1. \A b \in bs : b = [addr |-> b.addr, limits |-> cp]
  BY DEF Built
<1>2. ASSUME NEW b \in Replaced(bs, addrs, cp) PROVE b \in Built(addrs, cp)
  <2>1. CASE b \in bs /\ b.addr \in addrs
    BY <1>1, <2>1 DEF Built
  <2> QED BY <1>2, <2>1 DEF Replaced, Built
<1>3. ASSUME NEW b \in Built(addrs, cp) PROVE b \in Replaced(bs, addrs, cp)
  <2>1. PICK a \in addrs : b = [addr |-> a, limits |-> cp]
    BY DEF Built
  <2>2. CASE a \in Addrs(bs)
    <3>1. b \in bs /\ b.addr = a
      BY <2>1, <2>2 DEF Built
    <3> QED BY <3>1 DEF Replaced
  <2>3. CASE a \notin Addrs(bs)
    BY <2>1, <2>3 DEF Replaced, Built
  <2> QED BY <2>2, <2>3
<1> QED BY <1>2, <1>3

-----------------------------------------------------------------------------
(* Updates of the pools and of the refreshers, pointwise.                  *)
LEMMA SeqSet ==
  ASSUME NEW S, NEW q \in Seq(S), NEW p \in DOMAIN q, NEW x \in S
  PROVE  /\ [q EXCEPT ![p] = x] \in Seq(S) /\ DOMAIN [q EXCEPT ![p] = x] = DOMAIN q
         /\ [q EXCEPT ![p] = x][p] = x
         /\ \A j \in DOMAIN q : j # p => [q EXCEPT ![p] = x][j] = q[j]
  OBVIOUS

LEMMA SeqMap ==
  ASSUME NEW S, NEW q \in Seq(S), NEW f \in [DOMAIN q -> S]
  PROVE  f \in Seq(S) /\ DOMAIN f = DOMAIN q
<1>1. Len(q) \in Nat /\ f \in [1..Len(q) -> S]
  OBVIOUS
<1> QED BY <1>1

LEMMA SeqAppend ==
  ASSUME NEW S, NEW q \in Seq(S), NEW x \in S
  PROVE  /\ Append(q, x) \in Seq(S) /\ DOMAIN Append(q, x) = DOMAIN q \cup {Len(q) + 1}
         /\ Len(q) + 1 \notin DOMAIN q /\ Append(q, x)[Len(q) + 1] = x
         /\ \A j \in DOMAIN q : Append(q, x)[j] = q[j]
<1>1. Len(q) \in Nat /\ DOMAIN q = 1..Len(q)
  OBVIOUS
<1>2. 1..(Len(q) + 1) = 1..Len(q) \cup {Len(q) + 1}
  BY <1>1
<1> QED BY <1>1, <1>2

LEMMA FencedPool ==
  ASSUME NEW pool \in Pool, NEW g \in Nat
  PROVE  /\ Fence(pool, g) \in Pool /\ Closed(pool) \in Pool
         /\ Fence(pool, g).key = pool.key /\ Fence(pool, g).epoch = pool.epoch + 1
         /\ Fence(pool, g).fence = g /\ Fence(pool, g).seen = {} /\ Fence(pool, g).closed = pool.closed
         /\ Fence(pool, g).circuit = pool.circuit /\ Fence(pool, g).policy = pool.policy
         /\ Fence(pool, g).backends = pool.backends
         /\ Closed(pool).key = pool.key /\ Closed(pool).epoch = pool.epoch + 1
         /\ Closed(pool).seen = {} /\ Closed(pool).closed /\ Closed(pool).backends = pool.backends
<1>1. pool.epoch + 1 \in Nat /\ 0 \in Nat /\ {} \in SUBSET Nat /\ TRUE \in BOOLEAN
  BY DEF Pool
<1>2. Fence(pool, g) = [pool EXCEPT !.epoch = pool.epoch + 1, !.fence = g, !.seen = {}]
  BY DEF Fence, Pool
<1>3. Closed(pool) = [pool EXCEPT !.epoch = pool.epoch + 1, !.fence = 0, !.seen = {}, !.closed = TRUE]
  BY DEF Closed, Fence, Pool
<1> QED BY <1>1, <1>2, <1>3 DEF Pool

(* Fields of pools, refreshers and entries. *)
LEMMA PoolFields ==
  ASSUME NEW q \in Seq(Pool), NEW p \in DOMAIN q
  PROVE  /\ q[p] \in Pool /\ q[p].key \in Keys /\ q[p].epoch \in Nat /\ q[p].fence \in Nat
         /\ q[p].closed \in BOOLEAN /\ q[p].circuit \in Nat /\ q[p].backends \in SUBSET Backends
         /\ p \in Nat /\ p # 0
<1>1. q[p] \in Pool /\ p \in Nat /\ p # 0
  OBVIOUS
<1> QED BY <1>1 DEF Pool

LEMMA WorkerFields ==
  ASSUME NEW q \in Seq(Refreshers), NEW w \in DOMAIN q
  PROVE  /\ q[w] \in Refreshers /\ q[w].pool \in Nat /\ q[w].epoch \in Nat /\ q[w].egress \in Nat
         /\ q[w].cp \in Nat /\ q[w].targets \in SUBSET Targets
<1>1. q[w] \in Refreshers
  OBVIOUS
<1> QED BY <1>1 DEF Refreshers

-----------------------------------------------------------------------------
(* A step that moves no fence of pool p. *)
Steady(p) ==
    /\ p \in DOMAIN pools'
    /\ pools'[p].key = pools[p].key /\ pools'[p].closed = pools[p].closed
    /\ pools'[p].epoch = pools[p].epoch /\ pools'[p].fence = pools[p].fence

(* A step that fences its refreshers. *)
Bumped(p) ==
    /\ p \in DOMAIN pools'
    /\ pools'[p].key = pools[p].key /\ pools[p].epoch < pools'[p].epoch

LEMMA SteadyPool ==
  ASSUME NEW p \in DOMAIN pools, Steady(p), workers' = workers
  PROVE  (NoCurrent(p) => NoCurrent(p)') /\ (HasCurrent(p) => HasCurrent(p)')
  BY DEF Steady, NoCurrent, HasCurrent, Alive, Currently

LEMMA BumpedPool ==
  ASSUME Types, WorkersOK, NEW p \in DOMAIN pools, Bumped(p), pools'[p].epoch \in Nat, workers' = workers
  PROVE  NoCurrent(p)'
<1>1. \A w \in DOMAIN workers : workers[w].pool \in Nat /\ workers[w].epoch \in Nat
  BY WorkerFields DEF Types
<1>2. pools[p].epoch \in Nat /\ p # 0
  BY PoolFields DEF Types
<1>3. ASSUME NEW w \in DOMAIN workers, workers[w].pool = p PROVE workers[w].epoch <= pools[p].epoch
  BY <1>2, <1>3 DEF WorkersOK, WorkerOK
<1> QED BY <1>1, <1>2, <1>3 DEF NoCurrent, Bumped

(* Refreshers that did not move, while pools were fenced that nobody held. *)
LEMMA WorkersKept ==
  ASSUME Types, WorkersOK, pools' \in Seq(Pool), workers' = workers,
         \A p \in DOMAIN pools : \/ Steady(p) /\ (Serves(p) => Serves(p)')
                                 \/ Bumped(p) /\ ~Locked(p)
  PROVE  WorkersOK'
<1>1. \A p \in DOMAIN pools : pools[p].epoch \in Nat
  BY PoolFields DEF Types
<1>2. \A p \in DOMAIN pools' : pools'[p].epoch \in Nat
  BY PoolFields
<1>3. \A w \in DOMAIN workers : workers[w].epoch \in Nat
  BY WorkerFields DEF Types
<1>4. ASSUME NEW w \in DOMAIN workers PROVE WorkerOK(w)' /\ (Alive(w) /\ Currently(w)' => Currently(w))
  <2>1. WorkerOK(w) /\ (Alive(w)' <=> Alive(w))
    BY DEF WorkersOK, Alive
  <2>2. CASE ~Alive(w)
    BY <2>1, <2>2 DEF WorkerOK
  <2>3. CASE Alive(w) /\ Steady(workers[w].pool) /\ (Serves(workers[w].pool) => Serves(workers[w].pool)')
    BY <2>1, <2>3 DEF WorkerOK, Steady, Currently
  <2>4. CASE Alive(w) /\ Bumped(workers[w].pool) /\ ~Locked(workers[w].pool)
    <3>1. workers[w].pool \in DOMAIN pools /\ workers[w].at # "locked"
      BY <2>1, <2>4 DEF WorkerOK, Locked
    <3>2. workers[w].epoch < pools'[workers[w].pool].epoch
      BY <1>1, <1>2, <1>3, <2>1, <2>4, <3>1 DEF WorkerOK, Bumped
    <3>3. ~Currently(w)'
      BY <1>2, <1>3, <2>4, <3>2 DEF Currently, Bumped
    <3> QED BY <1>1, <1>2, <1>3, <2>1, <2>4, <3>1, <3>2, <3>3 DEF WorkerOK, Bumped
  <2> QED BY <2>1, <2>2, <2>3, <2>4 DEF WorkerOK
<1>5. ASSUME NEW v \in DOMAIN workers, NEW w \in DOMAIN workers,
             (Alive(v) /\ Alive(w) /\ workers[v].pool = workers[w].pool /\ Currently(v) /\ Currently(w))'
      PROVE  v = w
  BY <1>4, <1>5 DEF WorkersOK, Alive
<1> QED BY <1>4, <1>5 DEF WorkersOK

LEMMA LiveKept ==
  ASSUME NEW k \in Keys, LiveOK(k), live'[k] = live[k], Refenced(k)' <=> Refenced(k),
         egress'.id = egress.id,
         live[k] # None =>
            /\ Steady(live[k].pool)
            /\ NoCurrent(live[k].pool) => NoCurrent(live[k].pool)'
            /\ HasCurrent(live[k].pool) => HasCurrent(live[k].pool)'
            /\ live[k].disc => build' = build
  PROVE  LiveOK(k)'
  BY DEF LiveOK, Steady

LEMMA StagedKept ==
  ASSUME NEW k \in Keys, StagedOK(k), staged'[k] = staged[k], live'[k] = live[k],
         cand' = cand, stagedEgress' = stagedEgress,
         staged[k] # None =>
            /\ Steady(staged[k].pool)
            /\ NoCurrent(staged[k].pool) => NoCurrent(staged[k].pool)'
            /\ build' \in {build, "committing"}
  PROVE  StagedOK(k)'
  BY DEF StagedOK, Steady, Refenced, EgressGen

-----------------------------------------------------------------------------
(* The steps of a build, up to the commit.                                 *)
Entire ==
    /\ Types /\ WorkersOK /\ BuildOK
    /\ \A j \in Keys : LiveOK(j)
    /\ \A j \in Keys : StagedOK(j)
    /\ \A p \in DOMAIN pools : PoolOK(p)

LEMMA OwnedIs == Owned <=> Entire
  BY DEF Owned, Entire

LEMMA UnchangedPools ==
  ASSUME pools' = pools, workers' = workers
  PROVE  /\ \A p \in DOMAIN pools : Steady(p) /\ (PoolOK(p) => PoolOK(p)')
         /\ \A p \in DOMAIN pools : (NoCurrent(p) => NoCurrent(p)') /\ (HasCurrent(p) => HasCurrent(p)')
  BY DEF Steady, PoolOK, NoCurrent, HasCurrent, Alive, Currently

(* Nothing but the build's own notes moves. *)
LEMMA NotesStep ==
  ASSUME Owned, Types', BuildOK', UNCHANGED <<pools, workers, live>>, egress'.id = egress.id,
         \A j \in Keys : StagedOK(j)' /\ (Refenced(j)' <=> Refenced(j)),
         \A j \in Keys : live[j] # None /\ live[j].disc => build' = build
  PROVE  Owned'
<1>1. Entire
  BY OwnedIs
<1>2. \A p \in DOMAIN pools : Steady(p) /\ PoolOK(p)' /\ (Serves(p) => Serves(p)')
  BY <1>1, UnchangedPools DEF Entire, Serves
<1>3. WorkersOK'
  BY <1>1, <1>2, WorkersKept DEF Entire, Types
<1>4. ASSUME NEW j \in Keys PROVE LiveOK(j)'
  <2>1. LiveOK(j) /\ (live[j] # None => live[j].pool \in DOMAIN pools)
    BY <1>1 DEF Entire, LiveOK
  <2> QED BY <1>2, <2>1, UnchangedPools, LiveKept
<1>5. Entire'
  BY <1>1, <1>2, <1>3, <1>4 DEF Entire
<1> QED BY <1>5, OwnedIs DEF Owned, Entire

LEMMA NobodyStaged ==
  ASSUME Owned, build \notin {"staging", "committing"}
  PROVE  \A k \in Keys : staged[k] = None
  BY DEF Owned, StagedOK

LEMMA NobodyAwaits ==
  ASSUME Owned, build # "committed", NEW k \in Keys, live[k] # None
  PROVE  ~live[k].disc
  BY DEF Owned, LiveOK

LEMMA BeginStep ==
  ASSUME Owned, NEW c \in Configs, Begin(c)
  PROVE  Owned'
<1>1. /\ c.ups \in [Keys -> Upstream \cup {None}] /\ c.policy \in Nat
      /\ \A k \in Keys : c.ups[k] # None /\ Kind[k] = "static" => c.ups[k].servers # {}
      /\ MaxBuilds \in Nat
  BY RegistryAssumption
<1>2. Types /\ BuildOK
  BY DEF Owned
<1>3. builds' \in 0..MaxBuilds /\ builds + 2 \in 1..(MaxBuilds + 1) /\ builds + 2 \in Nat
  BY <1>1, <1>2 DEF Types, Begin
<1>4. stagedEgress' \in Generations /\ stagedEgress'.id \in 1..(MaxBuilds + 1)
  BY <1>1, <1>2, <1>3 DEF Types, BuildOK, Begin, Generations
<1>5. Types'
  BY <1>1, <1>2, <1>3, <1>4 DEF Types, Begin
<1>6. BuildOK'
  BY <1>1, <1>2, <1>4 DEF BuildOK, Begin
<1>7. \A j \in Keys : StagedOK(j)' /\ (Refenced(j)' <=> Refenced(j))
  BY NobodyStaged DEF StagedOK, Refenced, Begin
<1>8. \A j \in Keys : live[j] # None => ~live[j].disc
  BY NobodyAwaits DEF Begin
<1> QED BY <1>5, <1>6, <1>7, <1>8, NotesStep DEF Begin

LEMMA ForReusedStep ==
  ASSUME Owned, NEW k \in Keys, ForReused(k)
  PROVE  Owned'
<1>1. /\ Types /\ BuildOK /\ build = "staging" /\ build' = build /\ cand[k] # None
      /\ staged[k] = None /\ live[k] # None /\ live[k].shape = cand[k].shape
      /\ UNCHANGED <<live, pools, workers, cand, stagedEgress, egress, builds, serving, view>>
      /\ LiveOK(k) /\ \A j \in Keys : StagedOK(j)
  BY DEF Owned, ForReused, Wanted, Reusable
<1>2. /\ live[k] \in Entries /\ cand[k] \in Upstream /\ EgressGen(k) \in Nat /\ open' \in Int
      /\ Moved(k) \in BOOLEAN
  BY <1>1 DEF Types, EgressGen, Generations, ForReused, Moved
<1>3. PICK ts \in SUBSET Targets :
         staged' = [staged EXCEPT ![k] = Entry(k, live[k].pool, TRUE, Moved(k), ts, Moved(k))]
  BY RegistryAssumption DEF ForReused
<1> DEFINE e == Entry(k, live[k].pool, TRUE, Moved(k), ts, Moved(k))
<1>4. /\ e \in Entries /\ e.pool = live[k].pool /\ e.reused /\ e.shape = cand[k].shape
      /\ e.egress = EgressGen(k) /\ e.replace = Moved(k) /\ e.disc = Moved(k) /\ e.step = "none"
  BY <1>2 DEF Entry, Entries, Upstream
<1> HIDE DEF e
<1>5. /\ staged' \in [Keys -> Entries \cup {None}] /\ staged'[k] = e
      /\ \A j \in Keys \ {k} : staged'[j] = staged[j]
  BY <1>1, <1>3, <1>4 DEF Types, e
<1>6. Types'
  BY <1>1, <1>2, <1>5 DEF Types
<1>7. BuildOK'
  BY <1>1, <1>5 DEF BuildOK
<1>8. Refenced(k)' <=> Refenced(k)
  BY <1>1, <1>4, <1>5 DEF Refenced
<1>9. StagedOK(k)'
  <2>1. ~Moved(k) => e.egress = live[k].egress
    BY <1>1, <1>4 DEF Moved, LiveOK, EgressGen
  <2>2. Moved(k) => Dynamic(k)
    BY DEF Moved, Dynamic
  <2>3. e # None
    BY <1>4, RegistryAssumption
  <2> QED BY <1>1, <1>4, <1>5, <2>1, <2>2, <2>3 DEF StagedOK, LiveOK, Refenced, EgressGen
<1>10. ASSUME NEW j \in Keys \ {k} PROVE StagedOK(j)' /\ (Refenced(j)' <=> Refenced(j))
  <2>1. StagedOK(j) /\ (staged[j] # None => staged[j].pool \in DOMAIN pools)
    BY <1>1 DEF StagedOK
  <2>2. StagedOK(j)'
    BY <1>1, <1>5, <2>1, UnchangedPools, StagedKept
  <2> QED BY <1>5, <2>2 DEF Refenced
<1> QED BY <1>1, <1>6, <1>7, <1>8, <1>9, <1>10, NotesStep

(* What a new pool starts with: targets, and some if any were configured.   *)
LEMMA FirstSets ==
  ASSUME NEW k \in Keys, NEW up \in Upstream, NEW answer \in IF Dynamic(k) THEN Answers ELSE {{}}
  PROVE  /\ FirstSet(up.servers, answer) \in SUBSET Targets
         /\ up.servers # {} => FirstSet(up.servers, answer) # {}
<1>1. answer \in SUBSET Targets
  BY RegistryAssumption
<1>2. up.servers \in SUBSET Targets
  BY DEF Upstream
<1> QED BY <1>1, <1>2 DEF FirstSet

LEMMA ForFreshStep ==
  ASSUME Owned, NEW k \in Keys, ForFresh(k)
  PROVE  Owned'
<1>1. /\ Types /\ BuildOK /\ WorkersOK /\ build = "staging" /\ build' = build /\ cand[k] # None
      /\ staged[k] = None
      /\ UNCHANGED <<live, workers, cand, stagedEgress, egress, builds, serving, view>>
      /\ \A j \in Keys : LiveOK(j) /\ StagedOK(j)
      /\ \A p \in DOMAIN pools : PoolOK(p)
  BY DEF Owned, ForFresh, Wanted
<1>2. cand[k] \in Upstream /\ EgressGen(k) \in Nat /\ open' \in Int /\ pools \in Seq(Pool)
  BY <1>1 DEF Types, EgressGen, Generations, ForFresh
<1>3. PICK ts \in SUBSET Targets : pools' = Append(pools, NewPool(k, cand[k], ts, EgressGen(k)))
  BY <1>2, FirstSets DEF ForFresh
<1>3a. PICK p \in Nat : p = Len(pools) + 1
  BY <1>2
<1> DEFINE np == NewPool(k, cand[k], ts, EgressGen(k))
           e == Entry(k, p, FALSE, FALSE, {}, Dynamic(k))
<1>4. /\ np \in Pool /\ np.key = k /\ ~np.closed /\ np.fence = EgressGen(k) /\ np.epoch = 0
      /\ Unique(np.backends) /\ np.seen = {}
  <2>1. Built(ts, cand[k].circuit) \in SUBSET Backends /\ Unique(Built(ts, cand[k].circuit))
    BY <1>2, BuiltSet DEF Upstream
  <2> QED BY <1>2, <2>1 DEF NewPool, Pool, Upstream
<1>5. /\ pools' \in Seq(Pool) /\ DOMAIN pools' = DOMAIN pools \cup {p} /\ p \notin DOMAIN pools
      /\ pools'[p] = np /\ \A j \in DOMAIN pools : pools'[j] = pools[j]
      /\ p \in Nat /\ p # 0
  BY <1>2, <1>3, <1>4, <1>3a, SeqAppend
<1>6. /\ e \in Entries /\ e.pool = p /\ ~e.reused /\ e.shape = cand[k].shape
      /\ e.egress = EgressGen(k) /\ ~e.replace /\ e.disc = Dynamic(k) /\ e.step = "none"
  BY <1>2, <1>5 DEF Entry, Entries, Upstream, Dynamic
<1>7. staged' = [staged EXCEPT ![k] = e]
  BY <1>3a DEF ForFresh
<1> HIDE DEF np, e
<1>8. /\ staged' \in [Keys -> Entries \cup {None}] /\ staged'[k] = e
      /\ \A j \in Keys \ {k} : staged'[j] = staged[j]
  BY <1>1, <1>6, <1>7 DEF Types
<1>9. Types'
  BY <1>1, <1>2, <1>5, <1>8 DEF Types
<1>10. BuildOK'
  BY <1>1, <1>8 DEF BuildOK
<1>11. \A q \in DOMAIN pools : /\ Steady(q) /\ PoolOK(q)' /\ (Serves(q) => Serves(q)')
                               /\ NoCurrent(q) => NoCurrent(q)'
                               /\ HasCurrent(q) => HasCurrent(q)'
  <2>1. \A q \in DOMAIN pools : Steady(q)
    BY <1>5 DEF Steady
  <2>2. \A q \in DOMAIN pools : PoolOK(q)' /\ (Serves(q) => Serves(q)')
    BY <1>1, <1>5 DEF PoolOK, Serves
  <2> QED BY <1>1, <2>1, <2>2, SteadyPool
<1>12. WorkersOK'
  BY <1>1, <1>5, <1>11, WorkersKept
<1>13. PoolOK(p)'
  BY <1>4, <1>5 DEF PoolOK, Unique
<1>14. NoCurrent(p)'
  BY <1>1, <1>5 DEF NoCurrent, WorkersOK, WorkerOK
<1>15. StagedOK(k)'
  <2>1. live[k] # None => live[k].pool # p
    BY <1>1, <1>5 DEF LiveOK
  <2> QED BY <1>1, <1>4, <1>5, <1>6, <1>8, <1>14, <2>1 DEF StagedOK, Refenced, EgressGen
<1>16. ASSUME NEW j \in Keys \ {k} PROVE StagedOK(j)'
  <2>1. StagedOK(j) /\ (staged[j] # None => staged[j].pool \in DOMAIN pools)
    BY <1>1 DEF StagedOK
  <2> QED BY <1>1, <1>8, <1>11, <2>1, StagedKept
<1>17. ASSUME NEW j \in Keys PROVE LiveOK(j)'
  <2>1. LiveOK(j) /\ (live[j] # None => live[j].pool \in DOMAIN pools)
    BY <1>1 DEF LiveOK
  <2>2. Refenced(j)' <=> Refenced(j)
    BY <1>1, <1>6, <1>8 DEF Refenced
  <2> QED BY <1>1, <1>11, <2>1, <2>2, LiveKept
<1>18. \A q \in DOMAIN pools' : PoolOK(q)'
  BY <1>5, <1>11, <1>13
<1> QED BY <1>9, <1>10, <1>12, <1>15, <1>16, <1>17, <1>18 DEF Owned

(* An aborted build closes the pools it built, which nothing else uses. *)
LEMMA AbortStep ==
  ASSUME Owned, Abort
  PROVE  Owned'
<1>1. /\ Types /\ BuildOK /\ WorkersOK /\ build = "staging" /\ build' = "idle"
      /\ UNCHANGED <<live, workers, egress, builds, serving, view>>
      /\ \A j \in Keys : staged'[j] = None /\ cand'[j] = None
      /\ \A j \in Keys : LiveOK(j) /\ StagedOK(j)
      /\ \A p \in DOMAIN pools : PoolOK(p)
      /\ pools \in Seq(Pool) /\ stagedEgress' = NoEgress
  BY DEF Owned, Abort, Forgotten, Types
<1> DEFINE fresh == {p \in DOMAIN pools : \E k \in Wanted : staged[k] # None /\ ~staged[k].reused
                                                            /\ staged[k].pool = p}
<1>2. pools' = [p \in DOMAIN pools |-> IF p \in fresh THEN Closed(pools[p]) ELSE pools[p]]
  BY DEF Abort
<1>3. ASSUME NEW p \in fresh PROVE NoCurrent(p) /\ ~Serves(p)
  <2>1. PICK k \in Keys : staged[k] # None /\ ~staged[k].reused /\ staged[k].pool = p
    BY DEF Wanted
  <2> QED BY <1>1, <2>1 DEF StagedOK, Serves
<1> HIDE DEF fresh
<1>4. \A p \in DOMAIN pools : /\ pools[p] \in Pool /\ pools[p].epoch \in Nat /\ Closed(pools[p]) \in Pool
                              /\ Closed(pools[p]).key = pools[p].key
                              /\ Closed(pools[p]).epoch = pools[p].epoch + 1
                              /\ Closed(pools[p]).seen = {}
                              /\ Closed(pools[p]).backends = pools[p].backends
  BY <1>1, PoolFields, FencedPool
<1>5. pools' \in Seq(Pool) /\ DOMAIN pools' = DOMAIN pools
  <2>1. pools' \in [DOMAIN pools -> Pool]
    BY <1>2, <1>4
  <2> QED BY <1>1, <2>1, SeqMap
<1>6. \A p \in DOMAIN pools : \/ Steady(p) /\ pools'[p] = pools[p] /\ (Serves(p) => Serves(p)')
                              \/ Bumped(p) /\ ~Serves(p) /\ NoCurrent(p)
  BY <1>1, <1>2, <1>3, <1>4, <1>5 DEF Steady, Bumped, Serves
<1>7. WorkersOK'
  <2>1. ASSUME NEW p \in DOMAIN pools, NoCurrent(p) PROVE ~Locked(p)
    <3> SUFFICES ASSUME NEW w \in DOMAIN workers, workers[w].pool = p, workers[w].at = "locked"
                 PROVE  FALSE
      BY DEF Locked
    <3>1. workers[w].epoch = pools[p].epoch
      BY <1>1 DEF WorkersOK, WorkerOK, Alive, Currently
    <3> QED BY <1>4, <2>1, <3>1 DEF NoCurrent
  <2> QED BY <1>1, <1>5, <1>6, <2>1, WorkersKept
<1>8. \A p \in DOMAIN pools' : PoolOK(p)'
  BY <1>1, <1>2, <1>4, <1>5 DEF PoolOK
<1>9. ASSUME NEW j \in Keys PROVE LiveOK(j)'
  <2>1. LiveOK(j) /\ ~Refenced(j) /\ ~Refenced(j)'
    BY <1>1 DEF Refenced, StagedOK
  <2>2. live[j] # None => live[j].pool \in DOMAIN pools /\ Serves(live[j].pool) /\ ~live[j].disc
    BY <1>1, <2>1 DEF LiveOK, Serves
  <2>3. live[j] # None => Steady(live[j].pool)
    BY <1>6, <2>2
  <2> QED BY <1>1, <2>1, <2>2, <2>3, SteadyPool, LiveKept
<1>10. Types'
  <2>1. staged' \in [Keys -> Entries \cup {None}] /\ cand' \in [Keys -> Upstream \cup {None}]
    BY DEF Abort, Forgotten
  <2>2. open' \in Int
    <3>1. Cardinality({k \in Keys : staged[k] # None /\ staged[k].disc}) \in Nat
      BY RegistryAssumption, FS_Subset, FS_CardinalityType
    <3> QED BY <1>1, <3>1 DEF Types, Abort
  <2>3. stagedEgress' \in Generations
    BY <1>1 DEF NoEgress, Generations
  <2> QED BY <1>1, <1>5, <2>1, <2>2, <2>3 DEF Types
<1>11. BuildOK'
  BY <1>1 DEF BuildOK
<1>12. \A j \in Keys : StagedOK(j)'
  BY <1>1 DEF StagedOK
<1> QED BY <1>7, <1>8, <1>9, <1>10, <1>11, <1>12 DEF Owned

-----------------------------------------------------------------------------
(* The commit.                                                             *)
(* What every step of the commit on a kept pool does besides the pool. *)
Stepped(k, from, to) ==
    /\ staged[k] # None /\ staged[k] \in Entries /\ cand[k] # None /\ cand[k] \in Upstream
    /\ staged[k].reused /\ staged[k].step = from /\ build' = "committing"
    /\ build \in {"staging", "committing"} /\ ~Refenced(k)
    /\ staged[k].pool \in DOMAIN pools /\ pools[staged[k].pool].key = k
    /\ staged' = [staged EXCEPT ![k] = [staged[k] EXCEPT !.step = to]]
    /\ staged' \in [Keys -> Entries \cup {None}] /\ staged'[k] \in Entries
    /\ staged'[k].step = to
    /\ staged'[k] = [staged[k] EXCEPT !.step = to]
    /\ \A j \in Keys \ {k} : staged'[j] = staged[j]
    /\ UNCHANGED <<live, workers, cand, stagedEgress, egress, builds, serving, view, open>>
    /\ \A j \in Keys : cand[j] # None => staged[j] # None
    /\ BuildOK'

LEMMA Step1 ==
  ASSUME Owned, NEW k \in Keys, NEW from \in {"none", "stored", "retuned"},
         NEW to \in {"stored", "retuned", "done"}, Stepping(k, from, to)
  PROVE  Stepped(k, from, to)
<1>1. Types /\ BuildOK /\ StagedOK(k) /\ staged[k] # None
  BY DEF Owned, Stepping
<1>2. staged[k] \in Entries /\ cand[k] # None /\ cand[k] \in Upstream
  BY <1>1 DEF Types, StagedOK
<1>3. [staged[k] EXCEPT !.step = to] \in Entries /\ [staged[k] EXCEPT !.step = to].step = to
  BY <1>2 DEF Entries
<1>4. staged' = [staged EXCEPT ![k] = [staged[k] EXCEPT !.step = to]]
  BY DEF Stepping
<1>5. staged' \in [Keys -> Entries \cup {None}] /\ staged'[k] = [staged[k] EXCEPT !.step = to]
      /\ \A j \in Keys \ {k} : staged'[j] = staged[j]
  BY <1>1, <1>3, <1>4 DEF Types
<1>6. \A j \in Keys : cand[j] # None => staged[j] # None
  BY <1>1 DEF Stepping, Committing, Wanted, BuildOK
<1>7. None \notin Entries
  BY RegistryAssumption
<1>8. BuildOK'
  BY <1>1, <1>3, <1>5, <1>6, <1>7 DEF BuildOK, Stepping, Committing
<1> QED BY <1>1, <1>2, <1>3, <1>4, <1>5, <1>6, <1>8
   DEF Stepped, Stepping, StagedOK, Refenced, Committing

(* Parameters, breakers and servers change under the refreshers, no fence does. *)
LEMMA TuneStep ==
  ASSUME Owned, NEW k \in Keys, NEW from \in {"none", "stored", "retuned"},
         NEW to \in {"stored", "retuned", "done"}, Stepping(k, from, to),
         staged[k].replace => to # "done",
         NEW x \in Pool, pools' = [pools EXCEPT ![staged[k].pool] = x],
         x.key = pools[staged[k].pool].key, x.closed = pools[staged[k].pool].closed,
         x.epoch = pools[staged[k].pool].epoch, x.fence = pools[staged[k].pool].fence,
         x.seen = pools[staged[k].pool].seen, Unique(x.backends)
  PROVE  Owned'
<1>0. Stepped(k, from, to)
  BY Step1
<1>1. /\ Types /\ WorkersOK /\ BuildOK' /\ pools \in Seq(Pool)
      /\ \A j \in Keys : LiveOK(j) /\ StagedOK(j)
      /\ \A p \in DOMAIN pools : PoolOK(p)
  BY <1>0 DEF Stepped, Owned, Types
<1>2. /\ pools' \in Seq(Pool) /\ DOMAIN pools' = DOMAIN pools /\ pools'[staged[k].pool] = x
      /\ \A p \in DOMAIN pools : p # staged[k].pool => pools'[p] = pools[p]
  BY <1>0, <1>1, SeqSet DEF Stepped
<1>3. Types'
  BY <1>0, <1>1, <1>2 DEF Stepped, Types
<1>4. \A p \in DOMAIN pools : Steady(p) /\ (Serves(p) => Serves(p)')
  BY <1>0, <1>2 DEF Stepped, Steady, Serves
<1>5. \A p \in DOMAIN pools' : PoolOK(p)'
  BY <1>0, <1>1, <1>2 DEF Stepped, PoolOK, Unique
<1>6. WorkersOK'
  BY <1>0, <1>1, <1>2, <1>4, WorkersKept DEF Stepped
<1>7. \A j \in Keys : Refenced(j)' <=> Refenced(j)
  BY <1>0 DEF Stepped, Refenced, Entries
<1>8. ASSUME NEW j \in Keys PROVE LiveOK(j)'
  <2>1. LiveOK(j) /\ (live[j] # None => live[j].pool \in DOMAIN pools /\ ~live[j].disc)
    BY <1>0, <1>1 DEF Stepped, LiveOK
  <2> QED BY <1>0, <1>4, <1>7, <2>1, SteadyPool, LiveKept DEF Stepped
<1>9. ASSUME NEW j \in Keys \ {k} PROVE StagedOK(j)'
  <2>1. StagedOK(j) /\ (staged[j] # None => staged[j].pool \in DOMAIN pools)
    BY <1>1 DEF StagedOK
  <2> QED BY <1>0, <1>4, <2>1, SteadyPool, StagedKept DEF Stepped
<1>10. StagedOK(k)'
  <2>1. StagedOK(k) /\ ~Refenced(k)' /\ Steady(staged[k].pool)
    BY <1>0, <1>1, <1>4, <1>7 DEF Stepped
  <2>2. /\ staged'[k].pool = staged[k].pool /\ staged'[k].egress = staged[k].egress
        /\ staged'[k].shape = staged[k].shape /\ staged'[k].reused = staged[k].reused
        /\ staged'[k].replace = staged[k].replace /\ staged'[k].disc = staged[k].disc
    BY <1>0 DEF Stepped, Entries
  <2> QED BY <1>0, <2>1, <2>2 DEF Stepped, StagedOK, Steady, EgressGen
<1> QED BY <1>1, <1>3, <1>5, <1>6, <1>8, <1>9, <1>10 DEF Owned

LEMMA StoreLimitsStep ==
  ASSUME Owned, NEW k \in Keys, StoreLimits(k)
  PROVE  Owned'
<1>0. Stepping(k, "none", "stored") /\ Stepped(k, "none", "stored")
  BY Step1 DEF StoreLimits
<1>1. pools \in Seq(Pool) /\ staged[k].pool \in DOMAIN pools /\ cand[k].circuit \in Nat
  BY <1>0 DEF Owned, Types, Stepped, Upstream
<1>2. PICK pool \in Pool : pool = pools[staged[k].pool]
  BY <1>1, PoolFields
<1> DEFINE x == [pool EXCEPT !.circuit = cand[k].circuit]
<1>3. /\ x \in Pool /\ x.key = pool.key /\ x.closed = pool.closed /\ x.epoch = pool.epoch
      /\ x.fence = pool.fence /\ x.seen = pool.seen /\ x.backends = pool.backends
  BY <1>1 DEF Pool
<1>4. Unique(pool.backends)
  BY <1>1, <1>2 DEF Owned, PoolOK, Unique
<1>5. pools' = [pools EXCEPT ![staged[k].pool] = x]
  BY <1>2 DEF StoreLimits
<1> HIDE DEF x
<1> QED BY <1>0, <1>2, <1>3, <1>4, <1>5, TuneStep

LEMMA RetuneStep ==
  ASSUME Owned, NEW k \in Keys, RetuneBackends(k)
  PROVE  Owned'
<1>0. Stepping(k, "stored", "retuned") /\ Stepped(k, "stored", "retuned")
  BY Step1 DEF RetuneBackends
<1>1. pools \in Seq(Pool) /\ staged[k].pool \in DOMAIN pools
  BY <1>0 DEF Owned, Types, Stepped
<1>2. PICK pool \in Pool : pool = pools[staged[k].pool]
  BY <1>1, PoolFields
<1>3. Addrs(pool.backends) \in SUBSET Targets /\ pool.circuit \in Nat
  BY DEF Pool, Addrs, Backends
<1>4. /\ Built(Addrs(pool.backends), pool.circuit) \in SUBSET Backends
      /\ Unique(Built(Addrs(pool.backends), pool.circuit))
  BY <1>3, BuiltSet
<1> DEFINE x == Retuned(pool)
<1>5. /\ x \in Pool /\ x.key = pool.key /\ x.closed = pool.closed /\ x.epoch = pool.epoch
      /\ x.fence = pool.fence /\ x.seen = pool.seen
      /\ x.backends = Built(Addrs(pool.backends), pool.circuit)
  BY <1>4 DEF Pool, Retuned
<1>6. pools' = [pools EXCEPT ![staged[k].pool] = x]
  BY <1>2 DEF RetuneBackends
<1> HIDE DEF x
<1> QED BY <1>0, <1>2, <1>4, <1>5, <1>6, TuneStep

(* The result of the third step. *)
Result(pool, e, up) == [Seeded(pool, e, up) EXCEPT !.policy = up.policy]

LEMMA ResultPool ==
  ASSUME NEW pool \in Pool, Unique(pool.backends), NEW e \in Entries, NEW up \in Upstream
  PROVE  LET x == Result(pool, e, up) IN
         /\ x \in Pool /\ Unique(x.backends) /\ x.key = pool.key /\ x.closed = pool.closed
         /\ x.circuit = pool.circuit /\ x.policy = up.policy
         /\ ~e.replace => x.epoch = pool.epoch /\ x.fence = pool.fence /\ x.seen = pool.seen
         /\ e.replace => x.epoch = pool.epoch + 1 /\ x.fence = e.egress /\ x.seen = {}
         /\ \/ x.backends = pool.backends
            \/ e.replace /\ e.targets # {} /\ x.backends = Replaced(pool.backends, e.targets, pool.circuit)
            \/ ~Dynamic(pool.key) /\ x.backends = Replaced(pool.backends, up.servers, pool.circuit)
         /\ ~Dynamic(pool.key) /\ ~e.replace =>
               x.backends = Replaced(pool.backends, up.servers, pool.circuit)
<1> DEFINE x == Result(pool, e, up)
<1>1. /\ pool.backends \in SUBSET Backends /\ e.targets \in SUBSET Targets /\ up.servers \in SUBSET Targets
      /\ pool.circuit \in Nat /\ e.egress \in Nat /\ up.policy \in Nat
  BY DEF Pool, Entries, Upstream
<1>2. /\ Replaced(pool.backends, e.targets, pool.circuit) \in SUBSET Backends
      /\ Unique(Replaced(pool.backends, e.targets, pool.circuit))
      /\ Replaced(pool.backends, up.servers, pool.circuit) \in SUBSET Backends
      /\ Unique(Replaced(pool.backends, up.servers, pool.circuit))
  BY <1>1, ReplacedSet
<1>3. CASE ~e.replace /\ ~Dynamic(pool.key)
  <2>1. Seeded(pool, e, up) = [pool EXCEPT !.backends = Replaced(pool.backends, up.servers, pool.circuit)]
    BY <1>3 DEF Seeded
  <2> QED BY <1>1, <1>2, <1>3, <2>1 DEF Result, Pool
<1>4. CASE ~e.replace /\ Dynamic(pool.key)
  <2>1. Seeded(pool, e, up) = pool
    BY <1>4 DEF Seeded
  <2> QED BY <1>1, <1>4, <2>1 DEF Result, Pool
<1>5. CASE e.replace /\ e.targets = {}
  <2>1. Seeded(pool, e, up) = Fence(pool, e.egress)
    BY <1>5 DEF Seeded
  <2> QED BY <1>1, <1>5, <2>1, FencedPool DEF Result, Pool
<1>6. CASE e.replace /\ e.targets # {}
  <2>0. /\ Fence(pool, e.egress) \in Pool /\ Fence(pool, e.egress).backends = pool.backends
        /\ Fence(pool, e.egress).key = pool.key /\ Fence(pool, e.egress).closed = pool.closed
        /\ Fence(pool, e.egress).circuit = pool.circuit
        /\ Fence(pool, e.egress).epoch = pool.epoch + 1
        /\ Fence(pool, e.egress).fence = e.egress /\ Fence(pool, e.egress).seen = {}
    BY <1>1, FencedPool
  <2>1. PICK f \in Pool : /\ f = Fence(pool, e.egress) /\ f.backends = pool.backends
                          /\ f.key = pool.key /\ f.closed = pool.closed /\ f.circuit = pool.circuit
                          /\ f.epoch = pool.epoch + 1 /\ f.fence = e.egress /\ f.seen = {}
    BY <2>0
  <2>2. Seeded(pool, e, up) = [f EXCEPT !.backends = Replaced(pool.backends, e.targets, pool.circuit)]
    BY <1>6, <2>1 DEF Seeded
  <2> QED BY <1>1, <1>2, <1>6, <2>1, <2>2 DEF Result, Pool
<1> QED BY <1>3, <1>4, <1>5, <1>6

(* The third step either moves no fence, or fences the refreshers of the    *)
(* egress generation that is left behind.                                  *)
LEMMA SeedStep ==
  ASSUME Owned, NEW k \in Keys, SeedBackends(k)
  PROVE  Owned'
<1>0. Stepping(k, "retuned", "done") /\ Stepped(k, "retuned", "done")
  BY Step1 DEF SeedBackends
<1>1. /\ Types /\ WorkersOK /\ BuildOK' /\ pools \in Seq(Pool) /\ staged[k].pool \in DOMAIN pools
      /\ \A j \in Keys : LiveOK(j) /\ StagedOK(j)
      /\ \A p \in DOMAIN pools : PoolOK(p)
      /\ staged[k] \in Entries /\ cand[k] \in Upstream
  BY <1>0 DEF Owned, Types, Stepped
<1>2. PICK pool \in Pool : pool = pools[staged[k].pool] /\ Unique(pool.backends)
  BY <1>1, PoolFields DEF PoolOK, Unique
<1>3. PICK x : x = Result(pool, staged[k], cand[k])
  OBVIOUS
<1>4. /\ x \in Pool /\ Unique(x.backends) /\ x.key = pool.key /\ x.closed = pool.closed
      /\ ~staged[k].replace => x.epoch = pool.epoch /\ x.fence = pool.fence /\ x.seen = pool.seen
      /\ staged[k].replace => x.epoch = pool.epoch + 1 /\ x.fence = staged[k].egress /\ x.seen = {}
  BY <1>1, <1>2, <1>3, ResultPool
<1>5. pools' = [pools EXCEPT ![staged[k].pool] = x]
  BY <1>2, <1>3 DEF SeedBackends, Result
<1>6. CASE ~staged[k].replace
  BY <1>0, <1>2, <1>4, <1>5, <1>6, TuneStep
<1>7. CASE staged[k].replace
  <2>1. PICK p \in DOMAIN pools : p = staged[k].pool
    BY <1>1
  <2>2. /\ pools' \in Seq(Pool) /\ DOMAIN pools' = DOMAIN pools /\ pools'[p] = x
        /\ \A q \in DOMAIN pools : q # p => pools'[q] = pools[q]
    BY <1>1, <1>4, <1>5, <2>1, SeqSet
  <2>3. Types'
    BY <1>0, <1>1, <2>2 DEF Types, Stepped
  <2>4. pool.epoch \in Nat /\ x.epoch \in Nat
    BY <1>4 DEF Pool
  <2>5. Bumped(p) /\ ~Locked(p)
    <3>1. ~Locked(p)
      BY <1>7, <2>1 DEF SeedBackends
    <3>2. pools[p].epoch < pools'[p].epoch /\ pools'[p].key = pools[p].key
      BY <1>2, <1>4, <1>7, <2>1, <2>2, <2>4
    <3> QED BY <2>2, <3>1, <3>2 DEF Bumped
  <2>6. \A q \in DOMAIN pools \ {p} : Steady(q) /\ (Serves(q) => Serves(q)')
    BY <1>0, <2>2 DEF Steady, Serves, Stepped
  <2>7. WorkersOK'
    BY <1>0, <1>1, <2>2, <2>5, <2>6, WorkersKept DEF Stepped
  <2>8. \A q \in DOMAIN pools' : PoolOK(q)'
    BY <1>1, <1>4, <1>7, <2>2 DEF PoolOK, Unique
  <2>9. NoCurrent(p)'
    BY <1>0, <1>1, <2>2, <2>4, <2>5, BumpedPool DEF Stepped
  <2>10. /\ staged'[k].pool = p /\ staged'[k].egress = staged[k].egress
         /\ staged'[k].shape = staged[k].shape /\ staged'[k].reused = staged[k].reused
         /\ staged'[k].replace = staged[k].replace /\ staged'[k].disc = staged[k].disc
         /\ staged'[k].step = "done" /\ staged'[k] # None
    BY <1>0, <2>1, RegistryAssumption DEF Stepped, Entries
  <2>11. StagedOK(k)'
    BY <1>0, <1>1, <1>2, <1>4, <1>7, <2>1, <2>2, <2>9, <2>10 DEF StagedOK, Stepped, EgressGen
  <2>12. LiveOK(k)'
    <3>1. Refenced(k)'
      BY <1>7, <2>10 DEF Refenced
    <3>2. live[k] # None => live[k].pool = p /\ ~live[k].disc
      BY <1>0, <1>1, <2>1 DEF StagedOK, LiveOK, Stepped
    <3> QED BY <1>0, <1>1, <1>2, <1>4, <2>1, <2>2, <3>1, <3>2 DEF LiveOK, Stepped
  <2>13. ASSUME NEW j \in Keys \ {k} PROVE LiveOK(j)' /\ StagedOK(j)'
    <3>1. LiveOK(j) /\ StagedOK(j) /\ pools[p].key = k /\ (Refenced(j)' <=> Refenced(j))
      BY <1>0, <1>1, <2>1 DEF Stepped, Refenced
    <3>2. live[j] # None => live[j].pool \in DOMAIN pools \ {p} /\ ~live[j].disc
      BY <1>0, <3>1 DEF LiveOK, Stepped
    <3>3. staged[j] # None => staged[j].pool \in DOMAIN pools \ {p}
      BY <3>1 DEF StagedOK
    <3>4. LiveOK(j)'
      BY <1>0, <2>6, <3>1, <3>2, SteadyPool, LiveKept DEF Stepped
    <3>5. StagedOK(j)'
      BY <1>0, <2>6, <3>1, <3>3, SteadyPool, StagedKept DEF Stepped
    <3> QED BY <3>4, <3>5
  <2> QED BY <1>1, <2>3, <2>7, <2>8, <2>11, <2>12, <2>13 DEF Owned
<1> QED BY <1>6, <1>7

(* Closing pools fences all their refreshers. *)
LEMMA ClosedPools ==
  ASSUME pools \in Seq(Pool), \A p \in DOMAIN pools : PoolOK(p), NEW C,
         pools' = [p \in DOMAIN pools |-> IF p \in C THEN Closed(pools[p]) ELSE pools[p]]
  PROVE  /\ pools' \in Seq(Pool) /\ DOMAIN pools' = DOMAIN pools
         /\ \A p \in DOMAIN pools' : PoolOK(p)'
         /\ \A p \in DOMAIN pools : /\ p \in C => Bumped(p)
                                    /\ p \notin C => Steady(p) /\ pools'[p] = pools[p]
<1>1. \A p \in DOMAIN pools : /\ pools[p] \in Pool /\ pools[p].epoch \in Nat /\ Closed(pools[p]) \in Pool
                              /\ Closed(pools[p]).key = pools[p].key
                              /\ Closed(pools[p]).epoch = pools[p].epoch + 1
                              /\ Closed(pools[p]).seen = {}
                              /\ Closed(pools[p]).backends = pools[p].backends
  BY PoolFields, FencedPool
<1>2. pools' \in Seq(Pool) /\ DOMAIN pools' = DOMAIN pools
  <2>1. pools' \in [DOMAIN pools -> Pool]
    BY <1>1
  <2> QED BY <2>1, SeqMap
<1>3. \A p \in DOMAIN pools' : PoolOK(p)'
  BY <1>1, <1>2 DEF PoolOK
<1> QED BY <1>1, <1>2, <1>3 DEF Steady, Bumped

(* The swap of the registry's map. *)
LEMMA SwapStep ==
  ASSUME Owned, CommitSwap
  PROVE  Owned'
<1>1. /\ Types /\ BuildOK /\ WorkersOK /\ pools \in Seq(Pool)
      /\ \A j \in Keys : LiveOK(j) /\ StagedOK(j)
      /\ \A p \in DOMAIN pools : PoolOK(p)
  BY DEF Owned, Types
<1>2. /\ build \in {"staging", "committing"} /\ live' = staged /\ egress' = stagedEgress
      /\ \A j \in Keys : staged'[j] = None /\ cand'[j] = None
      /\ \A j \in Keys : cand[j] # None /\ staged[j].reused => staged[j].step = "done"
      /\ \A j \in Keys : cand[j] # None => staged[j] # None
      /\ serving' = cand /\ stagedEgress' = NoEgress /\ UNCHANGED <<workers, builds, open>>
      /\ build' = IF ToActivate(staged) = {} THEN "idle" ELSE "committed"
  BY <1>1 DEF CommitSwap, Committing, Forgotten, Wanted, BuildOK
<1>3. PICK C : C = Dropped
  OBVIOUS
<1>4. /\ pools' \in Seq(Pool) /\ DOMAIN pools' = DOMAIN pools
      /\ \A p \in DOMAIN pools' : PoolOK(p)'
      /\ \A p \in DOMAIN pools : /\ p \in C => Bumped(p)
                                 /\ p \notin C => Steady(p) /\ pools'[p] = pools[p]
  <2>1. pools' = [p \in DOMAIN pools |-> IF p \in C THEN Closed(pools[p]) ELSE pools[p]]
    BY <1>3 DEF CommitSwap
  <2> QED BY <1>1, <2>1, ClosedPools
<1>5. ASSUME NEW k \in Keys, staged[k] # None PROVE staged[k].pool \notin C
  BY <1>3, <1>5 DEF Dropped, Kept
<1>6. ASSUME NEW p \in DOMAIN pools, Serves(p), p \notin C PROVE Serves(p)'
  <2>1. pools[p].key \in Keys /\ live[pools[p].key] # None /\ live[pools[p].key].pool = p
    BY <1>1, <1>6, PoolFields DEF Serves
  <2>2. p \in Kept
    BY <1>3, <1>6, <2>1 DEF Dropped
  <2>3. PICK j \in Keys : staged[j] # None /\ staged[j].pool = p
    BY <2>2 DEF Kept
  <2>4. pools[p].key = j
    BY <1>1, <2>3 DEF StagedOK
  <2> QED BY <1>2, <1>4, <1>6, <2>3, <2>4 DEF Serves
<1>7. WorkersOK'
  <2>1. \A p \in DOMAIN pools : p \in C => ~Locked(p)
    BY <1>3 DEF CommitSwap
  <2> QED BY <1>1, <1>2, <1>4, <1>6, <2>1, WorkersKept
<1>8. Types'
  <2>1. ASSUME NEW k \in Keys PROVE view'[k] \in SUBSET Targets
    <3>1. view'[k] = Captured(k, staged[k], IF staged[k] = None THEN None ELSE pools[staged[k].pool])
      BY DEF CommitSwap
    <3>2. CASE staged[k] = None \/ Dynamic(k)
      BY <3>1, <3>2 DEF Captured
    <3>3. CASE staged[k] # None /\ ~Dynamic(k)
      <4>1. staged[k].pool \in DOMAIN pools
        BY <1>1, <3>3 DEF StagedOK
      <4>2. pools[staged[k].pool].backends \in SUBSET Backends
        BY <1>1, <4>1, PoolFields
      <4> QED BY <3>1, <3>3, <4>2 DEF Captured, Addrs, Backends
    <3> QED BY <3>2, <3>3
  <2>2. view' \in [Keys -> SUBSET Targets]
    BY <2>1 DEF CommitSwap
  <2>3. staged' \in [Keys -> Entries \cup {None}] /\ cand' \in [Keys -> Upstream \cup {None}]
    BY DEF CommitSwap, Forgotten
  <2>4. stagedEgress' \in Generations
    BY <1>2 DEF NoEgress, Generations
  <2> QED BY <1>1, <1>2, <1>4, <2>2, <2>3, <2>4 DEF Types
<1>9. BuildOK'
  BY <1>1, <1>2 DEF BuildOK
<1>10. \A j \in Keys : StagedOK(j)'
  BY <1>2 DEF StagedOK
<1>11. ASSUME NEW k \in Keys, staged[k] # None PROVE LiveOK(k)'
  <2>1. PICK p \in DOMAIN pools : p = staged[k].pool
    BY <1>1, <1>11 DEF StagedOK
  <2>2. /\ Steady(p) /\ pools'[p] = pools[p] /\ (NoCurrent(p) => NoCurrent(p)')
        /\ HasCurrent(p) => HasCurrent(p)'
    BY <1>2, <1>4, <1>5, <1>11, <2>1, SteadyPool
  <2>3. /\ staged[k].egress = IF Kind[k] = "egress" THEN egress'.id ELSE 0
        /\ pools[p].key = k /\ ~pools[p].closed /\ cand[k] # None
    BY <1>1, <1>2, <1>11, <2>1 DEF StagedOK, EgressGen
  <2>4. staged[k].disc => build' = "committed" /\ Dynamic(k) /\ NoCurrent(p)
    <3>1. staged[k].disc => k \in ToActivate(staged)
      BY <1>11 DEF ToActivate
    <3>2. staged[k].disc => ~staged[k].reused \/ Refenced(k)
      BY <1>1, <1>2, <1>11, <2>3 DEF StagedOK, Refenced
    <3> QED BY <1>1, <1>2, <1>11, <2>1, <3>1, <3>2 DEF StagedOK
  <2>5. pools[p].fence = staged[k].egress
    <3>1. CASE ~staged[k].reused \/ Refenced(k)
      BY <1>1, <1>11, <2>1, <3>1 DEF StagedOK
    <3>2. CASE staged[k].reused /\ ~Refenced(k)
      <4>1. ~staged[k].replace /\ live[k] # None /\ live[k].pool = p /\ staged[k].egress = live[k].egress
        BY <1>1, <1>2, <1>11, <2>1, <2>3, <3>2 DEF StagedOK, Refenced
      <4> QED BY <1>1, <3>2, <4>1 DEF LiveOK
    <3> QED BY <3>1, <3>2
  <2>6. Dynamic(k) /\ ~staged[k].disc => HasCurrent(p)
    <3> SUFFICES ASSUME Dynamic(k), ~staged[k].disc PROVE HasCurrent(p)
      OBVIOUS
    <3>1. staged[k].reused /\ ~staged[k].replace /\ live[k] # None /\ live[k].pool = p /\ ~Refenced(k)
      BY <1>1, <1>11, <2>1 DEF StagedOK, Refenced
    <3>2. ~live[k].disc
      BY <1>1, <1>2, <3>1 DEF LiveOK
    <3> QED BY <1>1, <3>1, <3>2 DEF LiveOK
  <2>7. ~Refenced(k)'
    BY <1>2 DEF Refenced
  <2> QED BY <1>2, <1>4, <2>1, <2>2, <2>3, <2>4, <2>5, <2>6, <2>7 DEF LiveOK
<1>12. \A k \in Keys : LiveOK(k)'
  BY <1>2, <1>11 DEF LiveOK
<1> QED BY <1>4, <1>7, <1>8, <1>9, <1>10, <1>12 DEF Owned

LEMMA CloseAllStep ==
  ASSUME Owned, CloseAll
  PROVE  Owned'
<1>1. /\ Types /\ BuildOK /\ WorkersOK /\ pools \in Seq(Pool)
      /\ \A j \in Keys : LiveOK(j) /\ StagedOK(j)
      /\ \A p \in DOMAIN pools : PoolOK(p)
  BY DEF Owned, Types
<1>2. PICK C : C = {live[k].pool : k \in {j \in Keys : live[j] # None}}
  OBVIOUS
<1>3. /\ pools' \in Seq(Pool) /\ DOMAIN pools' = DOMAIN pools
      /\ \A p \in DOMAIN pools' : PoolOK(p)'
      /\ \A p \in DOMAIN pools : /\ p \in C => Bumped(p)
                                 /\ p \notin C => Steady(p) /\ pools'[p] = pools[p]
  <2>1. pools' = [p \in DOMAIN pools |-> IF p \in C THEN Closed(pools[p]) ELSE pools[p]]
    BY <1>2 DEF CloseAll
  <2> QED BY <1>1, <2>1, ClosedPools
<1>4. /\ \A j \in Keys : live'[j] = None /\ staged[j] = None /\ build' = "stopped"
      /\ UNCHANGED <<staged, workers, cand, stagedEgress, egress, builds, view, open>>
  BY NobodyStaged DEF CloseAll
<1>5. WorkersOK'
  <2>1. \A p \in DOMAIN pools : p \in C => ~Locked(p)
    BY <1>2 DEF CloseAll
  <2>2. \A p \in DOMAIN pools : p \notin C => ~Serves(p)
    BY <1>1, <1>2, PoolFields DEF Serves
  <2> QED BY <1>1, <1>3, <1>4, <2>1, <2>2, WorkersKept
<1>6. Types'
  BY <1>1, <1>3, <1>4 DEF Types, CloseAll
<1>7. BuildOK' /\ \A j \in Keys : LiveOK(j)' /\ StagedOK(j)'
  BY <1>1, <1>4 DEF BuildOK, LiveOK, StagedOK, CloseAll
<1> QED BY <1>3, <1>5, <1>6, <1>7 DEF Owned

(* A new refresher starts where every older one has been fenced. *)
LEMMA ActivateStep ==
  ASSUME Owned, NEW k \in Keys, Activate(k)
  PROVE  Owned'
<1>1. /\ Types /\ BuildOK /\ WorkersOK /\ pools \in Seq(Pool) /\ workers \in Seq(Refreshers)
      /\ \A j \in Keys : LiveOK(j) /\ StagedOK(j)
      /\ \A p \in DOMAIN pools : PoolOK(p)
  BY DEF Owned, Types
<1>2. /\ live[k] # None /\ live[k].disc /\ build = "committed" /\ live[k] \in Entries
      /\ UNCHANGED <<staged, cand, stagedEgress, egress, builds, serving, view, open>>
      /\ \A j \in Keys : staged[j] = None
      /\ build' = IF ToActivate(live) = {k} THEN "idle" ELSE "committed"
  BY <1>1, NobodyStaged DEF Activate, ToActivate, Types
<1>3. PICK p \in DOMAIN pools : p = live[k].pool /\ pools[p] \in Pool
  BY <1>1, <1>2, PoolFields DEF LiveOK
<1>4. /\ pools[p].key = k /\ ~pools[p].closed /\ Dynamic(k) /\ NoCurrent(p)
      /\ pools[p].fence = live[k].egress /\ pools[p].epoch \in Nat /\ p \in Nat /\ p # 0
  BY <1>1, <1>2, <1>3, PoolFields DEF LiveOK, Refenced
<1>5. PICK x \in Pool : /\ x = [pools[p] EXCEPT !.epoch = pools[p].epoch + 1]
                        /\ x.epoch = pools[p].epoch + 1 /\ x.key = k /\ ~x.closed
                        /\ x.fence = pools[p].fence /\ x.backends = pools[p].backends
                        /\ x.seen = pools[p].seen
  <2> DEFINE y == [pools[p] EXCEPT !.epoch = pools[p].epoch + 1]
  <2>1. /\ y \in Pool /\ y.epoch = pools[p].epoch + 1 /\ y.key = pools[p].key
        /\ y.closed = pools[p].closed /\ y.fence = pools[p].fence
        /\ y.backends = pools[p].backends /\ y.seen = pools[p].seen
    BY <1>3, <1>4 DEF Pool
  <2> QED BY <1>4, <2>1
<1>6. /\ pools' \in Seq(Pool) /\ DOMAIN pools' = DOMAIN pools /\ pools'[p] = x
      /\ \A q \in DOMAIN pools : q # p => pools'[q] = pools[q]
  <2>1. pools' = [pools EXCEPT ![p] = x]
    BY <1>3, <1>5 DEF Activate
  <2> QED BY <1>1, <2>1, SeqSet
<1>7. PICK v \in Refreshers : /\ v = Worker(k, p) /\ v.pool = p /\ v.epoch = pools[p].epoch + 1
                              /\ v.egress = live[k].egress /\ v.at = "ready"
  <2>1. live[k].egress \in Nat
    BY <1>2 DEF Entries
  <2>2. /\ Worker(k, p) \in Refreshers /\ Worker(k, p).pool = p
        /\ Worker(k, p).epoch = pools[p].epoch + 1
        /\ Worker(k, p).egress = live[k].egress /\ Worker(k, p).at = "ready"
    BY <1>4, <2>1 DEF Worker, Refreshers
  <2> QED BY <2>2
<1>8. PICK nw \in Nat : nw = Len(workers) + 1
  BY <1>1
<1>9. /\ workers' \in Seq(Refreshers) /\ DOMAIN workers' = DOMAIN workers \cup {nw}
      /\ nw \notin DOMAIN workers /\ workers'[nw] = v
      /\ \A w \in DOMAIN workers : workers'[w] = workers[w]
  <2>1. workers' = Append(workers, v)
    BY <1>3, <1>7 DEF Activate
  <2> QED BY <1>1, <1>8, <2>1, SeqAppend
<1>10. PICK e \in Entries : /\ e = [live[k] EXCEPT !.disc = FALSE, !.replace = FALSE, !.targets = {}]
                            /\ e.pool = p /\ e.egress = live[k].egress /\ ~e.disc
  <2> DEFINE y == [live[k] EXCEPT !.disc = FALSE, !.replace = FALSE, !.targets = {}]
  <2>1. y \in Entries /\ y.pool = live[k].pool /\ y.egress = live[k].egress /\ ~y.disc
    BY <1>2 DEF Entries
  <2> QED BY <1>3, <2>1
<1>11. /\ live' \in [Keys -> Entries \cup {None}] /\ live'[k] = e
       /\ \A j \in Keys \ {k} : live'[j] = live[j]
  BY <1>1, <1>10 DEF Types, Activate
<1>12. Types'
  BY <1>1, <1>2, <1>6, <1>9, <1>11 DEF Types
<1>13. None \notin Entries
  BY RegistryAssumption
<1>14. \A q \in DOMAIN pools : pools'[q].key = pools[q].key /\ (Serves(q) <=> Serves(q)')
  <2>1. \A q \in DOMAIN pools : pools'[q].key = pools[q].key /\ pools[q].key \in Keys
    BY <1>1, <1>4, <1>5, <1>6, PoolFields
  <2>2. live'[k] # None /\ live'[k].pool = live[k].pool
    BY <1>3, <1>10, <1>11, <1>13
  <2> QED BY <1>2, <1>11, <2>1, <2>2 DEF Serves
<1>15. ASSUME NEW w \in DOMAIN workers
       PROVE  /\ WorkerOK(w)' /\ (Alive(w)' <=> Alive(w))
              /\ (Alive(w) /\ Currently(w))' => Currently(w) /\ workers[w].pool # p
  <2>1. WorkerOK(w) /\ (Alive(w)' <=> Alive(w)) /\ workers'[w] = workers[w] /\ workers[w].epoch \in Nat
    BY <1>1, <1>9, WorkerFields DEF WorkersOK, Alive
  <2>2. CASE ~Alive(w)
    BY <2>1, <2>2 DEF WorkerOK
  <2>3. CASE Alive(w) /\ workers[w].pool = p
    <3>1. workers[w].epoch < pools[p].epoch /\ workers[w].at # "locked"
      BY <1>4, <2>1, <2>3 DEF NoCurrent, WorkerOK, Currently
    <3>2. workers[w].epoch < x.epoch
      BY <1>4, <1>5, <2>1, <3>1
    <3>2a. workers'[w].pool = p /\ pools'[workers'[w].pool] = x /\ workers'[w].epoch = workers[w].epoch
      BY <1>6, <2>1, <2>3
    <3>2b. x.epoch \in Nat
      BY <1>4, <1>5
    <3>3. ~Currently(w)' /\ workers[w].epoch <= x.epoch
      BY <2>1, <3>2, <3>2a, <3>2b DEF Currently
    <3>4. /\ workers'[w].pool \in DOMAIN pools' /\ workers'[w].epoch <= pools'[workers'[w].pool].epoch
          /\ Dynamic(pools'[workers'[w].pool].key)
      BY <1>4, <1>5, <1>6, <3>2a, <3>3
    <3>5. workers[w].at \in {"resolved", "locked"} => workers[w].targets # {}
      BY <2>1, <2>3 DEF WorkerOK
    <3> QED BY <2>1, <2>3, <3>1, <3>3, <3>4, <3>5 DEF WorkerOK, Dynamic
  <2>4. CASE Alive(w) /\ workers[w].pool # p
    BY <1>6, <1>14, <2>1, <2>4 DEF WorkerOK, Currently
  <2> QED BY <2>1, <2>2, <2>3, <2>4
<1>16. WorkerOK(nw)' /\ Alive(nw)' /\ Currently(nw)'
  <2>1. Serves(p)'
    BY <1>2, <1>3, <1>4, <1>14 DEF Serves
  <2>2. Alive(nw)' /\ Currently(nw)' /\ workers'[nw].pool = p
    BY <1>5, <1>6, <1>7, <1>9 DEF Alive, Currently
  <2>3. pools'[p].epoch \in Nat /\ workers'[nw].epoch = pools'[p].epoch
    BY <1>4, <1>5, <1>6, <1>7, <1>9
  <2>4. /\ p \in DOMAIN pools' /\ workers'[nw].epoch <= pools'[p].epoch /\ Dynamic(pools'[p].key)
        /\ ~pools'[p].closed /\ workers'[nw].egress = pools'[p].fence /\ workers'[nw].at = "ready"
    BY <1>4, <1>5, <1>6, <1>7, <1>9, <2>3
  <2> QED BY <2>1, <2>2, <2>4 DEF WorkerOK, Dynamic, Serves
<1>17. WorkersOK'
  <2>1. ASSUME NEW a \in DOMAIN workers', NEW b \in DOMAIN workers',
               (Alive(a) /\ Alive(b) /\ workers[a].pool = workers[b].pool /\ Currently(a) /\ Currently(b))'
        PROVE  a = b
    <3>1. CASE a \in DOMAIN workers /\ b \in DOMAIN workers
      BY <1>1, <1>9, <1>15, <2>1, <3>1 DEF WorkersOK
    <3>2. CASE a = nw \/ b = nw
      <4>1. \A w \in DOMAIN workers : (Alive(w) /\ Currently(w))' => workers'[w].pool # p
        BY <1>9, <1>15
      <4> QED BY <1>7, <1>9, <2>1, <3>2, <4>1
    <3> QED BY <1>9, <3>1, <3>2
  <2> QED BY <1>9, <1>15, <1>16, <2>1 DEF WorkersOK
<1>18. \A q \in DOMAIN pools' : PoolOK(q)'
  BY ZenonT(60), <1>1, <1>4, <1>5, <1>6 DEF PoolOK
<1>19. LiveOK(k)'
  <2>1. HasCurrent(p)'
    BY <1>7, <1>9, <1>16 DEF HasCurrent
  <2>2. live[k].egress = IF Kind[k] = "egress" THEN egress.id ELSE 0
    BY <1>1, <1>2 DEF LiveOK
  <2> QED BY ZenonT(60), <1>2, <1>4, <1>5, <1>6, <1>10, <1>11, <2>1, <2>2 DEF LiveOK
<1>20. ASSUME NEW j \in Keys \ {k} PROVE LiveOK(j)'
  <2>1. LiveOK(j) /\ live'[j] = live[j] /\ ~Refenced(j) /\ ~Refenced(j)'
    BY <1>1, <1>2, <1>11 DEF Refenced
  <2>2. CASE live[j] # None
    <3>1. PICK q \in DOMAIN pools : q = live[j].pool /\ q # p
      BY <1>4, <2>1, <2>2 DEF LiveOK
    <3>2. Steady(q)
      BY <1>6, <3>1 DEF Steady
    <3>3. NoCurrent(q) => NoCurrent(q)'
      BY <1>6, <1>7, <1>9, <3>1 DEF NoCurrent
    <3>4. HasCurrent(q) => HasCurrent(q)'
      BY <1>6, <1>9, <3>1 DEF HasCurrent, Alive, Currently
    <3>5. live[j].disc => build' = build
      BY <1>2, <2>2 DEF ToActivate
    <3> QED BY <1>2, <2>1, <3>1, <3>2, <3>3, <3>4, <3>5, LiveKept
  <2> QED BY <2>1, <2>2 DEF LiveOK
<1>21. BuildOK' /\ \A j \in Keys : StagedOK(j)'
  BY <1>1, <1>2 DEF BuildOK, StagedOK
<1> QED BY <1>12, <1>17, <1>18, <1>19, <1>20, <1>21 DEF Owned

-----------------------------------------------------------------------------
(* The refreshers.                                                         *)
LEMMA WorkerMoves ==
  ASSUME Types, WorkersOK, NEW w \in DOMAIN workers, Alive(w), NEW v \in Refreshers,
         workers' = [workers EXCEPT ![w] = v], live' = live,
         DOMAIN pools' = DOMAIN pools, \A p \in DOMAIN pools : Steady(p),
         \/ v = Gone /\ ~Currently(w)
         \/ /\ v.pool = workers[w].pool /\ v.epoch = workers[w].epoch /\ v.egress = workers[w].egress
            /\ v.at # "gone" /\ (v.at = "locked" => Currently(w))
            /\ v.at \in {"resolved", "locked"} => v.targets # {}
  PROVE  /\ workers' \in Seq(Refreshers) /\ WorkersOK'
         /\ \A p \in DOMAIN pools : (NoCurrent(p) => NoCurrent(p)') /\ (HasCurrent(p) => HasCurrent(p)')
<1>1. /\ workers' \in Seq(Refreshers) /\ DOMAIN workers' = DOMAIN workers /\ workers'[w] = v
      /\ \A j \in DOMAIN workers : j # w => workers'[j] = workers[j]
  BY SeqSet DEF Types
<1>2. \A p \in DOMAIN pools : p # 0 /\ (Serves(p) => Serves(p)')
  BY PoolFields DEF Types, Serves, Steady
<1>3. v = Gone => v.pool = 0 /\ v.at = "gone"
  BY DEF Gone
<1>4. ASSUME NEW j \in DOMAIN workers
      PROVE  /\ WorkerOK(j)'
             /\ Alive(j)' => Alive(j) /\ workers'[j].pool = workers[j].pool /\ (Currently(j)' <=> Currently(j))
             /\ Alive(j) /\ Currently(j) => Alive(j)'
  <2>1. WorkerOK(j) /\ WorkerOK(w)
    BY DEF WorkersOK
  <2>2. CASE j # w
    BY <1>1, <1>2, <2>1, <2>2 DEF WorkerOK, Alive, Currently, Steady
  <2>3. CASE j = w /\ v = Gone
    BY <1>1, <1>3, <2>3 DEF WorkerOK, Alive
  <2>4. CASE j = w /\ v # Gone
    BY <1>1, <1>2, <2>1, <2>4 DEF WorkerOK, Alive, Currently, Steady
  <2> QED BY <2>2, <2>3, <2>4
<1>5. WorkersOK'
  BY <1>1, <1>4 DEF WorkersOK
<1>6. ASSUME NEW p \in DOMAIN pools, NoCurrent(p) PROVE NoCurrent(p)'
  BY <1>1, <1>2, <1>3, <1>6 DEF NoCurrent, Steady
<1>7. ASSUME NEW p \in DOMAIN pools, HasCurrent(p) PROVE HasCurrent(p)'
  BY <1>1, <1>4, <1>7 DEF HasCurrent
<1> QED BY <1>1, <1>5, <1>6, <1>7

LEMMA RefresherKeeps ==
  ASSUME Owned, NEW w \in DOMAIN workers, Alive(w), NEW v \in Refreshers,
         workers' = [workers EXCEPT ![w] = v],
         UNCHANGED <<live, staged, build, cand, stagedEgress, egress, builds, serving, view>>,
         open' \in Int, pools' \in Seq(Pool),
         DOMAIN pools' = DOMAIN pools, \A p \in DOMAIN pools : Steady(p) /\ PoolOK(p)',
         \/ v = Gone /\ ~Currently(w)
         \/ /\ v.pool = workers[w].pool /\ v.epoch = workers[w].epoch /\ v.egress = workers[w].egress
            /\ v.at # "gone" /\ (v.at = "locked" => Currently(w))
            /\ v.at \in {"resolved", "locked"} => v.targets # {}
  PROVE  Owned'
<1>1. Types /\ BuildOK /\ WorkersOK /\ \A j \in Keys : LiveOK(j) /\ StagedOK(j)
  BY DEF Owned
<1>2. /\ workers' \in Seq(Refreshers) /\ WorkersOK'
      /\ \A p \in DOMAIN pools : (NoCurrent(p) => NoCurrent(p)') /\ (HasCurrent(p) => HasCurrent(p)')
  BY <1>1, WorkerMoves
<1>3. Types' /\ BuildOK'
  BY <1>1, <1>2 DEF Types, BuildOK
<1>4. ASSUME NEW j \in Keys PROVE LiveOK(j)' /\ StagedOK(j)'
  <2>1. LiveOK(j) /\ StagedOK(j) /\ (Refenced(j)' <=> Refenced(j))
    BY <1>1 DEF Refenced
  <2>2. live[j] # None => live[j].pool \in DOMAIN pools
    BY <2>1 DEF LiveOK
  <2>3. staged[j] # None => staged[j].pool \in DOMAIN pools
    BY <2>1 DEF StagedOK
  <2>4. LiveOK(j)'
    BY <1>2, <2>1, <2>2, LiveKept
  <2>5. StagedOK(j)'
    BY <1>2, <2>1, <2>3, StagedKept
  <2> QED BY <2>4, <2>5
<1> QED BY <1>2, <1>3, <1>4 DEF Owned

LEMMA ResolveStep ==
  ASSUME Owned, NEW w \in DOMAIN workers, Resolve(w)
  PROVE  Owned'
<1>1. /\ Types /\ workers \in Seq(Refreshers) /\ workers[w] \in Refreshers /\ Alive(w)
      /\ pools \in Seq(Pool)
  BY WorkerFields DEF Owned, Types, Resolve, Alive
<1>2. PICK ts \in SUBSET Targets :
        workers' = [workers EXCEPT ![w] =
              [workers[w] EXCEPT !.runs = @ + 1,
                                 !.at = IF ts # {} /\ workers[w].epoch = Own(w).epoch
                                        THEN "resolved" ELSE "ready",
                                 !.targets = IF workers[w].epoch = Own(w).epoch THEN ts ELSE {}]]
  BY RegistryAssumption DEF Resolve
<1> DEFINE at == IF ts # {} /\ workers[w].epoch = Own(w).epoch
                 THEN "resolved" ELSE "ready"
           targets == IF workers[w].epoch = Own(w).epoch THEN ts ELSE {}
           v == [workers[w] EXCEPT !.runs = @ + 1, !.at = at, !.targets = targets]
<1>3. workers' = [workers EXCEPT ![w] = v]
  BY <1>1, <1>2
<1>4. at \in {"ready", "resolved"} /\ targets \in SUBSET Targets /\ (at = "resolved" => targets # {})
  OBVIOUS
<1> HIDE DEF at, targets
<1>5. /\ v \in Refreshers /\ v.pool = workers[w].pool /\ v.epoch = workers[w].epoch
      /\ v.egress = workers[w].egress /\ v.at = at /\ v.targets = targets
  <2>0. workers[w].runs \in Nat
    BY <1>1 DEF Refreshers
  <2>1. workers[w].runs + 1 \in Nat /\ at \in {"ready", "resolved", "locked", "gone"}
    BY <1>4, <2>0
  <2>2. v = [workers[w] EXCEPT !.runs = workers[w].runs + 1, !.at = at, !.targets = targets]
    OBVIOUS
  <2> HIDE DEF v
  <2> QED BY <1>1, <1>4, <2>1, <2>2 DEF Refreshers
<1> HIDE DEF v
<1>6. \A p \in DOMAIN pools : Steady(p) /\ PoolOK(p)'
  BY DEF Resolve, Steady, PoolOK, Owned
<1> QED BY <1>1, <1>3, <1>4, <1>5, <1>6, RefresherKeeps DEF Resolve, Types

LEMMA ApplyStep ==
  ASSUME Owned, NEW w \in DOMAIN workers, Apply(w)
  PROVE  Owned'
<1>1. /\ Types /\ workers \in Seq(Refreshers) /\ workers[w] \in Refreshers /\ Alive(w)
      /\ pools \in Seq(Pool) /\ WorkerOK(w) /\ workers[w].at = "resolved"
  BY WorkerFields DEF Owned, Types, Apply, Alive, WorkersOK
<1>2. Own(w).circuit \in Nat /\ workers[w].targets # {}
  BY <1>1, PoolFields DEF WorkerOK, Own
<1> DEFINE v == IF Current(w) THEN [workers[w] EXCEPT !.at = "locked", !.cp = Own(w).circuit]
                ELSE [workers[w] EXCEPT !.at = "ready", !.targets = {}]
<1>3. workers' = [workers EXCEPT ![w] = v]
  BY DEF Apply
<1>4. /\ v \in Refreshers /\ v.pool = workers[w].pool /\ v.epoch = workers[w].epoch
      /\ v.egress = workers[w].egress /\ v.at \in {"ready", "locked"}
      /\ v.at = "locked" => Current(w) /\ v.targets = workers[w].targets
  BY <1>1, <1>2 DEF Refreshers
<1> HIDE DEF v
<1>5. Current(w) => Currently(w)
  BY DEF Current, Currently, Own
<1>6. \A p \in DOMAIN pools : Steady(p) /\ PoolOK(p)'
  BY DEF Apply, Steady, PoolOK, Owned
<1> QED BY <1>1, <1>2, <1>3, <1>4, <1>5, <1>6, RefresherKeeps DEF Apply, Types

(* The store of a refresher: a lock is never held by a fenced one. *)
LEMMA StoreStep ==
  ASSUME Owned, NEW w \in DOMAIN workers, Store(w)
  PROVE  Owned'
<1>1. /\ Types /\ workers \in Seq(Refreshers) /\ workers[w] \in Refreshers /\ Alive(w)
      /\ pools \in Seq(Pool) /\ WorkerOK(w) /\ workers[w].at = "locked"
  BY WorkerFields DEF Owned, Types, Store, Alive, WorkersOK
<1>2. PICK p \in DOMAIN pools : p = workers[w].pool
  BY <1>1 DEF WorkerOK
<1>3. /\ pools[p] \in Pool /\ PoolOK(p) /\ ~pools[p].closed /\ workers[w].egress = pools[p].fence
      /\ pools[p].backends \in SUBSET Backends
  BY <1>1, <1>2, PoolFields DEF Owned, WorkerOK
<1>4. workers[w].targets \in SUBSET Targets /\ workers[w].cp \in Nat /\ workers[w].egress \in Nat
  BY <1>1, WorkerFields
<1> DEFINE bs == Replaced(pools[p].backends, workers[w].targets, workers[w].cp)
           x == [pools[p] EXCEPT !.backends = bs, !.seen = pools[p].seen \cup {workers[w].egress}]
           v == [workers[w] EXCEPT !.at = "ready", !.targets = {}, !.cp = 0]
<1>5. bs \in SUBSET Backends /\ Unique(bs)
  <2>1. Unique(pools[p].backends)
    BY <1>3 DEF PoolOK, Unique
  <2> QED BY <1>3, <1>4, <2>1, ReplacedSet
<1>6. pools' = [pools EXCEPT ![p] = x] /\ workers' = [workers EXCEPT ![w] = v]
  BY <1>2 DEF Store, Own
<1> HIDE DEF bs
<1>7. /\ x \in Pool /\ x.key = pools[p].key /\ x.closed = pools[p].closed /\ x.epoch = pools[p].epoch
      /\ x.fence = pools[p].fence /\ x.seen = pools[p].seen \cup {workers[w].egress} /\ x.backends = bs
  <2>1. pools[p].seen \cup {workers[w].egress} \in SUBSET Nat
    BY <1>3, <1>4 DEF Pool
  <2> QED BY <1>3, <1>5, <2>1 DEF Pool
<1>8. /\ v \in Refreshers /\ v.pool = workers[w].pool /\ v.epoch = workers[w].epoch
      /\ v.egress = workers[w].egress /\ v.at = "ready"
  BY <1>1 DEF Refreshers
<1> HIDE DEF x, v
<1>9. /\ pools' \in Seq(Pool) /\ DOMAIN pools' = DOMAIN pools /\ pools'[p] = x
      /\ \A q \in DOMAIN pools : q # p => pools'[q] = pools[q]
  BY <1>1, <1>6, <1>7, SeqSet
<1>10. \A q \in DOMAIN pools : Steady(q)
  BY <1>7, <1>9 DEF Steady
<1>11. \A q \in DOMAIN pools : PoolOK(q)'
  <2>1. PoolOK(p)'
    BY <1>3, <1>5, <1>7, <1>9 DEF PoolOK, Unique
  <2> QED BY <1>9, <2>1 DEF Owned, PoolOK
<1> QED BY ZenonT(60), <1>1, <1>6, <1>8, <1>9, <1>10, <1>11, RefresherKeeps DEF Store, Types

LEMMA ExitStep ==
  ASSUME Owned, NEW w \in DOMAIN workers, Exit(w)
  PROVE  Owned'
<1>1. /\ Types /\ Alive(w) /\ pools \in Seq(Pool) /\ WorkerOK(w) /\ open' \in Int
  BY DEF Owned, Types, Exit, Alive, WorkersOK
<1>2. ~Currently(w)
  BY <1>1 DEF Exit, Stale, Own, WorkerOK, Currently
<1>3. Gone \in Refreshers
  BY DEF Gone, Refreshers
<1>4. \A p \in DOMAIN pools : Steady(p) /\ PoolOK(p)'
  BY DEF Exit, Steady, PoolOK, Owned
<1> QED BY <1>1, <1>2, <1>3, <1>4, RefresherKeeps DEF Exit

LEMMA OwnedInit == Init => Owned
<1> SUFFICES ASSUME Init PROVE Owned
  OBVIOUS
<1>1. Types
  BY RegistryAssumption DEF Init, Types, NoEgress, Generations
<1>2. DOMAIN pools = {} /\ DOMAIN workers = {}
  BY DEF Init
<1>3. BuildOK
  BY RegistryAssumption DEF Init, BuildOK
<1> QED BY <1>1, <1>2, <1>3 DEF Init, Owned, WorkersOK, LiveOK, StagedOK

LEMMA OwnedStutters == Owned /\ UNCHANGED vars => Owned'
<1> SUFFICES ASSUME Owned, UNCHANGED vars PROVE Owned'
  OBVIOUS
<1>1. Types' /\ BuildOK'
  BY DEF Owned, vars, Types, BuildOK
<1>2. WorkersOK'
  BY DEF Owned, vars, WorkersOK, WorkerOK, Alive, Currently, Serves
<1>5. \A p \in DOMAIN pools' : PoolOK(p)'
  BY DEF Owned, vars, PoolOK
<1>3. \A k \in Keys : LiveOK(k)'
  BY DEF Owned, vars, LiveOK, Serves, NoCurrent, HasCurrent, Refenced, Alive, Currently
<1>4. \A k \in Keys : StagedOK(k)'
  BY DEF Owned, vars, StagedOK, Serves, NoCurrent, HasCurrent, Refenced, EgressGen, Alive, Currently
<1> QED BY <1>1, <1>2, <1>3, <1>4, <1>5 DEF Owned

LEMMA OwnedNext == Owned /\ [Next]_vars => Owned'
  BY BeginStep, ForReusedStep, ForFreshStep, AbortStep, StoreLimitsStep, RetuneStep, SeedStep, SwapStep,
     CloseAllStep, ActivateStep, ResolveStep, ApplyStep, StoreStep, ExitStep, OwnedStutters
     DEF Next, Builder, Refresher

LEMMA RegistryOwned == Spec => []Owned
  BY OwnedInit, OwnedNext, PTL DEF Spec

(* No refresher that a commit, an abort or a shutdown has fenced writes to   *)
(* its pool, whatever the interleaving of its steps with theirs.           *)
THEOREM RegistryFenceHolds == Spec => []FenceHolds
<1>1. Owned => FenceHolds
  BY DEF Owned, PoolOK, FenceHolds
<1> QED BY <1>1, RegistryOwned, PTL

-----------------------------------------------------------------------------
(* Refreshers and discoverers.                                             *)
LEMMA OneRefresherHolds == Owned => OneRefresher
<1> SUFFICES ASSUME Owned, build = "idle", NEW p \in DOMAIN pools
             PROVE  LET ks == {k \in Keys : live[k] # None /\ live[k].pool = p /\ Dynamic(k)} IN
                    /\ Cardinality(Running(p)) = Cardinality(ks)
                    /\ \A k \in ks, w \in Running(p) :
                          /\ workers[w].egress = live[k].egress
                          /\ Kind[k] = "egress" => live[k].egress = egress.id
  BY DEF OneRefresher
<1> DEFINE ks == {k \in Keys : live[k] # None /\ live[k].pool = p /\ Dynamic(k)}
<1>1. /\ WorkersOK /\ \A w \in DOMAIN workers : WorkerOK(w)
      /\ \A k \in Keys : LiveOK(k) /\ staged[k] = None
      /\ pools \in Seq(Pool) /\ pools[p].key \in Keys /\ pools[p].closed \in BOOLEAN
  BY NobodyStaged, PoolFields DEF Owned, WorkersOK, Types
<1>2. ASSUME NEW w \in Running(p)
      PROVE  /\ w \in DOMAIN workers /\ Alive(w) /\ workers[w].pool = p /\ Currently(w)
             /\ workers[w].egress = pools[p].fence /\ pools[p].key \in ks
  <2>1. w \in DOMAIN workers /\ Alive(w) /\ workers[w].pool = p /\ Currently(w)
    BY <1>2 DEF Running, Stale, Own, Alive, Currently
  <2> QED BY <1>1, <2>1 DEF WorkerOK, Serves
<1>3. \A k \in ks : k = pools[p].key /\ pools[p].fence = live[k].egress
                    /\ (Kind[k] = "egress" => live[k].egress = egress.id)
  BY <1>1 DEF LiveOK, Refenced
<1>4. Cardinality(Running(p)) = Cardinality(ks)
  <2>1. CASE ks = {}
    BY <1>2, <2>1
  <2>2. CASE ks # {}
    <3>1. ks = {pools[p].key}
      BY <1>3, <2>2
    <3>2. HasCurrent(p)
      <4>1. PICK k \in ks : live[k] # None /\ live[k].pool = p /\ Dynamic(k)
        BY <2>2
      <4>2. ~live[k].disc /\ ~Refenced(k)
        BY <1>1, <4>1 DEF LiveOK, Refenced
      <4> QED BY <1>1, <4>1, <4>2 DEF LiveOK
    <3>3. PICK w \in DOMAIN workers : Alive(w) /\ workers[w].pool = p /\ Currently(w)
      BY <3>2 DEF HasCurrent
    <3>4. w \in Running(p)
      <4>1. ~pools[p].closed
        BY <1>1, <3>3 DEF WorkerOK
      <4> QED BY <3>3, <4>1 DEF Running, Stale, Own, Alive, Currently
    <3>5. \A v \in Running(p) : v = w
      BY <1>1, <1>2, <3>3 DEF WorkersOK
    <3>6. Running(p) = {w}
      BY <3>4, <3>5
    <3> QED BY <3>1, <3>6, FS_Singleton
  <2> QED BY <2>1, <2>2
<1>5. \A k \in ks, w \in Running(p) : workers[w].egress = live[k].egress
  BY <1>2, <1>3
<1> QED BY <1>3, <1>4, <1>5

InBuild == {k \in Keys : staged[k] # None /\ staged[k].disc}
Waiting == {k \in Keys : live[k] # None /\ live[k].disc}
Working == {w \in DOMAIN workers : workers[w].at # "gone"}

LEMMA OwnersFinite ==
  ASSUME Types
  PROVE  /\ IsFiniteSet(InBuild) /\ IsFiniteSet(Waiting) /\ IsFiniteSet(Working)
         /\ Cardinality(InBuild) \in Nat /\ Cardinality(Waiting) \in Nat /\ Cardinality(Working) \in Nat
<1>1. IsFiniteSet(InBuild) /\ IsFiniteSet(Waiting)
  BY RegistryAssumption, FS_Subset DEF InBuild, Waiting
<1>2. IsFiniteSet(Working)
  <2>1. DOMAIN workers = 1..Len(workers) /\ Len(workers) \in Nat
    BY DEF Types
  <2>2. IsFiniteSet(DOMAIN workers)
    BY <2>1, FS_Interval
  <2> QED BY <2>2, FS_Subset DEF Working
<1> QED BY <1>1, <1>2, FS_CardinalityType

LEMMA DiscoverersInit == Init => DiscoverersOwned
<1> SUFFICES ASSUME Init PROVE DiscoverersOwned
  OBVIOUS
<1>1. InBuild = {} /\ Waiting = {} /\ Working = {}
  BY DEF Init, InBuild, Waiting, Working
<1>2. open = Cardinality(InBuild) + Cardinality(Waiting) + Cardinality(Working)
  BY <1>1, FS_EmptySet DEF Init
<1> QED BY <1>2 DEF DiscoverersOwned, InBuild, Waiting, Working

LEMMA EntryFields ==
  ASSUME Types, NEW k \in Keys, cand[k] \in Upstream, NEW p \in Nat, NEW r \in BOOLEAN,
         NEW m \in BOOLEAN, NEW ts \in SUBSET Targets, NEW d \in BOOLEAN
  PROVE  Entry(k, p, r, m, ts, d) \in Entries /\ Entry(k, p, r, m, ts, d).disc = d
<1>1. EgressGen(k) \in Nat /\ cand[k].shape \in Nat
  BY DEF Types, EgressGen, Generations, Upstream
<1> QED BY <1>1 DEF Entry, Entries

(* A discoverer changes hands, or opens or closes with its owner. *)
LEMMA DiscoverersNext ==
  ASSUME Owned, Owned', DiscoverersOwned, [Next]_vars
  PROVE  DiscoverersOwned'
<1>1. /\ open = Cardinality(InBuild) + Cardinality(Waiting) + Cardinality(Working)
      /\ Types /\ Types' /\ open \in Int
  BY DEF DiscoverersOwned, InBuild, Waiting, Working, Owned, Types
<1>2. /\ IsFiniteSet(InBuild) /\ IsFiniteSet(Waiting) /\ IsFiniteSet(Working)
      /\ Cardinality(InBuild) \in Nat /\ Cardinality(Waiting) \in Nat /\ Cardinality(Working) \in Nat
  BY <1>1, OwnersFinite
<1> SUFFICES open' = Cardinality(InBuild') + Cardinality(Waiting') + Cardinality(Working')
  BY DEF DiscoverersOwned, InBuild, Waiting, Working
<1>3. Cardinality({}) = 0
  BY FS_EmptySet
<1>4. None \notin Entries
  BY RegistryAssumption
<1>5. ASSUME UNCHANGED <<open, live, staged>>, Working' = Working
      PROVE  open' = Cardinality(InBuild') + Cardinality(Waiting') + Cardinality(Working')
  BY <1>1, <1>5 DEF InBuild, Waiting
<1>6. ASSUME NEW c \in Configs, Begin(c)
      PROVE  open' = Cardinality(InBuild') + Cardinality(Waiting') + Cardinality(Working')
  <2>1. InBuild' = {} /\ InBuild = {} /\ Waiting' = Waiting /\ Working' = Working /\ open' = open
    BY <1>6, NobodyStaged DEF Begin, InBuild, Waiting, Working
  <2> QED BY <1>1, <2>1
<1>7. ASSUME NEW k \in Keys, ForReused(k) \/ ForFresh(k)
      PROVE  open' = Cardinality(InBuild') + Cardinality(Waiting') + Cardinality(Working')
  <2>1. Waiting' = Waiting /\ Working' = Working
    BY <1>7 DEF ForReused, ForFresh, Waiting, Working
  <2>2. PICK d \in BOOLEAN, e \in Entries : /\ staged' = [staged EXCEPT ![k] = e] /\ e.disc = d
                                            /\ open' = IF d THEN open + 1 ELSE open
    <3>1. cand[k] \in Upstream
      BY <1>1, <1>7 DEF ForReused, ForFresh, Wanted, Types
    <3>2. CASE ForReused(k)
      <4>1. PICK ts \in SUBSET Targets :
               staged' = [staged EXCEPT ![k] = Entry(k, live[k].pool, TRUE, Moved(k), ts, Moved(k))]
        BY <3>2, RegistryAssumption DEF ForReused
      <4>2. live[k].pool \in Nat /\ Moved(k) \in BOOLEAN
        BY <1>1, <3>2 DEF ForReused, Reusable, Types, Entries, Moved
      <4>3. /\ Entry(k, live[k].pool, TRUE, Moved(k), ts, Moved(k)) \in Entries
            /\ Entry(k, live[k].pool, TRUE, Moved(k), ts, Moved(k)).disc = Moved(k)
        BY <1>1, <3>1, <4>2, EntryFields
      <4>4. open' = IF Moved(k) THEN open + 1 ELSE open
        BY <3>2 DEF ForReused
      <4> QED BY <4>1, <4>2, <4>3, <4>4
    <3>3. CASE ForFresh(k)
      <4>1. Len(pools) + 1 \in Nat /\ Dynamic(k) \in BOOLEAN /\ {} \in SUBSET Targets
        BY <1>1 DEF Types, Dynamic
      <4>2. /\ Entry(k, Len(pools) + 1, FALSE, FALSE, {}, Dynamic(k)) \in Entries
            /\ Entry(k, Len(pools) + 1, FALSE, FALSE, {}, Dynamic(k)).disc = Dynamic(k)
        BY <1>1, <3>1, <4>1, EntryFields
      <4>3. /\ staged' = [staged EXCEPT ![k] = Entry(k, Len(pools) + 1, FALSE, FALSE, {}, Dynamic(k))]
            /\ open' = IF Dynamic(k) THEN open + 1 ELSE open
        BY <3>3 DEF ForFresh
      <4> QED BY <4>1, <4>2, <4>3
    <3> QED BY <1>7, <3>2, <3>3
  <2>3. staged[k] = None /\ staged \in [Keys -> Entries \cup {None}] /\ e # None
    BY <1>1, <1>4, <1>7 DEF ForReused, ForFresh, Types
  <2>4. InBuild' = (IF d THEN InBuild \cup {k} ELSE InBuild) /\ k \notin InBuild
    BY <2>2, <2>3 DEF InBuild
  <2>5. Cardinality(InBuild') = IF d THEN Cardinality(InBuild) + 1 ELSE Cardinality(InBuild)
    BY <1>2, <2>4, FS_AddElement
  <2> QED BY <1>1, <1>2, <2>1, <2>2, <2>5
<1>8. ASSUME Abort
      PROVE  open' = Cardinality(InBuild') + Cardinality(Waiting') + Cardinality(Working')
  <2>1. InBuild' = {} /\ Waiting' = Waiting /\ Working' = Working /\ open' = open - Cardinality(InBuild)
    BY <1>8 DEF Abort, InBuild, Waiting, Working
  <2> QED BY <1>1, <1>2, <1>3, <2>1
<1>9. ASSUME NEW k \in Keys, NEW from \in {"none", "stored", "retuned"},
             NEW to \in {"stored", "retuned", "done"}, Stepping(k, from, to)
      PROVE  open' = Cardinality(InBuild') + Cardinality(Waiting') + Cardinality(Working')
  <2>1. Stepped(k, from, to)
    BY <1>9, Step1
  <2>2. staged'[k].disc = staged[k].disc /\ staged'[k] # None
    BY <1>4, <2>1 DEF Stepped, Entries
  <2>3. InBuild' = InBuild
    BY <2>1, <2>2 DEF InBuild, Stepped
  <2> QED BY <1>1, <2>1, <2>3 DEF Stepped, Waiting, Working
<1>10. ASSUME CommitSwap
       PROVE  open' = Cardinality(InBuild') + Cardinality(Waiting') + Cardinality(Working')
  <2>1. Waiting = {}
    BY <1>10, NobodyAwaits DEF CommitSwap, Committing, Waiting
  <2>2. InBuild' = {} /\ Waiting' = InBuild /\ Working' = Working /\ open' = open
    BY <1>10 DEF CommitSwap, InBuild, Waiting, Working
  <2>3. Cardinality(InBuild') = 0 /\ Cardinality(Waiting) = 0
    BY <1>3, <2>1, <2>2
  <2>4. Cardinality(Waiting') = Cardinality(InBuild) /\ Cardinality(Working') = Cardinality(Working)
    BY <2>2
  <2> QED BY <1>1, <1>2, <2>2, <2>3, <2>4
<1>11. ASSUME CloseAll
       PROVE  open' = Cardinality(InBuild') + Cardinality(Waiting') + Cardinality(Working')
  <2>1. Waiting = {}
    BY <1>11, NobodyAwaits DEF CloseAll, Waiting
  <2>2. InBuild' = InBuild /\ Waiting' = {} /\ Working' = Working /\ open' = open
    BY <1>11 DEF CloseAll, InBuild, Waiting, Working
  <2> QED BY <1>1, <2>1, <2>2
<1>12. ASSUME NEW k \in Keys, Activate(k)
       PROVE  open' = Cardinality(InBuild') + Cardinality(Waiting') + Cardinality(Working')
  <2>1. k \in Waiting /\ live[k] \in Entries /\ workers \in Seq(Refreshers)
    BY <1>1, <1>12 DEF Activate, ToActivate, Waiting, Types
  <2>2. PICK e \in Entries : e = [live[k] EXCEPT !.disc = FALSE, !.replace = FALSE, !.targets = {}] /\ ~e.disc
    <3> DEFINE y == [live[k] EXCEPT !.disc = FALSE, !.replace = FALSE, !.targets = {}]
    <3>1. y \in Entries /\ ~y.disc
      BY <2>1 DEF Entries
    <3> QED BY <3>1
  <2>3. live' = [live EXCEPT ![k] = e] /\ live \in [Keys -> Entries \cup {None}]
    BY <1>1, <1>12, <2>2 DEF Activate, Types
  <2>4. Waiting' = Waiting \ {k}
    BY <2>2, <2>3 DEF Waiting
  <2>5. PICK v, nw : v.at = "ready" /\ workers' = Append(workers, v) /\ nw = Len(workers) + 1
    BY <1>12 DEF Activate, Worker
  <2>6. /\ DOMAIN workers' = DOMAIN workers \cup {nw} /\ nw \notin DOMAIN workers /\ workers'[nw] = v
        /\ \A w \in DOMAIN workers : workers'[w] = workers[w]
    <3>1. Append(workers, v) \in Seq(Refreshers) /\ Len(workers) \in Nat /\ DOMAIN workers = 1..Len(workers)
      BY <1>1, <2>5 DEF Types
    <3>2. 1..(Len(workers) + 1) = 1..Len(workers) \cup {Len(workers) + 1}
      BY <3>1
    <3> QED BY <2>1, <2>5, <3>1, <3>2
  <2>7. Working' = Working \cup {nw} /\ nw \notin Working
    BY <2>5, <2>6 DEF Working
  <2>8. Cardinality(Waiting') = Cardinality(Waiting) - 1 /\ Cardinality(Working') = Cardinality(Working) + 1
    BY <1>2, <2>1, <2>4, <2>7, FS_AddElement, FS_RemoveElement
  <2>9. InBuild' = InBuild /\ open' = open
    BY <1>12 DEF Activate, InBuild
  <2> QED BY <1>1, <1>2, <2>8, <2>9
<1>13. ASSUME NEW w \in DOMAIN workers, Resolve(w) \/ Apply(w) \/ Store(w)
       PROVE  open' = Cardinality(InBuild') + Cardinality(Waiting') + Cardinality(Working')
  <2>1. PICK v : workers' = [workers EXCEPT ![w] = v] /\ workers[w].at # "gone" /\ v.at # "gone"
    <3>1. workers[w] \in Refreshers
      BY <1>1, WorkerFields DEF Types
    <3>2. CASE Resolve(w)
      <4>1. PICK ts \in Answers :
              workers' = [workers EXCEPT ![w] =
                 [workers[w] EXCEPT !.runs = @ + 1,
                                    !.at = IF ts # {} /\ workers[w].epoch = Own(w).epoch
                                           THEN "resolved" ELSE "ready",
                                    !.targets = IF workers[w].epoch = Own(w).epoch THEN ts ELSE {}]]
        BY <3>2 DEF Resolve
      <4> DEFINE v == [workers[w] EXCEPT !.runs = @ + 1,
                                    !.at = IF ts # {} /\ workers[w].epoch = Own(w).epoch
                                           THEN "resolved" ELSE "ready",
                                    !.targets = IF workers[w].epoch = Own(w).epoch THEN ts ELSE {}]
      <4>2. v.at # "gone"
        BY <3>1 DEF Refreshers
      <4>3. workers[w].at # "gone"
        BY <3>2 DEF Resolve
      <4> HIDE DEF v
      <4>4. workers' = [workers EXCEPT ![w] = v]
        BY <4>1 DEF v
      <4> QED BY <4>2, <4>3, <4>4
    <3>3. CASE Apply(w)
      <4> DEFINE v == IF Current(w) THEN [workers[w] EXCEPT !.at = "locked", !.cp = Own(w).circuit]
                      ELSE [workers[w] EXCEPT !.at = "ready", !.targets = {}]
      <4>1. workers' = [workers EXCEPT ![w] = v] /\ workers[w].at # "gone"
        BY <3>3 DEF Apply
      <4>2. v.at # "gone"
        BY <3>1 DEF Refreshers
      <4> QED BY <4>1, <4>2
    <3>4. CASE Store(w)
      <4> DEFINE v == [workers[w] EXCEPT !.at = "ready", !.targets = {}, !.cp = 0]
      <4>1. workers' = [workers EXCEPT ![w] = v] /\ workers[w].at # "gone"
        BY <3>4 DEF Store
      <4>2. v.at # "gone"
        BY <3>1 DEF Refreshers
      <4> QED BY <4>1, <4>2
    <3> QED BY <1>13, <3>2, <3>3, <3>4
  <2>2. workers \in Seq(Refreshers)
    BY <1>1 DEF Types
  <2>3. Working' = Working
    BY <2>1, <2>2 DEF Working
  <2> QED BY <1>5, <1>13, <2>3 DEF Resolve, Apply, Store
<1>14. ASSUME NEW w \in DOMAIN workers, Exit(w)
       PROVE  open' = Cardinality(InBuild') + Cardinality(Waiting') + Cardinality(Working')
  <2>1. workers \in Seq(Refreshers) /\ Gone.at = "gone"
    BY <1>1 DEF Types, Gone
  <2>2. Working' = Working \ {w} /\ w \in Working
    BY <1>14, <2>1 DEF Exit, Working
  <2>3. Cardinality(Working') = Cardinality(Working) - 1
    BY <1>2, <2>2, FS_RemoveElement
  <2>4. InBuild' = InBuild /\ Waiting' = Waiting /\ open' = open - 1
    BY <1>14 DEF Exit, InBuild, Waiting
  <2> QED BY <1>1, <1>2, <2>3, <2>4
<1>15. CASE UNCHANGED vars
  BY <1>5, <1>15 DEF vars, Working
<1> QED BY <1>6, <1>7, <1>8, <1>9, <1>10, <1>11, <1>12, <1>13, <1>14, <1>15
        DEF Next, Builder, Refresher, StoreLimits, RetuneBackends, SeedBackends

(* Between builds every discovered pool that serves has exactly one live    *)
(* refresher, of the published egress policy, and at every moment each     *)
(* discoverer has an owner that will close it.                             *)
THEOREM RegistryRefreshersOwned == Spec => []RefreshersOwned
<1>1. Owned /\ DiscoverersOwned /\ [Next]_vars => (Owned /\ DiscoverersOwned)'
  BY OwnedNext, DiscoverersNext
<1>2. Owned /\ DiscoverersOwned => RefreshersOwned
  <2> SUFFICES ASSUME Owned, DiscoverersOwned PROVE TypeOK
    BY OneRefresherHolds DEF RefreshersOwned
  <2>1. Types /\ BuildOK /\ \A p \in DOMAIN pools : PoolOK(p) /\ pools[p].backends \in SUBSET Backends
    BY PoolFields DEF Owned, Types
  <2>2. open \in Nat
    BY <2>1, OwnersFinite DEF DiscoverersOwned, InBuild, Waiting, Working
  <2> QED BY <2>1, <2>2 DEF TypeOK, Types, BuildOK, PoolOK
<1> QED BY <1>1, <1>2, OwnedInit, DiscoverersInit, PTL DEF Spec

-----------------------------------------------------------------------------
(* What is served.                                                         *)
(* A step that leaves alone what pool p serves with. *)
Contents(p) ==
    /\ pools'[p].circuit = pools[p].circuit /\ pools'[p].policy = pools[p].policy
    /\ ~Dynamic(pools[p].key) => pools'[p].backends = pools[p].backends

LEMMA LiveServesKept ==
  ASSUME NEW k \in Keys, LiveOK(k), LiveServes(k), serving'[k] = serving[k], view'[k] = view[k],
         Step(k)' = Step(k), live'[k] = None <=> live[k] = None,
         live[k] # None => /\ live'[k].pool = live[k].pool /\ live'[k].shape = live[k].shape
                           /\ Contents(live[k].pool)
  PROVE  LiveServes(k)'
  BY DEF LiveOK, LiveServes, Contents

LEMMA StagedServesKept ==
  ASSUME NEW k \in Keys, StagedOK(k), StagedServes(k), staged'[k] = staged[k], cand' = cand,
         staged[k] # None => Contents(staged[k].pool)
  PROVE  StagedServes(k)'
  BY DEF StagedOK, StagedServes, Contents, Step

(* Steps that touch no key's pool, candidate or entry. *)
LEMMA ServingKept ==
  ASSUME Owned, Serving, UNCHANGED <<staged, cand, serving, view>>,
         \A k \in Keys : /\ live'[k] = None <=> live[k] = None
                         /\ live[k] # None => live'[k].pool = live[k].pool /\ live'[k].shape = live[k].shape,
         \A p \in DOMAIN pools : Contents(p)
  PROVE  Serving'
<1> SUFFICES ASSUME NEW k \in Keys PROVE LiveServes(k)' /\ StagedServes(k)'
  BY DEF Serving
<1>1. LiveOK(k) /\ StagedOK(k) /\ LiveServes(k) /\ StagedServes(k) /\ Step(k)' = Step(k)
  BY DEF Owned, Serving, Step
<1>2. live[k] # None => Contents(live[k].pool)
  BY <1>1 DEF LiveOK
<1>3. staged[k] # None => Contents(staged[k].pool)
  BY <1>1 DEF StagedOK
<1>4. LiveServes(k)'
  BY <1>1, <1>2, LiveServesKept
<1>5. StagedServes(k)'
  BY <1>1, <1>3, StagedServesKept
<1> QED BY <1>4, <1>5

LEMMA ServingBegin ==
  ASSUME Owned, Serving, NEW c \in Configs, Begin(c)
  PROVE  Serving'
<1> SUFFICES ASSUME NEW k \in Keys PROVE LiveServes(k)' /\ StagedServes(k)'
  BY DEF Serving
<1>1. staged[k] = None /\ staged'[k] = None /\ UNCHANGED <<live, pools, serving, view>>
  BY NobodyStaged DEF Begin
<1>2. LiveServes(k) /\ Step(k) = "none" /\ Step(k)' = "none"
  BY <1>1 DEF Serving, Step
<1> QED BY <1>1, <1>2 DEF LiveServes, StagedServes

LEMMA ServingFor ==
  ASSUME Owned, Serving, NEW k \in Keys, ForReused(k)
  PROVE  Serving'
<1>1. /\ UNCHANGED <<live, pools, cand, serving, view>> /\ staged[k] = None
      /\ \A j \in Keys \ {k} : staged'[j] = staged[j]
  BY DEF ForReused, Owned, Types
<1>2. staged'[k].step = "none" /\ staged'[k].reused
  BY DEF ForReused, Owned, Types, Entry
<1>3. ASSUME NEW j \in Keys PROVE LiveServes(j)'
  <2>1. LiveServes(j) /\ Step(j)' = Step(j)
    BY <1>1, <1>2 DEF Serving, Step
  <2> QED BY <1>1, <2>1 DEF LiveServes
<1>4. ASSUME NEW j \in Keys \ {k} PROVE StagedServes(j)'
  <2>1. StagedServes(j)
    BY DEF Serving
  <2> QED BY <1>1, <2>1 DEF StagedServes, Step
<1>5. StagedServes(k)'
  BY <1>2 DEF StagedServes, Step
<1> QED BY <1>3, <1>4, <1>5 DEF Serving

LEMMA ServingFresh ==
  ASSUME Owned, Serving, NEW k \in Keys, ForFresh(k)
  PROVE  Serving'
<1>1. /\ UNCHANGED <<live, cand, serving, view>> /\ staged[k] = None /\ pools \in Seq(Pool)
      /\ \A j \in Keys \ {k} : staged'[j] = staged[j]
      /\ \A j \in Keys : LiveOK(j) /\ StagedOK(j)
      /\ cand[k] \in Upstream /\ EgressGen(k) \in Nat
  BY DEF ForFresh, Owned, Types, Wanted, EgressGen, Generations
<1>2. PICK p \in Nat : p = Len(pools) + 1
  BY <1>1
<1>3. staged'[k].step = "none" /\ ~staged'[k].reused /\ staged'[k].pool = p
  <2>1. staged'[k] = Entry(k, p, FALSE, FALSE, {}, Dynamic(k))
    BY <1>2 DEF ForFresh, Owned, Types
  <2> QED BY <2>1 DEF Entry
<1>4. PICK ts \in SUBSET Targets : /\ pools' = Append(pools, NewPool(k, cand[k], ts, EgressGen(k)))
                                   /\ ~Dynamic(k) => ts = cand[k].servers
  BY <1>1, FirstSets DEF ForFresh, FirstSet
<1> DEFINE np == NewPool(k, cand[k], ts, EgressGen(k))
<1>5. /\ np \in Pool /\ np.circuit = cand[k].circuit /\ np.policy = cand[k].policy
      /\ np.backends = Built(ts, cand[k].circuit)
  <2>1. Built(ts, cand[k].circuit) \in SUBSET Backends
    BY <1>1, BuiltSet DEF Upstream
  <2> QED BY <1>1, <2>1 DEF NewPool, Pool, Upstream
<1> HIDE DEF np
<1>6. pools'[p] = np /\ \A q \in DOMAIN pools : pools'[q] = pools[q]
  <2>1. pools' = Append(pools, np)
    BY <1>4 DEF np
  <2> QED BY <1>1, <1>2, <1>5, <2>1, SeqAppend
<1>7. ASSUME NEW j \in Keys PROVE LiveServes(j)'
  <2>1. LiveServes(j) /\ LiveOK(j) /\ Step(j)' = Step(j)
    BY <1>1, <1>3 DEF Serving, Step
  <2>2. live[j] # None => Contents(live[j].pool)
    BY <1>6, <2>1 DEF LiveOK, Contents
  <2> QED BY <1>1, <2>1, <2>2, LiveServesKept
<1>8. ASSUME NEW j \in Keys \ {k} PROVE StagedServes(j)'
  <2>1. StagedServes(j) /\ StagedOK(j)
    BY <1>1 DEF Serving
  <2>2. staged[j] # None => Contents(staged[j].pool)
    BY <1>6, <2>1 DEF StagedOK, Contents
  <2> QED BY <1>1, <2>1, <2>2, StagedServesKept
<1>9. StagedServes(k)'
  BY <1>1, <1>3, <1>4, <1>5, <1>6 DEF StagedServes, Step
<1> QED BY <1>7, <1>8, <1>9 DEF Serving

LEMMA ServingAbort ==
  ASSUME Owned, Serving, Abort
  PROVE  Serving'
<1> SUFFICES ASSUME NEW k \in Keys PROVE LiveServes(k)' /\ StagedServes(k)'
  BY DEF Serving
<1>1. /\ staged'[k] = None /\ UNCHANGED <<live, serving, view>> /\ LiveOK(k) /\ LiveServes(k)
      /\ \A j \in Keys : StagedOK(j)
  BY DEF Abort, Owned, Serving
<1>2. Step(k) = "none" /\ Step(k)' = "none"
  BY <1>1 DEF Abort, Step, StagedOK
<1>3. live[k] # None => Contents(live[k].pool)
  <2> SUFFICES ASSUME live[k] # None PROVE pools'[live[k].pool] = pools[live[k].pool]
    BY DEF Contents
  <2>1. live[k].pool \in DOMAIN pools /\ pools[live[k].pool].key = k
    BY <1>1 DEF LiveOK
  <2>2. ~ \E j \in Wanted : staged[j] # None /\ ~staged[j].reused /\ staged[j].pool = live[k].pool
    BY <1>1, <2>1 DEF StagedOK, Wanted
  <2> QED BY <2>1, <2>2 DEF Abort
<1>4. LiveServes(k)'
  BY <1>1, <1>2, <1>3, LiveServesKept
<1> QED BY <1>1, <1>4 DEF StagedServes

(* The three steps of the commit on a kept pool. *)
LEMMA ServingOthers ==
  ASSUME Owned, Serving, NEW k \in Keys, NEW from, NEW to, Stepped(k, from, to), NEW x,
         pools' = [pools EXCEPT ![staged[k].pool] = x], NEW j \in Keys \ {k}
  PROVE  LiveServes(j)' /\ StagedServes(j)'
<1>1. /\ LiveOK(j) /\ StagedOK(j) /\ LiveServes(j) /\ StagedServes(j) /\ pools \in Seq(Pool)
      /\ pools[staged[k].pool].key = k /\ staged'[j] = staged[j] /\ Step(j)' = Step(j)
      /\ UNCHANGED <<live, cand, serving, view>>
  BY DEF Owned, Types, Serving, Stepped, Step
<1>2. \A p \in DOMAIN pools : p # staged[k].pool => pools'[p] = pools[p]
  BY <1>1
<1>3. live[j] # None => Contents(live[j].pool)
  BY <1>1, <1>2 DEF LiveOK, Contents
<1>4. staged[j] # None => Contents(staged[j].pool)
  BY <1>1, <1>2 DEF StagedOK, Contents
<1>5. LiveServes(j)'
  BY <1>1, <1>3, LiveServesKept
<1>6. StagedServes(j)'
  BY <1>1, <1>4, StagedServesKept
<1> QED BY <1>5, <1>6

LEMMA ServingTuned ==
  ASSUME Owned, Serving, NEW k \in Keys, NEW from \in {"none", "stored", "retuned"},
         NEW to \in {"stored", "retuned", "done"}, Stepped(k, from, to), NEW x \in Pool,
         pools' = [pools EXCEPT ![staged[k].pool] = x],
         x.circuit = cand[k].circuit,
         x.policy = IF to = "done" THEN cand[k].policy ELSE pools[staged[k].pool].policy,
         ~Dynamic(k) /\ to = "retuned" => x.backends = Built(Addrs(x.backends), cand[k].circuit),
         ~Dynamic(k) /\ to = "done" => x.backends = Built(cand[k].servers, cand[k].circuit)
  PROVE  Serving'
<1>1. \A j \in Keys \ {k} : LiveServes(j)' /\ StagedServes(j)'
  BY ServingOthers
<1>2. /\ StagedOK(k) /\ LiveServes(k) /\ pools \in Seq(Pool) /\ staged[k].pool \in DOMAIN pools
      /\ staged[k].pool = live[k].pool /\ live[k] # None
      /\ staged[k] # None /\ staged[k].reused /\ staged[k].step = from
  BY DEF Owned, Types, Serving, Stepped, StagedOK
<1>3. pools'[staged[k].pool] = x
  BY <1>2
<1>4. /\ staged'[k] # None /\ staged'[k].reused /\ staged'[k].pool = staged[k].pool
      /\ staged'[k].step = to /\ UNCHANGED <<live, cand, serving, view>>
  BY RegistryAssumption DEF Stepped, Entries
<1>5. LiveServes(k)'
  BY <1>2, <1>3, <1>4 DEF LiveServes, Step
<1>6. StagedServes(k)'
  BY <1>2, <1>3, <1>4 DEF StagedServes, Step
<1> QED BY <1>1, <1>5, <1>6 DEF Serving

LEMMA ServingStoreLimits ==
  ASSUME Owned, Serving, NEW k \in Keys, StoreLimits(k)
  PROVE  Serving'
<1>1. Stepped(k, "none", "stored")
  BY Step1 DEF StoreLimits
<1>2. PICK pool \in Pool : pool = pools[staged[k].pool]
  BY <1>1, PoolFields DEF Owned, Types, Stepped
<1>3. cand[k].circuit \in Nat
  BY <1>1 DEF Stepped, Upstream
<1> DEFINE x == [pool EXCEPT !.circuit = cand[k].circuit]
<1>4. x \in Pool /\ x.circuit = cand[k].circuit /\ x.policy = pool.policy
  BY <1>3 DEF Pool
<1>5. pools' = [pools EXCEPT ![staged[k].pool] = x]
  BY <1>2 DEF StoreLimits
<1> HIDE DEF x
<1> QED BY <1>1, <1>2, <1>4, <1>5, ServingTuned

LEMMA ServingRetune ==
  ASSUME Owned, Serving, NEW k \in Keys, RetuneBackends(k)
  PROVE  Serving'
<1>1. Stepped(k, "stored", "retuned")
  BY Step1 DEF RetuneBackends
<1>2. PICK pool \in Pool : pool = pools[staged[k].pool]
  BY <1>1, PoolFields DEF Owned, Types, Stepped
<1>3. pool.circuit = cand[k].circuit /\ pool.circuit \in Nat
  BY <1>1, <1>2 DEF Serving, StagedServes, Step, Stepped, Pool
<1>4. Addrs(pool.backends) \in SUBSET Targets
  BY DEF Pool, Addrs, Backends
<1> DEFINE bs == Built(Addrs(pool.backends), pool.circuit)
           x == Retuned(pool)
<1>5. bs \in SUBSET Backends /\ Addrs(bs) = Addrs(pool.backends)
  BY <1>3, <1>4, BuiltSet
<1>6. x \in Pool /\ x.circuit = pool.circuit /\ x.policy = pool.policy /\ x.backends = bs
  BY <1>5 DEF Pool, Retuned
<1>7. pools' = [pools EXCEPT ![staged[k].pool] = x]
  BY <1>2 DEF RetuneBackends
<1>8. x.backends = Built(Addrs(x.backends), cand[k].circuit)
  BY <1>3, <1>5, <1>6
<1> HIDE DEF x, bs
<1> QED BY <1>1, <1>2, <1>3, <1>6, <1>7, <1>8, ServingTuned

LEMMA ServingSeed ==
  ASSUME Owned, Serving, NEW k \in Keys, SeedBackends(k)
  PROVE  Serving'
<1>1. Stepped(k, "retuned", "done")
  BY Step1 DEF SeedBackends
<1>2. PICK pool \in Pool : pool = pools[staged[k].pool] /\ Unique(pool.backends)
  BY <1>1, PoolFields DEF Owned, Types, Stepped, PoolOK, Unique
<1>3. /\ pool.circuit = cand[k].circuit /\ pool.circuit \in Nat /\ pool.key = k
      /\ ~Dynamic(k) => pool.backends = Built(Addrs(pool.backends), cand[k].circuit)
      /\ staged[k].replace => Dynamic(k)
      /\ staged[k] \in Entries /\ cand[k] \in Upstream
  BY <1>1, <1>2 DEF Serving, StagedServes, Step, Stepped, Pool, Owned, StagedOK
<1>4. PICK x : x = Result(pool, staged[k], cand[k])
  OBVIOUS
<1>5. /\ x \in Pool /\ x.circuit = pool.circuit /\ x.policy = cand[k].policy
      /\ ~Dynamic(pool.key) /\ ~staged[k].replace =>
            x.backends = Replaced(pool.backends, cand[k].servers, pool.circuit)
  BY <1>2, <1>3, <1>4, ResultPool
<1>6. ~Dynamic(k) => x.backends = Built(cand[k].servers, cand[k].circuit)
  <2>1. pool.backends \in SUBSET Backends /\ cand[k].servers \in SUBSET Targets
    BY <1>3 DEF Pool, Upstream
  <2> QED BY <1>3, <1>5, <2>1, ReplacedUniform
<1>7. pools' = [pools EXCEPT ![staged[k].pool] = x]
  BY <1>2, <1>4 DEF SeedBackends, Result
<1> QED BY <1>1, <1>3, <1>5, <1>6, <1>7, ServingTuned

LEMMA ServingSwap ==
  ASSUME Owned, Serving, CommitSwap
  PROVE  Serving'
<1> SUFFICES ASSUME NEW k \in Keys PROVE LiveServes(k)' /\ StagedServes(k)'
  BY DEF Serving
<1>1. /\ live' = staged /\ staged'[k] = None /\ serving' = cand /\ StagedOK(k) /\ StagedServes(k)
      /\ cand[k] # None => staged[k] # None /\ (staged[k].reused => staged[k].step = "done")
  BY DEF CommitSwap, Committing, Owned, Serving, BuildOK, Wanted
<1>2. CASE staged[k] = None
  BY <1>1, <1>2 DEF LiveServes, StagedServes
<1>3. CASE staged[k] # None
  <2>1. PICK p \in DOMAIN pools : p = staged[k].pool
    BY <1>1, <1>3 DEF StagedOK
  <2>2. pools'[p] = pools[p]
    BY <1>3, <2>1 DEF CommitSwap, Dropped, Kept
  <2>3. /\ pools[p].circuit = cand[k].circuit /\ pools[p].policy = cand[k].policy
        /\ ~Dynamic(k) => pools[p].backends = Built(cand[k].servers, cand[k].circuit)
        /\ staged[k].shape = cand[k].shape /\ cand[k] # None
    BY <1>1, <1>3, <2>1 DEF StagedServes, StagedOK, Step
  <2>4. ~Dynamic(k) => view'[k] = cand[k].servers
    <3>1. cand[k].servers \in SUBSET Targets /\ cand[k].circuit \in Nat
      BY <2>3 DEF Owned, Types, Upstream
    <3>2. ~Dynamic(k) => view'[k] = Addrs(pools[p].backends)
      BY <1>3, <2>1 DEF CommitSwap, Captured
    <3> QED BY <2>3, <3>1, <3>2, BuiltSet
  <2> QED BY <1>1, <1>3, <2>1, <2>2, <2>3, <2>4 DEF LiveServes, StagedServes, Step
<1> QED BY <1>2, <1>3

LEMMA ServingActivate ==
  ASSUME Owned, Serving, NEW k \in Keys, Activate(k)
  PROVE  Serving'
<1>1. /\ live \in [Keys -> Entries \cup {None}] /\ live[k] # None /\ live[k] \in Entries
      /\ pools \in Seq(Pool) /\ UNCHANGED <<staged, cand, serving, view>>
  BY DEF Activate, ToActivate, Owned, Types
<1>2. PICK p \in DOMAIN pools : p = live[k].pool /\ pools[p] \in Pool
  BY <1>1, PoolFields DEF Owned, LiveOK
<1>3. PICK x : /\ x = [pools[p] EXCEPT !.epoch = pools[p].epoch + 1]
               /\ x.circuit = pools[p].circuit /\ x.policy = pools[p].policy /\ x.backends = pools[p].backends
  <2> DEFINE y == [pools[p] EXCEPT !.epoch = pools[p].epoch + 1]
  <2>1. y.circuit = pools[p].circuit /\ y.policy = pools[p].policy /\ y.backends = pools[p].backends
    BY <1>2 DEF Pool
  <2> QED BY <2>1
<1>4. \A q \in DOMAIN pools : Contents(q)
  <2>1. pools' = [pools EXCEPT ![p] = x]
    BY <1>2, <1>3 DEF Activate
  <2> QED BY <1>1, <1>3, <2>1 DEF Contents
<1>5. PICK e \in Entries : /\ e = [live[k] EXCEPT !.disc = FALSE, !.replace = FALSE, !.targets = {}]
                           /\ e.pool = live[k].pool /\ e.shape = live[k].shape
  <2> DEFINE y == [live[k] EXCEPT !.disc = FALSE, !.replace = FALSE, !.targets = {}]
  <2>1. y \in Entries /\ y.pool = live[k].pool /\ y.shape = live[k].shape
    BY <1>1 DEF Entries
  <2> QED BY <2>1
<1>6. live' = [live EXCEPT ![k] = e] /\ e # None
  BY <1>5, RegistryAssumption DEF Activate
<1>7. \A j \in Keys : /\ live'[j] = None <=> live[j] = None
                      /\ live[j] # None => live'[j].pool = live[j].pool /\ live'[j].shape = live[j].shape
  BY <1>1, <1>5, <1>6
<1> QED BY <1>1, <1>4, <1>7, ServingKept

LEMMA ServingRefresher ==
  ASSUME Owned, Serving, NEW w \in DOMAIN workers, Refresher(w)
  PROVE  Serving'
<1>1. UNCHANGED <<live, staged, cand, serving, view>>
  BY DEF Refresher, Resolve, Apply, Store, Exit
<1>2. \A p \in DOMAIN pools : Contents(p)
  <2>1. CASE Store(w)
    <3>1. /\ pools \in Seq(Pool) /\ workers[w].pool \in DOMAIN pools /\ pools[workers[w].pool] \in Pool
          /\ Dynamic(pools[workers[w].pool].key)
      BY <2>1, PoolFields DEF Owned, Types, WorkersOK, WorkerOK, Store, Alive
    <3>2. \A p \in DOMAIN pools : p # workers[w].pool => pools'[p] = pools[p]
      BY <2>1, <3>1 DEF Store
    <3>3. /\ pools'[workers[w].pool].circuit = pools[workers[w].pool].circuit
          /\ pools'[workers[w].pool].policy = pools[workers[w].pool].policy
      BY <2>1, <3>1 DEF Store, Own, Pool
    <3> QED BY <3>1, <3>2, <3>3 DEF Contents
  <2>2. CASE ~Store(w)
    BY <2>2 DEF Refresher, Resolve, Apply, Exit, Contents
  <2> QED BY <2>1, <2>2
<1> QED BY <1>1, <1>2, ServingKept

LEMMA ServingCloseAll ==
  ASSUME Owned, Serving, CloseAll
  PROVE  Serving'
<1>1. \A k \in Keys : live'[k] = None /\ serving'[k] = None /\ staged'[k] = None
  BY NobodyStaged DEF CloseAll
<1> QED BY <1>1 DEF Serving, LiveServes, StagedServes

LEMMA ServingNext == Owned /\ Serving /\ [Next]_vars => Serving'
<1>1. Owned /\ Serving /\ UNCHANGED vars => Serving'
  BY DEF vars, Serving, LiveServes, StagedServes, Step
<1> QED BY <1>1, ServingBegin, ServingFor, ServingFresh, ServingAbort, ServingStoreLimits, ServingRetune,
           ServingSeed, ServingSwap, ServingActivate, ServingRefresher, ServingCloseAll DEF Next, Builder

(* Between builds, and while a candidate is staged or thrown away, every    *)
(* key is served exactly as the last committed configuration says: shape,  *)
(* thresholds, policy, and for a static upstream the servers, each running *)
(* with those thresholds, and the view the handlers captured.              *)
THEOREM RegistryServesAsConfigured == Spec => []ServingAsConfigured
<1>1. Init => Serving
  BY DEF Init, Serving, LiveServes, StagedServes
<1>2. Owned /\ Serving => ServingAsConfigured
  <2> SUFFICES ASSUME Owned, Serving, Settled, NEW k \in Keys
               PROVE  /\ live[k] = None <=> serving[k] = None
                      /\ live[k] # None =>
                           LET pool == pools[live[k].pool]
                               up == serving[k]
                           IN /\ ~pool.closed /\ pool.key = k
                              /\ <<live[k].shape, pool.circuit, pool.policy>> = <<up.shape, up.circuit, up.policy>>
                              /\ ~Dynamic(k) => pool.backends = Built(up.servers, up.circuit)
                              /\ ~Dynamic(k) => view[k] = up.servers
    BY DEF ServingAsConfigured
  <2>1. LiveOK(k) /\ LiveServes(k) /\ Step(k) = "none"
    BY DEF Owned, Serving, StagedOK, Settled, Step
  <2> QED BY <2>1 DEF LiveOK, LiveServes
<1> QED BY <1>1, <1>2, OwnedInit, OwnedNext, ServingNext, PTL DEF Spec
-----------------------------------------------------------------------------
(* Keep last good.                                                         *)
NotEmptied(p) == pools[p].backends # {} => pools'[p].backends # {}

LEMMA AddrsEmpty == Addrs({}) = {}
  BY DEF Addrs

LEMMA NonEmptySet ==
  ASSUME NEW bs \in SUBSET Backends, Unique(bs), NEW addrs \in SUBSET Targets, addrs # {}, NEW cp \in Nat
  PROVE  Replaced(bs, addrs, cp) # {} /\ Built(addrs, cp) # {}
<1>1. Addrs(Built(addrs, cp)) # {}
  BY BuiltSet
<1>2. Addrs(Replaced(bs, addrs, cp)) # {}
  BY ReplacedSet
<1> QED BY <1>1, <1>2, AddrsEmpty

LEMMA KeptStore ==
  ASSUME Owned, NEW w \in DOMAIN workers, Store(w), NEW p \in DOMAIN pools
  PROVE  NotEmptied(p)
<1>1. /\ pools \in Seq(Pool) /\ workers[w].pool \in DOMAIN pools /\ pools[workers[w].pool] \in Pool
      /\ workers[w].targets \in SUBSET Targets /\ workers[w].targets # {} /\ workers[w].cp \in Nat
      /\ Unique(pools[workers[w].pool].backends)
  BY PoolFields, WorkerFields DEF Owned, Types, WorkersOK, WorkerOK, Store, Alive, PoolOK, Unique
<1>2. p # workers[w].pool => pools'[p] = pools[p]
  BY <1>1 DEF Store
<1>3. pools'[workers[w].pool].backends
         = Replaced(pools[workers[w].pool].backends, workers[w].targets, workers[w].cp)
  BY <1>1 DEF Store, Own, Pool
<1>4. pools'[workers[w].pool].backends # {}
  BY <1>1, <1>3, NonEmptySet DEF Pool
<1> QED BY <1>2, <1>4 DEF NotEmptied

LEMMA KeptTune ==
  ASSUME Owned, NEW k \in Keys, StoreLimits(k) \/ RetuneBackends(k) \/ SeedBackends(k), NEW p \in DOMAIN pools
  PROVE  NotEmptied(p)
<1>1. PICK from \in {"none", "stored", "retuned"}, to \in {"stored", "retuned", "done"} : Stepped(k, from, to)
  BY Step1 DEF StoreLimits, RetuneBackends, SeedBackends
<1>2. PICK pool \in Pool : pool = pools[staged[k].pool] /\ Unique(pool.backends) /\ pool.key = k
  BY <1>1, PoolFields DEF Owned, Types, Stepped, PoolOK, Unique
<1>3. /\ pools \in Seq(Pool) /\ staged[k].pool \in DOMAIN pools /\ pool.backends \in SUBSET Backends
      /\ pool.circuit \in Nat
  BY <1>1 DEF Owned, Types, Stepped, Pool
<1>4. p # staged[k].pool => pools'[p] = pools[p]
  BY <1>3 DEF StoreLimits, RetuneBackends, SeedBackends
<1> SUFFICES ASSUME pool.backends # {} PROVE pools'[staged[k].pool].backends # {}
  BY <1>2, <1>4 DEF NotEmptied
<1>5. CASE StoreLimits(k)
  BY <1>2, <1>3, <1>5 DEF StoreLimits, Pool
<1>6. CASE RetuneBackends(k)
  <2>1. Addrs(pool.backends) \in SUBSET Targets /\ Addrs(pool.backends) # {}
    BY <1>3 DEF Addrs, Backends
  <2>2. pools'[staged[k].pool].backends = Built(Addrs(pool.backends), pool.circuit)
    BY <1>2, <1>3, <1>6 DEF RetuneBackends, Retuned, Pool
  <2> QED BY <1>2, <1>3, <2>1, <2>2, NonEmptySet
<1>7. CASE SeedBackends(k)
  <2>1. pools'[staged[k].pool] = Result(pool, staged[k], cand[k])
    BY <1>2, <1>3, <1>7 DEF SeedBackends, Result
  <2>2. PICK x : x = Result(pool, staged[k], cand[k])
    OBVIOUS
  <2>3. /\ staged[k] \in Entries /\ cand[k] \in Upstream
        /\ staged[k].targets \in SUBSET Targets /\ cand[k].servers \in SUBSET Targets
        /\ ~Dynamic(k) => cand[k].servers # {}
    BY <1>1 DEF Stepped, Entries, Upstream, Owned, BuildOK, Dynamic
  <2>4. \/ x.backends = pool.backends
        \/ staged[k].targets # {} /\ x.backends = Replaced(pool.backends, staged[k].targets, pool.circuit)
        \/ ~Dynamic(k) /\ x.backends = Replaced(pool.backends, cand[k].servers, pool.circuit)
    BY <1>2, <2>2, <2>3, ResultPool
  <2>5. x.backends # {}
    BY <1>2, <1>3, <2>3, <2>4, NonEmptySet
  <2> QED BY <2>1, <2>2, <2>5
<1> QED BY <1>5, <1>6, <1>7

LEMMA KeptNext ==
  ASSUME Owned, [Next]_vars, NEW p \in DOMAIN pools
  PROVE  NotEmptied(p)
<1>1. pools \in Seq(Pool) /\ pools[p] \in Pool
  BY PoolFields DEF Owned, Types
<1>2. Closed(pools[p]).backends = pools[p].backends
  BY <1>1, FencedPool
<1>3. CASE UNCHANGED pools
  BY <1>3 DEF NotEmptied
<1>4. CASE Abort \/ CommitSwap \/ CloseAll
  <2>1. pools'[p] \in {pools[p], Closed(pools[p])}
    BY <1>4 DEF Abort, CommitSwap, CloseAll
  <2> QED BY <1>2, <2>1 DEF NotEmptied
<1>5. ASSUME NEW k \in Keys, ForFresh(k) PROVE NotEmptied(p)
  <2>1. pools'[p] = pools[p]
    BY <1>1, <1>5 DEF ForFresh
  <2> QED BY <2>1 DEF NotEmptied
<1>6. ASSUME NEW k \in Keys, Activate(k) PROVE NotEmptied(p)
  <2>1. pools'[p].backends = pools[p].backends
    BY <1>1, <1>6 DEF Activate, Pool
  <2> QED BY <2>1 DEF NotEmptied
<1>7. ASSUME NEW w \in DOMAIN workers, Refresher(w) PROVE NotEmptied(p)
  BY <1>3, <1>7, KeptStore DEF Refresher, Resolve, Apply, Exit
<1> QED BY <1>3, <1>4, <1>5, <1>6, <1>7, KeptTune DEF Next, Builder, Begin, ForReused, vars

(* A pool that is built with servers configured has backends from the start. *)
LEMMA FreshFilled ==
  ASSUME Owned, NEW k \in Keys, ForFresh(k), NEW p \in DOMAIN pools' \ DOMAIN pools,
         cand[pools'[p].key].servers # {}
  PROVE  pools'[p].backends # {}
<1>1. pools \in Seq(Pool) /\ cand[k] \in Upstream /\ EgressGen(k) \in Nat
  BY DEF ForFresh, Owned, Types, Wanted, EgressGen, Generations
<1>2. PICK answer \in IF Dynamic(k) THEN Answers ELSE {{}} :
        pools' = Append(pools, NewPool(k, cand[k], FirstSet(cand[k].servers, answer), EgressGen(k)))
  BY DEF ForFresh
<1> DEFINE ts == FirstSet(cand[k].servers, answer)
           np == NewPool(k, cand[k], ts, EgressGen(k))
<1>3. ts \in SUBSET Targets /\ (cand[k].servers # {} => ts # {})
  BY <1>1, FirstSets
<1> HIDE DEF ts
<1>4. np \in Pool /\ np.key = k /\ np.backends = Built(ts, cand[k].circuit)
  <2>1. Built(ts, cand[k].circuit) \in SUBSET Backends
    BY <1>1, <1>3, BuiltSet DEF Upstream
  <2> QED BY <1>1, <2>1 DEF NewPool, Pool, Upstream
<1> HIDE DEF np
<1>5. pools'[p] = np
  <2>1. pools' = Append(pools, np)
    BY <1>2 DEF np, ts
  <2> QED BY <1>1, <1>4, <2>1, SeqAppend
<1>6. ts # {} /\ cand[k].circuit \in Nat
  BY <1>1, <1>3, <1>4, <1>5 DEF Upstream
<1>7. Built(ts, cand[k].circuit) # {}
  <2>1. {} \in SUBSET Backends /\ Unique({})
    BY DEF Unique
  <2> QED BY <1>3, <1>6, <2>1, NonEmptySet
<1> QED BY <1>4, <1>5, <1>7

(* Only ForFresh builds a pool. *)
LEMMA NoOtherPools ==
  ASSUME Owned, [Next]_vars, \A k \in Keys : ~ForFresh(k)
  PROVE  DOMAIN pools' = DOMAIN pools
<1>1. pools \in Seq(Pool)
  BY DEF Owned, Types
<1>2. CASE Abort \/ CommitSwap \/ CloseAll
  BY <1>2 DEF Abort, CommitSwap, CloseAll
<1>3. ASSUME NEW k \in Keys, StoreLimits(k) \/ RetuneBackends(k) \/ SeedBackends(k) \/ Activate(k)
      PROVE  DOMAIN pools' = DOMAIN pools
  BY <1>1, <1>3 DEF StoreLimits, RetuneBackends, SeedBackends, Activate
<1>4. ASSUME NEW w \in DOMAIN workers, Refresher(w) PROVE DOMAIN pools' = DOMAIN pools
  BY <1>1, <1>4 DEF Refresher, Resolve, Apply, Store, Exit
<1> QED BY <1>2, <1>3, <1>4 DEF Next, Builder, Begin, ForReused, vars

(* No failed or empty answer of a provider, no change of the egress policy  *)
(* and no reload leaves a pool without backends that had one, and a pool   *)
(* with configured servers has one from the start, whatever its provider   *)
(* answers first.                                                          *)
THEOREM RegistryKeepsLastGood == Spec => KeepsLastGood
<1>1. ASSUME Owned, [Next]_vars, NEW p \in DOMAIN pools' \ DOMAIN pools,
             cand[pools'[p].key].servers # {}
      PROVE  pools'[p].backends # {}
  BY <1>1, FreshFilled, NoOtherPools
<1>2. Owned /\ [Next]_vars =>
        [/\ \A p \in DOMAIN pools : pools[p].backends # {} => pools'[p].backends # {}
         /\ \A p \in DOMAIN pools' \ DOMAIN pools :
               cand[pools'[p].key].servers # {} => pools'[p].backends # {}]_vars
  BY <1>1, KeptNext DEF NotEmptied
<1> QED BY <1>2, RegistryOwned, PTL DEF Spec, KeepsLastGood
=============================================================================
