-------------------------- MODULE CacheStoreProofs --------------------------
(***************************************************************************)
(* The two tiers of the response cache, for every number of calls, every   *)
(* cap on the fences and every number of crashes.                          *)
(***************************************************************************)
EXTENDS CacheStore, FiniteSetTheorems, TLAPS

(***************************************************************************)
(* What the proofs speak of: the generation of the key, 0 when it has      *)
(* none; the uses a keyGenState counts; the calls that hold an entry they  *)
(* may still store; the entries that are somewhere.                        *)
(***************************************************************************)
GenOf(st) == IF st = None THEN 0 ELSE st.gen
KG == GenOf(keyGen)
Uses(st) == IF st = None THEN 0 ELSE st.inflight
InDisk(st) == st # None /\ st.inDisk
Pin(era) == IF era = purgeGen THEN 1 ELSE 0

Carries(t) == task[t].pc \in {"write", "evicted", "flush", "promote"}
Live(e) == e = mem \/ e = item \/ \E t \in Tasks : Carries(t) /\ e = task[t].ent

Pinned == {t \in Tasks : task[t].era = purgeGen}
Pinned2 == {t \in Tasks : task[t].era2 = purgeGen}

ScopedAt == {"prepare", "batch", "unlink", "close"}
AllAt == {"prepareall", "unlinkall", "closeall"}
DeleteAt == {"delmem", "deldisk"}
PinnedAt == {"write", "undo", "check", "evicted", "flush", "read", "promote", "deldisk"}

(* What the place of a call says about its locals. *)
Shaped(r) ==
    /\ r.pc = "idle" => r = Idle
    /\ r.pc = "done" => r = Done
    /\ r.start # 0 => r.pc \in {"origin", "write", "undo", "check", "unstore", "drop"}
    /\ r.pc \in {"origin", "write", "undo", "check"} => r.start # 0
    /\ r.era # None => r.pc \in PinnedAt \/ (r.pc \in {"unstore", "drop"} /\ r.start # 0)
    /\ r.pc \in PinnedAt => r.era # None
    /\ r.era2 # None => r.pc = "drop"
    /\ r.pc \in {"write", "undo", "evicted", "flush", "promote", "hit", "got"} => r.ent # None
    /\ r.pc = "write" => r.ent.gen = r.gen /\ r.ent.seen = r.seen /\ r.prev < r.gen

(* No generation or serial number is ahead of its counter. *)
Bounded(r) ==
    /\ r.start <= genSeq /\ r.gen <= genSeq /\ r.prev <= genSeq
    /\ r.max <= IF r.pc \in DeleteAt THEN deletes ELSE genSeq
    /\ r.seen <= purges /\ r.since <= owed /\ r.after <= deletes
    /\ r.pc = "hit" => r.ent.gen <= genSeq /\ r.seen <= r.since
    /\ r.era \in {None} \cup 0 .. purgeGen /\ r.era2 \in {None} \cup 0 .. purgeGen

Counted ==
    /\ purgeGen <= genSeq /\ hw <= genSeq /\ floor <= genSeq /\ KG <= genSeq
    /\ durableGen <= genSeq /\ owedGen <= genSeq
    /\ durable <= owed /\ ended <= owed /\ owed <= purges /\ deleted <= deletes
    /\ \A e \in Entry : Live(e) => e.gen \in 1 .. genSeq /\ e.seen <= purges /\ e.pub <= deletes

(* The keyGenState belongs to the catalog in force, counts who pins it and *)
(* is there only as long as something needs it.                            *)
GoodKey(st, m) ==
    /\ st \in KeyState \cup {None}
    /\ st # None => st.era = purgeGen /\ (m # None \/ st.inDisk \/ st.inflight > 0)
Catalog ==
    /\ GoodKey(keyGen, mem)
    /\ Uses(keyGen) = Cardinality(Pinned) + Cardinality(Pinned2)
    /\ CatalogComplete

Sound ==
    /\ TypeOK /\ IsFiniteSet(fences)
    /\ \A t \in Tasks : Shaped(task[t]) /\ Bounded(task[t])
    /\ Counted /\ Catalog
-----------------------------------------------------------------------------
(* The publications under way, in the order of their generations: each one *)
(* knows the one before it, and one whose body is only on disk may take    *)
(* the key back there.                                                     *)
Writes(t) == task[t].pc = "write" /\ task[t].era = purgeGen
WritesLarge(t) == Writes(t) /\ task[t].ent.large

Chained ==
    /\ KG = 0 \/ KG > purgeGen
    /\ \A t \in Tasks :
          /\ task[t].pc = "write" /\ task[t].gen >= purgeGen => task[t].era = purgeGen
          /\ Writes(t) => /\ task[t].gen <= KG
                          /\ task[t].prev = 0 \/ task[t].prev > purgeGen
    /\ \A t, u \in Tasks :
          /\ task[t].pc = "write" /\ task[u].pc = "write" /\ t # u => task[t].gen # task[u].gen
          /\ Writes(t) /\ Writes(u) /\ task[t].gen < task[u].gen => task[t].gen <= task[u].prev

(* Nothing but the call itself has what a large publication will store. *)
Alone ==
    \A t \in Tasks : WritesLarge(t) =>
       /\ mem # None => mem.gen # task[t].gen
       /\ item # None => item.gen # task[t].gen
       /\ \A u \in Tasks : task[u].pc \in {"evicted", "flush", "promote"} => task[u].ent.gen # task[t].gen

(* The file is never newer than the key, nor between a large publication   *)
(* and the one before it; a lookup does not hold a newer one than is there.*)
Filed ==
    /\ item # None /\ item.gen > purgeGen =>
          /\ item.gen <= KG
          /\ \A t \in Tasks : WritesLarge(t) => item.gen <= task[t].prev \/ item.gen > task[t].gen
    /\ \A u \in Tasks :
          /\ task[u].pc = "promote" /\ item # None
          /\ \/ task[u].ent.gen = KG
             \/ \E t \in Tasks : WritesLarge(t) /\ task[u].ent.gen = task[t].prev
          => task[u].ent.gen <= item.gen

Tiers ==
    /\ mem # None => mem.gen = KG
    /\ mem # None /\ item # None =>
          \/ item.gen = mem.gen
          \/ \E t \in Tasks : Writes(t) /\ ~task[t].ent.large /\ task[t].gen = mem.gen

Ordered == Chained /\ Alone /\ Filed /\ Tiers
-----------------------------------------------------------------------------
(* The generations that can never be current again. *)
Sealed == {g \in 0 .. genSeq :
    \/ g < purgeGen
    \/ \E d \in g .. genSeq :
          /\ KG = 0 \/ KG > d
          /\ \A u \in Tasks : WritesLarge(u) /\ task[u].gen > d => task[u].prev = 0 \/ task[u].prev > d}

(* The deletes of which this holds: no call is going to store what was     *)
(* published before it, memory does not have it, and nobody will read it.  *)
Cut == {d \in Nat :
    /\ mem # None => d <= mem.pub
    /\ item # None /\ item.pub < d => item.gen \in Sealed
    /\ \A t \in Tasks : Carries(t) /\ task[t].ent.pub < d => task[t].ent.gen \in Sealed}

Deletes ==
    /\ \A t, u \in Tasks : task[t].pc \in DeleteAt /\ task[u].pc \in DeleteAt => t = u
    /\ \A t \in Tasks : task[t].after <= deleted /\ (task[t].pc \in DeleteAt => deleted <= task[t].max)
    /\ deleted \in Cut /\ (item # None => deleted <= item.pub)
    /\ \A t \in Tasks : task[t].pc = "deldisk" => task[t].max \in Cut
    /\ \A t \in Tasks : task[t].pc = "hit" => task[t].ent.pub >= task[t].after
    /\ DeleteHolds
-----------------------------------------------------------------------------
(* A purge's cutoff separates what began before it from what began after. *)
Newer ==
    \A t \in Tasks : task[t].pc \in ScopedAt \cup AllAt /\ task[t].since # 0 =>
       \A e \in Entry : Live(e) /\ e.seen >= task[t].since => e.gen > task[t].max
-----------------------------------------------------------------------------
(* The cutoffs that the key's generation is past, and those at which a     *)
(* rollback would be noticed; the starts of work that may not publish.     *)
Past == {c \in Nat : KG = 0 \/ KG > c}
Barred == {c \in Nat : c <= owedGen}
Fenced == {s \in Nat : s <= purgeGen \/ s <= floor \/ \E f \in fences : s <= f.gen}

Scoped(t) == task[t].pc \in ScopedAt
(* A scoped purge that has nothing to remove from memory and catalog, or   *)
(* has removed it; and also nothing on disk.                               *)
Cleared(t) == task[t].pc \in {"prepare", "close"} /\ ~task[t].rest
Through(t) == task[t].pc = "unlink" \/ Cleared(t)

(* Work that began before the last purge in force cannot publish.          *)
WorkFenced == \A t \in Tasks : task[t].pc \in {"origin", "write"} /\ task[t].seen < owed => task[t].start \in Fenced

(* The fence of a purge that has not ended is within the last cutoff, and  *)
(* each cutoff has one fence and one call at work on it.                   *)
FencesOwned ==
    /\ \A f \in fences : f.gen > purgeGen /\ (Unfinished(f) => f.gen \in Barred)
    /\ \A f, h \in fences : f.gen = h.gen => f = h
    /\ \A t \in Tasks : Scoped(t) => \A f \in fences : f.gen = task[t].max => f.active
    /\ \A t, u \in Tasks : Scoped(t) /\ Scoped(u) /\ t # u => task[t].max # task[u].max

(* The cutoffs of the purges under way, and of those that count, are known.*)
CutoffsKnown ==
    /\ \A t \in Tasks : Scoped(t) => task[t].max # purgeGen /\ task[t].max \in Barred
    /\ \A t \in Tasks : task[t].pc \in AllAt => task[t].max <= purgeGen
    /\ \A t \in Tasks : task[t].pc = "prepare" /\ ~task[t].flag => task[t].max \in plan \/ task[t].max <= purgeGen
    /\ purgeGen \in Barred /\ owedGen \in Barred /\ durableGen \in Barred

(* A file from before a purge of everything keeps that purge's intent.     *)
Leftovers ==
    /\ item # None /\ item.gen <= purgeGen => purgeGen \in plan
    /\ \A t \in Tasks : task[t].pc = "closeall" => item = None \/ item.gen > task[t].max

Barriers == WorkFenced /\ FencesOwned /\ CutoffsKnown /\ Leftovers

(* What began before a purge has a generation within its cutoff. *)
Cutoffs ==
    \A e \in Entry : Live(e) =>
       /\ e.seen < owed => e.gen <= owedGen
       /\ e.seen < durable => e.gen <= durableGen
       /\ \A t \in Tasks : task[t].pc \in ScopedAt \cup AllAt /\ e.seen < task[t].since => e.gen <= task[t].max

(* A cutoff that counts is honoured by lookups, or the key is past it; and *)
(* a restart honours it, or the key and the file are past it.              *)
Honoured ==
    /\ owedGen = 0 \/ owedGen \in Past \/ owedGen \in Enforced
    /\ durableGen = 0 \/ durableGen \in Past \/ (durableGen \in plan /\ (durableGen \in intents \/ 0 \in intents))
    /\ \A t \in Tasks : Through(t) => task[t].max \in Past
    /\ \A t \in Tasks : Cleared(t) => item = None \/ item.gen > task[t].max \/ item.gen <= purgeGen
    /\ item # None /\ item.seen < durable =>
          /\ \E g \in intents : g = 0 \/ item.gen <= g
          /\ \E g \in plan : item.gen <= g
    /\ mem # None => mem.seen >= ended

(* A lookup that has not found it in memory will not find it there later.  *)
Looked ==
    \A t \in Tasks :
       /\ task[t].pc \in {"probe", "read", "promote"} \/ (task[t].pc = "drop" /\ task[t].start = 0)
             => mem = None \/ mem.seen >= task[t].since
       /\ task[t].pc = "unstore" /\ task[t].start = 0
             => mem = None \/ mem.seen >= task[t].since \/ mem.gen <= task[t].max

(* What a lookup has found in memory has outlived the purges that had      *)
(* ended, and is within the last cutoff if that purge covers it.           *)
Found ==
    \A t \in Tasks : task[t].pc = "hit" =>
       /\ task[t].ent.seen >= task[t].seen
       /\ task[t].ent.seen < task[t].since => task[t].ent.gen <= task[t].max
       /\ mem = None \/ mem.seen >= task[t].since \/ mem.gen <= task[t].ent.gen

InForce == Cutoffs /\ Honoured /\ Looked /\ Found /\ PurgeFinal
Purged == ~rolled /\ ~passed => InForce
-----------------------------------------------------------------------------
(* Types, and the locals of a call.                                        *)
LEMMA Types ==
  ASSUME TypeOK
  PROVE  /\ genSeq \in Nat /\ purgeGen \in Nat /\ hw \in Nat /\ floor \in Nat
         /\ purges \in Nat /\ durable \in Nat /\ owed \in Nat /\ durableGen \in Nat /\ owedGen \in Nat /\ ended \in Nat
         /\ deletes \in Nat /\ deleted \in Nat /\ crashes \in Nat
         /\ rolled \in BOOLEAN /\ passed \in BOOLEAN
         /\ mem \in Entry \cup {None} /\ item \in Entry \cup {None} /\ left \in Entry \cup {None}
         /\ keyGen \in KeyState \cup {None}
         /\ task \in [Tasks -> Calls] /\ \A t \in Tasks : task[t] \in Calls
  BY DEF TypeOK

LEMMA NoneApart == None \notin Nat /\ None \notin Entry /\ None \notin KeyState
  BY CacheStoreAssumption

LEMMA BecomeMoves ==
  ASSUME TypeOK, NEW t \in Tasks, NEW r, Become(t, r)
  PROVE  task'[t] = r /\ task' = [task EXCEPT ![t] = task'[t]] /\ \A u \in Tasks \ {t} : task'[u] = task[u]
  BY DEF TypeOK, Become

LEMMA IdleFields ==
  /\ Idle.pc = "idle" /\ Idle.start = 0 /\ Idle.gen = 0 /\ Idle.prev = 0 /\ Idle.max = 0
  /\ Idle.era = None /\ Idle.era2 = None /\ Idle.ent = None
  /\ Idle.seen = 0 /\ Idle.since = 0 /\ Idle.after = 0 /\ Idle.flag = FALSE /\ Idle.rest = FALSE
  BY DEF Idle

LEMMA DoneFields ==
  /\ Done.pc = "done" /\ Done.start = 0 /\ Done.gen = 0 /\ Done.prev = 0 /\ Done.max = 0
  /\ Done.era = None /\ Done.era2 = None /\ Done.ent = None
  /\ Done.seen = 0 /\ Done.since = 0 /\ Done.after = 0 /\ Done.flag = FALSE /\ Done.rest = FALSE
  BY DEF Idle, Done

LEMMA IdleCall == Idle \in Calls /\ Done \in Calls
  BY DEF Calls, Idle, Done, Places

LEMMA IdleShaped == Shaped(Idle) /\ Shaped(Done)
  BY IdleFields, DoneFields DEF Shaped, PinnedAt

LEMMA StoodFields ==
  ASSUME TypeOK, NEW t \in Tasks
  PROVE  /\ Stood(t) \in Calls /\ Stood(t).pc = "check" /\ Stood(t).start = task[t].start /\ Stood(t).gen = task[t].gen
         /\ Stood(t).prev = 0 /\ Stood(t).max = 0 /\ Stood(t).era = task[t].era /\ Stood(t).era2 = None
         /\ Stood(t).ent = None /\ Stood(t).seen = 0 /\ Stood(t).since = 0 /\ Stood(t).after = 0
<1>1. task[t].start \in Nat /\ task[t].gen \in Nat /\ task[t].era \in Nat \cup {None} /\ "check" \in Places
  BY Types DEF Calls, Places
<1> QED BY <1>1, IdleCall, IdleFields DEF Stood, Calls

-----------------------------------------------------------------------------
(* The keyGenState.                                                        *)
LEMMA KeyFields ==
  ASSUME NEW st \in KeyState
  PROVE  /\ st # None /\ st.gen \in Nat /\ st.inflight \in Nat /\ st.inDisk \in BOOLEAN /\ st.era \in Nat
         /\ GenOf(st) = st.gen /\ Uses(st) = st.inflight /\ (InDisk(st) <=> st.inDisk)
  BY NoneApart DEF KeyState, GenOf, Uses, InDisk

LEMMA NoKeyFields == GenOf(None) = 0 /\ Uses(None) = 0 /\ ~InDisk(None) /\ \A m : GoodKey(None, m)
  BY DEF GenOf, Uses, InDisk, GoodKey

LEMMA BeginNextKey ==
  ASSUME TypeOK, NEW st, NEW m, NEW m2, GoodKey(st, m)
  PROVE  /\ GoodKey(BeginNext(st), m2) /\ BeginNext(st) # None /\ BeginNext(st).era = purgeGen
         /\ GenOf(BeginNext(st)) = genSeq + 1
         /\ Uses(BeginNext(st)) = Uses(st) + 1
         /\ InDisk(BeginNext(st)) <=> InDisk(st)
<1>1. genSeq \in Nat /\ purgeGen \in Nat
  BY Types
<1>2. CASE st = None
  <2>1. BeginNext(st) = [gen |-> genSeq + 1, inflight |-> 1, inDisk |-> FALSE, era |-> purgeGen]
    BY <1>2 DEF BeginNext
  <2>2. BeginNext(st) \in KeyState
    BY <1>1, <2>1 DEF KeyState
  <2>3. /\ BeginNext(st).gen = genSeq + 1 /\ BeginNext(st).inflight = 1 /\ BeginNext(st).inflight > 0
        /\ ~BeginNext(st).inDisk /\ BeginNext(st).era = purgeGen
    BY <2>1
  <2>4. GoodKey(BeginNext(st), m2)
    BY <2>2, <2>3, KeyFields DEF GoodKey
  <2>5. /\ GenOf(BeginNext(st)) = BeginNext(st).gen /\ Uses(BeginNext(st)) = BeginNext(st).inflight
        /\ InDisk(BeginNext(st)) <=> BeginNext(st).inDisk
    BY <2>2, KeyFields
  <2>6. ~InDisk(BeginNext(st)) /\ ~InDisk(st)
    BY <1>2, <2>3, <2>5, NoKeyFields
  <2> QED BY <1>1, <1>2, <2>2, <2>3, <2>4, <2>5, <2>6, KeyFields, NoKeyFields
<1>3. CASE st # None
  <2>1. BeginNext(st) = [st EXCEPT !.gen = genSeq + 1, !.inflight = @ + 1] /\ st \in KeyState /\ st.era = purgeGen
    BY <1>3 DEF BeginNext, GoodKey
  <2>2. st.inflight + 1 \in Nat /\ genSeq + 1 \in Nat /\ st.inflight \in Nat /\ st.inflight + 1 > 0
    BY <1>1, <2>1, KeyFields
  <2>3. BeginNext(st) \in KeyState
    BY <2>1, <2>2 DEF KeyState
  <2>4. /\ BeginNext(st).gen = genSeq + 1 /\ BeginNext(st).inflight = st.inflight + 1
        /\ BeginNext(st).inDisk = st.inDisk /\ BeginNext(st).era = purgeGen
    BY <2>1 DEF KeyState
  <2>5. GoodKey(BeginNext(st), m2)
    BY <2>2, <2>3, <2>4 DEF GoodKey
  <2>6. InDisk(BeginNext(st)) <=> InDisk(st)
    BY <2>1, <2>3, <2>4, KeyFields DEF InDisk
  <2>7. GenOf(BeginNext(st)) = BeginNext(st).gen /\ Uses(BeginNext(st)) = BeginNext(st).inflight /\ BeginNext(st) # None
    BY <2>3, KeyFields
  <2>8. GenOf(st) = st.gen /\ Uses(st) = st.inflight
    BY <2>1, KeyFields
  <2> QED BY <2>4, <2>5, <2>6, <2>7, <2>8
<1> QED BY <1>2, <1>3

LEMMA BeginReadKey ==
  ASSUME TypeOK, NEW st, NEW m, NEW m2, GoodKey(st, m)
  PROVE  /\ GoodKey(BeginRead(st), m2) /\ BeginRead(st) # None /\ BeginRead(st).era = purgeGen
         /\ GenOf(BeginRead(st)) = GenOf(st) /\ BeginRead(st).gen = GenOf(st)
         /\ Uses(BeginRead(st)) = Uses(st) + 1
         /\ InDisk(BeginRead(st)) <=> InDisk(st)
<1>1. genSeq \in Nat /\ purgeGen \in Nat
  BY Types
<1>2. CASE st = None
  <2>1. BeginRead(st) = [gen |-> 0, inflight |-> 1, inDisk |-> FALSE, era |-> purgeGen]
    BY <1>2 DEF BeginRead
  <2>2. BeginRead(st) \in KeyState
    BY <1>1, <2>1 DEF KeyState
  <2>3. /\ BeginRead(st).gen = 0 /\ BeginRead(st).inflight = 1 /\ BeginRead(st).inflight > 0
        /\ ~BeginRead(st).inDisk /\ BeginRead(st).era = purgeGen
    BY <2>1
  <2>4. GoodKey(BeginRead(st), m2)
    BY <2>2, <2>3, KeyFields DEF GoodKey
  <2>5. /\ GenOf(BeginRead(st)) = BeginRead(st).gen /\ Uses(BeginRead(st)) = BeginRead(st).inflight
        /\ InDisk(BeginRead(st)) <=> BeginRead(st).inDisk
    BY <2>2, KeyFields
  <2>6. ~InDisk(BeginRead(st)) /\ ~InDisk(st)
    BY <1>2, <2>3, <2>5, NoKeyFields
  <2> QED BY <1>1, <1>2, <2>2, <2>3, <2>4, <2>5, <2>6, KeyFields, NoKeyFields
<1>3. CASE st # None
  <2>1. BeginRead(st) = [st EXCEPT !.inflight = @ + 1] /\ st \in KeyState /\ st.era = purgeGen
    BY <1>3 DEF BeginRead, GoodKey
  <2>2. st.inflight + 1 \in Nat /\ genSeq + 1 \in Nat /\ st.inflight \in Nat /\ st.inflight + 1 > 0
    BY <1>1, <2>1, KeyFields
  <2>3. BeginRead(st) \in KeyState
    BY <2>1, <2>2 DEF KeyState
  <2>4. /\ BeginRead(st).gen = st.gen /\ BeginRead(st).inflight = st.inflight + 1
        /\ BeginRead(st).inDisk = st.inDisk /\ BeginRead(st).era = purgeGen
    BY <2>1 DEF KeyState
  <2>5. GoodKey(BeginRead(st), m2)
    BY <2>2, <2>3, <2>4 DEF GoodKey
  <2>6. InDisk(BeginRead(st)) <=> InDisk(st)
    BY <2>1, <2>3, <2>4, KeyFields DEF InDisk
  <2>7. GenOf(BeginRead(st)) = BeginRead(st).gen /\ Uses(BeginRead(st)) = BeginRead(st).inflight /\ BeginRead(st) # None
    BY <2>3, KeyFields
  <2>8. GenOf(st) = st.gen /\ Uses(st) = st.inflight
    BY <2>1, KeyFields
  <2> QED BY <2>4, <2>5, <2>6, <2>7, <2>8
<1> QED BY <1>2, <1>3

LEMMA ReclaimedKey ==
  ASSUME TypeOK, NEW st \in KeyState, NEW m, st.era = purgeGen
  PROVE  /\ GoodKey(Reclaimed(st, m), m)
         /\ \/ GenOf(Reclaimed(st, m)) = GenOf(st) /\ (Reclaimed(st, m) # None <=> st # None)
            \/ Reclaimed(st, m) = None /\ m = None
         /\ Uses(Reclaimed(st, m)) = Uses(st)
         /\ InDisk(Reclaimed(st, m)) <=> InDisk(st)
<1>1. CASE st.inflight = 0 /\ m = None /\ ~st.inDisk
  <2>1. Reclaimed(st, m) = None
    BY <1>1, KeyFields DEF Reclaimed
  <2> QED BY <1>1, <2>1, KeyFields, NoKeyFields
<1>2. CASE ~(st.inflight = 0 /\ m = None /\ ~st.inDisk)
  <2>1. Reclaimed(st, m) = st
    BY <1>2 DEF Reclaimed
  <2> QED BY <1>2, <2>1, KeyFields DEF GoodKey
<1> QED BY <1>1, <1>2

LEMMA FinishedKey ==
  ASSUME TypeOK, NEW st, NEW m, NEW era \in Nat \cup {None}, GoodKey(st, m), Pin(era) <= Uses(st)
  PROVE  /\ GoodKey(Finished(st, era, m), m)
         /\ \/ GenOf(Finished(st, era, m)) = GenOf(st) /\ (Finished(st, era, m) # None <=> st # None)
            \/ Finished(st, era, m) = None /\ m = None
         /\ Uses(Finished(st, era, m)) = Uses(st) - Pin(era)
         /\ InDisk(Finished(st, era, m)) <=> InDisk(st)
<1>1. purgeGen \in Nat
  BY Types
<1>2. CASE st = None
  <2>1. Finished(st, era, m) = st /\ Pin(era) = 0
    BY <1>1, <1>2, NoKeyFields DEF Finished, Pin
  <2> QED BY <1>2, <2>1, NoKeyFields
<1>3. CASE st # None /\ era # purgeGen
  <2>1. Finished(st, era, m) = st /\ Pin(era) = 0 /\ st \in KeyState
    BY <1>1, <1>3 DEF Finished, Pin, GoodKey
  <2> QED BY <1>3, <2>1, KeyFields
<1>4. CASE st # None /\ era = purgeGen
  <2>1. st \in KeyState /\ st.era = purgeGen /\ Pin(era) = 1 /\ st.inflight \in Nat \ {0}
    BY <1>4, KeyFields DEF GoodKey, Pin
  <2>2. /\ [st EXCEPT !.inflight = @ - 1] \in KeyState
        /\ [st EXCEPT !.inflight = @ - 1].era = purgeGen /\ [st EXCEPT !.inflight = @ - 1].inflight = st.inflight - 1
        /\ [st EXCEPT !.inflight = @ - 1].gen = st.gen /\ [st EXCEPT !.inflight = @ - 1].inDisk = st.inDisk
    BY <2>1 DEF KeyState
  <2>3. Finished(st, era, m) = Reclaimed([st EXCEPT !.inflight = @ - 1], m)
    BY <1>1, <1>4, <2>1, NoneApart DEF Finished
  <2> DEFINE s2 == [st EXCEPT !.inflight = @ - 1]
  <2>4. /\ GoodKey(Reclaimed(s2, m), m)
        /\ (GenOf(Reclaimed(s2, m)) = GenOf(s2) /\ Reclaimed(s2, m) # None) \/ (Reclaimed(s2, m) = None /\ m = None)
        /\ Uses(Reclaimed(s2, m)) = Uses(s2)
        /\ InDisk(Reclaimed(s2, m)) <=> InDisk(s2)
    BY <2>2, ReclaimedKey, KeyFields, ZenonT(40)
  <2>5. InDisk(s2) <=> InDisk(st)
    BY <2>1, <2>2, KeyFields DEF InDisk
  <2>6. GenOf(s2) = GenOf(st) /\ Uses(s2) = Uses(st) - Pin(era)
    BY <2>1, <2>2, KeyFields
  <2> QED BY <1>4, <2>3, <2>4, <2>5, <2>6
<1> QED BY <1>2, <1>3, <1>4

LEMMA NotifiedKey ==
  ASSUME TypeOK, NEW st, NEW m, NEW d \in BOOLEAN, GoodKey(st, m)
  PROVE  /\ GoodKey(Notified(st, m, d), m)
         /\ \/ GenOf(Notified(st, m, d)) = GenOf(st) /\ (Notified(st, m, d) # None <=> st # None)
            \/ Notified(st, m, d) = None /\ m = None
         /\ Uses(Notified(st, m, d)) = Uses(st)
         /\ InDisk(Notified(st, m, d)) <=> st # None /\ d
<1>1. CASE st = None
  BY <1>1, NoKeyFields DEF Notified
<1>2. CASE st # None /\ d
  <2>1. Notified(st, m, d) = [st EXCEPT !.inDisk = TRUE] /\ st \in KeyState /\ st.era = purgeGen
    BY <1>2 DEF Notified, GoodKey
  <2>2. /\ [st EXCEPT !.inDisk = TRUE] \in KeyState
        /\ [st EXCEPT !.inDisk = TRUE].era = purgeGen /\ [st EXCEPT !.inDisk = TRUE].inflight = st.inflight
        /\ [st EXCEPT !.inDisk = TRUE].gen = st.gen /\ [st EXCEPT !.inDisk = TRUE].inDisk = TRUE
    BY <2>1 DEF KeyState
  <2> QED BY <1>2, <2>1, <2>2, KeyFields DEF GoodKey
<1>3. CASE st # None /\ ~d
  <2>1. Notified(st, m, d) = Reclaimed([st EXCEPT !.inDisk = FALSE], m) /\ st \in KeyState /\ st.era = purgeGen
    BY <1>3 DEF Notified, GoodKey
  <2>2. /\ [st EXCEPT !.inDisk = FALSE] \in KeyState
        /\ [st EXCEPT !.inDisk = FALSE].era = purgeGen /\ [st EXCEPT !.inDisk = FALSE].inflight = st.inflight
        /\ [st EXCEPT !.inDisk = FALSE].gen = st.gen /\ [st EXCEPT !.inDisk = FALSE].inDisk = FALSE
    BY <2>1 DEF KeyState
  <2> DEFINE s2 == [st EXCEPT !.inDisk = FALSE]
  <2>3. /\ GoodKey(Reclaimed(s2, m), m)
        /\ (GenOf(Reclaimed(s2, m)) = GenOf(s2) /\ Reclaimed(s2, m) # None) \/ (Reclaimed(s2, m) = None /\ m = None)
        /\ Uses(Reclaimed(s2, m)) = Uses(s2)
        /\ InDisk(Reclaimed(s2, m)) <=> InDisk(s2)
    BY <2>2, ReclaimedKey, KeyFields
  <2>4. ~InDisk(s2)
    BY <2>2 DEF InDisk
  <2>5. GenOf(s2) = GenOf(st) /\ Uses(s2) = Uses(st)
    BY <2>1, <2>2, KeyFields
  <2> QED BY <1>3, <2>1, <2>3, <2>4, <2>5
<1> QED BY <1>1, <1>2, <1>3

LEMMA CallFields ==
  ASSUME NEW r \in Calls
  PROVE  /\ r.pc \in Places /\ r.start \in Nat /\ r.gen \in Nat /\ r.prev \in Nat /\ r.max \in Nat
         /\ r.era \in Nat \cup {None} /\ r.era2 \in Nat \cup {None} /\ r.ent \in Entry \cup {None}
         /\ r.seen \in Nat /\ r.since \in Nat /\ r.after \in Nat /\ r.flag \in BOOLEAN /\ r.rest \in BOOLEAN
  BY DEF Calls

LEMMA EntryFields ==
  ASSUME NEW e \in Entry
  PROVE  e # None /\ e.gen \in Nat /\ e.seen \in Nat /\ e.pub \in Nat /\ e.large \in BOOLEAN
  BY NoneApart DEF Entry

LEMMA PlaceNames ==
  /\ "idle" \in Places /\ "done" \in Places /\ "origin" \in Places /\ "write" \in Places /\ "undo" \in Places
  /\ "check" \in Places /\ "unstore" \in Places /\ "drop" \in Places /\ "evicted" \in Places /\ "flush" \in Places
  /\ "probe" \in Places /\ "read" \in Places /\ "promote" \in Places /\ "got" \in Places /\ "delmem" \in Places
  /\ "deldisk" \in Places /\ "prepare" \in Places /\ "prepareall" \in Places /\ "batch" \in Places
  /\ "unlink" \in Places /\ "unlinkall" \in Places /\ "close" \in Places /\ "closeall" \in Places
  /\ "hit" \in Places /\ "wipe" \in Places
  BY DEF Places

LEMMA KeyIsTyped ==
  ASSUME TypeOK, Counted
  PROVE  KG \in 0 .. genSeq
  BY Types, KeyFields, NoKeyFields DEF KG, Counted

LEMMA LiveTyped ==
  ASSUME Sound
  PROVE  /\ mem # None => mem \in Entry /\ mem.gen \in 1 .. genSeq /\ mem.seen <= purges /\ mem.pub <= deletes
         /\ item # None => item \in Entry /\ item.gen \in 1 .. genSeq /\ item.seen <= purges /\ item.pub <= deletes
         /\ \A t \in Tasks : Carries(t) =>
               /\ task[t].ent \in Entry /\ task[t].ent.gen \in 1 .. genSeq
               /\ task[t].ent.seen <= purges /\ task[t].ent.pub <= deletes
<1>1. TypeOK /\ \A e \in Entry : Live(e) => e.gen \in 1 .. genSeq /\ e.seen <= purges /\ e.pub <= deletes
  BY DEF Sound, Counted
<1>2. \A t \in Tasks : Carries(t) => task[t].ent \in Entry
  BY <1>1, Types, CallFields DEF Sound, Carries, Shaped
<1> QED BY <1>1, <1>2, Types DEF Live

-----------------------------------------------------------------------------
(* The acting call: its locals after the step keep their types, fit its    *)
(* place and stay within the counters; nobody else's change.               *)
TaskStep(t) ==
    /\ task' = [task EXCEPT ![t] = task'[t]]
    /\ task'[t] \in Calls /\ Shaped(task'[t]) /\ Bounded(task[t])'

LEMMA DoneTask ==
  ASSUME NEW t \in Tasks, task' = [task EXCEPT ![t] = task'[t]], task'[t] = Done,
         genSeq' \in Nat, purges' \in Nat, owed' \in Nat, deletes' \in Nat, purgeGen' \in Nat
  PROVE  TaskStep(t)
<1>1. task'[t] \in Calls /\ Shaped(task'[t])
  BY IdleCall, IdleShaped
<1>2. Bounded(task[t])'
  BY DoneFields DEF Bounded, DeleteAt
<1> QED BY <1>1, <1>2 DEF TaskStep

LEMMA StoodTask ==
  ASSUME TypeOK, NEW t \in Tasks, task' = [task EXCEPT ![t] = task'[t]], task'[t] = Stood(t),
         task[t].pc \in {"write", "undo"}, Shaped(task[t]), Bounded(task[t]),
         genSeq' = genSeq, purges' = purges, owed' = owed, deletes' = deletes, purgeGen' = purgeGen
  PROVE  TaskStep(t)
<1>1. task'[t] \in Calls
  BY StoodFields
<1>2. Shaped(task'[t])
  BY StoodFields DEF Shaped, PinnedAt
<1>3. Bounded(task[t])'
  BY StoodFields, Types DEF Bounded, DeleteAt
<1> QED BY <1>1, <1>2, <1>3 DEF TaskStep

LEMMA BeginTask ==
  ASSUME Sound, NEW t \in Tasks, Begin(t)
  PROVE  TaskStep(t)
<1>1. /\ TypeOK /\ task[t] \in Calls /\ Shaped(task[t]) /\ Bounded(task[t]) /\ Counted /\ Catalog
  BY DEF Sound, TypeOK
<1>2. /\ task' = [task EXCEPT ![t] = task'[t]]
      /\
         task'[t] = [Idle EXCEPT !.pc = "origin", !.start = genSeq + 1, !.seen = purges, !.ent = task[t].ent]
  BY <1>1, BecomeMoves DEF Begin
<1>3. /\ genSeq \in Nat /\ purges \in Nat /\ owed \in Nat /\ deleted \in Nat /\ deletes \in Nat /\ purgeGen \in Nat
      /\ deleted <= deletes /\ owed <= purges /\ purgeGen <= genSeq
  BY <1>1, Types DEF Counted
<1>4. /\ genSeq' = genSeq + 1 /\ purges' = purges /\ owed' = owed
      /\ deletes' = deletes /\ purgeGen' = purgeGen
  BY DEF Begin, counters, purgeHistory, barriers
<1>5. CASE task'[t] = [Idle EXCEPT !.pc = "origin", !.start = genSeq + 1, !.seen = purges, !.ent = task[t].ent]
  <2>1. "origin" \in Places /\ genSeq + 1 \in Nat /\ purges \in Nat /\ task[t].ent \in Entry \cup {None}
    BY <1>1, <1>3, <1>5, Types, CallFields, PlaceNames, KeyIsTyped, LiveTyped, EntryFields
  <2>2. task'[t] \in Calls
    BY <1>1, <1>5, <2>1, IdleCall DEF Calls
  <2>3. /\ task'[t].pc = "origin" /\ task'[t].start = genSeq + 1 /\ task'[t].gen = Idle.gen /\ task'[t].prev = Idle.prev /\ task'[t].max = Idle.max
        /\ task'[t].era = Idle.era /\ task'[t].era2 = Idle.era2 /\ task'[t].ent = task[t].ent /\ task'[t].seen = purges
        /\ task'[t].since = Idle.since /\ task'[t].after = Idle.after /\ task'[t].flag = Idle.flag /\ task'[t].rest = Idle.rest
    BY <1>1, <1>5, IdleCall DEF Calls
  <2>4. Shaped(task'[t])
    BY <1>1, <1>3, <1>5, <2>1, <2>3, IdleFields, CallFields, NoneApart DEF Shaped, PinnedAt
  <2>5. Bounded(task[t])'
    BY <1>1, <1>3, <1>4, <1>5, <2>1, <2>2, <2>3, IdleFields, CallFields DEF Bounded, DeleteAt
  <2> QED BY <1>2, <2>2, <2>4, <2>5 DEF TaskStep
<1> QED BY <1>2, <1>5

LEMMA DiscardTask ==
  ASSUME Sound, NEW t \in Tasks, Discard(t)
  PROVE  TaskStep(t)
<1>1. /\ TypeOK /\ task[t] \in Calls /\ Shaped(task[t]) /\ Bounded(task[t]) /\ Counted /\ Catalog
  BY DEF Sound, TypeOK
<1>2. /\ task' = [task EXCEPT ![t] = task'[t]]
      /\
         \/ task'[t] = Done
         \/ task'[t] = [Idle EXCEPT !.pc = "unstore", !.start = task[t].start, !.max = task[t].start]
  BY <1>1, BecomeMoves DEF Discard
<1>3. /\ genSeq \in Nat /\ purges \in Nat /\ owed \in Nat /\ deleted \in Nat /\ deletes \in Nat /\ purgeGen \in Nat
      /\ deleted <= deletes /\ owed <= purges /\ purgeGen <= genSeq
  BY <1>1, Types DEF Counted
<1>4. /\ genSeq' = genSeq /\ purges' = purges /\ owed' = owed
      /\ deletes' = deletes /\ purgeGen' = purgeGen
  BY DEF Discard, counters, purgeHistory, barriers
<1>5. CASE task'[t] = Done
  BY <1>2, <1>3, <1>4, <1>5, DoneTask
<1>6. CASE task'[t] = [Idle EXCEPT !.pc = "unstore", !.start = task[t].start, !.max = task[t].start]
  <2>1. "unstore" \in Places /\ task[t].start \in Nat /\ task[t].start \in Nat
    BY <1>1, <1>3, <1>6, Types, CallFields, PlaceNames, KeyIsTyped, LiveTyped, EntryFields
  <2>2. task'[t] \in Calls
    BY <1>1, <1>6, <2>1, IdleCall DEF Calls
  <2>3. /\ task'[t].pc = "unstore" /\ task'[t].start = task[t].start /\ task'[t].gen = Idle.gen /\ task'[t].prev = Idle.prev /\ task'[t].max = task[t].start
        /\ task'[t].era = Idle.era /\ task'[t].era2 = Idle.era2 /\ task'[t].ent = Idle.ent /\ task'[t].seen = Idle.seen
        /\ task'[t].since = Idle.since /\ task'[t].after = Idle.after /\ task'[t].flag = Idle.flag /\ task'[t].rest = Idle.rest
    BY <1>1, <1>6, IdleCall DEF Calls
  <2>4. Shaped(task'[t])
    BY <1>1, <1>3, <1>6, <2>1, <2>3, IdleFields, CallFields, NoneApart DEF Shaped, PinnedAt
  <2>5. Bounded(task[t])'
    BY <1>1, <1>3, <1>4, <1>6, <2>1, <2>2, <2>3, IdleFields, CallFields DEF Bounded, DeleteAt
  <2> QED BY <1>2, <2>2, <2>4, <2>5 DEF TaskStep
<1> QED BY <1>2, <1>5, <1>6

LEMMA CommitTask ==
  ASSUME Sound, NEW t \in Tasks, Commit(t)
  PROVE  TaskStep(t)
<1>1. /\ TypeOK /\ task[t] \in Calls /\ Shaped(task[t]) /\ Bounded(task[t]) /\ Counted /\ Catalog
  BY DEF Sound, TypeOK
<1>2. /\ task' = [task EXCEPT ![t] = task'[t]]
      /\
         \/ task[t].pc = "write" /\ task'[t] = Stood(t)
         \/ task'[t] = Done
  BY <1>1, BecomeMoves DEF Commit
<1>3. /\ genSeq \in Nat /\ purges \in Nat /\ owed \in Nat /\ deleted \in Nat /\ deletes \in Nat /\ purgeGen \in Nat
      /\ deleted <= deletes /\ owed <= purges /\ purgeGen <= genSeq
  BY <1>1, Types DEF Counted
<1>4. /\ genSeq' = genSeq /\ purges' = purges /\ owed' = owed
      /\ deletes' = deletes /\ purgeGen' = purgeGen
  BY DEF Commit, counters, purgeHistory, barriers
<1>5. CASE task[t].pc = "write" /\ task'[t] = Stood(t)
  BY <1>1, <1>2, <1>3, <1>4, <1>5, StoodTask
<1>6. CASE task'[t] = Done
  BY <1>2, <1>3, <1>4, <1>6, DoneTask
<1> QED BY <1>2, <1>5, <1>6

LEMMA RefuseTask ==
  ASSUME Sound, NEW t \in Tasks, Refuse(t)
  PROVE  TaskStep(t)
<1>1. /\ TypeOK /\ task[t] \in Calls /\ Shaped(task[t]) /\ Bounded(task[t]) /\ Counted /\ Catalog
  BY DEF Sound, TypeOK
<1>2. /\ task' = [task EXCEPT ![t] = task'[t]]
      /\
         task'[t] = Done
  BY <1>1, BecomeMoves DEF Refuse
<1>3. /\ genSeq \in Nat /\ purges \in Nat /\ owed \in Nat /\ deleted \in Nat /\ deletes \in Nat /\ purgeGen \in Nat
      /\ deleted <= deletes /\ owed <= purges /\ purgeGen <= genSeq
  BY <1>1, Types DEF Counted
<1>4. /\ genSeq' = genSeq /\ purges' = purges /\ owed' = owed
      /\ deletes' = deletes /\ purgeGen' = purgeGen
  BY DEF Refuse, counters, purgeHistory, barriers
<1>5. CASE task'[t] = Done
  BY <1>2, <1>3, <1>4, <1>5, DoneTask
<1> QED BY <1>2, <1>5

LEMMA RestoreTask ==
  ASSUME Sound, NEW t \in Tasks, Restore(t)
  PROVE  TaskStep(t)
<1>1. /\ TypeOK /\ task[t] \in Calls /\ Shaped(task[t]) /\ Bounded(task[t]) /\ Counted /\ Catalog
  BY DEF Sound, TypeOK
<1>2. /\ task' = [task EXCEPT ![t] = task'[t]]
      /\
         \/ task[t].pc = "write" /\ task'[t] = Stood(t)
         \/ task[t].pc = "write" /\ task'[t] = [task[t] EXCEPT !.pc = "undo", !.prev = 0]
  BY <1>1, BecomeMoves DEF Restore
<1>3. /\ genSeq \in Nat /\ purges \in Nat /\ owed \in Nat /\ deleted \in Nat /\ deletes \in Nat /\ purgeGen \in Nat
      /\ deleted <= deletes /\ owed <= purges /\ purgeGen <= genSeq
  BY <1>1, Types DEF Counted
<1>4. /\ genSeq' = genSeq /\ purges' = purges /\ owed' = owed
      /\ deletes' = deletes /\ purgeGen' = purgeGen
  BY DEF Restore, counters, purgeHistory, barriers
<1>5. CASE task[t].pc = "write" /\ task'[t] = Stood(t)
  BY <1>1, <1>2, <1>3, <1>4, <1>5, StoodTask
<1>6. CASE task[t].pc = "write" /\ task'[t] = [task[t] EXCEPT !.pc = "undo", !.prev = 0]
  <2>1. "undo" \in Places /\ 0 \in Nat
    BY <1>1, <1>3, <1>6, Types, CallFields, PlaceNames, KeyIsTyped, LiveTyped, EntryFields
  <2>2. task'[t] \in Calls
    BY <1>1, <1>6, <2>1, IdleCall DEF Calls
  <2>3. /\ task'[t].pc = "undo" /\ task'[t].start = task[t].start /\ task'[t].gen = task[t].gen /\ task'[t].prev = 0 /\ task'[t].max = task[t].max
        /\ task'[t].era = task[t].era /\ task'[t].era2 = task[t].era2 /\ task'[t].ent = task[t].ent /\ task'[t].seen = task[t].seen
        /\ task'[t].since = task[t].since /\ task'[t].after = task[t].after /\ task'[t].flag = task[t].flag /\ task'[t].rest = task[t].rest
    BY <1>1, <1>6, IdleCall DEF Calls
  <2>4. Shaped(task'[t])
    BY <1>1, <1>3, <1>6, <2>1, <2>3, IdleFields, CallFields, NoneApart DEF Shaped, PinnedAt
  <2>5. Bounded(task[t])'
    BY <1>1, <1>3, <1>4, <1>6, <2>1, <2>2, <2>3, IdleFields, CallFields DEF Bounded, DeleteAt
  <2> QED BY <1>2, <2>2, <2>4, <2>5 DEF TaskStep
<1> QED BY <1>2, <1>5, <1>6

LEMMA UndoTask ==
  ASSUME Sound, NEW t \in Tasks, Undo(t)
  PROVE  TaskStep(t)
<1>1. /\ TypeOK /\ task[t] \in Calls /\ Shaped(task[t]) /\ Bounded(task[t]) /\ Counted /\ Catalog
  BY DEF Sound, TypeOK
<1>2. /\ task' = [task EXCEPT ![t] = task'[t]]
      /\
         \/ task'[t] = Done
         \/ task[t].pc \in {"write", "undo"} /\ task'[t] = Stood(t)
  BY <1>1, BecomeMoves DEF Undo
<1>3. /\ genSeq \in Nat /\ purges \in Nat /\ owed \in Nat /\ deleted \in Nat /\ deletes \in Nat /\ purgeGen \in Nat
      /\ deleted <= deletes /\ owed <= purges /\ purgeGen <= genSeq
  BY <1>1, Types DEF Counted
<1>4. /\ genSeq' = genSeq /\ purges' = purges /\ owed' = owed
      /\ deletes' = deletes /\ purgeGen' = purgeGen
  BY DEF Undo, counters, purgeHistory, barriers
<1>5. CASE task'[t] = Done
  BY <1>2, <1>3, <1>4, <1>5, DoneTask
<1>6. CASE task[t].pc \in {"write", "undo"} /\ task'[t] = Stood(t)
  BY <1>1, <1>2, <1>3, <1>4, <1>6, StoodTask
<1> QED BY <1>2, <1>5, <1>6

LEMMA CheckTask ==
  ASSUME Sound, NEW t \in Tasks, Check(t)
  PROVE  TaskStep(t)
<1>1. /\ TypeOK /\ task[t] \in Calls /\ Shaped(task[t]) /\ Bounded(task[t]) /\ Counted /\ Catalog
  BY DEF Sound, TypeOK
<1>2. /\ task' = [task EXCEPT ![t] = task'[t]]
      /\
         \/ task'[t] = Done
         \/ task[t].pc = "check" /\ task'[t] = [task[t] EXCEPT !.pc = "unstore", !.max = task[t].gen, !.gen = 0]
  BY <1>1, BecomeMoves DEF Check
<1>3. /\ genSeq \in Nat /\ purges \in Nat /\ owed \in Nat /\ deleted \in Nat /\ deletes \in Nat /\ purgeGen \in Nat
      /\ deleted <= deletes /\ owed <= purges /\ purgeGen <= genSeq
  BY <1>1, Types DEF Counted
<1>4. /\ genSeq' = genSeq /\ purges' = purges /\ owed' = owed
      /\ deletes' = deletes /\ purgeGen' = purgeGen
  BY DEF Check, counters, purgeHistory, barriers
<1>5. CASE task'[t] = Done
  BY <1>2, <1>3, <1>4, <1>5, DoneTask
<1>6. CASE task[t].pc = "check" /\ task'[t] = [task[t] EXCEPT !.pc = "unstore", !.max = task[t].gen, !.gen = 0]
  <2>1. "unstore" \in Places /\ task[t].gen \in Nat /\ 0 \in Nat
    BY <1>1, <1>3, <1>6, Types, CallFields, PlaceNames, KeyIsTyped, LiveTyped, EntryFields
  <2>2. task'[t] \in Calls
    BY <1>1, <1>6, <2>1, IdleCall DEF Calls
  <2>3. /\ task'[t].pc = "unstore" /\ task'[t].start = task[t].start /\ task'[t].gen = 0 /\ task'[t].prev = task[t].prev /\ task'[t].max = task[t].gen
        /\ task'[t].era = task[t].era /\ task'[t].era2 = task[t].era2 /\ task'[t].ent = task[t].ent /\ task'[t].seen = task[t].seen
        /\ task'[t].since = task[t].since /\ task'[t].after = task[t].after /\ task'[t].flag = task[t].flag /\ task'[t].rest = task[t].rest
    BY <1>1, <1>6, IdleCall DEF Calls
  <2>4. Shaped(task'[t])
    BY <1>1, <1>3, <1>6, <2>1, <2>3, IdleFields, CallFields, NoneApart DEF Shaped, PinnedAt
  <2>5. Bounded(task[t])'
    BY <1>1, <1>3, <1>4, <1>6, <2>1, <2>2, <2>3, IdleFields, CallFields DEF Bounded, DeleteAt
  <2> QED BY <1>2, <2>2, <2>4, <2>5 DEF TaskStep
<1> QED BY <1>2, <1>5, <1>6

LEMMA UnstoreTask ==
  ASSUME Sound, NEW t \in Tasks, Unstore(t)
  PROVE  TaskStep(t)
<1>1. /\ TypeOK /\ task[t] \in Calls /\ Shaped(task[t]) /\ Bounded(task[t]) /\ Counted /\ Catalog
  BY DEF Sound, TypeOK
<1>2. /\ task' = [task EXCEPT ![t] = task'[t]]
      /\
         \/ task[t].pc = "unstore" /\ task'[t] = [task[t] EXCEPT !.pc = "drop"]
         \/ task[t].pc = "unstore" /\ task'[t] = [task[t] EXCEPT !.pc = "drop", !.era2 = purgeGen]
  BY <1>1, BecomeMoves, BeginNextKey DEF Unstore, Catalog
<1>3. /\ genSeq \in Nat /\ purges \in Nat /\ owed \in Nat /\ deleted \in Nat /\ deletes \in Nat /\ purgeGen \in Nat
      /\ deleted <= deletes /\ owed <= purges /\ purgeGen <= genSeq
  BY <1>1, Types DEF Counted
<1>4. /\ genSeq' \in {genSeq, genSeq + 1} /\ purges' = purges /\ owed' = owed
      /\ deletes' = deletes /\ purgeGen' = purgeGen
  BY DEF Unstore, counters, purgeHistory, barriers
<1>5. CASE task[t].pc = "unstore" /\ task'[t] = [task[t] EXCEPT !.pc = "drop"]
  <2>1. "drop" \in Places
    BY <1>1, <1>3, <1>5, Types, CallFields, PlaceNames, KeyIsTyped, LiveTyped, EntryFields
  <2>2. task'[t] \in Calls
    BY <1>1, <1>5, <2>1, IdleCall DEF Calls
  <2>3. /\ task'[t].pc = "drop" /\ task'[t].start = task[t].start /\ task'[t].gen = task[t].gen /\ task'[t].prev = task[t].prev /\ task'[t].max = task[t].max
        /\ task'[t].era = task[t].era /\ task'[t].era2 = task[t].era2 /\ task'[t].ent = task[t].ent /\ task'[t].seen = task[t].seen
        /\ task'[t].since = task[t].since /\ task'[t].after = task[t].after /\ task'[t].flag = task[t].flag /\ task'[t].rest = task[t].rest
    BY <1>1, <1>5, IdleCall DEF Calls
  <2>4. Shaped(task'[t])
    BY <1>1, <1>3, <1>5, <2>1, <2>3, IdleFields, CallFields, NoneApart DEF Shaped, PinnedAt
  <2>5. Bounded(task[t])'
    BY <1>1, <1>3, <1>4, <1>5, <2>1, <2>2, <2>3, IdleFields, CallFields DEF Bounded, DeleteAt
  <2> QED BY <1>2, <2>2, <2>4, <2>5 DEF TaskStep
<1>6. CASE task[t].pc = "unstore" /\ task'[t] = [task[t] EXCEPT !.pc = "drop", !.era2 = purgeGen]
  <2>1. "drop" \in Places /\ purgeGen \in Nat \cup {None}
    BY <1>1, <1>3, <1>6, Types, CallFields, PlaceNames, KeyIsTyped, LiveTyped, EntryFields
  <2>2. task'[t] \in Calls
    BY <1>1, <1>6, <2>1, IdleCall DEF Calls
  <2>3. /\ task'[t].pc = "drop" /\ task'[t].start = task[t].start /\ task'[t].gen = task[t].gen /\ task'[t].prev = task[t].prev /\ task'[t].max = task[t].max
        /\ task'[t].era = task[t].era /\ task'[t].era2 = purgeGen /\ task'[t].ent = task[t].ent /\ task'[t].seen = task[t].seen
        /\ task'[t].since = task[t].since /\ task'[t].after = task[t].after /\ task'[t].flag = task[t].flag /\ task'[t].rest = task[t].rest
    BY <1>1, <1>6, IdleCall DEF Calls
  <2>4. Shaped(task'[t])
    BY <1>1, <1>3, <1>6, <2>1, <2>3, IdleFields, CallFields, NoneApart DEF Shaped, PinnedAt
  <2>5. Bounded(task[t])'
    BY <1>1, <1>3, <1>4, <1>6, <2>1, <2>2, <2>3, IdleFields, CallFields DEF Bounded, DeleteAt
  <2> QED BY <1>2, <2>2, <2>4, <2>5 DEF TaskStep
<1> QED BY <1>2, <1>5, <1>6

LEMMA DropTask ==
  ASSUME Sound, NEW t \in Tasks, Drop(t)
  PROVE  TaskStep(t)
<1>1. /\ TypeOK /\ task[t] \in Calls /\ Shaped(task[t]) /\ Bounded(task[t]) /\ Counted /\ Catalog
  BY DEF Sound, TypeOK
<1>2. /\ task' = [task EXCEPT ![t] = task'[t]]
      /\
         \/ task'[t] = Done
         \/ task[t].pc = "drop" /\ task[t].start = 0 /\ task'[t] = [task[t] EXCEPT !.pc = "probe", !.max = 0, !.era2 = None]
  BY <1>1, BecomeMoves DEF Drop
<1>3. /\ genSeq \in Nat /\ purges \in Nat /\ owed \in Nat /\ deleted \in Nat /\ deletes \in Nat /\ purgeGen \in Nat
      /\ deleted <= deletes /\ owed <= purges /\ purgeGen <= genSeq
  BY <1>1, Types DEF Counted
<1>4. /\ genSeq' = genSeq /\ purges' = purges /\ owed' = owed
      /\ deletes' = deletes /\ purgeGen' = purgeGen
  BY DEF Drop, counters, purgeHistory, barriers
<1>5. CASE task'[t] = Done
  BY <1>2, <1>3, <1>4, <1>5, DoneTask
<1>6. CASE task[t].pc = "drop" /\ task[t].start = 0 /\ task'[t] = [task[t] EXCEPT !.pc = "probe", !.max = 0, !.era2 = None]
  <2>1. "probe" \in Places /\ 0 \in Nat /\ None \in Nat \cup {None}
    BY <1>1, <1>3, <1>6, Types, CallFields, PlaceNames, KeyIsTyped, LiveTyped, EntryFields
  <2>2. task'[t] \in Calls
    BY <1>1, <1>6, <2>1, IdleCall DEF Calls
  <2>3. /\ task'[t].pc = "probe" /\ task'[t].start = task[t].start /\ task'[t].gen = task[t].gen /\ task'[t].prev = task[t].prev /\ task'[t].max = 0
        /\ task'[t].era = task[t].era /\ task'[t].era2 = None /\ task'[t].ent = task[t].ent /\ task'[t].seen = task[t].seen
        /\ task'[t].since = task[t].since /\ task'[t].after = task[t].after /\ task'[t].flag = task[t].flag /\ task'[t].rest = task[t].rest
    BY <1>1, <1>6, IdleCall DEF Calls
  <2>4. Shaped(task'[t])
    BY <1>1, <1>3, <1>6, <2>1, <2>3, IdleFields, CallFields, NoneApart DEF Shaped, PinnedAt
  <2>5. Bounded(task[t])'
    BY <1>1, <1>3, <1>4, <1>6, <2>1, <2>2, <2>3, IdleFields, CallFields DEF Bounded, DeleteAt
  <2> QED BY <1>2, <2>2, <2>4, <2>5 DEF TaskStep
<1> QED BY <1>2, <1>5, <1>6

LEMMA EvictTask ==
  ASSUME Sound, NEW t \in Tasks, Evict(t)
  PROVE  TaskStep(t)
<1>1. /\ TypeOK /\ task[t] \in Calls /\ Shaped(task[t]) /\ Bounded(task[t]) /\ Counted /\ Catalog
  BY DEF Sound, TypeOK
<1>2. /\ task' = [task EXCEPT ![t] = task'[t]]
      /\
         mem # None /\ task'[t] = [Idle EXCEPT !.pc = "evicted", !.ent = mem, !.era = purgeGen]
  BY <1>1, BecomeMoves, NoneApart DEF Evict, CatalogComplete, Catalog, GoodKey
<1>3. /\ genSeq \in Nat /\ purges \in Nat /\ owed \in Nat /\ deleted \in Nat /\ deletes \in Nat /\ purgeGen \in Nat
      /\ deleted <= deletes /\ owed <= purges /\ purgeGen <= genSeq
  BY <1>1, Types DEF Counted
<1>4. /\ genSeq' = genSeq /\ purges' = purges /\ owed' = owed
      /\ deletes' = deletes /\ purgeGen' = purgeGen
  BY DEF Evict, counters, purgeHistory, barriers
<1>5. CASE mem # None /\ task'[t] = [Idle EXCEPT !.pc = "evicted", !.ent = mem, !.era = purgeGen]
  <2>1. "evicted" \in Places /\ mem \in Entry \cup {None} /\ purgeGen \in Nat \cup {None}
    BY <1>1, <1>3, <1>5, Types, CallFields, PlaceNames, KeyIsTyped, LiveTyped, EntryFields
  <2>2. task'[t] \in Calls
    BY <1>1, <1>5, <2>1, IdleCall DEF Calls
  <2>3. /\ task'[t].pc = "evicted" /\ task'[t].start = Idle.start /\ task'[t].gen = Idle.gen /\ task'[t].prev = Idle.prev /\ task'[t].max = Idle.max
        /\ task'[t].era = purgeGen /\ task'[t].era2 = Idle.era2 /\ task'[t].ent = mem /\ task'[t].seen = Idle.seen
        /\ task'[t].since = Idle.since /\ task'[t].after = Idle.after /\ task'[t].flag = Idle.flag /\ task'[t].rest = Idle.rest
    BY <1>1, <1>5, IdleCall DEF Calls
  <2>4. Shaped(task'[t])
    BY <1>1, <1>3, <1>5, <2>1, <2>3, IdleFields, CallFields, NoneApart DEF Shaped, PinnedAt
  <2>5. Bounded(task[t])'
    BY <1>1, <1>3, <1>4, <1>5, <2>1, <2>2, <2>3, IdleFields, CallFields DEF Bounded, DeleteAt
  <2> QED BY <1>2, <2>2, <2>4, <2>5 DEF TaskStep
<1> QED BY <1>2, <1>5

LEMMA FlushTask ==
  ASSUME Sound, NEW t \in Tasks, Flush(t)
  PROVE  TaskStep(t)
<1>1. /\ TypeOK /\ task[t] \in Calls /\ Shaped(task[t]) /\ Bounded(task[t]) /\ Counted /\ Catalog
  BY DEF Sound, TypeOK
<1>2. /\ task' = [task EXCEPT ![t] = task'[t]]
      /\
         \/ task'[t] = Done
         \/ task[t].pc = "evicted" /\ task'[t] = [task[t] EXCEPT !.pc = "flush"]
  BY <1>1, BecomeMoves DEF Flush
<1>3. /\ genSeq \in Nat /\ purges \in Nat /\ owed \in Nat /\ deleted \in Nat /\ deletes \in Nat /\ purgeGen \in Nat
      /\ deleted <= deletes /\ owed <= purges /\ purgeGen <= genSeq
  BY <1>1, Types DEF Counted
<1>4. /\ genSeq' = genSeq /\ purges' = purges /\ owed' = owed
      /\ deletes' = deletes /\ purgeGen' = purgeGen
  BY DEF Flush, counters, purgeHistory, barriers
<1>5. CASE task'[t] = Done
  BY <1>2, <1>3, <1>4, <1>5, DoneTask
<1>6. CASE task[t].pc = "evicted" /\ task'[t] = [task[t] EXCEPT !.pc = "flush"]
  <2>1. "flush" \in Places
    BY <1>1, <1>3, <1>6, Types, CallFields, PlaceNames, KeyIsTyped, LiveTyped, EntryFields
  <2>2. task'[t] \in Calls
    BY <1>1, <1>6, <2>1, IdleCall DEF Calls
  <2>3. /\ task'[t].pc = "flush" /\ task'[t].start = task[t].start /\ task'[t].gen = task[t].gen /\ task'[t].prev = task[t].prev /\ task'[t].max = task[t].max
        /\ task'[t].era = task[t].era /\ task'[t].era2 = task[t].era2 /\ task'[t].ent = task[t].ent /\ task'[t].seen = task[t].seen
        /\ task'[t].since = task[t].since /\ task'[t].after = task[t].after /\ task'[t].flag = task[t].flag /\ task'[t].rest = task[t].rest
    BY <1>1, <1>6, IdleCall DEF Calls
  <2>4. Shaped(task'[t])
    BY <1>1, <1>3, <1>6, <2>1, <2>3, IdleFields, CallFields, NoneApart DEF Shaped, PinnedAt
  <2>5. Bounded(task[t])'
    BY <1>1, <1>3, <1>4, <1>6, <2>1, <2>2, <2>3, IdleFields, CallFields DEF Bounded, DeleteAt
  <2> QED BY <1>2, <2>2, <2>4, <2>5 DEF TaskStep
<1> QED BY <1>2, <1>5, <1>6

LEMMA LookupTask ==
  ASSUME Sound, NEW t \in Tasks, Lookup(t)
  PROVE  TaskStep(t)
<1>1. /\ TypeOK /\ task[t] \in Calls /\ Shaped(task[t]) /\ Bounded(task[t]) /\ Counted /\ Catalog
  BY DEF Sound, TypeOK
<1>2. /\ task' = [task EXCEPT ![t] = task'[t]]
      /\
         \/ task'[t] = [Idle EXCEPT !.pc = "probe", !.since = owed, !.after = deleted]
         \/ mem # None /\ task'[t] = [Idle EXCEPT !.pc = "hit", !.since = owed, !.after = deleted, !.ent = mem,
                                                   !.max = owedGen, !.seen = ended]
  <2> DEFINE r == [Idle EXCEPT !.since = owed, !.after = deleted]
  <2>1. PICK s : s = task'[t] /\ Become(t, s) /\
                 s = IF mem = None THEN [r EXCEPT !.pc = "probe"]
                     ELSE [r EXCEPT !.pc = "hit", !.ent = mem, !.max = owedGen, !.seen = ended]
    BY <1>1, BecomeMoves DEF Lookup
  <2>2. task' = [task EXCEPT ![t] = task'[t]]
    BY <1>1, <2>1, BecomeMoves
  <2>3. /\ [r EXCEPT !.pc = "probe"] = [Idle EXCEPT !.pc = "probe", !.since = owed, !.after = deleted]
        /\ [r EXCEPT !.pc = "hit", !.ent = mem, !.max = owedGen, !.seen = ended]
             = [Idle EXCEPT !.pc = "hit", !.since = owed, !.after = deleted, !.ent = mem, !.max = owedGen, !.seen = ended]
    BY ZenonT(40) DEF Idle
  <2> QED BY <2>1, <2>2, <2>3
<1>3. /\ genSeq \in Nat /\ purges \in Nat /\ owed \in Nat /\ deleted \in Nat /\ deletes \in Nat /\ purgeGen \in Nat
      /\ deleted <= deletes /\ owed <= purges /\ purgeGen <= genSeq
      /\ ended \in Nat /\ ended <= owed /\ owedGen \in Nat /\ owedGen <= genSeq
  BY <1>1, Types DEF Counted
<1>4. /\ genSeq' = genSeq /\ purges' = purges /\ owed' = owed
      /\ deletes' = deletes /\ purgeGen' = purgeGen
  BY DEF Lookup, counters, purgeHistory, barriers
<1>5. CASE task'[t] = [Idle EXCEPT !.pc = "probe", !.since = owed, !.after = deleted]
  <2>1. "probe" \in Places /\ owed \in Nat /\ deleted \in Nat
    BY <1>1, <1>3, <1>5, Types, CallFields, PlaceNames, KeyIsTyped, LiveTyped, EntryFields
  <2>2. task'[t] \in Calls
    BY <1>1, <1>5, <2>1, IdleCall DEF Calls
  <2>3. /\ task'[t].pc = "probe" /\ task'[t].start = Idle.start /\ task'[t].gen = Idle.gen /\ task'[t].prev = Idle.prev /\ task'[t].max = Idle.max
        /\ task'[t].era = Idle.era /\ task'[t].era2 = Idle.era2 /\ task'[t].ent = Idle.ent /\ task'[t].seen = Idle.seen
        /\ task'[t].since = owed /\ task'[t].after = deleted /\ task'[t].flag = Idle.flag /\ task'[t].rest = Idle.rest
    BY <1>1, <1>5, IdleCall DEF Calls
  <2>4. Shaped(task'[t])
    BY <1>1, <1>3, <1>5, <2>1, <2>3, IdleFields, CallFields, NoneApart DEF Shaped, PinnedAt
  <2>5. Bounded(task[t])'
    BY <1>1, <1>3, <1>4, <1>5, <2>1, <2>2, <2>3, IdleFields, CallFields DEF Bounded, DeleteAt
  <2> QED BY <1>2, <2>2, <2>4, <2>5 DEF TaskStep
<1>6. CASE mem # None /\ task'[t] = [Idle EXCEPT !.pc = "hit", !.since = owed, !.after = deleted, !.ent = mem,
                                                 !.max = owedGen, !.seen = ended]
  <2>1. "hit" \in Places /\ owed \in Nat /\ deleted \in Nat /\ mem \in Entry /\ mem.gen \in Nat /\ mem.gen <= genSeq
    BY <1>1, <1>3, <1>6, Types, CallFields, PlaceNames, KeyIsTyped, LiveTyped, EntryFields
  <2>2. task'[t] \in Calls
    BY <1>1, <1>3, <1>6, <2>1, IdleCall, ZenonT(40) DEF Calls
  <2>3. /\ task'[t].pc = "hit" /\ task'[t].start = Idle.start /\ task'[t].gen = Idle.gen /\ task'[t].prev = Idle.prev /\ task'[t].max = owedGen
        /\ task'[t].era = Idle.era /\ task'[t].era2 = Idle.era2 /\ task'[t].ent = mem /\ task'[t].seen = ended
        /\ task'[t].since = owed /\ task'[t].after = deleted /\ task'[t].flag = Idle.flag /\ task'[t].rest = Idle.rest
    BY <1>1, <1>6, IdleCall DEF Calls
  <2>4. Shaped(task'[t])
    BY <1>1, <1>3, <1>6, <2>1, <2>3, IdleFields, CallFields, NoneApart DEF Shaped, PinnedAt
  <2>5. Bounded(task[t])'
    BY <1>1, <1>3, <1>4, <1>6, <2>1, <2>2, <2>3, IdleFields, CallFields DEF Bounded, DeleteAt
  <2> QED BY <1>2, <2>2, <2>4, <2>5 DEF TaskStep
<1> QED BY <1>2, <1>5, <1>6

LEMMA ScreenIs ==
  ASSUME TypeOK, NEW t \in Tasks, Screen(t)
  PROVE  /\ task[t].pc = "hit" /\ task' = [task EXCEPT ![t] = task'[t]]
         /\ \/ UnderPurge(task[t].ent.gen) /\ task'[t] = [Idle EXCEPT !.pc = "unstore", !.since = task[t].since, !.after = task[t].after, !.max = task[t].ent.gen]
            \/ ~UnderPurge(task[t].ent.gen) /\ task[t].max \in Enforced /\ task'[t] = [Idle EXCEPT !.pc = "got", !.since = task[t].since, !.after = task[t].after, !.ent = task[t].ent]
            \/ ~UnderPurge(task[t].ent.gen) /\ task'[t] = [Idle EXCEPT !.pc = "got", !.since = task[t].seen, !.after = task[t].after, !.ent = task[t].ent]
<1> DEFINE r == [Idle EXCEPT !.since = task[t].since, !.after = task[t].after]
<1>1. PICK s : s = task'[t] /\ Become(t, s) /\
               s = IF UnderPurge(task[t].ent.gen) THEN [r EXCEPT !.pc = "unstore", !.max = task[t].ent.gen]
                   ELSE [r EXCEPT !.pc = "got", !.ent = task[t].ent,
                           !.since = IF task[t].max \in Enforced THEN @ ELSE task[t].seen]
  BY BecomeMoves DEF Screen
<1>2. task' = [task EXCEPT ![t] = task'[t]]
  BY <1>1, BecomeMoves
<1>3. /\ [r EXCEPT !.pc = "unstore", !.max = task[t].ent.gen]
           = [Idle EXCEPT !.pc = "unstore", !.since = task[t].since, !.after = task[t].after, !.max = task[t].ent.gen]
      /\ [r EXCEPT !.pc = "got", !.ent = task[t].ent, !.since = r.since]
           = [Idle EXCEPT !.pc = "got", !.since = task[t].since, !.after = task[t].after, !.ent = task[t].ent]
      /\ [r EXCEPT !.pc = "got", !.ent = task[t].ent, !.since = task[t].seen]
           = [Idle EXCEPT !.pc = "got", !.since = task[t].seen, !.after = task[t].after, !.ent = task[t].ent]
  BY ZenonT(40) DEF Idle
<1>4. task[t].max \in Enforced =>
        [r EXCEPT !.pc = "got", !.ent = task[t].ent, !.since = IF task[t].max \in Enforced THEN @ ELSE task[t].seen]
          = [r EXCEPT !.pc = "got", !.ent = task[t].ent, !.since = r.since]
  BY Zenon
<1>5. task[t].max \notin Enforced =>
        [r EXCEPT !.pc = "got", !.ent = task[t].ent, !.since = IF task[t].max \in Enforced THEN @ ELSE task[t].seen]
          = [r EXCEPT !.pc = "got", !.ent = task[t].ent, !.since = task[t].seen]
  BY Zenon
<1> HIDE DEF r
<1> QED BY <1>1, <1>2, <1>3, <1>4, <1>5 DEF Screen

LEMMA ScreenTask ==
  ASSUME Sound, NEW t \in Tasks, Screen(t)
  PROVE  TaskStep(t)
<1>1. /\ TypeOK /\ task[t] \in Calls /\ Shaped(task[t]) /\ Bounded(task[t]) /\ Counted /\ task[t].pc = "hit"
  BY DEF Sound, TypeOK, Screen
<1>2. /\ task' = [task EXCEPT ![t] = task'[t]]
      /\
         \/ task'[t] = [Idle EXCEPT !.pc = "unstore", !.since = task[t].since, !.after = task[t].after, !.max = task[t].ent.gen]
         \/ task'[t] = [Idle EXCEPT !.pc = "got", !.since = task[t].since, !.after = task[t].after, !.ent = task[t].ent]
         \/ task'[t] = [Idle EXCEPT !.pc = "got", !.since = task[t].seen, !.after = task[t].after, !.ent = task[t].ent]
  BY <1>1, ScreenIs
<1>3. /\ genSeq \in Nat /\ purges \in Nat /\ owed \in Nat /\ deleted \in Nat /\ deletes \in Nat /\ purgeGen \in Nat
      /\ task[t].ent \in Entry /\ task[t].ent.gen \in Nat /\ task[t].ent.gen <= genSeq /\ task[t].seen <= task[t].since
  BY <1>1, Types, CallFields, EntryFields DEF Shaped, Bounded
<1>4. /\ genSeq' = genSeq /\ purges' = purges /\ owed' = owed
      /\ deletes' = deletes /\ purgeGen' = purgeGen
  BY DEF Screen, counters, purgeHistory, barriers
<1>5. CASE task'[t] = [Idle EXCEPT !.pc = "unstore", !.since = task[t].since, !.after = task[t].after, !.max = task[t].ent.gen]
  <2>1. "unstore" \in Places /\ task[t].since \in Nat /\ task[t].after \in Nat /\ task[t].seen \in Nat
    BY <1>1, <1>3, Types, CallFields, PlaceNames
  <2>2. task'[t] \in Calls
    BY <1>1, <1>3, <1>5, <2>1, IdleCall, ZenonT(40) DEF Calls
  <2>3. /\ task'[t].pc = "unstore" /\ task'[t].start = Idle.start /\ task'[t].gen = Idle.gen /\ task'[t].prev = Idle.prev /\ task'[t].max = task[t].ent.gen
        /\ task'[t].era = Idle.era /\ task'[t].era2 = Idle.era2 /\ task'[t].ent = Idle.ent /\ task'[t].seen = Idle.seen
        /\ task'[t].since = task[t].since /\ task'[t].after = task[t].after /\ task'[t].flag = Idle.flag /\ task'[t].rest = Idle.rest
    BY <1>1, <1>5, IdleCall DEF Calls
  <2>4. Shaped(task'[t])
    BY <1>1, <1>3, <1>5, <2>1, <2>3, IdleFields, CallFields, NoneApart DEF Shaped, PinnedAt
  <2>5. Bounded(task[t])'
    BY <1>1, <1>3, <1>4, <1>5, <2>1, <2>2, <2>3, IdleFields, CallFields DEF Bounded, DeleteAt
  <2> QED BY <1>2, <2>2, <2>4, <2>5 DEF TaskStep
<1>6. CASE task'[t] = [Idle EXCEPT !.pc = "got", !.since = task[t].since, !.after = task[t].after, !.ent = task[t].ent]
  <2>1. "got" \in Places /\ task[t].since \in Nat /\ task[t].after \in Nat /\ task[t].seen \in Nat
    BY <1>1, <1>3, Types, CallFields, PlaceNames
  <2>2. task'[t] \in Calls
    BY <1>1, <1>3, <1>6, <2>1, IdleCall, ZenonT(40) DEF Calls
  <2>3. /\ task'[t].pc = "got" /\ task'[t].start = Idle.start /\ task'[t].gen = Idle.gen /\ task'[t].prev = Idle.prev /\ task'[t].max = Idle.max
        /\ task'[t].era = Idle.era /\ task'[t].era2 = Idle.era2 /\ task'[t].ent = task[t].ent /\ task'[t].seen = Idle.seen
        /\ task'[t].since = task[t].since /\ task'[t].after = task[t].after /\ task'[t].flag = Idle.flag /\ task'[t].rest = Idle.rest
    BY <1>1, <1>6, IdleCall DEF Calls
  <2>4. Shaped(task'[t])
    BY <1>1, <1>3, <1>6, <2>1, <2>3, IdleFields, CallFields, NoneApart DEF Shaped, PinnedAt
  <2>5. Bounded(task[t])'
    BY <1>1, <1>3, <1>4, <1>6, <2>1, <2>2, <2>3, IdleFields, CallFields DEF Bounded, DeleteAt
  <2> QED BY <1>2, <2>2, <2>4, <2>5 DEF TaskStep
<1>7. CASE task'[t] = [Idle EXCEPT !.pc = "got", !.since = task[t].seen, !.after = task[t].after, !.ent = task[t].ent]
  <2>1. "got" \in Places /\ task[t].since \in Nat /\ task[t].after \in Nat /\ task[t].seen \in Nat
    BY <1>1, <1>3, Types, CallFields, PlaceNames
  <2>2. task'[t] \in Calls
    BY <1>1, <1>3, <1>7, <2>1, IdleCall, ZenonT(40) DEF Calls
  <2>3. /\ task'[t].pc = "got" /\ task'[t].start = Idle.start /\ task'[t].gen = Idle.gen /\ task'[t].prev = Idle.prev /\ task'[t].max = Idle.max
        /\ task'[t].era = Idle.era /\ task'[t].era2 = Idle.era2 /\ task'[t].ent = task[t].ent /\ task'[t].seen = Idle.seen
        /\ task'[t].since = task[t].seen /\ task'[t].after = task[t].after /\ task'[t].flag = Idle.flag /\ task'[t].rest = Idle.rest
    BY <1>1, <1>7, IdleCall DEF Calls
  <2>4. Shaped(task'[t])
    BY <1>1, <1>3, <1>7, <2>1, <2>3, IdleFields, CallFields, NoneApart DEF Shaped, PinnedAt
  <2>5. Bounded(task[t])'
    BY <1>1, <1>3, <1>4, <1>7, <2>1, <2>2, <2>3, IdleFields, CallFields DEF Bounded, DeleteAt
  <2> QED BY <1>2, <2>2, <2>4, <2>5 DEF TaskStep
<1> QED BY <1>2, <1>5, <1>6, <1>7

LEMMA ProbeTask ==
  ASSUME Sound, NEW t \in Tasks, Probe(t)
  PROVE  TaskStep(t)
<1>1. /\ TypeOK /\ task[t] \in Calls /\ Shaped(task[t]) /\ Bounded(task[t]) /\ Counted /\ Catalog
  BY DEF Sound, TypeOK
<1>2. /\ task' = [task EXCEPT ![t] = task'[t]]
      /\
         task[t].pc = "probe" /\ task'[t] = [task[t] EXCEPT !.pc = "read", !.gen = KG, !.era = purgeGen]
  BY <1>1, BecomeMoves, BeginReadKey DEF Probe, Catalog, KG
<1>3. /\ genSeq \in Nat /\ purges \in Nat /\ owed \in Nat /\ deleted \in Nat /\ deletes \in Nat /\ purgeGen \in Nat
      /\ deleted <= deletes /\ owed <= purges /\ purgeGen <= genSeq
  BY <1>1, Types DEF Counted
<1>4. /\ genSeq' = genSeq /\ purges' = purges /\ owed' = owed
      /\ deletes' = deletes /\ purgeGen' = purgeGen
  BY DEF Probe, counters, purgeHistory, barriers
<1>5. CASE task[t].pc = "probe" /\ task'[t] = [task[t] EXCEPT !.pc = "read", !.gen = KG, !.era = purgeGen]
  <2>1. "read" \in Places /\ KG \in Nat /\ purgeGen \in Nat \cup {None} /\ KG <= genSeq
    BY <1>1, <1>3, <1>5, Types, CallFields, PlaceNames, KeyIsTyped, LiveTyped, EntryFields
  <2>2. task'[t] \in Calls
    BY <1>1, <1>5, <2>1, IdleCall DEF Calls
  <2>3. /\ task'[t].pc = "read" /\ task'[t].start = task[t].start /\ task'[t].gen = KG /\ task'[t].prev = task[t].prev /\ task'[t].max = task[t].max
        /\ task'[t].era = purgeGen /\ task'[t].era2 = task[t].era2 /\ task'[t].ent = task[t].ent /\ task'[t].seen = task[t].seen
        /\ task'[t].since = task[t].since /\ task'[t].after = task[t].after /\ task'[t].flag = task[t].flag /\ task'[t].rest = task[t].rest
    BY <1>1, <1>5, IdleCall DEF Calls
  <2>4. Shaped(task'[t])
    BY <1>1, <1>3, <1>5, <2>1, <2>3, IdleFields, CallFields, NoneApart DEF Shaped, PinnedAt
  <2>5. Bounded(task[t])'
    BY <1>1, <1>3, <1>4, <1>5, <2>1, <2>2, <2>3, IdleFields, CallFields DEF Bounded, DeleteAt
  <2> QED BY <1>2, <2>2, <2>4, <2>5 DEF TaskStep
<1> QED BY <1>2, <1>5

LEMMA ReadTask ==
  ASSUME Sound, NEW t \in Tasks, Read(t)
  PROVE  TaskStep(t)
<1>1. /\ TypeOK /\ task[t] \in Calls /\ Shaped(task[t]) /\ Bounded(task[t]) /\ Counted /\ Catalog
  BY DEF Sound, TypeOK
<1>2. /\ task' = [task EXCEPT ![t] = task'[t]]
      /\
         \/ task'[t] = Done
         \/ task[t].pc = "read" /\ item # None /\ task'[t] = [task[t] EXCEPT !.pc = "promote", !.ent = item]
  BY <1>1, BecomeMoves DEF Read
<1>3. /\ genSeq \in Nat /\ purges \in Nat /\ owed \in Nat /\ deleted \in Nat /\ deletes \in Nat /\ purgeGen \in Nat
      /\ deleted <= deletes /\ owed <= purges /\ purgeGen <= genSeq
  BY <1>1, Types DEF Counted
<1>4. /\ genSeq' = genSeq /\ purges' = purges /\ owed' = owed
      /\ deletes' = deletes /\ purgeGen' = purgeGen
  BY DEF Read, counters, purgeHistory, barriers
<1>5. CASE task'[t] = Done
  BY <1>2, <1>3, <1>4, <1>5, DoneTask
<1>6. CASE task[t].pc = "read" /\ item # None /\ task'[t] = [task[t] EXCEPT !.pc = "promote", !.ent = item]
  <2>1. "promote" \in Places /\ item \in Entry \cup {None}
    BY <1>1, <1>3, <1>6, Types, CallFields, PlaceNames, KeyIsTyped, LiveTyped, EntryFields
  <2>2. task'[t] \in Calls
    BY <1>1, <1>6, <2>1, IdleCall DEF Calls
  <2>3. /\ task'[t].pc = "promote" /\ task'[t].start = task[t].start /\ task'[t].gen = task[t].gen /\ task'[t].prev = task[t].prev /\ task'[t].max = task[t].max
        /\ task'[t].era = task[t].era /\ task'[t].era2 = task[t].era2 /\ task'[t].ent = item /\ task'[t].seen = task[t].seen
        /\ task'[t].since = task[t].since /\ task'[t].after = task[t].after /\ task'[t].flag = task[t].flag /\ task'[t].rest = task[t].rest
    BY <1>1, <1>6, IdleCall DEF Calls
  <2>4. Shaped(task'[t])
    BY <1>1, <1>3, <1>6, <2>1, <2>3, IdleFields, CallFields, NoneApart DEF Shaped, PinnedAt
  <2>5. Bounded(task[t])'
    BY <1>1, <1>3, <1>4, <1>6, <2>1, <2>2, <2>3, IdleFields, CallFields DEF Bounded, DeleteAt
  <2> QED BY <1>2, <2>2, <2>4, <2>5 DEF TaskStep
<1> QED BY <1>2, <1>5, <1>6

LEMMA PromoteTask ==
  ASSUME Sound, NEW t \in Tasks, Promote(t)
  PROVE  TaskStep(t)
<1>1. /\ TypeOK /\ task[t] \in Calls /\ Shaped(task[t]) /\ Bounded(task[t]) /\ Counted /\ Catalog
  BY DEF Sound, TypeOK
<1>2. /\ task' = [task EXCEPT ![t] = task'[t]]
      /\
         \/ task'[t] = Done
         \/ task[t].pc = "promote" /\ mem # None /\ task'[t] = [Idle EXCEPT !.pc = "got", !.ent = mem, !.since = task[t].since, !.after = task[t].after]
         \/ task[t].pc = "promote" /\ task'[t] = [Idle EXCEPT !.pc = "got", !.ent = task[t].ent, !.since = task[t].since, !.after = task[t].after]
  BY <1>1, BecomeMoves DEF Promote
<1>3. /\ genSeq \in Nat /\ purges \in Nat /\ owed \in Nat /\ deleted \in Nat /\ deletes \in Nat /\ purgeGen \in Nat
      /\ deleted <= deletes /\ owed <= purges /\ purgeGen <= genSeq
  BY <1>1, Types DEF Counted
<1>4. /\ genSeq' = genSeq /\ purges' = purges /\ owed' = owed
      /\ deletes' = deletes /\ purgeGen' = purgeGen
  BY DEF Promote, counters, purgeHistory, barriers
<1>5. CASE task'[t] = Done
  BY <1>2, <1>3, <1>4, <1>5, DoneTask
<1>6. CASE task[t].pc = "promote" /\ mem # None /\ task'[t] = [Idle EXCEPT !.pc = "got", !.ent = mem, !.since = task[t].since, !.after = task[t].after]
  <2>1. "got" \in Places /\ mem \in Entry \cup {None} /\ task[t].since \in Nat /\ task[t].after \in Nat
    BY <1>1, <1>3, <1>6, Types, CallFields, PlaceNames, KeyIsTyped, LiveTyped, EntryFields
  <2>2. task'[t] \in Calls
    BY <1>1, <1>6, <2>1, IdleCall, ZenonT(40) DEF Calls
  <2>3. /\ task'[t].pc = "got" /\ task'[t].start = Idle.start /\ task'[t].gen = Idle.gen /\ task'[t].prev = Idle.prev /\ task'[t].max = Idle.max
        /\ task'[t].era = Idle.era /\ task'[t].era2 = Idle.era2 /\ task'[t].ent = mem /\ task'[t].seen = Idle.seen
        /\ task'[t].since = task[t].since /\ task'[t].after = task[t].after /\ task'[t].flag = Idle.flag /\ task'[t].rest = Idle.rest
    BY <1>1, <1>6, IdleCall DEF Calls
  <2>4. Shaped(task'[t])
    BY <1>1, <1>3, <1>6, <2>1, <2>3, IdleFields, CallFields, NoneApart DEF Shaped, PinnedAt
  <2>5. Bounded(task[t])'
    BY <1>1, <1>3, <1>4, <1>6, <2>1, <2>2, <2>3, IdleFields, CallFields DEF Bounded, DeleteAt
  <2> QED BY <1>2, <2>2, <2>4, <2>5 DEF TaskStep
<1>7. CASE task[t].pc = "promote" /\ task'[t] = [Idle EXCEPT !.pc = "got", !.ent = task[t].ent, !.since = task[t].since, !.after = task[t].after]
  <2>1. "got" \in Places /\ task[t].ent \in Entry \cup {None} /\ task[t].since \in Nat /\ task[t].after \in Nat
    BY <1>1, <1>3, <1>7, Types, CallFields, PlaceNames, KeyIsTyped, LiveTyped, EntryFields
  <2>2. task'[t] \in Calls
    BY <1>1, <1>7, <2>1, IdleCall DEF Calls
  <2>3. /\ task'[t].pc = "got" /\ task'[t].start = Idle.start /\ task'[t].gen = Idle.gen /\ task'[t].prev = Idle.prev /\ task'[t].max = Idle.max
        /\ task'[t].era = Idle.era /\ task'[t].era2 = Idle.era2 /\ task'[t].ent = task[t].ent /\ task'[t].seen = Idle.seen
        /\ task'[t].since = task[t].since /\ task'[t].after = task[t].after /\ task'[t].flag = Idle.flag /\ task'[t].rest = Idle.rest
    BY <1>1, <1>7, IdleCall DEF Calls
  <2>4. Shaped(task'[t])
    BY <1>1, <1>3, <1>7, <2>1, <2>3, IdleFields, CallFields, NoneApart DEF Shaped, PinnedAt
  <2>5. Bounded(task[t])'
    BY <1>1, <1>3, <1>4, <1>7, <2>1, <2>2, <2>3, IdleFields, CallFields DEF Bounded, DeleteAt
  <2> QED BY <1>2, <2>2, <2>4, <2>5 DEF TaskStep
<1> QED BY <1>2, <1>5, <1>6, <1>7

LEMMA DeleteBeginTask ==
  ASSUME Sound, NEW t \in Tasks, DeleteBegin(t)
  PROVE  TaskStep(t)
<1>1. /\ TypeOK /\ task[t] \in Calls /\ Shaped(task[t]) /\ Bounded(task[t]) /\ Counted /\ Catalog
  BY DEF Sound, TypeOK
<1>2. /\ task' = [task EXCEPT ![t] = task'[t]]
      /\
         task'[t] = [Idle EXCEPT !.pc = "delmem", !.max = deletes + 1]
  BY <1>1, BecomeMoves DEF DeleteBegin
<1>3. /\ genSeq \in Nat /\ purges \in Nat /\ owed \in Nat /\ deleted \in Nat /\ deletes \in Nat /\ purgeGen \in Nat
      /\ deleted <= deletes /\ owed <= purges /\ purgeGen <= genSeq
  BY <1>1, Types DEF Counted
<1>4. /\ genSeq' = genSeq /\ purges' = purges /\ owed' = owed
      /\ deletes' = deletes + 1 /\ purgeGen' = purgeGen
  BY DEF DeleteBegin, counters, purgeHistory, barriers
<1>5. CASE task'[t] = [Idle EXCEPT !.pc = "delmem", !.max = deletes + 1]
  <2>1. "delmem" \in Places /\ deletes + 1 \in Nat
    BY <1>1, <1>3, <1>5, Types, CallFields, PlaceNames, KeyIsTyped, LiveTyped, EntryFields
  <2>2. task'[t] \in Calls
    BY <1>1, <1>5, <2>1, IdleCall DEF Calls
  <2>3. /\ task'[t].pc = "delmem" /\ task'[t].start = Idle.start /\ task'[t].gen = Idle.gen /\ task'[t].prev = Idle.prev /\ task'[t].max = deletes + 1
        /\ task'[t].era = Idle.era /\ task'[t].era2 = Idle.era2 /\ task'[t].ent = Idle.ent /\ task'[t].seen = Idle.seen
        /\ task'[t].since = Idle.since /\ task'[t].after = Idle.after /\ task'[t].flag = Idle.flag /\ task'[t].rest = Idle.rest
    BY <1>1, <1>5, IdleCall DEF Calls
  <2>4. Shaped(task'[t])
    BY <1>1, <1>3, <1>5, <2>1, <2>3, IdleFields, CallFields, NoneApart DEF Shaped, PinnedAt
  <2>5. Bounded(task[t])'
    BY <1>1, <1>3, <1>4, <1>5, <2>1, <2>2, <2>3, IdleFields, CallFields DEF Bounded, DeleteAt
  <2> QED BY <1>2, <2>2, <2>4, <2>5 DEF TaskStep
<1> QED BY <1>2, <1>5

LEMMA DeleteMemTask ==
  ASSUME Sound, NEW t \in Tasks, DeleteMem(t)
  PROVE  TaskStep(t)
<1>1. /\ TypeOK /\ task[t] \in Calls /\ Shaped(task[t]) /\ Bounded(task[t]) /\ Counted /\ Catalog
  BY DEF Sound, TypeOK
<1>2. /\ task' = [task EXCEPT ![t] = task'[t]]
      /\
         task[t].pc = "delmem" /\ task'[t] = [task[t] EXCEPT !.pc = "deldisk", !.era = purgeGen]
  BY <1>1, BecomeMoves, BeginNextKey DEF DeleteMem, Catalog
<1>3. /\ genSeq \in Nat /\ purges \in Nat /\ owed \in Nat /\ deleted \in Nat /\ deletes \in Nat /\ purgeGen \in Nat
      /\ deleted <= deletes /\ owed <= purges /\ purgeGen <= genSeq
  BY <1>1, Types DEF Counted
<1>4. /\ genSeq' = genSeq + 1 /\ purges' = purges /\ owed' = owed
      /\ deletes' = deletes /\ purgeGen' = purgeGen
  BY DEF DeleteMem, counters, purgeHistory, barriers
<1>5. CASE task[t].pc = "delmem" /\ task'[t] = [task[t] EXCEPT !.pc = "deldisk", !.era = purgeGen]
  <2>1. "deldisk" \in Places /\ purgeGen \in Nat \cup {None}
    BY <1>1, <1>3, <1>5, Types, CallFields, PlaceNames, KeyIsTyped, LiveTyped, EntryFields
  <2>2. task'[t] \in Calls
    BY <1>1, <1>5, <2>1, IdleCall DEF Calls
  <2>3. /\ task'[t].pc = "deldisk" /\ task'[t].start = task[t].start /\ task'[t].gen = task[t].gen /\ task'[t].prev = task[t].prev /\ task'[t].max = task[t].max
        /\ task'[t].era = purgeGen /\ task'[t].era2 = task[t].era2 /\ task'[t].ent = task[t].ent /\ task'[t].seen = task[t].seen
        /\ task'[t].since = task[t].since /\ task'[t].after = task[t].after /\ task'[t].flag = task[t].flag /\ task'[t].rest = task[t].rest
    BY <1>1, <1>5, IdleCall DEF Calls
  <2>4. Shaped(task'[t])
    BY <1>1, <1>3, <1>5, <2>1, <2>3, IdleFields, CallFields, NoneApart DEF Shaped, PinnedAt
  <2>5. Bounded(task[t])'
    BY <1>1, <1>3, <1>4, <1>5, <2>1, <2>2, <2>3, IdleFields, CallFields DEF Bounded, DeleteAt
  <2> QED BY <1>2, <2>2, <2>4, <2>5 DEF TaskStep
<1> QED BY <1>2, <1>5

LEMMA DeleteDiskTask ==
  ASSUME Sound, NEW t \in Tasks, DeleteDisk(t)
  PROVE  TaskStep(t)
<1>1. /\ TypeOK /\ task[t] \in Calls /\ Shaped(task[t]) /\ Bounded(task[t]) /\ Counted /\ Catalog
  BY DEF Sound, TypeOK
<1>2. /\ task' = [task EXCEPT ![t] = task'[t]]
      /\
         task'[t] = Done
  BY <1>1, BecomeMoves DEF DeleteDisk
<1>3. /\ genSeq \in Nat /\ purges \in Nat /\ owed \in Nat /\ deleted \in Nat /\ deletes \in Nat /\ purgeGen \in Nat
      /\ deleted <= deletes /\ owed <= purges /\ purgeGen <= genSeq
  BY <1>1, Types DEF Counted
<1>4. /\ genSeq' = genSeq /\ purges' = purges /\ owed' = owed
      /\ deletes' = deletes /\ purgeGen' = purgeGen
  BY DEF DeleteDisk, counters, purgeHistory, barriers
<1>5. CASE task'[t] = Done
  BY <1>2, <1>3, <1>4, <1>5, DoneTask
<1> QED BY <1>2, <1>5

LEMMA PurgeTask ==
  ASSUME Sound, NEW t \in Tasks, NEW c \in BOOLEAN, Purge(t, c)
  PROVE  TaskStep(t)
<1>1. /\ TypeOK /\ task[t] \in Calls /\ Shaped(task[t]) /\ Bounded(task[t]) /\ Counted /\ Catalog
  BY DEF Sound, TypeOK
<1>2. /\ task' = [task EXCEPT ![t] = task'[t]]
      /\
         task'[t] = [Idle EXCEPT !.pc = "prepare", !.max = genSeq + 1, !.flag = c, !.since = purges + 1, !.rest = Held]
  BY <1>1, BecomeMoves DEF Purge, Accept
<1>3. /\ genSeq \in Nat /\ purges \in Nat /\ owed \in Nat /\ deleted \in Nat /\ deletes \in Nat /\ purgeGen \in Nat
      /\ deleted <= deletes /\ owed <= purges /\ purgeGen <= genSeq
  BY <1>1, Types DEF Counted
<1>4. /\ genSeq' = genSeq + 1 /\ purges' = purges + 1 /\ owed' = purges + 1
      /\ deletes' = deletes /\ purgeGen' = purgeGen
  BY DEF Purge, Accept, counters, purgeHistory, barriers
<1>5. CASE task'[t] = [Idle EXCEPT !.pc = "prepare", !.max = genSeq + 1, !.flag = c, !.since = purges + 1, !.rest = Held]
  <2>1. "prepare" \in Places /\ genSeq + 1 \in Nat /\ purges + 1 \in Nat /\ Held \in BOOLEAN
    BY <1>1, <1>3, <1>5, Types, CallFields, PlaceNames, KeyIsTyped, LiveTyped, EntryFields DEF Held
  <2>2. task'[t] \in Calls
    BY <1>1, <1>5, <2>1, IdleCall DEF Calls
  <2>3. /\ task'[t].pc = "prepare" /\ task'[t].start = Idle.start /\ task'[t].gen = Idle.gen /\ task'[t].prev = Idle.prev /\ task'[t].max = genSeq + 1
        /\ task'[t].era = Idle.era /\ task'[t].era2 = Idle.era2 /\ task'[t].ent = Idle.ent /\ task'[t].seen = Idle.seen
        /\ task'[t].since = purges + 1 /\ task'[t].after = Idle.after /\ task'[t].flag = c /\ task'[t].rest = Held
    BY <1>1, <1>5, IdleCall DEF Calls
  <2>4. Shaped(task'[t])
    BY <1>1, <1>3, <1>5, <2>1, <2>3, IdleFields, CallFields, NoneApart DEF Shaped, PinnedAt
  <2>5. Bounded(task[t])'
    BY <1>1, <1>3, <1>4, <1>5, <2>1, <2>2, <2>3, IdleFields, CallFields DEF Bounded, DeleteAt
  <2> QED BY <1>2, <2>2, <2>4, <2>5 DEF TaskStep
<1> QED BY <1>2, <1>5

LEMMA PurgeAllTask ==
  ASSUME Sound, NEW t \in Tasks, NEW c \in BOOLEAN, PurgeAll(t, c)
  PROVE  TaskStep(t)
<1>1. /\ TypeOK /\ task[t] \in Calls /\ Shaped(task[t]) /\ Bounded(task[t]) /\ Counted /\ Catalog
  BY DEF Sound, TypeOK
<1>2. /\ task' = [task EXCEPT ![t] = task'[t]]
      /\
         task'[t] = [Idle EXCEPT !.pc = "prepareall", !.max = genSeq + 1, !.flag = c, !.since = purges + 1]
  BY <1>1, BecomeMoves DEF PurgeAll, Accept
<1>3. /\ genSeq \in Nat /\ purges \in Nat /\ owed \in Nat /\ deleted \in Nat /\ deletes \in Nat /\ purgeGen \in Nat
      /\ deleted <= deletes /\ owed <= purges /\ purgeGen <= genSeq
  BY <1>1, Types DEF Counted
<1>4. /\ genSeq' = genSeq + 1 /\ purges' = purges + 1 /\ owed' = purges + 1
      /\ deletes' = deletes /\ purgeGen' = genSeq + 1
  BY DEF PurgeAll, Accept, counters, purgeHistory, barriers
<1>5. CASE task'[t] = [Idle EXCEPT !.pc = "prepareall", !.max = genSeq + 1, !.flag = c, !.since = purges + 1]
  <2>1. "prepareall" \in Places /\ genSeq + 1 \in Nat /\ purges + 1 \in Nat
    BY <1>1, <1>3, <1>5, Types, CallFields, PlaceNames, KeyIsTyped, LiveTyped, EntryFields
  <2>2. task'[t] \in Calls
    BY <1>1, <1>5, <2>1, IdleCall DEF Calls
  <2>3. /\ task'[t].pc = "prepareall" /\ task'[t].start = Idle.start /\ task'[t].gen = Idle.gen /\ task'[t].prev = Idle.prev /\ task'[t].max = genSeq + 1
        /\ task'[t].era = Idle.era /\ task'[t].era2 = Idle.era2 /\ task'[t].ent = Idle.ent /\ task'[t].seen = Idle.seen
        /\ task'[t].since = purges + 1 /\ task'[t].after = Idle.after /\ task'[t].flag = c /\ task'[t].rest = Idle.rest
    BY <1>1, <1>5, IdleCall DEF Calls
  <2>4. Shaped(task'[t])
    BY <1>1, <1>3, <1>5, <2>1, <2>3, IdleFields, CallFields, NoneApart DEF Shaped, PinnedAt
  <2>5. Bounded(task[t])'
    BY <1>1, <1>3, <1>4, <1>5, <2>1, <2>2, <2>3, IdleFields, CallFields DEF Bounded, DeleteAt
  <2> QED BY <1>2, <2>2, <2>4, <2>5 DEF TaskStep
<1> QED BY <1>2, <1>5

LEMMA PrepareTask ==
  ASSUME Sound, NEW t \in Tasks, Prepare(t)
  PROVE  TaskStep(t)
<1>1. /\ TypeOK /\ task[t] \in Calls /\ Shaped(task[t]) /\ Bounded(task[t]) /\ Counted /\ Catalog
  BY DEF Sound, TypeOK
<1>2. /\ task' = [task EXCEPT ![t] = task'[t]]
      /\
         \/ task[t].pc = "prepareall" /\ task'[t] = [task[t] EXCEPT !.pc = "unlinkall", !.rest = FALSE]
         \/ task[t].pc = "prepare" /\ task'[t] = [task[t] EXCEPT !.pc = "batch", !.rest = FALSE]
         \/ task[t].pc = "prepare" /\ task'[t] = [task[t] EXCEPT !.pc = "close", !.rest = FALSE]
  BY <1>1, BecomeMoves DEF Prepare
<1>3. /\ genSeq \in Nat /\ purges \in Nat /\ owed \in Nat /\ deleted \in Nat /\ deletes \in Nat /\ purgeGen \in Nat
      /\ deleted <= deletes /\ owed <= purges /\ purgeGen <= genSeq
  BY <1>1, Types DEF Counted
<1>4. /\ genSeq' = genSeq /\ purges' = purges /\ owed' = owed
      /\ deletes' = deletes /\ purgeGen' = purgeGen
  BY DEF Prepare, counters, purgeHistory, barriers
<1>5. CASE task[t].pc = "prepareall" /\ task'[t] = [task[t] EXCEPT !.pc = "unlinkall", !.rest = FALSE]
  <2>1. "unlinkall" \in Places
    BY <1>1, <1>3, <1>5, Types, CallFields, PlaceNames, KeyIsTyped, LiveTyped, EntryFields
  <2>2. task'[t] \in Calls
    BY <1>1, <1>5, <2>1, IdleCall DEF Calls
  <2>3. /\ task'[t].pc = "unlinkall" /\ task'[t].start = task[t].start /\ task'[t].gen = task[t].gen /\ task'[t].prev = task[t].prev /\ task'[t].max = task[t].max
        /\ task'[t].era = task[t].era /\ task'[t].era2 = task[t].era2 /\ task'[t].ent = task[t].ent /\ task'[t].seen = task[t].seen
        /\ task'[t].since = task[t].since /\ task'[t].after = task[t].after /\ task'[t].flag = task[t].flag /\ task'[t].rest = FALSE
    BY <1>1, <1>5, IdleCall DEF Calls
  <2>4. Shaped(task'[t])
    BY <1>1, <1>3, <1>5, <2>1, <2>3, IdleFields, CallFields, NoneApart DEF Shaped, PinnedAt
  <2>5. Bounded(task[t])'
    BY <1>1, <1>3, <1>4, <1>5, <2>1, <2>2, <2>3, IdleFields, CallFields DEF Bounded, DeleteAt
  <2> QED BY <1>2, <2>2, <2>4, <2>5 DEF TaskStep
<1>6. CASE task[t].pc = "prepare" /\ task'[t] = [task[t] EXCEPT !.pc = "batch", !.rest = FALSE]
  <2>1. "batch" \in Places
    BY <1>1, <1>3, <1>6, Types, CallFields, PlaceNames, KeyIsTyped, LiveTyped, EntryFields
  <2>2. task'[t] \in Calls
    BY <1>1, <1>6, <2>1, IdleCall DEF Calls
  <2>3. /\ task'[t].pc = "batch" /\ task'[t].start = task[t].start /\ task'[t].gen = task[t].gen /\ task'[t].prev = task[t].prev /\ task'[t].max = task[t].max
        /\ task'[t].era = task[t].era /\ task'[t].era2 = task[t].era2 /\ task'[t].ent = task[t].ent /\ task'[t].seen = task[t].seen
        /\ task'[t].since = task[t].since /\ task'[t].after = task[t].after /\ task'[t].flag = task[t].flag /\ task'[t].rest = FALSE
    BY <1>1, <1>6, IdleCall DEF Calls
  <2>4. Shaped(task'[t])
    BY <1>1, <1>3, <1>6, <2>1, <2>3, IdleFields, CallFields, NoneApart DEF Shaped, PinnedAt
  <2>5. Bounded(task[t])'
    BY <1>1, <1>3, <1>4, <1>6, <2>1, <2>2, <2>3, IdleFields, CallFields DEF Bounded, DeleteAt
  <2> QED BY <1>2, <2>2, <2>4, <2>5 DEF TaskStep
<1>7. CASE task[t].pc = "prepare" /\ task'[t] = [task[t] EXCEPT !.pc = "close", !.rest = FALSE]
  <2>1. "close" \in Places
    BY <1>1, <1>3, <1>7, Types, CallFields, PlaceNames, KeyIsTyped, LiveTyped, EntryFields
  <2>2. task'[t] \in Calls
    BY <1>1, <1>7, <2>1, IdleCall DEF Calls
  <2>3. /\ task'[t].pc = "close" /\ task'[t].start = task[t].start /\ task'[t].gen = task[t].gen /\ task'[t].prev = task[t].prev /\ task'[t].max = task[t].max
        /\ task'[t].era = task[t].era /\ task'[t].era2 = task[t].era2 /\ task'[t].ent = task[t].ent /\ task'[t].seen = task[t].seen
        /\ task'[t].since = task[t].since /\ task'[t].after = task[t].after /\ task'[t].flag = task[t].flag /\ task'[t].rest = FALSE
    BY <1>1, <1>7, IdleCall DEF Calls
  <2>4. Shaped(task'[t])
    BY <1>1, <1>3, <1>7, <2>1, <2>3, IdleFields, CallFields, NoneApart DEF Shaped, PinnedAt
  <2>5. Bounded(task[t])'
    BY <1>1, <1>3, <1>4, <1>7, <2>1, <2>2, <2>3, IdleFields, CallFields DEF Bounded, DeleteAt
  <2> QED BY <1>2, <2>2, <2>4, <2>5 DEF TaskStep
<1> QED BY <1>2, <1>5, <1>6, <1>7

LEMMA BatchTask ==
  ASSUME Sound, NEW t \in Tasks, Batch(t)
  PROVE  TaskStep(t)
<1>1. /\ TypeOK /\ task[t] \in Calls /\ Shaped(task[t]) /\ Bounded(task[t]) /\ Counted /\ Catalog
  BY DEF Sound, TypeOK
<1>2. /\ task' = [task EXCEPT ![t] = task'[t]]
      /\
         task[t].pc = "batch" /\ task'[t] = [task[t] EXCEPT !.pc = "unlink"]
  BY <1>1, BecomeMoves DEF Batch
<1>3. /\ genSeq \in Nat /\ purges \in Nat /\ owed \in Nat /\ deleted \in Nat /\ deletes \in Nat /\ purgeGen \in Nat
      /\ deleted <= deletes /\ owed <= purges /\ purgeGen <= genSeq
  BY <1>1, Types DEF Counted
<1>4. /\ genSeq' \in {genSeq, genSeq + 1} /\ purges' = purges /\ owed' = owed
      /\ deletes' = deletes /\ purgeGen' = purgeGen
  BY DEF Batch, counters, purgeHistory, barriers
<1>5. CASE task[t].pc = "batch" /\ task'[t] = [task[t] EXCEPT !.pc = "unlink"]
  <2>1. "unlink" \in Places
    BY <1>1, <1>3, <1>5, Types, CallFields, PlaceNames, KeyIsTyped, LiveTyped, EntryFields
  <2>2. task'[t] \in Calls
    BY <1>1, <1>5, <2>1, IdleCall DEF Calls
  <2>3. /\ task'[t].pc = "unlink" /\ task'[t].start = task[t].start /\ task'[t].gen = task[t].gen /\ task'[t].prev = task[t].prev /\ task'[t].max = task[t].max
        /\ task'[t].era = task[t].era /\ task'[t].era2 = task[t].era2 /\ task'[t].ent = task[t].ent /\ task'[t].seen = task[t].seen
        /\ task'[t].since = task[t].since /\ task'[t].after = task[t].after /\ task'[t].flag = task[t].flag /\ task'[t].rest = task[t].rest
    BY <1>1, <1>5, IdleCall DEF Calls
  <2>4. Shaped(task'[t])
    BY <1>1, <1>3, <1>5, <2>1, <2>3, IdleFields, CallFields, NoneApart DEF Shaped, PinnedAt
  <2>5. Bounded(task[t])'
    BY <1>1, <1>3, <1>4, <1>5, <2>1, <2>2, <2>3, IdleFields, CallFields DEF Bounded, DeleteAt
  <2> QED BY <1>2, <2>2, <2>4, <2>5 DEF TaskStep
<1> QED BY <1>2, <1>5

LEMMA CancelTask ==
  ASSUME Sound, NEW t \in Tasks, Cancel(t)
  PROVE  TaskStep(t)
<1>1. /\ TypeOK /\ task[t] \in Calls /\ Shaped(task[t]) /\ Bounded(task[t]) /\ Counted /\ Catalog
  BY DEF Sound, TypeOK
<1>2. /\ task' = [task EXCEPT ![t] = task'[t]]
      /\
         task[t].pc = "batch" /\ task'[t] = [task[t] EXCEPT !.pc = "close", !.rest = TRUE]
  BY <1>1, BecomeMoves DEF Cancel
<1>3. /\ genSeq \in Nat /\ purges \in Nat /\ owed \in Nat /\ deleted \in Nat /\ deletes \in Nat /\ purgeGen \in Nat
      /\ deleted <= deletes /\ owed <= purges /\ purgeGen <= genSeq
  BY <1>1, Types DEF Counted
<1>4. /\ genSeq' = genSeq /\ purges' = purges /\ owed' = owed
      /\ deletes' = deletes /\ purgeGen' = purgeGen
  BY DEF Cancel, counters, purgeHistory, barriers
<1>5. CASE task[t].pc = "batch" /\ task'[t] = [task[t] EXCEPT !.pc = "close", !.rest = TRUE]
  <2>1. "close" \in Places
    BY <1>1, <1>3, <1>5, Types, CallFields, PlaceNames, KeyIsTyped, LiveTyped, EntryFields
  <2>2. task'[t] \in Calls
    BY <1>1, <1>5, <2>1, IdleCall DEF Calls
  <2>3. /\ task'[t].pc = "close" /\ task'[t].start = task[t].start /\ task'[t].gen = task[t].gen /\ task'[t].prev = task[t].prev /\ task'[t].max = task[t].max
        /\ task'[t].era = task[t].era /\ task'[t].era2 = task[t].era2 /\ task'[t].ent = task[t].ent /\ task'[t].seen = task[t].seen
        /\ task'[t].since = task[t].since /\ task'[t].after = task[t].after /\ task'[t].flag = task[t].flag /\ task'[t].rest = TRUE
    BY <1>1, <1>5, IdleCall DEF Calls
  <2>4. Shaped(task'[t])
    BY <1>1, <1>3, <1>5, <2>1, <2>3, IdleFields, CallFields, NoneApart DEF Shaped, PinnedAt
  <2>5. Bounded(task[t])'
    BY <1>1, <1>3, <1>4, <1>5, <2>1, <2>2, <2>3, IdleFields, CallFields DEF Bounded, DeleteAt
  <2> QED BY <1>2, <2>2, <2>4, <2>5 DEF TaskStep
<1> QED BY <1>2, <1>5

LEMMA UnlinkTask ==
  ASSUME Sound, NEW t \in Tasks, Unlink(t)
  PROVE  TaskStep(t)
<1>1. /\ TypeOK /\ task[t] \in Calls /\ Shaped(task[t]) /\ Bounded(task[t]) /\ Counted /\ Catalog
  BY DEF Sound, TypeOK
<1>2. /\ task' = [task EXCEPT ![t] = task'[t]]
      /\
         \/ task[t].pc = "unlink" /\ task'[t] = [task[t] EXCEPT !.pc = "close", !.rest = (left' # left)]
         \/ task[t].pc = "unlinkall" /\ task'[t] = [task[t] EXCEPT !.pc = "closeall", !.rest = (left' # left)]
  BY <1>1, BecomeMoves DEF Unlink
<1>3. /\ genSeq \in Nat /\ purges \in Nat /\ owed \in Nat /\ deleted \in Nat /\ deletes \in Nat /\ purgeGen \in Nat
      /\ deleted <= deletes /\ owed <= purges /\ purgeGen <= genSeq
  BY <1>1, Types DEF Counted
<1>4. /\ genSeq' = genSeq /\ purges' = purges /\ owed' = owed
      /\ deletes' = deletes /\ purgeGen' = purgeGen
  BY DEF Unlink, counters, purgeHistory, barriers
<1>5. CASE task[t].pc = "unlink" /\ task'[t] = [task[t] EXCEPT !.pc = "close", !.rest = (left' # left)]
  <2>1. "close" \in Places /\ (left' # left) \in BOOLEAN
    BY <1>1, <1>3, <1>5, Types, CallFields, PlaceNames, KeyIsTyped, LiveTyped, EntryFields
  <2>2. task'[t] \in Calls
    BY <1>1, <1>5, <2>1, IdleCall DEF Calls
  <2>3. /\ task'[t].pc = "close" /\ task'[t].start = task[t].start /\ task'[t].gen = task[t].gen /\ task'[t].prev = task[t].prev /\ task'[t].max = task[t].max
        /\ task'[t].era = task[t].era /\ task'[t].era2 = task[t].era2 /\ task'[t].ent = task[t].ent /\ task'[t].seen = task[t].seen
        /\ task'[t].since = task[t].since /\ task'[t].after = task[t].after /\ task'[t].flag = task[t].flag /\ task'[t].rest = (left' # left)
    BY <1>1, <1>5, IdleCall DEF Calls
  <2>4. Shaped(task'[t])
    BY <1>1, <1>3, <1>5, <2>1, <2>3, IdleFields, CallFields, NoneApart DEF Shaped, PinnedAt
  <2>5. Bounded(task[t])'
    BY <1>1, <1>3, <1>4, <1>5, <2>1, <2>2, <2>3, IdleFields, CallFields DEF Bounded, DeleteAt
  <2> QED BY <1>2, <2>2, <2>4, <2>5 DEF TaskStep
<1>6. CASE task[t].pc = "unlinkall" /\ task'[t] = [task[t] EXCEPT !.pc = "closeall", !.rest = (left' # left)]
  <2>1. "closeall" \in Places /\ (left' # left) \in BOOLEAN
    BY <1>1, <1>3, <1>6, Types, CallFields, PlaceNames, KeyIsTyped, LiveTyped, EntryFields
  <2>2. task'[t] \in Calls
    BY <1>1, <1>6, <2>1, IdleCall DEF Calls
  <2>3. /\ task'[t].pc = "closeall" /\ task'[t].start = task[t].start /\ task'[t].gen = task[t].gen /\ task'[t].prev = task[t].prev /\ task'[t].max = task[t].max
        /\ task'[t].era = task[t].era /\ task'[t].era2 = task[t].era2 /\ task'[t].ent = task[t].ent /\ task'[t].seen = task[t].seen
        /\ task'[t].since = task[t].since /\ task'[t].after = task[t].after /\ task'[t].flag = task[t].flag /\ task'[t].rest = (left' # left)
    BY <1>1, <1>6, IdleCall DEF Calls
  <2>4. Shaped(task'[t])
    BY <1>1, <1>3, <1>6, <2>1, <2>3, IdleFields, CallFields, NoneApart DEF Shaped, PinnedAt
  <2>5. Bounded(task[t])'
    BY <1>1, <1>3, <1>4, <1>6, <2>1, <2>2, <2>3, IdleFields, CallFields DEF Bounded, DeleteAt
  <2> QED BY <1>2, <2>2, <2>4, <2>5 DEF TaskStep
<1> QED BY <1>2, <1>5, <1>6

LEMMA CloseTask ==
  ASSUME Sound, NEW t \in Tasks, Close(t)
  PROVE  TaskStep(t)
<1>1. /\ TypeOK /\ task[t] \in Calls /\ Shaped(task[t]) /\ Bounded(task[t]) /\ Counted /\ Catalog
  BY DEF Sound, TypeOK
<1>2. /\ task' = [task EXCEPT ![t] = task'[t]]
      /\
         task'[t] = Done
  BY <1>1, BecomeMoves DEF Close
<1>3. /\ genSeq \in Nat /\ purges \in Nat /\ owed \in Nat /\ deleted \in Nat /\ deletes \in Nat /\ purgeGen \in Nat
      /\ deleted <= deletes /\ owed <= purges /\ purgeGen <= genSeq
  BY <1>1, Types DEF Counted
<1>4. /\ genSeq' = genSeq /\ purges' = purges /\ owed' = owed
      /\ deletes' = deletes /\ purgeGen' = purgeGen
  BY DEF Close, counters, purgeHistory, barriers
<1>5. CASE task'[t] = Done
  BY <1>2, <1>3, <1>4, <1>5, DoneTask
<1> QED BY <1>2, <1>5

LEMMA CloseAllTask ==
  ASSUME Sound, NEW t \in Tasks, CloseAll(t)
  PROVE  TaskStep(t)
<1>1. /\ TypeOK /\ task[t] \in Calls /\ Shaped(task[t]) /\ Bounded(task[t]) /\ Counted /\ Catalog
  BY DEF Sound, TypeOK
<1>2. /\ task' = [task EXCEPT ![t] = task'[t]]
      /\
         task'[t] = Done
  BY <1>1, BecomeMoves DEF CloseAll
<1>3. /\ genSeq \in Nat /\ purges \in Nat /\ owed \in Nat /\ deleted \in Nat /\ deletes \in Nat /\ purgeGen \in Nat
      /\ deleted <= deletes /\ owed <= purges /\ purgeGen <= genSeq
  BY <1>1, Types DEF Counted
<1>4. /\ genSeq' = genSeq /\ purges' = purges /\ owed' = owed
      /\ deletes' = deletes /\ purgeGen' = purgeGen
  BY DEF CloseAll, counters, purgeHistory, barriers
<1>5. CASE task'[t] = Done
  BY <1>2, <1>3, <1>4, <1>5, DoneTask
<1> QED BY <1>2, <1>5

(* A publication that passes the fence. *)
NewEntry(t, e) == e \in Entry /\ e.gen = genSeq + 1 /\ e.seen = task[t].seen /\ e.pub = deletes
Writing(t, e, b) ==
    [task[t] EXCEPT !.pc = "write", !.gen = genSeq + 1, !.ent = e, !.flag = b, !.era = purgeGen, !.prev = KG]

LEMMA PublishableIs ==
  ASSUME TypeOK, NEW t \in Tasks, NEW p \in Publishable(t)
  PROVE  NewEntry(t, p[1]) /\ p[2] \in BOOLEAN
<1> DEFINE new(l) == [gen |-> genSeq + 1, seen |-> task[t].seen, pub |-> deletes, large |-> l]
<1>1. genSeq + 1 \in Nat /\ deletes \in Nat /\ task[t].seen \in Nat /\ task[t].ent \in Entry \cup {None}
  BY Types, CallFields
<1>2. \A l \in BOOLEAN : NewEntry(t, new(l))
  BY <1>1 DEF NewEntry, Entry
<1>3. task[t].ent # None => task[t].ent.large \in BOOLEAN
  BY <1>1, EntryFields
<1>4. (\E l \in BOOLEAN : p = <<new(l), FALSE>>) \/ (task[t].ent # None /\ p = <<new(task[t].ent.large), TRUE>>)
  BY DEF Publishable
<1>5. ASSUME NEW l \in BOOLEAN, NEW b \in BOOLEAN, p = <<new(l), b>> PROVE NewEntry(t, p[1]) /\ p[2] \in BOOLEAN
  <2>1. p[1] = new(l) /\ p[2] = b
    BY <1>5
  <2> QED BY <1>2, <2>1
<1> QED BY <1>3, <1>4, <1>5

LEMMA PublishIs ==
  ASSUME Sound, NEW t \in Tasks, Publish(t), ~PublicationFenced(task[t].start)
  PROVE  \E e \in Entry : \E b \in BOOLEAN :
           /\ NewEntry(t, e)
           /\ task' = [task EXCEPT ![t] = task'[t]] /\ task'[t] = Writing(t, e, b)
           /\ mem' = IF e.large THEN None ELSE e
<1>1. TypeOK /\ Catalog
  BY DEF Sound
<1>2. BeginNext(keyGen).era = purgeGen /\ KG = IF keyGen = None THEN 0 ELSE keyGen.gen
  BY <1>1, BeginNextKey DEF Catalog, KG, GenOf
<1>3. PICK p \in Publishable(t) :
        /\ mem' = IF p[1].large THEN None ELSE p[1]
        /\ Become(t, Writing(t, p[1], p[2]))
  BY <1>2 DEF Publish, Writing
<1>4. NewEntry(t, p[1]) /\ p[2] \in BOOLEAN
  BY <1>1, PublishableIs
<1>5. task' = [task EXCEPT ![t] = task'[t]] /\ task'[t] = Writing(t, p[1], p[2])
  BY <1>1, <1>3, BecomeMoves
<1>6. p[1] \in Entry
  BY <1>4 DEF NewEntry
<1> QED BY <1>3, <1>4, <1>5, <1>6

LEMMA WritingFields ==
  ASSUME TypeOK, Counted, NEW t \in Tasks, NEW e \in Entry, NEW b \in BOOLEAN
  PROVE  /\ Writing(t, e, b) \in Calls
         /\ Writing(t, e, b).pc = "write" /\ Writing(t, e, b).gen = genSeq + 1 /\ Writing(t, e, b).ent = e
         /\ Writing(t, e, b).era = purgeGen /\ Writing(t, e, b).prev = KG
         /\ Writing(t, e, b).start = task[t].start /\ Writing(t, e, b).max = task[t].max
         /\ Writing(t, e, b).era2 = task[t].era2 /\ Writing(t, e, b).seen = task[t].seen
         /\ Writing(t, e, b).since = task[t].since /\ Writing(t, e, b).after = task[t].after
<1>1. task[t] \in Calls /\ genSeq + 1 \in Nat /\ purgeGen \in Nat /\ KG \in Nat /\ "write" \in Places
  BY Types, KeyIsTyped, PlaceNames
<1> QED BY <1>1 DEF Writing, Calls

LEMMA PublishTask ==
  ASSUME Sound, NEW t \in Tasks, Publish(t)
  PROVE  TaskStep(t)
<1>1. /\ TypeOK /\ task[t] \in Calls /\ Shaped(task[t]) /\ Bounded(task[t]) /\ Counted /\ task[t].pc = "origin"
  BY DEF Sound, TypeOK, Publish
<1>2. /\ genSeq \in Nat /\ purges \in Nat /\ owed \in Nat /\ deleted \in Nat /\ deletes \in Nat /\ purgeGen \in Nat
      /\ deleted <= deletes /\ owed <= purges /\ purgeGen <= genSeq /\ KG \in 0 .. genSeq
  BY <1>1, Types, KeyIsTyped DEF Counted
<1>3. /\ genSeq' \in {genSeq, genSeq + 1} /\ purges' = purges /\ owed' = owed
      /\ deletes' = deletes /\ purgeGen' = purgeGen
  BY DEF Publish, counters, purgeHistory
<1>4. CASE PublicationFenced(task[t].start)
  <2>1. Become(t, Done)
    BY <1>4 DEF Publish
  <2> QED BY <1>1, <1>2, <1>3, <2>1, BecomeMoves, DoneTask
<1>5. CASE ~PublicationFenced(task[t].start)
  <2>1. PICK e \in Entry, b \in BOOLEAN : /\ NewEntry(t, e) /\ task' = [task EXCEPT ![t] = task'[t]]
                                          /\ task'[t] = Writing(t, e, b)
    BY <1>5, PublishIs
  <2>2. genSeq' = genSeq + 1
    BY <1>5 DEF Publish
  <2>3. Shaped(task'[t])
    BY <1>1, <1>2, <2>1, WritingFields, NoneApart, EntryFields DEF Shaped, PinnedAt, NewEntry
  <2>4. Bounded(task[t])'
    BY <1>1, <1>2, <1>3, <2>1, <2>2, WritingFields, CallFields DEF Bounded, DeleteAt
  <2> QED BY <1>1, <2>1, <2>3, <2>4, WritingFields DEF TaskStep
<1> QED BY <1>4, <1>5

LEMMA RetryTask ==
  ASSUME Sound, NEW t \in Tasks, Retry(t)
  PROVE  TaskStep(t)
<1>1. /\ TypeOK /\ task[t] \in Calls /\ Shaped(task[t]) /\ Bounded(task[t]) /\ Counted
  BY DEF Sound, TypeOK
<1>2. PICK f \in fences : Become(t, [Idle EXCEPT !.pc = "prepare", !.max = f.gen, !.flag = TRUE,
                                       !.rest = Held /\ keyGen.gen <= f.gen])
  BY DEF Retry
<1>3. /\ genSeq \in Nat /\ purges \in Nat /\ owed \in Nat /\ deleted \in Nat /\ deletes \in Nat /\ purgeGen \in Nat
      /\ f.gen \in Nat /\ f.gen <= genSeq /\ (Held /\ keyGen.gen <= f.gen) \in BOOLEAN
  BY <1>1, Types DEF TypeOK
<1>4. /\ genSeq' = genSeq /\ purges' = purges /\ owed' = owed /\ deletes' = deletes /\ purgeGen' = purgeGen
  BY DEF Retry, purgeHistory
<1>5. task'[t] = [Idle EXCEPT !.pc = "prepare", !.max = f.gen, !.flag = TRUE, !.rest = Held /\ keyGen.gen <= f.gen]
  BY <1>1, <1>2, BecomeMoves
<1>6. task'[t] \in Calls
  BY <1>3, <1>5, IdleCall, PlaceNames DEF Calls
<1>7. /\ task'[t].pc = "prepare" /\ task'[t].start = 0 /\ task'[t].gen = 0 /\ task'[t].prev = 0 /\ task'[t].max = f.gen
      /\ task'[t].era = None /\ task'[t].era2 = None /\ task'[t].seen = 0 /\ task'[t].since = 0 /\ task'[t].after = 0
  BY <1>5, IdleCall, IdleFields DEF Calls
<1>8. Shaped(task'[t])
  BY <1>7 DEF Shaped, PinnedAt
<1>9. Bounded(task[t])'
  BY <1>3, <1>4, <1>7 DEF Bounded, DeleteAt
<1> QED BY <1>1, <1>2, <1>6, <1>8, <1>9, BecomeMoves DEF TaskStep

LEMMA NotAcceptedTask ==
  ASSUME Sound, NEW t \in Tasks, NEW c \in BOOLEAN, NotAccepted(t, c)
  PROVE  TaskStep(t)
<1>1. TypeOK
  BY DEF Sound
<1>2. task' = [task EXCEPT ![t] = task'[t]] /\ task'[t] \in {Done, [Idle EXCEPT !.pc = "wipe"]}
  BY <1>1, BecomeMoves DEF NotAccepted
<1>3. /\ genSeq' \in Nat /\ purges' \in Nat /\ owed' \in Nat /\ deletes' \in Nat /\ purgeGen' \in Nat
  BY <1>1, Types DEF NotAccepted, counters, purgeHistory
<1>4. CASE task'[t] = Done
  BY <1>2, <1>3, <1>4, DoneTask
<1>5. CASE task'[t] = [Idle EXCEPT !.pc = "wipe"]
  <2>1. task'[t] \in Calls
    BY <1>5, IdleCall, PlaceNames DEF Calls
  <2>2. /\ task'[t].pc = "wipe" /\ task'[t].start = 0 /\ task'[t].gen = 0 /\ task'[t].prev = 0 /\ task'[t].max = 0
        /\ task'[t].era = None /\ task'[t].era2 = None /\ task'[t].seen = 0 /\ task'[t].since = 0 /\ task'[t].after = 0
    BY <1>5, IdleCall, IdleFields DEF Calls
  <2>3. Shaped(task'[t])
    BY <2>2 DEF Shaped, PinnedAt
  <2>4. Bounded(task[t])'
    BY <1>3, <2>2 DEF Bounded, DeleteAt
  <2> QED BY <1>2, <2>1, <2>3, <2>4 DEF TaskStep
<1> QED BY <1>2, <1>4, <1>5

LEMMA WipeTask ==
  ASSUME Sound, NEW t \in Tasks, Wipe(t) \/ Crowd(t)
  PROVE  TaskStep(t)
<1>1. TypeOK
  BY DEF Sound
<1>2. task' = [task EXCEPT ![t] = task'[t]] /\ task'[t] = Done
  BY <1>1, BecomeMoves DEF Wipe, Crowd
<1>3. /\ genSeq' \in Nat /\ purges' \in Nat /\ owed' \in Nat /\ deletes' \in Nat /\ purgeGen' \in Nat
  BY <1>1, Types DEF Wipe, Crowd, barriers, counters, purgeHistory
<1> QED BY <1>2, <1>3, DoneTask

(* One step of one call. *)
Act(t) ==
    \/ Begin(t) \/ Discard(t) \/ Publish(t) \/ Commit(t) \/ Refuse(t) \/ Restore(t) \/ Undo(t)
    \/ Check(t) \/ Unstore(t) \/ Drop(t) \/ Evict(t) \/ Flush(t)
    \/ Lookup(t) \/ Screen(t) \/ Probe(t) \/ Read(t) \/ Promote(t)
    \/ DeleteBegin(t) \/ DeleteMem(t) \/ DeleteDisk(t)
    \/ \E c \in BOOLEAN : Purge(t, c) \/ PurgeAll(t, c) \/ NotAccepted(t, c)
    \/ Wipe(t) \/ Prepare(t) \/ Batch(t) \/ Cancel(t) \/ Unlink(t) \/ Close(t) \/ CloseAll(t) \/ Retry(t)
    \/ Crowd(t)

LEMMA ActTask ==
  ASSUME Sound, NEW t \in Tasks, Act(t)
  PROVE  TaskStep(t)
  BY BeginTask, DiscardTask, PublishTask, CommitTask, RefuseTask, RestoreTask, UndoTask, CheckTask, UnstoreTask,
     DropTask, EvictTask, FlushTask, LookupTask, ScreenTask, ProbeTask, ReadTask, PromoteTask, DeleteBeginTask, DeleteMemTask,
     DeleteDiskTask, PurgeTask, PurgeAllTask, PrepareTask, BatchTask, CancelTask, UnlinkTask, CloseTask,
     CloseAllTask, RetryTask, NotAcceptedTask, WipeTask DEF Act

LEMMA TaskOthers ==
  ASSUME TypeOK, NEW t \in Tasks, TaskStep(t)
  PROVE  /\ task' \in [Tasks -> Calls] /\ \A u \in Tasks \ {t} : task'[u] = task[u]
         /\ \A u \in Tasks : task'[u] = IF u = t THEN task'[t] ELSE task[u]
  BY Types DEF TaskStep
-----------------------------------------------------------------------------
(* What a step does to the catalog and to the two tiers.                   *)
KeyMove(t) ==
    \/ KG' = KG
    \/ keyGen' = None /\ mem' = None
    \/ /\ KG' = genSeq + 1 /\ genSeq' = genSeq + 1
       /\ task'[t].pc = "write" \/ mem' = None \/ (mem' = mem /\ mem.gen # KG)
    \/ Restore(t) /\ TakesBack(t) /\ KG' = task[t].prev

MemMove(t) ==
    \/ mem' = mem \/ mem' = None
    \/ task'[t].pc = "write" /\ ~task'[t].ent.large /\ mem' = task'[t].ent
    \/ /\ task[t].pc = "promote" /\ StillValid(t) /\ ~task[t].ent.large
       /\ mem' = task[t].ent /\ item' = item /\ KG' = KG

ItemMove(t) ==
    \/ item' = item \/ item' = None
    \/ /\ task[t].pc \in {"write", "flush"} /\ CanCommit(t)
       /\ item' = task[t].ent /\ mem' = mem /\ KG' = KG

CatStep(t) ==
    /\ GoodKey(keyGen', mem')
    /\ Uses(keyGen') + Pin(task[t].era) + Pin(task[t].era2) = Uses(keyGen) + Pin(task'[t].era) + Pin(task'[t].era2)
    /\ mem' # None => keyGen' # None
    /\ item' # None /\ item'.gen > purgeGen => InDisk(keyGen')
    /\ purgeGen' = purgeGen /\ left' \in Entry \cup {None}
    /\ KeyMove(t) /\ MemMove(t) /\ ItemMove(t)

LEMMA PinsHeld ==
  ASSUME Sound, NEW t \in Tasks
  PROVE  /\ Pin(task[t].era) \in {0, 1} /\ Pin(task[t].era2) \in {0, 1} /\ Uses(keyGen) \in Nat
         /\ Pin(task[t].era) + Pin(task[t].era2) <= Uses(keyGen)
         /\ Pin(None) = 0 /\ Pin(purgeGen) = 1
<1>1. TypeOK /\ purgeGen \in Nat /\ Uses(keyGen) = Cardinality(Pinned) + Cardinality(Pinned2)
  BY Types DEF Sound, Catalog
<1>2. IsFiniteSet(Pinned) /\ IsFiniteSet(Pinned2)
  BY CacheStoreAssumption, FS_Subset DEF Pinned, Pinned2
<1>3. Cardinality(Pinned) \in Nat /\ Cardinality(Pinned2) \in Nat
  BY <1>2, FS_CardinalityType
<1>4. task[t].era = purgeGen => Cardinality(Pinned) # 0
  BY <1>2, FS_EmptySet DEF Pinned
<1>5. task[t].era2 = purgeGen => Cardinality(Pinned2) # 0
  BY <1>2, FS_EmptySet DEF Pinned2
<1>6. /\ Pin(task[t].era) = (IF task[t].era = purgeGen THEN 1 ELSE 0)
      /\ Pin(task[t].era2) = (IF task[t].era2 = purgeGen THEN 1 ELSE 0)
      /\ Pin(None) = 0 /\ Pin(purgeGen) = 1
  BY <1>1, NoneApart DEF Pin
<1> QED BY <1>1, <1>3, <1>4, <1>5, <1>6

LEMMA InTheCatalog ==
  ASSUME Sound
  PROVE  /\ GoodKey(keyGen, mem) /\ (mem # None => keyGen # None)
         /\ item # None /\ item.gen > purgeGen => InDisk(keyGen)
  BY DEF Sound, Catalog, CatalogComplete, InDisk

(* Nothing happens to the key. *)
LEMMA QuietCat ==
  ASSUME Sound, NEW t \in Tasks, UNCHANGED <<keyGen, mem, item, left, purgeGen>>,
         task'[t].era = task[t].era, task'[t].era2 = task[t].era2
  PROVE  CatStep(t)
<1>1. TypeOK /\ Uses(keyGen) \in Nat /\ Pin(task[t].era) \in {0, 1} /\ Pin(task[t].era2) \in {0, 1} /\ KG' = KG
  BY PinsHeld DEF Sound, KG
<1> QED BY <1>1, InTheCatalog, Types DEF CatStep, KeyMove, MemMove, ItemMove

LEMMA DropKey ==
  ASSUME Sound, NEW g \in Int, DropUpTo(g)
  PROVE  /\ item' = item \/ item' = None
         /\ left' \in Entry \cup {None}
         /\ item' # None => item' = item /\ item.gen > g
         /\ \A st \in {Told(g), ToldIfDropped} :
               /\ GoodKey(st, mem)
               /\ (GenOf(st) = KG /\ (st # None <=> keyGen # None)) \/ (st = None /\ mem = None)
               /\ Uses(st) = Uses(keyGen)
               /\ item' # None /\ item'.gen > purgeGen => InDisk(st)
<1>1. TypeOK /\ GoodKey(keyGen, mem) /\ item \in Entry \cup {None} /\ left \in Entry \cup {None}
  BY Types, InTheCatalog DEF Sound
<1>2. (item' = item \/ item' = None) /\ left' \in Entry \cup {None} /\ (item' # None => item' = item /\ item.gen > g)
  BY <1>1, EntryFields DEF DropUpTo
<1>3. OnDisk \in BOOLEAN
  BY DEF OnDisk
<1>4. Told(g) \in {keyGen, Notified(keyGen, mem, OnDisk)} /\ ToldIfDropped \in {keyGen, Notified(keyGen, mem, OnDisk)}
  BY DEF Told, ToldIfDropped
<1>5. item' # None => Told(g) = keyGen /\ ToldIfDropped = keyGen
  BY <1>1, <1>2 DEF Told, ToldIfDropped
<1>6. \A st \in {keyGen, Notified(keyGen, mem, OnDisk)} :
        /\ GoodKey(st, mem)
        /\ (GenOf(st) = KG /\ (st # None <=> keyGen # None)) \/ (st = None /\ mem = None)
        /\ Uses(st) = Uses(keyGen)
  BY <1>1, <1>3, NotifiedKey DEF KG
<1> QED BY <1>2, <1>4, <1>5, <1>6, InTheCatalog

(* The calls that leave the key alone. *)
LEMMA QuietActsCat ==
  ASSUME Sound, NEW t \in Tasks,
         \/ Begin(t) \/ Discard(t) \/ Lookup(t) \/ Screen(t) \/ Cancel(t) \/ Close(t) \/ CloseAll(t) \/ Retry(t)
         \/ Crowd(t) \/ \E c \in BOOLEAN : Purge(t, c) \/ NotAccepted(t, c)
         \/ Publish(t) /\ PublicationFenced(task[t].start)
  PROVE  CatStep(t)
<1>1. TypeOK /\ TaskStep(t) /\ Shaped(task[t]) /\ Shaped(task'[t])
  BY ActTask DEF Act, Sound, TaskStep
<1>2. /\ task[t].pc \in {"idle", "hit", "got", "origin", "batch", "close", "closeall"}
      /\ UNCHANGED <<keyGen, mem, item, left, purgeGen>>
  BY DEF Begin, Discard, Lookup, Screen, Cancel, Close, CloseAll, Retry, Crowd, Purge, NotAccepted, Accept, Publish, disk, barriers
<1>3. task[t].era = None /\ task[t].era2 = None
  BY <1>1, <1>2 DEF Shaped, PinnedAt
<1>4. CASE task'[t].pc \in {"done", "origin", "probe", "hit", "got", "close", "prepare", "wipe"}
  BY <1>1, <1>2, <1>3, <1>4, QuietCat DEF Shaped, PinnedAt
<1>5. CASE task'[t].pc = "unstore" /\ Discard(t)
  <2>1. task'[t] = [Idle EXCEPT !.pc = "unstore", !.start = task[t].start, !.max = task[t].start]
    BY <1>1, <1>5, BecomeMoves, DoneFields DEF Discard
  <2> QED BY <1>2, <1>3, <2>1, IdleCall, IdleFields, QuietCat DEF Calls
<1>6. CASE task'[t].pc = "unstore" /\ task'[t].start = 0
  BY <1>1, <1>2, <1>3, <1>6, QuietCat DEF Shaped, PinnedAt
<1>7. task'[t].pc \in {"done", "origin", "probe", "hit", "got", "close", "prepare", "wipe", "unstore"}
      /\ (task'[t].pc = "unstore" => Discard(t) \/ task'[t].start = 0)
  <2>1. CASE Begin(t)
    <3>1. task'[t] = [Idle EXCEPT !.pc = "origin", !.start = genSeq + 1, !.seen = purges, !.ent = task[t].ent]
      BY <1>1, <2>1, BecomeMoves DEF Begin
    <3> QED BY <3>1, IdleCall DEF Calls
  <2>2. CASE Discard(t)
    <3>1. task'[t] \in {Done, [Idle EXCEPT !.pc = "unstore", !.start = task[t].start, !.max = task[t].start]}
      BY <1>1, <2>2, BecomeMoves DEF Discard
    <3> QED BY <2>2, <3>1, IdleCall, DoneFields DEF Calls
  <2>3. CASE Lookup(t)
    <3>1. \E r \in {[Idle EXCEPT !.since = owed, !.after = deleted]} :
             task'[t] \in {[r EXCEPT !.pc = "probe"], [r EXCEPT !.pc = "hit", !.ent = mem, !.max = owedGen, !.seen = ended]}
      BY <1>1, <2>3, BecomeMoves DEF Lookup
    <3> QED BY <2>3, <3>1, IdleCall DEF Calls
  <2>4. CASE Cancel(t)
    <3>1. task'[t] = [task[t] EXCEPT !.pc = "close", !.rest = TRUE] /\ task[t] \in Calls
      BY <1>1, <2>4, BecomeMoves, Types, SMTT(30) DEF Cancel
    <3> QED BY <3>1 DEF Calls
  <2>5. CASE Close(t) \/ CloseAll(t) \/ (Publish(t) /\ PublicationFenced(task[t].start))
    BY <1>1, <2>5, BecomeMoves, DoneFields DEF Close, CloseAll, Publish
  <2>6. CASE Retry(t)
    <3>1. PICK f \in fences : task'[t] = [Idle EXCEPT !.pc = "prepare", !.max = f.gen, !.flag = TRUE,
                                             !.rest = Held /\ keyGen.gen <= f.gen]
      BY <1>1, <2>6, BecomeMoves DEF Retry
    <3> QED BY <3>1, IdleCall DEF Calls
  <2>7. CASE \E c \in BOOLEAN : Purge(t, c)
    <3>1. PICK c \in BOOLEAN : task'[t] = [Idle EXCEPT !.pc = "prepare", !.max = genSeq + 1, !.flag = c,
                                              !.since = purges + 1, !.rest = Held]
      BY <1>1, <2>7, BecomeMoves DEF Purge
    <3> QED BY <3>1, IdleCall DEF Calls
  <2>8. CASE Screen(t)
    <3>1. \/ task'[t] = [Idle EXCEPT !.pc = "unstore", !.since = task[t].since, !.after = task[t].after, !.max = task[t].ent.gen]
          \/ task'[t] = [Idle EXCEPT !.pc = "got", !.since = task[t].since, !.after = task[t].after, !.ent = task[t].ent]
          \/ task'[t] = [Idle EXCEPT !.pc = "got", !.since = task[t].seen, !.after = task[t].after, !.ent = task[t].ent]
      BY <1>1, <2>8, ScreenIs
    <3>2. /\ task'[t].pc \in {"unstore", "got"} /\ task'[t].start = Idle.start
      BY <3>1, IdleCall DEF Calls
    <3> QED BY <3>2, IdleFields
  <2>9. CASE Crowd(t) \/ \E c \in BOOLEAN : NotAccepted(t, c)
    <3>1. task'[t] \in {Done, [Idle EXCEPT !.pc = "wipe"]}
      BY <1>1, <2>9, BecomeMoves DEF Crowd, NotAccepted
    <3> QED BY <3>1, DoneFields, IdleCall DEF Calls
  <2> QED BY <2>1, <2>2, <2>3, <2>4, <2>5, <2>6, <2>7, <2>8, <2>9
<1> QED BY <1>4, <1>5, <1>6, <1>7

LEMMA PublishCat ==
  ASSUME Sound, NEW t \in Tasks, Publish(t), ~PublicationFenced(task[t].start)
  PROVE  CatStep(t)
<1>1. TypeOK /\ Shaped(task[t]) /\ Counted /\ task[t].pc = "origin" /\ Catalog
  BY DEF Sound, Publish
<1>2. /\ keyGen' = BeginNext(keyGen) /\ genSeq' = genSeq + 1 /\ item' = item /\ left' = left /\ purgeGen' = purgeGen
  BY DEF Publish, disk
<1>3. PICK e \in Entry, b \in BOOLEAN :
        NewEntry(t, e) /\ task'[t] = Writing(t, e, b) /\ mem' = IF e.large THEN None ELSE e
  BY PublishIs
<1>4. task[t].era = None /\ task[t].era2 = None /\ task'[t].era = purgeGen /\ task'[t].era2 = None
      /\ task'[t].pc = "write" /\ task'[t].ent = e
  BY <1>1, <1>3, WritingFields DEF Shaped, PinnedAt
<1>5. /\ GoodKey(keyGen', mem') /\ keyGen' # None /\ KG' = genSeq + 1 /\ Uses(keyGen') = Uses(keyGen) + 1
      /\ InDisk(keyGen') <=> InDisk(keyGen)
  BY <1>1, <1>2, BeginNextKey DEF Catalog, KG
<1>6. KeyMove(t)
  BY <1>2, <1>4, <1>5 DEF KeyMove
<1>7. MemMove(t) /\ ItemMove(t)
  BY <1>2, <1>3, <1>4 DEF MemMove, ItemMove
<1> QED BY <1>1, <1>2, <1>4, <1>5, <1>6, <1>7, PinsHeld, InTheCatalog, Types DEF CatStep

LEMMA CommitCat ==
  ASSUME Sound, NEW t \in Tasks, Commit(t)
  PROVE  CatStep(t)
<1>1. /\ TypeOK /\ task[t] \in Calls /\ Shaped(task[t]) /\ Catalog /\ Counted /\ GoodKey(keyGen, mem)
      /\ task[t].pc \in {"write", "flush"}
  BY Types DEF Sound, Commit, Catalog
<1>2. Carries(t) /\ task[t].ent \in Entry /\ task[t].ent.gen \in 1 .. genSeq
  BY <1>1, LiveTyped DEF Carries
<1>3. KG = task[t].ent.gen /\ keyGen # None
  BY <1>1, <1>2, Types DEF Commit, CanCommit, IsCurrent, KG, GenOf
<1>4. UNCHANGED <<mem, purgeGen>> /\ left' = None /\ item' = task[t].ent /\ CanCommit(t)
  BY DEF Commit, barriers
<1>5. PICK st : /\ st = Notified(keyGen, mem, TRUE) /\ GoodKey(st, mem) /\ InDisk(st)
                /\ Uses(st) = Uses(keyGen) /\ GenOf(st) = KG
  <2>1. /\ GoodKey(Notified(keyGen, mem, TRUE), mem)
        /\ GenOf(Notified(keyGen, mem, TRUE)) = GenOf(keyGen) \/ Notified(keyGen, mem, TRUE) = None
        /\ Uses(Notified(keyGen, mem, TRUE)) = Uses(keyGen)
        /\ InDisk(Notified(keyGen, mem, TRUE))
    BY <1>1, <1>3, NotifiedKey
  <2> QED BY <2>1 DEF KG, InDisk
<1>6. CASE task[t].pc = "write"
  <2>1. keyGen' = st /\ task'[t] = Stood(t)
    BY <1>1, <1>5, <1>6, BecomeMoves DEF Commit
  <2>2. task'[t].era = task[t].era /\ task'[t].era2 = task[t].era2
    BY <1>1, <1>6, <2>1, StoodFields DEF Shaped
  <2>3. KG' = KG /\ keyGen' # None
    BY <1>5, <2>1 DEF KG, InDisk
  <2> QED BY <1>1, <1>4, <1>5, <2>1, <2>2, <2>3, PinsHeld DEF CatStep, KeyMove, MemMove, ItemMove
<1>7. CASE task[t].pc = "flush"
  <2>1. keyGen' = Finished(st, task[t].era, mem) /\ task'[t] = Done
    BY <1>1, <1>5, <1>7, BecomeMoves DEF Commit
  <2>2. task[t].era2 = None /\ task'[t].era = None /\ task'[t].era2 = None /\ task[t].era \in Nat \cup {None}
    BY <1>1, <1>7, <2>1, DoneFields, CallFields DEF Shaped
  <2>3. /\ GoodKey(keyGen', mem) /\ InDisk(keyGen') /\ Uses(keyGen') = Uses(keyGen) - Pin(task[t].era)
        /\ (GenOf(keyGen') = KG \/ keyGen' = None)
    <3>1. GoodKey(st, mem) /\ InDisk(st) /\ Uses(st) = Uses(keyGen) /\ GenOf(st) = KG
      BY <1>5
    <3>2. Pin(task[t].era) <= Uses(st)
      BY <3>1, PinsHeld
    <3>3. Uses(st) \in Nat /\ Pin(task[t].era) \in {0, 1}
      BY <3>1, PinsHeld
    <3>a. GoodKey(Finished(st, task[t].era, mem), mem)
      BY <1>1, <2>2, <3>1, <3>2, <3>3, FinishedKey
    <3>b. Uses(Finished(st, task[t].era, mem)) = Uses(st) - Pin(task[t].era)
      BY <1>1, <2>2, <3>1, <3>2, <3>3, FinishedKey
    <3>c. InDisk(Finished(st, task[t].era, mem)) <=> InDisk(st)
      BY <1>1, <2>2, <3>1, <3>2, <3>3, FinishedKey
    <3>d. \/ GenOf(Finished(st, task[t].era, mem)) = GenOf(st) /\ (Finished(st, task[t].era, mem) # None <=> st # None)
          \/ Finished(st, task[t].era, mem) = None /\ mem = None
      BY <1>1, <2>2, <3>1, <3>2, <3>3, FinishedKey
    <3> QED BY <2>1, <3>1, <3>a, <3>b, <3>c, <3>d
  <2>4. KG' = KG /\ keyGen' # None
    BY <2>3 DEF KG, InDisk
  <2> QED BY <1>1, <1>4, <2>2, <2>3, <2>4, PinsHeld DEF CatStep, KeyMove, MemMove, ItemMove
<1> QED BY <1>1, <1>6, <1>7

(* A call that ends and unpins the key. *)
LEMMA FinishCat ==
  ASSUME Sound, NEW t \in Tasks, UNCHANGED <<mem, item, left, purgeGen>>,
         keyGen' = Finished(keyGen, task[t].era, mem), task'[t].era = None,
         task'[t].era2 = None, task[t].era2 = None
  PROVE  CatStep(t)
<1>1. TypeOK /\ GoodKey(keyGen, mem) /\ task[t].era \in Nat \cup {None}
  BY Types, CallFields DEF Sound, Catalog
<1>2. /\ GoodKey(keyGen', mem) /\ Uses(keyGen') = Uses(keyGen) - Pin(task[t].era)
      /\ (GenOf(keyGen') = KG /\ (keyGen' # None <=> keyGen # None)) \/ (keyGen' = None /\ mem = None)
      /\ InDisk(keyGen') <=> InDisk(keyGen)
  <2>1. Pin(task[t].era) <= Uses(keyGen)
    BY PinsHeld
  <2>2. /\ GoodKey(Finished(keyGen, task[t].era, mem), mem)
        /\ Uses(Finished(keyGen, task[t].era, mem)) = Uses(keyGen) - Pin(task[t].era)
    BY <1>1, <2>1, FinishedKey
  <2>3. \/ GenOf(Finished(keyGen, task[t].era, mem)) = GenOf(keyGen)
           /\ (Finished(keyGen, task[t].era, mem) # None <=> keyGen # None)
        \/ Finished(keyGen, task[t].era, mem) = None /\ mem = None
    BY <1>1, <2>1, FinishedKey
  <2>4. InDisk(Finished(keyGen, task[t].era, mem)) <=> InDisk(keyGen)
    BY <1>1, <2>1, FinishedKey
  <2> QED BY <2>2, <2>3, <2>4 DEF KG
<1>3. KeyMove(t)
  BY <1>2 DEF KeyMove, KG
<1> QED BY <1>1, <1>2, <1>3, PinsHeld, InTheCatalog, Types DEF CatStep, MemMove, ItemMove

LEMMA EndingsCat ==
  ASSUME Sound, NEW t \in Tasks,
         \/ Refuse(t)
         \/ Check(t) /\ ~PublicationFenced(task[t].start)
         \/ Flush(t) /\ task'[t] = Done
  PROVE  CatStep(t)
<1>1. TypeOK /\ Shaped(task[t]) /\ task[t].pc \in {"flush", "check", "evicted"}
  BY DEF Sound, Refuse, Check, Flush
<1>2. task'[t] = Done
  BY <1>1, BecomeMoves DEF Refuse, Check
<1>3. UNCHANGED <<mem, item, left, purgeGen>>
  BY DEF Refuse, Check, Flush, disk, barriers
<1>4. keyGen' = Finished(keyGen, task[t].era, mem)
  <2>1. CASE Flush(t)
    <3>1. task'[t] # [task[t] EXCEPT !.pc = "flush"]
      BY <1>1, <1>2, Types, DoneFields DEF Calls
    <3> QED BY <1>1, <2>1, <3>1, BecomeMoves DEF Flush
  <2> QED BY <2>1 DEF Refuse, Check
<1> QED BY <1>1, <1>2, <1>3, <1>4, DoneFields, FinishCat DEF Shaped

(* A call that keeps its pins. *)
LEMMA KeepsCat ==
  ASSUME Sound, NEW t \in Tasks,
         \/ Check(t) /\ PublicationFenced(task[t].start)
         \/ Flush(t) /\ task'[t] # Done
         \/ Unstore(t) /\ keyGen # None /\ keyGen.gen > task[t].max
  PROVE  CatStep(t)
<1>1. TypeOK /\ task[t] \in Calls
  BY Types DEF Sound
<1>2. \/ task'[t] = [task[t] EXCEPT !.pc = "unstore", !.max = task[t].gen, !.gen = 0]
      \/ task'[t] = [task[t] EXCEPT !.pc = "flush"]
      \/ task'[t] = [task[t] EXCEPT !.pc = "drop"]
  BY <1>1, BecomeMoves DEF Check, Flush, Unstore
<1>3. UNCHANGED <<keyGen, mem, item, left, purgeGen>>
  BY <1>1, BecomeMoves DEF Check, Flush, Unstore, disk, barriers
<1>4. task'[t].era = task[t].era /\ task'[t].era2 = task[t].era2
  BY <1>1, <1>2 DEF Calls
<1> QED BY <1>3, <1>4, QuietCat

LEMMA RestoreCat ==
  ASSUME Sound, NEW t \in Tasks, Restore(t)
  PROVE  CatStep(t)
<1>1. TypeOK /\ task[t] \in Calls /\ Shaped(task[t]) /\ Catalog /\ task[t].pc = "write" /\ task[t].prev \in Nat
  BY Types, CallFields DEF Sound, Restore
<1>2. task'[t] = Stood(t) \/ task'[t] = [task[t] EXCEPT !.pc = "undo", !.prev = 0]
  BY <1>1, BecomeMoves DEF Restore
<1>3. task'[t].era = task[t].era /\ task'[t].era2 = task[t].era2
  BY <1>1, <1>2, StoodFields, ZenonT(40) DEF Calls, Shaped
<1>4. UNCHANGED <<mem, item, left, purgeGen>>
  BY DEF Restore, disk, barriers
<1>5. CASE ~TakesBack(t)
  BY <1>3, <1>4, <1>5, QuietCat DEF Restore
<1>6. CASE TakesBack(t)
  <2>1. keyGen \in KeyState /\ keyGen.era = purgeGen /\ keyGen' = [keyGen EXCEPT !.gen = task[t].prev]
    BY <1>1, <1>6, Types DEF Restore, TakesBack, Catalog, GoodKey
  <2>2. keyGen' \in KeyState
    BY <1>1, <2>1 DEF KeyState
  <2>3. keyGen'.era = keyGen.era /\ keyGen'.inflight = keyGen.inflight /\ keyGen'.inDisk = keyGen.inDisk
        /\ keyGen'.gen = task[t].prev
    BY <2>1 DEF KeyState
  <2>4. GoodKey(keyGen', mem')
    BY <1>1, <1>4, <2>1, <2>2, <2>3, NoneApart DEF GoodKey, Catalog
  <2>5. InDisk(keyGen') <=> InDisk(keyGen)
    BY <2>1, <2>2, <2>3, NoneApart DEF InDisk
  <2>6. Uses(keyGen') = Uses(keyGen) /\ KG' = task[t].prev /\ keyGen' # None
    BY <2>1, <2>2, <2>3, KeyFields DEF KG
  <2>7. KeyMove(t)
    BY <1>6, <2>6 DEF KeyMove
  <2> QED BY <1>1, <1>3, <1>4, <2>4, <2>5, <2>6, <2>7, PinsHeld, InTheCatalog, Types DEF CatStep, MemMove, ItemMove
<1> QED BY <1>5, <1>6

(* The disk dropped something, or not, and told the catalog. *)
LEMMA DroppedCat ==
  ASSUME Sound, NEW t \in Tasks, NEW g \in Int, DropUpTo(g), UNCHANGED <<mem, purgeGen>>,
         NEW st \in {Told(g), ToldIfDropped},
         \/ keyGen' = st /\ task'[t].era = task[t].era /\ task'[t].era2 = task[t].era2
         \/ /\ keyGen' = Finished(st, task[t].era, mem)
            /\ task'[t].era = None /\ task'[t].era2 = task[t].era2
         \/ /\ keyGen' = Finished(Finished(st, task[t].era2, mem), task[t].era, mem)
            /\ task'[t].era = None /\ task'[t].era2 = None
  PROVE  CatStep(t)
<1>1. TypeOK /\ task[t].era \in Nat \cup {None} /\ task[t].era2 \in Nat \cup {None}
  BY Types, CallFields DEF Sound
<1>2. /\ item' = item \/ item' = None
      /\ left' \in Entry \cup {None}
      /\ GoodKey(st, mem) /\ Uses(st) = Uses(keyGen)
      /\ (GenOf(st) = KG /\ (st # None <=> keyGen # None)) \/ (st = None /\ mem = None)
      /\ item' # None /\ item'.gen > purgeGen => InDisk(st)
  BY DropKey
<1>3. ItemMove(t) /\ MemMove(t)
  BY <1>2 DEF ItemMove, MemMove
<1>4. CASE keyGen' = st /\ task'[t].era = task[t].era /\ task'[t].era2 = task[t].era2
  <2>1. KeyMove(t)
    BY <1>2, <1>4 DEF KeyMove, KG
  <2> QED BY <1>2, <1>3, <1>4, <2>1, PinsHeld, InTheCatalog DEF CatStep
<1>5. CASE keyGen' = Finished(st, task[t].era, mem) /\ task'[t].era = None /\ task'[t].era2 = task[t].era2
  <2>1. Pin(task[t].era) <= Uses(st) /\ Uses(st) \in Nat /\ Pin(task[t].era) \in {0, 1}
    BY <1>2, PinsHeld
  <2>2. /\ GoodKey(keyGen', mem) /\ Uses(keyGen') = Uses(st) - Pin(task[t].era)
        /\ (GenOf(keyGen') = GenOf(st) /\ (keyGen' # None <=> st # None)) \/ (keyGen' = None /\ mem = None)
        /\ InDisk(keyGen') <=> InDisk(st)
    <3>1. GoodKey(st, mem)
      BY <1>2
    <3>a. GoodKey(Finished(st, task[t].era, mem), mem)
      BY <1>1, <3>1, <2>1, FinishedKey
    <3>b. Uses(Finished(st, task[t].era, mem)) = Uses(st) - Pin(task[t].era)
      BY <1>1, <3>1, <2>1, FinishedKey
    <3>c. InDisk(Finished(st, task[t].era, mem)) <=> InDisk(st)
      BY <1>1, <3>1, <2>1, FinishedKey
    <3>d. \/ GenOf(Finished(st, task[t].era, mem)) = GenOf(st) /\ (Finished(st, task[t].era, mem) # None <=> st # None)
          \/ Finished(st, task[t].era, mem) = None /\ mem = None
      BY <1>1, <3>1, <2>1, FinishedKey
    <3> QED BY <1>5, <3>a, <3>b, <3>c, <3>d
  <2>3. KeyMove(t)
    BY <1>2, <2>2, NoKeyFields DEF KeyMove, KG
  <2> QED BY <1>2, <1>3, <1>5, <2>2, <2>3, PinsHeld, InTheCatalog DEF CatStep
<1>6. CASE /\ keyGen' = Finished(Finished(st, task[t].era2, mem), task[t].era, mem)
           /\ task'[t].era = None /\ task'[t].era2 = None
  <2>1. /\ Pin(task[t].era2) <= Uses(st) /\ Pin(task[t].era) <= Uses(st) - Pin(task[t].era2)
        /\ Uses(st) \in Nat /\ Pin(task[t].era) \in {0, 1} /\ Pin(task[t].era2) \in {0, 1}
    BY <1>2, PinsHeld
  <2>2. PICK s2 : /\ s2 = Finished(st, task[t].era2, mem) /\ GoodKey(s2, mem) /\ Uses(s2) = Uses(st) - Pin(task[t].era2)
                  /\ (GenOf(s2) = GenOf(st) /\ (s2 # None <=> st # None)) \/ (s2 = None /\ mem = None)
                  /\ InDisk(s2) <=> InDisk(st)
    <3>a. GoodKey(Finished(st, task[t].era2, mem), mem)
      BY <1>1, <1>2, <2>1, FinishedKey
    <3>b. Uses(Finished(st, task[t].era2, mem)) = Uses(st) - Pin(task[t].era2)
      BY <1>1, <1>2, <2>1, FinishedKey
    <3>c. InDisk(Finished(st, task[t].era2, mem)) <=> InDisk(st)
      BY <1>1, <1>2, <2>1, FinishedKey
    <3>d. \/ GenOf(Finished(st, task[t].era2, mem)) = GenOf(st) /\ (Finished(st, task[t].era2, mem) # None <=> st # None)
          \/ Finished(st, task[t].era2, mem) = None /\ mem = None
      BY <1>1, <1>2, <2>1, FinishedKey, ZenonT(40)
    <3> QED BY <3>a, <3>b, <3>c, <3>d
  <2>3. /\ GoodKey(keyGen', mem) /\ Uses(keyGen') = Uses(s2) - Pin(task[t].era)
        /\ (GenOf(keyGen') = GenOf(s2) /\ (keyGen' # None <=> s2 # None)) \/ (keyGen' = None /\ mem = None)
        /\ InDisk(keyGen') <=> InDisk(s2)
    <3>1. Pin(task[t].era) <= Uses(s2) /\ Uses(s2) \in Nat /\ GoodKey(s2, mem)
      BY <2>1, <2>2
    <3>a. GoodKey(Finished(s2, task[t].era, mem), mem)
      BY <1>1, <2>1, <3>1, FinishedKey
    <3>b. Uses(Finished(s2, task[t].era, mem)) = Uses(s2) - Pin(task[t].era)
      BY ZenonT(60), <1>1, <2>1, <3>1, FinishedKey
    <3>c. InDisk(Finished(s2, task[t].era, mem)) <=> InDisk(s2)
      BY <1>1, <2>1, <3>1, FinishedKey
    <3>d. \/ GenOf(Finished(s2, task[t].era, mem)) = GenOf(s2) /\ (Finished(s2, task[t].era, mem) # None <=> s2 # None)
          \/ Finished(s2, task[t].era, mem) = None /\ mem = None
      BY <1>1, <2>1, <3>1, FinishedKey
    <3> QED BY <1>6, <2>2, <3>a, <3>b, <3>c, <3>d
  <2>4. KeyMove(t)
    BY <1>2, <2>2, <2>3, NoKeyFields DEF KeyMove, KG
  <2> QED BY <1>2, <1>3, <1>6, <2>2, <2>3, <2>4, PinsHeld, InTheCatalog DEF CatStep
<1> QED BY <1>4, <1>5, <1>6

LEMMA UndoCat ==
  ASSUME Sound, NEW t \in Tasks, Undo(t)
  PROVE  CatStep(t)
<1>1. TypeOK /\ task[t] \in Calls /\ Shaped(task[t]) /\ task[t].gen - 1 \in Int /\ task[t].pc \in {"undo", "write"}
  BY Types, CallFields DEF Sound, Undo
<1>2. task[t].era2 = None
  BY <1>1 DEF Shaped
<1>3. DropUpTo(task[t].gen - 1) /\ UNCHANGED <<mem, purgeGen>>
  BY DEF Undo
<1>4. CASE task[t].ent.large
  <2>1. keyGen' = Finished(Told(task[t].gen - 1), task[t].era, mem) /\ task'[t] = Done
    BY <1>1, <1>4, BecomeMoves DEF Undo
  <2> QED BY <1>1, <1>2, <1>3, <2>1, DoneFields, DroppedCat
<1>5. CASE ~task[t].ent.large
  <2>1. keyGen' = Told(task[t].gen - 1) /\ task'[t] = Stood(t)
    BY <1>1, <1>5, BecomeMoves DEF Undo
  <2> QED BY <1>1, <1>2, <1>3, <2>1, StoodFields, DroppedCat
<1> QED BY <1>4, <1>5

LEMMA DropCat ==
  ASSUME Sound, NEW t \in Tasks, Drop(t)
  PROVE  CatStep(t)
<1>1. TypeOK /\ task[t] \in Calls /\ Shaped(task[t]) /\ task[t].max \in Int /\ task[t].pc = "drop"
  BY Types, CallFields DEF Sound, Drop
<1>2. /\ DropUpTo(task[t].max) /\ UNCHANGED <<mem, purgeGen>>
      /\ keyGen' = Finished(Finished(Told(task[t].max), task[t].era2, mem), task[t].era, mem)
  BY DEF Drop
<1>3. \/ task[t].start = 0 /\ task'[t] = [task[t] EXCEPT !.pc = "probe", !.max = 0, !.era2 = None]
      \/ task'[t] = Done
  BY <1>1, BecomeMoves DEF Drop
<1>4. task'[t].era = None /\ task'[t].era2 = None
  BY <1>1, <1>3, DoneFields DEF Calls, Shaped, PinnedAt
<1> QED BY <1>1, <1>2, <1>4, DroppedCat

LEMMA ReadCat ==
  ASSUME Sound, NEW t \in Tasks, Read(t)
  PROVE  CatStep(t)
<1>1. TypeOK /\ task[t] \in Calls /\ Shaped(task[t]) /\ task[t].pc = "read" /\ task[t].era2 = None /\ GoodKey(keyGen, mem)
  BY Types, InTheCatalog DEF Sound, Read, Shaped
<1>2. UNCHANGED <<mem, purgeGen>>
  BY DEF Read, barriers
<1>3. CASE /\ item # None /\ Become(t, [task[t] EXCEPT !.pc = "promote", !.ent = item])
           /\ keyGen' = Notified(keyGen, mem, TRUE) /\ UNCHANGED <<item, left>>
  <2>1. task'[t] = [task[t] EXCEPT !.pc = "promote", !.ent = item]
    BY <1>1, <1>3, BecomeMoves
  <2>2. task'[t].era = task[t].era /\ task'[t].era2 = task[t].era2
    BY <1>1, <2>1 DEF Calls
  <2>3. /\ GoodKey(keyGen', mem) /\ Uses(keyGen') = Uses(keyGen)
        /\ (GenOf(keyGen') = KG /\ (keyGen' # None <=> keyGen # None)) \/ (keyGen' = None /\ mem = None)
        /\ InDisk(keyGen') <=> keyGen # None
    BY <1>1, <1>3, NotifiedKey DEF KG
  <2>4. KeyMove(t) /\ MemMove(t) /\ ItemMove(t)
    BY <1>2, <1>3, <2>3 DEF KeyMove, KG, MemMove, ItemMove
  <2>5. InDisk(keyGen) => keyGen # None
    BY DEF InDisk
  <2> QED BY <1>1, <1>2, <1>3, <2>2, <2>3, <2>4, <2>5, PinsHeld, InTheCatalog, Types DEF CatStep
<1>4. CASE /\ DropUpTo(IF item = None THEN 0 ELSE item.gen) /\ Become(t, Done)
           /\ keyGen' = Finished(ToldIfDropped, task[t].era, mem)
  <2>1. task'[t] = Done
    BY <1>1, <1>4, BecomeMoves
  <2>2. (IF item = None THEN 0 ELSE item.gen) \in Int
    BY <1>1, Types, EntryFields
  <2> QED BY <1>1, <1>2, <1>4, <2>1, <2>2, DoneFields, DroppedCat
<1> QED BY <1>3, <1>4 DEF Read

LEMMA DeletesCat ==
  ASSUME Sound, NEW t \in Tasks, DeleteBegin(t) \/ DeleteDisk(t) \/ Unlink(t)
  PROVE  CatStep(t)
<1>1. TypeOK /\ task[t] \in Calls /\ Shaped(task[t]) /\ genSeq \in Int /\ task[t].max \in Int
  BY Types, CallFields DEF Sound
<1>2. UNCHANGED <<mem, purgeGen>>
  BY DEF DeleteBegin, DeleteDisk, Unlink, barriers
<1>3. CASE DeleteBegin(t)
  <2>1. /\ DropUpTo(genSeq) /\ keyGen' = ToldIfDropped /\ task[t].pc = "idle"
        /\ task'[t] = [Idle EXCEPT !.pc = "delmem", !.max = deletes + 1]
    BY <1>1, <1>3, BecomeMoves DEF DeleteBegin
  <2>2. task'[t].era = None /\ task'[t].era2 = None /\ task[t].era = None /\ task[t].era2 = None
    BY <1>1, <2>1, IdleCall, IdleFields DEF Shaped, Calls
  <2> QED BY <1>1, <1>2, <2>1, <2>2, DroppedCat
<1>4. CASE DeleteDisk(t)
  <2>1. /\ DropUpTo(genSeq) /\ keyGen' = Finished(Told(genSeq), task[t].era, mem) /\ task[t].pc = "deldisk"
        /\ task'[t] = Done
    BY <1>1, <1>4, BecomeMoves DEF DeleteDisk
  <2>2. task[t].era2 = None
    BY <1>1, <2>1 DEF Shaped
  <2> QED BY <1>1, <1>2, <2>1, <2>2, DoneFields, DroppedCat
<1>5. CASE Unlink(t)
  <2>1. /\ DropUpTo(task[t].max) /\ keyGen' = ToldIfDropped
        /\ task'[t] = [task[t] EXCEPT !.pc = IF task[t].pc = "unlink" THEN "close" ELSE "closeall",
                                      !.rest = left' # left]
    BY <1>1, <1>5, BecomeMoves DEF Unlink
  <2>2. task'[t].era = task[t].era /\ task'[t].era2 = task[t].era2
    BY <1>1, <2>1 DEF Calls
  <2> QED BY <1>1, <1>2, <2>1, <2>2, DroppedCat
<1> QED BY <1>3, <1>4, <1>5

(* The key is pinned under a new generation, and memory may lose its entry. *)
LEMMA BumpCat ==
  ASSUME Sound, NEW t \in Tasks, UNCHANGED <<item, left, purgeGen>>, genSeq' = genSeq + 1,
         keyGen' = BeginNext(keyGen), mem' = None \/ (mem' = mem /\ mem.gen # KG),
         Pin(task'[t].era) + Pin(task'[t].era2) = Pin(task[t].era) + Pin(task[t].era2) + 1,
         Pin(task'[t].era) \in {0, 1}, Pin(task'[t].era2) \in {0, 1}
  PROVE  CatStep(t)
<1>1. TypeOK /\ GoodKey(keyGen, mem)
  BY InTheCatalog DEF Sound
<1>2. GoodKey(keyGen', mem') /\ keyGen' # None
  BY <1>1, BeginNextKey
<1>3. KG' = genSeq + 1 /\ Uses(keyGen') = Uses(keyGen) + 1
  BY <1>1, BeginNextKey DEF KG
<1>4. InDisk(keyGen') <=> InDisk(keyGen)
  BY <1>1, BeginNextKey
<1>5. KeyMove(t) /\ MemMove(t) /\ ItemMove(t)
  BY <1>3 DEF KeyMove, MemMove, ItemMove
<1>6. Uses(keyGen') + Pin(task[t].era) + Pin(task[t].era2) = Uses(keyGen) + Pin(task'[t].era) + Pin(task'[t].era2)
  BY <1>3, PinsHeld
<1> QED BY <1>1, <1>2, <1>4, <1>5, <1>6, InTheCatalog, Types DEF CatStep

LEMMA UnstoreCat ==
  ASSUME Sound, NEW t \in Tasks, Unstore(t)
  PROVE  CatStep(t)
<1>1. TypeOK /\ task[t] \in Calls /\ Shaped(task[t]) /\ task[t].pc = "unstore" /\ GoodKey(keyGen, mem) /\ task[t].max \in Nat
  BY Types, InTheCatalog, CallFields DEF Sound, Unstore
<1>2. CASE keyGen # None /\ keyGen.gen > task[t].max
  BY <1>2, KeepsCat
<1>3. CASE ~(keyGen # None /\ keyGen.gen > task[t].max)
  <2>1. /\ genSeq' = genSeq + 1 /\ keyGen' = BeginNext(keyGen)
        /\ mem' = (IF mem # None /\ mem.gen <= task[t].max THEN None ELSE mem)
        /\ UNCHANGED <<item, left, purgeGen>>
        /\ Become(t, [task[t] EXCEPT !.pc = "drop", !.era2 = BeginNext(keyGen).era])
    BY <1>3 DEF Unstore, disk, barriers
  <2>2. task'[t] = [task[t] EXCEPT !.pc = "drop", !.era2 = purgeGen]
    BY <1>1, <2>1, BecomeMoves, BeginNextKey
  <2>3. task'[t].era = task[t].era /\ task'[t].era2 = purgeGen /\ task[t].era2 = None
    BY <1>1, <2>2 DEF Calls, Shaped
  <2>4. mem' = None \/ (mem' = mem /\ mem.gen # KG)
    <3>1. ASSUME mem' # None PROVE mem' = mem /\ mem.gen # KG
      <4>1. mem' = mem /\ mem \in Entry /\ mem.gen > task[t].max /\ keyGen # None
        BY <1>1, <2>1, <3>1, Types, InTheCatalog, EntryFields
      <4>2. KG = keyGen.gen /\ keyGen \in KeyState
        BY <1>1, <4>1, Types DEF KG, GenOf
      <4> QED BY <1>1, <1>3, <4>1, <4>2, KeyFields, EntryFields
    <3> QED BY <3>1
  <2>5. Pin(task'[t].era) + Pin(task'[t].era2) = Pin(task[t].era) + Pin(task[t].era2) + 1
        /\ Pin(task'[t].era) \in {0, 1} /\ Pin(task'[t].era2) \in {0, 1}
    BY <2>3, PinsHeld
  <2> QED BY <2>1, <2>4, <2>5, BumpCat
<1> QED BY <1>2, <1>3

LEMMA DeleteMemCat ==
  ASSUME Sound, NEW t \in Tasks, DeleteMem(t)
  PROVE  CatStep(t)
<1>1. TypeOK /\ task[t] \in Calls /\ Shaped(task[t]) /\ task[t].pc = "delmem" /\ GoodKey(keyGen, mem)
  BY Types, InTheCatalog DEF Sound, DeleteMem
<1>2. /\ genSeq' = genSeq + 1 /\ keyGen' = BeginNext(keyGen) /\ mem' = None /\ UNCHANGED <<item, left, purgeGen>>
      /\ Become(t, [task[t] EXCEPT !.pc = "deldisk", !.era = BeginNext(keyGen).era])
  BY DEF DeleteMem, disk, barriers
<1>3. task'[t] = [task[t] EXCEPT !.pc = "deldisk", !.era = purgeGen]
  BY <1>1, <1>2, BecomeMoves, BeginNextKey
<1>4. task'[t].era = purgeGen /\ task'[t].era2 = None /\ task[t].era2 = None /\ task[t].era = None
  BY <1>1, <1>3 DEF Calls, Shaped, PinnedAt
<1>5. Pin(task'[t].era) + Pin(task'[t].era2) = Pin(task[t].era) + Pin(task[t].era2) + 1
      /\ Pin(task'[t].era) \in {0, 1} /\ Pin(task'[t].era2) \in {0, 1}
  BY <1>4, PinsHeld
<1> QED BY <1>2, <1>5, BumpCat

LEMMA EvictCat ==
  ASSUME Sound, NEW t \in Tasks, Evict(t)
  PROVE  CatStep(t)
<1>1. TypeOK /\ task[t] \in Calls /\ Shaped(task[t]) /\ task[t].pc = "idle" /\ GoodKey(keyGen, mem) /\ mem # None /\ keyGen # None
  BY Types, InTheCatalog DEF Sound, Evict
<1>2. keyGen \in KeyState /\ keyGen.era = purgeGen /\ keyGen.inflight \in Nat
  BY <1>1, KeyFields DEF GoodKey
<1>3. /\ keyGen' = [keyGen EXCEPT !.inflight = @ + 1] /\ mem' = None /\ UNCHANGED <<item, left, purgeGen>>
      /\ task'[t] = [Idle EXCEPT !.pc = "evicted", !.ent = mem, !.era = keyGen.era]
  BY <1>1, BecomeMoves DEF Evict, disk, barriers
<1>4. task'[t].era = purgeGen /\ task'[t].era2 = None /\ task[t].era2 = None /\ task[t].era = None
  BY <1>1, <1>2, <1>3, IdleCall, IdleFields DEF Calls, Shaped
<1>5. keyGen' \in KeyState
  BY <1>2, <1>3 DEF KeyState
<1>6. keyGen'.gen = keyGen.gen /\ keyGen'.inflight = keyGen.inflight + 1 /\ keyGen'.inDisk = keyGen.inDisk /\ keyGen'.era = purgeGen
  BY <1>2, <1>3 DEF KeyState
<1>7. GoodKey(keyGen', mem')
  BY <1>2, <1>5, <1>6 DEF GoodKey
<1>8. KG' = KG /\ Uses(keyGen') = Uses(keyGen) + 1
  BY <1>2, <1>5, <1>6, KeyFields DEF KG
<1>9. InDisk(keyGen') <=> InDisk(keyGen)
  BY <1>2, <1>5, <1>6, KeyFields DEF InDisk
<1>10. KeyMove(t) /\ MemMove(t) /\ ItemMove(t)
  BY <1>3, <1>8 DEF KeyMove, MemMove, ItemMove
<1>11. Uses(keyGen') + Pin(task[t].era) + Pin(task[t].era2) = Uses(keyGen) + Pin(task'[t].era) + Pin(task'[t].era2)
  BY <1>4, <1>8, PinsHeld
<1> QED BY <1>1, <1>3, <1>7, <1>9, <1>10, <1>11, InTheCatalog, Types DEF CatStep

LEMMA ProbeCat ==
  ASSUME Sound, NEW t \in Tasks, Probe(t)
  PROVE  CatStep(t)
<1>1. TypeOK /\ task[t] \in Calls /\ Shaped(task[t]) /\ task[t].pc = "probe" /\ GoodKey(keyGen, mem)
  BY Types, InTheCatalog DEF Sound, Probe
<1>2. /\ keyGen' = BeginRead(keyGen) /\ mem' = mem /\ UNCHANGED <<item, left, purgeGen>>
      /\ task'[t] = [task[t] EXCEPT !.pc = "read", !.gen = BeginRead(keyGen).gen, !.era = BeginRead(keyGen).era]
  BY <1>1, BecomeMoves DEF Probe, disk, barriers
<1>3. task'[t].era = purgeGen /\ task'[t].era2 = None /\ task[t].era2 = None /\ task[t].era = None
  <2>1. BeginRead(keyGen).era = purgeGen
    BY <1>1, BeginReadKey
  <2>2. task'[t].era = BeginRead(keyGen).era /\ task'[t].era2 = task[t].era2
    BY <1>1, <1>2 DEF Calls
  <2> QED BY <1>1, <2>1, <2>2 DEF Shaped, PinnedAt
<1>4. GoodKey(keyGen', mem') /\ keyGen' # None
  BY <1>1, <1>2, BeginReadKey
<1>5. KG' = KG /\ Uses(keyGen') = Uses(keyGen) + 1
  BY <1>1, <1>2, BeginReadKey DEF KG
<1>6. InDisk(keyGen') <=> InDisk(keyGen)
  BY <1>1, <1>2, BeginReadKey
<1>7. KeyMove(t) /\ MemMove(t) /\ ItemMove(t)
  BY <1>2, <1>5 DEF KeyMove, MemMove, ItemMove
<1>8. Uses(keyGen') + Pin(task[t].era) + Pin(task[t].era2) = Uses(keyGen) + Pin(task'[t].era) + Pin(task'[t].era2)
  BY <1>3, <1>5, PinsHeld
<1> QED BY <1>1, <1>2, <1>4, <1>6, <1>7, <1>8, InTheCatalog, Types DEF CatStep

LEMMA PromoteCat ==
  ASSUME Sound, NEW t \in Tasks, Promote(t)
  PROVE  CatStep(t)
<1>1. /\ TypeOK /\ task[t] \in Calls /\ Shaped(task[t]) /\ task[t].pc = "promote" /\ GoodKey(keyGen, mem)
      /\ task[t].era2 = None /\ task[t].era \in Nat \cup {None} /\ task[t].ent # None /\ purgeGen \in Nat
  BY Types, InTheCatalog, CallFields DEF Sound, Promote, Shaped
<1>2. /\ keyGen' = Finished(keyGen, task[t].era, mem') /\ UNCHANGED <<item, left, purgeGen>>
      /\ mem' = IF StillValid(t) /\ ~task[t].ent.large THEN task[t].ent ELSE mem
  BY DEF Promote, disk, barriers
<1>3. task'[t].era = None /\ task'[t].era2 = None
  <2>1. PICK e \in {task[t].ent, mem} : task'[t] \in {Done,
                      [Idle EXCEPT !.pc = "got", !.ent = e, !.since = task[t].since, !.after = task[t].after]}
    BY <1>1, BecomeMoves DEF Promote
  <2> QED BY <2>1, DoneFields, IdleCall, IdleFields DEF Calls
<1>4. GoodKey(keyGen, mem') /\ (mem' # None => keyGen # None)
  BY <1>1, <1>2, InTheCatalog DEF GoodKey, StillValid
<1>5. Pin(task[t].era) <= Uses(keyGen) /\ Uses(keyGen) \in Nat /\ Pin(task[t].era) \in {0, 1} /\ Pin(task[t].era2) = 0
  BY <1>1, PinsHeld
<1>6. GoodKey(Finished(keyGen, task[t].era, mem'), mem')
  BY <1>1, <1>4, <1>5, FinishedKey
<1>7. Uses(Finished(keyGen, task[t].era, mem')) = Uses(keyGen) - Pin(task[t].era)
  <2>1. TypeOK /\ GoodKey(keyGen, mem') /\ task[t].era \in Nat \cup {None} /\ Pin(task[t].era) <= Uses(keyGen)
    BY <1>1, <1>4, <1>5
  <2> QED BY <2>1, FinishedKey, Zenon
<1>8. InDisk(Finished(keyGen, task[t].era, mem')) <=> InDisk(keyGen)
  BY <1>1, <1>4, <1>5, FinishedKey
<1>9. \/ GenOf(Finished(keyGen, task[t].era, mem')) = GenOf(keyGen)
         /\ (Finished(keyGen, task[t].era, mem') # None <=> keyGen # None)
      \/ Finished(keyGen, task[t].era, mem') = None /\ mem' = None
  BY <1>1, <1>4, <1>5, FinishedKey
<1>10. KeyMove(t)
  BY <1>2, <1>9 DEF KeyMove, KG
<1>11. MemMove(t) /\ ItemMove(t)
  BY <1>1, <1>2, <1>9 DEF MemMove, ItemMove, KG
<1>12. Uses(keyGen') + Pin(task[t].era) + Pin(task[t].era2) = Uses(keyGen) + Pin(task'[t].era) + Pin(task'[t].era2)
  BY <1>2, <1>3, <1>5, <1>7, PinsHeld
<1> QED BY <1>1, <1>2, <1>4, <1>6, <1>8, <1>9, <1>10, <1>11, <1>12, InTheCatalog, Types DEF CatStep

(* The disk told the catalog whether it still has a file. *)
LEMMA ToldCat ==
  ASSUME Sound, NEW t \in Tasks, UNCHANGED <<mem, purgeGen>>, NEW d \in BOOLEAN,
         keyGen' = Notified(keyGen, mem, d), item' \in {item, None}, item' # None => d, left' \in Entry \cup {None},
         task'[t].era = task[t].era, task'[t].era2 = task[t].era2
  PROVE  CatStep(t)
<1>1. TypeOK /\ GoodKey(keyGen, mem)
  BY InTheCatalog DEF Sound
<1>2. GoodKey(Notified(keyGen, mem, d), mem)
  BY <1>1, NotifiedKey
<1>3. Uses(Notified(keyGen, mem, d)) = Uses(keyGen)
  BY <1>1, NotifiedKey
<1>4. InDisk(Notified(keyGen, mem, d)) <=> keyGen # None /\ d
  BY <1>1, NotifiedKey
<1>5. \/ GenOf(Notified(keyGen, mem, d)) = GenOf(keyGen) /\ (Notified(keyGen, mem, d) # None <=> keyGen # None)
      \/ Notified(keyGen, mem, d) = None /\ mem = None
  BY <1>1, NotifiedKey
<1>6. KeyMove(t) /\ MemMove(t) /\ ItemMove(t)
  BY <1>5 DEF KeyMove, KG, MemMove, ItemMove
<1>7. item' # None /\ item'.gen > purgeGen => InDisk(keyGen')
  <2>1. item' # None /\ item'.gen > purgeGen => keyGen # None
    BY InTheCatalog DEF InDisk
  <2> QED BY <1>4, <2>1
<1>8. Uses(keyGen') + Pin(task[t].era) + Pin(task[t].era2) = Uses(keyGen) + Pin(task'[t].era) + Pin(task'[t].era2)
  BY <1>3, PinsHeld
<1> QED BY <1>2, <1>5, <1>6, <1>7, <1>8, InTheCatalog DEF CatStep

LEMMA PrepareCat ==
  ASSUME Sound, NEW t \in Tasks, Prepare(t)
  PROVE  CatStep(t)
<1>1. TypeOK /\ task[t] \in Calls
  BY Types DEF Sound
<1>2. task'[t] = [task[t] EXCEPT !.pc = IF task[t].pc = "prepareall" THEN "unlinkall"
                                        ELSE IF task[t].rest THEN "batch" ELSE "close", !.rest = FALSE]
  BY <1>1, BecomeMoves DEF Prepare
<1>3. task'[t].era = task[t].era /\ task'[t].era2 = task[t].era2
  BY <1>1, <1>2 DEF Calls
<1>4. UNCHANGED <<mem, purgeGen>>
  BY DEF Prepare, barriers
<1>5. CASE task[t].flag
  BY <1>3, <1>4, <1>5, QuietCat DEF Prepare
<1>6. CASE ~task[t].flag
  <2>1. item' = None /\ left' = None /\ keyGen' = Notified(keyGen, mem, FALSE)
    BY <1>6 DEF Prepare, Wiped
  <2> QED BY <1>3, <1>4, <2>1, ToldCat
<1> QED BY <1>5, <1>6

LEMMA WipeCat ==
  ASSUME Sound, NEW t \in Tasks, Wipe(t)
  PROVE  CatStep(t)
<1>1. TypeOK /\ Shaped(task[t]) /\ task[t].pc = "wipe" /\ task'[t] = Done
  BY BecomeMoves DEF Sound, Wipe
<1>2. task'[t].era = task[t].era /\ task'[t].era2 = task[t].era2
  BY <1>1, DoneFields DEF Shaped, PinnedAt
<1>3. UNCHANGED <<mem, purgeGen>> /\ item' = None /\ left' = None /\ keyGen' = Notified(keyGen, mem, FALSE)
  BY DEF Wipe, Wiped, barriers
<1> QED BY <1>2, <1>3, ToldCat

LEMMA BatchCat ==
  ASSUME Sound, NEW t \in Tasks, Batch(t)
  PROVE  CatStep(t)
<1> DEFINE old == keyGen # None /\ keyGen.gen <= task[t].max
           m == IF mem # None /\ mem.gen <= task[t].max THEN None ELSE mem
           st == IF old THEN [keyGen EXCEPT !.gen = genSeq + 1] ELSE keyGen
<1>1. TypeOK /\ task[t] \in Calls /\ task[t].max \in Nat /\ GoodKey(keyGen, mem) /\ genSeq \in Nat /\ purgeGen \in Nat
  BY Types, CallFields, InTheCatalog DEF Sound
<1>2. /\ genSeq' = (IF old THEN genSeq + 1 ELSE genSeq) /\ mem' = m /\ keyGen' = Reclaimed(st, m)
      /\ UNCHANGED <<item, left, purgeGen>> /\ task'[t] = [task[t] EXCEPT !.pc = "unlink"]
  BY <1>1, BecomeMoves DEF Batch, disk, barriers
<1>3. task'[t].era = task[t].era /\ task'[t].era2 = task[t].era2
  BY <1>1, <1>2 DEF Calls
<1>4. CASE keyGen = None
  <2>1. mem = None /\ keyGen' = None /\ mem' = None
    BY <1>1, <1>2, <1>4, InTheCatalog DEF Reclaimed
  <2> QED BY <1>2, <1>3, <1>4, <2>1, QuietCat
<1>5. CASE keyGen # None
  <2>1. keyGen \in KeyState /\ keyGen.era = purgeGen
    BY <1>1, <1>5 DEF GoodKey
  <2>2. st \in KeyState /\ st.era = purgeGen /\ st.inflight = keyGen.inflight /\ st.inDisk = keyGen.inDisk
    <3>1. [keyGen EXCEPT !.gen = genSeq + 1] \in KeyState
      BY <1>1, <2>1 DEF KeyState
    <3>2. /\ [keyGen EXCEPT !.gen = genSeq + 1].era = keyGen.era
          /\ [keyGen EXCEPT !.gen = genSeq + 1].inflight = keyGen.inflight
          /\ [keyGen EXCEPT !.gen = genSeq + 1].inDisk = keyGen.inDisk
      BY <1>1, <2>1 DEF KeyState
    <3> QED BY <2>1, <3>1, <3>2
  <2>3. st.gen = IF old THEN genSeq + 1 ELSE keyGen.gen
    BY <1>1, <2>1 DEF KeyState
  <2> HIDE DEF st
  <2>4. Uses(st) = Uses(keyGen) /\ GenOf(st) = st.gen /\ st # None /\ KG = keyGen.gen
    BY <2>1, <2>2, KeyFields DEF KG
  <2>5. InDisk(st) <=> InDisk(keyGen)
    BY <2>1, <2>2, KeyFields DEF InDisk
  <2>6. GoodKey(keyGen', mem') /\ Uses(keyGen') = Uses(keyGen)
    BY <1>1, <1>2, <2>2, <2>4, ReclaimedKey
  <2>7. InDisk(Reclaimed(st, m)) <=> InDisk(keyGen)
    BY <1>1, <2>2, <2>5, ReclaimedKey
  <2>8. \/ GenOf(Reclaimed(st, m)) = st.gen /\ Reclaimed(st, m) # None
        \/ Reclaimed(st, m) = None /\ m = None
    BY <1>1, <2>2, <2>4, ReclaimedKey
  <2>9. mem' = None \/ mem' = mem
    BY <1>2
  <2>10. KeyMove(t)
    <3>1. CASE keyGen' = None
      BY <1>2, <2>8, <3>1, NoKeyFields DEF KeyMove, KG
    <3>2. CASE keyGen' # None /\ ~old
      BY <1>2, <2>3, <2>4, <2>8, <3>2 DEF KeyMove, KG
    <3>3. CASE keyGen' # None /\ old
      <4>1. KG' = genSeq + 1 /\ genSeq' = genSeq + 1
        BY <1>2, <2>3, <2>8, <3>3 DEF KG
      <4>2. mem' # None => mem' = mem /\ mem.gen # KG
        BY <1>1, <1>2, <2>1, <2>4, <3>3, Types, EntryFields, KeyFields
      <4> QED BY <4>1, <4>2 DEF KeyMove
    <3> QED BY <3>1, <3>2, <3>3
  <2>11. MemMove(t) /\ ItemMove(t)
    BY <1>2, <2>9 DEF MemMove, ItemMove
  <2>12. Uses(keyGen') + Pin(task[t].era) + Pin(task[t].era2) = Uses(keyGen) + Pin(task'[t].era) + Pin(task'[t].era2)
    BY <1>3, <2>6, PinsHeld
  <2> QED BY <1>1, <1>2, <2>6, <2>7, <2>8, <2>9, <2>10, <2>11, <2>12, InTheCatalog, Types DEF CatStep
<1> QED BY <1>4, <1>5

LEMMA DiskActsCat ==
  ASSUME Sound, NEW t \in Tasks, DiskEvict \/ Sweep
  PROVE  CatStep(t)
<1>1. TypeOK /\ item \in Entry \cup {None} /\ left \in Entry \cup {None}
  BY Types DEF Sound
<1>2. UNCHANGED <<mem, purgeGen, task>>
  BY DEF DiskEvict, Sweep, barriers
<1>3. CASE DiskEvict
  <2>1. item' = None /\ left' = left /\ keyGen' = Notified(keyGen, mem, left # None) /\ (left # None) \in BOOLEAN
    BY <1>3 DEF DiskEvict
  <2> QED BY <1>1, <1>2, <2>1, ToldCat
<1>4. CASE Sweep
  <2>1. item' = item /\ left' = None /\ keyGen' = Notified(keyGen, mem, item # None) /\ (item # None) \in BOOLEAN
    BY <1>4 DEF Sweep
  <2> QED BY <1>1, <1>2, <2>1, ToldCat
<1> QED BY <1>3, <1>4

LEMMA ActCat ==
  ASSUME Sound, NEW t \in Tasks, Act(t), ~\E c \in BOOLEAN : PurgeAll(t, c)
  PROVE  CatStep(t)
<1>1. CASE \/ Begin(t) \/ Discard(t) \/ Lookup(t) \/ Screen(t) \/ Cancel(t) \/ Close(t) \/ CloseAll(t) \/ Retry(t)
           \/ Crowd(t) \/ \E c \in BOOLEAN : Purge(t, c) \/ NotAccepted(t, c)
  BY <1>1, QuietActsCat
<1>2. CASE Publish(t)
  BY <1>2, QuietActsCat, PublishCat
<1>3. CASE Check(t) \/ Flush(t)
  BY <1>3, EndingsCat, KeepsCat
<1> QED BY <1>1, <1>2, <1>3, EndingsCat, CommitCat, RestoreCat, UndoCat, UnstoreCat, DropCat, EvictCat, ProbeCat,
           ReadCat, PromoteCat, DeletesCat, DeleteMemCat, PrepareCat, WipeCat, BatchCat DEF Act
-----------------------------------------------------------------------------
(* The barriers, the manifest and the counters keep their types.           *)
FencesUpTo(n) == {f \in Fence : f.gen \in 1 .. n}
BarrierTypes ==
    /\ genSeq \in Nat /\ hw \in Nat /\ hw <= genSeq /\ floor \in Nat /\ floor <= genSeq
    /\ plan \subseteq 1 .. genSeq /\ intents \subseteq 0 .. genSeq /\ ifloor \subseteq 1 .. genSeq
    /\ fences \subseteq FencesUpTo(genSeq) /\ IsFiniteSet(fences) /\ Cardinality(fences) <= MaxFences

CounterTypes ==
    /\ purges \in Nat /\ durable \in Nat /\ owed \in Nat /\ durableGen \in Nat /\ owedGen \in Nat /\ ended \in Nat
    /\ deletes \in Nat /\ deleted \in Nat /\ crashes \in Nat /\ rolled \in BOOLEAN /\ passed \in BOOLEAN
    /\ durable <= owed /\ ended <= owed /\ owed <= purges /\ deleted <= deletes
    /\ durableGen <= genSeq /\ owedGen <= genSeq

LEMMA HaveTypes ==
  ASSUME Sound
  PROVE  BarrierTypes /\ CounterTypes
<1>1. TypeOK /\ Counted /\ IsFiniteSet(fences)
  BY DEF Sound
<1>2. BarrierTypes
  BY <1>1, Types DEF BarrierTypes, TypeOK, Counted, FencesUpTo
<1> QED BY <1>1, <1>2, Types DEF CounterTypes, Counted

LEMMA UpToGrows ==
  ASSUME NEW n \in Nat, NEW m \in Nat, n <= m
  PROVE  1 .. n \subseteq 1 .. m /\ 0 .. n \subseteq 0 .. m /\ FencesUpTo(n) \subseteq FencesUpTo(m)
  BY DEF FencesUpTo

LEMMA LargerIs ==
  ASSUME NEW a \in Nat, NEW b \in Nat
  PROVE  Larger(a, b) \in Nat /\ Larger(a, b) >= a /\ Larger(a, b) >= b /\ Larger(a, b) \in {a, b}
  BY DEF Larger

LEMMA SmallerSet ==
  ASSUME NEW S, NEW T, IsFiniteSet(T), S \subseteq T
  PROVE  IsFiniteSet(S) /\ Cardinality(S) \in Nat /\ Cardinality(T) \in Nat /\ Cardinality(S) <= Cardinality(T)
  BY FS_Subset, FS_CardinalityType

LEMMA PushOutTypes ==
  ASSUME BarrierTypes, NEW n \in Nat, genSeq <= n, NEW fs, fs \subseteq FencesUpTo(n), IsFiniteSet(fs),
         Cardinality(fs) <= MaxFences + 1, NEW fl \in 0 .. n, PushOut(fs, fl)
  PROVE  /\ fences' \subseteq fs /\ IsFiniteSet(fences') /\ Cardinality(fences') <= MaxFences
         /\ floor' \in 0 .. n /\ ifloor' \subseteq 1 .. n
<1>1. MaxFences \in Nat /\ Cardinality(fs) \in Nat
  BY CacheStoreAssumption, FS_CardinalityType
<1>2. ifloor \subseteq 1 .. n
  BY UpToGrows DEF BarrierTypes
<1>3. PICK f \in Overflow(fs) : /\ fences' = fs \ {f} /\ floor' = Larger(fl, f.gen)
                                /\ ifloor' = IF Unfinished(f) THEN ifloor \cup {f.gen} ELSE ifloor
  BY DEF PushOut
<1>4. f \in fs
  BY DEF Overflow, Oldest
<1>5. f.gen \in 1 .. n
  BY <1>4 DEF FencesUpTo
<1>6. Cardinality(fences') = Cardinality(fs) - 1 /\ IsFiniteSet(fences')
  BY <1>3, <1>4, FS_RemoveElement
<1>7. floor' \in 0 .. n
  <2>1. fl \in Nat /\ f.gen \in Nat /\ f.gen \in 0 .. n
    BY <1>5
  <2>2. floor' \in {fl, f.gen}
    BY <1>3, <2>1, LargerIs
  <2> QED BY <2>1, <2>2
<1>8. ifloor' \subseteq 1 .. n
  BY <1>2, <1>3, <1>5
<1> QED BY <1>1, <1>3, <1>6, <1>7, <1>8

LEMMA EnforceTypes ==
  ASSUME BarrierTypes, NEW n \in Nat, genSeq <= n, NEW fs, fs \subseteq FencesUpTo(n), IsFiniteSet(fs),
         Cardinality(fs) <= MaxFences + 1, NEW fl \in 0 .. n, Enforce(fs, fl)
  PROVE  /\ fences' \subseteq fs /\ IsFiniteSet(fences') /\ Cardinality(fences') <= MaxFences
         /\ floor' \in 0 .. n /\ ifloor' \subseteq 1 .. n
<1>1. ifloor \subseteq 1 .. n
  BY UpToGrows DEF BarrierTypes
<1>2. CASE Cardinality(fs) <= MaxFences
  BY <1>1, <1>2 DEF Enforce
<1>3. CASE ~(Cardinality(fs) <= MaxFences)
  BY <1>3, PushOutTypes DEF Enforce
<1> QED BY <1>2, <1>3

LEMMA EndOpTypes ==
  ASSUME BarrierTypes, NEW t \in Tasks, EndOp(t) \/ UNCHANGED <<fences, floor, ifloor>>
  PROVE  /\ fences' \subseteq fences /\ IsFiniteSet(fences') /\ Cardinality(fences') <= MaxFences
         /\ floor' \in 0 .. genSeq /\ ifloor' \subseteq 1 .. genSeq
<1>1. CASE UNCHANGED <<fences, floor, ifloor>>
  BY <1>1 DEF BarrierTypes
<1>2. CASE EndOp(t) /\ task[t].start # 0
  <2>1. PICK ops : Enforce(Kept(fences, ops), FloorFor(ops))
    BY <1>2 DEF EndOp
  <2>2. Kept(fences, ops) \subseteq fences /\ FloorFor(ops) \in 0 .. genSeq
    BY DEF Kept, FloorFor, BarrierTypes
  <2>3. IsFiniteSet(Kept(fences, ops)) /\ Cardinality(Kept(fences, ops)) <= MaxFences + 1
    <3>1. IsFiniteSet(Kept(fences, ops)) /\ Cardinality(Kept(fences, ops)) <= Cardinality(fences)
          /\ Cardinality(Kept(fences, ops)) \in Nat /\ Cardinality(fences) \in Nat
      BY <2>2, SmallerSet DEF BarrierTypes
    <3> QED BY <3>1, CacheStoreAssumption DEF BarrierTypes
  <2>4. Kept(fences, ops) \subseteq FencesUpTo(genSeq) /\ genSeq \in Nat
    BY <2>2 DEF BarrierTypes
  <2> QED BY <2>1, <2>2, <2>3, <2>4, EnforceTypes
<1> QED BY <1>1, <1>2 DEF EndOp

(* The steps that do not touch manifest and fences, but by ending origin work. *)
LEMMA QuietBarriers ==
  ASSUME Sound, NEW t \in Tasks, UNCHANGED <<plan, intents, hw>>, genSeq' \in {genSeq, genSeq + 1},
         EndOp(t) \/ UNCHANGED <<fences, floor, ifloor>>
  PROVE  BarrierTypes'
<1>1. BarrierTypes
  BY HaveTypes
<1>2. genSeq \in Nat /\ genSeq' \in Nat /\ genSeq <= genSeq'
  BY <1>1 DEF BarrierTypes
<1>3. 1 .. genSeq \subseteq 1 .. genSeq' /\ 0 .. genSeq \subseteq 0 .. genSeq' /\ FencesUpTo(genSeq) \subseteq FencesUpTo(genSeq')
  BY <1>2, UpToGrows
<1>4. /\ fences' \subseteq fences /\ IsFiniteSet(fences') /\ Cardinality(fences') <= MaxFences
      /\ floor' \in 0 .. genSeq /\ ifloor' \subseteq 1 .. genSeq
  BY <1>1, EndOpTypes
<1>5. /\ plan' \subseteq 1 .. genSeq' /\ intents' \subseteq 0 .. genSeq' /\ ifloor' \subseteq 1 .. genSeq'
      /\ fences' \subseteq FencesUpTo(genSeq')
  BY <1>1, <1>3, <1>4 DEF BarrierTypes
<1>6. hw' \in Nat /\ hw' <= genSeq' /\ floor' \in Nat /\ floor' <= genSeq'
  BY <1>1, <1>2, <1>4 DEF BarrierTypes
<1> QED BY <1>2, <1>4, <1>5, <1>6 DEF BarrierTypes

(* One more fence, and one more intent, at a new cutoff. *)
LEMMA AddedFence ==
  ASSUME BarrierTypes, NEW f \in FencesUpTo(genSeq + 1)
  PROVE  /\ fences \cup {f} \subseteq FencesUpTo(genSeq + 1)
         /\ IsFiniteSet(fences \cup {f}) /\ Cardinality(fences \cup {f}) <= MaxFences + 1
<1>1. IsFiniteSet(fences) /\ Cardinality(fences) <= MaxFences /\ Cardinality(fences) \in Nat
  BY FS_CardinalityType DEF BarrierTypes
<1>2. IsFiniteSet(fences \cup {f}) /\ Cardinality(fences \cup {f}) \in {Cardinality(fences), Cardinality(fences) + 1}
  BY <1>1, FS_AddElement
<1>3. FencesUpTo(genSeq) \subseteq FencesUpTo(genSeq + 1)
  BY UpToGrows DEF BarrierTypes
<1> QED BY <1>1, <1>2, <1>3, CacheStoreAssumption DEF BarrierTypes

LEMMA AddedIntent ==
  ASSUME BarrierTypes, genSeq' = genSeq + 1, plan' = plan \cup {genSeq + 1}, intents' \in {plan', intents}, hw' = hw
  PROVE  /\ genSeq' \in Nat /\ plan' \subseteq 1 .. genSeq' /\ intents' \subseteq 0 .. genSeq'
         /\ hw' \in Nat /\ hw' <= genSeq'
<1>1. genSeq \in Nat /\ genSeq' \in Nat /\ genSeq <= genSeq'
  BY DEF BarrierTypes
<1>2. 1 .. genSeq \subseteq 1 .. genSeq' /\ 0 .. genSeq \subseteq 0 .. genSeq'
      /\ genSeq + 1 \in 1 .. genSeq' /\ 1 .. genSeq' \subseteq 0 .. genSeq'
  BY <1>1, UpToGrows
<1>3. plan' \subseteq 1 .. genSeq'
  BY <1>2 DEF BarrierTypes
<1>4. intents \subseteq 0 .. genSeq'
  BY <1>2 DEF BarrierTypes
<1>5. intents' \subseteq 0 .. genSeq'
  BY <1>2, <1>3, <1>4
<1> QED BY <1>1, <1>3, <1>5 DEF BarrierTypes

LEMMA PurgeBarriers ==
  ASSUME Sound, NEW t \in Tasks, NEW c \in BOOLEAN, Purge(t, c) \/ PurgeAll(t, c)
  PROVE  BarrierTypes'
<1>1. BarrierTypes
  BY HaveTypes
<1>2. /\ genSeq' = genSeq + 1 /\ plan' = plan \cup {genSeq + 1} /\ intents' \in {plan', intents} /\ hw' = hw
  BY DEF Purge, PurgeAll, Accept
<1>3. /\ genSeq' \in Nat /\ plan' \subseteq 1 .. genSeq' /\ intents' \subseteq 0 .. genSeq'
      /\ hw' \in Nat /\ hw' <= genSeq' /\ genSeq \in Nat /\ genSeq <= genSeq'
  BY <1>1, <1>2, AddedIntent DEF BarrierTypes
<1>4. /\ fences' \subseteq FencesUpTo(genSeq') /\ IsFiniteSet(fences') /\ Cardinality(fences') <= MaxFences
      /\ floor' \in 0 .. genSeq' /\ ifloor' \subseteq 1 .. genSeq'
  <2>1. CASE PurgeAll(t, c)
    <3>1. fences' = {} /\ floor' = 0 /\ ifloor' = {}
      BY <2>1 DEF PurgeAll
    <3> QED BY <1>3, <3>1, FS_EmptySet, CacheStoreAssumption
  <2>2. CASE Purge(t, c)
    <3> DEFINE f == [gen |-> genSeq + 1, active |-> TRUE, remaining |-> FALSE]
    <3>1. Enforce(fences \cup {f}, floor)
      BY <2>2 DEF Purge
    <3>2. f \in FencesUpTo(genSeq + 1)
      BY <1>3 DEF FencesUpTo, Fence
    <3> HIDE DEF f
    <3>3. floor \in 0 .. genSeq'
      BY <1>1, <1>3 DEF BarrierTypes
    <3>4. /\ fences \cup {f} \subseteq FencesUpTo(genSeq')
          /\ IsFiniteSet(fences \cup {f}) /\ Cardinality(fences \cup {f}) <= MaxFences + 1
      BY <1>1, <1>2, <3>2, AddedFence
    <3> QED BY <1>1, <1>3, <3>1, <3>3, <3>4, EnforceTypes
  <2> QED BY <2>1, <2>2
<1> QED BY <1>3, <1>4 DEF BarrierTypes

LEMMA NotAcceptedBarriers ==
  ASSUME Sound, NEW t \in Tasks, NEW c \in BOOLEAN, NotAccepted(t, c)
  PROVE  BarrierTypes'
<1>1. BarrierTypes
  BY HaveTypes
<1>2. /\ genSeq' = genSeq + 1 /\ plan' = plan \cup {genSeq + 1} /\ intents' \in {plan', intents} /\ hw' = hw
  BY DEF NotAccepted
<1>3. /\ genSeq' \in Nat /\ plan' \subseteq 1 .. genSeq' /\ intents' \subseteq 0 .. genSeq'
      /\ hw' \in Nat /\ hw' <= genSeq' /\ genSeq \in Nat /\ genSeq <= genSeq'
  BY <1>1, <1>2, AddedIntent DEF BarrierTypes
<1> DEFINE f == [gen |-> genSeq + 1, active |-> FALSE, remaining |-> FALSE]
           fs == Kept(fences \cup {f}, InflightOps)
<1>4. Enforce(fs, FloorFor(InflightOps))
  BY DEF NotAccepted
<1>5. f \in FencesUpTo(genSeq + 1)
  BY <1>3 DEF FencesUpTo, Fence
<1> HIDE DEF f
<1>6. /\ fences \cup {f} \subseteq FencesUpTo(genSeq')
      /\ IsFiniteSet(fences \cup {f}) /\ Cardinality(fences \cup {f}) <= MaxFences + 1
  BY <1>1, <1>2, <1>5, AddedFence
<1>7. fs \subseteq fences \cup {f} /\ FloorFor(InflightOps) \in 0 .. genSeq'
  BY <1>1, <1>3 DEF Kept, FloorFor, BarrierTypes
<1> HIDE DEF fs
<1>8. fs \subseteq FencesUpTo(genSeq') /\ IsFiniteSet(fs) /\ Cardinality(fs) <= MaxFences + 1
  <2>1. IsFiniteSet(fs) /\ Cardinality(fs) <= Cardinality(fences \cup {f})
        /\ Cardinality(fs) \in Nat /\ Cardinality(fences \cup {f}) \in Nat
    BY <1>6, <1>7, SmallerSet
  <2> QED BY <1>6, <1>7, <2>1, CacheStoreAssumption
<1>9. /\ fences' \subseteq fs /\ IsFiniteSet(fences') /\ Cardinality(fences') <= MaxFences
      /\ floor' \in 0 .. genSeq' /\ ifloor' \subseteq 1 .. genSeq'
  BY <1>1, <1>3, <1>4, <1>7, <1>8, EnforceTypes
<1> QED BY <1>3, <1>8, <1>9 DEF BarrierTypes

LEMMA CrowdBarriers ==
  ASSUME Sound, NEW t \in Tasks, Crowd(t)
  PROVE  BarrierTypes'
<1>1. BarrierTypes
  BY HaveTypes
<1>2. genSeq' = genSeq + 1 /\ UNCHANGED <<plan, intents, hw>> /\ PushOut(fences, floor)
  BY DEF Crowd, disk
<1>3. genSeq \in Nat /\ genSeq' \in Nat /\ genSeq <= genSeq' /\ floor \in 0 .. genSeq
  BY <1>1, <1>2 DEF BarrierTypes
<1>4. Cardinality(fences) <= MaxFences + 1
  BY <1>1, FS_CardinalityType, CacheStoreAssumption DEF BarrierTypes
<1>5. /\ fences' \subseteq fences /\ IsFiniteSet(fences') /\ Cardinality(fences') <= MaxFences
      /\ floor' \in 0 .. genSeq /\ ifloor' \subseteq 1 .. genSeq
  BY <1>1, <1>2, <1>3, <1>4, PushOutTypes DEF BarrierTypes
<1>6. 1 .. genSeq \subseteq 1 .. genSeq' /\ 0 .. genSeq \subseteq 0 .. genSeq' /\ FencesUpTo(genSeq) \subseteq FencesUpTo(genSeq')
  BY <1>3, UpToGrows
<1>7. /\ plan' \subseteq 1 .. genSeq' /\ intents' \subseteq 0 .. genSeq' /\ ifloor' \subseteq 1 .. genSeq'
      /\ fences' \subseteq FencesUpTo(genSeq')
  BY <1>1, <1>2, <1>5, <1>6 DEF BarrierTypes
<1>8. hw' \in Nat /\ hw' <= genSeq' /\ floor' \in Nat /\ floor' <= genSeq'
  BY <1>1, <1>2, <1>3, <1>5 DEF BarrierTypes
<1> QED BY <1>3, <1>5, <1>7, <1>8 DEF BarrierTypes

LEMMA WipeBarriers ==
  ASSUME Sound, NEW t \in Tasks, Wipe(t)
  PROVE  BarrierTypes'
<1>1. BarrierTypes
  BY HaveTypes
<1>2. genSeq' = genSeq /\ intents' \in {intents, {0}} /\ UNCHANGED <<plan, hw, fences, floor, ifloor>>
  BY DEF Wipe, Wiped, barriers
<1> QED BY <1>1, <1>2 DEF BarrierTypes

LEMMA PrepareBarriers ==
  ASSUME Sound, NEW t \in Tasks, Prepare(t)
  PROVE  BarrierTypes'
<1>1. BarrierTypes /\ TypeOK /\ Bounded(task[t]) /\ task[t] \in Calls /\ task[t].pc \in {"prepare", "prepareall"}
  BY HaveTypes, Types DEF Sound, Prepare
<1>2. /\ genSeq' = genSeq /\ plan' = plan /\ intents' \in {intents, {0}} /\ hw' = Larger(hw, task[t].max)
      /\ UNCHANGED <<fences, floor, ifloor>>
  BY DEF Prepare, Wiped, barriers
<1>3. task[t].max \in Nat /\ task[t].max <= genSeq
  BY <1>1, CallFields DEF Bounded, DeleteAt
<1>4. hw' \in Nat /\ hw' <= genSeq'
  BY <1>1, <1>2, <1>3, LargerIs DEF BarrierTypes
<1>5. intents' \subseteq 0 .. genSeq'
  BY <1>1, <1>2 DEF BarrierTypes
<1> QED BY <1>1, <1>2, <1>4, <1>5 DEF BarrierTypes

(* What a purge that ends leaves of the fences. *)
Marked(t, b) ==
    LET own == {f \in fences : f.gen = task[t].max}
    IN (fences \ own) \cup {[f EXCEPT !.active = FALSE, !.remaining = b] : f \in own}

LEMMA MarkedTypes ==
  ASSUME BarrierTypes, NEW t \in Tasks, NEW b \in BOOLEAN
  PROVE  /\ Marked(t, b) \subseteq FencesUpTo(genSeq) /\ IsFiniteSet(Marked(t, b))
         /\ Cardinality(Marked(t, b)) <= MaxFences
<1> DEFINE h == [f \in fences |-> IF f.gen = task[t].max THEN [f EXCEPT !.active = FALSE, !.remaining = b] ELSE f]
<1>1. \A f \in fences : f \in Fence /\ f.gen \in 1 .. genSeq
  BY DEF BarrierTypes, FencesUpTo
<1>2. Marked(t, b) \subseteq FencesUpTo(genSeq)
  <2>1. ASSUME NEW f \in fences PROVE [f EXCEPT !.active = FALSE, !.remaining = b] \in FencesUpTo(genSeq)
    BY <1>1 DEF FencesUpTo, Fence
  <2> QED BY <2>1 DEF Marked, BarrierTypes
<1>3. h \in [fences -> Marked(t, b)] /\ \A y \in Marked(t, b) : \E x \in fences : h[x] = y
  BY DEF Marked
<1> HIDE DEF h
<1>4. h \in Surjection(fences, Marked(t, b)) /\ IsFiniteSet(fences) /\ Cardinality(fences) <= MaxFences
  BY <1>3 DEF Surjection, BarrierTypes
<1>5. IsFiniteSet(Marked(t, b)) /\ Cardinality(Marked(t, b)) <= Cardinality(fences)
  BY <1>4, FS_Surjection
<1>6. Cardinality(Marked(t, b)) \in Nat /\ Cardinality(fences) \in Nat /\ MaxFences \in Nat
  BY <1>4, <1>5, FS_CardinalityType, CacheStoreAssumption
<1> QED BY <1>2, <1>4, <1>5, <1>6

LEMMA CompleteTypes ==
  ASSUME BarrierTypes, NEW gs, NEW all, Complete(gs, all)
  PROVE  plan' \subseteq plan /\ intents' \subseteq 0 .. genSeq
<1>1. plan \subseteq 0 .. genSeq /\ intents \subseteq 0 .. genSeq
  BY DEF BarrierTypes
<1> QED BY <1>1 DEF Complete

LEMMA CloseBarriers ==
  ASSUME Sound, NEW t \in Tasks, Close(t) \/ CloseAll(t)
  PROVE  BarrierTypes'
<1>1. BarrierTypes
  BY HaveTypes
<1>2. hw' = hw /\ genSeq' = genSeq
  BY DEF Close, CloseAll
<1>3. plan' \subseteq plan /\ intents' \subseteq 0 .. genSeq
  BY <1>1, CompleteTypes DEF Close, CloseAll
<1>4. CASE CloseAll(t)
  <2>1. UNCHANGED <<fences, floor, ifloor>>
    BY <1>4 DEF CloseAll, barriers
  <2> QED BY <1>1, <1>2, <1>3, <2>1 DEF BarrierTypes
<1>5. CASE Close(t)
  <2>1. /\ \E b \in BOOLEAN : fences' = Kept(Marked(t, b), InflightOps)
        /\ floor' \in {floor, 0} /\ ifloor' \subseteq ifloor
    <3>1. Remains(t) \in BOOLEAN
      <4>1. task[t].rest \in BOOLEAN
        BY Types, CallFields DEF Sound
      <4> QED BY <4>1 DEF Remains
    <3>2. fences' = Kept(Marked(t, Remains(t)), InflightOps)
      BY <1>5 DEF Close, Marked
    <3> QED BY <1>5, <3>1, <3>2 DEF Close, FloorFor
  <2>2. PICK b \in BOOLEAN : fences' = Kept(Marked(t, b), InflightOps)
    BY <2>1
  <2>3. fences' \subseteq Marked(t, b)
    BY <2>2 DEF Kept
  <2>4. fences' \subseteq FencesUpTo(genSeq) /\ IsFiniteSet(fences') /\ Cardinality(fences') <= MaxFences
    <3>1. /\ Marked(t, b) \subseteq FencesUpTo(genSeq) /\ IsFiniteSet(Marked(t, b))
          /\ Cardinality(Marked(t, b)) <= MaxFences
      BY <1>1, MarkedTypes
    <3>2. IsFiniteSet(fences') /\ Cardinality(fences') <= Cardinality(Marked(t, b))
          /\ Cardinality(fences') \in Nat /\ Cardinality(Marked(t, b)) \in Nat
      BY <2>3, <3>1, SmallerSet
    <3> QED BY <2>3, <3>1, <3>2, CacheStoreAssumption
  <2> QED BY <1>1, <1>2, <1>3, <2>1, <2>4 DEF BarrierTypes
<1> QED BY <1>4, <1>5

LEMMA RetryBarriers ==
  ASSUME Sound, NEW t \in Tasks, Retry(t)
  PROVE  BarrierTypes'
<1>1. BarrierTypes
  BY HaveTypes
<1>2. PICK f \in fences : /\ fences' = (fences \ {f}) \cup {[f EXCEPT !.active = TRUE]}
                         /\ plan' = plan \cup {f.gen} /\ intents' = plan'
  BY DEF Retry
<1>3. UNCHANGED <<genSeq, hw, floor, ifloor>>
  BY DEF Retry
<1>4. f \in Fence /\ f.gen \in 1 .. genSeq
  BY <1>1 DEF BarrierTypes, FencesUpTo
<1>5. plan' \subseteq 1 .. genSeq /\ intents' \subseteq 0 .. genSeq
  BY <1>1, <1>2, <1>4 DEF BarrierTypes
<1>6. fences' \subseteq FencesUpTo(genSeq)
  <2>1. [f EXCEPT !.active = TRUE] \in FencesUpTo(genSeq)
    BY <1>4 DEF FencesUpTo, Fence
  <2> QED BY <1>1, <1>2, <2>1 DEF BarrierTypes
<1>7. IsFiniteSet(fences') /\ Cardinality(fences') <= MaxFences
  <2>1. IsFiniteSet(fences) /\ Cardinality(fences) \in Nat /\ Cardinality(fences) <= MaxFences /\ MaxFences \in Nat
    BY <1>1, FS_CardinalityType, CacheStoreAssumption DEF BarrierTypes
  <2>2. IsFiniteSet(fences \ {f}) /\ Cardinality(fences \ {f}) = Cardinality(fences) - 1
    BY <2>1, FS_RemoveElement
  <2>3. IsFiniteSet(fences') /\ Cardinality(fences') \in {Cardinality(fences \ {f}), Cardinality(fences \ {f}) + 1}
    BY <1>2, <2>2, FS_AddElement
  <2> QED BY <2>1, <2>2, <2>3
<1> QED BY <1>1, <1>3, <1>5, <1>6, <1>7 DEF BarrierTypes

LEMMA ActBarriers ==
  ASSUME Sound, NEW t \in Tasks, Act(t)
  PROVE  BarrierTypes'
<1>1. CASE \/ Begin(t) \/ Discard(t) \/ Publish(t) \/ Commit(t) \/ Refuse(t) \/ Restore(t) \/ Undo(t)
  <2>1. UNCHANGED <<plan, intents, hw>> /\ genSeq' \in {genSeq, genSeq + 1} /\ (EndOp(t) \/ UNCHANGED <<fences, floor, ifloor>>)
    BY <1>1 DEF Begin, Discard, Publish, Commit, Refuse, Restore, Undo, disk, barriers
  <2> QED BY <2>1, QuietBarriers
<1>2. CASE \/ Check(t) \/ Unstore(t) \/ Drop(t) \/ Evict(t) \/ Flush(t)
           \/ Lookup(t) \/ Screen(t) \/ Probe(t) \/ Read(t) \/ Promote(t)
  <2>1. UNCHANGED <<plan, intents, hw>> /\ genSeq' \in {genSeq, genSeq + 1} /\ (EndOp(t) \/ UNCHANGED <<fences, floor, ifloor>>)
    BY <1>2 DEF Check, Unstore, Drop, Evict, Flush, Lookup, Screen, Probe, Read, Promote, disk, barriers
  <2> QED BY <2>1, QuietBarriers
<1>3. CASE DeleteBegin(t) \/ DeleteMem(t) \/ DeleteDisk(t) \/ Batch(t) \/ Cancel(t) \/ Unlink(t)
  <2>1. UNCHANGED <<plan, intents, hw, fences, floor, ifloor>> /\ genSeq' \in {genSeq, genSeq + 1}
    BY <1>3 DEF DeleteBegin, DeleteMem, DeleteDisk, Batch, Cancel, Unlink, disk, barriers
  <2> QED BY <2>1, QuietBarriers
<1> QED BY <1>1, <1>2, <1>3, PurgeBarriers, PrepareBarriers, CloseBarriers, RetryBarriers,
           NotAcceptedBarriers, CrowdBarriers, WipeBarriers DEF Act

LEMMA ActCounters ==
  ASSUME Sound, NEW t \in Tasks, Act(t)
  PROVE  CounterTypes'
<1>1. /\ CounterTypes /\ BarrierTypes /\ Bounded(task[t]) /\ BarrierTypes' /\ task[t] \in Calls
      /\ task[t].max \in Nat /\ task[t].since \in Nat
  BY HaveTypes, ActBarriers, Types, CallFields DEF Sound
<1>2. genSeq \in Nat /\ genSeq' \in Nat
  BY <1>1 DEF BarrierTypes
<1>3. CASE \/ Begin(t) \/ Discard(t) \/ Publish(t) \/ Commit(t) \/ Refuse(t) \/ Undo(t)
           \/ Check(t) \/ Unstore(t) \/ Drop(t) \/ Evict(t) \/ Flush(t)
  <2>1. genSeq' \in {genSeq, genSeq + 1} /\ UNCHANGED counters
    BY <1>3 DEF Begin, Discard, Publish, Commit, Refuse, Undo, Check, Unstore, Drop, Evict, Flush
  <2> QED BY <1>1, <1>2, <2>1 DEF CounterTypes, counters, purgeHistory
<1>4. CASE \/ Lookup(t) \/ Screen(t) \/ Probe(t) \/ Read(t) \/ Promote(t) \/ DeleteMem(t) \/ Batch(t) \/ Cancel(t)
           \/ Unlink(t) \/ CloseAll(t) \/ Wipe(t) \/ Crowd(t) \/ \E c \in BOOLEAN : NotAccepted(t, c)
  <2>1. genSeq' \in {genSeq, genSeq + 1} /\ UNCHANGED counters
    BY <1>4 DEF Lookup, Screen, Probe, Read, Promote, DeleteMem, Batch, Cancel, Unlink, CloseAll, Wipe, Crowd, NotAccepted
  <2> QED BY <1>1, <1>2, <2>1 DEF CounterTypes, counters, purgeHistory
<1>5. CASE Restore(t) \/ Retry(t)
  <2>1. /\ UNCHANGED <<genSeq, purges, durable, owed, durableGen, owedGen, ended, deletes, deleted, crashes>>
        /\ rolled' \in BOOLEAN /\ passed' \in BOOLEAN
    BY <1>1, <1>5 DEF Restore, Retry, CounterTypes, purgeHistory
  <2> QED BY <1>1, <2>1 DEF CounterTypes
<1>6. CASE DeleteBegin(t)
  <2>1. /\ UNCHANGED <<genSeq, purges, durable, owed, durableGen, owedGen, ended, deleted, crashes, rolled, passed>>
        /\ deletes' = deletes + 1
    BY <1>6 DEF DeleteBegin, purgeHistory
  <2> QED BY <1>1, <2>1 DEF CounterTypes
<1>7. CASE DeleteDisk(t)
  <2>1. /\ UNCHANGED <<genSeq, purges, durable, owed, durableGen, owedGen, ended, deletes, crashes, rolled, passed>>
        /\ deleted' = task[t].max /\ task[t].pc = "deldisk"
    BY <1>7 DEF DeleteDisk, purgeHistory
  <2>2. task[t].max <= deletes
    BY <1>1, <2>1 DEF Bounded, DeleteAt
  <2> QED BY <1>1, <2>1, <2>2 DEF CounterTypes
<1>8. CASE Prepare(t)
  <2>1. /\ UNCHANGED <<genSeq, purges, owed, owedGen, ended, deletes, deleted, crashes, rolled, passed>>
        /\ durable' \in {durable, task[t].since} /\ durableGen' \in {durableGen, task[t].max}
        /\ task[t].pc \in {"prepare", "prepareall"}
    BY <1>8 DEF Prepare
  <2>2. task[t].max <= genSeq /\ task[t].since <= owed
    BY <1>1, <2>1 DEF Bounded, DeleteAt
  <2> QED BY <1>1, <2>1, <2>2 DEF CounterTypes
<1>9. CASE \E c \in BOOLEAN : Purge(t, c) \/ PurgeAll(t, c)
  <2>1. /\ UNCHANGED <<deletes, deleted, crashes, rolled, passed>>
        /\ genSeq' = genSeq + 1 /\ purges' = purges + 1 /\ owed' = purges + 1 /\ owedGen' = genSeq + 1
        /\ durable' \in {durable, purges + 1} /\ durableGen' \in {durableGen, genSeq + 1}
        /\ ended' \in {ended, purges + 1}
    BY <1>9 DEF Purge, PurgeAll, Accept
  <2> QED BY <1>1, <1>2, <2>1 DEF CounterTypes
<1>10. CASE Close(t)
  <2>1. /\ UNCHANGED <<genSeq, purges, durable, owed, durableGen, owedGen, deletes, deleted, crashes, rolled, passed>>
        /\ ended' \in {ended, Larger(ended, task[t].since)} /\ task[t].since <= owed
    BY <1>1, <1>10 DEF Close, Bounded
  <2>2. ended' \in {ended, task[t].since}
    BY <1>1, <2>1, LargerIs DEF CounterTypes
  <2> QED BY <1>1, <2>1, <2>2 DEF CounterTypes
<1> QED BY <1>3, <1>4, <1>5, <1>6, <1>7, <1>8, <1>9, <1>10 DEF Act
-----------------------------------------------------------------------------
(* What each step makes of the locals of its call.                         *)
LEMMA BeginMoves ==
  ASSUME Sound, NEW t \in Tasks, Begin(t)
  PROVE  /\ task[t].pc \in {"idle", "got"}
         /\ task'[t].pc = "origin" /\ task'[t].start = genSeq + 1 /\ task'[t].gen = 0 /\ task'[t].prev = 0 /\ task'[t].max = 0
         /\ task'[t].era = None /\ task'[t].era2 = None /\ task'[t].ent = task[t].ent /\ task'[t].seen = purges
         /\ task'[t].since = 0 /\ task'[t].after = 0 /\ task'[t].flag = FALSE /\ task'[t].rest = FALSE
<1>1. TypeOK /\ task[t] \in Calls /\ Catalog
  BY DEF Sound, TypeOK
<1>2. task[t].pc \in {"idle", "got"} /\ task'[t] = [Idle EXCEPT !.pc = "origin", !.start = genSeq + 1, !.seen = purges, !.ent = task[t].ent]
  BY <1>1, BecomeMoves DEF Begin
<1> QED BY <1>1, <1>2, IdleCall, IdleFields DEF Calls

LEMMA DiscardMoves ==
  ASSUME Sound, NEW t \in Tasks, Discard(t)
  PROVE  \/ /\ task[t].pc = "origin"
            /\ task'[t] = Done
         \/ /\ task[t].pc = "origin"
            /\ task'[t].pc = "unstore" /\ task'[t].start = task[t].start /\ task'[t].gen = 0 /\ task'[t].prev = 0 /\ task'[t].max = task[t].start
            /\ task'[t].era = None /\ task'[t].era2 = None /\ task'[t].ent = None /\ task'[t].seen = 0
            /\ task'[t].since = 0 /\ task'[t].after = 0 /\ task'[t].flag = FALSE /\ task'[t].rest = FALSE
<1>1. TypeOK /\ task[t] \in Calls /\ Catalog
  BY DEF Sound, TypeOK
<1>2. \/ task[t].pc = "origin" /\ task'[t] = Done
      \/ task[t].pc = "origin" /\ task'[t] = [Idle EXCEPT !.pc = "unstore", !.start = task[t].start, !.max = task[t].start]
  BY <1>1, BecomeMoves DEF Discard
<1>3. CASE task[t].pc = "origin" /\ task'[t] = Done
  BY <1>3
<1>4. CASE task[t].pc = "origin" /\ task'[t] = [Idle EXCEPT !.pc = "unstore", !.start = task[t].start, !.max = task[t].start]
  BY <1>1, <1>4, IdleCall, IdleFields DEF Calls
<1> QED BY <1>2, <1>3, <1>4

LEMMA RestoreMoves ==
  ASSUME Sound, NEW t \in Tasks, Restore(t)
  PROVE  \/ /\ task[t].pc = "write"
            /\ task'[t] = Stood(t)
         \/ /\ task[t].pc = "write"
            /\ task'[t].pc = "undo" /\ task'[t].start = task[t].start /\ task'[t].gen = task[t].gen /\ task'[t].prev = 0 /\ task'[t].max = task[t].max
            /\ task'[t].era = task[t].era /\ task'[t].era2 = task[t].era2 /\ task'[t].ent = task[t].ent /\ task'[t].seen = task[t].seen
            /\ task'[t].since = task[t].since /\ task'[t].after = task[t].after /\ task'[t].flag = task[t].flag /\ task'[t].rest = task[t].rest
<1>1. TypeOK /\ task[t] \in Calls /\ Catalog
  BY DEF Sound, TypeOK
<1>2. \/ task[t].pc = "write" /\ task'[t] = Stood(t)
      \/ task[t].pc = "write" /\ task'[t] = [task[t] EXCEPT !.pc = "undo", !.prev = 0]
  BY <1>1, BecomeMoves DEF Restore
<1>3. CASE task[t].pc = "write" /\ task'[t] = Stood(t)
  BY <1>3
<1>4. CASE task[t].pc = "write" /\ task'[t] = [task[t] EXCEPT !.pc = "undo", !.prev = 0]
  BY <1>1, <1>4, IdleCall, IdleFields DEF Calls
<1> QED BY <1>2, <1>3, <1>4

LEMMA CheckMoves ==
  ASSUME Sound, NEW t \in Tasks, Check(t)
  PROVE  \/ /\ ~PublicationFenced(task[t].start)
            /\ task'[t] = Done
         \/ /\ PublicationFenced(task[t].start) /\ task[t].pc = "check"
            /\ task'[t].pc = "unstore" /\ task'[t].start = task[t].start /\ task'[t].gen = 0 /\ task'[t].prev = task[t].prev /\ task'[t].max = task[t].gen
            /\ task'[t].era = task[t].era /\ task'[t].era2 = task[t].era2 /\ task'[t].ent = task[t].ent /\ task'[t].seen = task[t].seen
            /\ task'[t].since = task[t].since /\ task'[t].after = task[t].after /\ task'[t].flag = task[t].flag /\ task'[t].rest = task[t].rest
<1>1. TypeOK /\ task[t] \in Calls /\ Catalog
  BY DEF Sound, TypeOK
<1>2. \/ ~PublicationFenced(task[t].start) /\ task'[t] = Done
      \/ PublicationFenced(task[t].start) /\ task[t].pc = "check" /\ task'[t] = [task[t] EXCEPT !.pc = "unstore", !.max = task[t].gen, !.gen = 0]
  BY <1>1, BecomeMoves DEF Check
<1>3. CASE ~PublicationFenced(task[t].start) /\ task'[t] = Done
  BY <1>3
<1>4. CASE PublicationFenced(task[t].start) /\ task[t].pc = "check" /\ task'[t] = [task[t] EXCEPT !.pc = "unstore", !.max = task[t].gen, !.gen = 0]
  BY <1>1, <1>4, IdleCall, IdleFields DEF Calls
<1> QED BY <1>2, <1>3, <1>4

LEMMA UnstoreMoves ==
  ASSUME Sound, NEW t \in Tasks, Unstore(t)
  PROVE  \/ /\ keyGen # None /\ keyGen.gen > task[t].max /\ task[t].pc = "unstore"
            /\ task'[t].pc = "drop" /\ task'[t].start = task[t].start /\ task'[t].gen = task[t].gen /\ task'[t].prev = task[t].prev /\ task'[t].max = task[t].max
            /\ task'[t].era = task[t].era /\ task'[t].era2 = task[t].era2 /\ task'[t].ent = task[t].ent /\ task'[t].seen = task[t].seen
            /\ task'[t].since = task[t].since /\ task'[t].after = task[t].after /\ task'[t].flag = task[t].flag /\ task'[t].rest = task[t].rest
         \/ /\ ~(keyGen # None /\ keyGen.gen > task[t].max) /\ task[t].pc = "unstore"
            /\ task'[t].pc = "drop" /\ task'[t].start = task[t].start /\ task'[t].gen = task[t].gen /\ task'[t].prev = task[t].prev /\ task'[t].max = task[t].max
            /\ task'[t].era = task[t].era /\ task'[t].era2 = purgeGen /\ task'[t].ent = task[t].ent /\ task'[t].seen = task[t].seen
            /\ task'[t].since = task[t].since /\ task'[t].after = task[t].after /\ task'[t].flag = task[t].flag /\ task'[t].rest = task[t].rest
<1>1. TypeOK /\ task[t] \in Calls /\ Catalog
  BY DEF Sound, TypeOK
<1>2. \/ keyGen # None /\ keyGen.gen > task[t].max /\ task[t].pc = "unstore" /\ task'[t] = [task[t] EXCEPT !.pc = "drop"]
      \/ ~(keyGen # None /\ keyGen.gen > task[t].max) /\ task[t].pc = "unstore" /\ task'[t] = [task[t] EXCEPT !.pc = "drop", !.era2 = purgeGen]
  BY <1>1, BecomeMoves, BeginNextKey DEF Unstore, Catalog
<1>3. CASE keyGen # None /\ keyGen.gen > task[t].max /\ task[t].pc = "unstore" /\ task'[t] = [task[t] EXCEPT !.pc = "drop"]
  BY <1>1, <1>3, IdleCall, IdleFields DEF Calls
<1>4. CASE ~(keyGen # None /\ keyGen.gen > task[t].max) /\ task[t].pc = "unstore" /\ task'[t] = [task[t] EXCEPT !.pc = "drop", !.era2 = purgeGen]
  BY <1>1, <1>4, IdleCall, IdleFields DEF Calls
<1> QED BY <1>2, <1>3, <1>4

LEMMA DropMoves ==
  ASSUME Sound, NEW t \in Tasks, Drop(t)
  PROVE  \/ /\ task'[t] = Done
         \/ /\ task[t].pc = "drop" /\ task[t].start = 0
            /\ task'[t].pc = "probe" /\ task'[t].start = task[t].start /\ task'[t].gen = task[t].gen /\ task'[t].prev = task[t].prev /\ task'[t].max = 0
            /\ task'[t].era = task[t].era /\ task'[t].era2 = None /\ task'[t].ent = task[t].ent /\ task'[t].seen = task[t].seen
            /\ task'[t].since = task[t].since /\ task'[t].after = task[t].after /\ task'[t].flag = task[t].flag /\ task'[t].rest = task[t].rest
<1>1. TypeOK /\ task[t] \in Calls /\ Catalog
  BY DEF Sound, TypeOK
<1>2. \/ task'[t] = Done
      \/ task[t].pc = "drop" /\ task[t].start = 0 /\ task'[t] = [task[t] EXCEPT !.pc = "probe", !.max = 0, !.era2 = None]
  BY <1>1, BecomeMoves DEF Drop
<1>3. CASE task'[t] = Done
  BY <1>3
<1>4. CASE task[t].pc = "drop" /\ task[t].start = 0 /\ task'[t] = [task[t] EXCEPT !.pc = "probe", !.max = 0, !.era2 = None]
  BY <1>1, <1>4, IdleCall, IdleFields DEF Calls
<1> QED BY <1>2, <1>3, <1>4

LEMMA EvictMoves ==
  ASSUME Sound, NEW t \in Tasks, Evict(t)
  PROVE  /\ mem # None /\ task[t].pc = "idle"
         /\ task'[t].pc = "evicted" /\ task'[t].start = 0 /\ task'[t].gen = 0 /\ task'[t].prev = 0 /\ task'[t].max = 0
         /\ task'[t].era = purgeGen /\ task'[t].era2 = None /\ task'[t].ent = mem /\ task'[t].seen = 0
         /\ task'[t].since = 0 /\ task'[t].after = 0 /\ task'[t].flag = FALSE /\ task'[t].rest = FALSE
<1>1. TypeOK /\ task[t] \in Calls /\ Catalog
  BY DEF Sound, TypeOK
<1>2. mem # None /\ task[t].pc = "idle" /\ task'[t] = [Idle EXCEPT !.pc = "evicted", !.ent = mem, !.era = purgeGen]
  BY <1>1, BecomeMoves, NoneApart DEF Evict, CatalogComplete, Catalog, GoodKey
<1> QED BY <1>1, <1>2, IdleCall, IdleFields DEF Calls

LEMMA FlushMoves ==
  ASSUME Sound, NEW t \in Tasks, Flush(t)
  PROVE  \/ /\ task'[t] = Done
         \/ /\ task[t].pc = "evicted"
            /\ task'[t].pc = "flush" /\ task'[t].start = task[t].start /\ task'[t].gen = task[t].gen /\ task'[t].prev = task[t].prev /\ task'[t].max = task[t].max
            /\ task'[t].era = task[t].era /\ task'[t].era2 = task[t].era2 /\ task'[t].ent = task[t].ent /\ task'[t].seen = task[t].seen
            /\ task'[t].since = task[t].since /\ task'[t].after = task[t].after /\ task'[t].flag = task[t].flag /\ task'[t].rest = task[t].rest
<1>1. TypeOK /\ task[t] \in Calls /\ Catalog
  BY DEF Sound, TypeOK
<1>2. \/ task'[t] = Done
      \/ task[t].pc = "evicted" /\ task'[t] = [task[t] EXCEPT !.pc = "flush"]
  BY <1>1, BecomeMoves DEF Flush
<1>3. CASE task'[t] = Done
  BY <1>3
<1>4. CASE task[t].pc = "evicted" /\ task'[t] = [task[t] EXCEPT !.pc = "flush"]
  BY <1>1, <1>4, IdleCall, IdleFields DEF Calls
<1> QED BY <1>2, <1>3, <1>4

LEMMA LookupMoves ==
  ASSUME Sound, NEW t \in Tasks, Lookup(t)
  PROVE  \/ /\ mem = None /\ task[t].pc = "idle"
            /\ task'[t].pc = "probe" /\ task'[t].start = 0 /\ task'[t].gen = 0 /\ task'[t].prev = 0 /\ task'[t].max = 0
            /\ task'[t].era = None /\ task'[t].era2 = None /\ task'[t].ent = None /\ task'[t].seen = 0
            /\ task'[t].since = owed /\ task'[t].after = deleted /\ task'[t].flag = FALSE /\ task'[t].rest = FALSE
         \/ /\ mem # None /\ task[t].pc = "idle"
            /\ task'[t].pc = "hit" /\ task'[t].start = 0 /\ task'[t].gen = 0 /\ task'[t].prev = 0 /\ task'[t].max = owedGen
            /\ task'[t].era = None /\ task'[t].era2 = None /\ task'[t].ent = mem /\ task'[t].seen = ended
            /\ task'[t].since = owed /\ task'[t].after = deleted /\ task'[t].flag = FALSE /\ task'[t].rest = FALSE
<1>1. TypeOK /\ task[t] \in Calls
  BY DEF Sound, TypeOK
<1>2. \/ mem = None /\ task[t].pc = "idle" /\ task'[t] = [Idle EXCEPT !.pc = "probe", !.since = owed, !.after = deleted]
      \/ mem # None /\ task[t].pc = "idle" /\ task'[t] = [Idle EXCEPT !.pc = "hit", !.since = owed, !.after = deleted, !.ent = mem, !.max = owedGen, !.seen = ended]
  <2> DEFINE r == [Idle EXCEPT !.since = owed, !.after = deleted]
  <2>1. PICK s : s = task'[t] /\ Become(t, s) /\
                 s = IF mem = None THEN [r EXCEPT !.pc = "probe"]
                     ELSE [r EXCEPT !.pc = "hit", !.ent = mem, !.max = owedGen, !.seen = ended]
    BY <1>1, BecomeMoves DEF Lookup
  <2>2. /\ [r EXCEPT !.pc = "probe"] = [Idle EXCEPT !.pc = "probe", !.since = owed, !.after = deleted]
        /\ [r EXCEPT !.pc = "hit", !.ent = mem, !.max = owedGen, !.seen = ended]
             = [Idle EXCEPT !.pc = "hit", !.since = owed, !.after = deleted, !.ent = mem, !.max = owedGen, !.seen = ended]
    BY ZenonT(40) DEF Idle
  <2> HIDE DEF r
  <2> QED BY <2>1, <2>2 DEF Lookup
<1>3. CASE mem = None /\ task[t].pc = "idle" /\ task'[t] = [Idle EXCEPT !.pc = "probe", !.since = owed, !.after = deleted]
  BY <1>1, <1>3, IdleCall, IdleFields DEF Calls
<1>4. CASE mem # None /\ task[t].pc = "idle" /\ task'[t] = [Idle EXCEPT !.pc = "hit", !.since = owed, !.after = deleted, !.ent = mem, !.max = owedGen, !.seen = ended]
  BY <1>1, <1>4, IdleCall, IdleFields DEF Calls
<1> QED BY <1>2, <1>3, <1>4

LEMMA ScreenMoves ==
  ASSUME Sound, NEW t \in Tasks, Screen(t)
  PROVE  /\ task[t].pc = "hit"
         /\ \/ /\ UnderPurge(task[t].ent.gen)
               /\ task'[t].pc = "unstore" /\ task'[t].start = 0 /\ task'[t].gen = 0 /\ task'[t].prev = 0 /\ task'[t].max = task[t].ent.gen
               /\ task'[t].era = None /\ task'[t].era2 = None /\ task'[t].ent = None /\ task'[t].seen = 0
               /\ task'[t].since = task[t].since /\ task'[t].after = task[t].after /\ task'[t].flag = FALSE /\ task'[t].rest = FALSE
            \/ /\ ~UnderPurge(task[t].ent.gen) /\ task[t].max \in Enforced
               /\ task'[t].pc = "got" /\ task'[t].start = 0 /\ task'[t].gen = 0 /\ task'[t].prev = 0 /\ task'[t].max = 0
               /\ task'[t].era = None /\ task'[t].era2 = None /\ task'[t].ent = task[t].ent /\ task'[t].seen = 0
               /\ task'[t].since = task[t].since /\ task'[t].after = task[t].after /\ task'[t].flag = FALSE /\ task'[t].rest = FALSE
            \/ /\ ~UnderPurge(task[t].ent.gen)
               /\ task'[t].pc = "got" /\ task'[t].start = 0 /\ task'[t].gen = 0 /\ task'[t].prev = 0 /\ task'[t].max = 0
               /\ task'[t].era = None /\ task'[t].era2 = None /\ task'[t].ent = task[t].ent /\ task'[t].seen = 0
               /\ task'[t].since = task[t].seen /\ task'[t].after = task[t].after /\ task'[t].flag = FALSE /\ task'[t].rest = FALSE
<1>1. TypeOK /\ task[t] \in Calls
  BY DEF Sound, TypeOK
<1>2. /\ task[t].pc = "hit"
      /\ \/ UnderPurge(task[t].ent.gen) /\ task'[t] = [Idle EXCEPT !.pc = "unstore", !.since = task[t].since, !.after = task[t].after, !.max = task[t].ent.gen]
         \/ ~UnderPurge(task[t].ent.gen) /\ task[t].max \in Enforced /\ task'[t] = [Idle EXCEPT !.pc = "got", !.since = task[t].since, !.after = task[t].after, !.ent = task[t].ent]
         \/ ~UnderPurge(task[t].ent.gen) /\ task'[t] = [Idle EXCEPT !.pc = "got", !.since = task[t].seen, !.after = task[t].after, !.ent = task[t].ent]
  BY <1>1, ScreenIs
<1>6. task[t].pc = "hit"
  BY <1>2
<1>3. CASE UnderPurge(task[t].ent.gen) /\ task'[t] = [Idle EXCEPT !.pc = "unstore", !.since = task[t].since, !.after = task[t].after, !.max = task[t].ent.gen]
  BY <1>1, <1>6, <1>3, IdleCall, IdleFields DEF Calls
<1>4. CASE ~UnderPurge(task[t].ent.gen) /\ task[t].max \in Enforced /\ task'[t] = [Idle EXCEPT !.pc = "got", !.since = task[t].since, !.after = task[t].after, !.ent = task[t].ent]
  BY <1>1, <1>6, <1>4, IdleCall, IdleFields DEF Calls
<1>5. CASE ~UnderPurge(task[t].ent.gen) /\ task'[t] = [Idle EXCEPT !.pc = "got", !.since = task[t].seen, !.after = task[t].after, !.ent = task[t].ent]
  BY <1>1, <1>6, <1>5, IdleCall, IdleFields DEF Calls
<1> QED BY <1>2, <1>3, <1>4, <1>5

LEMMA ProbeMoves ==
  ASSUME Sound, NEW t \in Tasks, Probe(t)
  PROVE  /\ task[t].pc = "probe"
         /\ task'[t].pc = "read" /\ task'[t].start = task[t].start /\ task'[t].gen = KG /\ task'[t].prev = task[t].prev /\ task'[t].max = task[t].max
         /\ task'[t].era = purgeGen /\ task'[t].era2 = task[t].era2 /\ task'[t].ent = task[t].ent /\ task'[t].seen = task[t].seen
         /\ task'[t].since = task[t].since /\ task'[t].after = task[t].after /\ task'[t].flag = task[t].flag /\ task'[t].rest = task[t].rest
<1>1. TypeOK /\ task[t] \in Calls /\ Catalog
  BY DEF Sound, TypeOK
<1>2. task[t].pc = "probe" /\ task'[t] = [task[t] EXCEPT !.pc = "read", !.gen = KG, !.era = purgeGen]
  BY <1>1, BecomeMoves, BeginReadKey DEF Probe, Catalog, KG
<1> QED BY <1>1, <1>2, IdleCall, IdleFields DEF Calls

LEMMA ReadMoves ==
  ASSUME Sound, NEW t \in Tasks, Read(t)
  PROVE  \/ /\ task'[t] = Done
         \/ /\ task[t].pc = "read" /\ item # None
            /\ task'[t].pc = "promote" /\ task'[t].start = task[t].start /\ task'[t].gen = task[t].gen /\ task'[t].prev = task[t].prev /\ task'[t].max = task[t].max
            /\ task'[t].era = task[t].era /\ task'[t].era2 = task[t].era2 /\ task'[t].ent = item /\ task'[t].seen = task[t].seen
            /\ task'[t].since = task[t].since /\ task'[t].after = task[t].after /\ task'[t].flag = task[t].flag /\ task'[t].rest = task[t].rest
<1>1. TypeOK /\ task[t] \in Calls /\ Catalog
  BY DEF Sound, TypeOK
<1>2. \/ task'[t] = Done
      \/ task[t].pc = "read" /\ item # None /\ task'[t] = [task[t] EXCEPT !.pc = "promote", !.ent = item]
  BY <1>1, BecomeMoves DEF Read
<1>3. CASE task'[t] = Done
  BY <1>3
<1>4. CASE task[t].pc = "read" /\ item # None /\ task'[t] = [task[t] EXCEPT !.pc = "promote", !.ent = item]
  BY <1>1, <1>4, IdleCall, IdleFields DEF Calls
<1> QED BY <1>2, <1>3, <1>4

LEMMA PromoteMoves ==
  ASSUME Sound, NEW t \in Tasks, Promote(t)
  PROVE  \/ /\ task[t].pc = "promote"
            /\ task'[t] = Done
         \/ /\ task[t].pc = "promote" /\ mem # None
            /\ task'[t].pc = "got" /\ task'[t].start = 0 /\ task'[t].gen = 0 /\ task'[t].prev = 0 /\ task'[t].max = 0
            /\ task'[t].era = None /\ task'[t].era2 = None /\ task'[t].ent = mem /\ task'[t].seen = 0
            /\ task'[t].since = task[t].since /\ task'[t].after = task[t].after /\ task'[t].flag = FALSE /\ task'[t].rest = FALSE
         \/ /\ task[t].pc = "promote" /\ StillValid(t)
            /\ task'[t].pc = "got" /\ task'[t].start = 0 /\ task'[t].gen = 0 /\ task'[t].prev = 0 /\ task'[t].max = 0
            /\ task'[t].era = None /\ task'[t].era2 = None /\ task'[t].ent = task[t].ent /\ task'[t].seen = 0
            /\ task'[t].since = task[t].since /\ task'[t].after = task[t].after /\ task'[t].flag = FALSE /\ task'[t].rest = FALSE
<1>1. TypeOK /\ task[t] \in Calls /\ Catalog
  BY DEF Sound, TypeOK
<1>2. \/ task[t].pc = "promote" /\ task'[t] = Done
      \/ task[t].pc = "promote" /\ mem # None /\ task'[t] = [Idle EXCEPT !.pc = "got", !.ent = mem, !.since = task[t].since, !.after = task[t].after]
      \/ task[t].pc = "promote" /\ StillValid(t) /\ task'[t] = [Idle EXCEPT !.pc = "got", !.ent = task[t].ent, !.since = task[t].since, !.after = task[t].after]
  BY <1>1, BecomeMoves DEF Promote
<1>3. CASE task[t].pc = "promote" /\ task'[t] = Done
  BY <1>3
<1>4. CASE task[t].pc = "promote" /\ mem # None /\ task'[t] = [Idle EXCEPT !.pc = "got", !.ent = mem, !.since = task[t].since, !.after = task[t].after]
  BY <1>1, <1>4, IdleCall, IdleFields DEF Calls
<1>5. CASE task[t].pc = "promote" /\ StillValid(t) /\ task'[t] = [Idle EXCEPT !.pc = "got", !.ent = task[t].ent, !.since = task[t].since, !.after = task[t].after]
  BY <1>1, <1>5, IdleCall, IdleFields DEF Calls
<1> QED BY <1>2, <1>3, <1>4, <1>5

LEMMA DeleteBeginMoves ==
  ASSUME Sound, NEW t \in Tasks, DeleteBegin(t)
  PROVE  /\ task[t].pc = "idle"
         /\ task'[t].pc = "delmem" /\ task'[t].start = 0 /\ task'[t].gen = 0 /\ task'[t].prev = 0 /\ task'[t].max = deletes + 1
         /\ task'[t].era = None /\ task'[t].era2 = None /\ task'[t].ent = None /\ task'[t].seen = 0
         /\ task'[t].since = 0 /\ task'[t].after = 0 /\ task'[t].flag = FALSE /\ task'[t].rest = FALSE
<1>1. TypeOK /\ task[t] \in Calls /\ Catalog
  BY DEF Sound, TypeOK
<1>2. task[t].pc = "idle" /\ task'[t] = [Idle EXCEPT !.pc = "delmem", !.max = deletes + 1]
  BY <1>1, BecomeMoves DEF DeleteBegin
<1> QED BY <1>1, <1>2, IdleCall, IdleFields DEF Calls

LEMMA DeleteMemMoves ==
  ASSUME Sound, NEW t \in Tasks, DeleteMem(t)
  PROVE  /\ task[t].pc = "delmem"
         /\ task'[t].pc = "deldisk" /\ task'[t].start = task[t].start /\ task'[t].gen = task[t].gen /\ task'[t].prev = task[t].prev /\ task'[t].max = task[t].max
         /\ task'[t].era = purgeGen /\ task'[t].era2 = task[t].era2 /\ task'[t].ent = task[t].ent /\ task'[t].seen = task[t].seen
         /\ task'[t].since = task[t].since /\ task'[t].after = task[t].after /\ task'[t].flag = task[t].flag /\ task'[t].rest = task[t].rest
<1>1. TypeOK /\ task[t] \in Calls /\ Catalog
  BY DEF Sound, TypeOK
<1>2. task[t].pc = "delmem" /\ task'[t] = [task[t] EXCEPT !.pc = "deldisk", !.era = purgeGen]
  BY <1>1, BecomeMoves, BeginNextKey DEF DeleteMem, Catalog
<1> QED BY <1>1, <1>2, IdleCall, IdleFields DEF Calls

LEMMA PurgeMoves ==
  ASSUME Sound, NEW t \in Tasks, NEW c \in BOOLEAN, Purge(t, c)
  PROVE  /\ task[t].pc = "idle"
         /\ task'[t].pc = "prepare" /\ task'[t].start = 0 /\ task'[t].gen = 0 /\ task'[t].prev = 0 /\ task'[t].max = genSeq + 1
         /\ task'[t].era = None /\ task'[t].era2 = None /\ task'[t].ent = None /\ task'[t].seen = 0
         /\ task'[t].since = purges + 1 /\ task'[t].after = 0 /\ task'[t].flag = c /\ task'[t].rest = Held
<1>1. TypeOK /\ task[t] \in Calls /\ Catalog
  BY DEF Sound, TypeOK
<1>2. task[t].pc = "idle" /\ task'[t] = [Idle EXCEPT !.pc = "prepare", !.max = genSeq + 1, !.flag = c, !.since = purges + 1, !.rest = Held]
  BY <1>1, BecomeMoves DEF Purge, Accept
<1> QED BY <1>1, <1>2, IdleCall, IdleFields DEF Calls

LEMMA PurgeAllMoves ==
  ASSUME Sound, NEW t \in Tasks, NEW c \in BOOLEAN, PurgeAll(t, c)
  PROVE  /\ task[t].pc = "idle"
         /\ task'[t].pc = "prepareall" /\ task'[t].start = 0 /\ task'[t].gen = 0 /\ task'[t].prev = 0 /\ task'[t].max = genSeq + 1
         /\ task'[t].era = None /\ task'[t].era2 = None /\ task'[t].ent = None /\ task'[t].seen = 0
         /\ task'[t].since = purges + 1 /\ task'[t].after = 0 /\ task'[t].flag = c /\ task'[t].rest = FALSE
<1>1. TypeOK /\ task[t] \in Calls /\ Catalog
  BY DEF Sound, TypeOK
<1>2. task[t].pc = "idle" /\ task'[t] = [Idle EXCEPT !.pc = "prepareall", !.max = genSeq + 1, !.flag = c, !.since = purges + 1]
  BY <1>1, BecomeMoves DEF PurgeAll, Accept
<1> QED BY <1>1, <1>2, IdleCall, IdleFields DEF Calls

LEMMA PrepareMoves ==
  ASSUME Sound, NEW t \in Tasks, Prepare(t)
  PROVE  \/ /\ task[t].pc = "prepareall"
            /\ task'[t].pc = "unlinkall" /\ task'[t].start = task[t].start /\ task'[t].gen = task[t].gen /\ task'[t].prev = task[t].prev /\ task'[t].max = task[t].max
            /\ task'[t].era = task[t].era /\ task'[t].era2 = task[t].era2 /\ task'[t].ent = task[t].ent /\ task'[t].seen = task[t].seen
            /\ task'[t].since = task[t].since /\ task'[t].after = task[t].after /\ task'[t].flag = task[t].flag /\ task'[t].rest = FALSE
         \/ /\ task[t].rest /\ task[t].pc = "prepare"
            /\ task'[t].pc = "batch" /\ task'[t].start = task[t].start /\ task'[t].gen = task[t].gen /\ task'[t].prev = task[t].prev /\ task'[t].max = task[t].max
            /\ task'[t].era = task[t].era /\ task'[t].era2 = task[t].era2 /\ task'[t].ent = task[t].ent /\ task'[t].seen = task[t].seen
            /\ task'[t].since = task[t].since /\ task'[t].after = task[t].after /\ task'[t].flag = task[t].flag /\ task'[t].rest = FALSE
         \/ /\ ~task[t].rest /\ task[t].pc = "prepare"
            /\ task'[t].pc = "close" /\ task'[t].start = task[t].start /\ task'[t].gen = task[t].gen /\ task'[t].prev = task[t].prev /\ task'[t].max = task[t].max
            /\ task'[t].era = task[t].era /\ task'[t].era2 = task[t].era2 /\ task'[t].ent = task[t].ent /\ task'[t].seen = task[t].seen
            /\ task'[t].since = task[t].since /\ task'[t].after = task[t].after /\ task'[t].flag = task[t].flag /\ task'[t].rest = FALSE
<1>1. TypeOK /\ task[t] \in Calls /\ Catalog
  BY DEF Sound, TypeOK
<1>2. \/ task[t].pc = "prepareall" /\ task'[t] = [task[t] EXCEPT !.pc = "unlinkall", !.rest = FALSE]
      \/ task[t].rest /\ task[t].pc = "prepare" /\ task'[t] = [task[t] EXCEPT !.pc = "batch", !.rest = FALSE]
      \/ ~task[t].rest /\ task[t].pc = "prepare" /\ task'[t] = [task[t] EXCEPT !.pc = "close", !.rest = FALSE]
  BY <1>1, BecomeMoves DEF Prepare
<1>3. CASE task[t].pc = "prepareall" /\ task'[t] = [task[t] EXCEPT !.pc = "unlinkall", !.rest = FALSE]
  BY <1>1, <1>3, IdleCall, IdleFields DEF Calls
<1>4. CASE task[t].rest /\ task[t].pc = "prepare" /\ task'[t] = [task[t] EXCEPT !.pc = "batch", !.rest = FALSE]
  BY <1>1, <1>4, IdleCall, IdleFields DEF Calls
<1>5. CASE ~task[t].rest /\ task[t].pc = "prepare" /\ task'[t] = [task[t] EXCEPT !.pc = "close", !.rest = FALSE]
  BY <1>1, <1>5, IdleCall, IdleFields DEF Calls
<1> QED BY <1>2, <1>3, <1>4, <1>5

LEMMA BatchMoves ==
  ASSUME Sound, NEW t \in Tasks, Batch(t)
  PROVE  /\ task[t].pc = "batch"
         /\ task'[t].pc = "unlink" /\ task'[t].start = task[t].start /\ task'[t].gen = task[t].gen /\ task'[t].prev = task[t].prev /\ task'[t].max = task[t].max
         /\ task'[t].era = task[t].era /\ task'[t].era2 = task[t].era2 /\ task'[t].ent = task[t].ent /\ task'[t].seen = task[t].seen
         /\ task'[t].since = task[t].since /\ task'[t].after = task[t].after /\ task'[t].flag = task[t].flag /\ task'[t].rest = task[t].rest
<1>1. TypeOK /\ task[t] \in Calls /\ Catalog
  BY DEF Sound, TypeOK
<1>2. task[t].pc = "batch" /\ task'[t] = [task[t] EXCEPT !.pc = "unlink"]
  BY <1>1, BecomeMoves DEF Batch
<1> QED BY <1>1, <1>2, IdleCall, IdleFields DEF Calls

LEMMA CancelMoves ==
  ASSUME Sound, NEW t \in Tasks, Cancel(t)
  PROVE  /\ task[t].pc = "batch"
         /\ task'[t].pc = "close" /\ task'[t].start = task[t].start /\ task'[t].gen = task[t].gen /\ task'[t].prev = task[t].prev /\ task'[t].max = task[t].max
         /\ task'[t].era = task[t].era /\ task'[t].era2 = task[t].era2 /\ task'[t].ent = task[t].ent /\ task'[t].seen = task[t].seen
         /\ task'[t].since = task[t].since /\ task'[t].after = task[t].after /\ task'[t].flag = task[t].flag /\ task'[t].rest = TRUE
<1>1. TypeOK /\ task[t] \in Calls /\ Catalog
  BY DEF Sound, TypeOK
<1>2. task[t].pc = "batch" /\ task'[t] = [task[t] EXCEPT !.pc = "close", !.rest = TRUE]
  BY <1>1, BecomeMoves DEF Cancel
<1> QED BY <1>1, <1>2, IdleCall, IdleFields DEF Calls

LEMMA UnlinkMoves ==
  ASSUME Sound, NEW t \in Tasks, Unlink(t)
  PROVE  \/ /\ task[t].pc = "unlink"
            /\ task'[t].pc = "close" /\ task'[t].start = task[t].start /\ task'[t].gen = task[t].gen /\ task'[t].prev = task[t].prev /\ task'[t].max = task[t].max
            /\ task'[t].era = task[t].era /\ task'[t].era2 = task[t].era2 /\ task'[t].ent = task[t].ent /\ task'[t].seen = task[t].seen
            /\ task'[t].since = task[t].since /\ task'[t].after = task[t].after /\ task'[t].flag = task[t].flag /\ task'[t].rest = (left' # left)
         \/ /\ task[t].pc = "unlinkall"
            /\ task'[t].pc = "closeall" /\ task'[t].start = task[t].start /\ task'[t].gen = task[t].gen /\ task'[t].prev = task[t].prev /\ task'[t].max = task[t].max
            /\ task'[t].era = task[t].era /\ task'[t].era2 = task[t].era2 /\ task'[t].ent = task[t].ent /\ task'[t].seen = task[t].seen
            /\ task'[t].since = task[t].since /\ task'[t].after = task[t].after /\ task'[t].flag = task[t].flag /\ task'[t].rest = (left' # left)
<1>1. TypeOK /\ task[t] \in Calls /\ Catalog
  BY DEF Sound, TypeOK
<1>2. \/ task[t].pc = "unlink" /\ task'[t] = [task[t] EXCEPT !.pc = "close", !.rest = (left' # left)]
      \/ task[t].pc = "unlinkall" /\ task'[t] = [task[t] EXCEPT !.pc = "closeall", !.rest = (left' # left)]
  BY <1>1, BecomeMoves DEF Unlink
<1>3. CASE task[t].pc = "unlink" /\ task'[t] = [task[t] EXCEPT !.pc = "close", !.rest = (left' # left)]
  BY <1>1, <1>3, IdleCall, IdleFields DEF Calls
<1>4. CASE task[t].pc = "unlinkall" /\ task'[t] = [task[t] EXCEPT !.pc = "closeall", !.rest = (left' # left)]
  BY <1>1, <1>4, IdleCall, IdleFields DEF Calls
<1> QED BY <1>2, <1>3, <1>4

(* Which step leads to a place. *)
Arrives(t) ==
    /\ task'[t].pc = "write" => Publish(t) /\ ~PublicationFenced(task[t].start)
    /\ task'[t].pc = "origin" => Begin(t)
    /\ task'[t].pc = "undo" => Restore(t)
    /\ task'[t].pc = "check" => Commit(t) \/ Restore(t) \/ Undo(t)
    /\ task'[t].pc = "unstore" => Discard(t) \/ Check(t) \/ Screen(t)
    /\ task'[t].pc = "drop" => Unstore(t)
    /\ task'[t].pc = "evicted" => Evict(t)
    /\ task'[t].pc = "flush" => Flush(t)
    /\ task'[t].pc = "probe" => Lookup(t) \/ Drop(t)
    /\ task'[t].pc = "read" => Probe(t)
    /\ task'[t].pc = "promote" => Read(t)
    /\ task'[t].pc = "hit" => Lookup(t)
    /\ task'[t].pc = "got" => Screen(t) \/ Promote(t)
    /\ task'[t].pc = "wipe" => \E c \in BOOLEAN : NotAccepted(t, c)
    /\ task'[t].pc = "delmem" => DeleteBegin(t)
    /\ task'[t].pc = "deldisk" => DeleteMem(t)
    /\ task'[t].pc = "prepare" => Retry(t) \/ (\E c \in BOOLEAN : Purge(t, c))
    /\ task'[t].pc = "prepareall" => \E c \in BOOLEAN : PurgeAll(t, c)
    /\ task'[t].pc = "batch" => Prepare(t)
    /\ task'[t].pc = "unlink" => Batch(t)
    /\ task'[t].pc = "unlinkall" => Prepare(t)
    /\ task'[t].pc = "close" => Prepare(t) \/ Cancel(t) \/ Unlink(t)
    /\ task'[t].pc = "closeall" => Unlink(t)

LEMMA ActArrives ==
  ASSUME Sound, NEW t \in Tasks, Act(t)
  PROVE  Arrives(t)
<1>1. TypeOK /\ task[t] \in Calls /\ Counted
  BY Types DEF Sound
<1>2. CASE Begin(t)
  <2>1. task'[t].pc \in {"origin"}
    BY <1>2, BeginMoves, DoneFields, StoodFields, <1>1
  <2> QED BY <1>2, <2>1 DEF Arrives
<1>3. CASE Discard(t)
  <2>1. task'[t].pc \in {"done", "unstore"}
    BY <1>3, DiscardMoves, DoneFields, StoodFields, <1>1
  <2> QED BY <1>3, <2>1 DEF Arrives
<1>4. CASE Publish(t)
  <2>1. CASE PublicationFenced(task[t].start)
    <3>1. task'[t] = Done
      BY <1>1, <1>4, <2>1, BecomeMoves DEF Publish
    <3> QED BY <3>1, DoneFields DEF Arrives
  <2>2. CASE ~PublicationFenced(task[t].start)
    <3>1. task'[t].pc = "write"
      BY <1>1, <1>4, <2>2, PublishIs, WritingFields
    <3> QED BY <1>4, <2>2, <3>1 DEF Arrives
  <2> QED BY <2>1, <2>2
<1>5. CASE Commit(t)
  <2>1. task'[t].pc \in {"done", "check"}
    BY <1>1, <1>5, BecomeMoves, DoneFields, StoodFields DEF Commit
  <2> QED BY <1>5, <2>1 DEF Arrives
<1>6. CASE Refuse(t)
  <2>1. task'[t].pc \in {"done"}
    BY <1>1, <1>6, BecomeMoves, DoneFields, StoodFields DEF Refuse
  <2> QED BY <1>6, <2>1 DEF Arrives
<1>7. CASE Restore(t)
  <2>1. task'[t].pc \in {"check", "undo"}
    BY <1>7, RestoreMoves, DoneFields, StoodFields, <1>1
  <2> QED BY <1>7, <2>1 DEF Arrives
<1>8. CASE Undo(t)
  <2>1. task'[t].pc \in {"done", "check"}
    BY <1>1, <1>8, BecomeMoves, DoneFields, StoodFields DEF Undo
  <2> QED BY <1>8, <2>1 DEF Arrives
<1>9. CASE Check(t)
  <2>1. task'[t].pc \in {"done", "unstore"}
    BY <1>9, CheckMoves, DoneFields, StoodFields, <1>1
  <2> QED BY <1>9, <2>1 DEF Arrives
<1>10. CASE Unstore(t)
  <2>1. task'[t].pc \in {"drop"}
    BY <1>10, UnstoreMoves, DoneFields, StoodFields, <1>1
  <2> QED BY <1>10, <2>1 DEF Arrives
<1>11. CASE Drop(t)
  <2>1. task'[t].pc \in {"done", "probe"}
    BY <1>11, DropMoves, DoneFields, StoodFields, <1>1
  <2> QED BY <1>11, <2>1 DEF Arrives
<1>12. CASE Evict(t)
  <2>1. task'[t].pc \in {"evicted"}
    BY <1>12, EvictMoves, DoneFields, StoodFields, <1>1
  <2> QED BY <1>12, <2>1 DEF Arrives
<1>13. CASE Flush(t)
  <2>1. task'[t].pc \in {"done", "flush"}
    BY <1>13, FlushMoves, DoneFields, StoodFields, <1>1
  <2> QED BY <1>13, <2>1 DEF Arrives
<1>14. CASE Lookup(t)
  <2>1. task'[t].pc \in {"probe", "hit"}
    BY <1>14, LookupMoves, DoneFields, StoodFields, <1>1
  <2> QED BY <1>14, <2>1 DEF Arrives
<1>15. CASE Probe(t)
  <2>1. task'[t].pc \in {"read"}
    BY <1>15, ProbeMoves, DoneFields, StoodFields, <1>1
  <2> QED BY <1>15, <2>1 DEF Arrives
<1>16. CASE Read(t)
  <2>1. task'[t].pc \in {"done", "promote"}
    BY <1>16, ReadMoves, DoneFields, StoodFields, <1>1
  <2> QED BY <1>16, <2>1 DEF Arrives
<1>17. CASE Promote(t)
  <2>1. task'[t].pc \in {"done", "got"}
    BY <1>17, PromoteMoves, DoneFields, StoodFields, <1>1
  <2> QED BY <1>17, <2>1 DEF Arrives
<1>18. CASE DeleteBegin(t)
  <2>1. task'[t].pc \in {"delmem"}
    BY <1>18, DeleteBeginMoves, DoneFields, StoodFields, <1>1
  <2> QED BY <1>18, <2>1 DEF Arrives
<1>19. CASE DeleteMem(t)
  <2>1. task'[t].pc \in {"deldisk"}
    BY <1>19, DeleteMemMoves, DoneFields, StoodFields, <1>1
  <2> QED BY <1>19, <2>1 DEF Arrives
<1>20. CASE DeleteDisk(t)
  <2>1. task'[t].pc \in {"done"}
    BY <1>1, <1>20, BecomeMoves, DoneFields, StoodFields DEF DeleteDisk
  <2> QED BY <1>20, <2>1 DEF Arrives
<1>21. CASE \E c \in BOOLEAN : Purge(t, c)
  <2>1. task'[t].pc \in {"prepare"}
    BY <1>21, PurgeMoves, DoneFields, StoodFields, <1>1
  <2> QED BY <1>21, <2>1 DEF Arrives
<1>22. CASE \E c \in BOOLEAN : PurgeAll(t, c)
  <2>1. task'[t].pc \in {"prepareall"}
    BY <1>22, PurgeAllMoves, DoneFields, StoodFields, <1>1
  <2> QED BY <1>22, <2>1 DEF Arrives
<1>23. CASE Prepare(t)
  <2>1. task'[t].pc \in {"batch", "unlinkall", "close"}
    BY <1>23, PrepareMoves, DoneFields, StoodFields, <1>1
  <2> QED BY <1>23, <2>1 DEF Arrives
<1>24. CASE Batch(t)
  <2>1. task'[t].pc \in {"unlink"}
    BY <1>24, BatchMoves, DoneFields, StoodFields, <1>1
  <2> QED BY <1>24, <2>1 DEF Arrives
<1>25. CASE Cancel(t)
  <2>1. task'[t].pc \in {"close"}
    BY <1>25, CancelMoves, DoneFields, StoodFields, <1>1
  <2> QED BY <1>25, <2>1 DEF Arrives
<1>26. CASE Unlink(t)
  <2>1. task'[t].pc \in {"close", "closeall"}
    BY <1>26, UnlinkMoves, DoneFields, StoodFields, <1>1
  <2> QED BY <1>26, <2>1 DEF Arrives
<1>27. CASE Close(t)
  <2>1. task'[t].pc \in {"done"}
    BY <1>1, <1>27, BecomeMoves, DoneFields, StoodFields DEF Close
  <2> QED BY <1>27, <2>1 DEF Arrives
<1>28. CASE CloseAll(t)
  <2>1. task'[t].pc \in {"done"}
    BY <1>1, <1>28, BecomeMoves, DoneFields, StoodFields DEF CloseAll
  <2> QED BY <1>28, <2>1 DEF Arrives
<1>29. CASE Retry(t)
  <2>1. PICK f \in fences, b \in BOOLEAN : task'[t] = [Idle EXCEPT !.pc = "prepare", !.max = f.gen, !.flag = TRUE, !.rest = b]
    <3>1. PICK f \in fences : task'[t] = [Idle EXCEPT !.pc = "prepare", !.max = f.gen, !.flag = TRUE,
                                             !.rest = Held /\ keyGen.gen <= f.gen]
      BY <1>1, <1>29, BecomeMoves DEF Retry
    <3>2. (Held /\ keyGen.gen <= f.gen) \in BOOLEAN
      OBVIOUS
    <3> QED BY <3>1, <3>2
  <2>2. task'[t].pc = "prepare"
    BY <2>1, IdleCall DEF Calls
  <2> QED BY <1>29, <2>2 DEF Arrives
<1>30. CASE Screen(t)
  <2>1. task'[t].pc \in {"unstore", "got"}
    BY <1>30, ScreenMoves
  <2> QED BY <1>30, <2>1 DEF Arrives
<1>31. CASE Wipe(t) \/ Crowd(t)
  <2>1. task'[t].pc \in {"done"}
    BY <1>1, <1>31, BecomeMoves, DoneFields DEF Wipe, Crowd
  <2> QED BY <2>1 DEF Arrives
<1>32. CASE \E c \in BOOLEAN : NotAccepted(t, c)
  <2>1. task'[t] \in {Done, [Idle EXCEPT !.pc = "wipe"]}
    BY <1>1, <1>32, BecomeMoves DEF NotAccepted
  <2>2. task'[t].pc \in {"done", "wipe"}
    BY <2>1, DoneFields, IdleCall DEF Calls
  <2> QED BY <1>32, <2>2 DEF Arrives
<1> QED BY <1>2, <1>3, <1>4, <1>5, <1>6, <1>7, <1>8, <1>9, <1>10, <1>11, <1>12, <1>13, <1>14, <1>15, <1>16, <1>17, <1>18, <1>19, <1>20, <1>21, <1>22, <1>23, <1>24, <1>25, <1>26, <1>27, <1>28, <1>29, <1>30, <1>31, <1>32 DEF Act

LEMMA WriteIs ==
  ASSUME Sound, NEW t \in Tasks, Publish(t), ~PublicationFenced(task[t].start)
  PROVE  /\ task[t].pc = "origin" /\ task'[t].pc = "write"
         /\ NewEntry(t, task'[t].ent) /\ task'[t].gen = genSeq + 1 /\ task'[t].prev = KG
         /\ task'[t].era = purgeGen /\ task'[t].start = task[t].start /\ task'[t].seen = task[t].seen
         /\ task'[t].since = task[t].since /\ task'[t].after = task[t].after /\ task'[t].max = task[t].max
         /\ genSeq' = genSeq + 1 /\ KG' = genSeq + 1
         /\ mem' = IF task'[t].ent.large THEN None ELSE task'[t].ent
         /\ UNCHANGED <<disk, barriers, counters>>
<1>1. TypeOK /\ Counted /\ GoodKey(keyGen, mem)
  BY InTheCatalog DEF Sound
<1>2. PICK e \in Entry, b \in BOOLEAN :
        NewEntry(t, e) /\ task'[t] = Writing(t, e, b) /\ mem' = IF e.large THEN None ELSE e
  BY PublishIs
<1>3. task'[t].ent = e
  BY <1>1, <1>2, WritingFields
<1>4. KG' = genSeq + 1
  BY <1>1, BeginNextKey DEF Publish, KG
<1>5. /\ task'[t].pc = "write" /\ task'[t].gen = genSeq + 1 /\ task'[t].prev = KG
      /\ task'[t].era = purgeGen /\ task'[t].start = task[t].start /\ task'[t].seen = task[t].seen
      /\ task'[t].since = task[t].since /\ task'[t].after = task[t].after /\ task'[t].max = task[t].max
  BY <1>1, <1>2, WritingFields
<1>6. task[t].pc = "origin" /\ genSeq' = genSeq + 1 /\ UNCHANGED <<disk, barriers, counters>>
  BY DEF Publish, barriers
<1> QED BY <1>2, <1>3, <1>4, <1>5, <1>6

(* What is stored or carried after a step was before, or is new. *)
Created(t, e) == task'[t].pc = "write" /\ e = task'[t].ent /\ NewEntry(t, e)

LEMMA CarriedIs ==
  ASSUME Sound, NEW t \in Tasks, Act(t), Carries(t)'
  PROVE  Live(task'[t].ent) \/ Created(t, task'[t].ent)
<1>1. Arrives(t)
  BY ActArrives
<1>2. CASE task'[t].pc = "write"
  BY <1>1, <1>2, WriteIs DEF Arrives, Created
<1>3. CASE task'[t].pc = "evicted"
  <2>1. Evict(t)
    BY <1>1, <1>3 DEF Arrives
  <2> QED BY <2>1, EvictMoves DEF Live
<1>4. CASE task'[t].pc = "flush"
  <2>1. Flush(t)
    BY <1>1, <1>4 DEF Arrives
  <2>2. task[t].pc = "evicted" /\ task'[t].ent = task[t].ent
    BY <1>4, <2>1, FlushMoves, DoneFields
  <2> QED BY <2>2 DEF Live, Carries
<1>5. CASE task'[t].pc = "promote"
  <2>1. Read(t)
    BY <1>1, <1>5 DEF Arrives
  <2>2. task'[t].ent = item
    BY <1>5, <2>1, ReadMoves, DoneFields
  <2> QED BY <2>2 DEF Live
<1> QED BY <1>2, <1>3, <1>4, <1>5 DEF Carries

LEMMA LiveMove ==
  ASSUME Sound, NEW t \in Tasks, Act(t), TaskStep(t), MemMove(t), ItemMove(t), NEW e \in Entry, Live(e)'
  PROVE  Live(e) \/ Created(t, e)
<1>1. TypeOK /\ e # None
  BY NoneApart DEF Sound
<1>2. CASE e = mem'
  <2>1. mem' # None
    BY <1>1, <1>2
  <2>2. CASE mem' = mem
    BY <1>2, <2>2 DEF Live
  <2>3. CASE task'[t].pc = "write" /\ mem' = task'[t].ent
    BY <1>2, <2>3, CarriedIs DEF Carries
  <2>4. CASE task[t].pc = "promote" /\ mem' = task[t].ent
    BY <1>2, <2>4 DEF Live, Carries
  <2> QED BY <2>1, <2>2, <2>3, <2>4 DEF MemMove
<1>3. CASE e = item'
  BY <1>1, <1>3 DEF Live, ItemMove, Carries
<1>4. ASSUME NEW u \in Tasks, Carries(u)', e = task'[u].ent
      PROVE  Live(e) \/ Created(t, e)
  <2>1. CASE u = t
    BY <1>4, <2>1, CarriedIs
  <2>2. CASE u # t
    <3>1. task'[u] = task[u]
      BY <1>1, <2>2, TaskOthers
    <3> QED BY <1>4, <3>1 DEF Live, Carries
  <2> QED BY <2>1, <2>2
<1> QED BY <1>2, <1>3, <1>4 DEF Live

(* The generation of the key stays within the counter. *)
LEMMA KeyMoveBounds ==
  ASSUME Sound, NEW t \in Tasks, TaskStep(t), KeyMove(t), genSeq' \in {genSeq, genSeq + 1}
  PROVE  KG' \in 0 .. genSeq'
<1>1. genSeq \in Nat /\ KG \in 0 .. genSeq /\ task[t].prev \in 0 .. genSeq
  BY Types, KeyIsTyped, CallFields DEF Sound, Bounded
<1>2. keyGen' = None => KG' = 0
  BY NoKeyFields DEF KG
<1> QED BY <1>1, <1>2 DEF KeyMove

LEMMA GenSeqGrows ==
  ASSUME Sound, NEW t \in Tasks, Act(t)
  PROVE  /\ genSeq' \in {genSeq, genSeq + 1} /\ genSeq' \in Nat /\ genSeq \in Nat
         /\ purges' \in {purges, purges + 1} /\ deletes' \in {deletes, deletes + 1} /\ crashes' = crashes
         /\ owed' \in {owed, purges + 1} /\ purgeGen' \in {purgeGen, genSeq + 1}
         /\ purges' \in Nat /\ purges \in Nat /\ deletes' \in Nat /\ deletes \in Nat
<1>1. genSeq \in Nat /\ purges \in Nat /\ deletes \in Nat
  BY Types DEF Sound
<1>2. CASE \/ Begin(t) \/ Discard(t) \/ Publish(t) \/ Commit(t) \/ Refuse(t) \/ Restore(t) \/ Undo(t)
           \/ Check(t) \/ Unstore(t) \/ Drop(t) \/ Evict(t) \/ Flush(t)
  <2>1. genSeq' \in {genSeq, genSeq + 1} /\ purges' = purges /\ deletes' = deletes /\ crashes' = crashes
        /\ owed' = owed /\ purgeGen' = purgeGen
    BY <1>2 DEF Begin, Discard, Publish, Commit, Refuse, Restore, Undo, Check, Unstore, Drop, Evict, Flush,
                counters, purgeHistory, barriers
  <2> QED BY <1>1, <2>1
<1>3. CASE \/ Lookup(t) \/ Screen(t) \/ Probe(t) \/ Read(t) \/ Promote(t) \/ DeleteMem(t) \/ Batch(t) \/ Cancel(t)
           \/ Unlink(t) \/ Close(t) \/ CloseAll(t) \/ Prepare(t) \/ Retry(t) \/ DeleteDisk(t)
           \/ Wipe(t) \/ Crowd(t) \/ (\E c \in BOOLEAN : NotAccepted(t, c))
  <2>1. genSeq' \in {genSeq, genSeq + 1} /\ purges' = purges /\ deletes' = deletes /\ crashes' = crashes
        /\ owed' = owed /\ purgeGen' = purgeGen
    BY <1>3 DEF Lookup, Screen, Probe, Read, Promote, DeleteMem, Batch, Cancel, Unlink, Close, CloseAll, Prepare, Retry,
                DeleteDisk, Wipe, Crowd, NotAccepted, counters, purgeHistory, barriers
  <2> QED BY <1>1, <2>1
<1>4. CASE DeleteBegin(t)
  BY <1>1, <1>4 DEF DeleteBegin, purgeHistory, barriers
<1>5. CASE \E c \in BOOLEAN : Purge(t, c) \/ PurgeAll(t, c)
  BY <1>1, <1>5 DEF Purge, PurgeAll, Accept
<1> QED BY <1>2, <1>3, <1>4, <1>5 DEF Act

(* Counting the calls that pin the key. *)
LEMMA MovedCount ==
  ASSUME NEW S, IsFiniteSet(S), NEW A \in SUBSET S, NEW B \in SUBSET S, NEW t \in S,
         \A u \in S \ {t} : u \in A <=> u \in B
  PROVE  /\ Cardinality(A) \in Nat /\ Cardinality(B) \in Nat
         /\ Cardinality(B) + (IF t \in A THEN 1 ELSE 0) = Cardinality(A) + (IF t \in B THEN 1 ELSE 0)
<1>1. IsFiniteSet(A) /\ IsFiniteSet(B) /\ Cardinality(A) \in Nat /\ Cardinality(B) \in Nat
  BY FS_Subset, FS_CardinalityType
<1>2. CASE t \in A /\ t \in B
  <2>1. A = B
    BY <1>2
  <2> QED BY <1>1, <1>2, <2>1
<1>3. CASE t \notin A /\ t \notin B
  <2>1. A = B
    BY <1>3
  <2> QED BY <1>1, <1>3, <2>1
<1>4. CASE t \in A /\ t \notin B
  <2>1. B = A \ {t}
    BY <1>4
  <2>2. Cardinality(B) = Cardinality(A) - 1
    BY <1>1, <1>4, <2>1, FS_RemoveElement
  <2> QED BY <1>1, <1>4, <2>2
<1>5. CASE t \notin A /\ t \in B
  <2>1. B = A \cup {t}
    BY <1>5
  <2>2. Cardinality(B) = Cardinality(A) + 1
    BY <1>1, <1>5, <2>1, FS_AddElement
  <2> QED BY <1>1, <1>5, <2>2
<1> QED BY <1>2, <1>3, <1>4, <1>5

LEMMA Sums ==
  ASSUME NEW u \in Nat, NEW v \in Nat, NEW a \in Nat, NEW b \in Nat, NEW c \in Nat, NEW d \in Nat,
         NEW p \in {0, 1}, NEW q \in {0, 1}, NEW r \in {0, 1}, NEW s \in {0, 1},
         u = a + b, c + p = a + q, d + r = b + s, v + p + r = u + q + s
  PROVE  v = c + d
  OBVIOUS

LEMMA CatalogKept ==
  ASSUME Sound, NEW t \in Tasks, TaskStep(t), CatStep(t)
  PROVE  Catalog'
<1>1. TypeOK /\ Uses(keyGen) = Cardinality(Pinned) + Cardinality(Pinned2) /\ purgeGen' = purgeGen
  BY DEF Sound, Catalog, CatStep
<1>2. GoodKey(keyGen, mem)' /\ CatalogComplete'
  <2>1. GoodKey(keyGen', mem') /\ (mem' # None => keyGen' # None)
        /\ (item' # None /\ item'.gen > purgeGen => InDisk(keyGen'))
    BY DEF CatStep
  <2> QED BY <1>1, <2>1 DEF GoodKey, CatalogComplete, InDisk
<1>3. \A u \in Tasks \ {t} : task'[u] = task[u]
  BY <1>1, TaskOthers
<1>4. /\ Pinned' = {u \in Tasks : task'[u].era = purgeGen} /\ Pinned2' = {u \in Tasks : task'[u].era2 = purgeGen}
      /\ Pinned = {u \in Tasks : task[u].era = purgeGen} /\ Pinned2 = {u \in Tasks : task[u].era2 = purgeGen}
  BY <1>1 DEF Pinned, Pinned2
<1>5. /\ Pin(task[t].era) = (IF t \in Pinned THEN 1 ELSE 0) /\ Pin(task'[t].era) = (IF t \in Pinned' THEN 1 ELSE 0)
      /\ Pin(task[t].era2) = (IF t \in Pinned2 THEN 1 ELSE 0) /\ Pin(task'[t].era2) = (IF t \in Pinned2' THEN 1 ELSE 0)
  BY <1>4 DEF Pin
<1>6. /\ Cardinality(Pinned) \in Nat /\ Cardinality(Pinned') \in Nat
      /\ Cardinality(Pinned') + Pin(task[t].era) = Cardinality(Pinned) + Pin(task'[t].era)
  BY <1>3, <1>4, <1>5, MovedCount, CacheStoreAssumption
<1>7. /\ Cardinality(Pinned2) \in Nat /\ Cardinality(Pinned2') \in Nat
      /\ Cardinality(Pinned2') + Pin(task[t].era2) = Cardinality(Pinned2) + Pin(task'[t].era2)
  BY <1>3, <1>4, <1>5, MovedCount, CacheStoreAssumption
<1>8. Uses(keyGen') = Cardinality(Pinned') + Cardinality(Pinned2')
  <2>1. Uses(keyGen') + Pin(task[t].era) + Pin(task[t].era2) = Uses(keyGen) + Pin(task'[t].era) + Pin(task'[t].era2)
        /\ GoodKey(keyGen', mem')
    BY DEF CatStep
  <2>2. Uses(keyGen') \in Nat /\ Uses(keyGen) \in Nat
    BY <2>1, PinsHeld, KeyFields, NoKeyFields DEF GoodKey
  <2>3. Pin(task[t].era) \in {0, 1} /\ Pin(task'[t].era) \in {0, 1} /\ Pin(task[t].era2) \in {0, 1} /\ Pin(task'[t].era2) \in {0, 1}
    BY DEF Pin
  <2> QED BY <1>1, <1>6, <1>7, <2>1, <2>2, <2>3, Sums
<1> QED BY <1>2, <1>8 DEF Catalog
-----------------------------------------------------------------------------
(* Every step keeps the store sound.                                       *)
LEMMA OthersBounded ==
  ASSUME Sound, NEW t \in Tasks, Act(t), NEW u \in Tasks, task'[u] = task[u]
  PROVE  Bounded(task[u])'
<1>1. Bounded(task[u]) /\ task[u] \in Calls /\ CounterTypes /\ TypeOK /\ purgeGen \in Nat /\ purgeGen <= genSeq
  BY HaveTypes, Types DEF Sound, Counted
<1>2. /\ genSeq' \in {genSeq, genSeq + 1} /\ genSeq \in Nat /\ purges' \in {purges, purges + 1}
      /\ deletes' \in {deletes, deletes + 1} /\ owed' \in {owed, purges + 1} /\ purgeGen' \in {purgeGen, genSeq + 1}
  BY GenSeqGrows
<1>3. /\ task[u].start \in Nat /\ task[u].gen \in Nat /\ task[u].prev \in Nat /\ task[u].max \in Nat
      /\ task[u].seen \in Nat /\ task[u].since \in Nat /\ task[u].after \in Nat
  BY <1>1, CallFields
<1>4. owed \in Nat /\ purges \in Nat /\ deletes \in Nat /\ owed <= purges
  BY <1>1 DEF CounterTypes
<1>5. /\ task[u].start <= genSeq' /\ task[u].gen <= genSeq' /\ task[u].prev <= genSeq'
      /\ task[u].seen <= purges' /\ task[u].since <= owed' /\ task[u].after <= deletes'
  BY <1>1, <1>2, <1>3, <1>4 DEF Bounded
<1>6. task[u].max <= IF task[u].pc \in DeleteAt THEN deletes' ELSE genSeq'
  BY <1>1, <1>2, <1>3, <1>4 DEF Bounded
<1>7. task[u].era \in {None} \cup 0 .. purgeGen' /\ task[u].era2 \in {None} \cup 0 .. purgeGen'
  BY <1>1, <1>2 DEF Bounded
<1>8. task[u].pc = "hit" => task[u].ent.gen <= genSeq' /\ task[u].seen <= task[u].since
  <2>1. task[u].pc = "hit" => task[u].ent.gen \in Nat /\ task[u].ent.gen <= genSeq /\ task[u].seen <= task[u].since
    BY <1>1, CallFields, EntryFields DEF Bounded, Sound, Shaped
  <2> QED BY <1>2, <2>1
<1> QED BY <1>5, <1>6, <1>7, <1>8 DEF Bounded

LEMMA MakeSound ==
  ASSUME BarrierTypes', CounterTypes', purgeGen' \in Nat, purgeGen' <= genSeq',
         mem' \in Entry \cup {None}, item' \in Entry \cup {None}, left' \in Entry \cup {None},
         keyGen' \in KeyState \cup {None}, task' \in [Tasks -> Calls], KG' <= genSeq',
         \A t \in Tasks : Shaped(task'[t]) /\ Bounded(task[t])', Catalog',
         \A e \in Entry : Live(e)' => e.gen \in 1 .. genSeq' /\ e.seen <= purges' /\ e.pub <= deletes'
  PROVE  Sound'
<1>1. TypeOK'
  BY DEF TypeOK, BarrierTypes, CounterTypes, FencesUpTo
<1>2. Counted'
  BY DEF Counted, BarrierTypes, CounterTypes
<1> QED BY <1>1, <1>2 DEF Sound, BarrierTypes

LEMMA LiveBounded ==
  ASSUME Sound, NEW t \in Tasks, Act(t), TaskStep(t), MemMove(t), ItemMove(t), NEW e \in Entry, Live(e)'
  PROVE  e.gen \in 1 .. genSeq' /\ e.seen <= purges' /\ e.pub <= deletes'
<1>1. /\ genSeq' \in {genSeq, genSeq + 1} /\ genSeq' \in Nat /\ genSeq \in Nat
      /\ purges' \in {purges, purges + 1} /\ deletes' \in {deletes, deletes + 1}
      /\ purges' \in Nat /\ purges \in Nat /\ deletes' \in Nat /\ deletes \in Nat
  BY GenSeqGrows
<1>2. e.gen \in Nat /\ e.seen \in Nat /\ e.pub \in Nat
  BY EntryFields
<1>3. CASE Live(e)
  <2>1. e.gen \in 1 .. genSeq /\ e.seen <= purges /\ e.pub <= deletes
    BY <1>3 DEF Sound, Counted
  <2> QED BY <1>1, <1>2, <2>1
<1>4. CASE Created(t, e)
  <2>1. e.gen = genSeq + 1 /\ e.seen = task[t].seen /\ e.pub = deletes /\ task'[t].pc = "write"
    BY <1>4 DEF Created, NewEntry
  <2>2. Publish(t) /\ ~PublicationFenced(task[t].start)
    BY <2>1, ActArrives DEF Arrives
  <2>3. genSeq' = genSeq + 1
    BY <2>2, WriteIs
  <2>4. task[t].seen <= purges
    BY DEF Sound, Bounded
  <2> QED BY <1>1, <1>2, <2>1, <2>3, <2>4
<1> QED BY <1>3, <1>4, LiveMove

LEMMA MovedTypes ==
  ASSUME Sound, NEW t \in Tasks, TaskStep(t), CatStep(t)
  PROVE  /\ mem' \in Entry \cup {None} /\ item' \in Entry \cup {None} /\ left' \in Entry \cup {None}
         /\ keyGen' \in KeyState \cup {None} /\ purgeGen' \in Nat
<1>1. /\ mem \in Entry \cup {None} /\ item \in Entry \cup {None} /\ purgeGen \in Nat
      /\ task[t].ent \in Entry \cup {None} /\ task'[t].ent \in Entry \cup {None}
  BY Types, CallFields DEF Sound, TaskStep
<1> QED BY <1>1 DEF CatStep, MemMove, ItemMove, GoodKey

LEMMA ActSound ==
  ASSUME Sound, NEW t \in Tasks, Act(t), ~\E c \in BOOLEAN : PurgeAll(t, c)
  PROVE  Sound'
<1>1. /\ TaskStep(t) /\ CatStep(t) /\ BarrierTypes' /\ CounterTypes' /\ TypeOK
  BY ActTask, ActCat, ActBarriers, ActCounters DEF Sound
<1>2. KeyMove(t) /\ MemMove(t) /\ ItemMove(t) /\ purgeGen' = purgeGen
  BY <1>1 DEF CatStep
<1>3. Catalog'
  BY <1>1, CatalogKept
<1>4. \A e \in Entry : Live(e)' => e.gen \in 1 .. genSeq' /\ e.seen <= purges' /\ e.pub <= deletes'
  BY <1>1, <1>2, LiveBounded
<1>5. genSeq' \in {genSeq, genSeq + 1} /\ genSeq \in Nat /\ purgeGen \in Nat /\ purgeGen <= genSeq
  BY <1>1, GenSeqGrows, Types DEF Sound, Counted
<1>6. KG' <= genSeq' /\ purgeGen' <= genSeq'
  BY <1>1, <1>2, <1>5, KeyMoveBounds
<1>7. task' \in [Tasks -> Calls] /\ \A u \in Tasks \ {t} : task'[u] = task[u]
  BY <1>1, TaskOthers
<1>8. ASSUME NEW u \in Tasks PROVE Shaped(task'[u]) /\ Bounded(task[u])'
  <2>1. CASE u = t
    BY <1>1, <2>1 DEF TaskStep
  <2>2. CASE u # t
    <3>1. task'[u] = task[u]
      BY <1>7, <2>2
    <3> QED BY <3>1, OthersBounded DEF Sound
  <2> QED BY <2>1, <2>2
<1>9. /\ mem' \in Entry \cup {None} /\ item' \in Entry \cup {None} /\ left' \in Entry \cup {None}
      /\ keyGen' \in KeyState \cup {None} /\ purgeGen' \in Nat
  BY <1>1, MovedTypes
<1> QED BY <1>1, <1>3, <1>4, <1>6, <1>7, <1>8, <1>9, MakeSound

LEMMA PurgeAllSound ==
  ASSUME Sound, NEW t \in Tasks, NEW c \in BOOLEAN, PurgeAll(t, c)
  PROVE  Sound'
<1>1. Act(t)
  BY DEF Act
<1>2. /\ TaskStep(t) /\ BarrierTypes' /\ CounterTypes' /\ TypeOK
  BY <1>1, ActTask, ActBarriers, ActCounters DEF Sound
<1>3. /\ genSeq' = genSeq + 1 /\ purgeGen' = genSeq + 1 /\ keyGen' = None /\ mem' = None /\ item' = item /\ left' = left
  BY DEF PurgeAll, Accept
<1>4. genSeq \in Nat /\ purgeGen \in Nat /\ purgeGen <= genSeq /\ item \in Entry \cup {None} /\ left \in Entry \cup {None}
  BY <1>2, Types DEF Sound, Counted
<1>5. task' \in [Tasks -> Calls] /\ \A u \in Tasks \ {t} : task'[u] = task[u]
  BY <1>2, TaskOthers
<1>6. ASSUME NEW u \in Tasks PROVE Shaped(task'[u]) /\ Bounded(task[u])'
  <2>1. CASE u = t
    BY <1>2, <2>1 DEF TaskStep
  <2>2. CASE u # t
    <3>1. task'[u] = task[u]
      BY <1>5, <2>2
    <3> QED BY <1>1, <3>1, OthersBounded DEF Sound
  <2> QED BY <2>1, <2>2
<1>7. \A e \in Entry : Live(e)' => e.gen \in 1 .. genSeq' /\ e.seen <= purges' /\ e.pub <= deletes'
  BY <1>1, <1>2, <1>3, LiveBounded DEF MemMove, ItemMove
<1>8. Pinned' = {} /\ Pinned2' = {}
  <2>1. ASSUME NEW u \in Tasks PROVE task'[u].era # genSeq + 1 /\ task'[u].era2 # genSeq + 1
    <3>1. CASE u = t
      <4>1. task'[t].era = None /\ task'[t].era2 = None
        BY PurgeAllMoves, Zenon
      <4>2. genSeq + 1 \in Nat
        BY <1>4
      <4> QED BY <3>1, <4>1, <4>2, NoneApart
    <3>2. CASE u # t
      <4>1. task[u].era \in {None} \cup 0 .. purgeGen /\ task[u].era2 \in {None} \cup 0 .. purgeGen
        BY DEF Sound, Bounded
      <4> QED BY <1>4, <1>5, <3>2, <4>1, NoneApart
    <3> QED BY <3>1, <3>2
  <2> QED BY <1>3, <2>1 DEF Pinned, Pinned2
<1>9. Uses(keyGen') = Cardinality(Pinned') + Cardinality(Pinned2')
  BY <1>3, <1>8, NoKeyFields, FS_EmptySet
<1>10. item' = None \/ ~(item'.gen > purgeGen')
  BY <1>3, <1>4, LiveTyped
<1>11. Catalog'
  <2>1. GoodKey(keyGen, mem)'
    BY <1>3 DEF GoodKey
  <2>2. CatalogComplete'
    BY <1>3, <1>10 DEF CatalogComplete
  <2> QED BY <1>9, <2>1, <2>2 DEF Catalog
<1>12. KG' <= genSeq'
  BY <1>3, <1>4, NoKeyFields DEF KG
<1> QED BY <1>2, <1>3, <1>4, <1>5, <1>6, <1>7, <1>11, <1>12, MakeSound

LEMMA DiskActsSound ==
  ASSUME Sound, DiskEvict \/ Sweep
  PROVE  Sound'
<1>1. PICK t \in Tasks : TRUE
  BY CacheStoreAssumption
<1>2. UNCHANGED <<genSeq, mem, plan, intents, hw, barriers, task, counters>> /\ item' \in {item, None}
  BY DEF DiskEvict, Sweep
<1>3. CatStep(t) /\ TypeOK
  BY DiskActsCat DEF Sound
<1>4. TaskStep(t)
  <2>1. task' = [task EXCEPT ![t] = task'[t]] /\ task'[t] \in Calls
    BY <1>2, <1>3, Types
  <2>2. Shaped(task'[t]) /\ Bounded(task[t])'
    BY <1>2 DEF Sound, Bounded, counters, purgeHistory, barriers
  <2> QED BY <2>1, <2>2 DEF TaskStep
<1>5. Catalog'
  BY <1>3, <1>4, CatalogKept
<1>6. BarrierTypes' /\ CounterTypes'
  <2>1. BarrierTypes /\ CounterTypes
    BY HaveTypes
  <2>2. BarrierTypes'
    BY <1>2, <2>1 DEF BarrierTypes, barriers
  <2> QED BY <1>2, <2>1, <2>2 DEF CounterTypes, counters, purgeHistory
<1>7. \A u \in Tasks : Shaped(task'[u]) /\ Bounded(task[u])'
  BY <1>2 DEF Sound, Bounded, counters, purgeHistory, barriers
<1>8. \A e \in Entry : Live(e)' => e.gen \in 1 .. genSeq' /\ e.seen <= purges' /\ e.pub <= deletes'
  <2>1. ASSUME NEW e \in Entry, Live(e)' PROVE Live(e)
    BY <1>2, <2>1, NoneApart DEF Live, Carries
  <2> QED BY <1>2, <2>1 DEF Sound, Counted, counters, purgeHistory
<1>9. KG' <= genSeq' /\ purgeGen' <= genSeq'
  <2>1. KeyMove(t) /\ genSeq' = genSeq /\ purgeGen' = purgeGen
    BY <1>2, <1>3 DEF CatStep, barriers
  <2>2. KG' \in 0 .. genSeq'
    BY <1>4, <2>1, KeyMoveBounds
  <2>3. genSeq \in Nat /\ purgeGen <= genSeq
    BY <1>3, Types DEF Sound, Counted
  <2> QED BY <2>1, <2>2, <2>3
<1>10. /\ mem' \in Entry \cup {None} /\ item' \in Entry \cup {None} /\ left' \in Entry \cup {None}
       /\ keyGen' \in KeyState \cup {None} /\ purgeGen' \in Nat
  BY <1>3, <1>4, MovedTypes
<1>11. task' \in [Tasks -> Calls]
  BY <1>2, <1>3, Types
<1> QED BY <1>5, <1>6, <1>7, <1>8, <1>9, <1>10, <1>11, MakeSound

(* After a crash the calls are over, and only the file may be left. *)
LEMMA CrashIs ==
  ASSUME Sound, Crash
  PROVE  /\ task' \in [Tasks -> {Idle, Done}]
         /\ item' \in {item, None} /\ mem' = None /\ left' \in Entry \cup {None}
         /\ hw' \in {hw} \cup intents /\ hw' \in Nat /\ genSeq' \in Nat /\ hw' <= genSeq'
         /\ \A g \in {hw} \cup intents : g <= hw'
         /\ item' # None => item'.gen <= genSeq'
<1>1. TypeOK /\ BarrierTypes /\ item \in Entry \cup {None}
  BY HaveTypes, Types DEF Sound
<1>2. task' \in [Tasks -> {Idle, Done}]
  <2>1. ASSUME NEW t \in Tasks PROVE (IF task[t].pc = "idle" THEN task[t] ELSE Done) \in {Idle, Done}
    BY DEF Sound, Shaped
  <2> QED BY <2>1 DEF Crash
<1>3. item' \in {item, None} /\ mem' = None /\ left' \in Entry \cup {None}
  <2>1. item' \in {item, None} /\ mem' = None
    BY DEF Crash, Survivors
  <2>2. left' \in {None, item}
    BY DEF Crash
  <2> QED BY <1>1, <2>1, <2>2
<1>4. hw' \in {hw} \cup intents /\ \A g \in {hw} \cup intents : g <= hw'
  BY DEF Crash, Greatest
<1>5. hw' \in Nat
  BY <1>1, <1>4 DEF BarrierTypes
<1>6. item # None => item.gen \in Nat
  BY <1>1, Types, EntryFields
<1> DEFINE top == IF item = None THEN 0 ELSE item.gen
           more == IF item' = item THEN 0 ELSE 1
<1>7. top \in Nat /\ more \in {0, 1} /\ genSeq' = Larger(hw', top) + more
  BY <1>6 DEF Crash
<1>8. item' # None => item'.gen = top
  BY <1>3
<1> HIDE DEF top, more
<1>9. Larger(hw', top) \in Nat /\ hw' <= Larger(hw', top) /\ top <= Larger(hw', top)
  BY <1>5, <1>7, LargerIs
<1>10. genSeq' \in Nat /\ hw' <= genSeq' /\ top <= genSeq'
  BY <1>5, <1>7, <1>9
<1> QED BY <1>2, <1>3, <1>4, <1>5, <1>8, <1>10

(* What the purges that a start could not carry out leave behind. *)
LEMMA UnreconciledTypes ==
  ASSUME NEW n \in Nat, NEW rest \in SUBSET (1 .. n), intents \subseteq 0 .. n, Unreconciled(rest)
  PROVE  /\ plan' = rest /\ intents' \subseteq 0 .. n /\ ifloor' \subseteq rest
         /\ floor' \in Nat /\ floor' <= n /\ owedGen' \in Nat /\ owedGen' <= n
         /\ fences' \subseteq FencesUpTo(n) /\ IsFiniteSet(fences') /\ Cardinality(fences') <= MaxFences
<1>1. plan' = rest /\ intents' \subseteq 0 .. n
  BY DEF Unreconciled
<1>2. owedGen' \in Nat /\ owedGen' <= n
  BY DEF Unreconciled, Greatest
<1>3. PICK top \in SUBSET rest :
         /\ Cardinality(top) <= MaxFences
         /\ fences' = {[gen |-> g, active |-> FALSE, remaining |-> TRUE] : g \in top}
         /\ floor' \in Greatest((rest \ top) \cup {0}) /\ ifloor' = rest \ top
  BY DEF Unreconciled
<1>4. floor' \in Nat /\ floor' <= n /\ ifloor' \subseteq rest
  BY <1>3 DEF Greatest
<1>5. fences' \subseteq FencesUpTo(n)
  <2>1. ASSUME NEW g \in top PROVE [gen |-> g, active |-> FALSE, remaining |-> TRUE] \in FencesUpTo(n)
    BY DEF FencesUpTo, Fence
  <2> QED BY <1>3, <2>1
<1>6. IsFiniteSet(fences') /\ Cardinality(fences') <= MaxFences
  <2>1. IsFiniteSet(1 .. n)
    BY FS_Interval
  <2>2. IsFiniteSet(top) /\ Cardinality(top) \in Nat
    BY <2>1, SmallerSet
  <2> DEFINE f == [g \in top |-> [gen |-> g, active |-> FALSE, remaining |-> TRUE]]
  <2>3. f \in Surjection(top, fences')
    BY <1>3 DEF Surjection
  <2> HIDE DEF f
  <2>4. IsFiniteSet(fences') /\ Cardinality(fences') <= Cardinality(top)
    BY <2>2, <2>3, FS_Surjection
  <2>5. Cardinality(fences') \in Nat /\ MaxFences \in Nat
    BY <2>4, FS_CardinalityType, CacheStoreAssumption
  <2> QED BY <1>3, <2>2, <2>4, <2>5
<1> QED BY <1>1, <1>2, <1>3, <1>4, <1>5, <1>6

LEMMA CrashSound ==
  ASSUME Sound, Crash
  PROVE  Sound'
<1>1. TypeOK /\ BarrierTypes /\ CounterTypes /\ item \in Entry \cup {None}
  BY HaveTypes, Types DEF Sound
<1>2. /\ task' \in [Tasks -> {Idle, Done}]
      /\ item' \in {item, None} /\ mem' = None /\ left' \in Entry \cup {None}
      /\ hw' \in Nat /\ genSeq' \in Nat /\ hw' <= genSeq'
      /\ item' # None => item'.gen <= genSeq'
  BY CrashIs
<1>17. /\ purgeGen' = 0 /\ plan' \subseteq 1 .. genSeq' /\ intents' \subseteq 0 .. genSeq' /\ ifloor' \subseteq 1 .. genSeq'
       /\ floor' \in Nat /\ floor' <= genSeq' /\ owedGen' \in Nat /\ owedGen' <= genSeq'
       /\ fences' \subseteq FencesUpTo(genSeq') /\ IsFiniteSet(fences') /\ Cardinality(fences') <= MaxFences
  <2>1. PICK rest \in SUBSET (intents \ {0}) : Unreconciled(rest)
    BY DEF Crash
  <2>2. intents \subseteq Nat /\ \A g \in intents : g <= hw'
    BY <1>1, CrashIs DEF BarrierTypes
  <2>3. intents \subseteq 0 .. genSeq' /\ rest \subseteq 1 .. genSeq'
    BY <1>2, <2>2
  <2>4. purgeGen' = 0
    BY DEF Crash
  <2>5. /\ plan' = rest /\ intents' \subseteq 0 .. genSeq' /\ ifloor' \subseteq rest
        /\ floor' \in Nat /\ floor' <= genSeq' /\ owedGen' \in Nat /\ owedGen' <= genSeq'
        /\ fences' \subseteq FencesUpTo(genSeq') /\ IsFiniteSet(fences') /\ Cardinality(fences') <= MaxFences
    BY <1>2, <2>1, <2>3, UnreconciledTypes, Zenon
  <2> QED BY <2>3, <2>4, <2>5
<1>3. BarrierTypes'
  BY <1>2, <1>17 DEF BarrierTypes
<1>4. CounterTypes'
  <2>1. /\ crashes' = crashes + 1 /\ owed' = durable /\ durableGen' = 0 /\ ended' = durable
        /\ UNCHANGED <<purges, durable, deletes, deleted, rolled, passed>>
    BY DEF Crash
  <2> QED BY <1>1, <1>2, <1>17, <2>1 DEF CounterTypes
<1>5. \A u \in Tasks : /\ task'[u] \in Calls /\ Shaped(task'[u]) /\ task'[u].era = None /\ task'[u].era2 = None
                       /\ task'[u].pc \in {"idle", "done"}
  BY <1>2, IdleCall, IdleShaped, IdleFields, DoneFields
<1>6. \A u \in Tasks : Bounded(task[u])'
  <2>1. genSeq' \in Nat /\ purges' \in Nat /\ owed' \in Nat /\ deletes' \in Nat
    BY <1>2, <1>4 DEF CounterTypes
  <2> QED BY <1>2, <2>1, IdleFields, DoneFields DEF Bounded, DeleteAt
<1>7. item' # None => item' \in Entry /\ item'.gen \in 1 .. genSeq' /\ item'.seen <= purges' /\ item'.pub <= deletes'
  <2>1. item' # None => item' = item /\ item # None
    BY <1>2
  <2>2. item # None => item \in Entry /\ item.gen \in 1 .. genSeq /\ item.seen <= purges /\ item.pub <= deletes
    BY LiveTyped
  <2>3. purges' = purges /\ deletes' = deletes /\ genSeq \in Nat
    BY <1>1 DEF Crash, BarrierTypes
  <2> QED BY <1>2, <2>1, <2>2, <2>3, EntryFields
<1>8. \A e \in Entry : Live(e)' => e.gen \in 1 .. genSeq' /\ e.seen <= purges' /\ e.pub <= deletes'
  <2>1. ASSUME NEW e \in Entry, Live(e)' PROVE e = item' /\ item' # None
    BY <1>2, <1>5, <2>1, NoneApart DEF Live, Carries
  <2> QED BY <1>7, <2>1
<1> DEFINE g == IF item' = None THEN genSeq' ELSE item'.gen
<1>9. /\ keyGen' = IF item' = None /\ left' = None THEN None
                   ELSE [gen |-> g, inflight |-> 0, inDisk |-> TRUE, era |-> 0]
      /\ g \in Nat /\ g <= genSeq'
  BY <1>2, <1>7 DEF Crash
<1> HIDE DEF g
<1>10. /\ keyGen' \in KeyState \cup {None} /\ (keyGen' = None => item' = None)
       /\ keyGen' # None => keyGen'.gen = g /\ keyGen'.inflight = 0 /\ keyGen'.inDisk /\ keyGen'.era = 0
  <2>1. CASE item' = None /\ left' = None
    BY <1>9, <2>1
  <2>2. CASE ~(item' = None /\ left' = None)
    <3>1. [gen |-> g, inflight |-> 0, inDisk |-> TRUE, era |-> 0] \in KeyState
      BY <1>9 DEF KeyState
    <3> QED BY <1>9, <2>2, <3>1, NoneApart
  <2> QED BY <2>1, <2>2
<1>11. KG' <= genSeq'
  BY <1>2, <1>9, <1>10 DEF KG, GenOf
<1>12. Uses(keyGen') = 0
  BY <1>10 DEF Uses
<1>13. Pinned' = {} /\ Pinned2' = {}
  BY <1>5, <1>17, NoneApart DEF Pinned, Pinned2
<1>14. Catalog'
  <2>1. Uses(keyGen)' = Cardinality(Pinned)' + Cardinality(Pinned2)'
    BY <1>12, <1>13, FS_EmptySet DEF Uses
  <2>2. GoodKey(keyGen, mem)' /\ CatalogComplete'
    BY <1>2, <1>10, <1>17 DEF GoodKey, CatalogComplete
  <2> QED BY <2>1, <2>2 DEF Catalog
<1>15. task' \in [Tasks -> Calls]
  BY <1>2, <1>5
<1>16. purgeGen' \in Nat /\ purgeGen' <= genSeq'
  BY <1>2, <1>17
<1> QED BY <1>1, <1>2, <1>3, <1>4, <1>5, <1>6, <1>8, <1>10, <1>11, <1>14, <1>15, <1>16, MakeSound

LEMMA InitSound ==
  ASSUME Init
  PROVE  Sound
<1> DEFINE e == [Stored EXCEPT !.large = TRUE]
<1>1. Stored \in Entry /\ Stored.gen = 2 /\ Stored.seen = 0 /\ Stored.pub = 0
  BY DEF Stored, Entry
<1>2. e \in Entry /\ e.gen = 2 /\ e.seen = 0 /\ e.pub = 0
  BY DEF Stored, Entry
<1> HIDE DEF e
<1>3. /\ mem \in Entry \cup {None} /\ item \in Entry \cup {None}
      /\ \A x \in {mem, item} : x # None => x.gen = 2 /\ x.seen = 0 /\ x.pub = 0
  BY <1>1, <1>2 DEF Init, e
<1>4. genSeq = (IF mem = None /\ item = None THEN 0 ELSE 2) /\ genSeq \in Nat
  BY DEF Init
<1>5. \A t \in Tasks : task[t] = Idle
  BY DEF Init
<1>6. task \in [Tasks -> Calls]
  BY IdleCall DEF Init
<1>7. /\ keyGen \in KeyState \cup {None} /\ (keyGen = None <=> mem = None /\ item = None)
      /\ keyGen # None => keyGen.gen = 2 /\ keyGen.inflight = 0 /\ (keyGen.inDisk <=> item # None) /\ keyGen.era = 0
  <2>1. CASE mem = None /\ item = None
    BY <2>1 DEF Init
  <2>2. CASE ~(mem = None /\ item = None)
    <3>1. keyGen = [gen |-> 2, inflight |-> 0, inDisk |-> item # None, era |-> 0]
      BY <2>2 DEF Init
    <3>2. keyGen \in KeyState
      BY <3>1 DEF KeyState
    <3> QED BY <2>2, <3>1, <3>2, NoneApart
  <2> QED BY <2>1, <2>2
<1>8. /\ purgeGen = 0 /\ left = None /\ plan = {} /\ intents = {} /\ hw = 0 /\ fences = {} /\ floor = 0 /\ ifloor = {}
      /\ purges = 0 /\ durable = 0 /\ owed = 0 /\ durableGen = 0 /\ owedGen = 0 /\ ended = 0
      /\ deletes = 0 /\ deleted = 0 /\ rolled = FALSE /\ passed = FALSE /\ crashes = 0
  BY DEF Init
<1>9. IsFiniteSet(fences) /\ Cardinality(fences) <= MaxFences
  BY <1>8, FS_EmptySet, CacheStoreAssumption
<1>10. TypeOK
  <2>1. /\ {genSeq, purgeGen, hw, floor} \subseteq Nat
        /\ {purges, durable, owed, durableGen, owedGen, ended, deletes, deleted, crashes} \subseteq Nat
    BY <1>4, <1>8
  <2>4. {rolled, passed} \subseteq BOOLEAN
    BY <1>8
  <2>2. plan \subseteq 1 .. genSeq /\ intents \subseteq 0 .. genSeq /\ ifloor \subseteq 1 .. genSeq
        /\ fences \subseteq {f \in Fence : f.gen \in 1 .. genSeq}
    BY <1>8
  <2>3. {mem, item, left} \subseteq Entry \cup {None}
    BY <1>3, <1>8
  <2> QED BY <1>6, <1>7, <1>9, <2>1, <2>2, <2>3, <2>4 DEF TypeOK
<1>11. \A t \in Tasks : Shaped(task[t]) /\ Bounded(task[t])
  BY <1>4, <1>5, <1>8, IdleShaped, IdleFields DEF Bounded, DeleteAt
<1>12. Counted
  <2>1. KG <= genSeq
    BY <1>4, <1>7 DEF KG, GenOf
  <2>2. ASSUME NEW x \in Entry, Live(x) PROVE x.gen \in 1 .. genSeq /\ x.seen <= purges /\ x.pub <= deletes
    <3>1. x \in {mem, item} /\ x # None
      BY <1>5, <2>2, IdleFields, NoneApart DEF Live, Carries
    <3> QED BY <1>3, <1>4, <1>8, <3>1
  <2> QED BY <1>4, <1>8, <2>1, <2>2 DEF Counted
<1>13. Catalog
  <2>1. Pinned = {} /\ Pinned2 = {}
    BY <1>5, <1>8, IdleFields, NoneApart DEF Pinned, Pinned2
  <2>2. Uses(keyGen) = Cardinality(Pinned) + Cardinality(Pinned2)
    BY <1>7, <2>1, FS_EmptySet DEF Uses
  <2> QED BY <1>7, <1>8, <2>2 DEF Catalog, GoodKey, CatalogComplete
<1> QED BY <1>9, <1>10, <1>11, <1>12, <1>13 DEF Sound

LEMMA StutterSound ==
  ASSUME Sound, UNCHANGED vars
  PROVE  Sound'
<1>1. TypeOK' /\ IsFiniteSet(fences)'
  BY DEF Sound, vars, disk, barriers, counters, purgeHistory, TypeOK
<1>2. Counted'
  BY DEF Sound, vars, disk, barriers, counters, purgeHistory, Counted, KG, Live, Carries
<1>3. Catalog'
  BY DEF Sound, vars, disk, barriers, counters, purgeHistory, Catalog, GoodKey, Pinned, Pinned2, CatalogComplete
<1>4. \A t \in Tasks : Shaped(task[t])' /\ Bounded(task[t])'
  BY DEF Sound, vars, disk, barriers, counters, purgeHistory, Bounded
<1> QED BY <1>1, <1>2, <1>3, <1>4 DEF Sound

LEMMA NextSound ==
  ASSUME Sound, [Next]_vars
  PROVE  Sound'
<1>1. CASE UNCHANGED vars
  BY <1>1, StutterSound
<1>2. ASSUME NEW t \in Tasks, Act(t) PROVE Sound'
  BY <1>2, ActSound, PurgeAllSound
<1> QED BY <1>1, <1>2, DiskActsSound, CrashSound DEF Next, Act

LEMMA AlwaysSound == Spec => []Sound
<1>1. Init => Sound
  BY InitSound
<1>2. Sound /\ [Next]_vars => Sound'
  BY NextSound
<1> QED BY <1>1, <1>2, PTL DEF Spec

LEMMA SoundCounts ==
  ASSUME Sound
  PROVE  CatalogExact
<1>1. TypeOK /\ CatalogComplete
  BY DEF Sound, Catalog
<1>2. PinsCounted
  BY DEF Sound, Catalog, GoodKey, Uses, Pinned, Pinned2, PinsCounted
<1> QED BY <1>1, <1>2 DEF CatalogExact

(* The catalog of generations is exact: its types hold, it knows of every  *)
(* entry in memory and of every file that no purge of everything covers,   *)
(* and keyGenState.inflight is the number of calls that pin it, so that    *)
(* finishKeyOp and setKeyDiskState never reclaim a state in use.           *)
THEOREM CacheStoreCatalogExact == Spec => []CatalogExact
<1>1. Sound => CatalogExact
  BY SoundCounts
<1> QED BY <1>1, AlwaysSound, PTL
-----------------------------------------------------------------------------
(* A purge's cutoff and what is newer.                                     *)
PurgeAt == ScopedAt \cup AllAt

LEMMA PurgeStays ==
  ASSUME Sound, NEW t \in Tasks, Act(t), task'[t].pc \in PurgeAt
  PROVE  \/ /\ task[t].pc \in PurgeAt /\ task'[t].max = task[t].max
            /\ task'[t].since = task[t].since /\ task'[t].flag = task[t].flag
         \/ /\ task[t].pc = "idle" /\ task'[t].since = purges + 1 /\ task'[t].max = genSeq + 1
            /\ \E c \in BOOLEAN : Purge(t, c) \/ PurgeAll(t, c)
         \/ task'[t].since = 0 /\ Retry(t)
<1>1. Arrives(t)
  BY ActArrives
<1>2. CASE \E c \in BOOLEAN : Purge(t, c)
  BY <1>2, PurgeMoves
<1>3. CASE \E c \in BOOLEAN : PurgeAll(t, c)
  BY <1>3, PurgeAllMoves
<1>4. CASE Retry(t)
  <2>1. PICK f \in fences : task'[t] = [Idle EXCEPT !.pc = "prepare", !.max = f.gen, !.flag = TRUE,
                                           !.rest = Held /\ keyGen.gen <= f.gen]
    BY <1>4, BecomeMoves DEF Retry, Sound
  <2>2. task'[t].since = 0
    BY <2>1, IdleCall, IdleFields DEF Calls
  <2> QED BY <1>4, <2>2
<1>5. CASE Prepare(t)
  BY <1>5, PrepareMoves DEF PurgeAt, ScopedAt, AllAt
<1>6. CASE Batch(t)
  BY <1>6, BatchMoves DEF PurgeAt, ScopedAt
<1>7. CASE Cancel(t)
  BY <1>7, CancelMoves DEF PurgeAt, ScopedAt
<1>8. CASE Unlink(t)
  BY <1>8, UnlinkMoves DEF PurgeAt, ScopedAt, AllAt
<1> QED BY <1>1, <1>2, <1>3, <1>4, <1>5, <1>6, <1>7, <1>8 DEF Arrives, PurgeAt, ScopedAt, AllAt

(* PurgeAll is a step of the tiers too. *)
LEMMA ActTiers ==
  ASSUME Sound, NEW t \in Tasks, Act(t)
  PROVE  TaskStep(t) /\ MemMove(t) /\ ItemMove(t)
<1>1. CASE \E c \in BOOLEAN : PurgeAll(t, c)
  BY <1>1, ActTask DEF PurgeAll, Accept, MemMove, ItemMove
<1>2. CASE ~\E c \in BOOLEAN : PurgeAll(t, c)
  BY <1>2, ActTask, ActCat DEF CatStep
<1> QED BY <1>1, <1>2

LEMMA ActNewer ==
  ASSUME Sound, Newer, NEW t \in Tasks, Act(t)
  PROVE  Newer'
<1>1. TaskStep(t) /\ MemMove(t) /\ ItemMove(t) /\ TypeOK
  BY ActTiers DEF Sound
<1>2. ASSUME NEW u \in Tasks, task'[u].pc \in PurgeAt, task'[u].since # 0, NEW e \in Entry, Live(e)', e.seen >= task'[u].since
      PROVE  e.gen > task'[u].max
  <2>1. e.gen \in Nat /\ e.seen \in Nat /\ genSeq \in Nat /\ purges \in Nat
    BY <1>1, EntryFields, Types
  <2>2. Live(e) \/ Created(t, e)
    BY <1>1, <1>2, LiveMove
  <2>3. \A v \in Tasks : task[v].pc \in PurgeAt => task[v].max \in Nat /\ task[v].max <= genSeq
    BY <1>1, Types, CallFields DEF Sound, Bounded, PurgeAt, ScopedAt, AllAt, DeleteAt
  <2>4. ASSUME NEW v \in Tasks, task[v].pc \in PurgeAt, task'[u].max = task[v].max, task'[u].since = task[v].since
        PROVE  e.gen > task'[u].max
    <3>1. CASE Live(e)
      BY <1>2, <2>4, <3>1 DEF Newer, PurgeAt
    <3>2. CASE Created(t, e)
      BY <2>1, <2>3, <2>4, <3>2 DEF Created, NewEntry
    <3> QED BY <2>2, <3>1, <3>2
  <2>5. CASE u # t
    <3>1. task'[u] = task[u]
      BY <1>1, <2>5, TaskOthers
    <3> QED BY <1>2, <2>4, <3>1
  <2>6. CASE u = t
    <3>1. CASE task[t].pc \in PurgeAt /\ task'[t].max = task[t].max /\ task'[t].since = task[t].since
      BY <2>4, <2>6, <3>1
    <3>2. CASE task'[t].since = purges + 1
      <4>1. ~Created(t, e)
        BY <1>2, <2>6 DEF Created, PurgeAt, ScopedAt, AllAt
      <4>2. e.seen <= purges
        BY <2>2, <4>1 DEF Sound, Counted
      <4> QED BY <1>2, <2>1, <2>6, <3>2, <4>2
    <3> QED BY <1>2, <2>6, <3>1, <3>2, PurgeStays
  <2> QED BY <2>5, <2>6
<1> QED BY <1>2 DEF Newer, PurgeAt

LEMMA NextNewer ==
  ASSUME Sound, Newer, [Next]_vars
  PROVE  Newer'
<1>1. CASE UNCHANGED vars
  BY <1>1 DEF vars, disk, Newer, Live, Carries
<1>2. CASE DiskEvict \/ Sweep
  <2>1. task' = task /\ mem' = mem /\ item' \in {item, None}
    BY <1>2 DEF DiskEvict, Sweep
  <2>2. ASSUME NEW e \in Entry, Live(e)' PROVE Live(e)
    BY <2>1, <2>2, NoneApart DEF Live, Carries
  <2> QED BY <2>1, <2>2 DEF Newer
<1>3. CASE Crash
  <2>1. \A t \in Tasks : task'[t].pc \in {"idle", "done"}
    BY <1>3, CrashIs, IdleFields, DoneFields
  <2> QED BY <2>1 DEF Newer, ScopedAt, AllAt
<1> QED BY <1>1, <1>2, <1>3, ActNewer DEF Next, Act

LEMMA NewerSpared ==
  ASSUME Sound, Newer, [Next]_vars, NEW t \in Tasks, task[t].pc \in {"batch", "unlink", "unlinkall"}, task[t].since # 0,
         task'[t] # task[t], crashes' = crashes
  PROVE  Spared(mem, mem', t) /\ Spared(item, item', t)
<1>1. TypeOK /\ task[t].max \in Nat /\ task[t].since \in Nat
  BY Types, CallFields DEF Sound
<1>2. Act(t)
  <2>1. ASSUME NEW u \in Tasks, Act(u) PROVE u = t
    BY <1>1, <2>1, ActTask, TaskOthers
  <2>2. ~Crash
    BY <1>1, Types DEF Crash
  <2>3. task' # task
    BY SMTT(30)
  <2> QED BY <2>1, <2>2, <2>3 DEF Next, Act, DiskEvict, Sweep, vars
<1>3. Batch(t) \/ Cancel(t) \/ Unlink(t)
  BY <1>2 DEF Act, Begin, Discard, Publish, Commit, Refuse, Restore, Undo, Check, Unstore, Drop, Evict, Flush, Lookup,
              Screen, Probe, Read, Promote, DeleteBegin, DeleteMem, DeleteDisk, Purge, PurgeAll, Accept, NotAccepted,
              Wipe, Prepare, Close, CloseAll, Retry, Crowd
<1>4. ASSUME NEW e \in {mem, item}, e # None, e.gen <= task[t].max PROVE e.seen < task[t].since
  <2>1. e \in Entry /\ Live(e)
    BY <1>1, <1>4, Types DEF Live
  <2>2. e.gen \in Nat /\ e.seen \in Nat
    BY <2>1, EntryFields
  <2> QED BY <1>1, <1>4, <2>1, <2>2 DEF Newer, ScopedAt, AllAt
<1>5. mem' = mem \/ (mem # None /\ mem.gen <= task[t].max)
  BY <1>3 DEF Batch, Cancel, Unlink
<1>6. item' = item \/ (item # None /\ item.gen <= task[t].max)
  <2>1. item # None => item.gen \in Nat
    BY <1>1, Types, EntryFields
  <2> QED BY <1>1, <1>3, <2>1 DEF Batch, Cancel, Unlink, DropUpTo, disk
<1> QED BY <1>4, <1>5, <1>6 DEF Spared

(* A purge spares what is newer: in the steps that empty memory, catalog   *)
(* and disk (purgeBatch), a scoped or full purge removes no entry whose    *)
(* origin work began after the purge was accepted, however many calls      *)
(* publish between the steps.                                              *)
THEOREM CacheStorePurgeSparesNewer == Spec => PurgeSparesNewer
<1>1. Init => Newer
  <2>1. ASSUME Init PROVE \A t \in Tasks : task[t].pc = "idle"
    BY <2>1, IdleFields DEF Init
  <2> QED BY <2>1 DEF Newer, ScopedAt, AllAt
<1>2. Sound /\ Newer /\ [Next]_vars => Newer'
  BY NextNewer
<1>3. Sound /\ Newer /\ [Next]_vars =>
        [\A t \in Tasks :
           task[t].pc \in {"batch", "unlink", "unlinkall"} /\ task[t].since # 0
             /\ task'[t] # task[t] /\ crashes' = crashes
           => Spared(mem, mem', t) /\ Spared(item, item', t)]_vars
  BY NewerSpared
<1> QED BY <1>1, <1>2, <1>3, AlwaysSound, PTL DEF Spec, PurgeSparesNewer
-----------------------------------------------------------------------------
(* The order of the publications, and memory against disk.                 *)
Published(t) ==
    /\ task[t].pc = "origin" /\ task'[t].pc = "write"
    /\ NewEntry(t, task'[t].ent) /\ task'[t].gen = genSeq + 1 /\ task'[t].prev = KG /\ task'[t].era = purgeGen
    /\ genSeq' = genSeq + 1 /\ KG' = genSeq + 1
    /\ mem' = (IF task'[t].ent.large THEN None ELSE task'[t].ent) /\ item' = item

OtherCarry == {"evicted", "flush", "promote"}
OrderStep(t) ==
    /\ task'[t].pc = "write" => (task'[t] = task[t] /\ KG' \in {KG, 0} /\ mem' \in {mem, None}) \/ Published(t)
    /\ task'[t].pc \in OtherCarry =>
          \/ mem # None /\ task'[t].ent = mem
          \/ item # None /\ task'[t].ent = item
          \/ task[t].pc \in OtherCarry /\ task'[t].ent = task[t].ent
    /\ task'[t].pc = "promote" => task'[t] = task[t] \/ (task'[t].ent = item /\ item' = item)
    /\ item' \notin {item, None} => task'[t].pc # "write"
    /\ task[t].pc = "write" /\ ~task[t].ent.large /\ task'[t].pc # "write" /\ item' # None => item'.gen >= task[t].gen

LEMMA ActOrder ==
  ASSUME Sound, NEW t \in Tasks, Act(t)
  PROVE  OrderStep(t)
<1>1. Arrives(t) /\ TypeOK /\ task[t] \in Calls /\ Shaped(task[t])
  BY ActArrives, Types DEF Sound
<1>2. task'[t].pc = "write" => Published(t)
  BY <1>1, WriteIs DEF Arrives, Published, disk
<1>3. task'[t].pc = "promote" => task'[t].ent = item /\ item' = item /\ item # None
  <2>1. ASSUME task'[t].pc = "promote" PROVE task'[t].ent = item /\ item' = item /\ item # None
    <3>1. Read(t)
      BY <1>1, <2>1 DEF Arrives
    <3>2. task'[t] # Done
      BY <2>1, DoneFields
    <3>3. task'[t].ent = item /\ item # None
      BY <3>1, <3>2, ReadMoves
    <3>4. item' = item
      BY <1>1, <3>1, <3>2, BecomeMoves DEF Read
    <3> QED BY <3>3, <3>4
  <2> QED BY <2>1
<1>4. task'[t].pc = "evicted" => task'[t].ent = mem /\ mem # None
  <2>1. ASSUME Evict(t) PROVE task'[t].ent = mem /\ mem # None
    BY <2>1, EvictMoves
  <2> QED BY <1>1, <2>1 DEF Arrives
<1>5. task'[t].pc = "flush" => task[t].pc = "evicted" /\ task'[t].ent = task[t].ent
  <2>1. ASSUME Flush(t), task'[t].pc = "flush" PROVE task[t].pc = "evicted" /\ task'[t].ent = task[t].ent
    BY <2>1, FlushMoves, DoneFields
  <2> QED BY <1>1, <2>1 DEF Arrives
<1>6. ASSUME task[t].pc = "write", ~task[t].ent.large, item' # None PROVE item'.gen >= task[t].gen
  <2>1. Commit(t) \/ Undo(t)
    BY <1>6 DEF Act, Begin, Discard, Publish, Refuse, Restore, Check, Unstore, Drop, Evict, Flush, Lookup,
                Screen, Probe, Read, Promote, DeleteBegin, DeleteMem, DeleteDisk, Purge, PurgeAll, Accept, NotAccepted,
                Wipe, Prepare, Batch, Cancel, Unlink, Close, CloseAll, Retry, Crowd
  <2>2. task[t].gen \in Nat /\ task[t].ent.gen = task[t].gen
    BY <1>1, <1>6, CallFields DEF Shaped
  <2>3. CASE Commit(t)
    BY <2>2, <2>3 DEF Commit
  <2>4. CASE Undo(t)
    <3>1. DropUpTo(task[t].gen - 1) /\ task[t].gen - 1 \in Int
      BY <2>2, <2>4 DEF Undo
    <3>2. item' = item /\ item.gen > task[t].gen - 1
      BY <1>6, <3>1, DropKey
    <3>3. item \in Entry
      BY <1>1, <1>6, <3>2, Types
    <3> QED BY <2>2, <3>2, <3>3, EntryFields
  <2> QED BY <2>1, <2>3, <2>4
<1>7. item' \notin {item, None} => task'[t].pc # "write"
  BY <1>2 DEF Published
<1> QED BY <1>2, <1>3, <1>4, <1>5, <1>6, <1>7 DEF OrderStep, OtherCarry

(* What is known of the numbers. *)
LEMMA WriteNumbers ==
  ASSUME Sound, NEW u \in Tasks
  PROVE  /\ genSeq \in Nat /\ purgeGen \in Nat /\ purgeGen <= genSeq /\ KG \in Nat /\ KG <= genSeq
         /\ task[u].gen \in Nat /\ task[u].gen <= genSeq /\ task[u].prev \in Nat /\ task[u].prev <= genSeq
         /\ task[u].pc = "write" => task[u].prev < task[u].gen /\ task[u].ent.gen = task[u].gen
         /\ task[u].pc \in OtherCarry \cup {"write"} => task[u].ent.gen \in Nat /\ task[u].ent.gen <= genSeq /\ task[u].ent.gen >= 1
         /\ mem # None => mem.gen \in Nat /\ mem.gen <= genSeq /\ mem.gen >= 1
         /\ item # None => item.gen \in Nat /\ item.gen <= genSeq /\ item.gen >= 1
<1>1. TypeOK /\ Counted /\ Shaped(task[u]) /\ Bounded(task[u]) /\ task[u] \in Calls
  BY Types DEF Sound
<1>2. genSeq \in Nat /\ purgeGen \in Nat /\ purgeGen <= genSeq /\ KG \in Nat /\ KG <= genSeq
  BY <1>1, Types, KeyIsTyped DEF Counted
<1>3. task[u].gen \in Nat /\ task[u].gen <= genSeq /\ task[u].prev \in Nat /\ task[u].prev <= genSeq
  BY <1>1, CallFields DEF Bounded
<1>4. task[u].pc \in OtherCarry \cup {"write"} => Carries(u)
  BY DEF Carries, OtherCarry
<1>5. /\ task[u].pc \in OtherCarry \cup {"write"} => task[u].ent.gen \in 1 .. genSeq
      /\ mem # None => mem.gen \in 1 .. genSeq
      /\ item # None => item.gen \in 1 .. genSeq
  BY <1>4, LiveTyped
<1> QED BY <1>1, <1>2, <1>3, <1>5 DEF Shaped

(* Whoever pins the key keeps it in the catalog. *)
LEMMA WritersPin ==
  ASSUME Sound, NEW u \in Tasks, Writes(u)
  PROVE  keyGen # None
<1>1. Pin(task[u].era) + Pin(task[u].era2) <= Uses(keyGen) /\ Pin(task[u].era2) \in {0, 1} /\ Pin(task[u].era) = 1 /\ Uses(keyGen) \in Nat
  BY PinsHeld DEF Writes, Pin
<1> QED BY <1>1, NoKeyFields

LEMMA WritersPinAll == Sound => \A u \in Tasks : Writes(u) => keyGen # None
  BY WritersPin

LEMMA RestoreLeaves ==
  ASSUME Sound, NEW t \in Tasks, Restore(t), TakesBack(t)
  PROVE  WritesLarge(t) /\ KG = task[t].gen /\ task'[t].pc # "write" /\ mem' = mem /\ item' = item
<1>1. TypeOK /\ GoodKey(keyGen, mem)
  BY InTheCatalog DEF Sound
<1>2. task[t].pc = "write" /\ task[t].ent.large /\ task[t].era = purgeGen /\ KG = task[t].gen
  BY <1>1 DEF Restore, TakesBack, GoodKey, KG, GenOf
<1>3. task'[t].pc # "write"
  BY <1>1, RestoreMoves, StoodFields
<1> QED BY <1>2, <1>3 DEF Restore, disk, WritesLarge, Writes

(* The key's generation is 0, new, what it was, or what a publication took *)
(* it from.                                                                *)
LEMMA KeyGoes ==
  ASSUME Sound, NEW t \in Tasks, KeyMove(t), OrderStep(t)
  PROVE  \/ KG' = KG
         \/ keyGen' = None /\ KG' = 0 /\ mem' = None
         \/ KG' = genSeq + 1 /\ (Published(t) \/ mem' = None \/ (mem' = mem /\ mem.gen # KG))
         \/ WritesLarge(t) /\ KG = task[t].gen /\ KG' = task[t].prev /\ task'[t].pc # "write" /\ mem' = mem /\ item' = item
<1>1. KG \in Nat /\ genSeq \in Nat /\ KG <= genSeq
  BY WriteNumbers
<1>2. keyGen' = None => KG' = 0
  BY NoKeyFields DEF KG
<1>3. CASE Restore(t) /\ TakesBack(t) /\ KG' = task[t].prev
  BY <1>3, RestoreLeaves
<1>4. CASE KG' = genSeq + 1 /\ genSeq' = genSeq + 1 /\ task'[t].pc = "write"
  BY <1>1, <1>4 DEF OrderStep
<1> QED BY <1>2, <1>3, <1>4 DEF KeyMove

LEMMA OrderedKept ==
  ASSUME Sound, Sound', Ordered, NEW t \in Tasks, TaskStep(t), CatStep(t), OrderStep(t)
  PROVE  Ordered'
<1> USE DEF OtherCarry
<1>1. /\ TypeOK /\ KeyMove(t) /\ MemMove(t) /\ ItemMove(t) /\ purgeGen' = purgeGen
      /\ Chained /\ Alone /\ Filed /\ Tiers
  BY DEF Sound, CatStep, Ordered
<1>2. \A u \in Tasks \ {t} : task'[u] = task[u]
  BY <1>1, TaskOthers
<1>3. \A u \in Tasks : task'[u].pc = "write" => task'[u] = task[u] \/ (u = t /\ Published(t))
  BY <1>2 DEF OrderStep
<1>4. (\A u \in Tasks : Writes(u) => keyGen # None)'
  BY WritersPinAll, PTL
<1>5. item' # None /\ item'.gen > purgeGen => keyGen' # None
  BY DEF CatStep, InDisk
<1>6. KG \in Nat /\ genSeq \in Nat /\ purgeGen \in Nat /\ purgeGen <= genSeq /\ KG <= genSeq
  BY WriteNumbers
<1>7. keyGen' = None => KG' = 0
  BY NoKeyFields DEF KG
<1>8. \/ KG' = KG
      \/ keyGen' = None /\ KG' = 0 /\ mem' = None
      \/ KG' = genSeq + 1 /\ (Published(t) \/ mem' = None \/ (mem' = mem /\ mem.gen # KG))
      \/ WritesLarge(t) /\ KG = task[t].gen /\ KG' = task[t].prev /\ task'[t].pc # "write" /\ mem' = mem /\ item' = item
  BY <1>1, KeyGoes
(* Which entries the tiers and the calls hold. *)
<1>9. Published(t) => NewEntry(t, task'[t].ent) /\ task'[t].ent.gen = genSeq + 1
  BY DEF Published, NewEntry
<1>10. Chained'
  <2>1. KG' = 0 \/ KG' > purgeGen
    BY <1>1, <1>6, <1>8 DEF Chained, WritesLarge
  <2>2. ASSUME NEW u \in Tasks, task'[u].pc = "write", task'[u].gen >= purgeGen PROVE task'[u].era = purgeGen
    BY <1>1, <1>3, <2>2 DEF Chained, Published
  <2>3. ASSUME NEW u \in Tasks, task'[u].pc = "write", task'[u].era = purgeGen
        PROVE  task'[u].gen <= KG' /\ (task'[u].prev = 0 \/ task'[u].prev > purgeGen)
    <3>1. CASE u = t /\ Published(t)
      BY <1>1, <1>6, <3>1 DEF Chained, Published
    <3>2. CASE task'[u] = task[u]
      <4>1. /\ Writes(u) /\ task[u].gen <= KG /\ (task[u].prev = 0 \/ task[u].prev > purgeGen) /\ task[u].gen \in Nat
            /\ keyGen' # None /\ task[t].gen \in Nat /\ task[t].prev \in Nat
        BY <1>1, <1>4, <2>3, <3>2, WriteNumbers DEF Chained, Writes
      <4>2. CASE WritesLarge(t) /\ KG = task[t].gen /\ KG' = task[t].prev /\ task'[t].pc # "write"
        <5>1. u # t /\ Writes(t) /\ task[t].pc = "write" /\ task[u].pc = "write"
          BY <2>3, <4>1, <4>2 DEF WritesLarge, Writes
        <5>2. task[u].gen # task[t].gen
          BY <1>1, <5>1 DEF Chained
        <5>3. task[u].gen < task[t].gen
          BY <4>1, <4>2, <5>2
        <5>4. task[u].gen <= task[t].prev
          BY <1>1, <4>1, <5>1, <5>3 DEF Chained
        <5> QED BY <3>2, <4>1, <4>2, <5>4
      <4> QED BY <1>6, <1>8, <3>2, <4>1, <4>2
    <3> QED BY <1>3, <2>3, <3>1, <3>2
  <2>4. ASSUME NEW u \in Tasks, NEW v \in Tasks, task'[u].pc = "write", task'[v].pc = "write", u # v
        PROVE  task'[u].gen # task'[v].gen
    <3>1. task[u].gen \in Nat /\ task[u].gen <= genSeq /\ task[v].gen \in Nat /\ task[v].gen <= genSeq
      BY WriteNumbers
    <3>2. CASE task'[u] = task[u] /\ task'[v] = task[v]
      BY <1>1, <2>4, <3>2 DEF Chained
    <3>3. CASE u = t /\ Published(t)
      <4>1. task'[v] = task[v]
        BY <1>2, <2>4, <3>3
      <4> QED BY <1>6, <3>1, <3>3, <4>1 DEF Published
    <3>4. CASE v = t /\ Published(t)
      <4>1. task'[u] = task[u]
        BY <1>2, <2>4, <3>4
      <4> QED BY <1>6, <3>1, <3>4, <4>1 DEF Published
    <3> QED BY <1>3, <2>4, <3>2, <3>3, <3>4
  <2>5. ASSUME NEW u \in Tasks, NEW v \in Tasks, task'[u].pc = "write", task'[u].era = purgeGen,
               task'[v].pc = "write", task'[v].era = purgeGen, task'[u].gen < task'[v].gen
        PROVE  task'[u].gen <= task'[v].prev
    <3>1. task[u].gen \in Nat /\ task[u].gen <= genSeq /\ task[v].gen \in Nat /\ task[v].gen <= genSeq
      BY WriteNumbers
    <3>2. CASE task'[u] = task[u] /\ task'[v] = task[v]
      BY <1>1, <2>5, <3>2 DEF Chained, Writes
    <3>3. CASE u = t /\ Published(t)
      <4>1. task'[v] = task[v] \/ task'[v].gen = task'[u].gen
        BY <1>2, <3>3
      <4> QED BY <1>6, <2>5, <3>1, <3>3, <4>1 DEF Published
    <3>4. CASE v = t /\ Published(t) /\ task'[u] = task[u]
      BY <1>1, <2>5, <3>4 DEF Chained, Writes, Published
    <3> QED BY <1>3, <2>5, <3>2, <3>3, <3>4
  <2> QED BY <1>1, <2>1, <2>2, <2>3, <2>4, <2>5 DEF Chained, Writes
<1>11. Alone'
  <2>1. ASSUME NEW u \in Tasks, WritesLarge(u)'
        PROVE  /\ mem' # None => mem'.gen # task'[u].gen
               /\ item' # None => item'.gen # task'[u].gen
               /\ \A v \in Tasks : task'[v].pc \in OtherCarry => task'[v].ent.gen # task'[u].gen
    <3>1. task'[u].pc = "write" /\ task'[u].ent.large /\ task'[u].era = purgeGen
      BY <1>1, <2>1 DEF WritesLarge, Writes
    <3>2. CASE u = t /\ Published(t)
      <4>1. mem' = None /\ item' = item /\ task'[u].gen = genSeq + 1 /\ task'[t].pc = "write"
        BY <3>1, <3>2 DEF Published
      <4>2. item # None => item.gen \in Nat /\ item.gen <= genSeq
        BY WriteNumbers
      <4>3. ASSUME NEW v \in Tasks, task'[v].pc \in OtherCarry PROVE task'[v].ent.gen # task'[u].gen
        <5>1. task'[v] = task[v]
          BY <1>2, <4>1, <4>3
        <5>2. task[v].ent.gen \in Nat /\ task[v].ent.gen <= genSeq
          BY <4>3, <5>1, WriteNumbers
        <5> QED BY <1>6, <4>1, <5>1, <5>2
      <4> QED BY <1>6, <4>1, <4>2, <4>3
    <3>3. CASE task'[u] = task[u]
      <4>1. WritesLarge(u) /\ task[u].gen \in Nat /\ task[u].gen <= genSeq
        BY <3>1, <3>3, WriteNumbers DEF WritesLarge, Writes
      <4>2. /\ mem # None => mem.gen # task[u].gen
            /\ item # None => item.gen # task[u].gen
            /\ \A v \in Tasks : task[v].pc \in OtherCarry => task[v].ent.gen # task[u].gen
        BY <1>1, <4>1 DEF Alone
      <4>3. mem' # None => mem'.gen # task[u].gen
        <5>1. CASE task'[t].pc = "write" /\ ~task'[t].ent.large /\ mem' = task'[t].ent
          <6>1. CASE Published(t)
            BY <1>6, <1>9, <4>1, <5>1, <6>1
          <6>2. CASE task'[t] = task[t]
            <7>1. t # u /\ task[t].pc = "write" /\ task[u].pc = "write" /\ task[t].ent.gen = task[t].gen
              BY <3>1, <3>3, <5>1, <6>2, WriteNumbers
            <7>2. task[t].gen # task[u].gen
              BY <1>1, <7>1 DEF Chained
            <7> QED BY <5>1, <6>2, <7>1, <7>2
          <6> QED BY <5>1, <6>1, <6>2 DEF OrderStep
        <5>2. CASE task[t].pc = "promote" /\ mem' = task[t].ent
          BY <4>2, <5>2
        <5> QED BY <1>1, <4>2, <5>1, <5>2 DEF MemMove
      <4>4. item' # None => item'.gen # task[u].gen
        <5>1. CASE task[t].pc = "write" /\ item' = task[t].ent /\ t # u
          <6>1. task[t].gen # task[u].gen /\ task[t].ent.gen = task[t].gen
            BY <1>1, <3>1, <3>3, <5>1, WriteNumbers DEF Chained
          <6> QED BY <5>1, <6>1
        <5>2. CASE task[t].pc = "flush" /\ item' = task[t].ent
          BY <4>2, <5>2
        <5>3. CASE item' \in {item, None}
          BY <4>2, <5>3
        <5>4. item' \notin {item, None} => t # u
          BY <3>1 DEF OrderStep
        <5> QED BY <1>1, <5>1, <5>2, <5>3, <5>4 DEF ItemMove
      <4>5. ASSUME NEW v \in Tasks, task'[v].pc \in OtherCarry PROVE task'[v].ent.gen # task[u].gen
        <5>1. CASE task'[v] = task[v]
          BY <4>2, <4>5, <5>1
        <5>2. CASE v = t
          BY <4>2, <4>5, <5>2 DEF OrderStep
        <5> QED BY <1>2, <5>1, <5>2
      <4> QED BY <3>3, <4>3, <4>4, <4>5
    <3> QED BY <1>3, <3>1, <3>2, <3>3
  <2> QED BY <2>1 DEF Alone
<1>12. item' \notin {item, None} => item' # None /\ item'.gen = KG /\ KG' = KG /\ KG # 0
                                  /\ item' = task[t].ent /\ task[t].pc \in {"write", "flush"} /\ mem' = mem
  <2>1. ASSUME item' \notin {item, None}
        PROVE  item' = task[t].ent /\ task[t].pc \in {"write", "flush"} /\ CanCommit(t) /\ KG' = KG /\ mem' = mem
    BY <1>1, <2>1 DEF ItemMove
  <2>2. task[t].pc \in {"write", "flush"} => task[t].ent.gen \in Nat /\ task[t].ent.gen >= 1
    BY WriteNumbers
  <2>3. ASSUME item' \notin {item, None} PROVE KG = task[t].ent.gen
    BY <2>1, <2>2, <2>3 DEF CanCommit, IsCurrent, KG, GenOf
  <2> QED BY <2>1, <2>2, <2>3
<1>13. \A u \in Tasks : WritesLarge(u)' => (u = t /\ Published(t)) \/ (WritesLarge(u) /\ task'[u] = task[u])
  BY <1>1, <1>3 DEF WritesLarge, Writes
<1>14. Filed'
  <2>1. ASSUME item' # None, item'.gen > purgeGen PROVE item'.gen <= KG'
    <3>1. CASE item' = item
      <4>1. item.gen <= KG /\ item.gen \in Nat /\ item.gen <= genSeq
        BY <1>1, <2>1, <3>1, WriteNumbers DEF Filed
      <4>2. CASE WritesLarge(t) /\ KG = task[t].gen /\ KG' = task[t].prev
        <5>1. item.gen <= task[t].prev \/ item.gen > task[t].gen
          BY <1>1, <2>1, <3>1, <4>2 DEF Filed
        <5> QED BY <1>6, <3>1, <4>1, <4>2, <5>1, WriteNumbers
      <4> QED BY <1>5, <1>6, <1>8, <2>1, <3>1, <4>1, <4>2
    <3>2. CASE item' # item
      BY <1>6, <1>12, <2>1, <3>2
    <3> QED BY <3>1, <3>2
  <2>2. ASSUME item' # None, item'.gen > purgeGen, NEW u \in Tasks, WritesLarge(u)'
        PROVE  item'.gen <= task'[u].prev \/ item'.gen > task'[u].gen
    <3>1. CASE item' = item
      <4>1. CASE u = t /\ Published(t)
        BY <1>1, <2>2, <3>1, <4>1 DEF Filed, Published
      <4>2. CASE WritesLarge(u) /\ task'[u] = task[u]
        BY <1>1, <2>2, <3>1, <4>2 DEF Filed
      <4> QED BY <1>13, <2>2, <4>1, <4>2
    <3>2. CASE item' # item
      <4>1. ~Published(t)
        BY <3>2 DEF Published
      <4>2. WritesLarge(u) /\ task'[u] = task[u]
        BY <1>13, <2>2, <4>1
      <4>3. task[u].gen <= KG /\ task[u].gen \in Nat
        BY <1>1, <4>2, WriteNumbers DEF Chained, WritesLarge
      <4>4. task'[u].gen # item'.gen
        BY <1>11, <2>2 DEF Alone
      <4> QED BY <1>6, <1>12, <2>2, <3>2, <4>2, <4>3, <4>4
    <3> QED BY <3>1, <3>2
  <2>3. ASSUME NEW u \in Tasks, task'[u].pc = "promote", item' # None,
               task'[u].ent.gen = KG' \/ \E v \in Tasks : WritesLarge(v)' /\ task'[u].ent.gen = task'[v].prev
        PROVE  task'[u].ent.gen <= item'.gen
    <3>1. item \in Entry \cup {None} /\ (item # None => item.gen \in Nat)
      BY <1>1, Types, WriteNumbers
    <3>2. CASE u = t /\ task'[t].ent = item /\ item' = item
      BY <2>3, <3>1, <3>2
    <3>3. CASE task'[u] = task[u]
      <4>1. task[u].pc = "promote" /\ task[u].ent.gen \in Nat /\ task[u].ent.gen <= genSeq /\ task[u].ent.gen >= 1
        BY <2>3, <3>3, WriteNumbers
      <4>2. task[u].ent.gen = KG \/ \E v \in Tasks : WritesLarge(v) /\ task[u].ent.gen = task[v].prev
        <5>1. CASE task'[u].ent.gen = KG'
          BY <1>6, <1>8, <3>3, <4>1, <5>1
        <5>2. ASSUME NEW v \in Tasks, WritesLarge(v)', task'[u].ent.gen = task'[v].prev
              PROVE  task[u].ent.gen = KG \/ \E w \in Tasks : WritesLarge(w) /\ task[u].ent.gen = task[w].prev
          <6>1. CASE v = t /\ Published(t)
            BY <3>3, <5>2, <6>1 DEF Published
          <6>2. CASE WritesLarge(v) /\ task'[v] = task[v]
            BY <3>3, <5>2, <6>2
          <6> QED BY <1>13, <5>2, <6>1, <6>2
        <5> QED BY <2>3, <5>1, <5>2
      <4>3. CASE item' = item
        BY <1>1, <2>3, <3>3, <4>1, <4>2, <4>3 DEF Filed
      <4>4. CASE item' # item
        <5>1. ASSUME NEW v \in Tasks, WritesLarge(v) PROVE task[v].prev <= KG
          <6>1. task[v].prev < task[v].gen /\ task[v].gen <= KG /\ task[v].prev \in Nat /\ task[v].gen \in Nat
            BY <1>1, <5>1, WriteNumbers DEF Chained, WritesLarge, Writes
          <6> QED BY <1>6, <6>1
        <5>2. task[u].ent.gen <= KG
          BY <1>6, <4>1, <4>2, <5>1
        <5> QED BY <1>12, <2>3, <3>3, <4>4, <5>2
      <4> QED BY <4>3, <4>4
    <3> QED BY <1>2, <2>3, <3>2, <3>3 DEF OrderStep
  <2> QED BY <1>1, <2>1, <2>2, <2>3 DEF Filed
<1>15. mem' # None => mem'.gen = KG'
  <2>1. CASE mem' = mem /\ mem # None
    <3>1. mem.gen = KG
      BY <1>1, <2>1 DEF Tiers
    <3>2. CASE Published(t)
      BY <2>1, <3>2, <1>9 DEF Published
    <3>3. CASE WritesLarge(t) /\ KG = task[t].gen
      <4>1. mem.gen # task[t].gen
        BY <1>1, <2>1, <3>3 DEF Alone
      <4> QED BY <3>1, <3>3, <4>1
    <3> QED BY <1>8, <2>1, <3>1, <3>2, <3>3
  <2>2. CASE task'[t].pc = "write" /\ mem' \notin {mem, None} /\ mem' = task'[t].ent
    <3>1. Published(t)
      BY <2>2 DEF OrderStep
    <3> QED BY <1>9, <2>2, <3>1 DEF Published
  <2>3. CASE task[t].pc = "promote" /\ StillValid(t) /\ mem' = task[t].ent /\ KG' = KG
    <3>1. task[t].ent.gen >= 1 /\ task[t].ent.gen \in Nat
      BY <2>3, WriteNumbers
    <3> QED BY <2>3, <3>1 DEF StillValid, IsCurrent, KG, GenOf
  <2> QED BY <1>1, <2>1, <2>2, <2>3 DEF MemMove
<1>16. ASSUME mem' # None, item' # None
       PROVE  \/ item'.gen = mem'.gen
              \/ \E u \in Tasks : Writes(u)' /\ ~task'[u].ent.large /\ task'[u].gen = mem'.gen
  <2>1. CASE item' # item
    BY <1>12, <1>15, <1>16, <2>1
  <2>2. CASE item' = item /\ mem' = mem
    <3>1. CASE item.gen = mem.gen
      BY <2>2, <3>1
    <3>2. ASSUME NEW u \in Tasks, Writes(u), ~task[u].ent.large, task[u].gen = mem.gen
          PROVE  \/ item'.gen = mem'.gen
                 \/ \E v \in Tasks : Writes(v)' /\ ~task'[v].ent.large /\ task'[v].gen = mem'.gen
      <4>1. CASE task'[u] = task[u]
        BY <1>1, <2>2, <3>2, <4>1 DEF Writes
      <4>2. CASE u = t /\ task'[t].pc # "write"
        <5>1. item.gen >= task[t].gen
          BY <1>16, <2>2, <3>2, <4>2 DEF OrderStep, Writes
        <5>2. mem.gen = KG /\ KG >= 1 /\ KG > purgeGen /\ item.gen \in Nat
          <6>1. mem.gen = KG
            BY <1>1, <1>16, <2>2 DEF Tiers
          <6>2. mem.gen >= 1 /\ item.gen \in Nat
            BY <1>16, <2>2, WriteNumbers
          <6> QED BY <1>1, <6>1, <6>2 DEF Chained
        <5>3. item.gen > purgeGen
          BY <1>6, <3>2, <4>2, <5>1, <5>2
        <5>4. item.gen <= KG
          BY <1>1, <1>16, <2>2, <5>3 DEF Filed
        <5> QED BY <1>6, <2>2, <3>2, <4>2, <5>1, <5>2, <5>4
      <4>3. CASE u = t /\ task'[t].pc = "write" /\ Published(t)
        BY <3>2, <4>3 DEF Published, Writes
      <4> QED BY <1>2, <4>1, <4>2, <4>3 DEF OrderStep
    <3> QED BY <1>1, <1>16, <2>2, <3>1, <3>2 DEF Tiers
  <2>3. CASE item' = item /\ task'[t].pc = "write" /\ ~task'[t].ent.large /\ mem' = task'[t].ent /\ mem' # mem
    <3>1. Published(t)
      BY <1>16, <2>3 DEF OrderStep
    <3>2. Writes(t)' /\ task'[t].gen = mem'.gen
      BY <1>1, <1>9, <2>3, <3>1 DEF Writes, Published
    <3> QED BY <2>3, <3>2
  <2>4. CASE item' = item /\ task[t].pc = "promote" /\ mem' = task[t].ent /\ KG' = KG
    <3>1. mem'.gen = KG /\ task[t].ent.gen \in Nat /\ task[t].ent.gen >= 1 /\ item.gen \in Nat
      BY <1>15, <1>16, <2>4, WriteNumbers
    <3>2. task[t].ent.gen <= item.gen
      BY <1>1, <1>16, <2>4, <3>1 DEF Filed
    <3>3. KG > purgeGen
      BY <1>1, <1>6, <2>4, <3>1 DEF Chained
    <3>4. item.gen > purgeGen
      BY <1>6, <2>4, <3>1, <3>2, <3>3
    <3>5. item.gen <= KG
      BY <1>1, <1>16, <2>4, <3>4 DEF Filed
    <3> QED BY <1>6, <2>4, <3>1, <3>2, <3>5
  <2> QED BY <1>1, <1>16, <2>1, <2>2, <2>3, <2>4 DEF MemMove
<1>17. Tiers'
  BY <1>15, <1>16 DEF Tiers
<1> QED BY <1>10, <1>11, <1>14, <1>17 DEF Ordered

LEMMA PurgeAllOrdered ==
  ASSUME Sound, Ordered, NEW t \in Tasks, NEW c \in BOOLEAN, PurgeAll(t, c)
  PROVE  Ordered'
<1>1. TypeOK /\ TaskStep(t) /\ Act(t)
  BY ActTask DEF Sound, Act
<1>2. /\ purgeGen' = genSeq + 1 /\ keyGen' = None /\ mem' = None /\ item' = item /\ KG' = 0
  BY NoKeyFields DEF PurgeAll, Accept, KG
<1>3. \A u \in Tasks \ {t} : task'[u] = task[u]
  BY <1>1, TaskOthers
<1>4. task'[t].pc = "prepareall"
  BY PurgeAllMoves, Zenon
<1>5. genSeq \in Nat /\ purgeGen \in Nat /\ purgeGen <= genSeq
  BY <1>1, Types DEF Sound, Counted
<1>6. ASSUME NEW u \in Tasks, task'[u].pc = "write" PROVE task'[u].era # purgeGen' /\ task'[u].gen < purgeGen'
  <2>1. task'[u] = task[u] /\ task[u].gen \in Nat /\ task[u].gen <= genSeq
    BY <1>3, <1>4, <1>6, WriteNumbers
  <2>2. task[u].era \in {None} \cup 0 .. purgeGen
    BY DEF Sound, Bounded
  <2> QED BY <1>2, <1>5, <2>1, <2>2, NoneApart
<1>7. \A u \in Tasks : ~Writes(u)' /\ ~WritesLarge(u)'
  BY <1>6 DEF Writes, WritesLarge
<1>8. Chained' /\ Alone' /\ Tiers'
  <2>1. ASSUME NEW u \in Tasks, task'[u].pc = "write", task'[u].gen >= purgeGen' PROVE FALSE
    <3>1. task'[u].gen \in Nat
      BY <1>1, TaskOthers, CallFields
    <3> QED BY <1>2, <1>5, <1>6, <2>1, <3>1
  <2>2. ASSUME NEW u \in Tasks, NEW v \in Tasks, task'[u].pc = "write", task'[v].pc = "write", u # v
        PROVE  task'[u].gen # task'[v].gen
    <3>1. task'[u] = task[u] /\ task'[v] = task[v]
      BY <1>3, <1>4, <2>2
    <3> QED BY <2>2, <3>1 DEF Ordered, Chained
  <2> QED BY <1>2, <1>7, <2>1, <2>2 DEF Chained, Alone, Tiers
<1>9. Filed'
  <2>1. item' # None => ~(item'.gen > purgeGen')
    <3>1. item # None => item.gen \in Nat /\ item.gen <= genSeq
      BY WriteNumbers
    <3> QED BY <1>2, <1>5, <3>1
  <2>2. ASSUME NEW u \in Tasks, task'[u].pc = "promote" PROVE task'[u].ent.gen # 0
    <3>1. task'[u] = task[u]
      BY <1>3, <1>4, <2>2
    <3>2. task[u].ent.gen \in Nat /\ task[u].ent.gen >= 1
      BY <2>2, <3>1, WriteNumbers DEF OtherCarry
    <3> QED BY <3>1, <3>2
  <2> QED BY <1>2, <1>7, <2>1, <2>2 DEF Filed
<1> QED BY <1>8, <1>9 DEF Ordered

LEMMA DiskActsOrder ==
  ASSUME Sound, Sound', DiskEvict \/ Sweep
  PROVE  \E t \in Tasks : TaskStep(t) /\ CatStep(t) /\ OrderStep(t)
<1>1. PICK t \in Tasks : TRUE
  BY CacheStoreAssumption
<1>2. UNCHANGED <<genSeq, mem, task>> /\ item' \in {item, None} /\ TypeOK
  BY DEF DiskEvict, Sweep, Sound
<1>3. CatStep(t)
  BY DiskActsCat
<1>4. TaskStep(t)
  BY <1>2, Types DEF TaskStep, Sound
<1>5. KG' \in {KG, 0}
  <2>1. KG' = KG \/ keyGen' = None
    <3>1. genSeq \in Nat /\ genSeq' = genSeq
      BY <1>2, Types
    <3>2. ~Restore(t)
      <4>1. ASSUME Restore(t) PROVE FALSE
        <5>1. task[t].pc = "write" /\ task'[t].pc # "write"
          BY <1>2, <4>1, RestoreMoves, StoodFields DEF Restore
        <5> QED BY <1>2, <5>1
      <4> QED BY <4>1
    <3> QED BY <1>3, <3>1, <3>2 DEF CatStep, KeyMove
  <2> QED BY <2>1, NoKeyFields DEF KG
<1>6. OrderStep(t)
  BY <1>2, <1>5 DEF OrderStep, OtherCarry
<1> QED BY <1>3, <1>4, <1>6

LEMMA DiskActsOrdered ==
  ASSUME Sound, Sound', Ordered, DiskEvict \/ Sweep
  PROVE  Ordered'
  BY DiskActsOrder, OrderedKept

LEMMA CrashOrdered ==
  ASSUME Sound, Crash
  PROVE  Ordered'
<1>1. \A u \in Tasks : task'[u].pc \in {"idle", "done"}
  BY CrashIs, IdleFields, DoneFields
<1>2. \A u \in Tasks : ~Writes(u)' /\ ~WritesLarge(u)'
  BY <1>1 DEF Writes, WritesLarge
<1>3. item' # None => item'.gen \in Nat /\ item'.gen >= 1
  <2>1. PICK u \in Tasks : TRUE
    BY CacheStoreAssumption
  <2> QED BY <2>1, CrashIs, WriteNumbers
<1>4. mem' = None /\ purgeGen' = 0 /\ KG' \in Nat /\ (item' # None => KG' = item'.gen)
  <2> DEFINE g == IF item' = None THEN genSeq' ELSE item'.gen
  <2>1. mem' = None /\ purgeGen' = 0
        /\ keyGen' = IF item' = None /\ left' = None THEN None
                     ELSE [gen |-> g, inflight |-> 0, inDisk |-> TRUE, era |-> 0]
    BY DEF Crash
  <2>4. g \in Nat /\ (item' # None => g = item'.gen)
    BY <1>3, CrashIs
  <2> HIDE DEF g
  <2>2. CASE item' = None /\ left' = None
    BY <2>1, <2>2 DEF KG, GenOf
  <2>3. CASE ~(item' = None /\ left' = None)
    <3>1. [gen |-> g, inflight |-> 0, inDisk |-> TRUE, era |-> 0] \in KeyState
      BY <2>4 DEF KeyState
    <3> QED BY <2>1, <2>3, <2>4, <3>1, NoneApart DEF KG, GenOf
  <2> QED BY <2>1, <2>2, <2>3
<1>5. KG' = 0 \/ KG' > purgeGen'
  BY <1>3, <1>4
<1>6. Chained'
  BY <1>1, <1>2, <1>5 DEF Chained
<1>7. Alone' /\ Tiers'
  BY <1>2, <1>4 DEF Alone, Tiers
<1>8. Filed'
  BY <1>1, <1>2, <1>3, <1>4 DEF Filed
<1> QED BY <1>6, <1>7, <1>8 DEF Ordered

LEMMA NextOrdered ==
  ASSUME Sound, Sound', Ordered, [Next]_vars
  PROVE  Ordered'
<1>1. CASE UNCHANGED vars
  BY <1>1 DEF vars, disk, barriers, Ordered, Chained, Alone, Filed, Tiers, KG, Writes, WritesLarge
<1>2. ASSUME NEW t \in Tasks, Act(t) PROVE Ordered'
  <2>1. CASE \E c \in BOOLEAN : PurgeAll(t, c)
    BY <2>1, PurgeAllOrdered
  <2>2. CASE ~\E c \in BOOLEAN : PurgeAll(t, c)
    BY <1>2, <2>2, ActTask, ActCat, ActOrder, OrderedKept
  <2> QED BY <2>1, <2>2
<1> QED BY <1>1, <1>2, DiskActsOrdered, CrashOrdered DEF Next, Act

LEMMA InitOrdered ==
  ASSUME Init
  PROVE  Ordered
<1>1. \A u \in Tasks : task[u].pc = "idle"
  BY IdleFields DEF Init
<1>2. \A u \in Tasks : ~Writes(u) /\ ~WritesLarge(u)
  BY <1>1 DEF Writes, WritesLarge
<1>3. Stored.gen = 2 /\ [Stored EXCEPT !.large = TRUE].gen = 2
  BY DEF Stored
<1>4. /\ mem # None => mem.gen = 2
      /\ item # None => item.gen = 2
  BY <1>3 DEF Init
<1>5. purgeGen = 0 /\ KG = IF mem = None /\ item = None THEN 0 ELSE 2
  <2>1. purgeGen = 0 /\ keyGen = IF mem = None /\ item = None THEN None
                ELSE [gen |-> 2, inflight |-> 0, inDisk |-> item # None, era |-> 0]
    BY DEF Init
  <2>2. [gen |-> 2, inflight |-> 0, inDisk |-> item # None, era |-> 0] \in KeyState
    BY DEF KeyState
  <2> QED BY <2>1, <2>2, NoneApart DEF KG, GenOf
<1> QED BY <1>1, <1>2, <1>4, <1>5 DEF Ordered, Chained, Alone, Filed, Tiers

LEMMA AlwaysOrdered == Spec => []Ordered
<1>1. Init => Ordered
  BY InitOrdered
<1>2. Sound /\ Sound' /\ Ordered /\ [Next]_vars => Ordered'
  BY NextOrdered
<1> QED BY <1>1, <1>2, AlwaysSound, PTL DEF Spec

(* Memory and disk agree: when no publication is between its two halves    *)
(* (cache.put), the file that a restart would index has the generation of  *)
(* the entry that memory serves, whatever failed writes were undone,       *)
(* whichever lookups promoted and whatever was evicted or purged.          *)
THEOREM CacheStoreTiersAgree == Spec => []TiersAgree
<1>1. Ordered => TiersAgree
  BY DEF Ordered, Tiers, TiersAgree, Writes
<1> QED BY <1>1, AlwaysOrdered, PTL
-----------------------------------------------------------------------------
(* What a delete leaves behind.                                            *)
LEMMA SealedKept ==
  ASSUME Sound, Sound', Ordered, NEW t \in Tasks, TaskStep(t), CatStep(t), OrderStep(t),
         genSeq' >= genSeq, NEW g \in Nat, g \in Sealed
  PROVE  g \in Sealed'
<1>1. TypeOK /\ KeyMove(t) /\ purgeGen' = purgeGen
  BY DEF Sound, CatStep
<1>2. genSeq \in Nat /\ genSeq' \in Nat /\ genSeq' >= genSeq /\ KG \in Nat /\ KG <= genSeq /\ purgeGen \in Nat
  <2>1. genSeq' \in Nat
    BY DEF Sound, TypeOK
  <2> QED BY <2>1, WriteNumbers
<1>0. g \in 0 .. genSeq'
  BY <1>2 DEF Sealed
<1>3. CASE g < purgeGen
  BY <1>0, <1>1, <1>3 DEF Sealed
<1>4. ASSUME NEW d \in g .. genSeq, KG = 0 \/ KG > d,
             \A u \in Tasks : WritesLarge(u) /\ task[u].gen > d => task[u].prev = 0 \/ task[u].prev > d
      PROVE  g \in Sealed'
  <2>1. d \in Nat /\ d \in g .. genSeq'
    BY <1>2, <1>4
  <2>2. KG' = 0 \/ KG' > d
    <3>1. CASE WritesLarge(t) /\ KG = task[t].gen /\ KG' = task[t].prev
      <4>1. task[t].prev < task[t].gen /\ task[t].prev \in Nat /\ task[t].gen \in Nat
        BY <3>1, WriteNumbers DEF WritesLarge, Writes
      <4>2. task[t].gen > d
        BY <1>4, <2>1, <3>1, <4>1
      <4> QED BY <1>4, <3>1, <4>2
    <3> QED BY <1>1, <1>2, <1>4, <2>1, <3>1, KeyGoes
  <2>3. ASSUME NEW u \in Tasks, WritesLarge(u)', task'[u].gen > d PROVE task'[u].prev = 0 \/ task'[u].prev > d
    <3>1. task'[u].pc = "write" /\ task'[u].era = purgeGen /\ task'[u].ent.large
      BY <1>1, <2>3 DEF WritesLarge, Writes
    <3>2. CASE task'[u] = task[u]
      <4>1. WritesLarge(u)
        BY <3>1, <3>2 DEF WritesLarge, Writes
      <4> QED BY <1>4, <2>3, <3>2, <4>1
    <3>3. CASE u = t /\ Published(t)
      BY <1>4, <3>3 DEF Published
    <3>4. u # t => task'[u] = task[u]
      BY <1>1, TaskOthers
    <3> QED BY <3>1, <3>2, <3>3, <3>4 DEF OrderStep
  <2> QED BY <1>0, <2>1, <2>2, <2>3 DEF Sealed
<1> QED BY <1>3, <1>4 DEF Sealed

(* A delete, and a purge of everything, seal all generations there are. *)
LEMMA DeleteMemSeals ==
  ASSUME Sound, NEW t \in Tasks, DeleteMem(t), NEW g \in 0 .. genSeq
  PROVE  g \in Sealed'
<1>1. TypeOK /\ GoodKey(keyGen, mem) /\ genSeq \in Nat
  BY InTheCatalog, Types DEF Sound
<1>2. genSeq' = genSeq + 1 /\ KG' = genSeq + 1
  BY <1>1, BeginNextKey DEF DeleteMem, KG
<1>3. \A u \in Tasks : task'[u].gen = task[u].gen
  <2>1. TaskStep(t)
    BY DeleteMemTask
  <2>2. task'[t].gen = task[t].gen
    BY DeleteMemMoves
  <2> QED BY <1>1, <2>1, <2>2, TaskOthers
<1>4. \A u \in Tasks : task[u].gen \in Nat /\ task[u].gen <= genSeq
  BY WriteNumbers
<1>5. \A u \in Tasks : ~(task'[u].gen > genSeq)
  BY <1>1, <1>3, <1>4
<1>6. genSeq \in g .. genSeq' /\ g \in 0 .. genSeq'
  BY <1>1, <1>2
<1>7. KG' > genSeq
  BY <1>1, <1>2
<1> QED BY <1>5, <1>6, <1>7 DEF Sealed

LEMMA PurgeAllSeals ==
  ASSUME Sound, NEW t \in Tasks, NEW c \in BOOLEAN, PurgeAll(t, c), NEW g \in 0 .. genSeq
  PROVE  g \in Sealed'
<1>1. genSeq \in Nat /\ purgeGen' = genSeq + 1 /\ genSeq' = genSeq + 1
  BY Types DEF Sound, PurgeAll, Accept
<1>2. g < purgeGen' /\ g \in 0 .. genSeq'
  BY <1>1
<1> QED BY <1>2 DEF Sealed

LEMMA ActSeals ==
  ASSUME Sound, Sound', Ordered, NEW t \in Tasks, Act(t), NEW g \in 0 .. genSeq, g \in Sealed
  PROVE  g \in Sealed'
<1>1. CASE \E c \in BOOLEAN : PurgeAll(t, c)
  BY <1>1, PurgeAllSeals
<1>2. CASE ~\E c \in BOOLEAN : PurgeAll(t, c)
  <2>1. genSeq \in Nat /\ genSeq' >= genSeq
    BY GenSeqGrows
  <2>2. TaskStep(t) /\ CatStep(t) /\ OrderStep(t)
    BY <1>2, ActTask, ActCat, ActOrder
  <2> QED BY <2>1, <2>2, SealedKept
<1> QED BY <1>1, <1>2

LEMMA SealedNotCurrent ==
  ASSUME Sound, NEW g \in Nat, g >= 1, g \in Sealed, IsCurrent(g)
  PROVE  FALSE
<1>1. purgeGen \in Nat /\ genSeq \in Nat /\ KG \in Nat
  BY WriteNumbers, CacheStoreAssumption
<1>2. KG = g
  BY DEF IsCurrent, KG, GenOf
<1>3. ~(g < purgeGen)
  BY <1>1 DEF IsCurrent
<1> QED BY <1>1, <1>2, <1>3 DEF Sealed

LEMMA CutKept ==
  ASSUME Sound, NEW t \in Tasks, TaskStep(t), MemMove(t), ItemMove(t), OrderStep(t),
         \A g \in 0 .. genSeq : g \in Sealed => g \in Sealed',
         NEW d \in Nat, d <= deletes, d \in Cut
  PROVE  d \in Cut'
<1>1. TypeOK /\ deletes \in Nat /\ genSeq \in Nat
  BY Types DEF Sound
<1>2. /\ mem # None => mem.pub \in Nat /\ mem.gen \in 0 .. genSeq
      /\ item # None => item.pub \in Nat /\ item.gen \in 0 .. genSeq
      /\ \A u \in Tasks : Carries(u) => task[u].ent.pub \in Nat /\ task[u].ent.gen \in 1 .. genSeq
  BY <1>1, LiveTyped, EntryFields
<1>3. \A u \in Tasks : Carries(u) /\ task[u].ent.pub < d => task[u].ent.gen \in Sealed \cap Sealed'
  BY <1>1, <1>2 DEF Cut
<1>4. Published(t) => task'[t].ent.pub = deletes /\ task'[t].ent # None
  BY NoneApart DEF Published, NewEntry
(* Whoever stores what it carries has found its generation current. *)
<1>5. ASSUME Carries(t), IsCurrent(task[t].ent.gen) PROVE d <= task[t].ent.pub
  <2>1. task[t].ent.gen \in Nat /\ task[t].ent.gen >= 1
    BY <1>1, <1>2, <1>5
  <2>2. task[t].ent.gen \notin Sealed
    BY <1>5, <2>1, SealedNotCurrent
  <2> QED BY <1>2, <1>3, <1>5, <2>2
<1>6. mem' # None => d <= mem'.pub
  <2>1. CASE mem' = mem
    BY <2>1 DEF Cut
  <2>2. CASE task'[t].pc = "write" /\ mem' = task'[t].ent /\ mem' \notin {mem, None}
    BY <1>4, <2>2 DEF OrderStep
  <2>3. CASE task[t].pc = "promote" /\ StillValid(t) /\ mem' = task[t].ent
    BY <1>5, <2>3 DEF StillValid, Carries
  <2> QED BY <2>1, <2>2, <2>3 DEF MemMove
<1>7. ASSUME item' # None, item'.pub < d PROVE item'.gen \in Sealed'
  <2>1. CASE item' = item
    BY <1>2, <1>7, <2>1 DEF Cut
  <2>2. CASE task[t].pc \in {"write", "flush"} /\ CanCommit(t) /\ item' = task[t].ent
    <3>1. Carries(t)
      BY <2>2 DEF Carries
    <3>2. d <= task[t].ent.pub /\ task[t].ent.pub \in Nat
      BY <1>2, <1>5, <2>2, <3>1 DEF CanCommit
    <3> QED BY <1>7, <2>2, <3>2
  <2> QED BY <1>7, <2>1, <2>2 DEF ItemMove
<1>8. ASSUME NEW u \in Tasks, Carries(u)', task'[u].ent.pub < d PROVE task'[u].ent.gen \in Sealed'
  <2>1. CASE task'[u] = task[u]
    <3>1. Carries(u)
      BY <1>8, <2>1 DEF Carries
    <3> QED BY <1>3, <1>8, <2>1, <3>1
  <2>2. CASE u = t /\ task'[t].pc = "write" /\ task'[t] # task[t]
    <3>1. task'[t].ent.pub = deletes
      BY <1>4, <2>2 DEF OrderStep
    <3> QED BY <1>1, <1>8, <2>2, <3>1
  <2>3. CASE u = t /\ task'[t].pc \in OtherCarry
    <3>1. CASE mem # None /\ task'[t].ent = mem
      <4>1. d <= mem.pub /\ mem.pub \in Nat
        BY <1>2, <3>1 DEF Cut
      <4> QED BY <1>8, <2>3, <3>1, <4>1
    <3>2. CASE item # None /\ task'[t].ent = item
      <4>1. item.gen \in Sealed
        BY <1>8, <2>3, <3>2 DEF Cut
      <4> QED BY <1>2, <2>3, <3>2, <4>1
    <3>3. CASE task[t].pc \in OtherCarry /\ task'[t].ent = task[t].ent
      <4>1. Carries(t)
        BY <3>3 DEF Carries, OtherCarry
      <4> QED BY <1>3, <1>8, <2>3, <3>3, <4>1
    <3> QED BY <2>3, <3>1, <3>2, <3>3 DEF OrderStep
  <2>4. u # t => task'[u] = task[u]
    BY <1>1, TaskOthers
  <2> QED BY <1>8, <2>1, <2>2, <2>3, <2>4 DEF Carries, OtherCarry
<1> QED BY <1>6, <1>7, <1>8 DEF Cut

(* What the steps other than deletes leave of the deletes' numbers. *)
LEMMA DeleteSteps ==
  ASSUME Sound, NEW t \in Tasks, Act(t)
  PROVE  /\ deleted' = deleted \/ DeleteDisk(t)
         /\ task'[t].after = task[t].after \/ task'[t].after = 0 \/ (Lookup(t) /\ task'[t].after = deleted)
         /\ task'[t].pc = "delmem" => /\ task'[t].max = deletes + 1 /\ deletes' = deletes + 1 /\ deleted' = deleted
                                      /\ \A u \in Tasks : task[u].pc \notin DeleteAt
         /\ task'[t].pc = "deldisk" => task[t].pc = "delmem" /\ DeleteMem(t) /\ task'[t].max = task[t].max /\ deleted' = deleted
<1>1. TypeOK /\ Arrives(t)
  BY ActArrives, SMTT(30) DEF Sound
<1>2. deleted' = deleted \/ DeleteDisk(t)
  BY DEF Act, Begin, Discard, Publish, Commit, Refuse, Restore, Undo, Check, Unstore, Drop, Evict, Flush, Lookup,
         Screen, Probe, Read, Promote, DeleteBegin, DeleteMem, Purge, PurgeAll, Accept, NotAccepted, Wipe, Prepare,
         Batch, Cancel, Unlink, Close, CloseAll, Retry, Crowd, counters
<1>3. task'[t].pc = "delmem" => /\ task'[t].max = deletes + 1 /\ deletes' = deletes + 1 /\ deleted' = deleted
                                /\ \A u \in Tasks : task[u].pc \notin DeleteAt
  <2>1. ASSUME DeleteBegin(t) PROVE /\ task'[t].max = deletes + 1 /\ deletes' = deletes + 1 /\ deleted' = deleted
                                    /\ \A u \in Tasks : task[u].pc \notin DeleteAt
    BY <2>1, DeleteBeginMoves DEF DeleteBegin, DeleteAt
  <2> QED BY <1>1, <2>1 DEF Arrives
<1>4. task'[t].pc = "deldisk" => task[t].pc = "delmem" /\ DeleteMem(t) /\ task'[t].max = task[t].max /\ deleted' = deleted
  <2>1. ASSUME DeleteMem(t) PROVE task[t].pc = "delmem" /\ task'[t].max = task[t].max /\ deleted' = deleted
    BY <2>1, DeleteMemMoves DEF DeleteMem, counters
  <2> QED BY <1>1, <2>1 DEF Arrives
<1>5. task'[t].after = task[t].after \/ task'[t].after = 0 \/ (Lookup(t) /\ task'[t].after = deleted)
  <2>1. CASE Begin(t) \/ Discard(t) \/ Check(t) \/ Unstore(t)
    BY <1>1, <2>1, BeginMoves, DiscardMoves, CheckMoves, UnstoreMoves, DoneFields
  <2>9. CASE Drop(t) \/ Evict(t) \/ Flush(t)
    BY <1>1, <2>9, DropMoves, EvictMoves, FlushMoves, DoneFields
  <2>10. CASE Restore(t)
    BY <1>1, <2>10, RestoreMoves, StoodFields
  <2>2. CASE Lookup(t) \/ Screen(t)
    BY <2>2, LookupMoves, ScreenMoves
  <2>11. CASE Wipe(t) \/ Crowd(t) \/ (\E c \in BOOLEAN : NotAccepted(t, c))
    <3>1. task'[t] \in {Done, [Idle EXCEPT !.pc = "wipe"]}
      BY <1>1, <2>11, BecomeMoves DEF Wipe, Crowd, NotAccepted
    <3>2. [Idle EXCEPT !.pc = "wipe"].after = 0
      BY IdleCall, IdleFields DEF Calls
    <3> QED BY <3>1, <3>2, DoneFields
  <2>3. CASE Probe(t) \/ Read(t) \/ Promote(t) \/ DeleteBegin(t) \/ DeleteMem(t)
    BY <1>1, <2>3, ProbeMoves, ReadMoves, PromoteMoves, DeleteBeginMoves, DeleteMemMoves, DoneFields
  <2>4. CASE \E c \in BOOLEAN : Purge(t, c) \/ PurgeAll(t, c)
    BY <2>4, PurgeMoves, PurgeAllMoves
  <2>5. CASE Prepare(t) \/ Batch(t) \/ Cancel(t) \/ Unlink(t)
    BY <2>5, PrepareMoves, BatchMoves, CancelMoves, UnlinkMoves
  <2>6. CASE Commit(t) \/ Undo(t) \/ Refuse(t) \/ DeleteDisk(t) \/ Close(t) \/ CloseAll(t)
    <3>1. task'[t] = Done \/ task'[t] = Stood(t)
      BY <1>1, <2>6, BecomeMoves DEF Commit, Undo, Refuse, DeleteDisk, Close, CloseAll
    <3> QED BY <1>1, <3>1, DoneFields, StoodFields
  <2>7. CASE Retry(t)
    <3>1. PICK f \in fences : task'[t] = [Idle EXCEPT !.pc = "prepare", !.max = f.gen, !.flag = TRUE,
                                             !.rest = Held /\ keyGen.gen <= f.gen]
      BY <1>1, <2>7, BecomeMoves DEF Retry
    <3>2. task'[t].after = 0
      BY <3>1, IdleCall, IdleFields DEF Calls
    <3> QED BY <3>2
  <2>8. CASE Publish(t)
    <3>1. CASE PublicationFenced(task[t].start)
      BY <1>1, <2>8, <3>1, BecomeMoves, DoneFields DEF Publish
    <3>2. CASE ~PublicationFenced(task[t].start)
      BY <2>8, <3>2, WriteIs
    <3> QED BY <3>1, <3>2
  <2> QED BY <2>1, <2>2, <2>3, <2>4, <2>5, <2>6, <2>7, <2>8, <2>9, <2>10, <2>11 DEF Act
<1> QED BY <1>2, <1>3, <1>4, <1>5

LEMMA ActDeletes ==
  ASSUME Sound, Sound', Ordered, Deletes, NEW t \in Tasks, Act(t)
  PROVE  Deletes'
<1>1. TypeOK /\ deleted \in Nat /\ deletes \in Nat /\ genSeq \in Nat /\ deleted <= deletes
  BY Types DEF Sound, Counted
<1>2. TaskStep(t) /\ MemMove(t) /\ ItemMove(t) /\ OrderStep(t)
  BY ActTiers, ActOrder
<1>3. \A u \in Tasks \ {t} : task'[u] = task[u]
  BY <1>1, <1>2, TaskOthers
<1>4. \A g \in 0 .. genSeq : g \in Sealed => g \in Sealed'
  BY ActSeals
<1>5. /\ deleted' = deleted \/ DeleteDisk(t)
      /\ task'[t].after = task[t].after \/ task'[t].after = 0 \/ (Lookup(t) /\ task'[t].after = deleted)
      /\ task'[t].pc = "delmem" => /\ task'[t].max = deletes + 1 /\ deletes' = deletes + 1 /\ deleted' = deleted
                                   /\ \A u \in Tasks : task[u].pc \notin DeleteAt
      /\ task'[t].pc = "deldisk" => task[t].pc = "delmem" /\ DeleteMem(t) /\ task'[t].max = task[t].max /\ deleted' = deleted
  BY DeleteSteps
<1>6. DeleteDisk(t) => task[t].pc = "deldisk" /\ deleted' = task[t].max /\ item' = None /\ task'[t].pc = "done"
  <2>1. ASSUME DeleteDisk(t) PROVE item' = None
    <3>1. DropUpTo(genSeq) /\ genSeq \in Int
      BY <1>1, <2>1 DEF DeleteDisk
    <3>2. item # None => item.gen \in 1 .. genSeq
      BY LiveTyped
    <3> QED BY <1>1, <3>1, <3>2, DropKey
  <2> QED BY <1>1, <2>1, BecomeMoves, DoneFields DEF DeleteDisk
<1>7. \A u \in Tasks : task[u].max \in Nat /\ (task[u].pc \in DeleteAt => task[u].max <= deletes) /\ task[u].after \in Nat
  BY <1>1, Types, CallFields DEF Sound, Bounded
<1>8. \A u \in Tasks : task[u].pc = "deldisk" => task[u].max \in Cut'
  <2>1. ASSUME NEW u \in Tasks, task[u].pc = "deldisk" PROVE task[u].max \in Cut'
    <3>1. task[u].max \in Nat /\ task[u].max <= deletes
      BY <1>7, <2>1 DEF DeleteAt
    <3>2. task[u].max \in Cut
      BY <2>1 DEF Deletes
    <3> QED BY <1>2, <1>4, <3>1, <3>2, CutKept
  <2> QED BY <2>1
<1>9. deleted \in Cut'
  BY <1>1, <1>2, <1>4, CutKept DEF Deletes
<1>10. deleted' \in Cut' /\ deleted' \in Nat /\ deleted <= deleted'
  BY <1>1, <1>5, <1>6, <1>7, <1>8, <1>9 DEF Deletes, DeleteAt
<1>11. ASSUME NEW u \in Tasks, NEW v \in Tasks, task'[u].pc \in DeleteAt, task'[v].pc \in DeleteAt PROVE u = v
  BY <1>3, <1>5, <1>11 DEF Deletes, DeleteAt
<1>12. ASSUME NEW u \in Tasks PROVE task'[u].after <= deleted'
  <2>1. task[u].after <= deleted /\ task[u].after \in Nat
    BY <1>7 DEF Deletes
  <2>2. CASE u # t
    BY <1>1, <1>3, <1>10, <2>1, <2>2
  <2>3. CASE u = t
    BY <1>1, <1>5, <1>10, <2>1, <2>3
  <2> QED BY <2>2, <2>3
<1>13. ASSUME NEW u \in Tasks, task'[u].pc \in DeleteAt PROVE deleted' <= task'[u].max
  <2>1. CASE u = t
    BY <1>1, <1>5, <1>13, <2>1 DEF Deletes, DeleteAt
  <2>2. CASE u # t
    <3>1. task'[u] = task[u]
      BY <1>3, <2>2
    <3>2. ~DeleteDisk(t)
      BY <1>6, <1>13, <2>2, <3>1 DEF Deletes, DeleteAt
    <3> QED BY <1>5, <1>13, <3>1, <3>2 DEF Deletes
  <2> QED BY <2>1, <2>2
<1>14. item' # None => deleted' <= item'.pub
  <2>1. CASE item' = item
    BY <1>5, <1>6, <2>1 DEF Deletes
  <2>2. CASE task[t].pc \in {"write", "flush"} /\ CanCommit(t) /\ item' = task[t].ent
    <3>1. Carries(t) /\ ~DeleteDisk(t)
      BY <1>6, <2>2 DEF Carries
    <3>2. task[t].ent.gen \in 1 .. genSeq /\ task[t].ent.pub \in Nat
      BY <3>1, LiveTyped, EntryFields
    <3>3. task[t].ent.gen \in Nat /\ task[t].ent.gen >= 1
      BY <1>1, <3>2
    <3>4. task[t].ent.gen \notin Sealed
      BY <2>2, <3>3, SealedNotCurrent DEF CanCommit
    <3>5. ~(task[t].ent.pub < deleted)
      BY <3>1, <3>4 DEF Deletes, Cut
    <3> QED BY <1>1, <1>5, <2>2, <3>1, <3>2, <3>5
  <2> QED BY <1>2, <2>1, <2>2 DEF ItemMove
<1>15. ASSUME NEW u \in Tasks, task'[u].pc = "deldisk" PROVE task'[u].max \in Cut'
  <2>1. CASE u # t
    BY <1>3, <1>8, <1>15, <2>1
  <2>2. CASE u = t
    <3>1. DeleteMem(t) /\ task'[t].max \in Nat
      BY <1>5, <1>7, <1>15, <2>2
    <3>2. mem' = None /\ item' = item
      BY <3>1 DEF DeleteMem, disk
    <3>3. item # None => item.gen \in Sealed'
      <4>1. item # None => item.gen \in 0 .. genSeq
        BY <1>1, LiveTyped
      <4> QED BY <3>1, <4>1, DeleteMemSeals
    <3>4. ASSUME NEW v \in Tasks, Carries(v)' PROVE task'[v].ent.gen \in Sealed'
      <4>1. v # t
        BY <1>15, <2>2, <3>4 DEF Carries
      <4>2. task'[v] = task[v] /\ Carries(v)
        BY <1>3, <3>4, <4>1 DEF Carries
      <4>3. task[v].ent.gen \in 0 .. genSeq
        BY <1>1, <4>2, LiveTyped
      <4> QED BY <3>1, <4>2, <4>3, DeleteMemSeals
    <3> QED BY <2>2, <3>1, <3>2, <3>3, <3>4 DEF Cut
  <2> QED BY <2>1, <2>2
<1>16. ASSUME NEW u \in Tasks, task'[u].pc = "got" PROVE task'[u].ent.pub >= task'[u].after
  <2>1. CASE u # t
    BY <1>3, <1>16, <2>1 DEF Deletes, DeleteHolds
  <2>2. CASE u = t
    <3>1. mem # None => mem.pub \in Nat /\ deleted <= mem.pub
      BY LiveTyped, EntryFields DEF Deletes, Cut
    <3>2. Screen(t) \/ Promote(t)
      BY <1>16, <2>2, ActArrives DEF Arrives
    <3>3. CASE Screen(t)
      <4>1. task'[t].ent = task[t].ent /\ task[t].pc = "hit" /\ task'[t].after = task[t].after
        BY <1>16, <2>2, <3>3, ScreenMoves
      <4> QED BY <2>2, <4>1 DEF Deletes
    <3>4. CASE Promote(t)
      <4>1. /\ task'[t].after = task[t].after /\ task[t].pc = "promote"
            /\ (mem # None /\ task'[t].ent = mem) \/ (StillValid(t) /\ task'[t].ent = task[t].ent)
        BY <1>16, <2>2, <3>4, PromoteMoves, DoneFields
      <4>2. Carries(t) /\ task[t].after \in Nat /\ task[t].after <= deleted
        BY <1>7, <4>1 DEF Carries, Deletes
      <4>3. task[t].ent.gen \in 1 .. genSeq /\ task[t].ent.pub \in Nat
        BY <4>2, LiveTyped, EntryFields
      <4>4. task[t].ent.gen \in Nat /\ task[t].ent.gen >= 1
        BY <1>1, <4>3
      <4>5. StillValid(t) => ~(task[t].ent.pub < deleted)
        BY <4>2, <4>4, SealedNotCurrent DEF StillValid, Deletes, Cut
      <4> QED BY <1>1, <2>2, <3>1, <4>1, <4>2, <4>3, <4>5
    <3> QED BY <3>2, <3>3, <3>4
  <2> QED BY <2>1, <2>2
<1>17. ASSUME NEW u \in Tasks, task'[u].pc = "hit" PROVE task'[u].ent.pub >= task'[u].after
  <2>1. CASE u # t
    BY <1>3, <1>17, <2>1 DEF Deletes
  <2>2. CASE u = t
    <3>1. mem # None => mem.pub \in Nat /\ deleted <= mem.pub
      BY LiveTyped, EntryFields DEF Deletes, Cut
    <3>2. Lookup(t)
      BY <1>17, <2>2, ActArrives DEF Arrives
    <3>3. task'[t].ent = mem /\ mem # None /\ task'[t].after = deleted
      BY <1>17, <2>2, <3>2, LookupMoves
    <3> QED BY <1>1, <2>2, <3>1, <3>3
  <2> QED BY <2>1, <2>2
<1> QED BY <1>10, <1>11, <1>12, <1>13, <1>14, <1>15, <1>16, <1>17 DEF Deletes, DeleteHolds

LEMMA NextDeletes ==
  ASSUME Sound, Sound', Ordered, Deletes, [Next]_vars
  PROVE  Deletes'
<1>1. CASE UNCHANGED vars
  <2>1. UNCHANGED <<genSeq, keyGen, mem, item, purgeGen, task, deletes, deleted>>
    BY <1>1 DEF vars, disk, barriers, counters
  <2>2. Sealed' = Sealed
    BY <2>1 DEF Sealed, KG, WritesLarge, Writes
  <2>3. Cut' = Cut
    BY <2>1, <2>2 DEF Cut, Carries
  <2> QED BY <2>1, <2>3 DEF Deletes, DeleteHolds
<1>2. CASE DiskEvict \/ Sweep
  <2>1. UNCHANGED <<genSeq, mem, task, deletes, deleted>> /\ item' \in {item, None}
    BY <1>2 DEF DiskEvict, Sweep, counters
  <2>2. PICK t \in Tasks : TaskStep(t) /\ CatStep(t) /\ OrderStep(t)
    BY <1>2, DiskActsOrder
  <2>3. genSeq \in Nat /\ deletes \in Nat /\ deleted \in Nat /\ deleted <= deletes
        /\ \A u \in Tasks : task[u].max \in Nat /\ (task[u].pc \in DeleteAt => task[u].max <= deletes)
    BY Types, CallFields DEF Sound, Counted, Bounded
  <2>4. \A g \in 0 .. genSeq : g \in Sealed => g \in Sealed'
    BY <2>1, <2>2, <2>3, SealedKept
  <2>5. \A d \in Nat : d <= deletes /\ d \in Cut => d \in Cut'
    BY <2>2, <2>4, CutKept DEF CatStep
  <2>6. \A u \in Tasks : task[u].pc = "deldisk" => task[u].max \in Cut'
    BY <2>3, <2>5 DEF Deletes, DeleteAt
  <2>7. deleted \in Cut'
    BY <2>3, <2>5 DEF Deletes
  <2> QED BY <2>1, <2>6, <2>7 DEF Deletes, DeleteHolds
<1>3. CASE Crash
  <2>1. \A u \in Tasks : task'[u] \in {Idle, Done}
    BY <1>3, CrashIs
  <2>2. \A u \in Tasks : task'[u].pc \in {"idle", "done"} /\ task'[u].after = 0
    BY <2>1, IdleFields, DoneFields
  <2>3. mem' = None /\ item' \in {item, None} /\ deleted' = deleted /\ deleted \in Nat
    BY <1>3, CrashIs, Types DEF Crash, Sound
  <2>4. item' # None => deleted <= item'.pub /\ item'.pub \in Nat
    BY <2>3, LiveTyped, EntryFields DEF Deletes
  <2>5. \A u \in Tasks : ~Carries(u)'
    BY <2>2 DEF Carries
  <2>6. deleted' \in Cut'
    BY <2>3, <2>4, <2>5 DEF Cut
  <2> QED BY <2>2, <2>3, <2>4, <2>6 DEF Deletes, DeleteHolds, DeleteAt
<1> QED BY <1>1, <1>2, <1>3, ActDeletes DEF Next, Act

LEMMA InitDeletes ==
  ASSUME Init
  PROVE  Deletes
<1>1. \A u \in Tasks : task[u].pc = "idle" /\ task[u].after = 0
  BY IdleFields DEF Init
<1>2. deleted = 0 /\ (mem # None => mem.pub = 0) /\ (item # None => item.pub = 0)
  BY DEF Init, Stored
<1>3. deleted \in Cut
  BY <1>1, <1>2 DEF Cut, Carries
<1> QED BY <1>1, <1>2, <1>3 DEF Deletes, DeleteHolds, DeleteAt

(* An unsafe method's delete is final: after Delete has returned, no       *)
(* lookup is answered with an entry published before the deletion began,   *)
(* not by a promotion or a spill that was under way, not by a failed       *)
(* publication that takes the generation back and not after a crash.       *)
THEOREM CacheStoreDeleteHolds == Spec => []DeleteHolds
<1>1. Init => Deletes
  BY InitDeletes
<1>2. Sound /\ Sound' /\ Ordered /\ Deletes /\ [Next]_vars => Deletes'
  BY NextDeletes
<1>3. Deletes => DeleteHolds
  BY DEF Deletes
<1> QED BY <1>1, <1>2, <1>3, AlwaysSound, AlwaysOrdered, PTL DEF Spec
-----------------------------------------------------------------------------
(* What a step does to the fences and the floors.  A purge that ends with  *)
(* nothing left to do lifts its cutoff.                                    *)
Lifts(t) == Close(t) /\ ~Remains(t)
Later(g) == \A u \in Tasks : task'[u].start # 0 => task'[u].start > g

GuardStep(t) ==
    /\ \A f \in fences :
          \/ \E h \in fences' : h.gen = f.gen /\ (Unfinished(f) => Unfinished(h) \/ (Lifts(t) /\ f.gen = task[t].max))
          \/ f.gen <= floor' /\ (Unfinished(f) => f.gen \in ifloor')
          \/ (Unfinished(f) => Lifts(t) /\ f.gen = task[t].max) /\ Later(f.gen)
    /\ floor' >= floor \/ Later(floor)
    /\ \A x \in ifloor : x \in ifloor' \/ (Lifts(t) /\ x = task[t].max)

(* Where a fence comes from. *)
FenceFrom(t, f) ==
    \/ f \in fences
    \/ f.gen = genSeq + 1 /\ f.active /\ \E c \in BOOLEAN : Purge(t, c)
    \/ f.gen = genSeq + 1 /\ ~Unfinished(f) /\ \E c \in BOOLEAN : NotAccepted(t, c)
    \/ f.gen = task[t].max /\ Close(t)
    \/ f.gen = task'[t].max /\ f.active /\ Retry(t)
FenceStep(t) ==
    /\ \A f \in fences' : FenceFrom(t, f)
    /\ \A f, h \in fences' : f.gen = h.gen => f = h

LEMMA FenceNumbers ==
  ASSUME Sound
  PROVE  /\ \A f \in fences : f \in Fence /\ f.gen \in Nat /\ f.gen >= 1 /\ f.gen <= genSeq
         /\ \A x \in ifloor : x \in Nat /\ x >= 1 /\ x <= genSeq
         /\ floor \in Nat /\ hw \in Nat /\ floor <= genSeq /\ hw <= genSeq /\ genSeq \in Nat /\ purgeGen \in Nat /\ purgeGen <= genSeq
<1>1. BarrierTypes /\ purgeGen \in Nat /\ purgeGen <= genSeq
  BY HaveTypes, Types DEF Sound, Counted
<1> QED BY <1>1 DEF BarrierTypes, FencesUpTo

LEMMA StillGuards ==
  ASSUME Sound, NEW t \in Tasks, UNCHANGED <<fences, floor, ifloor>>, \A f, h \in fences : f.gen = h.gen => f = h
  PROVE  GuardStep(t) /\ FenceStep(t)
<1>1. floor \in Nat
  BY FenceNumbers
<1> QED BY <1>1 DEF GuardStep, FenceStep, FenceFrom

LEMMA PushOutGives ==
  ASSUME NEW fs, \A f \in fs : f.gen \in Nat, NEW fl \in Nat, PushOut(fs, fl)
  PROVE  /\ fences' \subseteq fs /\ floor' >= fl /\ ifloor \subseteq ifloor'
         /\ \A f \in fs : f \in fences' \/ (f.gen <= floor' /\ (Unfinished(f) => f.gen \in ifloor'))
<1>1. PICK f \in Overflow(fs) : /\ fences' = fs \ {f} /\ floor' = Larger(fl, f.gen)
                                /\ ifloor' = IF Unfinished(f) THEN ifloor \cup {f.gen} ELSE ifloor
  BY DEF PushOut
<1>2. f \in fs /\ f.gen \in Nat
  BY DEF Overflow, Oldest
<1>3. floor' >= fl /\ floor' >= f.gen /\ floor' \in Nat
  BY <1>1, <1>2, LargerIs
<1> QED BY <1>1, <1>2, <1>3

LEMMA EnforceGives ==
  ASSUME NEW fs, \A f \in fs : f.gen \in Nat, NEW fl \in Nat, Enforce(fs, fl)
  PROVE  /\ fences' \subseteq fs /\ floor' >= fl /\ ifloor \subseteq ifloor'
         /\ \A f \in fs : f \in fences' \/ (f.gen <= floor' /\ (Unfinished(f) => f.gen \in ifloor'))
  BY PushOutGives DEF Enforce

LEMMA EndOpGuards ==
  ASSUME Sound, NEW t \in Tasks, TaskStep(t), EndOp(t), task'[t] = Done, \A f, h \in fences : f.gen = h.gen => f = h
  PROVE  GuardStep(t) /\ FenceStep(t)
<1>1. CASE task[t].start = 0
  BY <1>1, StillGuards DEF EndOp
<1>2. CASE task[t].start # 0
  <2> DEFINE ops == {task[u].start : u \in {v \in Tasks \ {t} : task[v].start # 0}}
  <2>1. Enforce(Kept(fences, ops), FloorFor(ops))
    BY <1>2 DEF EndOp
  <2>2. \A u \in Tasks : task'[u].start # 0 => task'[u].start \in ops
    <3>1. \A u \in Tasks \ {t} : task'[u] = task[u]
      BY TaskOthers DEF Sound
    <3> QED BY <3>1, DoneFields
  <2>3. \A u \in Tasks : task'[u].start \in Nat
    <3>1. task' \in [Tasks -> Calls]
      BY TaskOthers DEF Sound
    <3> QED BY <3>1, CallFields
  <2> HIDE DEF ops
  <2>4. /\ \A f \in fences : f.gen \in Nat
        /\ floor \in Nat
    BY FenceNumbers
  <2>5. Kept(fences, ops) \subseteq fences /\ FloorFor(ops) \in Nat
    BY <2>4 DEF Kept, FloorFor
  <2>6. \A f \in fences : f \in Kept(fences, ops) \/ (~Unfinished(f) /\ \A s \in ops : ~(s <= f.gen))
    BY DEF Kept
  <2>7. \A n \in Nat : (\A s \in ops : ~(s <= n)) => Later(n)
    BY <2>2, <2>3 DEF Later
  <2>8. FloorFor(ops) = floor \/ (\A s \in ops : ~(s <= floor))
    BY DEF FloorFor
  <2>9. /\ fences' \subseteq Kept(fences, ops) /\ floor' >= FloorFor(ops) /\ ifloor \subseteq ifloor'
        /\ \A f \in Kept(fences, ops) : f \in fences' \/ (f.gen <= floor' /\ (Unfinished(f) => f.gen \in ifloor'))
    BY <2>1, <2>4, <2>5, EnforceGives
  <2>10. \A f \in fences :
          \/ \E h \in fences' : h.gen = f.gen /\ (Unfinished(f) => Unfinished(h))
          \/ f.gen <= floor' /\ (Unfinished(f) => f.gen \in ifloor')
          \/ ~Unfinished(f) /\ Later(f.gen)
    BY <2>4, <2>6, <2>7, <2>9
  <2>11. floor' >= floor \/ Later(floor)
    BY <2>4, <2>7, <2>8, <2>9
  <2>12. GuardStep(t)
    BY <2>9, <2>10, <2>11 DEF GuardStep
  <2>13. FenceStep(t)
    BY <2>5, <2>9 DEF FenceStep, FenceFrom
  <2> QED BY <2>12, <2>13
<1> QED BY <1>1, <1>2

LEMMA PurgeGuards ==
  ASSUME Sound, NEW t \in Tasks, NEW c \in BOOLEAN, Purge(t, c), \A f, h \in fences : f.gen = h.gen => f = h
  PROVE  /\ GuardStep(t) /\ FenceStep(t)
         /\ genSeq + 1 \in Enforced' /\ (genSeq + 1 <= floor' \/ \E f \in fences' : f.gen = genSeq + 1)
<1> DEFINE n == [gen |-> genSeq + 1, active |-> TRUE, remaining |-> FALSE]
<1>1. Enforce(fences \cup {n}, floor)
  BY DEF Purge
<1>2. n.gen = genSeq + 1 /\ Unfinished(n) /\ n.active
  BY DEF Unfinished
<1> HIDE DEF n
<1>3. /\ \A f \in fences : f.gen \in Nat /\ f.gen <= genSeq
      /\ floor \in Nat /\ genSeq \in Nat
  BY FenceNumbers
<1>4. \A f \in fences \cup {n} : f.gen \in Nat
  BY <1>2, <1>3
<1>5. /\ fences' \subseteq fences \cup {n} /\ floor' >= floor /\ ifloor \subseteq ifloor'
      /\ \A f \in fences \cup {n} : f \in fences' \/ (f.gen <= floor' /\ (Unfinished(f) => f.gen \in ifloor'))
  BY <1>1, <1>3, <1>4, EnforceGives
<1>6. GuardStep(t)
  BY <1>5 DEF GuardStep
<1>7. \A f, h \in fences \cup {n} : f.gen = h.gen => f = h
  <2>1. \A f \in fences : f.gen # n.gen
    BY <1>2, <1>3
  <2> QED BY <2>1
<1>8. FenceStep(t)
  BY <1>2, <1>5, <1>7 DEF FenceStep, FenceFrom
<1>9. n \in fences' \/ (n.gen <= floor' /\ n.gen \in ifloor')
  BY <1>2, <1>5
<1> QED BY <1>2, <1>3, <1>6, <1>8, <1>9 DEF Enforced

(* The fence of a purge that the ledger refused, and a purge of other keys.*)
LEMMA NotAcceptedGuards ==
  ASSUME Sound, NEW t \in Tasks, NEW c \in BOOLEAN, NotAccepted(t, c), \A f, h \in fences : f.gen = h.gen => f = h
  PROVE  GuardStep(t) /\ FenceStep(t)
<1> DEFINE n == [gen |-> genSeq + 1, active |-> FALSE, remaining |-> FALSE]
           fs == fences \cup {n}
<1>1. Enforce(Kept(fs, InflightOps), FloorFor(InflightOps))
  BY DEF NotAccepted
<1>2. n.gen = genSeq + 1 /\ ~Unfinished(n)
  BY DEF Unfinished
<1> HIDE DEF n
<1>3. /\ \A f \in fences : f.gen \in Nat /\ f.gen <= genSeq
      /\ floor \in Nat /\ genSeq \in Nat
  BY FenceNumbers
<1>4. (\A f \in fs : f.gen \in Nat) /\ (\A f, h \in fs : f.gen = h.gen => f = h)
  <2>1. \A f \in fences : f.gen # n.gen
    BY <1>2, <1>3
  <2> QED BY <1>2, <1>3, <2>1
<1>5. \A u \in Tasks : task'[u].start # 0 => task'[u].start \in InflightOps /\ task'[u].start \in Nat
  <2>1. TypeOK /\ TaskStep(t) /\ task'[t] \in {Done, [Idle EXCEPT !.pc = "wipe"]}
    BY NotAcceptedTask, BecomeMoves DEF NotAccepted, Sound
  <2>2. task'[t].start = 0
    <3>1. [Idle EXCEPT !.pc = "wipe"].start = 0
      BY IdleCall, IdleFields DEF Calls
    <3> QED BY <2>1, <3>1, DoneFields
  <2>3. \A u \in Tasks \ {t} : task'[u] = task[u]
    BY <2>1, TaskOthers
  <2>4. \A u \in Tasks : task[u].start \in Nat
    BY <2>1, Types, CallFields
  <2> QED BY <2>2, <2>3, <2>4 DEF InflightOps
<1>6. \A k \in Nat : (\A s \in InflightOps : ~(s <= k)) => Later(k)
  BY <1>5 DEF Later
<1>7. FloorFor(InflightOps) \in Nat /\ (FloorFor(InflightOps) = floor \/ Later(floor))
  BY <1>3, <1>6 DEF FloorFor
<1>8. Kept(fs, InflightOps) \subseteq fs
      /\ \A f \in fs : f \in Kept(fs, InflightOps) \/ (~Unfinished(f) /\ Later(f.gen))
  BY <1>4, <1>6 DEF Kept
<1>9. /\ fences' \subseteq Kept(fs, InflightOps) /\ floor' >= FloorFor(InflightOps) /\ ifloor \subseteq ifloor'
      /\ \A f \in Kept(fs, InflightOps) : f \in fences' \/ (f.gen <= floor' /\ (Unfinished(f) => f.gen \in ifloor'))
  BY <1>1, <1>4, <1>7, <1>8, EnforceGives
<1>10. \A f \in fences :
          \/ \E h \in fences' : h.gen = f.gen /\ (Unfinished(f) => Unfinished(h))
          \/ f.gen <= floor' /\ (Unfinished(f) => f.gen \in ifloor')
          \/ ~Unfinished(f) /\ Later(f.gen)
  BY <1>8, <1>9
<1>11. floor' >= floor \/ Later(floor)
  BY <1>7, <1>9
<1>12. GuardStep(t)
  BY <1>9, <1>10, <1>11 DEF GuardStep
<1>13. FenceStep(t)
  BY <1>2, <1>4, <1>8, <1>9 DEF FenceStep, FenceFrom
<1> QED BY <1>12, <1>13

LEMMA CrowdGuards ==
  ASSUME Sound, NEW t \in Tasks, Crowd(t), \A f, h \in fences : f.gen = h.gen => f = h
  PROVE  GuardStep(t) /\ FenceStep(t)
<1>1. (\A f \in fences : f.gen \in Nat) /\ floor \in Nat
  BY FenceNumbers
<1>2. /\ fences' \subseteq fences /\ floor' >= floor /\ ifloor \subseteq ifloor'
      /\ \A f \in fences : f \in fences' \/ (f.gen <= floor' /\ (Unfinished(f) => f.gen \in ifloor'))
  BY <1>1, PushOutGives DEF Crowd
<1>3. GuardStep(t)
  BY <1>2 DEF GuardStep
<1>4. FenceStep(t)
  BY <1>2 DEF FenceStep, FenceFrom
<1> QED BY <1>3, <1>4

LEMMA CloseGuards ==
  ASSUME Sound, NEW t \in Tasks, Close(t), \A f, h \in fences : f.gen = h.gen => f = h
  PROVE  GuardStep(t) /\ FenceStep(t)
<1>1. TypeOK /\ TaskStep(t) /\ task'[t] = Done /\ task[t].rest \in BOOLEAN
  BY CloseTask, BecomeMoves, Types, CallFields DEF Sound, Close
<1> DEFINE b == Remains(t)
           m == Marked(t, b)
<1>2. b \in BOOLEAN
  BY <1>1 DEF Remains
<1>3. fences' = Kept(m, InflightOps) /\ floor' = FloorFor(InflightOps) /\ ifloor' = IF b THEN ifloor ELSE ifloor \ {task[t].max}
  BY DEF Close, Marked
<1>4. \A f \in fences : f \in Fence /\ f.gen \in Nat
  BY FenceNumbers
<1>5. \A f \in fences : \E h \in m : h.gen = f.gen /\ (Unfinished(f) => Unfinished(h) \/ (~b /\ f.gen = task[t].max))
  <2>1. ASSUME NEW f \in fences, f.gen # task[t].max PROVE f \in m
    BY <2>1 DEF Marked
  <2>2. ASSUME NEW f \in fences, f.gen = task[t].max
        PROVE  \E h \in m : h.gen = f.gen /\ (b => Unfinished(h))
    <3>1. [f EXCEPT !.active = FALSE, !.remaining = b] \in m
      BY <2>2 DEF Marked
    <3>2. [f EXCEPT !.active = FALSE, !.remaining = b].gen = f.gen /\ [f EXCEPT !.active = FALSE, !.remaining = b].remaining = b
      BY <1>4 DEF Fence
    <3> QED BY <3>1, <3>2 DEF Unfinished
  <2> QED BY <1>2, <2>1, <2>2
<1>6. \A h \in m : h.gen \in Nat /\ (h \in fences \/ h.gen = task[t].max)
  <2>1. ASSUME NEW f \in fences PROVE [f EXCEPT !.active = FALSE, !.remaining = b].gen = f.gen
    BY <1>4 DEF Fence
  <2> QED BY <1>4, <2>1 DEF Marked
<1>7. \A f, h \in m : f.gen = h.gen => f = h
  <2>1. \A f \in fences : [f EXCEPT !.active = FALSE, !.remaining = b].gen = f.gen
    BY <1>4 DEF Fence
  <2>2. \A h \in m : \/ h \in fences /\ h.gen # task[t].max
                     \/ h.gen = task[t].max /\ \E f \in fences : f.gen = task[t].max /\ h = [f EXCEPT !.active = FALSE, !.remaining = b]
    BY <2>1 DEF Marked
  <2>3. ASSUME NEW g \in m, NEW h \in m, g.gen = h.gen PROVE g = h
    <3>1. CASE g.gen # task[t].max
      <4>1. g \in fences /\ h \in fences
        BY <2>2, <2>3, <3>1
      <4> QED BY <2>3, <4>1
    <3>2. CASE g.gen = task[t].max
      <4>1. PICK f \in fences : f.gen = task[t].max /\ g = [f EXCEPT !.active = FALSE, !.remaining = b]
        BY <2>2, <3>2
      <4>2. PICK k \in fences : k.gen = task[t].max /\ h = [k EXCEPT !.active = FALSE, !.remaining = b]
        BY <2>2, <2>3, <3>2
      <4>3. f = k
        BY <4>1, <4>2
      <4> QED BY <4>1, <4>2, <4>3
    <3> QED BY <3>1, <3>2
  <2> QED BY <2>3
<1>8. \A u \in Tasks : task'[u].start # 0 => task'[u].start \in InflightOps /\ task'[u].start \in Nat
  <2>1. \A u \in Tasks \ {t} : task'[u] = task[u]
    BY <1>1, TaskOthers
  <2>2. \A u \in Tasks : task[u].start \in Nat
    BY <1>1, Types, CallFields
  <2> QED BY <1>1, <2>1, <2>2, DoneFields DEF InflightOps
<1> HIDE DEF m
<1>9. \A n \in Nat : (\A s \in InflightOps : ~(s <= n)) => Later(n)
  BY <1>8 DEF Later
<1>10. \A h \in m : h \in fences' \/ (~Unfinished(h) /\ Later(h.gen))
  BY <1>3, <1>6, <1>9 DEF Kept
<1>11. floor' >= floor \/ Later(floor)
  <2>1. floor \in Nat
    BY FenceNumbers
  <2> QED BY <1>3, <1>9, <2>1 DEF FloorFor
<1>12. ~b => Lifts(t)
  BY DEF Lifts
<1> HIDE DEF b
<1>13. \A f \in fences :
          \/ \E h \in fences' : h.gen = f.gen /\ (Unfinished(f) => Unfinished(h) \/ (Lifts(t) /\ f.gen = task[t].max))
          \/ (Unfinished(f) => Lifts(t) /\ f.gen = task[t].max) /\ Later(f.gen)
  <2>1. ASSUME NEW f \in fences PROVE
          \/ \E h \in fences' : h.gen = f.gen /\ (Unfinished(f) => Unfinished(h) \/ (Lifts(t) /\ f.gen = task[t].max))
          \/ (Unfinished(f) => Lifts(t) /\ f.gen = task[t].max) /\ Later(f.gen)
    <3>1. PICK h \in m : h.gen = f.gen /\ (Unfinished(f) => Unfinished(h) \/ (~b /\ f.gen = task[t].max))
      BY <1>5
    <3>2. CASE h \in fences'
      BY <1>12, <3>1, <3>2
    <3>3. CASE ~Unfinished(h) /\ Later(h.gen)
      BY <1>12, <3>1, <3>3
    <3> QED BY <1>10, <3>2, <3>3
  <2> QED BY <2>1
<1>14. GuardStep(t)
  BY <1>3, <1>11, <1>12, <1>13 DEF GuardStep
<1>15. FenceStep(t)
  BY <1>3, <1>6, <1>7 DEF FenceStep, FenceFrom, Kept
<1> QED BY <1>14, <1>15

LEMMA RetryGuards ==
  ASSUME Sound, NEW t \in Tasks, Retry(t), \A f, h \in fences : f.gen = h.gen => f = h
  PROVE  /\ GuardStep(t) /\ FenceStep(t) /\ task'[t].pc = "prepare" /\ task'[t].flag
         /\ \E f \in fences : /\ f.gen = task'[t].max /\ ~f.active /\ Unfinished(f) /\ plan' = plan \cup {f.gen} /\ intents' = plan'
                              /\ passed' = (passed \/ PassesOver(f))
                              /\ task'[t].rest = (Held /\ keyGen.gen <= f.gen)
         /\ \E f \in fences' : f.gen = task'[t].max
<1>1. PICK f \in fences :
        /\ ~f.active /\ f.remaining
        /\ fences' = (fences \ {f}) \cup {[f EXCEPT !.active = TRUE]}
        /\ plan' = plan \cup {f.gen} /\ intents' = plan'
        /\ passed' = (passed \/ PassesOver(f))
        /\ Become(t, [Idle EXCEPT !.pc = "prepare", !.max = f.gen, !.flag = TRUE, !.rest = Held /\ keyGen.gen <= f.gen])
  BY DEF Retry
<1>2. task'[t].pc = "prepare" /\ task'[t].max = f.gen /\ task'[t].flag = TRUE /\ task'[t].rest = (Held /\ keyGen.gen <= f.gen)
  <2>1. task'[t] = [Idle EXCEPT !.pc = "prepare", !.max = f.gen, !.flag = TRUE, !.rest = Held /\ keyGen.gen <= f.gen]
    BY <1>1, BecomeMoves DEF Sound
  <2> QED BY <2>1, IdleCall DEF Calls
<1> DEFINE h == [f EXCEPT !.active = TRUE]
<1>3. h.gen = f.gen /\ h.active /\ Unfinished(h)
  <2>1. f \in Fence
    BY FenceNumbers
  <2> QED BY <2>1 DEF Fence, Unfinished
<1>4. fences' = (fences \ {f}) \cup {h} /\ UNCHANGED <<floor, ifloor>>
  BY <1>1 DEF Retry
<1> HIDE DEF h
<1>5. floor \in Nat
  BY FenceNumbers
<1>6. GuardStep(t)
  BY <1>3, <1>4, <1>5 DEF GuardStep
<1>7. FenceStep(t)
  <2>1. \A g, k \in fences' : g.gen = k.gen => g = k
    BY <1>3, <1>4
  <2> QED BY <1>2, <1>3, <1>4, <2>1 DEF FenceStep, FenceFrom
<1> QED BY <1>1, <1>2, <1>3, <1>4, <1>6, <1>7 DEF Unfinished

LEMMA ActGuards ==
  ASSUME Sound, FencesOwned, NEW t \in Tasks, Act(t), ~\E c \in BOOLEAN : PurgeAll(t, c)
  PROVE  GuardStep(t) /\ FenceStep(t) /\ purgeGen' = purgeGen
<1>1. TypeOK /\ TaskStep(t) /\ \A f, h \in fences : f.gen = h.gen => f = h
  BY ActTask DEF Sound, FencesOwned
<1>2. CASE Discard(t) \/ Publish(t) \/ Undo(t) \/ Check(t) \/ Drop(t)
  <2>1. UNCHANGED <<fences, floor, ifloor>> \/ (EndOp(t) /\ task'[t] = Done)
    BY <1>1, <1>2, BecomeMoves DEF Discard, Publish, Undo, Check, Drop
  <2>2. purgeGen' = purgeGen
    BY <1>2 DEF Discard, Publish, Undo, Check, Drop
  <2> QED BY <1>1, <2>1, <2>2, StillGuards, EndOpGuards
<1>3. CASE \/ Begin(t) \/ Commit(t) \/ Refuse(t) \/ Restore(t) \/ Unstore(t) \/ Evict(t) \/ Flush(t)
           \/ Lookup(t) \/ Screen(t) \/ Probe(t) \/ Read(t) \/ Promote(t) \/ DeleteBegin(t) \/ DeleteMem(t) \/ DeleteDisk(t)
           \/ Wipe(t) \/ Prepare(t) \/ Batch(t) \/ Cancel(t) \/ Unlink(t) \/ CloseAll(t)
  <2>1. UNCHANGED <<fences, floor, ifloor, purgeGen>>
    BY <1>3 DEF Begin, Commit, Refuse, Restore, Unstore, Evict, Flush, Lookup, Screen, Probe, Read, Promote, DeleteBegin,
                DeleteMem, DeleteDisk, Wipe, Prepare, Batch, Cancel, Unlink, CloseAll, barriers
  <2> QED BY <1>1, <2>1, StillGuards
<1>4. CASE \E c \in BOOLEAN : Purge(t, c)
  BY <1>1, <1>4, PurgeGuards DEF Purge
<1>5. CASE Close(t)
  BY <1>1, <1>5, CloseGuards DEF Close
<1>6. CASE Retry(t)
  BY <1>1, <1>6, RetryGuards DEF Retry
<1>7. CASE Crowd(t)
  BY <1>1, <1>7, CrowdGuards DEF Crowd
<1>8. CASE \E c \in BOOLEAN : NotAccepted(t, c)
  BY <1>1, <1>8, NotAcceptedGuards DEF NotAccepted
<1> QED BY <1>2, <1>3, <1>4, <1>5, <1>6, <1>7, <1>8 DEF Act

(* What a step does to the manifest and to the purges that count. *)
LEMMA ActManifest ==
  ASSUME Sound, NEW t \in Tasks, Act(t)
  PROVE  /\ \A c \in plan : \/ c \in plan' \/ (Lifts(t) /\ c = task[t].max)
                            \/ (CloseAll(t) /\ ~Remains(t) /\ c <= task[t].max)
         /\ hw' = hw \/ (Prepare(t) /\ hw' = Larger(hw, task[t].max))
         /\ \/ UNCHANGED <<purges, owed, owedGen, durable, durableGen>>
            \/ Prepare(t) /\ UNCHANGED <<purges, owed, owedGen>>
            \/ \E c \in BOOLEAN : Purge(t, c) \/ PurgeAll(t, c)
<1>1. plan \subseteq 1 .. genSeq
  BY DEF Sound, TypeOK
<1>2. CASE \/ Begin(t) \/ Discard(t) \/ Publish(t) \/ Commit(t) \/ Refuse(t) \/ Restore(t) \/ Undo(t)
           \/ Check(t) \/ Unstore(t) \/ Drop(t) \/ Evict(t) \/ Flush(t)
  <2>1. UNCHANGED <<plan, hw, purges, owed, owedGen, durable, durableGen>>
    BY <1>2 DEF Begin, Discard, Publish, Commit, Refuse, Restore, Undo, Check, Unstore, Drop, Evict, Flush,
                disk, counters, purgeHistory
  <2> QED BY <2>1
<1>3. CASE \/ Lookup(t) \/ Screen(t) \/ Probe(t) \/ Read(t) \/ Promote(t) \/ DeleteBegin(t) \/ DeleteMem(t) \/ DeleteDisk(t)
           \/ Wipe(t) \/ Batch(t) \/ Cancel(t) \/ Unlink(t) \/ Crowd(t)
  <2>1. UNCHANGED <<plan, hw, purges, owed, owedGen, durable, durableGen>>
    BY <1>3 DEF Lookup, Screen, Probe, Read, Promote, DeleteBegin, DeleteMem, DeleteDisk, Wipe, Batch, Cancel, Unlink, Crowd,
                disk, counters, purgeHistory
  <2> QED BY <2>1
<1>4. CASE Prepare(t)
  BY <1>4 DEF Prepare
<1>5. CASE \E c \in BOOLEAN : Purge(t, c) \/ PurgeAll(t, c)
  BY <1>5 DEF Purge, PurgeAll, Accept
<1>6. CASE Close(t)
  <2>1. UNCHANGED <<hw, purges, owed, owedGen, durable, durableGen>>
    BY <1>6 DEF Close, counters, purgeHistory
  <2>2. plan' = plan \/ (plan' = plan \ {task[t].max} /\ Lifts(t))
    BY <1>6 DEF Close, Complete, Lifts
  <2> QED BY <2>1, <2>2
<1>7. CASE CloseAll(t)
  <2>1. UNCHANGED <<hw, purges, owed, owedGen, durable, durableGen>>
    BY <1>7 DEF CloseAll, counters, purgeHistory
  <2>2. plan' = plan \/ (plan' = plan \ (1 .. task[t].max) /\ ~Remains(t))
    BY <1>7 DEF CloseAll, Complete
  <2> QED BY <1>1, <1>7, <2>1, <2>2
<1>8. CASE Retry(t)
  BY <1>8 DEF Retry, purgeHistory
<1>9. CASE \E c \in BOOLEAN : NotAccepted(t, c)
  BY <1>9 DEF NotAccepted, counters, purgeHistory
<1> QED BY <1>2, <1>3, <1>4, <1>5, <1>6, <1>7, <1>8, <1>9 DEF Act

LEMMA ScopedStays ==
  ASSUME Sound, NEW t \in Tasks, Act(t), Scoped(t)'
  PROVE  \/ /\ Scoped(t) /\ task'[t].max = task[t].max /\ task'[t].pc # "prepare" /\ task'[t].flag = task[t].flag
            /\ task'[t].since = task[t].since
            /\ Prepare(t) \/ task[t].pc # "prepare"
         \/ \E c \in BOOLEAN : Purge(t, c)
         \/ Retry(t)
<1>1. Arrives(t)
  BY ActArrives
<1>2. CASE Prepare(t)
  BY <1>2, PrepareMoves DEF Scoped, ScopedAt
<1>3. CASE Batch(t)
  BY <1>3, BatchMoves DEF Scoped, ScopedAt
<1>4. CASE Cancel(t)
  BY <1>4, CancelMoves DEF Scoped, ScopedAt
<1>5. CASE Unlink(t)
  BY <1>5, UnlinkMoves DEF Scoped, ScopedAt
<1> QED BY <1>1, <1>2, <1>3, <1>4, <1>5 DEF Arrives, Scoped, ScopedAt

LEMMA AllStays ==
  ASSUME Sound, NEW t \in Tasks, Act(t), task'[t].pc \in AllAt
  PROVE  \/ task[t].pc \in AllAt /\ task'[t].max = task[t].max
         \/ \E c \in BOOLEAN : PurgeAll(t, c)
<1>1. Arrives(t)
  BY ActArrives
<1>2. CASE Prepare(t)
  BY <1>2, PrepareMoves DEF AllAt
<1>3. CASE Unlink(t)
  BY <1>3, UnlinkMoves DEF AllAt
<1> QED BY <1>1, <1>2, <1>3 DEF Arrives, AllAt

LEMMA ScopedNumbers ==
  ASSUME Sound, NEW t \in Tasks
  PROVE  task[t].max \in Nat /\ (task[t].pc \in ScopedAt \cup AllAt => task[t].max <= genSeq)
  BY Types, CallFields DEF Sound, Bounded, ScopedAt, AllAt, DeleteAt

LEMMA LiftsAt ==
  ASSUME NEW t \in Tasks, Lifts(t)
  PROVE  Scoped(t) /\ task[t].pc = "close" /\ Through(t) /\ Cleared(t)
  BY DEF Lifts, Close, Remains, Scoped, ScopedAt, Through, Cleared

LEMMA BarredKept ==
  ASSUME Sound, NEW t \in Tasks, Act(t), NEW c \in Barred
  PROVE  c \in Barred' /\ c \in Nat
<1>1. c \in Nat /\ c <= owedGen /\ owedGen \in Nat /\ owedGen <= genSeq /\ genSeq \in Nat
  BY HaveTypes, FenceNumbers DEF Barred, CounterTypes
<1>2. owedGen' = owedGen \/ owedGen' = genSeq + 1
  BY ActManifest DEF Purge, PurgeAll, Accept
<1> QED BY <1>1, <1>2 DEF Barred

LEMMA CloseFences ==
  ASSUME Sound, NEW t \in Tasks, Close(t), NEW f \in fences'
  PROVE  \E h \in fences : h.gen = f.gen
<1>1. f \in Marked(t, Remains(t))
  BY DEF Close, Marked, Kept
<1>2. \A h \in fences : [h EXCEPT !.active = FALSE, !.remaining = Remains(t)].gen = h.gen
  BY FenceNumbers DEF Fence
<1> QED BY <1>1, <1>2 DEF Marked

LEMMA RetryActive ==
  ASSUME Sound, NEW t \in Tasks, Retry(t), NEW f \in fences', f.gen = task'[t].max, \A g, h \in fences : g.gen = h.gen => g = h
  PROVE  f.active
<1>1. PICK g \in fences :
        /\ fences' = (fences \ {g}) \cup {[g EXCEPT !.active = TRUE]}
        /\ Become(t, [Idle EXCEPT !.pc = "prepare", !.max = g.gen, !.flag = TRUE, !.rest = Held /\ keyGen.gen <= g.gen])
  BY DEF Retry
<1>2. task'[t].max = g.gen
  <2>1. task'[t] = [Idle EXCEPT !.pc = "prepare", !.max = g.gen, !.flag = TRUE, !.rest = Held /\ keyGen.gen <= g.gen]
    BY <1>1, BecomeMoves DEF Sound
  <2> QED BY <2>1, IdleCall DEF Calls
<1>3. [g EXCEPT !.active = TRUE].active = TRUE
  BY FenceNumbers DEF Fence
<1>4. f \notin fences \ {g}
  BY <1>2
<1> QED BY <1>1, <1>3, <1>4

LEMMA ActWorkFenced ==
  ASSUME Sound, Barriers, NEW t \in Tasks, Act(t)
  PROVE  WorkFenced'
<1>1. TypeOK /\ TaskStep(t) /\ Arrives(t)
  BY ActTask, ActArrives DEF Sound
<1>2. \A u \in Tasks \ {t} : task'[u] = task[u]
  BY <1>1, TaskOthers
<1>3. genSeq \in Nat /\ purgeGen \in Nat /\ purges \in Nat /\ owed \in Nat /\ owed <= purges
  BY Types DEF Sound, Counted
<1>4. \A u \in Tasks : task[u].start \in Nat /\ task[u].start <= genSeq /\ task[u].seen \in Nat
  BY <1>1, Types, CallFields DEF Sound, Bounded
<1>5. \A u \in Tasks : task'[u].pc \in {"origin", "write"} => task'[u].start # 0 /\ task'[u].start \in Nat
  <2>1. task' \in [Tasks -> Calls] /\ Shaped(task'[t]) /\ \A u \in Tasks : Shaped(task[u])
    BY <1>1, TaskOthers DEF TaskStep, Sound
  <2>2. \A u \in Tasks : Shaped(task'[u])
    BY <1>2, <2>1
  <2> QED BY <2>1, <2>2, CallFields DEF Shaped
<1>6. ASSUME NEW u \in Tasks, task'[u].pc \in {"origin", "write"}, task'[u].seen < owed'
      PROVE  task'[u].start \in Fenced'
  <2>1. CASE \E c \in BOOLEAN : Purge(t, c) \/ PurgeAll(t, c)
    <3>1. task'[t].pc \notin {"origin", "write"}
      BY <2>1, PurgeMoves, PurgeAllMoves
    <3>2. task'[u] = task[u]
      BY <1>2, <1>6, <3>1
    <3>3. task'[u].start \in Nat /\ task'[u].start <= genSeq
      BY <1>4, <3>2
    <3>4. CASE \E c \in BOOLEAN : PurgeAll(t, c)
      <4>1. purgeGen' = genSeq + 1
        BY <3>4 DEF PurgeAll
      <4>2. task'[u].start <= purgeGen'
        BY <1>3, <3>3, <4>1
      <4> QED BY <3>3, <4>2 DEF Fenced
    <3>5. CASE \E c \in BOOLEAN : Purge(t, c)
      <4>1. genSeq + 1 <= floor' \/ \E f \in fences' : f.gen = genSeq + 1
        BY <3>5, PurgeGuards DEF Barriers, FencesOwned
      <4>2. floor' \in Nat
        <5>1. BarrierTypes'
          BY ActBarriers
        <5> QED BY <5>1 DEF BarrierTypes
      <4>3. task'[u].start <= floor' \/ \E f \in fences' : task'[u].start <= f.gen
        BY <1>3, <3>3, <4>1, <4>2
      <4> QED BY <3>3, <4>3 DEF Fenced
    <3> QED BY <2>1, <3>4, <3>5
  <2>2. CASE ~\E c \in BOOLEAN : Purge(t, c) \/ PurgeAll(t, c)
    <3>1. owed' = owed
      BY <2>2, ActManifest
    <3>2. task[u].pc \in {"origin", "write"} /\ task[u].seen = task'[u].seen /\ task[u].start = task'[u].start
      <4>1. CASE u = t /\ task'[t].pc = "origin"
        <5>1. task'[t].seen = purges
          BY <1>1, <4>1, BeginMoves DEF Arrives
        <5> QED BY <1>3, <1>6, <3>1, <4>1, <5>1
      <4>2. CASE u = t /\ task'[t].pc = "write"
        BY <1>1, <4>2, WriteIs DEF Arrives
      <4>3. CASE u # t
        BY <1>2, <1>6, <4>3
      <4> QED BY <1>6, <4>1, <4>2, <4>3
    <3>3. task[u].start \in Fenced
      BY <1>6, <3>1, <3>2 DEF Barriers, WorkFenced
    <3>4. GuardStep(t) /\ purgeGen' = purgeGen
      BY <2>2, ActGuards DEF Barriers
    <3>5. task'[u].start # 0 /\ task'[u].start \in Nat /\ floor \in Nat /\ floor' \in Nat
      <4>1. BarrierTypes'
        BY ActBarriers
      <4> QED BY <1>5, <1>6, <4>1, FenceNumbers DEF BarrierTypes
    <3>6. CASE task[u].start <= purgeGen
      BY <3>2, <3>4, <3>5, <3>6 DEF Fenced
    <3>7. CASE task[u].start <= floor
      <4>1. ~Later(floor)
        BY <3>2, <3>5, <3>7 DEF Later
      <4>2. task'[u].start <= floor'
        BY <3>2, <3>4, <3>5, <3>7, <4>1 DEF GuardStep
      <4> QED BY <3>5, <4>2 DEF Fenced
    <3>8. ASSUME NEW f \in fences, task[u].start <= f.gen PROVE task'[u].start \in Fenced'
      <4>1. f.gen \in Nat
        BY FenceNumbers
      <4>2. ~Later(f.gen)
        BY <3>2, <3>5, <3>8, <4>1 DEF Later
      <4>3. (\E h \in fences' : h.gen = f.gen) \/ f.gen <= floor'
        BY <3>4, <4>2 DEF GuardStep
      <4>4. (\E h \in fences' : task'[u].start <= h.gen) \/ task'[u].start <= floor'
        BY <3>2, <3>5, <3>8, <4>1, <4>3
      <4> QED BY <3>5, <4>4 DEF Fenced
    <3> QED BY <3>3, <3>6, <3>7, <3>8 DEF Fenced
  <2> QED BY <2>1, <2>2
<1> QED BY <1>6 DEF WorkFenced

LEMMA ActFencesOwned ==
  ASSUME Sound, Barriers, NEW t \in Tasks, Act(t)
  PROVE  FencesOwned'
<1>1. TypeOK /\ TaskStep(t) /\ FencesOwned /\ CutoffsKnown
  BY ActTask DEF Sound, Barriers
<1>2. \A u \in Tasks \ {t} : task'[u] = task[u]
  BY <1>1, TaskOthers
<1>3. genSeq \in Nat /\ purgeGen \in Nat /\ purgeGen <= genSeq /\ \A f \in fences : f.gen \in Nat /\ f.gen <= genSeq
  BY FenceNumbers
<1>4. \A u \in Tasks : task[u].max \in Nat /\ (Scoped(u) => task[u].max <= genSeq)
  BY ScopedNumbers DEF Scoped
<1>5. ASSUME NEW u \in Tasks, NEW v \in Tasks, Scoped(u)', Scoped(v)', u = t, v # t PROVE task'[u].max # task'[v].max
  <2>1. task'[v] = task[v] /\ Scoped(v)
    BY <1>2, <1>5 DEF Scoped
  <2>2. CASE Scoped(t) /\ task'[t].max = task[t].max
    BY <1>1, <1>5, <2>1, <2>2 DEF FencesOwned
  <2>3. CASE \E c \in BOOLEAN : Purge(t, c)
    <3>1. task'[t].max = genSeq + 1
      BY <2>3, PurgeMoves
    <3> QED BY <1>3, <1>4, <1>5, <2>1, <3>1
  <2>4. CASE Retry(t)
    <3>1. PICK f \in fences : f.gen = task'[t].max /\ ~f.active
      BY <1>1, <2>4, RetryGuards DEF FencesOwned
    <3> QED BY <1>1, <1>5, <2>1, <3>1 DEF FencesOwned
  <2> QED BY <1>5, <2>2, <2>3, <2>4, ScopedStays
<1>6. ASSUME NEW u \in Tasks, NEW v \in Tasks, Scoped(u)', Scoped(v)', u # v PROVE task'[u].max # task'[v].max
  <2>1. CASE u # t /\ v # t
    BY <1>1, <1>2, <1>6, <2>1 DEF FencesOwned, Scoped
  <2> QED BY <1>5, <1>6, <2>1
<1>7. CASE \E c \in BOOLEAN : PurgeAll(t, c)
  <2>1. fences' = {}
    BY <1>7 DEF PurgeAll
  <2> QED BY <1>6, <2>1 DEF FencesOwned
<1>8. CASE ~\E c \in BOOLEAN : PurgeAll(t, c)
  <2>1. FenceStep(t) /\ purgeGen' = purgeGen
    BY <1>1, <1>8, ActGuards
  <2>2. \A g \in Barred : g \in Barred'
    BY BarredKept
  <2>3. Retry(t) => \E f \in fences : f.gen = task'[t].max /\ Unfinished(f)
    BY <1>1, RetryGuards DEF FencesOwned
  <2>4. Close(t) => task[t].pc = "close" /\ Scoped(t) /\ task[t].max \in Barred
    BY <1>1 DEF Close, CutoffsKnown, Scoped, ScopedAt
  <2>5. ASSUME NEW f \in fences' PROVE f.gen > purgeGen' /\ (Unfinished(f) => f.gen \in Barred')
    <3>1. FenceFrom(t, f)
      BY <2>1, <2>5 DEF FenceStep
    <3>2. CASE f \in fences
      <4>1. f.gen > purgeGen /\ (Unfinished(f) => f.gen \in Barred)
        BY <1>1, <3>2 DEF FencesOwned
      <4> QED BY <2>1, <2>2, <4>1
    <3>3. CASE f.gen = genSeq + 1 /\ \E c \in BOOLEAN : Purge(t, c)
      <4>1. owedGen' = genSeq + 1
        BY <3>3 DEF Purge, Accept
      <4> QED BY <1>3, <2>1, <3>3, <4>1 DEF Barred
    <3>6. CASE f.gen = genSeq + 1 /\ ~Unfinished(f)
      BY <1>3, <2>1, <3>6
    <3>4. CASE f.gen = task'[t].max /\ f.active /\ Retry(t)
      BY <1>1, <2>1, <2>2, <2>3, <3>4 DEF FencesOwned
    <3>5. CASE f.gen = task[t].max /\ Close(t)
      <4>1. task[t].max \in Barred'
        BY <2>2, <2>4, <3>5
      <4>2. f.gen > purgeGen
        <5>1. \E h \in fences : h.gen = f.gen
          BY <2>5, <3>5, CloseFences
        <5> QED BY <1>1, <5>1 DEF FencesOwned
      <4> QED BY <2>1, <3>5, <4>1, <4>2
    <3> QED BY <3>1, <3>2, <3>3, <3>4, <3>5, <3>6 DEF FenceFrom
  <2>6. ASSUME NEW u \in Tasks, Scoped(u)', NEW f \in fences', f.gen = task'[u].max PROVE f.active
    <3>1. FenceFrom(t, f)
      BY <2>1, <2>6 DEF FenceStep
    <3>2. CASE f \in fences
      <4>1. CASE Scoped(u) /\ task'[u].max = task[u].max
        BY <1>1, <2>6, <3>2, <4>1 DEF FencesOwned
      <4>2. CASE u = t /\ \E c \in BOOLEAN : Purge(t, c)
        <5>1. task'[t].max = genSeq + 1
          BY <4>2, PurgeMoves
        <5> QED BY <1>3, <2>6, <3>2, <4>2, <5>1
      <4>3. CASE u = t /\ Retry(t)
        BY <1>1, <2>6, <4>3, RetryActive DEF FencesOwned
      <4>4. u # t => task'[u] = task[u] /\ Scoped(u)
        BY <1>2, <2>6 DEF Scoped
      <4> QED BY <2>6, <4>1, <4>2, <4>3, <4>4, ScopedStays
    <3>3. CASE f.gen = task[t].max /\ Close(t)
      <4>1. u # t
        <5>1. task'[t] = Done
          BY <1>1, <3>3, BecomeMoves DEF Close
        <5> QED BY <2>6, <5>1, DoneFields DEF Scoped, ScopedAt
      <4>2. task'[u] = task[u] /\ Scoped(u)
        BY <1>2, <2>6, <4>1 DEF Scoped
      <4> QED BY <1>1, <2>4, <2>6, <3>3, <4>1, <4>2 DEF FencesOwned
    <3>4. CASE f.gen = genSeq + 1 /\ \E c \in BOOLEAN : NotAccepted(t, c)
      <4>1. Scoped(u) /\ task'[u].max = task[u].max
        <5>1. CASE u = t
          <6>1. task'[t] \in {Done, [Idle EXCEPT !.pc = "wipe"]}
            BY <1>1, <3>4, BecomeMoves DEF NotAccepted
          <6>2. task'[t].pc \in {"done", "wipe"}
            BY <6>1, DoneFields, IdleCall DEF Calls
          <6> QED BY <2>6, <5>1, <6>2 DEF Scoped, ScopedAt
        <5>2. CASE u # t
          BY <1>2, <2>6, <5>2 DEF Scoped
        <5> QED BY <5>1, <5>2
      <4>2. task[u].max \in Nat /\ task[u].max <= genSeq /\ genSeq \in Nat
        BY <1>3, <1>4, <4>1
      <4>3. task[u].max = genSeq + 1
        BY <2>6, <3>4, <4>1
      <4> QED BY <4>2, <4>3
    <3> QED BY <3>1, <3>2, <3>3, <3>4 DEF FenceFrom
  <2> QED BY <1>6, <2>1, <2>5, <2>6 DEF FencesOwned, FenceStep
<1> QED BY <1>7, <1>8

LEMMA ActCutoffsKnown ==
  ASSUME Sound, Barriers, NEW t \in Tasks, Act(t)
  PROVE  CutoffsKnown'
<1>1. TypeOK /\ TaskStep(t) /\ FencesOwned /\ CutoffsKnown
  BY ActTask DEF Sound, Barriers
<1>2. \A u \in Tasks \ {t} : task'[u] = task[u]
  BY <1>1, TaskOthers
<1>3. genSeq \in Nat /\ purgeGen \in Nat /\ purgeGen <= genSeq /\ purgeGen' \in {purgeGen, genSeq + 1}
      /\ \A f \in fences : f.gen \in Nat /\ f.gen <= genSeq
  BY FenceNumbers, GenSeqGrows
<1>4. \A u \in Tasks : task[u].max \in Nat /\ (task[u].pc \in ScopedAt \cup AllAt => task[u].max <= genSeq)
  BY ScopedNumbers
<1>6. \A c \in Barred : c \in Barred' /\ c \in Nat
  BY BarredKept
<1>7. (\E c \in BOOLEAN : Purge(t, c)) => genSeq + 1 \in Barred' /\ task'[t].max = genSeq + 1 /\ purgeGen' = purgeGen /\ task'[t].pc = "prepare"
  <2>1. ASSUME NEW c \in BOOLEAN, Purge(t, c) PROVE genSeq + 1 \in Barred' /\ task'[t].max = genSeq + 1 /\ purgeGen' = purgeGen /\ task'[t].pc = "prepare"
    <3>1. owedGen' = genSeq + 1
      BY <2>1 DEF Purge, Accept
    <3>2. genSeq + 1 \in Barred'
      BY <1>3, <3>1 DEF Barred
    <3> QED BY <2>1, <3>2, PurgeMoves DEF Purge
  <2> QED BY <2>1
<1>8. (\E c \in BOOLEAN : PurgeAll(t, c)) => genSeq + 1 \in Barred' /\ purgeGen' = genSeq + 1 /\ task'[t].pc = "prepareall" /\ task'[t].max = genSeq + 1
  <2>1. ASSUME NEW c \in BOOLEAN, PurgeAll(t, c) PROVE genSeq + 1 \in Barred' /\ purgeGen' = genSeq + 1 /\ task'[t].pc = "prepareall" /\ task'[t].max = genSeq + 1
    <3>1. purgeGen' = genSeq + 1
      BY <2>1 DEF PurgeAll
    <3>2. task'[t].pc = "prepareall" /\ task'[t].max = genSeq + 1
      BY <2>1, PurgeAllMoves, Zenon
    <3>3. genSeq + 1 \in Nat /\ owedGen' = genSeq + 1
      BY <1>3, <2>1 DEF PurgeAll, Accept
    <3>4. genSeq + 1 \in Barred'
      BY <3>3 DEF Barred
    <3> QED BY <3>1, <3>2, <3>4
  <2> QED BY <2>1
<1>9. Retry(t) => task'[t].max \in Barred' /\ task'[t].max # purgeGen' /\ task'[t].pc = "prepare" /\ task'[t].flag
  <2>1. ASSUME Retry(t) PROVE task'[t].max \in Barred' /\ task'[t].max # purgeGen' /\ task'[t].pc = "prepare" /\ task'[t].flag
    <3>1. PICK f \in fences : f.gen = task'[t].max /\ Unfinished(f)
      BY <1>1, <2>1, RetryGuards DEF FencesOwned
    <3>3. f.gen > purgeGen /\ f.gen \in Nat
      BY <1>1, <1>3 DEF FencesOwned
    <3>4. purgeGen' = purgeGen
      BY <2>1 DEF Retry
    <3>5. task'[t].max \in Barred'
      BY <1>1, <1>6, <3>1 DEF FencesOwned
    <3>6. task'[t].pc = "prepare" /\ task'[t].flag
      BY <1>1, <2>1, RetryGuards DEF FencesOwned
    <3> QED BY <1>3, <3>1, <3>3, <3>4, <3>5, <3>6
  <2> QED BY <2>1
<1>10. ASSUME NEW u \in Tasks, Scoped(u)' PROVE task'[u].max # purgeGen' /\ task'[u].max \in Barred'
  <2>1. CASE Scoped(u) /\ task'[u].max = task[u].max
    <3>1. task[u].max # purgeGen /\ task[u].max \in Barred /\ task[u].max <= genSeq
      BY <1>1, <1>4, <2>1 DEF CutoffsKnown, Scoped
    <3> QED BY <1>3, <1>4, <1>6, <2>1, <3>1
  <2>2. CASE u = t /\ \E c \in BOOLEAN : Purge(t, c)
    BY <1>3, <1>7, <2>2
  <2>3. CASE u = t /\ Retry(t)
    BY <1>9, <2>3
  <2>4. u # t => task'[u] = task[u] /\ Scoped(u)
    BY <1>2, <1>10 DEF Scoped
  <2> QED BY <1>10, <2>1, <2>2, <2>3, <2>4, ScopedStays
<1>12. ASSUME NEW u \in Tasks, task'[u].pc \in AllAt PROVE task'[u].max <= purgeGen'
  <2>1. CASE task[u].pc \in AllAt /\ task'[u].max = task[u].max
    <3>1. task[u].max <= purgeGen
      BY <1>1, <2>1 DEF CutoffsKnown
    <3> QED BY <1>3, <1>4, <2>1, <3>1
  <2>2. CASE u = t /\ \E c \in BOOLEAN : PurgeAll(t, c)
    BY <1>3, <1>8, <2>2
  <2>3. u # t => task'[u] = task[u]
    BY <1>2
  <2> QED BY <1>12, <2>1, <2>2, <2>3, AllStays
<1>13. ASSUME NEW u \in Tasks, task'[u].pc = "prepare", ~task'[u].flag PROVE task'[u].max \in plan' \/ task'[u].max <= purgeGen'
  <2>1. CASE u = t
    <3>1. \E c \in BOOLEAN : Purge(t, c)
      BY <1>9, <1>13, <2>1, ActArrives DEF Arrives
    <3>2. genSeq + 1 \in plan'
      BY <3>1 DEF Purge, Accept
    <3> QED BY <1>7, <2>1, <3>1, <3>2
  <2>2. CASE u # t
    <3>1. task'[u] = task[u] /\ Scoped(u)
      BY <1>2, <1>13, <2>2 DEF Scoped, ScopedAt
    <3>2. CASE task[u].max <= purgeGen
      BY <1>3, <1>4, <3>1, <3>2
    <3>3. CASE task[u].max \in plan /\ ~(task[u].max <= purgeGen)
      <4>1. Lifts(t) => task[t].max # task[u].max
        BY <1>1, <2>2, <3>1, LiftsAt DEF FencesOwned
      <4>2. CloseAll(t) => ~(task[u].max <= task[t].max)
        <5>1. CloseAll(t) => task[t].max <= purgeGen
          BY <1>1 DEF CloseAll, CutoffsKnown, AllAt
        <5> QED BY <1>3, <1>4, <3>3, <5>1
      <4> QED BY <3>1, <3>3, <4>1, <4>2, ActManifest
    <3> QED BY <1>1, <1>13, <3>1, <3>2, <3>3 DEF CutoffsKnown
  <2> QED BY <2>1, <2>2
<1>11. purgeGen' \in Barred'
  <2>1. CASE \E c \in BOOLEAN : PurgeAll(t, c)
    BY <1>8, <2>1
  <2>2. CASE ~\E c \in BOOLEAN : PurgeAll(t, c)
    BY <1>1, <1>6, <2>2, ActGuards DEF CutoffsKnown
  <2> QED BY <2>1, <2>2
<1>14. owedGen' \in Barred' /\ durableGen' \in Barred'
  <2>1. owedGen \in Barred' /\ durableGen \in Barred'
    BY <1>1, <1>6 DEF CutoffsKnown
  <2>2. CASE UNCHANGED <<owedGen, durableGen>>
    BY <2>1, <2>2
  <2>3. CASE \E c \in BOOLEAN : Purge(t, c) \/ PurgeAll(t, c)
    <3>1. owedGen' = genSeq + 1 /\ durableGen' \in {durableGen, genSeq + 1}
      BY <2>3 DEF Purge, PurgeAll, Accept
    <3> QED BY <1>7, <1>8, <2>1, <2>3, <3>1
  <2>4. CASE Prepare(t) /\ owedGen' = owedGen
    <3>1. durableGen' \in {durableGen, task[t].max}
      BY <2>4 DEF Prepare
    <3>2. task[t].max \in Barred'
      <4>1. Scoped(t) \/ task[t].pc \in AllAt
        BY <2>4 DEF Prepare, Scoped, ScopedAt, AllAt
      <4>2. task[t].pc \in AllAt => task[t].max <= purgeGen
        BY <1>1 DEF CutoffsKnown
      <4>3. task[t].max \in Barred
        BY <1>1, <1>3, <1>4, <4>1, <4>2, HaveTypes DEF CutoffsKnown, Barred, CounterTypes
      <4> QED BY <1>6, <4>3
    <3> QED BY <2>1, <2>4, <3>1, <3>2
  <2> QED BY <2>2, <2>3, <2>4, ActManifest
<1> QED BY <1>10, <1>11, <1>12, <1>13, <1>14 DEF CutoffsKnown

LEMMA ActLeftovers ==
  ASSUME Sound, Sound', Ordered, Barriers, NEW t \in Tasks, Act(t)
  PROVE  Leftovers'
<1>1. TypeOK /\ TaskStep(t) /\ FencesOwned /\ CutoffsKnown /\ Leftovers /\ ItemMove(t)
  BY ActTask, ActTiers DEF Sound, Barriers
<1>2. \A u \in Tasks \ {t} : task'[u] = task[u]
  BY <1>1, TaskOthers
<1>3. genSeq \in Nat /\ purgeGen \in Nat /\ purgeGen <= genSeq /\ purgeGen' \in {purgeGen, genSeq + 1}
      /\ KG \in Nat /\ (item # None => item.gen \in Nat /\ item.gen <= genSeq /\ item.gen >= 1)
  BY WriteNumbers, GenSeqGrows
<1>4. \A u \in Tasks : task[u].max \in Nat /\ (task[u].pc \in ScopedAt \cup AllAt => task[u].max <= genSeq)
  BY ScopedNumbers
(* A new file is newer than any purge of everything. *)
<1>5. item' \notin {item, None} => item'.gen > purgeGen /\ item'.gen \in Nat /\ purgeGen' = purgeGen /\ item'.gen = KG
  <2>1. ASSUME item' \notin {item, None} PROVE item'.gen > purgeGen /\ item'.gen \in Nat /\ purgeGen' = purgeGen /\ item'.gen = KG
    <3>1. task[t].pc \in {"write", "flush"} /\ CanCommit(t) /\ item' = task[t].ent
      BY <1>1, <2>1 DEF ItemMove
    <3>2. task[t].ent.gen \in Nat /\ task[t].ent.gen >= 1
      BY <3>1, WriteNumbers DEF OtherCarry
    <3>3. KG = task[t].ent.gen
      BY <3>1, <3>2 DEF CanCommit, IsCurrent, KG, GenOf
    <3>4. KG > purgeGen
      BY <1>3, <3>2, <3>3 DEF Ordered, Chained
    <3>5. purgeGen' = purgeGen
      <4>1. ASSUME NEW c \in BOOLEAN, PurgeAll(t, c) PROVE FALSE
        BY <2>1, <4>1 DEF PurgeAll, Accept
      <4> QED BY <1>1, <4>1, ActGuards
    <3> QED BY <3>1, <3>2, <3>3, <3>4, <3>5
  <2> QED BY <2>1
<1>6. ASSUME item' # None, item'.gen <= purgeGen' PROVE purgeGen' \in plan'
  <2>1. item' = item
    BY <1>3, <1>5, <1>6
  <2>2. CASE \E c \in BOOLEAN : PurgeAll(t, c)
    BY <2>2 DEF PurgeAll, Accept
  <2>3. CASE ~\E c \in BOOLEAN : PurgeAll(t, c)
    <3>1. purgeGen' = purgeGen /\ purgeGen \in plan
      BY <1>1, <1>6, <2>1, <2>3, ActGuards DEF Leftovers
    <3>2. Lifts(t) => task[t].max # purgeGen
      BY <1>1, LiftsAt DEF CutoffsKnown
    <3>3. CloseAll(t) => ~(purgeGen <= task[t].max)
      <4>1. ASSUME CloseAll(t) PROVE ~(purgeGen <= task[t].max)
        <5>1. item.gen > task[t].max
          BY <1>1, <1>6, <2>1, <4>1 DEF CloseAll, Leftovers
        <5> QED BY <1>3, <1>4, <1>6, <2>1, <3>1, <5>1
      <4> QED BY <4>1
    <3> QED BY <3>1, <3>2, <3>3, ActManifest
  <2> QED BY <2>2, <2>3
<1>7. ASSUME NEW u \in Tasks, task'[u].pc = "closeall", item' # None PROVE item'.gen > task'[u].max
  <2>1. CASE u = t
    <3>1. Unlink(t)
      BY <1>7, <2>1, ActArrives, SMTT(30) DEF Arrives
    <3>2. DropUpTo(task[t].max) /\ task'[t].max = task[t].max
      BY <3>1, UnlinkMoves DEF Unlink
    <3>3. task[t].max \in Int
      BY <1>4
    <3> QED BY <1>7, <2>1, <3>2, <3>3, DropKey
  <2>2. CASE u # t
    <3>1. task'[u] = task[u]
      BY <1>2, <2>2
    <3>2. CASE item' = item
      BY <1>1, <1>7, <3>1, <3>2 DEF Leftovers
    <3>3. CASE item' # item
      <4>1. task[u].max <= purgeGen
        BY <1>1, <1>7, <3>1 DEF CutoffsKnown, AllAt
      <4> QED BY <1>3, <1>4, <1>5, <1>7, <3>1, <3>3, <4>1
    <3> QED BY <3>2, <3>3
  <2> QED BY <2>1, <2>2
<1> QED BY <1>6, <1>7 DEF Leftovers

LEMMA StutterBarriers ==
  ASSUME Barriers, UNCHANGED vars
  PROVE  Barriers'
<1>1. UNCHANGED <<item, plan, hw, fences, floor, ifloor, purgeGen, owed, owedGen, durableGen, task>>
  BY DEF vars, disk, barriers, counters, purgeHistory
<1>2. UNCHANGED <<Fenced, Barred>> /\ \A u \in Tasks : Scoped(u)' <=> Scoped(u)
  BY <1>1 DEF Fenced, Barred, Scoped
<1>3. WorkFenced'
  BY <1>1, <1>2 DEF Barriers, WorkFenced
<1>4. FencesOwned'
  BY <1>1, <1>2 DEF Barriers, FencesOwned
<1>5. CutoffsKnown'
  BY <1>1, <1>2 DEF Barriers, CutoffsKnown
<1>6. Leftovers'
  BY <1>1 DEF Barriers, Leftovers
<1> QED BY <1>3, <1>4, <1>5, <1>6 DEF Barriers

LEMMA DiskActsBarriers ==
  ASSUME Barriers, DiskEvict \/ Sweep
  PROVE  Barriers'
<1>1. UNCHANGED <<plan, hw, fences, floor, ifloor, purgeGen, owed, owedGen, durableGen, task>> /\ item' \in {item, None}
  BY DEF DiskEvict, Sweep, barriers, counters, purgeHistory
<1>2. UNCHANGED <<Fenced, Barred>> /\ \A u \in Tasks : Scoped(u)' <=> Scoped(u)
  BY <1>1 DEF Fenced, Barred, Scoped
<1>3. WorkFenced'
  BY <1>1, <1>2 DEF Barriers, WorkFenced
<1>4. FencesOwned'
  BY <1>1, <1>2 DEF Barriers, FencesOwned
<1>5. CutoffsKnown'
  BY <1>1, <1>2 DEF Barriers, CutoffsKnown
<1>6. Leftovers'
  BY <1>1 DEF Barriers, Leftovers
<1> QED BY <1>3, <1>4, <1>5, <1>6 DEF Barriers

(* With no call under way, all fences are of purges still to be finished. *)
Calm ==
    /\ \A u \in Tasks : task[u].pc \in {"idle", "done"}
    /\ purgeGen = 0 /\ durableGen = 0 /\ owedGen \in Nat
    /\ \A f \in fences : f.gen \in Nat /\ f.gen >= 1 /\ f.gen <= owedGen
    /\ \A f, h \in fences : f.gen = h.gen => f = h
    /\ item # None => item.gen \in Nat /\ item.gen >= 1

LEMMA CalmBarriers == Calm => Barriers
<1> SUFFICES ASSUME Calm PROVE Barriers
  OBVIOUS
<1>1. \A u \in Tasks : ~Scoped(u) /\ task[u].pc \notin AllAt \cup {"origin", "write", "prepare", "closeall"}
  BY DEF Calm, Scoped, ScopedAt, AllAt
<1>2. 0 \in Barred /\ owedGen \in Barred /\ \A f \in fences : f.gen \in Barred
  BY DEF Calm, Barred
<1>3. WorkFenced /\ FencesOwned
  BY <1>1, <1>2 DEF Calm, WorkFenced, FencesOwned
<1>4. CutoffsKnown
  BY <1>1, <1>2 DEF Calm, CutoffsKnown
<1>5. Leftovers
  BY <1>1 DEF Calm, Leftovers
<1> QED BY <1>3, <1>4, <1>5 DEF Barriers

LEMMA NextBarriers ==
  ASSUME Sound, Sound', Ordered, Barriers, [Next]_vars
  PROVE  Barriers'
<1>1. ASSUME NEW t \in Tasks, Act(t) PROVE Barriers'
  <2>1. CutoffsKnown' /\ Leftovers'
    BY <1>1, ActCutoffsKnown, ActLeftovers
  <2>2. WorkFenced'
    BY <1>1, ActWorkFenced DEF Barriers
  <2>3. FencesOwned'
    BY <1>1, ActFencesOwned DEF Barriers
  <2> QED BY <2>1, <2>2, <2>3 DEF Barriers
<1>2. CASE Crash
  <2>1. \A u \in Tasks : task'[u].pc \in {"idle", "done"}
    BY <1>2, CrashIs, IdleFields, DoneFields
  <2>2. /\ purgeGen' = 0 /\ durableGen' = 0 /\ owedGen' \in Nat
        /\ \A f \in fences' : f.gen \in Nat /\ f.gen >= 1 /\ f.gen <= owedGen'
        /\ \A f, h \in fences' : f.gen = h.gen => f = h
    <3>1. PICK rest \in SUBSET (intents \ {0}) : Unreconciled(rest)
      BY <1>2 DEF Crash
    <3>2. PICK top \in SUBSET rest : fences' = {[gen |-> g, active |-> FALSE, remaining |-> TRUE] : g \in top}
      BY <3>1 DEF Unreconciled
    <3>3. rest \subseteq Nat \ {0}
      BY HaveTypes DEF BarrierTypes
    <3>6. owedGen' \in Greatest(rest \cup {0})
      BY <3>1 DEF Unreconciled
    <3>4. owedGen' \in Nat /\ \A g \in rest : g <= owedGen'
      BY <3>3, <3>6 DEF Greatest
    <3>5. purgeGen' = 0 /\ durableGen' = 0
      BY <1>2 DEF Crash
    <3>7. \A g : [gen |-> g, active |-> FALSE, remaining |-> TRUE].gen = g
      OBVIOUS
    <3>8. \A f \in fences' : f.gen \in top /\ f = [gen |-> f.gen, active |-> FALSE, remaining |-> TRUE]
      BY <3>2, <3>7
    <3>9. \A f, h \in fences' : f.gen = h.gen => f = h
      BY <3>8
    <3> QED BY <3>3, <3>4, <3>5, <3>8, <3>9
  <2>3. item' # None => item'.gen \in Nat /\ item'.gen >= 1
    <3>1. item' \in {item, None}
      BY <1>2, CrashIs
    <3>2. item # None => item.gen \in Nat /\ item.gen >= 1
      BY WriteNumbers, CacheStoreAssumption
    <3> QED BY <3>1, <3>2
  <2>4. Calm'
    BY <2>1, <2>2, <2>3 DEF Calm
  <2> QED BY <2>4, CalmBarriers, PTL
<1> QED BY <1>1, <1>2, StutterBarriers, DiskActsBarriers DEF Next, Act

LEMMA InitBarriers ==
  ASSUME Init
  PROVE  Barriers
<1>1. \A u \in Tasks : task[u].pc = "idle"
  BY IdleFields DEF Init
<1>2. Stored.gen = 2 /\ [Stored EXCEPT !.large = TRUE].gen = 2
  BY DEF Stored
<1>3. item # None => item.gen = 2
  BY <1>2 DEF Init
<1>4. fences = {} /\ purgeGen = 0 /\ owedGen = 0 /\ durableGen = 0
  BY DEF Init
<1> QED BY <1>1, <1>3, <1>4, CalmBarriers DEF Calm

LEMMA AlwaysBarriers == Spec => []Barriers
<1>1. Init => Barriers
  BY InitBarriers
<1>2. Sound /\ Sound' /\ Ordered /\ Barriers /\ [Next]_vars => Barriers'
  BY NextBarriers
<1> QED BY <1>1, <1>2, AlwaysSound, AlwaysOrdered, PTL DEF Spec
-----------------------------------------------------------------------------
(* The key stays past a cutoff, and lookups honour one until it is past.   *)
LEMMA BelowPurgeIsPast ==
  ASSUME Sound, Ordered, NEW c \in Nat, c <= purgeGen
  PROVE  c \in Past
<1>1. KG \in Nat /\ purgeGen \in Nat /\ (KG = 0 \/ KG > purgeGen)
  BY WriteNumbers, CacheStoreAssumption DEF Ordered, Chained
<1> QED BY <1>1 DEF Past

LEMMA PurgeAllPasses ==
  ASSUME NEW t \in Tasks, NEW b \in BOOLEAN, PurgeAll(t, b), NEW c \in Nat
  PROVE  c \in Past'
<1>1. KG' = 0
  BY NoKeyFields DEF PurgeAll, KG
<1> QED BY <1>1 DEF Past

LEMMA PastKept ==
  ASSUME Sound, Ordered, NEW t \in Tasks, Act(t), ~rolled', NEW c \in Past, c \in Barred, c <= genSeq
  PROVE  c \in Past'
<1>1. c \in Nat /\ genSeq \in Nat /\ (KG = 0 \/ KG > c)
  BY FenceNumbers DEF Past
<1>2. CASE \E b \in BOOLEAN : PurgeAll(t, b)
  BY <1>1, <1>2, PurgeAllPasses
<1>3. CASE ~\E b \in BOOLEAN : PurgeAll(t, b)
  <2>1. KeyMove(t)
    BY <1>3, ActCat DEF CatStep
  <2>2. CASE KG' = KG
    BY <1>1, <2>2 DEF Past
  <2>3. CASE keyGen' = None
    <3>1. KG' = 0
      BY <2>3, NoKeyFields DEF KG
    <3> QED BY <1>1, <3>1 DEF Past
  <2>4. CASE KG' = genSeq + 1
    <3>1. KG' > c
      BY <1>1, <2>4
    <3> QED BY <1>1, <3>1 DEF Past
  <2>5. CASE Restore(t) /\ TakesBack(t) /\ KG' = task[t].prev
    <3>1. Writes(t) /\ task[t].prev \in Nat
      BY <2>5, RestoreLeaves, WriteNumbers DEF WritesLarge
    <3>2. task[t].prev \notin 1 .. owedGen
      BY <2>5 DEF Restore
    <3>3. owedGen \in Nat /\ c <= owedGen
      BY HaveTypes DEF CounterTypes, Barred
    <3>4. task[t].prev = 0 \/ task[t].prev > c
      BY <1>1, <3>1, <3>2, <3>3
    <3> QED BY <1>1, <2>5, <3>4 DEF Past
  <2> QED BY <2>1, <2>2, <2>3, <2>4, <2>5 DEF KeyMove
<1> QED BY <1>2, <1>3

LEMMA EnforcedKept ==
  ASSUME Sound, FencesOwned, NEW t \in Tasks, Act(t), ~\E b \in BOOLEAN : PurgeAll(t, b), NEW c \in Enforced
  PROVE  c \in Enforced' \/ (Lifts(t) /\ c = task[t].max)
<1>1. GuardStep(t)
  BY ActGuards
<1>2. CASE c \in ifloor
  BY <1>1, <1>2 DEF GuardStep, Enforced
<1>3. ASSUME NEW f \in fences, f.gen = c, Unfinished(f) PROVE c \in Enforced' \/ (Lifts(t) /\ c = task[t].max)
  <2>1. CASE \E h \in fences' : h.gen = f.gen /\ (Unfinished(h) \/ (Lifts(t) /\ f.gen = task[t].max))
    <3>1. PICK h \in fences' : h.gen = c /\ (Unfinished(h) \/ (Lifts(t) /\ c = task[t].max))
      BY <1>3, <2>1
    <3> QED BY <3>1 DEF Enforced, Unfinished
  <2>2. CASE f.gen \in ifloor'
    BY <1>1, <1>3, <2>2 DEF Enforced
  <2>3. CASE Lifts(t) /\ f.gen = task[t].max
    BY <1>3, <2>3
  <2> QED BY <1>1, <1>3, <2>1, <2>2, <2>3 DEF GuardStep
<1> QED BY <1>2, <1>3 DEF Enforced

(* What began before a purge in force and has the key's generation is not  *)
(* served.                                                                 *)
LEMMA ServedIsNewer ==
  ASSUME Sound, Cutoffs, Honoured, NEW e \in Entry, Live(e), e.gen = KG, ~ResidentFenced(e.gen)
  PROVE  e.seen >= owed
<1> SUFFICES ASSUME e.seen < owed PROVE FALSE
  <2>1. e.seen \in Nat /\ owed \in Nat
    BY EntryFields, Types DEF Sound
  <2> QED BY <2>1
<1>1. e.gen \in Nat /\ e.gen >= 1 /\ owedGen \in Nat
  BY Types, EntryFields DEF Sound, Counted
<1>2. e.gen <= owedGen
  BY DEF Cutoffs
<1>3. owedGen # 0 /\ owedGen \notin Past
  BY <1>1, <1>2 DEF Past
<1>4. owedGen \in Enforced
  BY <1>3 DEF Honoured
<1> QED BY <1>1, <1>2, <1>4 DEF UnderPurge, ResidentFenced

(* A new file has the key's generation, and no purge takes effect with it. *)
LEMMA NewFile ==
  ASSUME Sound, Ordered, FencesOwned, NEW t \in Tasks, Act(t), item' \notin {item, None}
  PROVE  /\ task[t].pc \in {"write", "flush"} /\ item' = task[t].ent
         /\ item'.gen \in Nat /\ item'.gen >= 1 /\ item'.gen = KG /\ KG' = KG /\ purgeGen' = purgeGen
<1>1. task[t].pc \in {"write", "flush"} /\ CanCommit(t) /\ item' = task[t].ent /\ KG' = KG
  BY ActTiers DEF ItemMove
<1>2. task[t].ent.gen \in Nat /\ task[t].ent.gen >= 1
  BY <1>1, WriteNumbers DEF OtherCarry
<1>3. KG = task[t].ent.gen
  BY <1>1, <1>2 DEF CanCommit, IsCurrent, KG, GenOf
<1>4. purgeGen' = purgeGen
  <2>1. ASSUME NEW c \in BOOLEAN, PurgeAll(t, c) PROVE FALSE
    BY <2>1 DEF PurgeAll, Accept
  <2> QED BY <2>1, ActGuards
<1> QED BY <1>1, <1>2, <1>3, <1>4

(* What a step does to the manifest on disk. *)
LEMMA ActIntents ==
  ASSUME Sound, NEW t \in Tasks, Act(t)
  PROVE  \/ intents' = intents
         \/ intents' = plan'
         \/ (Prepare(t) \/ Wipe(t)) /\ intents' = {0}
<1>1. CASE \/ Begin(t) \/ Discard(t) \/ Publish(t) \/ Commit(t) \/ Refuse(t) \/ Restore(t) \/ Undo(t)
           \/ Check(t) \/ Unstore(t) \/ Drop(t) \/ Evict(t) \/ Flush(t)
  <2>1. intents' = intents
    BY <1>1 DEF Begin, Discard, Publish, Commit, Refuse, Restore, Undo, Check, Unstore, Drop, Evict, Flush, disk
  <2> QED BY <2>1
<1>2. CASE \/ Lookup(t) \/ Screen(t) \/ Probe(t) \/ Read(t) \/ Promote(t) \/ DeleteBegin(t) \/ DeleteMem(t) \/ DeleteDisk(t)
           \/ Batch(t) \/ Cancel(t) \/ Unlink(t) \/ Crowd(t)
  <2>1. intents' = intents
    BY <1>2 DEF Lookup, Screen, Probe, Read, Promote, DeleteBegin, DeleteMem, DeleteDisk, Batch, Cancel, Unlink, Crowd, disk
  <2> QED BY <2>1
<1>3. CASE Prepare(t) \/ Wipe(t)
  BY <1>3 DEF Prepare, Wipe, Wiped
<1>4. CASE \E c \in BOOLEAN : Purge(t, c) \/ PurgeAll(t, c) \/ NotAccepted(t, c)
  BY <1>4 DEF Purge, PurgeAll, Accept, NotAccepted
<1>5. CASE Close(t) \/ CloseAll(t)
  BY <1>5 DEF Close, CloseAll, Complete
<1>6. CASE Retry(t)
  BY <1>6 DEF Retry
<1> QED BY <1>1, <1>2, <1>3, <1>4, <1>5, <1>6 DEF Act

(* The flags stay up. *)
LEMMA FlagsGrow ==
  ASSUME Sound, NEW t \in Tasks, Act(t), ~rolled', ~passed'
  PROVE  ~rolled /\ ~passed
<1>1. CASE \/ Begin(t) \/ Discard(t) \/ Publish(t) \/ Commit(t) \/ Refuse(t) \/ Undo(t)
           \/ Check(t) \/ Unstore(t) \/ Drop(t) \/ Evict(t) \/ Flush(t)
  <2>1. UNCHANGED <<rolled, passed>>
    BY <1>1 DEF Begin, Discard, Publish, Commit, Refuse, Undo, Check, Unstore, Drop, Evict, Flush, counters
  <2> QED BY <2>1
<1>2. CASE \/ Lookup(t) \/ Screen(t) \/ Probe(t) \/ Read(t) \/ Promote(t) \/ DeleteBegin(t) \/ DeleteMem(t) \/ DeleteDisk(t)
           \/ Batch(t) \/ Cancel(t) \/ Unlink(t) \/ Close(t) \/ CloseAll(t) \/ Prepare(t) \/ Wipe(t) \/ Crowd(t)
  <2>1. UNCHANGED <<rolled, passed>>
    BY <1>2 DEF Lookup, Screen, Probe, Read, Promote, DeleteBegin, DeleteMem, DeleteDisk, Batch, Cancel, Unlink, Close, CloseAll,
                Prepare, Wipe, Crowd, counters
  <2> QED BY <2>1
<1>3. CASE \E c \in BOOLEAN : Purge(t, c) \/ PurgeAll(t, c) \/ NotAccepted(t, c)
  BY <1>3 DEF Purge, PurgeAll, Accept, NotAccepted, counters
<1>4. CASE Restore(t)
  BY <1>4 DEF Restore
<1>5. CASE Retry(t)
  BY <1>5 DEF Retry
<1> QED BY <1>1, <1>2, <1>3, <1>4, <1>5 DEF Act

(* A publication that passes the fences began after the last purge. *)
LEMMA CreatedIsNewer ==
  ASSUME Sound, WorkFenced, NEW t \in Tasks, Act(t), NEW e \in Entry, Created(t, e)
  PROVE  e.seen >= owed /\ UNCHANGED <<purges, owed, owedGen, durable, durableGen>>
<1>1. Publish(t) /\ ~PublicationFenced(task[t].start)
  BY ActArrives DEF Arrives, Created
<1>2. task[t].pc = "origin" /\ task[t].start \in Nat /\ task[t].seen \in Nat /\ owed \in Nat
  BY <1>1, Types, CallFields DEF Sound, Publish
<1>3. task[t].start \notin Fenced
  BY <1>1 DEF PublicationFenced, Fenced
<1>4. task[t].seen >= owed
  BY <1>2, <1>3 DEF WorkFenced
<1>5. UNCHANGED <<purges, owed, owedGen, durable, durableGen>>
  BY <1>1 DEF Publish, counters, purgeHistory
<1> QED BY <1>4, <1>5 DEF Created, NewEntry

(* How the purges that count, and their cutoffs, move. *)
LEMMA ActHistory ==
  ASSUME Sound, NEW t \in Tasks, Act(t)
  PROVE  /\ (owed' = owed /\ owedGen' = owedGen) \/ owedGen' = genSeq + 1
         /\ \/ durable' = durable /\ durableGen' = durableGen
            \/ durableGen' = genSeq + 1
            \/ /\ task[t].pc \in PurgeAt /\ durable' = task[t].since /\ durableGen' = task[t].max
<1>1. CASE UNCHANGED <<owed, owedGen, durable, durableGen>>
  BY <1>1
<1>2. CASE Prepare(t) /\ UNCHANGED <<owed, owedGen>>
  <2>1. task[t].pc \in PurgeAt
    BY <1>2 DEF Prepare, PurgeAt, ScopedAt, AllAt
  <2>2. \/ durable' = durable /\ durableGen' = durableGen
        \/ durable' = task[t].since /\ durableGen' = task[t].max
    BY <1>2 DEF Prepare
  <2> QED BY <1>2, <2>1, <2>2
<1>3. CASE \E c \in BOOLEAN : Purge(t, c) \/ PurgeAll(t, c)
  BY <1>3 DEF Purge, PurgeAll, Accept
<1> QED BY <1>1, <1>2, <1>3, ActManifest

LEMMA SinceKnown == Sound => \A u \in Tasks : task[u].since \in Nat /\ task[u].since <= owed
  BY Types, CallFields DEF Sound, Bounded

LEMMA ActCutoffs ==
  ASSUME Sound, Sound', WorkFenced, Cutoffs, NEW t \in Tasks, Act(t)
  PROVE  Cutoffs'
<1> SUFFICES ASSUME NEW e \in Entry, Live(e)'
             PROVE  /\ e.seen < owed' => e.gen <= owedGen'
                    /\ e.seen < durable' => e.gen <= durableGen'
                    /\ \A u \in Tasks : task'[u].pc \in PurgeAt /\ e.seen < task'[u].since => e.gen <= task'[u].max
  BY DEF Cutoffs, PurgeAt
<1>1. e.gen \in Nat /\ e.seen \in Nat /\ genSeq \in Nat /\ owed \in Nat /\ durable \in Nat /\ durable <= owed
  BY EntryFields, Types DEF Sound, Counted
<1>2. \A u \in Tasks : task'[u].since \in Nat /\ task'[u].since <= owed'
  <2>1. (\A u \in Tasks : task[u].since \in Nat /\ task[u].since <= owed)'
    BY SinceKnown, PTL
  <2> QED BY <2>1
<1>3. Live(e) \/ Created(t, e)
  BY ActTiers, LiveMove
<1>4. CASE Created(t, e)
  <2>1. e.seen >= owed /\ owed' = owed /\ durable' = durable
    BY <1>4, CreatedIsNewer
  <2> QED BY <1>1, <1>2, <2>1
<1>5. CASE Live(e)
  <2>1. e.gen <= genSeq
    BY <1>5 DEF Sound, Counted
  <2>2. e.gen <= genSeq + 1
    BY <1>1, <2>1
  <2>3. /\ e.seen < owed => e.gen <= owedGen
        /\ e.seen < durable => e.gen <= durableGen
        /\ \A u \in Tasks : task[u].pc \in PurgeAt /\ e.seen < task[u].since => e.gen <= task[u].max
    BY <1>5 DEF Cutoffs, PurgeAt
  <2>4. e.seen < owed' => e.gen <= owedGen'
    BY <2>2, <2>3, ActHistory
  <2>5. e.seen < durable' => e.gen <= durableGen'
    BY <2>2, <2>3, ActHistory
  <2>6. ASSUME NEW u \in Tasks, task'[u].pc \in PurgeAt, e.seen < task'[u].since PROVE e.gen <= task'[u].max
    <3>1. CASE u # t
      <4>1. task'[u] = task[u]
        BY <3>1, ActTask, TaskOthers DEF Sound
      <4> QED BY <2>3, <2>6, <4>1
    <3>2. CASE u = t
      <4>1. task'[t].since # 0
        BY <1>1, <1>2, <2>6, <3>2
      <4> QED BY <2>2, <2>3, <2>6, <3>2, <4>1, PurgeStays
    <3> QED BY <3>1, <3>2
  <2> QED BY <2>4, <2>5, <2>6
<1> QED BY <1>3, <1>4, <1>5

(* The cutoffs in force and the durable ones stay honoured. *)
LEMMA ActPastAll ==
  ASSUME Sound, Ordered, NEW t \in Tasks, Act(t), ~rolled'
  PROVE  \A c \in Past : c \in Barred /\ c <= genSeq => c \in Past'
  BY PastKept

LEMMA ActOwed ==
  ASSUME Sound, Ordered, Barriers, Honoured, NEW t \in Tasks, Act(t), ~rolled'
  PROVE  owedGen' = 0 \/ owedGen' \in Past' \/ owedGen' \in Enforced'
<1>1. FencesOwned /\ CutoffsKnown /\ owedGen \in Barred /\ owedGen \in Nat /\ owedGen <= genSeq /\ genSeq \in Nat
  BY HaveTypes, FenceNumbers DEF Barriers, CutoffsKnown, CounterTypes
<1>2. CASE \E c \in BOOLEAN : PurgeAll(t, c)
  <2>1. owedGen' = genSeq + 1
    BY <1>2 DEF PurgeAll, Accept
  <2> QED BY <1>1, <1>2, <2>1, PurgeAllPasses
<1>3. CASE \E c \in BOOLEAN : Purge(t, c)
  <2>1. owedGen' = genSeq + 1
    BY <1>3 DEF Purge, Accept
  <2> QED BY <1>1, <1>3, <2>1, PurgeGuards DEF FencesOwned
<1>4. CASE owedGen' = owedGen /\ ~\E c \in BOOLEAN : PurgeAll(t, c)
  <2>1. CASE owedGen = 0
    BY <1>4, <2>1
  <2>2. CASE owedGen \in Past
    BY <1>1, <1>4, <2>2, ActPastAll
  <2>3. CASE owedGen \in Enforced
    <3>1. CASE Lifts(t) /\ owedGen = task[t].max
      <4>1. owedGen \in Past
        BY <3>1, LiftsAt DEF Honoured
      <4> QED BY <1>1, <1>4, <4>1, ActPastAll
    <3> QED BY <1>1, <1>4, <2>3, <3>1, EnforcedKept
  <2> QED BY <2>1, <2>2, <2>3 DEF Honoured
<1> QED BY <1>2, <1>3, <1>4, ActManifest

LEMMA BelowStaysPast ==
  ASSUME Sound, Ordered, Barriers, NEW t \in Tasks, Act(t), ~rolled', NEW c \in Nat, c <= purgeGen
  PROVE  c \in Past'
<1>1. purgeGen \in Barred /\ purgeGen \in Nat /\ purgeGen <= genSeq /\ genSeq \in Nat /\ owedGen \in Nat
  BY HaveTypes, FenceNumbers DEF Barriers, CutoffsKnown, CounterTypes
<1>2. c \in Past /\ c \in Barred /\ c <= genSeq
  BY <1>1, BelowPurgeIsPast DEF Barred
<1> QED BY <1>2, ActPastAll

(* A cutoff that is in the manifest, as it should be, stays there until    *)
(* the key is past it.                                                     *)
LEMMA ManifestKept ==
  ASSUME Sound, Ordered, Barriers, Honoured, NEW t \in Tasks, Act(t), ~rolled',
         NEW c \in plan, c \in intents \/ 0 \in intents
  PROVE  c \in Past' \/ (c \in plan' /\ (c \in intents' \/ 0 \in intents'))
<1>1. c \in Nat /\ c <= genSeq /\ genSeq \in Nat /\ purgeGen \in Nat
  BY HaveTypes, FenceNumbers DEF BarrierTypes
<1>2. CASE c \in plan'
  BY <1>2, ActIntents
<1>3. CASE Lifts(t) /\ c = task[t].max
  <2>1. c \in Past /\ c \in Barred
    BY <1>3, LiftsAt DEF Honoured, Barriers, CutoffsKnown
  <2> QED BY <1>1, <2>1, ActPastAll
<1>4. CASE CloseAll(t) /\ c <= task[t].max
  <2>1. task[t].max <= purgeGen /\ task[t].max \in Nat
    BY <1>4, ScopedNumbers DEF CloseAll, Barriers, CutoffsKnown, AllAt
  <2>2. c <= purgeGen
    BY <1>1, <1>4, <2>1
  <2> QED BY <1>1, <2>2, BelowStaysPast
<1> QED BY <1>2, <1>3, <1>4, ActManifest

LEMMA ActDurable ==
  ASSUME Sound, Ordered, Barriers, Honoured, NEW t \in Tasks, Act(t), ~rolled'
  PROVE  durableGen' = 0 \/ durableGen' \in Past' \/ (durableGen' \in plan' /\ (durableGen' \in intents' \/ 0 \in intents'))
<1>1. durableGen \in Barred /\ durableGen \in Nat /\ durableGen <= genSeq
  BY HaveTypes DEF Barriers, CutoffsKnown, CounterTypes
<1>2. CASE durableGen' = durableGen
  <2>1. CASE durableGen = 0
    BY <1>2, <2>1
  <2>2. CASE durableGen \in Past
    BY <1>1, <1>2, <2>2, ActPastAll
  <2>3. CASE durableGen \in plan /\ (durableGen \in intents \/ 0 \in intents)
    BY <1>2, <2>3, ManifestKept
  <2> QED BY <2>1, <2>2, <2>3 DEF Honoured
<1>3. CASE durableGen' # durableGen /\ \E c \in BOOLEAN : Purge(t, c) \/ PurgeAll(t, c)
  <2>1. durableGen' = genSeq + 1 /\ genSeq + 1 \in plan' /\ intents' = plan'
    BY <1>3 DEF Purge, PurgeAll, Accept
  <2> QED BY <2>1
<1>4. CASE durableGen' # durableGen /\ Prepare(t)
  <2>1. durableGen' = task[t].max /\ 0 \in intents' /\ ~task[t].flag /\ plan' = plan /\ task[t].pc \in {"prepare", "prepareall"}
    BY <1>4 DEF Prepare, Wiped
  <2>2. task[t].max \in Nat
    BY ScopedNumbers
  <2>3. task[t].max \in plan \/ task[t].max <= purgeGen
    BY <2>1 DEF Barriers, CutoffsKnown, AllAt
  <2> QED BY <2>1, <2>2, <2>3, BelowStaysPast
<1> QED BY <1>2, <1>3, <1>4, ActManifest

(* How a scoped purge gets through: there was nothing for it in the        *)
(* catalog, or its batch has moved the key on.                             *)
LEMMA NothingHeld ==
  ASSUME Sound, ~Held
  PROVE  keyGen = None /\ KG = 0 /\ (item = None \/ item.gen <= purgeGen)
<1>1. GoodKey(keyGen, mem) /\ (item # None /\ item.gen > purgeGen => InDisk(keyGen))
  BY InTheCatalog
<1>2. keyGen = None
  BY <1>1 DEF GoodKey, Held
<1>3. KG = 0 /\ ~InDisk(keyGen)
  BY <1>2, NoKeyFields DEF KG
<1>4. purgeGen \in Nat /\ (item # None => item.gen \in Nat)
  BY WriteNumbers, CacheStoreAssumption
<1> QED BY <1>1, <1>2, <1>3, <1>4

LEMMA BatchPasses ==
  ASSUME Sound, NEW t \in Tasks, Batch(t)
  PROVE  task[t].max \in Past'
<1>1. task[t].max \in Nat /\ task[t].max <= genSeq /\ genSeq \in Nat /\ task'[t].max = task[t].max
  BY ScopedNumbers, FenceNumbers, BatchMoves DEF ScopedAt
<1>2. GoodKey(keyGen, mem) /\ TypeOK /\ keyGen \in KeyState \cup {None}
  BY InTheCatalog, Types DEF Sound
<1>3. keyGen' = Reclaimed(IF keyGen # None /\ keyGen.gen <= task[t].max THEN [keyGen EXCEPT !.gen = genSeq + 1] ELSE keyGen, mem')
  BY DEF Batch
<1>4. CASE keyGen = None
  <2>1. keyGen' = None
    BY <1>3, <1>4 DEF Reclaimed
  <2>2. KG' = 0
    BY <2>1, NoKeyFields DEF KG
  <2> QED BY <1>1, <2>2 DEF Past
<1>5. CASE keyGen # None /\ keyGen.gen <= task[t].max
  <2>1. keyGen \in KeyState
    BY <1>2, <1>5
  <2>2. [keyGen EXCEPT !.gen = genSeq + 1].gen = genSeq + 1
    BY <2>1 DEF KeyState
  <2>3. keyGen' = None \/ keyGen' = [keyGen EXCEPT !.gen = genSeq + 1]
    BY <1>3, <1>5 DEF Reclaimed
  <2>4. KG' = 0 \/ KG' = genSeq + 1
    BY <2>2, <2>3 DEF KG, GenOf
  <2> QED BY <1>1, <2>4 DEF Past
<1>6. CASE keyGen # None /\ ~(keyGen.gen <= task[t].max)
  <2>1. keyGen.gen \in Nat
    BY <1>2, <1>6, KeyFields
  <2>2. keyGen' = None \/ keyGen' = keyGen
    BY <1>3, <1>6 DEF Reclaimed
  <2>3. KG' = 0 \/ KG' = keyGen.gen
    BY <2>2 DEF KG, GenOf
  <2> QED BY <1>1, <1>6, <2>1, <2>3 DEF Past
<1> QED BY <1>4, <1>5, <1>6

(* A retry that finds the key too new: a file it does not pass over is     *)
(* newer too.                                                              *)
LEMMA RetrySkips ==
  ASSUME Sound, FencesOwned, NEW t \in Tasks, Retry(t), ~passed', ~task'[t].rest
  PROVE  /\ task'[t].max \in Past'
         /\ item = None \/ item.gen > task'[t].max \/ item.gen <= purgeGen
<1>1. PICK f \in fences : /\ f.gen = task'[t].max
                          /\ passed' = (passed \/ PassesOver(f))
                          /\ task'[t].rest = (Held /\ keyGen.gen <= f.gen)
  BY RetryGuards DEF FencesOwned
<1>2. f.gen \in Nat /\ purgeGen \in Nat /\ KG \in Nat /\ (item # None => item.gen \in Nat)
  BY FenceNumbers, WriteNumbers
<1>3. ~PassesOver(f) /\ ~(Held /\ keyGen.gen <= f.gen)
  BY <1>1
<1>4. KG' = KG
  BY DEF Retry, KG
<1>5. CASE ~Held
  <2>1. KG = 0 /\ (item = None \/ item.gen <= purgeGen)
    BY <1>5, NothingHeld
  <2>2. f.gen \in Past'
    BY <1>2, <1>4, <2>1 DEF Past
  <2> QED BY <1>1, <2>1, <2>2
<1>6. CASE Held
  <2>1. keyGen # None /\ KG = keyGen.gen
    BY <1>6 DEF Held, KG, GenOf
  <2>2. KG > f.gen
    BY <1>2, <1>3, <1>6, <2>1
  <2>3. f.gen \in Past'
    BY <1>2, <1>4, <2>2 DEF Past
  <2>4. item = None \/ ~(item.gen \in purgeGen + 1 .. f.gen)
    BY <1>3, <2>1, <2>2 DEF PassesOver
  <2>5. item = None \/ item.gen > f.gen \/ item.gen <= purgeGen
    BY <1>2, <2>4
  <2> QED BY <1>1, <2>3, <2>5
<1> QED BY <1>5, <1>6

LEMMA ActThrough ==
  ASSUME Sound, Ordered, Barriers, Honoured, NEW t \in Tasks, Act(t), ~rolled', ~passed', NEW u \in Tasks, Through(u)'
  PROVE  task'[u].max \in Past'
<1>1. ASSUME Through(u), task'[u].max = task[u].max PROVE task'[u].max \in Past'
  <2>1. task[u].max \in Past /\ task[u].max \in Barred
    <3>1. Scoped(u)
      BY <1>1 DEF Through, Cleared, Scoped, ScopedAt
    <3> QED BY <1>1, <3>1 DEF Honoured, Barriers, CutoffsKnown
  <2>2. task[u].max <= genSeq
    BY <1>1, ScopedNumbers DEF Through, Cleared, ScopedAt
  <2> QED BY <1>1, <2>1, <2>2, ActPastAll
<1>2. CASE u # t
  <2>1. task'[u] = task[u]
    BY <1>2, ActTask, TaskOthers DEF Sound
  <2>2. Through(u)
    BY <2>1 DEF Through, Cleared
  <2> QED BY <1>1, <2>1, <2>2
<1>3. CASE u = t
  <2>1. Arrives(t) /\ task'[t].pc \in {"unlink", "prepare", "close"} /\ (task'[t].pc # "unlink" => ~task'[t].rest)
    BY <1>3, ActArrives DEF Through, Cleared
  <2>2. CASE \E c \in BOOLEAN : Purge(t, c)
    <3>1. PICK c \in BOOLEAN : Purge(t, c)
      BY <2>2
    <3>2. task'[t].max = genSeq + 1 /\ task'[t].pc = "prepare" /\ task'[t].rest = Held /\ genSeq \in Nat
      BY <3>1, PurgeMoves, FenceNumbers
    <3>3. ~Held
      BY <2>1, <3>2
    <3>4. KG' = 0
      BY <3>1, <3>3, NothingHeld DEF Purge, KG
    <3> QED BY <1>3, <3>2, <3>4 DEF Past
  <2>3. CASE Retry(t)
    <3>1. task'[t].pc = "prepare"
      BY <2>3, RetryGuards DEF Barriers, FencesOwned
    <3> QED BY <1>3, <2>1, <2>3, <3>1, RetrySkips DEF Barriers
  <2>4. CASE Prepare(t)
    <3>1. task'[t].max = task[t].max /\ Through(t)
      BY <2>1, <2>4, PrepareMoves DEF Through, Cleared
    <3> QED BY <1>1, <1>3, <3>1
  <2>5. CASE Batch(t)
    BY <1>3, <2>5, BatchPasses, BatchMoves
  <2>6. CASE Unlink(t)
    <3>1. task'[t].max = task[t].max /\ Through(t)
      BY <2>1, <2>6, UnlinkMoves DEF Through, Cleared
    <3> QED BY <1>1, <1>3, <3>1
  <2>7. ~Cancel(t)
    BY <2>1, CancelMoves
  <2> QED BY <2>1, <2>2, <2>3, <2>4, <2>5, <2>6, <2>7 DEF Arrives
<1> QED BY <1>2, <1>3

LEMMA ActCleared ==
  ASSUME Sound, Ordered, Barriers, Honoured, NEW t \in Tasks, Act(t), ~rolled', ~passed', NEW u \in Tasks, Cleared(u)'
  PROVE  item' = None \/ item'.gen > task'[u].max \/ item'.gen <= purgeGen'
<1>1. purgeGen \in Nat /\ genSeq \in Nat /\ purgeGen <= genSeq /\ purgeGen' \in {purgeGen, genSeq + 1}
      /\ (item # None => item.gen \in Nat) /\ task[u].max \in Nat
  BY FenceNumbers, GenSeqGrows, WriteNumbers, ScopedNumbers
<1>2. ASSUME item' \in {item, None}, item = None \/ item.gen > task'[u].max \/ item.gen <= purgeGen
      PROVE  item' = None \/ item'.gen > task'[u].max \/ item'.gen <= purgeGen'
  BY <1>1, <1>2
<1>3. ASSUME Cleared(u), task'[u].max = task[u].max
      PROVE  item' = None \/ item'.gen > task'[u].max \/ item'.gen <= purgeGen'
  <2>1. CASE item' \in {item, None}
    <3>1. item = None \/ item.gen > task[u].max \/ item.gen <= purgeGen
      BY <1>3 DEF Honoured
    <3> QED BY <1>2, <1>3, <2>1, <3>1
  <2>2. CASE item' \notin {item, None}
    <3>1. item'.gen \in Nat /\ item'.gen >= 1 /\ item'.gen = KG
      BY <2>2, NewFile DEF Barriers
    <3>2. task[u].max \in Past
      BY <1>3 DEF Honoured, Through
    <3> QED BY <1>1, <1>3, <3>1, <3>2 DEF Past
  <2> QED BY <2>1, <2>2
<1>4. CASE u # t
  <2>1. task'[u] = task[u]
    BY <1>4, ActTask, TaskOthers DEF Sound
  <2>2. Cleared(u)
    BY <2>1 DEF Cleared
  <2> QED BY <1>3, <2>1, <2>2
<1>5. CASE u = t
  <2>1. Arrives(t) /\ task'[t].pc \in {"prepare", "close"} /\ ~task'[t].rest
    BY <1>5, ActArrives DEF Cleared
  <2>2. CASE \E c \in BOOLEAN : Purge(t, c)
    <3>1. PICK c \in BOOLEAN : Purge(t, c)
      BY <2>2
    <3>2. task'[t].rest = Held
      BY <3>1, PurgeMoves
    <3>3. ~Held
      BY <2>1, <3>2
    <3>4. item' = item
      BY <3>1 DEF Purge, Accept
    <3> QED BY <1>2, <3>3, <3>4, NothingHeld
  <2>3. CASE Retry(t)
    <3>1. item' = item
      BY <2>3 DEF Retry
    <3> QED BY <1>2, <1>5, <2>1, <2>3, <3>1, RetrySkips DEF Barriers
  <2>4. CASE Prepare(t)
    <3>1. task'[t].max = task[t].max /\ Cleared(t)
      BY <2>1, <2>4, PrepareMoves DEF Cleared
    <3> QED BY <1>3, <1>5, <3>1
  <2>5. CASE Unlink(t)
    <3>1. DropUpTo(task[t].max) /\ task'[t].max = task[t].max
      BY <2>5, UnlinkMoves DEF Unlink
    <3>2. task[t].max \in Int
      BY <1>1, <1>5
    <3> QED BY <1>5, <3>1, <3>2, DropKey
  <2>6. ~Cancel(t)
    BY <2>1, CancelMoves
  <2> QED BY <2>1, <2>2, <2>3, <2>4, <2>5, <2>6 DEF Arrives
<1> QED BY <1>4, <1>5

(* A file that a restart may not keep is covered by an intent in the       *)
(* manifest, and by one that belongs there.                                *)
LEMMA ActFileCovered ==
  ASSUME Sound, Ordered, Barriers, Cutoffs, Honoured, NEW t \in Tasks, Act(t), ~rolled', Cutoffs',
         item' # None, item'.seen < durable'
  PROVE  (\E g \in intents' : g = 0 \/ item'.gen <= g) /\ (\E g \in plan' : item'.gen <= g)
<1>1. genSeq \in Nat /\ purgeGen \in Nat /\ plan \subseteq Nat
      /\ (item # None => item.gen \in Nat /\ item.gen <= genSeq /\ item.gen >= 1)
  BY HaveTypes, FenceNumbers, WriteNumbers DEF BarrierTypes
<1>2. FencesOwned /\ CutoffsKnown /\ Leftovers
  BY DEF Barriers
<1>3. CASE item' \notin {item, None}
  <2>1. /\ task[t].pc \in {"write", "flush"} /\ item' = task[t].ent
        /\ item'.gen \in Nat /\ item'.gen >= 1 /\ item'.gen = KG /\ KG' = KG
    BY <1>2, <1>3, NewFile
  <2>2. item' \in Entry
    BY <2>1, LiveTyped DEF Carries
  <2>3. item'.gen <= durableGen'
    BY <2>2 DEF Cutoffs, Live
  <2>4. durableGen' \in Nat
    <3>1. CounterTypes'
      BY ActCounters
    <3> QED BY <3>1 DEF CounterTypes
  <2>5. durableGen' # 0 /\ durableGen' \notin Past'
    BY <2>1, <2>3, <2>4 DEF Past
  <2>6. durableGen' \in plan' /\ (durableGen' \in intents' \/ 0 \in intents')
    BY <2>5, ActDurable
  <2> QED BY <2>3, <2>6
<1>4. CASE item' = item /\ \E c \in BOOLEAN : (Purge(t, c) \/ PurgeAll(t, c)) /\ durable' # durable
  <2>1. genSeq + 1 \in plan' /\ intents' = plan'
    BY <1>4 DEF Purge, PurgeAll, Accept
  <2>2. item'.gen <= genSeq + 1
    BY <1>1, <1>4
  <2> QED BY <2>1, <2>2
<1>5. CASE item' = item /\ durable' = durable
  <2>1. PICK g \in plan : item.gen <= g
    BY <1>5 DEF Honoured
  <2>2. \E x \in intents : x = 0 \/ item.gen <= x
    BY <1>5 DEF Honoured
  <2>3. \E x \in plan' : item'.gen <= x
    <3>1. CASE g \in plan'
      BY <1>5, <2>1, <3>1
    <3>2. CASE Lifts(t) /\ g = task[t].max
      <4>1. task[t].pc = "close" /\ Cleared(t) /\ Scoped(t)
        BY <3>2, LiftsAt
      <4>2. item.gen <= purgeGen
        <5>1. item.gen > task[t].max \/ item.gen <= purgeGen
          BY <1>5, <4>1 DEF Honoured
        <5> QED BY <1>1, <1>5, <2>1, <3>2, <5>1
      <4>3. purgeGen \in plan /\ purgeGen # task[t].max
        BY <1>2, <1>5, <4>1, <4>2 DEF Leftovers, CutoffsKnown
      <4>4. ~CloseAll(t)
        BY <4>1 DEF CloseAll
      <4>5. purgeGen \in plan'
        BY <4>3, <4>4, ActManifest
      <4> QED BY <1>5, <4>2, <4>5
    <3>3. CASE CloseAll(t) /\ g <= task[t].max
      <4>1. item.gen > task[t].max /\ task[t].max \in Nat
        BY <1>2, <1>5, <3>3, ScopedNumbers DEF CloseAll, Leftovers
      <4> QED BY <1>1, <1>5, <2>1, <3>3, <4>1
    <3> QED BY <2>1, <3>1, <3>2, <3>3, ActManifest
  <2>4. \E x \in intents' : x = 0 \/ item'.gen <= x
    BY <1>5, <2>2, <2>3, ActIntents
  <2> QED BY <2>3, <2>4
<1>6. CASE item' = item /\ Prepare(t) /\ durable' # durable
  BY <1>6 DEF Prepare, Wiped
<1> QED BY <1>3, <1>4, <1>5, <1>6, ActManifest

(* What comes into memory began after every purge in force. *)
LEMMA ValidIsNewer ==
  ASSUME Sound, Cutoffs, Honoured, NEW t \in Tasks, task[t].pc = "promote", StillValid(t)
  PROVE  task[t].ent \in Entry /\ task[t].ent.seen >= owed
<1>1. task[t].ent \in Entry /\ task[t].ent.gen \in Nat /\ task[t].ent.gen >= 1 /\ Live(task[t].ent)
  BY LiveTyped DEF Carries, Live
<1>2. task[t].ent.gen = KG
  BY <1>1 DEF StillValid, IsCurrent, KG, GenOf
<1>3. ~ResidentFenced(task[t].ent.gen)
  BY DEF StillValid
<1> QED BY <1>1, <1>2, <1>3, ServedIsNewer

LEMMA NewMemory ==
  ASSUME Sound, WorkFenced, Cutoffs, Honoured, NEW t \in Tasks, Act(t), mem' \notin {mem, None}
  PROVE  mem'.seen >= owed /\ mem'.seen \in Nat /\ owed' = owed
<1>1. MemMove(t)
  BY ActTiers
<1>2. CASE task'[t].pc = "write" /\ ~task'[t].ent.large /\ mem' = task'[t].ent
  <2>1. Publish(t) /\ ~PublicationFenced(task[t].start)
    BY <1>2, ActArrives DEF Arrives
  <2>2. NewEntry(t, task'[t].ent)
    BY <2>1, WriteIs
  <2>3. mem' \in Entry /\ Created(t, mem')
    BY <1>2, <2>2 DEF Created, NewEntry
  <2> QED BY <2>3, CreatedIsNewer, EntryFields
<1>3. CASE task[t].pc = "promote" /\ StillValid(t) /\ mem' = task[t].ent
  <2>1. task[t].ent \in Entry /\ task[t].ent.seen >= owed
    BY <1>3, ValidIsNewer
  <2>2. owed' = owed
    <3>1. ~Prepare(t)
      BY <1>3 DEF Prepare
    <3>2. ~\E c \in BOOLEAN : Purge(t, c) \/ PurgeAll(t, c)
      BY <1>3, PurgeMoves, PurgeAllMoves
    <3> QED BY <3>1, <3>2, ActManifest
  <2> QED BY <1>3, <2>1, <2>2, EntryFields
<1> QED BY <1>1, <1>2, <1>3 DEF MemMove

(* How the record of the purges that have ended moves. *)
LEMMA EndedMoves ==
  ASSUME Sound, NEW t \in Tasks, Act(t)
  PROVE  \/ ended' = ended
         \/ Lifts(t) /\ ended' = Larger(ended, task[t].since) /\ mem' = mem
         \/ mem' = None
<1>1. CASE \/ Begin(t) \/ Discard(t) \/ Publish(t) \/ Commit(t) \/ Refuse(t) \/ Restore(t) \/ Undo(t)
           \/ Check(t) \/ Unstore(t) \/ Drop(t) \/ Evict(t) \/ Flush(t)
  <2>1. ended' = ended
    BY <1>1 DEF Begin, Discard, Publish, Commit, Refuse, Restore, Undo, Check, Unstore, Drop, Evict, Flush,
                counters, purgeHistory
  <2> QED BY <2>1
<1>2. CASE \/ Lookup(t) \/ Screen(t) \/ Probe(t) \/ Read(t) \/ Promote(t) \/ DeleteBegin(t) \/ DeleteMem(t) \/ DeleteDisk(t)
           \/ Wipe(t) \/ Prepare(t) \/ Batch(t) \/ Cancel(t) \/ Unlink(t) \/ CloseAll(t) \/ Retry(t) \/ Crowd(t)
  <2>1. ended' = ended
    BY <1>2 DEF Lookup, Screen, Probe, Read, Promote, DeleteBegin, DeleteMem, DeleteDisk, Wipe, Prepare, Batch, Cancel,
                Unlink, CloseAll, Retry, Crowd, counters, purgeHistory
  <2> QED BY <2>1
<1>3. CASE \E c \in BOOLEAN : Purge(t, c) \/ PurgeAll(t, c) \/ NotAccepted(t, c)
  BY <1>3 DEF Purge, PurgeAll, NotAccepted, counters, purgeHistory
<1>4. CASE Close(t)
  BY <1>4 DEF Close, Lifts
<1> QED BY <1>1, <1>2, <1>3, <1>4 DEF Act

(* What is in memory when a purge ends began after it. *)
LEMMA ActEnded ==
  ASSUME Sound, Ordered, WorkFenced, Cutoffs, Honoured, NEW t \in Tasks, Act(t), mem' # None
  PROVE  mem'.seen >= ended'
<1>1. CASE mem' # mem
  <2>1. mem'.seen >= owed /\ mem'.seen \in Nat /\ owed' = owed
    BY <1>1, NewMemory
  <2>2. ended' \in Nat /\ owed' \in Nat /\ ended' <= owed'
    BY ActCounters DEF CounterTypes
  <2> QED BY <2>1, <2>2
<1>2. CASE mem' = mem /\ ended' = ended
  BY <1>2 DEF Honoured
<1>3. CASE mem' = mem /\ Lifts(t) /\ ended' = Larger(ended, task[t].since)
  <2>1. mem \in Entry /\ Live(mem) /\ mem.seen \in Nat /\ mem.seen >= ended
    BY <1>3, LiveTyped, EntryFields DEF Live, Honoured
  <2>2. task[t].pc \in PurgeAt /\ task[t].max \in Past
    BY <1>3, LiftsAt DEF Honoured, PurgeAt, ScopedAt
  <2>3. mem.gen = KG /\ mem.gen \in Nat /\ mem.gen >= 1 /\ task[t].max \in Nat
    BY <1>3, WriteNumbers, ScopedNumbers DEF Ordered, Tiers
  <2>4. ~(mem.gen <= task[t].max)
    BY <2>2, <2>3 DEF Past
  <2>5. ~(mem.seen < task[t].since)
    BY <2>1, <2>2, <2>4 DEF Cutoffs, PurgeAt
  <2>6. task[t].since \in Nat /\ ended \in Nat
    BY SinceKnown, HaveTypes DEF CounterTypes
  <2> QED BY <1>3, <2>1, <2>5, <2>6 DEF Larger
<1> QED BY <1>1, <1>2, <1>3, EndedMoves

LEMMA ActHonoured ==
  ASSUME Sound, Ordered, Barriers, Cutoffs, Honoured, NEW t \in Tasks, Act(t), ~rolled', ~passed', Cutoffs'
  PROVE  Honoured'
<1>1. owedGen' = 0 \/ owedGen' \in Past' \/ owedGen' \in Enforced'
  BY ActOwed
<1>2. durableGen' = 0 \/ durableGen' \in Past' \/ (durableGen' \in plan' /\ (durableGen' \in intents' \/ 0 \in intents'))
  BY ActDurable
<1>3. \A u \in Tasks : Through(u)' => task'[u].max \in Past'
  BY ActThrough
<1>4. \A u \in Tasks : Cleared(u)' => item' = None \/ item'.gen > task'[u].max \/ item'.gen <= purgeGen'
  BY ActCleared
<1>5. item' # None /\ item'.seen < durable' =>
        (\E g \in intents' : g = 0 \/ item'.gen <= g) /\ (\E g \in plan' : item'.gen <= g)
  BY ActFileCovered
<1>6. mem' # None => mem'.seen >= ended'
  BY ActEnded DEF Barriers
<1> QED BY <1>1, <1>2, <1>3, <1>4, <1>5, <1>6 DEF Honoured

(* Lookups: what they have not found in memory does not come back. *)
LEMMA ActLooked ==
  ASSUME Sound, Sound', Ordered, WorkFenced, Cutoffs, Honoured, Looked, Found, NEW t \in Tasks, Act(t)
  PROVE  Looked'
<1>1. (\A u \in Tasks : task[u].since \in Nat /\ task[u].since <= owed)'
  BY SinceKnown, PTL
<1>2. ASSUME NEW u \in Tasks, mem' \notin {mem, None} PROVE mem'.seen >= task'[u].since
  <2>1. mem'.seen >= owed /\ mem'.seen \in Nat /\ owed' = owed /\ owed \in Nat
    BY <1>2, NewMemory, Types DEF Sound
  <2> QED BY <1>1, <2>1
<1>3. \A u \in Tasks \ {t} : task'[u] = task[u]
  BY ActTask, TaskOthers DEF Sound
<1>4. Arrives(t)
  BY ActArrives
<1>5. ASSUME NEW u \in Tasks,
             task'[u].pc \in {"probe", "read", "promote"} \/ (task'[u].pc = "drop" /\ task'[u].start = 0),
             mem' # None
      PROVE  mem'.seen >= task'[u].since
  <2>1. CASE mem' # mem
    BY <1>2, <1>5, <2>1
  <2>2. CASE mem' = mem /\ u # t
    BY <1>3, <1>5, <2>2 DEF Looked
  <2>3. CASE mem' = mem /\ u = t
    <3>1. ASSUME task[t].pc \in {"probe", "read", "promote"} \/ (task[t].pc = "drop" /\ task[t].start = 0),
                 task'[t].since = task[t].since
          PROVE  mem'.seen >= task'[u].since
      BY <1>5, <2>3, <3>1 DEF Looked
    <3>2. CASE task'[t].pc = "probe"
      <4>1. CASE Lookup(t)
        BY <1>5, <2>3, <3>2, <4>1, LookupMoves
      <4>2. CASE Drop(t)
        <5>1. task'[t] # Done
          BY <3>2, DoneFields
        <5> QED BY <3>1, <4>2, <5>1, DropMoves
      <4> QED BY <1>4, <3>2, <4>1, <4>2 DEF Arrives
    <3>3. CASE task'[t].pc = "read"
      BY <1>4, <3>1, <3>3, ProbeMoves DEF Arrives
    <3>4. CASE task'[t].pc = "promote"
      <4>1. task'[t] # Done
        BY <3>4, DoneFields
      <4> QED BY <1>4, <3>1, <3>4, <4>1, ReadMoves DEF Arrives
    <3>5. CASE task'[t].pc = "drop" /\ task'[t].start = 0
      <4>1. Unstore(t)
        BY <1>4, <3>5 DEF Arrives
      <4>2. task[t].pc = "unstore" /\ task[t].start = 0 /\ task'[t].since = task[t].since
        BY <3>5, <4>1, UnstoreMoves
      <4>3. mem.seen >= task[t].since \/ mem.gen <= task[t].max
        BY <1>5, <2>3, <4>2 DEF Looked
      <4>4. ~(mem.gen <= task[t].max)
        <5>1. KG \in Nat /\ task[t].max \in Nat /\ mem.gen = KG
          BY <1>5, <2>3, WriteNumbers, ScopedNumbers DEF Ordered, Tiers
        <5>2. CASE keyGen # None /\ keyGen.gen > task[t].max
          <6>1. KG = keyGen.gen
            BY <5>2 DEF KG, GenOf
          <6> QED BY <5>1, <5>2, <6>1
        <5>3. CASE ~(keyGen # None /\ keyGen.gen > task[t].max)
          BY <1>5, <2>3, <4>1, <5>3 DEF Unstore
        <5> QED BY <5>2, <5>3
      <4> QED BY <2>3, <4>2, <4>3, <4>4
    <3> QED BY <1>5, <2>3, <3>2, <3>3, <3>4, <3>5
  <2> QED BY <2>1, <2>2, <2>3
<1>6. ASSUME NEW u \in Tasks, task'[u].pc = "unstore", task'[u].start = 0, mem' # None
      PROVE  mem'.seen >= task'[u].since \/ mem'.gen <= task'[u].max
  <2>1. CASE mem' # mem
    BY <1>2, <1>6, <2>1
  <2>2. CASE mem' = mem /\ u # t
    BY <1>3, <1>6, <2>2 DEF Looked
  <2>3. CASE mem' = mem /\ u = t
    <3>1. task[t].pc \in {"origin", "check"} => task[t].start # 0
      BY DEF Sound, Shaped
    <3>2. ~Discard(t)
      <4>1. task'[t] # Done
        BY <1>6, <2>3, DoneFields
      <4> QED BY <1>6, <2>3, <3>1, <4>1, DiscardMoves
    <3>3. ~Check(t)
      <4>1. task'[t] # Done
        BY <1>6, <2>3, DoneFields
      <4> QED BY <1>6, <2>3, <3>1, <4>1, CheckMoves
    <3>4. Screen(t)
      BY <1>4, <1>6, <2>3, <3>2, <3>3 DEF Arrives
    <3>5. task[t].pc = "hit" /\ task'[t].max = task[t].ent.gen /\ task'[t].since = task[t].since
      BY <1>6, <2>3, <3>4, ScreenMoves
    <3> QED BY <1>6, <2>3, <3>5 DEF Found
  <2> QED BY <2>1, <2>2, <2>3
<1> QED BY <1>5, <1>6 DEF Looked

(* What a lookup has found in memory, while the fences are not consulted.  *)
LEMMA HitHasEntry ==
  ASSUME Sound, NEW u \in Tasks, task[u].pc = "hit"
  PROVE  task[u].ent \in Entry /\ task[u].ent.seen \in Nat /\ task[u].ent.gen \in Nat
<1>1. task[u].ent \in Entry
  BY Types, CallFields DEF Sound, Shaped
<1> QED BY <1>1, EntryFields

LEMMA ActFound ==
  ASSUME Sound, Sound', Ordered, WorkFenced, Cutoffs, Honoured, Found, NEW t \in Tasks, Act(t)
  PROVE  Found'
<1> SUFFICES ASSUME NEW u \in Tasks, task'[u].pc = "hit"
             PROVE  /\ task'[u].ent.seen >= task'[u].seen
                    /\ task'[u].ent.seen < task'[u].since => task'[u].ent.gen <= task'[u].max
                    /\ mem' = None \/ mem'.seen >= task'[u].since \/ mem'.gen <= task'[u].ent.gen
  BY DEF Found
<1>1. CASE u # t
  <2>1. task'[u] = task[u]
    BY <1>1, ActTask, TaskOthers DEF Sound
  <2>2. /\ task[u].ent.seen >= task[u].seen
        /\ task[u].ent.seen < task[u].since => task[u].ent.gen <= task[u].max
        /\ mem = None \/ mem.seen >= task[u].since \/ mem.gen <= task[u].ent.gen
    BY <2>1 DEF Found
  <2>3. CASE mem' \in {mem, None}
    BY <2>1, <2>2, <2>3
  <2>4. CASE mem' \notin {mem, None}
    <3>1. mem'.seen >= owed /\ mem'.seen \in Nat
      BY <2>4, NewMemory
    <3>2. task[u].since \in Nat /\ task[u].since <= owed /\ owed \in Nat
      BY SinceKnown, HaveTypes DEF CounterTypes
    <3>3. mem'.seen >= task[u].since
      BY <3>1, <3>2
    <3> QED BY <2>1, <2>2, <3>3
  <2> QED BY <2>3, <2>4
<1>2. CASE u = t
  <2>1. Lookup(t)
    BY <1>2, ActArrives DEF Arrives
  <2>2. mem # None /\ task'[t].ent = mem /\ task'[t].seen = ended /\ task'[t].since = owed /\ task'[t].max = owedGen
    BY <1>2, <2>1, LookupMoves
  <2>3. mem' = mem
    BY <2>1 DEF Lookup
  <2>4. mem \in Entry /\ Live(mem) /\ mem.gen \in Nat
    BY <2>2, LiveTyped, EntryFields DEF Live
  <2>5. mem.seen >= ended /\ (mem.seen < owed => mem.gen <= owedGen)
    BY <2>2, <2>4 DEF Cutoffs, Honoured
  <2> QED BY <1>2, <2>2, <2>3, <2>4, <2>5
<1> QED BY <1>1, <1>2

LEMMA ActPurgeFinal ==
  ASSUME Sound, Ordered, Cutoffs, Honoured, Looked, Found, PurgeFinal, NEW t \in Tasks, Act(t)
  PROVE  PurgeFinal'
<1> SUFFICES ASSUME NEW u \in Tasks, task'[u].pc = "got" PROVE task'[u].ent.seen >= task'[u].since
  BY DEF PurgeFinal
<1>1. CASE u # t
  <2>1. task'[u] = task[u]
    BY <1>1, ActTask, TaskOthers DEF Sound
  <2> QED BY <2>1 DEF PurgeFinal
<1>2. CASE u = t
  <2>1. CASE Screen(t)
    <3>1. /\ task[t].pc = "hit" /\ ~UnderPurge(task[t].ent.gen) /\ task'[t].ent = task[t].ent
          /\ \/ task[t].max \in Enforced /\ task'[t].since = task[t].since
             \/ task'[t].since = task[t].seen
      BY <1>2, <2>1, ScreenMoves
    <3>2. CASE task[t].max \in Enforced /\ task'[t].since = task[t].since
      <4>1. ~(task[t].ent.gen <= task[t].max)
        BY <3>1, <3>2 DEF UnderPurge
      <4>2. ~(task[t].ent.seen < task[t].since)
        BY <3>1, <4>1 DEF Found
      <4>3. task[t].ent \in Entry /\ task[t].ent.seen \in Nat /\ task[t].since \in Nat
        BY <3>1, HitHasEntry, SinceKnown
      <4> QED BY <1>2, <3>1, <3>2, <4>2, <4>3
    <3>3. CASE task'[t].since = task[t].seen
      BY <1>2, <3>1, <3>3 DEF Found
    <3> QED BY <3>1, <3>2, <3>3
  <2>2. CASE Promote(t)
    <3>1. task'[t] # Done
      BY <1>2, DoneFields
    <3>2. CASE task[t].pc = "promote" /\ mem # None /\ task'[t].ent = mem /\ task'[t].since = task[t].since
      BY <1>2, <3>2 DEF Looked
    <3>3. CASE task[t].pc = "promote" /\ StillValid(t) /\ task'[t].ent = task[t].ent /\ task'[t].since = task[t].since
      <4>1. task[t].ent \in Entry /\ task[t].ent.seen >= owed
        BY <3>3, ValidIsNewer
      <4>2. task[t].since \in Nat /\ task[t].since <= owed /\ owed \in Nat /\ task[t].ent.seen \in Nat
        BY <4>1, SinceKnown, Types, EntryFields DEF Sound
      <4> QED BY <1>2, <3>3, <4>1, <4>2
    <3> QED BY <2>2, <3>1, <3>2, <3>3, PromoteMoves
  <2> QED BY <1>2, <2>1, <2>2, ActArrives DEF Arrives
<1> QED BY <1>1, <1>2

LEMMA ActPurged ==
  ASSUME Sound, Sound', Ordered, Barriers, Purged, NEW t \in Tasks, Act(t)
  PROVE  Purged'
<1> SUFFICES ASSUME ~rolled', ~passed' PROVE InForce'
  BY DEF Purged
<1>1. Cutoffs /\ Honoured /\ Looked /\ Found /\ PurgeFinal /\ WorkFenced
  BY FlagsGrow DEF Purged, InForce, Barriers
<1>2. Cutoffs'
  BY <1>1, ActCutoffs
<1>3. Honoured'
  BY <1>1, <1>2, ActHonoured
<1>4. Looked'
  BY <1>1, ActLooked
<1>5. PurgeFinal'
  BY <1>1, ActPurgeFinal
<1>6. Found'
  BY <1>1, ActFound
<1> QED BY <1>2, <1>3, <1>4, <1>5, <1>6 DEF InForce

LEMMA StutterPurged ==
  ASSUME Purged, UNCHANGED vars
  PROVE  Purged'
<1>1. /\ UNCHANGED <<keyGen, mem, item, plan, intents, fences, ifloor, purgeGen, task>>
      /\ UNCHANGED <<owed, owedGen, durable, durableGen, ended, rolled, passed>>
  BY DEF vars, disk, barriers, counters, purgeHistory
<1>2. UNCHANGED <<Past, Enforced>> /\ \A e \in Entry : Live(e)' <=> Live(e)
  BY <1>1 DEF Past, Enforced, KG, Live, Carries
<1>3. \A u \in Tasks : (Through(u)' <=> Through(u)) /\ (Cleared(u)' <=> Cleared(u))
  BY <1>1 DEF Through, Cleared
<1>4. Cutoffs => Cutoffs'
  BY <1>1, <1>2 DEF Cutoffs
<1>5. Honoured => Honoured'
  BY <1>1, <1>2, <1>3 DEF Honoured
<1>6. (Looked => Looked') /\ (Found => Found') /\ (PurgeFinal => PurgeFinal')
  BY <1>1 DEF Looked, Found, PurgeFinal
<1> QED BY <1>1, <1>4, <1>5, <1>6 DEF Purged, InForce

LEMMA DiskActsPurged ==
  ASSUME Sound, Sound', Purged, DiskEvict \/ Sweep
  PROVE  Purged'
<1>1. /\ UNCHANGED <<mem, plan, intents, fences, ifloor, purgeGen, task>> /\ item' \in {item, None}
      /\ UNCHANGED <<owed, owedGen, durable, durableGen, ended, rolled, passed>>
  BY DEF DiskEvict, Sweep, barriers, counters, purgeHistory
<1>2. KG' \in {KG, 0}
  <2>1. PICK t \in Tasks : TRUE
    BY CacheStoreAssumption
  <2>2. KeyMove(t) /\ genSeq' = genSeq /\ ~Restore(t)
    <3>1. task' = task /\ genSeq' = genSeq /\ TypeOK
      BY DEF DiskEvict, Sweep, Sound
    <3>2. ~Restore(t)
      <4>1. ASSUME Restore(t) PROVE FALSE
        <5>1. task[t].pc = "write" /\ task'[t].pc # "write"
          BY <4>1, RestoreMoves, StoodFields DEF Sound
        <5> QED BY <3>1, <5>1
      <4> QED BY <4>1
    <3> QED BY <3>1, <3>2, DiskActsCat DEF CatStep
  <2>3. genSeq \in Nat
    BY FenceNumbers
  <2> QED BY <2>2, <2>3, NoKeyFields DEF KeyMove, KG
<1>3. Past \subseteq Past' /\ Enforced' = Enforced
  BY <1>1, <1>2 DEF Past, Enforced
<1>4. \A e \in Entry : Live(e)' => Live(e)
  BY <1>1, NoneApart DEF Live, Carries
<1>5. \A u \in Tasks : (Through(u)' <=> Through(u)) /\ (Cleared(u)' <=> Cleared(u))
  BY <1>1 DEF Through, Cleared
<1>6. Cutoffs => Cutoffs'
  BY <1>1, <1>4 DEF Cutoffs
<1>7. Honoured => Honoured'
  <2> SUFFICES ASSUME Honoured PROVE Honoured'
    OBVIOUS
  <2>1. owedGen' = 0 \/ owedGen' \in Past' \/ owedGen' \in Enforced'
    BY <1>1, <1>3 DEF Honoured
  <2>2. durableGen' = 0 \/ durableGen' \in Past' \/ (durableGen' \in plan' /\ (durableGen' \in intents' \/ 0 \in intents'))
    BY <1>1, <1>3 DEF Honoured
  <2>3. \A u \in Tasks : Through(u)' => task'[u].max \in Past'
    BY <1>1, <1>3, <1>5 DEF Honoured
  <2>4. \A u \in Tasks : Cleared(u)' => item' = None \/ item'.gen > task'[u].max \/ item'.gen <= purgeGen'
    BY <1>1, <1>5 DEF Honoured
  <2>5. item' # None /\ item'.seen < durable' =>
          (\E g \in intents' : g = 0 \/ item'.gen <= g) /\ (\E g \in plan' : item'.gen <= g)
    BY <1>1 DEF Honoured
  <2>6. mem' # None => mem'.seen >= ended'
    BY <1>1 DEF Honoured
  <2> QED BY <2>1, <2>2, <2>3, <2>4, <2>5, <2>6 DEF Honoured
<1>8. (Looked => Looked') /\ (Found => Found') /\ (PurgeFinal => PurgeFinal')
  BY <1>1 DEF Looked, Found, PurgeFinal
<1> QED BY <1>1, <1>6, <1>7, <1>8 DEF Purged, InForce

(* Where no call is under way, it is enough that what is stored began      *)
(* after the last durable purge, and that lookups honour the last cutoff.  *)
Restarted ==
    /\ \A u \in Tasks : task[u].pc \in {"idle", "done"} /\ task[u].since = 0
    /\ owedGen = 0 \/ owedGen \in Enforced
    /\ durableGen = 0 /\ owed = durable /\ ended = durable /\ durable \in Nat
    /\ \A e \in {mem, item} : e # None => e.seen \in Nat /\ e.seen >= durable

LEMMA RestartedInForce == Restarted => InForce
<1> SUFFICES ASSUME Restarted PROVE InForce
  OBVIOUS
<1>1. \A u \in Tasks : ~Carries(u) /\ ~Through(u) /\ ~Cleared(u) /\ task[u].pc \notin PurgeAt \cup {"probe", "read", "promote", "drop", "unstore", "hit", "got"}
  BY DEF Restarted, Carries, Through, Cleared, PurgeAt, ScopedAt, AllAt
<1>2. \A e \in Entry : Live(e) => e \in {mem, item} /\ e # None
  BY <1>1, NoneApart DEF Live
<1>3. Cutoffs
  <2>1. ASSUME NEW e \in Entry, Live(e) PROVE ~(e.seen < owed) /\ ~(e.seen < durable)
    BY <1>2, <2>1 DEF Restarted
  <2> QED BY <1>1, <2>1 DEF Cutoffs, PurgeAt
<1>4. Honoured
  <2>1. ~(item # None /\ item.seen < durable) /\ (mem # None => mem.seen >= ended)
    BY DEF Restarted
  <2>2. (owedGen = 0 \/ owedGen \in Enforced) /\ durableGen = 0
    BY DEF Restarted
  <2> QED BY <1>1, <2>1, <2>2 DEF Honoured
<1>5. Looked /\ Found /\ PurgeFinal
  BY <1>1 DEF Looked, Found, PurgeFinal
<1> QED BY <1>3, <1>4, <1>5 DEF InForce

(* The purges that a start could not carry out are still honoured. *)
LEMMA CrashEnforces ==
  ASSUME Sound, Crash
  PROVE  owedGen' = 0 \/ owedGen' \in Enforced'
<1>1. PICK rest \in SUBSET (intents \ {0}) : Unreconciled(rest)
  BY DEF Crash
<1>2. owedGen' \in rest \cup {0}
  BY <1>1 DEF Unreconciled, Greatest
<1>3. PICK top \in SUBSET rest : /\ fences' = {[gen |-> g, active |-> FALSE, remaining |-> TRUE] : g \in top}
                                 /\ ifloor' = rest \ top
  BY <1>1 DEF Unreconciled
<1>4. CASE owedGen' \in top
  <2> DEFINE f == [gen |-> owedGen', active |-> FALSE, remaining |-> TRUE]
  <2>1. f \in fences' /\ f.gen = owedGen' /\ f.remaining
    BY <1>3, <1>4
  <2> QED BY <2>1 DEF Enforced, Unfinished
<1>5. CASE owedGen' \in rest \ top
  BY <1>3, <1>5 DEF Enforced
<1> QED BY <1>2, <1>4, <1>5

LEMMA CrashPurged ==
  ASSUME Sound, Purged, Crash
  PROVE  Purged'
<1> SUFFICES ASSUME ~rolled', ~passed' PROVE InForce'
  BY DEF Purged
<1>1. Honoured
  <2>1. ~rolled /\ ~passed
    <3>1. UNCHANGED <<rolled, passed>>
      BY DEF Crash
    <3> QED BY <3>1
  <2> QED BY <2>1 DEF Purged, InForce
<1>2. \A u \in Tasks : task'[u].pc \in {"idle", "done"} /\ task'[u].since = 0
  BY CrashIs, IdleFields, DoneFields
<1>3. mem' = None /\ durableGen' = 0 /\ owed' = durable /\ ended' = durable /\ durable' = durable /\ durable \in Nat
  BY Types DEF Crash, Sound
<1>4. ASSUME item' # None PROVE item'.seen \in Nat /\ item'.seen >= durable
  <2>1. item' = item /\ ~\E g \in intents : g = 0 \/ item.gen <= g
    BY <1>4 DEF Crash, Survivors
  <2>2. item.seen \in Nat
    BY <1>4, <2>1, LiveTyped, EntryFields
  <2>3. ~(item.seen < durable)
    BY <1>1, <1>4, <2>1 DEF Honoured
  <2> QED BY <1>3, <2>1, <2>2, <2>3
<1>5. Restarted'
  BY <1>2, <1>3, <1>4, CrashEnforces DEF Restarted
<1> QED BY <1>5, RestartedInForce, PTL

LEMMA NextPurged ==
  ASSUME Sound, Sound', Ordered, Barriers, Purged, [Next]_vars
  PROVE  Purged'
  BY StutterPurged, ActPurged, DiskActsPurged, CrashPurged DEF Next, Act

LEMMA InitPurged ==
  ASSUME Init
  PROVE  Purged
<1>1. \A u \in Tasks : task[u].pc = "idle" /\ task[u].since = 0
  BY IdleFields DEF Init
<1>2. Stored.seen = 0 /\ [Stored EXCEPT !.large = TRUE].seen = 0
  BY DEF Stored
<1>3. \A e \in {mem, item} : e # None => e.seen = 0
  BY <1>2 DEF Init
<1>4. owedGen = 0 /\ durableGen = 0 /\ owed = 0 /\ durable = 0 /\ ended = 0
  BY DEF Init
<1> QED BY <1>1, <1>3, <1>4, RestartedInForce DEF Restarted, Purged

(* A purge holds: a lookup is never answered from memory with what origin  *)
(* work that began before a purge (InvalidateScope) has published, if the  *)
(* purge had ended when the lookup read memory (Cache.get), or is in force *)
(* when it then consults the fences; and never from disk, if the purge was *)
(* accepted before the lookup began.  This holds whatever publications,    *)
(* spills, deletions, cancelled or retried purges, fences pushed out by    *)
(* the cap, crashes and failed reconciliations come between - as long as   *)
(* no failed publication took the key's generation back to one that a      *)
(* purge covers, and no retried purge passed over a file it covers.        *)
THEOREM CacheStorePurgeHolds == Spec => []PurgeHolds
<1>1. Init => Purged
  BY InitPurged
<1>2. Sound /\ Sound' /\ Ordered /\ Barriers /\ Purged /\ [Next]_vars => Purged'
  BY NextPurged
<1>3. Purged => PurgeHolds
  BY DEF Purged, InForce, PurgeHolds
<1> QED BY <1>1, <1>2, <1>3, AlwaysSound, AlwaysOrdered, AlwaysBarriers, PTL DEF Spec
=============================================================================
