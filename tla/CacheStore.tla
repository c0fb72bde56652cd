----------------------------- MODULE CacheStore -----------------------------
(***************************************************************************)
(* The two-tier response cache as one key sees it (internal/cache:         *)
(* cache.go, memstore.go, diskstore.go, scoped_purge.go): publications by  *)
(* origin work that started at some generation, lookups that promote from  *)
(* disk, evictions that spill to disk, unsafe methods that delete, purges  *)
(* that fence and remove, and crashes.                                     *)
(*                                                                         *)
(* Steps are the critical sections of genMu and of the disk's mutex.       *)
(* Other keys only move the generation counter.  A file's readers, Vary    *)
(* stubs and tags are left out.  A task is one call; each runs once.       *)
(***************************************************************************)
EXTENDS Naturals, FiniteSets

CONSTANTS
    Tasks,       (* calls into the cache                                     *)
    None,
    MaxFences,   (* MaxActiveFences                                          *)
    MaxCrashes   (* bound: restarts after a crash                            *)

Entry == [gen : Nat, seen : Nat, pub : Nat, large : BOOLEAN]
KeyState == [gen : Nat, inflight : Nat, inDisk : BOOLEAN, era : Nat]
Fence == [gen : Nat, active : BOOLEAN, remaining : BOOLEAN]

ASSUME CacheStoreAssumption ==
    /\ IsFiniteSet(Tasks) /\ Tasks # {} /\ MaxFences \in Nat \ {0} /\ MaxCrashes \in Nat
    /\ None \notin Nat \cup Entry \cup KeyState

VARIABLES
    genSeq,    (* the generation counter of the cache                        *)
    purgeGen,  (* purgeGen and fenceFloorGen: the last purge of everything   *)
    keyGen,    (* the keyGenState of the key, or None                        *)
    mem,       (* the entry in memory, or None                               *)
    item,      (* the entry in the disk index and its file, or None          *)
    left,      (* a file that could not be unlinked and has a tombstone      *)
    plan,      (* purgeIntents: the cutoffs the manifest should hold         *)
    intents,   (* those in the manifest on disk; 0 is a truncated manifest   *)
    hw,        (* the durable high-water generation                          *)
    fences,    (* the purges in memory: cutoff, active, remaining            *)
    floor,     (* hostFenceFloorGen: what evicted fences barred              *)
    ifloor,    (* evictedIncompleteHostGens                                  *)
    task,      (* where each call is, and its locals                         *)
    purges,    (* history: the purges accepted                               *)
    durable,   (* history: the last of them that a restart may not undo      *)
    owed,      (* history: the last of them in force                         *)
    durableGen, owedGen,  (* history: their cutoffs; no purge of this process*)
                          (* or of an intent it took over has a later one    *)
    ended,     (* history: the last of them known to have run to its end     *)
    deletes,   (* history: the unsafe methods that began to delete           *)
    deleted,   (* history: the last of them that ended                       *)
    rolled,    (* history: a generation was taken back to before a purge     *)
    passed,    (* history: a retried purge passed over a file it covers      *)
    crashes

purgeHistory == <<purges, durable, owed, durableGen, owedGen, ended>>
counters == <<purgeHistory, deletes, deleted, rolled, passed, crashes>>
disk == <<item, left, plan, intents, hw>>
barriers == <<purgeGen, fences, floor, ifloor>>
vars == <<genSeq, keyGen, mem, disk, barriers, task, counters>>

(* A task: era and era2 name the keyGenState it has pinned, twice when it  *)
(* deletes within another operation; gens are 0 when they are not set.     *)
Idle == [pc |-> "idle", start |-> 0, gen |-> 0, prev |-> 0, max |-> 0, era |-> None, era2 |-> None,
         ent |-> None, seen |-> 0, since |-> 0, after |-> 0, flag |-> FALSE, rest |-> FALSE]
Done == [Idle EXCEPT !.pc = "done"]

Places == {"idle", "done", "origin", "write", "undo", "check", "unstore", "drop",
           "evicted", "flush", "hit", "probe", "read", "promote", "got", "delmem", "deldisk",
           "wipe", "prepare", "prepareall", "batch", "unlink", "unlinkall", "close", "closeall"}

(* The cached entry, when there is one, was stored by an earlier call.     *)
Stored == [gen |-> 2, seen |-> 0, pub |-> 0, large |-> FALSE]
Init ==
    /\ mem \in {None, Stored} /\ item \in {None, Stored, [Stored EXCEPT !.large = TRUE]}
    /\ item # None /\ mem # None => item = mem
    /\ genSeq = IF mem = None /\ item = None THEN 0 ELSE 2
    /\ keyGen = IF mem = None /\ item = None THEN None
                ELSE [gen |-> 2, inflight |-> 0, inDisk |-> item # None, era |-> 0]
    /\ purgeGen = 0 /\ left = None /\ plan = {} /\ intents = {} /\ hw = 0
    /\ fences = {} /\ floor = 0 /\ ifloor = {}
    /\ task = [t \in Tasks |-> Idle]
    /\ purges = 0 /\ durable = 0 /\ owed = 0 /\ durableGen = 0 /\ owedGen = 0 /\ ended = 0
    /\ deletes = 0 /\ deleted = 0 /\ rolled = FALSE /\ passed = FALSE /\ crashes = 0
-----------------------------------------------------------------------------
Larger(a, b) == IF a >= b THEN a ELSE b

(* The keyGenState.  It is the same object as long as no purge of          *)
(* everything replaced the catalog, so its era is its identity.            *)
BeginNext(st) ==
    IF st = None THEN [gen |-> genSeq + 1, inflight |-> 1, inDisk |-> FALSE, era |-> purgeGen]
    ELSE [st EXCEPT !.gen = genSeq + 1, !.inflight = @ + 1]
BeginRead(st) ==
    IF st = None THEN [gen |-> 0, inflight |-> 1, inDisk |-> FALSE, era |-> purgeGen]
    ELSE [st EXCEPT !.inflight = @ + 1]

Reclaimed(st, m) ==
    IF st # None /\ st.inflight = 0 /\ m = None /\ ~st.inDisk THEN None ELSE st

(* finishKeyOp, on the object that was pinned.                             *)
(* Mutant: unpins whatever object the key has by now. *)
FinishedByName(st, era, m) ==
    IF st # None /\ era # None THEN Reclaimed([st EXCEPT !.inflight = @ - 1], m) ELSE st
Finished(st, era, m) ==
    IF st # None /\ era # None /\ st.era = era
    THEN Reclaimed([st EXCEPT !.inflight = @ - 1], m) ELSE st

(* setKeyDiskState: what the disk reports whenever it touched the key.     *)
Notified(st, m, onDisk) ==
    IF st = None THEN None
    ELSE IF onDisk THEN [st EXCEPT !.inDisk = TRUE] ELSE Reclaimed([st EXCEPT !.inDisk = FALSE], m)

IsCurrent(g) ==
    /\ g >= purgeGen
    /\ IF keyGen # None /\ keyGen.gen # 0 THEN keyGen.gen = g ELSE g = 0 /\ purgeGen = 0

Unfinished(f) == f.active \/ f.remaining

(* The cutoffs of the purges in force: those not run to their end.         *)
Enforced == ifloor \cup {f.gen : f \in {h \in fences : Unfinished(h)}}

(* Whether work that started at s may publish, and whether an entry of     *)
(* generation g may still be served.                                       *)
PublicationFenced(s) == s <= purgeGen \/ s <= floor \/ \E f \in fences : s <= f.gen
UnderPurge(g) == \E c \in Enforced : g <= c
ResidentFenced(g) == g < purgeGen \/ UnderPurge(g)

(* inflightOps: the start generations of the origin work under way.        *)
InflightOps == {task[t].start : t \in {u \in Tasks : task[u].start # 0}}

(* reclaimFencesLocked and enforceFenceCapLocked: a completed fence is     *)
(* kept as long as older work is under way; over the cap, the oldest       *)
(* completed one, or else the oldest, becomes a floor for its host.        *)
(* Completed fences of one selector are not coalesced here: the newest     *)
(* bars whatever the others do.                                            *)
Oldest(fs) == {f \in fs : \A h \in fs : f.gen <= h.gen}
Overflow(fs) ==
    LET over == {f \in fs : ~Unfinished(f)} IN Oldest(IF over = {} THEN fs ELSE over)
PushOut(fs, fl) ==
    \E f \in Overflow(fs) :
       /\ fences' = fs \ {f}
       /\ floor' = Larger(fl, f.gen)
       /\ ifloor' = IF Unfinished(f) THEN ifloor \cup {f.gen} ELSE ifloor
Enforce(fs, fl) ==
    IF Cardinality(fs) <= MaxFences THEN fences' = fs /\ floor' = fl /\ ifloor' = ifloor
    ELSE PushOut(fs, fl)
(* Mutant: a fence goes as soon as its purge has completed. *)
KeptWhileIncomplete(fs, ops) == {f \in fs : Unfinished(f)}
Kept(fs, ops) == {f \in fs : Unfinished(f) \/ \E s \in ops : s <= f.gen}
FloorFor(ops) == IF \E s \in ops : s <= floor THEN floor ELSE 0

(* endInflightOriginOp, when a task that did origin work returns.          *)
EndOp(t) ==
    IF task[t].start = 0 THEN UNCHANGED <<fences, floor, ifloor>>
    ELSE LET ops == {task[u].start : u \in {v \in Tasks \ {t} : task[v].start # 0}}
         IN Enforce(Kept(fences, ops), FloorFor(ops))

Become(t, r) == task' = [task EXCEPT ![t] = r]

(* What a publication still needs once its file is written or given up.    *)
Stood(t) == [Idle EXCEPT !.pc = "check", !.start = task[t].start, !.gen = task[t].gen, !.era = task[t].era]

(* The disk drops the key if its generation is at most g: the tombstone is *)
(* durable before the unlink, so that only a file with one stays behind.   *)
DropUpTo(g) ==
    IF item = None \/ item.gen > g THEN UNCHANGED <<item, left>>
    ELSE /\ item' = None
         /\ left' \in {left, item}
OnDisk == item' # None \/ left' # None
(* delIfOlderGen and deleteBatchAtMostGen report the key, the first unless *)
(* a newer entry is there, the second only when it dropped one.            *)
Told(g) == IF item # None /\ item.gen > g THEN keyGen ELSE Notified(keyGen, mem, OnDisk)
ToldIfDropped == IF item' = item THEN keyGen ELSE Notified(keyGen, mem, OnDisk)
-----------------------------------------------------------------------------
(* Origin work: a fill, or the validation of an entry looked up before.    *)
Begin(t) ==
    /\ task[t].pc \in {"idle", "got"}
    /\ genSeq' = genSeq + 1
    /\ Become(t, [Idle EXCEPT !.pc = "origin", !.start = genSeq + 1, !.seen = purges, !.ent = task[t].ent])
    /\ UNCHANGED <<keyGen, mem, disk, barriers, counters>>

(* Nothing to store.  A validation whose answer may not be kept also       *)
(* deletes what was stored when it began.                                  *)
Discard(t) ==
    /\ task[t].pc = "origin"
    /\ \/ Become(t, Done) /\ EndOp(t)
       \/ /\ task[t].ent # None
          /\ Become(t, [Idle EXCEPT !.pc = "unstore", !.start = task[t].start, !.max = task[t].start])
          /\ UNCHANGED <<fences, floor, ifloor>>
    /\ UNCHANGED <<genSeq, keyGen, mem, disk, purgeGen, counters>>

(* The first half of a publication: the fence is consulted, the key gets a *)
(* new generation and memory the entry, unless its body is on disk only.   *)
(* After a 304 or a tolerated error the entry looked up is stored again.   *)
Publishable(t) ==
    LET new(l) == [gen |-> genSeq + 1, seen |-> task[t].seen, pub |-> deletes, large |-> l]
    IN  {<<new(l), FALSE>> : l \in BOOLEAN} \cup
        (IF task[t].ent = None THEN {} ELSE {<<new(task[t].ent.large), TRUE>>})
Publish(t) ==
    /\ task[t].pc = "origin"
    /\ IF PublicationFenced(task[t].start)
       THEN /\ Become(t, Done) /\ EndOp(t)
            /\ UNCHANGED <<genSeq, keyGen, mem>>
       ELSE /\ genSeq' = genSeq + 1
            /\ keyGen' = BeginNext(keyGen)
            /\ \E p \in Publishable(t) :
                  /\ mem' = IF p[1].large THEN None ELSE p[1]
                  /\ Become(t, [task[t] EXCEPT !.pc = "write", !.gen = genSeq + 1, !.ent = p[1],
                                  !.flag = p[2], !.era = BeginNext(keyGen).era,
                                  !.prev = IF keyGen = None THEN 0 ELSE keyGen.gen])
            /\ UNCHANGED <<fences, floor, ifloor>>
    /\ UNCHANGED <<disk, purgeGen, counters>>

(* The second half: the file replaces the one there if, under the disk's   *)
(* lock, the generation is still current and still not fenced.             *)
WorkOf(t) == IF task[t].pc = "flush" THEN task[t].ent.gen ELSE task[t].start
CanCommit(t) ==
    /\ IsCurrent(task[t].ent.gen)
    /\ ~PublicationFenced(WorkOf(t))
    /\ item # None => item.gen <= task[t].ent.gen

Commit(t) ==
    /\ task[t].pc \in {"write", "flush"} /\ CanCommit(t)
    /\ item' = task[t].ent /\ left' = None
    /\ IF task[t].pc = "write"
       THEN Become(t, Stood(t)) /\ keyGen' = Notified(keyGen, mem, TRUE)
       ELSE Become(t, Done) /\ keyGen' = Finished(Notified(keyGen, mem, TRUE), task[t].era, mem)
    /\ UNCHANGED <<genSeq, mem, plan, intents, hw, barriers, counters>>

(* Refused, or the write failed: a spill gives up, a publication goes on   *)
(* with Restore or Undo.                                                   *)
Refuse(t) ==
    /\ task[t].pc = "flush"
    /\ Become(t, Done)
    /\ keyGen' = Finished(keyGen, task[t].era, mem)
    /\ UNCHANGED <<genSeq, mem, disk, barriers, counters>>

(* A body that is nowhere now: its generation is taken back.               *)
TakesBack(t) == keyGen # None /\ keyGen.era = task[t].era /\ keyGen.gen = task[t].gen
Restore(t) ==
    /\ task[t].pc = "write" /\ task[t].ent.large
    /\ keyGen' = IF TakesBack(t) THEN [keyGen EXCEPT !.gen = task[t].prev] ELSE keyGen
    /\ rolled' = (rolled \/ (TakesBack(t) /\ task[t].prev \in 1 .. owedGen))
    /\ Become(t, IF task[t].flag THEN Stood(t) ELSE [task[t] EXCEPT !.pc = "undo", !.prev = 0])
    /\ UNCHANGED <<genSeq, mem, disk, barriers, purgeHistory, deletes, deleted, passed, crashes>>

(* delIfOlderGen: what the entry superseded may not come back at a restart.*)
(* Mutant: the older file stays when the new one could not be written. *)
UndoKeepsOlder(t) ==
    /\ task[t].pc = "undo" \/ (task[t].pc = "write" /\ ~task[t].ent.large)
    /\ Become(t, Stood(t))
    /\ UNCHANGED <<genSeq, keyGen, mem, disk, barriers, counters>>
Undo(t) ==
    /\ task[t].pc = "undo" \/ (task[t].pc = "write" /\ ~task[t].ent.large)
    /\ DropUpTo(task[t].gen - 1)
    /\ IF task[t].ent.large
       THEN /\ keyGen' = Finished(Told(task[t].gen - 1), task[t].era, mem)
            /\ Become(t, Done) /\ EndOp(t)
       ELSE /\ keyGen' = Told(task[t].gen - 1)
            /\ Become(t, Stood(t))
            /\ UNCHANGED <<fences, floor, ifloor>>
    /\ UNCHANGED <<genSeq, mem, plan, intents, hw, purgeGen, counters>>

(* A purge that was accepted in the meantime takes the entry back.         *)
Check(t) ==
    /\ task[t].pc = "check"
    /\ IF PublicationFenced(task[t].start)
       THEN /\ Become(t, [task[t] EXCEPT !.pc = "unstore", !.max = task[t].gen, !.gen = 0])
            /\ UNCHANGED <<keyGen, fences, floor, ifloor>>
       ELSE /\ keyGen' = Finished(keyGen, task[t].era, mem)
            /\ Become(t, Done) /\ EndOp(t)
    /\ UNCHANGED <<genSeq, mem, disk, purgeGen, counters>>

(* delOneIfGenAtMost: catalog and memory, then disk.                       *)
Unstore(t) ==
    /\ task[t].pc = "unstore"
    /\ IF keyGen # None /\ keyGen.gen > task[t].max
       THEN /\ Become(t, [task[t] EXCEPT !.pc = "drop"])
            /\ UNCHANGED <<genSeq, keyGen, mem>>
       ELSE /\ genSeq' = genSeq + 1
            /\ keyGen' = BeginNext(keyGen)
            /\ mem' = IF mem # None /\ mem.gen <= task[t].max THEN None ELSE mem
            /\ Become(t, [task[t] EXCEPT !.pc = "drop", !.era2 = BeginNext(keyGen).era])
    /\ UNCHANGED <<disk, barriers, counters>>

Drop(t) ==
    /\ task[t].pc = "drop"
    /\ DropUpTo(task[t].max)
    /\ keyGen' = Finished(Finished(Told(task[t].max), task[t].era2, mem), task[t].era, mem)
    /\ IF task[t].start = 0
       THEN Become(t, [task[t] EXCEPT !.pc = "probe", !.max = 0, !.era2 = None]) /\ UNCHANGED <<fences, floor, ifloor>>
       ELSE Become(t, Done) /\ EndOp(t)
    /\ UNCHANGED <<genSeq, mem, plan, intents, hw, purgeGen, counters>>
-----------------------------------------------------------------------------
(* Eviction from memory: the victim is written to disk if disk lacks it.   *)
Evict(t) ==
    /\ task[t].pc = "idle" /\ mem # None
    /\ mem' = None
    /\ keyGen' = IF keyGen = None THEN None ELSE [keyGen EXCEPT !.inflight = @ + 1]
    /\ Become(t, [Idle EXCEPT !.pc = "evicted", !.ent = mem, !.era = IF keyGen = None THEN None ELSE keyGen.era])
    /\ UNCHANGED <<genSeq, disk, barriers, counters>>

Flush(t) ==
    /\ task[t].pc = "evicted"
    /\ IF item = None /\ IsCurrent(task[t].ent.gen) /\ ~PublicationFenced(task[t].ent.gen)
       THEN Become(t, [task[t] EXCEPT !.pc = "flush"]) /\ UNCHANGED keyGen
       ELSE Become(t, Done) /\ keyGen' = Finished(keyGen, task[t].era, mem)
    /\ UNCHANGED <<genSeq, mem, disk, barriers, counters>>

DiskEvict ==
    /\ item # None
    /\ item' = None
    /\ keyGen' = Notified(keyGen, mem, left # None)
    /\ UNCHANGED <<genSeq, mem, left, plan, intents, hw, barriers, task, counters>>

(* Every operation on the disk first tries the pending unlinks again.      *)
Sweep ==
    /\ left # None
    /\ left' = None
    /\ keyGen' = Notified(keyGen, mem, item # None)
    /\ UNCHANGED <<genSeq, mem, item, plan, intents, hw, barriers, task, counters>>

(* get: memory, unless an unfinished purge covers what was found there;    *)
(* else the disk, read without a lock and promoted if nothing has happened *)
(* to the key.  A call notes which purges were accepted and which had      *)
(* ended when it read memory.                                              *)
Lookup(t) ==
    /\ task[t].pc = "idle"
    /\ LET r == [Idle EXCEPT !.since = owed, !.after = deleted]
       IN Become(t, IF mem = None THEN [r EXCEPT !.pc = "probe"]
                    ELSE [r EXCEPT !.pc = "hit", !.ent = mem, !.max = owedGen, !.seen = ended])
    /\ UNCHANGED <<genSeq, keyGen, mem, disk, barriers, counters>>

(* The fences are consulted after memory was read: a purge that ended in   *)
(* between bars nothing any more.                                          *)
Screen(t) ==
    /\ task[t].pc = "hit"
    /\ LET r == [Idle EXCEPT !.since = task[t].since, !.after = task[t].after]
       IN Become(t, IF UnderPurge(task[t].ent.gen) THEN [r EXCEPT !.pc = "unstore", !.max = task[t].ent.gen]
                    ELSE [r EXCEPT !.pc = "got", !.ent = task[t].ent,
                            !.since = IF task[t].max \in Enforced THEN @ ELSE task[t].seen])
    /\ UNCHANGED <<genSeq, keyGen, mem, disk, barriers, counters>>

Probe(t) ==
    /\ task[t].pc = "probe"
    /\ keyGen' = BeginRead(keyGen)
    /\ Become(t, [task[t] EXCEPT !.pc = "read", !.gen = BeginRead(keyGen).gen, !.era = BeginRead(keyGen).era])
    /\ UNCHANGED <<genSeq, mem, disk, barriers, counters>>

Read(t) ==
    /\ task[t].pc = "read"
    /\ \/ /\ item # None
          /\ Become(t, [task[t] EXCEPT !.pc = "promote", !.ent = item])
          /\ keyGen' = Notified(keyGen, mem, TRUE)
          /\ UNCHANGED <<item, left>>
       \/ /\ DropUpTo(IF item = None THEN 0 ELSE item.gen)   (* a miss, or unreadable *)
          /\ Become(t, Done)
          /\ keyGen' = Finished(ToldIfDropped, task[t].era, mem)
    /\ UNCHANGED <<genSeq, mem, plan, intents, hw, barriers, counters>>

StillValid(t) ==
    /\ keyGen # None /\ keyGen.era = task[t].era /\ purgeGen = task[t].era
    /\ keyGen.gen = task[t].gen
    /\ IsCurrent(task[t].ent.gen) /\ ~ResidentFenced(task[t].ent.gen)

Promote(t) ==
    /\ task[t].pc = "promote"
    /\ LET good == StillValid(t)
           got == IF good THEN task[t].ent ELSE mem
       IN /\ mem' = IF good /\ ~task[t].ent.large THEN task[t].ent ELSE mem
          /\ keyGen' = Finished(keyGen, task[t].era, mem')
          /\ Become(t, IF got = None THEN Done
                       ELSE [Idle EXCEPT !.pc = "got", !.ent = got, !.since = task[t].since, !.after = task[t].after])
    /\ UNCHANGED <<genSeq, disk, barriers, counters>>
-----------------------------------------------------------------------------
(* Delete, after a successful unsafe method: disk, memory, disk, with      *)
(* varyMu held.                                                            *)
DeleteBegin(t) ==
    /\ task[t].pc = "idle" /\ \A u \in Tasks : task[u].pc \notin {"delmem", "deldisk"}
    /\ deletes' = deletes + 1
    /\ DropUpTo(genSeq)
    /\ keyGen' = ToldIfDropped
    /\ Become(t, [Idle EXCEPT !.pc = "delmem", !.max = deletes + 1])
    /\ UNCHANGED <<genSeq, mem, plan, intents, hw, barriers, purgeHistory, deleted, rolled, passed, crashes>>

(* Mutant: the generation of a deleted key stays what it was. *)
DeleteMemSameGen(t) ==
    /\ task[t].pc = "delmem"
    /\ mem' = None
    /\ keyGen' = BeginRead(keyGen)
    /\ Become(t, [task[t] EXCEPT !.pc = "deldisk", !.era = BeginRead(keyGen).era])
    /\ UNCHANGED <<genSeq, disk, barriers, counters>>
DeleteMem(t) ==
    /\ task[t].pc = "delmem"
    /\ genSeq' = genSeq + 1
    /\ mem' = None
    /\ keyGen' = BeginNext(keyGen)
    /\ Become(t, [task[t] EXCEPT !.pc = "deldisk", !.era = BeginNext(keyGen).era])
    /\ UNCHANGED <<disk, barriers, counters>>

DeleteDisk(t) ==
    /\ task[t].pc = "deldisk"
    /\ DropUpTo(genSeq)
    /\ keyGen' = Finished(Told(genSeq), task[t].era, mem)
    /\ deleted' = task[t].max
    /\ Become(t, Done)
    /\ UNCHANGED <<genSeq, mem, plan, intents, hw, barriers, purgeHistory, deletes, rolled, passed, crashes>>
-----------------------------------------------------------------------------
(* InvalidateScope, for a selector that matches the key.  Under genMu the  *)
(* cutoff is drawn, the intent made durable (or not: an I/O error) and the *)
(* fence installed; a purge of everything empties memory and the catalog.  *)
Accept(t, committed) ==
    /\ task[t].pc = "idle"
    /\ genSeq' = genSeq + 1
    /\ plan' = plan \cup {genSeq + 1}
    /\ intents' = IF committed THEN plan' ELSE intents
    /\ purges' = purges + 1 /\ owed' = purges + 1 /\ owedGen' = genSeq + 1
    /\ durable' = IF committed THEN purges + 1 ELSE durable
    /\ durableGen' = IF committed THEN genSeq + 1 ELSE durableGen
    /\ UNCHANGED <<item, left, hw, deletes, deleted, rolled, passed, crashes>>

(* The ledger refused the cutoff: no purge, but the intent stays, and a    *)
(* completed fence that bars the work under way.                           *)
NotAccepted(t, committed) ==
    /\ task[t].pc = "idle"
    /\ genSeq' = genSeq + 1
    /\ plan' = plan \cup {genSeq + 1}
    /\ intents' = IF committed THEN plan' ELSE intents
    /\ Enforce(Kept(fences \cup {[gen |-> genSeq + 1, active |-> FALSE, remaining |-> FALSE]}, InflightOps),
               FloorFor(InflightOps))
    /\ Become(t, IF committed THEN Done ELSE [Idle EXCEPT !.pc = "wipe"])
    /\ UNCHANGED <<keyGen, mem, item, left, hw, purgeGen, counters>>

Held == keyGen # None /\ (mem # None \/ keyGen.inDisk \/ keyGen.inflight > 0)
Purge(t, committed) ==
    /\ Accept(t, committed)
    /\ Enforce(fences \cup {[gen |-> genSeq + 1, active |-> TRUE, remaining |-> FALSE]}, floor)
    /\ Become(t, [Idle EXCEPT !.pc = "prepare", !.max = genSeq + 1, !.flag = committed,
                    !.since = purges + 1, !.rest = Held])
    /\ UNCHANGED <<keyGen, mem, purgeGen, ended>>

PurgeAll(t, committed) ==
    /\ Accept(t, committed)
    /\ purgeGen' = genSeq + 1 /\ fences' = {} /\ floor' = 0 /\ ifloor' = {}
    /\ keyGen' = None /\ mem' = None /\ ended' = purges + 1
    /\ Become(t, [Idle EXCEPT !.pc = "prepareall", !.max = genSeq + 1, !.flag = committed, !.since = purges + 1])

(* With the intent not written, every file goes, and the manifest is       *)
(* truncated so that a restart does the same, unless that fails too.       *)
Wiped ==
    /\ item' = None /\ left' = None
    /\ intents' \in {{0}, intents}
    /\ keyGen' = Notified(keyGen, mem, FALSE)
Wipe(t) ==
    /\ task[t].pc = "wipe"
    /\ Wiped
    /\ Become(t, Done)
    /\ UNCHANGED <<genSeq, mem, plan, hw, barriers, counters>>

(* Then the cutoff is recorded as the high-water mark.                     *)
Prepare(t) ==
    /\ task[t].pc \in {"prepare", "prepareall"}
    /\ IF task[t].flag THEN UNCHANGED <<keyGen, item, left, intents, durable, durableGen>>
       ELSE /\ Wiped
            /\ IF 0 \in intents' /\ task[t].since > durable
               THEN durable' = task[t].since /\ durableGen' = task[t].max
               ELSE UNCHANGED <<durable, durableGen>>
    /\ hw' = Larger(hw, task[t].max)
    /\ Become(t, [task[t] EXCEPT !.pc = IF task[t].pc = "prepareall" THEN "unlinkall"
                                        ELSE IF task[t].rest THEN "batch" ELSE "close",
                                 !.rest = FALSE])
    /\ UNCHANGED <<genSeq, mem, plan, barriers, purges, owed, owedGen, ended, deletes, deleted, rolled, passed, crashes>>

(* The key's batch: catalog and memory, then disk; or the caller's context *)
(* ended before it.                                                        *)
Batch(t) ==
    /\ task[t].pc = "batch"
    /\ LET old == keyGen # None /\ keyGen.gen <= task[t].max
           m == IF mem # None /\ mem.gen <= task[t].max THEN None ELSE mem
       IN /\ genSeq' = IF old THEN genSeq + 1 ELSE genSeq
          /\ mem' = m
          /\ keyGen' = Reclaimed(IF old THEN [keyGen EXCEPT !.gen = genSeq + 1] ELSE keyGen, m)
    /\ Become(t, [task[t] EXCEPT !.pc = "unlink"])
    /\ UNCHANGED <<disk, barriers, counters>>

Cancel(t) ==
    /\ task[t].pc = "batch"
    /\ Become(t, [task[t] EXCEPT !.pc = "close", !.rest = TRUE])
    /\ UNCHANGED <<genSeq, keyGen, mem, disk, barriers, counters>>

(* Mutant: the batch also takes an entry published after the cutoff. *)
UnlinkAny(t) ==
    /\ task[t].pc \in {"unlink", "unlinkall"}
    /\ DropUpTo(genSeq)
    /\ keyGen' = ToldIfDropped
    /\ Become(t, [task[t] EXCEPT !.pc = IF task[t].pc = "unlink" THEN "close" ELSE "closeall",
                                 !.rest = left' # left])
    /\ UNCHANGED <<genSeq, mem, plan, intents, hw, barriers, counters>>
Unlink(t) ==
    /\ task[t].pc \in {"unlink", "unlinkall"}
    /\ DropUpTo(task[t].max)
    /\ keyGen' = ToldIfDropped
    /\ Become(t, [task[t] EXCEPT !.pc = IF task[t].pc = "unlink" THEN "close" ELSE "closeall",
                                 !.rest = left' # left])
    /\ UNCHANGED <<genSeq, mem, plan, intents, hw, barriers, counters>>

(* What is left to do keeps the fence, and the intent, in force.           *)
Remains(t) == task[t].rest \/ left # None
Complete(gs, all) ==
    IF all THEN plan' = plan \ gs /\ intents' \in {plan \ gs, intents}   (* an I/O error *)
    ELSE UNCHANGED <<plan, intents>>
Close(t) ==
    /\ task[t].pc = "close"
    /\ LET own == {f \in fences : f.gen = task[t].max}
       IN fences' = Kept((fences \ own) \cup
                            {[f EXCEPT !.active = FALSE, !.remaining = Remains(t)] : f \in own}, InflightOps)
    /\ floor' = FloorFor(InflightOps)
    /\ ifloor' = IF Remains(t) THEN ifloor ELSE ifloor \ {task[t].max}
    /\ Complete({task[t].max}, task[t].flag /\ ~Remains(t))
    /\ ended' = IF Remains(t) THEN ended ELSE Larger(ended, task[t].since)
    /\ Become(t, Done)
    /\ UNCHANGED <<genSeq, keyGen, mem, item, left, hw, purgeGen, purges, durable, owed, durableGen, owedGen,
                   deletes, deleted, rolled, passed, crashes>>

CloseAll(t) ==
    /\ task[t].pc = "closeall"
    /\ Complete(1 .. task[t].max, task[t].flag /\ ~Remains(t))
    /\ Become(t, Done)
    /\ UNCHANGED <<genSeq, keyGen, mem, item, left, hw, barriers, counters>>

(* The operator runs an incomplete purge again, with its old cutoff.  A    *)
(* key whose generation is newer is passed over, though the file that the  *)
(* newer entry replaces may still be there.                                *)
PassesOver(f) == item # None /\ item.gen \in purgeGen + 1 .. f.gen /\ keyGen.gen > f.gen
Retry(t) ==
    /\ task[t].pc = "idle"
    /\ \E f \in fences :
          /\ ~f.active /\ f.remaining
          /\ fences' = (fences \ {f}) \cup {[f EXCEPT !.active = TRUE]}
          /\ plan' = plan \cup {f.gen} /\ intents' = plan'
          /\ passed' = (passed \/ PassesOver(f))
          /\ Become(t, [Idle EXCEPT !.pc = "prepare", !.max = f.gen, !.flag = TRUE,
                          !.rest = Held /\ keyGen.gen <= f.gen])
    /\ UNCHANGED <<genSeq, keyGen, mem, item, left, hw, purgeGen, floor, ifloor,
                   purgeHistory, deletes, deleted, rolled, crashes>>

(* A purge of other keys, which pushes a fence of this one out.            *)
Crowd(t) ==
    /\ task[t].pc = "idle"
    /\ genSeq' = genSeq + 1
    /\ PushOut(fences, floor)
    /\ Become(t, Done)
    /\ UNCHANGED <<keyGen, mem, disk, purgeGen, counters>>
-----------------------------------------------------------------------------
(* A crash and the next start: memory, catalog and fences are gone;        *)
(* tombstones are swept, files indexed, the counter resumes above all that *)
(* is durable, and the intents are carried out before anything is served.  *)
(* Those that could not be are kept, each with an unfinished fence, or a   *)
(* floor when there is no room for it; the file may still be there then.   *)
Survivors == IF item # None /\ \E g \in intents : g = 0 \/ item.gen <= g THEN None ELSE item
Greatest(gs) == {h \in gs : \A g \in gs : g <= h}
Unreconciled(rest) ==
    /\ plan' = rest
    /\ intents' \in {rest \cup (intents \cap {0}), intents}
    /\ owedGen' \in Greatest(rest \cup {0})
    /\ \E top \in SUBSET rest :
          /\ Cardinality(top) <= MaxFences /\ (top = rest \/ Cardinality(top) = MaxFences)
          /\ \A g \in rest \ top, h \in top : g < h
          /\ fences' = {[gen |-> g, active |-> FALSE, remaining |-> TRUE] : g \in top}
          /\ floor' \in Greatest((rest \ top) \cup {0}) /\ ifloor' = rest \ top
Crash ==
    /\ crashes < MaxCrashes /\ crashes' = crashes + 1
    /\ mem' = None /\ item' = Survivors
    /\ \E rest \in SUBSET (intents \ {0}) :
          /\ Unreconciled(rest)
          /\ left' \in {None} \cup (IF item' # item /\ \A g \in intents : g # 0 /\ (item.gen <= g => g \in rest)
                                    THEN {item} ELSE {})
    /\ hw' \in Greatest(intents \cup {hw})
    /\ genSeq' = Larger(hw', IF item = None THEN 0 ELSE item.gen) + (IF item' = item THEN 0 ELSE 1)
    /\ keyGen' = IF item' = None /\ left' = None THEN None
                 ELSE [gen |-> IF item' = None THEN genSeq' ELSE item'.gen,
                       inflight |-> 0, inDisk |-> TRUE, era |-> 0]
    /\ purgeGen' = 0
    /\ task' = [t \in Tasks |-> IF task[t].pc = "idle" THEN task[t] ELSE Done]
    /\ owed' = durable /\ durableGen' = 0 /\ ended' = durable
    /\ UNCHANGED <<purges, durable, deletes, deleted, rolled, passed>>

Next ==
    \/ \E t \in Tasks :
          \/ Begin(t) \/ Discard(t) \/ Publish(t) \/ Commit(t) \/ Refuse(t) \/ Restore(t) \/ Undo(t)
          \/ Check(t) \/ Unstore(t) \/ Drop(t) \/ Evict(t) \/ Flush(t)
          \/ Lookup(t) \/ Screen(t) \/ Probe(t) \/ Read(t) \/ Promote(t)
          \/ DeleteBegin(t) \/ DeleteMem(t) \/ DeleteDisk(t)
          \/ \E c \in BOOLEAN : Purge(t, c) \/ PurgeAll(t, c) \/ NotAccepted(t, c)
          \/ Wipe(t) \/ Prepare(t) \/ Batch(t) \/ Cancel(t) \/ Unlink(t) \/ Close(t) \/ CloseAll(t) \/ Retry(t)
          \/ Crowd(t)
    \/ DiskEvict \/ Sweep \/ Crash

Spec == Init /\ [][Next]_vars
-----------------------------------------------------------------------------
Calls == [pc : Places, start : Nat, gen : Nat, prev : Nat, max : Nat, era : Nat \cup {None},
          era2 : Nat \cup {None}, ent : Entry \cup {None}, seen : Nat, since : Nat, after : Nat,
          flag : BOOLEAN, rest : BOOLEAN]
TypeOK ==
    /\ {genSeq, purgeGen, hw, floor} \subseteq Nat
    /\ {purges, durable, owed, durableGen, owedGen, ended, deletes, deleted, crashes} \subseteq Nat
    /\ {rolled, passed} \subseteq BOOLEAN
    /\ {mem, item, left} \subseteq Entry \cup {None}
    /\ keyGen \in KeyState \cup {None}
    /\ plan \subseteq 1 .. genSeq /\ intents \subseteq 0 .. genSeq /\ ifloor \subseteq 1 .. genSeq
    /\ fences \subseteq {f \in Fence : f.gen \in 1 .. genSeq}
    /\ Cardinality(fences) <= MaxFences
    /\ task \in [Tasks -> Calls]

(* A lookup is never answered with what origin work that began before a    *)
(* purge has published, if the purge had ended when the lookup began, or   *)
(* is in force when the lookup consults the fences: not by a slow          *)
(* write-through, a promotion, an eviction's spill, a purge cancelled      *)
(* half-way, a fence pushed out by the cap or a restart.  From disk, it is *)
(* enough that the purge was accepted before.  The exceptions are a        *)
(* publication that takes the generation back to one the purge covered,    *)
(* and a retry that passes over a file still to be replaced.               *)
PurgeFinal == \A t \in Tasks : task[t].pc = "got" => task[t].ent.seen >= task[t].since
PurgeHolds == ~rolled /\ ~passed => PurgeFinal

(* After an unsafe method has deleted the entry, no lookup finds what was  *)
(* published before the deletion began, a crash in between included.       *)
DeleteHolds == \A t \in Tasks : task[t].pc = "got" => task[t].ent.pub >= task[t].after

(* The catalog knows of all that is stored, so that a purge, which takes   *)
(* its candidates from it, finds it; and it counts its users exactly, so   *)
(* that a state in use is never reclaimed and replaced.                    *)
CatalogComplete ==
    /\ mem # None => keyGen # None
    /\ item # None /\ item.gen > purgeGen => keyGen # None /\ keyGen.inDisk
PinsCounted ==
    keyGen # None =>
       keyGen.inflight = Cardinality({t \in Tasks : task[t].era = keyGen.era})
                       + Cardinality({t \in Tasks : task[t].era2 = keyGen.era})

(* The catalog of generations is exact, whoever pins, publishes, evicts,   *)
(* deletes or purges, and after a crash.                                   *)
CatalogExact == TypeOK /\ CatalogComplete /\ PinsCounted

(* When nothing is being written, memory and disk agree: what a restart    *)
(* would serve is never older than what is served now.                     *)
TiersAgree ==
    /\ \A t \in Tasks : task[t].pc # "write"
    /\ mem # None /\ item # None
    => item.gen = mem.gen

(* A purge takes nothing whose origin work began after it was accepted,    *)
(* though it deletes in later steps, while others publish.                 *)
Spared(e, e2, t) == e # None /\ e2 # e => e.seen < task[t].since
PurgeSparesNewer ==
    [][\A t \in Tasks :
         task[t].pc \in {"batch", "unlink", "unlinkall"} /\ task[t].since # 0
           /\ task'[t] # task[t] /\ crashes' = crashes
         => Spared(mem, mem', t) /\ Spared(item, item', t)]_vars
=============================================================================
