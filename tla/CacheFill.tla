------------------------------ MODULE CacheFill ------------------------------
(***************************************************************************)
(* How concurrent requests for one cached resource share origin requests:  *)
(* the fill lock of a cold miss (internal/cache/fill.go), the shared       *)
(* validation of an expired entry (validate.go, revalidate.go), the        *)
(* background refresh of a stale one, and what a purge or an unsafe method *)
(* does to them.                                                           *)
(*                                                                         *)
(* The store is reduced to the state of the entry under each key (its      *)
(* tiers, generations and fences are the subject of CacheStore): origin    *)
(* work a purge overtook is marked fenced and cannot publish.  A call, of  *)
(* either kind, has the name of the request that leads it: a request leads *)
(* at most one of each.                                                    *)
(***************************************************************************)
EXTENDS Naturals, FiniteSets

CONSTANTS
    Reqs,         (* requests for the resource                               *)
    Base,         (* its primary key                                         *)
    Variants,     (* the variant keys a Vary response is stored under        *)
    Want,         (* the variant each request selects                        *)
    Private,      (* requests with credentials, barred from shared entries   *)
    None,
    MaxChanges    (* bound: expiries, evictions, purges and unsafe methods   *)

ASSUME CacheFillAssumption ==
    /\ Base \notin Variants /\ None \notin Reqs \cup Variants \cup {Base}
    /\ None \notin {"fresh", "stale", "expired"}
    /\ Want \in [Reqs -> Variants] /\ Private \subseteq Reqs
    /\ MaxChanges \in Nat

Keys == Variants \cup {Base}

VARIABLES
    varies,    (* whether the origin's responses carry Vary                  *)
    members,   (* the variants the Vary stub owns; no stub when empty        *)
    entry,     (* the entry under a key: None, fresh, stale or expired       *)
    fills,     (* Cache.fills: the leader of the cold-miss fill of a key     *)
    fill,      (* the fillCall of a request: none, open, stored or empty     *)
    calls,     (* Cache.calls: the leader of the validation of a key         *)
    call,      (* the revalidateCall of a request: none, open, entry, empty  *)
    pc,        (* where a request is in the handler                          *)
    bg,        (* the background refresh a request started                   *)
    fk,        (* the fill key of a request                                  *)
    vk,        (* the key a request validates or refreshes                   *)
    on,        (* the leader a request waits for                             *)
    retry,     (* allowVariantRetry                                          *)
    kept,      (* stored, the result of leadFill                             *)
    tail,      (* whether an abandoned response still streams                *)
    fenced,    (* whether a purge overtook the request's origin work         *)
    changes,   (* expiries, evictions and changes so far                    *)
    detached,  (* history: the calls a purge took out of the tables          *)
    asked,     (* history: the requests sent to the origin unconditionally   *)
    lost,      (* history: an entry expired, was evicted or removed          *)
    failed,    (* history: an answer of the origin was not stored            *)
    timedOut   (* history: the requests whose lock timeout fired             *)

store == <<varies, members, entry>>
tables == <<fills, fill, calls, call>>
local == <<fk, vk, on, retry, kept, tail>>
history == <<detached, asked, lost, failed, timedOut>>
vars == <<store, tables, pc, bg, local, fenced, changes, history>>

Places == {"start", "miss", "recheck", "fill", "wait", "woken", "fetch", "release",
           "finish", "stream", "validate", "lead", "join", "serve", "endcall",
           "refresh", "done", "panicked"}

TypeOK ==
    /\ varies \in BOOLEAN /\ members \in SUBSET Variants
    /\ entry \in [Keys -> {None, "fresh", "stale", "expired"}]
    /\ IF varies THEN entry[Base] = None ELSE members = {}
    /\ fills \in [Keys -> Reqs \cup {None}] /\ calls \in [Keys -> Reqs \cup {None}]
    /\ fill \in [Reqs -> {"none", "open", "stored", "empty"}]
    /\ call \in [Reqs -> {"none", "open", "entry", "empty"}]
    /\ pc \in [Reqs -> Places] /\ bg \in [Reqs -> {"none", "run", "end"}]
    /\ fk \in [Reqs -> Keys] /\ vk \in [Reqs -> Keys] /\ on \in [Reqs -> Reqs \cup {None}]
    /\ retry \in [Reqs -> BOOLEAN] /\ kept \in [Reqs -> BOOLEAN] /\ tail \in [Reqs -> BOOLEAN]
    /\ fenced \in [Reqs -> BOOLEAN] /\ changes \in 0 .. MaxChanges
    /\ detached \in [Reqs -> SUBSET {"fill", "call"}]
    /\ asked \in SUBSET Reqs /\ timedOut \in SUBSET Reqs
    /\ lost \in BOOLEAN /\ failed \in BOOLEAN

(* The resource may have been stored before, and gone stale since.         *)
Init ==
    /\ varies \in BOOLEAN /\ members = {}
    /\ \E f \in {None, "stale", "expired"} :
          /\ varies => f = None
          /\ entry = [k \in Keys |-> IF k = Base THEN f ELSE None]
    /\ fills = [k \in Keys |-> None] /\ calls = [k \in Keys |-> None]
    /\ fill = [r \in Reqs |-> "none"] /\ call = [r \in Reqs |-> "none"]
    /\ pc = [r \in Reqs |-> "start"] /\ bg = [r \in Reqs |-> "none"]
    /\ fk = [r \in Reqs |-> Base] /\ vk = [r \in Reqs |-> Base] /\ on = [r \in Reqs |-> None]
    /\ retry = [r \in Reqs |-> FALSE] /\ kept = [r \in Reqs |-> FALSE]
    /\ tail = [r \in Reqs |-> FALSE] /\ fenced = [r \in Reqs |-> FALSE]
    /\ changes = 0 /\ detached = [r \in Reqs |-> {}]
    /\ asked = {} /\ timedOut = {} /\ lost = FALSE /\ failed = FALSE
-----------------------------------------------------------------------------
(* What a lookup sees: the key it settles on, and the entry there if the   *)
(* stub owns it and the request may reuse it.                              *)
EffKey(r) == IF members = {} THEN Base ELSE Want[r]
Found(r) ==
    IF r \in Private \/ (members # {} /\ Want[r] \notin members) THEN None ELSE entry[EffKey(r)]

(* Where a response to r is stored: the variant before the stub that owns  *)
(* it, in one critical section of varyMu.                                  *)
Slot(r) == IF varies THEN Want[r] ELSE Base
Put(r, f) ==
    /\ entry' = [entry EXCEPT ![Slot(r)] = f]
    /\ members' = members \cup ({Slot(r)} \cap Variants)

Goto(r, place) == pc' = [pc EXCEPT ![r] = place]

(* What the handler still has to do when the part r is in returns: the     *)
(* deferred end of a validation it leads, the release of its fill.         *)
Unwound(r) ==
    IF pc[r] \in {"fetch", "serve"} /\ call[r] # "none" THEN "endcall"
    ELSE IF fill[r] = "open" THEN "release" ELSE "done"

(* A lookup that found something: serve it, serve it and refresh it in the *)
(* background, or validate it first.                                       *)
Reuse(r) ==
    /\ Found(r) # None
    /\ Goto(r, CASE Found(r) = "fresh" -> Unwound(r)
                 [] Found(r) = "stale" -> "refresh"
                 [] Found(r) = "expired" -> "validate")
    /\ vk' = [vk EXCEPT ![r] = EffKey(r)]

Lookup(r) ==
    /\ pc[r] = "start"
    /\ \/ Reuse(r) /\ UNCHANGED <<fk, retry>>
       \/ /\ Found(r) = None
          /\ fk' = [fk EXCEPT ![r] = EffKey(r)]
          /\ retry' = [retry EXCEPT ![r] = EffKey(r) = Base]
          /\ Goto(r, "miss")
          /\ UNCHANGED vk
    /\ UNCHANGED <<store, tables, bg, on, kept, tail, fenced, changes, history>>

(* The start of an origin request that may store what it gets.             *)
Ask(r, place) ==
    /\ Goto(r, place)
    /\ asked' = asked \cup {r}
    /\ fenced' = [fenced EXCEPT ![r] = FALSE]
-----------------------------------------------------------------------------
(* The fill lock.                                                          *)
BeginFill(r) ==
    /\ pc[r] = "miss"
    /\ IF fills[fk[r]] = None
       THEN /\ fills' = [fills EXCEPT ![fk[r]] = r]
            /\ fill' = [fill EXCEPT ![r] = "open"]
            /\ Goto(r, "recheck")
            /\ UNCHANGED on
       ELSE /\ on' = [on EXCEPT ![r] = fills[fk[r]]]
            /\ Goto(r, "wait")
            /\ UNCHANGED <<fills, fill>>
    /\ UNCHANGED <<store, calls, call, bg, fk, vk, retry, kept, tail, fenced, changes, history>>

(* A new leader looks again before it asks the origin.                     *)
(* Mutant: it does not look again. *)
RecheckSkipped(r) ==
    /\ pc[r] = "recheck"
    /\ Ask(r, "fill")
    /\ UNCHANGED <<store, tables, bg, fk, vk, on, retry, kept, tail, changes, detached, lost, failed, timedOut>>
Recheck(r) ==
    /\ pc[r] = "recheck"
    /\ \/ Reuse(r) /\ kept' = [kept EXCEPT ![r] = TRUE] /\ UNCHANGED <<fenced, asked>>
       \/ Found(r) = None /\ Ask(r, "fill") /\ UNCHANGED <<kept, vk>>
    /\ UNCHANGED <<store, tables, bg, fk, on, retry, tail, changes, detached, lost, failed, timedOut>>

(* leadFill: the response is stored; or it is not storable, seen at its    *)
(* headers or when the capture overflows, and the fill is given up while   *)
(* the response streams on; or the origin failed, panicked, the client     *)
(* left or a purge came in between.                                        *)
FillStores(r) ==
    /\ pc[r] = "fill" /\ ~fenced[r]
    /\ Put(r, "fresh")
    /\ kept' = [kept EXCEPT ![r] = TRUE]
    /\ Goto(r, "release")
    /\ UNCHANGED <<varies, tables, bg, fk, vk, on, retry, tail, fenced, changes, history>>

Abandon(r) ==
    /\ pc[r] = "fill"
    /\ tail' = [tail EXCEPT ![r] = TRUE]
    /\ failed' = TRUE
    /\ Goto(r, "release")
    /\ UNCHANGED <<store, tables, bg, fk, vk, on, retry, kept, fenced, changes, detached, asked, lost, timedOut>>

(* Mutant: a fill whose publication was refused reports it stored. *)
FillFailsKept(r) ==
    /\ pc[r] = "fill"
    /\ kept' = [kept EXCEPT ![r] = TRUE]
    /\ failed' = TRUE
    /\ Goto(r, "release")
    /\ UNCHANGED <<store, tables, bg, fk, vk, on, retry, tail, fenced, changes, detached, asked, lost, timedOut>>
FillFails(r) ==
    /\ pc[r] = "fill"
    /\ failed' = TRUE
    /\ Goto(r, "release")
    /\ UNCHANGED <<store, tables, bg, local, fenced, changes, detached, asked, lost, timedOut>>

(* release: take the fill out of the table, unless the slot is another's   *)
(* by now, then wake the waiters.  An abandoned fill is released a second  *)
(* time when its response ends.                                            *)
Without(table, k, r) == [table EXCEPT ![k] = IF @ = r THEN None ELSE @]
(* Mutant: empties the slot whoever holds it. *)
EndFillBlindly(r) ==
    /\ pc[r] = "release"
    /\ fills' = [fills EXCEPT ![fk[r]] = None]
    /\ Goto(r, "finish")
    /\ UNCHANGED <<store, fill, calls, call, bg, local, fenced, changes, history>>
EndFill(r) ==
    /\ pc[r] = "release"
    /\ fills' = Without(fills, fk[r], r)
    /\ Goto(r, "finish")
    /\ UNCHANGED <<store, fill, calls, call, bg, local, fenced, changes, history>>

Finish(r) ==
    /\ pc[r] = "finish"
    /\ fill' = [fill EXCEPT ![r] = IF @ # "open" THEN @ ELSE IF kept[r] THEN "stored" ELSE "empty"]
    /\ Goto(r, IF tail[r] THEN "stream" ELSE "done")
    /\ UNCHANGED <<store, fills, calls, call, bg, local, fenced, changes, history>>

StreamEnds(r) ==
    /\ pc[r] = "stream"
    /\ tail' = [tail EXCEPT ![r] = FALSE]
    /\ Goto(r, "release")
    /\ UNCHANGED <<store, tables, bg, fk, vk, on, retry, kept, fenced, changes, history>>

(* awaitFill: the fill ended.                                              *)
(* Mutant: a fill that stored nothing does not end the wait. *)
WakeIfStored(r) ==
    /\ pc[r] = "wait" /\ fill[on[r]] = "stored"
    /\ Goto(r, "woken")
    /\ UNCHANGED <<store, tables, bg, local, fenced, changes, history>>
Wake(r) ==
    /\ pc[r] = "wait"
    /\ \/ fill[on[r]] = "stored" /\ Goto(r, "woken") /\ UNCHANGED <<asked, fenced>>
       \/ fill[on[r]] = "empty" /\ Ask(r, "fetch")
    /\ UNCHANGED <<store, tables, bg, local, changes, detached, lost, failed, timedOut>>

(* The client leaves before the fill ends, or as it does.                  *)
GiveUp(r) ==
    /\ pc[r] = "wait"
    /\ Goto(r, "done")
    /\ UNCHANGED <<store, tables, bg, local, fenced, changes, history>>

(* The lock timeout fires first: the request goes to the origin by itself, *)
(* and its response is neither captured nor stored.                        *)
TimeOut(r) ==
    /\ pc[r] = "wait"
    /\ asked' = asked \cup {r}
    /\ timedOut' = timedOut \cup {r}
    /\ Goto(r, "done")
    /\ UNCHANGED <<store, tables, bg, local, fenced, changes, detached, lost, failed>>

(* A waiter looks for what was stored; when it is of no use and a stub has *)
(* appeared, it competes once more, for the fill of its own variant.       *)
Woken(r) ==
    /\ pc[r] = "woken"
    /\ \/ Reuse(r) /\ UNCHANGED <<fk, retry, asked, fenced>>
       \/ /\ Found(r) = None
          /\ IF retry[r] /\ EffKey(r) \notin {Base, fk[r]}
             THEN /\ fk' = [fk EXCEPT ![r] = EffKey(r)]
                  /\ retry' = [retry EXCEPT ![r] = FALSE]
                  /\ Goto(r, "miss")
                  /\ UNCHANGED <<asked, fenced>>
             ELSE Ask(r, "fetch") /\ UNCHANGED <<fk, retry>>
          /\ UNCHANGED vk
    /\ UNCHANGED <<store, tables, bg, on, kept, tail, changes, detached, lost, failed, timedOut>>

(* fetchAndStoreWithPolicy without the lock: stored, or not.               *)
Fetch(r) ==
    /\ pc[r] = "fetch"
    /\ \/ ~fenced[r] /\ Put(r, "fresh") /\ UNCHANGED failed
       \/ failed' = TRUE /\ UNCHANGED <<entry, members>>
    /\ Goto(r, Unwound(r))
    /\ UNCHANGED <<varies, tables, bg, local, fenced, changes, detached, asked, lost, timedOut>>
-----------------------------------------------------------------------------
(* Validation: one request leads, the others wait for its result.          *)
BeginValidate(r) ==
    /\ pc[r] = "validate"
    /\ IF calls[vk[r]] = None
       THEN /\ calls' = [calls EXCEPT ![vk[r]] = r]
            /\ call' = [call EXCEPT ![r] = "open"]
            /\ fenced' = [fenced EXCEPT ![r] = FALSE]
            /\ Goto(r, "lead")
            /\ UNCHANGED on
       ELSE /\ on' = [on EXCEPT ![r] = calls[vk[r]]]
            /\ Goto(r, "join")
            /\ UNCHANGED <<calls, call, fenced>>
    /\ UNCHANGED <<store, fills, fill, bg, fk, vk, retry, kept, tail, changes, detached, asked, lost, failed, timedOut>>

(* What a validation publishes, for the leader and for a refresh: the      *)
(* origin confirmed or replaced the entry, or failed within the            *)
(* stale-if-error window; the result is for the waiters too.               *)
Publishes(r) ==
    /\ ~fenced[r]
    /\ \/ entry' = [entry EXCEPT ![vk[r]] = "fresh"] /\ UNCHANGED members
       \/ entry' = [entry EXCEPT ![vk[r]] = "stale"] /\ UNCHANGED members
       \/ Put(r, "fresh")
    /\ call' = [call EXCEPT ![r] = "entry"]

(* Otherwise nothing is published, and the entry validated is dropped, the *)
(* stub with it if what varies may not be shared, unless it was replaced   *)
(* in the meantime; or it is kept, if the origin failed.                   *)
Drops(r) ==
    /\ failed' = TRUE
    /\ \/ entry' = [entry EXCEPT ![vk[r]] = None] /\ lost' = TRUE /\ UNCHANGED members
       \/ entry' = [k \in Keys |-> None] /\ members' = {} /\ lost' = TRUE
       \/ UNCHANGED <<entry, members, lost>>
    /\ call' = [call EXCEPT ![r] = "empty"]

LeadPublishes(r) ==
    /\ pc[r] = "lead" /\ Publishes(r)
    /\ Goto(r, "serve")
    /\ UNCHANGED <<varies, fills, fill, calls, bg, local, fenced, changes, history>>

(* Without a result the leader forwards the answer it got, or asks again.  *)
LeadDrops(r) ==
    /\ pc[r] = "lead" /\ Drops(r)
    /\ \/ Goto(r, "endcall") /\ UNCHANGED <<asked, fenced>>
       \/ Ask(r, "fetch")
    /\ UNCHANGED <<varies, fills, fill, calls, bg, local, changes, detached, timedOut>>

(* The origin handler panics under a validation or an unlocked fetch: what *)
(* is deferred ends the validation, the panic goes on up through           *)
(* fillOrWait, which has nothing deferred at its second lookup.            *)
Panic(r) ==
    /\ pc[r] \in {"lead", "fetch"}
    /\ calls' = Without(calls, vk[r], r)
    /\ call' = [call EXCEPT ![r] = IF @ = "open" THEN "empty" ELSE @]
    /\ failed' = TRUE
    /\ Goto(r, IF fill[r] = "open" THEN "panicked" ELSE "done")
    /\ UNCHANGED <<store, fills, fill, bg, local, fenced, changes, detached, asked, lost, timedOut>>

(* The leader serves the entry to its own client, at the client's pace; a  *)
(* body gone from the disk makes it ask the origin.                        *)
Serve(r) ==
    /\ pc[r] = "serve"
    /\ \/ Goto(r, "endcall") /\ UNCHANGED <<asked, fenced, lost>>
       \/ Ask(r, "fetch") /\ lost' = TRUE
    /\ UNCHANGED <<store, tables, bg, local, changes, detached, failed, timedOut>>

EndRevalidate(r) ==
    /\ pc[r] = "endcall"
    /\ calls' = Without(calls, vk[r], r)
    /\ Goto(r, Unwound(r))
    /\ UNCHANGED <<store, fills, fill, call, bg, local, fenced, changes, history>>

Joined(r) ==
    /\ pc[r] = "join"
    /\ \/ call[on[r]] = "entry" /\ Goto(r, Unwound(r)) /\ UNCHANGED <<asked, fenced>>
       \/ call[on[r]] = "empty" /\ Ask(r, "fetch")
    /\ UNCHANGED <<store, tables, bg, local, changes, detached, lost, failed, timedOut>>

Leave(r) ==
    /\ pc[r] = "join"
    /\ Goto(r, Unwound(r))
    /\ UNCHANGED <<store, tables, bg, local, fenced, changes, history>>

(* After a stale entry was served: a refresh in the background, if the     *)
(* generation grants a lease and none is running for the key.              *)
StartRefresh(r) ==
    /\ pc[r] = "refresh"
    /\ \/ UNCHANGED <<calls, call, bg, fenced>>
       \/ /\ calls[vk[r]] = None
          /\ calls' = [calls EXCEPT ![vk[r]] = r]
          /\ call' = [call EXCEPT ![r] = "open"]
          /\ bg' = [bg EXCEPT ![r] = "run"]
          /\ fenced' = [fenced EXCEPT ![r] = FALSE]
    /\ Goto(r, Unwound(r))
    /\ UNCHANGED <<store, fills, fill, local, changes, history>>

Refresh(r) ==
    /\ bg[r] = "run"
    /\ \/ Publishes(r) /\ UNCHANGED <<lost, failed>>
       \/ Drops(r)
    /\ bg' = [bg EXCEPT ![r] = "end"]
    /\ UNCHANGED <<varies, fills, fill, calls, pc, local, fenced, changes, detached, asked, timedOut>>

EndRefresh(r) ==
    /\ bg[r] = "end"
    /\ calls' = Without(calls, vk[r], r)
    /\ bg' = [bg EXCEPT ![r] = "none"]
    /\ UNCHANGED <<store, fills, fill, call, pc, local, fenced, changes, history>>
-----------------------------------------------------------------------------
(* Time and space: an entry goes stale, expires, is evicted; so is a stub. *)
Age(k) ==
    /\ changes < MaxChanges /\ changes' = changes + 1
    /\ \/ /\ entry[k] # None
          /\ \E f \in {None, "stale", "expired"} \ {entry[k]} :
                /\ entry[k] = "expired" => f = None
                /\ entry' = [entry EXCEPT ![k] = f]
          /\ UNCHANGED members
       \/ k = Base /\ members # {} /\ members' = {} /\ UNCHANGED entry
    /\ lost' = TRUE
    /\ UNCHANGED <<varies, tables, pc, bg, local, fenced, detached, asked, failed, timedOut>>

Emptied ==
    /\ changes < MaxChanges /\ changes' = changes + 1
    /\ entry' = [k \in Keys |-> None] /\ members' = {}
    /\ lost' = TRUE

(* A successful unsafe method deletes what is stored, and only that.       *)
Delete ==
    /\ Emptied
    /\ UNCHANGED <<varies, tables, pc, bg, local, fenced, detached, asked, failed, timedOut>>

(* A purge also fences the origin work in flight and detaches its calls,   *)
(* so that a later request does not wait for a result it may not use.      *)
AtOrigin == {r \in Reqs : pc[r] \in {"fill", "fetch", "lead"} \/ bg[r] = "run"}
Purge ==
    /\ Emptied
    /\ fenced' = [r \in Reqs |-> fenced[r] \/ r \in AtOrigin]
    /\ fills' = [k \in Keys |-> None] /\ calls' = [k \in Keys |-> None]
    /\ detached' = [r \in Reqs |->
          detached[r] \cup {t \in {"fill"} : \E k \in Keys : fills[k] = r}
                      \cup {t \in {"call"} : \E k \in Keys : calls[k] = r}]
    /\ UNCHANGED <<varies, fill, call, pc, bg, local, asked, failed, timedOut>>

(* The steps a request, its refresh and the origin take by themselves; the *)
(* lock timeout and the client's leaving are not among them.               *)
Steps(r) ==
    \/ Lookup(r) \/ BeginFill(r) \/ Recheck(r) \/ FillStores(r) \/ Abandon(r) \/ FillFails(r)
    \/ EndFill(r) \/ Finish(r) \/ StreamEnds(r) \/ Wake(r) \/ Woken(r) \/ Fetch(r)
    \/ BeginValidate(r) \/ LeadPublishes(r) \/ LeadDrops(r) \/ Panic(r) \/ Serve(r)
    \/ EndRevalidate(r) \/ Joined(r) \/ StartRefresh(r) \/ Refresh(r) \/ EndRefresh(r)

Next ==
    \/ \E r \in Reqs : Steps(r) \/ GiveUp(r) \/ TimeOut(r) \/ Leave(r)
    \/ \E k \in Keys : Age(k)
    \/ Delete \/ Purge

Spec == Init /\ [][Next]_vars
FairSpec == Spec /\ \A r \in Reqs : WF_vars(Steps(r))
-----------------------------------------------------------------------------
(* A leader that no purge detached holds its slot in the table until it    *)
(* gives it up itself: the late second release of an abandoned fill, or    *)
(* the late end of a detached validation, never evicts a newer leader,     *)
(* which would let a second origin request start (revalidate.go:132).      *)
LeadersHoldTheirSlots ==
    \A r \in Reqs :
       /\ fill[r] = "open" /\ pc[r] # "finish" /\ "fill" \notin detached[r] => fills[fk[r]] = r
       /\ call[r] = "open" /\ "call" \notin detached[r] => calls[vk[r]] = r

(* Where a request is while it leads a fill, and while it leads a          *)
(* validation.                                                             *)
Filling == {"recheck", "fill", "validate", "join", "refresh", "lead", "serve",
            "fetch", "endcall", "release"}
Validating == {"lead", "serve", "fetch", "endcall"}

(* Whoever is in a table is at work on the step that takes it out again    *)
(* (leadFill's deferred release, fill.go:168; inflightFills, which         *)
(* fill_test.go:886 expects to be 0 when the handlers have returned), with *)
(* one exception: a leader that panicked at its second lookup, before      *)
(* anything was deferred (fill.go:148), stays in the table for good, and   *)
(* its followers are not "released immediately" (docs/cache.md:725-732)    *)
(* but run into their lock timeouts, until a purge detaches it.            *)
NoneStranded ==
    \A k \in Keys :
       /\ fills[k] # None => pc[fills[k]] \in Filling \cup {"panicked"}
       /\ calls[k] # None => pc[calls[k]] \in Validating \/ bg[calls[k]] # "none"

(* The tables and the requests agree: types, leaders and their slots.      *)
CallsOwned == TypeOK /\ LeadersHoldTheirSlots /\ NoneStranded

(* When a fill reports that it stored an entry, its waiters find one, as   *)
(* long as nothing expired, was evicted or removed (fill.go:150-199).      *)
StoredIsFindable ==
    \A r \in Reqs : fill[r] = "stored" /\ ~lost =>
       /\ entry[Slot(r)] # None
       /\ varies => Slot(r) \in members

(* A burst of misses on a cacheable response costs one origin request,     *)
(* that of a request that leads just after another's fill ended included,  *)
(* and one more for every waiter whose lock timeout fired (fill.go:190,    *)
(* docs/cache.md:733-736).                                                 *)
OneOriginRequest ==
    ~lost /\ ~failed /\ ~varies => Cardinality(asked \ (Private \cup timedOut)) <= 1

(* Every request is answered and every refresh ends, although nobody's     *)
(* lock timeout fires: leaders of both kinds always wake their waiters,    *)
(* and no cycle of waiting forms between fills and validations.  Only a    *)
(* panic at a leader's second lookup leaves its waiters to their timeouts. *)
AllAnswered ==
    <>(\/ \A r \in Reqs : pc[r] = "done" /\ bg[r] = "none"
       \/ \E r \in Reqs : pc[r] = "panicked")
=============================================================================
