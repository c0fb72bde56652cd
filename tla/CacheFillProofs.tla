-------------------------- MODULE CacheFillProofs --------------------------
(***************************************************************************)
(* Shared fills and validations for every set of requests, variants and    *)
(* any number of expiries, evictions, purges and unsafe methods.           *)
(***************************************************************************)
EXTENDS CacheFill, FiniteSetTheorems, TLAPS

(* The places before a request can lead a fill, before it can lead a       *)
(* validation, while it leads one, and after its client has been answered. *)
BeforeFill == {"start", "miss", "wait", "woken"}
BeforeCall == BeforeFill \cup {"recheck", "fill", "validate", "join", "refresh"}
Leading == {"lead", "serve", "fetch", "endcall"}
Answered == {"release", "finish", "stream", "done"}

(* Where a request is says which calls it can have.  A key it validates    *)
(* is a variant's if there are variants.                                   *)
ReqOK(r) ==
    /\ pc[r] \in BeforeFill => fill[r] = "none"
    /\ pc[r] \in {"recheck", "fill"} => fill[r] = "open"
    /\ pc[r] \in {"stream", "done"} => fill[r] # "open"
    /\ pc[r] \in BeforeCall => call[r] = "none"
    /\ pc[r] \in {"serve", "endcall"} => call[r] # "none"
    /\ pc[r] = "lead" => call[r] = "open"
    /\ call[r] = "open" => pc[r] = "lead" \/ bg[r] = "run"
    /\ bg[r] # "none" => pc[r] \in Answered
    /\ pc[r] \in {"wait", "join"} => on[r] # None
    /\ varies /\ (pc[r] \in {"validate", "lead", "refresh"} \/ bg[r] = "run") => vk[r] # Base

(* Whoever is in a table is there once, under its own key, with an open    *)
(* fill or an unfinished validation.                                       *)
FillOK(k) ==
    fills[k] # None => fk[fills[k]] = k /\ fill[fills[k]] = "open" /\ pc[fills[k]] # "finish"

CallOK(k) ==
    calls[k] # None =>
        /\ vk[calls[k]] = k
        /\ \/ pc[calls[k]] \in Leading /\ call[calls[k]] # "none"
           \/ bg[calls[k]] # "none"

Owned ==
    /\ TypeOK /\ LeadersHoldTheirSlots
    /\ \A r \in Reqs : ReqOK(r)
    /\ \A k \in Keys : FillOK(k) /\ CallOK(k)

(* What a fill reported stored, or is about to, is there.                  *)
Findable(r) == entry[Slot(r)] # None /\ (varies => Slot(r) \in members)

Storing == ~lost => \A r \in Reqs : fill[r] = "stored" \/ kept[r] => Findable(r)

(* As long as nothing failed or was lost, every fill that ends has stored  *)
(* its response, and one request at most has asked for it.                 *)
Causes ==
    /\ \A r \in Reqs : detached[r] # {} => lost
    /\ \A r \in Reqs : fill[r] = "empty" \/ call[r] = "empty" => failed
    /\ \A r \in Reqs : fill[r] = "open" /\ pc[r] \notin {"recheck", "fill"} /\ ~failed => kept[r]

Shared ==
    /\ \A r \in Reqs : pc[r] = "woken" => \E q \in Reqs : fill[q] = "stored"
    /\ ~varies => \A r \in Reqs : fk[r] = Base

Askers == asked \ (Private \cup timedOut)

Alone ==
    ~lost /\ ~failed /\ ~varies =>
        /\ \A q, r \in Askers : q = r
        /\ \A r \in Askers : entry[Base] # None \/ pc[r] = "fill"
-----------------------------------------------------------------------------
(* A lookup that finds something: what it goes on to do.                   *)
Reused(r, x, k) ==
    /\ pc' = [pc EXCEPT ![r] = x] /\ vk' = [vk EXCEPT ![r] = k]
    /\ varies => k # Base
    /\ x = "done" => fill[r] # "open"
    /\ Found(r) # None

LEMMA ReuseStep ==
  ASSUME Owned, NEW r \in Reqs, Reuse(r), pc[r] \in {"start", "recheck", "woken"}
  PROVE  \E x \in {"validate", "refresh", "release", "done"}, k \in Keys : Reused(r, x, k)
<1>1. PICK k \in Keys : k = EffKey(r) /\ (varies => k # Base)
  BY CacheFillAssumption DEF Reuse, Found, EffKey, Keys, Owned, TypeOK
<1>2. PICK x \in {"validate", "refresh", "release", "done"} :
          pc' = [pc EXCEPT ![r] = x] /\ (x = "done" => fill[r] # "open")
  <2>1. Found(r) \in {"fresh", "stale", "expired"}
    BY <1>1 DEF Reuse, Found, Owned, TypeOK
  <2>2. Unwound(r) \in {"release", "done"} /\ (Unwound(r) = "done" => fill[r] # "open")
    BY DEF Unwound
  <2> QED BY <2>1, <2>2 DEF Reuse, Goto
<1> QED BY <1>1, <1>2 DEF Reused, Reuse

(* A validation that publishes nothing leaves a store.                     *)
DropsTypes(r) ==
    /\ entry' \in [Keys -> {None, "fresh", "stale", "expired"}] /\ members' \in SUBSET Variants
    /\ IF varies THEN entry'[Base] = None ELSE members' = {}
    /\ lost' \in BOOLEAN /\ failed' \in BOOLEAN
    /\ call' \in [Reqs -> {"none", "open", "entry", "empty"}]

LEMMA DropsStep ==
  ASSUME Owned, NEW r \in Reqs, Drops(r)
  PROVE  DropsTypes(r)
<1>1. TypeOK /\ Base \in Keys
  BY DEF Owned, Keys
<1>2. entry' \in [Keys -> {None, "fresh", "stale", "expired"}] /\ members' \in SUBSET Variants
  BY <1>1 DEF Drops, TypeOK
<1>3. IF varies THEN entry'[Base] = None ELSE members' = {}
  BY <1>1 DEF Drops, TypeOK
<1> QED BY <1>1, <1>2, <1>3 DEF DropsTypes, Drops, TypeOK

LEMMA TypeOKSteps ==
  ASSUME Owned, NEW r \in Reqs, Steps(r) \/ GiveUp(r) \/ TimeOut(r) \/ Leave(r)
  PROVE  TypeOK'
<1> USE CacheFillAssumption DEF Owned, Goto, store, tables, local, history
<1>1. CASE Lookup(r)
  <2>1. CASE Reuse(r)
    <3>1. PICK x \in {"validate", "refresh", "release", "done"}, k \in Keys : Reused(r, x, k)
      BY <1>1, <2>1, ReuseStep DEF Lookup
    <3> QED BY <1>1, <2>1, <3>1 DEF Lookup, Reused, TypeOK, ReqOK, Places, Keys
  <2>2. CASE ~Reuse(r)
    <3>1. PICK k \in Keys, b \in BOOLEAN : k = EffKey(r) /\ b = (EffKey(r) = Base)
      BY DEF EffKey, Keys
    <3>2. retry' = [retry EXCEPT ![r] = b] /\ fk' = [fk EXCEPT ![r] = k] /\ UNCHANGED vk /\ Goto(r, "miss")
      BY <1>1, <2>2, <3>1 DEF Lookup
    <3> QED BY <1>1, <3>2 DEF Lookup, TypeOK, ReqOK, Places, Keys
  <2> QED BY <1>1, <2>1, <2>2 DEF Lookup
<1>2. CASE BeginFill(r)
  BY <1>2 DEF BeginFill, TypeOK, ReqOK, Places, Keys
<1>3. CASE Recheck(r)
  <2>1. CASE Reuse(r)
    <3>1. PICK x \in {"validate", "refresh", "release", "done"}, k \in Keys : Reused(r, x, k)
      BY <1>3, <2>1, ReuseStep DEF Recheck
    <3> QED BY <1>3, <2>1, <3>1 DEF Recheck, Reused, TypeOK, ReqOK, Places, Keys
  <2>2. CASE ~Reuse(r)
    <3>1. /\ pc' = [pc EXCEPT ![r] = "fill"] /\ asked' = asked \cup {r} /\ UNCHANGED <<kept, vk>>
          /\ fenced' = [fenced EXCEPT ![r] = FALSE]
      BY <1>3, <2>2 DEF Recheck, Ask
    <3> QED BY <1>3, <3>1 DEF Recheck, TypeOK, Places
  <2> QED BY <1>3, <2>1, <2>2 DEF Recheck
<1>4. CASE FillStores(r)
  BY <1>4 DEF FillStores, Put, Slot, TypeOK, ReqOK, Places, Keys
<1>5. CASE Abandon(r)
  BY <1>5 DEF Abandon, TypeOK, ReqOK, Places, Keys
<1>6. CASE FillFails(r)
  BY <1>6 DEF FillFails, TypeOK, ReqOK, Places, Keys
<1>7. CASE EndFill(r)
  BY <1>7 DEF EndFill, Without, TypeOK, ReqOK, Places, Keys
<1>8. CASE Finish(r)
  BY <1>8 DEF Finish, TypeOK, ReqOK, Places, Keys
<1>9. CASE StreamEnds(r)
  BY <1>9 DEF StreamEnds, TypeOK, ReqOK, Places, Keys
<1>10. CASE Wake(r)
  <2>1. CASE Goto(r, "woken") /\ UNCHANGED <<asked, fenced>>
    BY <1>10, <2>1 DEF Wake, Ask, TypeOK, ReqOK, Places, Keys
  <2>2. CASE Ask(r, "fetch")
    BY <1>10, <2>2 DEF Wake, Ask, TypeOK, ReqOK, Places, Keys
  <2> QED BY <1>10, <2>1, <2>2 DEF Wake
<1>11. CASE GiveUp(r)
  BY <1>11 DEF GiveUp, TypeOK, ReqOK, Places, Keys
<1>25. CASE TimeOut(r)
  BY <1>25 DEF TimeOut, TypeOK, ReqOK, Places, Keys
<1>12. CASE Woken(r)
  <2>1. CASE Reuse(r)
    <3>1. PICK x \in {"validate", "refresh", "release", "done"}, k \in Keys : Reused(r, x, k)
      BY <1>12, <2>1, ReuseStep DEF Woken
    <3> QED BY <1>12, <2>1, <3>1 DEF Woken, Reused, TypeOK, ReqOK, Places, Keys
  <2>2. CASE ~Reuse(r)
    <3>1. PICK k \in Keys : k = EffKey(r)
      BY DEF EffKey, Keys
    <3>2. UNCHANGED vk
      BY <1>12, <2>2 DEF Woken
    <3>3. CASE retry[r] /\ EffKey(r) \notin {Base, fk[r]}
      <4>1. fk' = [fk EXCEPT ![r] = k] /\ retry' = [retry EXCEPT ![r] = FALSE] /\ Goto(r, "miss") /\ UNCHANGED <<asked, fenced>>
        BY <1>12, <2>2, <3>1, <3>3 DEF Woken
      <4> QED BY <1>12, <3>2, <4>1 DEF Woken, TypeOK, ReqOK, Places, Keys
    <3>4. CASE ~(retry[r] /\ EffKey(r) \notin {Base, fk[r]})
      <4>1. Ask(r, "fetch") /\ UNCHANGED <<fk, retry>>
        BY <1>12, <2>2, <3>4 DEF Woken
      <4> QED BY <1>12, <3>2, <4>1 DEF Woken, Ask, TypeOK, ReqOK, Places, Keys
    <3> QED BY <3>3, <3>4
  <2> QED BY <1>12, <2>1, <2>2 DEF Woken
<1>13. CASE Fetch(r)
  <2>1. PICK x \in Places : x = Unwound(r)
    BY DEF Unwound, Places
  <2>2. CASE Put(r, "fresh") /\ UNCHANGED failed
    BY <1>13, <2>1, <2>2 DEF Fetch, Put, Slot, TypeOK, ReqOK, Places, Keys
  <2>3. CASE failed' = TRUE /\ UNCHANGED <<entry, members>>
    BY <1>13, <2>1, <2>3 DEF Fetch, TypeOK, ReqOK, Places, Keys
  <2> QED BY <1>13, <2>2, <2>3 DEF Fetch
<1>14. CASE BeginValidate(r)
  <2>1. CASE calls[vk[r]] = None
    <3>1. calls' \in [Keys -> Reqs \cup {None}] /\ call' \in [Reqs -> {"none", "open", "entry", "empty"}]
      BY <1>14, <2>1 DEF BeginValidate, TypeOK
    <3>2. fenced' = [fenced EXCEPT ![r] = FALSE] /\ pc' = [pc EXCEPT ![r] = "lead"] /\ UNCHANGED on
      BY <1>14, <2>1 DEF BeginValidate
    <3>3. fenced' \in [Reqs -> BOOLEAN] /\ pc' \in [Reqs -> Places]
      BY <3>2 DEF TypeOK, Places
    <3> QED BY <1>14, <3>1, <3>2, <3>3 DEF BeginValidate, TypeOK
  <2>2. CASE calls[vk[r]] # None
    BY <1>14, <2>2 DEF BeginValidate, TypeOK, ReqOK, Places, Keys
  <2> QED BY <2>1, <2>2
<1>15. CASE LeadPublishes(r)
  BY <1>15 DEF LeadPublishes, Publishes, Put, Slot, TypeOK, ReqOK, Places, Keys
<1>16. CASE LeadDrops(r)
  <2>1. DropsTypes(r)
    BY <1>16, DropsStep DEF LeadDrops
  <2>2. CASE Ask(r, "fetch")
    BY <1>16, <2>1, <2>2 DEF LeadDrops, DropsTypes, Ask, TypeOK, ReqOK, Places, Keys
  <2>3. CASE Goto(r, "endcall") /\ UNCHANGED <<asked, fenced>>
    BY <1>16, <2>1, <2>3 DEF LeadDrops, DropsTypes, TypeOK, ReqOK, Places, Keys
  <2> QED BY <1>16, <2>2, <2>3 DEF LeadDrops
<1>17. CASE Panic(r)
  BY <1>17 DEF Panic, Without, TypeOK, ReqOK, Places, Keys
<1>18. CASE Serve(r)
  <2>1. CASE Goto(r, "endcall") /\ UNCHANGED <<asked, fenced, lost>>
    BY <1>18, <2>1 DEF Serve, TypeOK, Places
  <2>2. CASE Ask(r, "fetch") /\ lost' = TRUE
    BY <1>18, <2>2 DEF Serve, Ask, TypeOK, Places
  <2> QED BY <1>18, <2>1, <2>2 DEF Serve
<1>19. CASE EndRevalidate(r)
  BY <1>19 DEF EndRevalidate, Without, Unwound, TypeOK, ReqOK, Places, Keys
<1>20. CASE Joined(r)
  <2>1. PICK x \in Places : x = Unwound(r)
    BY DEF Unwound, Places
  <2>2. CASE Ask(r, "fetch")
    BY <1>20, <2>2 DEF Joined, Ask, TypeOK, ReqOK, Places, Keys
  <2>3. CASE ~Ask(r, "fetch")
    BY <1>20, <2>1, <2>3 DEF Joined, TypeOK, ReqOK, Places, Keys
  <2> QED BY <2>2, <2>3
<1>21. CASE Leave(r)
  BY <1>21 DEF Leave, Unwound, TypeOK, ReqOK, Places, Keys
<1>22. CASE StartRefresh(r)
  <2>1. PICK x \in Places : x = Unwound(r)
    BY DEF Unwound, Places
  <2>2. CASE UNCHANGED <<calls, call, bg, fenced>>
    BY <1>22, <2>1, <2>2 DEF StartRefresh, TypeOK, ReqOK, Places, Keys
  <2>3. CASE ~UNCHANGED <<calls, call, bg, fenced>>
    <3>1. calls' \in [Keys -> Reqs \cup {None}] /\ call' \in [Reqs -> {"none", "open", "entry", "empty"}]
      BY <1>22, <2>3 DEF StartRefresh, TypeOK
    <3>2. fenced' = [fenced EXCEPT ![r] = FALSE] /\ bg' = [bg EXCEPT ![r] = "run"]
      BY <1>22, <2>3 DEF StartRefresh
    <3>3. fenced' \in [Reqs -> BOOLEAN] /\ bg' \in [Reqs -> {"none", "run", "end"}]
      BY <3>2 DEF TypeOK
    <3> QED BY <1>22, <2>1, <3>1, <3>3 DEF StartRefresh, TypeOK
  <2> QED BY <2>2, <2>3
<1>23. CASE Refresh(r)
  <2>1. CASE Publishes(r) /\ UNCHANGED <<lost, failed>>
    BY <1>23, <2>1 DEF Refresh, Publishes, Put, Slot, TypeOK, ReqOK, Places, Keys
  <2>2. CASE Drops(r)
    <3>1. DropsTypes(r)
      BY <2>2, DropsStep
    <3> QED BY <1>23, <3>1 DEF Refresh, DropsTypes, TypeOK, ReqOK, Places, Keys
  <2> QED BY <1>23, <2>1, <2>2 DEF Refresh
<1>24. CASE EndRefresh(r)
  BY <1>24 DEF EndRefresh, Without, TypeOK, ReqOK, Places, Keys
<1> QED BY <1>1, <1>2, <1>3, <1>4, <1>5, <1>6, <1>7, <1>8, <1>9, <1>10, <1>11, <1>12, <1>13, <1>14, <1>15, <1>16, <1>17, <1>18, <1>19, <1>20, <1>21, <1>22, <1>23, <1>24, <1>25 DEF Steps

LEMMA ReqOKSteps ==
  ASSUME Owned, NEW r \in Reqs, Steps(r) \/ GiveUp(r) \/ TimeOut(r) \/ Leave(r)
  PROVE  \A q \in Reqs : ReqOK(q)'
<1> USE CacheFillAssumption DEF Owned, Goto, store, tables, local, history
<1>1. CASE Lookup(r)
  <2>1. CASE Reuse(r)
    <3>1. PICK x \in {"validate", "refresh", "release", "done"}, k \in Keys : Reused(r, x, k)
      BY <1>1, <2>1, ReuseStep DEF Lookup
    <3> QED BY <1>1, <2>1, <3>1 DEF Lookup, Reused, TypeOK, ReqOK, Places, BeforeFill, BeforeCall, Answered, Leading
  <2>2. CASE ~Reuse(r)
    <3>1. PICK k \in Keys : k = EffKey(r)
      BY DEF EffKey, Keys
    <3> QED BY <1>1, <2>2, <3>1 DEF Lookup, TypeOK, ReqOK, Places, BeforeFill, BeforeCall, Answered, Leading
  <2> QED BY <1>1, <2>1, <2>2 DEF Lookup
<1>2. CASE BeginFill(r)
  BY <1>2 DEF BeginFill, TypeOK, ReqOK, Places, BeforeFill, BeforeCall, Answered, Leading
<1>3. CASE Recheck(r)
  <2>1. CASE Reuse(r)
    <3>1. PICK x \in {"validate", "refresh", "release", "done"}, k \in Keys : Reused(r, x, k)
      BY <1>3, <2>1, ReuseStep DEF Recheck
    <3> QED BY <1>3, <2>1, <3>1 DEF Recheck, Reused, TypeOK, ReqOK, Places, BeforeFill, BeforeCall, Answered, Leading
  <2>2. CASE ~Reuse(r)
    BY <1>3, <2>2 DEF Recheck, Ask, TypeOK, ReqOK, Places, BeforeFill, BeforeCall, Answered, Leading
  <2> QED BY <1>3, <2>1, <2>2 DEF Recheck
<1>4. CASE FillStores(r)
  BY <1>4 DEF FillStores, Put, Slot, TypeOK, ReqOK, Places, BeforeFill, BeforeCall, Answered, Leading
<1>5. CASE Abandon(r)
  BY <1>5 DEF Abandon, TypeOK, ReqOK, Places, BeforeFill, BeforeCall, Answered, Leading
<1>6. CASE FillFails(r)
  BY <1>6 DEF FillFails, TypeOK, ReqOK, Places, BeforeFill, BeforeCall, Answered, Leading
<1>7. CASE EndFill(r)
  BY <1>7 DEF EndFill, Without, TypeOK, ReqOK, Places, BeforeFill, BeforeCall, Answered, Leading
<1>8. CASE Finish(r)
  BY <1>8 DEF Finish, TypeOK, ReqOK, Places, BeforeFill, BeforeCall, Answered, Leading
<1>9. CASE StreamEnds(r)
  BY <1>9 DEF StreamEnds, TypeOK, ReqOK, Places, BeforeFill, BeforeCall, Answered, Leading
<1>10. CASE Wake(r)
  BY <1>10 DEF Wake, Ask, TypeOK, ReqOK, Places, BeforeFill, BeforeCall, Answered, Leading
<1>11. CASE GiveUp(r)
  BY <1>11 DEF GiveUp, TypeOK, ReqOK, Places, BeforeFill, BeforeCall, Answered, Leading
<1>25. CASE TimeOut(r)
  BY <1>25 DEF TimeOut, TypeOK, ReqOK, Places, BeforeFill, BeforeCall, Answered, Leading
<1>12. CASE Woken(r)
  <2>1. CASE Reuse(r)
    <3>1. PICK x \in {"validate", "refresh", "release", "done"}, k \in Keys : Reused(r, x, k)
      BY <1>12, <2>1, ReuseStep DEF Woken
    <3> QED BY <1>12, <2>1, <3>1 DEF Woken, Reused, TypeOK, ReqOK, Places, BeforeFill, BeforeCall, Answered, Leading
  <2>2. CASE ~Reuse(r)
    <3>1. PICK k \in Keys : k = EffKey(r)
      BY DEF EffKey, Keys
    <3>2. CASE Goto(r, "miss")
      BY <1>12, <2>2, <3>1, <3>2 DEF Woken, Ask, TypeOK, ReqOK, Places, BeforeFill, BeforeCall, Answered, Leading
    <3>3. CASE Ask(r, "fetch")
      BY <1>12, <2>2, <3>3 DEF Woken, Ask, TypeOK, ReqOK, Places, BeforeFill, BeforeCall, Answered, Leading
    <3> QED BY <1>12, <2>2, <3>2, <3>3 DEF Woken
  <2> QED BY <1>12, <2>1, <2>2 DEF Woken
<1>13. CASE Fetch(r)
  BY <1>13 DEF Fetch, Put, Slot, Unwound, TypeOK, ReqOK, Places, BeforeFill, BeforeCall, Answered, Leading
<1>14. CASE BeginValidate(r)
  BY <1>14 DEF BeginValidate, TypeOK, ReqOK, Places, BeforeFill, BeforeCall, Answered, Leading
<1>15. CASE LeadPublishes(r)
  BY <1>15 DEF LeadPublishes, Publishes, Put, Slot, TypeOK, ReqOK, Places, BeforeFill, BeforeCall, Answered, Leading
<1>16. CASE LeadDrops(r)
  BY <1>16 DEF LeadDrops, Drops, Ask, TypeOK, ReqOK, Places, BeforeFill, BeforeCall, Answered, Leading
<1>17. CASE Panic(r)
  BY <1>17 DEF Panic, Without, TypeOK, ReqOK, Places, BeforeFill, BeforeCall, Answered, Leading
<1>18. CASE Serve(r)
  BY <1>18 DEF Serve, Ask, TypeOK, ReqOK, Places, BeforeFill, BeforeCall, Answered, Leading
<1>19. CASE EndRevalidate(r)
  BY <1>19 DEF EndRevalidate, Without, Unwound, TypeOK, ReqOK, Places, BeforeFill, BeforeCall, Answered, Leading
<1>20. CASE Joined(r)
  BY <1>20 DEF Joined, Ask, Unwound, TypeOK, ReqOK, Places, BeforeFill, BeforeCall, Answered, Leading
<1>21. CASE Leave(r)
  BY <1>21 DEF Leave, Unwound, TypeOK, ReqOK, Places, BeforeFill, BeforeCall, Answered, Leading
<1>22. CASE StartRefresh(r)
  BY <1>22 DEF StartRefresh, Unwound, TypeOK, ReqOK, Places, BeforeFill, BeforeCall, Answered, Leading
<1>23. CASE Refresh(r)
  BY <1>23 DEF Refresh, Publishes, Drops, Put, Slot, TypeOK, ReqOK, Places, BeforeFill, BeforeCall, Answered, Leading
<1>24. CASE EndRefresh(r)
  BY <1>24 DEF EndRefresh, Without, TypeOK, ReqOK, Places, BeforeFill, BeforeCall, Answered, Leading
<1> QED BY <1>1, <1>2, <1>3, <1>4, <1>5, <1>6, <1>7, <1>8, <1>9, <1>10, <1>11, <1>12, <1>13, <1>14, <1>15, <1>16, <1>17, <1>18, <1>19, <1>20, <1>21, <1>22, <1>23, <1>24, <1>25 DEF Steps

LEMMA FillOKSteps ==
  ASSUME Owned, NEW r \in Reqs, Steps(r) \/ GiveUp(r) \/ TimeOut(r) \/ Leave(r)
  PROVE  \A k \in Keys : FillOK(k)'
<1> USE CacheFillAssumption DEF Owned, Goto, store, tables, local, history
<1>1. CASE Lookup(r)
  <2>1. CASE Reuse(r)
    <3>1. PICK x \in {"validate", "refresh", "release", "done"}, k \in Keys : Reused(r, x, k)
      BY <1>1, <2>1, ReuseStep DEF Lookup
    <3> QED BY <1>1, <2>1, <3>1 DEF Lookup, Reused, TypeOK, ReqOK, FillOK, BeforeFill
  <2>2. CASE ~Reuse(r)
    <3>1. PICK k \in Keys : k = EffKey(r)
      BY DEF EffKey, Keys
    <3> QED BY <1>1, <2>2, <3>1 DEF Lookup, TypeOK, ReqOK, FillOK, BeforeFill
  <2> QED BY <1>1, <2>1, <2>2 DEF Lookup
<1>2. CASE BeginFill(r)
  BY <1>2 DEF BeginFill, TypeOK, ReqOK, FillOK, BeforeFill
<1>3. CASE Recheck(r)
  <2>1. CASE Reuse(r)
    <3>1. PICK x \in {"validate", "refresh", "release", "done"}, k \in Keys : Reused(r, x, k)
      BY <1>3, <2>1, ReuseStep DEF Recheck
    <3> QED BY <1>3, <2>1, <3>1 DEF Recheck, Reused, TypeOK, ReqOK, FillOK, BeforeFill
  <2>2. CASE ~Reuse(r)
    BY <1>3, <2>2 DEF Recheck, Ask, TypeOK, ReqOK, FillOK, BeforeFill
  <2> QED BY <1>3, <2>1, <2>2 DEF Recheck
<1>4. CASE FillStores(r)
  BY <1>4 DEF FillStores, Put, Slot, TypeOK, ReqOK, FillOK, BeforeFill
<1>5. CASE Abandon(r)
  BY <1>5 DEF Abandon, TypeOK, ReqOK, FillOK, BeforeFill
<1>6. CASE FillFails(r)
  BY <1>6 DEF FillFails, TypeOK, ReqOK, FillOK, BeforeFill
<1>7. CASE EndFill(r)
  BY <1>7 DEF EndFill, Without, TypeOK, ReqOK, FillOK, BeforeFill
<1>8. CASE Finish(r)
  BY <1>8 DEF Finish, TypeOK, ReqOK, FillOK, BeforeFill
<1>9. CASE StreamEnds(r)
  BY <1>9 DEF StreamEnds, TypeOK, ReqOK, FillOK, BeforeFill
<1>10. CASE Wake(r)
  BY <1>10 DEF Wake, Ask, TypeOK, ReqOK, FillOK, BeforeFill
<1>11. CASE GiveUp(r)
  BY <1>11 DEF GiveUp, TypeOK, ReqOK, FillOK, BeforeFill
<1>25. CASE TimeOut(r)
  BY <1>25 DEF TimeOut, TypeOK, ReqOK, FillOK, BeforeFill
<1>12. CASE Woken(r)
  <2>1. CASE Reuse(r)
    <3>1. PICK x \in {"validate", "refresh", "release", "done"}, k \in Keys : Reused(r, x, k)
      BY <1>12, <2>1, ReuseStep DEF Woken
    <3> QED BY <1>12, <2>1, <3>1 DEF Woken, Reused, TypeOK, ReqOK, FillOK, BeforeFill
  <2>2. CASE ~Reuse(r)
    <3>1. PICK k \in Keys : k = EffKey(r)
      BY DEF EffKey, Keys
    <3>2. CASE Goto(r, "miss")
      BY <1>12, <2>2, <3>1, <3>2 DEF Woken, Ask, TypeOK, ReqOK, FillOK, BeforeFill
    <3>3. CASE Ask(r, "fetch")
      BY <1>12, <2>2, <3>3 DEF Woken, Ask, TypeOK, ReqOK, FillOK, BeforeFill
    <3> QED BY <1>12, <2>2, <3>2, <3>3 DEF Woken
  <2> QED BY <1>12, <2>1, <2>2 DEF Woken
<1>13. CASE Fetch(r)
  BY <1>13 DEF Fetch, Put, Slot, Unwound, TypeOK, ReqOK, FillOK, BeforeFill
<1>14. CASE BeginValidate(r)
  BY <1>14 DEF BeginValidate, TypeOK, ReqOK, FillOK, BeforeFill
<1>15. CASE LeadPublishes(r)
  BY <1>15 DEF LeadPublishes, Publishes, Put, Slot, TypeOK, ReqOK, FillOK, BeforeFill
<1>16. CASE LeadDrops(r)
  BY <1>16 DEF LeadDrops, Drops, Ask, TypeOK, ReqOK, FillOK, BeforeFill
<1>17. CASE Panic(r)
  BY <1>17 DEF Panic, Without, TypeOK, ReqOK, FillOK, BeforeFill
<1>18. CASE Serve(r)
  BY <1>18 DEF Serve, Ask, TypeOK, ReqOK, FillOK, BeforeFill
<1>19. CASE EndRevalidate(r)
  BY <1>19 DEF EndRevalidate, Without, Unwound, TypeOK, ReqOK, FillOK, BeforeFill
<1>20. CASE Joined(r)
  BY <1>20 DEF Joined, Ask, Unwound, TypeOK, ReqOK, FillOK, BeforeFill
<1>21. CASE Leave(r)
  BY <1>21 DEF Leave, Unwound, TypeOK, ReqOK, FillOK, BeforeFill
<1>22. CASE StartRefresh(r)
  BY <1>22 DEF StartRefresh, Unwound, TypeOK, ReqOK, FillOK, BeforeFill
<1>23. CASE Refresh(r)
  BY <1>23 DEF Refresh, Publishes, Drops, Put, Slot, TypeOK, ReqOK, FillOK, BeforeFill
<1>24. CASE EndRefresh(r)
  BY <1>24 DEF EndRefresh, Without, TypeOK, ReqOK, FillOK, BeforeFill
<1> QED BY <1>1, <1>2, <1>3, <1>4, <1>5, <1>6, <1>7, <1>8, <1>9, <1>10, <1>11, <1>12, <1>13, <1>14, <1>15, <1>16, <1>17, <1>18, <1>19, <1>20, <1>21, <1>22, <1>23, <1>24, <1>25 DEF Steps

LEMMA CallOKSteps ==
  ASSUME Owned, NEW r \in Reqs, Steps(r) \/ GiveUp(r) \/ TimeOut(r) \/ Leave(r)
  PROVE  \A k \in Keys : CallOK(k)'
<1> USE CacheFillAssumption DEF Owned, Goto, store, tables, local, history
<1>1. CASE Lookup(r)
  BY <1>1 DEF Lookup, Reuse, Unwound, Found, EffKey, TypeOK, ReqOK, CallOK, BeforeFill, BeforeCall, Leading, Answered
<1>2. CASE BeginFill(r)
  BY <1>2 DEF BeginFill, TypeOK, ReqOK, CallOK, BeforeFill, BeforeCall, Leading, Answered
<1>3. CASE Recheck(r)
  BY <1>3 DEF Recheck, Reuse, Unwound, Found, EffKey, Ask, TypeOK, ReqOK, CallOK, BeforeFill, BeforeCall, Leading, Answered
<1>4. CASE FillStores(r)
  BY <1>4 DEF FillStores, Put, Slot, TypeOK, ReqOK, CallOK, BeforeFill, BeforeCall, Leading, Answered
<1>5. CASE Abandon(r)
  BY <1>5 DEF Abandon, TypeOK, ReqOK, CallOK, BeforeFill, BeforeCall, Leading, Answered
<1>6. CASE FillFails(r)
  BY <1>6 DEF FillFails, TypeOK, ReqOK, CallOK, BeforeFill, BeforeCall, Leading, Answered
<1>7. CASE EndFill(r)
  BY <1>7 DEF EndFill, Without, TypeOK, ReqOK, CallOK, BeforeFill, BeforeCall, Leading, Answered
<1>8. CASE Finish(r)
  BY <1>8 DEF Finish, TypeOK, ReqOK, CallOK, BeforeFill, BeforeCall, Leading, Answered
<1>9. CASE StreamEnds(r)
  BY <1>9 DEF StreamEnds, TypeOK, ReqOK, CallOK, BeforeFill, BeforeCall, Leading, Answered
<1>10. CASE Wake(r)
  BY <1>10 DEF Wake, Ask, TypeOK, ReqOK, CallOK, BeforeFill, BeforeCall, Leading, Answered
<1>11. CASE GiveUp(r)
  BY <1>11 DEF GiveUp, TypeOK, ReqOK, CallOK, BeforeFill, BeforeCall, Leading, Answered
<1>25. CASE TimeOut(r)
  BY <1>25 DEF TimeOut, TypeOK, ReqOK, CallOK, BeforeFill, BeforeCall, Leading, Answered
<1>12. CASE Woken(r)
  BY <1>12 DEF Woken, Reuse, Unwound, Found, EffKey, Ask, TypeOK, ReqOK, CallOK, BeforeFill, BeforeCall, Leading, Answered
<1>13. CASE Fetch(r)
  BY <1>13 DEF Fetch, Put, Slot, Unwound, TypeOK, ReqOK, CallOK, BeforeFill, BeforeCall, Leading, Answered
<1>14. CASE BeginValidate(r)
  BY <1>14 DEF BeginValidate, TypeOK, ReqOK, CallOK, BeforeFill, BeforeCall, Leading, Answered
<1>15. CASE LeadPublishes(r)
  BY <1>15 DEF LeadPublishes, Publishes, Put, Slot, TypeOK, ReqOK, CallOK, BeforeFill, BeforeCall, Leading, Answered
<1>16. CASE LeadDrops(r)
  BY <1>16 DEF LeadDrops, Drops, Ask, TypeOK, ReqOK, CallOK, BeforeFill, BeforeCall, Leading, Answered
<1>17. CASE Panic(r)
  BY <1>17 DEF Panic, Without, TypeOK, ReqOK, CallOK, BeforeFill, BeforeCall, Leading, Answered
<1>18. CASE Serve(r)
  BY <1>18 DEF Serve, Ask, TypeOK, ReqOK, CallOK, BeforeFill, BeforeCall, Leading, Answered
<1>19. CASE EndRevalidate(r)
  BY <1>19 DEF EndRevalidate, Without, Unwound, TypeOK, ReqOK, CallOK, BeforeFill, BeforeCall, Leading, Answered
<1>20. CASE Joined(r)
  BY <1>20 DEF Joined, Ask, Unwound, TypeOK, ReqOK, CallOK, BeforeFill, BeforeCall, Leading, Answered
<1>21. CASE Leave(r)
  BY <1>21 DEF Leave, Unwound, TypeOK, ReqOK, CallOK, BeforeFill, BeforeCall, Leading, Answered
<1>22. CASE StartRefresh(r)
  BY <1>22 DEF StartRefresh, Unwound, TypeOK, ReqOK, CallOK, BeforeFill, BeforeCall, Leading, Answered
<1>23. CASE Refresh(r)
  BY <1>23 DEF Refresh, Publishes, Drops, Put, Slot, TypeOK, ReqOK, CallOK, BeforeFill, BeforeCall, Leading, Answered
<1>24. CASE EndRefresh(r)
  BY <1>24 DEF EndRefresh, Without, TypeOK, ReqOK, CallOK, BeforeFill, BeforeCall, Leading, Answered
<1> QED BY <1>1, <1>2, <1>3, <1>4, <1>5, <1>6, <1>7, <1>8, <1>9, <1>10, <1>11, <1>12, <1>13, <1>14, <1>15, <1>16, <1>17, <1>18, <1>19, <1>20, <1>21, <1>22, <1>23, <1>24, <1>25 DEF Steps

LEMMA HoldsSteps ==
  ASSUME Owned, NEW r \in Reqs, Steps(r) \/ GiveUp(r) \/ TimeOut(r) \/ Leave(r)
  PROVE  LeadersHoldTheirSlots'
<1> USE CacheFillAssumption DEF Owned, Goto, store, tables, local, history
<1>1. CASE Lookup(r)
  BY <1>1 DEF Lookup, Reuse, Unwound, Found, EffKey, TypeOK, ReqOK, LeadersHoldTheirSlots, FillOK, CallOK, BeforeFill, BeforeCall, Leading, Answered
<1>2. CASE BeginFill(r)
  BY <1>2 DEF BeginFill, TypeOK, ReqOK, LeadersHoldTheirSlots, FillOK, CallOK, BeforeFill, BeforeCall, Leading, Answered
<1>3. CASE Recheck(r)
  BY <1>3 DEF Recheck, Reuse, Unwound, Found, EffKey, Ask, TypeOK, ReqOK, LeadersHoldTheirSlots, FillOK, CallOK, BeforeFill, BeforeCall, Leading, Answered
<1>4. CASE FillStores(r)
  BY <1>4 DEF FillStores, Put, Slot, TypeOK, ReqOK, LeadersHoldTheirSlots, FillOK, CallOK, BeforeFill, BeforeCall, Leading, Answered
<1>5. CASE Abandon(r)
  BY <1>5 DEF Abandon, TypeOK, ReqOK, LeadersHoldTheirSlots, FillOK, CallOK, BeforeFill, BeforeCall, Leading, Answered
<1>6. CASE FillFails(r)
  BY <1>6 DEF FillFails, TypeOK, ReqOK, LeadersHoldTheirSlots, FillOK, CallOK, BeforeFill, BeforeCall, Leading, Answered
<1>7. CASE EndFill(r)
  BY <1>7 DEF EndFill, Without, TypeOK, ReqOK, LeadersHoldTheirSlots, FillOK, CallOK, BeforeFill, BeforeCall, Leading, Answered
<1>8. CASE Finish(r)
  BY <1>8 DEF Finish, TypeOK, ReqOK, LeadersHoldTheirSlots, FillOK, CallOK, BeforeFill, BeforeCall, Leading, Answered
<1>9. CASE StreamEnds(r)
  BY <1>9 DEF StreamEnds, TypeOK, ReqOK, LeadersHoldTheirSlots, FillOK, CallOK, BeforeFill, BeforeCall, Leading, Answered
<1>10. CASE Wake(r)
  BY <1>10 DEF Wake, Ask, TypeOK, ReqOK, LeadersHoldTheirSlots, FillOK, CallOK, BeforeFill, BeforeCall, Leading, Answered
<1>11. CASE GiveUp(r)
  BY <1>11 DEF GiveUp, TypeOK, ReqOK, LeadersHoldTheirSlots, FillOK, CallOK, BeforeFill, BeforeCall, Leading, Answered
<1>25. CASE TimeOut(r)
  BY <1>25 DEF TimeOut, TypeOK, ReqOK, LeadersHoldTheirSlots, FillOK, CallOK, BeforeFill, BeforeCall, Leading, Answered
<1>12. CASE Woken(r)
  BY <1>12 DEF Woken, Reuse, Unwound, Found, EffKey, Ask, TypeOK, ReqOK, LeadersHoldTheirSlots, FillOK, CallOK, BeforeFill, BeforeCall, Leading, Answered
<1>13. CASE Fetch(r)
  BY <1>13 DEF Fetch, Put, Slot, Unwound, TypeOK, ReqOK, LeadersHoldTheirSlots, FillOK, CallOK, BeforeFill, BeforeCall, Leading, Answered
<1>14. CASE BeginValidate(r)
  BY <1>14 DEF BeginValidate, TypeOK, ReqOK, LeadersHoldTheirSlots, FillOK, CallOK, BeforeFill, BeforeCall, Leading, Answered
<1>15. CASE LeadPublishes(r)
  BY <1>15 DEF LeadPublishes, Publishes, Put, Slot, TypeOK, ReqOK, LeadersHoldTheirSlots, FillOK, CallOK, BeforeFill, BeforeCall, Leading, Answered
<1>16. CASE LeadDrops(r)
  BY <1>16 DEF LeadDrops, Drops, Ask, TypeOK, ReqOK, LeadersHoldTheirSlots, FillOK, CallOK, BeforeFill, BeforeCall, Leading, Answered
<1>17. CASE Panic(r)
  BY <1>17 DEF Panic, Without, TypeOK, ReqOK, LeadersHoldTheirSlots, FillOK, CallOK, BeforeFill, BeforeCall, Leading, Answered
<1>18. CASE Serve(r)
  BY <1>18 DEF Serve, Ask, TypeOK, ReqOK, LeadersHoldTheirSlots, FillOK, CallOK, BeforeFill, BeforeCall, Leading, Answered
<1>19. CASE EndRevalidate(r)
  BY <1>19 DEF EndRevalidate, Without, Unwound, TypeOK, ReqOK, LeadersHoldTheirSlots, FillOK, CallOK, BeforeFill, BeforeCall, Leading, Answered
<1>20. CASE Joined(r)
  BY <1>20 DEF Joined, Ask, Unwound, TypeOK, ReqOK, LeadersHoldTheirSlots, FillOK, CallOK, BeforeFill, BeforeCall, Leading, Answered
<1>21. CASE Leave(r)
  BY <1>21 DEF Leave, Unwound, TypeOK, ReqOK, LeadersHoldTheirSlots, FillOK, CallOK, BeforeFill, BeforeCall, Leading, Answered
<1>22. CASE StartRefresh(r)
  BY <1>22 DEF StartRefresh, Unwound, TypeOK, ReqOK, LeadersHoldTheirSlots, FillOK, CallOK, BeforeFill, BeforeCall, Leading, Answered
<1>23. CASE Refresh(r)
  BY <1>23 DEF Refresh, Publishes, Drops, Put, Slot, TypeOK, ReqOK, LeadersHoldTheirSlots, FillOK, CallOK, BeforeFill, BeforeCall, Leading, Answered
<1>24. CASE EndRefresh(r)
  BY <1>24 DEF EndRefresh, Without, TypeOK, ReqOK, LeadersHoldTheirSlots, FillOK, CallOK, BeforeFill, BeforeCall, Leading, Answered
<1> QED BY <1>1, <1>2, <1>3, <1>4, <1>5, <1>6, <1>7, <1>8, <1>9, <1>10, <1>11, <1>12, <1>13, <1>14, <1>15, <1>16, <1>17, <1>18, <1>19, <1>20, <1>21, <1>22, <1>23, <1>24, <1>25 DEF Steps

(* Nobody moves when an entry ages or the store is emptied; a purge takes  *)
(* every leader out of the tables and notes it.                            *)
LEMMA ChangeStep ==
  ASSUME Owned, (\E k \in Keys : Age(k)) \/ Delete \/ Purge
  PROVE  Owned'
<1> USE CacheFillAssumption DEF Owned, store, tables, local, history
<1>1. ASSUME NEW k \in Keys, Age(k) PROVE Owned'
  <2>1. TypeOK'
    BY <1>1 DEF Age, TypeOK, Keys
  <2> QED BY <1>1, <2>1 DEF Age, LeadersHoldTheirSlots, ReqOK, FillOK, CallOK
<1>2. CASE Delete
  <2>1. TypeOK'
    BY <1>2 DEF Delete, Emptied, TypeOK, Keys
  <2> QED BY <1>2, <2>1 DEF Delete, Emptied, LeadersHoldTheirSlots, ReqOK, FillOK, CallOK
<1>3. CASE Purge
  <2>1. TypeOK'
    <3>1. changes' \in 0 .. MaxChanges /\ lost' \in BOOLEAN
      BY <1>3 DEF Purge, Emptied, TypeOK
    <3>2. fenced' \in [Reqs -> BOOLEAN] /\ detached' \in [Reqs -> SUBSET {"fill", "call"}]
      BY <1>3 DEF Purge, TypeOK
    <3> QED BY <1>3, <3>1, <3>2 DEF Purge, Emptied, TypeOK, Keys
  <2>2. LeadersHoldTheirSlots'
    BY <1>3 DEF Purge, TypeOK, LeadersHoldTheirSlots
  <2> QED BY <1>3, <2>1, <2>2 DEF Purge, ReqOK, FillOK, CallOK
<1> QED BY <1>1, <1>2, <1>3

LEMMA OwnedInit == Init => Owned
<1> SUFFICES ASSUME Init PROVE Owned
  OBVIOUS
<1>1. PICK f \in {None, "stale", "expired"} :
          (varies => f = None) /\ entry = [k \in Keys |-> IF k = Base THEN f ELSE None]
  BY DEF Init
<1>2. entry \in [Keys -> {None, "fresh", "stale", "expired"}] /\ (varies => entry[Base] = None)
  BY <1>1 DEF Keys
<1>3. /\ fills \in [Keys -> Reqs \cup {None}] /\ calls \in [Keys -> Reqs \cup {None}]
      /\ fill \in [Reqs -> {"none", "open", "stored", "empty"}]
      /\ call \in [Reqs -> {"none", "open", "entry", "empty"}]
      /\ pc \in [Reqs -> Places] /\ bg \in [Reqs -> {"none", "run", "end"}]
      /\ fk \in [Reqs -> Keys] /\ vk \in [Reqs -> Keys] /\ on \in [Reqs -> Reqs \cup {None}]
  BY DEF Init, Keys, Places
<1>4. /\ retry \in [Reqs -> BOOLEAN] /\ kept \in [Reqs -> BOOLEAN] /\ tail \in [Reqs -> BOOLEAN]
      /\ fenced \in [Reqs -> BOOLEAN] /\ detached \in [Reqs -> SUBSET {"fill", "call"}]
  BY DEF Init
<1>5. changes \in 0 .. MaxChanges
  BY CacheFillAssumption DEF Init
<1>6. /\ asked \in SUBSET Reqs /\ timedOut \in SUBSET Reqs /\ lost \in BOOLEAN /\ failed \in BOOLEAN
      /\ varies \in BOOLEAN /\ members = {} /\ members \in SUBSET Variants
  BY Zenon DEF Init
<1>7. TypeOK
  BY <1>2, <1>3, <1>4, <1>5, <1>6 DEF TypeOK
<1> QED BY <1>7 DEF Init, Owned, LeadersHoldTheirSlots, ReqOK, FillOK, CallOK, BeforeFill, BeforeCall

LEMMA OwnedNext == Owned /\ [Next]_vars => Owned'
<1>1. Owned /\ UNCHANGED vars => Owned'
  BY DEF vars, store, tables, local, history, Owned, TypeOK, LeadersHoldTheirSlots, ReqOK, FillOK, CallOK
<1>2. ASSUME Owned, NEW r \in Reqs, Steps(r) \/ GiveUp(r) \/ TimeOut(r) \/ Leave(r) PROVE Owned'
  <2>1. TypeOK' /\ LeadersHoldTheirSlots'
    BY <1>2, TypeOKSteps, HoldsSteps
  <2>2. \A q \in Reqs : ReqOK(q)'
    BY <1>2, ReqOKSteps
  <2>3. \A k \in Keys : FillOK(k)' /\ CallOK(k)'
    BY <1>2, FillOKSteps, CallOKSteps
  <2> QED BY <2>1, <2>2, <2>3 DEF Owned, Keys
<1> QED BY <1>1, <1>2, ChangeStep DEF Next

(* Tables and requests agree: a leader no purge detached holds its slot    *)
(* until it gives it up itself, whatever late releases do, and whoever is  *)
(* in a table is at work on a step that takes it out again, unless it is a *)
(* fill's leader whose second lookup panicked.                             *)
THEOREM CacheFillCallsOwned == Spec => []CallsOwned
<1>1. Owned => CallsOwned
  <2> SUFFICES ASSUME Owned, NEW k \in Keys
               PROVE  /\ fills[k] # None => pc[fills[k]] \in Filling \cup {"panicked"}
                      /\ calls[k] # None => pc[calls[k]] \in Leading \/ bg[calls[k]] # "none"
    BY DEF Owned, CallsOwned, NoneStranded, Leading, Validating
  <2>1. fills[k] \in Reqs \cup {None} /\ FillOK(k) /\ CallOK(k) /\ \A r \in Reqs : ReqOK(r)
    BY DEF Owned, TypeOK
  <2>2. \A r \in Reqs : pc[r] \in Places
    BY DEF Owned, TypeOK
  <2> QED BY <2>1, <2>2 DEF FillOK, CallOK, ReqOK, BeforeFill, Filling, Places
<1> QED BY <1>1, OwnedInit, OwnedNext, PTL DEF Spec
-----------------------------------------------------------------------------
(* What is stored stays as long as nothing is lost.                        *)
LEMMA PutStep ==
  ASSUME Owned, NEW r \in Reqs, Put(r, "fresh"), UNCHANGED varies
  PROVE  Findable(r)' /\ \A q \in Reqs : Findable(q) => Findable(q)'
  BY CacheFillAssumption DEF Put, Findable, Slot, Owned, TypeOK, Keys

LEMMA PublishStep ==
  ASSUME Owned, NEW r \in Reqs, Publishes(r), UNCHANGED varies, NEW q \in Reqs, Findable(q)
  PROVE  Findable(q)'
<1>1. CASE Put(r, "fresh")
  BY <1>1, PutStep
<1>2. CASE UNCHANGED members /\ \E f \in {"fresh", "stale"} : entry' = [entry EXCEPT ![vk[r]] = f]
  BY <1>2, CacheFillAssumption DEF Findable, Slot, Owned, TypeOK, Keys
<1> QED BY <1>1, <1>2 DEF Publishes

LEMMA ReuseFinds ==
  ASSUME Owned, NEW r \in Reqs, Found(r) # None
  PROVE  Findable(r)
  BY CacheFillAssumption DEF Found, EffKey, Findable, Slot, Owned, TypeOK

LEMMA StoringNext == Owned /\ Storing /\ [Next]_vars => Storing'
<1> SUFFICES ASSUME Owned, Storing, [Next]_vars, ~lost', NEW q \in Reqs, fill'[q] = "stored" \/ kept'[q]
             PROVE  Findable(q)'
  BY DEF Storing
<1> USE DEF store, tables, local, history
<1>1. TypeOK /\ ~lost
  BY DEF Owned, vars, Next, Steps, Lookup, BeginFill, Recheck, FillStores, Abandon, FillFails, EndFill,
         Finish, StreamEnds, Wake, GiveUp, TimeOut, Woken, Fetch, BeginValidate, LeadPublishes, LeadDrops, Drops,
         Panic, Serve, EndRevalidate, Joined, Leave, StartRefresh, Refresh, EndRefresh, Age, Delete, Purge, Emptied
<1>2. CASE UNCHANGED <<store, fill, kept>>
  BY <1>1, <1>2 DEF Storing, Findable, Slot
<1>3. ASSUME NEW r \in Reqs, Recheck(r) PROVE Findable(q)'
  BY <1>1, <1>3, ReuseFinds DEF Recheck, Reuse, Storing, Findable, Slot, TypeOK
<1>4. ASSUME NEW r \in Reqs, FillStores(r) PROVE Findable(q)'
  BY <1>1, <1>4, PutStep DEF FillStores, Storing, TypeOK
<1>5. ASSUME NEW r \in Reqs, Finish(r) PROVE Findable(q)'
  BY <1>1, <1>5 DEF Finish, Storing, Findable, Slot, TypeOK
<1>6. ASSUME NEW r \in Reqs, Fetch(r) PROVE Findable(q)'
  <2>1. Findable(q)
    BY <1>1, <1>6 DEF Fetch, Storing
  <2>2. CASE UNCHANGED <<entry, members>>
    BY <1>6, <2>1, <2>2 DEF Fetch, Findable, Slot
  <2> QED BY <1>6, <2>1, <2>2, PutStep DEF Fetch
<1>7. ASSUME NEW r \in Reqs, LeadPublishes(r) \/ (Refresh(r) /\ Publishes(r)) PROVE Findable(q)'
  BY <1>1, <1>7, PublishStep DEF LeadPublishes, Refresh, Storing
<1>8. ASSUME NEW r \in Reqs, Drops(r), UNCHANGED <<varies, fill, kept>> PROVE Findable(q)'
  BY <1>1, <1>2, <1>8 DEF Drops
<1>9. ASSUME NEW r \in Reqs, BeginFill(r) PROVE Findable(q)'
  <2>1. Findable(q)
    BY <1>1, <1>9 DEF BeginFill, Storing, TypeOK
  <2> QED BY <1>9, <2>1 DEF BeginFill, Findable, Slot
<1>10. ~(\E k \in Keys : Age(k)) /\ ~Delete /\ ~Purge
  BY <1>1 DEF Age, Delete, Purge, Emptied
<1>11. ASSUME NEW r \in Reqs, Steps(r) \/ GiveUp(r) \/ TimeOut(r) \/ Leave(r) PROVE Findable(q)'
  <2>1. CASE \/ Lookup(r) \/ Abandon(r) \/ FillFails(r) \/ EndFill(r) \/ StreamEnds(r) \/ Wake(r) \/ GiveUp(r)
             \/ TimeOut(r) \/ Woken(r) \/ BeginValidate(r) \/ Panic(r) \/ Serve(r) \/ EndRevalidate(r) \/ Joined(r)
             \/ Leave(r) \/ StartRefresh(r) \/ EndRefresh(r)
    BY <1>2, <2>1 DEF Lookup, Abandon, FillFails, EndFill, StreamEnds, Wake, GiveUp, TimeOut, Woken, BeginValidate,
          Panic, Serve, EndRevalidate, Joined, Leave, StartRefresh, EndRefresh
  <2>2. CASE LeadDrops(r) \/ (Refresh(r) /\ Drops(r))
    BY <1>8, <2>2 DEF LeadDrops, Refresh
  <2>3. CASE Refresh(r) /\ ~Drops(r)
    BY <1>7, <2>3 DEF Refresh
  <2> QED BY <1>3, <1>4, <1>5, <1>6, <1>7, <1>9, <1>11, <2>1, <2>2, <2>3 DEF Steps
<1> QED BY <1>2, <1>10, <1>11 DEF Next, vars

(* Whenever a fill reports that it stored its response, its waiters find   *)
(* an entry their request selects, as long as nothing expired, was evicted *)
(* or removed: also a response stored under a variant, whose stub owns it. *)
THEOREM CacheFillStoredIsFindable == Spec => []StoredIsFindable
<1>1. Init => Storing
  BY DEF Init, Storing
<1>2. Storing => StoredIsFindable
  BY DEF Storing, StoredIsFindable, Findable
<1> QED BY <1>1, <1>2, OwnedInit, OwnedNext, StoringNext, PTL DEF Spec
-----------------------------------------------------------------------------
(* Why a fill ends without an entry.                                       *)
LEMMA CausesSteps ==
  ASSUME Owned, Causes, NEW r \in Reqs, Steps(r) \/ GiveUp(r) \/ TimeOut(r) \/ Leave(r)
  PROVE  Causes'
<1> USE CacheFillAssumption DEF Owned, Causes, Goto, store, tables, local, history
<1>1. CASE Lookup(r)
  BY <1>1 DEF Lookup, Reuse, Unwound, TypeOK, ReqOK, BeforeFill
<1>2. CASE BeginFill(r)
  BY <1>2 DEF BeginFill, TypeOK, ReqOK, BeforeFill
<1>3. CASE Recheck(r)
  BY <1>3 DEF Recheck, Reuse, Unwound, Ask, TypeOK, ReqOK, BeforeFill
<1>4. CASE FillStores(r)
  BY <1>4 DEF FillStores, TypeOK, ReqOK, BeforeFill
<1>5. CASE Abandon(r)
  BY <1>5 DEF Abandon, TypeOK, ReqOK, BeforeFill
<1>6. CASE FillFails(r)
  BY <1>6 DEF FillFails, TypeOK, ReqOK, BeforeFill
<1>7. CASE EndFill(r)
  BY <1>7 DEF EndFill, Without, TypeOK, ReqOK, BeforeFill
<1>8. CASE Finish(r)
  BY <1>8 DEF Finish, TypeOK, ReqOK, BeforeFill
<1>9. CASE StreamEnds(r)
  BY <1>9 DEF StreamEnds, TypeOK, ReqOK, BeforeFill
<1>10. CASE Wake(r)
  BY <1>10 DEF Wake, Ask, TypeOK, ReqOK, BeforeFill
<1>11. CASE GiveUp(r)
  BY <1>11 DEF GiveUp, TypeOK, ReqOK, BeforeFill
<1>25. CASE TimeOut(r)
  BY <1>25 DEF TimeOut, TypeOK, ReqOK, BeforeFill
<1>12. CASE Woken(r)
  BY <1>12 DEF Woken, Reuse, Unwound, Ask, TypeOK, ReqOK, BeforeFill
<1>13. CASE Fetch(r)
  BY <1>13 DEF Fetch, Unwound, TypeOK, ReqOK, BeforeFill
<1>14. CASE BeginValidate(r)
  BY <1>14 DEF BeginValidate, TypeOK, ReqOK, BeforeFill
<1>15. CASE LeadPublishes(r)
  BY <1>15 DEF LeadPublishes, Publishes, TypeOK, ReqOK, BeforeFill
<1>16. CASE LeadDrops(r)
  BY <1>16 DEF LeadDrops, Drops, Ask, TypeOK, ReqOK, BeforeFill
<1>17. CASE Panic(r)
  BY <1>17 DEF Panic, Without, TypeOK, ReqOK, BeforeFill
<1>18. CASE Serve(r)
  BY <1>18 DEF Serve, Ask, TypeOK, ReqOK, BeforeFill
<1>19. CASE EndRevalidate(r)
  BY <1>19 DEF EndRevalidate, Without, Unwound, TypeOK, ReqOK, BeforeFill
<1>20. CASE Joined(r)
  BY <1>20 DEF Joined, Ask, Unwound, TypeOK, ReqOK, BeforeFill
<1>21. CASE Leave(r)
  BY <1>21 DEF Leave, Unwound, TypeOK, ReqOK, BeforeFill
<1>22. CASE StartRefresh(r)
  BY <1>22 DEF StartRefresh, Unwound, TypeOK, ReqOK, BeforeFill
<1>23. CASE Refresh(r)
  BY <1>23 DEF Refresh, Publishes, Drops, TypeOK, ReqOK, BeforeFill
<1>24. CASE EndRefresh(r)
  BY <1>24 DEF EndRefresh, Without, TypeOK, ReqOK, BeforeFill
<1> QED BY <1>1, <1>2, <1>3, <1>4, <1>5, <1>6, <1>7, <1>8, <1>9, <1>10, <1>11, <1>12, <1>13, <1>14, <1>15, <1>16, <1>17, <1>18, <1>19, <1>20, <1>21, <1>22, <1>23, <1>24, <1>25 DEF Steps

LEMMA SharedSteps ==
  ASSUME Owned, Shared, NEW r \in Reqs, Steps(r) \/ GiveUp(r) \/ TimeOut(r) \/ Leave(r)
  PROVE  Shared'
<1> USE CacheFillAssumption DEF Owned, Shared, Goto, store, tables, local, history
<1>1. CASE Lookup(r)
  <2>1. CASE Reuse(r)
    <3>1. PICK x \in {"validate", "refresh", "release", "done"}, k \in Keys : Reused(r, x, k)
      BY <1>1, <2>1, ReuseStep DEF Lookup
    <3> QED BY <1>1, <3>1 DEF Lookup, Reused, TypeOK
  <2>2. CASE ~Reuse(r)
    BY <1>1, <2>2 DEF Lookup, EffKey, TypeOK
  <2> QED BY <2>1, <2>2
<1>2. CASE BeginFill(r)
  BY <1>2 DEF BeginFill, TypeOK, ReqOK, BeforeFill
<1>3. CASE Recheck(r)
  <2>1. CASE Reuse(r)
    <3>1. PICK x \in {"validate", "refresh", "release", "done"}, k \in Keys : Reused(r, x, k)
      BY <1>3, <2>1, ReuseStep DEF Recheck
    <3> QED BY <1>3, <3>1 DEF Recheck, Reused, TypeOK
  <2>2. CASE ~Reuse(r)
    BY <1>3, <2>2 DEF Recheck, Ask, TypeOK
  <2> QED BY <2>1, <2>2
<1>4. CASE FillStores(r)
  BY <1>4 DEF FillStores, TypeOK, ReqOK, BeforeFill
<1>5. CASE Abandon(r)
  BY <1>5 DEF Abandon, TypeOK, ReqOK, BeforeFill
<1>6. CASE FillFails(r)
  BY <1>6 DEF FillFails, TypeOK, ReqOK, BeforeFill
<1>7. CASE EndFill(r)
  BY <1>7 DEF EndFill, Without, TypeOK, ReqOK, BeforeFill
<1>8. CASE Finish(r)
  BY <1>8 DEF Finish, TypeOK, ReqOK, BeforeFill
<1>9. CASE StreamEnds(r)
  BY <1>9 DEF StreamEnds, TypeOK, ReqOK, BeforeFill
<1>10. CASE Wake(r)
  BY <1>10 DEF Wake, Ask, TypeOK, ReqOK, BeforeFill
<1>11. CASE GiveUp(r)
  BY <1>11 DEF GiveUp, TypeOK, ReqOK, BeforeFill
<1>25. CASE TimeOut(r)
  BY <1>25 DEF TimeOut, TypeOK, ReqOK, BeforeFill
<1>12. CASE Woken(r)
  BY <1>12 DEF Woken, Reuse, Unwound, Ask, EffKey, TypeOK, ReqOK, BeforeFill
<1>13. CASE Fetch(r)
  BY <1>13 DEF Fetch, Unwound, TypeOK, ReqOK, BeforeFill
<1>14. CASE BeginValidate(r)
  BY <1>14 DEF BeginValidate, TypeOK, ReqOK, BeforeFill
<1>15. CASE LeadPublishes(r)
  BY <1>15 DEF LeadPublishes, Publishes, TypeOK, ReqOK, BeforeFill
<1>16. CASE LeadDrops(r)
  BY <1>16 DEF LeadDrops, Drops, Ask, TypeOK, ReqOK, BeforeFill
<1>17. CASE Panic(r)
  BY <1>17 DEF Panic, Without, TypeOK, ReqOK, BeforeFill
<1>18. CASE Serve(r)
  BY <1>18 DEF Serve, Ask, TypeOK, ReqOK, BeforeFill
<1>19. CASE EndRevalidate(r)
  BY <1>19 DEF EndRevalidate, Without, Unwound, TypeOK, ReqOK, BeforeFill
<1>20. CASE Joined(r)
  BY <1>20 DEF Joined, Ask, Unwound, TypeOK, ReqOK, BeforeFill
<1>21. CASE Leave(r)
  BY <1>21 DEF Leave, Unwound, TypeOK, ReqOK, BeforeFill
<1>22. CASE StartRefresh(r)
  BY <1>22 DEF StartRefresh, Unwound, TypeOK, ReqOK, BeforeFill
<1>23. CASE Refresh(r)
  BY <1>23 DEF Refresh, Publishes, Drops, TypeOK, ReqOK, BeforeFill
<1>24. CASE EndRefresh(r)
  BY <1>24 DEF EndRefresh, Without, TypeOK, ReqOK, BeforeFill
<1> QED BY <1>1, <1>2, <1>3, <1>4, <1>5, <1>6, <1>7, <1>8, <1>9, <1>10, <1>11, <1>12, <1>13, <1>14, <1>15, <1>16, <1>17, <1>18, <1>19, <1>20, <1>21, <1>22, <1>23, <1>24, <1>25 DEF Steps

LEMMA CausesNext == Owned /\ Causes /\ Shared /\ [Next]_vars => Causes' /\ Shared'
<1> USE DEF store, tables, local, history
<1>1. Owned /\ Causes /\ Shared /\ UNCHANGED vars => Causes' /\ Shared'
  BY DEF vars, Causes, Shared
<1>2. ASSUME Owned, Causes, Shared, (\E k \in Keys : Age(k)) \/ Delete \/ Purge PROVE Causes' /\ Shared'
  BY <1>2 DEF Age, Delete, Purge, Emptied, Causes, Shared
<1> QED BY <1>1, <1>2, CausesSteps, SharedSteps DEF Next

(* A request without credentials that finds nothing after all: there is    *)
(* nothing, and nobody else is asking.                                     *)
LEMMA AloneAsks ==
  ASSUME Owned, Causes, Shared, Alone, ~lost, ~failed, ~varies, NEW r \in Reqs, pc[r] = "recheck",
         r \notin Private, Found(r) = None
  PROVE  Askers = {}
<1> SUFFICES ASSUME NEW q \in Askers PROVE FALSE
  OBVIOUS
<1>1. TypeOK /\ q \in Reqs /\ ReqOK(q) /\ ReqOK(r)
  BY DEF Owned, TypeOK, Askers
<1>2. members = {} /\ entry[Base] = None
  BY <1>1 DEF TypeOK, Found, EffKey
<1>3. pc[q] = "fill"
  BY <1>2 DEF Alone
<1>4. fk[q] = Base /\ fk[r] = Base /\ detached[q] = {} /\ detached[r] = {}
  BY <1>1 DEF Shared, Causes
<1>5. fills[Base] = q /\ fills[Base] = r
  BY <1>1, <1>3, <1>4 DEF Owned, LeadersHoldTheirSlots, ReqOK
<1> QED BY <1>3, <1>5

(* Nobody without credentials asks otherwise, unless something failed.     *)
LEMMA AskedSteps ==
  ASSUME Owned, Storing, Causes, Shared, Alone, ~lost', ~failed', ~varies, NEW r \in Reqs,
         Steps(r) \/ GiveUp(r) \/ TimeOut(r) \/ Leave(r)
  PROVE  \/ asked' = asked /\ timedOut' = timedOut
         \/ r \in Private /\ asked' = asked \cup {r} /\ timedOut' = timedOut
         \/ Recheck(r) /\ Found(r) = None /\ asked' = asked \cup {r} /\ timedOut' = timedOut
         \/ asked' = asked \cup {r} /\ timedOut' = timedOut \cup {r}
<1> USE DEF store, tables, local, history
<1>1. CASE Wake(r)
  <2>1. pc[r] = "wait" => on[r] \in Reqs
    BY DEF Owned, TypeOK, ReqOK
  <2> QED BY <1>1, <2>1 DEF Wake, Causes
<1>2. CASE Joined(r)
  <2>1. pc[r] = "join" => on[r] \in Reqs
    BY DEF Owned, TypeOK, ReqOK
  <2> QED BY <1>2, <2>1 DEF Joined, Causes
<1>3. CASE Woken(r)
  <2>1. PICK q \in Reqs : fill[q] = "stored"
    BY <1>3 DEF Woken, Shared
  <2>2. members = {} /\ entry[Base] # None
    BY <1>3, <2>1 DEF Woken, Storing, Findable, Slot, Owned, TypeOK
  <2>3. Found(r) = None => r \in Private
    BY <2>2 DEF Found, EffKey
  <2> QED BY <1>3, <2>3 DEF Woken, Reuse, Ask
<1>4. CASE Recheck(r)
  BY <1>4 DEF Recheck, Ask
<1> QED BY <1>1, <1>2, <1>3, <1>4 DEF Steps, Lookup, BeginFill, FillStores, Abandon, FillFails, EndFill, Finish,
        StreamEnds, GiveUp, TimeOut, Fetch, BeginValidate, LeadPublishes, LeadDrops, Drops, Panic, Serve, EndRevalidate,
        Leave, StartRefresh, Refresh, EndRefresh

(* An entry that is there stays, and what a fill brings is stored.         *)
LEMMA EntryKept ==
  ASSUME Owned, [Next]_vars, ~lost', ~failed', ~varies
  PROVE  /\ ~lost /\ ~failed /\ ~varies'
         /\ entry[Base] # None => entry'[Base] # None
         /\ \A r \in Reqs : pc[r] = "fill" => pc'[r] = "fill" \/ entry'[Base] # None
<1> USE DEF store, tables, local, history
<1>1. TypeOK /\ Base \in Keys /\ None # "fresh" /\ None # "stale"
  BY CacheFillAssumption DEF Owned, Keys
<1>2. ASSUME NEW r \in Reqs, Put(r, "fresh") PROVE entry'[Base] # None
  BY <1>1, <1>2 DEF Put, Slot, TypeOK
<1>3. ASSUME NEW r \in Reqs, Publishes(r), entry[Base] # None PROVE entry'[Base] # None
  BY <1>1, <1>2, <1>3 DEF Publishes, TypeOK
<1>4. CASE UNCHANGED vars
  BY <1>4 DEF vars
<1>5. ASSUME NEW r \in Reqs, Steps(r) \/ GiveUp(r) \/ TimeOut(r) \/ Leave(r)
      PROVE  ~lost /\ ~failed /\ ~varies' /\ (entry[Base] # None => entry'[Base] # None)
  <2>1. CASE Fetch(r) \/ FillStores(r)
    BY <1>2, <2>1 DEF Fetch, FillStores
  <2>2. CASE LeadPublishes(r) \/ Refresh(r)
    BY <1>3, <2>2 DEF LeadPublishes, Refresh, Drops
  <2> QED BY <1>5, <2>1, <2>2 DEF Steps, Lookup, BeginFill, Recheck, Abandon, FillFails, EndFill, Finish,
        StreamEnds, Wake, GiveUp, TimeOut, Woken, BeginValidate, LeadDrops, Drops, Panic, Serve, EndRevalidate,
        Joined, Leave, StartRefresh, EndRefresh
<1>6. ASSUME NEW r \in Reqs, Steps(r) \/ GiveUp(r) \/ TimeOut(r) \/ Leave(r), NEW q \in Reqs, pc[q] = "fill"
      PROVE  pc'[q] = "fill" \/ entry'[Base] # None
  <2>1. CASE q # r
    BY <1>1, <1>6, <2>1 DEF Steps, Lookup, BeginFill, Recheck, Reuse, FillStores, Abandon, FillFails, EndFill,
        Finish, StreamEnds, Wake, GiveUp, TimeOut, Woken, Fetch, BeginValidate, LeadPublishes, LeadDrops, Panic, Serve,
        EndRevalidate, Joined, Leave, StartRefresh, Refresh, EndRefresh, Ask, Goto, TypeOK
  <2>2. CASE q = r
    <3>1. bg[r] = "none"
      BY <1>6, <2>2 DEF Owned, ReqOK, Answered, TypeOK
    <3>2. FillStores(r)
      BY <1>6, <2>2, <3>1 DEF Steps, Lookup, BeginFill, Recheck, Abandon, FillFails, EndFill,
        Finish, StreamEnds, Wake, GiveUp, TimeOut, Woken, Fetch, BeginValidate, LeadPublishes, LeadDrops, Panic, Serve,
        EndRevalidate, Joined, Leave, StartRefresh, Refresh, EndRefresh
    <3> QED BY <1>2, <3>2 DEF FillStores
  <2> QED BY <2>1, <2>2
<1>7. ~(\E k \in Keys : Age(k)) /\ ~Delete /\ ~Purge
  BY DEF Age, Delete, Purge, Emptied
<1> QED BY <1>4, <1>5, <1>6, <1>7 DEF Next

LEMMA AloneNext == Owned /\ Storing /\ Causes /\ Shared /\ Alone /\ [Next]_vars => Alone'
<1> SUFFICES ASSUME Owned, Storing, Causes, Shared, Alone, [Next]_vars, ~lost', ~failed', ~varies'
             PROVE  /\ \A q, r \in Askers' : q = r
                    /\ \A r \in Askers' : entry'[Base] # None \/ pc'[r] = "fill"
  BY DEF Alone
<1> USE DEF store, tables, local, history
<1>1. ~varies
  BY DEF Next, vars, Steps, Lookup, BeginFill, Recheck, FillStores, Abandon, FillFails, EndFill,
         Finish, StreamEnds, Wake, GiveUp, TimeOut, Woken, Fetch, BeginValidate, LeadPublishes, LeadDrops,
         Panic, Serve, EndRevalidate, Joined, Leave, StartRefresh, Refresh, EndRefresh, Age, Delete, Purge
<1>2. /\ ~lost /\ ~failed /\ asked \in SUBSET Reqs
      /\ entry[Base] # None => entry'[Base] # None
      /\ \A r \in Reqs : pc[r] = "fill" => pc'[r] = "fill" \/ entry'[Base] # None
  BY <1>1, EntryKept DEF Owned, TypeOK
<1>3. /\ \A q, r \in Askers : q = r
      /\ \A r \in Askers : entry'[Base] # None \/ pc'[r] = "fill"
  BY <1>1, <1>2 DEF Alone, Askers
<1>4. CASE Askers' \subseteq Askers
  BY <1>3, <1>4
<1>5. ASSUME NEW r \in Reqs, Recheck(r), Found(r) = None, r \notin Private PROVE Askers' \subseteq {r} /\ pc'[r] = "fill"
  <2>1. Askers = {}
    BY <1>1, <1>2, <1>5, AloneAsks DEF Recheck
  <2>2. pc'[r] = "fill" /\ asked' = asked \cup {r} /\ timedOut' = timedOut
    BY <1>5 DEF Recheck, Reuse, Ask, Goto, Owned, TypeOK
  <2> QED BY <1>5, <2>1, <2>2 DEF Askers
<1>6. ASSUME NEW r \in Reqs, Steps(r) \/ GiveUp(r) \/ TimeOut(r) \/ Leave(r)
      PROVE  Askers' \subseteq Askers \/ (Askers' \subseteq {r} /\ pc'[r] = "fill")
  BY <1>1, <1>5, <1>6, AskedSteps DEF Askers
<1>7. CASE UNCHANGED vars
  BY <1>4, <1>7 DEF vars, Askers
<1>8. ~(\E k \in Keys : Age(k)) /\ ~Delete /\ ~Purge
  BY DEF Age, Delete, Purge, Emptied
<1> QED BY <1>4, <1>6, <1>7, <1>8 DEF Next

(* However many requests miss together, and however they interleave with   *)
(* the end of each other's fills, one of them asks the origin, as long as  *)
(* the response can be shared and nothing failed or was lost; each waiter  *)
(* whose lock timeout fires adds its own uncached request, and no more.    *)
THEOREM CacheFillOneOriginRequest == Spec => []OneOriginRequest
<1>1. Init => Storing /\ Causes /\ Shared /\ Alone
  BY DEF Init, Storing, Causes, Shared, Alone, Askers
<1>2. Alone => OneOriginRequest
  <2> SUFFICES ASSUME Alone, ~lost, ~failed, ~varies PROVE Cardinality(Askers) <= 1
    BY DEF OneOriginRequest, Askers
  <2>1. CASE Askers = {}
    BY <2>1, FS_EmptySet
  <2>2. ASSUME NEW r \in Askers PROVE Cardinality(Askers) = 1
    <3>1. Askers = {r}
      BY DEF Alone
    <3> QED BY <3>1, FS_Singleton
  <2> QED BY <2>1, <2>2
<1> QED BY <1>1, <1>2, OwnedInit, OwnedNext, StoringNext, CausesNext, AloneNext, PTL DEF Spec
=============================================================================
