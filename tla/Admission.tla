----------------------------- MODULE Admission -----------------------------
(***************************************************************************)
(* The admission owner of an upstream pool: internal/upstream/admission.go. *)
(*                                                                         *)
(* active is moved by compare-and-swap and by atomic adds outside the      *)
(* mutex; mu guards the waiter FIFO only.  A step of the model is one       *)
(* shared access, or one critical section of mu together with the atomic   *)
(* accesses inside it that commute with everything outside it: a load and  *)
(* its successful CAS are one step, a failed CAS loops and is no step.     *)
(* wakeUpToLimit claims once per turn of its loop while it holds mu, so    *)
(* each turn is a step and mu stays taken between turns.                   *)
(*                                                                         *)
(* The atomic pending mirrors Len(queue) inside the same critical sections *)
(* and is not kept apart.                                                  *)
(***************************************************************************)
EXTENDS Integers, Sequences, FiniteSets

CONSTANTS
    Reqs,       \* requests, each running Acquire ... Release on its goroutine
    Policies    \* the resolved resilience policies a reload may install

ASSUME AdmissionAssumption ==
    /\ IsFiniteSet(Reqs)
    /\ Policies \subseteq [maxActive : Int, maxPending : Int] /\ Policies # {}

VARIABLES
    policy,     \* the policy pointer
    active,     \* the admitted count
    queue,      \* the waiter FIFO
    pc,         \* where each request is
    lim,        \* max_active_requests as the request last loaded it
    room,       \* max_pending_requests as the request last loaded it
    wst,        \* the state of the request's waiter
    reload,     \* where SetPolicy is: "idle", "stored", or "waking" with mu held
    closed,     \* Retire has run (the pool's Close runs it once)
    unearned    \* history: slots given back by requests that were never charged

vars == <<policy, active, queue, pc, lim, room, wst, reload, closed, unearned>>

MuFree == reload # "waking"

Init ==
    /\ policy \in Policies
    /\ active = 0 /\ queue = <<>>
    /\ pc = [r \in Reqs |-> "idle"]
    /\ lim = [r \in Reqs |-> 0] /\ room = [r \in Reqs |-> 0]
    /\ wst = [r \in Reqs |-> "none"]
    /\ reload = "idle" /\ closed = FALSE /\ unearned = 0

Goto(r, l) == pc' = [pc EXCEPT ![r] = l]
BelowOrAt(limit) == limit <= 0 \/ active <= limit     \* mutant: one too many
Below(limit) == limit <= 0 \/ active < limit

(***************************************************************************)
(* Acquire: the limit is loaded once, then the CAS loop runs against it.   *)
(***************************************************************************)
LoadLimit(r) ==
    /\ pc[r] = "idle"
    /\ Goto(r, "acquire")
    /\ lim' = [lim EXCEPT ![r] = policy.maxActive]
    /\ UNCHANGED <<policy, active, queue, room, wst, reload, closed, unearned>>

FastPath(r) ==
    /\ pc[r] = "acquire" /\ Below(lim[r])
    /\ active' = active + 1
    /\ Goto(r, "held")
    /\ UNCHANGED <<policy, queue, lim, room, wst, reload, closed, unearned>>

AtLimit(r) ==
    /\ pc[r] = "acquire" /\ ~Below(lim[r])
    /\ Goto(r, "park")
    /\ UNCHANGED <<policy, active, queue, lim, room, wst, reload, closed, unearned>>

(***************************************************************************)
(* park: the policy is loaded again, before mu is taken.                   *)
(***************************************************************************)
LoadPolicy(r) ==
    /\ pc[r] = "park"
    /\ Goto(r, "lock")
    /\ lim' = [lim EXCEPT ![r] = policy.maxActive]
    /\ room' = [room EXCEPT ![r] = policy.maxPending]
    /\ UNCHANGED <<policy, active, queue, wst, reload, closed, unearned>>

(* A slot freed meanwhile is taken only when nobody is queued. *)
MayTakeFreed(r) == queue = <<>> /\ Below(lim[r])
HasRoomLoose(r) == room[r] > 0 /\ Len(queue) <= room[r]     \* mutant: one too many
HasRoom(r) == room[r] > 0 /\ Len(queue) < room[r]

Park(r) ==
    /\ pc[r] = "lock" /\ MuFree
    /\ \/ /\ MayTakeFreed(r)
          /\ active' = active + 1
          /\ Goto(r, "held")
          /\ UNCHANGED <<queue, wst>>
       \/ /\ ~MayTakeFreed(r) /\ ~HasRoom(r)
          /\ Goto(r, "idle")                          \* ErrOverloaded
          /\ UNCHANGED <<active, queue, wst>>
       \/ /\ ~MayTakeFreed(r) /\ HasRoom(r)
          /\ queue' = Append(queue, r)
          /\ wst' = [wst EXCEPT ![r] = "parked"]
          /\ Goto(r, "wait")
          /\ UNCHANGED active
    /\ UNCHANGED <<policy, lim, room, reload, closed, unearned>>

(* The select of park: its own channel ... *)
Woken(r) ==
    /\ pc[r] = "wait" /\ wst[r] \in {"granted", "retired"}
    /\ Goto(r, IF wst[r] = "granted" THEN "held" ELSE "idle")
    /\ wst' = [wst EXCEPT ![r] = "none"]
    /\ UNCHANGED <<policy, active, queue, lim, room, reload, closed, unearned>>

(* ... or the context, the pending timeout or the generation's retirement,   *)
(* which may be chosen although the channel is ready too.                  *)
GiveUp(r) ==
    /\ pc[r] = "wait"
    /\ Goto(r, "abandon")
    /\ UNCHANGED <<policy, active, queue, lim, room, wst, reload, closed, unearned>>

(* list.Remove: the entry at position i leaves the FIFO. *)
Removed(q, i) == [j \in 1..(Len(q) - 1) |-> IF j < i THEN q[j] ELSE q[j + 1]]

LeaveQueue(r) ==
    /\ wst[r] = "parked"
    /\ \E i \in 1..Len(queue) : queue[i] = r /\ queue' = Removed(queue, i)
    /\ wst' = [wst EXCEPT ![r] = "none"]
    /\ Goto(r, "idle")

(* Mutant: a waiter that gave up drops the grant it lost the race to. *)
AbandonDropsGrant(r) ==
    /\ pc[r] = "abandon" /\ MuFree
    /\ \/ wst[r] # "parked" /\ Goto(r, "idle") /\ wst' = [wst EXCEPT ![r] = "none"] /\ UNCHANGED queue
       \/ LeaveQueue(r)
    /\ UNCHANGED <<policy, active, lim, room, reload, closed, unearned>>

Abandon(r) ==
    /\ pc[r] = "abandon" /\ MuFree
    /\ \/ wst[r] # "parked" /\ Goto(r, "release") /\ UNCHANGED <<queue, wst>>
       \/ LeaveQueue(r)
    /\ UNCHANGED <<policy, active, lim, room, reload, closed, unearned>>

(***************************************************************************)
(* release: hand the slot to the FIFO head, or decrement after the unlock. *)
(***************************************************************************)
GrantLocked(done) ==
    /\ queue' = Tail(queue)
    /\ wst' = [done EXCEPT ![Head(queue)] = "granted"]

HandsOff == queue # <<>> /\ (policy.maxActive <= 0 \/ active - 1 < policy.maxActive)
WasRetired(r) == IF wst[r] = "retired" THEN 1 ELSE 0

Release(r) ==
    /\ pc[r] \in {"held", "release"} /\ MuFree
    /\ \/ /\ HandsOff
          /\ GrantLocked([wst EXCEPT ![r] = "none"])
          /\ unearned' = unearned + WasRetired(r)
          /\ Goto(r, "idle")
       \/ /\ ~HandsOff
          /\ Goto(r, "dec")
          /\ UNCHANGED <<queue, wst, unearned>>
    /\ UNCHANGED <<policy, active, lim, room, reload, closed>>

Decrement(r) ==
    /\ pc[r] = "dec"
    /\ active' = active - 1
    /\ unearned' = unearned + WasRetired(r)
    /\ wst' = [wst EXCEPT ![r] = "none"]
    /\ Goto(r, "idle")
    /\ UNCHANGED <<policy, queue, lim, room, reload, closed>>

(***************************************************************************)
(* SetPolicy (one reload at a time: the registry commits under its lock)   *)
(* and Retire.                                                             *)
(***************************************************************************)
SetPolicy(p) ==
    /\ reload = "idle"
    /\ policy' = p
    /\ reload' = "stored"
    /\ UNCHANGED <<active, queue, pc, lim, room, wst, closed, unearned>>

(* One turn of wakeUpToLimit: claim, then grant. *)
WakeOne ==
    /\ reload \in {"stored", "waking"} /\ queue # <<>> /\ Below(policy.maxActive)
    /\ active' = active + 1
    /\ GrantLocked(wst)
    /\ reload' = "waking"
    /\ UNCHANGED <<policy, pc, lim, room, closed, unearned>>

WakeDone ==
    /\ reload \in {"stored", "waking"} /\ ~(queue # <<>> /\ Below(policy.maxActive))
    /\ reload' = "idle"
    /\ UNCHANGED <<policy, active, queue, pc, lim, room, wst, closed, unearned>>

Retire ==
    /\ ~closed /\ MuFree
    /\ closed' = TRUE
    /\ wst' = [r \in Reqs |-> IF wst[r] = "parked" THEN "retired" ELSE wst[r]]
    /\ queue' = <<>>
    /\ UNCHANGED <<policy, active, pc, lim, room, reload, unearned>>

Request(r) ==
    \/ LoadLimit(r) \/ FastPath(r) \/ AtLimit(r) \/ LoadPolicy(r) \/ Park(r)
    \/ Woken(r) \/ GiveUp(r) \/ Abandon(r) \/ Release(r) \/ Decrement(r)

Next ==
    \/ \E r \in Reqs : Request(r)
    \/ \E p \in Policies : SetPolicy(p)
    \/ WakeOne \/ WakeDone \/ Retire

Spec == Init /\ [][Next]_vars

-----------------------------------------------------------------------------
(***************************************************************************)
(* Properties.                                                             *)
(***************************************************************************)
Places == {"idle", "acquire", "park", "lock", "wait", "abandon", "held", "release", "dec"}

(* A waiter's state fits the request's place: it is parked or woken while it *)
(* waits or abandons, and only a waiter that lost a race still has one when *)
(* it gives a slot back.                                                   *)
WaiterFitsPlace ==
    \A r \in Reqs :
        /\ pc[r] \in {"wait", "abandon"} => wst[r] # "none"
        /\ pc[r] \in {"release", "dec"} => wst[r] # "parked"
        /\ pc[r] = "release" => wst[r] # "none"
        /\ pc[r] \notin {"wait", "abandon", "release", "dec"} => wst[r] = "none"

(* Every variable has its type; waiters fit the places of their requests.     *)
TypeOK ==
    /\ policy \in Policies /\ active \in Int /\ unearned \in Nat
    /\ queue \in Seq(Reqs)
    /\ pc \in [Reqs -> Places]
    /\ lim \in [Reqs -> Int] /\ room \in [Reqs -> Int]
    /\ wst \in [Reqs -> {"none", "parked", "granted", "retired"}]
    /\ reload \in {"idle", "stored", "waking"} /\ closed \in BOOLEAN
    /\ WaiterFitsPlace

(* The FIFO holds every parked waiter once and nothing else: no grant, no    *)
(* abandonment and no retirement leaves an entry behind or drops one.      *)
QueueIsParked ==
    /\ {queue[i] : i \in 1..Len(queue)} = {r \in Reqs : wst[r] = "parked"}
    /\ \A i, j \in 1..Len(queue) : queue[i] = queue[j] => i = j

(* Requests that own a slot of active: running, giving it back, or granted   *)
(* it and not yet aware.                                                   *)
Charged == {r \in Reqs : \/ pc[r] \in {"held", "release", "dec"} /\ wst[r] # "retired"
                         \/ pc[r] \in {"wait", "abandon"} /\ wst[r] = "granted"}

(* The admitted count is exactly the slots owned, through every race of      *)
(* grant, abandonment, release and reload: none leaks, none is counted     *)
(* twice.  The only disturbance is the slots given back without having been *)
(* charged, and those need Retire.                                         *)
Accounting ==
    /\ active = Cardinality(Charged) - unearned
    /\ unearned > 0 \/ (\E r \in Reqs : wst[r] = "retired") => closed

(* active counts every request that holds a slot exactly once, through fast  *)
(* path, handoff, abandoned wait and reload; the count is exact because    *)
(* the FIFO holds exactly the waiters that are parked and undecided.       *)
AdmissionInv == TypeOK /\ QueueIsParked /\ Accounting

(* Across reloads the queue never passes the loosest max_pending_requests,   *)
(* although a request decides with the policy it loaded before the mutex.  *)
QueueBounded == queue # <<>> => \E p \in Policies : Len(queue) <= p.maxPending

(* While the pool is open the owner is a set of slots: a request is charged  *)
(* to active only below a limit some reload installed, and a handoff never *)
(* lets the slot be seen free.                                             *)
Slot == INSTANCE Slots WITH Limits <- {p.maxActive : p \in Policies},
                            holders <- Charged, open <- ~closed
ImplementsSlots == Slot!Spec
=============================================================================
