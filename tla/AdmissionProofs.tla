-------------------------- MODULE AdmissionProofs --------------------------
(***************************************************************************)
(* The accounting of internal/upstream/admission.go for every number of    *)
(* requests and every set of policies.                                     *)
(***************************************************************************)
EXTENDS Admission, FiniteSetTheorems, TLAPS

WaiterStates == {"none", "parked", "granted", "retired"}
InQueue(q) == {q[i] : i \in 1..Len(q)}
NoDup(q) == \A i, j \in 1..Len(q) : q[i] = q[j] => i = j

(* What the three list operations do to the entries of a FIFO without        *)
(* duplicates.                                                             *)
LEMMA AppendQueue ==
  ASSUME NEW S, NEW q \in Seq(S), NoDup(q), NEW r \in S, r \notin InQueue(q)
  PROVE  /\ Append(q, r) \in Seq(S)
         /\ InQueue(Append(q, r)) = InQueue(q) \cup {r}
         /\ NoDup(Append(q, r))
<1> DEFINE n == Append(q, r)
<1>1. /\ n \in Seq(S) /\ Len(n) = Len(q) + 1 /\ Len(q) \in Nat
      /\ \A i \in 1..Len(q) : n[i] = q[i]
      /\ n[Len(q) + 1] = r
  OBVIOUS
<1>2. 1..(Len(q) + 1) = 1..Len(q) \cup {Len(q) + 1}
  BY <1>1
<1> HIDE DEF n
<1>3. InQueue(n) = InQueue(q) \cup {r}
  BY <1>1, <1>2 DEF InQueue
<1>4. NoDup(n)
  BY <1>1, <1>2 DEF NoDup, InQueue
<1> QED BY <1>1, <1>3, <1>4 DEF n

LEMMA TailQueue ==
  ASSUME NEW S, NEW q \in Seq(S), NoDup(q), q # <<>>
  PROVE  /\ Tail(q) \in Seq(S) /\ Head(q) \in InQueue(q) /\ Head(q) \in S
         /\ InQueue(Tail(q)) = InQueue(q) \ {Head(q)}
         /\ NoDup(Tail(q))
<1> DEFINE n == Tail(q)
<1>1. /\ n \in Seq(S) /\ Len(n) = Len(q) - 1 /\ Len(q) \in Nat \ {0}
      /\ \A i \in 1..(Len(q) - 1) : n[i] = q[i + 1]
      /\ Head(q) = q[1] /\ q[1] \in S
  OBVIOUS
<1> HIDE DEF n
<1>3. InQueue(n) = InQueue(q) \ {q[1]}
  <2>1. ASSUME NEW x \in InQueue(n) PROVE x \in InQueue(q) \ {q[1]}
    <3>1. PICK i \in 1..(Len(q) - 1) : x = q[i + 1]
      BY <1>1, <2>1 DEF InQueue
    <3>2. i + 1 \in 1..Len(q) /\ i + 1 # 1 /\ 1 \in 1..Len(q)
      BY <1>1
    <3> QED BY <3>1, <3>2 DEF InQueue, NoDup
  <2>2. ASSUME NEW x \in InQueue(q) \ {q[1]} PROVE x \in InQueue(n)
    <3>1. PICK j \in 1..Len(q) : x = q[j] /\ j # 1
      BY <2>2 DEF InQueue
    <3>2. j - 1 \in 1..(Len(q) - 1) /\ (j - 1) + 1 = j
      BY <1>1, <3>1
    <3>3. n[j - 1] = x
      BY <1>1, <3>1, <3>2
    <3> QED BY <1>1, <3>2, <3>3 DEF InQueue
  <2> QED BY <2>1, <2>2
<1>4. NoDup(n)
  BY <1>1 DEF NoDup
<1>5. q[1] \in InQueue(q)
  BY <1>1 DEF InQueue
<1> QED BY <1>1, <1>3, <1>4, <1>5 DEF n

LEMMA RemovedQueue ==
  ASSUME NEW S, NEW q \in Seq(S), NoDup(q), NEW k \in 1..Len(q)
  PROVE  /\ Removed(q, k) \in Seq(S)
         /\ InQueue(Removed(q, k)) = InQueue(q) \ {q[k]}
         /\ NoDup(Removed(q, k))
<1> DEFINE n == Removed(q, k)
<1>0. Len(q) \in Nat /\ k \in 1..Len(q) /\ Len(q) - 1 \in Nat
  OBVIOUS
<1>1. \A i \in 1..(Len(q) - 1) : n[i] = IF i < k THEN q[i] ELSE q[i + 1]
  BY DEF Removed
<1>2. n \in Seq(S) /\ Len(n) = Len(q) - 1
  <2>1. n \in [1..(Len(q) - 1) -> S]
    BY <1>0 DEF Removed
  <2> QED BY <1>0, <2>1
<1> HIDE DEF n
<1>3. InQueue(n) = InQueue(q) \ {q[k]}
  <2>1. ASSUME NEW x \in InQueue(n) PROVE x \in InQueue(q) \ {q[k]}
    <3>1. PICK i \in 1..(Len(q) - 1) : x = n[i]
      BY <1>2, <2>1 DEF InQueue
    <3>2. PICK j \in 1..Len(q) : x = q[j] /\ j # k
      BY <1>0, <1>1, <3>1
    <3> QED BY <3>2 DEF InQueue, NoDup
  <2>2. ASSUME NEW x \in InQueue(q) \ {q[k]} PROVE x \in InQueue(n)
    <3>1. PICK j \in 1..Len(q) : x = q[j] /\ j # k
      BY <2>2 DEF InQueue
    <3>2. \E i \in 1..(Len(q) - 1) : n[i] = x
      <4>1. CASE j < k
        BY <1>0, <1>1, <3>1, <4>1
      <4>2. CASE j > k
        <5>1. j - 1 \in 1..(Len(q) - 1) /\ ~(j - 1 < k) /\ (j - 1) + 1 = j
          BY <1>0, <3>1, <4>2
        <5> QED BY <1>1, <3>1, <5>1
      <4> QED BY <1>0, <3>1, <4>1, <4>2
    <3> QED BY <1>2, <3>2 DEF InQueue
  <2> QED BY <2>1, <2>2
<1>4. NoDup(n)
  BY <1>0, <1>1, <1>2 DEF NoDup
<1> QED BY <1>2, <1>3, <1>4 DEF n

-----------------------------------------------------------------------------
(* The charged requests are a finite set. *)
LEMMA ChargedFinite ==
  /\ IsFiniteSet(Charged) /\ Cardinality(Charged) \in Nat
  /\ IsFiniteSet(Charged') /\ Cardinality(Charged') \in Nat
<1>1. Charged \subseteq Reqs /\ Charged' \subseteq Reqs
  BY DEF Charged
<1> QED BY <1>1, AdmissionAssumption, FS_Subset, FS_CardinalityType

(* How the count moves with one request charged or discharged. *)
LEMMA ChargedMoves ==
  ASSUME NEW r \in Reqs
  PROVE  /\ r \notin Charged /\ Charged' = Charged \cup {r}
              => Cardinality(Charged') = Cardinality(Charged) + 1
         /\ r \in Charged /\ Charged' = Charged \ {r}
              => Cardinality(Charged') = Cardinality(Charged) - 1
  BY ChargedFinite, FS_AddElement, FS_RemoveElement

LEMMA ChargedHandOver ==
  ASSUME NEW r \in Charged, NEW h \in Reqs \ Charged, Charged' = (Charged \ {r}) \cup {h}
  PROVE  Cardinality(Charged') = Cardinality(Charged)
<1>1. IsFiniteSet(Charged \ {r}) /\ Cardinality(Charged \ {r}) = Cardinality(Charged) - 1
  BY ChargedFinite, FS_RemoveElement
<1>2. Cardinality((Charged \ {r}) \cup {h}) = Cardinality(Charged \ {r}) + 1
  BY <1>1, FS_AddElement
<1> QED BY <1>1, <1>2, ChargedFinite

LEMMA AdmissionInitInv == Init => AdmissionInv
<1> SUFFICES ASSUME Init PROVE AdmissionInv
  OBVIOUS
<1>1. TypeOK
  <2>1. queue \in Seq(Reqs) /\ active \in Int /\ unearned \in Nat /\ policy \in Policies
    BY DEF Init
  <2>2. /\ pc \in [Reqs -> Places] /\ lim \in [Reqs -> Int] /\ room \in [Reqs -> Int]
        /\ wst \in [Reqs -> WaiterStates]
        /\ reload \in {"idle", "stored", "waking"}
    BY DEF Init, Places, WaiterStates
  <2>3. WaiterFitsPlace
    BY DEF Init, WaiterFitsPlace
  <2>4. closed \in BOOLEAN
    BY Zenon DEF Init
  <2> QED BY <2>1, <2>2, <2>3, <2>4 DEF TypeOK, WaiterStates
<1>2. QueueIsParked
  BY DEF Init, QueueIsParked
<1>3. Charged = {}
  BY DEF Init, Charged
<1>4. Accounting
  BY <1>3, FS_EmptySet DEF Init, Accounting
<1> QED BY <1>1, <1>2, <1>4 DEF AdmissionInv

-----------------------------------------------------------------------------
(* A step that moves one request and leaves the FIFO and the waiters alone. *)
LEMMA QuietStep ==
  ASSUME AdmissionInv, NEW r \in Reqs,
         LoadLimit(r) \/ AtLimit(r) \/ LoadPolicy(r) \/ GiveUp(r)
  PROVE  AdmissionInv'
<1>1. PICK l \in {"acquire", "park", "lock", "abandon"} : pc' = [pc EXCEPT ![r] = l]
  BY DEF LoadLimit, AtLimit, LoadPolicy, GiveUp, Goto
<1>2. /\ pc' \in [Reqs -> Places] /\ pc'[r] = l
      /\ \A q \in Reqs \ {r} : pc'[q] = pc[q]
  BY <1>1 DEF AdmissionInv, TypeOK, Places
<1>3. /\ UNCHANGED <<policy, active, queue, wst, reload, closed, unearned>>
      /\ pc[r] = "wait" <=> l = "abandon"
      /\ pc[r] \in {"idle", "acquire", "park", "wait"}
  BY <1>1, <1>2 DEF LoadLimit, AtLimit, LoadPolicy, GiveUp, Goto
<1>4. policy.maxActive \in Int /\ policy.maxPending \in Int
  BY AdmissionAssumption DEF AdmissionInv, TypeOK
<1>5. lim' \in [Reqs -> Int] /\ room' \in [Reqs -> Int]
  BY <1>4 DEF LoadLimit, AtLimit, LoadPolicy, GiveUp, AdmissionInv, TypeOK
<1>6. WaiterFitsPlace'
  BY <1>2, <1>3 DEF AdmissionInv, TypeOK, WaiterFitsPlace
<1>7. TypeOK'
  BY <1>2, <1>3, <1>5, <1>6 DEF AdmissionInv, TypeOK
<1>8. QueueIsParked'
  BY <1>3 DEF AdmissionInv, QueueIsParked
<1>9. Charged' = Charged
  BY <1>2, <1>3 DEF AdmissionInv, TypeOK, WaiterFitsPlace, Charged
<1> QED BY <1>3, <1>7, <1>8, <1>9 DEF AdmissionInv, Accounting

(* A slot taken by compare-and-swap charges exactly its taker. *)
LEMMA TakeStep ==
  ASSUME AdmissionInv, NEW r \in Reqs, pc[r] \in {"acquire", "lock"},
         active' = active + 1, Goto(r, "held"),
         UNCHANGED <<policy, queue, lim, room, wst, reload, closed, unearned>>
  PROVE  AdmissionInv'
<1>2. /\ pc' \in [Reqs -> Places] /\ pc'[r] = "held"
      /\ \A q \in Reqs \ {r} : pc'[q] = pc[q]
  BY DEF AdmissionInv, TypeOK, Places, Goto
<1>3. WaiterFitsPlace'
  BY <1>2 DEF AdmissionInv, TypeOK, WaiterFitsPlace
<1>4. TypeOK'
  BY <1>2, <1>3 DEF AdmissionInv, TypeOK
<1>5. QueueIsParked'
  BY DEF AdmissionInv, QueueIsParked
<1>6. r \notin Charged /\ Charged' = Charged \cup {r}
  BY <1>2 DEF AdmissionInv, TypeOK, WaiterFitsPlace, Charged
<1>7. Cardinality(Charged') = Cardinality(Charged) + 1
  BY <1>6, ChargedMoves
<1>8. active \in Int /\ unearned \in Nat /\ active = Cardinality(Charged) - unearned
  BY DEF AdmissionInv, TypeOK, Accounting
<1>9. active' = Cardinality(Charged') - unearned'
  BY <1>7, <1>8, ChargedFinite
<1> QED BY <1>4, <1>5, <1>9 DEF AdmissionInv, Accounting

LEMMA ParkStep ==
  ASSUME AdmissionInv, NEW r \in Reqs, Park(r)
  PROVE  AdmissionInv'
<1>1. CASE MayTakeFreed(r)
  BY <1>1, TakeStep DEF Park
<1>2. CASE ~MayTakeFreed(r) /\ ~HasRoom(r)
  <2>1. /\ pc' \in [Reqs -> Places] /\ pc'[r] = "idle" /\ pc[r] = "lock"
        /\ \A q \in Reqs \ {r} : pc'[q] = pc[q]
    BY <1>2 DEF AdmissionInv, TypeOK, Places, Goto, Park
  <2>2. UNCHANGED <<policy, active, queue, lim, room, wst, reload, closed, unearned>>
    BY <1>2 DEF Park
  <2>3. WaiterFitsPlace'
    BY <2>1, <2>2 DEF AdmissionInv, TypeOK, WaiterFitsPlace
  <2>4. TypeOK'
    BY <2>1, <2>2, <2>3 DEF AdmissionInv, TypeOK
  <2>5. Charged' = Charged
    BY <2>1, <2>2 DEF AdmissionInv, TypeOK, WaiterFitsPlace, Charged
  <2> QED BY <2>2, <2>4, <2>5 DEF AdmissionInv, QueueIsParked, Accounting
<1>3. CASE ~MayTakeFreed(r) /\ HasRoom(r)
  <2>1. /\ pc' \in [Reqs -> Places] /\ pc'[r] = "wait" /\ pc[r] = "lock"
        /\ \A q \in Reqs \ {r} : pc'[q] = pc[q]
    BY <1>3 DEF AdmissionInv, TypeOK, Places, Goto, Park
  <2>2. /\ wst' \in [Reqs -> WaiterStates] /\ wst'[r] = "parked" /\ wst[r] = "none"
        /\ \A q \in Reqs \ {r} : wst'[q] = wst[q]
    BY <1>3, <2>1 DEF AdmissionInv, TypeOK, WaiterFitsPlace, WaiterStates, Park
  <2>3. UNCHANGED <<policy, active, lim, room, reload, closed, unearned>>
    BY <1>3 DEF Park
  <2>4. WaiterFitsPlace'
    BY <2>1, <2>2 DEF AdmissionInv, TypeOK, WaiterFitsPlace
  <2>5. /\ queue' = Append(queue, r) /\ queue \in Seq(Reqs) /\ NoDup(queue)
        /\ InQueue(queue) = {q \in Reqs : wst[q] = "parked"}
    BY <1>3 DEF Park, AdmissionInv, TypeOK, QueueIsParked, NoDup, InQueue
  <2>6. /\ queue' \in Seq(Reqs) /\ NoDup(queue')
        /\ InQueue(queue') = InQueue(queue) \cup {r}
    BY <2>2, <2>5, AppendQueue
  <2>7. TypeOK'
    BY <2>1, <2>2, <2>3, <2>4, <2>6 DEF AdmissionInv, TypeOK, WaiterStates
  <2>8. InQueue(queue') = {q \in Reqs : wst'[q] = "parked"}
    BY <2>2, <2>5, <2>6
  <2>9. QueueIsParked'
    BY <2>6, <2>8 DEF QueueIsParked, InQueue, NoDup
  <2>10. Charged' = Charged
    BY <2>1, <2>2 DEF AdmissionInv, TypeOK, WaiterFitsPlace, Charged
  <2>11. Accounting'
    BY <2>2, <2>3, <2>10 DEF AdmissionInv, Accounting
  <2> QED BY <2>7, <2>9, <2>11 DEF AdmissionInv
<1> QED BY <1>1, <1>2, <1>3

LEMMA WokenStep ==
  ASSUME AdmissionInv, NEW r \in Reqs, Woken(r)
  PROVE  AdmissionInv'
<1>1. PICK l \in {"held", "idle"} : /\ pc' = [pc EXCEPT ![r] = l]
                                    /\ l = "held" <=> wst[r] = "granted"
  BY DEF Woken, Goto
<1>2. /\ pc' \in [Reqs -> Places] /\ pc'[r] = l /\ pc[r] = "wait"
      /\ \A q \in Reqs \ {r} : pc'[q] = pc[q]
  BY <1>1 DEF AdmissionInv, TypeOK, Places, Woken
<1>3. /\ wst' \in [Reqs -> WaiterStates] /\ wst'[r] = "none" /\ wst[r] \in {"granted", "retired"}
      /\ \A q \in Reqs \ {r} : wst'[q] = wst[q]
  BY DEF AdmissionInv, TypeOK, WaiterStates, Woken
<1>4. UNCHANGED <<policy, active, queue, lim, room, reload, closed, unearned>>
  BY DEF Woken
<1>5. WaiterFitsPlace'
  BY <1>2, <1>3 DEF AdmissionInv, TypeOK, WaiterFitsPlace
<1>6. TypeOK'
  BY <1>2, <1>3, <1>4, <1>5 DEF AdmissionInv, TypeOK, WaiterStates
<1>7. {q \in Reqs : wst'[q] = "parked"} = {q \in Reqs : wst[q] = "parked"}
  BY <1>3
<1>8. QueueIsParked'
  BY <1>4, <1>7 DEF AdmissionInv, QueueIsParked
<1>9. Charged' = Charged
  BY <1>1, <1>2, <1>3 DEF Charged
<1>10. Accounting'
  BY <1>3, <1>4, <1>9 DEF AdmissionInv, Accounting
<1> QED BY <1>6, <1>8, <1>10 DEF AdmissionInv

LEMMA AbandonStep ==
  ASSUME AdmissionInv, NEW r \in Reqs, Abandon(r)
  PROVE  AdmissionInv'
<1>1. CASE wst[r] # "parked"
  <2>1. /\ pc' \in [Reqs -> Places] /\ pc'[r] = "release" /\ pc[r] = "abandon"
        /\ \A q \in Reqs \ {r} : pc'[q] = pc[q]
    BY <1>1 DEF AdmissionInv, TypeOK, Places, Goto, Abandon, LeaveQueue
  <2>2. UNCHANGED <<policy, active, queue, lim, room, wst, reload, closed, unearned>>
    BY <1>1 DEF Abandon, LeaveQueue
  <2>3. WaiterFitsPlace'
    BY <1>1, <2>1, <2>2 DEF AdmissionInv, TypeOK, WaiterFitsPlace
  <2>4. TypeOK'
    BY <2>1, <2>2, <2>3 DEF AdmissionInv, TypeOK
  <2>5. Charged' = Charged
    BY <1>1, <2>1, <2>2 DEF AdmissionInv, TypeOK, WaiterFitsPlace, Charged
  <2> QED BY <2>2, <2>4, <2>5 DEF AdmissionInv, QueueIsParked, Accounting
<1>2. CASE LeaveQueue(r)
  <2>1. /\ pc' \in [Reqs -> Places] /\ pc'[r] = "idle" /\ pc[r] = "abandon"
        /\ \A q \in Reqs \ {r} : pc'[q] = pc[q]
    BY <1>2 DEF AdmissionInv, TypeOK, Places, Goto, Abandon, LeaveQueue
  <2>2. /\ wst' \in [Reqs -> WaiterStates] /\ wst'[r] = "none" /\ wst[r] = "parked"
        /\ \A q \in Reqs \ {r} : wst'[q] = wst[q]
    BY <1>2 DEF AdmissionInv, TypeOK, WaiterStates, LeaveQueue
  <2>3. UNCHANGED <<policy, active, lim, room, reload, closed, unearned>>
    BY DEF Abandon
  <2>4. WaiterFitsPlace'
    BY <2>1, <2>2 DEF AdmissionInv, TypeOK, WaiterFitsPlace
  <2>5. /\ queue \in Seq(Reqs) /\ NoDup(queue)
        /\ InQueue(queue) = {q \in Reqs : wst[q] = "parked"}
    BY DEF AdmissionInv, TypeOK, QueueIsParked, NoDup, InQueue
  <2>6. PICK k \in 1..Len(queue) : queue[k] = r /\ queue' = Removed(queue, k)
    BY <1>2 DEF LeaveQueue
  <2>7. /\ queue' \in Seq(Reqs) /\ NoDup(queue') /\ InQueue(queue') = InQueue(queue) \ {r}
    BY <2>5, <2>6, RemovedQueue
  <2>8. TypeOK'
    BY <2>1, <2>2, <2>3, <2>4, <2>7 DEF AdmissionInv, TypeOK, WaiterStates
  <2>9. InQueue(queue') = {q \in Reqs : wst'[q] = "parked"}
    BY <2>2, <2>5, <2>7
  <2>10. QueueIsParked'
    BY <2>7, <2>9 DEF QueueIsParked, InQueue, NoDup
  <2>11. Charged' = Charged
    BY <2>1, <2>2 DEF Charged
  <2>12. Accounting'
    BY <2>2, <2>3, <2>11 DEF AdmissionInv, Accounting
  <2> QED BY <2>8, <2>10, <2>12 DEF AdmissionInv
<1> QED BY <1>1, <1>2 DEF Abandon

(* Granting the head: it leaves the FIFO as a charged, unaware waiter. *)
LEMMA GrantFacts ==
  ASSUME AdmissionInv, queue # <<>>, NEW done \in [Reqs -> WaiterStates], GrantLocked(done),
         {q \in Reqs : done[q] = "parked"} = {q \in Reqs : wst[q] = "parked"}
  PROVE  /\ Head(queue) \in Reqs /\ wst[Head(queue)] = "parked"
         /\ pc[Head(queue)] \in {"wait", "abandon"}
         /\ wst' \in [Reqs -> WaiterStates] /\ wst'[Head(queue)] = "granted"
         /\ \A q \in Reqs \ {Head(queue)} : wst'[q] = done[q]
         /\ queue' \in Seq(Reqs) /\ QueueIsParked'
<1> DEFINE h == Head(queue)
<1>1. /\ queue \in Seq(Reqs) /\ NoDup(queue)
      /\ InQueue(queue) = {q \in Reqs : wst[q] = "parked"}
  BY DEF AdmissionInv, TypeOK, QueueIsParked, NoDup, InQueue
<1>2. /\ Tail(queue) \in Seq(Reqs) /\ NoDup(Tail(queue)) /\ h \in InQueue(queue) /\ h \in Reqs
      /\ InQueue(Tail(queue)) = InQueue(queue) \ {h}
  BY <1>1, TailQueue
<1>3. wst[h] = "parked" /\ pc[h] \in {"wait", "abandon"}
  BY <1>1, <1>2 DEF AdmissionInv, TypeOK, WaiterFitsPlace
<1>4. /\ wst' \in [Reqs -> WaiterStates] /\ wst'[h] = "granted"
      /\ \A q \in Reqs \ {h} : wst'[q] = done[q]
  BY <1>2 DEF GrantLocked, WaiterStates
<1>5. queue' = Tail(queue)
  BY DEF GrantLocked
<1>6. InQueue(queue') = {q \in Reqs : wst'[q] = "parked"}
  BY <1>1, <1>2, <1>4, <1>5
<1>7. QueueIsParked'
  BY <1>2, <1>5, <1>6 DEF QueueIsParked, InQueue, NoDup
<1> QED BY <1>2, <1>3, <1>4, <1>5, <1>7

(* release either moves the slot to the head or leaves it for the decrement. *)
LEMMA ReleaseStep ==
  ASSUME AdmissionInv, NEW r \in Reqs, Release(r)
  PROVE  AdmissionInv'
<1>0. /\ pc[r] \in {"held", "release"} /\ wst[r] # "parked"
      /\ active \in Int /\ unearned \in Nat /\ active = Cardinality(Charged) - unearned
  BY DEF Release, AdmissionInv, TypeOK, WaiterFitsPlace, Accounting
<1>1. CASE HandsOff
  <2> DEFINE h == Head(queue)
             done == [wst EXCEPT ![r] = "none"]
  <2>1. /\ pc' \in [Reqs -> Places] /\ pc'[r] = "idle"
        /\ \A q \in Reqs \ {r} : pc'[q] = pc[q]
    BY <1>1 DEF AdmissionInv, TypeOK, Places, Goto, Release
  <2>2. /\ done \in [Reqs -> WaiterStates] /\ done[r] = "none"
        /\ \A q \in Reqs \ {r} : done[q] = wst[q]
    BY DEF AdmissionInv, TypeOK, WaiterStates
  <2>3. {q \in Reqs : done[q] = "parked"} = {q \in Reqs : wst[q] = "parked"}
    BY <1>0, <2>2
  <2>4. queue # <<>> /\ GrantLocked(done)
    BY <1>1 DEF Release, HandsOff
  <2>5. /\ UNCHANGED <<policy, active, lim, room, reload, closed>>
        /\ unearned' = unearned + WasRetired(r)
    BY <1>1 DEF Release
  <2> HIDE DEF done
  <2>6. /\ h \in Reqs /\ wst[h] = "parked" /\ pc[h] \in {"wait", "abandon"}
        /\ wst' \in [Reqs -> WaiterStates] /\ wst'[h] = "granted"
        /\ \A q \in Reqs \ {h} : wst'[q] = done[q]
        /\ queue' \in Seq(Reqs) /\ QueueIsParked'
    BY <2>2, <2>3, <2>4, GrantFacts
  <2>7. h # r
    BY <1>0, <2>6
  <2>8. WaiterFitsPlace'
    BY <2>1, <2>2, <2>6, <2>7 DEF AdmissionInv, TypeOK, WaiterFitsPlace
  <2>9. unearned' \in Nat
    BY <1>0, <2>5 DEF WasRetired
  <2>10. TypeOK'
    BY <2>1, <2>5, <2>6, <2>8, <2>9 DEF AdmissionInv, TypeOK, WaiterStates
  <2>11. h \notin Charged
    BY <2>6 DEF Charged
  <2>12. CASE wst[r] = "retired"
    <3>1. Charged' = Charged \cup {h}
      BY <1>0, <2>1, <2>2, <2>6, <2>7, <2>12 DEF Charged
    <3>2. Cardinality(Charged') = Cardinality(Charged) + 1
      BY <2>6, <2>11, <3>1, ChargedMoves
    <3>3. active' = Cardinality(Charged') - unearned'
      BY <1>0, <2>5, <2>12, <3>2, ChargedFinite DEF WasRetired
    <3>4. closed
      BY <2>12 DEF AdmissionInv, Accounting
    <3>5. closed'
      BY <2>5, <3>4
    <3> QED BY <2>6, <2>10, <3>3, <3>5 DEF AdmissionInv, Accounting
  <2>13. CASE wst[r] # "retired"
    <3>1. r \in Charged /\ Charged' = (Charged \ {r}) \cup {h}
      BY <1>0, <2>1, <2>2, <2>6, <2>7, <2>13 DEF Charged
    <3>2. Cardinality(Charged') = Cardinality(Charged)
      BY <2>6, <2>11, <3>1, ChargedHandOver
    <3>3. unearned' = unearned
      BY <1>0, <2>5, <2>13 DEF WasRetired
    <3>4. (\E q \in Reqs : wst'[q] = "retired") => \E q \in Reqs : wst[q] = "retired"
      BY <2>2, <2>6
    <3>5. Accounting'
      BY <2>5, <3>2, <3>3, <3>4 DEF AdmissionInv, Accounting
    <3> QED BY <2>6, <2>10, <3>5 DEF AdmissionInv
  <2> QED BY <2>12, <2>13
<1>2. CASE ~HandsOff
  <2>1. /\ pc' \in [Reqs -> Places] /\ pc'[r] = "dec"
        /\ \A q \in Reqs \ {r} : pc'[q] = pc[q]
    BY <1>2 DEF AdmissionInv, TypeOK, Places, Goto, Release
  <2>2. UNCHANGED <<policy, active, queue, lim, room, wst, reload, closed, unearned>>
    BY <1>2 DEF Release
  <2>3. WaiterFitsPlace'
    BY <1>0, <2>1, <2>2 DEF AdmissionInv, TypeOK, WaiterFitsPlace
  <2>4. TypeOK'
    BY <2>1, <2>2, <2>3 DEF AdmissionInv, TypeOK
  <2>5. Charged' = Charged
    BY <1>0, <2>1, <2>2 DEF Charged
  <2> QED BY <2>2, <2>4, <2>5 DEF AdmissionInv, QueueIsParked, Accounting
<1> QED BY <1>1, <1>2

LEMMA DecrementStep ==
  ASSUME AdmissionInv, NEW r \in Reqs, Decrement(r)
  PROVE  AdmissionInv'
<1>0. /\ pc[r] = "dec" /\ wst[r] # "parked"
      /\ active \in Int /\ unearned \in Nat /\ active = Cardinality(Charged) - unearned
  BY DEF Decrement, AdmissionInv, TypeOK, WaiterFitsPlace, Accounting
<1>1. /\ pc' \in [Reqs -> Places] /\ pc'[r] = "idle"
      /\ \A q \in Reqs \ {r} : pc'[q] = pc[q]
  BY DEF AdmissionInv, TypeOK, Places, Goto, Decrement
<1>2. /\ wst' \in [Reqs -> WaiterStates] /\ wst'[r] = "none"
      /\ \A q \in Reqs \ {r} : wst'[q] = wst[q]
  BY DEF AdmissionInv, TypeOK, WaiterStates, Decrement
<1>3. /\ UNCHANGED <<policy, queue, lim, room, reload, closed>>
      /\ active' = active - 1 /\ unearned' = unearned + WasRetired(r)
  BY DEF Decrement
<1>4. WaiterFitsPlace'
  BY <1>1, <1>2 DEF AdmissionInv, TypeOK, WaiterFitsPlace
<1>5. unearned' \in Nat /\ active' \in Int
  BY <1>0, <1>3 DEF WasRetired
<1>6. TypeOK'
  BY <1>1, <1>2, <1>3, <1>4, <1>5 DEF AdmissionInv, TypeOK, WaiterStates
<1>7. {q \in Reqs : wst'[q] = "parked"} = {q \in Reqs : wst[q] = "parked"}
  BY <1>0, <1>2
<1>8. QueueIsParked'
  BY <1>3, <1>7 DEF AdmissionInv, QueueIsParked
<1>9. active' = Cardinality(Charged') - unearned'
  <2>1. CASE wst[r] = "retired"
    <3>1. Charged' = Charged
      BY <1>0, <1>1, <1>2, <2>1 DEF Charged
    <3> QED BY <1>0, <1>3, <2>1, <3>1, ChargedFinite DEF WasRetired
  <2>2. CASE wst[r] # "retired"
    <3>1. r \in Charged /\ Charged' = Charged \ {r}
      BY <1>0, <1>1, <1>2, <2>2 DEF Charged
    <3>2. Cardinality(Charged') = Cardinality(Charged) - 1
      BY <3>1, ChargedMoves
    <3> QED BY <1>0, <1>3, <2>2, <3>2, ChargedFinite DEF WasRetired
  <2> QED BY <2>1, <2>2
<1>10. unearned' > 0 \/ (\E q \in Reqs : wst'[q] = "retired") => closed'
  BY <1>0, <1>2, <1>3 DEF AdmissionInv, Accounting, WasRetired
<1> QED BY <1>6, <1>8, <1>9, <1>10 DEF AdmissionInv, Accounting

LEMMA WakeStep ==
  ASSUME AdmissionInv, WakeOne
  PROVE  AdmissionInv'
<1> DEFINE h == Head(queue)
<1>1. /\ queue # <<>> /\ GrantLocked(wst) /\ wst \in [Reqs -> WaiterStates]
      /\ UNCHANGED <<policy, pc, lim, room, closed, unearned>>
      /\ active' = active + 1 /\ reload' = "waking"
  BY DEF WakeOne, AdmissionInv, TypeOK, WaiterStates
<1>2. /\ h \in Reqs /\ wst[h] = "parked" /\ pc[h] \in {"wait", "abandon"}
      /\ wst' \in [Reqs -> WaiterStates] /\ wst'[h] = "granted"
      /\ \A q \in Reqs \ {h} : wst'[q] = wst[q]
      /\ queue' \in Seq(Reqs) /\ QueueIsParked'
  BY <1>1, GrantFacts
<1>3. WaiterFitsPlace'
  BY <1>1, <1>2 DEF AdmissionInv, TypeOK, WaiterFitsPlace
<1>4. TypeOK'
  BY <1>1, <1>2, <1>3 DEF AdmissionInv, TypeOK, WaiterStates
<1>5. h \notin Charged /\ Charged' = Charged \cup {h}
  BY <1>1, <1>2 DEF Charged
<1>6. Cardinality(Charged') = Cardinality(Charged) + 1
  BY <1>2, <1>5, ChargedMoves
<1>7. active \in Int /\ unearned \in Nat /\ active = Cardinality(Charged) - unearned
  BY DEF AdmissionInv, TypeOK, Accounting
<1>8. active' = Cardinality(Charged') - unearned'
  BY <1>1, <1>6, <1>7, ChargedFinite
<1>9. unearned' > 0 \/ (\E q \in Reqs : wst'[q] = "retired") => closed'
  BY <1>1, <1>2 DEF AdmissionInv, Accounting
<1> QED BY <1>2, <1>4, <1>8, <1>9 DEF AdmissionInv, Accounting

LEMMA RetireStep ==
  ASSUME AdmissionInv, Retire
  PROVE  AdmissionInv'
<1>1. /\ UNCHANGED <<policy, active, pc, lim, room, reload, unearned>>
      /\ closed' = TRUE /\ queue' = <<>>
      /\ wst' \in [Reqs -> WaiterStates]
      /\ \A q \in Reqs : wst'[q] = IF wst[q] = "parked" THEN "retired" ELSE wst[q]
  BY DEF Retire, AdmissionInv, TypeOK, WaiterStates
<1>2. WaiterFitsPlace'
  BY <1>1 DEF AdmissionInv, TypeOK, WaiterFitsPlace
<1>3. queue' \in Seq(Reqs) /\ closed' \in BOOLEAN
  BY <1>1
<1>4. TypeOK'
  BY <1>1, <1>2, <1>3 DEF AdmissionInv, TypeOK, WaiterStates
<1>5. QueueIsParked'
  BY <1>1 DEF QueueIsParked
<1>6. Charged' = Charged
  BY <1>1 DEF AdmissionInv, TypeOK, WaiterFitsPlace, Charged
<1> QED BY <1>1, <1>4, <1>5, <1>6 DEF AdmissionInv, Accounting

(* Every step preserves the invariant. *)
LEMMA AdmissionNextInv == AdmissionInv /\ [Next]_vars => AdmissionInv'
<1> SUFFICES ASSUME AdmissionInv, [Next]_vars PROVE AdmissionInv'
  OBVIOUS
<1>1. CASE UNCHANGED vars
  BY <1>1 DEF vars, AdmissionInv, TypeOK, WaiterFitsPlace, QueueIsParked, Accounting, Charged
<1>2. ASSUME NEW r \in Reqs, FastPath(r) PROVE AdmissionInv'
  BY <1>2, TakeStep DEF FastPath
<1>3. ASSUME NEW p \in Policies, SetPolicy(p) PROVE AdmissionInv'
  BY <1>3 DEF SetPolicy, AdmissionInv, TypeOK, WaiterFitsPlace, QueueIsParked, Accounting, Charged
<1>4. ASSUME WakeDone PROVE AdmissionInv'
  BY <1>4 DEF WakeDone, AdmissionInv, TypeOK, WaiterFitsPlace, QueueIsParked, Accounting, Charged
<1> QED
  BY <1>1, <1>2, <1>3, <1>4, QuietStep, ParkStep, WokenStep, AbandonStep, ReleaseStep,
     DecrementStep, WakeStep, RetireStep DEF Next, Request

(* The admitted count of admission.go is exact, and the FIFO is exactly the  *)
(* parked waiters, for every number of requests and every reload.          *)
THEOREM AdmissionInvariant == Spec => []AdmissionInv
  BY AdmissionInitInv, AdmissionNextInv, PTL DEF Spec

(* No slot leaks and none is counted twice. *)
THEOREM AdmissionAccounting == Spec => []Accounting
<1>1. AdmissionInv => Accounting
  BY DEF AdmissionInv
<1> QED BY <1>1, AdmissionInvariant, PTL

-----------------------------------------------------------------------------
(* What a request decides with is a policy that was in force, although a     *)
(* reload may have replaced it since.                                      *)
LoadedFromPolicy ==
    \A r \in Reqs :
        /\ pc[r] \in {"acquire", "park", "lock"} => \E p \in Policies : lim[r] = p.maxActive
        /\ pc[r] = "lock" => \E p \in Policies : room[r] = p.maxPending

LEMMA LoadedNext ==
  ASSUME AdmissionInv, LoadedFromPolicy, [Next]_vars
  PROVE  LoadedFromPolicy'
<1>0. policy \in Policies /\ pc \in [Reqs -> Places] /\ lim \in [Reqs -> Int] /\ room \in [Reqs -> Int]
  BY DEF AdmissionInv, TypeOK
<1>1. ASSUME NEW r \in Reqs, LoadLimit(r) PROVE LoadedFromPolicy'
  BY <1>0, <1>1 DEF LoadLimit, Goto, LoadedFromPolicy
<1>2. ASSUME NEW r \in Reqs, LoadPolicy(r) PROVE LoadedFromPolicy'
  BY <1>0, <1>2 DEF LoadPolicy, Goto, LoadedFromPolicy
<1>3. ASSUME NEW r \in Reqs, AtLimit(r) PROVE LoadedFromPolicy'
  BY <1>0, <1>3 DEF AtLimit, Goto, LoadedFromPolicy
<1>4. ASSUME NEW r \in Reqs, FastPath(r) \/ Park(r) \/ Woken(r) \/ GiveUp(r) \/ Abandon(r)
                                \/ Release(r) \/ Decrement(r)
      PROVE  LoadedFromPolicy'
  <2>1. UNCHANGED <<lim, room>>
    BY <1>4 DEF FastPath, Park, Woken, GiveUp, Abandon, Release, Decrement
  <2>2. PICK l \in Places \ {"acquire", "park", "lock"} : pc' = [pc EXCEPT ![r] = l]
    BY <1>4 DEF FastPath, Park, Woken, GiveUp, Abandon, LeaveQueue, Release, Decrement, Goto, Places
  <2> QED BY <1>0, <2>1, <2>2 DEF LoadedFromPolicy
<1>5. CASE (\E p \in Policies : SetPolicy(p)) \/ WakeOne \/ WakeDone \/ Retire \/ UNCHANGED vars
  BY <1>5 DEF SetPolicy, WakeOne, WakeDone, Retire, vars, LoadedFromPolicy
<1> QED BY <1>1, <1>2, <1>3, <1>4, <1>5 DEF Next, Request

(* Only a parking request makes the FIFO longer, and it has seen the room. *)
LEMMA QueueBoundedNext ==
  ASSUME AdmissionInv, LoadedFromPolicy, QueueBounded, [Next]_vars
  PROVE  QueueBounded'
<1>0. queue \in Seq(Reqs) /\ Len(queue) \in Nat /\ room \in [Reqs -> Int]
      /\ \A p \in Policies : p.maxPending \in Int
  BY AdmissionAssumption DEF AdmissionInv, TypeOK
<1>1. ASSUME Len(queue') <= Len(queue), Len(queue') \in Nat, queue # <<>> PROVE QueueBounded'
  BY <1>0, <1>1 DEF QueueBounded
<1>2. ASSUME queue # <<>>, queue' = Tail(queue) PROVE QueueBounded'
  <2>1. Len(queue') = Len(queue) - 1 /\ Len(queue) > 0
    BY <1>0, <1>2
  <2> QED BY <1>0, <1>1, <1>2, <2>1
<1>3. ASSUME NEW r \in Reqs, Park(r), queue' # queue PROVE QueueBounded'
  <2>1. queue' = Append(queue, r) /\ HasRoom(r) /\ pc[r] = "lock"
    BY <1>3 DEF Park
  <2>2. Len(queue') = Len(queue) + 1 /\ Len(queue) < room[r]
    BY <1>0, <2>1 DEF HasRoom
  <2>3. PICK p \in Policies : room[r] = p.maxPending
    BY <2>1 DEF LoadedFromPolicy
  <2>4. Len(queue') <= p.maxPending
    BY <1>0, <2>2, <2>3
  <2> QED BY <2>4 DEF QueueBounded
<1>4. ASSUME NEW r \in Reqs, Abandon(r), queue' # queue PROVE QueueBounded'
  <2>1. PICK k \in 1..Len(queue) : queue' = Removed(queue, k)
    BY <1>4 DEF Abandon, LeaveQueue
  <2>2. Len(queue) - 1 \in Nat /\ queue # <<>>
    BY <1>0, <2>1
  <2>3. queue' \in [1..(Len(queue) - 1) -> Reqs]
    BY <1>0, <2>1, <2>2 DEF Removed
  <2>4. Len(queue') = Len(queue) - 1
    BY <2>2, <2>3
  <2> QED BY <1>0, <1>1, <2>2, <2>4
<1>5. ASSUME NEW r \in Reqs, Release(r), queue' # queue PROVE QueueBounded'
  BY <1>2, <1>5 DEF Release, HandsOff, GrantLocked
<1>6. CASE WakeOne
  BY <1>2, <1>6 DEF WakeOne, GrantLocked
<1>7. CASE Retire
  BY <1>7 DEF Retire, QueueBounded
<1>8. CASE queue' = queue
  BY <1>8 DEF QueueBounded
<1>9. ASSUME NEW r \in Reqs, LoadLimit(r) \/ FastPath(r) \/ AtLimit(r) \/ LoadPolicy(r)
                                \/ Woken(r) \/ GiveUp(r) \/ Decrement(r)
      PROVE  queue' = queue
  BY <1>9 DEF LoadLimit, FastPath, AtLimit, LoadPolicy, Woken, GiveUp, Decrement
<1>10. ASSUME (\E p \in Policies : SetPolicy(p)) \/ WakeDone \/ UNCHANGED vars
       PROVE  queue' = queue
  BY <1>10 DEF SetPolicy, WakeDone, vars
<1> QED BY <1>3, <1>4, <1>5, <1>6, <1>7, <1>8, <1>9, <1>10 DEF Next, Request

(* The FIFO of admission.go never outgrows the loosest max_pending_requests  *)
(* in spite of reloads between a request's look at the policy and its      *)
(* entry.                                                                  *)
THEOREM AdmissionQueueBounded == Spec => []QueueBounded
<1>1. Init => LoadedFromPolicy /\ QueueBounded
  BY DEF Init, LoadedFromPolicy, QueueBounded
<1> QED BY <1>1, AdmissionInvariant, LoadedNext, QueueBoundedNext, PTL DEF Spec

-----------------------------------------------------------------------------
(* A claim by compare-and-swap below a limit that was in force finds a free  *)
(* slot: on an open pool active is the number of holders.                  *)
LEMMA BelowIsFree ==
  ASSUME AdmissionInv, ~closed, NEW l \in {p.maxActive : p \in Policies}, Below(l)
  PROVE  Slot!Free
<1>1. active = Cardinality(Charged) /\ l \in Int
  BY AdmissionAssumption, ChargedFinite DEF AdmissionInv, TypeOK, Accounting
<1>2. Slot!Cardinality(Charged) = Cardinality(Charged)
  BY DEF Slot!Cardinality, Cardinality
<1> QED BY <1>1, <1>2 DEF Below, Slot!Free

(* Every step of a request is a step of the slots, or invisible there. *)
LEMMA RequestRefines ==
  ASSUME AdmissionInv, LoadedFromPolicy, ~closed, NEW r \in Reqs, Request(r)
  PROVE  closed' = closed /\ (Slot!Serve \/ UNCHANGED <<Charged, closed>>)
<1>0. /\ pc \in [Reqs -> Places] /\ wst \in [Reqs -> WaiterStates]
      /\ WaiterFitsPlace /\ \A q \in Reqs : wst[q] # "retired"
  BY DEF AdmissionInv, TypeOK, WaiterStates, Accounting
<1>1. closed' = closed
  BY DEF Request, LoadLimit, FastPath, AtLimit, LoadPolicy, Park, Woken, GiveUp, Abandon,
         Release, Decrement
<1>2. ASSUME r \notin Charged, Charged' = Charged \cup {r}, Slot!Free PROVE Slot!Serve
  BY <1>1, <1>2 DEF Slot!Serve, Slot!Take
<1>3. ASSUME pc[r] \in {"acquire", "lock"}, Goto(r, "held"), UNCHANGED wst
      PROVE  r \notin Charged /\ Charged' = Charged \cup {r}
  BY <1>0, <1>3 DEF WaiterFitsPlace, Charged, Goto
<1>4. ASSUME FastPath(r) PROVE Slot!Serve
  <2>1. lim[r] \in {p.maxActive : p \in Policies} /\ Below(lim[r])
    BY <1>4 DEF FastPath, LoadedFromPolicy
  <2> QED BY <1>2, <1>3, <1>4, <2>1, BelowIsFree DEF FastPath
<1>5. ASSUME Park(r) PROVE Slot!Serve \/ Charged' = Charged
  <2>1. CASE MayTakeFreed(r)
    <3>1. lim[r] \in {p.maxActive : p \in Policies} /\ Below(lim[r])
      BY <1>5, <2>1 DEF Park, MayTakeFreed, LoadedFromPolicy
    <3> QED BY <1>2, <1>3, <1>5, <2>1, <3>1, BelowIsFree DEF Park
  <2>2. CASE ~MayTakeFreed(r)
    <3>1. PICK l \in {"idle", "wait"} :
             /\ pc[r] = "lock" /\ pc' = [pc EXCEPT ![r] = l]
             /\ wst' = wst \/ (l = "wait" /\ wst' = [wst EXCEPT ![r] = "parked"])
      BY <1>5, <2>2 DEF Park, Goto
    <3> QED BY <1>0, <3>1 DEF WaiterFitsPlace, Charged, Places, WaiterStates
  <2> QED BY <2>1, <2>2
<1>6. ASSUME LoadLimit(r) \/ AtLimit(r) \/ LoadPolicy(r) \/ GiveUp(r) PROVE Charged' = Charged
  <2>1. PICK l \in {"acquire", "park", "lock", "abandon"} :
           /\ pc' = [pc EXCEPT ![r] = l] /\ wst' = wst
           /\ pc[r] = "wait" <=> l = "abandon"
           /\ pc[r] \in {"idle", "acquire", "park", "wait"}
    BY <1>6 DEF LoadLimit, AtLimit, LoadPolicy, GiveUp, Goto
  <2> QED BY <1>0, <2>1 DEF Charged, WaiterFitsPlace
<1>7. ASSUME Woken(r) PROVE Charged' = Charged
  BY <1>0, <1>7 DEF Woken, Goto, Charged
<1>8. ASSUME Abandon(r) PROVE Charged' = Charged
  <2>1. PICK l \in {"release", "idle"} :
           /\ pc[r] = "abandon" /\ pc' = [pc EXCEPT ![r] = l]
           /\ \/ l = "release" /\ wst' = wst /\ wst[r] # "parked"
              \/ l = "idle" /\ wst' = [wst EXCEPT ![r] = "none"] /\ wst[r] = "parked"
    BY <1>8 DEF Abandon, LeaveQueue, Goto
  <2> QED BY <1>0, <2>1 DEF Charged, WaiterFitsPlace, WaiterStates
<1>9. ASSUME Release(r) PROVE Slot!Serve \/ Charged' = Charged
  <2>0. pc[r] \in {"held", "release"} /\ wst[r] # "parked" /\ r \in Charged
    BY <1>0, <1>9 DEF Release, WaiterFitsPlace, Charged
  <2>1. CASE HandsOff
    <3> DEFINE h == Head(queue)
               done == [wst EXCEPT ![r] = "none"]
    <3>1. /\ done \in [Reqs -> WaiterStates] /\ done[r] = "none"
          /\ \A q \in Reqs \ {r} : done[q] = wst[q]
      BY <1>0 DEF WaiterStates
    <3>2. {q \in Reqs : done[q] = "parked"} = {q \in Reqs : wst[q] = "parked"}
      BY <2>0, <3>1
    <3>3. queue # <<>> /\ GrantLocked(done) /\ pc' = [pc EXCEPT ![r] = "idle"]
      BY <1>9, <2>1 DEF Release, HandsOff, Goto
    <3> HIDE DEF done
    <3>4. /\ h \in Reqs /\ wst[h] = "parked" /\ pc[h] \in {"wait", "abandon"}
          /\ wst'[h] = "granted" /\ \A q \in Reqs \ {h} : wst'[q] = done[q]
      BY <3>1, <3>2, <3>3, GrantFacts
    <3>5. h # r /\ h \notin Charged
      BY <2>0, <3>4 DEF Charged
    <3>6. Charged' = (Charged \ {r}) \cup {h}
      BY <1>0, <2>0, <3>1, <3>3, <3>4, <3>5 DEF Charged
    <3> QED BY <1>1, <2>0, <3>4, <3>5, <3>6 DEF Slot!Serve, Slot!HandOver
  <2>2. CASE ~HandsOff
    BY <1>0, <1>9, <2>0, <2>2 DEF Release, Goto, Charged
  <2> QED BY <2>1, <2>2
<1>10. ASSUME Decrement(r) PROVE Slot!Serve
  <2>1. r \in Charged /\ Charged' = Charged \ {r}
    BY <1>0, <1>10 DEF Decrement, Goto, Charged
  <2> QED BY <1>1, <2>1 DEF Slot!Serve, Slot!Give
<1> QED BY <1>1, <1>4, <1>5, <1>6, <1>7, <1>8, <1>9, <1>10 DEF Request

LEMMA StepRefines ==
  ASSUME AdmissionInv, LoadedFromPolicy, [Next]_vars
  PROVE  [Slot!Next]_<<Charged, ~closed>>
<1>0. ASSUME closed' PROVE Slot!Next
  BY <1>0, Zenon DEF Slot!Next, Slot!Close
<1>1. CASE closed
  <2>1. closed' = closed \/ closed'
    BY DEF Next, Request, LoadLimit, FastPath, AtLimit, LoadPolicy, Park, Woken, GiveUp, Abandon,
           Release, Decrement, SetPolicy, WakeOne, WakeDone, Retire, vars
  <2> QED BY <1>0, <1>1, <2>1
<1>2. CASE ~closed
  <2>1. ASSUME NEW r \in Reqs, Request(r) PROVE [Slot!Next]_<<Charged, ~closed>>
    BY <1>2, <2>1, RequestRefines DEF Slot!Next
  <2>2. CASE WakeOne
    <3>1. queue # <<>> /\ GrantLocked(wst) /\ Below(policy.maxActive) /\ UNCHANGED <<pc, closed>>
      BY <2>2 DEF WakeOne
    <3>2. policy \in Policies /\ wst \in [Reqs -> WaiterStates]
      BY DEF AdmissionInv, TypeOK, WaiterStates
    <3>3. Slot!Free
      BY <1>2, <3>1, <3>2, BelowIsFree
    <3> DEFINE h == Head(queue)
    <3>4. /\ h \in Reqs /\ wst[h] = "parked" /\ pc[h] \in {"wait", "abandon"}
          /\ wst'[h] = "granted" /\ \A q \in Reqs \ {h} : wst'[q] = wst[q]
      BY <3>1, <3>2, GrantFacts
    <3>5. h \notin Charged /\ Charged' = Charged \cup {h}
      BY <3>1, <3>4 DEF Charged
    <3> QED BY <1>2, <3>1, <3>3, <3>4, <3>5 DEF Slot!Next, Slot!Serve, Slot!Take
  <2>3. CASE Retire
    BY <1>0, <2>3 DEF Retire
  <2>4. CASE (\E p \in Policies : SetPolicy(p)) \/ WakeDone \/ UNCHANGED vars
    BY <2>4 DEF SetPolicy, WakeDone, vars, Charged
  <2> QED BY <2>1, <2>2, <2>3, <2>4 DEF Next
<1> QED BY <1>1, <1>2

(* On an open pool the lock-free counter, the FIFO and the handoffs of        *)
(* admission.go implement a plain set of slots: a request is charged only  *)
(* below a limit that was in force, and a handed-over slot is never free.  *)
THEOREM AdmissionImplementsSlots == Spec => ImplementsSlots
<1>1. Init => Slot!Init /\ LoadedFromPolicy
  BY DEF Init, Slot!Init, Charged, LoadedFromPolicy
<1> QED
  BY <1>1, AdmissionInvariant, LoadedNext, StepRefines, PTL DEF Spec, ImplementsSlots, Slot!Spec
=============================================================================
