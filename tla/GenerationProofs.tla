-------------------------- MODULE GenerationProofs --------------------------
(***************************************************************************)
(* The retirement protocol of internal/server/server.go for every number   *)
(* of requests, operations and generations.                                *)
(***************************************************************************)
EXTENDS Generation, FiniteSetTheorems, TLAPS

(* What a reload has done before it takes anything from a generation.      *)
RetireOrder ==
    /\ reload = "registered" => live < LastGen /\ secrets[live + 1] # "absent"
    /\ reload \in {"stored", "retiring"} => live > 1
    /\ reload = "retiring" => retiring[live - 1]
    /\ \A g \in Gens : waiters[g] # {} => retiring[g]
    /\ \A g \in Gens : resources[g] # "open" \/ secrets[g] = "dropped" => retiring[g]
    /\ \A g \in Gens : g <= live => secrets[g] # "absent"
    /\ \A s \in Slots : at[s] <= live /\ opAt[s] <= live

(* Shutdown begins between reloads, and admits no operation once it has    *)
(* cancelled the live group.                                               *)
ShutdownOrder ==
    /\ phase # "up" => reload = "idle"
    /\ phase \in {"awaiting", "quiet", "overdue", "stopped"} => LockFree(live)

GenerationInv ==
    /\ TypeOK
    /\ InflightCounts
    /\ RetireOrder
    /\ ShutdownOrder
    /\ TakenOnlyOnSignal
    /\ DrainNotLost
    /\ QuietIsQuiet

-----------------------------------------------------------------------------
(* The tasks a generation counts, one by one. *)
LEMMA HoldersMember ==
  ASSUME NEW g
  PROVE  /\ \A s \in Slots : <<"request", s>> \in Holders(g) <=> at[s] = g /\ pc[s] \in RequestCounted
         /\ \A s \in Slots : <<"operation", s>> \in Holders(g) <=> opAt[s] = g /\ opc[s] \in OperationCounted
         /\ Holders(g) \subseteq {"request", "operation"} \X Slots
<1>1. "request" # "operation"
  OBVIOUS
<1> QED BY <1>1 DEF Holders

LEMMA HoldersFinite ==
  ASSUME NEW H, H \subseteq {"request", "operation"} \X Slots
  PROVE  IsFiniteSet(H) /\ Cardinality(H) \in Nat
<1>1. IsFiniteSet({"request", "operation"})
  <2>1. IsFiniteSet({"request"})
    BY FS_Singleton
  <2>2. IsFiniteSet({"request"} \cup {"operation"})
    BY <2>1, FS_AddElement
  <2>3. {"request"} \cup {"operation"} = {"request", "operation"}
    OBVIOUS
  <2> QED BY <2>2, <2>3
<1>2. IsFiniteSet({"request", "operation"} \X Slots)
  BY <1>1, SlotsAssumption, FS_Product
<1> QED BY <1>2, FS_Subset, FS_CardinalityType

(* How the count of a generation moves with one task. *)
LEMMA CountsMove ==
  ASSUME NEW H, H \subseteq {"request", "operation"} \X Slots, NEW x
  PROVE  /\ x \notin H => Cardinality(H \cup {x}) = Cardinality(H) + 1
         /\ x \in H => Cardinality(H \ {x}) = Cardinality(H) - 1 /\ Cardinality(H) > 0
<1>1. IsFiniteSet(H) /\ Cardinality(H) \in Nat
  BY HoldersFinite
<1>2. x \notin H => Cardinality(H \cup {x}) = Cardinality(H) + 1
  BY <1>1, FS_AddElement
<1>3. x \in H => Cardinality(H \ {x}) = Cardinality(H) - 1
  BY <1>1, FS_RemoveElement
<1>4. x \in H => Cardinality(H) # 0
  BY <1>1, FS_EmptySet
<1> QED BY <1>1, <1>2, <1>3, <1>4

LEMMA GenerationInitInv == Init => GenerationInv
<1> SUFFICES ASSUME Init PROVE GenerationInv
  OBVIOUS
<1>0. 1 \in Gens /\ LastGen \in Nat /\ LastGen >= 1
  BY LastGenAssumption DEF Gens
<1>1. TypeOK
  BY <1>0 DEF Init, TypeOK
<1>2. \A g \in Gens : Holders(g) = {} /\ Users(g) = {}
  BY DEF Init, Holders, Users, RequestCounted, OperationCounted
<1>3. InflightCounts
  BY <1>2, FS_EmptySet DEF InflightCounts, Init
<1>4. RetireOrder /\ ShutdownOrder
  BY <1>0 DEF Init, RetireOrder, ShutdownOrder, Gens
<1>5. TakenOnlyOnSignal /\ DrainNotLost /\ QuietIsQuiet
  BY <1>2 DEF Init, TakenOnlyOnSignal, DrainNotLost, QuietIsQuiet
<1> QED BY <1>1, <1>3, <1>4, <1>5 DEF GenerationInv

-----------------------------------------------------------------------------
(* What the steps of one task do to the tasks a generation counts. *)
LEMMA CountsUp ==
  ASSUME TypeOK, InflightCounts, NEW g \in Gens, NEW x,
         x \notin Holders(g), Holders(g)' = Holders(g) \cup {x},
         \A h \in Gens \ {g} : Holders(h)' = Holders(h),
         inflight' = [inflight EXCEPT ![g] = @ + 1]
  PROVE  InflightCounts' /\ inflight' \in [Gens -> Nat]
<1>1. Cardinality(Holders(g)') = Cardinality(Holders(g)) + 1
  BY HoldersMember, CountsMove
<1>2. inflight \in [Gens -> Nat]
  BY DEF TypeOK
<1> QED BY <1>1, <1>2 DEF InflightCounts

LEMMA CountsDown ==
  ASSUME TypeOK, InflightCounts, NEW g \in Gens, NEW x,
         x \in Holders(g), Holders(g)' = Holders(g) \ {x},
         \A h \in Gens \ {g} : Holders(h)' = Holders(h),
         inflight' = [inflight EXCEPT ![g] = @ - 1]
  PROVE  InflightCounts' /\ inflight' \in [Gens -> Nat]
<1>1. Cardinality(Holders(g)') = Cardinality(Holders(g)) - 1 /\ Cardinality(Holders(g)) > 0
  BY HoldersMember, CountsMove
<1>2. inflight \in [Gens -> Nat]
  BY DEF TypeOK
<1> QED BY <1>1, <1>2 DEF InflightCounts

LEMMA RequestCounts ==
  ASSUME TypeOK, InflightCounts, NEW s \in Slots, RequestStep(s)
  PROVE  InflightCounts' /\ inflight' \in [Gens -> Nat]
<1> USE DEF TypeOK
<1>0. /\ at[s] \in Gens
      /\ \A g \in Gens : Holders(g) \subseteq {"request", "operation"} \X Slots
  BY HoldersMember
<1>1. ASSUME \A g \in Gens : Holders(g)' = Holders(g), inflight' = inflight
      PROVE  InflightCounts' /\ inflight' \in [Gens -> Nat]
  BY <1>1 DEF InflightCounts
<1>2. CASE Load(s)
  <2>1. \A g \in Gens : Holders(g)' = Holders(g)
    BY <1>2 DEF Load, Holders, RequestCounted, OperationCounted, operationVars
  <2> QED BY <1>1, <1>2, <2>1 DEF Load
<1>3. CASE Count(s)
  <2>0. PICK g \in Gens : g = at[s]
    BY <1>0
  <2>1. \A h \in Gens \ {g} : Holders(h)' = Holders(h)
    BY <2>0, <1>3 DEF Count, Holders, RequestCounted, OperationCounted, operationVars
  <2>2. /\ Holders(g)' = Holders(g) \cup {<<"request", s>>}
        /\ <<"request", s>> \notin Holders(g)
    <3>1. <<"request", s>> \notin Holders(g)
      BY <2>0, <1>3, HoldersMember DEF Count, RequestCounted
    <3>2. \A t \in Slots : /\ pc'[t] \in RequestCounted <=> t = s \/ pc[t] \in RequestCounted
                           /\ at'[t] = at[t] /\ opc'[t] = opc[t] /\ opAt'[t] = opAt[t]
      BY <2>0, <1>3 DEF Count, RequestCounted, operationVars
    <3> QED BY <2>0, <3>1, <3>2 DEF Holders
  <2> QED BY <2>0, <1>3, <2>1, <2>2, CountsUp DEF Count
<1>4. CASE EnterOrBackOut(s) \/ Finish(s) \/ SignalRequest(s)
  <2>1. \A g \in Gens : Holders(g)' = Holders(g)
    BY <1>4 DEF EnterOrBackOut, Finish, SignalRequest, AfterRelease, Holders, RequestCounted,
                OperationCounted, operationVars
  <2> QED BY <1>1, <1>4, <2>1 DEF EnterOrBackOut, Finish, SignalRequest
<1>5. CASE LeaveRequest(s)
  <2>0. PICK g \in Gens : g = at[s]
    BY <1>0
  <2>1. \A h \in Gens \ {g} : Holders(h)' = Holders(h)
    BY <2>0, <1>5 DEF LeaveRequest, AfterRelease, Holders, RequestCounted, OperationCounted, operationVars
  <2>2. /\ Holders(g)' = Holders(g) \ {<<"request", s>>}
        /\ <<"request", s>> \in Holders(g)
    <3>1. <<"request", s>> \in Holders(g)
      BY <2>0, <1>5, HoldersMember DEF LeaveRequest, RequestCounted
    <3>2. \A t \in Slots : /\ pc'[t] \in RequestCounted <=> t # s /\ pc[t] \in RequestCounted
                           /\ at'[t] = at[t] /\ opc'[t] = opc[t] /\ opAt'[t] = opAt[t]
      BY <2>0, <1>5 DEF LeaveRequest, AfterRelease, RequestCounted, operationVars
    <3> QED BY <2>0, <3>1, <3>2 DEF Holders
  <2> QED BY <2>0, <1>5, <2>1, <2>2, CountsDown DEF LeaveRequest, Decremented
<1> QED BY <1>2, <1>3, <1>4, <1>5 DEF RequestStep

LEMMA OperationCounts ==
  ASSUME TypeOK, InflightCounts, NEW s \in Slots, OperationStep(s)
  PROVE  InflightCounts' /\ inflight' \in [Gens -> Nat]
<1> USE DEF TypeOK
<1>0. /\ at[s] \in Gens /\ opAt[s] \in Gens
      /\ \A g \in Gens : Holders(g) \subseteq {"request", "operation"} \X Slots
  BY HoldersMember
<1>1. ASSUME \A g \in Gens : Holders(g)' = Holders(g), inflight' = inflight
      PROVE  InflightCounts' /\ inflight' \in [Gens -> Nat]
  BY <1>1 DEF InflightCounts
<1>2. CASE Lease(s)
  <2>0. PICK g \in Gens : g = at[s]
    BY <1>0
  <2>1. \A h \in Gens \ {g} : Holders(h)' = Holders(h)
    BY <2>0, <1>2 DEF Lease, Holders, RequestCounted, OperationCounted, requestVars
  <2>2. /\ Holders(g)' = Holders(g) \cup {<<"operation", s>>}
        /\ <<"operation", s>> \notin Holders(g)
    <3>1. <<"operation", s>> \notin Holders(g)
      BY <2>0, <1>2, HoldersMember DEF Lease, OperationCounted
    <3>2. \A t \in Slots \ {s} : opc'[t] = opc[t] /\ opAt'[t] = opAt[t]
      BY <2>0, <1>2 DEF Lease
    <3>3. opc'[s] \in OperationCounted /\ opAt'[s] = at[s] /\ opc[s] \notin OperationCounted
      BY <2>0, <1>2 DEF Lease, OperationCounted
    <3>4. pc' = pc /\ at' = at
      BY <2>0, <1>2 DEF Lease, requestVars
    <3> QED BY <2>0, <3>1, <3>2, <3>3, <3>4 DEF Holders
  <2> QED BY <2>0, <1>2, <2>1, <2>2, CountsUp DEF Lease
<1>3. CASE AdmitBackground(s) \/ Complete(s) \/ SignalOperation(s)
  <2>1. \A g \in Gens : Holders(g)' = Holders(g)
    BY <1>3 DEF AdmitBackground, Complete, SignalOperation, Holders, RequestCounted,
                OperationCounted, requestVars
  <2> QED BY <1>1, <1>3, <2>1 DEF AdmitBackground, Complete, SignalOperation
<1>4. CASE LeaveOperation(s)
  <2>0. PICK g \in Gens : g = opAt[s]
    BY <1>0
  <2>1. \A h \in Gens \ {g} : Holders(h)' = Holders(h)
    BY <2>0, <1>4 DEF LeaveOperation, Holders, RequestCounted, OperationCounted, requestVars
  <2>2. /\ Holders(g)' = Holders(g) \ {<<"operation", s>>}
        /\ <<"operation", s>> \in Holders(g)
    <3>1. <<"operation", s>> \in Holders(g)
      BY <2>0, <1>4, HoldersMember DEF LeaveOperation, OperationCounted
    <3>2. \A t \in Slots : /\ opc'[t] \in OperationCounted <=> t # s /\ opc[t] \in OperationCounted
                           /\ at'[t] = at[t] /\ pc'[t] = pc[t] /\ opAt'[t] = opAt[t]
      BY <2>0, <1>4 DEF LeaveOperation, OperationCounted, requestVars
    <3> QED BY <2>0, <3>1, <3>2 DEF Holders
  <2> QED BY <2>0, <1>4, <2>1, <2>2, CountsDown DEF LeaveOperation, Decremented
<1> QED BY <1>2, <1>3, <1>4 DEF OperationStep

-----------------------------------------------------------------------------
(* The two releases: only the task that brings the count to zero looks at  *)
(* retiring.                                                               *)
LEMMA RequestLeaves ==
  ASSUME TypeOK, NEW s \in Slots, LeaveRequest(s)
  PROVE  /\ pc' = [pc EXCEPT ![s] = pc'[s]]
         /\ pc'[s] \in {"idle", "retrying", "checking", "backOutCheck"}
         /\ inflight[at[s]] = 1 => pc'[s] \in {"checking", "backOutCheck"}
<1>1. CASE inflight[at[s]] # 1
  BY <1>1 DEF TypeOK, LeaveRequest, AfterRelease
<1>2. CASE inflight[at[s]] = 1 /\ pc[s] = "leaving"
  BY <1>2 DEF TypeOK, LeaveRequest, AfterRelease
<1>3. CASE inflight[at[s]] = 1 /\ pc[s] # "leaving"
  BY <1>3 DEF TypeOK, LeaveRequest, AfterRelease
<1> QED BY <1>1, <1>2, <1>3

LEMMA OperationLeaves ==
  ASSUME TypeOK, NEW s \in Slots, LeaveOperation(s)
  PROVE  /\ opc' = [opc EXCEPT ![s] = opc'[s]]
         /\ opc'[s] \in {"none", "refusedCheck", "checking"}
         /\ inflight[opAt[s]] = 1 => opc'[s] \in {"refusedCheck", "checking"}
         /\ opc'[s] \in InAcquire \cup InWaitGroup =>
               \/ opc[s] \in InAcquire /\ opc'[s] \in InAcquire
               \/ opc[s] \in InWaitGroup /\ opc'[s] \in InWaitGroup
<1> USE DEF InAcquire, InWaitGroup
<1>1. CASE inflight[opAt[s]] # 1
  BY <1>1 DEF TypeOK, LeaveOperation
<1>2. CASE inflight[opAt[s]] = 1 /\ opc[s] = "refused"
  BY <1>2 DEF TypeOK, LeaveOperation
<1>3. CASE inflight[opAt[s]] = 1 /\ opc[s] # "refused"
  BY <1>3 DEF TypeOK, LeaveOperation
<1> QED BY <1>1, <1>2, <1>3

-----------------------------------------------------------------------------
(* Every step keeps the types. *)
LEMMA TypeStep ==
  ASSUME GenerationInv, Next
  PROVE  TypeOK'
<1> USE DEF GenerationInv, TypeOK
<1>1. ASSUME NEW s \in Slots, RequestStep(s) PROVE TypeOK'
  <2>1. inflight' \in [Gens -> Nat]
    BY <1>1, RequestCounts
  <2>2. CASE LeaveRequest(s)
    BY <2>1, <2>2, RequestLeaves DEF LeaveRequest, retireVars, operationVars
  <2>3. CASE Load(s) \/ Count(s) \/ EnterOrBackOut(s) \/ Finish(s)
    BY <2>1, <2>3 DEF Load, Count, EnterOrBackOut, Finish, retireVars, operationVars
  <2>4. CASE SignalRequest(s)
    BY <2>1, <2>4 DEF SignalRequest, AfterRelease, Signal, operationVars
  <2> QED BY <1>1, <2>2, <2>3, <2>4 DEF RequestStep
<1>2. ASSUME NEW s \in Slots, OperationStep(s) PROVE TypeOK'
  <2>1. inflight' \in [Gens -> Nat]
    BY <1>2, OperationCounts
  <2>2. CASE LeaveOperation(s)
    BY <2>1, <2>2, OperationLeaves DEF LeaveOperation, retireVars, requestVars
  <2>3. CASE Lease(s) \/ AdmitBackground(s) \/ Complete(s)
    BY <2>1, <2>3 DEF Lease, AdmitBackground, Complete, retireVars, requestVars
  <2>4. CASE SignalOperation(s)
    BY <2>1, <2>4 DEF SignalOperation, Signal, requestVars
  <2> QED BY <1>2, <2>2, <2>3, <2>4 DEF OperationStep
<1>3. ASSUME NEW g \in Gens, WaiterStep(g) PROVE TypeOK'
  <2>1. CASE TransportEnds(g, "graceful") \/ TransportEnds(g, "forced")
    <3>1. waiters' \in [Gens -> SUBSET {"transport", "redaction"}]
      BY <2>1 DEF TransportEnds
    <3>2. canceled' \in [Gens -> BOOLEAN] /\ resources' \in [Gens -> {"open", "graceful", "forced"}]
      BY <2>1 DEF TransportEnds, DoRetire
    <3> QED BY <2>1, <3>1, <3>2 DEF TransportEnds, requestVars, operationVars
  <2>2. CASE RedactionEnds(g, "dropped") \/ RedactionEnds(g, "tombstone")
    BY <2>2 DEF RedactionEnds, requestVars, operationVars
  <2> QED BY <1>3, <2>1, <2>2 DEF WaiterStep, TransportDrains, TransportTimesOut,
                                  RedactionDrains, RedactionTimesOut
<1>4. CASE ReloadStep
  <2>1. CASE RegisterRedaction
    BY <2>1 DEF RegisterRedaction, requestVars, operationVars
  <2>2. CASE StoreHandlers
    BY <2>2, LastGenAssumption DEF StoreHandlers, RetireOrder, Gens, retireVars, requestVars, operationVars
  <2>3. CASE StoreRetiring
    BY <2>3 DEF StoreRetiring, requestVars, operationVars
  <2>4. CASE RetireNow
    BY <2>4 DEF RetireNow, DoRetire, requestVars, operationVars
  <2>5. CASE RetireLater
    BY <2>5 DEF RetireLater, requestVars, operationVars
  <2> QED BY <1>4, <2>1, <2>2, <2>3, <2>4, <2>5 DEF ReloadStep
<1>5. CASE ShutdownStep
  BY <1>5 DEF ShutdownStep, Stop, ShutdownAll, CancelLive, WaitDrained, WaitTimesOut, Stopped,
              retireVars, requestVars, operationVars
<1> QED BY <1>1, <1>2, <1>3, <1>4, <1>5 DEF Next

(* Every step keeps the count. *)
LEMMA CountStep ==
  ASSUME GenerationInv, Next
  PROVE  InflightCounts'
<1>1. ASSUME UNCHANGED <<pc, at, opc, opAt, inflight>> PROVE InflightCounts'
  BY <1>1 DEF GenerationInv, InflightCounts, Holders
<1>2. ASSUME ReloadStep \/ ShutdownStep \/ \E g \in Gens : WaiterStep(g)
      PROVE  UNCHANGED <<pc, at, opc, opAt, inflight>>
  BY <1>2 DEF ReloadStep, RegisterRedaction, StoreHandlers, StoreRetiring, RetireNow, RetireLater,
              ShutdownStep, Stop, ShutdownAll, CancelLive, WaitDrained, WaitTimesOut, Stopped,
              WaiterStep, TransportDrains, TransportTimesOut, TransportEnds,
              RedactionDrains, RedactionTimesOut, RedactionEnds, requestVars, operationVars
<1> QED BY <1>1, <1>2, RequestCounts, OperationCounts DEF GenerationInv, Next

-----------------------------------------------------------------------------
(* Requests and operations move no generation along its retirement. *)
LEMMA TasksKeepOrder ==
  ASSUME GenerationInv, NEW s \in Slots, RequestStep(s) \/ OperationStep(s)
  PROVE  /\ UNCHANGED <<live, retiring, resources, secrets, waiters, canceled, reload, phase>>
         /\ \A t \in Slots : at'[t] <= live /\ opAt'[t] <= live
<1> USE DEF GenerationInv, TypeOK, RetireOrder, Gens, requestVars, operationVars, retireVars
<1>1. CASE Load(s)
  BY <1>1, LastGenAssumption DEF Load
<1>2. CASE Count(s) \/ EnterOrBackOut(s) \/ Finish(s) \/ SignalRequest(s)
  BY <1>2 DEF Count, EnterOrBackOut, Finish, SignalRequest
<1>3. CASE LeaveRequest(s) \/ LeaveOperation(s)
  BY <1>3 DEF LeaveRequest, LeaveOperation
<1>4. CASE Lease(s)
  BY <1>4 DEF Lease
<1>5. CASE AdmitBackground(s) \/ Complete(s) \/ SignalOperation(s)
  BY <1>5 DEF AdmitBackground, Complete, SignalOperation
<1> QED BY <1>1, <1>2, <1>3, <1>4, <1>5 DEF RequestStep, OperationStep

LEMMA RetireOrderStep ==
  ASSUME GenerationInv, Next
  PROVE  RetireOrder'
<1> USE DEF GenerationInv, RetireOrder
<1>0. /\ live \in Gens /\ Gens = 1..LastGen /\ LastGen \in Nat
      /\ live \in Int /\ \A s \in Slots : at[s] \in Int /\ opAt[s] \in Int
  BY LastGenAssumption DEF TypeOK, Gens
<1>1. ASSUME NEW s \in Slots, RequestStep(s) \/ OperationStep(s) PROVE RetireOrder'
  BY <1>1, TasksKeepOrder
<1>2. ASSUME NEW g \in Gens, WaiterStep(g) PROVE RetireOrder'
  <2>1. /\ retiring[g] /\ UNCHANGED <<live, retiring, reload, at, opAt>>
        /\ \A h \in Gens \ {g} : waiters'[h] = waiters[h] /\ resources'[h] = resources[h]
                                  /\ secrets'[h] = secrets[h]
    BY <1>2 DEF WaiterStep, TransportDrains, TransportTimesOut, TransportEnds, DoRetire,
                RedactionDrains, RedactionTimesOut, RedactionEnds, requestVars, operationVars, TypeOK
  <2>2. secrets'[g] \in {secrets[g], "dropped", "tombstone"}
    BY <1>2 DEF WaiterStep, TransportDrains, TransportTimesOut, TransportEnds, DoRetire,
                RedactionDrains, RedactionTimesOut, RedactionEnds, TypeOK
  <2>3. reload = "registered" => live + 1 \in Gens
    BY <1>0
  <2> QED BY <1>0, <2>1, <2>2, <2>3
<1>3. CASE RegisterRedaction
  BY <1>0, <1>3 DEF RegisterRedaction, TypeOK, requestVars, operationVars
<1>4. CASE StoreHandlers
  BY <1>0, <1>4 DEF StoreHandlers, requestVars, operationVars, retireVars
<1>5. CASE StoreRetiring
  BY <1>0, <1>5 DEF StoreRetiring, TypeOK, requestVars, operationVars
<1>6. CASE RetireNow
  BY <1>0, <1>6 DEF RetireNow, DoRetire, TypeOK, requestVars, operationVars
<1>7. CASE RetireLater
  BY <1>0, <1>7 DEF RetireLater, TypeOK, requestVars, operationVars
<1>8. CASE ShutdownStep
  BY <1>8 DEF ShutdownStep, Stop, ShutdownAll, CancelLive, WaitDrained, WaitTimesOut, Stopped,
              retireVars, requestVars, operationVars
<1> QED BY <1>1, <1>2, <1>3, <1>4, <1>5, <1>6, <1>7, <1>8 DEF Next, ReloadStep

(* No task enters Group.Acquire, or the wait group from outside it, once   *)
(* the process is stopping.                                                *)
LEMMA TasksLeaveOnly ==
  ASSUME GenerationInv, NEW s \in Slots, RequestStep(s) \/ OperationStep(s), phase # "up"
  PROVE  \A g \in Gens : /\ LockFree(g) => LockFree(g)'
                         /\ LockFree(g) /\ Leased(g) = {} => Leased(g)' = {}
<1> USE DEF GenerationInv, TypeOK, LockFree, Leased, InAcquire, InWaitGroup
<1>1. CASE RequestStep(s)
  <2>1. UNCHANGED <<opc, opAt>>
    BY <1>1 DEF RequestStep, Load, Count, EnterOrBackOut, Finish, LeaveRequest, SignalRequest, operationVars
  <2> QED BY <2>1
<1>2. CASE Lease(s)
  BY <1>2 DEF Lease, MayLease
<1>3. CASE AdmitBackground(s) \/ Complete(s) \/ SignalOperation(s)
  BY <1>3 DEF AdmitBackground, Complete, SignalOperation
<1>4. CASE LeaveOperation(s)
  <2>1. opAt' = opAt
    BY <1>4 DEF LeaveOperation
  <2> QED BY <1>4, <2>1, OperationLeaves
<1> QED BY <1>1, <1>2, <1>3, <1>4 DEF OperationStep

LEMMA ShutdownOrderStep ==
  ASSUME GenerationInv, Next
  PROVE  ShutdownOrder' /\ QuietIsQuiet'
<1> USE DEF GenerationInv, ShutdownOrder, QuietIsQuiet
<1>0. live \in Gens
  BY DEF TypeOK
<1>1. ASSUME NEW s \in Slots, RequestStep(s) \/ OperationStep(s) PROVE ShutdownOrder' /\ QuietIsQuiet'
  <2>1. UNCHANGED <<live, reload, phase>>
    BY <1>1, TasksKeepOrder
  <2>2. \A g \in Gens : g = live => LockFree(live)' = LockFree(g)' /\ Leased(live)' = Leased(g)'
    BY <2>1 DEF LockFree, Leased
  <2>3. phase # "up" => /\ LockFree(live) => LockFree(live)'
                        /\ LockFree(live) /\ Leased(live) = {} => Leased(live)' = {}
    BY <1>0, <1>1, <2>2, TasksLeaveOnly
  <2> QED BY <2>1, <2>3
<1>2. CASE ReloadStep \/ ShutdownStep \/ \E g \in Gens : WaiterStep(g)
  <2>1. UNCHANGED <<opc, opAt>>
    BY <1>2 DEF ReloadStep, RegisterRedaction, StoreHandlers, StoreRetiring, RetireNow, RetireLater,
              ShutdownStep, Stop, ShutdownAll, CancelLive, WaitDrained, WaitTimesOut, Stopped,
              WaiterStep, TransportDrains, TransportTimesOut, TransportEnds,
              RedactionDrains, RedactionTimesOut, RedactionEnds, operationVars
  <2>2. CASE \E g \in Gens : WaiterStep(g)
    BY <2>1, <2>2 DEF WaiterStep, TransportDrains, TransportTimesOut, TransportEnds,
              RedactionDrains, RedactionTimesOut, RedactionEnds, LockFree, Leased
  <2>3. CASE ReloadStep
    BY <2>1, <2>3 DEF ReloadStep, RegisterRedaction, StoreHandlers, StoreRetiring, RetireNow,
              RetireLater, LockFree, Leased
  <2>4. CASE ShutdownStep
    BY <2>1, <2>4 DEF ShutdownStep, Stop, ShutdownAll, CancelLive, WaitDrained, WaitTimesOut,
              Stopped, LockFree, Leased
  <2> QED BY <1>2, <2>2, <2>3, <2>4
<1> QED BY <1>1, <1>2 DEF Next

-----------------------------------------------------------------------------
(* The second look of acquireGen and admitBackground: a task that begins   *)
(* to execute found its generation not retiring, and nothing has been      *)
(* taken from a generation that is not retiring.                           *)
LEMMA EntersStep ==
  ASSUME GenerationInv, Next, NEW g \in Gens, Users(g)' \ Users(g) # {}
  PROVE  resources[g] = "open" /\ Masked(g)
<1> USE DEF GenerationInv
<1>1. \/ \E s \in Slots : at'[s] = g /\ pc'[s] = "using" /\ ~(at[s] = g /\ pc[s] = "using")
      \/ \E s \in Slots : opAt'[s] = g /\ opc'[s] = "running" /\ ~(opAt[s] = g /\ opc[s] = "running")
  BY DEF Users
<1>2. ~retiring[g] /\ g <= live
  <2>1. CASE \E s \in Slots : RequestStep(s)
    <3>1. PICK s \in Slots : RequestStep(s)
      BY <2>1
    <3>2. UNCHANGED <<opc, opAt>>
      BY <3>1 DEF RequestStep, Load, Count, EnterOrBackOut, Finish, LeaveRequest, SignalRequest, operationVars
    <3>3. PICK t \in Slots : at'[t] = g /\ pc'[t] = "using" /\ ~(at[t] = g /\ pc[t] = "using")
      BY <1>1, <3>2
    <3>4. t = s /\ EnterOrBackOut(s)
      <4>1. CASE LeaveRequest(s)
        BY <3>3, <4>1, RequestLeaves DEF LeaveRequest, TypeOK
      <4>2. CASE Load(s) \/ Count(s) \/ EnterOrBackOut(s) \/ Finish(s) \/ SignalRequest(s)
        BY <3>3, <4>2 DEF Load, Count, EnterOrBackOut, Finish, SignalRequest, AfterRelease, TypeOK
      <4> QED BY <3>1, <4>1, <4>2 DEF RequestStep
    <3> QED BY <3>3, <3>4 DEF EnterOrBackOut, RetireOrder, TypeOK
  <2>2. CASE \E s \in Slots : OperationStep(s)
    <3>1. PICK s \in Slots : OperationStep(s)
      BY <2>2
    <3>2. UNCHANGED <<pc, at>>
      BY <3>1 DEF OperationStep, Lease, AdmitBackground, Complete, LeaveOperation, SignalOperation, requestVars
    <3>3. PICK t \in Slots : opAt'[t] = g /\ opc'[t] = "running" /\ ~(opAt[t] = g /\ opc[t] = "running")
      BY <1>1, <3>2
    <3>4. t = s /\ AdmitBackground(s)
      <4>1. CASE LeaveOperation(s)
        BY <3>3, <4>1, OperationLeaves DEF LeaveOperation, TypeOK
      <4>2. CASE Lease(s) \/ AdmitBackground(s) \/ Complete(s) \/ SignalOperation(s)
        BY <3>3, <4>2 DEF Lease, AdmitBackground, Complete, SignalOperation, TypeOK
      <4> QED BY <3>1, <4>1, <4>2 DEF OperationStep
    <3> QED BY <3>3, <3>4 DEF AdmitBackground, RetireOrder, TypeOK
  <2>3. CASE ReloadStep \/ ShutdownStep \/ \E h \in Gens : WaiterStep(h)
    <3>1. UNCHANGED <<pc, at, opc, opAt>>
      BY <2>3 DEF ReloadStep, RegisterRedaction, StoreHandlers, StoreRetiring, RetireNow, RetireLater,
              ShutdownStep, Stop, ShutdownAll, CancelLive, WaitDrained, WaitTimesOut, Stopped,
              WaiterStep, TransportDrains, TransportTimesOut, TransportEnds,
              RedactionDrains, RedactionTimesOut, RedactionEnds, requestVars, operationVars
    <3> QED BY <1>1, <3>1
  <2> QED BY <2>1, <2>2, <2>3 DEF Next
<1> QED BY <1>2 DEF RetireOrder, Masked, TypeOK

(* The shortcut of retireGen: a count of zero means that nobody executes. *)
LEMMA IdleHasNoUsers ==
  ASSUME GenerationInv, NEW g \in Gens, IsIdle(g)
  PROVE  Users(g) = {}
<1>1. Cardinality(Holders(g)) = 0 /\ IsFiniteSet(Holders(g))
  BY HoldersMember, HoldersFinite DEF GenerationInv, InflightCounts, IsIdle
<1>2. Holders(g) = {}
  BY <1>1, FS_EmptySet
<1> QED BY <1>2 DEF Users, Holders, RequestCounted, OperationCounted

LEMMA TakenStep ==
  ASSUME GenerationInv, Next
  PROVE  TakenOnlyOnSignal'
<1> SUFFICES ASSUME NEW g \in Gens, Users(g)' # {}
             PROVE  /\ resources'[g] = "graceful" => drained'[g]
                    /\ ~Masked(g)' => drained'[g]
  BY DEF TakenOnlyOnSignal
<1> USE DEF Masked
<1>1. Users(g) # {} => (resources[g] = "graceful" \/ ~Masked(g) => drained[g])
  BY DEF GenerationInv, TakenOnlyOnSignal
<1>2. ASSUME NEW s \in Slots, RequestStep(s) \/ OperationStep(s)
      PROVE  /\ resources'[g] = "graceful" => drained'[g]
             /\ ~Masked(g)' => drained'[g]
  <2>1. UNCHANGED <<resources, secrets>>
    BY <1>2, TasksKeepOrder
  <2>2. drained[g] => drained'[g]
    BY <1>2 DEF RequestStep, Load, Count, EnterOrBackOut, Finish, LeaveRequest, SignalRequest, Signal,
                OperationStep, Lease, AdmitBackground, Complete, LeaveOperation, SignalOperation,
                retireVars, GenerationInv, TypeOK
  <2>3. CASE Users(g) # {}
    BY <1>1, <2>1, <2>2, <2>3
  <2>4. CASE Users(g) = {}
    BY <2>1, <2>4, EntersStep
  <2> QED BY <2>3, <2>4
<1>3. CASE ReloadStep \/ ShutdownStep \/ \E h \in Gens : WaiterStep(h)
  <2>1. Users(g)' = Users(g) /\ drained' = drained
    BY <1>3 DEF ReloadStep, RegisterRedaction, StoreHandlers, StoreRetiring, RetireNow, RetireLater,
              ShutdownStep, Stop, ShutdownAll, CancelLive, WaitDrained, WaitTimesOut, Stopped,
              WaiterStep, TransportDrains, TransportTimesOut, TransportEnds,
              RedactionDrains, RedactionTimesOut, RedactionEnds, requestVars, operationVars,
              retireVars, Users
  <2>2. CASE \E h \in Gens : WaiterStep(h)
    BY <1>1, <2>1, <2>2 DEF WaiterStep, TransportDrains, TransportTimesOut, TransportEnds, DoRetire,
              RedactionDrains, RedactionTimesOut, RedactionEnds, GenerationInv, TypeOK
  <2>3. CASE RetireNow
    <3>1. g # live - 1
      BY <2>1, <2>3, IdleHasNoUsers DEF RetireNow
    <3> QED BY <1>1, <2>1, <2>3, <3>1 DEF RetireNow, DoRetire, GenerationInv, TypeOK
  <2>4. CASE RegisterRedaction
    BY <1>1, <2>1, <2>4 DEF RegisterRedaction, GenerationInv, TypeOK
  <2>5. CASE StoreHandlers \/ StoreRetiring \/ RetireLater \/ ShutdownStep
    <3>1. UNCHANGED <<resources, secrets>>
      BY <2>5 DEF StoreHandlers, StoreRetiring, RetireLater, ShutdownStep, Stop, ShutdownAll,
              CancelLive, WaitDrained, WaitTimesOut, Stopped, retireVars
    <3> QED BY <1>1, <2>1, <3>1
  <2> QED BY <1>3, <2>2, <2>3, <2>4, <2>5 DEF ReloadStep
<1> QED BY <1>2, <1>3 DEF Next

(* The hand-over of the drain signal: whoever brings the count of a        *)
(* retiring generation to zero is on its way to signal it.                 *)
LEMMA DrainStep ==
  ASSUME GenerationInv, Next
  PROVE  DrainNotLost'
<1> SUFFICES ASSUME NEW g \in Gens, waiters'[g] # {}, inflight'[g] = 0
             PROVE  drained'[g] \/ Checkers(g)' # {}
  BY DEF DrainNotLost
<1> USE DEF GenerationInv, TypeOK
<1>1. waiters[g] # {} => retiring[g] /\ (inflight[g] = 0 => drained[g] \/ Checkers(g) # {})
  BY DEF RetireOrder, DrainNotLost
<1>2. ASSUME NEW s \in Slots, RequestStep(s) \/ OperationStep(s)
      PROVE  drained'[g] \/ Checkers(g)' # {}
  <2>0. waiters[g] # {}
    BY <1>2, TasksKeepOrder
  <2>1. CASE Load(s) \/ Count(s) \/ EnterOrBackOut(s) \/ Finish(s)
    <3>1. Checkers(g)' = Checkers(g) /\ inflight[g] = 0 /\ drained' = drained
      BY <2>1 DEF Load, Count, EnterOrBackOut, Finish, Checkers, operationVars, retireVars
    <3> QED BY <1>1, <2>0, <3>1
  <2>2. CASE Lease(s) \/ AdmitBackground(s) \/ Complete(s)
    <3>1. Checkers(g)' = Checkers(g) /\ inflight[g] = 0 /\ drained' = drained
      BY <2>2 DEF Lease, AdmitBackground, Complete, Checkers, requestVars, retireVars
    <3> QED BY <1>1, <2>0, <3>1
  <2>3. CASE LeaveRequest(s)
    <3>1. /\ drained' = drained /\ UNCHANGED <<at, opc, opAt>>
          /\ inflight' = [inflight EXCEPT ![at[s]] = @ - 1]
          /\ pc[s] \notin {"checking", "backOutCheck"}
      BY <2>3 DEF LeaveRequest, Decremented, retireVars, operationVars
    <3>2. Checkers(g) \subseteq Checkers(g)'
      BY <2>3, <3>1, RequestLeaves DEF Checkers
    <3>3. CASE at[s] = g
      <4>1. inflight[g] = 1
        BY <3>1, <3>3
      <4>2. s \in Checkers(g)'
        BY <2>3, <3>1, <3>3, <4>1, RequestLeaves DEF Checkers
      <4> QED BY <4>2
    <3>4. CASE at[s] # g
      BY <1>1, <2>0, <3>1, <3>2, <3>4
    <3> QED BY <3>3, <3>4
  <2>4. CASE LeaveOperation(s)
    <3>1. /\ drained' = drained /\ UNCHANGED <<at, pc, opAt>>
          /\ inflight' = [inflight EXCEPT ![opAt[s]] = @ - 1]
          /\ opc[s] \notin {"checking", "refusedCheck"}
      BY <2>4 DEF LeaveOperation, Decremented, retireVars, requestVars
    <3>2. Checkers(g) \subseteq Checkers(g)'
      BY <2>4, <3>1, OperationLeaves DEF Checkers
    <3>3. CASE opAt[s] = g
      <4>1. inflight[g] = 1
        BY <3>1, <3>3
      <4>2. s \in Checkers(g)'
        BY <2>4, <3>1, <3>3, <4>1, OperationLeaves DEF Checkers
      <4> QED BY <4>2
    <3>4. CASE opAt[s] # g
      BY <1>1, <2>0, <3>1, <3>2, <3>4
    <3> QED BY <3>3, <3>4
  <2>5. CASE SignalRequest(s)
    <3>1. CASE at[s] = g
      BY <1>1, <2>0, <2>5, <3>1 DEF SignalRequest, Signal
    <3>2. CASE at[s] # g
      <4>1. Checkers(g)' = Checkers(g) /\ inflight' = inflight /\ drained'[g] = drained[g]
        BY <2>5, <3>2 DEF SignalRequest, Signal, Checkers, operationVars
      <4> QED BY <1>1, <2>0, <4>1
    <3> QED BY <3>1, <3>2
  <2>6. CASE SignalOperation(s)
    <3>1. CASE opAt[s] = g
      BY <1>1, <2>0, <2>6, <3>1 DEF SignalOperation, Signal
    <3>2. CASE opAt[s] # g
      <4>1. Checkers(g)' = Checkers(g) /\ inflight' = inflight /\ drained'[g] = drained[g]
        BY <2>6, <3>2 DEF SignalOperation, Signal, Checkers, requestVars
      <4> QED BY <1>1, <2>0, <4>1
    <3> QED BY <3>1, <3>2
  <2> QED BY <1>2, <2>1, <2>2, <2>3, <2>4, <2>5, <2>6 DEF RequestStep, OperationStep
<1>3. CASE ReloadStep \/ ShutdownStep \/ \E h \in Gens : WaiterStep(h)
  <2>1. Checkers(g)' = Checkers(g) /\ drained' = drained /\ inflight' = inflight
    BY <1>3 DEF ReloadStep, RegisterRedaction, StoreHandlers, StoreRetiring, RetireNow, RetireLater,
              ShutdownStep, Stop, ShutdownAll, CancelLive, WaitDrained, WaitTimesOut, Stopped,
              WaiterStep, TransportDrains, TransportTimesOut, TransportEnds,
              RedactionDrains, RedactionTimesOut, RedactionEnds, requestVars, operationVars,
              retireVars, Checkers
  <2>2. waiters[g] # {}
    BY <1>3, <2>1 DEF ReloadStep, RegisterRedaction, StoreHandlers, StoreRetiring, RetireNow,
              RetireLater, IsIdle, ShutdownStep, Stop, ShutdownAll, CancelLive, WaitDrained,
              WaitTimesOut, Stopped, WaiterStep, TransportDrains, TransportTimesOut, TransportEnds,
              RedactionDrains, RedactionTimesOut, RedactionEnds, retireVars
  <2> QED BY <1>1, <2>1, <2>2
<1> QED BY <1>2, <1>3 DEF Next

-----------------------------------------------------------------------------
LEMMA GenerationStepInv == GenerationInv /\ [Next]_vars => GenerationInv'
<1> SUFFICES ASSUME GenerationInv, [Next]_vars PROVE GenerationInv'
  OBVIOUS
<1>1. CASE Next
  BY <1>1, TypeStep, CountStep, RetireOrderStep, ShutdownOrderStep, TakenStep, DrainStep DEF GenerationInv
<1>2. CASE UNCHANGED vars
  BY <1>2 DEF vars, retireVars, requestVars, operationVars, GenerationInv, TypeOK, InflightCounts,
              RetireOrder, ShutdownOrder, TakenOnlyOnSignal, DrainNotLost, QuietIsQuiet, Holders,
              Users, Checkers, Masked, LockFree, Leased
<1> QED BY <1>1, <1>2

(* The inductive invariant of the retirement protocol (server.go, group.go)  *)
(* holds for every number of request slots and of generations.             *)
THEOREM GenerationInvariant == Spec => []GenerationInv
<1> QED BY GenerationInitInv, GenerationStepInv, PTL DEF Spec

(* handlerGen.inflight is exactly the number of tasks between the increment  *)
(* of acquireGen or admitBackground and the decrement of release.          *)
THEOREM GenerationCounts == Spec => []InflightCounts
<1>1. GenerationInv => InflightCounts
  BY DEF GenerationInv
<1> QED BY <1>1, GenerationInvariant, PTL

(* retireGen takes resources or secrets from a task that executes only on  *)
(* the drain signal, or resources at the end of the grace period.          *)
THEOREM GenerationTaken == Spec => []TakenOnlyOnSignal
<1>1. GenerationInv => TakenOnlyOnSignal
  BY DEF GenerationInv
<1> QED BY <1>1, GenerationInvariant, PTL

(* The drain signal that the goroutines of retireGen wait for is never     *)
(* lost.                                                                   *)
THEOREM GenerationDrain == Spec => []DrainNotLost
<1>1. GenerationInv => DrainNotLost
  BY DEF GenerationInv
<1> QED BY <1>1, GenerationInvariant, PTL

(* A group that Group.Wait reported drained to shutdown stays drained.     *)
THEOREM GenerationQuiet == Spec => []QuietIsQuiet
<1>1. GenerationInv => QuietIsQuiet
  BY DEF GenerationInv
<1> QED BY <1>1, GenerationInvariant, PTL

(* Nobody starts to execute in a generation whose resources are closed or  *)
(* whose secrets are unmasked (acquireGen, admitBackground).               *)
THEOREM GenerationEnters == Spec => EntersOpen
<1> DEFINE Enters == \A g \in Gens : Users(g)' \ Users(g) # {} => resources[g] = "open" /\ Masked(g)
<1>1. GenerationInv /\ [Next]_vars => [Enters]_vars
  BY EntersStep
<1> QED BY <1>1, GenerationInvariant, PTL DEF Spec, EntersOpen
=============================================================================
