----------------------------- MODULE ApplyProofs -----------------------------
(***************************************************************************)
(* Managed configuration writes for every set of contents and any number   *)
(* of requests, external edits, failed writes and crashes.                 *)
(*                                                                         *)
(* Each invariant builds on the one before: Sound on the places of the     *)
(* processes, the gate and the markers, Kept on who wrote what, Noted on   *)
(* the assessments still to come, Safe on what a restart would find.       *)
(***************************************************************************)
EXTENDS Apply, TLAPS

(* A request that was admitted and has not written or submitted yet.       *)
Admittance == {"sidecar", "prepare", "verify", "begin", "write", "promote", "confirm", "complete"}

(* Where the holder of applyMu can be, and what it carries.                *)
OpShape ==
    /\ op.kind = "none"    => op = Idle
    /\ op.kind = "hot"     => op.pc \in {"refresh", "read", "assess", "admit", "verify", "begin", "write",
                                         "submit", "wait"}
    /\ op.kind = "stage"   => op.pc \in {"refresh", "read", "assess", "admit", "wait"} \union Admittance
    /\ op.kind = "adopt"   => op.pc \in {"fence", "commit", "keep", "keepagain", "recheck", "adopted"}
    /\ op.kind = "discard" => op.pc \in {"refresh", "read", "assess", "admit", "discard", "revert",
                                         "unmark", "unback", "commit", "keep"}
    /\ op.kind = "status"  => op.pc \in {"refresh", "read", "assess"}
    /\ op.kind = "assess"  => op.pc \in {"read", "assess"}
    /\ op.kind = "retry"   => op.pc = "held"
    /\ op.kind = "boot"    => op.pc = "recover"
    /\ op.kind \in {"hot", "stage"} => op.data \in Candidates
    /\ op.kind \in {"hot", "stage", "adopt", "discard", "status"} => op.base \in Contents

(* The same for the finalizer and for the drain.                           *)
FinShape ==
    /\ fin.kind = "none"  => fin = NoFin
    /\ fin.kind = "hot"   => fin.pc \in {"reload", "check", "restore", "outcome", "rewind", "snapshot", "mark",
                                         "retry", "read", "settle", "clear"}
    /\ fin.kind = "stage" => fin.pc \in {"snapshot", "mark", "retry", "read", "settle", "clear"}
    /\ fin.kind # "none"  => fin.base \in Contents /\ fin.data \in Candidates
    /\ drain.pc = "idle"  => drain = NoDrain

(* Who closed the gate, and who may work while it is closed.               *)
Gate ==
    /\ inflight => op.pc = "submit" \/ fin.kind = "hot"
    /\ op.pc = "submit" => inflight
    /\ fin.kind = "hot" => inflight
    /\ fin.kind = "stage" => op.kind = "stage" /\ op.pc = "wait"
    /\ op.pc \in Admittance \union {"submit"} => fin = NoFin
    /\ op.pc \in Admittance => ~inflight
    /\ op.kind = "stage" /\ op.pc = "wait" => ~inflight
    /\ op.kind = "boot" => fin = NoFin /\ ~inflight

(* The status is about the marker there is, and without a marker nothing   *)
(* is admitted.                                                            *)
Baseline ==
    /\ marker # None /\ marker.st = "preparing" => marker.prior \in Contents
    /\ op.kind # "boot" /\ marker # None => status.base \in Contents
    /\ op.kind # "boot" /\ marker # None /\ marker.st = "current" => marker.cur = status.base
    /\ marker = None => /\ status.state \in {"unadopted", "inconsistent"}
                        /\ fin = NoFin
                        /\ op.pc \notin Admittance \union {"submit", "keep", "keepagain", "recheck", "adopted"}

(* What a request knows of the planned restart once it has refreshed it,   *)
(* and what a stage will put back when it aborts.                          *)
Sidecars ==
    /\ BackupIsBase
    /\ op.pc \in {"read", "assess", "admit"} /\ op.kind # "assess" =>
           (pend <=> plan # None) /\ (plan # None => plan.st = "staged")
    /\ op.pc \in {"sidecar", "prepare"} /\ plan # None => plan.st = "staged"
    /\ op.pc = "prepare" => op.prev = plan /\ (plan = None => bak = op.base)
    /\ op.kind = "stage" /\ op.pc \in {"verify", "begin"} /\ op.prev # None => bak = op.prev.base
    /\ op.kind = "stage" /\ op.pc \in {"verify", "begin", "write", "promote"} => plan # None
    /\ op.pc = "unback" => plan = None

(* The type invariant by kind of variable.                                 *)
DiskOK ==
    /\ file \in Contents /\ live \in Contents
    /\ marker \in Markers \union {None} /\ snap \in Contents \union {None}
    /\ plan \in Plans \union {None} /\ bak \in Contents \union {None}
    /\ mine \in SUBSET Contents

StatusOK == status \in Statuses

FlagsOK ==
    /\ pend \in BOOLEAN /\ bad \in BOOLEAN /\ inflight \in BOOLEAN /\ deferred \in BOOLEAN
    /\ watch \in BOOLEAN /\ late \in BOOLEAN /\ outdated \in BOOLEAN /\ torn \in BOOLEAN

OpOK == op \in Ops

FinOK == fin \in Fins /\ drain \in Drains

UsedOK == used \in [ops : Nat, edits : Nat, faults : Nat, crashes : Nat]

Sound == TypeOK /\ OpShape /\ FinShape /\ Gate /\ Baseline /\ Sidecars

(* Every candidate that is somewhere was written by Jul; only candidates     *)
(* are staged.                                                               *)
Ours(c) == c \in Candidates => c \in mine

Staged(p) == p # None => p.staged \in Candidates /\ p.prev \in Candidates \union {None}

Known ==
    /\ Ours(file) /\ Ours(op.base) /\ Ours(fin.base) /\ Ours(bak)
    /\ fin.kind # "none" => fin.data \in mine
    /\ op.pc \in {"submit", "promote", "confirm", "complete"} => op.data \in mine
    /\ Staged(plan) /\ Staged(op.prev)

(* Until somebody edits the file, it is what the step before the write saw.  *)
Guarded ==
    /\ op.kind = "hot" /\ op.pc \in Admittance \union {"submit"} => plan = None
    /\ inflight => plan = None
    /\ op.pc \in {"begin", "write"} /\ ~late => file = op.base
    /\ fin.pc = "restore" /\ ~late => file = fin.data
    /\ op.pc = "revert" => IsUpdate /\ (~late => file = plan.staged)

Kept == Sound /\ Known /\ Guarded

(* The status agrees with the file, or an assessment is on its way that will *)
(* make it agree.                                                            *)
Right == status.state \in {"clean", "drift", "ahead"} => (status.state = "drift" <=> file # status.base)

Coming ==
    \/ watch \/ deferred \/ drain.pc \in {"read", "assess"}
    \/ op.pc = "read" \/ fin.pc = "read"
    \/ op.pc = "assess" /\ op.seen = file
    \/ fin.pc = "settle" /\ fin.seen = file
    \/ op.kind = "adopt" /\ op.pc \in {"keep", "keepagain", "recheck"} /\ status = Clean(op.base)

(* What was read before the file changed again will be followed by an event  *)
(* that nobody has taken; and nobody takes it in the middle of a retry.      *)
Heard ==
    /\ op.pc = "assess" => op.seen = file \/ watch
    /\ fin.pc = "settle" => fin.seen = file \/ watch
    /\ fin.kind = "hot" /\ fin.again => /\ fin.pc \notin {"reload", "check", "restore", "outcome", "rewind"}
                                        /\ fin.pc \in {"snapshot", "mark", "read", "settle"} => op.kind = "retry"
    /\ op.kind = "discard" /\ op.pc \in {"unmark", "unback", "commit", "keep"} => watch
    /\ op.kind = "adopt" /\ op.pc # "fence" => ~inflight
    /\ op.kind = "adopt" /\ op.pc \notin {"fence", "commit"} => status.state \notin {"unadopted", "failed"}

Noted == Sound /\ Heard /\ (outdated \/ Right \/ Coming)

(* Without edits and crashes the file is always one that the two markers     *)
(* know of, but for a discard that is on its way and a rewind that failed.   *)
BaselineMatches ==
    marker # None => file \in (IF marker.st = "current" THEN {marker.cur} ELSE {marker.prior, marker.cur})

PlanMatches ==
    plan # None => file \in (IF plan.st = "staged" THEN {plan.staged} ELSE {plan.base, plan.staged, plan.prev})

Intent(d) == marker # None /\ marker.st = "preparing" /\ marker.cur = d

OnDisk ==
    /\ ~late
    /\ BaselineMatches \/ (status.state = "failed" /\ fin = NoFin)
                       \/ (op.kind = "discard" /\ op.pc \in {"unmark", "unback", "commit"})
    /\ PlanMatches \/ op.pc = "unmark"
    /\ op.pc \in {"unmark", "unback", "commit"} => file = op.base

(* What the steps of a request, and of a finalizer, have put there so far.   *)
OpOnDisk ==
    /\ op.pc \in {"submit", "promote", "confirm", "complete"} => file = op.data
    /\ op.pc \in {"write", "submit", "promote", "confirm", "complete"} => Intent(op.data)
    /\ op.kind = "hot" /\ op.pc \in {"write", "submit"} => marker.prior = op.base
    /\ op.kind = "stage" /\ op.pc \in {"prepare", "verify", "begin", "write"} =>
           file = op.base /\ (op.prev # None => op.prev.st = "staged" /\ file = op.prev.staged)
    /\ op.kind = "stage" /\ op.pc \in {"verify", "begin", "write", "promote"} =>
           plan # None /\ plan.st = "prepared" /\ plan.staged = op.data

FinOnDisk ==
    /\ fin.pc \in {"reload", "check", "restore", "snapshot", "mark", "retry"} => file = fin.data /\ Intent(fin.data)
    /\ fin.pc \in {"reload", "check", "restore", "outcome", "rewind"} => Intent(fin.data) /\ marker.prior = fin.base
    /\ fin.pc = "outcome" => file \in {fin.data, fin.base}
    /\ fin.pc = "rewind" => file = fin.base
    /\ fin.pc \in {"check", "restore", "outcome", "rewind"} => status.state = "failed"
    /\ fin.pc = "settle" => fin.seen = file

(* Where a stage relies on the status, the status is true of the file.       *)
Truthful ==
    /\ fin.pc = "clear" /\ status.state \in {"clean", "ahead"} => file = status.base
    /\ op.pc = "assess" /\ op.seen # file => status.state \in {"failed", "inconsistent"} \/ status.base = file
    /\ op.kind = "stage" /\ op.pc = "admit" /\ ~inflight /\ status.state \in {"clean", "ahead"} => file = status.base
    /\ op.kind = "stage" /\ op.pc \in {"sidecar", "prepare", "verify", "begin"} /\ status.state # "failed" =>
           file = status.base

Recorded ==
    /\ op.kind = "discard" /\ op.pc \in {"revert", "unmark", "unback", "commit", "keep"} => ~inflight
    /\ marker = None => snap = None
    /\ used.crashes = 0 => op.kind # "boot"

(* No step takes back what was counted or noted.                             *)
Counts ==
    /\ used'.edits >= used.edits /\ used'.crashes >= used.crashes
    /\ (torn => torn') /\ (outdated => outdated')

OnRecord == OnDisk /\ OpOnDisk /\ FinOnDisk /\ Truthful

Steady == Kept /\ Heard /\ Recorded /\ Calm /\ OnRecord

Safe == Kept /\ Noted /\ Recorded /\ (Calm => OnRecord)
-----------------------------------------------------------------------------
(* What a refresh, or a restart, makes of a planned restart p with backup b.  *)
PlanOutcome(p, b, f, r) ==
    /\ r.plan \in Plans \union {None} /\ r.bak \in {b, None} /\ r.pend \in BOOLEAN /\ r.bad \in BOOLEAN
    /\ p = None => r.plan = None
    /\ r.plan # None => /\ p # None /\ r.bak = b /\ r.plan.base = p.base
                        /\ r.plan.staged \in {p.staged, p.prev} /\ r.plan.prev \in {p.prev, None}
    /\ r.bad => r.plan = p
    /\ ~r.bad => (r.pend <=> r.plan # None)
    /\ ~r.bad /\ r.plan # None => r.plan.st = "staged" /\ f = r.plan.staged

LEMMA PlanAfterIs ==
  ASSUME NEW p \in Plans \union {None}, NEW b \in Contents \union {None}, NEW f \in Contents, NEW startup \in BOOLEAN,
         NEW r, r = PlanAfter(p, b, f, startup)
  PROVE  PlanOutcome(p, b, f, r)
<1> USE ApplyAssumption DEF PlanOutcome
<1>0. f # None
  BY DEF Contents
<1>1. CASE p = None
  BY <1>1 DEF PlanAfter
<1>2. CASE p # None /\ p.st = "prepared" /\ f = p.base
  BY <1>2 DEF PlanAfter, Plans
<1>3. CASE p # None /\ p.st = "prepared" /\ f # p.base /\ f = p.staged
  <2>1. r.plan = [p EXCEPT !.st = "staged"] /\ r.bak = b /\ r.pend = TRUE /\ r.bad = FALSE
    BY <1>3 DEF PlanAfter
  <2>2. r.plan \in Plans
    BY <2>1, <1>3 DEF Plans
  <2> QED BY <1>3, <2>1, <2>2 DEF Plans
<1>4. CASE p # None /\ p.st = "prepared" /\ f \notin {p.base, p.staged} /\ f = p.prev
  <2>1. /\ r.plan = [p EXCEPT !.st = "staged", !.staged = p.prev, !.prev = None]
        /\ r.bak = b /\ r.pend = TRUE /\ r.bad = FALSE
    BY <1>4 DEF PlanAfter
  <2>2. r.plan = [st |-> "staged", staged |-> f, base |-> p.base, prev |-> None, serving |-> p.serving]
    BY ZenonT(60), <2>1, <1>4 DEF Plans
  <2>3. r.plan \in Plans
    BY <2>2, <1>4 DEF Plans
  <2> QED BY ZenonT(60), <1>4, <2>1, <2>2, <2>3 DEF Plans
<1>5. CASE p # None /\ p.st = "staged" /\ f = p.staged
  BY <1>5 DEF PlanAfter, Plans
<1>6. CASE /\ p # None
           /\ ~(p.st = "prepared" /\ f \in {p.base, p.staged, p.prev})
           /\ ~(p.st = "staged" /\ f = p.staged)
  <2>1. r = [plan |-> p, bak |-> b, pend |-> FALSE, bad |-> TRUE]
    BY <1>6 DEF PlanAfter
  <2> QED BY <1>6, <2>1 DEF Plans
<1> QED BY <1>1, <1>2, <1>3, <1>4, <1>5, <1>6 DEF Plans

LEMMA ReconciledIs ==
  ASSUME NEW m \in Markers \union {None}, m # None /\ m.st = "preparing" => m.prior \in Contents,
         NEW s \in Contents \union {None}, NEW f \in Contents, NEW r, r = Reconciled(m, s, f)
  PROVE  /\ r.marker \in Markers \union {None} /\ r.snap \in {s, f} /\ r.status \in Statuses
         /\ r.marker = None <=> m = None
         /\ m = None => r.snap = s /\ r.status.state \in {"unadopted", "inconsistent"}
         /\ m # None => r.status.base \in Contents
         /\ m # None /\ m.st = "current" => r.status.base = m.cur
         /\ r.marker # None /\ r.marker.st = "preparing" => r.marker = m
         /\ r.marker # None /\ r.marker.st = "current" => r.marker.cur = r.status.base
         /\ r.status.state \notin {"ahead", "failed"}
         /\ r.status.state \in {"clean", "drift"} => (r.status.state = "drift" <=> f # r.status.base)
<1> USE ApplyAssumption
<1> DEFINE settle(c, state) == [marker |-> Current(c), snap |-> IF f = c THEN c ELSE s,
                                status |-> [state |-> state, base |-> c]]
<1>0. \A c \in Contents : Current(c) \in Markers /\ Current(c) # None
  BY DEF Current, Markers
<1>1. CASE m = None
  BY <1>1 DEF Reconciled, Statuses
<1>2. ASSUME NEW c \in Contents, NEW state \in {"clean", "drift"}, state = "drift" <=> f # c, r = settle(c, state),
             m # None, m.st = "current" => c = m.cur
      PROVE  /\ r.marker \in Markers \union {None} /\ r.snap \in {s, f} /\ r.status \in Statuses
             /\ r.marker # None /\ r.marker.st = "current" /\ r.marker.cur = c /\ r.status.base = c
             /\ r.status.state = state
  BY <1>0, <1>2 DEF Current, Statuses
<1>3. CASE m # None /\ m.st = "current" /\ f = m.cur
  <2>1. r = settle(m.cur, "clean")
    BY <1>3 DEF Reconciled
  <2> QED BY <1>2, <1>3, <2>1 DEF Markers
<1>4. CASE m # None /\ m.st = "current" /\ f # m.cur /\ s = m.cur
  <2>1. r = settle(m.cur, "drift")
    BY <1>4 DEF Reconciled
  <2> QED BY <1>2, <1>4, <2>1 DEF Markers
<1>5. CASE m # None /\ m.st = "preparing" /\ f = m.prior
  <2>1. r = settle(m.prior, "clean")
    BY <1>5 DEF Reconciled
  <2> QED BY <1>2, <1>5, <2>1 DEF Markers
<1>6. CASE m # None /\ m.st = "preparing" /\ f # m.prior /\ f = m.cur
  <2>1. r = settle(m.cur, "clean")
    BY <1>6 DEF Reconciled
  <2> QED BY <1>2, <1>6, <2>1 DEF Markers
<1>7. CASE m # None /\ m.st = "preparing" /\ f \notin {m.prior, m.cur} /\ s = m.cur
  <2>1. r = settle(m.cur, "drift")
    BY <1>7 DEF Reconciled
  <2> QED BY <1>2, <1>7, <2>1 DEF Markers
<1>8. CASE /\ m # None
           /\ m.st = "current" => f # m.cur /\ s # m.cur
           /\ m.st = "preparing" => f \notin {m.prior, m.cur} /\ s # m.cur
  <2>1. r = [marker |-> m, snap |-> s,
             status |-> [state |-> "inconsistent", base |-> IF m.st = "current" THEN m.cur ELSE m.prior]]
    BY <1>8 DEF Reconciled, Markers
  <2> QED BY <1>8, <2>1 DEF Statuses, Markers
<1> QED BY <1>1, <1>3, <1>4, <1>5, <1>6, <1>7, <1>8 DEF Markers


(* The same about the sidecars there are.                                  *)
LEMMA PlanStands ==
  ASSUME TypeOK, NEW startup \in BOOLEAN
  PROVE  PlanOutcome(plan, bak, file, PlanAfter(plan, bak, file, startup))
BY PlanAfterIs DEF TypeOK


LEMMA Apart ==
  None \notin Contents \union Candidates /\ Initial \notin Candidates /\ \A c \in Edits : c \notin Candidates
BY ApplyAssumption DEF Contents


LEMMA MarkersAre ==
  ASSUME NEW p \in Contents \union {None}, NEW c \in Contents
  PROVE  /\ Current(c) # None /\ Current(c).st = "current" /\ Current(c).cur = c
         /\ Preparing(p, c) # None /\ Preparing(p, c).st = "preparing"
         /\ Preparing(p, c).prior = p /\ Preparing(p, c).cur = c
BY ApplyAssumption DEF Current, Preparing, Markers

(* The records the steps make are of their kinds.                          *)
LEMMA OpClosed ==
  ASSUME OpOK
  PROVE  /\ Idle \in Ops
         /\ \A p \in OpPlaces : [op EXCEPT !.pc = p] \in Ops
         /\ \A p \in OpPlaces, c \in Contents : [op EXCEPT !.pc = p, !.seen = c] \in Ops
<1>1. Idle \in Ops
  BY DEF Idle, Ops, OpPlaces
<1>2. ASSUME NEW p \in OpPlaces PROVE [op EXCEPT !.pc = p] \in Ops
  BY DEF OpOK, Ops
<1>3. ASSUME NEW p \in OpPlaces, NEW c \in Contents PROVE [op EXCEPT !.pc = p, !.seen = c] \in Ops
  BY DEF OpOK, Ops
<1> QED BY <1>1, <1>2, <1>3, Zenon

LEMMA OpStarts ==
  /\ [Idle EXCEPT !.kind = "assess", !.pc = "read"] \in Ops
  /\ [Idle EXCEPT !.kind = "retry", !.pc = "held"] \in Ops
  /\ [Idle EXCEPT !.kind = "boot", !.pc = "recover"] \in Ops
BY DEF Ops, OpPlaces, Idle

LEMMA FinClosed ==
  ASSUME FinOK
  PROVE  /\ NoFin \in Fins
         /\ \A p \in FinPlaces : [fin EXCEPT !.pc = p] \in Fins
         /\ \A p \in FinPlaces, c \in Contents : [fin EXCEPT !.pc = p, !.seen = c] \in Fins
         /\ op \in Ops /\ op.kind \in {"hot", "stage"} => \A p \in FinPlaces : Finalizer(p) \in Fins
         /\ NoDrain \in Drains /\ [drain EXCEPT !.pc = "read"] \in Drains
         /\ \A c \in Contents : [pc |-> "assess", seen |-> c] \in Drains
<1>1. NoFin \in Fins
  BY DEF NoFin, Fins, FinPlaces
<1>2. ASSUME NEW p \in FinPlaces PROVE [fin EXCEPT !.pc = p] \in Fins
  BY DEF FinOK, Fins
<1>3. ASSUME NEW p \in FinPlaces, NEW c \in Contents PROVE [fin EXCEPT !.pc = p, !.seen = c] \in Fins
  BY DEF FinOK, Fins
<1>4. ASSUME op \in Ops, op.kind \in {"hot", "stage"}, NEW p \in FinPlaces PROVE Finalizer(p) \in Fins
  BY <1>4 DEF Ops, Fins, Finalizer
<1>5. NoDrain \in Drains /\ [drain EXCEPT !.pc = "read"] \in Drains
  BY DEF FinOK, Drains, NoDrain
<1>6. ASSUME NEW c \in Contents PROVE [pc |-> "assess", seen |-> c] \in Drains
  BY DEF Drains
<1> QED BY <1>1, <1>2, <1>3, <1>4, <1>5, <1>6, Zenon

LEMMA StatusClosed ==
  ASSUME StatusOK
  PROVE  /\ \A seen : /\ Assessed(status, seen) \in Statuses
                      /\ Assessed(status, seen).base = status.base
                      /\ \/ Assessed(status, seen) = status
                         \/ {status.state, Assessed(status, seen).state} \subseteq {"clean", "drift", "ahead"}
         /\ \A s \in {"ahead", "failed", "inconsistent"} :
                Marked(s) \in Statuses /\ Marked(s).state = s /\ Marked(s).base = status.base
         /\ \A c \in Contents : Clean(c) \in Statuses /\ Clean(c).state = "clean" /\ Clean(c).base = c
<1>1. ASSUME NEW seen
      PROVE  /\ Assessed(status, seen) \in Statuses
             /\ Assessed(status, seen).base = status.base
             /\ \/ Assessed(status, seen) = status
                \/ {status.state, Assessed(status, seen).state} \subseteq {"clean", "drift", "ahead"}
  BY DEF StatusOK, Statuses, Assessed, Clean
<1>2. ASSUME NEW s \in {"ahead", "failed", "inconsistent"}
      PROVE  Marked(s) \in Statuses /\ Marked(s).state = s /\ Marked(s).base = status.base
  BY DEF StatusOK, Statuses, Marked
<1>3. ASSUME NEW c \in Contents
      PROVE  Clean(c) \in Statuses /\ Clean(c).state = "clean" /\ Clean(c).base = c
  BY DEF Statuses, Clean
<1> QED BY <1>1, <1>2, <1>3

(* An assessment of what the file holds is right about it.                 *)
LEMMA AssessedRight ==
  ASSUME StatusOK, NEW seen
  PROVE  Assessed(status, seen).state \in {"clean", "drift", "ahead"} =>
             (Assessed(status, seen).state = "drift" <=> seen # Assessed(status, seen).base)
BY DEF StatusOK, Statuses, Assessed, Clean

LEMMA MarkedIs ==
  ASSUME TypeOK, NEW s \in {"ahead", "failed", "inconsistent"}
  PROVE  Marked(s).state = s /\ Marked(s).base = status.base
BY StatusClosed DEF StatusOK, TypeOK

(* What the holder of applyMu, and the finalizer, are after a step that    *)
(* gives them more than a new place.                                       *)
LEMMA PlaceTells ==
  ASSUME Sound
  PROVE  /\ op.pc \in {"sidecar", "prepare", "promote", "confirm", "complete"} => op.kind = "stage"
         /\ op.pc \in {"verify", "begin", "write"} => op.kind \in {"hot", "stage"}
         /\ op.pc \in {"discard", "revert", "unmark", "unback"} => op.kind = "discard"
         /\ op.pc \in {"commit", "keep"} => op.kind \in {"adopt", "discard"}
         /\ op.pc \in {"keepagain", "recheck", "adopted"} => op.kind = "adopt"
         /\ op.pc = "recover" => op.kind = "boot"
         /\ fin.pc # "idle" => fin.kind \in {"hot", "stage"} /\ fin.base \in Contents /\ fin.data \in Contents
         /\ fin.pc \in {"reload", "check", "restore", "outcome", "rewind"} => fin.kind = "hot"
<1>1. op \in Ops /\ fin \in Fins
  BY DEF Sound, TypeOK
<1> QED BY <1>1 DEF Sound, OpShape, FinShape, Ops, OpPlaces, Fins, FinPlaces, Admittance, Idle, NoFin, Contents

Moved(p, b, s, q) ==
    /\ op' \in Ops
    /\ op'.kind = op.kind /\ op'.pc = p /\ op'.base = b /\ op'.data = op.data /\ op'.seen = s /\ op'.prev = q

LEMMA RefreshMoves ==
  ASSUME Sound, Refresh
  PROVE  /\ op.pc = "refresh" /\ op.kind \in {"hot", "stage", "discard", "status"}
         /\ op' = Idle \/ Moved("read", op.base, op.seen, op.prev)
         /\ UNCHANGED <<file, marker, snap, live, status, inflight, deferred, fin, drain, watch, hist>>
<1>1. op.kind \in {"hot", "stage", "discard", "status"}
  BY DEF Refresh, Sound, TypeOK, OpShape, Ops, OpPlaces, Admittance, Idle
<1>2. \/ op' = Idle
      \/ \E e \in BOOLEAN : op' = [op EXCEPT !.pc = "read", !.ext = e]
  BY Zenon DEF Refresh, Release
<1>3. ASSUME NEW e \in BOOLEAN, op' = [op EXCEPT !.pc = "read", !.ext = e]
      PROVE  Moved("read", op.base, op.seen, op.prev)
  BY <1>3 DEF Moved, Sound, TypeOK, Ops, OpPlaces
<1> QED BY <1>1, <1>2, <1>3, Zenon DEF Refresh

LEMMA BackupMoves ==
  ASSUME Sound, Backup
  PROVE  /\ op.pc = "sidecar" /\ op.kind = "stage"
         /\ \/ op' = Idle /\ bak' = bak
            \/ file = op.base /\ bak' = Saved /\ Moved("prepare", op.base, op.seen, plan)
         /\ UNCHANGED <<file, marker, snap, plan, live, mem, fin, drain, watch, hist>>
<1>1. CASE op' = [op EXCEPT !.pc = "prepare", !.prev = plan]
  <2>1. Moved("prepare", op.base, op.seen, plan)
    BY <1>1 DEF Moved, Sound, TypeOK, Ops, OpPlaces
  <2>2. op' # Idle
    BY <1>1 DEF Idle, Sound, TypeOK, Ops, OpPlaces
  <2> QED BY <1>1, <2>1, <2>2 DEF Backup, At, Release
<1> QED BY <1>1 DEF Backup, At, Release

(* Only an apply that found the gate open and the baseline usable goes on, *)
(* and only with a restart pending a discard.                              *)
LEMMA AdmitMoves ==
  ASSUME Sound, Admit
  PROVE  /\ op.pc = "admit"
         /\ \/ op' = Idle
            \/ /\ op.kind = "hot" /\ ~inflight /\ ~Blocked /\ ~pend
               /\ op' = [op EXCEPT !.pc = "verify"]
            \/ op.kind = "stage" /\ ~inflight /\ ~Blocked /\ op' = [op EXCEPT !.pc = "sidecar"]
            \/ op.kind = "discard" /\ pend /\ op' = [op EXCEPT !.pc = "discard"]
<1>1. op.kind \in {"hot", "stage", "discard"}
  BY DEF Admit, Sound, TypeOK, OpShape, Ops, OpPlaces, Admittance, Idle
<1>2. CASE ~Admitted
  BY <1>2 DEF Admit
<1>3. CASE Admitted /\ op.kind = "hot"
  BY <1>3 DEF Admit, Admitted, GateOpen
<1>4. CASE Admitted /\ op.kind = "stage"
  BY <1>4 DEF Admit, Admitted, GateOpen
<1>5. CASE Admitted /\ op.kind = "discard"
  BY <1>5 DEF Admit, Admitted
<1> QED BY <1>1, <1>2, <1>3, <1>4, <1>5

LEMMA SubmitMoves ==
  ASSUME Sound, Submit
  PROVE  /\ op.pc = "submit" /\ op.kind = "hot"
         /\ \/ fin' = Finalizer("reload") /\ op' = Idle /\ status' = status
            \/ fin' = Finalizer("check") /\ op' = [op EXCEPT !.pc = "wait"] /\ status' = Marked("failed")
<1>1. op.kind = "hot"
  BY DEF Submit, Sound, TypeOK, OpShape, Ops, OpPlaces, Admittance, Idle
<1> QED BY <1>1 DEF Submit, Release, Goto

LEMMA DiscardMoves ==
  ASSUME Sound, DiscardCheck
  PROVE  /\ op.pc = "discard" /\ op.kind = "discard"
         /\ \/ op' = Idle /\ late' = late
            \/ /\ IsUpdate /\ file = plan.staged /\ bak \in Contents /\ ~late'
               /\ Moved("revert", bak, op.seen, op.prev)
         /\ UNCHANGED <<disk, mem, live, fin, drain, watch, mine, outdated, torn, used>>
<1>1. op.kind = "discard"
  BY DEF DiscardCheck, Sound, TypeOK, OpShape, Ops, OpPlaces, Admittance, Idle
<1>2. IsUpdate => bak \in Contents
  BY DEF IsUpdate, Sound, TypeOK, Sidecars, BackupIsBase, Plans
<1>3. CASE op' = [op EXCEPT !.pc = "revert", !.base = bak] /\ IsUpdate
  <2>1. Moved("revert", bak, op.seen, op.prev)
    BY <1>2, <1>3 DEF Moved, Sound, TypeOK, Ops, OpPlaces
  <2> QED BY <1>1, <1>2, <1>3, <2>1 DEF DiscardCheck, Release
<1> QED BY <1>1, <1>2, <1>3 DEF DiscardCheck, Release

LEMMA RetryMoves ==
  ASSUME Sound, Retry
  PROVE  /\ fin.pc = "retry" /\ fin.kind \in {"hot", "stage"}
         /\ \/ /\ file = fin.data /\ status' = status
               /\ fin' \in Fins /\ fin'.kind = fin.kind /\ fin'.pc = "snapshot" /\ fin'.base = fin.base
               /\ fin'.data = fin.data /\ fin'.seen = fin.seen /\ fin'.again
               /\ IF fin.kind = "hot" THEN op = Idle /\ op' = [Idle EXCEPT !.kind = "retry", !.pc = "held"]
                                      ELSE op' = op
            \/ /\ file # fin.data /\ op' = op /\ fin' = [fin EXCEPT !.pc = "clear"]
               /\ (status' = status /\ status.base = file) \/ status' = Marked("inconsistent")
         /\ UNCHANGED <<disk, pend, bad, inflight, deferred, live, drain, watch, hist, used>>
<1>1. fin.kind \in {"hot", "stage"}
  BY DEF Retry, FinAt, Sound, TypeOK, FinShape, Fins, FinPlaces, NoFin
<1>2. fin' = [fin EXCEPT !.pc = "snapshot", !.again = TRUE] =>
         /\ fin' \in Fins /\ fin'.kind = fin.kind /\ fin'.pc = "snapshot" /\ fin'.base = fin.base
         /\ fin'.data = fin.data /\ fin'.seen = fin.seen /\ fin'.again
  BY DEF Sound, TypeOK, Fins, FinPlaces
<1> QED BY <1>1, <1>2 DEF Retry, FinAt, FinGoto

(* The type invariant, kind by kind. *)
LEMMA OpOKNext == Sound /\ [Next]_vars => OpOK'
<1> SUFFICES ASSUME Sound, [Next]_vars PROVE OpOK'
  OBVIOUS
<1> USE DEF Sound, OpOK, TypeOK, OpPlaces, disk, mem, hist
<1>1. ASSUME NEW c \in Edits \union {Initial}, Edit(c) PROVE OpOK'
  BY <1>1 DEF Edit
<1>2. ASSUME NEW k \in {"hot", "stage"}, NEW d \in Candidates, Begin(k, d) PROVE OpOK'
  <2>1. d \in Contents
    BY DEF Contents
  <2> QED BY <1>2, <2>1 DEF Begin, Ops
<1>3. ASSUME NEW k \in {"adopt", "discard", "status"}, Begin(k, None) PROVE OpOK'
  BY <1>3 DEF Begin, Ops
<1>4. CASE Refresh
  BY <1>4, RefreshMoves, OpClosed, Zenon DEF Moved
<1>5. CASE ReadFile
  BY <1>5, OpClosed, Zenon DEF ReadFile
<1>6. CASE Assess
  BY <1>6, OpClosed, Zenon DEF Assess
<1>7. CASE Admit
  BY <1>7, AdmitMoves, OpClosed, Zenon
<1>8. CASE Backup
  BY <1>8, BackupMoves, OpClosed, Zenon DEF Moved
<1>9. CASE Prepare
  BY <1>9, OpClosed, Zenon DEF Prepare, Goto, Release
<1>10. CASE Verify
  BY <1>10, OpClosed, Zenon DEF Verify, Goto, Release
<1>11. CASE BeginWrite
  BY <1>11, OpClosed, Zenon DEF BeginWrite, Goto, Release
<1>12. CASE Write
  BY <1>12, OpClosed, Zenon DEF Write, Goto, Release
<1>13. CASE Submit
  BY <1>13, SubmitMoves, OpClosed, Zenon
<1>14. CASE Promote
  BY <1>14, OpClosed, Zenon DEF Promote, Goto, Release
<1>15. CASE Confirm
  BY <1>15, OpClosed, Zenon DEF Confirm, Goto, Release
<1>16. CASE CompleteStage
  BY <1>16, OpClosed, Zenon DEF CompleteStage, Goto
<1>17. CASE Return
  BY <1>17, OpClosed, Zenon DEF Return, Release
<1>18. CASE DiscardCheck
  BY <1>18, DiscardMoves, OpClosed, Zenon DEF Moved
<1>19. CASE Revert
  BY <1>19, OpClosed, Zenon DEF Revert, Goto, Release
<1>20. CASE RemoveMarker
  BY <1>20, OpClosed, Zenon DEF RemoveMarker, Goto
<1>21. CASE RemoveBackup
  BY <1>21, OpClosed, Zenon DEF RemoveBackup, Goto
<1>22. CASE Fence
  BY <1>22, OpClosed, Zenon DEF Fence, Goto, Release
<1>23. CASE Commit
  BY <1>23, OpClosed, Zenon DEF Commit, Goto, Release
<1>24. CASE KeepSnapshot
  BY <1>24, OpClosed, Zenon DEF KeepSnapshot, Goto, Release
<1>25. CASE KeepAgain
  BY <1>25, OpClosed, Zenon DEF KeepAgain, Goto
<1>26. CASE Recheck
  BY <1>26, OpClosed, Zenon DEF Recheck
<1>27. CASE Adopted
  BY <1>27, OpClosed, Zenon DEF Adopted, Release
<1>28. CASE Recover
  BY <1>28, OpClosed, Zenon DEF Recover, Release
<1>29. CASE Rejected
  BY <1>29, OpClosed, Zenon DEF Rejected, Release
<1>30. CASE Noticed
  BY <1>30, OpStarts DEF Noticed
<1>31. CASE Reload
  BY <1>31 DEF Reload, FinAt, FinGoto
<1>32. CASE RestoreCheck
  BY <1>32 DEF RestoreCheck, FinAt, FinGoto
<1>33. CASE Restore
  BY <1>33 DEF Restore, FinAt, FinGoto
<1>34. CASE Outcome
  BY <1>34 DEF Outcome, FinAt, FinGoto, Restored
<1>35. CASE Rewind
  BY <1>35 DEF Rewind, FinAt, FinGoto
<1>36. CASE Snapshot
  BY <1>36, OpClosed, Zenon DEF Snapshot, WriteFailed, GiveUp
<1>37. CASE Mark
  BY <1>37, OpClosed, Zenon DEF Mark, WriteFailed, GiveUp
<1>38. CASE Retry
  BY <1>38, RetryMoves, OpStarts
<1>39. CASE Reread
  BY <1>39 DEF Reread, FinAt
<1>40. CASE Settle
  BY <1>40, OpClosed, Zenon DEF Settle
<1>41. CASE ClearGate
  BY <1>41 DEF ClearGate, FinAt
<1>42. CASE Drain
  BY <1>42 DEF Drain
<1>43. CASE Crash
  BY <1>43, OpStarts DEF Crash
<1>44. CASE UNCHANGED vars
  BY <1>44 DEF vars
<1> QED BY <1>1, <1>2, <1>3, <1>4, <1>5, <1>6, <1>7, <1>8, <1>9, <1>10, <1>11, <1>12, <1>13, <1>14, <1>15, <1>16,
     <1>17, <1>18, <1>19, <1>20, <1>21, <1>22, <1>23, <1>24, <1>25, <1>26, <1>27, <1>28, <1>29, <1>30, <1>31,
     <1>32, <1>33, <1>34, <1>35, <1>36, <1>37, <1>38, <1>39, <1>40, <1>41, <1>42, <1>43, <1>44 DEF Next, OpStep,
     FinStep

LEMMA FinOKNext == Sound /\ [Next]_vars => FinOK'
<1> SUFFICES ASSUME Sound, [Next]_vars PROVE FinOK'
  OBVIOUS
<1> USE FinClosed DEF Sound, FinOK, TypeOK, FinPlaces, disk, mem, hist
<1>1. ASSUME NEW c \in Edits \union {Initial}, Edit(c) PROVE FinOK'
  BY <1>1, Zenon DEF Edit
<1>2. ASSUME NEW k \in {"hot", "stage"}, NEW d \in Candidates, Begin(k, d) PROVE FinOK'
  BY <1>2, Zenon DEF Begin
<1>3. ASSUME NEW k \in {"adopt", "discard", "status"}, Begin(k, None) PROVE FinOK'
  BY <1>3, Zenon DEF Begin
<1>4. CASE Refresh
  BY <1>4, RefreshMoves, Zenon DEF Moved
<1>5. CASE ReadFile
  BY <1>5, Zenon DEF ReadFile
<1>6. CASE Assess
  BY <1>6, Zenon DEF Assess
<1>7. CASE Admit
  BY <1>7, Zenon DEF Admit
<1>8. CASE Backup
  BY <1>8, BackupMoves, Zenon DEF Moved
<1>9. CASE Prepare
  BY <1>9, Zenon DEF Prepare, At, IsUpdate, Goto, Release
<1>10. CASE Verify
  BY <1>10, Zenon DEF Verify, Goto, Release, AbortPrepared
<1>11. CASE BeginWrite
  BY <1>11, Zenon DEF BeginWrite, Goto, Release, AbortPrepared, Preparing
<1>12. CASE Write
  BY <1>12, Zenon DEF Write, Goto, Release, InFlightAfterWrite
<1>13. CASE Submit
  BY <1>13, SubmitMoves, Zenon DEF Submit
<1>14. CASE Promote
  BY <1>14, Zenon DEF Promote, Release, Goto
<1>15. CASE Confirm
  BY <1>15, Zenon DEF Confirm, Release, Goto
<1>16. CASE CompleteStage
  BY <1>16, PlaceTells, Zenon DEF CompleteStage
<1>17. CASE Return
  BY <1>17, Zenon DEF Return, Release
<1>18. CASE DiscardCheck
  BY <1>18, DiscardMoves, Zenon DEF Moved
<1>19. CASE Revert
  BY <1>19, Zenon DEF Revert, Goto, Release
<1>20. CASE RemoveMarker
  BY <1>20, Zenon DEF RemoveMarker, Goto
<1>21. CASE RemoveBackup
  BY <1>21, Zenon DEF RemoveBackup, Goto
<1>22. CASE Fence
  BY <1>22, Zenon DEF Fence, At, Goto, Release
<1>23. CASE Commit
  BY <1>23, Zenon DEF Commit, Goto, Release
<1>24. CASE KeepSnapshot
  BY <1>24, Zenon DEF KeepSnapshot, Goto, Release
<1>25. CASE KeepAgain
  BY <1>25, Zenon DEF KeepAgain, Goto
<1>26. CASE Recheck
  BY <1>26, Zenon DEF Recheck
<1>27. CASE Adopted
  BY <1>27, Zenon DEF Adopted, Release
<1>28. CASE Recover
  BY <1>28, Zenon DEF Recover, Release
<1>29. CASE Rejected
  BY <1>29, Zenon DEF Rejected, At, Release
<1>30. CASE Noticed
  BY <1>30, Zenon DEF Noticed
<1>31. CASE Reload
  BY <1>31, Zenon DEF Reload, FinAt, FinGoto
<1>32. CASE RestoreCheck
  BY <1>32, Zenon DEF RestoreCheck, FinAt, FinGoto
<1>33. CASE Restore
  BY <1>33, Zenon DEF Restore, FinAt, FinGoto
<1>34. CASE Outcome
  BY <1>34, Zenon DEF Outcome, FinAt, FinGoto, Restored
<1>35. CASE Rewind
  BY <1>35, Zenon DEF Rewind, FinAt, FinGoto
<1>36. CASE Snapshot
  BY <1>36, Zenon DEF Snapshot, FinAt, FinGoto, WriteFailed, GiveUp
<1>37. CASE Mark
  BY <1>37, Zenon DEF Mark, FinAt, FinGoto, WriteFailed, GiveUp
<1>38. CASE Retry
  BY <1>38, RetryMoves, Zenon
<1>39. CASE Reread
  BY <1>39, Zenon DEF Reread, FinAt
<1>40. CASE Settle
  BY <1>40, Zenon DEF Settle, FinAt, FinGoto
<1>41. CASE ClearGate
  BY <1>41, Zenon DEF ClearGate, NoDrain, Drains
<1>42. CASE Drain
  BY <1>42, Zenon DEF Drain
<1>43. CASE Crash
  BY <1>43, Zenon DEF Crash
<1>44. CASE UNCHANGED vars
  BY <1>44, Zenon DEF vars
<1> QED BY Zenon, <1>1, <1>2, <1>3, <1>4, <1>5, <1>6, <1>7, <1>8, <1>9, <1>10, <1>11, <1>12, <1>13, <1>14, <1>15, <1>16,
     <1>17, <1>18, <1>19, <1>20, <1>21, <1>22, <1>23, <1>24, <1>25, <1>26, <1>27, <1>28, <1>29, <1>30, <1>31,
     <1>32, <1>33, <1>34, <1>35, <1>36, <1>37, <1>38, <1>39, <1>40, <1>41, <1>42, <1>43, <1>44 DEF Next, OpStep,
     FinStep

LEMMA StatusOKNext == Sound /\ [Next]_vars => StatusOK'
<1> SUFFICES ASSUME Sound, [Next]_vars PROVE StatusOK'
  OBVIOUS
<1> USE StatusClosed DEF Sound, StatusOK, TypeOK, disk, mem, hist
<1>1. ASSUME NEW c \in Edits \union {Initial}, Edit(c) PROVE StatusOK'
  BY <1>1 DEF Edit
<1>2. ASSUME NEW k \in {"hot", "stage"}, NEW d \in Candidates, Begin(k, d) PROVE StatusOK'
  BY <1>2 DEF Begin
<1>3. ASSUME NEW k \in {"adopt", "discard", "status"}, Begin(k, None) PROVE StatusOK'
  BY <1>3 DEF Begin
<1>4. CASE Refresh
  BY <1>4 DEF Refresh, Release
<1>5. CASE ReadFile
  BY <1>5 DEF ReadFile
<1>6. CASE Assess
  BY <1>6 DEF Assess
<1>7. CASE Admit
  BY <1>7 DEF Admit
<1>8. CASE Backup
  BY <1>8 DEF Backup, At, Release
<1>9. CASE Prepare
  BY <1>9 DEF Prepare, At, IsUpdate, Goto, Release
<1>10. CASE Verify
  BY <1>10 DEF Verify, Goto, Release, AbortPrepared
<1>11. CASE BeginWrite
  BY <1>11 DEF BeginWrite, Goto, Release, AbortPrepared, Preparing
<1>12. CASE Write
  BY <1>12 DEF Write, Goto, Release, InFlightAfterWrite
<1>13. CASE Submit
  BY <1>13 DEF Submit, Finalizer, Release, Goto
<1>14. CASE Promote
  BY <1>14 DEF Promote, Release, Goto
<1>15. CASE Confirm
  BY <1>15 DEF Confirm, Release, Goto
<1>16. CASE CompleteStage
  BY <1>16 DEF CompleteStage, Finalizer, Goto
<1>17. CASE Return
  BY <1>17 DEF Return, Release
<1>18. CASE DiscardCheck
  BY <1>18 DEF DiscardCheck, Release
<1>19. CASE Revert
  BY <1>19 DEF Revert, Goto, Release
<1>20. CASE RemoveMarker
  BY <1>20 DEF RemoveMarker, Goto
<1>21. CASE RemoveBackup
  BY <1>21 DEF RemoveBackup, Goto
<1>22. CASE Fence
  BY <1>22 DEF Fence, At, Goto, Release
<1>23. CASE Commit
  <2>1. op.base \in Contents
    BY <1>23 DEF Commit, OpShape, Ops, OpPlaces, Admittance, Idle
  <2> QED BY <1>23, <2>1 DEF Commit
<1>24. CASE KeepSnapshot
  BY <1>24 DEF KeepSnapshot, Goto, Release
<1>25. CASE KeepAgain
  BY <1>25 DEF KeepAgain, Goto
<1>26. CASE Recheck
  BY <1>26 DEF Recheck
<1>27. CASE Adopted
  BY <1>27 DEF Adopted, Release
<1>28. CASE Recover
  <2> DEFINE r == Reconciled(marker, snap, file)
  <2>1. r.status \in Statuses
    BY ReconciledIs DEF Baseline
  <2>2. status' \in {r.status, [r.status EXCEPT !.state = "inconsistent"]}
    BY <1>28 DEF Recover
  <2> QED BY <2>1, <2>2 DEF Statuses
<1>29. CASE Rejected
  BY <1>29 DEF Rejected, At, Release
<1>30. CASE Noticed
  BY <1>30 DEF Noticed
<1>31. CASE Reload
  BY <1>31 DEF Reload, FinAt, FinGoto
<1>32. CASE RestoreCheck
  BY <1>32 DEF RestoreCheck, FinAt, FinGoto
<1>33. CASE Restore
  BY <1>33 DEF Restore, FinAt, FinGoto
<1>34. CASE Outcome
  BY <1>34 DEF Outcome, FinAt, FinGoto, Restored
<1>35. CASE Rewind
  <2>1. CASE marker.st = "preparing"
    <3>1. marker.prior \in Contents
      BY <1>35, <2>1 DEF Rewind, FinAt, Baseline, NoFin
    <3> QED BY <1>35, <2>1, <3>1 DEF Rewind
  <2> QED BY <1>35, <2>1 DEF Rewind
<1>36. CASE Snapshot
  BY <1>36 DEF Snapshot, FinAt, FinGoto, WriteFailed, GiveUp
<1>37. CASE Mark
  <2>1. fin.data \in Contents
    BY <1>37 DEF Mark, FinAt, FinShape, Fins, FinPlaces, NoFin, Contents
  <2> QED BY <1>37, <2>1 DEF Mark, WriteFailed, GiveUp
<1>38. CASE Retry
  BY <1>38 DEF Retry, FinAt, FinGoto
<1>39. CASE Reread
  BY <1>39 DEF Reread, FinAt
<1>40. CASE Settle
  BY <1>40 DEF Settle, FinAt, FinGoto
<1>41. CASE ClearGate
  BY <1>41 DEF ClearGate, FinAt
<1>42. CASE Drain
  BY <1>42 DEF Drain
<1>43. CASE Crash
  BY <1>43 DEF Crash, Statuses
<1>44. CASE UNCHANGED vars
  BY <1>44 DEF vars
<1> QED BY <1>1, <1>2, <1>3, <1>4, <1>5, <1>6, <1>7, <1>8, <1>9, <1>10, <1>11, <1>12, <1>13, <1>14, <1>15, <1>16,
     <1>17, <1>18, <1>19, <1>20, <1>21, <1>22, <1>23, <1>24, <1>25, <1>26, <1>27, <1>28, <1>29, <1>30, <1>31,
     <1>32, <1>33, <1>34, <1>35, <1>36, <1>37, <1>38, <1>39, <1>40, <1>41, <1>42, <1>43, <1>44 DEF Next, OpStep,
     FinStep

LEMMA FlagsOKNext == Sound /\ [Next]_vars => FlagsOK'
<1> SUFFICES ASSUME Sound, [Next]_vars PROVE FlagsOK'
  OBVIOUS
<1> USE DEF Sound, FlagsOK, TypeOK, disk, mem, hist
<1>1. ASSUME NEW c \in Edits \union {Initial}, Edit(c) PROVE FlagsOK'
  BY <1>1 DEF Edit, Spend
<1>2. ASSUME NEW k \in {"hot", "stage"}, NEW d \in Candidates, Begin(k, d) PROVE FlagsOK'
  BY <1>2 DEF Begin, Spend
<1>3. ASSUME NEW k \in {"adopt", "discard", "status"}, Begin(k, None) PROVE FlagsOK'
  BY <1>3 DEF Begin, Spend
<1>4. CASE Refresh
  <2> DEFINE r == PlanAfter(plan, bak, file, FALSE)
  <2>1. r.pend \in BOOLEAN /\ r.bad \in BOOLEAN
    BY PlanStands DEF PlanOutcome
  <2>2. pend' \in {r.pend, pend} /\ bad' \in {r.bad, TRUE}
    BY <1>4 DEF Refresh
  <2> QED BY <1>4, <2>1, <2>2 DEF Refresh
<1>5. CASE ReadFile
  BY <1>5 DEF ReadFile
<1>6. CASE Assess
  BY <1>6 DEF Assess, Assessed
<1>7. CASE Admit
  BY <1>7 DEF Admit
<1>8. CASE Backup
  BY <1>8 DEF Backup, At, Release, Fail, CanFail, Spend
<1>9. CASE Prepare
  BY <1>9 DEF Prepare, At, IsUpdate, Goto, Fail, CanFail, Spend, Release
<1>10. CASE Verify
  BY <1>10 DEF Verify, Goto, Release, AbortPrepared, Fail, CanFail, Spend
<1>11. CASE BeginWrite
  BY <1>11 DEF BeginWrite, Goto, Release, AbortPrepared, Fail, CanFail, Spend, Preparing
<1>12. CASE Write
  BY <1>12 DEF Write, Goto, Fail, CanFail, Spend, Release, InFlightAfterWrite
<1>13. CASE Submit
  BY <1>13 DEF Submit, Finalizer, Release, Goto, Marked
<1>14. CASE Promote
  BY <1>14 DEF Promote, Release, Goto, Fail, CanFail, Spend
<1>15. CASE Confirm
  BY <1>15 DEF Confirm, Release, Goto
<1>16. CASE CompleteStage
  BY <1>16 DEF CompleteStage, Finalizer, Goto
<1>17. CASE Return
  BY <1>17 DEF Return, Release
<1>18. CASE DiscardCheck
  BY <1>18 DEF DiscardCheck, Release
<1>19. CASE Revert
  BY <1>19 DEF Revert, Goto, Fail, CanFail, Spend, Release
<1>20. CASE RemoveMarker
  BY <1>20 DEF RemoveMarker, Goto
<1>21. CASE RemoveBackup
  BY <1>21 DEF RemoveBackup, Goto
<1>22. CASE Fence
  BY <1>22 DEF Fence, At, Goto, Release
<1>23. CASE Commit
  BY <1>23 DEF Commit, Current, Clean, Goto, Fail, CanFail, Spend, Release
<1>24. CASE KeepSnapshot
  BY <1>24 DEF KeepSnapshot, Goto, Release, Fail, CanFail, Spend
<1>25. CASE KeepAgain
  BY <1>25 DEF KeepAgain, Goto, Fail, CanFail, Spend, Marked
<1>26. CASE Recheck
  BY <1>26 DEF Recheck, Assessed, Clean
<1>27. CASE Adopted
  BY <1>27 DEF Adopted, Release, Marked
<1>28. CASE Recover
  <2> DEFINE r == PlanAfter(plan, bak, file, TRUE)
  <2>1. r.pend \in BOOLEAN /\ r.bad \in BOOLEAN
    BY PlanStands DEF PlanOutcome
  <2>2. pend' \in {r.pend} /\ bad' \in {r.bad}
    BY <1>28 DEF Recover
  <2> QED BY <1>28, <2>1, <2>2 DEF Recover
<1>29. CASE Rejected
  BY <1>29 DEF Rejected, At, Release
<1>30. CASE Noticed
  BY <1>30 DEF Noticed
<1>31. CASE Reload
  BY <1>31 DEF Reload, FinAt, FinGoto, Marked
<1>32. CASE RestoreCheck
  BY <1>32 DEF RestoreCheck, FinAt, FinGoto
<1>33. CASE Restore
  BY <1>33 DEF Restore, FinAt, FinGoto, Fail, CanFail, Spend
<1>34. CASE Outcome
  BY <1>34 DEF Outcome, FinAt, FinGoto, Restored, Marked
<1>35. CASE Rewind
  BY <1>35 DEF Rewind, FinAt, FinGoto, Current, Clean, Fail, CanFail, Spend
<1>36. CASE Snapshot
  BY <1>36 DEF Snapshot, FinAt, FinGoto, Fail, CanFail, Spend, WriteFailed, GiveUp, Marked
<1>37. CASE Mark
  BY <1>37 DEF Mark, FinAt, FinGoto, Fail, CanFail, Spend, WriteFailed, GiveUp, Marked, Current, Clean
<1>38. CASE Retry
  BY <1>38 DEF Retry, FinAt, FinGoto, Marked
<1>39. CASE Reread
  BY <1>39 DEF Reread, FinAt
<1>40. CASE Settle
  BY <1>40 DEF Settle, FinAt, FinGoto, Assessed, Clean
<1>41. CASE ClearGate
  BY <1>41 DEF ClearGate, FinAt
<1>42. CASE Drain
  BY <1>42 DEF Drain, Assessed, Clean
<1>43. CASE Crash
  BY <1>43 DEF Crash, Spend
<1>44. CASE UNCHANGED vars
  BY <1>44 DEF vars
<1> QED BY <1>1, <1>2, <1>3, <1>4, <1>5, <1>6, <1>7, <1>8, <1>9, <1>10, <1>11, <1>12, <1>13, <1>14, <1>15, <1>16,
     <1>17, <1>18, <1>19, <1>20, <1>21, <1>22, <1>23, <1>24, <1>25, <1>26, <1>27, <1>28, <1>29, <1>30, <1>31,
     <1>32, <1>33, <1>34, <1>35, <1>36, <1>37, <1>38, <1>39, <1>40, <1>41, <1>42, <1>43, <1>44 DEF Next, OpStep,
     FinStep

LEMMA UsedOKNext == UsedOK /\ [Next]_vars => UsedOK'
<1> SUFFICES ASSUME UsedOK, [Next]_vars PROVE UsedOK'
  OBVIOUS
<1> USE DEF UsedOK, disk, mem, hist
<1>1. ASSUME NEW c \in Edits \union {Initial}, Edit(c) PROVE UsedOK'
  BY <1>1 DEF Edit, Spend
<1>2. ASSUME NEW k \in {"hot", "stage"}, NEW d \in Candidates, Begin(k, d) PROVE UsedOK'
  BY <1>2 DEF Begin, Spend
<1>3. ASSUME NEW k \in {"adopt", "discard", "status"}, Begin(k, None) PROVE UsedOK'
  BY <1>3 DEF Begin, Spend
<1>4. CASE Refresh
  <2>1. UNCHANGED used \/ Fail
    BY <1>4 DEF Refresh
  <2> QED BY <2>1 DEF Fail, Spend
<1>5. CASE ReadFile
  BY <1>5 DEF ReadFile
<1>6. CASE Assess
  BY <1>6 DEF Assess, Assessed
<1>7. CASE Admit
  BY <1>7 DEF Admit
<1>8. CASE Backup
  BY <1>8 DEF Backup, At, Release, Fail, CanFail, Spend
<1>9. CASE Prepare
  BY <1>9 DEF Prepare, At, IsUpdate, Goto, Fail, CanFail, Spend, Release
<1>10. CASE Verify
  BY <1>10 DEF Verify, Goto, Release, AbortPrepared, Fail, CanFail, Spend
<1>11. CASE BeginWrite
  BY <1>11 DEF BeginWrite, Goto, Release, AbortPrepared, Fail, CanFail, Spend, Preparing
<1>12. CASE Write
  BY <1>12 DEF Write, Goto, Fail, CanFail, Spend, Release, InFlightAfterWrite
<1>13. CASE Submit
  BY <1>13 DEF Submit, Finalizer, Release, Goto, Marked
<1>14. CASE Promote
  BY <1>14 DEF Promote, Release, Goto, Fail, CanFail, Spend
<1>15. CASE Confirm
  BY <1>15 DEF Confirm, Release, Goto
<1>16. CASE CompleteStage
  BY <1>16 DEF CompleteStage, Finalizer, Goto
<1>17. CASE Return
  BY <1>17 DEF Return, Release
<1>18. CASE DiscardCheck
  BY <1>18 DEF DiscardCheck, Release
<1>19. CASE Revert
  BY <1>19 DEF Revert, Goto, Fail, CanFail, Spend, Release
<1>20. CASE RemoveMarker
  BY <1>20 DEF RemoveMarker, Goto
<1>21. CASE RemoveBackup
  BY <1>21 DEF RemoveBackup, Goto
<1>22. CASE Fence
  BY <1>22 DEF Fence, At, Goto, Release
<1>23. CASE Commit
  BY <1>23 DEF Commit, Current, Clean, Goto, Fail, CanFail, Spend, Release
<1>24. CASE KeepSnapshot
  BY <1>24 DEF KeepSnapshot, Goto, Release, Fail, CanFail, Spend
<1>25. CASE KeepAgain
  BY <1>25 DEF KeepAgain, Goto, Fail, CanFail, Spend, Marked
<1>26. CASE Recheck
  BY <1>26 DEF Recheck, Assessed, Clean
<1>27. CASE Adopted
  BY <1>27 DEF Adopted, Release, Marked
<1>28. CASE Recover
  BY <1>28 DEF Recover, Release, Fail, CanFail, Spend
<1>29. CASE Rejected
  BY <1>29 DEF Rejected, At, Release
<1>30. CASE Noticed
  BY <1>30 DEF Noticed
<1>31. CASE Reload
  BY <1>31 DEF Reload, FinAt, FinGoto, Marked
<1>32. CASE RestoreCheck
  BY <1>32 DEF RestoreCheck, FinAt, FinGoto
<1>33. CASE Restore
  BY <1>33 DEF Restore, FinAt, FinGoto, Fail, CanFail, Spend
<1>34. CASE Outcome
  BY <1>34 DEF Outcome, FinAt, FinGoto, Restored, Marked
<1>35. CASE Rewind
  BY <1>35 DEF Rewind, FinAt, FinGoto, Current, Clean, Fail, CanFail, Spend
<1>36. CASE Snapshot
  BY <1>36 DEF Snapshot, FinAt, FinGoto, Fail, CanFail, Spend, WriteFailed, GiveUp, Marked
<1>37. CASE Mark
  BY <1>37 DEF Mark, FinAt, FinGoto, Fail, CanFail, Spend, WriteFailed, GiveUp, Marked, Current, Clean
<1>38. CASE Retry
  BY <1>38 DEF Retry, FinAt, FinGoto, Marked
<1>39. CASE Reread
  BY <1>39 DEF Reread, FinAt
<1>40. CASE Settle
  BY <1>40 DEF Settle, FinAt, FinGoto, Assessed, Clean
<1>41. CASE ClearGate
  BY <1>41 DEF ClearGate, FinAt
<1>42. CASE Drain
  BY <1>42 DEF Drain, Assessed, Clean
<1>43. CASE Crash
  BY <1>43 DEF Crash, Spend
<1>44. CASE UNCHANGED vars
  BY <1>44 DEF vars
<1> QED BY <1>1, <1>2, <1>3, <1>4, <1>5, <1>6, <1>7, <1>8, <1>9, <1>10, <1>11, <1>12, <1>13, <1>14, <1>15, <1>16,
     <1>17, <1>18, <1>19, <1>20, <1>21, <1>22, <1>23, <1>24, <1>25, <1>26, <1>27, <1>28, <1>29, <1>30, <1>31,
     <1>32, <1>33, <1>34, <1>35, <1>36, <1>37, <1>38, <1>39, <1>40, <1>41, <1>42, <1>43, <1>44 DEF Next, OpStep,
     FinStep

(* What is written beside the file, or into it, comes from a request or   *)
(* from another of the files.                                              *)
LEMMA DiskOKNext == Sound /\ [Next]_vars => DiskOK'
<1> SUFFICES ASSUME Sound, [Next]_vars PROVE DiskOK'
  OBVIOUS
<1> USE DEF Sound, DiskOK, TypeOK, disk, mem, hist
<1>1. ASSUME NEW c \in Edits \union {Initial}, Edit(c) PROVE DiskOK'
  BY <1>1 DEF Edit, Contents
<1>2. ASSUME NEW k \in {"hot", "stage"}, NEW d \in Candidates, Begin(k, d) PROVE DiskOK'
  BY <1>2 DEF Begin
<1>3. ASSUME NEW k \in {"adopt", "discard", "status"}, Begin(k, None) PROVE DiskOK'
  BY <1>3 DEF Begin
<1>4. CASE Refresh
  <2> DEFINE r == PlanAfter(plan, bak, file, FALSE)
  <2>1. r.plan \in Plans \union {None} /\ r.bak \in {bak, None}
    BY PlanStands DEF PlanOutcome
  <2>2. plan' \in {plan, r.plan} /\ bak' \in {bak, r.bak}
    BY <1>4 DEF Refresh
  <2> QED BY <1>4, <2>1, <2>2 DEF Refresh
<1>5. CASE ReadFile
  BY <1>5 DEF ReadFile
<1>6. CASE Assess
  BY <1>6 DEF Assess
<1>7. CASE Admit
  BY <1>7 DEF Admit
<1>8. CASE Backup
  <2>1. op.base \in Contents
    BY <1>8, PlaceTells DEF Backup, At, OpShape
  <2> QED BY <1>8, <2>1 DEF Backup, Saved
<1>9. CASE Prepare
  <2>1. op.base \in Contents /\ op.data \in Contents
    BY <1>9 DEF Prepare, At, OpShape, Contents
  <2>2. IsUpdate => plan \in Plans
    BY DEF IsUpdate
  <2>3. plan' # plan => plan' \in Plans
    BY <1>9, <2>1, <2>2 DEF Prepare, Plans
  <2> QED BY <1>9, <2>3 DEF Prepare
<1>10. CASE Verify
  BY <1>10 DEF Verify, AbortPrepared, Ops
<1>11. CASE BeginWrite
  <2>1. op.data \in Contents /\ op.base \in Contents /\ status.base \in Contents \union {None}
    BY <1>11, PlaceTells DEF BeginWrite, OpShape, Contents, Statuses
  <2>2. marker' \in Markers \union {None}
    BY <1>11, <2>1 DEF BeginWrite, Preparing, Markers
  <2>3. op.prev \in Plans \union {None}
    BY DEF Ops
  <2> QED BY <1>11, <2>2, <2>3 DEF BeginWrite, AbortPrepared
<1>12. CASE Write
  <2>1. op.data \in Contents
    BY <1>12, PlaceTells DEF Write, OpShape, Contents
  <2> QED BY <1>12, <2>1 DEF Write
<1>13. CASE Submit
  BY <1>13 DEF Submit, Finalizer
<1>14. CASE Promote
  <2>1. plan \in Plans
    BY <1>14, PlaceTells DEF Promote, Sidecars
  <2>2. [plan EXCEPT !.st = "staged", !.prev = None] \in Plans /\ [plan EXCEPT !.st = "staged"] \in Plans
    BY <2>1 DEF Plans
  <2> QED BY <1>14, <2>2 DEF Promote
<1>15. CASE Confirm
  BY <1>15 DEF Confirm
<1>16. CASE CompleteStage
  BY <1>16 DEF CompleteStage, Finalizer
<1>17. CASE Return
  BY <1>17 DEF Return
<1>18. CASE DiscardCheck
  BY <1>18 DEF DiscardCheck
<1>19. CASE Revert
  <2>1. op.base \in Contents
    BY <1>19, PlaceTells DEF Revert, OpShape
  <2> QED BY <1>19, <2>1 DEF Revert
<1>20. CASE RemoveMarker
  BY <1>20 DEF RemoveMarker
<1>21. CASE RemoveBackup
  BY <1>21 DEF RemoveBackup
<1>22. CASE Fence
  BY <1>22 DEF Fence, At
<1>23. CASE Commit
  <2>1. op.base \in Contents
    BY <1>23, PlaceTells DEF Commit, OpShape
  <2> QED BY <1>23, <2>1 DEF Commit, Current, Markers
<1>24. CASE KeepSnapshot
  <2>1. op.base \in Contents
    BY <1>24, PlaceTells DEF KeepSnapshot, OpShape
  <2> QED BY <1>24, <2>1 DEF KeepSnapshot
<1>25. CASE KeepAgain
  BY <1>25, PlaceTells DEF KeepAgain, OpShape
<1>26. CASE Recheck
  BY <1>26 DEF Recheck
<1>27. CASE Adopted
  <2>1. op.base \in Contents
    BY <1>27, PlaceTells DEF Adopted, OpShape
  <2> QED BY <1>27, <2>1 DEF Adopted
<1>28. CASE Recover
  <2> DEFINE p == PlanAfter(plan, bak, file, TRUE)
             r == Reconciled(marker, snap, file)
  <2>1. p.plan \in Plans \union {None} /\ p.bak \in {bak, None}
    BY PlanStands DEF PlanOutcome
  <2>2. r.marker \in Markers \union {None} /\ r.snap \in {snap, file}
    BY ReconciledIs DEF Baseline
  <2>3. plan' = p.plan /\ bak' = p.bak /\ marker' \in {marker, r.marker} /\ snap' \in {snap, r.snap}
    BY <1>28 DEF Recover
  <2> QED BY <1>28, <2>1, <2>2, <2>3 DEF Recover
<1>29. CASE Rejected
  BY <1>29 DEF Rejected, At
<1>30. CASE Noticed
  BY <1>30 DEF Noticed
<1>31. CASE Reload
  BY <1>31, PlaceTells DEF Reload, FinAt
<1>32. CASE RestoreCheck
  BY <1>32 DEF RestoreCheck, FinAt
<1>33. CASE Restore
  BY <1>33, PlaceTells DEF Restore, FinAt
<1>34. CASE Outcome
  BY <1>34 DEF Outcome, FinAt, Restored
<1>35. CASE Rewind
  <2>1. CASE marker.st = "preparing"
    <3>1. marker.prior \in Contents
      BY <1>35, <2>1 DEF Rewind, FinAt, Baseline, NoFin
    <3> QED BY <1>35, <2>1, <3>1 DEF Rewind, Current, Markers
  <2> QED BY <1>35, <2>1 DEF Rewind
<1>36. CASE Snapshot
  BY <1>36, PlaceTells DEF Snapshot, FinAt
<1>37. CASE Mark
  BY <1>37, PlaceTells DEF Mark, FinAt, Current, Markers
<1>38. CASE Retry
  BY <1>38 DEF Retry, FinAt
<1>39. CASE Reread
  BY <1>39 DEF Reread, FinAt
<1>40. CASE Settle
  BY <1>40 DEF Settle, FinAt
<1>41. CASE ClearGate
  BY <1>41 DEF ClearGate, FinAt
<1>42. CASE Drain
  BY <1>42 DEF Drain
<1>43. CASE Crash
  BY <1>43 DEF Crash
<1>44. CASE UNCHANGED vars
  BY <1>44 DEF vars
<1> QED BY <1>1, <1>2, <1>3, <1>4, <1>5, <1>6, <1>7, <1>8, <1>9, <1>10, <1>11, <1>12, <1>13, <1>14, <1>15, <1>16,
     <1>17, <1>18, <1>19, <1>20, <1>21, <1>22, <1>23, <1>24, <1>25, <1>26, <1>27, <1>28, <1>29, <1>30, <1>31,
     <1>32, <1>33, <1>34, <1>35, <1>36, <1>37, <1>38, <1>39, <1>40, <1>41, <1>42, <1>43, <1>44 DEF Next, OpStep,
     FinStep

(* The holder of applyMu moves along the places of its kind. *)
LEMMA OpShapeNext == Sound /\ [Next]_vars => OpShape'
<1> SUFFICES ASSUME Sound, [Next]_vars PROVE OpShape'
  OBVIOUS
<1> USE DEF Sound, TypeOK, Ops, OpPlaces, Fins, FinPlaces, OpShape, Admittance, Idle, disk, mem, hist
<1>1. ASSUME NEW c \in Edits \union {Initial}, Edit(c) PROVE OpShape'
  BY <1>1 DEF Edit, Spend
<1>2. ASSUME NEW k \in {"hot", "stage"}, NEW d \in Candidates, Begin(k, d) PROVE OpShape'
  BY <1>2 DEF Begin, Spend
<1>3. ASSUME NEW k \in {"adopt", "discard", "status"}, Begin(k, None) PROVE OpShape'
  BY <1>3 DEF Begin, Spend
<1>4. CASE Refresh
  BY <1>4, RefreshMoves DEF Moved
<1>5. CASE ReadFile
  BY <1>5 DEF ReadFile
<1>6. CASE Assess
  BY <1>6 DEF Assess, Assessed
<1>7. CASE Admit
  BY <1>7, AdmitMoves DEF Admit
<1>8. CASE Backup
  BY <1>8, BackupMoves DEF Moved
<1>9. CASE Prepare
  BY <1>9 DEF Prepare, At, IsUpdate, Goto, Fail, CanFail, Spend, Release
<1>10. CASE Verify
  BY <1>10 DEF Verify, Goto, Release, AbortPrepared, Fail, CanFail, Spend
<1>11. CASE BeginWrite
  BY <1>11 DEF BeginWrite, Goto, Release, AbortPrepared, Fail, CanFail, Spend, Preparing
<1>12. CASE Write
  BY <1>12 DEF Write, Goto, Fail, CanFail, Spend, Release, InFlightAfterWrite
<1>13. CASE Submit
  BY <1>13, SubmitMoves DEF Submit, Marked, Finalizer
<1>14. CASE Promote
  BY <1>14 DEF Promote, Release, Goto, Fail, CanFail, Spend
<1>15. CASE Confirm
  BY <1>15 DEF Confirm, Release, Goto
<1>16. CASE CompleteStage
  BY <1>16 DEF CompleteStage, Finalizer, Goto
<1>17. CASE Return
  BY <1>17 DEF Return, Release
<1>18. CASE DiscardCheck
  BY <1>18, DiscardMoves DEF Moved
<1>19. CASE Revert
  BY <1>19 DEF Revert, Goto, Fail, CanFail, Spend, Release
<1>20. CASE RemoveMarker
  BY <1>20 DEF RemoveMarker, Goto
<1>21. CASE RemoveBackup
  BY <1>21 DEF RemoveBackup, Goto
<1>22. CASE Fence
  BY <1>22 DEF Fence, At, Goto, Release
<1>23. CASE Commit
  BY <1>23 DEF Commit, Current, Clean, Goto, Fail, CanFail, Spend, Release
<1>24. CASE KeepSnapshot
  BY <1>24 DEF KeepSnapshot, Goto, Release, Fail, CanFail, Spend
<1>25. CASE KeepAgain
  BY <1>25 DEF KeepAgain, Goto, Fail, CanFail, Spend, Marked
<1>26. CASE Recheck
  BY <1>26 DEF Recheck, Assessed, Clean
<1>27. CASE Adopted
  BY <1>27 DEF Adopted, Release, Marked
<1>28. CASE Recover
  BY <1>28 DEF Recover, Release, Fail, CanFail, Spend
<1>29. CASE Rejected
  BY <1>29 DEF Rejected, At, Release
<1>30. CASE Noticed
  BY ZenonT(60), <1>30 DEF Noticed
<1>31. CASE Reload
  BY <1>31 DEF Reload, FinAt, FinGoto, Marked
<1>32. CASE RestoreCheck
  BY <1>32 DEF RestoreCheck, FinAt, FinGoto
<1>33. CASE Restore
  BY <1>33 DEF Restore, FinAt, FinGoto, Fail, CanFail, Spend
<1>34. CASE Outcome
  BY <1>34 DEF Outcome, FinAt, FinGoto, Restored, Marked
<1>35. CASE Rewind
  BY <1>35 DEF Rewind, FinAt, FinGoto, Current, Clean, Fail, CanFail, Spend
<1>36. CASE Snapshot
  BY <1>36 DEF Snapshot, FinAt, FinGoto, Fail, CanFail, Spend, WriteFailed, GiveUp, Marked
<1>37. CASE Mark
  BY <1>37 DEF Mark, FinAt, FinGoto, Fail, CanFail, Spend, WriteFailed, GiveUp, Marked, Current, Clean
<1>38. CASE Retry
  BY ZenonT(60), <1>38, RetryMoves DEF Marked
<1>39. CASE Reread
  BY <1>39 DEF Reread, FinAt
<1>40. CASE Settle
  BY ZenonT(60), <1>40 DEF Settle, FinAt, FinGoto, Assessed, Clean
<1>41. CASE ClearGate
  BY <1>41 DEF ClearGate, FinAt
<1>42. CASE Drain
  BY <1>42 DEF Drain, Assessed, Clean
<1>43. CASE Crash
  BY <1>43 DEF Crash, Spend
<1>44. CASE UNCHANGED vars
  BY <1>44 DEF vars
<1> QED BY <1>1, <1>2, <1>3, <1>4, <1>5, <1>6, <1>7, <1>8, <1>9, <1>10, <1>11, <1>12, <1>13, <1>14, <1>15, <1>16,
     <1>17, <1>18, <1>19, <1>20, <1>21, <1>22, <1>23, <1>24, <1>25, <1>26, <1>27, <1>28, <1>29, <1>30, <1>31,
     <1>32, <1>33, <1>34, <1>35, <1>36, <1>37, <1>38, <1>39, <1>40, <1>41, <1>42, <1>43, <1>44 DEF Next, OpStep,
     FinStep

LEMMA FinShapeNext == Sound /\ [Next]_vars => FinShape'
<1> SUFFICES ASSUME Sound, [Next]_vars PROVE FinShape'
  OBVIOUS
<1> USE DEF Sound, TypeOK, Ops, OpPlaces, Fins, FinPlaces, FinShape, NoFin, NoDrain, disk, mem, hist
<1>1. ASSUME NEW c \in Edits \union {Initial}, Edit(c) PROVE FinShape'
  BY <1>1 DEF Edit, Spend
<1>2. ASSUME NEW k \in {"hot", "stage"}, NEW d \in Candidates, Begin(k, d) PROVE FinShape'
  BY <1>2 DEF Begin, Spend
<1>3. ASSUME NEW k \in {"adopt", "discard", "status"}, Begin(k, None) PROVE FinShape'
  BY <1>3 DEF Begin, Spend
<1>4. CASE Refresh
  BY <1>4, RefreshMoves DEF Moved
<1>5. CASE ReadFile
  BY <1>5 DEF ReadFile
<1>6. CASE Assess
  BY <1>6 DEF Assess, Assessed
<1>7. CASE Admit
  BY <1>7, AdmitMoves DEF Admit
<1>8. CASE Backup
  BY <1>8, BackupMoves DEF Moved
<1>9. CASE Prepare
  BY <1>9 DEF Prepare, At, IsUpdate, Goto, Fail, CanFail, Spend, Release
<1>10. CASE Verify
  BY <1>10 DEF Verify, Goto, Release, AbortPrepared, Fail, CanFail, Spend
<1>11. CASE BeginWrite
  BY <1>11 DEF BeginWrite, Goto, Release, AbortPrepared, Fail, CanFail, Spend, Preparing
<1>12. CASE Write
  BY <1>12 DEF Write, Goto, Fail, CanFail, Spend, Release, InFlightAfterWrite
<1>13. CASE Submit
  BY <1>13, SubmitMoves DEF Submit, Finalizer, OpShape
<1>14. CASE Promote
  BY <1>14 DEF Promote, Release, Goto, Fail, CanFail, Spend
<1>15. CASE Confirm
  BY <1>15 DEF Confirm, Release, Goto
<1>16. CASE CompleteStage
  BY <1>16, PlaceTells DEF CompleteStage, Finalizer, Goto, OpShape
<1>17. CASE Return
  BY <1>17 DEF Return, Release
<1>18. CASE DiscardCheck
  BY <1>18, DiscardMoves DEF Moved
<1>19. CASE Revert
  BY <1>19 DEF Revert, Goto, Fail, CanFail, Spend, Release
<1>20. CASE RemoveMarker
  BY <1>20 DEF RemoveMarker, Goto
<1>21. CASE RemoveBackup
  BY <1>21 DEF RemoveBackup, Goto
<1>22. CASE Fence
  BY <1>22 DEF Fence, At, Goto, Release
<1>23. CASE Commit
  BY <1>23 DEF Commit, Current, Clean, Goto, Fail, CanFail, Spend, Release
<1>24. CASE KeepSnapshot
  BY <1>24 DEF KeepSnapshot, Goto, Release, Fail, CanFail, Spend
<1>25. CASE KeepAgain
  BY <1>25 DEF KeepAgain, Goto, Fail, CanFail, Spend, Marked
<1>26. CASE Recheck
  BY <1>26 DEF Recheck, Assessed, Clean
<1>27. CASE Adopted
  BY <1>27 DEF Adopted, Release, Marked
<1>28. CASE Recover
  BY <1>28 DEF Recover, Release, Fail, CanFail, Spend
<1>29. CASE Rejected
  BY <1>29 DEF Rejected, At, Release
<1>30. CASE Noticed
  BY <1>30 DEF Noticed
<1>31. CASE Reload
  BY <1>31 DEF Reload, FinAt, FinGoto, Marked
<1>32. CASE RestoreCheck
  BY <1>32 DEF RestoreCheck, FinAt, FinGoto
<1>33. CASE Restore
  BY <1>33 DEF Restore, FinAt, FinGoto, Fail, CanFail, Spend
<1>34. CASE Outcome
  BY <1>34 DEF Outcome, FinAt, FinGoto, Restored, Marked
<1>35. CASE Rewind
  BY <1>35 DEF Rewind, FinAt, FinGoto, Current, Clean, Fail, CanFail, Spend
<1>36. CASE Snapshot
  BY <1>36 DEF Snapshot, FinAt, FinGoto, Fail, CanFail, Spend, WriteFailed, GiveUp, Marked
<1>37. CASE Mark
  BY <1>37 DEF Mark, FinAt, FinGoto, Fail, CanFail, Spend, WriteFailed, GiveUp, Marked, Current, Clean
<1>38. CASE Retry
  BY <1>38, RetryMoves DEF Marked
<1>39. CASE Reread
  BY <1>39 DEF Reread, FinAt
<1>40. CASE Settle
  BY <1>40 DEF Settle, FinAt, FinGoto, Assessed, Clean
<1>41. CASE ClearGate
  BY <1>41 DEF ClearGate, FinAt
<1>42. CASE Drain
  BY <1>42 DEF Drain, Drains
<1>43. CASE Crash
  BY <1>43 DEF Crash, Spend
<1>44. CASE UNCHANGED vars
  BY <1>44 DEF vars
<1> QED BY <1>1, <1>2, <1>3, <1>4, <1>5, <1>6, <1>7, <1>8, <1>9, <1>10, <1>11, <1>12, <1>13, <1>14, <1>15, <1>16,
     <1>17, <1>18, <1>19, <1>20, <1>21, <1>22, <1>23, <1>24, <1>25, <1>26, <1>27, <1>28, <1>29, <1>30, <1>31,
     <1>32, <1>33, <1>34, <1>35, <1>36, <1>37, <1>38, <1>39, <1>40, <1>41, <1>42, <1>43, <1>44 DEF Next, OpStep,
     FinStep

(* Write closes the gate and hands it to Submit, Submit to the finalizer;  *)
(* only ClearGate and a crash open it.                                     *)
LEMMA GateNext == Sound /\ [Next]_vars => Gate'
<1> SUFFICES ASSUME Sound, [Next]_vars PROVE Gate'
  OBVIOUS
<1> USE DEF Sound, TypeOK, Ops, OpPlaces, Fins, FinPlaces, OpShape, FinShape, Gate, Admittance, Idle, NoFin, disk,
     mem, hist
<1>1. ASSUME NEW c \in Edits \union {Initial}, Edit(c) PROVE Gate'
  BY <1>1 DEF Edit, Spend
<1>2. ASSUME NEW k \in {"hot", "stage"}, NEW d \in Candidates, Begin(k, d) PROVE Gate'
  BY <1>2 DEF Begin, Spend
<1>3. ASSUME NEW k \in {"adopt", "discard", "status"}, Begin(k, None) PROVE Gate'
  BY <1>3 DEF Begin, Spend
<1>4. CASE Refresh
  BY <1>4, RefreshMoves DEF Moved
<1>5. CASE ReadFile
  BY <1>5 DEF ReadFile
<1>6. CASE Assess
  BY <1>6 DEF Assess, Assessed
<1>7. CASE Admit
  BY <1>7, AdmitMoves DEF Admit
<1>8. CASE Backup
  BY <1>8, BackupMoves DEF Moved
<1>9. CASE Prepare
  BY <1>9 DEF Prepare, At, IsUpdate, Goto, Fail, CanFail, Spend, Release
<1>10. CASE Verify
  BY <1>10 DEF Verify, Goto, Release, AbortPrepared, Fail, CanFail, Spend
<1>11. CASE BeginWrite
  BY <1>11 DEF BeginWrite, Goto, Release, AbortPrepared, Fail, CanFail, Spend, Preparing
<1>12. CASE Write
  <2>1. op.kind \in {"hot", "stage"}
    BY <1>12 DEF Write
  <2>2. CASE op' = Idle
    BY <1>12, <2>1, <2>2 DEF Write, Goto
  <2>3. CASE op.kind = "hot" /\ op' = [op EXCEPT !.pc = "submit"] /\ inflight'
    BY <1>12, <2>3 DEF Write
  <2>4. CASE op.kind = "stage" /\ op' = [op EXCEPT !.pc = "promote"] /\ ~inflight'
    BY <1>12, <2>4 DEF Write
  <2> QED BY <1>12, <2>1, <2>2, <2>3, <2>4 DEF Write, Goto, Release, InFlightAfterWrite
<1>13. CASE Submit
  BY <1>13, SubmitMoves DEF Submit, Marked, Finalizer
<1>14. CASE Promote
  BY <1>14 DEF Promote, Release, Goto, Fail, CanFail, Spend
<1>15. CASE Confirm
  BY <1>15 DEF Confirm, Release, Goto
<1>16. CASE CompleteStage
  BY <1>16 DEF CompleteStage, Finalizer, Goto
<1>17. CASE Return
  BY <1>17 DEF Return, Release
<1>18. CASE DiscardCheck
  BY <1>18, DiscardMoves DEF Moved
<1>19. CASE Revert
  BY <1>19 DEF Revert, Goto, Fail, CanFail, Spend, Release
<1>20. CASE RemoveMarker
  BY <1>20 DEF RemoveMarker, Goto
<1>21. CASE RemoveBackup
  BY <1>21 DEF RemoveBackup, Goto
<1>22. CASE Fence
  BY <1>22 DEF Fence, At, Goto, Release
<1>23. CASE Commit
  BY <1>23 DEF Commit, Current, Clean, Goto, Fail, CanFail, Spend, Release
<1>24. CASE KeepSnapshot
  BY <1>24 DEF KeepSnapshot, Goto, Release, Fail, CanFail, Spend
<1>25. CASE KeepAgain
  BY <1>25 DEF KeepAgain, Goto, Fail, CanFail, Spend, Marked
<1>26. CASE Recheck
  BY <1>26 DEF Recheck, Assessed, Clean
<1>27. CASE Adopted
  BY <1>27 DEF Adopted, Release, Marked
<1>28. CASE Recover
  BY <1>28 DEF Recover, Release, Fail, CanFail, Spend
<1>29. CASE Rejected
  BY <1>29 DEF Rejected, At, Release
<1>30. CASE Noticed
  BY <1>30 DEF Noticed
<1>31. CASE Reload
  BY <1>31 DEF Reload, FinAt, FinGoto, Marked
<1>32. CASE RestoreCheck
  BY <1>32 DEF RestoreCheck, FinAt, FinGoto
<1>33. CASE Restore
  BY <1>33 DEF Restore, FinAt, FinGoto, Fail, CanFail, Spend
<1>34. CASE Outcome
  BY <1>34 DEF Outcome, FinAt, FinGoto, Restored, Marked
<1>35. CASE Rewind
  BY <1>35 DEF Rewind, FinAt, FinGoto, Current, Clean, Fail, CanFail, Spend
<1>36. CASE Snapshot
  BY <1>36 DEF Snapshot, FinAt, FinGoto, Fail, CanFail, Spend, WriteFailed, GiveUp, Marked
<1>37. CASE Mark
  BY <1>37 DEF Mark, FinAt, FinGoto, Fail, CanFail, Spend, WriteFailed, GiveUp, Marked, Current, Clean
<1>38. CASE Retry
  <2>1. CASE file = fin.data /\ fin.kind = "hot"
    BY ZenonT(60), <1>38, <2>1, RetryMoves
  <2>2. CASE file = fin.data /\ fin.kind = "stage"
    BY <1>38, <2>2, RetryMoves
  <2>3. CASE file # fin.data
    BY <1>38, <2>3, RetryMoves
  <2> QED BY <1>38, <2>1, <2>2, <2>3, RetryMoves
<1>39. CASE Reread
  BY <1>39 DEF Reread, FinAt
<1>40. CASE Settle
  BY <1>40 DEF Settle, FinAt, FinGoto, Assessed, Clean
<1>41. CASE ClearGate
  BY <1>41 DEF ClearGate, FinAt
<1>42. CASE Drain
  BY <1>42 DEF Drain, Assessed, Clean
<1>43. CASE Crash
  BY <1>43 DEF Crash, Spend
<1>44. CASE UNCHANGED vars
  BY <1>44 DEF vars
<1> QED BY <1>1, <1>2, <1>3, <1>4, <1>5, <1>6, <1>7, <1>8, <1>9, <1>10, <1>11, <1>12, <1>13, <1>14, <1>15, <1>16,
     <1>17, <1>18, <1>19, <1>20, <1>21, <1>22, <1>23, <1>24, <1>25, <1>26, <1>27, <1>28, <1>29, <1>30, <1>31,
     <1>32, <1>33, <1>34, <1>35, <1>36, <1>37, <1>38, <1>39, <1>40, <1>41, <1>42, <1>43, <1>44 DEF Next, OpStep,
     FinStep

(* Every step that moves the marker moves the status with it, but for a    *)
(* marker that only announces a write.                                     *)
LEMMA BaselineNext == Sound /\ [Next]_vars => Baseline'
<1> SUFFICES ASSUME Sound, [Next]_vars PROVE Baseline'
  OBVIOUS
<1> USE DEF Sound, TypeOK, Ops, OpPlaces, Fins, FinPlaces, OpShape, FinShape, Gate, Baseline, Admittance, Idle,
     NoFin, disk, mem, hist
<1>1. ASSUME NEW c \in Edits \union {Initial}, Edit(c) PROVE Baseline'
  BY <1>1 DEF Edit, Spend
<1>2. ASSUME NEW k \in {"hot", "stage"}, NEW d \in Candidates, Begin(k, d) PROVE Baseline'
  BY <1>2 DEF Begin, Spend
<1>3. ASSUME NEW k \in {"adopt", "discard", "status"}, Begin(k, None) PROVE Baseline'
  BY <1>3 DEF Begin, Spend
<1>4. CASE Refresh
  BY <1>4, RefreshMoves DEF Moved
<1>5. CASE ReadFile
  BY <1>5 DEF ReadFile
<1>6. CASE Assess
  <2>0. StatusOK
    BY DEF StatusOK
  <2> QED BY <1>6, <2>0, StatusClosed DEF Assess
<1>7. CASE Admit
  <2>1. op.kind \in {"hot", "stage"} /\ ~Blocked => marker # None
    BY DEF Blocked
  <2> QED BY <1>7, <2>1, AdmitMoves DEF Admit
<1>8. CASE Backup
  BY <1>8, BackupMoves DEF Moved
<1>9. CASE Prepare
  BY <1>9 DEF Prepare, At, IsUpdate, Goto, Fail, CanFail, Spend, Release
<1>10. CASE Verify
  BY <1>10 DEF Verify, Goto, Release, AbortPrepared, Fail, CanFail, Spend
<1>11. CASE BeginWrite
  <2>0. op.kind \in {"hot", "stage"} /\ op.data \in Contents /\ op.base \in Contents /\ status.base \in Contents
    BY <1>11, PlaceTells DEF BeginWrite, Contents
  <2>1. CASE marker' = Preparing(IF op.kind = "hot" THEN op.base ELSE status.base,
       op.data) /\ op' = [op EXCEPT !.pc = "write"]
    <3>1. marker' # None /\ marker'.st = "preparing" /\ marker'.prior \in Contents
      BY <2>0, <2>1, ApplyAssumption DEF Preparing, Markers
    <3> QED BY <1>11, <2>0, <2>1, <3>1 DEF BeginWrite
  <2>2. CASE op' = Idle /\ UNCHANGED marker
    BY <1>11, <2>2 DEF BeginWrite
  <2> QED BY <1>11, <2>1, <2>2 DEF BeginWrite, Goto, Release
<1>12. CASE Write
  BY <1>12 DEF Write, Goto, Fail, CanFail, Spend, Release, InFlightAfterWrite
<1>13. CASE Submit
  <2>0. StatusOK
    BY DEF StatusOK
  <2>1. /\ Marked("failed").base = status.base /\ Marked("inconsistent").base = status.base
        /\ Marked("ahead").base = status.base
        /\ Marked("failed").state = "failed" /\ Marked("inconsistent").state = "inconsistent"
    BY <2>0, StatusClosed
  <2> QED BY <1>13, <2>1, SubmitMoves DEF Submit, Finalizer
<1>14. CASE Promote
  BY <1>14 DEF Promote, Release, Goto, Fail, CanFail, Spend
<1>15. CASE Confirm
  BY <1>15 DEF Confirm, Release, Goto
<1>16. CASE CompleteStage
  BY <1>16 DEF CompleteStage, Finalizer, Goto
<1>17. CASE Return
  BY <1>17 DEF Return, Release
<1>18. CASE DiscardCheck
  BY <1>18, DiscardMoves DEF Moved
<1>19. CASE Revert
  BY <1>19 DEF Revert, Goto, Fail, CanFail, Spend, Release
<1>20. CASE RemoveMarker
  BY <1>20 DEF RemoveMarker, Goto
<1>21. CASE RemoveBackup
  BY <1>21 DEF RemoveBackup, Goto
<1>22. CASE Fence
  BY <1>22 DEF Fence, At, Goto, Release
<1>23. CASE Commit
  <2>0. op.base \in Contents
    BY <1>23, PlaceTells DEF Commit
  <2>1. CASE marker' = Current(op.base) /\ status' = Clean(op.base)
    <3>1. marker' # None /\ marker'.st = "current" /\ marker'.cur = op.base /\ status'.base = op.base
      BY <2>0, <2>1, ApplyAssumption DEF Current, Clean, Markers
    <3> QED BY <1>23, <2>0, <3>1, PlaceTells DEF Commit, Goto
  <2>2. CASE UNCHANGED <<marker, status>> /\ op' = Idle
    BY <1>23, <2>2, PlaceTells DEF Commit, Goto
  <2> QED BY <1>23, <2>1, <2>2 DEF Commit, Release
<1>24. CASE KeepSnapshot
  BY <1>24 DEF KeepSnapshot, Goto, Release, Fail, CanFail, Spend
<1>25. CASE KeepAgain
  <2>0. StatusOK
    BY DEF StatusOK
  <2> QED BY <1>25, <2>0, StatusClosed DEF KeepAgain, Goto, Fail, CanFail, Spend
<1>26. CASE Recheck
  <2>0. StatusOK
    BY DEF StatusOK
  <2> QED BY <1>26, <2>0, StatusClosed DEF Recheck
<1>27. CASE Adopted
  <2>0. StatusOK
    BY DEF StatusOK
  <2>1. /\ Marked("failed").base = status.base /\ Marked("inconsistent").base = status.base
        /\ Marked("ahead").base = status.base
        /\ Marked("failed").state = "failed" /\ Marked("inconsistent").state = "inconsistent"
    BY <2>0, StatusClosed
  <2> QED BY <1>27, <2>1 DEF Adopted, Release
<1>28. CASE Recover
  <2> DEFINE r == Reconciled(marker, snap, file)
  <2>1. /\ r.marker = None <=> marker = None
        /\ r.status \in Statuses
        /\ marker = None => r.status.state \in {"unadopted", "inconsistent"}
        /\ marker # None => r.status.base \in Contents
        /\ marker # None /\ marker.st = "current" => r.status.base = marker.cur
        /\ r.marker # None /\ r.marker.st = "preparing" => r.marker = marker
        /\ r.marker # None /\ r.marker.st = "current" => r.marker.cur = r.status.base
    BY ReconciledIs
  <2>2. op' = Idle /\ fin' = NoFin
    BY <1>28, PlaceTells DEF Recover, Release
  <2>3. CASE marker' = r.marker /\ status' = r.status
    BY <2>1, <2>2, <2>3
  <2>4. CASE marker' = marker /\ status' = [r.status EXCEPT !.state = "inconsistent"]
    BY <2>1, <2>2, <2>4 DEF Statuses
  <2> QED BY <1>28, <2>3, <2>4 DEF Recover
<1>29. CASE Rejected
  BY <1>29 DEF Rejected, At, Release
<1>30. CASE Noticed
  <2>1. op' = op \/ (op'.kind = "assess" /\ op'.pc = "read")
    BY ZenonT(60), <1>30 DEF Noticed
  <2> QED BY <1>30, <2>1 DEF Noticed
<1>31. CASE Reload
  <2>0. StatusOK
    BY DEF StatusOK
  <2> QED BY <1>31, <2>0, StatusClosed DEF Reload, FinAt, FinGoto
<1>32. CASE RestoreCheck
  BY <1>32 DEF RestoreCheck, FinAt, FinGoto
<1>33. CASE Restore
  BY <1>33 DEF Restore, FinAt, FinGoto, Fail, CanFail, Spend
<1>34. CASE Outcome
  <2>0. StatusOK
    BY DEF StatusOK
  <2> QED BY <1>34, <2>0, StatusClosed DEF Outcome, FinAt, FinGoto
<1>35. CASE Rewind
  <2>1. marker # None
    BY <1>35 DEF Rewind, FinAt
  <2>2. CASE marker.st = "preparing" /\ marker' = Current(marker.prior) /\ status' = Clean(marker.prior)
    <3>1. marker' # None /\ marker'.st = "current" /\ marker'.cur = marker.prior /\ status'.base = marker.prior
      BY <2>1, <2>2, ApplyAssumption DEF Current, Clean, Markers
    <3> QED BY <1>35, <2>1, <2>2, <3>1 DEF Rewind, FinAt, FinGoto
  <2>3. CASE UNCHANGED <<marker, status>>
    BY <1>35, <2>1, <2>3 DEF Rewind
  <2> QED BY <1>35, <2>2, <2>3 DEF Rewind
<1>36. CASE Snapshot
  <2>0. StatusOK
    BY DEF StatusOK
  <2>1. /\ Marked("failed").base = status.base /\ Marked("inconsistent").base = status.base
        /\ Marked("ahead").base = status.base
        /\ Marked("failed").state = "failed" /\ Marked("inconsistent").state = "inconsistent"
    BY <2>0, StatusClosed
  <2>2. marker # None /\ op.kind # "boot"
    BY <1>36 DEF Snapshot, FinAt
  <2>3. status'.base = status.base /\ UNCHANGED marker
    BY <1>36, <2>1 DEF Snapshot, WriteFailed, GiveUp
  <2>4. op' = Idle \/ op' = op
    BY <1>36 DEF Snapshot, WriteFailed, GiveUp
  <2> QED BY <2>2, <2>3, <2>4
<1>37. CASE Mark
  <2>0. StatusOK
    BY DEF StatusOK
  <2>1. /\ Marked("failed").base = status.base /\ Marked("inconsistent").base = status.base
        /\ Marked("ahead").base = status.base
        /\ Marked("failed").state = "failed" /\ Marked("inconsistent").state = "inconsistent"
    BY <2>0, StatusClosed
  <2>2. fin.data \in Contents /\ marker # None /\ op.kind # "boot"
    BY <1>37, PlaceTells DEF Mark, FinAt
  <2>3. CASE marker' = Current(fin.data) /\ status' = Clean(fin.data) /\ op' = op
    <3>1. marker' # None /\ marker'.st = "current" /\ marker'.cur = fin.data /\ status'.base = fin.data
      BY <2>2, <2>3, ApplyAssumption DEF Current, Clean, Markers
    <3> QED BY <2>2, <2>3, <3>1
  <2>4. CASE UNCHANGED marker /\ WriteFailed
    <3>1. status'.base = status.base
      BY <2>1, <2>4 DEF WriteFailed, GiveUp
    <3>2. op' = Idle \/ op' = op
      BY <2>4 DEF WriteFailed, GiveUp
    <3> QED BY <2>2, <2>4, <3>1, <3>2
  <2> QED BY <1>37, <2>3, <2>4 DEF Mark
<1>38. CASE Retry
  <2>0. StatusOK
    BY DEF StatusOK
  <2>1. /\ Marked("failed").base = status.base /\ Marked("inconsistent").base = status.base
        /\ Marked("ahead").base = status.base
        /\ Marked("failed").state = "failed" /\ Marked("inconsistent").state = "inconsistent"
    BY <2>0, StatusClosed
  <2>2. marker # None /\ UNCHANGED marker /\ op.kind # "boot"
    BY <1>38, RetryMoves
  <2>3. status'.base = status.base
    BY <1>38, <2>1, RetryMoves
  <2>4. op' = op \/ op'.kind = "retry"
    BY ZenonT(60), <1>38, RetryMoves
  <2> QED BY <2>2, <2>3, <2>4
<1>39. CASE Reread
  BY <1>39 DEF Reread, FinAt
<1>40. CASE Settle
  <2>0. StatusOK
    BY DEF StatusOK
  <2> QED BY <1>40, <2>0, StatusClosed DEF Settle, FinAt, FinGoto
<1>41. CASE ClearGate
  BY <1>41 DEF ClearGate, FinAt
<1>42. CASE Drain
  <2>0. StatusOK
    BY DEF StatusOK
  <2> QED BY <1>42, <2>0, StatusClosed DEF Drain
<1>43. CASE Crash
  BY <1>43 DEF Crash, Spend
<1>44. CASE UNCHANGED vars
  BY <1>44 DEF vars
<1> QED BY <1>1, <1>2, <1>3, <1>4, <1>5, <1>6, <1>7, <1>8, <1>9, <1>10, <1>11, <1>12, <1>13, <1>14, <1>15, <1>16,
     <1>17, <1>18, <1>19, <1>20, <1>21, <1>22, <1>23, <1>24, <1>25, <1>26, <1>27, <1>28, <1>29, <1>30, <1>31,
     <1>32, <1>33, <1>34, <1>35, <1>36, <1>37, <1>38, <1>39, <1>40, <1>41, <1>42, <1>43, <1>44 DEF Next, OpStep,
     FinStep

(* Backup before marker, marker before write, and back in reverse order.   *)
LEMMA SidecarsNext == Sound /\ [Next]_vars => Sidecars'
<1> SUFFICES ASSUME Sound, [Next]_vars PROVE Sidecars'
  OBVIOUS
<1> USE DEF Sound, TypeOK, Ops, OpPlaces, Fins, FinPlaces, OpShape, FinShape, Sidecars, BackupIsBase, Admittance,
     Idle, disk, mem, hist
<1>1. ASSUME NEW c \in Edits \union {Initial}, Edit(c) PROVE Sidecars'
  BY <1>1 DEF Edit, Spend
<1>2. ASSUME NEW k \in {"hot", "stage"}, NEW d \in Candidates, Begin(k, d) PROVE Sidecars'
  BY <1>2 DEF Begin, Spend
<1>3. ASSUME NEW k \in {"adopt", "discard", "status"}, Begin(k, None) PROVE Sidecars'
  BY <1>3 DEF Begin, Spend
<1>4. CASE Refresh
  <2> HIDE DEF Ops, OpPlaces, Fins, FinPlaces, OpShape, FinShape, Idle, Sidecars, BackupIsBase, Sound, TypeOK
  <2> DEFINE r == PlanAfter(plan, bak, file, FALSE)
  <2>1. /\ r.plan # None => plan # None /\ r.bak = bak /\ r.plan.base = plan.base
        /\ ~r.bad => (r.pend <=> r.plan # None)
        /\ ~r.bad /\ r.plan # None => r.plan.st = "staged"
    BY PlanStands DEF Sound, PlanOutcome
  <2>2. CASE plan' = r.plan /\ bak' = r.bak /\ pend' = r.pend /\ ~r.bad
    <3>1. op' = Idle \/ (op'.pc = "read" /\ op'.prev = op.prev)
      BY <1>4, RefreshMoves DEF Moved
    <3>2. BackupIsBase'
      BY <2>1, <2>2 DEF Sound, Sidecars, BackupIsBase
    <3>3. (pend' <=> plan' # None) /\ (plan' # None => plan'.st = "staged")
      BY <2>1, <2>2
    <3> QED BY <3>1, <3>2, <3>3 DEF Sidecars, Idle
  <2>3. CASE plan' = r.plan /\ bak' = r.bak /\ op' = Idle
    BY <2>1, <2>3 DEF Sound, Sidecars, BackupIsBase, Idle
  <2>4. CASE plan' = plan /\ bak' = bak /\ op' = Idle
    BY <2>4 DEF Sound, Sidecars, BackupIsBase, Idle
  <2> QED BY <1>4, <2>2, <2>3, <2>4 DEF Refresh, Release
<1>5. CASE ReadFile
  BY <1>5 DEF ReadFile
<1>6. CASE Assess
  BY <1>6 DEF Assess, Assessed
<1>7. CASE Admit
  BY <1>7, AdmitMoves DEF Admit
<1>8. CASE Backup
  <2>1. CASE op' = Idle /\ bak' = bak
    BY <1>8, <2>1, BackupMoves
  <2>2. CASE bak' = Saved /\ Moved("prepare", op.base, op.seen, plan)
    BY <1>8, <2>2, BackupMoves DEF Saved, IsUpdate, Moved
  <2> QED BY <1>8, <2>1, <2>2, BackupMoves
<1>9. CASE Prepare
  <2>0. op.base \in Contents /\ op.data \in Contents
    BY <1>9, PlaceTells DEF Prepare, At, Contents
  <2>1. CASE /\ plan'.base = (IF IsUpdate THEN plan.base ELSE op.base)
             /\ plan' \in Plans
             /\ op' = [op EXCEPT !.pc = "verify"]
    BY <1>9, <2>1, ApplyAssumption DEF Prepare, At, IsUpdate
  <2>2. CASE op' = Idle /\ UNCHANGED plan
    BY <1>9, <2>2 DEF Prepare
  <2>3. ASSUME plan' = [st |-> "prepared", staged |-> op.data,
                      base    |-> IF IsUpdate THEN plan.base ELSE op.base,
                      prev    |-> IF IsUpdate THEN plan.staged ELSE None,
                      serving |-> IF IsUpdate THEN plan.serving ELSE live]
        PROVE  plan'.base = (IF IsUpdate THEN plan.base ELSE op.base) /\ plan' \in Plans
    BY <2>0, <2>3 DEF IsUpdate, Plans
  <2> QED BY <1>9, <2>1, <2>2, <2>3 DEF Prepare, Goto, Release
<1>10. CASE Verify
  BY <1>10 DEF Verify, Goto, Release, AbortPrepared, Fail, CanFail, Spend
<1>11. CASE BeginWrite
  BY <1>11 DEF BeginWrite, Goto, Release, AbortPrepared, Fail, CanFail, Spend, Preparing
<1>12. CASE Write
  BY <1>12 DEF Write, Goto, Fail, CanFail, Spend, Release, InFlightAfterWrite
<1>13. CASE Submit
  BY <1>13, SubmitMoves DEF Submit, Marked, Finalizer
<1>14. CASE Promote
  <2>0. plan \in Plans
    BY <1>14, PlaceTells DEF Promote
  <2>1. CASE plan' = plan /\ op' = Idle
    BY <1>14, <2>1 DEF Promote
  <2>2. CASE /\ plan' \in {[plan EXCEPT !.st = "staged", !.prev = None], [plan EXCEPT !.st = "staged"]}
             /\ op'.kind = "stage" /\ op'.pc \in {"confirm", "complete"}
    <3>1. plan'.base = plan.base
      BY <2>0, <2>2 DEF Plans
    <3> QED BY <1>14, <2>0, <2>2, <3>1 DEF Promote
  <2> QED BY <1>14, <2>1, <2>2, PlaceTells DEF Promote, Goto, Release
<1>15. CASE Confirm
  BY <1>15 DEF Confirm, Release, Goto
<1>16. CASE CompleteStage
  BY <1>16 DEF CompleteStage, Finalizer, Goto
<1>17. CASE Return
  BY <1>17 DEF Return, Release
<1>18. CASE DiscardCheck
  BY <1>18, DiscardMoves DEF Moved
<1>19. CASE Revert
  BY <1>19 DEF Revert, Goto, Fail, CanFail, Spend, Release
<1>20. CASE RemoveMarker
  BY <1>20 DEF RemoveMarker, Goto
<1>21. CASE RemoveBackup
  BY <1>21 DEF RemoveBackup, Goto
<1>22. CASE Fence
  BY <1>22 DEF Fence, At, Goto, Release
<1>23. CASE Commit
  BY <1>23 DEF Commit, Current, Clean, Goto, Fail, CanFail, Spend, Release
<1>24. CASE KeepSnapshot
  BY <1>24 DEF KeepSnapshot, Goto, Release, Fail, CanFail, Spend
<1>25. CASE KeepAgain
  BY <1>25 DEF KeepAgain, Goto, Fail, CanFail, Spend, Marked
<1>26. CASE Recheck
  BY <1>26 DEF Recheck, Assessed, Clean
<1>27. CASE Adopted
  BY <1>27 DEF Adopted, Release, Marked
<1>28. CASE Recover
  <2> HIDE DEF Ops, OpPlaces, Fins, FinPlaces, OpShape, FinShape, Idle, Sidecars, BackupIsBase, Sound, TypeOK
  <2> DEFINE p == PlanAfter(plan, bak, file, TRUE)
  <2>1. p.plan # None => plan # None /\ p.bak = bak /\ p.plan.base = plan.base
    BY PlanStands DEF Sound, PlanOutcome
  <2>2. plan' = p.plan /\ bak' = p.bak /\ op' = Idle
    BY <1>28 DEF Recover, Release
  <2> QED BY <2>1, <2>2 DEF Sound, Sidecars, BackupIsBase, Idle
<1>29. CASE Rejected
  BY <1>29 DEF Rejected, At, Release
<1>30. CASE Noticed
  BY ZenonT(60), <1>30 DEF Noticed
<1>31. CASE Reload
  BY <1>31 DEF Reload, FinAt, FinGoto, Marked
<1>32. CASE RestoreCheck
  BY <1>32 DEF RestoreCheck, FinAt, FinGoto
<1>33. CASE Restore
  BY <1>33 DEF Restore, FinAt, FinGoto, Fail, CanFail, Spend
<1>34. CASE Outcome
  BY <1>34 DEF Outcome, FinAt, FinGoto, Restored, Marked
<1>35. CASE Rewind
  BY <1>35 DEF Rewind, FinAt, FinGoto, Current, Clean, Fail, CanFail, Spend
<1>36. CASE Snapshot
  BY <1>36 DEF Snapshot, FinAt, FinGoto, Fail, CanFail, Spend, WriteFailed, GiveUp, Marked
<1>37. CASE Mark
  BY <1>37 DEF Mark, FinAt, FinGoto, Fail, CanFail, Spend, WriteFailed, GiveUp, Marked, Current, Clean
<1>38. CASE Retry
  <2>1. UNCHANGED <<plan, bak, pend>>
    BY <1>38, RetryMoves
  <2>2. op' = op \/ (op'.kind = "retry" /\ op'.pc = "held")
    BY <1>38, RetryMoves
  <2> QED BY <2>1, <2>2
<1>39. CASE Reread
  BY <1>39 DEF Reread, FinAt
<1>40. CASE Settle
  BY <1>40 DEF Settle, FinAt, FinGoto, Assessed, Clean
<1>41. CASE ClearGate
  BY <1>41 DEF ClearGate, FinAt
<1>42. CASE Drain
  BY <1>42 DEF Drain, Assessed, Clean
<1>43. CASE Crash
  BY <1>43 DEF Crash, Spend
<1>44. CASE UNCHANGED vars
  BY <1>44 DEF vars
<1> QED BY <1>1, <1>2, <1>3, <1>4, <1>5, <1>6, <1>7, <1>8, <1>9, <1>10, <1>11, <1>12, <1>13, <1>14, <1>15, <1>16,
     <1>17, <1>18, <1>19, <1>20, <1>21, <1>22, <1>23, <1>24, <1>25, <1>26, <1>27, <1>28, <1>29, <1>30, <1>31,
     <1>32, <1>33, <1>34, <1>35, <1>36, <1>37, <1>38, <1>39, <1>40, <1>41, <1>42, <1>43, <1>44 DEF Next, OpStep,
     FinStep

LEMMA TypesByKind == TypeOK <=> DiskOK /\ StatusOK /\ FlagsOK /\ OpOK /\ FinOK /\ UsedOK
BY DEF TypeOK, DiskOK, StatusOK, FlagsOK, OpOK, FinOK, UsedOK

LEMMA SoundInit == Init => Sound
<1> SUFFICES ASSUME Init PROVE Sound
  OBVIOUS
<1> USE ApplyAssumption
<1>0. Initial \in Contents /\ Initial # None
  BY DEF Contents
<1>1. DiskOK
  BY <1>0 DEF Init, DiskOK, Current, Markers
<1>2. StatusOK
  BY <1>0 DEF Init, StatusOK, Statuses, Clean
<1>3. FlagsOK
  BY DEF Init, FlagsOK
<1>4. OpOK
  BY DEF Init, OpOK, Ops, OpPlaces, Idle
<1>5. FinOK
  BY DEF Init, FinOK, Fins, FinPlaces, Drains, NoFin, NoDrain
<1>6. UsedOK
  BY DEF Init, UsedOK
<1>7. OpShape /\ FinShape /\ Gate
  BY DEF Init, OpShape, FinShape, Gate, Idle, NoFin, NoDrain, Admittance
<1>8. Baseline
  <2>1. CASE marker = Current(Initial) /\ status = Clean(Initial)
    <3>1. marker # None /\ marker.st = "current" /\ marker.cur = Initial /\ status.base = Initial
      BY <1>0, <2>1 DEF Current, Clean, Markers
    <3> QED BY <1>0, <3>1 DEF Baseline
  <2>2. CASE marker = None
    BY <2>2, <1>0 DEF Init, Baseline, Idle, NoFin, Admittance, Current, Markers
  <2> QED BY <2>1, <2>2 DEF Init
<1>9. Sidecars
  BY DEF Init, Sidecars, BackupIsBase, Idle
<1> QED BY <1>1, <1>2, <1>3, <1>4, <1>5, <1>6, <1>7, <1>8, <1>9, TypesByKind DEF Sound

LEMMA SoundNext == Sound /\ [Next]_vars => Sound'
<1> SUFFICES ASSUME Sound, [Next]_vars PROVE Sound'
  OBVIOUS
<1>1. DiskOK' /\ StatusOK' /\ FlagsOK' /\ OpOK' /\ FinOK' /\ UsedOK'
  BY DiskOKNext, StatusOKNext, FlagsOKNext, OpOKNext, FinOKNext, UsedOKNext, TypesByKind DEF Sound
<1>2. TypeOK'
  BY <1>1 DEF TypeOK, DiskOK, StatusOK, FlagsOK, OpOK, FinOK, UsedOK
<1> QED BY <1>2, OpShapeNext, FinShapeNext, GateNext, BaselineNext, SidecarsNext DEF Sound

LEMMA SoundAlways == Spec => []Sound
<1> QED BY SoundInit, SoundNext, PTL DEF Spec

LEMMA SoundBasis == Sound => BasisIsSound
<1> SUFFICES ASSUME Sound PROVE BasisIsSound
  OBVIOUS
<1>1. TypeOK /\ BackupIsBase
  BY DEF Sound, Sidecars
<1>2. GateIsHeld
  <2>1. fin.kind = "hot" => fin.data # None
    BY ApplyAssumption DEF Sound, FinShape, Contents
  <2> QED BY <2>1 DEF GateIsHeld, Sound, Gate
<1>3. AdmittedOnSettledBaseline
  BY DEF AdmittedOnSettledBaseline, Sound, Gate, Baseline, Admittance
<1> QED BY <1>1, <1>2, <1>3 DEF BasisIsSound

(* A request builds on a sound basis whatever was requested, edited, failed  *)
(* or crashed before: the gate it passes (ApplyRaw, ApplyRestart) belongs to *)
(* an apply that will open it, the baseline it is admitted on is settled,    *)
(* and the backup is the content that a discard must bring back.             *)
THEOREM ApplyBasisIsSound == Spec => []BasisIsSound
<1> QED BY SoundAlways, SoundBasis, PTL

-----------------------------------------------------------------------------
(* Edits are kept. *)

(* A candidate reaches the file, a backup or a request only by Write. *)
LEMMA KnownNext == Kept /\ [Next]_vars => Known'
<1> SUFFICES ASSUME Kept, [Next]_vars PROVE Known'
  OBVIOUS
<1> USE Apart DEF Kept, Sound, TypeOK, Ops, Fins, Known, Ours, Staged, Idle, NoFin, disk, mem, hist
<1>1. ASSUME NEW c \in Edits \union {Initial}, Edit(c) PROVE Known'
  BY <1>1 DEF Edit
<1>2. ASSUME NEW k \in {"hot", "stage"}, NEW d \in Candidates, Begin(k, d) PROVE Known'
  BY <1>2 DEF Begin
<1>3. ASSUME NEW k \in {"adopt", "discard", "status"}, Begin(k, None) PROVE Known'
  BY <1>3 DEF Begin
<1>4. CASE Refresh
  <2> DEFINE r == PlanAfter(plan, bak, file, FALSE)
  <2>1. PlanOutcome(plan, bak, file, r)
    BY PlanStands
  <2>2. Staged(r.plan) /\ Ours(r.bak)
    <3> HIDE DEF r
    <3> QED BY <2>1 DEF PlanOutcome, Plans
  <2>3. plan' \in {plan, r.plan} /\ bak' \in {bak, r.bak}
    BY <1>4 DEF Refresh
  <2>4. op'.base \in {op.base, None} /\ op'.prev \in {op.prev, None} /\ op'.pc \in {"idle", "read"}
    BY <1>4, RefreshMoves DEF Moved
  <2>5. UNCHANGED <<file, fin, mine>>
    BY <1>4, RefreshMoves
  <2>6. Staged(plan') /\ Ours(bak') /\ Staged(op'.prev) /\ Ours(op'.base)
    <3> HIDE DEF r
    <3> QED BY <2>2, <2>3, <2>4
  <2> QED BY <2>4, <2>5, <2>6
<1>5. CASE ReadFile
  BY <1>5 DEF ReadFile
<1>6. CASE Assess
  BY <1>6 DEF Assess
<1>7. CASE Admit
  BY <1>7, AdmitMoves DEF Admit
<1>8. CASE Backup
  <2>1. CASE op' = Idle /\ bak' = bak
    BY <1>8, <2>1, BackupMoves
  <2>2. CASE bak' = Saved /\ Moved("prepare", op.base, op.seen, plan)
    <3>1. Ours(bak')
      BY <2>2 DEF Saved
    <3> QED BY <1>8, <2>2, <3>1, BackupMoves DEF Moved
  <2> QED BY <1>8, <2>1, <2>2, BackupMoves
<1>9. CASE Prepare
  <2>0. op.data \in Candidates
    BY <1>9 DEF Prepare, At, OpShape
  <2>1. Staged(plan')
    <3>1. CASE plan' = plan
      BY <3>1
    <3>2. CASE plan'.staged = op.data /\ plan'.prev = IF IsUpdate THEN plan.staged ELSE None
      BY <2>0, <3>2 DEF IsUpdate
    <3> QED BY <1>9, <3>1, <3>2 DEF Prepare
  <2>2. op' = Idle \/ op' = [op EXCEPT !.pc = "verify"]
    BY <1>9 DEF Prepare, Goto, Release
  <2> QED BY <1>9, <2>1, <2>2 DEF Prepare
<1>10. CASE Verify
  BY <1>10 DEF Verify, Goto, Release, AbortPrepared
<1>11. CASE BeginWrite
  BY <1>11 DEF BeginWrite, Goto, Release, AbortPrepared, Preparing
<1>12. CASE Write
  BY <1>12 DEF Write, Goto, Release, InFlightAfterWrite
<1>13. CASE Submit
  <2>1. fin'.base = op.base /\ fin'.data = op.data
    BY <1>13, SubmitMoves DEF Finalizer
  <2>2. op'.base \in {op.base, None} /\ op'.prev \in {op.prev, None} /\ op'.pc \in {"idle", "wait"}
    BY <1>13, SubmitMoves
  <2> QED BY <1>13, <2>1, <2>2 DEF Submit
<1>14. CASE Promote
  <2>1. Staged(plan')
    <3>0. plan \in Plans
      BY <1>14, PlaceTells DEF Promote, Sidecars
    <3>1. CASE plan' = plan
      BY <3>1
    <3>2. CASE plan'.staged = plan.staged /\ plan'.prev \in {plan.prev, None}
      BY <3>0, <3>2, ApplyAssumption
    <3> QED BY ZenonT(60), <1>14, <3>0, <3>1, <3>2 DEF Promote, Plans
  <2>2. op'.base \in {op.base, None} /\ op'.prev \in {op.prev, None}
    BY <1>14 DEF Promote, Goto, Release
  <2>3. op'.pc \in {"confirm", "complete"} => op'.data = op.data
    BY <1>14 DEF Promote, Goto, Release
  <2>4. op'.pc \in {"idle", "confirm", "complete"}
    BY <1>14 DEF Promote, Goto, Release
  <2> QED BY <1>14, <2>1, <2>2, <2>3, <2>4 DEF Promote
<1>15. CASE Confirm
  BY <1>15 DEF Confirm, Release, Goto
<1>16. CASE CompleteStage
  <2>1. fin'.base = op.base /\ fin'.data = op.data
    BY <1>16 DEF CompleteStage, Finalizer
  <2> QED BY <1>16, <2>1 DEF CompleteStage, Goto
<1>17. CASE Return
  BY <1>17 DEF Return, Release
<1>18. CASE DiscardCheck
  BY <1>18, DiscardMoves DEF Moved
<1>19. CASE Revert
  BY <1>19 DEF Revert, Goto, Release
<1>20. CASE RemoveMarker
  BY <1>20 DEF RemoveMarker, Goto
<1>21. CASE RemoveBackup
  BY <1>21 DEF RemoveBackup, Goto
<1>22. CASE Fence
  BY <1>22 DEF Fence, At, Goto, Release
<1>23. CASE Commit
  BY <1>23 DEF Commit, Goto, Release
<1>24. CASE KeepSnapshot
  BY <1>24 DEF KeepSnapshot, Goto, Release
<1>25. CASE KeepAgain
  BY <1>25 DEF KeepAgain, Goto
<1>26. CASE Recheck
  BY <1>26 DEF Recheck
<1>27. CASE Adopted
  BY <1>27 DEF Adopted, Release
<1>28. CASE Recover
  <2> DEFINE r == PlanAfter(plan, bak, file, TRUE)
  <2>1. PlanOutcome(plan, bak, file, r)
    BY PlanStands
  <2>2. Staged(r.plan) /\ Ours(r.bak)
    <3> HIDE DEF r
    <3> QED BY <2>1 DEF PlanOutcome, Plans
  <2>3. plan' = r.plan /\ bak' = r.bak /\ op' = Idle
    BY <1>28 DEF Recover, Release
  <2> QED BY <1>28, <2>2, <2>3 DEF Recover
<1>29. CASE Rejected
  BY <1>29 DEF Rejected, At, Release
<1>30. CASE Noticed
  <2>1. op' = op \/ op' = [Idle EXCEPT !.kind = "assess", !.pc = "read"]
    BY <1>30 DEF Noticed
  <2>2. op'.base = None /\ op'.prev = None /\ op'.pc \in {"idle", "read"}
    <3>1. op = Idle
      BY <1>30 DEF Noticed
    <3>2. CASE op' = op
      BY <3>1, <3>2
    <3>3. CASE op' = [Idle EXCEPT !.kind = "assess", !.pc = "read"]
      BY <3>3
    <3> QED BY <2>1, <3>2, <3>3
  <2> QED BY <1>30, <2>2 DEF Noticed
<1>31. CASE Reload
  BY <1>31 DEF Reload, FinAt, FinGoto
<1>32. CASE RestoreCheck
  BY <1>32 DEF RestoreCheck, FinAt, FinGoto
<1>33. CASE Restore
  BY <1>33 DEF Restore, FinAt, FinGoto
<1>34. CASE Outcome
  BY <1>34 DEF Outcome, FinAt, FinGoto, Restored
<1>35. CASE Rewind
  BY <1>35 DEF Rewind, FinAt, FinGoto
<1>36. CASE Snapshot
  BY <1>36 DEF Snapshot, FinAt, FinGoto, WriteFailed, GiveUp
<1>37. CASE Mark
  BY <1>37 DEF Mark, FinAt, FinGoto, WriteFailed, GiveUp
<1>38. CASE Retry
  <2>1. op' = op \/ (op'.base = None /\ op'.prev = None /\ op'.pc = "held")
    BY ZenonT(60), <1>38, RetryMoves
  <2>2. fin'.kind = fin.kind /\ fin'.base = fin.base /\ fin'.data = fin.data
    BY <1>38, RetryMoves
  <2> QED BY <1>38, <2>1, <2>2, RetryMoves
<1>39. CASE Reread
  BY <1>39 DEF Reread, FinAt
<1>40. CASE Settle
  BY <1>40 DEF Settle, FinAt, FinGoto
<1>41. CASE ClearGate
  BY <1>41 DEF ClearGate, FinAt
<1>42. CASE Drain
  BY <1>42 DEF Drain
<1>43. CASE Crash
  BY <1>43 DEF Crash
<1>44. CASE UNCHANGED vars
  BY <1>44 DEF vars
<1> QED BY <1>1, <1>2, <1>3, <1>4, <1>5, <1>6, <1>7, <1>8, <1>9, <1>10, <1>11, <1>12, <1>13, <1>14, <1>15, <1>16,
     <1>17, <1>18, <1>19, <1>20, <1>21, <1>22, <1>23, <1>24, <1>25, <1>26, <1>27, <1>28, <1>29, <1>30, <1>31,
     <1>32, <1>33, <1>34, <1>35, <1>36, <1>37, <1>38, <1>39, <1>40, <1>41, <1>42, <1>43, <1>44 DEF Next, OpStep,
     FinStep

(* Each write looks at the file first; only an edit comes in between. *)
LEMMA GuardedNext == Kept /\ [Next]_vars => Guarded'
<1> SUFFICES ASSUME Kept, [Next]_vars PROVE Guarded'
  OBVIOUS
<1> USE DEF Kept, Sound, TypeOK, Ops, OpPlaces, Fins, FinPlaces, OpShape, FinShape, Gate, Guarded, IsUpdate,
     Admittance, Idle, NoFin, disk, mem, hist
<1>1. ASSUME NEW c \in Edits \union {Initial}, Edit(c) PROVE Guarded'
  BY <1>1 DEF Edit, Spend
<1>2. ASSUME NEW k \in {"hot", "stage"}, NEW d \in Candidates, Begin(k, d) PROVE Guarded'
  BY <1>2 DEF Begin, Spend
<1>3. ASSUME NEW k \in {"adopt", "discard", "status"}, Begin(k, None) PROVE Guarded'
  BY <1>3 DEF Begin, Spend
<1>4. CASE Refresh
  <2>1. plan = None => plan' = None
    BY <1>4, PlanStands DEF Refresh, PlanOutcome
  <2>2. op'.pc \in {"idle", "read"}
    BY <1>4, RefreshMoves DEF Moved
  <2>3. UNCHANGED <<file, inflight, fin, late>>
    BY <1>4, RefreshMoves
  <2> QED BY <2>1, <2>2, <2>3
<1>5. CASE ReadFile
  BY <1>5 DEF ReadFile
<1>6. CASE Assess
  BY <1>6 DEF Assess, Assessed
<1>7. CASE Admit
  <2>1. op.kind = "hot" /\ ~pend => plan = None
    BY <1>7 DEF Admit, Sidecars
  <2> QED BY <1>7, <2>1, AdmitMoves DEF Admit
<1>8. CASE Backup
  BY <1>8, BackupMoves DEF Moved
<1>9. CASE Prepare
  BY <1>9 DEF Prepare, At, IsUpdate, Goto, Fail, CanFail, Spend, Release
<1>10. CASE Verify
  <2>1. CASE file = op.base /\ late' = FALSE /\ op' = [op EXCEPT !.pc = "begin"] /\ plan' = plan
    BY <1>10, <2>1 DEF Verify
  <2>2. CASE op' = Idle
    BY <1>10, <2>2, PlaceTells DEF Verify
  <2> QED BY <1>10, <2>1, <2>2 DEF Verify, Verified, Goto, Release
<1>11. CASE BeginWrite
  BY <1>11 DEF BeginWrite, Goto, Release, AbortPrepared, Fail, CanFail, Spend, Preparing
<1>12. CASE Write
  BY <1>12 DEF Write, Goto, Fail, CanFail, Spend, Release, InFlightAfterWrite
<1>13. CASE Submit
  BY <1>13, SubmitMoves DEF Submit, Marked, Finalizer
<1>14. CASE Promote
  BY <1>14 DEF Promote, Release, Goto, Fail, CanFail, Spend
<1>15. CASE Confirm
  BY <1>15 DEF Confirm, Release, Goto
<1>16. CASE CompleteStage
  BY <1>16 DEF CompleteStage, Finalizer, Goto
<1>17. CASE Return
  BY <1>17 DEF Return, Release
<1>18. CASE DiscardCheck
  BY <1>18, DiscardMoves DEF Moved
<1>19. CASE Revert
  BY <1>19 DEF Revert, Goto, Fail, CanFail, Spend, Release
<1>20. CASE RemoveMarker
  BY <1>20 DEF RemoveMarker, Goto
<1>21. CASE RemoveBackup
  BY <1>21 DEF RemoveBackup, Goto
<1>22. CASE Fence
  BY <1>22 DEF Fence, At, Goto, Release
<1>23. CASE Commit
  BY <1>23 DEF Commit, Current, Clean, Goto, Fail, CanFail, Spend, Release
<1>24. CASE KeepSnapshot
  BY <1>24 DEF KeepSnapshot, Goto, Release, Fail, CanFail, Spend
<1>25. CASE KeepAgain
  BY <1>25 DEF KeepAgain, Goto, Fail, CanFail, Spend, Marked
<1>26. CASE Recheck
  BY <1>26 DEF Recheck, Assessed, Clean
<1>27. CASE Adopted
  BY <1>27 DEF Adopted, Release, Marked
<1>28. CASE Recover
  <2>1. op' = Idle /\ ~inflight' /\ fin'.pc = "idle"
    BY <1>28, PlaceTells DEF Recover, Release
  <2> QED BY <2>1
<1>29. CASE Rejected
  BY <1>29 DEF Rejected, At, Release
<1>30. CASE Noticed
  BY ZenonT(60), <1>30 DEF Noticed
<1>31. CASE Reload
  BY <1>31 DEF Reload, FinAt, FinGoto, Marked
<1>32. CASE RestoreCheck
  BY <1>32 DEF RestoreCheck, FinAt, FinGoto
<1>33. CASE Restore
  BY <1>33 DEF Restore, FinAt, FinGoto, Fail, CanFail, Spend
<1>34. CASE Outcome
  BY <1>34 DEF Outcome, FinAt, FinGoto, Restored, Marked
<1>35. CASE Rewind
  BY <1>35 DEF Rewind, FinAt, FinGoto, Current, Clean, Fail, CanFail, Spend
<1>36. CASE Snapshot
  BY <1>36 DEF Snapshot, FinAt, FinGoto, Fail, CanFail, Spend, WriteFailed, GiveUp, Marked
<1>37. CASE Mark
  BY <1>37 DEF Mark, FinAt, FinGoto, Fail, CanFail, Spend, WriteFailed, GiveUp, Marked, Current, Clean
<1>38. CASE Retry
  <2>1. CASE file = fin.data /\ fin.kind = "hot"
    BY <1>38, <2>1, RetryMoves
  <2>2. CASE file = fin.data /\ fin.kind = "stage"
    BY <1>38, <2>2, RetryMoves
  <2>3. CASE file # fin.data
    BY <1>38, <2>3, RetryMoves
  <2> QED BY <1>38, <2>1, <2>2, <2>3, RetryMoves
<1>39. CASE Reread
  BY <1>39 DEF Reread, FinAt
<1>40. CASE Settle
  BY <1>40 DEF Settle, FinAt, FinGoto, Assessed, Clean
<1>41. CASE ClearGate
  BY <1>41 DEF ClearGate, FinAt
<1>42. CASE Drain
  BY <1>42 DEF Drain, Assessed, Clean
<1>43. CASE Crash
  BY <1>43 DEF Crash, Spend
<1>44. CASE UNCHANGED vars
  BY <1>44 DEF vars
<1> QED BY <1>1, <1>2, <1>3, <1>4, <1>5, <1>6, <1>7, <1>8, <1>9, <1>10, <1>11, <1>12, <1>13, <1>14, <1>15, <1>16,
     <1>17, <1>18, <1>19, <1>20, <1>21, <1>22, <1>23, <1>24, <1>25, <1>26, <1>27, <1>28, <1>29, <1>30, <1>31,
     <1>32, <1>33, <1>34, <1>35, <1>36, <1>37, <1>38, <1>39, <1>40, <1>41, <1>42, <1>43, <1>44 DEF Next, OpStep,
     FinStep

LEMMA KeptInit == Init => Kept
<1> SUFFICES ASSUME Init PROVE Kept
  OBVIOUS
<1>1. Known
  BY Apart DEF Init, Known, Ours, Staged, Idle, NoFin
<1>2. Guarded
  BY DEF Init, Guarded, Idle, NoFin
<1> QED BY <1>1, <1>2, SoundInit DEF Kept

LEMMA KeptNext == Kept /\ [Next]_vars => Kept'
BY SoundNext, KnownNext, GuardedNext DEF Kept

LEMMA KeptAlways == Spec => []Kept
<1> QED BY KeptInit, KeptNext, PTL DEF Spec

(* What a step of Jul writes over is its own, or what the author of the      *)
(* request saw, or an edit that no look at the file could have seen.         *)
LEMMA KeptStep == Kept /\ [Next]_vars => [(Replaces /\ file \notin mine) => (late \/ file = op.base)]_vars
<1> SUFFICES ASSUME Kept, Next, Replaces, file \notin mine, ~late PROVE file = op.base
  BY DEF vars
<1> USE DEF Kept, disk, mem, hist
<1>1. ASSUME NEW c \in Edits \union {Initial}, Edit(c) PROVE FALSE
  <2>1. used.edits \in Nat /\ used'.edits = used.edits + 1
    BY <1>1 DEF Edit, Spend, Sound, TypeOK
  <2> QED BY <2>1 DEF Replaces
<1>2. CASE Write
  BY <1>2 DEF Write, Guarded
<1>3. ASSUME Restore PROVE FALSE
  <2>1. fin.kind # "none" /\ fin.data \in mine
    BY <1>3, PlaceTells DEF Restore, FinAt, Known
  <2> QED BY <1>3, <2>1 DEF Restore, FinAt, Guarded
<1>4. ASSUME Revert PROVE FALSE
  <2>1. IsUpdate /\ file = plan.staged
    BY <1>4 DEF Revert, Guarded
  <2> QED BY <2>1 DEF IsUpdate, Known, Staged, Ours
<1>5. ASSUME file' = file PROVE FALSE
  BY <1>5 DEF Replaces
<1>6. ASSUME NEW k, NEW d, Begin(k, d) PROVE file' = file
  BY <1>6 DEF Begin
<1>7. CASE OpStep
  BY <1>2, <1>4, <1>5, <1>7 DEF OpStep, Refresh, ReadFile, Assess, Admit, Backup, Prepare, Verify, BeginWrite,
     Submit, Promote, Confirm, CompleteStage, Return, DiscardCheck, RemoveMarker, RemoveBackup, Fence, Commit,
     KeepSnapshot, KeepAgain, Recheck, Adopted, Recover
<1>8. CASE FinStep
  BY <1>3, <1>5, <1>8 DEF FinStep, Reload, RestoreCheck, Outcome, Rewind, Snapshot, Mark, Retry, Reread, Settle,
     ClearGate
<1>9. CASE Rejected \/ Noticed \/ Drain \/ Crash
  BY <1>5, <1>9 DEF Rejected, Noticed, Drain, Crash
<1> QED BY <1>1, <1>5, <1>6, <1>7, <1>8, <1>9 DEF Next

(* No managed write, restoration or discard (verifyBaselineLocked,           *)
(* restorePreviousLocked, DiscardSafe) replaces an operator's edit that its  *)
(* author did not see and that was there when it looked.                     *)
THEOREM ApplyKeepsEdits == Spec => KeepsEdits
<1>1. []Kept /\ [][Next]_vars => [][(Replaces /\ file \notin mine) => (late \/ file = op.base)]_vars
  BY KeptStep, PTL
<1> QED BY <1>1, KeptAlways, PTL DEF Spec, KeepsEdits

-----------------------------------------------------------------------------
(* Drift is reported. *)

(* The watcher's event outlives every step that it could have corrected. *)
LEMMA HeardNext == Noted /\ [Next]_vars => Heard'
<1> SUFFICES ASSUME Noted, [Next]_vars PROVE Heard'
  OBVIOUS
<1> USE DEF Noted, Sound, TypeOK, Ops, OpPlaces, Fins, FinPlaces, OpShape, FinShape, Gate, Heard, Admittance, Idle,
     NoFin, disk, mem, hist
<1>1. ASSUME NEW c \in Edits \union {Initial}, Edit(c) PROVE Heard'
  BY <1>1 DEF Edit
<1>2. ASSUME NEW k \in {"hot", "stage"}, NEW d \in Candidates, Begin(k, d) PROVE Heard'
  BY <1>2 DEF Begin
<1>3. ASSUME NEW k \in {"adopt", "discard", "status"}, Begin(k, None) PROVE Heard'
  BY <1>3 DEF Begin
<1>4. CASE Refresh
  BY <1>4, RefreshMoves DEF Moved
<1>5. CASE ReadFile
  BY <1>5 DEF ReadFile
<1>6. CASE Assess
  BY <1>6 DEF Assess, Assessed
<1>7. CASE Admit
  BY <1>7, AdmitMoves DEF Admit
<1>8. CASE Backup
  BY <1>8, BackupMoves DEF Moved
<1>9. CASE Prepare
  BY <1>9 DEF Prepare, At, IsUpdate, Goto, Release
<1>10. CASE Verify
  BY <1>10 DEF Verify, Goto, Release, AbortPrepared
<1>11. CASE BeginWrite
  BY <1>11 DEF BeginWrite, Goto, Release, AbortPrepared, Preparing
<1>12. CASE Write
  BY <1>12 DEF Write, Goto, Release, InFlightAfterWrite
<1>13. CASE Submit
  BY <1>13, SubmitMoves DEF Submit, Marked, Finalizer
<1>14. CASE Promote
  BY <1>14 DEF Promote, Release, Goto
<1>15. CASE Confirm
  BY <1>15 DEF Confirm, Release, Goto
<1>16. CASE CompleteStage
  BY <1>16 DEF CompleteStage, Finalizer, Goto
<1>17. CASE Return
  BY <1>17 DEF Return, Release
<1>18. CASE DiscardCheck
  BY <1>18, DiscardMoves DEF Moved
<1>19. CASE Revert
  BY <1>19 DEF Revert, Goto, Release
<1>20. CASE RemoveMarker
  BY <1>20 DEF RemoveMarker, Goto
<1>21. CASE RemoveBackup
  BY <1>21 DEF RemoveBackup, Goto
<1>22. CASE Fence
  BY <1>22 DEF Fence, At, Goto, Release
<1>23. CASE Commit
  BY <1>23 DEF Commit, Clean, Goto, Release
<1>24. CASE KeepSnapshot
  BY <1>24 DEF KeepSnapshot, Goto, Release
<1>25. CASE KeepAgain
  <2>1. status' = status \/ status'.state = "inconsistent"
    BY <1>25, MarkedIs DEF KeepAgain
  <2> QED BY <1>25, <2>1, PlaceTells DEF KeepAgain, Goto
<1>26. CASE Recheck
  BY <1>26 DEF Recheck, Assessed, Clean
<1>27. CASE Adopted
  BY <1>27 DEF Adopted, Release, Marked
<1>28. CASE Recover
  BY <1>28 DEF Recover, Release
<1>29. CASE Rejected
  BY <1>29 DEF Rejected, At, Release
<1>30. CASE Noticed
  <2>1. op'.pc \in {"idle", "read"} /\ op'.kind \in {"none", "assess"}
    BY <1>30 DEF Noticed
  <2>2. fin.pc # "settle" /\ ~(fin.kind = "hot" /\ fin.again /\ fin.pc \in {"snapshot", "mark", "read"})
    BY <1>30 DEF Noticed, MuFree
  <2> QED BY <1>30, <2>1, <2>2 DEF Noticed
<1>31. CASE Reload
  BY <1>31 DEF Reload, FinAt, FinGoto, Marked
<1>32. CASE RestoreCheck
  BY <1>32 DEF RestoreCheck, FinAt, FinGoto
<1>33. CASE Restore
  BY <1>33 DEF Restore, FinAt, FinGoto
<1>34. CASE Outcome
  BY <1>34 DEF Outcome, FinAt, FinGoto, Restored, Marked
<1>35. CASE Rewind
  BY <1>35 DEF Rewind, FinAt, FinGoto, Clean
<1>36. CASE Snapshot
  BY <1>36 DEF Snapshot, FinAt, FinGoto, WriteFailed, GiveUp, Marked
<1>37. CASE Mark
  BY <1>37 DEF Mark, FinAt, FinGoto, WriteFailed, GiveUp, Marked, Clean
<1>38. CASE Retry
  <2>1. op' = op \/ (op = Idle /\ op'.pc = "held" /\ op'.kind = "retry")
    BY ZenonT(60), <1>38, RetryMoves
  <2>2. CASE op' = op /\ fin'.pc = "clear" /\ fin'.again = fin.again /\ fin'.kind = fin.kind
    <3>1. op.kind = "adopt" => op.pc = "fence" \/ status' = status
      BY <1>38, RetryMoves
    <3> QED BY <1>38, <2>2, <3>1, RetryMoves
  <2>3. CASE fin'.pc = "snapshot" /\ fin'.kind = fin.kind
    BY ZenonT(60), <1>38, <2>3, RetryMoves
  <2> QED BY <1>38, <2>2, <2>3, RetryMoves
<1>39. CASE Reread
  BY <1>39 DEF Reread, FinAt
<1>40. CASE Settle
  BY <1>40 DEF Settle, FinAt, FinGoto, Assessed, Clean
<1>41. CASE ClearGate
  BY <1>41 DEF ClearGate, FinAt
<1>42. CASE Drain
  <2>1. status' = status \/ status' = Assessed(status, drain.seen)
    BY <1>42 DEF Drain
  <2>2. status.state \notin {"unadopted", "failed"} => status'.state \notin {"unadopted", "failed"}
    BY <2>1, StatusClosed DEF StatusOK
  <2> QED BY <1>42, <2>2 DEF Drain
<1>43. CASE Crash
  BY <1>43 DEF Crash
<1>44. CASE UNCHANGED vars
  BY <1>44 DEF vars
<1> QED BY <1>1, <1>2, <1>3, <1>4, <1>5, <1>6, <1>7, <1>8, <1>9, <1>10, <1>11, <1>12, <1>13, <1>14, <1>15, <1>16,
     <1>17, <1>18, <1>19, <1>20, <1>21, <1>22, <1>23, <1>24, <1>25, <1>26, <1>27, <1>28, <1>29, <1>30, <1>31,
     <1>32, <1>33, <1>34, <1>35, <1>36, <1>37, <1>38, <1>39, <1>40, <1>41, <1>42, <1>43, <1>44 DEF Next, OpStep,
     FinStep

(* A step that makes the status wrong leaves an assessment to come. *)
LEMMA NotedRight == Noted /\ [Next]_vars => (outdated \/ Right \/ Coming)'
<1> SUFFICES ASSUME Noted, [Next]_vars PROVE (outdated \/ Right \/ Coming)'
  OBVIOUS
<1> USE DEF Noted, Sound, TypeOK, Ops, OpPlaces, Fins, FinPlaces, OpShape, FinShape, Gate, Heard, Right, Coming,
     Idle, NoFin, NoDrain, disk, mem, hist
<1>1. ASSUME NEW c \in Edits \union {Initial}, Edit(c) PROVE (outdated \/ Right \/ Coming)'
  BY <1>1 DEF Edit
<1>2. ASSUME NEW k \in {"hot", "stage"}, NEW d \in Candidates, Begin(k, d) PROVE (outdated \/ Right \/ Coming)'
  BY <1>2 DEF Begin
<1>3. ASSUME NEW k \in {"adopt", "discard", "status"}, Begin(k, None) PROVE (outdated \/ Right \/ Coming)'
  BY <1>3 DEF Begin
<1>4. CASE Refresh
  BY <1>4, RefreshMoves DEF Moved
<1>5. CASE ReadFile
  BY <1>5 DEF ReadFile
<1>6. CASE Assess
  <2>1. CASE op.seen = file
    <3>1. Right'
      BY <1>6, <2>1, AssessedRight DEF Assess, StatusOK
    <3> QED BY <3>1
  <2>2. CASE watch
    BY <1>6, <2>2 DEF Assess
  <2> QED BY <1>6, <2>1, <2>2 DEF Assess
<1>7. CASE Admit
  BY <1>7, AdmitMoves DEF Admit
<1>8. CASE Backup
  BY <1>8, BackupMoves DEF Moved
<1>9. CASE Prepare
  BY <1>9 DEF Prepare, At, IsUpdate, Goto, Release
<1>10. CASE Verify
  BY <1>10 DEF Verify, Goto, Release, AbortPrepared
<1>11. CASE BeginWrite
  BY <1>11 DEF BeginWrite, Goto, Release, AbortPrepared, Preparing
<1>12. CASE Write
  BY <1>12 DEF Write, Goto, Release, InFlightAfterWrite
<1>13. CASE Submit
  <2>1. status' = status \/ status'.state = "failed"
    BY <1>13, SubmitMoves, MarkedIs
  <2> QED BY <1>13, <2>1, SubmitMoves DEF Submit, Finalizer
<1>14. CASE Promote
  BY <1>14 DEF Promote, Release, Goto
<1>15. CASE Confirm
  BY <1>15 DEF Confirm, Release, Goto
<1>16. CASE CompleteStage
  BY <1>16 DEF CompleteStage, Finalizer, Goto
<1>17. CASE Return
  BY <1>17 DEF Return, Release
<1>18. CASE DiscardCheck
  BY <1>18, DiscardMoves DEF Moved
<1>19. CASE Revert
  BY <1>19 DEF Revert, Goto, Release
<1>20. CASE RemoveMarker
  BY <1>20 DEF RemoveMarker, Goto
<1>21. CASE RemoveBackup
  BY <1>21 DEF RemoveBackup, Goto
<1>22. CASE Fence
  BY <1>22 DEF Fence, At, Goto, Release
<1>23. CASE Commit
  <2>1. CASE op' = [op EXCEPT !.pc = "keep"] /\ status' = Clean(op.base) /\ op.kind = "adopt"
    BY <1>23, <2>1 DEF Commit
  <2>2. CASE op.kind = "discard"
    BY <1>23, <2>2 DEF Commit
  <2>3. CASE op' = Idle /\ status' = status
    BY <1>23, <2>3 DEF Commit
  <2> QED BY <1>23, <2>1, <2>2, <2>3, PlaceTells DEF Commit, Goto, Release
<1>24. CASE KeepSnapshot
  BY <1>24 DEF KeepSnapshot, Goto, Release
<1>25. CASE KeepAgain
  <2>1. CASE status' = status
    BY <1>25, <2>1 DEF KeepAgain, Goto, Clean
  <2>2. CASE status'.state = "inconsistent"
    BY <2>2
  <2> QED BY <1>25, <2>1, <2>2, MarkedIs DEF KeepAgain
<1>26. CASE Recheck
  <2>1. CASE file # op.base
    <3>1. Right'
      BY <1>26, <2>1, AssessedRight DEF Recheck, StatusOK
    <3> QED BY <3>1
  <2>2. CASE file = op.base
    BY <1>26, <2>2 DEF Recheck, Clean
  <2> QED BY <2>1, <2>2
<1>27. CASE Adopted
  <2>1. CASE status' = status
    BY <1>27, <2>1 DEF Adopted, Release
  <2>2. CASE status' = Marked("ahead") /\ status.state \notin {"inconsistent", "drift"}
    <3>1. status'.state = "ahead" /\ status'.base = status.base /\ status.state \in {"clean", "ahead"}
      BY <1>27, <2>2, MarkedIs, PlaceTells DEF Adopted, Statuses
    <3> QED BY <1>27, <3>1 DEF Adopted, Release
  <2> QED BY <1>27, <2>1, <2>2 DEF Adopted
<1>28. CASE Recover
  <2> DEFINE r == Reconciled(marker, snap, file)
  <2>1. /\ r.status \in Statuses
        /\ r.status.state \notin {"ahead", "failed"}
        /\ r.status.state \in {"clean", "drift"} => (r.status.state = "drift" <=> file # r.status.base)
    BY ReconciledIs DEF Baseline
  <2>2. status' = r.status \/ status' = [r.status EXCEPT !.state = "inconsistent"]
    BY <1>28 DEF Recover
  <2>3. file' = file
    BY <1>28 DEF Recover
  <2> HIDE DEF r
  <2>4. Right'
    BY <2>1, <2>2, <2>3 DEF Statuses
  <2> QED BY <2>4
<1>29. CASE Rejected
  BY <1>29 DEF Rejected, At, Release
<1>30. CASE Noticed
  BY <1>30 DEF Noticed
<1>31. CASE Reload
  <2>1. status' = status \/ status'.state = "failed"
    BY <1>31, MarkedIs DEF Reload
  <2> QED BY <1>31, <2>1 DEF Reload, FinAt, FinGoto
<1>32. CASE RestoreCheck
  BY <1>32 DEF RestoreCheck, FinAt, FinGoto
<1>33. CASE Restore
  BY <1>33 DEF Restore, FinAt, FinGoto
<1>34. CASE Outcome
  <2>1. status' = status \/ status'.state = "inconsistent"
    BY <1>34, MarkedIs DEF Outcome
  <2> QED BY <1>34, <2>1 DEF Outcome, FinAt, FinGoto
<1>35. CASE Rewind
  BY <1>35 DEF Rewind, FinAt, FinGoto, Clean
<1>36. CASE Snapshot
  <2>1. CASE status'.state = "inconsistent"
    BY <2>1
  <2>2. CASE status' = status /\ op' = op
    BY <1>36, <2>2 DEF Snapshot, FinAt, FinGoto, WriteFailed, GiveUp
  <2> QED BY <1>36, <2>1, <2>2, MarkedIs DEF Snapshot, WriteFailed, GiveUp
<1>37. CASE Mark
  <2>1. CASE status'.state = "inconsistent"
    BY <2>1
  <2>2. CASE status' = status /\ op' = op /\ fin' = [fin EXCEPT !.pc = "retry"]
    BY <1>37, <2>2 DEF Mark, FinAt
  <2>3. CASE fin' = [fin EXCEPT !.pc = "read"]
    BY <2>3
  <2> QED BY <1>37, <2>1, <2>2, <2>3, MarkedIs DEF Mark, FinGoto, WriteFailed, GiveUp
<1>38. CASE Retry
  <2>1. CASE status'.state = "inconsistent"
    BY <2>1
  <2>2. CASE status' = status
    <3>1. op' = op \/ (op = Idle /\ op'.pc = "held" /\ op'.kind = "retry")
      BY ZenonT(60), <1>38, RetryMoves
    <3> QED BY <1>38, <2>2, <3>1, RetryMoves
  <2> QED BY <1>38, <2>1, <2>2, MarkedIs, RetryMoves
<1>39. CASE Reread
  BY <1>39 DEF Reread, FinAt
<1>40. CASE Settle
  BY <1>40 DEF Settle, FinAt, FinGoto, Assessed, Clean
<1>41. CASE ClearGate
  BY <1>41 DEF ClearGate, FinAt
<1>42. CASE Drain
  <2>1. CASE drain.pc = "check"
    BY <1>42, <2>1 DEF Drain, Drains
  <2>2. CASE drain.pc = "read"
    BY <1>42, <2>2 DEF Drain
  <2>3. CASE drain.pc = "assess"
    <3>1. CASE file = drain.seen
      <4>1. Right'
        BY <1>42, <2>3, <3>1, AssessedRight DEF Drain, StatusOK
      <4> QED BY <4>1
    <3>2. CASE file # drain.seen
      BY <1>42, <2>3, <3>2 DEF Drain
    <3> QED BY <3>1, <3>2
  <2> QED BY <1>42, <2>1, <2>2, <2>3 DEF Drain
<1>43. CASE Crash
  BY <1>43 DEF Crash
<1>44. CASE UNCHANGED vars
  BY <1>44 DEF vars
<1> QED BY <1>1, <1>2, <1>3, <1>4, <1>5, <1>6, <1>7, <1>8, <1>9, <1>10, <1>11, <1>12, <1>13, <1>14, <1>15, <1>16,
     <1>17, <1>18, <1>19, <1>20, <1>21, <1>22, <1>23, <1>24, <1>25, <1>26, <1>27, <1>28, <1>29, <1>30, <1>31,
     <1>32, <1>33, <1>34, <1>35, <1>36, <1>37, <1>38, <1>39, <1>40, <1>41, <1>42, <1>43, <1>44 DEF Next, OpStep,
     FinStep

LEMMA NotedInit == Init => Noted
<1> SUFFICES ASSUME Init PROVE Noted
  OBVIOUS
<1>1. Heard
  BY DEF Init, Heard, Idle, NoFin
<1>2. Right
  BY DEF Init, Right, Clean
<1> QED BY <1>1, <1>2, SoundInit DEF Noted

LEMMA NotedNext == Noted /\ [Next]_vars => Noted'
BY SoundNext, HeardNext, NotedRight DEF Noted

(* However the watcher's events, the deferred assessment of a transaction in *)
(* flight (AssessDriftNow, drainPendingDriftAssessment) and the external     *)
(* writer interleave, what is reported in the end is the drift there is.     *)
THEOREM ApplyDriftIsReported == Spec => []DriftIsReported
<1>1. Noted => DriftIsReported
  BY DEF Noted, DriftIsReported, Quiet, Right, Coming, Idle, NoFin, NoDrain
<1> QED BY <1>1, NotedInit, NotedNext, PTL DEF Spec

-----------------------------------------------------------------------------
(* A crash recovers. *)

(* The history only grows. *)
LEMMA Counted == Sound /\ [Next]_vars => Counts
<1> SUFFICES ASSUME Sound, [Next]_vars PROVE Counts
  OBVIOUS
<1> USE DEF Sound, TypeOK, Counts, disk, mem, hist
<1>1. ASSUME NEW c \in Edits \union {Initial}, Edit(c) PROVE Counts
  BY <1>1 DEF Edit, Spend
<1>2. ASSUME NEW k \in {"hot", "stage"}, NEW d \in Candidates, Begin(k, d) PROVE Counts
  BY <1>2 DEF Begin, Spend
<1>3. ASSUME NEW k \in {"adopt", "discard", "status"}, Begin(k, None) PROVE Counts
  BY <1>3 DEF Begin, Spend
<1>4. CASE Refresh
  <2>1. UNCHANGED used \/ Fail
    BY <1>4 DEF Refresh
  <2> QED BY <1>4, <2>1 DEF Refresh, Fail, Spend
<1>5. CASE ReadFile
  BY <1>5 DEF ReadFile
<1>6. CASE Assess
  BY <1>6 DEF Assess
<1>7. CASE Admit
  BY <1>7 DEF Admit
<1>8. CASE Backup
  BY <1>8 DEF Backup, At, Fail, Spend
<1>9. CASE Prepare
  BY <1>9 DEF Prepare, At, IsUpdate, Fail, Spend
<1>10. CASE Verify
  BY <1>10 DEF Verify, Fail, Spend
<1>11. CASE BeginWrite
  BY <1>11 DEF BeginWrite, Fail, Spend
<1>12. CASE Write
  BY <1>12 DEF Write, Fail, Spend, InFlightAfterWrite
<1>13. CASE Submit
  BY <1>13 DEF Submit, Finalizer
<1>14. CASE Promote
  BY <1>14 DEF Promote, Fail, Spend
<1>15. CASE Confirm
  BY <1>15 DEF Confirm
<1>16. CASE CompleteStage
  BY <1>16 DEF CompleteStage, Finalizer
<1>17. CASE Return
  BY <1>17 DEF Return
<1>18. CASE DiscardCheck
  BY <1>18 DEF DiscardCheck
<1>19. CASE Revert
  BY <1>19 DEF Revert, Fail, Spend
<1>20. CASE RemoveMarker
  BY <1>20 DEF RemoveMarker
<1>21. CASE RemoveBackup
  BY <1>21 DEF RemoveBackup
<1>22. CASE Fence
  BY <1>22 DEF Fence, At
<1>23. CASE Commit
  <2>1. torn => torn'
    BY <1>23 DEF Commit
  <2> QED BY <1>23, <2>1 DEF Commit, Fail, Spend
<1>24. CASE KeepSnapshot
  BY <1>24 DEF KeepSnapshot, Fail, Spend
<1>25. CASE KeepAgain
  BY <1>25 DEF KeepAgain, Fail, Spend
<1>26. CASE Recheck
  BY <1>26 DEF Recheck
<1>27. CASE Adopted
  BY <1>27 DEF Adopted
<1>28. CASE Recover
  BY <1>28 DEF Recover, Fail, Spend
<1>29. CASE Rejected
  BY <1>29 DEF Rejected, At
<1>30. CASE Noticed
  BY <1>30 DEF Noticed
<1>31. CASE Reload
  BY <1>31 DEF Reload, FinAt
<1>32. CASE RestoreCheck
  BY <1>32 DEF RestoreCheck, FinAt
<1>33. CASE Restore
  BY <1>33 DEF Restore, FinAt, Fail, Spend
<1>34. CASE Outcome
  BY <1>34 DEF Outcome, FinAt, Restored
<1>35. CASE Rewind
  BY <1>35 DEF Rewind, FinAt, Fail, Spend
<1>36. CASE Snapshot
  BY <1>36 DEF Snapshot, FinAt, Fail, Spend
<1>37. CASE Mark
  BY <1>37 DEF Mark, FinAt, Fail, Spend
<1>38. CASE Retry
  BY <1>38 DEF Retry, FinAt
<1>39. CASE Reread
  BY <1>39 DEF Reread, FinAt
<1>40. CASE Settle
  BY <1>40 DEF Settle, FinAt
<1>41. CASE ClearGate
  BY <1>41 DEF ClearGate, FinAt
<1>42. CASE Drain
  <2>1. outdated => outdated'
    BY <1>42 DEF Drain
  <2> QED BY <1>42, <2>1 DEF Drain
<1>43. CASE Crash
  BY <1>43 DEF Crash, Spend
<1>44. CASE UNCHANGED vars
  BY <1>44 DEF vars
<1> QED BY <1>1, <1>2, <1>3, <1>4, <1>5, <1>6, <1>7, <1>8, <1>9, <1>10, <1>11, <1>12, <1>13, <1>14, <1>15, <1>16,
     <1>17, <1>18, <1>19, <1>20, <1>21, <1>22, <1>23, <1>24, <1>25, <1>26, <1>27, <1>28, <1>29, <1>30, <1>31,
     <1>32, <1>33, <1>34, <1>35, <1>36, <1>37, <1>38, <1>39, <1>40, <1>41, <1>42, <1>43, <1>44 DEF Next, OpStep,
     FinStep

LEMMA RecordedNext == Kept /\ Recorded /\ [Next]_vars => Recorded'
<1> SUFFICES ASSUME Kept, Recorded, [Next]_vars PROVE Recorded'
  OBVIOUS
<1> USE DEF Kept, Recorded, Sound, TypeOK, Ops, OpPlaces, Fins, FinPlaces, OpShape, FinShape, Gate, Guarded, Idle,
     NoFin, disk, mem, hist
<1>1. ASSUME NEW c \in Edits \union {Initial}, Edit(c) PROVE Recorded'
  BY <1>1 DEF Edit, Spend
<1>2. ASSUME NEW k \in {"hot", "stage"}, NEW d \in Candidates, Begin(k, d) PROVE Recorded'
  BY <1>2 DEF Begin, Spend
<1>3. ASSUME NEW k \in {"adopt", "discard", "status"}, Begin(k, None) PROVE Recorded'
  BY <1>3 DEF Begin, Spend
<1>4. CASE Refresh
  BY <1>4, RefreshMoves DEF Moved
<1>5. CASE ReadFile
  BY <1>5 DEF ReadFile
<1>6. CASE Assess
  BY <1>6 DEF Assess
<1>7. CASE Admit
  BY <1>7, AdmitMoves DEF Admit
<1>8. CASE Backup
  BY <1>8, BackupMoves DEF Moved
<1>9. CASE Prepare
  BY <1>9 DEF Prepare, At, IsUpdate, Goto, Spend, Release
<1>10. CASE Verify
  BY <1>10 DEF Verify, Goto, Release, AbortPrepared, Spend
<1>11. CASE BeginWrite
  <2>0. used'.crashes = used.crashes
    BY <1>11 DEF BeginWrite, Fail, Spend
  <2>1. marker # None /\ marker' # None
    BY <1>11, PlaceTells, MarkersAre DEF BeginWrite, Baseline, Admittance, Statuses, Contents
  <2>2. op.kind \in {"hot", "stage"} /\ op'.kind \in {op.kind, "none"}
    BY <1>11, PlaceTells DEF BeginWrite, Goto, Release
  <2> QED BY <1>11, <2>0, <2>1, <2>2 DEF BeginWrite
<1>12. CASE Write
  BY <1>12 DEF Write, Goto, Spend, Release, InFlightAfterWrite
<1>13. CASE Submit
  BY <1>13, SubmitMoves DEF Submit, Marked, Finalizer
<1>14. CASE Promote
  BY <1>14 DEF Promote, Release, Goto, Spend
<1>15. CASE Confirm
  BY <1>15 DEF Confirm, Release, Goto
<1>16. CASE CompleteStage
  BY <1>16 DEF CompleteStage, Finalizer, Goto
<1>17. CASE Return
  BY <1>17 DEF Return, Release
<1>18. CASE DiscardCheck
  <2>1. op' = Idle \/ (op'.kind = "discard" /\ plan # None)
    BY <1>18, DiscardMoves DEF Moved, IsUpdate
  <2>2. inflight => plan = None
    OBVIOUS
  <2> QED BY <1>18, <2>1, <2>2, DiscardMoves
<1>19. CASE Revert
  BY <1>19 DEF Revert, Goto, Spend, Release
<1>20. CASE RemoveMarker
  BY <1>20 DEF RemoveMarker, Goto
<1>21. CASE RemoveBackup
  BY <1>21 DEF RemoveBackup, Goto
<1>22. CASE Fence
  BY <1>22 DEF Fence, At, Goto, Release
<1>23. CASE Commit
  <2>0. used'.crashes = used.crashes
    BY <1>23 DEF Commit, Fail, Spend
  <2>1. marker' \in {marker, Current(op.base)} /\ Current(op.base) # None
    BY <1>23, PlaceTells, MarkersAre DEF Commit
  <2>2. op' = Idle \/ (op'.kind = op.kind /\ op'.pc = "keep")
    BY <1>23 DEF Commit, Goto, Release
  <2> QED BY <1>23, <2>0, <2>1, <2>2 DEF Commit
<1>24. CASE KeepSnapshot
  <2>0. used'.crashes = used.crashes
    BY <1>24 DEF KeepSnapshot, Fail, Spend
  <2>1. marker # None
    BY <1>24 DEF KeepSnapshot, Baseline, Admittance
  <2>2. op' = Idle \/ (op'.kind = "adopt" /\ op.kind = "adopt")
    BY <1>24 DEF KeepSnapshot, Goto, Release
  <2> QED BY <1>24, <2>0, <2>1, <2>2 DEF KeepSnapshot
<1>25. CASE KeepAgain
  <2>0. used'.crashes = used.crashes
    BY <1>25 DEF KeepAgain, Fail, Spend
  <2>1. marker # None
    BY <1>25 DEF KeepAgain, Baseline, Admittance
  <2>2. op'.kind = "adopt" /\ op.kind = "adopt"
    BY <1>25, PlaceTells DEF KeepAgain, Goto
  <2> QED BY <1>25, <2>0, <2>1, <2>2 DEF KeepAgain
<1>26. CASE Recheck
  BY <1>26 DEF Recheck
<1>27. CASE Adopted
  BY <1>27 DEF Adopted, Release
<1>28. CASE Recover
  <2> HIDE DEF Ops, OpPlaces, Fins, FinPlaces, OpShape, FinShape, Guarded, Gate, Recorded, Sound, TypeOK
  <2>1. op' = Idle
    BY <1>28 DEF Recover, Release
  <2> DEFINE r == Reconciled(marker, snap, file)
  <2>2. (r.marker = None <=> marker = None) /\ (marker = None => r.snap = snap)
    BY ReconciledIs DEF Baseline, Sound, TypeOK
  <2>3. marker' = None => snap' = None
    BY <1>28, <2>2 DEF Recover, Recorded
  <2> QED BY <2>1, <2>3 DEF Recorded
<1>29. CASE Rejected
  BY <1>29 DEF Rejected, At, Release
<1>30. CASE Noticed
  BY <1>30 DEF Noticed
<1>31. CASE Reload
  BY <1>31 DEF Reload, FinAt, FinGoto
<1>32. CASE RestoreCheck
  BY <1>32 DEF RestoreCheck, FinAt, FinGoto
<1>33. CASE Restore
  BY <1>33 DEF Restore, FinAt, FinGoto, Spend
<1>34. CASE Outcome
  BY <1>34 DEF Outcome, FinAt, FinGoto, Restored
<1>35. CASE Rewind
  <2>0. used'.crashes = used.crashes
    BY <1>35 DEF Rewind, Fail, Spend
  <2>1. marker # None /\ marker' # None
    BY <1>35, PlaceTells, MarkersAre DEF Rewind, FinAt, Baseline
  <2>2. op' = op
    BY <1>35 DEF Rewind
  <2> QED BY <1>35, <2>0, <2>1, <2>2 DEF Rewind
<1>36. CASE Snapshot
  <2>0. used'.crashes = used.crashes
    BY <1>36 DEF Snapshot, Fail, Spend
  <2>1. marker # None
    BY <1>36, PlaceTells DEF Snapshot, FinAt, Baseline
  <2>2. op' = op \/ op' = Idle
    BY <1>36 DEF Snapshot, WriteFailed, GiveUp
  <2> QED BY <1>36, <2>0, <2>1, <2>2 DEF Snapshot
<1>37. CASE Mark
  <2>0. used'.crashes = used.crashes
    BY <1>37 DEF Mark, Fail, Spend
  <2>1. marker # None /\ marker' # None
    BY <1>37, PlaceTells, MarkersAre DEF Mark, FinAt, Baseline
  <2>2. op' = op \/ op' = Idle
    BY <1>37 DEF Mark, WriteFailed, GiveUp
  <2> QED BY <1>37, <2>0, <2>1, <2>2 DEF Mark
<1>38. CASE Retry
  BY ZenonT(60), <1>38, RetryMoves DEF Marked
<1>39. CASE Reread
  BY <1>39 DEF Reread, FinAt
<1>40. CASE Settle
  BY <1>40 DEF Settle, FinAt, FinGoto
<1>41. CASE ClearGate
  BY <1>41 DEF ClearGate, FinAt
<1>42. CASE Drain
  BY <1>42 DEF Drain
<1>43. CASE Crash
  BY <1>43 DEF Crash, Spend
<1>44. CASE UNCHANGED vars
  BY <1>44 DEF vars
<1> QED BY <1>1, <1>2, <1>3, <1>4, <1>5, <1>6, <1>7, <1>8, <1>9, <1>10, <1>11, <1>12, <1>13, <1>14, <1>15, <1>16,
     <1>17, <1>18, <1>19, <1>20, <1>21, <1>22, <1>23, <1>24, <1>25, <1>26, <1>27, <1>28, <1>29, <1>30, <1>31,
     <1>32, <1>33, <1>34, <1>35, <1>36, <1>37, <1>38, <1>39, <1>40, <1>41, <1>42, <1>43, <1>44 DEF Next, OpStep,
     FinStep

(* A step that leaves the history calm found it calm, and is neither an edit *)
(* nor part of a crash.                                                      *)
LEMMA CalmBefore ==
  ASSUME Sound, [Next]_vars, Calm'
  PROVE  /\ Calm
         /\ \A c \in Edits \union {Initial} : ~Edit(c)
         /\ ~Crash
         /\ Recorded => ~Recover
<1>1. used \in [ops : Nat, edits : Nat, faults : Nat, crashes : Nat]
  BY DEF Sound, TypeOK
<1>2. Calm
  BY <1>1, Counted DEF Calm, Counts
<1>3. ASSUME NEW c \in Edits \union {Initial}, Edit(c) PROVE FALSE
  BY <1>1, <1>3 DEF Edit, Spend, Calm
<1>4. ASSUME Crash PROVE FALSE
  BY <1>1, <1>4 DEF Crash, Spend, Calm
<1>5. ASSUME Recover, Recorded PROVE FALSE
  BY <1>2, <1>5, PlaceTells DEF Recover, Recorded, Calm
<1> QED BY <1>2, <1>3, <1>4, <1>5

(* While a finalizer runs, nobody else is between two writes.                *)
LEMMA Alone ==
  ASSUME Steady
  PROVE  /\ fin.pc # "idle" => BaselineMatches /\ op.pc \notin {"unmark", "unback", "commit"}
         /\ op.kind = "adopt" /\ op.pc # "fence" => fin = NoFin /\ ~inflight
         /\ op.kind = "adopt" /\ op.pc \notin {"fence", "commit"} => BaselineMatches
         /\ op.kind = "discard" /\ op.pc \in {"revert", "unmark", "unback", "commit", "keep"} => fin = NoFin
         /\ fin.kind = "hot" => plan = None
<1>0. op \in Ops /\ fin \in Fins
  BY DEF Steady, Kept, Sound, TypeOK
<1>1. fin # NoFin => fin.kind \in {"hot", "stage"}
  BY <1>0 DEF Steady, Kept, Sound, FinShape, Fins
<1>2. op.kind = "adopt" /\ op.pc # "fence" => fin = NoFin /\ ~inflight
  BY <1>1 DEF Steady, Kept, Sound, Gate, Heard
<1>3. op.kind = "discard" /\ op.pc \in {"revert", "unmark", "unback", "commit", "keep"} => fin = NoFin
  BY <1>1 DEF Steady, Kept, Sound, Gate, Recorded
<1>4. op.kind = "adopt" /\ op.pc \notin {"fence", "commit"} => BaselineMatches
  BY DEF Steady, Heard, OnRecord, OnDisk
<1>5. ASSUME fin.pc # "idle" PROVE BaselineMatches /\ op.pc \notin {"unmark", "unback", "commit"}
  <2>1. fin # NoFin
    BY <1>5 DEF NoFin
  <2>2. op.pc \in {"unmark", "unback"} => op.kind = "discard"
    BY PlaceTells DEF Steady, Kept
  <2>3. op.pc = "commit" => op.kind \in {"adopt", "discard"}
    BY PlaceTells DEF Steady, Kept
  <2> QED BY <1>2, <1>3, <2>1, <2>2, <2>3 DEF Steady, OnRecord, OnDisk
<1>6. fin.kind = "hot" => plan = None
  BY DEF Steady, Kept, Sound, Gate, Guarded
<1> QED BY <1>2, <1>3, <1>4, <1>5, <1>6

(* An assessment leaves a failed or inconsistent status alone, and the       *)
(* content that the file is compared with.                                   *)
LEMMA AssessedKeeps ==
  ASSUME StatusOK, NEW seen, NEW s, s = Assessed(status, seen)
  PROVE  /\ s.base = status.base
         /\ s.state = "failed" <=> status.state = "failed"
         /\ s.state = "inconsistent" <=> status.state = "inconsistent"
         /\ s.state \in {"clean", "ahead"} => seen = status.base
BY DEF StatusOK, Statuses, Assessed, Clean

(* Each write keeps the file among the contents that the markers know. *)
LEMMA OnDiskNext == Steady /\ Calm' /\ [Next]_vars => OnDisk'
<1> SUFFICES ASSUME Steady, Calm', [Next]_vars PROVE OnDisk'
  OBVIOUS
<1> USE DEF Steady, OnRecord, Kept, Sound, TypeOK, Ops, OpPlaces, Fins, FinPlaces, OpShape, FinShape, Gate,
     Admittance, Idle, NoFin, OnDisk, BaselineMatches, PlanMatches, disk, mem, hist
<1>1. ASSUME NEW c \in Edits \union {Initial}, Edit(c) PROVE OnDisk'
  BY <1>1, CalmBefore DEF Steady, Kept
<1>2. ASSUME NEW k \in {"hot", "stage"}, NEW d \in Candidates, Begin(k, d) PROVE OnDisk'
  BY <1>2 DEF Begin
<1>3. ASSUME NEW k \in {"adopt", "discard", "status"}, Begin(k, None) PROVE OnDisk'
  BY <1>3 DEF Begin
<1>4. CASE Refresh
  <2> DEFINE r == PlanAfter(plan, bak, file, FALSE)
  <2>1. PlanOutcome(plan, bak, file, r)
    BY PlanStands
  <2>2. plan' = plan \/ plan' = r.plan
    BY <1>4 DEF Refresh
  <2>3. PlanMatches
    BY <1>4 DEF Refresh
  <2>4. plan' # None => file \in (IF plan'.st = "staged" THEN {plan'.staged} ELSE {plan'.base, plan'.staged,
       plan'.prev})
    <3> HIDE DEF r
    <3> QED BY <2>1, <2>2, <2>3 DEF PlanOutcome
  <2>5. UNCHANGED <<file, marker, status, fin, late>> /\ op'.pc \in {"idle", "read"}
    BY <1>4, RefreshMoves DEF Moved
  <2> QED BY <1>4, <2>4, <2>5 DEF Refresh
<1>5. CASE ReadFile
  BY <1>5 DEF ReadFile
<1>6. CASE Assess
  <2>1. status'.state = "failed" <=> status.state = "failed"
    BY <1>6, AssessedKeeps DEF Assess, StatusOK
  <2>2. UNCHANGED <<file, marker, plan, fin, late>>
    BY <1>6 DEF Assess
  <2>3. op.pc = "assess" /\ op'.pc \in {"idle", "admit"}
    BY <1>6 DEF Assess
  <2> QED BY <1>6, <2>1, <2>2, <2>3
<1>7. CASE Admit
  BY <1>7, AdmitMoves DEF Admit
<1>8. CASE Backup
  BY <1>8, BackupMoves DEF Moved
<1>9. CASE Prepare
  <2>1. op.kind = "stage" /\ file = op.base /\ op.prev = plan /\ (plan # None => IsUpdate /\ file = plan.staged)
    BY <1>9 DEF Prepare, At, OpOnDisk, Sidecars, IsUpdate
  <2>2. op'.pc \in {"idle", "verify"} /\ UNCHANGED <<file, marker, status, fin, late>>
    BY <1>9 DEF Prepare, Goto, Release
  <2>3. CASE plan' = plan
    BY <1>9, <2>2, <2>3 DEF Prepare, At
  <2>4. CASE /\ plan'.st = "prepared" /\ plan'.base = (IF IsUpdate THEN plan.base ELSE op.base)
             /\ plan'.prev = (IF IsUpdate THEN plan.staged ELSE None)
    BY <1>9, <2>1, <2>2, <2>4 DEF Prepare, IsUpdate
  <2> QED BY <1>9, <2>3, <2>4 DEF Prepare
<1>10. CASE Verify
  <2>1. CASE late' = FALSE /\ op' = [op EXCEPT !.pc = "begin"] /\ plan' = plan
    BY <1>10, <2>1 DEF Verify
  <2>2. CASE op' = Idle /\ plan' \in {plan, op.prev} /\ (plan' = plan \/ op.kind = "stage") /\ marker' = marker
    <3>1. op.kind = "stage" /\ op.prev # None => op.prev.st = "staged" /\ file = op.prev.staged
      BY <1>10 DEF Verify, OpOnDisk
    <3> QED BY <1>10, <2>2, <3>1 DEF Verify
  <2> QED BY <1>10, <2>1, <2>2 DEF Verify, Goto, Release, AbortPrepared
<1>11. CASE BeginWrite
  <2> DEFINE prior == IF op.kind = "hot" THEN op.base ELSE status.base
  <2>0. /\ op.data \in Contents /\ prior \in Contents \union {None} /\ op.kind \in {"hot", "stage"}
        /\ file = prior \/ status.state = "failed"
    BY <1>11, PlaceTells DEF BeginWrite, Contents, Statuses, Guarded, Truthful
  <2>1. CASE op' = [op EXCEPT !.pc = "write"] /\ plan' = plan /\ marker' = Preparing(prior, op.data)
    <3> HIDE DEF prior
    <3>1. marker'.st = "preparing" /\ marker'.prior = prior
      BY <2>0, <2>1, MarkersAre
    <3> QED BY <1>11, <2>0, <2>1, <3>1 DEF BeginWrite
  <2>2. CASE op' = Idle /\ plan' \in {plan, op.prev} /\ (plan' = plan \/ op.kind = "stage") /\ marker' = marker
    <3>1. op.kind = "stage" /\ op.prev # None => op.prev.st = "staged" /\ file = op.prev.staged
      BY <1>11 DEF BeginWrite, OpOnDisk
    <3> QED BY <1>11, <2>2, <3>1 DEF BeginWrite
  <2> QED BY <1>11, <2>1, <2>2 DEF BeginWrite, Goto, Release, AbortPrepared
<1>12. CASE Write
  <2>1. Intent(op.data) /\ op.kind \in {"hot", "stage"}
    BY <1>12, PlaceTells DEF Write, OpOnDisk
  <2>2. plan = None \/ (plan.st = "prepared" /\ plan.staged = op.data)
    BY <1>12, <2>1 DEF Write, OpOnDisk, Guarded
  <2>3. CASE file' = op.data /\ op'.pc \in {"submit", "promote"}
    BY <1>12, <2>1, <2>2, <2>3 DEF Write, Intent
  <2>4. CASE file' = file /\ op' = Idle
    BY <1>12, <2>4 DEF Write
  <2> QED BY <1>12, <2>1, <2>3, <2>4 DEF Write, Goto, Release
<1>13. CASE Submit
  <2>1. BaselineMatches
    BY <1>13 DEF Submit, OpOnDisk, Intent
  <2>2. op'.pc \in {"idle", "wait"}
    BY <1>13, SubmitMoves
  <2> QED BY <1>13, <2>1, <2>2 DEF Submit
<1>14. CASE Promote
  <2>1. plan \in Plans /\ plan.staged = op.data
    BY <1>14, PlaceTells DEF Promote, OpOnDisk
  <2>2. op' = Idle \/ op'.pc \in {"confirm", "complete"}
    BY <1>14 DEF Promote, Goto, Release
  <2>3. plan' = plan \/ (plan'.st = "staged" /\ file = plan'.staged)
    BY <1>14, <2>1 DEF Promote, Plans
  <2> QED BY <1>14, <2>1, <2>2, <2>3 DEF Promote
<1>15. CASE Confirm
  BY <1>15 DEF Confirm, Release, Goto
<1>16. CASE CompleteStage
  <2>1. BaselineMatches
    BY <1>16 DEF CompleteStage, OpOnDisk, Intent
  <2> QED BY <1>16, <2>1 DEF CompleteStage, Goto
<1>17. CASE Return
  BY <1>17 DEF Return, Release
<1>18. CASE DiscardCheck
  BY <1>18, DiscardMoves DEF Moved
<1>19. CASE Revert
  <2>1. CASE file' = op.base /\ op' = [op EXCEPT !.pc = "unmark"]
    BY <1>19, <2>1, PlaceTells DEF Revert
  <2>2. CASE file' = file /\ op' = Idle
    BY <1>19, <2>2 DEF Revert
  <2> QED BY <1>19, <2>1, <2>2 DEF Revert, Goto, Release
<1>20. CASE RemoveMarker
  BY <1>20 DEF RemoveMarker, Goto
<1>21. CASE RemoveBackup
  BY <1>21 DEF RemoveBackup, Goto
<1>22. CASE Fence
  BY <1>22 DEF Fence, At, Goto, Release
<1>23. CASE Commit
  <2>0. op.base \in Contents /\ op.kind \in {"adopt", "discard"} /\ file = op.base
    BY <1>23, PlaceTells DEF Commit
  <2>1. CASE marker' = Current(op.base) /\ op' = [op EXCEPT !.pc = "keep"]
    <3>1. marker'.st = "current" /\ marker'.cur = op.base
      BY <2>0, <2>1, MarkersAre
    <3> QED BY <1>23, <2>0, <2>1, <3>1 DEF Commit
  <2>2. CASE op' = Idle /\ UNCHANGED <<marker, status>> /\ torn' = (torn \/ op.kind = "discard")
    <3>1. op.kind = "adopt"
      BY <2>0, <2>2 DEF Calm
    <3> QED BY <1>23, <2>2, <3>1 DEF Commit
  <2> QED BY <1>23, <2>1, <2>2 DEF Commit, Goto, Release
<1>24. CASE KeepSnapshot
  BY <1>24 DEF KeepSnapshot, Goto, Release
<1>25. CASE KeepAgain
  <2>1. op.kind = "adopt" /\ BaselineMatches
    BY <1>25, PlaceTells, Alone DEF KeepAgain
  <2>2. op'.pc \in {"recheck", "adopted", "idle"}
    BY <1>25 DEF KeepAgain, Goto, Release
  <2> QED BY <1>25, <2>1, <2>2 DEF KeepAgain
<1>26. CASE Recheck
  <2>1. op.kind = "adopt" /\ BaselineMatches
    BY <1>26, PlaceTells, Alone DEF Recheck
  <2>2. op'.pc \in {"recheck", "adopted", "idle"}
    BY <1>26 DEF Recheck, Goto, Release
  <2> QED BY <1>26, <2>1, <2>2 DEF Recheck
<1>27. CASE Adopted
  <2>1. op.kind = "adopt" /\ BaselineMatches
    BY <1>27, PlaceTells, Alone DEF Adopted
  <2>2. op'.pc \in {"recheck", "adopted", "idle"}
    BY <1>27 DEF Adopted, Goto, Release
  <2> QED BY <1>27, <2>1, <2>2 DEF Adopted
<1>28. CASE Recover
  BY <1>28, CalmBefore DEF Steady, Kept
<1>29. CASE Rejected
  BY <1>29 DEF Rejected, At, Release
<1>30. CASE Noticed
  BY <1>30 DEF Noticed
<1>31. CASE Reload
  <2>1. BaselineMatches /\ op.pc \notin {"unmark", "unback", "commit"}
    BY <1>31, Alone DEF Reload, FinAt
  <2>2. op' = op \/ op'.pc \in {"idle", "held"}
    BY <1>31 DEF Reload
  <2> QED BY <1>31, <2>1, <2>2 DEF Reload
<1>32. CASE RestoreCheck
  BY <1>32 DEF RestoreCheck, FinAt, FinGoto
<1>33. CASE Restore
  <2>1. /\ marker # None /\ marker.st = "preparing" /\ marker.prior = fin.base /\ plan = None
        /\ op.pc \notin {"unmark", "unback", "commit"} /\ BaselineMatches
    BY <1>33, Alone, PlaceTells DEF Restore, FinAt, FinOnDisk, Intent
  <2> QED BY <1>33, <2>1 DEF Restore
<1>34. CASE Outcome
  <2>1. BaselineMatches /\ op.pc \notin {"unmark", "unback", "commit"}
    BY <1>34, Alone DEF Outcome, FinAt
  <2>2. op' = op \/ op'.pc \in {"idle", "held"}
    BY <1>34 DEF Outcome
  <2> QED BY <1>34, <2>1, <2>2 DEF Outcome
<1>35. CASE Rewind
  <2>1. /\ marker # None /\ marker.st = "preparing" /\ marker.prior = fin.base /\ file = fin.base
        /\ fin.base \in Contents /\ op.pc \notin {"unmark", "unback", "commit"} /\ BaselineMatches
    BY <1>35, Alone, PlaceTells DEF Rewind, FinAt, FinOnDisk, Intent
  <2>2. CASE marker' = Current(fin.base)
    <3>1. marker'.st = "current" /\ marker'.cur = fin.base
      BY <2>1, <2>2, MarkersAre
    <3> QED BY <1>35, <2>1, <3>1 DEF Rewind
  <2>3. CASE marker' = marker
    BY <1>35, <2>1, <2>3 DEF Rewind
  <2> QED BY <1>35, <2>1, <2>2, <2>3 DEF Rewind
<1>36. CASE Snapshot
  <2>1. BaselineMatches /\ op.pc \notin {"unmark", "unback", "commit"}
    BY <1>36, Alone DEF Snapshot, FinAt
  <2>2. op' = op \/ op'.pc \in {"idle", "held"}
    BY <1>36 DEF Snapshot, WriteFailed, GiveUp
  <2> QED BY <1>36, <2>1, <2>2 DEF Snapshot
<1>37. CASE Mark
  <2>1. BaselineMatches /\ op.pc \notin {"unmark", "unback", "commit"} /\ file = fin.data /\ fin.data \in Contents
    BY <1>37, Alone, PlaceTells DEF Mark, FinAt, FinOnDisk
  <2>2. op' = op \/ op'.pc = "idle"
    BY <1>37 DEF Mark, WriteFailed, GiveUp
  <2>3. CASE marker' = Current(fin.data)
    <3>1. marker'.st = "current" /\ marker'.cur = fin.data
      BY <2>1, <2>3, MarkersAre
    <3> QED BY <1>37, <2>1, <2>2, <3>1 DEF Mark
  <2>4. CASE marker' = marker
    BY <1>37, <2>1, <2>2, <2>4 DEF Mark
  <2> QED BY <1>37, <2>3, <2>4 DEF Mark
<1>38. CASE Retry
  <2>1. BaselineMatches /\ op.pc \notin {"unmark", "unback", "commit"}
    BY <1>38, Alone DEF Retry, FinAt
  <2>2. op' = op \/ op'.pc \in {"idle", "held"}
    BY <1>38 DEF Retry
  <2> QED BY <1>38, <2>1, <2>2 DEF Retry
<1>39. CASE Reread
  BY <1>39 DEF Reread, FinAt
<1>40. CASE Settle
  <2>1. BaselineMatches /\ op.pc \notin {"unmark", "unback", "commit"}
    BY <1>40, Alone DEF Settle, FinAt
  <2>2. op' = op \/ op'.pc \in {"idle", "held"}
    BY <1>40 DEF Settle
  <2> QED BY <1>40, <2>1, <2>2 DEF Settle
<1>41. CASE ClearGate
  BY <1>41 DEF ClearGate, FinAt
<1>42. CASE Drain
  <2>1. status'.state = "failed" <=> status.state = "failed"
    BY <1>42, AssessedKeeps DEF Drain, StatusOK
  <2>2. UNCHANGED <<file, marker, plan, fin, late>>
    BY <1>42 DEF Drain
  <2>3. op' = op
    BY <1>42 DEF Drain
  <2> QED BY <1>42, <2>1, <2>2, <2>3
<1>43. CASE Crash
  BY <1>43, CalmBefore DEF Steady, Kept
<1>44. CASE UNCHANGED vars
  BY <1>44 DEF vars
<1> QED BY <1>1, <1>2, <1>3, <1>4, <1>5, <1>6, <1>7, <1>8, <1>9, <1>10, <1>11, <1>12, <1>13, <1>14, <1>15, <1>16,
     <1>17, <1>18, <1>19, <1>20, <1>21, <1>22, <1>23, <1>24, <1>25, <1>26, <1>27, <1>28, <1>29, <1>30, <1>31,
     <1>32, <1>33, <1>34, <1>35, <1>36, <1>37, <1>38, <1>39, <1>40, <1>41, <1>42, <1>43, <1>44 DEF Next, OpStep,
     FinStep

(* What a request relies on was put there by its own earlier steps. *)
LEMMA OpOnDiskNext == Steady /\ Calm' /\ [Next]_vars => OpOnDisk'
<1> SUFFICES ASSUME Steady, Calm', [Next]_vars PROVE OpOnDisk'
  OBVIOUS
<1> USE DEF Steady, OnRecord, Kept, Sound, TypeOK, Ops, OpPlaces, Fins, FinPlaces, OpShape, FinShape, Gate,
     Admittance, Idle, NoFin, OpOnDisk, Intent, Admittance, disk, mem, hist
<1>1. ASSUME NEW c \in Edits \union {Initial}, Edit(c) PROVE OpOnDisk'
  BY <1>1, CalmBefore DEF Steady, Kept
<1>2. ASSUME NEW k \in {"hot", "stage"}, NEW d \in Candidates, Begin(k, d) PROVE OpOnDisk'
  BY <1>2 DEF Begin
<1>3. ASSUME NEW k \in {"adopt", "discard", "status"}, Begin(k, None) PROVE OpOnDisk'
  BY <1>3 DEF Begin
<1>4. CASE Refresh
  BY <1>4, RefreshMoves DEF Moved
<1>5. CASE ReadFile
  BY <1>5 DEF ReadFile
<1>6. CASE Assess
  BY <1>6 DEF Assess
<1>7. CASE Admit
  BY <1>7, AdmitMoves DEF Admit
<1>8. CASE Backup
  <2>1. CASE op' = Idle
    BY <1>8, <2>1, BackupMoves
  <2>2. CASE file = op.base /\ Moved("prepare", op.base, op.seen, plan)
    <3>1. plan # None => plan.st = "staged" /\ file = plan.staged
      BY <1>8, BackupMoves DEF Sidecars, OnDisk, PlanMatches
    <3>2. UNCHANGED <<file, marker, plan>>
      BY <1>8, BackupMoves
    <3> QED BY <1>8, <2>2, <3>1, <3>2 DEF Moved
  <2> QED BY <1>8, <2>1, <2>2, BackupMoves
<1>9. CASE Prepare
  <2>1. CASE op' = Idle
    BY <1>9, <2>1 DEF Prepare
  <2>2. CASE /\ plan' # None /\ plan'.st = "prepared" /\ plan'.staged = op.data
             /\ op' = [op EXCEPT !.pc = "verify"]
    BY <1>9, <2>2 DEF Prepare, At
  <2>3. ASSUME plan' = [st |-> "prepared", staged |-> op.data,
                        base    |-> IF IsUpdate THEN plan.base ELSE op.base,
                        prev    |-> IF IsUpdate THEN plan.staged ELSE None,
                        serving |-> IF IsUpdate THEN plan.serving ELSE live]
        PROVE  plan' # None /\ plan'.st = "prepared" /\ plan'.staged = op.data
    <3>1. op.base \in Contents /\ op.data \in Contents
      BY <1>9 DEF Prepare, At, Contents
    <3>2. plan' \in Plans
      BY <2>3, <3>1 DEF Plans, IsUpdate
    <3> QED BY <2>3, <3>2, ApplyAssumption
  <2> QED BY <1>9, <2>1, <2>2, <2>3 DEF Prepare, Goto, Release
<1>10. CASE Verify
  BY <1>10 DEF Verify, Goto, Release, AbortPrepared
<1>11. CASE BeginWrite
  <2> DEFINE prior == IF op.kind = "hot" THEN op.base ELSE status.base
  <2>0. op.data \in Contents /\ prior \in Contents \union {None} /\ op.kind \in {"hot", "stage"}
    BY <1>11, PlaceTells DEF BeginWrite, Contents, Statuses
  <2>1. CASE op' = [op EXCEPT !.pc = "write"] /\ plan' = plan /\ marker' = Preparing(prior, op.data)
    <3>0. op.kind = "hot" => prior = op.base
      OBVIOUS
    <3> HIDE DEF prior
    <3>1. marker' # None /\ marker'.st = "preparing" /\ marker'.prior = prior /\ marker'.cur = op.data
      BY <2>0, <2>1, MarkersAre
    <3> QED BY <1>11, <2>0, <2>1, <3>0, <3>1 DEF BeginWrite
  <2>2. CASE op' = Idle
    BY <2>2
  <2> QED BY <1>11, <2>1, <2>2 DEF BeginWrite, Goto, Release
<1>12. CASE Write
  BY <1>12 DEF Write, Goto, Release, InFlightAfterWrite
<1>13. CASE Submit
  BY <1>13, SubmitMoves DEF Submit, Marked, Finalizer
<1>14. CASE Promote
  BY <1>14 DEF Promote, Release, Goto
<1>15. CASE Confirm
  BY <1>15 DEF Confirm, Release, Goto
<1>16. CASE CompleteStage
  BY <1>16 DEF CompleteStage, Finalizer, Goto
<1>17. CASE Return
  BY <1>17 DEF Return, Release
<1>18. CASE DiscardCheck
  BY <1>18, DiscardMoves DEF Moved
<1>19. CASE Revert
  BY <1>19 DEF Revert, Goto, Release
<1>20. CASE RemoveMarker
  BY <1>20 DEF RemoveMarker, Goto
<1>21. CASE RemoveBackup
  BY <1>21 DEF RemoveBackup, Goto
<1>22. CASE Fence
  BY <1>22 DEF Fence, At, Goto, Release
<1>23. CASE Commit
  BY <1>23 DEF Commit, Goto, Release
<1>24. CASE KeepSnapshot
  BY <1>24 DEF KeepSnapshot, Goto, Release
<1>25. CASE KeepAgain
  BY <1>25 DEF KeepAgain, Goto
<1>26. CASE Recheck
  BY <1>26 DEF Recheck
<1>27. CASE Adopted
  BY <1>27 DEF Adopted, Release
<1>28. CASE Recover
  BY <1>28, CalmBefore DEF Steady, Kept
<1>29. CASE Rejected
  BY <1>29 DEF Rejected, At, Release
<1>30. CASE Noticed
  BY ZenonT(60), <1>30 DEF Noticed
<1>31. CASE Reload
  BY <1>31 DEF Reload, FinAt, FinGoto
<1>32. CASE RestoreCheck
  BY <1>32 DEF RestoreCheck, FinAt, FinGoto
<1>33. CASE Restore
  BY <1>33 DEF Restore, FinAt, FinGoto
<1>34. CASE Outcome
  BY <1>34 DEF Outcome, FinAt, FinGoto, Restored
<1>35. CASE Rewind
  BY <1>35 DEF Rewind, FinAt, FinGoto
<1>36. CASE Snapshot
  BY <1>36 DEF Snapshot, FinAt, FinGoto, WriteFailed, GiveUp
<1>37. CASE Mark
  BY <1>37 DEF Mark, FinAt, FinGoto, WriteFailed, GiveUp
<1>38. CASE Retry
  BY ZenonT(60), <1>38, RetryMoves DEF Marked
<1>39. CASE Reread
  BY <1>39 DEF Reread, FinAt
<1>40. CASE Settle
  BY <1>40 DEF Settle, FinAt, FinGoto
<1>41. CASE ClearGate
  BY <1>41 DEF ClearGate, FinAt
<1>42. CASE Drain
  BY <1>42 DEF Drain
<1>43. CASE Crash
  BY <1>43, CalmBefore DEF Steady, Kept
<1>44. CASE UNCHANGED vars
  BY <1>44 DEF vars
<1> QED BY <1>1, <1>2, <1>3, <1>4, <1>5, <1>6, <1>7, <1>8, <1>9, <1>10, <1>11, <1>12, <1>13, <1>14, <1>15, <1>16,
     <1>17, <1>18, <1>19, <1>20, <1>21, <1>22, <1>23, <1>24, <1>25, <1>26, <1>27, <1>28, <1>29, <1>30, <1>31,
     <1>32, <1>33, <1>34, <1>35, <1>36, <1>37, <1>38, <1>39, <1>40, <1>41, <1>42, <1>43, <1>44 DEF Next, OpStep,
     FinStep

(* And what a finalizer relies on, by the request it took over from. *)
LEMMA FinOnDiskNext == Steady /\ Calm' /\ [Next]_vars => FinOnDisk'
<1> SUFFICES ASSUME Steady, Calm', [Next]_vars PROVE FinOnDisk'
  OBVIOUS
<1> USE DEF Steady, OnRecord, Kept, Sound, TypeOK, Ops, OpPlaces, Fins, FinPlaces, OpShape, FinShape, Gate,
     Admittance, Idle, NoFin, FinOnDisk, Intent, disk, mem, hist
<1>1. ASSUME NEW c \in Edits \union {Initial}, Edit(c) PROVE FinOnDisk'
  BY <1>1, CalmBefore DEF Steady, Kept
<1>2. ASSUME NEW k \in {"hot", "stage"}, NEW d \in Candidates, Begin(k, d) PROVE FinOnDisk'
  BY <1>2 DEF Begin
<1>3. ASSUME NEW k \in {"adopt", "discard", "status"}, Begin(k, None) PROVE FinOnDisk'
  BY <1>3 DEF Begin
<1>4. CASE Refresh
  BY <1>4, RefreshMoves DEF Moved
<1>5. CASE ReadFile
  BY <1>5 DEF ReadFile
<1>6. CASE Assess
  <2>1. status'.state = "failed" <=> status.state = "failed"
    BY <1>6, AssessedKeeps DEF Assess, StatusOK
  <2> QED BY <1>6, <2>1 DEF Assess
<1>7. CASE Admit
  BY <1>7, AdmitMoves DEF Admit
<1>8. CASE Backup
  BY <1>8, BackupMoves DEF Moved
<1>9. CASE Prepare
  BY <1>9 DEF Prepare, At, IsUpdate, Goto, Release
<1>10. CASE Verify
  BY <1>10 DEF Verify, Goto, Release, AbortPrepared
<1>11. CASE BeginWrite
  <2>1. fin' = NoFin
    BY <1>11, PlaceTells, Alone DEF BeginWrite
  <2> QED BY <2>1
<1>12. CASE Write
  <2>1. fin' = NoFin
    BY <1>12, PlaceTells, Alone DEF Write
  <2> QED BY <2>1
<1>13. CASE Submit
  <2>1. file = op.data /\ Intent(op.data) /\ marker.prior = op.base
    BY <1>13, SubmitMoves DEF Submit, OpOnDisk
  <2>2. fin'.data = op.data /\ fin'.base = op.base /\ fin'.pc \in {"reload", "check"}
    BY <1>13 DEF Submit, Finalizer
  <2>3. fin'.pc = "check" => status'.state = "failed"
    BY <1>13, MarkedIs DEF Submit, Finalizer
  <2> QED BY <1>13, <2>1, <2>2, <2>3 DEF Submit
<1>14. CASE Promote
  BY <1>14 DEF Promote, Release, Goto
<1>15. CASE Confirm
  BY <1>15 DEF Confirm, Release, Goto
<1>16. CASE CompleteStage
  <2>1. file = op.data /\ Intent(op.data)
    BY <1>16 DEF CompleteStage, OpOnDisk
  <2>2. fin'.data = op.data /\ fin'.pc = "snapshot"
    BY <1>16 DEF CompleteStage, Finalizer
  <2> QED BY <1>16, <2>1, <2>2 DEF CompleteStage
<1>17. CASE Return
  BY <1>17 DEF Return, Release
<1>18. CASE DiscardCheck
  BY <1>18, DiscardMoves DEF Moved
<1>19. CASE Revert
  <2>1. fin' = NoFin
    BY <1>19, PlaceTells, Alone DEF Revert
  <2> QED BY <2>1
<1>20. CASE RemoveMarker
  BY <1>20 DEF RemoveMarker, Goto
<1>21. CASE RemoveBackup
  BY <1>21 DEF RemoveBackup, Goto
<1>22. CASE Fence
  BY <1>22 DEF Fence, At, Goto, Release
<1>23. CASE Commit
  <2>1. fin' = NoFin
    BY <1>23, PlaceTells, Alone DEF Commit
  <2> QED BY <2>1
<1>24. CASE KeepSnapshot
  BY <1>24 DEF KeepSnapshot, Goto, Release
<1>25. CASE KeepAgain
  <2>1. fin' = NoFin
    BY <1>25, PlaceTells, Alone DEF KeepAgain
  <2> QED BY <2>1
<1>26. CASE Recheck
  <2>1. fin' = NoFin
    BY <1>26, PlaceTells, Alone DEF Recheck
  <2> QED BY <2>1
<1>27. CASE Adopted
  <2>1. fin' = NoFin
    BY <1>27, PlaceTells, Alone DEF Adopted
  <2> QED BY <2>1
<1>28. CASE Recover
  BY <1>28, CalmBefore DEF Steady, Kept
<1>29. CASE Rejected
  BY <1>29 DEF Rejected, At, Release
<1>30. CASE Noticed
  BY <1>30 DEF Noticed
<1>31. CASE Reload
  <2>1. fin'.pc = "check" => status'.state = "failed"
    BY <1>31, MarkedIs DEF Reload, FinGoto
  <2> QED BY <1>31, <2>1 DEF Reload, FinAt, FinGoto
<1>32. CASE RestoreCheck
  BY <1>32 DEF RestoreCheck, FinAt, FinGoto
<1>33. CASE Restore
  BY <1>33 DEF Restore, FinAt, FinGoto
<1>34. CASE Outcome
  BY <1>34 DEF Outcome, FinAt, FinGoto, Restored
<1>35. CASE Rewind
  BY <1>35 DEF Rewind, FinAt, FinGoto
<1>36. CASE Snapshot
  BY <1>36 DEF Snapshot, FinAt, FinGoto, WriteFailed, GiveUp
<1>37. CASE Mark
  BY <1>37 DEF Mark, FinAt, FinGoto, WriteFailed, GiveUp
<1>38. CASE Retry
  BY <1>38, RetryMoves DEF Marked
<1>39. CASE Reread
  BY <1>39 DEF Reread, FinAt
<1>40. CASE Settle
  BY <1>40 DEF Settle, FinAt, FinGoto
<1>41. CASE ClearGate
  BY <1>41 DEF ClearGate, FinAt
<1>42. CASE Drain
  <2>1. status'.state = "failed" <=> status.state = "failed"
    BY <1>42, AssessedKeeps DEF Drain, StatusOK
  <2> QED BY <1>42, <2>1 DEF Drain
<1>43. CASE Crash
  BY <1>43, CalmBefore DEF Steady, Kept
<1>44. CASE UNCHANGED vars
  BY <1>44 DEF vars
<1> QED BY <1>1, <1>2, <1>3, <1>4, <1>5, <1>6, <1>7, <1>8, <1>9, <1>10, <1>11, <1>12, <1>13, <1>14, <1>15, <1>16,
     <1>17, <1>18, <1>19, <1>20, <1>21, <1>22, <1>23, <1>24, <1>25, <1>26, <1>27, <1>28, <1>29, <1>30, <1>31,
     <1>32, <1>33, <1>34, <1>35, <1>36, <1>37, <1>38, <1>39, <1>40, <1>41, <1>42, <1>43, <1>44 DEF Next, OpStep,
     FinStep

(* No assessment records what is not so, for there is no outdated one. *)
LEMMA TruthfulNext == Steady /\ Calm' /\ [Next]_vars => Truthful'
<1> SUFFICES ASSUME Steady, Calm', [Next]_vars PROVE Truthful'
  OBVIOUS
<1> USE DEF Steady, OnRecord, Kept, Sound, TypeOK, Ops, OpPlaces, Fins, FinPlaces, OpShape, FinShape, Gate,
     Admittance, Idle, NoFin, Truthful, disk, mem, hist
<1>1. ASSUME NEW c \in Edits \union {Initial}, Edit(c) PROVE Truthful'
  BY <1>1, CalmBefore DEF Steady, Kept
<1>2. ASSUME NEW k \in {"hot", "stage"}, NEW d \in Candidates, Begin(k, d) PROVE Truthful'
  BY <1>2 DEF Begin
<1>3. ASSUME NEW k \in {"adopt", "discard", "status"}, Begin(k, None) PROVE Truthful'
  BY <1>3 DEF Begin
<1>4. CASE Refresh
  BY <1>4, RefreshMoves DEF Moved
<1>5. CASE ReadFile
  BY <1>5 DEF ReadFile
<1>6. CASE Assess
  <2>1. /\ status'.base = status.base /\ (status'.state \in {"clean", "ahead"} => op.seen = status.base)
        /\ status'.state = "failed" <=> status.state = "failed"
        /\ status'.state = "inconsistent" <=> status.state = "inconsistent"
    BY <1>6, AssessedKeeps DEF Assess, StatusOK
  <2>2. op.pc = "assess" /\ op'.pc \in {"idle", "admit"}
    BY <1>6 DEF Assess
  <2> QED BY <1>6, <2>1, <2>2 DEF Assess
<1>7. CASE Admit
  <2>1. op.kind = "stage" /\ ~inflight /\ ~Blocked /\ status.state # "failed" => file = status.base
    BY <1>7 DEF Admit, Blocked, Statuses
  <2> QED BY <1>7, <2>1, AdmitMoves DEF Admit
<1>8. CASE Backup
  BY <1>8, BackupMoves DEF Moved
<1>9. CASE Prepare
  BY <1>9 DEF Prepare, At, IsUpdate, Goto, Release
<1>10. CASE Verify
  BY <1>10 DEF Verify, Goto, Release, AbortPrepared
<1>11. CASE BeginWrite
  BY <1>11 DEF BeginWrite, Goto, Release, AbortPrepared, Preparing
<1>12. CASE Write
  <2>1. fin' = NoFin
    BY <1>12, PlaceTells, Alone DEF Write
  <2>2. op'.pc \in {"idle", "submit", "promote", "unmark", "keep", "recheck", "adopted"}
    BY <1>12 DEF Write, Goto, Release
  <2> QED BY <2>1, <2>2
<1>13. CASE Submit
  BY <1>13, SubmitMoves DEF Submit, Marked, Finalizer
<1>14. CASE Promote
  BY <1>14 DEF Promote, Release, Goto
<1>15. CASE Confirm
  BY <1>15 DEF Confirm, Release, Goto
<1>16. CASE CompleteStage
  BY <1>16 DEF CompleteStage, Finalizer, Goto
<1>17. CASE Return
  BY <1>17 DEF Return, Release
<1>18. CASE DiscardCheck
  BY <1>18, DiscardMoves DEF Moved
<1>19. CASE Revert
  <2>1. fin' = NoFin
    BY <1>19, PlaceTells, Alone DEF Revert
  <2>2. op'.pc \in {"idle", "submit", "promote", "unmark", "keep", "recheck", "adopted"}
    BY <1>19 DEF Revert, Goto, Release
  <2> QED BY <2>1, <2>2
<1>20. CASE RemoveMarker
  BY <1>20 DEF RemoveMarker, Goto
<1>21. CASE RemoveBackup
  BY <1>21 DEF RemoveBackup, Goto
<1>22. CASE Fence
  BY <1>22 DEF Fence, At, Goto, Release
<1>23. CASE Commit
  <2>1. fin' = NoFin
    BY <1>23, PlaceTells, Alone DEF Commit
  <2>2. op'.pc \in {"idle", "submit", "promote", "unmark", "keep", "recheck", "adopted"}
    BY <1>23 DEF Commit, Goto, Release
  <2> QED BY <2>1, <2>2
<1>24. CASE KeepSnapshot
  BY <1>24 DEF KeepSnapshot, Goto, Release
<1>25. CASE KeepAgain
  <2>1. fin' = NoFin
    BY <1>25, PlaceTells, Alone DEF KeepAgain
  <2>2. op'.pc \in {"idle", "submit", "promote", "unmark", "keep", "recheck", "adopted"}
    BY <1>25 DEF KeepAgain, Goto, Release
  <2> QED BY <2>1, <2>2
<1>26. CASE Recheck
  <2>1. fin' = NoFin
    BY <1>26, PlaceTells, Alone DEF Recheck
  <2>2. op'.pc \in {"idle", "submit", "promote", "unmark", "keep", "recheck", "adopted"}
    BY <1>26 DEF Recheck, Goto, Release
  <2> QED BY <2>1, <2>2
<1>27. CASE Adopted
  <2>1. fin' = NoFin
    BY <1>27, PlaceTells, Alone DEF Adopted
  <2>2. op'.pc \in {"idle", "submit", "promote", "unmark", "keep", "recheck", "adopted"}
    BY <1>27 DEF Adopted, Goto, Release
  <2> QED BY <2>1, <2>2
<1>28. CASE Recover
  BY <1>28, CalmBefore DEF Steady, Kept
<1>29. CASE Rejected
  BY <1>29 DEF Rejected, At, Release
<1>30. CASE Noticed
  BY ZenonT(60), <1>30 DEF Noticed
<1>31. CASE Reload
  <2>1. inflight /\ op.pc \notin {"sidecar", "prepare", "verify", "begin"}
    BY <1>31, PlaceTells DEF Reload, FinAt
  <2>2. status' = status \/ status'.state = "failed"
    BY <1>31, MarkedIs DEF Reload
  <2> QED BY <1>31, <2>1, <2>2 DEF Reload, FinGoto
<1>32. CASE RestoreCheck
  BY <1>32 DEF RestoreCheck, FinAt, FinGoto
<1>33. CASE Restore
  <2>1. inflight /\ op.pc \notin {"sidecar", "prepare", "verify", "begin"} /\ status.state = "failed"
    BY <1>33, PlaceTells DEF Restore, FinAt, FinOnDisk
  <2> QED BY <1>33, <2>1 DEF Restore, FinGoto
<1>34. CASE Outcome
  <2>1. inflight /\ op.pc \notin {"sidecar", "prepare", "verify", "begin"} /\ status.state = "failed"
    BY <1>34, PlaceTells DEF Outcome, FinAt, FinOnDisk
  <2>2. status'.state \in {"failed", "inconsistent"}
    BY <1>34, <2>1, MarkedIs DEF Outcome
  <2> QED BY <1>34, <2>1, <2>2 DEF Outcome
<1>35. CASE Rewind
  <2>1. /\ inflight /\ op.pc \notin {"sidecar", "prepare", "verify", "begin"} /\ status.state = "failed"
        /\ marker.st = "preparing" /\ marker.prior = file
    BY <1>35, PlaceTells DEF Rewind, FinAt, FinOnDisk, Intent
  <2>2. CASE status' = Clean(file) /\ fin' = [fin EXCEPT !.pc = "read"]
    BY <1>35, <2>1, <2>2 DEF Rewind, Clean
  <2>3. CASE status' = status
    BY <1>35, <2>1, <2>3 DEF Rewind
  <2> QED BY <1>35, <2>1, <2>2, <2>3 DEF Rewind, FinGoto
<1>36. CASE Snapshot
  <2>1. op' = op \/ op' = Idle
    BY <1>36 DEF Snapshot, WriteFailed, GiveUp
  <2>2. \/ status' = status /\ fin'.pc # "clear"
        \/ status'.state = "inconsistent"
    BY <1>36, MarkedIs DEF Snapshot, WriteFailed, GiveUp, FinGoto
  <2>3. op.pc \notin {"sidecar", "prepare", "verify", "begin"}
    BY <1>36 DEF Snapshot, FinAt
  <2> QED BY <1>36, <2>1, <2>2, <2>3 DEF Snapshot
<1>37. CASE Mark
  <2>1. op' = op \/ op' = Idle
    BY <1>37 DEF Mark, WriteFailed, GiveUp
  <2>2. \/ (status' = status \/ status' = Clean(file)) /\ fin'.pc # "clear"
        \/ status'.state = "inconsistent"
    BY <1>37, MarkedIs DEF Mark, FinAt, WriteFailed, GiveUp, FinGoto, FinOnDisk
  <2>3. op.pc \notin {"sidecar", "prepare", "verify", "begin"} /\ (inflight \/ op.pc = "wait")
    BY <1>37, PlaceTells DEF Mark, FinAt
  <2> QED BY <1>37, <2>1, <2>2, <2>3 DEF Mark, Clean
<1>38. CASE Retry
  <2>1. file = fin.data
    BY <1>38 DEF Retry, FinAt, FinOnDisk
  <2>2. op' = op \/ op'.pc = "held"
    BY <1>38, RetryMoves
  <2>3. op.pc \notin {"sidecar", "prepare", "verify", "begin"}
    BY <1>38, RetryMoves
  <2> QED BY <1>38, <2>1, <2>2, <2>3, RetryMoves
<1>39. CASE Reread
  BY <1>39 DEF Reread, FinAt
<1>40. CASE Settle
  <2>1. /\ status'.base = status.base /\ (status'.state \in {"clean", "ahead"} => file = status.base)
        /\ status'.state = "failed" <=> status.state = "failed"
        /\ status'.state = "inconsistent" <=> status.state = "inconsistent"
    BY <1>40, AssessedKeeps DEF Settle, StatusOK, FinAt, FinOnDisk
  <2>2. op' = op \/ op' = Idle
    BY <1>40 DEF Settle
  <2>3. op.pc \notin {"sidecar", "prepare", "verify", "begin"} /\ (fin.kind = "hot" => inflight)
    BY <1>40 DEF Settle, FinAt
  <2>4. fin.kind = "hot" \/ op.pc = "wait"
    BY <1>40, PlaceTells DEF Settle, FinAt
  <2> QED BY <1>40, <2>1, <2>2, <2>3, <2>4 DEF Settle, FinGoto
<1>41. CASE ClearGate
  BY <1>41 DEF ClearGate, FinAt
<1>42. CASE Drain
  <2>1. CASE status' = status
    BY <1>42, <2>1 DEF Drain
  <2>2. CASE status' = Assessed(status, drain.seen) /\ file = drain.seen
    <3>1. /\ status'.base = status.base /\ (status'.state \in {"clean", "ahead"} => file = status.base)
          /\ status'.state = "failed" <=> status.state = "failed"
          /\ status'.state = "inconsistent" <=> status.state = "inconsistent"
      BY <2>2, AssessedKeeps DEF StatusOK
    <3> QED BY <1>42, <3>1 DEF Drain
  <2> QED BY <1>42, <2>1, <2>2 DEF Drain, Calm
<1>43. CASE Crash
  BY <1>43, CalmBefore DEF Steady, Kept
<1>44. CASE UNCHANGED vars
  BY <1>44 DEF vars
<1> QED BY <1>1, <1>2, <1>3, <1>4, <1>5, <1>6, <1>7, <1>8, <1>9, <1>10, <1>11, <1>12, <1>13, <1>14, <1>15, <1>16,
     <1>17, <1>18, <1>19, <1>20, <1>21, <1>22, <1>23, <1>24, <1>25, <1>26, <1>27, <1>28, <1>29, <1>30, <1>31,
     <1>32, <1>33, <1>34, <1>35, <1>36, <1>37, <1>38, <1>39, <1>40, <1>41, <1>42, <1>43, <1>44 DEF Next, OpStep,
     FinStep

LEMMA SafeInit == Init => Safe
<1> SUFFICES ASSUME Init PROVE Safe
  OBVIOUS
<1>1. Recorded
  BY MarkersAre DEF Init, Recorded, Idle, Contents
<1>2. marker = None \/ (marker # None /\ marker.st = "current" /\ marker.cur = Initial)
  BY MarkersAre DEF Init, Contents
<1>3. OnDisk
  BY <1>2 DEF Init, OnDisk, BaselineMatches, PlanMatches, Idle
<1>4. OpOnDisk /\ FinOnDisk /\ Truthful
  BY DEF Init, OpOnDisk, FinOnDisk, Truthful, Idle, NoFin
<1> QED BY <1>1, <1>3, <1>4, KeptInit, NotedInit DEF Safe, OnRecord

LEMMA SafeNext == Safe /\ [Next]_vars => Safe'
<1> SUFFICES ASSUME Safe, [Next]_vars PROVE Safe'
  OBVIOUS
<1>1. Kept' /\ Noted' /\ Recorded'
  BY KeptNext, NotedNext, RecordedNext DEF Safe
<1>2. ASSUME Calm' PROVE OnRecord'
  <2>1. Steady
    BY <1>2, CalmBefore DEF Safe, Steady, Kept, Noted
  <2> QED BY <1>2, <2>1, OnDiskNext, OpOnDiskNext, FinOnDiskNext, TruthfulNext DEF OnRecord
<1> QED BY <1>1, <1>2 DEF Safe

(* A marker that knows the file is one that a restart settles.               *)
LEMMA MatchesRecovers ==
  ASSUME TypeOK, BaselineMatches, PlanMatches, marker = None => snap = None
  PROVE  Recoverable
<1>1. Reconciled(marker, snap, file).status.state \in {"clean", "unadopted"}
  <2>1. CASE marker = None
    BY <2>1 DEF Reconciled
  <2>2. CASE marker # None /\ marker.st = "current"
    BY <2>2 DEF Reconciled, BaselineMatches
  <2>3. CASE marker # None /\ marker.st = "preparing"
    BY <2>3 DEF Reconciled, BaselineMatches
  <2> QED BY <2>1, <2>2, <2>3 DEF TypeOK, Markers
<1>2. ~PlanAfter(plan, bak, file, TRUE).bad
  <2>1. CASE plan = None
    BY <2>1 DEF PlanAfter
  <2>2. CASE plan # None /\ plan.st = "staged"
    BY <2>2 DEF PlanAfter, PlanMatches
  <2>3. CASE plan # None /\ plan.st = "prepared"
    BY <2>3 DEF PlanAfter, PlanMatches
  <2> QED BY <2>1, <2>2, <2>3 DEF TypeOK, Plans
<1> QED BY <1>1, <1>2 DEF Recoverable

LEMMA SafeRecovers == Safe => CrashRecovers
<1> SUFFICES ASSUME Safe, Calm, op.kind # "discard", status.state = "failed" => fin # NoFin PROVE Recoverable
  BY DEF CrashRecovers
<1>1. op.pc # "unmark"
  BY PlaceTells DEF Safe, Kept
<1>2. BaselineMatches /\ PlanMatches
  BY <1>1 DEF Safe, OnRecord, OnDisk
<1> QED BY <1>2, MatchesRecovers DEF Safe, Kept, Sound, Recorded

(* Wherever a crash interrupts an apply, a stage or an adoption, and however *)
(* many writes failed before it, the startup recovery finds a marker that    *)
(* knows the file and ends with a clean baseline (Reconcile), and the        *)
(* planned restart is not inconsistent.                                      *)
THEOREM ApplyCrashRecovers == Spec => []CrashRecovers
<1> QED BY SafeInit, SafeNext, SafeRecovers, PTL DEF Spec
=============================================================================
