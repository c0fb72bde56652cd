------------------------------- MODULE Apply -------------------------------
(***************************************************************************)
(* Managed configuration writes of internal/app: the apply coordinator     *)
(* (hot apply, staged restart, discard, hot adoption), the managed         *)
(* baseline (marker and snapshot beside the configuration file), the       *)
(* planned-restart sidecars (marker and backup), the drift assessments     *)
(* that the watcher and every managed write make, and recovery after a     *)
(* crash.  The configuration file has a second writer that takes none of   *)
(* the coordinator's locks: an operator or a pipeline.                     *)
(*                                                                         *)
(* File contents are opaque values, a digest is the content it names.      *)
(* Reading the file always succeeds; every write of the coordinator may    *)
(* fail, and leaves the old content when it does (atomicfile renames).     *)
(* applyMu is held by whoever is in op; fin is the finalizer of the        *)
(* transaction in flight, and drain the assessment it runs after the gate  *)
(* is open again, outside applyMu.                                         *)
(***************************************************************************)
EXTENDS Naturals, FiniteSets

CONSTANTS
    Candidates,     \* contents that requests ask Jul to write
    Edits,          \* contents only the external writer writes
    Initial,        \* what the file holds when the process first starts
    Rebind,         \* contents whose startup-bound subsystems differ from the others'
    None,
    MaxOps,         \* requests that take applyMu (watcher events not counted)
    MaxEdits,       \* external writes
    MaxFaults,      \* failed writes
    MaxCrashes      \* crashes of the process

Contents == Candidates \union Edits \union {Initial}

(* What the two markers can say. *)
Markers == [st : {"current", "preparing"}, prior : Contents \union {None}, cur : Contents]
Plans   == [st : {"prepared", "staged"}, staged : Contents, base : Contents,
            prev : Contents \union {None}, serving : Contents]

ASSUME ApplyAssumption ==
    /\ Initial \notin Candidates \union Edits
    /\ Candidates \intersect Edits = {}
    /\ None \notin Contents \union Markers \union Plans
    /\ Rebind \subseteq Contents \ {Initial}
    /\ {MaxOps, MaxEdits, MaxFaults, MaxCrashes} \subseteq Nat

VARIABLES
    file,       \* the configuration file
    marker,     \* the managed-baseline marker, or None
    snap,       \* the managed-baseline snapshot, or None
    plan,       \* the planned-restart marker, or None
    bak,        \* the planned-restart backup, or None
    live,       \* the configuration the runtime serves
    status,     \* ManagedBaselineStore.status
    pend,       \* PlannedRestartStore.pending
    bad,        \* PlannedRestartStore.inconsistent
    inflight,   \* inFlightState is waiting
    deferred,   \* driftAssessmentPending
    op,         \* the holder of applyMu and where it is
    fin,        \* the finalizer and where it is
    drain,      \* drainPendingDriftAssessment
    watch,      \* a watcher event that AssessDriftNow has not handled
    mine,       \* history: contents Jul wrote or adopted
    late,       \* history: the file was edited since Jul last verified it
    outdated,   \* history: a drain recorded a reading that was no longer true
    torn,       \* history: a discard restored the file and could not record it
    used        \* how much of each bound is used up

disk  == <<file, marker, snap, plan, bak>>
mem   == <<status, pend, bad, inflight, deferred>>
hist  == <<mine, late, outdated, torn>>
vars  == <<disk, mem, live, op, fin, drain, watch, hist, used>>

Idle == [kind |-> "none", pc |-> "idle", base |-> None, data |-> None,
         seen |-> None, prev |-> None, ext |-> FALSE]

NoFin == [kind |-> "none", pc |-> "idle", base |-> None, data |-> None,
          seen |-> None, again |-> FALSE]

NoDrain == [pc |-> "idle", seen |-> None]

Current(c)      == [st |-> "current", prior |-> None, cur |-> c]
Preparing(p, c) == [st |-> "preparing", prior |-> p, cur |-> c]

(* The state the store reports, and the digest it compares the file with. *)
Clean(c)        == [state |-> "clean", base |-> c]
Marked(s)       == [status EXCEPT !.state = s]

(* Do two contents need a restart to get from one to the other? *)
RestartRequired(c, d) == (c \in Rebind) # (d \in Rebind)

Spend(b)  == used' = [used EXCEPT ![b] = @ + 1]
CanFail   == used.faults < MaxFaults
Fail      == CanFail /\ Spend("faults")

At(k, p)    == op.kind = k /\ op.pc = p
Goto(p)     == op' = [op EXCEPT !.pc = p]
Release     == op' = Idle
FinAt(p)    == fin.pc = p
FinGoto(p)  == fin' = [fin EXCEPT !.pc = p]

-----------------------------------------------------------------------------
(* Assessments and recovery: pure functions of what was read.              *)

(* AssessDrift.  Only a trustworthy baseline is compared. *)
Assessed(s, seen) ==
    IF s.state \notin {"clean", "drift", "ahead"} THEN s
    ELSE IF seen # s.base THEN [s EXCEPT !.state = "drift"]
    ELSE IF s.state = "ahead" THEN s ELSE Clean(s.base)

(* What PlannedRestartStore.Refresh, or Reconcile at startup, leaves of    *)
(* the marker, the backup and the flags, given what the file holds.  They  *)
(* differ on a staged marker that the file matches: it still waits for its *)
(* restart, or this was it.                                                *)
PlanAfter(p, b, f, startup) ==
    LET nothing  == [plan |-> None, bak |-> None, pend |-> FALSE, bad |-> FALSE]
        kept(q)  == [plan |-> q, bak |-> b, pend |-> TRUE, bad |-> FALSE]
    IN  CASE p = None -> [nothing EXCEPT !.bak = b]
          [] p # None /\ p.st = "prepared" /\ f = p.base -> nothing
          [] p # None /\ p.st = "prepared" /\ f # p.base /\ f = p.staged ->
                 kept([p EXCEPT !.st = "staged"])
          [] p # None /\ p.st = "prepared" /\ f \notin {p.base, p.staged} /\ f = p.prev ->
                 kept([p EXCEPT !.st = "staged", !.staged = p.prev, !.prev = None])
          [] p # None /\ p.st = "staged" /\ f = p.staged ->
                 IF startup THEN nothing ELSE kept(p)
          [] OTHER -> [plan |-> p, bak |-> b, pend |-> FALSE, bad |-> TRUE]

(* ManagedBaselineStore.Reconcile: the marker, the snapshot and the status *)
(* it settles on, from what the three files hold.                          *)
Reconciled(m, s, f) ==
    LET inconsistent == [marker |-> m, snap |-> s,
                         status |-> [state |-> "inconsistent",
                                     base  |-> IF m = None THEN None
                                               ELSE IF m.st = "current" THEN m.cur ELSE m.prior]]
        settle(c, state) == [marker |-> Current(c), snap |-> IF f = c THEN c ELSE s,
                             status |-> [state |-> state, base |-> c]]
    IN  CASE m = None /\ s = None ->
                 [marker |-> None, snap |-> None, status |-> [state |-> "unadopted", base |-> None]]
          [] m # None /\ m.st = "current" /\ f = m.cur -> settle(m.cur, "clean")
          [] m # None /\ m.st = "current" /\ f # m.cur /\ s = m.cur -> settle(m.cur, "drift")
          [] m # None /\ m.st = "preparing" /\ f = m.prior -> settle(m.prior, "clean")
          [] m # None /\ m.st = "preparing" /\ f # m.prior /\ f = m.cur -> settle(m.cur, "clean")
          [] m # None /\ m.st = "preparing" /\ f \notin {m.prior, m.cur} /\ s = m.cur ->
                 settle(m.cur, "drift")
          [] OTHER -> inconsistent

-----------------------------------------------------------------------------
Init ==
    /\ file = Initial /\ live = Initial
    /\ plan = None /\ bak = None
    /\ \/ marker = Current(Initial) /\ snap = Initial /\ status = Clean(Initial)
       \/ marker = None /\ snap = None /\ status = [state |-> "unadopted", base |-> None]
    /\ pend = FALSE /\ bad = FALSE /\ inflight = FALSE /\ deferred = FALSE
    /\ op = Idle /\ fin = NoFin /\ drain = NoDrain /\ watch = FALSE
    /\ mine = {Initial} /\ late = FALSE /\ outdated = FALSE /\ torn = FALSE
    /\ used = [ops |-> 0, edits |-> 0, faults |-> 0, crashes |-> 0]

(* The external writer replaces the file; the watcher will notice. *)
Edit(c) ==
    /\ used.edits < MaxEdits
    /\ c # file
    /\ file' = c /\ watch' = TRUE /\ late' = TRUE
    /\ Spend("edits")
    /\ UNCHANGED <<marker, snap, plan, bak, live, mem, op, fin, drain, mine, outdated, torn>>

-----------------------------------------------------------------------------
(* Requests: each takes applyMu.                                           *)

(* A mutation carries the content its handler read, or its author          *)
(* previewed, before it asked for the lock; a status request only          *)
(* refreshes; an adoption starts elsewhere.                                *)
Begin(k, d) ==
    /\ op = Idle /\ used.ops < MaxOps
    /\ k \in {"hot", "stage"} <=> d # None
    /\ op' = [kind |-> k, pc |-> IF k = "adopt" THEN "fence" ELSE "refresh", base |-> file, data |-> d,
              seen |-> None, prev |-> None, ext |-> FALSE]
    /\ Spend("ops")
    /\ UNCHANGED <<disk, mem, live, fin, drain, watch, hist>>

(* RefreshState: the planned restart first.  When it is inconsistent the   *)
(* request is refused here, before the baseline is assessed.               *)
Refresh ==
    /\ op.pc = "refresh"
    /\ LET r == PlanAfter(plan, bak, file, FALSE) IN
       \/ /\ plan' = r.plan /\ bak' = r.bak /\ pend' = r.pend /\ bad' = r.bad
          /\ op' = IF r.bad THEN Idle
                   ELSE [op EXCEPT !.pc = "read",
                                   !.ext = ~r.pend /\ RestartRequired(file, live)]
          /\ UNCHANGED used
       \/ /\ r.plan # plan /\ r.plan # None /\ Fail    \* the promotion is not written
          /\ bad' = TRUE /\ Release
          /\ UNCHANGED <<plan, bak, pend>>
    /\ UNCHANGED <<file, marker, snap, live, status, inflight, deferred, fin, drain, watch, hist>>

(* assessManagedDrift reads the file, then records what it read. *)
ReadFile ==
    /\ op.pc = "read"
    /\ op' = [op EXCEPT !.pc = "assess", !.seen = file]
    /\ UNCHANGED <<disk, mem, live, fin, drain, watch, hist, used>>

Assess ==
    /\ op.pc = "assess"
    /\ status' = Assessed(status, op.seen)
    /\ op' = IF op.kind \in {"assess", "status"} THEN Idle ELSE [op EXCEPT !.pc = "admit"]
    /\ UNCHANGED <<disk, pend, bad, inflight, deferred, live, fin, drain, watch, hist, used>>

(* May the request go on?  A previous apply may be in flight, the baseline *)
(* unusable, a restart pending; and the candidate must be one that this    *)
(* mode accepts.                                                           *)
Blocked == status.state \in {"unadopted", "drift", "inconsistent"}

(* Mutant: a request of the next apply does not look at the gate. *)
GateIgnored == TRUE

(* The previous apply's finalizer is done. *)
GateOpen == ~inflight

Admitted ==
    CASE op.kind = "hot"   -> /\ GateOpen /\ ~Blocked
                              /\ ~pend /\ ~bad /\ ~op.ext
                              /\ ~RestartRequired(op.base, op.data)
      [] op.kind = "stage" -> /\ GateOpen /\ ~Blocked
                              /\ ~bad /\ ~op.ext
                              /\ RestartRequired(IF pend THEN bak ELSE op.base, op.data)
      [] OTHER             -> pend

Admit ==
    /\ op.pc = "admit"
    /\ op' = IF Admitted
             THEN [op EXCEPT !.pc = CASE op.kind = "hot"   -> "verify"
                                      [] op.kind = "stage" -> "sidecar"
                                      [] OTHER             -> "discard"]
             ELSE Idle
    /\ UNCHANGED <<disk, mem, live, fin, drain, watch, hist, used>>

(* Preflight rejects the candidate, or runs out of time: nothing happened. *)
Rejected ==
    /\ At("hot", "verify") \/ At("stage", "sidecar") \/ At("adopt", "fence")
    /\ Release
    /\ UNCHANGED <<disk, mem, live, fin, drain, watch, hist, used>>

(* The finalizer holds the coordinator's mu from the reload's answer until *)
(* the baseline is settled or must be retried; the other critical sections *)
(* of mu do not touch what is read under it here.                          *)
MuFree == \/ fin.pc \notin {"check", "restore", "outcome", "rewind", "snapshot", "mark", "read", "settle"}
          \/ fin.kind = "hot" /\ fin.again

(* Mutant: an event in the window of a transaction is dropped. *)
NoticedDropped ==
    /\ op = Idle /\ watch /\ MuFree
    /\ watch' = FALSE
    /\ op' = (IF inflight THEN op ELSE [Idle EXCEPT !.kind = "assess", !.pc = "read"])
    /\ UNCHANGED <<disk, mem, live, fin, drain, hist, used>>

(* AssessDriftNow, from the watcher: it takes applyMu, and while a         *)
(* transaction is in flight only remembers that it was asked.              *)
Noticed ==
    /\ op = Idle /\ watch /\ MuFree
    /\ watch' = FALSE
    /\ IF inflight
       THEN deferred' = TRUE /\ UNCHANGED op
       ELSE op' = [Idle EXCEPT !.kind = "assess", !.pc = "read"] /\ UNCHANGED deferred
    /\ UNCHANGED <<disk, status, pend, bad, inflight, live, fin, drain, hist, used>>

-----------------------------------------------------------------------------
(* Staging: backup and prepared marker before the candidate is written.    *)

IsUpdate == plan # None /\ plan.st = "staged"

(* A fresh stage saves the bytes it replaces, an update keeps the backup.  *)
Saved == IF IsUpdate THEN bak ELSE op.base

(* The first check against the handler's bytes, then the backup. *)
Backup ==
    /\ At("stage", "sidecar")
    /\ IF file # op.base THEN Release /\ UNCHANGED <<bak, used>>
       ELSE \/ op' = [op EXCEPT !.pc = "prepare", !.prev = plan]
               /\ bak' = Saved /\ UNCHANGED used
            \/ ~IsUpdate /\ Fail /\ Release /\ UNCHANGED bak
    /\ UNCHANGED <<file, marker, snap, plan, live, mem, fin, drain, watch, hist>>

Prepare ==
    /\ At("stage", "prepare")
    /\ \/ /\ plan' = [st |-> "prepared", staged |-> op.data,
                      base    |-> IF IsUpdate THEN plan.base ELSE op.base,
                      prev    |-> IF IsUpdate THEN plan.staged ELSE None,
                      serving |-> IF IsUpdate THEN plan.serving ELSE live]
          /\ Goto("verify") /\ UNCHANGED used
       \/ Fail /\ Release /\ UNCHANGED plan
    /\ UNCHANGED <<file, marker, snap, bak, live, mem, fin, drain, watch, hist>>

(* AbortPrepared, as far as the disk is concerned. *)
AbortPrepared ==
    /\ plan' = op.prev
    /\ bak' = (IF op.prev = None THEN None ELSE bak)
    /\ pend' = (op.prev # None) /\ bad' = FALSE

-----------------------------------------------------------------------------
(* Hot and staged writes: verify, record the intent, write.                *)

(* Mutant: the file is not read again before it is written. *)
VerifiedEarlier == TRUE

(* verifyBaselineLocked: the file must still hold what the handler read. *)
Verified == file = op.base

Verify ==
    /\ op.pc = "verify"
    /\ \/ Verified /\ late' = FALSE /\ Goto("begin") /\ UNCHANGED <<plan, bak, pend, bad, used>>
       \/ /\ ~Verified /\ Release
          /\ IF op.kind = "stage" THEN AbortPrepared ELSE UNCHANGED <<plan, bak, pend, bad>>
          /\ UNCHANGED <<late, used>>
       \/ /\ ~Verified /\ op.prev # None /\ Fail /\ Release      \* the old marker is not put back
          /\ UNCHANGED <<plan, bak, pend, bad, late>>
    /\ UNCHANGED <<file, marker, snap, live, status, inflight, deferred, fin, drain, watch, mine, outdated, torn>>

(* Mutant: the baseline learns of the write only when it completes. *)
BeginWriteSkipped ==
    /\ op.pc = "begin" /\ Goto("write")
    /\ UNCHANGED <<disk, mem, live, fin, drain, watch, hist, used>>

(* T-write step 1.  A hot apply rolls from the bytes it verified, a stage  *)
(* from what the baseline last recorded.                                   *)
BeginWrite ==
    /\ op.pc = "begin"
    /\ \/ /\ marker' = Preparing(IF op.kind = "hot" THEN op.base ELSE status.base, op.data)
          /\ Goto("write") /\ UNCHANGED <<plan, bak, pend, bad, used>>
       \/ /\ Fail /\ Release /\ UNCHANGED marker
          /\ IF op.kind = "stage" THEN AbortPrepared ELSE UNCHANGED <<plan, bak, pend, bad>>
    /\ UNCHANGED <<file, snap, live, status, inflight, deferred, fin, drain, watch, hist>>

(* A hot apply is in flight from its write on. *)
InFlightAfterWrite == op.kind = "hot"

(* T-write step 2, the commit point. *)
Write ==
    /\ op.pc = "write"
    /\ \/ /\ file' = op.data /\ mine' = mine \union {op.data} /\ watch' = TRUE
          /\ inflight' = InFlightAfterWrite
          /\ Goto(IF op.kind = "hot" THEN "submit" ELSE "promote") /\ UNCHANGED used
       \/ Fail /\ Release /\ UNCHANGED <<file, mine, watch, inflight>>
    /\ UNCHANGED <<marker, snap, plan, bak, live, status, pend, bad, deferred, fin, drain, late, outdated, torn>>

(* What the finalizer takes over from the request. *)
Finalizer(p) == [kind |-> op.kind, pc |-> p, base |-> op.base, data |-> op.data,
                 seen |-> None, again |-> FALSE]

(* Mutant: the request keeps applyMu while it waits for the reload. *)
SubmitAndHold ==
    /\ op.pc = "submit"
    /\ fin' = Finalizer("reload") /\ Goto("wait")
    /\ UNCHANGED <<disk, mem, live, drain, watch, hist, used>>

(* SubmitReload.  Once the reload is queued the request gives applyMu up;  *)
(* when it cannot be queued the request itself puts the file back, and     *)
(* keeps applyMu until that is settled.                                    *)
Submit ==
    /\ op.pc = "submit"
    /\ \/ fin' = Finalizer("reload") /\ Release /\ UNCHANGED status
       \/ fin' = Finalizer("check") /\ Goto("wait") /\ status' = Marked("failed")
    /\ UNCHANGED <<disk, pend, bad, inflight, deferred, live, drain, watch, hist, used>>

(* PromoteToStagedVerified: the file must be the candidate before and      *)
(* after the marker says staged.  A promotion that is not written is       *)
(* repaired at once by Reconcile, if the file still is the candidate.      *)
Promote ==
    /\ op.pc = "promote"
    /\ \/ file # op.data /\ Release /\ UNCHANGED <<plan, pend, used>>
       \/ /\ file = op.data
          /\ plan' = [plan EXCEPT !.st = "staged", !.prev = None]
          /\ Goto("confirm") /\ UNCHANGED <<pend, used>>
       \/ /\ file = op.data /\ Fail
          /\ plan' = [plan EXCEPT !.st = "staged"] /\ pend' = TRUE
          /\ Goto("complete")
       \/ /\ file = op.data /\ used.faults + 2 <= MaxFaults
          /\ used' = [used EXCEPT !.faults = @ + 2]
          /\ Release /\ UNCHANGED <<plan, pend>>
    /\ UNCHANGED <<file, marker, snap, bak, live, status, bad, inflight, deferred, fin, drain, watch, hist>>

Confirm ==
    /\ op.pc = "confirm"
    /\ \/ file # op.data /\ bad' = TRUE /\ Release /\ UNCHANGED pend
       \/ file = op.data /\ pend' = TRUE /\ Goto("complete") /\ UNCHANGED bad
    /\ UNCHANGED <<disk, live, status, inflight, deferred, fin, drain, watch, hist, used>>

(* The stage completes its baseline inline, under applyMu. *)
CompleteStage ==
    /\ op.pc = "complete"
    /\ fin' = Finalizer("snapshot") /\ Goto("wait")
    /\ UNCHANGED <<disk, mem, live, drain, watch, hist, used>>

(* The request is over once its own finalization is. *)
Return ==
    /\ op.pc = "wait" /\ fin = NoFin /\ drain = NoDrain
    /\ Release
    /\ UNCHANGED <<disk, mem, live, fin, drain, watch, hist, used>>

-----------------------------------------------------------------------------
(* The finalizer: the reload's outcome, the baseline, then the gate.       *)

(* The reload publishes the candidate, or does not. *)
Reload ==
    /\ FinAt("reload")
    /\ \/ live' = fin.data /\ FinGoto("snapshot") /\ UNCHANGED status
       \/ FinGoto("check") /\ status' = Marked("failed") /\ UNCHANGED live
    /\ UNCHANGED <<disk, pend, bad, inflight, deferred, op, drain, watch, hist, used>>

(* restorePreviousLocked: only a file that still is the candidate is put   *)
(* back.                                                                   *)
RestoreCheck ==
    /\ FinAt("check")
    /\ \/ file = fin.data /\ FinGoto("restore") /\ late' = FALSE
       \/ file # fin.data /\ FinGoto("outcome") /\ UNCHANGED late
    /\ UNCHANGED <<disk, mem, live, op, drain, watch, mine, outdated, torn, used>>

Restore ==
    /\ FinAt("restore")
    /\ \/ file' = fin.base /\ watch' = TRUE /\ UNCHANGED used
       \/ Fail /\ UNCHANGED <<file, watch>>
    /\ FinGoto("outcome")
    /\ UNCHANGED <<marker, snap, plan, bak, mem, live, op, drain, hist>>

(* withRestorationOutcome reads the file again: was the previous content   *)
(* really put back?                                                        *)
Restored == file # fin.data /\ file = fin.base

Outcome ==
    /\ FinAt("outcome")
    /\ \/ Restored /\ FinGoto("rewind") /\ UNCHANGED status
       \/ ~Restored /\ FinGoto("clear") /\ status' = Marked("inconsistent")
    /\ UNCHANGED <<disk, pend, bad, inflight, deferred, live, op, drain, watch, hist, used>>

(* RewindWrite; a marker that cannot be written back leaves the status as  *)
(* it is.                                                                  *)
Rewind ==
    /\ FinAt("rewind")
    /\ \/ /\ marker' = (IF marker.st = "preparing" THEN Current(marker.prior) ELSE marker)
          /\ status' = (IF marker.st = "preparing" THEN Clean(marker.prior) ELSE status)
          /\ FinGoto("read") /\ UNCHANGED used
       \/ /\ marker.st = "preparing" /\ Fail /\ FinGoto("clear")
          /\ UNCHANGED <<marker, status>>
    /\ UNCHANGED <<file, snap, plan, bak, pend, bad, inflight, deferred, live, op, drain, watch, hist>>

(* CompleteWrite: the snapshot, then the marker.  A failure is retried     *)
(* once; a second one, or a file that changed meanwhile, leaves the        *)
(* baseline inconsistent.                                                  *)
GiveUp == /\ status' = Marked("inconsistent")
          /\ fin' = [fin EXCEPT !.pc = "clear"]
          /\ op' = (IF fin.kind = "hot" THEN Idle ELSE op)

WriteFailed == IF fin.again THEN GiveUp
               ELSE FinGoto("retry") /\ UNCHANGED <<status, op>>

Snapshot ==
    /\ FinAt("snapshot")
    /\ \/ snap' = fin.data /\ FinGoto("mark") /\ UNCHANGED <<status, op, used>>
       \/ Fail /\ WriteFailed /\ UNCHANGED snap
    /\ UNCHANGED <<file, marker, plan, bak, pend, bad, inflight, deferred, live, drain, watch, hist>>

Mark ==
    /\ FinAt("mark")
    /\ \/ /\ marker' = Current(fin.data) /\ status' = Clean(fin.data)
          /\ FinGoto("read") /\ UNCHANGED <<op, used>>
       \/ Fail /\ WriteFailed /\ UNCHANGED marker
    /\ UNCHANGED <<file, snap, plan, bak, pend, bad, inflight, deferred, live, drain, watch, hist>>

(* resolveBaselineWriteRetry takes applyMu; retryBaselineWriteLocked, of a *)
(* stage, has it already.                                                  *)
Retry ==
    /\ FinAt("retry")
    /\ fin.kind = "hot" => op = Idle
    /\ \/ /\ file = fin.data
          /\ fin' = [fin EXCEPT !.pc = "snapshot", !.again = TRUE]
          /\ op' = (IF fin.kind = "hot" THEN [Idle EXCEPT !.kind = "retry", !.pc = "held"] ELSE op)
          /\ UNCHANGED status
       \/ /\ file # fin.data /\ FinGoto("clear") /\ UNCHANGED op
          /\ status' = IF fin.kind = "hot" /\ status.base = file THEN status
                       ELSE Marked("inconsistent")
    /\ UNCHANGED <<disk, pend, bad, inflight, deferred, live, drain, watch, hist, used>>

(* The transaction's own reassessment of the file. *)
Reread ==
    /\ FinAt("read")
    /\ fin' = [fin EXCEPT !.pc = "settle", !.seen = file]
    /\ UNCHANGED <<disk, mem, live, op, drain, watch, hist, used>>

Settle ==
    /\ FinAt("settle")
    /\ status' = Assessed(status, fin.seen)
    /\ FinGoto("clear")
    /\ op' = (IF fin.kind = "hot" /\ fin.again THEN Idle ELSE op)
    /\ UNCHANGED <<disk, pend, bad, inflight, deferred, live, drain, watch, hist, used>>

(* The gate opens; what the watcher was told to defer is looked at next. *)
ClearGate ==
    /\ FinAt("clear") /\ drain = NoDrain
    /\ inflight' = FALSE
    /\ fin' = NoFin
    /\ drain' = (IF fin.kind = "hot" THEN [NoDrain EXCEPT !.pc = "check"] ELSE drain)
    /\ UNCHANGED <<disk, status, pend, bad, deferred, live, op, watch, hist, used>>

Drain ==
    /\ \/ /\ drain.pc = "check" /\ MuFree
          /\ deferred' = FALSE
          /\ drain' = (IF deferred THEN [drain EXCEPT !.pc = "read"] ELSE NoDrain)
          /\ UNCHANGED <<status, outdated>>
       \/ /\ drain.pc = "read"
          /\ drain' = [pc |-> "assess", seen |-> file]
          /\ UNCHANGED <<deferred, status, outdated>>
       \/ /\ drain.pc = "assess"
          /\ status' = Assessed(status, drain.seen)
          /\ outdated' = (outdated \/ file # drain.seen)
          /\ drain' = NoDrain /\ UNCHANGED deferred
    /\ UNCHANGED <<disk, pend, bad, inflight, live, op, fin, watch, mine, late, torn, used>>

-----------------------------------------------------------------------------
(* Discarding a staged restart.                                            *)

(* DiscardSafe's checks. *)
DiscardCheck ==
    /\ op.pc = "discard"
    /\ \/ /\ IsUpdate /\ file = plan.staged /\ live = plan.serving
          /\ late' = FALSE
          /\ op' = [op EXCEPT !.pc = "revert", !.base = bak]
       \/ ~(IsUpdate /\ file = plan.staged /\ live = plan.serving) /\ Release /\ UNCHANGED late
    /\ UNCHANGED <<disk, mem, live, fin, drain, watch, mine, outdated, torn, used>>

(* The backup goes back to the file, then the two sidecars are removed. *)
Revert ==
    /\ op.pc = "revert"
    /\ \/ file' = op.base /\ watch' = TRUE /\ Goto("unmark") /\ UNCHANGED used
       \/ Fail /\ Release /\ UNCHANGED <<file, watch>>
    /\ UNCHANGED <<marker, snap, plan, bak, mem, live, fin, drain, hist>>

RemoveMarker ==
    /\ op.pc = "unmark"
    /\ plan' = None /\ Goto("unback")
    /\ UNCHANGED <<file, marker, snap, bak, mem, live, fin, drain, watch, hist, used>>

RemoveBackup ==
    /\ op.pc = "unback"
    /\ bak' = None /\ pend' = FALSE /\ bad' = FALSE /\ Goto("commit")
    /\ UNCHANGED <<file, marker, snap, plan, status, inflight, deferred, live, fin, drain, watch, hist, used>>

-----------------------------------------------------------------------------
(* Adoption: the baseline moves to the file, the file does not move.       *)

(* The fence: this read is the buffer the adoption uses throughout, and it *)
(* must be what was previewed.  An adoption is refused while an apply is   *)
(* in flight or a restart is pending.                                      *)
Fence ==
    /\ At("adopt", "fence")
    /\ \/ /\ ~inflight /\ ~pend /\ file = op.base
          /\ (snap # None /\ snap = status.base) => ~RestartRequired(snap, file)
          /\ Goto("commit")
       \/ (inflight \/ pend \/ file # op.base) /\ Release
    /\ UNCHANGED <<disk, mem, live, fin, drain, watch, hist, used>>

(* CommitMarkerOnly, the commit point of T-mark, for an adoption and for a *)
(* discard; then CommitSnapshotOnly.                                       *)
Commit ==
    /\ op.pc = "commit"
    /\ \/ /\ marker' = Current(op.base) /\ status' = Clean(op.base)
          /\ mine' = mine \union {op.base}
          /\ Goto("keep") /\ UNCHANGED <<torn, used>>
       \/ /\ Fail /\ Release /\ torn' = (torn \/ op.kind = "discard")
          /\ UNCHANGED <<marker, status, mine>>
    /\ UNCHANGED <<file, snap, plan, bak, pend, bad, inflight, deferred, live, fin, drain, watch, late, outdated>>

KeepSnapshot ==
    /\ op.pc = "keep"
    /\ \/ /\ snap' = op.base /\ UNCHANGED used
          /\ IF op.kind = "adopt" THEN Goto("recheck") ELSE Release
       \/ /\ Fail /\ UNCHANGED snap
          /\ IF op.kind = "adopt" THEN Goto("keepagain") ELSE Release
    /\ UNCHANGED <<file, marker, plan, bak, live, mem, fin, drain, watch, hist>>

(* retryBaselineWriteLocked, of the snapshot alone. *)
KeepAgain ==
    /\ op.pc = "keepagain"
    /\ Goto("recheck")
    /\ \/ file = op.base /\ snap' = op.base /\ UNCHANGED <<status, used>>
       \/ file = op.base /\ Fail /\ status' = Marked("inconsistent") /\ UNCHANGED snap
       \/ file # op.base /\ status' = Marked("inconsistent") /\ UNCHANGED <<snap, used>>
    /\ UNCHANGED <<file, marker, plan, bak, pend, bad, inflight, deferred, live, fin, drain, watch, hist>>

(* The one read after the commit, only to report drift. *)
Recheck ==
    /\ op.pc = "recheck"
    /\ op' = [op EXCEPT !.pc = "adopted", !.seen = file]
    /\ status' = (IF file # op.base THEN Assessed(status, file) ELSE status)
    /\ UNCHANGED <<disk, pend, bad, inflight, deferred, live, fin, drain, watch, hist, used>>

(* The reload takes, or the runtime stays behind (MarkDesiredAhead). *)
Adopted ==
    /\ op.pc = "adopted"
    /\ Release
    /\ \/ live' = op.base /\ UNCHANGED status
       \/ /\ status' = IF op.seen # op.base \/ status.state \in {"inconsistent", "drift"}
                       THEN status ELSE Marked("ahead")
          /\ UNCHANGED live
    /\ UNCHANGED <<disk, pend, bad, inflight, deferred, fin, drain, watch, hist, used>>

-----------------------------------------------------------------------------
(* A crash loses everything in memory; the next process serves the file.   *)
Crash ==
    /\ used.crashes < MaxCrashes /\ op.kind # "boot"
    /\ live' = file
    /\ status' = [state |-> "unadopted", base |-> None]
    /\ pend' = FALSE /\ bad' = FALSE /\ inflight' = FALSE /\ deferred' = FALSE
    /\ op' = [Idle EXCEPT !.kind = "boot", !.pc = "recover"]
    /\ fin' = NoFin /\ drain' = NoDrain
    /\ Spend("crashes")
    /\ UNCHANGED <<disk, watch, hist>>

(* OnInitialGenerationReady: the planned restart first, the baseline       *)
(* second, against what that leaves; a repair that cannot be written       *)
(* leaves the baseline inconsistent.                                       *)
Recover ==
    /\ op.pc = "recover"
    /\ LET p == PlanAfter(plan, bak, file, TRUE)
           r == Reconciled(marker, snap, file)
       IN  /\ plan' = p.plan /\ bak' = p.bak /\ pend' = p.pend /\ bad' = p.bad
           /\ \/ /\ marker' = r.marker /\ snap' = r.snap /\ status' = r.status
                 /\ UNCHANGED used
              \/ /\ <<r.marker, r.snap>> # <<marker, snap>> /\ Fail
                 /\ status' = [r.status EXCEPT !.state = "inconsistent"]
                 /\ UNCHANGED <<marker, snap>>
    /\ Release
    /\ UNCHANGED <<file, live, inflight, deferred, fin, drain, watch, hist>>

-----------------------------------------------------------------------------
OpStep  == \/ Refresh \/ ReadFile \/ Assess \/ Admit \/ Backup \/ Prepare \/ Verify \/ BeginWrite
           \/ Write \/ Submit \/ Promote \/ Confirm \/ CompleteStage \/ Return
           \/ DiscardCheck \/ Revert \/ RemoveMarker \/ RemoveBackup
           \/ Fence \/ Commit \/ KeepSnapshot \/ KeepAgain \/ Recheck \/ Adopted \/ Recover

FinStep == \/ Reload \/ RestoreCheck \/ Restore \/ Outcome \/ Rewind \/ Snapshot \/ Mark
           \/ Retry \/ Reread \/ Settle \/ ClearGate

Next == \/ \E c \in Edits \union {Initial} : Edit(c)
        \/ \E d \in Candidates : Begin("hot", d) \/ Begin("stage", d)
        \/ \E k \in {"adopt", "discard", "status"} : Begin(k, None)
        \/ OpStep \/ Rejected \/ Noticed \/ FinStep \/ Drain \/ Crash

Spec == Init /\ [][Next]_vars

(* Every goroutine that has something to do does it: the holder of applyMu *)
(* goes on, the reload answers, the finalizer and the watcher run.         *)
FairSpec == Spec /\ WF_vars(OpStep \/ Rejected) /\ WF_vars(FinStep) /\ WF_vars(Drain) /\ WF_vars(Noticed)

-----------------------------------------------------------------------------
OpPlaces  == {"idle", "refresh", "read", "assess", "admit", "sidecar", "prepare", "verify", "begin", "write",
              "submit", "promote", "confirm", "complete", "wait", "discard", "revert", "unmark", "unback",
              "fence", "commit", "keep", "keepagain", "recheck", "adopted", "held", "recover"}

FinPlaces == {"idle", "reload", "check", "restore", "outcome", "rewind", "snapshot", "mark", "retry", "read",
              "settle", "clear"}

Ops  == [kind : {"none", "hot", "stage", "adopt", "discard", "status", "assess", "retry", "boot"},
         pc   : OpPlaces, base : Contents \union {None}, data : Contents \union {None},
         seen : Contents \union {None}, prev : Plans \union {None}, ext : BOOLEAN]

Fins == [kind : {"none", "hot", "stage"},
         pc   : FinPlaces, base : Contents \union {None}, data : Contents \union {None},
         seen : Contents \union {None}, again : BOOLEAN]

Drains == [pc : {"idle", "check", "read", "assess"}, seen : Contents \union {None}]

Statuses == [state : {"unadopted", "clean", "drift", "ahead", "failed", "inconsistent"},
             base  : Contents \union {None}]

(* Every variable holds a value of its kind. *)
TypeOK ==
    /\ file \in Contents /\ live \in Contents
    /\ marker \in Markers \union {None}
    /\ snap \in Contents \union {None}
    /\ plan \in Plans \union {None}
    /\ bak \in Contents \union {None}
    /\ status \in Statuses
    /\ pend \in BOOLEAN /\ bad \in BOOLEAN /\ inflight \in BOOLEAN /\ deferred \in BOOLEAN
    /\ op \in Ops /\ fin \in Fins
    /\ drain \in Drains
    /\ watch \in BOOLEAN /\ late \in BOOLEAN /\ outdated \in BOOLEAN /\ torn \in BOOLEAN
    /\ mine \in SUBSET Contents
    /\ used \in [ops : Nat, edits : Nat, faults : Nat, crashes : Nat]

Quiet == op = Idle /\ fin = NoFin /\ drain = NoDrain /\ ~watch /\ ~deferred

(* A managed step of Jul replaces the file: no edit of its own happens. *)
Replaces == file' # file /\ used'.edits = used.edits

(* Contents that Jul neither wrote nor adopted are replaced only if the    *)
(* author of the request saw them, or if they landed after Jul's last look *)
(* at the file: each write, restoration and discard looks again just       *)
(* before (verifyBaselineLocked, restorePreviousLocked, DiscardSafe).      *)
KeepsEdits == [][(Replaces /\ file \notin mine) => (late \/ file = op.base)]_vars

(* What the comment on the drift check in ApplyRaw says: while the file    *)
(* holds contents that were not adopted, managed writes are refused, even  *)
(* those whose author saw them.                                            *)
DriftRefused == [][(Replaces /\ file \notin mine) => late]_vars

(* When nothing is going on any more, the drift that is reported is the    *)
(* drift there is, whatever the watcher and the finalizer did in between.  *)
(* A drain that recorded an outdated reading (it runs outside applyMu) is  *)
(* outside it.                                                             *)
DriftIsReported ==
    (Quiet /\ ~outdated /\ status.state \in {"clean", "drift", "ahead"})
        => (status.state = "drift" <=> file # status.base)

(* The gate is closed for somebody who will open it: the request that is   *)
(* about to submit its reload, or the finalizer of that reload.            *)
GateIsHeld == inflight => op.pc = "submit" \/ (fin.kind = "hot" /\ fin.data # None)

(* An apply that is admitted finds the previous one's baseline settled:    *)
(* no finalizer is left that could still move it, the marker on disk is    *)
(* one that a crash would recover from, and when it says current it names  *)
(* the content that the status compares the file with.                     *)
AdmittedOnSettledBaseline ==
    (op.kind \in {"hot", "stage"} /\ op.pc \in {"sidecar", "prepare", "verify", "begin"})
        => /\ ~inflight /\ fin = NoFin
           /\ marker.st = "current" => marker.cur = status.base

(* The backup beside a planned-restart marker is the content that its      *)
(* discard must bring back, however often the stage was updated.           *)
BackupIsBase == plan # None => bak = plan.base

(* What a request builds on is sound: the types, the gate it passes, the   *)
(* baseline it is admitted on, and the backup a discard would use.         *)
BasisIsSound == TypeOK /\ GateIsHeld /\ AdmittedOnSettledBaseline /\ BackupIsBase

(* Without an external writer, a crash at any point of any transaction but *)
(* a discard recovers: the baseline is clean, whatever mixture of the five *)
(* files the crash leaves, and the planned restart is not inconsistent.    *)
(* A rewind that could not be written leaves the status failed, which      *)
(* nothing assesses again; until an apply replaces it, this says nothing:  *)
(* a stage takes that status for what the file holds (BeginWrite), though  *)
(* an earlier stage may have written the file and not completed.           *)
Recoverable ==
    /\ Reconciled(marker, snap, file).status.state \in {"clean", "unadopted"}
    /\ ~PlanAfter(plan, bak, file, TRUE).bad

Calm == used.edits = 0 /\ used.crashes = 0 /\ ~torn /\ ~outdated

CrashRecovers ==
    (Calm /\ op.kind # "discard" /\ (status.state = "failed" => fin # NoFin)) => Recoverable

(* The gate that a hot apply closes opens again. *)
GateReopens == inflight ~> ~inflight

=============================================================================
