----------------------------- MODULE RetryBudget -----------------------------
(***************************************************************************)
(* Budget of internal/upstream/retry.go: the pool's retry allowance.  Over *)
(* a window of one epoch and the copied totals of the epoch before it,     *)
(* retries are granted while                                               *)
(*                                                                         *)
(*     retries < primaries * percent \div 100 + minFreeRetries.            *)
(*                                                                         *)
(* The live window is an atomic pointer, replaced by compare-and-swap when *)
(* the clock reaches a new epoch; its two counters are atomics of their    *)
(* own.  Several callers run Primary and Allow at once, and the model      *)
(* takes one step per atomic operation.  A window is named by its epoch:   *)
(* every swap raises it, so a pointer comparison is an epoch comparison.   *)
(* The clock is the wall clock without its monotonic part: between two     *)
(* readings it may move on, jump over epochs or step back.                 *)
(***************************************************************************)
EXTENDS Integers

CONSTANTS Callers,       \* goroutines that use the budget
          Percents,      \* allowances a reload may install; 0 is unbudgeted
          LastEpoch,     \* bound: the latest epoch the clock shows
          MaxPrimaries   \* bound: first attempts recorded in one epoch

ASSUME PercentsAssumption == Percents # {} /\ Percents \subseteq 0..100
ASSUME BoundsAssumption == LastEpoch \in Nat /\ MaxPrimaries \in Nat

minFreeRetries == 3

VARIABLES
    percent,     \* Budget.percent
    win,         \* Budget.win, as the epoch of the window it points to
    prev,        \* the totals copied into a window at its rotation
    primaries, retries,  \* the counters of each window
    pc,          \* where each caller is
    call,        \* what it runs: "primary" or "allow"
    reg,         \* what it has read
    granted      \* history: the retries granted in each epoch's windows

counters == <<primaries, retries>>
vars == <<percent, win, prev, counters, pc, call, reg, granted>>

Epochs == 0..LastEpoch
None == [primaries |-> 0, retries |-> 0]
NoReads == [percent |-> 0, epoch |-> 0, win |-> 0, copy |-> None, retries |-> 0]

Init ==
    /\ percent \in Percents
    /\ win = 0
    /\ prev = [e \in Epochs |-> None]
    /\ primaries = [e \in Epochs |-> 0]
    /\ retries = [e \in Epochs |-> 0]
    /\ pc = [c \in Callers |-> "idle"]
    /\ call = [c \in Callers |-> "allow"]
    /\ reg = [c \in Callers |-> NoReads]
    /\ granted = [e \in Epochs |-> 0]

Goes(c, place) == pc' = [pc EXCEPT ![c] = place]
Ends(c) ==
    /\ Goes(c, "idle")
    /\ call' = [call EXCEPT ![c] = "allow"]
    /\ reg' = [reg EXCEPT ![c] = NoReads]
Learns(c, field, value) == reg' = [reg EXCEPT ![c][field] = value]

(* window() returns a window: its own readings are gone.                   *)
Returns(c, w) ==
    /\ Goes(c, call[c])
    /\ reg' = [reg EXCEPT ![c] = [NoReads EXCEPT !.percent = reg[c].percent, !.win = w]]

-----------------------------------------------------------------------------
(* Primary and Allow read the percentage; at 0 they do nothing more.       *)
Begin(c, what) ==
    /\ pc[c] = "idle"
    /\ percent > 0
    /\ call' = [call EXCEPT ![c] = what]
    /\ Learns(c, "percent", percent)
    /\ Goes(c, "clock")
    /\ UNCHANGED <<percent, win, prev, counters, granted>>

(* window(): the clock is read once, the pointer in a loop.                *)
ReadClock(c) ==
    /\ pc[c] = "clock"
    /\ \E now \in Epochs : Learns(c, "epoch", now)
    /\ Goes(c, "load")
    /\ UNCHANGED <<percent, win, prev, counters, call, granted>>

(* Mutant: a clock that stepped back gets a window of its own. *)
IsExactly(e, now) == e = now

(* A window ahead of the clock is kept: the clock stepped back.            *)
IsCurrent(e, now) == e >= now

LoadWindow(c) ==
    /\ pc[c] = "load"
    /\ IF IsCurrent(win, reg[c].epoch)
          THEN Returns(c, win)
          ELSE Learns(c, "win", win) /\ Goes(c, "copyPrimaries")
    /\ UNCHANGED <<percent, win, prev, counters, call, granted>>

(* Mutant: totals carried over a gap. *)
CarriedAlways(c, count) == count

(* Only the window just before the new one is carried over.                *)
Carried(c, count) == IF reg[c].epoch = reg[c].win + 1 THEN count ELSE 0

CopyPrimaries(c) ==
    /\ pc[c] = "copyPrimaries"
    /\ reg' = [reg EXCEPT ![c].copy.primaries = Carried(c, primaries[reg[c].win])]
    /\ Goes(c, "copyRetries")
    /\ UNCHANGED <<percent, win, prev, counters, call, granted>>

CopyRetries(c) ==
    /\ pc[c] = "copyRetries"
    /\ reg' = [reg EXCEPT ![c].copy.retries = Carried(c, retries[reg[c].win])]
    /\ Goes(c, "swap")
    /\ UNCHANGED <<percent, win, prev, counters, call, granted>>

PointerUnmoved(c) == win = reg[c].win

NextEpoch(c) == reg[c].epoch

Swap(c) ==
    /\ pc[c] = "swap"
    /\ PointerUnmoved(c)
    /\ win' = NextEpoch(c)
    /\ prev' = [prev EXCEPT ![NextEpoch(c)] = reg[c].copy]
    /\ primaries' = [primaries EXCEPT ![NextEpoch(c)] = 0]
    /\ retries' = [retries EXCEPT ![NextEpoch(c)] = 0]
    /\ Returns(c, NextEpoch(c))
    /\ UNCHANGED <<percent, call, granted>>

LoseSwap(c) ==
    /\ pc[c] = "swap"
    /\ ~PointerUnmoved(c)
    /\ Learns(c, "copy", None)
    /\ Goes(c, "load")
    /\ UNCHANGED <<percent, win, prev, counters, call, granted>>

-----------------------------------------------------------------------------
RecordPrimary(c) ==
    /\ pc[c] = "primary"
    /\ primaries[reg[c].win] < MaxPrimaries
    /\ primaries' = [primaries EXCEPT ![reg[c].win] = @ + 1]
    /\ Ends(c)
    /\ UNCHANGED <<percent, win, prev, retries, granted>>

(* Allow: the retries are read, then the primaries; the claim is a         *)
(* compare-and-swap of the retries.                                        *)
ReadRetries(c) ==
    /\ pc[c] = "allow"
    /\ Learns(c, "retries", retries[reg[c].win])
    /\ Goes(c, "compare")
    /\ UNCHANGED <<percent, win, prev, counters, call, granted>>

Allowance(w, pct) == ((primaries[w] + prev[w].primaries) * pct) \div 100 + minFreeRetries

Permits(c) == reg[c].retries + prev[reg[c].win].retries < Allowance(reg[c].win, reg[c].percent)

Compare(c) ==
    /\ pc[c] = "compare"
    /\ IF Permits(c) THEN Goes(c, "claim") /\ UNCHANGED <<reg, call>> ELSE Ends(c)
    /\ UNCHANGED <<percent, win, prev, counters, granted>>

(* Mutant: an add in place of the compare-and-swap. *)
AssumedUnmoved(c) == TRUE

Unmoved(c) == retries[reg[c].win] = reg[c].retries

Claim(c) ==
    /\ pc[c] = "claim"
    /\ Unmoved(c)
    /\ retries' = [retries EXCEPT ![reg[c].win] = @ + 1]
    /\ granted' = [granted EXCEPT ![reg[c].win] = @ + 1]
    /\ Ends(c)
    /\ UNCHANGED <<percent, win, prev, primaries>>

LoseClaim(c) ==
    /\ pc[c] = "claim"
    /\ ~Unmoved(c)
    /\ Goes(c, "allow")
    /\ UNCHANGED <<percent, win, prev, counters, call, reg, granted>>

-----------------------------------------------------------------------------
(* Mutant: a reload that starts the window afresh. *)
SetPercentAndReset(p) ==
    /\ percent' = p
    /\ retries' = [retries EXCEPT ![win] = 0]
    /\ UNCHANGED <<win, prev, primaries, pc, call, reg, granted>>

(* A reload changes the percentage and nothing else.                       *)
SetPercent(p) ==
    /\ percent' = p
    /\ UNCHANGED <<win, prev, counters, pc, call, reg, granted>>

Window(c) ==
    \/ ReadClock(c) \/ LoadWindow(c) \/ CopyPrimaries(c) \/ CopyRetries(c)
    \/ Swap(c) \/ LoseSwap(c)

Primary(c) == Begin(c, "primary") \/ RecordPrimary(c)
Allow(c) == Begin(c, "allow") \/ ReadRetries(c) \/ Compare(c) \/ Claim(c) \/ LoseClaim(c)

Next ==
    \/ \E c \in Callers : Window(c) \/ Primary(c) \/ Allow(c)
    \/ \E p \in Percents : SetPercent(p)

Spec == Init /\ [][Next]_vars

-----------------------------------------------------------------------------
(* Types of the variables.                                                 *)
TypeOK ==
    /\ percent \in Percents
    /\ win \in Epochs
    /\ prev \in [Epochs -> [primaries : Nat, retries : Nat]]
    /\ primaries \in [Epochs -> Nat]
    /\ retries \in [Epochs -> Nat]
    /\ pc \in [Callers -> {"idle", "clock", "load", "copyPrimaries", "copyRetries", "swap",
                           "primary", "allow", "compare", "claim"}]
    /\ call \in [Callers -> {"primary", "allow"}]
    /\ reg \in [Callers -> [percent : Percents \cup {0}, epoch : Epochs, win : Epochs,
                            copy : [primaries : Nat, retries : Nat], retries : Nat]]
    /\ granted \in [Epochs -> Nat]

(* No caller works on a window newer than the live one, and nothing has    *)
(* been counted in a window that was never installed, whichever way the    *)
(* clock moved.                                                            *)
WindowsAdvance ==
    /\ \A c \in Callers : reg[c].win <= win
    /\ \A e \in Epochs : e > win => primaries[e] = 0 /\ retries[e] = 0

(* What a caller read may be stale when it acts on it, but only on the     *)
(* safe side: the window to rotate was older than the clock, the totals    *)
(* copied were reached, and a claim is still within the allowance unless   *)
(* its compare-and-swap is going to fail.                                  *)
StaleReadsAreSafe ==
    \A c \in Callers :
        /\ pc[c] \in {"copyPrimaries", "copyRetries", "swap"} => reg[c].win < reg[c].epoch
        /\ pc[c] \in {"copyRetries", "swap"} =>
              reg[c].copy.primaries <= Carried(c, primaries[reg[c].win])
        /\ pc[c] = "swap" => reg[c].copy.retries <= Carried(c, retries[reg[c].win])
        /\ pc[c] = "claim" => Permits(c)

(* Every grant satisfies the bound at the moment it is made, in the window *)
(* it is charged to and at the percentage the caller read: two callers     *)
(* cannot both spend the last retry of a window (Budget.Allow).            *)
GrantsWithinAllowance ==
    [][\A c \in Callers, w \in Epochs : pc[c] = "claim" /\ pc'[c] = "idle" /\ reg[c].win = w =>
          retries'[w] + prev[w].retries <= Allowance(w, reg[c].percent)]_vars

(* What a window carries was counted in the window one epoch before it,    *)
(* and never more than that one counted: a gap forgives, a rotation never  *)
(* invents traffic that would earn retries.                                *)
CarriesOnlyPrevious ==
    \A e \in Epochs :
        /\ e = 0 => prev[e] = None
        /\ e > 0 => prev[e].primaries <= primaries[e - 1] /\ prev[e].retries <= retries[e - 1]

(* The windows form one line of time: types, order, what they carry, and   *)
(* what callers with old readings may still do to them.                    *)
WindowsInOrder == TypeOK /\ WindowsAdvance /\ StaleReadsAreSafe /\ CarriesOnlyPrevious

(* All the retries ever granted in an epoch, with the ones its window      *)
(* carries, are within what its recorded traffic earns at one of the       *)
(* configured percentages: neither a reload (the comment on Budget) nor a  *)
(* clock that steps back and comes again (window()) forgives spending, and *)
(* concurrent rotations to one epoch share one account.                    *)
NoFreshBurst ==
    \A w \in Epochs : granted[w] > 0 =>
        \E p \in Percents : granted[w] + prev[w].retries <= Allowance(w, p)
=============================================================================
