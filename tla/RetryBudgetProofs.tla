------------------------- MODULE RetryBudgetProofs -------------------------
(***************************************************************************)
(* The retry budget of internal/upstream/retry.go for every number of      *)
(* callers, every set of percentages and every number of epochs.           *)
(***************************************************************************)
EXTENDS RetryBudget, TLAPS

Totals == [primaries : Nat, retries : Nat]
Reads == [percent : Percents \cup {0}, epoch : Epochs, win : Epochs, copy : Totals, retries : Nat]
Spots == {"idle", "clock", "load", "copyPrimaries", "copyRetries", "swap",
          "primary", "allow", "compare", "claim"}

(* More first attempts never lower the allowance. *)
LEMMA AllowanceMonotone ==
  ASSUME NEW a \in Nat, NEW b \in Nat, NEW p \in Nat, a <= b
  PROVE  (a * p) \div 100 <= (b * p) \div 100
<1>1. PICK d \in Nat : b = a + d
  <2>1. b - a \in Nat /\ b = a + (b - a)
    OBVIOUS
  <2> QED BY <2>1
<1>2. b * p = a * p + d * p /\ d * p \in Nat /\ a * p \in Nat
  BY <1>1
<1>3. ASSUME NEW x \in Nat, NEW y \in Nat PROVE x \div 100 <= (x + y) \div 100
  OBVIOUS
<1> QED BY <1>2, <1>3

(* A caller's step changes its own reads and place only. *)
LEMMA CallerMoves ==
  ASSUME TypeOK, NEW c \in Callers, NEW place \in Spots, NEW rd \in Reads,
         pc' = [pc EXCEPT ![c] = place], reg' = [reg EXCEPT ![c] = rd]
  PROVE  /\ pc' \in [Callers -> Spots] /\ reg' \in [Callers -> Reads]
         /\ pc'[c] = place /\ reg'[c] = rd
         /\ \A d \in Callers \ {c} : pc'[d] = pc[d] /\ reg'[d] = reg[d]
  BY DEF TypeOK, Spots, Reads, Totals

(* What the invariant says of one caller. *)
SafeReads(c) ==
    /\ reg[c].win <= win
    /\ pc[c] \in {"copyPrimaries", "copyRetries", "swap"} => reg[c].win < reg[c].epoch
    /\ pc[c] \in {"copyRetries", "swap"} =>
          reg[c].copy.primaries <= Carried(c, primaries[reg[c].win])
    /\ pc[c] = "swap" => reg[c].copy.retries <= Carried(c, retries[reg[c].win])
    /\ pc[c] = "claim" => Permits(c)

(* Nothing is counted in a window that was never installed. *)
Unopened == \A e \in Epochs : e > win => primaries[e] = 0 /\ retries[e] = 0

LEMMA SafeReadsAll ==
  WindowsInOrder <=> TypeOK /\ Unopened /\ CarriesOnlyPrevious /\ \A c \in Callers : SafeReads(c)
  BY DEF WindowsInOrder, WindowsAdvance, StaleReadsAreSafe, SafeReads, Unopened

LEMMA BudgetInit == Init => WindowsInOrder
<1> SUFFICES ASSUME Init PROVE WindowsInOrder
  OBVIOUS
<1>1. 0 \in Epochs
  BY BoundsAssumption DEF Epochs
<1>2. NoReads \in Reads /\ None \in Totals
  BY <1>1 DEF NoReads, None, Reads, Totals
<1>3. TypeOK
  BY <1>1, <1>2 DEF Init, TypeOK, Reads, Totals, Spots
<1>4. WindowsAdvance /\ StaleReadsAreSafe
  BY DEF Init, WindowsAdvance, StaleReadsAreSafe, NoReads
<1>5. CarriesOnlyPrevious
  BY BoundsAssumption DEF Init, CarriesOnlyPrevious, None, Epochs
<1> QED BY <1>3, <1>4, <1>5 DEF WindowsInOrder

-----------------------------------------------------------------------------
(* What a caller read stays safe while others record, claim and rotate. *)
LEMMA OthersKeepReads ==
  ASSUME WindowsInOrder, NEW d \in Callers, SafeReads(d), pc'[d] = pc[d], reg'[d] = reg[d],
         win <= win', win' \in Epochs,
         primaries' \in [Epochs -> Nat], retries' \in [Epochs -> Nat],
         \A w \in Epochs : primaries[w] <= primaries'[w] /\ retries[w] <= retries'[w],
         \A w \in Epochs : w <= win => prev'[w] = prev[w]
  PROVE  SafeReads(d)'
<1>1. /\ reg[d] \in Reads /\ win \in Epochs
      /\ primaries \in [Epochs -> Nat] /\ retries \in [Epochs -> Nat]
      /\ prev \in [Epochs -> Totals]
  BY DEF WindowsInOrder, TypeOK, Reads, Totals
<1>2. reg'[d].win <= win'
  <2>1. reg[d].win \in Epochs
    BY <1>1 DEF Reads
  <2>2. reg[d].win <= win
    BY DEF SafeReads
  <2>3. \A e \in Epochs : e \in Nat
    BY DEF Epochs
  <2> QED BY <1>1, <2>1, <2>2, <2>3
<1>3. /\ Carried(d, primaries[reg[d].win]) <= Carried(d, primaries[reg[d].win])'
      /\ Carried(d, retries[reg[d].win]) <= Carried(d, retries[reg[d].win])'
      /\ Carried(d, primaries[reg[d].win]) \in Nat /\ Carried(d, primaries[reg[d].win])' \in Nat
      /\ Carried(d, retries[reg[d].win]) \in Nat /\ Carried(d, retries[reg[d].win])' \in Nat
  BY <1>1 DEF Carried, Reads
<1>4. reg[d].copy.primaries \in Nat /\ reg[d].copy.retries \in Nat
  BY <1>1 DEF Reads, Totals
<1>5. ASSUME pc[d] = "claim" PROVE Permits(d)'
  <2> DEFINE w == reg[d].win
             p == reg[d].percent
             a == primaries[w] + prev[w].primaries
             b == primaries'[w] + prev[w].primaries
  <2>0. w \in Epochs /\ p \in Percents \cup {0} /\ w <= win
    BY <1>1 DEF SafeReads, Reads
  <2>1. w \in Epochs /\ prev'[w] = prev[w] /\ p \in Nat
    <3>1. \A q \in Percents \cup {0} : q \in Nat
      BY PercentsAssumption
    <3> HIDE DEF w, p
    <3> QED BY <2>0, <3>1
  <2>2. prev[w].primaries \in Nat /\ prev[w].retries \in Nat /\ reg[d].retries \in Nat
    BY <1>1, <2>1 DEF Totals, Reads
  <2>3. a \in Nat /\ b \in Nat /\ a <= b
    BY <1>1, <2>1, <2>2
  <2>4. (a * p) \div 100 <= (b * p) \div 100
    BY <2>1, <2>3, AllowanceMonotone
  <2>5. (a * p) \div 100 \in Int /\ (b * p) \div 100 \in Int
    <3>1. a * p \in Nat /\ b * p \in Nat
      BY <2>1, <2>3
    <3> QED BY <3>1
  <2>6. reg[d].retries + prev[w].retries < (a * p) \div 100 + minFreeRetries
    BY <1>5 DEF SafeReads, Permits, Allowance
  <2> HIDE DEF a, b
  <2>7. reg[d].retries + prev[w].retries < (b * p) \div 100 + minFreeRetries
    BY <2>2, <2>4, <2>5, <2>6 DEF minFreeRetries
  <2>8. Permits(d)' <=> reg[d].retries + prev[w].retries < (b * p) \div 100 + minFreeRetries
    BY <2>1 DEF Permits, Allowance, b
  <2> QED BY <2>7, <2>8
<1> QED BY <1>1, <1>2, <1>3, <1>4, <1>5 DEF SafeReads, Reads

(* A step that touches nothing shared preserves the invariant when it does  *)
(* so for the caller that takes it.                                        *)
LEMMA QuietStep ==
  ASSUME WindowsInOrder, NEW c \in Callers, NEW place \in Spots, NEW rd \in Reads,
         pc' = [pc EXCEPT ![c] = place], reg' = [reg EXCEPT ![c] = rd],
         call' \in [Callers -> {"primary", "allow"}],
         UNCHANGED <<percent, win, prev, counters, granted>>, SafeReads(c)'
  PROVE  WindowsInOrder'
<1>1. TypeOK /\ Unopened /\ CarriesOnlyPrevious /\ \A d \in Callers : SafeReads(d)
  BY SafeReadsAll
<1>2. /\ pc' \in [Callers -> Spots] /\ reg' \in [Callers -> Reads]
      /\ \A d \in Callers \ {c} : pc'[d] = pc[d] /\ reg'[d] = reg[d]
  BY <1>1, CallerMoves
<1>3. TypeOK'
  BY <1>1, <1>2 DEF TypeOK, counters, Spots, Reads, Totals
<1>4. ASSUME NEW d \in Callers \ {c} PROVE SafeReads(d)'
  <2>1. /\ win \in Epochs
        /\ primaries \in [Epochs -> Nat] /\ retries \in [Epochs -> Nat]
    BY <1>1 DEF TypeOK
  <2>2. \A w \in Epochs : primaries[w] <= primaries[w] /\ retries[w] <= retries[w]
    BY <2>1
  <2>3. win <= win
    BY <2>1, BoundsAssumption DEF Epochs
  <2> QED BY <1>1, <1>2, <2>1, <2>2, <2>3, OthersKeepReads DEF counters
<1>5. Unopened' /\ CarriesOnlyPrevious'
  BY <1>1 DEF CarriesOnlyPrevious, Unopened, counters
<1>6. \A d \in Callers : SafeReads(d)'
  BY <1>4
<1>7. WindowsInOrder' <=> TypeOK' /\ Unopened' /\ CarriesOnlyPrevious' /\ \A d \in Callers : SafeReads(d)'
  BY DEF WindowsInOrder, WindowsAdvance, StaleReadsAreSafe, SafeReads, Unopened
<1> QED BY <1>3, <1>5, <1>6, <1>7

LEMMA BeginStep ==
  ASSUME WindowsInOrder, NEW c \in Callers, NEW what \in {"primary", "allow"}, Begin(c, what)
  PROVE  WindowsInOrder'
<1>1. TypeOK /\ reg[c] \in Reads /\ SafeReads(c)
  BY SafeReadsAll DEF TypeOK, Reads, Totals
<1> DEFINE rd == [reg[c] EXCEPT !.percent = percent]
<1>2. rd \in Reads /\ rd.win = reg[c].win /\ rd.epoch = reg[c].epoch
  BY <1>1 DEF TypeOK, Reads
<1>3. pc' = [pc EXCEPT ![c] = "clock"] /\ reg' = [reg EXCEPT ![c] = rd]
  BY <1>1 DEF Begin, Goes, Learns, TypeOK
<1> HIDE DEF rd
<1>4. pc'[c] = "clock" /\ reg'[c] = rd
  BY <1>1, <1>2, <1>3, CallerMoves DEF Spots
<1>5. SafeReads(c)'
  BY <1>1, <1>2, <1>4 DEF SafeReads, Begin
<1>6. call' \in [Callers -> {"primary", "allow"}] /\ UNCHANGED <<percent, win, prev, counters, granted>>
  BY <1>1 DEF Begin, TypeOK
<1> QED BY <1>2, <1>3, <1>5, <1>6, QuietStep DEF Spots

LEMMA ReadClockStep ==
  ASSUME WindowsInOrder, NEW c \in Callers, ReadClock(c)
  PROVE  WindowsInOrder'
<1>1. TypeOK /\ reg[c] \in Reads /\ SafeReads(c)
  BY SafeReadsAll DEF TypeOK, Reads, Totals
<1>0. PICK now \in Epochs : Learns(c, "epoch", now)
  BY DEF ReadClock
<1> DEFINE rd == [reg[c] EXCEPT !.epoch = now]
<1>2. rd \in Reads /\ rd.win = reg[c].win /\ rd.epoch = now
  BY <1>1 DEF Reads
<1>3. pc' = [pc EXCEPT ![c] = "load"] /\ reg' = [reg EXCEPT ![c] = rd]
  BY <1>0, <1>1 DEF ReadClock, Goes, Learns, TypeOK
<1> HIDE DEF rd
<1>4. pc'[c] = "load" /\ reg'[c] = rd
  BY <1>1, <1>2, <1>3, CallerMoves DEF Spots
<1>5. SafeReads(c)'
  BY <1>1, <1>2, <1>4, BoundsAssumption DEF SafeReads, ReadClock, Epochs
<1>6. call' \in [Callers -> {"primary", "allow"}] /\ UNCHANGED <<percent, win, prev, counters, granted>>
  BY <1>1 DEF ReadClock, TypeOK
<1> QED BY <1>2, <1>3, <1>5, <1>6, QuietStep DEF Spots

LEMMA ReturnedReads ==
  ASSUME NEW r \in Reads, NEW w \in Epochs
  PROVE  [NoReads EXCEPT !.percent = r.percent, !.win = w] \in Reads
<1>1. 0 \in Epochs
  BY BoundsAssumption DEF Epochs
<1>2. r.percent \in Percents \cup {0}
  BY DEF Reads
<1> QED BY <1>1, <1>2 DEF NoReads, None, Reads, Totals

LEMMA LoadWindowStep ==
  ASSUME WindowsInOrder, NEW c \in Callers, LoadWindow(c)
  PROVE  WindowsInOrder'
<1>1. TypeOK /\ reg[c] \in Reads /\ SafeReads(c) /\ win \in Epochs /\ call[c] \in {"primary", "allow"}
  BY SafeReadsAll DEF TypeOK, Reads, Totals
<1>2. UNCHANGED <<percent, win, prev, counters, call, granted>> /\ pc[c] = "load"
  BY DEF LoadWindow
<1>3. CASE IsCurrent(win, reg[c].epoch)
  <2>1. LET rd == [NoReads EXCEPT !.percent = reg[c].percent, !.win = win]
        IN  rd \in Reads /\ pc' = [pc EXCEPT ![c] = call[c]] /\ reg' = [reg EXCEPT ![c] = rd]
    BY <1>1, <1>3, ReturnedReads DEF LoadWindow, Returns, Goes
  <2> DEFINE rd == [NoReads EXCEPT !.percent = reg[c].percent, !.win = win]
  <2>2. rd.win = win
    BY DEF NoReads
  <2> HIDE DEF rd
  <2>3. pc'[c] = call[c] /\ reg'[c] = rd /\ call[c] \in Spots
    BY <1>1, <2>1, CallerMoves DEF Spots, rd
  <2>4. SafeReads(c)'
    BY <1>1, <1>2, <2>2, <2>3, BoundsAssumption DEF SafeReads, Epochs
  <2> QED BY <1>1, <1>2, <2>1, <2>3, <2>4, QuietStep DEF rd, TypeOK
<1>4. CASE ~IsCurrent(win, reg[c].epoch)
  <2> DEFINE rd == [reg[c] EXCEPT !.win = win]
  <2>1. rd \in Reads /\ rd.win = win /\ rd.epoch = reg[c].epoch
    BY <1>1 DEF Reads
  <2>2. pc' = [pc EXCEPT ![c] = "copyPrimaries"] /\ reg' = [reg EXCEPT ![c] = rd]
    BY <1>1, <1>4 DEF LoadWindow, Goes, Learns, TypeOK
  <2>3. win < reg[c].epoch
    BY <1>1, <1>4, BoundsAssumption DEF IsCurrent, Reads, Epochs
  <2> HIDE DEF rd
  <2>4. pc'[c] = "copyPrimaries" /\ reg'[c] = rd
    BY <1>1, <2>1, <2>2, CallerMoves DEF Spots
  <2>5. SafeReads(c)'
    BY <1>1, <1>2, <2>1, <2>3, <2>4, BoundsAssumption DEF SafeReads, Epochs
  <2> QED BY <1>1, <1>2, <2>1, <2>2, <2>5, QuietStep DEF Spots, TypeOK
<1> QED BY <1>3, <1>4

LEMMA CopyStep ==
  ASSUME WindowsInOrder, NEW c \in Callers, CopyPrimaries(c) \/ CopyRetries(c)
  PROVE  WindowsInOrder'
<1>1. /\ TypeOK /\ reg[c] \in Reads /\ SafeReads(c) /\ reg[c].win \in Epochs
      /\ primaries[reg[c].win] \in Nat /\ retries[reg[c].win] \in Nat
  BY SafeReadsAll DEF TypeOK, Reads, Totals
<1> DEFINE np == Carried(c, primaries[reg[c].win])
           nr == Carried(c, retries[reg[c].win])
<1>2. np \in Nat /\ nr \in Nat
  BY <1>1 DEF Carried
<1> HIDE DEF np, nr
<1>3. CASE CopyPrimaries(c)
  <2> DEFINE rd == [reg[c] EXCEPT !.copy.primaries = np]
  <2>1. /\ rd \in Reads /\ rd.win = reg[c].win /\ rd.epoch = reg[c].epoch
        /\ rd.copy.primaries = np
    BY <1>1, <1>2 DEF Reads, Totals
  <2>2. pc' = [pc EXCEPT ![c] = "copyRetries"] /\ reg' = [reg EXCEPT ![c] = rd]
    BY <1>1, <1>3 DEF CopyPrimaries, Goes, TypeOK, np
  <2> HIDE DEF rd
  <2>3. pc'[c] = "copyRetries" /\ reg'[c] = rd
    BY <1>1, <2>1, <2>2, CallerMoves DEF Spots
  <2>4. UNCHANGED <<percent, win, prev, counters, call, granted>> /\ pc[c] = "copyPrimaries"
    BY <1>3 DEF CopyPrimaries
  <2>5. Carried(c, primaries[reg[c].win])' = np
    BY <2>1, <2>3, <2>4 DEF Carried, np, counters
  <2>6. SafeReads(c)'
    BY <1>1, <1>2, <2>1, <2>3, <2>4, <2>5 DEF SafeReads
  <2> QED BY <1>1, <2>1, <2>2, <2>4, <2>6, QuietStep DEF Spots, TypeOK
<1>4. CASE CopyRetries(c)
  <2> DEFINE rd == [reg[c] EXCEPT !.copy.retries = nr]
  <2>1. /\ rd \in Reads /\ rd.win = reg[c].win /\ rd.epoch = reg[c].epoch
        /\ rd.copy.primaries = reg[c].copy.primaries /\ rd.copy.retries = nr
    BY <1>1, <1>2 DEF Reads, Totals
  <2>2. pc' = [pc EXCEPT ![c] = "swap"] /\ reg' = [reg EXCEPT ![c] = rd]
    BY <1>1, <1>4 DEF CopyRetries, Goes, TypeOK, nr
  <2> HIDE DEF rd
  <2>3. pc'[c] = "swap" /\ reg'[c] = rd
    BY <1>1, <2>1, <2>2, CallerMoves DEF Spots
  <2>4. UNCHANGED <<percent, win, prev, counters, call, granted>> /\ pc[c] = "copyRetries"
    BY <1>4 DEF CopyRetries
  <2>5. Carried(c, primaries[reg[c].win])' = np /\ Carried(c, retries[reg[c].win])' = nr
    BY <2>1, <2>3, <2>4 DEF Carried, np, nr, counters
  <2>6. reg[c].copy.primaries <= np
    BY <1>1, <2>4 DEF SafeReads, np
  <2>7. SafeReads(c)'
    BY <1>1, <1>2, <2>1, <2>3, <2>4, <2>5, <2>6 DEF SafeReads
  <2> QED BY <1>1, <2>1, <2>2, <2>4, <2>7, QuietStep DEF Spots, TypeOK
<1> QED BY <1>3, <1>4

LEMMA RereadStep ==
  ASSUME WindowsInOrder, NEW c \in Callers, LoseSwap(c) \/ LoseClaim(c) \/ ReadRetries(c) \/ Compare(c)
  PROVE  WindowsInOrder'
<1>1. /\ TypeOK /\ reg[c] \in Reads /\ SafeReads(c) /\ reg[c].win \in Epochs
      /\ retries[reg[c].win] \in Nat /\ win \in Epochs
      /\ call \in [Callers -> {"primary", "allow"}] /\ reg \in [Callers -> Reads]
  BY SafeReadsAll DEF TypeOK, Reads, Totals
<1>2. UNCHANGED <<percent, win, prev, counters, granted>> /\ call' \in [Callers -> {"primary", "allow"}]
  BY <1>1 DEF LoseSwap, LoseClaim, ReadRetries, Compare, Ends
<1>3. ASSUME NEW place \in {"load", "allow"}, NEW rd \in Reads, rd.win = reg[c].win, rd.epoch = reg[c].epoch,
             pc' = [pc EXCEPT ![c] = place], reg' = [reg EXCEPT ![c] = rd]
      PROVE  WindowsInOrder'
  <2>1. place \in Spots
    BY <1>3 DEF Spots
  <2>2. pc'[c] = place /\ reg'[c] = rd
    BY <1>1, <1>3, <2>1, CallerMoves
  <2>3. SafeReads(c)'
    BY <1>1, <1>2, <1>3, <2>2 DEF SafeReads
  <2> QED BY <1>1, <1>2, <1>3, <2>1, <2>3, QuietStep
<1>4. CASE ReadRetries(c)
  <2> DEFINE rd == [reg[c] EXCEPT !.retries = retries[reg[c].win]]
  <2>1. rd \in Reads /\ rd.win = reg[c].win /\ rd.epoch = reg[c].epoch
    BY <1>1 DEF Reads
  <2>2. pc' = [pc EXCEPT ![c] = "compare"] /\ reg' = [reg EXCEPT ![c] = rd]
    BY <1>1, <1>4 DEF ReadRetries, Goes, Learns, TypeOK
  <2> HIDE DEF rd
  <2>3. pc'[c] = "compare" /\ reg'[c] = rd
    BY <1>1, <2>1, <2>2, CallerMoves DEF Spots
  <2>4. SafeReads(c)'
    BY <1>1, <1>2, <2>1, <2>3 DEF SafeReads
  <2> QED BY <1>1, <1>2, <2>1, <2>2, <2>4, QuietStep DEF Spots
<1>5. CASE Compare(c) /\ Permits(c)
  <2>1. pc' = [pc EXCEPT ![c] = "claim"] /\ reg' = [reg EXCEPT ![c] = reg[c]] /\ reg' = reg
    BY <1>1, <1>5 DEF Compare, Goes
  <2>2. pc'[c] = "claim"
    BY <1>1, <2>1, CallerMoves DEF Spots
  <2>3. Permits(c)'
    BY <1>2, <1>5, <2>1 DEF Permits, Allowance, counters
  <2>4. SafeReads(c)'
    BY <1>1, <1>2, <2>1, <2>2, <2>3 DEF SafeReads
  <2> QED BY <1>1, <1>2, <2>1, <2>4, QuietStep DEF Spots
<1>6. CASE Compare(c) /\ ~Permits(c)
  <2>1. pc' = [pc EXCEPT ![c] = "idle"] /\ reg' = [reg EXCEPT ![c] = NoReads]
    BY <1>6 DEF Compare, Ends, Goes
  <2>2. NoReads \in Reads /\ NoReads.win = 0 /\ NoReads.epoch = 0
    BY BoundsAssumption DEF NoReads, Reads, Totals, None, Epochs
  <2>3. pc'[c] = "idle" /\ reg'[c] = NoReads
    BY <1>1, <2>1, <2>2, CallerMoves DEF Spots
  <2>4. SafeReads(c)'
    BY <1>1, <1>2, <2>2, <2>3, BoundsAssumption DEF SafeReads, Epochs
  <2> QED BY <1>1, <1>2, <2>1, <2>2, <2>4, QuietStep DEF Spots
<1>7. CASE LoseSwap(c)
  <2> DEFINE rd == [reg[c] EXCEPT !.copy = None]
  <2>1. rd \in Reads /\ rd.win = reg[c].win /\ rd.epoch = reg[c].epoch
    BY <1>1 DEF Reads, Totals, None
  <2>2. pc' = [pc EXCEPT ![c] = "load"] /\ reg' = [reg EXCEPT ![c] = rd]
    BY <1>1, <1>7 DEF LoseSwap, Goes, Learns
  <2> HIDE DEF rd
  <2> QED BY <1>3, <2>1, <2>2
<1>8. CASE LoseClaim(c)
  <2>1. pc' = [pc EXCEPT ![c] = "allow"] /\ reg' = [reg EXCEPT ![c] = reg[c]]
    BY <1>1, <1>8 DEF LoseClaim, Goes
  <2> QED BY <1>1, <1>3, <2>1
<1> QED BY <1>4, <1>5, <1>6, <1>7, <1>8

-----------------------------------------------------------------------------
(* A rotation goes forward, and the new window carries what was counted in  *)
(* the one just before it.                                                 *)
LEMMA SwapStep ==
  ASSUME WindowsInOrder, NEW c \in Callers, Swap(c)
  PROVE  WindowsInOrder'
<1>1. /\ TypeOK /\ Unopened /\ CarriesOnlyPrevious /\ \A d \in Callers : SafeReads(d)
      /\ reg[c] \in Reads /\ reg[c].copy \in Totals /\ reg[c].epoch \in Epochs
      /\ win \in Epochs /\ prev \in [Epochs -> Totals]
      /\ primaries \in [Epochs -> Nat] /\ retries \in [Epochs -> Nat]
      /\ call[c] \in {"primary", "allow"}
  BY SafeReadsAll DEF TypeOK, Reads, Totals
<1> DEFINE e == reg[c].epoch
           rd == [NoReads EXCEPT !.percent = reg[c].percent, !.win = e]
<1>2. rd \in Reads /\ rd.win = e /\ call[c] \in Spots
  BY <1>1, ReturnedReads DEF NoReads, Spots
<1>3. /\ pc' = [pc EXCEPT ![c] = call[c]] /\ reg' = [reg EXCEPT ![c] = rd]
      /\ pc[c] = "swap" /\ win = reg[c].win /\ win' = e
      /\ prev' = [prev EXCEPT ![e] = reg[c].copy]
      /\ primaries' = [primaries EXCEPT ![e] = 0] /\ retries' = [retries EXCEPT ![e] = 0]
      /\ UNCHANGED <<percent, call, granted>>
  BY <1>1 DEF Swap, Returns, Goes, PointerUnmoved, NextEpoch, TypeOK
<1> HIDE DEF rd
<1>4. /\ pc' \in [Callers -> Spots] /\ reg' \in [Callers -> Reads]
      /\ pc'[c] = call[c] /\ reg'[c] = rd
      /\ \A d \in Callers \ {c} : pc'[d] = pc[d] /\ reg'[d] = reg[d]
  BY <1>1, <1>2, <1>3, CallerMoves
<1>5. win < e /\ win' \in Epochs
  BY <1>1, <1>3 DEF SafeReads
<1>13. primaries' = primaries /\ retries' = retries
  <2>1. e > win
    BY <1>1, <1>5, BoundsAssumption DEF Epochs
  <2>2. primaries[e] = 0 /\ retries[e] = 0
    BY <1>1, <2>1 DEF Unopened
  <2> QED BY <1>1, <1>3, <2>2
<1>6. prev' \in [Epochs -> Totals] /\ prev'[e] = reg[c].copy
      /\ \A w \in Epochs : w # e => prev'[w] = prev[w]
  BY <1>1, <1>3
<1>7. TypeOK'
  BY <1>1, <1>3, <1>4, <1>5, <1>6, <1>13 DEF TypeOK, Spots, Reads, Totals
<1>8. ASSUME NEW d \in Callers \ {c} PROVE SafeReads(d)'
  <2>1. win <= win'
    BY SMTT(40), <1>1, <1>3, <1>5, BoundsAssumption DEF Epochs
  <2>2. \A w \in Epochs : w <= win => prev'[w] = prev[w]
    BY <1>1, <1>5, <1>6, BoundsAssumption DEF Epochs
  <2>3. primaries' \in [Epochs -> Nat] /\ retries' \in [Epochs -> Nat]
        /\ \A w \in Epochs : primaries[w] <= primaries'[w] /\ retries[w] <= retries'[w]
    BY <1>1, <1>13
  <2> QED BY <1>1, <1>4, <1>5, <2>1, <2>2, <2>3, OthersKeepReads
<1>9. SafeReads(c)'
  BY <1>1, <1>2, <1>3, <1>4, <1>5, BoundsAssumption DEF SafeReads, Epochs
<1>10. Unopened'
  BY SMTT(40), <1>1, <1>3, <1>5, <1>13, BoundsAssumption DEF Unopened, Epochs
<1>11. CarriesOnlyPrevious'
  <2>1. reg[c].copy.primaries \in Nat /\ reg[c].copy.retries \in Nat
    BY <1>1 DEF Totals
  <2>2. reg[c].copy.primaries <= (IF e = win + 1 THEN primaries[win] ELSE 0)
        /\ reg[c].copy.retries <= (IF e = win + 1 THEN retries[win] ELSE 0)
    BY <1>1, <1>3 DEF SafeReads, Carried
  <2>3. e > 0 /\ e - 1 \in Epochs /\ primaries[e - 1] \in Nat /\ retries[e - 1] \in Nat
    <3>1. e > 0 /\ e - 1 \in Epochs
      <4>1. win \in 0..LastEpoch /\ e \in 0..LastEpoch /\ win < e
        BY <1>1, <1>5 DEF Epochs
      <4> QED BY <4>1, BoundsAssumption DEF Epochs
    <3> QED BY <1>1, <3>1
  <2>4. e = win + 1 => win = e - 1
    BY <1>1, BoundsAssumption DEF Epochs
  <2>5. reg[c].copy.primaries <= primaries[e - 1] /\ reg[c].copy.retries <= retries[e - 1]
    BY <2>1, <2>2, <2>3, <2>4
  <2> QED BY <1>1, <1>3, <1>6, <1>13, <2>3, <2>5 DEF CarriesOnlyPrevious
<1>12. \A d \in Callers : SafeReads(d)'
  BY <1>8, <1>9
<1> QED BY <1>7, <1>10, <1>11, <1>12 DEF WindowsInOrder, WindowsAdvance, StaleReadsAreSafe, SafeReads, Unopened

(* A counter goes up by one and its caller is done. *)
LEMMA CountStep ==
  ASSUME WindowsInOrder, NEW c \in Callers, RecordPrimary(c) \/ Claim(c)
  PROVE  WindowsInOrder'
<1>1. /\ TypeOK /\ Unopened /\ CarriesOnlyPrevious /\ \A d \in Callers : SafeReads(d)
      /\ reg[c] \in Reads /\ reg[c].win \in Epochs
      /\ win \in Epochs /\ prev \in [Epochs -> Totals]
      /\ primaries \in [Epochs -> Nat] /\ retries \in [Epochs -> Nat]
  BY SafeReadsAll DEF TypeOK, Reads, Totals
<1>2. NoReads \in Reads /\ NoReads.win = 0 /\ NoReads.epoch = 0 /\ "idle" \in Spots
  BY BoundsAssumption DEF NoReads, Reads, Totals, None, Epochs, Spots
<1>3. /\ pc' = [pc EXCEPT ![c] = "idle"] /\ reg' = [reg EXCEPT ![c] = NoReads]
      /\ UNCHANGED <<percent, win, prev>>
      /\ call' \in [Callers -> {"primary", "allow"}]
  BY <1>1 DEF RecordPrimary, Claim, Ends, Goes, TypeOK
<1>12. granted' \in [Epochs -> Nat]
  BY SMTT(40), <1>1 DEF RecordPrimary, Claim, TypeOK
<1>4. /\ pc' \in [Callers -> Spots] /\ reg' \in [Callers -> Reads]
      /\ pc'[c] = "idle" /\ reg'[c] = NoReads
      /\ \A d \in Callers \ {c} : pc'[d] = pc[d] /\ reg'[d] = reg[d]
  BY <1>1, <1>2, <1>3, CallerMoves
<1>5. /\ primaries' \in [Epochs -> Nat] /\ retries' \in [Epochs -> Nat]
      /\ \A w \in Epochs : primaries[w] <= primaries'[w] /\ retries[w] <= retries'[w]
  BY <1>1 DEF RecordPrimary, Claim
<1>6. TypeOK'
  BY <1>1, <1>3, <1>4, <1>5, <1>12 DEF TypeOK, Spots, Reads, Totals
<1>7. ASSUME NEW d \in Callers \ {c} PROVE SafeReads(d)'
  <2>1. win <= win' /\ win' \in Epochs
    BY <1>1, <1>3, BoundsAssumption DEF Epochs
  <2>2. \A w \in Epochs : w <= win => prev'[w] = prev[w]
    BY <1>3
  <2> QED BY <1>1, <1>4, <1>5, <2>1, <2>2, OthersKeepReads
<1>8. SafeReads(c)'
  BY <1>1, <1>2, <1>3, <1>4, BoundsAssumption DEF SafeReads, Epochs
<1>9. CarriesOnlyPrevious'
  <2>1. ASSUME NEW e \in Epochs, e > 0
        PROVE  prev'[e].primaries <= primaries'[e - 1] /\ prev'[e].retries <= retries'[e - 1]
    <3>1. e - 1 \in Epochs
      BY <2>1, BoundsAssumption DEF Epochs
    <3>2. prev[e].primaries <= primaries[e - 1] /\ prev[e].retries <= retries[e - 1]
      BY <1>1, <2>1 DEF CarriesOnlyPrevious
    <3>3. prev[e].primaries \in Nat /\ prev[e].retries \in Nat
      BY <1>1 DEF Totals
    <3> QED BY <1>1, <1>3, <1>5, <3>1, <3>2, <3>3
  <2> QED BY <1>1, <1>3, <2>1 DEF CarriesOnlyPrevious
<1>10. \A d \in Callers : SafeReads(d)'
  BY <1>7, <1>8
<1>11. Unopened'
  <2>1. reg[c].win <= win
    BY <1>1 DEF SafeReads
  <2>2. \A e \in Epochs : e > win => e # reg[c].win
    BY <1>1, <2>1, BoundsAssumption DEF Epochs
  <2> QED BY <1>1, <1>3, <2>2 DEF Unopened, RecordPrimary, Claim
<1> QED BY <1>6, <1>9, <1>10, <1>11 DEF WindowsInOrder, WindowsAdvance, StaleReadsAreSafe, SafeReads, Unopened

(* A reload, or nothing. *)
LEMMA OutsideStep ==
  ASSUME WindowsInOrder, (\E p \in Percents : SetPercent(p)) \/ UNCHANGED vars
  PROVE  WindowsInOrder'
<1>1. /\ TypeOK /\ Unopened /\ CarriesOnlyPrevious /\ \A d \in Callers : SafeReads(d)
      /\ win \in Epochs
      /\ primaries \in [Epochs -> Nat] /\ retries \in [Epochs -> Nat]
  BY SafeReadsAll DEF TypeOK
<1>2. UNCHANGED <<win, prev, primaries, retries, pc, call, reg, granted>>
  BY DEF SetPercent, vars, counters
<1>3. percent' \in Percents
  BY <1>1 DEF SetPercent, vars, TypeOK
<1>4. TypeOK'
  BY <1>1, <1>2, <1>3 DEF TypeOK
<1>5. ASSUME NEW d \in Callers PROVE SafeReads(d)'
  <2>1. win <= win' /\ win' \in Epochs
    BY <1>1, <1>2, BoundsAssumption DEF Epochs
  <2>2. \A w \in Epochs : primaries[w] <= primaries'[w] /\ retries[w] <= retries'[w]
    BY <1>1, <1>2
  <2> QED BY <1>1, <1>2, <1>3, <2>1, <2>2, OthersKeepReads
<1>6. Unopened'
  BY <1>1, <1>2 DEF Unopened
<1>7. CarriesOnlyPrevious'
  BY <1>1, <1>2 DEF CarriesOnlyPrevious
<1> QED BY <1>4, <1>5, <1>6, <1>7 DEF WindowsInOrder, WindowsAdvance, StaleReadsAreSafe, SafeReads, Unopened

LEMMA BudgetNext == WindowsInOrder /\ [Next]_vars => WindowsInOrder'
  BY BeginStep, ReadClockStep, LoadWindowStep, CopyStep, RereadStep, SwapStep, CountStep, OutsideStep
     DEF Next, Window, Primary, Allow

(* The windows of the retry budget only move forward and carry no more than  *)
(* was counted just before them, and what callers read stays safe to act   *)
(* on, for any number of callers, epochs and reloads.                      *)
THEOREM BudgetWindowsInOrder == Spec => []WindowsInOrder
  BY BudgetInit, BudgetNext, PTL DEF Spec

(* Budget.Allow grants a retry only within the allowance of the window it    *)
(* charges, at the moment of the grant, whoever else claims, records or    *)
(* rotates meanwhile.                                                      *)
THEOREM BudgetGrantsWithinAllowance == Spec => GrantsWithinAllowance
<1> DEFINE A == \A c \in Callers, w \in Epochs :
                  pc[c] = "claim" /\ pc'[c] = "idle" /\ reg[c].win = w =>
                    retries'[w] + prev[w].retries <= Allowance(w, reg[c].percent)
<1>1. ASSUME WindowsInOrder, [Next]_vars PROVE A
  <2> SUFFICES ASSUME NEW c \in Callers, pc[c] = "claim", pc'[c] = "idle"
               PROVE  retries'[reg[c].win] + prev[reg[c].win].retries
                        <= Allowance(reg[c].win, reg[c].percent)
    OBVIOUS
  <2>1. TypeOK /\ SafeReads(c) /\ pc \in [Callers -> Spots]
    BY <1>1, SafeReadsAll DEF TypeOK, Spots
  <2>2. Claim(c)
    <3>1. ASSUME NEW d \in Callers, d # c, Window(d) \/ Primary(d) \/ Allow(d) PROVE pc'[c] = pc[c]
      BY <2>1, <3>1 DEF Window, Primary, Allow, ReadClock, LoadWindow, CopyPrimaries, CopyRetries,
           Swap, LoseSwap, Begin, RecordPrimary, ReadRetries, Compare, Claim, LoseClaim, Goes, Ends, Returns
    <3>2. ASSUME (\E p \in Percents : SetPercent(p)) \/ UNCHANGED vars PROVE pc'[c] = pc[c]
      BY <3>2 DEF SetPercent, vars
    <3>3. ASSUME Window(c) \/ Primary(c) \/ Allow(c) PROVE Claim(c)
      BY <2>1, <3>3 DEF Window, Primary, Allow, ReadClock, LoadWindow, CopyPrimaries, CopyRetries,
           Swap, LoseSwap, Begin, RecordPrimary, ReadRetries, Compare, LoseClaim, Goes, Ends, Returns
    <3> QED BY <1>1, <3>1, <3>2, <3>3 DEF Next
  <2>3. /\ reg[c].win \in Epochs /\ retries[reg[c].win] \in Nat /\ reg[c].retries \in Nat
        /\ prev[reg[c].win].retries \in Nat /\ prev[reg[c].win].primaries \in Nat
        /\ primaries[reg[c].win] \in Nat /\ reg[c].percent \in Percents \cup {0}
    BY <2>1 DEF TypeOK
  <2>4. retries'[reg[c].win] = reg[c].retries + 1
    BY <2>1, <2>2, <2>3 DEF Claim, Unmoved, TypeOK
  <2>5. reg[c].retries + prev[reg[c].win].retries < Allowance(reg[c].win, reg[c].percent)
    BY <2>1 DEF SafeReads, Permits
  <2>6. Allowance(reg[c].win, reg[c].percent) \in Int
    <3>1. reg[c].percent \in Nat
      <4>1. \A p \in Percents \cup {0} : p \in 0..100
        BY PercentsAssumption
      <4> QED BY <2>3, <4>1
    <3>2. (primaries[reg[c].win] + prev[reg[c].win].primaries) * reg[c].percent \in Nat
      BY <2>3, <3>1
    <3> QED BY <3>2 DEF Allowance, minFreeRetries
  <2> QED BY <2>3, <2>4, <2>5, <2>6
<1> QED BY <1>1, BudgetWindowsInOrder, PTL DEF Spec, GrantsWithinAllowance

(* What is needed besides the order of the windows: every grant is in the     *)
(* counter of the window it was made in, and a caller under way read a      *)
(* percentage that was configured.                                         *)
Accounted ==
    /\ WindowsInOrder
    /\ granted = retries
    /\ \A c \in Callers : pc[c] # "idle" => reg[c].percent \in Percents
    /\ NoFreshBurst

(* Everything but a grant leaves granted alone, and nothing but a rotation  *)
(* changes what a window carries: one that was never installed has no grants. *)
LEMMA BurstKept ==
  ASSUME Accounted, granted' = granted, primaries' \in [Epochs -> Nat],
         \A w \in Epochs : primaries[w] <= primaries'[w],
         \A w \in Epochs : granted[w] > 0 => prev'[w] = prev[w]
  PROVE  NoFreshBurst'
<1> SUFFICES ASSUME NEW w \in Epochs, granted[w] > 0
             PROVE  \E p \in Percents : granted[w] + prev[w].retries <= Allowance(w, p)'
  BY DEF NoFreshBurst
<1>1. PICK p \in Percents : granted[w] + prev[w].retries <= Allowance(w, p)
  BY DEF Accounted, NoFreshBurst
<1> DEFINE a == primaries[w] + prev[w].primaries
           b == primaries'[w] + prev[w].primaries
<1>2. /\ prev[w].primaries \in Nat /\ prev[w].retries \in Nat /\ granted[w] \in Nat
      /\ primaries[w] \in Nat /\ primaries'[w] \in Nat /\ prev'[w] = prev[w] /\ p \in Nat
  BY PercentsAssumption DEF Accounted, WindowsInOrder, TypeOK
<1>3. a \in Nat /\ b \in Nat /\ a <= b
  BY <1>2
<1>4. (a * p) \div 100 <= (b * p) \div 100
  BY <1>2, <1>3, AllowanceMonotone
<1>5. (a * p) \div 100 \in Int /\ (b * p) \div 100 \in Int
  <2>1. a * p \in Nat /\ b * p \in Nat
    BY <1>2, <1>3
  <2> QED BY <2>1
<1>6. /\ Allowance(w, p) = (a * p) \div 100 + minFreeRetries
      /\ Allowance(w, p)' = (b * p) \div 100 + minFreeRetries
  BY <1>2 DEF Allowance
<1> HIDE DEF a, b
<1> QED BY <1>1, <1>2, <1>4, <1>5, <1>6 DEF minFreeRetries

LEMMA PercentKnown ==
  ASSUME Accounted, [Next]_vars
  PROVE  \A c \in Callers : pc'[c] # "idle" => reg'[c].percent \in Percents
<1> SUFFICES ASSUME NEW c \in Callers, pc'[c] # "idle" PROVE reg'[c].percent \in Percents
  OBVIOUS
<1>1. /\ pc \in [Callers -> Spots] /\ reg \in [Callers -> Reads] /\ percent \in Percents
      /\ pc[c] # "idle" => reg[c].percent \in Percents
  BY DEF Accounted, WindowsInOrder, TypeOK, Spots, Reads, Totals
<1>2. ASSUME pc'[c] = pc[c], reg'[c] = reg[c] PROVE reg'[c].percent \in Percents
  BY <1>1, <1>2
<1>3. ASSUME NEW d \in Callers, d # c, Window(d) \/ Primary(d) \/ Allow(d)
      PROVE  pc'[c] = pc[c] /\ reg'[c] = reg[c]
  BY <1>1, <1>3 DEF Window, Primary, Allow, ReadClock, LoadWindow, CopyPrimaries, CopyRetries,
       Swap, LoseSwap, Begin, RecordPrimary, ReadRetries, Compare, Claim, LoseClaim, Goes, Ends,
       Returns, Learns
<1>4. ASSUME Begin(c, "primary") \/ Begin(c, "allow") PROVE reg'[c].percent = percent
  BY <1>1, <1>4 DEF Begin, Learns, Reads
<1>5. ASSUME Window(c) PROVE reg'[c].percent = reg[c].percent /\ pc[c] # "idle"
  BY <1>1, <1>5 DEF Window, ReadClock, LoadWindow, CopyPrimaries, CopyRetries, Swap, LoseSwap,
       Returns, Learns, NoReads, Reads
<1>6. ASSUME ReadRetries(c) \/ Compare(c) \/ LoseClaim(c)
      PROVE  reg'[c].percent = reg[c].percent /\ pc[c] # "idle"
  BY <1>1, <1>6 DEF ReadRetries, Compare, LoseClaim, Ends, Goes, Learns, Reads
<1>7. ASSUME RecordPrimary(c) \/ Claim(c) PROVE FALSE
  BY <1>1, <1>7 DEF RecordPrimary, Claim, Ends, Goes
<1>8. ASSUME (\E p \in Percents : SetPercent(p)) \/ UNCHANGED vars
      PROVE  pc'[c] = pc[c] /\ reg'[c] = reg[c]
  BY <1>8 DEF SetPercent, vars
<1> QED BY <1>1, <1>2, <1>3, <1>4, <1>5, <1>6, <1>7, <1>8 DEF Next, Primary, Allow

(* A grant is within the allowance at the percentage its caller read.       *)
LEMMA BurstClaim ==
  ASSUME Accounted, NEW c \in Callers, Claim(c)
  PROVE  NoFreshBurst' /\ (granted = retries)'
<1> DEFINE x == reg[c].win
           p == reg[c].percent
<1>1. /\ TypeOK /\ SafeReads(c) /\ granted = retries /\ p \in Percents /\ x \in Epochs
      /\ granted \in [Epochs -> Nat] /\ retries \in [Epochs -> Nat]
  BY SafeReadsAll DEF Accounted, Claim, WindowsInOrder, TypeOK
<1>2. (granted = retries)'
  BY <1>1 DEF Claim
<1>3. UNCHANGED <<prev, primaries>> /\ \A w \in Epochs : w # x => granted'[w] = granted[w]
  BY <1>1 DEF Claim
<1>4. granted'[x] = reg[c].retries + 1
  BY <1>1 DEF Claim, Unmoved
<1>5. reg[c].retries + prev[x].retries < Allowance(x, p)
  BY <1>1 DEF SafeReads, Permits, Claim
<1>6. Allowance(x, p) \in Int /\ reg[c].retries \in Nat /\ prev[x].retries \in Nat
  <2>1. /\ primaries[x] \in Nat /\ prev[x].primaries \in Nat /\ prev[x].retries \in Nat
        /\ reg[c].retries \in Nat /\ p \in Nat
    <3>1. \A q \in Percents : q \in Nat
      BY PercentsAssumption
    <3> QED BY <1>1, <3>1 DEF TypeOK
  <2>2. (primaries[x] + prev[x].primaries) * p \in Nat
    BY <2>1
  <2> QED BY <2>1, <2>2 DEF Allowance, minFreeRetries
<1>7. granted'[x] + prev[x].retries <= Allowance(x, p)
  BY <1>4, <1>5, <1>6
<1>8. ASSUME NEW w \in Epochs, NEW q \in Percents PROVE Allowance(w, q)' = Allowance(w, q)
  BY <1>3 DEF Allowance
<1> HIDE DEF x, p
<1>9. \A w \in Epochs : granted'[w] > 0 =>
         \E q \in Percents : granted'[w] + prev'[w].retries <= Allowance(w, q)'
  BY <1>1, <1>3, <1>7, <1>8 DEF Accounted, NoFreshBurst
<1> QED BY <1>2, <1>9 DEF NoFreshBurst

LEMMA BurstSwap ==
  ASSUME Accounted, NEW c \in Callers, Swap(c)
  PROVE  NoFreshBurst' /\ (granted = retries)'
<1> DEFINE e == reg[c].epoch
<1>1. /\ TypeOK /\ SafeReads(c) /\ Unopened /\ granted = retries /\ e \in Epochs /\ win \in Epochs
      /\ primaries \in [Epochs -> Nat] /\ retries \in [Epochs -> Nat] /\ granted \in [Epochs -> Nat]
  BY SafeReadsAll DEF Accounted, TypeOK
<1>2. pc[c] = "swap" /\ win = reg[c].win /\ prev' = [prev EXCEPT ![e] = reg[c].copy] /\ granted' = granted
      /\ primaries' = [primaries EXCEPT ![e] = 0] /\ retries' = [retries EXCEPT ![e] = 0]
  BY DEF Swap, PointerUnmoved, NextEpoch
<1>3. e > win
  <2>1. win < e
    BY <1>1, <1>2 DEF SafeReads
  <2> QED BY <1>1, <2>1, BoundsAssumption DEF Epochs
<1>4. primaries[e] = 0 /\ retries[e] = 0
  BY <1>1, <1>3 DEF Unopened
<1>5. primaries' = primaries /\ retries' = retries
  BY <1>1, <1>2, <1>4
<1>6. \A w \in Epochs : granted[w] > 0 => prev'[w] = prev[w]
  BY <1>1, <1>2, <1>4 DEF TypeOK
<1>7. \A w \in Epochs : primaries[w] <= primaries'[w]
  BY <1>1, <1>5
<1> QED BY <1>1, <1>2, <1>5, <1>6, <1>7, BurstKept

LEMMA AccountedNext == Accounted /\ [Next]_vars => Accounted'
<1> SUFFICES ASSUME Accounted, [Next]_vars PROVE Accounted'
  OBVIOUS
<1>1. WindowsInOrder'
  BY BudgetNext DEF Accounted
<1>2. primaries \in [Epochs -> Nat] /\ granted = retries
  BY DEF Accounted, WindowsInOrder, TypeOK
<1>3. ASSUME NEW c \in Callers, RecordPrimary(c) PROVE NoFreshBurst' /\ (granted = retries)'
  <2>1. /\ primaries' \in [Epochs -> Nat] /\ \A w \in Epochs : primaries[w] <= primaries'[w]
        /\ UNCHANGED <<granted, retries, prev>>
    <3>1. reg[c].win \in Epochs
      BY DEF Accounted, WindowsInOrder, TypeOK
    <3> QED BY <1>2, <1>3, <3>1 DEF RecordPrimary
  <2> QED BY <1>2, <2>1, BurstKept
<1>4. ASSUME UNCHANGED <<primaries, retries, prev, granted>>
      PROVE  NoFreshBurst' /\ (granted = retries)'
  <2>1. \A w \in Epochs : primaries[w] <= primaries'[w]
    BY <1>2, <1>4
  <2> QED BY <1>2, <1>4, <2>1, BurstKept
<1>5. NoFreshBurst' /\ (granted = retries)'
  BY <1>3, <1>4, BurstClaim, BurstSwap DEF Next, Window, Primary, Allow, ReadClock, LoadWindow,
     CopyPrimaries, CopyRetries, LoseSwap, Begin, ReadRetries, Compare, LoseClaim, SetPercent,
     vars, counters
<1> QED BY <1>1, <1>5, PercentKnown DEF Accounted

(* All retries granted in an epoch are within what its recorded traffic       *)
(* earns, whatever reloads, rotations and steps of the clock come between. *)
THEOREM BudgetNoFreshBurst == Spec => []NoFreshBurst
<1>1. Init => Accounted
  BY BudgetInit DEF Accounted, NoFreshBurst, Init
<1>2. Accounted => NoFreshBurst
  BY DEF Accounted
<1> QED BY <1>1, <1>2, AccountedNext, PTL DEF Spec
=============================================================================
