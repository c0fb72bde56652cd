------------------------------- MODULE Slots -------------------------------
(***************************************************************************)
(* What an admission owner promises while its pool is open (ADR 0017,      *)
(* section 3): a set of holders that grows only below a limit in force,    *)
(* where a slot is taken when one is free, given back, or handed over      *)
(* without becoming free in between.  Closing the pool ends the promise.   *)
(***************************************************************************)
EXTENDS Integers, FiniteSets

CONSTANTS
    Reqs,
    Limits      \* the limits that may be in force; 0 or less is unlimited

VARIABLES holders, open

Init == holders = {} /\ open = TRUE

Free == \E l \in Limits : l <= 0 \/ Cardinality(holders) < l
Take(r) == r \notin holders /\ Free /\ holders' = holders \cup {r}
Give(r) == r \in holders /\ holders' = holders \ {r}
HandOver(r, q) ==
    /\ r \in holders /\ q \notin holders /\ r # q
    /\ holders' = (holders \ {r}) \cup {q}

Serve ==
    /\ open /\ UNCHANGED open
    /\ \/ \E r \in Reqs : Take(r) \/ Give(r)
       \/ \E r, q \in Reqs : HandOver(r, q)

Close == open' = FALSE

Next == Serve \/ Close

Spec == Init /\ [][Next]_<<holders, open>>
=============================================================================
