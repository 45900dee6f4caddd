---------------------------- MODULE MonthlyUpkeep ----------------------------
(***************************************************************************)
(* What the upkeep of one table amounts to, without names, dates, zones and  *)
(* bounds as text: a set of month numbers.  A pass adds the present month and *)
(* the next one, and always succeeds; a retention run removes exactly the     *)
(* months whose end lies RetentionDays back, no fewer and no more.            *)
(***************************************************************************)
EXTENDS Integers

CONSTANTS
    MonthStart,     \* the first day of each month, a function of its number
    RetentionDays   \* the retention window of the table

VARIABLES
    day,      \* today, in UTC
    months    \* the months that have a partition

vars == <<day, months>>

InMonth(d, m) == MonthStart[m] <= d /\ d < MonthStart[m + 1]

(* The database may be a day ahead of UTC or behind when it is initialised. *)
Init ==
    \E m \in months :
        /\ months = {m, m + 1}
        /\ \E ahead \in {-1, 0, 1} : InMonth(day + ahead, m)

Advance == day' = day + 1 /\ UNCHANGED months

Ensure ==
    /\ \E m \in months' : InMonth(day, m) /\ months' = months \cup {m, m + 1}
    /\ UNCHANGED day

Drop ==
    /\ months' = {m \in months : MonthStart[m + 1] > day - RetentionDays}
    /\ UNCHANGED day

Next == Advance \/ Ensure \/ Drop

Spec == Init /\ [][Next]_vars
=============================================================================
