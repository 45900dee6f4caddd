------------------------------ MODULE Calendar ------------------------------
(***************************************************************************)
(* The calendar the partitions are cut along.  A day is an integer, a      *)
(* month an index; month m covers the half-open range of days              *)
(* [MonthStart[m], MonthStart[m + 1]), the range _month_range returns and   *)
(* the FOR VALUES FROM ... TO ... clause of month m's partition.  MonthOf   *)
(* is what reading the year and the month off a date gives.                *)
(*                                                                         *)
(* The constants are any calendar at all that satisfies the assumption     *)
(* below: months are consecutive, non-empty ranges.                        *)
(***************************************************************************)
EXTENDS Integers

CONSTANTS
    LastMonth,    \* the last month of the modelled period
    MonthStart,   \* the first day of each month, 0 .. LastMonth + 1
    MonthOf       \* the month of each day

Months == 0 .. LastMonth

(* The days on which the next month is still a modelled month. *)
Days == MonthStart[0] .. MonthStart[LastMonth] - 1

NextMonth(m) == m + 1

MonthEnd(m) == MonthStart[NextMonth(m)]

IsCalendar ==
    /\ LastMonth \in Nat \ {0}
    /\ MonthStart \in [0 .. LastMonth + 1 -> Int]
    /\ \A m, n \in 0 .. LastMonth + 1 : m < n => MonthStart[m] < MonthStart[n]
    /\ MonthOf \in [Days -> 0 .. LastMonth - 1]
    /\ \A d \in Days : MonthStart[MonthOf[d]] <= d /\ d < MonthEnd(MonthOf[d])

ASSUME CalendarAssumption == IsCalendar
=============================================================================
