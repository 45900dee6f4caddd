----------------------------- MODULE CivilPeriod -----------------------------
(***************************************************************************)
(* Any number of consecutive civil months as an instance of Calendar: days   *)
(* are ordinals, months are counted from the first one.  What is proved of    *)
(* Retention for every calendar thereby holds of the one the service uses.    *)
(***************************************************************************)
EXTENDS CivilCalendar

CONSTANTS
    FirstMonth,   \* the first month of the period
    NumMonths     \* the number of months on whose days the service runs

ASSUME CivilPeriodAssumption ==
    /\ IsMonth(FirstMonth)
    /\ NumMonths \in Nat \ {0}

(* The i-th month of the period, and the index of a month.                  *)
NthMonth(i) == MonthNumbered(MonthNumber(FirstMonth) + i)
IndexOf(ym) == MonthNumber(ym) - MonthNumber(FirstMonth)

CivilStart == [i \in 0 .. NumMonths + 1 |-> Ordinal(FirstOf(NthMonth(i)))]

CivilMonthOf ==
    [d \in CivilStart[0] .. CivilStart[NumMonths] - 1 |->
        IndexOf(current_month(DateOf(d)))]

Cal == INSTANCE Calendar WITH
    LastMonth <- NumMonths, MonthStart <- CivilStart, MonthOf <- CivilMonthOf
=============================================================================
