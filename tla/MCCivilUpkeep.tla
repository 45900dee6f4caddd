---------------------------- MODULE MCCivilUpkeep ----------------------------
(* Deployments just before the turns of the calendar that can go wrong.     *)
EXTENDS CivilUpkeep, CivilPeriod

Date(y, m, d) == [year |-> y, month |-> m, day |-> d]

(* The months before the tenth, the end of a year that init.sql has not     *)
(* prepared and one that it has, a leap February, and a century that is no  *)
(* leap year.                                                               *)
Turns ==
    {Date(2026, 9, 29), Date(2026, 11, 29), Date(2027, 12, 30),
     Date(2028, 1, 31), Date(2100, 2, 27)}

(* The months around that century, as an instance of Calendar.              *)
Century == [year |-> 2096, month |-> 1]

ASSUME CenturyIsCalendar == Cal!IsCalendar

AllZones == {-1, 0, 1}
=============================================================================
