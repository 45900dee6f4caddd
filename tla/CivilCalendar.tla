---------------------------- MODULE CivilCalendar ----------------------------
(***************************************************************************)
(* Dates, months and partition names as src/partitioning.py and              *)
(* database/init.sql compute them.  A date is a record of year, month and     *)
(* day of the month, a month a record of year and month.  Python's date and   *)
(* PostgreSQL's DATE are the proleptic Gregorian calendar: Ordinal is         *)
(* date.toordinal(), on which their comparison and subtraction are based,     *)
(* and DateOf its inverse.                                                    *)
(***************************************************************************)
EXTENDS Integers, Sequences

Leap(y) == y % 4 = 0 /\ (y % 100 # 0 \/ y % 400 = 0)

DaysIn(y, m) ==
    IF m = 2 THEN IF Leap(y) THEN 29 ELSE 28
    ELSE IF m \in {4, 6, 9, 11} THEN 30 ELSE 31

DaysBeforeYear(y) ==
    365 * (y - 1) + (y - 1) \div 4 - (y - 1) \div 100 + (y - 1) \div 400

DaysBeforeMonth(y, m) ==
    <<0, 31, 59, 90, 120, 151, 181, 212, 243, 273, 304, 334>>[m]
        + IF m > 2 /\ Leap(y) THEN 1 ELSE 0

IsMonth(ym) == ym \in [year : Nat \ {0}, month : 1 .. 12]

IsDate(x) ==
    /\ x \in [year : Nat \ {0}, month : 1 .. 12, day : 1 .. 31]
    /\ x.day <= DaysIn(x.year, x.month)

Ordinal(x) ==
    DaysBeforeYear(x.year) + DaysBeforeMonth(x.year, x.month) + x.day

(* The year, the month and the day of the month of an ordinal.              *)
YearOf(n) ==
    CHOOSE y \in (n \div 366) .. (n \div 365) + 1 :
        DaysBeforeYear(y) < n /\ n <= DaysBeforeYear(y + 1)

MonthIn(y, r) ==
    CHOOSE m \in 1 .. 12 :
        DaysBeforeMonth(y, m) < r /\ r <= DaysBeforeMonth(y, m) + DaysIn(y, m)

DateOf(n) ==
    LET y == YearOf(n)
        r == n - DaysBeforeYear(y)
        m == MonthIn(y, r)
    IN  [year |-> y, month |-> m, day |-> r - DaysBeforeMonth(y, m)]

-----------------------------------------------------------------------------
(* partitioning.py.                                                         *)

(* The months in their order, as consecutive numbers, and back.             *)
MonthNumber(ym) == 12 * ym.year + ym.month

MonthNumbered(k) == [year |-> (k - 1) \div 12, month |-> 1 + ((k - 1) % 12)]

FirstOf(ym) == [year |-> ym.year, month |-> ym.month, day |-> 1]

(* Mutant of next_month: the year does not turn.                            *)
next_month_in_year(ym) ==
    [ym EXCEPT !.month = IF @ = 12 THEN 1 ELSE @ + 1]

next_month(ym) ==
    IF ym.month = 12
    THEN [year |-> ym.year + 1, month |-> 1]
    ELSE [year |-> ym.year, month |-> ym.month + 1]

(* Mutant of month_range: December ends with the January of its own year.   *)
month_range_same_year(ym) ==
    [start |-> FirstOf(ym),
     end   |-> FirstOf([ym EXCEPT !.month = IF @ = 12 THEN 1 ELSE @ + 1])]

(* _month_range, whose December is a branch of its own.                     *)
month_range(ym) ==
    [start |-> FirstOf(ym),
     end   |-> IF ym.month = 12
               THEN FirstOf([year |-> ym.year + 1, month |-> 1])
               ELSE FirstOf([year |-> ym.year, month |-> ym.month + 1])]

current_month(today) == [year |-> today.year, month |-> today.month]

(* f"{n:04d}" and the like: the digits of n, padded to a width.             *)
Digits(n, width) ==
    [k \in 1 .. width |-> (n \div <<1000, 100, 10, 1>>[4 - width + k]) % 10]

(* Mutant of partition_name: the month is not padded.                       *)
partition_name_unpadded(ym) ==
    Digits(ym.year, 4) \o Digits(ym.month, IF ym.month < 10 THEN 1 ELSE 2)

(* partition_name_for_month, of one table: the year and the month are all   *)
(* that differs.                                                            *)
partition_name(ym) == Digits(ym.year, 4) \o Digits(ym.month, 2)

(* ORDER BY relname.                                                        *)
NameBefore(a, b) ==
    \E k \in 1 .. Len(b) :
        /\ \A j \in 1 .. k - 1 : j <= Len(a) /\ a[j] = b[j]
        /\ k > Len(a) \/ a[k] < b[k]

-----------------------------------------------------------------------------
(* init.sql: the two months of its DO block, with names and bounds computed *)
(* in PL/pgSQL.                                                             *)

SeedMonth(name, start, end) == [name |-> name, start |-> start, end |-> end]

(* Mutant of InitSeed: a naming convention of its own.                      *)
InitSeedUnpadded(today) ==
    LET cur == [year |-> today.year, month |-> today.month]
        nxt == next_month(cur)
    IN  {SeedMonth(partition_name_unpadded(ym), FirstOf(ym), FirstOf(next_month(ym))) :
            ym \in {cur, nxt}}

InitSeed(today) ==
    LET cur == [year |-> today.year, month |-> today.month]
        nxt == IF cur.month = 12
               THEN [year |-> cur.year + 1, month |-> 1]
               ELSE [cur EXCEPT !.month = @ + 1]
        end == IF nxt.month = 12
               THEN [year |-> nxt.year + 1, month |-> 1]
               ELSE [nxt EXCEPT !.month = @ + 1]
    IN  {SeedMonth(partition_name(cur), FirstOf(cur), FirstOf(nxt)),
         SeedMonth(partition_name(nxt), FirstOf(nxt), FirstOf(end))}
=============================================================================
