----------------------------- MODULE CivilProofs -----------------------------
(***************************************************************************)
(* Theorems about the civil calendar and the months of src/partitioning.py,  *)
(* for every year.                                                           *)
(***************************************************************************)
EXTENDS CivilPeriod, TLAPS

-----------------------------------------------------------------------------
(* Years.                                                                   *)

YearDays(y) == IF Leap(y) THEN 366 ELSE 365

LEMMA YearLength ==
    ASSUME NEW y \in Nat \ {0}
    PROVE  /\ DaysBeforeYear(y) \in Nat
           /\ YearDays(y) \in {365, 366}
           /\ DaysBeforeYear(y + 1) = DaysBeforeYear(y) + YearDays(y)
BY SMTT(60) DEF DaysBeforeYear, Leap, YearDays

LEMMA YearsApart ==
    ASSUME NEW a \in Nat \ {0}, NEW b \in Nat \ {0}, a < b
    PROVE  DaysBeforeYear(a + 1) <= DaysBeforeYear(b)
BY SMTT(60) DEF DaysBeforeYear

(* Every ordinal falls into a year, and YearOf looks in the right place.    *)
LEMMA YearExists ==
    ASSUME NEW n \in Nat \ {0}
    PROVE  \E y \in (n \div 366) .. (n \div 365) + 1 :
                /\ y \in Nat \ {0}
                /\ DaysBeforeYear(y) < n /\ n <= DaysBeforeYear(y + 1)
<1> DEFINE a == (400 * n) \div 146097
           InYear(y) == DaysBeforeYear(y) < n /\ n <= DaysBeforeYear(y + 1)
<1>1. a \in Nat
    BY SMTT(60)
<1>2. a >= 1 => DaysBeforeYear(a) < n
    BY SMTT(60) DEF DaysBeforeYear
<1>3. n <= DaysBeforeYear(a + 3) /\ DaysBeforeYear(1) < n
    BY SMTT(60) DEF DaysBeforeYear
<1>4. /\ DaysBeforeYear(1) \in Int /\ DaysBeforeYear(a) \in Int
      /\ DaysBeforeYear(a + 1) \in Int /\ DaysBeforeYear(a + 2) \in Int
    BY <1>1, SMTT(60) DEF DaysBeforeYear
<1>5. \E y \in Nat \ {0} : InYear(y)
    <2> HIDE DEF a
    <2>1. (a >= 1 /\ InYear(a)) \/ InYear(a + 1) \/ InYear(a + 2)
        <3>1. CASE a = 0
            BY <1>1, <1>3, <1>4, <3>1
        <3>2. CASE a >= 1
            BY <1>1, <1>2, <1>3, <1>4, <3>2
        <3> QED
            BY <1>1, <3>1, <3>2
    <2> QED
        BY <1>1, <2>1
<1>6. PICK y \in Nat \ {0} : InYear(y)
    BY <1>5
<1>7. y \in (n \div 366) .. (n \div 365) + 1
    BY <1>6, SMTT(60) DEF DaysBeforeYear
<1> QED
    BY <1>6, <1>7

-----------------------------------------------------------------------------
(* Months.                                                                  *)

LEMMA MonthLength ==
    ASSUME NEW y \in Nat \ {0}, NEW m \in 1 .. 12
    PROVE  /\ DaysIn(y, m) \in 28 .. 31
           /\ DaysBeforeMonth(y, m) \in Nat
           /\ m < 12 => DaysBeforeMonth(y, m + 1) = DaysBeforeMonth(y, m) + DaysIn(y, m)
           /\ DaysBeforeMonth(y, 1) = 0
           /\ DaysBeforeMonth(y, 12) + DaysIn(y, 12) = YearDays(y)
           /\ DaysBeforeMonth(y, m) + DaysIn(y, m) <= YearDays(y)
<1>1. m \in {1, 2, 3, 4, 5, 6, 7, 8, 9, 10, 11, 12}
    OBVIOUS
<1> QED
    BY <1>1 DEF DaysIn, DaysBeforeMonth, YearDays

LEMMA MonthsApart ==
    ASSUME NEW y \in Nat \ {0}, NEW m \in 1 .. 12, NEW n \in 1 .. 12, m < n
    PROVE  DaysBeforeMonth(y, m) + DaysIn(y, m) <= DaysBeforeMonth(y, n)
<1>1. m \in {1, 2, 3, 4, 5, 6, 7, 8, 9, 10, 11, 12}
      /\ n \in {1, 2, 3, 4, 5, 6, 7, 8, 9, 10, 11, 12}
    OBVIOUS
<1> QED
    BY <1>1, SMTT(60) DEF DaysIn, DaysBeforeMonth

(* Every day of a year falls into a month.                                  *)
LEMMA MonthExists ==
    ASSUME NEW y \in Nat \ {0}, NEW r \in 1 .. YearDays(y)
    PROVE  \E m \in 1 .. 12 :
                DaysBeforeMonth(y, m) < r /\ r <= DaysBeforeMonth(y, m) + DaysIn(y, m)
<1> DEFINE In(m) == DaysBeforeMonth(y, m) < r /\ r <= DaysBeforeMonth(y, m) + DaysIn(y, m)
<1>1. In(1) \/ In(2) \/ In(3) \/ In(4) \/ In(5) \/ In(6)
      \/ In(7) \/ In(8) \/ In(9) \/ In(10) \/ In(11) \/ In(12)
    BY SMTT(60) DEF DaysIn, DaysBeforeMonth, YearDays
<1> HIDE DEF In
<1>2. \E m \in 1 .. 12 : In(m)
    BY <1>1
<1> QED
    BY <1>2 DEF In

-----------------------------------------------------------------------------
(* Ordinals and dates.                                                      *)

(* DateOf yields a date, and that of its argument: what PostgreSQL prints   *)
(* for the midnight that begins a day is that day.                          *)
THEOREM DateOfOrdinal ==
    ASSUME NEW n \in Nat \ {0}
    PROVE  IsDate(DateOf(n)) /\ Ordinal(DateOf(n)) = n
<1> DEFINE y == YearOf(n)
           r == n - DaysBeforeYear(y)
           m == MonthIn(y, r)
<1>1. /\ y \in (n \div 366) .. (n \div 365) + 1
      /\ DaysBeforeYear(y) < n /\ n <= DaysBeforeYear(y + 1)
    <2>1. \E k \in (n \div 366) .. (n \div 365) + 1 :
                DaysBeforeYear(k) < n /\ n <= DaysBeforeYear(k + 1)
        BY YearExists
    <2> QED
        BY <2>1 DEF YearOf
<1> HIDE DEF y
<1>2. y \in Nat \ {0}
    <2>1. y \in Int
        BY <1>1, SMTT(30)
    <2>2. y < 1 => DaysBeforeYear(y + 1) <= 0
        BY <2>1, SMTT(30) DEF DaysBeforeYear
    <2>3. DaysBeforeYear(y + 1) \in Int
        BY <2>1, SMTT(30) DEF DaysBeforeYear
    <2> QED
        BY <1>1, <2>1, <2>2, <2>3
<1>3. r \in 1 .. YearDays(y)
    BY <1>1, <1>2, YearLength
<1> HIDE DEF r
<1>4. /\ m \in 1 .. 12
      /\ DaysBeforeMonth(y, m) < r /\ r <= DaysBeforeMonth(y, m) + DaysIn(y, m)
    <2>1. \E k \in 1 .. 12 :
                DaysBeforeMonth(y, k) < r /\ r <= DaysBeforeMonth(y, k) + DaysIn(y, k)
        BY <1>2, <1>3, MonthExists
    <2> QED
        BY <2>1 DEF MonthIn
<1>5. DateOf(n) = [year |-> y, month |-> m, day |-> r - DaysBeforeMonth(y, m)]
    BY DEF DateOf, y, r
<1> HIDE DEF m
<1>6. /\ DaysBeforeMonth(y, m) \in Nat /\ DaysIn(y, m) \in 28 .. 31
      /\ r \in Nat /\ DaysBeforeYear(y) \in Nat
    BY <1>2, <1>3, <1>4, MonthLength, YearLength
<1>7. r - DaysBeforeMonth(y, m) \in 1 .. DaysIn(y, m)
    BY <1>4, <1>6
<1> QED
    BY <1>2, <1>4, <1>5, <1>6, <1>7 DEF IsDate, Ordinal, r

(* Where a month lies in its year, and the year among the years.            *)
LEMMA MonthFacts ==
    ASSUME NEW ym, IsMonth(ym)
    PROVE  /\ ym.year \in Nat \ {0} /\ ym.month \in 1 .. 12
           /\ DaysBeforeYear(ym.year) \in Nat
           /\ DaysBeforeYear(ym.year + 1) \in Nat
           /\ DaysBeforeMonth(ym.year, ym.month) \in Nat
           /\ DaysIn(ym.year, ym.month) \in 28 .. 31
           /\ Ordinal(FirstOf(ym))
                = DaysBeforeYear(ym.year) + DaysBeforeMonth(ym.year, ym.month) + 1
           /\ DaysBeforeYear(ym.year) + DaysBeforeMonth(ym.year, ym.month)
                + DaysIn(ym.year, ym.month) <= DaysBeforeYear(ym.year + 1)
           /\ ym.month = 12 =>
                DaysBeforeYear(ym.year) + DaysBeforeMonth(ym.year, ym.month)
                    + DaysIn(ym.year, ym.month) = DaysBeforeYear(ym.year + 1)
<1>1. PICK y \in Nat \ {0}, m \in 1 .. 12 : ym = [year |-> y, month |-> m]
    BY DEF IsMonth
<1>2. ym.year = y /\ ym.month = m
    BY <1>1
<1>3. /\ DaysBeforeYear(y) \in Nat /\ DaysBeforeYear(y + 1) \in Nat
      /\ YearDays(y) \in Nat
      /\ DaysBeforeYear(y + 1) = DaysBeforeYear(y) + YearDays(y)
    <2>1. y + 1 \in Nat \ {0}
        OBVIOUS
    <2> QED
        BY <2>1, YearLength
<1>4. /\ DaysBeforeMonth(y, m) \in Nat
      /\ DaysIn(y, m) \in 28 .. 31
      /\ DaysBeforeMonth(y, m) + DaysIn(y, m) <= YearDays(y)
      /\ m = 12 => DaysBeforeMonth(y, m) + DaysIn(y, m) = YearDays(y)
    BY MonthLength
<1>5. Ordinal(FirstOf(ym)) = DaysBeforeYear(y) + DaysBeforeMonth(y, m) + 1
    BY <1>2 DEF Ordinal, FirstOf
<1>6. DaysBeforeYear(y) + DaysBeforeMonth(y, m) + DaysIn(y, m) <= DaysBeforeYear(y + 1)
    BY <1>3, <1>4
<1>7. m = 12 => DaysBeforeYear(y) + DaysBeforeMonth(y, m) + DaysIn(y, m)
                    = DaysBeforeYear(y + 1)
    BY <1>3, <1>4
<1> QED
    BY <1>2, <1>3, <1>4, <1>5, <1>6, <1>7

(* A date lies in the range of its own month: what current_month reads off  *)
(* today is the month whose partition today's rows need.                    *)
LEMMA DateInMonth ==
    ASSUME NEW x, IsDate(x)
    PROVE  LET ym == current_month(x) IN
           /\ IsMonth(ym)
           /\ Ordinal(FirstOf(ym)) \in Nat \ {0}
           /\ Ordinal(FirstOf(ym)) <= Ordinal(x)
           /\ Ordinal(x) < Ordinal(FirstOf(ym)) + DaysIn(x.year, x.month)
<1>1. x.year \in Nat \ {0} /\ x.month \in 1 .. 12 /\ x.day \in 1 .. 31
      /\ x.day <= DaysIn(x.year, x.month)
    BY DEF IsDate
<1>2. /\ DaysBeforeYear(x.year) \in Nat /\ DaysBeforeMonth(x.year, x.month) \in Nat
      /\ DaysIn(x.year, x.month) \in 28 .. 31
    BY <1>1, YearLength, MonthLength
<1> QED
    BY <1>1, <1>2 DEF current_month, FirstOf, Ordinal, IsMonth

(* Numbering the months loses nothing and follows next_month.               *)
LEMMA MonthNumbers ==
    /\ \A ym : IsMonth(ym) => /\ MonthNumber(ym) \in Nat /\ MonthNumber(ym) >= 13
                              /\ MonthNumbered(MonthNumber(ym)) = ym
                              /\ IsMonth(next_month(ym))
                              /\ MonthNumber(next_month(ym)) = MonthNumber(ym) + 1
    /\ \A k \in Nat : k >= 13 => /\ IsMonth(MonthNumbered(k))
                                 /\ MonthNumber(MonthNumbered(k)) = k
<1>1. ASSUME NEW ym, IsMonth(ym)
      PROVE  /\ MonthNumber(ym) \in Nat /\ MonthNumber(ym) >= 13
             /\ MonthNumbered(MonthNumber(ym)) = ym
             /\ IsMonth(next_month(ym))
             /\ MonthNumber(next_month(ym)) = MonthNumber(ym) + 1
    <2>1. /\ ym.year \in Nat \ {0} /\ ym.month \in 1 .. 12
          /\ ym = [year |-> ym.year, month |-> ym.month]
        BY <1>1 DEF IsMonth
    <2>2. /\ (12 * ym.year + ym.month - 1) \div 12 = ym.year
          /\ 1 + ((12 * ym.year + ym.month - 1) % 12) = ym.month
        BY <2>1, SMTT(30)
    <2>3. MonthNumbered(MonthNumber(ym)) = ym
        BY <2>1, <2>2 DEF MonthNumber, MonthNumbered
    <2>4. IsMonth(next_month(ym)) /\ MonthNumber(next_month(ym)) = MonthNumber(ym) + 1
        BY <2>1 DEF IsMonth, next_month, MonthNumber
    <2> QED
        BY <2>1, <2>3, <2>4 DEF MonthNumber
<1>2. ASSUME NEW k \in Nat, k >= 13
      PROVE  IsMonth(MonthNumbered(k)) /\ MonthNumber(MonthNumbered(k)) = k
    BY <1>2, SMTT(30) DEF IsMonth, MonthNumbered, MonthNumber
<1> QED
    BY <1>1, <1>2

(* Months follow each other: none begins before the earlier one is over.    *)
LEMMA MonthsOrdered ==
    ASSUME NEW a, NEW b, IsMonth(a), IsMonth(b), MonthNumber(a) < MonthNumber(b)
    PROVE  Ordinal(FirstOf(a)) + DaysIn(a.year, a.month) <= Ordinal(FirstOf(b))
<1>1. CASE a.year = b.year /\ a.month < b.month
    <2>1. DaysBeforeMonth(a.year, a.month) + DaysIn(a.year, a.month)
            <= DaysBeforeMonth(b.year, b.month)
        <3>1. a.year \in Nat \ {0} /\ a.month \in 1 .. 12 /\ b.month \in 1 .. 12
            BY MonthFacts
        <3> QED
            BY <1>1, <3>1, MonthsApart
    <2> QED
        BY <1>1, <2>1, MonthFacts
<1>2. CASE a.year < b.year
    <2>1. DaysBeforeYear(a.year + 1) <= DaysBeforeYear(b.year)
        <3>1. a.year \in Nat \ {0} /\ b.year \in Nat \ {0}
            BY MonthFacts
        <3> QED
            BY <1>2, <3>1, YearsApart
    <2> QED
        BY <2>1, MonthFacts
<1> QED
    BY <1>1, <1>2, MonthFacts DEF MonthNumber

(* The ranges of consecutive months meet, over the turn of the year too,    *)
(* and are as long as the month (partitioning.py:59-76 and 264-277).        *)
THEOREM RangesMeet ==
    ASSUME NEW ym, IsMonth(ym)
    PROVE  /\ month_range(ym).end = month_range(next_month(ym)).start
           /\ Ordinal(month_range(ym).end)
                = Ordinal(month_range(ym).start) + DaysIn(ym.year, ym.month)
<1> DEFINE y == ym.year
           m == ym.month
<1>1. /\ month_range(ym).end = FirstOf(next_month(ym))
      /\ month_range(ym).start = FirstOf(ym)
      /\ month_range(next_month(ym)).start = FirstOf(next_month(ym))
    BY DEF month_range, next_month
<1>2. CASE m = 12
    <2>1. /\ next_month(ym) = [year |-> y + 1, month |-> 1]
          /\ DaysBeforeMonth(y + 1, 1) = 0
        <3>1. y + 1 \in Nat \ {0} /\ 1 \in 1 .. 12
            BY MonthFacts
        <3> QED
            BY <1>2, <3>1, MonthLength DEF next_month
    <2>2. Ordinal(FirstOf(next_month(ym))) = DaysBeforeYear(y + 1) + 0 + 1
        BY <2>1 DEF Ordinal, FirstOf
    <2> QED
        BY <1>1, <1>2, <2>2, MonthFacts
<1>3. CASE m < 12
    <2>1. /\ next_month(ym) = [year |-> y, month |-> m + 1]
          /\ DaysBeforeMonth(y, m + 1) = DaysBeforeMonth(y, m) + DaysIn(y, m)
        <3>1. y \in Nat \ {0} /\ m \in 1 .. 12
            BY MonthFacts
        <3> QED
            BY <1>3, <3>1, MonthLength DEF next_month
    <2>2. Ordinal(FirstOf(next_month(ym)))
            = DaysBeforeYear(y) + DaysBeforeMonth(y, m + 1) + 1
        BY <2>1 DEF Ordinal, FirstOf
    <2> QED
        BY <1>1, <2>1, <2>2, MonthFacts
<1> QED
    BY <1>2, <1>3, MonthFacts

-----------------------------------------------------------------------------
(* A period of civil months is a calendar.                                  *)

LEMMA NthMonths ==
    ASSUME NEW i \in Nat
    PROVE  /\ IsMonth(NthMonth(i))
           /\ MonthNumber(NthMonth(i)) = MonthNumber(FirstMonth) + i
           /\ IndexOf(NthMonth(i)) = i
           /\ NthMonth(i + 1) = next_month(NthMonth(i))
           /\ Ordinal(FirstOf(NthMonth(i))) \in Nat \ {0}
<1> DEFINE k == MonthNumber(FirstMonth) + i
<1>1. MonthNumber(FirstMonth) \in Nat /\ k \in Nat /\ k >= 13
    BY MonthNumbers, CivilPeriodAssumption
<1>2. IsMonth(NthMonth(i)) /\ MonthNumber(NthMonth(i)) = k
    BY <1>1, MonthNumbers DEF NthMonth
<1>3. IndexOf(NthMonth(i)) = i
    BY <1>1, <1>2 DEF IndexOf
<1>4. NthMonth(i + 1) = next_month(NthMonth(i))
    <2>1. /\ IsMonth(next_month(NthMonth(i)))
          /\ MonthNumber(next_month(NthMonth(i))) = MonthNumber(FirstMonth) + (i + 1)
        BY <1>1, <1>2, MonthNumbers
    <2> QED
        BY <2>1, MonthNumbers DEF NthMonth
<1>5. Ordinal(FirstOf(NthMonth(i))) \in Nat \ {0}
    BY <1>2, MonthFacts
<1> QED
    BY <1>2, <1>3, <1>4, <1>5

(* Every period of the civil calendar, whatever month it begins with and    *)
(* however long it is, satisfies what Calendar assumes: the months that     *)
(* next_month counts, with the bounds _month_range computes, are            *)
(* consecutive and not empty, and current_month finds the one a day lies    *)
(* in.  What is proved of Retention thus holds for real dates.              *)
THEOREM CivilIsCalendar == Cal!IsCalendar
<1>1. NumMonths \in Nat \ {0}
    BY CivilPeriodAssumption
<1>2. \A i \in 0 .. NumMonths + 1 :
        /\ CivilStart[i] = Ordinal(FirstOf(NthMonth(i)))
        /\ CivilStart[i] \in Nat \ {0}
    BY <1>1, NthMonths DEF CivilStart
<1>3. ASSUME NEW i \in 0 .. NumMonths + 1, NEW j \in 0 .. NumMonths + 1, i < j
      PROVE  CivilStart[i] < CivilStart[j]
    <2>1. /\ IsMonth(NthMonth(i)) /\ IsMonth(NthMonth(j))
          /\ MonthNumber(NthMonth(i)) < MonthNumber(NthMonth(j))
        <3>1. i \in Nat /\ j \in Nat /\ MonthNumber(FirstMonth) \in Nat
            BY <1>1, CivilPeriodAssumption, MonthNumbers
        <3> QED
            BY <1>3, <3>1, NthMonths
    <2> DEFINE a == NthMonth(i)
    <2>2. Ordinal(FirstOf(a)) + DaysIn(a.year, a.month) <= CivilStart[j]
        BY <1>2, <2>1, MonthsOrdered
    <2>3. DaysIn(a.year, a.month) \in 28 .. 31
        BY <2>1, MonthFacts
    <2> HIDE DEF a
    <2>4. CivilStart[i] = Ordinal(FirstOf(a)) /\ CivilStart[i] \in Nat /\ CivilStart[j] \in Nat
        BY <1>2 DEF a
    <2> QED
        BY <2>2, <2>3, <2>4
<1>4. ASSUME NEW d \in CivilStart[0] .. CivilStart[NumMonths] - 1
      PROVE  LET i == IndexOf(current_month(DateOf(d))) IN
             /\ i \in 0 .. NumMonths - 1
             /\ CivilStart[i] <= d /\ d < CivilStart[i + 1]
    <2> DEFINE x  == DateOf(d)
               ym == current_month(x)
               i  == IndexOf(ym)
    <2>1. d \in Nat \ {0} /\ CivilStart[0] <= d /\ d < CivilStart[NumMonths]
        <3>1. 0 \in 0 .. NumMonths + 1 /\ NumMonths \in 0 .. NumMonths + 1
            BY <1>1
        <3> QED
            BY <1>2, <3>1
    <2>2. IsDate(x) /\ Ordinal(x) = d
        BY <2>1, DateOfOrdinal
    <2> HIDE DEF x
    <2>3. /\ IsMonth(ym)
          /\ ym.year = x.year /\ ym.month = x.month
          /\ Ordinal(FirstOf(ym)) \in Nat \ {0}
          /\ Ordinal(FirstOf(ym)) <= d
          /\ d < Ordinal(FirstOf(ym)) + DaysIn(x.year, x.month)
        BY <2>2, DateInMonth DEF current_month
    <2> HIDE DEF ym
    <2>4. Ordinal(FirstOf(next_month(ym)))
            = Ordinal(FirstOf(ym)) + DaysIn(ym.year, ym.month)
        BY <2>3, RangesMeet DEF month_range, next_month
    <2>5. /\ MonthNumber(FirstMonth) \in Nat /\ MonthNumber(ym) \in Nat
          /\ MonthNumbered(MonthNumber(ym)) = ym
          /\ IsMonth(FirstMonth)
        BY <2>3, CivilPeriodAssumption, MonthNumbers
    <2>6. i \in Int /\ ym = MonthNumbered(MonthNumber(FirstMonth) + i)
        BY <2>5 DEF IndexOf
    <2>7. NthMonth(0) = FirstMonth
        BY <2>5, MonthNumbers DEF NthMonth
    <2>8. i >= 0
        <3>1. SUFFICES ASSUME MonthNumber(ym) < MonthNumber(FirstMonth)
                       PROVE  FALSE
            BY <2>5 DEF IndexOf
        <3>2. Ordinal(FirstOf(ym)) + DaysIn(ym.year, ym.month) <= CivilStart[0]
            BY <1>1, <1>2, <2>3, <2>5, <2>7, <3>1, MonthsOrdered
        <3>3. DaysIn(ym.year, ym.month) = DaysIn(x.year, x.month)
              /\ DaysIn(ym.year, ym.month) \in 28 .. 31
            BY <2>3, MonthFacts
        <3>4. CivilStart[0] \in Nat
            BY <1>1, <1>2
        <3> QED
            BY <2>1, <2>3, <3>2, <3>3, <3>4
    <2>9. i < NumMonths
        <3> DEFINE last == NthMonth(NumMonths)
        <3>1. /\ IsMonth(last)
              /\ MonthNumber(last) = MonthNumber(FirstMonth) + NumMonths
              /\ CivilStart[NumMonths] = Ordinal(FirstOf(last))
              /\ Ordinal(FirstOf(last)) \in Nat
            BY <1>1, <1>2, NthMonths
        <3> HIDE DEF last
        <3>2. SUFFICES ASSUME MonthNumber(last) <= MonthNumber(ym)
                       PROVE  FALSE
            BY <1>1, <2>5, <3>1 DEF IndexOf
        <3>3. CASE MonthNumber(last) = MonthNumber(ym)
            <4>1. last = ym
                BY <2>3, <3>1, <3>3, MonthNumbers
            <4> QED
                BY <2>1, <2>3, <3>1, <4>1
        <3>4. CASE MonthNumber(last) < MonthNumber(ym)
            <4>1. /\ Ordinal(FirstOf(last)) + DaysIn(last.year, last.month)
                        <= Ordinal(FirstOf(ym))
                  /\ DaysIn(last.year, last.month) \in 28 .. 31
                BY <2>3, <3>1, <3>4, MonthsOrdered, MonthFacts
            <4> QED
                BY <2>1, <2>3, <3>1, <4>1
        <3> QED
            BY <1>1, <2>5, <3>1, <3>2, <3>3, <3>4
    <2> HIDE DEF i
    <2>10. i \in 0 .. NumMonths - 1 /\ i \in Nat
        BY <1>1, <2>6, <2>8, <2>9
    <2>11. ym = NthMonth(i) /\ next_month(ym) = NthMonth(i + 1)
        BY <2>6, <2>10, NthMonths DEF NthMonth
    <2>12. /\ CivilStart[i] = Ordinal(FirstOf(ym))
           /\ CivilStart[i + 1] = Ordinal(FirstOf(next_month(ym)))
        BY <1>1, <1>2, <2>10, <2>11
    <2>13. CivilStart[i] <= d /\ d < CivilStart[i + 1]
        BY <2>3, <2>4, <2>12
    <2> QED
        BY <2>10, <2>13 DEF i, ym, x
<1>5. CivilStart \in [0 .. NumMonths + 1 -> Int]
    BY <1>1, <1>2 DEF CivilStart
<1>6. Cal!Days = CivilStart[0] .. CivilStart[NumMonths] - 1
    BY DEF Cal!Days
<1>7. /\ CivilMonthOf \in [Cal!Days -> 0 .. NumMonths - 1]
      /\ \A d \in Cal!Days : /\ CivilStart[CivilMonthOf[d]] <= d
                              /\ d < CivilStart[CivilMonthOf[d] + 1]
    BY <1>4, <1>6 DEF CivilMonthOf
<1> QED
    BY <1>1, <1>3, <1>5, <1>7 DEF Cal!IsCalendar, Cal!MonthEnd, Cal!NextMonth
=============================================================================
