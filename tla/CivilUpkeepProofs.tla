-------------------------- MODULE CivilUpkeepProofs --------------------------
(***************************************************************************)
(* The properties of CivilUpkeep for every start date, horizon and window.   *)
(* Plain is what makes them inductive: a partition, whoever created it, is    *)
(* the one the service would create for some month of four digits.            *)
(***************************************************************************)
EXTENDS CivilUpkeep, CivilProofs, SequenceTheorems

Ym == {ym \in [year : Nat \ {0}, month : 1 .. 12] : ym.year <= 9999}

MonthPartition(ym) ==
    Partition(partition_name(ym), month_range(ym).start, month_range(ym).end)

-----------------------------------------------------------------------------
(* Days and months.                                                         *)

(* A day of a month is given that month.                                    *)
LEMMA MonthOfDay ==
    ASSUME NEW ym, IsMonth(ym), NEW n \in Nat \ {0},
           Ordinal(FirstOf(ym)) <= n, n < Ordinal(FirstOf(ym)) + DaysIn(ym.year, ym.month)
    PROVE  current_month(DateOf(n)) = ym
<1> DEFINE x == DateOf(n)
           cm == current_month(x)
<1>1. IsDate(x) /\ Ordinal(x) = n
    BY DateOfOrdinal
<1>2. /\ IsMonth(cm) /\ cm.year = x.year /\ cm.month = x.month
      /\ Ordinal(FirstOf(cm)) <= n
      /\ n < Ordinal(FirstOf(cm)) + DaysIn(cm.year, cm.month)
    BY <1>1, DateInMonth DEF current_month
<1>3. /\ Ordinal(FirstOf(cm)) \in Int /\ Ordinal(FirstOf(ym)) \in Int
      /\ DaysIn(cm.year, cm.month) \in Int /\ DaysIn(ym.year, ym.month) \in Int
    BY <1>2, MonthFacts
<1>4. /\ MonthNumber(cm) \in Nat /\ MonthNumbered(MonthNumber(cm)) = cm
      /\ MonthNumber(ym) \in Nat /\ MonthNumbered(MonthNumber(ym)) = ym
    BY <1>2, MonthNumbers
<1> HIDE DEF cm
<1>5. ~ MonthNumber(cm) < MonthNumber(ym)
    BY <1>2, <1>3, MonthsOrdered
<1>6. ~ MonthNumber(ym) < MonthNumber(cm)
    BY <1>2, <1>3, MonthsOrdered
<1>7. MonthNumber(cm) = MonthNumber(ym)
    BY <1>4, <1>5, <1>6
<1>8. cm = ym
    BY <1>4, <1>7
<1> QED
    BY <1>8 DEF cm

(* And a date is given back by its ordinal: with DateOfOrdinal, DateOf and  *)
(* Ordinal are inverse to each other, so that comparing days is comparing   *)
(* dates, and a bound printed and read back is the bound                    *)
(* (partitioning.py:264-283).                                               *)
THEOREM OrdinalOfDate ==
    ASSUME NEW x, IsDate(x)
    PROVE  Ordinal(x) \in Nat \ {0} /\ DateOf(Ordinal(x)) = x
<1> DEFINE n == Ordinal(x)
           ym == current_month(x)
           y == DateOf(n)
<1>1. /\ IsMonth(ym) /\ ym.year = x.year /\ ym.month = x.month
      /\ Ordinal(FirstOf(ym)) \in Nat \ {0}
      /\ Ordinal(FirstOf(ym)) <= n
      /\ n < Ordinal(FirstOf(ym)) + DaysIn(ym.year, ym.month)
    BY DateInMonth DEF current_month
<1>2. /\ x \in [year : Nat \ {0}, month : 1 .. 12, day : 1 .. 31]
      /\ DaysBeforeYear(x.year) \in Nat /\ DaysBeforeMonth(x.year, x.month) \in Nat
    BY YearLength, MonthLength DEF IsDate
<1>3. n = DaysBeforeYear(x.year) + DaysBeforeMonth(x.year, x.month) + x.day
      /\ n \in Nat \ {0}
    BY <1>2 DEF Ordinal
<1> HIDE DEF n
<1>4. /\ IsDate(y) /\ Ordinal(y) = n
    BY <1>3, DateOfOrdinal
<1>5. current_month(y) = ym
    BY <1>1, <1>3, MonthOfDay
<1>6. y \in [year : Nat \ {0}, month : 1 .. 12, day : 1 .. 31]
    BY <1>4 DEF IsDate
<1> HIDE DEF y
<1>7. y.year = x.year /\ y.month = x.month
    BY <1>5 DEF current_month
<1>8. n = DaysBeforeYear(x.year) + DaysBeforeMonth(x.year, x.month) + y.day
    BY <1>4, <1>7 DEF Ordinal
<1>9. y.day = x.day
    BY <1>2, <1>3, <1>6, <1>8
<1>10. y = x
    BY <1>2, <1>6, <1>7, <1>9
<1> QED
    BY <1>3, <1>10 DEF n, y

(* The month of a day, and where the day lies in it.                        *)
LEMMA DayInMonth ==
    ASSUME NEW n \in Nat \ {0}
    PROVE  LET ym == current_month(DateOf(n)) IN
           /\ IsMonth(ym)
           /\ Ordinal(FirstOf(ym)) \in Nat \ {0}
           /\ Ordinal(FirstOf(next_month(ym))) \in Nat \ {0}
           /\ Ordinal(FirstOf(ym)) <= n
           /\ n < Ordinal(FirstOf(next_month(ym)))
           /\ Ordinal(DateOf(n)) = n
<1> DEFINE x == DateOf(n)
           ym == current_month(x)
<1>1. IsDate(x) /\ Ordinal(x) = n
    BY DateOfOrdinal
<1>2. /\ IsMonth(ym) /\ ym.year = x.year /\ ym.month = x.month
      /\ Ordinal(FirstOf(ym)) \in Nat \ {0}
      /\ Ordinal(FirstOf(ym)) <= n
      /\ n < Ordinal(FirstOf(ym)) + DaysIn(ym.year, ym.month)
    BY <1>1, DateInMonth DEF current_month
<1>3. Ordinal(month_range(ym).end) = Ordinal(month_range(ym).start) + DaysIn(ym.year, ym.month)
      /\ month_range(ym).end = month_range(next_month(ym)).start
    BY <1>2, RangesMeet
<1>4. DaysIn(ym.year, ym.month) \in 28 .. 31
    BY <1>2, MonthFacts
<1>5. Ordinal(FirstOf(next_month(ym))) = Ordinal(FirstOf(ym)) + DaysIn(ym.year, ym.month)
    BY <1>3 DEF month_range
<1> QED
    BY <1>1, <1>2, <1>4, <1>5

(* Later days are in the same or in later months.                           *)
LEMMA MonthsGrow ==
    ASSUME NEW m \in Nat \ {0}, NEW n \in Nat \ {0}, m <= n
    PROVE  MonthNumber(current_month(DateOf(m))) <= MonthNumber(current_month(DateOf(n)))
<1> DEFINE a == current_month(DateOf(m))
           b == current_month(DateOf(n))
<1>1. /\ IsMonth(a) /\ Ordinal(FirstOf(a)) \in Nat /\ Ordinal(FirstOf(a)) <= m
      /\ IsMonth(b) /\ Ordinal(FirstOf(b)) \in Nat
      /\ n < Ordinal(FirstOf(next_month(b)))
      /\ Ordinal(FirstOf(next_month(b))) \in Nat
    BY DayInMonth
<1>2. /\ MonthNumber(a) \in Nat /\ MonthNumber(b) \in Nat
      /\ IsMonth(next_month(b)) /\ MonthNumber(next_month(b)) = MonthNumber(b) + 1
      /\ MonthNumbered(MonthNumber(a)) = a
      /\ MonthNumbered(MonthNumber(next_month(b))) = next_month(b)
    BY <1>1, MonthNumbers
<1> HIDE DEF a, b
<1>3. ASSUME MonthNumber(b) < MonthNumber(a)
      PROVE  FALSE
    <2>1. CASE MonthNumber(a) = MonthNumber(b) + 1
        <3>1. a = next_month(b)
            BY <1>2, <2>1
        <3> QED
            BY <1>1, <3>1
    <2>2. CASE MonthNumber(next_month(b)) < MonthNumber(a)
        <3>1. /\ Ordinal(FirstOf(next_month(b))) + DaysIn(next_month(b).year, next_month(b).month)
                    <= Ordinal(FirstOf(a))
              /\ DaysIn(next_month(b).year, next_month(b).month) \in 28 .. 31
            BY <1>1, <1>2, <2>2, MonthsOrdered, MonthFacts
        <3> QED
            BY <1>1, <3>1
    <2> QED
        BY <1>2, <1>3, <2>1, <2>2
<1>4. MonthNumber(a) <= MonthNumber(b)
    BY <1>2, <1>3
<1> QED
    BY <1>4 DEF a, b

(* The last year of Python's dates, and of four digits, is not reached.     *)
LEMMA YearBound ==
    ASSUME NEW n \in Nat \ {0}, n <= DaysBeforeYear(9999)
    PROVE  LET ym == current_month(DateOf(n)) IN ym \in Ym /\ next_month(ym) \in Ym
<1> DEFINE ym == current_month(DateOf(n))
           y == ym.year
<1>1. IsMonth(ym) /\ Ordinal(FirstOf(ym)) <= n
    BY DayInMonth
<1>2. /\ y \in Nat \ {0} /\ ym.month \in 1 .. 12
      /\ DaysBeforeYear(y) \in Nat /\ DaysBeforeMonth(y, ym.month) \in Nat
      /\ Ordinal(FirstOf(ym)) = DaysBeforeYear(y) + DaysBeforeMonth(y, ym.month) + 1
      /\ ym = [year |-> y, month |-> ym.month]
    BY <1>1, MonthFacts DEF IsMonth
<1>3. DaysBeforeYear(9999) \in Nat
    BY YearLength
<1>4. y <= 9998
    <2>1. CASE y > 9999
        <3>1. /\ DaysBeforeYear(9999 + 1) <= DaysBeforeYear(y)
              /\ DaysBeforeYear(9999 + 1) = DaysBeforeYear(9999) + YearDays(9999)
              /\ YearDays(9999) \in {365, 366}
            BY <1>2, <2>1, YearsApart, YearLength
        <3> QED
            BY <1>1, <1>2, <1>3, <3>1
    <2>2. CASE y = 9999
        BY <1>1, <1>2, <1>3, <2>2
    <2> QED
        BY <1>2, <2>1, <2>2
<1> HIDE DEF ym
<1>5. ym \in Ym
    BY <1>2, <1>4 DEF Ym
<1>6. next_month(ym) \in Ym
    BY <1>2, <1>4 DEF Ym, next_month
<1> QED
    BY <1>5, <1>6 DEF ym

-----------------------------------------------------------------------------
(* Names.                                                                   *)

(* Six digits.                                                              *)
IsDigits(p) ==
    /\ p[1] \in 0 .. 9 /\ p[2] \in 0 .. 9 /\ p[3] \in 0 .. 9
    /\ p[4] \in 0 .. 9 /\ p[5] \in 0 .. 9 /\ p[6] \in 0 .. 9

(* A number of four digits is what its digits say.                         *)
LEMMA FourDigits ==
    ASSUME NEW n \in Nat, n <= 9999, NEW p,
           p[1] = (n \div 1000) % 10, p[2] = (n \div 100) % 10,
           p[3] = (n \div 10) % 10, p[4] = (n \div 1) % 10
    PROVE  /\ p[1] \in 0 .. 9 /\ p[2] \in 0 .. 9 /\ p[3] \in 0 .. 9 /\ p[4] \in 0 .. 9
           /\ YearDigits(p) = n
<1> DEFINE a == n \div 10
           b == a \div 10
           c == b \div 10
<1>1. /\ a \in Nat /\ n % 10 \in 0 .. 9 /\ n = 10 * a + (n % 10)
      /\ n \div 1 = n
    OBVIOUS
<1> HIDE DEF a
<1>2. b \in Nat /\ a % 10 \in 0 .. 9 /\ a = 10 * b + (a % 10)
    BY <1>1
<1> HIDE DEF b
<1>3. c \in Nat /\ b % 10 \in 0 .. 9 /\ b = 10 * c + (b % 10)
    BY <1>2
<1> HIDE DEF c
<1>4. n \div 100 = b
    BY <1>1, <1>2
<1>5. n \div 1000 = c
    BY <1>1, <1>2, <1>3
<1>6. c % 10 = c /\ c \in 0 .. 9
    BY <1>1, <1>2, <1>3
<1>7. n \div 10 = a
    BY DEF a
<1>8. p[1] = c /\ p[2] = b % 10 /\ p[3] = a % 10 /\ p[4] = n % 10
    BY <1>1, <1>4, <1>5, <1>6, <1>7
<1>9. n = 1000 * c + 100 * (b % 10) + 10 * (a % 10) + (n % 10)
    BY <1>1, <1>2, <1>3
<1>10. YearDigits(p) = 1000 * c + 100 * (b % 10) + 10 * (a % 10) + (n % 10)
    BY <1>8 DEF YearDigits
<1> QED
    BY <1>1, <1>2, <1>3, <1>6, <1>8, <1>9, <1>10

(* Lexicographic order of digits.                                           *)
LEMMA DigitOrder ==
    ASSUME NEW p, NEW q, IsDigits(p), IsDigits(q)
    PROVE  /\ (YearDigits(p) < YearDigits(q)) <=>
                \/ p[1] < q[1]
                \/ p[1] = q[1] /\ p[2] < q[2]
                \/ p[1] = q[1] /\ p[2] = q[2] /\ p[3] < q[3]
                \/ p[1] = q[1] /\ p[2] = q[2] /\ p[3] = q[3] /\ p[4] < q[4]
           /\ (YearDigits(p) = YearDigits(q)) <=>
                (p[1] = q[1] /\ p[2] = q[2] /\ p[3] = q[3] /\ p[4] = q[4])
           /\ (MonthDigits(p) < MonthDigits(q)) <=>
                (p[5] < q[5] \/ (p[5] = q[5] /\ p[6] < q[6]))
<1>1. PICK p1 \in 0 .. 9, p2 \in 0 .. 9, p3 \in 0 .. 9,
           p4 \in 0 .. 9, p5 \in 0 .. 9, p6 \in 0 .. 9 :
        p[1] = p1 /\ p[2] = p2 /\ p[3] = p3 /\ p[4] = p4 /\ p[5] = p5 /\ p[6] = p6
    BY DEF IsDigits
<1>2. PICK q1 \in 0 .. 9, q2 \in 0 .. 9, q3 \in 0 .. 9,
           q4 \in 0 .. 9, q5 \in 0 .. 9, q6 \in 0 .. 9 :
        q[1] = q1 /\ q[2] = q2 /\ q[3] = q3 /\ q[4] = q4 /\ q[5] = q5 /\ q[6] = q6
    BY DEF IsDigits
<1>3. /\ YearDigits(p) = 1000 * p1 + 100 * p2 + 10 * p3 + p4
      /\ YearDigits(q) = 1000 * q1 + 100 * q2 + 10 * q3 + q4
      /\ MonthDigits(p) = 10 * p5 + p6
      /\ MonthDigits(q) = 10 * q5 + q6
    BY <1>1, <1>2 DEF YearDigits, MonthDigits
<1>4. (1000 * p1 + 100 * p2 + 10 * p3 + p4 < 1000 * q1 + 100 * q2 + 10 * q3 + q4) <=>
                \/ p1 < q1
                \/ p1 = q1 /\ p2 < q2
                \/ p1 = q1 /\ p2 = q2 /\ p3 < q3
                \/ p1 = q1 /\ p2 = q2 /\ p3 = q3 /\ p4 < q4
    BY SMTT(60)
<1>5. (1000 * p1 + 100 * p2 + 10 * p3 + p4 = 1000 * q1 + 100 * q2 + 10 * q3 + q4) <=>
                (p1 = q1 /\ p2 = q2 /\ p3 = q3 /\ p4 = q4)
    BY SMTT(60)
<1>6. (10 * p5 + p6 < 10 * q5 + q6) <=> (p5 < q5 \/ (p5 = q5 /\ p6 < q6))
    OBVIOUS
<1> QED
    BY <1>1, <1>2, <1>3, <1>4, <1>5, <1>6

(* The six digits of a name.                                                *)
LEMMA NameDigits ==
    ASSUME NEW ym \in Ym
    PROVE  /\ Len(partition_name(ym)) = 6
           /\ partition_name(ym)[1] = (ym.year \div 1000) % 10
           /\ partition_name(ym)[2] = (ym.year \div 100) % 10
           /\ partition_name(ym)[3] = (ym.year \div 10) % 10
           /\ partition_name(ym)[4] = (ym.year \div 1) % 10
           /\ partition_name(ym)[5] = (ym.month \div 10) % 10
           /\ partition_name(ym)[6] = (ym.month \div 1) % 10
<1> DEFINE y == Digits(ym.year, 4)
           m == Digits(ym.month, 2)
<1>1. ym.year \in Nat /\ ym.year <= 9999 /\ ym.month \in 1 .. 12
    BY DEF Ym
<1>2. /\ y = [k \in 1 .. 4 |-> (ym.year \div <<1000, 100, 10, 1>>[4 - 4 + k]) % 10]
      /\ m = [k \in 1 .. 2 |-> (ym.month \div <<1000, 100, 10, 1>>[4 - 2 + k]) % 10]
    BY DEF Digits
<1> HIDE DEF y, m
<1>3. /\ y \in Seq(Int) /\ Len(y) = 4
      /\ y[1] = (ym.year \div 1000) % 10 /\ y[2] = (ym.year \div 100) % 10
      /\ y[3] = (ym.year \div 10) % 10 /\ y[4] = (ym.year \div 1) % 10
    <2>1. \A k \in 1 .. 4 : y[k] \in Int
        BY <1>1, <1>2
    <2> QED
        BY <1>1, <1>2, <2>1
<1>4. /\ m \in Seq(Int) /\ Len(m) = 2
      /\ m[1] = (ym.month \div 10) % 10 /\ m[2] = (ym.month \div 1) % 10
    <2>1. \A k \in 1 .. 2 : m[k] \in Int
        BY <1>1, <1>2
    <2> QED
        BY <1>1, <1>2, <2>1
<1>5. /\ Len(y \o m) = 6
      /\ \A i \in 1 .. 6 : (y \o m)[i] = IF i <= 4 THEN y[i] ELSE m[i - 4]
    <2>1. y \in Seq(Int) /\ m \in Seq(Int)
        BY <1>3, <1>4
    <2>2. /\ Len(y \o m) = Len(y) + Len(m)
          /\ \A i \in 1 .. Len(y) + Len(m) :
                (y \o m)[i] = IF i <= Len(y) THEN y[i] ELSE m[i - Len(y)]
        BY <2>1, ConcatProperties
    <2>3. Len(y) = 4 /\ Len(m) = 2
        BY <1>3, <1>4
    <2> QED
        BY <2>2, <2>3
<1>6. partition_name(ym) = y \o m
    BY DEF partition_name, y, m
<1>7. /\ (y \o m)[1] = y[1] /\ (y \o m)[2] = y[2] /\ (y \o m)[3] = y[3]
      /\ (y \o m)[4] = y[4] /\ (y \o m)[5] = m[1] /\ (y \o m)[6] = m[2]
    BY <1>5
<1> QED
    BY <1>3, <1>4, <1>5, <1>6, <1>7

(* The digits give the month back.                                          *)
LEMMA NameValue ==
    ASSUME NEW ym \in Ym
    PROVE  /\ Len(partition_name(ym)) = 6
           /\ IsDigits(partition_name(ym))
           /\ YearDigits(partition_name(ym)) = ym.year
           /\ MonthDigits(partition_name(ym)) = ym.month
<1> DEFINE n == partition_name(ym)
<1>1. ym.year \in Nat /\ ym.year <= 9999 /\ ym.month \in 1 .. 12
    BY DEF Ym
<1>2. /\ Len(n) = 6
      /\ n[1] = (ym.year \div 1000) % 10 /\ n[2] = (ym.year \div 100) % 10
      /\ n[3] = (ym.year \div 10) % 10 /\ n[4] = (ym.year \div 1) % 10
      /\ n[5] = (ym.month \div 10) % 10 /\ n[6] = (ym.month \div 1) % 10
    BY NameDigits
<1> HIDE DEF n
<1>4. /\ n[1] \in 0 .. 9 /\ n[2] \in 0 .. 9 /\ n[3] \in 0 .. 9 /\ n[4] \in 0 .. 9
      /\ YearDigits(n) = ym.year
    BY <1>1, <1>2, FourDigits
<1>5. /\ n[5] \in 0 .. 9 /\ n[6] \in 0 .. 9
      /\ 10 * n[5] + n[6] = ym.month
    BY <1>1, <1>2
<1>6. MonthDigits(n) = ym.month
    BY <1>5 DEF MonthDigits
<1>7. IsDigits(n)
    BY <1>4, <1>5 DEF IsDigits
<1> QED
    BY <1>2, <1>4, <1>6, <1>7 DEF n

(* The order of the names is the order of the months: the padding makes the *)
(* first digit that differs the most significant one.                       *)
LEMMA NamesOrdered ==
    ASSUME NEW a \in Ym, NEW b \in Ym
    PROVE  NameBefore(partition_name(a), partition_name(b))
                <=> MonthNumber(a) < MonthNumber(b)
<1> DEFINE p == partition_name(a)
           q == partition_name(b)
           Before(k) == (\A j \in 1 .. k - 1 : p[j] = q[j]) /\ p[k] < q[k]
           LessYear == \/ p[1] < q[1]
                       \/ p[1] = q[1] /\ p[2] < q[2]
                       \/ p[1] = q[1] /\ p[2] = q[2] /\ p[3] < q[3]
                       \/ p[1] = q[1] /\ p[2] = q[2] /\ p[3] = q[3] /\ p[4] < q[4]
           SameYear == p[1] = q[1] /\ p[2] = q[2] /\ p[3] = q[3] /\ p[4] = q[4]
           LessMonth == p[5] < q[5] \/ (p[5] = q[5] /\ p[6] < q[6])
<1>1. /\ a.year \in Nat /\ a.month \in 1 .. 12
      /\ b.year \in Nat /\ b.month \in 1 .. 12
    BY DEF Ym
<1>2. /\ Len(p) = 6 /\ IsDigits(p) /\ YearDigits(p) = a.year /\ MonthDigits(p) = a.month
      /\ Len(q) = 6 /\ IsDigits(q) /\ YearDigits(q) = b.year /\ MonthDigits(q) = b.month
    BY NameValue
<1> HIDE DEF p, q
<1>3. NameBefore(p, q) <=> \E k \in 1 .. 6 : Before(k)
    <2>1. \A k \in 1 .. 6 : Before(k) <=>
            /\ \A j \in 1 .. k - 1 : j <= Len(p) /\ p[j] = q[j]
            /\ k > Len(p) \/ p[k] < q[k]
        BY <1>2
    <2> QED
        BY <1>2, <2>1 DEF NameBefore
<1>4. (\E k \in 1 .. 6 : Before(k)) <=> LessYear \/ (SameYear /\ LessMonth)
    OBVIOUS
<1>5. /\ (a.year < b.year) <=> LessYear
      /\ (a.year = b.year) <=> SameYear
      /\ (a.month < b.month) <=> LessMonth
    BY <1>2, DigitOrder
<1> HIDE DEF Before, LessYear, SameYear, LessMonth
<1>6. (MonthNumber(a) < MonthNumber(b)) <=>
            (a.year < b.year \/ (a.year = b.year /\ a.month < b.month))
    BY <1>1 DEF MonthNumber
<1> QED
    BY <1>3, <1>4, <1>5, <1>6 DEF p, q

(* Two months never share a name.                                           *)
LEMMA NamesApart ==
    ASSUME NEW a \in Ym, NEW b \in Ym, partition_name(a) = partition_name(b)
    PROVE  a = b
<1>1. /\ a = [year |-> a.year, month |-> a.month]
      /\ b = [year |-> b.year, month |-> b.month]
    BY DEF Ym
<1>2. a.year = b.year /\ a.month = b.month
    BY NameValue
<1> QED
    BY <1>1, <1>2

-----------------------------------------------------------------------------
(* The inductive invariant.                                                 *)

Clock ==
    /\ zone \in {-1, 0, 1} /\ zone \in Zones
    /\ now \in Nat /\ now >= 4 /\ until \in Nat /\ now <= until
    /\ (until + 1) \div 2 <= DaysBeforeYear(9999)

Plain == \A p \in parts : \E ym \in Ym : p = MonthPartition(ym)

LocalMonth == current_month(LocalDate)

(* The two months of the last pass that succeeded have their partitions for *)
(* as long as they are not over where the database is.                      *)
Prepared ==
    SoundWindow =>
        \A ym \in {ensured, next_month(ensured)} :
            MonthNumber(LocalMonth) <= MonthNumber(ym) => MonthPartition(ym) \in parts

UpkeepInv == Clock /\ IsMonth(ensured) /\ Plain /\ Prepared

(* The months of four-digit years are months.                              *)
LEMMA YmIsMonth == \A ym \in Ym : IsMonth(ym)
BY DEF Ym, IsMonth

(* The bounds of a month's partition, and what the listing reads back.      *)
LEMMA PartitionFacts ==
    ASSUME zone \in {-1, 0, 1}, NEW ym, IsMonth(ym)
    PROVE  LET p == MonthPartition(ym)
               s == Ordinal(FirstOf(ym))
               e == Ordinal(FirstOf(next_month(ym)))
           IN  /\ s \in Nat \ {0} /\ e \in Nat \ {0}
               /\ e = s + DaysIn(ym.year, ym.month)
               /\ DaysIn(ym.year, ym.month) \in 28 .. 31
               /\ DOMAIN p = {"name", "from", "to"}
               /\ p.name = partition_name(ym)
               /\ p.from = 2 * s - zone /\ p.to = 2 * e - zone
               /\ (p.from + zone) \div 2 = s
               /\ (p.to + zone) \div 2 = e
               /\ current_month(DateOf(s)) = ym
               /\ Ordinal(DateOf(e)) = e
<1> DEFINE p == MonthPartition(ym)
           s == Ordinal(FirstOf(ym))
           e == Ordinal(FirstOf(next_month(ym)))
<1>1. /\ DaysIn(ym.year, ym.month) \in 28 .. 31
      /\ s = DaysBeforeYear(ym.year) + DaysBeforeMonth(ym.year, ym.month) + 1
      /\ DaysBeforeYear(ym.year) \in Nat /\ DaysBeforeMonth(ym.year, ym.month) \in Nat
    BY MonthFacts
<1>2. /\ month_range(ym).start = FirstOf(ym)
      /\ month_range(ym).end = FirstOf(next_month(ym))
    BY DEF month_range, next_month
<1>3. e = s + DaysIn(ym.year, ym.month)
    BY <1>2, RangesMeet
<1>4. p = [name |-> partition_name(ym), from |-> 2 * s - zone, to |-> 2 * e - zone]
    BY <1>2 DEF MonthPartition, Partition, Instant
<1> HIDE DEF s, e, p
<1>5. s \in Nat \ {0} /\ e \in Nat \ {0}
    BY <1>1, <1>3
<1>6. /\ DOMAIN p = {"name", "from", "to"} /\ p.name = partition_name(ym)
      /\ p.from = 2 * s - zone /\ p.to = 2 * e - zone
    BY <1>4
<1>7. (p.from + zone) \div 2 = s /\ (p.to + zone) \div 2 = e
    BY <1>5, <1>6
<1>8. current_month(DateOf(s)) = ym
    BY <1>1, <1>5, MonthOfDay DEF s
<1>9. Ordinal(DateOf(e)) = e
    BY <1>5, DateOfOrdinal
<1> QED
    BY <1>1, <1>3, <1>5, <1>6, <1>7, <1>8, <1>9 DEF s, e, p

(* The days of the clock, in UTC and in the database's zone.                *)
LEMMA DayFacts ==
    ASSUME Clock
    PROVE  /\ now \div 2 \in Nat \ {0} /\ now \div 2 <= DaysBeforeYear(9999)
           /\ (now + zone) \div 2 \in Nat \ {0}
           /\ (now + zone) \div 2 <= DaysBeforeYear(9999)
           /\ current_month(UtcDate) \in Ym /\ next_month(current_month(UtcDate)) \in Ym
           /\ LocalMonth \in Ym /\ next_month(LocalMonth) \in Ym
<1>1. DaysBeforeYear(9999) \in Nat
    BY YearLength
<1>2. /\ now \div 2 \in Nat \ {0} /\ now \div 2 <= DaysBeforeYear(9999)
      /\ (now + zone) \div 2 \in Nat \ {0} /\ (now + zone) \div 2 <= DaysBeforeYear(9999)
    BY <1>1 DEF Clock
<1>3. current_month(UtcDate) \in Ym /\ next_month(current_month(UtcDate)) \in Ym
    BY <1>2, YearBound DEF UtcDate
<1>4. LocalMonth \in Ym /\ next_month(LocalMonth) \in Ym
    BY <1>2, YearBound DEF LocalMonth, LocalDate
<1> QED
    BY <1>2, <1>3, <1>4

-----------------------------------------------------------------------------
(* init.sql's months are the service's.                                     *)
LEMMA SeedIsPlain ==
    ASSUME NEW today, IsMonth(current_month(today))
    PROVE  {Partition(s.name, s.start, s.end) : s \in InitSeed(today)}
                = {MonthPartition(current_month(today)),
                   MonthPartition(next_month(current_month(today)))}
<1> DEFINE cur == current_month(today)
           nxt == next_month(cur)
<1>1. InitSeed(today) =
        {SeedMonth(partition_name(cur), FirstOf(cur), FirstOf(nxt)),
         SeedMonth(partition_name(nxt), FirstOf(nxt), FirstOf(next_month(nxt)))}
    <2>1. cur \in [year : Nat \ {0}, month : 1 .. 12]
        BY DEF IsMonth
    <2>2. nxt = IF cur.month = 12
                THEN [year |-> cur.year + 1, month |-> 1]
                ELSE [cur EXCEPT !.month = @ + 1]
        BY <2>1 DEF next_month
    <2>3. nxt \in [year : Nat \ {0}, month : 1 .. 12]
        BY <2>1 DEF next_month
    <2>4. next_month(nxt) = IF nxt.month = 12
                            THEN [year |-> nxt.year + 1, month |-> 1]
                            ELSE [nxt EXCEPT !.month = @ + 1]
        BY <2>3 DEF next_month
    <2>5. cur = [year |-> today.year, month |-> today.month]
        BY DEF current_month
    <2> HIDE DEF cur, nxt
    <2> QED
        BY <2>2, <2>4, <2>5 DEF InitSeed
<1>2. \A ym : SeedMonth(partition_name(ym), FirstOf(ym), FirstOf(next_month(ym)))
                = [name |-> partition_name(ym), start |-> month_range(ym).start,
                   end |-> month_range(ym).end]
    BY DEF SeedMonth, month_range, next_month
<1> DEFINE Seed(ym) == [name |-> partition_name(ym), start |-> month_range(ym).start,
                        end |-> month_range(ym).end]
<1>3. InitSeed(today) = {Seed(cur), Seed(nxt)}
    BY <1>1, <1>2
<1>4. \A ym : Partition(Seed(ym).name, Seed(ym).start, Seed(ym).end) = MonthPartition(ym)
    BY DEF MonthPartition
<1> HIDE DEF cur, nxt, Seed
<1>5. {Partition(s.name, s.start, s.end) : s \in {Seed(cur), Seed(nxt)}}
        = {MonthPartition(cur), MonthPartition(nxt)}
    BY <1>4
<1> QED
    BY <1>3, <1>5 DEF cur, nxt

(* Deployment on any date: the seed of init.sql is the service's own.      *)
LEMMA UpkeepInit == Init => UpkeepInv
<1> SUFFICES ASSUME Init PROVE UpkeepInv
    OBVIOUS
<1>1. PICK x \in Starts, h \in {0, 1} : now = 2 * Ordinal(x) + h
    BY DEF Init
<1>2. /\ IsDate(x) /\ Ordinal(x) > 1 /\ Ordinal(x) + Horizon < DaysBeforeYear(9999)
      /\ Horizon \in Nat /\ until = now + Horizon /\ zone \in {-1, 0, 1} /\ zone \in Zones
    BY CivilUpkeepAssumption DEF Init
<1>3. Ordinal(x) \in Nat
    <2>1. x.year \in Nat \ {0} /\ x.month \in 1 .. 12 /\ x.day \in 1 .. 31
        BY <1>2 DEF IsDate
    <2>2. DaysBeforeYear(x.year) \in Nat /\ DaysBeforeMonth(x.year, x.month) \in Nat
        BY <2>1, YearLength, MonthLength
    <2> QED
        BY <2>1, <2>2 DEF Ordinal
<1>4. DaysBeforeYear(9999) \in Nat
    BY YearLength
<1>5. Clock
    <2>1. /\ now \in Nat /\ now >= 4 /\ until \in Nat /\ now <= until
          /\ (until + 1) \div 2 <= DaysBeforeYear(9999)
        BY <1>1, <1>2, <1>3, <1>4
    <2> QED
        BY <1>2, <2>1 DEF Clock
<1>6. LocalMonth \in Ym /\ next_month(LocalMonth) \in Ym /\ IsMonth(LocalMonth)
    BY <1>5, DayFacts, YmIsMonth
<1>7. ensured = LocalMonth
    BY DEF Init, LocalMonth
<1>8. parts = {MonthPartition(LocalMonth), MonthPartition(next_month(LocalMonth))}
    <2>1. IsMonth(current_month(LocalDate))
        BY <1>6 DEF LocalMonth
    <2> QED
        BY <2>1, SeedIsPlain DEF Init, LocalMonth
<1>9. Plain
    BY <1>6, <1>8, Zenon DEF Plain
<1>10. Prepared
    BY <1>7, <1>8, Zenon DEF Prepared
<1> QED
    BY <1>5, <1>6, <1>7, <1>9, <1>10 DEF UpkeepInv

-----------------------------------------------------------------------------
(* A pass creates what the service would create, and nothing else.          *)
LEMMA CreateFacts ==
    ASSUME NEW ps, NEW ym
    PROVE  ps \subseteq Create(ps, ym) /\ Create(ps, ym) \subseteq ps \cup {MonthPartition(ym)}
BY DEF Create, MonthPartition

(* A partition that is to be kept is not dropped: its month is not over     *)
(* where the database is.                                                   *)
LEMMA NotOver ==
    ASSUME Clock, SoundWindow, NEW ym \in Ym, MonthNumber(LocalMonth) <= MonthNumber(ym)
    PROVE  Ordinal(parse_partition_end(BoundExpr(MonthPartition(ym))))
                > Ordinal(UtcDate) - RetentionDays
<1> DEFINE n == (now + zone) \div 2
           e == Ordinal(FirstOf(next_month(ym)))
<1>1. n \in Nat \ {0} /\ now \div 2 \in Nat \ {0} /\ LocalMonth \in Ym
    BY DayFacts
<1>2. /\ IsMonth(LocalMonth) /\ IsMonth(ym)
      /\ n < Ordinal(FirstOf(next_month(LocalMonth)))
      /\ Ordinal(FirstOf(next_month(LocalMonth))) \in Nat
    BY <1>1, DayInMonth, YmIsMonth DEF LocalMonth, LocalDate
<1>3. e \in Nat /\ Ordinal(DateOf(e)) = e
      /\ (MonthPartition(ym).to + zone) \div 2 = e
    BY <1>2, PartitionFacts DEF Clock
<1>4. Ordinal(FirstOf(next_month(LocalMonth))) <= e
    <2>1. /\ MonthNumber(LocalMonth) \in Nat /\ MonthNumber(ym) \in Nat
          /\ MonthNumbered(MonthNumber(LocalMonth)) = LocalMonth
          /\ MonthNumbered(MonthNumber(ym)) = ym
        BY <1>2, MonthNumbers
    <2>2. CASE MonthNumber(LocalMonth) = MonthNumber(ym)
        <3>1. LocalMonth = ym
            BY <2>1, <2>2
        <3> QED
            BY <1>2, <1>3, <3>1
    <2>3. CASE MonthNumber(LocalMonth) < MonthNumber(ym)
        <3>1. Ordinal(FirstOf(LocalMonth)) + DaysIn(LocalMonth.year, LocalMonth.month)
                <= Ordinal(FirstOf(ym))
            BY <1>2, <2>3, MonthsOrdered
        <3>2. Ordinal(FirstOf(next_month(LocalMonth)))
                = Ordinal(FirstOf(LocalMonth)) + DaysIn(LocalMonth.year, LocalMonth.month)
            BY <1>2, PartitionFacts DEF Clock
        <3>3. /\ Ordinal(FirstOf(ym)) \in Nat
              /\ e = Ordinal(FirstOf(ym)) + DaysIn(ym.year, ym.month)
              /\ DaysIn(ym.year, ym.month) \in 28 .. 31
            BY <1>2, PartitionFacts DEF Clock
        <3> QED
            BY <1>2, <3>1, <3>2, <3>3
    <2> QED
        BY <2>1, <2>2, <2>3
<1>5. Ordinal(UtcDate) = now \div 2
    BY <1>1, DateOfOrdinal DEF UtcDate
<1>6. Ordinal(parse_partition_end(BoundExpr(MonthPartition(ym)))) = e
    BY <1>3 DEF parse_partition_end, BoundExpr
<1> HIDE DEF e
<1>7. e > now \div 2 - RetentionDays
    <2>1. n < e
        BY <1>1, <1>2, <1>3, <1>4
    <2>2. /\ now \in Nat /\ zone \in {-1, 0, 1} /\ RetentionDays \in Nat
          /\ zone < 0 => RetentionDays >= 1
        BY CivilUpkeepAssumption DEF Clock, SoundWindow
    <2> QED
        BY <1>3, <2>1, <2>2
<1> QED
    BY <1>5, <1>6, <1>7

(* From half days to days, in every zone.                                  *)
LEMMA Halves ==
    \A n, m, u \in Nat, z \in {-1, 0, 1} :
        n >= 4 /\ n <= m /\ m <= u =>
            /\ (n + z) \div 2 \in Nat \ {0} /\ (m + z) \div 2 \in Nat \ {0}
            /\ (n + z) \div 2 <= (m + z) \div 2
            /\ (m + z) \div 2 <= (u + 1) \div 2
            /\ (u + 1) \div 2 \in Nat
<1> SUFFICES ASSUME NEW n \in Nat, NEW m \in Nat, NEW u \in Nat, NEW z \in {-1, 0, 1},
                    n >= 4, n <= m, m <= u
             PROVE  /\ (n + z) \div 2 \in Nat \ {0} /\ (m + z) \div 2 \in Nat \ {0}
                    /\ (n + z) \div 2 <= (m + z) \div 2
                    /\ (m + z) \div 2 <= (u + 1) \div 2
                    /\ (u + 1) \div 2 \in Nat
    OBVIOUS
<1>1. CASE z = -1
    BY <1>1
<1>2. CASE z = 0
    BY <1>2
<1>3. CASE z = 1
    BY <1>3
<1> QED
    BY <1>1, <1>2, <1>3

(* Every pass of _ensure_partitions and of the daily drop keeps it.        *)
LEMMA UpkeepStep == UpkeepInv /\ [Next]_vars => UpkeepInv'
<1> SUFFICES ASSUME UpkeepInv, [Next]_vars PROVE UpkeepInv'
    OBVIOUS
<1> USE DEF UpkeepInv
<1>0. zone' = zone /\ until' = until
    BY DEF Next, Tick, Ensure, Drop, vars
<1>1. \A ym : MonthPartition(ym)' = MonthPartition(ym)
    BY <1>0 DEF MonthPartition, Partition, Instant
<1>2. now' \in Nat /\ now <= now' /\ now' <= until
    BY DEF Next, Tick, Ensure, Drop, vars, Clock
<1>3. Clock'
    BY <1>0, <1>2 DEF Clock
<1> DEFINE day == (now + zone) \div 2
           later == (now' + zone) \div 2
<1>4. /\ day \in Nat \ {0} /\ later \in Nat \ {0} /\ day <= later
      /\ later <= DaysBeforeYear(9999)
      /\ LocalMonth = current_month(DateOf(day))
      /\ LocalMonth' = current_month(DateOf(later))
    <2>1. /\ now \in Nat /\ now >= 4 /\ until \in Nat /\ zone \in {-1, 0, 1}
          /\ (until + 1) \div 2 <= DaysBeforeYear(9999)
        BY DEF Clock
    <2>2. DaysBeforeYear(9999) \in Nat
        BY YearLength
    <2>3. /\ day \in Nat \ {0} /\ later \in Nat \ {0} /\ day <= later
          /\ later <= DaysBeforeYear(9999)
        <3>1. /\ (now + zone) \div 2 \in Nat \ {0} /\ (now' + zone) \div 2 \in Nat \ {0}
              /\ (now + zone) \div 2 <= (now' + zone) \div 2
              /\ (now' + zone) \div 2 <= (until + 1) \div 2
              /\ (until + 1) \div 2 \in Nat
            <4>1. now \in Nat /\ now' \in Nat /\ until \in Nat /\ zone \in {-1, 0, 1}
                  /\ now >= 4 /\ now <= now' /\ now' <= until
                BY <1>2, <2>1
            <4> QED
                BY <4>1, Halves, Zenon
        <3> QED
            BY <2>1, <2>2, <3>1
    <2> QED
        BY <1>0, <2>3 DEF LocalMonth, LocalDate
<1> HIDE DEF day, later
<1>4a. MonthNumber(LocalMonth) <= MonthNumber(LocalMonth')
    BY <1>4, MonthsGrow
<1>5. LocalMonth \in Ym /\ LocalMonth' \in Ym
    <2>1. LocalMonth \in Ym
        BY DayFacts
    <2>2. LocalMonth' \in Ym
        BY <1>4, YearBound
    <2> QED
        BY <2>1, <2>2
<1>6. MonthNumber(LocalMonth) \in Nat /\ MonthNumber(LocalMonth') \in Nat
    BY <1>5, YmIsMonth, MonthNumbers
<1>7. ASSUME parts \subseteq parts', ensured' = ensured
      PROVE  Prepared'
    <2> SUFFICES ASSUME SoundWindow', NEW ym \in {ensured, next_month(ensured)},
                        MonthNumber(LocalMonth') <= MonthNumber(ym)
                 PROVE  MonthPartition(ym) \in parts'
        BY <1>1, <1>7 DEF Prepared
    <2>1. SoundWindow
        BY <1>0 DEF SoundWindow
    <2>2. MonthNumber(ym) \in Nat
        BY MonthNumbers
    <2>3. MonthNumber(LocalMonth) <= MonthNumber(ym)
        BY <1>4a, <1>6, <2>2
    <2> QED
        BY <1>7, <2>1, <2>3 DEF Prepared
<1>8. CASE Tick
    BY <1>1, <1>3, <1>7, <1>8 DEF Tick, Plain
<1>9. CASE Ensure
    <2> DEFINE cur == current_month(UtcDate)
               nxt == next_month(cur)
    <2>1. cur \in Ym /\ nxt \in Ym
        BY DayFacts
    <2>2. parts' = Create(Create(parts, cur), nxt)
        BY <1>9 DEF Ensure
    <2> HIDE DEF cur, nxt
    <2>3. parts \subseteq parts' /\ parts' \subseteq parts \cup {MonthPartition(cur), MonthPartition(nxt)}
        BY <2>2, CreateFacts
    <2>4. \A p \in parts' : \E ym \in Ym : p = MonthPartition(ym)
        BY <2>1, <2>3 DEF Plain
    <2>5. Plain'
        BY <1>1, <2>4 DEF Plain
    <2>6. CASE ensured' = ensured
        BY <1>3, <1>7, <2>3, <2>5, <2>6
    <2>7. CASE ensured' = cur /\ NameTaken(parts', cur) /\ NameTaken(parts', nxt)
        <3>1. ASSUME NEW ym \in Ym, NameTaken(parts', ym)
              PROVE  MonthPartition(ym) \in parts'
            <4>1. PICK p \in parts' : p.name = partition_name(ym)
                BY <3>1 DEF NameTaken
            <4>2. PICK z \in Ym : p = MonthPartition(z)
                BY <2>4
            <4>3. partition_name(z) = partition_name(ym)
                BY <4>1, <4>2 DEF MonthPartition, Partition
            <4> QED
                BY <4>2, <4>3, NamesApart
        <3>2. MonthPartition(cur) \in parts' /\ MonthPartition(nxt) \in parts'
            BY <2>1, <2>7, <3>1
        <3>3. nxt = next_month(ensured')
            BY <2>7 DEF nxt
        <3>4. Prepared'
            BY <1>1, <2>7, <3>2, <3>3 DEF Prepared
        <3>5. IsMonth(ensured')
            BY <2>1, <2>7, YmIsMonth
        <3> QED
            BY <1>3, <2>5, <3>4, <3>5
    <2>8. ensured' = ensured \/ (ensured' = cur /\ NameTaken(parts', cur) /\ NameTaken(parts', nxt))
        BY <1>9 DEF Ensure, cur, nxt
    <2> QED
        BY <2>6, <2>7, <2>8
<1>10. CASE Drop
    <2>1. /\ parts' = {p \in parts : Ordinal(parse_partition_end(BoundExpr(p)))
                                        > Ordinal(UtcDate) - RetentionDays}
          /\ ensured' = ensured /\ now' = now
        BY <1>10 DEF Drop
    <2>2. Plain'
        BY <1>1, <2>1 DEF Plain
    <2>3. LocalMonth' = LocalMonth
        BY <1>0, <2>1 DEF LocalMonth, LocalDate
    <2>4. Prepared'
        <3> SUFFICES ASSUME SoundWindow', NEW ym \in {ensured, next_month(ensured)},
                            MonthNumber(LocalMonth) <= MonthNumber(ym)
                     PROVE  MonthPartition(ym) \in parts'
            BY <1>1, <2>1, <2>3 DEF Prepared
        <3>1. SoundWindow
            BY <1>0 DEF SoundWindow
        <3>2. MonthPartition(ym) \in parts
            BY <3>1 DEF Prepared
        <3>3. ym \in Ym
            <4>1. PICK z \in Ym : MonthPartition(ym) = MonthPartition(z)
                BY <3>2 DEF Plain
            <4>2. IsMonth(ym) /\ IsMonth(z)
                BY MonthNumbers, YmIsMonth
            <4>3. Ordinal(FirstOf(ym)) = Ordinal(FirstOf(z))
                BY <4>1, <4>2, PartitionFacts DEF Clock
            <4>4. ym = z
                BY <4>2, <4>3, PartitionFacts DEF Clock
            <4> QED
                BY <4>4
        <3> QED
            BY <2>1, <3>1, <3>2, <3>3, NotOver
    <2> QED
        BY <1>3, <2>1, <2>2, <2>4
<1>11. CASE UNCHANGED vars
    BY <1>1, <1>3, <1>7, <1>11 DEF vars, Plain
<1> QED
    BY <1>8, <1>9, <1>10, <1>11 DEF Next

(* The partitions are at all times months of the service, however the      *)
(* start-up passes and the daily runs follow each other.                   *)
THEOREM UpkeepInvariant == Spec => []UpkeepInv
BY UpkeepInit, UpkeepStep, PTL DEF Spec

-----------------------------------------------------------------------------
(* Times are naturals and every partition is an interval.                   *)
THEOREM UpkeepTypeOK == Spec => []TypeOK
<1>1. UpkeepInv => TypeOK
    <2> SUFFICES ASSUME UpkeepInv PROVE TypeOK
        OBVIOUS
    <2>1. zone \in {-1, 0, 1} /\ zone \in Zones
          /\ now \in Nat /\ until \in Nat /\ now <= until /\ IsMonth(ensured)
        BY DEF UpkeepInv, Clock
    <2>2. ASSUME NEW p \in parts
          PROVE  /\ DOMAIN p = {"name", "from", "to"}
                 /\ p.from \in Nat /\ p.to \in Nat /\ p.from < p.to
        <3>1. PICK ym \in Ym : p = MonthPartition(ym)
            BY DEF UpkeepInv, Plain
        <3> DEFINE s == Ordinal(FirstOf(ym))
                   e == Ordinal(FirstOf(next_month(ym)))
        <3>2. /\ DOMAIN p = {"name", "from", "to"}
              /\ p.from = 2 * s - zone /\ p.to = 2 * e - zone
              /\ s \in Nat \ {0} /\ e \in Nat \ {0}
              /\ e = s + DaysIn(ym.year, ym.month) /\ DaysIn(ym.year, ym.month) \in 28 .. 31
            BY <2>1, <3>1, YmIsMonth, PartitionFacts
        <3> QED
            BY <2>1, <3>2
    <2> QED
        BY <2>1, <2>2 DEF TypeOK
<1> QED
    BY <1>1, UpkeepInvariant, PTL

(* init.sql and the service cut time alike, for every date on which the     *)
(* stack is deployed: each partition is one month of the calendar, with the *)
(* name and the bounds the service gives it, and the next one begins where  *)
(* it ends.                                                                 *)
THEOREM UpkeepMonthsTile == Spec => []MonthsTile
<1>1. UpkeepInv => MonthsTile
    <2> SUFFICES ASSUME UpkeepInv, NEW p \in parts
                 PROVE  LET ym == current_month(DateOf((p.from + zone) \div 2))
                            r  == month_range(ym)
                        IN  /\ p = Partition(partition_name(ym), r.start, r.end)
                            /\ p.to = Instant(month_range(next_month(ym)).start)
                            /\ (p.to - p.from) \div 2 = DaysIn(ym.year, ym.month)
        BY DEF MonthsTile
    <2>1. PICK ym \in Ym : p = MonthPartition(ym)
        BY DEF UpkeepInv, Plain
    <2>2. zone \in {-1, 0, 1} /\ IsMonth(ym)
        BY YmIsMonth DEF UpkeepInv, Clock
    <2> DEFINE s == Ordinal(FirstOf(ym))
               e == Ordinal(FirstOf(next_month(ym)))
               days == DaysIn(ym.year, ym.month)
    <2>3. /\ (p.from + zone) \div 2 = s /\ current_month(DateOf(s)) = ym
          /\ p.from = 2 * s - zone /\ p.to = 2 * e - zone
          /\ s \in Nat \ {0} /\ e \in Nat \ {0} /\ e = s + days /\ days \in 28 .. 31
        BY <2>1, <2>2, PartitionFacts
    <2>4. current_month(DateOf((p.from + zone) \div 2)) = ym
        BY <2>3
    <2>5. p = Partition(partition_name(ym), month_range(ym).start, month_range(ym).end)
        BY <2>1 DEF MonthPartition
    <2>6. p.to = Instant(month_range(next_month(ym)).start)
        BY <2>3 DEF Instant, month_range
    <2> HIDE DEF s, e, days
    <2>7. (p.to - p.from) \div 2 = days
        BY <2>2, <2>3
    <2> QED
        BY <2>4, <2>5, <2>6, <2>7 DEF days
<1> QED
    BY <1>1, UpkeepInvariant, PTL

(* The listing by name visits the partitions in the order of time, whatever *)
(* months the table holds.                                                  *)
THEOREM UpkeepNamesInOrder == Spec => []NamesInOrder
<1>1. UpkeepInv => NamesInOrder
    <2> SUFFICES ASSUME UpkeepInv, NEW p \in parts, NEW q \in parts
                 PROVE  NameBefore(p.name, q.name) <=> p.from < q.from
        BY DEF NamesInOrder
    <2>1. PICK a \in Ym : p = MonthPartition(a)
        BY DEF UpkeepInv, Plain
    <2>2. PICK b \in Ym : q = MonthPartition(b)
        BY DEF UpkeepInv, Plain
    <2>3. zone \in {-1, 0, 1} /\ IsMonth(a) /\ IsMonth(b)
        BY YmIsMonth DEF UpkeepInv, Clock
    <2> DEFINE s == Ordinal(FirstOf(a))
               t == Ordinal(FirstOf(b))
    <2>4. /\ p.name = partition_name(a) /\ p.from = 2 * s - zone /\ s \in Nat
          /\ q.name = partition_name(b) /\ q.from = 2 * t - zone /\ t \in Nat
        BY <2>1, <2>2, <2>3, PartitionFacts
    <2>5. NameBefore(p.name, q.name) <=> MonthNumber(a) < MonthNumber(b)
        BY <2>4, NamesOrdered
    <2>6. /\ MonthNumber(a) \in Nat /\ MonthNumber(b) \in Nat
          /\ MonthNumbered(MonthNumber(a)) = a /\ MonthNumbered(MonthNumber(b)) = b
        BY <2>3, MonthNumbers
    <2>7. MonthNumber(a) < MonthNumber(b) => s < t
        BY <2>3, <2>4, MonthsOrdered, MonthFacts
    <2>8. MonthNumber(b) < MonthNumber(a) => t < s
        BY <2>3, <2>4, MonthsOrdered, MonthFacts
    <2>9. MonthNumber(a) = MonthNumber(b) => s = t
        BY <2>6
    <2> HIDE DEF s, t
    <2>10. MonthNumber(a) < MonthNumber(b) <=> s < t
        BY <2>4, <2>6, <2>7, <2>8, <2>9
    <2>11. p.from < q.from <=> s < t
        BY <2>3, <2>4
    <2> QED
        BY <2>5, <2>10, <2>11
<1> QED
    BY <1>1, UpkeepInvariant, PTL

(* With a window that is sound for the zone, a write in the month of the    *)
(* last pass that succeeded, or in the month after, finds its partition.    *)
THEOREM UpkeepWritesCovered == Spec => []WritesCovered
<1>1. UpkeepInv => WritesCovered
    <2> SUFFICES ASSUME UpkeepInv, SoundWindow,
                        MonthNumber(LocalMonth) - MonthNumber(ensured) \in {0, 1}
                 PROVE  \E p \in parts : p.from <= now /\ now < p.to
        BY DEF WritesCovered, LocalMonth
    <2> DEFINE n == (now + zone) \div 2
               s == Ordinal(FirstOf(LocalMonth))
               e == Ordinal(FirstOf(next_month(LocalMonth)))
    <2>1. n \in Nat \ {0} /\ LocalMonth \in Ym
        BY DayFacts DEF UpkeepInv
    <2>2. zone \in {-1, 0, 1} /\ now \in Nat /\ IsMonth(ensured) /\ IsMonth(LocalMonth)
        BY <2>1, YmIsMonth DEF UpkeepInv, Clock
    <2>3. LocalMonth \in {ensured, next_month(ensured)}
        <3>1. /\ MonthNumber(ensured) \in Nat /\ MonthNumber(LocalMonth) \in Nat
              /\ MonthNumbered(MonthNumber(ensured)) = ensured
              /\ MonthNumbered(MonthNumber(LocalMonth)) = LocalMonth
              /\ IsMonth(next_month(ensured))
              /\ MonthNumber(next_month(ensured)) = MonthNumber(ensured) + 1
              /\ MonthNumbered(MonthNumber(next_month(ensured))) = next_month(ensured)
            BY <2>2, MonthNumbers
        <3>2. \/ MonthNumber(LocalMonth) = MonthNumber(ensured)
              \/ MonthNumber(LocalMonth) = MonthNumber(next_month(ensured))
            BY <3>1
        <3>3. LocalMonth = ensured \/ LocalMonth = next_month(ensured)
            BY <3>1, <3>2
        <3> QED
            BY <3>3
    <2>4. MonthPartition(LocalMonth) \in parts
        <3>1. MonthNumber(LocalMonth) <= MonthNumber(LocalMonth)
            BY <2>2, MonthNumbers
        <3> QED
            BY <2>3, <3>1 DEF UpkeepInv, Prepared
    <2>5. /\ MonthPartition(LocalMonth).from = 2 * s - zone
          /\ MonthPartition(LocalMonth).to = 2 * e - zone
          /\ s \in Nat /\ e \in Nat
        BY <2>2, PartitionFacts
    <2>6. s <= n /\ n < e
        BY <2>1, DayInMonth DEF LocalMonth, LocalDate
    <2> HIDE DEF s, e
    <2>7. 2 * s - zone <= now /\ now < 2 * e - zone
        BY <2>1, <2>2, <2>5, <2>6
    <2> QED
        BY <2>4, <2>5, <2>7
<1> QED
    BY <1>1, UpkeepInvariant, PTL

(* What the daily run drops had ended RetentionDays before, up to the       *)
(* distance of a zone west of UTC.                                          *)
THEOREM UpkeepDroppedIsOld == Spec => DroppedIsOld
<1>1. UpkeepInv /\ [Next]_vars =>
        [\A p \in parts \ parts' :
            p.to + 2 * RetentionDays <= now + IF zone < 0 THEN -zone ELSE 0]_vars
    <2> SUFFICES ASSUME UpkeepInv, [Next]_vars, NEW p \in parts, p \notin parts'
                 PROVE  p.to + 2 * RetentionDays <= now + IF zone < 0 THEN -zone ELSE 0
        OBVIOUS
    <2>1. CASE Ensure
        <3>1. parts \subseteq parts'
            BY <2>1, CreateFacts DEF Ensure
        <3> QED
            BY <3>1
    <2>2. CASE Drop
        <3>1. PICK ym \in Ym : p = MonthPartition(ym)
            BY DEF UpkeepInv, Plain
        <3> DEFINE e == Ordinal(FirstOf(next_month(ym)))
        <3>2. zone \in {-1, 0, 1} /\ now \in Nat /\ RetentionDays \in Nat
            BY CivilUpkeepAssumption DEF UpkeepInv, Clock
        <3>3. /\ p.to = 2 * e - zone /\ e \in Nat
              /\ (p.to + zone) \div 2 = e /\ Ordinal(DateOf(e)) = e
            BY <3>1, <3>2, YmIsMonth, PartitionFacts
        <3>4. Ordinal(parse_partition_end(BoundExpr(p))) = e
            BY <3>3 DEF parse_partition_end, BoundExpr
        <3>5. Ordinal(UtcDate) = now \div 2
            BY DayFacts, DateOfOrdinal DEF UpkeepInv, UtcDate
        <3>6. ~ (e > now \div 2 - RetentionDays)
            BY <2>2, <3>4, <3>5 DEF Drop
        <3> HIDE DEF e
        <3>7. 2 * e - zone + 2 * RetentionDays <= now + IF zone < 0 THEN -zone ELSE 0
            BY <3>2, <3>3, <3>6
        <3> QED
            BY <3>3, <3>7
    <2>3. CASE Tick \/ UNCHANGED vars
        BY <2>3 DEF Tick, vars
    <2> QED
        BY <2>1, <2>2, <2>3 DEF Next
<1> QED
    BY <1>1, UpkeepInvariant, PTL DEF DroppedIsOld, Spec

-----------------------------------------------------------------------------
(* CivilUpkeep implements MonthlyUpkeep: the upkeep is arithmetic on months. *)

(* The partitions of two months have different names and disjoint ranges.   *)
LEMMA PartitionsApart ==
    ASSUME zone \in {-1, 0, 1}, NEW a \in Ym, NEW b \in Ym, a # b
    PROVE  /\ MonthPartition(a).name # MonthPartition(b).name
           /\ ~ (/\ MonthPartition(a).from < MonthPartition(b).to
                  /\ MonthPartition(b).from < MonthPartition(a).to)
<1> DEFINE sa == Ordinal(FirstOf(a))
           ea == Ordinal(FirstOf(next_month(a)))
           sb == Ordinal(FirstOf(b))
           eb == Ordinal(FirstOf(next_month(b)))
<1>1. IsMonth(a) /\ IsMonth(b)
    BY YmIsMonth
<1>2. /\ MonthPartition(a).name = partition_name(a)
      /\ MonthPartition(a).from = 2 * sa - zone /\ MonthPartition(a).to = 2 * ea - zone
      /\ sa \in Nat /\ ea \in Nat /\ ea = sa + DaysIn(a.year, a.month)
    BY <1>1, PartitionFacts
<1>3. /\ MonthPartition(b).name = partition_name(b)
      /\ MonthPartition(b).from = 2 * sb - zone /\ MonthPartition(b).to = 2 * eb - zone
      /\ sb \in Nat /\ eb \in Nat /\ eb = sb + DaysIn(b.year, b.month)
    BY <1>1, PartitionFacts
<1>4. MonthNumber(a) < MonthNumber(b) \/ MonthNumber(b) < MonthNumber(a)
    <2>1. /\ MonthNumber(a) \in Nat /\ MonthNumbered(MonthNumber(a)) = a
          /\ MonthNumber(b) \in Nat /\ MonthNumbered(MonthNumber(b)) = b
        BY <1>1, MonthNumbers
    <2>2. MonthNumber(a) # MonthNumber(b)
        BY <2>1
    <2> QED
        BY <2>1, <2>2
<1>5. ea <= sb \/ eb <= sa
    BY <1>1, <1>2, <1>3, <1>4, MonthsOrdered
<1> HIDE DEF sa, ea, sb, eb
<1>6. ~ (2 * sa - zone < 2 * eb - zone /\ 2 * sb - zone < 2 * ea - zone)
    BY <1>2, <1>3, <1>5
<1>7. MonthPartition(a).name # MonthPartition(b).name
    BY <1>2, <1>3, NamesApart
<1> QED
    BY <1>2, <1>3, <1>6, <1>7

(* CREATE TABLE IF NOT EXISTS does what it says: the month's own partition  *)
(* is there afterwards, for the name is taken by no other partition and the *)
(* range by no other name.                                                  *)
LEMMA CreateExact ==
    ASSUME zone \in {-1, 0, 1}, NEW ps, \A p \in ps : \E a \in Ym : p = MonthPartition(a),
           NEW ym \in Ym
    PROVE  Create(ps, ym) = ps \cup {MonthPartition(ym)}
<1> DEFINE new == MonthPartition(ym)
<1>1. new.name = partition_name(ym)
    BY YmIsMonth, PartitionFacts
<1>2. ASSUME NEW p \in ps, p # new
      PROVE  /\ p.name # partition_name(ym)
             /\ ~ (p.from < new.to /\ new.from < p.to)
    <2>1. PICK a \in Ym : p = MonthPartition(a)
        OBVIOUS
    <2>2. a # ym
        BY <1>2, <2>1
    <2> QED
        BY <1>1, <2>1, <2>2, PartitionsApart
<1>3. Create(ps, ym) = IF NameTaken(ps, ym) \/ Overlaps(ps, new) THEN ps ELSE ps \cup {new}
    BY DEF Create, MonthPartition
<1> HIDE DEF new
<1>4. CASE new \in ps
    <2>1. NameTaken(ps, ym)
        BY <1>1, <1>4 DEF NameTaken
    <2> QED
        BY <1>3, <1>4, <2>1 DEF new
<1>5. CASE new \notin ps
    <2>1. ~NameTaken(ps, ym) /\ ~Overlaps(ps, new)
        BY <1>2, <1>5 DEF NameTaken, Overlaps
    <2> QED
        BY <1>3, <2>1 DEF new
<1> QED
    BY <1>4, <1>5

(* The calendar of months by number, and the months that have a partition.  *)
StartOf == [n \in Nat |-> Ordinal(FirstOf(MonthNumbered(n)))]
Numbers == {MonthNamed(p.name) : p \in parts}

(* A partition's name is read as the number of its month, which begins and  *)
(* ends where the partition does.                                           *)
LEMMA NumberFacts ==
    ASSUME zone \in {-1, 0, 1}, NEW ym \in Ym
    PROVE  LET m == MonthNumber(ym) IN
           /\ MonthNamed(MonthPartition(ym).name) = m
           /\ m \in Nat /\ m + 1 \in Nat
           /\ MonthNumber(next_month(ym)) = m + 1
           /\ StartOf[m] = Ordinal(FirstOf(ym))
           /\ StartOf[m + 1] = Ordinal(FirstOf(next_month(ym)))
           /\ Ordinal(parse_partition_end(BoundExpr(MonthPartition(ym)))) = StartOf[m + 1]
<1> DEFINE m == MonthNumber(ym)
<1>1. IsMonth(ym)
    BY YmIsMonth
<1>2. MonthNamed(MonthPartition(ym).name) = m
    <2>1. MonthPartition(ym).name = partition_name(ym)
        BY <1>1, PartitionFacts
    <2>2. /\ YearDigits(partition_name(ym)) = ym.year
          /\ MonthDigits(partition_name(ym)) = ym.month
        BY NameValue
    <2> QED
        BY <2>1, <2>2 DEF MonthNamed, MonthNumber
<1>3. /\ m \in Nat /\ MonthNumbered(m) = ym
      /\ IsMonth(next_month(ym)) /\ MonthNumber(next_month(ym)) = m + 1
    BY <1>1, MonthNumbers
<1>4. MonthNumbered(m + 1) = next_month(ym)
    BY <1>3, MonthNumbers
<1> HIDE DEF m
<1>5. /\ m + 1 \in Nat
      /\ StartOf[m] = Ordinal(FirstOf(ym))
      /\ StartOf[m + 1] = Ordinal(FirstOf(next_month(ym)))
    BY <1>3, <1>4 DEF StartOf
<1>6. Ordinal(parse_partition_end(BoundExpr(MonthPartition(ym))))
        = Ordinal(FirstOf(next_month(ym)))
    BY <1>1, PartitionFacts DEF parse_partition_end, BoundExpr
<1> QED
    BY <1>2, <1>3, <1>5, <1>6 DEF m

(* A date lies in the month read off it.                                    *)
LEMMA DayInNumber ==
    ASSUME NEW n \in Nat \ {0}, current_month(DateOf(n)) \in Ym
    PROVE  LET m == MonthNumber(current_month(DateOf(n)))
           IN  StartOf[m] <= n /\ n < StartOf[m + 1]
<1> DEFINE ym == current_month(DateOf(n))
<1>1. /\ Ordinal(FirstOf(ym)) <= n /\ n < Ordinal(FirstOf(next_month(ym)))
    BY DayInMonth
<1>2. /\ MonthNumber(ym) \in Nat /\ MonthNumbered(MonthNumber(ym)) = ym
      /\ MonthNumber(next_month(ym)) = MonthNumber(ym) + 1
      /\ MonthNumbered(MonthNumber(next_month(ym))) = next_month(ym)
    BY YmIsMonth, MonthNumbers
<1> QED
    BY <1>1, <1>2 DEF StartOf

(* The months of a set of partitions.                                       *)
LEMMA NumbersOfTwo ==
    ASSUME zone \in {-1, 0, 1}, NEW a \in Ym, NEW b \in Ym
    PROVE  {MonthNamed(p.name) : p \in {MonthPartition(a), MonthPartition(b)}}
                = {MonthNumber(a), MonthNumber(b)}
<1>1. /\ MonthNamed(MonthPartition(a).name) = MonthNumber(a)
      /\ MonthNamed(MonthPartition(b).name) = MonthNumber(b)
    BY NumberFacts
<1> QED
    BY <1>1

(* The seed of init.sql: the month of the database's own date, which is a   *)
(* day off that of UTC at most, and the month after it.                     *)
LEMMA MonthsInit == Init => Upkeep!Init
<1> SUFFICES ASSUME Init PROVE Upkeep!Init
    OBVIOUS
<1>1. UpkeepInv
    BY UpkeepInit
<1>2. /\ LocalMonth \in Ym /\ next_month(LocalMonth) \in Ym
      /\ (now + zone) \div 2 \in Nat \ {0}
      /\ zone \in {-1, 0, 1} /\ now \in Nat
    BY <1>1, DayFacts DEF UpkeepInv, Clock
<1>3. parts = {MonthPartition(LocalMonth), MonthPartition(next_month(LocalMonth))}
    BY <1>2, YmIsMonth, SeedIsPlain DEF Init, LocalMonth
<1> DEFINE m == MonthNumber(LocalMonth)
           ahead == (now + zone) \div 2 - now \div 2
<1>4. Numbers = {m, m + 1}
    <2>1. Numbers = {m, MonthNumber(next_month(LocalMonth))}
        BY <1>2, <1>3, NumbersOfTwo DEF Numbers
    <2> QED
        BY <1>2, <2>1, NumberFacts
<1>5. StartOf[m] <= (now + zone) \div 2 /\ (now + zone) \div 2 < StartOf[m + 1]
    BY <1>2, DayInNumber DEF LocalMonth, LocalDate
<1>6. ahead \in {-1, 0, 1} /\ now \div 2 + ahead = (now + zone) \div 2
    <2>1. CASE zone = -1
        BY <1>2, <2>1
    <2>2. CASE zone = 0
        BY <1>2, <2>2
    <2>3. CASE zone = 1
        BY <1>2, <2>3
    <2> QED
        BY <1>2, <2>1, <2>2, <2>3
<1> HIDE DEF m, ahead
<1>7. /\ m \in Numbers /\ Numbers = {m, m + 1}
      /\ StartOf[m] <= now \div 2 + ahead /\ now \div 2 + ahead < StartOf[m + 1]
    BY <1>4, <1>5, <1>6
<1> QED
    BY <1>6, <1>7 DEF Upkeep!Init, Upkeep!InMonth, Numbers, StartOf

(* A pass: both months of the date in UTC are there afterwards.             *)
LEMMA MonthsEnsured == UpkeepInv /\ Ensure => Upkeep!Ensure
<1> SUFFICES ASSUME UpkeepInv, Ensure PROVE Upkeep!Ensure
    OBVIOUS
<1> DEFINE cur == current_month(UtcDate)
           nxt == next_month(cur)
           m == MonthNumber(cur)
<1>1. /\ cur \in Ym /\ nxt \in Ym /\ now \div 2 \in Nat \ {0}
      /\ zone \in {-1, 0, 1}
    BY DayFacts DEF UpkeepInv, Clock
<1>2. StartOf[m] <= now \div 2 /\ now \div 2 < StartOf[m + 1]
    BY <1>1, DayInNumber DEF UtcDate
<1>3. parts' = Create(Create(parts, cur), nxt) /\ now' = now
    BY DEF Ensure
<1> HIDE DEF cur
<1>4. parts' = parts \cup {MonthPartition(cur), MonthPartition(nxt)}
    <2>1. \A p \in parts : \E a \in Ym : p = MonthPartition(a)
        BY DEF UpkeepInv, Plain
    <2>2. Create(parts, cur) = parts \cup {MonthPartition(cur)}
        BY <1>1, <2>1, CreateExact
    <2>3. \A p \in parts \cup {MonthPartition(cur)} : \E a \in Ym : p = MonthPartition(a)
        BY <1>1, <2>1
    <2>4. Create(parts \cup {MonthPartition(cur)}, nxt)
            = (parts \cup {MonthPartition(cur)}) \cup {MonthPartition(nxt)}
        BY <1>1, <2>3, CreateExact
    <2> QED
        BY <1>3, <2>2, <2>4
<1>5. MonthNumber(nxt) = m + 1
    BY <1>1, NumberFacts
<1>6. {MonthNamed(p.name) : p \in parts'} = Numbers \cup {m, m + 1}
    <2>1. {MonthNamed(p.name) : p \in {MonthPartition(cur), MonthPartition(nxt)}} = {m, m + 1}
        BY <1>1, <1>5, NumbersOfTwo
    <2> QED
        BY <1>4, <2>1 DEF Numbers
<1> HIDE DEF m
<1>7. m \in {MonthNamed(p.name) : p \in parts'}
    BY <1>6
<1>8. (now \div 2)' = now \div 2
    BY <1>3
<1> QED
    BY <1>2, <1>6, <1>7, <1>8 DEF Upkeep!Ensure, Upkeep!InMonth, Numbers, StartOf

(* A retention run: what the text of a bound says is where the month after  *)
(* begins, so that exactly the months out of the window go.                 *)
LEMMA MonthsDropped == UpkeepInv /\ Drop => Upkeep!Drop
<1> SUFFICES ASSUME UpkeepInv, Drop PROVE Upkeep!Drop
    OBVIOUS
<1> DEFINE kept == {p \in parts : Ordinal(parse_partition_end(BoundExpr(p)))
                                    > Ordinal(UtcDate) - RetentionDays}
           left == {m \in Numbers : StartOf[m + 1] > now \div 2 - RetentionDays}
<1>1. parts' = kept /\ now' = now
    BY DEF Drop
<1>2. zone \in {-1, 0, 1} /\ Ordinal(UtcDate) = now \div 2
    BY DayFacts, DateOfOrdinal DEF UpkeepInv, Clock, UtcDate
<1>3. ASSUME NEW p \in parts
      PROVE  (p \in kept) <=> StartOf[MonthNamed(p.name) + 1] > now \div 2 - RetentionDays
    <2>1. PICK ym \in Ym : p = MonthPartition(ym)
        BY DEF UpkeepInv, Plain
    <2>2. Ordinal(parse_partition_end(BoundExpr(p))) = StartOf[MonthNamed(p.name) + 1]
        BY <1>2, <2>1, NumberFacts
    <2> QED
        BY <1>2, <2>2
<1> HIDE DEF kept
<1>4. {MonthNamed(p.name) : p \in kept} \subseteq left
    BY <1>1, <1>3 DEF Numbers, kept
<1>5. left \subseteq {MonthNamed(p.name) : p \in kept}
    <2> SUFFICES ASSUME NEW m \in left PROVE m \in {MonthNamed(p.name) : p \in kept}
        OBVIOUS
    <2>1. PICK p \in parts : m = MonthNamed(p.name)
        BY DEF Numbers
    <2> QED
        BY <1>3, <2>1
<1>6. {MonthNamed(p.name) : p \in parts'} = left
    BY <1>1, <1>4, <1>5
<1>7. (now \div 2)' = now \div 2
    BY <1>1
<1> QED
    BY <1>6, <1>7 DEF Upkeep!Drop, Numbers, StartOf

(* The clock moves by half days.                                            *)
LEMMA MonthsTick == UpkeepInv /\ Tick => Upkeep!Advance \/ UNCHANGED Upkeep!vars
<1> SUFFICES ASSUME UpkeepInv, Tick
             PROVE  Upkeep!Advance \/ UNCHANGED Upkeep!vars
    OBVIOUS
<1>1. now \in Nat /\ now' = now + 1 /\ parts' = parts
    BY DEF UpkeepInv, Clock, Tick
<1>2. now' \div 2 = now \div 2 \/ now' \div 2 = now \div 2 + 1
    BY <1>1
<1>3. {MonthNamed(p.name) : p \in parts'} = {MonthNamed(p.name) : p \in parts}
    BY <1>1
<1> QED
    BY <1>2, <1>3 DEF Upkeep!Advance, Upkeep!vars

(* The upkeep of a table on the civil calendar, with its names, its dates,  *)
(* its zones and its bounds read back as text, is that of MonthlyUpkeep, for *)
(* every start date, zone, horizon and window: a pass cannot fail over a    *)
(* name or an overlap, and a retention run drops what is out of the window, *)
(* all of it and nothing else.                                              *)
THEOREM UpkeepRefinement == Spec => UpkeepImplemented
<1>1. Init => Upkeep!Init
    BY MonthsInit
<1>2. UpkeepInv /\ [Next]_vars => [Upkeep!Next]_(Upkeep!vars)
    <2>1. CASE UNCHANGED vars
        BY <2>1 DEF vars, Upkeep!vars
    <2> QED
        BY <2>1, MonthsTick, MonthsEnsured, MonthsDropped DEF Next, Upkeep!Next
<1> QED
    BY <1>1, <1>2, UpkeepInvariant, PTL DEF UpkeepImplemented, Upkeep!Spec, Spec

=============================================================================
