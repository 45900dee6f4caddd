------------------------- MODULE CivilRetentionProofs -------------------------
(***************************************************************************)
(* What is proved of Retention on every calendar, said of the one the       *)
(* service runs on: days are dates, the months are those _month_range cuts,  *)
(* for any first month and any number of months after it.                   *)
(***************************************************************************)
EXTENDS CivilProofs

CONSTANTS
    NumTables,      \* MANAGED_TABLES, the k-th of them written as k
    RetentionDays,  \* RETENTION_DAYS, per table
    Instances       \* the service processes that share the database

VARIABLES
    day, dbUp, parts, rows, proc, fired, pc, mon, today, tbl, listing, req,
    okCur, ensured

Ret == INSTANCE RetentionProofs WITH
    LastMonth <- NumMonths, MonthStart <- CivilStart, MonthOf <- CivilMonthOf

(* What Retention assumes of its constants besides the calendar.            *)
Configured ==
    /\ NumTables \in Nat \ {0}
    /\ RetentionDays \in [1 .. NumTables -> Int]

LEMMA RetentionAssumptions ==
    ASSUME Configured
    PROVE  Ret!CalendarAssumption /\ Ret!RetentionAssumption
<1>1. Ret!IsCalendar
    BY CivilIsCalendar
    DEF Cal!IsCalendar, Cal!Days, Cal!MonthEnd, Cal!NextMonth,
        Ret!IsCalendar, Ret!Days, Ret!MonthEnd, Ret!NextMonth
<1> QED
    BY <1>1 DEF Configured, Ret!CalendarAssumption, Ret!RetentionAssumption, Ret!Tables

-----------------------------------------------------------------------------
(* The m-th month of the period begins where its predecessor ends, and      *)
(* earlier months end before later ones begin.                              *)
LEMMA PeriodMonths ==
    /\ NumMonths \in Nat \ {0}
    /\ \A m \in 0 .. NumMonths :
        /\ Ordinal(month_range(NthMonth(m)).start) = CivilStart[m]
        /\ Ordinal(month_range(NthMonth(m)).end) = CivilStart[m + 1]
        /\ NthMonth(m + 1) = next_month(NthMonth(m))
    /\ \A m \in 0 .. NumMonths + 1 : CivilStart[m] \in Nat \ {0}
    /\ \A m, n \in 0 .. NumMonths + 1 : m < n => CivilStart[m] < CivilStart[n]
<1>1. NumMonths \in Nat \ {0}
    BY CivilPeriodAssumption
<1>2. \A m \in 0 .. NumMonths + 1 :
        /\ CivilStart[m] = Ordinal(FirstOf(NthMonth(m)))
        /\ CivilStart[m] \in Nat \ {0}
    BY <1>1, NthMonths DEF CivilStart
<1>3. \A m \in 0 .. NumMonths : NthMonth(m + 1) = next_month(NthMonth(m))
    BY <1>1, NthMonths
<1>4. \A ym : /\ month_range(ym).start = FirstOf(ym)
              /\ month_range(ym).end = FirstOf(next_month(ym))
    BY DEF month_range, next_month
<1>5. \A m, n \in 0 .. NumMonths + 1 : m < n => CivilStart[m] < CivilStart[n]
    BY CivilIsCalendar DEF Cal!IsCalendar
<1>6. ASSUME NEW m \in 0 .. NumMonths
      PROVE  /\ Ordinal(month_range(NthMonth(m)).start) = CivilStart[m]
             /\ Ordinal(month_range(NthMonth(m)).end) = CivilStart[m + 1]
    <2>1. m \in 0 .. NumMonths + 1 /\ m + 1 \in 0 .. NumMonths + 1
        BY <1>1
    <2> QED
        BY <1>2, <1>3, <1>4, <2>1
<1> QED
    BY <1>1, <1>2, <1>3, <1>5, <1>6

(* A day of the period lies in the month current_month reads off its date.  *)
LEMMA PeriodDays ==
    ASSUME NEW d \in Ret!Days
    PROVE  /\ CivilMonthOf[d] \in 0 .. NumMonths - 1
           /\ NthMonth(CivilMonthOf[d]) = current_month(DateOf(d))
           /\ CivilStart[CivilMonthOf[d]] <= d /\ d < CivilStart[CivilMonthOf[d] + 1]
           /\ d \in Nat \ {0}
<1> DEFINE i == CivilMonthOf[d]
           ym == current_month(DateOf(d))
<1>1. d \in CivilStart[0] .. CivilStart[NumMonths] - 1 /\ d \in Cal!Days
    BY DEF Ret!Days, Cal!Days
<1>2. CivilStart[0] \in Nat \ {0} /\ CivilStart[NumMonths] \in Nat \ {0}
    BY PeriodMonths
<1>3. d \in Nat \ {0}
    BY <1>1, <1>2
<1>4. i \in 0 .. NumMonths - 1 /\ CivilStart[i] <= d /\ d < CivilStart[i + 1]
    BY <1>1, CivilIsCalendar DEF Cal!IsCalendar, Cal!MonthEnd, Cal!NextMonth
<1>5. i = IndexOf(ym)
    BY <1>1 DEF CivilMonthOf
<1>6. IsMonth(ym)
    BY <1>3, DateOfOrdinal, DateInMonth DEF current_month
<1>7. NthMonth(i) = ym
    <2> HIDE DEF i, ym
    <2>1. MonthNumber(FirstMonth) \in Nat /\ MonthNumber(ym) \in Nat
          /\ MonthNumbered(MonthNumber(ym)) = ym
        BY <1>6, CivilPeriodAssumption, MonthNumbers
    <2>2. MonthNumber(FirstMonth) + i = MonthNumber(ym)
        BY <1>5, <2>1 DEF IndexOf
    <2> QED
        BY <2>1, <2>2 DEF NthMonth
<1> QED
    BY <1>3, <1>4, <1>7

-----------------------------------------------------------------------------
(* In the month of the last pass that succeeded over a table, and in the    *)
(* month next_month gives after it, the table has the partition of         *)
(* today's month, and today's date lies in its range, over any turn of a    *)
(* year and any February (partitioning.py:44-76).                           *)
CivilRollover ==
    \A t \in 1 .. NumTables :
        LET pass == NthMonth(ensured[t])
        IN  (/\ RetentionDays[t] >= 0
             /\ current_month(DateOf(day)) \in {pass, next_month(pass)})
                => \E m \in parts[t] :
                        /\ NthMonth(m) = current_month(DateOf(day))
                        /\ Ordinal(month_range(NthMonth(m)).start) <= day
                        /\ day < Ordinal(month_range(NthMonth(m)).end)

THEOREM CivilRolloverCorrect ==
    ASSUME Configured
    PROVE  Ret!Spec => /\ []Ret!RolloverCovered
                       /\ []CivilRollover
<1>1. Ret!Spec => []Ret!RolloverCovered
    BY RetentionAssumptions, Ret!RolloverCorrect
<1>2. Ret!Spec => []Ret!TypeOK
    BY RetentionAssumptions, Ret!TypeCorrect
<1>3. Ret!TypeOK /\ Ret!RolloverCovered => CivilRollover
    <2> SUFFICES ASSUME Ret!TypeOK, Ret!RolloverCovered, NEW t \in 1 .. NumTables,
                        RetentionDays[t] >= 0,
                        current_month(DateOf(day))
                            \in {NthMonth(ensured[t]), next_month(NthMonth(ensured[t]))}
                 PROVE  \E m \in parts[t] :
                            /\ NthMonth(m) = current_month(DateOf(day))
                            /\ Ordinal(month_range(NthMonth(m)).start) <= day
                            /\ day < Ordinal(month_range(NthMonth(m)).end)
        BY DEF CivilRollover
    <2> DEFINE i == CivilMonthOf[day]
               e == ensured[t]
    <2>1. /\ i \in 0 .. NumMonths - 1 /\ NthMonth(i) = current_month(DateOf(day))
          /\ CivilStart[i] <= day /\ day < CivilStart[i + 1]
        BY PeriodDays DEF Ret!TypeOK
    <2>2. e \in 0 .. NumMonths - 1
        BY DEF Ret!TypeOK, Ret!Tables
    <2>3. NumMonths \in Nat \ {0}
        BY PeriodMonths
    <2> HIDE DEF i, e
    <2>4. i = e \/ i = e + 1
        <3>1. NthMonth(i) = NthMonth(e) \/ NthMonth(i) = next_month(NthMonth(e))
            BY <2>1 DEF e
        <3>2. e \in Nat /\ e + 1 \in Nat /\ i \in Nat
            BY <2>1, <2>2, <2>3
        <3>3. NthMonth(i) = NthMonth(e) \/ NthMonth(i) = NthMonth(e + 1)
            BY <3>1, <3>2, NthMonths
        <3> QED
            BY <3>2, <3>3, NthMonths
    <2>5. i \in parts[t]
        BY <2>4 DEF Ret!RolloverCovered, Ret!HasPartition, Ret!NextMonth, Ret!Sound,
                    Ret!Tables, i, e
    <2>6. i \in 0 .. NumMonths
        BY <2>1, <2>3
    <2>7. /\ Ordinal(month_range(NthMonth(i)).start) = CivilStart[i]
          /\ Ordinal(month_range(NthMonth(i)).end) = CivilStart[i + 1]
        BY <2>6, PeriodMonths
    <2> QED
        BY <2>1, <2>5, <2>7
<1> QED
    BY <1>1, <1>2, <1>3, PTL

(* No step drops a partition whose month is not over by the calendar: what  *)
(* is dropped had ended by the date of the step (partitioning.py:208-217).  *)
CivilLivePartition ==
    [][\A t \in 1 .. NumTables : \A m \in parts[t] \ parts'[t] :
            RetentionDays[t] >= 0
                => Ordinal(month_range(NthMonth(m)).end) <= day]_(Ret!vars)

THEOREM CivilLivePartitionCorrect ==
    ASSUME Configured
    PROVE  Ret!Spec => /\ Ret!LivePartitionKept
                       /\ CivilLivePartition
<1>1. Ret!Spec => Ret!LivePartitionKept
    BY RetentionAssumptions, Ret!LivePartitionCorrect
<1>2. Ret!Spec => []Ret!TypeOK
    BY RetentionAssumptions, Ret!TypeCorrect
<1>3. ASSUME Ret!TypeOK,
             [\A t \in Ret!Tables : \A m \in parts[t] \ parts'[t] :
                    Ret!Sound(t) => m < CivilMonthOf[day]]_(Ret!vars)
      PROVE  [\A t \in 1 .. NumTables : \A m \in parts[t] \ parts'[t] :
                    RetentionDays[t] >= 0
                        => Ordinal(month_range(NthMonth(m)).end) <= day]_(Ret!vars)
    <2> SUFFICES ASSUME ~ UNCHANGED Ret!vars,
                        NEW t \in 1 .. NumTables, RetentionDays[t] >= 0,
                        NEW m \in parts[t] \ parts'[t]
                 PROVE  Ordinal(month_range(NthMonth(m)).end) <= day
        OBVIOUS
    <2> DEFINE i == CivilMonthOf[day]
    <2>1. /\ i \in 0 .. NumMonths - 1 /\ CivilStart[i] <= day /\ day \in Nat
        BY <1>3, PeriodDays DEF Ret!TypeOK
    <2>2. m < i
        BY <1>3 DEF Ret!Sound, Ret!Tables
    <2>3. m \in 0 .. NumMonths
        BY <1>3 DEF Ret!TypeOK, Ret!Months, Ret!Tables
    <2> HIDE DEF i
    <2>4. NumMonths \in Nat \ {0}
        BY PeriodMonths
    <2>5. m + 1 \in 0 .. NumMonths + 1 /\ i \in 0 .. NumMonths + 1 /\ (m + 1 < i \/ m + 1 = i)
        BY <2>1, <2>2, <2>3, <2>4
    <2>6. /\ Ordinal(month_range(NthMonth(m)).end) = CivilStart[m + 1]
          /\ CivilStart[m + 1] \in Nat /\ CivilStart[i] \in Nat
          /\ m + 1 < i => CivilStart[m + 1] < CivilStart[i]
        BY <2>3, <2>5, PeriodMonths
    <2>7. CivilStart[m + 1] <= CivilStart[i]
        BY <2>5, <2>6
    <2> QED
        BY <2>1, <2>6, <2>7
<1>4. Ret!Spec => CivilLivePartition
    BY <1>1, <1>2, <1>3, PTL DEF Ret!LivePartitionKept, CivilLivePartition
<1> QED
    BY <1>1, <1>4

(* On the civil calendar the service implements the event store: rows       *)
(* vanish only past the retention window of their table.                    *)
THEOREM CivilStoreRefinement ==
    ASSUME Configured
    PROVE  Ret!Spec => Ret!StoreImplemented
BY RetentionAssumptions, Ret!StoreRefinement
=============================================================================
