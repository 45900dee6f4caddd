--------------------------- MODULE RetentionProofs ---------------------------
(***************************************************************************)
(* Theorems about Retention, for every calendar, number of tables,          *)
(* retention windows and set of instances.                                  *)
(***************************************************************************)
EXTENDS Retention, TLAPS

-----------------------------------------------------------------------------
(* The calendar.                                                            *)

(* What is assumed of the calendar.                                         *)
LEMMA CalendarFacts ==
    /\ LastMonth \in Nat \ {0}
    /\ MonthStart \in [0 .. LastMonth + 1 -> Int]
    /\ \A m, n \in 0 .. LastMonth + 1 : m < n => MonthStart[m] < MonthStart[n]
    /\ MonthOf \in [Days -> 0 .. LastMonth - 1]
    /\ \A d \in Days : MonthStart[MonthOf[d]] <= d /\ d < MonthEnd(MonthOf[d])
BY CalendarAssumption DEF IsCalendar

(* Days and boundaries of months are integers.                              *)
LEMMA CalendarTypes ==
    /\ LastMonth \in Nat /\ LastMonth >= 1
    /\ \A m \in 0 .. LastMonth + 1 : MonthStart[m] \in Int
    /\ Days \subseteq Int
    /\ \A d \in Days : /\ MonthOf[d] \in 0 .. LastMonth - 1
                       /\ MonthOf[d] \in Months
                       /\ NextMonth(MonthOf[d]) \in Months
<1>1. LastMonth \in Nat /\ LastMonth >= 1
    BY CalendarFacts
<1>2. \A m \in 0 .. LastMonth + 1 : MonthStart[m] \in Int
    BY CalendarFacts
<1>3. Days \subseteq Int
    BY <1>1, <1>2 DEF Days
<1>4. \A d \in Days : MonthOf[d] \in 0 .. LastMonth - 1
    BY CalendarFacts
<1> QED
    BY <1>1, <1>2, <1>3, <1>4 DEF Months, NextMonth

(* Where a day lies in its month.                                           *)
LEMMA DayInMonth ==
    ASSUME NEW d \in Days
    PROVE  MonthStart[MonthOf[d]] <= d /\ d < MonthStart[MonthOf[d] + 1]
BY CalendarFacts DEF MonthEnd, NextMonth

(* A later month does not start earlier.                                    *)
LEMMA MonthStartMonotone ==
    ASSUME NEW m \in 0 .. LastMonth + 1, NEW n \in 0 .. LastMonth + 1, m <= n
    PROVE  MonthStart[m] <= MonthStart[n]
<1>1. MonthStart[m] \in Int /\ MonthStart[n] \in Int
    BY CalendarTypes
<1>2. CASE m = n
    BY <1>1, <1>2
<1>3. CASE m < n
    BY <1>1, <1>3, CalendarFacts
<1> QED
    BY <1>2, <1>3, CalendarTypes

(* The first modelled day is a day.                                         *)
LEMMA FirstDay == MonthStart[0] \in Days
<1>1. MonthStart[0] < MonthStart[LastMonth]
    BY CalendarTypes, CalendarFacts
<1> QED
    BY <1>1, CalendarTypes DEF Days

(* A later day never falls into an earlier month.                           *)
LEMMA MonthOfMonotone ==
    ASSUME NEW d \in Days, NEW e \in Days, d <= e
    PROVE  MonthOf[d] <= MonthOf[e]
<1> DEFINE after == MonthOf[e] + 1
<1>1. /\ after \in 0 .. LastMonth + 1
      /\ MonthOf[d] \in 0 .. LastMonth + 1
      /\ MonthStart[after] \in Int
      /\ MonthStart[MonthOf[d]] \in Int
      /\ d \in Int /\ e \in Int
    BY CalendarTypes
<1>2. e < MonthStart[after] /\ MonthStart[MonthOf[d]] <= d
    BY DayInMonth
<1>3. ~(after <= MonthOf[d])
    BY <1>1, <1>2, MonthStartMonotone
<1> QED
    BY <1>1, <1>3, CalendarTypes

(* The arithmetic retention rests on: a partition whose end is on or before *)
(* a sound cutoff of a day that has come is a partition of a past month.    *)
LEMMA ExpiredIsPast ==
    ASSUME NEW t \in Tables, Sound(t), NEW m \in Months,
           NEW d \in Days, NEW e \in Days, d <= e,
           Expired(t, m, d)
    PROVE  m < MonthOf[e]
<1> DEFINE after == MonthOf[e] + 1
<1>1. /\ after \in 0 .. LastMonth + 1
      /\ m + 1 \in 0 .. LastMonth + 1
      /\ MonthStart[after] \in Int
      /\ MonthStart[m + 1] \in Int
      /\ d \in Int /\ e \in Int
    BY CalendarTypes DEF Months
<1>2. e < MonthStart[after]
    BY DayInMonth
<1>3. /\ RetentionDays[t] \in Int /\ RetentionDays[t] >= 0
      /\ MonthStart[m + 1] <= d - RetentionDays[t]
    BY RetentionAssumption DEF Expired, MonthEnd, NextMonth, Sound
<1>4. ~(after <= m + 1)
    BY <1>1, <1>2, <1>3, MonthStartMonotone
<1> QED
    BY <1>1, <1>4, CalendarTypes DEF Months

(* Every row of an expired partition is older than the retention window.    *)
LEMMA ExpiredRowsAreOld ==
    ASSUME NEW t \in Tables, NEW d \in Days, NEW e \in Days, NEW r \in Days,
           d <= e, Expired(t, MonthOf[r], d)
    PROVE  e - r > RetentionDays[t]
<1> DEFINE after == MonthOf[r] + 1
<1>1. /\ MonthStart[after] \in Int
      /\ d \in Int /\ e \in Int /\ r \in Int
    BY CalendarTypes
<1>2. r < MonthStart[after]
    BY DayInMonth
<1>3. RetentionDays[t] \in Int /\ MonthStart[after] <= d - RetentionDays[t]
    BY RetentionAssumption DEF Expired, MonthEnd, NextMonth
<1> QED
    BY <1>1, <1>2, <1>3
-----------------------------------------------------------------------------
(* Type correctness.                                                        *)

(* The two ways a worker moves on keep the types of its variables.          *)
LEMMA ReturnTypes ==
    ASSUME TypeOK, NEW i \in Instances, Return(i)
    PROVE  /\ pc' \in [Instances -> {"idle", "month", "current", "next",
                                     "today", "list", "drop"}]
           /\ mon' \in [Instances -> 0 .. LastMonth - 1]
           /\ today' \in [Instances -> Days]
           /\ tbl' \in [Instances -> Tables]
           /\ listing' \in [Instances -> SUBSET Months]
<1>1. 0 \in 0 .. LastMonth - 1 /\ MonthStart[0] \in Days /\ 1 \in Tables
    BY CalendarTypes, FirstDay, RetentionAssumption DEF Tables
<1> QED
    BY <1>1 DEF TypeOK, Return

LEMMA NextTableTypes ==
    ASSUME TypeOK, NEW i \in Instances, NextTable(i)
    PROVE  /\ pc' \in [Instances -> {"idle", "month", "current", "next",
                                     "today", "list", "drop"}]
           /\ mon' \in [Instances -> 0 .. LastMonth - 1]
           /\ today' \in [Instances -> Days]
           /\ tbl' \in [Instances -> Tables]
           /\ listing' \in [Instances -> SUBSET Months]
<1>1. CASE tbl[i] = NumTables /\ Return(i)
    BY <1>1, ReturnTypes
<1>2. CASE /\ tbl[i] < NumTables
           /\ tbl' = [tbl EXCEPT ![i] = @ + 1]
           /\ pc' = [pc EXCEPT ![i] = "list"]
           /\ UNCHANGED <<mon, today, listing>>
    <2>1. tbl[i] + 1 \in Tables
        BY <1>2, RetentionAssumption DEF TypeOK, Tables
    <2> QED
        BY <1>2, <2>1 DEF TypeOK
<1> QED
    BY <1>1, <1>2 DEF NextTable

(* A CREATE adds a month to the partitions of one table or changes nothing. *)
LEMMA CreateTypes ==
    ASSUME TypeOK, NEW t \in Tables, NEW m \in Months, CreatePartition(t, m)
    PROVE  parts' \in [Tables -> SUBSET Months]
BY DEF TypeOK, CreatePartition

LEMMA TypeStep ==
    ASSUME TypeOK, [Next]_vars
    PROVE  TypeOK'
<1>1. CASE UNCHANGED vars
    BY <1>1 DEF TypeOK, vars, db, loop, ghost
<1>2. CASE Midnight
    BY <1>2 DEF TypeOK, Midnight, db, loop, ghost
<1>3. CASE DatabaseFails \/ DatabaseReturns
    BY <1>3 DEF TypeOK, DatabaseFails, DatabaseReturns, loop, ghost
<1>4. ASSUME NEW i \in Instances, Start(i) \/ Fire(i) \/ SkipRun(i) \/ Stop(i) \/ Exit(i)
      PROVE  TypeOK'
    BY <1>4 DEF TypeOK, Start, Fire, SkipRun, Stop, Exit, db, loop, ghost
<1>5. ASSUME NEW i \in Instances, Crash(i)
      PROVE  TypeOK'
    BY <1>5, ReturnTypes DEF TypeOK, Crash, db
<1>6. ASSUME NEW i \in Instances, ReadMonth(i)
      PROVE  TypeOK'
    <2>1. MonthOf[day] \in 0 .. LastMonth - 1 /\ 1 \in Tables
        BY CalendarTypes, RetentionAssumption DEF TypeOK, Tables
    <2> QED
        BY <1>6, <2>1 DEF TypeOK, ReadMonth, db, ghost
<1>7. ASSUME NEW i \in Instances, CreateCurrent(i)
      PROVE  TypeOK'
    <2>1. tbl[i] \in Tables /\ mon[i] \in Months
        BY CalendarTypes DEF TypeOK, Months
    <2>2. parts' \in [Tables -> SUBSET Months]
        BY <1>7, <2>1, CreateTypes DEF CreateCurrent
    <2> QED
        BY <1>7, <2>2 DEF TypeOK, CreateCurrent
<1>8. ASSUME NEW i \in Instances, CreateNext(i)
      PROVE  TypeOK'
    <2>1. /\ tbl[i] \in Tables
          /\ mon[i] \in 0 .. LastMonth - 1
          /\ NextMonth(mon[i]) \in Months
        BY CalendarTypes DEF TypeOK, Months, NextMonth
    <2>2. parts' \in [Tables -> SUBSET Months]
        BY <1>8, <2>1, CreateTypes DEF CreateNext
    <2>3. ensured' \in [Tables -> 0 .. LastMonth - 1]
        BY <1>8, <2>1 DEF TypeOK, CreateNext, RecordEnsured
    <2>4. /\ proc' \in [Instances -> {"down", "boot", "up", "stopping"}]
          /\ pc' \in [Instances -> {"idle", "month", "current", "next",
                                    "today", "list", "drop"}]
          /\ mon' \in [Instances -> 0 .. LastMonth - 1]
          /\ today' \in [Instances -> Days]
          /\ tbl' \in [Instances -> Tables]
          /\ listing' \in [Instances -> SUBSET Months]
        <3>1. CASE tbl[i] < NumTables
            <4>1. tbl[i] + 1 \in Tables
                BY <2>1, <3>1, RetentionAssumption DEF Tables
            <4> QED
                BY <1>8, <3>1, <4>1, RetentionAssumption DEF TypeOK, CreateNext
        <3>2. CASE tbl[i] = NumTables /\ proc[i] = "boot"
            <4>1. Return(i) /\ proc' = [proc EXCEPT ![i] = "up"]
                BY <1>8, <3>2, RetentionAssumption DEF CreateNext
            <4> QED
                BY <4>1, ReturnTypes DEF TypeOK
        <3>3. CASE tbl[i] = NumTables /\ proc[i] # "boot"
            BY <1>8, <3>3, CalendarTypes, RetentionAssumption DEF TypeOK, CreateNext
        <3> QED
            BY <2>1, <3>1, <3>2, <3>3, RetentionAssumption DEF Tables
    <2> QED
        BY <1>8, <2>2, <2>3, <2>4 DEF TypeOK, CreateNext
<1>9. ASSUME NEW i \in Instances, ReadToday(i)
      PROVE  TypeOK'
    <2>1. 1 \in Tables
        BY RetentionAssumption DEF Tables
    <2> QED
        BY <1>9, <2>1 DEF TypeOK, ReadToday, db, ghost
<1>10. ASSUME NEW i \in Instances, ListPartitions(i)
       PROVE  TypeOK'
    BY <1>10 DEF TypeOK, ListPartitions, db, ghost
<1>11. ASSUME NEW i \in Instances, ListFails(i) \/ EndOfListing(i)
       PROVE  TypeOK'
    BY <1>11, NextTableTypes DEF TypeOK, ListFails, EndOfListing, db, ghost
<1>12. ASSUME NEW i \in Instances, VisitPartition(i)
       PROVE  TypeOK'
    BY <1>12 DEF TypeOK, VisitPartition, DropTable, ghost
<1>13. ASSUME NEW i \in Instances, Stamp(i)
       PROVE  TypeOK'
    BY <1>13 DEF TypeOK, Stamp, Requests, db, loop, ghost
<1>14. ASSUME NEW i \in Instances, Persist(i) \/ PersistFails(i)
       PROVE  TypeOK'
    BY <1>14 DEF TypeOK, Persist, PersistFails, Requests, db, loop, ghost
<1> QED
    BY <1>1, <1>2, <1>3, <1>4, <1>5, <1>6, <1>7, <1>8, <1>9, <1>10, <1>11,
       <1>12, <1>13, <1>14
    DEF Next, Environment, Process, Ensure, Drop, Write

LEMMA TypeInit == Init => TypeOK
BY CalendarTypes, FirstDay, RetentionAssumption
DEF Init, TypeOK, InitialPartitions, Tables

(* Type correctness of every reachable state, for any calendar, number of   *)
(* tables, windows and instances (all of scheduler.py, partitioning.py).    *)
THEOREM TypeCorrect == Spec => []TypeOK
BY TypeInit, TypeStep, PTL DEF Spec
-----------------------------------------------------------------------------
(* How a step changes the partitions and the clock.                         *)

(* Days only pass.                                                          *)
LEMMA ClockStep ==
    ASSUME TypeOK, [Next]_vars
    PROVE  day \in Days /\ day' \in Days /\ day <= day'
<1>1. day' \in Days /\ day \in Days
    BY TypeStep DEF TypeOK
<1>2. day' = day \/ (day + 1 \in Days /\ day' = day + 1)
    BY DEF Next, Environment, Process, Ensure, Drop, Write, Midnight,
           DatabaseFails, DatabaseReturns, Start, Fire, SkipRun, Stop, Exit,
           Crash, ReadMonth, CreateCurrent, CreateNext, ReadToday,
           ListPartitions, ListFails, VisitPartition, EndOfListing, Stamp,
           Persist, PersistFails, vars
<1> QED
    BY <1>1, <1>2, CalendarTypes

(* A visited partition either stays, or it has expired by a cutoff of a day *)
(* that has come; if its table's window is sound, its month is over then.   *)
LEMMA VisitStep ==
    ASSUME TypeOK, TodayIsPast, NEW i \in Instances, VisitPartition(i)
    PROVE  /\ day' = day
           /\ \A t \in Tables : \A m \in parts[t] :
                (Sound(t) /\ m >= MonthOf[day]) => m \in parts'[t]
<1>1. PICK m \in listing[i] :
            IF Expired(tbl[i], m, today[i])
            THEN DropTable(tbl[i], m)
            ELSE UNCHANGED <<parts, rows>>
    BY DEF VisitPartition
<1>2. m \in Months /\ tbl[i] \in Tables /\ day \in Days /\ today[i] \in Days
      /\ today[i] <= day
    BY DEF TypeOK, TodayIsPast
<1>3. CASE Expired(tbl[i], m, today[i])
    <2>1. Sound(tbl[i]) => m < MonthOf[day]
        BY <1>2, <1>3, ExpiredIsPast
    <2>2. MonthOf[day] \in Int /\ m \in Int
        BY <1>2, CalendarTypes DEF Months
    <2> QED
        BY <1>1, <1>3, <2>1, <2>2 DEF DropTable, VisitPartition, TypeOK
<1>4. CASE ~Expired(tbl[i], m, today[i])
    BY <1>1, <1>4 DEF VisitPartition
<1> QED
    BY <1>3, <1>4

(* So every step keeps the partitions of the current and of later months,   *)
(* in the tables with a sound window.                                       *)
LEMMA LiveStep ==
    ASSUME TypeOK, TodayIsPast, [Next]_vars
    PROVE  \A t \in Tables : \A m \in parts[t] :
                (Sound(t) /\ m >= MonthOf[day]) => m \in parts'[t]
<1>1. CASE \E i \in Instances : VisitPartition(i)
    BY <1>1, VisitStep
<1>2. CASE \E i \in Instances : CreateCurrent(i) \/ CreateNext(i)
    BY <1>2 DEF CreateCurrent, CreateNext, CreatePartition, TypeOK
<1>3. CASE UNCHANGED parts
    BY <1>3
<1> QED
    BY <1>1, <1>2, <1>3
    DEF Next, Environment, Process, Ensure, Drop, Write, Midnight,
        DatabaseFails, DatabaseReturns, Start, Fire, SkipRun, Stop, Exit,
        Crash, ReadMonth, ReadToday, ListPartitions, ListFails, EndOfListing,
        Stamp, Persist, PersistFails, vars, db

-----------------------------------------------------------------------------
(* The inductive invariant.                                                 *)

LEMMA InvInit == Init => UpkeepInv
<1> SUFFICES ASSUME Init PROVE UpkeepInv
    OBVIOUS
<1>1. TypeOK
    BY TypeInit
<1>2. TodayIsPast
    BY CalendarTypes, FirstDay DEF Init, TodayIsPast, Days
<1>3. StampIsPast /\ HalfPassKept
    BY DEF Init, StampIsPast, HalfPassKept
<1>4. EnsuredKept
    BY DEF Init, EnsuredKept, InitialPartitions
<1> QED
    BY <1>1, <1>2, <1>3, <1>4 DEF UpkeepInv

LEMMA InvStep ==
    ASSUME UpkeepInv, [Next]_vars
    PROVE  UpkeepInv'
<1> USE DEF UpkeepInv
<1>1. TypeOK'
    BY TypeStep
<1>2. day \in Days /\ day' \in Days /\ day <= day'
    BY ClockStep
<1>3. MonthOf[day] <= MonthOf[day']
    BY <1>2, MonthOfMonotone
<1>4. /\ day \in Int /\ day' \in Int
      /\ MonthOf[day] \in Int /\ MonthOf[day'] \in Int
    BY <1>2, CalendarTypes
<1>5. \A t \in Tables : \A m \in parts[t] :
            (Sound(t) /\ m >= MonthOf[day]) => m \in parts'[t]
    BY LiveStep
<1>6. TodayIsPast'
    <2> SUFFICES ASSUME NEW i \in Instances PROVE today'[i] <= day'
        BY DEF TodayIsPast
    <2>1. today[i] \in Int /\ today[i] <= day
        BY CalendarTypes DEF TypeOK, TodayIsPast
    <2>2. today'[i] = today[i] \/ today'[i] = day \/ today'[i] = MonthStart[0]
        BY DEF TypeOK, Next, Environment, Process, Ensure, Drop, Write, Midnight,
           DatabaseFails, DatabaseReturns, Start, Fire, SkipRun, Stop, Exit,
           Crash, ReadMonth, CreateCurrent, CreateNext, ReadToday,
           ListPartitions, ListFails, VisitPartition, EndOfListing, Stamp,
           Persist, PersistFails, NextTable, Return, vars, loop
    <2>3. MonthStart[0] \in Int /\ MonthStart[0] <= day
        BY <1>2, CalendarTypes, FirstDay DEF Days
    <2> QED
        BY <1>2, <1>4, <2>1, <2>2, <2>3
<1>7. StampIsPast'
    <2> SUFFICES ASSUME NEW i \in Instances, req'[i] # NoRequest
                 PROVE  req'[i].day <= day'
        BY DEF StampIsPast
    <2>1. req'[i] = req[i] \/ \E t \in Tables : req'[i] = [tbl |-> t, day |-> day]
        BY DEF TypeOK, Next, Environment, Process, Ensure, Drop, Write, Midnight,
           DatabaseFails, DatabaseReturns, Start, Fire, SkipRun, Stop, Exit,
           Crash, ReadMonth, CreateCurrent, CreateNext, ReadToday,
           ListPartitions, ListFails, VisitPartition, EndOfListing, Stamp,
           Persist, PersistFails, vars
    <2>2. CASE req'[i] = req[i]
        <3>1. req[i].day <= day /\ req[i].day \in Int
            BY <2>2, CalendarTypes DEF StampIsPast, TypeOK, Requests
        <3> QED
            BY <1>2, <1>4, <2>2, <3>1
    <2>3. CASE \E t \in Tables : req'[i] = [tbl |-> t, day |-> day]
        BY <1>2, <2>3
    <2> QED
        BY <2>1, <2>2, <2>3
<1>8. EnsuredKept'
    <2> SUFFICES ASSUME NEW t \in Tables, Sound(t),
                        NEW m \in {ensured'[t], NextMonth(ensured'[t])},
                        m >= MonthOf[day']
                 PROVE  m \in parts'[t]
        BY DEF EnsuredKept, Sound
    <2>1. ensured[t] \in Int /\ ensured'[t] \in Int /\ m \in Int
        BY <1>1, CalendarTypes DEF TypeOK, NextMonth
    <2>2. CASE ensured'[t] = ensured[t]
        <3>1. m >= MonthOf[day]
            BY <1>3, <1>4, <2>1
        <3>2. m \in parts[t]
            BY <2>2, <3>1 DEF EnsuredKept
        <3> QED
            BY <1>5, <3>1, <3>2
    <2>3. CASE ensured'[t] # ensured[t]
        <3>1. PICK i \in Instances :
                /\ CreateNext(i)
                /\ tbl[i] = t
                /\ okCur[i] /\ dbUp
                /\ ensured'[t] = mon[i]
            BY <2>3 DEF TypeOK, Next, Environment, Process, Ensure, Drop, Write,
               Midnight, DatabaseFails, DatabaseReturns, Start, Fire, SkipRun,
               Stop, Exit, Crash, ReadMonth, CreateCurrent, CreateNext,
               RecordEnsured, ReadToday, ListPartitions, ListFails,
               VisitPartition, EndOfListing, Stamp, Persist, PersistFails,
               vars, ghost
        <3>2. m >= MonthOf[day]
            BY <1>3, <1>4, <2>1
        <3>3. CASE m = mon[i]
            <4>1. m \in parts[t]
                BY <3>1, <3>2, <3>3 DEF HalfPassKept, CreateNext
            <4> QED
                BY <1>5, <3>2, <4>1
        <3>4. CASE m = NextMonth(mon[i])
            BY <3>1, <3>4 DEF CreateNext, CreatePartition, TypeOK
        <3> QED
            BY <3>1, <3>3, <3>4
    <2> QED
        BY <2>2, <2>3
<1>9. HalfPassKept'
    <2> SUFFICES ASSUME NEW i \in Instances, Sound(tbl'[i]),
                        pc'[i] = "next", okCur'[i],
                        mon'[i] >= MonthOf[day']
                 PROVE  mon'[i] \in parts'[tbl'[i]]
        BY DEF HalfPassKept, Sound
    <2>1. CASE CreateCurrent(i)
        BY <2>1 DEF CreateCurrent, CreatePartition, TypeOK
    <2>2. CASE ~CreateCurrent(i)
        <3>1. /\ pc[i] = "next" /\ okCur[i]
              /\ mon'[i] = mon[i] /\ tbl'[i] = tbl[i]
            BY <2>2 DEF TypeOK, Next, Environment, Process, Ensure, Drop, Write,
               Midnight, DatabaseFails, DatabaseReturns, Start, Fire, SkipRun,
               Stop, Exit, Crash, ReadMonth, CreateCurrent, CreateNext,
               ReadToday, ListPartitions, ListFails, VisitPartition,
               EndOfListing, Stamp, Persist, PersistFails, NextTable, Return,
               vars, loop, ghost
        <3>2. mon[i] \in Int /\ tbl[i] \in Tables
            BY CalendarTypes DEF TypeOK
        <3>3. mon[i] >= MonthOf[day]
            BY <1>3, <1>4, <3>1, <3>2
        <3>4. mon[i] \in parts[tbl[i]]
            BY <3>1, <3>3 DEF HalfPassKept
        <3> QED
            BY <1>5, <3>1, <3>2, <3>3, <3>4
    <2> QED
        BY <2>1, <2>2
<1> QED
    BY <1>1, <1>6, <1>7, <1>8, <1>9

(* The invariant holds in every reachable state.                            *)
THEOREM UpkeepCorrect == Spec => []UpkeepInv
BY InvInit, InvStep, PTL DEF Spec

(* Writes survive the calendar boundary: one successful pass covers the     *)
(* month it read and the one after it (scheduler.py:171-178 against         *)
(* partitioning.py:208).                                                    *)
THEOREM RolloverCorrect == Spec => []RolloverCovered
<1>1. UpkeepInv => RolloverCovered
    BY CalendarTypes
    DEF UpkeepInv, TypeOK, EnsuredKept, RolloverCovered, HasPartition
<1> QED
    BY <1>1, UpkeepCorrect, PTL

(* No step drops a partition that can still be written to                   *)
(* (partitioning.py:208-217).                                               *)
THEOREM LivePartitionCorrect == Spec => LivePartitionKept
<1>1. ASSUME UpkeepInv, [Next]_vars
      PROVE  [\A t \in Tables : \A m \in parts[t] \ parts'[t] :
                    Sound(t) => m < MonthOf[day]]_vars
    <2> SUFFICES ASSUME NEW t \in Tables, Sound(t),
                        NEW m \in parts[t] \ parts'[t]
                 PROVE  m < MonthOf[day]
        OBVIOUS
    <2>1. ~(m >= MonthOf[day])
        BY <1>1, LiveStep DEF UpkeepInv
    <2>2. m \in Int /\ MonthOf[day] \in Int
        BY <1>1, CalendarTypes DEF UpkeepInv, TypeOK, Months
    <2> QED
        BY <2>1, <2>2
<1> QED
    BY <1>1, UpkeepCorrect, PTL DEF Spec, LivePartitionKept
-----------------------------------------------------------------------------
(* Refinement: every step of the service is a step of the event store.      *)

(* Dropping an expired partition purges rows past their window.             *)
LEMMA VisitPurges ==
    ASSUME UpkeepInv, NEW i \in Instances, VisitPartition(i)
    PROVE  [Store!Next]_(Store!vars)
<1>1. PICK m \in listing[i] :
            IF Expired(tbl[i], m, today[i])
            THEN DropTable(tbl[i], m)
            ELSE UNCHANGED <<parts, rows>>
    BY DEF VisitPartition
<1>2. /\ tbl[i] \in Tables
      /\ day \in Days /\ today[i] \in Days /\ today[i] <= day
      /\ rows \in [Tables -> SUBSET Days]
      /\ day' = day
    BY DEF UpkeepInv, TypeOK, TodayIsPast, VisitPartition
<1>3. CASE rows' = rows
    BY <1>2, <1>3 DEF Store!vars
<1>4. CASE rows' # rows
    <2> DEFINE old == {d \in rows[tbl[i]] : MonthOf[d] = m}
    <2>1. /\ Expired(tbl[i], m, today[i])
          /\ rows' = [rows EXCEPT ![tbl[i]] = {d \in @ : MonthOf[d] # m}]
        BY <1>1, <1>4 DEF DropTable
    <2>2. rows' = [rows EXCEPT ![tbl[i]] = @ \ old]
        BY <2>1
    <2>3. \A d \in old : day - d > RetentionDays[tbl[i]]
        BY <1>2, <2>1, ExpiredRowsAreOld
    <2>4. old \in SUBSET rows[tbl[i]]
        OBVIOUS
    <2> HIDE DEF old
    <2> QED
        BY <1>2, <2>2, <2>3, <2>4 DEF Store!Next, Store!Purge
<1> QED
    BY <1>3, <1>4

LEMMA StoreStep ==
    ASSUME UpkeepInv, [Next]_vars
    PROVE  [Store!Next]_(Store!vars)
<1>1. CASE \E i \in Instances : VisitPartition(i)
    BY <1>1, VisitPurges
<1>2. CASE Midnight
    BY <1>2, ClockStep DEF UpkeepInv, Midnight, db, Store!Next, Store!Advance
<1>3. ASSUME NEW i \in Instances, Persist(i)
      PROVE  Store!Append
    <2>1. req[i].tbl \in Tables /\ req[i].day \in Days /\ req[i].day <= day
        BY <1>3 DEF UpkeepInv, TypeOK, StampIsPast, Requests, Persist
    <2> QED
        BY <1>3, <2>1 DEF Persist, Store!Append
<1>4. CASE UNCHANGED <<day, rows>>
    BY <1>4 DEF Store!vars
<1> QED
    BY <1>1, <1>2, <1>3, <1>4
    DEF Next, Environment, Process, Ensure, Drop, Write, DatabaseFails,
        DatabaseReturns, Start, Fire, SkipRun, Stop, Exit, Crash, ReadMonth,
        CreateCurrent, CreateNext, ReadToday, ListPartitions, ListFails,
        EndOfListing, Stamp, PersistFails, vars, db, Store!Next

(* The service implements the store it promises: rows are only added, with  *)
(* a date that has come, and only removed past their retention window, by   *)
(* any number of instances, through any outage, crash and restart           *)
(* (scheduler.py:171-199, partitioning.py:208-217, api.py:352-355).         *)
THEOREM StoreRefinement == Spec => StoreImplemented
<1>1. Init => Store!Init
    BY DEF Init, Store!Init
<1>2. UpkeepInv /\ [Next]_vars => [Store!Next]_(Store!vars)
    BY StoreStep
<1> QED
    BY <1>1, <1>2, UpkeepCorrect, PTL DEF Spec, StoreImplemented, Store!Spec
=============================================================================
