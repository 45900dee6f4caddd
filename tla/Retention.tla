------------------------------ MODULE Retention ------------------------------
(***************************************************************************)
(* Monthly partitions and their daily upkeep: src/scheduler.py and          *)
(* src/partitioning.py, the writes of src/api.py that need a partition, and  *)
(* the partitions database/init.sql starts from.                            *)
(*                                                                         *)
(* Each instance is one service process.  Its worker (the lifespan handler  *)
(* during start-up, an executor thread afterwards) runs the upkeep as a      *)
(* sequence of database transactions; the clock, the other instances, the   *)
(* writes of the event loop and the failures of the database fall between   *)
(* any two of them.  The clock counts days: nothing here looks at a finer    *)
(* unit than a date, and the daily job runs at a time of the day of its own. *)
(***************************************************************************)
EXTENDS Calendar

CONSTANTS
    NumTables,      \* MANAGED_TABLES, the k-th of them written as k
    RetentionDays,  \* RETENTION_DAYS, per table
    Instances       \* the service processes that share the database

Tables == 1 .. NumTables

ASSUME RetentionAssumption ==
    /\ NumTables \in Nat \ {0}
    /\ RetentionDays \in [Tables -> Int]

(* RETENTION_DAYS takes any integer the environment variables give.  With a *)
(* negative window a table's cutoff lies in the future, and its daily run   *)
(* drops partitions it has just created.                                    *)
Sound(t) == RetentionDays[t] >= 0

VARIABLES
    day,      \* today, in UTC
    dbUp,     \* whether a statement sent to the database succeeds
    parts,    \* the partitions of each table, named by their month
    rows,     \* the days (created_at) each table holds rows of
    proc,     \* life cycle of each process
    fired,    \* whether the cron trigger of the day has passed
    pc,       \* where the upkeep stands
    mon,      \* the month _ensure_partitions read when it began
    today,    \* the date _drop_expired_partitions read when it began
    tbl,      \* the table of the current iteration
    listing,  \* the listed partitions the drop loop has not visited yet
    req,      \* the insert create_event is about to send, or none
    okCur,    \* history: the last current-month CREATE succeeded
    ensured   \* history: the last month a table had both CREATEs succeed in

db    == <<dbUp, parts, rows>>
loop  == <<pc, mon, today, tbl, listing>>
ghost == <<okCur, ensured>>
vars  == <<day, db, proc, fired, loop, req, ghost>>

NoRequest == [tbl |-> 0, day |-> MonthStart[0] - 1]

Requests == [tbl : Tables, day : Days]

TypeOK ==
    /\ day \in Days
    /\ dbUp \in BOOLEAN
    /\ parts \in [Tables -> SUBSET Months]
    /\ rows \in [Tables -> SUBSET Days]
    /\ proc \in [Instances -> {"down", "boot", "up", "stopping"}]
    /\ fired \in [Instances -> BOOLEAN]
    /\ pc \in [Instances -> {"idle", "month", "current", "next",
                             "today", "list", "drop"}]
    /\ mon \in [Instances -> 0 .. LastMonth - 1]
    /\ today \in [Instances -> Days]
    /\ tbl \in [Instances -> Tables]
    /\ listing \in [Instances -> SUBSET Months]
    /\ req \in [Instances -> Requests \cup {NoRequest}]
    /\ okCur \in [Instances -> BOOLEAN]
    /\ ensured \in [Tables -> 0 .. LastMonth - 1]

-----------------------------------------------------------------------------
(* Mutants of InitialPartitions: a month too many; the current one only.    *)
SeedThree(d) == {MonthOf[d], MonthOf[d] + 1, MonthOf[d] + 2}
SeedOne(d) == {MonthOf[d]}

(* init.sql leaves the partitions of the current and of the next month.     *)
InitialPartitions(d) == {MonthOf[d], NextMonth(MonthOf[d])}

Init ==
    /\ day \in Days
    /\ dbUp = TRUE
    /\ parts = [t \in Tables |-> InitialPartitions(day)]
    /\ rows = [t \in Tables |-> {}]
    /\ proc = [i \in Instances |-> "down"]
    /\ fired = [i \in Instances |-> FALSE]
    /\ pc = [i \in Instances |-> "idle"]
    /\ mon = [i \in Instances |-> 0]
    /\ today = [i \in Instances |-> MonthStart[0]]
    /\ tbl = [i \in Instances |-> 1]
    /\ listing = [i \in Instances |-> {}]
    /\ req = [i \in Instances |-> NoRequest]
    /\ okCur = [i \in Instances |-> FALSE]
    /\ ensured = [t \in Tables |-> MonthOf[day]]

-----------------------------------------------------------------------------
(* The environment.                                                         *)

(* Midnight.  The last modelled day stands for every day after it as well,  *)
(* and each of those days has a cron trigger of its own.                    *)
Midnight ==
    /\ day' = IF day + 1 \in Days THEN day + 1 ELSE day
    /\ fired' = [i \in Instances |-> FALSE]
    /\ UNCHANGED <<db, proc, loop, req, ghost>>

DatabaseFails ==
    /\ dbUp
    /\ dbUp' = FALSE
    /\ UNCHANGED <<day, parts, rows, proc, fired, loop, req, ghost>>

DatabaseReturns ==
    /\ ~dbUp
    /\ dbUp' = TRUE
    /\ UNCHANGED <<day, parts, rows, proc, fired, loop, req, ghost>>

-----------------------------------------------------------------------------
(* The life of a process.                                                   *)

(* lifespan, up to the scheduler's one-shot _ensure_partitions.  The probe  *)
(* of the database before it changes nothing, whatever its outcome.         *)
Start(i) ==
    /\ proc[i] = "down"
    /\ proc' = [proc EXCEPT ![i] = "boot"]
    /\ pc' = [pc EXCEPT ![i] = "month"]
    /\ UNCHANGED <<day, db, fired, mon, today, tbl, listing, req, ghost>>

(* The cron trigger fires: _daily_run hands _run_blocking to the executor.  *)
(* The event loop cannot get there while create_event occupies it.          *)
Fire(i) ==
    /\ proc[i] = "up"
    /\ req[i] = NoRequest
    /\ ~fired[i]
    /\ pc[i] = "idle"
    /\ fired' = [fired EXCEPT ![i] = TRUE]
    /\ pc' = [pc EXCEPT ![i] = "month"]
    /\ UNCHANGED <<day, db, proc, mon, today, tbl, listing, req, ghost>>

(* max_instances=1: the day's run is skipped while an earlier one is going. *)
(* A trigger missed by more than misfire_grace_time never fires either, and *)
(* is a Midnight with fired still FALSE.                                    *)
SkipRun(i) ==
    /\ proc[i] = "up"
    /\ req[i] = NoRequest
    /\ ~fired[i]
    /\ pc[i] # "idle"
    /\ fired' = [fired EXCEPT ![i] = TRUE]
    /\ UNCHANGED <<day, db, proc, loop, req, ghost>>

(* SIGTERM: uvicorn finishes the requests, then shutdown_scheduler stops    *)
(* the scheduler with wait=False; a run in the executor goes on.            *)
Stop(i) ==
    /\ proc[i] = "up"
    /\ req[i] = NoRequest
    /\ proc' = [proc EXCEPT ![i] = "stopping"]
    /\ UNCHANGED <<day, db, fired, loop, req, ghost>>

(* The interpreter joins its executor threads before it exits.              *)
Exit(i) ==
    /\ proc[i] = "stopping"
    /\ pc[i] = "idle"
    /\ proc' = [proc EXCEPT ![i] = "down"]
    /\ fired' = [fired EXCEPT ![i] = FALSE]
    /\ UNCHANGED <<day, db, loop, req, ghost>>

(* _run_blocking, or the start-up's _ensure_partitions, is over: its local  *)
(* variables are gone.                                                      *)
Return(i) ==
    /\ pc' = [pc EXCEPT ![i] = "idle"]
    /\ mon' = [mon EXCEPT ![i] = 0]
    /\ today' = [today EXCEPT ![i] = MonthStart[0]]
    /\ tbl' = [tbl EXCEPT ![i] = 1]
    /\ listing' = [listing EXCEPT ![i] = {}]

(* Killed: what was between two transactions is gone.                       *)
Crash(i) ==
    /\ proc[i] # "down"
    /\ proc' = [proc EXCEPT ![i] = "down"]
    /\ fired' = [fired EXCEPT ![i] = FALSE]
    /\ Return(i)
    /\ req' = [req EXCEPT ![i] = NoRequest]
    /\ okCur' = [okCur EXCEPT ![i] = FALSE]
    /\ UNCHANGED <<day, db, ensured>>

-----------------------------------------------------------------------------
(* _ensure_partitions.                                                      *)

(* current_month is read once, before the first table.                      *)
ReadMonth(i) ==
    /\ pc[i] = "month"
    /\ mon' = [mon EXCEPT ![i] = MonthOf[day]]
    /\ tbl' = [tbl EXCEPT ![i] = 1]
    /\ pc' = [pc EXCEPT ![i] = "current"]
    /\ UNCHANGED <<day, db, proc, fired, today, listing, req, ghost>>

(* Mutant of CreatePartition: only the first partition of a table is made.  *)
CreateFirstOnly(t, m) ==
    parts' = IF dbUp /\ parts[t] = {} THEN [parts EXCEPT ![t] = {m}] ELSE parts

(* create_partition_for_month: CREATE TABLE IF NOT EXISTS in a transaction  *)
(* of its own; a failure is logged and swallowed.                           *)
CreatePartition(t, m) ==
    parts' = IF dbUp THEN [parts EXCEPT ![t] = @ \cup {m}] ELSE parts

CreateCurrent(i) ==
    /\ pc[i] = "current"
    /\ CreatePartition(tbl[i], mon[i])
    /\ pc' = [pc EXCEPT ![i] = "next"]
    /\ okCur' = [okCur EXCEPT ![i] = dbUp]
    /\ UNCHANGED <<day, dbUp, rows, proc, fired, mon, today, tbl, listing,
                   req, ensured>>

(* The pass over table t, for month m as the current one, has ended.        *)
RecordEnsured(t, m, ok) ==
    ensured' = [ensured EXCEPT ![t] = IF ok /\ @ < m THEN m ELSE @]

CreateNext(i) ==
    /\ pc[i] = "next"
    /\ CreatePartition(tbl[i], NextMonth(mon[i]))
    /\ RecordEnsured(tbl[i], mon[i], okCur[i] /\ dbUp)
    /\ okCur' = [okCur EXCEPT ![i] = FALSE]
    /\ \/ /\ tbl[i] < NumTables
          /\ tbl' = [tbl EXCEPT ![i] = @ + 1]
          /\ pc' = [pc EXCEPT ![i] = "current"]
          /\ UNCHANGED <<proc, mon, today, listing>>
       \/ /\ tbl[i] = NumTables
          /\ proc[i] = "boot"
          /\ proc' = [proc EXCEPT ![i] = "up"]
          /\ Return(i)
       \/ /\ tbl[i] = NumTables
          /\ proc[i] # "boot"
          /\ pc' = [pc EXCEPT ![i] = "today"]
          /\ mon' = [mon EXCEPT ![i] = 0]
          /\ UNCHANGED <<proc, today, tbl, listing>>
    /\ UNCHANGED <<day, dbUp, rows, fired, req>>

-----------------------------------------------------------------------------
(* _drop_expired_partitions and drop_partitions_older_than.                 *)

ReadToday(i) ==
    /\ pc[i] = "today"
    /\ today' = [today EXCEPT ![i] = day]
    /\ tbl' = [tbl EXCEPT ![i] = 1]
    /\ pc' = [pc EXCEPT ![i] = "list"]
    /\ UNCHANGED <<day, db, proc, fired, mon, listing, req, ghost>>

NextTable(i) ==
    \/ /\ tbl[i] < NumTables
       /\ tbl' = [tbl EXCEPT ![i] = @ + 1]
       /\ pc' = [pc EXCEPT ![i] = "list"]
       /\ UNCHANGED <<mon, today, listing>>
    \/ /\ tbl[i] = NumTables
       /\ Return(i)

(* The catalogue query, in a transaction that ends before the first DROP.   *)
ListPartitions(i) ==
    /\ pc[i] = "list"
    /\ dbUp
    /\ listing' = [listing EXCEPT ![i] = parts[tbl[i]]]
    /\ pc' = [pc EXCEPT ![i] = "drop"]
    /\ UNCHANGED <<day, db, proc, fired, mon, today, tbl, req, ghost>>

ListFails(i) ==
    /\ pc[i] = "list"
    /\ ~dbUp
    /\ NextTable(i)
    /\ UNCHANGED <<day, db, proc, fired, req, ghost>>

(* Mutants of Expired: the window added instead of subtracted; the first    *)
(* day of the partition compared; the cutoff a day late; a strict <.        *)
ExpiredAhead(t, m, d)   == MonthEnd(m) <= d + RetentionDays[t]
ExpiredByStart(t, m, d) == MonthStart[m] <= d - RetentionDays[t]
ExpiredEarly(t, m, d)   == MonthEnd(m) <= d - RetentionDays[t] + 1
ExpiredStrictly(t, m, d) == MonthEnd(m) < d - RetentionDays[t]

(* end_date <= cutoff, with the cutoff of the date read at the beginning.   *)
Expired(t, m, d) == MonthEnd(m) <= d - RetentionDays[t]

(* DROP TABLE: the partition goes, and its rows with it.  Without the       *)
(* partition, or without a database, it fails, is logged and skipped.       *)
DropTable(t, m) ==
    IF dbUp /\ m \in parts[t]
    THEN /\ parts' = [parts EXCEPT ![t] = @ \ {m}]
         /\ rows' = [rows EXCEPT ![t] = {d \in @ : MonthOf[d] # m}]
    ELSE UNCHANGED <<parts, rows>>

(* The loop visits the listing in the order of the names, oldest first.     *)
VisitPartition(i) ==
    /\ pc[i] = "drop"
    /\ \E m \in listing[i] :
        /\ \A n \in listing[i] : m <= n
        /\ listing' = [listing EXCEPT ![i] = @ \ {m}]
        /\ IF Expired(tbl[i], m, today[i])
           THEN DropTable(tbl[i], m)
           ELSE UNCHANGED <<parts, rows>>
    /\ UNCHANGED <<day, dbUp, proc, fired, pc, mon, today, tbl, req, ghost>>

EndOfListing(i) ==
    /\ pc[i] = "drop"
    /\ listing[i] = {}
    /\ NextTable(i)
    /\ UNCHANGED <<day, db, proc, fired, req, ghost>>

-----------------------------------------------------------------------------
(* create_event, from the moment it stamps created_at.                      *)

Stamp(i) ==
    /\ proc[i] = "up"
    /\ req[i] = NoRequest
    /\ \E t \in Tables : req' = [req EXCEPT ![i] = [tbl |-> t, day |-> day]]
    /\ UNCHANGED <<day, db, proc, fired, loop, ghost>>

(* Whether an insert that carries the given date finds its partition.       *)
HasPartition(t, d) == MonthOf[d] \in parts[t]

Persist(i) ==
    /\ req[i] # NoRequest
    /\ dbUp
    /\ HasPartition(req[i].tbl, req[i].day)
    /\ rows' = [rows EXCEPT ![req[i].tbl] = @ \cup {req[i].day}]
    /\ req' = [req EXCEPT ![i] = NoRequest]
    /\ UNCHANGED <<day, dbUp, parts, proc, fired, loop, ghost>>

(* Rolled back and answered with 500.                                       *)
PersistFails(i) ==
    /\ req[i] # NoRequest
    /\ ~dbUp \/ ~HasPartition(req[i].tbl, req[i].day)
    /\ req' = [req EXCEPT ![i] = NoRequest]
    /\ UNCHANGED <<day, db, proc, fired, loop, ghost>>

-----------------------------------------------------------------------------
Ensure(i) == ReadMonth(i) \/ CreateCurrent(i) \/ CreateNext(i)

Drop(i) ==
    \/ ReadToday(i)
    \/ ListPartitions(i)
    \/ ListFails(i)
    \/ VisitPartition(i)
    \/ EndOfListing(i)

Write(i) == Stamp(i) \/ Persist(i) \/ PersistFails(i)

Environment == Midnight \/ DatabaseFails \/ DatabaseReturns

Process(i) ==
    \/ Start(i) \/ Fire(i) \/ SkipRun(i) \/ Stop(i) \/ Exit(i) \/ Crash(i)
    \/ Ensure(i) \/ Drop(i) \/ Write(i)

Next == Environment \/ \E i \in Instances : Process(i)

Spec == Init /\ [][Next]_vars

(* Time passes; a worker that has a statement to send sends it; a handler   *)
(* that has stamped a row sends it; a process that is down is started again *)
(* (restart: unless-stopped), and a stopping one exits.  The trigger is     *)
(* strongly fair: requests occupy the loop again and again, but not at      *)
(* every trigger time for ever.                                             *)
Fairness ==
    /\ WF_vars(Midnight)
    /\ \A i \in Instances :
        /\ WF_vars(Ensure(i))
        /\ WF_vars(Drop(i))
        /\ WF_vars(Persist(i) \/ PersistFails(i))
        /\ WF_vars(Start(i))
        /\ WF_vars(Exit(i))
        /\ SF_vars(Fire(i))

FairSpec == Spec /\ Fairness
-----------------------------------------------------------------------------
(* Properties.                                                              *)

(* Writes survive the calendar boundary (scheduler.py, "so writes never     *)
(* fail when the calendar rolls over"): one pass over a table with both     *)
(* CREATEs successful is enough for the month it read and for the month     *)
(* after it, whatever retention runs, other instances, restarts and         *)
(* outages come later, even if the pass itself straddles midnight, and      *)
(* whatever window another table was given.                                 *)
RolloverCovered ==
    \A t \in Tables :
        (Sound(t) /\ MonthOf[day] \in {ensured[t], NextMonth(ensured[t])})
            => HasPartition(t, day)

(* Why it holds: nothing acts on a date from the future; the months of a    *)
(* successful pass keep their partitions until they are over, and so does   *)
(* the first of the two while the second CREATE is still to come.           *)
TodayIsPast == \A i \in Instances : today[i] <= day

StampIsPast == \A i \in Instances : req[i] # NoRequest => req[i].day <= day

EnsuredKept ==
    \A t \in Tables : \A m \in {ensured[t], NextMonth(ensured[t])} :
        (Sound(t) /\ m >= MonthOf[day]) => m \in parts[t]

HalfPassKept ==
    \A i \in Instances :
        (/\ Sound(tbl[i])
         /\ pc[i] = "next" /\ okCur[i]
         /\ mon[i] >= MonthOf[day])
            => mon[i] \in parts[tbl[i]]

UpkeepInv ==
    /\ TypeOK
    /\ TodayIsPast
    /\ StampIsPast
    /\ EnsuredKept
    /\ HalfPassKept

(* A retention run removes no partition that can still be written to: not   *)
(* the current month's, nor a future one (the "wrong partition" that        *)
(* partitioning.py says it never wants to drop).                            *)
LivePartitionKept ==
    [][\A t \in Tables : \A m \in parts[t] \ parts'[t] :
            Sound(t) => m < MonthOf[day]]_vars

(* The service implements the event store it promises: rows vanish only     *)
(* past the retention window of their table, be it negative.                *)
Store == INSTANCE EventStore WITH
    Tables <- Tables, Days <- Days, RetentionDays <- RetentionDays,
    day <- day, rows <- rows
StoreImplemented == Store!Spec

(* What the liveness properties need of the environment: from some point on *)
(* the database works and one instance stays up.                            *)
StaysUp == \E i \in Instances : <>[](dbUp /\ proc[i] = "up")

(* Retention is carried out: an expired partition is eventually dropped,    *)
(* through failed listings, failed drops and runs that are skipped, missed  *)
(* or killed half-way.                                                      *)
ExpiredPartitionsGo ==
    StaysUp =>
        \A t \in Tables, m \in Months :
            (m \in parts[t] /\ MonthEnd(m) + RetentionDays[t] <= day)
                ~> m \notin parts[t]

(* Whatever went wrong before, writes find their partition again: the daily *)
(* run repairs a month that no instance has prepared.                       *)
CoverageReturns ==
    StaysUp => []<>(\A t \in Tables : Sound(t) => HasPartition(t, day))

(* "Don't wait for the daily cron - the first write after deploy must       *)
(* succeed" (scheduler.py:110): a start-up that ends with the database      *)
(* reachable, in the month it began in, leaves every table writable.        *)
DeployLeavesTablesWritable ==
    [][\A i \in Instances :
        (/\ proc[i] = "boot"
         /\ proc'[i] = "up"
         /\ dbUp
         /\ mon[i] = MonthOf[day])
            => \A t \in Tables : HasPartition(t, day)']_vars
=============================================================================
