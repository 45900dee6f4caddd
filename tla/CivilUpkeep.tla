----------------------------- MODULE CivilUpkeep -----------------------------
(***************************************************************************)
(* The partitions of one table on the civil calendar, in a database whose    *)
(* sessions have a time zone: database/init.sql takes the month from          *)
(* CURRENT_DATE and the bounds from DATE literals, both in that zone;          *)
(* src/scheduler.py and src/partitioning.py take dates in UTC, and read        *)
(* bounds back from text PostgreSQL prints in the zone.                        *)
(*                                                                         *)
(* An instant is a number of half days, a zone a whole number of them ahead   *)
(* of UTC.  Retention interleaves the single statements of the upkeep; here   *)
(* a pass is one step, and what is at stake is where its months begin and end. *)
(***************************************************************************)
EXTENDS CivilCalendar

CONSTANTS
    Starts,         \* the dates on which the stack may be deployed
    Horizon,        \* bound: how many half days the model runs after that
    Zones,          \* the time zones of the database
    RetentionDays   \* the retention window of the table

(* Python's dates end with the year 9999, and four digits with it.         *)
ASSUME CivilUpkeepAssumption ==
    /\ \A x \in Starts : IsDate(x) /\ Ordinal(x) > 1
    /\ Horizon \in Nat
    /\ \A x \in Starts : Ordinal(x) + Horizon < DaysBeforeYear(9999)
    /\ Zones \subseteq {-1, 0, 1}
    /\ RetentionDays \in Nat

VARIABLES
    now,      \* the present instant
    until,    \* the last modelled instant
    zone,     \* the TimeZone of the database's sessions
    parts,    \* the partitions: their name and their bounds as instants
    ensured   \* history: the last month of a pass that succeeded

vars == <<now, until, zone, parts, ensured>>

UtcDate == DateOf(now \div 2)
LocalDate == DateOf((now + zone) \div 2)

(* A DATE literal as a TIMESTAMPTZ: midnight in the zone.                   *)
Instant(x) == 2 * Ordinal(x) - zone

Partition(name, start, end) ==
    [name |-> name, from |-> Instant(start), to |-> Instant(end)]

TypeOK ==
    /\ now \in Nat /\ until \in Nat /\ now <= until
    /\ zone \in Zones
    /\ \A p \in parts :
        /\ DOMAIN p = {"name", "from", "to"}
        /\ p.from \in Nat /\ p.to \in Nat /\ p.from < p.to
    /\ IsMonth(ensured)

Init ==
    /\ zone \in Zones
    /\ \E x \in Starts, h \in {0, 1} : now = 2 * Ordinal(x) + h
    /\ until = now + Horizon
    /\ parts = {Partition(s.name, s.start, s.end) : s \in InitSeed(LocalDate)}
    /\ ensured = current_month(LocalDate)

Tick ==
    /\ now < until
    /\ now' = now + 1
    /\ UNCHANGED <<until, zone, parts, ensured>>

-----------------------------------------------------------------------------
(* create_partition_for_month.  IF NOT EXISTS looks at the name; a range    *)
(* that overlaps another partition's is an error, logged and swallowed.     *)
NameTaken(ps, ym) == \E p \in ps : p.name = partition_name(ym)

Overlaps(ps, new) == \E p \in ps : p.from < new.to /\ new.from < p.to

Create(ps, ym) ==
    LET new == Partition(partition_name(ym), month_range(ym).start, month_range(ym).end)
    IN  IF NameTaken(ps, ym) \/ Overlaps(ps, new) THEN ps ELSE ps \cup {new}

(* _ensure_partitions, at start-up and in the daily run.                    *)
Ensure ==
    LET cur == current_month(UtcDate)
        nxt == next_month(cur)
    IN  /\ parts' = Create(Create(parts, cur), nxt)
        /\ ensured' = IF /\ NameTaken(parts', cur) /\ NameTaken(parts', nxt)
                         /\ MonthNumber(ensured) < MonthNumber(cur)
                      THEN cur ELSE ensured
        /\ UNCHANGED <<now, until, zone>>

(* pg_get_expr prints the bounds in the zone of the session that asks.      *)
BoundExpr(p) ==
    [from |-> DateOf((p.from + zone) \div 2),
     to   |-> DateOf((p.to + zone) \div 2),
     time |-> (p.to + zone) % 2]

(* Mutant of parse_partition_end: the first date of the text.               *)
parse_partition_start(expr) == expr.from

(* _parse_partition_end: the date after TO, whatever time follows it.       *)
parse_partition_end(expr) == expr.to

(* Mutant of Drop: a partition that ends on the cutoff is kept.             *)
DropLate ==
    LET cutoff == Ordinal(UtcDate) - RetentionDays
        kept == {p \in parts : Ordinal(parse_partition_end(BoundExpr(p))) >= cutoff}
    IN  /\ parts' = kept
        /\ UNCHANGED <<now, until, zone, ensured>>

(* The second half of the daily run, over the listing of the table.         *)
Drop ==
    LET cutoff == Ordinal(UtcDate) - RetentionDays
        kept == {p \in parts : Ordinal(parse_partition_end(BoundExpr(p))) > cutoff}
    IN  /\ parts' = kept
        /\ UNCHANGED <<now, until, zone, ensured>>

Next == Tick \/ Ensure \/ Drop

Spec == Init /\ [][Next]_vars

-----------------------------------------------------------------------------
(* Properties.                                                              *)

(* init.sql and the service cut time alike: every partition, whoever made   *)
(* it, has the name and the bounds the service gives that month, so         *)
(* neighbours meet and none overlap, over the turn of a year and through    *)
(* February (init.sql:338-402 against partitioning.py:44-76 and 264-277).   *)
MonthsTile ==
    \A p \in parts :
        LET ym == current_month(DateOf((p.from + zone) \div 2))
            r  == month_range(ym)
        IN  /\ p = Partition(partition_name(ym), r.start, r.end)
            /\ p.to = Instant(month_range(next_month(ym)).start)
            /\ (p.to - p.from) \div 2 = DaysIn(ym.year, ym.month)

(* The listing visits partitions oldest first: the order of the names is    *)
(* the order of time (partitioning.py:181, ORDER BY relname).               *)
NamesInOrder ==
    \A p, q \in parts : NameBefore(p.name, q.name) <=> p.from < q.from

(* The window that never touches a partition in use.  West of UTC a month   *)
(* is over later than its name says.                                        *)
SoundWindow == RetentionDays >= IF zone < 0 THEN 1 ELSE 0

(* A write finds its partition as long as the month of the database's own   *)
(* date is the ensured one or the one after: in UTC, RolloverCovered of     *)
(* Retention; elsewhere the service's month and the database's differ for   *)
(* part of a day, and neither implies the other.                            *)
WritesCovered ==
    (/\ SoundWindow
     /\ MonthNumber(current_month(LocalDate)) - MonthNumber(ensured) \in {0, 1})
        => \E p \in parts : p.from <= now /\ now < p.to

(* What is dropped ended RetentionDays ago: to the instant in UTC and east  *)
(* of it, and up to the zone's distance earlier in the west.                *)
DroppedIsOld ==
    [][\A p \in parts \ parts' :
            p.to + 2 * RetentionDays <= now + IF zone < 0 THEN -zone ELSE 0]_vars

(* The month a name says: the number its first four digits make, and the    *)
(* number of the two after them.                                            *)
YearDigits(p) == 1000 * p[1] + 100 * p[2] + 10 * p[3] + p[4]

MonthDigits(p) == 10 * p[5] + p[6]

MonthNamed(name) == 12 * YearDigits(name) + MonthDigits(name)

(* For all the names, dates, zones and bounds as text, the upkeep is        *)
(* arithmetic on month numbers: a pass always leaves the present month and  *)
(* the next, for IF NOT EXISTS and overlapping ranges never get in its way,  *)
(* and a retention run removes exactly what is out of the window            *)
(* (scheduler.py:166-199, partitioning.py:83-134 and 141-257).              *)
Upkeep == INSTANCE MonthlyUpkeep WITH
    MonthStart <- [n \in Nat |-> Ordinal(FirstOf(MonthNumbered(n)))],
    day <- now \div 2,
    months <- {MonthNamed(p.name) : p \in parts}
UpkeepImplemented == Upkeep!Spec
=============================================================================
