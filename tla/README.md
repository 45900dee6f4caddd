# openagent-logger in TLA+

openagent-logger receives signed events over HTTP, stores them append-only in
monthly partitions of three PostgreSQL tables, and drops the partitions once
their retention window is over. This directory models it in TLA+, checks the
models with TLC on small instances and proves the central properties with TLAPS
for every instance. Paths below are relative to the repository.

## 1. Inventory

| Component | State | Operations | Talks to |
|---|---|---|---|
| Retention scheduler (`src/scheduler.py`) | the singleton, its APScheduler, a run in progress | `start` (one-shot ensure), daily cron trigger, `_run_blocking` in an executor thread, `stop` | partition management, lifespan, the event loop |
| Partition management (`src/partitioning.py`) | the partitions in PostgreSQL's catalogue | create a month, list, drop what is expired | PostgreSQL, one transaction per statement |
| Ingest (`src/api.py`, `POST /events`) | the request's handler and its row | key check, validation, `verify_event`, stamp, insert, commit, refresh, answer | security, schemas, session |
| Security (`src/security.py`) | two secrets and the replay window, read once | API key, replay window, signature | ingest |
| Schemas (`src/schemas.py`) | none | validation of envelope and payload | ingest |
| Engine, pool, sessions (`src/models.py`) | the pool (5 + 10), one session per request | check out, time out, close | every handler, the daily job |
| `/stats`, `/health`, `/` (`src/api.py`) | none | counts, probe, constant | session, engine, scheduler |
| Lifespan (`src/api.py`) | none of its own | probe, start the scheduler, stop it | scheduler |
| Bootstrap (`database/init.sql`, `docker-compose.yml`) | role, schema, tables, initial partitions, owners, grants | once per data volume, and by hand | PostgreSQL |
| Compose stack (`docker-compose.yml`, `docker/logger/Dockerfile`) | the volume, each container's environment, its health | restart, recreate, probe, wipe | both containers |
| Emitter (openagent-api) | outside the repository | submits, fire-and-forget | ingest |

The components share two things: the database, where the worker of every service
process and the writes of every event loop meet, and the event loop, which runs
the handlers, starts the daily job and closes the sessions.

What is hard:

* **Interleaving.** A daily run is a dozen transactions in a thread. Midnight,
  inserts, other instances, a shutdown that does not wait (`wait=False`) and a
  successor's start-up fall between any two.
* **Stale values.** The month is read once per pass, the date once per retention
  run, the listing once per table.
* **Failure.** Every failure of a statement is logged and swallowed; the process
  may die anywhere; a failed commit may have committed.
* **Blocking.** The handlers are coroutines that run synchronous SQL. While one
  waits, nothing else on the loop runs, the closing of other sessions included.
* **Boundaries.** Half-open months, `end <= cutoff`, a skew equal to the window,
  a full pool, December and February, a negative retention window.
* **Agreement.** The emitter's canonical string and the receiver's, `init.sql`'s
  months and the service's, the four copies of the database password: each is made in
  two places that have to agree and are changed at different times.
* **Bootstrap.** `init.sql` commits statement by statement, runs by itself once, and
  can be stopped anywhere; everything after it takes its result for granted.

What makes each component correct, in a sentence: the scheduler keeps today's
partition in existence whatever happened to earlier runs; retention never drops a
partition in use nor a row inside its window, and does drop the others; a 201 means
a committed row, a 400, 401 or 422 no row, and a stored row passed every check; a
signature is refused exactly when it was not made over the receiver's form under the
receiver's secret, and a stored row re-verifies exactly when its columns kept what was
signed; a service that can write rows can also maintain their partitions; the stack
comes back after outages, and reports those it does not come back from; the loop stays
available. `PROJECT.json` lists every hazard with its line.

## 2. Modules

| Module | What it is |
|---|---|
| `Calendar` | days as integers, months as consecutive ranges of days; any calendar that satisfies `CalendarAssumption` |
| `Retention` | scheduler, partition management, the writes that need a partition |
| `EventStore` | the abstract store: rows appear, and go only past their window |
| `RetentionProofs` | theorems about `Retention` |
| `CivilRetentionProofs` | the same theorems on the civil calendar, said of dates |
| `CivilCalendar` | dates, months and partition names as `partitioning.py` and `init.sql` compute them |
| `CivilPeriod` | consecutive civil months as an instance of `Calendar` |
| `CivilUpkeep` | one table on that calendar, in a database with a time zone |
| `CivilProofs` | theorems about `CivilCalendar` and `CivilPeriod` |
| `MonthlyUpkeep` | the abstract upkeep of a table: a set of month numbers |
| `CivilUpkeepProofs` | theorems about `CivilUpkeep` |
| `ServiceLoop` | event loop, sessions, pool, and the job's DDL with its locks |
| `ServiceLoopProofs` | theorems about `ServiceLoop` |
| `Ingest` | one `POST /events` from its bytes to its answer |
| `Ledger` | the abstract ingest: each delivery is decided once |
| `IngestProofs` | theorems about `Ingest` |
| `Signing` | what an emitter signs, what the receiver re-derives, what the row keeps |
| `SigningProofs` | theorems about `Signing` |
| `Bootstrap` | the db container and the statements of `init.sql` |
| `Lifecycle` | the logger process, the scheduler singleton, `/health`, docker's health check; extends `Bootstrap` |
| `Deployment` | both containers and the operator; extends `Lifecycle` |
| `DeploymentProofs` | theorems about `Deployment` |
| `MCRetention`, `MCServiceLoop`, `MCIngest`, `MCCivilUpkeep`, `MCSigning`, `MCDeployment` | the definitions TLC's configurations use |

How they fit together. `Retention` interleaves the upkeep over an abstract calendar and
implements `EventStore`; `CivilPeriod` gives that calendar, and `CivilProofs` shows that
it satisfies the assumption; `CivilRetentionProofs` puts the two together, so that what is
proved of `Retention` is said of the dates and months the service uses. `CivilUpkeep` is the opposite cut: a pass is one step, and the months
have names, lengths and a zone; it implements `MonthlyUpkeep`, in which they are numbers
again. `Ingest` implements `Ledger`. `ServiceLoop` adds the locks and the loop that
`Retention` leaves out. `Ingest` takes the outcome of the signature check as given,
and `Signing` says what that outcome is. `Deployment` is the composition of database,
service and operator; there a daily run is one step.

### Retention

`parts[t]` are the partitions of table `t`, `rows[t]` the `created_at` dates its rows
have. A process `i` is `down`, `boot`ing (the lifespan runs `_ensure_partitions` on
the loop itself), `up` or `stopping`; `pc[i]` says where its upkeep stands, `mon`,
`today`, `tbl` and `listing` are the local variables of the Python functions.

| Action | Code |
|---|---|
| `Start`, `ReadMonth`, `CreateCurrent`, `CreateNext` | `lifespan`, `start`, `_ensure_partitions`, `create_partition_for_month` |
| `Fire`, `SkipRun` | the cron trigger, `_daily_run`; `max_instances=1` |
| `ReadToday`, `ListPartitions`, `ListFails`, `VisitPartition`, `EndOfListing` | `_drop_expired_partitions`, `drop_partitions_older_than` |
| `Stop`, `Exit`, `Crash` | `stop`; the interpreter joins its threads; `restart: unless-stopped` |
| `Stamp`, `Persist`, `PersistFails` | `create_event` from `now_utc` to its commit or rollback |
| `Midnight`, `DatabaseFails`, `DatabaseReturns` | the environment |

One action is one transaction: nothing else of the database is visible in between.
A statement takes the state of the database at that moment, so a create or drop
that another instance got to first is `IF NOT EXISTS` or a swallowed error.
The variables `okCur` and `ensured` are history: they record the last month for
which a table had both CREATE statements succeed, and no action reads them except
to update them. The clock saturates: the last modelled day stands for every later
day, so that liveness can be stated.

### ServiceLoop

`loop` is the request whose handler occupies the event loop. `Execute` runs one
statement of it, in order, as long as its table is not the one the job's DDL holds or
awaits; `DispatchClose` and `Close` are the two halves of the exit of `get_db`, the
first on the loop, the second in a thread. What PostgreSQL's locks do (a waiting
ACCESS EXCLUSIVE blocks later requests; a transaction keeps its locks to its end) and
how FastAPI ends a synchronous generator dependency are outside the repository and
marked external in the map.

### Ingest

A delivery's `content` says what the checks can tell apart: JSON, other text or bytes that
are no UTF-8 (FastAPI answers the last with a 400 of its own), key, schema,
signature, and whether its values fit the columns (`schemas.py` has no upper bound for
its integers, for instance). A content whose key or signature has characters outside
ASCII is there because `hmac.compare_digest` raises on it, which ends in a 500
rather than a 401. `Verify` and `Stamp` read the clock separately, as the code does;
`checked` is history and keeps the first reading. `Insert`, `Commit` and `Refresh`
are three statements, and the database may fail or the process die between any two.
`Commit` under a broken connection has committed or not. The handler does not await:
`running` keeps every other delivery off the loop until it has ended.

### The civil calendar

`CivilCalendar` is a translation of functions: `month_range`, `next_month`,
`current_month`, `partition_name` of `partitioning.py`, and `InitSeed`, the PL/pgSQL
block of `init.sql` that computes the same in its own way. Python's `date` and
PostgreSQL's `DATE` are the proleptic Gregorian calendar, defined by `Ordinal` and its
inverse `DateOf`. In `CivilUpkeep` an instant is a number of half days and the
database's sessions have a zone of half a day east or west of UTC, or none: a `DATE`
literal becomes midnight in that zone, `pg_get_expr` prints bounds in it
(`BoundExpr`), `_parse_partition_end` takes the date after `TO`, while the service takes
its dates in UTC. Its action `Create` keeps both reasons for a CREATE to leave nothing
behind: the name is taken, or the range overlaps.

### Signing

An event (`Documents`) is what its fields say, and for each field whether it is in the
form the service itself would print: UUIDs, times and their offset, defaults, digests,
addresses, numbers. `Parsed` is what the schemas make of it, `Columns` what its row
keeps. The emitter signs what it sends or what the schemas will make of it, and leaves
`ensure_ascii` on or turns it off, because the documents show both. `Rotate` changes
`LOGGER_HMAC_SECRET` on one side; `Decay` is the storage losing what a signed column
said, which re-verification (`docs/DATASHEET.md` 6.2) is meant to reveal. The numbers of
an event are two fields. `notation` is whether they are written as `json.dumps` writes them:
`1.50` or `1E5` from an emitter in another language is read by `json.loads` and written
anew. `number` is whether what `json.dumps` writes survives the integer field or the JSONB column
it goes to: `12.0` does not in an integer field, and does in JSONB, which keeps trailing
zeros; `1e+16` does not in JSONB. An empty `LOGGER_HMAC_SECRET` (`Unset`) is a value like the
others on the emitter's side and refuses everything on the receiver's.

### Deployment

A relation is absent or has an owner; `script` is the run of `init.sql` under way, with
who started it and which of its six groups of statements is next.

| Action | Code |
|---|---|
| `Boots` | the container's start; the entrypoint runs `init.sql` on an empty volume only |
| `Runs`, `RunsInto` | one statement, or its error: the entrypoint stops, `psql` by hand goes on |
| `Serves` | the process starts after `depends_on`; `lifespan`; a daily run; a probe of the health check; `pool_recycle` |
| `Crash` | either container, at any moment |
| `EditEnv`, `Recreate`, `Rerun`, `Wipe` | the operator: `.env`, `docker compose up -d`, the two commands of README "Resetting state during dev", `docker compose down -v` |

`guc`, `conf` and `env` are three copies of the configuration, taken when the db
container and the logger container were created and as it stands in `.env`; `role` is the
fourth copy of the password. `stale` is history: the password was edited and `init.sql`
has not run since in containers that have seen the edit. A pooled connection outlives a
change of password, a new one does not.

## 3. Runs

| Run | Instance | What it shows |
|---|---|---|
| `retention_replicas` | 2 processes, 1 table, months of 2, 1 and 1 days, no window | `UpkeepInv`, `RolloverCovered`, `LivePartitionKept`, `StoreImplemented` hold through every interleaving of two processes |
| `retention_tables` | 1 process, 2 tables, one-day months, windows of 1 and of -1 days | the same across tables, with `TypeOK`; what a negative window still promises |
| `retention_live` | 1 process, 1 table, fair | `ExpiredPartitionsGo`, `CoverageReturns` |
| `retention_deploy` | as above, unfair | **violated:** `DeployLeavesTablesWritable` |
| `loop_apart` | 3 inserts, pool of 2, DDL on another table | `EveryRequestFinishes`, `ServiceInv`; no deadlock |
| `loop_rollover` | 2 inserts, 1 statistics request, pool of 3, DDL on the same table | `StallIsDeadlock`, `StallsOnlyByDeadlock`, `DeadlockLasts`, `ServiceInv` |
| `loop_stall` | as above | **violated:** `LoopKeepsRunning` |
| `ingest_checks` | 2 deliveries, window 1, 4 seconds, 9 contents | `IngestInv`, `AckedIsStored`, `RefusedLeavesNoRow`, `StoredIsVerified`, `LateCopyNeverStored`, `LedgerImplemented` |
| `ingest_failure` | as above | **violated:** `FailureLeavesNoRow` |
| `civil_turns` | 1 table, 70 days from just before October, December, a turn of the year, a leap February, March 2100; three zones; window 1 | `TypeOK`, `MonthsTile`, `NamesInOrder`, `WritesCovered`, `DroppedIsOld`, `UpkeepImplemented`; the months of 2096 to 2105 are a `Calendar` |
| `deployment` | 2 passwords, 3 schedule hours, 1 turn of the month, 1 crash, 3 acts of the operator, fair | `TypeOK`, `WholeRunServes`, `WriterMaintains`, `PasswordsAgree`, `HalfBootStays`, `OutagesHeal`, `FaultsShow` |
| `signing` | 960 forms of events of all types, 2 secrets and an empty one, 1 row | `RefusedExactly`, `ReverifiedExactly`, `DecayShows`, `SignedAsParsed` |

**Why the bounds are enough.** Two processes give every pair of concurrent runs; a
third would act on the same partitions under the same statements (two are
interchangeable, hence the symmetry, which is used with safety properties only).
A run needs one month to read, one to become stale in and one to create, and the
tightest window drops a partition on the day after its month, when a mistake of one
day would show. A first month of two days lets a day pass inside a month. Two tables
are enough for "this one done, the next not". A pool of two is full with an open and
a running request. Four seconds with a window of one include a timestamp before, at
both ends of, and after the window. Seventy days hold two turns of a month, and the
starts put a December, a 28th, 29th or 30th of the month and a single-digit month at
one of them. Three acts are enough to edit, recreate and rerun, or to break a bootstrap,
wipe its schema and run it again; one crash stops it at any statement. A second month
makes the service create a partition beside the seeded ones, and lets the oldest expire.
With one row in `Signing` every row is checked against every secret and zone; rows do
not influence each other. The theorems do not depend on any of these bounds.

**Deadlock** is checked in the loop's passing runs and in `deployment`: there a state without a
step would be a finding. In the others it is not, for the clock has a last day or
second, a stopped service need not be started, and deliveries and rows run out.

### The three disagreements

* `loop_stall`. An insert has committed, its refresh has opened a transaction that
  still holds ACCESS SHARE, and the loop has taken up the next insert before it
  handed the first session to a thread. The job asks for ACCESS EXCLUSIVE and waits
  for the first session; the second insert waits behind the job, on the loop; the
  first session waits for the loop. No timeout is configured. `scheduler.py:155`
  says the job is in an executor "so we don't block the FastAPI event loop".
  `loop_rollover` shows that nothing else can stop the loop, `loop_apart` that
  nothing goes wrong while the DDL is on other tables.
* `retention_deploy`. The start-up's CREATE fails, is swallowed, the database
  returns, and the service is up without this month's partition until the next
  daily run (`scheduler.py:110`, "the first write after deploy must succeed").
  `RolloverCovered` says when this cannot happen: after a complete pass for this
  month or the one before. `CoverageReturns` says it heals.
* `ingest_failure`. One `except` covers commit and refresh, so an emitter can get a
  500 for a row that is stored (`api.py:264`).

### What else the models show

These are not separate runs; each follows from a property that holds.

* **Signing.** `RefusedExactly` says for which emitters a genuine event is refused. The
  snippets at `README.md:96` and `:168` call `json.dumps` without `ensure_ascii=False` (which
  `README.md:186` and the datasheet have): what they sign is refused with 401 as soon as a
  payload has a character outside ASCII. The docstring at `security.py:158` says "ASCII
  safe" of a function that passes `ensure_ascii=False`. An emitter that signs the payload it
  sends rather than what Pydantic dumps is refused whenever a default was left out, a UUID
  is in upper case, a time ends in `Z` or a number is not written as Python writes it. While
  the receiver has no secret nothing is accepted, so that no stored row was signed with an
  empty one (`SignedAsParsed`).
* **Statuses.** What Pydantic refuses is answered with FastAPI's 422; a 400 is for bytes that are no
  UTF-8. `docs/DATASHEET.md:166` has 400 for a discriminator mismatch or a validation
  failure, but the two 400s of `create_event` (`api.py:269` and `:347`) are unreachable.
* **Re-verification.** By `ReverifiedExactly`, the procedure of datasheet 6.2 reports a mismatch
  for an intact row if its `client_timestamp` had another offset than UTC or none, its
  address is not in PostgreSQL's form, a number of `details` is not (exponents), or the
  secret has been rotated since. The datasheet reads every mismatch as bit-rot,
  a bug or tampering. `DecayShows` is the good half: a change in a signed column
  is never missed. The columns that are not signed (`event_id`, `source_service`, `session_id`, `user_id`,
  `created_at`, `retention_class`) are outside it: nothing reveals a change in them.
* **Bootstrap.** A first boot that failed leaves a volume on which `pg_isready` succeeds and the
  service starts. If the role was created and the tables were not, `/health` says `ok`
  and every insert fails: `README.md:450` has it reflect the service's true state. No restart
  or edit of `.env` helps (`HalfBootStays`), only what datasheet 7.7 says.
  `depends_on: service_healthy` is there "so the first DB probe succeeds"
  (`docker-compose.yml:125`), but the health check runs in the db container over the socket
  of the temporary server too, so the service may start while `init.sql` runs; that heals
  (`OutagesHeal`).
* **Passwords.** They agree (`docker-compose.yml:37`: "the two always agree") until `.env`
  is edited: recreating the logger alone, or both containers over an existing volume, leaves
  the role with the old password, until `init.sql` is run by hand. A service with an open
  pooled connection goes on for a while all the same.
* **Health.** A schedule hour out of range (25) leaves the scheduler created and not running:
  `degraded`, which the health check counts as a failure; one that is no number ends the
  import, and the container restarts for ever. Compose restarts no container for being
  unhealthy, so what `FaultsShow` promises is a report, not a repair.
* **Negative windows.** `RETENTION_DAYS` is not validated. With a negative window the upkeep
  drops the partition in use (the conditions `Sound` in `RolloverCovered`,
  `LivePartitionKept` and `CoverageReturns` cannot be left out), and still keeps the letter
  of the promise of `EventStore`.
* **Zones.** In a zone west of UTC a partition's end, read back as a date, is passed before
  the instant it stands for: `DroppedIsOld` allows that distance, and with a window of 0 the
  partition in use may go. Compose runs PostgreSQL in UTC, where this cannot happen.
* **Ownership.** `init.sql:407-413` transfers the partitions to the role because "DROP TABLE requires
  being the owner". PostgreSQL asks for the table's owner or the schema's, and the role
  owns the schema (`init.sql:131`), so the daily job could drop partitions that were left
  behind by a run that stopped (`Dropped`); what it cannot do without the parents is create any.
* **Append-only.** `init.sql:447-450` says the grants enforce it, but the service's role owns the
  tables and an owner needs no grant: that nothing is updated or deleted rests on the code
  having no such statement.

### Fairness

* `Retention`: a worker that has a statement to send sends it; a stamped row is sent;
  a process that is down is restarted (`restart: unless-stopped` in
  `docker-compose.yml`); the clock runs. `Fire` is strongly fair: a request may
  occupy the loop at the trigger, but not at every trigger for ever, and
  APScheduler looks again each day. Nothing is assumed of failures: the two
  liveness properties say under which condition they hold (`StaysUp`: eventually the
  database works and one process stays up).
* `ServiceLoop`: threads run; a statement that can go on does. `Begin` and
  `DispatchClose` are strongly fair because asyncio runs ready callbacks in the order they
  became ready. Failures (`ExecuteFails`, `JobFails`, `Refuse`) have no fairness, so
  no liveness rests on something breaking at the right moment.
* `Deployment`: containers that stopped are started (`restart: unless-stopped`), psql goes
  on, a started process finishes its lifespan, docker probes every 30 seconds and its start
  period ends. Nothing is assumed of crashes, months, daily runs and the operator: that they
  end, or leave the configuration in order, is the premise of the two liveness properties.

## 4. Proofs

All theorems hold for every value of the constants that satisfies the named
assumptions: any calendar of consecutive, non-empty months, any number of tables and
processes, any integer retention windows; any deliveries and contents, any replay
window; any requests, tables and pool; any passwords and bounds on crashes, months and
acts; any events and secrets; any days of deployment up to the last years of Python's calendar.

**Retention.** `RolloverCovered` is not inductive: it says nothing of the month after
the present one, nor of a pass that has done one of its two CREATEs. `UpkeepInv` adds
`EnsuredKept` (both months of a complete pass keep their partitions until they are
over), `HalfPassKept` (so does the first while the second is to come), and
`TodayIsPast`/`StampIsPast` (no date in use lies in the future). The step that could
break it is a DROP; `ExpiredIsPast` shows that what has expired by a date of the past is
a partition of a month that is over, from the order of the month starts and a
non-negative window of that table alone. That the listing is stale does not matter, and the
proof shows why: a month's expiry never changes back. From the same invariant:

| Theorem | Says |
|---|---|
| `TypeCorrect` | `Spec => []TypeOK` |
| `UpkeepCorrect` | `Spec => []UpkeepInv` |
| `RolloverCorrect` | `Spec => []RolloverCovered` |
| `LivePartitionCorrect` | `Spec => LivePartitionKept`, an action property |
| `StoreRefinement` | `Spec => Store!Spec`: each step of `Retention` is an `Advance`, `Append` or `Purge` of `EventStore`, or a stutter |

**Ingest.** `IngestInv` says what has been established at each stage (before its commit
a delivery has neither row nor answer; past the key check the key is right; past
`verify_event` the window was met at a time no later than `created_at`) and is kept by each action.
`AckedCorrect`, `RefusedCorrect` and `StoredCorrect` follow. `LateCopyCorrect` needs one
more induction, over `Doomed`: a delivery that is late before its handler starts
stays late, and ends without a row.

`LedgerRefinement` shows that `Ingest` implements `Ledger`: a delivery is open until it is answered or
the process dies with it, the row a `Commit` stores is written while it is open and dated no
later than the clock, a 201 closes it with a row, a 400, 401 or 422 without one, a 500 either
way, and nothing is written or said of a closed delivery. The mapping forgets the stages,
the session and the loop; a whole run of checks is one step of `Ledger` or a stutter. It
needs, from `IngestInv`, that `created_at` is no later than now, that a delivery has no row
before its commit, and that it has one while the refresh is to come.

**The civil calendar.** `CivilIsCalendar` says that any number of consecutive civil months from
any first month on satisfies `IsCalendar`. It rests on two facts about the functions of
`partitioning.py`: `DateOfOrdinal`, that `DateOf` finds the date of every ordinal (the years
by the growth of `DaysBeforeYear`, the months by cases over the twelve of them, leap years
included), and `RangesMeet`, that `month_range` ends where the range of `next_month`
begins. `OrdinalOfDate` is the other half: `DateOf` is the inverse of `Ordinal` on every date.

`CivilRetentionProofs` instantiates `RetentionProofs` with that calendar. What `Retention` assumes of
its calendar is `CivilIsCalendar`, what it assumes of the tables and windows is a
hypothesis of each theorem (`Configured`), and no other assumption is made. `CivilRolloverCorrect` and
`CivilLivePartitionCorrect` then say the two main properties in terms of `current_month`, `next_month`
and `month_range`: which date lies in which partition's range, and that what is dropped
had ended by `month_range` on the day of the drop.

**CivilUpkeep.** None of its properties is inductive: a partition's bounds alone do not say which
month it is. `Plain` does: every partition is, in name and bounds, the one
`create_partition_for_month` would create for some month, whoever created it. With
`RangesMeet` and `DateOfOrdinal` that gives `MonthsTile`, and `DroppedIsOld`, because the
end `_parse_partition_end` reads back is then the end of the month in every zone.
`NamesInOrder` needs that the six padded digits order months as numbers do
(`NamesOrdered`). `WritesCovered` needs `Prepared`: both months of the last complete pass
keep their partitions until they are over where the database is. A pass learns from the
name alone that a partition exists, so `Prepared` rests on `NamesApart`, that two months
never share a name; and it survives the drop by `NotOver`, which is where `SoundWindow`
is used. The assumption on dates is Python's: `date` ends with the year 9999, and so do
four digits.

`UpkeepRefinement` is the strongest of them: `CivilUpkeep` implements `MonthlyUpkeep`, where a pass adds
the present month and the next and never fails, and a retention run leaves exactly the
months whose end is inside the window. A partition is mapped to the number its name says
(`MonthNamed`). `PartitionsApart` is why a CREATE never fails: partitions of two months differ in
name and do not overlap in any zone, so `CreateExact` leaves nothing to `IF NOT EXISTS` but a
partition that is there already. `NumberFacts` is why the retention run is exact: the end
`_parse_partition_end` reads from the text is where the month of the next number starts.

**ServiceLoop.** `ServiceInv` is inductive as it stands once `TypeOK` is part of it: the loop
occupies one handler that is not done (`LoopOwner`), a connection belongs to a request
or to the job (`NoConnectionLeaks`), and DDL that has its lock is alone on its table
(`DDLIsAlone`). From it, `DeadlockStays`: no step of anybody leads out of the cycle of
`loop_stall`, failures included.

The liveness properties of `ServiceLoop` have safety cores, which are proved. `Stalled` says that the
handler on the loop waits for a lock, the job waits too or is not running, and no session is
being closed: none of them has a step, failures apart. `StallCorrect` shows that this is only so in the cycle of `loop_stall`,
by `HolderStands` (who holds a table is the job or an unclosed session) and `OwnLocksApart` (the
handler does not wait for a lock of its own). `DeadlockNeedsSharing` shows that the cycle needs DDL
of a table two requests use, so that under the conditions of `loop_apart` the service is never stalled.
What is left to TLC is that steps that can be taken are taken.

**Deployment.** `WholeRunServes` is about the end of a run, so it is not inductive: `BootInv`
says what a run has established at each statement. `DoneAnyway` is what holds although
statements failed (by hand psql goes on): past the ownership block the tables, if
there are any, are the role's. `DoneWell` is what holds as long as none has: also the role,
the schema, and the partitions. That a grant implies ownership, and so
`WriterMaintains` (`WriterCorrect`), rests on the order of the two last blocks, which is what its
mutant swaps. `PasswordsCorrect` and `HalfBootStaysBroken` need the types alone.

**Signing.** `SigningInv` adds to `SignedAsParsed` what a request under way carries
(`WireSound`) and how a changed row shows it (`DecayMarks`). The lemmas `ParsedFacts` and
`ColumnFacts` are the content: parsing is idempotent and is the identity exactly on
events in the service's own form, and reading columns back in UTC gives the signed
event exactly if zone, numbers and address were kept.

| Theorem | Says |
|---|---|
| `DateOfOrdinal`, `RangesMeet`, `CivilIsCalendar` | the civil calendar is a `Calendar` |
| `OrdinalOfDate` | dates and ordinals are inverse to each other |
| `CivilRolloverCorrect`, `CivilLivePartitionCorrect`, `CivilStoreRefinement` | `RolloverCovered`, `LivePartitionKept`, `StoreImplemented` on the civil calendar, for any first month and number of months |
| `UpkeepTypeOK`, `UpkeepMonthsTile`, `UpkeepNamesInOrder`, `UpkeepWritesCovered`, `UpkeepDroppedIsOld` | the five properties of `CivilUpkeep`, for every date of deployment |
| `UpkeepRefinement` | `Spec => Upkeep!Spec`: `CivilUpkeep` implements `MonthlyUpkeep` |
| `IngestCorrect`, `AckedCorrect`, `RefusedCorrect`, `StoredCorrect`, `LateCopyCorrect` | the five properties of `Ingest` |
| `LedgerRefinement` | `Spec => Promise!Spec`: `Ingest` implements `Ledger` |
| `ServiceCorrect`, `DeadlockStays`, `StallCorrect` | `Spec => []ServiceInv`, `Spec => DeadlockLasts`, `Spec => []StallIsDeadlock` |
| `DeadlockNeedsSharing` | a deadlock involves the job at a table in `DDLTables` that two requests use |
| `TypeCorrect`, `BootCorrect`, `WriterCorrect`, `PasswordsCorrect`, `HalfBootStaysBroken` | types, `WholeRunServes` and `WriterMaintains`, `PasswordsAgree`, `HalfBootStays` of `Deployment` |
| `SignedCorrect`, `RefusedCorrect`, `ReverifiedCorrect`, `DecayCorrect` | the four invariants of `Signing` |

**Model-checked only.** Liveness (`ExpiredPartitionsGo`, `CoverageReturns`, `EveryRequestFinishes`,
`StallsOnlyByDeadlock`, `OutagesHeal`, `FaultsShow`), because it rests on fairness and
ENABLED, which the prover does not handle. Every safety invariant, every action property and
every refinement the passing runs check is proved. Where liveness has a safety core, that core is:
`StallCorrect` and `DeadlockNeedsSharing` for the loop, `RolloverCorrect` for `CoverageReturns`,
`UpkeepRefinement` for `ExpiredPartitionsGo` (a retention run that goes through leaves nothing out).

## 5. Not modelled, and why

* Time zones with daylight saving, or a zone that changes while the stack runs; a wall clock
  set back.
* A bound that `_parse_partition_end` cannot parse: PostgreSQL prints none for a partition
  of a month. The second calls `start`, `stop` and `initialize_scheduler` guard against:
  `lifespan` makes none.
* A password with characters that a URL, `PGOPTIONS` or `strip()` treat specially, and
  `LOGGER_DATABASE_URL`; extension, indexes and comments of `init.sql`; the managed
  database of Render, which runs `init.sql` by hand or not at all.
* HMAC and SHA-256 are injective; strings are classes of forms.
* The values of statistics, the constant `/` answers with, logging, the network setup scripts,
  the building of the image, ports and networks.
* In `Retention` a pass takes no locks: what its locks do to the loop is `ServiceLoop`'s
  subject. In `Deployment` a daily run and a start-up are one step: `Retention` takes them
  apart. `Ingest` and `Retention` are not composed: what they share is the row that
  `Commit` stores or `Persist` finds a partition for.

## 6. Order of the work

`Calendar`, `Retention`, `EventStore` and their proofs; `ServiceLoop`; `Ingest` and its
proofs; then, from the plan those left, `CivilCalendar` and its proofs, the invariant of
`ServiceLoop`, `Bootstrap`, `Lifecycle` and `Deployment` with their proofs, `Signing` with
its proofs, and the theorems about `CivilUpkeep`; then the refinements to `Ledger` and
`MonthlyUpkeep`, the theorems of `Retention` on the civil calendar, and the safety cores of the
loop's liveness. Left: `Ingest` composed with `Retention` over the dispatch table, and what a
retention run that is interleaved with others still leaves behind.

## 7. Running

    tlc -config MCRetention_replicas.cfg MCRetention
    tlc -config MCDeployment.cfg MCDeployment
    tlapm RetentionProofs.tla

and likewise for the other configurations and the other `*Proofs` modules. `deployment` and
`retention_tables` take a minute or more, the others seconds.
