------------------------------ MODULE Lifecycle ------------------------------
(***************************************************************************)
(* The life of the logger container: the import of the modules, the lifespan *)
(* handler of src/api.py with the scheduler singleton of src/scheduler.py,     *)
(* GET /health, and the HEALTHCHECK of docker/logger/Dockerfile that polls it. *)
(* A daily run is one step here; Retention takes it apart.                      *)
(***************************************************************************)
EXTENDS Bootstrap

CONSTANT KeepMonths   \* whole months that expired partitions are kept

Retries == 3          \* HEALTHCHECK --retries

Hours == {"valid", "range", "junk"}   \* LOGGER_RETENTION_SCHEDULE_HOUR

VARIABLES
    conf,      \* the environment the container was created with
    proc,      \* "waiting" (depends_on), "exited", "lifespan", "up"
    sched,     \* _scheduler: "None", "created", "running"
    pooled,    \* the pool holds an open connection
    health,    \* what docker reports: "starting", "healthy", "unhealthy"
    fails,     \* consecutive probes that failed
    grace      \* the start period of the HEALTHCHECK is not over

service == <<conf, proc, sched, pooled, health, fails, grace>>
database == <<guc, server, volume, script, ran, objects, now>>

-----------------------------------------------------------------------------
(* The database as the service meets it.                                    *)

(* engine.connect(): a pooled connection was authenticated when it was      *)
(* opened, a new one is authenticated now.  The temporary server is not     *)
(* reached over the network.                                                *)
Connects == server = "up" /\ (pooled \/ role = conf.password)

CanInsert == tables = "logger" \/ (granted /\ tables # "none")

CanManage == tables = "logger"

(* _ensure_partitions: what a CREATE raises is logged and swallowed.        *)
Ensured == IF Connects /\ CanManage THEN Seeded("logger") ELSE parts

(* So is what a DROP raises, and the loop goes on with the next partition.  *)
(* PostgreSQL lets the owner of a schema drop its tables, whoever owns them *)
(* or their parent, and the schema is the role's.                           *)
Dropped == {m \in Months : m + KeepMonths < now /\ parts[m] # "none" /\ Connects}

-----------------------------------------------------------------------------
(* The process.                                                             *)

(* models.py refuses an empty password, int() a schedule hour that is none. *)
ImportFails == conf.password = None \/ conf.hour = "junk"

Fresh ==
    /\ sched' = "None" /\ pooled' = FALSE
    /\ health' = "starting" /\ fails' = 0 /\ grace' = TRUE

(* The container starts: for the first time once pg_isready succeeds, which *)
(* it does over the socket of the temporary server too, and again whenever  *)
(* it has exited.                                                           *)
ProcessStarts ==
    /\ \/ proc = "waiting" /\ server \in {"temp", "up"}
       \/ proc = "exited"
    /\ proc' = IF ImportFails THEN "exited" ELSE "lifespan"
    /\ Fresh
    /\ UNCHANGED <<conf, database>>

(* Mutant of Lifespan: start() lets a failed initial ensure escape, and     *)
(* lifespan catches it.                                                     *)
LifespanEnsureEscapes ==
    /\ proc = "lifespan"
    /\ proc' = "up"
    /\ pooled' = Connects
    /\ parts' = Ensured
    /\ sched' = IF Connects /\ CanManage /\ conf.hour = "valid" THEN "running" ELSE "created"
    /\ UNCHANGED <<conf, health, fails, grace, guc, server, volume, script, ran,
                   role, schema, tables, granted, now>>

(* lifespan: the probe, which only logs, and initialize_scheduler, whose    *)
(* start() ensures the partitions or logs that it could not; CronTrigger    *)
(* raises on an hour out of range, after _scheduler is assigned.            *)
Lifespan ==
    /\ proc = "lifespan"
    /\ proc' = "up"
    /\ pooled' = Connects
    /\ parts' = Ensured
    /\ sched' = IF conf.hour = "valid" THEN "running" ELSE "created"
    /\ UNCHANGED <<conf, health, fails, grace, guc, server, volume, script, ran,
                   role, schema, tables, granted, now>>

(* The daily job: ensure, then drop.                                        *)
DailyRun ==
    /\ proc = "up" /\ sched = "running"
    /\ pooled' = Connects
    /\ parts' = [m \in Months |-> IF m \in Dropped THEN "none" ELSE Ensured[m]]
    /\ UNCHANGED <<conf, proc, sched, health, fails, grace, guc, server, volume,
                   script, ran, role, schema, tables, granted, now>>

(* GET /health.                                                             *)
Status ==
    IF ~Connects THEN "unhealthy"
    ELSE IF sched = "running" THEN "ok" ELSE "degraded"

(* Mutant of Probe: any answer will do.                                     *)
ProbeAnyAnswer ==
    /\ proc = "up"
    /\ pooled' = Connects
    /\ health' = "healthy" /\ fails' = 0
    /\ UNCHANGED <<conf, proc, sched, grace, database>>

(* One probe of the HEALTHCHECK, which greps the answer for "ok".  Docker   *)
(* does not count failures in the start period of a container that has not  *)
(* been healthy, and restarts none for being unhealthy.                     *)
Probe ==
    /\ proc = "up"
    /\ pooled' = Connects
    /\ IF Status = "ok"
       THEN health' = "healthy" /\ fails' = 0
       ELSE IF health = "starting" /\ grace
       THEN UNCHANGED <<health, fails>>
       ELSE /\ fails' = IF fails < Retries THEN fails + 1 ELSE fails
            /\ health' = IF fails' = Retries THEN "unhealthy" ELSE health
    /\ UNCHANGED <<conf, proc, sched, grace, database>>

StartPeriodEnds ==
    /\ proc = "up" /\ grace
    /\ grace' = FALSE
    /\ UNCHANGED <<conf, proc, sched, pooled, health, fails, database>>

(* pool_recycle.                                                            *)
Recycle ==
    /\ pooled
    /\ pooled' = FALSE
    /\ UNCHANGED <<conf, proc, sched, health, fails, grace, database>>

(* The process ends, by SIGTERM (shutdown_scheduler) or without it; the     *)
(* restart policy starts it again.                                          *)
ProcessEnds ==
    /\ proc \in {"lifespan", "up"}
    /\ proc' = "exited"
    /\ Fresh
    /\ UNCHANGED <<conf, database>>
=============================================================================
