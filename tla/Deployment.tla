------------------------------ MODULE Deployment ------------------------------
(***************************************************************************)
(* The compose stack: the db container (Bootstrap), the logger container      *)
(* (Lifecycle), and the operator who edits .env, recreates containers, runs    *)
(* init.sql again and wipes the volume, while either container may crash.       *)
(***************************************************************************)
EXTENDS Lifecycle

CONSTANTS
    MaxCrashes,   \* bound on the crashes of both containers together
    MaxActs       \* bound on what the operator does

ASSUME DeploymentAssumption ==
    MaxCrashes \in Nat /\ MaxActs \in Nat /\ KeepMonths \in Nat

VARIABLES
    env,       \* .env
    stale,     \* the password was edited, and init.sql has not run since in
               \* containers made from the edited file
    crashes,
    acts

vars == <<database, service, env, stale, crashes, acts>>

Envs == [password : Passwords \cup {None}, hour : Hours]

Init ==
    /\ env \in Envs
    /\ conf = env /\ guc = env.password
    /\ server = "down" /\ volume = FALSE /\ script = NoRun /\ ran = "never"
    /\ role = None /\ schema = FALSE /\ tables = "none" /\ granted = FALSE
    /\ parts = [m \in Months |-> "none"]
    /\ now = 0
    /\ proc = "waiting" /\ sched = "None" /\ pooled = FALSE
    /\ health = "starting" /\ fails = 0 /\ grace = TRUE
    /\ stale = FALSE /\ crashes = 0 /\ acts = 0

-----------------------------------------------------------------------------
(* What the containers do by themselves.                                    *)

ByItself == UNCHANGED <<env, crashes, acts>>

Boots == ServerStart /\ UNCHANGED <<service, stale>> /\ ByItself

Runs ==
    /\ NextStatement
    /\ stale' = (stale /\ ~(/\ script.at = 1
                            /\ env.password = guc /\ env.password = conf.password))
    /\ UNCHANGED service /\ ByItself

RunsInto == StatementFails /\ UNCHANGED <<service, stale>> /\ ByItself

Turns == MonthTurns /\ UNCHANGED <<service, stale>> /\ ByItself

Serves ==
    /\ \/ ProcessStarts \/ Lifespan \/ DailyRun
       \/ Probe \/ StartPeriodEnds \/ Recycle
    /\ UNCHANGED stale /\ ByItself

Crash ==
    /\ crashes < MaxCrashes /\ crashes' = crashes + 1
    /\ \/ /\ server # "down"
          /\ ServerStops
          /\ pooled' = FALSE
          /\ UNCHANGED <<guc, conf, proc, sched, health, fails, grace>>
       \/ ProcessEnds
    /\ UNCHANGED <<env, stale, acts>>

-----------------------------------------------------------------------------
(* What the operator does.                                                  *)

Acts == acts < MaxActs /\ acts' = acts + 1 /\ UNCHANGED crashes

EditEnv ==
    /\ Acts
    /\ env' \in Envs
    /\ env' # env
    /\ stale' = (stale \/ env'.password # env.password)
    /\ UNCHANGED <<database, service>>

(* docker compose up -d: the containers are made anew from .env, the db     *)
(* container with --no-deps or an unchanged configuration not.              *)
Recreate ==
    /\ Acts
    /\ conf' = env /\ proc' = "waiting" /\ Fresh
    /\ \/ guc' = env.password /\ ServerStops
       \/ UNCHANGED database
    /\ UNCHANGED <<env, stale>>

Rerun ==
    /\ Acts
    /\ RunByHand \/ DropSchema
    /\ UNCHANGED <<env, stale, service>>

(* docker compose down -v, and up.                                          *)
Wipe ==
    /\ Acts
    /\ conf' = env /\ guc' = env.password
    /\ server' = "down" /\ volume' = FALSE /\ script' = NoRun /\ ran' = "never"
    /\ role' = None /\ schema' = FALSE /\ tables' = "none" /\ granted' = FALSE
    /\ parts' = [m \in Months |-> "none"]
    /\ proc' = "waiting" /\ Fresh
    /\ stale' = FALSE
    /\ UNCHANGED <<now, env>>

Next ==
    \/ Boots \/ Runs \/ RunsInto \/ Turns \/ Serves \/ Crash
    \/ EditEnv \/ Recreate \/ Rerun \/ Wipe

(* The restart policy, psql, uvicorn and docker's probes go on by           *)
(* themselves; nothing is assumed of crashes, months and operators.         *)
Fairness ==
    /\ WF_vars(Boots) /\ WF_vars(Runs) /\ WF_vars(RunsInto)
    /\ WF_vars(ProcessStarts /\ UNCHANGED stale /\ ByItself)
    /\ WF_vars(Lifespan /\ UNCHANGED stale /\ ByItself)
    /\ WF_vars(Probe /\ UNCHANGED stale /\ ByItself)
    /\ WF_vars(StartPeriodEnds /\ UNCHANGED stale /\ ByItself)

Spec == Init /\ [][Next]_vars

FairSpec == Spec /\ Fairness

-----------------------------------------------------------------------------
(* Properties.                                                              *)

Relation == {"none", "postgres", "logger"}

DatabaseTypes ==
    /\ guc \in Passwords \cup {None} /\ role \in Passwords \cup {None}
    /\ server \in {"down", "temp", "up"} /\ volume \in BOOLEAN
    /\ ran \in {"never", "part", "whole"}
    /\ schema \in BOOLEAN /\ granted \in BOOLEAN
    /\ tables \in Relation /\ parts \in [Months -> Relation]

MonthsAhead == \A m \in Months : m > now + 1 => parts[m] = "none"

ScriptTypes ==
    script \in [by : {"none", "boot", "hand"}, at : 1 .. NumStatements, failed : BOOLEAN]

ServiceTypes ==
    /\ conf \in Envs
    /\ proc \in {"waiting", "exited", "lifespan", "up"}
    /\ sched \in {"None", "created", "running"}
    /\ pooled \in BOOLEAN /\ grace \in BOOLEAN
    /\ health \in {"starting", "healthy", "unhealthy"}

OperatorTypes == env \in Envs /\ stale \in BOOLEAN

Counters ==
    /\ now \in 0 .. MaxMonth /\ fails \in 0 .. Retries
    /\ crashes \in 0 .. MaxCrashes /\ acts \in 0 .. MaxActs

(* Every variable holds a value of its type, and no partition is further    *)
(* ahead than next month (init.sql:335-403, scheduler.py:173-178).          *)
TypeOK ==
    /\ DatabaseTypes /\ MonthsAhead /\ ScriptTypes
    /\ ServiceTypes /\ OperatorTypes /\ Counters

(* Once init.sql has run to its end without an error, by the entrypoint or  *)
(* by hand, over whatever an earlier run had left, the role can log in and  *)
(* owns every relation, as init.sql:407-413 asks: the parents, without      *)
(* which the daily job can create no partition, and the partitions, the     *)
(* seeded ones included.                                                    *)
WholeRunServes ==
    ran = "whole" =>
        /\ role # None /\ schema /\ granted
        /\ tables = "logger"
        /\ \A m \in Months : parts[m] # "postgres"

(* Wherever the script was stopped: a service that can write rows can also  *)
(* maintain the partitions it writes them to.                               *)
WriterMaintains == CanInsert => CanManage

(* .env is where the password comes from: until it is edited, and again     *)
(* after a run of init.sql in containers that have seen the edit, the role   *)
(* and the service have the password of .env.  (docker-compose.yml:35-37     *)
(* and the datasheet say always.)                                            *)
PasswordsAgree ==
    ~stale => role \in {None, env.password} /\ conf.password = env.password

(* The database was initialised and cannot serve.                           *)
Broken == volume /\ Idle /\ (role = None \/ tables # "logger")

(* What a first boot that stopped half-way has left, no restart, recreation *)
(* or edit of .env repairs: only init.sql by hand, or a wiped volume.       *)
HalfBootStays == [][Broken => Broken' \/ script'.by = "hand" \/ ~volume']_vars

(* The service can log in and its configuration is in order.                *)
WellConfigured ==
    /\ volume
    /\ conf.password = role /\ conf.password # None /\ conf.hour = "valid"

(* Whatever crashed, and whatever the service met when it started, the      *)
(* stack comes back by itself: as long as its configuration is in order,    *)
(* docker reports it healthy from some time on.                             *)
OutagesHeal == <>[]WellConfigured => <>[](health = "healthy")

(* A service that is up and not "ok", the database out of its reach or the  *)
(* scheduler not started, is reported unhealthy.                            *)
FaultsShow == <>[](proc = "up" /\ Status # "ok") => <>[](health = "unhealthy")
=============================================================================
