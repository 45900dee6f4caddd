------------------------------ MODULE Bootstrap ------------------------------
(***************************************************************************)
(* database/init.sql and the container that runs it.  The postgres image's  *)
(* entrypoint runs the script on the first boot of an empty volume, over a    *)
(* temporary server that listens on no network; afterwards only an operator    *)
(* runs it, by hand.  psql commits every statement by itself: stopped in the    *)
(* middle, the script leaves what it has done so far.                           *)
(*                                                                         *)
(* A relation is "none" (absent) or the name of its owner: the script runs   *)
(* as postgres and hands what it made to the role logger at the end.  The      *)
(* three managed tables go together, as do their partitions of one month.       *)
(***************************************************************************)
EXTENDS Integers, Sequences

CONSTANTS
    Passwords,   \* values of LOGGER_DB_PASSWORD
    None,        \* the empty password; no role
    MaxMonth     \* bound on the months that pass

ASSUME BootstrapAssumption == None \notin Passwords /\ MaxMonth \in Nat

VARIABLES
    guc,       \* logger.db_password, as the db container was created with it
    server,    \* "down", "temp" (while the entrypoint runs init.sql), "up"
    volume,    \* the data directory holds a database
    script,    \* the run of init.sql under way: who started it, which
               \* statement is next, whether one has failed
    ran,       \* the last run: "never", "part" (or under way), "whole"
    role,      \* the password of the role openagent_logger
    schema,    \* the schema exists
    tables,    \* the parent tables
    parts,     \* the partitions of each month
    granted,   \* SELECT and INSERT are granted to the role
    now        \* the month of CURRENT_DATE

objects == <<role, schema, tables, parts, granted>>

Months == 0 .. MaxMonth + 1

NoRun == [by |-> "none", at |-> 1, failed |-> FALSE]

Idle == script.by = "none"

(* Mutant of Seeded: a third month is created as well.                      *)
SeededThree(owner) ==
    [m \in Months |-> IF m \in now .. now + 2 /\ parts[m] = "none" THEN owner ELSE parts[m]]

(* CREATE TABLE IF NOT EXISTS for the partitions of two months.             *)
Seeded(owner) ==
    [m \in Months |-> IF m \in {now, now + 1} /\ parts[m] = "none" THEN owner ELSE parts[m]]

(* The loop of the ownership block over the relations of the schema.        *)
Owned(relation) == IF relation = "none" THEN "none" ELSE "logger"

-----------------------------------------------------------------------------
(* The statements of the script, each with the condition it needs.          *)

(* Mutant of RoleStatement: an existing role keeps its password.            *)
RoleStatementCreateOnly ==
    /\ guc # None
    /\ role' = IF role = None THEN guc ELSE role
    /\ UNCHANGED <<schema, tables, parts, granted>>

RoleStatement ==
    /\ guc # None
    /\ role' = guc
    /\ UNCHANGED <<schema, tables, parts, granted>>

(* CREATE SCHEMA ... AUTHORIZATION openagent_logger.                        *)
SchemaStatement ==
    /\ role # None
    /\ schema' = TRUE
    /\ UNCHANGED <<role, tables, parts, granted>>

TableStatements ==
    /\ schema
    /\ tables' = IF tables = "none" THEN "postgres" ELSE tables
    /\ UNCHANGED <<role, schema, parts, granted>>

PartitionBlock ==
    /\ tables # "none"
    /\ parts' = Seeded("postgres")
    /\ UNCHANGED <<role, schema, tables, granted>>

(* Mutant of OwnershipBlock: only the parent tables change hands.           *)
OwnershipOfParents ==
    /\ role # None
    /\ tables' = Owned(tables)
    /\ UNCHANGED <<role, schema, parts, granted>>

OwnershipBlock ==
    /\ role # None
    /\ tables' = Owned(tables)
    /\ parts' = [m \in Months |-> Owned(parts[m])]
    /\ UNCHANGED <<role, schema, granted>>

GrantStatements ==
    /\ schema /\ role # None
    /\ granted' = TRUE
    /\ UNCHANGED <<role, schema, tables, parts>>

NumStatements == 6

(* Mutant of Statement: the grants come before the ownership block.         *)
StatementGrantsFirst(k) ==
    \/ k = 1 /\ RoleStatement
    \/ k = 2 /\ SchemaStatement
    \/ k = 3 /\ TableStatements
    \/ k = 4 /\ PartitionBlock
    \/ k = 5 /\ GrantStatements
    \/ k = 6 /\ OwnershipBlock

Statement(k) ==
    \/ k = 1 /\ RoleStatement
    \/ k = 2 /\ SchemaStatement
    \/ k = 3 /\ TableStatements
    \/ k = 4 /\ PartitionBlock
    \/ k = 5 /\ OwnershipBlock
    \/ k = 6 /\ GrantStatements

(* What statement k needs, and lacks, when it raises an error.              *)
Fails(k) ==
    \/ k = 1 /\ guc = None
    \/ k \in {2, 5} /\ role = None
    \/ k = 3 /\ ~schema
    \/ k = 4 /\ tables = "none"
    \/ k = 6 /\ (~schema \/ role = None)

-----------------------------------------------------------------------------
(* The db container.                                                        *)

(* Mutant of ServerStart: the script runs on every boot.                    *)
ServerStartAlways ==
    /\ server = "down"
    /\ volume' = TRUE
    /\ server' = "temp" /\ script' = [by |-> "boot", at |-> 1, failed |-> FALSE]
    /\ ran' = "part"
    /\ UNCHANGED <<guc, objects, now>>

(* The restart policy starts the container; the entrypoint finds a database *)
(* in the volume, or makes one and turns to the script.                     *)
ServerStart ==
    /\ server = "down"
    /\ volume' = TRUE
    /\ \/ /\ volume
          /\ server' = "up"
          /\ UNCHANGED <<script, ran>>
       \/ /\ ~volume
          /\ server' = "temp"
          /\ script' = [by |-> "boot", at |-> 1, failed |-> FALSE]
          /\ ran' = "part"
    /\ UNCHANGED <<guc, objects, now>>

(* A run has come to its end.                                               *)
Finish(failed) ==
    /\ script' = NoRun
    /\ server' = "up"
    /\ ran' = IF failed THEN "part" ELSE "whole"

NextStatement ==
    /\ ~Idle
    /\ Statement(script.at)
    /\ IF script.at = NumStatements
       THEN Finish(script.failed)
       ELSE script' = [script EXCEPT !.at = @ + 1] /\ UNCHANGED <<server, ran>>
    /\ UNCHANGED <<guc, volume, now>>

(* The entrypoint's psql stops at the first error and the container exits;  *)
(* by hand psql goes on with the next statement.                            *)
StatementFails ==
    /\ ~Idle
    /\ Fails(script.at)
    /\ \/ /\ script.by = "boot"
          /\ script' = NoRun /\ server' = "down" /\ UNCHANGED ran
       \/ /\ script.by = "hand" /\ script.at = NumStatements
          /\ Finish(TRUE)
       \/ /\ script.by = "hand" /\ script.at # NumStatements
          /\ script' = [script EXCEPT !.at = @ + 1, !.failed = TRUE]
          /\ UNCHANGED <<server, ran>>
    /\ UNCHANGED <<guc, volume, objects, now>>

(* The container stops at any moment, with whatever runs in it.             *)
ServerStops ==
    /\ server' = "down"
    /\ script' = NoRun
    /\ UNCHANGED <<volume, ran, objects, now>>

(* psql -f init.sql, through docker exec.                                   *)
RunByHand ==
    /\ server = "up" /\ Idle
    /\ script' = [by |-> "hand", at |-> 1, failed |-> FALSE]
    /\ ran' = "part"
    /\ UNCHANGED <<guc, server, volume, objects, now>>

(* DROP SCHEMA openagent_logger CASCADE.                                    *)
DropSchema ==
    /\ server = "up" /\ Idle /\ schema
    /\ schema' = FALSE /\ granted' = FALSE
    /\ tables' = "none" /\ parts' = [m \in Months |-> "none"]
    /\ ran' = "part"
    /\ UNCHANGED <<guc, server, volume, script, role, now>>

MonthTurns ==
    /\ now < MaxMonth
    /\ now' = now + 1
    /\ UNCHANGED <<guc, server, volume, script, ran, objects>>
=============================================================================
