-------------------------- MODULE DeploymentProofs --------------------------
(***************************************************************************)
(* Theorems about Deployment: what init.sql leaves behind wherever it is      *)
(* stopped and however often it is run, for any number of crashes, months      *)
(* and acts of the operator.                                                    *)
(***************************************************************************)
EXTENDS Deployment, TLAPS

(* The steps by what they do to the database.                               *)
LEMMA StepsOfNext ==
    ASSUME Next
    PROVE  \/ ServerStart /\ UNCHANGED <<service, env, stale, crashes, acts>>
           \/ Runs
           \/ RunsInto
           \/ Turns
           \/ ProcessStarts /\ UNCHANGED <<env, stale, crashes, acts>>
           \/ Lifespan /\ UNCHANGED <<env, stale, crashes, acts>>
           \/ DailyRun /\ UNCHANGED <<env, stale, crashes, acts>>
           \/ (Probe \/ StartPeriodEnds \/ Recycle) /\ UNCHANGED <<env, stale, crashes, acts>>
           \/ Crash
           \/ EditEnv \/ Recreate \/ Rerun \/ Wipe
BY DEF Next, Boots, Serves, ByItself

-----------------------------------------------------------------------------
(* Types.                                                                   *)

LEMMA DatabaseTyped ==
    ASSUME TypeOK, [Next]_vars
    PROVE  DatabaseTypes'
<1> USE BootstrapAssumption DEF TypeOK, DatabaseTypes, Relation
<1>0. CASE UNCHANGED vars
    BY <1>0 DEF vars, database, objects
<1>1. CASE ServerStart
    BY <1>1 DEF ServerStart, objects
<1>2. CASE Runs
    <2>1. /\ role' \in Passwords \cup {None} /\ schema' \in BOOLEAN /\ granted' \in BOOLEAN
          /\ tables' \in Relation /\ parts' \in [Months -> Relation]
        BY <1>2 DEF Runs, NextStatement, Statement, RoleStatement, SchemaStatement,
            TableStatements, PartitionBlock, OwnershipBlock, GrantStatements, Seeded, Owned
    <2>2. /\ server' \in {"down", "temp", "up"} /\ ran' \in {"never", "part", "whole"}
          /\ UNCHANGED <<guc, volume, now>>
        BY <1>2 DEF Runs, NextStatement, Finish
    <2> QED
        BY <2>1, <2>2
<1>3. CASE RunsInto
    <2>1. server' \in {"down", "temp", "up"} /\ ran' \in {"never", "part", "whole"}
        BY <1>3 DEF RunsInto, StatementFails, Finish
    <2> QED
        BY <1>3, <2>1 DEF RunsInto, StatementFails, objects
<1>4. CASE Turns
    BY <1>4 DEF Turns, MonthTurns, objects
<1>5. CASE ProcessStarts \/ Probe \/ StartPeriodEnds \/ Recycle \/ EditEnv
    BY <1>5 DEF ProcessStarts, Probe, StartPeriodEnds, Recycle, EditEnv, database, objects
<1>6. CASE Lifespan
    <2>1. parts' \in [Months -> Relation]
        BY <1>6 DEF Lifespan, Ensured, Seeded, CanManage
    <2> QED
        BY <1>6, <2>1 DEF Lifespan
<1>7. CASE DailyRun
    <2>1. parts' \in [Months -> Relation]
        BY <1>7 DEF DailyRun, Dropped, Ensured, Seeded, CanManage
    <2> QED
        BY <1>7, <2>1 DEF DailyRun
<1>8. CASE Crash
    BY <1>8 DEF Crash, ServerStops, ProcessEnds, database, objects
<1>9. CASE Recreate
    BY <1>9 DEF Recreate, ServerStops, database, objects, OperatorTypes, Envs
<1>10. CASE Rerun
    BY <1>10 DEF Rerun, RunByHand, DropSchema, objects
<1>11. CASE Wipe
    BY <1>11 DEF Wipe, OperatorTypes, Envs
<1> QED
    BY <1>0, <1>1, <1>2, <1>3, <1>4, <1>5, <1>6, <1>7, <1>8, <1>9, <1>10, <1>11, StepsOfNext

(* init.sql and the service create two months, a drop takes some away, and  *)
(* the month only ever moves on.                                            *)
LEMMA AheadKept ==
    ASSUME TypeOK, [Next]_vars
    PROVE  MonthsAhead'
<1> USE DEF MonthsAhead
<1>1. MonthsAhead /\ now \in Nat /\ \A m \in Months : m \in Int
    BY BootstrapAssumption DEF TypeOK, Counters, Months
<1>2. CASE UNCHANGED <<parts, now>>
    BY <1>1, <1>2
<1>3. CASE parts' \in {Seeded("postgres"), Ensured} /\ now' = now
    BY <1>1, <1>3 DEF Ensured, Seeded
<1>4. CASE parts' = [m \in Months |-> Owned(parts[m])] /\ now' = now
    BY <1>1, <1>4 DEF Owned
<1>5. CASE DailyRun
    BY <1>1, <1>5 DEF DailyRun, Ensured, Seeded
<1>6. CASE Turns
    BY <1>1, <1>6 DEF Turns, MonthTurns, objects
<1>7. CASE parts' = [m \in Months |-> "none"]
    BY <1>7
<1>8. CASE Runs
    <2>1. now' = now /\ Statement(script.at)
        BY <1>8 DEF Runs, NextStatement
    <2> QED
        BY <1>2, <1>3, <1>4, <2>1 DEF Statement, RoleStatement, SchemaStatement,
            TableStatements, PartitionBlock, OwnershipBlock, GrantStatements
<1>9. CASE Lifespan
    BY <1>3, <1>9 DEF Lifespan
<1>10. CASE Rerun \/ Wipe
    BY <1>2, <1>7, <1>10 DEF Rerun, RunByHand, DropSchema, Wipe, objects
<1>11. CASE \/ UNCHANGED vars \/ ServerStart \/ RunsInto \/ ProcessStarts
            \/ Probe \/ StartPeriodEnds \/ Recycle \/ Crash \/ EditEnv \/ Recreate
    BY <1>2, <1>11 DEF vars, ServerStart, RunsInto, StatementFails, ProcessStarts, Probe,
        StartPeriodEnds, Recycle, Crash, ServerStops, ProcessEnds, EditEnv, Recreate,
        database, objects
<1> QED
    BY <1>5, <1>6, <1>8, <1>9, <1>10, <1>11, StepsOfNext

LEMMA ScriptTyped ==
    ASSUME TypeOK, [Next]_vars
    PROVE  ScriptTypes'
<1> USE DEF TypeOK, ScriptTypes
<1>0. CASE UNCHANGED script
    BY <1>0
<1>1. NoRun \in [by : {"none", "boot", "hand"}, at : 1 .. NumStatements, failed : BOOLEAN]
    <2>1. 1 \in 1 .. NumStatements
        BY DEF NumStatements
    <2> QED
        BY <2>1, Zenon DEF NoRun
<1>2. ASSUME NEW by \in {"boot", "hand"}, script' = [by |-> by, at |-> 1, failed |-> FALSE]
      PROVE  ScriptTypes'
    <2>1. 1 \in 1 .. NumStatements
        BY DEF NumStatements
    <2> QED
        BY <1>2, <2>1, Zenon
<1>3. ASSUME script.at # NumStatements
      PROVE  /\ script' = [script EXCEPT !.at = @ + 1] => ScriptTypes'
             /\ script' = [script EXCEPT !.at = @ + 1, !.failed = TRUE] => ScriptTypes'
    <2>1. script.at + 1 \in 1 .. NumStatements
        BY <1>3 DEF NumStatements
    <2> QED
        BY <2>1, Zenon
<1>4. ServerStart => script' = [by |-> "boot", at |-> 1, failed |-> FALSE] \/ UNCHANGED script
    BY DEF ServerStart
<1>5. Runs => \/ script' = NoRun
              \/ /\ script.at # NumStatements
                 /\ script' = [script EXCEPT !.at = @ + 1]
    <2>1. CASE script.at = NumStatements
        BY <2>1, Zenon DEF Runs, NextStatement, Finish
    <2>2. CASE script.at # NumStatements
        BY <2>2, Zenon DEF Runs, NextStatement
    <2> QED
        BY <2>1, <2>2
<1>6. RunsInto => \/ script' = NoRun
                  \/ /\ script.at # NumStatements
                     /\ script' = [script EXCEPT !.at = @ + 1, !.failed = TRUE]
    BY Zenon DEF RunsInto, StatementFails, Finish
<1>7. Crash \/ Recreate \/ Wipe => script' = NoRun \/ UNCHANGED script
    BY DEF Crash, ServerStops, ProcessEnds, Recreate, Wipe, database
<1>8. Rerun => script' = [by |-> "hand", at |-> 1, failed |-> FALSE] \/ UNCHANGED script
    BY DEF Rerun, RunByHand, DropSchema
<1>9. \/ UNCHANGED script
      \/ ServerStart \/ Runs \/ RunsInto \/ Crash \/ Recreate \/ Rerun \/ Wipe
    BY StepsOfNext DEF vars, database, Turns, MonthTurns,
        ProcessStarts, Lifespan, DailyRun, Probe, StartPeriodEnds, Recycle, EditEnv
<1> QED
    BY <1>0, <1>1, <1>2, <1>3, <1>4, <1>5, <1>6, <1>7, <1>8, <1>9, Zenon

LEMMA ServiceTyped ==
    ASSUME TypeOK, [Next]_vars
    PROVE  ServiceTypes'
<1> USE DEF TypeOK, ServiceTypes, OperatorTypes
<1>0. CASE UNCHANGED service
    BY <1>0 DEF service
<1>1. CASE ProcessStarts
    BY <1>1 DEF ProcessStarts, Fresh
<1>2. CASE Lifespan
    BY <1>2 DEF Lifespan, Connects
<1>3. CASE DailyRun
    BY <1>3 DEF DailyRun, Connects
<1>4. CASE Probe
    <2>1. pooled' \in BOOLEAN
        BY <1>4 DEF Probe, Connects
    <2>2. health' \in {"starting", "healthy", "unhealthy"}
        BY <1>4 DEF Probe
    <2> QED
        BY <1>4, <2>1, <2>2 DEF Probe
<1>5. CASE StartPeriodEnds \/ Recycle
    BY <1>5 DEF StartPeriodEnds, Recycle
<1>6. CASE Crash
    BY <1>6 DEF Crash, ProcessEnds, Fresh
<1>7. CASE Recreate \/ Wipe
    BY <1>7 DEF Recreate, Wipe, Fresh
<1> QED
    BY <1>0, <1>1, <1>2, <1>3, <1>4, <1>5, <1>6, <1>7, StepsOfNext DEF vars, Runs, RunsInto,
        Turns, EditEnv, Rerun, ByItself

LEMMA OperatorTyped ==
    ASSUME TypeOK, [Next]_vars
    PROVE  OperatorTypes'
<1> USE DEF TypeOK, OperatorTypes
<1>1. CASE UNCHANGED <<env, stale>>
    BY <1>1
<1>2. CASE Runs
    BY <1>2 DEF Runs, ByItself
<1>3. CASE EditEnv \/ Recreate \/ Rerun \/ Wipe
    BY <1>3 DEF EditEnv, Recreate, Rerun, Wipe
<1> QED
    BY <1>1, <1>2, <1>3, StepsOfNext DEF vars, RunsInto, Turns, Crash, ByItself

LEMMA Counted ==
    ASSUME TypeOK, [Next]_vars
    PROVE  Counters'
<1> USE DEF TypeOK, Counters
<1>1. now' \in 0 .. MaxMonth
    <2>1. now' = now \/ (now < MaxMonth /\ now' = now + 1)
        BY StepsOfNext DEF vars, database, ServerStart, Runs, NextStatement, RunsInto,
            StatementFails, Turns, MonthTurns, ProcessStarts, Lifespan, DailyRun, Probe,
            StartPeriodEnds, Recycle, Crash, ServerStops, ProcessEnds, EditEnv, Recreate,
            Rerun, RunByHand, DropSchema, Wipe
    <2> QED
        BY <2>1, BootstrapAssumption
<1>2. fails' \in 0 .. Retries
    <2>1. \/ fails' = fails \/ fails' = 0
          \/ fails' = (IF fails < Retries THEN fails + 1 ELSE fails)
        BY StepsOfNext DEF vars, service, ServerStart, Runs, RunsInto, Turns, ProcessStarts,
            Lifespan, DailyRun, Probe, StartPeriodEnds, Recycle, Crash, ProcessEnds, Fresh,
            EditEnv, Recreate, Rerun, Wipe, ByItself
    <2> QED
        BY <2>1 DEF Retries
<1>3. crashes' \in 0 .. MaxCrashes
    <2>1. crashes' = crashes \/ (crashes < MaxCrashes /\ crashes' = crashes + 1)
        BY StepsOfNext DEF vars, Runs, RunsInto, Turns, Crash, EditEnv, Recreate, Rerun, Wipe,
            Acts, ByItself
    <2> QED
        BY <2>1, DeploymentAssumption
<1>4. acts' \in 0 .. MaxActs
    <2>1. acts' = acts \/ (acts < MaxActs /\ acts' = acts + 1)
        BY StepsOfNext DEF vars, Runs, RunsInto, Turns, Crash, EditEnv, Recreate, Rerun, Wipe,
            Acts, ByItself
    <2> QED
        BY <2>1, DeploymentAssumption
<1> QED
    BY <1>1, <1>2, <1>3, <1>4

(* Every variable keeps its type.                                           *)
THEOREM TypeCorrect == Spec => []TypeOK
<1>1. Init => TypeOK
    <2> SUFFICES ASSUME Init PROVE TypeOK
        OBVIOUS
    <2>1. DatabaseTypes
        BY DEF Init, DatabaseTypes, Relation, Envs
    <2>2. ScriptTypes
        <3>1. 1 \in 1 .. NumStatements
            BY DEF NumStatements
        <3>2. script = NoRun
            BY DEF Init
        <3> QED
            BY <3>1, <3>2, Zenon DEF ScriptTypes, NoRun
    <2>3. ServiceTypes /\ OperatorTypes
        BY DEF Init, ServiceTypes, OperatorTypes
    <2>4. Counters
        BY BootstrapAssumption, DeploymentAssumption DEF Init, Counters, Retries
    <2>5. MonthsAhead
        BY DEF Init, MonthsAhead
    <2> QED
        BY <2>1, <2>2, <2>3, <2>4, <2>5 DEF TypeOK
<1>2. TypeOK /\ [Next]_vars => TypeOK'
    BY DatabaseTyped, AheadKept, ScriptTyped, ServiceTyped, OperatorTyped, Counted DEF TypeOK
<1> QED
    BY <1>1, <1>2, PTL DEF Spec

-----------------------------------------------------------------------------
(* What a run of init.sql has done so far.                                  *)

Past(k) == ~Idle /\ script.at > k

NoneLeft == \A m \in Months : parts[m] # "postgres"

(* Whatever failed: the tables follow the schema, their owner the role.     *)
DoneAnyway ==
    /\ Past(3) /\ schema => tables # "none"
    /\ Past(5) /\ schema /\ role # None => tables = "logger"

(* While nothing has failed.                                                *)
DoneWell ==
    ~script.failed =>
        /\ Past(1) => role # None
        /\ Past(2) => schema
        /\ Past(5) => tables = "logger" /\ NoneLeft

BootInv ==
    /\ ~Idle => ran = "part"
    /\ granted => tables = "logger"
    /\ DoneAnyway
    /\ DoneWell
    /\ WholeRunServes

(* How the run moves on.                                                    *)
LEMMA Advance ==
    ASSUME ScriptTypes, NextStatement
    PROVE  \/ /\ script.at = 6 /\ Idle'
              /\ ran' = IF script.failed THEN "part" ELSE "whole"
           \/ /\ script.at \in 1 .. 5
              /\ script'.at = script.at + 1
              /\ script'.by = script.by /\ script'.failed = script.failed
              /\ ran' = ran
<1>1. CASE script.at = NumStatements
    BY <1>1 DEF NextStatement, Finish, NoRun, Idle, NumStatements
<1>2. CASE script.at # NumStatements
    <2>1. script.at \in 1 .. 5
        BY <1>2 DEF ScriptTypes, NumStatements
    <2>2. script' = [script EXCEPT !.at = @ + 1] /\ ran' = ran
        BY <1>2 DEF NextStatement
    <2>3. /\ script'.at = script.at + 1
          /\ script'.by = script.by /\ script'.failed = script.failed
        BY <2>2 DEF ScriptTypes
    <2> QED
        BY <2>1, <2>2, <2>3
<1> QED
    BY <1>1, <1>2

LEMMA RunKeeps ==
    ASSUME TypeOK, BootInv, NextStatement
    PROVE  BootInv'
<1> USE DEF TypeOK, BootInv, DoneAnyway, DoneWell, WholeRunServes, NoneLeft, Past
<1>0. /\ ScriptTypes /\ ~Idle /\ ran = "part" /\ script.at \in 1 .. 6
      /\ script'.at \in Int \/ Idle'
    BY Advance DEF NextStatement, ScriptTypes, NumStatements
<1>1. CASE script.at = 1
    <2>1. /\ script'.at = 2 /\ script'.failed = script.failed /\ ran' = ran
          /\ Idle' <=> Idle
        BY <1>0, <1>1, Advance DEF Idle
    <2>2. RoleStatement
        BY <1>1 DEF NextStatement, Statement
    <2>3. role' # None /\ UNCHANGED <<schema, tables, parts, granted>>
        BY <2>2 DEF RoleStatement
    <2> QED
        BY <1>0, <1>1, <2>1, <2>3
<1>2. CASE script.at = 2
    <2>1. /\ script'.at = 3 /\ script'.failed = script.failed /\ ran' = ran
          /\ Idle' <=> Idle
        BY <1>0, <1>2, Advance DEF Idle
    <2>2. SchemaStatement
        BY <1>2 DEF NextStatement, Statement
    <2> QED
        BY <1>0, <1>2, <2>1, <2>2 DEF SchemaStatement
<1>3. CASE script.at = 3
    <2>1. /\ script'.at = 4 /\ script'.failed = script.failed /\ ran' = ran
          /\ Idle' <=> Idle
        BY <1>0, <1>3, Advance DEF Idle
    <2>2. TableStatements
        BY <1>3 DEF NextStatement, Statement
    <2> QED
        BY <1>0, <1>3, <2>1, <2>2 DEF TableStatements
<1>4. CASE script.at = 4
    <2>1. /\ script'.at = 5 /\ script'.failed = script.failed /\ ran' = ran
          /\ Idle' <=> Idle
        BY <1>0, <1>4, Advance DEF Idle
    <2>2. PartitionBlock
        BY <1>4 DEF NextStatement, Statement
    <2> QED
        BY <1>0, <1>4, <2>1, <2>2 DEF PartitionBlock
<1>5. CASE script.at = 5
    <2>1. /\ script'.at = 6 /\ script'.failed = script.failed /\ ran' = ran
          /\ Idle' <=> Idle
        BY <1>0, <1>5, Advance DEF Idle
    <2>2. OwnershipBlock
        BY <1>5 DEF NextStatement, Statement
    <2>3. schema => tables' = "logger"
        BY <1>0, <1>5, <2>2 DEF OwnershipBlock, Owned
    <2>4. NoneLeft'
        BY <2>2 DEF OwnershipBlock, Owned
    <2>5. granted' => tables' = "logger"
        BY <2>2 DEF OwnershipBlock, Owned
    <2> QED
        BY <1>0, <1>5, <2>1, <2>2, <2>3, <2>4, <2>5 DEF OwnershipBlock
<1>6. CASE script.at = 6
    <2>1. Idle' /\ ran' = IF script.failed THEN "part" ELSE "whole"
        BY <1>0, <1>6, Advance
    <2>2. GrantStatements
        BY <1>6 DEF NextStatement, Statement
    <2>3. tables = "logger"
        BY <1>0, <1>6, <2>2 DEF GrantStatements
    <2> QED
        BY <1>0, <1>6, <2>1, <2>2, <2>3 DEF GrantStatements
<1> QED
    BY <1>0, <1>1, <1>2, <1>3, <1>4, <1>5, <1>6

LEMMA FailureKeeps ==
    ASSUME TypeOK, BootInv, StatementFails
    PROVE  BootInv'
<1> USE DEF TypeOK, BootInv, DoneAnyway, DoneWell, WholeRunServes, NoneLeft, Past
<1>1. UNCHANGED <<role, schema, tables, parts, granted>>
    BY DEF StatementFails, objects
<1>2. CASE Idle' /\ ran' = "part"
    BY <1>1, <1>2
<1> DEFINE GoesOn == /\ script.at # NumStatements
                     /\ script' = [script EXCEPT !.at = @ + 1, !.failed = TRUE]
                     /\ ran' = ran
<1>3. CASE GoesOn
    <2>1. /\ script'.at = script.at + 1 /\ script'.failed = TRUE /\ script'.by = script.by
          /\ script.at \in 1 .. 5
        BY <1>3 DEF ScriptTypes, NumStatements
    <2>2. ~Idle /\ ~Idle' /\ ran' = "part"
        BY <1>3, <2>1 DEF StatementFails, Idle
    <2>3. Past(3)' /\ schema => tables # "none"
        BY <2>1, <2>2 DEF StatementFails, Fails
    <2>4. Past(5)' /\ schema /\ role # None => tables = "logger"
        BY <2>1, <2>2 DEF StatementFails, Fails
    <2> QED
        BY <1>1, <2>1, <2>2, <2>3, <2>4
<1>4. (Idle' /\ ran' = "part") \/ GoesOn
    BY DEF StatementFails, Finish, NoRun, Idle
<1> QED
    BY <1>2, <1>3, <1>4

(* Steps that neither run the script nor touch what it made.                *)
LEMMA OthersKeep ==
    ASSUME TypeOK, BootInv, UNCHANGED <<script, ran, role, schema, tables, granted>>,
           \A m \in Months : parts'[m] = "postgres" => parts[m] = "postgres"
    PROVE  BootInv'
BY DEF BootInv, DoneAnyway, DoneWell, WholeRunServes, NoneLeft, Past, Idle

(* Steps that end a run, if one is under way.                               *)
LEMMA StopKeeps ==
    ASSUME TypeOK, BootInv, script' = NoRun, UNCHANGED <<ran, objects>>
    PROVE  BootInv'
<1>1. Idle'
    BY DEF Idle, NoRun
<1> QED
    BY <1>1 DEF BootInv, DoneAnyway, DoneWell, WholeRunServes, NoneLeft, Past, objects

(* Steps that begin a run, or leave a database without the schema.          *)
LEMMA BeginKeeps ==
    ASSUME TypeOK, BootInv, ran' # "whole",
           \/ /\ UNCHANGED objects
              /\ script'.at = 1 /\ ran' = "part"
           \/ ~granted' /\ Idle'
    PROVE  BootInv'
BY DEF BootInv, DoneAnyway, DoneWell, WholeRunServes, Past, objects

LEMMA BootStep ==
    ASSUME TypeOK, BootInv, [Next]_vars
    PROVE  BootInv'
<1>0. CASE UNCHANGED vars
    BY <1>0, OthersKeep DEF vars, database, objects
<1>1. CASE ServerStart
    <2>1. CASE volume
        BY <1>1, <2>1, OthersKeep DEF ServerStart, objects
    <2>2. CASE ~volume
        <3>1. script' = [by |-> "boot", at |-> 1, failed |-> FALSE] /\ ran' = "part"
            BY <1>1, <2>2 DEF ServerStart
        <3> QED
            BY <1>1, <3>1, BeginKeeps DEF ServerStart
    <2> QED
        BY <2>1, <2>2
<1>2. CASE Runs
    BY <1>2, RunKeeps DEF Runs
<1>3. CASE RunsInto
    BY <1>3, FailureKeeps DEF RunsInto
<1>4. CASE Turns
    BY <1>4, OthersKeep DEF Turns, MonthTurns, objects
<1>5. CASE ProcessStarts \/ Probe \/ StartPeriodEnds \/ Recycle \/ EditEnv
    <2>1. UNCHANGED <<script, ran, role, schema, tables, parts, granted>>
        BY <1>5 DEF ProcessStarts, Probe, StartPeriodEnds, Recycle, EditEnv, database, objects
    <2> QED
        BY <2>1, OthersKeep
<1>6. CASE Lifespan
    <2>1. \A m \in Months : parts'[m] = "postgres" => parts[m] = "postgres"
        BY <1>6 DEF Lifespan, Ensured, Seeded, CanManage
    <2> QED
        BY <1>6, <2>1, OthersKeep DEF Lifespan
<1>7. CASE DailyRun
    <2>1. \A m \in Months : parts'[m] = "postgres" => parts[m] = "postgres"
        BY <1>7 DEF DailyRun, Dropped, Ensured, Seeded, CanManage
    <2> QED
        BY <1>7, <2>1, OthersKeep DEF DailyRun
<1>8. CASE Crash
    <2>1. CASE ServerStops
        BY <2>1, StopKeeps DEF ServerStops
    <2>2. CASE ProcessEnds
        BY <2>2, OthersKeep DEF ProcessEnds, database, objects
    <2> QED
        BY <1>8, <2>1, <2>2 DEF Crash
<1>9. CASE Recreate
    <2>1. CASE ServerStops
        BY <2>1, StopKeeps DEF ServerStops
    <2>2. CASE UNCHANGED database
        BY <2>2, OthersKeep DEF database, objects
    <2> QED
        BY <1>9, <2>1, <2>2 DEF Recreate
<1>10. CASE Rerun
    <2>1. CASE RunByHand
        <3>1. script' = [by |-> "hand", at |-> 1, failed |-> FALSE] /\ ran' = "part"
            BY <2>1 DEF RunByHand
        <3> QED
            BY <2>1, <3>1, BeginKeeps DEF RunByHand
    <2>2. CASE DropSchema
        <3>1. Idle' /\ ~granted' /\ ran' = "part"
            BY <2>2 DEF DropSchema, Idle
        <3> QED
            BY <3>1, BeginKeeps
    <2> QED
        BY <1>10, <2>1, <2>2 DEF Rerun
<1>11. CASE Wipe
    <2>1. Idle' /\ ~granted' /\ ran' = "never"
        BY <1>11 DEF Wipe, Idle, NoRun
    <2> QED
        BY <2>1, BeginKeeps
<1> QED
    BY <1>0, <1>1, <1>2, <1>3, <1>4, <1>5, <1>6, <1>7, <1>8, <1>9, <1>10, <1>11, StepsOfNext

LEMMA BootHolds == Spec => []BootInv
<1>1. Init => BootInv
    <2> SUFFICES ASSUME Init PROVE BootInv
        OBVIOUS
    <2>1. Idle /\ ~granted /\ ran = "never"
        BY DEF Init, Idle, NoRun
    <2> QED
        BY <2>1 DEF BootInv, DoneAnyway, DoneWell, WholeRunServes, Past
<1>2. TypeOK /\ BootInv /\ [Next]_vars => BootInv'
    BY BootStep
<1> QED
    BY <1>1, <1>2, TypeCorrect, PTL DEF Spec

(* A run of init.sql that ends without an error leaves a database the role  *)
(* can serve and maintain, whatever earlier runs left and wherever they     *)
(* were stopped (init.sql:25-470).                                          *)
THEOREM BootCorrect == Spec => []WholeRunServes
<1>1. BootInv => WholeRunServes
    BY DEF BootInv
<1> QED
    BY <1>1, BootHolds, PTL

(* No run of init.sql, stopped anywhere, leaves a database whose rows the   *)
(* role can write and whose partitions it cannot maintain: the grants come  *)
(* last, after the hand-over of the ownership.                              *)
THEOREM WriterCorrect == Spec => []WriterMaintains
<1>1. BootInv => WriterMaintains
    BY DEF BootInv, WriterMaintains, CanInsert, CanManage
<1> QED
    BY <1>1, BootHolds, PTL

-----------------------------------------------------------------------------
(* The password.                                                            *)

PasswordInv ==
    /\ PasswordsAgree
    /\ ~stale => guc = env.password

(* The role, the service and .env agree on the password unless .env was     *)
(* edited and init.sql has not been run since.                              *)
THEOREM PasswordsCorrect == Spec => []PasswordsAgree
<1>1. Init => PasswordInv
    BY DEF Init, PasswordInv, PasswordsAgree
<1>2. TypeOK /\ PasswordInv /\ [Next]_vars => PasswordInv'
    <2> SUFFICES ASSUME TypeOK, PasswordInv, [Next]_vars PROVE PasswordInv'
        OBVIOUS
    <2> USE DEF PasswordInv, PasswordsAgree
    <2>1. CASE UNCHANGED <<guc, conf, role, env, stale>>
        BY <2>1
    <2>2. CASE Runs
        <3>1. UNCHANGED <<guc, conf, env>>
            BY <2>2 DEF Runs, NextStatement, ByItself, service
        <3>2. CASE script.at = 1
            <4>1. role' = guc
                BY <2>2, <3>2 DEF Runs, NextStatement, Statement, RoleStatement
            <4>2. ~stale' => guc = env.password /\ conf.password = env.password
                BY <2>2, <3>2 DEF Runs
            <4> QED
                BY <3>1, <4>1, <4>2
        <3>3. CASE script.at # 1
            <4>1. role' = role
                BY <2>2, <3>3 DEF Runs, NextStatement, Statement, SchemaStatement,
                    TableStatements, PartitionBlock, OwnershipBlock, GrantStatements
            <4>2. stale' = stale
                BY <2>2, <3>3 DEF Runs, TypeOK, OperatorTypes
            <4> QED
                BY <3>1, <4>1, <4>2
        <3> QED
            BY <3>2, <3>3
    <2>3. CASE EditEnv
        BY <2>3 DEF EditEnv, database, service, objects, TypeOK, OperatorTypes
    <2>4. CASE Recreate
        BY <2>4 DEF Recreate, ServerStops, database, objects
    <2>5. CASE Wipe
        BY <2>5 DEF Wipe
    <2>6. \/ UNCHANGED <<guc, conf, role, env, stale>>
          \/ Runs \/ EditEnv \/ Recreate \/ Wipe
        BY StepsOfNext DEF vars, database, objects, service, ServerStart, RunsInto, StatementFails,
            Turns, MonthTurns, ProcessStarts, Lifespan, DailyRun, Probe, StartPeriodEnds,
            Recycle, Crash, ServerStops, ProcessEnds, Rerun, RunByHand, DropSchema, ByItself
    <2> QED
        BY <2>1, <2>2, <2>3, <2>4, <2>5, <2>6
<1>3. PasswordInv => PasswordsAgree
    BY DEF PasswordInv
<1> QED
    BY <1>1, <1>2, <1>3, TypeCorrect, PTL DEF Spec

-----------------------------------------------------------------------------
(* A first boot that stopped half-way.                                      *)

(* Nothing but init.sql by hand or a wiped volume repairs a database that   *)
(* was left half-initialised.                                               *)
THEOREM HalfBootStaysBroken == Spec => HalfBootStays
<1>1. [Next]_vars => (Broken => Broken' \/ script'.by = "hand" \/ ~volume')
    <2> SUFFICES ASSUME [Next]_vars, Broken
                 PROVE  Broken' \/ script'.by = "hand" \/ ~volume'
        OBVIOUS
    <2>1. CASE UNCHANGED <<volume, script, role, tables>>
        BY <2>1 DEF Broken, Idle
    <2>2. CASE /\ script' = NoRun
               /\ UNCHANGED <<volume, role, tables>>
        BY <2>2 DEF Broken, Idle, NoRun
    <2>3. CASE Rerun
        <3>1. CASE RunByHand
            <4>1. script' = [by |-> "hand", at |-> 1, failed |-> FALSE]
                BY <3>1 DEF RunByHand
            <4> QED
                BY <4>1
        <3>2. CASE DropSchema
            <4>1. tables' = "none" /\ volume' = volume /\ script' = script
                BY <3>2 DEF DropSchema
            <4> QED
                BY <4>1 DEF Broken, Idle
        <3> QED
            BY <2>3, <3>1, <3>2 DEF Rerun
    <2>4. CASE Wipe
        BY <2>4 DEF Wipe
    <2>5. ~Runs /\ ~RunsInto
        BY DEF Broken, Runs, NextStatement, RunsInto, StatementFails
    <2>6. ServerStart => UNCHANGED <<volume, script, role, tables>>
        BY DEF Broken, ServerStart, objects
    <2>7. \/ UNCHANGED <<volume, script, role, tables>>
          \/ script' = NoRun /\ UNCHANGED <<volume, role, tables>>
          \/ Rerun \/ Wipe
        BY <2>5, <2>6, StepsOfNext DEF vars, database, objects, Turns, MonthTurns, ProcessStarts,
            Lifespan, DailyRun, Probe, StartPeriodEnds, Recycle, Crash, ServerStops,
            ProcessEnds, EditEnv, Recreate
    <2> QED
        BY <2>1, <2>2, <2>3, <2>4, <2>7
<1> QED
    BY <1>1, PTL DEF Spec, HalfBootStays
=============================================================================
