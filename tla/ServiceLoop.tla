----------------------------- MODULE ServiceLoop -----------------------------
(***************************************************************************)
(* One service process under load: the event loop, the database sessions of  *)
(* its requests, the connection pool and the executor thread of the daily    *)
(* job (src/api.py, get_db and engine of src/models.py, _daily_run of         *)
(* src/scheduler.py, the DDL of src/partitioning.py).                         *)
(*                                                                         *)
(* create_event and stats are coroutines without an await around their        *)
(* database calls: from its first statement to its return such a handler is   *)
(* the only thing the loop does.  Its session is closed later, by the exit    *)
(* of the get_db dependency, which the loop has to hand to a worker thread.   *)
(* Until then the session keeps its connection, and the transaction of its    *)
(* last SELECT keeps an ACCESS SHARE lock on the tables it read.              *)
(*                                                                         *)
(* PostgreSQL's locks: creating or dropping a partition takes ACCESS          *)
(* EXCLUSIVE on the parent, waits for every session that holds a lock on it,  *)
(* and a statement that comes after it waits behind it.                       *)
(***************************************************************************)
EXTENDS Integers, Sequences, FiniteSets

CONSTANTS
    NumTables,   \* the managed tables, 1 .. NumTables
    Posts,       \* requests to POST /events
    Stats,       \* requests to GET /stats
    TableOf,     \* the table each event of Posts is dispatched to
    DDLTables,   \* the tables whose partitions the job may have to change
    PoolSize,    \* pool_size + max_overflow
    Free,        \* no handler on the loop
    NoTable      \* no table

Tables == 1 .. NumTables
Requests == Posts \cup Stats

ASSUME ServiceLoopAssumption ==
    /\ NumTables \in Nat \ {0}
    /\ TableOf \in [Posts -> Tables]
    /\ DDLTables \subseteq Tables
    /\ PoolSize \in Nat \ {0}
    /\ Free \notin Requests
    /\ NoTable \notin Tables
    /\ Posts \cap Stats = {}

VARIABLES
    loop,    \* the request whose handler runs on the event loop, or Free
    phase,   \* where each request stands
    step,    \* how many statements of its handler have completed
    conn,    \* the requests that have a connection of the pool checked out
    job,     \* the daily job: off, checkout, wait (for a lock) or ddl
    pos      \* the table the job is at

vars == <<loop, phase, step, conn, job, pos>>

(* The statements of a handler, by the table they lock: INSERT and the      *)
(* SELECT of db.refresh; the counts of the three tables (their minima and   *)
(* maxima need no further lock).                                            *)
Statements(r) ==
    IF r \in Posts THEN <<TableOf[r], TableOf[r]>> ELSE [k \in Tables |-> k]

(* Mutant of Held: a count's lock is there before its statement.            *)
HeldAhead(r) ==
    IF r \notin conn THEN {}
    ELSE IF r \in Posts
    THEN IF step[r] = 2 THEN {TableOf[r]} ELSE {}
    ELSE 1 .. step[r] + 1

(* The tables a session holds locks on.  The INSERT's are released by       *)
(* commit; those of SELECTs stay until the session is closed.               *)
Held(r) ==
    IF r \notin conn THEN {}
    ELSE IF r \in Posts
    THEN IF step[r] = 2 THEN {TableOf[r]} ELSE {}
    ELSE 1 .. step[r]

JobConnection == IF job \in {"wait", "ddl"} THEN 1 ELSE 0
(* Mutant of PoolFull: a connection too many.                               *)
PoolFullLate == Cardinality(conn) + JobConnection > PoolSize

PoolFull == Cardinality(conn) + JobConnection >= PoolSize

(* The table on which the job's DDL holds or awaits ACCESS EXCLUSIVE.       *)
JobTable == IF job \in {"wait", "ddl"} THEN pos ELSE NoTable

TypeOK ==
    /\ loop \in Requests \cup {Free}
    /\ phase \in [Requests -> {"queued", "running", "open", "closing", "done"}]
    /\ step \in [Requests -> Nat]
    /\ \A r \in Requests : step[r] <= Len(Statements(r))
    /\ conn \subseteq Requests
    /\ IsFiniteSet(conn)
    /\ Cardinality(conn) + JobConnection <= PoolSize
    /\ job \in {"off", "checkout", "wait", "ddl"}
    /\ pos \in Tables

Init ==
    /\ loop = Free
    /\ phase = [r \in Requests |-> "done"]
    /\ step = [r \in Requests |-> 0]
    /\ conn = {}
    /\ job = "off"
    /\ pos = 1

-----------------------------------------------------------------------------
(* Requests.                                                                *)

(* A request arrives, passes the API key check and gets its session object. *)
Arrive(r) ==
    /\ loop = Free
    /\ phase[r] = "done"
    /\ phase' = [phase EXCEPT ![r] = "queued"]
    /\ UNCHANGED <<loop, step, conn, job, pos>>

(* The loop enters the handler.                                             *)
Begin(r) ==
    /\ loop = Free
    /\ phase[r] = "queued"
    /\ loop' = r
    /\ phase' = [phase EXCEPT ![r] = "running"]
    /\ UNCHANGED <<step, conn, job, pos>>

(* The first statement of a transaction checks a connection out.            *)
Checkout(r) ==
    /\ loop = r
    /\ r \notin conn
    /\ ~PoolFull
    /\ conn' = conn \cup {r}
    /\ UNCHANGED <<loop, phase, step, job, pos>>

(* The handler returns, or raises HTTPException(500), to the loop.          *)
HandlerEnds(r) ==
    /\ loop' = Free
    /\ phase' = [phase EXCEPT ![r] = "open"]

(* verify_event refuses the event: 401, before any statement.               *)
Refuse(r) ==
    /\ loop = r
    /\ r \in Posts \ conn
    /\ step[r] = 0
    /\ HandlerEnds(r)
    /\ UNCHANGED <<step, conn, job, pos>>

(* Mutant of CheckoutTimesOut: a pool without a timeout.                    *)
NeverTimesOut(r) ==
    /\ loop = r
    /\ FALSE
    /\ UNCHANGED vars

(* pool_timeout: after 30 seconds without a free connection the statement   *)
(* raises; rollback; 500.  The session has nothing checked out.             *)
CheckoutTimesOut(r) ==
    /\ loop = r
    /\ r \notin conn
    /\ PoolFull
    /\ HandlerEnds(r)
    /\ UNCHANGED <<step, conn, job, pos>>

(* A statement gets its lock and runs.  The INSERT is committed at once,    *)
(* which returns the connection; db.refresh checks out another one.         *)
Execute(r) ==
    /\ loop = r
    /\ r \in conn
    /\ LET k == step[r] + 1 IN
        /\ Statements(r)[k] # JobTable
        /\ step' = [step EXCEPT ![r] = k]
        /\ conn' = IF r \in Posts /\ k = 1 THEN conn \ {r} ELSE conn
        /\ IF k = Len(Statements(r))
           THEN HandlerEnds(r)
           ELSE UNCHANGED <<loop, phase>>
    /\ UNCHANGED <<job, pos>>

(* A statement fails, or its connection breaks: the locks go with the        *)
(* transaction.  create_event rolls back, which returns the connection;     *)
(* stats leaves that to the closing of its session.                         *)
ExecuteFails(r) ==
    /\ loop = r
    /\ r \in conn
    /\ step' = [step EXCEPT ![r] = 0]
    /\ conn' = IF r \in Posts THEN conn \ {r} ELSE conn
    /\ HandlerEnds(r)
    /\ UNCHANGED <<job, pos>>

(* Mutant of DispatchClose: the exit runs without the loop.                 *)
DispatchUnasked(r) ==
    /\ phase[r] = "open"
    /\ phase' = [phase EXCEPT ![r] = "closing"]
    /\ UNCHANGED <<loop, step, conn, job, pos>>

(* The loop hands the exit of get_db to a worker thread.                    *)
DispatchClose(r) ==
    /\ loop = Free
    /\ phase[r] = "open"
    /\ phase' = [phase EXCEPT ![r] = "closing"]
    /\ UNCHANGED <<loop, step, conn, job, pos>>

(* Mutant of Close: a session that is dropped instead of closed.            *)
CloseLeaks(r) ==
    /\ phase[r] = "closing"
    /\ phase' = [phase EXCEPT ![r] = "done"]
    /\ step' = [step EXCEPT ![r] = 0]
    /\ UNCHANGED <<loop, conn, job, pos>>

(* db.close() in the worker thread: transaction ended, connection returned. *)
Close(r) ==
    /\ phase[r] = "closing"
    /\ phase' = [phase EXCEPT ![r] = "done"]
    /\ step' = [step EXCEPT ![r] = 0]
    /\ conn' = conn \ {r}
    /\ UNCHANGED <<loop, job, pos>>

-----------------------------------------------------------------------------
(* The daily job.                                                           *)

(* The trigger fires on the loop; _run_blocking goes to the executor.       *)
JobStart ==
    /\ loop = Free
    /\ job = "off"
    /\ job' = "checkout"
    /\ pos' = 1
    /\ UNCHANGED <<loop, phase, step, conn>>

(* Mutant of JobAdvances: the pass does not end with the last table.        *)
JobOverruns ==
    /\ pos' = pos + 1
    /\ job' = "checkout"

(* On to the next table; a pass that has seen the last one is over.         *)
JobAdvances ==
    \/ /\ pos < NumTables
       /\ pos' = pos + 1
       /\ job' = "checkout"
    \/ /\ pos = NumTables
       /\ pos' = 1
       /\ job' = "off"

(* Nothing to create or drop in this table, or no connection in 30 seconds, *)
(* which is logged and swallowed.                                           *)
JobSkips ==
    /\ job = "checkout"
    /\ JobAdvances
    /\ UNCHANGED <<loop, phase, step, conn>>

(* CREATE TABLE ... PARTITION OF or DROP TABLE is sent.                     *)
JobRequestsLock ==
    /\ job = "checkout"
    /\ pos \in DDLTables
    /\ ~PoolFull
    /\ job' = "wait"
    /\ UNCHANGED <<loop, phase, step, conn, pos>>

JobGetsLock ==
    /\ job = "wait"
    /\ \A r \in Requests : pos \notin Held(r)
    /\ job' = "ddl"
    /\ UNCHANGED <<loop, phase, step, conn, pos>>

JobCommits ==
    /\ job = "ddl"
    /\ JobAdvances
    /\ UNCHANGED <<loop, phase, step, conn>>

(* The DDL fails or its connection breaks: logged, and on to the next table. *)
JobFails ==
    /\ job \in {"wait", "ddl"}
    /\ JobAdvances
    /\ UNCHANGED <<loop, phase, step, conn>>

-----------------------------------------------------------------------------
Handler(r) == Checkout(r) \/ CheckoutTimesOut(r) \/ Execute(r)

Request(r) ==
    \/ Arrive(r) \/ Begin(r) \/ Handler(r) \/ ExecuteFails(r)
    \/ Refuse(r) \/ DispatchClose(r) \/ Close(r)

Job ==
    \/ JobStart \/ JobSkips \/ JobRequestsLock \/ JobGetsLock
    \/ JobCommits \/ JobFails

Next == Job \/ \E r \in Requests : Request(r)

Spec == Init /\ [][Next]_vars

(* The threads run, and statements that can go on do; no failure is assumed *)
(* to come and undo a wait.  asyncio runs the ready callbacks of the loop in the     *)
(* order they became ready, so none is passed over for ever.                *)
Fairness ==
    /\ WF_vars(JobSkips \/ JobRequestsLock)
    /\ WF_vars(JobGetsLock)
    /\ WF_vars(JobCommits)
    /\ \A r \in Requests :
        /\ WF_vars(Handler(r))
        /\ WF_vars(Close(r))
        /\ SF_vars(Begin(r))
        /\ SF_vars(DispatchClose(r))

FairSpec == Spec /\ Fairness

-----------------------------------------------------------------------------
(* Properties.                                                              *)

(* The handler of one request runs at a time, it has a statement left, and  *)
(* it is the loop's.                                                        *)
LoopOwner ==
    \A r \in Requests :
        /\ phase[r] = "running" <=> loop = r
        /\ phase[r] = "running" => step[r] < Len(Statements(r))

(* No connection leaks: one that is checked out belongs to a request whose  *)
(* handler runs or whose session is yet to be closed (models.py:425-428),   *)
(* however its handler ended.  Without a connection there is no statement   *)
(* behind it either, unless it is the committed INSERT.                     *)
NoConnectionLeaks ==
    \A r \in Requests :
        /\ phase[r] \in {"queued", "done"} => r \notin conn /\ step[r] = 0
        /\ r \notin conn => step[r] = 0 \/ (r \in Posts /\ step[r] = 1)

(* While the job's DDL runs, no session holds a lock on its table.          *)
DDLIsAlone == job = "ddl" => \A r \in Requests : pos \notin Held(r)

ServiceInv ==
    /\ TypeOK
    /\ LoopOwner
    /\ NoConnectionLeaks
    /\ DDLIsAlone

(* Every request is answered and its session closed, although handlers      *)
(* occupy the loop while they wait for the pool: as long as the job's DDL   *)
(* is on other tables than the requests.                                    *)
EveryRequestFinishes ==
    \A r \in Requests : phase[r] = "queued" ~> phase[r] = "done"

(* The handler on the loop waits behind the job's DDL, which waits for a    *)
(* session whose closing waits for the loop.  Neither PostgreSQL (no cycle  *)
(* of backends) nor a timeout (none is configured) ends it.                 *)
Deadlocked ==
    /\ job = "wait"
    /\ loop \in conn
    /\ Statements(loop)[step[loop] + 1] = pos
    /\ \E r \in Requests : phase[r] = "open" /\ pos \in Held(r)

(* No thread can take a step: the handler's statement waits for a lock, the *)
(* job's DDL waits for another session or there is none, and no worker      *)
(* thread has a session to close.                                           *)
HandlerWaits == loop \in conn /\ Statements(loop)[step[loop] + 1] = JobTable

JobWaits == job = "off" \/ (job = "wait" /\ \E r \in Requests : pos \in Held(r))

Stalled ==
    /\ loop # Free
    /\ HandlerWaits
    /\ JobWaits
    /\ \A r \in Requests : phase[r] # "closing"

(* That deadlock is the only standstill of an occupied loop: neither a full *)
(* pool nor a lock of the handler's own session, of one being closed or of  *)
(* a request without a handler is part of any (models.py:93-110, 420-428).  *)
StallIsDeadlock == Stalled => Deadlocked

(* It lasts: neither new requests nor sessions being closed end it, only a  *)
(* statement that fails, for which no timeout is configured (models.py:103).  *)
DeadlockLasts ==
    [][Deadlocked =>
        Deadlocked' \/ JobFails \/ \E r \in Requests : ExecuteFails(r)]_vars

(* That deadlock is the only way the loop can stop: no full pool, DDL in    *)
(* progress or session being closed ever blocks it for good.                *)
StallsOnlyByDeadlock == []<>(loop = Free \/ Deadlocked)

(* "Runs the synchronous SQL work in an executor so we don't block the      *)
(* FastAPI event loop while SQL is executing" (scheduler.py:155): the loop  *)
(* is free again and again.                                                 *)
LoopKeepsRunning == []<>(loop = Free)
=============================================================================
