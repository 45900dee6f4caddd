-------------------------- MODULE ServiceLoopProofs --------------------------
(***************************************************************************)
(* Theorems about ServiceLoop, for every number of tables, set of requests,  *)
(* dispatch of events to tables and size of the pool.                        *)
(***************************************************************************)
EXTENDS ServiceLoop, FiniteSetTheorems, TLAPS

-----------------------------------------------------------------------------
(* The statements of a handler: an event's two on its table, or one for     *)
(* each of the tables.                                                      *)
LEMMA StatementFacts ==
    ASSUME NEW r \in Requests
    PROVE  /\ Len(Statements(r)) \in Nat \ {0}
           /\ r \in Posts => /\ Len(Statements(r)) = 2
                             /\ Statements(r)[1] = TableOf[r]
                             /\ Statements(r)[2] = TableOf[r]
                             /\ TableOf[r] \in Tables
           /\ r \notin Posts => /\ Len(Statements(r)) = NumTables
                                /\ \A k \in Tables : Statements(r)[k] = k
<1>1. CASE r \in Posts
    <2>1. TableOf[r] \in Tables
        BY <1>1, ServiceLoopAssumption
    <2> QED
        BY <1>1, <2>1 DEF Statements
<1>2. CASE r \notin Posts
    <2>1. Statements(r) = [k \in 1 .. NumTables |-> k]
        BY <1>2 DEF Statements, Tables
    <2>2. Len([k \in 1 .. NumTables |-> k]) = NumTables
        BY ServiceLoopAssumption
    <2> QED
        BY <1>2, <2>1, <2>2, ServiceLoopAssumption DEF Tables
<1> QED
    BY <1>1, <1>2

(* Taking a connection out of the pool, and giving one back.                *)
LEMMA ConnTaken ==
    ASSUME IsFiniteSet(conn), NEW r, r \notin conn
    PROVE  /\ IsFiniteSet(conn \cup {r})
           /\ Cardinality(conn) \in Nat
           /\ Cardinality(conn \cup {r}) = Cardinality(conn) + 1
BY FS_AddElement, FS_CardinalityType

LEMMA ConnReturned ==
    ASSUME IsFiniteSet(conn), NEW r
    PROVE  /\ IsFiniteSet(conn \ {r})
           /\ Cardinality(conn) \in Nat
           /\ Cardinality(conn \ {r}) \in Nat
           /\ Cardinality(conn \ {r}) <= Cardinality(conn)
<1>1. IsFiniteSet(conn \ {r}) /\ Cardinality(conn) \in Nat
    BY FS_RemoveElement, FS_CardinalityType
<1>2. Cardinality(conn \ {r}) \in Nat
    BY <1>1, FS_CardinalityType
<1>3. CASE r \in conn
    BY <1>1, <1>2, <1>3, FS_RemoveElement
<1>4. CASE r \notin conn
    <2>1. conn \ {r} = conn
        BY <1>4
    <2> QED
        BY <1>1, <1>2, <2>1
<1> QED
    BY <1>1, <1>2, <1>3, <1>4

(* A step that takes no connection keeps within the size of the pool.       *)
LEMMA PoolKept ==
    ASSUME TypeOK, NEW r, conn' = conn \/ conn' = conn \ {r}, job' = job
    PROVE  IsFiniteSet(conn') /\ Cardinality(conn') + JobConnection' <= PoolSize
<1>1. JobConnection' = JobConnection /\ JobConnection \in Nat
    BY DEF JobConnection
<1>2. /\ IsFiniteSet(conn') /\ Cardinality(conn') \in Nat
      /\ Cardinality(conn) \in Nat /\ Cardinality(conn') <= Cardinality(conn)
    <2>1. CASE conn' = conn
        <3>1. Cardinality(conn) \in Nat
            BY FS_CardinalityType DEF TypeOK
        <3> QED
            BY <2>1, <3>1 DEF TypeOK
    <2>2. CASE conn' = conn \ {r}
        BY <2>2, ConnReturned DEF TypeOK
    <2> QED
        BY <2>1, <2>2
<1> QED
    BY <1>1, <1>2, ServiceLoopAssumption DEF TypeOK

-----------------------------------------------------------------------------
LEMMA ServiceInit == Init => ServiceInv
<1> SUFFICES ASSUME Init PROVE ServiceInv
    OBVIOUS
<1>1. TypeOK
    <2>1. step \in [Requests -> Nat] /\ \A r \in Requests : step[r] <= Len(Statements(r))
        BY StatementFacts DEF Init
    <2>2. IsFiniteSet(conn) /\ Cardinality(conn) + JobConnection <= PoolSize
        BY FS_EmptySet, ServiceLoopAssumption DEF Init, JobConnection
    <2> QED
        BY <2>1, <2>2, ServiceLoopAssumption DEF Init, TypeOK, Tables
<1>2. LoopOwner /\ NoConnectionLeaks /\ DDLIsAlone
    BY ServiceLoopAssumption DEF Init, LoopOwner, NoConnectionLeaks, DDLIsAlone
<1> QED
    BY <1>1, <1>2 DEF ServiceInv

(* Arriving, entering the handler, and handing a session over to be closed  *)
(* touch neither connections nor the job.                                   *)
LEMMA SchedulingStep ==
    ASSUME ServiceInv, NEW r \in Requests, Arrive(r) \/ Begin(r) \/ DispatchClose(r)
    PROVE  ServiceInv'
<1> USE DEF ServiceInv
<1>1. TypeOK'
    BY DEF TypeOK, Arrive, Begin, DispatchClose, JobConnection
<1>2. LoopOwner'
    BY StatementFacts, ServiceLoopAssumption
    DEF TypeOK, LoopOwner, NoConnectionLeaks, Arrive, Begin, DispatchClose
<1>3. NoConnectionLeaks'
    BY DEF TypeOK, NoConnectionLeaks, Arrive, Begin, DispatchClose, LoopOwner
<1>4. DDLIsAlone'
    BY DEF DDLIsAlone, Held, Arrive, Begin, DispatchClose
<1> QED
    BY <1>1, <1>2, <1>3, <1>4

LEMMA CheckoutStep ==
    ASSUME ServiceInv, NEW r \in Requests, Checkout(r)
    PROVE  ServiceInv'
<1> USE DEF ServiceInv
<1>1. TypeOK'
    <2>1. IsFiniteSet(conn') /\ Cardinality(conn') = Cardinality(conn) + 1
          /\ Cardinality(conn) \in Nat
        BY ConnTaken DEF TypeOK, Checkout
    <2>2. Cardinality(conn') + JobConnection' <= PoolSize
        BY <2>1, ServiceLoopAssumption DEF Checkout, PoolFull, JobConnection
    <2> QED
        BY <2>1, <2>2 DEF TypeOK, Checkout
<1>2. LoopOwner' /\ NoConnectionLeaks'
    BY DEF LoopOwner, NoConnectionLeaks, Checkout
<1>3. DDLIsAlone'
    <2> SUFFICES ASSUME job = "ddl", NEW q \in Requests PROVE pos \notin Held(q)'
        BY DEF DDLIsAlone, Checkout
    <2>1. CASE q = r
        <3>1. step[r] = 0 \/ (r \in Posts /\ step[r] = 1)
            BY DEF Checkout, NoConnectionLeaks
        <3>2. Held(r)' = {}
            BY <3>1 DEF Checkout, Held
        <3> QED
            BY <2>1, <3>2
    <2>2. CASE q # r
        BY <2>2 DEF Checkout, Held, DDLIsAlone
    <2> QED
        BY <2>1, <2>2
<1> QED
    BY <1>1, <1>2, <1>3

(* The handler ends before a statement of it has a connection.              *)
LEMMA RefusedStep ==
    ASSUME ServiceInv, NEW r \in Requests, Refuse(r) \/ CheckoutTimesOut(r)
    PROVE  ServiceInv'
<1> USE DEF ServiceInv
<1>1. loop = r /\ HandlerEnds(r) /\ UNCHANGED <<step, conn, job, pos>>
    BY DEF Refuse, CheckoutTimesOut
<1>2. TypeOK'
    BY <1>1 DEF TypeOK, HandlerEnds, JobConnection
<1>3. LoopOwner' /\ NoConnectionLeaks'
    BY <1>1, ServiceLoopAssumption
    DEF TypeOK, LoopOwner, NoConnectionLeaks, HandlerEnds
<1>4. DDLIsAlone'
    BY <1>1 DEF DDLIsAlone, Held
<1> QED
    BY <1>2, <1>3, <1>4

(* A statement never runs on the table of a DDL in progress.                *)
LEMMA ExecuteStep ==
    ASSUME ServiceInv, NEW r \in Requests, Execute(r)
    PROVE  ServiceInv'
<1> USE DEF ServiceInv
<1> DEFINE k == step[r] + 1
           last == Len(Statements(r))
<1>1. /\ loop = r /\ r \in conn
      /\ Statements(r)[k] # JobTable
      /\ step' = [step EXCEPT ![r] = k]
      /\ conn' = IF r \in Posts /\ k = 1 THEN conn \ {r} ELSE conn
      /\ k = last => HandlerEnds(r)
      /\ k # last => UNCHANGED <<loop, phase>>
      /\ UNCHANGED <<job, pos>>
    BY DEF Execute
<1>2. /\ phase[r] = "running" /\ step[r] \in Nat /\ last \in Nat
      /\ k \in 1 .. last
    BY <1>1, StatementFacts DEF TypeOK, LoopOwner
<1>3. TypeOK'
    <2>1. IsFiniteSet(conn') /\ Cardinality(conn') + JobConnection' <= PoolSize
        BY <1>1, PoolKept
    <2>2. \A q \in Requests : step'[q] <= Len(Statements(q))
        BY <1>1, <1>2 DEF TypeOK
    <2>3. step' \in [Requests -> Nat] /\ conn' \subseteq Requests
        BY <1>1, <1>2 DEF TypeOK
    <2> HIDE DEF k, last
    <2> QED
        BY <1>1, <2>1, <2>2, <2>3 DEF TypeOK, HandlerEnds
<1>4. LoopOwner'
    <2> SUFFICES ASSUME NEW q \in Requests
                 PROVE  /\ phase'[q] = "running" <=> loop' = q
                        /\ phase'[q] = "running" => step'[q] < Len(Statements(q))
        BY DEF LoopOwner, Statements
    <2>1. CASE k = last
        BY <1>1, <2>1, ServiceLoopAssumption DEF HandlerEnds, LoopOwner, TypeOK
    <2>2. CASE k # last
        BY <1>1, <1>2, <2>2 DEF LoopOwner, TypeOK
    <2> QED
        BY <2>1, <2>2
<1>5. NoConnectionLeaks'
    BY <1>1, <1>2 DEF NoConnectionLeaks, HandlerEnds, TypeOK
<1>6. DDLIsAlone'
    <2> SUFFICES ASSUME job = "ddl", NEW q \in Requests PROVE pos \notin Held(q)'
        BY <1>1 DEF DDLIsAlone
    <2>1. Statements(r)[k] # pos
        BY <1>1 DEF JobTable
    <2>2. CASE q # r
        BY <1>1, <2>2 DEF Held, DDLIsAlone, TypeOK
    <2>3. CASE q = r /\ r \in Posts
        BY <1>1, <1>2, <2>1, <2>3, StatementFacts DEF Held, DDLIsAlone, TypeOK
    <2>4. CASE q = r /\ r \notin Posts
        <3>1. pos \notin 1 .. step[r] /\ pos \in Tables
            BY <1>1, <2>4 DEF Held, DDLIsAlone, TypeOK
        <3>2. k \in Tables /\ Statements(r)[k] = k
            BY <1>2, <2>4, StatementFacts DEF Tables
        <3>3. Held(r)' = 1 .. k
            BY <1>1, <1>2, <2>4 DEF Held, TypeOK
        <3> QED
            BY <1>2, <2>1, <2>4, <3>1, <3>2, <3>3, ServiceLoopAssumption DEF Tables
    <2> QED
        BY <2>2, <2>3, <2>4
<1> QED
    BY <1>3, <1>4, <1>5, <1>6

(* A failed statement, or the closing of a session, gives back its locks.   *)
LEMMA ReleaseStep ==
    ASSUME ServiceInv, NEW r \in Requests, ExecuteFails(r) \/ Close(r)
    PROVE  ServiceInv'
<1> USE DEF ServiceInv
<1>1. /\ step' = [step EXCEPT ![r] = 0]
      /\ conn' = conn \/ conn' = conn \ {r}
      /\ UNCHANGED <<job, pos>>
    BY DEF ExecuteFails, Close
<1>2. TypeOK'
    <2>1. IsFiniteSet(conn') /\ Cardinality(conn') + JobConnection' <= PoolSize
        BY <1>1, PoolKept
    <2>2. step' \in [Requests -> Nat]
        BY <1>1 DEF TypeOK
    <2>3. \A q \in Requests : step'[q] <= Len(Statements(q))
        BY <1>1, StatementFacts DEF TypeOK
    <2>4. /\ loop' \in Requests \cup {Free}
          /\ phase' \in [Requests -> {"queued", "running", "open", "closing", "done"}]
        BY DEF TypeOK, ExecuteFails, Close, HandlerEnds
    <2> QED
        BY <1>1, <2>1, <2>2, <2>3, <2>4 DEF TypeOK
<1>3. LoopOwner'
    <2> SUFFICES ASSUME NEW q \in Requests
                 PROVE  /\ phase'[q] = "running" <=> loop' = q
                        /\ phase'[q] = "running" => step'[q] < Len(Statements(q))
        BY DEF LoopOwner, Statements
    <2> QED
        BY ServiceLoopAssumption, StatementFacts
        DEF ExecuteFails, Close, HandlerEnds, LoopOwner, TypeOK
<1>4. NoConnectionLeaks'
    BY DEF ExecuteFails, Close, HandlerEnds, NoConnectionLeaks, TypeOK
<1>5. DDLIsAlone'
    <2> SUFFICES ASSUME job = "ddl", NEW q \in Requests PROVE pos \notin Held(q)'
        BY <1>1 DEF DDLIsAlone
    <2>1. CASE q # r
        BY <1>1, <2>1 DEF Held, DDLIsAlone, TypeOK
    <2>2. CASE q = r
        <3>1. Held(r)' = {}
            BY <1>1 DEF Held, TypeOK
        <3> QED
            BY <2>2, <3>1
    <2> QED
        BY <2>1, <2>2
<1> QED
    BY <1>2, <1>3, <1>4, <1>5

(* The job gets its lock only when no session holds one, and leaves the     *)
(* requests alone.                                                          *)
LEMMA JobStep ==
    ASSUME ServiceInv, Job
    PROVE  ServiceInv'
<1> USE DEF ServiceInv
<1>1. UNCHANGED <<loop, phase, step, conn>>
    BY DEF Job, JobStart, JobSkips, JobRequestsLock, JobGetsLock, JobCommits, JobFails
<1>2. TypeOK'
    <2>1. Cardinality(conn) \in Nat
        BY FS_CardinalityType DEF TypeOK
    <2>2. job' \in {"off", "checkout", "wait", "ddl"} /\ pos' \in Tables
        BY ServiceLoopAssumption
        DEF TypeOK, Tables, Job, JobStart, JobSkips, JobRequestsLock,
            JobGetsLock, JobCommits, JobFails, JobAdvances
    <2>3. Cardinality(conn) + JobConnection' <= PoolSize
        BY <2>1, ServiceLoopAssumption
        DEF TypeOK, JobConnection, PoolFull, Job, JobStart, JobSkips,
            JobRequestsLock, JobGetsLock, JobCommits, JobFails, JobAdvances
    <2> QED
        BY <1>1, <2>2, <2>3 DEF TypeOK
<1>3. LoopOwner' /\ NoConnectionLeaks'
    BY <1>1 DEF LoopOwner, NoConnectionLeaks, Statements
<1>4. DDLIsAlone'
    BY <1>1 DEF DDLIsAlone, Held, Job, JobStart, JobSkips, JobRequestsLock,
                JobGetsLock, JobCommits, JobFails, JobAdvances
<1> QED
    BY <1>2, <1>3, <1>4

LEMMA ServiceStep ==
    ASSUME ServiceInv, [Next]_vars
    PROVE  ServiceInv'
<1>1. CASE UNCHANGED vars
    BY <1>1 DEF vars, ServiceInv, TypeOK, JobConnection, LoopOwner,
                NoConnectionLeaks, DDLIsAlone, Held, Statements
<1> QED
    BY <1>1, SchedulingStep, CheckoutStep, RefusedStep, ExecuteStep, ReleaseStep, JobStep
    DEF Next, Request, Handler

(* No session ever leaks its connection, the pool is never overdrawn, the   *)
(* loop runs one handler at a time, and the job's DDL is alone on its       *)
(* table: for any number of requests, tables and connections                *)
(* (models.py:103-116 and 425-428, partitioning.py:122-124 and 210-212).    *)
THEOREM ServiceCorrect == Spec => []ServiceInv
BY ServiceInit, ServiceStep, PTL DEF Spec

(* Once the handler on the loop waits behind the job's DDL and the DDL for  *)
(* a session the loop has yet to close, only a failing statement ends it.   *)
THEOREM DeadlockStays == Spec => DeadlockLasts
<1>1. ASSUME ServiceInv, [Next]_vars, Deadlocked,
             ~JobFails, \A r \in Requests : ~ExecuteFails(r)
      PROVE  Deadlocked'
    <2> USE <1>1 DEF ServiceInv
    <2>1. PICK r \in Requests : phase[r] = "open" /\ pos \in Held(r)
        BY DEF Deadlocked
    <2>2. /\ job = "wait" /\ loop \in conn /\ loop \in Requests
          /\ loop # Free /\ phase[loop] = "running"
          /\ Statements(loop)[step[loop] + 1] = pos
        BY ServiceLoopAssumption DEF Deadlocked, TypeOK, LoopOwner
    <2>3. UNCHANGED vars \/ \E q \in Requests : Close(q)
        BY <2>1, <2>2
        DEF Next, Job, JobStart, JobSkips, JobRequestsLock, JobGetsLock,
            JobCommits, Request, Handler, Arrive, Begin, Checkout, Refuse,
            CheckoutTimesOut, Execute, JobTable, DispatchClose
    <2>4. CASE UNCHANGED vars
        BY <2>1, <2>2, <2>4 DEF vars, Deadlocked, Held, Statements
    <2>5. ASSUME NEW q \in Requests, Close(q)
          PROVE  Deadlocked'
        <3>1. q # r /\ q # loop
            BY <2>1, <2>2, <2>5 DEF Close
        <3>2. Held(r)' = Held(r) /\ phase'[r] = "open"
            BY <2>1, <2>5, <3>1 DEF Close, Held, TypeOK
        <3>3. step'[loop] = step[loop] /\ loop' = loop /\ loop \in conn'
            BY <2>2, <2>5, <3>1 DEF Close, TypeOK
        <3> QED
            BY <2>1, <2>2, <2>5, <3>2, <3>3 DEF Close, Deadlocked, Statements
    <2> QED
        BY <2>3, <2>4, <2>5
<1>2. ServiceInv /\ [Next]_vars =>
        [Deadlocked => Deadlocked' \/ JobFails \/ \E r \in Requests : ExecuteFails(r)]_vars
    BY <1>1
<1> QED
    BY <1>2, ServiceCorrect, PTL DEF Spec, DeadlockLasts

-----------------------------------------------------------------------------
(* Where an occupied loop can stand still.                                  *)

(* A connection whose session nobody is closing is the running handler's or *)
(* an open session's.                                                       *)
LEMMA HolderStands ==
    ASSUME ServiceInv, NEW r \in conn, phase[r] # "closing"
    PROVE  r \in Requests /\ (loop = r \/ phase[r] = "open")
BY DEF ServiceInv, TypeOK, LoopOwner, NoConnectionLeaks

(* The running handler holds no lock on the table of its next statement.    *)
LEMMA OwnLocksApart ==
    ASSUME ServiceInv, loop \in Requests
    PROVE  /\ Statements(loop)[step[loop] + 1] \in Tables
           /\ Statements(loop)[step[loop] + 1] \notin Held(loop)
<1>1. /\ step[loop] \in Nat /\ step[loop] < Len(Statements(loop))
    BY DEF ServiceInv, TypeOK, LoopOwner
<1>2. CASE loop \in Posts
    BY <1>1, <1>2, StatementFacts DEF Held
<1>3. CASE loop \notin Posts
    <2>1. step[loop] + 1 \in Tables
        BY <1>1, <1>3, StatementFacts, ServiceLoopAssumption DEF Tables
    <2>2. Statements(loop)[step[loop] + 1] = step[loop] + 1
        BY <1>3, <2>1, StatementFacts
    <2>3. Held(loop) \subseteq 1 .. step[loop]
        BY <1>3 DEF Held
    <2> QED
        BY <1>1, <2>1, <2>2, <2>3
<1> QED
    BY <1>2, <1>3

(* Whatever the number of requests and connections: when the loop is        *)
(* occupied and no thread can go on, it is the deadlock with the daily job  *)
(* (api.py:352-382, models.py:103-110 and 425-428, partitioning.py:122-124). *)
THEOREM StallCorrect == Spec => []StallIsDeadlock
<1>1. ASSUME ServiceInv, Stalled
      PROVE  Deadlocked
    <2> USE <1>1
    <2>1. loop \in Requests /\ loop \in conn
        BY DEF Stalled, HandlerWaits, ServiceInv, TypeOK
    <2> DEFINE want == Statements(loop)[step[loop] + 1]
    <2>2. want \in Tables /\ want \notin Held(loop) /\ want = JobTable
        BY <2>1, OwnLocksApart DEF Stalled, HandlerWaits
    <2> HIDE DEF want
    <2>3. job \in {"wait", "ddl"} /\ want = pos
        BY <2>2, ServiceLoopAssumption DEF JobTable
    <2>4. job = "wait" /\ \E r \in Requests : pos \in Held(r)
        BY <2>3 DEF Stalled, JobWaits
    <2>5. PICK r \in Requests : pos \in Held(r)
        BY <2>4
    <2>6. r \in conn /\ r # loop
        BY <2>2, <2>3, <2>5 DEF Held
    <2>7. phase[r] = "open"
        BY <2>6, HolderStands DEF Stalled
    <2> QED
        BY <2>1, <2>3, <2>4, <2>5, <2>7 DEF Deadlocked, want
<1>2. ServiceInv => StallIsDeadlock
    BY <1>1 DEF StallIsDeadlock
<1> QED
    BY <1>2, ServiceCorrect, PTL

(* The tables a request's statements lock.                                  *)
Touched(r) == {Statements(r)[k] : k \in 1 .. Len(Statements(r))}

(* The job asks for locks only where it has something to create or drop.    *)
DDLWhereDue == job \in {"wait", "ddl"} => pos \in DDLTables

LEMMA HeldIsTouched ==
    ASSUME ServiceInv, NEW r \in Requests
    PROVE  Held(r) \subseteq Touched(r)
<1>1. step[r] \in Nat /\ step[r] <= Len(Statements(r))
    BY DEF ServiceInv, TypeOK
<1>2. CASE r \in Posts
    BY <1>2, StatementFacts DEF Held, Touched
<1>3. CASE r \notin Posts
    <2>1. ASSUME NEW k \in 1 .. step[r]
          PROVE  k \in 1 .. Len(Statements(r)) /\ Statements(r)[k] = k
        BY <1>1, <1>3, StatementFacts, ServiceLoopAssumption DEF Tables
    <2>2. Held(r) \subseteq 1 .. step[r]
        BY <1>3 DEF Held
    <2> QED
        BY <2>1, <2>2 DEF Touched
<1> QED
    BY <1>2, <1>3

(* The deadlock needs a table whose partitions the job changes and which    *)
(* two requests use; where requests and maintenance are on different        *)
(* tables, or a table has one request at most, it cannot arise.             *)
THEOREM DeadlockNeedsSharing ==
    Spec => [](Deadlocked =>
                /\ pos \in DDLTables
                /\ \E q, r \in Requests : q # r /\ pos \in Touched(q) \cap Touched(r))
<1>1. Init => DDLWhereDue
    BY DEF Init, DDLWhereDue
<1>2. ASSUME DDLWhereDue, [Next]_vars
      PROVE  DDLWhereDue'
    <2>1. UNCHANGED <<job, pos>> \/ Job
        BY <1>2 DEF Next, Request, Handler, Arrive, Begin, Checkout, CheckoutTimesOut,
            Execute, ExecuteFails, Refuse, DispatchClose, Close, vars
    <2> QED
        BY <1>2, <2>1 DEF DDLWhereDue, Job, JobStart, JobSkips, JobRequestsLock,
            JobGetsLock, JobCommits, JobFails, JobAdvances
<1>3. ASSUME ServiceInv, DDLWhereDue, Deadlocked
      PROVE  /\ pos \in DDLTables
             /\ \E q, r \in Requests : q # r /\ pos \in Touched(q) \cap Touched(r)
    <2> USE <1>3
    <2>1. PICK r \in Requests : phase[r] = "open" /\ pos \in Held(r)
        BY DEF Deadlocked
    <2>2. /\ job = "wait" /\ loop \in Requests /\ phase[loop] = "running"
          /\ Statements(loop)[step[loop] + 1] = pos
        BY DEF Deadlocked, ServiceInv, TypeOK, LoopOwner
    <2>3. step[loop] + 1 \in 1 .. Len(Statements(loop))
        BY <2>2, StatementFacts DEF ServiceInv, TypeOK, LoopOwner
    <2>4. pos \in Touched(loop) /\ pos \in Touched(r) /\ loop # r
        BY <2>1, <2>2, <2>3, HeldIsTouched DEF Touched
    <2> QED
        BY <2>2, <2>4 DEF DDLWhereDue
<1> QED
    BY <1>1, <1>2, <1>3, ServiceCorrect, PTL DEF Spec
=============================================================================
