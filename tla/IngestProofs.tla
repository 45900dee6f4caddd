---------------------------- MODULE IngestProofs ----------------------------
(***************************************************************************)
(* Theorems about Ingest, for any number of deliveries, any contents, any   *)
(* replay window and any bound of the clock.                                *)
(***************************************************************************)
EXTENDS Ingest, TLAPS

LEMMA InvInit == Init => IngestInv
BY IngestAssumption
DEF Init, IngestInv, TypeOK, Times, Sent, UndecidedIsClean, RefreshedIsStored,
    AdmittedIsAuthorised, VerifiedInWindow, StampedAfterCheck, AckedIsStored,
    RefusedLeavesNoRow

-----------------------------------------------------------------------------
(* Every step keeps the invariant: one lemma per group of actions.          *)

LEMMA EnvironmentStep ==
    ASSUME IngestInv, Tick \/ DatabaseToggles \/ Crash
    PROVE  IngestInv'
<1>1. CASE Tick
    BY <1>1, IngestAssumption
    DEF IngestInv, TypeOK, Times, Sent, UndecidedIsClean, RefreshedIsStored,
        AdmittedIsAuthorised, VerifiedInWindow, StampedAfterCheck,
        AckedIsStored, RefusedLeavesNoRow, KeyStatus, Tick
<1>2. CASE DatabaseToggles
    BY <1>2
    DEF IngestInv, TypeOK, Sent, UndecidedIsClean, RefreshedIsStored,
        AdmittedIsAuthorised, VerifiedInWindow, StampedAfterCheck,
        AckedIsStored, RefusedLeavesNoRow, KeyStatus, DatabaseToggles
<1>3. CASE Crash
    BY <1>3
    DEF IngestInv, TypeOK, Sent, UndecidedIsClean, RefreshedIsStored,
        AdmittedIsAuthorised, VerifiedInWindow, StampedAfterCheck,
        AckedIsStored, RefusedLeavesNoRow, KeyStatus, Crash, world
<1> QED
    BY <1>1, <1>2, <1>3

LEMMA SubmitStep ==
    ASSUME IngestInv, NEW d \in Deliveries, Submit(d) \/ Resubmit(d)
    PROVE  IngestInv'
<1>1. PICK m \in Messages : message' = [message EXCEPT ![d] = m]
    <2>1. CASE Submit(d)
        <3>1. PICK c \in Submissions, ts \in Times :
                message' = [message EXCEPT ![d] = [content |-> c, ts |-> ts]]
            BY <2>1 DEF Submit
        <3>2. [content |-> c, ts |-> ts] \in Messages
            BY IngestAssumption DEF Messages
        <3> QED
            BY <3>1, <3>2
    <2>2. CASE Resubmit(d)
        <3>1. PICK e \in Deliveries :
                /\ message[e] # Nothing
                /\ message' = [message EXCEPT ![d] = message[e]]
            BY <2>2 DEF Resubmit
        <3>2. message[e] \in Messages
            BY <3>1 DEF IngestInv, TypeOK
        <3> QED
            BY <3>1, <3>2
    <2> QED
        BY <2>1, <2>2
<1>2. /\ stage[d] = "unsent"
      /\ stage' = [stage EXCEPT ![d] = "received"]
      /\ UNCHANGED <<now, dbUp, secrets, running, checked, created, stored, answer>>
    BY DEF Submit, Resubmit, world
<1>3. d \notin stored
    BY <1>2 DEF IngestInv, UndecidedIsClean
<1>4. TypeOK' /\ Sent'
    BY <1>1, <1>2 DEF IngestInv, TypeOK, Sent
<1>5. /\ UndecidedIsClean' /\ RefreshedIsStored'
      /\ AckedIsStored' /\ RefusedLeavesNoRow'
    BY <1>2, <1>3
    DEF IngestInv, TypeOK, UndecidedIsClean, RefreshedIsStored, AckedIsStored,
        RefusedLeavesNoRow
<1>6. AdmittedIsAuthorised' /\ VerifiedInWindow' /\ StampedAfterCheck'
    BY <1>1, <1>2, <1>3
    DEF IngestInv, TypeOK, AdmittedIsAuthorised, VerifiedInWindow,
        StampedAfterCheck, KeyStatus
<1> QED
    BY <1>4, <1>5, <1>6 DEF IngestInv

LEMMA RefuseStep ==
    ASSUME IngestInv, NEW d \in Deliveries,
           RefuseBody(d) \/ RefuseKey(d) \/ RefuseSchema(d) \/ Admit(d)
    PROVE  IngestInv'
<1>1. CASE RefuseBody(d) \/ RefuseKey(d) \/ RefuseSchema(d)
    <2>1. PICK status \in {400, 401, 422, 500} : Answer(d, status)
        BY <1>1 DEF RefuseBody, RefuseKey, RefuseSchema, KeyStatus
    <2>2. /\ stage[d] = "received"
          /\ UNCHANGED <<now, dbUp, secrets, message, running, checked, created, stored>>
        BY <1>1 DEF RefuseBody, RefuseKey, RefuseSchema, world
    <2> QED
        BY <2>1, <2>2
        DEF IngestInv, TypeOK, Sent, UndecidedIsClean, RefreshedIsStored,
            AdmittedIsAuthorised, VerifiedInWindow, StampedAfterCheck,
            AckedIsStored, RefusedLeavesNoRow, KeyStatus, Answer
<1>2. CASE Admit(d)
    BY <1>2
    DEF IngestInv, TypeOK, Sent, UndecidedIsClean, RefreshedIsStored,
        AdmittedIsAuthorised, VerifiedInWindow, StampedAfterCheck,
        AckedIsStored, RefusedLeavesNoRow, KeyStatus, Admit, world
<1> QED
    BY <1>1, <1>2

LEMMA HandlerStep ==
    ASSUME IngestInv, NEW d \in Deliveries,
           Verify(d) \/ Stamp(d) \/ Insert(d) \/ Commit(d) \/ Refresh(d)
    PROVE  IngestInv'
<1>1. CASE Verify(d)
    <2>1. CASE VerifyStatus(message[d]) # 0
        <3>1. PICK status \in {401, 500} : Answer(d, status)
            BY <1>1, <2>1 DEF Verify, VerifyStatus
        <3>2. /\ stage[d] = "ready"
              /\ UNCHANGED <<now, dbUp, secrets, message, running, checked, created, stored>>
            BY <1>1, <2>1 DEF Verify, world
        <3> QED
            BY <3>1, <3>2
            DEF IngestInv, TypeOK, Sent, UndecidedIsClean, RefreshedIsStored,
                AdmittedIsAuthorised, VerifiedInWindow, StampedAfterCheck,
                AckedIsStored, RefusedLeavesNoRow, KeyStatus, Answer
    <2>2. CASE VerifyStatus(message[d]) = 0
        <3>1. /\ stage[d] = "ready"
              /\ stage' = [stage EXCEPT ![d] = "stamp"]
              /\ running' = d
              /\ checked' = [checked EXCEPT ![d] = now]
              /\ UNCHANGED <<now, dbUp, secrets, message, created, stored, answer>>
            BY <1>1, <2>2 DEF Verify, world
        <3>2. message[d].content.signature \in {"wrong", "strange", "right"}
            BY <3>1 DEF IngestInv, Sent, Messages, Contents
        <3>3. /\ secrets.hmac /\ message[d].content.signature = "right"
              /\ message[d].ts - Window <= now /\ now <= message[d].ts + Window
            BY <2>2, <3>2 DEF VerifyStatus, InWindow
        <3>4. now \in Int
            BY IngestAssumption DEF IngestInv, TypeOK, Times
        <3> QED
            BY <3>1, <3>3, <3>4
            DEF IngestInv, TypeOK, Sent, UndecidedIsClean, RefreshedIsStored,
                AdmittedIsAuthorised, VerifiedInWindow, StampedAfterCheck,
                AckedIsStored, RefusedLeavesNoRow, KeyStatus
    <2> QED
        BY <2>1, <2>2
<1>2. CASE Stamp(d)
    <2>1. checked[d] <= now /\ now <= now
        BY <1>2, IngestAssumption DEF Stamp, IngestInv, TypeOK, Times, VerifiedInWindow
    <2> QED
        BY <1>2, <2>1
        DEF IngestInv, TypeOK, Sent, UndecidedIsClean, RefreshedIsStored,
            AdmittedIsAuthorised, VerifiedInWindow, StampedAfterCheck,
            AckedIsStored, RefusedLeavesNoRow, KeyStatus, Stamp, world
<1>3. CASE Insert(d)
    BY <1>3
    DEF IngestInv, TypeOK, Sent, UndecidedIsClean, RefreshedIsStored,
        AdmittedIsAuthorised, VerifiedInWindow, StampedAfterCheck,
        AckedIsStored, RefusedLeavesNoRow, KeyStatus, Insert, PersistenceFails, Answer, world
<1>4. CASE Commit(d)
    BY <1>4
    DEF IngestInv, TypeOK, Sent, UndecidedIsClean, RefreshedIsStored,
        AdmittedIsAuthorised, VerifiedInWindow, StampedAfterCheck,
        AckedIsStored, RefusedLeavesNoRow, KeyStatus, Commit, PersistenceFails, Answer, world
<1>5. CASE Refresh(d)
    BY <1>5
    DEF IngestInv, TypeOK, Sent, UndecidedIsClean, RefreshedIsStored,
        AdmittedIsAuthorised, VerifiedInWindow, StampedAfterCheck,
        AckedIsStored, RefusedLeavesNoRow, KeyStatus, Refresh, PersistenceFails, Answer, world
<1> QED
    BY <1>1, <1>2, <1>3, <1>4, <1>5

LEMMA InvStep ==
    ASSUME IngestInv, [Next]_vars
    PROVE  IngestInv'
<1>1. CASE UNCHANGED vars
    BY <1>1
    DEF IngestInv, TypeOK, Sent, UndecidedIsClean, RefreshedIsStored,
        AdmittedIsAuthorised, VerifiedInWindow, StampedAfterCheck,
        AckedIsStored, RefusedLeavesNoRow, KeyStatus, vars, world
<1>2. CASE Next
    BY <1>2, EnvironmentStep, SubmitStep, RefuseStep, HandlerStep
    DEF Next, Serve
<1> QED
    BY <1>1, <1>2

(* The invariant, the types among it, holds in every reachable state        *)
(* (api.py:241-382, security.py:96-137 and 206-313).                        *)
THEOREM IngestCorrect == Spec => []IngestInv
BY InvInit, InvStep, PTL DEF Spec

(* A 201 is only sent for a committed row (api.py:352-382).                 *)
THEOREM AckedCorrect == Spec => []AckedIsStored
BY IngestCorrect, PTL DEF IngestInv

(* A 400, 401 or 422 is only sent when nothing was stored (api.py:289-298). *)
THEOREM RefusedCorrect == Spec => []RefusedLeavesNoRow
BY IngestCorrect, PTL DEF IngestInv

(* Every stored row passed every check, its window one no later than its     *)
(* created_at (security.py:274-313, api.py:282-301).           *)
THEOREM StoredCorrect == Spec => []StoredIsVerified
<1>1. ASSUME IngestInv, NEW d \in stored
      PROVE  /\ secrets.apiKey /\ secrets.hmac
             /\ message[d].content.key = "right"
             /\ message[d].content.valid /\ message[d].content.signature = "right"
             /\ message[d].ts - Window <= checked[d]
             /\ checked[d] <= message[d].ts + Window
             /\ checked[d] <= created[d]
    <2>1. d \in Deliveries
        BY <1>1 DEF IngestInv, TypeOK
    <2>2. KeyStatus(message[d].content) = 0 /\ message[d].content.valid
        BY <1>1, <2>1 DEF IngestInv, AdmittedIsAuthorised
    <2>3. secrets.apiKey /\ message[d].content.key = "right"
        BY <2>2 DEF KeyStatus
    <2> QED
        BY <1>1, <2>1, <2>2, <2>3 DEF IngestInv, VerifiedInWindow, StampedAfterCheck
<1>2. IngestInv => StoredIsVerified
    BY <1>1 DEF StoredIsVerified
<1> QED
    BY <1>2, IngestCorrect, PTL

-----------------------------------------------------------------------------
(* Late copies.                                                             *)

(* A delivery whose handler finds the window closed, or that has ended      *)
(* without a row.                                                           *)
Doomed(d) ==
    /\ d \notin stored
    /\ \/ /\ stage[d] \in {"received", "ready"}
          /\ now > message[d].ts + Window
       \/ stage[d] = "ended"

LEMMA DoomedStep ==
    ASSUME IngestInv, NEW d \in Deliveries, Doomed(d), [Next]_vars
    PROVE  Doomed(d)'
<1>1. now \in Int /\ now' \in Int /\ now <= now' /\ Window \in Nat
    <2>1. now' = now \/ now' = now + 1
        BY DEF Next, Serve, Tick, DatabaseToggles, Crash, Submit, Resubmit,
               RefuseBody, RefuseKey, RefuseSchema, Admit, Verify, Stamp, Insert,
               Commit, Refresh, vars, world
    <2> QED
        BY <2>1, IngestAssumption DEF IngestInv, TypeOK, Times
<1>2. stage[d] # "unsent" /\ message[d] \in Messages
    BY DEF Doomed, IngestInv, Sent
<1>3. message'[d] = message[d]
    BY <1>2 DEF IngestInv, TypeOK, Next, Serve, Tick, DatabaseToggles, Crash,
           Submit, Resubmit, RefuseBody, RefuseKey, RefuseSchema, Admit,
           Verify, Stamp, Insert, Commit, Refresh, vars, world
<1>4. message[d].ts \in Int
    BY <1>2 DEF Messages, Times
<1>5. d \notin stored'
    BY DEF Doomed, IngestInv, TypeOK, Next, Serve, Tick, DatabaseToggles, Crash,
           Submit, Resubmit, RefuseBody, RefuseKey, RefuseSchema, Admit,
           Verify, Stamp, Insert, Commit, Refresh, vars, world
<1>6. stage'[d] = "ended" \/ (/\ stage[d] \in {"received", "ready"}
                              /\ stage'[d] \in {"received", "ready"})
    <2>1. ~(stage[d] = "ready" /\ InWindow(message[d].ts))
        BY <1>1, <1>4 DEF Doomed, InWindow
    <2> QED
        BY <2>1 DEF Doomed, IngestInv, TypeOK, Next, Serve, Tick,
           DatabaseToggles, Crash, Submit, Resubmit, RefuseBody, RefuseKey,
           RefuseSchema, Admit, Verify, VerifyStatus, Stamp, Insert, Commit, Refresh,
           PersistenceFails, Answer, vars, world
<1> QED
    BY <1>1, <1>3, <1>4, <1>5, <1>6 DEF Doomed

(* A copy whose handler has not started when the window is over is never    *)
(* stored (security.py:261-269).                                            *)
THEOREM LateCopyCorrect == Spec => LateCopyNeverStored
<1> SUFFICES ASSUME NEW d \in Deliveries
             PROVE  Spec => [](  (/\ stage[d] \in {"received", "ready"}
                                  /\ now > message[d].ts + Window)
                               => [](d \notin stored))
    BY DEF LateCopyNeverStored
<1>1. IngestInv /\ stage[d] \in {"received", "ready"} /\ now > message[d].ts + Window
        => Doomed(d)
    BY DEF Doomed, IngestInv, UndecidedIsClean
<1>2. IngestInv /\ Doomed(d) /\ [Next]_vars => Doomed(d)'
    BY DoomedStep
<1>3. Doomed(d) => d \notin stored
    BY DEF Doomed
<1> QED
    BY <1>1, <1>2, <1>3, IngestCorrect, PTL DEF Spec

-----------------------------------------------------------------------------
(* What the emitters are promised: Ingest implements Ledger.                *)

Open == {d \in Deliveries : stage[d] # "ended"}
Rows == {[id |-> d, at |-> created[d]] : d \in stored}

LEMMA RowIsStored ==
    ASSUME NEW d
    PROVE  Promise!HasRow(d) <=> d \in stored
<1>1. ASSUME d \in stored
      PROVE  Promise!HasRow(d)
    <2>1. [id |-> d, at |-> created[d]] \in Rows /\ [id |-> d, at |-> created[d]].id = d
        BY <1>1 DEF Rows
    <2> QED
        BY <2>1 DEF Rows, Promise!HasRow
<1>2. ASSUME Promise!HasRow(d)
      PROVE  d \in stored
    <2>1. PICK r \in Rows : r.id = d
        BY <1>2 DEF Rows, Promise!HasRow
    <2>2. PICK e \in stored : r = [id |-> e, at |-> created[e]]
        BY <2>1 DEF Rows
    <2> QED
        BY <2>1, <2>2
<1> QED
    BY <1>1, <1>2

LEMMA RowsKept ==
    ASSUME stored' = stored, \A d \in stored : created'[d] = created[d]
    PROVE  Rows' = Rows
BY DEF Rows

LEMMA OpenKept ==
    ASSUME \A d \in Deliveries : stage'[d] = "ended" <=> stage[d] = "ended"
    PROVE  Open' = Open
BY DEF Open

(* An answer closes the delivery it is sent for.                            *)
LEMMA AnswerCloses ==
    ASSUME TypeOK, NEW d \in Deliveries, NEW status, stage[d] # "ended", Answer(d, status)
    PROVE  Promise!Close(d, status)
<1>1. Open' = Open \ {d}
    BY DEF Answer, TypeOK, Open
<1> QED
    BY <1>1 DEF Answer, Open, Promise!Close

(* A commit writes the one row of its delivery.                             *)
LEMMA CommitRecords ==
    ASSUME IngestInv, NEW d \in Deliveries, stage[d] = "commit",
           stored' = stored \cup {d}, created' = created
    PROVE  Promise!Record(d)
<1>1. d \in Open /\ d \notin stored
    BY DEF IngestInv, UndecidedIsClean, Open
<1>2. created[d] \in Times /\ created[d] <= now
    BY DEF IngestInv, TypeOK, StampedAfterCheck
<1>3. Rows' = Rows \cup {[id |-> d, at |-> created[d]]}
    BY DEF Rows
<1> QED
    BY <1>1, <1>2, <1>3, RowIsStored DEF Promise!Record, Rows, Open

(* A refusal of a delivery that has no row, with whatever status it has.    *)
LEMMA RefusalCloses ==
    ASSUME IngestInv, NEW d \in Deliveries, NEW status \in {400, 401, 422, 500},
           stage[d] \in {"received", "ready"}, Answer(d, status),
           UNCHANGED <<now, created, stored>>
    PROVE  Promise!Refuse(d) \/ Promise!Fail(d)
<1>1. Promise!Close(d, status) /\ d \notin stored
    BY AnswerCloses DEF IngestInv, UndecidedIsClean
<1>2. Rows' = Rows
    BY RowsKept
<1>3. CASE status = 500
    BY <1>1, <1>2, <1>3 DEF Promise!Fail, Rows
<1>4. CASE status \in {400, 401, 422}
    BY <1>1, <1>2, <1>4, RowIsStored DEF Promise!Refuse, Rows
<1> QED
    BY <1>3, <1>4

LEMMA FailureCloses ==
    ASSUME TypeOK, NEW d \in Deliveries, stage[d] # "ended", PersistenceFails(d),
           UNCHANGED <<now, created, stored>>
    PROVE  Promise!Fail(d)
<1>1. Promise!Close(d, 500)
    BY AnswerCloses DEF PersistenceFails
<1>2. Rows' = Rows
    BY RowsKept
<1> QED
    BY <1>1, <1>2 DEF Promise!Fail, Rows

LEMMA LedgerInit == Init => Promise!Init
<1> SUFFICES ASSUME Init PROVE Promise!Init
    OBVIOUS
<1>1. Open = Deliveries /\ Rows = {}
    BY DEF Init, Open, Rows
<1> QED
    BY <1>1 DEF Init, Open, Rows, Promise!Init

(* What happens around a delivery decides nothing, except that a crash      *)
(* closes what was under way.                                               *)
LEMMA AroundImplemented ==
    ASSUME IngestInv,
           Tick \/ DatabaseToggles \/ Crash
             \/ \E d \in Deliveries : Submit(d) \/ Resubmit(d)
    PROVE  [Promise!Next]_(Promise!vars)
<1>1. Rows' = Rows
    <2>1. UNCHANGED <<created, stored>>
        BY DEF Tick, DatabaseToggles, Crash, Submit, Resubmit
    <2> QED
        BY <2>1, RowsKept
<1>2. CASE Tick
    <2>1. now' \in Times /\ now' >= now
        BY <1>2, IngestAssumption DEF Tick, Times, IngestInv, TypeOK
    <2>2. Open' = Open
        BY <1>2 DEF Tick, Open
    <2> QED
        BY <1>1, <1>2, <2>1, <2>2 DEF Tick, Open, Rows, Promise!Next, Promise!Clock
<1>3. CASE Crash
    <2>1. Open' \in SUBSET Open
        BY <1>3 DEF Crash, Open
    <2> QED
        BY <1>1, <1>3, <2>1 DEF Crash, world, Open, Rows, Promise!Next, Promise!Die
<1>4. CASE DatabaseToggles \/ \E d \in Deliveries : Submit(d) \/ Resubmit(d)
    <2>1. Open' = Open
        BY <1>4, OpenKept DEF DatabaseToggles, Submit, Resubmit, IngestInv, TypeOK
    <2>2. UNCHANGED <<now, answer>>
        BY <1>4 DEF DatabaseToggles, Submit, Resubmit, world
    <2> QED
        BY <1>1, <2>1, <2>2 DEF Open, Rows, Promise!vars
<1> QED
    BY <1>2, <1>3, <1>4

(* Each step of a handler decides its delivery or nothing.                  *)
LEMMA ServeImplemented ==
    ASSUME IngestInv, NEW d \in Deliveries, Serve(d)
    PROVE  \/ Promise!Write(d) \/ Promise!Acknowledge(d)
           \/ Promise!Refuse(d) \/ Promise!Fail(d)
           \/ UNCHANGED Promise!vars
<1> USE DEF IngestInv
<1>1. CASE RefuseBody(d) \/ RefuseKey(d) \/ RefuseSchema(d)
    <2>1. PICK status \in {400, 401, 422, 500} : Answer(d, status)
        BY <1>1 DEF RefuseBody, RefuseKey, RefuseSchema, KeyStatus
    <2>2. stage[d] = "received" /\ UNCHANGED <<now, created, stored>>
        BY <1>1 DEF RefuseBody, RefuseKey, RefuseSchema, world
    <2> QED
        BY <2>1, <2>2, RefusalCloses
<1>2. CASE Verify(d) /\ VerifyStatus(message[d]) # 0
    <2>1. PICK status \in {400, 401, 422, 500} : Answer(d, status)
        BY <1>2 DEF Verify, VerifyStatus
    <2>2. stage[d] = "ready" /\ UNCHANGED <<now, created, stored>>
        BY <1>2 DEF Verify, world
    <2> QED
        BY <2>1, <2>2, RefusalCloses
<1>3. CASE Admit(d) \/ Stamp(d) \/ (Verify(d) /\ VerifyStatus(message[d]) = 0)
    <2>1. /\ stage[d] \in {"received", "ready", "stamp"}
          /\ \E to \in {"ready", "stamp", "insert"} : stage' = [stage EXCEPT ![d] = to]
          /\ UNCHANGED <<now, stored, answer>>
        BY <1>3 DEF Admit, Stamp, Verify, world
    <2>2. Open' = Open
        BY <2>1, OpenKept DEF TypeOK
    <2>3. \A e \in stored : e # d /\ created'[e] = created[e]
        BY <1>3, <2>1 DEF Admit, Stamp, Verify, TypeOK, UndecidedIsClean
    <2>4. Rows' = Rows
        BY <2>1, <2>3, RowsKept
    <2> QED
        BY <2>1, <2>2, <2>4 DEF Open, Rows, Promise!vars
<1>4. CASE Insert(d)
    <2>1. CASE dbUp /\ message[d].content.fits
        <3>1. /\ stage[d] = "insert" /\ stage' = [stage EXCEPT ![d] = "commit"]
              /\ UNCHANGED <<now, created, stored, answer>>
            BY <1>4, <2>1 DEF Insert, world
        <3>2. Open' = Open /\ Rows' = Rows
            BY <3>1, OpenKept, RowsKept DEF TypeOK
        <3> QED
            BY <3>1, <3>2 DEF Open, Rows, Promise!vars
    <2>2. CASE ~(dbUp /\ message[d].content.fits)
        BY <1>4, <2>2, FailureCloses DEF Insert, world
    <2> QED
        BY <2>1, <2>2
<1>5. CASE Commit(d)
    <2>1. stage[d] = "commit" /\ UNCHANGED <<now, created>>
        BY <1>5 DEF Commit, world
    <2>2. CASE dbUp /\ UNCHANGED answer
        <3>1. stored' = stored \cup {d} /\ stage' = [stage EXCEPT ![d] = "refresh"]
            BY <1>5, <2>2 DEF Commit
        <3>2. Open' = Open
            BY <2>1, <3>1, OpenKept DEF TypeOK
        <3>3. Promise!Record(d)
            BY <2>1, <3>1, CommitRecords
        <3> QED
            BY <2>1, <2>2, <3>2, <3>3 DEF Open, Promise!Write
    <2>3. CASE PersistenceFails(d) /\ stored' = stored \cup {d}
        <3>1. Promise!Close(d, 500)
            BY <2>1, <2>3, AnswerCloses DEF PersistenceFails
        <3>2. Promise!Record(d)
            BY <2>1, <2>3, CommitRecords
        <3> QED
            BY <2>1, <3>1, <3>2 DEF Promise!Fail
    <2>4. CASE PersistenceFails(d) /\ stored' = stored
        BY <2>1, <2>4, FailureCloses
    <2> QED
        BY <1>5, <2>2, <2>3, <2>4 DEF Commit
<1>6. CASE Refresh(d)
    <2>1. stage[d] = "refresh" /\ d \in stored /\ UNCHANGED <<now, created, stored>>
        BY <1>6 DEF Refresh, world, RefreshedIsStored
    <2>2. CASE dbUp
        <3>1. Promise!Close(d, 201)
            BY <1>6, <2>1, <2>2, AnswerCloses DEF Refresh
        <3>2. Rows' = Rows
            BY <2>1, RowsKept
        <3> QED
            BY <2>1, <3>1, <3>2, RowIsStored DEF Promise!Acknowledge, Rows
    <2>3. CASE ~dbUp
        BY <1>6, <2>1, <2>3, FailureCloses DEF Refresh
    <2> QED
        BY <2>2, <2>3
<1> QED
    BY <1>1, <1>2, <1>3, <1>4, <1>5, <1>6 DEF Serve

(* Every delivery is decided once; its answer is true of its row when it is *)
(* sent and stays true, and created_at is never ahead of the clock          *)
(* (api.py:241-382).                                                        *)
THEOREM LedgerRefinement == Spec => LedgerImplemented
<1>1. IngestInv /\ [Next]_vars => [Promise!Next]_(Promise!vars)
    <2> SUFFICES ASSUME IngestInv, [Next]_vars PROVE [Promise!Next]_(Promise!vars)
        OBVIOUS
    <2>1. CASE UNCHANGED vars
        <3>1. Open' = Open /\ Rows' = Rows
            BY <2>1 DEF vars, Open, Rows
        <3> QED
            BY <2>1, <3>1 DEF vars, world, Open, Rows, Promise!vars
    <2>2. CASE Tick \/ DatabaseToggles \/ Crash
                 \/ \E d \in Deliveries : Submit(d) \/ Resubmit(d)
        BY <2>2, AroundImplemented
    <2>3. ASSUME NEW d \in Deliveries, Serve(d)
          PROVE  [Promise!Next]_(Promise!vars)
        BY <2>3, ServeImplemented DEF Promise!Next
    <2> QED
        BY <2>1, <2>2, <2>3 DEF Next
<1> QED
    BY <1>1, LedgerInit, IngestCorrect, PTL DEF Spec, LedgerImplemented, Promise!Spec
=============================================================================
