------------------------------- MODULE Ingest -------------------------------
(***************************************************************************)
(* POST /events, from the bytes of a request to its answer: the checks of    *)
(* src/security.py and src/schemas.py and the handler create_event of        *)
(* src/api.py, with the database failing, the process dying and the clock    *)
(* running between its steps.                                                *)
(*                                                                         *)
(* A delivery is one HTTP request that reaches the service.  Its content is   *)
(* an event some emitter signed, or a copy of an earlier delivery: whether    *)
(* by a proxy's retry or by someone who kept it, the bytes are the same.      *)
(***************************************************************************)
EXTENDS Integers

CONSTANTS
    Deliveries,     \* the requests
    Submissions,    \* what an emitter may send, see Contents
    Window,         \* REPLAY_WINDOW_SECONDS
    MaxTime,        \* bound of the clock
    Nothing         \* no delivery, no content

Times == 0 .. MaxTime

(* What the checks tell apart: whether the body is JSON, other text, or not  *)
(* text at all ("bytes" that are no UTF-8), the X-API-Key that came with it  *)
(* (none is a wrong one), whether it satisfies the schema of its event_type, *)
(* whether its signature is the one the receiver computes, and whether its   *)
(* values fit the columns (an INTEGER of 32 bits, an INET, TEXT without NUL), *)
(* which the schema does not ask.  A "strange" key or signature is one with  *)
(* characters outside ASCII (int(v, 16) takes any decimal digit), on which   *)
(* hmac.compare_digest raises instead of comparing.                          *)
Contents == [body : {"json", "text", "bytes"}, key : {"wrong", "strange", "right"},
             valid : BOOLEAN, signature : {"wrong", "strange", "right"},
             fits : BOOLEAN]

ASSUME IngestAssumption ==
    /\ Window \in Nat
    /\ MaxTime \in Nat
    /\ Submissions \subseteq Contents
    /\ Nothing \notin Deliveries
    /\ Nothing \notin [content : Contents, ts : Int]

VARIABLES
    now,      \* the wall clock, in seconds
    dbUp,     \* whether the database serves statements
    secrets,  \* which of LOGGER_API_KEY, LOGGER_HMAC_SECRET are configured
    message,  \* content and client_timestamp of each delivery, or Nothing
    stage,    \* where each delivery stands
    running,  \* the delivery whose handler occupies the loop, or Nothing
    checked,  \* history: when the window of each delivery was checked
    created,  \* the created_at stamped for each delivery
    stored,   \* the deliveries whose row is committed
    answer    \* the status sent for each delivery, 0 before

world == <<now, dbUp, secrets>>
vars  == <<world, message, stage, running, checked, created, stored, answer>>

Messages == [content : Contents, ts : Times]

TypeOK ==
    /\ now \in Times
    /\ dbUp \in BOOLEAN
    /\ secrets \in [apiKey : BOOLEAN, hmac : BOOLEAN]
    /\ message \in [Deliveries -> Messages \cup {Nothing}]
    /\ stage \in [Deliveries -> {"unsent", "received", "ready", "stamp",
                                 "insert", "commit", "refresh", "ended"}]
    /\ running \in Deliveries \cup {Nothing}
    /\ checked \in [Deliveries -> Times]
    /\ created \in [Deliveries -> Times]
    /\ stored \subseteq Deliveries
    /\ answer \in [Deliveries -> {0, 201, 400, 401, 422, 500}]

Init ==
    /\ now \in Times
    /\ dbUp = TRUE
    /\ secrets \in [apiKey : BOOLEAN, hmac : BOOLEAN]
    /\ message = [d \in Deliveries |-> Nothing]
    /\ stage = [d \in Deliveries |-> "unsent"]
    /\ running = Nothing
    /\ checked = [d \in Deliveries |-> 0]
    /\ created = [d \in Deliveries |-> 0]
    /\ stored = {}
    /\ answer = [d \in Deliveries |-> 0]

-----------------------------------------------------------------------------
(* The environment.                                                         *)

Tick ==
    /\ now < MaxTime
    /\ now' = now + 1
    /\ UNCHANGED <<dbUp, secrets, message, stage, running, checked, created,
                   stored, answer>>

DatabaseToggles ==
    /\ dbUp' = ~dbUp
    /\ UNCHANGED <<now, secrets, message, stage, running, checked, created,
                   stored, answer>>

(* An emitter's clock may be wrong: client_timestamp is any time.           *)
Submit(d) ==
    /\ stage[d] = "unsent"
    /\ \E c \in Submissions, ts \in Times :
        message' = [message EXCEPT ![d] = [content |-> c, ts |-> ts]]
    /\ stage' = [stage EXCEPT ![d] = "received"]
    /\ UNCHANGED <<world, running, checked, created, stored, answer>>

Resubmit(d) ==
    /\ stage[d] = "unsent"
    /\ \E e \in Deliveries :
        /\ message[e] # Nothing
        /\ message' = [message EXCEPT ![d] = message[e]]
    /\ stage' = [stage EXCEPT ![d] = "received"]
    /\ UNCHANGED <<world, running, checked, created, stored, answer>>

(* The process dies: requests in it get no answer, a transaction that was   *)
(* not committed is gone; emitters do not retry.                            *)
Crash ==
    /\ stage' = [d \in Deliveries |->
                    IF stage[d] = "unsent" THEN "unsent" ELSE "ended"]
    /\ running' = Nothing
    /\ UNCHANGED <<world, message, checked, created, stored, answer>>

-----------------------------------------------------------------------------
(* Answers.                                                                 *)

Answer(d, status) ==
    /\ stage' = [stage EXCEPT ![d] = "ended"]
    /\ answer' = [answer EXCEPT ![d] = status]

(* A body that is not JSON is refused before the dependencies run: one that *)
(* does not parse as an invalid request, one that cannot be read as a bad   *)
(* one.                                                                     *)
RefuseBody(d) ==
    /\ stage[d] = "received"
    /\ running = Nothing
    /\ \/ message[d].content.body = "text"  /\ Answer(d, 422)
       \/ message[d].content.body = "bytes" /\ Answer(d, 400)
    /\ UNCHANGED <<world, message, running, checked, created, stored>>

(* Mutant of KeyStatus: an unconfigured key lets everything through.        *)
KeyStatusLax(c) ==
    IF secrets.apiKey /\ c.key # "right" THEN 401 ELSE 0

(* require_logger_api_key: the status it raises, 0 if it lets pass.  What   *)
(* is no HTTPException is answered by unhandled_exception_handler.          *)
KeyStatus(c) ==
    IF ~secrets.apiKey \/ c.key = "strange" THEN 500
    ELSE IF c.key # "right" THEN 401
    ELSE 0

RefuseKey(d) ==
    /\ stage[d] = "received"
    /\ running = Nothing
    /\ message[d].content.body = "json"
    /\ KeyStatus(message[d].content) # 0
    /\ Answer(d, KeyStatus(message[d].content))
    /\ UNCHANGED <<world, message, running, checked, created, stored>>

(* The envelope and the payload are validated once the key has passed.      *)
RefuseSchema(d) ==
    /\ stage[d] = "received"
    /\ running = Nothing
    /\ message[d].content.body = "json"
    /\ KeyStatus(message[d].content) = 0
    /\ ~message[d].content.valid
    /\ Answer(d, 422)
    /\ UNCHANGED <<world, message, running, checked, created, stored>>

Admit(d) ==
    /\ stage[d] = "received"
    /\ running = Nothing
    /\ message[d].content.body = "json"
    /\ KeyStatus(message[d].content) = 0
    /\ message[d].content.valid
    /\ stage' = [stage EXCEPT ![d] = "ready"]
    /\ UNCHANGED <<world, message, running, checked, created, stored, answer>>

-----------------------------------------------------------------------------
(* create_event.                                                            *)

(* Mutant of InWindow: only events from the future are measured.            *)
InWindowOneSided(ts) == ts - now <= Window

(* verify_replay_window: the skew may equal the window, in both directions. *)
InWindow(ts) == ts - Window <= now /\ now <= ts + Window

(* verify_event: the window first, then the signature, which needs the      *)
(* secret.  The status of the refusal, 0 if all checks pass.                *)
VerifyStatus(m) ==
    IF ~InWindow(m.ts) \/ ~secrets.hmac THEN 401
    ELSE IF m.content.signature = "strange" THEN 500
    ELSE IF m.content.signature = "wrong" THEN 401
    ELSE 0

(* The handler starts.                                                      *)
Verify(d) ==
    /\ stage[d] = "ready"
    /\ running = Nothing
    /\ \/ /\ VerifyStatus(message[d]) # 0
          /\ Answer(d, VerifyStatus(message[d]))
          /\ UNCHANGED <<running, checked>>
       \/ /\ VerifyStatus(message[d]) = 0
          /\ stage' = [stage EXCEPT ![d] = "stamp"]
          /\ running' = d
          /\ checked' = [checked EXCEPT ![d] = now]
          /\ UNCHANGED answer
    /\ UNCHANGED <<world, message, created, stored>>

(* Mutant of Stamp: the emitter's time is taken for the receiver's.         *)
StampByEmitter(d) ==
    /\ stage[d] = "stamp"
    /\ created' = [created EXCEPT ![d] = message[d].ts]
    /\ stage' = [stage EXCEPT ![d] = "insert"]
    /\ UNCHANGED <<world, message, running, checked, stored, answer>>

(* created_at is a second reading of the clock, and the row is built.       *)
Stamp(d) ==
    /\ stage[d] = "stamp"
    /\ created' = [created EXCEPT ![d] = now]
    /\ stage' = [stage EXCEPT ![d] = "insert"]
    /\ UNCHANGED <<world, message, running, checked, stored, answer>>

(* Mutant of PersistenceFails: what the database did not take is answered   *)
(* like what the schema does not admit.                                     *)
FailsAsRefusal(d) ==
    /\ Answer(d, 422)
    /\ running' = Nothing

(* The except branch: rollback, HTTPException(500).                         *)
PersistenceFails(d) ==
    /\ Answer(d, 500)
    /\ running' = Nothing

(* db.add is flushed by db.commit: INSERT ...                               *)
Insert(d) ==
    /\ stage[d] = "insert"
    /\ IF dbUp /\ message[d].content.fits
       THEN /\ stage' = [stage EXCEPT ![d] = "commit"]
            /\ UNCHANGED <<running, answer>>
       ELSE PersistenceFails(d)
    /\ UNCHANGED <<world, message, checked, created, stored>>

(* Mutant of Commit: an error of the commit is ignored.                     *)
CommitUnchecked(d) ==
    /\ stage[d] = "commit"
    /\ stored' \in IF dbUp THEN {stored \cup {d}} ELSE {stored, stored \cup {d}}
    /\ stage' = [stage EXCEPT ![d] = "refresh"]
    /\ UNCHANGED <<world, message, running, checked, created, answer>>

(* ... then COMMIT.  When the connection breaks under it, the transaction   *)
(* has been committed or not, and the handler cannot tell.                  *)
Commit(d) ==
    /\ stage[d] = "commit"
    /\ \/ /\ dbUp
          /\ stored' = stored \cup {d}
          /\ stage' = [stage EXCEPT ![d] = "refresh"]
          /\ UNCHANGED <<running, answer>>
       \/ /\ ~dbUp
          /\ stored' \in {stored, stored \cup {d}}
          /\ PersistenceFails(d)
    /\ UNCHANGED <<world, message, checked, created>>

(* db.refresh, a SELECT in a transaction of its own: the row is committed.  *)
Refresh(d) ==
    /\ stage[d] = "refresh"
    /\ IF dbUp
       THEN /\ Answer(d, 201)
            /\ running' = Nothing
       ELSE PersistenceFails(d)
    /\ UNCHANGED <<world, message, checked, created, stored>>

-----------------------------------------------------------------------------
Serve(d) ==
    \/ RefuseBody(d) \/ RefuseKey(d) \/ RefuseSchema(d) \/ Admit(d)
    \/ Verify(d) \/ Stamp(d) \/ Insert(d) \/ Commit(d) \/ Refresh(d)

Next ==
    \/ Tick \/ DatabaseToggles \/ Crash
    \/ \E d \in Deliveries : Submit(d) \/ Resubmit(d) \/ Serve(d)

Spec == Init /\ [][Next]_vars

-----------------------------------------------------------------------------
(* Properties.                                                              *)

(* A 201 is never sent for a row that is not committed, whenever the        *)
(* database fails or the process dies (api.py:352-382).                     *)
AckedIsStored == \A d \in Deliveries : answer[d] = 201 => d \in stored

(* A 400, a 401 or a 422 says that nothing was stored (DATASHEET.md:485,    *)
(* "No row is written"), whatever fails once the event has been accepted.   *)
RefusedLeavesNoRow ==
    \A d \in Deliveries : answer[d] \in {400, 401, 422} => d \notin stored

(* Every stored row came with the right key, a valid payload and a matching *)
(* signature, under configured secrets; its window was checked against a    *)
(* time no later than its created_at, however long its insert took          *)
(* (api.py:282-301).                                                        *)
StoredIsVerified ==
    \A d \in stored :
        LET m == message[d] IN
        /\ secrets.apiKey /\ secrets.hmac
        /\ m.content.key = "right" /\ m.content.signature = "right"
        /\ m.content.valid
        /\ m.ts - Window <= checked[d] /\ checked[d] <= m.ts + Window
        /\ checked[d] <= created[d]

(* Why these hold.  Before its commit a delivery has neither row nor        *)
(* answer; what has passed a check keeps on satisfying it.                  *)
Sent ==
    \A d \in Deliveries : stage[d] = "unsent" \/ message[d] \in Messages

UndecidedIsClean ==
    \A d \in Deliveries :
        /\ stage[d] \in {"unsent", "received", "ready", "stamp", "insert", "commit"}
            => d \notin stored
        /\ stage[d] # "ended" => answer[d] = 0

RefreshedIsStored == \A d \in Deliveries : stage[d] = "refresh" => d \in stored

AdmittedIsAuthorised ==
    \A d \in Deliveries :
        (stage[d] \in {"ready", "stamp", "insert", "commit", "refresh"} \/ d \in stored)
            => /\ KeyStatus(message[d].content) = 0
               /\ message[d].content.valid

VerifiedInWindow ==
    \A d \in Deliveries :
        (stage[d] \in {"stamp", "insert", "commit", "refresh"} \/ d \in stored)
            => /\ secrets.hmac
               /\ message[d].content.signature = "right"
               /\ message[d].ts - Window <= checked[d]
               /\ checked[d] <= message[d].ts + Window
               /\ checked[d] <= now

StampedAfterCheck ==
    \A d \in Deliveries :
        (stage[d] \in {"insert", "commit", "refresh"} \/ d \in stored)
            => checked[d] <= created[d] /\ created[d] <= now

IngestInv ==
    /\ TypeOK
    /\ Sent
    /\ UndecidedIsClean
    /\ RefreshedIsStored
    /\ AdmittedIsAuthorised
    /\ VerifiedInWindow
    /\ StampedAfterCheck
    /\ AckedIsStored
    /\ RefusedLeavesNoRow

(* The replay window bounds resubmission (README.md:180): a copy whose      *)
(* handler has not started when the window of the event is over is never    *)
(* stored.                                                                  *)
LateCopyNeverStored ==
    \A d \in Deliveries :
        [](  (/\ stage[d] \in {"received", "ready"}
              /\ now > message[d].ts + Window)
           => [](d \notin stored))

(* The service keeps what it promises its emitters: every delivery is       *)
(* decided once, an answer is true of the row from then on, and created_at  *)
(* is the receiver's time, whatever fails between two steps                 *)
(* (api.py:241-382).                                                        *)
Promise == INSTANCE Ledger WITH
    open <- {d \in Deliveries : stage[d] # "ended"},
    rows <- {[id |-> d, at |-> created[d]] : d \in stored}
LedgerImplemented == Promise!Spec

(* "HTTPException(500): On database persistence failure" (api.py:264): a    *)
(* delivery answered with 500 has no row.                                   *)
FailureLeavesNoRow ==
    \A d \in Deliveries : answer[d] = 500 => d \notin stored
=============================================================================
