-------------------------------- MODULE Ledger --------------------------------
(***************************************************************************)
(* What POST /events promises its emitters: each delivery is decided once.    *)
(* While it is open a row for it may be written, one at most, dated no later  *)
(* than the present; it is closed by the one answer it gets, or without one    *)
(* when the process dies.  What an answer says of the row is true when it is   *)
(* sent and for ever after: nothing changes for a closed delivery.            *)
(***************************************************************************)
EXTENDS Integers

CONSTANTS
    Deliveries,   \* the requests
    Times         \* the readings of the clock

VARIABLES
    now,      \* the clock
    open,     \* the deliveries that are not decided yet
    rows,     \* the committed rows: the delivery and created_at
    answer    \* the status sent for each delivery, 0 before

vars == <<now, open, rows, answer>>

Init ==
    /\ now \in Times
    /\ open = Deliveries
    /\ rows = {}
    /\ answer = [d \in Deliveries |-> 0]

HasRow(d) == \E r \in rows : r.id = d

Clock ==
    /\ now' \in Times
    /\ now' >= now
    /\ UNCHANGED <<open, rows, answer>>

Record(d) ==
    /\ d \in open
    /\ ~HasRow(d)
    /\ \E t \in Times : t <= now /\ rows' = rows \cup {[id |-> d, at |-> t]}

Close(d, status) ==
    /\ d \in open
    /\ open' = open \ {d}
    /\ answer' = [answer EXCEPT ![d] = status]

Write(d) == Record(d) /\ UNCHANGED <<now, open, answer>>

Acknowledge(d) == HasRow(d) /\ Close(d, 201) /\ UNCHANGED <<now, rows>>

Refuse(d) ==
    /\ ~HasRow(d)
    /\ \E status \in {400, 401, 422} : Close(d, status)
    /\ UNCHANGED <<now, rows>>

(* A 500 says nothing of the row.                                           *)
Fail(d) == Close(d, 500) /\ (Record(d) \/ UNCHANGED rows) /\ UNCHANGED now

Die ==
    /\ open' \in SUBSET open
    /\ UNCHANGED <<now, rows, answer>>

Next ==
    \/ Clock \/ Die
    \/ \E d \in Deliveries : Write(d) \/ Acknowledge(d) \/ Refuse(d) \/ Fail(d)

Spec == Init /\ [][Next]_vars
=============================================================================
