----------------------------- MODULE EventStore -----------------------------
(***************************************************************************)
(* What the logger promises about stored events, whatever its partitions,   *)
(* instances, restarts and outages do (README.md, "append-only" and the     *)
(* retention windows of src/scheduler.py): a row is stored with the date it  *)
(* was received on, is never changed, and goes only when it is older than    *)
(* the retention window of its table.                                       *)
(***************************************************************************)
EXTENDS Integers

CONSTANTS
    Tables,         \* the event tables
    Days,           \* the days of the modelled period
    RetentionDays   \* the retention window of each table

VARIABLES
    day,   \* today
    rows   \* the days each table holds rows of

vars == <<day, rows>>

Init ==
    /\ day \in Days
    /\ rows = [t \in Tables |-> {}]

Advance ==
    /\ day' \in Days
    /\ day' >= day
    /\ UNCHANGED rows

(* A row becomes visible on the day it was received on, or later.           *)
Append ==
    /\ \E t \in Tables, d \in Days :
        /\ d <= day
        /\ rows' = [rows EXCEPT ![t] = @ \cup {d}]
    /\ UNCHANGED day

(* Old rows of one table go, not necessarily all of them at once.           *)
Purge ==
    /\ \E t \in Tables : \E old \in SUBSET rows[t] :
        /\ \A d \in old : day - d > RetentionDays[t]
        /\ rows' = [rows EXCEPT ![t] = @ \ old]
    /\ UNCHANGED day

Next == Advance \/ Append \/ Purge

Spec == Init /\ [][Next]_vars
=============================================================================
