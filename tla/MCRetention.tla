---------------------------- MODULE MCRetention ----------------------------
(* Small calendars and instances of Retention for TLC.                      *)
EXTENDS Retention, TLC

(* A first month of two days, then months of one day each.                  *)
LongFirstStart == [m \in 0 .. LastMonth + 1 |-> IF m = 0 THEN 0 ELSE m + 1]
LongFirstOf == [d \in 0 .. LastMonth |-> IF d < 2 THEN 0 ELSE d - 1]

(* Months of one day each.                                                  *)
ShortStart == [m \in 0 .. LastMonth + 1 |-> m]
ShortOf == [d \in 0 .. LastMonth - 1 |-> d]

(* A window of one day for the first table and of minus one for the second; *)
(* the tightest sound window for all.                                       *)
Windows == [t \in 1 .. NumTables |-> IF t = 1 THEN 1 ELSE -1]
NoWindow == [t \in 1 .. NumTables |-> 0]

(* The instances are interchangeable.                                       *)
InstanceSymmetry == Permutations(Instances)
=============================================================================
