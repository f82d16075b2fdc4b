---------------------------- MODULE MCSegmentTable ----------------------------
(* Instances of SegmentTable for TLC. *)
EXTENDS SegmentTable

\* "a" and "b" have the same hash, "c" has the home that follows theirs.
MCHashOf == [id \in Ids |-> IF id = "c" THEN 4 ELSE 3]

Times(insert, bulkInsert) ==
    [f \in Faults |-> IF f = "insert" THEN insert ELSE bulkInsert]

BudgetInsert == Times(1, 0)
BudgetBulk   == Times(0, 1)
================================================================================
